---------------------------- MODULE MCKeyPolicy ----------------------------
(* A small instance of KeyPolicy for TLC: the members of two ECDSA families. *)
EXTENDS KeyPolicy, TLC

MCAlgs == {Sign(f, h) : f \in {"ECDSA", "DETERMINISTIC_ECDSA"}, h \in {"NONE", "ANY", "SHA_256"}}
=============================================================================
