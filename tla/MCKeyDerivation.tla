-------------------------- MODULE MCKeyDerivation --------------------------
(* Small instances of KeyDerivation for TLC. *)
EXTENDS KeyDerivation

(* The raw agreement and every algorithm alone, two more under an agreement. *)
MCSetups ==
    (Algs \X {FALSE}) \union ({"CATEGORY", "PSK_TO_MS", "HKDF"} \X {TRUE})

(* A usable key, and keys with one thing wrong. *)
MCKeyViews ==
    LET good == [lookup |-> "SUCCESS", usage |-> {"DERIVE", "VERIFY"},
                 typeOk |-> TRUE, algOk |-> TRUE, len |-> 1]
    IN  {[good EXCEPT !.usage = u] : u \in SUBSET {"DERIVE", "VERIFY"}}
        \union {[good EXCEPT !.len = 2], [good EXCEPT !.typeOk = FALSE],
                [good EXCEPT !.algOk = FALSE],
                [good EXCEPT !.lookup = "INVALID_HANDLE"],
                [good EXCEPT !.lookup = "STORAGE_FAILURE"]}
=============================================================================
