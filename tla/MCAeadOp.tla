------------------------------ MODULE MCAeadOp ------------------------------
(* A small instance of AeadOp for TLC. *)
EXTENDS AeadOp

CONSTANTS n1, n2

MCAlgs == {"GCM", "CCM", "CHACHA20_POLY1305", "ASCON_AEAD128"}

(* With n1 CCM has room for the length of every message, with n2 it has not. *)
MCCcmLimit == [x \in {n1, n2} |-> IF x = n1 THEN 9 ELSE 2]

(* A key for each algorithm; one for tags of at least a length; one that may  *)
(* only encrypt.                                                            *)
MCKeys ==
    [usage : {{"ENCRYPT", "DECRYPT"}}, alg : MCAlgs, tag : {2}, at_least : {FALSE}]
    \union {[usage |-> {"ENCRYPT", "DECRYPT"}, alg |-> "GCM", tag |-> 1, at_least |-> TRUE],
            [usage |-> {"ENCRYPT"}, alg |-> "CCM", tag |-> 2, at_least |-> FALSE]}
=============================================================================
