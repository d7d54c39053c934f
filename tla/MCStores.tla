------------------------------ MODULE MCStores ------------------------------
(***************************************************************************)
(* A small instance of the two record stores for TLC.                       *)
(***************************************************************************)
EXTENDS Stores, TLC

CONSTANTS h1, h2, n1, n2, n3, a, b

(* Objects of two sizes, and a write of nothing. *)
ZephyrBuffers == {<<>>, <<"x">>, <<"y", "y">>}

ASSUME Zephyr!ConstantsOK

MCSymmetry ==
    Permutations({h1, h2}) \union Permutations({n1, n2, n3})
    \union Permutations({a, b})
=============================================================================
