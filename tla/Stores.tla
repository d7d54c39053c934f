------------------------------- MODULE Stores -------------------------------
(***************************************************************************)
(* The two record stores side by side.  A build links one of them, so a     *)
(* behaviour runs one of them and leaves the other alone.                   *)
(***************************************************************************)
EXTENDS PosixStore

CONSTANTS Uids, Buffers, MaxLen   \* the constants of ZephyrStore

VARIABLES
    linked,   \* the store of this build
    its, zctx, zret, delivered, published   \* the variables of ZephyrStore

zvars == <<its, zctx, zret, delivered, published>>

Zephyr == INSTANCE ZephyrStore WITH ctx <- zctx, ret <- zret

StoresInit ==
    /\ Init /\ Zephyr!Init /\ linked \in {"posix", "zephyr"}
    /\ linked = "zephyr" => ~dir          \* one idle state of the other

StoresNext ==
    /\ UNCHANGED linked
    /\ \/ linked = "posix" /\ Next /\ UNCHANGED zvars
       \/ linked = "zephyr" /\ Zephyr!Next /\ UNCHANGED vars

StoresSpec == StoresInit /\ [][StoresNext]_<<linked, vars, zvars>>

(* A Zephyr read handle serves pieces of one object that the UID has held,    *)
(* although psa_its_get_info() and psa_its_get() are two calls.             *)
ReaderInv == Zephyr!ReaderInv

(* A Zephyr write commits all that was streamed so far, or nothing. *)
StreamedWrites == Zephyr!StreamedWrites
=============================================================================
