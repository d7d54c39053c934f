---------------------------- MODULE ZephyrStore ----------------------------
(***************************************************************************)
(* The Zephyr record store of src/src/psa_store_zephyr.c over the PSA       *)
(* Internal Trusted Storage API: a write is committed by psa_its_set()      *)
(* inside wolfPSA_Store_Write(), a read is served from a copy made by       *)
(* psa_its_get_info() and psa_its_get() when the handle is opened.  Those   *)
(* two calls are two steps: other threads write and remove in between.      *)
(*                                                                         *)
(* ITS itself is external: a map from UIDs to objects whose calls are       *)
(* atomic and may fail.                                                     *)
(***************************************************************************)
EXTENDS Integers, Sequences, SequencesExt

CONSTANTS
    Uids,        \* ITS UIDs, the key ids
    Handles,     \* WolfpsaZephyrStore objects
    Buffers,     \* what one wolfPSA_Store_Write() is given
    MaxWrites,   \* bound: wolfPSA_Store_Write() calls on one handle
    MaxLen,      \* bound: length of an object
    None,        \* no object at this UID
    Closed       \* the handle is not open

Bytes == UNION {Range(b) : b \in Buffers}

Ctx == [uid : Uids, write : BOOLEAN, opening : BOOLEAN, size : Nat,
        buf : Seq(Bytes), off : Nat, writes : 0 .. MaxWrites]

(* What the constants have to be: buffers are sequences of bytes, and Closed   *)
(* is no handle.                                                            *)
ConstantsOK ==
    /\ MaxWrites \in Nat \ {0} /\ MaxLen \in Nat
    /\ \A b \in Buffers : b \in Seq(Bytes) /\ Len(b) =< MaxLen
    /\ Closed \notin Ctx

VARIABLES
    its,        \* the objects
    ctx,        \* WolfpsaZephyrStore of each handle
    ret,        \* what the last call returned
    delivered,  \* history: what each handle has read
    published   \* history: the objects each UID has held

vars == <<its, ctx, ret, delivered, published>>

Open(h) == ctx[h] # Closed
NewCtx(uid, write) ==
    [uid |-> uid, write |-> write, opening |-> FALSE, size |-> 0, buf |-> <<>>,
     off |-> 0, writes |-> 0]

TypeOK ==
    /\ its \in [Uids -> {None} \union Seq(Bytes)]
    /\ ctx \in [Handles -> {Closed} \union Ctx]
    /\ ret \in {"OK", "NOT_AVAILABLE", "IO_ERROR", "MEMORY_E"}
    /\ delivered \in [Handles -> Seq(Bytes)]
    /\ published \in [Uids -> SUBSET Seq(Bytes)]

Init ==
    /\ its = [u \in Uids |-> None] /\ ctx = [h \in Handles |-> Closed]
    /\ ret = "OK" /\ delivered = [h \in Handles |-> <<>>]
    /\ published = [u \in Uids |-> {}]

Fails(status) == ret' = status /\ UNCHANGED ctx

-----------------------------------------------------------------------------
(* wolfPSA_Store_OpenSz() for reading: the size, then the object. *)

psa_its_get_info(h, u) ==
    /\ ~Open(h)
    /\ \/ /\ its[u] # None
          /\ ctx' = [ctx EXCEPT ![h] = [NewCtx(u, FALSE) EXCEPT
                                           !.opening = TRUE, !.size = Len(its[u])]]
          /\ UNCHANGED ret
       \/ its[u] = None /\ Fails("NOT_AVAILABLE")
       \/ Fails("IO_ERROR")
    /\ UNCHANGED <<its, delivered, published>>

(* At most the size asked for is copied; less than that is an error. *)
psa_its_get(h) ==
    LET c   == ctx[h]
        now == its[c.uid]
        give_up(status) == ctx' = [ctx EXCEPT ![h] = Closed] /\ ret' = status
    IN
    /\ Open(h) /\ c.opening
    /\ \/ /\ now # None /\ Len(now) >= c.size
          /\ ctx' = [ctx EXCEPT ![h].opening = FALSE,
                                ![h].buf = SubSeq(now, 1, c.size)]
          /\ ret' = "OK"
       \/ give_up("IO_ERROR")
       \/ give_up("MEMORY_E")
    /\ UNCHANGED <<its, delivered, published>>

wolfPSA_Store_OpenWrite(h, u) ==
    /\ ~Open(h)
    /\ \/ ctx' = [ctx EXCEPT ![h] = NewCtx(u, TRUE)] /\ ret' = "OK"
       \/ Fails("MEMORY_E")
    /\ UNCHANGED <<its, delivered, published>>

-----------------------------------------------------------------------------
(* Reading, writing, closing, removing. *)

Serve(h, n, object) ==
    LET c == ctx[h]
        end == IF c.off + n < Len(object) THEN c.off + n ELSE Len(object)
    IN
    /\ Open(h) /\ ~c.write /\ ~c.opening
    /\ delivered' = [delivered EXCEPT ![h] = @ \o SubSeq(object, c.off + 1, end)]
    /\ ctx' = [ctx EXCEPT ![h].off = IF end > @ THEN end ELSE @]
    /\ ret' = "OK"
    /\ UNCHANGED <<its, published>>

(* Mutation: each read fetches the object again. *)
wolfPSA_Store_Read_refetch(h, n) ==
    Serve(h, n, IF its[ctx[h].uid] = None THEN <<>> ELSE its[ctx[h].uid])

wolfPSA_Store_Read(h, n) == Serve(h, n, ctx[h].buf)

(* object: what psa_its_set() is given. *)
Commit(h, b, object) ==
    LET c == ctx[h]
        grown(buf) == [ctx EXCEPT ![h].buf = buf, ![h].writes = @ + 1]
        unchanged(buf, status) ==
            ctx' = grown(buf) /\ ret' = status /\ UNCHANGED <<its, published>>
    IN
    /\ Open(h) /\ c.write /\ c.writes < MaxWrites /\ Len(c.buf \o b) =< MaxLen
    /\ \/ b # <<>> /\ unchanged(c.buf, "MEMORY_E")
       \/ c.buf \o b = <<>> /\ unchanged(<<>>, "OK")
       \/ /\ c.buf \o b # <<>>
          /\ \/ unchanged(c.buf \o b, "IO_ERROR")
             \/ /\ its' = [its EXCEPT ![c.uid] = object]
                /\ published' = [published EXCEPT ![c.uid] = @ \union {object}]
                /\ ctx' = grown(c.buf \o b) /\ ret' = "OK"
    /\ UNCHANGED delivered

(* Mutation: a write commits only what it was given. *)
wolfPSA_Store_Write_last(h, b) == Commit(h, b, b)

(* Every write commits everything written so far. *)
wolfPSA_Store_Write(h, b) == Commit(h, b, ctx[h].buf \o b)

wolfPSA_Store_Close(h) ==
    /\ Open(h) /\ ~ctx[h].opening
    /\ ctx' = [ctx EXCEPT ![h] = Closed]
    /\ delivered' = [delivered EXCEPT ![h] = <<>>]
    /\ ret' = "OK"
    /\ UNCHANGED <<its, published>>

(* Mutation: the status of psa_its_remove() is passed on. *)
RemoveStatus_raw(u) == IF its[u] = None THEN "DOES_NOT_EXIST" ELSE "IO_ERROR"

RemoveStatus(u) == IF its[u] = None THEN "NOT_AVAILABLE" ELSE "IO_ERROR"

wolfPSA_Store_Remove(u) ==
    /\ \/ its[u] # None /\ its' = [its EXCEPT ![u] = None] /\ ret' = "OK"
       \/ ret' = RemoveStatus(u) /\ UNCHANGED its
    /\ UNCHANGED <<ctx, delivered, published>>

Next ==
    \/ \E h \in Handles, u \in Uids :
          psa_its_get_info(h, u) \/ wolfPSA_Store_OpenWrite(h, u)
    \/ \E h \in Handles : psa_its_get(h) \/ wolfPSA_Store_Close(h)
    \/ \E h \in Handles, n \in 1 .. MaxLen : wolfPSA_Store_Read(h, n)
    \/ \E h \in Handles, b \in Buffers : wolfPSA_Store_Write(h, b)
    \/ \E u \in Uids : wolfPSA_Store_Remove(u)

Spec == Init /\ [][Next]_vars

-----------------------------------------------------------------------------
(* Properties. *)

(* However a record is replaced or removed while a handle reads it piece by   *)
(* piece (header, then body), the pieces are the beginning of ONE object    *)
(* that the UID has held.                                                   *)
OneObject ==
    \A h \in Handles : Open(h) /\ ~ctx[h].write =>
        delivered[h] = <<>> \/
        \E object \in published[ctx[h].uid] : IsPrefix(delivered[h], object)

(* "Re-committing on each Write ... leaves the final object correct if        *)
(* streamed": after a successful write the object is everything the handle  *)
(* accumulated, after a failed one it is what it was.                       *)
StreamedWrites ==
    [][\A h \in Handles : Open(h) /\ Open(h)' /\ ctx'[h].writes # ctx[h].writes =>
          \A u \in Uids :
              its'[u] = IF ret' = "OK" /\ u = ctx[h].uid /\ ctx'[h].buf # <<>>
                        THEN ctx'[h].buf ELSE its[u]]_vars

(* "reads take a whole-object snapshot with psa_its_get() when the handle is  *)
(* opened": what a reader serves is an object that the UID has held.        *)
WholeSnapshot ==
    \A h \in Handles : Open(h) /\ ~ctx[h].write /\ ~ctx[h].opening =>
        ctx[h].buf \in published[ctx[h].uid]

(* Why: the buffer is filled once, with the beginning of an object that is     *)
(* there, and what is served is what the offset has passed.                 *)
Snapshots ==
    /\ \A u \in Uids : its[u] # None => its[u] \in published[u]
    /\ \A h \in Handles :
          IF Open(h) /\ ~ctx[h].write /\ ~ctx[h].opening
          THEN /\ ctx[h].off =< Len(ctx[h].buf)
               /\ delivered[h] = SubSeq(ctx[h].buf, 1, ctx[h].off)
               /\ \E object \in published[ctx[h].uid] : IsPrefix(ctx[h].buf, object)
          ELSE /\ delivered[h] = <<>>
               /\ Open(h) /\ ctx[h].opening => ~ctx[h].write /\ ctx[h].off = 0

(* What a read handle keeps while the object is replaced under it: offsets     *)
(* within its buffer, and pieces of one object.                             *)
ReaderInv == TypeOK /\ Snapshots /\ OneObject
=============================================================================
