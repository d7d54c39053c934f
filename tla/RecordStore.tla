---------------------------- MODULE RecordStore ----------------------------
(***************************************************************************)
(* What src/wolfpsa/psa_store.h promises its caller, psa_key_storage.c: a   *)
(* store of whole records.  A handle open for reading serves one record, as *)
(* it was when the handle was opened; a handle open for writing publishes   *)
(* everything written through it at once, or nothing.                       *)
(***************************************************************************)
EXTENDS Integers, Sequences

CONSTANTS Ids, Handles, Chunks, NoRecord, Free

VARIABLES
    record,   \* the published records
    handle    \* the open handles

vars == <<record, handle>>

Reader(id, data) ==
    [write |-> FALSE, id |-> id, data |-> data, pos |-> 0, spoiled |-> FALSE]
Writer(id) ==
    [write |-> TRUE, id |-> id, data |-> <<>>, pos |-> 0, spoiled |-> FALSE]

Init == record = [i \in Ids |-> NoRecord] /\ handle = [h \in Handles |-> Free]

OpenRead(h, id) ==
    /\ handle[h] = Free /\ record[id] # NoRecord
    /\ handle' = [handle EXCEPT ![h] = Reader(id, record[id])]
    /\ UNCHANGED record

OpenWrite(h, id) ==
    /\ handle[h] = Free
    /\ handle' = [handle EXCEPT ![h] = Writer(id)]
    /\ UNCHANGED record

Read(h) ==
    /\ handle[h] # Free /\ ~handle[h].write
    /\ \E pos \in handle[h].pos .. Len(handle[h].data) :
          handle' = [handle EXCEPT ![h].pos = pos]
    /\ UNCHANGED record

Write(h, c, ok) ==
    /\ handle[h] # Free /\ handle[h].write
    /\ handle' = [handle EXCEPT ![h].data = Append(@, c),
                                ![h].spoiled = @ \/ ~ok]
    /\ UNCHANGED record

Publish(h) ==
    /\ handle[h] # Free /\ handle[h].write /\ ~handle[h].spoiled
    /\ record' = [record EXCEPT ![handle[h].id] = handle[h].data]
    /\ handle' = [handle EXCEPT ![h] = Free]

Discard(h) ==
    /\ handle[h] # Free
    /\ handle' = [handle EXCEPT ![h] = Free]
    /\ UNCHANGED record

Remove(id) ==
    /\ record' = [record EXCEPT ![id] = NoRecord]
    /\ UNCHANGED handle

Crash == handle' = [h \in Handles |-> Free] /\ UNCHANGED record

Next ==
    \/ \E h \in Handles, id \in Ids : OpenRead(h, id) \/ OpenWrite(h, id)
    \/ \E h \in Handles, c \in Chunks, ok \in BOOLEAN : Write(h, c, ok)
    \/ \E h \in Handles : Read(h) \/ Publish(h) \/ Discard(h)
    \/ \E id \in Ids : Remove(id)
    \/ Crash

Spec == Init /\ [][Next]_vars
=============================================================================
