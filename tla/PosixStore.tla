----------------------------- MODULE PosixStore -----------------------------
(***************************************************************************)
(* The file store of src/src/psa_store_posix.c: one file per record, written *)
(* to a temporary file that is renamed over it on close.  The file system   *)
(* is modelled by its directory entries and the contents of its inodes; any *)
(* of its calls may fail, the ones that remove a temporary file or a fresh   *)
(* directory and whose result the code drops included, and the process may  *)
(* die between any two calls of the store.                                  *)
(*                                                                         *)
(* A call is one action: of what it does, only fopen(), rename() and        *)
(* remove() touch what another handle can see, and it makes one of them.    *)
(***************************************************************************)
EXTENDS Integers, Sequences

CONSTANTS
    Ids,         \* record ids
    Handles,     \* WOLFPSA_FileStoreCtx objects
    Chunks,      \* what one wolfPSA_Store_Write() is given
    Inodes,      \* bound: files that exist at the same time
    MaxWrites,   \* bound: wolfPSA_Store_Write() calls on one handle
    None,        \* no such directory entry
    Closed       \* the handle is not open

ASSUME BoundsAssumption == MaxWrites \in Nat \ {0}
ASSUME NamesAssumption == None \notin Inodes

VARIABLES
    dir,      \* the store directory exists
    file,     \* directory entries psa_key_*: the inode of each record
    temps,    \* directory entries psa_tmp_*
    data,     \* contents of the inodes
    ctx,      \* WOLFPSA_FileStoreCtx of each handle
    ret,      \* what the last call returned
    asked,    \* history: the chunks the caller gave to each write handle
    orphans   \* history: temporary files whose process died, and those the file
              \*   system refused to remove

vars == <<dir, file, temps, data, ctx, ret, asked, orphans>>

Rets == {"OK", "NOT_AVAILABLE", "IO_ERROR", "MEMORY_E", "DIED"}

Contents == UNION {[1 .. n -> Chunks] : n \in 0 .. MaxWrites}

Ctx == [file : Inodes, id : Ids, is_write : BOOLEAN, has_temp : BOOLEAN,
        write_failed : BOOLEAN, pos : 0 .. MaxWrites]

(* The markers are no values: no contents, no handle and no view of one.      *)
ASSUME MarkersAssumption ==
    /\ None \notin Contents /\ Closed \notin Ctx
    /\ Closed \notin [write : BOOLEAN, id : Ids, data : Contents,
                      pos : 0 .. MaxWrites, spoiled : BOOLEAN]

Open(h) == ctx[h] # Closed

(* A file lives as long as a directory entry or an open handle refers to it. *)
InUse == ({file[i] : i \in Ids} \ {None}) \union temps
         \union {ctx[h].file : h \in {g \in Handles : Open(g)}}
Store(contents) == data' = [n \in InUse' |-> contents[n]]

TypeOK ==
    /\ dir \in BOOLEAN /\ file \in [Ids -> Inodes \union {None}]
    /\ temps \subseteq Inodes /\ orphans \subseteq Inodes
    /\ data \in [InUse -> Contents] /\ asked \in [Handles -> Contents]
    /\ ctx \in [Handles -> Ctx \union {Closed}] /\ ret \in Rets

Init ==
    /\ dir \in BOOLEAN
    /\ file = [i \in Ids |-> None] /\ temps = {} /\ orphans = {}
    /\ ctx = [h \in Handles |-> Closed] /\ asked = [h \in Handles |-> <<>>]
    /\ data = [n \in InUse |-> <<>>] /\ ret = "OK"

-----------------------------------------------------------------------------
(* The store directory. *)

(* wolfPSA_StoreCheckPath(): the directory and its ancestors are private, are *)
(* not, or could not be examined.                                           *)
wolfPSA_StoreCheckPath(exists) ==
    IF exists THEN {"OK", "REJECTED", "UNKNOWN"} ELSE {"UNKNOWN"}

(* Mutation: the verdict is returned in place of a store error. *)
wolfPSA_StoreValidatePath_raw(exists) == wolfPSA_StoreCheckPath(exists)

wolfPSA_StoreValidatePath(exists) ==
    {IF v = "OK" THEN "OK" ELSE "IO_ERROR" : v \in wolfPSA_StoreCheckPath(exists)}

(* The directory is created when it is not there, and removed again, if      *)
(* rmdir() can, when it is refused; a check that could not run removes      *)
(* nothing.                                                                 *)
wolfPSA_StoreEnsureDir ==
    {[ret |-> r, dir |-> dir] : r \in wolfPSA_StoreValidatePath(dir)} \union
    IF dir THEN {}
    ELSE {[ret |-> "OK", dir |-> TRUE]} \union
         {[ret |-> "IO_ERROR", dir |-> d] : d \in BOOLEAN}

-----------------------------------------------------------------------------
(* Opening. *)

NewCtx(inode, id, write) ==
    [file |-> inode, id |-> id, is_write |-> write, has_temp |-> write,
     write_failed |-> FALSE, pos |-> 0]

(* fopen() decides which version is read; the directory is examined after it. *)
wolfPSA_Store_OpenRead(h, id) ==
    /\ ~Open(h)
    /\ \/ /\ file[id] # None
          /\ \E v \in wolfPSA_StoreValidatePath(dir) :
                /\ ret' = v
                /\ ctx' = IF v = "OK"
                          THEN [ctx EXCEPT ![h] = NewCtx(file[id], id, FALSE)]
                          ELSE ctx
       \/ file[id] = None /\ ret' = "NOT_AVAILABLE" /\ UNCHANGED ctx
       \/ ret' \in {"IO_ERROR", "MEMORY_E"} /\ UNCHANGED ctx
    /\ UNCHANGED <<dir, file, temps, data, asked, orphans>>

(* wolfPSA_StoreCreateTempFile(): mkstemp() in the examined directory; when a *)
(* later step fails the file is unlinked again, if unlink() can.            *)
mkstemp(n) ==
    /\ temps' = temps \union {n}
    /\ Store([m \in InUse \union {n} |-> IF m = n THEN <<>> ELSE data[m]])

wolfPSA_Store_OpenWrite(h, id) ==
    /\ ~Open(h)
    /\ UNCHANGED <<file, asked>>
    /\ \/ \E d \in wolfPSA_StoreEnsureDir :
             /\ dir' = d.dir
             /\ \/ \E n \in Inodes \ InUse :
                      /\ d.ret = "OK"
                      /\ \/ /\ ctx' = [ctx EXCEPT ![h] = NewCtx(n, id, TRUE)]
                            /\ ret' = "OK" /\ UNCHANGED orphans
                         \/ /\ orphans' = orphans \union {n}
                            /\ ret' = "IO_ERROR" /\ UNCHANGED ctx
                      /\ mkstemp(n)
                \/ ret' = "IO_ERROR" /\ UNCHANGED <<temps, data, ctx, orphans>>
       \/ ret' = "MEMORY_E" /\ UNCHANGED <<dir, temps, data, ctx, orphans>>

-----------------------------------------------------------------------------
(* Reading and writing. *)

(* fread() of n chunks from where the handle is: fewer at the end of the file *)
(* or when it fails.                                                        *)
wolfPSA_Store_Read(h, n) ==
    /\ Open(h) /\ ~ctx[h].is_write
    /\ \E got \in 0 .. n :
          /\ ctx[h].pos + got =< Len(data[ctx[h].file])
          /\ ctx' = [ctx EXCEPT ![h].pos = @ + got]
    /\ ret' = "OK"
    /\ UNCHANGED <<dir, file, temps, data, asked, orphans>>

(* A short write and a failed flush spoil the handle; what reached the file  *)
(* is then unknown.                                                         *)
Wrote(h, c, ok, spoils) ==
    /\ Open(h) /\ ctx[h].is_write /\ Len(asked[h]) < MaxWrites
    /\ asked' = [asked EXCEPT ![h] = Append(@, c)]
    /\ \/ data' = [data EXCEPT ![ctx[h].file] = Append(@, c)]
       \/ ~ok /\ UNCHANGED data
    /\ ctx' = [ctx EXCEPT ![h].write_failed = @ \/ (~ok /\ spoils)]
    /\ ret' = IF ok THEN "OK" ELSE "IO_ERROR"
    /\ UNCHANGED <<dir, file, temps, orphans>>

(* Mutation: a short write is only reported. *)
wolfPSA_Store_Write_reports(h, c, ok) == Wrote(h, c, ok, FALSE)

wolfPSA_Store_Write(h, c, ok) == Wrote(h, c, ok, TRUE)

-----------------------------------------------------------------------------
(* Closing: flush, then commit by renaming, or discard. *)

(* Mutation: a failed flush does not stop the commit. *)
Spoiled_written(h, flushed) == ctx[h].write_failed

Spoiled(h, flushed) == ctx[h].write_failed \/ ~flushed

(* What remove() returns is dropped: a temporary file that the file system   *)
(* keeps, say because the directory is no longer writable, stays for good.  *)
wolfPSA_StoreAbortTemp(h) ==
    /\ \/ temps' = temps \ {ctx[h].file} /\ UNCHANGED orphans
       \/ orphans' = orphans \union {ctx[h].file} /\ UNCHANGED temps
    /\ UNCHANGED file

(* Mutation: nothing tries to remove a temporary file that was not renamed. *)
NotRenamed_left(h) == UNCHANGED <<temps, file, orphans>>

NotRenamed(h) == wolfPSA_StoreAbortTemp(h)

wolfPSA_StoreCommitTemp(h) ==
    /\ file' = [file EXCEPT ![ctx[h].id] = ctx[h].file]
    /\ temps' = temps \ {ctx[h].file}
    /\ UNCHANGED orphans

(* What fclose() fails to flush of the file is lost. *)
wolfPSA_Store_Close(h, flushed) ==
    /\ Open(h)
    /\ ctx' = [ctx EXCEPT ![h] = Closed]
    /\ \/ /\ ctx[h].is_write /\ ctx[h].has_temp /\ ~Spoiled(h, flushed)
          /\ \/ wolfPSA_StoreCommitTemp(h) /\ ret' = "OK"
             \/ NotRenamed(h) /\ ret' = "IO_ERROR"
       \/ /\ ctx[h].has_temp /\ Spoiled(h, flushed)
          /\ wolfPSA_StoreAbortTemp(h) /\ ret' = "IO_ERROR"
       \/ /\ ~ctx[h].has_temp
          /\ ret' = (IF flushed THEN "OK" ELSE "IO_ERROR")
          /\ UNCHANGED <<file, temps, orphans>>
    /\ \E n \in 0 .. Len(data[ctx[h].file]) :
          /\ flushed \/ ~ctx[h].is_write => n = Len(data[ctx[h].file])
          /\ Store([data EXCEPT ![ctx[h].file] = SubSeq(@, 1, n)])
    /\ asked' = [asked EXCEPT ![h] = <<>>]
    /\ UNCHANGED dir

wolfPSA_Store_Remove(id) ==
    /\ \/ /\ file[id] # None
          /\ file' = [file EXCEPT ![id] = None]
          /\ ret' = "OK"
       \/ file[id] = None /\ ret' = "NOT_AVAILABLE" /\ UNCHANGED file
       \/ ret' = "IO_ERROR" /\ UNCHANGED file
    /\ UNCHANGED <<dir, temps, ctx, asked, orphans>>
    /\ Store(data)

(* The process dies: its handles are gone, its temporary files stay.         *)
Crash ==
    /\ ctx' = [h \in Handles |-> Closed]
    /\ ret' = "DIED"
    /\ orphans' = temps
    /\ asked' = [h \in Handles |-> <<>>]
    /\ UNCHANGED <<dir, file, temps>>
    /\ Store(data)

Next ==
    \/ \E h \in Handles, id \in Ids :
          wolfPSA_Store_OpenRead(h, id) \/ wolfPSA_Store_OpenWrite(h, id)
    \/ \E h \in Handles, n \in 0 .. MaxWrites : wolfPSA_Store_Read(h, n)
    \/ \E h \in Handles, c \in Chunks, ok \in BOOLEAN : wolfPSA_Store_Write(h, c, ok)
    \/ \E h \in Handles, flushed \in BOOLEAN : wolfPSA_Store_Close(h, flushed)
    \/ \E id \in Ids : wolfPSA_Store_Remove(id)
    \/ Crash

Spec == Init /\ [][Next]_vars

-----------------------------------------------------------------------------
(* Properties. *)

Record(id) == IF file[id] = None THEN None ELSE data[file[id]]

HandleView(h) ==
    IF ctx[h] = Closed THEN Closed
    ELSE [write |-> ctx[h].is_write, id |-> ctx[h].id,
          data |-> IF ctx[h].is_write THEN asked[h] ELSE data[ctx[h].file],
          pos |-> ctx[h].pos, spoiled |-> ctx[h].write_failed]

Whole == INSTANCE RecordStore WITH
    record <- [i \in Ids |-> Record(i)],
    handle <- [h \in Handles |-> HandleView(h)],
    NoRecord <- None, Free <- Closed

(* The file store is a store of whole records: through crashes, failed        *)
(* writes, flushes and renames, and replacements and removals of a record   *)
(* that is being read, a record is published whole or not at all, and an    *)
(* open reader keeps the version it opened.                                 *)
Atomic == Whole!Spec

(* The store forgets no temporary file of its own accord: each belongs to an  *)
(* open write handle, was left by a process that died, or is one that the    *)
(* file system refused to remove when the store asked it to.                *)
NoStrayTemp ==
    \A n \in temps \ orphans : \E h \in Handles :
        Open(h) /\ ctx[h].has_temp /\ ctx[h].file = n

(* The caller of wolfPSA_Store_Close() learns the truth: success means that   *)
(* all it wrote is the record now, an error that nothing has changed.       *)
CloseTellsTheTruth ==
    [][\A h \in Handles, id \in Ids :
          /\ Open(h) /\ ctx[h].is_write
          /\ ctx'[h] = Closed /\ ret' # "DIED"
          => IF ret' = "OK" /\ id = ctx[h].id THEN Record(id)' = asked[h]
             ELSE Record(id)' = Record(id)]_vars

(* Who may touch a file: a temporary file is written through one handle, is    *)
(* no record, is read by nobody and has not been given up as an orphan.     *)
OneOwner ==
    /\ orphans \subseteq temps /\ \A i \in Ids : file[i] \notin temps
    /\ \A h \in Handles : Open(h) =>
          /\ ctx[h].has_temp = ctx[h].is_write
          /\ IF ctx[h].is_write THEN ctx[h].file \in temps \ orphans
             ELSE ctx[h].file \notin temps
    /\ \A g, h \in Handles :
          Open(g) /\ Open(h) /\ ctx[g].is_write /\ ctx[g].file = ctx[h].file => g = h

(* A write handle that is not spoiled has in its file all that its caller      *)
(* wrote, a spoiled one no more than that; a handle starts from nothing.    *)
NothingLost ==
    \A h \in Handles :
        /\ ~Open(h) => asked[h] = <<>>
        /\ Open(h) /\ ctx[h].is_write =>
              /\ Len(data[ctx[h].file]) =< Len(asked[h])
              /\ ctx[h].write_failed \/ data[ctx[h].file] = asked[h]

(* What the file store keeps: well-formed handles, valid statuses, no          *)
(* temporary file that it forgot to remove, one owner of each file that is  *)
(* being written, and in that file what its caller wrote.                   *)
StoreInv == TypeOK /\ NoStrayTemp /\ OneOwner /\ NothingLost
=============================================================================
