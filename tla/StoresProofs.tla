---------------------------- MODULE StoresProofs ----------------------------
(***************************************************************************)
(* Proofs about the two stores.  The file store: StoreInv is inductive, the  *)
(* answer of wolfPSA_Store_Close() is true, and the store implements         *)
(* RecordStore.  The Zephyr store: a reader is served one object, and a      *)
(* write sets the object to all that was accumulated.                        *)
(***************************************************************************)
EXTENDS Stores, SequenceTheorems, TLAPS

-----------------------------------------------------------------------------
(* Contents of files. *)

(* Contents are the sequences of chunks up to the bound. *)
LEMMA ContentsSeq ==
    ASSUME NEW c
    PROVE  c \in Contents <=> c \in Seq(Chunks) /\ Len(c) =< MaxWrites
<1>1. ASSUME c \in Contents PROVE c \in Seq(Chunks) /\ Len(c) =< MaxWrites
  <2>1. PICK n \in 0 .. MaxWrites : c \in [1 .. n -> Chunks]
    BY <1>1 DEF Contents
  <2>2. n \in Nat /\ n =< MaxWrites
    BY BoundsAssumption
  <2>3. c \in Seq(Chunks)
    BY <2>1, <2>2, SeqDef
  <2>4. DOMAIN c = 1 .. n
    BY <2>1
  <2>5. Len(c) = n
    BY <2>2, <2>3, <2>4, LenProperties
  <2> QED BY <2>2, <2>3, <2>5
<1>2. ASSUME c \in Seq(Chunks), Len(c) =< MaxWrites PROVE c \in Contents
  <2>1. Len(c) \in 0 .. MaxWrites /\ c \in [1 .. Len(c) -> Chunks]
    BY <1>2, BoundsAssumption, LenProperties
  <2> QED BY <2>1 DEF Contents
<1> QED BY <1>1, <1>2

(* A new file is empty. *)
LEMMA EmptyContents == <<>> \in Contents /\ Len(<<>>) = 0
<1>1. <<>> \in Seq(Chunks) /\ Len(<<>>) = 0
  BY EmptySeq
<1>2. Len(<<>>) =< MaxWrites
  BY <1>1, BoundsAssumption
<1> QED BY <1>1, <1>2, ContentsSeq

(* A write below the bound leaves contents. *)
LEMMA AppendContents ==
    ASSUME NEW c \in Contents, NEW x \in Chunks
    PROVE  /\ Len(Append(c, x)) = Len(c) + 1
           /\ Len(c) < MaxWrites => Append(c, x) \in Contents
<1>1. c \in Seq(Chunks) /\ Len(c) \in Nat
  BY ContentsSeq, LenProperties
<1>2. Append(c, x) \in Seq(Chunks) /\ Len(Append(c, x)) = Len(c) + 1
  BY <1>1, AppendProperties
<1>3. Len(c) < MaxWrites => Len(Append(c, x)) =< MaxWrites
  BY <1>1, <1>2, BoundsAssumption
<1> QED BY <1>2, <1>3, ContentsSeq

(* What is left when the end of a file is lost. *)
LEMMA CutContents ==
    ASSUME NEW c \in Contents, NEW n \in 0 .. Len(c)
    PROVE  SubSeq(c, 1, n) \in Contents /\ (n = Len(c) => SubSeq(c, 1, n) = c)
<1>1. c \in Seq(Chunks) /\ Len(c) \in Nat /\ Len(c) =< MaxWrites
  BY ContentsSeq, LenProperties
<1>2. n \in Nat /\ n =< Len(c) /\ n =< MaxWrites
  BY <1>1, BoundsAssumption
<1>3. SubSeq(c, 1, n) \in Seq(Chunks) /\ Len(SubSeq(c, 1, n)) = n
  <2>1. \A i \in 1 .. n : i \in 1 .. Len(c)
    BY <1>1, <1>2
  <2>2. Len(SubSeq(c, 1, n)) = n /\ SubSeq(c, 1, n) \in Seq(Chunks)
    BY <1>1, <1>2, <2>1, SubSeqProperties
  <2> QED BY <2>2
<1>4. n = Len(c) => SubSeq(c, 1, n) = c
  <2> SUFFICES ASSUME n = Len(c) PROVE SubSeq(c, 1, n) = c
    OBVIOUS
  <2>1. \A i \in 1 .. n : SubSeq(c, 1, n)[i] = c[i]
    BY <1>1, <1>2, SubSeqProperties
  <2> QED BY <1>1, <1>3, <2>1, SeqEqual
<1> QED BY <1>2, <1>3, <1>4, ContentsSeq
-----------------------------------------------------------------------------
(* The inductive invariant. *)

(* What is in use, and what is there: the files of records and open handles. *)
LEMMA Held ==
    ASSUME TypeOK
    PROVE  /\ InUse \subseteq Inodes /\ temps \subseteq InUse
           /\ \A n \in InUse : data[n] \in Contents
           /\ \A i \in Ids : file[i] # None =>
                 file[i] \in InUse /\ data[file[i]] \in Contents
           /\ \A h \in Handles : Open(h) =>
                 /\ ctx[h] \in Ctx /\ ctx[h].file \in InUse
                 /\ data[ctx[h].file] \in Contents
<1>1. \A h \in Handles : Open(h) => ctx[h] \in Ctx /\ ctx[h].file \in Inodes
  BY DEF TypeOK, Open, Ctx
<1>2. \A h \in Handles : Open(h) => ctx[h].file \in InUse
  BY DEF InUse
<1>3. \A i \in Ids : file[i] # None => file[i] \in InUse /\ file[i] \in Inodes
  BY DEF InUse, TypeOK
<1>4. InUse \subseteq Inodes /\ temps \subseteq InUse
  BY <1>1, <1>3 DEF InUse, TypeOK
<1>5. \A n \in InUse : data[n] \in Contents
  BY DEF TypeOK
<1> QED BY <1>1, <1>2, <1>3, <1>4, <1>5

(* The store starts with no file at all. *)
LEMMA InvInit == Init => StoreInv
<1> SUFFICES ASSUME Init PROVE StoreInv
  OBVIOUS
<1>1. \A h \in Handles : ~Open(h)
  BY DEF Init, Open
<1>2. InUse = {}
  BY <1>1 DEF InUse, Init
<1>3. TypeOK
  BY <1>2, EmptyContents DEF Init, TypeOK, Rets
<1>4. NoStrayTemp /\ OneOwner /\ NothingLost
  BY <1>1 DEF Init, NoStrayTemp, OneOwner, NothingLost
<1> QED BY <1>3, <1>4 DEF StoreInv

(* Opening for reading adds a reader of the file that is the record. *)
LEMMA InvOpenRead ==
    ASSUME StoreInv, NEW h \in Handles, NEW id \in Ids, wolfPSA_Store_OpenRead(h, id)
    PROVE  StoreInv'
<1> USE DEF StoreInv
<1>1. UNCHANGED <<dir, file, temps, data, asked, orphans>> /\ ~Open(h)
  BY DEF wolfPSA_Store_OpenRead
<1>2. ret' \in Rets
  BY DEF wolfPSA_Store_OpenRead, wolfPSA_StoreValidatePath, Rets
<1>3. CASE ctx' = ctx
  <2>1. InUse' = InUse
    BY <1>1, <1>3 DEF InUse, Open
  <2>2. TypeOK'
    BY <1>1, <1>2, <1>3, <2>1 DEF TypeOK
  <2>3. NoStrayTemp' /\ OneOwner' /\ NothingLost'
    BY <1>1, <1>3 DEF NoStrayTemp, OneOwner, NothingLost, Open
  <2> QED BY <2>2, <2>3
<1>4. CASE file[id] # None /\ ctx' = [ctx EXCEPT ![h] = NewCtx(file[id], id, FALSE)]
  <2> DEFINE new == NewCtx(file[id], id, FALSE)
  <2>1. new \in Ctx /\ file[id] \in InUse
    BY <1>4, Held, BoundsAssumption DEF NewCtx, Ctx
  <2>2. /\ new # Closed /\ new.file = file[id]
        /\ new.is_write = FALSE /\ new.has_temp = FALSE
    BY <2>1, MarkersAssumption DEF NewCtx
  <2> HIDE DEF new
  <2>3. /\ ctx' \in [Handles -> Ctx \union {Closed}] /\ ctx'[h] = new
        /\ \A g \in Handles \ {h} : ctx'[g] = ctx[g]
    BY <1>4, <2>1 DEF new, TypeOK
  <2>4. \A g \in Handles : Open(g)' <=> Open(g) \/ g = h
    BY <2>2, <2>3 DEF Open
  <2>5. InUse' = InUse
    BY <1>1, <2>1, <2>2, <2>3, <2>4 DEF InUse
  <2>6. TypeOK'
    BY <1>1, <1>2, <2>3, <2>5 DEF TypeOK
  <2>7. NoStrayTemp'
    BY <1>1, <2>3, <2>4 DEF NoStrayTemp
  <2>8. OneOwner'
    <3>1. file[id] \notin temps
      BY DEF OneOwner
    <3>2. \A g \in Handles : Open(g)' =>
             /\ ctx'[g].has_temp = ctx'[g].is_write
             /\ IF ctx'[g].is_write THEN ctx'[g].file \in temps \ orphans
                ELSE ctx'[g].file \notin temps
      BY <2>2, <2>3, <2>4, <3>1 DEF OneOwner
    <3>3. ASSUME NEW g \in Handles, NEW k \in Handles, Open(g)', Open(k)',
                 ctx'[g].is_write, ctx'[g].file = ctx'[k].file
          PROVE  g = k
      <4>1. g # h /\ k # h
        BY <2>2, <2>3, <3>1, <3>2, <3>3
      <4> QED BY <2>3, <2>4, <3>3, <4>1 DEF OneOwner
    <3> QED BY <1>1, <3>2, <3>3 DEF OneOwner
  <2>9. NothingLost'
    BY <1>1, <2>2, <2>3, <2>4 DEF NothingLost
  <2> QED BY <2>6, <2>7, <2>8, <2>9
<1> QED BY <1>3, <1>4 DEF wolfPSA_Store_OpenRead

(* A temporary file is empty, and new to every record, handle and orphan; the  *)
(* files in use keep their contents.                                        *)
LEMMA NewTemp ==
    ASSUME StoreInv, NEW n \in Inodes \ InUse, mkstemp(n), InUse' = InUse \union {n}
    PROVE  /\ temps' = temps \union {n}
           /\ data' \in [InUse' -> Contents] /\ data'[n] = <<>>
           /\ \A m \in InUse : data'[m] = data[m]
           /\ n \notin temps /\ n \notin orphans /\ \A i \in Ids : file[i] # n
           /\ \A g \in Handles : Open(g) => ctx[g].file # n
<1> USE DEF StoreInv
<1> DEFINE c == [m \in InUse \union {n} |-> IF m = n THEN <<>> ELSE data[m]]
<1>1. \A m \in InUse : m # n /\ data[m] \in Contents
  BY Held
<1>2. c \in [InUse \union {n} -> Contents] /\ c[n] = <<>>
  BY <1>1, EmptyContents
<1>3. \A m \in InUse : c[m] = data[m]
  BY <1>1
<1>4. data' = [m \in InUse \union {n} |-> c[m]]
  BY DEF mkstemp, Store
<1> HIDE DEF c
<1>5. data' \in [InUse' -> Contents] /\ data'[n] = <<>> /\ \A m \in InUse : data'[m] = data[m]
  BY <1>2, <1>3, <1>4
<1>6. n \notin temps /\ n \notin orphans /\ \A i \in Ids : file[i] # n
  BY Held, NamesAssumption DEF OneOwner
<1>7. \A g \in Handles : Open(g) => ctx[g].file # n
  BY Held
<1> QED BY <1>5, <1>6, <1>7 DEF mkstemp

(* Opening for writing adds a writer of a file that nobody knows of, or fails  *)
(* and at worst leaves that file behind.                                    *)
LEMMA InvOpenWrite ==
    ASSUME StoreInv, NEW h \in Handles, NEW id \in Ids, wolfPSA_Store_OpenWrite(h, id)
    PROVE  StoreInv'
<1> USE DEF StoreInv
<1>1. UNCHANGED <<file, asked>> /\ ~Open(h)
  BY DEF wolfPSA_Store_OpenWrite
<1>2. ret' \in Rets
  BY DEF wolfPSA_Store_OpenWrite, Rets
<1>3. dir' \in BOOLEAN
  <2>1. \A d \in wolfPSA_StoreEnsureDir : d.dir \in BOOLEAN
    <3> TAKE d \in wolfPSA_StoreEnsureDir
    <3>1. CASE d \in {[ret |-> r, dir |-> dir] : r \in wolfPSA_StoreValidatePath(dir)}
      BY <3>1 DEF TypeOK
    <3>2. CASE d \in {[ret |-> "OK", dir |-> TRUE]}
      <4>1. d.dir = TRUE
        BY <3>2
      <4> QED BY <4>1
    <3>3. CASE d \in {[ret |-> "IO_ERROR", dir |-> e] : e \in BOOLEAN}
      BY <3>3
    <3> QED BY <3>1, <3>2, <3>3 DEF wolfPSA_StoreEnsureDir
  <2>2. dir \in BOOLEAN
    BY DEF TypeOK
  <2> QED BY <2>1, <2>2 DEF wolfPSA_Store_OpenWrite
<1>4. CASE UNCHANGED <<temps, data, ctx, orphans>>
  <2>1. InUse' = InUse
    BY <1>1, <1>4 DEF InUse, Open
  <2>2. TypeOK'
    BY <1>1, <1>2, <1>3, <1>4, <2>1 DEF TypeOK
  <2>3. NoStrayTemp' /\ OneOwner' /\ NothingLost'
    BY <1>1, <1>4 DEF NoStrayTemp, OneOwner, NothingLost, Open
  <2> QED BY <2>2, <2>3
<1>5. ASSUME NEW n \in Inodes \ InUse,
             ctx' = [ctx EXCEPT ![h] = NewCtx(n, id, TRUE)],
             orphans' = orphans, mkstemp(n)
      PROVE  StoreInv'
  <2> DEFINE new == NewCtx(n, id, TRUE)
  <2>1. new \in Ctx
    BY <1>5, BoundsAssumption DEF NewCtx, Ctx
  <2>2. /\ new # Closed /\ new.file = n
        /\ new.is_write = TRUE /\ new.has_temp = TRUE
    BY <2>1, MarkersAssumption DEF NewCtx
  <2> HIDE DEF new
  <2>3. /\ ctx' \in [Handles -> Ctx \union {Closed}] /\ ctx'[h] = new
        /\ \A g \in Handles \ {h} : ctx'[g] = ctx[g]
    BY <1>5, <2>1 DEF new, TypeOK
  <2>4. \A g \in Handles : Open(g)' <=> Open(g) \/ g = h
    BY <2>2, <2>3 DEF Open
  <2>5. InUse' = InUse \union {n}
    <3>1. {ctx'[g].file : g \in {k \in Handles : Open(k)'}}
             = {ctx[g].file : g \in {k \in Handles : Open(k)}} \union {n}
      BY <1>1, <2>2, <2>3, <2>4
    <3> QED BY <1>1, <1>5, <3>1 DEF InUse, mkstemp
  <2>6. /\ temps' = temps \union {n}
        /\ data' \in [InUse' -> Contents] /\ data'[n] = <<>>
        /\ \A m \in InUse : data'[m] = data[m]
        /\ n \notin temps /\ n \notin orphans /\ \A i \in Ids : file[i] # n
        /\ \A g \in Handles : Open(g) => ctx[g].file # n
    BY <1>5, <2>5, NewTemp
  <2>7. TypeOK'
    BY <1>1, <1>2, <1>3, <1>5, <2>3, <2>6 DEF TypeOK
  <2>8. NoStrayTemp'
    <3> SUFFICES ASSUME NEW m \in temps' \ orphans'
                 PROVE  \E g \in Handles :
                           Open(g)' /\ ctx'[g].has_temp /\ ctx'[g].file = m
      BY DEF NoStrayTemp
    <3>1. CASE m = n
      BY <2>2, <2>3, <2>4, <3>1
    <3>2. CASE m # n
      <4>1. PICK g \in Handles : Open(g) /\ ctx[g].has_temp /\ ctx[g].file = m
        BY <1>5, <2>6, <3>2 DEF NoStrayTemp
      <4> QED BY <1>1, <2>3, <2>4, <4>1
    <3> QED BY <3>1, <3>2
  <2>9. OneOwner'
    <3>3. \A g \in Handles : Open(g)' =>
             /\ ctx'[g].has_temp = ctx'[g].is_write
             /\ IF ctx'[g].is_write THEN ctx'[g].file \in temps' \ orphans'
                ELSE ctx'[g].file \notin temps'
      <4> TAKE g \in Handles
      <4> HAVE Open(g)'
      <4>1. CASE g = h
        BY <1>5, <2>2, <2>3, <2>6, <4>1
      <4>2. CASE g # h
        BY <1>5, <2>3, <2>4, <2>6, <4>2 DEF OneOwner
      <4> QED BY <4>1, <4>2
    <3>4. ASSUME NEW g \in Handles, NEW k \in Handles, Open(g)', Open(k)',
                 ctx'[g].is_write, ctx'[g].file = ctx'[k].file
          PROVE  g = k
      <4>1. (g # h /\ k # h) \/ g = k
        BY <2>2, <2>3, <2>4, <2>6, <3>4
      <4> QED BY <2>3, <2>4, <3>4, <4>1 DEF OneOwner
    <3>5. orphans' \subseteq temps' /\ \A i \in Ids : file'[i] \notin temps'
      BY <1>1, <1>5, <2>6 DEF OneOwner
    <3> QED BY <3>3, <3>4, <3>5 DEF OneOwner
  <2>10. NothingLost'
    <3> SUFFICES ASSUME NEW g \in Handles, Open(g)', ctx'[g].is_write
                 PROVE  /\ Len(data'[ctx'[g].file]) =< Len(asked'[g])
                        /\ ctx'[g].write_failed \/ data'[ctx'[g].file] = asked'[g]
      BY <1>1, <2>4 DEF NothingLost
    <3>1. CASE g = h
      <4>1. asked'[h] = <<>> /\ data'[ctx'[h].file] = <<>>
        BY <1>1, <2>2, <2>3, <2>6 DEF NothingLost
      <4> QED BY <3>1, <4>1, EmptyContents
    <3>2. CASE g # h
      BY <1>1, <2>3, <2>4, <2>6, <3>2, Held DEF NothingLost
    <3> QED BY <3>1, <3>2
  <2> QED BY <2>7, <2>8, <2>9, <2>10
<1>6. ASSUME NEW n \in Inodes \ InUse, ctx' = ctx, orphans' = orphans \union {n}, mkstemp(n)
      PROVE  StoreInv'
  <2>1. InUse' = InUse \union {n}
    BY <1>1, <1>6 DEF InUse, Open, mkstemp
  <2>2. /\ temps' = temps \union {n}
        /\ data' \in [InUse' -> Contents]
        /\ \A m \in InUse : data'[m] = data[m]
        /\ n \notin temps /\ n \notin orphans /\ \A i \in Ids : file[i] # n
        /\ \A g \in Handles : Open(g) => ctx[g].file # n
    BY <1>6, <2>1, NewTemp
  <2>3. TypeOK'
    BY <1>1, <1>2, <1>3, <1>6, <2>2 DEF TypeOK
  <2>4. NoStrayTemp' /\ OneOwner'
    BY <1>1, <1>6, <2>2 DEF NoStrayTemp, OneOwner, Open
  <2>5. NothingLost'
    BY <1>1, <1>6, <2>2, Held DEF NothingLost, Open
  <2> QED BY <2>3, <2>4, <2>5
<1> QED BY <1>4, <1>5, <1>6 DEF wolfPSA_Store_OpenWrite

(* Reading moves a reader, and nothing else. *)
LEMMA InvRead ==
    ASSUME StoreInv, NEW h \in Handles, NEW n \in 0 .. MaxWrites, wolfPSA_Store_Read(h, n)
    PROVE  StoreInv' /\ \A g \in Handles : Open(g)' <=> Open(g)
<1> USE DEF StoreInv
<1>1. /\ UNCHANGED <<dir, file, temps, data, asked, orphans>> /\ ret' = "OK"
      /\ Open(h) /\ ~ctx[h].is_write
  BY DEF wolfPSA_Store_Read
<1>2. PICK got \in 0 .. n :
         /\ ctx[h].pos + got =< Len(data[ctx[h].file])
         /\ ctx' = [ctx EXCEPT ![h].pos = @ + got]
  BY DEF wolfPSA_Store_Read
<1>3. ctx[h] \in Ctx /\ data[ctx[h].file] \in Contents
  BY <1>1, Held
<1>4. ctx[h].pos + got \in 0 .. MaxWrites
  <2>1. Len(data[ctx[h].file]) =< MaxWrites /\ Len(data[ctx[h].file]) \in Nat
    BY <1>3, ContentsSeq, LenProperties
  <2>2. ctx[h].pos \in 0 .. MaxWrites
    BY <1>3 DEF Ctx
  <2> QED BY <1>2, <2>1, <2>2, BoundsAssumption
<1>5. [ctx[h] EXCEPT !.pos = @ + got] \in Ctx
  BY <1>3, <1>4, Zenon DEF Ctx
<1>6. ctx' \in [Handles -> Ctx \union {Closed}] /\ ctx'[h] # Closed
  BY <1>2, <1>5, MarkersAssumption DEF TypeOK
<1>7. \A g \in Handles :
         /\ Open(g)' <=> Open(g)
         /\ Open(g) => /\ ctx'[g].file = ctx[g].file /\ ctx'[g].has_temp = ctx[g].has_temp
                       /\ ctx'[g].is_write = ctx[g].is_write
                       /\ ctx'[g].write_failed = ctx[g].write_failed
  BY <1>1, <1>2, <1>3, <1>6 DEF TypeOK, Open, Ctx
<1>8. InUse' = InUse
  BY <1>1, <1>7 DEF InUse
<1>9. TypeOK'
  BY <1>1, <1>6, <1>8 DEF TypeOK, Rets
<1>10. NoStrayTemp'
  BY <1>1, <1>7 DEF NoStrayTemp
<1>11. OneOwner'
  BY <1>1, <1>7 DEF OneOwner
<1>12. NothingLost'
  BY <1>1, <1>7 DEF NothingLost
<1> QED BY <1>7, <1>9, <1>10, <1>11, <1>12

(* Writing changes the one file that the handle owns, and what was asked. *)
LEMMA InvWrite ==
    ASSUME StoreInv, NEW h \in Handles, NEW c \in Chunks, NEW ok \in BOOLEAN,
           wolfPSA_Store_Write(h, c, ok)
    PROVE  StoreInv' /\ \A g \in Handles : Open(g)' <=> Open(g)
<1> USE DEF StoreInv
<1> DEFINE f == ctx[h].file
<1>1. /\ UNCHANGED <<dir, file, temps, orphans>> /\ ret' \in Rets
      /\ Open(h) /\ ctx[h].is_write /\ Len(asked[h]) < MaxWrites
      /\ asked' = [asked EXCEPT ![h] = Append(@, c)]
      /\ data' = [data EXCEPT ![f] = Append(@, c)] \/ (~ok /\ data' = data)
      /\ ctx' = [ctx EXCEPT ![h].write_failed = @ \/ ~ok]
  BY DEF wolfPSA_Store_Write, Wrote, Rets
<1>2. /\ ctx[h] \in Ctx /\ f \in InUse /\ data[f] \in Contents
      /\ asked[h] \in Contents /\ Len(data[f]) =< Len(asked[h])
  BY <1>1, Held DEF TypeOK, NothingLost
<1>3. Len(data[f]) \in Nat /\ Len(asked[h]) \in Nat
  BY <1>2, ContentsSeq, LenProperties
<1>4. Len(data[f]) < MaxWrites
  BY <1>1, <1>2, <1>3, BoundsAssumption
<1>5. /\ Append(data[f], c) \in Contents /\ Append(asked[h], c) \in Contents
      /\ Len(Append(data[f], c)) = Len(data[f]) + 1
      /\ Len(Append(asked[h], c)) = Len(asked[h]) + 1
  BY <1>1, <1>2, <1>4, AppendContents
<1>6. [ctx[h] EXCEPT !.write_failed = @ \/ ~ok] \in Ctx
  BY <1>2, Zenon DEF Ctx
<1>7. ctx' \in [Handles -> Ctx \union {Closed}] /\ ctx'[h] # Closed
  BY <1>1, <1>6, MarkersAssumption DEF TypeOK
<1>8. \A g \in Handles :
         /\ Open(g)' <=> Open(g)
         /\ Open(g) => /\ ctx'[g].file = ctx[g].file /\ ctx'[g].has_temp = ctx[g].has_temp
                       /\ ctx'[g].is_write = ctx[g].is_write
  BY <1>1, <1>2, <1>7 DEF TypeOK, Open, Ctx
<1>9. /\ ctx'[h].write_failed <=> ctx[h].write_failed \/ ~ok
      /\ \A g \in Handles \ {h} : ctx'[g] = ctx[g]
  BY <1>1, <1>2 DEF TypeOK, Ctx
<1>10. InUse' = InUse
  BY <1>1, <1>8 DEF InUse
<1>11. data' \in [InUse' -> Contents] /\ asked' \in [Handles -> Contents]
  BY <1>1, <1>5, <1>10 DEF TypeOK
<1>12. TypeOK'
  BY <1>1, <1>7, <1>11 DEF TypeOK
<1>13. NoStrayTemp'
  BY <1>1, <1>8 DEF NoStrayTemp
<1>14. OneOwner'
  BY <1>1, <1>8 DEF OneOwner
<1>15. NothingLost'
  <2> SUFFICES ASSUME NEW g \in Handles
               PROVE  /\ ~Open(g)' => asked'[g] = <<>>
                      /\ Open(g)' /\ ctx'[g].is_write =>
                            /\ Len(data'[ctx'[g].file]) =< Len(asked'[g])
                            /\ ctx'[g].write_failed \/ data'[ctx'[g].file] = asked'[g]
    BY DEF NothingLost
  <2>1. CASE g = h
    <3>1. Open(g)' /\ ctx'[g].file = f /\ asked'[g] = Append(asked[h], c)
      BY <1>1, <1>8, <2>1 DEF TypeOK
    <3>2. CASE data' = [data EXCEPT ![f] = Append(@, c)]
      <4>1. data'[f] = Append(data[f], c)
        BY <1>2, <3>2 DEF TypeOK
      <4>2. Len(data'[f]) =< Len(asked'[g])
        BY <1>2, <1>3, <1>5, <3>1, <4>1
      <4>3. ctx'[h].write_failed \/ data[f] = asked[h]
        BY <1>1, <1>9 DEF NothingLost
      <4> QED BY <2>1, <3>1, <4>1, <4>2, <4>3
    <3>3. CASE ~ok /\ data' = data
      <4>1. Len(data'[f]) =< Len(asked'[g])
        BY <1>2, <1>3, <1>5, <3>1, <3>3
      <4> QED BY <1>9, <2>1, <3>1, <3>3, <4>1
    <3> QED BY <1>1, <3>2, <3>3
  <2>2. CASE g # h
    <3>1. asked'[g] = asked[g] /\ ctx'[g] = ctx[g] /\ (Open(g)' <=> Open(g))
      BY <1>1, <1>8, <1>9, <2>2 DEF TypeOK
    <3>2. Open(g) => ctx[g].file # f
      BY <1>1, <2>2 DEF OneOwner
    <3>3. Open(g) => data'[ctx[g].file] = data[ctx[g].file]
      BY <1>1, <3>2, Held DEF TypeOK
    <3> QED BY <3>1, <3>3 DEF NothingLost
  <2> QED BY <2>1, <2>2
<1> QED BY <1>8, <1>12, <1>13, <1>14, <1>15

(* What closing a handle comes to: the handle is gone, and its file is         *)
(* published with everything in it, or it is a temporary file that is       *)
(* discarded or that the file system keeps, or it was only read.  Every other file in use is as it was.                 *)
LEMMA CloseShape ==
    ASSUME StoreInv, NEW h \in Handles, NEW flushed \in BOOLEAN,
           wolfPSA_Store_Close(h, flushed)
    PROVE  /\ Open(h) /\ ctx' = [ctx EXCEPT ![h] = Closed]
           /\ asked' = [asked EXCEPT ![h] = <<>>] /\ UNCHANGED dir
           /\ \/ /\ ctx[h].is_write /\ ~ctx[h].write_failed /\ flushed /\ ret' = "OK"
                 /\ file' = [file EXCEPT ![ctx[h].id] = ctx[h].file]
                 /\ temps' = temps \ {ctx[h].file} /\ orphans' = orphans
              \/ /\ ctx[h].is_write /\ ret' = "IO_ERROR" /\ file' = file
                 /\ \/ temps' = temps \ {ctx[h].file} /\ orphans' = orphans
                    \/ temps' = temps /\ orphans' = orphans \union {ctx[h].file}
              \/ /\ ~ctx[h].is_write /\ ret' \in {"OK", "IO_ERROR"}
                 /\ file' = file /\ temps' = temps /\ orphans' = orphans
           /\ InUse' \subseteq InUse
           /\ data' \in [InUse' -> Contents]
           /\ \A m \in InUse' :
                 m # ctx[h].file \/ flushed \/ ~ctx[h].is_write => data'[m] = data[m]
<1> USE DEF StoreInv
<1> DEFINE f == ctx[h].file
<1>1. /\ Open(h) /\ ctx' = [ctx EXCEPT ![h] = Closed]
      /\ asked' = [asked EXCEPT ![h] = <<>>] /\ UNCHANGED dir
  BY DEF wolfPSA_Store_Close
<1>2. ctx[h] \in Ctx /\ f \in InUse /\ data[f] \in Contents /\ ctx[h].id \in Ids
  BY <1>1, Held DEF Ctx
<1>3. ctx[h].has_temp = ctx[h].is_write
  BY <1>1 DEF OneOwner
<1>4. \/ /\ ctx[h].is_write /\ ~ctx[h].write_failed /\ flushed /\ ret' = "OK"
         /\ file' = [file EXCEPT ![ctx[h].id] = f]
         /\ temps' = temps \ {f} /\ orphans' = orphans
      \/ /\ ctx[h].is_write /\ ret' = "IO_ERROR" /\ file' = file
         /\ \/ temps' = temps \ {f} /\ orphans' = orphans
            \/ temps' = temps /\ orphans' = orphans \union {f}
      \/ /\ ~ctx[h].is_write /\ ret' \in {"OK", "IO_ERROR"}
         /\ file' = file /\ temps' = temps /\ orphans' = orphans
  BY <1>3 DEF wolfPSA_Store_Close, Spoiled, NotRenamed, wolfPSA_StoreAbortTemp,
              wolfPSA_StoreCommitTemp
<1>5. InUse' \subseteq InUse
  <2>1. \A i \in Ids : file'[i] # None => file'[i] \in InUse
    BY <1>2, <1>4, Held DEF TypeOK
  <2>2. \A g \in Handles : Open(g)' => ctx'[g].file \in InUse
    BY <1>1, Held DEF TypeOK, Open
  <2>3. temps' \subseteq InUse
    BY <1>4, Held
  <2> QED BY <2>1, <2>2, <2>3 DEF InUse
<1>6. PICK n \in 0 .. Len(data[f]) :
         /\ flushed \/ ~ctx[h].is_write => n = Len(data[f])
         /\ Store([data EXCEPT ![f] = SubSeq(@, 1, n)])
  BY DEF wolfPSA_Store_Close
<1>7. /\ SubSeq(data[f], 1, n) \in Contents
      /\ flushed \/ ~ctx[h].is_write => SubSeq(data[f], 1, n) = data[f]
  BY <1>2, <1>6, CutContents
<1> DEFINE kept == SubSeq(data[f], 1, n)
<1>8. \A m \in InUse' : data'[m] = IF m = f THEN kept ELSE data[m]
  BY <1>5, <1>6 DEF Store, TypeOK
<1>9. DOMAIN data' = InUse' /\ data' = [m \in InUse' |-> data'[m]]
  BY <1>6 DEF Store
<1> HIDE DEF kept
<1>10. data' \in [InUse' -> Contents]
  <2>1. \A m \in InUse' : data'[m] \in Contents
    BY <1>5, <1>7, <1>8, Held DEF kept
  <2> QED BY <1>9, <2>1
<1>11. \A m \in InUse' : m # f \/ flushed \/ ~ctx[h].is_write => data'[m] = data[m]
  BY <1>7, <1>8 DEF kept
<1> QED BY <1>1, <1>4, <1>5, <1>10, <1>11

(* Closing hands the file over to the record, removes it or gives it up. *)
LEMMA InvClose ==
    ASSUME StoreInv, NEW h \in Handles, NEW flushed \in BOOLEAN,
           wolfPSA_Store_Close(h, flushed)
    PROVE  StoreInv'
<1> DEFINE f == ctx[h].file
<1>1. /\ Open(h) /\ UNCHANGED dir /\ ret' \in Rets
      /\ ctx' = [ctx EXCEPT ![h] = Closed] /\ asked' = [asked EXCEPT ![h] = <<>>]
      /\ data' \in [InUse' -> Contents] /\ InUse' \subseteq InUse
      /\ \A m \in InUse' : m # f => data'[m] = data[m]
  BY CloseShape DEF Rets
<1>2. /\ \/ ~ctx[h].is_write /\ temps' = temps /\ orphans' = orphans
         \/ ctx[h].is_write /\ temps' = temps \ {f} /\ orphans' = orphans
         \/ /\ ctx[h].is_write /\ file' = file
            /\ temps' = temps /\ orphans' = orphans \union {f}
      /\ \/ file' = file
         \/ ctx[h].is_write /\ file' = [file EXCEPT ![ctx[h].id] = f]
  BY CloseShape
<1> USE DEF StoreInv
<1>3. /\ ctx' \in [Handles -> Ctx \union {Closed}] /\ ctx'[h] = Closed
      /\ asked' \in [Handles -> Contents] /\ asked'[h] = <<>>
      /\ \A g \in Handles \ {h} : ctx'[g] = ctx[g] /\ asked'[g] = asked[g]
  BY <1>1, EmptyContents DEF TypeOK
<1>4. \A g \in Handles : Open(g)' <=> Open(g) /\ g # h
  BY <1>3 DEF Open
<1>5. f \in Inodes /\ ctx[h].id \in Ids
  BY <1>1, Held DEF Ctx
<1>6. /\ file' \in [Ids -> Inodes \union {None}]
      /\ temps' \subseteq Inodes /\ orphans' \subseteq Inodes
  BY <1>2, <1>5 DEF TypeOK
<1>7. TypeOK'
  BY <1>1, <1>3, <1>6 DEF TypeOK
<1>8. NoStrayTemp'
  <2> SUFFICES ASSUME NEW m \in temps' \ orphans'
               PROVE  \E g \in Handles : Open(g)' /\ ctx'[g].has_temp /\ ctx'[g].file = m
    BY DEF NoStrayTemp
  <2>1. PICK g \in Handles : Open(g) /\ ctx[g].has_temp /\ ctx[g].file = m
    BY <1>1, <1>2 DEF NoStrayTemp
  <2>2. g # h
    BY <1>2, <2>1 DEF OneOwner
  <2> QED BY <1>3, <1>4, <2>1, <2>2
<1>9. OneOwner'
  <2>1. ctx[h].is_write => f \in temps \ orphans
    BY <1>1 DEF OneOwner
  <2>2. orphans' \subseteq temps'
    BY <1>1, <1>2, <2>1 DEF OneOwner
  <2>3. \A i \in Ids : file'[i] \notin temps'
    BY <1>2, <1>5 DEF OneOwner, TypeOK
  <2>4. \A g \in Handles : Open(g)' =>
           /\ ctx'[g].file \in temps' <=> ctx'[g].file \in temps
           /\ ctx'[g].file \in orphans' <=>
                 ctx'[g].file \in orphans \/ (orphans' # orphans /\ ctx'[g].file = f)
           /\ ctx[h].is_write => ctx'[g].file # f
    BY <1>1, <1>2, <1>3, <1>4 DEF OneOwner
  <2>5. \A g \in Handles : Open(g)' =>
           /\ ctx'[g].has_temp = ctx'[g].is_write
           /\ IF ctx'[g].is_write THEN ctx'[g].file \in temps' \ orphans'
              ELSE ctx'[g].file \notin temps'
    BY <1>1, <1>2, <1>3, <1>4, <2>4 DEF OneOwner
  <2>6. \A g, k \in Handles :
           Open(g)' /\ Open(k)' /\ ctx'[g].is_write /\ ctx'[g].file = ctx'[k].file => g = k
    BY <1>3, <1>4 DEF OneOwner
  <2> QED BY <2>2, <2>3, <2>5, <2>6 DEF OneOwner
<1>10. NothingLost'
  <2> SUFFICES ASSUME NEW g \in Handles
               PROVE  /\ ~Open(g)' => asked'[g] = <<>>
                      /\ Open(g)' /\ ctx'[g].is_write =>
                            /\ Len(data'[ctx'[g].file]) =< Len(asked'[g])
                            /\ ctx'[g].write_failed \/ data'[ctx'[g].file] = asked'[g]
    BY DEF NothingLost
  <2>1. CASE g = h
    BY <1>3, <1>4, <2>1
  <2>2. CASE g # h
    <3>1. Open(g)' /\ ctx'[g].is_write => ctx'[g].file # f /\ ctx'[g].file \in InUse'
      BY <1>1, <1>3, <1>4, <2>2 DEF OneOwner, InUse
    <3> QED BY <1>1, <1>3, <1>4, <2>2, <3>1 DEF NothingLost
  <2> QED BY <2>1, <2>2
<1> QED BY <1>7, <1>8, <1>9, <1>10

(* Removing a record forgets its file, unless a reader still has it. *)
LEMMA InvRemove ==
    ASSUME StoreInv, NEW id \in Ids, wolfPSA_Store_Remove(id)
    PROVE  /\ StoreInv' /\ UNCHANGED <<temps, ctx, asked>>
           /\ \A m \in InUse' : m \in InUse /\ data'[m] = data[m]
<1> USE DEF StoreInv
<1>1. /\ UNCHANGED <<dir, temps, ctx, asked, orphans>> /\ Store(data) /\ ret' \in Rets
      /\ file' = file \/ file' = [file EXCEPT ![id] = None]
  BY DEF wolfPSA_Store_Remove, Rets
<1>2. file' \in [Ids -> Inodes \union {None}]
      /\ \A i \in Ids : file'[i] \in {file[i], None}
  BY <1>1 DEF TypeOK
<1>3. \A g \in Handles : Open(g)' <=> Open(g)
  BY <1>1 DEF Open
<1>4. InUse' \subseteq InUse
  BY <1>1, <1>2, <1>3 DEF InUse
<1>5. data' \in [InUse' -> Contents] /\ \A m \in InUse' : data'[m] = data[m]
  BY <1>1, <1>4, Held DEF Store
<1>6. TypeOK'
  BY <1>1, <1>2, <1>5 DEF TypeOK
<1>7. NoStrayTemp'
  BY <1>1, <1>3 DEF NoStrayTemp
<1>8. OneOwner'
  <2>1. None \notin temps
    BY NamesAssumption DEF TypeOK
  <2>2. \A i \in Ids : file'[i] \notin temps'
    BY <1>1, <1>2, <2>1 DEF OneOwner
  <2> QED BY <1>1, <1>3, <2>2 DEF OneOwner
<1>9. NothingLost'
  <2>1. \A g \in Handles : Open(g) => ctx[g].file \in InUse'
    BY <1>1, <1>3 DEF InUse
  <2> QED BY <1>1, <1>3, <1>5, <2>1 DEF NothingLost
<1> QED BY <1>1, <1>4, <1>5, <1>6, <1>7, <1>8, <1>9

(* A process that dies leaves its temporary files, and no handle. *)
LEMMA InvCrash ==
    ASSUME StoreInv, Crash
    PROVE  /\ StoreInv' /\ UNCHANGED file
           /\ \A m \in InUse' : m \in InUse /\ data'[m] = data[m]
<1> USE DEF StoreInv
<1>1. /\ UNCHANGED <<dir, file, temps>> /\ Store(data) /\ ret' \in Rets
      /\ orphans' = temps /\ ctx' = [h \in Handles |-> Closed]
      /\ asked' = [h \in Handles |-> <<>>]
  BY DEF Crash, Rets
<1>2. \A g \in Handles : ~Open(g)' /\ asked'[g] = <<>>
  BY <1>1 DEF Open
<1>3. InUse' \subseteq InUse
  BY <1>1, <1>2 DEF InUse
<1>4. data' \in [InUse' -> Contents] /\ \A m \in InUse' : data'[m] = data[m]
  BY <1>1, <1>3, Held DEF Store
<1>5. TypeOK'
  BY <1>1, <1>4, EmptyContents DEF TypeOK
<1>6. NoStrayTemp' /\ OneOwner' /\ NothingLost'
  BY <1>1, <1>2 DEF NoStrayTemp, OneOwner, NothingLost
<1> QED BY <1>1, <1>3, <1>4, <1>5, <1>6

(* A step that changes nothing keeps the invariant. *)
LEMMA InvStutter ==
    ASSUME StoreInv, UNCHANGED vars
    PROVE  StoreInv'
<1>1. InUse' = InUse
  BY DEF vars, InUse, Open
<1> QED
  BY <1>1 DEF vars, StoreInv, TypeOK, NoStrayTemp, OneOwner, NothingLost, Open

(* The file store keeps StoreInv, whatever calls fail, remove() and unlink()   *)
(* of a temporary file included, in whatever order its calls come and       *)
(* wherever the process dies: it never forgets to ask for the removal of a  *)
(* temporary file, and every one that stays is an orphan of a process that  *)
(* died or one that the file system refused to remove.                      *)
THEOREM StoreKept == Spec => []StoreInv
<1>1. StoreInv /\ [Next]_vars => StoreInv'
  <2> SUFFICES ASSUME StoreInv, Next PROVE StoreInv'
    BY InvStutter
  <2> QED
    BY InvOpenRead, InvOpenWrite, InvRead, InvWrite, InvClose, InvRemove, InvCrash DEF Next
<1> QED BY InvInit, <1>1, PTL DEF Spec

-----------------------------------------------------------------------------
(* What wolfPSA_Store_Close() answers. *)

(* Closing changes a record exactly when it answers success to a writer of     *)
(* it, and then the record is all that the writer was given.                *)
LEMMA CloseRecords ==
    ASSUME StoreInv, NEW h \in Handles, NEW flushed \in BOOLEAN,
           wolfPSA_Store_Close(h, flushed), NEW i \in Ids
    PROVE  Record(i)' = IF ctx[h].is_write /\ ret' = "OK" /\ i = ctx[h].id
                        THEN asked[h] ELSE Record(i)
<1> DEFINE f == ctx[h].file
<1>1. Open(h) /\ f \in Inodes /\ ctx[h].id \in Ids
  BY CloseShape, Held DEF Ctx, StoreInv
<1>2. ctx[h].is_write => f \in temps
  BY <1>1 DEF StoreInv, OneOwner
<1>3. CASE /\ ctx[h].is_write /\ ~ctx[h].write_failed /\ flushed /\ ret' = "OK"
           /\ file' = [file EXCEPT ![ctx[h].id] = f] /\ i = ctx[h].id
  <2>1. file'[i] = f /\ f # None
    BY <1>1, <1>3, NamesAssumption DEF StoreInv, TypeOK
  <2>2. f \in InUse'
    BY <2>1 DEF InUse
  <2>3. data'[f] = data[f] /\ data[f] = asked[h]
    BY <1>1, <1>3, <2>2, CloseShape DEF StoreInv, NothingLost
  <2> QED BY <1>3, <2>1, <2>3 DEF Record
<1>4. CASE file'[i] = file[i] /\ (ctx[h].is_write /\ ret' = "OK" => i # ctx[h].id)
  <2>1. ctx[h].is_write => file[i] # f
    BY <1>2 DEF StoreInv, OneOwner
  <2>2. file[i] # None => file[i] \in InUse'
    BY <1>4 DEF InUse
  <2>3. file[i] # None => data'[file[i]] = data[file[i]]
    BY <2>1, <2>2, CloseShape
  <2> QED BY <1>4, <2>3 DEF Record
<1>5. \/ /\ ctx[h].is_write /\ ~ctx[h].write_failed /\ flushed /\ ret' = "OK"
         /\ file' = [file EXCEPT ![ctx[h].id] = f]
      \/ file' = file /\ ~(ctx[h].is_write /\ ret' = "OK")
  BY CloseShape
<1>6. i # ctx[h].id \/ file' = file => file'[i] = file[i]
  BY <1>5 DEF StoreInv, TypeOK
<1> QED BY <1>3, <1>4, <1>5, <1>6

(* Short of the death of the process, only wolfPSA_Store_Close() closes. *)
LEMMA OnlyCloseCloses ==
    ASSUME StoreInv, Next, NEW h \in Handles, Open(h), ctx'[h] = Closed, ret' # "DIED"
    PROVE  \E flushed \in BOOLEAN : wolfPSA_Store_Close(h, flushed)
<1> USE DEF StoreInv
<1>1. ASSUME NEW g \in Handles, NEW id \in Ids, wolfPSA_Store_OpenRead(g, id) PROVE FALSE
  <2>1. ~Open(g) /\ (ctx' = ctx \/ ctx' = [ctx EXCEPT ![g] = NewCtx(file[id], id, FALSE)])
    BY <1>1 DEF wolfPSA_Store_OpenRead
  <2> QED BY <2>1 DEF Open, TypeOK
<1>2. ASSUME NEW g \in Handles, NEW id \in Ids, wolfPSA_Store_OpenWrite(g, id) PROVE FALSE
  <2>1. ~Open(g) /\ (ctx' = ctx \/ \E n : ctx' = [ctx EXCEPT ![g] = NewCtx(n, id, TRUE)])
    BY <1>2 DEF wolfPSA_Store_OpenWrite
  <2> QED BY <2>1 DEF Open, TypeOK
<1>3. ASSUME NEW g \in Handles, NEW n \in 0 .. MaxWrites, wolfPSA_Store_Read(g, n) PROVE FALSE
  BY <1>3, InvRead DEF Open
<1>4. ASSUME NEW g \in Handles, NEW c \in Chunks, NEW ok \in BOOLEAN,
             wolfPSA_Store_Write(g, c, ok)
      PROVE FALSE
  BY <1>4, InvWrite DEF Open
<1>5. ASSUME NEW id \in Ids, wolfPSA_Store_Remove(id) PROVE FALSE
  BY <1>5, InvRemove DEF Open
<1>6. ASSUME Crash PROVE FALSE
  BY <1>6 DEF Crash
<1>7. ASSUME NEW g \in Handles, NEW flushed \in BOOLEAN, wolfPSA_Store_Close(g, flushed)
      PROVE  g = h
  <2>1. ctx' = [ctx EXCEPT ![g] = Closed]
    BY <1>7 DEF wolfPSA_Store_Close
  <2> QED BY <2>1 DEF Open, TypeOK
<1> QED BY <1>1, <1>2, <1>3, <1>4, <1>5, <1>6, <1>7 DEF Next

(* A successful wolfPSA_Store_Close() of a writer means that the record is all *)
(* that was written, any other answer that no record has changed.           *)
THEOREM ClosingIsTruthful == Spec => CloseTellsTheTruth
<1> DEFINE Truthful ==
        \A h \in Handles, id \in Ids :
           /\ Open(h) /\ ctx[h].is_write
           /\ ctx'[h] = Closed /\ ret' # "DIED"
           => IF ret' = "OK" /\ id = ctx[h].id THEN Record(id)' = asked[h]
              ELSE Record(id)' = Record(id)
<1>1. StoreInv /\ [Next]_vars => [Truthful]_vars
  <2> SUFFICES ASSUME StoreInv, Next, NEW h \in Handles, NEW id \in Ids,
                      Open(h), ctx[h].is_write, ctx'[h] = Closed, ret' # "DIED"
               PROVE  IF ret' = "OK" /\ id = ctx[h].id THEN Record(id)' = asked[h]
                      ELSE Record(id)' = Record(id)
    OBVIOUS
  <2>1. PICK flushed \in BOOLEAN : wolfPSA_Store_Close(h, flushed)
    BY OnlyCloseCloses
  <2> QED BY <2>1, CloseRecords
<1> QED BY StoreKept, <1>1, PTL DEF Spec, CloseTellsTheTruth

-----------------------------------------------------------------------------
(* The file store implements RecordStore. *)

RecordBar == [i \in Ids |-> Record(i)]
HandleBar == [h \in Handles |-> HandleView(h)]

(* Markers tell what is not there: an open handle has a view, a file contents. *)
LEMMA Visible ==
    ASSUME StoreInv
    PROVE  /\ \A h \in Handles : HandleView(h) = Closed <=> ~Open(h)
           /\ \A i \in Ids : Record(i) = None <=> file[i] = None
<1> USE DEF StoreInv
<1>1. ASSUME NEW h \in Handles, Open(h) PROVE HandleView(h) # Closed
  <2>1. ctx[h] \in Ctx /\ data[ctx[h].file] \in Contents /\ asked[h] \in Contents
    BY <1>1, Held DEF TypeOK
  <2>2. HandleView(h) \in [write : BOOLEAN, id : Ids, data : Contents,
                           pos : 0 .. MaxWrites, spoiled : BOOLEAN]
    BY <1>1, <2>1, Zenon DEF HandleView, Open, Ctx
  <2> QED BY <2>2, MarkersAssumption
<1>2. ASSUME NEW i \in Ids, file[i] # None PROVE Record(i) # None
  BY <1>2, Held, MarkersAssumption DEF Record
<1> QED BY <1>1, <1>2 DEF HandleView, Record, Open

(* A view depends on the handle, on what was asked and on the file read. *)
LEMMA SameView ==
    ASSUME NEW h \in Handles, ctx'[h] = ctx[h], asked'[h] = asked[h],
           Open(h) /\ ~ctx[h].is_write => data'[ctx[h].file] = data[ctx[h].file]
    PROVE  HandleView(h)' = HandleView(h)
BY DEF HandleView, Open

(* The same for a record. *)
LEMMA SameRecord ==
    ASSUME NEW i \in Ids, file'[i] = file[i],
           file[i] # None => data'[file[i]] = data[file[i]]
    PROVE  Record(i)' = Record(i)
BY DEF Record

(* Opening for reading opens a reader of the record as it is, or fails. *)
LEMMA SimOpenRead ==
    ASSUME StoreInv, NEW h \in Handles, NEW id \in Ids, wolfPSA_Store_OpenRead(h, id)
    PROVE  Whole!OpenRead(h, id) \/ UNCHANGED <<RecordBar, HandleBar>>
<1>1. UNCHANGED <<dir, file, temps, data, asked, orphans>> /\ ~Open(h)
  BY DEF wolfPSA_Store_OpenRead
<1>2. RecordBar' = RecordBar
  BY <1>1, SameRecord DEF RecordBar
<1>3. CASE ctx' = ctx
  BY <1>1, <1>2, <1>3, SameView DEF HandleBar
<1>4. CASE file[id] # None /\ ctx' = [ctx EXCEPT ![h] = NewCtx(file[id], id, FALSE)]
  <2>1. HandleView(h) = Closed /\ Record(id) # None /\ Record(id) = data[file[id]]
    BY <1>1, <1>4, Visible DEF Record
  <2>2. ctx'[h] = NewCtx(file[id], id, FALSE) /\ ctx'[h] # Closed
    <3>1. ctx'[h] = NewCtx(file[id], id, FALSE)
      BY <1>4 DEF StoreInv, TypeOK
    <3>2. NewCtx(file[id], id, FALSE) \in Ctx
      BY <1>4, BoundsAssumption DEF StoreInv, TypeOK, NewCtx, Ctx
    <3> QED BY <3>1, <3>2, MarkersAssumption
  <2>3. HandleView(h)' = Whole!Reader(id, Record(id))
    BY <1>1, <2>1, <2>2 DEF HandleView, NewCtx, Whole!Reader
  <2>4. \A g \in Handles \ {h} : HandleView(g)' = HandleView(g)
    BY <1>1, <1>4, SameView DEF StoreInv, TypeOK
  <2>5. HandleBar' = [HandleBar EXCEPT ![h] = Whole!Reader(id, Record(id))]
    BY <2>3, <2>4 DEF HandleBar
  <2> QED BY <1>2, <2>1, <2>5 DEF Whole!OpenRead, RecordBar, HandleBar
<1> QED BY <1>3, <1>4 DEF wolfPSA_Store_OpenRead

(* Opening for writing opens a writer of nothing yet, or fails. *)
LEMMA SimOpenWrite ==
    ASSUME StoreInv, NEW h \in Handles, NEW id \in Ids, wolfPSA_Store_OpenWrite(h, id)
    PROVE  Whole!OpenWrite(h, id) \/ UNCHANGED <<RecordBar, HandleBar>>
<1>1. UNCHANGED <<file, asked>> /\ ~Open(h)
  BY DEF wolfPSA_Store_OpenWrite
<1>2. CASE UNCHANGED <<temps, data, ctx>>
  BY <1>1, <1>2, SameRecord, SameView DEF RecordBar, HandleBar
<1>3. ASSUME NEW n \in Inodes \ InUse,
             ctx' = [ctx EXCEPT ![h] = NewCtx(n, id, TRUE)],
             mkstemp(n)
      PROVE  Whole!OpenWrite(h, id)
  <2>1. ctx'[h] = NewCtx(n, id, TRUE) /\ ctx'[h] # Closed
    <3>1. ctx'[h] = NewCtx(n, id, TRUE)
      BY <1>3 DEF StoreInv, TypeOK
    <3>2. NewCtx(n, id, TRUE) \in Ctx
      BY <1>3, BoundsAssumption DEF NewCtx, Ctx
    <3> QED BY <3>1, <3>2, MarkersAssumption
  <2>2. \A g \in Handles \ {h} : ctx'[g] = ctx[g]
    BY <1>3 DEF StoreInv, TypeOK
  <2>3. \A m \in InUse' : m \in InUse => data'[m] = data[m]
    BY <1>3 DEF mkstemp, Store
  <2>4. \A g \in Handles \ {h} : Open(g) => ctx[g].file \in InUse /\ ctx[g].file \in InUse'
    BY <2>2 DEF InUse, Open
  <2>5. \A i \in Ids : file[i] # None => file[i] \in InUse /\ file[i] \in InUse'
    BY <1>1 DEF InUse
  <2>6. RecordBar' = RecordBar
    BY <1>1, <2>3, <2>5, SameRecord DEF RecordBar
  <2>7. asked'[h] = <<>> /\ HandleView(h) = Closed
    BY <1>1, Visible DEF StoreInv, NothingLost
  <2>8. HandleView(h)' = Whole!Writer(id)
    BY <2>1, <2>7 DEF HandleView, NewCtx, Whole!Writer
  <2>9. \A g \in Handles \ {h} : HandleView(g)' = HandleView(g)
    BY <1>1, <2>2, <2>3, <2>4, SameView
  <2>10. HandleBar' = [HandleBar EXCEPT ![h] = Whole!Writer(id)]
    BY <2>8, <2>9 DEF HandleBar
  <2> QED BY <2>6, <2>7, <2>10 DEF Whole!OpenWrite, RecordBar, HandleBar
<1>4. ASSUME NEW n \in Inodes \ InUse, ctx' = ctx, mkstemp(n)
      PROVE  UNCHANGED <<RecordBar, HandleBar>>
  <2>1. \A m \in InUse' : m \in InUse => data'[m] = data[m]
    BY <1>4 DEF mkstemp, Store
  <2>2. \A g \in Handles : Open(g) => ctx[g].file \in InUse /\ ctx[g].file \in InUse'
    BY <1>4 DEF InUse, Open
  <2>3. \A i \in Ids : file[i] # None => file[i] \in InUse /\ file[i] \in InUse'
    BY <1>1 DEF InUse
  <2>4. RecordBar' = RecordBar
    BY <1>1, <2>1, <2>3, SameRecord DEF RecordBar
  <2>5. HandleBar' = HandleBar
    BY <1>1, <1>4, <2>1, <2>2, SameView DEF HandleBar
  <2> QED BY <2>4, <2>5
<1> QED BY <1>2, <1>3, <1>4 DEF wolfPSA_Store_OpenWrite

(* Reading moves on in the version that was opened. *)
LEMMA SimRead ==
    ASSUME StoreInv, NEW h \in Handles, NEW n \in 0 .. MaxWrites, wolfPSA_Store_Read(h, n)
    PROVE  Whole!Read(h)
<1>1. UNCHANGED <<file, data, asked>> /\ Open(h) /\ ~ctx[h].is_write
  BY DEF wolfPSA_Store_Read
<1>2. PICK got \in 0 .. n :
         /\ ctx[h].pos + got =< Len(data[ctx[h].file])
         /\ ctx' = [ctx EXCEPT ![h].pos = @ + got]
  BY DEF wolfPSA_Store_Read
<1>3. ctx[h] \in Ctx /\ data[ctx[h].file] \in Contents
  BY <1>1, Held DEF StoreInv
<1>4. RecordBar' = RecordBar
  BY <1>1, SameRecord DEF RecordBar
<1>5. ctx'[h] = [ctx[h] EXCEPT !.pos = @ + got] /\ Open(h)'
  BY <1>1, <1>2, InvRead DEF StoreInv, TypeOK
<1>6. \A g \in Handles \ {h} : HandleView(g)' = HandleView(g)
  BY <1>1, <1>2, SameView DEF StoreInv, TypeOK
<1>7. HandleView(h) = [write |-> ctx[h].is_write, id |-> ctx[h].id,
                       data |-> data[ctx[h].file], pos |-> ctx[h].pos,
                       spoiled |-> ctx[h].write_failed]
  BY <1>1 DEF HandleView, Open
<1>8. HandleView(h)' = [write |-> ctx[h].is_write, id |-> ctx[h].id,
                        data |-> data[ctx[h].file], pos |-> ctx[h].pos + got,
                        spoiled |-> ctx[h].write_failed]
  BY <1>1, <1>3, <1>5 DEF HandleView, Open, Ctx
<1>9. HandleView(h)' = [HandleView(h) EXCEPT !.pos = ctx[h].pos + got]
  BY <1>7, <1>8
<1>10. HandleBar' = [HandleBar EXCEPT ![h].pos = ctx[h].pos + got]
  BY <1>6, <1>9 DEF HandleBar
<1>11. ctx[h].pos + got \in ctx[h].pos .. Len(data[ctx[h].file])
  <2>1. Len(data[ctx[h].file]) \in Nat
    BY <1>3, ContentsSeq, LenProperties
  <2>2. ctx[h].pos \in Nat /\ got \in Nat
    BY <1>3, BoundsAssumption DEF Ctx
  <2> QED BY <1>2, <2>1, <2>2
<1>12. ctx[h].pos + got \in HandleBar[h].pos .. Len(HandleBar[h].data)
  BY <1>7, <1>11 DEF HandleBar
<1>13. HandleBar[h] # Closed /\ ~HandleBar[h].write
  BY <1>1, <1>7, Visible DEF HandleBar
<1> QED BY <1>4, <1>10, <1>12, <1>13 DEF Whole!Read, RecordBar, HandleBar

(* Writing adds to what the handle will publish, and spoils it on failure. *)
LEMMA SimWrite ==
    ASSUME StoreInv, NEW h \in Handles, NEW c \in Chunks, NEW ok \in BOOLEAN,
           wolfPSA_Store_Write(h, c, ok)
    PROVE  Whole!Write(h, c, ok)
<1> DEFINE f == ctx[h].file
<1>1. /\ file' = file /\ Open(h) /\ ctx[h].is_write
      /\ asked' = [asked EXCEPT ![h] = Append(@, c)]
      /\ data' = [data EXCEPT ![f] = Append(@, c)] \/ data' = data
      /\ ctx' = [ctx EXCEPT ![h].write_failed = @ \/ ~ok]
  BY DEF wolfPSA_Store_Write, Wrote
<1>2. ctx[h] \in Ctx /\ f \in temps
  BY <1>1, Held DEF StoreInv, OneOwner
<1>3. \A m \in InUse : m # f => data'[m] = data[m]
  BY <1>1 DEF StoreInv, TypeOK
<1>4. RecordBar' = RecordBar
  <2>1. \A i \in Ids : file[i] # None => file[i] # f /\ file[i] \in InUse
    BY <1>2, Held DEF StoreInv, OneOwner
  <2> QED BY <1>1, <1>3, <2>1, SameRecord DEF RecordBar
<1>5. /\ ctx'[h] = [ctx[h] EXCEPT !.write_failed = @ \/ ~ok] /\ Open(h)'
      /\ asked'[h] = Append(asked[h], c)
  BY <1>1, InvWrite DEF StoreInv, TypeOK
<1>6. \A g \in Handles \ {h} : HandleView(g)' = HandleView(g)
  <2> TAKE g \in Handles \ {h}
  <2>1. ctx'[g] = ctx[g] /\ asked'[g] = asked[g]
    BY <1>1 DEF StoreInv, TypeOK
  <2>2. Open(g) => ctx[g].file # f /\ ctx[g].file \in InUse
    BY <1>1, Held DEF StoreInv, OneOwner
  <2> QED BY <1>3, <2>1, <2>2, SameView
<1>7. HandleView(h) = [write |-> ctx[h].is_write, id |-> ctx[h].id,
                       data |-> asked[h], pos |-> ctx[h].pos,
                       spoiled |-> ctx[h].write_failed]
  BY <1>1 DEF HandleView, Open
<1> DEFINE spoils == ctx[h].write_failed \/ ~ok
           more == Append(asked[h], c)
<1>8. /\ ctx'[h] = [ctx[h] EXCEPT !.write_failed = spoils] /\ asked'[h] = more
      /\ ctx'[h] # Closed
  BY <1>5 DEF Open
<1>9. HandleView(h)' = [HandleView(h) EXCEPT !.data = Append(@, c),
                                             !.spoiled = @ \/ ~ok]
  <2>1. [HandleView(h) EXCEPT !.data = Append(@, c), !.spoiled = @ \/ ~ok]
           = [HandleView(h) EXCEPT !.data = more, !.spoiled = spoils]
    BY <1>7
  <2> HIDE DEF spoils, more
  <2>2. HandleView(h)' = [write |-> ctx[h].is_write, id |-> ctx[h].id,
                          data |-> more, pos |-> ctx[h].pos, spoiled |-> spoils]
    <3>1. /\ ctx'[h].is_write = ctx[h].is_write /\ ctx'[h].id = ctx[h].id
          /\ ctx'[h].pos = ctx[h].pos /\ ctx'[h].write_failed = spoils
      BY <1>2, <1>8 DEF Ctx
    <3> QED BY <1>1, <1>8, <3>1 DEF HandleView
  <2>3. [HandleView(h) EXCEPT !.data = more, !.spoiled = spoils]
           = [write |-> ctx[h].is_write, id |-> ctx[h].id,
              data |-> more, pos |-> ctx[h].pos, spoiled |-> spoils]
    <3> DEFINE v == [write |-> ctx[h].is_write, id |-> ctx[h].id,
                     data |-> asked[h], pos |-> ctx[h].pos,
                     spoiled |-> ctx[h].write_failed]
    <3>1. [v EXCEPT !.data = more, !.spoiled = spoils]
             = [write |-> ctx[h].is_write, id |-> ctx[h].id,
                data |-> more, pos |-> ctx[h].pos, spoiled |-> spoils]
      <4>1. [v EXCEPT !.data = more, !.spoiled = spoils]
               = [[v EXCEPT !.data = more] EXCEPT !.spoiled = spoils]
        OBVIOUS
      <4>2. [v EXCEPT !.data = more]
               = [write |-> ctx[h].is_write, id |-> ctx[h].id,
                  data |-> more, pos |-> ctx[h].pos, spoiled |-> ctx[h].write_failed]
        OBVIOUS
      <4>3. [[write |-> ctx[h].is_write, id |-> ctx[h].id, data |-> more,
              pos |-> ctx[h].pos, spoiled |-> ctx[h].write_failed]
                EXCEPT !.spoiled = spoils]
               = [write |-> ctx[h].is_write, id |-> ctx[h].id,
                  data |-> more, pos |-> ctx[h].pos, spoiled |-> spoils]
        OBVIOUS
      <4> HIDE DEF v
      <4> QED BY <4>1, <4>2, <4>3
    <3>2. HandleView(h) = v
      BY <1>7
    <3> HIDE DEF v
    <3> QED BY <3>1, <3>2
  <2> QED BY <2>1, <2>2, <2>3
<1>10. HandleBar' = [HandleBar EXCEPT ![h].data = Append(@, c), ![h].spoiled = @ \/ ~ok]
  BY <1>6, <1>9 DEF HandleBar
<1>11. HandleBar[h] # Closed /\ HandleBar[h].write
  BY <1>1, <1>7, Visible DEF HandleBar
<1> QED BY <1>4, <1>10, <1>11 DEF Whole!Write, RecordBar, HandleBar

(* Closing publishes all that was written, or discards all of it. *)
LEMMA SimClose ==
    ASSUME StoreInv, NEW h \in Handles, NEW flushed \in BOOLEAN,
           wolfPSA_Store_Close(h, flushed)
    PROVE  Whole!Publish(h) \/ Whole!Discard(h)
<1> DEFINE f == ctx[h].file
<1>1. /\ Open(h) /\ ctx' = [ctx EXCEPT ![h] = Closed]
      /\ asked' = [asked EXCEPT ![h] = <<>>]
      /\ \A m \in InUse' :
            m # f \/ flushed \/ ~ctx[h].is_write => data'[m] = data[m]
  BY CloseShape
<1>2. ctx[h] \in Ctx /\ ctx[h].id \in Ids
  BY <1>1, Held DEF StoreInv, Ctx
<1>3. HandleBar' = [HandleBar EXCEPT ![h] = Closed]
  <2>1. HandleView(h)' = Closed
    BY <1>1 DEF HandleView, StoreInv, TypeOK
  <2>2. ASSUME NEW g \in Handles \ {h} PROVE HandleView(g)' = HandleView(g)
    <3>1. ctx'[g] = ctx[g] /\ asked'[g] = asked[g]
      BY <1>1 DEF StoreInv, TypeOK
    <3>2. Open(g) => ctx[g].file \in InUse' /\ (ctx[h].is_write => ctx[g].file # f)
      BY <1>1, <3>1 DEF StoreInv, OneOwner, InUse, Open
    <3> QED BY <1>1, <3>1, <3>2, SameView
  <2> QED BY <2>1, <2>2 DEF HandleBar
<1>4. /\ HandleBar[h] # Closed /\ HandleBar[h].write = ctx[h].is_write
      /\ HandleBar[h].id = ctx[h].id /\ HandleBar[h].spoiled = ctx[h].write_failed
      /\ ctx[h].is_write => HandleBar[h].data = asked[h]
  BY <1>1, Visible DEF HandleBar, HandleView, Open
<1>5. CASE ctx[h].is_write /\ ret' = "OK"
  <2>1. ~ctx[h].write_failed
    BY <1>5, CloseShape
  <2>2. \A i \in Ids : Record(i)' = IF i = ctx[h].id THEN asked[h] ELSE Record(i)
    BY <1>5, CloseRecords
  <2>3. RecordBar' = [RecordBar EXCEPT ![HandleBar[h].id] = HandleBar[h].data]
    BY <1>2, <1>4, <1>5, <2>2 DEF RecordBar
  <2> QED BY <1>3, <1>4, <1>5, <2>1, <2>3 DEF Whole!Publish, RecordBar, HandleBar
<1>6. CASE ~(ctx[h].is_write /\ ret' = "OK")
  <2>1. \A i \in Ids : Record(i)' = Record(i)
    BY <1>6, CloseRecords
  <2>2. RecordBar' = RecordBar
    BY <2>1 DEF RecordBar
  <2> QED BY <1>3, <1>4, <2>2 DEF Whole!Discard, RecordBar, HandleBar
<1> QED BY <1>5, <1>6

(* Removing a record removes it whole, and no reader notices. *)
LEMMA SimRemove ==
    ASSUME StoreInv, NEW id \in Ids, wolfPSA_Store_Remove(id)
    PROVE  Whole!Remove(id) \/ UNCHANGED <<RecordBar, HandleBar>>
<1>1. /\ UNCHANGED <<temps, ctx, asked>> /\ \A m \in InUse' : data'[m] = data[m]
      /\ file' = file \/ file' = [file EXCEPT ![id] = None]
  BY InvRemove DEF wolfPSA_Store_Remove
<1>2. HandleBar' = HandleBar
  <2>1. \A g \in Handles : Open(g) => ctx[g].file \in InUse'
    BY <1>1 DEF InUse, Open
  <2> QED BY <1>1, <2>1, SameView DEF HandleBar
<1>3. \A i \in Ids : file'[i] = file[i] => Record(i)' = Record(i)
  <2>1. \A i \in Ids : file'[i] = file[i] /\ file[i] # None => file[i] \in InUse'
    BY DEF InUse
  <2> QED BY <1>1, <2>1, SameRecord
<1>4. CASE file' = file
  BY <1>2, <1>3, <1>4 DEF RecordBar
<1>5. CASE file' = [file EXCEPT ![id] = None]
  <2>1. \A i \in Ids : Record(i)' = IF i = id THEN None ELSE Record(i)
    BY <1>3, <1>5 DEF StoreInv, TypeOK, Record
  <2>2. RecordBar' = [RecordBar EXCEPT ![id] = None]
    BY <2>1 DEF RecordBar
  <2> QED BY <1>2, <2>2 DEF Whole!Remove, RecordBar, HandleBar
<1> QED BY <1>1, <1>4, <1>5

(* The death of the process loses the handles and no record. *)
LEMMA SimCrash ==
    ASSUME StoreInv, Crash
    PROVE  Whole!Crash
<1>1. /\ file' = file /\ \A m \in InUse' : data'[m] = data[m]
      /\ ctx' = [h \in Handles |-> Closed]
  BY InvCrash DEF Crash
<1>2. HandleBar' = [h \in Handles |-> Closed]
  BY <1>1 DEF HandleBar, HandleView
<1>3. \A i \in Ids : file[i] # None => file[i] \in InUse'
  BY <1>1 DEF InUse
<1>4. RecordBar' = RecordBar
  BY <1>1, <1>3, SameRecord DEF RecordBar
<1> QED BY <1>2, <1>4 DEF Whole!Crash, RecordBar, HandleBar

(* The file store is a store of whole records: every behaviour of              *)
(* psa_store_posix.c, crashes and failing calls included, is a behaviour of *)
(* the store that psa_store.h promises.                                     *)
THEOREM FileStoreIsAtomic == Spec => Atomic
<1>1. Init => Whole!Init
  <2> SUFFICES ASSUME Init PROVE Whole!Init
    OBVIOUS
  <2>1. \A i \in Ids : Record(i) = None
    BY DEF Init, Record
  <2>2. \A h \in Handles : HandleView(h) = Closed
    BY DEF Init, HandleView
  <2> QED BY <2>1, <2>2 DEF Whole!Init
<1>2. StoreInv /\ [Next]_vars => [Whole!Next]_(Whole!vars)
  <2> SUFFICES ASSUME StoreInv, [Next]_vars
               PROVE  Whole!Next \/ UNCHANGED <<RecordBar, HandleBar>>
    BY DEF Whole!vars, RecordBar, HandleBar
  <2>1. CASE UNCHANGED vars
    BY <2>1, SameRecord, SameView DEF vars, RecordBar, HandleBar
  <2>2. CASE \E h \in Handles, id \in Ids :
                wolfPSA_Store_OpenRead(h, id) \/ wolfPSA_Store_OpenWrite(h, id)
    BY <2>2, SimOpenRead, SimOpenWrite DEF Whole!Next
  <2>3. CASE \E h \in Handles, n \in 0 .. MaxWrites : wolfPSA_Store_Read(h, n)
    BY <2>3, SimRead DEF Whole!Next
  <2>4. CASE \E h \in Handles, c \in Chunks, ok \in BOOLEAN : wolfPSA_Store_Write(h, c, ok)
    BY <2>4, SimWrite DEF Whole!Next
  <2>5. CASE \E h \in Handles, flushed \in BOOLEAN : wolfPSA_Store_Close(h, flushed)
    BY <2>5, SimClose DEF Whole!Next
  <2>6. CASE \E id \in Ids : wolfPSA_Store_Remove(id)
    BY <2>6, SimRemove DEF Whole!Next
  <2>7. CASE Crash
    BY <2>7, SimCrash DEF Whole!Next
  <2> QED BY <2>1, <2>2, <2>3, <2>4, <2>5, <2>6, <2>7 DEF Next
<1> QED BY StoreKept, <1>1, <1>2, PTL DEF Spec, Atomic, Whole!Spec
-----------------------------------------------------------------------------
(* The Zephyr store: pieces of sequences. *)

(* The first m elements. *)
LEMMA ZephyrInitial ==
    ASSUME NEW S, NEW s \in Seq(S), NEW m \in 0 .. Len(s)
    PROVE  /\ Len(s) \in Nat /\ m \in Nat /\ m =< Len(s)
           /\ SubSeq(s, 1, m) \in Seq(S) /\ Len(SubSeq(s, 1, m)) = m
           /\ \A i \in 1 .. m : SubSeq(s, 1, m)[i] = s[i]
<1>1. Len(s) \in Nat /\ s \in [1 .. Len(s) -> S]
  BY LenProperties
<1>2. m \in Nat /\ m =< Len(s)
  BY <1>1
<1>3. \A i \in 1 .. m : s[i] \in S
  BY <1>1, <1>2
<1>4. /\ SubSeq(s, 1, m) \in Seq(S)
      /\ Len(SubSeq(s, 1, m)) = IF 1 =< m THEN m - 1 + 1 ELSE 0
      /\ \A i \in 1 .. m - 1 + 1 : SubSeq(s, 1, m)[i] = s[1 + i - 1]
  BY <1>2, <1>3, SubSeqProperties
<1>5. \A i \in 1 .. m : SubSeq(s, 1, m)[i] = s[i]
  BY <1>2, <1>4
<1> QED BY <1>1, <1>2, <1>4, <1>5

(* A piece and the piece after it make one piece. *)
LEMMA ZephyrNextPiece ==
    ASSUME NEW S, NEW s \in Seq(S), NEW e \in 0 .. Len(s), NEW m \in 0 .. e
    PROVE  SubSeq(s, 1, m) \o SubSeq(s, m + 1, e) = SubSeq(s, 1, e)
<1> DEFINE p == SubSeq(s, 1, m)
           q == SubSeq(s, m + 1, e)
           r == SubSeq(s, 1, e)
<1>1. Len(s) \in Nat /\ s \in [1 .. Len(s) -> S]
  BY LenProperties
<1>2. /\ e \in Nat /\ m \in Nat /\ m =< e /\ e =< Len(s) /\ m \in 0 .. Len(s)
      /\ m + 1 \in Int
  BY <1>1
<1>3. p \in Seq(S) /\ Len(p) = m /\ \A i \in 1 .. m : p[i] = s[i]
  BY <1>2, ZephyrInitial
<1>4. r \in Seq(S) /\ Len(r) = e /\ \A i \in 1 .. e : r[i] = s[i]
  BY ZephyrInitial
<1>5. \A i \in m + 1 .. e : s[i] \in S
  BY <1>1, <1>2
<1>6. /\ q \in Seq(S) /\ Len(q) = IF m + 1 =< e THEN e - (m + 1) + 1 ELSE 0
      /\ \A i \in 1 .. e - (m + 1) + 1 : q[i] = s[m + 1 + i - 1]
  BY <1>2, <1>5, SubSeqProperties
<1>7. Len(q) = e - m /\ \A i \in 1 .. e - m : q[i] = s[m + i]
  BY <1>2, <1>6
<1> HIDE DEF p, q, r
<1>8. /\ p \o q \in Seq(S) /\ Len(p \o q) = Len(p) + Len(q)
      /\ \A i \in 1 .. Len(p) + Len(q) :
            (p \o q)[i] = IF i =< Len(p) THEN p[i] ELSE q[i - Len(p)]
  BY <1>3, <1>6, ConcatProperties
<1>9. Len(p \o q) = Len(r)
  BY <1>2, <1>3, <1>4, <1>7, <1>8
<1>10. ASSUME NEW i \in 1 .. e PROVE (p \o q)[i] = r[i]
  <2>1. (p \o q)[i] = IF i =< m THEN p[i] ELSE q[i - m]
    BY <1>2, <1>3, <1>7, <1>8, <1>10
  <2>2. i =< m => p[i] = s[i]
    BY <1>2, <1>3, <1>10
  <2>3. ~(i =< m) => q[i - m] = s[i]
    <3>1. ~(i =< m) => i - m \in 1 .. e - m /\ m + (i - m) = i
      BY <1>2, <1>10
    <3> QED BY <1>7, <3>1
  <2> QED BY <1>4, <1>10, <2>1, <2>2, <2>3
<1>11. p \o q = r
  BY <1>4, <1>8, <1>9, <1>10, SeqEqual
<1> QED BY <1>11 DEF p, q, r

(* The beginning of a beginning is a beginning. *)
LEMMA ZephyrPrefixOfPrefix ==
    ASSUME NEW S, NEW s \in Seq(S), NEW t \in Seq(S), Zephyr!IsPrefix(s, t),
           NEW m \in 0 .. Len(s)
    PROVE  Zephyr!IsPrefix(SubSeq(s, 1, m), t)
<1>1. Len(s) =< Len(t) /\ SubSeq(s, 1, Len(s)) = SubSeq(t, 1, Len(s))
  BY DEF Zephyr!IsPrefix
<1>2. /\ Len(s) \in Nat /\ Len(t) \in Nat /\ Len(s) \in 0 .. Len(s)
      /\ Len(s) \in 0 .. Len(t) /\ m \in 0 .. Len(t) /\ m \in 0 .. m /\ m \in Nat
  BY <1>1, LenProperties
<1> DEFINE p == SubSeq(s, 1, m)
           q == SubSeq(t, 1, m)
<1>3. p \in Seq(S) /\ Len(p) = m /\ \A i \in 1 .. m : p[i] = s[i]
  BY ZephyrInitial
<1>4. q \in Seq(S) /\ Len(q) = m /\ \A i \in 1 .. m : q[i] = t[i]
  BY <1>2, ZephyrInitial
<1>5. \A i \in 1 .. Len(s) : SubSeq(s, 1, Len(s))[i] = s[i]
  BY <1>2, ZephyrInitial
<1>6. \A i \in 1 .. Len(s) : SubSeq(t, 1, Len(s))[i] = t[i]
  BY <1>2, ZephyrInitial
<1> HIDE DEF p, q
<1>7. \A i \in 1 .. m : p[i] = q[i]
  BY <1>1, <1>2, <1>3, <1>4, <1>5, <1>6
<1>8. p = q
  BY <1>3, <1>4, <1>7, SeqEqual
<1>9. SubSeq(p, 1, m) \in Seq(S) /\ Len(SubSeq(p, 1, m)) = m
      /\ \A i \in 1 .. m : SubSeq(p, 1, m)[i] = p[i]
  BY <1>2, <1>3, ZephyrInitial
<1>10. SubSeq(p, 1, m) = p
  BY <1>3, <1>9, SeqEqual
<1>11. Len(p) =< Len(t) /\ SubSeq(p, 1, Len(p)) = SubSeq(t, 1, Len(p))
  BY <1>2, <1>3, <1>8, <1>10 DEF q
<1> QED BY <1>11 DEF p, Zephyr!IsPrefix

(* What psa_its_get() copies of an object is its beginning. *)
LEMMA ZephyrCopyIsPrefix ==
    ASSUME NEW S, NEW t \in Seq(S), NEW m \in 0 .. Len(t)
    PROVE  Zephyr!IsPrefix(SubSeq(t, 1, m), t)
<1>1. Len(t) \in Nat /\ Len(t) \in 0 .. Len(t) /\ Len(t) =< Len(t)
  BY LenProperties
<1>2. Zephyr!IsPrefix(t, t)
  BY <1>1 DEF Zephyr!IsPrefix
<1> QED BY <1>2, ZephyrPrefixOfPrefix

-----------------------------------------------------------------------------
(* The inductive invariant. *)

ZephyrInv == Zephyr!TypeOK /\ Zephyr!Snapshots

(* A handle that is serving an object. *)
ZephyrServes(h) == Zephyr!Open(h) /\ ~zctx[h].write /\ ~zctx[h].opening

(* What is served is the beginning of the object the buffer is taken from. *)
LEMMA ZephyrSnapshotsSuffice == ZephyrInv => Zephyr!OneObject
<1> SUFFICES ASSUME ZephyrInv, NEW h \in Handles, Zephyr!Open(h), ~zctx[h].write,
                    delivered[h] # <<>>
             PROVE  \E object \in published[zctx[h].uid] : Zephyr!IsPrefix(delivered[h], object)
  BY DEF Zephyr!OneObject
<1>1. ZephyrServes(h)
  BY DEF ZephyrInv, Zephyr!Snapshots, ZephyrServes
<1>2. /\ zctx[h].off =< Len(zctx[h].buf)
      /\ delivered[h] = SubSeq(zctx[h].buf, 1, zctx[h].off)
  BY <1>1 DEF ZephyrInv, Zephyr!Snapshots, ZephyrServes
<1>3. PICK object \in published[zctx[h].uid] : Zephyr!IsPrefix(zctx[h].buf, object)
  BY <1>1 DEF ZephyrInv, Zephyr!Snapshots, ZephyrServes
<1>4. zctx[h].buf \in Seq(Zephyr!Bytes) /\ zctx[h].off \in Nat /\ object \in Seq(Zephyr!Bytes)
  BY <1>1 DEF ZephyrInv, Zephyr!TypeOK, Zephyr!Ctx, ZephyrServes, Zephyr!Open
<1>5. zctx[h].off \in 0 .. Len(zctx[h].buf)
  BY <1>2, <1>4, LenProperties
<1> QED BY <1>2, <1>3, <1>4, <1>5, ZephyrPrefixOfPrefix

(* Nothing is open at first. *)
LEMMA ZephyrInvInit == Zephyr!Init => ZephyrInv
<1> SUFFICES ASSUME Zephyr!Init PROVE ZephyrInv
  OBVIOUS
<1>1. <<>> \in Seq(Zephyr!Bytes)
  BY EmptySeq
<1>2. Zephyr!TypeOK
  BY <1>1 DEF Zephyr!Init, Zephyr!TypeOK
<1>3. Zephyr!Snapshots
  BY DEF Zephyr!Init, Zephyr!Snapshots, Zephyr!Open
<1> QED BY <1>2, <1>3 DEF ZephyrInv

(* The step of one handle that leaves the objects alone: enough to look at it. *)
LEMMA ZephyrOneHandle ==
    ASSUME ZephyrInv, NEW h \in Handles, NEW new \in {Closed} \union Zephyr!Ctx,
           zctx' = [zctx EXCEPT ![h] = new], UNCHANGED <<its, published>>,
           zret' \in {"OK", "NOT_AVAILABLE", "IO_ERROR", "MEMORY_E"},
           delivered' \in [Handles -> Seq(Zephyr!Bytes)],
           \A g \in Handles \ {h} : delivered'[g] = delivered[g],
           IF new # Closed /\ ~new.write /\ ~new.opening
           THEN /\ new.off =< Len(new.buf)
                /\ delivered'[h] = SubSeq(new.buf, 1, new.off)
                /\ \E object \in published[new.uid] : Zephyr!IsPrefix(new.buf, object)
           ELSE /\ delivered'[h] = <<>>
                /\ new # Closed /\ new.opening => ~new.write /\ new.off = 0
    PROVE  ZephyrInv'
<1>1. zctx' \in [Handles -> {Closed} \union Zephyr!Ctx] /\ zctx'[h] = new
      /\ \A g \in Handles \ {h} : zctx'[g] = zctx[g]
  BY DEF ZephyrInv, Zephyr!TypeOK
<1>2. Zephyr!TypeOK'
  BY <1>1 DEF ZephyrInv, Zephyr!TypeOK
<1>3. Zephyr!Snapshots'
  <2> SUFFICES ASSUME NEW g \in Handles
               PROVE  IF Zephyr!Open(g)' /\ ~zctx'[g].write /\ ~zctx'[g].opening
                      THEN /\ zctx'[g].off =< Len(zctx'[g].buf)
                           /\ delivered'[g] = SubSeq(zctx'[g].buf, 1, zctx'[g].off)
                           /\ \E object \in published'[zctx'[g].uid] :
                                 Zephyr!IsPrefix(zctx'[g].buf, object)
                      ELSE /\ delivered'[g] = <<>>
                           /\ Zephyr!Open(g)' /\ zctx'[g].opening =>
                                 ~zctx'[g].write /\ zctx'[g].off = 0
    BY DEF ZephyrInv, Zephyr!Snapshots
  <2>1. CASE g = h
    BY <1>1, <2>1 DEF Zephyr!Open
  <2>2. CASE g # h
    BY <1>1, <2>2 DEF ZephyrInv, Zephyr!Snapshots, Zephyr!Open
  <2> QED BY <2>1, <2>2
<1> QED BY <1>2, <1>3 DEF ZephyrInv

(* A call that fails without touching a handle. *)
LEMMA ZephyrFailed ==
    ASSUME ZephyrInv, UNCHANGED <<its, zctx, delivered, published>>,
           zret' \in {"OK", "NOT_AVAILABLE", "IO_ERROR", "MEMORY_E"}
    PROVE  ZephyrInv'
BY DEF ZephyrInv, Zephyr!TypeOK, Zephyr!Snapshots, Zephyr!Open

(* A new handle. *)
LEMMA ZephyrNewCtxType ==
    ASSUME Zephyr!ConstantsOK, NEW u \in Uids, NEW w \in BOOLEAN, NEW o \in BOOLEAN,
           NEW n \in Nat
    PROVE  [Zephyr!NewCtx(u, w) EXCEPT !.opening = o, !.size = n] \in Zephyr!Ctx
<1>1. <<>> \in Seq(Zephyr!Bytes) /\ 0 \in Nat /\ 0 \in 0 .. MaxWrites
  BY EmptySeq DEF Zephyr!ConstantsOK
<1>2. [Zephyr!NewCtx(u, w) EXCEPT !.opening = o, !.size = n]
         = [uid |-> u, write |-> w, opening |-> o, size |-> n, buf |-> <<>>,
            off |-> 0, writes |-> 0]
  <2>1. [Zephyr!NewCtx(u, w) EXCEPT !.opening = o, !.size = n]
           = [[Zephyr!NewCtx(u, w) EXCEPT !.opening = o] EXCEPT !.size = n]
    BY DEF Zephyr!NewCtx
  <2>2. [Zephyr!NewCtx(u, w) EXCEPT !.opening = o]
           = [uid |-> u, write |-> w, opening |-> o, size |-> 0, buf |-> <<>>,
              off |-> 0, writes |-> 0]
    BY DEF Zephyr!NewCtx
  <2>3. [[uid |-> u, write |-> w, opening |-> o, size |-> 0, buf |-> <<>>,
          off |-> 0, writes |-> 0] EXCEPT !.size = n]
           = [uid |-> u, write |-> w, opening |-> o, size |-> n, buf |-> <<>>,
              off |-> 0, writes |-> 0]
    OBVIOUS
  <2> QED BY <2>1, <2>2, <2>3
<1> QED BY <1>1, <1>2 DEF Zephyr!Ctx

(* psa_its_get_info() opens a reader with nothing in it, or fails. *)
LEMMA ZephyrInvGetInfo ==
    ASSUME Zephyr!ConstantsOK, ZephyrInv, NEW h \in Handles, NEW u \in Uids,
           Zephyr!psa_its_get_info(h, u)
    PROVE  ZephyrInv'
<1>1. UNCHANGED <<its, delivered, published>> /\ ~Zephyr!Open(h)
  BY DEF Zephyr!psa_its_get_info
<1>2. CASE /\ its[u] # None /\ zret' = zret
           /\ zctx' = [zctx EXCEPT ![h] = [Zephyr!NewCtx(u, FALSE) EXCEPT
                                            !.opening = TRUE, !.size = Len(its[u])]]
  <2> DEFINE new == [Zephyr!NewCtx(u, FALSE) EXCEPT !.opening = TRUE, !.size = Len(its[u])]
  <2>1. Len(its[u]) \in Nat
    BY <1>2, LenProperties DEF ZephyrInv, Zephyr!TypeOK
  <2>2. new \in Zephyr!Ctx
    BY <2>1, ZephyrNewCtxType
  <2>3. new.opening /\ ~new.write /\ new.off = 0
    BY DEF Zephyr!NewCtx
  <2>4. delivered'[h] = <<>> /\ delivered' \in [Handles -> Seq(Zephyr!Bytes)]
    BY <1>1 DEF ZephyrInv, Zephyr!TypeOK, Zephyr!Snapshots
  <2>5. zret' \in {"OK", "NOT_AVAILABLE", "IO_ERROR", "MEMORY_E"}
    BY <1>2 DEF ZephyrInv, Zephyr!TypeOK
  <2> HIDE DEF new
  <2>6. zctx' = [zctx EXCEPT ![h] = new]
    BY <1>2 DEF new
  <2> QED BY <1>1, <2>2, <2>3, <2>4, <2>5, <2>6, ZephyrOneHandle
<1>3. CASE zret' \in {"NOT_AVAILABLE", "IO_ERROR"} /\ zctx' = zctx
  BY <1>1, <1>3, ZephyrFailed
<1> QED BY <1>2, <1>3 DEF Zephyr!psa_its_get_info, Zephyr!Fails

(* wolfPSA_Store_OpenSz() for writing opens a writer, or fails. *)
LEMMA ZephyrInvOpenWrite ==
    ASSUME Zephyr!ConstantsOK, ZephyrInv, NEW h \in Handles, NEW u \in Uids,
           Zephyr!wolfPSA_Store_OpenWrite(h, u)
    PROVE  ZephyrInv'
<1>1. UNCHANGED <<its, delivered, published>> /\ ~Zephyr!Open(h)
  BY DEF Zephyr!wolfPSA_Store_OpenWrite
<1>2. CASE zret' = "OK" /\ zctx' = [zctx EXCEPT ![h] = Zephyr!NewCtx(u, TRUE)]
  <2> DEFINE new == Zephyr!NewCtx(u, TRUE)
  <2>1. new \in Zephyr!Ctx
    <3>1. <<>> \in Seq(Zephyr!Bytes) /\ 0 \in Nat /\ 0 \in 0 .. MaxWrites
      BY EmptySeq DEF Zephyr!ConstantsOK
    <3> QED BY <3>1 DEF Zephyr!NewCtx, Zephyr!Ctx
  <2>2. new.write /\ ~new.opening
    BY DEF Zephyr!NewCtx
  <2>3. delivered'[h] = <<>> /\ delivered' \in [Handles -> Seq(Zephyr!Bytes)]
    BY <1>1 DEF ZephyrInv, Zephyr!TypeOK, Zephyr!Snapshots
  <2> HIDE DEF new
  <2>4. zctx' = [zctx EXCEPT ![h] = new]
    BY <1>2 DEF new
  <2> QED BY <1>1, <1>2, <2>1, <2>2, <2>3, <2>4, ZephyrOneHandle
<1>3. CASE zret' = "MEMORY_E" /\ zctx' = zctx
  BY <1>1, <1>3, ZephyrFailed
<1> QED BY <1>2, <1>3 DEF Zephyr!wolfPSA_Store_OpenWrite, Zephyr!Fails

(* psa_its_get() fills the buffer from the object that is there now: the       *)
(* beginning of it, when it has grown since psa_its_get_info().             *)
LEMMA ZephyrInvGet ==
    ASSUME Zephyr!ConstantsOK, ZephyrInv, NEW h \in Handles, Zephyr!psa_its_get(h)
    PROVE  ZephyrInv'
<1> DEFINE c == zctx[h]
           now == its[c.uid]
<1>1. UNCHANGED <<its, delivered, published>> /\ Zephyr!Open(h) /\ c.opening
  BY DEF Zephyr!psa_its_get
<1>2. /\ c \in Zephyr!Ctx /\ c.uid \in Uids /\ c.size \in Nat
      /\ delivered[h] = <<>> /\ delivered' \in [Handles -> Seq(Zephyr!Bytes)]
      /\ c.write = FALSE /\ c.off = 0
  BY <1>1 DEF ZephyrInv, Zephyr!TypeOK, Zephyr!Snapshots, Zephyr!Open, Zephyr!Ctx
<1>3. CASE /\ now # None /\ Len(now) >= c.size /\ zret' = "OK"
           /\ zctx' = [zctx EXCEPT ![h].opening = FALSE, ![h].buf = SubSeq(now, 1, c.size)]
  <2> DEFINE buf == SubSeq(now, 1, c.size)
             new == [c EXCEPT !.opening = FALSE, !.buf = buf]
  <2>1. now \in Seq(Zephyr!Bytes) /\ now \in published[c.uid]
    BY <1>2, <1>3 DEF ZephyrInv, Zephyr!TypeOK, Zephyr!Snapshots
  <2>2. c.size \in 0 .. Len(now)
    BY <1>2, <1>3, <2>1, LenProperties
  <2>3. buf \in Seq(Zephyr!Bytes) /\ Len(buf) = c.size /\ Zephyr!IsPrefix(buf, now)
    BY <2>1, <2>2, ZephyrInitial, ZephyrCopyIsPrefix
  <2>4. zctx' = [zctx EXCEPT ![h] = new]
    BY <1>3 DEF ZephyrInv, Zephyr!TypeOK
  <2> HIDE DEF buf
  <2>5. new \in Zephyr!Ctx
    BY <1>2, <2>3, Zenon DEF Zephyr!Ctx
  <2>6. /\ new.write = FALSE /\ new.opening = FALSE /\ new.off = 0 /\ new.buf = buf
        /\ new.uid = c.uid
    BY <1>2 DEF Zephyr!Ctx
  <2>7. SubSeq(buf, 1, 0) = <<>> /\ 0 =< Len(buf)
    BY <1>2, <2>3, SubSeqEmpty
  <2>8. IF new # Closed /\ ~new.write /\ ~new.opening
        THEN /\ new.off =< Len(new.buf)
             /\ delivered'[h] = SubSeq(new.buf, 1, new.off)
             /\ \E object \in published[new.uid] : Zephyr!IsPrefix(new.buf, object)
        ELSE /\ delivered'[h] = <<>>
             /\ new # Closed /\ new.opening => ~new.write /\ new.off = 0
    BY <1>1, <1>2, <2>1, <2>3, <2>6, <2>7
  <2> HIDE DEF new
  <2> QED BY <1>1, <1>2, <1>3, <2>4, <2>5, <2>8, ZephyrOneHandle
<1>4. CASE zret' \in {"IO_ERROR", "MEMORY_E"} /\ zctx' = [zctx EXCEPT ![h] = Closed]
  BY <1>1, <1>2, <1>4, ZephyrOneHandle
<1> QED BY <1>3, <1>4 DEF Zephyr!psa_its_get

(* Reading serves the next piece of the buffer. *)
LEMMA ZephyrInvServe ==
    ASSUME Zephyr!ConstantsOK, ZephyrInv, NEW h \in Handles, NEW n \in 1 .. MaxLen,
           Zephyr!wolfPSA_Store_Read(h, n)
    PROVE  ZephyrInv'
<1> DEFINE c == zctx[h]
           end == IF c.off + n < Len(c.buf) THEN c.off + n ELSE Len(c.buf)
<1>1. /\ UNCHANGED <<its, published>> /\ ZephyrServes(h) /\ zret' = "OK"
      /\ delivered' = [delivered EXCEPT ![h] = @ \o SubSeq(c.buf, c.off + 1, end)]
      /\ zctx' = [zctx EXCEPT ![h].off = IF end > @ THEN end ELSE @]
  BY DEF Zephyr!wolfPSA_Store_Read, Zephyr!Serve, ZephyrServes
<1>2. /\ c \in Zephyr!Ctx /\ c.buf \in Seq(Zephyr!Bytes) /\ c.off \in Nat /\ c.off =< Len(c.buf)
      /\ delivered[h] = SubSeq(c.buf, 1, c.off)
      /\ \E object \in published[c.uid] : Zephyr!IsPrefix(c.buf, object)
  BY <1>1 DEF ZephyrInv, Zephyr!TypeOK, Zephyr!Snapshots, ZephyrServes, Zephyr!Open, Zephyr!Ctx
<1>3. Len(c.buf) \in Nat /\ n \in Nat
  BY <1>2, LenProperties
<1>4. end \in 0 .. Len(c.buf) /\ c.off \in 0 .. end /\ end \in Nat
  BY <1>2, <1>3
<1>5. (IF end > c.off THEN end ELSE c.off) = end
  BY <1>2, <1>4
<1> HIDE DEF end
<1>6. SubSeq(c.buf, 1, c.off) \o SubSeq(c.buf, c.off + 1, end) = SubSeq(c.buf, 1, end)
  BY <1>2, <1>4, ZephyrNextPiece
<1>7. SubSeq(c.buf, 1, end) \in Seq(Zephyr!Bytes)
  BY <1>2, <1>4, ZephyrInitial
<1> DEFINE new == [c EXCEPT !.off = end]
<1>8. zctx' = [zctx EXCEPT ![h] = new]
  BY <1>1, <1>5 DEF ZephyrInv, Zephyr!TypeOK
<1>9. /\ delivered'[h] = SubSeq(c.buf, 1, end)
      /\ delivered' \in [Handles -> Seq(Zephyr!Bytes)]
      /\ \A g \in Handles \ {h} : delivered'[g] = delivered[g]
  BY <1>1, <1>2, <1>6, <1>7 DEF ZephyrInv, Zephyr!TypeOK
<1>10. new \in Zephyr!Ctx
  BY <1>2, <1>4, Zenon DEF Zephyr!Ctx
<1>11. /\ new.off = end /\ new.buf = c.buf /\ new.uid = c.uid
       /\ new.write = c.write /\ new.opening = c.opening
  BY <1>2 DEF Zephyr!Ctx
<1>12. end =< Len(c.buf)
  BY <1>3, <1>4
<1>13. IF new # Closed /\ ~new.write /\ ~new.opening
       THEN /\ new.off =< Len(new.buf)
            /\ delivered'[h] = SubSeq(new.buf, 1, new.off)
            /\ \E object \in published[new.uid] : Zephyr!IsPrefix(new.buf, object)
       ELSE /\ delivered'[h] = <<>>
            /\ new # Closed /\ new.opening => ~new.write /\ new.off = 0
  <2>1. new # Closed /\ ~new.write /\ ~new.opening
    BY <1>1, <1>10, <1>11 DEF Zephyr!ConstantsOK, ZephyrServes
  <2> HIDE DEF new
  <2> QED BY <1>2, <1>9, <1>11, <1>12, <2>1
<1> HIDE DEF new
<1> QED BY <1>1, <1>8, <1>9, <1>10, <1>13, ZephyrOneHandle

(* Closing takes back what the handle delivered. *)
LEMMA ZephyrInvClose ==
    ASSUME ZephyrInv, NEW h \in Handles, Zephyr!wolfPSA_Store_Close(h)
    PROVE  ZephyrInv'
<1>1. /\ UNCHANGED <<its, published>> /\ zret' = "OK"
      /\ zctx' = [zctx EXCEPT ![h] = Closed] /\ delivered' = [delivered EXCEPT ![h] = <<>>]
  BY DEF Zephyr!wolfPSA_Store_Close
<1>2. <<>> \in Seq(Zephyr!Bytes)
  BY EmptySeq
<1>3. /\ delivered'[h] = <<>> /\ delivered' \in [Handles -> Seq(Zephyr!Bytes)]
      /\ \A g \in Handles \ {h} : delivered'[g] = delivered[g]
  BY <1>1, <1>2 DEF ZephyrInv, Zephyr!TypeOK
<1> QED BY <1>1, <1>3, ZephyrOneHandle

(* Removing an object takes nothing from the readers that have a copy. *)
LEMMA ZephyrInvRemove ==
    ASSUME ZephyrInv, NEW u \in Uids, Zephyr!wolfPSA_Store_Remove(u)
    PROVE  ZephyrInv'
<1>1. /\ UNCHANGED <<zctx, delivered, published>>
      /\ zret' \in {"OK", "NOT_AVAILABLE", "IO_ERROR", "MEMORY_E"}
      /\ its' = its \/ its' = [its EXCEPT ![u] = None]
  BY DEF Zephyr!wolfPSA_Store_Remove, Zephyr!RemoveStatus
<1>2. Zephyr!TypeOK'
  BY <1>1 DEF ZephyrInv, Zephyr!TypeOK
<1>3. Zephyr!Snapshots'
  BY <1>1 DEF ZephyrInv, Zephyr!TypeOK, Zephyr!Snapshots, Zephyr!Open
<1> QED BY <1>2, <1>3 DEF ZephyrInv

(* What a write comes to: the handle counts it and keeps some buffer, and      *)
(* everything accumulated is committed with an answer of OK, or nothing is. *)
LEMMA ZephyrCommitShape ==
    ASSUME Zephyr!ConstantsOK, ZephyrInv, NEW h \in Handles, NEW b \in Buffers,
           Zephyr!wolfPSA_Store_Write(h, b)
    PROVE  /\ Zephyr!Open(h) /\ zctx[h] \in Zephyr!Ctx /\ zctx[h].write /\ ~zctx[h].opening
           /\ UNCHANGED delivered
           /\ \E buf \in Seq(Zephyr!Bytes) :
                 /\ zctx' = [zctx EXCEPT ![h] = [zctx[h] EXCEPT !.buf = buf, !.writes = @ + 1]]
                 /\ [zctx[h] EXCEPT !.buf = buf, !.writes = @ + 1] \in Zephyr!Ctx
                 /\ \/ /\ zret' = "OK" /\ buf # <<>>
                       /\ its' = [its EXCEPT ![zctx[h].uid] = buf]
                       /\ published' = [published EXCEPT ![zctx[h].uid] = @ \union {buf}]
                    \/ /\ zret' \in {"OK", "IO_ERROR", "MEMORY_E"}
                       /\ zret' = "OK" => buf = <<>>
                       /\ UNCHANGED <<its, published>>
<1> DEFINE c == zctx[h]
<1>1. Zephyr!Open(h) /\ c.write /\ c.writes < MaxWrites /\ UNCHANGED delivered
  BY DEF Zephyr!wolfPSA_Store_Write, Zephyr!Commit
<1>2. c \in Zephyr!Ctx /\ ~c.opening
  BY <1>1 DEF ZephyrInv, Zephyr!TypeOK, Zephyr!Snapshots, Zephyr!Open
<1>3. c.buf \in Seq(Zephyr!Bytes) /\ b \in Seq(Zephyr!Bytes) /\ <<>> \in Seq(Zephyr!Bytes)
  BY <1>2, EmptySeq DEF Zephyr!Ctx, Zephyr!ConstantsOK
<1>4. c.buf \o b \in Seq(Zephyr!Bytes)
  BY <1>3, ConcatProperties
<1>5. c.writes + 1 \in 0 .. MaxWrites
  BY <1>1, <1>2 DEF Zephyr!Ctx, Zephyr!ConstantsOK
<1>6. ASSUME NEW buf \in Seq(Zephyr!Bytes)
      PROVE  /\ [c EXCEPT !.buf = buf, !.writes = @ + 1] \in Zephyr!Ctx
             /\ [zctx EXCEPT ![h].buf = buf, ![h].writes = @ + 1]
                   = [zctx EXCEPT ![h] = [zctx[h] EXCEPT !.buf = buf, !.writes = @ + 1]]
  <2>1. [c EXCEPT !.buf = buf, !.writes = @ + 1] \in Zephyr!Ctx
    <3> DEFINE w == c.writes + 1
    <3>1. [c EXCEPT !.buf = buf, !.writes = w] \in Zephyr!Ctx
      <4>1. w \in 0 .. MaxWrites
        BY <1>5
      <4> HIDE DEF w
      <4> QED BY <1>2, <1>6, <4>1, Zenon DEF Zephyr!Ctx
    <3> QED BY <3>1
  <2>2. [zctx EXCEPT ![h].buf = buf, ![h].writes = @ + 1]
           = [zctx EXCEPT ![h] = [zctx[h] EXCEPT !.buf = buf, !.writes = @ + 1]]
    BY <1>2 DEF ZephyrInv, Zephyr!TypeOK, Zephyr!Ctx
  <2> QED BY <2>1, <2>2
<1>7. CASE /\ zctx' = [zctx EXCEPT ![h].buf = c.buf, ![h].writes = @ + 1]
           /\ zret' = "MEMORY_E" /\ UNCHANGED <<its, published>>
  BY <1>1, <1>2, <1>3, <1>6, <1>7
<1>8. CASE /\ zctx' = [zctx EXCEPT ![h].buf = <<>>, ![h].writes = @ + 1]
           /\ zret' = "OK" /\ UNCHANGED <<its, published>>
  BY <1>1, <1>2, <1>3, <1>6, <1>8
<1>9. CASE /\ zctx' = [zctx EXCEPT ![h].buf = c.buf \o b, ![h].writes = @ + 1]
           /\ c.buf \o b # <<>>
           /\ \/ zret' = "IO_ERROR" /\ UNCHANGED <<its, published>>
              \/ /\ its' = [its EXCEPT ![c.uid] = c.buf \o b]
                 /\ published' = [published EXCEPT ![c.uid] = @ \union {c.buf \o b}]
                 /\ zret' = "OK"
  <2> DEFINE all == c.buf \o b
  <2>1. all \in Seq(Zephyr!Bytes)
    BY <1>4
  <2>2. /\ zctx' = [zctx EXCEPT ![h].buf = all, ![h].writes = @ + 1] /\ all # <<>>
        /\ \/ zret' = "IO_ERROR" /\ UNCHANGED <<its, published>>
           \/ /\ its' = [its EXCEPT ![c.uid] = all]
              /\ published' = [published EXCEPT ![c.uid] = @ \union {all}]
              /\ zret' = "OK"
    BY <1>9
  <2> HIDE DEF all
  <2> QED BY <1>1, <1>2, <1>6, <2>1, <2>2
<1> QED BY <1>7, <1>8, <1>9 DEF Zephyr!wolfPSA_Store_Write, Zephyr!Commit

(* Writing publishes an object, which takes nothing from the readers. *)
LEMMA ZephyrInvWrite ==
    ASSUME Zephyr!ConstantsOK, ZephyrInv, NEW h \in Handles, NEW b \in Buffers,
           Zephyr!wolfPSA_Store_Write(h, b)
    PROVE  ZephyrInv'
<1> DEFINE c == zctx[h]
<1>1. Zephyr!Open(h) /\ c \in Zephyr!Ctx /\ c.write /\ ~c.opening /\ UNCHANGED delivered
  BY ZephyrCommitShape
<1>2. PICK buf \in Seq(Zephyr!Bytes) :
         /\ zctx' = [zctx EXCEPT ![h] = [zctx[h] EXCEPT !.buf = buf, !.writes = @ + 1]]
         /\ [zctx[h] EXCEPT !.buf = buf, !.writes = @ + 1] \in Zephyr!Ctx
         /\ \/ /\ zret' = "OK"
               /\ its' = [its EXCEPT ![zctx[h].uid] = buf]
               /\ published' = [published EXCEPT ![zctx[h].uid] = @ \union {buf}]
            \/ /\ zret' \in {"OK", "IO_ERROR", "MEMORY_E"}
               /\ UNCHANGED <<its, published>>
  BY ZephyrCommitShape
<1> DEFINE new == [zctx[h] EXCEPT !.buf = buf, !.writes = @ + 1]
<1>3. new.write = c.write /\ new.opening = c.opening
  BY <1>1 DEF Zephyr!Ctx
<1>4. zctx' = [zctx EXCEPT ![h] = new] /\ new \in Zephyr!Ctx
  BY <1>2
<1> HIDE DEF new
<1>5. /\ zctx' \in [Handles -> {Closed} \union Zephyr!Ctx] /\ zctx'[h] = new
      /\ \A g \in Handles \ {h} : zctx'[g] = zctx[g]
  BY <1>4 DEF ZephyrInv, Zephyr!TypeOK
<1>6. c.uid \in Uids
  BY <1>1 DEF Zephyr!Ctx
<1>7. /\ its' \in [Uids -> {None} \union Seq(Zephyr!Bytes)]
      /\ published' \in [Uids -> SUBSET Seq(Zephyr!Bytes)]
      /\ \A u \in Uids : published[u] \subseteq published'[u]
      /\ \A u \in Uids : its'[u] # None => its'[u] \in published'[u]
  <2>1. CASE UNCHANGED <<its, published>>
    BY <2>1 DEF ZephyrInv, Zephyr!TypeOK, Zephyr!Snapshots
  <2>2. CASE /\ its' = [its EXCEPT ![c.uid] = buf]
             /\ published' = [published EXCEPT ![c.uid] = @ \union {buf}]
    BY <1>6, <2>2 DEF ZephyrInv, Zephyr!TypeOK, Zephyr!Snapshots
  <2> QED BY <1>2, <2>1, <2>2
<1>8. Zephyr!TypeOK'
  BY <1>1, <1>2, <1>5, <1>7 DEF ZephyrInv, Zephyr!TypeOK
<1>9. \A g \in Handles :
         IF Zephyr!Open(g)' /\ ~zctx'[g].write /\ ~zctx'[g].opening
         THEN /\ zctx'[g].off =< Len(zctx'[g].buf)
              /\ delivered'[g] = SubSeq(zctx'[g].buf, 1, zctx'[g].off)
              /\ \E object \in published'[zctx'[g].uid] : Zephyr!IsPrefix(zctx'[g].buf, object)
         ELSE /\ delivered'[g] = <<>>
              /\ Zephyr!Open(g)' /\ zctx'[g].opening => ~zctx'[g].write /\ zctx'[g].off = 0
  <2> TAKE g \in Handles
  <2>1. CASE g = h
    BY <1>1, <1>3, <1>5, <2>1 DEF ZephyrInv, Zephyr!Snapshots
  <2>2. CASE g # h
    <3>1. zctx'[g] = zctx[g] /\ (Zephyr!Open(g)' <=> Zephyr!Open(g)) /\ delivered'[g] = delivered[g]
      BY <1>1, <1>5, <2>2 DEF Zephyr!Open
    <3>2. Zephyr!Open(g) => zctx[g].uid \in Uids
      BY DEF ZephyrInv, Zephyr!TypeOK, Zephyr!Open, Zephyr!Ctx
    <3> QED BY <1>7, <3>1, <3>2 DEF ZephyrInv, Zephyr!Snapshots
  <2> QED BY <2>1, <2>2
<1>10. Zephyr!Snapshots'
  BY <1>7, <1>9 DEF Zephyr!Snapshots
<1> QED BY <1>8, <1>10 DEF ZephyrInv

(* Every step keeps the invariant. *)
LEMMA ZephyrInvNext ==
    ASSUME Zephyr!ConstantsOK, ZephyrInv, [Zephyr!Next]_(Zephyr!vars)
    PROVE  ZephyrInv'
<1>1. CASE UNCHANGED Zephyr!vars
  BY <1>1, ZephyrFailed DEF Zephyr!vars, ZephyrInv, Zephyr!TypeOK
<1>2. CASE Zephyr!Next
  BY <1>2, ZephyrInvGetInfo, ZephyrInvOpenWrite, ZephyrInvGet, ZephyrInvServe, ZephyrInvClose,
     ZephyrInvRemove, ZephyrInvWrite DEF Zephyr!Next
<1> QED BY <1>1, <1>2

(* Whatever other handles write and remove between psa_its_get_info(),         *)
(* psa_its_get() and the reads that follow, a reader is served the          *)
(* beginning of one object that its UID has held.                           *)
THEOREM ZephyrStoreServesOneObject ==
    ASSUME Zephyr!ConstantsOK
    PROVE  Zephyr!Spec => []Zephyr!ReaderInv
<1>1. ZephyrInv /\ [Zephyr!Next]_(Zephyr!vars) => ZephyrInv'
  BY ZephyrInvNext
<1>2. ZephyrInv => Zephyr!ReaderInv
  BY ZephyrSnapshotsSuffice DEF ZephyrInv, Zephyr!ReaderInv
<1> QED BY ZephyrInvInit, <1>1, <1>2, PTL DEF Zephyr!Spec

(* A wolfPSA_Store_Write() that answers OK leaves everything the handle has    *)
(* accumulated as the object, one that fails leaves every object as it was. *)
THEOREM ZephyrStoreStreams ==
    ASSUME Zephyr!ConstantsOK
    PROVE  Zephyr!Spec => Zephyr!StreamedWrites
<1> DEFINE Streamed ==
        \A h \in Handles : Zephyr!Open(h) /\ Zephyr!Open(h)' /\ zctx'[h].writes # zctx[h].writes =>
            \A u \in Uids :
                its'[u] = IF zret' = "OK" /\ u = zctx[h].uid /\ zctx'[h].buf # <<>>
                          THEN zctx'[h].buf ELSE its[u]
<1>1. ZephyrInv /\ [Zephyr!Next]_(Zephyr!vars) => [Streamed]_(Zephyr!vars)
  <2> SUFFICES ASSUME ZephyrInv, Zephyr!Next, NEW h \in Handles, Zephyr!Open(h),
                      Zephyr!Open(h)',
                      zctx'[h].writes # zctx[h].writes, NEW u \in Uids
               PROVE  its'[u] = IF zret' = "OK" /\ u = zctx[h].uid /\ zctx'[h].buf # <<>>
                                THEN zctx'[h].buf ELSE its[u]
    OBVIOUS
  <2>1. zctx \in [Handles -> {Closed} \union Zephyr!Ctx] /\ zctx[h] \in Zephyr!Ctx
    BY DEF ZephyrInv, Zephyr!TypeOK, Zephyr!Open
  <2>2. ASSUME NEW g \in Handles, NEW v \in Uids,
               Zephyr!psa_its_get_info(g, v) \/ Zephyr!wolfPSA_Store_OpenWrite(g, v)
        PROVE  FALSE
    <3>1. ~Zephyr!Open(g) /\ (zctx' = zctx \/ \E new : zctx' = [zctx EXCEPT ![g] = new])
      BY <2>2 DEF Zephyr!psa_its_get_info, Zephyr!wolfPSA_Store_OpenWrite, Zephyr!Fails
    <3> QED BY <2>1, <3>1
  <2>3. ASSUME NEW g \in Handles, Zephyr!psa_its_get(g) PROVE FALSE
    <3>1. \/ \E x, y : zctx' = [zctx EXCEPT ![g].opening = x, ![g].buf = y]
          \/ zctx' = [zctx EXCEPT ![g] = Closed]
      BY <2>3 DEF Zephyr!psa_its_get
    <3>2. CASE zctx' = [zctx EXCEPT ![g] = Closed]
      BY <2>1, <3>2 DEF Zephyr!Open
    <3>3. ASSUME NEW x, NEW y, zctx' = [zctx EXCEPT ![g].opening = x, ![g].buf = y]
          PROVE  FALSE
      <4>1. g # h => zctx'[h] = zctx[h]
        BY <2>1, <3>3
      <4>2. g = h => zctx'[h] = [zctx[h] EXCEPT !.opening = x, !.buf = y]
        BY <2>1, <3>3
      <4>3. g = h => zctx'[h].writes = zctx[h].writes
        BY <2>1, <4>2 DEF Zephyr!Ctx
      <4> QED BY <4>1, <4>3
    <3> QED BY <3>1, <3>2, <3>3
  <2>4. ASSUME NEW g \in Handles, Zephyr!wolfPSA_Store_Close(g) PROVE FALSE
    BY <2>1, <2>4 DEF Zephyr!wolfPSA_Store_Close, Zephyr!Open
  <2>5. ASSUME NEW g \in Handles, NEW n \in 1 .. MaxLen,
               Zephyr!wolfPSA_Store_Read(g, n) PROVE FALSE
    <3>1. \E x : zctx' = [zctx EXCEPT ![g].off = x]
      BY <2>5 DEF Zephyr!wolfPSA_Store_Read, Zephyr!Serve
    <3> QED BY <2>1, <3>1 DEF Zephyr!Ctx
  <2>6. ASSUME NEW v \in Uids, Zephyr!wolfPSA_Store_Remove(v) PROVE FALSE
    BY <2>6 DEF Zephyr!wolfPSA_Store_Remove
  <2>7. PICK g \in Handles, b \in Buffers : Zephyr!wolfPSA_Store_Write(g, b)
    BY <2>2, <2>3, <2>4, <2>5, <2>6 DEF Zephyr!Next
  <2>8. PICK buf \in Seq(Zephyr!Bytes) :
           /\ zctx' = [zctx EXCEPT ![g] = [zctx[g] EXCEPT !.buf = buf, !.writes = @ + 1]]
           /\ \/ zret' = "OK" /\ buf # <<>> /\ its' = [its EXCEPT ![zctx[g].uid] = buf]
              \/ (zret' = "OK" => buf = <<>>) /\ UNCHANGED its
    BY <2>7, ZephyrCommitShape
  <2>9. g = h /\ zctx'[h].buf = buf
    BY <2>1, <2>8 DEF Zephyr!Ctx
  <2> QED BY <2>1, <2>8, <2>9 DEF ZephyrInv, Zephyr!TypeOK, Zephyr!Ctx
<1>2. ZephyrInv /\ [Zephyr!Next]_(Zephyr!vars) => ZephyrInv'
  BY ZephyrInvNext
<1> QED BY ZephyrInvInit, <1>1, <1>2, PTL DEF Zephyr!Spec, Zephyr!StreamedWrites

-----------------------------------------------------------------------------
(* The build that links the Zephyr store. *)

(* A step of the build is a step of the Zephyr store, or leaves it alone. *)
LEMMA BuildRunsZephyr == StoresSpec => Zephyr!Spec
<1>1. StoresInit => Zephyr!Init
  BY DEF StoresInit
<1>2. [StoresNext]_<<linked, vars, zvars>> => [Zephyr!Next]_(Zephyr!vars)
  BY DEF StoresNext, zvars, Zephyr!vars
<1> QED BY <1>1, <1>2, PTL DEF StoresSpec, Zephyr!Spec

(* Whatever is written or removed between psa_its_get_info() and              *)
(* psa_its_get(), a Zephyr read handle serves one object that its UID has     *)
(* held (wolfPSA_Store_OpenRead(), wolfPSA_Store_Read()).                    *)
THEOREM ZephyrReadsOneObject ==
    ASSUME Zephyr!ConstantsOK
    PROVE  StoresSpec => []ReaderInv
<1>1. Zephyr!Spec => []Zephyr!ReaderInv
  BY ZephyrStoreServesOneObject
<1> QED BY <1>1, BuildRunsZephyr, PTL DEF ReaderInv

(* A Zephyr write sets its UID to all that was streamed so far, or changes no  *)
(* object (wolfPSA_Store_Write()).                                           *)
THEOREM ZephyrWritesAreStreamed ==
    ASSUME Zephyr!ConstantsOK
    PROVE  StoresSpec => StreamedWrites
<1>1. Zephyr!Spec => Zephyr!StreamedWrites
  BY ZephyrStoreStreams
<1> QED BY <1>1, BuildRunsZephyr, PTL DEF StreamedWrites
=============================================================================
