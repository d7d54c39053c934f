---------------------------- MODULE HashOpProofs ----------------------------
(***************************************************************************)
(* Proofs about HashOp.                                                     *)
(*                                                                         *)
(* The heap is seen through psa_hash_get_ctx(): a call on one operation     *)
(* changes what that operation sees and nothing that another one sees       *)
(* (Effect), because no two operations point to the same block.             *)
(***************************************************************************)
EXTENDS HashOp, SequenceTheorems, TLAPS

All == Ops \union {Local}

(* A heap of contexts, each with one owner. *)
HeapInv(h) ==
    /\ h = [mem |-> h.mem, opaque |-> h.opaque]
    /\ h.mem \in [Cells -> Contexts \union {Free}]
    /\ h.opaque \in [All -> Cells \union {Null}]
    /\ \A o \in All : h.opaque[o] # Null => h.mem[h.opaque[o]] # Free
    /\ \A o, p \in All : h.opaque[o] # Null /\ h.opaque[o] = h.opaque[p] => o = p
    /\ \A c \in Cells : h.mem[c] # Free => \E o \in All : h.opaque[o] = c

(* A call turned h into g: o sees v, and the others see what they saw. *)
Effect(h, g, o, v) ==
    /\ HeapInv(g)
    /\ psa_hash_get_ctx(g, o) = v
    /\ \A p \in All \ {o} : psa_hash_get_ctx(g, p) = psa_hash_get_ctx(h, p)

(* What every operation sees is the input it was told of. *)
Faithful ==
    \A o \in Ops : psa_hash_get_ctx(heap, o) # Null => psa_hash_get_ctx(heap, o).fed = told[o]

(* The last answer was right. *)
LastOK(l) ==
    /\ l.call = "digest" => l.right = TRUE
    /\ l.call = "verdict" => /\ l.st = "SUCCESS" => l.genuine = TRUE
                             /\ l.st = "INVALID_SIGNATURE" => l.genuine = FALSE

Inv ==
    /\ HeapInv(heap) /\ psa_hash_get_ctx(heap, Local) = Null
    /\ told \in [Ops -> Seq(Bytes)] /\ Faithful
    /\ LastOK(last)

-----------------------------------------------------------------------------
(* Facts about a heap. *)
LEMMA GetCtxType ==
    ASSUME ConstantsOK, NEW h, HeapInv(h), NEW o \in All
    PROVE  /\ psa_hash_get_ctx(h, o) \in Contexts \union {Null}
           /\ psa_hash_get_ctx(h, o) = Null <=> h.opaque[o] = Null
           /\ h.opaque[o] # Null => /\ h.opaque[o] \in Cells
                                    /\ psa_hash_get_ctx(h, o) = h.mem[h.opaque[o]]
BY DEF ConstantsOK, HeapInv, psa_hash_get_ctx

(* An operation without a context that does nothing. *)
LEMMA EffectNone ==
    ASSUME NEW h, HeapInv(h), NEW o, psa_hash_get_ctx(h, o) = Null
    PROVE  Effect(h, h, o, Null)
BY DEF Effect

LEMMA EffectTrans ==
    ASSUME NEW h, NEW g, NEW f, NEW o \in All, NEW v, NEW w,
           Effect(h, g, o, v), Effect(g, f, o, w)
    PROVE  Effect(h, f, o, w)
BY DEF Effect

LEMMA AbortEffect ==
    ASSUME ConstantsOK, NEW h, HeapInv(h), NEW o \in All
    PROVE  Effect(h, psa_hash_abort(h, o), o, Null)
<1>1. CASE h.opaque[o] = Null
  BY <1>1, GetCtxType, EffectNone DEF psa_hash_abort
<1>2. CASE h.opaque[o] # Null
  <2> DEFINE c == h.opaque[o]
             mem == [h.mem EXCEPT ![c] = Free]
             opaque == [h.opaque EXCEPT ![o] = Null]
             g == [mem |-> mem, opaque |-> opaque]
  <2>1. psa_hash_abort(h, o) = g
    BY <1>2 DEF psa_hash_abort
  <2>2. c \in Cells
    BY <1>2, GetCtxType
  <2>3. /\ mem \in [Cells -> Contexts \union {Free}] /\ mem[c] = Free
        /\ \A x \in Cells \ {c} : mem[x] = h.mem[x]
    BY <2>2 DEF HeapInv
  <2>4. /\ opaque \in [All -> Cells \union {Null}] /\ opaque[o] = Null
        /\ \A p \in All \ {o} : opaque[p] = h.opaque[p]
    BY DEF HeapInv
  <2>5. \A p \in All \ {o} : h.opaque[p] # c
    BY <1>2 DEF HeapInv
  <2> HIDE DEF mem, opaque
  <2>6. g.mem = mem /\ g.opaque = opaque /\ g = [mem |-> g.mem, opaque |-> g.opaque]
    OBVIOUS
  <2> HIDE DEF g
  <2>7. HeapInv(g)
    <3>1. \A p \in All : opaque[p] # Null => mem[opaque[p]] # Free
      <4> SUFFICES ASSUME NEW p \in All, opaque[p] # Null PROVE mem[opaque[p]] # Free
        OBVIOUS
      <4>1. p # o /\ opaque[p] = h.opaque[p] /\ h.opaque[p] \in Cells \ {c}
        BY <2>4, <2>5 DEF HeapInv
      <4> QED BY <2>3, <4>1 DEF HeapInv
    <3>2. \A p, q \in All : opaque[p] # Null /\ opaque[p] = opaque[q] => p = q
      BY <2>4 DEF HeapInv
    <3>3. \A x \in Cells : mem[x] # Free => \E p \in All : opaque[p] = x
      <4> SUFFICES ASSUME NEW x \in Cells, mem[x] # Free PROVE \E p \in All : opaque[p] = x
        OBVIOUS
      <4>1. x # c /\ h.mem[x] # Free
        BY <2>3
      <4>2. PICK p \in All : h.opaque[p] = x
        BY <4>1 DEF HeapInv
      <4>3. p # o
        BY <4>1, <4>2
      <4> QED BY <2>4, <4>2, <4>3
    <3> QED BY <2>3, <2>4, <2>6, <3>1, <3>2, <3>3 DEF HeapInv
  <2>8. psa_hash_get_ctx(g, o) = Null
    BY <2>4, <2>6 DEF psa_hash_get_ctx
  <2>9. ASSUME NEW p \in All \ {o} PROVE psa_hash_get_ctx(g, p) = psa_hash_get_ctx(h, p)
    <3>1. opaque[p] = h.opaque[p] /\ h.opaque[p] # c
      BY <2>4, <2>5
    <3>2. CASE h.opaque[p] = Null
      BY <2>6, <3>1, <3>2 DEF psa_hash_get_ctx
    <3>3. CASE h.opaque[p] # Null
      <4>1. mem[h.opaque[p]] = h.mem[h.opaque[p]]
        BY <2>3, <3>1, <3>3 DEF HeapInv
      <4> QED BY <2>6, <3>1, <3>3, <4>1 DEF psa_hash_get_ctx
    <3> QED BY <3>2, <3>3
  <2> QED BY <2>1, <2>7, <2>8, <2>9 DEF Effect
<1> QED BY <1>1, <1>2

LEMMA AllocateEffect ==
    ASSUME ConstantsOK, NEW h, HeapInv(h), NEW o \in All, h.opaque[o] = Null,
           FreeCells(h) # {}, NEW ctx \in Contexts
    PROVE  Effect(h, Allocate(h, o, ctx), o, ctx)
<1> DEFINE c == CHOOSE x \in FreeCells(h) : TRUE
           mem == [h.mem EXCEPT ![c] = ctx]
           opaque == [h.opaque EXCEPT ![o] = c]
           g == [mem |-> mem, opaque |-> opaque]
<1>1. Allocate(h, o, ctx) = g
  BY DEF Allocate
<1>2. c \in Cells /\ h.mem[c] = Free
  BY DEF FreeCells
<1> HIDE DEF c
<1>3. /\ mem \in [Cells -> Contexts \union {Free}] /\ mem[c] = ctx
      /\ \A x \in Cells \ {c} : mem[x] = h.mem[x]
  BY <1>2 DEF HeapInv
<1>4. /\ opaque \in [All -> Cells \union {Null}] /\ opaque[o] = c
      /\ \A p \in All \ {o} : opaque[p] = h.opaque[p]
  BY <1>2 DEF HeapInv
<1>5. \A p \in All : h.opaque[p] # c
  BY <1>2 DEF HeapInv, ConstantsOK
<1> HIDE DEF mem, opaque
<1>6. g.mem = mem /\ g.opaque = opaque /\ g = [mem |-> g.mem, opaque |-> g.opaque]
  OBVIOUS
<1>7. c # Null /\ ctx # Free
  BY <1>2 DEF ConstantsOK
<1> HIDE DEF g
<1>8. HeapInv(g)
  <2>1. \A p \in All : opaque[p] # Null => mem[opaque[p]] # Free
    <3> SUFFICES ASSUME NEW p \in All, opaque[p] # Null PROVE mem[opaque[p]] # Free
      OBVIOUS
    <3>1. CASE p = o
      BY <1>3, <1>4, <1>7, <3>1
    <3>2. CASE p # o
      <4>1. opaque[p] = h.opaque[p] /\ h.opaque[p] \in Cells \ {c}
        BY <1>4, <1>5, <3>2 DEF HeapInv
      <4> QED BY <1>3, <4>1 DEF HeapInv
    <3> QED BY <3>1, <3>2
  <2>2. \A p, q \in All : opaque[p] # Null /\ opaque[p] = opaque[q] => p = q
    BY <1>4, <1>5 DEF HeapInv
  <2>3. \A x \in Cells : mem[x] # Free => \E p \in All : opaque[p] = x
    <3> SUFFICES ASSUME NEW x \in Cells, mem[x] # Free, x # c PROVE \E p \in All : opaque[p] = x
      BY <1>4
    <3>1. h.mem[x] # Free
      BY <1>3
    <3>2. PICK p \in All : h.opaque[p] = x
      BY <3>1 DEF HeapInv
    <3>3. p # o
      BY <3>2 DEF ConstantsOK
    <3> QED BY <1>4, <3>2, <3>3
  <2> QED BY <1>3, <1>4, <1>6, <2>1, <2>2, <2>3 DEF HeapInv
<1>9. psa_hash_get_ctx(g, o) = ctx
  BY <1>3, <1>4, <1>6, <1>7 DEF psa_hash_get_ctx
<1>10. ASSUME NEW p \in All \ {o} PROVE psa_hash_get_ctx(g, p) = psa_hash_get_ctx(h, p)
  <2>1. opaque[p] = h.opaque[p] /\ h.opaque[p] # c
    BY <1>4, <1>5
  <2>2. CASE h.opaque[p] = Null
    BY <1>6, <2>1, <2>2 DEF psa_hash_get_ctx
  <2>3. CASE h.opaque[p] # Null
    <3>1. mem[h.opaque[p]] = h.mem[h.opaque[p]]
      BY <1>3, <2>1, <2>3 DEF HeapInv
    <3> QED BY <1>6, <2>1, <2>3, <3>1 DEF psa_hash_get_ctx
  <2> QED BY <2>2, <2>3
<1> QED BY <1>1, <1>8, <1>9, <1>10 DEF Effect

(* The context of o takes more input. *)
Fed(ctx, data) == [alg |-> ctx.alg, fed |-> ctx.fed \o data]

LEMMA FeedEffect ==
    ASSUME ConstantsOK, NEW h, HeapInv(h), NEW o \in All, h.opaque[o] # Null,
           NEW data \in Seq(Bytes)
    PROVE  Effect(h, [h EXCEPT !.mem[h.opaque[o]].fed = @ \o data], o,
                  Fed(psa_hash_get_ctx(h, o), data))
<1> DEFINE c == h.opaque[o]
           ctx == Fed(h.mem[c], data)
           mem == [h.mem EXCEPT ![c] = ctx]
           g == [h EXCEPT !.mem[c].fed = @ \o data]
<1>1. c \in Cells /\ psa_hash_get_ctx(h, o) = h.mem[c]
  BY GetCtxType
<1>2. h.mem[c] \in Contexts
  BY <1>1 DEF HeapInv
<1>3. ctx \in Contexts /\ ctx # Free
  <2>1. h.mem[c].alg \in Algs /\ h.mem[c].fed \in Seq(Bytes)
    BY <1>2 DEF Contexts
  <2>2. h.mem[c].fed \o data \in Seq(Bytes)
    BY <2>1
  <2>3. ctx \in Contexts
    BY <2>1, <2>2, Zenon DEF Contexts, Fed
  <2> QED BY <2>3 DEF ConstantsOK
<1>4. [h.mem[c] EXCEPT !.fed = h.mem[c].fed \o data] = ctx
  <2>1. ASSUME NEW x \in Contexts, NEW f
        PROVE  [x EXCEPT !.fed = f] = [alg |-> x.alg, fed |-> f]
    BY DEF Contexts
  <2> QED BY <1>2, <2>1 DEF Fed
<1>5. g.mem = mem /\ g.opaque = h.opaque /\ g = [mem |-> g.mem, opaque |-> g.opaque]
  <2>1. h.mem \in [Cells -> Contexts \union {Free}]
    BY DEF HeapInv
  <2>2. g = [h EXCEPT !.mem = [h.mem EXCEPT ![c] = [h.mem[c] EXCEPT !.fed = h.mem[c].fed \o data]]]
    OBVIOUS
  <2>3. g = [h EXCEPT !.mem = mem]
    BY <1>4, <2>2
  <2> HIDE DEF g, mem
  <2> QED BY <2>3 DEF HeapInv
<1>6. /\ mem \in [Cells -> Contexts \union {Free}] /\ mem[c] = ctx
      /\ \A x \in Cells \ {c} : mem[x] = h.mem[x]
  BY <1>1, <1>3 DEF HeapInv
<1> HIDE DEF mem, g, ctx
<1>7. HeapInv(g)
  <2>1. \A p \in All : h.opaque[p] # Null => mem[h.opaque[p]] # Free
    BY <1>3, <1>6 DEF HeapInv
  <2>2. \A x \in Cells : mem[x] # Free => \E p \in All : h.opaque[p] = x
    BY <1>6 DEF HeapInv
  <2> QED BY <1>5, <1>6, <2>1, <2>2 DEF HeapInv
<1>8. psa_hash_get_ctx(g, o) = ctx
  BY <1>5, <1>6 DEF psa_hash_get_ctx
<1>9. ASSUME NEW p \in All \ {o} PROVE psa_hash_get_ctx(g, p) = psa_hash_get_ctx(h, p)
  <2>1. h.opaque[p] # c
    BY DEF HeapInv
  <2>2. h.opaque[p] # Null => mem[h.opaque[p]] = h.mem[h.opaque[p]]
    BY <1>6, <2>1 DEF HeapInv
  <2> QED BY <1>5, <2>2 DEF psa_hash_get_ctx
<1>10. Effect(h, g, o, ctx)
  BY <1>7, <1>8, <1>9 DEF Effect
<1> QED BY <1>1, <1>10 DEF g, ctx

-----------------------------------------------------------------------------
(* The calls: what a result says of the heap it leaves. *)
LEMMA ResultFields ==
    ASSUME NEW st, NEW h, NEW digest
    PROVE  /\ Result(st, h, digest).st = st
           /\ Result(st, h, digest).h = h
           /\ Result(st, h, digest).digest = digest
BY DEF Result

Failed(r) == r.st # "SUCCESS" /\ r.st # "INVALID_SIGNATURE"

LEMMA FailEffect ==
    ASSUME ConstantsOK, NEW h, HeapInv(h), NEW o \in All, NEW st,
           st # "SUCCESS", st # "INVALID_SIGNATURE", NEW r, r = wolfpsa_hash_fail(h, o, st)
    PROVE  Failed(r) /\ r.st = st /\ Effect(h, r.h, o, Null)
<1>1. r.st = st /\ r.h = psa_hash_abort(h, o)
  BY ResultFields DEF wolfpsa_hash_fail
<1> QED BY <1>1, AbortEffect DEF Failed

LEMMA SetupResult ==
    ASSUME ConstantsOK, NEW h, HeapInv(h), NEW o \in All, NEW alg \in Algs,
           NEW r \in psa_hash_setup(h, o, alg)
    PROVE  \/ Failed(r) /\ r.h = h
           \/ /\ r.st = "SUCCESS" /\ psa_hash_get_ctx(h, o) = Null
              /\ Effect(h, r.h, o, [alg |-> alg, fed |-> <<>>])
<1> DEFINE ctx == [alg |-> alg, fed |-> <<>>]
<1>1. \/ \E st \in {"BAD_STATE", "INVALID_ARGUMENT", "NOT_SUPPORTED", "INSUFFICIENT_MEMORY",
                    "GENERIC_ERROR"} : r = Result(st, h, None)
      \/ /\ h.opaque[o] = Null /\ FreeCells(h) # {}
         /\ r = Result("SUCCESS", Allocate(h, o, ctx), None)
  BY Zenon DEF psa_hash_setup, psa_hash_check_alg_supported
<1>2. CASE \E st \in {"BAD_STATE", "INVALID_ARGUMENT", "NOT_SUPPORTED", "INSUFFICIENT_MEMORY",
                      "GENERIC_ERROR"} : r = Result(st, h, None)
  BY <1>2, ResultFields DEF Failed
<1>3. CASE /\ h.opaque[o] = Null /\ FreeCells(h) # {}
           /\ r = Result("SUCCESS", Allocate(h, o, ctx), None)
  <2>1. ctx \in Contexts
    BY EmptySeq DEF Contexts
  <2> HIDE DEF ctx
  <2>2. Effect(h, Allocate(h, o, ctx), o, ctx)
    BY <1>3, <2>1, AllocateEffect
  <2>3. r.st = "SUCCESS" /\ r.h = Allocate(h, o, ctx)
    BY <1>3, ResultFields
  <2>4. psa_hash_get_ctx(h, o) = Null
    BY <1>3, GetCtxType
  <2> QED BY <2>2, <2>3, <2>4 DEF ctx
<1> QED BY <1>1, <1>2, <1>3

LEMMA UpdateResult ==
    ASSUME ConstantsOK, NEW h, HeapInv(h), NEW o \in All, NEW data \in Seq(Bytes),
           NEW ok \in BOOLEAN, NEW r \in psa_hash_update(h, o, data, ok)
    PROVE  \/ Failed(r) /\ Effect(h, r.h, o, Null)
           \/ /\ r.st = "SUCCESS" /\ psa_hash_get_ctx(h, o) \in Contexts
              /\ Effect(h, r.h, o, Fed(psa_hash_get_ctx(h, o), data))
<1> DEFINE g == [h EXCEPT !.mem[h.opaque[o]].fed = @ \o data]
<1>1. \/ \E st \in {"BAD_STATE", "INVALID_ARGUMENT", "GENERIC_ERROR"} : r = wolfpsa_hash_fail(h, o, st)
      \/ psa_hash_get_ctx(h, o) # Null /\ r = Result("SUCCESS", g, None)
  BY Zenon DEF psa_hash_update
<1>2. CASE \E st \in {"BAD_STATE", "INVALID_ARGUMENT", "GENERIC_ERROR"} : r = wolfpsa_hash_fail(h, o, st)
  BY <1>2, FailEffect
<1>3. CASE psa_hash_get_ctx(h, o) # Null /\ r = Result("SUCCESS", g, None)
  <2>1. h.opaque[o] # Null /\ psa_hash_get_ctx(h, o) \in Contexts
    BY <1>3, GetCtxType
  <2>2. Effect(h, g, o, Fed(psa_hash_get_ctx(h, o), data))
    BY <2>1, FeedEffect
  <2> HIDE DEF g
  <2>3. r.st = "SUCCESS" /\ r.h = g
    BY <1>3, ResultFields
  <2> QED BY <2>1, <2>2, <2>3
<1> QED BY <1>1, <1>2, <1>3

LEMMA FinishResult ==
    ASSUME ConstantsOK, NEW h, HeapInv(h), NEW o \in All, NEW room, NEW ok \in BOOLEAN,
           NEW r \in psa_hash_finish(h, o, room, ok)
    PROVE  /\ Effect(h, r.h, o, Null)
           /\ \/ Failed(r)
              \/ /\ r.st = "SUCCESS" /\ psa_hash_get_ctx(h, o) \in Contexts
                 /\ r.digest = [alg |-> psa_hash_get_ctx(h, o).alg, s |-> psa_hash_get_ctx(h, o).fed]
<1> DEFINE ctx == psa_hash_get_ctx(h, o)
           digest == [alg |-> ctx.alg, s |-> ctx.fed]
<1>1. \/ \E st \in {"BAD_STATE", "INVALID_ARGUMENT", "BUFFER_TOO_SMALL", "GENERIC_ERROR"} :
            r = wolfpsa_hash_fail(h, o, st)
      \/ ctx # Null /\ r = Result("SUCCESS", psa_hash_abort(h, o), digest)
  BY Zenon DEF psa_hash_finish
<1>2. CASE \E st \in {"BAD_STATE", "INVALID_ARGUMENT", "BUFFER_TOO_SMALL", "GENERIC_ERROR"} :
              r = wolfpsa_hash_fail(h, o, st)
  BY <1>2, FailEffect
<1>3. CASE ctx # Null /\ r = Result("SUCCESS", psa_hash_abort(h, o), digest)
  <2>1. ctx \in Contexts
    BY <1>3, GetCtxType
  <2> HIDE DEF digest
  <2>2. r.st = "SUCCESS" /\ r.h = psa_hash_abort(h, o) /\ r.digest = digest
    BY <1>3, ResultFields
  <2> QED BY <2>1, <2>2, AbortEffect DEF digest
<1> QED BY <1>1, <1>2, <1>3

(* What a reference is compared with, and what the comparison says. *)
Whole(alg, s) == [alg |-> alg, s |-> s, len |-> Size[alg]]

Verdict(ref, digest) == IF SameDigest(digest, ref) THEN "SUCCESS" ELSE "INVALID_SIGNATURE"

LEMMA SameDigestExact ==
    ASSUME NEW ref \in References, NEW alg, NEW s
    PROVE  SameDigest([alg |-> alg, s |-> s], ref) <=> ref = Whole(alg, s)
<1>1. ref = [alg |-> ref.alg, s |-> ref.s, len |-> ref.len]
  BY DEF References
<1> QED BY <1>1 DEF SameDigest, Whole

(* A verdict on ref is right. *)
RightVerdict(r, ref, alg, s) ==
    \/ Failed(r)
    \/ r.st = "SUCCESS" /\ ref = Whole(alg, s)
    \/ r.st = "INVALID_SIGNATURE" /\ ref # Whole(alg, s)

LEMMA VerifyResult ==
    ASSUME ConstantsOK, NEW h, HeapInv(h), NEW o \in All, NEW ref \in References,
           NEW ok \in BOOLEAN, NEW r \in psa_hash_verify(h, o, ref, ok)
    PROVE  /\ ok => Effect(h, r.h, o, Null)
           /\ ~ok => r.h = h
           /\ psa_hash_get_ctx(h, o) \in Contexts =>
                 RightVerdict(r, ref, psa_hash_get_ctx(h, o).alg, psa_hash_get_ctx(h, o).fed)
<1> DEFINE ctx == psa_hash_get_ctx(h, o)
<1>1. CASE ~ok
  <2>1. r = Result("INVALID_ARGUMENT", h, None)
    BY <1>1 DEF psa_hash_verify
  <2>2. Failed(r) /\ r.h = h
    BY <2>1, ResultFields DEF Failed
  <2> QED BY <1>1, <2>2 DEF RightVerdict
<1>2. CASE ok = TRUE
  <2>1. PICK f \in psa_hash_finish(h, o, MaxSize, TRUE) :
           r = IF f.st # "SUCCESS" THEN f ELSE Result(Verdict(ref, f.digest), f.h, None)
    BY <1>2, Zenon DEF psa_hash_verify, Verdict
  <2>2. Effect(h, f.h, o, Null)
    BY <2>1, FinishResult
  <2>3. CASE f.st # "SUCCESS"
    BY <1>2, <2>1, <2>2, <2>3, FinishResult DEF RightVerdict
  <2>4. CASE f.st = "SUCCESS"
    <3>1. ctx \in Contexts /\ f.digest = [alg |-> ctx.alg, s |-> ctx.fed]
      BY <2>1, <2>4, FinishResult DEF Failed
    <3>2. r.st = Verdict(ref, f.digest) /\ r.h = f.h
      BY <2>1, <2>4, ResultFields
    <3>3. SameDigest(f.digest, ref) <=> ref = Whole(ctx.alg, ctx.fed)
      BY <3>1, SameDigestExact
    <3>4. RightVerdict(r, ref, ctx.alg, ctx.fed)
      BY <3>2, <3>3 DEF Verdict, RightVerdict
    <3> QED BY <1>2, <2>2, <3>2, <3>4
  <2> QED BY <2>3, <2>4
<1> QED BY <1>1, <1>2

LEMMA CloneResult ==
    ASSUME ConstantsOK, NEW h, HeapInv(h), NEW source \in All, NEW target \in All,
           NEW r \in psa_hash_clone(h, source, target)
    PROVE  \/ Failed(r) /\ r.h = h
           \/ /\ r.st = "SUCCESS" /\ psa_hash_get_ctx(h, source) \in Contexts
              /\ Effect(h, r.h, target, psa_hash_get_ctx(h, source))
<1> DEFINE ctx == psa_hash_get_ctx(h, source)
<1>1. \/ \E st \in {"BAD_STATE", "INSUFFICIENT_MEMORY", "GENERIC_ERROR"} : r = Result(st, h, None)
      \/ /\ h.opaque[target] = Null /\ ctx # Null /\ FreeCells(h) # {}
         /\ r = Result("SUCCESS", Allocate(h, target, ctx), None)
  BY Zenon DEF psa_hash_clone, Copied
<1>2. CASE \E st \in {"BAD_STATE", "INSUFFICIENT_MEMORY", "GENERIC_ERROR"} : r = Result(st, h, None)
  BY <1>2, ResultFields DEF Failed
<1>3. CASE /\ h.opaque[target] = Null /\ ctx # Null /\ FreeCells(h) # {}
           /\ r = Result("SUCCESS", Allocate(h, target, ctx), None)
  <2>1. ctx \in Contexts
    BY <1>3, GetCtxType
  <2>2. Effect(h, Allocate(h, target, ctx), target, ctx)
    BY <1>3, <2>1, AllocateEffect
  <2>3. r.st = "SUCCESS" /\ r.h = Allocate(h, target, ctx)
    BY <1>3, ResultFields
  <2> QED BY <2>1, <2>2, <2>3
<1> QED BY <1>1, <1>2, <1>3

LEMMA ComputeResult ==
    ASSUME ConstantsOK, NEW h, HeapInv(h), psa_hash_get_ctx(h, Local) = Null,
           NEW alg \in Algs, NEW data \in Seq(Bytes), NEW room, NEW ok \in BOOLEAN,
           NEW r \in psa_hash_compute(h, alg, data, room, ok)
    PROVE  /\ Effect(h, r.h, Local, Null)
           /\ \/ Failed(r)
              \/ r.st = "SUCCESS" /\ r.digest = [alg |-> alg, s |-> data]
<1> DEFINE blank == [alg |-> alg, fed |-> <<>>]
           Finished(r2) == {IF r3.st # "SUCCESS" THEN wolfpsa_hash_fail(r3.h, Local, r3.st) ELSE r3 :
                              r3 \in psa_hash_finish(r2.h, Local, room, TRUE)}
           Updated(r1) == UNION {IF r2.st # "SUCCESS" THEN {wolfpsa_hash_fail(r2.h, Local, r2.st)}
                                 ELSE Finished(r2) : r2 \in psa_hash_update(r1.h, Local, data, ok)}
<1>0. Local \in All
  BY DEF All
<1>1. PICK r1 \in psa_hash_setup(h, Local, alg) :
         r \in IF r1.st # "SUCCESS" THEN {r1} ELSE Updated(r1)
  BY Zenon DEF psa_hash_compute
<1>2. CASE r1.st # "SUCCESS"
  <2>1. r = r1
    BY <1>1, <1>2
  <2>2. Failed(r1) /\ r1.h = h
    BY <1>0, <1>1, <1>2, SetupResult
  <2> QED BY <2>1, <2>2, EffectNone
<1>3. CASE r1.st = "SUCCESS"
  <2>1. Effect(h, r1.h, Local, blank)
    BY <1>0, <1>1, <1>3, SetupResult DEF Failed
  <2>2. HeapInv(r1.h) /\ psa_hash_get_ctx(r1.h, Local) = blank
    BY <2>1 DEF Effect
  <2>3. PICK r2 \in psa_hash_update(r1.h, Local, data, ok) :
           r \in IF r2.st # "SUCCESS" THEN {wolfpsa_hash_fail(r2.h, Local, r2.st)} ELSE Finished(r2)
    BY <1>1, <1>3, Zenon
  <2>4. CASE r2.st # "SUCCESS"
    <3>1. r = wolfpsa_hash_fail(r2.h, Local, r2.st)
      BY <2>3, <2>4
    <3>2. Failed(r2) /\ Effect(r1.h, r2.h, Local, Null)
      BY <1>0, <2>2, <2>3, <2>4, UpdateResult
    <3>3. HeapInv(r2.h) /\ r2.st # "SUCCESS" /\ r2.st # "INVALID_SIGNATURE"
      BY <3>2 DEF Effect, Failed
    <3>4. Failed(r) /\ Effect(r2.h, r.h, Local, Null)
      BY <1>0, <3>1, <3>3, FailEffect
    <3> QED BY <1>0, <2>1, <3>2, <3>4, EffectTrans
  <2>5. CASE r2.st = "SUCCESS"
    <3>1. Effect(r1.h, r2.h, Local, Fed(blank, data))
      BY <1>0, <2>2, <2>3, <2>5, UpdateResult DEF Failed
    <3>2. HeapInv(r2.h) /\ psa_hash_get_ctx(r2.h, Local) = Fed(blank, data)
      BY <3>1 DEF Effect
    <3>3. Fed(blank, data) = [alg |-> alg, fed |-> data]
      BY ConcatEmptySeq DEF Fed
    <3>4. PICK r3 \in psa_hash_finish(r2.h, Local, room, TRUE) :
             r = IF r3.st # "SUCCESS" THEN wolfpsa_hash_fail(r3.h, Local, r3.st) ELSE r3
      BY <2>3, <2>5, Zenon
    <3>5. Effect(r2.h, r3.h, Local, Null)
      BY <1>0, <3>2, <3>4, FinishResult
    <3>6. Effect(h, r3.h, Local, Null)
      BY <1>0, <2>1, <3>1, <3>5, EffectTrans
    <3>7. CASE r3.st # "SUCCESS"
      <4>1. HeapInv(r3.h) /\ r3.st # "INVALID_SIGNATURE"
        BY <1>0, <3>2, <3>4, <3>5, <3>7, FinishResult DEF Effect, Failed
      <4>2. Failed(r) /\ Effect(r3.h, r.h, Local, Null)
        BY <1>0, <3>4, <3>7, <4>1, FailEffect
      <4> QED BY <1>0, <3>6, <4>2, EffectTrans
    <3>8. CASE r3.st = "SUCCESS"
      <4> DEFINE ctx == psa_hash_get_ctx(r2.h, Local)
      <4>a. ctx.alg = alg /\ ctx.fed = data
        BY <3>2, <3>3
      <4>b. ~Failed(r3)
        BY <3>8 DEF Failed
      <4>1. r3.digest = [alg |-> ctx.alg, s |-> ctx.fed]
        BY <1>0, <3>2, <3>4, <4>b, FinishResult
      <4> HIDE DEF ctx
      <4>2. r3.digest = [alg |-> alg, s |-> data]
        BY <4>a, <4>1
      <4> QED BY <3>4, <3>6, <3>8, <4>2
    <3> QED BY <3>7, <3>8
  <2> QED BY <2>4, <2>5
<1> QED BY <1>2, <1>3

LEMMA CompareResult ==
    ASSUME ConstantsOK, NEW h, HeapInv(h), psa_hash_get_ctx(h, Local) = Null,
           NEW alg \in Algs, NEW data \in Seq(Bytes), NEW ref \in References, NEW ok \in BOOLEAN,
           NEW r \in psa_hash_compare(h, alg, data, ref, ok)
    PROVE  Effect(h, r.h, Local, Null) /\ RightVerdict(r, ref, alg, data)
<1>1. \/ \E st \in psa_hash_check_alg_supported : r = Result(st, h, None)
      \/ ref.len # Size[alg] /\ r = Result("INVALID_SIGNATURE", h, None)
      \/ \E c \in psa_hash_compute(h, alg, data, MaxSize, ok) :
            r = IF c.st # "SUCCESS" THEN c ELSE Result(Verdict(ref, c.digest), c.h, None)
  BY Zenon DEF psa_hash_compare, Verdict
<1>2. CASE \E st \in psa_hash_check_alg_supported : r = Result(st, h, None)
  <2>1. Failed(r) /\ r.h = h
    BY <1>2, ResultFields DEF Failed, psa_hash_check_alg_supported
  <2> QED BY <2>1, EffectNone DEF RightVerdict
<1>3. CASE ref.len # Size[alg] /\ r = Result("INVALID_SIGNATURE", h, None)
  <2>1. r.st = "INVALID_SIGNATURE" /\ r.h = h
    BY <1>3, ResultFields
  <2>2. ref # Whole(alg, data)
    BY <1>3 DEF Whole
  <2> QED BY <2>1, <2>2, EffectNone DEF RightVerdict
<1>4. CASE \E c \in psa_hash_compute(h, alg, data, MaxSize, ok) :
              r = IF c.st # "SUCCESS" THEN c ELSE Result(Verdict(ref, c.digest), c.h, None)
  <2>1. PICK c \in psa_hash_compute(h, alg, data, MaxSize, ok) :
              r = IF c.st # "SUCCESS" THEN c ELSE Result(Verdict(ref, c.digest), c.h, None)
    BY <1>4
  <2>a. /\ Effect(h, c.h, Local, Null)
        /\ Failed(c) \/ (c.st = "SUCCESS" /\ c.digest = [alg |-> alg, s |-> data])
    BY <2>1, ComputeResult
  <2>2. Effect(h, c.h, Local, Null)
    BY <2>a
  <2>3. CASE c.st # "SUCCESS"
    <3>1. Failed(c)
      BY <2>3, <2>a
    <3>2. r = c
      BY <2>1, <2>3
    <3> QED BY <2>2, <3>1, <3>2 DEF RightVerdict
  <2>4. CASE c.st = "SUCCESS"
    <3>1. c.digest = [alg |-> alg, s |-> data]
      BY <2>1, <2>4, ComputeResult DEF Failed
    <3>2. r.st = Verdict(ref, c.digest) /\ r.h = c.h
      BY <2>1, <2>4, ResultFields
    <3>3. SameDigest(c.digest, ref) <=> ref = Whole(alg, data)
      BY <3>1, SameDigestExact
    <3> QED BY <2>2, <3>2, <3>3 DEF Verdict, RightVerdict
  <2> QED BY <2>3, <2>4
<1> QED BY <1>1, <1>2, <1>3, <1>4

-----------------------------------------------------------------------------
(* The actions. *)
LEMMA QuietOK ==
    ASSUME Quiet
    PROVE  LastOK(last')
BY DEF Quiet, LastOK

LEMMA JudgedOK ==
    ASSUME NEW r, NEW ref, NEW alg, NEW s, RightVerdict(r, ref, alg, s),
           Judged(r.st, ref, alg, s)
    PROVE  LastOK(last')
<1> DEFINE genuine == ref = Whole(alg, s)
<1>1. last' = [call |-> "verdict", st |-> r.st, genuine |-> genuine]
  BY DEF Judged, Whole
<1>2. /\ (r.st = "SUCCESS") => (genuine = TRUE)
      /\ (r.st = "INVALID_SIGNATURE") => (genuine = FALSE)
  BY DEF RightVerdict, Failed
<1> HIDE DEF genuine
<1>3. last'.call = "verdict" /\ last'.st = r.st /\ last'.genuine = genuine
  BY <1>1
<1> QED BY <1>2, <1>3 DEF LastOK

LEMMA AnsweredOK ==
    ASSUME NEW digest, NEW alg, NEW s, digest = [alg |-> alg, s |-> s],
           Answered(digest, alg, s)
    PROVE  LastOK(last')
<1> DEFINE right == digest = [alg |-> alg, s |-> s]
<1>1. last' = [call |-> "digest", right |-> right]
  BY DEF Answered
<1>2. right = TRUE
  OBVIOUS
<1> HIDE DEF right
<1>3. last'.call = "digest" /\ last'.right = right
  BY <1>1
<1> QED BY <1>2, <1>3 DEF LastOK

(* A call on the operation o that tells it s. *)
LEMMA OpStep ==
    ASSUME ConstantsOK, Inv, NEW o \in Ops, NEW v \in Contexts \union {Null},
           Effect(heap, heap', o, v), NEW s \in Seq(Bytes), v # Null => v.fed = s,
           told' = [told EXCEPT ![o] = s], LastOK(last')
    PROVE  Inv'
<1>1. told' \in [Ops -> Seq(Bytes)] /\ told'[o] = s /\ \A p \in Ops \ {o} : told'[p] = told[p]
  BY DEF Inv
<1>2. HeapInv(heap') /\ psa_hash_get_ctx(heap', o) = v
  BY DEF Effect
<1>3. \A p \in All \ {o} : psa_hash_get_ctx(heap', p) = psa_hash_get_ctx(heap, p)
  BY DEF Effect
<1>4. psa_hash_get_ctx(heap', Local) = Null
  BY <1>3 DEF Inv, All, ConstantsOK
<1>5. \A p \in Ops : psa_hash_get_ctx(heap', p) # Null => psa_hash_get_ctx(heap', p).fed = told'[p]
  BY <1>1, <1>2, <1>3 DEF Inv, Faithful, All
<1>6. psa_hash_get_ctx(heap, Local)' = psa_hash_get_ctx(heap', Local)
  BY DEF psa_hash_get_ctx
<1>7. Faithful'
  BY <1>5 DEF Faithful, psa_hash_get_ctx
<1> QED BY <1>1, <1>2, <1>4, <1>6, <1>7 DEF Inv

(* A call that leaves the operations alone. *)
LEMMA SameStep ==
    ASSUME ConstantsOK, Inv, heap' = heap \/ Effect(heap, heap', Local, Null),
           told' = told, LastOK(last')
    PROVE  Inv'
<1>1. HeapInv(heap') /\ psa_hash_get_ctx(heap', Local) = Null
  BY DEF Effect, Inv
<1>2. \A p \in Ops : psa_hash_get_ctx(heap', p) = psa_hash_get_ctx(heap, p)
  BY DEF Effect, ConstantsOK, All
<1>3. \A p \in Ops : psa_hash_get_ctx(heap', p) # Null => psa_hash_get_ctx(heap', p).fed = told'[p]
  BY <1>2 DEF Inv, Faithful
<1>4. psa_hash_get_ctx(heap, Local)' = psa_hash_get_ctx(heap', Local)
  BY DEF psa_hash_get_ctx
<1>5. Faithful'
  BY <1>3 DEF Faithful, psa_hash_get_ctx
<1> QED BY <1>1, <1>4, <1>5 DEF Inv

LEMMA SetupStep ==
    ASSUME ConstantsOK, Inv, NEW o \in Ops, NEW alg \in Algs, Setup(o, alg)
    PROVE  Inv'
<1> DEFINE blank == [alg |-> alg, fed |-> <<>>]
<1>1. PICK r \in psa_hash_setup(heap, o, alg) :
         /\ heap' = r.h /\ Quiet
         /\ told' = IF r.st = "SUCCESS" THEN [told EXCEPT ![o] = <<>>] ELSE told
  BY DEF Setup
<1>2. \/ Failed(r) /\ r.h = heap
      \/ r.st = "SUCCESS" /\ Effect(heap, r.h, o, blank)
  BY <1>1, SetupResult DEF Inv, All
<1>3. LastOK(last')
  BY <1>1, QuietOK
<1>4. CASE Failed(r) /\ r.h = heap
  BY <1>1, <1>3, <1>4, SameStep DEF Failed
<1>5. CASE r.st = "SUCCESS" /\ Effect(heap, r.h, o, blank)
  <2>1. blank \in Contexts /\ blank.fed = <<>> /\ <<>> \in Seq(Bytes)
    BY EmptySeq DEF Contexts
  <2> HIDE DEF blank
  <2> QED BY <1>1, <1>3, <1>5, <2>1, OpStep
<1> QED BY <1>2, <1>4, <1>5

LEMMA UpdateStep ==
    ASSUME ConstantsOK, Inv, NEW o \in Ops, NEW data \in Seq(Bytes), NEW ok \in BOOLEAN,
           Update(o, data, ok)
    PROVE  Inv'
<1> DEFINE ctx == psa_hash_get_ctx(heap, o)
<1>1. PICK r \in psa_hash_update(heap, o, data, ok) :
         /\ heap' = r.h /\ Quiet
         /\ told' = [told EXCEPT ![o] = IF r.st = "SUCCESS" THEN @ \o data ELSE <<>>]
  BY DEF Update
<1>2. \/ Failed(r) /\ Effect(heap, r.h, o, Null)
      \/ r.st = "SUCCESS" /\ ctx \in Contexts /\ Effect(heap, r.h, o, Fed(ctx, data))
  BY <1>1, UpdateResult DEF Inv, All
<1>3. LastOK(last')
  BY <1>1, QuietOK
<1>4. told[o] \in Seq(Bytes)
  BY DEF Inv
<1>5. CASE Failed(r) /\ Effect(heap, r.h, o, Null)
  <2>1. told' = [told EXCEPT ![o] = <<>>] /\ <<>> \in Seq(Bytes)
    BY <1>1, <1>5, EmptySeq DEF Failed
  <2> QED BY <1>1, <1>3, <1>5, <2>1, OpStep
<1>6. CASE r.st = "SUCCESS" /\ ctx \in Contexts /\ Effect(heap, r.h, o, Fed(ctx, data))
  <2>1. told' = [told EXCEPT ![o] = told[o] \o data] /\ told[o] \o data \in Seq(Bytes)
    BY <1>1, <1>4, <1>6
  <2>2. ctx # Null
    BY <1>6 DEF ConstantsOK
  <2>3. ctx.fed = told[o]
    BY <2>2 DEF Inv, Faithful
  <2>4. ctx.alg \in Algs
    BY <1>6 DEF Contexts
  <2>5. Fed(ctx, data) \in Contexts /\ Fed(ctx, data).fed = told[o] \o data
    <3> DEFINE s == told[o] \o data
    <3>1. Fed(ctx, data) = [alg |-> ctx.alg, fed |-> s] /\ s \in Seq(Bytes)
      BY <2>1, <2>3 DEF Fed
    <3> HIDE DEF s
    <3>2. Fed(ctx, data) \in Contexts /\ Fed(ctx, data).fed = s
      BY <2>4, <3>1 DEF Contexts
    <3> QED BY <3>2 DEF s
  <2> QED BY <1>1, <1>3, <1>6, <2>1, <2>5, OpStep
<1> QED BY <1>2, <1>5, <1>6

LEMMA FinishStep ==
    ASSUME ConstantsOK, Inv, NEW o \in Ops, NEW room, NEW ok \in BOOLEAN, Finish(o, room, ok)
    PROVE  Inv'
<1> DEFINE ctx == psa_hash_get_ctx(heap, o)
<1>1. PICK r \in psa_hash_finish(heap, o, room, ok) :
         /\ heap' = r.h /\ told' = [told EXCEPT ![o] = <<>>]
         /\ IF r.st = "SUCCESS" THEN Answered(r.digest, r.digest.alg, told[o]) ELSE Quiet
  BY DEF Finish
<1>2. /\ Effect(heap, r.h, o, Null)
      /\ \/ Failed(r)
         \/ /\ r.st = "SUCCESS" /\ ctx \in Contexts
            /\ r.digest = [alg |-> ctx.alg, s |-> ctx.fed]
  BY <1>1, FinishResult DEF Inv, All
<1>3. LastOK(last')
  <2>1. CASE r.st = "SUCCESS"
    <3>1. ctx \in Contexts /\ r.digest = [alg |-> ctx.alg, s |-> ctx.fed]
      BY <1>2, <2>1 DEF Failed
    <3>2. ctx.fed = told[o]
      BY <3>1 DEF ConstantsOK, Inv, Faithful
    <3>3. r.digest = [alg |-> r.digest.alg, s |-> told[o]]
      BY <3>1, <3>2
    <3> QED BY <1>1, <2>1, <3>3, AnsweredOK
  <2>2. CASE r.st # "SUCCESS"
    BY <1>1, <2>2, QuietOK
  <2> QED BY <2>1, <2>2
<1>4. <<>> \in Seq(Bytes)
  BY EmptySeq
<1> QED BY <1>1, <1>2, <1>3, <1>4, OpStep

LEMMA VerifyStep ==
    ASSUME ConstantsOK, Inv, NEW o \in Ops, NEW ref \in References, NEW ok \in BOOLEAN,
           Verify(o, ref, ok)
    PROVE  Inv'
<1> DEFINE ctx == psa_hash_get_ctx(heap, o)
<1>1. PICK r \in psa_hash_verify(heap, o, ref, ok) :
         /\ heap' = r.h /\ told' = IF ok THEN [told EXCEPT ![o] = <<>>] ELSE told
         /\ IF heap.opaque[o] = Null THEN Quiet ELSE Judged(r.st, ref, ctx.alg, told[o])
  BY DEF Verify
<1>2. /\ ok => Effect(heap, r.h, o, Null)
      /\ ~ok => r.h = heap
      /\ ctx \in Contexts => RightVerdict(r, ref, ctx.alg, ctx.fed)
  BY <1>1, VerifyResult DEF Inv, All
<1>3. LastOK(last')
  <2>1. CASE heap.opaque[o] = Null
    BY <1>1, <2>1, QuietOK
  <2>2. CASE heap.opaque[o] # Null
    <3>1. ctx \in Contexts /\ ctx # Null
      BY <2>2, GetCtxType DEF Inv, All
    <3>2. RightVerdict(r, ref, ctx.alg, told[o])
      BY <1>2, <3>1 DEF Inv, Faithful
    <3> QED BY <1>1, <2>2, <3>2, JudgedOK
  <2> QED BY <2>1, <2>2
<1>4. <<>> \in Seq(Bytes)
  BY EmptySeq
<1>5. CASE ok
  BY <1>1, <1>2, <1>3, <1>4, <1>5, OpStep
<1>6. CASE ~ok
  BY <1>1, <1>2, <1>3, <1>6, SameStep
<1> QED BY <1>5, <1>6

LEMMA CloneStep ==
    ASSUME ConstantsOK, Inv, NEW source \in Ops, NEW target \in Ops, Clone(source, target)
    PROVE  Inv'
<1> DEFINE ctx == psa_hash_get_ctx(heap, source)
<1>1. PICK r \in psa_hash_clone(heap, source, target) :
         /\ heap' = r.h /\ Quiet
         /\ told' = IF r.st = "SUCCESS" THEN [told EXCEPT ![target] = told[source]] ELSE told
  BY DEF Clone
<1>2. \/ Failed(r) /\ r.h = heap
      \/ r.st = "SUCCESS" /\ ctx \in Contexts /\ Effect(heap, r.h, target, ctx)
  BY <1>1, CloneResult DEF Inv, All
<1>3. LastOK(last')
  BY <1>1, QuietOK
<1>4. CASE Failed(r) /\ r.h = heap
  BY <1>1, <1>3, <1>4, SameStep DEF Failed
<1>5. CASE r.st = "SUCCESS" /\ ctx \in Contexts /\ Effect(heap, r.h, target, ctx)
  <2>1. ctx.fed = told[source] /\ told[source] \in Seq(Bytes)
    BY <1>5 DEF ConstantsOK, Inv, Faithful
  <2>2. told' = [told EXCEPT ![target] = told[source]]
    BY <1>1, <1>5
  <2> HIDE DEF ctx
  <2> QED BY <1>1, <1>3, <1>5, <2>1, <2>2, OpStep
<1> QED BY <1>2, <1>4, <1>5

LEMMA AbortStep ==
    ASSUME ConstantsOK, Inv, NEW o \in Ops, Abort(o)
    PROVE  Inv'
<1>1. Effect(heap, heap', o, Null)
  BY AbortEffect DEF Abort, Inv, All
<1>2. LastOK(last') /\ <<>> \in Seq(Bytes)
  BY QuietOK, EmptySeq DEF Abort
<1> QED BY <1>1, <1>2, OpStep DEF Abort

LEMMA ComputeStep ==
    ASSUME ConstantsOK, Inv, NEW alg \in Algs, NEW data \in Seq(Bytes), NEW room,
           NEW ok \in BOOLEAN, Compute(alg, data, room, ok)
    PROVE  Inv'
<1>1. PICK r \in psa_hash_compute(heap, alg, data, room, ok) :
         /\ heap' = r.h /\ UNCHANGED told
         /\ IF r.st = "SUCCESS" THEN Answered(r.digest, alg, data) ELSE Quiet
  BY DEF Compute
<1>2. /\ Effect(heap, r.h, Local, Null)
      /\ Failed(r) \/ (r.st = "SUCCESS" /\ r.digest = [alg |-> alg, s |-> data])
  BY <1>1, ComputeResult DEF Inv
<1>3. LastOK(last')
  <2>1. CASE r.st = "SUCCESS"
    BY <1>1, <1>2, <2>1, AnsweredOK DEF Failed
  <2>2. CASE r.st # "SUCCESS"
    BY <1>1, <2>2, QuietOK
  <2> QED BY <2>1, <2>2
<1> QED BY <1>1, <1>2, <1>3, SameStep

LEMMA CompareStep ==
    ASSUME ConstantsOK, Inv, NEW alg \in Algs, NEW data \in Seq(Bytes), NEW ref \in References,
           NEW ok \in BOOLEAN, Compare(alg, data, ref, ok)
    PROVE  Inv'
<1>1. PICK r \in psa_hash_compare(heap, alg, data, ref, ok) :
         heap' = r.h /\ UNCHANGED told /\ Judged(r.st, ref, alg, data)
  BY DEF Compare
<1>2. Effect(heap, r.h, Local, Null) /\ RightVerdict(r, ref, alg, data)
  BY <1>1, CompareResult DEF Inv
<1>3. LastOK(last')
  BY <1>1, <1>2, JudgedOK
<1> QED BY <1>1, <1>2, <1>3, SameStep

-----------------------------------------------------------------------------
(* Inv is inductive. *)
LEMMA HashInv ==
    ASSUME ConstantsOK
    PROVE  Spec => []Inv
<1>1. Init => Inv
  <2> SUFFICES ASSUME Init PROVE Inv
    OBVIOUS
  <2> DEFINE mem == [c \in Cells |-> Free]
             opaque == [o \in All |-> Null]
  <2>1. heap = [mem |-> mem, opaque |-> opaque]
    BY DEF Init, All
  <2>2. /\ mem \in [Cells -> Contexts \union {Free}] /\ \A c \in Cells : mem[c] = Free
        /\ opaque \in [All -> Cells \union {Null}] /\ \A o \in All : opaque[o] = Null
    OBVIOUS
  <2> HIDE DEF mem, opaque
  <2>3. heap.mem = mem /\ heap.opaque = opaque /\ heap = [mem |-> heap.mem, opaque |-> heap.opaque]
    BY <2>1
  <2>4. HeapInv(heap)
    BY <2>2, <2>3 DEF HeapInv
  <2>5. \A o \in All : psa_hash_get_ctx(heap, o) = Null
    BY <2>2, <2>3 DEF psa_hash_get_ctx
  <2>6. told \in [Ops -> Seq(Bytes)]
    BY EmptySeq DEF Init
  <2>7. LastOK(last)
    BY DEF Init, LastOK
  <2> QED BY <2>4, <2>5, <2>6, <2>7 DEF Inv, Faithful, All
<1>2. Inv /\ [Next]_vars => Inv'
  <2> SUFFICES ASSUME Inv, [Next]_vars PROVE Inv'
    OBVIOUS
  <2>1. Messages \subseteq Seq(Bytes)
    BY DEF Messages
  <2>2. ASSUME NEW o \in Ops, NEW alg \in Algs, Setup(o, alg) PROVE Inv'
    BY <2>2, SetupStep
  <2>3. ASSUME NEW o \in Ops, NEW b \in Bytes, NEW ok \in BOOLEAN, Update(o, <<b>>, ok)
        PROVE  Inv'
    <3>1. <<b>> \in Seq(Bytes)
      OBVIOUS
    <3> QED BY <2>3, <3>1, UpdateStep
  <2>4. ASSUME NEW o \in Ops, NEW room \in 0 .. MaxSize, NEW ok \in BOOLEAN, Finish(o, room, ok)
        PROVE  Inv'
    BY <2>4, FinishStep
  <2>5. ASSUME NEW o \in Ops, NEW ref \in References, NEW ok \in BOOLEAN, Verify(o, ref, ok)
        PROVE  Inv'
    BY <2>5, VerifyStep
  <2>6. ASSUME NEW o \in Ops, NEW target \in Ops, Clone(o, target) PROVE Inv'
    BY <2>6, CloneStep
  <2>7. ASSUME NEW o \in Ops, Abort(o) PROVE Inv'
    BY <2>7, AbortStep
  <2>8. ASSUME NEW alg \in Algs, NEW data \in Messages, NEW ok \in BOOLEAN,
               NEW room \in 0 .. MaxSize, Compute(alg, data, room, ok)
        PROVE  Inv'
    BY <2>1, <2>8, ComputeStep
  <2>9. ASSUME NEW alg \in Algs, NEW data \in Messages, NEW ok \in BOOLEAN,
               NEW ref \in References, Compare(alg, data, ref, ok)
        PROVE  Inv'
    BY <2>1, <2>9, CompareStep
  <2>10. CASE UNCHANGED vars
    BY <2>10, SameStep DEF vars, Inv
  <2> QED BY <2>2, <2>3, <2>4, <2>5, <2>6, <2>7, <2>8, <2>9, <2>10, Zenon DEF Next
<1> QED BY <1>1, <1>2, PTL DEF Spec

(* The digests of psa_hash_finish() and psa_hash_compute() are those of all    *)
(* the input accepted, of a clone included, and psa_hash_verify() and          *)
(* psa_hash_compare() accept exactly the whole digest: for any number of       *)
(* operations, any heap and messages of any length.                           *)
THEOREM DigestsAreExact ==
    ASSUME ConstantsOK
    PROVE  Spec => []AnswersExact
<1>1. Inv => AnswersExact
  BY DEF Inv, LastOK, AnswersExact, DigestOfAll, VerifyExact
<1> QED BY <1>1, HashInv, PTL

(* Every allocated context has exactly one operation, no operation points to   *)
(* a freed one, and the operation of a one-shot call is empty when the call    *)
(* has returned, whichever call failed in whichever way.                      *)
THEOREM ContextsHaveOneOwner ==
    ASSUME ConstantsOK
    PROVE  Spec => []HeapBalanced
<1>1. Inv => HeapBalanced
  <2> SUFFICES ASSUME Inv PROVE HeapBalanced
    OBVIOUS
  <2> DEFINE users(c) == {o \in DOMAIN heap.opaque : heap.opaque[o] = c}
  <2>1. DOMAIN heap.opaque = All /\ HeapInv(heap)
    BY DEF Inv, HeapInv
  <2>2. \A c \in Cells : c # Null
    BY DEF ConstantsOK
  <2>3. \A c \in Cells : \A o, p \in users(c) : o = p
    BY <2>1, <2>2 DEF HeapInv
  <2>4. ASSUME NEW c \in Cells PROVE heap.mem[c] # Free <=> users(c) # {}
    BY <2>1, <2>2 DEF HeapInv
  <2>5. {c \in Cells : heap.mem[c] # Free} = {c \in Cells : users(c) # {}}
    <3> HIDE DEF users
    <3> QED BY <2>4, Zenon
  <2>6. heap.opaque[Local] = Null
    BY <2>1, GetCtxType DEF Inv, All
  <2> QED BY <2>3, <2>5, <2>6, Zenon DEF HeapBalanced
<1> QED BY <1>1, HashInv, PTL
=============================================================================
