------------------------------- MODULE HashOp -------------------------------
(***************************************************************************)
(* The hash operations of src/src/psa_hash_engine.c: several                *)
(* psa_hash_operation_t and the contexts they point to in the heap, cloning *)
(* one into another included.                                              *)
(*                                                                         *)
(* Each call is an operator that gives the set of its possible results      *)
(* [st, h, digest]: the status, the heap it leaves and the digest it wrote. *)
(* The digest of a message s is the pair [alg, s].  The flags initialized,  *)
(* started and finalized of a context are 1, 1 and 0 whenever an operation  *)
(* points to it, and are left out.                                         *)
(***************************************************************************)
EXTENDS Integers, Sequences

CONSTANTS
    Ops,       \* the operations of the application
    Local,     \* the operation on the stack of a one-shot call
    Size,      \* alg :> length of its digests
    Bytes,     \* bytes of input
    Cells,     \* blocks of heap
    MaxLen,    \* bound: length of a message
    Null,      \* the NULL pointer
    Free,      \* content of a block that is not allocated
    None       \* no digest

VARIABLES
    heap,      \* [mem, opaque]: the heap, and the pointer of each operation
    told,      \* history: the input accepted by each operation since its setup
    last       \* history: the last answer, and what the right one was

vars == <<heap, told, last>>

Algs == DOMAIN Size
Messages == UNION {[1 .. n -> Bytes] : n \in 0 .. MaxLen}
MaxSize == CHOOSE n \in {Size[a] : a \in Algs} : \A a \in Algs : n >= Size[a]

(* A reference is the first len bytes of a digest. *)
References == [alg : Algs, s : Messages, len : 0 .. MaxSize]

(* What a block of the heap holds when it is allocated. *)
Contexts == [alg : Algs, fed : Seq(Bytes)]

(* What the module takes for granted of its constants. *)
ConstantsOK == Null \notin Cells \union Contexts /\ Free \notin Contexts /\ Local \notin Ops

psa_hash_get_ctx(h, o) == IF h.opaque[o] = Null THEN Null ELSE h.mem[h.opaque[o]]

Init ==
    /\ heap = [mem |-> [c \in Cells |-> Free], opaque |-> [o \in Ops \union {Local} |-> Null]]
    /\ told = [o \in Ops |-> <<>>]
    /\ last = [call |-> "none"]

Result(st, h, digest) == [st |-> st, h |-> h, digest |-> digest]

(* XMALLOC() of a context, to which o then points. *)
FreeCells(h) == {c \in Cells : h.mem[c] = Free}
Allocate(h, o, ctx) ==
    LET cell == CHOOSE c \in FreeCells(h) : TRUE
    IN  [mem |-> [h.mem EXCEPT ![cell] = ctx], opaque |-> [h.opaque EXCEPT ![o] = cell]]

(* Mutation: the pointer keeps the address of the context that was freed. *)
psa_hash_abort_dangling(h, o) ==
    IF h.opaque[o] = Null THEN h
    ELSE [h EXCEPT !.mem[h.opaque[o]] = Free]

psa_hash_abort(h, o) ==
    IF h.opaque[o] = Null THEN h
    ELSE [mem |-> [h.mem EXCEPT ![h.opaque[o]] = Free],
          opaque |-> [h.opaque EXCEPT ![o] = Null]]

wolfpsa_hash_fail(h, o, st) == Result(st, psa_hash_abort(h, o), None)

-----------------------------------------------------------------------------
(* Before the context: library not ready, not a hash, not in this build. *)
psa_hash_check_alg_supported == {"BAD_STATE", "INVALID_ARGUMENT", "NOT_SUPPORTED"}

psa_hash_setup(h, o, alg) ==
    {Result(st, h, None) : st \in psa_hash_check_alg_supported}
    \union IF h.opaque[o] # Null THEN {Result("BAD_STATE", h, None)}
           ELSE {Result("INSUFFICIENT_MEMORY", h, None),
                 Result("GENERIC_ERROR", h, None)}   \* wolfCrypt: freed again
                \union IF FreeCells(h) = {} THEN {}
                       ELSE {Result("SUCCESS",
                                    Allocate(h, o, [alg |-> alg, fed |-> <<>>]), None)}

(* ok: not a NULL pointer with a length, and within word32. *)
psa_hash_update(h, o, data, ok) ==
    IF ~ok THEN {wolfpsa_hash_fail(h, o, "INVALID_ARGUMENT")}
    ELSE IF psa_hash_get_ctx(h, o) = Null THEN {wolfpsa_hash_fail(h, o, "BAD_STATE")}
    ELSE {wolfpsa_hash_fail(h, o, "GENERIC_ERROR"),
          Result("SUCCESS", [h EXCEPT !.mem[h.opaque[o]].fed = @ \o data], None)}

psa_hash_finish(h, o, room, ok) ==
    LET ctx == psa_hash_get_ctx(h, o) IN
    IF ~ok THEN {wolfpsa_hash_fail(h, o, "INVALID_ARGUMENT")}
    ELSE IF ctx = Null THEN {wolfpsa_hash_fail(h, o, "BAD_STATE")}
    ELSE IF room < Size[ctx.alg] THEN {wolfpsa_hash_fail(h, o, "BUFFER_TOO_SMALL")}
    ELSE {wolfpsa_hash_fail(h, o, "GENERIC_ERROR"),
          Result("SUCCESS", psa_hash_abort(h, o), [alg |-> ctx.alg, s |-> ctx.fed])}

(* Mutation: a shorter reference is compared on its own length. *)
SameDigest_prefix(digest, ref) ==
    ref.alg = digest.alg /\ ref.s = digest.s

(* ConstantCompare(), once the lengths agree. *)
SameDigest(digest, ref) ==
    ref.len = Size[digest.alg] /\ ref.alg = digest.alg /\ ref.s = digest.s

(* ok: not a NULL pointer with a length.  That error does not abort. *)
psa_hash_verify(h, o, ref, ok) ==
    IF ~ok THEN {Result("INVALID_ARGUMENT", h, None)}
    ELSE {IF r.st # "SUCCESS" THEN r
          ELSE Result(IF SameDigest(r.digest, ref) THEN "SUCCESS" ELSE "INVALID_SIGNATURE",
                      r.h, None) :
              r \in psa_hash_finish(h, o, MaxSize, TRUE)}

(* Mutation: the wolfCrypt state is not copied. *)
Copied_blank(ctx) == [ctx EXCEPT !.fed = <<>>]

(* wc_*Copy(): the state of the source, nothing of it shared. *)
Copied(ctx) == ctx

psa_hash_clone(h, source, target) ==
    LET ctx == psa_hash_get_ctx(h, source) IN
    IF h.opaque[target] # Null \/ ctx = Null THEN {Result("BAD_STATE", h, None)}
    ELSE {Result("INSUFFICIENT_MEMORY", h, None),
          Result("GENERIC_ERROR", h, None)}     \* the copy failed and was freed
         \union IF FreeCells(h) = {} THEN {}
                ELSE {Result("SUCCESS", Allocate(h, target, Copied(ctx)), None)}

(* The one-shot call: each part, and an abort after one that fails. *)
psa_hash_compute(h, alg, data, room, ok) ==
    UNION {IF r1.st # "SUCCESS" THEN {r1}
           ELSE UNION {IF r2.st # "SUCCESS"
                       THEN {wolfpsa_hash_fail(r2.h, Local, r2.st)}
                       ELSE {IF r3.st # "SUCCESS"
                             THEN wolfpsa_hash_fail(r3.h, Local, r3.st) ELSE r3 :
                                 r3 \in psa_hash_finish(r2.h, Local, room, TRUE)} :
                       r2 \in psa_hash_update(r1.h, Local, data, ok)} :
           r1 \in psa_hash_setup(h, Local, alg)}

(* A reference that is NULL is an error only once its length is right. *)
psa_hash_compare(h, alg, data, ref, ok) ==
    {Result(st, h, None) : st \in psa_hash_check_alg_supported}
    \union
    IF ref.len # Size[alg] THEN {Result("INVALID_SIGNATURE", h, None)}
    ELSE {IF r.st # "SUCCESS" THEN r
          ELSE Result(IF SameDigest(r.digest, ref) THEN "SUCCESS" ELSE "INVALID_SIGNATURE",
                      r.h, None) :
              r \in psa_hash_compute(h, alg, data, MaxSize, ok)}

-----------------------------------------------------------------------------
Quiet == last' = [call |-> "none"]

(* A digest was given for the message s. *)
Answered(digest, alg, s) ==
    last' = [call |-> "digest", right |-> digest = [alg |-> alg, s |-> s]]

(* ref was judged against the digest of s. *)
Judged(st, ref, alg, s) ==
    last' = [call |-> "verdict", st |-> st,
             genuine |-> ref = [alg |-> alg, s |-> s, len |-> Size[alg]]]

Setup(o, alg) == \E r \in psa_hash_setup(heap, o, alg) :
    /\ heap' = r.h /\ Quiet
    /\ told' = IF r.st = "SUCCESS" THEN [told EXCEPT ![o] = <<>>] ELSE told

Update(o, data, ok) ==
    /\ Len(told[o] \o data) <= MaxLen
    /\ \E r \in psa_hash_update(heap, o, data, ok) :
        /\ heap' = r.h /\ Quiet
        /\ told' = [told EXCEPT ![o] = IF r.st = "SUCCESS" THEN @ \o data ELSE <<>>]

Finish(o, room, ok) == \E r \in psa_hash_finish(heap, o, room, ok) :
    /\ heap' = r.h /\ told' = [told EXCEPT ![o] = <<>>]
    /\ IF r.st = "SUCCESS" THEN Answered(r.digest, r.digest.alg, told[o]) ELSE Quiet

Verify(o, ref, ok) == \E r \in psa_hash_verify(heap, o, ref, ok) :
    /\ heap' = r.h /\ told' = IF ok THEN [told EXCEPT ![o] = <<>>] ELSE told
    /\ IF heap.opaque[o] = Null THEN Quiet
       ELSE Judged(r.st, ref, psa_hash_get_ctx(heap, o).alg, told[o])

Clone(source, target) == \E r \in psa_hash_clone(heap, source, target) :
    /\ heap' = r.h /\ Quiet
    /\ told' = IF r.st = "SUCCESS" THEN [told EXCEPT ![target] = told[source]] ELSE told

Abort(o) ==
    heap' = psa_hash_abort(heap, o) /\ told' = [told EXCEPT ![o] = <<>>] /\ Quiet

Compute(alg, data, room, ok) == \E r \in psa_hash_compute(heap, alg, data, room, ok) :
    /\ heap' = r.h /\ UNCHANGED told
    /\ IF r.st = "SUCCESS" THEN Answered(r.digest, alg, data) ELSE Quiet

Compare(alg, data, ref, ok) == \E r \in psa_hash_compare(heap, alg, data, ref, ok) :
    /\ heap' = r.h /\ UNCHANGED told
    /\ Judged(r.st, ref, alg, data)

Next ==
    \/ \E o \in Ops :
        \/ \E alg \in Algs : Setup(o, alg)
        \/ \E b \in Bytes, ok \in BOOLEAN : Update(o, <<b>>, ok)
        \/ \E room \in 0 .. MaxSize, ok \in BOOLEAN : Finish(o, room, ok)
        \/ \E ref \in References, ok \in BOOLEAN : Verify(o, ref, ok)
        \/ \E target \in Ops : Clone(o, target)
        \/ Abort(o)
    \/ \E alg \in Algs, data \in Messages, ok \in BOOLEAN :
        \/ \E room \in 0 .. MaxSize : Compute(alg, data, room, ok)
        \/ \E ref \in References : Compare(alg, data, ref, ok)

Spec == Init /\ [][Next]_vars

-----------------------------------------------------------------------------
(* A digest, of a multi-part operation or of its clone, is that of all the    *)
(* input accepted since the setup of the operation or of the one it was      *)
(* cloned from, whatever happened to the other in between                    *)
(* (src/src/psa_hash_engine.c:787).                                         *)
DigestOfAll == last.call = "digest" => last.right

(* Every allocated context belongs to exactly one operation and no operation  *)
(* points to a freed one, after any failure (src/src/psa_hash_engine.c:917). *)
HeapBalanced ==
    LET users(c) == {o \in DOMAIN heap.opaque : heap.opaque[o] = c} IN
    /\ \A c \in Cells : \A o, p \in users(c) : o = p
    /\ {c \in Cells : heap.mem[c] # Free} = {c \in Cells : users(c) # {}}
    /\ heap.opaque[Local] = Null

(* psa_hash_verify() and psa_hash_compare() succeed only on the whole digest  *)
(* of the whole message, and reject it only when it is not                   *)
(* (src/src/psa_hash_engine.c:747-755, 995).                                *)
VerifyExact ==
    last.call = "verdict" =>
        /\ last.st = "SUCCESS" => last.genuine
        /\ last.st = "INVALID_SIGNATURE" => ~last.genuine

(* Every digest and every verdict is right (psa_hash_finish(),                *)
(* psa_hash_verify(), psa_hash_compute(), psa_hash_compare()).              *)
AnswersExact == DigestOfAll /\ VerifyExact
=============================================================================
