------------------------ MODULE KeyDerivationProofs ------------------------
(* Proofs about KeyDerivation. *)
EXTENDS KeyDerivation, SequenceTheorems, TLAPS

(* The inputs the backend of an algorithm reads, and the stream it computes. *)
Used(c) ==
    CASE c.alg = "HKDF" -> {"SALT", "SECRET", "INFO"}
      [] c.alg = "HKDF_EXTRACT" -> {"SALT", "SECRET"}
      [] c.alg = "HKDF_EXPAND" -> {"SECRET", "INFO"}
      [] c.alg = "TLS12_PRF" -> {"SECRET", "LABEL", "SEED"}
      [] c.alg = "PSK_TO_MS" -> {"SECRET", "OTHER_SECRET", "SEED"}
      [] c.alg = "PBKDF2" -> {"PASSWORD", "SALT", "COST"}
      [] c.alg = "SP800_108" -> {"SECRET", "LABEL", "CONTEXT"}
      [] c.alg = "CATEGORY" -> {"SECRET"}

StreamL(c) == IF c.alg = "SP800_108" THEN c.L ELSE 0
Stream(c, n) == Bytes(c, n, Used(c), StreamL(c))

(* The shape of a context: a record with these fields, each of its type. *)
IsCtx(c) ==
    /\ c = [alg |-> c.alg, agreement |-> c.agreement, capacity |-> c.capacity,
            offset |-> c.offset, steps |-> c.steps, input |-> c.input, L |-> c.L,
            started |-> c.started, can_output_key |-> c.can_output_key,
            error |-> c.error, cached |-> c.cached, cache |-> c.cache]
    /\ c.alg \in Algs /\ c.agreement \in BOOLEAN
    /\ c.capacity \in 0 .. SizeMax /\ c.offset \in 0 .. SizeMax
    /\ c.steps \subseteq Steps /\ c.input \in [Steps -> Nat] /\ c.L \in 0 .. SizeMax
    /\ c.started \in BOOLEAN /\ c.can_output_key \in BOOLEAN
    /\ c.error \in BOOLEAN /\ c.cached \in BOOLEAN

(* Before the first output nothing is delivered or cached; a cache is a      *)
(* prefix of the stream; an input was accepted only if the backend reads it. *)
CtxInv(c) ==
    /\ IsCtx(c)
    /\ c.started = FALSE => c.offset = 0 /\ c.cached = FALSE
    /\ c.cached = FALSE => c.cache = <<>>
    /\ \E k \in Nat : c.cache = Stream(c, k)
    /\ c.steps \subseteq Used(c)

KeySources == {"derive_key", "agreement"}
Keying == {"SECRET", "PASSWORD"}

(* The capacity left is what is still owed; a poisoned operation owes less. *)
Owed(c, owes, poisoned) ==
    \/ c.capacity = Unlimited
    \/ c.offset + c.capacity = owes
    \/ poisoned /\ c.offset + c.capacity =< owes

(* A key may be output only after one went in as the secret. *)
Permitted(c, source) ==
    c.can_output_key = TRUE => source \in KeySources /\ c.steps \cap Keying # {}

HistoryInv ==
    /\ promise \in Nat /\ failed \in BOOLEAN /\ secret \in Sources
    /\ derived \subseteq KeySources

Inv ==
    /\ HistoryInv
    /\ ctx = NoCtx => out = <<>> /\ failed = FALSE
    /\ ctx # NoCtx =>
          /\ CtxInv(ctx)
          /\ out = Stream(ctx, ctx.offset)
          /\ Owed(ctx, promise, ctx.error = TRUE)
          /\ Permitted(ctx, secret)
          /\ failed = TRUE => ctx.error = TRUE

IsResult(r) == r = [st |-> r.st, c |-> r.c, bytes |-> r.bytes]

-----------------------------------------------------------------------------
(* The stream. *)

(* A stream is a sequence, and names only known inputs. *)
LEMMA StreamIsSeq ==
    ASSUME NEW c, IsCtx(c), NEW n \in Nat
    PROVE  /\ Stream(c, n) \in Seq(StreamBytes) /\ Len(Stream(c, n)) = n
           /\ \A i \in 1 .. n : Stream(c, n)[i] =
                 [pos |-> i, L |-> StreamL(c), from |-> [s \in Used(c) |-> c.input[s]]]
           /\ Used(c) \subseteq Steps
  <1>1. Used(c) \subseteq Steps
    BY DEF IsCtx, Used, Algs, Steps
  <1>2. StreamL(c) \in Nat
    BY LengthsAssumption DEF IsCtx, StreamL
  <1> DEFINE F == [s \in Used(c) |-> c.input[s]]
  <1>3. F \in [Used(c) -> Nat]
    BY <1>1 DEF IsCtx
  <1>4. F \in UNION {[u -> Nat] : u \in SUBSET Steps}
    BY <1>1, <1>3
  <1> HIDE DEF F
  <1> DEFINE B(i) == [pos |-> i, L |-> StreamL(c), from |-> F]
  <1>5. \A i \in 1 .. n : B(i) \in StreamBytes
    BY <1>2, <1>4 DEF StreamBytes
  <1>6. Stream(c, n) = [i \in 1 .. n |-> B(i)]
    BY DEF Stream, Bytes, F
  <1> HIDE DEF B
  <1>7. Stream(c, n) \in [1 .. n -> StreamBytes]
    BY <1>5, <1>6
  <1>8. Stream(c, n) \in Seq(StreamBytes) /\ Len(Stream(c, n)) = n
    BY <1>7
  <1>9. \A i \in 1 .. n : Stream(c, n)[i] = B(i)
    BY <1>6
  <1> QED
    BY <1>1, <1>8, <1>9 DEF B, F

(* The next n bytes of the stream follow the first a. *)
LEMMA StreamSlice ==
    ASSUME NEW c, IsCtx(c), NEW a \in Nat, NEW n \in Nat, NEW m \in Nat, a + n =< m
    PROVE  Stream(c, a) \o SubSeq(Stream(c, m), a + 1, a + n) = Stream(c, a + n)
  <1> DEFINE S == Stream(c, a)
             M == Stream(c, m)
             T == Stream(c, a + n)
             Q == SubSeq(M, a + 1, a + n)
             B(i) == [pos |-> i, L |-> StreamL(c), from |-> [s \in Used(c) |-> c.input[s]]]
  <1>1. /\ S \in Seq(StreamBytes) /\ Len(S) = a /\ \A i \in 1 .. a : S[i] = B(i)
        /\ M \in Seq(StreamBytes) /\ Len(M) = m /\ \A i \in 1 .. m : M[i] = B(i)
        /\ T \in Seq(StreamBytes) /\ Len(T) = a + n /\ \A i \in 1 .. a + n : T[i] = B(i)
    <2>1. a + n \in Nat
      OBVIOUS
    <2> DEFINE P(k) == /\ Stream(c, k) \in Seq(StreamBytes) /\ Len(Stream(c, k)) = k
                       /\ \A i \in 1 .. k : Stream(c, k)[i] = B(i)
    <2>2. \A k \in Nat : P(k)
      BY StreamIsSeq
    <2>3. P(a) /\ P(m) /\ P(a + n)
      BY <2>1, <2>2, Zenon
    <2> QED
      BY <2>3, Zenon
  <1> HIDE DEF S, M, T, B
  <1>2. /\ Q \in Seq(StreamBytes) /\ Len(Q) = n
        /\ \A i \in 1 .. n : Q[i] = M[a + i]
    <2>1. a + 1 \in 1 .. Len(M) + 1 /\ a + n \in (a + 1) - 1 .. Len(M)
      BY <1>1
    <2>2. Q \in Seq(StreamBytes) /\ Len(Q) = (a + n) - (a + 1) + 1
      BY <1>1, <2>1, SubSeqProperties
    <2>3. \A i \in 1 .. (a + n) - (a + 1) + 1 : Q[i] = M[(a + 1) + i - 1]
      BY <1>1, <2>1, SubSeqProperties
    <2>4. /\ (a + n) - (a + 1) + 1 = n
          /\ \A i \in 1 .. n : (a + 1) + i - 1 = a + i
      OBVIOUS
    <2> QED
      BY <2>2, <2>3, <2>4
  <1> HIDE DEF Q
  <1>3. /\ S \o Q \in Seq(StreamBytes) /\ Len(S \o Q) = a + n
        /\ \A i \in 1 .. a + n : (S \o Q)[i] = IF i =< a THEN S[i] ELSE Q[i - a]
    BY <1>1, <1>2
  <1>4. \A i \in 1 .. a + n : (S \o Q)[i] = T[i]
    <2> TAKE i \in 1 .. a + n
    <2>1. CASE i =< a
      BY <2>1, <1>1, <1>3
    <2>2. CASE ~(i =< a)
      <3>1. (S \o Q)[i] = Q[i - a] /\ i - a \in 1 .. n /\ i \in 1 .. m
        BY <2>2, <1>3
      <3>2. Q[i - a] = M[a + (i - a)] /\ a + (i - a) = i
        BY <3>1, <1>2
      <3> QED
        BY <3>1, <3>2, <1>1
    <2> QED
      BY <2>1, <2>2
  <1>5. S \o Q = T
    BY <1>1, <1>3, <1>4, SeqEqual
  <1> QED
    BY <1>5 DEF S, Q, M, T

(* Contexts with the same algorithm, inputs and L have the same stream. *)
LEMMA SameStream ==
    ASSUME NEW c, NEW d, d.alg = c.alg, d.input = c.input,
           StreamL(d) = StreamL(c), NEW n
    PROVE  Stream(d, n) = Stream(c, n)
  <1>1. Used(d) = Used(c)
    BY DEF Used
  <1> QED
    BY <1>1 DEF Stream, Bytes

LEMMA EmptyStream ==
    ASSUME NEW c, IsCtx(c) PROVE Stream(c, 0) = <<>>
  BY StreamIsSeq, EmptySeq

(* No context is NULL. *)
LEMMA CtxNotNull ==
    ASSUME NEW c, CtxInv(c)
    PROVE  c # NoCtx
  <1>1. PICK k \in Nat : c.cache = Stream(c, k)
    BY DEF CtxInv
  <1>2. c.cache \in Seq(StreamBytes)
    BY <1>1, StreamIsSeq DEF CtxInv
  <1>3. /\ c = [alg |-> c.alg, agreement |-> c.agreement, capacity |-> c.capacity,
            offset |-> c.offset, steps |-> c.steps, input |-> c.input, L |-> c.L,
            started |-> c.started, can_output_key |-> c.can_output_key,
            error |-> c.error, cached |-> c.cached, cache |-> c.cache]
        /\ c.alg \in Algs /\ c.agreement \in BOOLEAN
        /\ c.steps \in SUBSET Steps /\ c.input \in [Steps -> Nat]
        /\ c.started \in BOOLEAN /\ c.can_output_key \in BOOLEAN
        /\ c.error \in BOOLEAN /\ c.cached \in BOOLEAN
    BY DEF CtxInv, IsCtx
  <1>4. c.capacity \in Nat /\ c.offset \in Nat /\ c.L \in Nat
    BY LengthsAssumption DEF CtxInv, IsCtx
  <1>5. c \in Contexts
    BY <1>2, <1>3, <1>4, Zenon DEF Contexts
  <1> QED
    BY <1>5, NoCtxAssumption

-----------------------------------------------------------------------------
(* Outputs. *)

(* The fields a call that only delivers never touches. *)
SameInputs(c, d) ==
    /\ d.alg = c.alg /\ d.agreement = c.agreement /\ d.steps = c.steps
    /\ d.input = c.input /\ d.can_output_key = c.can_output_key /\ d.error = c.error

(* The bytes a backend computes are the stream; its failure is an error. *)
LEMMA ComputeOutcome ==
    ASSUME NEW c, IsCtx(c), NEW n \in Nat, NEW r \in wolfpsa_kdf_compute_output(c, n)
    PROVE  /\ r.st \in {"SUCCESS", "GENERIC_ERROR"}
           /\ r.st = "SUCCESS" => r.bytes = Stream(c, n)
           /\ r.st # "SUCCESS" => r.bytes = <<>>
  <1> DEFINE stream ==
            CASE IsRaw(c) -> Bytes(c, n, {"SECRET"}, 0)
              [] c.alg \in Hkdfs -> wolfpsa_kdf_hkdf(c, n)
              [] c.alg = "TLS12_PRF" -> wolfpsa_kdf_tls12_prf(c, n)
              [] c.alg = "PSK_TO_MS" -> wolfpsa_kdf_tls12_psk_to_ms(c, n)
              [] c.alg = "PBKDF2" -> wolfpsa_kdf_pbkdf2(c, n)
              [] c.alg = "SP800_108" -> wolfpsa_kdf_sp800_108_hmac(c, n)
             computable == IF c.alg = "CATEGORY" THEN IsRaw(c)
                           ELSE c.alg = "HKDF_EXTRACT" => n =< HashLen
  <1>1. wolfpsa_kdf_compute_output(c, n) =
            (IF computable THEN {[st |-> "SUCCESS", bytes |-> stream]} ELSE {})
            \union (IF IsRaw(c) THEN {} ELSE {[st |-> "GENERIC_ERROR", bytes |-> <<>>]})
    BY DEF wolfpsa_kdf_compute_output
  <1>2. computable => (c.alg = "CATEGORY" => IsRaw(c))
    OBVIOUS
  <1>3. ASSUME c.alg = "CATEGORY" => IsRaw(c)
        PROVE  stream = Stream(c, n)
    <2>1. CASE IsRaw(c)
      <3>1. c.alg = "CATEGORY"
        BY <2>1 DEF IsRaw
      <3>2. Stream(c, n) = Bytes(c, n, {"SECRET"}, 0)
        BY <3>1 DEF Stream, Used, StreamL
      <3>3. stream = Bytes(c, n, {"SECRET"}, 0)
        BY <3>1, <2>1 DEF Hkdfs
      <3> QED
        BY <3>2, <3>3
    <2>2. CASE c.alg = "HKDF"
      BY <2>2 DEF IsRaw, Stream, Used, StreamL, wolfpsa_kdf_hkdf, Hkdfs
    <2>3. CASE c.alg = "HKDF_EXTRACT"
      BY <2>3 DEF IsRaw, Stream, Used, StreamL, wolfpsa_kdf_hkdf, Hkdfs
    <2>4. CASE c.alg = "HKDF_EXPAND"
      BY <2>4 DEF IsRaw, Stream, Used, StreamL, wolfpsa_kdf_hkdf, Hkdfs
    <2>5. CASE c.alg = "TLS12_PRF"
      BY <2>5 DEF IsRaw, Stream, Used, StreamL, wolfpsa_kdf_tls12_prf, Hkdfs
    <2>6. CASE c.alg = "PSK_TO_MS"
      BY <2>6 DEF IsRaw, Stream, Used, StreamL, wolfpsa_kdf_tls12_psk_to_ms, Hkdfs
    <2>7. CASE c.alg = "PBKDF2"
      BY <2>7 DEF IsRaw, Stream, Used, StreamL, wolfpsa_kdf_pbkdf2, Hkdfs
    <2>8. CASE c.alg = "SP800_108"
      BY <2>8 DEF IsRaw, Stream, Used, StreamL, wolfpsa_kdf_sp800_108_hmac, Hkdfs
    <2> QED
      BY <1>3, <2>1, <2>2, <2>3, <2>4, <2>5, <2>6, <2>7, <2>8 DEF IsCtx, Algs
  <1> HIDE DEF stream
  <1>4. \/ computable /\ r = [st |-> "SUCCESS", bytes |-> stream]
        \/ r = [st |-> "GENERIC_ERROR", bytes |-> <<>>]
    BY <1>1 DEF computable
  <1> QED
    BY <1>2, <1>3, <1>4

(* What serving n bytes of a long enough prefix of the stream leaves. *)
Served(c, n, r) ==
    /\ IsResult(r) /\ r.st = "SUCCESS" /\ CtxInv(r.c) /\ SameInputs(c, r.c)
    /\ r.c.started = TRUE /\ r.c.capacity = c.capacity /\ r.c.L = c.L
    /\ r.c.offset = c.offset + n
    /\ Stream(c, c.offset) \o r.bytes = Stream(c, c.offset + n)

(* What a failed delivery leaves. *)
Refused(c, r) ==
    /\ IsResult(r) /\ r.st \notin Exempt /\ CtxInv(r.c) /\ SameInputs(c, r.c)
    /\ r.c.offset = c.offset /\ r.c.capacity = c.capacity /\ r.c.L = c.L
    /\ r.bytes = <<>>

LEMMA ServeOutcome ==
    ASSUME NEW c, CtxInv(c), c.started = TRUE, NEW n \in Nat, NEW m \in Nat,
           c.offset + n =< m, c.offset + n =< SizeMax
    PROVE  Served(c, n, [st |-> "SUCCESS", c |-> [c EXCEPT !.offset = @ + n],
                         bytes |-> SubSeq(Stream(c, m), c.offset + 1, c.offset + n)])
  <1> DEFINE d == [c EXCEPT !.offset = @ + n]
  <1>1. c.offset \in Nat /\ IsCtx(c)
    BY LengthsAssumption DEF CtxInv, IsCtx
  <1>2. c.offset + n \in 0 .. SizeMax
    BY <1>1, LengthsAssumption
  <1>3. /\ d.alg = c.alg /\ d.agreement = c.agreement /\ d.capacity = c.capacity
        /\ d.steps = c.steps /\ d.input = c.input /\ d.L = c.L
        /\ d.started = c.started /\ d.can_output_key = c.can_output_key
        /\ d.error = c.error /\ d.cached = c.cached /\ d.cache = c.cache
        /\ d.offset = c.offset + n
    BY DEF CtxInv, IsCtx
  <1>4. IsCtx(d)
    BY <1>2 DEF CtxInv, IsCtx
  <1> HIDE DEF d
  <1>5. \A k \in Nat : Stream(d, k) = Stream(c, k)
    BY <1>3, SameStream DEF StreamL
  <1>6. Used(d) = Used(c)
    BY <1>3 DEF Used
  <1>7. CtxInv(d)
    BY <1>3, <1>4, <1>5, <1>6 DEF CtxInv
  <1>8. Stream(c, c.offset) \o SubSeq(Stream(c, m), c.offset + 1, c.offset + n)
           = Stream(c, c.offset + n)
    BY <1>1, StreamSlice
  <1> QED
    BY <1>3, <1>7, <1>8 DEF d, Served, IsResult, SameInputs

LEMMA RefusedOutcome ==
    ASSUME NEW c, CtxInv(c), NEW st, st \notin Exempt
    PROVE  Refused(c, Result(st, c))
  BY DEF Refused, Result, IsResult, SameInputs

(* A delivery serves the next slice of the stream, or fails. *)
LEMMA DeliverOutcome ==
    ASSUME NEW c, CtxInv(c), c.started = TRUE, NEW n \in Nat,
           c.offset + n =< SizeMax, NEW r \in Deliver(c, n, c.offset + n)
    PROVE  Served(c, n, r) \/ Refused(c, r)
  <1> DEFINE total == c.offset + n
             whole == n + c.capacity
             fill  == /\ ~c.cached /\ ~IsRaw(c) /\ c.capacity # Unlimited
                      /\ c.offset = 0 /\ whole =< CacheMax
  <1>1. c.offset \in Nat /\ c.capacity \in Nat /\ IsCtx(c)
    BY LengthsAssumption DEF CtxInv, IsCtx
  <1>2. total \in Nat /\ whole \in Nat
    BY <1>1
  <1>3. /\ "INSUFFICIENT_DATA" \notin Exempt /\ "INSUFFICIENT_MEMORY" \notin Exempt
        /\ "GENERIC_ERROR" \notin Exempt
    BY DEF Exempt
  <1>4. CASE c.cached
    <2>1. r = IF total > Len(c.cache) THEN Result("INSUFFICIENT_DATA", c)
              ELSE Serve(c, n, [st |-> "SUCCESS", bytes |-> c.cache])
      BY <1>4 DEF Deliver
    <2>2. CASE total > Len(c.cache)
      BY <2>1, <2>2, <1>3, RefusedOutcome
    <2>3. CASE ~(total > Len(c.cache))
      <3>1. PICK k \in Nat : c.cache = Stream(c, k)
        BY DEF CtxInv
      <3>2. Len(c.cache) = k
        BY <3>1, <1>1, StreamIsSeq
      <3>3. total =< k
        BY <2>3, <3>2, <1>2
      <3>4. r = [st |-> "SUCCESS", c |-> [c EXCEPT !.offset = @ + n],
                 bytes |-> SubSeq(Stream(c, k), c.offset + 1, c.offset + n)]
        BY <2>1, <2>3, <3>1 DEF Serve
      <3> QED
        BY <3>3, <3>4, ServeOutcome
    <2> QED
      BY <2>2, <2>3
  <1>5. CASE ~c.cached /\ fill
    <2>1. \/ r = Result("INSUFFICIENT_MEMORY", c)
          \/ \E x \in wolfpsa_kdf_compute_output(c, whole) :
                r = Serve([c EXCEPT !.cached = x.st = "SUCCESS", !.cache = x.bytes], n, x)
      BY <1>5 DEF Deliver
    <2>2. CASE r = Result("INSUFFICIENT_MEMORY", c)
      BY <2>2, <1>3, RefusedOutcome
    <2>3. ASSUME NEW x \in wolfpsa_kdf_compute_output(c, whole),
                 r = Serve([c EXCEPT !.cached = x.st = "SUCCESS", !.cache = x.bytes], n, x)
          PROVE  Served(c, n, r) \/ Refused(c, r)
      <3> DEFINE b == x.st = "SUCCESS"
                 d == [c EXCEPT !.cached = b, !.cache = x.bytes]
      <3>0. b \in BOOLEAN
        OBVIOUS
      <3>1. /\ x.st \in {"SUCCESS", "GENERIC_ERROR"}
            /\ b => x.bytes = Stream(c, whole)
            /\ ~b => x.bytes = <<>>
        BY <1>1, <1>2, ComputeOutcome
      <3>2. \E k \in Nat : x.bytes = Stream(c, k)
        BY <3>1, <1>1, <1>2, EmptyStream
      <3>3. r = Serve(d, n, x)
        BY <2>3
      <3> HIDE DEF b
      <3>4. /\ d.alg = c.alg /\ d.agreement = c.agreement /\ d.capacity = c.capacity
            /\ d.steps = c.steps /\ d.input = c.input /\ d.L = c.L
            /\ d.started = c.started /\ d.can_output_key = c.can_output_key
            /\ d.error = c.error /\ d.offset = c.offset
            /\ d.cached = b /\ d.cache = x.bytes
        BY DEF CtxInv, IsCtx
      <3>5. IsCtx(d)
        <4> DEFINE e == [c EXCEPT !.cached = b]
        <4>1. e = [alg |-> c.alg, agreement |-> c.agreement, capacity |-> c.capacity,
                   offset |-> c.offset, steps |-> c.steps, input |-> c.input,
                   L |-> c.L, started |-> c.started,
                   can_output_key |-> c.can_output_key, error |-> c.error,
                   cached |-> b, cache |-> c.cache]
          BY <1>1 DEF IsCtx
        <4>2. d = [e EXCEPT !.cache = x.bytes]
          BY Zenon
        <4> HIDE DEF e
        <4>3. d = [alg |-> c.alg, agreement |-> c.agreement, capacity |-> c.capacity,
                   offset |-> c.offset, steps |-> c.steps, input |-> c.input,
                   L |-> c.L, started |-> c.started,
                   can_output_key |-> c.can_output_key, error |-> c.error,
                   cached |-> b, cache |-> x.bytes]
          BY <4>1, <4>2
        <4> HIDE DEF d
        <4> QED
          BY <4>3, <3>0, <3>4, Zenon DEF CtxInv, IsCtx
      <3> HIDE DEF d
      <3>6. \A k \in Nat : Stream(d, k) = Stream(c, k)
        BY <3>4, SameStream DEF StreamL
      <3>7. Used(d) = Used(c)
        BY <3>4 DEF Used
      <3>8. d.cached = FALSE => d.cache = <<>>
        BY <3>1, <3>4
      <3>9. \E k \in Nat : d.cache = Stream(d, k)
        BY <3>2, <3>4, <3>6
      <3>10. CtxInv(d)
        <4>1. d.started = FALSE => d.offset = 0 /\ d.cached = FALSE
          BY <3>4
        <4>2. d.steps \subseteq Used(d)
          BY <3>4, <3>7 DEF CtxInv
        <4> QED
          BY <3>5, <3>8, <3>9, <4>1, <4>2 DEF CtxInv
      <3>11. CASE b
        <4>1. x.bytes = Stream(d, whole) /\ x.st = "SUCCESS"
          BY <3>1, <3>6, <3>11, <1>2 DEF b
        <4>2. r = [st |-> "SUCCESS", c |-> [d EXCEPT !.offset = @ + n],
                   bytes |-> SubSeq(Stream(d, whole), d.offset + 1, d.offset + n)]
          BY <3>3, <4>1 DEF Serve
        <4>3. d.offset + n =< whole /\ d.offset + n =< SizeMax /\ d.started = TRUE
          BY <3>4, <1>5, <1>1
        <4>4. Served(d, n, r)
          BY <3>10, <4>2, <4>3, <1>2, ServeOutcome
        <4>5. SameInputs(d, r.c) => SameInputs(c, r.c)
          BY <3>4 DEF SameInputs
        <4>6. /\ Stream(d, d.offset) = Stream(c, c.offset)
              /\ Stream(d, d.offset + n) = Stream(c, c.offset + n)
          BY <3>4, <3>6, <1>1
        <4> QED
          BY <4>4, <4>5, <4>6, <3>4 DEF Served
      <3>12. CASE ~b
        <4>1. x.st = "GENERIC_ERROR"
          BY <3>1, <3>12 DEF b
        <4>2. r = Result("GENERIC_ERROR", d)
          BY <3>3, <4>1 DEF Serve
        <4>3. Refused(d, r)
          BY <4>2, <3>10, <1>3, RefusedOutcome
        <4>4. SameInputs(d, r.c) => SameInputs(c, r.c)
          BY <3>4 DEF SameInputs
        <4> QED
          BY <4>3, <4>4, <3>4 DEF Refused
      <3> QED
        BY <3>11, <3>12
    <2> QED
      BY <2>1, <2>2, <2>3
  <1>6. CASE ~c.cached /\ ~fill
    <2>1. \/ r = Result("INSUFFICIENT_MEMORY", c)
          \/ \E x \in wolfpsa_kdf_compute_output(c, total) : r = Serve(c, n, x)
      BY <1>6 DEF Deliver
    <2>2. CASE r = Result("INSUFFICIENT_MEMORY", c)
      BY <2>2, <1>3, RefusedOutcome
    <2>3. ASSUME NEW x \in wolfpsa_kdf_compute_output(c, total), r = Serve(c, n, x)
          PROVE  Served(c, n, r) \/ Refused(c, r)
      <3>1. /\ x.st \in {"SUCCESS", "GENERIC_ERROR"}
            /\ x.st = "SUCCESS" => x.bytes = Stream(c, total)
        BY <1>1, <1>2, ComputeOutcome
      <3>2. CASE x.st = "SUCCESS"
        <4>1. r = [st |-> "SUCCESS", c |-> [c EXCEPT !.offset = @ + n],
                   bytes |-> SubSeq(Stream(c, total), c.offset + 1, c.offset + n)]
          BY <2>3, <3>1, <3>2 DEF Serve
        <4>2. total =< total
          BY <1>2
        <4> QED
          BY <4>1, <4>2, <1>2, ServeOutcome
      <3>3. CASE x.st = "GENERIC_ERROR"
        <4>1. r = Result("GENERIC_ERROR", c)
          BY <2>3, <3>3 DEF Serve
        <4> QED
          BY <4>1, <1>3, RefusedOutcome
      <3> QED
        BY <3>1, <3>2, <3>3
    <2> QED
      BY <2>1, <2>2, <2>3
  <1> QED
    BY <1>4, <1>5, <1>6

(* The sum that did not fall below the offset did not wrap around. *)
LEMMA NoWrap ==
    ASSUME NEW a \in 0 .. SizeMax, NEW n \in 0 .. SizeMax,
           ~((a + n) % (SizeMax + 1) < a)
    PROVE  a + n =< SizeMax /\ (a + n) % (SizeMax + 1) = a + n
  <1> DEFINE M == SizeMax + 1
             x == a + n
  <1>1. M \in Nat /\ M > 0 /\ x \in Nat /\ x < 2 * M
    BY LengthsAssumption
  <1>2. CASE x < M
    <2>1. ASSUME NEW u \in Nat, NEW w \in Nat, u < w PROVE u % w = u
      BY <2>1
    <2>2. x % M = x
      BY <1>1, <1>2, <2>1
    <2> QED
      BY <1>1, <1>2, <2>2, LengthsAssumption
  <1>3. CASE x >= M
    <2>1. x % M = x - M
      BY <1>1, <1>3
    <2> QED
      BY <2>1, LengthsAssumption
  <1> QED
    BY <1>1, <1>2, <1>3

(* Spending capacity leaves the rest of the context as it was. *)
LEMMA RequireOutcome ==
    ASSUME NEW c, CtxInv(c), NEW n \in 0 .. SizeMax
    PROVE  LET r == wolfpsa_kdf_require_output(c, n) IN
           /\ IsResult(r) /\ CtxInv(r.c) /\ SameInputs(c, r.c) /\ r.bytes = <<>>
           /\ r.c.offset = c.offset /\ r.c.L = c.L /\ r.c.started = c.started
           /\ r.c.cached = c.cached /\ r.c.cache = c.cache
           /\ r.st \in {"SUCCESS", "INSUFFICIENT_DATA"}
           /\ c.capacity = Unlimited => r.c.capacity = Unlimited /\ r.st = "SUCCESS"
           /\ c.capacity # Unlimited =>
                 r.c.capacity = IF r.st = "SUCCESS" THEN c.capacity - n ELSE 0
  <1> DEFINE r == wolfpsa_kdf_require_output(c, n)
  <1>1. c.capacity \in 0 .. SizeMax /\ IsCtx(c)
    BY DEF CtxInv, IsCtx
  <1>2. ASSUME NEW v \in 0 .. SizeMax
        PROVE  LET d == [c EXCEPT !.capacity = v] IN
               /\ CtxInv(d) /\ SameInputs(c, d) /\ d.offset = c.offset /\ d.L = c.L
               /\ d.started = c.started /\ d.cached = c.cached /\ d.cache = c.cache
               /\ d.capacity = v
    <2> DEFINE d == [c EXCEPT !.capacity = v]
    <2>1. /\ d.alg = c.alg /\ d.agreement = c.agreement /\ d.offset = c.offset
          /\ d.steps = c.steps /\ d.input = c.input /\ d.L = c.L
          /\ d.started = c.started /\ d.can_output_key = c.can_output_key
          /\ d.error = c.error /\ d.cached = c.cached /\ d.cache = c.cache
          /\ d.capacity = v
      BY <1>1 DEF IsCtx
    <2>2. IsCtx(d)
      BY <1>1 DEF IsCtx
    <2> HIDE DEF d
    <2>3. \A k \in Nat : Stream(d, k) = Stream(c, k)
      BY <2>1, SameStream DEF StreamL
    <2>4. Used(d) = Used(c)
      BY <2>1 DEF Used
    <2>5. CtxInv(d)
      BY <2>1, <2>2, <2>3, <2>4 DEF CtxInv
    <2>6. QED
      BY <2>1, <2>5 DEF SameInputs, d
  <1>3. CASE c.capacity = Unlimited
    <2>1. r = Result("SUCCESS", c)
      BY <1>3 DEF wolfpsa_kdf_require_output
    <2>2. /\ IsResult(r) /\ r.c = c /\ r.bytes = <<>> /\ r.st = "SUCCESS"
      BY <2>1 DEF Result, IsResult
    <2> QED
      BY <2>2, <1>3 DEF SameInputs
  <1>4. CASE c.capacity # Unlimited /\ c.capacity < n
    <2> DEFINE d == [c EXCEPT !.capacity = 0]
    <2>1. r = Result("INSUFFICIENT_DATA", d)
      BY <1>4 DEF wolfpsa_kdf_require_output
    <2>2. IsResult(r) /\ r.c = d /\ r.bytes = <<>> /\ r.st = "INSUFFICIENT_DATA"
      BY <2>1 DEF Result, IsResult
    <2>3. 0 \in 0 .. SizeMax
      BY LengthsAssumption
    <2>4. /\ CtxInv(d) /\ SameInputs(c, d) /\ d.offset = c.offset /\ d.L = c.L
          /\ d.started = c.started /\ d.cached = c.cached /\ d.cache = c.cache
          /\ d.capacity = 0
      BY <1>2, <2>3
    <2> HIDE DEF d, r
    <2>5. QED
      BY <1>4, <2>2, <2>4 DEF r
  <1>5. CASE c.capacity # Unlimited /\ ~(c.capacity < n)
    <2> DEFINE d == [c EXCEPT !.capacity = c.capacity - n]
    <2>1. r = Result("SUCCESS", d)
      BY <1>5 DEF wolfpsa_kdf_require_output
    <2>2. IsResult(r) /\ r.c = d /\ r.bytes = <<>> /\ r.st = "SUCCESS"
      BY <2>1 DEF Result, IsResult
    <2>3. c.capacity - n \in 0 .. SizeMax
      BY <1>1, <1>5, LengthsAssumption
    <2>4. /\ CtxInv(d) /\ SameInputs(c, d) /\ d.offset = c.offset /\ d.L = c.L
          /\ d.started = c.started /\ d.cached = c.cached /\ d.cache = c.cache
          /\ d.capacity = c.capacity - n
      BY <1>2, <2>3
    <2> HIDE DEF d, r
    <2>5. QED
      BY <1>5, <2>2, <2>4 DEF r
  <1> QED
    BY <1>3, <1>4, <1>5

(* The first output binds L; the operation is started from then on. *)
LEMMA BoundOutcome ==
    ASSUME NEW c, CtxInv(c), c.started = FALSE
    PROVE  LET d == [c EXCEPT !.L = c.capacity] IN
           /\ CtxInv(d) /\ SameInputs(c, d) /\ d.offset = c.offset
           /\ d.capacity = c.capacity /\ d.started = c.started
           /\ Stream(d, d.offset) = Stream(c, c.offset)
  <1> DEFINE d == [c EXCEPT !.L = c.capacity]
  <1>1. IsCtx(c) /\ c.offset = 0 /\ c.cached = FALSE /\ c.cache = <<>>
    BY DEF CtxInv
  <1>2. /\ d.alg = c.alg /\ d.agreement = c.agreement /\ d.offset = c.offset
        /\ d.steps = c.steps /\ d.input = c.input /\ d.L = c.capacity
        /\ d.started = c.started /\ d.can_output_key = c.can_output_key
        /\ d.error = c.error /\ d.cached = c.cached /\ d.cache = c.cache
        /\ d.capacity = c.capacity
    BY <1>1 DEF IsCtx
  <1>3. IsCtx(d)
    BY <1>1 DEF IsCtx
  <1> HIDE DEF d
  <1>4. Stream(d, 0) = <<>> /\ Stream(c, 0) = <<>>
    BY <1>1, <1>3, EmptyStream
  <1>5. Used(d) = Used(c)
    BY <1>2 DEF Used
  <1>6. CtxInv(d)
    BY <1>1, <1>2, <1>3, <1>4, <1>5 DEF CtxInv
  <1> QED
    BY <1>1, <1>2, <1>4, <1>6 DEF SameInputs, d

LEMMA StartedOutcome ==
    ASSUME NEW c, CtxInv(c)
    PROVE  LET d == [c EXCEPT !.started = TRUE] IN
           /\ CtxInv(d) /\ SameInputs(c, d) /\ d.offset = c.offset /\ d.L = c.L
           /\ d.capacity = c.capacity /\ d.started = TRUE
           /\ Stream(d, d.offset) = Stream(c, c.offset)
  <1> DEFINE d == [c EXCEPT !.started = TRUE]
  <1>1. IsCtx(c)
    BY DEF CtxInv
  <1>2. /\ d.alg = c.alg /\ d.agreement = c.agreement /\ d.offset = c.offset
        /\ d.steps = c.steps /\ d.input = c.input /\ d.L = c.L
        /\ d.started = TRUE /\ d.can_output_key = c.can_output_key
        /\ d.error = c.error /\ d.cached = c.cached /\ d.cache = c.cache
        /\ d.capacity = c.capacity
    BY <1>1 DEF IsCtx
  <1>3. IsCtx(d)
    <2> DEFINE yes == TRUE
    <2>0. d = [c EXCEPT !.started = yes]
      OBVIOUS
    <2> HIDE DEF yes, d
    <2>1. d = [alg |-> c.alg, agreement |-> c.agreement, capacity |-> c.capacity,
               offset |-> c.offset, steps |-> c.steps, input |-> c.input,
               L |-> c.L, started |-> yes,
               can_output_key |-> c.can_output_key, error |-> c.error,
               cached |-> c.cached, cache |-> c.cache]
      BY <1>1, <2>0 DEF IsCtx
    <2> QED
      BY <1>1, <1>2, <2>1, Zenon DEF IsCtx, yes
  <1> HIDE DEF d
  <1>4. \A k : Stream(d, k) = Stream(c, k)
    BY <1>2, SameStream DEF StreamL
  <1>5. Used(d) = Used(c)
    BY <1>2 DEF Used
  <1>6. CtxInv(d)
    BY <1>1, <1>2, <1>3, <1>4, <1>5 DEF CtxInv
  <1> QED
    BY <1>2, <1>4, <1>6 DEF SameInputs, d

(* What wolfpsa_kdf_output_bytes() does when it succeeds and when it fails. *)
Delivered(c, n, r) ==
    /\ IsResult(r) /\ r.st = "SUCCESS" /\ CtxInv(r.c) /\ SameInputs(c, r.c)
    /\ r.c.offset = c.offset + n
    /\ Stream(c, c.offset) \o r.bytes = Stream(r.c, r.c.offset)
    /\ c.capacity = Unlimited => r.c.capacity = Unlimited
    /\ c.capacity # Unlimited => r.c.capacity = c.capacity - n

Undelivered(c, r) ==
    /\ IsResult(r) /\ r.st \notin Exempt /\ CtxInv(r.c) /\ SameInputs(c, r.c)
    /\ r.c.offset = c.offset /\ r.bytes = <<>>
    /\ Stream(c, c.offset) = Stream(r.c, r.c.offset)
    /\ c.capacity = Unlimited => r.c.capacity = Unlimited
    /\ c.capacity # Unlimited => r.c.capacity =< c.capacity

LEMMA OutputOutcome ==
    ASSUME NEW c, CtxInv(c), NEW n \in 0 .. SizeMax,
           NEW r \in wolfpsa_kdf_output_bytes(c, n)
    PROVE  Delivered(c, n, r) \/ Undelivered(c, r)
  <1> DEFINE ready == IF IsRaw(c)
                      THEN /\ "SECRET" \in c.steps
                           /\ c.offset + n =< c.input["SECRET"]
                      ELSE Required(c.alg) \subseteq c.steps
             bound == IF c.alg = "SP800_108" /\ ~c.started
                      THEN [c EXCEPT !.L = c.capacity] ELSE c
             q     == wolfpsa_kdf_require_output(bound, n)
             begun == [q.c EXCEPT !.started = TRUE]
             total == (c.offset + n) % (SizeMax + 1)
  <1>1. /\ c.capacity \in 0 .. SizeMax /\ c.offset \in 0 .. SizeMax
        /\ c.started \in BOOLEAN /\ IsCtx(c) /\ n \in Nat /\ n >= 0
    BY LengthsAssumption DEF CtxInv, IsCtx
  <1>2. wolfpsa_kdf_output_bytes(c, n) =
           IF ~ready
           THEN {Result(IF IsRaw(c) THEN "INSUFFICIENT_DATA" ELSE "BAD_STATE", c)}
           ELSE IF q.st # "SUCCESS" THEN {q}
           ELSE IF total < c.offset THEN {Result("INVALID_ARGUMENT", begun)}
           ELSE Deliver(begun, n, total)
    BY DEF wolfpsa_kdf_output_bytes, OutputBytes
  <1> HIDE DEF ready
  <1>3. /\ CtxInv(bound) /\ SameInputs(c, bound) /\ bound.offset = c.offset
        /\ bound.capacity = c.capacity /\ bound.started = c.started
        /\ Stream(bound, bound.offset) = Stream(c, c.offset)
    <2>1. CASE c.alg = "SP800_108" /\ ~c.started
      BY <2>1, BoundOutcome, <1>1
    <2>2. CASE ~(c.alg = "SP800_108" /\ ~c.started)
      BY <2>2 DEF SameInputs
    <2> QED
      BY <2>1, <2>2
  <1> HIDE DEF bound
  <1>4. /\ IsResult(q) /\ CtxInv(q.c) /\ SameInputs(bound, q.c) /\ q.bytes = <<>>
        /\ q.c.offset = bound.offset /\ q.c.L = bound.L
        /\ q.st \in {"SUCCESS", "INSUFFICIENT_DATA"}
        /\ bound.capacity = Unlimited => q.c.capacity = Unlimited /\ q.st = "SUCCESS"
        /\ bound.capacity # Unlimited =>
              q.c.capacity = IF q.st = "SUCCESS" THEN bound.capacity - n ELSE 0
    BY <1>3, RequireOutcome
  <1> HIDE DEF q
  <1>5. /\ SameInputs(c, q.c) /\ q.c.offset = c.offset
        /\ Stream(q.c, q.c.offset) = Stream(c, c.offset)
    <2>1. SameInputs(c, q.c)
      BY <1>3, <1>4 DEF SameInputs
    <2>2. Stream(q.c, bound.offset) = Stream(bound, bound.offset)
      BY <1>4, SameStream DEF SameInputs, StreamL
    <2> QED
      BY <1>3, <1>4, <2>1, <2>2
  <1>6. /\ CtxInv(begun) /\ SameInputs(q.c, begun) /\ begun.offset = q.c.offset
        /\ begun.capacity = q.c.capacity /\ begun.started = TRUE
        /\ Stream(begun, begun.offset) = Stream(q.c, q.c.offset)
    BY <1>4, StartedOutcome
  <1> HIDE DEF begun
  <1>7. /\ SameInputs(c, begun) /\ begun.offset = c.offset
        /\ Stream(begun, begun.offset) = Stream(c, c.offset)
    <2>1. SameInputs(c, begun)
      BY <1>5, <1>6 DEF SameInputs
    <2> QED
      BY <2>1, <1>5, <1>6
  <1>8. /\ c.capacity = Unlimited => q.c.capacity = Unlimited /\ q.st = "SUCCESS"
        /\ c.capacity # Unlimited =>
              /\ q.st = "SUCCESS" => q.c.capacity = c.capacity - n
              /\ q.c.capacity =< c.capacity
    BY <1>1, <1>3, <1>4
  <1>9. \A st : st \in {"INSUFFICIENT_DATA", "BAD_STATE", "INVALID_ARGUMENT"}
                => st \notin Exempt
    BY DEF Exempt
  <1>10. CASE ~ready
    <2> DEFINE st == IF IsRaw(c) THEN "INSUFFICIENT_DATA" ELSE "BAD_STATE"
    <2>1. r = Result(st, c)
      BY <1>2, <1>10
    <2>2. st \notin Exempt
      BY <1>9
    <2> HIDE DEF st
    <2>3. Refused(c, r)
      BY <2>1, <2>2, RefusedOutcome
    <2>4. r.c = c
      BY <2>1 DEF Result
    <2> QED
      BY <1>1, <2>3, <2>4 DEF Refused, Undelivered
  <1>11. CASE ready /\ q.st # "SUCCESS"
    <2>1. r = q
      BY <1>2, <1>11
    <2>2. r.st \notin Exempt
      BY <2>1, <1>4, <1>9, <1>11
    <2> QED
      BY <2>1, <2>2, <1>4, <1>5, <1>8 DEF Undelivered
  <1>12. CASE ready /\ q.st = "SUCCESS" /\ total < c.offset
    <2>1. r = Result("INVALID_ARGUMENT", begun)
      BY <1>2, <1>12
    <2>2. Refused(begun, r)
      BY <2>1, <1>6, <1>9, RefusedOutcome
    <2>3. r.c = begun
      BY <2>1 DEF Result
    <2> QED
      BY <2>2, <2>3, <1>6, <1>7, <1>8 DEF Refused, Undelivered
  <1>13. CASE ready /\ q.st = "SUCCESS" /\ ~(total < c.offset)
    <2>1. c.offset + n =< SizeMax /\ total = c.offset + n
      BY <1>1, <1>13, NoWrap
    <2>2. r \in Deliver(begun, n, begun.offset + n)
      BY <1>2, <1>7, <1>13, <2>1
    <2>3. Served(begun, n, r) \/ Refused(begun, r)
      BY <2>1, <2>2, <1>1, <1>6, <1>7, DeliverOutcome
    <2>4. CASE Served(begun, n, r)
      <3>1. SameInputs(c, r.c) /\ r.c.offset = c.offset + n
        BY <2>4, <1>7 DEF Served, SameInputs
      <3>2. Stream(r.c, c.offset + n) = Stream(begun, c.offset + n)
        BY <2>4, SameStream DEF Served, SameInputs, StreamL
      <3>3. Stream(c, c.offset) \o r.bytes = Stream(begun, c.offset + n)
        BY <2>4, <1>7 DEF Served
      <3>4. r.c.capacity = q.c.capacity
        BY <2>4, <1>6 DEF Served
      <3> QED
        BY <2>4, <3>1, <3>2, <3>3, <3>4, <1>8, <1>13 DEF Served, Delivered
    <2>5. CASE Refused(begun, r)
      <3>1. SameInputs(c, r.c) /\ r.c.offset = c.offset
        BY <2>5, <1>7 DEF Refused, SameInputs
      <3>2. Stream(r.c, c.offset) = Stream(begun, c.offset)
        BY <2>5, SameStream DEF Refused, SameInputs, StreamL
      <3>3. r.c.capacity = q.c.capacity
        BY <2>5, <1>6 DEF Refused
      <3> QED
        BY <2>5, <3>1, <3>2, <3>3, <1>7, <1>8 DEF Refused, Undelivered
    <2> QED
      BY <2>3, <2>4, <2>5
  <1> QED
    BY <1>10, <1>11, <1>12, <1>13

-----------------------------------------------------------------------------
(* Inputs. *)

(* Setting the flag that lets keys out changes nothing else. *)
LEMMA KeyFlagOutcome ==
    ASSUME NEW c, CtxInv(c), NEW b \in BOOLEAN
    PROVE  LET d == [c EXCEPT !.can_output_key = b] IN
           /\ CtxInv(d)
           /\ d.alg = c.alg /\ d.agreement = c.agreement /\ d.offset = c.offset
           /\ d.steps = c.steps /\ d.input = c.input /\ d.L = c.L
           /\ d.started = c.started /\ d.error = c.error /\ d.cached = c.cached
           /\ d.cache = c.cache /\ d.capacity = c.capacity /\ d.can_output_key = b
           /\ \A k : Stream(d, k) = Stream(c, k)
  <1> DEFINE d == [c EXCEPT !.can_output_key = b]
  <1>1. IsCtx(c)
    BY DEF CtxInv
  <1>2. ASSUME NEW v
        PROVE  [c EXCEPT !.can_output_key = v] =
              [alg |-> c.alg, agreement |-> c.agreement, offset |-> c.offset,
               steps |-> c.steps, input |-> c.input, L |-> c.L, started |->
               c.started, can_output_key |-> v, error |-> c.error, cached |->
               c.cached, cache |-> c.cache, capacity |-> c.capacity]
    BY <1>1 DEF IsCtx
  <1>3. d = [alg |-> c.alg, agreement |-> c.agreement, offset |-> c.offset,
               steps |-> c.steps, input |-> c.input, L |-> c.L, started |->
               c.started, can_output_key |-> b, error |-> c.error, cached |->
               c.cached, cache |-> c.cache, capacity |-> c.capacity]
    BY <1>2, Zenon
  <1>4. /\ d.alg = c.alg /\ d.agreement = c.agreement /\ d.offset = c.offset
        /\ d.steps = c.steps /\ d.input = c.input /\ d.L = c.L
        /\ d.started = c.started /\ d.error = c.error /\ d.cached = c.cached
        /\ d.cache = c.cache /\ d.capacity = c.capacity /\ d.can_output_key = b
    BY <1>3, Zenon
  <1> HIDE DEF d
  <1>5. IsCtx(d)
    BY <1>1, <1>3, <1>4, Zenon DEF IsCtx
  <1>6. \A k : Stream(d, k) = Stream(c, k)
    BY <1>4, SameStream DEF StreamL
  <1>7. Used(d) = Used(c)
    BY <1>4 DEF Used
  <1>8. CtxInv(d)
    BY <1>4, <1>5, <1>6, <1>7 DEF CtxInv
  <1> QED
    BY <1>4, <1>6, <1>8 DEF d

(* Poisoning an operation changes nothing else. *)
LEMMA PoisonOutcome ==
    ASSUME NEW c, CtxInv(c), NEW b \in BOOLEAN
    PROVE  LET d == [c EXCEPT !.error = b] IN
           /\ CtxInv(d)
           /\ d.alg = c.alg /\ d.agreement = c.agreement /\ d.offset = c.offset
           /\ d.steps = c.steps /\ d.input = c.input /\ d.L = c.L
           /\ d.started = c.started /\ d.can_output_key = c.can_output_key /\ d.cached = c.cached
           /\ d.cache = c.cache /\ d.capacity = c.capacity /\ d.error = b
           /\ \A k : Stream(d, k) = Stream(c, k)
  <1> DEFINE d == [c EXCEPT !.error = b]
  <1>1. IsCtx(c)
    BY DEF CtxInv
  <1>2. ASSUME NEW v
        PROVE  [c EXCEPT !.error = v] =
              [alg |-> c.alg, agreement |-> c.agreement, offset |-> c.offset,
               steps |-> c.steps, input |-> c.input, L |-> c.L, started |->
               c.started, can_output_key |-> c.can_output_key, error |-> v,
               cached |-> c.cached, cache |-> c.cache, capacity |-> c.capacity]
    BY <1>1 DEF IsCtx
  <1>3. d = [alg |-> c.alg, agreement |-> c.agreement, offset |-> c.offset,
               steps |-> c.steps, input |-> c.input, L |-> c.L, started |->
               c.started, can_output_key |-> c.can_output_key, error |-> b,
               cached |-> c.cached, cache |-> c.cache, capacity |-> c.capacity]
    BY <1>2, Zenon
  <1>4. /\ d.alg = c.alg /\ d.agreement = c.agreement /\ d.offset = c.offset
        /\ d.steps = c.steps /\ d.input = c.input /\ d.L = c.L
        /\ d.started = c.started /\ d.can_output_key = c.can_output_key /\ d.cached = c.cached
        /\ d.cache = c.cache /\ d.capacity = c.capacity /\ d.error = b
    BY <1>3, Zenon
  <1> HIDE DEF d
  <1>5. IsCtx(d)
    BY <1>1, <1>3, <1>4, Zenon DEF IsCtx
  <1>6. \A k : Stream(d, k) = Stream(c, k)
    BY <1>4, SameStream DEF StreamL
  <1>7. Used(d) = Used(c)
    BY <1>4 DEF Used
  <1>8. CtxInv(d)
    BY <1>4, <1>5, <1>6, <1>7 DEF CtxInv
  <1> QED
    BY <1>4, <1>6, <1>8 DEF d

(* The step s may still be given: the backend reads it, and a secret or a     *)
(* password is given once.                                                  *)
Open(c, s) ==
    c.started = FALSE /\ s \in Used(c) /\ (s \in Keying => s \notin c.steps)

(* What taking the input s does, and what refusing it leaves. *)
Taken(c, s, r) ==
    /\ IsResult(r) /\ r.st = "SUCCESS" /\ r.bytes = <<>> /\ CtxInv(r.c)
    /\ Open(c, s)
    /\ r.c.alg = c.alg /\ r.c.steps = c.steps \union {s} /\ r.c.offset = c.offset
    /\ r.c.capacity = c.capacity /\ r.c.error = c.error

NotTaken(c, r) ==
    /\ IsResult(r) /\ r.st # "SUCCESS" /\ r.bytes = <<>> /\ r.c = c

SameKeyFlag(c, r) == r.c.can_output_key = c.can_output_key

(* An input that is accepted is one the backend reads, given once. *)
LEMMA ValidStep ==
    ASSUME NEW c, CtxInv(c), NEW s \in Steps, NEW n,
           wolfpsa_kdf_validate_step(c, s, n) = "SUCCESS"
    PROVE  Open(c, s)
  <1>1. /\ ~(~(~c.started) \/ (s \in c.steps /\ ~Multipart(c, s)))
        /\ s \in Accepted(c.alg)
    BY DEF wolfpsa_kdf_validate_step, Verdict
  <1>2. c.started \in BOOLEAN /\ c.alg \in Algs
    BY DEF CtxInv, IsCtx
  <1>3. c.started = FALSE
    BY <1>1, <1>2
  <1>4. s \in Used(c)
    BY <1>1, <1>2 DEF Accepted, Used, Algs
  <1>5. s \in Keying => s \notin c.steps
    BY <1>1 DEF Multipart, Keying
  <1> QED
    BY <1>3, <1>4, <1>5 DEF Open

(* A context with other inputs is the same in every other field. *)
LEMMA NewInput ==
    ASSUME NEW c, IsCtx(c), NEW f
    PROVE  [c EXCEPT !.input = f] =
           [alg |-> c.alg, agreement |-> c.agreement, capacity |-> c.capacity,
            offset |-> c.offset, steps |-> c.steps, input |-> f, L |-> c.L,
            started |-> c.started, can_output_key |-> c.can_output_key,
            error |-> c.error, cached |-> c.cached, cache |-> c.cache]
  BY DEF IsCtx

WithInput(c, s, f) == [c EXCEPT !.input = f, !.steps = c.steps \union {s}]

LEMMA AppendOutcome ==
    ASSUME NEW c, CtxInv(c), NEW s \in Steps, NEW f \in [Steps -> Nat],
           Open(c, s)
    PROVE  /\ Taken(c, s, Result("SUCCESS", WithInput(c, s, f)))
           /\ SameKeyFlag(c, Result("SUCCESS", WithInput(c, s, f)))
  <1> DEFINE d == WithInput(c, s, f)
  <1>1. /\ IsCtx(c) /\ c.offset = 0 /\ c.cached = FALSE /\ c.cache = <<>>
        /\ s \in Used(c)
    BY DEF CtxInv, Open
  <1>2. /\ d.alg = c.alg /\ d.agreement = c.agreement /\ d.offset = c.offset
        /\ d.steps = c.steps \union {s} /\ d.input = f /\ d.L = c.L
        /\ d.started = c.started /\ d.can_output_key = c.can_output_key
        /\ d.error = c.error /\ d.cached = c.cached /\ d.cache = c.cache
        /\ d.capacity = c.capacity
    BY <1>1 DEF IsCtx, WithInput
  <1>3. IsCtx(d)
    <2> DEFINE e == [c EXCEPT !.input = f]
    <2>1. IsCtx(e) /\ e.steps = c.steps
      <3>1. /\ e.alg = c.alg /\ e.agreement = c.agreement /\ e.capacity = c.capacity
            /\ e.offset = c.offset /\ e.steps = c.steps /\ e.input = f /\ e.L = c.L
            /\ e.started = c.started /\ e.can_output_key = c.can_output_key
            /\ e.error = c.error /\ e.cached = c.cached /\ e.cache = c.cache
        BY <1>1 DEF IsCtx
      <3>2. e = [alg |-> c.alg, agreement |-> c.agreement, capacity |-> c.capacity,
                 offset |-> c.offset, steps |-> c.steps, input |-> f, L |-> c.L,
                 started |-> c.started, can_output_key |-> c.can_output_key,
                 error |-> c.error, cached |-> c.cached, cache |-> c.cache]
        BY <1>1, NewInput
      <3> HIDE DEF e
      <3> QED
        BY <1>1, <3>1, <3>2 DEF IsCtx
    <2>2. d = [e EXCEPT !.steps = c.steps \union {s}]
      BY DEF WithInput
    <2> HIDE DEF e
    <2>3. c.steps \union {s} \subseteq Steps
      BY <1>1 DEF IsCtx
    <2> QED
      BY <2>1, <2>2, <2>3 DEF IsCtx
  <1> HIDE DEF d
  <1>4. Stream(d, 0) = <<>>
    BY <1>3, EmptyStream
  <1>5. Used(d) = Used(c)
    BY <1>2 DEF Used
  <1>6. CtxInv(d)
    BY <1>1, <1>2, <1>3, <1>4, <1>5 DEF CtxInv
  <1> QED
    BY <1>1, <1>2, <1>6 DEF Taken, Result, IsResult, SameKeyFlag, d

LEMMA InputOutcome ==
    ASSUME NEW c, CtxInv(c), NEW s \in Steps, NEW n \in Nat,
           NEW r \in wolfpsa_kdf_input_bytes(c, s, n)
    PROVE  /\ Taken(c, s, r) \/ NotTaken(c, r)
           /\ SameKeyFlag(c, r)
  <1> DEFINE st == wolfpsa_kdf_validate_step(c, s, n)
             d == [c EXCEPT !.input[s] = @ + n, !.steps = @ \union {s}]
  <1>1. \/ st # "SUCCESS" /\ r = Result(st, c)
        \/ r = Result("INSUFFICIENT_MEMORY", c)
        \/ st = "SUCCESS" /\ r = Result("SUCCESS", d)
    BY DEF wolfpsa_kdf_input_bytes
  <1>2. CASE st # "SUCCESS" /\ r = Result(st, c)
    BY <1>2 DEF NotTaken, Result, IsResult, SameKeyFlag
  <1>3. CASE r = Result("INSUFFICIENT_MEMORY", c)
    BY <1>3 DEF NotTaken, Result, IsResult, SameKeyFlag
  <1>4. CASE st = "SUCCESS" /\ r = Result("SUCCESS", d)
    <2>1. Open(c, s)
      BY <1>4, ValidStep
    <2> DEFINE f == [c.input EXCEPT ![s] = @ + n]
    <2>2. c.input \in [Steps -> Nat]
      BY DEF CtxInv, IsCtx
    <2>3. f \in [Steps -> Nat]
      BY <2>2
    <2>4. d = WithInput(c, s, f)
      <3> DEFINE e == [c EXCEPT !.input[s] = @ + n]
      <3>1. e = [c EXCEPT !.input = f]
        BY DEF CtxInv, IsCtx
      <3>2. d = [e EXCEPT !.steps = @ \union {s}]
        OBVIOUS
      <3>3. e.steps = c.steps
        BY <3>1 DEF CtxInv, IsCtx
      <3> HIDE DEF e, f, d
      <3>4. d = [e EXCEPT !.steps = c.steps \union {s}]
        BY <3>2, <3>3, Zenon
      <3> QED
        BY <3>1, <3>4 DEF WithInput
    <2> HIDE DEF f, d
    <2>5. Taken(c, s, Result("SUCCESS", d)) /\ SameKeyFlag(c, Result("SUCCESS", d))
      BY <2>1, <2>3, <2>4, AppendOutcome
    <2> QED
      BY <2>5, <1>4, Zenon
  <1> QED
    BY <1>1, <1>2, <1>3, <1>4

LEMMA IntegerOutcome ==
    ASSUME NEW c, CtxInv(c), NEW s \in Steps, NEW range \in Ranges
    PROVE  LET r == wolfpsa_kdf_input_integer(c, s, range) IN
           /\ Taken(c, s, r) \/ NotTaken(c, r)
           /\ SameKeyFlag(c, r)
  <1> DEFINE r == wolfpsa_kdf_input_integer(c, s, range)
             d == [c EXCEPT !.input[s] = 1, !.steps = @ \union {s}]
  <1>1. \/ \E st : st # "SUCCESS" /\ r = Result(st, c)
        \/ ~c.started /\ s = "COST" /\ c.alg = "PBKDF2" /\ r = Result("SUCCESS", d)
    BY DEF wolfpsa_kdf_input_integer
  <1>2. ASSUME NEW st, st # "SUCCESS", r = Result(st, c)
        PROVE  NotTaken(c, r) /\ SameKeyFlag(c, r)
    BY <1>2 DEF NotTaken, Result, IsResult, SameKeyFlag
  <1>3. CASE ~c.started /\ s = "COST" /\ c.alg = "PBKDF2" /\ r = Result("SUCCESS", d)
    <2>1. Open(c, s)
      BY <1>3 DEF CtxInv, IsCtx, Used, Keying, Open
    <2> DEFINE f == [c.input EXCEPT ![s] = 1]
    <2>2. c.input \in [Steps -> Nat]
      BY DEF CtxInv, IsCtx
    <2>3. f \in [Steps -> Nat]
      BY <2>2
    <2>4. d = WithInput(c, s, f)
      <3> DEFINE e == [c EXCEPT !.input[s] = 1]
      <3>1. e = [c EXCEPT !.input = f]
        BY DEF CtxInv, IsCtx
      <3>2. d = [e EXCEPT !.steps = @ \union {s}]
        OBVIOUS
      <3>3. e.steps = c.steps
        BY <3>1 DEF CtxInv, IsCtx
      <3> HIDE DEF e, f, d
      <3>4. d = [e EXCEPT !.steps = c.steps \union {s}]
        BY <3>2, <3>3, Zenon
      <3> QED
        BY <3>1, <3>4 DEF WithInput
    <2> HIDE DEF f, d
    <2> QED
      BY <2>1, <2>3, <2>4, <1>3, AppendOutcome
  <1> QED
    BY <1>1, <1>2, <1>3

(* A key input sets the flag only when it is taken and permits it. *)
Flagged(r, p) == [r EXCEPT !.c.can_output_key = @ \/ (r.st = "SUCCESS" /\ p)]
FlagFrom(c, r, p) ==
    r.c.can_output_key = TRUE => c.can_output_key = TRUE \/ (r.st = "SUCCESS" /\ p)

LEMMA FlaggedOutcome ==
    ASSUME NEW c, CtxInv(c), NEW s, NEW q, Taken(c, s, q) \/ NotTaken(c, q),
           SameKeyFlag(c, q), NEW p \in BOOLEAN
    PROVE  /\ Taken(c, s, Flagged(q, p)) \/ NotTaken(c, Flagged(q, p))
           /\ FlagFrom(c, Flagged(q, p), p)
  <1> DEFINE b == q.c.can_output_key \/ (q.st = "SUCCESS" /\ p)
             d == [q.c EXCEPT !.can_output_key = b]
             r == Flagged(q, p)
  <1>1. CtxInv(q.c) /\ IsResult(q) /\ b \in BOOLEAN
    BY DEF Taken, NotTaken
  <1>2. r = [st |-> q.st, c |-> d, bytes |-> q.bytes]
    <2>1. r = [q EXCEPT !.c = d]
      BY <1>1 DEF Flagged, IsResult
    <2> HIDE DEF d
    <2> QED
      BY <2>1, <1>1 DEF IsResult
  <1>3. r.st = q.st /\ r.c = d /\ r.bytes = q.bytes /\ IsResult(r)
    BY <1>2 DEF IsResult
  <1>4. c.can_output_key \in BOOLEAN /\ q.c.can_output_key = c.can_output_key
    BY DEF CtxInv, IsCtx, SameKeyFlag
  <1> HIDE DEF b
  <1>5. /\ CtxInv(d) /\ d.alg = q.c.alg /\ d.offset = q.c.offset
        /\ d.steps = q.c.steps /\ d.error = q.c.error /\ d.capacity = q.c.capacity
        /\ d.can_output_key = b
    BY <1>1, KeyFlagOutcome
  <1>6. FlagFrom(c, r, p)
    BY <1>3, <1>4, <1>5 DEF FlagFrom, b
  <1>7. CASE Taken(c, s, q)
    <2>1. Taken(c, s, r)
      BY <1>3, <1>5, <1>7 DEF Taken
    <2> QED
      BY <2>1, <1>6
  <1>8. CASE NotTaken(c, q)
    <2>1. b = c.can_output_key
      BY <1>4, <1>8 DEF NotTaken, b
    <2>2. d = c
      <3>1. d = [c EXCEPT !.can_output_key = c.can_output_key]
        BY <2>1, <1>8 DEF NotTaken
      <3> QED
        BY <3>1 DEF CtxInv, IsCtx
    <2> HIDE DEF d, r
    <2>3. NotTaken(c, r)
      BY <2>2, <1>3, <1>8 DEF NotTaken
    <2> QED
      BY <2>3, <1>6 DEF r
  <1> QED
    BY <1>7, <1>8

LEMMA ViewLength ==
    ASSUME NEW k \in KeyViews PROVE k.len \in Nat
  <1>1. k \in [lookup : {"SUCCESS", "INVALID_HANDLE", "STORAGE_FAILURE"},
               usage : SUBSET {"DERIVE", "VERIFY"}, typeOk : BOOLEAN,
               algOk : BOOLEAN, len : InputLens]
    BY ViewsAssumption
  <1>2. k.len \in InputLens
    BY <1>1
  <1>3. InputLens \subseteq Nat
    BY LengthsAssumption
  <1> QED
    BY <1>2, <1>3

LEMMA KeyOutcome ==
    ASSUME NEW c, CtxInv(c), NEW s \in Steps, NEW k \in KeyViews,
           NEW p \in BOOLEAN, NEW r \in InputKey(c, s, k, p)
    PROVE  (Taken(c, s, r) \/ NotTaken(c, r)) /\ FlagFrom(c, r, p)
  <1>1. k.len \in Nat
    BY ViewLength
  <1>2. \/ \E st : st # "SUCCESS" /\ r = Result(st, c)
        \/ \E q \in wolfpsa_kdf_input_bytes(c, s, k.len) : r = Flagged(q, p)
    <2> DEFINE B == wolfpsa_kdf_input_bytes(c, s, k.len)
               F == {Flagged(q, p) : q \in B}
               st == wolfpsa_kdf_validate_step(c, s, k.len)
    <2>1. InputKey(c, s, k, p) =
            IF k.lookup # "SUCCESS" THEN {Result(k.lookup, c)}
            ELSE IF st # "SUCCESS" THEN {Result(st, c)}
            ELSE IF k.usage = {} THEN {Result("NOT_PERMITTED", c)}
            ELSE IF ~k.typeOk THEN {Result("INVALID_ARGUMENT", c)}
            ELSE IF ~k.algOk THEN {Result("NOT_PERMITTED", c)}
            ELSE F
      BY Zenon DEF InputKey, Flagged
    <2> HIDE DEF F, st
    <2>2. r \in F \/ \E x : x # "SUCCESS" /\ r = Result(x, c)
      BY <2>1
    <2> QED
      BY <2>2 DEF F
  <1>3. ASSUME NEW st, st # "SUCCESS", r = Result(st, c)
        PROVE  NotTaken(c, r) /\ FlagFrom(c, r, p)
    BY <1>3 DEF NotTaken, Result, IsResult, FlagFrom
  <1>4. ASSUME NEW q \in wolfpsa_kdf_input_bytes(c, s, k.len), r = Flagged(q, p)
        PROVE  (Taken(c, s, r) \/ NotTaken(c, r)) /\ FlagFrom(c, r, p)
    <2>1. (Taken(c, s, q) \/ NotTaken(c, q)) /\ SameKeyFlag(c, q)
      BY <1>1, InputOutcome
    <2> QED
      BY <2>1, <1>4, FlaggedOutcome
  <1> QED
    BY <1>2, <1>3, <1>4

LEMMA AgreementOutcome ==
    ASSUME NEW c, CtxInv(c), NEW s \in Steps, NEW k \in KeyViews,
           NEW r \in wolfpsa_kdf_key_agreement(c, s, k)
    PROVE  (Taken(c, s, r) \/ NotTaken(c, r)) /\ FlagFrom(c, r, s = "SECRET")
  <1> DEFINE p == s = "SECRET"
  <1>0. p \in BOOLEAN
    OBVIOUS
  <1>1. k.len \in Nat
    BY ViewLength
  <1>2. \/ \E st : st # "SUCCESS" /\ r = Result(st, c)
        \/ \E q \in wolfpsa_kdf_input_bytes(c, s, k.len) : r = Flagged(q, p)
    <2> DEFINE B == wolfpsa_kdf_input_bytes(c, s, k.len)
               F == {Flagged(q, p) : q \in B}
    <2>1. wolfpsa_kdf_key_agreement(c, s, k) =
            IF ~c.agreement THEN {Result("INVALID_ARGUMENT", c)}
            ELSE IF c.started THEN {Result("BAD_STATE", c)}
            ELSE IF \/ s \notin {"SECRET", "OTHER_SECRET"}
                    \/ s = "OTHER_SECRET" /\ c.alg # "PSK_TO_MS"
                 THEN {Result("INVALID_ARGUMENT", c)}
            ELSE IF k.lookup # "SUCCESS" THEN {Result(k.lookup, c)}
            ELSE IF "DERIVE" \notin k.usage THEN {Result("NOT_PERMITTED", c)}
            ELSE IF ~k.typeOk THEN {Result("INVALID_ARGUMENT", c)}
            ELSE {Result(st, c) : st \in {"NOT_SUPPORTED", "INSUFFICIENT_MEMORY",
                                          "INVALID_HANDLE", "GENERIC_ERROR"}}
                 \union IF ~k.algOk THEN {Result("NOT_PERMITTED", c)} ELSE F
      BY Zenon DEF wolfpsa_kdf_key_agreement, Flagged
    <2> HIDE DEF F
    <2>2. r \in F \/ \E x : x # "SUCCESS" /\ r = Result(x, c)
      BY <2>1
    <2> QED
      BY <2>2 DEF F
  <1> HIDE DEF p
  <1>3. ASSUME NEW st, st # "SUCCESS", r = Result(st, c)
        PROVE  NotTaken(c, r) /\ FlagFrom(c, r, p)
    BY <1>3 DEF NotTaken, Result, IsResult, FlagFrom
  <1>4. ASSUME NEW q \in wolfpsa_kdf_input_bytes(c, s, k.len), r = Flagged(q, p)
        PROVE  (Taken(c, s, r) \/ NotTaken(c, r)) /\ FlagFrom(c, r, p)
    <2>1. (Taken(c, s, q) \/ NotTaken(c, q)) /\ SameKeyFlag(c, q)
      BY <1>1, InputOutcome
    <2> QED
      BY <2>1, <1>0, <1>4, FlaggedOutcome
  <1> QED
    BY <1>2, <1>3, <1>4 DEF p

-----------------------------------------------------------------------------
(* Calls. *)

(* wolfpsa_kdf_done() poisons the operation, or changes nothing. *)
LEMMA DoneOutcome ==
    ASSUME NEW r, IsResult(r), CtxInv(r.c)
    PROVE  LET d == wolfpsa_kdf_done(r) IN
           /\ IsResult(d) /\ d.st = r.st /\ d.bytes = r.bytes /\ CtxInv(d.c)
           /\ d.c.alg = r.c.alg /\ d.c.agreement = r.c.agreement
           /\ d.c.steps = r.c.steps /\ d.c.input = r.c.input
           /\ d.c.can_output_key = r.c.can_output_key
           /\ d.c.offset = r.c.offset /\ d.c.capacity = r.c.capacity
           /\ d.c.error = (r.c.error \/ r.st \notin Exempt)
           /\ \A k : Stream(d.c, k) = Stream(r.c, k)
  <1> DEFINE b == r.c.error \/ r.st \notin Exempt
             e == [r.c EXCEPT !.error = b]
             d == wolfpsa_kdf_done(r)
  <1>1. b \in BOOLEAN
    OBVIOUS
  <1>2. d = [r EXCEPT !.c = e]
    BY DEF wolfpsa_kdf_done, IsResult
  <1> HIDE DEF b, d
  <1>3. /\ CtxInv(e) /\ e.alg = r.c.alg /\ e.agreement = r.c.agreement
        /\ e.steps = r.c.steps /\ e.input = r.c.input
        /\ e.can_output_key = r.c.can_output_key
        /\ e.offset = r.c.offset /\ e.capacity = r.c.capacity
        /\ e.error = b /\ \A k : Stream(e, k) = Stream(r.c, k)
    BY <1>1, PoisonOutcome
  <1> HIDE DEF e
  <1>4. d = [st |-> r.st, c |-> e, bytes |-> r.bytes]
    BY <1>2 DEF IsResult
  <1>5. d.st = r.st /\ d.c = e /\ d.bytes = r.bytes /\ IsResult(d)
    BY <1>4 DEF IsResult
  <1> QED
    BY <1>3, <1>5 DEF d, b

(* A call that returns a result in keeping with the history keeps Inv. *)
LEMMA ReturnKeeps ==
    ASSUME Inv, failed = FALSE, NEW r, Return(r), IsResult(r), CtxInv(r.c),
           out \o r.bytes = Stream(r.c, r.c.offset),
           Owed(r.c, promise, r.c.error = TRUE \/ r.st \notin Exempt),
           Permitted(r.c, secret'), promise' = promise, secret' \in Sources,
           derived' \subseteq KeySources
    PROVE  Inv'
  <1> DEFINE d == wolfpsa_kdf_done(r)
  <1>1. /\ CtxInv(d.c) /\ d.c.steps = r.c.steps
        /\ d.c.can_output_key = r.c.can_output_key
        /\ d.c.offset = r.c.offset /\ d.c.capacity = r.c.capacity
        /\ d.c.error = (r.c.error \/ r.st \notin Exempt)
        /\ \A k : Stream(d.c, k) = Stream(r.c, k)
    BY DoneOutcome
  <1>2. ctx' = d.c /\ out' = out \o r.bytes /\ failed' = (failed \/ r.st \notin Exempt)
    BY DEF Return
  <1> HIDE DEF d
  <1>3. CtxInv(ctx') /\ ctx' # NoCtx
    BY <1>1, <1>2, CtxNotNull
  <1>4. r.c.error \in BOOLEAN
    BY DEF CtxInv, IsCtx
  <1>5. HistoryInv'
    BY <1>2 DEF Inv, HistoryInv
  <1>6. out' = Stream(ctx', ctx'.offset)
    BY <1>1, <1>2
  <1>7. ctx'.error = TRUE <=> r.c.error = TRUE \/ r.st \notin Exempt
    BY <1>1, <1>2, <1>4
  <1>8. Owed(ctx', promise', ctx'.error = TRUE)
    BY <1>1, <1>2, <1>7 DEF Owed
  <1>9. Permitted(ctx', secret')
    BY <1>1, <1>2 DEF Permitted
  <1>10. failed' = TRUE => ctx'.error = TRUE
    BY <1>2, <1>7
  <1> QED
    BY <1>3, <1>5, <1>6, <1>8, <1>9, <1>10 DEF Inv

LEMMA LiveFacts ==
    ASSUME Inv, Live
    PROVE  /\ ctx # NoCtx /\ CtxInv(ctx) /\ ctx.error = FALSE /\ failed = FALSE
           /\ out = Stream(ctx, ctx.offset) /\ Permitted(ctx, secret)
           /\ Owed(ctx, promise, FALSE) /\ promise \in Nat /\ secret \in Sources
           /\ ctx.offset \in Nat /\ ctx.capacity \in Nat
           /\ out \in Seq(StreamBytes) /\ Len(out) = ctx.offset /\ out \o <<>> = out
  <1>1. ctx # NoCtx /\ ~ctx.error
    BY DEF Live
  <1>2. /\ CtxInv(ctx) /\ out = Stream(ctx, ctx.offset) /\ Permitted(ctx, secret)
        /\ Owed(ctx, promise, ctx.error = TRUE) /\ (failed = TRUE => ctx.error = TRUE)
        /\ promise \in Nat /\ secret \in Sources /\ failed \in BOOLEAN
    BY <1>1 DEF Inv, HistoryInv
  <1>3. ctx.error \in BOOLEAN /\ ctx.offset \in Nat /\ ctx.capacity \in Nat
    BY <1>2, LengthsAssumption DEF CtxInv, IsCtx
  <1>4. ctx.error = FALSE
    BY <1>1, <1>3, Zenon
  <1>5. failed = FALSE
    BY <1>2, <1>4, Zenon
  <1>6. Owed(ctx, promise, FALSE)
    BY <1>2, <1>4 DEF Owed
  <1>7. out \in Seq(StreamBytes) /\ Len(out) = ctx.offset
    BY <1>2, <1>3, StreamIsSeq DEF CtxInv
  <1>8. out \o <<>> = out
    BY <1>7
  <1> QED
    BY <1>1, <1>2, <1>3, <1>4, <1>5, <1>6, <1>7, <1>8

(* A call that changes nothing but the status keeps Inv, failed or not. *)
LEMMA KeptContext ==
    ASSUME Inv, Live, NEW r, Return(r), IsResult(r), r.bytes = <<>>, r.c = ctx,
           promise' = promise, secret' = secret, derived' \subseteq KeySources
    PROVE  Inv'
  <1>1. /\ CtxInv(r.c) /\ failed = FALSE /\ out \o r.bytes = Stream(r.c, r.c.offset)
        /\ Permitted(r.c, secret') /\ secret' \in Sources
        /\ Owed(r.c, promise, FALSE)
    BY LiveFacts
  <1>2. Owed(r.c, promise, r.c.error = TRUE \/ r.st \notin Exempt)
    BY <1>1 DEF Owed
  <1> QED
    BY <1>1, <1>2, ReturnKeeps

(* Calls that give the operation an input. *)
LEMMA InputKeeps ==
    ASSUME Inv, Live, NEW s \in Steps, NEW where \in Sources, NEW p \in BOOLEAN,
           NEW r, Taken(ctx, s, r) \/ NotTaken(ctx, r), FlagFrom(ctx, r, p),
           p = TRUE => s \in Keying /\ where \in KeySources,
           Return(r), From(r, s, where), promise' = promise, derived' = derived
    PROVE  Inv'
  <1>0. derived' \subseteq KeySources
    BY DEF Inv, HistoryInv
  <1>1. CASE NotTaken(ctx, r)
    <2>1. secret' = secret
      BY <1>1 DEF NotTaken, From
    <2> QED
      BY <2>1, <1>0, <1>1, KeptContext DEF NotTaken
  <1>2. CASE Taken(ctx, s, r)
    <2>1. secret' = IF s \in Keying THEN where ELSE secret
      BY <1>2 DEF Taken, From, Keying
    <2>2. /\ CtxInv(r.c) /\ IsResult(r) /\ r.bytes = <<>> /\ r.st = "SUCCESS"
          /\ r.c.steps = ctx.steps \union {s} /\ r.c.offset = ctx.offset
          /\ r.c.capacity = ctx.capacity /\ Open(ctx, s)
      BY <1>2 DEF Taken
    <2>3. out \o r.bytes = Stream(r.c, r.c.offset)
      <3>1. ctx.offset = 0
        BY <2>2, LiveFacts DEF Open, CtxInv
      <3>2. out = <<>>
        BY <3>1, LiveFacts, EmptyStream DEF CtxInv
      <3>3. Stream(r.c, 0) = <<>>
        BY <2>2, EmptyStream DEF CtxInv
      <3> QED
        BY <2>2, <3>1, <3>2, <3>3, LiveFacts
    <2>4. Owed(r.c, promise, r.c.error = TRUE \/ r.st \notin Exempt)
      BY <2>2, LiveFacts DEF Owed
    <2>5. Permitted(r.c, secret')
      <3> SUFFICES ASSUME r.c.can_output_key = TRUE
                   PROVE  secret' \in KeySources /\ r.c.steps \cap Keying # {}
        BY DEF Permitted
      <3>1. CASE p = TRUE
        BY <3>1, <2>1, <2>2
      <3>2. CASE ctx.can_output_key = TRUE
        <4>1. secret \in KeySources /\ ctx.steps \cap Keying # {}
          BY <3>2, LiveFacts DEF Permitted
        <4>2. s \notin Keying
          <5>1. ctx.steps \subseteq Used(ctx) /\ ctx.alg \in Algs
            BY LiveFacts DEF CtxInv, IsCtx
          <5>2. ~("SECRET" \in Used(ctx) /\ "PASSWORD" \in Used(ctx))
            BY <5>1 DEF Used, Algs
          <5> QED
            BY <4>1, <5>1, <5>2, <2>2 DEF Open, Keying
        <4> QED
          BY <4>1, <4>2, <2>1, <2>2
      <3> QED
        BY <3>1, <3>2 DEF FlagFrom
    <2>6. secret' \in Sources /\ failed = FALSE
      BY <2>1, LiveFacts
    <2> QED
      BY <2>2, <2>3, <2>4, <2>5, <2>6, <1>0, ReturnKeeps
  <1> QED
    BY <1>1, <1>2

(* What the calls that deliver bytes make of the result o of                *)
(* wolfpsa_kdf_output_bytes(): a status of their own, an error that stays.  *)
After(o, r) ==
    /\ IsResult(r) /\ r.bytes = o.bytes /\ CtxInv(r.c)
    /\ r.c.steps = o.c.steps /\ r.c.can_output_key = o.c.can_output_key
    /\ r.c.offset = o.c.offset /\ r.c.capacity = o.c.capacity
    /\ \A k : Stream(r.c, k) = Stream(o.c, k)
    /\ o.st \notin Exempt => r.c.error = TRUE \/ r.st \notin Exempt

LEMMA AfterDone ==
    ASSUME NEW o, NEW r, After(o, r)
    PROVE  After(o, wolfpsa_kdf_done(r))
  <1> DEFINE d == wolfpsa_kdf_done(r)
  <1>1. /\ IsResult(d) /\ d.st = r.st /\ d.bytes = r.bytes /\ CtxInv(d.c)
        /\ d.c.steps = r.c.steps
        /\ d.c.can_output_key = r.c.can_output_key
        /\ d.c.offset = r.c.offset /\ d.c.capacity = r.c.capacity
        /\ d.c.error = (r.c.error \/ r.st \notin Exempt)
        /\ \A k : Stream(d.c, k) = Stream(r.c, k)
    BY DoneOutcome DEF After
  <1> HIDE DEF d
  <1>2. o.st \notin Exempt => d.c.error = TRUE \/ d.st \notin Exempt
    BY <1>1 DEF After
  <1> QED
    BY <1>1, <1>2 DEF After, d

(* A call that changes the status does so after wolfpsa_kdf_done().         *)
LEMMA AfterStatus ==
    ASSUME NEW o, IsResult(o), CtxInv(o.c), NEW st
    PROVE  /\ After(o, [wolfpsa_kdf_done(o) EXCEPT !.st = st])
           /\ [wolfpsa_kdf_done(o) EXCEPT !.st = st].st = st
  <1> DEFINE d == wolfpsa_kdf_done(o)
             r == [d EXCEPT !.st = st]
  <1>1. /\ IsResult(d) /\ d.bytes = o.bytes /\ CtxInv(d.c)
        /\ d.c.steps = o.c.steps
        /\ d.c.can_output_key = o.c.can_output_key
        /\ d.c.offset = o.c.offset /\ d.c.capacity = o.c.capacity
        /\ d.c.error = (o.c.error \/ o.st \notin Exempt)
        /\ \A k : Stream(d.c, k) = Stream(o.c, k)
    BY DoneOutcome
  <1> HIDE DEF d
  <1>2. r = [st |-> st, c |-> d.c, bytes |-> d.bytes]
    BY <1>1 DEF IsResult
  <1> HIDE DEF r
  <1>3. r.st = st /\ r.c = d.c /\ r.bytes = d.bytes /\ IsResult(r)
    BY <1>2 DEF IsResult
  <1>4. o.st \notin Exempt => r.c.error = TRUE \/ r.st \notin Exempt
    BY <1>1, <1>3
  <1>5. After(o, r)
    BY <1>1, <1>3, <1>4 DEF After
  <1> QED
    BY <1>3, <1>5 DEF r, d

LEMMA OutputKeeps ==
    ASSUME Inv, Live, NEW n \in 0 .. SizeMax,
           NEW o \in wolfpsa_kdf_output_bytes(ctx, n), NEW r, After(o, r), Return(r),
           promise' = promise, secret' = secret, derived' \subseteq KeySources
    PROVE  Inv'
  <1>1. /\ CtxInv(ctx) /\ failed = FALSE /\ out = Stream(ctx, ctx.offset)
        /\ Permitted(ctx, secret) /\ Owed(ctx, promise, FALSE) /\ secret \in Sources
        /\ ctx.offset \in Nat /\ ctx.capacity \in Nat /\ out \o <<>> = out
        /\ promise \in Nat
    BY LiveFacts
  <1>2. Delivered(ctx, n, o) \/ Undelivered(ctx, o)
    BY <1>1, OutputOutcome
  <1>3. o.c.steps = ctx.steps /\ o.c.can_output_key = ctx.can_output_key
    BY <1>2 DEF Delivered, Undelivered, SameInputs
  <1>4. Permitted(r.c, secret')
    BY <1>1, <1>3 DEF Permitted, After
  <1>5. out \o r.bytes = Stream(r.c, r.c.offset)
    <2>1. out \o o.bytes = Stream(o.c, o.c.offset)
      BY <1>1, <1>2 DEF Delivered, Undelivered
    <2> QED
      BY <2>1 DEF After
  <1>6. Owed(r.c, promise, r.c.error = TRUE \/ r.st \notin Exempt)
    <2>1. CASE Delivered(ctx, n, o)
      <3>1. o.c.capacity = Unlimited \/ o.c.offset + o.c.capacity = promise
        BY <2>1, <1>1 DEF Delivered, Owed
      <3> QED
        BY <3>1 DEF Owed, After
    <2>2. CASE Undelivered(ctx, o)
      <3>1. o.c.capacity \in Nat
        BY <2>2, LengthsAssumption DEF Undelivered, CtxInv, IsCtx
      <3>2. o.c.capacity = Unlimited \/ o.c.offset + o.c.capacity =< promise
        BY <2>2, <3>1, <1>1 DEF Undelivered, Owed
      <3>3. r.c.error = TRUE \/ r.st \notin Exempt
        BY <2>2 DEF Undelivered, After
      <3> QED
        BY <3>2, <3>3 DEF Owed, After
    <2> QED
      BY <1>2, <2>1, <2>2
  <1> QED
    BY <1>1, <1>4, <1>5, <1>6, ReturnKeeps DEF After

LEMMA ResultShape ==
    ASSUME NEW st, NEW c
    PROVE  /\ IsResult(Result(st, c)) /\ Result(st, c).bytes = <<>>
           /\ Result(st, c).c = c /\ Result(st, c).st = st
  BY DEF IsResult, Result

(* The results of a verification are those of an output, or nothing came.   *)
LEMMA VerifiedOutcome ==
    ASSUME NEW c, CtxInv(c), NEW n \in 0 .. SizeMax, NEW match,
           NEW v \in Verified(c, n, match)
    PROVE  \/ \E o \in wolfpsa_kdf_output_bytes(c, n) : After(o, v)
           \/ v = Result("INSUFFICIENT_MEMORY", c)
  <1>1. \/ v = Result("INSUFFICIENT_MEMORY", c)
        \/ \E o \in wolfpsa_kdf_output_bytes(c, n) : \E st :
              v = [wolfpsa_kdf_done(o) EXCEPT !.st = st]
    BY DEF Verified
  <1>2. ASSUME NEW o \in wolfpsa_kdf_output_bytes(c, n), NEW st,
               v = [wolfpsa_kdf_done(o) EXCEPT !.st = st]
        PROVE  After(o, v)
    <2>1. IsResult(o) /\ CtxInv(o.c)
      BY OutputOutcome DEF Delivered, Undelivered
    <2> QED
      BY <2>1, <1>2, AfterStatus
  <1> QED
    BY <1>1, <1>2

-----------------------------------------------------------------------------
(* The invariant. *)

(* Each default capacity is a size. *)
LEMMA DefaultFits ==
    ASSUME NEW alg \in Algs
    PROVE  DefaultCapacity(alg) \in 0 .. SizeMax
  <1>1. SizeMax \in Nat /\ Sp800Max \in 0 .. SizeMax
    BY LengthsAssumption, LimitsAssumption
  <1>2. MaxBlocks * HashLen \in 0 .. SizeMax /\ HashLen \in 0 .. SizeMax
    <2>1. HashLen \in Nat /\ HashLen > 0 /\ MaxBlocks \in Nat /\ MaxBlocks > 0
          /\ MaxBlocks * HashLen < SizeMax
      BY LimitsAssumption
    <2>2. MaxBlocks * HashLen \in Nat /\ MaxBlocks * HashLen >= HashLen
      BY <2>1
    <2> QED
      BY <1>1, <2>1, <2>2
  <1> QED
    BY <1>1, <1>2 DEF DefaultCapacity, Algs, Unlimited

LEMMA NewOutcome ==
    ASSUME NEW p \in Setups
    PROVE  LET c == NewCtx(p[1], p[2]) IN
           /\ CtxInv(c) /\ c.offset = 0 /\ c.capacity = DefaultCapacity(p[1])
           /\ c.can_output_key = FALSE /\ c.error = FALSE
  <1> DEFINE c == NewCtx(p[1], p[2])
  <1>1. p[1] \in Algs /\ p[2] \in BOOLEAN
    BY SetupsAssumption
  <1>2. DefaultCapacity(p[1]) \in 0 .. SizeMax
    BY <1>1, DefaultFits
  <1>3. /\ c.alg = p[1] /\ c.agreement = p[2] /\ c.capacity = DefaultCapacity(p[1])
        /\ c.offset = 0 /\ c.steps = {} /\ c.input = [s \in Steps |-> 0] /\ c.L = 0
        /\ c.started = FALSE /\ c.can_output_key = FALSE /\ c.error = FALSE
        /\ c.cached = FALSE /\ c.cache = <<>>
    BY DEF NewCtx
  <1>4. c = [alg |-> c.alg, agreement |-> c.agreement, capacity |-> c.capacity,
            offset |-> c.offset, steps |-> c.steps, input |-> c.input, L |-> c.L,
            started |-> c.started, can_output_key |-> c.can_output_key,
            error |-> c.error, cached |-> c.cached, cache |-> c.cache]
    BY Zenon DEF NewCtx
  <1> HIDE DEF c
  <1>5. [s \in Steps |-> 0] \in [Steps -> Nat] /\ 0 \in 0 .. SizeMax
    BY LengthsAssumption
  <1>6. IsCtx(c)
    BY <1>1, <1>2, <1>3, <1>4, <1>5, Zenon DEF IsCtx
  <1>7. Stream(c, 0) = <<>>
    BY <1>6, EmptyStream
  <1>8. CtxInv(c)
    BY <1>3, <1>6, <1>7 DEF CtxInv
  <1> QED
    BY <1>3, <1>8 DEF c

LEMMA InvInit == Init => Inv
  <1> SUFFICES ASSUME Init PROVE Inv
    OBVIOUS
  <1>1. promise \in Nat
    BY DEF Init
  <1> QED
    BY <1>1, Zenon DEF Init, Inv, HistoryInv, Sources

LEMMA SetupKeeps ==
    ASSUME Inv, NEW p \in Setups, psa_key_derivation_setup(p)
    PROVE  Inv'
  <1>1. CASE ctx' = ctx /\ promise' = promise
    BY <1>1 DEF psa_key_derivation_setup, Inv, HistoryInv
  <1>2. CASE ctx = NoCtx /\ ctx' = NewCtx(p[1], p[2]) /\ promise' = DefaultCapacity(p[1])
    <2>1. out = <<>> /\ failed = FALSE /\ HistoryInv
      BY <1>2 DEF Inv
    <2>2. out' = out /\ secret' = secret /\ failed' = failed /\ derived' = derived
      BY DEF psa_key_derivation_setup
    <2>3. /\ CtxInv(ctx') /\ ctx'.offset = 0 /\ ctx'.capacity = DefaultCapacity(p[1])
          /\ ctx'.can_output_key = FALSE /\ ctx'.error = FALSE
      BY <1>2, NewOutcome
    <2>4. DefaultCapacity(p[1]) \in Nat
      BY SetupsAssumption, DefaultFits, LengthsAssumption
    <2>5. Stream(ctx', 0) = <<>>
      BY <2>3, EmptyStream DEF CtxInv
    <2>6. Owed(ctx', promise', ctx'.error = TRUE)
      BY <1>2, <2>3, <2>4 DEF Owed
    <2>7. Permitted(ctx', secret')
      BY <2>3 DEF Permitted
    <2>8. HistoryInv'
      BY <1>2, <2>1, <2>2, <2>4 DEF HistoryInv
    <2>9. ctx' # NoCtx
      BY <2>3, CtxNotNull
    <2> QED
      BY <2>1, <2>2, <2>3, <2>5, <2>6, <2>7, <2>8, <2>9 DEF Inv
  <1> QED
    BY <1>1, <1>2 DEF psa_key_derivation_setup

LEMMA SetCapacityKeeps ==
    ASSUME Inv, NEW n \in Capacities, psa_key_derivation_set_capacity(n)
    PROVE  Inv'
  <1>0. Live /\ n \in 0 .. SizeMax
    BY LengthsAssumption DEF psa_key_derivation_set_capacity
  <1>1. out' = out /\ secret' = secret /\ failed' = failed /\ derived' = derived
    BY DEF psa_key_derivation_set_capacity
  <1>2. CASE ctx' = ctx /\ promise' = promise
    BY <1>1, <1>2 DEF Inv, HistoryInv
  <1>3. CASE /\ n =< ctx.capacity /\ ctx' = [ctx EXCEPT !.capacity = n]
             /\ promise' = IF n = Unlimited THEN promise ELSE Len(out) + n
    <2>1. /\ CtxInv(ctx) /\ failed = FALSE /\ out = Stream(ctx, ctx.offset)
          /\ Permitted(ctx, secret) /\ ctx.offset \in Nat /\ Len(out) = ctx.offset
          /\ HistoryInv
      BY <1>0, LiveFacts DEF Inv
    <2>2. /\ ctx'.alg = ctx.alg /\ ctx'.agreement = ctx.agreement
          /\ ctx'.steps = ctx.steps /\ ctx'.input = ctx.input /\ ctx'.L = ctx.L
          /\ ctx'.started = ctx.started /\ ctx'.can_output_key = ctx.can_output_key
          /\ ctx'.error = ctx.error /\ ctx'.cached = ctx.cached
          /\ ctx'.cache = ctx.cache /\ ctx'.offset = ctx.offset /\ ctx'.capacity = n
      BY <2>1, <1>3 DEF CtxInv, IsCtx
    <2>3. IsCtx(ctx')
      <3>1. IsCtx(ctx) /\ ctx' = [ctx EXCEPT !.capacity = n]
        BY <2>1, <1>3 DEF CtxInv
      <3> QED
        BY <3>1, <1>0 DEF IsCtx
    <2>4. \A k : Stream(ctx', k) = Stream(ctx, k)
      BY <2>2, SameStream DEF StreamL
    <2>5. Used(ctx') = Used(ctx)
      BY <2>2 DEF Used
    <2>6. CtxInv(ctx')
      BY <2>1, <2>2, <2>3, <2>4, <2>5 DEF CtxInv
    <2>7. Owed(ctx', promise', ctx'.error = TRUE)
      BY <1>0, <1>3, <2>1, <2>2 DEF Owed
    <2>8. Permitted(ctx', secret')
      BY <1>1, <2>1, <2>2 DEF Permitted
    <2>9. HistoryInv'
      BY <1>0, <1>1, <1>3, <2>1, LengthsAssumption DEF HistoryInv
    <2>10. out' = Stream(ctx', ctx'.offset)
      BY <1>1, <2>1, <2>2, <2>4
    <2>11. ctx' # NoCtx
      BY <2>6, CtxNotNull
    <2> QED
      BY <1>1, <2>1, <2>6, <2>7, <2>8, <2>9, <2>10, <2>11 DEF Inv
  <1> QED
    BY <1>2, <1>3 DEF psa_key_derivation_set_capacity

LEMMA OutputKeyKeeps ==
    ASSUME Inv, NEW n \in OutputLens, NEW structured, NEW imported,
           psa_key_derivation_output_key(n, structured, imported)
    PROVE  Inv'
  <1>1. /\ Live /\ n \in 0 .. SizeMax /\ promise' = promise /\ secret' = secret
        /\ derived \subseteq KeySources
    BY LengthsAssumption DEF psa_key_derivation_output_key, Inv, HistoryInv
  <1>2. ASSUME NEW st, Return(Result(st, ctx)), derived' = derived
        PROVE  Inv'
    BY <1>1, <1>2, ResultShape, KeptContext
  <1>3. ASSUME ctx.can_output_key, NEW o \in wolfpsa_kdf_output_bytes(ctx, n), NEW st,
               Return([wolfpsa_kdf_done(o) EXCEPT !.st = st]),
               derived' = IF st = "SUCCESS" THEN derived \union {secret} ELSE derived
        PROVE  Inv'
    <2>1. CtxInv(ctx) /\ Permitted(ctx, secret)
      BY <1>1, LiveFacts
    <2>2. ctx.can_output_key = TRUE
      BY <1>3, <2>1 DEF CtxInv, IsCtx
    <2>3. derived' \subseteq KeySources
      BY <1>1, <1>3, <2>1, <2>2 DEF Permitted
    <2>4. IsResult(o) /\ CtxInv(o.c)
      BY <1>1, <2>1, OutputOutcome DEF Delivered, Undelivered
    <2> DEFINE r == [wolfpsa_kdf_done(o) EXCEPT !.st = st]
    <2>5. After(o, r) /\ Return(r)
      BY <1>3, <2>4, AfterStatus
    <2> HIDE DEF r
    <2> QED
      BY <1>1, <2>3, <2>5, OutputKeeps
  <1>4. \/ \E st : Return(Result(st, ctx)) /\ derived' = derived
        \/ /\ ctx.can_output_key
           /\ \E o \in wolfpsa_kdf_output_bytes(ctx, n) : \E st :
                /\ Return([wolfpsa_kdf_done(o) EXCEPT !.st = st])
                /\ derived' = IF st = "SUCCESS" THEN derived \union {secret}
                              ELSE derived
    <2>1. \/ Return(Result("INSUFFICIENT_MEMORY", ctx)) /\ derived' = derived
          \/ /\ ctx.can_output_key
             /\ \E o \in wolfpsa_kdf_output_bytes(ctx, n) :
                   LET st == IF o.st = "SUCCESS" THEN imported ELSE o.st IN
                   /\ Return([wolfpsa_kdf_done(o) EXCEPT !.st = st])
                   /\ derived' = IF st = "SUCCESS" THEN derived \union {secret}
                                 ELSE derived
          \/ Return(Result("INVALID_ARGUMENT", ctx)) /\ derived' = derived
          \/ Return(Result("NOT_PERMITTED", ctx)) /\ derived' = derived
      BY ZenonT(30) DEF psa_key_derivation_output_key
    <2>2. CASE /\ ctx.can_output_key
               /\ \E o \in wolfpsa_kdf_output_bytes(ctx, n) :
                   LET st == IF o.st = "SUCCESS" THEN imported ELSE o.st IN
                   /\ Return([wolfpsa_kdf_done(o) EXCEPT !.st = st])
                   /\ derived' = IF st = "SUCCESS" THEN derived \union {secret}
                                 ELSE derived
      <3>1. PICK o \in wolfpsa_kdf_output_bytes(ctx, n) :
                   LET st == IF o.st = "SUCCESS" THEN imported ELSE o.st IN
                   /\ Return([wolfpsa_kdf_done(o) EXCEPT !.st = st])
                   /\ derived' = IF st = "SUCCESS" THEN derived \union {secret}
                                 ELSE derived
        BY <2>2, Zenon
      <3> DEFINE x == IF o.st = "SUCCESS" THEN imported ELSE o.st
      <3>2. /\ Return([wolfpsa_kdf_done(o) EXCEPT !.st = x])
            /\ derived' = IF x = "SUCCESS" THEN derived \union {secret} ELSE derived
        BY <3>1, Zenon
      <3> HIDE DEF x
      <3> QED
        BY <2>2, <3>2, Zenon
    <2> QED
      BY <2>1, <2>2, Zenon
  <1> QED
    BY <1>2, <1>3, <1>4, Zenon

LEMMA VerifyKeeps ==
    ASSUME Inv, Live, NEW n \in OutputLens, NEW match, NEW v \in Verified(ctx, n, match),
           NEW r, r = v \/ r = wolfpsa_kdf_done(v), Return(r),
           promise' = promise, secret' = secret, derived' = derived
    PROVE  Inv'
  <1>1. n \in 0 .. SizeMax /\ derived' \subseteq KeySources /\ CtxInv(ctx)
    BY LengthsAssumption, LiveFacts DEF Inv, HistoryInv
  <1>2. CASE \E o \in wolfpsa_kdf_output_bytes(ctx, n) : After(o, v)
    <2>1. PICK o \in wolfpsa_kdf_output_bytes(ctx, n) : After(o, v)
      BY <1>2
    <2>2. After(o, r)
      BY <2>1, AfterDone
    <2> QED
      BY <2>2, <1>1, OutputKeeps
  <1>3. CASE v = Result("INSUFFICIENT_MEMORY", ctx)
    <2>1. IsResult(v) /\ v.c = ctx /\ v.bytes = <<>> /\ v.st \notin Exempt
      BY <1>3, ResultShape DEF Exempt
    <2>2. CASE r = v
      BY <2>1, <2>2, <1>1, KeptContext
    <2>3. CASE r = wolfpsa_kdf_done(v)
      <3>1. /\ IsResult(r) /\ r.st = v.st /\ r.bytes = v.bytes /\ CtxInv(r.c)
            /\ r.c.steps = ctx.steps /\ r.c.can_output_key = ctx.can_output_key
            /\ r.c.offset = ctx.offset /\ r.c.capacity = ctx.capacity
            /\ \A k : Stream(r.c, k) = Stream(ctx, k)
        BY <2>1, <2>3, <1>1, DoneOutcome
      <3>2. /\ failed = FALSE /\ out = Stream(ctx, ctx.offset) /\ Permitted(ctx, secret)
            /\ Owed(ctx, promise, FALSE) /\ secret \in Sources /\ out \o <<>> = out
        BY LiveFacts
      <3>3. Owed(r.c, promise, r.c.error = TRUE \/ r.st \notin Exempt)
        BY <3>1, <3>2 DEF Owed
      <3>4. Permitted(r.c, secret')
        BY <3>1, <3>2 DEF Permitted
      <3>5. out \o r.bytes = Stream(r.c, r.c.offset)
        BY <2>1, <3>1, <3>2
      <3> QED
        BY <1>1, <3>1, <3>2, <3>3, <3>4, <3>5, ReturnKeeps
    <2> QED
      BY <2>2, <2>3
  <1> QED
    BY <1>1, <1>2, <1>3, VerifiedOutcome

LEMMA VerifyKeyKeeps ==
    ASSUME Inv, NEW n \in OutputLens, NEW match, NEW k \in KeyViews,
           psa_key_derivation_verify_key(n, match, k)
    PROVE  Inv'
  <1>1. /\ Live /\ promise' = promise /\ secret' = secret /\ derived' = derived
        /\ derived' \subseteq KeySources
    BY DEF psa_key_derivation_verify_key, Inv, HistoryInv
  <1>2. PICK r : /\ Return(r)
                 /\ \/ \E st : r = Result(st, ctx)
                    \/ \E v \in Verified(ctx, n, match) : r = wolfpsa_kdf_done(v)
    BY DEF psa_key_derivation_verify_key
  <1>3. CASE \E st : r = Result(st, ctx)
    BY <1>1, <1>2, <1>3, ResultShape, KeptContext
  <1>4. CASE \E v \in Verified(ctx, n, match) : r = wolfpsa_kdf_done(v)
    BY <1>1, <1>2, <1>4, VerifyKeeps
  <1> QED
    BY <1>2, <1>3, <1>4

LEMMA InvNext == Inv /\ [Next]_vars => Inv'
  <1> SUFFICES ASSUME Inv, [Next]_vars PROVE Inv'
    OBVIOUS
  <1>0. derived \subseteq KeySources
    BY DEF Inv, HistoryInv
  <1>1. ASSUME NEW p \in Setups, psa_key_derivation_setup(p) PROVE Inv'
    BY <1>1, SetupKeeps
  <1>2. CASE psa_key_derivation_abort
    <2>1. promise' \in Nat
      BY <1>2 DEF psa_key_derivation_abort
    <2> QED
      BY <1>2, <2>1, Zenon DEF psa_key_derivation_abort, Inv, HistoryInv, Sources
  <1>3. CASE Rejected
    BY <1>3 DEF Rejected, Inv, HistoryInv
  <1>4. ASSUME NEW n \in Capacities, psa_key_derivation_set_capacity(n) PROVE Inv'
    BY <1>4, SetCapacityKeeps
  <1>5. ASSUME NEW s \in Steps, NEW n \in InputLens, psa_key_derivation_input_bytes(s, n)
        PROVE  Inv'
    <2>1. PICK r \in wolfpsa_kdf_input_bytes(ctx, s, n) :
             Return(r) /\ From(r, s, "bytes")
      BY <1>5 DEF psa_key_derivation_input_bytes
    <2>2. Live /\ promise' = promise /\ derived' = derived /\ n \in Nat
      BY <1>5, LengthsAssumption DEF psa_key_derivation_input_bytes
    <2>3. (Taken(ctx, s, r) \/ NotTaken(ctx, r)) /\ SameKeyFlag(ctx, r)
      BY <2>2, LiveFacts, InputOutcome
    <2>4. FlagFrom(ctx, r, FALSE) /\ "bytes" \in Sources
      BY <2>3 DEF FlagFrom, SameKeyFlag, Sources
    <2> QED
      BY <2>1, <2>2, <2>3, <2>4, InputKeeps
  <1>6. ASSUME NEW s \in Steps, NEW range \in Ranges,
               psa_key_derivation_input_integer(s, range)
        PROVE  Inv'
    <2> DEFINE r == wolfpsa_kdf_input_integer(ctx, s, range)
    <2>1. /\ Return(r) /\ From(r, s, "bytes") /\ Live
          /\ promise' = promise /\ derived' = derived
      BY <1>6 DEF psa_key_derivation_input_integer
    <2>2. (Taken(ctx, s, r) \/ NotTaken(ctx, r)) /\ SameKeyFlag(ctx, r)
      BY <2>1, LiveFacts, IntegerOutcome
    <2> HIDE DEF r
    <2>3. FlagFrom(ctx, r, FALSE) /\ "bytes" \in Sources
      BY <2>2 DEF FlagFrom, SameKeyFlag, Sources
    <2> QED
      BY <2>1, <2>2, <2>3, InputKeeps
  <1>7. ASSUME NEW s \in Steps, NEW k \in KeyViews, psa_key_derivation_input_key(s, k)
        PROVE  Inv'
    <2> DEFINE p == "DERIVE" \in k.usage /\ s \in {"SECRET", "PASSWORD"}
               where == IF "DERIVE" \in k.usage THEN "derive_key" ELSE "verify_key"
    <2>1. PICK r \in InputKey(ctx, s, k, p) : Return(r) /\ From(r, s, where)
      BY <1>7 DEF psa_key_derivation_input_key, wolfpsa_kdf_input_key
    <2>2. Live /\ promise' = promise /\ derived' = derived
      BY <1>7 DEF psa_key_derivation_input_key
    <2>3. /\ p \in BOOLEAN /\ where \in Sources
          /\ (p = TRUE => s \in Keying /\ where \in KeySources)
      BY DEF Keying, KeySources, Sources
    <2> HIDE DEF p, where
    <2>4. (Taken(ctx, s, r) \/ NotTaken(ctx, r)) /\ FlagFrom(ctx, r, p)
      BY <2>2, <2>3, LiveFacts, KeyOutcome
    <2> QED
      BY <2>1, <2>2, <2>3, <2>4, InputKeeps
  <1>8. ASSUME NEW s \in Steps, NEW k \in KeyViews, psa_key_derivation_key_agreement(s, k)
        PROVE  Inv'
    <2> DEFINE p == s = "SECRET"
    <2>1. PICK r \in wolfpsa_kdf_key_agreement(ctx, s, k) :
             Return(r) /\ From(r, s, "agreement")
      BY <1>8 DEF psa_key_derivation_key_agreement
    <2>2. Live /\ promise' = promise /\ derived' = derived
      BY <1>8 DEF psa_key_derivation_key_agreement
    <2>3. (Taken(ctx, s, r) \/ NotTaken(ctx, r)) /\ FlagFrom(ctx, r, p)
      BY <2>2, LiveFacts, AgreementOutcome
    <2>4. /\ p \in BOOLEAN /\ "agreement" \in Sources
          /\ (p = TRUE => s \in Keying /\ "agreement" \in KeySources)
      BY DEF Keying, KeySources, Sources
    <2> HIDE DEF p
    <2> QED
      BY <2>1, <2>2, <2>3, <2>4, InputKeeps
  <1>9. ASSUME NEW n \in OutputLens, psa_key_derivation_output_bytes(n) PROVE Inv'
    <2>1. PICK r \in wolfpsa_kdf_output_bytes(ctx, n) : Return(r)
      BY <1>9 DEF psa_key_derivation_output_bytes
    <2>2. /\ Live /\ promise' = promise /\ secret' = secret /\ derived' = derived
          /\ n \in 0 .. SizeMax
      BY <1>9, LengthsAssumption DEF psa_key_derivation_output_bytes
    <2>3. IsResult(r) /\ CtxInv(r.c)
      BY <2>2, LiveFacts, OutputOutcome DEF Delivered, Undelivered
    <2>4. After(r, r)
      BY <2>3 DEF After
    <2> QED
      BY <1>0, <2>1, <2>2, <2>4, OutputKeeps
  <1>10. ASSUME NEW n \in OutputLens, NEW structured \in BOOLEAN,
                NEW imported \in {"SUCCESS", "ALREADY_EXISTS"},
                psa_key_derivation_output_key(n, structured, imported)
         PROVE  Inv'
    BY <1>10, OutputKeyKeeps
  <1>11. ASSUME NEW n \in OutputLens, NEW match \in BOOLEAN,
                psa_key_derivation_verify_bytes(n, match)
         PROVE  Inv'
    <2>1. PICK r \in Verified(ctx, n, match) : Return(r)
      BY <1>11 DEF psa_key_derivation_verify_bytes
    <2>2. Live /\ promise' = promise /\ secret' = secret /\ derived' = derived
      BY <1>11 DEF psa_key_derivation_verify_bytes
    <2> QED
      BY <2>1, <2>2, VerifyKeeps
  <1>12. ASSUME NEW n \in OutputLens, NEW match \in BOOLEAN, NEW k \in KeyViews,
                psa_key_derivation_verify_key(n, match, k)
         PROVE  Inv'
    BY <1>12, VerifyKeyKeeps
  <1>13. CASE UNCHANGED vars
    BY <1>13 DEF vars, Inv, HistoryInv
  <1> QED
    BY <1>1, <1>2, <1>3, <1>4, <1>5, <1>6, <1>7, <1>8, <1>9, <1>10, <1>11, <1>12,
       <1>13 DEF Next

LEMMA InvAlways == Spec => []Inv
  BY InvInit, InvNext, PTL DEF Spec

-----------------------------------------------------------------------------
(* Results. *)

LEMMA InvLen ==
    ASSUME Inv, ctx # NoCtx
    PROVE  /\ CtxInv(ctx) /\ IsCtx(ctx) /\ ctx.offset \in Nat /\ Len(out) = ctx.offset
           /\ Used(ctx) \subseteq Steps
           /\ \A i \in 1 .. Len(out) : out[i] =
                 [pos |-> i, L |-> StreamL(ctx),
                  from |-> [s \in Used(ctx) |-> ctx.input[s]]]
  <1>1. CtxInv(ctx) /\ IsCtx(ctx) /\ out = Stream(ctx, ctx.offset)
    BY DEF Inv, CtxInv
  <1>2. ctx.offset \in Nat
    BY <1>1, LengthsAssumption DEF IsCtx
  <1> QED
    BY <1>1, <1>2, StreamIsSeq

(* The counters of every operation stay within their types, and it delivers  *)
(* exactly the bytes its capacity promised, never more, whatever sequence   *)
(* of outputs, verifications, failures and psa_key_derivation_set_capacity()*)
(* calls is made, for every size, limit and set of keys.                    *)
THEOREM CapacityIsKept == Spec => []WithinCapacity
  <1>1. Inv => WithinCapacity
    <2> SUFFICES ASSUME Inv PROVE WithinCapacity
      OBVIOUS
    <2>1. /\ promise \in Nat /\ failed \in BOOLEAN
          /\ secret \in Sources /\ derived \subseteq Sources
      BY DEF Inv, HistoryInv, KeySources, Sources
    <2>2. CASE ctx = NoCtx
      BY <2>1, <2>2 DEF WithinCapacity, TypeOK, CapacityKept
    <2>3. CASE ctx # NoCtx
      <3>1. IsCtx(ctx) /\ Len(out) = ctx.offset
        BY <2>3, InvLen
      <3>2. TypeOK
        BY <2>1, <3>1, Zenon DEF TypeOK, IsCtx
      <3>3. Owed(ctx, promise, ctx.error = TRUE)
        BY <2>3 DEF Inv
      <3>4. CapacityKept
        BY <3>1, <3>3 DEF CapacityKept, Owed
      <3> QED
        BY <3>2, <3>4 DEF WithinCapacity
    <2> QED
      BY <2>2, <2>3
  <1> QED
    BY <1>1, InvAlways, PTL

(* However output is cut into calls, cached or recomputed, all of it is one  *)
(* stream, computed from the same inputs and the same L.                    *)
THEOREM OutputIsOneStream == Spec => []OneStream
  <1>1. Inv => OneStream
    <2> SUFFICES ASSUME Inv, NEW i \in 1 .. Len(out)
                 PROVE  /\ out[i].pos = i /\ out[i].L = out[1].L
                        /\ out[i].from = out[1].from
      BY DEF OneStream
    <2>1. CASE ctx = NoCtx
      <3>1. out = <<>>
        BY <2>1 DEF Inv
      <3> QED
        BY <3>1
    <2>2. CASE ctx # NoCtx
      <3> DEFINE F == [s \in Used(ctx) |-> ctx.input[s]]
      <3>1. \A j \in 1 .. Len(out) : out[j] = [pos |-> j, L |-> StreamL(ctx), from |-> F]
        BY <2>2, InvLen
      <3>2. Len(out) \in Nat
        BY <2>2, InvLen
      <3>3. 1 \in 1 .. Len(out)
        BY <3>2
      <3> HIDE DEF F
      <3>4. /\ out[i] = [pos |-> i, L |-> StreamL(ctx), from |-> F]
            /\ out[1] = [pos |-> 1, L |-> StreamL(ctx), from |-> F]
        BY <3>1, <3>3
      <3> QED
        BY <3>4
    <2> QED
      BY <2>1, <2>2
  <1> QED
    BY <1>1, InvAlways, PTL

(* Every input the operation accepted, with all the bytes it was given, goes *)
(* into every byte of its output: wolfpsa_kdf_validate_step() lets in no     *)
(* step the backend of the algorithm would ignore, and none after output.    *)
THEOREM EveryInputMatters == Spec => []InputsMatter
  <1>1. Inv => InputsMatter
    <2> SUFFICES ASSUME Inv, ctx # NoCtx, NEW i \in 1 .. Len(out), NEW s \in ctx.steps
                 PROVE  s \in DOMAIN out[i].from /\ out[i].from[s] = ctx.input[s]
      BY DEF InputsMatter
    <2> DEFINE F == [t \in Used(ctx) |-> ctx.input[t]]
    <2>1. s \in Used(ctx)
      BY InvLen DEF CtxInv
    <2>2. s \in DOMAIN F /\ F[s] = ctx.input[s]
      BY <2>1
    <2>3. out[i] = [pos |-> i, L |-> StreamL(ctx), from |-> F]
      BY InvLen
    <2> HIDE DEF F
    <2>4. out[i].from = F
      BY <2>3
    <2> QED
      BY <2>2, <2>4
  <1> QED
    BY <1>1, InvAlways, PTL

(* psa_key_derivation_output_key() lets a key out only of an operation whose  *)
(* secret or password was a key with PSA_KEY_USAGE_DERIVE or the result of a *)
(* key agreement.                                                           *)
THEOREM KeysComeFromKeys == Spec => []KeysFromKeys
  <1>1. Inv => KeysFromKeys
    BY DEF Inv, HistoryInv, KeySources, KeysFromKeys
  <1> QED
    BY <1>1, InvAlways, PTL

(* After a failed call nothing more comes out of the operation until it is    *)
(* aborted: wolfpsa_kdf_done() poisons it on every path.                     *)
THEOREM FailureSilences == Spec => SilentAfterFailure
  <1> DEFINE A == failed /\ failed' => UNCHANGED <<out, derived>>
  <1>1. Inv /\ [Next]_vars => [A]_vars
    <2> SUFFICES ASSUME Inv, Next, failed, failed' PROVE out' = out /\ derived' = derived
      BY DEF vars
    <2>1. ~Live
      <3>1. ASSUME Live PROVE FALSE
        <4>1. failed = FALSE
          BY <3>1, LiveFacts
        <4> QED
          BY <4>1
      <3> QED
        BY <3>1
    <2>2. \/ \E p \in Setups : psa_key_derivation_setup(p)
          \/ psa_key_derivation_abort
          \/ Rejected
      BY <2>1 DEF Next, psa_key_derivation_set_capacity, psa_key_derivation_input_bytes,
            psa_key_derivation_input_integer, psa_key_derivation_input_key,
            psa_key_derivation_key_agreement, psa_key_derivation_output_bytes,
            psa_key_derivation_output_key, psa_key_derivation_verify_bytes,
            psa_key_derivation_verify_key
    <2>3. CASE \E p \in Setups : psa_key_derivation_setup(p)
      BY <2>3 DEF psa_key_derivation_setup
    <2>4. CASE psa_key_derivation_abort
      BY <2>4, Zenon DEF psa_key_derivation_abort
    <2>5. CASE Rejected
      BY <2>5 DEF Rejected
    <2> QED
      BY <2>2, <2>3, <2>4, <2>5
  <1> QED
    BY <1>1, InvAlways, PTL DEF Spec, SilentAfterFailure
=============================================================================
