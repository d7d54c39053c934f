--------------------------- MODULE KeyDerivation ---------------------------
(***************************************************************************)
(* The multi-part key-derivation operation of src/src/psa_key_derivation.c: *)
(* one psa_key_derivation_operation_t and the calls made on it, in any      *)
(* order, by one caller.                                                    *)
(*                                                                         *)
(* Each internal function is an operator that gives the SET of its possible *)
(* results [st, c, ...]: the status, the context it leaves, the bytes it    *)
(* wrote.  More than one result means that an allocation or a wolfCrypt     *)
(* call may fail.  Input data is known by its length, an output byte by     *)
(* what it was computed from.                                               *)
(***************************************************************************)
EXTENDS Integers, Sequences

CONSTANTS
    NoCtx,        \* operation->opaque == NULL
    Setups,       \* the <<algorithm, is_key_agreement>> pairs set up
    InputLens,    \* lengths of the inputs given
    KeyViews,     \* what a look-up of a key handle may find
    OutputLens,   \* lengths of the outputs asked for
    Capacities,   \* the arguments of psa_key_derivation_set_capacity()
    HashLen,      \* wc_HashGetDigestSize()
    MaxBlocks,    \* 255: the HKDF output limit in hash blocks
    PskMax,       \* PSA_TLS12_PSK_TO_MS_PSK_MAX_SIZE
    U16Max,       \* UINT16_MAX
    Sp800Max,     \* 2^29 - 1
    CacheMax,     \* WOLFPSA_KDF_MAX_CACHE_BYTES
    SizeMax       \* SIZE_MAX, also PSA_KEY_DERIVATION_UNLIMITED_CAPACITY

Algs == {"CATEGORY", "HKDF", "HKDF_EXTRACT", "HKDF_EXPAND", "TLS12_PRF",
         "PSK_TO_MS", "PBKDF2", "SP800_108"}
Steps == {"SECRET", "OTHER_SECRET", "SALT", "INFO", "LABEL", "CONTEXT", "SEED",
          "PASSWORD", "COST"}
Hkdfs == {"HKDF", "HKDF_EXTRACT", "HKDF_EXPAND"}
Unlimited == SizeMax

ASSUME SetupsAssumption == Setups \subseteq Algs \X BOOLEAN
ASSUME LengthsAssumption ==
    /\ SizeMax \in Nat /\ InputLens \subseteq 0 .. SizeMax
    /\ OutputLens \subseteq 0 .. SizeMax /\ Capacities \subseteq 0 .. SizeMax
ASSUME ViewsAssumption ==
    KeyViews \subseteq [lookup : {"SUCCESS", "INVALID_HANDLE", "STORAGE_FAILURE"},
                        usage : SUBSET {"DERIVE", "VERIFY"}, typeOk : BOOLEAN,
                        algOk : BOOLEAN, len : InputLens]
ASSUME LimitsAssumption ==
    /\ HashLen \in Nat \ {0} /\ MaxBlocks \in Nat \ {0}
    /\ {PskMax, U16Max, CacheMax} \subseteq Nat
    /\ MaxBlocks * HashLen < SizeMax /\ Sp800Max \in 0 .. SizeMax - 1

(* The contexts, and what an output byte is known by. *)
StreamBytes == [pos : Nat, L : Nat, from : UNION {[u -> Nat] : u \in SUBSET Steps}]
Contexts ==
    [alg : Algs, agreement : BOOLEAN, capacity : Nat, offset : Nat,
     steps : SUBSET Steps, input : [Steps -> Nat], L : Nat, started : BOOLEAN,
     can_output_key : BOOLEAN, error : BOOLEAN, cached : BOOLEAN,
     cache : Seq(StreamBytes)]
ASSUME NoCtxAssumption == NoCtx \notin Contexts

VARIABLES
    ctx,      \* wolfpsa_kdf_ctx_t, or NoCtx
    status,   \* what the last call returned
    out,      \* history: the bytes released or compared since setup
    secret,   \* history: where the secret or the password came from
    promise,  \* history: the bytes the operation has agreed to deliver in all
    failed,   \* history: a call on it has failed since setup
    derived   \* history: where the secret of each key it output came from

vars == <<ctx, status, out, secret, promise, failed, derived>>

Sources == {"none", "bytes", "derive_key", "verify_key", "agreement"}

IsRaw(c) == c.agreement /\ c.alg = "CATEGORY"               \* is_raw_kdf

-----------------------------------------------------------------------------
(* psa_key_derivation_setup(): the default capacity. *)

DefaultCapacity(alg) ==
    CASE alg = "HKDF_EXTRACT" -> HashLen
      [] alg \in {"HKDF", "HKDF_EXPAND"} -> MaxBlocks * HashLen
      [] alg = "SP800_108" -> Sp800Max
      [] OTHER -> Unlimited

NewCtx(alg, agreement) ==
    [alg |-> alg, agreement |-> agreement, capacity |-> DefaultCapacity(alg),
     offset |-> 0, steps |-> {}, input |-> [s \in Steps |-> 0], L |-> 0,
     started |-> FALSE, can_output_key |-> FALSE, error |-> FALSE,
     cached |-> FALSE, cache |-> <<>>]

(* wolfpsa_kdf_done(): a failed call poisons the operation, except a          *)
(* mismatch found by a completed verification and a rejected key handle.    *)
Exempt == {"SUCCESS", "INVALID_SIGNATURE", "INVALID_HANDLE"}

(* Mutation: running out of capacity does not poison the operation. *)
wolfpsa_kdf_done_lenient(r) ==
    [r EXCEPT !.c.error = @ \/ r.st \notin Exempt \union {"INSUFFICIENT_DATA"}]

wolfpsa_kdf_done(r) == [r EXCEPT !.c.error = @ \/ r.st \notin Exempt]

Result(st, c) == [st |-> st, c |-> c, bytes |-> <<>>]

-----------------------------------------------------------------------------
(* Inputs. *)

Accepted(alg) ==
    CASE alg = "HKDF" -> {"SALT", "SECRET", "INFO"}
      [] alg = "HKDF_EXTRACT" -> {"SALT", "SECRET"}
      [] alg = "HKDF_EXPAND" -> {"SECRET", "INFO"}
      [] alg = "TLS12_PRF" -> {"SECRET", "LABEL", "SEED"}
      [] alg = "PSK_TO_MS" -> {"SECRET", "OTHER_SECRET", "SEED"}
      [] alg = "PBKDF2" -> {"PASSWORD", "SALT"}
      [] alg = "SP800_108" -> {"SECRET", "LABEL", "CONTEXT"}
      [] alg = "CATEGORY" -> {"SECRET"}

InOrder(c, s) ==
    CASE c.alg \in {"HKDF", "HKDF_EXTRACT"} /\ s = "SALT" -> "SECRET" \notin c.steps
      [] c.alg = "HKDF_EXTRACT" /\ s = "SECRET" -> "SALT" \in c.steps
      [] c.alg = "HKDF_EXPAND" /\ s = "SECRET" -> c.steps = {}
      [] c.alg = "HKDF_EXPAND" /\ s = "INFO" -> "SECRET" \in c.steps
      [] c.alg = "PSK_TO_MS" /\ s # "SEED" -> "SEED" \in c.steps
      [] OTHER -> TRUE

LengthOk(c, s, n) ==
    CASE c.alg = "HKDF_EXPAND" /\ s = "SECRET" -> n = HashLen
      [] c.alg = "PSK_TO_MS" /\ s = "SECRET" -> n =< PskMax
      [] c.alg = "PSK_TO_MS" /\ s = "OTHER_SECRET" -> n =< U16Max
      [] OTHER -> TRUE

Multipart(c, s) == c.alg = "PBKDF2" /\ s = "SALT"

Verdict(c, s, n, mayInput, accepted) ==
    IF ~mayInput \/ (s \in c.steps /\ ~Multipart(c, s)) THEN "BAD_STATE"
    ELSE IF c.alg = "CATEGORY" /\ ~IsRaw(c) THEN "NOT_SUPPORTED"
    ELSE IF s \notin accepted THEN "INVALID_ARGUMENT"
    ELSE IF ~InOrder(c, s) THEN "BAD_STATE"
    ELSE IF ~LengthOk(c, s, n) THEN "INVALID_ARGUMENT"
    ELSE "SUCCESS"

(* Mutations: inputs are accepted after output; HKDF-Expand takes CONTEXT. *)
wolfpsa_kdf_validate_step_late(c, s, n) ==
    Verdict(c, s, n, TRUE, Accepted(c.alg))
wolfpsa_kdf_validate_step_lax(c, s, n) ==
    Verdict(c, s, n, ~c.started, Accepted(c.alg) \union {"CONTEXT"})

wolfpsa_kdf_validate_step(c, s, n) ==
    Verdict(c, s, n, ~c.started, Accepted(c.alg))

(* The input buffers append; an empty input needs no memory. *)
wolfpsa_kdf_input_bytes(c, s, n) ==
    LET st == wolfpsa_kdf_validate_step(c, s, n) IN
    IF st # "SUCCESS" THEN {Result(st, c)}
    ELSE IF c.input[s] > SizeMax - n THEN {Result("INSUFFICIENT_MEMORY", c)}
    ELSE {Result("SUCCESS", [c EXCEPT !.input[s] = @ + n,
                                      !.steps = @ \union {s}])}
         \union {Result("INSUFFICIENT_MEMORY", c) : i \in {n} \ {0}}

(* The cost of PBKDF2: zero and values above 32 bits are refused. *)
Ranges == {"SUCCESS", "INVALID_ARGUMENT", "NOT_SUPPORTED"}

wolfpsa_kdf_input_integer(c, s, range) ==
    IF c.started THEN Result("BAD_STATE", c)
    ELSE IF s # "COST" \/ c.alg # "PBKDF2" THEN Result("INVALID_ARGUMENT", c)
    ELSE IF s \in c.steps THEN Result("BAD_STATE", c)
    ELSE IF range # "SUCCESS" THEN Result(range, c)
    ELSE Result("SUCCESS", [c EXCEPT !.input[s] = 1, !.steps = @ \union {s}])

(* permits: the usage and the step that allow psa_key_derivation_output_key() *)
InputKey(c, s, k, permits) ==
    LET st == wolfpsa_kdf_validate_step(c, s, k.len) IN
    IF k.lookup # "SUCCESS" THEN {Result(k.lookup, c)}
    ELSE IF st # "SUCCESS" THEN {Result(st, c)}
    ELSE IF k.usage = {} THEN {Result("NOT_PERMITTED", c)}
    ELSE IF ~k.typeOk THEN {Result("INVALID_ARGUMENT", c)}
    ELSE IF ~k.algOk THEN {Result("NOT_PERMITTED", c)}
    ELSE {[r EXCEPT !.c.can_output_key = @ \/ (r.st = "SUCCESS" /\ permits)] :
              r \in wolfpsa_kdf_input_bytes(c, s, k.len)}

(* Mutation: the usage flag of the key is not looked at again. *)
wolfpsa_kdf_input_key_any_usage(c, s, k) ==
    InputKey(c, s, k, s \in {"SECRET", "PASSWORD"})

wolfpsa_kdf_input_key(c, s, k) ==
    InputKey(c, s, k, "DERIVE" \in k.usage /\ s \in {"SECRET", "PASSWORD"})

(* The shared secret is computed before the step is validated. *)
wolfpsa_kdf_key_agreement(c, s, k) ==
    IF ~c.agreement THEN {Result("INVALID_ARGUMENT", c)}
    ELSE IF c.started THEN {Result("BAD_STATE", c)}
    ELSE IF \/ s \notin {"SECRET", "OTHER_SECRET"}
            \/ s = "OTHER_SECRET" /\ c.alg # "PSK_TO_MS"
         THEN {Result("INVALID_ARGUMENT", c)}
    ELSE IF k.lookup # "SUCCESS" THEN {Result(k.lookup, c)}
    ELSE IF "DERIVE" \notin k.usage THEN {Result("NOT_PERMITTED", c)}
    ELSE IF ~k.typeOk THEN {Result("INVALID_ARGUMENT", c)}
    ELSE {Result(st, c) : st \in {"NOT_SUPPORTED", "INSUFFICIENT_MEMORY",
                                  "INVALID_HANDLE", "GENERIC_ERROR"}}
         \union
         IF ~k.algOk THEN {Result("NOT_PERMITTED", c)}
         ELSE {[r EXCEPT !.c.can_output_key =
                             @ \/ (r.st = "SUCCESS" /\ s = "SECRET")] :
                   r \in wolfpsa_kdf_input_bytes(c, s, k.len)}

-----------------------------------------------------------------------------
(* The derivation backends: byte i of the stream and what it depends on. *)

Bytes(c, n, used, L) ==
    [i \in 1 .. n |-> [pos |-> i, L |-> L, from |-> [s \in used |-> c.input[s]]]]

wolfpsa_kdf_hkdf(c, n) ==
    Bytes(c, n, CASE c.alg = "HKDF_EXTRACT" -> {"SALT", "SECRET"}
                  [] c.alg = "HKDF_EXPAND" -> {"SECRET", "INFO"}
                  [] c.alg = "HKDF" -> {"SALT", "SECRET", "INFO"}, 0)
wolfpsa_kdf_tls12_prf(c, n) == Bytes(c, n, {"SECRET", "LABEL", "SEED"}, 0)
wolfpsa_kdf_tls12_psk_to_ms(c, n) ==
    Bytes(c, n, {"SECRET", "OTHER_SECRET", "SEED"}, 0)
wolfpsa_kdf_pbkdf2(c, n) == Bytes(c, n, {"PASSWORD", "SALT", "COST"}, 0)
wolfpsa_kdf_sp800_108_hmac(c, n) == Bytes(c, n, {"SECRET", "LABEL", "CONTEXT"}, c.L)

(* The stream, or the failure of a backend; HKDF-Extract has one block. *)
wolfpsa_kdf_compute_output(c, n) ==
    LET stream ==
            CASE IsRaw(c) -> Bytes(c, n, {"SECRET"}, 0)
              [] c.alg \in Hkdfs -> wolfpsa_kdf_hkdf(c, n)
              [] c.alg = "TLS12_PRF" -> wolfpsa_kdf_tls12_prf(c, n)
              [] c.alg = "PSK_TO_MS" -> wolfpsa_kdf_tls12_psk_to_ms(c, n)
              [] c.alg = "PBKDF2" -> wolfpsa_kdf_pbkdf2(c, n)
              [] c.alg = "SP800_108" -> wolfpsa_kdf_sp800_108_hmac(c, n)
        computable == IF c.alg = "CATEGORY" THEN IsRaw(c)
                      ELSE c.alg = "HKDF_EXTRACT" => n =< HashLen
    IN  (IF computable THEN {[st |-> "SUCCESS", bytes |-> stream]} ELSE {})
        \union (IF IsRaw(c) THEN {} ELSE {[st |-> "GENERIC_ERROR", bytes |-> <<>>]})

-----------------------------------------------------------------------------
(* Outputs. *)

Required(alg) ==
    CASE alg = "HKDF_EXTRACT" -> {"SALT", "SECRET"}
      [] alg \in {"HKDF", "HKDF_EXPAND"} -> {"SECRET", "INFO"}
      [] alg = "TLS12_PRF" -> {"SECRET", "LABEL", "SEED"}
      [] alg = "PSK_TO_MS" -> {"SECRET", "SEED"}
      [] alg = "PBKDF2" -> {"PASSWORD", "SALT", "COST"}
      [] alg = "SP800_108" -> {"SECRET"}
      [] alg = "CATEGORY" -> {}

(* Mutations: the capacity is not checked; the capacity is not spent. *)
wolfpsa_kdf_require_output_unchecked(c, n) ==
    IF c.capacity = Unlimited THEN Result("SUCCESS", c)
    ELSE Result("SUCCESS", [c EXCEPT !.capacity = @ - n])
wolfpsa_kdf_require_output_free(c, n) ==
    IF c.capacity < n THEN Result("INSUFFICIENT_DATA", [c EXCEPT !.capacity = 0])
    ELSE Result("SUCCESS", c)

wolfpsa_kdf_require_output(c, n) ==
    IF c.capacity = Unlimited THEN Result("SUCCESS", c)
    ELSE IF c.capacity < n
         THEN Result("INSUFFICIENT_DATA", [c EXCEPT !.capacity = 0])
    ELSE Result("SUCCESS", [c EXCEPT !.capacity = @ - n])

(* The slice of the stream that follows what has been delivered. *)
Serve(c, n, r) ==
    IF r.st # "SUCCESS" THEN Result(r.st, c)
    ELSE [st |-> "SUCCESS", c |-> [c EXCEPT !.offset = @ + n],
          bytes |-> SubSeq(r.bytes, c.offset + 1, c.offset + n)]

(* The first call computes a small bounded stream once and keeps it; above   *)
(* CacheMax, or without a bound, every call computes its prefix again.      *)
Deliver(c, n, total) ==
    LET whole == n + c.capacity
        fill  == /\ ~c.cached /\ ~IsRaw(c) /\ c.capacity # Unlimited
                 /\ c.offset = 0 /\ whole =< CacheMax
    IN  IF c.cached
        THEN {IF total > Len(c.cache) THEN Result("INSUFFICIENT_DATA", c)
              ELSE Serve(c, n, [st |-> "SUCCESS", bytes |-> c.cache])}
        ELSE IF fill
        THEN {Result("INSUFFICIENT_MEMORY", c)} \union
             {Serve([c EXCEPT !.cached = r.st = "SUCCESS", !.cache = r.bytes], n, r) :
                  r \in wolfpsa_kdf_compute_output(c, whole)}
        ELSE {Result("INSUFFICIENT_MEMORY", c) : i \in {c.offset} \ {0}} \union
             {Serve(c, n, r) : r \in wolfpsa_kdf_compute_output(c, total)}

OutputBytes(c, n, bindL) ==
    LET ready  == IF IsRaw(c)
                  THEN /\ "SECRET" \in c.steps
                       /\ c.offset + n =< c.input["SECRET"]
                  ELSE Required(c.alg) \subseteq c.steps
        bound  == IF c.alg = "SP800_108" /\ bindL
                  THEN [c EXCEPT !.L = c.capacity] ELSE c
        r      == wolfpsa_kdf_require_output(bound, n)
        begun  == [r.c EXCEPT !.started = TRUE]
        total  == (c.offset + n) % (SizeMax + 1)
    IN  IF ~ready
        THEN {Result(IF IsRaw(c) THEN "INSUFFICIENT_DATA" ELSE "BAD_STATE", c)}
        ELSE IF r.st # "SUCCESS" THEN {r}
        ELSE IF total < c.offset THEN {Result("INVALID_ARGUMENT", begun)}
        ELSE Deliver(begun, n, total)

(* Mutation: L follows the capacity that is left. *)
wolfpsa_kdf_output_bytes_rebinds(c, n) == OutputBytes(c, n, TRUE)

wolfpsa_kdf_output_bytes(c, n) == OutputBytes(c, n, ~c.started)

-----------------------------------------------------------------------------
(* The API. *)

TypeOK ==
    /\ ctx = NoCtx \/
       /\ ctx.alg \in Algs /\ ctx.agreement \in BOOLEAN
       /\ ctx.capacity \in 0 .. SizeMax /\ ctx.offset \in 0 .. SizeMax
       /\ ctx.steps \subseteq Steps /\ ctx.L \in 0 .. SizeMax
       /\ {ctx.started, ctx.can_output_key, ctx.error, ctx.cached} \subseteq BOOLEAN
    /\ promise \in Nat /\ failed \in BOOLEAN
    /\ secret \in Sources /\ derived \subseteq Sources

Init ==
    /\ ctx = NoCtx /\ status = "SUCCESS"
    /\ out = <<>> /\ secret = "none" /\ promise = 0
    /\ failed = FALSE /\ derived = {}

psa_key_derivation_setup(p) ==
    /\ IF ctx # NoCtx
       THEN status' = "BAD_STATE" /\ UNCHANGED <<ctx, promise>>
       ELSE \/ /\ ctx' = NewCtx(p[1], p[2])
               /\ promise' = DefaultCapacity(p[1])
               /\ status' = "SUCCESS"
            \/ status' = "INSUFFICIENT_MEMORY" /\ UNCHANGED <<ctx, promise>>
    /\ UNCHANGED <<out, secret, failed, derived>>

psa_key_derivation_abort ==
    /\ ctx' = NoCtx /\ status' = "SUCCESS"
    /\ out' = <<>> /\ secret' = "none" /\ promise' = 0
    /\ failed' = FALSE /\ derived' = {}

(* wolfpsa_kdf_check_state(): no call goes on without an operation, or on a  *)
(* poisoned one.                                                            *)
Live == ctx # NoCtx /\ ~ctx.error

Rejected ==
    /\ ~Live
    /\ status' = "BAD_STATE"
    /\ UNCHANGED <<ctx, out, secret, promise, failed, derived>>

(* The call returns the result r through wolfpsa_kdf_done(). *)
Return(r) ==
    LET d == wolfpsa_kdf_done(r) IN
    /\ ctx' = d.c
    /\ status' = r.st
    /\ out' = out \o r.bytes
    /\ failed' = (failed \/ r.st \notin Exempt)

(* The capacity can only be lowered; a refused value changes nothing. *)
psa_key_derivation_set_capacity(n) ==
    /\ Live
    /\ \/ /\ n =< ctx.capacity /\ (ctx.alg \in Hkdfs => n =< DefaultCapacity(ctx.alg))
          /\ ctx' = [ctx EXCEPT !.capacity = n]
          /\ promise' = IF n = Unlimited THEN promise ELSE Len(out) + n
          /\ status' = "SUCCESS"
       \/ /\ n > ctx.capacity \/ (ctx.alg \in Hkdfs /\ n > DefaultCapacity(ctx.alg))
          /\ status' = "INVALID_ARGUMENT"
          /\ UNCHANGED <<ctx, promise>>
    /\ UNCHANGED <<out, secret, failed, derived>>

From(r, s, where) ==
    secret' = IF r.st = "SUCCESS" /\ s \in {"SECRET", "PASSWORD"}
              THEN where ELSE secret

psa_key_derivation_input_bytes(s, n) ==
    /\ Live
    /\ \E r \in wolfpsa_kdf_input_bytes(ctx, s, n) : Return(r) /\ From(r, s, "bytes")
    /\ UNCHANGED <<promise, derived>>

psa_key_derivation_input_integer(s, range) ==
    /\ Live
    /\ LET r == wolfpsa_kdf_input_integer(ctx, s, range) IN
          Return(r) /\ From(r, s, "bytes")
    /\ UNCHANGED <<promise, derived>>

psa_key_derivation_input_key(s, k) ==
    /\ Live
    /\ \E r \in wolfpsa_kdf_input_key(ctx, s, k) :
          /\ Return(r)
          /\ From(r, s, IF "DERIVE" \in k.usage THEN "derive_key" ELSE "verify_key")
    /\ UNCHANGED <<promise, derived>>

psa_key_derivation_key_agreement(s, k) ==
    /\ Live
    /\ \E r \in wolfpsa_kdf_key_agreement(ctx, s, k) :
          Return(r) /\ From(r, s, "agreement")
    /\ UNCHANGED <<promise, derived>>

psa_key_derivation_output_bytes(n) ==
    /\ Live
    /\ \E r \in wolfpsa_kdf_output_bytes(ctx, n) : Return(r)
    /\ UNCHANGED <<secret, promise, derived>>

(* psa_import_key() of the derived bytes may fail: they are spent all the    *)
(* same.                                                                    *)
psa_key_derivation_output_key(n, structured, imported) ==
    /\ Live
    /\ \/ /\ n > 0 /\ ctx.can_output_key /\ ~structured
          /\ \/ Return(Result("INSUFFICIENT_MEMORY", ctx)) /\ UNCHANGED derived
             \/ \E o \in wolfpsa_kdf_output_bytes(ctx, n) :
                   LET st == IF o.st = "SUCCESS" THEN imported ELSE o.st IN
                   /\ Return([wolfpsa_kdf_done(o) EXCEPT !.st = st])
                   /\ derived' = IF st = "SUCCESS" THEN derived \union {secret}
                                 ELSE derived
       \/ /\ n = 0 \/ (ctx.can_output_key /\ structured)
          /\ Return(Result("INVALID_ARGUMENT", ctx)) /\ UNCHANGED derived
       \/ /\ n > 0 /\ ~ctx.can_output_key
          /\ Return(Result("NOT_PERMITTED", ctx)) /\ UNCHANGED derived
    /\ UNCHANGED <<secret, promise>>

(* The bytes are derived, compared and discarded: a mismatch spends them. *)
Verified(c, n, match) ==
    {[wolfpsa_kdf_done(o) EXCEPT !.st = IF o.st = "SUCCESS" /\ n > 0 /\ ~match
                                        THEN "INVALID_SIGNATURE" ELSE o.st] :
        o \in wolfpsa_kdf_output_bytes(c, n)}
    \union {Result("INSUFFICIENT_MEMORY", c) : i \in {n} \ {0}}

psa_key_derivation_verify_bytes(n, match) ==
    /\ Live
    /\ \E r \in Verified(ctx, n, match) : Return(r)
    /\ UNCHANGED <<secret, promise, derived>>

(* The key is read twice: its attributes, then its data. *)
psa_key_derivation_verify_key(n, match, k) ==
    /\ Live
    /\ \E r \in
          IF k.lookup # "SUCCESS" THEN {Result(k.lookup, ctx)}
          ELSE IF "VERIFY" \notin k.usage THEN {Result("NOT_PERMITTED", ctx)}
          ELSE IF ~k.typeOk THEN {Result("INVALID_ARGUMENT", ctx)}
          ELSE {Result(st, ctx) : st \in {"INVALID_HANDLE", "STORAGE_FAILURE"}} \union
               {wolfpsa_kdf_done(v) : v \in Verified(ctx, n, match)} : Return(r)
    /\ UNCHANGED <<secret, promise, derived>>

Next ==
    \/ \E p \in Setups : psa_key_derivation_setup(p)
    \/ psa_key_derivation_abort
    \/ Rejected
    \/ \E n \in Capacities : psa_key_derivation_set_capacity(n)
    \/ \E s \in Steps, n \in InputLens : psa_key_derivation_input_bytes(s, n)
    \/ \E s \in Steps, range \in Ranges : psa_key_derivation_input_integer(s, range)
    \/ \E s \in Steps, k \in KeyViews : psa_key_derivation_input_key(s, k)
    \/ \E s \in Steps, k \in KeyViews : psa_key_derivation_key_agreement(s, k)
    \/ \E n \in OutputLens : psa_key_derivation_output_bytes(n)
    \/ \E n \in OutputLens, structured \in BOOLEAN,
          imported \in {"SUCCESS", "ALREADY_EXISTS"} :
             psa_key_derivation_output_key(n, structured, imported)
    \/ \E n \in OutputLens, match \in BOOLEAN :
             psa_key_derivation_verify_bytes(n, match)
    \/ \E n \in OutputLens, match \in BOOLEAN, k \in KeyViews :
             psa_key_derivation_verify_key(n, match, k)

Spec == Init /\ [][Next]_vars

-----------------------------------------------------------------------------
(* Properties. *)

(* However the output is cut into calls (bytes, keys, verifications), kept   *)
(* in the cache or recomputed, and whatever the capacity is lowered to in   *)
(* between, the pieces are consecutive slices of ONE stream, computed from  *)
(* the same inputs and the same L.                                          *)
OneStream ==
    \A i \in 1 .. Len(out) :
        out[i].pos = i /\ out[i].L = out[1].L /\ out[i].from = out[1].from

(* No input is accepted and then ignored: everything given to the operation  *)
(* goes into its output.                                                    *)
InputsMatter ==
    ctx # NoCtx => \A i \in 1 .. Len(out) : \A s \in ctx.steps :
        s \in DOMAIN out[i].from /\ out[i].from[s] = ctx.input[s]

(* The operation never delivers more, nor loses count of, the bytes its      *)
(* capacity promised.                                                       *)
CapacityKept ==
    ctx # NoCtx => \/ ctx.capacity = Unlimited
                   \/ Len(out) + ctx.capacity = promise
                   \/ ctx.error /\ Len(out) + ctx.capacity =< promise

(* After a failed call nothing more comes out of the operation.             *)
SilentAfterFailure ==
    [][failed /\ failed' => UNCHANGED <<out, derived>>]_vars

(* A key comes out only if a key that permits derivation, or a key           *)
(* agreement, went in as the secret or the password.                        *)
KeysFromKeys ==
    derived \subseteq {"derive_key", "agreement"}

(* What the change log says: KDF inputs require PSA_KEY_USAGE_DERIVE.        *)
KeyInputsPermitDerive ==
    secret # "verify_key"

(* The counters of the operation stay within their types and its capacity:   *)
(* wolfpsa_kdf_require_output() lets no sequence of outputs go past either.  *)
WithinCapacity == TypeOK /\ CapacityKept
=============================================================================
