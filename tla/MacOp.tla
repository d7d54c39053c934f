------------------------------- MODULE MacOp -------------------------------
(***************************************************************************)
(* The MAC operations of src/src/psa_mac.c: one psa_mac_operation_t, its    *)
(* calls in any order, and the one-shot functions made of the same calls.   *)
(*                                                                         *)
(* An algorithm is a record of Policy, of family HMAC (of some hash) or     *)
(* CMAC.  A MAC given to be verified is [key, fam, s, len, good]: len bytes, *)
(* of which the first `good' are those of the MAC of s under that key.      *)
(* bufs are the key buffers on the heap: the copy wolfpsa_get_key_data()    *)
(* made and the one the operation owns (WOLF_CRYPTO_CB: wolfCrypt's HMAC    *)
(* borrows its key, it does not copy it).                                  *)
(***************************************************************************)
EXTENDS Policy

CONSTANTS
    Lens,      \* truncated lengths
    Keys,      \* keys: [name, type, usage, alg, alg2]
    MinTrunc,  \* the shortest truncation supported (4)
    MaxLen,    \* bound: length of a message
    NoCtx,     \* operation->opaque == NULL
    None       \* no MAC written

VARIABLES
    ctx,       \* wolfpsa_mac_ctx_t, or NoCtx
    bufs,      \* key buffers allocated: subset of {"key_data", "ctx_key"}
    told,      \* history: [key, s]: the key and the input since setup
    last       \* history: the last MAC or verdict, and what was right

vars == <<ctx, bufs, told, last>>

Fams == DOMAIN FullLen
MacAlgs == {Mac(fam, n, wild) : fam \in Fams, n \in Lens \union {0}, wild \in BOOLEAN}
MaxFull == CHOOSE n \in {FullLen[f] : f \in Fams} : \A f \in Fams : n >= FullLen[f]

(* What the module takes for granted of its constants: lengths are numbers,    *)
(* and NoCtx is no context.                                                 *)
Contexts == [alg : MacAlgs, mac_length : Nat, full_length : Nat, key : {k.name : k \in Keys},
             keyRaw : {None, "ctx_key"}, fed : Nat]
ConstantsOK ==
    /\ \A f \in Fams : FullLen[f] \in Nat
    /\ Lens \subseteq Nat /\ MaxLen \in Nat /\ NoCtx \notin Contexts
    /\ \A k \in Keys : \A a \in {k.alg, k.alg2} : a.len \in Nat /\ a.wild \in BOOLEAN

Init ==
    /\ ctx = NoCtx /\ bufs = {}
    /\ told = [key |-> None, s |-> 0] /\ last = [call |-> "none"]

Result(st, c, b, mac) == [st |-> st, c |-> c, b |-> b, mac |-> mac]

(* wolfpsa_mac_free_underlying() frees the key the operation owns. *)
psa_mac_abort(c, b) == Result("SUCCESS", NoCtx, b \ {"ctx_key"}, None)

wolfpsa_mac_fail(b, st) == Result(st, NoCtx, b \ {"ctx_key"}, None)

-----------------------------------------------------------------------------
(* The key may also be missing.  A copy of it is on the heap on success only. *)
wolfpsa_mac_check_key(key, usage, alg) ==
    {"INVALID_HANDLE",
     IF key.type # alg.fam THEN "INVALID_ARGUMENT"
     ELSE IF usage \notin key.usage THEN "NOT_PERMITTED"
     ELSE IF \/ wolfpsa_mac_alg_permitted(key.alg, alg)
             \/ wolfpsa_mac_alg_permitted(key.alg2, alg) THEN "SUCCESS"
     ELSE "NOT_PERMITTED"}

(* After the key is set: the length of the MAC, then wolfCrypt's answer. *)
LengthVerdict(alg) ==
    IF PSA_MAC_LENGTH(alg) > FullLen[alg.fam] THEN {"INVALID_ARGUMENT"}
    ELSE IF alg.len # 0 /\ alg.len < MinTrunc THEN {"NOT_SUPPORTED"}
    ELSE {"SUCCESS", "GENERIC_ERROR"}

(* Mutation: wolfCrypt is given the caller's copy of the key. *)
KeyOwner_caller(alg) == "key_data"

(* wc_HmacSetKey() keeps the address of the operation's own copy; wc_InitCmac *)
(* expands the key and keeps none.                                          *)
KeyOwner(alg) == IF alg.fam = "CMAC" THEN None ELSE "ctx_key"

NewCtx(key, alg) ==
    [alg |-> alg, mac_length |-> PSA_MAC_LENGTH(alg), full_length |-> FullLen[alg.fam],
     key |-> key.name, keyRaw |-> KeyOwner(alg), fed |-> 0]

(* Once wolfCrypt has the key, the copy made for this call is freed. *)
wolfpsa_mac_setup(c, b, key, alg, usage) ==
    LET held == b \union {"key_data"} \union (IF alg.fam = "CMAC" THEN {} ELSE {"ctx_key"}) IN
    IF c # NoCtx THEN {Result("BAD_STATE", c, b, None)}
    ELSE UNION
        {IF v # "SUCCESS" THEN {Result(v, NoCtx, b, None)}
         ELSE {Result("INSUFFICIENT_MEMORY", NoCtx, b, None),
               Result("INVALID_ARGUMENT", NoCtx, b, None)}   \* key beyond word32
              \union
              {IF w = "SUCCESS" THEN Result(w, NewCtx(key, alg), held \ {"key_data"}, None)
               ELSE wolfpsa_mac_fail(held \ {"key_data"}, w) : w \in LengthVerdict(alg)} :
         v \in wolfpsa_mac_check_key(key, usage, alg)}

psa_mac_sign_setup(c, b, key, alg) == wolfpsa_mac_setup(c, b, key, alg, "SIGN_MESSAGE")
psa_mac_verify_setup(c, b, key, alg) == wolfpsa_mac_setup(c, b, key, alg, "VERIFY_MESSAGE")

-----------------------------------------------------------------------------
(* The message is a number of equal bytes; ok: the arguments are sound. *)
psa_mac_update(c, b, n, ok) ==
    IF c = NoCtx THEN {wolfpsa_mac_fail(b, "BAD_STATE")}
    ELSE IF ~ok THEN {wolfpsa_mac_fail(b, "INVALID_ARGUMENT")}
    ELSE IF n = 0 THEN {Result("SUCCESS", c, b, None)}
    ELSE {Result("SUCCESS", [c EXCEPT !.fed = @ + n], b, None),
          wolfpsa_mac_fail(b, "GENERIC_ERROR")}

(* The MAC of the input, cut to mac_length. *)
wolfpsa_mac_final(c, mac_length, room, ok) ==
    LET mac == [key |-> c.key, fam |-> c.alg.fam, s |-> c.fed, len |-> mac_length] IN
    IF ~ok THEN {[st |-> "INVALID_ARGUMENT", mac |-> None]}
    ELSE IF room < mac_length THEN {[st |-> "BUFFER_TOO_SMALL", mac |-> None]}
    ELSE {[st |-> "SUCCESS", mac |-> mac], [st |-> "GENERIC_ERROR", mac |-> None]}

psa_mac_sign_finish(c, b, room, ok) ==
    IF c = NoCtx THEN {wolfpsa_mac_fail(b, "BAD_STATE")}
    ELSE {Result(f.st, NoCtx, psa_mac_abort(c, b).b, f.mac) :
              f \in wolfpsa_mac_final(c, c.mac_length, room, ok)}

(* Mutation: only the bytes of the shortest MAC are compared. *)
SameMac_shortest(c, computed, ref) ==
    /\ ref.key = computed.key /\ ref.fam = computed.fam /\ ref.s = computed.s
    /\ ref.good >= c.mac_length

(* ConstantCompare() of the bytes that were given. *)
SameMac(c, computed, ref) ==
    /\ ref.key = computed.key /\ ref.fam = computed.fam /\ ref.s = computed.s
    /\ ref.len <= computed.len /\ ref.good = ref.len

(* Mutation: a MAC longer than the shortest is always too long. *)
LengthAccepted_exact(c, n) == n = c.mac_length

LengthAccepted(c, n) ==
    IF c.alg.wild THEN n \in c.mac_length .. c.full_length ELSE n = c.mac_length

(* A NULL MAC, and no operation, are errors that abort nothing. *)
psa_mac_verify_finish(c, b, ref, ok) ==
    IF c = NoCtx THEN {Result("BAD_STATE", c, b, None)}
    ELSE IF ~ok THEN {Result("INVALID_ARGUMENT", c, b, None)}
    ELSE IF ~LengthAccepted(c, ref.len) THEN {wolfpsa_mac_fail(b, "INVALID_SIGNATURE")}
    ELSE {wolfpsa_mac_fail(b,
              IF f.st # "SUCCESS" \/ SameMac(c, f.mac, ref) THEN f.st
              ELSE "INVALID_SIGNATURE") :
          f \in wolfpsa_mac_final(c, IF c.alg.wild THEN c.full_length ELSE c.mac_length,
                                  MaxFull, TRUE)}

(* The one-shot calls: the parts in turn, and an abort after one that fails. *)
OneShot(setups, n, ok, Finish(_)) ==
    UNION {IF r1.st # "SUCCESS" THEN {r1}
           ELSE UNION {IF r2.st # "SUCCESS" THEN {wolfpsa_mac_fail(r2.b, r2.st)}
                       ELSE {IF r3.st # "SUCCESS" THEN wolfpsa_mac_fail(r3.b, r3.st)
                             ELSE r3 : r3 \in Finish(r2)} :
                       r2 \in psa_mac_update(r1.c, r1.b, n, ok)} :
           r1 \in setups}

psa_mac_compute(b, key, alg, n, ok, room) ==
    LET Finish(r) == psa_mac_sign_finish(r.c, r.b, room, TRUE)
    IN  OneShot(psa_mac_sign_setup(NoCtx, b, key, alg), n, ok, Finish)

psa_mac_verify(b, key, alg, n, ok, ref) ==
    LET Finish(r) == psa_mac_verify_finish(r.c, r.b, ref, TRUE)
    IN  OneShot(psa_mac_verify_setup(NoCtx, b, key, alg), n, ok, Finish)

-----------------------------------------------------------------------------
Refs == {[key |-> k.name, fam |-> k.type, s |-> s, len |-> n, good |-> g] :
             k \in Keys, s \in 0 .. MaxLen,
             n \in Lens \union {FullLen[x] : x \in Fams}, g \in {0, MinTrunc, MaxFull}}
References == {[ref EXCEPT !.good = IF @ < ref.len THEN @ ELSE ref.len] : ref \in Refs}

Quiet == last' = [call |-> "none"]

(* A MAC was written under this key. *)
Given(key, fam, s, mac) ==
    last' = [call |-> "mac", policy |-> {key.alg, key.alg2}, fam |-> fam, len |-> mac.len,
             right |-> mac = [key |-> key.name, fam |-> fam, s |-> s, len |-> mac.len]]

(* ref was judged: is it, in all its bytes, the MAC of s under the key? *)
Judged(key, alg, s, ref, st) ==
    last' = [call |-> "verdict", policy |-> {key.alg, key.alg2}, fam |-> alg.fam,
             least |-> PSA_MAC_LENGTH(alg), st |-> st,
             long |-> alg.wild /\ ref.len \in PSA_MAC_LENGTH(alg) .. FullLen[alg.fam],
             exact |-> ref.len = PSA_MAC_LENGTH(alg),
             genuine |-> /\ ref.key = key.name /\ ref.fam = alg.fam /\ ref.s = s
                         /\ ref.good = ref.len]

Setup(key, alg) ==
    \E r \in psa_mac_sign_setup(ctx, bufs, key, alg)
             \union psa_mac_verify_setup(ctx, bufs, key, alg) :
        /\ ctx' = r.c /\ bufs' = r.b /\ Quiet
        /\ told' = IF r.st = "SUCCESS" THEN [key |-> key, s |-> 0] ELSE told

Update(n, ok) ==
    /\ told.s + n <= MaxLen
    /\ \E r \in psa_mac_update(ctx, bufs, n, ok) :
        /\ ctx' = r.c /\ bufs' = r.b /\ Quiet
        /\ told' = IF r.st = "SUCCESS" THEN [told EXCEPT !.s = @ + n]
                   ELSE [key |-> None, s |-> 0]

Ended == told' = IF ctx' = NoCtx THEN [key |-> None, s |-> 0] ELSE told

SignFinish(room, ok) == \E r \in psa_mac_sign_finish(ctx, bufs, room, ok) :
    /\ ctx' = r.c /\ bufs' = r.b /\ Ended
    /\ IF r.st = "SUCCESS" THEN Given(told.key, ctx.alg.fam, told.s, r.mac) ELSE Quiet

VerifyFinish(ref, ok) == \E r \in psa_mac_verify_finish(ctx, bufs, ref, ok) :
    /\ ctx' = r.c /\ bufs' = r.b /\ Ended
    /\ IF ctx = NoCtx THEN Quiet ELSE Judged(told.key, ctx.alg, told.s, ref, r.st)

Abort ==
    ctx' = NoCtx /\ bufs' = psa_mac_abort(ctx, bufs).b /\ Quiet /\ Ended

(* The operation of a one-shot call is on the stack and shares nothing with  *)
(* another: bound: these calls are made when none is active.                *)
Compute(key, alg, n, ok, room) == \E r \in psa_mac_compute(bufs, key, alg, n, ok, room) :
    /\ bufs' = r.b /\ UNCHANGED <<ctx, told>>
    /\ IF r.st = "SUCCESS" THEN Given(key, alg.fam, n, r.mac) ELSE Quiet

Verify(key, alg, n, ok, ref) == \E r \in psa_mac_verify(bufs, key, alg, n, ok, ref) :
    /\ bufs' = r.b /\ UNCHANGED <<ctx, told>>
    /\ Judged(key, alg, n, ref, r.st)

Next ==
    \/ \E key \in Keys, alg \in MacAlgs : Setup(key, alg)
    \/ \E n \in 0 .. MaxLen, ok \in BOOLEAN : Update(n, ok)
    \/ \E room \in {0, MinTrunc, MaxFull}, ok \in BOOLEAN : SignFinish(room, ok)
    \/ \E ref \in References, ok \in BOOLEAN : VerifyFinish(ref, ok)
    \/ Abort
    \/ \E key \in Keys, alg \in MacAlgs, n \in 0 .. MaxLen, ok \in BOOLEAN :
        /\ ctx = NoCtx /\ last.call = "none"
        /\ \/ \E room \in {0, MinTrunc, MaxFull} : Compute(key, alg, n, ok, room)
           \/ \E ref \in References : Verify(key, alg, n, ok, ref)

Spec == Init /\ [][Next]_vars

-----------------------------------------------------------------------------
(* psa_mac_verify_finish() and psa_mac_verify() accept only bytes that are,   *)
(* every one of them, the MAC of the message under the key; psa_mac_sign     *)
(* writes no other (src/src/psa_mac.c:568-588).                             *)
Authentic ==
    /\ last.call = "mac" => last.right
    /\ last.call = "verdict" /\ last.st = "SUCCESS" => last.genuine

(* A genuine MAC whose length the algorithm allows is not rejected: with the  *)
(* at-least flag any length up to the full one (src/src/psa_mac.c:555).       *)
GenuineAccepted ==
    last.call = "verdict" /\ last.genuine /\ (last.exact \/ last.long)
        => last.st # "INVALID_SIGNATURE"

(* What a permitted algorithm says of a MAC of n bytes: this length and no    *)
(* other or, with the at-least flag, this one or longer.                     *)
PolicyAllows(p, fam, n) ==
    /\ p # PSA_ALG_NONE /\ p.fam = fam
    /\ n = PSA_MAC_LENGTH(p) \/ (p.wild /\ n > PSA_MAC_LENGTH(p))

(* A MAC is written only at a length that the policy of the key allows.  One    *)
(* is accepted only at the length that the caller asked for, which the       *)
(* policy allows, or, when the caller asked with the at-least flag, at a     *)
(* greater one up to the full length.  The policy has no say in that: it is  *)
(* compared with the length asked for alone (src/src/psa_mac.c:187-190), so  *)
(* a key restricted to one exact length accepts longer MACs of a caller who  *)
(* asks with the flag (src/src/psa_mac.c:555-569).                          *)
LengthPolicy ==
    /\ last.call = "mac" => \E p \in last.policy : PolicyAllows(p, last.fam, last.len)
    /\ last.call = "verdict" /\ last.st = "SUCCESS" =>
          /\ last.exact \/ last.long
          /\ \E p \in last.policy : PolicyAllows(p, last.fam, last.least)

(* The key that wolfCrypt reads is allocated as long as the operation lives,  *)
(* and no path, a failed setup included, leaves a copy of a key behind       *)
(* (src/src/psa_mac.c:59, 358-392).                                         *)
KeyBuffersHeld ==
    /\ "key_data" \notin bufs
    /\ ctx = NoCtx => bufs = {}
    /\ ctx # NoCtx /\ ctx.keyRaw # None => ctx.keyRaw \in bufs

(* The MACs made are right and of a length that the policy of the key allows;  *)
(* verification accepts exactly the MACs of a length that the algorithm asked *)
(* for covers, and the policy allows the shortest of these lengths.         *)
VerdictsExact == Authentic /\ GenuineAccepted /\ LengthPolicy
=============================================================================
