---------------------------- MODULE KeyTransport ----------------------------
(***************************************************************************)
(* Keys that leave a key store and keys that are made from what arrives:    *)
(* key wrapping (src/src/psa_key_wrap.c), key encapsulation (psa_kem.c,     *)
(* psa_mlkem.c) and key agreement (psa_asymmetric_api.c, psa_montgomery.c). *)
(*                                                                         *)
(* One thread runs these calls.  Each of their visits to the key store is a *)
(* step of its own, because the lock is released in between: another thread *)
(* destroys keys and imports others under the same id.  The store itself is *)
(* the map it promises to be (KeyStore).                                    *)
(*                                                                         *)
(* Secrets are symbols: a wrapped key is [kek, mat], an ML-KEM ciphertext   *)
(* [to, r], the secret of an agreement the set of the two private keys.     *)
(***************************************************************************)
EXTENDS Policy

CONSTANTS
    Ids,       \* key ids
    Keys,      \* keys: [type, len, usage, alg, alg2, mat]
    KwAlgs, KemAlgs, KaAlgs,   \* algorithms asked of the three groups of calls
    OutTypes,  \* types of the keys asked for
    Peers,     \* public keys of peers: [type, len, mat]
    Rooms,     \* sizes of the caller's buffers
    CtLen,     \* length of an ML-KEM ciphertext
    Absent, None

(* The locals of a call between two visits to the key store, by what it does   *)
(* next; ct: it has a ciphertext to give, raw: it makes a key of a raw secret. *)
Materials == {k.mat : k \in Keys}
WrapCalls == [fn : {"wrap"}, at : {"attributes", "export"}, kek : Materials, id : Ids,
              room : Rooms, max : Nat, attr : Keys \union {None}]
MakeCalls == [fn : {"unwrap", "decapsulate", "agreement"}, at : {"import"},
              ct : {FALSE}, raw : {FALSE}]
EncapsulateCalls == [fn : {"encapsulate"}, at : {"import"}, ct : {TRUE}, raw : {FALSE},
                     to : Materials]
SecretCalls == [fn : {"agreement"}, at : {"secret"}, id : Ids, alg : KaAlgs,
                peer : Peers, max : Nat]
RawCalls == [fn : {"agreement"}, at : {"import"}, ct : {FALSE}, raw : {TRUE},
             fits : BOOLEAN, allowed : BOOLEAN]
Calls == WrapCalls \union MakeCalls \union EncapsulateCalls \union SecretCalls
         \union RawCalls

(* What the module takes for granted of its constants: no call is None, and   *)
(* the identifier of a key agreement has no fields but its family and its KDF. *)
ConstantsOK ==
    /\ None \notin Calls /\ Rooms \subseteq Nat
    /\ \A k \in Keys : k.len \in Nat
    /\ \A k \in Keys : \A a \in {k.alg, k.alg2} :
          a.cat = "KA" => a = Agree(a.fam, a.hash)

VARIABLES
    store,     \* id :> its key, or Absent
    call,      \* the call in progress, with its locals, or None
    bufs,      \* its buffers on the heap that hold keys
    wire,      \* the last wrapped key or ciphertext given to the caller
    ret        \* the last return: what was given to the caller

vars == <<store, call, bufs, wire, ret>>

Quiet == [fn |-> "none", st |-> "SUCCESS", id |-> FALSE, ct |-> FALSE,
          fits |-> TRUE, allowed |-> TRUE]

Init ==
    /\ store \in [Ids -> Keys \union {Absent}]
    /\ call = None /\ bufs = {} /\ wire = None /\ ret = Quiet

(* Bound: the answer of a call is looked at before anything else happens. *)
Idle == call = None /\ ret = Quiet
TakeAnswer == ret # Quiet /\ ret' = Quiet /\ UNCHANGED <<store, call, bufs, wire>>

(* The call fails: of the buffers it took, `held' and those it had, it frees   *)
(* some.  It gives no key id and no output.                                  *)
Fail(fn, st, held, freed) ==
    /\ call' = None /\ bufs' = (bufs \union held) \ freed
    /\ ret' = [Quiet EXCEPT !.fn = fn, !.st = st]
    /\ UNCHANGED <<store, wire>>

Refuse(fn, st) == Fail(fn, st, {}, {})

(* wolfpsa_get_key_data() makes a copy of the key on the heap, or none: a       *)
(* failure to allocate stands for those of the store too.                    *)
wolfpsa_get_key_data(k, copy) ==
    IF k = Absent THEN {[st |-> "INVALID_HANDLE", held |-> {}]}
    ELSE {[st |-> "INSUFFICIENT_MEMORY", held |-> {}], [st |-> "SUCCESS", held |-> {copy}]}

(* The checks of type, usage and algorithm that follow it. *)
KeyStatus(k, types, usage, alg) ==
    IF k.type \notin types THEN "INVALID_ARGUMENT"
    ELSE IF usage \notin k.usage \/ ~wolfpsa_key_permits_alg(k, alg) THEN "NOT_PERMITTED"
    ELSE "SUCCESS"

LoadKey(k, copy, types, usage, alg) ==
    {[st |-> IF g.st = "SUCCESS" THEN KeyStatus(k, types, usage, alg) ELSE g.st,
      held |-> g.held] : g \in wolfpsa_get_key_data(k, copy)}

WolfCryptFails == {"GENERIC_ERROR", "INSUFFICIENT_MEMORY"}

-----------------------------------------------------------------------------
(* Wrapping.  A null output, or an algorithm that is not KW, is refused. *)
WrapAlgStatus(alg) ==
    IF alg.cat # "WRAP" THEN "INVALID_ARGUMENT"
    ELSE IF alg = PSA_ALG_KWP THEN "NOT_SUPPORTED"
    ELSE IF alg # PSA_ALG_KW THEN "INVALID_ARGUMENT" ELSE "SUCCESS"

psa_wrap_key(wrapping_key, alg, key, room) ==
    /\ Idle
    /\ IF WrapAlgStatus(alg) # "SUCCESS" THEN Refuse("wrap", WrapAlgStatus(alg))
       ELSE \E g \in LoadKey(store[wrapping_key], "kek", {"AES"}, "WRAP", alg) :
           IF g.st # "SUCCESS" THEN Fail("wrap", g.st, g.held, {"kek"})
           ELSE /\ call' = [fn |-> "wrap", at |-> "attributes", kek |-> store[wrapping_key].mat,
                            id |-> key, room |-> room, max |-> 0, attr |-> None]
                /\ bufs' = bufs \union g.held
                /\ UNCHANGED <<store, wire, ret>>

(* psa_get_key_attributes() of the target sizes the buffer. *)
psa_wrap_key_attributes ==
    /\ call # None /\ call.fn = "wrap" /\ call.at = "attributes"
    /\ LET target == store[call.id] IN
       \/ target = Absent /\ Fail("wrap", "INVALID_HANDLE", {}, {"kek"})
       \/ target # Absent /\ Fail("wrap", "INSUFFICIENT_MEMORY", {}, {"kek"})
       \/ /\ target # Absent
          /\ call' = [call EXCEPT !.at = "export", !.max = target.len, !.attr = target]
          /\ bufs' = bufs \union {"plaintext"}
          /\ UNCHANGED <<store, wire, ret>>

(* Mutation: the policy that came with the attributes is relied on. *)
ExportStatus_stale(target, attr, max) ==
    IF target = Absent THEN "INVALID_HANDLE"
    ELSE IF "EXPORT" \notin attr.usage THEN "NOT_PERMITTED"
    ELSE IF target.len > max THEN "BUFFER_TOO_SMALL"
    ELSE "SUCCESS"

(* psa_export_key(): the key is looked up again, and its policy with it. *)
ExportStatus(target, attr, max) ==
    IF target = Absent THEN "INVALID_HANDLE"
    ELSE IF "EXPORT" \notin target.usage THEN "NOT_PERMITTED"
    ELSE IF target.len > max THEN "BUFFER_TOO_SMALL"
    ELSE "SUCCESS"

(* Mutation: the wrapping key is freed after the wrapping only. *)
WrapFreed_late(st) == IF st = "SUCCESS" THEN {"kek", "plaintext"} ELSE {"plaintext"}

(* Both buffers, whatever happened. *)
WrapFreed(st) == {"kek", "plaintext"}

(* RFC 3394 takes at least 16 bytes, in blocks of 8, and adds 8. *)
psa_wrap_key_export ==
    /\ call # None /\ call.fn = "wrap" /\ call.at = "export"
    /\ LET target == store[call.id]
           exported == ExportStatus(target, call.attr, call.max)
           st == IF exported # "SUCCESS" THEN exported
                 ELSE IF target.len < 16 \/ target.len % 8 # 0 THEN "INVALID_ARGUMENT"
                 ELSE IF call.room < target.len + 8 THEN "BUFFER_TOO_SMALL"
                 ELSE "SUCCESS"
       IN  \/ /\ st = "SUCCESS"
              /\ wire' = [kind |-> "wrapped", kek |-> call.kek, mat |-> target.mat, len |-> target.len + 8]
              /\ call' = None /\ bufs' = bufs \ WrapFreed(st)
              /\ ret' = [Quiet EXCEPT !.fn = "wrap", !.ct = TRUE,
                                      !.fits = target.len <= call.max /\ target.len + 8 <= call.room,
                                      !.allowed = "EXPORT" \in target.usage]
              /\ UNCHANGED store
           \/ st = "SUCCESS" /\ Fail("wrap", "GENERIC_ERROR", {}, WrapFreed("GENERIC_ERROR"))
           \/ st # "SUCCESS" /\ Fail("wrap", st, {}, WrapFreed(st))

(* Mutation: the path of a wrong check value frees the plaintext only. *)
UnwrapFreed_late(st) ==
    IF st = "SUCCESS" THEN {"kek"}
    ELSE IF st = "INVALID_SIGNATURE" THEN {"plaintext"} ELSE {"kek", "plaintext"}

(* The wrapping key is freed once it is used, the plaintext when there is no    *)
(* key to make of it; psa_import_key() takes it otherwise.                     *)
UnwrapFreed(st) == IF st = "SUCCESS" THEN {"kek"} ELSE {"kek", "plaintext"}

(* The wrapped key is refused by its length, or by the check value. *)
psa_unwrap_key(wrapping_key, alg, short) ==
    /\ Idle /\ wire # None /\ wire.kind = "wrapped"
    /\ IF WrapAlgStatus(alg) # "SUCCESS" THEN Refuse("unwrap", WrapAlgStatus(alg))
       ELSE IF short THEN Refuse("unwrap", "INVALID_ARGUMENT")
       ELSE \E g \in LoadKey(store[wrapping_key], "kek", {"AES"}, "UNWRAP", alg) :
           LET both == g.held \union {"plaintext"}
               right == store[wrapping_key].mat = wire.kek
           IN  IF g.st # "SUCCESS" THEN Fail("unwrap", g.st, g.held, UnwrapFreed(g.st))
               ELSE \/ Fail("unwrap", "INSUFFICIENT_MEMORY", g.held,
                            UnwrapFreed("INSUFFICIENT_MEMORY"))
                    \/ \E w \in WolfCryptFails : Fail("unwrap", w, both, UnwrapFreed(w))
                    \/ /\ ~right
                       /\ Fail("unwrap", "INVALID_SIGNATURE", both, UnwrapFreed("INVALID_SIGNATURE"))
                    \/ /\ right
                       /\ call' = [fn |-> "unwrap", at |-> "import", ct |-> FALSE, raw |-> FALSE]
                       /\ bufs' = (bufs \union both) \ UnwrapFreed("SUCCESS")
                       /\ UNCHANGED <<store, wire, ret>>

-----------------------------------------------------------------------------
(* Encapsulation. *)
wolfpsa_kem_check_alg(alg) ==
    IF alg = PSA_ALG_ML_KEM THEN "SUCCESS"
    ELSE IF alg.cat = "KEM" THEN "NOT_SUPPORTED" ELSE "INVALID_ARGUMENT"

(* The size asked for may also be wrong. *)
wolfpsa_kem_check_output_attributes(out_type) ==
    {"INVALID_ARGUMENT", IF out_type = "ECC" THEN "INVALID_ARGUMENT" ELSE "SUCCESS"}

KemStatus(key, types, usage, alg, out_type) ==
    IF wolfpsa_kem_check_alg(alg) # "SUCCESS"
    THEN {[st |-> wolfpsa_kem_check_alg(alg), held |-> {}]}
    ELSE UNION {IF a = "SUCCESS" THEN LoadKey(store[key], "key_data", types, usage, alg)
                ELSE {[st |-> a, held |-> {}]} :
                a \in wolfpsa_kem_check_output_attributes(out_type)}

(* Mutation: the caller's buffer is too small, and the key is not freed. *)
KemFreed_fits(st) == IF st = "BUFFER_TOO_SMALL" THEN {} ELSE {"key_data"}

(* The copy of the key is freed on every path, before the import if any. *)
KemFreed(st) == {"key_data"}

(* The ciphertext is staged; the secret is on the stack. *)
psa_encapsulate(key, alg, out_type, room) ==
    /\ Idle
    /\ \E g \in KemStatus(key, {"ML_KEM", "ML_KEM_PUBLIC"}, "ENCRYPT", alg, out_type) :
        IF g.st # "SUCCESS" THEN Fail("encapsulate", g.st, g.held, KemFreed(g.st))
        ELSE IF room < CtLen
        THEN Fail("encapsulate", "BUFFER_TOO_SMALL", g.held, KemFreed("BUFFER_TOO_SMALL"))
        ELSE \/ \E w \in WolfCryptFails : Fail("encapsulate", w, g.held, KemFreed(w))
             \/ /\ call' = [fn |-> "encapsulate", at |-> "import", ct |-> TRUE, raw |-> FALSE,
                            to |-> store[key].mat]
                /\ bufs' = (bufs \union g.held) \ KemFreed("SUCCESS")
                /\ UNCHANGED <<store, wire, ret>>

(* Only the length of a ciphertext can be wrong: FIPS 203 rejects implicitly. *)
psa_decapsulate(key, alg, out_type, ct_len) ==
    /\ Idle /\ wire # None /\ wire.kind = "kem"
    /\ \E g \in KemStatus(key, {"ML_KEM"}, "DECRYPT", alg, out_type) :
        IF g.st # "SUCCESS" THEN Fail("decapsulate", g.st, g.held, KemFreed(g.st))
        ELSE IF ct_len # CtLen
        THEN Fail("decapsulate", "INVALID_ARGUMENT", g.held, KemFreed("INVALID_ARGUMENT"))
        ELSE \/ \E w \in WolfCryptFails : Fail("decapsulate", w, g.held, KemFreed(w))
             \/ /\ call' = [fn |-> "decapsulate", at |-> "import", ct |-> FALSE, raw |-> FALSE]
                /\ bufs' = (bufs \union g.held) \ KemFreed("SUCCESS")
                /\ UNCHANGED <<store, wire, ret>>

-----------------------------------------------------------------------------
(* Agreement.  What wolfpsa_key_agreement_secret() makes of the key it loaded, *)
(* for a buffer of the size `room'; the Montgomery curves check the peer      *)
(* before the room.                                                          *)
AgreementStatus(k, alg, peer, room) ==
    LET permitted == /\ "DERIVE" \in k.usage
                     /\ \/ wolfpsa_asymmetric_alg_permitted(k.alg, alg, "DERIVE")
                        \/ wolfpsa_asymmetric_alg_permitted(k.alg2, alg, "DERIVE")
        fits == room >= k.len
        peerOk == peer.type = k.type /\ peer.len = k.len
    IN  IF ~permitted THEN "NOT_PERMITTED"
        ELSE IF k.type \notin {"ECC", "MONTGOMERY"} THEN "INVALID_ARGUMENT"
        ELSE IF k.type = "ECC" /\ ~fits THEN "BUFFER_TOO_SMALL"
        ELSE IF ~peerOk THEN "INVALID_ARGUMENT"
        ELSE IF ~fits THEN "BUFFER_TOO_SMALL" ELSE "SUCCESS"

(* Mutation: a refused peer key ends the call before the private key is freed. *)
AgreementFreed_late(st) == IF st = "INVALID_ARGUMENT" THEN {} ELSE {"key_data"}

(* The copy of the private key is freed on every path. *)
AgreementFreed(st) == {"key_data"}

(* The statuses it can return, each with the copies it leaves on the heap. *)
AgreementOutcomes(k, alg, peer, room) ==
    IF alg.fam # "ECDH" THEN {[st |-> "NOT_SUPPORTED", left |-> {}]}
    ELSE UNION {IF g.st # "SUCCESS" THEN {[st |-> g.st, left |-> g.held]}
                ELSE LET st == AgreementStatus(k, alg, peer, room)
                     IN  {[st |-> s, left |-> g.held \ AgreementFreed(s)] :
                          s \in {st} \union IF st = "SUCCESS" THEN WolfCryptFails ELSE {}} :
                g \in wolfpsa_get_key_data(k, "key_data")}

(* Mutation: the room is what the attributes said, and is not compared. *)
wolfpsa_key_agreement_secret_trusting(k, alg, peer, room) ==
    AgreementOutcomes(k, alg, peer, IF k = Absent THEN room ELSE k.len)

wolfpsa_key_agreement_secret(k, alg, peer, room) == AgreementOutcomes(k, alg, peer, room)

(* Would a policy of this key let its raw secret out? *)
RawAllowed(k) == PSA_ALG_ECDH \in {k.alg, k.alg2}

psa_raw_key_agreement(key, alg, peer, room) ==
    /\ Idle
    /\ IF alg.cat # "KA" \/ alg.hash # "NONE" THEN Refuse("raw", "INVALID_ARGUMENT")
       ELSE \E g \in wolfpsa_key_agreement_secret(store[key], alg, peer, room) :
           IF g.st # "SUCCESS" THEN Fail("raw", g.st, g.left, {})
           ELSE /\ bufs' = bufs \union g.left
                /\ ret' = [Quiet EXCEPT !.fn = "raw", !.ct = TRUE, !.fits = store[key].len <= room,
                                        !.allowed = RawAllowed(store[key])]
                /\ UNCHANGED <<store, call, wire>>

(* A combined algorithm goes through a key derivation: its inputs and its      *)
(* output may fail (KeyDerivation).  A raw one needs an unstructured type and  *)
(* the attributes of the private key, for the size of the secret.             *)
psa_key_agreement(key, alg, peer, out_type) ==
    /\ Idle
    /\ IF alg.cat # "KA" THEN Refuse("agreement", "NOT_SUPPORTED")
       ELSE IF alg.hash # "NONE" THEN
           \/ Refuse("agreement", "INVALID_ARGUMENT")
           \/ \E g \in wolfpsa_key_agreement_secret(store[key], alg, peer,
                            IF store[key] = Absent THEN 0 ELSE store[key].len) :
                 IF g.st # "SUCCESS" THEN Fail("agreement", g.st, g.left, {})
                 ELSE /\ call' = [fn |-> "agreement", at |-> "import", ct |-> FALSE, raw |-> FALSE]
                      /\ bufs' = bufs \union g.left
                      /\ UNCHANGED <<store, wire, ret>>
       ELSE IF out_type \notin {"DERIVE", "RAW_DATA", "HMAC", "PASSWORD"}
       THEN Refuse("agreement", "INVALID_ARGUMENT")
       ELSE IF store[key] = Absent THEN Refuse("agreement", "INVALID_HANDLE")
       ELSE IF store[key].type \notin {"ECC", "MONTGOMERY"} THEN Refuse("agreement", "NOT_SUPPORTED")
       ELSE \/ Refuse("agreement", "INSUFFICIENT_MEMORY")
            \/ /\ call' = [fn |-> "agreement", at |-> "secret", id |-> key, alg |-> alg,
                           peer |-> peer, max |-> store[key].len]
               /\ bufs' = bufs \union {"secret"}
               /\ UNCHANGED <<store, wire, ret>>

(* The private key is looked up again. *)
psa_key_agreement_secret ==
    /\ call # None /\ call.fn = "agreement" /\ call.at = "secret"
    /\ \E g \in wolfpsa_key_agreement_secret(store[call.id], call.alg, call.peer, call.max) :
        IF g.st # "SUCCESS" THEN Fail("agreement", g.st, g.left, {"secret"})
        ELSE /\ bufs' = bufs \union g.left
             /\ call' = [fn |-> "agreement", at |-> "import", ct |-> FALSE, raw |-> TRUE,
                         fits |-> store[call.id].len <= call.max,
                         allowed |-> RawAllowed(store[call.id])]
             /\ UNCHANGED <<store, wire, ret>>

-----------------------------------------------------------------------------
(* The last step of the calls that make a key: psa_import_key().  A failure     *)
(* may leave an id behind (KeyStore, FailedCallClearsId).                      *)

(* Mutation: the ciphertext is given before the secret is a key. *)
CiphertextGiven_early(ok) == call.ct

CiphertextGiven(ok) == ok /\ call.ct

(* Key agreement does not clear the id itself. *)
IdGiven(id) == id /\ call.fn = "agreement"

psa_import_key(ok, st, id) ==
    /\ call # None /\ call.at = "import"
    /\ call' = None /\ bufs' = bufs \ {"plaintext", "secret"}
    /\ wire' = IF CiphertextGiven(ok) THEN [kind |-> "kem", to |-> call.to] ELSE wire
    /\ ret' = [Quiet EXCEPT !.fn = call.fn, !.st = st, !.ct = CiphertextGiven(ok),
                            !.id = ok \/ IdGiven(id),
                            !.fits = call.raw => call.fits,
                            !.allowed = ok /\ call.raw => call.allowed]
    /\ UNCHANGED store

-----------------------------------------------------------------------------
(* Another thread. *)
Replace(id) ==
    /\ ret = Quiet
    /\ \/ store[id] # Absent /\ store' = [store EXCEPT ![id] = Absent]
       \/ /\ store[id] = Absent
          /\ \E k \in Keys : store' = [store EXCEPT ![id] = k]
    /\ UNCHANGED <<call, bufs, wire, ret>>

Next ==
    \/ \E key \in Ids :
        \/ \E alg \in KwAlgs :
            \/ \E target \in Ids, room \in Rooms : psa_wrap_key(key, alg, target, room)
            \/ \E short \in BOOLEAN : psa_unwrap_key(key, alg, short)
        \/ \E alg \in KemAlgs, out_type \in OutTypes, n \in Rooms \union {CtLen} :
            \/ psa_encapsulate(key, alg, out_type, n)
            \/ psa_decapsulate(key, alg, out_type, n)
        \/ \E alg \in KaAlgs, peer \in Peers :
            \/ \E room \in Rooms : psa_raw_key_agreement(key, alg, peer, room)
            \/ \E out_type \in OutTypes : psa_key_agreement(key, alg, peer, out_type)
        \/ Replace(key)
    \/ TakeAnswer
    \/ psa_wrap_key_attributes \/ psa_wrap_key_export \/ psa_key_agreement_secret
    \/ psa_import_key(TRUE, "SUCCESS", TRUE)
    \/ \E id \in BOOLEAN : psa_import_key(FALSE, "INSUFFICIENT_MEMORY", id)

Spec == Init /\ [][Next]_vars

-----------------------------------------------------------------------------
(* A buffer sized from the attributes of a key holds what is written to it,     *)
(* although the id may name a longer key by then: psa_export_key() and         *)
(* wolfpsa_key_agreement_secret() compare the size they are given             *)
(* (src/src/psa_key_wrap.c:137, src/src/psa_asymmetric_api.c:1690).            *)
SizedAtUse == ret.fits

(* Key material leaves only by leave of the key it belongs to, as its policy   *)
(* is at the moment it is read: a wrapped key permits export, and a raw shared *)
(* secret is given out or made a key only where the policy names the raw       *)
(* algorithm, not a KDF (src/src/psa_asymmetric_api.c:189, 1372).              *)
LeavesByLeave == ret.allowed

(* psa_unwrap_key(), psa_encapsulate() and psa_decapsulate() that fail give no  *)
(* id, and no ciphertext leaves psa_encapsulate() without its key              *)
(* (src/src/psa_kem.c:94-96, 172-184, src/src/psa_key_wrap.c:307).  Of         *)
(* psa_key_agreement() this is not so: it leaves the id of a failed import    *)
(* (src/src/psa_asymmetric_api.c:1694-1699, IdGiven).                         *)
AllOrNothing ==
    /\ ret.fn \in {"unwrap", "encapsulate", "decapsulate"} /\ ret.st # "SUCCESS" => ~ret.id
    /\ ret.fn = "encapsulate" => ret.ct = ret.id

(* No path of these calls leaves on the heap a copy of a key: of the wrapping   *)
(* key, of the key being wrapped or unwrapped, of the ML-KEM key, of the       *)
(* private key of an agreement or of its secret (src/src/psa_key_wrap.c:98-305, *)
(* psa_kem.c:123-168, 227-267, psa_asymmetric_api.c:1409-1561, 1684-1701).     *)
CopiesFreed == call = None => bufs = {}

(* What an earlier visit to the key store told of a key still holds for the    *)
(* key that is used, or the call refuses it.                                *)
FreshAtUse == SizedAtUse /\ LeavesByLeave

(* No call of the three groups, from any of its paths, leaves a copy of a key   *)
(* on the heap; one that unwraps, encapsulates or decapsulates gives all its   *)
(* outputs or none (an agreement does not, see AllOrNothing).                *)
CleanReturn == AllOrNothing /\ CopiesFreed
=============================================================================
