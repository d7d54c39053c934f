------------------------- MODULE KeyTransportProofs -------------------------
(* Proofs about KeyTransport. *)
EXTENDS KeyTransport, TLAPS

(* What a call that is between two visits to the key store has allocated, and  *)
(* what it knows.                                                            *)
Shape ==
    \/ call = None /\ bufs = {}
    \/ /\ call \in WrapCalls
       /\ bufs = IF call.at = "attributes" THEN {"kek"} ELSE {"kek", "plaintext"}
    \/ call \in MakeCalls /\ bufs = IF call.fn = "unwrap" THEN {"plaintext"} ELSE {}
    \/ call \in EncapsulateCalls /\ bufs = {}
    \/ /\ call \in SecretCalls /\ bufs = {"secret"}
       /\ call.alg.cat = "KA" /\ call.alg.hash = "NONE"
    \/ call \in RawCalls /\ bufs = {"secret"} /\ call.fits = TRUE /\ call.allowed = TRUE

(* What a caller may see of an answer. *)
Sound(r) ==
    /\ r.fits = TRUE /\ r.allowed = TRUE
    /\ r.fn \in {"unwrap", "encapsulate", "decapsulate"} /\ r.st # "SUCCESS" => r.id = FALSE
    /\ r.fn = "encapsulate" => r.ct = r.id

Inv ==
    /\ store \in [Ids -> Keys \union {Absent}]
    /\ Shape
    /\ Sound(ret)

-----------------------------------------------------------------------------
(* A call that fails reports no output and no key. *)
LEMMA FailSound ==
    ASSUME NEW fn, NEW st, NEW held, NEW freed, Fail(fn, st, held, freed)
    PROVE  /\ call' = None /\ bufs' = (bufs \union held) \ freed /\ Sound(ret')
           /\ store' = store
<1>1. ret'.fits = TRUE /\ ret'.allowed = TRUE
  BY DEF Fail, Quiet
<1>2. ret'.id = FALSE /\ ret'.ct = FALSE
  BY DEF Fail, Quiet
<1>3. Sound(ret')
  BY <1>1, <1>2 DEF Sound
<1> QED BY <1>3 DEF Fail

(* So it keeps the invariant when it frees all it took and all it had. *)
LEMMA FailInv ==
    ASSUME Inv, NEW fn, NEW st, NEW held, NEW freed, Fail(fn, st, held, freed),
           bufs \union held \subseteq freed
    PROVE  Inv'
<1>1. call' = None /\ bufs' = {} /\ Sound(ret') /\ store' = store
  BY FailSound
<1>2. Shape'
  BY <1>1 DEF Shape
<1> QED BY <1>1, <1>2 DEF Inv

LEMMA QuietSound == Sound(Quiet)
BY DEF Sound, Quiet

(* Between two calls nothing is allocated. *)
LEMMA IdleBufs ==
    ASSUME ConstantsOK, Shape, call = None
    PROVE  bufs = {}
BY DEF Shape, ConstantsOK, Calls

(* An early refusal changes nothing but the answer. *)
LEMMA RefuseInv ==
    ASSUME ConstantsOK, Inv, Idle, NEW fn, NEW st, Refuse(fn, st)
    PROVE  Inv'
<1>1. call = None /\ bufs = {}
  BY IdleBufs DEF Inv, Idle
<1> QED BY <1>1, FailInv DEF Refuse

(* A key that passes the checks is there, and there is one copy of it. *)
LEMMA LoadKeyHeld ==
    ASSUME NEW k, NEW copy, NEW types, NEW usage, NEW alg,
           NEW g \in LoadKey(k, copy, types, usage, alg)
    PROVE  g.held \subseteq {copy} /\ (g.st = "SUCCESS" => k # Absent /\ g.held = {copy})
<1>1. PICK l \in wolfpsa_get_key_data(k, copy) :
         g = [st |-> IF l.st = "SUCCESS" THEN KeyStatus(k, types, usage, alg) ELSE l.st,
              held |-> l.held]
  BY DEF LoadKey
<1>2. l.held \subseteq {copy} /\ (l.st = "SUCCESS" => k # Absent /\ l.held = {copy})
  BY DEF wolfpsa_get_key_data
<1>3. g.held = l.held /\ (g.st = "SUCCESS" => l.st = "SUCCESS")
  BY <1>1
<1> QED BY <1>2, <1>3

LEMMA KemStatusHeld ==
    ASSUME NEW key, NEW types, NEW usage, NEW alg, NEW out_type,
           NEW g \in KemStatus(key, types, usage, alg, out_type)
    PROVE  /\ g.held \subseteq {"key_data"}
           /\ g.st = "SUCCESS" => store[key] # Absent /\ g.held = {"key_data"}
<1>1. CASE wolfpsa_kem_check_alg(alg) # "SUCCESS"
  BY <1>1 DEF KemStatus
<1>2. CASE wolfpsa_kem_check_alg(alg) = "SUCCESS"
  <2>1. PICK a \in wolfpsa_kem_check_output_attributes(out_type) :
           g \in IF a = "SUCCESS" THEN LoadKey(store[key], "key_data", types, usage, alg)
                 ELSE {[st |-> a, held |-> {}]}
    BY <1>2 DEF KemStatus
  <2>2. CASE a = "SUCCESS"
    BY <2>1, <2>2, LoadKeyHeld
  <2>3. CASE a # "SUCCESS"
    BY <2>1, <2>3
  <2> QED BY <2>2, <2>3
<1> QED BY <1>1, <1>2

(* The only policy that permits a raw agreement is the one that names it. *)
LEMMA RawPermitted ==
    ASSUME NEW a, NEW alg, a.cat = "KA" => a = Agree(a.fam, a.hash),
           alg.cat = "KA", alg.hash = "NONE", alg.fam = "ECDH",
           wolfpsa_asymmetric_alg_permitted(a, alg, "DERIVE")
    PROVE  a = PSA_ALG_ECDH
<1>1. CASE a.cat = "KA"
  <2>1. a.fam = "ECDH" /\ a.hash = "NONE"
    BY <1>1 DEF wolfpsa_asymmetric_alg_permitted, wolfpsa_key_agreement_alg_permitted
  <2>2. a = Agree(a.fam, a.hash)
    BY <1>1
  <2> QED BY <2>1, <2>2 DEF PSA_ALG_ECDH
<1>2. CASE a.cat # "KA"
  BY <1>2 DEF wolfpsa_asymmetric_alg_permitted, wolfpsa_sign_alg_permitted, AnyHashPermits,
     PSA_ALG_IS_SIGN_HASH, VerifyUsages
<1> QED BY <1>1, <1>2

(* The agreement leaves no copy; one that succeeds had the room, and the leave *)
(* of the key it used.                                                      *)
LEMMA AgreementLeaves ==
    ASSUME NEW k, NEW alg, NEW peer, NEW room,
           NEW g \in wolfpsa_key_agreement_secret(k, alg, peer, room)
    PROVE  /\ g.left = {}
           /\ g.st = "SUCCESS" =>
                 k # Absent /\ alg.fam = "ECDH" /\ AgreementStatus(k, alg, peer, room) = "SUCCESS"
<1>1. CASE alg.fam # "ECDH"
  BY <1>1 DEF wolfpsa_key_agreement_secret, AgreementOutcomes
<1>2. CASE alg.fam = "ECDH"
  <2> DEFINE verdict == AgreementStatus(k, alg, peer, room)
             after == {verdict} \union IF verdict = "SUCCESS" THEN WolfCryptFails ELSE {}
  <2>1. PICK l \in wolfpsa_get_key_data(k, "key_data") :
           g \in IF l.st # "SUCCESS" THEN {[st |-> l.st, left |-> l.held]}
                 ELSE {[st |-> s, left |-> l.held \ AgreementFreed(s)] : s \in after}
    BY <1>2, Zenon DEF wolfpsa_key_agreement_secret, AgreementOutcomes
  <2>2. /\ l.st # "SUCCESS" => l.held = {}
        /\ l.st = "SUCCESS" => l.held = {"key_data"} /\ k # Absent
    BY DEF wolfpsa_get_key_data
  <2>3. CASE l.st # "SUCCESS"
    BY <2>1, <2>2, <2>3
  <2>4. CASE l.st = "SUCCESS"
    <3> HIDE DEF verdict
    <3>1. PICK s \in after : g = [st |-> s, left |-> l.held \ AgreementFreed(s)]
      BY <2>1, <2>4
    <3>2. g.left = {} /\ g.st = s
      BY <2>2, <2>4, <3>1 DEF AgreementFreed
    <3>3. s = "SUCCESS" => verdict = "SUCCESS"
      BY <3>1 DEF WolfCryptFails
    <3> QED BY <1>2, <2>2, <2>4, <3>2, <3>3 DEF verdict
  <2> QED BY <2>3, <2>4
<1> QED BY <1>1, <1>2

LEMMA AgreementSuccess ==
    ASSUME ConstantsOK, NEW k \in Keys \union {Absent}, NEW alg, NEW peer, NEW room \in Nat,
           NEW g \in wolfpsa_key_agreement_secret(k, alg, peer, room), g.st = "SUCCESS"
    PROVE  /\ k \in Keys /\ (k.len <= room) = TRUE
           /\ alg.cat = "KA" /\ alg.hash = "NONE" => RawAllowed(k) = TRUE
<1>1. AgreementStatus(k, alg, peer, room) = "SUCCESS" /\ k # Absent /\ alg.fam = "ECDH"
  BY AgreementLeaves
<1>2. k \in Keys
  BY <1>1
<1>3. alg.fam = "ECDH"
  BY <1>1
<1>4. room >= k.len
  BY <1>1 DEF AgreementStatus
<1>5. k.len \in Nat
  BY <1>2 DEF ConstantsOK
<1>6. \/ wolfpsa_asymmetric_alg_permitted(k.alg, alg, "DERIVE")
      \/ wolfpsa_asymmetric_alg_permitted(k.alg2, alg, "DERIVE")
  BY <1>1 DEF AgreementStatus
<1>7. (k.len <= room) = TRUE
  BY <1>4, <1>5
<1>8. \A a \in {k.alg, k.alg2} : a.cat = "KA" => a = Agree(a.fam, a.hash)
  BY <1>2 DEF ConstantsOK
<1>9. ASSUME alg.cat = "KA", alg.hash = "NONE" PROVE RawAllowed(k) = TRUE
  BY <1>3, <1>6, <1>8, <1>9, RawPermitted DEF RawAllowed
<1> QED BY <1>2, <1>7, <1>9

-----------------------------------------------------------------------------
(* The actions, one by one. *)
LEMMA WrapStep ==
    ASSUME ConstantsOK, Inv, NEW key \in Ids, NEW alg \in KwAlgs, NEW target \in Ids,
           NEW room \in Rooms, psa_wrap_key(key, alg, target, room)
    PROVE  Inv'
<1>1. CASE Refuse("wrap", WrapAlgStatus(alg))
  BY <1>1, RefuseInv DEF psa_wrap_key
<1>2. CASE ~Refuse("wrap", WrapAlgStatus(alg))
  <2>1. PICK g \in LoadKey(store[key], "kek", {"AES"}, "WRAP", alg) :
           IF g.st # "SUCCESS" THEN Fail("wrap", g.st, g.held, {"kek"})
           ELSE /\ call' = [fn |-> "wrap", at |-> "attributes", kek |-> store[key].mat,
                            id |-> target, room |-> room, max |-> 0, attr |-> None]
                /\ bufs' = bufs \union g.held
                /\ UNCHANGED <<store, wire, ret>>
    BY <1>2 DEF psa_wrap_key
  <2>2. bufs = {} /\ g.held \subseteq {"kek"}
    BY LoadKeyHeld, IdleBufs DEF psa_wrap_key, Inv, Idle
  <2>3. CASE g.st # "SUCCESS"
    BY <2>1, <2>2, <2>3, FailInv
  <2>4. CASE g.st = "SUCCESS"
    <3>1. store[key] \in Keys
      BY <2>4, LoadKeyHeld DEF Inv
    <3>2. g.held = {"kek"}
      BY <2>4, LoadKeyHeld
    <3>3. bufs' = {"kek"} /\ store' = store /\ ret' = ret
      BY <2>1, <2>2, <2>4, <3>2
    <3>4. call' \in WrapCalls /\ call'.at = "attributes"
      BY <2>1, <2>4, <3>1 DEF WrapCalls, Materials
    <3>5. Shape'
      BY <3>3, <3>4 DEF Shape
    <3> QED BY <3>3, <3>5 DEF Inv
  <2> QED BY <2>3, <2>4
<1> QED BY <1>1, <1>2

(* A wrapping in progress, and what it holds. *)
LEMMA WrapInProgress ==
    ASSUME ConstantsOK, Shape, call # None, call.fn = "wrap"
    PROVE  /\ call \in WrapCalls
           /\ bufs = IF call.at = "attributes" THEN {"kek"} ELSE {"kek", "plaintext"}
BY DEF Shape, MakeCalls, EncapsulateCalls, SecretCalls, RawCalls

LEMMA WrapAttributesStep ==
    ASSUME ConstantsOK, Inv, psa_wrap_key_attributes
    PROVE  Inv'
<1> DEFINE target == store[call.id]
<1>1. call \in WrapCalls /\ bufs = {"kek"} /\ call.at = "attributes"
  BY WrapInProgress DEF Inv, psa_wrap_key_attributes
<1>2. ASSUME NEW st, Fail("wrap", st, {}, {"kek"})
      PROVE  Inv'
  BY <1>1, <1>2, FailInv
<1>3. CASE /\ target # Absent
           /\ call' = [call EXCEPT !.at = "export", !.max = target.len, !.attr = target]
           /\ bufs' = bufs \union {"plaintext"}
           /\ UNCHANGED <<store, wire, ret>>
  <2>1. target \in Keys
    BY <1>1, <1>3 DEF Inv, WrapCalls
  <2>2. target.len \in Nat
    BY <2>1 DEF ConstantsOK
  <2>3. call' \in WrapCalls /\ call'.at = "export"
    BY <1>1, <1>3, <2>1, <2>2 DEF WrapCalls
  <2>4. bufs' = {"kek", "plaintext"}
    BY <1>1, <1>3
  <2>5. Shape'
    BY <2>3, <2>4 DEF Shape
  <2> QED BY <1>3, <2>5 DEF Inv
<1> QED BY <1>2, <1>3 DEF psa_wrap_key_attributes

LEMMA WrapExportStep ==
    ASSUME ConstantsOK, Inv, psa_wrap_key_export
    PROVE  Inv'
<1> DEFINE target == store[call.id]
           exported == ExportStatus(target, call.attr, call.max)
           st == IF exported # "SUCCESS" THEN exported
                 ELSE IF target.len < 16 \/ target.len % 8 # 0 THEN "INVALID_ARGUMENT"
                 ELSE IF call.room < target.len + 8 THEN "BUFFER_TOO_SMALL"
                 ELSE "SUCCESS"
<1>1. call \in WrapCalls /\ bufs = {"kek", "plaintext"}
  BY WrapInProgress DEF Inv, psa_wrap_key_export
<1>2. ASSUME NEW s, Fail("wrap", s, {}, WrapFreed(s))
      PROVE  Inv'
  BY <1>1, <1>2, FailInv DEF WrapFreed
<1>3. CASE /\ st = "SUCCESS"
           /\ wire' = [kind |-> "wrapped", kek |-> call.kek, mat |-> target.mat, len |-> target.len + 8]
           /\ call' = None /\ bufs' = bufs \ WrapFreed(st)
           /\ ret' = [Quiet EXCEPT !.fn = "wrap", !.ct = TRUE,
                                   !.fits = target.len <= call.max /\ target.len + 8 <= call.room,
                                   !.allowed = "EXPORT" \in target.usage]
           /\ UNCHANGED store
  <2> DEFINE fits == target.len <= call.max /\ target.len + 8 <= call.room
             allowed == "EXPORT" \in target.usage
  <2>1. exported = "SUCCESS"
    BY <1>3
  <2>2. target # Absent /\ allowed /\ ~(target.len > call.max)
    BY <2>1 DEF ExportStatus
  <2>3. target \in Keys /\ call.max \in Nat /\ call.room \in Nat
    BY <1>1, <2>2 DEF Inv, WrapCalls, ConstantsOK
  <2>4. target.len \in Nat
    BY <2>3 DEF ConstantsOK
  <2>5. ~(call.room < target.len + 8)
    BY <1>3
  <2>6. fits
    BY <2>2, <2>3, <2>4, <2>5
  <2>7. ret' = [Quiet EXCEPT !.fn = "wrap", !.ct = TRUE, !.fits = fits, !.allowed = allowed]
    BY <1>3
  <2>8. (fits = TRUE) /\ (allowed = TRUE)
    BY <2>2, <2>6
  <2> HIDE DEF fits, allowed
  <2>9. ret'.fits = TRUE /\ ret'.allowed = TRUE
    BY <2>7, <2>8 DEF Quiet
  <2>10. ret'.fn = "wrap"
    BY <2>7 DEF Quiet
  <2>11. Sound(ret')
    BY <2>9, <2>10 DEF Sound
  <2>12. bufs' = {}
    BY <1>1, <1>3 DEF WrapFreed
  <2>13. Shape'
    BY <1>3, <2>12 DEF Shape
  <2> QED BY <1>3, <2>11, <2>13 DEF Inv
<1> HIDE DEF st
<1>4. \/ /\ st = "SUCCESS"
         /\ wire' = [kind |-> "wrapped", kek |-> call.kek, mat |-> target.mat, len |-> target.len + 8]
         /\ call' = None /\ bufs' = bufs \ WrapFreed(st)
         /\ ret' = [Quiet EXCEPT !.fn = "wrap", !.ct = TRUE,
                                 !.fits = target.len <= call.max /\ target.len + 8 <= call.room,
                                 !.allowed = "EXPORT" \in target.usage]
         /\ UNCHANGED store
      \/ Fail("wrap", "GENERIC_ERROR", {}, WrapFreed("GENERIC_ERROR"))
      \/ Fail("wrap", st, {}, WrapFreed(st))
  BY Zenon DEF psa_wrap_key_export, st
<1> QED BY <1>2, <1>3, <1>4

LEMMA UnwrapStep ==
    ASSUME ConstantsOK, Inv, NEW key \in Ids, NEW alg \in KwAlgs, NEW short \in BOOLEAN,
           psa_unwrap_key(key, alg, short)
    PROVE  Inv'
<1>1. ASSUME NEW st, Refuse("unwrap", st) PROVE Inv'
  BY <1>1, RefuseInv DEF psa_unwrap_key
<1>2. bufs = {}
  BY IdleBufs DEF psa_unwrap_key, Inv, Idle
<1>3. CASE WrapAlgStatus(alg) = "SUCCESS" /\ ~short
  <2>1. PICK g \in LoadKey(store[key], "kek", {"AES"}, "UNWRAP", alg) :
           LET both == g.held \union {"plaintext"}
               right == store[key].mat = wire.kek
           IN  IF g.st # "SUCCESS" THEN Fail("unwrap", g.st, g.held, UnwrapFreed(g.st))
               ELSE \/ Fail("unwrap", "INSUFFICIENT_MEMORY", g.held,
                            UnwrapFreed("INSUFFICIENT_MEMORY"))
                    \/ \E w \in WolfCryptFails : Fail("unwrap", w, both, UnwrapFreed(w))
                    \/ /\ ~right
                       /\ Fail("unwrap", "INVALID_SIGNATURE", both, UnwrapFreed("INVALID_SIGNATURE"))
                    \/ /\ right
                       /\ call' = [fn |-> "unwrap", at |-> "import", ct |-> FALSE, raw |-> FALSE]
                       /\ bufs' = (bufs \union both) \ UnwrapFreed("SUCCESS")
                       /\ UNCHANGED <<store, wire, ret>>
    BY <1>3, Zenon DEF psa_unwrap_key
  <2>2. g.held \subseteq {"kek"} /\ (g.st = "SUCCESS" => g.held = {"kek"})
    BY LoadKeyHeld
  <2>3. ASSUME NEW st, st # "SUCCESS", NEW held, held \subseteq {"kek", "plaintext"},
               Fail("unwrap", st, held, UnwrapFreed(st))
        PROVE  Inv'
    BY <1>2, <2>3, FailInv DEF UnwrapFreed
  <2>4. CASE /\ g.st = "SUCCESS"
             /\ call' = [fn |-> "unwrap", at |-> "import", ct |-> FALSE, raw |-> FALSE]
             /\ bufs' = (bufs \union (g.held \union {"plaintext"})) \ UnwrapFreed("SUCCESS")
             /\ UNCHANGED <<store, wire, ret>>
    <3>1. bufs' = {"plaintext"}
      BY <1>2, <2>2, <2>4 DEF UnwrapFreed
    <3>2. call' \in MakeCalls /\ call'.fn = "unwrap"
      BY <2>4 DEF MakeCalls
    <3>3. Shape'
      BY <3>1, <3>2 DEF Shape
    <3> QED BY <2>4, <3>3 DEF Inv
  <2>5. CASE g.st # "SUCCESS"
    BY <2>1, <2>2, <2>3, <2>5
  <2>6. CASE g.st = "SUCCESS"
    <3>1. g.held \union {"plaintext"} \subseteq {"kek", "plaintext"}
      BY <2>2
    <3>2. "SUCCESS" \notin WolfCryptFails
      BY DEF WolfCryptFails
    <3> QED BY <2>1, <2>2, <2>3, <2>4, <2>6, <3>1, <3>2
  <2> QED BY <2>5, <2>6
<1> QED BY <1>1, <1>3 DEF psa_unwrap_key

LEMMA EncapsulateStep ==
    ASSUME ConstantsOK, Inv, NEW key \in Ids, NEW alg, NEW out_type, NEW room,
           psa_encapsulate(key, alg, out_type, room)
    PROVE  Inv'
<1>1. PICK g \in KemStatus(key, {"ML_KEM", "ML_KEM_PUBLIC"}, "ENCRYPT", alg, out_type) :
        IF g.st # "SUCCESS" THEN Fail("encapsulate", g.st, g.held, KemFreed(g.st))
        ELSE IF room < CtLen
        THEN Fail("encapsulate", "BUFFER_TOO_SMALL", g.held, KemFreed("BUFFER_TOO_SMALL"))
        ELSE \/ \E w \in WolfCryptFails : Fail("encapsulate", w, g.held, KemFreed(w))
             \/ /\ call' = [fn |-> "encapsulate", at |-> "import", ct |-> TRUE, raw |-> FALSE,
                            to |-> store[key].mat]
                /\ bufs' = (bufs \union g.held) \ KemFreed("SUCCESS")
                /\ UNCHANGED <<store, wire, ret>>
  BY DEF psa_encapsulate
<1>2. bufs = {} /\ g.held \subseteq {"key_data"}
  BY KemStatusHeld, IdleBufs DEF psa_encapsulate, Inv, Idle
<1>3. ASSUME NEW st, Fail("encapsulate", st, g.held, KemFreed(st)) PROVE Inv'
  BY <1>2, <1>3, FailInv DEF KemFreed
<1>4. CASE /\ g.st = "SUCCESS"
           /\ call' = [fn |-> "encapsulate", at |-> "import", ct |-> TRUE, raw |-> FALSE,
                       to |-> store[key].mat]
           /\ bufs' = (bufs \union g.held) \ KemFreed("SUCCESS")
           /\ UNCHANGED <<store, wire, ret>>
  <2>1. store[key] \in Keys
    BY <1>4, KemStatusHeld DEF Inv
  <2>2. bufs' = {}
    BY <1>2, <1>4 DEF KemFreed
  <2>3. call' \in EncapsulateCalls
    BY <1>4, <2>1 DEF EncapsulateCalls, Materials
  <2>4. Shape'
    BY <2>2, <2>3 DEF Shape
  <2> QED BY <1>4, <2>4 DEF Inv
<1> QED BY <1>1, <1>3, <1>4

LEMMA DecapsulateStep ==
    ASSUME ConstantsOK, Inv, NEW key \in Ids, NEW alg, NEW out_type, NEW ct_len,
           psa_decapsulate(key, alg, out_type, ct_len)
    PROVE  Inv'
<1>1. PICK g \in KemStatus(key, {"ML_KEM"}, "DECRYPT", alg, out_type) :
        IF g.st # "SUCCESS" THEN Fail("decapsulate", g.st, g.held, KemFreed(g.st))
        ELSE IF ct_len # CtLen
        THEN Fail("decapsulate", "INVALID_ARGUMENT", g.held, KemFreed("INVALID_ARGUMENT"))
        ELSE \/ \E w \in WolfCryptFails : Fail("decapsulate", w, g.held, KemFreed(w))
             \/ /\ call' = [fn |-> "decapsulate", at |-> "import", ct |-> FALSE, raw |-> FALSE]
                /\ bufs' = (bufs \union g.held) \ KemFreed("SUCCESS")
                /\ UNCHANGED <<store, wire, ret>>
  BY DEF psa_decapsulate
<1>2. bufs = {} /\ g.held \subseteq {"key_data"}
  BY KemStatusHeld, IdleBufs DEF psa_decapsulate, Inv, Idle
<1>3. ASSUME NEW st, Fail("decapsulate", st, g.held, KemFreed(st)) PROVE Inv'
  BY <1>2, <1>3, FailInv DEF KemFreed
<1>4. CASE /\ call' = [fn |-> "decapsulate", at |-> "import", ct |-> FALSE, raw |-> FALSE]
           /\ bufs' = (bufs \union g.held) \ KemFreed("SUCCESS")
           /\ UNCHANGED <<store, wire, ret>>
  <2>1. bufs' = {}
    BY <1>2, <1>4 DEF KemFreed
  <2>2. call' \in MakeCalls /\ call'.fn # "unwrap"
    BY <1>4 DEF MakeCalls
  <2>3. Shape'
    BY <2>1, <2>2 DEF Shape
  <2> QED BY <1>4, <2>3 DEF Inv
<1> QED BY <1>1, <1>3, <1>4

LEMMA RawAgreementStep ==
    ASSUME ConstantsOK, Inv, NEW key \in Ids, NEW alg, NEW peer, NEW room \in Rooms,
           psa_raw_key_agreement(key, alg, peer, room)
    PROVE  Inv'
<1>1. ASSUME NEW st, Refuse("raw", st) PROVE Inv'
  BY <1>1, RefuseInv DEF psa_raw_key_agreement
<1>2. CASE ~(alg.cat # "KA" \/ alg.hash # "NONE")
  <2>1. PICK g \in wolfpsa_key_agreement_secret(store[key], alg, peer, room) :
           IF g.st # "SUCCESS" THEN Fail("raw", g.st, g.left, {})
           ELSE /\ bufs' = bufs \union g.left
                /\ ret' = [Quiet EXCEPT !.fn = "raw", !.ct = TRUE, !.fits = store[key].len <= room,
                                        !.allowed = RawAllowed(store[key])]
                /\ UNCHANGED <<store, call, wire>>
    BY <1>2 DEF psa_raw_key_agreement
  <2>2. bufs = {} /\ g.left = {}
    BY AgreementLeaves, IdleBufs DEF psa_raw_key_agreement, Inv, Idle
  <2>3. CASE g.st = "SUCCESS"
    <3> DEFINE fits == store[key].len <= room
               allowed == RawAllowed(store[key])
    <3>1. room \in Nat /\ store[key] \in Keys \union {Absent}
      BY DEF ConstantsOK, Inv
    <3>3. (fits = TRUE) /\ (allowed = TRUE)
      BY <1>2, <2>3, <3>1, AgreementSuccess
    <3>4. ret' = [Quiet EXCEPT !.fn = "raw", !.ct = TRUE, !.fits = fits, !.allowed = allowed]
      BY <2>1, <2>3
    <3>5. UNCHANGED <<store, call, bufs, wire>>
      BY <2>1, <2>3, <2>2
    <3> HIDE DEF fits, allowed
    <3>6. ret'.fits = TRUE /\ ret'.allowed = TRUE
      BY <3>3, <3>4 DEF Quiet
    <3>7. ret'.fn = "raw"
      BY <3>4 DEF Quiet
    <3>8. Sound(ret')
      BY <3>6, <3>7 DEF Sound
    <3> QED BY <3>5, <3>8 DEF Inv, Shape
  <2>4. CASE g.st # "SUCCESS"
    BY <2>1, <2>2, <2>4, FailInv
  <2> QED BY <2>3, <2>4
<1> QED BY <1>1, <1>2 DEF psa_raw_key_agreement

LEMMA AgreementStep ==
    ASSUME ConstantsOK, Inv, NEW key \in Ids, NEW alg \in KaAlgs, NEW peer \in Peers, NEW out_type,
           psa_key_agreement(key, alg, peer, out_type)
    PROVE  Inv'
<1> DEFINE room == IF store[key] = Absent THEN 0 ELSE store[key].len
<1>1. ASSUME NEW st, Refuse("agreement", st) PROVE Inv'
  BY <1>1, RefuseInv DEF psa_key_agreement
<1>2. bufs = {}
  BY IdleBufs DEF psa_key_agreement, Inv, Idle
<1>3. CASE /\ call' = [fn |-> "agreement", at |-> "import", ct |-> FALSE, raw |-> FALSE]
           /\ UNCHANGED <<store, bufs, wire, ret>>
  <2>1. call' \in MakeCalls /\ call'.fn # "unwrap"
    BY <1>3 DEF MakeCalls
  <2>2. Shape'
    BY <1>2, <1>3, <2>1 DEF Shape
  <2> QED BY <1>3, <2>2 DEF Inv
<1>4. CASE /\ alg.cat = "KA" /\ alg.hash = "NONE" /\ store[key] # Absent
           /\ call' = [fn |-> "agreement", at |-> "secret", id |-> key, alg |-> alg,
                       peer |-> peer, max |-> store[key].len]
           /\ bufs' = bufs \union {"secret"}
           /\ UNCHANGED <<store, wire, ret>>
  <2>1. store[key].len \in Nat
    BY <1>4 DEF Inv, ConstantsOK
  <2>2. call' \in SecretCalls /\ call'.alg = alg
    BY <1>4, <2>1 DEF SecretCalls
  <2>3. bufs' = {"secret"}
    BY <1>2, <1>4
  <2>4. Shape'
    BY <1>4, <2>2, <2>3 DEF Shape
  <2> QED BY <1>4, <2>4 DEF Inv
<1>5. CASE alg.cat = "KA" /\ alg.hash # "NONE"
  <2>1. CASE Refuse("agreement", "INVALID_ARGUMENT")
    BY <1>1, <2>1
  <2>2. CASE ~Refuse("agreement", "INVALID_ARGUMENT")
    <3>1. PICK g \in wolfpsa_key_agreement_secret(store[key], alg, peer, room) :
             IF g.st # "SUCCESS" THEN Fail("agreement", g.st, g.left, {})
             ELSE /\ call' = [fn |-> "agreement", at |-> "import", ct |-> FALSE, raw |-> FALSE]
                  /\ bufs' = bufs \union g.left
                  /\ UNCHANGED <<store, wire, ret>>
      BY <1>5, <2>2 DEF psa_key_agreement
    <3>2. g.left = {}
      BY AgreementLeaves
    <3>3. CASE g.st # "SUCCESS"
      BY <1>2, <3>1, <3>2, <3>3, FailInv
    <3>4. CASE g.st = "SUCCESS"
      BY <1>3, <3>1, <3>2, <3>4
    <3> QED BY <3>3, <3>4
  <2> QED BY <2>1, <2>2
<1>6. CASE ~(alg.cat = "KA" /\ alg.hash # "NONE")
  BY <1>1, <1>4, <1>6 DEF psa_key_agreement
<1> QED BY <1>5, <1>6

LEMMA AgreementSecretStep ==
    ASSUME ConstantsOK, Inv, psa_key_agreement_secret
    PROVE  Inv'
<1>1. /\ call \in SecretCalls /\ bufs = {"secret"}
      /\ call.alg.cat = "KA" /\ call.alg.hash = "NONE"
  BY DEF Inv, Shape, psa_key_agreement_secret, WrapCalls, MakeCalls, EncapsulateCalls, RawCalls
<1>2. PICK g \in wolfpsa_key_agreement_secret(store[call.id], call.alg, call.peer, call.max) :
        IF g.st # "SUCCESS" THEN Fail("agreement", g.st, g.left, {"secret"})
        ELSE /\ bufs' = bufs \union g.left
             /\ call' = [fn |-> "agreement", at |-> "import", ct |-> FALSE, raw |-> TRUE,
                         fits |-> store[call.id].len <= call.max,
                         allowed |-> RawAllowed(store[call.id])]
             /\ UNCHANGED <<store, wire, ret>>
  BY DEF psa_key_agreement_secret
<1>3. g.left = {}
  BY AgreementLeaves
<1>4. CASE g.st # "SUCCESS"
  BY <1>1, <1>2, <1>4, <1>3, FailInv
<1>5. CASE g.st = "SUCCESS"
  <2> DEFINE fits == store[call.id].len <= call.max
             allowed == RawAllowed(store[call.id])
  <2>1. store[call.id] \in Keys \union {Absent} /\ call.max \in Nat
    BY <1>1 DEF Inv, SecretCalls
  <2>2. (fits = TRUE) /\ (allowed = TRUE)
    BY <1>1, <1>5, <2>1, AgreementSuccess
  <2>3. call' = [fn |-> "agreement", at |-> "import", ct |-> FALSE, raw |-> TRUE,
                 fits |-> fits, allowed |-> allowed]
    BY <1>2, <1>5
  <2>4. UNCHANGED <<store, bufs, wire, ret>>
    BY <1>2, <1>5, <1>3
  <2> HIDE DEF fits, allowed
  <2>5. call' \in RawCalls
    BY <2>2, <2>3, Zenon DEF RawCalls
  <2>6. call'.fits = TRUE /\ call'.allowed = TRUE
    BY <2>2, <2>3
  <2>7. Shape'
    BY <1>1, <2>4, <2>5, <2>6 DEF Shape
  <2> QED BY <2>4, <2>7 DEF Inv
<1> QED BY <1>4, <1>5

LEMMA ImportStep ==
    ASSUME ConstantsOK, Inv, NEW ok \in BOOLEAN, NEW st, NEW id \in BOOLEAN,
           ok \/ st # "SUCCESS", ok => st = "SUCCESS", psa_import_key(ok, st, id)
    PROVE  Inv'
<1> DEFINE ct == CiphertextGiven(ok)
           given == ok \/ IdGiven(id)
           fits == call.raw => call.fits
           allowed == ok /\ call.raw => call.allowed
<1>1. call # None /\ call.at = "import"
  BY DEF psa_import_key
<1>2. \/ call \in MakeCalls /\ bufs = IF call.fn = "unwrap" THEN {"plaintext"} ELSE {}
      \/ call \in EncapsulateCalls /\ bufs = {}
      \/ call \in RawCalls /\ bufs = {"secret"} /\ call.fits = TRUE /\ call.allowed = TRUE
  BY <1>1 DEF Inv, Shape, WrapCalls, SecretCalls
<1>3. ret' = [Quiet EXCEPT !.fn = call.fn, !.st = st, !.ct = ct, !.id = given,
                           !.fits = fits, !.allowed = allowed]
  BY DEF psa_import_key
<1>4. call' = None /\ store' = store /\ bufs' = {}
  BY <1>2 DEF psa_import_key
<1>5. (fits = TRUE) /\ (allowed = TRUE)
  BY <1>2 DEF MakeCalls, EncapsulateCalls
<1>6. /\ (call.fn \in {"unwrap", "encapsulate", "decapsulate"} /\ st # "SUCCESS") => (given = FALSE)
      /\ (call.fn = "encapsulate") => (ct = given)
  BY <1>2 DEF CiphertextGiven, IdGiven, MakeCalls, EncapsulateCalls, RawCalls
<1> HIDE DEF ct, given, fits, allowed
<1>7. ret'.fits = fits /\ ret'.allowed = allowed
  BY <1>3 DEF Quiet
<1>8. ret'.fn = call.fn /\ ret'.st = st
  BY <1>3 DEF Quiet
<1>9. ret'.ct = ct /\ ret'.id = given
  BY <1>3 DEF Quiet
<1>10. Sound(ret')
  BY <1>5, <1>6, <1>7, <1>8, <1>9 DEF Sound
<1>11. Shape'
  BY <1>4 DEF Shape
<1> QED BY <1>4, <1>10, <1>11 DEF Inv

LEMMA ReplaceStep ==
    ASSUME Inv, NEW id \in Ids, Replace(id)
    PROVE  Inv'
<1>1. UNCHANGED <<call, bufs, wire, ret>>
  BY DEF Replace
<1>2. store' \in [Ids -> Keys \union {Absent}]
  BY DEF Replace, Inv
<1>3. Shape' /\ Sound(ret')
  BY <1>1 DEF Inv, Shape
<1> QED BY <1>2, <1>3 DEF Inv

LEMMA TakeAnswerStep ==
    ASSUME Inv, TakeAnswer
    PROVE  Inv'
<1>1. ret' = Quiet /\ UNCHANGED <<store, call, bufs, wire>>
  BY DEF TakeAnswer
<1>2. Shape'
  BY <1>1 DEF Inv, Shape
<1> QED BY <1>1, <1>2, QuietSound DEF Inv

-----------------------------------------------------------------------------
(* Inv is inductive. *)
LEMMA TransportInv ==
    ASSUME ConstantsOK
    PROVE  Spec => []Inv
<1>1. Init => Inv
  <2> SUFFICES ASSUME Init PROVE Inv
    OBVIOUS
  <2>1. Shape
    BY DEF Init, Shape
  <2> QED BY <2>1, QuietSound DEF Init, Inv
<1>2. Inv /\ [Next]_vars => Inv'
  <2> SUFFICES ASSUME Inv, [Next]_vars PROVE Inv'
    OBVIOUS
  <2>1. ASSUME NEW key \in Ids, NEW alg \in KwAlgs, NEW target \in Ids, NEW room \in Rooms,
               psa_wrap_key(key, alg, target, room)
        PROVE  Inv'
    BY <2>1, WrapStep
  <2>2. ASSUME NEW key \in Ids, NEW alg \in KwAlgs, NEW short \in BOOLEAN,
               psa_unwrap_key(key, alg, short)
        PROVE  Inv'
    BY <2>2, UnwrapStep
  <2>3. ASSUME NEW key \in Ids, NEW alg \in KemAlgs, NEW out_type \in OutTypes,
               NEW n \in Rooms \union {CtLen},
               \/ psa_encapsulate(key, alg, out_type, n)
               \/ psa_decapsulate(key, alg, out_type, n)
        PROVE  Inv'
    BY <2>3, EncapsulateStep, DecapsulateStep
  <2>4. ASSUME NEW key \in Ids, NEW alg \in KaAlgs, NEW peer \in Peers, NEW room \in Rooms,
               psa_raw_key_agreement(key, alg, peer, room)
        PROVE  Inv'
    BY <2>4, RawAgreementStep
  <2>5. ASSUME NEW key \in Ids, NEW alg \in KaAlgs, NEW peer \in Peers,
               NEW out_type \in OutTypes, psa_key_agreement(key, alg, peer, out_type)
        PROVE  Inv'
    BY <2>5, AgreementStep
  <2>6. ASSUME NEW key \in Ids, Replace(key) PROVE Inv'
    BY <2>6, ReplaceStep
  <2>7. CASE TakeAnswer
    BY <2>7, TakeAnswerStep
  <2>8. CASE psa_wrap_key_attributes \/ psa_wrap_key_export \/ psa_key_agreement_secret
    BY <2>8, WrapAttributesStep, WrapExportStep, AgreementSecretStep
  <2>9. CASE psa_import_key(TRUE, "SUCCESS", TRUE)
    BY <2>9, ImportStep
  <2>10. ASSUME NEW id \in BOOLEAN, psa_import_key(FALSE, "INSUFFICIENT_MEMORY", id)
         PROVE  Inv'
    <3>1. "INSUFFICIENT_MEMORY" # "SUCCESS"
      OBVIOUS
    <3> QED BY <2>10, <3>1, ImportStep
  <2>11. CASE UNCHANGED vars
    <3>1. UNCHANGED <<store, call, bufs, ret>>
      BY <2>11 DEF vars
    <3> QED BY <3>1 DEF Inv, Shape
  <2> QED
    BY <2>1, <2>2, <2>3, <2>4, <2>5, <2>6, <2>7, <2>8, <2>9, <2>10, <2>11, Zenon DEF Next
<1> QED BY <1>1, <1>2, PTL DEF Spec

(* A buffer sized from the attributes of a key holds what a later visit to the *)
(* store writes to it, and a key or a raw secret leaves only by leave of the   *)
(* key that is read then, whatever other threads replaced in between           *)
(* (psa_wrap_key(), psa_key_agreement(), psa_raw_key_agreement()).             *)
THEOREM FreshWhenUsed ==
    ASSUME ConstantsOK
    PROVE  Spec => []FreshAtUse
<1>1. Inv => FreshAtUse
  BY DEF Inv, Sound, FreshAtUse, SizedAtUse, LeavesByLeave
<1> QED BY <1>1, TransportInv, PTL

(* A failed psa_unwrap_key(), psa_encapsulate() or psa_decapsulate() gives no  *)
(* id, a ciphertext leaves with its key or not at all, and no call of the      *)
(* three groups leaves a copy of a key on the heap.  psa_key_agreement() is    *)
(* only in the last part: a failed import leaves its id set.                *)
THEOREM ReturnsClean ==
    ASSUME ConstantsOK
    PROVE  Spec => []CleanReturn
<1>1. Inv => AllOrNothing
  BY DEF Inv, Sound, AllOrNothing
<1>2. Inv => CopiesFreed
  BY IdleBufs DEF Inv, CopiesFreed
<1>3. Inv => CleanReturn
  BY <1>1, <1>2 DEF CleanReturn
<1> QED BY <1>3, TransportInv, PTL
=============================================================================
