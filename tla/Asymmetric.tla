----------------------------- MODULE Asymmetric -----------------------------
(***************************************************************************)
(* The asymmetric signatures and encryption of src/src/psa_asymmetric_api.c *)
(* over the back ends psa_ecc.c, psa_rsa.c, psa_ed25519_ed448.c,            *)
(* psa_mldsa.c and psa_lms_xmss.c: what a signer makes through one entry    *)
(* point (of a hash or of a message) a verifier judges through another,     *)
(* under an algorithm and a context of its own.                            *)
(*                                                                         *)
(* Data is [h, m]: the digest of the message m under the hash h, or m       *)
(* itself when h is NONE.  A signature is the record of what wolfCrypt bound *)
(* together: [by, scheme, hash, data, ctx]; the randomness of a signature   *)
(* is left out.  Each call is an operator that gives the set of its         *)
(* possible results.                                                       *)
(***************************************************************************)
EXTENDS Policy, Sequences

CONSTANTS
    Keys,        \* keys: [name, type, pair, usage, alg, alg2]
    Requests,    \* type :> the algorithms asked of keys of that type
    HashLen,     \* hash :> length of its digests
    WcHashes,    \* the hashes of wc_psa_get_hash_type()
    MldsaHashes, \* the hashes of mldsa_psa_hash_to_wc()
    MsgLen,      \* message :> its length
    HashMax,     \* WOLFPSA_HASH_MAX_SIZE
    PrehashLen,  \* length of the prehash of HashEdDSA (64)
    SigLen,      \* type :> length of its signatures, or size of an RSA modulus
    Labels,      \* contexts and OAEP labels: "" is empty, "long" is over 255 bytes
    None         \* no output

VARIABLES
    sent,        \* the last signature or ciphertext made, and from what
    last         \* history: the last verdict, and what the right one was

vars == <<sent, last>>

(* The identifiers of algorithms: a family belongs to one category, and some    *)
(* families have no hash.                                                   *)
Hashless == {"PURE_EDDSA", "EDDSA_CTX", "ML_DSA", "DETERMINISTIC_ML_DSA", "LMS"}
Identifier(alg) ==
    \/ alg = Sign(alg.fam, alg.hash) /\ alg.fam \notin {"RSA_PKCS1V15_CRYPT", "RSA_OAEP"}
       /\ (alg.fam \in Hashless => alg.hash = "NONE")
    \/ alg = Encipher("RSA_PKCS1V15_CRYPT", "NONE") \/ alg = Encipher("RSA_OAEP", alg.hash)

KeyTypes == {"RSA", "ECC", "ED25519", "ED448", "ML_DSA", "LMS"}

(* Keys of one name are one key under several policies. *)
ConstantsOK ==
    /\ \A k \in Keys : k.type \in KeyTypes /\ k.pair \in BOOLEAN
    /\ \A k, l \in Keys : k.name = l.name => k.type = l.type
    /\ \A t \in KeyTypes : \A alg \in Requests[t] : Identifier(alg)
    /\ SigLen \in [KeyTypes \ {"LMS"} -> Nat] /\ MsgLen \in [DOMAIN MsgLen -> Nat]

Messages == DOMAIN MsgLen
Data == [h : DOMAIN HashLen \union {"NONE"}, m : Messages]
Digest(h, m) == [h |-> h, m |-> m]
DataLen(d) == IF d.h = "NONE" THEN MsgLen[d.m] ELSE HashLen[d.h]
Rooms == {0} \union {SigLen[t] : t \in DOMAIN SigLen}

(* Signatures that are not one: empty, and of a wrong length. *)
Malformed == [by : {None}, scheme : {"EMPTY", "SHORT"}, hash : {"NONE"}, data : {None}, ctx : {""}]

Init == sent = [call |-> "none"] /\ last = [call |-> "none"]

Failed(st) == [st |-> st, out |-> None]
Made(out) == [st |-> "SUCCESS", out |-> out]
Signature(key, scheme, hash, d, ctx) ==
    [by |-> key.name, scheme |-> scheme, hash |-> hash, data |-> d, ctx |-> ctx]

-----------------------------------------------------------------------------
(* The key may also be missing. *)
wolfpsa_asymmetric_check_key(key, usage, alg) ==
    {"INVALID_HANDLE",
     IF /\ usage \in key.usage
        /\ \/ wolfpsa_asymmetric_alg_permitted(key.alg, alg, usage)
           \/ wolfpsa_asymmetric_alg_permitted(key.alg2, alg, usage)
     THEN "SUCCESS" ELSE "NOT_PERMITTED"}

IsMldsa(alg) == alg.fam \in {"ML_DSA", "DETERMINISTIC_ML_DSA"} \/ PSA_ALG_IS_HASH_ML_DSA(alg)

(* Mutation: a context is let through where the back end ignores it. *)
wolfpsa_check_context_any(alg, ctx) == IF ctx = "long" THEN "INVALID_ARGUMENT" ELSE "SUCCESS"

wolfpsa_check_context(alg, ctx) ==
    IF ctx = "" \/ (ctx # "long" /\ (alg.fam \in {"EDDSA_CTX", "HASH_EDDSA"} \/ IsMldsa(alg)))
    THEN "SUCCESS" ELSE "INVALID_ARGUMENT"

wc_psa_get_hash_type(alg) == IF alg.hash \in WcHashes THEN alg.hash ELSE "NONE"

PSA_ALG_RSA_PKCS1V15_SIGN_RAW == Sign("RSA_PKCS1V15_SIGN", "NONE")

wc_psa_rsa_hash_length_ok(alg, d) ==
    \/ alg = PSA_ALG_RSA_PKCS1V15_SIGN_RAW
    \/ /\ PSA_ALG_SIGN_GET_HASH(alg) \in DOMAIN HashLen
       /\ DataLen(d) = HashLen[PSA_ALG_SIGN_GET_HASH(alg)]

(* The RSA padding of an algorithm, or "NONE". *)
wc_psa_get_rsa_padding(alg) ==
    CASE alg.fam \in {"RSA_PKCS1V15_SIGN", "RSA_PKCS1V15_CRYPT"} -> "PKCSV15"
      [] alg.fam \in {"RSA_PSS", "RSA_PSS_ANY_SALT"} -> "PSS"
      [] alg.fam = "RSA_OAEP" -> "OAEP"
      [] OTHER -> "NONE"

(* What wolfCrypt is asked to do for a key and an algorithm: [st], or         *)
(* [st, scheme, hash].  The same for both directions, but for the hash that  *)
(* a deterministic ECDSA signer needs.                                      *)
Scheme(st, scheme, hash) == [st |-> st, scheme |-> scheme, hash |-> hash]
NoScheme(st) == Scheme(st, "NONE", "NONE")

EccScheme(alg, signing) ==
    IF ~PSA_ALG_IS_ECDSA(alg) THEN NoScheme("NOT_SUPPORTED")
    ELSE IF signing /\ alg.fam = "DETERMINISTIC_ECDSA" /\ wc_psa_get_hash_type(alg) = "NONE"
    THEN NoScheme("NOT_SUPPORTED")
    ELSE Scheme("SUCCESS", "ECDSA", "NONE")

RsaScheme(alg, d) ==
    IF ~wc_psa_rsa_hash_length_ok(alg, d) THEN NoScheme("INVALID_ARGUMENT")
    ELSE IF wc_psa_get_rsa_padding(alg) \notin {"PKCSV15", "PSS"} THEN NoScheme("INVALID_ARGUMENT")
    ELSE IF alg = PSA_ALG_RSA_PKCS1V15_SIGN_RAW THEN Scheme("SUCCESS", "PKCSV15", "NONE")
    ELSE IF wc_psa_get_hash_type(alg) = "NONE" THEN NoScheme("NOT_SUPPORTED")
    ELSE Scheme("SUCCESS", wc_psa_get_rsa_padding(alg), wc_psa_get_hash_type(alg))

Ed25519Scheme(alg, ctx, d) ==
    IF alg \notin {Sign("PURE_EDDSA", "NONE"), Sign("EDDSA_CTX", "NONE"), Sign("HASH_EDDSA", "SHA_512")}
    THEN NoScheme("NOT_SUPPORTED")
    ELSE IF \/ ctx = "long"
            \/ alg.fam = "PURE_EDDSA" /\ ctx # ""
            \/ alg.fam = "HASH_EDDSA" /\ DataLen(d) # PrehashLen
    THEN NoScheme("INVALID_ARGUMENT")
    ELSE IF alg.fam = "HASH_EDDSA" THEN Scheme("SUCCESS", "Ed25519ph", "SHA_512")
    ELSE Scheme("SUCCESS", IF alg.fam = "EDDSA_CTX" THEN "Ed25519ctx" ELSE "Ed25519", "NONE")

(* Ed448 has no variant without a context. *)
Ed448Scheme(alg, ctx, d) ==
    IF alg \notin {Sign("PURE_EDDSA", "NONE"), Sign("EDDSA_CTX", "NONE"), Sign("HASH_EDDSA", "SHAKE256_512")}
    THEN NoScheme("NOT_SUPPORTED")
    ELSE IF \/ ctx = "long"
            \/ alg.fam = "PURE_EDDSA" /\ ctx # ""
            \/ alg.fam = "HASH_EDDSA" /\ DataLen(d) # PrehashLen
    THEN NoScheme("INVALID_ARGUMENT")
    ELSE IF alg.fam = "HASH_EDDSA" THEN Scheme("SUCCESS", "Ed448ph", "SHAKE256_512")
    ELSE Scheme("SUCCESS", "Ed448", "NONE")

MldsaScheme(alg, ctx, input_is_hash) ==
    IF ctx = "long" \/ input_is_hash # PSA_ALG_IS_HASH_ML_DSA(alg) THEN NoScheme("INVALID_ARGUMENT")
    ELSE IF ~input_is_hash THEN Scheme("SUCCESS", "ML-DSA", "NONE")
    ELSE IF alg.hash \notin MldsaHashes THEN NoScheme("NOT_SUPPORTED")
    ELSE Scheme("SUCCESS", "HashML-DSA", alg.hash)

-----------------------------------------------------------------------------
(* The back ends.  wolfCrypt may fail; a size, a curve or a variant may not    *)
(* be in the build.                                                          *)
WolfCryptFails == {"GENERIC_ERROR", "NOT_SUPPORTED", "INSUFFICIENT_MEMORY"}

SignWith(key, s, d, ctx) ==
    IF s.st # "SUCCESS" THEN {Failed(s.st)}
    ELSE {Made(Signature(key, s.scheme, s.hash, d, ctx))} \union {Failed(st) : st \in WolfCryptFails}

(* The failures of wolfCrypt that are returned as INVALID_SIGNATURE, "FOLDED"    *)
(* here to tell them from a verdict: any of wc_ecc_rs_raw_to_sig() and of the *)
(* PSS padding check.  The codes that wc_psa_rsa_status() folds besides are   *)
(* about the signature itself.                                               *)
Folded(scheme) == IF scheme \in {"ECDSA", "PSS"} THEN {"FOLDED"} ELSE {}

VerifyWith(key, s, d, ctx, sig) ==
    IF s.st # "SUCCESS" THEN {s.st}
    ELSE WolfCryptFails \union
         (IF sig.scheme = "SHORT"
          THEN {"INVALID_SIGNATURE"} \union (IF key.type = "ECC" THEN {} ELSE {"INVALID_ARGUMENT"})
          ELSE {IF sig = Signature(key, s.scheme, s.hash, d, ctx) THEN "SUCCESS" ELSE "INVALID_SIGNATURE"}
               \union Folded(s.scheme))

psa_asymmetric_sign_ecc(key, alg, d) ==
    IF ~key.pair THEN {Failed("INVALID_ARGUMENT")} ELSE SignWith(key, EccScheme(alg, TRUE), d, "")
psa_asymmetric_verify_ecc(key, alg, d, sig) == VerifyWith(key, EccScheme(alg, FALSE), d, "", sig)

psa_asymmetric_sign_rsa(key, alg, d) ==
    IF ~key.pair THEN {Failed("INVALID_ARGUMENT")} ELSE SignWith(key, RsaScheme(alg, d), d, "")

(* The length of the signature is compared before the padding and its hash. *)
psa_asymmetric_verify_rsa(key, alg, d, sig) ==
    IF sig.scheme = "SHORT" /\ wc_psa_rsa_hash_length_ok(alg, d)
    THEN {"INVALID_SIGNATURE"} \union WolfCryptFails
    ELSE VerifyWith(key, RsaScheme(alg, d), d, "", sig)

psa_asymmetric_sign_ed25519(key, alg, d, ctx) == SignWith(key, Ed25519Scheme(alg, ctx, d), d, ctx)
psa_asymmetric_verify_ed25519(key, alg, d, ctx, sig) ==
    VerifyWith(key, Ed25519Scheme(alg, ctx, d), d, ctx, sig)

psa_asymmetric_sign_ed448(key, alg, d, ctx) == SignWith(key, Ed448Scheme(alg, ctx, d), d, ctx)
psa_asymmetric_verify_ed448(key, alg, d, ctx, sig) ==
    VerifyWith(key, Ed448Scheme(alg, ctx, d), d, ctx, sig)

(* Mutation: the room is left to the caller to compare. *)
wolfpsa_mldsa_sign_unchecked(key, alg, ctx, d, input_is_hash, room) ==
    SignWith(key, MldsaScheme(alg, ctx, input_is_hash), d, ctx)

(* ML-DSA checks the room for a signature itself. *)
wolfpsa_mldsa_sign(key, alg, ctx, d, input_is_hash, room) ==
    IF ctx # "long" /\ room < SigLen["ML_DSA"] THEN {Failed("BUFFER_TOO_SMALL")}
    ELSE SignWith(key, MldsaScheme(alg, ctx, input_is_hash), d, ctx)
wolfpsa_mldsa_verify(key, alg, ctx, d, input_is_hash, sig) ==
    VerifyWith(key, MldsaScheme(alg, ctx, input_is_hash), d, ctx, sig)

(* LMS, HSS, XMSS and XMSS^MT: wolfCrypt verifies only. *)
wolfpsa_lms_verify(key, d, sig) == VerifyWith(key, Scheme("SUCCESS", "LMS", "NONE"), d, "", sig)

(* The dispatch that the workers for hashes and for messages share. *)
SignBackEnd(key, alg, d, ctx) ==
    CASE key.type = "RSA" -> psa_asymmetric_sign_rsa(key, alg, d)
      [] key.type = "ED25519" /\ key.pair -> psa_asymmetric_sign_ed25519(key, alg, d, ctx)
      [] key.type = "ED448" /\ key.pair -> psa_asymmetric_sign_ed448(key, alg, d, ctx)
      [] OTHER -> psa_asymmetric_sign_ecc(key, alg, d)   \* public Edwards keys too

VerifyBackEnd(key, alg, d, ctx, sig) ==
    CASE key.type = "RSA" -> psa_asymmetric_verify_rsa(key, alg, d, sig)
      [] key.type = "ED25519" -> psa_asymmetric_verify_ed25519(key, alg, d, ctx, sig)
      [] key.type = "ED448" -> psa_asymmetric_verify_ed448(key, alg, d, ctx, sig)
      [] OTHER -> psa_asymmetric_verify_ecc(key, alg, d, sig)

-----------------------------------------------------------------------------
(* The entry points. *)
wolfpsa_sign_hash_worker(key, alg, d, ctx, room) ==
    UNION {IF v # "SUCCESS" THEN {Failed(v)}
           ELSE IF wolfpsa_check_context(alg, ctx) # "SUCCESS" THEN {Failed("INVALID_ARGUMENT")}
           ELSE IF key.type = "ML_DSA" THEN
               (IF PSA_ALG_IS_HASH_ML_DSA(alg) /\ key.pair
                THEN wolfpsa_mldsa_sign(key, alg, ctx, d, TRUE, room)
                ELSE {Failed("INVALID_ARGUMENT")})
           ELSE IF ~PSA_ALG_IS_SIGN_HASH(alg) \/ key.type = "LMS" THEN {Failed("INVALID_ARGUMENT")}
           ELSE IF room < SigLen[key.type] THEN {Failed("BUFFER_TOO_SMALL")}
           ELSE SignBackEnd(key, alg, d, ctx) :
           v \in wolfpsa_asymmetric_check_key(key, "SIGN_HASH", alg)}

wolfpsa_verify_hash_worker(key, alg, d, ctx, sig) ==
    UNION {IF v # "SUCCESS" THEN {v}
           ELSE IF sig.scheme = "EMPTY" THEN {"INVALID_SIGNATURE"}
           ELSE IF wolfpsa_check_context(alg, ctx) # "SUCCESS" THEN {"INVALID_ARGUMENT"}
           ELSE IF key.type = "ML_DSA" THEN
               (IF PSA_ALG_IS_HASH_ML_DSA(alg) THEN wolfpsa_mldsa_verify(key, alg, ctx, d, TRUE, sig)
                ELSE {"INVALID_ARGUMENT"})
           ELSE IF ~PSA_ALG_IS_SIGN_HASH(alg) \/ key.type = "LMS" THEN {"INVALID_ARGUMENT"}
           ELSE VerifyBackEnd(key, alg, d, ctx, sig) :
           v \in wolfpsa_asymmetric_check_key(key, "VERIFY_HASH", alg)}

IsEdwards(key) == key.type \in {"ED25519", "ED448"}

(* Mutation: the message itself goes to the back end. *)
Prehash_raw(alg, m) == [st |-> "SUCCESS", d |-> Digest("NONE", m)]

(* What a message worker does with the message before it dispatches:          *)
(* [st], or the data for the back end.                                       *)
Prehash(alg, m) ==
    IF alg = PSA_ALG_RSA_PKCS1V15_SIGN_RAW
    THEN [st |-> IF MsgLen[m] > HashMax THEN "INVALID_ARGUMENT" ELSE "SUCCESS", d |-> Digest("NONE", m)]
    ELSE IF PSA_ALG_SIGN_GET_HASH(alg) = "NONE"
    THEN [st |-> "NOT_SUPPORTED", d |-> Digest("NONE", m)]
    ELSE [st |-> IF alg.hash \in DOMAIN HashLen THEN "SUCCESS" ELSE "NOT_SUPPORTED",
          d |-> Digest(alg.hash, m)]

(* psa_hash_compute() of a hash the build knows. *)
Mldsa_prehash(alg, m) == [st |-> IF alg.hash \in DOMAIN HashLen THEN "SUCCESS" ELSE "NOT_SUPPORTED",
                          d |-> Digest(alg.hash, m)]

wolfpsa_sign_message_worker(key, alg, m, ctx, room) ==
    LET pre == IF key.type = "ML_DSA" THEN Mldsa_prehash(alg, m) ELSE Prehash(alg, m) IN
    UNION {IF v # "SUCCESS" THEN {Failed(v)}
           ELSE IF wolfpsa_check_context(alg, ctx) # "SUCCESS" THEN {Failed("INVALID_ARGUMENT")}
           ELSE IF key.type # "LMS" /\ room < SigLen[key.type] THEN {Failed("BUFFER_TOO_SMALL")}
           ELSE IF key.type = "ML_DSA" THEN
               (IF ~IsMldsa(alg) \/ ~key.pair THEN {Failed("INVALID_ARGUMENT")}
                ELSE IF ~PSA_ALG_IS_HASH_ML_DSA(alg)
                THEN wolfpsa_mldsa_sign(key, alg, ctx, Digest("NONE", m), FALSE, room)
                ELSE IF pre.st # "SUCCESS" THEN {Failed(pre.st)}
                ELSE wolfpsa_mldsa_sign(key, alg, ctx, pre.d, TRUE, room))
           ELSE IF key.type = "LMS" THEN {Failed("INVALID_ARGUMENT")}
           ELSE IF alg.fam \in {"PURE_EDDSA", "EDDSA_CTX"} /\ IsEdwards(key) /\ key.pair
           THEN SignBackEnd(key, alg, Digest("NONE", m), ctx)
           ELSE IF pre.st # "SUCCESS" THEN {Failed(pre.st)}
           ELSE SignBackEnd(key, alg, pre.d, ctx) :
           v \in wolfpsa_asymmetric_check_key(key, "SIGN_MESSAGE", alg)}

wolfpsa_verify_message_worker(key, alg, m, ctx, sig) ==
    LET pre == IF key.type = "ML_DSA" THEN Mldsa_prehash(alg, m) ELSE Prehash(alg, m) IN
    UNION {IF v # "SUCCESS" THEN {v}
           ELSE IF sig.scheme = "EMPTY" THEN {"INVALID_SIGNATURE"}
           ELSE IF wolfpsa_check_context(alg, ctx) # "SUCCESS" THEN {"INVALID_ARGUMENT"}
           ELSE IF key.type = "ML_DSA" THEN
               (IF ~IsMldsa(alg) THEN {"INVALID_ARGUMENT"}
                ELSE IF ~PSA_ALG_IS_HASH_ML_DSA(alg)
                THEN wolfpsa_mldsa_verify(key, alg, ctx, Digest("NONE", m), FALSE, sig)
                ELSE IF pre.st # "SUCCESS" THEN {pre.st}
                ELSE wolfpsa_mldsa_verify(key, alg, ctx, pre.d, TRUE, sig))
           ELSE IF key.type = "LMS" THEN
               (IF alg # Sign("LMS", "NONE") THEN {"INVALID_ARGUMENT"}
                ELSE wolfpsa_lms_verify(key, Digest("NONE", m), sig))
           ELSE IF alg.fam \in {"PURE_EDDSA", "EDDSA_CTX"} /\ IsEdwards(key)
           THEN VerifyBackEnd(key, alg, Digest("NONE", m), ctx, sig)
           ELSE IF pre.st # "SUCCESS" THEN {pre.st}
           ELSE VerifyBackEnd(key, alg, pre.d, ctx, sig) :
           v \in wolfpsa_asymmetric_check_key(key, "VERIFY_MESSAGE", alg)}

-----------------------------------------------------------------------------
(* Encryption: a ciphertext is [to, fam, hash, m, label].  Only OAEP binds a    *)
(* hash and a label; the padding of PKCS#1 v1.5 does not.                    *)
Ciphertext(key, alg, m, label) ==
    LET oaep == wc_psa_get_rsa_padding(alg) = "OAEP" IN
    [to |-> key.name, fam |-> wc_psa_get_rsa_padding(alg), m |-> m,
     hash |-> IF oaep THEN wc_psa_get_hash_type(alg) ELSE "NONE",
     label |-> IF oaep THEN label ELSE ""]

(* The padding and its hash are ones that RSA encrypts with. *)
CryptStatus(alg) ==
    IF wc_psa_get_rsa_padding(alg) \notin {"PKCSV15", "OAEP"} THEN "INVALID_ARGUMENT"
    ELSE IF wc_psa_get_rsa_padding(alg) = "OAEP" /\ wc_psa_get_hash_type(alg) = "NONE"
    THEN "INVALID_ARGUMENT" ELSE "SUCCESS"

psa_asymmetric_encrypt_rsa(key, alg, m, label, room) ==
    IF room < SigLen["RSA"] THEN {Failed("BUFFER_TOO_SMALL")}
    ELSE IF CryptStatus(alg) # "SUCCESS" THEN {Failed(CryptStatus(alg))}
    ELSE {Made(Ciphertext(key, alg, m, label))}
         \union {Failed(st) : st \in WolfCryptFails \union {"INVALID_ARGUMENT"}}  \* too long

(* Mutation: the plaintext is written before its length is compared. *)
psa_asymmetric_decrypt_rsa_early(key, alg, c, label, room) ==
    IF ~key.pair THEN {Failed("INVALID_ARGUMENT")}
    ELSE IF CryptStatus(alg) # "SUCCESS" THEN {Failed(CryptStatus(alg))}
    ELSE IF c # Ciphertext(key, alg, c.m, label) THEN {Failed("INVALID_PADDING")}
    ELSE {Made(c.m)}

(* The plaintext goes into a buffer of its own; its length decides then. *)
psa_asymmetric_decrypt_rsa(key, alg, c, label, room) ==
    IF ~key.pair THEN {Failed("INVALID_ARGUMENT")}
    ELSE {Failed(st) : st \in WolfCryptFails}
         \union (IF CryptStatus(alg) # "SUCCESS" THEN {Failed(CryptStatus(alg))}
                 ELSE IF c # Ciphertext(key, alg, c.m, label) THEN {Failed("INVALID_PADDING")}
                 ELSE IF MsgLen[c.m] > room THEN {Failed("BUFFER_TOO_SMALL")}
                 ELSE {Made(c.m)})

psa_asymmetric_encrypt(key, alg, m, label, room) ==
    UNION {IF v # "SUCCESS" THEN {Failed(v)}
           ELSE IF key.type = "RSA" THEN psa_asymmetric_encrypt_rsa(key, alg, m, label, room)
           ELSE {Failed("NOT_SUPPORTED")} :
           v \in wolfpsa_asymmetric_check_key(key, "ENCRYPT", alg)}

psa_asymmetric_decrypt(key, alg, c, label, room) ==
    UNION {IF v # "SUCCESS" THEN {Failed(v)}
           ELSE IF key.type = "RSA" THEN psa_asymmetric_decrypt_rsa(key, alg, c, label, room)
           ELSE {Failed("NOT_SUPPORTED")} :
           v \in wolfpsa_asymmetric_check_key(key, "DECRYPT", alg)}

-----------------------------------------------------------------------------
(* The input of a call: entry is "hash" or "message". *)
Inputs == {[entry |-> "hash", d |-> d] : d \in Data}
          \union {[entry |-> "message", d |-> Digest("NONE", m)] : m \in Messages}

(* Bound: one signature or ciphertext is made and judged, then the next.  The   *)
(* calls keep no state, so more of them at a time would not interact.         *)
psa_sign(key, alg, in, ctx, room) ==
    /\ sent.call = "none" /\ last.call = "none"
    /\ \E r \in IF in.entry = "hash" THEN wolfpsa_sign_hash_worker(key, alg, in.d, ctx, room)
                ELSE wolfpsa_sign_message_worker(key, alg, in.d.m, ctx, room) :
        /\ r.st = "SUCCESS"
        /\ sent' = [call |-> "sign", key |-> key, alg |-> alg, in |-> in, ctx |-> ctx, out |-> r.out,
                    fits |-> room >= SigLen[key.type]]
    /\ UNCHANGED last

(* wolfPSA has no signer for LMS, HSS, XMSS and XMSS^MT: one elsewhere made    *)
(* the signature of a message.                                              *)
SignedElsewhere(key, alg, in) ==
    /\ sent.call = "none" /\ last.call = "none"
    /\ key.type = "LMS" /\ alg = Sign("LMS", "NONE") /\ in.entry = "message"
    /\ sent' = [call |-> "sign", key |-> key, alg |-> alg, in |-> in, ctx |-> "",
                out |-> Signature(key, "LMS", "NONE", in.d, ""), fits |-> TRUE]
    /\ UNCHANGED last

(* The bytes that the algorithm is meant to sign: the digest of a message    *)
(* under the hash that a hash-and-sign algorithm names, or the input itself. *)
Signed(alg, in) ==
    IF in.entry = "hash" \/ alg.hash = "NONE" THEN in.d ELSE Digest(alg.hash, in.d.m)

(* Two algorithms of one signature scheme, whose signatures are the same. *)
SameScheme(type, a, b) ==
    \/ a = b
    \/ PSA_ALG_IS_ECDSA(a) /\ PSA_ALG_IS_ECDSA(b)
    \/ PSA_ALG_IS_HASH_ML_DSA(a) /\ PSA_ALG_IS_HASH_ML_DSA(b) /\ a.hash = b.hash
    \/ {a.fam, b.fam} \subseteq {"ML_DSA", "DETERMINISTIC_ML_DSA"}
    \/ {a.fam, b.fam} \subseteq {"RSA_PSS", "RSA_PSS_ANY_SALT"} /\ a.hash = b.hash
    \/ type = "ED448" /\ {a.fam, b.fam} \subseteq {"PURE_EDDSA", "EDDSA_CTX"}

(* sig is the one that was made, with this key, of this input and context. *)
Genuine(key, alg, in, ctx, sig) ==
    /\ sent.call = "sign" /\ sig = sent.out /\ sent.key.name = key.name /\ ctx = sent.ctx
    /\ SameScheme(key.type, alg, sent.alg)
    /\ Signed(alg, in) = Signed(sent.alg, sent.in)

psa_verify(key, alg, in, ctx, sig) ==
    /\ last.call = "none"
    /\ \E st \in IF in.entry = "hash" THEN wolfpsa_verify_hash_worker(key, alg, in.d, ctx, sig)
                ELSE wolfpsa_verify_message_worker(key, alg, in.d.m, ctx, sig) :
        /\ last' = [call |-> "verify", st |-> IF st = "FOLDED" THEN "INVALID_SIGNATURE" ELSE st,
                    folded |-> st = "FOLDED", type |-> key.type,
                    genuine |-> Genuine(key, alg, in, ctx, sig)]
        /\ UNCHANGED sent

psa_encrypt(key, alg, m, label, room) ==
    /\ sent.call = "none" /\ last.call = "none"
    /\ \E r \in psa_asymmetric_encrypt(key, alg, m, label, room) :
        /\ r.st = "SUCCESS"
        /\ sent' = [call |-> "encrypt", key |-> key, alg |-> alg, m |-> m, label |-> label, out |-> r.out]
    /\ UNCHANGED last

(* Two algorithms of one padding: nothing refuses to encrypt with the PKCS#1     *)
(* v1.5 padding under the identifier of a signature.                         *)
SamePadding(a, b) ==
    a = b \/ {a.fam, b.fam} \subseteq {"RSA_PKCS1V15_CRYPT", "RSA_PKCS1V15_SIGN"}

psa_decrypt(key, alg, label, room) ==
    /\ sent.call = "encrypt" /\ last.call = "none"
    /\ \E r \in psa_asymmetric_decrypt(key, alg, sent.out, label, room) :
        last' = [call |-> "decrypt", st |-> r.st,
                 fits |-> r.st = "SUCCESS" => MsgLen[r.out] <= room,
                 right |-> r.out = sent.m,
                 genuine |-> /\ key.name = sent.key.name /\ SamePadding(alg, sent.alg)
                             /\ alg.fam = "RSA_OAEP" => label = sent.label]
    /\ UNCHANGED sent

(* The application is done with what it sent. *)
Forget == last.call # "none" /\ sent' = [call |-> "none"] /\ last' = [call |-> "none"]

Next ==
    \/ \E key \in Keys, label \in Labels : \E alg \in Requests[key.type] :
        \/ \E in \in Inputs, room \in Rooms : psa_sign(key, alg, in, label, room)
        \/ \E in \in Inputs : SignedElsewhere(key, alg, in)
        \/ \E in \in Inputs : \E sig \in IF sent.call = "sign" THEN {sent.out} ELSE Malformed :
                psa_verify(key, alg, in, label, sig)
        \/ \E m \in Messages, room \in Rooms : psa_encrypt(key, alg, m, label, room)
        \/ \E room \in Rooms : psa_decrypt(key, alg, label, room)
    \/ Forget

Spec == Init /\ [][Next]_vars

-----------------------------------------------------------------------------
(* Verification accepts only a signature made with the same key, of the same   *)
(* bytes, with the same context and under the same scheme, whichever of the   *)
(* two entry points each side used, and whatever either policy allows         *)
(* (src/src/psa_asymmetric_api.c:626, 1064 and the back ends).               *)
AcceptedWasSigned == last.call = "verify" /\ last.st = "SUCCESS" => last.genuine

(* And such a signature is called invalid only when wolfCrypt itself failed,  *)
(* in the two places where the code folds its failures into that status        *)
(* (src/src/psa_ecc.c:303, src/src/psa_rsa.c:455): otherwise a message signed   *)
(* through psa_sign_message() verifies as its hash through psa_verify_hash(),    *)
(* under either form of ECDSA or HashML-DSA (src/src/psa_asymmetric_api.c:236). *)
SignedIsAccepted ==
    last.call = "verify" /\ last.genuine /\ last.st = "INVALID_SIGNATURE" =>
        last.folded /\ last.type \in {"ECC", "RSA"}

(* A signature that was written had room, although the room is compared in    *)
(* the worker for one type of key and in the back end for another             *)
(* (src/src/psa_asymmetric_api.c:564, src/src/psa_mldsa.c:296).               *)
SignatureFits == sent.call = "sign" => sent.fits

(* Decryption returns only what was encrypted to this key with this padding,   *)
(* hash and label, within the buffer, and rejects nothing else                *)
(* (src/src/psa_rsa.c:678-745).                                              *)
DecryptsWhatWasSent ==
    last.call = "decrypt" =>
        /\ last.st = "SUCCESS" => last.genuine /\ last.right /\ last.fits
        /\ last.genuine => last.st # "INVALID_PADDING"

(* A verdict is right in both directions, but for failures of wolfCrypt that    *)
(* ECDSA and RSA-PSS report as an invalid signature.                         *)
VerdictsExact == AcceptedWasSigned /\ SignedIsAccepted

(* What a call gives out is right and fits the caller's buffer. *)
OutputsRight == SignatureFits /\ DecryptsWhatWasSent
=============================================================================
