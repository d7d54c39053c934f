------------------------------- MODULE Policy -------------------------------
(***************************************************************************)
(* The policy of a key: which algorithm it may be used with.  Every part of *)
(* the library has a check of its own (src/src/psa_asymmetric_api.c,        *)
(* src/src/psa_mac.c, src/src/psa_aead.c, psa_check_key_usage()), and       *)
(* psa_copy_key() intersects two policies.                                 *)
(*                                                                         *)
(* An algorithm is a record of the fields of its 32-bit identifier: its     *)
(* category; its family; its hash, or the KDF of a key agreement; the       *)
(* length and the flag of a truncated MAC or tag.  A length of 0 in a MAC   *)
(* is the full one; the identifiers of AEADs hold the length itself.        *)
(***************************************************************************)
EXTENDS Integers

CONSTANT FullLen   \* family of MACs :> length of its full MAC

PSA_ALG_NONE == [cat |-> "NONE", fam |-> "NONE", hash |-> "NONE", len |-> 0, wild |-> FALSE]

Sign(fam, hash) == [cat |-> "SIGN", fam |-> fam, hash |-> hash, len |-> 0, wild |-> FALSE]
Encipher(fam, hash) == [cat |-> "CRYPT", fam |-> fam, hash |-> hash, len |-> 0, wild |-> FALSE]
Agree(fam, kdf) == [cat |-> "KA", fam |-> fam, hash |-> kdf, len |-> 0, wild |-> FALSE]
Mac(fam, len, wild) == [cat |-> "MAC", fam |-> fam, hash |-> "NONE", len |-> len, wild |-> wild]
Aead(fam, len, wild) == [cat |-> "AEAD", fam |-> fam, hash |-> "NONE", len |-> len, wild |-> wild]
Group(fam, cat) == [cat |-> cat, fam |-> fam, hash |-> "NONE", len |-> 0, wild |-> FALSE]

PSA_ALG_KW == Group("KW", "WRAP")
PSA_ALG_KWP == Group("KWP", "WRAP")
PSA_ALG_ML_KEM == Group("ML_KEM", "KEM")
PSA_ALG_ECDH == Agree("ECDH", "NONE")

-----------------------------------------------------------------------------
(* Macros of wolfpsa/psa/crypto_values.h and crypto-pqc.h. *)

PSA_ALG_IS_SIGN_HASH(alg) == alg.cat = "SIGN" /\ alg.fam \notin {"PURE_EDDSA", "EDDSA_CTX"}

PSA_ALG_SIGN_GET_HASH(alg) == IF PSA_ALG_IS_SIGN_HASH(alg) THEN alg.hash ELSE "NONE"

PSA_ALG_GET_HASH(alg) == alg.hash

PSA_ALG_IS_ECDSA(alg) == alg.cat = "SIGN" /\ alg.fam \in {"ECDSA", "DETERMINISTIC_ECDSA"}

PSA_ALG_IS_HASH_ML_DSA(alg) ==
    alg.cat = "SIGN" /\ alg.fam \in {"HASH_ML_DSA", "DETERMINISTIC_HASH_ML_DSA"}

(* Equal but for the bits of PSA_ALG_HASH_MASK. *)
SameFamily(a, b) == a.cat = b.cat /\ a.fam = b.fam /\ a.len = b.len /\ a.wild = b.wild

(* Equal but for the length and its flag. *)
SameBase(a, b) == a.cat = b.cat /\ a.fam = b.fam /\ a.hash = b.hash

PSA_MAC_LENGTH(alg) == IF alg.len = 0 THEN FullLen[alg.fam] ELSE alg.len

-----------------------------------------------------------------------------
(* The checks of the operations.  A raw agreement permits any KDF. *)
wolfpsa_key_agreement_alg_permitted(key_alg, alg) ==
    key_alg.fam = alg.fam /\ (key_alg.hash = "NONE" \/ key_alg.hash = alg.hash)

VerifyUsages == {"VERIFY_HASH", "VERIFY_MESSAGE"}

(* The PSA_ALG_ANY_HASH wildcard of a hash-and-sign family. *)
AnyHashPermits(key_alg, alg) ==
    /\ PSA_ALG_IS_SIGN_HASH(alg)
    /\ PSA_ALG_SIGN_GET_HASH(key_alg) = "ANY"
    /\ PSA_ALG_SIGN_GET_HASH(alg) # "ANY"
    /\ SameFamily(key_alg, alg)

(* A signature is verified the same whether it was made with or without       *)
(* randomness, so verification permits the other family too.                *)
VerifyEquivalent(key_alg, alg) ==
    \/ /\ PSA_ALG_IS_ECDSA(alg) /\ PSA_ALG_IS_ECDSA(key_alg)
       /\ PSA_ALG_GET_HASH(alg) = PSA_ALG_GET_HASH(key_alg)
       /\ PSA_ALG_GET_HASH(alg) # "NONE"
    \/ /\ PSA_ALG_IS_HASH_ML_DSA(alg) /\ PSA_ALG_IS_HASH_ML_DSA(key_alg)
       /\ PSA_ALG_GET_HASH(alg) # "ANY"
       /\ PSA_ALG_GET_HASH(key_alg) \in {"ANY", PSA_ALG_GET_HASH(alg)}

wolfpsa_sign_alg_permitted(key_alg, alg, usage) ==
    \/ key_alg = alg
    \/ AnyHashPermits(key_alg, alg)
    \/ usage \in VerifyUsages /\ VerifyEquivalent(key_alg, alg)

wolfpsa_asymmetric_alg_permitted(key_alg, alg, usage) ==
    /\ key_alg # PSA_ALG_NONE
    /\ IF alg.cat = "KA" /\ key_alg.cat = "KA"
       THEN wolfpsa_key_agreement_alg_permitted(key_alg, alg)
       ELSE wolfpsa_sign_alg_permitted(key_alg, alg, usage)

(* Mutation: a key for one length may make any shorter MAC. *)
wolfpsa_mac_alg_permitted_min(key_alg, alg) ==
    /\ key_alg # PSA_ALG_NONE /\ SameBase(key_alg, alg)
    /\ IF key_alg.wild THEN PSA_MAC_LENGTH(alg) >= PSA_MAC_LENGTH(key_alg)
       ELSE PSA_MAC_LENGTH(alg) <= PSA_MAC_LENGTH(key_alg)

wolfpsa_mac_alg_permitted(key_alg, alg) ==
    /\ key_alg # PSA_ALG_NONE /\ SameBase(key_alg, alg)
    /\ IF key_alg.wild THEN PSA_MAC_LENGTH(alg) >= PSA_MAC_LENGTH(key_alg)
       ELSE PSA_MAC_LENGTH(alg) = PSA_MAC_LENGTH(key_alg)

wolfpsa_aead_alg_permitted(key_alg, alg) ==
    /\ key_alg.cat = "AEAD" /\ key_alg.len # 0 /\ SameBase(key_alg, alg)
    /\ IF key_alg.wild THEN alg.len >= key_alg.len ELSE alg.len = key_alg.len

(* Would the operation that takes alg accept a key with this policy?  An AEAD  *)
(* must be asked for with one tag length: wolfpsa_aead_setup() and the        *)
(* one-shot calls refuse the at-least flag before they look at the key, while *)
(* the MAC calls take it.                                                   *)
AlgPermitted(key_alg, alg, usage) ==
    CASE alg.cat = "MAC" -> wolfpsa_mac_alg_permitted(key_alg, alg)
      [] alg.cat = "AEAD" -> /\ ~alg.wild /\ alg.len # 0
                             /\ wolfpsa_aead_alg_permitted(key_alg, alg)
      [] OTHER -> wolfpsa_asymmetric_alg_permitted(key_alg, alg, usage)

Granted(policy, usage, alg) ==
    /\ usage \in policy.usage
    /\ AlgPermitted(policy.alg, alg, usage) \/ AlgPermitted(policy.alg2, alg, usage)

-----------------------------------------------------------------------------
(* psa_check_key_usage(). *)
(* Mutation: the hash of the policy is not compared. *)
wolfpsa_policy_alg_permits_family(key_alg, alg) ==
    key_alg # PSA_ALG_NONE /\ SameFamily(key_alg, alg)

wolfpsa_policy_alg_permits(key_alg, alg) ==
    key_alg # PSA_ALG_NONE /\ (key_alg = alg \/ AnyHashPermits(key_alg, alg))

wolfpsa_key_permits_alg(policy, alg) ==
    wolfpsa_policy_alg_permits(policy.alg, alg) \/ wolfpsa_policy_alg_permits(policy.alg2, alg)

psa_check_key_usage(policy, alg, usages) ==
    IF usages \subseteq policy.usage
       /\ (alg = PSA_ALG_NONE \/ wolfpsa_key_permits_alg(policy, alg))
    THEN "SUCCESS" ELSE "NOT_PERMITTED"

-----------------------------------------------------------------------------
(* psa_copy_key(). *)
wolfpsa_tag_len_permitted(concrete_len, min_len) ==
    IF min_len = 0 THEN concrete_len = 0
    ELSE concrete_len = 0 \/ concrete_len >= min_len

(* Mutation: the full length is taken for the shortest. *)
wolfpsa_tag_len_restrict_raw(len_a, len_b) == IF len_a > len_b THEN len_a ELSE len_b

wolfpsa_tag_len_restrict(len_a, len_b) ==
    IF len_a = 0 \/ len_b = 0 THEN 0
    ELSE IF len_a > len_b THEN len_a ELSE len_b

(* The four results of an intersection of length policies. *)
LengthIntersect(src, dst) ==
    IF src.wild /\ dst.wild
    THEN [src EXCEPT !.len = wolfpsa_tag_len_restrict(src.len, dst.len)]
    ELSE IF src.wild /\ wolfpsa_tag_len_permitted(dst.len, src.len) THEN dst
    ELSE IF dst.wild /\ wolfpsa_tag_len_permitted(src.len, dst.len) THEN src
    ELSE PSA_ALG_NONE

(* The concrete hash of the two, if exactly one is the wildcard and the        *)
(* concrete one is a hash or the raw PKCS#1 algorithm.                      *)
HashIntersect(src, dst) ==
    LET concrete == IF src.hash = "ANY" THEN dst ELSE src IN
    IF /\ (src.hash = "ANY") # (dst.hash = "ANY")
       /\ concrete.hash # "NONE" \/ concrete.fam = "RSA_PKCS1V15_SIGN"
    THEN concrete ELSE PSA_ALG_NONE

(* [ok, alg]: ok is FALSE when the copy must be rejected. *)
wolfpsa_alg_intersect(src, dst) ==
    LET alg == IF src = dst THEN src
               ELSE IF SameFamily(src, dst) /\ PSA_ALG_IS_SIGN_HASH(src) THEN HashIntersect(src, dst)
               ELSE IF src.cat \in {"MAC", "AEAD"} /\ SameBase(src, dst) THEN LengthIntersect(src, dst)
               ELSE PSA_ALG_NONE
    IN  [ok |-> src = dst \/ alg # PSA_ALG_NONE, alg |-> alg]

wolfpsa_alg2_intersect(src, dst) ==
    IF src = PSA_ALG_NONE \/ dst = PSA_ALG_NONE
    THEN [ok |-> TRUE, alg |-> PSA_ALG_NONE]
    ELSE wolfpsa_alg_intersect(src, dst)
=============================================================================
