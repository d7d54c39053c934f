----------------------------- MODULE KeyPolicy -----------------------------
(***************************************************************************)
(* A key and the copies made of it, one from the other, by psa_copy_key()   *)
(* (src/src/psa_key_storage.c): what the last copy may be used for,         *)
(* compared with the first key and with the attributes the caller asked for.*)
(***************************************************************************)
EXTENDS Policy

CONSTANTS
    Algs,      \* algorithms of policies and of requests
    Algs2,     \* second algorithms of policies
    UsageSets  \* sets of usage flags, as psa_set_key_usage_flags() makes them

VARIABLES
    origin,    \* the policy of the first key
    want,      \* the attributes of the last copy
    copy,      \* the policy of the last copy
    status     \* the answer of the last psa_copy_key()

vars == <<origin, want, copy, status>>

Policies == [usage : UsageSets, alg : Algs \union {PSA_ALG_NONE},
             alg2 : Algs2 \union {PSA_ALG_NONE}]
Usages == UNION UsageSets

(* What the macros of crypto_values.h make of lengths that exist: only a MAC    *)
(* and an AEAD have a length, never 0 in an AEAD, and the full MAC "satisfies  *)
(* every minimum" (src/src/psa_key_storage.c:2532) because none is longer.    *)
IsIdentifier(a) ==
    /\ a = [cat |-> a.cat, fam |-> a.fam, hash |-> a.hash, len |-> a.len, wild |-> a.wild]
    /\ a.len \in Nat /\ a.wild \in BOOLEAN
    /\ a.cat \notin {"MAC", "AEAD"} => a.len = 0 /\ a.wild = FALSE
    /\ a.cat = "MAC" => FullLen[a.fam] \in Nat /\ a.len <= FullLen[a.fam]
    /\ a.cat = "AEAD" => a.len # 0
    /\ a.fam \in {"ECDSA", "DETERMINISTIC_ECDSA"} => a.cat = "SIGN"

(* What the module takes for granted of its constants. *)
ConstantsOK == \A a \in Algs \union Algs2 : IsIdentifier(a) /\ a # PSA_ALG_NONE

Init == origin \in Policies /\ want = origin /\ copy = origin /\ status = "SUCCESS"

CopyPolicy(src, attributes) ==
    LET alg == wolfpsa_alg_intersect(src.alg, attributes.alg)
        alg2 == wolfpsa_alg2_intersect(src.alg2, attributes.alg2)
    IN  [ok |-> alg.ok /\ alg2.ok,
         policy |-> [usage |-> src.usage \intersect attributes.usage,
                     alg |-> alg.alg, alg2 |-> alg2.alg]]

(* Type, size and lifetime are the same, or the copy is refused; the import   *)
(* of the copy may fail too.                                                *)
psa_copy_key(attributes) ==
    LET c == CopyPolicy(copy, attributes)
        Refused(st) == status' = st /\ UNCHANGED <<want, copy>>
    IN
    /\ UNCHANGED origin
    /\ \/ "COPY" \notin copy.usage /\ Refused("NOT_PERMITTED")
       \/ "COPY" \in copy.usage /\ Refused("INVALID_ARGUMENT")
       \/ "COPY" \in copy.usage /\ c.ok /\ Refused("INSUFFICIENT_MEMORY")
       \/ /\ "COPY" \in copy.usage /\ c.ok
          /\ copy' = c.policy /\ want' = attributes /\ status' = "SUCCESS"

Next == \E attributes \in Policies : psa_copy_key(attributes)

Spec == Init /\ [][Next]_vars

-----------------------------------------------------------------------------
(* The same algorithm, with randomness instead of without it or the reverse. *)
OtherFam(fam) ==
    IF fam = "ECDSA" THEN "DETERMINISTIC_ECDSA"
    ELSE IF fam = "DETERMINISTIC_ECDSA" THEN "ECDSA" ELSE fam

OtherForm(alg) == [alg EXCEPT !.fam = OtherFam(alg.fam)]

(* Whatever `narrow' is used for, `wide' could be used for; a signature may     *)
(* be verified under the name of either form of ECDSA.                        *)
Within(narrow, wide) ==
    \A usage \in Usages, alg \in Algs :
        Granted(narrow, usage, alg) =>
            \/ Granted(wide, usage, alg)
            \/ usage \in VerifyUsages /\ Granted(wide, usage, OtherForm(alg))

(* However often a key is copied, no copy does what the first key could not,  *)
(* nor what the caller did not ask for: the wildcards of hashes and lengths  *)
(* narrow, they are never widened again (src/src/psa_key_storage.c:2560).    *)
NeverGains == Within(copy, origin) /\ Within(copy, want)

(* An algorithm that a caller can carry out.  The wildcard of hashes and the    *)
(* at-least flag of an AEAD belong in policies.                              *)
IsConcrete(alg) == alg.hash # "ANY" /\ (alg.cat = "AEAD" => ~alg.wild)

(* The uses for which the operations look for equality and the hash wildcard     *)
(* only, as psa_check_key_usage() does: they know the lengths of MACs and tags, *)
(* the KDFs of agreements and the other form of a signature to verify besides.  *)
CheckedAlike(usage, alg) == alg.cat \notin {"MAC", "AEAD", "KA"} /\ usage \notin VerifyUsages

(* For an algorithm that can be carried out, psa_check_key_usage() promises    *)
(* nothing that the operation's own check of the policy refuses               *)
(* (src/src/psa_key_storage.c:2894 and the checks of psa_asymmetric_api.c,     *)
(* psa_mac.c and psa_aead.c), and it refuses a use that the operation grants   *)
(* only where lengths, KDFs or forms of a signature matter.  Asked about the   *)
(* wildcard of a policy it says yes, since the two are equal                  *)
(* (src/src/psa_key_storage.c:2865), although wolfpsa_aead_setup() refuses     *)
(* that algorithm (src/src/psa_aead.c:334).                                 *)
UsageCheckHonest ==
    \A usage \in Usages, alg \in {a \in Algs : IsConcrete(a)} :
        LET promised == psa_check_key_usage(copy, alg, {usage}) = "SUCCESS" IN
        /\ promised => Granted(copy, usage, alg)
        /\ Granted(copy, usage, alg) /\ CheckedAlike(usage, alg) => promised

(* "PSA_ALG_ECDSA_ANY is explicitly not covered by                           *)
(* PSA_ALG_ECDSA(PSA_ALG_ANY_HASH)" (src/src/psa_key_storage.c:2597): only a  *)
(* policy that names it grants it.                                          *)
EcdsaAnyApart ==
    \A usage \in Usages :
        Granted(copy, usage, Sign("ECDSA", "NONE")) =>
            Sign("ECDSA", "NONE") \in {copy.alg, copy.alg2}
=============================================================================
