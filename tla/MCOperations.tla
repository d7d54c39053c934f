---------------------------- MODULE MCOperations ----------------------------
(***************************************************************************)
(* A small instance of Operations for TLC: the keys, the algorithms and the  *)
(* lengths that make each component meet its cases.                         *)
(***************************************************************************)
EXTENDS Operations, TLC

-----------------------------------------------------------------------------
(* A full HMAC has 6 bytes and a CMAC 5. *)
MCFullLens == "HMAC" :> 6 @@ "CMAC" :> 5

(* The algorithms that keys and requests are made of. *)
Pol == INSTANCE Policy WITH FullLen <- FullLens

MCDigestLen == "SHA_224" :> 1 @@ "SHA_256" :> 2

ASSUME Hash!ConstantsOK

(* Of the truncated lengths (3, 4, 5, 7) one is too short and one too long. *)
MCMacKeys ==
    {[name |-> "h", type |-> "HMAC", usage |-> {"SIGN_MESSAGE", "VERIFY_MESSAGE"},
      alg |-> Pol!Mac("HMAC", 4, TRUE), alg2 |-> Pol!PSA_ALG_NONE],
     [name |-> "c", type |-> "CMAC", usage |-> {"VERIFY_MESSAGE"},
      alg |-> Pol!Mac("CMAC", 0, FALSE), alg2 |-> Pol!PSA_ALG_NONE],
     [name |-> "t", type |-> "HMAC", usage |-> {"SIGN_MESSAGE", "VERIFY_MESSAGE"},
      alg |-> Pol!Mac("HMAC", 3, FALSE), alg2 |-> Pol!Mac("HMAC", 5, FALSE)]}

ASSUME Macs!ConstantsOK

(* A key for each algorithm, and one that may only encrypt. *)
MCCipherAlgs == {"CBC_NO_PADDING", "CBC_PKCS7", "ECB_NO_PADDING", "CTR"}
MCCipherKeys == [usage : {{"ENCRYPT", "DECRYPT"}}, alg : MCCipherAlgs]
                \union {[usage |-> {"ENCRYPT"}, alg |-> "CTR"]}

ASSUME Cipher!ConstantsOK

-----------------------------------------------------------------------------
MCPolicyAlgs2 == {a \in PolicyAlgs : /\ a.fam \in {"ECDSA", "HMAC"}
                                     /\ a.hash = "ANY" \/ (a.wild /\ a.len = 4)}

(* Each family with its wildcard, a concrete member and a hashless one. *)
MCPolicyAlgs ==
    {Pol!Sign(f, h) : f \in {"ECDSA", "DETERMINISTIC_ECDSA", "RSA_PKCS1V15_SIGN"},
                         h \in {"NONE", "ANY", "SHA_256"}}
    \union {Pol!Sign(f, h) : f \in {"HASH_ML_DSA", "DETERMINISTIC_HASH_ML_DSA"},
                                h \in {"ANY", "SHA_256"}}
    \union {Pol!Mac("HMAC", n, w) : n \in {0, 4, 6}, w \in BOOLEAN}
    \union {Pol!Aead("GCM", n, w) : n \in {4, 6}, w \in BOOLEAN}
    \union {Pol!Agree("ECDH", k) : k \in {"NONE", "HKDF"}}
    \union {Pol!Sign("PURE_EDDSA", "NONE")}

ASSUME Copies!ConstantsOK

-----------------------------------------------------------------------------
(* A signature of ML-DSA is longer than any other; the message n is longer    *)
(* than a digest; SHA3-256 has no wolfCrypt type of its own.                 *)
MCHashLens == "SHA_256" :> 2 @@ "SHA3_256" :> 2 @@ "SHA_512" :> 3 @@ "SHAKE256_512" :> 3
MCMsgLens == "m" :> 1 @@ "n" :> 4
MCSigLens == "RSA" :> 4 @@ "ECC" :> 2 @@ "ED25519" :> 2 @@ "ED448" :> 2 @@ "ML_DSA" :> 6

ASSUME Asym!ConstantsOK

SignAll == {"SIGN_HASH", "SIGN_MESSAGE", "VERIFY_HASH", "VERIFY_MESSAGE"}
VerifyAll == {"VERIFY_HASH", "VERIFY_MESSAGE"}

SignKey(name, type, pair, usage, alg, alg2) ==
    [name |-> name, type |-> type, pair |-> pair, usage |-> usage, alg |-> alg, alg2 |-> alg2]

(* Keys of one name are the same key under two policies. *)
MCSignKeys ==
    {SignKey("e", "ECC", TRUE, SignAll, Pol!Sign("ECDSA", "ANY"), Pol!Sign("DETERMINISTIC_ECDSA", "SHA_256")),
     SignKey("e", "ECC", FALSE, VerifyAll, Pol!Sign("ECDSA", "SHA_256"), Pol!PSA_ALG_NONE),
     SignKey("r", "RSA", TRUE, SignAll, Pol!Sign("RSA_PKCS1V15_SIGN", "ANY"), Pol!Sign("RSA_PSS", "SHA_256")),
     SignKey("r", "RSA", FALSE, VerifyAll, Pol!Sign("RSA_PKCS1V15_SIGN", "ANY"), Pol!Sign("RSA_PSS_ANY_SALT", "SHA_256")),
     SignKey("d", "ED25519", TRUE, SignAll, Pol!Sign("PURE_EDDSA", "NONE"), Pol!Sign("EDDSA_CTX", "NONE")),
     SignKey("d", "ED25519", FALSE, SignAll, Pol!Sign("HASH_EDDSA", "ANY"), Pol!Sign("EDDSA_CTX", "NONE")),
     SignKey("g", "ED448", TRUE, SignAll, Pol!Sign("PURE_EDDSA", "NONE"), Pol!Sign("HASH_EDDSA", "SHAKE256_512")),
     SignKey("g", "ED448", TRUE, SignAll, Pol!Sign("EDDSA_CTX", "NONE"), Pol!Sign("HASH_EDDSA", "ANY")),
     SignKey("p", "ML_DSA", TRUE, SignAll, Pol!Sign("ML_DSA", "NONE"), Pol!Sign("HASH_ML_DSA", "ANY")),
     SignKey("p", "ML_DSA", FALSE, VerifyAll, Pol!Sign("DETERMINISTIC_HASH_ML_DSA", "SHA_256"), Pol!Sign("ML_DSA", "NONE")),
     SignKey("l", "LMS", FALSE, SignAll, Pol!Sign("LMS", "NONE"), Pol!PSA_ALG_NONE),
     SignKey("c", "RSA", TRUE, {"ENCRYPT", "DECRYPT"}, Pol!Encipher("RSA_OAEP", "SHA_256"), Pol!Encipher("RSA_PKCS1V15_CRYPT", "NONE")),
     SignKey("c", "RSA", FALSE, {"ENCRYPT"}, Pol!Encipher("RSA_OAEP", "SHA_512"), Pol!Sign("RSA_PKCS1V15_SIGN", "SHA_256"))}

(* Those its back end knows, and one or two of another type. *)
MCRequests ==
    LET ec == {Pol!Sign("ECDSA", "SHA_256"), Pol!Sign("ECDSA", "NONE"),
               Pol!Sign("DETERMINISTIC_ECDSA", "SHA_256")}
        eddsa == {Pol!Sign("PURE_EDDSA", "NONE"), Pol!Sign("EDDSA_CTX", "NONE"),
                  Pol!Sign("HASH_EDDSA", "SHA_512"), Pol!Sign("HASH_EDDSA", "SHAKE256_512")}
        mldsa == {Pol!Sign("ML_DSA", "NONE"), Pol!Sign("HASH_ML_DSA", "SHA_256"),
                  Pol!Sign("HASH_ML_DSA", "SHA_512"), Pol!Sign("DETERMINISTIC_HASH_ML_DSA", "SHA_256")}
        rsa == {Pol!Sign("RSA_PKCS1V15_SIGN", h) : h \in {"NONE", "SHA_256", "SHA3_256"}}
               \union {Pol!Sign("RSA_PSS", "SHA_256"), Pol!Sign("RSA_PSS_ANY_SALT", "SHA_256"),
                       Pol!Encipher("RSA_PKCS1V15_CRYPT", "NONE")}
               \union {Pol!Encipher("RSA_OAEP", h) : h \in {"SHA_256", "SHA_512"}}
    IN  "ECC" :> ec \union {Pol!Sign("PURE_EDDSA", "NONE")} @@ "RSA" :> rsa
        @@ "ED25519" :> eddsa \union {Pol!Sign("ECDSA", "SHA_256")} @@ "ED448" :> eddsa
        @@ "ML_DSA" :> mldsa @@ "LMS" :> {Pol!Sign("LMS", "NONE"), Pol!Sign("ML_DSA", "NONE")}

-----------------------------------------------------------------------------
ASSUME Transport!ConstantsOK

TransportKey(type, len, usage, alg, alg2, mat) ==
    [type |-> type, len |-> len, usage |-> usage, alg |-> alg, alg2 |-> alg2, mat |-> mat]

HkdfAgreement == Pol!Agree("ECDH", "HKDF")

(* Keys of several lengths and policies to replace each other. *)
MCTransportKeys ==
    {TransportKey("AES", 16, {"WRAP", "UNWRAP"}, Pol!PSA_ALG_KW, Pol!PSA_ALG_NONE, "k"),
     TransportKey("AES", 16, {"UNWRAP"}, Pol!PSA_ALG_KW, Pol!PSA_ALG_NONE, "l"),
     TransportKey("AES", 24, {"EXPORT"}, Pol!PSA_ALG_NONE, Pol!PSA_ALG_NONE, "a"),
     TransportKey("AES", 16, {"EXPORT"}, Pol!PSA_ALG_NONE, Pol!PSA_ALG_NONE, "b"),
     TransportKey("ML_KEM", 64, {"ENCRYPT", "DECRYPT"}, Pol!PSA_ALG_ML_KEM, Pol!PSA_ALG_NONE, "m"),
     TransportKey("ECC", 32, {"DERIVE"}, Pol!PSA_ALG_ECDH, Pol!PSA_ALG_NONE, "e"),
     TransportKey("ECC", 48, {"DERIVE"}, HkdfAgreement, Pol!PSA_ALG_ECDH, "f"),
     TransportKey("MONTGOMERY", 32, {"DERIVE"}, HkdfAgreement, Pol!PSA_ALG_NONE, "g")}

MCKwAlgs == {Pol!PSA_ALG_KW, Pol!PSA_ALG_KWP, Pol!PSA_ALG_ML_KEM}
MCKemAlgs == {Pol!PSA_ALG_ML_KEM, Pol!Group("ECIES", "KEM"), Pol!PSA_ALG_KW}
MCKaAlgs == {Pol!PSA_ALG_ECDH, HkdfAgreement, Pol!Agree("FFDH", "NONE"), Pol!PSA_ALG_KW}
MCPeers == [type : {"ECC"}, len : {32, 48}, mat : {"p"}]
           \union [type : {"MONTGOMERY"}, len : {32}, mat : {"q"}]

MCRates == "SHAKE128" :> 3 @@ "SHAKE256" :> 2
MCUsageSets == {{"COPY", "SIGN_MESSAGE", "VERIFY_MESSAGE"}, {"VERIFY_MESSAGE"}}
=============================================================================
