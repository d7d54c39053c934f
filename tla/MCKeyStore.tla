----------------------------- MODULE MCKeyStore -----------------------------
(* Small instances of KeyStore for TLC. *)
EXTENDS KeyStore, TLC

CONSTANTS t1, t2, m1, m2

MCThreads == {t1, t2}
MCMaterial == {m1, m2}

(* m1 may be exported and copied, m2 only copied. *)
MCGranted == (m1 :> {"EXPORT", "COPY"}) @@ (m2 :> {"COPY"})

MCPersistentCalls == {"import_persistent", "destroy", "export", "export_public",
                      "copy_persistent", "crypto_init", "restart"}
MCVolatileCalls == {"import_volatile", "destroy", "export", "attributes",
                "export_public", "copy_volatile",
                "crypto_init", "crypto_cleanup"}
MCBothCalls == {"import_persistent", "import_volatile", "destroy", "get_key_data",
                "crypto_init", "restart"}
MCShadowCalls == {"import_persistent", "import_volatile", "crypto_init", "restart"}
MCOutputCalls == {"import_volatile", "copy_volatile", "crypto_init"}
MCAsymmetric == {m1}
ThreadSymmetry == Permutations(MCThreads)
=============================================================================
