--------------------------- MODULE KeyStoreProofs ---------------------------
(***************************************************************************)
(* Theorems about KeyStore for every set of threads, ids and key material.  *)
(***************************************************************************)
EXTENDS KeyStore, FiniteSetTheorems, TLAPS

(* The part of TypeOK that is not the history variable. *)
TypeBody ==
    /\ lock \in Threads \union {NoThread}
    /\ initialized \in BOOLEAN
    /\ wcRefs \in Int
    /\ next_id \in VendorMin .. VendorMax + 1
    /\ volatile \in [Ids -> KeyOrNone]
    /\ store \in [Ids -> KeyOrNone]
    /\ pc \in [Threads -> Pcs]
    /\ op \in [Threads -> Calls \union {"none"}]
    /\ arg \in [Threads -> Ids \union {NullId}]
    /\ dst \in [Threads -> Ids \union {NullId}]
    /\ want \in [Threads -> SUBSET Usages]
    /\ key \in [Threads -> KeyOrNone]
    /\ hdr \in [Threads -> KeyOrNone]
    /\ handle \in [Threads -> KeyOrNone]
    /\ status \in [Threads -> Statuses]

(* A thread that reads has a record open; one that imports has a key. *)
HandleInv ==
    \A t \in Threads :
        /\ pc[t] = "read" => handle[t] \in Key
        /\ pc[t] \in {"open", "read"} /\ op[t] = "export_public" => hdr[t] \in Key
        /\ pc[t] \in ImportPcs => key[t] \in Key
        /\ pc[t] \in ReadPcs \union DestroyPcs => arg[t] \in Ids
        /\ pc[t] \in ImportPcs \ {"import_init", "assign_id"} => dst[t] \in Ids

Inv1 == TypeBody /\ HandleInv

LEMMA VendorIdsType ==
    VendorIds \subseteq Ids /\ VendorIds \subseteq Nat /\ NullId \notin Ids
  BY IdAssumption DEF VendorIds, Ids, NullId

LEMMA PcsDistinct ==
    /\ ImportPcs \subseteq Pcs /\ ReadPcs \subseteq Pcs /\ DestroyPcs \subseteq Pcs
    /\ CleanupPcs \subseteq Pcs
    /\ "idle" \in Pcs /\ "return" \in Pcs
  BY DEF Pcs, ImportPcs, ReadPcs, DestroyPcs, CleanupPcs

LEMMA InitInv1 == Init => Inv1
  <1> SUFFICES ASSUME Init PROVE Inv1
    OBVIOUS
  <1> USE IdAssumption DEF Init
  <1>1. TypeBody
    <2>0. initialized \in BOOLEAN
      OBVIOUS
    <2>1. wcRefs \in Int /\ next_id \in VendorMin .. VendorMax + 1
      OBVIOUS
    <2>2. volatile \in [Ids -> KeyOrNone] /\ store \in [Ids -> KeyOrNone]
      BY DEF KeyOrNone
    <2>3. pc \in [Threads -> Pcs]
      BY DEF Pcs
    <2>4. op \in [Threads -> Calls \union {"none"}] 
      OBVIOUS
    <2>5. status \in [Threads -> Statuses]
      BY DEF Statuses
    <2>6. QED
      BY <2>0, <2>1, <2>2, <2>3, <2>4, <2>5 DEF TypeBody, KeyOrNone
  <1>2. HandleInv
    BY DEF HandleInv, ImportPcs, ReadPcs, DestroyPcs
  <1>3. QED
    BY <1>1, <1>2 DEF Inv1

LEMMA BeginInv1 ==
    ASSUME Inv1, NEW t \in Threads, NEW p \in Pcs, NEW o, NEW a \in Ids \union {NullId},
           NEW d \in Ids \union {NullId}, NEW w \in SUBSET Usages,
           NEW k \in KeyOrNone,
           p \in {"import_init", "init", "attr_init", "destroy_init"},
           p = "import_init" => k \in Key,
           p # "import_init" => a \in Ids,
           Begin(t, p, o, a, d, w, k)
    PROVE  Inv1'
  <1> USE DEF Begin, At, global
  <1>1. TypeBody'
    BY DEF Inv1, TypeBody, KeyOrNone, Pcs
  <1>2. HandleInv'
    BY DEF Inv1, TypeBody, HandleInv, ImportPcs, ReadPcs, DestroyPcs
  <1>3. QED
    BY <1>1, <1>2 DEF Inv1

LEMMA CallInv1 == ASSUME Inv1, NEW t \in Threads, Call(t) PROVE Inv1'
  <1> USE DEF global
  <1>1. CASE BeginImport(t)
    <2>1. PICK m \in Material, i \in Ids \union {NullId}, o \in Imports :
             Begin(t, "import_init", o, NullId, i, {},
                   [usage |-> Granted[m], data |-> m])
      BY <1>1 DEF BeginImport, Ids, Imports, NullId
    <2>2. [usage |-> Granted[m], data |-> m] \in Key
      BY KeyAssumption DEF Key
    <2>3. QED
      BY <2>1, <2>2, PcsDistinct, BeginInv1 DEF ImportPcs, KeyOrNone, Usages
  <1>2. CASE BeginRead(t)
    <2>1. PICK i \in Ids, p \in {"init", "attr_init"}, o \in Reads \union {"attributes"} :
             Begin(t, p, o, i, NullId, {}, NoKey)
      BY <1>2 DEF BeginRead, Reads
    <2>2. QED
      BY <2>1, PcsDistinct, BeginInv1 DEF ReadPcs, KeyOrNone, Usages
  <1>3. CASE BeginCopy(t)
    <2>1. PICK i \in Ids, d \in Ids \union {NullId}, o \in Copies, w \in SUBSET Usages :
             Begin(t, "init", o, i, d, w, NoKey)
      BY <1>3 DEF BeginCopy, Copies, Ids, NullId
    <2>2. QED
      BY <2>1, PcsDistinct, BeginInv1 DEF ReadPcs, KeyOrNone
  <1>4. CASE BeginDestroy(t)
    <2>1. PICK i \in Ids : Begin(t, "destroy_init", "destroy", i, NullId, {}, NoKey)
      BY <1>4 DEF BeginDestroy
    <2>2. QED
      BY <2>1, PcsDistinct, BeginInv1 DEF DestroyPcs, KeyOrNone, Usages
  <1>5. CASE psa_crypto_init(t)
    <2>1. TypeBody'
      <3>1. initialized' \in BOOLEAN
        BY <1>5 DEF psa_crypto_init, Inv1, TypeBody
      <3>2. QED
        BY <1>5, <3>1, PcsDistinct DEF psa_crypto_init, Return, Inv1, TypeBody,
           Statuses
    <2>2. HandleInv'
      BY <1>5 DEF psa_crypto_init, At, Return, Inv1, TypeBody, HandleInv, ImportPcs,
                  ReadPcs, DestroyPcs
    <2>3. QED
      BY <2>1, <2>2 DEF Inv1
  <1>6. CASE wolfPSA_CryptoCleanup(t)
    <2>1. TypeBody'
      <3>1. initialized' \in BOOLEAN
        BY <1>6 DEF wolfPSA_CryptoCleanup
      <3>2. pc' \in [Threads -> Pcs] /\ op' \in [Threads -> Calls \union {"none"}]
        BY <1>6, PcsDistinct DEF wolfPSA_CryptoCleanup, Goto, Inv1, TypeBody,
           CleanupPcs
      <3>3. QED
        BY <1>6, <3>1, <3>2 DEF wolfPSA_CryptoCleanup, Goto, Inv1, TypeBody
    <2>2. HandleInv'
      BY <1>6 DEF wolfPSA_CryptoCleanup, At, Goto, Inv1, TypeBody, HandleInv,
         ImportPcs,
                  ReadPcs, DestroyPcs
    <2>3. QED
      BY <2>1, <2>2 DEF Inv1
  <1>7. QED
    BY <1>1, <1>2, <1>3, <1>4, <1>5, <1>6 DEF Call

LEMMA ImportStepInv1 == ASSUME Inv1, NEW t \in Threads, ImportStep(t) PROVE Inv1'
  <1> USE DEF Goto, Return, Fail, Answer, At, global, KeyOrNone, Statuses, ImportPcs, ReadPcs, DestroyPcs
  <1>1. CASE psa_import_key_assign_id(t)
    <2>0. next_id' \in VendorMin .. VendorMax + 1
      BY <1>1, IdAssumption DEF psa_import_key_assign_id, AssignId, VendorIds, Inv1,
         TypeBody
    <2>1. TypeBody'
      BY <1>1, <2>0, PcsDistinct, VendorIdsType DEF psa_import_key_assign_id, AssignId,
         Inv1, TypeBody, HandleInv
    <2>2. HandleInv'
      BY <1>1, VendorIdsType DEF psa_import_key_assign_id, AssignId, VendorIds,
         Inv1, TypeBody, HandleInv
    <2>3. QED
      BY <2>1, <2>2 DEF Inv1
  <1>2. CASE psa_import_key_alloc(t)
    <2>1. TypeBody'
      BY <1>2, PcsDistinct, VendorIdsType DEF psa_import_key_alloc, Inv1, TypeBody,
         HandleInv
    <2>2. HandleInv'
      BY <1>2, VendorIdsType DEF psa_import_key_alloc, Inv1, TypeBody, HandleInv
    <2>3. QED
      BY <2>1, <2>2 DEF Inv1
  <1>3. CASE wolfpsa_volatile_store(t)
    <2>1. TypeBody'
      BY <1>3, PcsDistinct, VendorIdsType DEF wolfpsa_volatile_store, Inv1,
         TypeBody, HandleInv
    <2>2. HandleInv'
      BY <1>3, VendorIdsType DEF wolfpsa_volatile_store, Inv1, TypeBody, HandleInv
    <2>3. QED
      BY <2>1, <2>2 DEF Inv1
  <1>4. CASE psa_import_key_lock(t)
    <2>1. TypeBody'
      BY <1>4, PcsDistinct, VendorIdsType DEF psa_import_key_lock, Inv1, TypeBody,
         HandleInv
    <2>2. HandleInv'
      BY <1>4, VendorIdsType DEF psa_import_key_lock, Inv1, TypeBody, HandleInv
    <2>3. QED
      BY <2>1, <2>2 DEF Inv1
  <1>5. CASE psa_import_key_probe(t)
    <2>1. TypeBody'
      BY <1>5, PcsDistinct, VendorIdsType DEF psa_import_key_probe, Probe,
         OpenFailures, Inv1, TypeBody, HandleInv
    <2>2. HandleInv'
      BY <1>5, VendorIdsType DEF psa_import_key_probe, Probe, OpenFailures, Inv1,
         TypeBody, HandleInv
    <2>3. QED
      BY <2>1, <2>2 DEF Inv1
  <1>6. CASE psa_import_key_open_write(t)
    <2>1. TypeBody'
      BY <1>6, PcsDistinct, VendorIdsType DEF psa_import_key_open_write,
         OpenFailures, Inv1, TypeBody, HandleInv
    <2>2. HandleInv'
      BY <1>6, VendorIdsType DEF psa_import_key_open_write, OpenFailures, Inv1,
         TypeBody, HandleInv
    <2>3. QED
      BY <2>1, <2>2 DEF Inv1
  <1>7. CASE psa_import_key_write(t)
    <2>1. TypeBody'
      BY <1>7, PcsDistinct, VendorIdsType DEF psa_import_key_write, Inv1, TypeBody,
         HandleInv
    <2>2. HandleInv'
      BY <1>7, VendorIdsType DEF psa_import_key_write, Inv1, TypeBody, HandleInv
    <2>3. QED
      BY <2>1, <2>2 DEF Inv1
  <1>8. CASE psa_import_key_close(t)
    <2>1. TypeBody'
      BY <1>8, PcsDistinct, VendorIdsType DEF psa_import_key_close, Inv1, TypeBody,
         HandleInv
    <2>2. HandleInv'
      BY <1>8, VendorIdsType DEF psa_import_key_close, Inv1, TypeBody, HandleInv
    <2>3. QED
      BY <2>1, <2>2 DEF Inv1
  <1>9. CASE psa_import_key_unlock(t)
    <2>1. TypeBody'
      BY <1>9, PcsDistinct, VendorIdsType DEF psa_import_key_unlock, Inv1,
         TypeBody, HandleInv
    <2>2. HandleInv'
      BY <1>9, VendorIdsType DEF psa_import_key_unlock, Inv1, TypeBody, HandleInv
    <2>3. QED
      BY <2>1, <2>2 DEF Inv1
  <1>10. QED
    BY <1>1, <1>2, <1>3, <1>4, <1>5, <1>6, <1>7, <1>8, <1>9 DEF ImportStep

(* What the four readers may leave in the variables of the caller. *)
LEMMA DeliverTypes ==
    ASSUME Inv1, NEW t \in Threads, NEW k \in Key, NEW attr, NEW life,
           \/ psa_export_key_deliver(t, k)
           \/ wolfpsa_get_key_data_deliver(t)
           \/ psa_export_public_key_deliver(t, attr)
           \/ psa_copy_key_deliver(t, k, life)
           \/ Fail(t, "INSUFFICIENT_MEMORY") /\ UNCHANGED key
           \/ Fail(t, "STORAGE_FAILURE") /\ UNCHANGED key
    PROVE  /\ pc' \in [Threads -> Pcs] /\ status' \in [Threads -> Statuses]
           /\ dst' \in [Threads -> Ids \union {NullId}]
           /\ key' \in [Threads -> KeyOrNone]
           /\ \A u \in Threads \ {t} : /\ pc'[u] = pc[u] /\ dst'[u] = dst[u]
                                       /\ key'[u] = key[u]
           /\ \/ pc'[t] = "return"
              \/ pc'[t] = "import_init" /\ key'[t] \in Key
  <1>1. [usage |-> k.usage \intersect want[t], data |-> k.data] \in Key
    BY DEF Key, Inv1, TypeBody
  <1>2. CASE \E st \in Statuses : Return(t, st) /\ UNCHANGED key
                 /\ (UNCHANGED dst \/ dst' = [dst EXCEPT ![t] = NullId])
    BY <1>2, PcsDistinct DEF Return, Inv1, TypeBody
  <1>3. CASE psa_export_key_deliver(t, k)
    BY <1>2, <1>3 DEF psa_export_key_deliver, Answer, Statuses
  <1>4. CASE wolfpsa_get_key_data_deliver(t)
    BY <1>2, <1>4 DEF wolfpsa_get_key_data_deliver, Answer, Statuses
  <1>5. CASE psa_export_public_key_deliver(t, attr)
    BY <1>2, <1>5 DEF psa_export_public_key_deliver, Answer, Statuses
  <1>6. CASE \/ Fail(t, "INSUFFICIENT_MEMORY") /\ UNCHANGED key
             \/ Fail(t, "STORAGE_FAILURE") /\ UNCHANGED key
    BY <1>2, <1>6 DEF Fail, Statuses
  <1>7. CASE psa_copy_key_deliver(t, k, life)
    <2>1. CASE \/ Fail(t, "NOT_PERMITTED") /\ UNCHANGED key
               \/ Fail(t, "INVALID_ARGUMENT") /\ UNCHANGED key
      BY <1>2, <2>1 DEF Fail, Statuses
    <2>2. CASE /\ key' = [key EXCEPT ![t] = [usage |-> k.usage \intersect want[t],
                                             data |-> k.data]]
               /\ Goto(t, "import_init") /\ UNCHANGED dst
      <3> DEFINE c == [usage |-> k.usage \intersect want[t], data |-> k.data]
      <3>1. c \in KeyOrNone /\ c \in Key
        BY <1>1 DEF KeyOrNone
      <3>2. "import_init" \in Pcs
        BY PcsDistinct DEF ImportPcs
      <3>3. key' = [key EXCEPT ![t] = c]
        BY <2>2
      <3> HIDE DEF c
      <3>4. QED
        BY <2>2, <3>1, <3>2, <3>3 DEF Goto, Inv1, TypeBody
    <2>3. QED
      BY <1>7, <2>1, <2>2 DEF psa_copy_key_deliver
  <1>8. QED
    BY <1>3, <1>4, <1>5, <1>6, <1>7

LEMMA ReadStepInv1 == ASSUME Inv1, NEW t \in Threads, ReadStep(t) PROVE Inv1'
  <1> USE DEF global
  <1>a. \A i \in Ids : /\ volatile[i] # NoKey => volatile[i] \in Key
                       /\ store[i] # NoKey => store[i] \in Key
    BY DEF Inv1, TypeBody, KeyOrNone
  <1>b. pc[t] \in ReadPcs => arg[t] \in Ids
    BY DEF Inv1, HandleInv
  <1>1. CASE wolfpsa_volatile_get(t)
    <2> DEFINE k == volatile[arg[t]]
    <2>0. arg[t] \in Ids /\ pc[t] = "volatile_get"
      BY <1>b, <1>1 DEF wolfpsa_volatile_get, At, ReadPcs
    <2>1. CASE k # NoKey
      <3>1. k \in Key
        BY <1>a, <2>0, <2>1
      <3>2. /\ handle' = [handle EXCEPT ![t] = k] /\ hdr' = [hdr EXCEPT ![t] = k]
            /\ UNCHANGED <<global, op, arg, want>>
            /\ \/ psa_export_key_deliver(t, k)
               \/ wolfpsa_get_key_data_deliver(t)
               \/ psa_export_public_key_deliver(t, k)
               \/ psa_copy_key_deliver(t, k, "copy_volatile")
               \/ Fail(t, "INSUFFICIENT_MEMORY") /\ UNCHANGED key
        BY <1>1, <2>1 DEF wolfpsa_volatile_get
      <3> HIDE DEF k
      <3>3. /\ pc' \in [Threads -> Pcs] /\ status' \in [Threads -> Statuses]
            /\ dst' \in [Threads -> Ids \union {NullId}]
            /\ key' \in [Threads -> KeyOrNone]
            /\ \A u \in Threads \ {t} : /\ pc'[u] = pc[u] /\ dst'[u] = dst[u]
                                        /\ key'[u] = key[u]
            /\ \/ pc'[t] = "return"
               \/ pc'[t] = "import_init" /\ key'[t] \in Key
        BY <3>1, <3>2, DeliverTypes
      <3>4. TypeBody'
        BY <3>1, <3>2, <3>3 DEF Inv1, TypeBody, KeyOrNone
      <3>5. HandleInv'
        BY <3>1, <3>2, <3>3 DEF Inv1, TypeBody, HandleInv, ImportPcs, ReadPcs,
           DestroyPcs
      <3>6. QED
        BY <3>4, <3>5 DEF Inv1
    <2>2. CASE k = NoKey
      <3>1. /\ UNCHANGED <<global, op, arg, want, dst, key, hdr, handle, status>>
            /\ pc' = [pc EXCEPT ![t] = IF op[t] = "export_public" THEN "attr_init"
                                                                  ELSE "open"]
        BY <1>1, <2>2 DEF wolfpsa_volatile_get, Goto
      <3>2. TypeBody'
        BY <3>1, PcsDistinct DEF Inv1, TypeBody, ReadPcs
      <3>3. HandleInv'
        BY <3>1, <2>0 DEF Inv1, TypeBody, HandleInv, ImportPcs, ReadPcs, DestroyPcs
      <3>4. QED
        BY <3>2, <3>3 DEF Inv1
    <2>3. QED
      BY <2>1, <2>2
  <1>2. CASE wolfPSA_Store_Open(t)
    <2>0. arg[t] \in Ids /\ pc[t] = "open"
      BY <1>b, <1>2 DEF wolfPSA_Store_Open, At, ReadPcs
    <2>1. CASE /\ store[arg[t]] # NoKey /\ UNCHANGED <<dst, status>>
               /\ handle' = [handle EXCEPT ![t] = store[arg[t]]]
               /\ pc' = [pc EXCEPT ![t] = "read"]
      <3>1. UNCHANGED <<global, op, arg, want, key, hdr>>
        BY <1>2 DEF wolfPSA_Store_Open
      <3>2. TypeBody'
        BY <2>0, <2>1, <3>1, <1>a, PcsDistinct DEF Inv1, TypeBody, ReadPcs, KeyOrNone
      <3>3. HandleInv'
        BY <2>0, <2>1, <3>1, <1>a DEF Inv1, TypeBody, HandleInv, ImportPcs, ReadPcs,
           DestroyPcs
      <3>4. QED
        BY <3>2, <3>3 DEF Inv1
    <2>2. CASE \E st \in OpenFailures \union {"INVALID_HANDLE"} :
                  Fail(t, st) /\ UNCHANGED handle
      <3>1. UNCHANGED <<global, op, arg, want, key, hdr>>
        BY <1>2 DEF wolfPSA_Store_Open
      <3>2. TypeBody'
        BY <2>2, <3>1, PcsDistinct DEF Fail, Return, OpenFailures, Statuses, Inv1,
           TypeBody
      <3>3. HandleInv'
        BY <2>2, <3>1 DEF Fail, Return, Inv1, TypeBody, HandleInv, ImportPcs, ReadPcs,
           DestroyPcs
      <3>4. QED
        BY <3>2, <3>3 DEF Inv1
    <2>3. QED
      BY <1>2, <2>1, <2>2 DEF wolfPSA_Store_Open, Goto
  <1>3. CASE wolfPSA_Store_Read(t)
    <2> DEFINE k == handle[t]
    <2>1. k \in Key /\ [k EXCEPT !.data = k.data] = k
      BY <1>3 DEF wolfPSA_Store_Read, ReadThrough, At, Inv1, HandleInv, Key
    <2>2. /\ handle' = [handle EXCEPT ![t] = k]
          /\ UNCHANGED <<global, op, arg, want, hdr>>
          /\ \/ psa_export_key_deliver(t, k)
             \/ wolfpsa_get_key_data_deliver(t)
             \/ psa_export_public_key_deliver(t, hdr[t])
             \/ psa_copy_key_deliver(t, k, "copy_persistent")
             \/ Fail(t, "INSUFFICIENT_MEMORY") /\ UNCHANGED key
             \/ Fail(t, "STORAGE_FAILURE") /\ UNCHANGED key
      BY <1>3, <2>1 DEF wolfPSA_Store_Read, ReadThrough
    <2> HIDE DEF k
    <2>3. /\ pc' \in [Threads -> Pcs] /\ status' \in [Threads -> Statuses]
          /\ dst' \in [Threads -> Ids \union {NullId}]
          /\ key' \in [Threads -> KeyOrNone]
          /\ \A u \in Threads \ {t} : /\ pc'[u] = pc[u] /\ dst'[u] = dst[u]
                                      /\ key'[u] = key[u]
          /\ \/ pc'[t] = "return"
             \/ pc'[t] = "import_init" /\ key'[t] \in Key
      BY <2>1, <2>2, DeliverTypes
    <2>4. TypeBody'
      BY <2>1, <2>2, <2>3 DEF Inv1, TypeBody, KeyOrNone
    <2>5. HandleInv'
      BY <2>1, <2>2, <2>3 DEF Inv1, TypeBody, HandleInv, ImportPcs, ReadPcs,
         DestroyPcs
    <2>6. QED
      BY <2>4, <2>5 DEF Inv1
  <1>4. CASE wolfpsa_volatile_get_attributes(t) \/ psa_get_key_attributes_read(t)
    <2>0. arg[t] \in Ids /\ pc[t] \in {"attr_volatile", "attr_open"}
      BY <1>b, <1>4 DEF wolfpsa_volatile_get_attributes, psa_get_key_attributes_read,
         At, ReadPcs
    <2>1. UNCHANGED <<global, op, arg, dst, want, key, handle>>
      BY <1>4 DEF wolfpsa_volatile_get_attributes, psa_get_key_attributes_read
    <2>2. CASE \E k \in Key : HaveAttributes(t, k)
      <3>1. TypeBody'
        BY <2>1, <2>2, PcsDistinct DEF HaveAttributes, Return, Goto, Statuses,
           ReadPcs,
           KeyOrNone, Inv1, TypeBody
      <3>2. HandleInv'
        BY <2>0, <2>1, <2>2 DEF HaveAttributes, Return, Goto, Inv1, TypeBody,
           HandleInv,
           ImportPcs, ReadPcs, DestroyPcs
      <3>3. QED
        BY <3>1, <3>2 DEF Inv1
    <2>3. CASE /\ UNCHANGED hdr
               /\ \/ Goto(t, "attr_open")
                  \/ \E st \in OpenFailures \union {"INVALID_HANDLE"} : Return(t, st)
      <3>1. TypeBody'
        BY <2>1, <2>3, PcsDistinct DEF Return, Goto, Statuses, ReadPcs, OpenFailures,
           Inv1, TypeBody
      <3>2. HandleInv'
        BY <2>0, <2>1, <2>3 DEF Return, Goto, Inv1, TypeBody, HandleInv, ImportPcs,
           ReadPcs, DestroyPcs
      <3>3. QED
        BY <3>1, <3>2 DEF Inv1
    <2>4. QED
      BY <1>a, <1>4, <2>0, <2>2, <2>3 DEF wolfpsa_volatile_get_attributes,
         psa_get_key_attributes_read
  <1>5. QED
    BY <1>1, <1>2, <1>3, <1>4 DEF ReadStep

LEMMA OtherStepInv1 ==
    ASSUME Inv1, NEW t \in Threads,
           \/ psa_key_storage_check_init(t) \/ DestroyStep(t)
           \/ CleanupStep(t) \/ TakeAnswer(t)
    PROVE  Inv1'
  <1> USE DEF Goto, Return, Fail, Answer, At, global, KeyOrNone, Statuses, ImportPcs, ReadPcs, DestroyPcs
  <1>1. CASE psa_key_storage_check_init(t)
    <2>1. TypeBody'
      BY <1>1, PcsDistinct, VendorIdsType DEF psa_key_storage_check_init,
         AfterInit, Inv1, TypeBody, HandleInv
    <2>2. HandleInv'
      BY <1>1, VendorIdsType DEF psa_key_storage_check_init, AfterInit, Inv1,
         TypeBody, HandleInv
    <2>3. QED
      BY <2>1, <2>2 DEF Inv1
  <1>2. CASE wolfpsa_volatile_remove(t)
    <2>1. TypeBody'
      BY <1>2, PcsDistinct, VendorIdsType DEF wolfpsa_volatile_remove, Inv1,
         TypeBody, HandleInv
    <2>2. HandleInv'
      BY <1>2, VendorIdsType DEF wolfpsa_volatile_remove, Inv1, TypeBody, HandleInv
    <2>3. QED
      BY <2>1, <2>2 DEF Inv1
  <1>3. CASE psa_destroy_key_remove(t)
    <2>1. TypeBody'
      BY <1>3, PcsDistinct, VendorIdsType DEF psa_destroy_key_remove, Inv1,
         TypeBody, HandleInv
    <2>2. HandleInv'
      BY <1>3, VendorIdsType DEF psa_destroy_key_remove, Inv1, TypeBody, HandleInv
    <2>3. QED
      BY <2>1, <2>2 DEF Inv1
  <1>4. CASE psa_key_storage_cleanup(t)
    <2>1. TypeBody'
      BY <1>4, PcsDistinct, VendorIdsType DEF psa_key_storage_cleanup, CleanupPcs,
         Inv1, TypeBody, HandleInv
    <2>2. HandleInv'
      BY <1>4, VendorIdsType DEF psa_key_storage_cleanup, CleanupPcs, Inv1,
         TypeBody, HandleInv
    <2>3. QED
      BY <2>1, <2>2 DEF Inv1
  <1>5. CASE wolfCrypt_Cleanup(t)
    <2>1. TypeBody'
      BY <1>5, PcsDistinct, VendorIdsType DEF wolfCrypt_Cleanup, Inv1, TypeBody,
         HandleInv
    <2>2. HandleInv'
      BY <1>5, VendorIdsType DEF wolfCrypt_Cleanup, Inv1, TypeBody, HandleInv
    <2>3. QED
      BY <2>1, <2>2 DEF Inv1
  <1>6. CASE TakeAnswer(t)
    <2>1. TypeBody'
      BY <1>6, PcsDistinct, VendorIdsType DEF TakeAnswer, Inv1, TypeBody, HandleInv
    <2>2. HandleInv'
      BY <1>6, VendorIdsType DEF TakeAnswer, Inv1, TypeBody, HandleInv
    <2>3. QED
      BY <2>1, <2>2 DEF Inv1
  <1>7. QED
    BY <1>1, <1>2, <1>3, <1>4, <1>5, <1>6 DEF DestroyStep, CleanupStep

LEMMA RestartInv1 == ASSUME Inv1, Restart PROVE Inv1'
  <1>0. initialized' \in BOOLEAN
    BY DEF Restart
  <1>1. TypeBody'
    BY <1>0, IdAssumption DEF Restart, Inv1, TypeBody, KeyOrNone, Pcs, Statuses
  <1>2. HandleInv'
    BY DEF Restart, HandleInv, ImportPcs, ReadPcs, DestroyPcs
  <1>3. QED
    BY <1>1, <1>2 DEF Inv1

LEMMA NextInv1 == Inv1 /\ [Next]_vars => Inv1'
  <1> SUFFICES ASSUME Inv1, [Next]_vars PROVE Inv1'
    OBVIOUS
  <1>1. CASE UNCHANGED vars
    BY <1>1 DEF vars, global, local, Inv1, TypeBody, HandleInv
  <1>2. CASE Restart
    BY <1>2, RestartInv1
  <1>3. ASSUME NEW t \in Threads, Call(t) \/ Step(t) \/ TakeAnswer(t) PROVE Inv1'
    BY <1>3, CallInv1, ImportStepInv1, ReadStepInv1, OtherStepInv1 DEF Step
  <1>4. QED
    BY <1>1, <1>2, <1>3 DEF Next

(***************************************************************************)
(* The history variable.                                                    *)
(***************************************************************************)
LEMMA NextTracks == Next => Track
  <1> SUFFICES ASSUME Next PROVE Track
    OBVIOUS
  <1>1. CASE Restart
    BY <1>1 DEF Restart
  <1>2. ASSUME NEW t \in Threads, Call(t) PROVE Track
    BY <1>2 DEF Call, BeginImport, BeginRead, BeginCopy, BeginDestroy, Begin,
       psa_crypto_init, wolfPSA_CryptoCleanup
  <1>3. ASSUME NEW t \in Threads, ImportStep(t) PROVE Track
    BY <1>3 DEF ImportStep, psa_import_key_assign_id, AssignId, psa_import_key_alloc,
       wolfpsa_volatile_store, psa_import_key_lock, psa_import_key_probe, Probe,
       psa_import_key_open_write, psa_import_key_write, psa_import_key_close,
       psa_import_key_unlock
  <1>4. ASSUME NEW t \in Threads, ReadStep(t) PROVE Track
    BY <1>4 DEF ReadStep, wolfpsa_volatile_get, wolfPSA_Store_Open,
       wolfPSA_Store_Read, ReadThrough, wolfpsa_volatile_get_attributes,
       psa_get_key_attributes_read
  <1>5. ASSUME NEW t \in Threads,
               \/ psa_key_storage_check_init(t) \/ DestroyStep(t)
               \/ CleanupStep(t) \/ TakeAnswer(t)
        PROVE  Track
    BY <1>5 DEF psa_key_storage_check_init, DestroyStep, wolfpsa_volatile_remove,
       psa_destroy_key_remove, CleanupStep, psa_key_storage_cleanup,
       wolfCrypt_Cleanup, TakeAnswer
  <1>6. QED
    BY <1>1, <1>2, <1>3, <1>4, <1>5 DEF Next, Step

SeenType == seen \in [Threads -> SUBSET KeyOrNone]

LEMMA NextSeenType == Inv1 /\ Inv1' /\ SeenType /\ [Next]_vars => SeenType'
  <1> SUFFICES ASSUME Inv1, Inv1', SeenType, [Next]_vars PROVE SeenType'
    OBVIOUS
  <1>1. CASE UNCHANGED vars
    BY <1>1 DEF vars, SeenType
  <1>2. CASE Next
    <2>1. ASSUME NEW i \in Ids \union {NullId}
          PROVE  View(volatile', store', i) \in KeyOrNone
      BY DEF View, KeyOrNone, Inv1, TypeBody
    <2>2. ASSUME NEW t \in Threads
          PROVE  Focus(t) \in Ids \union {NullId} /\ Focus(t)' \in Ids \union {NullId}
      BY DEF Focus, Inv1, TypeBody
    <2>3. ASSUME NEW t \in Threads
          PROVE  /\ View(volatile', store', Focus(t)) \in KeyOrNone
                 /\ View(volatile', store', Focus(t)') \in KeyOrNone
                 /\ seen[t] \in SUBSET KeyOrNone
      BY <2>1, <2>2 DEF SeenType
    <2>4. Track
      BY <1>2, NextTracks
    <2>5. QED
      BY <2>3, <2>4 DEF Track, SeenType
  <1>3. QED
    BY <1>1, <1>2

(* Type correctness of every reachable state, whatever the threads call:     *)
(* the inductive invariant adds that a call past a point has its id, its    *)
(* key and its open handle (HandleInv).                                     *)
THEOREM TypeCorrect == Spec => []TypeOK
  <1>1. Init => Inv1 /\ SeenType
    BY InitInv1 DEF Init, SeenType
  <1>2. Inv1 /\ SeenType /\ [Next]_vars => Inv1' /\ SeenType'
    BY NextInv1, NextSeenType
  <1>3. Inv1 /\ SeenType => TypeOK
    BY DEF Inv1, TypeBody, SeenType, TypeOK
  <1>4. QED
    BY <1>1, <1>2, <1>3, PTL DEF Spec

(***************************************************************************)
(* No import replaces a record.  A thread between the probe and the rename   *)
(* holds the mutex, and the id it probed is still absent: the only steps    *)
(* outside the mutex that touch the store remove records.                   *)
(***************************************************************************)
LockInv == \A t \in Threads : pc[t] \in LockedPcs => lock = t

ProbeInv ==
    \A t \in Threads :
        pc[t] \in {"open_write", "write", "close"} => store[dst[t]] = NoKey

Inv2 == LockInv /\ ProbeInv

(* A step of t that leaves the store and the mutex alone and ends outside    *)
(* the guarded region.                                                      *)
Quiet(t) ==
    /\ UNCHANGED <<lock, store>>
    /\ \A u \in Threads \ {t} : pc'[u] = pc[u] /\ dst'[u] = dst[u]
    /\ pc'[t] \notin LockedPcs

LEMMA QuietInv2 == ASSUME Inv2, NEW t \in Threads, Quiet(t) PROVE Inv2'
  BY DEF Inv2, LockInv, ProbeInv, Quiet, LockedPcs

LEMMA QuietCalls ==
    ASSUME Inv1, NEW t \in Threads, Call(t) \/ TakeAnswer(t) PROVE Quiet(t)
  <1> USE DEF Quiet, global, LockedPcs, Inv1, TypeBody
  <1>1. CASE TakeAnswer(t)
    BY <1>1 DEF TakeAnswer
  <1>2. CASE BeginImport(t)
    BY <1>2 DEF BeginImport, Begin
  <1>3. CASE BeginRead(t)
    BY <1>3 DEF BeginRead, Begin
  <1>4. CASE BeginCopy(t)
    BY <1>4 DEF BeginCopy, Begin
  <1>5. CASE BeginDestroy(t)
    BY <1>5 DEF BeginDestroy, Begin
  <1>6. CASE psa_crypto_init(t)
    BY <1>6 DEF psa_crypto_init, Return
  <1>7. CASE wolfPSA_CryptoCleanup(t)
    BY <1>7 DEF wolfPSA_CryptoCleanup, Goto
  <1>8. QED
    BY <1>1, <1>2, <1>3, <1>4, <1>5, <1>6, <1>7 DEF Call

(* The readers hold no lock and write nothing. *)
LEMMA QuietReads == ASSUME Inv1, NEW t \in Threads, ReadStep(t) PROVE Quiet(t)
  <1> USE DEF Quiet, global, LockedPcs, Inv1, TypeBody
  <1>1. ASSUME NEW k, NEW attr, NEW life,
               \/ psa_export_key_deliver(t, k)
               \/ wolfpsa_get_key_data_deliver(t)
               \/ psa_export_public_key_deliver(t, attr)
               \/ psa_copy_key_deliver(t, k, life)
               \/ Fail(t, "INSUFFICIENT_MEMORY")
               \/ Fail(t, "STORAGE_FAILURE")
        PROVE  /\ \A u \in Threads \ {t} : pc'[u] = pc[u] /\ dst'[u] = dst[u]
               /\ pc'[t] \notin LockedPcs
    BY <1>1 DEF psa_export_key_deliver, wolfpsa_get_key_data_deliver,
       psa_export_public_key_deliver, psa_copy_key_deliver, Fail, Answer, Return, Goto
  <1>2. CASE wolfpsa_volatile_get(t)
    <2>1. CASE volatile[arg[t]] = NoKey
      BY <1>2, <2>1 DEF wolfpsa_volatile_get, Goto
    <2>2. CASE volatile[arg[t]] # NoKey
      BY <1>1, <1>2, <2>2 DEF wolfpsa_volatile_get
    <2>3. QED
      BY <2>1, <2>2
  <1>3. CASE wolfPSA_Store_Open(t)
    BY <1>3 DEF wolfPSA_Store_Open, Fail, Return, Goto
  <1>4. CASE wolfPSA_Store_Read(t)
    BY <1>1, <1>4 DEF wolfPSA_Store_Read, ReadThrough
  <1>5. CASE wolfpsa_volatile_get_attributes(t)
    BY <1>5 DEF wolfpsa_volatile_get_attributes, HaveAttributes, Return, Goto
  <1>6. CASE psa_get_key_attributes_read(t)
    BY <1>6 DEF psa_get_key_attributes_read, HaveAttributes, Return, Goto
  <1>7. QED
    BY <1>2, <1>3, <1>4, <1>5, <1>6 DEF ReadStep

LEMMA QuietSteps ==
    ASSUME Inv1, NEW t \in Threads,
           \/ psa_key_storage_check_init(t) \/ CleanupStep(t)
           \/ wolfpsa_volatile_remove(t) \/ psa_import_key_assign_id(t)
           \/ psa_import_key_alloc(t) \/ wolfpsa_volatile_store(t)
    PROVE  Quiet(t)
  <1> USE DEF Quiet, global, LockedPcs, Inv1, TypeBody, Return, Goto, Fail
  <1>1. CASE psa_key_storage_check_init(t)
    <2>1. pc[t] \in {"import_init", "destroy_init", "attr_init", "init"} =>
            AfterInit(pc[t]) \notin LockedPcs
      BY DEF AfterInit
    <2>2. QED
      BY <1>1, <2>1 DEF psa_key_storage_check_init
  <1>2. CASE CleanupStep(t)
    BY <1>2 DEF CleanupStep, psa_key_storage_cleanup, wolfCrypt_Cleanup
  <1>3. CASE wolfpsa_volatile_remove(t)
    BY <1>3 DEF wolfpsa_volatile_remove
  <1>4. CASE psa_import_key_assign_id(t)
    BY <1>4 DEF psa_import_key_assign_id, AssignId
  <1>5. CASE psa_import_key_alloc(t)
    BY <1>5 DEF psa_import_key_alloc
  <1>6. CASE wolfpsa_volatile_store(t)
    BY <1>6 DEF wolfpsa_volatile_store
  <1>7. QED
    BY <1>1, <1>2, <1>3, <1>4, <1>5, <1>6

(* What a step may do to the records. *)
KeepsRecords ==
    \A i \in Ids : store[i] # NoKey => store'[i] \in {store[i], NoKey}

LEMMA GuardedSteps ==
    ASSUME Inv1, Inv2, NEW t \in Threads,
           \/ psa_import_key_lock(t) \/ psa_import_key_probe(t)
           \/ psa_import_key_open_write(t) \/ psa_import_key_write(t)
           \/ psa_import_key_close(t) \/ psa_import_key_unlock(t)
           \/ psa_destroy_key_remove(t)
    PROVE  Inv2' /\ KeepsRecords
  <1> USE ThreadsAssumption
      DEF global, At, Return, Goto, Fail, Inv1, TypeBody, HandleInv, Inv2, LockInv,
          ProbeInv, LockedPcs, ImportPcs, KeepsRecords
  <1>1. CASE psa_import_key_lock(t)
    BY <1>1 DEF psa_import_key_lock, Locked
  <1>2. CASE psa_import_key_probe(t)
    BY <1>2 DEF psa_import_key_probe, Probe
  <1>3. CASE psa_import_key_open_write(t)
    BY <1>3 DEF psa_import_key_open_write
  <1>4. CASE psa_import_key_write(t)
    BY <1>4 DEF psa_import_key_write
  <1>5. CASE psa_import_key_close(t)
    <2>1. store[dst[t]] = NoKey /\ lock = t
      BY <1>5 DEF psa_import_key_close
    <2>2. \A u \in Threads \ {t} : pc[u] \notin LockedPcs
      BY <2>1
    <2>3. QED
      BY <1>5, <2>1, <2>2 DEF psa_import_key_close
  <1>6. CASE psa_import_key_unlock(t)
    BY <1>6 DEF psa_import_key_unlock
  <1>7. CASE psa_destroy_key_remove(t)
    BY <1>7 DEF psa_destroy_key_remove, DestroyPcs
  <1>8. QED
    BY <1>1, <1>2, <1>3, <1>4, <1>5, <1>6, <1>7

LEMMA NextInv2 == Inv1 /\ Inv2 /\ [Next]_vars => Inv2' /\ KeepsRecords
  <1> SUFFICES ASSUME Inv1, Inv2, [Next]_vars PROVE Inv2' /\ KeepsRecords
    OBVIOUS
  <1>1. CASE UNCHANGED vars
    BY <1>1 DEF vars, global, local, Inv2, LockInv, ProbeInv, KeepsRecords
  <1>2. CASE Restart
    BY <1>2 DEF Restart, Inv2, LockInv, ProbeInv, KeepsRecords, LockedPcs
  <1>3. ASSUME NEW t \in Threads, Quiet(t) PROVE Inv2' /\ KeepsRecords
    BY <1>3, QuietInv2 DEF Quiet, KeepsRecords
  <1>4. ASSUME NEW t \in Threads, Call(t) \/ Step(t) \/ TakeAnswer(t)
        PROVE  Inv2' /\ KeepsRecords
    BY <1>3, <1>4, QuietCalls, QuietReads, QuietSteps, GuardedSteps
       DEF Step, ImportStep, DestroyStep
  <1>5. QED
    BY <1>1, <1>2, <1>3, <1>4 DEF Next

(* psa_import_key() never replaces a persistent record, for any number of    *)
(* threads: from the mutual exclusion of the guarded region (LockInv) and   *)
(* the probe's answer staying true inside it (ProbeInv).                    *)
THEOREM ImportNeverOverwrites == Spec => NoOverwrite
  <1>1. Init => Inv1 /\ Inv2
    BY InitInv1 DEF Init, Inv2, LockInv, ProbeInv, LockedPcs
  <1>2. Inv1 /\ Inv2 /\ [Next]_vars => Inv1' /\ Inv2'
    BY NextInv1, NextInv2
  <1>3. Inv1 /\ Inv2 /\ [Next]_vars => [KeepsRecords]_vars
    BY NextInv2
  <1>4. QED
    BY <1>1, <1>2, <1>3, PTL DEF Spec, NoOverwrite, KeepsRecords

(***************************************************************************)
(* Usage flags never grow.  Keys under way (the import's own copy, the       *)
(* record behind a handle) obey the bound as well as stored ones.           *)
(***************************************************************************)
WithinGrant(k) == k # NoKey => k.usage \subseteq Granted[k.data]

GrantInv ==
    /\ \A i \in Ids : WithinGrant(volatile[i]) /\ WithinGrant(store[i])
    /\ \A t \in Threads : WithinGrant(key[t]) /\ WithinGrant(handle[t])

(* An export that succeeded did so on the flags of the key it returns. *)
ExportInv ==
    \A t \in Threads :
        pc[t] = "return" /\ op[t] = "export" /\ status[t] = "SUCCESS" =>
            handle[t] \in Key /\ "EXPORT" \in handle[t].usage

Inv3 == GrantInv /\ ExportInv

(* A step of t that changes no key and returns from no export. *)
Harmless(t) ==
    /\ UNCHANGED <<volatile, store, key, handle>>
    /\ \A u \in Threads \ {t} : UNCHANGED <<pc[u], op[u], status[u]>>
    /\ pc'[t] = "return" /\ op'[t] = "export" => status'[t] # "SUCCESS"

LEMMA HarmlessInv3 == ASSUME Inv3, NEW t \in Threads, Harmless(t) PROVE Inv3'
  BY DEF Inv3, GrantInv, ExportInv, WithinGrant, Harmless

(* Where an export can be: the steps of the other calls never return for it. *)
OpInv ==
    \A t \in Threads :
        op[t] \in {"export", "attributes", "export_public"} =>
            pc[t] \notin ImportPcs \union DestroyPcs \union CleanupPcs

LEMMA OpInvStep == Inv1 /\ OpInv /\ [Next]_vars => OpInv'
  <1> SUFFICES ASSUME Inv1, OpInv, [Next]_vars PROVE OpInv'
    OBVIOUS
  <1> USE DEF OpInv, ImportPcs, DestroyPcs, CleanupPcs
  <1>1. CASE UNCHANGED vars
    BY <1>1 DEF vars, local
  <1>2. CASE Restart
    BY <1>2 DEF Restart
  <1>3. ASSUME NEW t \in Threads, Call(t) \/ TakeAnswer(t) PROVE OpInv'
    <2> USE DEF Inv1, TypeBody
    <2>1. CASE TakeAnswer(t)
      BY <2>1 DEF TakeAnswer
    <2>2. CASE BeginImport(t)
      BY <2>2 DEF BeginImport, Begin
    <2>3. CASE BeginRead(t)
      BY <2>3 DEF BeginRead, Begin
    <2>4. CASE BeginCopy(t)
      BY <2>4 DEF BeginCopy, Begin
    <2>5. CASE BeginDestroy(t)
      BY <2>5 DEF BeginDestroy, Begin
    <2>6. CASE psa_crypto_init(t) \/ wolfPSA_CryptoCleanup(t)
      BY <2>6 DEF psa_crypto_init, wolfPSA_CryptoCleanup, Return, Goto
    <2>7. QED
      BY <1>3, <2>1, <2>2, <2>3, <2>4, <2>5, <2>6 DEF Call
  <1>4. ASSUME NEW t \in Threads, ImportStep(t) \/ DestroyStep(t) \/ CleanupStep(t)
        PROVE  OpInv'
    <2>1. pc[t] \in ImportPcs \union DestroyPcs \union CleanupPcs /\ UNCHANGED op
      BY <1>4 DEF ImportStep, DestroyStep, CleanupStep, At,
         psa_import_key_assign_id, AssignId, psa_import_key_alloc, global,
         wolfpsa_volatile_store, psa_import_key_lock, psa_import_key_probe, Probe,
         psa_import_key_open_write, psa_import_key_write, psa_import_key_close,
         psa_import_key_unlock, wolfpsa_volatile_remove, psa_destroy_key_remove,
         psa_key_storage_cleanup, wolfCrypt_Cleanup
    <2>2. \A u \in Threads \ {t} : pc'[u] = pc[u]
      BY <1>4 DEF ImportStep, DestroyStep, CleanupStep, Return, Goto, Fail,
         psa_import_key_assign_id, AssignId, psa_import_key_alloc, Inv1, TypeBody,
         wolfpsa_volatile_store, psa_import_key_lock, psa_import_key_probe, Probe,
         psa_import_key_open_write, psa_import_key_write, psa_import_key_close,
         psa_import_key_unlock, wolfpsa_volatile_remove, psa_destroy_key_remove,
         psa_key_storage_cleanup, wolfCrypt_Cleanup
    <2>3. QED
      BY <2>1, <2>2
  <1>5. ASSUME NEW t \in Threads, psa_key_storage_check_init(t) PROVE OpInv'
    BY <1>5 DEF psa_key_storage_check_init, AfterInit, Goto, Fail, Return,
       Inv1, TypeBody
  <1>6. ASSUME NEW t \in Threads, ReadStep(t) PROVE OpInv'
    <2>1. UNCHANGED op /\ \A u \in Threads \ {t} : pc'[u] = pc[u]
      BY <1>6, QuietReads DEF Quiet, ReadStep, wolfpsa_volatile_get,
         wolfPSA_Store_Open, wolfPSA_Store_Read, ReadThrough,
         wolfpsa_volatile_get_attributes, psa_get_key_attributes_read
    <2>2. op[t] \in {"export", "attributes", "export_public"} =>
            pc'[t] \in {"return", "attr_init", "open", "read", "attr_open"}
      <3> USE DEF Inv1, TypeBody, Fail, Answer, Return, Goto
      <3>1. ASSUME NEW k, NEW attr, NEW life, op[t] \notin Copies,
               \/ psa_export_key_deliver(t, k)
               \/ wolfpsa_get_key_data_deliver(t)
               \/ psa_export_public_key_deliver(t, attr)
               \/ psa_copy_key_deliver(t, k, life)
               \/ Fail(t, "INSUFFICIENT_MEMORY")
               \/ Fail(t, "STORAGE_FAILURE")
            PROVE  pc'[t] = "return"
        BY <3>1 DEF psa_export_key_deliver, wolfpsa_get_key_data_deliver,
           psa_export_public_key_deliver, psa_copy_key_deliver
      <3>2. CASE wolfpsa_volatile_get(t)
        BY <3>1, <3>2 DEF wolfpsa_volatile_get, Copies
      <3>3. CASE wolfPSA_Store_Open(t)
        BY <3>3 DEF wolfPSA_Store_Open
      <3>4. CASE wolfPSA_Store_Read(t)
        BY <3>1, <3>4 DEF wolfPSA_Store_Read, ReadThrough, Copies
      <3>5. CASE wolfpsa_volatile_get_attributes(t) \/ psa_get_key_attributes_read(t)
        BY <3>5 DEF wolfpsa_volatile_get_attributes, psa_get_key_attributes_read,
           HaveAttributes
      <3>6. QED
        BY <1>6, <3>2, <3>3, <3>4, <3>5 DEF ReadStep
    <2>3. QED
      BY <2>1, <2>2
  <1>7. QED
    BY <1>1, <1>2, <1>3, <1>4, <1>5, <1>6 DEF Next, Step

LEMMA GrantCalls ==
    ASSUME Inv1, Inv3, NEW t \in Threads, Call(t) \/ TakeAnswer(t) PROVE Inv3'
  <1> USE DEF Inv1, TypeBody, global
  <1>1. ASSUME NEW p, NEW o, NEW a, NEW d, NEW w, NEW k,
               WithinGrant(k), p # "return", Begin(t, p, o, a, d, w, k)
        PROVE  Inv3'
    BY <1>1 DEF Begin, Inv3, GrantInv, ExportInv, WithinGrant
  <1>2. CASE BeginImport(t)
    <2>1. ASSUME NEW m \in Material
          PROVE  WithinGrant([usage |-> Granted[m], data |-> m])
      BY DEF WithinGrant
    <2>2. QED
      BY <1>1, <1>2, <2>1 DEF BeginImport
  <1>3. CASE BeginRead(t) \/ BeginCopy(t) \/ BeginDestroy(t)
    <2>1. WithinGrant(NoKey)
      BY DEF WithinGrant
    <2>2. QED
      BY <1>1, <1>3, <2>1 DEF BeginRead, BeginCopy, BeginDestroy
  <1>4. CASE psa_crypto_init(t)
    <2>1. Harmless(t)
      BY <1>4 DEF psa_crypto_init, Harmless, Return
    <2>2. QED
      BY <2>1, HarmlessInv3
  <1>5. CASE wolfPSA_CryptoCleanup(t)
    <2>1. Harmless(t)
      BY <1>5 DEF wolfPSA_CryptoCleanup, Harmless, Goto
    <2>2. QED
      BY <2>1, HarmlessInv3
  <1>6. CASE TakeAnswer(t)
    BY <1>6 DEF TakeAnswer, Inv3, GrantInv, ExportInv, WithinGrant
  <1>7. QED
    BY <1>2, <1>3, <1>4, <1>5, <1>6 DEF Call

(* The writers store the key they carry; the removers store none. *)
LEMMA GrantWrites ==
    ASSUME Inv1, OpInv, Inv3, NEW t \in Threads,
           ImportStep(t) \/ DestroyStep(t) \/ CleanupStep(t)
    PROVE  Inv3'
  <1> USE DEF Inv1, TypeBody, global, At, Return, Goto, Fail
  <1>1. pc[t] \in ImportPcs \union DestroyPcs \union CleanupPcs => op[t] # "export"
    BY DEF OpInv
  <1>2. ASSUME \/ psa_import_key_assign_id(t) \/ psa_import_key_alloc(t)
               \/ psa_import_key_lock(t) \/ psa_import_key_probe(t)
               \/ psa_import_key_open_write(t) \/ psa_import_key_write(t)
               \/ psa_import_key_unlock(t) \/ wolfCrypt_Cleanup(t)
        PROVE  Harmless(t)
    BY <1>1, <1>2 DEF psa_import_key_assign_id, AssignId, psa_import_key_alloc,
       psa_import_key_lock, psa_import_key_probe, Probe, psa_import_key_open_write,
       psa_import_key_write, psa_import_key_unlock, wolfCrypt_Cleanup, Harmless,
       ImportPcs, CleanupPcs
  <1>3. CASE wolfpsa_volatile_store(t)
    BY <1>1, <1>3 DEF wolfpsa_volatile_store, HandleInv, ImportPcs, Inv3, GrantInv,
       ExportInv
  <1>4. CASE psa_import_key_close(t)
    BY <1>1, <1>4 DEF psa_import_key_close, HandleInv, ImportPcs, Inv3, GrantInv,
       ExportInv
  <1>5. CASE DestroyStep(t)
    BY <1>1, <1>5 DEF DestroyStep, wolfpsa_volatile_remove, psa_destroy_key_remove,
       DestroyPcs, HandleInv, Inv3, GrantInv, ExportInv, WithinGrant
  <1>6. CASE psa_key_storage_cleanup(t)
    BY <1>1, <1>6 DEF psa_key_storage_cleanup, CleanupPcs, Inv3, GrantInv,
       ExportInv, WithinGrant
  <1>7. QED
    BY <1>2, <1>3, <1>4, <1>5, <1>6, HarmlessInv3 DEF ImportStep, CleanupStep

(* The readers: the flags that authorize an export, and the flags a copy     *)
(* inherits, are those of the key that is delivered.                        *)
LEMMA GrantReads == ASSUME Inv1, Inv3, NEW t \in Threads, ReadStep(t) PROVE Inv3'
  <1> USE DEF Inv1, TypeBody, global, Return, Goto, Fail, Answer
  <1>0. UNCHANGED op /\ \A u \in Threads \ {t} : UNCHANGED <<pc[u], status[u]>>
    <2>1. UNCHANGED op /\ \A u \in Threads \ {t} : UNCHANGED pc[u]
      BY QuietReads DEF Quiet, ReadStep, wolfpsa_volatile_get, wolfPSA_Store_Open,
         wolfPSA_Store_Read, ReadThrough, wolfpsa_volatile_get_attributes,
         psa_get_key_attributes_read
    <2>2. \A u \in Threads \ {t} : UNCHANGED status[u]
      BY DEF ReadStep, wolfpsa_volatile_get, wolfPSA_Store_Open,
         wolfPSA_Store_Read, ReadThrough, wolfpsa_volatile_get_attributes,
         psa_get_key_attributes_read, psa_export_key_deliver,
         wolfpsa_get_key_data_deliver, psa_export_public_key_deliver,
         psa_copy_key_deliver, HaveAttributes
    <2>3. QED
      BY <2>1, <2>2
  <1>1. ASSUME NEW k \in Key, NEW attr, NEW life, WithinGrant(k),
               UNCHANGED <<volatile, store>>,
               handle' = [handle EXCEPT ![t] = k],
               \/ psa_export_key_deliver(t, k)
               \/ wolfpsa_get_key_data_deliver(t)
               \/ psa_export_public_key_deliver(t, attr)
               \/ psa_copy_key_deliver(t, k, life)
               \/ Fail(t, "INSUFFICIENT_MEMORY") /\ UNCHANGED key
               \/ Fail(t, "STORAGE_FAILURE") /\ UNCHANGED key
        PROVE  Inv3'
    <2>1. WithinGrant(key'[t]) /\ \A u \in Threads \ {t} : key'[u] = key[u]
      <3>1. CASE psa_copy_key_deliver(t, k, life)
        <4>1. k # NoKey
          BY KeyAssumption
        <4> DEFINE c == [usage |-> k.usage \intersect want[t], data |-> k.data]
        <4>2. WithinGrant(c)
          BY <1>1, <4>1 DEF WithinGrant
        <4> HIDE DEF c
        <4>3. UNCHANGED key \/ key' = [key EXCEPT ![t] = c]
          BY <3>1 DEF psa_copy_key_deliver, c
        <4>4. QED
          BY <4>2, <4>3 DEF Inv3, GrantInv
      <3>2. CASE UNCHANGED key
        BY <3>2 DEF Inv3, GrantInv
      <3>3. QED
        BY <1>1, <3>1, <3>2 DEF psa_export_key_deliver,
           wolfpsa_get_key_data_deliver, psa_export_public_key_deliver
    <2>2. pc'[t] = "return" /\ op[t] = "export" /\ status'[t] = "SUCCESS" =>
            "EXPORT" \in k.usage
      BY <1>1 DEF psa_export_key_deliver, wolfpsa_get_key_data_deliver,
         psa_export_public_key_deliver, psa_copy_key_deliver, Copies
    <2>3. QED
      BY <1>0, <1>1, <2>1, <2>2 DEF Inv3, GrantInv, ExportInv
  <1>2. CASE wolfpsa_volatile_get(t)
    <2>0. arg[t] \in Ids
      BY <1>2 DEF wolfpsa_volatile_get, At, HandleInv, ReadPcs
    <2>1. CASE volatile[arg[t]] = NoKey
      <3>1. Harmless(t)
        BY <1>0, <1>2, <2>1 DEF wolfpsa_volatile_get, Harmless
      <3>2. QED
        BY <3>1, HarmlessInv3
    <2>2. CASE volatile[arg[t]] # NoKey
      <3>1. volatile[arg[t]] \in Key /\ WithinGrant(volatile[arg[t]])
        BY <2>0, <2>2 DEF KeyOrNone, Inv3, GrantInv
      <3>2. QED
        BY <1>1, <1>2, <2>2, <3>1 DEF wolfpsa_volatile_get
    <2>3. QED
      BY <2>1, <2>2
  <1>3. CASE wolfPSA_Store_Open(t)
    <2>1. arg[t] \in Ids
      BY <1>3 DEF wolfPSA_Store_Open, At, HandleInv, ReadPcs
    <2>2. WithinGrant(handle'[t]) /\ \A u \in Threads \ {t} : handle'[u] = handle[u]
      BY <1>3, <2>1 DEF wolfPSA_Store_Open, Inv3, GrantInv
    <2>3. status'[t] # "SUCCESS" \/ pc'[t] # "return"
      BY <1>3 DEF wolfPSA_Store_Open, OpenFailures
    <2>4. UNCHANGED <<volatile, store, key>>
      BY <1>3 DEF wolfPSA_Store_Open
    <2>5. QED
      BY <1>0, <2>2, <2>3, <2>4 DEF Inv3, GrantInv, ExportInv
  <1>4. CASE wolfPSA_Store_Read(t)
    <2>1. handle[t] \in Key /\ WithinGrant(handle[t])
      BY <1>4 DEF wolfPSA_Store_Read, ReadThrough, At, HandleInv, Inv3, GrantInv
    <2>2. [handle[t] EXCEPT !.data = handle[t].data] = handle[t]
      BY <2>1 DEF Key
    <2>3. QED
      BY <1>1, <1>4, <2>1, <2>2 DEF wolfPSA_Store_Read, ReadThrough
  <1>5. CASE wolfpsa_volatile_get_attributes(t) \/ psa_get_key_attributes_read(t)
    <2>1. Harmless(t)
      BY <1>0, <1>5 DEF wolfpsa_volatile_get_attributes, psa_get_key_attributes_read,
         HaveAttributes, Harmless, OpenFailures
    <2>2. QED
      BY <2>1, HarmlessInv3
  <1>6. QED
    BY <1>2, <1>3, <1>4, <1>5 DEF ReadStep

LEMMA NextInv3 == Inv1 /\ OpInv /\ Inv3 /\ [Next]_vars => Inv3'
  <1> SUFFICES ASSUME Inv1, OpInv, Inv3, [Next]_vars PROVE Inv3'
    OBVIOUS
  <1>1. CASE UNCHANGED vars
    BY <1>1 DEF vars, global, local, Inv3, GrantInv, ExportInv, WithinGrant
  <1>2. CASE Restart
    BY <1>2 DEF Restart, Inv3, GrantInv, ExportInv, WithinGrant
  <1>3. ASSUME NEW t \in Threads, psa_key_storage_check_init(t) PROVE Inv3'
    <2>1. Harmless(t)
      BY <1>3 DEF psa_key_storage_check_init, AfterInit, Harmless, Fail, Return,
         Goto, global, Inv1, TypeBody
    <2>2. QED
      BY <2>1, HarmlessInv3
  <1>4. QED
    BY <1>1, <1>2, <1>3, GrantCalls, GrantWrites, GrantReads DEF Next, Step

(* No sequence of calls of any number of threads gives key material a usage  *)
(* flag it was not imported with, and an export releases only exportable    *)
(* material: keys in flight obey the bound (GrantInv) and the flags an      *)
(* export checked are those of the key it returns (ExportInv).              *)
THEOREM UsageNeverGrows == Spec => []UsageWithinGrant
  <1>1. Init => Inv1 /\ OpInv /\ Inv3
    BY InitInv1 DEF Init, OpInv, Inv3, GrantInv, ExportInv, WithinGrant,
       ImportPcs, DestroyPcs, CleanupPcs
  <1>2. Inv1 /\ OpInv /\ Inv3 /\ [Next]_vars => Inv1' /\ OpInv' /\ Inv3'
    BY NextInv1, OpInvStep, NextInv3
  <1>3. Inv1 /\ OpInv /\ Inv3 => UsageWithinGrant
    BY KeyAssumption DEF Inv3, GrantInv, ExportInv, WithinGrant, UsageWithinGrant, At
  <1>4. QED
    BY <1>1, <1>2, <1>3, PTL DEF Spec

(***************************************************************************)
(* A volatile key hides no record when the ids of persistent keys lie        *)
(* outside the vendor range: each list has its own range of ids.            *)
(***************************************************************************)
Persistent == {"import_persistent", "copy_persistent"}

StoredRanges ==
    \A i \in Ids : /\ volatile[i] # NoKey => i \in VendorIds
                   /\ store[i] # NoKey => i \in RequestIds

CallRanges(t) ==
    /\ pc[t] \in ImportPcs => op[t] \in Volatile \union Persistent
    /\ pc[t] = "volatile_store" => op[t] \in Volatile
    /\ pc[t] \in LockedPcs \union {"lock"} => op[t] \in Persistent
    /\ op[t] \in Persistent /\ pc[t] # "return" => dst[t] \in RequestIds
    /\ op[t] \in Volatile /\ pc[t] \in {"alloc", "volatile_store"} =>
          dst[t] \in VendorIds

RangeInv == StoredRanges /\ \A t \in Threads : CallRanges(t)

LEMMA RangeStep ==
    ASSUME NullId \notin RequestIds, Inv1, RangeInv, [Next]_vars
    PROVE  RangeInv'
  <1> USE DEF Volatile, Persistent, ImportPcs, LockedPcs
  <1>1. CASE UNCHANGED vars
    BY <1>1 DEF vars, global, local, RangeInv, StoredRanges, CallRanges
  <1>2. CASE Restart
    BY <1>2 DEF Restart, RangeInv, StoredRanges, CallRanges
  <1>3. ASSUME NEW t \in Threads, UNCHANGED <<volatile, store>>,
               \A u \in Threads \ {t} : UNCHANGED <<pc[u], op[u], dst[u]>>,
               CallRanges(t)'
        PROVE  RangeInv'
    BY <1>3 DEF RangeInv, StoredRanges, CallRanges
  <1>4. ASSUME NEW t \in Threads, Call(t) PROVE RangeInv'
    <2> USE DEF Inv1, TypeBody, global
    <2>1. ASSUME NEW p, NEW o, NEW a, NEW d, NEW w, NEW k,
                 Begin(t, p, o, a, d, w, k),
                 p \in {"import_init", "init", "attr_init", "destroy_init"},
                 p = "import_init" => o \in Volatile \union Persistent,
                 o \in Persistent => d \in RequestIds
          PROVE  RangeInv'
      <3>1. CallRanges(t)'
        BY <2>1 DEF Begin, CallRanges
      <3>2. QED
        BY <1>3, <2>1, <3>1 DEF Begin
    <2>2. CASE BeginImport(t)
      BY <2>1, <2>2 DEF BeginImport
    <2>3. CASE BeginRead(t)
      BY <2>1, <2>3 DEF BeginRead
    <2>4. CASE BeginCopy(t)
      BY <2>1, <2>4 DEF BeginCopy
    <2>5. CASE BeginDestroy(t)
      BY <2>1, <2>5 DEF BeginDestroy
    <2>6. CASE psa_crypto_init(t) \/ wolfPSA_CryptoCleanup(t)
      <3>1. CallRanges(t)'
        BY <2>6 DEF psa_crypto_init, wolfPSA_CryptoCleanup, Return, Goto, CallRanges
      <3>2. QED
        BY <1>3, <2>6, <3>1 DEF psa_crypto_init, wolfPSA_CryptoCleanup, Return, Goto
    <2>7. QED
      BY <1>4, <2>2, <2>3, <2>4, <2>5, <2>6 DEF Call
  <1>5. ASSUME NEW t \in Threads, TakeAnswer(t) PROVE RangeInv'
    <2>1. CallRanges(t)'
      BY <1>5 DEF TakeAnswer, CallRanges, Inv1, TypeBody
    <2>2. QED
      BY <1>3, <1>5, <2>1 DEF TakeAnswer, Inv1, TypeBody, global
  <1>6. ASSUME NEW t \in Threads, ImportStep(t) PROVE RangeInv'
    <2> USE DEF Inv1, TypeBody, global, At, Return, Goto, Fail
    <2>0. CallRanges(t)
      BY DEF RangeInv
    <2>1. CASE psa_import_key_assign_id(t)
      <3>1. CallRanges(t)'
        BY <2>0, <2>1 DEF psa_import_key_assign_id, AssignId, CallRanges, VendorIds
      <3>2. QED
        BY <1>3, <2>1, <3>1 DEF psa_import_key_assign_id, AssignId
    <2>2. CASE psa_import_key_alloc(t)
      <3>1. CallRanges(t)'
        BY <2>0, <2>2 DEF psa_import_key_alloc, CallRanges
      <3>2. QED
        BY <1>3, <2>2, <3>1 DEF psa_import_key_alloc
    <2>3. CASE \/ psa_import_key_lock(t) \/ psa_import_key_probe(t)
               \/ psa_import_key_open_write(t) \/ psa_import_key_write(t)
               \/ psa_import_key_unlock(t)
      <3>1. CallRanges(t)'
        BY <2>0, <2>3 DEF psa_import_key_lock, psa_import_key_probe, Probe,
           psa_import_key_open_write, psa_import_key_write, psa_import_key_unlock,
           CallRanges
      <3>2. QED
        BY <1>3, <2>3, <3>1 DEF psa_import_key_lock, psa_import_key_probe, Probe,
           psa_import_key_open_write, psa_import_key_write, psa_import_key_unlock
    <2>4. CASE wolfpsa_volatile_store(t)
      BY <2>0, <2>4 DEF wolfpsa_volatile_store, CallRanges, RangeInv, StoredRanges
    <2>5. CASE psa_import_key_close(t)
      BY <2>0, <2>5 DEF psa_import_key_close, CallRanges, RangeInv, StoredRanges
    <2>6. QED
      BY <1>6, <2>1, <2>2, <2>3, <2>4, <2>5 DEF ImportStep
  <1>7. ASSUME NEW t \in Threads, DestroyStep(t) PROVE RangeInv'
    <2> USE DEF At, Return, Goto, Inv1, TypeBody, RangeInv, StoredRanges, CallRanges
    <2>1. CASE wolfpsa_volatile_remove(t)
      BY <2>1 DEF wolfpsa_volatile_remove
    <2>2. CASE psa_destroy_key_remove(t)
      BY <2>2 DEF psa_destroy_key_remove
    <2>3. QED
      BY <1>7, <2>1, <2>2 DEF DestroyStep
  <1>8. ASSUME NEW t \in Threads, CleanupStep(t) PROVE RangeInv'
    BY <1>8 DEF CleanupStep, psa_key_storage_cleanup, wolfCrypt_Cleanup,
       Return, Goto, Inv1, TypeBody, RangeInv, StoredRanges, CallRanges
  <1>9. ASSUME NEW t \in Threads, psa_key_storage_check_init(t) PROVE RangeInv'
    <2>1. CallRanges(t)
      BY DEF RangeInv
    <2>2. CallRanges(t)'
      BY <1>9, <2>1 DEF psa_key_storage_check_init, AfterInit, Goto, Fail, Return,
         Inv1, TypeBody, CallRanges
    <2>3. QED
      BY <1>3, <1>9, <2>2 DEF psa_key_storage_check_init, Goto, Fail, Return, Inv1,
         TypeBody, global
  <1>10. ASSUME NEW t \in Threads, ReadStep(t) PROVE RangeInv'
    <2> USE DEF global, Inv1, TypeBody, Return, Goto, Fail, Answer
    <2>0. CallRanges(t)
      BY DEF RangeInv
    <2>1. /\ UNCHANGED <<op, volatile, store>>
          /\ \A u \in Threads \ {t} : UNCHANGED <<pc[u], dst[u]>>
      BY <1>10, QuietReads DEF Quiet, ReadStep, wolfpsa_volatile_get,
         wolfPSA_Store_Open, wolfPSA_Store_Read, ReadThrough,
         wolfpsa_volatile_get_attributes, psa_get_key_attributes_read
    <2>2. ASSUME NEW k, NEW attr, NEW life,
               \/ psa_export_key_deliver(t, k)
               \/ wolfpsa_get_key_data_deliver(t)
               \/ psa_export_public_key_deliver(t, attr)
               \/ psa_copy_key_deliver(t, k, life)
               \/ Fail(t, "INSUFFICIENT_MEMORY")
               \/ Fail(t, "STORAGE_FAILURE")
          PROVE  \/ pc'[t] = "return"
                 \/ pc'[t] = "import_init" /\ op[t] \in Copies /\ UNCHANGED dst
      BY <2>2 DEF psa_export_key_deliver, wolfpsa_get_key_data_deliver,
         psa_export_public_key_deliver, psa_copy_key_deliver
    <2>3. \/ pc'[t] = "return"
          \/ pc'[t] = "import_init" /\ op[t] \in Copies /\ UNCHANGED dst
          \/ pc'[t] \in {"attr_init", "open", "read", "attr_open"} /\ UNCHANGED dst
      <3>1. CASE wolfpsa_volatile_get(t)
        BY <2>2, <3>1 DEF wolfpsa_volatile_get
      <3>2. CASE wolfPSA_Store_Read(t)
        BY <2>2, <3>2 DEF wolfPSA_Store_Read, ReadThrough
      <3>3. CASE \/ wolfPSA_Store_Open(t) \/ wolfpsa_volatile_get_attributes(t)
                 \/ psa_get_key_attributes_read(t)
        BY <3>3 DEF wolfPSA_Store_Open, wolfpsa_volatile_get_attributes,
           psa_get_key_attributes_read, HaveAttributes
      <3>4. QED
        BY <1>10, <3>1, <3>2, <3>3 DEF ReadStep
    <2>4. pc[t] # "return"
      BY <1>10 DEF ReadStep, wolfpsa_volatile_get, wolfPSA_Store_Open, At,
         wolfPSA_Store_Read, ReadThrough, wolfpsa_volatile_get_attributes,
         psa_get_key_attributes_read
    <2>5. CallRanges(t)'
      BY <2>0, <2>1, <2>3, <2>4 DEF CallRanges, Copies
    <2>6. QED
      BY <1>3, <2>1, <2>5
  <1>11. QED
    BY <1>1, <1>2, <1>4, <1>5, <1>6, <1>7, <1>8, <1>9, <1>10 DEF Next, Step

(* Auto-assigned ids never hide a record if persistent keys are requested    *)
(* under ids outside the vendor range, which is what the comment in         *)
(* psa_import_key() relies on; the KeyStoreShadow run shows that the        *)
(* premise is needed.                                                       *)
THEOREM VendorIdsHideNothing ==
    ASSUME RequestIds \intersect (VendorIds \union {NullId}) = {}
    PROVE  Spec => []NoShadow
  <1>0. NullId \notin RequestIds
    OBVIOUS
  <1>1. Init => Inv1 /\ RangeInv
    BY InitInv1 DEF Init, RangeInv, StoredRanges, CallRanges, ImportPcs, LockedPcs,
       Volatile, Persistent
  <1>2. Inv1 /\ RangeInv /\ [Next]_vars => Inv1' /\ RangeInv'
    BY <1>0, NextInv1, RangeStep
  <1>3. RangeInv => NoShadow
    BY DEF RangeInv, StoredRanges, NoShadow
  <1>4. QED
    BY <1>1, <1>2, <1>3, PTL DEF Spec

(***************************************************************************)
(* Every answer is true.  The history variable holds what the id of a call   *)
(* has denoted so far; the invariant says what a call under way has already *)
(* seen of it, so that the step that fixes the answer finds it there.       *)
(***************************************************************************)
(* Which call a thread can be in at each point, and what the store answered. *)
Running(t) ==
    /\ pc[t] \in DestroyPcs => op[t] = "destroy"
    /\ pc[t] \in CleanupPcs => op[t] = "crypto_cleanup"
    /\ pc[t] \in ReadPcs => op[t] \in Reads \union {"attributes"}
    /\ pc[t] = "unlock" => status[t] \in OpenFailures \union {"SUCCESS"}

(* A reader past its look at the volatile keys: an id of the vendor range was  *)
(* free at that moment.                                                     *)
Missed(t) ==
    \/ pc[t] \in {"open", "read", "attr_open", "store_remove"}
    \/ op[t] = "export_public" /\ pc[t] \in {"attr_init", "attr_volatile"}

(* What a call under way has seen of the id it works on. *)
Witnessed(t) ==
    /\ pc[t] \notin {"idle", "return"} => View(volatile, store, Focus(t)) \in seen[t]
    /\ Missed(t) /\ arg[t] \in VendorIds => NoKey \in seen[t]
    /\ pc[t] = "read" => handle[t] \in seen[t]
    /\ pc[t] \in {"open", "read"} /\ op[t] = "export_public" => hdr[t] \in seen[t]
    /\ pc[t] = "unlock" /\ status[t] = "SUCCESS" => key[t] \in seen[t]

(* The two handles of psa_export_public_key(). *)
OneKey(t) ==
    op[t] = "export_public" =>
        /\ pc[t] = "open" /\ arg[t] \in RequestIds =>
              hdr[t] = store[arg[t]] \/ NoKey \in seen[t]
        /\ pc[t] = "read" => hdr[t] = handle[t] \/ NoKey \in seen[t]
        /\ pc[t] = "return" /\ status[t] = "SUCCESS" =>
              hdr[t] = handle[t] \/ NoKey \in seen[t]

Story(t) ==
    /\ Running(t) /\ Witnessed(t) /\ OneKey(t)
    /\ pc[t] = "return" => Justified(t)

StoryInv == \A t \in Threads : Story(t)

(* The ids of the two lists, kept apart (see VendorIdsHideNothing). *)
OwnRanges == RequestIds \intersect (VendorIds \union {NullId}) = {}

LEMMA RangesApart ==
    ASSUME OwnRanges, Inv1, RangeInv, NEW i \in Ids
    PROVE  /\ i \in RequestIds \/ i \in VendorIds
           /\ i \in RequestIds => i \notin VendorIds /\ volatile[i] = NoKey
           /\ i \in VendorIds => store[i] = NoKey
           /\ volatile[i] # NoKey => View(volatile, store, i) = volatile[i]
           /\ store[i] # NoKey => View(volatile, store, i) = store[i]
           /\ View(volatile, store, i) = NoKey <=> volatile[i] = NoKey /\ store[i] = NoKey
  <1>1. i \in RequestIds \/ i \in VendorIds
    BY DEF Ids
  <1>2. i # NullId
    BY DEF Ids
  <1>3. QED
    BY <1>1, <1>2 DEF OwnRanges, RangeInv, StoredRanges, View

(* The step of t leaves the locals of the other calls alone. *)
Only(t) ==
    \A u \in Threads \ {t} :
        UNCHANGED <<pc[u], op[u], arg[u], dst[u], key[u], hdr[u], handle[u], status[u]>>

LEMMA OnlyCalls ==
    ASSUME Inv1, NEW t \in Threads, Call(t) \/ TakeAnswer(t) PROVE Only(t)
  <1> USE DEF Only, global, Inv1, TypeBody
  <1>1. CASE TakeAnswer(t)
    BY <1>1 DEF TakeAnswer
  <1>2. CASE BeginImport(t)
    BY <1>2 DEF BeginImport, Begin
  <1>3. CASE BeginRead(t)
    BY <1>3 DEF BeginRead, Begin
  <1>4. CASE BeginCopy(t)
    BY <1>4 DEF BeginCopy, Begin
  <1>5. CASE BeginDestroy(t)
    BY <1>5 DEF BeginDestroy, Begin
  <1>6. CASE psa_crypto_init(t)
    BY <1>6 DEF psa_crypto_init, Return
  <1>7. CASE wolfPSA_CryptoCleanup(t)
    BY <1>7 DEF wolfPSA_CryptoCleanup, Goto
  <1>8. QED
    BY <1>1, <1>2, <1>3, <1>4, <1>5, <1>6, <1>7 DEF Call

LEMMA OnlyImports ==
    ASSUME Inv1, NEW t \in Threads, ImportStep(t) \/ DestroyStep(t) \/ CleanupStep(t)
    PROVE  Only(t)
  <1> USE DEF Only, global, Inv1, TypeBody, Goto, Fail, Return
  <1>1. CASE psa_import_key_assign_id(t) \/ psa_import_key_alloc(t)
    BY <1>1 DEF psa_import_key_assign_id, AssignId, psa_import_key_alloc
  <1>2. CASE wolfpsa_volatile_store(t)
    BY <1>2 DEF wolfpsa_volatile_store
  <1>3. CASE psa_import_key_lock(t) \/ psa_import_key_probe(t)
    BY <1>3 DEF psa_import_key_lock, psa_import_key_probe, Probe
  <1>4. CASE psa_import_key_open_write(t) \/ psa_import_key_write(t)
    BY <1>4 DEF psa_import_key_open_write, psa_import_key_write
  <1>5. CASE psa_import_key_close(t) \/ psa_import_key_unlock(t)
    BY <1>5 DEF psa_import_key_close, psa_import_key_unlock
  <1>6. CASE DestroyStep(t)
    BY <1>6 DEF DestroyStep, wolfpsa_volatile_remove, psa_destroy_key_remove
  <1>7. CASE CleanupStep(t)
    BY <1>7 DEF CleanupStep, psa_key_storage_cleanup, wolfCrypt_Cleanup
  <1>8. QED
    BY <1>1, <1>2, <1>3, <1>4, <1>5, <1>6, <1>7 DEF ImportStep

LEMMA OnlyReads ==
    ASSUME Inv1, NEW t \in Threads, ReadStep(t) \/ psa_key_storage_check_init(t)
    PROVE  Only(t)
  <1> USE DEF Only, global, Inv1, TypeBody, Goto, Fail, Return, Answer
  <1>1. ASSUME NEW k, NEW attr, NEW life,
               \/ psa_export_key_deliver(t, k)
               \/ wolfpsa_get_key_data_deliver(t)
               \/ psa_export_public_key_deliver(t, attr)
               \/ psa_copy_key_deliver(t, k, life)
               \/ Fail(t, "INSUFFICIENT_MEMORY") /\ UNCHANGED key
               \/ Fail(t, "STORAGE_FAILURE") /\ UNCHANGED key
        PROVE  \A u \in Threads \ {t} :
                  /\ pc'[u] = pc[u] /\ dst'[u] = dst[u] /\ key'[u] = key[u]
                  /\ status'[u] = status[u]
    BY <1>1 DEF psa_export_key_deliver, wolfpsa_get_key_data_deliver,
       psa_export_public_key_deliver, psa_copy_key_deliver
  <1>2. CASE wolfpsa_volatile_get(t)
    <2>1. CASE volatile[arg[t]] = NoKey
      BY <1>2, <2>1 DEF wolfpsa_volatile_get
    <2>2. CASE volatile[arg[t]] # NoKey
      <3>1. \A u \in Threads \ {t} :
                  /\ pc'[u] = pc[u] /\ dst'[u] = dst[u] /\ key'[u] = key[u]
                  /\ status'[u] = status[u]
        BY <1>1, <1>2, <2>2 DEF wolfpsa_volatile_get
      <3>2. /\ UNCHANGED <<op, arg>>
            /\ handle' = [handle EXCEPT ![t] = volatile[arg[t]]]
            /\ hdr' = [hdr EXCEPT ![t] = volatile[arg[t]]]
        BY <1>2, <2>2 DEF wolfpsa_volatile_get
      <3>3. QED
        BY <3>1, <3>2
    <2>3. QED
      BY <2>1, <2>2
  <1>3. CASE wolfPSA_Store_Open(t)
    BY <1>3 DEF wolfPSA_Store_Open
  <1>4. CASE wolfPSA_Store_Read(t)
    <2>1. \A u \in Threads \ {t} :
              /\ pc'[u] = pc[u] /\ dst'[u] = dst[u] /\ key'[u] = key[u]
              /\ status'[u] = status[u]
      BY <1>1, <1>4 DEF wolfPSA_Store_Read, ReadThrough
    <2>2. UNCHANGED <<op, arg, hdr>> /\ handle' = [handle EXCEPT ![t] = handle[t]]
      BY <1>4 DEF wolfPSA_Store_Read, ReadThrough
    <2>3. QED
      BY <2>1, <2>2
  <1>5. CASE wolfpsa_volatile_get_attributes(t) \/ psa_get_key_attributes_read(t)
    BY <1>5 DEF wolfpsa_volatile_get_attributes, psa_get_key_attributes_read,
       HaveAttributes
  <1>6. CASE psa_key_storage_check_init(t)
    BY <1>6 DEF psa_key_storage_check_init
  <1>7. QED
    BY <1>2, <1>3, <1>4, <1>5, <1>6 DEF ReadStep

(* What the history gains in a step of a call under way, ... *)
LEMMA SeenGrows ==
    ASSUME Track, NEW t \in Threads, pc[t] \notin {"idle", "return"}, pc'[t] # "idle",
           pc'[t] \in ImportPcs => Focus(t)' = Focus(t)
    PROVE  seen'[t] = seen[t] \union {View(volatile', store', Focus(t))}
  BY DEF Track

(* ... and that it always knows the present. *)
LEMMA SeenNow ==
    ASSUME Track, NEW t \in Threads, pc[t] # "return", pc'[t] \notin {"idle", "return"},
           pc[t] # "idle" /\ pc'[t] \notin ImportPcs => Focus(t)' = Focus(t)
    PROVE  View(volatile', store', Focus(t)') \in seen'[t]
  BY DEF Track

(* The step of another call: the history gains what the id denotes now. *)
LEMMA OthersStory ==
    ASSUME OwnRanges, Inv1, Inv1', RangeInv', KeepsRecords, Track,
           NEW t \in Threads, Only(t), NEW u \in Threads \ {t}, Story(u)
    PROVE  Story(u)'
  <1>1. UNCHANGED <<pc[u], op[u], arg[u], dst[u], key[u], hdr[u], handle[u], status[u]>>
    BY DEF Only
  <1>2. Focus(u)' = Focus(u)
    BY <1>1 DEF Focus
  <1>3. Running(u)'
    BY <1>1 DEF Story, Running
  <1>4. CASE pc[u] = "idle"
    BY <1>1, <1>3, <1>4 DEF Story, Witnessed, Missed, OneKey
  <1>5. CASE pc[u] = "return"
    <2>1. seen'[u] = seen[u]
      BY <1>1, <1>5 DEF Track, ImportPcs
    <2>2. Justified(u)'
      BY <1>1, <1>5, <2>1 DEF Story, Justified
    <2>3. QED
      BY <1>1, <1>3, <1>5, <2>1, <2>2 DEF Story, Witnessed, Missed, OneKey
  <1>6. CASE pc[u] \notin {"idle", "return"}
    <2>1. seen'[u] = seen[u] \union {View(volatile', store', Focus(u))}
      BY <1>1, <1>2, <1>6, SeenGrows
    <2>2. Witnessed(u)'
      BY <1>1, <1>2, <2>1 DEF Story, Witnessed, Missed
    <2>3. OneKey(u)'
      <3>1. CASE pc[u] = "open" /\ op[u] = "export_public" /\ arg[u] \in RequestIds
        <4>1. arg[u] \in Ids /\ Focus(u) = arg[u] /\ hdr[u] \in Key
          BY <3>1 DEF Focus, ImportPcs, ReadPcs, Inv1, HandleInv
        <4>2. hdr[u] = store[arg[u]] \/ NoKey \in seen[u]
          BY <3>1 DEF Story, OneKey
        <4>3. hdr[u] # NoKey
          BY <4>1, KeyAssumption
        <4>4. hdr[u] = store'[arg[u]] \/ NoKey \in seen[u] \/ store'[arg[u]] = NoKey
          BY <4>1, <4>2, <4>3 DEF KeepsRecords
        <4>5. volatile'[arg[u]] = NoKey
          BY <3>1, <4>1 DEF OwnRanges, RangeInv, StoredRanges
        <4>6. store'[arg[u]] = NoKey => View(volatile', store', arg[u]) = NoKey
          BY <4>5 DEF View
        <4>7. QED
          BY <1>1, <2>1, <3>1, <4>1, <4>4, <4>6 DEF OneKey
      <3>2. CASE ~(pc[u] = "open" /\ op[u] = "export_public" /\ arg[u] \in RequestIds)
        BY <1>1, <1>6, <2>1, <3>2 DEF Story, OneKey
      <3>3. QED
        BY <3>1, <3>2
    <2>4. QED
      BY <1>1, <1>3, <1>6, <2>2, <2>3 DEF Story
  <1>7. QED
    BY <1>4, <1>5, <1>6

(***************************************************************************)
(* The thread's own step, by where it goes.                                 *)
(***************************************************************************)
LEMMA IdleStory == ASSUME NEW t \in Threads, pc'[t] = "idle" PROVE Story(t)'
  BY DEF Story, Running, Witnessed, Missed, OneKey, DestroyPcs, CleanupPcs, ReadPcs

LEMMA ImportingStory ==
    ASSUME Track, NEW t \in Threads, pc[t] # "return", pc'[t] \in ImportPcs \ {"unlock"}
    PROVE  Story(t)'
  <1>1. View(volatile', store', Focus(t)') \in seen'[t]
    BY SeenNow DEF ImportPcs
  <1>2. QED
    BY <1>1 DEF Story, Running, Witnessed, Missed, OneKey, ImportPcs, DestroyPcs,
       CleanupPcs, ReadPcs

LEMMA ReturnStory ==
    ASSUME NEW t \in Threads, pc'[t] = "return", Justified(t)',
           op'[t] = "export_public" /\ status'[t] = "SUCCESS" =>
               hdr'[t] = handle'[t] \/ NoKey \in seen'[t]
    PROVE  Story(t)'
  BY DEF Story, Running, Witnessed, Missed, OneKey, DestroyPcs, CleanupPcs, ReadPcs

LEMMA PlainReturn ==
    ASSUME NEW t \in Threads, pc'[t] = "return",
           status'[t] \notin {"INVALID_HANDLE", "ALREADY_EXISTS", "NOT_PERMITTED",
                              "SUCCESS"}
    PROVE  Story(t)'
  <1>1. Justified(t)'
    BY DEF Justified
  <1>2. QED
    BY <1>1, ReturnStory

(* The calls: a key operation begins with what its id denotes now. *)
LEMMA CallStory ==
    ASSUME Inv1, Track, NEW t \in Threads, Call(t) \/ TakeAnswer(t) PROVE Story(t)'
  <1> USE DEF Inv1, TypeBody
  <1>1. ASSUME NEW p \in ReadPcs \union DestroyPcs, NEW o, NEW a, NEW d, NEW w, NEW k,
               Begin(t, p, o, a, d, w, k),
               \/ p = "init" /\ o \in Reads
               \/ p = "attr_init" /\ o = "attributes"
               \/ p = "destroy_init" /\ o = "destroy"
        PROVE  Story(t)'
    <2>1. pc[t] = "idle" /\ pc'[t] = p /\ op'[t] = o
      BY <1>1 DEF Begin, At
    <2>2. View(volatile', store', Focus(t)') \in seen'[t]
      BY <1>1, <2>1, SeenNow DEF ReadPcs, DestroyPcs
    <2>3. QED
      BY <1>1, <2>1, <2>2 DEF Story, Running, Witnessed, Missed, OneKey, DestroyPcs,
         CleanupPcs, ReadPcs
  <1>2. CASE BeginImport(t)
    <2>1. pc[t] = "idle" /\ pc'[t] = "import_init"
      BY <1>2 DEF BeginImport, Begin, At
    <2>2. QED
      BY <2>1, ImportingStory DEF ImportPcs
  <1>3. CASE BeginRead(t)
    BY <1>1, <1>3 DEF BeginRead, Reads, ReadPcs
  <1>4. CASE BeginCopy(t)
    BY <1>1, <1>4 DEF BeginCopy, Reads, Copies, ReadPcs
  <1>5. CASE BeginDestroy(t)
    BY <1>1, <1>5 DEF BeginDestroy, DestroyPcs
  <1>6. CASE psa_crypto_init(t)
    <2>1. /\ pc'[t] = "return" /\ op'[t] = "crypto_init"
          /\ status'[t] \in {"SUCCESS", "GENERIC_ERROR"}
      BY <1>6 DEF psa_crypto_init, Return
    <2>2. Justified(t)'
      BY <2>1 DEF Justified, Imports, Copies
    <2>3. QED
      BY <2>1, <2>2, ReturnStory
  <1>7. CASE wolfPSA_CryptoCleanup(t)
    <2>1. /\ pc[t] = "idle" /\ op'[t] = "crypto_cleanup"
          /\ pc'[t] \in {"cleanup_keys", "cleanup_keys_wc"}
      BY <1>7 DEF wolfPSA_CryptoCleanup, At, Goto
    <2>2. View(volatile', store', Focus(t)') \in seen'[t]
      BY <2>1, SeenNow
    <2>3. QED
      BY <2>1, <2>2 DEF Story, Running, Witnessed, Missed, OneKey, DestroyPcs,
         CleanupPcs, ReadPcs
  <1>8. CASE TakeAnswer(t)
    BY <1>8, IdleStory DEF TakeAnswer
  <1>9. QED
    BY <1>2, <1>3, <1>4, <1>5, <1>6, <1>7, <1>8 DEF Call

(* psa_import_key(): the answers that report a key found one. *)
LEMMA ImportStory ==
    ASSUME OwnRanges, Inv1, Inv1', RangeInv, RangeInv', Track, NEW t \in Threads,
           Story(t), ImportStep(t)
    PROVE  Story(t)'
  <1> USE DEF Inv1, TypeBody, At
  <1>0. CallRanges(t)
    BY DEF RangeInv
  <1>1. CASE psa_import_key_assign_id(t)
    <2>1. \/ pc[t] = "assign_id" /\ pc'[t] = "alloc"
          \/ pc'[t] = "return" /\ status'[t] = "INSUFFICIENT_STORAGE"
      BY <1>1 DEF psa_import_key_assign_id, AssignId, Goto, Fail, Return
    <2>2. QED
      BY <2>1, ImportingStory, PlainReturn DEF ImportPcs
  <1>2. CASE psa_import_key_alloc(t)
    <2>1. \/ pc[t] = "alloc" /\ pc'[t] \in {"volatile_store", "lock"}
          \/ pc'[t] = "return" /\ status'[t] = "INSUFFICIENT_MEMORY"
      BY <1>2 DEF psa_import_key_alloc, Goto, Return
    <2>2. QED
      BY <2>1, ImportingStory, PlainReturn DEF ImportPcs
  <1>3. CASE wolfpsa_volatile_store(t)
    <2>0. /\ pc[t] = "volatile_store" /\ pc'[t] = "return" /\ dst[t] \in Ids
          /\ key[t] \in Key /\ UNCHANGED <<op, key, store>>
          /\ op[t] \in Volatile
      BY <1>0, <1>3 DEF wolfpsa_volatile_store, Fail, Return, HandleInv, ImportPcs,
         CallRanges
    <2>1. seen'[t] = seen[t] \union {View(volatile', store', dst[t])}
      BY <2>0, SeenGrows DEF Focus, ImportPcs
    <2>2. CASE volatile[dst[t]] # NoKey
      <3>1. status'[t] = "ALREADY_EXISTS" /\ UNCHANGED volatile
        BY <1>3, <2>2 DEF wolfpsa_volatile_store, Fail, Return
      <3>2. View(volatile', store', dst[t]) # NoKey
        BY <2>0, <2>2, <3>1, RangesApart
      <3>3. Justified(t)'
        BY <2>1, <3>1, <3>2 DEF Justified
      <3>4. QED
        BY <2>0, <3>1, <3>3, ReturnStory
    <2>3. CASE status'[t] = "INSUFFICIENT_MEMORY"
      BY <2>0, <2>3, PlainReturn
    <2>4. CASE /\ status'[t] = "SUCCESS" /\ UNCHANGED dst
               /\ volatile' = [volatile EXCEPT ![dst[t]] = key[t]]
      <3>1. dst'[t] # NullId /\ View(volatile', store', dst[t]) = key'[t]
        BY <2>0, <2>4, KeyAssumption, VendorIdsType DEF View
      <3>2. op'[t] \notin {"export", "get_key_data", "export_public", "attributes",
                           "destroy"}
        BY <2>0 DEF Volatile
      <3>3. Justified(t)'
        BY <2>1, <2>4, <3>1, <3>2 DEF Justified
      <3>4. QED
        BY <2>0, <3>2, <3>3, ReturnStory
    <2>5. QED
      BY <1>3, <2>2, <2>3, <2>4 DEF wolfpsa_volatile_store, Fail, Return
  <1>4. CASE psa_import_key_lock(t)
    BY <1>4, ImportingStory DEF psa_import_key_lock, Goto, ImportPcs
  <1>5. CASE psa_import_key_probe(t)
    <2>0. pc[t] = "probe" /\ dst[t] \in Ids /\ UNCHANGED <<volatile, store>>
      BY <1>5 DEF psa_import_key_probe, Probe, HandleInv, ImportPcs
    <2>1. CASE store[dst[t]] # NoKey /\ pc'[t] = "return" /\ status'[t] = "ALREADY_EXISTS"
      <3>1. seen'[t] = seen[t] \union {View(volatile', store', dst[t])}
        BY <2>0, <2>1, SeenGrows DEF Focus, ImportPcs
      <3>2. View(volatile', store', dst[t]) # NoKey
        BY <2>0, <2>1, RangesApart
      <3>3. Justified(t)'
        BY <2>1, <3>1, <3>2 DEF Justified
      <3>4. QED
        BY <2>1, <3>3, ReturnStory
    <2>2. CASE pc'[t] = "return" /\ status'[t] \in OpenFailures
      BY <2>2, PlainReturn DEF OpenFailures
    <2>3. CASE pc'[t] = "open_write"
      BY <2>0, <2>3, ImportingStory DEF ImportPcs
    <2>4. QED
      BY <1>5, <2>1, <2>2, <2>3 DEF psa_import_key_probe, Probe, Goto, Fail, Return
  <1>6. ASSUME pc[t] \in ImportPcs, pc'[t] = "unlock",
               status'[t] \in OpenFailures \union {"SUCCESS"},
               status'[t] = "SUCCESS" => key'[t] \in seen'[t]
        PROVE  Story(t)'
    <2>1. View(volatile', store', Focus(t)') \in seen'[t]
      BY <1>6, SeenNow DEF ImportPcs
    <2>2. QED
      BY <1>6, <2>1 DEF Story, Running, Witnessed, Missed, OneKey, DestroyPcs,
         CleanupPcs, ReadPcs
  <1>7. CASE psa_import_key_open_write(t)
    <2>1. \/ pc[t] = "open_write" /\ pc'[t] = "write"
          \/ pc[t] = "open_write" /\ pc'[t] = "unlock" /\ status'[t] \in OpenFailures
      BY <1>7 DEF psa_import_key_open_write, Goto
    <2>2. QED
      BY <1>6, <2>1, ImportingStory DEF ImportPcs, OpenFailures
  <1>8. CASE psa_import_key_write(t)
    BY <1>8, ImportingStory DEF psa_import_key_write, ImportPcs
  <1>9. CASE psa_import_key_close(t)
    <2>0. /\ pc[t] = "close" /\ pc'[t] = "unlock" /\ dst[t] \in Ids
          /\ UNCHANGED <<key, volatile, dst>>
          /\ op[t] \in Persistent /\ dst[t] \in RequestIds
      BY <1>0, <1>9 DEF psa_import_key_close, HandleInv, ImportPcs, LockedPcs,
         CallRanges
    <2>1. CASE status'[t] = "STORAGE_FAILURE"
      BY <1>6, <2>0, <2>1 DEF ImportPcs, OpenFailures
    <2>2. CASE status'[t] = "SUCCESS" /\ store' = [store EXCEPT ![dst[t]] = key[t]]
      <3>1. seen'[t] = seen[t] \union {View(volatile', store', dst[t])}
        BY <2>0, SeenGrows DEF Focus, ImportPcs
      <3>2. volatile[dst[t]] = NoKey
        BY <2>0, RangesApart
      <3>3. View(volatile', store', dst[t]) = key'[t]
        BY <2>0, <2>2, <3>2, VendorIdsType DEF View
      <3>4. QED
        BY <1>6, <2>0, <2>2, <3>1, <3>3 DEF ImportPcs, OpenFailures
    <2>3. QED
      BY <1>9, <2>1, <2>2 DEF psa_import_key_close
  <1>10. CASE psa_import_key_unlock(t)
    <2>0. /\ pc[t] = "unlock" /\ pc'[t] = "return" /\ status'[t] = status[t]
          /\ dst[t] \in Ids /\ UNCHANGED <<op, key>> /\ op[t] \in Persistent
          /\ status[t] \in OpenFailures \union {"SUCCESS"}
      BY <1>0, <1>10 DEF psa_import_key_unlock, Fail, Return, HandleInv, ImportPcs,
         LockedPcs, CallRanges, Story, Running
    <2>1. CASE status[t] # "SUCCESS"
      BY <2>0, <2>1, PlainReturn DEF OpenFailures
    <2>2. CASE status[t] = "SUCCESS"
      <3>1. seen'[t] = seen[t] \union {View(volatile', store', dst[t])}
        BY <2>0, SeenGrows DEF Focus, ImportPcs
      <3>2. key'[t] \in seen'[t]
        BY <2>0, <2>2, <3>1 DEF Story, Witnessed
      <3>3. dst'[t] # NullId
        BY <1>10, <2>0, <2>2, VendorIdsType DEF psa_import_key_unlock
      <3>4. op'[t] \notin {"export", "get_key_data", "export_public", "attributes",
                           "destroy"}
        BY <2>0 DEF Persistent
      <3>5. Justified(t)'
        BY <2>0, <2>2, <3>2, <3>3, <3>4 DEF Justified
      <3>6. QED
        BY <2>0, <3>4, <3>5, ReturnStory
    <2>3. QED
      BY <2>1, <2>2
  <1>11. QED
    BY <1>1, <1>2, <1>3, <1>4, <1>5, <1>7, <1>8, <1>9, <1>10 DEF ImportStep

(* psa_destroy_key(), wolfPSA_CryptoCleanup() and the check of the latch. *)
LEMMA DestroyStory ==
    ASSUME OwnRanges, Inv1, Inv1', RangeInv, RangeInv', Track, NEW t \in Threads,
           Story(t), DestroyStep(t)
    PROVE  Story(t)'
  <1> USE DEF Inv1, TypeBody, At
  <1>0. /\ pc[t] \in {"volatile_remove", "store_remove"} /\ arg[t] \in Ids
        /\ op[t] = "destroy" /\ UNCHANGED <<op, arg, dst>>
        /\ View(volatile, store, arg[t]) \in seen[t]
    BY DEF DestroyStep, wolfpsa_volatile_remove, psa_destroy_key_remove, HandleInv,
       DestroyPcs, ImportPcs, Story, Running, Witnessed, Focus
  <1>1. pc'[t] \in {"return", "store_remove"}
    BY DEF DestroyStep, wolfpsa_volatile_remove, psa_destroy_key_remove, Return, Goto
  <1>2. seen'[t] = seen[t] \union {View(volatile', store', arg[t])}
    BY <1>0, <1>1, SeenGrows DEF Focus, ImportPcs
  <1>3. ASSUME pc'[t] = "return", status'[t] = "SUCCESS",
               View(volatile, store, arg[t]) # NoKey,
               View(volatile', store', arg[t]) = NoKey
        PROVE  Story(t)'
    <2>1. Justified(t)'
      BY <1>0, <1>2, <1>3 DEF Justified, Imports, Copies
    <2>2. QED
      BY <1>0, <1>3, <2>1, ReturnStory
  <1>4. CASE wolfpsa_volatile_remove(t)
    <2>1. UNCHANGED store /\ pc[t] = "volatile_remove"
      BY <1>4 DEF wolfpsa_volatile_remove
    <2>2. CASE volatile[arg[t]] # NoKey
      <3>1. /\ volatile' = [volatile EXCEPT ![arg[t]] = NoKey]
            /\ pc'[t] = "return" /\ status'[t] = "SUCCESS"
        BY <1>4, <2>2 DEF wolfpsa_volatile_remove, Return
      <3>2. View(volatile, store, arg[t]) # NoKey /\ store[arg[t]] = NoKey
        BY <1>0, <2>2, RangesApart
      <3>3. View(volatile', store', arg[t]) = NoKey
        BY <1>0, <2>1, <3>1, <3>2 DEF View
      <3>4. QED
        BY <1>3, <3>1, <3>2, <3>3
    <2>3. CASE volatile[arg[t]] = NoKey
      <3>1. pc'[t] = "store_remove" /\ UNCHANGED volatile
        BY <1>4, <2>3 DEF wolfpsa_volatile_remove, Goto
      <3>2. arg[t] \in VendorIds => NoKey \in seen[t]
        BY <1>0, <2>3, RangesApart
      <3>3. View(volatile', store', Focus(t)') \in seen'[t]
        BY <1>0, <1>2, <3>1 DEF Focus, ImportPcs
      <3>4. QED
        BY <1>0, <1>2, <3>1, <3>2, <3>3 DEF Story, Running, Witnessed, Missed,
           OneKey, DestroyPcs, CleanupPcs, ReadPcs
    <2>4. QED
      BY <2>2, <2>3
  <1>5. CASE psa_destroy_key_remove(t)
    <2>1. UNCHANGED volatile /\ pc[t] = "store_remove" /\ pc'[t] = "return"
      BY <1>5 DEF psa_destroy_key_remove, Return
    <2>2. CASE /\ store[arg[t]] # NoKey /\ status'[t] = "SUCCESS"
               /\ store' = [store EXCEPT ![arg[t]] = NoKey]
      <3>1. View(volatile, store, arg[t]) # NoKey /\ volatile[arg[t]] = NoKey
        BY <1>0, <2>2, RangesApart
      <3>2. View(volatile', store', arg[t]) = NoKey
        BY <1>0, <2>1, <2>2, <3>1 DEF View
      <3>3. QED
        BY <1>3, <2>1, <2>2, <3>1, <3>2
    <2>3. CASE store[arg[t]] = NoKey /\ status'[t] = "INVALID_HANDLE"
      <3>1. arg[t] \in VendorIds => NoKey \in seen[t]
        BY <2>1 DEF Story, Witnessed, Missed
      <3>2. arg[t] \in RequestIds => View(volatile, store, arg[t]) = NoKey
        BY <1>0, <2>3, RangesApart
      <3>3. NoKey \in seen'[t]
        BY <1>0, <1>2, <3>1, <3>2 DEF Ids
      <3>4. Justified(t)'
        BY <2>3, <3>3 DEF Justified
      <3>5. QED
        BY <2>1, <2>3, <3>4, ReturnStory
    <2>4. CASE status'[t] = "STORAGE_FAILURE"
      BY <2>1, <2>4, PlainReturn
    <2>5. QED
      BY <1>5, <2>2, <2>3, <2>4 DEF psa_destroy_key_remove, Return
  <1>6. QED
    BY <1>4, <1>5 DEF DestroyStep

LEMMA CleanupStory ==
    ASSUME Inv1, Track, NEW t \in Threads, Story(t), CleanupStep(t) PROVE Story(t)'
  <1> USE DEF Inv1, TypeBody, At
  <1>0. /\ pc[t] \in CleanupPcs /\ op[t] = "crypto_cleanup" /\ UNCHANGED <<op, arg>>
        /\ \/ pc'[t] = "cleanup_wc"
           \/ pc'[t] = "return" /\ status'[t] = "SUCCESS"
    BY DEF CleanupStep, psa_key_storage_cleanup, wolfCrypt_Cleanup, Goto, Return,
       CleanupPcs, Story, Running
  <1>1. CASE pc'[t] = "cleanup_wc"
    <2>1. View(volatile', store', Focus(t)') \in seen'[t]
      BY <1>0, <1>1, SeenNow DEF Focus, ImportPcs, CleanupPcs
    <2>2. QED
      BY <1>0, <1>1, <2>1 DEF Story, Running, Witnessed, Missed, OneKey, DestroyPcs,
         CleanupPcs, ReadPcs
  <1>2. CASE pc'[t] = "return" /\ status'[t] = "SUCCESS"
    <2>1. Justified(t)'
      BY <1>0, <1>2 DEF Justified, Imports, Copies
    <2>2. QED
      BY <1>0, <1>2, <2>1, ReturnStory
  <1>3. QED
    BY <1>0, <1>1, <1>2

LEMMA InitStory ==
    ASSUME Inv1, Track, NEW t \in Threads, Story(t), psa_key_storage_check_init(t)
    PROVE  Story(t)'
  <1> USE DEF Inv1, TypeBody, At
  <1>1. /\ pc[t] \in {"import_init", "destroy_init", "attr_init", "init"}
        /\ UNCHANGED <<op, arg>>
        /\ \/ pc'[t] = AfterInit(pc[t])
           \/ pc'[t] = "return" /\ status'[t] = "BAD_STATE"
    BY DEF psa_key_storage_check_init, Goto, Fail, Return
  <1>2. CASE pc'[t] = "return" /\ status'[t] = "BAD_STATE"
    BY <1>2, PlainReturn
  <1>3. CASE pc[t] = "import_init" /\ pc'[t] = "assign_id"
    BY <1>3, ImportingStory DEF ImportPcs
  <1>4. CASE \/ pc[t] = "destroy_init" /\ pc'[t] = "volatile_remove"
             \/ pc[t] = "attr_init" /\ pc'[t] = "attr_volatile"
             \/ pc[t] = "init" /\ pc'[t] = "volatile_get"
    <2>1. Focus(t)' = Focus(t)
      BY <1>1, <1>4 DEF Focus, ImportPcs
    <2>2. View(volatile', store', Focus(t)') \in seen'[t]
      BY <1>4, <2>1, SeenNow
    <2>3. seen[t] \subseteq seen'[t]
      BY <1>4, <2>1, SeenGrows
    <2>4. Running(t)'
      BY <1>1, <1>4 DEF Story, Running, DestroyPcs, CleanupPcs, ReadPcs
    <2>5. Witnessed(t)' /\ OneKey(t)'
      BY <1>1, <1>4, <2>2, <2>3 DEF Story, Witnessed, Missed, OneKey
    <2>6. QED
      BY <1>4, <2>4, <2>5 DEF Story
  <1>5. QED
    BY <1>1, <1>2, <1>3, <1>4 DEF AfterInit

(* The readers. *)
LEMMA DeliverStory ==
    ASSUME Inv1, Track, NEW t \in Threads, pc[t] \in {"volatile_get", "read"},
           UNCHANGED <<op, arg>>, op[t] \in Reads \union {"attributes"},
           NEW k \in Key, k \in seen[t], handle'[t] = k,
           op[t] = "export_public" =>
              /\ hdr'[t] \in seen[t] \ {NoKey}
              /\ hdr'[t] = k \/ NoKey \in seen[t],
           NEW attr, NEW life,
           \/ psa_export_key_deliver(t, k)
           \/ wolfpsa_get_key_data_deliver(t)
           \/ psa_export_public_key_deliver(t, attr)
           \/ psa_copy_key_deliver(t, k, life)
           \/ Fail(t, "INSUFFICIENT_MEMORY")
           \/ Fail(t, "STORAGE_FAILURE")
    PROVE  Story(t)'
  <1> USE DEF Inv1, TypeBody, Fail, Answer, Return, Goto
  <1>0. k # NoKey
    BY KeyAssumption
  <1>1. CASE pc'[t] = "import_init"
    BY <1>1, ImportingStory DEF ImportPcs
  <1>2. CASE pc'[t] = "return" /\ status'[t] = "NOT_PERMITTED"
    <2>1. k \in seen'[t]
      BY <1>2, SeenGrows DEF ImportPcs
    <2>2. Justified(t)'
      BY <1>0, <1>2, <2>1 DEF Justified
    <2>3. QED
      BY <1>2, <2>2, ReturnStory
  <1>3. CASE /\ pc'[t] = "return" /\ status'[t] = "SUCCESS"
             /\ op[t] \in {"export", "get_key_data", "export_public"}
    <2>1. seen[t] \subseteq seen'[t]
      BY <1>3, SeenGrows DEF ImportPcs
    <2>2. Justified(t)'
      BY <1>0, <1>3, <2>1 DEF Justified, Imports, Copies
    <2>3. QED
      BY <1>3, <2>1, <2>2, ReturnStory
  <1>4. CASE /\ pc'[t] = "return"
             /\ status'[t] \in {"INVALID_ARGUMENT", "BUFFER_TOO_SMALL", "GENERIC_ERROR",
                                "INSUFFICIENT_MEMORY", "STORAGE_FAILURE"}
    BY <1>4, PlainReturn
  <1>5. CASE psa_export_key_deliver(t, k)
    BY <1>2, <1>3, <1>4, <1>5 DEF psa_export_key_deliver
  <1>6. CASE wolfpsa_get_key_data_deliver(t)
    BY <1>3, <1>6 DEF wolfpsa_get_key_data_deliver
  <1>7. CASE psa_export_public_key_deliver(t, attr)
    BY <1>3, <1>4, <1>7 DEF psa_export_public_key_deliver
  <1>8. CASE psa_copy_key_deliver(t, k, life)
    BY <1>1, <1>2, <1>4, <1>8 DEF psa_copy_key_deliver
  <1>9. CASE Fail(t, "INSUFFICIENT_MEMORY") \/ Fail(t, "STORAGE_FAILURE")
    BY <1>4, <1>9
  <1>10. QED
    BY <1>5, <1>6, <1>7, <1>8, <1>9

LEMMA ReadStory ==
    ASSUME OwnRanges, Inv1, Inv1', RangeInv, RangeInv', Track, NEW t \in Threads,
           Story(t), ReadStep(t)
    PROVE  Story(t)'
  <1> USE DEF Inv1, TypeBody, At
  <1>0. /\ pc[t] \in {"volatile_get", "open", "read", "attr_volatile", "attr_open"}
        /\ arg[t] \in Ids /\ op[t] \in Reads \union {"attributes"}
        /\ View(volatile, store, arg[t]) \in seen[t] /\ Focus(t) = arg[t]
        /\ UNCHANGED <<op, arg, volatile, store>>
    BY DEF ReadStep, wolfpsa_volatile_get, wolfPSA_Store_Open, wolfPSA_Store_Read,
       ReadThrough, wolfpsa_volatile_get_attributes, psa_get_key_attributes_read,
       global, HandleInv, ReadPcs, ImportPcs, Story, Running, Witnessed, Focus
  <1>a. /\ volatile[arg[t]] # NoKey =>
              volatile[arg[t]] \in Key /\ volatile[arg[t]] \in seen[t]
        /\ store[arg[t]] # NoKey =>
              store[arg[t]] \in Key /\ store[arg[t]] \in seen[t]
    BY <1>0, RangesApart DEF KeyOrNone
  <1>b. ASSUME pc'[t] \notin {"idle"} \union ImportPcs
        PROVE  seen'[t] = seen[t] \union {View(volatile, store, arg[t])}
    BY <1>0, <1>b, SeenGrows DEF ImportPcs
  <1>c. ASSUME pc'[t] \in {"open", "read", "attr_init", "attr_open"},
               Missed(t)' /\ arg[t] \in VendorIds => NoKey \in seen[t],
               pc'[t] = "read" => handle'[t] \in seen[t],
               pc'[t] \in {"open", "read"} /\ op[t] = "export_public" =>
                   hdr'[t] \in seen[t],
               OneKey(t)'
        PROVE  Story(t)'
    <2>1. seen'[t] = seen[t] \union {View(volatile, store, arg[t])}
      BY <1>b, <1>c DEF ImportPcs
    <2>2. View(volatile', store', Focus(t)') \in seen'[t]
      BY <1>0, <1>c, <2>1 DEF Focus, ImportPcs
    <2>3. Witnessed(t)'
      BY <1>0, <1>c, <2>1, <2>2 DEF Witnessed
    <2>4. Running(t)'
      BY <1>0, <1>c DEF Running, DestroyPcs, CleanupPcs, ReadPcs
    <2>5. QED
      BY <1>c, <2>3, <2>4 DEF Story
  <1>d. ASSUME pc'[t] = "return", status'[t] = "INVALID_HANDLE",
               store[arg[t]] = NoKey, Missed(t)
        PROVE  Story(t)'
    <2>1. arg[t] \in VendorIds => NoKey \in seen[t]
      BY <1>d DEF Story, Witnessed
    <2>2. arg[t] \in RequestIds => View(volatile, store, arg[t]) = NoKey
      BY <1>0, <1>d, RangesApart
    <2>3. NoKey \in seen'[t]
      BY <1>0, <1>b, <1>d, <2>1, <2>2 DEF Ids, ImportPcs
    <2>4. Justified(t)'
      BY <1>d, <2>3 DEF Justified
    <2>5. QED
      BY <1>d, <2>4, ReturnStory
  <1>1. CASE wolfpsa_volatile_get(t)
    <2> DEFINE k == volatile[arg[t]]
    <2>0. pc[t] = "volatile_get"
      BY <1>1 DEF wolfpsa_volatile_get
    <2>1. CASE k # NoKey
      <3>1. /\ handle'[t] = k /\ hdr'[t] = k
            /\ \/ psa_export_key_deliver(t, k)
               \/ wolfpsa_get_key_data_deliver(t)
               \/ psa_export_public_key_deliver(t, k)
               \/ psa_copy_key_deliver(t, k, "copy_volatile")
               \/ Fail(t, "INSUFFICIENT_MEMORY")
        BY <1>1, <2>1 DEF wolfpsa_volatile_get
      <3>2. k \in Key /\ k \in seen[t]
        BY <1>a, <2>1
      <3> HIDE DEF k
      <3>3. QED
        BY <1>0, <2>0, <2>1, <3>1, <3>2, DeliverStory
    <2>2. CASE k = NoKey
      <3>1. pc'[t] = IF op[t] = "export_public" THEN "attr_init" ELSE "open"
        BY <1>1, <2>2 DEF wolfpsa_volatile_get, Goto
      <3>2. arg[t] \in VendorIds => NoKey \in seen[t]
        BY <1>0, <2>2, RangesApart
      <3>3. OneKey(t)'
        BY <1>0, <3>1 DEF OneKey
      <3>4. QED
        BY <1>0, <1>c, <3>1, <3>2, <3>3
    <2>3. QED
      BY <2>1, <2>2
  <1>2. CASE wolfPSA_Store_Open(t)
    <2>0. pc[t] = "open" /\ UNCHANGED hdr /\ Missed(t)
      BY <1>2 DEF wolfPSA_Store_Open, Missed
    <2>1. CASE store[arg[t]] # NoKey /\ pc'[t] = "read" /\ handle'[t] = store[arg[t]]
      <3>1. arg[t] \in RequestIds
        BY <1>0, <2>1 DEF RangeInv, StoredRanges
      <3>2. seen'[t] = seen[t] \union {View(volatile, store, arg[t])}
        BY <1>b, <2>1 DEF ImportPcs
      <3>3. OneKey(t)'
        BY <1>0, <2>0, <2>1, <3>1, <3>2 DEF OneKey, Story
      <3>4. /\ arg[t] \in VendorIds => NoKey \in seen[t]
            /\ op[t] = "export_public" => hdr'[t] \in seen[t]
        BY <1>0, <2>0 DEF Story, Witnessed
      <3>5. QED
        BY <1>a, <1>c, <2>1, <3>3, <3>4
    <2>2. CASE /\ store[arg[t]] = NoKey
               /\ pc'[t] = "return" /\ status'[t] = "INVALID_HANDLE"
      BY <1>d, <2>0, <2>2
    <2>3. CASE pc'[t] = "return" /\ status'[t] \in OpenFailures
      BY <2>3, PlainReturn DEF OpenFailures
    <2>4. QED
      BY <1>2, <2>1, <2>2, <2>3 DEF wolfPSA_Store_Open, Goto, Fail, Return
  <1>3. CASE wolfPSA_Store_Read(t)
    <2> DEFINE k == handle[t]
    <2>0. pc[t] = "read" /\ UNCHANGED hdr /\ k \in Key /\ k \in seen[t]
      BY <1>3 DEF wolfPSA_Store_Read, ReadThrough, HandleInv, Story, Witnessed
    <2>1. [k EXCEPT !.data = k.data] = k
      BY <2>0 DEF Key
    <2>2. /\ handle'[t] = k
          /\ \/ psa_export_key_deliver(t, k)
             \/ wolfpsa_get_key_data_deliver(t)
             \/ psa_export_public_key_deliver(t, hdr[t])
             \/ psa_copy_key_deliver(t, k, "copy_persistent")
             \/ Fail(t, "INSUFFICIENT_MEMORY")
             \/ Fail(t, "STORAGE_FAILURE")
      BY <1>3, <2>1 DEF wolfPSA_Store_Read, ReadThrough
    <2>3. op[t] = "export_public" =>
              /\ hdr'[t] \in seen[t] \ {NoKey}
              /\ hdr'[t] = k \/ NoKey \in seen[t]
      BY <2>0, KeyAssumption DEF HandleInv, Story, Witnessed, OneKey
    <2> HIDE DEF k
    <2>4. QED
      BY <1>0, <2>0, <2>2, <2>3, DeliverStory
  <1>4. ASSUME NEW k \in Key, HaveAttributes(t, k), k \in seen[t],
               pc[t] \in {"attr_volatile", "attr_open"},
               arg[t] \in RequestIds => k = store[arg[t]]
        PROVE  Story(t)'
    <2>0. hdr'[t] = k
      BY <1>4 DEF HaveAttributes
    <2>1. CASE op[t] = "attributes" /\ pc'[t] = "return" /\ status'[t] = "SUCCESS"
      <3>1. k \in seen'[t] \ {NoKey}
        BY <1>4, <1>b, <2>1, KeyAssumption DEF ImportPcs
      <3>2. Justified(t)'
        BY <1>0, <2>0, <2>1, <3>1 DEF Justified, Imports, Copies
      <3>3. QED
        BY <1>0, <2>1, <3>2, ReturnStory
    <2>2. CASE op[t] = "export_public" /\ pc'[t] = "open"
      <3>1. arg[t] \in VendorIds => NoKey \in seen[t]
        BY <1>4, <2>2 DEF Story, Witnessed, Missed
      <3>2. OneKey(t)'
        BY <1>0, <1>4, <2>0, <2>2 DEF OneKey
      <3>3. QED
        BY <1>c, <1>4, <2>0, <2>2, <3>1, <3>2
    <2>3. CASE pc'[t] = "return" /\ status'[t] = "INVALID_ARGUMENT"
      BY <2>3, PlainReturn
    <2>4. QED
      BY <1>4, <2>1, <2>2, <2>3 DEF HaveAttributes, Return, Goto
  <1>5. CASE wolfpsa_volatile_get_attributes(t)
    <2>0. pc[t] = "attr_volatile"
      BY <1>5 DEF wolfpsa_volatile_get_attributes
    <2>1. CASE volatile[arg[t]] # NoKey
      <3>1. arg[t] \notin RequestIds
        BY <1>0, <2>1, RangesApart
      <3>2. HaveAttributes(t, volatile[arg[t]])
        BY <1>5, <2>1 DEF wolfpsa_volatile_get_attributes
      <3>3. QED
        BY <1>a, <1>4, <2>0, <2>1, <3>1, <3>2
    <2>2. CASE volatile[arg[t]] = NoKey
      <3>1. pc'[t] = "attr_open"
        BY <1>5, <2>2 DEF wolfpsa_volatile_get_attributes, Goto
      <3>2. arg[t] \in VendorIds => NoKey \in seen[t]
        BY <1>0, <2>2, RangesApart
      <3>3. OneKey(t)'
        BY <3>1 DEF OneKey
      <3>4. QED
        BY <1>c, <3>1, <3>2, <3>3
    <2>3. QED
      BY <2>1, <2>2
  <1>6. CASE psa_get_key_attributes_read(t)
    <2>0. pc[t] = "attr_open" /\ Missed(t)
      BY <1>6 DEF psa_get_key_attributes_read, Missed
    <2>1. CASE store[arg[t]] # NoKey /\ HaveAttributes(t, store[arg[t]])
      BY <1>a, <1>4, <2>0, <2>1
    <2>2. CASE /\ store[arg[t]] = NoKey
               /\ pc'[t] = "return" /\ status'[t] = "INVALID_HANDLE"
      BY <1>d, <2>0, <2>2
    <2>3. CASE pc'[t] = "return" /\ status'[t] \in OpenFailures
      BY <2>3, PlainReturn DEF OpenFailures
    <2>4. QED
      BY <1>6, <2>1, <2>2, <2>3 DEF psa_get_key_attributes_read, Return
  <1>7. QED
    BY <1>1, <1>2, <1>3, <1>5, <1>6 DEF ReadStep

LEMMA NextStory ==
    ASSUME OwnRanges, Inv1, Inv1', RangeInv, RangeInv', Inv2, StoryInv, [Next]_vars
    PROVE  StoryInv'
  <1>1. CASE UNCHANGED vars
    BY <1>1 DEF vars, global, local, StoryInv, Story, Running, Witnessed, Missed,
       OneKey, Justified, Focus
  <1>2. CASE Next
    <2>0. Track /\ KeepsRecords
      BY <1>2, NextTracks, NextInv2
    <2>1. CASE Restart
      BY <2>1, IdleStory DEF Restart, StoryInv
    <2>2. ASSUME NEW t \in Threads, Call(t) \/ Step(t) \/ TakeAnswer(t)
          PROVE  StoryInv'
      <3>1. Story(t)
        BY DEF StoryInv
      <3>2. Only(t)
        BY <2>2, OnlyCalls, OnlyImports, OnlyReads DEF Step
      <3>3. Story(t)'
        BY <2>0, <2>2, <3>1, CallStory, ImportStory, ReadStory, DestroyStory,
           CleanupStory, InitStory DEF Step
      <3>4. ASSUME NEW u \in Threads \ {t} PROVE Story(u)'
        BY <2>0, <3>2, OthersStory DEF StoryInv
      <3>5. QED
        BY <3>3, <3>4 DEF StoryInv
    <2>3. QED
      BY <1>2, <2>1, <2>2 DEF Next
  <1>3. QED
    BY <1>1, <1>2

(* Every answer of every call is one that an atomic map of keys could have    *)
(* given at some moment of the call, for any number of threads, although the *)
(* readers and psa_destroy_key() reach the store without the mutex; the two  *)
(* handles of psa_export_public_key() differ only across a destroy.  The ids *)
(* of persistent keys lie outside the vendor range, as for NoShadow.         *)
THEOREM AnswersAreTrue ==
    ASSUME RequestIds \intersect (VendorIds \union {NullId}) = {}
    PROVE  Spec => []AnswersTrue
  <1> DEFINE Inv == Inv1 /\ RangeInv /\ Inv2 /\ StoryInv
  <1>0. OwnRanges /\ NullId \notin RequestIds
    BY DEF OwnRanges
  <1>1. Init => Inv
    <2>1. Init => RangeInv /\ Inv2
      BY DEF Init, RangeInv, StoredRanges, CallRanges, ImportPcs, LockedPcs,
         Volatile, Persistent, Inv2, LockInv, ProbeInv
    <2>2. Init => StoryInv
      BY DEF Init, StoryInv, Story, Running, Witnessed, Missed, OneKey, DestroyPcs,
         CleanupPcs, ReadPcs
    <2>3. QED
      BY <2>1, <2>2, InitInv1
  <1>2. Inv /\ [Next]_vars => Inv'
    BY <1>0, NextInv1, RangeStep, NextInv2, NextStory
  <1>3. Inv => AnswersTrue
    BY DEF StoryInv, Story, OneKey, AnswersTrue, AnswerJustified,
       PublicExportConsistent, At
  <1>4. QED
    BY <1>1, <1>2, <1>3, PTL DEF Spec

(***************************************************************************)
(* Each wolfCrypt_Init() is undone once: the cleanups that still owe a       *)
(* wolfCrypt_Cleanup() are counted.                                         *)
(***************************************************************************)
OwingPcs == {"cleanup_keys_wc", "cleanup_wc"}
Owing == {t \in Threads : pc[t] \in OwingPcs}

(* The step of t neither starts nor finishes a cleanup that owes. *)
Even(t) ==
    /\ UNCHANGED <<wcRefs, initialized>>
    /\ \A u \in Threads \ {t} : pc'[u] = pc[u]
    /\ pc[t] \notin OwingPcs /\ pc'[t] \notin OwingPcs

LEMMA EvenSteps ==
    ASSUME Inv1, NEW t \in Threads,
           \/ BeginImport(t) \/ BeginRead(t) \/ BeginCopy(t) \/ BeginDestroy(t)
           \/ TakeAnswer(t) \/ psa_key_storage_check_init(t)
           \/ ImportStep(t) \/ ReadStep(t) \/ DestroyStep(t)
    PROVE  Even(t)
  <1> USE DEF Even, OwingPcs, Inv1, TypeBody, global, At, Goto, Return, Fail
  <1>1. CASE \/ BeginImport(t) \/ BeginRead(t) \/ BeginCopy(t) \/ BeginDestroy(t)
    BY <1>1 DEF BeginImport, BeginRead, BeginCopy, BeginDestroy, Begin
  <1>2. CASE TakeAnswer(t)
    BY <1>2 DEF TakeAnswer
  <1>3. CASE psa_key_storage_check_init(t)
    BY <1>3 DEF psa_key_storage_check_init, AfterInit
  <1>4. CASE ImportStep(t)
    BY <1>4 DEF ImportStep, psa_import_key_assign_id, AssignId, psa_import_key_alloc,
       wolfpsa_volatile_store, psa_import_key_lock, psa_import_key_probe, Probe,
       psa_import_key_open_write, psa_import_key_write, psa_import_key_close,
       psa_import_key_unlock
  <1>5. CASE ReadStep(t)
    <2>1. ASSUME NEW k, NEW attr, NEW life,
                 \/ psa_export_key_deliver(t, k)
                 \/ wolfpsa_get_key_data_deliver(t)
                 \/ psa_export_public_key_deliver(t, attr)
                 \/ psa_copy_key_deliver(t, k, life)
                 \/ Fail(t, "INSUFFICIENT_MEMORY")
                 \/ Fail(t, "STORAGE_FAILURE")
          PROVE  pc'[t] \notin OwingPcs
      BY <2>1 DEF psa_export_key_deliver, wolfpsa_get_key_data_deliver, Answer,
         psa_export_public_key_deliver, psa_copy_key_deliver
    <2>2. /\ UNCHANGED <<wcRefs, initialized>> /\ pc[t] \notin OwingPcs
          /\ \A u \in Threads \ {t} : pc'[u] = pc[u]
      BY <1>5, OnlyReads DEF Only, ReadStep, wolfpsa_volatile_get, wolfPSA_Store_Open,
         wolfPSA_Store_Read, ReadThrough, wolfpsa_volatile_get_attributes,
         psa_get_key_attributes_read
    <2>3. CASE wolfpsa_volatile_get(t)
      BY <2>1, <2>2, <2>3 DEF wolfpsa_volatile_get
    <2>4. CASE wolfPSA_Store_Read(t)
      BY <2>1, <2>2, <2>4 DEF wolfPSA_Store_Read, ReadThrough
    <2>5. CASE \/ wolfPSA_Store_Open(t) \/ wolfpsa_volatile_get_attributes(t)
               \/ psa_get_key_attributes_read(t)
      BY <2>2, <2>5 DEF wolfPSA_Store_Open, wolfpsa_volatile_get_attributes,
         psa_get_key_attributes_read, HaveAttributes
    <2>6. QED
      BY <1>5, <2>3, <2>4, <2>5 DEF ReadStep
  <1>6. CASE DestroyStep(t)
    BY <1>6 DEF DestroyStep, wolfpsa_volatile_remove, psa_destroy_key_remove
  <1>7. QED
    BY <1>1, <1>2, <1>3, <1>4, <1>5, <1>6

LEMMA NextBalanced ==
    ASSUME IsFiniteSet(Threads), Inv1, WolfCryptBalanced, [Next]_vars
    PROVE  WolfCryptBalanced'
  <1> DEFINE up == IF initialized THEN 1 ELSE 0
  <1>0. /\ IsFiniteSet(Owing) /\ Cardinality(Owing) \in Nat
        /\ wcRefs = up + Cardinality(Owing) /\ wcRefs \in Int
    <2>1. Owing \subseteq Threads
      BY DEF Owing
    <2>2. QED
      BY <2>1, FS_Subset, FS_CardinalityType DEF WolfCryptBalanced, Owing, OwingPcs,
         Inv1, TypeBody
  <1>a. ASSUME wcRefs' = (IF initialized' THEN 1 ELSE 0) + Cardinality(Owing')
        PROVE  WolfCryptBalanced'
    BY <1>a DEF WolfCryptBalanced, Owing, OwingPcs
  <1>1. CASE UNCHANGED vars
    BY <1>1 DEF vars, global, local, WolfCryptBalanced
  <1>2. CASE Restart
    <2>1. Owing' = {} /\ wcRefs' = 0 /\ initialized' = FALSE
      BY <1>2 DEF Restart, Owing, OwingPcs
    <2>2. QED
      BY <1>a, <2>1, FS_EmptySet
  <1>3. ASSUME NEW t \in Threads, Even(t) PROVE WolfCryptBalanced'
    <2>1. Owing' = Owing
      BY <1>3 DEF Even, Owing
    <2>2. QED
      BY <1>a, <1>0, <1>3, <2>1 DEF Even
  <1>4. ASSUME NEW t \in Threads, psa_crypto_init(t) PROVE WolfCryptBalanced'
    <2>1. Owing' = Owing
      BY <1>4 DEF psa_crypto_init, At, Return, Owing, OwingPcs, Inv1, TypeBody
    <2>2. \/ UNCHANGED <<initialized, wcRefs>>
          \/ initialized = FALSE /\ initialized' = TRUE /\ wcRefs' = wcRefs + 1
      BY <1>4 DEF psa_crypto_init, Inv1, TypeBody
    <2>3. QED
      BY <1>a, <1>0, <2>1, <2>2
  <1>5. ASSUME NEW t \in Threads, wolfPSA_CryptoCleanup(t) PROVE WolfCryptBalanced'
    <2>0. initialized' = FALSE /\ UNCHANGED wcRefs /\ t \notin Owing
      BY <1>5 DEF wolfPSA_CryptoCleanup, At, Owing, OwingPcs
    <2>1. CASE initialized
      <3>1. Owing' = Owing \union {t}
        BY <1>5, <2>1 DEF wolfPSA_CryptoCleanup, Goto, Owing, OwingPcs, Inv1, TypeBody
      <3>2. Cardinality(Owing') = Cardinality(Owing) + 1
        BY <1>0, <2>0, <3>1, FS_AddElement
      <3>3. QED
        BY <1>a, <1>0, <2>0, <2>1, <3>2
    <2>2. CASE ~initialized
      <3>1. Owing' = Owing
        BY <1>5, <2>2 DEF wolfPSA_CryptoCleanup, At, Goto, Owing, OwingPcs, Inv1, TypeBody
      <3>2. QED
        BY <1>a, <1>0, <2>0, <2>2, <3>1
    <2>3. QED
      BY <2>1, <2>2
  <1>6. ASSUME NEW t \in Threads, psa_key_storage_cleanup(t) PROVE WolfCryptBalanced'
    <2>1. Owing' = Owing
      BY <1>6 DEF psa_key_storage_cleanup, At, Goto, Return, Owing, OwingPcs, Inv1,
         TypeBody
    <2>2. QED
      BY <1>a, <1>0, <1>6, <2>1 DEF psa_key_storage_cleanup
  <1>7. ASSUME NEW t \in Threads, wolfCrypt_Cleanup(t) PROVE WolfCryptBalanced'
    <2>1. t \in Owing /\ Owing' = Owing \ {t}
      BY <1>7 DEF wolfCrypt_Cleanup, At, Return, Owing, OwingPcs, Inv1, TypeBody
    <2>2. Cardinality(Owing') = Cardinality(Owing) - 1
      BY <1>0, <2>1, FS_RemoveElement
    <2>3. wcRefs' = wcRefs - 1 /\ UNCHANGED initialized
      BY <1>7 DEF wolfCrypt_Cleanup
    <2>4. QED
      BY <1>a, <1>0, <2>2, <2>3
  <1>8. QED
    BY <1>1, <1>2, <1>3, <1>4, <1>5, <1>6, <1>7, EvenSteps DEF Next, Call, Step,
       CleanupStep

(* Whatever cleanups and initialisations race with the calls of a finite set  *)
(* of threads, an initialized library has wolfCrypt running, each            *)
(* wolfCrypt_Init() is undone once, and no call answers what was never true. *)
THEOREM CleanupIsSafe ==
    ASSUME RequestIds \intersect (VendorIds \union {NullId}) = {}, IsFiniteSet(Threads)
    PROVE  Spec => []CleanupSafe
  <1>1. Spec => []Inv1
    <2>1. Init => Inv1
      BY InitInv1
    <2>2. Inv1 /\ [Next]_vars => Inv1'
      BY NextInv1
    <2>3. QED
      BY <2>1, <2>2, PTL DEF Spec
  <1>2. Init => WolfCryptBalanced
    <2>1. Init => wcRefs = 0 /\ initialized = FALSE /\ Owing = {}
      BY DEF Init, Owing, OwingPcs
    <2>2. QED
      BY <2>1, FS_EmptySet DEF WolfCryptBalanced, Owing, OwingPcs
  <1>3. Inv1 /\ WolfCryptBalanced /\ [Next]_vars => WolfCryptBalanced'
    BY NextBalanced
  <1>4. Spec => []AnswersTrue
    BY AnswersAreTrue
  <1>5. AnswersTrue /\ WolfCryptBalanced => CleanupSafe
    BY DEF AnswersTrue, CleanupSafe
  <1>6. QED
    BY <1>1, <1>2, <1>3, <1>4, <1>5, PTL DEF Spec

(***************************************************************************)
(* Spent ids.                                                               *)
(***************************************************************************)
LEMMA SpentStep ==
    ASSUME OwnRanges, Inv1, RangeInv, Next, ~Restart, NEW i \in VendorIds, Spent(i)
    PROVE  Spent(i)'
  <1> USE DEF Inv1, TypeBody, global, At, Goto, Return, Fail
  <1>0. /\ i \in Int /\ i \in Ids /\ next_id \in Int /\ i < next_id
        /\ volatile[i] = NoKey
        /\ \A u \in Threads : dst[u] = i => pc[u] \notin {"alloc", "volatile_store"}
    BY IdAssumption, VendorIdsType DEF Spent, VendorIds
  <1>1. ASSUME NEW t \in Threads, UNCHANGED <<next_id, volatile>>, Only(t),
               pc'[t] \notin {"alloc", "volatile_store"}
        PROVE  Spent(i)'
    BY <1>0, <1>1 DEF Spent, Only
  <1>2. PICK t \in Threads : Call(t) \/ Step(t) \/ TakeAnswer(t)
    BY DEF Next
  <1>3. Only(t)
    BY <1>2, OnlyCalls, OnlyImports, OnlyReads DEF Step
  <1>4. CASE Call(t) \/ TakeAnswer(t)
    <2>1. UNCHANGED <<next_id, volatile>> /\ pc'[t] \notin {"alloc", "volatile_store"}
      BY <1>4 DEF Call, BeginImport, BeginRead, BeginCopy, BeginDestroy, Begin,
         TakeAnswer, psa_crypto_init, wolfPSA_CryptoCleanup
    <2>2. QED
      BY <1>1, <1>3, <2>1
  <1>5. CASE psa_import_key_assign_id(t)
    <2>1. CASE dst'[t] = dst[t] /\ UNCHANGED next_id /\ dst[t] \in RequestIds
      <3>1. dst'[t] # i
        BY <2>1 DEF OwnRanges
      <3>2. QED
        BY <1>0, <1>3, <1>5, <2>1, <3>1 DEF psa_import_key_assign_id, AssignId, Only,
           Spent
    <2>2. CASE dst'[t] = next_id /\ next_id' = next_id + 1
      BY <1>0, <1>3, <1>5, <2>2 DEF psa_import_key_assign_id, AssignId, Only, Spent
    <2>3. CASE pc'[t] = "return" /\ UNCHANGED next_id
      BY <1>1, <1>3, <1>5, <2>3 DEF psa_import_key_assign_id, AssignId
    <2>4. op[t] \notin Volatile => dst[t] \in RequestIds
      BY <1>5 DEF psa_import_key_assign_id, AssignId, RangeInv, CallRanges, ImportPcs
    <2>5. QED
      BY <1>5, <2>1, <2>2, <2>3, <2>4 DEF psa_import_key_assign_id, AssignId
  <1>6. CASE psa_import_key_alloc(t)
    <2>1. dst'[t] # i /\ UNCHANGED <<next_id, volatile>>
      BY <1>0, <1>6 DEF psa_import_key_alloc
    <2>2. QED
      BY <1>0, <1>3, <2>1 DEF Only, Spent
  <1>7. CASE wolfpsa_volatile_store(t)
    <2>1. /\ UNCHANGED next_id /\ volatile'[i] = NoKey /\ pc'[t] = "return"
      BY <1>0, <1>7 DEF wolfpsa_volatile_store
    <2>2. QED
      BY <1>0, <1>3, <2>1 DEF Only, Spent
  <1>8. CASE \/ psa_import_key_lock(t) \/ psa_import_key_probe(t)
             \/ psa_import_key_open_write(t) \/ psa_import_key_write(t)
             \/ psa_import_key_close(t) \/ psa_import_key_unlock(t)
    <2>1. UNCHANGED <<next_id, volatile>> /\ pc'[t] \notin {"alloc", "volatile_store"}
      BY <1>8 DEF psa_import_key_lock, psa_import_key_probe, Probe,
         psa_import_key_open_write, psa_import_key_write, psa_import_key_close,
         psa_import_key_unlock
    <2>2. QED
      BY <1>1, <1>3, <2>1
  <1>9. CASE DestroyStep(t) \/ CleanupStep(t)
    <2>1. /\ UNCHANGED next_id /\ volatile'[i] = NoKey
          /\ pc'[t] \notin {"alloc", "volatile_store"}
      BY <1>0, <1>9 DEF DestroyStep, CleanupStep, wolfpsa_volatile_remove,
         psa_destroy_key_remove, psa_key_storage_cleanup, wolfCrypt_Cleanup
    <2>2. QED
      BY <1>0, <1>3, <2>1 DEF Only, Spent
  <1>10. CASE psa_key_storage_check_init(t)
    <2>1. UNCHANGED <<next_id, volatile>> /\ pc'[t] \notin {"alloc", "volatile_store"}
      BY <1>10 DEF psa_key_storage_check_init, AfterInit
    <2>2. QED
      BY <1>1, <1>3, <2>1
  <1>11. CASE ReadStep(t)
    <2>1. UNCHANGED <<next_id, volatile>>
      BY <1>11 DEF ReadStep, wolfpsa_volatile_get, wolfPSA_Store_Open,
         wolfPSA_Store_Read, ReadThrough, wolfpsa_volatile_get_attributes,
         psa_get_key_attributes_read
    <2>2. ASSUME NEW k, NEW attr, NEW life,
                 \/ psa_export_key_deliver(t, k)
                 \/ wolfpsa_get_key_data_deliver(t)
                 \/ psa_export_public_key_deliver(t, attr)
                 \/ psa_copy_key_deliver(t, k, life)
                 \/ Fail(t, "INSUFFICIENT_MEMORY")
                 \/ Fail(t, "STORAGE_FAILURE")
          PROVE  pc'[t] \notin {"alloc", "volatile_store"}
      BY <2>2 DEF psa_export_key_deliver, wolfpsa_get_key_data_deliver, Answer,
         psa_export_public_key_deliver, psa_copy_key_deliver
    <2>3. CASE wolfpsa_volatile_get(t)
      BY <1>1, <1>3, <2>1, <2>2, <2>3 DEF wolfpsa_volatile_get
    <2>4. CASE wolfPSA_Store_Read(t)
      BY <1>1, <1>3, <2>1, <2>2, <2>4 DEF wolfPSA_Store_Read, ReadThrough
    <2>5. CASE \/ wolfPSA_Store_Open(t) \/ wolfpsa_volatile_get_attributes(t)
               \/ psa_get_key_attributes_read(t)
      BY <1>1, <1>3, <2>1, <2>5 DEF wolfPSA_Store_Open, wolfpsa_volatile_get_attributes,
         psa_get_key_attributes_read, HaveAttributes
    <2>6. QED
      BY <1>11, <2>3, <2>4, <2>5 DEF ReadStep
  <1>12. QED
    BY <1>2, <1>4, <1>5, <1>6, <1>7, <1>8, <1>9, <1>10, <1>11 DEF Step, ImportStep

(* A stale volatile handle stays dead until the process restarts: an id that  *)
(* was given out and no longer denotes a key never denotes one again,        *)
(* through destroys, cleanups and new psa_crypto_init() calls.               *)
THEOREM SpentIdsStaySpent ==
    ASSUME RequestIds \intersect (VendorIds \union {NullId}) = {}
    PROVE  Spec => SpentIdStaysSpent
  <1> DEFINE Inv == Inv1 /\ RangeInv
             A == Restart \/ \A i \in VendorIds : Spent(i) => Spent(i)'
  <1>0. OwnRanges /\ NullId \notin RequestIds
    BY DEF OwnRanges
  <1>1. Init => Inv
    BY InitInv1 DEF Init, RangeInv, StoredRanges, CallRanges, ImportPcs, LockedPcs,
       Volatile, Persistent
  <1>2. Inv /\ [Next]_vars => Inv'
    BY <1>0, NextInv1, RangeStep
  <1>3. Inv /\ [Next]_vars => [A]_vars
    BY <1>0, SpentStep
  <1>4. QED
    BY <1>1, <1>2, <1>3, PTL DEF Spec, SpentIdStaysSpent
=============================================================================
