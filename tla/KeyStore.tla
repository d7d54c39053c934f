------------------------------ MODULE KeyStore ------------------------------
(***************************************************************************)
(* The wolfPSA key store (src/src/psa_key_storage.c) under concurrent       *)
(* callers: the list of volatile keys, the auto-assigned id counter, the    *)
(* persistent record store behind it, the global mutex of psa_lock.h and    *)
(* the init latch of psa_crypto.c.                                          *)
(*                                                                         *)
(* A thread runs one API call at a time.  Every acquisition of the mutex    *)
(* and every call into the persistent store is a step of its own, because   *)
(* the store calls of psa_destroy_key() and of the readers are made WITHOUT *)
(* the mutex.  A region the mutex guards and that makes no store call is    *)
(* one step (it needs the mutex free).                                      *)
(***************************************************************************)
EXTENDS Integers, FiniteSets

CONSTANTS
    Threads,     \* callers of the API
    NoThread,    \* the mutex is free
    Material,    \* key material, with the type that goes with it
    Granted,     \* the usage flags each material is imported with
    Asymmetric,  \* the material whose type has a public part
    NoKey,       \* no record / no list node
    RequestIds,  \* the ids in the attributes of persistent keys (NullId: none)
    VendorMin,   \* PSA_KEY_ID_VENDOR_MIN
    VendorMax,   \* PSA_KEY_ID_VENDOR_MAX
    Calls        \* the API calls the threads make

Usages == {"EXPORT", "COPY"}
Key == [usage : SUBSET Usages, data : Material]
KeyOrNone == Key \union {NoKey}

NullId == 0                                     \* PSA_KEY_ID_NULL
VendorIds == VendorMin .. VendorMax
Ids == (RequestIds \union VendorIds) \ {NullId}

(* The calls; the lifetime a copy asks for is part of its name. *)
Imports == {"import_volatile", "import_persistent"}
Copies  == {"copy_volatile", "copy_persistent"}
Reads   == {"export", "get_key_data", "export_public"} \union Copies
Volatile == {"import_volatile", "copy_volatile"}

ASSUME ThreadsAssumption == NoThread \notin Threads
ASSUME KeyAssumption ==
    /\ NoKey \notin Key
    /\ Granted \in [Material -> SUBSET Usages]
    /\ Asymmetric \subseteq Material
ASSUME IdAssumption ==
    /\ VendorMin \in Nat \ {NullId} /\ VendorMax \in Nat
    /\ VendorMin =< VendorMax
    /\ RequestIds \subseteq Nat
ASSUME CallsAssumption ==
    Calls \subseteq Imports \union Reads \union
        {"attributes", "destroy", "crypto_init", "crypto_cleanup", "restart"}

VARIABLES
    lock,         \* wolfpsa_global_mutex: its owner
    initialized,  \* g_psa_crypto_initialized
    wcRefs,       \* wolfCrypt_Init() calls not undone by wolfCrypt_Cleanup()
    next_id,      \* g_next_key_id
    volatile,     \* g_volatile_keys: the key of each id in the list
    store,        \* the persistent record of each id
    pc,           \* where each thread is in its call
    op,           \* the call it runs
    arg,          \* the key id it was given
    dst,          \* the id it imports under (requested, then *key_id)
    want,         \* the usage flags a copy asks for
    key,          \* the attributes and data it imports
    hdr,          \* the attributes read by psa_get_key_attributes()
    handle,       \* the record its open read handle stands on
    status,       \* the status it returns
    seen          \* history: what its id has denoted since the call began

global == <<lock, initialized, wcRefs, next_id, volatile, store>>
local  == <<pc, op, arg, dst, want, key, hdr, handle, status>>
vars   == <<global, local, seen>>

ImportPcs   == {"import_init", "assign_id", "alloc", "volatile_store", "lock",
                "probe", "open_write", "write", "close", "unlock"}
LockedPcs   == {"probe", "open_write", "write", "close", "unlock"}
ReadPcs     == {"init", "volatile_get", "attr_init", "attr_volatile",
                "attr_open", "open", "read"}
DestroyPcs  == {"destroy_init", "volatile_remove", "store_remove"}
CleanupPcs  == {"cleanup_keys", "cleanup_keys_wc", "cleanup_wc"}
Pcs == {"idle", "return"} \union ImportPcs \union ReadPcs \union DestroyPcs
                          \union CleanupPcs

Statuses == {"SUCCESS", "BAD_STATE", "GENERIC_ERROR", "INVALID_HANDLE",
             "INVALID_ARGUMENT", "NOT_PERMITTED", "BUFFER_TOO_SMALL",
             "ALREADY_EXISTS", "INSUFFICIENT_STORAGE", "INSUFFICIENT_MEMORY",
             "STORAGE_FAILURE"}

(* What a failing wolfPSA_Store_Open() becomes: wolfpsa_store_open_status(). *)
OpenFailures == {"INSUFFICIENT_MEMORY", "STORAGE_FAILURE"}

TypeOK ==
    /\ lock \in Threads \union {NoThread}
    /\ initialized \in BOOLEAN
    /\ wcRefs \in Int
    /\ next_id \in VendorMin .. VendorMax + 1
    /\ volatile \in [Ids -> KeyOrNone]
    /\ store \in [Ids -> KeyOrNone]
    /\ pc \in [Threads -> Pcs]
    /\ op \in [Threads -> Calls \union {"none"}]
    /\ arg \in [Threads -> Ids \union {NullId}]
    /\ dst \in [Threads -> Ids \union {NullId}]
    /\ want \in [Threads -> SUBSET Usages]
    /\ key \in [Threads -> KeyOrNone]
    /\ hdr \in [Threads -> KeyOrNone]
    /\ handle \in [Threads -> KeyOrNone]
    /\ status \in [Threads -> Statuses]
    /\ seen \in [Threads -> SUBSET KeyOrNone]

Init ==
    /\ lock = NoThread
    /\ initialized = FALSE
    /\ wcRefs = 0
    /\ next_id = VendorMin
    /\ volatile = [i \in Ids |-> NoKey]
    /\ store = [i \in Ids |-> NoKey]
    /\ pc = [t \in Threads |-> "idle"]
    /\ op = [t \in Threads |-> "none"]
    /\ arg = [t \in Threads |-> NullId]
    /\ dst = [t \in Threads |-> NullId]
    /\ want = [t \in Threads |-> {}]
    /\ key = [t \in Threads |-> NoKey]
    /\ hdr = [t \in Threads |-> NoKey]
    /\ handle = [t \in Threads |-> NoKey]
    /\ status = [t \in Threads |-> "SUCCESS"]
    /\ seen = [t \in Threads |-> {}]

-----------------------------------------------------------------------------
(* Control: go to a point of the call, or return a status from it. *)

Goto(t, p) == pc' = [pc EXCEPT ![t] = p] /\ UNCHANGED status

Return(t, st) ==
    /\ pc' = [pc EXCEPT ![t] = "return"]
    /\ status' = [status EXCEPT ![t] = st]

(* An error return whose key id output is (or is reset to) PSA_KEY_ID_NULL. *)
Fail(t, st) ==
    /\ Return(t, st)
    /\ dst' = [dst EXCEPT ![t] = NullId]

Answer(t, st) == Return(t, st) /\ UNCHANGED dst

At(t, p) == pc[t] = p

(* A region guarded by the mutex in one step: lock, body, unlock. *)
Locked == lock = NoThread

(* What an id denotes to a reader: a volatile key hides a record. *)
View(vol, sto, i) ==
    IF i = NullId THEN NoKey
    ELSE IF vol[i] # NoKey THEN vol[i] ELSE sto[i]

Focus(t) == IF pc[t] \in ImportPcs THEN dst[t] ELSE arg[t]

(***************************************************************************)
(* The history variable: every value the id a call works on has denoted,    *)
(* from the step that fixed the id to the step that fixed the answer.       *)
(***************************************************************************)
Track ==
    seen' = [t \in Threads |->
        CASE pc'[t] = "idle" -> {}
          [] pc[t] = "return" /\ pc'[t] = "return" -> seen[t]
          [] pc[t] = "idle" \/ (pc'[t] \in ImportPcs /\ Focus(t)' # Focus(t)) ->
                {View(volatile', store', Focus(t)')}
          [] OTHER -> seen[t] \union {View(volatile', store', Focus(t))}]

-----------------------------------------------------------------------------
(* A thread calls the API. *)

Begin(t, p, o, a, d, w, k) ==
    /\ At(t, "idle")
    /\ o \in Calls
    /\ pc' = [pc EXCEPT ![t] = p]
    /\ op' = [op EXCEPT ![t] = o]
    /\ arg' = [arg EXCEPT ![t] = a]
    /\ dst' = [dst EXCEPT ![t] = d]
    /\ want' = [want EXCEPT ![t] = w]
    /\ key' = [key EXCEPT ![t] = k]
    /\ UNCHANGED <<global, hdr, handle, status>>
    /\ Track

(* psa_import_key(), and psa_generate_key() and the others that end in it.  *)
(* The attributes of a volatile key may hold any id: the ones that          *)
(* psa_get_key_attributes() returns hold the id of the key they describe.   *)
BeginImport(t) ==
    \E m \in Material :
        LET k == [usage |-> Granted[m], data |-> m] IN
        \/ \E i \in Ids \union {NullId} :
              Begin(t, "import_init", "import_volatile", NullId, i, {}, k)
        \/ \E i \in RequestIds :
              Begin(t, "import_init", "import_persistent", NullId, i, {}, k)

BeginRead(t) ==
    \E i \in Ids :
        \/ \E o \in {"export", "get_key_data", "export_public"} :
              Begin(t, "init", o, i, NullId, {}, NoKey)
        \/ Begin(t, "attr_init", "attributes", i, NullId, {}, NoKey)

BeginCopy(t) ==
    \E i \in Ids, w \in SUBSET Usages :
        \/ Begin(t, "init", "copy_volatile", i, NullId, w, NoKey)
        \/ \E d \in RequestIds : Begin(t, "init", "copy_persistent", i, d, w, NoKey)

BeginDestroy(t) ==
    \E i \in Ids : Begin(t, "destroy_init", "destroy", i, NullId, {}, NoKey)

(* The caller takes the answer; the locals of the call are gone. *)
TakeAnswer(t) ==
    /\ At(t, "return")
    /\ pc' = [pc EXCEPT ![t] = "idle"]
    /\ op' = [op EXCEPT ![t] = "none"]
    /\ arg' = [arg EXCEPT ![t] = NullId]
    /\ dst' = [dst EXCEPT ![t] = NullId]
    /\ want' = [want EXCEPT ![t] = {}]
    /\ key' = [key EXCEPT ![t] = NoKey]
    /\ hdr' = [hdr EXCEPT ![t] = NoKey]
    /\ handle' = [handle EXCEPT ![t] = NoKey]
    /\ status' = [status EXCEPT ![t] = "SUCCESS"]
    /\ UNCHANGED global
    /\ Track

-----------------------------------------------------------------------------
(* psa_crypto_init() and wolfPSA_CryptoCleanup(). *)

psa_crypto_init(t) ==
    /\ At(t, "idle") /\ "crypto_init" \in Calls /\ Locked
    /\ op' = [op EXCEPT ![t] = "crypto_init"]
    /\ \/ initialized /\ Return(t, "SUCCESS") /\ UNCHANGED <<initialized, wcRefs>>
       \/ /\ ~initialized
          /\ \/ /\ initialized' = TRUE /\ wcRefs' = wcRefs + 1
                /\ Return(t, "SUCCESS")
             \/ Return(t, "GENERIC_ERROR") /\ UNCHANGED <<initialized, wcRefs>>
    /\ UNCHANGED <<lock, next_id, volatile, store, arg, dst, want, key, hdr, handle>>
    /\ Track

(* Mutation: wolfCrypt_Cleanup() runs even if the latch was already clear. *)
wolfPSA_CryptoCleanup_always(t) ==
    /\ At(t, "idle") /\ "crypto_cleanup" \in Calls /\ Locked
    /\ op' = [op EXCEPT ![t] = "crypto_cleanup"]
    /\ Goto(t, "cleanup_keys_wc")
    /\ initialized' = FALSE
    /\ UNCHANGED <<lock, wcRefs, next_id, volatile, store, arg, dst, want, key,
                   hdr, handle>>
    /\ Track

wolfPSA_CryptoCleanup(t) ==
    /\ At(t, "idle") /\ "crypto_cleanup" \in Calls /\ Locked
    /\ op' = [op EXCEPT ![t] = "crypto_cleanup"]
    /\ Goto(t, IF initialized THEN "cleanup_keys_wc" ELSE "cleanup_keys")
    /\ initialized' = FALSE
    /\ UNCHANGED <<lock, wcRefs, next_id, volatile, store, arg, dst, want, key,
                   hdr, handle>>
    /\ Track

(* Mutation: the cleanup also resets the id counter. *)
psa_key_storage_cleanup_resets_ids(t) ==
    /\ pc[t] \in {"cleanup_keys", "cleanup_keys_wc"} /\ Locked
    /\ volatile' = [i \in Ids |-> NoKey]
    /\ next_id' = VendorMin
    /\ IF At(t, "cleanup_keys_wc") THEN Goto(t, "cleanup_wc")
                                   ELSE Return(t, "SUCCESS")
    /\ UNCHANGED <<lock, initialized, wcRefs, store, op, arg, dst, want, key, hdr,
                   handle>>
    /\ Track

(* Every volatile key is freed; the id counter keeps its value. *)
psa_key_storage_cleanup(t) ==
    /\ pc[t] \in {"cleanup_keys", "cleanup_keys_wc"} /\ Locked
    /\ volatile' = [i \in Ids |-> NoKey]
    /\ IF At(t, "cleanup_keys_wc") THEN Goto(t, "cleanup_wc")
                                   ELSE Return(t, "SUCCESS")
    /\ UNCHANGED <<lock, initialized, wcRefs, next_id, store, op, arg, dst, want,
                   key, hdr, handle>>
    /\ Track

wolfCrypt_Cleanup(t) ==
    /\ At(t, "cleanup_wc")
    /\ wcRefs' = wcRefs - 1
    /\ Return(t, "SUCCESS")
    /\ UNCHANGED <<lock, initialized, next_id, volatile, store, op, arg, dst, want,
                   key, hdr, handle>>
    /\ Track

(* psa_key_storage_check_init(): the flag psa_key_storage_init() then sets   *)
(* is never read, so only the latch decides.                                *)
AfterInit(p) ==
    CASE p = "import_init"  -> "assign_id"
      [] p = "destroy_init" -> "volatile_remove"
      [] p = "attr_init"    -> "attr_volatile"
      [] p = "init"         -> "volatile_get"

psa_key_storage_check_init(t) ==
    /\ pc[t] \in {"import_init", "destroy_init", "attr_init", "init"} /\ Locked
    /\ \/ initialized /\ Goto(t, AfterInit(pc[t])) /\ UNCHANGED dst
       \/ ~initialized /\ Fail(t, "BAD_STATE")
    /\ UNCHANGED <<global, op, arg, want, key, hdr, handle>>
    /\ Track

-----------------------------------------------------------------------------
(* psa_import_key() from the choice of the id on. *)

(* The caller's id, or the next one of the vendor range; exhausted is the     *)
(* counter that a refusal leaves.                                           *)
AssignId(t, callerId, exhausted) ==
    /\ At(t, "assign_id")
    /\ \/ /\ callerId
          /\ Goto(t, "alloc")
          /\ UNCHANGED <<dst, next_id>>
       \/ /\ ~callerId
          /\ Locked
          /\ \/ /\ next_id \in VendorIds
                /\ dst' = [dst EXCEPT ![t] = next_id]
                /\ next_id' = next_id + 1
                /\ Goto(t, "alloc")
             \/ /\ next_id \notin VendorIds
                /\ Fail(t, "INSUFFICIENT_STORAGE")
                /\ next_id' = exhausted
    /\ UNCHANGED <<lock, initialized, wcRefs, volatile, store, op, arg, want, key,
                   hdr, handle>>
    /\ Track

(* Mutations: the id in a volatile key's attributes is honoured; the counter *)
(* is incremented before the range is checked.                              *)
psa_import_key_honours_id(t) == AssignId(t, dst[t] # NullId, next_id)
psa_import_key_counts_on(t) ==
    AssignId(t, op[t] \notin Volatile /\ dst[t] # NullId, next_id + 1)

psa_import_key_assign_id(t) ==
    AssignId(t, op[t] \notin Volatile /\ dst[t] # NullId, next_id)

(* The record buffer.  This error return leaves *key_id as it was assigned. *)
psa_import_key_alloc(t) ==
    /\ At(t, "alloc")
    /\ \/ Goto(t, IF op[t] \in Volatile THEN "volatile_store" ELSE "lock")
       \/ Return(t, "INSUFFICIENT_MEMORY")
    /\ UNCHANGED <<global, op, arg, dst, want, key, hdr, handle>>
    /\ Track

wolfpsa_volatile_store(t) ==
    /\ At(t, "volatile_store") /\ Locked
    /\ \/ /\ volatile[dst[t]] # NoKey
          /\ Fail(t, "ALREADY_EXISTS")
          /\ UNCHANGED volatile
       \/ /\ volatile[dst[t]] = NoKey
          /\ \/ Fail(t, "INSUFFICIENT_MEMORY") /\ UNCHANGED volatile
             \/ /\ volatile' = [volatile EXCEPT ![dst[t]] = key[t]]
                /\ Return(t, "SUCCESS")
                /\ UNCHANGED dst
    /\ UNCHANGED <<lock, initialized, wcRefs, next_id, store, op, arg, want, key,
                   hdr, handle>>
    /\ Track

(* Mutation: a build whose mutex is a no-op. *)
psa_import_key_no_lock(t) ==
    /\ At(t, "lock")
    /\ lock' = t
    /\ Goto(t, "probe")
    /\ UNCHANGED <<initialized, wcRefs, next_id, volatile, store, op, arg, dst, want,
                   key, hdr, handle>>
    /\ Track

psa_import_key_lock(t) ==
    /\ At(t, "lock") /\ lock = NoThread
    /\ lock' = t
    /\ Goto(t, "probe")
    /\ UNCHANGED <<initialized, wcRefs, next_id, volatile, store, op, arg, dst, want,
                   key, hdr, handle>>
    /\ Track

(* The existence probe; its error paths unlock. *)
Probe(t, present, release) ==
    /\ At(t, "probe")
    /\ \/ present /\ Fail(t, "ALREADY_EXISTS") /\ lock' = release
       \/ \E st \in OpenFailures : Fail(t, st) /\ lock' = release
       \/ ~present /\ Goto(t, "open_write") /\ UNCHANGED <<lock, dst>>
    /\ UNCHANGED <<initialized, wcRefs, next_id, volatile, store, op, arg, want, key,
                   hdr, handle>>
    /\ Track

(* Mutations: no existence probe; an error path without WOLFPSA_UNLOCK(). *)
psa_import_key_no_probe(t) == Probe(t, FALSE, NoThread)
psa_import_key_probe_keeps_lock(t) == Probe(t, store[dst[t]] # NoKey, lock)

psa_import_key_probe(t) == Probe(t, store[dst[t]] # NoKey, NoThread)

(* From here to the unlock, status holds the store's answer so far. *)
psa_import_key_open_write(t) ==
    /\ At(t, "open_write")
    /\ \/ Goto(t, "write")
       \/ \E st \in OpenFailures : /\ pc' = [pc EXCEPT ![t] = "unlock"]
                                   /\ status' = [status EXCEPT ![t] = st]
    /\ UNCHANGED <<global, op, arg, dst, want, key, hdr, handle>>
    /\ Track

psa_import_key_write(t) ==
    /\ At(t, "write")
    /\ pc' = [pc EXCEPT ![t] = "close"]
    /\ \E st \in {"SUCCESS", "STORAGE_FAILURE"} :
          status' = [status EXCEPT ![t] = st]
    /\ UNCHANGED <<global, op, arg, dst, want, key, hdr, handle>>
    /\ Track

(* wolfPSA_Store_Close() commits a complete write with one rename, which may *)
(* fail; a failed write is never committed.                                 *)
psa_import_key_close(t) ==
    /\ At(t, "close")
    /\ pc' = [pc EXCEPT ![t] = "unlock"]
    /\ \/ /\ status[t] = "SUCCESS"
          /\ store' = [store EXCEPT ![dst[t]] = key[t]]
          /\ UNCHANGED status
       \/ /\ status' = [status EXCEPT ![t] = "STORAGE_FAILURE"]
          /\ UNCHANGED store
    /\ UNCHANGED <<lock, initialized, wcRefs, next_id, volatile, op, arg, dst, want,
                   key, hdr, handle>>
    /\ Track

psa_import_key_unlock(t) ==
    /\ At(t, "unlock")
    /\ lock' = NoThread
    /\ \/ status[t] = "SUCCESS" /\ Return(t, "SUCCESS") /\ UNCHANGED dst
       \/ status[t] # "SUCCESS" /\ Fail(t, status[t])
    /\ UNCHANGED <<initialized, wcRefs, next_id, volatile, store, op, arg, want, key,
                   hdr, handle>>
    /\ Track

-----------------------------------------------------------------------------
(* psa_destroy_key(): the store call is made without the mutex. *)

(* Mutation: psa_destroy_key() stops at a volatile miss. *)
wolfpsa_volatile_remove_stops(t) ==
    /\ At(t, "volatile_remove") /\ Locked
    /\ volatile' = [volatile EXCEPT ![arg[t]] = NoKey]
    /\ Return(t, "SUCCESS")
    /\ UNCHANGED <<lock, initialized, wcRefs, next_id, store, op, arg, dst, want,
                   key, hdr, handle>>
    /\ Track

wolfpsa_volatile_remove(t) ==
    /\ At(t, "volatile_remove") /\ Locked
    /\ \/ /\ volatile[arg[t]] # NoKey
          /\ volatile' = [volatile EXCEPT ![arg[t]] = NoKey]
          /\ Return(t, "SUCCESS")
       \/ /\ volatile[arg[t]] = NoKey
          /\ Goto(t, "store_remove")
          /\ UNCHANGED volatile
    /\ UNCHANGED <<lock, initialized, wcRefs, next_id, store, op, arg, dst, want,
                   key, hdr, handle>>
    /\ Track

(* Mutation: a record that is not there counts as destroyed. *)
psa_destroy_key_remove_any(t) ==
    /\ At(t, "store_remove")
    /\ \/ store' = [store EXCEPT ![arg[t]] = NoKey] /\ Return(t, "SUCCESS")
       \/ Return(t, "STORAGE_FAILURE") /\ UNCHANGED store
    /\ UNCHANGED <<lock, initialized, wcRefs, next_id, volatile, op, arg, dst, want,
                   key, hdr, handle>>
    /\ Track

psa_destroy_key_remove(t) ==
    /\ At(t, "store_remove")
    /\ \/ /\ store[arg[t]] # NoKey
          /\ store' = [store EXCEPT ![arg[t]] = NoKey]
          /\ Return(t, "SUCCESS")
       \/ /\ store[arg[t]] = NoKey
          /\ Return(t, "INVALID_HANDLE") /\ UNCHANGED store
       \/ Return(t, "STORAGE_FAILURE") /\ UNCHANGED store
    /\ UNCHANGED <<lock, initialized, wcRefs, next_id, volatile, op, arg, dst, want,
                   key, hdr, handle>>
    /\ Track

-----------------------------------------------------------------------------
(***************************************************************************)
(* The readers: psa_export_key(), wolfpsa_get_key_data() (every crypto      *)
(* operation), psa_export_public_key(), psa_copy_key(),                     *)
(* psa_get_key_attributes() (psa_check_key_usage(), psa_purge_key()).       *)
(* k is the key copied out of the list, or the record behind the handle.    *)
(***************************************************************************)

psa_export_key_deliver(t, k) ==
    /\ op[t] = "export"
    /\ \/ "EXPORT" \notin k.usage /\ Answer(t, "NOT_PERMITTED")
       \/ "EXPORT" \in k.usage /\ \E st \in {"SUCCESS", "BUFFER_TOO_SMALL"} :
                                      Answer(t, st)
    /\ UNCHANGED key

wolfpsa_get_key_data_deliver(t) ==
    op[t] = "get_key_data" /\ Answer(t, "SUCCESS") /\ UNCHANGED key

(* The attributes decide how the data is decoded: attr and k are read at     *)
(* different times for a persistent key.                                    *)
psa_export_public_key_deliver(t, attr) ==
    /\ op[t] = "export_public"
    /\ \/ attr.data \notin Asymmetric /\ Answer(t, "INVALID_ARGUMENT")
       \/ attr.data \in Asymmetric /\ 
             \E st \in {"SUCCESS", "BUFFER_TOO_SMALL", "GENERIC_ERROR"} :
                Answer(t, st)
    /\ UNCHANGED key

(* A copy keeps the lifetime and can only lose usage flags.  Type, size and  *)
(* algorithm may not match (INVALID_ARGUMENT).                              *)
psa_copy_key_deliver(t, k, lifetime) ==
    /\ op[t] \in Copies
    /\ \/ "COPY" \notin k.usage /\ Fail(t, "NOT_PERMITTED") /\ UNCHANGED key
       \/ "COPY" \in k.usage /\ Fail(t, "INVALID_ARGUMENT") /\ UNCHANGED key
       \/ /\ "COPY" \in k.usage /\ op[t] = lifetime
          /\ key' = [key EXCEPT ![t] = [usage |-> k.usage \intersect want[t],
                                        data |-> k.data]]
          /\ Goto(t, "import_init")
          /\ UNCHANGED dst

wolfpsa_volatile_get(t) ==
    /\ At(t, "volatile_get") /\ Locked
    /\ \/ LET k == volatile[arg[t]] IN
          /\ k # NoKey
          /\ handle' = [handle EXCEPT ![t] = k]
          /\ hdr' = [hdr EXCEPT ![t] = k]
          /\ \/ psa_export_key_deliver(t, k)
             \/ wolfpsa_get_key_data_deliver(t)
             \/ psa_export_public_key_deliver(t, k)
             \/ psa_copy_key_deliver(t, k, "copy_volatile")
             \/ Fail(t, "INSUFFICIENT_MEMORY") /\ UNCHANGED key
       \/ /\ volatile[arg[t]] = NoKey
          /\ Goto(t, IF op[t] = "export_public" THEN "attr_init" ELSE "open")
          /\ UNCHANGED <<dst, key, hdr, handle>>
    /\ UNCHANGED <<global, op, arg, want>>
    /\ Track

wolfPSA_Store_Open(t) ==
    /\ At(t, "open")
    /\ \/ /\ store[arg[t]] # NoKey
          /\ handle' = [handle EXCEPT ![t] = store[arg[t]]]
          /\ Goto(t, "read") /\ UNCHANGED dst
       \/ /\ store[arg[t]] = NoKey
          /\ Fail(t, "INVALID_HANDLE") /\ UNCHANGED handle
       \/ \E st \in OpenFailures : Fail(t, st) /\ UNCHANGED handle
    /\ UNCHANGED <<global, op, arg, want, key, hdr>>
    /\ Track

(* The rest of the call: header and authorization from k, then the data. *)
ReadThrough(t, k, data) ==
    /\ At(t, "read")
    /\ handle' = [handle EXCEPT ![t] = data]
    /\ \/ psa_export_key_deliver(t, k)
       \/ wolfpsa_get_key_data_deliver(t)
       \/ psa_export_public_key_deliver(t, hdr[t])
       \/ psa_copy_key_deliver(t, [k EXCEPT !.data = data.data], "copy_persistent")
       \/ \E st \in {"INSUFFICIENT_MEMORY", "STORAGE_FAILURE"} :
             Fail(t, st) /\ UNCHANGED key
    /\ UNCHANGED <<global, op, arg, want, hdr>>
    /\ Track

(* Mutation: the data is read from a record opened again by name. *)
wolfPSA_Store_Read_reopened(t) ==
    /\ At(t, "read") /\ store[arg[t]] # NoKey
    /\ ReadThrough(t, handle[t], store[arg[t]])

(* Both are read through one handle, whatever has happened to the record's   *)
(* name since.                                                              *)
wolfPSA_Store_Read(t) == ReadThrough(t, handle[t], handle[t])

(* psa_get_key_attributes(), called by the API or by psa_export_public_key() *)
(* which goes on to open the record a second time.                          *)
HaveAttributes(t, k) ==
    /\ hdr' = [hdr EXCEPT ![t] = k]
    /\ \/ op[t] = "attributes" /\ Return(t, "SUCCESS")
       \/ /\ op[t] = "export_public"
          /\ \/ k.data \in Asymmetric /\ Goto(t, "open")
             \/ k.data \notin Asymmetric /\ Return(t, "INVALID_ARGUMENT")

wolfpsa_volatile_get_attributes(t) ==
    /\ At(t, "attr_volatile") /\ Locked
    /\ \/ volatile[arg[t]] # NoKey /\ HaveAttributes(t, volatile[arg[t]])
       \/ volatile[arg[t]] = NoKey /\ Goto(t, "attr_open") /\ UNCHANGED hdr
    /\ UNCHANGED <<global, op, arg, dst, want, key, handle>>
    /\ Track

psa_get_key_attributes_read(t) ==
    /\ At(t, "attr_open")
    /\ \/ store[arg[t]] # NoKey /\ HaveAttributes(t, store[arg[t]])
       \/ /\ store[arg[t]] = NoKey
          /\ Return(t, "INVALID_HANDLE") /\ UNCHANGED hdr
       \/ \E st \in OpenFailures : Return(t, st) /\ UNCHANGED hdr
    /\ UNCHANGED <<global, op, arg, dst, want, key, handle>>
    /\ Track

-----------------------------------------------------------------------------
(* The process dies and starts again: only the records survive. *)
Restart ==
    /\ "restart" \in Calls
    /\ lock' = NoThread
    /\ initialized' = FALSE
    /\ wcRefs' = 0
    /\ next_id' = VendorMin
    /\ volatile' = [i \in Ids |-> NoKey]
    /\ pc' = [t \in Threads |-> "idle"]
    /\ op' = [t \in Threads |-> "none"]
    /\ arg' = [t \in Threads |-> NullId]
    /\ dst' = [t \in Threads |-> NullId]
    /\ want' = [t \in Threads |-> {}]
    /\ key' = [t \in Threads |-> NoKey]
    /\ hdr' = [t \in Threads |-> NoKey]
    /\ handle' = [t \in Threads |-> NoKey]
    /\ status' = [t \in Threads |-> "SUCCESS"]
    /\ UNCHANGED store
    /\ Track

ImportStep(t) ==
    \/ psa_import_key_assign_id(t) \/ psa_import_key_alloc(t)
    \/ wolfpsa_volatile_store(t)
    \/ psa_import_key_lock(t) \/ psa_import_key_probe(t)
    \/ psa_import_key_open_write(t) \/ psa_import_key_write(t)
    \/ psa_import_key_close(t) \/ psa_import_key_unlock(t)

ReadStep(t) ==
    \/ wolfpsa_volatile_get(t) \/ wolfPSA_Store_Open(t) \/ wolfPSA_Store_Read(t)
    \/ wolfpsa_volatile_get_attributes(t) \/ psa_get_key_attributes_read(t)

DestroyStep(t) == wolfpsa_volatile_remove(t) \/ psa_destroy_key_remove(t)

CleanupStep(t) == psa_key_storage_cleanup(t) \/ wolfCrypt_Cleanup(t)

(* The steps of a call under way. *)
Step(t) ==
    \/ psa_key_storage_check_init(t)
    \/ ImportStep(t) \/ ReadStep(t) \/ DestroyStep(t) \/ CleanupStep(t)

Call(t) ==
    \/ BeginImport(t) \/ BeginRead(t) \/ BeginCopy(t) \/ BeginDestroy(t)
    \/ psa_crypto_init(t) \/ wolfPSA_CryptoCleanup(t)

Next ==
    \/ \E t \in Threads : Call(t) \/ Step(t) \/ TakeAnswer(t)
    \/ Restart

Spec == Init /\ [][Next]_vars

(* The scheduler runs every thread: a step of a call that stays possible is  *)
(* taken.  Nothing is assumed of when a thread calls the API.               *)
FairSpec == Spec /\ \A t \in Threads : WF_vars(Step(t))

-----------------------------------------------------------------------------
(* Properties. *)

(* An import never replaces a record: the rename that commits one can only   *)
(* fill an absent id (psa_import_key holds the mutex from probe to rename,  *)
(* while psa_destroy_key removes records without it).                       *)
NoOverwrite ==
    [][\A i \in Ids : store[i] # NoKey => store'[i] \in {store[i], NoKey}]_vars

(* No sequence of imports, copies, destroys and re-imports of an id ever     *)
(* gives key material a usage flag it was not imported with, and            *)
(* psa_export_key() releases only material imported as exportable.          *)
UsageWithinGrant ==
    /\ \A i \in Ids : \A k \in {volatile[i], store[i]} :
          k # NoKey => k.usage \subseteq Granted[k.data]
    /\ \A t \in Threads :
          At(t, "return") /\ op[t] = "export" /\ status[t] = "SUCCESS" =>
              "EXPORT" \in Granted[handle[t].data]

(* A volatile key never hides a persistent record: what the comment in       *)
(* psa_import_key() says of auto-assigned ids.                              *)
NoShadow == \A i \in Ids : volatile[i] = NoKey \/ store[i] = NoKey

(* Every answer is one an atomic key map could have given at some moment of  *)
(* the call: the key found, its absence, its presence, its policy.          *)
Justified(t) ==
    LET s == status[t] IN
    /\ s = "INVALID_HANDLE" => NoKey \in seen[t]
    /\ s \in {"ALREADY_EXISTS", "NOT_PERMITTED"} => seen[t] # {NoKey}
    /\ s = "SUCCESS" =>
        /\ op[t] \in {"export", "get_key_data", "export_public"} =>
              handle[t] \in seen[t] \ {NoKey}
        /\ op[t] \in {"attributes", "export_public"} =>
              hdr[t] \in seen[t] \ {NoKey}
        /\ op[t] \in Imports \union Copies =>
              key[t] \in seen[t] /\ dst[t] # NullId
        /\ op[t] = "destroy" => NoKey \in seen[t] /\ seen[t] # {NoKey}

AnswerJustified == \A t \in Threads : At(t, "return") => Justified(t)

(* psa_export_public_key() reads attributes and data through two handles.    *)
(* It mixes two keys only if the id was destroyed in between.               *)
PublicExportConsistent ==
    \A t \in Threads :
        At(t, "return") /\ op[t] = "export_public" /\ status[t] = "SUCCESS" =>
            hdr[t] = handle[t] \/ NoKey \in seen[t]

(* An id of this process that no longer denotes a volatile key never denotes *)
(* one again, not even after a cleanup and a new psa_crypto_init(): a stale *)
(* handle stays dead until the process restarts.                            *)
Spent(i) ==
    /\ i < next_id /\ volatile[i] = NoKey
    /\ \A t \in Threads : dst[t] = i => pc[t] \notin {"alloc", "volatile_store"}

SpentIdStaysSpent ==
    [][Restart \/ \A i \in VendorIds : Spent(i) => Spent(i)']_vars

(* Each wolfCrypt_Init() is undone once: whatever cleanups race with a new   *)
(* psa_crypto_init(), an initialized library has wolfCrypt running.         *)
WolfCryptBalanced ==
    wcRefs = (IF initialized THEN 1 ELSE 0)
             + Cardinality({t \in Threads :
                               pc[t] \in {"cleanup_keys_wc", "cleanup_wc"}})

(* The mutex is always given back, on every path of psa_import_key().       *)
LockReleased == lock # NoThread ~> lock = NoThread

(* What psa_reset_outputs_test.c says: a failed call clears its key id.      *)
FailedCallClearsId ==
    \A t \in Threads :
        At(t, "return") /\ status[t] # "SUCCESS" => dst[t] = NullId

(* Every answer a call gives was true at some moment of the call, for the two *)
(* handles of psa_export_public_key() together as well.                     *)
AnswersTrue == AnswerJustified /\ PublicExportConsistent

(* The same, and the balance of wolfCrypt, when wolfPSA_CryptoCleanup() and a *)
(* new psa_crypto_init() run between the steps of other calls.              *)
CleanupSafe == AnswerJustified /\ WolfCryptBalanced
=============================================================================
