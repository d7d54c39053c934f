# A formal model of wolfPSA

wolfPSA implements the PSA Crypto API on top of wolfCrypt. Most of its own
logic, as opposed to wolfCrypt's arithmetic, is state: which keys exist and what
they permit, how a record reaches the disk, and what a multi-part operation has
been given so far. This directory models that logic in TLA+, checks it with TLC
on small instances and proves with TLAPS, for all instances, the safety
properties of the key store, the record stores, key derivation, hashes, MACs,
extendable output, the policies of copies and key transport.

Source paths are written as in `PROJECT.json`: `src/src/psa_aead.c` is the file
`src/psa_aead.c` of the repository. `PROJECT.json` lists the components, maps
each definition to the lines it models, and gives for each checked property a
mutation of the code that breaks it.

## 1. Inventory

### Components, their state and operations

| Component | State | Operations | Module |
|---|---|---|---|
| Key store, `psa_key_storage.c` | list of volatile keys, counter of assigned ids, init latch; persistent records through the store | import, generate, copy, destroy, export, export public, attributes, purge, internal look-up | `KeyStore` |
| Init and cleanup, `psa_crypto.c` | `g_psa_crypto_initialized`, one wolfCrypt reference | `psa_crypto_init`, `wolfPSA_CryptoCleanup` | `KeyStore` |
| Lock, `psa_lock.h` | one mutex | lock, unlock | `KeyStore` |
| Record store contract, `psa_store.h` | records, handles | open, read, write, close, remove | `RecordStore` |
| POSIX store, `psa_store_posix.c` | files, temporary files, handle context | the same | `PosixStore` |
| Zephyr store, `psa_store_zephyr.c` | ITS objects, handle context | the same | `ZephyrStore` |
| Key derivation, `psa_key_derivation.c` | inputs taken, capacity, offset, cache, error latch | setup, set capacity, inputs (bytes, integer, key, agreement), outputs (bytes, key), verifications, abort | `KeyDerivation` |
| Ciphers, `psa_cipher.c` | IV, retained bytes, place in the stream | setup, set or generate IV, update, finish, abort, one-shot | `CipherOp` |
| AEAD, `psa_aead.c` | nonce, declared lengths, buffered data, CCM stream | setup, lengths, nonce, additional data, update, finish, verify, abort, one-shot | `AeadOp` |
| MAC, `psa_mac.c` | the running MAC, its lengths, the key buffer wolfCrypt borrows | setup, update, finish, verify, abort, one-shot | `MacOp` |
| Hash, `psa_hash_engine.c` | contexts on the heap | setup, update, finish, verify, clone, abort, one-shot | `HashOp` |
| XOF, `psa_xof.c` | growing input buffer, one-block staging buffer, sponge | setup, context, update, output, abort | `XofOp` |
| Policies: `psa_copy_key()`, `psa_check_key_usage()` and the algorithm checks of each operation | none beyond the key's attributes | permit, intersect | `Policy`, `KeyPolicy` |
| Asymmetric API and back ends, `psa_asymmetric_api.c`, `psa_ecc.c`, `psa_rsa.c`, `psa_ed25519_ed448.c`, `psa_mldsa.c`, `psa_lms_xmss.c` | none of their own | sign and verify a hash or a message, with or without context; encrypt, decrypt | `Asymmetric` |
| Key wrap, KEM, agreement, `psa_key_wrap.c`, `psa_kem.c`, `psa_mlkem.c`, `psa_montgomery.c`, `psa_asymmetric_api.c` | locals kept between two visits to the key store | wrap, unwrap, encapsulate, decapsulate, (raw) key agreement | `KeyTransport` |
| Support tables of `psa_asymmetric.c`, key generation and encodings of the back ends, random, status mapping, stubs, attestation, Zephyr glue | none, or one atomic variable | straight-line wrappers | not modelled |

### How they interact

Every operation looks its key up through `wolfpsa_get_key_data()`, which copies
the key out of the volatile list or reads its record, and then keeps no link to
the key store: an operation that was set up survives the destruction of its key.
The key store calls the record store. The mutex guards the volatile list, the
counter, the latch and the check-then-write of an import. The store calls of the
readers and of `psa_destroy_key()` are made **without** it, so they interleave
with everything. Wrapping, encapsulation and agreement visit the key store more
than once in one call, and the key may be another one each time. Two threads must not use one operation object at once (PSA
forbids it), so the operations are modelled with one caller and any order of
calls.

### What is hard, and what correctness means

* **Key store.** Two imports of one id; a reader whose record is replaced under
  it; a copy made from a source that changes; a cleanup racing with calls; a
  counter that restarts while the records stay; a mutex that an early return
  keeps. Correct: a record is never overwritten, usage flags never grow, each
  answer was true at some moment of the call, the mutex comes back.
* **Record stores.** Short writes, failed flushes and renames, process death,
  replacement while reading. Correct: whole records or nothing.
* **Key derivation.** Output cut into calls, served from a cache or recomputed;
  the capacity; failures half way. Correct: one stream, all inputs in it, never
  more than the capacity, silence after a failure.
* **Ciphers and AEAD.** Chunk boundaries, buffers one byte too small, calls in
  an order no test has. Correct: the cut of the input does not matter, nothing
  leaves the buffers, a tag covers all that was accepted, and decryption accepts
  exactly what encryption made.
* **Hashes and MACs.** Clones that share nothing, contexts freed once on each
  failing path, a key that must outlive the call that copied it, truncation.
  Correct: a digest or a MAC covers all the input; verification accepts exactly it,
  a MAC at a length the request covers and the key's policy does not undercut.
* **XOF.** Output cut into any requests across a staging buffer and a direct
  squeeze, byte counts at the limit of 32 bits, an input buffer that doubles.
  Correct: one stream, all the input absorbed once, the loop ends.
* **Policies.** Wildcards of hashes and lengths, checked by each part on its own and
  intersected by copies of copies. Correct: no copy gains anything.
* **Asymmetric calls.** A signature made through one entry point is verified
  through another, under another name of the algorithm. Correct: accepted only
  if it was made with this key over these bytes and this context, and then never
  called invalid unless wolfCrypt itself failed.
* **Key transport.** A buffer sized for one key and filled from another; a key
  made but not handed over. Correct: sizes and permissions are those of the key
  that is really used; no ciphertext without its key, no id of a failed unwrapping or
  encapsulation; no copy of a key left on the heap.

`PROJECT.json` lists the hazards line by line with the property that answers
each.

## 2. Modules

### KeyStore

Threads run one API call each. A thread's `pc` names the place in the C function
it has reached. Each acquisition of the mutex and each call into the store is a
step; a guarded region without a store call is one step. `volatile`, `store`,
`next_id`, `lock`, `initialized` and `wcRefs` are the shared state, the functions
over `Threads` (`arg`, `key`, `handle`, `hdr`, `dst`, `status`...) the locals.
`seen[t]` is a history variable: what the id of the call has denoted since the
call began. Store calls fail nondeterministically, and `Restart` ends the process
between any two steps and leaves only the records. The record store appears here
as `psa_store.h` promises it: a handle serves the record it opened and a close
publishes at once. `PosixStore` shows that the file store keeps that promise.

Key material is a model value that carries its type; usage flags are the two a
store operation looks at, EXPORT and COPY.

### RecordStore, PosixStore, ZephyrStore

`RecordStore` states the contract of `psa_store.h`. `PosixStore` has directory
entries, inodes and handle contexts, with every file-system call able to fail and
`Crash` between any two calls of the store. That includes the `remove()` and
`unlink()` of a temporary file, whose results the code ignores
(`src/src/psa_store_posix.c:74`): such a file stays and joins `orphans`, with those of
processes that died. `NoStrayTemp` therefore says that the store asks for the removal
of every temporary file it gives up, not that none stays. Its property `Atomic` is the
refinement `Whole!Spec`: a record is the content of the inode its name points to.

`ZephyrStore` does not implement that contract as it stands, for two reasons the
model shows: its open is two ITS calls, and it commits in each write rather than
in close. Its properties say what it does provide. `Stores` puts the two stores
side by side; a build links one of them.

### KeyDerivation, CipherOp, AeadOp, HashOp, MacOp

Each internal C function is an operator that gives the set of its possible
results: a status, the context it leaves and the bytes it wrote. The action of an
API call picks one, so an error path is one more element of the set. Data is
symbolic. A derived byte records the inputs, L and the position it was computed
from. An encrypted byte records its plaintext byte, its IV or nonce and its
place in the stream, and decrypts only with these. A tag records what the MAC
absorbed. The CCM stream of `psa_aead.c` is wolfPSA's own code and is modelled by
its counter, key-stream offset and MAC block; the other primitives are wolfCrypt's
and are marked external.

`HashOp` has two operations and a heap of contexts: `psa_hash_abort()` frees a
block, `psa_hash_clone()` allocates one, and the one-shot calls use an operation of
their own, so that a leak or a dangling pointer is a state. `MacOp` has the key
buffers of a call beside the context: the copy `wolfpsa_get_key_data()` made and,
in a build with crypto callbacks, the copy the operation owns, whose address
wolfCrypt's HMAC keeps. A MAC is written only at a length the policy allows. In a
verification the policy is compared with the length that the request names; a request
with the at-least flag then accepts longer MACs too, even under an exact policy
(`src/src/psa_mac.c:187-190`, 555-569). `LengthPolicy` says just that.

### XofOp

One turn of the loop in `psa_xof_output()` is one step: `Drain` serves from the
staging buffer, `SqueezeDirect` writes whole blocks to the caller, `SqueezeTail`
fills the staging buffer, `SqueezeFails` aborts. A byte of output is its place in
the stream. `WORD32_MAX` and SIZE_MAX are parameters: `psa_xof_update()` adds
modulo SIZE_MAX + 1 and `wc_Shake_SqueezeBlocks()` multiplies modulo
`WORD32_MAX` + 1, so that a missing limit is a wrong stream in the model as it
would be in the code.

### Policy, KeyPolicy

`Policy` has the checks of all parts of the library as operators over one
representation of algorithms, the fields of the 32-bit identifier. The operations
use them (`MacOp`, `Asymmetric`, `KeyTransport`). `KeyPolicy` starts from any
policy and copies it again and again with any attributes. `Granted` is the
reference: what the operations really accept of a key with a given policy.

A copy of a key with the policy ECDSA(ANY_HASH), narrowed to ECDSA(SHA_256), can
be used to verify under the name DETERMINISTIC_ECDSA(SHA_256), under which the
first key would refuse: the verification checks treat both forms as one only for
a concrete hash. The signatures accepted are the same ones, so `NeverGains`
counts the two names as one for verification (`OtherForm`). `psa_check_key_usage()`
has a check of its own. Asked about an algorithm that can be carried out, it promises
nothing that the operation refuses (`UsageCheckHonest`). Asked about a wildcard it
says yes to a key with that very policy, while `wolfpsa_aead_setup()` refuses to
carry the wildcard of an AEAD out (`src/src/psa_aead.c:334`), so wildcards are left
out there. In the other direction it answers like the operations for signing and
asymmetric encryption and decryption, which the property states too (`CheckedAlike`). Elsewhere it
is stricter than they are: it compares no lengths, so for a key that permits MACs of
at least 4 bytes it denies one of 5 that `psa_mac_sign_setup()` computes, and likewise
for minimum tag lengths, for a raw ECDH policy asked with a KDF, and for the other
form of a signature to verify, although its comment says "Returns PSA_SUCCESS iff the
key exists and its policy permits using algorithm 'alg'"
(`src/src/psa_key_storage.c:2887`). It errs on the side of refusing.

`IsIdentifier` says which combinations of fields are algorithms. It leaves out a
policy whose minimum MAC length exceeds the full length of the MAC. Such a policy
permits nothing, but `wolfpsa_tag_len_permitted()` lets the full MAC meet
it ("it satisfies every minimum", `src/src/psa_key_storage.c:2532`), which
supposes that no minimum is longer than that; so does the model.

### Asymmetric

A signature is the record of what wolfCrypt bound together: key, scheme, hash,
bytes, context. Every entry point is an operator that gives its possible results;
`sent` keeps the last signature or ciphertext, and a verifier with a key, an
algorithm, a context and data of its own judges it, or a malformed one. The library
cannot sign with LMS and XMSS, so `SignedElsewhere` makes their signatures.

Two places report a failure of wolfCrypt as an invalid signature: any failure of
`wc_ecc_rs_raw_to_sig()` (`src/src/psa_ecc.c:303`) and of the PSS padding check
(`src/src/psa_rsa.c:455`). `VerifyWith` gives these the outcome `FOLDED`, which
`psa_verify` turns into INVALID_SIGNATURE, and `SignedIsAccepted` allows a genuine
signature to be called invalid for that reason only.

### KeyTransport

One thread runs the calls, a step for each visit to the key store, and another
thread replaces the key under any id in between. The store is the map it promises
to be. The properties compare what was sized or permitted at one visit with what
is used at the next. The import inside these calls inherits from `psa_import_key()`
that a failed allocation leaves the id set (`keystore_outputs`); unwrapping,
encapsulation and decapsulation clear it themselves, `psa_key_agreement()` does not,
and `AllOrNothing` leaves it out. `bufs` holds every copy of a key that a call has on
the heap: the wrapping key, the plaintext of a wrapped key, the `key_data` of an ML-KEM
key or of the private key of an agreement, and the agreed secret. The frees of each
path are operators (`WrapFreed`, `UnwrapFreed`, `KemFreed`, `AgreementFreed`).

### Operations

`Operations` puts the operations of the API side by side (`XofOp`, `HashOp`,
`MacOp`, `CipherOp`, `KeyPolicy`, `Asymmetric`, `KeyTransport`). They share no
state, so a behaviour runs one of them. It names their properties, which makes
them properties of one specification, `OpsSpec`.

## 3. Runs

| Run | Question | Bounds, and why they are enough |
|---|---|---|
| `keystore_persistent` | persistent keys, copies, failures and restarts: `NoOverwrite`, `UsageWithinGrant`, `AnswersTrue` | 2 threads, one id, 2 materials with different flags: every pair of calls on one id races |
| `keystore_both` | volatile keys beside records, restarts: `NoShadow`; `LockReleased` under fairness | one id of each kind |
| `keystore_volatile` | counter, exhaustion, cleanup: `TypeOK`, `CleanupSafe`, `SpentIdStaysSpent` | 2 vendor ids, so that the range runs out |
| `stores` | POSIX: `Atomic` (refinement), `CloseTellsTheTruth`, `StoreInv`; Zephyr: `ReaderInv`, `StreamedWrites` | 2 handles on one record; POSIX: 3 inodes, 2 writes of 2 chunks: a reader of the old record, a writer of the new and an orphan exist at once; Zephyr: objects up to 3 pieces, so that a replacement is shorter, equal and longer |
| `kdf` | `OneStream`, `InputsMatter`, `WithinCapacity`, `KeysFromKeys`, `SilentAfterFailure` | all algorithm families; SIZE_MAX 7, cache 4, hash 2: each limit lies inside the lengths used |
| `aead` | `TagCoversAll`, `DecryptsExactly`, `LengthsKept`, `DeclaredLengths` | block of 2, messages up to 3, additional data up to 2; Word32 = 2 scales UINT32_MAX below the longest message and `CcmLimit` separates the nonces |
| `operations` | the operations of the next table, each from its own initial state | see there |

`stores` and `operations` check `StoresSpec` and `OpsSpec`, which hold several
components that share no state: a behaviour picks one (`linked`, `api`) and leaves
the others alone.

| Part of `operations` | Properties | Bounds, and why they are enough |
|---|---|---|
| XOF | `TypeOK`, `OneStream`, `AbsorbedOnce`, `InputFits`, `OutputReturns` | rates 3 and 2, `WORD32_MAX` 7, SIZE_MAX 7 (a 32-bit size_t) or 15, 12 bytes of output: a request exceeds one squeeze call, a block, the staging buffer |
| Hash | `AnswersExact`, `HeapBalanced` | 2 operations, 3 blocks of heap, so that one allocation beyond the two contexts succeeds and the next fails; messages up to 2 |
| MAC | `MacVerdictsExact`, `MacKeyBuffersHeld` | full lengths 6 and 5, requests of 3 (too short), 4, 5 and 7 (too long), each with and without the at-least flag |
| Cipher | `CipherStreamKept`, `CipherRoundTrip`, `CipherOneIv` | block of 3, messages up to 6: one full block and a rest, or two full blocks, cut anywhere |
| Policy | `CopyNeverGains`, `UsageCheckHonest` | each family with its wildcard, a concrete member and a hashless one; chains of copies of any length, as the state is the last copy |
| Asymmetric | `SignatureVerdictsExact`, `AsymmetricOutputsRight` | each key type but LMS under two policies, so that signer and verifier differ; a message shorter and one longer than a digest; a hash wolfCrypt's tables lack |
| Transport | `FreshAtUse`, `CleanReturn` | 2 ids, 8 keys of several types, lengths and policies to replace each other; buffers too small, exact and too large |

Some of these are conjunctions of named parts, in the component's module:

| Property | Parts |
|---|---|
| `AnswersTrue` | `AnswerJustified`, `PublicExportConsistent` |
| `CleanupSafe` | `AnswerJustified`, `WolfCryptBalanced` |
| `StoreInv` | `TypeOK`, `NoStrayTemp`, `OneOwner`, `NothingLost` |
| `ReaderInv` | `TypeOK`, `Snapshots`, `OneObject` |
| `WithinCapacity` (KDF) | `TypeOK`, `CapacityKept` |
| `DecryptsExactly` (AEAD) | `Authentic`, `GenuineAccepted` |
| `LengthsKept` (AEAD) | `TypeOK`, `Accounted`, `CcmLengthFits`, `NoOverrun` |
| `AnswersExact` | `DigestOfAll`, `VerifyExact` |
| `MacVerdictsExact` | `Authentic`, `GenuineAccepted`, `LengthPolicy` |
| `CipherStreamKept` | `TypeOK`, `NothingLost`, `ResidueKept`, `NoOverrun` |
| `SignatureVerdictsExact` | `AcceptedWasSigned`, `SignedIsAccepted` |
| `AsymmetricOutputsRight` | `SignatureFits`, `DecryptsWhatWasSent` |
| `FreshAtUse` | `SizedAtUse`, `LeavesByLeave` |
| `CleanReturn` | `AllOrNothing`, `CopiesFreed` |

Each part has a mutation of the code that breaks it.

Five runs are expected to fail. Each states a sentence of the repository that the
code does not meet; the findings in `PROJECT.json` quote it.

| Run | Sentence | What TLC shows |
|---|---|---|
| `keystore_shadow` | assigned ids cannot collide with persistent ids | a persistent key imported without an id gets a vendor id; after a restart the counter gives that id to a volatile key |
| `keystore_outputs` | a failed call clears its outputs | a failed allocation in `psa_import_key()` leaves `*key_id` set |
| `kdf_usage` | KDF inputs require PSA_KEY_USAGE_DERIVE | a key with only PSA_KEY_USAGE_VERIFY_DERIVATION is accepted |
| `zephyr_snapshot` | reads take a whole-object snapshot | an object replaced by a longer one between `psa_its_get_info()` and `psa_its_get()` is served cut |
| `policy_ecdsa_any` | PSA_ALG_ECDSA_ANY is not covered by PSA_ALG_ECDSA(PSA_ALG_ANY_HASH) | the checks of signatures and of `psa_check_key_usage()` permit it; only `psa_copy_key()` treats it so |

`NoShadow` therefore holds in `keystore_both`, where persistent keys name an
id outside the vendor range, and fails in `keystore_shadow`, where they name none.

Symmetry is used over threads, handles, inodes and chunks, only in runs without
liveness. Deadlock is checked everywhere.

### Fairness

`keystore_both` assumes weak fairness of the steps of each thread that is inside a
call. It says that the scheduler runs a runnable thread, which every platform
wolfPSA supports provides. Nothing is assumed of the mutex, so no run claims that a
particular waiting thread gets it, nor that callers keep calling.

`operations` assumes weak fairness of `Turn`, the turns of the loop in
`psa_xof_output()`: the thread inside the loop goes on running. Nothing is assumed
of a failure of wolfCrypt, which may end the loop or never happen. `OutputReturns`
then says that the loop ends, which it does because each turn takes something off
the length or fills a staging buffer that the next turn empties.

## 4. Proofs

Eight modules hold theorems. Each theorem holds for every value of the constants
that meets the assumptions of its component: named ASSUMEs in `KeyStore`,
`PosixStore`, `KeyDerivation`, `XofOp` and `AeadOp`, a definition `ConstantsOK` in the
components that are instantiated by another module. TLC evaluates all of them in
the runs. They say that marker values are not members of what they mark, that sizes
are naturals, and what a record of the constants contains.

The specifications of `Stores` and `Operations` are related to their components by
one lemma each (`BuildRunsZephyr`, `ApiRunsHash`, `ApiRunsMacs`...): a step of the
whole is a step of the component or leaves it alone. The component's theorem then
holds of the whole.

### Key store (`KeyStoreProofs`)

* `TypeCorrect`: `TypeOK` is not inductive, as storing `key[t]` needs to know that a
  thread past a certain point of an import *has* a key, and a reader past its open
  a handle. `HandleInv` says so per `pc`.
* `ImportNeverOverwrites` (`NoOverwrite`). `LockInv`: a thread inside the guarded
  region of an import owns the mutex, hence there is one. `ProbeInv`: from the probe
  to the close, the id it found absent stays absent, since the only step that creates
  a record is the close of the owner; destroys, which do not take the mutex, can only
  remove.
* `UsageNeverGrows` (`UsageWithinGrant`). `GrantInv` carries the bound over keys in
  flight (in `key`, `handle`, `hdr`), where an invariant on the stored keys alone
  would be lost between the read and the import of a copy. `ExportInv`: the flags an
  export has checked are those of the key it returns. `OpInv` ties `pc` to the call.
* `VendorIdsHideNothing` (`NoShadow`), when requested ids are outside the vendor
  range and not null. `RangeInv`: volatile keys have vendor ids, records do not, and
  every pending import respects that. `keystore_shadow` shows that the premise is
  needed.
* `AnswersAreTrue` (`AnswersTrue`), under the same premise. An answer is justified by
  something the id denoted during the call, so the invariant (`StoryInv`) says for
  each `pc` what the call has already witnessed: what the id denotes now; that an id
  missed in the volatile list was free at that moment; the record a handle opened.
  `OneKey` follows the two handles of `psa_export_public_key()`: they differ only if
  the record was absent in between.
* `CleanupIsSafe` (`CleanupSafe`), for finitely many threads. `WolfCryptBalanced` counts the
  threads that still owe a `wolfCrypt_Cleanup()`, and each step changes the count and
  the references alike.
* `SpentIdsStaySpent` (`SpentIdStaysSpent`), an action property: the only step that
  gives out a vendor id takes it from the counter, which never goes back while the
  process lives.

### Record stores (`StoresProofs`)

* `StoreKept` (`StoreInv`): a temporary file without a handle is one that a dead process
  left or that the file system refused to remove (`NoStrayTemp`). Its inductive parts are `OneOwner` (a file being written
  has one handle and is neither a record nor left by a dead process) and `NothingLost`
  (that file holds what its caller wrote, unless the handle is spoiled).
* `ClosingIsTruthful` (`CloseTellsTheTruth`): the rename publishes exactly the
  caller's bytes, by `NothingLost`, and touches no other record, by `OneOwner`.
* `FileStoreIsAtomic` (`Atomic`): `PosixStore` implements `RecordStore` under the
  mapping of `Whole`. One lemma per action (`SimOpenRead` ... `SimCrash`) shows that it
  maps to an action of `RecordStore` or to no change. A write or an unlink cannot change a
  reader's view, as the file written has one owner and a file lives while it is
  open.
* `ZephyrReadsOneObject` (`ReaderInv`): `Snapshots` says that the buffer of a reader is
  a prefix of an object that was published, and that what was served is a prefix of the
  buffer. `ZephyrWritesAreStreamed` (`StreamedWrites`): a write sets the object to all that was
  accumulated, or nothing changes.

### Key derivation (`KeyDerivationProofs`)

`CapacityIsKept`, `OutputIsOneStream`, `EveryInputMatters`, `KeysComeFromKeys` and
`FailureSilences` state all five properties of the run. One invariant carries them:
the output so far is the stream of the context up to its offset; the cache, if there
is one, is a prefix of that stream, so that it does not matter whether a call is
served from it or recomputed; offset and capacity add up to what was promised, or to
less after a failure; each input accepted is one the back end reads; permission to
output a key goes back to a key given as the secret; a failed operation has its error
latched. The stream is a function of the position, not a recursion, so no
induction over data is needed.

### Hashes (`HashOpProofs`), MACs and XOF (`OperationsProofs`)

* `HashAnswersAreExact` (`AnswersExact`), `HashHeapIsBalanced` (`HeapBalanced`). The heap is
  seen through `psa_hash_get_ctx()`. Because no two operations share a block, each
  call changes only what its own operation sees (`Effect`), and what each sees is the
  input it was told. The one-shot calls leave their local operation empty on each
  path.
* `MacVerdictsAreExact` (`MacVerdictsExact`), `MacKeysAreHeld` (`MacKeyBuffersHeld`). An
  active operation has a key whose policy permits its algorithm, a context equal to
  what it was told and its key buffer allocated; any other holds nothing
  (`MacOperation`). That its policy permits the algorithm gives the allowed length
  (`MacPolicyAllows`).
* `TypeCorrect`, `OutputIsOneStream`, `InputIsAbsorbedOnce`, `InputAlwaysFits` of the
  XOF, for any rates of at most `WORD32_MAX` bytes, any `WORD32_MAX`, any SIZE_MAX not
  below it, and any requests. `OneStream` speaks of the bytes already written; that the
  next one is right depends on where the sponge and the staging buffer stand.
  `Position` says it: while the staging buffer has bytes left, it holds the last block
  squeezed and its offset is the end of the output; else the blocks squeezed are exactly
  the output. `Phases` says that an operation that has absorbed nothing has made nothing
  and that its buffer holds all the input. `SqueezeExact` and `OneCall` are the
  arithmetic: the limit on the blocks of one call keeps the product below 2^32, so
  nothing is cut off; `GrowHolds` bounds the growth of the input buffer.

### Ciphers (`CipherOpProofs`, `OperationsProofs`)

`CipherStreamsAreKept` (`CipherStreamKept`), `CipherMessagesComeBack`
(`CipherRoundTrip`) and `CiphersKeepTheirIv` (`CipherOneIv`), for any block size, any
cut of the input and any room for the output. `Working(c, in, o)` relates a context
to the input `in` it was given and the output `o` it has released:

* each byte of `o` is the encryption or decryption of the byte of `in` at its place;
* `partial` is exactly the rest of `in`, and what was processed is a whole number of
  blocks in a block mode;
* `Residue` bounds `partial`: empty in a stream mode, less than a block otherwise, but
  1 to BS bytes in the decryption of CBC_PKCS7, which must hold its last block back for
  the padding.

The round trip also needs to know what is on the wire (`Encrypted`): the encryption,
byte by byte, of a message with its padding. Then the bytes of the last block that a
decryption reads are the padding that the encryption wrote, or garbage.

### Authenticated encryption (`AeadOpProofs`)

`TagsCoverAll` (`TagCoversAll`), `DecryptionIsExact` (`DecryptsExactly`), `LengthsAreKept`
(`LengthsKept`) and `DeclaredLengthsAreMet` (`DeclaredLengths`), for any block size above
one byte, any bounds and any keys, nonces, tag lengths and buffers.

* What the CCM loop computes for any input is an induction over the bytes of a call.
  The library's induction theorems take an operator as a parameter, which the provers
  cannot instantiate; `WFMin` of `WellFoundedInduction` takes none, and `SetInduction`
  is derived from it: a set that holds 0 and the successor of each of its members holds
  every natural.
* Texts are tables (`Tab`) of functions on the naturals, so that a piece of a message
  is a piece of one function however it was cut. `CcmAt` gives counter, key-stream offset
  and MAC block of the CCM stream after f bytes. `LoopRun` shows that a call with n bytes
  takes it from f to f + n, and `FinishBlocks` that the last, padded block completes
  the MAC of the whole text.
* `CtxOK` says what a context holds after g bytes of additional data and f bytes of
  input, with one lemma per call. `MacShape` and `TagTells` show that a tag determines
  the nonce, the additional data and the length it was made from.
* The inductive invariant adds what is on the wire (`WireOK`), that what was opened is
  what was sealed (`Authentic`), and that the operation in progress is one the calls so
  far lead to (`CallOK`, `ActiveOK`).

`CcmLoop` is a recursive function in `AeadOp`, which the provers can unfold.

### Asymmetric calls (`OperationsProofs`)

`SignatureVerdictsAreExact` (`SignatureVerdictsExact`) and `AsymmetricOutputsAreRight`
(`AsymmetricOutputsRight`), for any keys, policies and messages. `AsymSchemeOK` lists
the scheme and the hash each key type signs an algorithm with. `AsymBinds` says that a
signature binds these, its key, data and context, and `AsymJudges` that a verifier
accepts only such a signature and calls it invalid only through a folded failure, which
ECC and RSA keys alone have; both hold of each entry point. The inductive
part is that what was sent was made that way (`AsymSignatureBinds`,
`AsymCiphertextBinds`).

The first attempt failed, because the model let an RSA PKCS#1 v1.5 ciphertext bind a
hash and a label, which only OAEP has. `Ciphertext` and `SamePadding` follow the code
now.

### Policies of copies (`OperationsProofs`) and key transport (`KeyTransportProofs`)

* `CopiesGainNothing` (`CopyNeverGains`), `UsageChecksAreHonest` (`UsageCheckHonest`), for any
  set of algorithms and chains of copies of any length. `NeverGains` is not inductive:
  it compares over the algorithms of the instance, and permission through the other
  form of an ECDSA algorithm does not compose that way. `Narrower` compares over
  *all* identifiers and is transitive, because `OtherForm` is its own inverse. The
  lemmas about `wolfpsa_alg_intersect()` show case by case that the intersection of
  two algorithms is covered by both (`PolicyCovers`). `UsageChecksAreHonest` leaves the
  wildcards out, as `UsageCheckHonest` does.
* `TransportUsesWhatItChecked` (`FreshAtUse`), `TransportReturnsClean` (`CleanReturn`),
  whatever keys the other thread puts under the ids. `Shape` says which buffers a
  call holds between two visits to the key store and what it has checked there; each
  path that ends a call frees at least those and the ones it took itself.

Each proof has one step per action. The inductive parts were checked with TLC
before they were proved.

### Only model-checked

* `LockReleased` and `OutputReturns`: liveness under fairness is out of the prover's
  reach.

Every other property of a passing run is stated by a theorem.

## 5. Limits

* `psa_generate_key()` is an import of fresh material and is not modelled apart.
  The length checks by key type and the serialisation of attributes are left out.
* NULL arguments, and sizes above INT_MAX that no caller can pass to the small
  instance, are not modelled.
* The file system of `PosixStore` keeps its order: power loss, which could lose a
  renamed file since the code calls no fsync, is out of scope. So are the Windows
  branches and the environment variables.
* The mutex is assumed to exist: the code asks its caller to run
  `psa_crypto_init()` before any concurrent use.
* Cryptographic strength, zeroisation of memory and timing are not state a
  model of this kind shows.
* In `CipherOp` counters do not wrap.
* In `Asymmetric` the bytes of keys and signatures are symbols: encodings, key
  generation and the tables of sizes a build supports are left out. A signature of
  a stateful scheme is made outside the library.
* `KeyTransport` has one caller beside the thread that replaces keys: two such
  calls share nothing but the store.
* Not modelled: `psa_chacha20_poly1305.c` (two stateless functions), random numbers
  (a generator per call), the status tables, the TF-PSA helpers, calls that
  only return PSA_ERROR_NOT_SUPPORTED, attestation and the Zephyr boot hook. They
  keep no state and offer no interleaving; tests reach their branches.

## 6. Plan

Done: all modules of section 2, and the theorems of section 4.

The safety and action properties of the passing runs are all proved. Left is a
composition of the key store with the Zephyr store, to see which promises of
`RecordStore` the key store really needs.
