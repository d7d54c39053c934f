------------------------------ MODULE CipherOp ------------------------------
(***************************************************************************)
(* The unauthenticated ciphers of src/src/psa_cipher.c: one multi-part      *)
(* psa_cipher_operation_t, its calls in any order, its input cut anywhere,  *)
(* and the one-shot functions built from the same calls.                    *)
(*                                                                         *)
(* Each call is an operator that gives the set of its possible results     *)
(* [st, c, bytes]: the status, the context it leaves and what it wrote.     *)
(* The block cipher is symbolic: an encrypted byte remembers the IV and the *)
(* place in the stream it was encrypted with, and only these decrypt it.    *)
(* Plaintext bytes are the numbers 1, 2, 3...; a padding byte p is -p.      *)
(***************************************************************************)
EXTENDS Integers, Sequences, SequencesExt

CONSTANTS
    Algs,       \* the algorithms used
    Keys,       \* the policies of the keys: [usage, alg]
    BS,         \* block size, and length of an IV
    Ivs,        \* initialisation vectors
    Lens,       \* lengths of the inputs of one call
    Rooms,      \* sizes of the output buffers
    MaxLen,     \* bound: length of a message
    NoCtx,      \* operation->opaque == NULL
    NoIv,       \* no IV has been set
    Garbage     \* what a wrong IV or place decrypts to

StreamAlgs == {"CTR", "CFB", "OFB", "STREAM_CIPHER", "CCM_STAR_NO_TAG"}
BlockAlgs == {"CBC_NO_PADDING", "CBC_PKCS7", "ECB_NO_PADDING"}

(* Ciphertext bytes, and the contexts. *)
Coded == [k : [iv : Ivs \union {NoIv}, at : Nat], b : Int]
Contexts ==
    [alg : Algs, enc : BOOLEAN, iv : Ivs \union {NoIv}, iv_set : BOOLEAN,
     iv_attempted : BOOLEAN, partial : Seq(Int) \union Seq(Coded), done : Nat]

(* What the module takes for granted of its constants. *)
ConstantsOK ==
    /\ Algs \subseteq StreamAlgs \union BlockAlgs
    /\ Keys \subseteq [usage : SUBSET {"ENCRYPT", "DECRYPT"}, alg : Algs]
    /\ BS \in Nat \ {0} /\ MaxLen \in Nat
    /\ Lens \subseteq Nat /\ Rooms \subseteq Nat /\ 0 \in Rooms
    /\ NoIv \notin Ivs /\ NoCtx \notin Contexts /\ Garbage \notin Int

VARIABLES
    ctx,     \* wolfpsa_cipher_ctx_t, or NoCtx
    call,    \* the last call: its status, its output buffer, what it wrote
    input,   \* history: the bytes given to the operation since setup
    out,     \* history: the bytes it has released since setup
    wire,    \* history: the last complete ciphertext made
    plain    \* history: the last complete decryption of wire

vars == <<ctx, call, input, out, wire, plain>>

NoWire == [alg |-> "", iv |-> NoIv, bytes |-> <<>>, n |-> 0]
NoPlain == <<Garbage>>

wolfpsa_cipher_iv_length(alg) == IF alg = "ECB_NO_PADDING" THEN 0 ELSE BS

NewCtx(alg, enc) ==
    [alg |-> alg, enc |-> enc, iv |-> NoIv, iv_set |-> FALSE,
     iv_attempted |-> FALSE, partial |-> <<>>, done |-> 0]

Result(st, c, bytes) == [st |-> st, c |-> c, bytes |-> bytes]

(* wolfpsa_cipher_fail(): an error ends the operation. *)
wolfpsa_cipher_fail(st) == Result(st, NoCtx, <<>>)

-----------------------------------------------------------------------------
(* Setup. *)

(* The key may also be missing, of another type or of a wrong size. *)
wolfpsa_cipher_check_key(key, usage, alg) ==
    {"INVALID_HANDLE", "NOT_SUPPORTED", "INVALID_ARGUMENT",
     IF usage \in key.usage /\ alg = key.alg THEN "SUCCESS" ELSE "NOT_PERMITTED"}

(* A setup that fails leaves the operation as it was; so does one on an      *)
(* operation that is active.                                                *)
SetUp(c, verdicts, new) ==
    IF c # NoCtx THEN {Result("BAD_STATE", c, <<>>)}
    ELSE {IF v = "SUCCESS" THEN Result(v, new, <<>>) ELSE Result(v, NoCtx, <<>>) :
              v \in verdicts \union {"INSUFFICIENT_MEMORY"}}

psa_cipher_encrypt_setup(c, key, alg) ==
    SetUp(c, wolfpsa_cipher_check_key(key, "ENCRYPT", alg), NewCtx(alg, TRUE))

psa_cipher_decrypt_setup(c, key, alg) ==
    SetUp(c, wolfpsa_cipher_check_key(key, "DECRYPT", alg), NewCtx(alg, FALSE))

-----------------------------------------------------------------------------
(* wolfCrypt: the bytes s through the cipher of c. *)

Crypt(c, s) ==
    LET at(i) == IF c.alg = "ECB_NO_PADDING" THEN 0 ELSE c.done + i
        key(i) == [iv |-> c.iv, at |-> at(i)]
    IN  [i \in 1 .. Len(s) |->
            IF c.enc THEN [k |-> key(i), b |-> s[i]]
            ELSE IF s[i].k = key(i) THEN s[i].b ELSE Garbage]

-----------------------------------------------------------------------------
(* The IV. *)

SetIv(c, iv, lenOk, again) ==
    IF c.iv_attempted /\ ~again THEN {wolfpsa_cipher_fail("BAD_STATE")}
    ELSE IF wolfpsa_cipher_iv_length(c.alg) = 0 THEN {wolfpsa_cipher_fail("BAD_STATE")}
    ELSE IF ~lenOk THEN {wolfpsa_cipher_fail("INVALID_ARGUMENT")}
    ELSE {Result("SUCCESS", [c EXCEPT !.iv = iv, !.iv_set = TRUE,
                                      !.iv_attempted = TRUE], <<>>),
          wolfpsa_cipher_fail("GENERIC_ERROR")}

(* Mutation: a second IV replaces the first. *)
wolfpsa_cipher_set_iv_again(c, iv, lenOk) == SetIv(c, iv, lenOk, TRUE)

wolfpsa_cipher_set_iv(c, iv, lenOk) == SetIv(c, iv, lenOk, FALSE)

wolfpsa_cipher_generate_iv(c, iv, size) ==
    IF \/ c.iv_attempted \/ ~c.enc
       \/ wolfpsa_cipher_iv_length(c.alg) = 0 THEN {wolfpsa_cipher_fail("BAD_STATE")}
    ELSE IF size < wolfpsa_cipher_iv_length(c.alg)
         THEN {wolfpsa_cipher_fail("BUFFER_TOO_SMALL")}
    ELSE wolfpsa_cipher_set_iv(c, iv, TRUE)
         \union {wolfpsa_cipher_fail("INSUFFICIENT_ENTROPY")}

-----------------------------------------------------------------------------
(* psa_cipher_update(). *)

(* Mutations: the retained bytes are not counted; PKCS#7 decryption keeps no  *)
(* block back.                                                              *)
process_len_input(c, n) ==
    IF c.alg \in StreamAlgs THEN n ELSE (n \div BS) * BS
process_len_all(c, n) ==
    IF c.alg \in StreamAlgs THEN n ELSE ((Len(c.partial) + n) \div BS) * BS

(* How much of the retained and the new bytes is processed now.  PKCS#7       *)
(* decryption keeps the last block back: it may be the padding.             *)
process_len(c, n) ==
    LET total == Len(c.partial) + n IN
    IF c.alg \in StreamAlgs THEN n
    ELSE IF c.alg = "CBC_PKCS7" /\ ~c.enc THEN ((total - 1) \div BS) * BS
    ELSE (total \div BS) * BS

(* Mutation: the tail of an input that completes a block is dropped. *)
Retained_only_short(c, all, done) ==
    IF done > 0 THEN <<>> ELSE SubSeq(all, done + 1, Len(all))

Retained(c, all, done) == SubSeq(all, done + 1, Len(all))

psa_cipher_update(c, data, room, overlap) ==
    LET n    == Len(data)
        all  == c.partial \o data
        done == process_len(c, n)
        crypted == Crypt(c, SubSeq(all, 1, done))
    IN  IF overlap /\ n > 0 /\ room > 0 /\ c.alg \in BlockAlgs
        THEN {wolfpsa_cipher_fail("NOT_SUPPORTED")}
        ELSE IF n = 0 THEN {Result("SUCCESS", c, <<>>)}
        ELSE IF c.alg # "ECB_NO_PADDING" /\ ~c.iv_set
             THEN {wolfpsa_cipher_fail("BAD_STATE")}
        ELSE IF room < done THEN {wolfpsa_cipher_fail("BUFFER_TOO_SMALL")}
        ELSE {Result("SUCCESS", [c EXCEPT !.partial = Retained(c, all, done),
                                          !.done = @ + done], crypted)}
             \union {wolfpsa_cipher_fail("GENERIC_ERROR") : i \in {done} \ {0}}

-----------------------------------------------------------------------------
(* psa_cipher_finish(). *)

(* Mutation: a message of whole blocks gets no padding. *)
pad_len_mod(c) == (BS - Len(c.partial)) % BS

pad_len(c) == BS - Len(c.partial)

(* Mutation: the size of the output buffer is not looked at. *)
FinishFits_always(n, room) == TRUE

FinishFits(n, room) == room >= n

EncryptPadding(c, room) ==
    LET block == c.partial \o [i \in 1 .. pad_len(c) |-> -pad_len(c)] IN
    IF Len(c.partial) >= BS THEN {wolfpsa_cipher_fail("BAD_STATE")}
    ELSE IF ~FinishFits(BS, room) THEN {wolfpsa_cipher_fail("BUFFER_TOO_SMALL")}
    ELSE {Result("SUCCESS", NoCtx, Crypt(c, block)),
          wolfpsa_cipher_fail("GENERIC_ERROR")}

(* The last block is decrypted, its padding checked and stripped.  A last     *)
(* byte that is not padding may look like any padding, or like none.        *)
DecryptPadding(c, room) ==
    LET block == Crypt(c, c.partial)
        pads  == IF block[BS] # Garbage /\ block[BS] < 0 THEN {-block[BS]}
                 ELSE 0 .. BS
    IN  IF Len(c.partial) # BS THEN {wolfpsa_cipher_fail("INVALID_PADDING")}
        ELSE {IF p = 0 THEN wolfpsa_cipher_fail("INVALID_PADDING")
              ELSE IF ~FinishFits(BS - p, room)
                   THEN wolfpsa_cipher_fail("BUFFER_TOO_SMALL")
              ELSE Result("SUCCESS", NoCtx, SubSeq(block, 1, BS - p)) : p \in pads}
             \union {wolfpsa_cipher_fail("GENERIC_ERROR")}

(* Without padding nothing may be left over; the operation ends in any case. *)
psa_cipher_finish(c, room) ==
    IF c.alg = "CBC_PKCS7"
    THEN IF ~c.iv_set THEN {wolfpsa_cipher_fail("BAD_STATE")}
         ELSE IF c.enc THEN EncryptPadding(c, room) ELSE DecryptPadding(c, room)
    ELSE IF c.alg \in BlockAlgs /\ c.partial # <<>>
         THEN {wolfpsa_cipher_fail("INVALID_ARGUMENT")}
    ELSE {Result("SUCCESS", NoCtx, <<>>)}

-----------------------------------------------------------------------------
(* The one-shot functions: the calls above on an operation of their own.     *)

Then(rs, F(_)) == UNION {IF r.st = "SUCCESS" THEN F(r) ELSE {r} : r \in rs}

UpdateFinish(c, data, room) ==
    LET finish(u) == {[f EXCEPT !.bytes = u.bytes \o @] :
                         f \in psa_cipher_finish(u.c, room - Len(u.bytes))}
    IN  Then(psa_cipher_update(c, data, room, FALSE), finish)

(* The IV is written in front of the ciphertext. *)
psa_cipher_encrypt(key, alg, iv, data, room) ==
    LET ivLen == wolfpsa_cipher_iv_length(alg)
        rest(r) == UpdateFinish(r.c, data, room - ivLen)
        start(s) == IF ivLen = 0 THEN UpdateFinish(s.c, data, room)
                    ELSE IF room < ivLen THEN {wolfpsa_cipher_fail("BUFFER_TOO_SMALL")}
                    ELSE Then(wolfpsa_cipher_generate_iv(s.c, iv, BS), rest)
    IN  Then(psa_cipher_encrypt_setup(NoCtx, key, alg), start)

(* The input is the IV, which may be cut short, and the ciphertext data. *)
psa_cipher_decrypt(key, alg, iv, ivWhole, data, room) ==
    LET rest(r) == UpdateFinish(r.c, data, room)
        start(s) == IF wolfpsa_cipher_iv_length(alg) = 0
                    THEN UpdateFinish(s.c, data, room)
                    ELSE IF ~ivWhole THEN {wolfpsa_cipher_fail("INVALID_ARGUMENT")}
                    ELSE Then(wolfpsa_cipher_set_iv(s.c, iv, TRUE), rest)
    IN  Then(psa_cipher_decrypt_setup(NoCtx, key, alg), start)

-----------------------------------------------------------------------------
(* The calls of a client that encrypts messages and decrypts the result.     *)

TypeOK ==
    /\ ctx # NoCtx =>
          /\ ctx.alg \in Algs /\ {ctx.enc, ctx.iv_set, ctx.iv_attempted} \subseteq BOOLEAN
          /\ ctx.iv \in Ivs \union {NoIv} /\ ctx.done \in 0 .. MaxLen + BS
          /\ Len(ctx.partial) =< BS                       \* uint8_t partial[]
    /\ call.room \in Rooms /\ call.wrote \in Nat

Init ==
    /\ ctx = NoCtx /\ input = <<>> /\ out = <<>>
    /\ call = [st |-> "SUCCESS", room |-> 0, wrote |-> 0]
    /\ wire = NoWire /\ plain = NoPlain

Message(n) == [i \in 1 .. n |-> i]

(* What the operation may be given next. *)
NextInput(n) ==
    IF ctx.enc THEN [i \in 1 .. n |-> Len(input) + i]
    ELSE SubSeq(wire.bytes, Len(input) + 1, Len(input) + n)
Available == IF ctx.enc THEN MaxLen - Len(input) ELSE Len(wire.bytes) - Len(input)

(* The history starts again with each operation. *)
Return(r, data, room) ==
    /\ ctx' = r.c
    /\ call' = [st |-> r.st, room |-> room, wrote |-> Len(r.bytes)]
    /\ input' = IF r.c = NoCtx THEN <<>> ELSE input \o data
    /\ out' = IF r.c = NoCtx THEN <<>> ELSE out \o r.bytes

Keep == UNCHANGED <<wire, plain>>

(* Without an operation every call but setup and abort fails. *)
Inactive ==
    /\ ctx = NoCtx
    /\ Return(wolfpsa_cipher_fail("BAD_STATE"), <<>>, 0) /\ Keep

(* The client decrypts only what it has encrypted. *)
Setup(key, alg, enc) ==
    /\ ctx = NoCtx
    /\ enc \/ alg = wire.alg
    /\ \E r \in IF enc THEN psa_cipher_encrypt_setup(ctx, key, alg)
               ELSE psa_cipher_decrypt_setup(ctx, key, alg) : Return(r, <<>>, 0)
    /\ Keep

(* The operation is active: the arguments make no difference. *)
SetupAgain(key) ==
    /\ ctx # NoCtx
    /\ \E r \in psa_cipher_encrypt_setup(ctx, key, key.alg) : Return(r, <<>>, 0)
    /\ Keep

SetIvCall(iv, lenOk) ==
    /\ ctx # NoCtx
    /\ \E r \in wolfpsa_cipher_set_iv(ctx, iv, lenOk) : Return(r, <<>>, 0)
    /\ Keep

GenerateIv(iv, size) ==
    /\ ctx # NoCtx
    /\ \E r \in wolfpsa_cipher_generate_iv(ctx, iv, size) : Return(r, <<>>, size)
    /\ Keep

Update(n, room, overlap) ==
    /\ ctx # NoCtx /\ n =< Available
    /\ \E r \in psa_cipher_update(ctx, NextInput(n), room, overlap) :
          Return(r, NextInput(n), room)
    /\ Keep

Finish(room) ==
    /\ ctx # NoCtx
    /\ \E r \in psa_cipher_finish(ctx, room) :
          /\ Return(r, <<>>, room)
          /\ wire' = IF r.st = "SUCCESS" /\ ctx.enc
                     THEN [alg |-> ctx.alg, iv |-> ctx.iv, bytes |-> out \o r.bytes,
                           n |-> Len(input)]
                     ELSE wire
          /\ plain' = IF /\ r.st = "SUCCESS" /\ ~ctx.enc
                         /\ ctx.iv = wire.iv /\ input = wire.bytes
                      THEN out \o r.bytes
                      ELSE IF wire' # wire THEN NoPlain ELSE plain

(* It succeeds on an operation that is not active, too. *)
Abort == Return(Result("SUCCESS", NoCtx, <<>>), <<>>, 0) /\ Keep

(* Bound: the one-shot calls, which use an operation of their own and leave   *)
(* this one alone, are made when it is not active and was aborted last.      *)
Settled == ctx = NoCtx /\ call = [st |-> "SUCCESS", room |-> 0, wrote |-> 0]

OneShotEncrypt(key, alg, iv, n, room) ==
    /\ Settled /\ UNCHANGED <<ctx, input, out>>
    /\ \E r \in psa_cipher_encrypt(key, alg, iv, Message(n), room) :
          /\ call' = [st |-> r.st, room |-> room,
                      wrote |-> IF r.st = "SUCCESS"
                                THEN wolfpsa_cipher_iv_length(alg) + Len(r.bytes)
                                ELSE 0]
          /\ wire' = IF r.st # "SUCCESS" THEN wire
                     ELSE [alg |-> alg, bytes |-> r.bytes, n |-> n,
                           iv |-> IF wolfpsa_cipher_iv_length(alg) = 0
                                  THEN NoIv ELSE iv]
          /\ plain' = IF wire' # wire THEN NoPlain ELSE plain

OneShotDecrypt(key, ivWhole, room) ==
    /\ Settled /\ wire # NoWire /\ UNCHANGED <<ctx, input, out, wire>>
    /\ \E r \in psa_cipher_decrypt(key, wire.alg, wire.iv, ivWhole, wire.bytes, room) :
          /\ call' = [st |-> r.st, room |-> room, wrote |-> Len(r.bytes)]
          /\ plain' = IF r.st = "SUCCESS" THEN r.bytes ELSE plain

Next ==
    \/ Inactive \/ Abort
    \/ \E key \in Keys, alg \in Algs, enc \in BOOLEAN : Setup(key, alg, enc)
    \/ \E key \in Keys : SetupAgain(key)
    \/ \E iv \in Ivs, lenOk \in BOOLEAN : SetIvCall(iv, lenOk)
    \/ \E iv \in Ivs, size \in Rooms : GenerateIv(iv, size)
    \/ \E n \in Lens, room \in Rooms, overlap \in BOOLEAN : Update(n, room, overlap)
    \/ \E room \in Rooms : Finish(room)
    \/ \E key \in Keys, ivWhole \in BOOLEAN, room \in Rooms :
          OneShotDecrypt(key, ivWhole, room)
    \/ \E key \in Keys, alg \in Algs, iv \in Ivs, n \in 0 .. MaxLen, room \in Rooms :
          OneShotEncrypt(key, alg, iv, n, room)

Spec == Init /\ [][Next]_vars

-----------------------------------------------------------------------------
(* Properties. *)

(* However the input is cut into calls, no byte is lost, repeated or moved:   *)
(* what was released and what is retained make up what was given.           *)
NothingLost ==
    ctx # NoCtx =>
        /\ Len(out) + Len(ctx.partial) = Len(input)
        /\ IsSuffix(ctx.partial, input)
        /\ out = Crypt([ctx EXCEPT !.done = 0], SubSeq(input, 1, Len(out)))

(* What is retained between calls: less than a block, except that PKCS#7      *)
(* decryption always holds back the block that may be the padding, so no    *)
(* padding is ever released; the stream modes retain nothing.               *)
ResidueKept ==
    ctx # NoCtx =>
        IF ctx.alg = "CBC_PKCS7" /\ ~ctx.enc
        THEN input # <<>> => Len(ctx.partial) \in 1 .. BS
        ELSE Len(ctx.partial) < (IF ctx.alg \in StreamAlgs THEN 1 ELSE BS)

(* No call writes past the output buffer it was given. *)
NoOverrun == call.wrote =< call.room

(* An operation works with one IV: once accepted it stays, and nothing is     *)
(* released before it (ECB has none).                                       *)
OneIv ==
    [][ctx # NoCtx /\ ctx' # NoCtx =>
          /\ ctx.iv # NoIv => ctx'.iv = ctx.iv
          /\ out' # <<>> => ctx'.iv # NoIv \/ ctx.alg = "ECB_NO_PADDING"]_vars

(* A complete ciphertext, made in one call or in many, decrypts to its        *)
(* message, in one call or in many.                                         *)
RoundTrip == plain # NoPlain => plain = Message(wire.n)

(* psa_cipher_update() accounts for every byte: released or retained, no more  *)
(* retained than the mode needs, no more released than there is room for.    *)
StreamKept == TypeOK /\ NothingLost /\ ResidueKept /\ NoOverrun
=============================================================================
