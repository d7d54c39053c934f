------------------------------- MODULE AeadOp -------------------------------
(***************************************************************************)
(* Authenticated encryption, src/src/psa_aead.c: one multi-part             *)
(* psa_aead_operation_t, its calls in any order and with any cut of the     *)
(* additional data and of the message, streamed (an output buffer is given  *)
(* to psa_aead_update()) or buffered (it is not), and the one-shot          *)
(* functions.                                                               *)
(*                                                                         *)
(* A call is an operator that gives the set of its possible results         *)
(* [st, c, bytes, tag].  Encrypted bytes remember the nonce and the place   *)
(* of their keystream byte; a tag remembers what the MAC absorbed.  The CCM *)
(* stream is wolfPSA's own and is modelled block by block; the other        *)
(* primitives are wolfCrypt's.  Additional data and plaintext are the       *)
(* numbers 1, 2, 3...                                                       *)
(***************************************************************************)
EXTENDS Integers, Sequences

CONSTANTS
    Algs,       \* the algorithms used
    Keys,       \* the policies of the keys: [usage, alg, tag, at_least]
    Nonces,
    CcmLimit,   \* the longest message CCM can encode with each nonce
    Word32,     \* the longest length a wolfCrypt call takes (UINT32_MAX, scaled)
    BS,         \* block size of the CCM stream
    TagLens,    \* tag lengths asked for
    FullTag,    \* the native tag length
    AdLens,     \* lengths of the additional data of one call
    Lens,       \* lengths of the input of one call
    Rooms,      \* sizes of the output buffers
    MaxAd,      \* bound: length of the additional data
    MaxLen,     \* bound: length of the message
    NoCtx,      \* operation->opaque == NULL
    NoNonce,    \* nonce_length == 0
    NoTag, Garbage, Nothing

StreamAlgs == {"GCM", "CCM", "CHACHA20_POLY1305"}
OneShotAlgs == {"XCHACHA20_POLY1305", "ASCON_AEAD128"}

ASSUME AlgsAssumption == Algs \subseteq StreamAlgs \union OneShotAlgs
ASSUME SizesAssumption ==
    /\ BS \in Nat \ {0, 1} /\ {Word32, MaxAd, MaxLen, FullTag} \subseteq Nat
    /\ CcmLimit \in [Nonces -> Nat] /\ TagLens \subseteq 1 .. FullTag
    /\ AdLens \subseteq Nat /\ Lens \subseteq 0 .. MaxLen /\ Rooms \subseteq Nat
ASSUME KeysAssumption == \A key \in Keys : key.alg \in Algs
ASSUME MarkersAssumption ==
    NoNonce \notin Nonces /\ Nothing \notin Algs

VARIABLES
    ctx,      \* wolfpsa_aead_ctx_t, or NoCtx
    call,     \* the last call: whether it completed the operation, and whether
              \* what it wrote fits its output buffer
    gaveAd,   \* history: bytes of additional data accepted since setup
    given,    \* history: bytes of input accepted since setup
    out,      \* history: bytes released since setup
    wire,     \* history: the last complete encryption
    opened    \* history: the last decryption whose tag was accepted

vars == <<ctx, call, gaveAd, given, out, wire, opened>>

Bytes(from, n) == [i \in 1 .. n |-> from + i]
Message(n) == Bytes(0, n)

NewCtx(alg, tag, enc) ==
    [alg |-> alg, enc |-> enc, tag_length |-> tag, nonce |-> NoNonce, aad |-> <<>>,
     input |-> <<>>, input_length |-> 0, lengths_set |-> FALSE, ad_expected |-> 0,
     plaintext_expected |-> 0, ad_started |-> FALSE, body_started |-> FALSE,
     streaming |-> FALSE,
     mac |-> <<>>, mblk |-> <<>>, ctr |-> 0, ks_off |-> 0]

Result(st, c, bytes, tag) == [st |-> st, c |-> c, bytes |-> bytes, tag |-> tag]
Done(c) == Result("SUCCESS", c, <<>>, NoTag)
Refused(st, c) == Result(st, c, <<>>, NoTag)

(* An error that ends the operation. *)
Aborted(st) == Result(st, NoCtx, <<>>, NoTag)

-----------------------------------------------------------------------------
(* What an AEAD computes. *)

(* One byte of the message at its place in the stream. *)
CryptByte(c, place, x) ==
    LET k == <<c.nonce, place>> IN
    IF c.enc THEN [k |-> k, b |-> x] ELSE IF x.k = k THEN x.b ELSE Garbage

CryptAll(c, text) == [i \in 1 .. Len(text) |-> CryptByte(c, i, text[i])]

Block(s, i) == [j \in 1 .. BS |->
                   IF (i - 1) * BS + j =< Len(s) THEN s[(i - 1) * BS + j] ELSE 0]

(* s in blocks, the last one filled with zeros. *)
InBlocks(s) == [i \in 1 .. (Len(s) + BS - 1) \div BS |-> Block(s, i)]

(* CCM: B0, then the additional data behind its length, then the plaintext;   *)
(* the others: the nonce, the additional data and the ciphertext.           *)
MacStart(c, aad, plaintext_length) ==
    IF c.alg = "CCM"
    THEN <<[nonce |-> c.nonce, len |-> plaintext_length, tag |-> c.tag_length,
            adata |-> aad # <<>>]>>
         \o (IF aad = <<>> THEN <<>> ELSE InBlocks(<<Len(aad)>> \o aad))
    ELSE <<<<c.nonce, aad>>>>

(* The tag of a whole message: text is what the MAC covers. *)
TagOf(c, aad, text) ==
    [len |-> c.tag_length,
     mac |-> MacStart(c, aad, Len(text)) \o
             (IF c.alg = "CCM" THEN InBlocks(text) ELSE text)]

Covered(c, in, result) ==
    IF c.alg = "CCM" THEN (IF c.enc THEN in ELSE result)
    ELSE (IF c.enc THEN result ELSE in)

-----------------------------------------------------------------------------
(* Setup, lengths and nonce. *)

wolfpsa_aead_alg_permitted(key, alg, tag) ==
    /\ key.alg = alg
    /\ IF key.at_least THEN tag >= key.tag ELSE tag = key.tag

(* The key may also be missing or of another type. *)
wolfpsa_aead_check_key(key, usage, alg, tag) ==
    {"INVALID_HANDLE", "INVALID_ARGUMENT",
     IF usage \in key.usage /\ wolfpsa_aead_alg_permitted(key, alg, tag)
     THEN "SUCCESS" ELSE "NOT_PERMITTED"}

(* A setup that fails, or finds the operation active, changes nothing. *)
wolfpsa_aead_setup(c, key, alg, tag, enc) ==
    IF c # NoCtx THEN {Refused("BAD_STATE", c)}
    ELSE IF alg \in OneShotAlgs THEN {Refused("NOT_SUPPORTED", c)}
    ELSE {IF v # "SUCCESS" THEN Refused(v, c)
          ELSE IF alg = "CHACHA20_POLY1305" /\ tag # FullTag
               THEN Refused("NOT_SUPPORTED", c)
          ELSE Done(NewCtx(alg, tag, enc)) :
             v \in {"INSUFFICIENT_MEMORY"} \union
                   wolfpsa_aead_check_key(key, IF enc THEN "ENCRYPT" ELSE "DECRYPT",
                                          alg, tag)}

wolfpsa_aead_lengths_missing(c) == c.alg = "CCM" /\ ~c.lengths_set

wolfpsa_aead_check_lengths(alg, nonce, ad, plaintext) ==
    IF alg = "CCM" /\ nonce # NoNonce /\ plaintext > CcmLimit[nonce]
    THEN "INVALID_ARGUMENT"
    ELSE IF ad > Word32 \/ (alg # "CCM" /\ plaintext > Word32) THEN "NOT_SUPPORTED"
    ELSE "SUCCESS"

psa_aead_set_lengths(c, ad, plaintext) ==
    LET v == wolfpsa_aead_check_lengths(c.alg, c.nonce, ad, plaintext) IN
    IF c.lengths_set \/ c.ad_started \/ c.body_started THEN {Aborted("BAD_STATE")}
    ELSE IF v # "SUCCESS" THEN {Aborted(v)}
    ELSE {Done([c EXCEPT !.ad_expected = ad, !.plaintext_expected = plaintext,
                         !.lengths_set = TRUE])}

(* Mutation: lengths that came before the nonce are not looked at again. *)
NonceFits_any(c, nonce) == "SUCCESS"

NonceFits(c, nonce) ==
    IF c.lengths_set
    THEN wolfpsa_aead_check_lengths(c.alg, nonce, c.ad_expected, c.plaintext_expected)
    ELSE "SUCCESS"

psa_aead_set_nonce(c, nonce, lenOk) ==
    IF c.nonce # NoNonce THEN {Refused("BAD_STATE", c)}
    ELSE IF ~lenOk THEN {Refused("INVALID_ARGUMENT", c)}
    ELSE IF NonceFits(c, nonce) # "SUCCESS" THEN {Refused(NonceFits(c, nonce), c)}
    ELSE {Done([c EXCEPT !.nonce = nonce])}

psa_aead_generate_nonce(c, nonce, roomy) ==
    IF ~c.enc \/ c.nonce # NoNonce THEN {Refused("BAD_STATE", c)}
    ELSE IF ~roomy THEN {Refused("BUFFER_TOO_SMALL", c)}
    ELSE {Refused("INSUFFICIENT_ENTROPY", c)} \union psa_aead_set_nonce(c, nonce, TRUE)

-----------------------------------------------------------------------------
(* Additional data. *)

wolfpsa_aead_append(c, data) == [c EXCEPT !.aad = @ \o data, !.ad_started = TRUE]

UpdateAd(c, data, late) ==
    LET total == Len(c.aad) + Len(data) IN
    IF c.body_started /\ ~late THEN {Aborted("BAD_STATE")}
    ELSE IF c.nonce = NoNonce \/ wolfpsa_aead_lengths_missing(c)
         THEN {Refused("BAD_STATE", c)}
    ELSE IF data = <<>> THEN {Done([c EXCEPT !.ad_started = TRUE])}
    ELSE IF \/ c.lengths_set /\ total > c.ad_expected
            \/ total > Word32 THEN {Aborted("INVALID_ARGUMENT")}
    ELSE {Done(wolfpsa_aead_append(c, data)), Aborted("INSUFFICIENT_MEMORY")}

(* Mutation: additional data is accepted after the message has begun. *)
psa_aead_update_ad_late(c, data) == UpdateAd(c, data, TRUE)

psa_aead_update_ad(c, data) == UpdateAd(c, data, FALSE)

-----------------------------------------------------------------------------
(* The stream. *)

(* Mutation: the additional data is not fed. *)
FedAad_none(c) == <<>>

FedAad(c) == c.aad

(* The CBC-MAC is over the plaintext. *)
pt_byte(c, in, result) == IF c.enc THEN in ELSE result

(* wolfpsa_aead_ccm_init(): B0 and the additional data through the MAC, the   *)
(* counter at 1, an empty message block.                                    *)
wolfpsa_aead_ccm_init(c) ==
    [c EXCEPT !.mac = MacStart(c, FedAad(c), c.plaintext_expected),
              !.mblk = <<>>, !.ctr = 1, !.ks_off = 0]

(* Mutation: the counter moves one byte after the end of its block. *)
wolfpsa_aead_ccm_ctr_inc_late(c) ==
    IF c.ks_off > BS THEN [c EXCEPT !.ctr = @ + 1, !.ks_off = 0] ELSE c

(* A keystream block that is used up is replaced by the next one. *)
wolfpsa_aead_ccm_ctr_inc(c) ==
    IF c.ks_off = BS THEN [c EXCEPT !.ctr = @ + 1, !.ks_off = 0] ELSE c

(* One byte of wolfpsa_aead_ccm_update(); s is the context and the output. *)
CcmByte(s, x) ==
    LET c == wolfpsa_aead_ccm_ctr_inc(s.c)
        y == CryptByte(c, (c.ctr - 1) * BS + c.ks_off + 1, x)
        mblk == Append(c.mblk, pt_byte(c, x, y))
        full == Len(mblk) = BS
    IN  [c |-> [c EXCEPT !.ks_off = @ + 1,
                         !.mac = IF full THEN Append(@, mblk) ELSE @,
                         !.mblk = IF full THEN <<>> ELSE mblk],
         bytes |-> Append(s.bytes, y)]

(* The loop over the bytes of a call: the context and the output after i. *)
CcmLoop(c, data) ==
    LET after[i \in 0 .. Len(data)] ==
            IF i = 0 THEN [c |-> c, bytes |-> <<>>] ELSE CcmByte(after[i - 1], data[i])
    IN  after

(* Mutation: each call starts a new message block. *)
wolfpsa_aead_ccm_update_afresh(c, data) == CcmLoop([c EXCEPT !.mblk = <<>>], data)[Len(data)]

wolfpsa_aead_ccm_update(c, data) == CcmLoop(c, data)[Len(data)]

(* The last, partial block is filled with zeros. *)
wolfpsa_aead_ccm_finish(c) == c.mac \o InBlocks(c.mblk)

(* wolfCrypt's GCM and ChaCha20-Poly1305 streams. *)
StreamInit(c) == [c EXCEPT !.mac = MacStart(c, FedAad(c), 0)]
StreamData(c, data) ==
    LET place(i) == Len(c.mac) - 1 + i
        bytes == [i \in 1 .. Len(data) |-> CryptByte(c, place(i), data[i])]
    IN  [c |-> [c EXCEPT !.mac = @ \o Covered(c, data, bytes)], bytes |-> bytes]

wolfpsa_aead_stream_update(c, data) ==
    LET ccm == c.alg = "CCM"
        c1  == IF c.streaming THEN c
               ELSE IF ccm THEN wolfpsa_aead_ccm_init(c) ELSE StreamInit(c)
    IN  IF ccm THEN wolfpsa_aead_ccm_update(c1, data) ELSE StreamData(c1, data)

wolfpsa_aead_stream_final(c) ==
    [len |-> c.tag_length,
     mac |-> IF c.alg = "CCM" THEN wolfpsa_aead_ccm_finish(c) ELSE c.mac]

-----------------------------------------------------------------------------
(* The message. *)

(* Mutation: what is buffered does not keep the rest from being streamed. *)
Mixed_allowed(c, null) == FALSE

(* Buffering and streaming must not be mixed within one operation. *)
Mixed(c, null) == IF null THEN c.streaming ELSE c.input # <<>>

(* Mutation: the output buffer of an update is not measured. *)
UpdateFits_any(room, n) == TRUE

UpdateFits(room, n) == room >= n

(* null: output == NULL. *)
psa_aead_update(c, data, null, room) ==
    LET n == Len(data)
        begun == [c EXCEPT !.body_started = TRUE]
        s == wolfpsa_aead_stream_update(begun, data)
    IN  IF wolfpsa_aead_lengths_missing(c) \/ c.nonce = NoNonce
        THEN {Refused("BAD_STATE", c)}
        ELSE IF c.lengths_set /\ (\/ Len(c.aad) # c.ad_expected
                                  \/ c.input_length + n > c.plaintext_expected)
        THEN {Aborted("INVALID_ARGUMENT")}
        ELSE IF n = 0 THEN {Done(begun)}
        ELSE IF Mixed(c, null) THEN {Aborted("BAD_STATE")}
        ELSE IF null
        THEN {Done([begun EXCEPT !.input = @ \o data, !.input_length = @ + n]),
              Aborted("INSUFFICIENT_MEMORY")}
        ELSE IF ~UpdateFits(room, n) THEN {Aborted("BUFFER_TOO_SMALL")}
        ELSE IF n > Word32 THEN {Aborted("INVALID_ARGUMENT")}
        ELSE {Result("SUCCESS", [s.c EXCEPT !.streaming = TRUE, !.input_length = @ + n],
                     s.bytes, NoTag),
              Aborted("GENERIC_ERROR")}

-----------------------------------------------------------------------------
(* The tag.  Whatever the outcome, the operation ends. *)

(* Mutation: a message shorter than declared is let through. *)
LengthsMet_ad(c) == c.lengths_set => Len(c.aad) = c.ad_expected

LengthsMet(c) ==
    c.lengths_set => /\ Len(c.aad) = c.ad_expected
                     /\ c.input_length = c.plaintext_expected

TooLong(c) == c.input_length > Word32 \/ Len(c.aad) > Word32

wolfpsa_aead_encrypt_final(c, room, tagRoom) ==
    LET bytes == CryptAll(c, c.input) IN
    IF c.nonce = NoNonce \/ wolfpsa_aead_lengths_missing(c) THEN {Aborted("BAD_STATE")}
    ELSE IF ~LengthsMet(c) THEN {Aborted("INVALID_ARGUMENT")}
    ELSE IF ~c.streaming /\ room < c.input_length THEN {Aborted("BUFFER_TOO_SMALL")}
    ELSE IF tagRoom < c.tag_length THEN {Aborted("BUFFER_TOO_SMALL")}
    ELSE IF ~c.streaming /\ TooLong(c) THEN {Aborted("INVALID_ARGUMENT")}
    ELSE {IF c.streaming
          THEN Result("SUCCESS", NoCtx, <<>>, wolfpsa_aead_stream_final(c))
          ELSE Result("SUCCESS", NoCtx, bytes,
                      TagOf(c, c.aad, Covered(c, c.input, bytes))),
          Aborted("GENERIC_ERROR")}

(* The buffered ChaCha20-Poly1305 path reports every failure as a bad tag. *)
wolfpsa_aead_decrypt_final(c, room, tag) ==
    LET bytes == CryptAll(c, c.input)
        computed == IF c.streaming THEN wolfpsa_aead_stream_final(c)
                    ELSE TagOf(c, c.aad, Covered(c, c.input, bytes))
    IN
    IF c.nonce = NoNonce \/ wolfpsa_aead_lengths_missing(c) THEN {Aborted("BAD_STATE")}
    ELSE IF ~LengthsMet(c) THEN {Aborted("INVALID_ARGUMENT")}
    ELSE IF tag.len # c.tag_length THEN {Aborted("INVALID_SIGNATURE")}
    ELSE IF ~c.streaming /\ room < c.input_length THEN {Aborted("BUFFER_TOO_SMALL")}
    ELSE IF ~c.streaming /\ TooLong(c) THEN {Aborted("INVALID_ARGUMENT")}
    ELSE {IF computed = tag
          THEN Result("SUCCESS", NoCtx, IF c.streaming THEN <<>> ELSE bytes, NoTag)
          ELSE Aborted("INVALID_SIGNATURE"),
          Aborted(IF c.alg = "CHACHA20_POLY1305" /\ ~c.streaming
                  THEN "INVALID_SIGNATURE" ELSE "GENERIC_ERROR")}

(* In the wrong direction they refuse and leave the operation alone. *)
psa_aead_finish(c, room, tagRoom) ==
    IF ~c.enc THEN {Refused("BAD_STATE", c)}
    ELSE wolfpsa_aead_encrypt_final(c, room, tagRoom)

psa_aead_verify(c, room, tag) ==
    IF c.enc THEN {Refused("BAD_STATE", c)}
    ELSE wolfpsa_aead_decrypt_final(c, room, tag)

-----------------------------------------------------------------------------
(* The one-shot functions. *)

Then(rs, F(_)) == UNION {IF r.st = "SUCCESS" THEN F(r) ELSE {r} : r \in rs}

(* Setup, the lengths for CCM, the nonce, the additional data and the message *)
(* in one piece each, buffered.                                             *)
BufferAll(key, alg, tag, enc, nonce, lenOk, ad, data) ==
    LET lengths(r) == IF alg # "CCM" THEN {r}
                      ELSE psa_aead_set_lengths(r.c, ad, Len(data))
        setNonce(r) == psa_aead_set_nonce(r.c, nonce, lenOk)
        addAd(r) == psa_aead_update_ad(r.c, Message(ad))
        addData(r) == psa_aead_update(r.c, data, TRUE, 0)
        s1 == Then(wolfpsa_aead_setup(NoCtx, key, alg, tag, enc), lengths)
    IN  Then(Then(Then(s1, setNonce), addAd), addData)

(* XChaCha20-Poly1305 and Ascon-AEAD128 have no operation: sizes, key, then   *)
(* the wolfCrypt call, whose result ok is.                                  *)
OneShotOnly(key, alg, tag, enc, lenOk, lengths, room, needed, ok) ==
    IF tag # FullTag THEN {Refused("NOT_SUPPORTED", NoCtx)}
    ELSE IF ~lenOk THEN {Refused("INVALID_ARGUMENT", NoCtx)}
    ELSE IF room < needed THEN {Refused("BUFFER_TOO_SMALL", NoCtx)}
    ELSE IF alg = "ASCON_AEAD128" /\ (\E n \in lengths : n > Word32)
         THEN {Refused("INVALID_ARGUMENT", NoCtx)}
    ELSE {IF v = "SUCCESS" THEN ok ELSE Refused(v, NoCtx) :
             v \in {"GENERIC_ERROR"} \union
                   wolfpsa_aead_check_key(key, IF enc THEN "ENCRYPT" ELSE "DECRYPT",
                                          alg, tag)}

wolfpsa_oneshot_encrypt(key, alg, tag, nonce, lenOk, ad, data, room) ==
    LET c == [NewCtx(alg, tag, TRUE) EXCEPT !.nonce = nonce]
        bytes == CryptAll(c, data)
    IN  OneShotOnly(key, alg, tag, TRUE, lenOk, {ad, Len(data)}, room,
                    Len(data) + FullTag,
                    Result("SUCCESS", NoCtx, bytes, TagOf(c, Message(ad), bytes)))

wolfpsa_oneshot_decrypt(key, alg, tag, nonce, lenOk, ad, data, theTag, room) ==
    LET c == [NewCtx(alg, tag, FALSE) EXCEPT !.nonce = nonce]
    IN  OneShotOnly(key, alg, tag, FALSE, lenOk, {ad, Len(data)}, room, Len(data),
                    IF TagOf(c, Message(ad), data) = theTag
                    THEN Result("SUCCESS", NoCtx, CryptAll(c, data), NoTag)
                    ELSE Refused("INVALID_SIGNATURE", NoCtx))

(* The tag is written behind the ciphertext. *)
psa_aead_encrypt(key, alg, tag, nonce, lenOk, ad, data, room) ==
    LET finish(r) == IF room < Len(data) + tag THEN {Aborted("BUFFER_TOO_SMALL")}
                     ELSE psa_aead_finish(r.c, room, FullTag)
    IN  IF alg \in OneShotAlgs
        THEN wolfpsa_oneshot_encrypt(key, alg, tag, nonce, lenOk, ad, data, room)
        ELSE Then(BufferAll(key, alg, tag, TRUE, nonce, lenOk, ad, data), finish)

(* An input shorter than the tag is refused. *)
psa_aead_decrypt(key, alg, tag, nonce, lenOk, ad, data, theTag, whole, room) ==
    LET verify(r) == psa_aead_verify(r.c, room, theTag) IN
    IF ~whole THEN {Refused("INVALID_ARGUMENT", NoCtx)}
    ELSE IF alg \in OneShotAlgs
    THEN wolfpsa_oneshot_decrypt(key, alg, tag, nonce, lenOk, ad, data, theTag, room)
    ELSE Then(BufferAll(key, alg, tag, FALSE, nonce, lenOk, ad, data), verify)

-----------------------------------------------------------------------------
(* A client that encrypts messages and decrypts the result, with the same or  *)
(* with other nonces, additional data, lengths and tags.                    *)

NoWire == [alg |-> Nothing, nonce |-> NoNonce, ad |-> 0, n |-> 0, ct |-> <<>>,
           tag |-> NoTag]

TypeOK ==
    /\ call \in [completed : BOOLEAN, fits : BOOLEAN]
    /\ gaveAd \in 0 .. MaxAd /\ given \in 0 .. MaxLen
    /\ ctx # NoCtx =>
          /\ ctx.alg \in Algs \intersect StreamAlgs /\ ctx.nonce \in Nonces \union {NoNonce}
          /\ ctx.ks_off \in 0 .. BS /\ Len(ctx.mblk) < BS      \* uint8_t [16]
          /\ ctx.input_length \in 0 .. MaxLen

Init ==
    /\ ctx = NoCtx /\ gaveAd = 0 /\ given = 0 /\ out = <<>>
    /\ call = [completed |-> FALSE, fits |-> TRUE]
    /\ wire = NoWire /\ opened = Nothing

NextInput(n) == IF ctx.enc THEN Bytes(given, n)
                ELSE SubSeq(wire.ct, given + 1, given + n)
Available == (IF ctx.enc THEN MaxLen ELSE Len(wire.ct)) - given

(* The history starts again with each operation. *)
Return(r, final, ad, n, room) ==
    LET accepted == r.st = "SUCCESS" IN
    /\ ctx' = r.c
    /\ call' = [completed |-> final /\ accepted, fits |-> Len(r.bytes) =< room]
    /\ gaveAd' = IF r.c = NoCtx THEN 0 ELSE IF accepted THEN gaveAd + ad ELSE gaveAd
    /\ given' = IF r.c = NoCtx THEN 0 ELSE IF accepted THEN given + n ELSE given
    /\ out' = IF r.c = NoCtx THEN <<>> ELSE out \o r.bytes

Keep == UNCHANGED <<wire, opened>>

(* Without an operation every call but setup and abort fails. *)
Inactive == ctx = NoCtx /\ Return(Refused("BAD_STATE", NoCtx), FALSE, 0, 0, 0) /\ Keep

(* The client decrypts only what it has encrypted. *)
Setup(key, alg, tag, enc) ==
    /\ ctx = NoCtx
    /\ enc \/ (alg = wire.alg /\ tag = wire.tag.len)
    /\ \E r \in wolfpsa_aead_setup(ctx, key, alg, tag, enc) : Return(r, FALSE, 0, 0, 0)
    /\ Keep

(* The operation is active: the arguments make no difference. *)
SetupAgain(key) ==
    /\ ctx # NoCtx
    /\ \E r \in wolfpsa_aead_setup(ctx, key, key.alg, key.tag, TRUE) :
          Return(r, FALSE, 0, 0, 0)
    /\ Keep

SetLengths(ad, plaintext) ==
    /\ ctx # NoCtx
    /\ \E r \in psa_aead_set_lengths(ctx, ad, plaintext) : Return(r, FALSE, 0, 0, 0)
    /\ Keep

SetNonce(nonce, lenOk) ==
    /\ ctx # NoCtx
    /\ \E r \in psa_aead_set_nonce(ctx, nonce, lenOk) : Return(r, FALSE, 0, 0, 0)
    /\ Keep

GenerateNonce(nonce, roomy) ==
    /\ ctx # NoCtx
    /\ \E r \in psa_aead_generate_nonce(ctx, nonce, roomy) : Return(r, FALSE, 0, 0, 0)
    /\ Keep

UpdateAdCall(n) ==
    /\ ctx # NoCtx /\ gaveAd + n =< MaxAd
    /\ \E r \in psa_aead_update_ad(ctx, Bytes(gaveAd, n)) : Return(r, FALSE, n, 0, 0)
    /\ Keep

Update(n, null, room) ==
    /\ ctx # NoCtx /\ n =< Available
    /\ \E r \in psa_aead_update(ctx, NextInput(n), null, room) :
          Return(r, FALSE, 0, n, room)
    /\ Keep

Finish(room, tagRoom) ==
    /\ ctx # NoCtx
    /\ \E r \in psa_aead_finish(ctx, room, tagRoom) :
          /\ Return(r, TRUE, 0, 0, room)
          /\ IF r.st = "SUCCESS"
             THEN /\ wire' = [alg |-> ctx.alg, nonce |-> ctx.nonce, ad |-> gaveAd,
                              n |-> given, ct |-> out \o r.bytes, tag |-> r.tag]
                  /\ opened' = Nothing
             ELSE Keep

OtherTag(tag) == [tag EXCEPT !.mac = <<>>]

Verify(room, tag) ==
    /\ ctx # NoCtx /\ wire # NoWire
    /\ \E r \in psa_aead_verify(ctx, room, tag) :
          /\ Return(r, TRUE, 0, 0, room)
          /\ opened' = IF r.st = "SUCCESS"
                       THEN [nonce |-> ctx.nonce, ad |-> gaveAd, n |-> given, tag |-> tag,
                             plain |-> out \o r.bytes]
                       ELSE opened
    /\ UNCHANGED wire

Abort == ctx # NoCtx /\ Return(Done(NoCtx), FALSE, 0, 0, 0) /\ Keep

OneShotEncrypt(key, tag, nonce, lenOk, ad, n, room) ==
    /\ ctx = NoCtx /\ UNCHANGED <<ctx, gaveAd, given, out>>
    /\ \E r \in psa_aead_encrypt(key, key.alg, tag, nonce, lenOk, ad, Message(n), room) :
          LET ok == r.st = "SUCCESS" IN
          /\ call' = [completed |-> ok, fits |-> ok => Len(r.bytes) + tag =< room]
          /\ IF ok THEN /\ wire' = [alg |-> key.alg, nonce |-> nonce, ad |-> ad, n |-> n,
                                    ct |-> r.bytes, tag |-> r.tag]
                        /\ opened' = Nothing
             ELSE Keep

OneShotDecrypt(key, nonce, lenOk, ad, n, tag, whole, room) ==
    /\ ctx = NoCtx /\ wire # NoWire /\ n =< Len(wire.ct)
    /\ UNCHANGED <<ctx, gaveAd, given, out, wire>>
    /\ \E r \in psa_aead_decrypt(key, wire.alg, wire.tag.len, nonce, lenOk, ad,
                                 SubSeq(wire.ct, 1, n), tag, whole, room) :
          /\ call' = [completed |-> r.st = "SUCCESS", fits |-> Len(r.bytes) =< room]
          /\ opened' = IF r.st = "SUCCESS"
                       THEN [nonce |-> nonce, ad |-> ad, n |-> n, tag |-> tag,
                             plain |-> r.bytes]
                       ELSE opened

Tags == IF wire = NoWire THEN {} ELSE {wire.tag, OtherTag(wire.tag)}

Next ==
    \/ Inactive \/ Abort
    \/ \E key \in Keys, alg \in Algs, tag \in TagLens, enc \in BOOLEAN :
          Setup(key, alg, tag, enc)
    \/ \E key \in Keys : SetupAgain(key)
    \/ \E ad \in 0 .. MaxAd, n \in 0 .. MaxLen : SetLengths(ad, n)
    \/ \E nonce \in Nonces, fits \in BOOLEAN :
          SetNonce(nonce, fits) \/ GenerateNonce(nonce, fits)
    \/ \E n \in AdLens : UpdateAdCall(n)
    \/ \E n \in Lens, null \in BOOLEAN, room \in Rooms : Update(n, null, room)
    \/ \E room \in Rooms, tagRoom \in {0, FullTag} : Finish(room, tagRoom)
    \/ \E room \in Rooms, tag \in Tags : Verify(room, tag)
    \/ \E key \in Keys, tag \in TagLens, nonce \in Nonces, lenOk \in BOOLEAN,
          ad \in AdLens, n \in Lens, room \in Rooms :
             OneShotEncrypt(key, tag, nonce, lenOk, ad, n, room)
    \/ \E key \in Keys, nonce \in Nonces, lenOk \in BOOLEAN, ad \in AdLens, n \in Lens,
          tag \in Tags, whole \in BOOLEAN, room \in Rooms :
             OneShotDecrypt(key, nonce, lenOk, ad, n, tag, whole, room)

Spec == Init /\ [][Next]_vars

-----------------------------------------------------------------------------
(* Properties. *)

(* Every encryption that completes, streamed, buffered or one-shot and cut in *)
(* any way, is the AEAD of the whole message: its tag covers all additional *)
(* data and all plaintext that calls accepted.                              *)
TagCoversAll ==
    wire # NoWire =>
        LET c == [NewCtx(wire.alg, wire.tag.len, TRUE) EXCEPT !.nonce = wire.nonce]
            text == Message(wire.n)
        IN  /\ wire.ct = CryptAll(c, text)
            /\ wire.tag = TagOf(c, Message(wire.ad), Covered(c, text, wire.ct))

(* A decryption succeeds only on the nonce, additional data, ciphertext and   *)
(* tag of the encryption, and then it has released its plaintext.           *)
Authentic ==
    opened # Nothing =>
        /\ opened.nonce = wire.nonce /\ opened.ad = wire.ad
        /\ opened.n = Len(wire.ct) /\ opened.tag = wire.tag
        /\ opened.plain = Message(wire.n)

(* A decryption that has been given all of a genuine message can be verified, *)
(* whichever way it was cut, streamed or buffered.                          *)
GenuineAccepted ==
    /\ ctx # NoCtx /\ wire # NoWire
    /\ ~ctx.enc /\ ctx.nonce = wire.nonce /\ ctx.nonce # NoNonce
    /\ ctx.alg = wire.alg /\ ctx.tag_length = wire.tag.len
    /\ gaveAd = wire.ad /\ given = Len(wire.ct)
    /\ ctx.alg = "CCM" => ctx.lengths_set
    /\ ctx.lengths_set => ctx.ad_expected = gaveAd /\ ctx.plaintext_expected = given
    /\ given =< Word32
    => \E r \in psa_aead_verify(ctx, MaxLen, wire.tag) :
          r.st = "SUCCESS" /\ out \o r.bytes = Message(wire.n)

(* A live operation accounts for all it was given: streamed, everything has   *)
(* been released and nothing is buffered; otherwise all of it is buffered   *)
(* and nothing has been released, so no plaintext leaves before its tag is  *)
(* checked.                                                                 *)
Accounted ==
    ctx # NoCtx =>
        /\ ctx.input_length = given /\ ctx.aad = Message(gaveAd)
        /\ IF ctx.streaming THEN Len(out) = given /\ ctx.input = <<>>
           ELSE out = <<>> /\ Len(ctx.input) = given

(* An operation that declared its lengths completes only with exactly these,  *)
(* in the order of calls the code lets through.                             *)
DeclaredLengths ==
    [][call'.completed /\ ctx # NoCtx /\ ctx.lengths_set =>
          gaveAd = ctx.ad_expected /\ given = ctx.plaintext_expected]_vars

(* CCM never goes on with a message length it cannot encode beside the nonce, *)
(* whichever of the two was set first.                                      *)
CcmLengthFits ==
    ctx # NoCtx /\ ctx.alg = "CCM" /\ ctx.lengths_set /\ ctx.nonce # NoNonce
    => ctx.plaintext_expected =< CcmLimit[ctx.nonce]

(* No call writes past the output buffer it was given. *)
NoOverrun == call.fits

(* Decryption accepts exactly what encryption made, however it is cut        *)
(* (psa_aead_verify(), psa_aead_decrypt()).                                 *)
DecryptsExactly == Authentic /\ GenuineAccepted

(* The lengths an operation keeps are those of what it was given, in every    *)
(* order of calls, and bound what it writes: psa_aead_update() and the CCM    *)
(* stream trust them.                                                       *)
LengthsKept == TypeOK /\ Accounted /\ CcmLengthFits /\ NoOverrun
=============================================================================
