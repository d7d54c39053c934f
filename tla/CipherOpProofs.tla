--------------------------- MODULE CipherOpProofs ---------------------------
(***************************************************************************)
(* Proofs about CipherOp: however the calls of a cipher operation cut its     *)
(* input, what it has released is the encryption or decryption of the input   *)
(* byte by byte, and what it retains is the rest of the input.                *)
(***************************************************************************)
EXTENDS CipherOp, SequenceTheorems, TLAPS

(* What goes into an operation and what comes out of it. *)
InSet(enc) == IF enc = TRUE THEN Int ELSE Coded
OutSet(enc) == IF enc = TRUE THEN Coded ELSE Int \union {Garbage}

(* One byte at a place of the stream. *)
Key(c, at) == [iv |-> c.iv, at |-> IF c.alg = "ECB_NO_PADDING" THEN 0 ELSE at]
CryptByte(c, at, x) ==
    IF c.enc = TRUE THEN [k |-> Key(c, at), b |-> x]
    ELSE IF x.k = Key(c, at) THEN x.b ELSE Garbage

(* What is retained: nothing in a stream mode, the last block of a padded      *)
(* ciphertext, less than a block of anything else.                           *)
Residue(c, in) ==
    IF c.alg = "CBC_PKCS7" /\ c.enc = FALSE THEN in # <<>> => Len(c.partial) \in 1 .. BS
    ELSE Len(c.partial) < (IF c.alg \in StreamAlgs THEN 1 ELSE BS)

(* b is the part of the stream t that starts after f bytes. *)
Streamed(c, t, f, b) == \A i \in 1 .. Len(b) : b[i] = CryptByte(c, f + i, t[f + i])

(* Retained and new bytes; the context that psa_cipher_update() leaves. *)
Joined(in, f, data) == SubSeq(in, f + 1, Len(in)) \o data
Updated(c, p, d) == [c EXCEPT !.partial = p, !.done = @ + d]

(* What psa_cipher_update() releases of data, and the context it leaves then. *)
Released(c, data) == Crypt(c, SubSeq(c.partial \o data, 1, process_len(c, Len(data))))
Stepped(c, data) ==
    Updated(c, SubSeq(c.partial \o data, process_len(c, Len(data)) + 1, Len(c.partial \o data)),
            process_len(c, Len(data)))

(* A context that was given in and has released o. *)
Working(c, in, o) ==
    /\ c \in Contexts
    /\ in \in Seq(InSet(c.enc)) /\ o \in Seq(OutSet(c.enc))
    /\ c.done \in 0 .. Len(in) /\ Len(o) = c.done
    /\ c.partial = SubSeq(in, c.done + 1, Len(in))
    /\ Streamed(c, in, 0, o)
    /\ c.alg \in BlockAlgs => \E k \in Nat : c.done = k * BS
    /\ Residue(c, in)
    /\ in # <<>> => c.iv_set = TRUE \/ c.alg = "ECB_NO_PADDING"
    /\ c.iv # NoIv \/ c.iv_set = TRUE => c.iv_attempted = TRUE
    /\ c.alg = "ECB_NO_PADDING" => c.iv = NoIv

(* The text of a message with its padding, and its encryption. *)
Pad(p) == [i \in 1 .. p |-> -p]
Text(alg, m, t) == IF alg = "CBC_PKCS7" THEN \E p \in 1 .. BS : t = m \o Pad(p) ELSE t = m
Sealing(alg, iv) == [alg |-> alg, iv |-> iv, enc |-> TRUE]
Encrypted(alg, iv, m, b) ==
    \E t \in Seq(Int) :
        /\ Text(alg, m, t) /\ b \in Seq(Coded) /\ Len(b) = Len(t)
        /\ Streamed(Sealing(alg, iv), t, 0, b)

-----------------------------------------------------------------------------
(* Whole blocks, and what is left after them. *)
LEMMA WholeBlocks ==
    ASSUME NEW n \in Nat, NEW b \in Nat \ {0}
    PROVE  n \div b \in Nat /\ (n \div b) * b \in 0 .. n /\ n - (n \div b) * b < b
<1>1. n \div b \in Nat
  OBVIOUS
<1>2. n = b * (n \div b) + (n % b) /\ n % b \in 0 .. b - 1
  OBVIOUS
<1>3. b * (n \div b) = (n \div b) * b
  BY <1>1
<1>4. b * (n \div b) \in Int
  BY <1>1
<1> QED BY <1>1, <1>2, <1>3, <1>4

(* Retained bytes and new ones are the end of all the input. *)
LEMMA Glue ==
    ASSUME NEW S, NEW in \in Seq(S), NEW d \in 0 .. Len(in), NEW data \in Seq(S)
    PROVE  SubSeq(in, d + 1, Len(in)) \o data = SubSeq(in \o data, d + 1, Len(in) + Len(data))
<1> DEFINE p == SubSeq(in, d + 1, Len(in))
           all == in \o data
           q == SubSeq(all, d + 1, Len(in) + Len(data))
<1>1. Len(in) \in Nat /\ Len(data) \in Nat /\ all \in Seq(S) /\ Len(all) = Len(in) + Len(data)
  BY ConcatProperties, LenProperties
<1>2. \A i \in d + 1 .. Len(in) : in[i] \in S
  BY ElementOfSeq, <1>1
<1>3. p \in Seq(S) /\ Len(p) = Len(in) - d /\ \A i \in 1 .. Len(in) - d : p[i] = in[d + i]
  <2>1. /\ p \in Seq(S) /\ Len(p) = IF d + 1 =< Len(in) THEN Len(in) - (d + 1) + 1 ELSE 0
        /\ \A i \in 1 .. Len(in) - (d + 1) + 1 : p[i] = in[(d + 1) + i - 1]
    BY <1>1, <1>2, SubSeqProperties
  <2> QED BY <2>1, <1>1
<1>4. \A i \in d + 1 .. Len(all) : all[i] \in S
  BY ElementOfSeq, <1>1
<1>5. q \in Seq(S) /\ Len(q) = Len(all) - d /\ \A i \in 1 .. Len(all) - d : q[i] = all[d + i]
  <2>1. /\ q \in Seq(S) /\ Len(q) = IF d + 1 =< Len(all) THEN Len(all) - (d + 1) + 1 ELSE 0
        /\ \A i \in 1 .. Len(all) - (d + 1) + 1 : q[i] = all[(d + 1) + i - 1]
    BY <1>1, <1>4, SubSeqProperties
  <2> QED BY <2>1, <1>1
<1>6. /\ p \o data \in Seq(S) /\ Len(p \o data) = Len(p) + Len(data)
      /\ \A i \in 1 .. Len(p) + Len(data) : (p \o data)[i] = IF i <= Len(p) THEN p[i] ELSE data[i - Len(p)]
  BY <1>3, ConcatProperties
<1>7. \A i \in 1 .. Len(all) : all[i] = IF i <= Len(in) THEN in[i] ELSE data[i - Len(in)]
  BY <1>1, ConcatProperties
<1>8. ASSUME NEW i \in 1 .. Len(p \o data) PROVE (p \o data)[i] = q[i]
  BY <1>1, <1>3, <1>5, <1>6, <1>7
<1>9. Len(p \o data) = Len(q)
  BY <1>1, <1>3, <1>5, <1>6
<1> QED BY <1>5, <1>6, <1>8, <1>9, SeqEqual

(* The rest of a rest. *)
LEMMA RestOfRest ==
    ASSUME NEW S, NEW s \in Seq(S), NEW d \in Nat, NEW e \in Nat, d + e =< Len(s)
    PROVE  /\ SubSeq(SubSeq(s, d + 1, Len(s)), e + 1, Len(s) - d) = SubSeq(s, d + e + 1, Len(s))
           /\ SubSeq(s, d + 1, Len(s)) \in Seq(S) /\ Len(SubSeq(s, d + 1, Len(s))) = Len(s) - d
           /\ \A i \in 1 .. Len(s) - d : SubSeq(s, d + 1, Len(s))[i] = s[d + i]
<1> DEFINE p == SubSeq(s, d + 1, Len(s))
           q == SubSeq(p, e + 1, Len(s) - d)
           t == SubSeq(s, d + e + 1, Len(s))
<1>1. Len(s) \in Nat
  BY LenProperties
<1>2. p \in Seq(S) /\ Len(p) = Len(s) - d /\ \A i \in 1 .. Len(s) - d : p[i] = s[d + i]
  <2>1. \A i \in d + 1 .. Len(s) : s[i] \in S
    BY ElementOfSeq, <1>1
  <2>2. /\ p \in Seq(S) /\ Len(p) = IF d + 1 =< Len(s) THEN Len(s) - (d + 1) + 1 ELSE 0
        /\ \A i \in 1 .. Len(s) - (d + 1) + 1 : p[i] = s[(d + 1) + i - 1]
    BY <1>1, <2>1, SubSeqProperties
  <2> QED BY <2>2, <1>1
<1>3. t \in Seq(S) /\ Len(t) = Len(s) - (d + e) /\ \A i \in 1 .. Len(s) - (d + e) : t[i] = s[d + e + i]
  <2>1. \A i \in d + e + 1 .. Len(s) : s[i] \in S
    BY ElementOfSeq, <1>1
  <2>2. /\ t \in Seq(S) /\ Len(t) = IF d + e + 1 =< Len(s) THEN Len(s) - (d + e + 1) + 1 ELSE 0
        /\ \A i \in 1 .. Len(s) - (d + e + 1) + 1 : t[i] = s[(d + e + 1) + i - 1]
    BY <1>1, <2>1, SubSeqProperties
  <2> QED BY <2>2, <1>1
<1>4. q \in Seq(S) /\ Len(q) = Len(s) - (d + e) /\ \A i \in 1 .. Len(s) - (d + e) : q[i] = p[e + i]
  <2>0. Len(s) - d \in Nat
    BY <1>1
  <2>1. \A i \in e + 1 .. Len(s) - d : p[i] \in S
    BY ElementOfSeq, <1>1, <1>2
  <2>2. /\ q \in Seq(S) /\ Len(q) = IF e + 1 =< Len(s) - d THEN (Len(s) - d) - (e + 1) + 1 ELSE 0
        /\ \A i \in 1 .. (Len(s) - d) - (e + 1) + 1 : q[i] = p[(e + 1) + i - 1]
    BY <1>1, <2>0, <2>1, SubSeqProperties
  <2> QED BY <2>2, <1>1
<1>5. ASSUME NEW i \in 1 .. Len(q) PROVE q[i] = t[i]
  <2>1. i \in 1 .. Len(s) - (d + e) /\ e + i \in 1 .. Len(s) - d
    BY <1>1, <1>4
  <2>2. q[i] = p[e + i] /\ p[e + i] = s[d + (e + i)] /\ t[i] = s[d + e + i]
    BY <1>2, <1>3, <1>4, <2>1
  <2>3. d + (e + i) = d + e + i
    BY <2>1, <1>1
  <2> QED BY <2>2, <2>3
<1>6. q = t
  BY <1>3, <1>4, <1>5, SeqEqual
<1> QED BY <1>2, <1>6

(* What is left of a sequence. *)
LEMMA Ending ==
    ASSUME NEW S, NEW s \in Seq(S), NEW d \in 0 .. Len(s)
    PROVE  /\ SubSeq(s, d + 1, Len(s)) \in Seq(S) /\ Len(SubSeq(s, d + 1, Len(s))) = Len(s) - d
           /\ \A i \in 1 .. Len(s) - d : SubSeq(s, d + 1, Len(s))[i] = s[d + i]
<1>1. Len(s) \in Nat /\ d \in Nat /\ 0 \in Nat /\ d + 0 =< Len(s)
  BY LenProperties
<1> QED BY <1>1, RestOfRest

(* The beginning of a sequence. *)
LEMMA Beginning ==
    ASSUME NEW S, NEW s \in Seq(S), NEW n \in 0 .. Len(s)
    PROVE  /\ SubSeq(s, 1, n) \in Seq(S) /\ Len(SubSeq(s, 1, n)) = n
           /\ \A i \in 1 .. n : SubSeq(s, 1, n)[i] = s[i]
<1>1. Len(s) \in Nat
  BY LenProperties
<1>2. \A i \in 1 .. n : s[i] \in S
  BY ElementOfSeq, <1>1
<1>3. /\ SubSeq(s, 1, n) \in Seq(S) /\ Len(SubSeq(s, 1, n)) = IF 1 =< n THEN n - 1 + 1 ELSE 0
      /\ \A i \in 1 .. n - 1 + 1 : SubSeq(s, 1, n)[i] = s[1 + i - 1]
  BY <1>1, <1>2, SubSeqProperties
<1> QED BY <1>1, <1>3

-----------------------------------------------------------------------------
(* The fields of a context. *)
LEMMA ContextType ==
    ASSUME ConstantsOK, NEW c \in Contexts
    PROVE  /\ c.alg \in StreamAlgs \union BlockAlgs /\ c.alg \in Algs
           /\ c.enc \in BOOLEAN /\ c.iv \in Ivs \union {NoIv}
           /\ c.iv_set \in BOOLEAN /\ c.iv_attempted \in BOOLEAN /\ c.done \in Nat
           /\ c # NoCtx
BY DEF ConstantsOK, Contexts

(* One byte through the cipher. *)
LEMMA ByteType ==
    ASSUME ConstantsOK, NEW c \in Contexts, NEW at \in Nat, NEW x \in InSet(c.enc)
    PROVE  CryptByte(c, at, x) \in OutSet(c.enc)
<1>1. Key(c, at) \in [iv : Ivs \union {NoIv}, at : Nat]
  BY ContextType DEF Key
<1>2. CASE c.enc = TRUE
  BY <1>1, <1>2 DEF CryptByte, OutSet, InSet, Coded
<1>3. CASE c.enc = FALSE
  <2>1. x.b \in Int
    BY <1>3 DEF InSet, Coded
  <2> QED BY <1>3, <2>1 DEF CryptByte, OutSet
<1> QED BY <1>2, <1>3, ContextType

(* wolfCrypt works byte by byte from the place it has reached. *)
LEMMA CryptBytes ==
    ASSUME ConstantsOK, NEW c \in Contexts, NEW s \in Seq(InSet(c.enc))
    PROVE  /\ Crypt(c, s) \in Seq(OutSet(c.enc)) /\ Len(Crypt(c, s)) = Len(s)
           /\ \A i \in 1 .. Len(s) : Crypt(c, s)[i] = CryptByte(c, c.done + i, s[i])
<1> DEFINE r == [i \in 1 .. Len(s) |-> CryptByte(c, c.done + i, s[i])]
<1>0. Len(s) \in Nat /\ c.done \in Nat
  BY LenProperties, ContextType
<1>1. Crypt(c, s) = r
  <2>1. ASSUME NEW i \in 1 .. Len(s)
        PROVE  Crypt(c, s)[i] = CryptByte(c, c.done + i, s[i])
    BY ContextType DEF Crypt, CryptByte, Key
  <2>2. Crypt(c, s) = [i \in 1 .. Len(s) |-> Crypt(c, s)[i]]
    BY DEF Crypt
  <2> QED BY <2>1, <2>2
<1>2. \A i \in 1 .. Len(s) : r[i] \in OutSet(c.enc)
  BY <1>0, ByteType, ElementOfSeq
<1>3. r \in [1 .. Len(s) -> OutSet(c.enc)]
  BY <1>2
<1>4. r \in Seq(OutSet(c.enc)) /\ Len(r) = Len(s)
  BY <1>0, <1>3
<1> QED BY <1>1, <1>4

(* What is processed of the retained and the new bytes, and what is left. *)
LEMMA Processed ==
    ASSUME ConstantsOK, NEW c \in Contexts, NEW n \in Nat \ {0}, NEW m \in Nat,
           Len(c.partial) = m,
           c.alg \in StreamAlgs => m = 0
    PROVE  /\ process_len(c, n) \in 0 .. m + n
           /\ c.alg \in BlockAlgs => \E k \in Nat : process_len(c, n) = k * BS
           /\ LET rest == m + n - process_len(c, n) IN
              IF c.alg = "CBC_PKCS7" /\ c.enc = FALSE THEN rest \in 1 .. BS
              ELSE rest < (IF c.alg \in StreamAlgs THEN 1 ELSE BS)
<1>0. c.enc \in BOOLEAN /\ BS \in Nat \ {0} /\ c.alg \in StreamAlgs \union BlockAlgs
  BY ContextType DEF ConstantsOK
<1>1. CASE c.alg \in StreamAlgs
  BY <1>1 DEF process_len, StreamAlgs, BlockAlgs
<1>2. CASE c.alg \notin StreamAlgs /\ c.alg = "CBC_PKCS7" /\ c.enc = FALSE
  <2> DEFINE k == (m + n - 1) \div BS
  <2>1. process_len(c, n) = k * BS
    BY <1>2 DEF process_len
  <2>2. k \in Nat /\ k * BS \in 0 .. m + n - 1 /\ (m + n - 1) - k * BS < BS
    BY <1>0, WholeBlocks, m + n - 1 \in Nat
  <2> HIDE DEF k
  <2> QED BY <1>0, <1>2, <2>1, <2>2
<1>3. CASE c.alg \notin StreamAlgs /\ ~(c.alg = "CBC_PKCS7" /\ c.enc = FALSE)
  <2> DEFINE k == (m + n) \div BS
  <2>1. process_len(c, n) = k * BS
    BY <1>0, <1>3 DEF process_len
  <2>2. k \in Nat /\ k * BS \in 0 .. m + n /\ (m + n) - k * BS < BS
    BY <1>0, WholeBlocks, m + n \in Nat
  <2> HIDE DEF k
  <2> QED BY <1>0, <1>3, <2>1, <2>2
<1> QED BY <1>1, <1>2, <1>3

(* The retained bytes of a working context. *)
LEMMA RetainedBytes ==
    ASSUME ConstantsOK, NEW c, NEW in, NEW o, Working(c, in, o)
    PROVE  /\ c.partial \in Seq(InSet(c.enc)) /\ Len(c.partial) = Len(in) - c.done
           /\ Len(in) \in Nat /\ c.done \in 0 .. Len(in)
           /\ \A i \in 1 .. Len(in) - c.done : c.partial[i] = in[c.done + i]
           /\ c.alg \in StreamAlgs => Len(c.partial) = 0
<1>1. c \in Contexts /\ in \in Seq(InSet(c.enc)) /\ c.done \in 0 .. Len(in)
      /\ c.partial = SubSeq(in, c.done + 1, Len(in)) /\ Residue(c, in)
  BY DEF Working
<1>2. Len(in) \in Nat /\ c.done \in Nat
  BY <1>1, LenProperties, ContextType
<1>3. /\ c.partial \in Seq(InSet(c.enc)) /\ Len(c.partial) = Len(in) - c.done
      /\ \A i \in 1 .. Len(in) - c.done : c.partial[i] = in[c.done + i]
  BY <1>1, <1>2, RestOfRest, 0 \in Nat, c.done + 0 =< Len(in)
<1>4. c.alg \in StreamAlgs => Len(c.partial) = 0
  BY <1>1, <1>2, <1>3 DEF Residue, StreamAlgs
<1> QED BY <1>1, <1>2, <1>3, <1>4

(* Retained and new bytes, of which d are processed. *)
LEMMA Progress ==
    ASSUME NEW S, NEW in \in Seq(S), NEW data \in Seq(S), NEW f \in 0 .. Len(in), NEW d \in Nat,
           f + d =< Len(in) + Len(data)
    PROVE  /\ Joined(in, f, data) \in Seq(S)
           /\ Len(Joined(in, f, data)) = Len(in) + Len(data) - f
           /\ SubSeq(Joined(in, f, data), 1, d) \in Seq(S)
           /\ Len(SubSeq(Joined(in, f, data), 1, d)) = d
           /\ \A i \in 1 .. d : SubSeq(Joined(in, f, data), 1, d)[i] = (in \o data)[f + i]
           /\ SubSeq(Joined(in, f, data), d + 1, Len(Joined(in, f, data)))
                 = SubSeq(in \o data, (f + d) + 1, Len(in \o data))
           /\ SubSeq(Joined(in, f, data), d + 1, Len(Joined(in, f, data))) \in Seq(S)
           /\ Len(SubSeq(Joined(in, f, data), d + 1, Len(Joined(in, f, data))))
                 = Len(in) + Len(data) - (f + d)
<1> DEFINE in2 == in \o data
           all == Joined(in, f, data)
           rest == SubSeq(all, d + 1, Len(all))
           s == SubSeq(all, 1, d)
           e == f + d
<1>d. e = f + d
  OBVIOUS
<1>1. Len(in) \in Nat /\ Len(data) \in Nat /\ f \in Nat /\ e \in Nat
  BY LenProperties
<1>2. in2 \in Seq(S) /\ Len(in2) = Len(in) + Len(data)
  BY ConcatProperties
<1>3. all = SubSeq(in2, f + 1, Len(in2))
  <2>1. SubSeq(in, f + 1, Len(in)) \o data = SubSeq(in \o data, f + 1, Len(in) + Len(data))
    BY Glue
  <2> QED BY <1>2, <2>1 DEF Joined
<1> HIDE DEF in2, all, e
<1>4. f \in 0 .. Len(in2) /\ e \in 0 .. Len(in2) /\ f + d =< Len(in2)
  BY <1>1, <1>2, <1>d
<1>5. all \in Seq(S) /\ Len(all) = Len(in2) - f /\ \A i \in 1 .. Len(in2) - f : all[i] = in2[f + i]
  BY <1>2, <1>3, <1>4, Ending
<1>6. d \in 0 .. Len(all)
  BY <1>1, <1>4, <1>5
<1>7. s \in Seq(S) /\ Len(s) = d /\ \A i \in 1 .. d : s[i] = all[i]
  BY <1>5, <1>6, Beginning
<1>8. rest = SubSeq(in2, e + 1, Len(in2))
  <2>1. SubSeq(SubSeq(in2, f + 1, Len(in2)), d + 1, Len(in2) - f) = SubSeq(in2, f + d + 1, Len(in2))
    BY <1>1, <1>2, <1>4, RestOfRest
  <2> QED BY <1>3, <1>5, <1>d, <2>1
<1> HIDE DEF s, rest
<1>9. rest \in Seq(S) /\ Len(rest) = Len(in2) - e
  BY <1>2, <1>4, <1>8, Ending
<1>10. \A i \in 1 .. d : s[i] = in2[f + i]
  <2>1. ASSUME NEW i \in 1 .. d PROVE i \in 1 .. Len(in2) - f
    BY <1>1, <1>2, <1>4
  <2> QED BY <1>5, <1>7, <2>1
<1>12. Len(all) = Len(in) + Len(data) - f /\ Len(rest) = Len(in) + Len(data) - e
  <2>1. Len(in2) = Len(in) + Len(data) /\ Len(all) = Len(in2) - f /\ Len(rest) = Len(in2) - e
    BY <1>2, <1>5, <1>9
  <2> QED BY <1>1, <2>1
<1> QED BY <1>2, <1>12, <1>5, <1>7, <1>8, <1>9, <1>10 DEF in2, all, s, rest, e

(* What was there stays at its place. *)
LEMMA Longer ==
    ASSUME NEW S, NEW in \in Seq(S), NEW data \in Seq(S)
    PROVE  /\ in \o data \in Seq(S) /\ Len(in \o data) = Len(in) + Len(data)
           /\ \A i \in 1 .. Len(in) : (in \o data)[i] = in[i]
           /\ \A i \in 1 .. Len(data) : (in \o data)[Len(in) + i] = data[i]
<1>1. Len(in) \in Nat /\ Len(data) \in Nat
  BY LenProperties
<1>2. in \o data \in Seq(S) /\ Len(in \o data) = Len(in) + Len(data)
  BY ConcatProperties
<1>3. \A i \in 1 .. Len(in) + Len(data) :
         (in \o data)[i] = IF i <= Len(in) THEN in[i] ELSE data[i - Len(in)]
  BY ConcatProperties
<1>4. \A i \in 1 .. Len(in) : (in \o data)[i] = in[i]
  BY <1>1, <1>3
<1>5. ASSUME NEW i \in 1 .. Len(data) PROVE (in \o data)[Len(in) + i] = data[i]
  <2>1. Len(in) + i \in 1 .. Len(in) + Len(data) /\ ~(Len(in) + i <= Len(in))
        /\ (Len(in) + i) - Len(in) = i
    BY <1>1
  <2> QED BY <1>3, <2>1
<1> QED BY <1>2, <1>4, <1>5

(* Two stretches of a stream make one. *)
LEMMA Stretch ==
    ASSUME NEW c, NEW T, NEW o \in Seq(T), NEW b \in Seq(T), NEW t,
           Streamed(c, t, 0, o), Streamed(c, t, Len(o), b)
    PROVE  Streamed(c, t, 0, o \o b)
<1>1. /\ o \o b \in Seq(T) /\ Len(o \o b) = Len(o) + Len(b) /\ Len(o) \in Nat /\ Len(b) \in Nat
      /\ \A i \in 1 .. Len(o) : (o \o b)[i] = o[i]
      /\ \A i \in 1 .. Len(b) : (o \o b)[Len(o) + i] = b[i]
  BY Longer, LenProperties
<1> SUFFICES ASSUME NEW i \in 1 .. Len(o \o b)
             PROVE  (o \o b)[i] = CryptByte(c, 0 + i, t[0 + i])
  BY DEF Streamed
<1>2. CASE i <= Len(o)
  <2>1. i \in 1 .. Len(o)
    BY <1>1, <1>2
  <2> QED BY <1>1, <2>1 DEF Streamed
<1>3. CASE ~(i <= Len(o))
  <2> DEFINE j == i - Len(o)
  <2>1. j \in 1 .. Len(b) /\ Len(o) + j = 0 + i
    BY <1>1, <1>3
  <2> HIDE DEF j
  <2>2. b[j] = CryptByte(c, Len(o) + j, t[Len(o) + j])
    BY <2>1 DEF Streamed
  <2>3. (o \o b)[Len(o) + j] = b[j] /\ Len(o) + j = i
    BY <1>1, <2>1
  <2> QED BY <2>1, <2>2, <2>3
<1> QED BY <1>1, <1>2, <1>3

(* A stretch of a longer stream. *)
LEMMA SameStream ==
    ASSUME NEW c, NEW x, NEW T, NEW o \in Seq(T), NEW t, NEW u,
           \A i \in 1 .. Len(o) : t[i] = u[i],
           x.alg = c.alg, x.enc = c.enc, x.iv = c.iv, Streamed(c, t, 0, o)
    PROVE  Streamed(x, u, 0, o)
<1> SUFFICES ASSUME NEW i \in 1 .. Len(o)
             PROVE  o[i] = CryptByte(x, 0 + i, u[0 + i])
  BY DEF Streamed
<1>1. CryptByte(x, 0 + i, u[0 + i]) = CryptByte(c, 0 + i, u[0 + i])
  BY DEF CryptByte, Key
<1>2. 0 + i = i
  BY LenProperties
<1>3. o[i] = CryptByte(c, 0 + i, t[0 + i])
  BY DEF Streamed
<1> QED BY <1>1, <1>2, <1>3

(* The context psa_cipher_update() leaves. *)
LEMMA UpdatedContext ==
    ASSUME NEW c \in Contexts, NEW d, NEW p
    PROVE  /\ Updated(c, p, d).alg = c.alg /\ Updated(c, p, d).enc = c.enc
           /\ Updated(c, p, d).iv = c.iv /\ Updated(c, p, d).iv_set = c.iv_set
           /\ Updated(c, p, d).iv_attempted = c.iv_attempted
           /\ Updated(c, p, d).done = c.done + d /\ Updated(c, p, d).partial = p
           /\ d \in Nat /\ p \in Seq(InSet(c.enc)) => Updated(c, p, d) \in Contexts
<1>1. /\ Updated(c, p, d).alg = c.alg /\ Updated(c, p, d).enc = c.enc
      /\ Updated(c, p, d).iv = c.iv /\ Updated(c, p, d).iv_set = c.iv_set
      /\ Updated(c, p, d).iv_attempted = c.iv_attempted
      /\ Updated(c, p, d).done = c.done + d /\ Updated(c, p, d).partial = p
  BY DEF Contexts, Updated
<1>2. ASSUME d \in Nat, p \in Seq(InSet(c.enc)) PROVE Updated(c, p, d) \in Contexts
  <2>1. p \in Seq(Int) \union Seq(Coded)
    BY <1>2 DEF InSet
  <2>2. c.done + d \in Nat
    BY <1>2 DEF Contexts
  <2> QED BY <2>1, <2>2 DEF Contexts, Updated
<1> QED BY <1>1, <1>2

(* A step of psa_cipher_update() over a working context. *)
LEMMA UpdateWorks ==
    ASSUME ConstantsOK, NEW c, NEW in, NEW o, Working(c, in, o),
           NEW data \in Seq(InSet(c.enc)), data # <<>>,
           c.iv_set = TRUE \/ c.alg = "ECB_NO_PADDING"
    PROVE  /\ Working(Stepped(c, data), in \o data, o \o Released(c, data))
           /\ Len(Released(c, data)) = process_len(c, Len(data)) /\ process_len(c, Len(data)) \in Nat
           /\ Stepped(c, data).alg = c.alg /\ Stepped(c, data).enc = c.enc
           /\ Stepped(c, data).iv = c.iv /\ Stepped(c, data).iv_set = c.iv_set
<1> DEFINE d == process_len(c, Len(data))
           all == c.partial \o data
           b == Released(c, data)
           x == Stepped(c, data)
<1>z1. d = process_len(c, Len(data))
  OBVIOUS
<1>z2. all = c.partial \o data
  OBVIOUS
<1>z3. b = Crypt(c, SubSeq(all, 1, d))
  BY DEF Released
<1>z4. x = Updated(c, SubSeq(all, d + 1, Len(all)), d)
  BY DEF Stepped
<1> HIDE DEF d, all, b, x
<1> DEFINE s == SubSeq(all, 1, d)
           rest == SubSeq(all, d + 1, Len(all))
           in2 == in \o data
           n == Len(data)
           m == Len(c.partial)
           S == InSet(c.enc)
           f == c.done
           T == OutSet(c.enc)
<1>1. /\ c \in Contexts /\ in \in Seq(S) /\ f \in 0 .. Len(in) /\ o \in Seq(T) /\ Len(o) = f
      /\ c.partial = SubSeq(in, f + 1, Len(in)) /\ Streamed(c, in, 0, o)
  BY DEF Working
<1>2. Len(in) \in Nat /\ n \in Nat \ {0} /\ f \in Nat /\ m \in Nat /\ m = Len(in) - f
  BY <1>1, LenProperties, EmptySeq, ContextType, RetainedBytes
<1>3. /\ d \in 0 .. m + n
      /\ c.alg \in BlockAlgs => \E k \in Nat : d = k * BS
      /\ LET r == m + n - d IN
         IF c.alg = "CBC_PKCS7" /\ c.enc = FALSE THEN r \in 1 .. BS
         ELSE r < (IF c.alg \in StreamAlgs THEN 1 ELSE BS)
  <2>1. c.alg \in StreamAlgs => m = 0
    BY RetainedBytes
  <2>b. d = process_len(c, n)
    BY <1>z1
  <2> HIDE DEF m, n, f
  <2>2. Len(c.partial) = m
    BY DEF m
  <2> QED BY <1>1, <1>2, <2>b, <2>1, <2>2, Processed
<1>4. d \in Nat /\ f + d =< Len(in) + n
  BY <1>2, <1>3
<1>4a. all = Joined(in, f, data) /\ data \in Seq(S)
  BY <1>1, <1>z2 DEF Joined
<1>4b. b = Crypt(c, s) /\ x = Updated(c, rest, d)
  BY <1>z3, <1>z4
<1>5. /\ s \in Seq(S) /\ Len(s) = d /\ \A i \in 1 .. d : s[i] = in2[f + i]
      /\ rest = SubSeq(in2, (f + d) + 1, Len(in2))
      /\ rest \in Seq(S) /\ Len(rest) = Len(in) + n - (f + d)
  <2> HIDE DEF f, S
  <2> DEFINE J == Joined(in, f, data)
  <2>1. /\ SubSeq(J, 1, d) \in Seq(S) /\ Len(SubSeq(J, 1, d)) = d
        /\ \A i \in 1 .. d : SubSeq(J, 1, d)[i] = (in \o data)[f + i]
    BY <1>1, <1>4, <1>4a, Progress
  <2>2. /\ SubSeq(J, d + 1, Len(J)) = SubSeq(in \o data, (f + d) + 1, Len(in \o data))
        /\ SubSeq(J, d + 1, Len(J)) \in Seq(S)
        /\ Len(SubSeq(J, d + 1, Len(J))) = Len(in) + Len(data) - (f + d)
    <3>1. in \in Seq(S) /\ data \in Seq(S) /\ f \in 0 .. Len(in) /\ d \in Nat
          /\ f + d =< Len(in) + Len(data)
      BY <1>1, <1>4, <1>4a
    <3>2. SubSeq(J, d + 1, Len(J)) = SubSeq(in \o data, (f + d) + 1, Len(in \o data))
      <4> DEFINE t == in \o data
      <4>1. t \in Seq(S) /\ Len(t) = Len(in) + Len(data) /\ J = SubSeq(t, f + 1, Len(t))
            /\ Len(J) = Len(t) - f
        <5>1. t \in Seq(S) /\ Len(t) = Len(in) + Len(data)
          BY <3>1, Longer
        <5>2. Len(J) = Len(in) + Len(data) - f
          BY <3>1, Progress, SMTT(30)
        <5>3. SubSeq(in, f + 1, Len(in)) \o data = SubSeq(in \o data, f + 1, Len(in) + Len(data))
          BY <3>1, Glue
        <5>4. J = SubSeq(t, f + 1, Len(t))
          BY <5>1, <5>3 DEF Joined
        <5> HIDE DEF t, J
        <5> QED BY <1>2, <5>1, <5>2, <5>4
      <4> HIDE DEF t, J
      <4>2. f \in Nat /\ f + d =< Len(t)
        BY <3>1, <4>1, <1>2
      <4>3. SubSeq(SubSeq(t, f + 1, Len(t)), d + 1, Len(t) - f) = SubSeq(t, f + d + 1, Len(t))
        BY <3>1, <4>1, <4>2, RestOfRest
      <4> QED BY <4>1, <4>3 DEF t
    <3>3. SubSeq(J, d + 1, Len(J)) \in Seq(S)
      BY <3>1, Progress
    <3>4. Len(SubSeq(J, d + 1, Len(J))) = Len(in) + Len(data) - (f + d)
      BY <3>1, Progress
    <3> QED BY <3>2, <3>3, <3>4
  <2>3. all = J
    BY <1>4a
  <2> HIDE DEF J
  <2> QED BY <2>1, <2>2, <2>3
<1>5a. in2 \in Seq(S) /\ Len(in2) = Len(in) + n /\ \A i \in 1 .. Len(in) : in2[i] = in[i]
  BY <1>1, <1>4a, Longer
<1> HIDE DEF rest, s, f, S, T, in2, n, m
<1>a. /\ x.alg = c.alg /\ x.enc = c.enc /\ x.iv = c.iv /\ x.iv_set = c.iv_set
      /\ x.iv_attempted = c.iv_attempted /\ x.done = f + d /\ x.partial = rest
      /\ x \in Contexts
  <2>1. c \in Contexts /\ d \in Nat /\ rest \in Seq(InSet(c.enc))
    BY <1>1, <1>4, <1>5 DEF S
  <2> DEFINE u == Updated(c, rest, d)
  <2>2. /\ u.alg = c.alg /\ u.enc = c.enc /\ u.iv = c.iv /\ u.iv_set = c.iv_set
        /\ u.iv_attempted = c.iv_attempted /\ u.done = c.done + d /\ u.partial = rest
        /\ u \in Contexts
    BY <2>1, UpdatedContext
  <2>3. x = u
    BY <1>4b
  <2> HIDE DEF u
  <2> QED BY <2>2, <2>3 DEF f
<1>6. b \in Seq(T) /\ Len(b) = d /\ Streamed(c, in2, f, b)
  <2>1. /\ Crypt(c, s) \in Seq(OutSet(c.enc)) /\ Len(Crypt(c, s)) = Len(s)
        /\ \A i \in 1 .. Len(s) : Crypt(c, s)[i] = CryptByte(c, c.done + i, s[i])
    BY <1>1, <1>5, CryptBytes DEF S
  <2> QED BY <1>5, <1>4b, <2>1 DEF f, T, Streamed
<1>7. Streamed(c, in2, 0, o)
  <2>1. ASSUME NEW i \in 1 .. Len(o) PROVE in[i] = in2[i]
    BY <1>1, <1>2, <1>5a
  <2> QED BY <1>1, <2>1, SameStream
<1>8. o \o b \in Seq(T) /\ Len(o \o b) = f + d /\ Streamed(c, in2, 0, o \o b)
  BY <1>1, <1>6, <1>7, Stretch, Longer
<1>9. Streamed(x, in2, 0, o \o b)
  BY <1>8, <1>a, SameStream
<1>10. x.alg \in BlockAlgs => \E k \in Nat : x.done = k * BS
  <2> SUFFICES ASSUME c.alg \in BlockAlgs PROVE \E k \in Nat : f + d = k * BS
    BY <1>4, <1>a
  <2>1. PICK k1 \in Nat : f = k1 * BS
    BY DEF Working, f
  <2>2. PICK k2 \in Nat : d = k2 * BS
    BY <1>3
  <2>3. BS \in Nat
    BY DEF ConstantsOK
  <2>4. f + d = (k1 + k2) * BS
    BY <2>1, <2>2, <2>3
  <2> QED BY <2>4
<1>11. Residue(x, in2)
  <2>1. Len(x.partial) = m + n - d
    BY <1>2, <1>4, <1>5, <1>a
  <2> QED BY <1>3, <1>a, <2>1 DEF Residue
<1>12. /\ x.iv # NoIv \/ x.iv_set = TRUE => x.iv_attempted = TRUE
       /\ x.alg = "ECB_NO_PADDING" => x.iv = NoIv
  BY <1>a DEF Working
<1>13. Working(x, in2, o \o b)
  <2>1. x \in Contexts /\ in2 \in Seq(InSet(x.enc)) /\ o \o b \in Seq(OutSet(x.enc))
    BY <1>5a, <1>8, <1>a DEF S, T
  <2>2. x.done \in 0 .. Len(in2) /\ Len(o \o b) = x.done /\ x.partial = SubSeq(in2, x.done + 1, Len(in2))
    BY <1>2, <1>4, <1>5, <1>5a, <1>8, <1>a, SMTT(30)
  <2>3. x.iv_set = TRUE \/ x.alg = "ECB_NO_PADDING"
    BY <1>a
  <2> QED BY <1>9, <1>10, <1>11, <1>12, <2>1, <2>2, <2>3 DEF Working
<1> QED BY <1>4, <1>6, <1>a, <1>13 DEF in2, x, b, d

(* psa_cipher_update(): it fails and ends the operation, or goes on. *)
Failed(r) == r.c = NoCtx /\ r.st # "SUCCESS" /\ r.bytes = <<>>
WentOn(r, c, in, o, room) ==
    /\ r.st = "SUCCESS" /\ Working(r.c, in, o \o r.bytes) /\ Len(r.bytes) \in 0 .. room
    /\ r.c.alg = c.alg /\ r.c.enc = c.enc /\ r.c.iv = c.iv /\ r.c.iv_set = c.iv_set

(* wolfpsa_cipher_fail() drops the context and releases nothing. *)
LEMMA FailFails ==
    ASSUME NEW st, st # "SUCCESS"
    PROVE  Failed(wolfpsa_cipher_fail(st))
BY DEF Failed, wolfpsa_cipher_fail, Result

(* psa_cipher_update() fails without output, or the operation goes on. *)
LEMMA UpdateCall ==
    ASSUME ConstantsOK, NEW c, NEW in, NEW o, Working(c, in, o),
           NEW data \in Seq(InSet(c.enc)), NEW room \in Nat, NEW overlap \in BOOLEAN,
           NEW r \in psa_cipher_update(c, data, room, overlap)
    PROVE  Failed(r) \/ WentOn(r, c, in \o data, o, room)
<1> DEFINE n == Len(data)
           all == c.partial \o data
           d == process_len(c, n)
           b == Released(c, data)
           x == Stepped(c, data)
<1>1. /\ c \in Contexts /\ in \in Seq(InSet(c.enc)) /\ o \in Seq(OutSet(c.enc)) /\ n \in Nat
      /\ c.iv_set \in BOOLEAN
  BY LenProperties, ContextType DEF Working
<1>2. CASE Failed(r)
  BY <1>2
<1>3. CASE r = Result("SUCCESS", c, <<>>) /\ n = 0
  <2>1. data = <<>>
    BY <1>3, EmptySeq
  <2>2. in \o data = in /\ o \o <<>> = o
    BY <1>1, <2>1, ConcatEmptySeq
  <2>3. r.st = "SUCCESS" /\ r.c = c /\ r.bytes = <<>>
    BY <1>3 DEF Result
  <2> QED BY <2>2, <2>3, EmptySeq DEF WentOn
<1>4. CASE r = Result("SUCCESS", x, b) /\ n # 0 /\ (c.iv_set = TRUE \/ c.alg = "ECB_NO_PADDING")
           /\ ~(room < d)
  <2>1. data # <<>>
    BY <1>4, EmptySeq
  <2> HIDE DEF n
  <2>2. /\ Working(x, in \o data, o \o b) /\ Len(b) = d /\ d \in Nat
        /\ x.alg = c.alg /\ x.enc = c.enc /\ x.iv = c.iv /\ x.iv_set = c.iv_set
    BY <1>4, <2>1, UpdateWorks DEF n
  <2>3. r.st = "SUCCESS" /\ r.c = x /\ r.bytes = b
    BY <1>4 DEF Result
  <2> HIDE DEF x, b, d
  <2> QED BY <1>4, <2>2, <2>3 DEF WentOn
<1>5. \/ Failed(r) \/ (r = Result("SUCCESS", c, <<>>) /\ n = 0)
      \/ (r = Result("SUCCESS", x, b) /\ n # 0 /\ (c.iv_set = TRUE \/ c.alg = "ECB_NO_PADDING")
          /\ ~(room < d))
  <2>1. \/ \E st \in {"NOT_SUPPORTED", "BAD_STATE", "BUFFER_TOO_SMALL", "GENERIC_ERROR"} :
              r = wolfpsa_cipher_fail(st)
        \/ (r = Result("SUCCESS", c, <<>>) /\ n = 0)
        \/ (r = Result("SUCCESS", x, b) /\ n # 0
            /\ (c.iv_set = TRUE \/ c.alg = "ECB_NO_PADDING") /\ ~(room < d))
    BY <1>1 DEF psa_cipher_update, Stepped, Released, Updated, Retained
  <2> QED BY <2>1, FailFails
<1> QED BY <1>2, <1>3, <1>4, <1>5

-----------------------------------------------------------------------------
(* psa_cipher_finish(): it fails, or it has encrypted all the input, or it has   *)
(* decrypted what the input is the encryption of.                             *)
Ended(r, c, in, o, room) ==
    /\ r.st = "SUCCESS" /\ r.c = NoCtx /\ Len(r.bytes) \in 0 .. room
    /\ c.enc = TRUE => Encrypted(c.alg, c.iv, in, o \o r.bytes)
    /\ c.enc = FALSE => \A m \in Seq(Int) : Encrypted(c.alg, c.iv, m, in) => o \o r.bytes = m

(* The padding of PKCS#7. *)
LEMMA PaddingBytes ==
    ASSUME NEW p \in Nat
    PROVE  Pad(p) \in Seq(Int) /\ Len(Pad(p)) = p /\ \A i \in 1 .. p : Pad(p)[i] = -p
<1>1. Pad(p) \in [1 .. p -> Int]
  BY DEF Pad
<1>2. Pad(p) \in Seq(Int) /\ Len(Pad(p)) = p
  BY <1>1, DOMAIN Pad(p) = 1 .. p, LenProperties
<1> QED BY <1>2 DEF Pad

(* A message and its padding. *)
LEMMA PaddedText ==
    ASSUME NEW m \in Seq(Int), NEW p \in Nat
    PROVE  /\ m \o Pad(p) \in Seq(Int) /\ Len(m \o Pad(p)) = Len(m) + p /\ Len(m) \in Nat
           /\ \A i \in 1 .. Len(m) : (m \o Pad(p))[i] = m[i]
           /\ p # 0 => (m \o Pad(p))[Len(m) + p] = -p
<1>1. Pad(p) \in Seq(Int) /\ Len(Pad(p)) = p /\ \A i \in 1 .. p : Pad(p)[i] = -p
  BY PaddingBytes
<1>2. Len(m) \in Nat
  BY LenProperties
<1>3. \A i \in 1 .. Len(Pad(p)) : (m \o Pad(p))[Len(m) + i] = Pad(p)[i]
  BY <1>1, Longer
<1>4. ASSUME p # 0 PROVE (m \o Pad(p))[Len(m) + p] = -p
  <2>1. p \in 1 .. p /\ p \in 1 .. Len(Pad(p))
    BY <1>1, <1>4
  <2> QED BY <1>1, <1>3, <2>1
<1>5. /\ m \o Pad(p) \in Seq(Int) /\ Len(m \o Pad(p)) = Len(m) + Len(Pad(p))
      /\ \A i \in 1 .. Len(m) : (m \o Pad(p))[i] = m[i]
  BY <1>1, Longer
<1> QED BY <1>1, <1>2, <1>4, <1>5

(* Encrypting a whole text. *)
LEMMA EncryptsAll ==
    ASSUME ConstantsOK, NEW c \in Contexts, c.enc = TRUE, NEW m \in Seq(Int),
           NEW t \in Seq(Int),
           Text(c.alg, m, t), NEW b \in Seq(Coded), Len(b) = Len(t), Streamed(c, t, 0, b)
    PROVE  Encrypted(c.alg, c.iv, m, b)
<1>1. Streamed(Sealing(c.alg, c.iv), t, 0, b)
  <2> DEFINE x == Sealing(c.alg, c.iv)
  <2>1. x.alg = c.alg /\ x.enc = c.enc /\ x.iv = c.iv
    BY DEF Sealing
  <2> HIDE DEF x
  <2>2. Streamed(x, t, 0, b)
    BY <2>1, SameStream
  <2> QED BY <2>2 DEF x
<1> QED BY <1>1 DEF Encrypted

(* Decrypting an encryption gives its text. *)
LEMMA DecryptsText ==
    ASSUME ConstantsOK, NEW c \in Contexts, c.enc = FALSE, NEW t \in Seq(Int),
           NEW in \in Seq(Coded),
           Len(in) = Len(t), Streamed(Sealing(c.alg, c.iv), t, 0, in)
    PROVE  \A i \in 1 .. Len(t) : CryptByte(c, i, in[i]) = t[i]
<1> SUFFICES ASSUME NEW i \in 1 .. Len(t) PROVE CryptByte(c, i, in[i]) = t[i]
  OBVIOUS
<1>1. 0 + i = i
  BY LenProperties
<1>2. in[i] = CryptByte(Sealing(c.alg, c.iv), 0 + i, t[0 + i])
  BY DEF Streamed
<1>3. CryptByte(c, i, CryptByte(Sealing(c.alg, c.iv), i, t[i])) = t[i]
  BY DEF CryptByte, Key, Sealing
<1> QED BY <1>1, <1>2, <1>3

(* Without padding: all the input has been processed. *)
LEMMA FinishPlain ==
    ASSUME ConstantsOK, NEW c, NEW in, NEW o, Working(c, in, o), c.alg # "CBC_PKCS7",
           c.partial = <<>>, NEW room \in Nat, NEW r, r = Result("SUCCESS", NoCtx, <<>>)
    PROVE  Ended(r, c, in, o, room)
<1>1. r.st = "SUCCESS" /\ r.c = NoCtx /\ r.bytes = <<>>
  BY DEF Result
<1>2. /\ c \in Contexts /\ in \in Seq(InSet(c.enc)) /\ o \in Seq(OutSet(c.enc)) /\ Len(o) = c.done
      /\ Streamed(c, in, 0, o) /\ c.done = Len(in)
  <2>1. Len(c.partial) = Len(in) - c.done /\ Len(in) \in Nat /\ c.done \in 0 .. Len(in)
    BY RetainedBytes
  <2>2. Len(c.partial) = 0
    BY EmptySeq
  <2> QED BY <2>1, <2>2 DEF Working
<1>3. o \o r.bytes = o /\ Len(r.bytes) \in 0 .. room
  BY <1>1, <1>2, EmptySeq, ConcatEmptySeq
<1>4. ASSUME c.enc = TRUE PROVE Encrypted(c.alg, c.iv, in, o)
  <2>1. in \in Seq(Int) /\ o \in Seq(Coded) /\ Text(c.alg, in, in)
    BY <1>2, <1>4 DEF InSet, OutSet, Text
  <2> QED BY <1>2, <1>4, <2>1, EncryptsAll
<1>5. ASSUME c.enc = FALSE, NEW m \in Seq(Int), Encrypted(c.alg, c.iv, m, in) PROVE o = m
  <2>1. /\ in \in Seq(Coded) /\ Len(in) = Len(m) /\ Streamed(Sealing(c.alg, c.iv), m, 0, in)
    BY <1>5 DEF Encrypted, Text
  <2>2. \A i \in 1 .. Len(m) : CryptByte(c, i, in[i]) = m[i]
    BY <1>2, <1>5, <2>1, DecryptsText
  <2>3. Len(o) = Len(m)
    BY <1>2, <2>1
  <2>4. ASSUME NEW i \in 1 .. Len(o) PROVE o[i] = m[i]
    <3>1. o[i] = CryptByte(c, 0 + i, in[0 + i]) /\ 0 + i = i
      BY <1>2, LenProperties DEF Streamed
    <3> QED BY <2>2, <2>3, <3>1
  <2> QED BY <1>2, <2>3, <2>4, SeqEqual
<1> QED BY <1>1, <1>3, <1>4, <1>5 DEF Ended

(* PKCS#7: the rest of the input and the padding make the last block. *)
LEMMA FinishPadded ==
    ASSUME ConstantsOK, NEW c, NEW in, NEW o, Working(c, in, o), c.alg = "CBC_PKCS7",
           c.enc = TRUE, NEW room \in Nat, NEW r \in EncryptPadding(c, room)
    PROVE  Failed(r) \/ Ended(r, c, in, o, room)
<1> DEFINE p == pad_len(c)
           block == c.partial \o Pad(p)
           t == in \o Pad(p)
           f == c.done
<1>1. /\ c \in Contexts /\ in \in Seq(Int) /\ o \in Seq(Coded) /\ Len(o) = f
      /\ Streamed(c, in, 0, o) /\ f \in 0 .. Len(in) /\ Len(in) \in Nat
      /\ c.partial \in Seq(Int) /\ Len(c.partial) = Len(in) - f
      /\ c.partial = SubSeq(in, f + 1, Len(in)) /\ BS \in Nat \ {0}
  BY RetainedBytes DEF Working, InSet, OutSet, ConstantsOK
<1>2. \/ \E st \in {"BUFFER_TOO_SMALL", "GENERIC_ERROR", "BAD_STATE"} : r = wolfpsa_cipher_fail(st)
      \/ (r = Result("SUCCESS", NoCtx, Crypt(c, block)) /\ room >= BS /\ Len(c.partial) < BS)
  BY <1>1 DEF EncryptPadding, FinishFits, Pad
<1>3. CASE \E st \in {"BUFFER_TOO_SMALL", "GENERIC_ERROR", "BAD_STATE"} : r = wolfpsa_cipher_fail(st)
  BY <1>3, FailFails
<1>4. CASE r = Result("SUCCESS", NoCtx, Crypt(c, block)) /\ room >= BS /\ Len(c.partial) < BS
  <2>1. r.st = "SUCCESS" /\ r.c = NoCtx /\ r.bytes = Crypt(c, block)
    BY <1>4 DEF Result
  <2>1a. room >= BS /\ Len(c.partial) < BS
    BY <1>4
  <2> DEFINE q == Len(c.partial)
             L == Len(in)
  <2>1b. q = L - f /\ L \in Nat /\ f \in 0 .. L /\ f \in Nat /\ BS \in Nat \ {0} /\ q < BS
    BY <1>1, <2>1a
  <2>1c. p = BS - q
    BY DEF pad_len
  <2> HIDE DEF p, q, L, f
  <2>2. p \in 1 .. BS /\ p \in Nat /\ L + p = f + BS
    BY <2>1b, <2>1c
  <2>3. Pad(p) \in Seq(Int) /\ Len(Pad(p)) = p
    BY <2>2, PaddingBytes
  <2>4. t \in Seq(Int) /\ Len(t) = f + BS /\ \A i \in 1 .. L : t[i] = in[i]
    <3>1. /\ in \o Pad(p) \in Seq(Int) /\ Len(in \o Pad(p)) = Len(in) + p
          /\ \A i \in 1 .. Len(in) : (in \o Pad(p))[i] = in[i]
      BY <1>1, <2>2, PaddedText
    <3> QED BY <2>2, <3>1 DEF L
  <2>4a. block = SubSeq(t, f + 1, Len(t))
    <3>1. SubSeq(in, f + 1, Len(in)) \o Pad(p) = SubSeq(in \o Pad(p), f + 1, Len(in) + Len(Pad(p)))
      BY <1>1, <2>3, Glue
    <3>2. Len(in \o Pad(p)) = Len(in) + Len(Pad(p))
      BY <1>1, <2>2, <2>3, PaddedText
    <3> QED BY <1>1, <3>1, <3>2
  <2> HIDE DEF t, block
  <2>5. f \in 0 .. Len(t) /\ Len(t) - f = BS
    BY <2>1b, <2>4
  <2>6. block \in Seq(Int) /\ Len(block) = Len(t) - f /\ \A i \in 1 .. Len(t) - f : block[i] = t[f + i]
    BY <2>4, <2>4a, <2>5, Ending
  <2>7. Len(block) = BS
    BY <2>5, <2>6
  <2> DEFINE b == Crypt(c, block)
  <2>8. b \in Seq(Coded) /\ Len(b) = BS /\ \A i \in 1 .. BS : b[i] = CryptByte(c, f + i, block[i])
    <3>1. block \in Seq(InSet(c.enc)) /\ OutSet(c.enc) = Coded
      BY <2>6 DEF InSet, OutSet
    <3> QED BY <1>1, <2>7, <3>1, CryptBytes DEF f
  <2> HIDE DEF b
  <2>9. Streamed(c, t, f, b)
    <3>1. ASSUME NEW i \in 1 .. Len(b) PROVE b[i] = CryptByte(c, f + i, t[f + i])
      BY <2>5, <2>6, <2>7, <2>8
    <3> QED BY <3>1 DEF Streamed
  <2>10. Streamed(c, t, 0, o)
    <3>1. ASSUME NEW i \in 1 .. Len(o) PROVE in[i] = t[i]
      BY <1>1, <2>1b, <2>4
    <3> QED BY <1>1, <3>1, SameStream
  <2>11. o \o b \in Seq(Coded) /\ Len(o \o b) = Len(t) /\ Streamed(c, t, 0, o \o b)
    <3>1. o \in Seq(Coded) /\ b \in Seq(Coded) /\ Len(o) = f /\ Len(b) = BS
      BY <1>1, <2>8
    <3>2. o \o b \in Seq(Coded) /\ Len(o \o b) = Len(o) + Len(b)
      BY <3>1, Longer
    <3>3. Streamed(c, t, Len(o), b)
      BY <2>9, <3>1
    <3>4. Streamed(c, t, 0, o \o b)
      BY <3>1, <3>3, <2>10, Stretch
    <3> QED BY <2>4, <3>1, <3>2, <3>4
  <2>12. Text(c.alg, in, t)
    BY <2>2 DEF Text, t
  <2>13. Encrypted(c.alg, c.iv, in, o \o b)
    BY <1>1, <2>4, <2>11, <2>12, EncryptsAll
  <2>14. r.bytes = b /\ Len(b) \in 0 .. room
    BY <1>1, <2>1a, <2>1, <2>8 DEF b
  <2> QED BY <2>1, <2>13, <2>14 DEF Ended
<1> QED BY <1>2, <1>3, <1>4

(* PKCS#7: the last block is decrypted and loses its padding. *)
LEMMA FinishUnpadded ==
    ASSUME ConstantsOK, NEW c, NEW in, NEW o, Working(c, in, o), c.alg = "CBC_PKCS7",
           c.enc = FALSE, NEW room \in Nat, NEW r \in DecryptPadding(c, room)
    PROVE  Failed(r) \/ Ended(r, c, in, o, room)
<1> DEFINE block == Crypt(c, c.partial)
           f == c.done
           T == Int \union {Garbage}
           pads == IF block[BS] # Garbage /\ block[BS] < 0 THEN {-block[BS]} ELSE 0 .. BS
<1>1. /\ c \in Contexts /\ in \in Seq(Coded) /\ o \in Seq(T) /\ Len(o) = f
      /\ Streamed(c, in, 0, o) /\ f \in 0 .. Len(in) /\ Len(in) \in Nat
      /\ c.partial \in Seq(InSet(c.enc)) /\ Len(c.partial) = Len(in) - f
      /\ \A i \in 1 .. Len(in) - f : c.partial[i] = in[f + i]
  <2>1. /\ c \in Contexts /\ in \in Seq(Coded) /\ o \in Seq(T) /\ Len(o) = f
        /\ Streamed(c, in, 0, o)
    BY DEF Working, InSet, OutSet
  <2> QED BY <2>1, RetainedBytes
<1>1a. BS \in Nat \ {0} /\ Garbage \notin Int /\ f \in Nat
  BY <1>1 DEF ConstantsOK
<1>2. \/ \E st \in {"INVALID_PADDING", "GENERIC_ERROR", "BUFFER_TOO_SMALL"} : r = wolfpsa_cipher_fail(st)
      \/ \E p \in pads : /\ Len(c.partial) = BS /\ p # 0 /\ room >= BS - p
                         /\ r = Result("SUCCESS", NoCtx, SubSeq(block, 1, BS - p))
  BY DEF DecryptPadding, FinishFits
<1>3. CASE \E st \in {"INVALID_PADDING", "GENERIC_ERROR", "BUFFER_TOO_SMALL"} : r = wolfpsa_cipher_fail(st)
  BY <1>3, FailFails
<1>4. CASE \E p \in pads : /\ Len(c.partial) = BS /\ p # 0 /\ room >= BS - p
                           /\ r = Result("SUCCESS", NoCtx, SubSeq(block, 1, BS - p))
  <2> HIDE DEF block
  <2>1. PICK p \in pads : /\ Len(c.partial) = BS /\ p # 0 /\ room >= BS - p
                          /\ r = Result("SUCCESS", NoCtx, SubSeq(block, 1, BS - p))
    BY <1>4
  <2> HIDE DEF pads, f, T
  <2> DEFINE b == SubSeq(block, 1, BS - p)
  <2>2. r.st = "SUCCESS" /\ r.c = NoCtx /\ r.bytes = b
    BY <2>1 DEF Result
  <2>2a. Len(c.partial) = BS /\ p # 0 /\ room >= BS - p
    BY <2>1
  <2>3. /\ block \in Seq(T) /\ Len(block) = BS
        /\ \A i \in 1 .. BS : block[i] = CryptByte(c, f + i, c.partial[i])
    BY <1>1, <2>2a, CryptBytes DEF block, OutSet, T, f
  <2>4. p \in Nat \ {0}
    <3>1. block[BS] \in Int \union {Garbage}
      BY <1>1a, <2>3, ElementOfSeq DEF T
    <3> QED BY <1>1a, <2>2a, <3>1 DEF pads
  <2>5. b \in Seq(T) /\ Len(b) \in 0 .. room
    <3>1. \A i \in 1 .. BS - p : block[i] \in T
      BY <1>1a, <2>3, <2>4, ElementOfSeq
    <3>2. b \in Seq(T) /\ Len(b) = IF 1 =< BS - p THEN (BS - p) - 1 + 1 ELSE 0
      <4>1. BS - p \in Int /\ 1 \in Int
        BY <1>1a, <2>4
      <4> QED BY <3>1, <4>1, SubSeqProperties
    <3> QED BY <1>1a, <2>2a, <2>4, <3>2
  <2>6. ASSUME NEW m \in Seq(Int), Encrypted(c.alg, c.iv, m, in) PROVE o \o b = m
    <3>1. PICK t \in Seq(Int) : /\ Text(c.alg, m, t) /\ Len(in) = Len(t)
                                /\ Streamed(Sealing(c.alg, c.iv), t, 0, in)
      BY <2>6 DEF Encrypted
    <3>2. PICK q \in 1 .. BS : t = m \o Pad(q)
      BY <3>1 DEF Text
    <3>3. q \in Nat \ {0} /\ q =< BS
      BY <1>1a
    <3>4. /\ Len(t) = Len(m) + q /\ Len(m) \in Nat /\ \A i \in 1 .. Len(m) : t[i] = m[i]
          /\ t[Len(m) + q] = -q
      BY <3>2, <3>3, PaddedText
    <3>5. Len(t) = f + BS
      BY <1>1, <1>1a, <2>2a, <3>1
    <3>6. \A i \in 1 .. Len(t) : CryptByte(c, i, in[i]) = t[i]
      BY <1>1, <3>1, DecryptsText
    <3>7. \A i \in 1 .. BS : block[i] = t[f + i]
      <4> SUFFICES ASSUME NEW i \in 1 .. BS PROVE block[i] = t[f + i]
        OBVIOUS
      <4>1. i \in 1 .. Len(in) - f /\ f + i \in 1 .. Len(t)
        BY <1>1, <1>1a, <2>2a, <3>5
      <4>2. block[i] = CryptByte(c, f + i, c.partial[i]) /\ c.partial[i] = in[f + i]
        BY <1>1, <2>3, <4>1
      <4> QED BY <3>6, <4>1, <4>2
    <3>8. p = q
      <4>1. BS \in 1 .. BS /\ f + BS = Len(m) + q
        <5>1. Len(t) = Len(m) + q /\ Len(t) = f + BS
          BY <3>4, <3>5
        <5> QED BY <1>1a, <5>1
      <4>2. block[BS] = -q
        BY <3>4, <3>7, <4>1
      <4>3. block[BS] # Garbage /\ block[BS] < 0 /\ -block[BS] = q
        BY <1>1a, <3>3, <4>2
      <4> QED BY <4>3 DEF pads
    <3>9. Len(m) = f + (BS - p) /\ BS - p \in 0 .. BS
      BY <1>1a, <3>3, <3>4, <3>5, <3>8
    <3>10. Len(b) = BS - p /\ \A i \in 1 .. BS - p : b[i] = block[i]
      BY <2>3, <3>9, Beginning
    <3> HIDE DEF b
    <3>10a. o \in Seq(T) /\ b \in Seq(T)
      BY <1>1, <2>5
    <3>11. /\ o \o b \in Seq(T) /\ Len(o \o b) = Len(o) + Len(b)
           /\ \A i \in 1 .. Len(o) : (o \o b)[i] = o[i]
           /\ \A i \in 1 .. Len(b) : (o \o b)[Len(o) + i] = b[i]
      BY <3>10a, Longer
    <3>12. Len(o \o b) = Len(m)
      BY <1>1, <3>9, <3>10, <3>11
    <3>13. ASSUME NEW i \in 1 .. Len(o \o b) PROVE (o \o b)[i] = m[i]
      <4>0. i \in 1 .. Len(m) /\ t[i] = m[i] /\ i \in Nat
        BY <3>4, <3>12
      <4>1. CASE i =< f
        <5>1. i \in 1 .. Len(o) /\ i \in 1 .. Len(t) /\ 0 + i = i
          BY <1>1, <1>1a, <3>5, <4>0, <4>1
        <5>2. o[i] = CryptByte(c, 0 + i, in[0 + i])
          BY <1>1, <5>1 DEF Streamed
        <5> QED BY <3>6, <3>11, <4>0, <5>1, <5>2
      <4>2. CASE ~(i =< f)
        <5> DEFINE j == i - f
        <5>1. j \in 1 .. BS - p /\ j \in 1 .. BS /\ f + j = i
          BY <1>1a, <3>9, <4>0, <4>2
        <5> HIDE DEF j
        <5>2. (o \o b)[f + j] = b[j] /\ b[j] = block[j] /\ block[j] = t[f + j]
          BY <1>1, <3>7, <3>10, <3>11, <5>1
        <5> QED BY <4>0, <5>1, <5>2
      <4> QED BY <4>1, <4>2
    <3>14. m \in Seq(T)
      BY ElementOfSeq DEF T
    <3> QED BY <3>11, <3>12, <3>13, <3>14, SeqEqual
  <2> QED BY <2>2, <2>5, <2>6 DEF Ended
<1> QED BY <1>2, <1>3, <1>4

(* psa_cipher_finish() fails without output, or ends the operation. *)
LEMMA FinishCall ==
    ASSUME ConstantsOK, NEW c, NEW in, NEW o, Working(c, in, o), NEW room \in Nat,
           NEW r \in psa_cipher_finish(c, room)
    PROVE  Failed(r) \/ Ended(r, c, in, o, room)
<1>1. c.alg \in StreamAlgs \union BlockAlgs /\ c.enc \in BOOLEAN /\ c.iv_set \in BOOLEAN
  BY ContextType DEF Working
<1>2. CASE c.alg = "CBC_PKCS7"
  <2>1. r = wolfpsa_cipher_fail("BAD_STATE") \/ (c.enc = TRUE /\ r \in EncryptPadding(c, room))
        \/ (c.enc = FALSE /\ r \in DecryptPadding(c, room))
    BY <1>1, <1>2 DEF psa_cipher_finish
  <2> QED BY <1>2, <2>1, FailFails, FinishPadded, FinishUnpadded
<1>3. CASE c.alg # "CBC_PKCS7"
  <2>1. \/ r = wolfpsa_cipher_fail("INVALID_ARGUMENT")
        \/ (r = Result("SUCCESS", NoCtx, <<>>) /\ (c.alg \in BlockAlgs => c.partial = <<>>))
    BY <1>3 DEF psa_cipher_finish
  <2>2. c.alg \in StreamAlgs => c.partial = <<>>
    BY RetainedBytes, EmptySeq
  <2> QED BY <1>1, <1>3, <2>1, <2>2, FailFails, FinishPlain
<1> QED BY <1>2, <1>3

-----------------------------------------------------------------------------
(* A new operation, and one that is given its IV. *)
LEMMA NewWorks ==
    ASSUME ConstantsOK, NEW alg \in Algs, NEW enc \in BOOLEAN
    PROVE  /\ Working(NewCtx(alg, enc), <<>>, <<>>) /\ NewCtx(alg, enc).alg = alg
           /\ NewCtx(alg, enc).enc = enc /\ NewCtx(alg, enc).iv = NoIv
           /\ NewCtx(alg, enc).iv_set = FALSE
<1> DEFINE c == NewCtx(alg, enc)
<1>1. /\ c.alg = alg /\ c.enc = enc /\ c.iv = NoIv /\ c.iv_set = FALSE /\ c.iv_attempted = FALSE
      /\ c.partial = <<>> /\ c.done = 0
  BY DEF NewCtx
<1>2. c \in Contexts
  <2>1. <<>> \in Seq(Int) \union Seq(Coded)
    BY EmptySeq
  <2> QED BY <2>1 DEF NewCtx, Contexts
<1> HIDE DEF c
<1>3. <<>> \in Seq(InSet(c.enc)) /\ <<>> \in Seq(OutSet(c.enc)) /\ Len(<<>>) = 0
  BY EmptySeq
<1>4. c.partial = SubSeq(<<>>, c.done + 1, Len(<<>>))
  <2>1. Len(SubSeq(<<>>, 0 + 1, Len(<<>>))) = 0 /\ SubSeq(<<>>, 0 + 1, Len(<<>>)) \in Seq(InSet(c.enc))
    BY <1>3, Ending, 0 \in 0 .. Len(<<>>)
  <2> QED BY <1>1, <2>1, EmptySeq
<1>5. Streamed(c, <<>>, 0, <<>>)
  BY <1>3 DEF Streamed
<1>6. Residue(c, <<>>) /\ BS \in Nat \ {0}
  BY <1>1, <1>3 DEF Residue, ConstantsOK
<1>7. c.done = 0 * BS
  BY <1>1, <1>6
<1>8. Working(c, <<>>, <<>>)
  <2>1. c.done \in 0 .. Len(<<>>) /\ Len(<<>>) = c.done
    BY <1>1, <1>3
  <2>2. \E k \in Nat : c.done = k * BS
    BY <1>7
  <2> QED BY <1>1, <1>2, <1>3, <1>4, <1>5, <1>6, <2>1, <2>2 DEF Working
<1> QED BY <1>1, <1>8 DEF c

WithIv(c, iv) == [c EXCEPT !.iv = iv, !.iv_set = TRUE, !.iv_attempted = TRUE]
IvSet(r, c, in, o, iv) ==
    /\ r.st = "SUCCESS" /\ r.bytes = <<>> /\ in = <<>> /\ Working(r.c, in, o)
    /\ r.c.iv = iv /\ r.c.alg = c.alg /\ r.c.enc = c.enc /\ c.iv = NoIv

(* An operation that takes its IV. *)
LEMMA IvWorks ==
    ASSUME ConstantsOK, NEW c, NEW in, NEW o, Working(c, in, o), c.iv_attempted = FALSE,
           c.alg # "ECB_NO_PADDING", NEW iv \in Ivs \union {NoIv}
    PROVE  IvSet(Result("SUCCESS", WithIv(c, iv), <<>>), c, in, o, iv)
<1> DEFINE x == WithIv(c, iv)
<1>1. /\ c \in Contexts /\ in \in Seq(InSet(c.enc)) /\ o \in Seq(OutSet(c.enc))
      /\ c.done \in 0 .. Len(in) /\ Len(o) = c.done /\ c.iv = NoIv /\ c.iv_set = FALSE
      /\ c.partial = SubSeq(in, c.done + 1, Len(in)) /\ Residue(c, in)
      /\ c.alg \in BlockAlgs => \E k \in Nat : c.done = k * BS
  BY ContextType DEF Working
<1>2. /\ x.alg = c.alg /\ x.enc = c.enc /\ x.iv = iv /\ x.iv_set = TRUE /\ x.iv_attempted = TRUE
      /\ x.partial = c.partial /\ x.done = c.done
  BY <1>1 DEF WithIv, Contexts
<1>3. x \in Contexts
  BY <1>1 DEF WithIv, Contexts
<1> HIDE DEF x
<1>4. in = <<>> /\ Len(o) = 0
  <2>1. in = <<>>
    BY <1>1 DEF Working
  <2> QED BY <1>1, <2>1, EmptySeq
<1>5. Streamed(x, in, 0, o)
  BY <1>4 DEF Streamed
<1>6. Residue(x, in)
  BY <1>1, <1>2 DEF Residue
<1>7. Working(x, in, o)
  BY <1>1, <1>2, <1>3, <1>4, <1>5, <1>6 DEF Working
<1>8. IvSet(Result("SUCCESS", x, <<>>), c, in, o, iv)
  BY <1>1, <1>2, <1>4, <1>7 DEF IvSet, Result
<1> QED BY <1>8 DEF x

(* psa_cipher_set_iv(). *)
LEMMA SetIvWorks ==
    ASSUME ConstantsOK, NEW c, NEW in, NEW o, Working(c, in, o), NEW iv \in Ivs \union {NoIv},
           NEW lenOk \in BOOLEAN, NEW r \in wolfpsa_cipher_set_iv(c, iv, lenOk)
    PROVE  Failed(r) \/ IvSet(r, c, in, o, iv)
<1>1. c.iv_attempted \in BOOLEAN /\ BS # 0
  BY ContextType DEF Working, ConstantsOK
<1>2. \/ \E st \in {"BAD_STATE", "INVALID_ARGUMENT", "GENERIC_ERROR"} : r = wolfpsa_cipher_fail(st)
      \/ (r = Result("SUCCESS", WithIv(c, iv), <<>>) /\ c.iv_attempted = FALSE
          /\ c.alg # "ECB_NO_PADDING")
  BY <1>1 DEF wolfpsa_cipher_set_iv, SetIv, wolfpsa_cipher_iv_length, WithIv
<1> QED BY <1>2, FailFails, IvWorks

(* psa_cipher_generate_iv(). *)
LEMMA GenerateIvWorks ==
    ASSUME ConstantsOK, NEW c, NEW in, NEW o, Working(c, in, o), NEW iv \in Ivs \union {NoIv},
           NEW size, NEW r \in wolfpsa_cipher_generate_iv(c, iv, size)
    PROVE  Failed(r) \/ IvSet(r, c, in, o, iv)
<1> DEFINE yes == TRUE
<1>1. \/ \E st \in {"BAD_STATE", "BUFFER_TOO_SMALL", "INSUFFICIENT_ENTROPY"} :
            r = wolfpsa_cipher_fail(st)
      \/ r \in wolfpsa_cipher_set_iv(c, iv, yes)
  BY DEF wolfpsa_cipher_generate_iv
<1>2. yes \in BOOLEAN
  OBVIOUS
<1> HIDE DEF yes
<1> QED BY <1>1, <1>2, FailFails, SetIvWorks

-----------------------------------------------------------------------------
(* The one-shot functions. *)
OneShot(r, c, data, room) ==
    /\ Len(r.bytes) \in 0 .. room
    /\ r.st = "SUCCESS" =>
          /\ c.enc = TRUE => Encrypted(c.alg, c.iv, data, r.bytes)
          /\ c.enc = FALSE => \A m \in Seq(Int) : Encrypted(c.alg, c.iv, m, data) => r.bytes = m

(* A one-shot call that fails. *)
LEMMA FailedOneShot ==
    ASSUME NEW r, Failed(r), NEW c, NEW data, NEW room \in Nat
    PROVE  OneShot(r, c, data, room)
BY EmptySeq DEF Failed, OneShot

(* psa_cipher_finish() after an update of the whole input. *)
LEMMA FinishAfter ==
    ASSUME ConstantsOK, NEW c, NEW data, NEW room \in Nat, NEW u,
           WentOn(u, c, data, <<>>, room),
           NEW f \in psa_cipher_finish(u.c, room - Len(u.bytes)), NEW r,
           r = [f EXCEPT !.bytes = u.bytes \o @], DOMAIN f = {"st", "c", "bytes"}
    PROVE  OneShot(r, c, data, room)
<1> DEFINE S == OutSet(u.c.enc)
           n == Len(u.bytes)
<1>1. /\ Working(u.c, data, <<>> \o u.bytes) /\ n \in 0 .. room
      /\ u.c.alg = c.alg /\ u.c.enc = c.enc /\ u.c.iv = c.iv
  BY DEF WentOn
<1>2. u.bytes = <<>> \o u.bytes
  OBVIOUS
<1>2a. Working(u.c, data, u.bytes) /\ u.bytes \in Seq(S)
  BY <1>1, <1>2 DEF Working
<1>3. room - n \in Nat
  BY <1>1
<1>4. r.st = f.st /\ r.bytes = u.bytes \o f.bytes
  OBVIOUS
<1>5. Failed(f) \/ Ended(f, u.c, data, u.bytes, room - n)
  BY <1>2a, <1>3, FinishCall
<1>6. CASE Failed(f)
  <2>1. r.bytes = u.bytes
    BY <1>2a, <1>4, <1>6, ConcatEmptySeq DEF Failed
  <2> QED BY <1>1, <1>4, <1>6, <2>1 DEF OneShot, Failed
<1>7. CASE Ended(f, u.c, data, u.bytes, room - n)
  <2>1. /\ Len(f.bytes) \in 0 .. room - n
        /\ c.enc = TRUE => Encrypted(c.alg, c.iv, data, r.bytes)
        /\ c.enc = FALSE => \A m \in Seq(Int) : Encrypted(c.alg, c.iv, m, data) => r.bytes = m
    BY <1>1, <1>4, <1>7 DEF Ended
  <2>2. Len(r.bytes) = n + Len(f.bytes)
    BY <1>4
  <2> QED BY <1>1, <2>1, <2>2 DEF OneShot
<1> QED BY <1>5, <1>6, <1>7

(* The statuses of psa_cipher_finish(). *)
LEMMA FinishResults ==
    ASSUME NEW c, NEW room, NEW f \in psa_cipher_finish(c, room)
    PROVE  DOMAIN f = {"st", "c", "bytes"}
<1>1. \A st, x, b : DOMAIN Result(st, x, b) = {"st", "c", "bytes"}
  BY DEF Result
<1>2. \E st, x, b : f = Result(st, x, b)
  <2>1. CASE c.alg = "CBC_PKCS7" /\ c.iv_set /\ c.enc
    BY <2>1 DEF psa_cipher_finish, EncryptPadding, wolfpsa_cipher_fail
  <2>2. CASE c.alg = "CBC_PKCS7" /\ c.iv_set /\ ~c.enc
    BY <2>2 DEF psa_cipher_finish, DecryptPadding, wolfpsa_cipher_fail
  <2>3. CASE ~(c.alg = "CBC_PKCS7" /\ c.iv_set)
    BY <2>3 DEF psa_cipher_finish, wolfpsa_cipher_fail
  <2> QED BY <2>1, <2>2, <2>3
<1> QED BY <1>1, <1>2

(* psa_cipher_update() and psa_cipher_finish() of a one-shot call. *)
LEMMA UpdateFinishWorks ==
    ASSUME ConstantsOK, NEW c, Working(c, <<>>, <<>>), NEW data \in Seq(InSet(c.enc)),
           NEW room \in Nat, NEW r \in UpdateFinish(c, data, room)
    PROVE  OneShot(r, c, data, room)
<1> DEFINE us == psa_cipher_update(c, data, room, FALSE)
           fs(u) == psa_cipher_finish(u.c, room - Len(u.bytes))
           no == FALSE
<1>1. \E u \in us : IF u.st = "SUCCESS" THEN \E f \in fs(u) : r = [f EXCEPT !.bytes = u.bytes \o @]
                    ELSE r = u
  <2> HIDE DEF us, fs
  <2>1. UpdateFinish(c, data, room)
           = UNION {IF u.st = "SUCCESS" THEN {[f EXCEPT !.bytes = u.bytes \o @] : f \in fs(u)}
                    ELSE {u} : u \in us}
    BY DEF UpdateFinish, Then, us, fs
  <2>2. PICK X \in {IF u.st = "SUCCESS" THEN {[f EXCEPT !.bytes = u.bytes \o @] : f \in fs(u)}
                    ELSE {u} : u \in us} : r \in X
    BY <2>1
  <2>3. PICK u \in us : r \in IF u.st = "SUCCESS" THEN {[f EXCEPT !.bytes = u.bytes \o @] : f \in fs(u)}
                              ELSE {u}
    BY <2>2
  <2> QED BY <2>3
<1>2. PICK u \in us : IF u.st = "SUCCESS" THEN \E f \in fs(u) : r = [f EXCEPT !.bytes = u.bytes \o @]
                      ELSE r = u
  BY <1>1
<1>3. u \in psa_cipher_update(c, data, room, no) /\ no \in BOOLEAN
  BY <1>2
<1> HIDE DEF us, no
<1>4. Failed(u) \/ WentOn(u, c, <<>> \o data, <<>>, room)
  BY <1>3, UpdateCall
<1>5. CASE Failed(u)
  <2>1. r = u
    BY <1>2, <1>5 DEF Failed
  <2> QED BY <1>5, <2>1, FailedOneShot
<1>6. CASE WentOn(u, c, <<>> \o data, <<>>, room)
  <2>1. u.st = "SUCCESS"
    BY <1>6 DEF WentOn
  <2>2. PICK f \in fs(u) : r = [f EXCEPT !.bytes = u.bytes \o @]
    BY <1>2, <2>1
  <2>3. DOMAIN f = {"st", "c", "bytes"}
    BY FinishResults
  <2>4. <<>> \o data = data
    BY ConcatEmptySeq
  <2> QED BY <1>6, <2>2, <2>3, <2>4, FinishAfter
<1> QED BY <1>4, <1>5, <1>6

(* psa_cipher_encrypt_setup() and psa_cipher_decrypt_setup() without an operation. *)
LEMMA SetupResults ==
    ASSUME NEW key, NEW alg, NEW s,
           NEW new \in {NewCtx(alg, TRUE), NewCtx(alg, FALSE)},
           \/ s \in psa_cipher_encrypt_setup(NoCtx, key, alg) /\ new = NewCtx(alg, TRUE)
           \/ s \in psa_cipher_decrypt_setup(NoCtx, key, alg) /\ new = NewCtx(alg, FALSE)
    PROVE  s = Result("SUCCESS", new, <<>>) \/ Failed(s)
<1>1. \E v : IF v = "SUCCESS" THEN s = Result(v, new, <<>>) ELSE s = Result(v, NoCtx, <<>>)
  BY DEF psa_cipher_encrypt_setup, psa_cipher_decrypt_setup, SetUp
<1> QED BY <1>1 DEF Failed, Result

(* psa_cipher_encrypt() writes an IV and an encryption under it. *)
LEMMA EncryptWorks ==
    ASSUME ConstantsOK, NEW key, NEW alg \in Algs, NEW iv \in Ivs, NEW data \in Seq(Int),
           NEW room \in Nat, NEW r \in psa_cipher_encrypt(key, alg, iv, data, room),
             r.st = "SUCCESS"
    PROVE  /\ wolfpsa_cipher_iv_length(alg) + Len(r.bytes) \in 0 .. room
           /\ Encrypted(alg, IF wolfpsa_cipher_iv_length(alg) = 0 THEN NoIv ELSE iv, data, r.bytes)
<1> DEFINE ss == psa_cipher_encrypt_setup(NoCtx, key, alg)
           ivLen == wolfpsa_cipher_iv_length(alg)
           gs(s) == wolfpsa_cipher_generate_iv(s.c, iv, BS)
           us(c, n) == UpdateFinish(c, data, n)
           after(s) == UNION {IF g.st = "SUCCESS" THEN us(g.c, room - ivLen) ELSE {g} : g \in gs(s)}
           start(s) == IF ivLen = 0 THEN us(s.c, room)
                       ELSE IF room < ivLen THEN {wolfpsa_cipher_fail("BUFFER_TOO_SMALL")}
                       ELSE after(s)
           new == NewCtx(alg, TRUE)
           no == TRUE
<1>0. BS \in Nat \ {0} /\ ivLen = IF alg = "ECB_NO_PADDING" THEN 0 ELSE BS
  BY DEF ConstantsOK, wolfpsa_cipher_iv_length
<1>1. psa_cipher_encrypt(key, alg, iv, data, room)
         = UNION {IF s.st = "SUCCESS" THEN start(s) ELSE {s} : s \in ss}
  BY DEF psa_cipher_encrypt, Then
<1> HIDE DEF start, ss
<1>2. PICK s \in ss : r \in IF s.st = "SUCCESS" THEN start(s) ELSE {s}
  <2>1. PICK X \in {IF s.st = "SUCCESS" THEN start(s) ELSE {s} : s \in ss} : r \in X
    BY <1>1
  <2> QED BY <2>1
<1>3. s.c = new /\ s.st = "SUCCESS" /\ r \in start(s)
  <2>1. s = Result("SUCCESS", new, <<>>) \/ Failed(s)
    BY SetupResults DEF ss
  <2> HIDE DEF new
  <2>2. ~Failed(s)
    BY <1>2 DEF Failed
  <2>3. s.c = new /\ s.st = "SUCCESS"
    BY <2>1, <2>2 DEF Result
  <2> QED BY <1>2, <2>3
<1>4. /\ Working(new, <<>>, <<>>) /\ new.alg = alg /\ new.enc = TRUE /\ new.iv = NoIv
  <2>1. Working(NewCtx(alg, no), <<>>, <<>>) /\ NewCtx(alg, no).alg = alg
        /\ NewCtx(alg, no).enc = no /\ NewCtx(alg, no).iv = NoIv
    <3>1. no \in BOOLEAN
      OBVIOUS
    <3> HIDE DEF no
    <3> QED BY <3>1, NewWorks
  <2> QED BY <2>1
<1> HIDE DEF new, ivLen
<1>5. CASE ivLen = 0
  <2>1. r \in UpdateFinish(new, data, room)
    BY <1>3, <1>5 DEF start
  <2>2. data \in Seq(InSet(new.enc))
    BY <1>4 DEF InSet
  <2>3. OneShot(r, new, data, room)
    BY <1>4, <2>1, <2>2, UpdateFinishWorks
  <2> QED BY <1>4, <1>5, <2>3 DEF OneShot, ivLen
<1>6. CASE ivLen # 0
  <2>1. /\ ~(room < ivLen) /\ r \in after(s)
    BY <1>3, <1>6 DEF start, wolfpsa_cipher_fail, Result
  <2> HIDE DEF gs, us
  <2>2. PICK g \in gs(s) : r \in IF g.st = "SUCCESS" THEN us(g.c, room - ivLen) ELSE {g}
    <3>1. PICK X \in {IF g.st = "SUCCESS" THEN us(g.c, room - ivLen) ELSE {g} : g \in gs(s)} : r \in X
      BY <2>1
    <3> QED BY <3>1
  <2>3. Failed(g) \/ IvSet(g, new, <<>>, <<>>, iv)
    <3>1. g \in wolfpsa_cipher_generate_iv(new, iv, BS)
      BY <1>3, <2>2 DEF gs
    <3> QED BY <1>4, <3>1, GenerateIvWorks
  <2>4. IvSet(g, new, <<>>, <<>>, iv)
    BY <2>2, <2>3 DEF Failed
  <2>5. r \in UpdateFinish(g.c, data, room - ivLen) /\ Working(g.c, <<>>, <<>>)
        /\ g.c.alg = alg /\ g.c.enc = TRUE /\ g.c.iv = iv
    BY <1>4, <2>2, <2>4 DEF IvSet, us
  <2>6. room - ivLen \in Nat
    BY <1>0, <2>1
  <2>7. data \in Seq(InSet(g.c.enc))
    BY <2>5 DEF InSet
  <2>8. OneShot(r, g.c, data, room - ivLen)
    BY <2>5, <2>6, <2>7, UpdateFinishWorks
  <2>9. Len(r.bytes) \in 0 .. room - ivLen /\ Encrypted(alg, iv, data, r.bytes)
    BY <2>5, <2>8 DEF OneShot
  <2>10. ivLen + Len(r.bytes) \in 0 .. room
    <3>1. ivLen \in Nat /\ ~(room < ivLen)
      BY <1>0, <2>1
    <3> QED BY <2>9, <3>1
  <2> QED BY <1>6, <2>9, <2>10 DEF ivLen
<1> QED BY <1>5, <1>6

(* psa_cipher_decrypt() of an encryption gives its message. *)
LEMMA DecryptWorks ==
    ASSUME ConstantsOK, NEW key, NEW alg \in Algs, NEW iv \in Ivs \union {NoIv},
           NEW whole \in BOOLEAN,
           NEW data \in Seq(Coded), NEW room \in Nat, alg = "ECB_NO_PADDING" => iv = NoIv,
           NEW r \in psa_cipher_decrypt(key, alg, iv, whole, data, room)
    PROVE  /\ Len(r.bytes) \in 0 .. room
           /\ r.st = "SUCCESS" => \A m \in Seq(Int) : Encrypted(alg, iv, m, data) => r.bytes = m
<1> DEFINE ss == psa_cipher_decrypt_setup(NoCtx, key, alg)
           ivLen == wolfpsa_cipher_iv_length(alg)
           gs(s) == wolfpsa_cipher_set_iv(s.c, iv, TRUE)
           us(c) == UpdateFinish(c, data, room)
           after(s) == UNION {IF g.st = "SUCCESS" THEN us(g.c) ELSE {g} : g \in gs(s)}
           start(s) == IF ivLen = 0 THEN us(s.c)
                       ELSE IF ~whole THEN {wolfpsa_cipher_fail("INVALID_ARGUMENT")}
                       ELSE after(s)
           new == NewCtx(alg, FALSE)
           no == FALSE
           yes == TRUE
           Goal == /\ Len(r.bytes) \in 0 .. room
                   /\ r.st = "SUCCESS" =>
                         \A m \in Seq(Int) : Encrypted(alg, iv, m, data) => r.bytes = m
<1>0. BS \in Nat \ {0} /\ ivLen = IF alg = "ECB_NO_PADDING" THEN 0 ELSE BS
  BY DEF ConstantsOK, wolfpsa_cipher_iv_length
<1>1. psa_cipher_decrypt(key, alg, iv, whole, data, room)
         = UNION {IF s.st = "SUCCESS" THEN start(s) ELSE {s} : s \in ss}
  BY DEF psa_cipher_decrypt, Then
<1> HIDE DEF start, ss
<1>2. PICK s \in ss : r \in IF s.st = "SUCCESS" THEN start(s) ELSE {s}
  <2>1. PICK X \in {IF s.st = "SUCCESS" THEN start(s) ELSE {s} : s \in ss} : r \in X
    BY <1>1
  <2> QED BY <2>1
<1>2a. ASSUME Failed(r) PROVE Goal
  BY <1>2a, EmptySeq DEF Failed
<1>3. s = Result("SUCCESS", new, <<>>) \/ Failed(s)
  BY SetupResults DEF ss
<1>4. Working(new, <<>>, <<>>) /\ new.alg = alg /\ new.enc = FALSE /\ new.iv = NoIv
  <2>1. Working(NewCtx(alg, no), <<>>, <<>>) /\ NewCtx(alg, no).alg = alg
        /\ NewCtx(alg, no).enc = no /\ NewCtx(alg, no).iv = NoIv
    <3>1. no \in BOOLEAN
      OBVIOUS
    <3> HIDE DEF no
    <3> QED BY <3>1, NewWorks
  <2> QED BY <2>1
<1> HIDE DEF new, ivLen, Goal
<1>5. CASE Failed(s)
  <2>1. r = s
    BY <1>2, <1>5 DEF Failed
  <2> QED BY <1>5, <1>2a, <2>1 DEF Goal
<1>6. CASE s = Result("SUCCESS", new, <<>>) /\ ivLen = 0
  <2>1. r \in UpdateFinish(new, data, room)
    BY <1>2, <1>6 DEF start, Result
  <2>2. data \in Seq(InSet(new.enc)) /\ new.iv = iv
    BY <1>0, <1>4, <1>6 DEF InSet
  <2>3. OneShot(r, new, data, room)
    BY <1>4, <2>1, <2>2, UpdateFinishWorks
  <2> QED BY <1>4, <2>2, <2>3 DEF OneShot
<1>7. CASE s = Result("SUCCESS", new, <<>>) /\ ivLen # 0 /\ ~whole
  <2>1. r = wolfpsa_cipher_fail("INVALID_ARGUMENT")
    BY <1>2, <1>7 DEF start, Result
  <2> QED BY <1>2a, <2>1, FailFails DEF Goal
<1>8. CASE s = Result("SUCCESS", new, <<>>) /\ ivLen # 0 /\ whole
  <2>0. s.c = new
    BY <1>8 DEF Result
  <2>1. r \in after(s)
    BY <1>2, <1>8 DEF start, Result
  <2> HIDE DEF gs, us
  <2>2. PICK g \in gs(s) : r \in IF g.st = "SUCCESS" THEN us(g.c) ELSE {g}
    <3>1. PICK X \in {IF g.st = "SUCCESS" THEN us(g.c) ELSE {g} : g \in gs(s)} : r \in X
      BY <2>1
    <3> QED BY <3>1
  <2>3. Failed(g) \/ IvSet(g, new, <<>>, <<>>, iv)
    <3>1. g \in wolfpsa_cipher_set_iv(new, iv, yes) /\ yes \in BOOLEAN
      BY <2>0, <2>2 DEF gs
    <3> HIDE DEF yes
    <3> QED BY <1>4, <3>1, SetIvWorks
  <2>4. CASE Failed(g)
    <3>1. r = g
      BY <2>2, <2>4 DEF Failed
    <3> QED BY <1>2a, <2>4, <3>1 DEF Goal
  <2>5. CASE IvSet(g, new, <<>>, <<>>, iv)
    <3>1. r \in UpdateFinish(g.c, data, room) /\ Working(g.c, <<>>, <<>>)
          /\ g.c.alg = alg /\ g.c.enc = FALSE /\ g.c.iv = iv
      BY <1>4, <2>2, <2>5 DEF IvSet, us
    <3>2. data \in Seq(InSet(g.c.enc))
      BY <3>1 DEF InSet
    <3>3. OneShot(r, g.c, data, room)
      BY <3>1, <3>2, UpdateFinishWorks
    <3> QED BY <3>1, <3>3 DEF OneShot
  <2> QED BY <2>3, <2>4, <2>5
<1> QED BY <1>3, <1>5, <1>6, <1>7, <1>8

-----------------------------------------------------------------------------
(* The invariant. *)
WireOK ==
    wire # NoWire =>
        /\ wire.alg \in Algs /\ wire.iv \in Ivs \union {NoIv} /\ wire.n \in 0 .. MaxLen
        /\ wire.alg = "ECB_NO_PADDING" => wire.iv = NoIv
        /\ Encrypted(wire.alg, wire.iv, Message(wire.n), wire.bytes)
OperationOK ==
    IF ctx = NoCtx THEN input = <<>> /\ out = <<>>
    ELSE /\ Working(ctx, input, out)
         /\ ctx.iv_set = TRUE => ctx.iv # NoIv
         /\ ctx.enc = TRUE => Len(input) =< MaxLen /\ input = Message(Len(input))
         /\ ctx.enc = FALSE => /\ wire # NoWire /\ ctx.alg = wire.alg
                               /\ input = SubSeq(wire.bytes, 1, Len(input))
                               /\ Len(input) =< Len(wire.bytes)
CallOK == call.room \in Rooms /\ call.wrote \in 0 .. call.room
Inv == CallOK /\ OperationOK /\ WireOK /\ RoundTrip

(* The messages of the model. *)
LEMMA MessageBytes ==
    ASSUME NEW n \in Nat
    PROVE  Message(n) \in Seq(Int) /\ Len(Message(n)) = n /\ \A i \in 1 .. n : Message(n)[i] = i
<1>1. Message(n) \in [1 .. n -> Int]
  BY DEF Message
<1>2. Message(n) \in Seq(Int) /\ Len(Message(n)) = n
  BY <1>1, DOMAIN Message(n) = 1 .. n, LenProperties
<1> QED BY <1>2 DEF Message

(* The end of an operation. *)
LEMMA OperationOver ==
    ASSUME ctx' = NoCtx, input' = <<>>, out' = <<>>
    PROVE  OperationOK'
BY DEF OperationOK

(* A call that ends the operation. *)
LEMMA Ends ==
    ASSUME ConstantsOK, Inv, NEW r, r.c = NoCtx, r.bytes = <<>>, NEW data, NEW room \in Rooms,
           Return(r, data, room), Keep
    PROVE  Inv'
<1>1. ctx' = NoCtx /\ input' = <<>> /\ out' = <<>>
  BY DEF Return
<1>2. call'.room = room /\ call'.wrote = 0
  BY EmptySeq DEF Return
<1>3. CallOK'
  BY <1>2 DEF CallOK, ConstantsOK
<1>4. (WireOK /\ RoundTrip)'
  BY DEF Inv, Keep, WireOK, RoundTrip, Encrypted
<1> QED BY <1>1, <1>3, <1>4, OperationOver DEF Inv

(* The operation goes on. *)
LEMMA GoingOn ==
    ASSUME ConstantsOK, Inv, NEW r, r.c # NoCtx, NEW data, NEW room \in Rooms,
           Return(r, data, room),
           Keep, Len(r.bytes) \in 0 .. room,
           Working(r.c, input \o data, out \o r.bytes), r.c.iv_set = TRUE => r.c.iv # NoIv,
           r.c.enc = TRUE => /\ Len(input \o data) =< MaxLen
                             /\ input \o data = Message(Len(input \o data)),
           r.c.enc = FALSE => /\ wire # NoWire /\ r.c.alg = wire.alg
                              /\ input \o data = SubSeq(wire.bytes, 1, Len(input \o data))
                              /\ Len(input \o data) =< Len(wire.bytes)
    PROVE  Inv'
<1>1. ctx' = r.c /\ input' = input \o data /\ out' = out \o r.bytes /\ wire' = wire /\ plain' = plain
  BY DEF Return, Keep
<1>2. call'.room = room /\ call'.wrote = Len(r.bytes)
  BY DEF Return
<1>3. CallOK'
  BY <1>2 DEF CallOK
<1>4. (WireOK /\ RoundTrip)'
  BY <1>1 DEF Inv, WireOK, RoundTrip, Encrypted
<1>5. OperationOK'
  BY <1>1 DEF OperationOK, Working
<1> QED BY <1>3, <1>4, <1>5 DEF Inv

(* What the invariant says of an operation. *)
LEMMA Active ==
    ASSUME ConstantsOK, Inv, ctx # NoCtx
    PROVE  /\ Working(ctx, input, out)
           /\ ctx.iv_set = TRUE => ctx.iv # NoIv
           /\ ctx.enc = TRUE => Len(input) =< MaxLen /\ input = Message(Len(input))
           /\ ctx.enc = FALSE => /\ wire # NoWire /\ ctx.alg = wire.alg
                                 /\ input = SubSeq(wire.bytes, 1, Len(input))
                                 /\ Len(input) =< Len(wire.bytes)
           /\ input \o <<>> = input /\ out \o <<>> = out /\ ctx.enc \in BOOLEAN
           /\ input \in Seq(InSet(ctx.enc)) /\ out \in Seq(OutSet(ctx.enc))
<1>1. /\ Working(ctx, input, out)
      /\ ctx.iv_set = TRUE => ctx.iv # NoIv
      /\ ctx.enc = TRUE => Len(input) =< MaxLen /\ input = Message(Len(input))
      /\ ctx.enc = FALSE => /\ wire # NoWire /\ ctx.alg = wire.alg
                            /\ input = SubSeq(wire.bytes, 1, Len(input))
                            /\ Len(input) =< Len(wire.bytes)
  BY DEF Inv, OperationOK
<1>2. ctx \in Contexts /\ input \in Seq(InSet(ctx.enc)) /\ out \in Seq(OutSet(ctx.enc))
  BY <1>1 DEF Working
<1>3. input \o <<>> = input /\ out \o <<>> = out /\ ctx.enc \in BOOLEAN
  BY <1>2, ConcatEmptySeq, ContextType
<1> QED BY <1>1, <1>2, <1>3

(* psa_cipher_encrypt_setup() and psa_cipher_decrypt_setup(). *)
LEMMA SetupStep ==
    ASSUME ConstantsOK, Inv, NEW key \in Keys, NEW alg \in Algs, NEW enc \in BOOLEAN,
           Setup(key, alg, enc)
    PROVE  Inv'
<1> DEFINE new == NewCtx(alg, enc)
<1>0. 0 \in Rooms /\ MaxLen \in Nat /\ input = <<>> /\ out = <<>> /\ <<>> \o <<>> = <<>>
  BY EmptySeq, ConcatEmptySeq DEF ConstantsOK, Setup, Inv, OperationOK
<1>1. PICK r : /\ Return(r, <<>>, 0) /\ Keep
               /\ r \in IF enc THEN psa_cipher_encrypt_setup(NoCtx, key, alg)
                        ELSE psa_cipher_decrypt_setup(NoCtx, key, alg)
  BY DEF Setup
<1>2. r = Result("SUCCESS", new, <<>>) \/ Failed(r)
  <2>1. CASE enc = TRUE
    BY <1>1, <2>1, SetupResults
  <2>2. CASE enc = FALSE
    BY <1>1, <2>2, SetupResults
  <2> QED BY <2>1, <2>2
<1>3. CASE Failed(r)
  BY <1>0, <1>1, <1>3, Ends DEF Failed
<1>4. CASE r = Result("SUCCESS", new, <<>>)
  <2>1. Working(new, <<>>, <<>>) /\ new.alg = alg /\ new.enc = enc /\ new.iv_set = FALSE
    BY NewWorks
  <2> HIDE DEF new
  <2>2. r.c = new /\ r.bytes = <<>> /\ new # NoCtx
    <3>1. new \in Contexts
      BY <2>1 DEF Working
    <3> QED BY <1>4, <3>1, ContextType DEF Result
  <2>3. Len(<<>>) = 0 /\ <<>> = Message(0)
    BY MessageBytes, EmptySeq
  <2>4. ASSUME enc = FALSE
        PROVE  /\ wire # NoWire /\ alg = wire.alg /\ <<>> = SubSeq(wire.bytes, 1, 0)
               /\ Len(<<>>) =< Len(wire.bytes)
    <3>1. alg = wire.alg /\ alg # ""
      BY <2>4 DEF Setup, ConstantsOK, StreamAlgs, BlockAlgs
    <3>2. wire # NoWire
      <4>1. NoWire.alg = ""
        BY DEF NoWire
      <4> QED BY <3>1, <4>1
    <3>3. wire.bytes \in Seq(Coded)
      BY <3>2 DEF Inv, WireOK, Encrypted
    <3>4. Len(wire.bytes) \in Nat /\ 0 \in 0 .. Len(wire.bytes)
      BY <3>3, LenProperties
    <3>5. Len(SubSeq(wire.bytes, 1, 0)) = 0 /\ SubSeq(wire.bytes, 1, 0) \in Seq(Coded)
      BY <3>3, <3>4, Beginning
    <3>6. <<>> = SubSeq(wire.bytes, 1, 0)
      BY <3>5, EmptySeq
    <3>7. Len(<<>>) =< Len(wire.bytes)
      BY <2>3, <3>4
    <3> QED BY <3>1, <3>2, <3>6, <3>7
  <2>5. Len(r.bytes) \in 0 .. 0 /\ Working(r.c, input \o <<>>, out \o r.bytes) /\ r.c # NoCtx
    BY <1>0, <2>1, <2>2, <2>3
  <2>6. r.c.enc = TRUE => /\ Len(input \o <<>>) =< MaxLen
                          /\ input \o <<>> = Message(Len(input \o <<>>))
    BY <1>0, <2>3
  <2>7. r.c.enc = FALSE => /\ wire # NoWire /\ r.c.alg = wire.alg
                           /\ input \o <<>> = SubSeq(wire.bytes, 1, Len(input \o <<>>))
                           /\ Len(input \o <<>>) =< Len(wire.bytes)
    BY <1>0, <2>1, <2>2, <2>3, <2>4
  <2>8. r.c.iv_set = TRUE => r.c.iv # NoIv
    BY <2>1, <2>2
  <2> QED BY <1>0, <1>1, <2>5, <2>6, <2>7, <2>8, GoingOn
<1> QED BY <1>2, <1>3, <1>4

(* A setup of an active operation. *)
LEMMA SetupAgainStep ==
    ASSUME ConstantsOK, Inv, NEW key \in Keys, SetupAgain(key)
    PROVE  Inv'
<1> DEFINE r == Result("BAD_STATE", ctx, <<>>)
<1>1. Return(r, <<>>, 0) /\ Keep /\ ctx # NoCtx
  BY DEF SetupAgain, psa_cipher_encrypt_setup, SetUp
<1>2. r.c = ctx /\ r.bytes = <<>> /\ Len(<<>>) \in 0 .. 0 /\ 0 \in Rooms
  BY EmptySeq DEF Result, ConstantsOK
<1> HIDE DEF r
<1> QED BY <1>1, <1>2, Active, GoingOn

(* An IV is accepted. *)
LEMMA IvStep ==
    ASSUME ConstantsOK, Inv, ctx # NoCtx, NEW r, NEW iv \in Ivs, NEW room \in Rooms,
           Failed(r) \/ IvSet(r, ctx, input, out, iv), Return(r, <<>>, room), Keep
    PROVE  Inv'
<1>1. CASE Failed(r)
  BY <1>1, Ends DEF Failed
<1>2. CASE IvSet(r, ctx, input, out, iv)
  <2>1. /\ r.bytes = <<>> /\ Working(r.c, input, out) /\ r.c.alg = ctx.alg /\ r.c.enc = ctx.enc
        /\ r.c.iv = iv /\ iv # NoIv
    BY <1>2 DEF IvSet, ConstantsOK
  <2>2. r.c # NoCtx
    BY <2>1, ContextType DEF Working
  <2>3. Len(r.bytes) \in 0 .. room
    BY <2>1, EmptySeq DEF ConstantsOK
  <2> QED BY <2>1, <2>2, <2>3, Active, GoingOn
<1> QED BY <1>1, <1>2

(* psa_cipher_set_iv() keeps the invariant. *)
LEMMA SetIvStep ==
    ASSUME ConstantsOK, Inv, NEW iv \in Ivs, NEW lenOk \in BOOLEAN, SetIvCall(iv, lenOk)
    PROVE  Inv'
<1>1. PICK r \in wolfpsa_cipher_set_iv(ctx, iv, lenOk) : Return(r, <<>>, 0) /\ Keep
  BY DEF SetIvCall
<1>2. ctx # NoCtx /\ 0 \in Rooms /\ iv \in Ivs \union {NoIv}
  BY DEF SetIvCall, ConstantsOK
<1>3. Failed(r) \/ IvSet(r, ctx, input, out, iv)
  BY <1>2, Active, SetIvWorks
<1> QED BY <1>1, <1>2, <1>3, IvStep

(* psa_cipher_generate_iv() keeps the invariant. *)
LEMMA GenerateIvStep ==
    ASSUME ConstantsOK, Inv, NEW iv \in Ivs, NEW size \in Rooms, GenerateIv(iv, size)
    PROVE  Inv'
<1>1. PICK r \in wolfpsa_cipher_generate_iv(ctx, iv, size) : Return(r, <<>>, size) /\ Keep
  BY DEF GenerateIv
<1>2. ctx # NoCtx /\ iv \in Ivs \union {NoIv}
  BY DEF GenerateIv
<1>3. Failed(r) \/ IvSet(r, ctx, input, out, iv)
  BY <1>2, Active, GenerateIvWorks
<1> QED BY <1>1, <1>2, <1>3, IvStep

(* Adjacent pieces of a sequence. *)
LEMMA Adjacent ==
    ASSUME NEW S, NEW w \in Seq(S), NEW f \in Nat, NEW n \in Nat, f + n =< Len(w)
    PROVE  /\ SubSeq(w, f + 1, f + n) \in Seq(S) /\ Len(SubSeq(w, f + 1, f + n)) = n
           /\ SubSeq(w, 1, f) \o SubSeq(w, f + 1, f + n) = SubSeq(w, 1, f + n)
<1> DEFINE a == SubSeq(w, 1, f)
           b == SubSeq(w, f + 1, f + n)
           t == SubSeq(w, 1, f + n)
<1>1. Len(w) \in Nat
  BY LenProperties
<1>1a. f \in 0 .. Len(w) /\ f + n \in 0 .. Len(w)
  BY <1>1
<1>2. a \in Seq(S) /\ Len(a) = f /\ \A i \in 1 .. f : a[i] = w[i]
  BY <1>1a, Beginning
<1>3. t \in Seq(S) /\ Len(t) = f + n /\ \A i \in 1 .. f + n : t[i] = w[i]
  BY <1>1a, Beginning
<1>4. b \in Seq(S) /\ Len(b) = n /\ \A i \in 1 .. n : b[i] = w[f + i]
  <2> DEFINE first == f + 1
             final == f + n
  <2>1. first \in Int /\ final \in Int /\ \A i \in first .. final : w[i] \in S
    BY <1>1, ElementOfSeq
  <2> HIDE DEF first, final
  <2>2. /\ SubSeq(w, first, final) \in Seq(S)
        /\ Len(SubSeq(w, first, final)) = IF first =< final THEN final - first + 1 ELSE 0
        /\ \A i \in 1 .. final - first + 1 : SubSeq(w, first, final)[i] = w[first + i - 1]
    BY <2>1, SubSeqProperties
  <2> HIDE DEF b
  <2>3. b = SubSeq(w, first, final)
    BY DEF b, first, final
  <2>4. final - first + 1 = n /\ (first =< final <=> 0 < n)
    BY DEF first, final
  <2>5. \A i \in 1 .. n : b[i] = w[first + i - 1] /\ first + i - 1 = f + i
    BY <2>2, <2>3, <2>4 DEF first
  <2>6. Len(b) = n
    BY <2>2, <2>3, <2>4
  <2> QED BY <2>2, <2>3, <2>5, <2>6
<1> HIDE DEF a, b, t
<1>5. /\ a \o b \in Seq(S) /\ Len(a \o b) = Len(a) + Len(b)
      /\ \A i \in 1 .. Len(a) : (a \o b)[i] = a[i]
      /\ \A i \in 1 .. Len(b) : (a \o b)[Len(a) + i] = b[i]
  <2>1. a \in Seq(S) /\ b \in Seq(S)
    BY <1>2, <1>4
  <2> QED BY <2>1, Longer
<1>6. Len(a \o b) = Len(t)
  BY <1>2, <1>3, <1>4, <1>5
<1>7. ASSUME NEW i \in 1 .. Len(a \o b) PROVE (a \o b)[i] = t[i]
  <2>1. CASE i =< f
    BY <1>2, <1>3, <1>5, <1>6, <2>1
  <2>2. CASE ~(i =< f)
    <3> DEFINE j == i - f
    <3>1. j \in 1 .. n /\ f + j = i /\ i \in 1 .. f + n
      BY <1>3, <1>6, <2>2
    <3> HIDE DEF j
    <3>2. (a \o b)[f + j] = b[j] /\ b[j] = w[f + j]
      BY <1>2, <1>4, <1>5, <3>1
    <3> QED BY <1>3, <3>1, <3>2
  <2> QED BY <1>2, <1>4, <1>5, <2>1, <2>2
<1>8. a \o b = t
  BY <1>3, <1>5, <1>6, <1>7, SeqEqual
<1> QED BY <1>4, <1>8 DEF a, b, t

(* A message goes on. *)
LEMMA LongerMessage ==
    ASSUME NEW f \in Nat, NEW n \in Nat
    PROVE  /\ [i \in 1 .. n |-> f + i] \in Seq(Int) /\ Len([i \in 1 .. n |-> f + i]) = n
           /\ Message(f) \o [i \in 1 .. n |-> f + i] = Message(f + n)
<1> DEFINE b == [i \in 1 .. n |-> f + i]
           a == Message(f)
           t == Message(f + n)
<1>1. b \in [1 .. n -> Int]
  OBVIOUS
<1>2. b \in Seq(Int) /\ Len(b) = n /\ \A i \in 1 .. n : b[i] = f + i
  BY <1>1, DOMAIN b = 1 .. n, LenProperties
<1>3. a \in Seq(Int) /\ Len(a) = f /\ \A i \in 1 .. f : a[i] = i
  BY MessageBytes
<1>4. t \in Seq(Int) /\ Len(t) = f + n /\ \A i \in 1 .. f + n : t[i] = i
  BY MessageBytes, f + n \in Nat
<1> HIDE DEF a, b, t
<1>5. /\ a \o b \in Seq(Int) /\ Len(a \o b) = Len(a) + Len(b)
      /\ \A i \in 1 .. Len(a) : (a \o b)[i] = a[i]
      /\ \A i \in 1 .. Len(b) : (a \o b)[Len(a) + i] = b[i]
  <2>1. a \in Seq(Int) /\ b \in Seq(Int)
    BY <1>2, <1>3
  <2> QED BY <2>1, Longer
<1>6. Len(a \o b) = Len(t)
  BY <1>2, <1>3, <1>4, <1>5
<1>7. ASSUME NEW i \in 1 .. Len(a \o b) PROVE (a \o b)[i] = t[i]
  <2>1. CASE i =< f
    BY <1>3, <1>4, <1>5, <1>6, <2>1
  <2>2. CASE ~(i =< f)
    <3> DEFINE j == i - f
    <3>1. j \in 1 .. n /\ f + j = i /\ i \in 1 .. f + n
      BY <1>4, <1>6, <2>2
    <3> HIDE DEF j
    <3>2. (a \o b)[f + j] = b[j] /\ b[j] = f + j
      BY <1>2, <1>3, <1>5, <3>1
    <3> QED BY <1>4, <3>1, <3>2
  <2> QED BY <1>4, <1>6, <2>1, <2>2
<1>8. a \o b = t
  BY <1>4, <1>5, <1>6, <1>7, SeqEqual
<1> QED BY <1>2, <1>8 DEF a, b, t

(* The bytes psa_cipher_update() is called with. *)
LEMMA NextBytes ==
    ASSUME ConstantsOK, Inv, ctx # NoCtx, NEW n \in Nat, n =< Available,
           NEW data, data = NextInput(n)
    PROVE  /\ data \in Seq(InSet(ctx.enc))
           /\ ctx.enc = TRUE => /\ Len(input \o data) =< MaxLen
                                /\ input \o data = Message(Len(input \o data))
           /\ ctx.enc = FALSE => /\ input \o data = SubSeq(wire.bytes, 1, Len(input \o data))
                                 /\ Len(input \o data) =< Len(wire.bytes)
<1> DEFINE f == Len(input)
<1>1. f \in Nat /\ ctx.enc \in BOOLEAN /\ MaxLen \in Nat
  BY Active, LenProperties DEF ConstantsOK
<1>2. CASE ctx.enc = TRUE
  <2>1. data = [i \in 1 .. n |-> f + i] /\ f + n =< MaxLen /\ input = Message(f)
    <3>1. input = Message(f)
      BY <1>2, Active
    <3>2. data = [i \in 1 .. n |-> f + i]
      BY <1>2 DEF NextInput
    <3>3. n =< MaxLen - f
      BY <1>2 DEF Available
    <3> QED BY <1>1, <3>1, <3>2, <3>3
  <2> HIDE DEF f
  <2>2. data \in Seq(Int) /\ input \o data = Message(f + n)
    BY <1>1, <2>1, LongerMessage
  <2>3. Len(input \o data) = f + n
    BY <1>1, <2>2, MessageBytes, f + n \in Nat
  <2> QED BY <1>2, <2>1, <2>2, <2>3 DEF InSet
<1>3. CASE ctx.enc = FALSE
  <2>1. wire.bytes \in Seq(Coded) /\ input = SubSeq(wire.bytes, 1, f)
    BY <1>3, Active DEF Inv, WireOK, Encrypted
  <2>2. Len(wire.bytes) \in Nat
    BY <2>1, LenProperties
  <2>3. data = SubSeq(wire.bytes, f + 1, f + n) /\ f + n =< Len(wire.bytes)
    BY <1>1, <1>3, <2>2 DEF NextInput, Available
  <2> HIDE DEF f
  <2>4. data \in Seq(Coded) /\ input \o data = SubSeq(wire.bytes, 1, f + n)
    <3>1. /\ SubSeq(wire.bytes, f + 1, f + n) \in Seq(Coded)
          /\ SubSeq(wire.bytes, 1, f) \o SubSeq(wire.bytes, f + 1, f + n) = SubSeq(wire.bytes, 1, f + n)
      BY <1>1, <2>1, <2>3, Adjacent
    <3> QED BY <2>1, <2>3, <3>1
  <2>5. Len(input \o data) = f + n
    <3>1. f + n \in 0 .. Len(wire.bytes)
      BY <1>1, <2>2, <2>3
    <3> QED BY <2>1, <2>4, <3>1, Beginning, ZenonT(30)
  <2> QED BY <1>3, <2>3, <2>4, <2>5 DEF InSet
<1> QED BY <1>1, <1>2, <1>3

(* psa_cipher_update() keeps the invariant. *)
LEMMA UpdateStep ==
    ASSUME ConstantsOK, Inv, NEW n \in Lens, NEW room \in Rooms, NEW overlap \in BOOLEAN,
           Update(n, room, overlap)
    PROVE  Inv'
<1> DEFINE data == NextInput(n)
<1>1. PICK r \in psa_cipher_update(ctx, data, room, overlap) : Return(r, data, room)
  BY DEF Update
<1>2. ctx # NoCtx /\ Keep /\ n \in Nat /\ n =< Available /\ room \in Nat
  BY DEF Update, ConstantsOK
<1>3. data = NextInput(n)
  OBVIOUS
<1> HIDE DEF data
<1>4. /\ data \in Seq(InSet(ctx.enc))
      /\ ctx.enc = TRUE => /\ Len(input \o data) =< MaxLen
                           /\ input \o data = Message(Len(input \o data))
      /\ ctx.enc = FALSE => /\ input \o data = SubSeq(wire.bytes, 1, Len(input \o data))
                            /\ Len(input \o data) =< Len(wire.bytes)
  BY <1>2, <1>3, NextBytes
<1>5. Working(ctx, input, out)
  BY <1>2, Active
<1>6. Failed(r) \/ WentOn(r, ctx, input \o data, out, room)
  BY <1>1, <1>2, <1>4, <1>5, UpdateCall
<1>7. CASE Failed(r)
  BY <1>1, <1>2, <1>7, Ends DEF Failed
<1>8. CASE WentOn(r, ctx, input \o data, out, room)
  <2>1. /\ Working(r.c, input \o data, out \o r.bytes) /\ Len(r.bytes) \in 0 .. room
        /\ r.c.alg = ctx.alg /\ r.c.enc = ctx.enc /\ r.c.iv = ctx.iv /\ r.c.iv_set = ctx.iv_set
    BY <1>8 DEF WentOn
  <2>2. r.c # NoCtx
    BY <2>1, ContextType DEF Working
  <2>3. r.c.iv_set = TRUE => r.c.iv # NoIv
    BY <1>2, <2>1, Active
  <2>4. r.c.enc = FALSE => wire # NoWire /\ r.c.alg = wire.alg
    BY <1>2, <2>1, Active
  <2> QED BY <1>1, <1>2, <1>4, <2>1, <2>2, <2>3, <2>4, GoingOn
<1> QED BY <1>6, <1>7, <1>8

(* psa_cipher_finish() keeps the invariant. *)
LEMMA FinishStep ==
    ASSUME ConstantsOK, Inv, NEW room \in Rooms, Finish(room)
    PROVE  Inv'
<1> DEFINE W(r) == [alg |-> ctx.alg, iv |-> ctx.iv, bytes |-> out \o r.bytes, n |-> Len(input)]
<1>1. PICK r \in psa_cipher_finish(ctx, room) :
          /\ Return(r, <<>>, room)
          /\ wire' = IF r.st = "SUCCESS" /\ ctx.enc THEN W(r) ELSE wire
          /\ plain' = IF /\ r.st = "SUCCESS" /\ ~ctx.enc
                         /\ ctx.iv = wire.iv /\ input = wire.bytes
                      THEN out \o r.bytes
                      ELSE IF wire' # wire THEN NoPlain ELSE plain
  BY DEF Finish
<1>2. ctx # NoCtx /\ room \in Nat /\ ctx.enc \in BOOLEAN
  BY Active DEF Finish, ConstantsOK
<1>3. Failed(r) \/ Ended(r, ctx, input, out, room)
  BY <1>2, Active, FinishCall
<1>4. r.c = NoCtx /\ Len(r.bytes) \in 0 .. room
  BY <1>2, <1>3, EmptySeq DEF Failed, Ended
<1>5. ctx' = NoCtx /\ input' = <<>> /\ out' = <<>>
      /\ call'.room = room /\ call'.wrote = Len(r.bytes)
  BY <1>1, <1>4 DEF Return
<1>6. CallOK'
  BY <1>4, <1>5 DEF CallOK
<1>7. OperationOK'
  BY <1>5, OperationOver
<1>8. CASE r.st = "SUCCESS" /\ ctx.enc = TRUE
  <2>1. Encrypted(ctx.alg, ctx.iv, input, out \o r.bytes)
    BY <1>3, <1>8 DEF Failed, Ended
  <2>2. wire' = W(r) /\ (plain' = NoPlain \/ (plain' = plain /\ wire' = wire))
    BY <1>1, <1>8
  <2>3. /\ wire'.alg = ctx.alg /\ wire'.iv = ctx.iv /\ wire'.n = Len(input)
        /\ wire'.bytes = out \o r.bytes
    BY <2>2
  <2>4. Len(input) \in 0 .. MaxLen /\ input = Message(Len(input))
    <3>1. Len(input) \in Nat /\ MaxLen \in Nat
      BY <1>2, Active, LenProperties DEF ConstantsOK
    <3>2. Len(input) =< MaxLen /\ input = Message(Len(input))
      BY <1>2, <1>8, Active
    <3> QED BY <3>1, <3>2
  <2>5. /\ ctx.alg \in Algs /\ ctx.iv \in Ivs \union {NoIv}
        /\ ctx.alg = "ECB_NO_PADDING" => ctx.iv = NoIv
    BY <1>2, Active, ContextType DEF Working
  <2>6. Encrypted(wire'.alg, wire'.iv, Message(wire'.n), wire'.bytes)
    BY <2>1, <2>3, <2>4
  <2>7. WireOK'
    BY <2>3, <2>4, <2>5, <2>6 DEF WireOK, Encrypted
  <2>8. RoundTrip'
    BY <2>2 DEF Inv, RoundTrip, NoPlain
  <2> QED BY <1>6, <1>7, <2>7, <2>8 DEF Inv
<1>9. CASE ~(r.st = "SUCCESS" /\ ctx.enc = TRUE)
  <2>1. wire' = wire
    BY <1>1, <1>2, <1>9
  <2>2. WireOK'
    BY <2>1 DEF Inv, WireOK, Encrypted
  <2>3. CASE r.st = "SUCCESS" /\ ctx.enc = FALSE /\ ctx.iv = wire.iv /\ input = wire.bytes
    <3>1. plain' = out \o r.bytes
      BY <1>1, <2>3
    <3>2. \A m \in Seq(Int) : Encrypted(ctx.alg, ctx.iv, m, input) => out \o r.bytes = m
      BY <1>3, <2>3 DEF Failed, Ended
    <3>3. wire # NoWire /\ ctx.alg = wire.alg
      BY <1>2, <2>3, Active
    <3>4. Encrypted(wire.alg, wire.iv, Message(wire.n), wire.bytes) /\ wire.n \in Nat
      BY <3>3 DEF Inv, WireOK, ConstantsOK
    <3>5. Message(wire.n) \in Seq(Int)
      BY <3>4, MessageBytes
    <3>6. plain' = Message(wire.n)
      BY <2>3, <3>1, <3>2, <3>3, <3>4, <3>5
    <3>7. RoundTrip'
      BY <2>1, <3>6 DEF RoundTrip, Message
    <3> QED BY <1>6, <1>7, <2>2, <3>7 DEF Inv
  <2>4. CASE ~(r.st = "SUCCESS" /\ ctx.enc = FALSE /\ ctx.iv = wire.iv /\ input = wire.bytes)
    <3>1. plain' = plain
      BY <1>1, <1>2, <2>1, <2>4
    <3>2. RoundTrip'
      BY <2>1, <3>1 DEF Inv, RoundTrip, NoPlain, Message
    <3> QED BY <1>6, <1>7, <2>2, <3>2 DEF Inv
  <2> QED BY <2>3, <2>4
<1> QED BY <1>2, <1>8, <1>9

(* psa_cipher_encrypt() keeps the invariant. *)
LEMMA OneShotEncryptStep ==
    ASSUME ConstantsOK, Inv, NEW key \in Keys, NEW alg \in Algs, NEW iv \in Ivs,
           NEW n \in 0 .. MaxLen,
           NEW room \in Rooms, OneShotEncrypt(key, alg, iv, n, room)
    PROVE  Inv'
<1> DEFINE L == wolfpsa_cipher_iv_length(alg)
           v == IF L = 0 THEN NoIv ELSE iv
<1>1. PICK r \in psa_cipher_encrypt(key, alg, iv, Message(n), room) :
          /\ call' = [st |-> r.st, room |-> room,
                      wrote |-> IF r.st = "SUCCESS" THEN L + Len(r.bytes) ELSE 0]
          /\ wire' = IF r.st # "SUCCESS" THEN wire
                     ELSE [alg |-> alg, bytes |-> r.bytes, n |-> n, iv |-> v]
          /\ plain' = IF wire' # wire THEN NoPlain ELSE plain
  BY DEF OneShotEncrypt
<1>2. room \in Nat /\ n \in Nat /\ Message(n) \in Seq(Int) /\ MaxLen \in Nat
  BY MessageBytes DEF ConstantsOK
<1>3. OperationOK /\ UNCHANGED <<ctx, input, out>> /\ ctx = NoCtx
  BY DEF Inv, OneShotEncrypt, Settled
<1>4. OperationOK'
  BY <1>3, OperationOver DEF OperationOK
<1>5. CASE r.st # "SUCCESS"
  <2>1. wire' = wire /\ plain' = plain /\ call'.room = room /\ call'.wrote = 0
    BY <1>1, <1>5
  <2>2. (CallOK /\ WireOK /\ RoundTrip)'
    <3>1. CallOK'
      BY <1>2, <2>1 DEF CallOK
    <3>2. WireOK'
      BY <2>1 DEF WireOK, Inv, Encrypted
    <3>3. RoundTrip'
      BY <2>1 DEF RoundTrip, Inv, NoPlain, Message
    <3> QED BY <3>1, <3>2, <3>3
  <2> QED BY <1>4, <2>2 DEF Inv
<1>6. CASE r.st = "SUCCESS"
  <2>1. L + Len(r.bytes) \in 0 .. room /\ Encrypted(alg, v, Message(n), r.bytes)
    BY <1>2, <1>6, EncryptWorks
  <2>2. v \in Ivs \union {NoIv} /\ (alg = "ECB_NO_PADDING" => v = NoIv)
    BY DEF wolfpsa_cipher_iv_length
  <2> HIDE DEF L, v
  <2>3. /\ wire'.alg = alg /\ wire'.bytes = r.bytes /\ wire'.n = n /\ wire'.iv = v
        /\ call'.room = room /\ call'.wrote = L + Len(r.bytes)
        /\ plain' = NoPlain \/ (plain' = plain /\ wire' = wire)
    BY <1>1, <1>6
  <2>4. CallOK'
    BY <2>1, <2>3 DEF CallOK
  <2>5. WireOK'
    BY <2>1, <2>2, <2>3 DEF WireOK, Encrypted
  <2>6. RoundTrip'
    BY <2>3 DEF Inv, RoundTrip, NoPlain, Message
  <2> QED BY <1>4, <2>4, <2>5, <2>6 DEF Inv
<1> QED BY <1>5, <1>6

(* psa_cipher_decrypt() keeps the invariant. *)
LEMMA OneShotDecryptStep ==
    ASSUME ConstantsOK, Inv, NEW key \in Keys, NEW ivWhole \in BOOLEAN, NEW room \in Rooms,
           OneShotDecrypt(key, ivWhole, room)
    PROVE  Inv'
<1>1. PICK r \in psa_cipher_decrypt(key, wire.alg, wire.iv, ivWhole, wire.bytes, room) :
          /\ call' = [st |-> r.st, room |-> room, wrote |-> Len(r.bytes)]
          /\ plain' = IF r.st = "SUCCESS" THEN r.bytes ELSE plain
  BY DEF OneShotDecrypt
<1>2. /\ wire # NoWire /\ wire' = wire /\ ctx' = ctx /\ input' = input /\ out' = out /\ ctx = NoCtx
  BY DEF OneShotDecrypt, Settled
<1>3. /\ wire.alg \in Algs /\ wire.iv \in Ivs \union {NoIv} /\ wire.n \in Nat /\ wire.bytes \in Seq(Coded)
      /\ wire.alg = "ECB_NO_PADDING" => wire.iv = NoIv
  BY <1>2 DEF Inv, WireOK, ConstantsOK, Encrypted
<1>4. Encrypted(wire.alg, wire.iv, Message(wire.n), wire.bytes) /\ Message(wire.n) \in Seq(Int)
  BY <1>2, <1>3, MessageBytes DEF Inv, WireOK
<1>5. /\ Len(r.bytes) \in 0 .. room
      /\ r.st = "SUCCESS" =>
            \A m \in Seq(Int) : Encrypted(wire.alg, wire.iv, m, wire.bytes) => r.bytes = m
  <2>1. room \in Nat
    BY DEF ConstantsOK
  <2> DEFINE a == wire.alg
             v == wire.iv
             d == wire.bytes
  <2>2. /\ a \in Algs /\ v \in Ivs \union {NoIv} /\ d \in Seq(Coded)
        /\ r \in psa_cipher_decrypt(key, a, v, ivWhole, d, room)
    BY <1>3
  <2>3. a = "ECB_NO_PADDING" => v = NoIv
    BY <1>3
  <2> HIDE DEF a, v, d
  <2>4. /\ Len(r.bytes) \in 0 .. room
        /\ r.st = "SUCCESS" => \A m \in Seq(Int) : Encrypted(a, v, m, d) => r.bytes = m
    <3>1. d \in Seq(Coded)
      BY <2>2
    <3>2. r \in psa_cipher_decrypt(key, a, v, ivWhole, d, room)
      BY <2>2
    <3>3. a \in Algs
      BY <2>2
    <3>4. v \in Ivs \union {NoIv}
      BY <2>2
    <3>5. Len(r.bytes) \in 0 .. room
      BY <2>1, <2>3, <3>1, <3>2, <3>3, <3>4, DecryptWorks
    <3>6. ASSUME r.st = "SUCCESS", NEW m \in Seq(Int), Encrypted(a, v, m, d) PROVE r.bytes = m
      BY <2>1, <2>3, <3>1, <3>2, <3>3, <3>4, <3>6, DecryptWorks
    <3> QED BY <3>5, <3>6
  <2> QED BY <2>4 DEF a, v, d
<1>6. r.st = "SUCCESS" => r.bytes = Message(wire.n)
  BY <1>4, <1>5
<1>7. CallOK'
  BY <1>1, <1>5 DEF CallOK
<1>8. RoundTrip'
  BY <1>1, <1>2, <1>6 DEF Inv, RoundTrip, NoPlain, Message
<1>9. WireOK'
  BY <1>2 DEF Inv, WireOK, Encrypted
<1>10. OperationOK'
  BY <1>2, OperationOver DEF Inv, OperationOK
<1> QED BY <1>7, <1>8, <1>9, <1>10 DEF Inv

(* The invariant holds at the start. *)
LEMMA InvInit ==
    ASSUME ConstantsOK, Init
    PROVE  Inv
<1>1. CallOK
  BY DEF Init, CallOK, ConstantsOK
<1>2. OperationOK /\ WireOK /\ RoundTrip
  BY DEF Init, OperationOK, WireOK, RoundTrip
<1> QED BY <1>1, <1>2 DEF Inv

(* Every call keeps the invariant. *)
LEMMA InvStep ==
    ASSUME ConstantsOK, Inv, [Next]_vars
    PROVE  Inv'
<1>1. CASE UNCHANGED vars
  <2>1. ctx' = ctx /\ call' = call /\ input' = input /\ out' = out /\ wire' = wire /\ plain' = plain
    BY <1>1 DEF vars
  <2>2. CallOK' /\ WireOK' /\ RoundTrip'
    BY <2>1 DEF Inv, CallOK, WireOK, RoundTrip, Encrypted, NoPlain, Message
  <2>3. OperationOK'
    BY <2>1 DEF Inv, OperationOK
  <2> QED BY <2>2, <2>3 DEF Inv
<1>2. CASE Inactive
  <2> DEFINE r == wolfpsa_cipher_fail("BAD_STATE")
  <2>1. r.c = NoCtx /\ r.bytes = <<>> /\ 0 \in Rooms
    BY DEF wolfpsa_cipher_fail, Result, ConstantsOK
  <2>2. Return(r, <<>>, 0) /\ Keep
    BY <1>2 DEF Inactive
  <2> HIDE DEF r
  <2> QED BY <2>1, <2>2, Ends
<1>3. CASE Abort
  <2> DEFINE r == Result("SUCCESS", NoCtx, <<>>)
  <2>1. r.c = NoCtx /\ r.bytes = <<>> /\ 0 \in Rooms
    BY DEF Result, ConstantsOK
  <2>2. Return(r, <<>>, 0) /\ Keep
    BY <1>3 DEF Abort
  <2> HIDE DEF r
  <2> QED BY <2>1, <2>2, Ends
<1> QED BY <1>1, <1>2, <1>3, SetupStep, SetupAgainStep, SetIvStep, GenerateIvStep, UpdateStep,
           FinishStep, OneShotDecryptStep, OneShotEncryptStep DEF Next

-----------------------------------------------------------------------------
(* The properties follow. *)

(* How long an encryption is. *)
LEMMA EncryptedLength ==
    ASSUME ConstantsOK, NEW alg, NEW iv, NEW m \in Seq(Int), NEW b, Encrypted(alg, iv, m, b)
    PROVE  Len(b) \in 0 .. Len(m) + BS
<1>1. PICK t \in Seq(Int) : Text(alg, m, t) /\ Len(b) = Len(t)
  BY DEF Encrypted
<1>2. BS \in Nat /\ Len(m) \in Nat
  BY LenProperties DEF ConstantsOK
<1>3. CASE t = m
  BY <1>1, <1>2, <1>3
<1>4. CASE t # m
  <2>1. PICK p \in 1 .. BS : t = m \o Pad(p)
    BY <1>1, <1>4 DEF Text
  <2>2. Len(t) = Len(m) + p
    BY <1>2, <2>1, PaddedText
  <2> QED BY <1>1, <1>2, <2>2
<1> QED BY <1>3, <1>4

(* The types of the context and of the last call. *)
LEMMA InvTypeOK ==
    ASSUME ConstantsOK, Inv
    PROVE  TypeOK
<1>1. call.room \in Rooms /\ call.wrote \in Nat
  BY DEF Inv, CallOK, ConstantsOK
<1>2. ASSUME ctx # NoCtx
      PROVE  /\ ctx.alg \in Algs /\ {ctx.enc, ctx.iv_set, ctx.iv_attempted} \subseteq BOOLEAN
             /\ ctx.iv \in Ivs \union {NoIv} /\ ctx.done \in 0 .. MaxLen + BS
             /\ Len(ctx.partial) =< BS
  <2>1. Working(ctx, input, out) /\ ctx \in Contexts
    BY <1>2, Active DEF Working
  <2>2. /\ ctx.alg \in Algs /\ {ctx.enc, ctx.iv_set, ctx.iv_attempted} \subseteq BOOLEAN
        /\ ctx.iv \in Ivs \union {NoIv}
    BY <2>1, ContextType
  <2>3. /\ Len(ctx.partial) = Len(input) - ctx.done /\ Len(input) \in Nat
        /\ ctx.done \in 0 .. Len(input)
    BY <2>1, RetainedBytes
  <2>4. BS \in Nat \ {0} /\ MaxLen \in Nat
    BY DEF ConstantsOK
  <2>5. Len(input) =< MaxLen + BS
    <3>1. CASE ctx.enc = TRUE
      <4>1. Len(input) =< MaxLen
        BY <1>2, <3>1, Active
      <4> QED BY <2>3, <2>4, <4>1
    <3>2. CASE ctx.enc = FALSE
      <4>1. wire # NoWire /\ Len(input) =< Len(wire.bytes)
        BY <1>2, <3>2, Active
      <4>2. Encrypted(wire.alg, wire.iv, Message(wire.n), wire.bytes) /\ wire.n \in 0 .. MaxLen
        BY <4>1 DEF Inv, WireOK
      <4>3. Message(wire.n) \in Seq(Int) /\ Len(Message(wire.n)) = wire.n
        BY <2>4, <4>2, MessageBytes
      <4>4. Len(wire.bytes) \in 0 .. wire.n + BS
        BY <4>2, <4>3, EncryptedLength
      <4> QED BY <2>3, <2>4, <4>1, <4>2, <4>4
    <3> QED BY <1>2, <3>1, <3>2, Active
  <2>6. Len(ctx.partial) =< BS
    <3>1. Residue(ctx, input)
      BY <2>1 DEF Working
    <3>2. CASE input = <<>>
      BY <2>3, <2>4, <3>2, EmptySeq
    <3>3. CASE input # <<>>
      BY <2>3, <2>4, <3>1, <3>3 DEF Residue
    <3> QED BY <3>2, <3>3
  <2>7. ctx.done \in 0 .. MaxLen + BS
    BY <2>3, <2>4, <2>5
  <2> QED BY <2>2, <2>6, <2>7
<1> QED BY <1>1, <1>2 DEF TypeOK

(* The retained bytes are the end of the input. *)
LEMMA IsEnding ==
    ASSUME NEW S, NEW s \in Seq(S), NEW d \in 0 .. Len(s)
    PROVE  IsSuffix(SubSeq(s, d + 1, Len(s)), s)
<1> DEFINE e == SubSeq(s, d + 1, Len(s))
           n == Len(s) - d
           E == Reverse(e)
           R == Reverse(s)
<1>1. Len(s) \in Nat
  BY LenProperties
<1>2. e \in Seq(S) /\ Len(e) = n /\ \A i \in 1 .. n : e[i] = s[d + i]
  BY Ending
<1>2a. n \in 0 .. Len(s) /\ n \in Nat
  BY <1>1
<1> HIDE DEF e
<1>3. E \in Seq(S) /\ Len(E) = n /\ \A i \in 1 .. n : E[i] = e[(n - i) + 1]
  <2>1. E = [i \in 1 .. n |-> e[(n - i) + 1]]
    BY <1>2 DEF Reverse
  <2>2. \A i \in 1 .. n : e[(n - i) + 1] \in S
    BY <1>1, <1>2, <1>2a, ElementOfSeq
  <2> HIDE DEF E, n
  <2> QED BY <1>2a, <2>1, <2>2
<1>4. R \in Seq(S) /\ Len(R) = Len(s) /\ \A i \in 1 .. Len(s) : R[i] = s[(Len(s) - i) + 1]
  <2>1. R = [i \in 1 .. Len(s) |-> s[(Len(s) - i) + 1]]
    BY DEF Reverse
  <2>2. \A i \in 1 .. Len(s) : s[(Len(s) - i) + 1] \in S
    BY <1>1, ElementOfSeq
  <2> HIDE DEF R
  <2> QED BY <1>1, <2>1, <2>2
<1>5. n = Len(s) - d
  OBVIOUS
<1> HIDE DEF E, R, n
<1>6. /\ SubSeq(E, 1, n) \in Seq(S) /\ Len(SubSeq(E, 1, n)) = n
      /\ \A i \in 1 .. n : SubSeq(E, 1, n)[i] = E[i]
  <2>1. n \in 0 .. Len(E)
    BY <1>2a, <1>3
  <2> QED BY <1>3, <2>1, Beginning
<1>7. /\ SubSeq(R, 1, n) \in Seq(S) /\ Len(SubSeq(R, 1, n)) = n
      /\ \A i \in 1 .. n : SubSeq(R, 1, n)[i] = R[i]
  <2>1. n \in 0 .. Len(R)
    BY <1>2a, <1>4
  <2> QED BY <1>4, <2>1, Beginning
<1>8. ASSUME NEW i \in 1 .. n PROVE E[i] = R[i]
  <2>1. (n - i) + 1 \in 1 .. n /\ d + ((n - i) + 1) = (Len(s) - i) + 1 /\ i \in 1 .. Len(s)
    BY <1>1, <1>2a, <1>5
  <2>2. E[i] = e[(n - i) + 1]
    BY <1>3
  <2>3. R[i] = s[(Len(s) - i) + 1]
    BY <1>4, <2>1
  <2> DEFINE k == (n - i) + 1
  <2>4. k \in 1 .. n /\ d + k = (Len(s) - i) + 1 /\ E[i] = e[k]
    BY <2>1, <2>2
  <2> HIDE DEF k
  <2>5. e[k] = s[d + k]
    BY <1>2, <2>4
  <2> QED BY <2>3, <2>4, <2>5
<1>9. SubSeq(E, 1, n) = SubSeq(R, 1, n)
  <2> DEFINE a == SubSeq(E, 1, n)
             b == SubSeq(R, 1, n)
  <2>1. a \in Seq(S) /\ b \in Seq(S) /\ Len(a) = Len(b) /\ \A i \in 1 .. Len(a) : a[i] = b[i]
    BY <1>6, <1>7, <1>8
  <2> HIDE DEF a, b
  <2>2. a = b
    BY <2>1, SeqEqual
  <2> QED BY <2>2 DEF a, b
<1>10. Len(E) <= Len(R) /\ SubSeq(E, 1, Len(E)) = SubSeq(R, 1, Len(E))
  BY <1>1, <1>2a, <1>3, <1>4, <1>9
<1> QED BY <1>10 DEF IsSuffix, IsPrefix, E, R, e

(* What is released and what is retained make the input. *)
LEMMA InvNothingLost ==
    ASSUME ConstantsOK, Inv
    PROVE  NothingLost
<1> SUFFICES ASSUME ctx # NoCtx
             PROVE  /\ Len(out) + Len(ctx.partial) = Len(input)
                    /\ IsSuffix(ctx.partial, input)
                    /\ out = Crypt([ctx EXCEPT !.done = 0], SubSeq(input, 1, Len(out)))
  BY DEF NothingLost
<1> DEFINE S == InSet(ctx.enc)
           n == Len(out)
           s == SubSeq(input, 1, n)
           x == [ctx EXCEPT !.done = 0]
<1>1. /\ Working(ctx, input, out) /\ ctx \in Contexts /\ input \in Seq(S) /\ out \in Seq(OutSet(ctx.enc))
      /\ n = ctx.done /\ ctx.partial = SubSeq(input, ctx.done + 1, Len(input))
      /\ ctx.done \in 0 .. Len(input) /\ Streamed(ctx, input, 0, out)
  BY Active DEF Working
<1>2. Len(ctx.partial) = Len(input) - ctx.done /\ Len(input) \in Nat
  BY <1>1, RetainedBytes
<1>3. n + Len(ctx.partial) = Len(input)
  BY <1>1, <1>2
<1>4. IsSuffix(ctx.partial, input)
  BY <1>1, IsEnding
<1>5. x \in Contexts /\ x.done = 0 /\ x.enc = ctx.enc /\ x.alg = ctx.alg /\ x.iv = ctx.iv
  BY <1>1 DEF Contexts
<1> HIDE DEF x, n, S
<1>6. s \in Seq(S) /\ Len(s) = n /\ \A i \in 1 .. n : s[i] = input[i]
  BY <1>1, Beginning
<1> HIDE DEF s
<1>7. /\ Crypt(x, s) \in Seq(OutSet(ctx.enc)) /\ Len(Crypt(x, s)) = n
      /\ \A i \in 1 .. n : Crypt(x, s)[i] = CryptByte(x, 0 + i, s[i])
  <2>1. s \in Seq(InSet(x.enc))
    BY <1>5, <1>6 DEF S
  <2>2. /\ Crypt(x, s) \in Seq(OutSet(x.enc)) /\ Len(Crypt(x, s)) = Len(s)
        /\ \A i \in 1 .. Len(s) : Crypt(x, s)[i] = CryptByte(x, x.done + i, s[i])
    BY <1>5, <2>1, CryptBytes
  <2> QED BY <1>5, <1>6, <2>2
<1>8. ASSUME NEW i \in 1 .. n PROVE out[i] = Crypt(x, s)[i]
  <2>1. out[i] = CryptByte(ctx, 0 + i, input[0 + i])
    BY <1>1 DEF Streamed, n
  <2>2. 0 + i = i
    BY <1>1
  <2>3. CryptByte(ctx, 0 + i, s[i]) = CryptByte(x, 0 + i, s[i])
    BY <1>5 DEF CryptByte, Key
  <2> QED BY <1>6, <1>7, <2>1, <2>2, <2>3
<1>9. out = Crypt(x, s)
  <2> DEFINE y == Crypt(x, s)
  <2>1. out \in Seq(OutSet(ctx.enc)) /\ y \in Seq(OutSet(ctx.enc)) /\ Len(out) = Len(y)
        /\ \A i \in 1 .. Len(out) : out[i] = y[i]
    BY <1>1, <1>7, <1>8 DEF n
  <2> HIDE DEF y
  <2>2. out = y
    BY <2>1, SeqEqual
  <2> QED BY <2>2 DEF y
<1> QED BY <1>3, <1>4, <1>9 DEF n, s, x

(* The invariant keeps the stream. *)
LEMMA InvStreamKept ==
    ASSUME ConstantsOK, Inv
    PROVE  StreamKept
<1>1. ResidueKept
  <2> SUFFICES ASSUME ctx # NoCtx
               PROVE  IF ctx.alg = "CBC_PKCS7" /\ ~ctx.enc
                      THEN input # <<>> => Len(ctx.partial) \in 1 .. BS
                      ELSE Len(ctx.partial) < (IF ctx.alg \in StreamAlgs THEN 1 ELSE BS)
    BY DEF ResidueKept
  <2>1. Residue(ctx, input) /\ ctx.enc \in BOOLEAN
    BY Active DEF Working
  <2> QED BY <2>1 DEF Residue
<1>2. NoOverrun
  BY DEF Inv, CallOK, NoOverrun, ConstantsOK
<1> QED BY <1>1, <1>2, InvTypeOK, InvNothingLost DEF StreamKept

(* While an operation goes on, its algorithm and its IV stay. *)
LEMMA Steady ==
    ASSUME ConstantsOK, Inv, [Next]_vars, ctx # NoCtx, ctx' # NoCtx
    PROVE  ctx'.alg = ctx.alg /\ (ctx.iv # NoIv => ctx'.iv = ctx.iv)
<1>0. Working(ctx, input, out)
  BY Active
<1>1. CASE UNCHANGED vars
  BY <1>1 DEF vars
<1>2. CASE Inactive
  BY <1>2 DEF Inactive
<1>3. CASE Abort
  BY <1>3 DEF Abort, Return, Result
<1>4. CASE \E key \in Keys, alg \in Algs, enc \in BOOLEAN : Setup(key, alg, enc)
  BY <1>4 DEF Setup
<1>5. CASE \E key \in Keys : SetupAgain(key)
  BY <1>5 DEF SetupAgain, psa_cipher_encrypt_setup, SetUp, Return, Result
<1>6. ASSUME NEW iv \in Ivs, NEW r, Failed(r) \/ IvSet(r, ctx, input, out, iv), ctx' = r.c
      PROVE  ctx'.alg = ctx.alg /\ (ctx.iv # NoIv => ctx'.iv = ctx.iv)
  BY <1>6 DEF Failed, IvSet
<1>7. CASE \E iv \in Ivs, lenOk \in BOOLEAN : SetIvCall(iv, lenOk)
  <2>1. PICK iv \in Ivs, lenOk \in BOOLEAN : SetIvCall(iv, lenOk)
    BY <1>7
  <2>2. PICK r \in wolfpsa_cipher_set_iv(ctx, iv, lenOk) : ctx' = r.c
    BY <2>1 DEF SetIvCall, Return
  <2>3. Failed(r) \/ IvSet(r, ctx, input, out, iv)
    BY <1>0, SetIvWorks
  <2> QED BY <1>6, <2>2, <2>3
<1>8. CASE \E iv \in Ivs, size \in Rooms : GenerateIv(iv, size)
  <2>1. PICK iv \in Ivs, size \in Rooms : GenerateIv(iv, size)
    BY <1>8
  <2>2. PICK r \in wolfpsa_cipher_generate_iv(ctx, iv, size) : ctx' = r.c
    BY <2>1 DEF GenerateIv, Return
  <2>3. Failed(r) \/ IvSet(r, ctx, input, out, iv)
    BY <1>0, GenerateIvWorks
  <2> QED BY <1>6, <2>2, <2>3
<1>9. CASE \E n \in Lens, room \in Rooms, overlap \in BOOLEAN : Update(n, room, overlap)
  <2>1. PICK n \in Lens, room \in Rooms, overlap \in BOOLEAN : Update(n, room, overlap)
    BY <1>9
  <2> DEFINE data == NextInput(n)
  <2>2. PICK r \in psa_cipher_update(ctx, data, room, overlap) : ctx' = r.c
    BY <2>1 DEF Update, Return
  <2>3. n \in Nat /\ n =< Available /\ room \in Nat
    BY <2>1 DEF Update, ConstantsOK
  <2>4. data = NextInput(n)
    OBVIOUS
  <2> HIDE DEF data
  <2>5. data \in Seq(InSet(ctx.enc))
    BY <2>3, <2>4, NextBytes
  <2>6. Failed(r) \/ WentOn(r, ctx, input \o data, out, room)
    BY <1>0, <2>3, <2>5, UpdateCall
  <2> QED BY <2>2, <2>6 DEF Failed, WentOn
<1>10. CASE \E room \in Rooms : Finish(room)
  <2>1. PICK room \in Rooms : Finish(room)
    BY <1>10
  <2>2. PICK r \in psa_cipher_finish(ctx, room) : ctx' = r.c
    BY <2>1 DEF Finish, Return
  <2>3. room \in Nat
    BY DEF ConstantsOK
  <2>4. Failed(r) \/ Ended(r, ctx, input, out, room)
    BY <1>0, <2>3, FinishCall
  <2> QED BY <2>2, <2>4 DEF Failed, Ended
<1>11. CASE \E key \in Keys, ivWhole \in BOOLEAN,
            room \in Rooms : OneShotDecrypt(key, ivWhole, room)
  BY <1>11 DEF OneShotDecrypt, Settled
<1>12. CASE \E key \in Keys, alg \in Algs, iv \in Ivs, n \in 0 .. MaxLen, room \in Rooms :
               OneShotEncrypt(key, alg, iv, n, room)
  BY <1>12 DEF OneShotEncrypt, Settled
<1> QED BY <1>1, <1>2, <1>3, <1>4, <1>5, <1>7, <1>8, <1>9, <1>10, <1>11, <1>12 DEF Next

(* Nothing is released before the IV. *)
LEMMA IvFirst ==
    ASSUME ConstantsOK, Inv, ctx # NoCtx, out # <<>>
    PROVE  ctx.iv # NoIv \/ ctx.alg = "ECB_NO_PADDING"
<1>1. Working(ctx, input, out)
  BY Active
<1>2. /\ ctx.done \in 0 .. Len(input) /\ Len(out) = ctx.done /\ out \in Seq(OutSet(ctx.enc))
      /\ input # <<>> => ctx.iv_set = TRUE \/ ctx.alg = "ECB_NO_PADDING"
  BY <1>1 DEF Working
<1>3. input # <<>>
  <2>1. Len(out) # 0
    BY <1>2, EmptySeq
  <2> QED BY <1>2, <2>1, EmptySeq
<1> QED BY <1>2, <1>3, Active

(* What a step may do to the IV. *)
IvKept ==
    ctx # NoCtx /\ ctx' # NoCtx =>
        /\ ctx.iv # NoIv => ctx'.iv = ctx.iv
        /\ out' # <<>> => ctx'.iv # NoIv \/ ctx.alg = "ECB_NO_PADDING"

(* A step keeps the IV, and releases nothing before there is one. *)
LEMMA IvKeptStep ==
    ASSUME ConstantsOK, Inv, Inv', [Next]_vars
    PROVE  IvKept
<1> SUFFICES ASSUME ctx # NoCtx, ctx' # NoCtx
             PROVE  /\ ctx.iv # NoIv => ctx'.iv = ctx.iv
                    /\ out' # <<>> => ctx'.iv # NoIv \/ ctx.alg = "ECB_NO_PADDING"
  BY DEF IvKept
<1>1. ctx'.alg = ctx.alg /\ (ctx.iv # NoIv => ctx'.iv = ctx.iv)
  BY Steady
<1>2. (ctx # NoCtx /\ out # <<>> => ctx.iv # NoIv \/ ctx.alg = "ECB_NO_PADDING")'
  BY IvFirst, PTL
<1> QED BY <1>1, <1>2

(* Every call keeps what an operation owes its input. *)
LEMMA CipherInvariant ==
    ASSUME ConstantsOK
    PROVE  Spec => []Inv
<1> QED BY InvInit, InvStep, PTL DEF Spec

(* However the input is cut into calls, an operation releases every byte it    *)
(* was given in order and encrypted at its place, retains the rest within a    *)
(* block, and writes no more than it was given room for (psa_cipher_update(),  *)
(* psa_cipher_finish()).                                                       *)
THEOREM StreamsAreKept ==
    ASSUME ConstantsOK
    PROVE  Spec => []StreamKept
<1>1. Inv => StreamKept
  BY InvStreamKept
<1> QED BY <1>1, CipherInvariant, PTL

(* What an operation or psa_cipher_encrypt() has encrypted decrypts to its     *)
(* message, in one call of psa_cipher_decrypt() or in many.                    *)
THEOREM MessagesComeBack ==
    ASSUME ConstantsOK
    PROVE  Spec => []RoundTrip
<1>1. Inv => RoundTrip
  BY DEF Inv
<1> QED BY <1>1, CipherInvariant, PTL

(* An operation never changes its IV, and releases nothing before it has one   *)
(* (psa_cipher_set_iv(), psa_cipher_generate_iv()).                            *)
THEOREM OperationsKeepTheirIv ==
    ASSUME ConstantsOK
    PROVE  Spec => OneIv
<1>1. Inv /\ Inv' /\ [Next]_vars => IvKept
  BY IvKeptStep
<1>2. [][Next]_vars /\ []Inv => OneIv
  BY <1>1, PTL DEF OneIv, IvKept
<1> QED BY <1>2, CipherInvariant, PTL DEF Spec
=============================================================================
