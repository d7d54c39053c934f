---------------------------- MODULE AeadOpProofs ----------------------------
(***************************************************************************)
(* The properties of AeadOp for every block size, every bound and every set *)
(* of keys, nonces, tag lengths and buffer sizes.                           *)
(*                                                                         *)
(* Texts are tables (Tab) of functions on the naturals, so that a piece of   *)
(* a message, in whatever way it was cut, is a piece of one function.  The    *)
(* CCM stream after f bytes is CcmAt; LoopRun shows, by induction over the    *)
(* bytes of a call, that psa_aead_update() takes it from f to f + n, and      *)
(* FinishBlocks that the padded last block completes the MAC of the whole     *)
(* text.  CtxOK says what a context holds after g bytes of additional data    *)
(* and f bytes of input, and one lemma per call that the call keeps it.       *)
(* MacShape and TagTells show that a tag tells which nonce, additional data    *)
(* and length it was made of.  IInv adds what is on the wire and what was      *)
(* opened.                                                                   *)
(***************************************************************************)
EXTENDS AeadOp, SequenceTheorems, WellFoundedInduction, TLAPS

(* n values of the function p, after the first f. *)
Tab(p, f, n) == [i \in 1 .. n |-> p[f + i]]

(* Bytes of text and of ciphertext, and what a MAC absorbs. *)
AnyNonce == Nonces \union {NoNonce}
Texts == Nat \union {Garbage}
Coded == [k : AnyNonce \X Nat, b : Nat]
Absorbed ==
    [nonce : AnyNonce, len : Nat, tag : TagLens, adata : BOOLEAN]
    \union [1 .. BS -> Texts] \union (AnyNonce \X Seq(Nat)) \union Coded

(* The bytes of a message: plain, encrypted with nonce, and decrypted again    *)
(* with an equal or another nonce.                                           *)
Plain == [i \in Nat |-> i]
Sealed(nonce) == [i \in Nat |-> [k |-> <<nonce, i>>, b |-> i]]
Lost == [i \in Nat |-> Garbage]

(* The bytes of an operation that encrypts with nonce, or decrypts with nonce   *)
(* what was encrypted with sent: what goes in, what comes out, its plaintext   *)
(* and its ciphertext.                                                       *)
InOf(enc, sent) == IF enc = TRUE THEN Plain ELSE Sealed(sent)
TextOf(enc, nonce, sent) == IF enc = TRUE \/ nonce = sent THEN Plain ELSE Lost
OutOf(enc, nonce, sent) == IF enc = TRUE THEN Sealed(nonce) ELSE TextOf(enc, nonce, sent)
CodeOf(enc, nonce, sent) == Sealed(IF enc = TRUE THEN nonce ELSE sent)
CoveredOf(c, sent) ==
    IF c.alg = "CCM" THEN TextOf(c.enc, c.nonce, sent) ELSE CodeOf(c.enc, c.nonce, sent)

(* The tag of a message. *)
Tagged(alg, nonce, len, ad, text) ==
    TagOf([alg |-> alg, nonce |-> nonce, tag_length |-> len], Message(ad), text)

(* The i-th block of the text p. *)
Blocks(p) == [i \in Nat |-> IF i = 0 THEN Tab(p, 0, BS) ELSE Tab(p, (i - 1) * BS, BS)]

Fields == {"alg", "enc", "tag_length", "nonce", "aad", "input", "input_length", "lengths_set",
           "ad_expected", "plaintext_expected", "ad_started", "body_started", "streaming",
           "mac", "mblk", "ctr", "ks_off"}

(* Contexts that differ at most in the state of the stream. *)
SameButStream(c, d) ==
    /\ d.alg = c.alg /\ d.enc = c.enc /\ d.tag_length = c.tag_length /\ d.nonce = c.nonce
    /\ d.aad = c.aad /\ d.input = c.input /\ d.input_length = c.input_length
    /\ d.lengths_set = c.lengths_set /\ d.ad_expected = c.ad_expected
    /\ d.plaintext_expected = c.plaintext_expected /\ d.ad_started = c.ad_started
    /\ d.body_started = c.body_started /\ d.streaming = c.streaming

(* The CCM stream after f bytes of the plaintext p: the counter stands at the  *)
(* next keystream byte, the whole blocks have gone through the MAC, the rest  *)
(* waits in the message block.                                               *)
CcmAt(c, start, p, f) ==
    /\ c.ctr \in Nat \ {0} /\ c.ks_off \in 0 .. BS /\ (c.ctr - 1) * BS + c.ks_off = f
    /\ \E q \in Nat : /\ q * BS =< f /\ f < q * BS + BS
                       /\ c.mac = start \o Tab(Blocks(p), 0, q)
                       /\ c.mblk = Tab(p, q * BS, f - q * BS)

-----------------------------------------------------------------------------
(* Induction over the naturals, from WFMin of WellFoundedInduction: no         *)
(* operator has to be instantiated.                                          *)

LEMMA Least ==
    ASSUME NEW T, T \subseteq Nat, T # {}
    PROVE  \E x \in T : \A y \in T : x =< y
<1> DEFINE R == OpToRel(<, Nat)
<1>1. IsWellFoundedOn(R, Nat)
  BY NatLessThanWellFounded
<1> HIDE DEF R
<1>2. PICK x \in T : \A y \in T : ~(<<y, x>> \in R)
  BY <1>1, WFMin
<1>3. ASSUME NEW y \in T, y < x PROVE FALSE
  <2>1. <<y, x>> \in R
    BY <1>3 DEF R, OpToRel
  <2> QED BY <2>1, <1>2
<1> QED BY <1>3

(* A set that holds 0 and the successor of each number it holds holds all. *)
LEMMA SetInduction ==
    ASSUME NEW S, 0 \in S, \A n \in Nat : n \in S => n + 1 \in S
    PROVE  Nat \subseteq S
<1> SUFFICES ASSUME Nat \ S # {} PROVE FALSE
  OBVIOUS
<1>1. PICK x \in Nat \ S : \A y \in Nat \ S : x =< y
  BY Least
<1>2. x # 0 /\ x - 1 \in Nat
  OBVIOUS
<1>3. x - 1 \in S
  BY <1>1, <1>2
<1>4. (x - 1) + 1 = x
  OBVIOUS
<1> QED BY <1>1, <1>2, <1>3, <1>4

(* Tables as sequences. *)
LEMMA TabSeq ==
    ASSUME NEW S, NEW p \in [Nat -> S], NEW f \in Nat, NEW n \in Nat
    PROVE  Tab(p, f, n) \in Seq(S) /\ Len(Tab(p, f, n)) = n
<1>1. \A i \in 1 .. n : p[f + i] \in S
  OBVIOUS
<1>2. Tab(p, f, n) \in [1 .. n -> S]
  BY <1>1 DEF Tab
<1> QED BY <1>2 DEF Tab

LEMMA TabEmpty ==
    ASSUME NEW p, NEW f
    PROVE  Tab(p, f, 0) = <<>>
BY DEF Tab

LEMMA TabJoin ==
    ASSUME NEW S, NEW p \in [Nat -> S], NEW f \in Nat, NEW m \in Nat, NEW n \in Nat
    PROVE  Tab(p, f, m) \o Tab(p, f + m, n) = Tab(p, f, m + n)
<1>g. PICK g \in Nat : g = f + m
  OBVIOUS
<1>k. PICK k \in Nat : k = m + n
  OBVIOUS
<1> DEFINE a == Tab(p, f, m)  b == Tab(p, g, n)  t == Tab(p, f, k)
<1>1. a \in Seq(S) /\ Len(a) = m /\ \A i \in 1 .. m : a[i] = p[f + i]
  <2>1. a \in Seq(S) /\ Len(a) = m
    BY TabSeq
  <2>2. \A i \in 1 .. m : a[i] = p[f + i]
    BY DEF Tab
  <2> QED BY <2>1, <2>2
<1>2. b \in Seq(S) /\ Len(b) = n /\ \A i \in 1 .. n : b[i] = p[g + i]
  <2>1. b \in Seq(S) /\ Len(b) = n
    BY TabSeq
  <2>2. \A i \in 1 .. n : b[i] = p[g + i]
    BY DEF Tab
  <2> QED BY <2>1, <2>2
<1>3. t \in Seq(S) /\ Len(t) = k /\ \A i \in 1 .. k : t[i] = p[f + i]
  <2>1. t \in Seq(S) /\ Len(t) = k
    BY TabSeq
  <2>2. \A i \in 1 .. k : t[i] = p[f + i]
    BY DEF Tab
  <2> QED BY <2>1, <2>2
<1> HIDE DEF a, b, t
<1>4. /\ a \o b \in Seq(S) /\ Len(a \o b) = Len(a) + Len(b)
      /\ \A i \in 1 .. Len(a) + Len(b) : (a \o b)[i] = IF i <= Len(a) THEN a[i] ELSE b[i - Len(a)]
  BY <1>1, <1>2, ConcatProperties
<1>5. ASSUME NEW i \in 1 .. k PROVE (a \o b)[i] = t[i]
  <2>1. CASE i =< m
    BY <1>k, <2>1, <1>1, <1>3, <1>2, <1>4
  <2>2. CASE ~(i =< m)
    <3>1. i - m \in 1 .. n /\ g + (i - m) = f + i
      BY <1>g, <1>k, <2>2
    <3>2. (a \o b)[i] = b[i - m]
      BY <1>k, <1>1, <1>2, <1>4, <2>2
    <3> QED BY <3>1, <3>2, <1>2, <1>3
  <2> QED BY <2>1, <2>2
<1>6. Len(a) + Len(b) = k
  BY <1>1, <1>2, <1>k
<1>7. a \o b = t
  BY <1>3, <1>4, <1>5, <1>6, SeqEqual
<1> QED BY <1>7, <1>g, <1>k DEF a, b, t

LEMMA TabAppend ==
    ASSUME NEW S, NEW p \in [Nat -> S], NEW f \in Nat, NEW n \in Nat
    PROVE  Append(Tab(p, f, n), p[f + n + 1]) = Tab(p, f, n + 1)
<1> DEFINE a == Tab(p, f, n)  e == p[f + n + 1]
<1>1. a \in Seq(S) /\ Len(a) = n /\ e \in S
  BY TabSeq
<1>2. Tab(p, f + n, 1) = <<e>>
  <2>1. (f + n) + 1 = f + n + 1
    OBVIOUS
  <2> QED BY <2>1 DEF Tab
<1>3. Append(a, e) = a \o <<e>>
  BY <1>1, AppendIsConcat
<1>4. Tab(p, f, n) \o Tab(p, f + n, 1) = Tab(p, f, n + 1)
  <2>1. 1 \in Nat
    OBVIOUS
  <2> HIDE DEF a, e
  <2> QED BY <2>1, TabJoin
<1> QED BY <1>2, <1>3, <1>4

LEMMA TabPart ==
    ASSUME NEW S, NEW p \in [Nat -> S], NEW f \in Nat, NEW m \in Nat, NEW n \in Nat, f + m =< n
    PROVE  SubSeq(Tab(p, 0, n), f + 1, f + m) = Tab(p, f, m)
<1>z. PICK z \in Nat : z = 0
  OBVIOUS
<1> DEFINE t == Tab(p, z, n)  s == SubSeq(t, f + 1, f + m)  u == Tab(p, f, m)
<1>1. t \in Seq(S) /\ Len(t) = n /\ \A i \in 1 .. n : t[i] = p[z + i]
  <2>1. t \in Seq(S) /\ Len(t) = n
    BY TabSeq
  <2>2. \A i \in 1 .. n : t[i] = p[z + i]
    BY DEF Tab
  <2> QED BY <2>1, <2>2
<1>2. u \in Seq(S) /\ Len(u) = m /\ \A i \in 1 .. m : u[i] = p[f + i]
  <2>1. u \in Seq(S) /\ Len(u) = m
    BY TabSeq
  <2>2. \A i \in 1 .. m : u[i] = p[f + i]
    BY DEF Tab
  <2> QED BY <2>1, <2>2
<1> HIDE DEF t, u
<1>3. \A i \in f + 1 .. f + m : t[i] \in S
  BY <1>1, ElementOfSeq
<1>4. /\ s \in Seq(S) /\ Len(s) = IF f + 1 =< f + m THEN (f + m) - (f + 1) + 1 ELSE 0
      /\ \A i \in 1 .. (f + m) - (f + 1) + 1 : s[i] = t[(f + 1) + i - 1]
  BY <1>3, SubSeqProperties
<1> HIDE DEF s
<1>5. Len(s) = m
  BY <1>4
<1>6. ASSUME NEW i \in 1 .. m PROVE s[i] = u[i]
  <2>1. f + i \in 1 .. n /\ (f + 1) + i - 1 = f + i /\ z + (f + i) = f + i
    BY <1>z
  <2>2. i \in 1 .. (f + m) - (f + 1) + 1
    OBVIOUS
  <2> QED BY <2>1, <2>2, <1>1, <1>2, <1>4
<1>7. s = u
  BY <1>2, <1>4, <1>5, <1>6, SeqEqual
<1> QED BY <1>7, <1>z DEF s, t, u

(* The byte functions. *)
LEMMA ByteFunctions ==
    /\ Plain \in [Nat -> Nat] /\ Plain \in [Nat -> Texts] /\ Lost \in [Nat -> Texts]
    /\ \A nonce \in AnyNonce : Sealed(nonce) \in [Nat -> Coded]
BY DEF Plain, Lost, Sealed, Texts, Coded

LEMMA BytesTab ==
    ASSUME NEW f \in Nat, NEW n \in Nat
    PROVE  Bytes(f, n) = Tab(Plain, f, n)
<1>1. \A i \in 1 .. n : f + i \in Nat
  OBVIOUS
<1> QED BY <1>1 DEF Bytes, Tab, Plain

LEMMA MessageTab ==
    ASSUME NEW n \in Nat
    PROVE  /\ Message(n) = Tab(Plain, 0, n) /\ Message(n) \in Seq(Nat) /\ Len(Message(n)) = n
           /\ Message(n) = <<>> <=> n = 0
<1>1. Message(n) = Tab(Plain, 0, n)
  BY BytesTab DEF Message
<1>2. Message(n) \in Seq(Nat) /\ Len(Message(n)) = n
  <2>1. \A f \in Nat : Tab(Plain, f, n) \in Seq(Nat) /\ Len(Tab(Plain, f, n)) = n
    <3>1. Plain \in [Nat -> Nat]
      BY ByteFunctions
    <3> QED BY <3>1, TabSeq
  <2> QED BY <1>1, <2>1
<1>3. Message(n) = <<>> <=> n = 0
  BY <1>2, EmptySeq
<1> QED BY <1>1, <1>2, <1>3
LEMMA Sizes == BS \in Nat /\ BS > 1 /\ BS \in Int
BY SizesAssumption

LEMMA BlocksAre ==
    ASSUME NEW p \in [Nat -> Texts]
    PROVE  /\ Blocks(p) \in [Nat -> Absorbed]
           /\ \A q \in Nat : Blocks(p)[q + 1] = Tab(p, q * BS, BS)
<1>1. ASSUME NEW f \in Nat PROVE Tab(p, f, BS) \in Absorbed
  <2>1. \A i \in 1 .. BS : f + i \in Nat
    BY Sizes
  <2>2. Tab(p, f, BS) \in [1 .. BS -> Texts]
    BY <2>1 DEF Tab
  <2> QED BY <2>2 DEF Absorbed
<1>2. ASSUME NEW i \in Nat PROVE Blocks(p)[i] \in Absorbed
  <2>1. CASE i = 0
    BY <2>1, <1>1 DEF Blocks
  <2>2. CASE i # 0
    <3>1. (i - 1) * BS \in Nat
      BY <2>2, Sizes
    <3> QED BY <3>1, <2>2, <1>1 DEF Blocks
  <2> QED BY <2>1, <2>2
<1>3. Blocks(p) \in [Nat -> Absorbed]
  BY <1>2 DEF Blocks
<1>4. ASSUME NEW q \in Nat PROVE Blocks(p)[q + 1] = Tab(p, q * BS, BS)
  <2>1. q + 1 \in Nat /\ q + 1 # 0 /\ (q + 1) - 1 = q
    OBVIOUS
  <2> QED BY <2>1 DEF Blocks
<1> QED BY <1>3, <1>4

(* The counter moves to the next block when the keystream is used up. *)
LEMMA CounterKept ==
    ASSUME NEW c, DOMAIN c = Fields, c.ctr \in Nat \ {0}, c.ks_off \in 0 .. BS
    PROVE  LET d == wolfpsa_aead_ccm_ctr_inc(c)
           IN  /\ DOMAIN d = Fields /\ SameButStream(c, d) /\ d.mac = c.mac /\ d.mblk = c.mblk
               /\ d.ctr \in Nat \ {0} /\ d.ks_off \in 0 .. BS - 1
               /\ (d.ctr - 1) * BS + d.ks_off = (c.ctr - 1) * BS + c.ks_off
<1> DEFINE d == wolfpsa_aead_ccm_ctr_inc(c)
<1>1. CASE c.ks_off # BS
  <2>1. d = c
    BY <1>1 DEF wolfpsa_aead_ccm_ctr_inc
  <2> QED BY <1>1, <2>1, Sizes DEF SameButStream
<1>2. CASE c.ks_off = BS
  <2>1. d = [c EXCEPT !.ctr = @ + 1, !.ks_off = 0]
    BY <1>2 DEF wolfpsa_aead_ccm_ctr_inc
  <2>2. DOMAIN d = Fields /\ d.ctr = c.ctr + 1 /\ d.ks_off = 0 /\ d.mac = c.mac /\ d.mblk = c.mblk
    BY <2>1 DEF Fields
  <2>3. SameButStream(c, d)
    BY <2>1 DEF Fields, SameButStream
  <2>4. (d.ctr - 1) * BS + d.ks_off = (c.ctr - 1) * BS + c.ks_off
    <3>1. PICK k \in Nat : k = c.ctr - 1
      OBVIOUS
    <3>2. (k + 1) * BS + 0 = k * BS + BS
      BY Sizes
    <3>3. d.ctr - 1 = k + 1
      BY <2>2, <3>1
    <3> QED BY <3>1, <3>2, <3>3, <2>2, <1>2
  <2> QED BY <2>2, <2>3, <2>4, Sizes
<1> QED BY <1>1, <1>2

(* A keystream place: the code's counter and offset name the next byte. *)
LEMMA ByteStep ==
    ASSUME NEW c, DOMAIN c = Fields, NEW b, NEW x,
           NEW start \in Seq(Absorbed), NEW p \in [Nat -> Texts], NEW f \in Nat,
           CcmAt(c, start, p, f), pt_byte(c, x, CryptByte(c, f + 1, x)) = p[f + 1]
    PROVE  LET r == CcmByte([c |-> c, bytes |-> b], x)
           IN  /\ DOMAIN r.c = Fields /\ SameButStream(c, r.c)
               /\ CcmAt(r.c, start, p, f + 1) /\ r.bytes = Append(b, CryptByte(c, f + 1, x))
<1> DEFINE y == CryptByte(c, f + 1, x)
           d == wolfpsa_aead_ccm_ctr_inc(c)
           r == CcmByte([c |-> c, bytes |-> b], x)
           mblk == Append(c.mblk, p[f + 1])
           full == Len(mblk) = BS
           e == [d EXCEPT !.ks_off = @ + 1, !.mac = IF full THEN Append(@, mblk) ELSE @,
                          !.mblk = IF full THEN <<>> ELSE mblk]
<1>1. c.ctr \in Nat \ {0} /\ c.ks_off \in 0 .. BS /\ (c.ctr - 1) * BS + c.ks_off = f
  BY DEF CcmAt
<1>2. /\ DOMAIN d = Fields /\ SameButStream(c, d) /\ d.mac = c.mac /\ d.mblk = c.mblk
      /\ d.ctr \in Nat \ {0} /\ d.ks_off \in 0 .. BS - 1
      /\ (d.ctr - 1) * BS + d.ks_off = f
  BY <1>1, CounterKept
<1> HIDE DEF d
<1>3. CryptByte(d, (d.ctr - 1) * BS + d.ks_off + 1, x) = y /\ pt_byte(d, x, y) = p[f + 1]
  BY <1>2 DEF CryptByte, pt_byte, SameButStream
<1>4. r = [c |-> e, bytes |-> Append(b, y)]
  BY <1>2, <1>3 DEF CcmByte, d
<1>5. r.c = e /\ r.bytes = Append(b, y)
  BY <1>4
<1> HIDE DEF r
<1>6. /\ DOMAIN e = Fields /\ e.ks_off = d.ks_off + 1 /\ e.ctr = d.ctr
      /\ e.mac = (IF full THEN Append(c.mac, mblk) ELSE c.mac)
      /\ e.mblk = (IF full THEN <<>> ELSE mblk)
  BY <1>2 DEF Fields
<1>7. SameButStream(d, e)
  BY <1>2 DEF Fields, SameButStream
<1>8. SameButStream(c, e)
  BY <1>2, <1>7 DEF SameButStream
<1> HIDE DEF e
<1>9. e.ctr \in Nat \ {0} /\ e.ks_off \in 0 .. BS /\ (e.ctr - 1) * BS + e.ks_off = f + 1
  <2> HIDE DEF mblk, full
  <2>0. e.ks_off = d.ks_off + 1 /\ e.ctr = d.ctr
    BY <1>6
  <2>1. PICK k \in Nat : k = (d.ctr - 1) * BS
    BY <1>2, Sizes
  <2>2. k + d.ks_off = f
    BY <2>1, <1>2
  <2>3. e.ctr \in Nat \ {0} /\ e.ks_off \in 0 .. BS /\ (e.ctr - 1) * BS = k
    <3>1. (e.ctr - 1) * BS = k
      BY <2>0, <2>1
    <3> QED BY <3>1, <2>0, <1>2, Sizes
  <2>4. k + e.ks_off = f + 1
    <3>1. d.ks_off \in Int
      BY <1>2, Sizes
    <3> QED BY <3>1, <2>0, <2>2
  <2> QED BY <2>3, <2>4
<1>10. PICK q \in Nat : /\ q * BS =< f /\ f < q * BS + BS
                        /\ c.mac = start \o Tab(Blocks(p), 0, q)
                        /\ c.mblk = Tab(p, q * BS, f - q * BS)
  BY DEF CcmAt
<1>11. PICK m \in Nat : m = q * BS
  BY Sizes
<1>12. PICK w \in Nat : w = f - m
  BY <1>10, <1>11, Sizes
<1>13. mblk = Tab(p, m, w + 1) /\ Len(mblk) = w + 1
  <2>1. c.mblk = Tab(p, m, w) /\ f + 1 = m + w + 1
    BY <1>10, <1>11, <1>12
  <2>2. mblk = Tab(p, m, w + 1)
    BY <2>1, TabAppend
  <2>3. PICK v \in Nat : v = w + 1
    OBVIOUS
  <2>4. Len(Tab(p, m, v)) = v
    BY TabSeq, ZenonT(30)
  <2> QED BY <2>2, <2>3, <2>4
<1>14. ASSUME w + 1 = BS PROVE CcmAt(e, start, p, f + 1)
  <2>1. full
    BY <1>13, <1>14
  <2>2. e.mac = Append(c.mac, mblk) /\ e.mblk = <<>>
    BY <2>1, <1>6
  <2>3. mblk = Blocks(p)[0 + q + 1]
    <3>1. Blocks(p)[q + 1] = Tab(p, q * BS, BS) /\ 0 + q + 1 = q + 1
      BY BlocksAre
    <3> QED BY <3>1, <1>13, <1>14, <1>11
  <2>4. Append(c.mac, mblk) = start \o Tab(Blocks(p), 0, q + 1)
    <3> DEFINE t == Tab(Blocks(p), 0, q)
    <3>1. Blocks(p) \in [Nat -> Absorbed] /\ 0 \in Nat
      BY BlocksAre
    <3>2. t \in Seq(Absorbed)
      BY <3>1, TabSeq
    <3>3. Append(t, mblk) = Tab(Blocks(p), 0, q + 1)
      BY <2>3, <3>1, TabAppend
    <3>4. mblk \in Absorbed
      <4>1. 0 + q + 1 \in Nat
        OBVIOUS
      <4> QED BY <2>3, <3>1, <4>1
    <3> HIDE DEF t, mblk
    <3>5. start \o t \in Seq(Absorbed)
      BY <3>2, ConcatProperties
    <3>6. <<mblk>> \in Seq(Absorbed)
      BY <3>4
    <3>7. Append(start \o t, mblk) = (start \o t) \o <<mblk>> /\ Append(t, mblk) = t \o <<mblk>>
      BY <3>2, <3>4, <3>5, AppendIsConcat
    <3>8. (start \o t) \o <<mblk>> = start \o (t \o <<mblk>>)
      BY <3>2, <3>6, ConcatAssociative
    <3>9. c.mac = start \o t
      BY <1>10 DEF t
    <3> QED BY <3>3, <3>7, <3>8, <3>9
  <2>5. (q + 1) * BS = f + 1 /\ f + 1 < (q + 1) * BS + BS /\ (f + 1) - (q + 1) * BS = 0
    <3>1. (q + 1) * BS = q * BS + BS
      BY Sizes
    <3> QED BY <3>1, <1>11, <1>12, <1>14, Sizes
  <2>6. e.mblk = Tab(p, (q + 1) * BS, (f + 1) - (q + 1) * BS)
    BY <2>2, <2>5, TabEmpty
  <2>7. q + 1 \in Nat /\ (q + 1) * BS =< f + 1
    BY <2>5
  <2>8. e.mac = start \o Tab(Blocks(p), 0, q + 1)
    BY <2>2, <2>4
  <2>9. f + 1 < (q + 1) * BS + BS
    BY <2>5
  <2> HIDE DEF mblk, full
  <2> QED BY <1>9, <2>6, <2>7, <2>8, <2>9 DEF CcmAt
<1>15. ASSUME w + 1 # BS PROVE CcmAt(e, start, p, f + 1)
  <2>1. ~full
    BY <1>13, <1>15
  <2>2. e.mac = c.mac /\ e.mblk = mblk
    BY <2>1, <1>6
  <2>3. q * BS =< f + 1 /\ f + 1 < q * BS + BS /\ (f + 1) - q * BS = w + 1
    BY <1>10, <1>11, <1>12, <1>15, Sizes
  <2>4. e.mblk = Tab(p, q * BS, (f + 1) - q * BS)
    BY <2>2, <2>3, <1>11, <1>13
  <2>5. e.mac = start \o Tab(Blocks(p), 0, q)
    BY <2>2, <1>10
  <2> HIDE DEF mblk, full
  <2> QED BY <1>9, <2>3, <2>4, <2>5 DEF CcmAt
<1>16. CcmAt(e, start, p, f + 1)
  BY <1>14, <1>15
<1> QED BY <1>5, <1>6, <1>8, <1>16 DEF r

(* g is the loop of wolfpsa_aead_ccm_update() over n bytes. *)
IsLoop(g, c, data, n) ==
    g = [i \in 0 .. n |-> IF i = 0 THEN [c |-> c, bytes |-> <<>>]
                          ELSE CcmByte(g[i - 1], data[i])]

(* The loop has a result, byte after byte. *)
LEMMA LoopExists ==
    ASSUME NEW c, NEW data, NEW n \in Nat
    PROVE  \E g : IsLoop(g, c, data, n)
<1> DEFINE Step(g, i) == IF i = 0 THEN [c |-> c, bytes |-> <<>>] ELSE CcmByte(g[i - 1], data[i])
           S == {m \in Nat : \E g : g = [i \in 0 .. m |-> Step(g, i)]}
<1>1. 0 \in S
  <2> DEFINE g == [i \in 0 .. 0 |-> [c |-> c, bytes |-> <<>>]]
  <2>1. g = [i \in 0 .. 0 |-> Step(g, i)]
    OBVIOUS
  <2> QED BY <2>1
<1>2. ASSUME NEW m \in Nat, m \in S PROVE m + 1 \in S
  <2>1. PICK g : g = [i \in 0 .. m |-> Step(g, i)]
    BY <1>2
  <2> DEFINE h == [i \in 0 .. m + 1 |-> IF i =< m THEN g[i] ELSE CcmByte(g[m], data[m + 1])]
  <2>2. ASSUME NEW i \in 0 .. m + 1 PROVE h[i] = Step(h, i)
    <3>1. CASE i = 0
      <4>1. h[i] = g[0]
        BY <3>1
      <4>2. g[0] = Step(g, 0)
        BY <2>1
      <4> QED BY <3>1, <4>1, <4>2
    <3>2. CASE i # 0 /\ i =< m
      <4>1. h[i] = g[i] /\ h[i - 1] = g[i - 1]
        BY <3>2
      <4>2. g[i] = Step(g, i)
        BY <2>1, <3>2
      <4> QED BY <3>2, <4>1, <4>2
    <3>3. CASE ~(i =< m)
      <4>1. i = m + 1 /\ i - 1 = m
        BY <3>3
      <4>2. h[i] = CcmByte(g[m], data[i]) /\ h[i - 1] = g[m]
        BY <4>1, <3>3
      <4> HIDE DEF h
      <4> QED BY <4>1, <4>2
    <3> QED BY <3>1, <3>2, <3>3
  <2>3. h = [i \in 0 .. m + 1 |-> h[i]]
    OBVIOUS
  <2> HIDE DEF h
  <2>4. h = [i \in 0 .. m + 1 |-> Step(h, i)]
    BY <2>2, <2>3
  <2>5. m + 1 \in Nat
    OBVIOUS
  <2> QED BY <2>4, <2>5
<1>3. n \in S
  <2> HIDE DEF S
  <2>1. Nat \subseteq S
    BY <1>1, <1>2, SetInduction
  <2> QED BY <2>1
<1> QED BY <1>3 DEF IsLoop

LEMMA LoopIs ==
    ASSUME NEW c, NEW data, NEW n \in Nat, Len(data) = n
    PROVE  /\ CcmLoop(c, data)[0] = [c |-> c, bytes |-> <<>>]
           /\ \A i \in 1 .. n : CcmLoop(c, data)[i] = CcmByte(CcmLoop(c, data)[i - 1], data[i])
<1> DEFINE a == CcmLoop(c, data)
<1>1. a = CHOOSE g : IsLoop(g, c, data, n)
  BY DEF CcmLoop, IsLoop
<1> HIDE DEF a
<1>2. IsLoop(a, c, data, n)
  <2>1. \E g : IsLoop(g, c, data, n)
    BY LoopExists
  <2> QED BY <1>1, <2>1, Zenon
<1>3. a[0] = [c |-> c, bytes |-> <<>>]
  BY <1>2 DEF IsLoop
<1>4. ASSUME NEW i \in 1 .. n PROVE a[i] = CcmByte(a[i - 1], data[i])
  <2>1. i \in 0 .. n /\ i # 0
    OBVIOUS
  <2> QED BY <1>2, <2>1 DEF IsLoop
<1> QED BY <1>3, <1>4 DEF a

(* x in, y out, p the plaintext of them. *)
BytesFit(c, x, y, p) ==
    /\ x \in [Nat -> Texts \union Coded] /\ y \in [Nat -> Texts \union Coded]
    /\ p \in [Nat -> Texts]
    /\ \A j \in Nat : CryptByte(c, j, x[j]) = y[j] /\ pt_byte(c, x[j], y[j]) = p[j]

(* r is what a call that leaves the stream after k bytes gives back. *)
Ran(c, r, start, p, k, bytes) ==
    DOMAIN r.c = Fields /\ SameButStream(c, r.c) /\ CcmAt(r.c, start, p, k) /\ r.bytes = bytes

(* One call of the CCM stream: the bytes that follow, at their places. *)
LEMMA LoopRun ==
    ASSUME NEW c, DOMAIN c = Fields, NEW x, NEW y, NEW p,
           NEW start \in Seq(Absorbed), NEW f \in Nat, NEW n \in Nat, CcmAt(c, start, p, f),
           BytesFit(c, x, y, p)
    PROVE  Ran(c, wolfpsa_aead_ccm_update(c, Tab(x, f, n)), start, p, f + n, Tab(y, f, n))
<1>0. /\ x \in [Nat -> Texts \union Coded] /\ y \in [Nat -> Texts \union Coded]
      /\ p \in [Nat -> Texts]
  BY DEF BytesFit
<1> DEFINE data == Tab(x, f, n)
           a == CcmLoop(c, data)
           P(i, d) == /\ DOMAIN d = Fields /\ SameButStream(c, d) /\ CcmAt(d, start, p, f + i)
                      /\ a[i] = [c |-> d, bytes |-> Tab(y, f, i)]
           S == {i \in Nat : i =< n => \E d : P(i, d)}
<1>1. Len(data) = n
  BY <1>0, TabSeq
<1>2. a[0] = [c |-> c, bytes |-> <<>>] /\ \A i \in 1 .. n : a[i] = CcmByte(a[i - 1], data[i])
  <2> HIDE DEF data
  <2> QED BY <1>1, LoopIs
<1>3. \A i \in 1 .. n : data[i] = x[f + i]
  BY DEF Tab
<1> HIDE DEF a, data
<1>4. 0 \in S
  <2>1. Tab(y, f, 0) = <<>> /\ f + 0 = f
    BY TabEmpty
  <2>2. P(0, c)
    BY <1>2, <2>1 DEF SameButStream
  <2> QED BY <2>2
<1>5. ASSUME NEW m \in Nat, m \in S PROVE m + 1 \in S
  <2> SUFFICES ASSUME m + 1 =< n PROVE \E d : P(m + 1, d)
    <3> HIDE DEF P
    <3>1. m + 1 \in Nat
      OBVIOUS
    <3> QED BY <3>1
  <2>1. m =< n /\ m + 1 \in 1 .. n /\ (m + 1) - 1 = m
    OBVIOUS
  <2>2. PICK d : P(m, d)
    BY <1>5, <2>1
  <2> DEFINE b == Tab(y, f, m)
  <2>3. PICK k \in Nat : k = f + m
    OBVIOUS
  <2>4. DOMAIN d = Fields /\ SameButStream(c, d) /\ CcmAt(d, start, p, k) /\ a[m] = [c |-> d, bytes |-> b]
    BY <2>2, <2>3
  <2>5. a[m + 1] = CcmByte([c |-> d, bytes |-> b], x[k + 1])
    <3>1. a[m + 1] = CcmByte(a[m], data[m + 1])
      BY <1>2, <2>1
    <3>2. data[m + 1] = x[k + 1]
      <4>1. f + (m + 1) = k + 1
        BY <2>3
      <4>2. data[m + 1] = x[f + (m + 1)]
        BY <1>3, <2>1
      <4> QED BY <4>1, <4>2
    <3> QED BY <3>1, <3>2, <2>4
  <2>6. y[k + 1] = CryptByte(d, k + 1, x[k + 1]) /\ pt_byte(d, x[k + 1], y[k + 1]) = p[k + 1]
    <3>1. k + 1 \in Nat
      OBVIOUS
    <3>2. CryptByte(c, k + 1, x[k + 1]) = y[k + 1] /\ pt_byte(c, x[k + 1], y[k + 1]) = p[k + 1]
      BY <3>1 DEF BytesFit
    <3> QED BY <3>2, <2>4 DEF SameButStream, CryptByte, pt_byte
  <2> DEFINE r == CcmByte([c |-> d, bytes |-> b], x[k + 1])
  <2>7. /\ DOMAIN r.c = Fields /\ SameButStream(d, r.c)
        /\ CcmAt(r.c, start, p, k + 1) /\ r.bytes = Append(b, y[k + 1])
    <3> HIDE DEF b
    <3>1. pt_byte(d, x[k + 1], CryptByte(d, k + 1, x[k + 1])) = p[k + 1]
      BY <2>6
    <3>2. /\ DOMAIN r.c = Fields /\ SameButStream(d, r.c) /\ CcmAt(r.c, start, p, k + 1)
          /\ r.bytes = Append(b, CryptByte(d, k + 1, x[k + 1]))
      <4>1. p \in [Nat -> Texts]
        BY <1>0
      <4> QED BY <4>1, <2>4, <3>1, ByteStep
    <3> QED BY <3>2, <2>6
  <2>8. Append(b, y[k + 1]) = Tab(y, f, m + 1)
    <3>1. f + m + 1 = k + 1
      BY <2>3
    <3> QED BY <1>0, <3>1, TabAppend
  <2>9. r = [c |-> r.c, bytes |-> r.bytes]
    BY DEF CcmByte
  <2> HIDE DEF r, b
  <2>10. SameButStream(c, r.c)
    BY <2>4, <2>7 DEF SameButStream
  <2>11. k + 1 = f + (m + 1)
    BY <2>3
  <2>12. a[m + 1] = [c |-> r.c, bytes |-> Tab(y, f, m + 1)]
    BY <2>5, <2>7, <2>8, <2>9 DEF r
  <2>13. P(m + 1, r.c)
    BY <2>7, <2>10, <2>11, <2>12
  <2> QED BY <2>13
<1>6. n \in S
  <2> HIDE DEF S
  <2>1. Nat \subseteq S
    BY <1>4, <1>5, SetInduction
  <2> QED BY <2>1
<1>7. PICK d : P(n, d)
  <2> HIDE DEF P
  <2> QED BY <1>6
<1>8. wolfpsa_aead_ccm_update(c, data) = [c |-> d, bytes |-> Tab(y, f, n)]
  BY <1>1, <1>7 DEF wolfpsa_aead_ccm_update, a
<1> QED BY <1>7, <1>8 DEF data, Ran

(* Whole blocks, and the blocks of a text with a rest. *)
LEMMA DivIs ==
    ASSUME NEW a \in Nat, NEW b \in Nat \ {0}, NEW k \in Nat, k * b =< a, a < k * b + b
    PROVE  a \div b = k
<1>1. PICK d \in Nat : d = a \div b
  OBVIOUS
<1>2. PICK e \in 0 .. b - 1 : a = b * d + e
  BY <1>1
<1>3. b * d = d * b
  OBVIOUS
<1>4. ASSUME d > k PROVE FALSE
  <2>1. PICK x \in Nat : d = k + 1 + x
    BY <1>4
  <2>2. d * b = k * b + b + x * b /\ x * b \in Nat /\ k * b \in Nat
    BY <2>1
  <2> QED BY <2>2, <1>2, <1>3
<1>5. ASSUME d < k PROVE FALSE
  <2>1. PICK x \in Nat : k = d + 1 + x
    BY <1>5
  <2>2. k * b = d * b + b + x * b /\ x * b \in Nat /\ d * b \in Nat
    BY <2>1
  <2> QED BY <2>2, <1>2, <1>3
<1> QED BY <1>1, <1>4, <1>5

LEMMA BlocksOf ==
    ASSUME NEW q \in Nat, NEW f \in Nat, q * BS =< f, f < q * BS + BS
    PROVE  (f + BS - 1) \div BS = IF f = q * BS THEN q ELSE q + 1
<1>1. PICK m \in Nat : m = q * BS
  BY Sizes
<1>2. PICK a \in Nat : a = f + BS - 1
  BY Sizes
<1>3. (q + 1) * BS = m + BS
  BY <1>1, Sizes
<1>4. BS \in Nat \ {0}
  BY Sizes
<1>5. CASE f = m
  <2>1. q * BS =< a /\ a < q * BS + BS
    BY <1>1, <1>2, <1>5, Sizes
  <2>2. a \div BS = q
    BY <2>1, <1>4, DivIs
  <2> QED BY <2>2, <1>1, <1>2, <1>5
<1>6. CASE f # m
  <2>1. PICK k \in Nat : k = q + 1
    OBVIOUS
  <2>2. k * BS =< a /\ a < k * BS + BS
    BY <2>1, <1>1, <1>2, <1>3, <1>6, Sizes
  <2>3. a \div BS = k
    BY <2>2, <1>4, DivIs
  <2> QED BY <2>1, <2>3, <1>1, <1>2, <1>6
<1> QED BY <1>5, <1>6

LEMMA BlockCount ==
    ASSUME NEW n \in Nat
    PROVE  (n + BS - 1) \div BS \in Nat
<1>1. n + BS - 1 \in Nat /\ BS \in Nat \ {0}
  BY Sizes
<1> QED BY <1>1

LEMMA InBlocksSeq ==
    ASSUME NEW s \in Seq(Texts)
    PROVE  /\ InBlocks(s) \in Seq(Absorbed) /\ Len(InBlocks(s)) = (Len(s) + BS - 1) \div BS
           /\ \A i \in 1 .. Len(InBlocks(s)) : InBlocks(s)[i] = Block(s, i)
<1>0. Len(s) \in Nat
  BY LenProperties
<1>1. PICK n \in Nat : n = (Len(s) + BS - 1) \div BS
  BY <1>0, BlockCount
<1>2. ASSUME NEW i \in 1 .. n PROVE Block(s, i) \in Absorbed
  <2>1. PICK m \in Nat : m = (i - 1) * BS
    BY Sizes
  <2>2. ASSUME NEW j \in 1 .. BS PROVE (IF (i - 1) * BS + j =< Len(s) THEN s[(i - 1) * BS + j] ELSE 0) \in Texts
    <3>1. CASE m + j =< Len(s)
      <4>1. m + j \in 1 .. Len(s)
        BY <3>1, <1>0, Sizes
      <4>2. s[m + j] \in Texts
        BY <4>1, ElementOfSeq
      <4> QED BY <4>2, <3>1, <2>1
    <3>2. CASE ~(m + j =< Len(s))
      BY <3>2, <2>1 DEF Texts
    <3> QED BY <3>1, <3>2
  <2>3. Block(s, i) \in [1 .. BS -> Texts]
    BY <2>2 DEF Block
  <2> QED BY <2>3 DEF Absorbed
<1>3. InBlocks(s) = [i \in 1 .. n |-> Block(s, i)]
  BY <1>1 DEF InBlocks
<1>4. InBlocks(s) \in [1 .. n -> Absorbed]
  BY <1>2, <1>3
<1>5. InBlocks(s) \in Seq(Absorbed) /\ Len(InBlocks(s)) = n
  BY <1>4, <1>3
<1>6. \A i \in 1 .. n : InBlocks(s)[i] = Block(s, i)
  BY <1>3
<1> QED BY <1>1, <1>5, <1>6

(* wolfpsa_aead_ccm_finish(): the blocks of the stream and the padded rest are  *)
(* the blocks of the text.                                                   *)
LEMMA FinishBlocks ==
    ASSUME NEW p \in [Nat -> Texts], NEW q \in Nat, NEW f \in Nat, q * BS =< f, f < q * BS + BS
    PROVE  Tab(Blocks(p), 0, q) \o InBlocks(Tab(p, q * BS, f - q * BS)) = InBlocks(Tab(p, 0, f))
<1>m. PICK m \in Nat : m = q * BS
  BY Sizes
<1>w. PICK w \in Nat : w = f - m
  BY <1>m, Sizes
<1>z. PICK z \in Nat : z = 0
  OBVIOUS
<1> DEFINE a == Tab(Blocks(p), z, q)  r == Tab(p, m, w)  b == InBlocks(r)
           t == Tab(p, z, f)  u == InBlocks(t)
<1>1. a \in Seq(Absorbed) /\ Len(a) = q
  BY BlocksAre, TabSeq, ZenonT(30)
<1>2. r \in Seq(Texts) /\ Len(r) = w /\ t \in Seq(Texts) /\ Len(t) = f
  BY TabSeq
<1>3. (\A i \in 1 .. w : r[i] = p[m + i]) /\ \A i \in 1 .. f : t[i] = p[i]
  BY <1>z DEF Tab
<1>4. \A i \in 1 .. q : a[i] = Tab(p, (i - 1) * BS, BS)
  <2>1. ASSUME NEW i \in 1 .. q PROVE a[i] = Tab(p, (i - 1) * BS, BS)
    <3>1. z + i = i /\ i \in Nat /\ i # 0
      BY <1>z
    <3>2. a[i] = Blocks(p)[i]
      BY <3>1 DEF Tab
    <3> QED BY <3>1, <3>2 DEF Blocks
  <2> QED BY <2>1
<1> HIDE DEF a, r, t
<1>5. (f + BS - 1) \div BS = (IF w = 0 THEN q ELSE q + 1) /\ (w + BS - 1) \div BS = (IF w = 0 THEN 0 ELSE 1)
  <2>1. (f + BS - 1) \div BS = IF f = q * BS THEN q ELSE q + 1
    BY BlocksOf
  <2>2. 0 * BS = 0 /\ 0 * BS =< w /\ w < 0 * BS + BS
    BY <1>m, <1>w, Sizes
  <2>3. (w + BS - 1) \div BS = IF w = 0 * BS THEN 0 ELSE 0 + 1
    <3>1. z * BS =< w /\ w < z * BS + BS
      BY <1>z, <2>2
    <3>2. (w + BS - 1) \div BS = IF w = z * BS THEN z ELSE z + 1
      BY <3>1, BlocksOf
    <3> QED BY <3>2, <1>z
  <2>4. f = q * BS <=> w = 0
    BY <1>m, <1>w
  <2> QED BY <2>1, <2>2, <2>3, <2>4
<1>6. /\ b \in Seq(Absorbed) /\ Len(b) = (IF w = 0 THEN 0 ELSE 1)
      /\ \A i \in 1 .. Len(b) : b[i] = Block(r, i)
  BY <1>2, <1>5, InBlocksSeq
<1>7. /\ u \in Seq(Absorbed) /\ Len(u) = (IF w = 0 THEN q ELSE q + 1)
      /\ \A i \in 1 .. Len(u) : u[i] = Block(t, i)
  BY <1>2, <1>5, InBlocksSeq
<1> HIDE DEF b, u
<1>8. /\ a \o b \in Seq(Absorbed) /\ Len(a \o b) = Len(a) + Len(b)
      /\ \A i \in 1 .. Len(a) + Len(b) : (a \o b)[i] = IF i <= Len(a) THEN a[i] ELSE b[i - Len(a)]
  BY <1>1, <1>6, ConcatProperties
<1>9. Len(a \o b) = Len(u)
  BY <1>1, <1>6, <1>7, <1>8
<1>10. ASSUME NEW i \in 1 .. Len(u) PROVE (a \o b)[i] = u[i]
  <2>0. i \in 1 .. Len(a) + Len(b) /\ i \in Nat
    BY <1>8, <1>9
  <2>1. CASE i =< q
    <3>1. (a \o b)[i] = Tab(p, (i - 1) * BS, BS) /\ u[i] = Block(t, i)
      BY <2>0, <2>1, <1>1, <1>4, <1>7, <1>8
    <3>2. PICK k \in Nat : k = (i - 1) * BS
      BY <2>0, Sizes
    <3>3. k + BS =< m
      <4>1. PICK x \in Nat : q = i + x
        BY <2>0, <2>1
      <4>2. q * BS = (i - 1) * BS + BS + x * BS /\ x * BS \in Nat
        BY <4>1, Sizes, <2>0
      <4> QED BY <4>2, <3>2, <1>m, Sizes
    <3>4. ASSUME NEW j \in 1 .. BS PROVE p[k + j] = IF k + j =< Len(t) THEN t[k + j] ELSE 0
      <4>1. k + j \in 1 .. f
        BY <3>3, <1>w, Sizes
      <4> QED BY <4>1, <1>2, <1>3
    <3>5. Tab(p, k, BS) = Block(t, i)
      BY <3>2, <3>4 DEF Tab, Block
    <3> QED BY <3>1, <3>2, <3>5
  <2>2. CASE ~(i =< q)
    <3>1. i = q + 1 /\ w # 0 /\ i - q = 1 /\ i - 1 = q
      BY <2>2, <1>7
    <3>2. (a \o b)[i] = Block(r, 1) /\ u[i] = Block(t, i)
      <4>1. (a \o b)[i] = b[i - Len(a)]
        BY <2>0, <2>2, <1>1, <1>8
      <4>2. b[1] = Block(r, 1)
        BY <3>1, <1>6
      <4> QED BY <3>1, <4>1, <4>2, <1>1, <1>7
    <3>3. ASSUME NEW j \in 1 .. BS
          PROVE  (IF 0 + j =< Len(r) THEN r[0 + j] ELSE 0) = (IF m + j =< Len(t) THEN t[m + j] ELSE 0)
      <4>1. 0 + j = j /\ (j =< w <=> m + j =< f) /\ Len(r) = w /\ Len(t) = f
        BY <1>w, <1>2
      <4>2. CASE j =< w
        <5>1. j \in 1 .. w /\ m + j \in 1 .. f
          BY <4>1, <4>2
        <5> QED BY <4>1, <4>2, <5>1, <1>3
      <4>3. CASE ~(j =< w)
        BY <4>1, <4>3
      <4> QED BY <4>2, <4>3
    <3>4. Block(r, 1) = [j \in 1 .. BS |-> IF 0 + j =< Len(r) THEN r[0 + j] ELSE 0]
      <4>1. (1 - 1) * BS = 0
        BY Sizes
      <4> QED BY <4>1 DEF Block
    <3>5. Block(t, i) = [j \in 1 .. BS |-> IF m + j =< Len(t) THEN t[m + j] ELSE 0]
      <4>1. (i - 1) * BS = m
        BY <3>1, <1>m
      <4> QED BY <4>1 DEF Block
    <3> QED BY <3>2, <3>3, <3>4, <3>5
  <2> QED BY <2>1, <2>2
<1>11. a \o b = u
  BY <1>7, <1>8, <1>9, <1>10, SeqEqual
<1> QED BY <1>11, <1>m, <1>w, <1>z DEF a, b, r, t, u

LEMMA CcmFinish ==
    ASSUME NEW c, NEW p \in [Nat -> Texts], NEW start \in Seq(Absorbed), NEW f \in Nat,
           CcmAt(c, start, p, f)
    PROVE  wolfpsa_aead_ccm_finish(c) = start \o InBlocks(Tab(p, 0, f))
<1>1. PICK q \in Nat : /\ q * BS =< f /\ f < q * BS + BS
                       /\ c.mac = start \o Tab(Blocks(p), 0, q)
                       /\ c.mblk = Tab(p, q * BS, f - q * BS)
  BY DEF CcmAt
<1>2. PICK m \in Nat : m = q * BS
  BY Sizes
<1>3. PICK w \in Nat : w = f - m
  BY <1>1, <1>2, Sizes
<1>4. PICK z \in Nat : z = 0
  OBVIOUS
<1> DEFINE a == Tab(Blocks(p), z, q)  b == InBlocks(Tab(p, m, w))
<1>5. a \in Seq(Absorbed)
  BY BlocksAre, TabSeq
<1>6. b \in Seq(Absorbed)
  <2>1. Tab(p, m, w) \in Seq(Texts)
    BY TabSeq
  <2> QED BY <2>1, InBlocksSeq
<1>7. a \o b = InBlocks(Tab(p, 0, f))
  BY <1>1, <1>2, <1>3, <1>4, FinishBlocks
<1>8. c.mac = start \o a /\ InBlocks(c.mblk) = b
  BY <1>1, <1>2, <1>3, <1>4
<1> HIDE DEF a, b
<1>9. (start \o a) \o b = start \o (a \o b)
  BY <1>5, <1>6, ConcatAssociative
<1> QED BY <1>7, <1>8, <1>9 DEF wolfpsa_aead_ccm_finish

(* The byte functions of an operation belong together. *)
LEMMA Functions ==
    ASSUME NEW enc \in BOOLEAN, NEW nonce \in AnyNonce, NEW sent \in AnyNonce
    PROVE  /\ InOf(enc, sent) \in [Nat -> Texts \union Coded]
           /\ OutOf(enc, nonce, sent) \in [Nat -> Texts \union Coded]
           /\ TextOf(enc, nonce, sent) \in [Nat -> Texts]
           /\ CodeOf(enc, nonce, sent) \in [Nat -> Coded]
<1>1. /\ Plain \in [Nat -> Texts] /\ Lost \in [Nat -> Texts]
      /\ Sealed(nonce) \in [Nat -> Coded] /\ Sealed(sent) \in [Nat -> Coded]
  BY ByteFunctions
<1> QED BY <1>1 DEF InOf, OutOf, TextOf, CodeOf

LEMMA ByteByByte ==
    ASSUME NEW c, c.enc \in BOOLEAN, c.nonce \in AnyNonce, NEW sent \in AnyNonce, NEW j \in Nat
    PROVE  /\ CryptByte(c, j, InOf(c.enc, sent)[j]) = OutOf(c.enc, c.nonce, sent)[j]
           /\ pt_byte(c, InOf(c.enc, sent)[j], OutOf(c.enc, c.nonce, sent)[j])
              = TextOf(c.enc, c.nonce, sent)[j]
<1>1. CASE c.enc = TRUE
  BY <1>1 DEF CryptByte, pt_byte, InOf, OutOf, TextOf, Plain, Sealed
<1>2. CASE c.enc = FALSE
  <2>1. InOf(c.enc, sent)[j] = [k |-> <<sent, j>>, b |-> j]
    BY <1>2 DEF InOf, Sealed
  <2>2. CASE c.nonce = sent
    BY <1>2, <2>1, <2>2 DEF CryptByte, pt_byte, OutOf, TextOf, Plain
  <2>3. CASE c.nonce # sent
    <3>1. <<sent, j>> # <<c.nonce, j>>
      BY <2>3
    <3> QED BY <1>2, <2>1, <2>3, <3>1 DEF CryptByte, pt_byte, OutOf, TextOf, Lost
  <2> QED BY <2>2, <2>3
<1> QED BY <1>1, <1>2

LEMMA WholeText ==
    ASSUME NEW c, c.enc \in BOOLEAN, c.nonce \in AnyNonce, NEW sent \in AnyNonce, NEW n \in Nat
    PROVE  LET in == Tab(InOf(c.enc, sent), 0, n)
               result == Tab(OutOf(c.enc, c.nonce, sent), 0, n)
           IN  /\ CryptAll(c, in) = result
               /\ Covered(c, in, result) = Tab(CoveredOf(c, sent), 0, n)
<1> DEFINE in == Tab(InOf(c.enc, sent), 0, n)
           result == Tab(OutOf(c.enc, c.nonce, sent), 0, n)
<1>1. Len(in) = n
  <2>1. InOf(c.enc, sent) \in [Nat -> Texts \union Coded] /\ 0 \in Nat
    BY Functions
  <2> QED BY <2>1, TabSeq, ZenonT(30)
<1>2. ASSUME NEW i \in 1 .. n PROVE CryptByte(c, i, in[i]) = OutOf(c.enc, c.nonce, sent)[0 + i]
  <2>1. in[i] = InOf(c.enc, sent)[i] /\ 0 + i = i /\ i \in Nat
    BY DEF Tab
  <2> QED BY <2>1, ByteByByte
<1>3. CryptAll(c, in) = result
  <2> HIDE DEF in
  <2> QED BY <1>1, <1>2 DEF CryptAll, Tab
<1>4. CASE c.enc = TRUE
  BY <1>3, <1>4 DEF Covered, CoveredOf, CodeOf, TextOf, InOf, OutOf
<1>5. CASE c.enc = FALSE
  BY <1>3, <1>5 DEF Covered, CoveredOf, CodeOf, TextOf, InOf, OutOf
<1> QED BY <1>4, <1>5

(* The MAC starts with what it is told of nonce, lengths and additional data. *)
LEMMA StartSeq ==
    ASSUME NEW c, c.nonce \in AnyNonce, c.tag_length \in TagLens, NEW g \in Nat, NEW n \in Nat
    PROVE  /\ MacStart(c, Message(g), n) \in Seq(Absorbed)
           /\ c.alg # "CCM" => MacStart(c, Message(g), n) = <<<<c.nonce, Message(g)>>>>
           /\ c.alg = "CCM" =>
                MacStart(c, Message(g), n) =
                  <<[nonce |-> c.nonce, len |-> n, tag |-> c.tag_length, adata |-> g # 0]>>
                  \o (IF g = 0 THEN <<>> ELSE InBlocks(<<g>> \o Message(g)))
<1>1. Message(g) \in Seq(Nat) /\ Len(Message(g)) = g /\ (Message(g) = <<>> <=> g = 0)
  BY MessageTab
<1>2. CASE c.alg # "CCM"
  <2>1. MacStart(c, Message(g), n) = <<<<c.nonce, Message(g)>>>>
    BY <1>2 DEF MacStart
  <2>2. <<c.nonce, Message(g)>> \in Absorbed
    BY <1>1 DEF Absorbed
  <2> QED BY <1>2, <2>1, <2>2
<1>3. CASE c.alg = "CCM"
  <2> DEFINE h == [nonce |-> c.nonce, len |-> n, tag |-> c.tag_length, adata |-> g # 0]
             t == IF g = 0 THEN <<>> ELSE InBlocks(<<g>> \o Message(g))
  <2>1. MacStart(c, Message(g), n) = <<h>> \o t
    BY <1>1, <1>3 DEF MacStart
  <2>2. <<h>> \in Seq(Absorbed)
    <3>1. (g # 0) \in BOOLEAN
      OBVIOUS
    <3>2. h \in Absorbed
      BY <3>1 DEF Absorbed
    <3> QED BY <3>2
  <2>3. t \in Seq(Absorbed)
    <3>1. <<g>> \in Seq(Nat)
      OBVIOUS
    <3>2. <<g>> \o Message(g) \in Seq(Nat)
      BY <1>1, <3>1, ConcatProperties
    <3>3. <<g>> \o Message(g) \in Seq(Texts)
      BY <3>2, SeqMonotonic DEF Texts
    <3>4. InBlocks(<<g>> \o Message(g)) \in Seq(Absorbed)
      BY <3>3, InBlocksSeq
    <3> QED BY <3>4
  <2> HIDE DEF h, t
  <2>4. <<h>> \o t \in Seq(Absorbed)
    BY <2>2, <2>3, ConcatProperties
  <2> QED BY <2>1, <2>4, <1>3 DEF h, t
<1> QED BY <1>2, <1>3

LEMMA TagFields ==
    ASSUME NEW alg, NEW nonce, NEW len, NEW g, NEW text
    PROVE  /\ Tagged(alg, nonce, len, g, text).len = len
           /\ Tagged(alg, nonce, len, g, text).mac =
                MacStart([alg |-> alg, nonce |-> nonce, tag_length |-> len], Message(g), Len(text))
                \o (IF alg = "CCM" THEN InBlocks(text) ELSE text)
           /\ Tagged(alg, nonce, len, g, text) =
                [len |-> len, mac |-> Tagged(alg, nonce, len, g, text).mac]
BY DEF Tagged, TagOf

LEMMA TagOfIs ==
    ASSUME NEW c, NEW g, NEW text
    PROVE  TagOf(c, Message(g), text) = Tagged(c.alg, c.nonce, c.tag_length, g, text)
BY DEF Tagged, TagOf, MacStart

(* The MAC of a text: its first elements, and its length outside CCM. *)
MacIs(mac, alg, nonce, len, g, text) ==
    /\ mac \in Seq(Absorbed) /\ mac # <<>>
    /\ alg # "CCM" => Len(mac) = Len(text) + 1 /\ mac[1] = <<nonce, Message(g)>>
    /\ alg = "CCM" =>
         /\ mac[1] = [nonce |-> nonce, len |-> Len(text), tag |-> len, adata |-> g # 0]
         /\ g # 0 => mac[2] = Block(<<g>> \o Message(g), 1)

LEMMA MacShape ==
    ASSUME NEW alg, NEW nonce \in AnyNonce, NEW len \in TagLens, NEW g \in Nat, NEW text,
           text \in Seq(IF alg = "CCM" THEN Texts ELSE Coded)
    PROVE  MacIs(Tagged(alg, nonce, len, g, text).mac, alg, nonce, len, g, text)
<1> DEFINE c == [alg |-> alg, nonce |-> nonce, tag_length |-> len]
           s == MacStart(c, Message(g), Len(text))
           t == IF alg = "CCM" THEN InBlocks(text) ELSE text
           mac == s \o t
<1>1. Tagged(alg, nonce, len, g, text).mac = mac
  BY DEF Tagged, TagOf
<1>2. Len(text) \in Nat
  BY LenProperties
<1>3. t \in Seq(Absorbed) /\ (alg # "CCM" => Len(t) = Len(text))
  <2>1. CASE alg = "CCM"
    <3>1. text \in Seq(Texts)
      BY <2>1
    <3>2. InBlocks(text) \in Seq(Absorbed)
      BY <3>1, InBlocksSeq
    <3> QED BY <2>1, <3>2
  <2>2. CASE alg # "CCM"
    <3>1. text \in Seq(Coded)
      BY <2>2
    <3>2. Coded \subseteq Absorbed
      BY DEF Absorbed
    <3>3. text \in Seq(Absorbed)
      BY <3>1, <3>2, SeqMonotonic
    <3> QED BY <3>3, <2>2
  <2> QED BY <2>1, <2>2
<1>4. /\ s \in Seq(Absorbed)
      /\ alg # "CCM" => s = <<<<nonce, Message(g)>>>>
      /\ alg = "CCM" =>
           s = <<[nonce |-> nonce, len |-> Len(text), tag |-> len, adata |-> g # 0]>>
               \o (IF g = 0 THEN <<>> ELSE InBlocks(<<g>> \o Message(g)))
  <2>1. c.nonce = nonce /\ c.tag_length = len /\ c.alg = alg
    OBVIOUS
  <2> HIDE DEF c
  <2> QED BY <2>1, <1>2, StartSeq
<1> HIDE DEF c, s, t
<1>5. /\ mac \in Seq(Absorbed) /\ Len(mac) = Len(s) + Len(t)
      /\ \A i \in 1 .. Len(s) + Len(t) : mac[i] = IF i <= Len(s) THEN s[i] ELSE t[i - Len(s)]
  BY <1>3, <1>4, ConcatProperties
<1>6. Len(s) \in Nat /\ Len(t) \in Nat
  BY <1>3, <1>4, LenProperties
<1>7. ASSUME NEW i \in Nat, i # 0, i =< Len(s) PROVE mac[i] = s[i]
  BY <1>5, <1>6, <1>7
<1>8. CASE alg # "CCM"
  <2>1. Len(s) = 1 /\ s[1] = <<nonce, Message(g)>>
    BY <1>4, <1>8
  <2>2. mac[1] = s[1]
    BY <1>5, <1>6, <2>1
  <2>3. Len(mac) = Len(text) + 1 /\ mac # <<>>
    BY <2>1, <1>2, <1>3, <1>5, <1>8
  <2> HIDE DEF mac
  <2> QED BY <1>1, <1>5, <1>8, <2>1, <2>2, <2>3 DEF MacIs
<1>9. CASE alg = "CCM"
  <2> DEFINE h == [nonce |-> nonce, len |-> Len(text), tag |-> len, adata |-> g # 0]
             b == IF g = 0 THEN <<>> ELSE InBlocks(<<g>> \o Message(g))
  <2>0. s = <<h>> \o b
    BY <1>4, <1>9
  <2>1. h \in Absorbed
    <3>1. (g # 0) \in BOOLEAN
      OBVIOUS
    <3> QED BY <3>1, <1>2 DEF Absorbed
  <2>2. <<g>> \o Message(g) \in Seq(Texts) /\ Len(<<g>> \o Message(g)) = g + 1
    <3>1. <<g>> \in Seq(Nat) /\ Len(<<g>>) = 1 /\ Message(g) \in Seq(Nat) /\ Len(Message(g)) = g
      BY MessageTab
    <3>2. <<g>> \o Message(g) \in Seq(Nat) /\ Len(<<g>> \o Message(g)) = g + 1
      BY <3>1, ConcatProperties
    <3> QED BY <3>2, SeqMonotonic DEF Texts
  <2>3. b \in Seq(Absorbed) /\ (g # 0 => Len(b) >= 1 /\ b[1] = Block(<<g>> \o Message(g), 1))
    <3> DEFINE u == <<g>> \o Message(g)
    <3>1. /\ InBlocks(u) \in Seq(Absorbed) /\ Len(InBlocks(u)) = (g + 1 + BS - 1) \div BS
          /\ \A i \in 1 .. Len(InBlocks(u)) : InBlocks(u)[i] = Block(u, i)
      <4> HIDE DEF u
      <4>1. u \in Seq(Texts) /\ Len(u) = g + 1
        BY <2>2 DEF u
      <4> QED BY <4>1, InBlocksSeq
    <3>2. (g + 1 + BS - 1) \div BS \in Nat \ {0}
      <4>1. PICK k \in Nat : k = (g + 1 + BS - 1) \div BS
        <5>1. g + 1 \in Nat
          OBVIOUS
        <5> QED BY <5>1, BlockCount
      <4>2. ASSUME k = 0 PROVE FALSE
        <5>1. PICK a \in Nat : a = g + 1 + BS - 1
          BY Sizes
        <5>2. a >= BS
          BY <5>1, Sizes
        <5>3. a = BS * (a \div BS) + (a % BS) /\ a % BS \in 0 .. BS - 1
          BY Sizes
        <5>4. a \div BS = 0 /\ BS * 0 = 0
          BY <4>1, <4>2, <5>1, Sizes
        <5> QED BY <5>2, <5>3, <5>4, Sizes
      <4> QED BY <4>1, <4>2
    <3> HIDE DEF u
    <3>3. InBlocks(u)[1] = Block(u, 1)
      BY <3>1, <3>2
    <3>4. CASE g = 0
      BY <3>4
    <3>5. CASE g # 0
      <4>1. b = InBlocks(u)
        BY <3>5 DEF u
      <4> QED BY <4>1, <3>1, <3>2, <3>3 DEF u
    <3> QED BY <3>4, <3>5
  <2> HIDE DEF h, b
  <2>4. /\ <<h>> \in Seq(Absorbed) /\ Len(<<h>>) = 1 /\ <<h>>[1] = h
    BY <2>1
  <2>5. /\ Len(s) = 1 + Len(b)
        /\ \A i \in 1 .. 1 + Len(b) : s[i] = IF i <= 1 THEN <<h>>[i] ELSE b[i - 1]
    BY <2>0, <2>3, <2>4, ConcatProperties
  <2>6. Len(b) \in Nat
    BY <2>3, LenProperties
  <2>7. s[1] = h /\ mac[1] = s[1] /\ mac # <<>>
    <3>1. s[1] = h
      BY <2>4, <2>5, <2>6
    <3>2. mac[1] = s[1]
      BY <1>7, <2>5, <2>6
    <3>3. mac # <<>>
      BY <1>5, <1>6, <2>5, <2>6
    <3> QED BY <3>1, <3>2, <3>3
  <2>8. ASSUME g # 0 PROVE mac[2] = Block(<<g>> \o Message(g), 1)
    <3>1. s[2] = b[1]
      BY <2>3, <2>5, <2>6, <2>8
    <3>2. mac[2] = s[2]
      BY <1>7, <2>3, <2>5, <2>6, <2>8
    <3> QED BY <3>1, <3>2, <2>3, <2>8
  <2>9. mac[1] = [nonce |-> nonce, len |-> Len(text), tag |-> len, adata |-> g # 0]
    BY <2>7 DEF h
  <2> HIDE DEF mac
  <2> QED BY <1>1, <1>5, <1>9, <2>7, <2>8, <2>9 DEF MacIs
<1> QED BY <1>8, <1>9

(* Equal tags: equal nonce, additional data and length. *)
LEMMA TagTells ==
    ASSUME NEW alg, NEW n1 \in AnyNonce, NEW n2 \in AnyNonce, NEW len \in TagLens,
           NEW g1 \in Nat, NEW g2 \in Nat, NEW t1, NEW t2,
           t1 \in Seq(IF alg = "CCM" THEN Texts ELSE Coded),
           t2 \in Seq(IF alg = "CCM" THEN Texts ELSE Coded),
           Tagged(alg, n1, len, g1, t1).mac = Tagged(alg, n2, len, g2, t2).mac
    PROVE  n1 = n2 /\ g1 = g2 /\ Len(t1) = Len(t2)
<1> DEFINE m1 == Tagged(alg, n1, len, g1, t1).mac  m2 == Tagged(alg, n2, len, g2, t2).mac
<1>1. MacIs(m1, alg, n1, len, g1, t1)
  BY MacShape
<1>2. MacIs(m2, alg, n2, len, g2, t2)
  BY MacShape
<1>3. m1 = m2
  OBVIOUS
<1> HIDE DEF m1, m2
<1>4. Len(t1) \in Nat /\ Len(t2) \in Nat
  BY LenProperties
<1>5. CASE alg # "CCM"
  <2>1. <<n1, Message(g1)>> = <<n2, Message(g2)>> /\ Len(t1) + 1 = Len(t2) + 1
    BY <1>1, <1>2, <1>3, <1>5 DEF MacIs
  <2>2. n1 = n2 /\ Message(g1) = Message(g2)
    BY <2>1
  <2>3. Len(Message(g1)) = g1 /\ Len(Message(g2)) = g2
    BY MessageTab
  <2> QED BY <2>1, <2>2, <2>3, <1>4
<1>6. CASE alg = "CCM"
  <2> DEFINE b1 == g1 # 0  b2 == g2 # 0
  <2>1. [nonce |-> n1, len |-> Len(t1), tag |-> len, adata |-> b1]
        = [nonce |-> n2, len |-> Len(t2), tag |-> len, adata |-> b2]
    BY <1>1, <1>2, <1>3, <1>6 DEF MacIs
  <2>2. n1 = n2 /\ Len(t1) = Len(t2)
    <3> HIDE DEF b1, b2
    <3> QED BY <2>1
  <2>3. b1 = b2
    <3> HIDE DEF b1, b2
    <3> QED BY <2>1
  <2>4. g1 # 0 <=> g2 # 0
    BY <2>3
  <2>5. ASSUME NEW g \in Nat PROVE Block(<<g>> \o Message(g), 1)[1] = g
    <3>1. <<g>> \in Seq(Nat) /\ Len(<<g>>) = 1 /\ Message(g) \in Seq(Nat) /\ Len(Message(g)) = g
      BY MessageTab
    <3> DEFINE u == <<g>> \o Message(g)
    <3>2. Len(u) = 1 + g /\ u[1] = <<g>>[1]
      BY <3>1, ConcatProperties
    <3> HIDE DEF u
    <3>3. (1 - 1) * BS + 1 = 1 /\ 1 \in 1 .. BS
      BY Sizes
    <3>4. Block(u, 1)[1] = IF (1 - 1) * BS + 1 =< Len(u) THEN u[(1 - 1) * BS + 1] ELSE 0
      BY <3>3 DEF Block
    <3> QED BY <3>2, <3>3, <3>4 DEF u
  <2>6. CASE g1 # 0
    <3>1. Block(<<g1>> \o Message(g1), 1) = Block(<<g2>> \o Message(g2), 1)
      BY <1>1, <1>2, <1>3, <1>6, <2>4, <2>6 DEF MacIs
    <3> QED BY <2>2, <2>5, <3>1
  <2>7. CASE g1 = 0
    BY <2>2, <2>4, <2>7
  <2> QED BY <2>6, <2>7
<1> QED BY <1>5, <1>6

-----------------------------------------------------------------------------
(* Contexts: an operation that has been given g bytes of additional data and f  *)
(* of input, and has released o; what it decrypts was encrypted with sent.    *)

Buffered(c, sent, f, o) ==
    /\ o = <<>> /\ c.input = Tab(InOf(c.enc, sent), 0, f)
    /\ c.mblk = <<>> /\ c.ks_off = 0

(* The state of the stream. *)
StreamAt(c, sent, g, f) ==
    IF c.alg = "CCM"
    THEN CcmAt(c, MacStart(c, Message(g), c.plaintext_expected),
               TextOf(c.enc, c.nonce, sent), f)
    ELSE /\ c.mac = MacStart(c, Message(g), 0) \o Tab(CodeOf(c.enc, c.nonce, sent), 0, f)
         /\ c.mblk = <<>> /\ c.ks_off = 0

Streamed(c, sent, g, f, o) ==
    /\ c.input = <<>> /\ o = Tab(OutOf(c.enc, c.nonce, sent), 0, f)
    /\ c.body_started = TRUE /\ c.nonce \in Nonces
    /\ c.alg = "CCM" => c.lengths_set = TRUE
    /\ StreamAt(c, sent, g, f)

Typed(c) ==
    /\ DOMAIN c = Fields
    /\ c.alg \in Algs /\ c.alg \in StreamAlgs /\ c.enc \in BOOLEAN
    /\ c.tag_length \in TagLens /\ c.nonce \in AnyNonce
    /\ c.lengths_set \in BOOLEAN /\ c.body_started \in BOOLEAN /\ c.ad_started \in BOOLEAN
    /\ c.streaming \in BOOLEAN /\ c.ad_expected \in Nat /\ c.plaintext_expected \in Nat

FitsCcm(c) ==
    c.alg = "CCM" /\ c.lengths_set = TRUE /\ c.nonce # NoNonce
    => c.plaintext_expected =< CcmLimit[c.nonce]

CtxOK(c, sent, g, f, o) ==
    /\ Typed(c) /\ FitsCcm(c)
    /\ g \in Nat /\ f \in Nat /\ g =< Word32
    /\ c.aad = Message(g) /\ c.input_length = f
    /\ IF c.streaming = TRUE THEN Streamed(c, sent, g, f, o) ELSE Buffered(c, sent, f, o)

Kept(c, d) == d.alg = c.alg /\ d.enc = c.enc /\ d.tag_length = c.tag_length

(* A call that fails writes nothing, and leaves the operation alone or ends it. *)
Failing(r, c) == r.st # "SUCCESS" /\ r.bytes = <<>> /\ r.c \in {NoCtx, c}

LEMMA Results ==
    ASSUME NEW c, NEW st
    PROVE  /\ st # "SUCCESS" => Failing(Refused(st, c), c) /\ Failing(Aborted(st), c)
           /\ Done(c).st = "SUCCESS" /\ Done(c).c = c /\ Done(c).bytes = <<>>
BY DEF Failing, Refused, Aborted, Done, Result

LEMMA NewCtxOK ==
    ASSUME NEW alg \in Algs, alg \in StreamAlgs, NEW tag \in TagLens, NEW enc \in BOOLEAN,
           NEW sent
    PROVE  LET c == NewCtx(alg, tag, enc)
           IN  /\ CtxOK(c, sent, 0, 0, <<>>) /\ c.alg = alg /\ c.enc = enc
               /\ c.tag_length = tag /\ c.nonce = NoNonce /\ c.streaming = FALSE
<1> DEFINE c == NewCtx(alg, tag, enc)
<1>1. /\ c.alg = alg /\ c.enc = enc /\ c.tag_length = tag /\ c.nonce = NoNonce
      /\ c.streaming = FALSE /\ c.aad = <<>> /\ c.input = <<>> /\ c.input_length = 0
      /\ c.lengths_set = FALSE /\ c.ad_expected = 0 /\ c.plaintext_expected = 0
      /\ c.ad_started = FALSE /\ c.body_started = FALSE /\ c.mblk = <<>> /\ c.ks_off = 0
  BY DEF NewCtx
<1>2. DOMAIN c = Fields
  BY DEF NewCtx, Fields
<1> HIDE DEF c
<1>3. Message(0) = <<>> /\ Tab(InOf(c.enc, sent), 0, 0) = <<>>
  BY MessageTab, TabEmpty
<1>4. Typed(c)
  <2>1. c.lengths_set \in BOOLEAN /\ c.body_started \in BOOLEAN /\ c.ad_started \in BOOLEAN
    BY <1>1
  <2>2. c.streaming \in BOOLEAN /\ c.enc \in BOOLEAN
    BY <1>1
  <2>3. c.alg \in Algs /\ c.alg \in StreamAlgs /\ c.tag_length \in TagLens /\ c.nonce \in AnyNonce
    BY <1>1 DEF AnyNonce
  <2>4. c.ad_expected \in Nat /\ c.plaintext_expected \in Nat
    BY <1>1
  <2> QED BY <1>2, <2>1, <2>2, <2>3, <2>4 DEF Typed
<1>5. FitsCcm(c)
  BY <1>1 DEF FitsCcm
<1>6. Buffered(c, sent, 0, <<>>)
  BY <1>1, <1>3 DEF Buffered
<1>7. 0 =< Word32
  BY SizesAssumption
<1>8. CtxOK(c, sent, 0, 0, <<>>)
  BY <1>1, <1>3, <1>4, <1>5, <1>6, <1>7 DEF CtxOK
<1> QED BY <1>1, <1>8 DEF c

LEMMA SetupOK ==
    ASSUME NEW key, NEW alg \in Algs, NEW tag \in TagLens, NEW enc \in BOOLEAN, NEW sent,
           NEW r \in wolfpsa_aead_setup(NoCtx, key, alg, tag, enc)
    PROVE  \/ Failing(r, NoCtx)
           \/ /\ r = Done(NewCtx(alg, tag, enc)) /\ alg \in StreamAlgs
              /\ CtxOK(r.c, sent, 0, 0, <<>>)
<1>1. CASE alg \in OneShotAlgs
  <2>1. r = Refused("NOT_SUPPORTED", NoCtx)
    BY <1>1 DEF wolfpsa_aead_setup
  <2> QED BY <2>1, Results
<1>2. CASE alg \notin OneShotAlgs
  <2>0. alg \in StreamAlgs
    BY <1>2, AlgsAssumption
  <2> DEFINE V == {"INSUFFICIENT_MEMORY"} \union
                   wolfpsa_aead_check_key(key, IF enc THEN "ENCRYPT" ELSE "DECRYPT", alg, tag)
  <2>1. PICK v \in V : r = IF v # "SUCCESS" THEN Refused(v, NoCtx)
          ELSE IF alg = "CHACHA20_POLY1305" /\ tag # FullTag
               THEN Refused("NOT_SUPPORTED", NoCtx)
          ELSE Done(NewCtx(alg, tag, enc))
    BY <1>2 DEF wolfpsa_aead_setup
  <2> HIDE DEF V
  <2>2. \/ \E st : st # "SUCCESS" /\ r = Refused(st, NoCtx)
        \/ r = Done(NewCtx(alg, tag, enc))
    BY <2>1
  <2>3. CASE \E st : st # "SUCCESS" /\ r = Refused(st, NoCtx)
    BY <2>3, Results
  <2>4. CASE r = Done(NewCtx(alg, tag, enc))
    <3>1. r.c = NewCtx(alg, tag, enc)
      BY <2>4, Results
    <3>2. CtxOK(NewCtx(alg, tag, enc), sent, 0, 0, <<>>)
      BY <2>0, NewCtxOK
    <3> QED BY <2>0, <2>4, <3>1, <3>2
  <2> QED BY <2>2, <2>3, <2>4
<1> QED BY <1>1, <1>2

LEMMA SetLengthsOK ==
    ASSUME NEW c, NEW sent, NEW g, NEW f, NEW o, CtxOK(c, sent, g, f, o),
           NEW ad \in Nat, NEW n \in Nat, NEW r \in psa_aead_set_lengths(c, ad, n)
    PROVE  \/ Failing(r, c)
           \/ /\ r.st = "SUCCESS" /\ r.bytes = <<>> /\ CtxOK(r.c, sent, g, f, o) /\ Kept(c, r.c)
              /\ r.c.nonce = c.nonce /\ r.c.streaming = c.streaming
<1> DEFINE d == [c EXCEPT !.ad_expected = ad, !.plaintext_expected = n, !.lengths_set = TRUE]
           v == wolfpsa_aead_check_lengths(c.alg, c.nonce, ad, n)
           begun == c.lengths_set \/ c.ad_started \/ c.body_started
<1>1. CASE begun
  <2>1. r = Aborted("BAD_STATE")
    BY <1>1 DEF psa_aead_set_lengths
  <2> QED BY <2>1, Results
<1>2. CASE ~begun /\ v # "SUCCESS"
  <2>1. r = Aborted(v)
    BY <1>2 DEF psa_aead_set_lengths
  <2> HIDE DEF v
  <2> QED BY <1>2, <2>1, Results
<1>3. CASE ~begun /\ v = "SUCCESS"
  <2>1. r = Done(d)
    BY <1>3 DEF psa_aead_set_lengths
  <2>2. Typed(c) /\ c.streaming \in BOOLEAN /\ c.body_started = FALSE
    BY <1>3 DEF CtxOK, Typed
  <2>3. c.streaming = FALSE /\ Buffered(c, sent, f, o)
    BY <2>2 DEF CtxOK, Streamed
  <2>4. /\ DOMAIN d = Fields /\ d.alg = c.alg /\ d.enc = c.enc /\ d.tag_length = c.tag_length
        /\ d.nonce = c.nonce /\ d.aad = c.aad /\ d.input = c.input
        /\ d.input_length = c.input_length /\ d.lengths_set = TRUE /\ d.ad_expected = ad
        /\ d.plaintext_expected = n /\ d.ad_started = c.ad_started
        /\ d.body_started = c.body_started /\ d.streaming = c.streaming
        /\ d.mblk = c.mblk /\ d.ks_off = c.ks_off
    BY <2>2 DEF Typed, Fields
  <2>5. c.alg = "CCM" /\ c.nonce # NoNonce => n =< CcmLimit[c.nonce]
    <3>1. ASSUME c.alg = "CCM", c.nonce # NoNonce PROVE ~(n > CcmLimit[c.nonce])
      BY <1>3, <3>1 DEF wolfpsa_aead_check_lengths
    <3>2. ASSUME c.nonce # NoNonce PROVE CcmLimit[c.nonce] \in Nat
      BY <3>2, <2>2, SizesAssumption DEF Typed, AnyNonce
    <3> QED BY <3>1, <3>2
  <2> HIDE DEF d
  <2>6. Typed(d)
    BY <2>2, <2>4 DEF Typed
  <2>7. FitsCcm(d)
    BY <2>4, <2>5 DEF FitsCcm
  <2>8. Buffered(d, sent, f, o)
    BY <2>3, <2>4 DEF Buffered
  <2>9. CtxOK(d, sent, g, f, o)
    BY <2>3, <2>4, <2>6, <2>7, <2>8 DEF CtxOK
  <2> QED BY <2>1, <2>4, <2>9, Results DEF Kept
<1> QED BY <1>1, <1>2, <1>3

LEMMA SetNonceOK ==
    ASSUME NEW c, NEW sent, NEW g, NEW f, NEW o, CtxOK(c, sent, g, f, o),
           NEW nonce \in Nonces, NEW lenOk, NEW r \in psa_aead_set_nonce(c, nonce, lenOk)
    PROVE  \/ Failing(r, c)
           \/ /\ r.st = "SUCCESS" /\ r.bytes = <<>> /\ CtxOK(r.c, sent, g, f, o) /\ Kept(c, r.c)
              /\ r.c.nonce = nonce /\ r.c.streaming = c.streaming
<1> DEFINE d == [c EXCEPT !.nonce = nonce]
           v == NonceFits(c, nonce)
<1>1. CASE c.nonce # NoNonce \/ ~lenOk
  <2>1. r = Refused("BAD_STATE", c) \/ r = Refused("INVALID_ARGUMENT", c)
    BY <1>1 DEF psa_aead_set_nonce
  <2> QED BY <2>1, Results
<1>2. CASE ~(c.nonce # NoNonce \/ ~lenOk) /\ v # "SUCCESS"
  <2>1. r = Refused(v, c)
    BY <1>2 DEF psa_aead_set_nonce
  <2> HIDE DEF v
  <2> QED BY <1>2, <2>1, Results
<1>3. CASE ~(c.nonce # NoNonce \/ ~lenOk) /\ v = "SUCCESS"
  <2>1. r = Done(d)
    BY <1>3 DEF psa_aead_set_nonce
  <2>2. Typed(c) /\ c.streaming \in BOOLEAN /\ c.lengths_set \in BOOLEAN /\ c.nonce = NoNonce
    BY <1>3 DEF CtxOK, Typed
  <2>3. c.streaming = FALSE /\ Buffered(c, sent, f, o)
    BY <2>2, MarkersAssumption DEF CtxOK, Streamed
  <2>4. /\ DOMAIN d = Fields /\ d.alg = c.alg /\ d.enc = c.enc /\ d.tag_length = c.tag_length
        /\ d.nonce = nonce /\ d.aad = c.aad /\ d.input = c.input
        /\ d.input_length = c.input_length /\ d.lengths_set = c.lengths_set
        /\ d.ad_expected = c.ad_expected
        /\ d.plaintext_expected = c.plaintext_expected /\ d.ad_started = c.ad_started
        /\ d.body_started = c.body_started /\ d.streaming = c.streaming
        /\ d.mblk = c.mblk /\ d.ks_off = c.ks_off
    BY <2>2 DEF Typed, Fields
  <2>5. c.alg = "CCM" /\ c.lengths_set = TRUE => c.plaintext_expected =< CcmLimit[nonce]
    <3> SUFFICES ASSUME c.alg = "CCM", c.lengths_set = TRUE
                 PROVE  c.plaintext_expected =< CcmLimit[nonce]
      OBVIOUS
    <3>1. ~(c.plaintext_expected > CcmLimit[nonce])
      <4>1. wolfpsa_aead_check_lengths(c.alg, nonce, c.ad_expected, c.plaintext_expected) = "SUCCESS"
        BY <1>3 DEF NonceFits
      <4>2. nonce # NoNonce
        BY MarkersAssumption
      <4> QED BY <4>1, <4>2 DEF wolfpsa_aead_check_lengths
    <3>2. CcmLimit[nonce] \in Nat /\ c.plaintext_expected \in Nat
      BY <2>2, SizesAssumption DEF Typed
    <3> QED BY <3>1, <3>2
  <2> HIDE DEF d
  <2>6. Typed(d)
    BY <2>2, <2>4 DEF Typed, AnyNonce
  <2>7. FitsCcm(d)
    BY <2>4, <2>5 DEF FitsCcm
  <2>8. Buffered(d, sent, f, o)
    BY <2>3, <2>4 DEF Buffered
  <2>9. CtxOK(d, sent, g, f, o)
    BY <2>3, <2>4, <2>6, <2>7, <2>8 DEF CtxOK
  <2> QED BY <2>1, <2>4, <2>9, Results DEF Kept
<1> QED BY <1>1, <1>2, <1>3

LEMMA MessageGrows ==
    ASSUME NEW g \in Nat, NEW n \in Nat
    PROVE  /\ Message(g) \o Bytes(g, n) = Message(g + n) /\ Len(Bytes(g, n)) = n
           /\ Bytes(g, n) = <<>> <=> n = 0
<1>1. PICK z \in Nat : z = 0
  OBVIOUS
<1>2. PICK k \in Nat : k = g + n
  OBVIOUS
<1>3. Plain \in [Nat -> Nat]
  BY ByteFunctions
<1>4. Message(g) = Tab(Plain, z, g) /\ Message(k) = Tab(Plain, z, k) /\ Bytes(g, n) = Tab(Plain, g, n)
  BY <1>1, MessageTab, BytesTab
<1>5. Tab(Plain, z, g) \o Tab(Plain, g, n) = Tab(Plain, z, g + n)
  <2>1. Tab(Plain, z, g) \o Tab(Plain, z + g, n) = Tab(Plain, z, g + n)
    BY <1>3, TabJoin, Zenon
  <2>2. z + g = g
    BY <1>1
  <2> QED BY <2>1, <2>2
<1>6. Tab(Plain, g, n) \in Seq(Nat) /\ Len(Tab(Plain, g, n)) = n
  BY <1>3, TabSeq, ZenonT(30)
<1>7. Bytes(g, n) = <<>> <=> n = 0
  BY <1>4, <1>6, EmptySeq
<1> QED BY <1>2, <1>4, <1>5, <1>6, <1>7

LEMMA UpdateAdOK ==
    ASSUME NEW c, NEW sent, NEW g \in Nat, NEW f, NEW o, CtxOK(c, sent, g, f, o),
           NEW n \in Nat, NEW r \in psa_aead_update_ad(c, Bytes(g, n))
    PROVE  \/ Failing(r, c)
           \/ /\ r.st = "SUCCESS" /\ r.bytes = <<>> /\ CtxOK(r.c, sent, g + n, f, o)
              /\ Kept(c, r.c) /\ r.c.nonce = c.nonce /\ r.c.streaming = c.streaming
<1> DEFINE data == Bytes(g, n)
           d0 == [c EXCEPT !.ad_started = TRUE]
           d1 == [c EXCEPT !.aad = @ \o data, !.ad_started = TRUE]
           d == IF n = 0 THEN d0 ELSE d1
           total == Len(c.aad) + Len(data)
           over == \/ c.lengths_set /\ total > c.ad_expected
                   \/ total > Word32
           early == c.nonce = NoNonce \/ wolfpsa_aead_lengths_missing(c)
<1>0. /\ Message(g) \o data = Message(g + n) /\ Len(data) = n /\ (data = <<>> <=> n = 0)
      /\ Len(Message(g)) = g
  BY MessageGrows, MessageTab
<1>1. c.aad = Message(g) /\ Typed(c) /\ c.body_started \in BOOLEAN /\ g =< Word32
  BY DEF CtxOK, Typed
<1> HIDE DEF data
<1>2. \/ \E st : st # "SUCCESS" /\ (r = Aborted(st) \/ r = Refused(st, c))
      \/ /\ c.body_started = FALSE /\ r = Done(d)
         /\ n # 0 => ~(total > Word32)
  <2>0. r \in UpdateAd(c, data, FALSE)
    BY DEF psa_aead_update_ad, data
  <2>1. CASE c.body_started = TRUE
    <3>1. r = Aborted("BAD_STATE")
      BY <2>0, <2>1 DEF UpdateAd
    <3> QED BY <3>1
  <2>2. CASE c.body_started = FALSE /\ early
    <3>1. r = Refused("BAD_STATE", c)
      BY <2>0, <2>2 DEF UpdateAd
    <3> QED BY <3>1
  <2>3. CASE c.body_started = FALSE /\ ~early /\ n = 0
    <3>1. r = Done(d0)
      BY <2>0, <2>3, <1>0 DEF UpdateAd
    <3> QED BY <2>3, <3>1
  <2>4. CASE c.body_started = FALSE /\ ~early /\ n # 0 /\ over
    <3>1. r = Aborted("INVALID_ARGUMENT")
      BY <2>0, <2>4, <1>0 DEF UpdateAd
    <3> QED BY <3>1
  <2>5. CASE c.body_started = FALSE /\ ~early /\ n # 0 /\ ~over
    <3>1. r \in {Done(d1), Aborted("INSUFFICIENT_MEMORY")}
      BY <2>0, <2>5, <1>0 DEF UpdateAd, wolfpsa_aead_append
    <3> QED BY <2>5, <3>1
  <2> HIDE DEF d, over, early, total
  <2> QED BY <1>1, <2>1, <2>2, <2>3, <2>4, <2>5
<1>3. CASE \E st : st # "SUCCESS" /\ (r = Aborted(st) \/ r = Refused(st, c))
  BY <1>3, Results
<1>4. CASE /\ c.body_started = FALSE /\ r = Done(d)
           /\ n # 0 => ~(total > Word32)
  <2>1. c.streaming = FALSE /\ Buffered(c, sent, f, o)
    BY <1>4 DEF CtxOK, Streamed, Typed
  <2>2. /\ DOMAIN d0 = Fields /\ d0.alg = c.alg /\ d0.enc = c.enc /\ d0.tag_length = c.tag_length
        /\ d0.nonce = c.nonce /\ d0.aad = c.aad /\ d0.input = c.input
        /\ d0.input_length = c.input_length /\ d0.lengths_set = c.lengths_set
        /\ d0.ad_expected = c.ad_expected /\ d0.plaintext_expected = c.plaintext_expected
        /\ d0.ad_started = TRUE /\ d0.body_started = c.body_started
        /\ d0.streaming = c.streaming /\ d0.mblk = c.mblk /\ d0.ks_off = c.ks_off
    BY <1>1 DEF Typed, Fields
  <2>3. /\ DOMAIN d1 = Fields /\ d1.alg = c.alg /\ d1.enc = c.enc /\ d1.tag_length = c.tag_length
        /\ d1.nonce = c.nonce /\ d1.aad = c.aad \o data /\ d1.input = c.input
        /\ d1.input_length = c.input_length /\ d1.lengths_set = c.lengths_set
        /\ d1.ad_expected = c.ad_expected /\ d1.plaintext_expected = c.plaintext_expected
        /\ d1.ad_started = TRUE /\ d1.body_started = c.body_started
        /\ d1.streaming = c.streaming /\ d1.mblk = c.mblk /\ d1.ks_off = c.ks_off
    BY <1>1 DEF Typed, Fields
  <2> HIDE DEF d0, d1
  <2>4. /\ DOMAIN d = Fields /\ d.alg = c.alg /\ d.enc = c.enc /\ d.tag_length = c.tag_length
        /\ d.nonce = c.nonce /\ d.input = c.input
        /\ d.input_length = c.input_length /\ d.lengths_set = c.lengths_set
        /\ d.ad_expected = c.ad_expected /\ d.plaintext_expected = c.plaintext_expected
        /\ d.ad_started = TRUE /\ d.body_started = c.body_started
        /\ d.streaming = c.streaming /\ d.mblk = c.mblk /\ d.ks_off = c.ks_off
    BY <2>2, <2>3
  <2>5. d.aad = Message(g + n)
    <3>1. CASE n = 0
      BY <3>1, <2>2, <1>1
    <3>2. CASE n # 0
      BY <3>2, <2>3, <1>0, <1>1
    <3> QED BY <3>1, <3>2
  <2>6. g + n \in Nat /\ g + n =< Word32
    <3>1. Word32 \in Nat
      BY SizesAssumption
    <3>2. total = g + n
      BY <1>0, <1>1
    <3> QED BY <3>1, <3>2, <1>1, <1>4
  <2> HIDE DEF d, total
  <2>7. Typed(d)
    <3>1. d.ad_started \in BOOLEAN
      BY <2>4
    <3> QED BY <1>1, <2>4, <3>1 DEF Typed
  <2>8. FitsCcm(d)
    BY <2>4 DEF FitsCcm, CtxOK
  <2>9. Buffered(d, sent, f, o)
    BY <2>1, <2>4 DEF Buffered
  <2>10. CtxOK(d, sent, g + n, f, o)
    BY <2>1, <2>4, <2>5, <2>6, <2>7, <2>8, <2>9 DEF CtxOK
  <2> QED BY <1>4, <2>4, <2>10, Results DEF Kept
<1> QED BY <1>2, <1>3, <1>4

(* The ways out of psa_aead_update(). *)
UpdateGives(r, c, data, n, null, room) ==
    LET begun == [c EXCEPT !.body_started = TRUE]
        s == wolfpsa_aead_stream_update(begun, data)
        ready == c.nonce # NoNonce /\ ~wolfpsa_aead_lengths_missing(c)
    IN  \/ Failing(r, c)
        \/ ready /\ n = 0 /\ r = Done(begun)
        \/ /\ ready /\ n # 0 /\ null = TRUE /\ c.streaming = FALSE
           /\ r = Done([begun EXCEPT !.input = @ \o data, !.input_length = @ + n])
        \/ /\ ready /\ n # 0 /\ null = FALSE /\ c.input = <<>> /\ room >= n
           /\ r = Result("SUCCESS", [s.c EXCEPT !.streaming = TRUE, !.input_length = @ + n],
                         s.bytes, NoTag)

LEMMA UpdateCases ==
    ASSUME NEW c, Typed(c), NEW data, NEW n \in Nat, Len(data) = n, NEW null \in BOOLEAN,
           NEW room,
           NEW r \in psa_aead_update(c, data, null, room)
    PROVE  UpdateGives(r, c, data, n, null, room)
<1> DEFINE begun == [c EXCEPT !.body_started = TRUE]
           s == wolfpsa_aead_stream_update(begun, data)
           buf == [begun EXCEPT !.input = @ \o data, !.input_length = @ + n]
           str == Result("SUCCESS", [s.c EXCEPT !.streaming = TRUE, !.input_length = @ + n],
                         s.bytes, NoTag)
           early == wolfpsa_aead_lengths_missing(c) \/ c.nonce = NoNonce
           over == c.lengths_set /\ (\/ Len(c.aad) # c.ad_expected
                                     \/ c.input_length + n > c.plaintext_expected)
           mixed == Mixed(c, null)
<1>1. r \in (IF early THEN {Refused("BAD_STATE", c)}
             ELSE IF over THEN {Aborted("INVALID_ARGUMENT")}
             ELSE IF n = 0 THEN {Done(begun)}
             ELSE IF mixed THEN {Aborted("BAD_STATE")}
             ELSE IF null THEN {Done(buf), Aborted("INSUFFICIENT_MEMORY")}
             ELSE IF ~UpdateFits(room, n) THEN {Aborted("BUFFER_TOO_SMALL")}
             ELSE IF n > Word32 THEN {Aborted("INVALID_ARGUMENT")}
             ELSE {str, Aborted("GENERIC_ERROR")})
  BY DEF psa_aead_update
<1>2. mixed <=> IF null = TRUE THEN c.streaming = TRUE ELSE c.input # <<>>
  BY DEF Mixed, Typed
<1>3. UpdateFits(room, n) <=> room >= n
  BY DEF UpdateFits
<1>4. c.streaming \in BOOLEAN
  BY DEF Typed
<1> HIDE DEF begun, s, buf, str, over, mixed, early
<1>5. \/ \E st : st # "SUCCESS" /\ (r = Aborted(st) \/ r = Refused(st, c))
      \/ ~early /\ n = 0 /\ r = Done(begun)
      \/ ~early /\ n # 0 /\ null = TRUE /\ ~mixed /\ r = Done(buf)
      \/ ~early /\ n # 0 /\ null = FALSE /\ ~mixed /\ room >= n /\ r = str
  BY <1>1, <1>3
<1>6. CASE \E st : st # "SUCCESS" /\ (r = Aborted(st) \/ r = Refused(st, c))
  BY <1>6, Results DEF UpdateGives
<1>7. CASE ~early /\ n = 0 /\ r = Done(begun)
  BY <1>7 DEF early, begun, UpdateGives
<1>8. CASE ~early /\ n # 0 /\ null = TRUE /\ ~mixed /\ r = Done(buf)
  BY <1>8, <1>2, <1>4 DEF early, buf, begun, UpdateGives
<1>9. CASE ~early /\ n # 0 /\ null = FALSE /\ ~mixed /\ room >= n /\ r = str
  BY <1>9, <1>2, <1>4 DEF early, str, s, begun, UpdateGives
<1> QED BY <1>5, <1>6, <1>7, <1>8, <1>9

LEMMA StartSame ==
    ASSUME NEW c, NEW d, NEW a, NEW n,
           d.alg = c.alg, d.nonce = c.nonce, d.tag_length = c.tag_length
    PROVE  MacStart(d, a, n) = MacStart(c, a, n)
BY DEF MacStart

LEMMA CcmAtStart ==
    ASSUME NEW c, NEW start \in Seq(Absorbed), NEW p \in [Nat -> Texts],
           c.mac = start, c.mblk = <<>>, c.ctr = 1, c.ks_off = 0
    PROVE  CcmAt(c, start, p, 0)
<1>1. start \o <<>> = start
  BY ConcatEmptySeq
<1>2. Tab(Blocks(p), 0, 0) = <<>> /\ Tab(p, 0 * BS, 0) = <<>>
  BY TabEmpty
<1>3. 0 * BS = 0 /\ 0 - 0 * BS = 0 /\ 0 < 0 * BS + BS /\ 0 \in 0 .. BS /\ (1 - 1) * BS + 0 = 0
  BY Sizes
<1>4. c.mac = start \o Tab(Blocks(p), 0, 0) /\ c.mblk = Tab(p, 0 * BS, 0 - 0 * BS)
  BY <1>1, <1>2, <1>3
<1>5. 1 \in Nat \ {0} /\ 0 \in Nat /\ 0 * BS =< 0
  BY <1>3
<1> QED BY <1>3, <1>4, <1>5 DEF CcmAt

LEMMA TextTyped ==
    ASSUME NEW c, Typed(c), NEW sent \in AnyNonce
    PROVE  /\ TextOf(c.enc, c.nonce, sent) \in [Nat -> Texts]
           /\ CodeOf(c.enc, c.nonce, sent) \in [Nat -> Coded]
           /\ CodeOf(c.enc, c.nonce, sent) \in [Nat -> Absorbed]
           /\ InOf(c.enc, sent) \in [Nat -> Texts \union Coded]
           /\ OutOf(c.enc, c.nonce, sent) \in [Nat -> Texts \union Coded]
<1>1. c.enc \in BOOLEAN /\ c.nonce \in AnyNonce
  BY DEF Typed
<1>2. /\ TextOf(c.enc, c.nonce, sent) \in [Nat -> Texts]
      /\ CodeOf(c.enc, c.nonce, sent) \in [Nat -> Coded]
      /\ InOf(c.enc, sent) \in [Nat -> Texts \union Coded]
      /\ OutOf(c.enc, c.nonce, sent) \in [Nat -> Texts \union Coded]
  BY <1>1, Functions
<1>3. Coded \subseteq Absorbed
  BY DEF Absorbed
<1>4. CodeOf(c.enc, c.nonce, sent) \in [Nat -> Absorbed]
  BY <1>2, <1>3
<1> QED BY <1>2, <1>4

(* The stream as the first call leaves it, before any byte. *)
LEMMA StreamInitOK ==
    ASSUME NEW c, Typed(c), NEW g \in Nat, c.aad = Message(g), NEW sent \in AnyNonce,
           c.mblk = <<>>, c.ks_off = 0
    PROVE  LET d == IF c.alg = "CCM" THEN wolfpsa_aead_ccm_init(c) ELSE StreamInit(c)
           IN  DOMAIN d = Fields /\ SameButStream(c, d) /\ StreamAt(d, sent, g, 0)
<1> DEFINE e == IF c.alg = "CCM" THEN c.plaintext_expected ELSE 0
           start == MacStart(c, Message(g), e)
           p == TextOf(c.enc, c.nonce, sent)
<1>0. DOMAIN c = Fields /\ c.nonce \in AnyNonce /\ c.tag_length \in TagLens /\ e \in Nat
  BY DEF Typed
<1> HIDE DEF e
<1>1. start \in Seq(Absorbed)
  BY <1>0, StartSeq
<1>2. p \in [Nat -> Texts]
  BY TextTyped
<1> HIDE DEF start, p
<1>3. CASE c.alg = "CCM"
  <2> DEFINE d == wolfpsa_aead_ccm_init(c)
  <2>1. d = [c EXCEPT !.mac = start, !.mblk = <<>>, !.ctr = 1, !.ks_off = 0]
    BY <1>3 DEF wolfpsa_aead_ccm_init, FedAad, start, e
  <2>2. DOMAIN d = Fields /\ d.mac = start /\ d.mblk = <<>> /\ d.ctr = 1 /\ d.ks_off = 0
    BY <1>0, <2>1 DEF Fields
  <2>3. SameButStream(c, d)
    BY <1>0, <2>1 DEF Fields, SameButStream
  <2> HIDE DEF d
  <2>4. CcmAt(d, start, p, 0)
    BY <1>1, <1>2, <2>2, CcmAtStart
  <2>5. start = MacStart(d, Message(g), d.plaintext_expected) /\ p = TextOf(d.enc, d.nonce, sent)
    BY <2>3, <1>3, StartSame DEF SameButStream, start, e, p
  <2>6. d.alg = "CCM"
    BY <1>3, <2>3 DEF SameButStream
  <2> QED BY <1>3, <2>2, <2>3, <2>4, <2>5, <2>6 DEF StreamAt, d
<1>4. CASE c.alg # "CCM"
  <2> DEFINE d == StreamInit(c)
  <2>1. d = [c EXCEPT !.mac = start]
    BY <1>4 DEF StreamInit, FedAad, start, e
  <2>2. DOMAIN d = Fields /\ d.mac = start /\ d.mblk = <<>> /\ d.ks_off = 0
    BY <1>0, <2>1 DEF Fields
  <2>3. SameButStream(c, d)
    BY <1>0, <2>1 DEF Fields, SameButStream
  <2> HIDE DEF d
  <2>4. start = MacStart(d, Message(g), 0)
    BY <2>3, <1>4, StartSame DEF SameButStream, start, e
  <2>5. start \o Tab(CodeOf(d.enc, d.nonce, sent), 0, 0) = start
    BY <1>1, TabEmpty, ConcatEmptySeq
  <2>6. d.alg # "CCM"
    BY <1>4, <2>3 DEF SameButStream
  <2> QED BY <1>4, <2>2, <2>3, <2>4, <2>5, <2>6 DEF StreamAt, d
<1> QED BY <1>3, <1>4

(* The next n bytes through a stream. *)
LEMMA StreamRun ==
    ASSUME NEW c, Typed(c), NEW sent \in AnyNonce, NEW g \in Nat, NEW f \in Nat, NEW n \in Nat,
           StreamAt(c, sent, g, f)
    PROVE  LET data == Tab(InOf(c.enc, sent), f, n)
               s == IF c.alg = "CCM" THEN wolfpsa_aead_ccm_update(c, data) ELSE StreamData(c, data)
           IN  /\ DOMAIN s.c = Fields /\ SameButStream(c, s.c) /\ StreamAt(s.c, sent, g, f + n)
               /\ s.bytes = Tab(OutOf(c.enc, c.nonce, sent), f, n)
<1> DEFINE x == InOf(c.enc, sent)
           y == OutOf(c.enc, c.nonce, sent)
           p == TextOf(c.enc, c.nonce, sent)
           w == CodeOf(c.enc, c.nonce, sent)
           data == Tab(x, f, n)
<1>0. /\ DOMAIN c = Fields /\ c.nonce \in AnyNonce /\ c.tag_length \in TagLens
      /\ c.plaintext_expected \in Nat /\ c.enc \in BOOLEAN
  BY DEF Typed
<1>1. /\ x \in [Nat -> Texts \union Coded] /\ y \in [Nat -> Texts \union Coded]
      /\ p \in [Nat -> Texts] /\ w \in [Nat -> Absorbed]
  BY TextTyped
<1>2. \A j \in Nat : CryptByte(c, j, x[j]) = y[j] /\ pt_byte(c, x[j], y[j]) = p[j]
  BY <1>0, ByteByByte
<1>3. CASE c.alg = "CCM"
  <2> DEFINE start == MacStart(c, Message(g), c.plaintext_expected)
             s == wolfpsa_aead_ccm_update(c, data)
  <2>1. start \in Seq(Absorbed)
    BY <1>0, StartSeq
  <2>2. CcmAt(c, start, p, f)
    BY <1>3 DEF StreamAt
  <2>3. /\ DOMAIN s.c = Fields /\ SameButStream(c, s.c)
        /\ CcmAt(s.c, start, p, f + n) /\ s.bytes = Tab(y, f, n)
    <3>1. BytesFit(c, x, y, p)
      BY <1>1, <1>2 DEF BytesFit
    <3>2. DOMAIN c = Fields
      BY <1>0
    <3> HIDE DEF start, x, y, p
    <3>3. CcmAt(c, start, p, f) /\ start \in Seq(Absorbed)
      BY <2>1, <2>2
    <3>4. Ran(c, s, start, p, f + n, Tab(y, f, n))
      BY <3>1, <3>2, <3>3, LoopRun
    <3> QED BY <3>4 DEF Ran
  <2> HIDE DEF s
  <2>4. start = MacStart(s.c, Message(g), s.c.plaintext_expected)
        /\ p = TextOf(s.c.enc, s.c.nonce, sent) /\ s.c.alg = "CCM"
    BY <2>3, <1>3, StartSame DEF SameButStream
  <2>5. StreamAt(s.c, sent, g, f + n)
    BY <2>3, <2>4 DEF StreamAt
  <2> QED BY <1>3, <2>3, <2>5 DEF s
<1>4. CASE c.alg # "CCM"
  <2> DEFINE start == MacStart(c, Message(g), 0)
             bytes == [i \in 1 .. Len(data) |-> CryptByte(c, Len(c.mac) - 1 + i, data[i])]
             s == StreamData(c, data)
             d == [c EXCEPT !.mac = @ \o Covered(c, data, bytes)]
  <2>1. s = [c |-> d, bytes |-> bytes]
    BY DEF StreamData
  <2>2. start \in Seq(Absorbed) /\ Len(start) = 1
    <3>1. start \in Seq(Absorbed) /\ start = <<<<c.nonce, Message(g)>>>>
      BY <1>0, <1>4, StartSeq
    <3> QED BY <3>1
  <2>3. c.mac = start \o Tab(w, 0, f) /\ c.mblk = <<>> /\ c.ks_off = 0
    BY <1>4 DEF StreamAt
  <2>4. PICK z \in Nat : z = 0
    OBVIOUS
  <2>5. Tab(w, z, f) \in Seq(Absorbed) /\ Len(Tab(w, z, f)) = f
    <3> HIDE DEF w
    <3> QED BY <1>1, TabSeq, ZenonT(30)
  <2>6. Len(c.mac) = 1 + f
    <3> HIDE DEF start, w
    <3>1. Len(start \o Tab(w, z, f)) = Len(start) + Len(Tab(w, z, f))
      BY <2>2, <2>5, ConcatProperties
    <3> QED BY <3>1, <2>2, <2>3, <2>4, <2>5
  <2>7. Len(data) = n /\ \A i \in 1 .. n : data[i] = x[f + i]
    <3> HIDE DEF x
    <3>1. Len(data) = n
      BY <1>1, TabSeq, ZenonT(30)
    <3>2. \A i \in 1 .. n : data[i] = x[f + i]
      BY DEF Tab
    <3> QED BY <3>1, <3>2
  <2>8. bytes = Tab(y, f, n)
    <3> HIDE DEF data, x, y
    <3>1. ASSUME NEW i \in 1 .. n PROVE CryptByte(c, Len(c.mac) - 1 + i, data[i]) = y[f + i]
      <4>1. Len(c.mac) - 1 + i = f + i /\ f + i \in Nat
        BY <2>6
      <4> QED BY <4>1, <2>7, <1>2
    <3> QED BY <3>1, <2>7 DEF Tab
  <2>9. Covered(c, data, bytes) = Tab(w, f, n)
    <3>1. CASE c.enc = TRUE
      BY <3>1, <1>4, <2>8 DEF Covered, OutOf, CodeOf
    <3>2. CASE c.enc = FALSE
      BY <3>2, <1>4 DEF Covered, InOf, CodeOf
    <3> QED BY <1>0, <3>1, <3>2
  <2>10. DOMAIN d = Fields /\ d.mac = c.mac \o Tab(w, f, n) /\ d.mblk = c.mblk /\ d.ks_off = c.ks_off
    <3> HIDE DEF bytes, data, w
    <3> QED BY <1>0, <2>9 DEF Fields
  <2>11. SameButStream(c, d)
    <3> HIDE DEF bytes, data
    <3> QED BY <1>0 DEF Fields, SameButStream
  <2>12. d.mac = start \o Tab(w, 0, f + n)
    <3> HIDE DEF start, w, d
    <3>1. Tab(w, z, f) \o Tab(w, f, n) = Tab(w, z, f + n)
      <4>1. Tab(w, z, f) \o Tab(w, z + f, n) = Tab(w, z, f + n)
        BY <1>1, TabJoin, Zenon
      <4>2. z + f = f
        BY <2>4
      <4> QED BY <4>1, <4>2
    <3>2. Tab(w, f, n) \in Seq(Absorbed)
      BY <1>1, TabSeq
    <3>3. (start \o Tab(w, z, f)) \o Tab(w, f, n) = start \o (Tab(w, z, f) \o Tab(w, f, n))
      <4> DEFINE a == Tab(w, z, f)  b == Tab(w, f, n)
      <4>1. a \in Seq(Absorbed) /\ b \in Seq(Absorbed) /\ start \in Seq(Absorbed)
        BY <2>2, <2>5, <3>2
      <4> HIDE DEF a, b
      <4>2. (start \o a) \o b = start \o (a \o b)
        BY <4>1, ConcatAssociative, SMTT(30)
      <4> QED BY <4>2 DEF a, b
    <3> QED BY <2>3, <2>4, <2>10, <3>1, <3>3
  <2> HIDE DEF d, bytes, data
  <2>13. start = MacStart(d, Message(g), 0) /\ w = CodeOf(d.enc, d.nonce, sent) /\ d.alg # "CCM"
    BY <1>4, <2>11, StartSame DEF SameButStream
  <2>14. StreamAt(d, sent, g, f + n)
    <3> HIDE DEF start, w
    <3> QED BY <2>3, <2>10, <2>12, <2>13 DEF StreamAt
  <2>15. s.c = d /\ s.bytes = bytes
    BY <2>1
  <2> HIDE DEF s
  <2> QED BY <1>4, <2>8, <2>10, <2>11, <2>14, <2>15 DEF s, data
<1> QED BY <1>3, <1>4

LEMMA StreamAtSame ==
    ASSUME NEW c, NEW d, NEW sent, NEW g, NEW f, StreamAt(c, sent, g, f),
           d.alg = c.alg, d.enc = c.enc, d.nonce = c.nonce, d.tag_length = c.tag_length,
           d.plaintext_expected = c.plaintext_expected,
           d.mac = c.mac, d.mblk = c.mblk, d.ctr = c.ctr, d.ks_off = c.ks_off
    PROVE  StreamAt(d, sent, g, f)
<1>1. \A n : MacStart(d, Message(g), n) = MacStart(c, Message(g), n)
  BY StartSame
<1> DEFINE start == MacStart(c, Message(g), c.plaintext_expected)
           p == TextOf(c.enc, c.nonce, sent)
<1>2. CASE c.alg = "CCM"
  <2>1. CcmAt(c, start, p, f)
    BY <1>2 DEF StreamAt
  <2>2. start = MacStart(d, Message(g), d.plaintext_expected) /\ p = TextOf(d.enc, d.nonce, sent)
    BY <1>1
  <2> HIDE DEF start, p
  <2>3. CcmAt(d, start, p, f)
    BY <2>1 DEF CcmAt
  <2> QED BY <1>2, <2>2, <2>3 DEF StreamAt
<1>3. CASE c.alg # "CCM"
  BY <1>1, <1>3 DEF StreamAt
<1> QED BY <1>2, <1>3

LEMMA TabGrows ==
    ASSUME NEW S, NEW p \in [Nat -> S], NEW f \in Nat, NEW n \in Nat
    PROVE  Tab(p, 0, f) \o Tab(p, f, n) = Tab(p, 0, f + n)
<1>1. PICK z \in Nat : z = 0
  OBVIOUS
<1>2. Tab(p, z, f) \o Tab(p, z + f, n) = Tab(p, z, f + n)
  BY TabJoin, Zenon
<1>3. z + f = f
  BY <1>1
<1> QED BY <1>1, <1>2, <1>3

(* What a call of psa_aead_update() that succeeds leaves and releases. *)
Advanced(r, c, sent, g, f, o, null, room) ==
    /\ r.st = "SUCCESS" /\ CtxOK(r.c, sent, g, f, o \o r.bytes) /\ Kept(c, r.c)
    /\ r.c.nonce = c.nonce /\ Len(r.bytes) =< room
    /\ null = TRUE => r.bytes = <<>> /\ r.c.streaming = c.streaming

LEMMA OutSeq ==
    ASSUME NEW c, NEW sent \in AnyNonce, NEW g \in Nat, NEW f \in Nat, NEW o,
           CtxOK(c, sent, g, f, o)
    PROVE  /\ o \in Seq(Texts \union Coded) /\ o \o <<>> = o
           /\ Len(o) = IF c.streaming = TRUE THEN f ELSE 0
<1>1. PICK z \in Nat : z = 0
  OBVIOUS
<1>2. Typed(c)
  BY DEF CtxOK
<1> DEFINE t == Tab(OutOf(c.enc, c.nonce, sent), z, f)
<1>3. t \in Seq(Texts \union Coded) /\ Len(t) = f
  <2>1. OutOf(c.enc, c.nonce, sent) \in [Nat -> Texts \union Coded]
    BY <1>2, TextTyped
  <2> QED BY <2>1, TabSeq
<1>4. CASE c.streaming = TRUE
  <2>1. o = t
    BY <1>1, <1>4 DEF CtxOK, Streamed
  <2> HIDE DEF t
  <2> QED BY <1>3, <1>4, <2>1, ConcatEmptySeq
<1>5. CASE c.streaming # TRUE
  <2>1. o = <<>>
    BY <1>5 DEF CtxOK, Buffered
  <2> HIDE DEF t
  <2>2. <<>> \in Seq(Texts \union Coded)
    OBVIOUS
  <2> QED BY <1>5, <2>1, <2>2, ConcatEmptySeq
<1> QED BY <1>4, <1>5

LEMMA BegunOK ==
    ASSUME NEW c, NEW sent \in AnyNonce, NEW g \in Nat, NEW f \in Nat, NEW o,
           CtxOK(c, sent, g, f, o)
    PROVE  LET d == [c EXCEPT !.body_started = TRUE]
           IN  /\ CtxOK(d, sent, g, f, o) /\ d.body_started = TRUE
               /\ d.alg = c.alg /\ d.enc = c.enc /\ d.tag_length = c.tag_length /\ d.nonce = c.nonce
               /\ d.streaming = c.streaming /\ d.input = c.input /\ d.lengths_set = c.lengths_set
<1> DEFINE d == [c EXCEPT !.body_started = TRUE]
<1>1. Typed(c) /\ FitsCcm(c)
  BY DEF CtxOK
<1>2. /\ DOMAIN d = Fields /\ d.alg = c.alg /\ d.enc = c.enc /\ d.tag_length = c.tag_length
      /\ d.nonce = c.nonce /\ d.aad = c.aad /\ d.input = c.input
      /\ d.input_length = c.input_length /\ d.lengths_set = c.lengths_set
      /\ d.ad_expected = c.ad_expected /\ d.plaintext_expected = c.plaintext_expected
      /\ d.ad_started = c.ad_started /\ d.body_started = TRUE
      /\ d.streaming = c.streaming /\ d.mac = c.mac /\ d.mblk = c.mblk /\ d.ctr = c.ctr
      /\ d.ks_off = c.ks_off
  BY <1>1 DEF Typed, Fields
<1> HIDE DEF d
<1>3. Typed(d)
  <2>1. d.body_started \in BOOLEAN
    BY <1>2
  <2> QED BY <1>1, <1>2, <2>1 DEF Typed
<1>4. FitsCcm(d)
  BY <1>1, <1>2 DEF FitsCcm
<1>5. CASE c.streaming = TRUE
  <2>1. Streamed(c, sent, g, f, o)
    BY <1>5 DEF CtxOK
  <2>2. StreamAt(d, sent, g, f)
    BY <2>1, <1>2, StreamAtSame DEF Streamed
  <2>3. Streamed(d, sent, g, f, o)
    BY <2>1, <2>2, <1>2 DEF Streamed
  <2> QED BY <1>2, <1>3, <1>4, <1>5, <2>3 DEF CtxOK, d
<1>6. CASE c.streaming # TRUE
  <2>1. Buffered(d, sent, f, o)
    BY <1>2, <1>6 DEF CtxOK, Buffered
  <2> QED BY <1>2, <1>3, <1>4, <1>6, <2>1 DEF CtxOK, d
<1> QED BY <1>5, <1>6

LEMMA UpdateOK ==
    ASSUME NEW c, NEW sent \in AnyNonce, NEW g \in Nat, NEW f \in Nat, NEW o,
           CtxOK(c, sent, g, f, o), NEW n \in Nat, NEW null \in BOOLEAN, NEW room \in Nat,
           NEW r \in psa_aead_update(c, Tab(InOf(c.enc, sent), f, n), null, room)
    PROVE  Failing(r, c) \/ Advanced(r, c, sent, g, f + n, o, null, room)
<1> DEFINE x == InOf(c.enc, sent)
           y == OutOf(c.enc, c.nonce, sent)
           data == Tab(x, f, n)
           b == [c EXCEPT !.body_started = TRUE]
           s == wolfpsa_aead_stream_update(b, data)
           buf == [b EXCEPT !.input = @ \o data, !.input_length = @ + n]
           str == [s.c EXCEPT !.streaming = TRUE, !.input_length = @ + n]
           ready == c.nonce # NoNonce /\ ~wolfpsa_aead_lengths_missing(c)
<1>1. Typed(c) /\ c.input_length = f /\ c.aad = Message(g) /\ c.streaming \in BOOLEAN
  BY DEF CtxOK, Typed
<1>2. x \in [Nat -> Texts \union Coded] /\ y \in [Nat -> Texts \union Coded]
  BY <1>1, TextTyped
<1>3. Len(data) = n
  <2>1. x \in [Nat -> Texts \union Coded]
    BY <1>2
  <2> HIDE DEF x
  <2> QED BY <2>1, TabSeq, ZenonT(30)
<1>4. /\ CtxOK(b, sent, g, f, o) /\ b.body_started = TRUE
      /\ b.alg = c.alg /\ b.enc = c.enc /\ b.tag_length = c.tag_length /\ b.nonce = c.nonce
      /\ b.streaming = c.streaming /\ b.input = c.input /\ b.lengths_set = c.lengths_set
  BY BegunOK
<1>5. o \in Seq(Texts \union Coded) /\ o \o <<>> = o
  BY OutSeq
<1>6. \/ Failing(r, c)
      \/ ready /\ n = 0 /\ r = Done(b)
      \/ ready /\ n # 0 /\ null = TRUE /\ c.streaming = FALSE /\ r = Done(buf)
      \/ /\ ready /\ n # 0 /\ null = FALSE /\ c.input = <<>> /\ room >= n
         /\ r = Result("SUCCESS", str, s.bytes, NoTag)
  <2>1. UpdateGives(r, c, data, n, null, room)
    <3>1. r \in psa_aead_update(c, data, null, room)
      OBVIOUS
    <3> HIDE DEF data
    <3> QED BY <3>1, <1>1, <1>3, UpdateCases
  <2> QED BY <2>1 DEF UpdateGives
<1> HIDE DEF b
<1>7. CASE n = 0 /\ r = Done(b)
  <2>1. r.st = "SUCCESS" /\ r.c = b /\ r.bytes = <<>> /\ f + n = f
    BY <1>7, Results
  <2>2. Len(<<>>) = 0 /\ 0 =< room
    OBVIOUS
  <2> QED BY <2>1, <2>2, <1>4, <1>5 DEF Advanced, Kept
<1>8. CASE null = TRUE /\ c.streaming = FALSE /\ r = Done(buf)
  <2>1. Typed(b) /\ FitsCcm(b) /\ b.aad = Message(g) /\ g =< Word32 /\ b.input_length = f
    BY <1>4 DEF CtxOK
  <2>2. Buffered(b, sent, f, o)
    BY <1>4, <1>8 DEF CtxOK
  <2> HIDE DEF data
  <2>3. /\ DOMAIN buf = Fields /\ buf.alg = b.alg /\ buf.enc = b.enc
        /\ buf.tag_length = b.tag_length /\ buf.nonce = b.nonce /\ buf.aad = b.aad
        /\ buf.input = b.input \o data /\ buf.input_length = b.input_length + n
        /\ buf.lengths_set = b.lengths_set /\ buf.ad_expected = b.ad_expected
        /\ buf.plaintext_expected = b.plaintext_expected /\ buf.ad_started = b.ad_started
        /\ buf.body_started = b.body_started /\ buf.streaming = b.streaming
        /\ buf.mblk = b.mblk /\ buf.ks_off = b.ks_off
    BY <2>1 DEF Typed, Fields
  <2> HIDE DEF buf
  <2>4. buf.input = Tab(InOf(buf.enc, sent), 0, f + n)
    <3>1. x = InOf(b.enc, sent) /\ x = InOf(buf.enc, sent) /\ x \in [Nat -> Texts \union Coded]
      BY <1>2, <1>4, <2>3
    <3> HIDE DEF x
    <3>2. Tab(x, 0, f) \o Tab(x, f, n) = Tab(x, 0, f + n)
      BY <3>1, TabGrows
    <3>3. b.input = Tab(x, 0, f)
      BY <2>2, <3>1 DEF Buffered
    <3> QED BY <2>3, <3>1, <3>2, <3>3 DEF data
  <2>5. Typed(buf)
    BY <2>1, <2>3 DEF Typed
  <2>6. FitsCcm(buf)
    BY <2>1, <2>3 DEF FitsCcm
  <2>7. Buffered(buf, sent, f + n, o)
    BY <2>2, <2>3, <2>4 DEF Buffered
  <2>8. f + n \in Nat /\ buf.input_length = f + n /\ buf.aad = Message(g) /\ buf.streaming = FALSE
    BY <2>1, <2>3, <1>4, <1>8
  <2>9. CtxOK(buf, sent, g, f + n, o)
    BY <2>1, <2>5, <2>6, <2>7, <2>8 DEF CtxOK
  <2>10. r.st = "SUCCESS" /\ r.c = buf /\ r.bytes = <<>>
    BY <1>8, Results
  <2>11. Len(<<>>) = 0 /\ 0 =< room
    OBVIOUS
  <2> QED BY <2>3, <2>8, <2>9, <2>10, <2>11, <1>4, <1>5, <1>8 DEF Advanced, Kept
<1>9. CASE /\ ready /\ n # 0 /\ null = FALSE /\ c.input = <<>> /\ room >= n
           /\ r = Result("SUCCESS", str, s.bytes, NoTag)
  <2> DEFINE c1 == IF b.streaming THEN b
                   ELSE IF b.alg = "CCM" THEN wolfpsa_aead_ccm_init(b) ELSE StreamInit(b)
  <2>1. Typed(b) /\ FitsCcm(b) /\ b.aad = Message(g) /\ g =< Word32 /\ b.input_length = f
    BY <1>4 DEF CtxOK
  <2>2. DOMAIN c1 = Fields /\ SameButStream(b, c1) /\ StreamAt(c1, sent, g, f) /\ o = Tab(y, 0, f)
    <3>1. CASE b.streaming = TRUE
      <4>1. c1 = b
        BY <3>1
      <4>2. Streamed(b, sent, g, f, o)
        BY <1>4, <3>1 DEF CtxOK
      <4> QED BY <4>1, <4>2, <2>1, <1>4 DEF Streamed, Typed, SameButStream
    <3>2. CASE b.streaming = FALSE
      <4>1. c1 = IF b.alg = "CCM" THEN wolfpsa_aead_ccm_init(b) ELSE StreamInit(b)
        BY <3>2
      <4>2. Buffered(b, sent, f, o)
        BY <1>4, <3>2 DEF CtxOK
      <4>3. f = 0
        <5>1. PICK z \in Nat : z = 0
          OBVIOUS
        <5>2. Tab(x, z, f) = <<>>
          BY <4>2, <1>4, <1>9, <5>1 DEF Buffered
        <5>3. Len(Tab(x, z, f)) = f
          <6>1. x \in [Nat -> Texts \union Coded]
            BY <1>2
          <6> HIDE DEF x
          <6> QED BY <6>1, TabSeq, ZenonT(30)
        <5> QED BY <5>2, <5>3
      <4>4. DOMAIN c1 = Fields /\ SameButStream(b, c1) /\ StreamAt(c1, sent, g, 0)
        <5>1. b.mblk = <<>> /\ b.ks_off = 0
          BY <4>2 DEF Buffered
        <5> QED BY <4>1, <5>1, <2>1, StreamInitOK
      <4>5. o = Tab(y, 0, 0)
        BY <4>2, TabEmpty DEF Buffered
      <4> HIDE DEF c1, y
      <4> QED BY <4>3, <4>4, <4>5
    <3> QED BY <1>1, <1>4, <3>1, <3>2
  <2>3. s = IF c1.alg = "CCM" THEN wolfpsa_aead_ccm_update(c1, data) ELSE StreamData(c1, data)
    <3>1. c1.alg = b.alg
      BY <2>2 DEF SameButStream
    <3> QED BY <3>1 DEF wolfpsa_aead_stream_update
  <2> HIDE DEF c1
  <2>4. Typed(c1)
    BY <2>1, <2>2 DEF Typed, SameButStream
  <2>5. x = InOf(c1.enc, sent) /\ y = OutOf(c1.enc, c1.nonce, sent)
    BY <2>2, <1>4 DEF SameButStream
  <2>6. /\ DOMAIN s.c = Fields /\ SameButStream(c1, s.c) /\ StreamAt(s.c, sent, g, f + n)
        /\ s.bytes = Tab(y, f, n)
    <3>1. data = Tab(InOf(c1.enc, sent), f, n)
      BY <2>5
    <3> HIDE DEF s, x, y, data
    <3> QED BY <2>2, <2>3, <2>4, <2>5, <3>1, StreamRun
  <2> HIDE DEF s
  <2>7. SameButStream(b, s.c)
    BY <2>2, <2>6 DEF SameButStream
  <2>8. /\ DOMAIN str = Fields /\ str.alg = s.c.alg /\ str.enc = s.c.enc
        /\ str.tag_length = s.c.tag_length /\ str.nonce = s.c.nonce /\ str.aad = s.c.aad
        /\ str.input = s.c.input /\ str.input_length = s.c.input_length + n
        /\ str.lengths_set = s.c.lengths_set /\ str.ad_expected = s.c.ad_expected
        /\ str.plaintext_expected = s.c.plaintext_expected /\ str.ad_started = s.c.ad_started
        /\ str.body_started = s.c.body_started /\ str.streaming = TRUE
        /\ str.mac = s.c.mac /\ str.mblk = s.c.mblk /\ str.ctr = s.c.ctr /\ str.ks_off = s.c.ks_off
    BY <2>6 DEF Fields
  <2> HIDE DEF str
  <2>9. /\ str.alg = b.alg /\ str.enc = b.enc /\ str.tag_length = b.tag_length
        /\ str.nonce = b.nonce /\ str.aad = b.aad /\ str.input = b.input
        /\ str.input_length = f + n /\ str.lengths_set = b.lengths_set
        /\ str.ad_expected = b.ad_expected /\ str.plaintext_expected = b.plaintext_expected
        /\ str.ad_started = b.ad_started /\ str.body_started = b.body_started
    BY <2>1, <2>7, <2>8 DEF SameButStream
  <2>10. Typed(str)
    <3>1. str.streaming \in BOOLEAN
      BY <2>8
    <3> QED BY <2>1, <2>8, <2>9, <3>1 DEF Typed
  <2>11. FitsCcm(str)
    BY <2>1, <2>9 DEF FitsCcm
  <2>12. StreamAt(str, sent, g, f + n)
    BY <2>6, <2>8, StreamAtSame
  <2>13. o \o s.bytes = Tab(OutOf(str.enc, str.nonce, sent), 0, f + n)
    <3>1. y = OutOf(str.enc, str.nonce, sent) /\ y \in [Nat -> Texts \union Coded]
      BY <1>2, <1>4, <2>9
    <3> HIDE DEF y
    <3>2. Tab(y, 0, f) \o Tab(y, f, n) = Tab(y, 0, f + n)
      BY <3>1, TabGrows
    <3> QED BY <3>1, <3>2, <2>2, <2>6
  <2>14. str.nonce \in Nonces /\ (str.alg = "CCM" => str.lengths_set = TRUE)
    <3>1. c.nonce \in AnyNonce /\ c.lengths_set \in BOOLEAN
      BY <1>1 DEF Typed
    <3> QED BY <3>1, <2>9, <1>4, <1>9 DEF AnyNonce, wolfpsa_aead_lengths_missing
  <2>15. Streamed(str, sent, g, f + n, o \o s.bytes)
    BY <2>9, <2>12, <2>13, <2>14, <1>4, <1>9 DEF Streamed
  <2>16. f + n \in Nat /\ str.aad = Message(g) /\ str.streaming = TRUE
    BY <2>1, <2>8, <2>9
  <2>17. CtxOK(str, sent, g, f + n, o \o s.bytes)
    BY <2>1, <2>9, <2>10, <2>11, <2>15, <2>16 DEF CtxOK
  <2>18. Len(s.bytes) =< room
    <3>1. y \in [Nat -> Texts \union Coded]
      BY <1>2
    <3> HIDE DEF y
    <3>2. Len(Tab(y, f, n)) = n
      BY <3>1, TabSeq, ZenonT(30)
    <3> QED BY <3>2, <2>6, <1>9
  <2>19. r.st = "SUCCESS" /\ r.c = str /\ r.bytes = s.bytes /\ null # TRUE
    BY <1>9 DEF Result
  <2>20. Kept(c, str) /\ str.nonce = c.nonce
    BY <2>9, <1>4 DEF Kept
  <2> QED BY <2>17, <2>18, <2>19, <2>20 DEF Advanced
<1> HIDE DEF s, str, buf, data, ready
<1> QED BY <1>6, <1>7, <1>8, <1>9

-----------------------------------------------------------------------------
(* The tag. *)

(* The tag of what an operation was given, and what it is computed from. *)
GivenTag(c, sent, g, f) ==
    Tagged(c.alg, c.nonce, c.tag_length, g, Tab(CoveredOf(c, sent), 0, f))

Ready(c) == c.nonce # NoNonce /\ ~wolfpsa_aead_lengths_missing(c) /\ LengthsMet(c)

FinalIs(c, sent, g, f, o) ==
    LET bytes == CryptAll(c, c.input)
        result == Tab(OutOf(c.enc, c.nonce, sent), 0, f)
    IN  /\ c.streaming = TRUE =>
             wolfpsa_aead_stream_final(c) = GivenTag(c, sent, g, f) /\ o = result
        /\ c.streaming = FALSE =>
             /\ TagOf(c, c.aad, Covered(c, c.input, bytes)) = GivenTag(c, sent, g, f)
             /\ bytes = result /\ o = <<>>

(* Streamed or buffered, the tag is that of the whole message. *)
LEMMA FinalTag ==
    ASSUME NEW c, NEW sent \in AnyNonce, NEW g \in Nat, NEW f \in Nat, NEW o,
           CtxOK(c, sent, g, f, o), Ready(c)
    PROVE  FinalIs(c, sent, g, f, o)
<1> DEFINE text == Tab(CoveredOf(c, sent), 0, f)
           result == Tab(OutOf(c.enc, c.nonce, sent), 0, f)
           d == [alg |-> c.alg, nonce |-> c.nonce, tag_length |-> c.tag_length]
<1>1. /\ Typed(c) /\ c.aad = Message(g) /\ c.input_length = f /\ c.enc \in BOOLEAN
      /\ c.nonce \in AnyNonce /\ c.tag_length \in TagLens /\ c.plaintext_expected \in Nat
  BY DEF CtxOK, Typed
<1>2. Len(text) = f
  <2>1. CoveredOf(c, sent) \in [Nat -> Texts \union Coded]
    <3>1. TextOf(c.enc, c.nonce, sent) \in [Nat -> Texts]
      BY <1>1, TextTyped
    <3>2. CodeOf(c.enc, c.nonce, sent) \in [Nat -> Coded]
      BY <1>1, TextTyped
    <3> QED BY <3>1, <3>2 DEF CoveredOf
  <2>2. PICK z \in Nat : z = 0
    OBVIOUS
  <2>3. Len(Tab(CoveredOf(c, sent), z, f)) = f
    BY <2>1, TabSeq, ZenonT(30)
  <2> QED BY <2>2, <2>3
<1>3. GivenTag(c, sent, g, f) =
        [len |-> c.tag_length,
         mac |-> MacStart(c, Message(g), f) \o (IF c.alg = "CCM" THEN InBlocks(text) ELSE text)]
  <2> HIDE DEF text
  <2>1. MacStart(d, Message(g), f) = MacStart(c, Message(g), f)
    BY StartSame
  <2>2. GivenTag(c, sent, g, f) = TagOf(d, Message(g), text)
    BY DEF GivenTag, Tagged, text
  <2> QED BY <1>2, <2>1, <2>2 DEF TagOf
<1>4. CASE c.streaming = TRUE
  <2>1. Streamed(c, sent, g, f, o)
    BY <1>4 DEF CtxOK
  <2>2. CASE c.alg = "CCM"
    <3> DEFINE p == TextOf(c.enc, c.nonce, sent)
               start == MacStart(c, Message(g), f)
    <3>1. c.plaintext_expected = f
      BY <1>1, <2>1, <2>2 DEF Streamed, Ready, LengthsMet
    <3>2. CcmAt(c, start, p, f)
      BY <2>1, <2>2, <3>1 DEF Streamed, StreamAt
    <3>3. start \in Seq(Absorbed)
      BY <1>1, StartSeq
    <3>4. p \in [Nat -> Texts]
      BY <1>1, TextTyped
    <3>5. text = Tab(p, 0, f)
      BY <2>2 DEF CoveredOf
    <3> HIDE DEF start, p, text
    <3>6. wolfpsa_aead_ccm_finish(c) = start \o InBlocks(text)
      BY <3>2, <3>3, <3>4, <3>5, CcmFinish
    <3>7. wolfpsa_aead_stream_final(c) = GivenTag(c, sent, g, f)
      BY <1>3, <2>2, <3>6 DEF wolfpsa_aead_stream_final, start
    <3> QED BY <1>4, <2>1, <3>7 DEF FinalIs, Streamed
  <2>3. CASE c.alg # "CCM"
    <3>1. c.mac = MacStart(c, Message(g), 0) \o Tab(CodeOf(c.enc, c.nonce, sent), 0, f)
      BY <2>1, <2>3 DEF Streamed, StreamAt
    <3>2. text = Tab(CodeOf(c.enc, c.nonce, sent), 0, f)
      BY <2>3 DEF CoveredOf
    <3>3. MacStart(c, Message(g), 0) = MacStart(c, Message(g), f)
      BY <2>3 DEF MacStart
    <3> HIDE DEF text
    <3>4. wolfpsa_aead_stream_final(c) = GivenTag(c, sent, g, f)
      BY <1>3, <2>3, <3>1, <3>2, <3>3 DEF wolfpsa_aead_stream_final
    <3> QED BY <1>4, <2>1, <3>4 DEF FinalIs, Streamed
  <2> QED BY <2>2, <2>3
<1>5. CASE c.streaming = FALSE
  <2>1. Buffered(c, sent, f, o)
    BY <1>5 DEF CtxOK
  <2> DEFINE in == Tab(InOf(c.enc, sent), 0, f)
  <2>2. CryptAll(c, in) = result /\ Covered(c, in, result) = text
    BY <1>1, WholeText
  <2>3. c.input = in /\ o = <<>>
    BY <2>1 DEF Buffered
  <2> HIDE DEF in, result, text
  <2>4. CryptAll(c, c.input) = result
    BY <2>2, <2>3
  <2>5. Covered(c, c.input, CryptAll(c, c.input)) = text
    BY <2>2, <2>3
  <2>6. TagOf(c, c.aad, text) = GivenTag(c, sent, g, f)
    BY <1>1, TagOfIs DEF GivenTag, text
  <2> QED BY <1>5, <2>3, <2>4, <2>5, <2>6 DEF FinalIs, result
<1> QED BY <1>4, <1>5, <1>1 DEF Typed, FinalIs

(* What a completed operation leaves: no operation, everything released. *)
Completed(r, c, sent, g, f, o, room) ==
    /\ r.st = "SUCCESS" /\ r.c = NoCtx /\ Ready(c) /\ c.nonce \in Nonces
    /\ o \o r.bytes = Tab(OutOf(c.enc, c.nonce, sent), 0, f) /\ Len(r.bytes) =< room
    /\ r.bytes \in Seq(Texts \union Coded)

LEMMA CompletedWith ==
    ASSUME NEW c, NEW sent \in AnyNonce, NEW g \in Nat, NEW f \in Nat, NEW o,
           CtxOK(c, sent, g, f, o), Ready(c), NEW room \in Nat, NEW tag,
           c.streaming = FALSE => ~(room < c.input_length)
    PROVE  LET bytes == IF c.streaming THEN <<>> ELSE CryptAll(c, c.input)
           IN  Completed(Result("SUCCESS", NoCtx, bytes, tag), c, sent, g, f, o, room)
<1> DEFINE bytes == IF c.streaming THEN <<>> ELSE CryptAll(c, c.input)
           result == Tab(OutOf(c.enc, c.nonce, sent), 0, f)
           r == Result("SUCCESS", NoCtx, bytes, tag)
<1>1. /\ Typed(c) /\ c.input_length = f /\ c.streaming \in BOOLEAN /\ c.nonce \in AnyNonce
  BY DEF CtxOK, Typed
<1>2. FinalIs(c, sent, g, f, o)
  BY FinalTag
<1>3. result \in Seq(Texts \union Coded) /\ Len(result) = f
  <2>1. OutOf(c.enc, c.nonce, sent) \in [Nat -> Texts \union Coded]
    BY <1>1, TextTyped
  <2>2. PICK z \in Nat : z = 0
    OBVIOUS
  <2> DEFINE t == Tab(OutOf(c.enc, c.nonce, sent), z, f)
  <2>3. t \in Seq(Texts \union Coded) /\ Len(t) = f
    BY <2>1, TabSeq, ZenonT(30)
  <2> QED BY <2>2, <2>3
<1>4. o \o bytes = result /\ Len(bytes) =< room /\ bytes \in Seq(Texts \union Coded)
  <2>1. CASE c.streaming = TRUE
    <3>1. bytes = <<>> /\ o = result /\ Len(<<>>) = 0 /\ 0 =< room
      BY <2>1, <1>2 DEF FinalIs
    <3>3. <<>> \in Seq(Texts \union Coded)
      OBVIOUS
    <3>2. result \o <<>> = result
      <4> HIDE DEF result
      <4> QED BY <1>3, ConcatEmptySeq
    <3> HIDE DEF bytes, result
    <3> QED BY <3>1, <3>2, <3>3
  <2>2. CASE c.streaming = FALSE
    <3>1. bytes = result /\ o = <<>> /\ f =< room
      BY <2>2, <1>1, <1>2 DEF FinalIs
    <3>2. <<>> \o result = result
      <4> HIDE DEF result
      <4> QED BY <1>3, ConcatEmptySeq
    <3> HIDE DEF bytes, result
    <3> QED BY <3>1, <3>2, <1>3
  <2> QED BY <1>1, <2>1, <2>2
<1>5. r.st = "SUCCESS" /\ r.c = NoCtx /\ r.bytes = bytes
  BY DEF Result
<1>6. c.nonce \in Nonces
  BY <1>1 DEF AnyNonce, Ready
<1> HIDE DEF r, bytes, result
<1>7. Completed(r, c, sent, g, f, o, room)
  BY <1>4, <1>5, <1>6 DEF Completed, result
<1> QED BY <1>7 DEF r, bytes

(* The encryption is finished; the decryption is verified. *)
Sealing(r, c, sent, g, f, o, room) ==
    /\ Completed(r, c, sent, g, f, o, room) /\ c.enc = TRUE
    /\ r.tag = GivenTag(c, sent, g, f)

Opening(r, c, sent, g, f, o, room, tag) ==
    /\ Completed(r, c, sent, g, f, o, room) /\ c.enc = FALSE
    /\ tag = GivenTag(c, sent, g, f)

LEMMA FinishOK ==
    ASSUME NEW c, NEW sent \in AnyNonce, NEW g \in Nat, NEW f \in Nat, NEW o,
           CtxOK(c, sent, g, f, o), NEW room \in Nat, NEW tagRoom,
           NEW r \in psa_aead_finish(c, room, tagRoom)
    PROVE  Failing(r, c) \/ Sealing(r, c, sent, g, f, o, room)
<1> DEFINE bytes == CryptAll(c, c.input)
           early == c.nonce = NoNonce \/ wolfpsa_aead_lengths_missing(c)
           short == ~c.streaming /\ room < c.input_length
           r1 == Result("SUCCESS", NoCtx, <<>>, wolfpsa_aead_stream_final(c))
           r2 == Result("SUCCESS", NoCtx, bytes, TagOf(c, c.aad, Covered(c, c.input, bytes)))
<1>0. c.streaming \in BOOLEAN /\ c.enc \in BOOLEAN
  BY DEF CtxOK, Typed
<1>1. CASE c.enc = FALSE
  <2>1. r = Refused("BAD_STATE", c)
    BY <1>1 DEF psa_aead_finish
  <2> QED BY <2>1, Results
<1>2. CASE c.enc = TRUE
  <2>1. r \in wolfpsa_aead_encrypt_final(c, room, tagRoom)
    BY <1>2 DEF psa_aead_finish
  <2>2. r \in (IF early THEN {Aborted("BAD_STATE")}
               ELSE IF ~LengthsMet(c) THEN {Aborted("INVALID_ARGUMENT")}
               ELSE IF short THEN {Aborted("BUFFER_TOO_SMALL")}
               ELSE IF tagRoom < c.tag_length THEN {Aborted("BUFFER_TOO_SMALL")}
               ELSE IF ~c.streaming /\ TooLong(c) THEN {Aborted("INVALID_ARGUMENT")}
               ELSE {IF c.streaming THEN r1 ELSE r2, Aborted("GENERIC_ERROR")})
    BY <2>1 DEF wolfpsa_aead_encrypt_final
  <2> HIDE DEF early, short, r1, r2
  <2>3. \/ \E st : st # "SUCCESS" /\ r = Aborted(st)
        \/ ~early /\ LengthsMet(c) /\ ~short /\ r = (IF c.streaming THEN r1 ELSE r2)
    BY <2>2
  <2>4. CASE \E st : st # "SUCCESS" /\ r = Aborted(st)
    BY <2>4, Results
  <2>5. CASE ~early /\ LengthsMet(c) /\ ~short /\ r = (IF c.streaming THEN r1 ELSE r2)
    <3>1. Ready(c)
      BY <2>5 DEF early, Ready
    <3>2. c.streaming = FALSE => ~(room < c.input_length)
      BY <2>5 DEF short
    <3>3. FinalIs(c, sent, g, f, o)
      BY <3>1, FinalTag
    <3> DEFINE b == IF c.streaming THEN <<>> ELSE CryptAll(c, c.input)
               t == GivenTag(c, sent, g, f)
    <3>4. r = Result("SUCCESS", NoCtx, b, t)
      <4>1. CASE c.streaming = TRUE
        BY <4>1, <2>5, <3>3 DEF r1, FinalIs
      <4>2. CASE c.streaming = FALSE
        BY <4>2, <2>5, <3>3 DEF r2, FinalIs
      <4> QED BY <1>0, <4>1, <4>2
    <3>5. Completed(Result("SUCCESS", NoCtx, b, t), c, sent, g, f, o, room)
      <4> HIDE DEF t
      <4> QED BY <3>1, <3>2, CompletedWith
    <3>6. Result("SUCCESS", NoCtx, b, t).tag = t
      BY DEF Result
    <3> HIDE DEF b, t
    <3> QED BY <1>2, <3>4, <3>5, <3>6 DEF t, Sealing
  <2> QED BY <2>3, <2>4, <2>5
<1> QED BY <1>0, <1>1, <1>2

LEMMA VerifyOK ==
    ASSUME NEW c, NEW sent \in AnyNonce, NEW g \in Nat, NEW f \in Nat, NEW o,
           CtxOK(c, sent, g, f, o), NEW room \in Nat, NEW tag,
           NEW r \in psa_aead_verify(c, room, tag)
    PROVE  Failing(r, c) \/ Opening(r, c, sent, g, f, o, room, tag)
<1> DEFINE bytes == CryptAll(c, c.input)
           computed == IF c.streaming THEN wolfpsa_aead_stream_final(c)
                       ELSE TagOf(c, c.aad, Covered(c, c.input, bytes))
           early == c.nonce = NoNonce \/ wolfpsa_aead_lengths_missing(c)
           short == ~c.streaming /\ room < c.input_length
           r1 == Result("SUCCESS", NoCtx, IF c.streaming THEN <<>> ELSE bytes, NoTag)
           other == IF c.alg = "CHACHA20_POLY1305" /\ ~c.streaming
                    THEN "INVALID_SIGNATURE" ELSE "GENERIC_ERROR"
<1>0. c.streaming \in BOOLEAN /\ c.enc \in BOOLEAN
  BY DEF CtxOK, Typed
<1>1. CASE c.enc = TRUE
  <2>1. r = Refused("BAD_STATE", c)
    BY <1>1 DEF psa_aead_verify
  <2> QED BY <2>1, Results
<1>2. CASE c.enc = FALSE
  <2>1. r \in wolfpsa_aead_decrypt_final(c, room, tag)
    BY <1>2 DEF psa_aead_verify
  <2>2. r \in (IF early THEN {Aborted("BAD_STATE")}
               ELSE IF ~LengthsMet(c) THEN {Aborted("INVALID_ARGUMENT")}
               ELSE IF tag.len # c.tag_length THEN {Aborted("INVALID_SIGNATURE")}
               ELSE IF short THEN {Aborted("BUFFER_TOO_SMALL")}
               ELSE IF ~c.streaming /\ TooLong(c) THEN {Aborted("INVALID_ARGUMENT")}
               ELSE {IF computed = tag THEN r1 ELSE Aborted("INVALID_SIGNATURE"), Aborted(other)})
    BY <2>1 DEF wolfpsa_aead_decrypt_final
  <2>0. other # "SUCCESS"
    OBVIOUS
  <2> HIDE DEF early, short, r1, computed, other
  <2>3. \/ \E st : st # "SUCCESS" /\ r = Aborted(st)
        \/ ~early /\ LengthsMet(c) /\ ~short /\ computed = tag /\ r = r1
    BY <2>0, <2>2
  <2>4. CASE \E st : st # "SUCCESS" /\ r = Aborted(st)
    BY <2>4, Results
  <2>5. CASE ~early /\ LengthsMet(c) /\ ~short /\ computed = tag /\ r = r1
    <3>1. Ready(c)
      BY <2>5 DEF early, Ready
    <3>2. c.streaming = FALSE => ~(room < c.input_length)
      BY <2>5 DEF short
    <3>3. FinalIs(c, sent, g, f, o)
      BY <3>1, FinalTag
    <3>4. computed = GivenTag(c, sent, g, f)
      <4>1. CASE c.streaming = TRUE
        BY <4>1, <3>3 DEF computed, FinalIs
      <4>2. CASE c.streaming = FALSE
        BY <4>2, <3>3 DEF computed, FinalIs
      <4> QED BY <1>0, <4>1, <4>2
    <3>5. Completed(r, c, sent, g, f, o, room)
      BY <3>1, <3>2, <2>5, CompletedWith DEF r1
    <3> QED BY <1>2, <2>5, <3>4, <3>5 DEF Opening
  <2> QED BY <2>3, <2>4, <2>5
<1> QED BY <1>0, <1>1, <1>2

(* The tag of all it was given makes psa_aead_verify() succeed. *)
LEMMA VerifyAccepts ==
    ASSUME NEW c, NEW sent \in AnyNonce, NEW g \in Nat, NEW f \in Nat, NEW o,
           CtxOK(c, sent, g, f, o), c.enc = FALSE, Ready(c), f =< Word32,
           NEW room \in Nat, f =< room, NEW tag, tag = GivenTag(c, sent, g, f)
    PROVE  \E r \in psa_aead_verify(c, room, tag) : Completed(r, c, sent, g, f, o, room)
<1> DEFINE bytes == CryptAll(c, c.input)
           computed == IF c.streaming THEN wolfpsa_aead_stream_final(c)
                       ELSE TagOf(c, c.aad, Covered(c, c.input, bytes))
           b == IF c.streaming THEN <<>> ELSE bytes
           r == Result("SUCCESS", NoCtx, b, NoTag)
<1>1. /\ Typed(c) /\ c.streaming \in BOOLEAN /\ c.input_length = f /\ c.aad = Message(g)
      /\ g =< Word32 /\ Len(Message(g)) = g
  BY MessageTab DEF CtxOK, Typed
<1>2. FinalIs(c, sent, g, f, o)
  BY FinalTag
<1>3. computed = tag
  <2>1. CASE c.streaming = TRUE
    BY <2>1, <1>2 DEF FinalIs
  <2>2. CASE c.streaming = FALSE
    BY <2>2, <1>2 DEF FinalIs
  <2> QED BY <1>1, <2>1, <2>2
<1>4. Completed(r, c, sent, g, f, o, room)
  <2>1. c.streaming = FALSE => ~(room < c.input_length)
    BY <1>1
  <2> QED BY <2>1, CompletedWith
<1>5. tag.len = c.tag_length
  <2> DEFINE text == Tab(CoveredOf(c, sent), 0, f)
  <2>1. tag = Tagged(c.alg, c.nonce, c.tag_length, g, text)
    BY DEF GivenTag
  <2> HIDE DEF text
  <2>2. Tagged(c.alg, c.nonce, c.tag_length, g, text).len = c.tag_length
    BY DEF Tagged, TagOf
  <2> QED BY <2>1, <2>2
<1>6. ~TooLong(c) /\ ~(room < c.input_length)
  <2>1. Word32 \in Nat
    BY SizesAssumption
  <2> QED BY <1>1, <2>1 DEF TooLong
<1>7. /\ c.nonce # NoNonce /\ ~wolfpsa_aead_lengths_missing(c) /\ LengthsMet(c)
  BY DEF Ready
<1>8. r \in wolfpsa_aead_decrypt_final(c, room, tag)
  BY <1>3, <1>5, <1>6, <1>7 DEF wolfpsa_aead_decrypt_final
<1>9. psa_aead_verify(c, room, tag) = wolfpsa_aead_decrypt_final(c, room, tag)
  BY DEF psa_aead_verify
<1> QED BY <1>4, <1>8, <1>9

-----------------------------------------------------------------------------
(* The inductive invariant. *)

(* What the MAC of an encryption covers, and the message on the wire. *)
SentText(alg, nonce, n) == IF alg = "CCM" THEN Tab(Plain, 0, n) ELSE Tab(Sealed(nonce), 0, n)

WireIs(alg, nonce, ad, n, ct, tag) ==
    /\ alg \in Algs /\ nonce \in Nonces /\ ad \in Nat /\ n \in 0 .. MaxLen
    /\ tag.len \in TagLens /\ ct = Tab(Sealed(nonce), 0, n)
    /\ tag = Tagged(alg, nonce, tag.len, ad, SentText(alg, nonce, n))

WireOK == wire # NoWire => WireIs(wire.alg, wire.nonce, wire.ad, wire.n, wire.ct, wire.tag)

CallOK == call \in [completed : BOOLEAN, fits : BOOLEAN] /\ call.fits = TRUE

(* A decryption is of the last message. *)
Decrypting(w, c, n) ==
    c.enc = FALSE => w # NoWire /\ c.alg = w.alg /\ c.tag_length = w.tag.len /\ n =< w.n

ActiveOK ==
    /\ ctx = NoCtx => gaveAd = 0 /\ given = 0 /\ out = <<>>
    /\ ctx # NoCtx => CtxOK(ctx, wire.nonce, gaveAd, given, out) /\ Decrypting(wire, ctx, given)

IInv ==
    /\ CallOK /\ gaveAd \in 0 .. MaxAd /\ given \in 0 .. MaxLen
    /\ WireOK /\ Authentic /\ ActiveOK

LEMMA Bounds == MaxAd \in Nat /\ MaxLen \in Nat /\ Word32 \in Nat /\ FullTag \in Nat
BY SizesAssumption

LEMMA InitIInv == Init => IInv
<1> SUFFICES ASSUME Init PROVE IInv
  OBVIOUS
<1>1. CallOK
  <2>1. call.completed = FALSE /\ call.fits = TRUE
    BY DEF Init
  <2> QED BY <2>1 DEF Init, CallOK
<1>2. gaveAd \in 0 .. MaxAd /\ given \in 0 .. MaxLen
  BY Bounds DEF Init
<1>3. WireOK /\ Authentic /\ ActiveOK
  BY DEF Init, WireOK, Authentic, ActiveOK
<1> QED BY <1>1, <1>2, <1>3 DEF IInv

LEMMA SentNonce == WireOK => wire.nonce \in AnyNonce
BY DEF WireOK, WireIs, AnyNonce, NoWire

LEMMA Framed ==
    ASSUME WireOK, Authentic, UNCHANGED <<wire, opened>>
    PROVE  WireOK' /\ Authentic'
BY DEF WireOK, WireIs, Authentic

LEMMA CallReturns ==
    ASSUME NEW a \in BOOLEAN, NEW b, b = TRUE, call' = [completed |-> a, fits |-> b]
    PROVE  CallOK'
<1>1. call'.completed = a /\ call'.fits = b
  OBVIOUS
<1> QED BY <1>1 DEF CallOK

(* A call that fails leaves the invariant as it is. *)
LEMMA ReturnFails ==
    ASSUME IInv, NEW r, Failing(r, ctx), NEW final \in BOOLEAN, NEW ad, NEW n, NEW room \in Nat,
           Return(r, final, ad, n, room), Keep
    PROVE  IInv'
<1>1. /\ ctx' = r.c /\ gaveAd' = (IF r.c = NoCtx THEN 0 ELSE gaveAd)
      /\ given' = (IF r.c = NoCtx THEN 0 ELSE given)
      /\ out' = (IF r.c = NoCtx THEN <<>> ELSE out \o r.bytes)
  BY DEF Return, Failing
<1>2. r.bytes = <<>> /\ r.c \in {NoCtx, ctx} /\ r.st # "SUCCESS"
  BY DEF Failing
<1>3. CallOK'
  <2>1. call' = [completed |-> FALSE, fits |-> Len(r.bytes) =< room]
    BY <1>2 DEF Return
  <2>2. (Len(r.bytes) =< room) = TRUE
    BY <1>2
  <2> HIDE DEF Failing
  <2> QED BY <2>1, <2>2, CallReturns
<1>4. WireOK' /\ Authentic' /\ wire' = wire
  BY Framed DEF IInv, Keep
<1>5. gaveAd' \in 0 .. MaxAd /\ given' \in 0 .. MaxLen
  BY <1>1, Bounds DEF IInv
<1>6. ActiveOK'
  <2>1. CASE r.c = NoCtx
    BY <1>1, <2>1 DEF ActiveOK
  <2>2. CASE r.c # NoCtx
    <3>1. r.c = ctx /\ ctx # NoCtx
      BY <1>2, <2>2
    <3>2. CtxOK(ctx, wire.nonce, gaveAd, given, out) /\ Decrypting(wire, ctx, given)
      BY <3>1 DEF IInv, ActiveOK
    <3>3. out \o <<>> = out
      <4>1. wire.nonce \in AnyNonce /\ gaveAd \in Nat /\ given \in Nat
        BY <3>2, SentNonce DEF IInv, CtxOK
      <4> QED BY <3>2, <4>1, OutSeq
    <3>4. ctx' = ctx /\ gaveAd' = gaveAd /\ given' = given /\ out' = out
      BY <1>1, <1>2, <3>1, <3>3
    <3> QED BY <1>4, <3>1, <3>2, <3>4 DEF ActiveOK
  <2> QED BY <2>1, <2>2
<1> QED BY <1>3, <1>4, <1>5, <1>6 DEF IInv

(* A call that succeeds and leaves a right context does too. *)
LEMMA ReturnWorks ==
    ASSUME IInv, NEW r, r.st = "SUCCESS", NEW ad \in Nat, NEW n \in Nat, NEW room \in Nat,
           CtxOK(r.c, wire.nonce, gaveAd + ad, given + n, out \o r.bytes),
           Decrypting(wire, r.c, given + n), gaveAd + ad =< MaxAd, given + n =< MaxLen,
           Len(r.bytes) =< room, Return(r, FALSE, ad, n, room), Keep
    PROVE  IInv'
<1>1. /\ ctx' = r.c /\ gaveAd' = (IF r.c = NoCtx THEN 0 ELSE gaveAd + ad)
      /\ given' = (IF r.c = NoCtx THEN 0 ELSE given + n)
      /\ out' = (IF r.c = NoCtx THEN <<>> ELSE out \o r.bytes)
  BY DEF Return
<1>2. CallOK'
  <2>1. call' = [completed |-> FALSE, fits |-> Len(r.bytes) =< room]
    BY DEF Return
  <2>2. (Len(r.bytes) =< room) = TRUE
    OBVIOUS
  <2> QED BY <2>1, <2>2, CallReturns
<1>3. WireOK' /\ Authentic' /\ wire' = wire
  BY Framed DEF IInv, Keep
<1>4. gaveAd' \in 0 .. MaxAd /\ given' \in 0 .. MaxLen
  BY <1>1, Bounds DEF IInv
<1>5. ActiveOK'
  BY <1>1, <1>3 DEF ActiveOK
<1> QED BY <1>2, <1>3, <1>4, <1>5 DEF IInv

LEMMA ActiveFacts ==
    ASSUME IInv, ctx # NoCtx
    PROVE  /\ CtxOK(ctx, wire.nonce, gaveAd, given, out) /\ Decrypting(wire, ctx, given)
           /\ wire.nonce \in AnyNonce /\ gaveAd \in Nat /\ given \in Nat /\ out \o <<>> = out
<1>1. CtxOK(ctx, wire.nonce, gaveAd, given, out) /\ Decrypting(wire, ctx, given)
  BY DEF IInv, ActiveOK
<1>2. wire.nonce \in AnyNonce /\ gaveAd \in Nat /\ given \in Nat
  BY <1>1, SentNonce DEF IInv, CtxOK
<1> QED BY <1>1, <1>2, OutSeq

(* Calls that neither take nor release bytes. *)
LEMMA ReturnSame ==
    ASSUME IInv, ctx # NoCtx, NEW r,
           \/ Failing(r, ctx)
           \/ /\ r.st = "SUCCESS" /\ r.bytes = <<>> /\ Kept(ctx, r.c)
              /\ CtxOK(r.c, wire.nonce, gaveAd, given, out),
           Return(r, FALSE, 0, 0, 0), Keep
    PROVE  IInv'
<1>z. PICK z \in Nat : z = 0
  OBVIOUS
<1>0. Return(r, FALSE, z, z, z)
  BY <1>z
<1>1. CASE Failing(r, ctx)
  <2>1. FALSE \in BOOLEAN
    OBVIOUS
  <2> QED BY <1>0, <1>1, <2>1, ReturnFails
<1>2. CASE /\ r.st = "SUCCESS" /\ r.bytes = <<>> /\ Kept(ctx, r.c)
           /\ CtxOK(r.c, wire.nonce, gaveAd, given, out)
  <2>1. /\ Decrypting(wire, ctx, given) /\ gaveAd \in Nat /\ given \in Nat
        /\ out \o <<>> = out
    BY ActiveFacts
  <2>2. gaveAd + z = gaveAd /\ given + z = given /\ out \o r.bytes = out
    BY <1>z, <1>2, <2>1
  <2>3. CtxOK(r.c, wire.nonce, gaveAd + z, given + z, out \o r.bytes)
    BY <1>2, <2>2
  <2>4. Decrypting(wire, r.c, given + z)
    BY <1>2, <2>1, <2>2 DEF Decrypting, Kept
  <2>5. gaveAd + z =< MaxAd /\ given + z =< MaxLen
    BY <2>2, Bounds DEF IInv
  <2>6. Len(r.bytes) =< z
    BY <1>2, <1>z
  <2> QED BY <1>0, <1>2, <2>3, <2>4, <2>5, <2>6, ReturnWorks
<1> QED BY <1>1, <1>2

LEMMA InactiveStep == IInv /\ Inactive => IInv'
<1> SUFFICES ASSUME IInv, Inactive PROVE IInv'
  OBVIOUS
<1> DEFINE r == Refused("BAD_STATE", NoCtx)
<1>1. Failing(r, ctx) /\ Return(r, FALSE, 0, 0, 0) /\ Keep
  <2>1. Failing(r, NoCtx)
    BY Results
  <2>2. ctx = NoCtx /\ Return(r, FALSE, 0, 0, 0) /\ Keep
    BY DEF Inactive
  <2> HIDE DEF r
  <2> QED BY <2>1, <2>2
<1> HIDE DEF r
<1>z. 0 \in Nat /\ FALSE \in BOOLEAN
  OBVIOUS
<1> QED BY <1>1, <1>z, ReturnFails

(* psa_aead_abort(). *)
LEMMA AbortStep == IInv /\ Abort => IInv'
<1> SUFFICES ASSUME IInv, Abort PROVE IInv'
  OBVIOUS
<1> DEFINE r == Done(NoCtx)
<1>1. /\ r.st = "SUCCESS" /\ r.c = NoCtx /\ r.bytes = <<>>
      /\ Return(r, FALSE, 0, 0, 0) /\ Keep
  BY Results DEF Abort
<1> HIDE DEF r
<1>2. ctx' = NoCtx /\ gaveAd' = 0 /\ given' = 0 /\ out' = <<>>
  BY <1>1 DEF Return
<1>3. CallOK'
  <2>1. call' = [completed |-> FALSE, fits |-> Len(r.bytes) =< 0]
    BY <1>1 DEF Return
  <2>2. (Len(r.bytes) =< 0) = TRUE
    BY <1>1
  <2> QED BY <2>1, <2>2, CallReturns
<1>4. WireOK' /\ Authentic'
  BY <1>1, Framed DEF IInv, Keep
<1>5. gaveAd' \in 0 .. MaxAd /\ given' \in 0 .. MaxLen
  BY <1>2, Bounds
<1> QED BY <1>2, <1>3, <1>4, <1>5 DEF IInv, ActiveOK

LEMMA SetupStep ==
    ASSUME IInv, NEW key, NEW alg \in Algs, NEW tag \in TagLens, NEW enc \in BOOLEAN,
           Setup(key, alg, tag, enc)
    PROVE  IInv'
<1>1. PICK r \in wolfpsa_aead_setup(NoCtx, key, alg, tag, enc) : Return(r, FALSE, 0, 0, 0)
  BY DEF Setup
<1>2. ctx = NoCtx /\ Keep /\ (enc = FALSE => alg = wire.alg /\ tag = wire.tag.len)
  BY DEF Setup
<1>3. gaveAd = 0 /\ given = 0 /\ out = <<>>
  BY <1>2 DEF IInv, ActiveOK
<1>z. PICK z \in Nat : z = 0
  OBVIOUS
<1>0. Return(r, FALSE, z, z, z)
  BY <1>1, <1>z
<1>4. CASE Failing(r, NoCtx)
  <2>1. FALSE \in BOOLEAN
    OBVIOUS
  <2> QED BY <1>0, <1>2, <1>4, <2>1, ReturnFails
<1>5. CASE r = Done(NewCtx(alg, tag, enc)) /\ CtxOK(r.c, wire.nonce, 0, 0, <<>>)
  <2>1. r.st = "SUCCESS" /\ r.bytes = <<>> /\ r.c = NewCtx(alg, tag, enc)
    BY <1>5, Results
  <2>2. r.c.alg = alg /\ r.c.enc = enc /\ r.c.tag_length = tag
    BY <2>1 DEF NewCtx
  <2>3. gaveAd + z = 0 /\ given + z = 0 /\ out \o r.bytes = <<>>
    <3>1. <<>> \o <<>> = <<>>
      OBVIOUS
    <3> QED BY <3>1, <1>3, <1>z, <2>1
  <2>4. CtxOK(r.c, wire.nonce, gaveAd + z, given + z, out \o r.bytes)
    BY <1>5, <2>3
  <2>5. Decrypting(wire, r.c, given + z)
    <3> SUFFICES ASSUME enc = FALSE PROVE wire # NoWire /\ alg = wire.alg /\ tag = wire.tag.len /\ 0 =< wire.n
      BY <2>2, <2>3 DEF Decrypting
    <3>1. alg = wire.alg /\ tag = wire.tag.len
      BY <1>2
    <3>2. wire # NoWire
      BY <3>1, MarkersAssumption DEF NoWire
    <3>3. wire.n \in 0 .. MaxLen
      BY <3>2 DEF IInv, WireOK, WireIs
    <3> QED BY <3>1, <3>2, <3>3, Bounds
  <2>6. gaveAd + z =< MaxAd /\ given + z =< MaxLen
    BY <2>3, Bounds
  <2>7. Len(r.bytes) =< z
    BY <2>1, <1>z
  <2> QED BY <1>0, <1>2, <2>1, <2>4, <2>5, <2>6, <2>7, ReturnWorks
<1> QED BY <1>4, <1>5, SetupOK, ZenonT(30)

LEMMA SetupAgainStep ==
    ASSUME IInv, NEW key, SetupAgain(key)
    PROVE  IInv'
<1> DEFINE r == Refused("BAD_STATE", ctx)
<1>1. ctx # NoCtx /\ Return(r, FALSE, 0, 0, 0) /\ Keep
  BY DEF SetupAgain, wolfpsa_aead_setup
<1>2. Failing(r, ctx)
  BY Results
<1> HIDE DEF r
<1> QED BY <1>1, <1>2, ReturnSame

LEMMA SetLengthsStep ==
    ASSUME IInv, NEW ad \in Nat, NEW n \in Nat, SetLengths(ad, n)
    PROVE  IInv'
<1>1. PICK r \in psa_aead_set_lengths(ctx, ad, n) : Return(r, FALSE, 0, 0, 0)
  BY DEF SetLengths
<1>2. ctx # NoCtx /\ Keep
  BY DEF SetLengths
<1>3. CtxOK(ctx, wire.nonce, gaveAd, given, out)
  BY <1>2, ActiveFacts
<1>4. \/ Failing(r, ctx)
      \/ /\ r.st = "SUCCESS" /\ r.bytes = <<>> /\ Kept(ctx, r.c)
         /\ CtxOK(r.c, wire.nonce, gaveAd, given, out)
  BY <1>3, SetLengthsOK
<1> QED BY <1>1, <1>2, <1>4, ReturnSame

LEMMA SetNonceStep ==
    ASSUME IInv, NEW nonce \in Nonces, NEW lenOk, SetNonce(nonce, lenOk)
    PROVE  IInv'
<1>1. PICK r \in psa_aead_set_nonce(ctx, nonce, lenOk) : Return(r, FALSE, 0, 0, 0)
  BY DEF SetNonce
<1>2. ctx # NoCtx /\ Keep
  BY DEF SetNonce
<1>3. CtxOK(ctx, wire.nonce, gaveAd, given, out)
  BY <1>2, ActiveFacts
<1>4. \/ Failing(r, ctx)
      \/ /\ r.st = "SUCCESS" /\ r.bytes = <<>> /\ Kept(ctx, r.c)
         /\ CtxOK(r.c, wire.nonce, gaveAd, given, out)
  BY <1>3, SetNonceOK
<1> QED BY <1>1, <1>2, <1>4, ReturnSame

LEMMA GenerateNonceStep ==
    ASSUME IInv, NEW nonce \in Nonces, NEW roomy, GenerateNonce(nonce, roomy)
    PROVE  IInv'
<1>1. PICK r \in psa_aead_generate_nonce(ctx, nonce, roomy) : Return(r, FALSE, 0, 0, 0)
  BY DEF GenerateNonce
<1>2. ctx # NoCtx /\ Keep
  BY DEF GenerateNonce
<1>3. CtxOK(ctx, wire.nonce, gaveAd, given, out)
  BY <1>2, ActiveFacts
<1>4. \/ Failing(r, ctx)
      \/ /\ r.st = "SUCCESS" /\ r.bytes = <<>> /\ Kept(ctx, r.c)
         /\ CtxOK(r.c, wire.nonce, gaveAd, given, out)
  <2>1. \/ r = Refused("BAD_STATE", ctx) \/ r = Refused("BUFFER_TOO_SMALL", ctx)
        \/ r = Refused("INSUFFICIENT_ENTROPY", ctx)
        \/ r \in psa_aead_set_nonce(ctx, nonce, TRUE)
    BY <1>1 DEF psa_aead_generate_nonce
  <2>2. CASE r \in psa_aead_set_nonce(ctx, nonce, TRUE)
    <3>1. PICK t \in BOOLEAN : t = TRUE
      OBVIOUS
    <3>2. r \in psa_aead_set_nonce(ctx, nonce, t)
      BY <2>2, <3>1
    <3> QED BY <1>3, <3>2, SetNonceOK
  <2>3. CASE \/ r = Refused("BAD_STATE", ctx) \/ r = Refused("BUFFER_TOO_SMALL", ctx)
             \/ r = Refused("INSUFFICIENT_ENTROPY", ctx)
    BY <2>3, Results
  <2> QED BY <2>1, <2>2, <2>3
<1> QED BY <1>1, <1>2, <1>4, ReturnSame

LEMMA UpdateAdStep ==
    ASSUME IInv, NEW n \in Nat, UpdateAdCall(n)
    PROVE  IInv'
<1>1. PICK r \in psa_aead_update_ad(ctx, Bytes(gaveAd, n)) : Return(r, FALSE, n, 0, 0)
  BY DEF UpdateAdCall
<1>2. ctx # NoCtx /\ Keep /\ gaveAd + n =< MaxAd
  BY DEF UpdateAdCall
<1>3. /\ CtxOK(ctx, wire.nonce, gaveAd, given, out) /\ Decrypting(wire, ctx, given)
      /\ gaveAd \in Nat /\ given \in Nat /\ out \o <<>> = out
  BY <1>2, ActiveFacts
<1>z. PICK z \in Nat : z = 0
  OBVIOUS
<1>0. Return(r, FALSE, n, z, z)
  BY <1>1, <1>z
<1>4. CASE Failing(r, ctx)
  <2>1. FALSE \in BOOLEAN
    OBVIOUS
  <2> QED BY <1>0, <1>2, <1>4, <2>1, ReturnFails
<1>5. CASE /\ r.st = "SUCCESS" /\ r.bytes = <<>> /\ Kept(ctx, r.c)
           /\ CtxOK(r.c, wire.nonce, gaveAd + n, given, out)
  <2>2. given + z = given /\ out \o r.bytes = out
    BY <1>z, <1>3, <1>5
  <2>3. CtxOK(r.c, wire.nonce, gaveAd + n, given + z, out \o r.bytes)
    BY <1>5, <2>2
  <2>4. Decrypting(wire, r.c, given + z)
    BY <1>3, <1>5, <2>2 DEF Decrypting, Kept
  <2>5. given + z =< MaxLen
    BY <2>2, Bounds DEF IInv
  <2>6. Len(r.bytes) =< z
    BY <1>5, <1>z
  <2> QED BY <1>0, <1>2, <1>5, <2>3, <2>4, <2>5, <2>6, ReturnWorks
<1> QED BY <1>1, <1>3, <1>4, <1>5, UpdateAdOK

LEMMA NextInputIs ==
    ASSUME IInv, ctx # NoCtx, NEW n \in Nat, n =< Available
    PROVE  /\ NextInput(n) = Tab(InOf(ctx.enc, wire.nonce), given, n)
           /\ given + n =< MaxLen /\ Decrypting(wire, ctx, given + n)
<1>1. /\ CtxOK(ctx, wire.nonce, gaveAd, given, out) /\ Decrypting(wire, ctx, given)
      /\ wire.nonce \in AnyNonce /\ given \in Nat
  BY ActiveFacts
<1>2. ctx.enc \in BOOLEAN
  BY <1>1 DEF CtxOK, Typed
<1>3. CASE ctx.enc = TRUE
  <2>1. NextInput(n) = Tab(Plain, given, n)
    BY <1>1, <1>3, BytesTab DEF NextInput
  <2>2. given + n =< MaxLen
    BY <1>1, <1>3, Bounds DEF Available
  <2> QED BY <1>3, <2>1, <2>2 DEF InOf, Decrypting
<1>4. CASE ctx.enc = FALSE
  <2>1. /\ wire # NoWire /\ given =< wire.n /\ ctx.alg = wire.alg
        /\ ctx.tag_length = wire.tag.len
    BY <1>1, <1>4 DEF Decrypting
  <2>2. wire.ct = Tab(Sealed(wire.nonce), 0, wire.n) /\ wire.n \in 0 .. MaxLen
    BY <2>1 DEF IInv, WireOK, WireIs
  <2>3. wire.n \in Nat
    BY <2>2, Bounds
  <2>4. Sealed(wire.nonce) \in [Nat -> Coded]
    BY <1>1, ByteFunctions
  <2>5. Len(wire.ct) = wire.n
    <3>1. PICK z \in Nat : z = 0
      OBVIOUS
    <3>2. Len(Tab(Sealed(wire.nonce), z, wire.n)) = wire.n
      BY <2>3, <2>4, TabSeq
    <3> QED BY <2>2, <3>1, <3>2
  <2>6. given + n =< wire.n
    <3>1. n =< Len(wire.ct) - given
      BY <1>4 DEF Available
    <3> QED BY <1>1, <2>3, <2>5, <3>1
  <2>7. SubSeq(Tab(Sealed(wire.nonce), 0, wire.n), given + 1, given + n)
          = Tab(Sealed(wire.nonce), given, n)
    BY <1>1, <2>3, <2>4, <2>6, TabPart
  <2>8. NextInput(n) = SubSeq(wire.ct, given + 1, given + n)
    BY <1>4 DEF NextInput
  <2>9. NextInput(n) = Tab(InOf(ctx.enc, wire.nonce), given, n)
    BY <1>4, <2>2, <2>7, <2>8 DEF InOf
  <2>10. given + n =< MaxLen
    BY <1>1, <2>2, <2>3, <2>6, Bounds
  <2> QED BY <2>1, <2>6, <2>9, <2>10 DEF Decrypting
<1> QED BY <1>2, <1>3, <1>4

LEMMA UpdateStep ==
    ASSUME IInv, NEW n \in Nat, NEW null \in BOOLEAN, NEW room \in Nat, Update(n, null, room)
    PROVE  IInv'
<1>1. PICK r \in psa_aead_update(ctx, NextInput(n), null, room) : Return(r, FALSE, 0, n, room)
  BY DEF Update
<1>2. ctx # NoCtx /\ Keep /\ n =< Available
  BY DEF Update
<1>3. /\ CtxOK(ctx, wire.nonce, gaveAd, given, out) /\ wire.nonce \in AnyNonce
      /\ gaveAd \in Nat /\ given \in Nat
  BY <1>2, ActiveFacts
<1>4. /\ NextInput(n) = Tab(InOf(ctx.enc, wire.nonce), given, n)
      /\ given + n =< MaxLen /\ Decrypting(wire, ctx, given + n)
  BY <1>2, NextInputIs
<1>5. Failing(r, ctx) \/ Advanced(r, ctx, wire.nonce, gaveAd, given + n, out, null, room)
  <2>1. r \in psa_aead_update(ctx, Tab(InOf(ctx.enc, wire.nonce), given, n), null, room)
    BY <1>1, <1>4
  <2> QED BY <1>3, <2>1, UpdateOK
<1>z. PICK z \in Nat : z = 0
  OBVIOUS
<1>0. Return(r, FALSE, z, n, room)
  BY <1>1, <1>z
<1>6. CASE Failing(r, ctx)
  <2>1. FALSE \in BOOLEAN
    OBVIOUS
  <2> QED BY <1>0, <1>2, <1>6, <2>1, ReturnFails
<1>7. CASE Advanced(r, ctx, wire.nonce, gaveAd, given + n, out, null, room)
  <2>1. /\ r.st = "SUCCESS" /\ CtxOK(r.c, wire.nonce, gaveAd, given + n, out \o r.bytes)
        /\ Kept(ctx, r.c) /\ Len(r.bytes) =< room
    BY <1>7 DEF Advanced
  <2>2. gaveAd + z = gaveAd
    BY <1>z, <1>3
  <2>3. CtxOK(r.c, wire.nonce, gaveAd + z, given + n, out \o r.bytes)
    BY <2>1, <2>2
  <2>4. Decrypting(wire, r.c, given + n)
    BY <1>4, <2>1 DEF Decrypting, Kept
  <2>5. gaveAd + z =< MaxAd
    BY <2>2, Bounds DEF IInv
  <2> QED BY <1>0, <1>2, <1>4, <2>1, <2>3, <2>4, <2>5, ReturnWorks
<1> QED BY <1>5, <1>6, <1>7

-----------------------------------------------------------------------------
(* The tag of an encryption opens only what was encrypted. *)
LEMMA Opens ==
    ASSUME NEW alg, NEW sent, NEW ad, NEW n, NEW ct, NEW wtag,
           WireIs(alg, sent, ad, n, ct, wtag),
           NEW nonce \in AnyNonce, NEW g \in Nat, NEW f \in Nat, NEW p,
           p \in [Nat -> IF alg = "CCM" THEN Texts ELSE Coded],
           NEW tag \in {wtag, OtherTag(wtag)},
           tag = Tagged(alg, nonce, wtag.len, g, Tab(p, 0, f))
    PROVE  tag = wtag /\ nonce = sent /\ g = ad /\ f = n
<1> DEFINE S == IF alg = "CCM" THEN Texts ELSE Coded
           t1 == Tab(p, 0, f)  t2 == SentText(alg, sent, n)
<1>1. /\ sent \in AnyNonce /\ ad \in Nat /\ n \in Nat /\ wtag.len \in TagLens
      /\ wtag = Tagged(alg, sent, wtag.len, ad, SentText(alg, sent, n))
  BY Bounds DEF WireIs, AnyNonce
<1>2. t1 \in Seq(S) /\ Len(t1) = f
  <2>1. PICK z \in Nat : z = 0
    OBVIOUS
  <2>2. Tab(p, z, f) \in Seq(S) /\ Len(Tab(p, z, f)) = f
    BY TabSeq, ZenonT(30)
  <2> QED BY <2>1, <2>2
<1>3. t2 \in Seq(S) /\ Len(t2) = n
  <2> DEFINE q == IF alg = "CCM" THEN Plain ELSE Sealed(sent)
  <2>1. q \in [Nat -> S]
    BY <1>1, ByteFunctions
  <2> HIDE DEF S
  <2>2. PICK z \in Nat : z = 0
    OBVIOUS
  <2>3. Tab(q, z, n) \in Seq(S) /\ Len(Tab(q, z, n)) = n
    <3> HIDE DEF q
    <3> QED BY <1>1, <2>1, TabSeq, ZenonT(30)
  <2>4. t2 = Tab(q, z, n)
    BY <2>2 DEF SentText
  <2> HIDE DEF q, t2
  <2> QED BY <2>3, <2>4
<1> HIDE DEF t1, t2
<1>4. tag.mac # <<>>
  <2>1. MacIs(Tagged(alg, nonce, wtag.len, g, t1).mac, alg, nonce, wtag.len, g, t1)
    BY <1>1, <1>2, MacShape
  <2>2. Tagged(alg, nonce, wtag.len, g, t1).mac # <<>>
    BY <2>1 DEF MacIs
  <2> QED BY <2>2 DEF t1
<1>5. tag = wtag
  <2>1. "mac" \in DOMAIN wtag
    <3>1. ASSUME NEW len PROVE "mac" \in DOMAIN Tagged(alg, sent, len, ad, t2)
      BY DEF Tagged, TagOf
    <3> QED BY <1>1, <3>1 DEF t2
  <2>2. OtherTag(wtag).mac = <<>>
    BY <2>1 DEF OtherTag
  <2> QED BY <1>4, <2>2
<1>6. Tagged(alg, nonce, wtag.len, g, t1).mac = Tagged(alg, sent, wtag.len, ad, t2).mac
  BY <1>1, <1>5 DEF t1, t2
<1>7. nonce = sent /\ g = ad /\ Len(t1) = Len(t2)
  <2> HIDE DEF S
  <2>1. t1 \in Seq(IF alg = "CCM" THEN Texts ELSE Coded)
    BY <1>2 DEF S
  <2>2. t2 \in Seq(IF alg = "CCM" THEN Texts ELSE Coded)
    BY <1>3 DEF S
  <2> QED BY <1>1, <1>6, <2>1, <2>2, TagTells
<1> QED BY <1>2, <1>3, <1>5, <1>7

LEMMA WireLength ==
    ASSUME NEW sent \in AnyNonce, NEW n \in Nat
    PROVE  Len(Tab(Sealed(sent), 0, n)) = n
<1>1. PICK z \in Nat : z = 0
  OBVIOUS
<1>2. Sealed(sent) \in [Nat -> Coded]
  BY ByteFunctions
<1>3. Len(Tab(Sealed(sent), z, n)) = n
  BY <1>2, TabSeq
<1> QED BY <1>1, <1>3

(* What a completed encryption sends. *)
LEMMA WireMade ==
    ASSUME NEW c, NEW sent \in AnyNonce, NEW g \in Nat, NEW f \in Nat, NEW o, NEW r, NEW room,
           CtxOK(c, sent, g, f, o), Sealing(r, c, sent, g, f, o, room), f =< MaxLen
    PROVE  WireIs(c.alg, c.nonce, g, f, o \o r.bytes, r.tag) /\ r.tag.len = c.tag_length
<1>0. /\ Completed(r, c, sent, g, f, o, room) /\ c.enc = TRUE
      /\ r.tag = GivenTag(c, sent, g, f)
  BY DEF Sealing
<1>1. c.alg \in Algs /\ c.nonce \in Nonces /\ c.tag_length \in TagLens
  BY <1>0 DEF CtxOK, Typed, Completed
<1>2. o \o r.bytes = Tab(Sealed(c.nonce), 0, f)
  BY <1>0 DEF Completed, OutOf
<1>3. Tab(CoveredOf(c, sent), 0, f) = SentText(c.alg, c.nonce, f)
  BY <1>0 DEF CoveredOf, SentText, TextOf, CodeOf
<1>4. r.tag = Tagged(c.alg, c.nonce, c.tag_length, g, SentText(c.alg, c.nonce, f))
  BY <1>0, <1>3 DEF GivenTag
<1>5. r.tag.len = c.tag_length
  <2>1. ASSUME NEW len, NEW text PROVE Tagged(c.alg, c.nonce, len, g, text).len = len
    BY DEF Tagged, TagOf
  <2> QED BY <1>4, <2>1
<1>6. f \in 0 .. MaxLen
  BY Bounds
<1> QED BY <1>1, <1>2, <1>4, <1>5, <1>6 DEF WireIs

(* What a completed decryption has opened. *)
LEMMA OpenedIs ==
    ASSUME NEW c, NEW alg, NEW sent, NEW ad, NEW n, NEW ct, NEW wtag,
           WireIs(alg, sent, ad, n, ct, wtag),
           NEW g \in Nat, NEW f \in Nat, NEW o, NEW r, NEW room,
           CtxOK(c, sent, g, f, o), c.alg = alg, c.tag_length = wtag.len,
           NEW tag \in {wtag, OtherTag(wtag)}, Opening(r, c, sent, g, f, o, room, tag)
    PROVE  /\ tag = wtag /\ c.nonce = sent /\ g = ad /\ f = n /\ Len(ct) = n
           /\ o \o r.bytes = Message(n)
<1>1. c.nonce \in AnyNonce /\ sent \in AnyNonce /\ Typed(c)
  BY DEF CtxOK, Typed, WireIs, AnyNonce
<1> DEFINE p == CoveredOf(c, sent)
<1>2. p \in [Nat -> IF alg = "CCM" THEN Texts ELSE Coded]
  <2>1. CASE alg = "CCM"
    <3>1. TextOf(c.enc, c.nonce, sent) \in [Nat -> Texts]
      BY <1>1, TextTyped
    <3> QED BY <2>1, <3>1 DEF CoveredOf
  <2>2. CASE alg # "CCM"
    <3>1. CodeOf(c.enc, c.nonce, sent) \in [Nat -> Coded]
      BY <1>1, TextTyped
    <3> QED BY <2>2, <3>1 DEF CoveredOf
  <2> QED BY <2>1, <2>2
<1>3. tag = Tagged(alg, c.nonce, wtag.len, g, Tab(p, 0, f))
  BY DEF GivenTag, Opening
<1> HIDE DEF p
<1>4. tag = wtag /\ c.nonce = sent /\ g = ad /\ f = n
  BY <1>1, <1>2, <1>3, Opens
<1>5. o \o r.bytes = Tab(Plain, 0, f)
  BY <1>4 DEF Opening, Completed, OutOf, TextOf
<1>6. o \o r.bytes = Message(n)
  BY <1>4, <1>5, MessageTab
<1>7. Len(ct) = n
  <2>1. ct = Tab(Sealed(sent), 0, n)
    BY DEF WireIs
  <2> QED BY <1>1, <1>4, <2>1, WireLength
<1> QED BY <1>4, <1>6, <1>7

(* The operation ends. *)
LEMMA ReturnEnds ==
    ASSUME IInv, NEW r, r.st = "SUCCESS", r.c = NoCtx, NEW room, Len(r.bytes) =< room,
           Return(r, TRUE, 0, 0, room), WireOK', Authentic'
    PROVE  IInv'
<1>1. ctx' = NoCtx /\ gaveAd' = 0 /\ given' = 0 /\ out' = <<>>
  BY DEF Return
<1>2. CallOK'
  <2>1. call' = [completed |-> TRUE, fits |-> Len(r.bytes) =< room]
    BY DEF Return
  <2>2. (Len(r.bytes) =< room) = TRUE /\ TRUE \in BOOLEAN
    OBVIOUS
  <2> QED BY <2>1, <2>2, CallReturns
<1>3. gaveAd' \in 0 .. MaxAd /\ given' \in 0 .. MaxLen
  BY <1>1, Bounds
<1> QED BY <1>1, <1>2, <1>3 DEF IInv, ActiveOK

LEMMA FinishStep ==
    ASSUME IInv, NEW room \in Nat, NEW tagRoom, Finish(room, tagRoom)
    PROVE  IInv'
<1>1. PICK r \in psa_aead_finish(ctx, room, tagRoom) :
          /\ Return(r, TRUE, 0, 0, room)
          /\ IF r.st = "SUCCESS"
             THEN /\ wire' = [alg |-> ctx.alg, nonce |-> ctx.nonce, ad |-> gaveAd,
                              n |-> given, ct |-> out \o r.bytes, tag |-> r.tag]
                  /\ opened' = Nothing
             ELSE Keep
  BY DEF Finish
<1>2. ctx # NoCtx
  BY DEF Finish
<1>3. /\ CtxOK(ctx, wire.nonce, gaveAd, given, out) /\ wire.nonce \in AnyNonce
      /\ gaveAd \in Nat /\ given \in Nat
  BY <1>2, ActiveFacts
<1>4. CASE Failing(r, ctx)
  <2>1. TRUE \in BOOLEAN
    OBVIOUS
  <2>2. Keep /\ Return(r, TRUE, 0, 0, room)
    BY <1>1, <1>4 DEF Failing
  <2> QED BY <1>4, <2>1, <2>2, ReturnFails
<1>5. CASE Sealing(r, ctx, wire.nonce, gaveAd, given, out, room)
  <2>1. r.st = "SUCCESS" /\ r.c = NoCtx /\ Len(r.bytes) =< room
    BY <1>5 DEF Sealing, Completed
  <2>2. given =< MaxLen
    BY Bounds DEF IInv
  <2>3. WireIs(ctx.alg, ctx.nonce, gaveAd, given, out \o r.bytes, r.tag)
    BY <1>3, <1>5, <2>2, WireMade
  <2>4. /\ wire' = [alg |-> ctx.alg, nonce |-> ctx.nonce, ad |-> gaveAd,
                    n |-> given, ct |-> out \o r.bytes, tag |-> r.tag]
        /\ opened' = Nothing
    BY <1>1, <2>1
  <2>5. /\ wire'.alg = ctx.alg /\ wire'.nonce = ctx.nonce /\ wire'.ad = gaveAd
        /\ wire'.n = given /\ wire'.ct = out \o r.bytes /\ wire'.tag = r.tag
    BY <2>4
  <2>6. WireOK'
    <3>1. WireIs(wire'.alg, wire'.nonce, wire'.ad, wire'.n, wire'.ct, wire'.tag)
      BY <2>3, <2>5
    <3> QED BY <3>1 DEF WireOK, WireIs
  <2>7. Authentic'
    BY <2>4 DEF Authentic
  <2> QED BY <1>1, <2>1, <2>6, <2>7, ReturnEnds
<1>6. \/ Failing(r, ctx)
      \/ Sealing(r, ctx, wire.nonce, gaveAd, given, out, room)
  <2>1. r \in psa_aead_finish(ctx, room, tagRoom)
    OBVIOUS
  <2> QED BY <1>3, <2>1, FinishOK
<1> QED BY <1>4, <1>5, <1>6

LEMMA VerifyStep ==
    ASSUME IInv, NEW room \in Nat, NEW tag \in Tags, Verify(room, tag)
    PROVE  IInv'
<1>1. PICK r \in psa_aead_verify(ctx, room, tag) :
          /\ Return(r, TRUE, 0, 0, room)
          /\ opened' = IF r.st = "SUCCESS"
                       THEN [nonce |-> ctx.nonce, ad |-> gaveAd, n |-> given, tag |-> tag,
                             plain |-> out \o r.bytes]
                       ELSE opened
  BY DEF Verify
<1>2. ctx # NoCtx /\ wire # NoWire /\ wire' = wire
  BY DEF Verify
<1>3. /\ CtxOK(ctx, wire.nonce, gaveAd, given, out) /\ Decrypting(wire, ctx, given)
      /\ wire.nonce \in AnyNonce /\ gaveAd \in Nat /\ given \in Nat
  BY <1>2, ActiveFacts
<1>4. CASE Failing(r, ctx)
  <2>1. TRUE \in BOOLEAN
    OBVIOUS
  <2>2. Keep /\ Return(r, TRUE, 0, 0, room)
    BY <1>1, <1>2, <1>4 DEF Failing, Keep
  <2> QED BY <1>4, <2>1, <2>2, ReturnFails
<1>5. CASE Opening(r, ctx, wire.nonce, gaveAd, given, out, room, tag)
  <2>1. r.st = "SUCCESS" /\ r.c = NoCtx /\ Len(r.bytes) =< room
    BY <1>5 DEF Opening, Completed
  <2>2. WireIs(wire.alg, wire.nonce, wire.ad, wire.n, wire.ct, wire.tag)
    BY <1>2 DEF IInv, WireOK
  <2>3. ctx.alg = wire.alg /\ ctx.tag_length = wire.tag.len
    BY <1>3, <1>5 DEF Decrypting, Opening
  <2>4. tag \in {wire.tag, OtherTag(wire.tag)}
    BY <1>2 DEF Tags
  <2>5. /\ tag = wire.tag /\ ctx.nonce = wire.nonce /\ gaveAd = wire.ad /\ given = wire.n
        /\ Len(wire.ct) = wire.n /\ out \o r.bytes = Message(wire.n)
    BY <1>3, <1>5, <2>2, <2>3, <2>4, OpenedIs
  <2>6. opened' = [nonce |-> ctx.nonce, ad |-> gaveAd, n |-> given, tag |-> tag,
                   plain |-> out \o r.bytes]
    BY <1>1, <2>1
  <2>7. /\ opened'.nonce = ctx.nonce /\ opened'.ad = gaveAd /\ opened'.n = given
        /\ opened'.tag = tag /\ opened'.plain = out \o r.bytes
    BY <2>6
  <2>8. Authentic'
    BY <1>2, <2>5, <2>7 DEF Authentic, Message, Bytes
  <2>9. WireOK'
    BY <1>2 DEF IInv, WireOK, WireIs
  <2> QED BY <1>1, <2>1, <2>8, <2>9, ReturnEnds
<1>6. \/ Failing(r, ctx)
      \/ Opening(r, ctx, wire.nonce, gaveAd, given, out, room, tag)
  <2>1. r \in psa_aead_verify(ctx, room, tag)
    OBVIOUS
  <2> QED BY <1>3, <2>1, VerifyOK
<1> QED BY <1>4, <1>5, <1>6

-----------------------------------------------------------------------------
(* The one-shot functions. *)

(* A context that holds all of a message. *)
Loaded(c, alg, tag, enc, nonce, sent, ad, n) ==
    /\ CtxOK(c, sent, ad, n, <<>>) /\ c.alg = alg /\ c.enc = enc /\ c.tag_length = tag
    /\ c.nonce = nonce /\ c.streaming = FALSE

Broken(r) == r.st # "SUCCESS" /\ r.bytes = <<>>

LEMMA SetupLoads ==
    ASSUME NEW key, NEW alg \in Algs, NEW tag \in TagLens, NEW enc \in BOOLEAN, NEW sent,
           NEW r \in wolfpsa_aead_setup(NoCtx, key, alg, tag, enc)
    PROVE  \/ Broken(r)
           \/ r.st = "SUCCESS" /\ Loaded(r.c, alg, tag, enc, NoNonce, sent, 0, 0)
<1>1. CASE Failing(r, NoCtx)
  BY <1>1 DEF Failing, Broken
<1>2. CASE /\ r = Done(NewCtx(alg, tag, enc)) /\ alg \in StreamAlgs
           /\ CtxOK(r.c, sent, 0, 0, <<>>)
  <2>1. r.st = "SUCCESS" /\ r.c = NewCtx(alg, tag, enc)
    BY <1>2, Results
  <2>2. /\ r.c.alg = alg /\ r.c.enc = enc /\ r.c.tag_length = tag
        /\ r.c.nonce = NoNonce /\ r.c.streaming = FALSE
    BY <2>1 DEF NewCtx
  <2> QED BY <1>2, <2>1, <2>2 DEF Loaded
<1> QED BY <1>1, <1>2, SetupOK, ZenonT(30)

LEMMA LengthsLoad ==
    ASSUME NEW c, NEW alg, NEW tag, NEW enc, NEW sent,
           Loaded(c, alg, tag, enc, NoNonce, sent, 0, 0),
           NEW ad \in Nat, NEW n \in Nat, NEW r \in psa_aead_set_lengths(c, ad, n)
    PROVE  \/ Broken(r)
           \/ r.st = "SUCCESS" /\ Loaded(r.c, alg, tag, enc, NoNonce, sent, 0, 0)
<1>1. CtxOK(c, sent, 0, 0, <<>>)
  BY DEF Loaded
<1>z. PICK z : z = 0
  OBVIOUS
<1>e. PICK e : e = <<>>
  OBVIOUS
<1>2. \/ Failing(r, c)
      \/ /\ r.st = "SUCCESS" /\ CtxOK(r.c, sent, z, z, e) /\ Kept(c, r.c)
         /\ r.c.nonce = c.nonce /\ r.c.streaming = c.streaming
  <2>1. CtxOK(c, sent, z, z, e)
    BY <1>1, <1>z, <1>e
  <2> QED BY <2>1, SetLengthsOK
<1> QED BY <1>2, <1>z, <1>e DEF Failing, Broken, Loaded, Kept

LEMMA NonceLoads ==
    ASSUME NEW c, NEW alg, NEW tag, NEW enc, NEW sent,
           Loaded(c, alg, tag, enc, NoNonce, sent, 0, 0),
           NEW nonce \in Nonces, NEW lenOk, NEW r \in psa_aead_set_nonce(c, nonce, lenOk)
    PROVE  \/ Broken(r)
           \/ r.st = "SUCCESS" /\ Loaded(r.c, alg, tag, enc, nonce, sent, 0, 0)
<1>1. CtxOK(c, sent, 0, 0, <<>>)
  BY DEF Loaded
<1>z. PICK z : z = 0
  OBVIOUS
<1>e. PICK e : e = <<>>
  OBVIOUS
<1>2. \/ Failing(r, c)
      \/ /\ r.st = "SUCCESS" /\ CtxOK(r.c, sent, z, z, e) /\ Kept(c, r.c)
         /\ r.c.nonce = nonce /\ r.c.streaming = c.streaming
  <2>1. CtxOK(c, sent, z, z, e)
    BY <1>1, <1>z, <1>e
  <2> QED BY <2>1, SetNonceOK
<1> QED BY <1>2, <1>z, <1>e DEF Failing, Broken, Loaded, Kept

LEMMA AdLoads ==
    ASSUME NEW c, NEW alg, NEW tag, NEW enc, NEW nonce, NEW sent,
           Loaded(c, alg, tag, enc, nonce, sent, 0, 0),
           NEW ad \in Nat, NEW r \in psa_aead_update_ad(c, Message(ad))
    PROVE  \/ Broken(r)
           \/ r.st = "SUCCESS" /\ Loaded(r.c, alg, tag, enc, nonce, sent, ad, 0)
<1>1. CtxOK(c, sent, 0, 0, <<>>)
  BY DEF Loaded
<1>z. PICK z \in Nat : z = 0
  OBVIOUS
<1>e. PICK e : e = <<>>
  OBVIOUS
<1>2. \/ Failing(r, c)
      \/ /\ r.st = "SUCCESS" /\ CtxOK(r.c, sent, z + ad, z, e) /\ Kept(c, r.c)
         /\ r.c.nonce = c.nonce /\ r.c.streaming = c.streaming
  <2>1. CtxOK(c, sent, z, z, e)
    BY <1>1, <1>z, <1>e
  <2>2. r \in psa_aead_update_ad(c, Bytes(z, ad))
    BY <1>z DEF Message
  <2> QED BY <2>1, <2>2, UpdateAdOK
<1>3. z + ad = ad
  BY <1>z
<1> QED BY <1>2, <1>3, <1>z, <1>e DEF Failing, Broken, Loaded, Kept

LEMMA DataLoads ==
    ASSUME NEW c, NEW alg, NEW tag, NEW enc, NEW nonce, NEW sent \in AnyNonce, NEW ad \in Nat,
           Loaded(c, alg, tag, enc, nonce, sent, ad, 0), NEW n \in Nat,
           NEW r \in psa_aead_update(c, Tab(InOf(enc, sent), 0, n), TRUE, 0)
    PROVE  \/ Broken(r)
           \/ r.st = "SUCCESS" /\ Loaded(r.c, alg, tag, enc, nonce, sent, ad, n)
<1>1. CtxOK(c, sent, ad, 0, <<>>) /\ c.enc = enc
  BY DEF Loaded
<1>z. PICK z \in Nat : z = 0
  OBVIOUS
<1>e. PICK e : e = <<>>
  OBVIOUS
<1>t. PICK t \in BOOLEAN : t = TRUE
  OBVIOUS
<1>2. Failing(r, c) \/ Advanced(r, c, sent, ad, z + n, e, t, z)
  <2>1. CtxOK(c, sent, ad, z, e)
    BY <1>1, <1>z, <1>e
  <2>2. r \in psa_aead_update(c, Tab(InOf(c.enc, sent), z, n), t, z)
    BY <1>1, <1>z, <1>t
  <2> QED BY <2>1, <2>2, UpdateOK
<1>3. CASE Failing(r, c)
  BY <1>3 DEF Failing, Broken
<1>4. CASE Advanced(r, c, sent, ad, z + n, e, t, z)
  <2>1. /\ r.st = "SUCCESS" /\ CtxOK(r.c, sent, ad, z + n, e \o r.bytes) /\ Kept(c, r.c)
        /\ r.c.nonce = c.nonce /\ r.bytes = <<>> /\ r.c.streaming = c.streaming
    BY <1>4, <1>t DEF Advanced
  <2>2. z + n = n /\ e \o r.bytes = <<>>
    <3>1. <<>> \o <<>> = <<>>
      OBVIOUS
    <3> QED BY <3>1, <1>z, <1>e, <2>1
  <2> QED BY <2>1, <2>2 DEF Loaded, Kept
<1> QED BY <1>2, <1>3, <1>4

LEMMA BufferAllOK ==
    ASSUME NEW key, NEW alg \in Algs, NEW tag \in TagLens, NEW enc \in BOOLEAN,
           NEW nonce \in Nonces, NEW lenOk, NEW sent \in AnyNonce, NEW ad \in Nat,
             NEW n \in Nat,
           NEW data, data = Tab(InOf(enc, sent), 0, n), Len(data) = n,
           NEW r \in BufferAll(key, alg, tag, enc, nonce, lenOk, ad, data)
    PROVE  Broken(r) \/ (r.st = "SUCCESS" /\ Loaded(r.c, alg, tag, enc, nonce, sent, ad, n))
<1> DEFINE s0 == wolfpsa_aead_setup(NoCtx, key, alg, tag, enc)
           s1 == UNION {IF q.st = "SUCCESS"
                        THEN (IF alg # "CCM" THEN {q}
                              ELSE psa_aead_set_lengths(q.c, ad, Len(data)))
                        ELSE {q} : q \in s0}
           s2 == UNION {IF q.st = "SUCCESS" THEN psa_aead_set_nonce(q.c, nonce, lenOk)
                        ELSE {q} : q \in s1}
           s3 == UNION {IF q.st = "SUCCESS" THEN psa_aead_update_ad(q.c, Message(ad))
                        ELSE {q} : q \in s2}
           s4 == UNION {IF q.st = "SUCCESS" THEN psa_aead_update(q.c, data, TRUE, 0)
                        ELSE {q} : q \in s3}
<1>0. BufferAll(key, alg, tag, enc, nonce, lenOk, ad, data) = s4
  BY DEF BufferAll, Then
<1>1. ASSUME NEW q \in s1
      PROVE  Broken(q) \/ (q.st = "SUCCESS" /\ Loaded(q.c, alg, tag, enc, NoNonce, sent, 0, 0))
  <2> HIDE DEF s0
  <2>1. PICK p \in s0 :
           q \in (IF p.st = "SUCCESS"
                  THEN (IF alg # "CCM" THEN {p} ELSE psa_aead_set_lengths(p.c, ad, Len(data)))
                  ELSE {p})
    OBVIOUS
  <2>2. Broken(p) \/ (p.st = "SUCCESS" /\ Loaded(p.c, alg, tag, enc, NoNonce, sent, 0, 0))
    BY SetupLoads DEF s0
  <2>3. q = p \/ (p.st = "SUCCESS" /\ q \in psa_aead_set_lengths(p.c, ad, n))
    BY <2>1
  <2>4. CASE q = p
    BY <2>2, <2>4
  <2>5. CASE p.st = "SUCCESS" /\ q \in psa_aead_set_lengths(p.c, ad, n)
    <3>1. Loaded(p.c, alg, tag, enc, NoNonce, sent, 0, 0)
      BY <2>2, <2>5 DEF Broken
    <3> QED BY <2>5, <3>1, LengthsLoad
  <2> QED BY <2>3, <2>4, <2>5
<1> HIDE DEF s1
<1>2. ASSUME NEW q \in s2
      PROVE  Broken(q) \/ (q.st = "SUCCESS" /\ Loaded(q.c, alg, tag, enc, nonce, sent, 0, 0))
  <2>1. PICK p \in s1 : q \in (IF p.st = "SUCCESS" THEN psa_aead_set_nonce(p.c, nonce, lenOk)
                               ELSE {p})
    OBVIOUS
  <2>2. Broken(p) \/ (p.st = "SUCCESS" /\ Loaded(p.c, alg, tag, enc, NoNonce, sent, 0, 0))
    BY <1>1
  <2>3. CASE p.st # "SUCCESS"
    BY <2>1, <2>2, <2>3
  <2>4. CASE p.st = "SUCCESS"
    <3>1. Loaded(p.c, alg, tag, enc, NoNonce, sent, 0, 0)
      BY <2>2, <2>4 DEF Broken
    <3>2. q \in psa_aead_set_nonce(p.c, nonce, lenOk)
      BY <2>1, <2>4
    <3> QED BY <3>1, <3>2, NonceLoads
  <2> QED BY <2>3, <2>4
<1> HIDE DEF s2
<1>3. ASSUME NEW q \in s3
      PROVE  Broken(q) \/ (q.st = "SUCCESS" /\ Loaded(q.c, alg, tag, enc, nonce, sent, ad, 0))
  <2>1. PICK p \in s2 : q \in (IF p.st = "SUCCESS" THEN psa_aead_update_ad(p.c, Message(ad))
                               ELSE {p})
    OBVIOUS
  <2>2. Broken(p) \/ (p.st = "SUCCESS" /\ Loaded(p.c, alg, tag, enc, nonce, sent, 0, 0))
    BY <1>2
  <2>3. CASE p.st # "SUCCESS"
    BY <2>1, <2>2, <2>3
  <2>4. CASE p.st = "SUCCESS"
    <3>1. Loaded(p.c, alg, tag, enc, nonce, sent, 0, 0)
      BY <2>2, <2>4 DEF Broken
    <3>2. q \in psa_aead_update_ad(p.c, Message(ad))
      BY <2>1, <2>4
    <3> QED BY <3>1, <3>2, AdLoads
  <2> QED BY <2>3, <2>4
<1> HIDE DEF s3
<1>4. r \in s4
  BY <1>0
<1>5. PICK p \in s3 : r \in (IF p.st = "SUCCESS" THEN psa_aead_update(p.c, data, TRUE, 0)
                             ELSE {p})
  BY <1>4
<1>6. Broken(p) \/ (p.st = "SUCCESS" /\ Loaded(p.c, alg, tag, enc, nonce, sent, ad, 0))
  BY <1>3
<1>7. CASE p.st # "SUCCESS"
  BY <1>5, <1>6, <1>7
<1>8. CASE p.st = "SUCCESS"
  <2>1. Loaded(p.c, alg, tag, enc, nonce, sent, ad, 0)
    BY <1>6, <1>8 DEF Broken
  <2>2. r \in psa_aead_update(p.c, Tab(InOf(enc, sent), 0, n), TRUE, 0)
    BY <1>5, <1>8
  <2> QED BY <2>1, <2>2, DataLoads
<1> QED BY <1>7, <1>8

(* A one-shot call that succeeds had room, and gives what wolfCrypt gave. *)
LEMMA OneShotOnlyIs ==
    ASSUME NEW key, NEW alg, NEW tag, NEW enc, NEW lenOk, NEW lengths, NEW room \in Nat,
           NEW needed \in Nat, NEW ok,
           NEW r \in OneShotOnly(key, alg, tag, enc, lenOk, lengths, room, needed, ok)
    PROVE  Broken(r) \/ (r = ok /\ tag = FullTag /\ needed =< room)
<1>1. \/ \E st : st # "SUCCESS" /\ r = Refused(st, NoCtx)
      \/ tag = FullTag /\ ~(room < needed) /\ r = ok
  BY DEF OneShotOnly
<1>2. CASE \E st : st # "SUCCESS" /\ r = Refused(st, NoCtx)
  BY <1>2 DEF Broken, Refused, Result
<1> QED BY <1>1, <1>2

(* The context of such a call. *)
LEMMA OneShotCtx ==
    ASSUME NEW alg, NEW tag, NEW enc \in BOOLEAN, NEW nonce \in Nonces
    PROVE  LET c == [NewCtx(alg, tag, enc) EXCEPT !.nonce = nonce]
           IN  /\ c.alg = alg /\ c.tag_length = tag /\ c.enc = enc /\ c.nonce = nonce
               /\ c.nonce \in AnyNonce /\ c.enc \in BOOLEAN
BY DEF NewCtx, AnyNonce

LEMMA OneShotSeals ==
    ASSUME NEW key, NEW alg \in Algs, alg \in OneShotAlgs, NEW tag \in TagLens,
           NEW nonce \in Nonces, NEW lenOk, NEW ad \in Nat, NEW n \in 0 .. MaxLen,
             NEW room \in Nat,
           NEW r \in wolfpsa_oneshot_encrypt(key, alg, tag, nonce, lenOk, ad, Message(n), room),
           r.st = "SUCCESS"
    PROVE  /\ WireIs(alg, nonce, ad, n, r.bytes, r.tag) /\ r.tag.len = tag
           /\ Len(r.bytes) + tag =< room
<1>n. n \in Nat
  BY Bounds
<1> DEFINE c == [NewCtx(alg, tag, TRUE) EXCEPT !.nonce = nonce]
           bytes == CryptAll(c, Message(n))
           t == TagOf(c, Message(ad), bytes)
           ok == Result("SUCCESS", NoCtx, bytes, t)
<1>1. /\ c.alg = alg /\ c.tag_length = tag /\ c.enc = TRUE /\ c.nonce = nonce
      /\ c.nonce \in AnyNonce /\ c.enc \in BOOLEAN
  <2>1. TRUE \in BOOLEAN
    OBVIOUS
  <2> QED BY <2>1, OneShotCtx
<1>2. r \in OneShotOnly(key, alg, tag, TRUE, lenOk, {ad, Len(Message(n))}, room,
                        Len(Message(n)) + FullTag, ok)
  BY DEF wolfpsa_oneshot_encrypt
<1>3. Len(Message(n)) = n /\ Message(n) = Tab(Plain, 0, n)
  BY <1>n, MessageTab
<1> HIDE DEF c
<1>4. bytes = Tab(Sealed(nonce), 0, n)
  <2>1. CryptAll(c, Tab(InOf(c.enc, c.nonce), 0, n)) = Tab(OutOf(c.enc, c.nonce, c.nonce), 0, n)
    BY <1>1, <1>n, WholeText
  <2> QED BY <1>1, <1>3, <2>1 DEF InOf, OutOf
<1>5. t = Tagged(alg, nonce, tag, ad, Tab(Sealed(nonce), 0, n))
  <2>1. TagOf(c, Message(ad), bytes) = Tagged(c.alg, c.nonce, c.tag_length, ad, bytes)
    BY TagOfIs
  <2> QED BY <1>1, <1>4, <2>1
<1>6. ok.bytes = bytes /\ ok.tag = t
  BY DEF Result
<1> HIDE DEF bytes, t, ok
<1>7. r = ok /\ tag = FullTag /\ n + FullTag =< room
  <2>1. PICK needed \in Nat : needed = n + FullTag
    BY <1>n, Bounds
  <2>2. PICK e \in BOOLEAN : e = TRUE
    OBVIOUS
  <2>3. PICK lengths : lengths = {ad, Len(Message(n))}
    OBVIOUS
  <2>4. r \in OneShotOnly(key, alg, tag, e, lenOk, lengths, room, needed, ok)
    BY <1>2, <1>3, <2>1, <2>2, <2>3
  <2>5. Broken(r) \/ (r = ok /\ tag = FullTag /\ needed =< room)
    BY <2>4, OneShotOnlyIs
  <2> QED BY <2>1, <2>5 DEF Broken
<1>8. Len(r.bytes) = n
  <2>1. nonce \in AnyNonce
    BY DEF AnyNonce
  <2> QED BY <1>4, <1>6, <1>7, <1>n, <2>1, WireLength
<1>9. r.tag.len = tag
  <2>1. ASSUME NEW text PROVE Tagged(alg, nonce, tag, ad, text).len = tag
    BY DEF Tagged, TagOf
  <2> QED BY <1>5, <1>6, <1>7, <2>1
<1>10. alg # "CCM"
  BY DEF OneShotAlgs
<1>11. WireIs(alg, nonce, ad, n, r.bytes, r.tag)
  BY <1>4, <1>5, <1>6, <1>7, <1>9, <1>10 DEF WireIs, SentText
<1> QED BY <1>7, <1>8, <1>9, <1>11, <1>n, Bounds

LEMMA EncryptOK ==
    ASSUME NEW key, NEW alg \in Algs, NEW tag \in TagLens, NEW nonce \in Nonces, NEW lenOk,
           NEW ad \in Nat, NEW n \in 0 .. MaxLen, NEW room \in Nat,
           NEW r \in psa_aead_encrypt(key, alg, tag, nonce, lenOk, ad, Message(n), room),
           r.st = "SUCCESS"
    PROVE  /\ WireIs(alg, nonce, ad, n, r.bytes, r.tag) /\ r.tag.len = tag
           /\ Len(r.bytes) + tag =< room
<1>n. n \in Nat /\ Len(Message(n)) = n /\ Message(n) = Tab(Plain, 0, n)
  BY Bounds, MessageTab
<1>1. CASE alg \in OneShotAlgs
  <2>1. r \in wolfpsa_oneshot_encrypt(key, alg, tag, nonce, lenOk, ad, Message(n), room)
    BY <1>1 DEF psa_aead_encrypt
  <2> QED BY <1>1, <2>1, OneShotSeals
<1>2. CASE alg \notin OneShotAlgs
  <2> DEFINE B == BufferAll(key, alg, tag, TRUE, nonce, lenOk, ad, Message(n))
  <2>1. r \in UNION {IF q.st = "SUCCESS"
                     THEN (IF room < Len(Message(n)) + tag THEN {Aborted("BUFFER_TOO_SMALL")}
                           ELSE psa_aead_finish(q.c, room, FullTag))
                     ELSE {q} : q \in B}
    BY <1>2 DEF psa_aead_encrypt, Then
  <2> HIDE DEF B
  <2>2. PICK q \in B : r \in (IF q.st = "SUCCESS"
                     THEN (IF room < Len(Message(n)) + tag THEN {Aborted("BUFFER_TOO_SMALL")}
                           ELSE psa_aead_finish(q.c, room, FullTag))
                     ELSE {q})
    BY <2>1
  <2>3. Broken(q) \/ (q.st = "SUCCESS" /\ Loaded(q.c, alg, tag, TRUE, nonce, nonce, ad, n))
    <3>1. PICK e \in BOOLEAN : e = TRUE
      OBVIOUS
    <3>2. PICK data : data = Message(n)
      OBVIOUS
    <3>3. data = Tab(InOf(e, nonce), 0, n) /\ Len(data) = n
      BY <1>n, <3>1, <3>2 DEF InOf
    <3>4. q \in BufferAll(key, alg, tag, e, nonce, lenOk, ad, data)
      BY <3>1, <3>2 DEF B
    <3>5. nonce \in AnyNonce
      BY DEF AnyNonce
    <3>6. Broken(q) \/ (q.st = "SUCCESS" /\ Loaded(q.c, alg, tag, e, nonce, nonce, ad, n))
      BY <1>n, <3>3, <3>4, <3>5, BufferAllOK
    <3> QED BY <3>1, <3>6
  <2>4. q.st = "SUCCESS"
    BY <2>2
  <2>5. /\ CtxOK(q.c, nonce, ad, n, <<>>) /\ q.c.alg = alg /\ q.c.enc = TRUE
        /\ q.c.tag_length = tag /\ q.c.nonce = nonce
    BY <2>3, <2>4 DEF Broken, Loaded
  <2>6. ~(room < n + tag) /\ r \in psa_aead_finish(q.c, room, FullTag)
    <3>1. Aborted("BUFFER_TOO_SMALL").st # "SUCCESS"
      BY DEF Aborted, Result
    <3> QED BY <1>n, <2>2, <2>4, <3>1
  <2>e. PICK o : o = <<>>
    OBVIOUS
  <2>7. Sealing(r, q.c, nonce, ad, n, o, room)
    <3>1. nonce \in AnyNonce /\ CtxOK(q.c, nonce, ad, n, o)
      BY <2>5, <2>e DEF AnyNonce
    <3>2. Failing(r, q.c) \/ Sealing(r, q.c, nonce, ad, n, o, room)
      BY <1>n, <2>6, <3>1, FinishOK
    <3> QED BY <3>2 DEF Failing
  <2>8. WireIs(q.c.alg, q.c.nonce, ad, n, o \o r.bytes, r.tag) /\ r.tag.len = q.c.tag_length
    <3>1. nonce \in AnyNonce /\ CtxOK(q.c, nonce, ad, n, o) /\ n =< MaxLen
      BY <2>5, <2>e, Bounds DEF AnyNonce
    <3> QED BY <1>n, <2>7, <3>1, WireMade
  <2>9. o \o r.bytes = r.bytes /\ Len(r.bytes) = n
    <3>1. o \o r.bytes = Tab(Sealed(nonce), 0, n)
      BY <2>5, <2>8 DEF WireIs
    <3>2. nonce \in AnyNonce
      BY DEF AnyNonce
    <3>3. Len(Tab(Sealed(nonce), 0, n)) = n
      BY <1>n, <3>2, WireLength
    <3>4. r.bytes \in Seq(Texts \union Coded)
      BY <2>7 DEF Sealing, Completed
    <3>5. o \o r.bytes = r.bytes
      BY <2>e, <3>4
    <3> QED BY <3>1, <3>3, <3>5
  <2>10. tag \in Nat
    BY SizesAssumption
  <2>11. Len(r.bytes) + tag =< room
    BY <1>n, <2>6, <2>9, <2>10
  <2> QED BY <2>5, <2>8, <2>9, <2>11
<1> QED BY <1>1, <1>2

(* A decryption that accepts has found the message of the encryption. *)
Recovered(r, sent, wad, wn, ct, wtag, nonce, ad, n, tag, room) ==
    /\ r.st = "SUCCESS" /\ tag = wtag /\ nonce = sent /\ ad = wad /\ n = wn /\ Len(ct) = wn
    /\ r.bytes = Message(wn) /\ Len(r.bytes) =< room

LEMMA OneShotOpens ==
    ASSUME NEW key, NEW alg \in OneShotAlgs, NEW sent, NEW wad, NEW wn, NEW ct, NEW wtag,
           WireIs(alg, sent, wad, wn, ct, wtag),
           NEW nonce \in Nonces, NEW lenOk, NEW ad \in Nat, NEW n \in Nat, NEW room \in Nat,
           NEW data, data = Tab(Sealed(sent), 0, n), NEW tag \in {wtag, OtherTag(wtag)},
           NEW r \in wolfpsa_oneshot_decrypt(key, alg, wtag.len, nonce, lenOk, ad, data, tag, room)
    PROVE  Broken(r) \/ Recovered(r, sent, wad, wn, ct, wtag, nonce, ad, n, tag, room)
<1> DEFINE c == [NewCtx(alg, wtag.len, FALSE) EXCEPT !.nonce = nonce]
           t == TagOf(c, Message(ad), data)
           ok == Result("SUCCESS", NoCtx, CryptAll(c, data), NoTag)
           no == Refused("INVALID_SIGNATURE", NoCtx)
<1>0. sent \in AnyNonce /\ nonce \in AnyNonce /\ alg # "CCM" /\ ct = Tab(Sealed(sent), 0, wn)
  BY DEF WireIs, AnyNonce, OneShotAlgs
<1>1. /\ c.alg = alg /\ c.tag_length = wtag.len /\ c.enc = FALSE /\ c.nonce = nonce
      /\ c.nonce \in AnyNonce /\ c.enc \in BOOLEAN
  <2>1. FALSE \in BOOLEAN
    OBVIOUS
  <2> QED BY <2>1, OneShotCtx
<1>2. r \in OneShotOnly(key, alg, wtag.len, FALSE, lenOk, {ad, Len(data)}, room, Len(data),
                        IF t = tag THEN ok ELSE no)
  BY DEF wolfpsa_oneshot_decrypt
<1>3. Len(data) = n
  BY <1>0, WireLength
<1> HIDE DEF c
<1>4. t = Tagged(alg, nonce, wtag.len, ad, data)
  <2>1. TagOf(c, Message(ad), data) = Tagged(c.alg, c.nonce, c.tag_length, ad, data)
    BY TagOfIs
  <2> QED BY <1>1, <2>1
<1>5. CryptAll(c, data) = Tab(OutOf(FALSE, nonce, sent), 0, n)
  <2>1. CryptAll(c, Tab(InOf(c.enc, sent), 0, n)) = Tab(OutOf(c.enc, c.nonce, sent), 0, n)
    BY <1>0, <1>1, WholeText
  <2> QED BY <1>1, <2>1 DEF InOf
<1>6. ok.st = "SUCCESS" /\ ok.bytes = CryptAll(c, data) /\ Broken(no)
  BY DEF Result, Refused, Broken
<1> HIDE DEF t, ok, no
<1>7. Broken(r) \/ (r = ok /\ t = tag /\ n =< room)
  <2>1. PICK e \in BOOLEAN : e = FALSE
    OBVIOUS
  <2>2. PICK lengths : lengths = {ad, Len(data)}
    OBVIOUS
  <2>3. PICK out1 : out1 = (IF t = tag THEN ok ELSE no)
    OBVIOUS
  <2>4. PICK len : len = wtag.len
    OBVIOUS
  <2>5. r \in OneShotOnly(key, alg, len, e, lenOk, lengths, room, n, out1)
    BY <1>2, <1>3, <2>1, <2>2, <2>3, <2>4
  <2>6. Broken(r) \/ (r = out1 /\ len = FullTag /\ n =< room)
    BY <2>5, OneShotOnlyIs
  <2> QED BY <1>6, <2>3, <2>6
<1>8. ASSUME r = ok, t = tag, n =< room
      PROVE  Recovered(r, sent, wad, wn, ct, wtag, nonce, ad, n, tag, room)
  <2> DEFINE p == Sealed(sent)
  <2>1. p \in [Nat -> IF alg = "CCM" THEN Texts ELSE Coded]
    BY <1>0, ByteFunctions
  <2>2. tag = Tagged(alg, nonce, wtag.len, ad, Tab(p, 0, n))
    BY <1>4, <1>8
  <2> HIDE DEF p
  <2>3. tag = wtag /\ nonce = sent /\ ad = wad /\ n = wn
    BY <1>0, <2>1, <2>2, Opens
  <2>4. r.bytes = Tab(Plain, 0, n)
    BY <1>5, <1>6, <1>8, <2>3 DEF OutOf, TextOf
  <2>5. r.bytes = Message(n) /\ Len(r.bytes) = n
    BY <2>4, MessageTab
  <2>6. Len(ct) = wn
    BY <1>0, <2>3, WireLength
  <2> QED BY <1>6, <1>8, <2>3, <2>5, <2>6 DEF Recovered
<1> QED BY <1>7, <1>8

LEMMA DecryptOK ==
    ASSUME NEW key, NEW alg, NEW sent, NEW wad, NEW wn, NEW ct, NEW wtag,
           WireIs(alg, sent, wad, wn, ct, wtag),
           NEW nonce \in Nonces, NEW lenOk, NEW ad \in Nat, NEW n \in Nat, NEW whole,
           NEW room \in Nat,
           NEW data, data = Tab(Sealed(sent), 0, n), NEW tag \in {wtag, OtherTag(wtag)},
           NEW r \in psa_aead_decrypt(key, alg, wtag.len, nonce, lenOk, ad, data, tag, whole, room)
    PROVE  Broken(r) \/ Recovered(r, sent, wad, wn, ct, wtag, nonce, ad, n, tag, room)
<1>0. alg \in Algs /\ sent \in AnyNonce /\ wtag.len \in TagLens
  BY DEF WireIs, AnyNonce
<1>d. Len(data) = n
  BY <1>0, WireLength
<1>1. CASE ~whole
  <2>1. r = Refused("INVALID_ARGUMENT", NoCtx)
    BY <1>1 DEF psa_aead_decrypt
  <2> QED BY <2>1 DEF Broken, Refused, Result
<1>2. CASE whole /\ alg \in OneShotAlgs
  <2>1. r \in wolfpsa_oneshot_decrypt(key, alg, wtag.len, nonce, lenOk, ad, data, tag, room)
    BY <1>2 DEF psa_aead_decrypt
  <2> QED BY <1>2, <2>1, OneShotOpens
<1>3. CASE whole /\ alg \notin OneShotAlgs
  <2> DEFINE B == BufferAll(key, alg, wtag.len, FALSE, nonce, lenOk, ad, data)
  <2>1. r \in UNION {IF q.st = "SUCCESS" THEN psa_aead_verify(q.c, room, tag) ELSE {q} : q \in B}
    BY <1>3 DEF psa_aead_decrypt, Then
  <2> HIDE DEF B
  <2>2. PICK q \in B : r \in (IF q.st = "SUCCESS" THEN psa_aead_verify(q.c, room, tag) ELSE {q})
    BY <2>1
  <2>3. \/ Broken(q)
        \/ q.st = "SUCCESS" /\ Loaded(q.c, alg, wtag.len, FALSE, nonce, sent, ad, n)
    <3>1. PICK e \in BOOLEAN : e = FALSE
      OBVIOUS
    <3>2. data = Tab(InOf(e, sent), 0, n) /\ Len(data) = n
      BY <1>d, <3>1 DEF InOf
    <3>3. PICK len \in TagLens : len = wtag.len
      BY <1>0
    <3>4. q \in BufferAll(key, alg, len, e, nonce, lenOk, ad, data)
      BY <3>1, <3>3 DEF B
    <3>5. Broken(q) \/ (q.st = "SUCCESS" /\ Loaded(q.c, alg, len, e, nonce, sent, ad, n))
      BY <1>0, <3>2, <3>4, BufferAllOK
    <3> QED BY <3>1, <3>3, <3>5
  <2>4. CASE Broken(q)
    BY <2>2, <2>4 DEF Broken
  <2>5. CASE q.st = "SUCCESS" /\ Loaded(q.c, alg, wtag.len, FALSE, nonce, sent, ad, n)
    <3>1. /\ CtxOK(q.c, sent, ad, n, <<>>) /\ q.c.alg = alg
          /\ q.c.tag_length = wtag.len /\ q.c.nonce = nonce
      BY <2>5 DEF Loaded
    <3>2. r \in psa_aead_verify(q.c, room, tag)
      BY <2>2, <2>5
    <3>e. PICK o : o = <<>>
      OBVIOUS
    <3>3. CtxOK(q.c, sent, ad, n, o)
      BY <3>1, <3>e
    <3>4. Failing(r, q.c) \/ Opening(r, q.c, sent, ad, n, o, room, tag)
      BY <1>0, <3>2, <3>3, VerifyOK
    <3>5. CASE Failing(r, q.c)
      BY <3>5 DEF Failing, Broken
    <3>6. CASE Opening(r, q.c, sent, ad, n, o, room, tag)
      <4>1. /\ tag = wtag /\ q.c.nonce = sent /\ ad = wad /\ n = wn /\ Len(ct) = wn
            /\ o \o r.bytes = Message(wn)
        BY <3>1, <3>3, <3>6, OpenedIs
      <4>2. r.st = "SUCCESS" /\ Len(r.bytes) =< room /\ r.bytes \in Seq(Texts \union Coded)
        BY <3>6 DEF Opening, Completed
      <4>3. o \o r.bytes = r.bytes
        BY <3>e, <4>2
      <4> QED BY <3>1, <4>1, <4>2, <4>3 DEF Recovered
    <3> QED BY <3>4, <3>5, <3>6
  <2> QED BY <2>3, <2>4, <2>5
<1> QED BY <1>1, <1>2, <1>3

LEMMA OneShotEncryptStep ==
    ASSUME IInv, NEW key \in Keys, NEW tag \in TagLens, NEW nonce \in Nonces, NEW lenOk,
           NEW ad \in Nat, NEW n \in 0 .. MaxLen, NEW room \in Nat,
           OneShotEncrypt(key, tag, nonce, lenOk, ad, n, room)
    PROVE  IInv'
<1>1. PICK r \in psa_aead_encrypt(key, key.alg, tag, nonce, lenOk, ad, Message(n), room) :
          /\ call' = [completed |-> r.st = "SUCCESS",
                      fits |-> r.st = "SUCCESS" => Len(r.bytes) + tag =< room]
          /\ IF r.st = "SUCCESS"
             THEN /\ wire' = [alg |-> key.alg, nonce |-> nonce, ad |-> ad, n |-> n,
                              ct |-> r.bytes, tag |-> r.tag]
                  /\ opened' = Nothing
             ELSE Keep
  BY DEF OneShotEncrypt
<1>2. ctx = NoCtx /\ UNCHANGED <<ctx, gaveAd, given, out>>
  BY DEF OneShotEncrypt
<1>3. /\ gaveAd' \in 0 .. MaxAd /\ given' \in 0 .. MaxLen
      /\ ctx' = NoCtx /\ gaveAd' = 0 /\ given' = 0 /\ out' = <<>>
  BY <1>2 DEF IInv, ActiveOK
<1>4. ASSUME r.st = "SUCCESS"
      PROVE  WireIs(key.alg, nonce, ad, n, r.bytes, r.tag) /\ Len(r.bytes) + tag =< room
  <2>1. PICK alg \in Algs : alg = key.alg
    BY KeysAssumption
  <2>2. r \in psa_aead_encrypt(key, alg, tag, nonce, lenOk, ad, Message(n), room)
    BY <2>1
  <2>3. WireIs(alg, nonce, ad, n, r.bytes, r.tag) /\ Len(r.bytes) + tag =< room
    BY <1>4, <2>2, EncryptOK
  <2> QED BY <2>1, <2>3
<1>5. CallOK'
  <2> DEFINE a == r.st = "SUCCESS"  b == r.st = "SUCCESS" => Len(r.bytes) + tag =< room
  <2>1. a \in BOOLEAN /\ b = TRUE /\ call' = [completed |-> a, fits |-> b]
    BY <1>1, <1>4
  <2> HIDE DEF a, b
  <2> QED BY <2>1, CallReturns
<1>6. WireOK' /\ Authentic'
  <2>1. CASE r.st # "SUCCESS"
    <3>1. Keep
      BY <1>1, <2>1
    <3> QED BY <3>1, Framed DEF IInv, Keep
  <2>2. CASE r.st = "SUCCESS"
    <3>1. /\ wire' = [alg |-> key.alg, nonce |-> nonce, ad |-> ad, n |-> n,
                      ct |-> r.bytes, tag |-> r.tag]
          /\ opened' = Nothing
      BY <1>1, <2>2
    <3>2. /\ wire'.alg = key.alg /\ wire'.nonce = nonce /\ wire'.ad = ad
          /\ wire'.n = n /\ wire'.ct = r.bytes /\ wire'.tag = r.tag
      BY <3>1
    <3>3. WireIs(wire'.alg, wire'.nonce, wire'.ad, wire'.n, wire'.ct, wire'.tag)
      BY <1>4, <2>2, <3>2
    <3>4. WireOK'
      BY <3>3 DEF WireOK, WireIs
    <3>5. Authentic'
      BY <3>1 DEF Authentic
    <3> QED BY <3>4, <3>5
  <2> QED BY <2>1, <2>2
<1> QED BY <1>3, <1>5, <1>6 DEF IInv, ActiveOK

LEMMA OneShotDecryptStep ==
    ASSUME IInv, NEW key, NEW nonce \in Nonces, NEW lenOk, NEW ad \in Nat, NEW n \in Nat,
           NEW tag \in Tags, NEW whole, NEW room \in Nat,
           OneShotDecrypt(key, nonce, lenOk, ad, n, tag, whole, room)
    PROVE  IInv'
<1>1. PICK r \in psa_aead_decrypt(key, wire.alg, wire.tag.len, nonce, lenOk, ad,
                                  SubSeq(wire.ct, 1, n), tag, whole, room) :
          /\ call' = [completed |-> r.st = "SUCCESS", fits |-> Len(r.bytes) =< room]
          /\ opened' = IF r.st = "SUCCESS"
                       THEN [nonce |-> nonce, ad |-> ad, n |-> n, tag |-> tag,
                             plain |-> r.bytes]
                       ELSE opened
  BY DEF OneShotDecrypt
<1>2. /\ ctx = NoCtx /\ wire # NoWire /\ n =< Len(wire.ct)
      /\ UNCHANGED <<ctx, gaveAd, given, out, wire>>
  BY DEF OneShotDecrypt
<1>3. /\ gaveAd' \in 0 .. MaxAd /\ given' \in 0 .. MaxLen
      /\ ctx' = NoCtx /\ gaveAd' = 0 /\ given' = 0 /\ out' = <<>>
  BY <1>2 DEF IInv, ActiveOK
<1>4. WireIs(wire.alg, wire.nonce, wire.ad, wire.n, wire.ct, wire.tag)
  BY <1>2 DEF IInv, WireOK
<1>5. /\ wire.nonce \in AnyNonce /\ wire.n \in Nat
      /\ wire.ct = Tab(Sealed(wire.nonce), 0, wire.n)
  BY <1>4, Bounds DEF WireIs, AnyNonce
<1>6. n =< wire.n
  BY <1>2, <1>5, WireLength
<1>7. SubSeq(wire.ct, 1, n) = Tab(Sealed(wire.nonce), 0, n)
  <2>1. PICK z \in Nat : z = 0
    OBVIOUS
  <2>2. Sealed(wire.nonce) \in [Nat -> Coded]
    BY <1>5, ByteFunctions
  <2>3. z + n =< wire.n /\ z + 1 = 1 /\ z + n = n
    BY <1>6, <2>1
  <2>4. SubSeq(Tab(Sealed(wire.nonce), 0, wire.n), z + 1, z + n) = Tab(Sealed(wire.nonce), z, n)
    BY <1>5, <2>2, <2>3, TabPart, ZenonT(30)
  <2> QED BY <1>5, <2>1, <2>3, <2>4
<1>8. tag \in {wire.tag, OtherTag(wire.tag)}
  BY <1>2 DEF Tags
<1>9. \/ Broken(r)
      \/ Recovered(r, wire.nonce, wire.ad, wire.n, wire.ct, wire.tag, nonce, ad, n, tag, room)
  <2>1. PICK data : data = SubSeq(wire.ct, 1, n)
    OBVIOUS
  <2>2. r \in psa_aead_decrypt(key, wire.alg, wire.tag.len, nonce, lenOk, ad, data, tag,
                               whole, room)
    BY <2>1
  <2>3. data = Tab(Sealed(wire.nonce), 0, n)
    BY <1>7, <2>1
  <2> QED BY <1>4, <1>8, <2>2, <2>3, DecryptOK
<1>10. CallOK'
  <2> DEFINE a == r.st = "SUCCESS"  b == Len(r.bytes) =< room
  <2>1. b
    <3>1. CASE Broken(r)
      BY <3>1 DEF Broken
    <3>2. CASE Recovered(r, wire.nonce, wire.ad, wire.n, wire.ct, wire.tag, nonce, ad, n, tag,
                         room)
      BY <3>2 DEF Recovered
    <3> QED BY <1>9, <3>1, <3>2
  <2>2. a \in BOOLEAN /\ b = TRUE /\ call' = [completed |-> a, fits |-> b]
    BY <1>1, <2>1
  <2> HIDE DEF a, b
  <2> QED BY <2>2, CallReturns
<1>11. WireOK'
  BY <1>2 DEF IInv, WireOK, WireIs
<1>12. Authentic'
  <2>1. CASE Broken(r)
    <3>1. opened' = opened /\ wire' = wire
      BY <1>1, <1>2, <2>1 DEF Broken
    <3> QED BY <3>1 DEF IInv, Authentic
  <2>2. CASE Recovered(r, wire.nonce, wire.ad, wire.n, wire.ct, wire.tag, nonce, ad, n, tag, room)
    <3>1. /\ r.st = "SUCCESS" /\ tag = wire.tag /\ nonce = wire.nonce /\ ad = wire.ad
          /\ n = wire.n /\ Len(wire.ct) = wire.n /\ r.bytes = Message(wire.n)
      BY <2>2 DEF Recovered
    <3>2. opened' = [nonce |-> nonce, ad |-> ad, n |-> n, tag |-> tag, plain |-> r.bytes]
      BY <1>1, <3>1
    <3>3. /\ opened'.nonce = nonce /\ opened'.ad = ad /\ opened'.n = n
          /\ opened'.tag = tag /\ opened'.plain = r.bytes
      BY <3>2
    <3> QED BY <1>2, <3>1, <3>3 DEF Authentic, Message, Bytes
  <2> QED BY <1>9, <2>1, <2>2
<1> QED BY <1>3, <1>10, <1>11, <1>12 DEF IInv, ActiveOK

-----------------------------------------------------------------------------
(* The invariant holds in every state. *)

LEMMA NextIInv ==
    ASSUME IInv, [Next]_vars
    PROVE  IInv'
<1>b. /\ 0 .. MaxAd \subseteq Nat /\ 0 .. MaxLen \subseteq Nat /\ AdLens \subseteq Nat
      /\ Lens \subseteq Nat /\ Lens \subseteq 0 .. MaxLen /\ Rooms \subseteq Nat
  BY Bounds, SizesAssumption
<1>0. CASE UNCHANGED vars
  <2>1. CallOK' /\ WireOK' /\ Authentic'
    BY <1>0 DEF IInv, vars, CallOK, WireOK, WireIs, Authentic
  <2>2. ActiveOK' /\ gaveAd' = gaveAd /\ given' = given
    BY <1>0 DEF IInv, vars, ActiveOK
  <2> QED BY <2>1, <2>2 DEF IInv
<1>1. CASE Inactive
  BY <1>1, InactiveStep
<1>2. CASE Abort
  BY <1>2, AbortStep
<1>3. ASSUME NEW key \in Keys, NEW alg \in Algs, NEW tag \in TagLens, NEW enc \in BOOLEAN,
             Setup(key, alg, tag, enc)
      PROVE  IInv'
  BY <1>3, SetupStep
<1>4. ASSUME NEW key \in Keys, SetupAgain(key) PROVE IInv'
  BY <1>4, SetupAgainStep
<1>5. ASSUME NEW ad \in 0 .. MaxAd, NEW n \in 0 .. MaxLen, SetLengths(ad, n) PROVE IInv'
  BY <1>5, <1>b, SetLengthsStep
<1>6. ASSUME NEW nonce \in Nonces, NEW fits \in BOOLEAN,
             SetNonce(nonce, fits) \/ GenerateNonce(nonce, fits)
      PROVE  IInv'
  BY <1>6, SetNonceStep, GenerateNonceStep
<1>7. ASSUME NEW n \in AdLens, UpdateAdCall(n) PROVE IInv'
  BY <1>7, <1>b, UpdateAdStep
<1>8. ASSUME NEW n \in Lens, NEW null \in BOOLEAN, NEW room \in Rooms, Update(n, null, room)
      PROVE  IInv'
  BY <1>8, <1>b, UpdateStep
<1>9. ASSUME NEW room \in Rooms, NEW tagRoom \in {0, FullTag}, Finish(room, tagRoom) PROVE IInv'
  BY <1>9, <1>b, FinishStep
<1>10. ASSUME NEW room \in Rooms, NEW tag \in Tags, Verify(room, tag) PROVE IInv'
  BY <1>10, <1>b, VerifyStep
<1>11. ASSUME NEW key \in Keys, NEW tag \in TagLens, NEW nonce \in Nonces,
              NEW lenOk \in BOOLEAN,
              NEW ad \in AdLens, NEW n \in Lens, NEW room \in Rooms,
              OneShotEncrypt(key, tag, nonce, lenOk, ad, n, room)
       PROVE  IInv'
  <2>1. ad \in Nat /\ n \in 0 .. MaxLen /\ room \in Nat
    BY <1>b
  <2> QED BY <1>11, <2>1, OneShotEncryptStep
<1>12. ASSUME NEW key \in Keys, NEW nonce \in Nonces, NEW lenOk \in BOOLEAN, NEW ad \in AdLens,
              NEW n \in Lens, NEW tag \in Tags, NEW whole \in BOOLEAN, NEW room \in Rooms,
              OneShotDecrypt(key, nonce, lenOk, ad, n, tag, whole, room)
       PROVE  IInv'
  <2>1. ad \in Nat /\ n \in Nat /\ room \in Nat
    BY <1>b
  <2> QED BY <1>12, <2>1, OneShotDecryptStep
<1> QED
  BY <1>0, <1>1, <1>2, <1>3, <1>4, <1>5, <1>6, <1>7, <1>8, <1>9, <1>10, <1>11, <1>12 DEF Next

LEMMA Holds == Spec => []IInv
BY InitIInv, NextIInv, PTL DEF Spec

LEMMA WireCovered == IInv => TagCoversAll
<1> SUFFICES ASSUME IInv, wire # NoWire
             PROVE  LET c == [NewCtx(wire.alg, wire.tag.len, TRUE) EXCEPT !.nonce = wire.nonce]
                        text == Message(wire.n)
                    IN  /\ wire.ct = CryptAll(c, text)
                        /\ wire.tag = TagOf(c, Message(wire.ad), Covered(c, text, wire.ct))
  BY DEF TagCoversAll
<1> DEFINE c == [NewCtx(wire.alg, wire.tag.len, TRUE) EXCEPT !.nonce = wire.nonce]
           in == Tab(InOf(c.enc, c.nonce), 0, wire.n)
           result == Tab(OutOf(c.enc, c.nonce, c.nonce), 0, wire.n)
<1>1. /\ wire.nonce \in Nonces /\ wire.ad \in Nat /\ wire.n \in Nat
      /\ wire.ct = Tab(Sealed(wire.nonce), 0, wire.n)
      /\ wire.tag = Tagged(wire.alg, wire.nonce, wire.tag.len, wire.ad,
                           SentText(wire.alg, wire.nonce, wire.n))
  BY Bounds DEF IInv, WireOK, WireIs
<1>2. /\ c.alg = wire.alg /\ c.tag_length = wire.tag.len /\ c.enc = TRUE /\ c.nonce = wire.nonce
      /\ c.nonce \in AnyNonce /\ c.enc \in BOOLEAN
  BY <1>1 DEF NewCtx, AnyNonce
<1> HIDE DEF c
<1>3. CryptAll(c, in) = result /\ Covered(c, in, result) = Tab(CoveredOf(c, c.nonce), 0, wire.n)
  BY <1>1, <1>2, WholeText
<1>4. in = Message(wire.n)
  BY <1>1, <1>2, MessageTab DEF InOf
<1>5. result = wire.ct
  BY <1>1, <1>2 DEF OutOf
<1>6. Tab(CoveredOf(c, c.nonce), 0, wire.n) = SentText(wire.alg, wire.nonce, wire.n)
  BY <1>2 DEF CoveredOf, SentText, TextOf, CodeOf
<1> HIDE DEF in, result
<1>7. wire.tag = TagOf(c, Message(wire.ad), Covered(c, in, result))
  <2>1. PICK text : text = Covered(c, in, result)
    OBVIOUS
  <2>2. TagOf(c, Message(wire.ad), text) = Tagged(c.alg, c.nonce, c.tag_length, wire.ad, text)
    BY TagOfIs
  <2> QED BY <1>1, <1>2, <1>3, <1>6, <2>1, <2>2
<1>8. wire.ct = CryptAll(c, Message(wire.n))
  BY <1>3, <1>4, <1>5
<1>9. wire.tag = TagOf(c, Message(wire.ad), Covered(c, Message(wire.n), wire.ct))
  BY <1>4, <1>5, <1>7
<1> QED BY <1>8, <1>9 DEF c

LEMMA StreamFits ==
    ASSUME NEW c, NEW sent \in AnyNonce, NEW g, NEW f \in Nat, NEW o, CtxOK(c, sent, g, f, o)
    PROVE  c.ks_off \in 0 .. BS /\ Len(c.mblk) < BS
<1>0. Typed(c) /\ c.streaming \in BOOLEAN
  BY DEF CtxOK, Typed
<1>1. CASE c.mblk = <<>> /\ c.ks_off = 0
  BY <1>1, Sizes
<1>2. CASE c.streaming = TRUE /\ c.alg = "CCM"
  <2> DEFINE p == TextOf(c.enc, c.nonce, sent)
  <2>1. p \in [Nat -> Texts]
    BY <1>0, TextTyped
  <2>2. CcmAt(c, MacStart(c, Message(g), c.plaintext_expected), p, f)
    BY <1>2 DEF CtxOK, Streamed, StreamAt
  <2> HIDE DEF p
  <2>3. PICK q \in Nat : /\ q * BS =< f /\ f < q * BS + BS
                         /\ c.mblk = Tab(p, q * BS, f - q * BS)
    BY <2>2 DEF CcmAt
  <2>4. PICK a \in Nat : a = q * BS
    BY Sizes
  <2>5. PICK k \in Nat : k = f - a /\ k < BS
    BY <2>3, <2>4, Sizes
  <2>6. Len(Tab(p, a, k)) = k
    BY <2>1, TabSeq
  <2>7. c.mblk = Tab(p, a, k)
    BY <2>3, <2>4, <2>5
  <2>8. c.ks_off \in 0 .. BS
    BY <2>2 DEF CcmAt
  <2> QED BY <2>5, <2>6, <2>7, <2>8
<1>3. CASE c.streaming = TRUE /\ c.alg # "CCM"
  BY <1>1, <1>3 DEF CtxOK, Streamed, StreamAt
<1>4. CASE c.streaming = FALSE
  BY <1>1, <1>4 DEF CtxOK, Buffered
<1> QED BY <1>0, <1>2, <1>3, <1>4

LEMMA InputLength ==
    ASSUME NEW c, NEW sent \in AnyNonce, NEW g, NEW f \in Nat, NEW o, CtxOK(c, sent, g, f, o),
           c.streaming = FALSE
    PROVE  o = <<>> /\ Len(c.input) = f
<1>0. Typed(c) /\ o = <<>> /\ c.input = Tab(InOf(c.enc, sent), 0, f)
  BY DEF CtxOK, Buffered
<1>1. InOf(c.enc, sent) \in [Nat -> Texts \union Coded]
  BY <1>0, TextTyped
<1>2. PICK z \in Nat : z = 0
  OBVIOUS
<1>3. Len(Tab(InOf(c.enc, sent), z, f)) = f
  BY <1>1, TabSeq
<1> QED BY <1>0, <1>2, <1>3

LEMMA AllLengths == IInv => LengthsKept
<1> SUFFICES ASSUME IInv PROVE LengthsKept
  OBVIOUS
<1>1. NoOverrun /\ call \in [completed : BOOLEAN, fits : BOOLEAN]
  BY DEF IInv, CallOK, NoOverrun
<1>2. gaveAd \in 0 .. MaxAd /\ given \in 0 .. MaxLen
  BY DEF IInv
<1>3. CASE ctx = NoCtx
  BY <1>1, <1>2, <1>3 DEF LengthsKept, TypeOK, Accounted, CcmLengthFits
<1>4. CASE ctx # NoCtx
  <2>1. /\ CtxOK(ctx, wire.nonce, gaveAd, given, out) /\ wire.nonce \in AnyNonce
        /\ gaveAd \in Nat /\ given \in Nat
    BY <1>4, ActiveFacts
  <2>2. /\ ctx.alg \in Algs /\ ctx.alg \in StreamAlgs /\ ctx.nonce \in Nonces \union {NoNonce}
        /\ ctx.streaming \in BOOLEAN /\ ctx.lengths_set \in BOOLEAN
        /\ ctx.input_length = given /\ ctx.aad = Message(gaveAd) /\ FitsCcm(ctx)
    BY <2>1 DEF CtxOK, Typed, AnyNonce
  <2>3. ctx.ks_off \in 0 .. BS /\ Len(ctx.mblk) < BS
    BY <2>1, StreamFits
  <2>4. TypeOK
    BY <1>1, <1>2, <2>2, <2>3 DEF TypeOK
  <2>5. Accounted
    <3>1. CASE ctx.streaming = TRUE
      <4>1. Len(out) = given
        <5>1. Len(out) = (IF ctx.streaming = TRUE THEN given ELSE 0)
          BY <2>1, OutSeq
        <5> QED BY <3>1, <5>1
      <4>2. ctx.input = <<>>
        BY <2>1, <3>1 DEF CtxOK, Streamed
      <4> QED BY <2>2, <3>1, <4>1, <4>2 DEF Accounted
    <3>2. CASE ctx.streaming = FALSE
      <4>1. out = <<>> /\ Len(ctx.input) = given
        BY <2>1, <3>2, InputLength
      <4> QED BY <2>2, <3>2, <4>1 DEF Accounted
    <3> QED BY <2>2, <3>1, <3>2
  <2>6. CcmLengthFits
    BY <2>2 DEF CcmLengthFits, FitsCcm
  <2> QED BY <1>1, <2>4, <2>5, <2>6 DEF LengthsKept
<1> QED BY <1>3, <1>4

LEMMA Accepts == IInv => GenuineAccepted
<1> SUFFICES ASSUME IInv, ctx # NoCtx, wire # NoWire, ~ctx.enc, ctx.nonce = wire.nonce,
                    ctx.nonce # NoNonce, ctx.alg = wire.alg, ctx.tag_length = wire.tag.len,
                    gaveAd = wire.ad, given = Len(wire.ct),
                    ctx.alg = "CCM" => ctx.lengths_set,
                    ctx.lengths_set =>
                       ctx.ad_expected = gaveAd /\ ctx.plaintext_expected = given,
                    given =< Word32
             PROVE  \E r \in psa_aead_verify(ctx, MaxLen, wire.tag) :
                       r.st = "SUCCESS" /\ out \o r.bytes = Message(wire.n)
  BY DEF GenuineAccepted
<1>1. /\ CtxOK(ctx, wire.nonce, gaveAd, given, out) /\ wire.nonce \in AnyNonce
      /\ gaveAd \in Nat /\ given \in Nat
  BY ActiveFacts
<1>2. /\ ctx.enc = FALSE /\ Len(ctx.aad) = gaveAd /\ ctx.input_length = given
      /\ ctx.lengths_set \in BOOLEAN
  <2>1. ctx.enc \in BOOLEAN /\ ctx.lengths_set \in BOOLEAN /\ ctx.input_length = given
    BY <1>1 DEF CtxOK, Typed
  <2>2. ctx.aad = Message(gaveAd)
    BY <1>1 DEF CtxOK
  <2>3. Len(ctx.aad) = gaveAd
    BY <1>1, <2>2, MessageTab
  <2> QED BY <2>1, <2>3
<1>3. Ready(ctx)
  BY <1>2 DEF Ready, wolfpsa_aead_lengths_missing, LengthsMet
<1>4. /\ wire.n \in Nat /\ wire.ct = Tab(Sealed(wire.nonce), 0, wire.n)
      /\ wire.tag = Tagged(wire.alg, wire.nonce, wire.tag.len, wire.ad,
                           SentText(wire.alg, wire.nonce, wire.n))
  BY Bounds DEF IInv, WireOK, WireIs
<1>5. given = wire.n
  BY <1>1, <1>4, WireLength
<1>6. Tab(CoveredOf(ctx, wire.nonce), 0, given) = SentText(wire.alg, wire.nonce, wire.n)
  BY <1>2, <1>5 DEF CoveredOf, SentText, TextOf, CodeOf
<1>7. wire.tag = GivenTag(ctx, wire.nonce, gaveAd, given)
  BY <1>4, <1>6 DEF GivenTag
<1>8. PICK tag : tag = wire.tag
  OBVIOUS
<1>9. \E r \in psa_aead_verify(ctx, MaxLen, tag) :
         Completed(r, ctx, wire.nonce, gaveAd, given, out, MaxLen)
  <2>1. tag = GivenTag(ctx, wire.nonce, gaveAd, given) /\ MaxLen \in Nat /\ given =< MaxLen
    BY <1>7, <1>8, Bounds DEF IInv
  <2> QED BY <1>1, <1>2, <1>3, <2>1, VerifyAccepts
<1>10. PICK r \in psa_aead_verify(ctx, MaxLen, tag) :
          Completed(r, ctx, wire.nonce, gaveAd, given, out, MaxLen)
  BY <1>9
<1>11. r.st = "SUCCESS" /\ out \o r.bytes = Tab(Plain, 0, given)
  BY <1>2, <1>10 DEF Completed, OutOf, TextOf
<1>12. out \o r.bytes = Message(wire.n)
  BY <1>4, <1>5, <1>11, MessageTab
<1>13. r \in psa_aead_verify(ctx, MaxLen, wire.tag)
  BY <1>8, <1>10
<1> QED BY <1>11, <1>12, <1>13

LEMMA Exactly == IInv => DecryptsExactly
BY Accepts DEF IInv, DecryptsExactly

-----------------------------------------------------------------------------
(* Only a finish or a verification completes an operation. *)

Declared ==
    call'.completed /\ ctx # NoCtx /\ ctx.lengths_set =>
        gaveAd = ctx.ad_expected /\ given = ctx.plaintext_expected

LEMMA NotCompleted ==
    ASSUME NEW r, NEW ad, NEW n, NEW room, Return(r, FALSE, ad, n, room)
    PROVE  Declared
<1>1. call' = [completed |-> FALSE, fits |-> Len(r.bytes) =< room]
  BY DEF Return
<1>2. call'.completed = FALSE
  BY <1>1
<1> QED BY <1>2 DEF Declared

LEMMA MetWhenReady ==
    ASSUME IInv, ctx # NoCtx, Ready(ctx)
    PROVE  Declared
<1>1. CtxOK(ctx, wire.nonce, gaveAd, given, out) /\ gaveAd \in Nat
  BY ActiveFacts
<1>2. ctx.aad = Message(gaveAd) /\ ctx.input_length = given
  BY <1>1 DEF CtxOK
<1>3. Len(ctx.aad) = gaveAd
  BY <1>1, <1>2, MessageTab
<1> QED BY <1>2, <1>3 DEF Declared, Ready, LengthsMet

LEMMA FailedEnd ==
    ASSUME NEW r, Failing(r, ctx), NEW room, Return(r, TRUE, 0, 0, room)
    PROVE  Declared
<1>1. r.st # "SUCCESS"
  BY DEF Failing
<1>2. call' = [completed |-> FALSE, fits |-> Len(r.bytes) =< room]
  BY <1>1 DEF Return
<1>3. call'.completed = FALSE
  BY <1>2
<1> QED BY <1>3 DEF Declared

LEMMA FinishDeclared ==
    ASSUME IInv, NEW room \in Nat, NEW tagRoom, Finish(room, tagRoom)
    PROVE  Declared
<1>1. PICK r \in psa_aead_finish(ctx, room, tagRoom) : Return(r, TRUE, 0, 0, room)
  BY DEF Finish
<1>2. ctx # NoCtx
  BY DEF Finish
<1>3. /\ CtxOK(ctx, wire.nonce, gaveAd, given, out) /\ wire.nonce \in AnyNonce
      /\ gaveAd \in Nat /\ given \in Nat
  BY <1>2, ActiveFacts
<1>4. Failing(r, ctx) \/ Sealing(r, ctx, wire.nonce, gaveAd, given, out, room)
  BY <1>3, FinishOK
<1>5. CASE Failing(r, ctx)
  BY <1>1, <1>5, FailedEnd
<1>6. CASE Sealing(r, ctx, wire.nonce, gaveAd, given, out, room)
  BY <1>2, <1>6, MetWhenReady DEF Sealing, Completed
<1> QED BY <1>4, <1>5, <1>6

LEMMA VerifyDeclared ==
    ASSUME IInv, NEW room \in Nat, NEW tag, Verify(room, tag)
    PROVE  Declared
<1>1. PICK r \in psa_aead_verify(ctx, room, tag) : Return(r, TRUE, 0, 0, room)
  BY DEF Verify
<1>2. ctx # NoCtx
  BY DEF Verify
<1>3. /\ CtxOK(ctx, wire.nonce, gaveAd, given, out) /\ wire.nonce \in AnyNonce
      /\ gaveAd \in Nat /\ given \in Nat
  BY <1>2, ActiveFacts
<1>4. Failing(r, ctx) \/ Opening(r, ctx, wire.nonce, gaveAd, given, out, room, tag)
  BY <1>3, VerifyOK
<1>5. CASE Failing(r, ctx)
  BY <1>1, <1>5, FailedEnd
<1>6. CASE Opening(r, ctx, wire.nonce, gaveAd, given, out, room, tag)
  BY <1>2, <1>6, MetWhenReady DEF Opening, Completed
<1> QED BY <1>4, <1>5, <1>6

LEMMA NextDeclared ==
    ASSUME IInv, Next
    PROVE  Declared
<1>b. Rooms \subseteq Nat
  BY SizesAssumption
<1>1. CASE ctx = NoCtx
  BY <1>1 DEF Declared
<1>2. CASE ctx # NoCtx
  <2>1. CASE \E r, ad, n, room : Return(r, FALSE, ad, n, room)
    BY <2>1, NotCompleted
  <2>2. Abort => \E r, ad, n, room : Return(r, FALSE, ad, n, room)
    BY DEF Abort
  <2>3. (\E key \in Keys, alg \in Algs, tag \in TagLens, enc \in BOOLEAN :
            Setup(key, alg, tag, enc)) => FALSE
    BY <1>2 DEF Setup
  <2>4. (\E key \in Keys : SetupAgain(key)) => \E r, ad, n, room : Return(r, FALSE, ad, n, room)
    BY DEF SetupAgain
  <2>5. (\E a \in 0 .. MaxAd, m \in 0 .. MaxLen : SetLengths(a, m))
        => \E r, ad, n, room : Return(r, FALSE, ad, n, room)
    BY DEF SetLengths
  <2>6. (\E nonce \in Nonces, fits \in BOOLEAN :
            SetNonce(nonce, fits) \/ GenerateNonce(nonce, fits))
        => \E r, ad, n, room : Return(r, FALSE, ad, n, room)
    BY DEF SetNonce, GenerateNonce
  <2>7. (\E m \in AdLens : UpdateAdCall(m)) => \E r, ad, n, room : Return(r, FALSE, ad, n, room)
    BY DEF UpdateAdCall
  <2>8. (\E m \in Lens, null \in BOOLEAN, rm \in Rooms : Update(m, null, rm))
        => \E r, ad, n, room : Return(r, FALSE, ad, n, room)
    BY DEF Update
  <2>9. ASSUME NEW room \in Rooms, NEW tagRoom \in {0, FullTag}, Finish(room, tagRoom)
        PROVE  Declared
    BY <2>9, <1>b, FinishDeclared
  <2>10. ASSUME NEW room \in Rooms, NEW tag \in Tags, Verify(room, tag) PROVE Declared
    BY <2>10, <1>b, VerifyDeclared
  <2>11. ~Inactive
    BY <1>2 DEF Inactive
  <2>12. ASSUME NEW key, NEW tag, NEW nonce, NEW lenOk, NEW ad, NEW n, NEW room,
                OneShotEncrypt(key, tag, nonce, lenOk, ad, n, room)
         PROVE  FALSE
    BY <1>2, <2>12 DEF OneShotEncrypt
  <2>13. ASSUME NEW key, NEW nonce, NEW lenOk, NEW ad, NEW n, NEW tag, NEW whole, NEW room,
                OneShotDecrypt(key, nonce, lenOk, ad, n, tag, whole, room)
         PROVE  FALSE
    BY <1>2, <2>13 DEF OneShotDecrypt
  <2> QED BY <2>1, <2>2, <2>3, <2>4, <2>5, <2>6, <2>7, <2>8, <2>9, <2>10, <2>11,
            <2>12, <2>13 DEF Next
<1> QED BY <1>1, <1>2

-----------------------------------------------------------------------------
(* The results. *)

(* Every encryption that completes is the AEAD of all that was given to it,   *)
(* for every cut of the message, streamed by psa_aead_update(), buffered, or *)
(* in one call of psa_aead_encrypt().                                        *)
THEOREM TagsCoverAll == Spec => []TagCoversAll
BY Holds, WireCovered, PTL

(* psa_aead_verify() and psa_aead_decrypt() accept what encryption made and    *)
(* nothing else of what was built from it, and release its plaintext.        *)
THEOREM DecryptionIsExact == Spec => []DecryptsExactly
BY Holds, Exactly, PTL

(* The lengths the code keeps are those of what it was given, CCM's block and  *)
(* keystream offsets stay inside their arrays and no output buffer is       *)
(* overrun.                                                                  *)
THEOREM LengthsAreKept == Spec => []LengthsKept
BY Holds, AllLengths, PTL

(* An operation for which psa_aead_set_lengths() succeeded completes only with  *)
(* these lengths.                                                            *)
THEOREM DeclaredLengthsAreMet == Spec => DeclaredLengths
<1>1. IInv /\ [Next]_vars =>
        [call'.completed /\ ctx # NoCtx /\ ctx.lengths_set =>
            gaveAd = ctx.ad_expected /\ given = ctx.plaintext_expected]_vars
  BY NextDeclared DEF Declared
<1> QED BY <1>1, Holds, PTL DEF Spec, DeclaredLengths
=============================================================================
