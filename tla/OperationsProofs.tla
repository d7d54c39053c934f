-------------------------- MODULE OperationsProofs --------------------------
(***************************************************************************)
(* Proofs about the operations of the API: the extendable-output operation  *)
(* for any rates, any width of word32 and of size_t, and any cut of the input *)
(* and of the output; the MAC operations; the asymmetric calls; the policies  *)
(* of copies.  The last section carries the theorems about a component over   *)
(* to OpsSpec, those about hashes, ciphers and key transport included.        *)
(***************************************************************************)
EXTENDS Operations, SequenceTheorems, TLAPS

(* An operation that has absorbed nothing has made nothing, and only one that *)
(* squeezes is in the loop.                                                 *)
Phases ==
    /\ ~Active => left = 0 /\ asked = 0 /\ out = <<>>
    /\ Active /\ ~op.squeezing =>
           /\ left = 0 /\ asked = 0 /\ out = <<>> /\ op.blocks = 0
           /\ op.buf_off = 0 /\ op.buf_len = 0
           /\ op.ibuf_len = fed

(* Where the next byte comes from: the staging buffer, while it has bytes     *)
(* left, holds the last block squeezed; else the sponge is at the next byte. *)
Position ==
    Active =>
        IF op.buf_off < op.buf_len
        THEN op.buf + op.buf_off = Len(out) /\ op.blocks * Rate = op.buf + op.buf_len
        ELSE op.blocks * Rate = Len(out)

(* The inductive invariant. *)
IInv == TypeOK /\ OneStream /\ AbsorbedOnce /\ InputFits /\ Phases /\ Position

-----------------------------------------------------------------------------
(* The whole blocks in n bytes are no more than n bytes. *)
LEMMA WholeBlocks ==
    ASSUME NEW n \in Nat, NEW r \in Nat, r > 0
    PROVE  n \div r \in Nat /\ (n \div r) * r <= n
  BY SMT

(* k bytes moved from what is left to what is made. *)
LEMMA MoveBytes ==
    ASSUME NEW a \in Nat, NEW b \in Nat, NEW k \in Nat
    PROVE  (a + k) + (b - k) = a + b /\ a + (b + k) = (a + b) + k /\ 0 * a = 0
  BY SMT

(* A squeeze whose bytes are a word32 makes as many blocks as it is asked. *)
LEMMA SqueezeExact ==
    ASSUME NEW b \in Nat, NEW r \in Nat, r > 0, b * r <= WORD32_MAX
    PROVE  ((b * r) % (WORD32_MAX + 1)) \div r = b
<1>1. b * r \in Nat
  BY SMT
<1>2. (b * r) % (WORD32_MAX + 1) = b * r
  BY <1>1, WordAssumption, SMT
<1>3. (b * r) \div r = b
  BY SMT
<1> QED BY <1>2, <1>3

(* The rate of an active operation. *)
LEMMA RateType ==
    ASSUME TypeOK, Active
    PROVE  op \in Contexts /\ Rate \in Nat /\ Rate > 0 /\ Rate <= WORD32_MAX
  BY RateAssumption, WordAssumption DEF TypeOK, Active, Contexts, Rate

(* The blocks of one direct squeeze fit a word32 and what is asked for. *)
LEMMA OneCall ==
    ASSUME NEW r \in Nat, r > 0, Rate = r, left \in Nat, r <= WORD32_MAX
    PROVE  /\ BlocksOfOneCall \in Nat
           /\ BlocksOfOneCall * r \in Nat
           /\ BlocksOfOneCall * r <= left
           /\ SqueezeBlocks(BlocksOfOneCall) = BlocksOfOneCall
           /\ SqueezeBlocks(1) = 1
<1> DEFINE b == BlocksOfOneCall
<1>1. /\ left \div r \in Nat /\ (left \div r) * r <= left
      /\ WORD32_MAX \div r \in Nat /\ (WORD32_MAX \div r) * r <= WORD32_MAX
  BY WholeBlocks, WordAssumption
<1>2. b \in Nat /\ b <= left \div r /\ b <= WORD32_MAX \div r
  BY <1>1 DEF BlocksOfOneCall
<1> HIDE DEF b
<1>3. b * r \in Nat /\ b * r <= (left \div r) * r /\ b * r <= (WORD32_MAX \div r) * r
  BY <1>1, <1>2, SMT
<1>4. b * r <= left /\ b * r <= WORD32_MAX
  <2>1. (left \div r) * r \in Int /\ (WORD32_MAX \div r) * r \in Int
    BY <1>1, SMT
  <2> QED BY <1>1, <1>3, <2>1, WordAssumption
<1>5. SqueezeBlocks(b) = b
  BY <1>2, <1>4, SqueezeExact DEF SqueezeBlocks
<1>6. SqueezeBlocks(1) = 1
  BY SqueezeExact DEF SqueezeBlocks
<1> QED BY <1>2, <1>3, <1>4, <1>5, <1>6 DEF b

(* The buffer grows to hold what is needed, and stays within a word32. *)
LEMMA GrowHolds ==
    ASSUME NEW cap \in 0 .. WORD32_MAX, NEW need \in 0 .. WORD32_MAX,
           NEW c \in psa_xof_ibuf_grow(cap, need)
    PROVE  c \in need .. WORD32_MAX
  BY WordAssumption DEF psa_xof_ibuf_grow, Doubled

-----------------------------------------------------------------------------
(* No operation is active at first. *)
LEMMA InitIInv == Init => IInv
  BY NoCtxAssumption DEF Init, IInv, TypeOK, OneStream, AbsorbedOnce, InputFits, Phases,
     Position, Active

(* An aborted operation has no stream. *)
LEMMA FailIInv ==
    ASSUME NEW st \in {"SUCCESS", "BAD_STATE", "INVALID_ARGUMENT", "NOT_SUPPORTED",
                       "INSUFFICIENT_MEMORY", "GENERIC_ERROR"},
           IInv, wolfpsa_xof_fail(st), size_max' = size_max
    PROVE  IInv'
  BY NoCtxAssumption DEF wolfpsa_xof_fail, IInv, TypeOK, OneStream, AbsorbedOnce, InputFits,
     Phases, Position, Active

(* psa_xof_setup() starts an empty operation, or changes none. *)
LEMMA SetupIInv ==
    ASSUME IInv, NEW alg \in Algs, psa_xof_setup(alg)
    PROVE  IInv'
<1> USE DEF IInv, Idle
<1>1. CASE UNCHANGED <<op, fed, out, asked>>
  <2>1. UNCHANGED <<op, left, size_max, fed, out, asked>>
    BY <1>1 DEF psa_xof_setup
  <2>2. status' \in {"SUCCESS", "BAD_STATE", "INVALID_ARGUMENT", "NOT_SUPPORTED",
                     "INSUFFICIENT_MEMORY", "GENERIC_ERROR"}
    BY DEF psa_xof_setup
  <2> QED BY <2>1, <2>2 DEF TypeOK, OneStream, AbsorbedOnce, InputFits, Phases, Position,
             Active, Rate
<1>2. CASE ~UNCHANGED <<op, fed, out, asked>>
  <2>1. /\ op' = NewCtx(alg) /\ status' = "SUCCESS"
        /\ fed' = 0 /\ out' = <<>> /\ asked' = 0 /\ left' = 0 /\ size_max' = size_max
    BY <1>2 DEF psa_xof_setup
  <2>2. op' \in Contexts /\ Active' /\ ~op'.squeezing
    <3>1. NewCtx(alg) \in Contexts
      BY DEF NewCtx, Contexts
    <3>2. Active'
      BY <2>1, <3>1, NoCtxAssumption DEF Active
    <3> QED BY <2>1, <3>1, <3>2 DEF NewCtx
  <2>3. BlockSize[alg] \in Nat
    BY RateAssumption, WordAssumption
  <2> QED BY <2>1, <2>2, <2>3, WordAssumption DEF TypeOK, OneStream, AbsorbedOnce, InputFits,
             Phases, Position, NewCtx, Rate
<1> QED BY <1>1, <1>2

(* psa_xof_update() gathers the input: the sum cannot wrap once it is compared. *)
LEMMA UpdateIInv ==
    ASSUME IInv, NEW n \in 0 .. WORD32_MAX + 1, psa_xof_update(n)
    PROVE  IInv'
<1> DEFINE need == (op.ibuf_len + n) % (size_max + 1)
<1>0. size_max' = size_max
  BY DEF psa_xof_update
<1>1. CASE \E st \in {"INVALID_ARGUMENT", "BAD_STATE", "INSUFFICIENT_MEMORY"} : wolfpsa_xof_fail(st)
  BY <1>0, <1>1, FailIInv
<1>2. CASE status' = "SUCCESS" /\ UNCHANGED <<op, left, fed, out, asked>>
  BY <1>0, <1>2 DEF IInv, TypeOK, OneStream, AbsorbedOnce, InputFits, Phases, Position, Active,
     Rate
<1>3. CASE /\ Active /\ ~op.squeezing /\ n > 0 /\ n <= WORD32_MAX /\ ~TotalTooLong(n)
           /\ \E cap \in psa_xof_ibuf_grow(op.ibuf_cap, need) :
                  op' = [op EXCEPT !.ibuf_cap = cap, !.ibuf_len = @ + n]
           /\ fed' = fed + n /\ status' = "SUCCESS" /\ UNCHANGED <<left, out, asked>>
  <2>1. PICK cap \in psa_xof_ibuf_grow(op.ibuf_cap, need) :
            op' = [op EXCEPT !.ibuf_cap = cap, !.ibuf_len = @ + n]
    BY <1>3
  <2>2. op \in Contexts /\ op.ibuf_len \in Nat /\ op.ibuf_cap \in Nat /\ n \in Nat
    BY <1>3, WordAssumption DEF IInv, TypeOK, Contexts, Active
  <2>3. op.ibuf_len + n <= WORD32_MAX /\ op.ibuf_cap <= WORD32_MAX
    BY <1>3, <2>2, WordAssumption DEF TotalTooLong, IInv, InputFits
  <2>4. need = op.ibuf_len + n
    <3>1. size_max \in Nat /\ WORD32_MAX <= size_max
      BY BuildAssumption DEF IInv, TypeOK
    <3> QED BY <2>2, <2>3, <3>1, WordAssumption
  <2>5. cap \in Nat /\ op.ibuf_len + n <= cap /\ cap <= WORD32_MAX
    BY <2>2, <2>3, <2>4, GrowHolds, WordAssumption
  <2>6. /\ op' \in Contexts /\ Active' /\ op'.squeezing = op.squeezing
        /\ op'.ibuf_len = op.ibuf_len + n /\ op'.ibuf_cap = cap /\ op'.alg = op.alg
        /\ op'.blocks = op.blocks /\ op'.buf = op.buf /\ op'.buf_off = op.buf_off
        /\ op'.buf_len = op.buf_len /\ op'.absorbed = op.absorbed
    <3>0. op.ibuf_len + n \in Nat /\ cap \in Nat
      BY <2>2, <2>5
    <3>1. op' \in Contexts
      BY <2>1, <2>2, <3>0, Zenon DEF Contexts
    <3>2. Active'
      BY <3>1, NoCtxAssumption DEF Active
    <3> QED BY <2>1, <2>2, <3>1, <3>2 DEF Contexts
  <2>7. TypeOK' /\ InputFits'
    BY <1>0, <1>3, <2>2, <2>5, <2>6, WordAssumption DEF IInv, TypeOK, InputFits, Rate
  <2>8. OneStream' /\ AbsorbedOnce'
    BY <1>3, <2>6 DEF IInv, OneStream, AbsorbedOnce, TypeOK
  <2>9. Phases' /\ Position'
    BY <1>3, <2>6 DEF IInv, Phases, Position, Rate
  <2> QED BY <2>7, <2>8, <2>9 DEF IInv
<1> QED BY <1>1, <1>2, <1>3 DEF psa_xof_update

(* psa_xof_output() absorbs on its first call and enters the loop. *)
LEMMA OutputIInv ==
    ASSUME IInv, NEW n \in 0 .. MaxOut, psa_xof_output(n)
    PROVE  IInv'
<1>0. size_max' = size_max /\ left = 0
  BY DEF psa_xof_output, Idle
<1>1. CASE \E st \in {"INVALID_ARGUMENT", "BAD_STATE", "GENERIC_ERROR"} : wolfpsa_xof_fail(st)
  BY <1>0, <1>1, FailIInv
<1>2. CASE status' = "SUCCESS" /\ UNCHANGED <<op, left, fed, out, asked>>
  BY <1>0, <1>2 DEF IInv, TypeOK, OneStream, AbsorbedOnce, InputFits, Phases, Position, Active,
     Rate
<1>3. CASE /\ Active /\ n > 0 /\ op' = Absorb
           /\ left' = n /\ asked' = asked + n /\ UNCHANGED <<status, fed, out>>
  <2>1. op \in Contexts /\ n \in Nat /\ asked \in Nat /\ out \in Seq(Nat)
    BY <1>3, BoundAssumption DEF IInv, TypeOK, Active
  <2>2. CASE op.squeezing
    <3>1. op' = op
      BY <1>3, <2>2 DEF Absorb
    <3> QED BY <1>0, <1>3, <2>1, <2>2, <3>1
            DEF IInv, TypeOK, OneStream, AbsorbedOnce, InputFits, Phases, Position, Active, Rate
  <2>3. CASE ~op.squeezing
    <3>1. /\ op.ibuf_len = fed /\ op.absorbed = <<>> /\ op.ibuf_len \in Nat
          /\ op.ibuf_len <= WORD32_MAX /\ op.blocks = 0 /\ out = <<>> /\ asked = 0
      BY <1>3, <2>1, <2>3, WordAssumption
         DEF IInv, AbsorbedOnce, InputFits, Phases, Contexts
    <3>2. op.ibuf_len % (WORD32_MAX + 1) = fed
      BY <3>1, WordAssumption
    <3>3. op' = [op EXCEPT !.absorbed = <<fed>>, !.ibuf_len = 0, !.ibuf_cap = 0,
                           !.squeezing = TRUE, !.buf_off = 0, !.buf_len = 0]
      <4>1. Append(op.absorbed, op.ibuf_len % (WORD32_MAX + 1)) = <<fed>>
        BY <3>1, <3>2
      <4>2. Absorb = [op EXCEPT !.absorbed = Append(@, op.ibuf_len % (WORD32_MAX + 1)),
                                !.ibuf_len = 0, !.ibuf_cap = 0,
                                !.squeezing = TRUE, !.buf_off = 0, !.buf_len = 0]
        BY <2>3, Zenon DEF Absorb
      <4> QED BY <1>3, <4>1, <4>2, Zenon
    <3>4. fed \in Nat /\ <<fed>> \in Seq(Nat)
      BY <3>1
    <3>5. op' \in Contexts
      BY <2>1, <3>3, <3>4, Zenon DEF Contexts
    <3>6. Active'
      BY <3>5, NoCtxAssumption DEF Active
    <3>7. /\ op'.squeezing /\ op'.absorbed = <<fed>> /\ op'.ibuf_len = 0 /\ op'.ibuf_cap = 0
          /\ op'.buf_off = 0 /\ op'.buf_len = 0 /\ op'.blocks = 0 /\ op'.alg = op.alg
      BY <2>1, <3>1, <3>3 DEF Contexts
    <3>8. Rate' \in Nat /\ Rate' > 0
      BY <2>1, <3>7, RateAssumption, WordAssumption DEF Rate, Contexts
    <3>9. TypeOK'
      BY <1>0, <1>3, <2>1, <3>4, <3>5, <3>7, <3>8 DEF IInv, TypeOK
    <3>10. OneStream' /\ AbsorbedOnce' /\ InputFits'
      <4>1. OneStream'
        BY <1>3, <2>1, <3>1 DEF OneStream
      <4>2. AbsorbedOnce'
        BY <1>3, <3>7 DEF AbsorbedOnce
      <4>3. InputFits'
        BY <3>7, WordAssumption DEF InputFits
      <4> QED BY <4>1, <4>2, <4>3
    <3>11. Phases' /\ Position'
      <4>1. Phases'
        BY <3>6, <3>7 DEF Phases
      <4>2. op'.blocks * Rate' = 0
        <5>1. 0 * Rate' = 0
          BY <3>8, MoveBytes
        <5> QED BY <3>7, <5>1, Zenon
      <4>3. Len(out') = 0
        BY <1>3, <3>1
      <4> QED BY <3>7, <4>1, <4>2, <4>3 DEF Position
    <3> QED BY <3>9, <3>10, <3>11 DEF IInv
  <2> QED BY <2>2, <2>3
<1> QED BY <1>1, <1>2, <1>3 DEF psa_xof_output

-----------------------------------------------------------------------------
(* The turns of the loop. *)

(* k bytes served from where the output has come to carry the stream on. *)
LEMMA ServeOneStream ==
    ASSUME TypeOK, OneStream, NEW k \in Nat, k <= left, Serve(Len(out), k), asked' = asked
    PROVE  /\ OneStream' /\ out' \in Seq(Nat) /\ Len(out') = Len(out) + k
           /\ left' \in Nat /\ left' = left - k
           /\ status' \in {"SUCCESS", status}
<1> DEFINE new == [i \in 1 .. k |-> Len(out) + i]
<1>1. out \in Seq(Nat) /\ left \in Nat /\ asked \in Nat /\ Len(out) \in Nat
  BY DEF TypeOK
<1>2. new \in Seq(Nat) /\ Len(new) = k
  <2>1. \A i \in 1 .. k : Len(out) + i \in Nat
    BY <1>1
  <2>2. new \in [1 .. k -> Nat]
    BY <2>1
  <2> HIDE DEF new
  <2>3. new \in Seq(Nat)
    BY <2>2, SeqDef
  <2>4. 1 .. Len(new) = 1 .. k /\ Len(new) \in Nat
    BY <2>2, <2>3, LenProperties
  <2> QED BY <2>3, <2>4
<1>3. out' = out \o new /\ left' = left - k /\ status' \in {"SUCCESS", status}
  BY DEF Serve
<1> HIDE DEF new
<1>4. out' \in Seq(Nat) /\ Len(out') = Len(out) + k
  BY <1>1, <1>2, <1>3, ConcatProperties
<1>5. ASSUME NEW i \in 1 .. Len(out')
      PROVE  out'[i] = i
  <2>1. CASE i <= Len(out)
    <3>1. i \in 1 .. Len(out)
      BY <1>1, <1>4, <2>1
    <3>2. out'[i] = out[i]
      BY <1>1, <1>2, <1>3, <3>1, ConcatProperties
    <3> QED BY <3>1, <3>2 DEF OneStream
  <2>2. CASE i > Len(out)
    <3>1. out'[i] = new[i - Len(out)] /\ i - Len(out) \in 1 .. k
      BY <1>1, <1>2, <1>3, <1>4, <2>2
    <3> QED BY <1>1, <3>1 DEF new
  <2> QED BY <1>1, <1>4, <2>1, <2>2
<1>6. Len(out') + left' = asked'
  <2>1. Len(out) + left = asked
    BY DEF OneStream
  <2>2. (Len(out) + k) + (left - k) = Len(out) + left
    BY <1>1, MoveBytes
  <2> QED BY <1>3, <1>4, <2>1, <2>2, Zenon
<1>7. OneStream'
  BY <1>5, <1>6 DEF OneStream
<1>8. left' \in Nat
  BY <1>1, <1>3
<1> QED BY <1>3, <1>4, <1>7, <1>8

(* A turn that serves from the staging buffer. *)
LEMMA DrainIInv ==
    ASSUME IInv, Drain
    PROVE  IInv'
<1>1. /\ Active /\ op \in Contexts /\ left \in Nat /\ left > 0 /\ op.buf_off < op.buf_len
      /\ op.buf_len \in Nat /\ op.buf_off \in Nat /\ op.buf \in Nat
  BY DEF Drain, InLoop, IInv, TypeOK, Active, Contexts
<1>2. /\ Take \in Nat /\ Take <= left /\ op.buf_off + Take <= op.buf_len
      /\ op.buf_off + Take \in Nat
  BY <1>1 DEF Take
<1>3. op.buf + op.buf_off = Len(out) /\ op.blocks * Rate = op.buf + op.buf_len /\ op.squeezing
  BY <1>1 DEF IInv, Position, Phases
<1>4. /\ Serve(Len(out), Take) /\ op' = [op EXCEPT !.buf_off = op.buf_off + Take]
      /\ UNCHANGED <<size_max, fed, asked>>
  BY <1>3 DEF Drain
<1> HIDE DEF Take
<1>5. /\ OneStream' /\ out' \in Seq(Nat) /\ Len(out') = Len(out) + Take
      /\ left' \in Nat /\ left' = left - Take /\ status' \in {"SUCCESS", status}
  BY <1>2, <1>4, ServeOneStream DEF IInv
<1>6. op' \in Contexts
  BY <1>1, <1>2, <1>4, Zenon DEF Contexts
<1>7. Active'
  BY <1>6, NoCtxAssumption DEF Active
<1>8. /\ op'.buf_off = op.buf_off + Take /\ op'.buf_len = op.buf_len /\ op'.buf = op.buf
      /\ op'.blocks = op.blocks /\ op'.alg = op.alg /\ op'.squeezing = op.squeezing
      /\ op'.absorbed = op.absorbed /\ op'.ibuf_len = op.ibuf_len /\ op'.ibuf_cap = op.ibuf_cap
  BY <1>1, <1>4 DEF Contexts
<1>9. TypeOK'
  BY <1>1, <1>2, <1>4, <1>5, <1>6, <1>8 DEF IInv, TypeOK, Rate
<1>10. AbsorbedOnce' /\ InputFits' /\ Phases'
  BY <1>1, <1>3, <1>4, <1>7, <1>8 DEF IInv, AbsorbedOnce, InputFits, Phases
<1>11. Position'
  <2>1. op'.buf + op'.buf_off = Len(out') /\ op'.blocks * Rate' = op'.buf + op'.buf_len
    <3>1. Rate' = Rate
      BY <1>8 DEF Rate
    <3>2. Len(out) \in Nat
      BY DEF IInv, TypeOK
    <3>3. op'.buf + op'.buf_off = Len(out')
      <4>1. op.buf + (op.buf_off + Take) = (op.buf + op.buf_off) + Take
        BY <1>1, <1>2, MoveBytes
      <4> QED BY <1>3, <1>5, <1>8, <4>1, Zenon
    <3> QED BY <1>3, <1>8, <3>1, <3>3
  <2>2. op'.buf_off <= op'.buf_len /\ op'.buf_off \in Nat /\ op'.buf_len \in Nat
    BY <1>1, <1>2, <1>8
  <2> QED BY <2>1, <2>2 DEF Position
<1> QED BY <1>5, <1>9, <1>10, <1>11 DEF IInv

(* A turn that squeezes whole blocks into the caller's buffer. *)
LEMMA SqueezeDirectIInv ==
    ASSUME IInv, SqueezeDirect
    PROVE  IInv'
<1> DEFINE b == BlocksOfOneCall
           r == Rate
<1>1. /\ Active /\ op \in Contexts /\ left \in Nat /\ left > 0 /\ op.buf_off >= op.buf_len
      /\ op.buf_len \in Nat /\ op.buf_off \in Nat /\ op.blocks \in Nat
  BY DEF SqueezeDirect, InLoop, IInv, TypeOK, Active, Contexts
<1>2. r \in Nat /\ r > 0 /\ r <= WORD32_MAX
  BY <1>1, RateType DEF IInv
<1>3. b \in Nat /\ b * r \in Nat /\ b * r <= left /\ SqueezeBlocks(b) = b
  BY <1>1, <1>2, OneCall
<1>4. op.blocks * r = Len(out) /\ op.squeezing
  BY <1>1 DEF IInv, Position, Phases
<1>5. /\ Serve(Len(out), b * r)
      /\ op' = [op EXCEPT !.buf_off = 0, !.buf_len = 0, !.blocks = op.blocks + b]
      /\ UNCHANGED <<size_max, fed, asked>>
  BY <1>3, <1>4 DEF SqueezeDirect
<1>6. r' = r /\ op'.alg = op.alg
  BY <1>1, <1>5 DEF Rate, Contexts
<1> HIDE DEF b, r
<1>7. /\ OneStream' /\ out' \in Seq(Nat) /\ Len(out') = Len(out) + b * r
      /\ left' \in Nat /\ left' = left - b * r /\ status' \in {"SUCCESS", status}
  BY <1>3, <1>5, ServeOneStream DEF IInv
<1>8. op.blocks + b \in Nat
  BY <1>1, <1>3
<1>9. op' \in Contexts
  BY <1>1, <1>5, <1>8, Zenon DEF Contexts
<1>10. Active'
  BY <1>9, NoCtxAssumption DEF Active
<1>11. /\ op'.buf_off = 0 /\ op'.buf_len = 0 /\ op'.blocks = op.blocks + b
       /\ op'.squeezing = op.squeezing /\ op'.absorbed = op.absorbed
       /\ op'.ibuf_len = op.ibuf_len /\ op'.ibuf_cap = op.ibuf_cap
  BY <1>1, <1>5 DEF Contexts
<1>12. TypeOK'
  BY <1>2, <1>5, <1>6, <1>7, <1>9, <1>11 DEF IInv, TypeOK, r
<1>13. AbsorbedOnce' /\ InputFits' /\ Phases'
  BY <1>1, <1>4, <1>5, <1>10, <1>11 DEF IInv, AbsorbedOnce, InputFits, Phases
<1>14. Position'
  <2>1. (op.blocks + b) * r = op.blocks * r + b * r
    BY <1>1, <1>2, <1>3, SMT
  <2>2. op'.blocks * r' = Len(out')
    BY <1>4, <1>6, <1>7, <1>11, <2>1
  <2> QED BY <1>11, <2>2 DEF Position, r
<1> QED BY <1>7, <1>12, <1>13, <1>14 DEF IInv

(* A turn that fills the staging buffer. *)
LEMMA SqueezeTailIInv ==
    ASSUME IInv, SqueezeTail
    PROVE  IInv'
<1> DEFINE r == Rate
<1>1. /\ Active /\ op \in Contexts /\ left \in Nat /\ left > 0 /\ op.buf_off >= op.buf_len
      /\ op.buf_len \in Nat /\ op.buf_off \in Nat /\ op.blocks \in Nat
  BY DEF SqueezeTail, InLoop, IInv, TypeOK, Active, Contexts
<1>2. r \in Nat /\ r > 0 /\ r <= WORD32_MAX
  BY <1>1, RateType DEF IInv
<1>3. SqueezeBlocks(1) = 1
  BY <1>1, <1>2, OneCall
<1>4. op.blocks * r = Len(out) /\ op.squeezing /\ Len(out) \in Nat
  BY <1>1 DEF IInv, Position, Phases, TypeOK
<1>5. /\ op' = [op EXCEPT !.buf = Len(out), !.buf_off = 0, !.buf_len = r, !.blocks = op.blocks + 1]
      /\ UNCHANGED <<left, status, size_max, fed, out, asked>>
  BY <1>3, <1>4 DEF SqueezeTail
<1>6. r' = r /\ op'.alg = op.alg
  BY <1>1, <1>5 DEF Rate, Contexts
<1> HIDE DEF r
<1>7. op.blocks + 1 \in Nat
  BY <1>1
<1>8. op' \in Contexts
  BY <1>1, <1>2, <1>4, <1>5, <1>7, Zenon DEF Contexts
<1>9. Active'
  BY <1>8, NoCtxAssumption DEF Active
<1>10. /\ op'.buf = Len(out) /\ op'.buf_off = 0 /\ op'.buf_len = r /\ op'.blocks = op.blocks + 1
       /\ op'.squeezing = op.squeezing /\ op'.absorbed = op.absorbed
       /\ op'.ibuf_len = op.ibuf_len /\ op'.ibuf_cap = op.ibuf_cap
  BY <1>1, <1>5 DEF Contexts
<1>11. TypeOK'
  BY <1>2, <1>5, <1>6, <1>8, <1>10 DEF IInv, TypeOK, r
<1>12. OneStream' /\ AbsorbedOnce' /\ InputFits' /\ Phases'
  BY <1>1, <1>4, <1>5, <1>9, <1>10 DEF IInv, OneStream, AbsorbedOnce, InputFits, Phases
<1>13. Position'
  <2>1. (op.blocks + 1) * r = op.blocks * r + r
    BY <1>1, <1>2, SMT
  <2>2. op'.buf + op'.buf_off = Len(out') /\ op'.blocks * r' = op'.buf + op'.buf_len
    BY <1>2, <1>4, <1>5, <1>6, <1>10, <2>1
  <2>3. op'.buf_off < op'.buf_len
    BY <1>2, <1>10
  <2> QED BY <2>2, <2>3 DEF Position, r
<1> QED BY <1>11, <1>12, <1>13 DEF IInv

-----------------------------------------------------------------------------
(* Every step keeps the inductive invariant. *)
LEMMA StepIInv ==
    ASSUME IInv, [Next]_vars
    PROVE  IInv'
<1>1. ASSUME NEW alg \in Algs, psa_xof_setup(alg) PROVE IInv'
  BY <1>1, SetupIInv
<1>2. CASE psa_xof_set_context \/ SqueezeFails \/ psa_xof_abort
  BY <1>2, FailIInv DEF psa_xof_set_context, SqueezeFails, psa_xof_abort
<1>3. ASSUME NEW n \in 0 .. WORD32_MAX + 1, psa_xof_update(n) PROVE IInv'
  BY <1>3, UpdateIInv
<1>4. ASSUME NEW n \in 0 .. MaxOut, psa_xof_output(n) PROVE IInv'
  BY <1>4, OutputIInv
<1>5. CASE Turn
  BY <1>5, DrainIInv, SqueezeDirectIInv, SqueezeTailIInv DEF Turn
<1>6. CASE UNCHANGED vars
  BY <1>6 DEF vars, IInv, TypeOK, OneStream, AbsorbedOnce, InputFits, Phases, Position, Active,
     Rate
<1> QED BY <1>1, <1>2, <1>3, <1>4, <1>5, <1>6 DEF Next

(* The inductive invariant holds for good. *)
LEMMA Invariant == Spec => []IInv
  BY InitIInv, StepIInv, PTL DEF Spec

(* The types are kept, and psa_xof_output() reads its staging buffer within   *)
(* the valid bytes, for any rates and any requests.                         *)
THEOREM TypeCorrect == Spec => []TypeOK
<1>1. IInv => TypeOK
  BY DEF IInv
<1> QED BY Invariant, <1>1, PTL

(* psa_xof_output() gives one stream: every byte in its place, none twice and *)
(* none left out, for any cut of the requests and any width of word32.       *)
THEOREM OutputIsOneStream == Spec => []OneStream
<1>1. IInv => OneStream
  BY DEF IInv
<1> QED BY Invariant, <1>1, PTL

(* All the input accepted by psa_xof_update() is absorbed, once, before the   *)
(* first byte of output.                                                    *)
THEOREM InputIsAbsorbedOnce == Spec => []AbsorbedOnce
<1>1. IInv => AbsorbedOnce
  BY DEF IInv
<1> QED BY Invariant, <1>1, PTL

(* The gathered input fits its buffer and a word32, whatever SIZE_MAX is:     *)
(* psa_xof_update() compares before it adds.                                *)
THEOREM InputAlwaysFits == Spec => []InputFits
<1>1. IInv => InputFits
  BY DEF IInv
<1> QED BY Invariant, <1>1, PTL
-----------------------------------------------------------------------------
(* MACs.  The algorithms that a setup is accepted for: one that the policy of  *)
(* the key permits, of a length that exists.                                *)
MacAgreed(key, alg) ==
    /\ key \in MacKeys /\ alg \in Macs!MacAlgs
    /\ \/ Macs!wolfpsa_mac_alg_permitted(key.alg, alg)
       \/ Macs!wolfpsa_mac_alg_permitted(key.alg2, alg)
    /\ Macs!PSA_MAC_LENGTH(alg) <= FullLens[alg.fam]

(* An active operation holds a key that permits its algorithm, and the key     *)
(* buffers of that algorithm.                                               *)
MacActive(c, b, key, alg, s) ==
    /\ MacAgreed(key, alg) /\ s \in Nat
    /\ c = [alg |-> alg, mac_length |-> Macs!PSA_MAC_LENGTH(alg), full_length |-> FullLens[alg.fam],
            key |-> key.name, keyRaw |-> Macs!KeyOwner(alg), fed |-> s]
    /\ b = IF alg.fam = "CMAC" THEN {} ELSE {"ctx_key"}

(* Else it holds nothing. *)
MacIdle(c, b) == c = NoCtx /\ b = {}

(* What the operation has taken in is what it was told. *)
MacOperation ==
    \/ MacIdle(mctx, mbufs)
    \/ \E key, alg, s : mtold = [key |-> key, s |-> s] /\ MacActive(mctx, mbufs, key, alg, s)

(* The inductive invariant. *)
MacSound == MacOperation /\ Macs!VerdictsExact

(* The fields of an algorithm that is asked for. *)
LEMMA MacAlgType ==
    ASSUME Macs!ConstantsOK, NEW alg \in Macs!MacAlgs
    PROVE  /\ alg.cat = "MAC" /\ alg.fam \in Macs!Fams /\ alg.len \in Nat /\ alg.wild \in BOOLEAN
           /\ FullLens[alg.fam] \in Nat /\ Macs!PSA_MAC_LENGTH(alg) \in Nat
<1>1. PICK fam \in Macs!Fams, n \in MacLens \union {0},
      wild \in BOOLEAN : alg = Macs!Mac(fam, n, wild)
  BY DEF Macs!MacAlgs
<1>2. alg.cat = "MAC" /\ alg.fam = fam /\ alg.len = n /\ alg.wild = wild
  BY <1>1 DEF Macs!Mac
<1>3. n \in Nat /\ FullLens[fam] \in Nat
  BY DEF Macs!ConstantsOK
<1> QED BY <1>2, <1>3 DEF Macs!PSA_MAC_LENGTH

(* The context of an operation is not NULL. *)
LEMMA MacActiveContext ==
    ASSUME Macs!ConstantsOK, NEW c, NEW b, NEW key, NEW alg, NEW s, MacActive(c, b, key, alg, s)
    PROVE  /\ c # NoCtx /\ c.alg = alg /\ c.mac_length = Macs!PSA_MAC_LENGTH(alg)
           /\ c.full_length = FullLens[alg.fam] /\ c.key = key.name
           /\ c.keyRaw = Macs!KeyOwner(alg) /\ c.fed = s
<1>1. /\ alg \in Macs!MacAlgs /\ Macs!PSA_MAC_LENGTH(alg) \in Nat /\ FullLens[alg.fam] \in Nat
      /\ key.name \in {k.name : k \in MacKeys} /\ s \in Nat
  BY MacAlgType DEF MacActive, MacAgreed
<1>2. Macs!KeyOwner(alg) \in {None, "ctx_key"}
  BY DEF Macs!KeyOwner
<1>3. c = [alg |-> alg, mac_length |-> Macs!PSA_MAC_LENGTH(alg), full_length |-> FullLens[alg.fam],
           key |-> key.name, keyRaw |-> Macs!KeyOwner(alg), fed |-> s]
  BY DEF MacActive
<1>4. c \in Macs!Contexts
  BY <1>1, <1>2, <1>3, Zenon DEF Macs!Contexts
<1>5. c # NoCtx
  BY <1>4 DEF Macs!ConstantsOK
<1> QED BY <1>3, <1>5

(* What each call of an operation returns. *)

(* A setup makes an operation, or none and holds nothing. *)
LEMMA MacSetupResult ==
    ASSUME Macs!ConstantsOK, NEW key \in MacKeys, NEW alg \in Macs!MacAlgs, NEW usage,
           NEW r \in Macs!wolfpsa_mac_setup(NoCtx, {}, key, alg, usage)
    PROVE  /\ r.st # "INVALID_SIGNATURE"
           /\ r.st = "SUCCESS" => MacActive(r.c, r.b, key, alg, 0)
           /\ r.st # "SUCCESS" => MacIdle(r.c, r.b)
<1> DEFINE own == IF alg.fam = "CMAC" THEN {} ELSE {"ctx_key"}
           held == {} \union {"key_data"} \union own
           Then(w) == IF w = "SUCCESS"
                      THEN Macs!Result(w, Macs!NewCtx(key, alg), held \ {"key_data"}, None)
                      ELSE Macs!wolfpsa_mac_fail(held \ {"key_data"}, w)
           After(v) == IF v # "SUCCESS" THEN {Macs!Result(v, NoCtx, {}, None)}
                       ELSE {Macs!Result("INSUFFICIENT_MEMORY", NoCtx, {}, None),
                             Macs!Result("INVALID_ARGUMENT", NoCtx, {}, None)}
                            \union {Then(w) : w \in Macs!LengthVerdict(alg)}
<1>1. held \ {"key_data"} = own /\ (held \ {"key_data"}) \ {"ctx_key"} = {}
  OBVIOUS
<1>0. r \in UNION {After(v) : v \in Macs!wolfpsa_mac_check_key(key, usage, alg)}
  BY DEF Macs!wolfpsa_mac_setup
<1>2. PICK v \in Macs!wolfpsa_mac_check_key(key, usage, alg) :
         \/ v # "SUCCESS" /\ r = Macs!Result(v, NoCtx, {}, None)
         \/ v = "SUCCESS" /\ r = Macs!Result("INSUFFICIENT_MEMORY", NoCtx, {}, None)
         \/ v = "SUCCESS" /\ r = Macs!Result("INVALID_ARGUMENT", NoCtx, {}, None)
         \/ v = "SUCCESS" /\ \E w \in Macs!LengthVerdict(alg) : r = Then(w)
  <2> HIDE DEF held, Then
  <2> QED BY <1>0, Zenon
<1>3. v \in {"INVALID_HANDLE", "INVALID_ARGUMENT", "NOT_PERMITTED", "SUCCESS"}
  BY DEF Macs!wolfpsa_mac_check_key
<1>4. CASE v # "SUCCESS" /\ r = Macs!Result(v, NoCtx, {}, None)
  BY <1>3, <1>4 DEF Macs!Result, MacIdle
<1>5. CASE r = Macs!Result("INSUFFICIENT_MEMORY", NoCtx, {}, None)
           \/ r = Macs!Result("INVALID_ARGUMENT", NoCtx, {}, None)
  BY <1>5 DEF Macs!Result, MacIdle
<1>6. ASSUME v = "SUCCESS", NEW w \in Macs!LengthVerdict(alg), r = Then(w)
      PROVE  /\ r.st # "INVALID_SIGNATURE"
             /\ r.st = "SUCCESS" => MacActive(r.c, r.b, key, alg, 0)
             /\ r.st # "SUCCESS" => MacIdle(r.c, r.b)
  <2>1. CASE w = "SUCCESS"
    <3>1. r.st = "SUCCESS" /\ r.c = Macs!NewCtx(key, alg) /\ r.b = own
      BY <1>1, <1>6, <2>1 DEF Macs!Result
    <3>2. Macs!PSA_MAC_LENGTH(alg) \in Nat /\ FullLens[alg.fam] \in Nat
      BY MacAlgType
    <3>3. Macs!PSA_MAC_LENGTH(alg) <= FullLens[alg.fam]
      BY <1>6, <2>1, <3>2 DEF Macs!LengthVerdict
    <3>4. \/ Macs!wolfpsa_mac_alg_permitted(key.alg, alg)
          \/ Macs!wolfpsa_mac_alg_permitted(key.alg2, alg)
      BY <1>6 DEF Macs!wolfpsa_mac_check_key
    <3> QED BY <3>1, <3>3, <3>4 DEF MacActive, MacAgreed, Macs!NewCtx
  <2>2. CASE w # "SUCCESS"
    <3>1. r.st = w /\ r.c = NoCtx /\ r.b = {}
      BY <1>1, <1>6, <2>2 DEF Macs!wolfpsa_mac_fail, Macs!Result
    <3>2. w # "INVALID_SIGNATURE"
      BY <1>6 DEF Macs!LengthVerdict
    <3> QED BY <2>2, <3>1, <3>2 DEF MacIdle
  <2> QED BY <2>1, <2>2
<1> QED BY <1>2, <1>4, <1>5, <1>6

(* Input is counted, or the operation ends and its key is freed. *)
LEMMA MacUpdateResult ==
    ASSUME Macs!ConstantsOK, NEW c, NEW b, NEW key, NEW alg, NEW s,
           MacActive(c, b, key, alg, s),
           NEW n \in Nat, NEW ok, NEW r \in Macs!psa_mac_update(c, b, n, ok)
    PROVE  /\ r.st # "INVALID_SIGNATURE"
           /\ r.st = "SUCCESS" => MacActive(r.c, r.b, key, alg, s + n)
           /\ r.st # "SUCCESS" => MacIdle(r.c, r.b)
<1>1. c # NoCtx /\ c.fed = s /\ s \in Nat
  BY MacActiveContext DEF MacActive
<1>2. b \ {"ctx_key"} = {}
  BY DEF MacActive
<1>3. \/ r = Macs!wolfpsa_mac_fail(b, "INVALID_ARGUMENT") \/ r = Macs!wolfpsa_mac_fail(b, "GENERIC_ERROR")
      \/ n = 0 /\ r = Macs!Result("SUCCESS", c, b, None)
      \/ r = Macs!Result("SUCCESS", [c EXCEPT !.fed = @ + n], b, None)
  BY <1>1 DEF Macs!psa_mac_update
<1>4. CASE r = Macs!wolfpsa_mac_fail(b, "INVALID_ARGUMENT") \/ r = Macs!wolfpsa_mac_fail(b, "GENERIC_ERROR")
  BY <1>2, <1>4 DEF Macs!wolfpsa_mac_fail, Macs!Result, MacIdle
<1>5. CASE n = 0 /\ r = Macs!Result("SUCCESS", c, b, None)
  <2>1. r.st = "SUCCESS" /\ r.c = c /\ r.b = b /\ s + n = s
    BY <1>1, <1>5 DEF Macs!Result
  <2> QED BY <2>1
<1>6. CASE r = Macs!Result("SUCCESS", [c EXCEPT !.fed = @ + n], b, None)
  <2>1. r.st = "SUCCESS" /\ r.c = [c EXCEPT !.fed = s + n] /\ r.b = b
    BY <1>1, <1>6 DEF Macs!Result
  <2>2. ASSUME NEW m
        PROVE  [c EXCEPT !.fed = m] =
               [alg |-> alg, mac_length |-> Macs!PSA_MAC_LENGTH(alg),
                full_length |-> FullLens[alg.fam], key |-> key.name,
                keyRaw |-> Macs!KeyOwner(alg), fed |-> m]
    BY DEF MacActive
  <2>3. s + n \in Nat
    BY <1>1
  <2> QED BY <2>1, <2>2, <2>3 DEF MacActive
<1> QED BY <1>3, <1>4, <1>5, <1>6

(* The end of a MAC ends the operation; a MAC that is written is right. *)
LEMMA MacSignResult ==
    ASSUME Macs!ConstantsOK, NEW c, NEW b, NEW key, NEW alg, NEW s,
           MacActive(c, b, key, alg, s),
           NEW room, NEW ok, NEW r \in Macs!psa_mac_sign_finish(c, b, room, ok)
    PROVE  /\ MacIdle(r.c, r.b)
           /\ r.st = "SUCCESS" =>
                r.mac = [key |-> key.name, fam |-> alg.fam, s |-> s, len |-> Macs!PSA_MAC_LENGTH(alg)]
<1>1. /\ c # NoCtx /\ c.alg = alg /\ c.mac_length = Macs!PSA_MAC_LENGTH(alg) /\ c.key = key.name
      /\ c.fed = s
  BY MacActiveContext
<1>2. b \ {"ctx_key"} = {}
  BY DEF MacActive
<1>3. PICK f \in Macs!wolfpsa_mac_final(c, c.mac_length, room, ok) :
         r = Macs!Result(f.st, NoCtx, Macs!psa_mac_abort(c, b).b, f.mac)
  BY <1>1, Zenon DEF Macs!psa_mac_sign_finish
<1>4. r.c = NoCtx /\ r.b = {} /\ r.st = f.st /\ r.mac = f.mac
  BY <1>2, <1>3 DEF Macs!Result, Macs!psa_mac_abort
<1>5. f.st = "SUCCESS" =>
         f.mac = [key |-> key.name, fam |-> alg.fam, s |-> s, len |-> Macs!PSA_MAC_LENGTH(alg)]
  BY <1>1 DEF Macs!wolfpsa_mac_final
<1> QED BY <1>4, <1>5 DEF MacIdle

(* ref is, in all its bytes, the MAC of s under the key. *)
MacGenuine(key, alg, s, ref) ==
    ref.key = key.name /\ ref.fam = alg.fam /\ ref.s = s /\ ref.good = ref.len

MacAllowed(alg, n) ==
    n = Macs!PSA_MAC_LENGTH(alg) \/ (alg.wild /\ n \in Macs!PSA_MAC_LENGTH(alg) .. FullLens[alg.fam])

(* The verdict st on ref is right. *)
MacRight(key, alg, s, ref, st) ==
    /\ st = "SUCCESS" => /\ MacAgreed(key, alg) /\ MacGenuine(key, alg, s, ref)
                         /\ MacAllowed(alg, ref.len)
    /\ MacGenuine(key, alg, s, ref) /\ MacAllowed(alg, ref.len) => st # "INVALID_SIGNATURE"

(* A MAC to be verified has a length. *)
LEMMA MacRefType ==
    ASSUME Macs!ConstantsOK, NEW ref \in Macs!References
    PROVE  ref.len \in Nat
<1>1. PICK f \in Macs!Refs : ref = [f EXCEPT !.good = IF @ < f.len THEN @ ELSE f.len]
  BY DEF Macs!References
<1>2. PICK k \in MacKeys, s \in 0 .. MacMaxLen,
      n \in MacLens \union {FullLens[x] : x \in Macs!Fams},
           g \in {0, MinTrunc, Macs!MaxFull} :
         f = [key |-> k.name, fam |-> k.type, s |-> s, len |-> n, good |-> g]
  BY DEF Macs!Refs
<1>3. ASSUME NEW m PROVE [f EXCEPT !.good = m].len = n
  BY <1>2
<1>4. ref.len = n
  BY <1>1, <1>3
<1> QED BY <1>4 DEF Macs!ConstantsOK

(* A verification ends the operation, unless there is no MAC to compare, and   *)
(* its verdict is right.                                                    *)
LEMMA MacVerifyResult ==
    ASSUME Macs!ConstantsOK, NEW c, NEW b, NEW key, NEW alg, NEW s,
           MacActive(c, b, key, alg, s),
           NEW ref \in Macs!References, NEW ok,
             NEW r \in Macs!psa_mac_verify_finish(c, b, ref, ok)
    PROVE  /\ MacRight(key, alg, s, ref, r.st)
           /\ \/ MacIdle(r.c, r.b)
              \/ r.st # "SUCCESS" /\ r.c = c /\ r.b = b
<1>1. /\ c # NoCtx /\ c.alg = alg /\ c.mac_length = Macs!PSA_MAC_LENGTH(alg) /\ c.key = key.name
      /\ c.full_length = FullLens[alg.fam] /\ c.fed = s
  BY MacActiveContext
<1>2. b \ {"ctx_key"} = {}
  BY DEF MacActive
<1>3. /\ Macs!PSA_MAC_LENGTH(alg) \in Nat /\ FullLens[alg.fam] \in Nat /\ ref.len \in Nat
      /\ alg.wild \in BOOLEAN /\ Macs!PSA_MAC_LENGTH(alg) <= FullLens[alg.fam] /\ MacAgreed(key, alg)
  BY MacAlgType, MacRefType DEF MacActive, MacAgreed
<1> DEFINE len == IF alg.wild THEN FullLens[alg.fam] ELSE Macs!PSA_MAC_LENGTH(alg)
           Verdict(f) == IF f.st # "SUCCESS" \/ Macs!SameMac(c, f.mac, ref) THEN f.st
                         ELSE "INVALID_SIGNATURE"
<1>4. CASE ~ok
  <2>1. r = Macs!Result("INVALID_ARGUMENT", c, b, None)
    BY <1>1, <1>4 DEF Macs!psa_mac_verify_finish
  <2>2. r.st = "INVALID_ARGUMENT" /\ r.c = c /\ r.b = b
    BY <2>1 DEF Macs!Result
  <2> QED BY <2>2 DEF MacRight
<1>5. CASE ok /\ ~Macs!LengthAccepted(c, ref.len)
  <2>1. r = Macs!wolfpsa_mac_fail(b, "INVALID_SIGNATURE")
    BY <1>1, <1>5 DEF Macs!psa_mac_verify_finish
  <2>2. r.st = "INVALID_SIGNATURE" /\ r.c = NoCtx /\ r.b = {}
    BY <1>2, <2>1 DEF Macs!wolfpsa_mac_fail, Macs!Result
  <2>3. ~MacAllowed(alg, ref.len)
    BY <1>1, <1>3, <1>5 DEF Macs!LengthAccepted, MacAllowed
  <2> QED BY <2>2, <2>3 DEF MacRight, MacIdle
<1>6. CASE ok /\ Macs!LengthAccepted(c, ref.len)
  <2>1. r \in {Macs!wolfpsa_mac_fail(b, Verdict(f)) :
                 f \in Macs!wolfpsa_mac_final(c, len, Macs!MaxFull, TRUE)}
    BY <1>1, <1>6 DEF Macs!psa_mac_verify_finish
  <2>2. PICK f \in Macs!wolfpsa_mac_final(c, len, Macs!MaxFull, TRUE) :
            r = Macs!wolfpsa_mac_fail(b, Verdict(f))
    BY <2>1, Zenon
  <2>3. r.st = Verdict(f) /\ r.c = NoCtx /\ r.b = {}
    BY <1>2, <2>2 DEF Macs!wolfpsa_mac_fail, Macs!Result
  <2>4. f.st = "SUCCESS" =>
           f.mac = [key |-> key.name, fam |-> alg.fam, s |-> s, len |-> len]
    BY <1>1 DEF Macs!wolfpsa_mac_final
  <2>5. f.st # "INVALID_SIGNATURE"
    BY DEF Macs!wolfpsa_mac_final
  <2>6. ref.len <= len /\ MacAllowed(alg, ref.len)
    BY <1>1, <1>3, <1>6 DEF Macs!LengthAccepted, MacAllowed
  <2>7. CASE f.st = "SUCCESS"
    <3>1. Macs!SameMac(c, f.mac, ref) <=> MacGenuine(key, alg, s, ref)
      BY <2>4, <2>6, <2>7 DEF Macs!SameMac, MacGenuine
    <3>2. r.st = IF MacGenuine(key, alg, s, ref) THEN "SUCCESS" ELSE "INVALID_SIGNATURE"
      BY <2>3, <2>7, <3>1
    <3> QED BY <1>3, <2>3, <2>6, <3>2 DEF MacRight, MacIdle
  <2>8. CASE f.st # "SUCCESS"
    BY <2>3, <2>5, <2>8 DEF MacRight, MacIdle
  <2> QED BY <2>7, <2>8
<1> QED BY <1>4, <1>5, <1>6

(* psa_mac_compute(): the one-shot calls do all of it and leave nothing behind. *)
LEMMA MacComputeResult ==
    ASSUME Macs!ConstantsOK, NEW key \in MacKeys, NEW alg \in Macs!MacAlgs, NEW n \in Nat,
           NEW ok, NEW room,
           NEW r \in Macs!psa_mac_compute({}, key, alg, n, ok, room)
    PROVE  /\ r.b = {}
           /\ r.st = "SUCCESS" =>
                /\ MacAgreed(key, alg)
                /\ r.mac = [key |-> key.name, fam |-> alg.fam, s |-> n, len |-> Macs!PSA_MAC_LENGTH(alg)]
<1> DEFINE Finish(q) == Macs!psa_mac_sign_finish(q.c, q.b, room, TRUE)
           End(t) == IF t.st # "SUCCESS" THEN Macs!wolfpsa_mac_fail(t.b, t.st) ELSE t
           Second(q) == IF q.st # "SUCCESS" THEN {Macs!wolfpsa_mac_fail(q.b, q.st)}
                        ELSE {End(t) : t \in Finish(q)}
           First(p) == IF p.st # "SUCCESS" THEN {p}
                       ELSE UNION {Second(q) : q \in Macs!psa_mac_update(p.c, p.b, n, ok)}
           setups == Macs!wolfpsa_mac_setup(NoCtx, {}, key, alg, "SIGN_MESSAGE")
<1>1. r \in UNION {First(p) : p \in setups}
  BY DEF Macs!psa_mac_compute, Macs!OneShot, Macs!psa_mac_sign_setup
<1>2. PICK p \in setups : r \in First(p)
  <2> HIDE DEF First
  <2> QED BY <1>1, Zenon
<1>3. /\ p.st = "SUCCESS" => MacActive(p.c, p.b, key, alg, 0)
      /\ p.st # "SUCCESS" => MacIdle(p.c, p.b)
  BY MacSetupResult
<1>4. CASE p.st # "SUCCESS"
  BY <1>2, <1>3, <1>4 DEF MacIdle
<1>5. CASE p.st = "SUCCESS"
  <2>1. r \in UNION {Second(q) : q \in Macs!psa_mac_update(p.c, p.b, n, ok)}
    <3> HIDE DEF Second
    <3> QED BY <1>2, <1>5
  <2>2. PICK q \in Macs!psa_mac_update(p.c, p.b, n, ok) : r \in Second(q)
    <3> HIDE DEF Second
    <3> QED BY <2>1, Zenon
  <2>3. /\ q.st = "SUCCESS" => MacActive(q.c, q.b, key, alg, 0 + n)
        /\ q.st # "SUCCESS" => MacIdle(q.c, q.b)
    BY <1>3, <1>5, MacUpdateResult
  <2>4. CASE q.st # "SUCCESS"
    <3>1. r = Macs!wolfpsa_mac_fail(q.b, q.st) /\ q.b = {}
      BY <2>2, <2>3, <2>4 DEF MacIdle
    <3> QED BY <2>4, <3>1 DEF Macs!wolfpsa_mac_fail, Macs!Result
  <2>5. CASE q.st = "SUCCESS"
    <3>1. r \in {End(t) : t \in Finish(q)}
      <4> HIDE DEF End, Finish
      <4> QED BY <2>2, <2>5
    <3>2. PICK t \in Finish(q) : r = End(t)
      <4> HIDE DEF End, Finish
      <4> QED BY <3>1, Zenon
    <3>3. MacActive(q.c, q.b, key, alg, n)
      BY <2>3, <2>5
    <3>4. /\ MacIdle(t.c, t.b)
          /\ t.st = "SUCCESS" =>
               t.mac = [key |-> key.name, fam |-> alg.fam, s |-> n, len |-> Macs!PSA_MAC_LENGTH(alg)]
      <4> DEFINE yes == TRUE
      <4>1. t \in Macs!psa_mac_sign_finish(q.c, q.b, room, yes)
        OBVIOUS
      <4> HIDE DEF yes
      <4> QED BY <3>3, <4>1, MacSignResult
    <3>5. CASE t.st = "SUCCESS"
      BY <3>2, <3>3, <3>4, <3>5 DEF MacIdle, MacActive
    <3>6. CASE t.st # "SUCCESS"
      BY <3>2, <3>4, <3>6 DEF Macs!wolfpsa_mac_fail, Macs!Result, MacIdle
    <3> QED BY <3>5, <3>6
  <2> QED BY <2>4, <2>5
<1> QED BY <1>4, <1>5

(* psa_mac_verify(). *)
LEMMA MacVerifyOnceResult ==
    ASSUME Macs!ConstantsOK, NEW key \in MacKeys, NEW alg \in Macs!MacAlgs, NEW n \in Nat,
           NEW ok,
           NEW ref \in Macs!References, NEW r \in Macs!psa_mac_verify({}, key, alg, n, ok, ref)
    PROVE  r.b = {} /\ MacRight(key, alg, n, ref, r.st)
<1> DEFINE Finish(q) == Macs!psa_mac_verify_finish(q.c, q.b, ref, TRUE)
           End(t) == IF t.st # "SUCCESS" THEN Macs!wolfpsa_mac_fail(t.b, t.st) ELSE t
           Second(q) == IF q.st # "SUCCESS" THEN {Macs!wolfpsa_mac_fail(q.b, q.st)}
                        ELSE {End(t) : t \in Finish(q)}
           First(p) == IF p.st # "SUCCESS" THEN {p}
                       ELSE UNION {Second(q) : q \in Macs!psa_mac_update(p.c, p.b, n, ok)}
           setups == Macs!wolfpsa_mac_setup(NoCtx, {}, key, alg, "VERIFY_MESSAGE")
<1>1. r \in UNION {First(p) : p \in setups}
  BY DEF Macs!psa_mac_verify, Macs!OneShot, Macs!psa_mac_verify_setup
<1>2. PICK p \in setups : r \in First(p)
  <2> HIDE DEF First
  <2> QED BY <1>1, Zenon
<1>3. /\ p.st # "INVALID_SIGNATURE"
      /\ p.st = "SUCCESS" => MacActive(p.c, p.b, key, alg, 0)
      /\ p.st # "SUCCESS" => MacIdle(p.c, p.b)
  BY MacSetupResult
<1>4. CASE p.st # "SUCCESS"
  BY <1>2, <1>3, <1>4 DEF MacIdle, MacRight
<1>5. CASE p.st = "SUCCESS"
  <2>1. r \in UNION {Second(q) : q \in Macs!psa_mac_update(p.c, p.b, n, ok)}
    <3> HIDE DEF Second
    <3> QED BY <1>2, <1>5
  <2>2. PICK q \in Macs!psa_mac_update(p.c, p.b, n, ok) : r \in Second(q)
    <3> HIDE DEF Second
    <3> QED BY <2>1, Zenon
  <2>3. /\ q.st # "INVALID_SIGNATURE"
        /\ q.st = "SUCCESS" => MacActive(q.c, q.b, key, alg, 0 + n)
        /\ q.st # "SUCCESS" => MacIdle(q.c, q.b)
    BY <1>3, <1>5, MacUpdateResult
  <2>4. CASE q.st # "SUCCESS"
    <3>1. r = Macs!wolfpsa_mac_fail(q.b, q.st) /\ q.b = {}
      BY <2>2, <2>3, <2>4 DEF MacIdle
    <3>2. r.st = q.st /\ r.b = {}
      BY <3>1 DEF Macs!wolfpsa_mac_fail, Macs!Result
    <3> QED BY <2>3, <2>4, <3>2 DEF MacRight
  <2>5. CASE q.st = "SUCCESS"
    <3>1. r \in {End(t) : t \in Finish(q)}
      <4> HIDE DEF End, Finish
      <4> QED BY <2>2, <2>5
    <3>2. PICK t \in Finish(q) : r = End(t)
      <4> HIDE DEF End, Finish
      <4> QED BY <3>1, Zenon
    <3>3. MacActive(q.c, q.b, key, alg, n)
      BY <2>3, <2>5
    <3>4. /\ MacRight(key, alg, n, ref, t.st)
          /\ \/ MacIdle(t.c, t.b)
             \/ t.st # "SUCCESS" /\ t.c = q.c /\ t.b = q.b
      <4> DEFINE yes == TRUE
      <4>1. t \in Macs!psa_mac_verify_finish(q.c, q.b, ref, yes)
        OBVIOUS
      <4> HIDE DEF yes
      <4> QED BY <3>3, <4>1, MacVerifyResult
    <3>5. r.st = t.st /\ r.b = {}
      BY <3>2, <3>3, <3>4 DEF Macs!wolfpsa_mac_fail, Macs!Result, MacIdle, MacActive
    <3> QED BY <3>4, <3>5
  <2> QED BY <2>4, <2>5
<1> QED BY <1>4, <1>5

(* The length that a permitted algorithm names is one that the policy allows. *)
LEMMA MacPolicyAllows ==
    ASSUME Macs!ConstantsOK, NEW key, NEW alg, MacAgreed(key, alg)
    PROVE  \E p \in {key.alg, key.alg2} :
               Macs!PolicyAllows(p, alg.fam, Macs!PSA_MAC_LENGTH(alg))
<1>1. PICK p \in {key.alg, key.alg2} : Macs!wolfpsa_mac_alg_permitted(p, alg)
  BY DEF MacAgreed
<1>2. p.len \in Nat /\ p.wild \in BOOLEAN /\ p # Macs!PSA_ALG_NONE /\ p.fam = alg.fam
  BY <1>1 DEF MacAgreed, Macs!ConstantsOK, Macs!wolfpsa_mac_alg_permitted, Macs!SameBase
<1>3. Macs!PSA_MAC_LENGTH(alg) \in Nat /\ FullLens[alg.fam] \in Nat
  BY MacAlgType DEF MacAgreed
<1>4. Macs!PSA_MAC_LENGTH(p) \in Nat
  BY <1>2, <1>3 DEF Macs!PSA_MAC_LENGTH
<1>5. \/ Macs!PSA_MAC_LENGTH(alg) = Macs!PSA_MAC_LENGTH(p)
      \/ p.wild /\ Macs!PSA_MAC_LENGTH(alg) > Macs!PSA_MAC_LENGTH(p)
  BY <1>1, <1>3, <1>4 DEF Macs!wolfpsa_mac_alg_permitted
<1> QED BY <1>1, <1>2, <1>5 DEF Macs!PolicyAllows

(* A call that gives nothing breaks nothing. *)
LEMMA MacQuietExact == ASSUME Macs!Quiet PROVE Macs!VerdictsExact'
BY DEF Macs!Quiet, Macs!VerdictsExact, Macs!Authentic, Macs!GenuineAccepted, Macs!LengthPolicy

(* A MAC of what was told is one that the policy allows. *)
LEMMA MacGivenExact ==
    ASSUME Macs!ConstantsOK, NEW key, NEW alg, MacAgreed(key, alg), NEW s, NEW mac,
           mac = [key |-> key.name, fam |-> alg.fam, s |-> s, len |-> Macs!PSA_MAC_LENGTH(alg)],
           Macs!Given(key, alg.fam, s, mac)
    PROVE  Macs!VerdictsExact'
<1>1. /\ mlast'.call = "mac" /\ mlast'.policy = {key.alg, key.alg2} /\ mlast'.fam = alg.fam
      /\ mlast'.len = Macs!PSA_MAC_LENGTH(alg) /\ mlast'.right
  BY DEF Macs!Given
<1>2. \E p \in {key.alg, key.alg2} :
          Macs!PolicyAllows(p, alg.fam, Macs!PSA_MAC_LENGTH(alg))
  BY MacPolicyAllows
<1> QED BY <1>1, <1>2
        DEF Macs!VerdictsExact, Macs!Authentic, Macs!GenuineAccepted, Macs!LengthPolicy

(* A right verdict is exact. *)
LEMMA MacJudgedExact ==
    ASSUME Macs!ConstantsOK, NEW key, NEW alg, NEW s, NEW ref \in Macs!References, NEW st,
           MacRight(key, alg, s, ref, st), Macs!Judged(key, alg, s, ref, st)
    PROVE  Macs!VerdictsExact'
<1> DEFINE long == alg.wild /\ ref.len \in Macs!PSA_MAC_LENGTH(alg) .. FullLens[alg.fam]
           exact == ref.len = Macs!PSA_MAC_LENGTH(alg)
           genuine == /\ ref.key = key.name /\ ref.fam = alg.fam /\ ref.s = s
                      /\ ref.good = ref.len
<1>1. mlast' = [call |-> "verdict", policy |-> {key.alg, key.alg2}, fam |-> alg.fam,
               least |-> Macs!PSA_MAC_LENGTH(alg), st |-> st,
               long |-> long, exact |-> exact, genuine |-> genuine]
  BY DEF Macs!Judged
<1>2. /\ genuine <=> MacGenuine(key, alg, s, ref)
      /\ (exact \/ long) <=> MacAllowed(alg, ref.len)
  BY DEF MacGenuine, MacAllowed
<1>3. long \in BOOLEAN /\ exact \in BOOLEAN /\ genuine \in BOOLEAN
  BY Zenon
<1> HIDE DEF long, exact, genuine
<1>4. /\ mlast'.call = "verdict" /\ mlast'.policy = {key.alg, key.alg2} /\ mlast'.fam = alg.fam
      /\ mlast'.least = Macs!PSA_MAC_LENGTH(alg) /\ mlast'.st = st /\ mlast'.long = long /\ mlast'.exact = exact
      /\ mlast'.genuine = genuine
  BY <1>1
<1>5. st = "SUCCESS" =>
        /\ exact \/ long
        /\ \E p \in {key.alg, key.alg2} :
              Macs!PolicyAllows(p, alg.fam, Macs!PSA_MAC_LENGTH(alg))
  BY <1>2, MacPolicyAllows DEF MacRight
<1>6. Macs!Authentic'
  BY <1>2, <1>3, <1>4 DEF MacRight, Macs!Authentic
<1>7. Macs!GenuineAccepted'
  BY <1>2, <1>3, <1>4 DEF MacRight, Macs!GenuineAccepted
<1>8. Macs!LengthPolicy'
  BY <1>4, <1>5 DEF Macs!LengthPolicy
<1> QED BY <1>6, <1>7, <1>8 DEF Macs!VerdictsExact

(* An idle operation stays idle: every call but a setup is refused. *)
LEMMA MacIdleCalls ==
    ASSUME Macs!ConstantsOK, MacIdle(mctx, mbufs)
    PROVE  /\ \A n, ok : \A r \in Macs!psa_mac_update(mctx, mbufs, n, ok) :
                 r.st # "SUCCESS" /\ MacIdle(r.c, r.b)
           /\ \A room, ok : \A r \in Macs!psa_mac_sign_finish(mctx, mbufs, room, ok) :
                 r.st # "SUCCESS" /\ MacIdle(r.c, r.b)
           /\ \A ref, ok : \A r \in Macs!psa_mac_verify_finish(mctx, mbufs, ref, ok) :
                 r.st # "SUCCESS" /\ MacIdle(r.c, r.b)
BY DEF MacIdle, Macs!psa_mac_update, Macs!psa_mac_sign_finish, Macs!psa_mac_verify_finish,
       Macs!wolfpsa_mac_fail, Macs!Result

(* One lemma per action. *)
LEMMA MacInvSetup ==
    ASSUME Macs!ConstantsOK, MacSound, NEW key \in MacKeys, NEW alg \in Macs!MacAlgs,
           Macs!Setup(key, alg)
    PROVE  MacSound'
<1>1. Macs!VerdictsExact'
  BY MacQuietExact DEF Macs!Setup
<1>2. PICK usage \in {"SIGN_MESSAGE", "VERIFY_MESSAGE"} :
      \E r \in Macs!wolfpsa_mac_setup(mctx, mbufs, key, alg, usage) :
        /\ mctx' = r.c /\ mbufs' = r.b
        /\ mtold' = IF r.st = "SUCCESS" THEN [key |-> key, s |-> 0] ELSE mtold
  BY DEF Macs!Setup, Macs!psa_mac_sign_setup, Macs!psa_mac_verify_setup
<1>3. PICK r \in Macs!wolfpsa_mac_setup(mctx, mbufs, key, alg, usage) :
        /\ mctx' = r.c /\ mbufs' = r.b
        /\ mtold' = IF r.st = "SUCCESS" THEN [key |-> key, s |-> 0] ELSE mtold
  BY <1>2
<1>4. CASE MacIdle(mctx, mbufs)
  <2>1. /\ r.st = "SUCCESS" => MacActive(r.c, r.b, key, alg, 0)
        /\ r.st # "SUCCESS" => MacIdle(r.c, r.b)
    BY <1>4, MacSetupResult DEF MacIdle
  <2>2. MacOperation'
    BY <1>3, <2>1 DEF MacOperation
  <2> QED BY <1>1, <2>2 DEF MacSound
<1>5. ASSUME NEW k, NEW a, NEW s, mtold = [key |-> k, s |-> s], MacActive(mctx, mbufs, k, a, s)
      PROVE  MacSound'
  <2>1. mctx # NoCtx
    BY <1>5, MacActiveContext
  <2>2. r = Macs!Result("BAD_STATE", mctx, mbufs, None)
    BY <2>1 DEF Macs!wolfpsa_mac_setup
  <2>3. mctx' = mctx /\ mbufs' = mbufs /\ mtold' = mtold
    BY <1>3, <2>2 DEF Macs!Result
  <2>4. MacOperation'
    BY <1>5, <2>3 DEF MacOperation
  <2> QED BY <1>1, <2>4 DEF MacSound
<1> QED BY <1>4, <1>5 DEF MacSound, MacOperation

LEMMA MacInvUpdate ==
    ASSUME Macs!ConstantsOK, MacSound, NEW n \in Nat, NEW ok, Macs!Update(n, ok)
    PROVE  MacSound'
<1>1. Macs!VerdictsExact'
  BY MacQuietExact DEF Macs!Update
<1>2. PICK r \in Macs!psa_mac_update(mctx, mbufs, n, ok) :
        /\ mctx' = r.c /\ mbufs' = r.b
        /\ mtold' = IF r.st = "SUCCESS" THEN [mtold EXCEPT !.s = @ + n]
                   ELSE [key |-> None, s |-> 0]
  BY DEF Macs!Update
<1>3. CASE MacIdle(mctx, mbufs)
  BY <1>1, <1>2, <1>3, MacIdleCalls DEF MacSound, MacOperation
<1>4. ASSUME NEW k, NEW a, NEW s, mtold = [key |-> k, s |-> s], MacActive(mctx, mbufs, k, a, s)
      PROVE  MacSound'
  <2>1. /\ r.st = "SUCCESS" => MacActive(r.c, r.b, k, a, s + n)
        /\ r.st # "SUCCESS" => MacIdle(r.c, r.b)
    BY <1>4, MacUpdateResult
  <2>2. r.st = "SUCCESS" => mtold' = [key |-> k, s |-> s + n]
    BY <1>2, <1>4
  <2>3. MacOperation'
    BY <1>2, <2>1, <2>2 DEF MacOperation
  <2> QED BY <1>1, <2>3 DEF MacSound
<1> QED BY <1>3, <1>4 DEF MacSound, MacOperation

LEMMA MacInvSignFinish ==
    ASSUME Macs!ConstantsOK, MacSound, NEW room, NEW ok, Macs!SignFinish(room, ok)
    PROVE  MacSound'
<1>1. PICK r \in Macs!psa_mac_sign_finish(mctx, mbufs, room, ok) :
        /\ mctx' = r.c /\ mbufs' = r.b
        /\ IF r.st = "SUCCESS" THEN Macs!Given(mtold.key, mctx.alg.fam, mtold.s, r.mac) ELSE Macs!Quiet
  BY DEF Macs!SignFinish
<1>2. CASE MacIdle(mctx, mbufs)
  <2>1. r.st # "SUCCESS" /\ MacIdle(r.c, r.b)
    BY <1>2, MacIdleCalls
  <2> QED BY <1>1, <2>1, MacQuietExact DEF MacSound, MacOperation
<1>3. ASSUME NEW k, NEW a, NEW s, mtold = [key |-> k, s |-> s], MacActive(mctx, mbufs, k, a, s)
      PROVE  MacSound'
  <2>1. /\ MacIdle(r.c, r.b)
        /\ r.st = "SUCCESS" =>
             r.mac = [key |-> k.name, fam |-> a.fam, s |-> s, len |-> Macs!PSA_MAC_LENGTH(a)]
    BY <1>3, MacSignResult
  <2>2. mctx.alg = a /\ mtold.key = k /\ mtold.s = s /\ MacAgreed(k, a)
    BY <1>3, MacActiveContext DEF MacActive
  <2>3. CASE r.st = "SUCCESS"
    <3>1. Macs!Given(k, a.fam, s, r.mac)
      BY <1>1, <2>2, <2>3
    <3>2. Macs!VerdictsExact'
      BY <2>1, <2>2, <2>3, <3>1, MacGivenExact
    <3> QED BY <1>1, <2>1, <3>2 DEF MacSound, MacOperation
  <2>4. CASE r.st # "SUCCESS"
    BY <1>1, <2>1, <2>4, MacQuietExact DEF MacSound, MacOperation
  <2> QED BY <2>3, <2>4
<1> QED BY <1>2, <1>3 DEF MacSound, MacOperation

LEMMA MacInvVerifyFinish ==
    ASSUME Macs!ConstantsOK, MacSound, NEW ref \in Macs!References, NEW ok,
           Macs!VerifyFinish(ref, ok)
    PROVE  MacSound'
<1>1. PICK r \in Macs!psa_mac_verify_finish(mctx, mbufs, ref, ok) :
        /\ mctx' = r.c /\ mbufs' = r.b /\ Macs!Ended
        /\ IF mctx = NoCtx THEN Macs!Quiet ELSE Macs!Judged(mtold.key, mctx.alg, mtold.s, ref, r.st)
  BY DEF Macs!VerifyFinish
<1>2. CASE MacIdle(mctx, mbufs)
  <2>1. MacIdle(r.c, r.b) /\ mctx = NoCtx
    BY <1>2, MacIdleCalls DEF MacIdle
  <2> QED BY <1>1, <2>1, MacQuietExact DEF MacSound, MacOperation
<1>3. ASSUME NEW k, NEW a, NEW s, mtold = [key |-> k, s |-> s], MacActive(mctx, mbufs, k, a, s)
      PROVE  MacSound'
  <2>1. /\ MacRight(k, a, s, ref, r.st)
        /\ \/ MacIdle(r.c, r.b)
           \/ r.st # "SUCCESS" /\ r.c = mctx /\ r.b = mbufs
    BY <1>3, MacVerifyResult
  <2>2. mctx # NoCtx /\ mctx.alg = a /\ mtold.key = k /\ mtold.s = s
    BY <1>3, MacActiveContext
  <2>3. Macs!Judged(k, a, s, ref, r.st)
    BY <1>1, <2>2
  <2>4. Macs!VerdictsExact'
    BY <2>1, <2>3, MacJudgedExact
  <2>5. MacOperation'
    <3>1. CASE MacIdle(r.c, r.b)
      BY <1>1, <3>1 DEF MacOperation
    <3>2. CASE r.c = mctx /\ r.b = mbufs
      <4>1. mctx' = mctx /\ mbufs' = mbufs /\ mtold' = mtold
        BY <1>1, <2>2, <3>2 DEF Macs!Ended
      <4> QED BY <1>3, <4>1 DEF MacOperation
    <3> QED BY <2>1, <3>1, <3>2
  <2> QED BY <2>4, <2>5 DEF MacSound
<1> QED BY <1>2, <1>3 DEF MacSound, MacOperation

LEMMA MacInvAbort ==
    ASSUME Macs!ConstantsOK, MacSound, Macs!Abort
    PROVE  MacSound'
<1>1. mbufs \ {"ctx_key"} = {}
  BY DEF MacSound, MacOperation, MacIdle, MacActive
<1>2. mctx' = NoCtx /\ mbufs' = {}
  BY <1>1 DEF Macs!Abort, Macs!psa_mac_abort, Macs!Result
<1> QED BY <1>2, MacQuietExact DEF Macs!Abort, MacSound, MacOperation, MacIdle

LEMMA MacInvOneShot ==
    ASSUME Macs!ConstantsOK, MacSound, mctx = NoCtx, NEW key \in MacKeys,
           NEW alg \in Macs!MacAlgs, NEW n \in Nat,
           NEW ok,
           \/ \E room : Macs!Compute(key, alg, n, ok, room)
           \/ \E ref \in Macs!References : Macs!Verify(key, alg, n, ok, ref)
    PROVE  MacSound'
<1>1. mbufs = {}
  BY MacActiveContext DEF MacSound, MacOperation, MacIdle
<1>2. ASSUME NEW room, Macs!Compute(key, alg, n, ok, room) PROVE MacSound'
  <2>1. PICK r \in Macs!psa_mac_compute({}, key, alg, n, ok, room) :
          /\ mbufs' = r.b /\ UNCHANGED <<mctx, mtold>>
          /\ IF r.st = "SUCCESS" THEN Macs!Given(key, alg.fam, n, r.mac) ELSE Macs!Quiet
    BY <1>1, <1>2 DEF Macs!Compute
  <2>2. /\ r.b = {}
        /\ r.st = "SUCCESS" =>
             /\ MacAgreed(key, alg)
             /\ r.mac = [key |-> key.name, fam |-> alg.fam, s |-> n, len |-> Macs!PSA_MAC_LENGTH(alg)]
    BY MacComputeResult
  <2>3. Macs!VerdictsExact'
    BY <2>1, <2>2, MacGivenExact, MacQuietExact
  <2> QED BY <2>1, <2>2, <2>3 DEF MacSound, MacOperation, MacIdle
<1>3. ASSUME NEW ref \in Macs!References, Macs!Verify(key, alg, n, ok, ref) PROVE MacSound'
  <2>1. PICK r \in Macs!psa_mac_verify({}, key, alg, n, ok, ref) :
          mbufs' = r.b /\ UNCHANGED <<mctx, mtold>> /\ Macs!Judged(key, alg, n, ref, r.st)
    BY <1>1, <1>3 DEF Macs!Verify
  <2>2. r.b = {} /\ MacRight(key, alg, n, ref, r.st)
    BY MacVerifyOnceResult
  <2>3. Macs!VerdictsExact'
    BY <2>1, <2>2, MacJudgedExact
  <2> QED BY <2>1, <2>2, <2>3 DEF MacSound, MacOperation, MacIdle
<1> QED BY <1>2, <1>3

(* The invariant holds in every state. *)
LEMMA MacInvariant == ASSUME Macs!ConstantsOK PROVE Macs!Spec => []MacSound
<1>1. Macs!Init => MacSound
  BY DEF Macs!Init, MacSound, MacOperation, MacIdle, Macs!VerdictsExact, Macs!Authentic,
     Macs!GenuineAccepted,
         Macs!LengthPolicy
<1>2. MacSound /\ [Macs!Next]_(Macs!vars) => MacSound'
  <2> SUFFICES ASSUME MacSound, [Macs!Next]_(Macs!vars) PROVE MacSound'
    OBVIOUS
  <2>0. \A n \in 0 .. MacMaxLen : n \in Nat
    BY DEF Macs!ConstantsOK
  <2>1. CASE UNCHANGED Macs!vars
    BY <2>1 DEF Macs!vars, MacSound, MacOperation, Macs!VerdictsExact, Macs!Authentic,
       Macs!GenuineAccepted,
                Macs!LengthPolicy
  <2>2. CASE \E key \in MacKeys, alg \in Macs!MacAlgs : Macs!Setup(key, alg)
    BY <2>2, MacInvSetup
  <2>3. CASE \E n \in 0 .. MacMaxLen, ok \in BOOLEAN : Macs!Update(n, ok)
    BY <2>0, <2>3, MacInvUpdate
  <2>4. CASE \E room \in {0, MinTrunc, Macs!MaxFull}, ok \in BOOLEAN : Macs!SignFinish(room, ok)
    BY <2>4, MacInvSignFinish
  <2>5. CASE \E ref \in Macs!References, ok \in BOOLEAN : Macs!VerifyFinish(ref, ok)
    BY <2>5, MacInvVerifyFinish
  <2>6. CASE Macs!Abort
    BY <2>6, MacInvAbort
  <2>7. CASE \E key \in MacKeys, alg \in Macs!MacAlgs, n \in 0 .. MacMaxLen, ok \in BOOLEAN :
                /\ mctx = NoCtx
                /\ \/ \E room \in {0, MinTrunc, Macs!MaxFull} : Macs!Compute(key, alg, n, ok, room)
                   \/ \E ref \in Macs!References : Macs!Verify(key, alg, n, ok, ref)
    BY <2>0, <2>7, MacInvOneShot
  <2> QED BY <2>1, <2>2, <2>3, <2>4, <2>5, <2>6, <2>7 DEF Macs!Next
<1> QED BY <1>1, <1>2, PTL DEF Macs!Spec

(* A step of the API is a step of the MAC operation, or leaves it alone. *)
LEMMA ApiRunsMacs == OpsSpec => Macs!Spec
<1>1. OpsInit => Macs!Init
  BY DEF OpsInit
<1>2. [OpsNext]_allvars => [Macs!Next]_(Macs!vars)
  BY DEF OpsNext, allvars, mvars, Macs!vars
<1> QED BY <1>1, <1>2, PTL DEF OpsSpec, Macs!Spec

(* psa_mac_verify_finish() and psa_mac_verify() accept exactly the MACs of     *)
(* this input under this key, of a length that the algorithm asked for       *)
(* covers: the one it names, or any from there to the full one when it has   *)
(* the at-least flag.  The policy of the key allows the length named, not     *)
(* always the greater ones.  psa_mac_sign_finish() and psa_mac_compute()      *)
(* write no MAC but these, and only at a length that the policy allows.      *)
THEOREM MacVerdictsAreExact ==
    ASSUME Macs!ConstantsOK
    PROVE  OpsSpec => []MacVerdictsExact
<1>1. MacSound => MacVerdictsExact
  BY DEF MacSound, MacVerdictsExact
<1> QED BY <1>1, ApiRunsMacs, MacInvariant, PTL

(* The key that wc_HmacSetKey() keeps the address of is held as long as the    *)
(* operation, and none is left behind by any path of wolfpsa_mac_setup().     *)
THEOREM MacKeysAreHeld ==
    ASSUME Macs!ConstantsOK
    PROVE  OpsSpec => []MacKeyBuffersHeld
<1>1. MacSound => MacKeyBuffersHeld
  <2> SUFFICES ASSUME MacSound PROVE Macs!KeyBuffersHeld
    BY DEF MacKeyBuffersHeld
  <2>1. CASE MacIdle(mctx, mbufs)
    BY <2>1 DEF MacIdle, Macs!KeyBuffersHeld
  <2>2. ASSUME NEW k, NEW a, NEW s, MacActive(mctx, mbufs, k, a, s) PROVE Macs!KeyBuffersHeld
    <3>1. mctx # NoCtx /\ mctx.keyRaw = Macs!KeyOwner(a)
      BY <2>2, MacActiveContext
    <3> QED BY <2>2, <3>1 DEF MacActive, Macs!KeyOwner, Macs!KeyBuffersHeld
  <2> QED BY <2>1, <2>2 DEF MacSound, MacOperation
<1> QED BY <1>1, ApiRunsMacs, MacInvariant, PTL

-----------------------------------------------------------------------------
(* Signatures and asymmetric encryption. *)

(* The scheme and the hash that each type of key signs an algorithm with. *)
AsymSchemeOK(type, alg, scheme, hash) ==
    \/ type = "ECC" /\ Asym!PSA_ALG_IS_ECDSA(alg) /\ scheme = "ECDSA" /\ hash = "NONE"
    \/ /\ type = "RSA" /\ alg.cat = "SIGN" /\ hash = alg.hash
       /\ \/ alg.fam = "RSA_PKCS1V15_SIGN" /\ scheme = "PKCSV15"
          \/ alg.fam \in {"RSA_PSS", "RSA_PSS_ANY_SALT"} /\ scheme = "PSS"
    \/ /\ type = "ED25519"
       /\ \/ alg = Asym!Sign("PURE_EDDSA", "NONE") /\ scheme = "Ed25519" /\ hash = "NONE"
          \/ alg = Asym!Sign("EDDSA_CTX", "NONE") /\ scheme = "Ed25519ctx" /\ hash = "NONE"
          \/ alg = Asym!Sign("HASH_EDDSA", "SHA_512") /\ scheme = "Ed25519ph" /\ hash = "SHA_512"
    \/ /\ type = "ED448"
       /\ \/ alg \in {Asym!Sign("PURE_EDDSA", "NONE"), Asym!Sign("EDDSA_CTX", "NONE")}
             /\ scheme = "Ed448" /\ hash = "NONE"
          \/ alg = Asym!Sign("HASH_EDDSA", "SHAKE256_512") /\ scheme = "Ed448ph" /\ hash = "SHAKE256_512"
    \/ /\ type = "ML_DSA"
       /\ \/ /\ alg.fam \in {"ML_DSA", "DETERMINISTIC_ML_DSA"}
             /\ scheme = "ML-DSA" /\ hash = "NONE"
          \/ Asym!PSA_ALG_IS_HASH_ML_DSA(alg) /\ scheme = "HashML-DSA" /\ hash = alg.hash
    \/ type = "LMS" /\ alg = Asym!Sign("LMS", "NONE") /\ scheme = "LMS" /\ hash = "NONE"

(* sig is the signature of d under alg. *)
AsymBinds(key, alg, d, ctx, sig) ==
    \E scheme, hash : /\ AsymSchemeOK(key.type, alg, scheme, hash)
                      /\ sig = Asym!Signature(key, scheme, hash, d, ctx)

(* st is a right verdict on sig. *)
AsymJudges(st, key, alg, d, ctx, sig) ==
    /\ st = "SUCCESS" => AsymBinds(key, alg, d, ctx, sig)
    /\ st = "INVALID_SIGNATURE" =>
        \/ sig.scheme \in {"EMPTY", "SHORT"}
        \/ \E scheme, hash : /\ AsymSchemeOK(key.type, alg, scheme, hash)
                             /\ sig # Asym!Signature(key, scheme, hash, d, ctx)
    /\ st = "FOLDED" => key.type \in {"ECC", "RSA"}

(* A scheme that a back end chose. *)
AsymChosen(s, type, alg, c, ctx) ==
    /\ s.st \notin {"INVALID_SIGNATURE", "FOLDED"}
    /\ s.st = "SUCCESS" => AsymSchemeOK(type, alg, s.scheme, s.hash) /\ c = ctx

-----------------------------------------------------------------------------
(* The schemes of the back ends. *)

LEMMA AsymFailedFails == \A st : Asym!Failed(st).st = st
BY DEF Asym!Failed

LEMMA AsymEccChosen ==
    ASSUME NEW alg, NEW signing, NEW ctx, Asym!wolfpsa_check_context(alg, ctx) = "SUCCESS"
    PROVE  AsymChosen(Asym!EccScheme(alg, signing), "ECC", alg, "", ctx)
BY DEF AsymChosen, Asym!EccScheme, Asym!Scheme, Asym!NoScheme, AsymSchemeOK,
   Asym!PSA_ALG_IS_ECDSA, Asym!wolfpsa_check_context,
       Asym!IsMldsa, Asym!PSA_ALG_IS_HASH_ML_DSA

LEMMA AsymRsaChosen ==
    ASSUME NEW alg, Asym!Identifier(alg), NEW d, NEW ctx,
           Asym!wolfpsa_check_context(alg, ctx) = "SUCCESS"
    PROVE  AsymChosen(Asym!RsaScheme(alg, d), "RSA", alg, "", ctx)
<1>1. ASSUME Asym!RsaScheme(alg, d).st = "SUCCESS"
      PROVE  AsymSchemeOK("RSA", alg, Asym!RsaScheme(alg, d).scheme, Asym!RsaScheme(alg, d).hash) /\ ctx = ""
  <2>1. /\ Asym!wc_psa_get_rsa_padding(alg) \in {"PKCSV15", "PSS"}
        /\ \/ alg = Asym!PSA_ALG_RSA_PKCS1V15_SIGN_RAW
              /\ Asym!RsaScheme(alg, d) = Asym!Scheme("SUCCESS", "PKCSV15", "NONE")
           \/ /\ Asym!wc_psa_get_hash_type(alg) # "NONE"
              /\ Asym!RsaScheme(alg, d)
                   = Asym!Scheme("SUCCESS", Asym!wc_psa_get_rsa_padding(alg), Asym!wc_psa_get_hash_type(alg))
    BY <1>1 DEF Asym!RsaScheme, Asym!NoScheme, Asym!Scheme
  <2>2. alg.fam \in {"RSA_PKCS1V15_SIGN", "RSA_PKCS1V15_CRYPT", "RSA_PSS", "RSA_PSS_ANY_SALT"}
    BY <2>1 DEF Asym!wc_psa_get_rsa_padding
  <2>3. ctx = ""
    BY <2>2 DEF Asym!wolfpsa_check_context, Asym!IsMldsa, Asym!PSA_ALG_IS_HASH_ML_DSA
  <2>4. CASE alg = Asym!PSA_ALG_RSA_PKCS1V15_SIGN_RAW
               /\ Asym!RsaScheme(alg, d) = Asym!Scheme("SUCCESS", "PKCSV15", "NONE")
    <3>1. Asym!RsaScheme(alg, d).scheme = "PKCSV15" /\ Asym!RsaScheme(alg, d).hash = "NONE"
      BY <2>4 DEF Asym!Scheme
    <3>2. alg.cat = "SIGN" /\ alg.fam = "RSA_PKCS1V15_SIGN" /\ alg.hash = "NONE"
      BY <2>4 DEF Asym!PSA_ALG_RSA_PKCS1V15_SIGN_RAW, Asym!Sign
    <3> QED BY <2>3, <3>1, <3>2 DEF AsymSchemeOK
  <2>5. CASE /\ Asym!wc_psa_get_hash_type(alg) # "NONE"
             /\ Asym!RsaScheme(alg, d)
                  = Asym!Scheme("SUCCESS", Asym!wc_psa_get_rsa_padding(alg), Asym!wc_psa_get_hash_type(alg))
    <3>1. Asym!wc_psa_get_hash_type(alg) = alg.hash /\ alg.hash # "NONE"
      BY <2>5 DEF Asym!wc_psa_get_hash_type
    <3>2. alg.cat = "SIGN" /\ alg.fam # "RSA_PKCS1V15_CRYPT"
      BY <2>2, <3>1 DEF Asym!Identifier, Asym!Sign, Asym!Encipher
    <3>3. /\ Asym!RsaScheme(alg, d).scheme = Asym!wc_psa_get_rsa_padding(alg)
          /\ Asym!RsaScheme(alg, d).hash = alg.hash
      BY <2>5, <3>1 DEF Asym!Scheme
    <3>4. Asym!wc_psa_get_rsa_padding(alg)
            = IF alg.fam = "RSA_PKCS1V15_SIGN" THEN "PKCSV15" ELSE "PSS"
      BY <2>1, <2>2, <3>2 DEF Asym!wc_psa_get_rsa_padding
    <3> QED BY <2>2, <2>3, <3>2, <3>3, <3>4 DEF AsymSchemeOK
  <2> QED BY <2>1, <2>4, <2>5
<1>2. Asym!RsaScheme(alg, d).st \notin {"INVALID_SIGNATURE", "FOLDED"}
  BY DEF Asym!RsaScheme, Asym!NoScheme, Asym!Scheme
<1> QED BY <1>1, <1>2 DEF AsymChosen

LEMMA AsymEd25519Chosen ==
    ASSUME NEW alg, NEW d, NEW ctx
    PROVE  AsymChosen(Asym!Ed25519Scheme(alg, ctx, d), "ED25519", alg, ctx, ctx)
<1> DEFINE s == Asym!Ed25519Scheme(alg, ctx, d)
<1>1. s.st \notin {"INVALID_SIGNATURE", "FOLDED"}
  BY DEF Asym!Ed25519Scheme, Asym!NoScheme, Asym!Scheme
<1>2. ASSUME s.st = "SUCCESS"
      PROVE  AsymSchemeOK("ED25519", alg, s.scheme, s.hash)
  <2>1. \/ alg = Asym!Sign("PURE_EDDSA", "NONE") \/ alg = Asym!Sign("EDDSA_CTX", "NONE")
        \/ alg = Asym!Sign("HASH_EDDSA", "SHA_512")
    BY <1>2 DEF Asym!Ed25519Scheme, Asym!NoScheme, Asym!Scheme
  <2>2. s = IF alg.fam = "HASH_EDDSA" THEN Asym!Scheme("SUCCESS", "Ed25519ph", "SHA_512")
            ELSE Asym!Scheme("SUCCESS", IF alg.fam = "EDDSA_CTX" THEN "Ed25519ctx" ELSE "Ed25519", "NONE")
    BY <1>2 DEF Asym!Ed25519Scheme, Asym!NoScheme, Asym!Scheme
  <2> HIDE DEF s
  <2>3. CASE alg = Asym!Sign("PURE_EDDSA", "NONE")
    BY <2>2, <2>3 DEF Asym!Sign, Asym!Scheme, AsymSchemeOK
  <2>4. CASE alg = Asym!Sign("EDDSA_CTX", "NONE")
    BY <2>2, <2>4 DEF Asym!Sign, Asym!Scheme, AsymSchemeOK
  <2>5. CASE alg = Asym!Sign("HASH_EDDSA", "SHA_512")
    BY <2>2, <2>5 DEF Asym!Sign, Asym!Scheme, AsymSchemeOK
  <2> QED BY <2>1, <2>3, <2>4, <2>5
<1> QED BY <1>1, <1>2 DEF AsymChosen

LEMMA AsymEd448Chosen ==
    ASSUME NEW alg, NEW d, NEW ctx
    PROVE  AsymChosen(Asym!Ed448Scheme(alg, ctx, d), "ED448", alg, ctx, ctx)
<1> DEFINE s == Asym!Ed448Scheme(alg, ctx, d)
<1>1. s.st \notin {"INVALID_SIGNATURE", "FOLDED"}
  BY DEF Asym!Ed448Scheme, Asym!NoScheme, Asym!Scheme
<1>2. ASSUME s.st = "SUCCESS"
      PROVE  AsymSchemeOK("ED448", alg, s.scheme, s.hash)
  <2>1. \/ alg = Asym!Sign("PURE_EDDSA", "NONE") \/ alg = Asym!Sign("EDDSA_CTX", "NONE")
        \/ alg = Asym!Sign("HASH_EDDSA", "SHAKE256_512")
    BY <1>2 DEF Asym!Ed448Scheme, Asym!NoScheme, Asym!Scheme
  <2>2. s = IF alg.fam = "HASH_EDDSA" THEN Asym!Scheme("SUCCESS", "Ed448ph", "SHAKE256_512")
            ELSE Asym!Scheme("SUCCESS", "Ed448", "NONE")
    BY <1>2 DEF Asym!Ed448Scheme, Asym!NoScheme, Asym!Scheme
  <2> HIDE DEF s
  <2>3. CASE alg = Asym!Sign("PURE_EDDSA", "NONE")
    BY <2>2, <2>3 DEF Asym!Sign, Asym!Scheme, AsymSchemeOK
  <2>4. CASE alg = Asym!Sign("EDDSA_CTX", "NONE")
    BY <2>2, <2>4 DEF Asym!Sign, Asym!Scheme, AsymSchemeOK
  <2>5. CASE alg = Asym!Sign("HASH_EDDSA", "SHAKE256_512")
    BY <2>2, <2>5 DEF Asym!Sign, Asym!Scheme, AsymSchemeOK
  <2> QED BY <2>1, <2>3, <2>4, <2>5
<1> QED BY <1>1, <1>2 DEF AsymChosen

LEMMA AsymMldsaChosen ==
    ASSUME NEW alg, Asym!IsMldsa(alg), NEW ctx, NEW input_is_hash \in BOOLEAN
    PROVE  AsymChosen(Asym!MldsaScheme(alg, ctx, input_is_hash), "ML_DSA", alg, ctx, ctx)
BY DEF AsymChosen, Asym!MldsaScheme, Asym!NoScheme, Asym!Scheme, AsymSchemeOK, Asym!IsMldsa,
   Asym!PSA_ALG_IS_HASH_ML_DSA

-----------------------------------------------------------------------------
(* What a back end signs, and how it judges. *)

LEMMA AsymSignWithBinds ==
    ASSUME NEW key, NEW alg, NEW s, NEW d, NEW c, NEW ctx, AsymChosen(s, key.type, alg, c, ctx),
           NEW r \in Asym!SignWith(key, s, d, c), r.st = "SUCCESS"
    PROVE  AsymBinds(key, alg, d, ctx, r.out)
<1>1. s.st = "SUCCESS" /\ r = Asym!Made(Asym!Signature(key, s.scheme, s.hash, d, c))
  BY DEF Asym!SignWith, Asym!Failed, Asym!Made, Asym!WolfCryptFails
<1> QED BY <1>1 DEF AsymChosen, AsymBinds, Asym!Made

LEMMA AsymVerifyWithJudges ==
    ASSUME NEW key, NEW alg, NEW s, NEW d, NEW c, NEW ctx, AsymChosen(s, key.type, alg, c, ctx),
           NEW sig, NEW st \in Asym!VerifyWith(key, s, d, c, sig)
    PROVE  AsymJudges(st, key, alg, d, ctx, sig)
<1>1. CASE s.st # "SUCCESS"
  BY <1>1 DEF Asym!VerifyWith, AsymChosen, AsymJudges
<1>2. CASE s.st = "SUCCESS" /\ sig.scheme = "SHORT"
  BY <1>2 DEF Asym!VerifyWith, AsymJudges, Asym!WolfCryptFails
<1>3. CASE s.st = "SUCCESS" /\ sig.scheme # "SHORT"
  <2>1. AsymSchemeOK(key.type, alg, s.scheme, s.hash) /\ c = ctx
    BY <1>3 DEF AsymChosen
  <2>2. st \in {IF sig = Asym!Signature(key, s.scheme, s.hash, d, ctx) THEN "SUCCESS"
                ELSE "INVALID_SIGNATURE"} \union Asym!WolfCryptFails \union Asym!Folded(s.scheme)
    BY <1>3, <2>1 DEF Asym!VerifyWith
  <2>3. st \in Asym!Folded(s.scheme) => st = "FOLDED" /\ key.type \in {"ECC", "RSA"}
    BY <2>1 DEF Asym!Folded, AsymSchemeOK
  <2> QED BY <2>1, <2>2, <2>3 DEF AsymJudges, AsymBinds, Asym!WolfCryptFails
<1> QED BY <1>1, <1>2, <1>3

LEMMA AsymSignBackEndBinds ==
    ASSUME NEW key, key.type \in Asym!KeyTypes \ {"ML_DSA", "LMS"}, key.pair \in BOOLEAN,
           NEW alg, Asym!Identifier(alg), NEW d, NEW ctx,
           Asym!wolfpsa_check_context(alg, ctx) = "SUCCESS",
           NEW r \in Asym!SignBackEnd(key, alg, d, ctx), r.st = "SUCCESS"
    PROVE  AsymBinds(key, alg, d, ctx, r.out)
<1>1. CASE key.type = "RSA"
  <2>1. r \in Asym!SignWith(key, Asym!RsaScheme(alg, d), d, "")
    BY <1>1, AsymFailedFails DEF Asym!SignBackEnd, Asym!psa_asymmetric_sign_rsa
  <2> QED BY <1>1, <2>1, AsymRsaChosen, AsymSignWithBinds
<1>2. CASE key.type = "ED25519" /\ key.pair
  <2>1. r \in Asym!SignWith(key, Asym!Ed25519Scheme(alg, ctx, d), d, ctx)
    BY <1>2 DEF Asym!SignBackEnd, Asym!psa_asymmetric_sign_ed25519
  <2> QED BY <1>2, <2>1, AsymEd25519Chosen, AsymSignWithBinds
<1>3. CASE key.type = "ED448" /\ key.pair
  <2>1. r \in Asym!SignWith(key, Asym!Ed448Scheme(alg, ctx, d), d, ctx)
    BY <1>3 DEF Asym!SignBackEnd, Asym!psa_asymmetric_sign_ed448
  <2> QED BY <1>3, <2>1, AsymEd448Chosen, AsymSignWithBinds
<1>4. CASE key.type # "RSA" /\ ~(key.type \in {"ED25519", "ED448"} /\ key.pair)
  <2>1. r \in Asym!psa_asymmetric_sign_ecc(key, alg, d)
    BY <1>4 DEF Asym!SignBackEnd
  <2>2. key.type = "ECC" /\ r \in Asym!SignWith(key, Asym!EccScheme(alg, TRUE), d, "")
    BY <1>4, <2>1, AsymFailedFails DEF Asym!psa_asymmetric_sign_ecc, Asym!KeyTypes
  <2> QED BY <2>2, AsymEccChosen, AsymSignWithBinds
<1> QED BY <1>1, <1>2, <1>3, <1>4

LEMMA AsymVerifyBackEndJudges ==
    ASSUME NEW key, key.type \in Asym!KeyTypes \ {"ML_DSA", "LMS"}, NEW alg,
           Asym!Identifier(alg), NEW d,
           NEW ctx, Asym!wolfpsa_check_context(alg, ctx) = "SUCCESS", NEW sig,
           NEW st \in Asym!VerifyBackEnd(key, alg, d, ctx, sig)
    PROVE  AsymJudges(st, key, alg, d, ctx, sig)
<1>1. CASE key.type = "RSA"
  <2>1. \/ sig.scheme = "SHORT" /\ st \in {"INVALID_SIGNATURE"} \union Asym!WolfCryptFails
        \/ st \in Asym!VerifyWith(key, Asym!RsaScheme(alg, d), d, "", sig)
    BY <1>1 DEF Asym!VerifyBackEnd, Asym!psa_asymmetric_verify_rsa
  <2>2. CASE sig.scheme = "SHORT" /\ st \in {"INVALID_SIGNATURE"} \union Asym!WolfCryptFails
    BY <2>2 DEF AsymJudges, Asym!WolfCryptFails
  <2>3. CASE st \in Asym!VerifyWith(key, Asym!RsaScheme(alg, d), d, "", sig)
    BY <1>1, <2>3, AsymRsaChosen, AsymVerifyWithJudges
  <2> QED BY <2>1, <2>2, <2>3
<1>2. CASE key.type = "ED25519"
  <2>1. st \in Asym!VerifyWith(key, Asym!Ed25519Scheme(alg, ctx, d), d, ctx, sig)
    BY <1>2 DEF Asym!VerifyBackEnd, Asym!psa_asymmetric_verify_ed25519
  <2> QED BY <1>2, <2>1, AsymEd25519Chosen, AsymVerifyWithJudges
<1>3. CASE key.type = "ED448"
  <2>1. st \in Asym!VerifyWith(key, Asym!Ed448Scheme(alg, ctx, d), d, ctx, sig)
    BY <1>3 DEF Asym!VerifyBackEnd, Asym!psa_asymmetric_verify_ed448
  <2> QED BY <1>3, <2>1, AsymEd448Chosen, AsymVerifyWithJudges
<1>4. CASE key.type = "ECC"
  <2>1. st \in Asym!VerifyWith(key, Asym!EccScheme(alg, FALSE), d, "", sig)
    BY <1>4 DEF Asym!VerifyBackEnd, Asym!psa_asymmetric_verify_ecc
  <2> QED BY <1>4, <2>1, AsymEccChosen, AsymVerifyWithJudges
<1> QED BY <1>1, <1>2, <1>3, <1>4 DEF Asym!KeyTypes

-----------------------------------------------------------------------------
(* The entry points. *)

LEMMA AsymPrehashSigned ==
    ASSUME NEW alg, Asym!Identifier(alg), NEW m, Asym!Prehash(alg, m).st = "SUCCESS",
           NEW in, in.entry = "message", in.d = Asym!Digest("NONE", m)
    PROVE  Asym!Prehash(alg, m).d = Asym!Signed(alg, in)
BY DEF Asym!Prehash, Asym!Signed, Asym!Digest, Asym!PSA_ALG_SIGN_GET_HASH,
   Asym!PSA_ALG_RSA_PKCS1V15_SIGN_RAW, Asym!Sign

(* A call that fits: what a successful signature shows. *)
AsymSigns(key, alg, in, ctx, room, r) ==
    AsymBinds(key, alg, Asym!Signed(alg, in), ctx, r.out) /\ key.type # "LMS" /\ ~(room < SigLens[key.type])

LEMMA AsymMldsaSigns ==
    ASSUME NEW key, key.type = "ML_DSA", NEW alg, Asym!IsMldsa(alg), NEW ctx, NEW d, NEW room,
           NEW input_is_hash \in BOOLEAN,
           NEW r \in Asym!wolfpsa_mldsa_sign(key, alg, ctx, d, input_is_hash, room),
             r.st = "SUCCESS"
    PROVE  AsymBinds(key, alg, d, ctx, r.out) /\ ~(room < SigLens["ML_DSA"])
<1>1. /\ ~(ctx # "long" /\ room < SigLens["ML_DSA"])
      /\ r \in Asym!SignWith(key, Asym!MldsaScheme(alg, ctx, input_is_hash), d, ctx)
  BY DEF Asym!wolfpsa_mldsa_sign, Asym!Failed
<1>2. Asym!MldsaScheme(alg, ctx, input_is_hash).st = "SUCCESS"
  BY <1>1 DEF Asym!SignWith, Asym!Failed
<1>3. ctx # "long"
  BY <1>2 DEF Asym!MldsaScheme, Asym!NoScheme, Asym!Scheme
<1> QED BY <1>1, <1>3, AsymMldsaChosen, AsymSignWithBinds

LEMMA AsymHashSigns ==
    ASSUME Asym!ConstantsOK, NEW key \in SignKeys, NEW alg \in SignRequests[key.type], NEW in,
           in.entry = "hash", NEW ctx, NEW room,
           NEW r \in Asym!wolfpsa_sign_hash_worker(key, alg, in.d, ctx, room), r.st = "SUCCESS"
    PROVE  AsymSigns(key, alg, in, ctx, room, r)
<1>1. /\ Asym!wolfpsa_check_context(alg, ctx) = "SUCCESS"
      /\ r \in IF key.type = "ML_DSA" THEN
                  (IF Asym!PSA_ALG_IS_HASH_ML_DSA(alg) /\ key.pair
                   THEN Asym!wolfpsa_mldsa_sign(key, alg, ctx, in.d, TRUE, room)
                   ELSE {Asym!Failed("INVALID_ARGUMENT")})
               ELSE IF ~Asym!PSA_ALG_IS_SIGN_HASH(alg) \/ key.type = "LMS"
               THEN {Asym!Failed("INVALID_ARGUMENT")}
               ELSE IF room < SigLens[key.type] THEN {Asym!Failed("BUFFER_TOO_SMALL")}
               ELSE Asym!SignBackEnd(key, alg, in.d, ctx)
  BY AsymFailedFails, ZenonT(30) DEF Asym!wolfpsa_sign_hash_worker
<1>2. Asym!Identifier(alg) /\ key.type \in Asym!KeyTypes /\ key.pair \in BOOLEAN
  BY DEF Asym!ConstantsOK
<1>3. Asym!Signed(alg, in) = in.d
  BY DEF Asym!Signed
<1>4. CASE key.type = "ML_DSA"
  <2>1. Asym!PSA_ALG_IS_HASH_ML_DSA(alg) /\ r \in Asym!wolfpsa_mldsa_sign(key, alg, ctx, in.d, TRUE, room)
    BY <1>1, <1>4, AsymFailedFails
  <2>2. Asym!IsMldsa(alg)
    BY <2>1 DEF Asym!IsMldsa
  <2> QED BY <1>3, <1>4, <2>1, <2>2, AsymMldsaSigns DEF AsymSigns
<1>5. CASE key.type # "ML_DSA"
  <2>1. key.type # "LMS" /\ ~(room < SigLens[key.type]) /\ r \in Asym!SignBackEnd(key, alg, in.d, ctx)
    BY <1>1, <1>5, AsymFailedFails
  <2> QED BY <1>1, <1>2, <1>3, <1>5, <2>1, AsymSignBackEndBinds DEF AsymSigns
<1> QED BY <1>4, <1>5

LEMMA AsymRawMessage ==
    ASSUME NEW alg, alg.hash = "NONE", NEW in, NEW m, in.d = Asym!Digest("NONE", m)
    PROVE  Asym!Signed(alg, in) = Asym!Digest("NONE", m)
BY DEF Asym!Signed

LEMMA AsymMldsaRaw ==
    ASSUME NEW alg, Asym!Identifier(alg), Asym!IsMldsa(alg), ~Asym!PSA_ALG_IS_HASH_ML_DSA(alg)
    PROVE  alg.hash = "NONE"
BY DEF Asym!IsMldsa, Asym!Identifier, Asym!Hashless, Asym!Sign, Asym!Encipher

LEMMA AsymMldsaHashed ==
    ASSUME NEW alg, NEW in, in.entry = "message", NEW m, in.d = Asym!Digest("NONE", m)
    PROVE  Asym!Mldsa_prehash(alg, m).d = Asym!Signed(alg, in)
BY DEF Asym!Mldsa_prehash, Asym!Signed, Asym!Digest

LEMMA AsymMessageSigns ==
    ASSUME Asym!ConstantsOK, NEW key \in SignKeys, NEW alg \in SignRequests[key.type], NEW in,
           NEW m,
           in.entry = "message", in.d = Asym!Digest("NONE", m), NEW ctx, NEW room,
           NEW r \in Asym!wolfpsa_sign_message_worker(key, alg, m, ctx, room), r.st = "SUCCESS"
    PROVE  AsymSigns(key, alg, in, ctx, room, r)
<1> DEFINE pre == IF key.type = "ML_DSA" THEN Asym!Mldsa_prehash(alg, m) ELSE Asym!Prehash(alg, m)
<1> DEFINE worked ==
               IF key.type = "ML_DSA" THEN
                  (IF ~Asym!IsMldsa(alg) \/ ~key.pair THEN {Asym!Failed("INVALID_ARGUMENT")}
                   ELSE IF ~Asym!PSA_ALG_IS_HASH_ML_DSA(alg)
                   THEN Asym!wolfpsa_mldsa_sign(key, alg, ctx, Asym!Digest("NONE", m), FALSE, room)
                   ELSE IF pre.st # "SUCCESS" THEN {Asym!Failed(pre.st)}
                   ELSE Asym!wolfpsa_mldsa_sign(key, alg, ctx, pre.d, TRUE, room))
               ELSE IF key.type = "LMS" THEN {Asym!Failed("INVALID_ARGUMENT")}
               ELSE IF alg.fam \in {"PURE_EDDSA", "EDDSA_CTX"} /\ Asym!IsEdwards(key) /\ key.pair
               THEN Asym!SignBackEnd(key, alg, Asym!Digest("NONE", m), ctx)
               ELSE IF pre.st # "SUCCESS" THEN {Asym!Failed(pre.st)}
               ELSE Asym!SignBackEnd(key, alg, pre.d, ctx)
<1>1. /\ Asym!wolfpsa_check_context(alg, ctx) = "SUCCESS"
      /\ ~(key.type # "LMS" /\ room < SigLens[key.type])
      /\ r \in worked
  <2>1. PICK v \in Asym!wolfpsa_asymmetric_check_key(key, "SIGN_MESSAGE", alg) :
           r \in IF v # "SUCCESS" THEN {Asym!Failed(v)}
                 ELSE IF Asym!wolfpsa_check_context(alg, ctx) # "SUCCESS"
                 THEN {Asym!Failed("INVALID_ARGUMENT")}
                 ELSE IF key.type # "LMS" /\ room < SigLens[key.type]
                 THEN {Asym!Failed("BUFFER_TOO_SMALL")} ELSE worked
    BY DEF Asym!wolfpsa_sign_message_worker
  <2> HIDE DEF worked
  <2> QED BY <2>1, AsymFailedFails
<1>2. Asym!Identifier(alg) /\ key.type \in Asym!KeyTypes /\ key.pair \in BOOLEAN
  BY DEF Asym!ConstantsOK
<1>3. CASE key.type = "ML_DSA"
  <2>1. /\ Asym!IsMldsa(alg)
        /\ r \in IF ~Asym!PSA_ALG_IS_HASH_ML_DSA(alg)
                 THEN Asym!wolfpsa_mldsa_sign(key, alg, ctx, Asym!Digest("NONE", m), FALSE, room)
                 ELSE Asym!wolfpsa_mldsa_sign(key, alg, ctx, pre.d, TRUE, room)
    BY <1>1, <1>3, AsymFailedFails
  <2>2. CASE ~Asym!PSA_ALG_IS_HASH_ML_DSA(alg)
    <3>1. Asym!Signed(alg, in) = Asym!Digest("NONE", m)
      BY <1>2, <2>1, <2>2, AsymMldsaRaw, AsymRawMessage
    <3>2. r \in Asym!wolfpsa_mldsa_sign(key, alg, ctx, Asym!Signed(alg, in), FALSE, room)
      BY <2>1, <2>2, <3>1
    <3> QED BY <1>3, <2>1, <3>2, AsymMldsaSigns DEF AsymSigns
  <2>3. CASE Asym!PSA_ALG_IS_HASH_ML_DSA(alg)
    <3>1. Asym!Signed(alg, in) = pre.d
      BY <1>3, AsymMldsaHashed
    <3>2. r \in Asym!wolfpsa_mldsa_sign(key, alg, ctx, Asym!Signed(alg, in), TRUE, room)
      BY <2>1, <2>3, <3>1
    <3> QED BY <1>3, <2>1, <3>2, AsymMldsaSigns DEF AsymSigns
  <2> QED BY <2>2, <2>3
<1>4. CASE key.type # "ML_DSA"
  <2>1. /\ key.type # "LMS"
        /\ r \in IF alg.fam \in {"PURE_EDDSA", "EDDSA_CTX"} /\ Asym!IsEdwards(key) /\ key.pair
                 THEN Asym!SignBackEnd(key, alg, Asym!Digest("NONE", m), ctx)
                 ELSE IF pre.st # "SUCCESS" THEN {Asym!Failed(pre.st)}
                 ELSE Asym!SignBackEnd(key, alg, pre.d, ctx)
    BY <1>1, <1>4, AsymFailedFails
  <2>2. r \in Asym!SignBackEnd(key, alg, Asym!Signed(alg, in), ctx)
    <3>1. CASE alg.fam \in {"PURE_EDDSA", "EDDSA_CTX"} /\ Asym!IsEdwards(key) /\ key.pair
      <4>1. alg.hash = "NONE"
        BY <1>2, <3>1 DEF Asym!Identifier, Asym!Hashless, Asym!Encipher
      <4> QED BY <2>1, <3>1, <4>1, AsymRawMessage
    <3>2. CASE ~(alg.fam \in {"PURE_EDDSA", "EDDSA_CTX"} /\ Asym!IsEdwards(key) /\ key.pair)
      <4>1. pre.st = "SUCCESS" /\ r \in Asym!SignBackEnd(key, alg, pre.d, ctx)
        BY <2>1, <3>2, AsymFailedFails
      <4> QED BY <1>2, <1>4, <4>1, AsymPrehashSigned
    <3> QED BY <3>1, <3>2
  <2> QED BY <1>1, <1>2, <1>4, <2>1, <2>2, AsymSignBackEndBinds DEF AsymSigns
<1> QED BY <1>3, <1>4

LEMMA AsymHashJudges ==
    ASSUME Asym!ConstantsOK, NEW key \in SignKeys, NEW alg \in SignRequests[key.type], NEW in,
           in.entry = "hash", NEW ctx, NEW sig,
           NEW st \in Asym!wolfpsa_verify_hash_worker(key, alg, in.d, ctx, sig)
    PROVE  AsymJudges(st, key, alg, Asym!Signed(alg, in), ctx, sig)
<1> DEFINE worked ==
               IF key.type = "ML_DSA" THEN
                  (IF Asym!PSA_ALG_IS_HASH_ML_DSA(alg)
                   THEN Asym!wolfpsa_mldsa_verify(key, alg, ctx, in.d, TRUE, sig)
                   ELSE {"INVALID_ARGUMENT"})
               ELSE IF ~Asym!PSA_ALG_IS_SIGN_HASH(alg) \/ key.type = "LMS" THEN {"INVALID_ARGUMENT"}
               ELSE Asym!VerifyBackEnd(key, alg, in.d, ctx, sig)
<1>1. \/ st \in {"INVALID_HANDLE", "NOT_PERMITTED", "INVALID_ARGUMENT"}
      \/ sig.scheme = "EMPTY" /\ st = "INVALID_SIGNATURE"
      \/ Asym!wolfpsa_check_context(alg, ctx) = "SUCCESS" /\ st \in worked
  <2>1. PICK v \in Asym!wolfpsa_asymmetric_check_key(key, "VERIFY_HASH", alg) :
           st \in IF v # "SUCCESS" THEN {v}
                  ELSE IF sig.scheme = "EMPTY" THEN {"INVALID_SIGNATURE"}
                  ELSE IF Asym!wolfpsa_check_context(alg, ctx) # "SUCCESS" THEN {"INVALID_ARGUMENT"}
                  ELSE worked
    BY DEF Asym!wolfpsa_verify_hash_worker
  <2> HIDE DEF worked
  <2> QED BY <2>1 DEF Asym!wolfpsa_asymmetric_check_key
<1>2. Asym!Identifier(alg) /\ key.type \in Asym!KeyTypes
  BY DEF Asym!ConstantsOK
<1>3. Asym!Signed(alg, in) = in.d
  BY DEF Asym!Signed
<1>4. CASE st \in {"INVALID_HANDLE", "NOT_PERMITTED", "INVALID_ARGUMENT"}
  BY <1>4 DEF AsymJudges
<1>5. CASE sig.scheme = "EMPTY" /\ st = "INVALID_SIGNATURE"
  BY <1>5 DEF AsymJudges
<1>6. CASE Asym!wolfpsa_check_context(alg, ctx) = "SUCCESS" /\ st \in worked /\ st # "INVALID_ARGUMENT"
  <2>1. CASE key.type = "ML_DSA"
    <3>1. /\ Asym!PSA_ALG_IS_HASH_ML_DSA(alg)
          /\ st \in Asym!VerifyWith(key, Asym!MldsaScheme(alg, ctx, TRUE), in.d, ctx, sig)
      BY <1>6, <2>1 DEF Asym!wolfpsa_mldsa_verify
    <3>2. AsymChosen(Asym!MldsaScheme(alg, ctx, TRUE), key.type, alg, ctx, ctx)
      BY <2>1, <3>1, AsymMldsaChosen DEF Asym!IsMldsa
    <3> QED BY <1>3, <3>1, <3>2, AsymVerifyWithJudges
  <2>2. CASE key.type # "ML_DSA"
    <3>1. key.type # "LMS" /\ st \in Asym!VerifyBackEnd(key, alg, in.d, ctx, sig)
      BY <1>6, <2>2
    <3> QED BY <1>2, <1>3, <1>6, <2>2, <3>1, AsymVerifyBackEndJudges
  <2> QED BY <2>1, <2>2
<1> QED BY <1>1, <1>4, <1>5, <1>6

LEMMA AsymMessageJudges ==
    ASSUME Asym!ConstantsOK, NEW key \in SignKeys, NEW alg \in SignRequests[key.type], NEW in,
           NEW m,
           in.entry = "message", in.d = Asym!Digest("NONE", m), NEW ctx, NEW sig,
           NEW st \in Asym!wolfpsa_verify_message_worker(key, alg, m, ctx, sig)
    PROVE  AsymJudges(st, key, alg, Asym!Signed(alg, in), ctx, sig)
<1> DEFINE pre == IF key.type = "ML_DSA" THEN Asym!Mldsa_prehash(alg, m) ELSE Asym!Prehash(alg, m)
<1> DEFINE worked ==
               IF key.type = "ML_DSA" THEN
                  (IF ~Asym!IsMldsa(alg) THEN {"INVALID_ARGUMENT"}
                   ELSE IF ~Asym!PSA_ALG_IS_HASH_ML_DSA(alg)
                   THEN Asym!wolfpsa_mldsa_verify(key, alg, ctx, Asym!Digest("NONE", m), FALSE, sig)
                   ELSE IF pre.st # "SUCCESS" THEN {pre.st}
                   ELSE Asym!wolfpsa_mldsa_verify(key, alg, ctx, pre.d, TRUE, sig))
               ELSE IF key.type = "LMS" THEN
                  (IF alg # Asym!Sign("LMS", "NONE") THEN {"INVALID_ARGUMENT"}
                   ELSE Asym!wolfpsa_lms_verify(key, Asym!Digest("NONE", m), sig))
               ELSE IF alg.fam \in {"PURE_EDDSA", "EDDSA_CTX"} /\ Asym!IsEdwards(key)
               THEN Asym!VerifyBackEnd(key, alg, Asym!Digest("NONE", m), ctx, sig)
               ELSE IF pre.st # "SUCCESS" THEN {pre.st}
               ELSE Asym!VerifyBackEnd(key, alg, pre.d, ctx, sig)
<1>1. \/ st \in {"INVALID_HANDLE", "NOT_PERMITTED", "INVALID_ARGUMENT"}
      \/ sig.scheme = "EMPTY" /\ st = "INVALID_SIGNATURE"
      \/ Asym!wolfpsa_check_context(alg, ctx) = "SUCCESS" /\ st \in worked
  <2>1. PICK v \in Asym!wolfpsa_asymmetric_check_key(key, "VERIFY_MESSAGE", alg) :
           st \in IF v # "SUCCESS" THEN {v}
                  ELSE IF sig.scheme = "EMPTY" THEN {"INVALID_SIGNATURE"}
                  ELSE IF Asym!wolfpsa_check_context(alg, ctx) # "SUCCESS" THEN {"INVALID_ARGUMENT"}
                  ELSE worked
    BY DEF Asym!wolfpsa_verify_message_worker
  <2> HIDE DEF worked
  <2> QED BY <2>1 DEF Asym!wolfpsa_asymmetric_check_key
<1>2. Asym!Identifier(alg) /\ key.type \in Asym!KeyTypes
  BY DEF Asym!ConstantsOK
<1>3. pre.st \in {"SUCCESS", "INVALID_ARGUMENT", "NOT_SUPPORTED"}
  BY DEF Asym!Mldsa_prehash, Asym!Prehash
<1>4. CASE st \in {"INVALID_HANDLE", "NOT_PERMITTED", "INVALID_ARGUMENT", "NOT_SUPPORTED"}
  BY <1>4 DEF AsymJudges
<1>5. CASE sig.scheme = "EMPTY" /\ st = "INVALID_SIGNATURE"
  BY <1>5 DEF AsymJudges
<1>6. CASE /\ Asym!wolfpsa_check_context(alg, ctx) = "SUCCESS" /\ st \in worked
           /\ st \notin {"INVALID_ARGUMENT", "NOT_SUPPORTED"}
  <2>1. CASE key.type = "ML_DSA"
    <3> HIDE DEF pre
    <3>1. /\ Asym!IsMldsa(alg)
          /\ st \in IF ~Asym!PSA_ALG_IS_HASH_ML_DSA(alg)
                    THEN Asym!wolfpsa_mldsa_verify(key, alg, ctx, Asym!Digest("NONE", m), FALSE, sig)
                    ELSE Asym!wolfpsa_mldsa_verify(key, alg, ctx, pre.d, TRUE, sig)
      BY <1>3, <1>6, <2>1
    <3>2. Asym!Signed(alg, in) = IF ~Asym!PSA_ALG_IS_HASH_ML_DSA(alg) THEN Asym!Digest("NONE", m) ELSE pre.d
      BY <1>2, <2>1, <3>1, AsymMldsaRaw, AsymRawMessage, AsymMldsaHashed DEF pre
    <3>3. PICK input_is_hash \in BOOLEAN :
             st \in Asym!VerifyWith(key, Asym!MldsaScheme(alg, ctx, input_is_hash), Asym!Signed(alg, in), ctx, sig)
      BY <3>1, <3>2 DEF Asym!wolfpsa_mldsa_verify
    <3>4. AsymChosen(Asym!MldsaScheme(alg, ctx, input_is_hash), key.type, alg, ctx, ctx)
      BY <2>1, <3>1, AsymMldsaChosen
    <3> QED BY <3>3, <3>4, AsymVerifyWithJudges
  <2>2. CASE key.type = "LMS"
    <3> DEFINE s == Asym!Scheme("SUCCESS", "LMS", "NONE")
    <3>1. alg = Asym!Sign("LMS", "NONE") /\ st \in Asym!VerifyWith(key, s, Asym!Digest("NONE", m), "", sig)
      BY <1>6, <2>2 DEF Asym!wolfpsa_lms_verify
    <3>2. Asym!Signed(alg, in) = Asym!Digest("NONE", m)
      BY <3>1, AsymRawMessage DEF Asym!Sign
    <3>3. ctx = ""
      BY <1>6, <3>1 DEF Asym!wolfpsa_check_context, Asym!Sign, Asym!IsMldsa,
         Asym!PSA_ALG_IS_HASH_ML_DSA
    <3>4. s.st = "SUCCESS" /\ s.scheme = "LMS" /\ s.hash = "NONE"
      BY DEF Asym!Scheme
    <3>5. AsymChosen(s, key.type, alg, "", ctx)
      BY <2>2, <3>1, <3>3, <3>4 DEF AsymChosen, AsymSchemeOK
    <3> HIDE DEF s
    <3> QED BY <3>1, <3>2, <3>5, AsymVerifyWithJudges
  <2>3. CASE key.type \notin {"ML_DSA", "LMS"}
    <3>1. st \in Asym!VerifyBackEnd(key, alg, Asym!Signed(alg, in), ctx, sig)
      <4>1. CASE alg.fam \in {"PURE_EDDSA", "EDDSA_CTX"} /\ Asym!IsEdwards(key)
        <5>1. alg.hash = "NONE"
          BY <1>2, <4>1 DEF Asym!Identifier, Asym!Hashless, Asym!Encipher
        <5> QED BY <1>6, <2>3, <4>1, <5>1, AsymRawMessage
      <4>2. CASE ~(alg.fam \in {"PURE_EDDSA", "EDDSA_CTX"} /\ Asym!IsEdwards(key))
        <5>1. pre.st = "SUCCESS" /\ st \in Asym!VerifyBackEnd(key, alg, pre.d, ctx, sig)
          <6> HIDE DEF pre
          <6> QED BY <1>3, <1>6, <2>3, <4>2
        <5> QED BY <1>2, <2>3, <5>1, AsymPrehashSigned
      <4> QED BY <4>1, <4>2
    <3> QED BY <1>2, <1>6, <2>3, <3>1, AsymVerifyBackEndJudges
  <2> QED BY <2>1, <2>2, <2>3
<1> QED BY <1>1, <1>4, <1>5, <1>6

-----------------------------------------------------------------------------
(* Schemes and algorithms. *)

(* Signatures of one scheme come from algorithms of one scheme. *)
LEMMA AsymSchemeTellsAlgorithm ==
    ASSUME NEW t, NEW a, Asym!Identifier(a), NEW b, Asym!Identifier(b), NEW scheme, NEW hash,
           AsymSchemeOK(t, a, scheme, hash), AsymSchemeOK(t, b, scheme, hash)
    PROVE  Asym!SameScheme(t, a, b)
<1>1. CASE t = "ECC"
  BY <1>1 DEF AsymSchemeOK, Asym!SameScheme
<1>2. CASE t = "RSA"
  <2>1. a.hash = b.hash /\ a.cat = "SIGN" /\ b.cat = "SIGN"
    BY <1>2 DEF AsymSchemeOK
  <2>2. a = Asym!Sign(a.fam, a.hash) /\ b = Asym!Sign(b.fam, b.hash)
    BY <2>1 DEF Asym!Identifier, Asym!Encipher
  <2>3. \/ a.fam = b.fam \/ {a.fam, b.fam} \subseteq {"RSA_PSS", "RSA_PSS_ANY_SALT"}
    BY <1>2 DEF AsymSchemeOK
  <2> QED BY <2>1, <2>2, <2>3 DEF Asym!SameScheme
<1>3. CASE t = "ED25519"
  BY <1>3 DEF AsymSchemeOK, Asym!SameScheme
<1>4. CASE t = "ED448"
  <2>1. \/ a = b
        \/ /\ a \in {Asym!Sign("PURE_EDDSA", "NONE"), Asym!Sign("EDDSA_CTX", "NONE")}
           /\ b \in {Asym!Sign("PURE_EDDSA", "NONE"), Asym!Sign("EDDSA_CTX", "NONE")}
    BY <1>4 DEF AsymSchemeOK
  <2>2. a = b \/ {a.fam, b.fam} \subseteq {"PURE_EDDSA", "EDDSA_CTX"}
    BY <2>1 DEF Asym!Sign
  <2> QED BY <1>4, <2>2 DEF Asym!SameScheme
<1>5. CASE t = "ML_DSA"
  BY <1>5 DEF AsymSchemeOK, Asym!SameScheme
<1>6. CASE t = "LMS"
  BY <1>6 DEF AsymSchemeOK, Asym!SameScheme
<1> QED BY <1>1, <1>2, <1>3, <1>4, <1>5, <1>6 DEF AsymSchemeOK

(* And algorithms of one scheme make signatures of one scheme. *)
LEMMA AsymAlgorithmTellsScheme ==
    ASSUME NEW t, NEW a, Asym!Identifier(a), NEW b, Asym!Identifier(b),
           Asym!SameScheme(t, a, b),
           NEW s1, NEW h1, AsymSchemeOK(t, a, s1, h1), NEW s2, NEW h2,
             AsymSchemeOK(t, b, s2, h2)
    PROVE  s1 = s2 /\ h1 = h2
<1>1. CASE t = "ECC"
  BY <1>1 DEF AsymSchemeOK
<1>2. CASE t = "RSA"
  BY <1>2 DEF AsymSchemeOK, Asym!SameScheme, Asym!PSA_ALG_IS_ECDSA, Asym!PSA_ALG_IS_HASH_ML_DSA
<1>3. CASE t = "ED25519"
  <2>1. a = b
    BY <1>3 DEF AsymSchemeOK, Asym!SameScheme, Asym!PSA_ALG_IS_ECDSA,
       Asym!PSA_ALG_IS_HASH_ML_DSA, Asym!Sign
  <2> QED BY <1>3, <2>1 DEF AsymSchemeOK, Asym!Sign
<1>4. CASE t = "ED448"
  <2>1. a.fam = "HASH_EDDSA" <=> b.fam = "HASH_EDDSA"
    BY <1>4 DEF AsymSchemeOK, Asym!SameScheme, Asym!PSA_ALG_IS_ECDSA,
       Asym!PSA_ALG_IS_HASH_ML_DSA, Asym!Sign
  <2> QED BY <1>4, <2>1 DEF AsymSchemeOK, Asym!Sign
<1>5. CASE t = "ML_DSA"
  BY <1>5 DEF AsymSchemeOK, Asym!SameScheme, Asym!PSA_ALG_IS_ECDSA, Asym!PSA_ALG_IS_HASH_ML_DSA,
     Asym!Identifier,
              Asym!Sign, Asym!Encipher
<1>6. CASE t = "LMS"
  BY <1>6 DEF AsymSchemeOK
<1> QED BY <1>1, <1>2, <1>3, <1>4, <1>5, <1>6 DEF AsymSchemeOK

(* No signature is malformed. *)
LEMMA AsymSchemesAreReal ==
    ASSUME NEW t, NEW a, NEW scheme, NEW hash, AsymSchemeOK(t, a, scheme, hash)
    PROVE  scheme \notin {"EMPTY", "SHORT"}
BY DEF AsymSchemeOK

-----------------------------------------------------------------------------
(* The inductive invariant: what was made binds what it was made from. *)

AsymSignatureBinds ==
    sent.call = "sign" =>
        /\ sent.key \in SignKeys /\ sent.alg \in SignRequests[sent.key.type]
        /\ AsymBinds(sent.key, sent.alg, Asym!Signed(sent.alg, sent.in), sent.ctx, sent.out)

AsymCiphertextBinds ==
    sent.call = "encrypt" =>
        /\ sent.key \in SignKeys /\ sent.alg \in SignRequests[sent.key.type] /\ sent.m \in Asym!Messages
        /\ Asym!CryptStatus(sent.alg) = "SUCCESS"
        /\ sent.out = Asym!Ciphertext(sent.key, sent.alg, sent.m, sent.label)

AsymInv == AsymSignatureBinds /\ AsymCiphertextBinds /\ Asym!VerdictsExact /\ Asym!OutputsRight

LEMMA AsymRoomTypes ==
    ASSUME Asym!ConstantsOK
    PROVE  /\ Asym!Rooms \subseteq Nat
           /\ \A t \in Asym!KeyTypes \ {"LMS"} : SigLens[t] \in Nat
           /\ \A m \in Asym!Messages : MsgLens[m] \in Nat
BY DEF Asym!ConstantsOK, Asym!Rooms, Asym!Messages

(* The three ways to be idle. *)
LEMMA AsymInvInit == Asym!Init => AsymInv
BY DEF Asym!Init, AsymInv, AsymSignatureBinds, AsymCiphertextBinds, Asym!VerdictsExact,
   Asym!OutputsRight,
       Asym!AcceptedWasSigned, Asym!SignedIsAccepted, Asym!SignatureFits,
         Asym!DecryptsWhatWasSent

LEMMA AsymInvForget ==
    ASSUME Asym!Forget
    PROVE  AsymInv'
BY DEF Asym!Forget, AsymInv, AsymSignatureBinds, AsymCiphertextBinds, Asym!VerdictsExact,
   Asym!OutputsRight,
       Asym!AcceptedWasSigned, Asym!SignedIsAccepted, Asym!SignatureFits,
         Asym!DecryptsWhatWasSent

LEMMA AsymInputCases ==
    ASSUME NEW in \in Asym!Inputs
    PROVE  \/ in.entry = "hash"
           \/ in.entry = "message" /\ in.d = Asym!Digest("NONE", in.d.m)
BY DEF Asym!Inputs, Asym!Digest

LEMMA AsymInvSign ==
    ASSUME Asym!ConstantsOK, AsymInv, NEW key \in SignKeys, NEW alg \in SignRequests[key.type],
           NEW in \in Asym!Inputs,
           NEW ctx, NEW room \in Asym!Rooms, Asym!psa_sign(key, alg, in, ctx, room)
    PROVE  AsymInv'
<1>1. PICK r : /\ r \in IF in.entry = "hash"
                        THEN Asym!wolfpsa_sign_hash_worker(key, alg, in.d, ctx, room)
                        ELSE Asym!wolfpsa_sign_message_worker(key, alg, in.d.m, ctx, room)
               /\ r.st = "SUCCESS"
               /\ sent' = [call |-> "sign", key |-> key, alg |-> alg, in |-> in, ctx |-> ctx,
                           out |-> r.out, fits |-> room >= SigLens[key.type]]
  BY DEF Asym!psa_sign
<1>2. AsymSigns(key, alg, in, ctx, room, r)
  BY <1>1, AsymInputCases, AsymHashSigns, AsymMessageSigns
<1>3. room >= SigLens[key.type]
  <2>1. key.type \in Asym!KeyTypes \ {"LMS"} /\ ~(room < SigLens[key.type])
    BY <1>2 DEF AsymSigns, Asym!ConstantsOK
  <2>2. room \in Nat /\ SigLens[key.type] \in Nat
    BY <2>1, AsymRoomTypes
  <2> QED BY <2>1, <2>2
<1>4. /\ sent'.call = "sign" /\ sent'.key = key /\ sent'.alg = alg /\ sent'.in = in
      /\ sent'.ctx = ctx /\ sent'.out = r.out /\ sent'.fits
  BY <1>1, <1>3
<1>5. slast' = slast /\ slast.call = "none"
  BY DEF Asym!psa_sign
<1>6. AsymSignatureBinds'
  BY <1>2, <1>4 DEF AsymSignatureBinds, AsymSigns
<1>7. AsymCiphertextBinds' /\ Asym!VerdictsExact' /\ Asym!OutputsRight'
  BY <1>4, <1>5 DEF AsymCiphertextBinds, Asym!VerdictsExact, Asym!OutputsRight,
       Asym!AcceptedWasSigned, Asym!SignedIsAccepted, Asym!SignatureFits,
         Asym!DecryptsWhatWasSent
<1> QED BY <1>6, <1>7 DEF AsymInv

(* A signature that was made elsewhere. *)
LEMMA AsymInvElsewhere ==
    ASSUME AsymInv, NEW key \in SignKeys, NEW alg \in SignRequests[key.type], NEW in,
           Asym!SignedElsewhere(key, alg, in)
    PROVE  AsymInv'
<1>1. /\ key.type = "LMS" /\ alg = Asym!Sign("LMS", "NONE") /\ slast' = slast /\ slast.call = "none"
      /\ sent' = [call |-> "sign", key |-> key, alg |-> alg, in |-> in, ctx |-> "",
                  out |-> Asym!Signature(key, "LMS", "NONE", in.d, ""), fits |-> TRUE]
  BY DEF Asym!SignedElsewhere
<1>2. /\ sent'.call = "sign" /\ sent'.key = key /\ sent'.alg = alg /\ sent'.in = in /\ sent'.ctx = ""
      /\ sent'.out = Asym!Signature(key, "LMS", "NONE", in.d, "") /\ sent'.fits
  BY <1>1
<1>3. Asym!Signed(alg, in) = in.d
  BY <1>1 DEF Asym!Signed, Asym!Sign
<1>4. AsymBinds(key, alg, in.d, "", Asym!Signature(key, "LMS", "NONE", in.d, ""))
  BY <1>1 DEF AsymBinds, AsymSchemeOK
<1>5. AsymSignatureBinds'
  BY <1>2, <1>3, <1>4 DEF AsymSignatureBinds
<1>6. AsymCiphertextBinds' /\ Asym!VerdictsExact' /\ Asym!OutputsRight'
  BY <1>1, <1>2 DEF AsymCiphertextBinds, Asym!VerdictsExact, Asym!OutputsRight,
       Asym!AcceptedWasSigned, Asym!SignedIsAccepted, Asym!SignatureFits,
         Asym!DecryptsWhatWasSent
<1> QED BY <1>5, <1>6 DEF AsymInv

(* A signature that the verifier accepts is the one that was made. *)
LEMMA AsymAccepted ==
    ASSUME Asym!ConstantsOK, AsymInv, NEW key \in SignKeys, NEW alg \in SignRequests[key.type],
           NEW in, NEW ctx,
           NEW sig \in IF sent.call = "sign" THEN {sent.out} ELSE Asym!Malformed,
           AsymBinds(key, alg, Asym!Signed(alg, in), ctx, sig)
    PROVE  Asym!Genuine(key, alg, in, ctx, sig)
<1>1. PICK scheme, hash : /\ AsymSchemeOK(key.type, alg, scheme, hash)
                          /\ sig = Asym!Signature(key, scheme, hash, Asym!Signed(alg, in), ctx)
  BY DEF AsymBinds
<1>2. sent.call = "sign" /\ sig = sent.out
  <2>1. sig.scheme \notin {"EMPTY", "SHORT"}
    BY <1>1, AsymSchemesAreReal DEF Asym!Signature
  <2> QED BY <2>1 DEF Asym!Malformed
<1>3. /\ sent.key \in SignKeys /\ sent.alg \in SignRequests[sent.key.type]
      /\ AsymBinds(sent.key, sent.alg, Asym!Signed(sent.alg, sent.in), sent.ctx, sent.out)
  BY <1>2 DEF AsymInv, AsymSignatureBinds
<1>4. PICK scheme2, hash2 :
         /\ AsymSchemeOK(sent.key.type, sent.alg, scheme2, hash2)
         /\ sent.out = Asym!Signature(sent.key, scheme2, hash2, Asym!Signed(sent.alg, sent.in), sent.ctx)
  BY <1>3 DEF AsymBinds
<1>5. /\ key.name = sent.key.name /\ scheme = scheme2 /\ hash = hash2 /\ ctx = sent.ctx
      /\ Asym!Signed(alg, in) = Asym!Signed(sent.alg, sent.in)
  BY <1>1, <1>2, <1>4 DEF Asym!Signature
<1>6. /\ key.type = sent.key.type /\ key.type \in Asym!KeyTypes
      /\ Asym!Identifier(alg) /\ Asym!Identifier(sent.alg)
  BY <1>3, <1>5 DEF Asym!ConstantsOK
<1>7. Asym!SameScheme(key.type, alg, sent.alg)
  BY <1>1, <1>4, <1>5, <1>6, AsymSchemeTellsAlgorithm
<1> QED BY <1>2, <1>5, <1>7 DEF Asym!Genuine

(* A signature that was made is the one that the verifier expects. *)
LEMMA AsymExpected ==
    ASSUME Asym!ConstantsOK, AsymInv, NEW key \in SignKeys, NEW alg \in SignRequests[key.type],
           NEW in, NEW ctx,
           NEW sig, Asym!Genuine(key, alg, in, ctx, sig)
    PROVE  /\ sig.scheme \notin {"EMPTY", "SHORT"}
           /\ \A scheme, hash : AsymSchemeOK(key.type, alg, scheme, hash) =>
                  sig = Asym!Signature(key, scheme, hash, Asym!Signed(alg, in), ctx)
<1>1. /\ sent.call = "sign" /\ sig = sent.out /\ sent.key.name = key.name /\ ctx = sent.ctx
      /\ Asym!SameScheme(key.type, alg, sent.alg)
      /\ Asym!Signed(alg, in) = Asym!Signed(sent.alg, sent.in)
  BY DEF Asym!Genuine
<1>2. /\ sent.key \in SignKeys /\ sent.alg \in SignRequests[sent.key.type]
      /\ AsymBinds(sent.key, sent.alg, Asym!Signed(sent.alg, sent.in), sent.ctx, sent.out)
  BY <1>1 DEF AsymInv, AsymSignatureBinds
<1>3. PICK scheme2, hash2 :
         /\ AsymSchemeOK(sent.key.type, sent.alg, scheme2, hash2)
         /\ sent.out = Asym!Signature(sent.key, scheme2, hash2, Asym!Signed(sent.alg, sent.in), sent.ctx)
  BY <1>2 DEF AsymBinds
<1>4. /\ key.type = sent.key.type /\ key.type \in Asym!KeyTypes
      /\ Asym!Identifier(alg) /\ Asym!Identifier(sent.alg)
  BY <1>1, <1>2 DEF Asym!ConstantsOK
<1>5. ASSUME NEW scheme, NEW hash, AsymSchemeOK(key.type, alg, scheme, hash)
      PROVE  sig = Asym!Signature(key, scheme, hash, Asym!Signed(alg, in), ctx)
  <2>1. scheme = scheme2 /\ hash = hash2
    BY <1>1, <1>3, <1>4, <1>5, AsymAlgorithmTellsScheme
  <2> QED BY <1>1, <1>3, <2>1 DEF Asym!Signature
<1>6. sig.scheme \notin {"EMPTY", "SHORT"}
  BY <1>1, <1>3, AsymSchemesAreReal DEF Asym!Signature
<1> QED BY <1>5, <1>6

LEMMA AsymInvVerify ==
    ASSUME Asym!ConstantsOK, AsymInv, NEW key \in SignKeys, NEW alg \in SignRequests[key.type],
           NEW in \in Asym!Inputs,
           NEW ctx, NEW sig \in IF sent.call = "sign" THEN {sent.out} ELSE Asym!Malformed,
           Asym!psa_verify(key, alg, in, ctx, sig)
    PROVE  AsymInv'
<1> DEFINE g == Asym!Genuine(key, alg, in, ctx, sig)
<1>1. PICK st : /\ st \in IF in.entry = "hash"
                          THEN Asym!wolfpsa_verify_hash_worker(key, alg, in.d, ctx, sig)
                          ELSE Asym!wolfpsa_verify_message_worker(key, alg, in.d.m, ctx, sig)
                /\ slast' = [call |-> "verify",
                             st |-> IF st = "FOLDED" THEN "INVALID_SIGNATURE" ELSE st,
                             folded |-> st = "FOLDED", type |-> key.type, genuine |-> g]
                /\ sent' = sent
  BY DEF Asym!psa_verify
<1>2. AsymJudges(st, key, alg, Asym!Signed(alg, in), ctx, sig)
  BY <1>1, AsymInputCases, AsymHashJudges, AsymMessageJudges
<1>3. st = "SUCCESS" => g
  BY <1>2, AsymAccepted DEF AsymJudges
<1>4. g => st # "INVALID_SIGNATURE"
  BY <1>2, AsymExpected DEF AsymJudges
<1> HIDE DEF g
<1>5. /\ slast'.call = "verify" /\ slast'.genuine = g /\ slast'.type = key.type
      /\ slast'.folded = (st = "FOLDED")
      /\ slast'.st = IF st = "FOLDED" THEN "INVALID_SIGNATURE" ELSE st
  BY <1>1
<1>6. Asym!VerdictsExact'
  <2>1. slast'.st = "SUCCESS" => g
    BY <1>3, <1>5
  <2>2. g /\ slast'.st = "INVALID_SIGNATURE" => st = "FOLDED" /\ key.type \in {"ECC", "RSA"}
    BY <1>2, <1>4, <1>5 DEF AsymJudges
  <2> QED BY <1>5, <2>1, <2>2 DEF Asym!VerdictsExact, Asym!AcceptedWasSigned, Asym!SignedIsAccepted
<1>7. AsymSignatureBinds' /\ AsymCiphertextBinds' /\ Asym!OutputsRight'
  BY <1>1, <1>5 DEF AsymInv, AsymSignatureBinds, AsymCiphertextBinds, Asym!OutputsRight,
     Asym!SignatureFits,
                    Asym!DecryptsWhatWasSent
<1> QED BY <1>6, <1>7 DEF AsymInv

LEMMA AsymInvEncrypt ==
    ASSUME Asym!ConstantsOK, AsymInv, NEW key \in SignKeys, NEW alg \in SignRequests[key.type],
           NEW m \in Asym!Messages, NEW label, NEW room \in Asym!Rooms,
             Asym!psa_encrypt(key, alg, m, label, room)
    PROVE  AsymInv'
<1>1. PICK r : /\ r \in Asym!psa_asymmetric_encrypt(key, alg, m, label, room) /\ r.st = "SUCCESS"
               /\ sent' = [call |-> "encrypt", key |-> key, alg |-> alg, m |-> m,
                           label |-> label, out |-> r.out]
  BY DEF Asym!psa_encrypt
<1>2. r \in Asym!psa_asymmetric_encrypt_rsa(key, alg, m, label, room)
  BY <1>1, AsymFailedFails DEF Asym!psa_asymmetric_encrypt
<1>3. Asym!CryptStatus(alg) = "SUCCESS" /\ r = Asym!Made(Asym!Ciphertext(key, alg, m, label))
  BY <1>1, <1>2, AsymFailedFails DEF Asym!psa_asymmetric_encrypt_rsa, Asym!WolfCryptFails
<1>4. r.out = Asym!Ciphertext(key, alg, m, label)
  BY <1>3 DEF Asym!Made
<1>5. /\ sent'.call = "encrypt" /\ sent'.key = key /\ sent'.alg = alg /\ sent'.m = m
      /\ sent'.label = label /\ sent'.out = r.out
  BY <1>1
<1>6. slast' = slast /\ slast.call = "none"
  BY DEF Asym!psa_encrypt
<1>7. AsymCiphertextBinds'
  BY <1>3, <1>4, <1>5 DEF AsymCiphertextBinds
<1>8. AsymSignatureBinds' /\ Asym!VerdictsExact' /\ Asym!OutputsRight'
  BY <1>5, <1>6 DEF AsymSignatureBinds, Asym!VerdictsExact, Asym!OutputsRight,
       Asym!AcceptedWasSigned, Asym!SignedIsAccepted, Asym!SignatureFits,
         Asym!DecryptsWhatWasSent
<1> QED BY <1>7, <1>8 DEF AsymInv

(* What a ciphertext binds. *)
LEMMA AsymCiphertextFields ==
    ASSUME NEW key, NEW alg, NEW m, NEW label
    PROVE  /\ Asym!Ciphertext(key, alg, m, label).to = key.name
           /\ Asym!Ciphertext(key, alg, m, label).fam = Asym!wc_psa_get_rsa_padding(alg)
           /\ Asym!Ciphertext(key, alg, m, label).m = m
           /\ Asym!wc_psa_get_rsa_padding(alg) = "OAEP" =>
                /\ Asym!Ciphertext(key, alg, m, label).hash = Asym!wc_psa_get_hash_type(alg)
                /\ Asym!Ciphertext(key, alg, m, label).label = label
<1> DEFINE p == Asym!wc_psa_get_rsa_padding(alg)
           h == IF p = "OAEP" THEN Asym!wc_psa_get_hash_type(alg) ELSE "NONE"
           l == IF p = "OAEP" THEN label ELSE ""
           c == Asym!Ciphertext(key, alg, m, label)
<1>1. c = [to |-> key.name, fam |-> p, m |-> m, hash |-> h, label |-> l]
  BY DEF Asym!Ciphertext
<1> HIDE DEF c, h, l, p
<1>2. c.to = key.name /\ c.fam = p /\ c.m = m /\ c.hash = h /\ c.label = l
  BY <1>1
<1>3. p = "OAEP" => c.hash = Asym!wc_psa_get_hash_type(alg) /\ c.label = label
  BY <1>2 DEF h, l
<1> QED BY <1>2, <1>3 DEF c, p

(* The paddings that RSA encrypts with. *)
LEMMA AsymPaddings ==
    ASSUME NEW alg, Asym!Identifier(alg), Asym!CryptStatus(alg) = "SUCCESS"
    PROVE  \/ /\ alg.fam \in {"RSA_PKCS1V15_CRYPT", "RSA_PKCS1V15_SIGN"}
              /\ Asym!wc_psa_get_rsa_padding(alg) = "PKCSV15"
           \/ /\ alg.fam = "RSA_OAEP" /\ Asym!wc_psa_get_rsa_padding(alg) = "OAEP"
              /\ Asym!wc_psa_get_hash_type(alg) = alg.hash /\ alg = Asym!Encipher("RSA_OAEP", alg.hash)
<1>1. Asym!wc_psa_get_rsa_padding(alg) \in {"PKCSV15", "OAEP"}
  BY DEF Asym!CryptStatus
<1>2. CASE Asym!wc_psa_get_rsa_padding(alg) = "PKCSV15"
  BY <1>2 DEF Asym!wc_psa_get_rsa_padding
<1>3. CASE Asym!wc_psa_get_rsa_padding(alg) = "OAEP"
  <2>1. alg.fam = "RSA_OAEP"
    BY <1>3 DEF Asym!wc_psa_get_rsa_padding
  <2>2. Asym!wc_psa_get_hash_type(alg) = alg.hash
    BY <1>3 DEF Asym!CryptStatus, Asym!wc_psa_get_hash_type
  <2>3. alg = Asym!Encipher("RSA_OAEP", alg.hash)
    BY <2>1 DEF Asym!Identifier, Asym!Encipher
  <2> QED BY <1>3, <2>1, <2>2, <2>3
<1> QED BY <1>1, <1>2, <1>3

LEMMA AsymInvDecrypt ==
    ASSUME Asym!ConstantsOK, AsymInv, NEW key \in SignKeys, NEW alg \in SignRequests[key.type],
           NEW label,
           NEW room \in Asym!Rooms, Asym!psa_decrypt(key, alg, label, room)
    PROVE  AsymInv'
<1> DEFINE g == /\ key.name = sent.key.name /\ Asym!SamePadding(alg, sent.alg)
                /\ alg.fam = "RSA_OAEP" => label = sent.label
<1>1. PICK r \in Asym!psa_asymmetric_decrypt(key, alg, sent.out, label, room) :
         slast' = [call |-> "decrypt", st |-> r.st,
                  fits |-> r.st = "SUCCESS" => MsgLens[r.out] <= room,
                  right |-> r.out = sent.m, genuine |-> g]
  BY DEF Asym!psa_decrypt
<1>2. sent' = sent /\ sent.call = "encrypt"
  BY DEF Asym!psa_decrypt
<1>3. /\ sent.key \in SignKeys /\ sent.alg \in SignRequests[sent.key.type] /\ sent.m \in Asym!Messages
      /\ Asym!CryptStatus(sent.alg) = "SUCCESS"
      /\ sent.out = Asym!Ciphertext(sent.key, sent.alg, sent.m, sent.label)
  BY <1>2 DEF AsymInv, AsymCiphertextBinds
<1>4. Asym!Identifier(alg) /\ Asym!Identifier(sent.alg)
  BY <1>3 DEF Asym!ConstantsOK
<1> DEFINE c == sent.out
<1>5. c.m = sent.m
  BY <1>3, AsymCiphertextFields
<1>6. r.st \in {"SUCCESS", "INVALID_PADDING"} =>
         /\ Asym!CryptStatus(alg) = "SUCCESS"
         /\ r = IF c # Asym!Ciphertext(key, alg, c.m, label) THEN Asym!Failed("INVALID_PADDING")
                ELSE IF MsgLens[c.m] > room THEN Asym!Failed("BUFFER_TOO_SMALL") ELSE Asym!Made(c.m)
  <2>1. r.st \in {"SUCCESS", "INVALID_PADDING"} =>
           r \in Asym!psa_asymmetric_decrypt_rsa(key, alg, c, label, room)
    BY AsymFailedFails DEF Asym!psa_asymmetric_decrypt, Asym!wolfpsa_asymmetric_check_key
  <2>2. Asym!CryptStatus(alg) \in {"SUCCESS", "INVALID_ARGUMENT"}
    BY DEF Asym!CryptStatus
  <2> QED BY <2>1, <2>2, AsymFailedFails DEF Asym!psa_asymmetric_decrypt_rsa,
      Asym!WolfCryptFails
<1>7. ASSUME Asym!CryptStatus(alg) = "SUCCESS", c = Asym!Ciphertext(key, alg, c.m, label)
      PROVE  g
  <2>1. /\ key.name = sent.key.name
        /\ Asym!wc_psa_get_rsa_padding(alg) = Asym!wc_psa_get_rsa_padding(sent.alg)
    BY <1>3, <1>7, AsymCiphertextFields
  <2>2. Asym!wc_psa_get_rsa_padding(alg) = "OAEP" =>
           Asym!wc_psa_get_hash_type(alg) = Asym!wc_psa_get_hash_type(sent.alg) /\ label = sent.label
    BY <1>3, <1>7, <2>1, AsymCiphertextFields
  <2>3. Asym!SamePadding(alg, sent.alg)
    BY <1>3, <1>4, <1>7, <2>1, <2>2, AsymPaddings DEF Asym!SamePadding
  <2>4. alg.fam = "RSA_OAEP" => label = sent.label
    BY <2>2 DEF Asym!wc_psa_get_rsa_padding
  <2> QED BY <2>1, <2>3, <2>4
<1>8. ASSUME Asym!CryptStatus(alg) = "SUCCESS", g
      PROVE  c = Asym!Ciphertext(key, alg, c.m, label)
  <2>1. /\ Asym!wc_psa_get_rsa_padding(alg) = Asym!wc_psa_get_rsa_padding(sent.alg)
        /\ Asym!wc_psa_get_rsa_padding(alg) = "OAEP" =>
             Asym!wc_psa_get_hash_type(alg) = Asym!wc_psa_get_hash_type(sent.alg) /\ alg.fam = "RSA_OAEP"
    BY <1>3, <1>4, <1>8, AsymPaddings DEF Asym!SamePadding
  <2> QED BY <1>3, <1>5, <1>8, <2>1 DEF Asym!Ciphertext
<1>9. r.st = "SUCCESS" => g /\ r.out = sent.m /\ MsgLens[r.out] <= room
  <2> SUFFICES ASSUME r.st = "SUCCESS"
               PROVE  g /\ r.out = sent.m /\ MsgLens[r.out] <= room
    OBVIOUS
  <2>1. /\ c = Asym!Ciphertext(key, alg, c.m, label) /\ ~(MsgLens[c.m] > room) /\ r = Asym!Made(c.m)
    BY <1>6, AsymFailedFails
  <2>2. MsgLens[sent.m] \in Nat /\ room \in Nat
    BY <1>3, AsymRoomTypes
  <2>3. r.out = sent.m
    BY <1>5, <2>1 DEF Asym!Made
  <2>4. MsgLens[r.out] <= room
    BY <1>5, <2>1, <2>2, <2>3
  <2> QED BY <1>6, <1>7, <2>1, <2>3, <2>4
<1>10. g => r.st # "INVALID_PADDING"
  <2> SUFFICES ASSUME g, r.st = "INVALID_PADDING"
               PROVE  FALSE
    OBVIOUS
  <2>1. c = Asym!Ciphertext(key, alg, c.m, label)
    BY <1>6, <1>8
  <2>2. r = Asym!Failed("BUFFER_TOO_SMALL") \/ r = Asym!Made(c.m)
    BY <1>6, <2>1
  <2> QED BY <2>2, AsymFailedFails DEF Asym!Made
<1> HIDE DEF g
<1>11. slast'.call = "decrypt" /\ slast'.st = r.st /\ slast'.genuine = g
  BY <1>1
<1>12. r.st = "SUCCESS" => slast'.right /\ slast'.fits
  BY <1>1, <1>9
<1>13. Asym!DecryptsWhatWasSent'
  BY <1>9, <1>10, <1>11, <1>12 DEF Asym!DecryptsWhatWasSent
<1>14. AsymSignatureBinds' /\ AsymCiphertextBinds' /\ Asym!VerdictsExact' /\ Asym!SignatureFits'
  BY <1>2, <1>11 DEF AsymInv, AsymSignatureBinds, AsymCiphertextBinds, Asym!SignatureFits,
     Asym!VerdictsExact,
                     Asym!AcceptedWasSigned, Asym!SignedIsAccepted
<1> QED BY <1>13, <1>14 DEF AsymInv, Asym!OutputsRight

LEMMA AsymInvariant ==
    ASSUME Asym!ConstantsOK
    PROVE  Asym!Spec => []AsymInv
<1>1. AsymInv /\ [Asym!Next]_(Asym!vars) => AsymInv'
  <2>1. ASSUME AsymInv, Asym!Next PROVE AsymInv'
    BY <2>1, AsymInvSign, AsymInvElsewhere, AsymInvVerify, AsymInvEncrypt, AsymInvDecrypt, AsymInvForget
       DEF Asym!Next
  <2>2. ASSUME AsymInv, UNCHANGED Asym!vars PROVE AsymInv'
    BY <2>2 DEF Asym!vars, AsymInv, AsymSignatureBinds, AsymCiphertextBinds, Asym!VerdictsExact,
       Asym!OutputsRight,
                Asym!AcceptedWasSigned, Asym!SignedIsAccepted, Asym!SignatureFits,
                  Asym!DecryptsWhatWasSent
  <2> QED BY <2>1, <2>2
<1> QED BY AsymInvInit, <1>1, PTL DEF Asym!Spec

(* A step of the API is an asymmetric call, or leaves what was sent alone. *)
LEMMA ApiRunsAsym == OpsSpec => Asym!Spec
<1>1. OpsInit => Asym!Init
  BY DEF OpsInit
<1>2. [OpsNext]_allvars => [Asym!Next]_(Asym!vars)
  BY DEF OpsNext, allvars, svars, Asym!vars
<1> QED BY <1>1, <1>2, PTL DEF OpsSpec, Asym!Spec

(* A verification accepts only the signatures that were made with its key of   *)
(* its input and context under an algorithm of its scheme, whether either side *)
(* was given a message or a hash (psa_sign_message(), psa_sign_hash(),         *)
(* psa_verify_message(), psa_verify_hash()), and calls such a signature       *)
(* invalid only when wolfCrypt failed under a key of ECC or RSA, whose back   *)
(* ends report some of its failures that way.                                *)
THEOREM SignatureVerdictsAreExact ==
    ASSUME Asym!ConstantsOK
    PROVE  OpsSpec => []SignatureVerdictsExact
<1>1. AsymInv => SignatureVerdictsExact
  BY DEF AsymInv, SignatureVerdictsExact
<1> QED BY <1>1, ApiRunsAsym, AsymInvariant, PTL

(* A signature that was written had room, and psa_asymmetric_decrypt() gives   *)
(* back only what was encrypted to its key with its padding, hash and label.   *)
THEOREM AsymmetricOutputsAreRight ==
    ASSUME Asym!ConstantsOK
    PROVE  OpsSpec => []AsymmetricOutputsRight
<1>1. AsymInv => AsymmetricOutputsRight
  BY DEF AsymInv, AsymmetricOutputsRight
<1> QED BY <1>1, ApiRunsAsym, AsymInvariant, PTL

-----------------------------------------------------------------------------
(* The policies of copies: identifiers. *)

(* PSA_ALG_NONE is an identifier that grants nothing. *)
LEMMA PolicyNoneIdentifier == Copies!IsIdentifier(Copies!PSA_ALG_NONE) /\ Copies!PSA_ALG_NONE.cat = "NONE"
BY DEF Copies!PSA_ALG_NONE, Copies!IsIdentifier

(* The other form has the same fields but for the family. *)
LEMMA PolicyOtherFormFields ==
    ASSUME NEW a, Copies!IsIdentifier(a)
    PROVE  /\ Copies!OtherForm(a) = [cat |-> a.cat, fam |-> Copies!OtherFam(a.fam), hash |-> a.hash,
                              len |-> a.len, wild |-> a.wild]
           /\ Copies!OtherForm(a).cat = a.cat /\ Copies!OtherForm(a).fam = Copies!OtherFam(a.fam)
           /\ Copies!OtherForm(a).hash = a.hash /\ Copies!OtherForm(a).len = a.len
           /\ Copies!OtherForm(a).wild = a.wild
<1>1. ASSUME NEW f
      PROVE  [a EXCEPT !.fam = f] = [cat |-> a.cat, fam |-> f, hash |-> a.hash,
                                     len |-> a.len, wild |-> a.wild]
  BY DEF Copies!IsIdentifier
<1>2. Copies!OtherForm(a) = [cat |-> a.cat, fam |-> Copies!OtherFam(a.fam), hash |-> a.hash,
                      len |-> a.len, wild |-> a.wild]
  BY <1>1 DEF Copies!OtherForm
<1> QED BY <1>2

(* It is an identifier, and its other form is the first one. *)
LEMMA PolicyOtherFormTwice ==
    ASSUME NEW a, Copies!IsIdentifier(a)
    PROVE  Copies!IsIdentifier(Copies!OtherForm(a)) /\ Copies!OtherForm(Copies!OtherForm(a)) = a
<1> DEFINE b == Copies!OtherForm(a)
<1>1. /\ b = [cat |-> a.cat, fam |-> Copies!OtherFam(a.fam), hash |-> a.hash,
              len |-> a.len, wild |-> a.wild]
      /\ b.cat = a.cat /\ b.fam = Copies!OtherFam(a.fam) /\ b.hash = a.hash
      /\ b.len = a.len /\ b.wild = a.wild
  BY PolicyOtherFormFields
<1>2. Copies!OtherFam(Copies!OtherFam(a.fam)) = a.fam
  BY DEF Copies!OtherFam
<1> HIDE DEF b
<1>4. Copies!IsIdentifier(b)
  <2>1. b.cat \notin {"MAC", "AEAD"} => b.len = 0 /\ b.wild = FALSE
    BY <1>1 DEF Copies!IsIdentifier
  <2>2. b.cat = "MAC" => b.fam = a.fam
    BY <1>1 DEF Copies!OtherFam, Copies!IsIdentifier
  <2>3. b.cat = "MAC" => FullLens[b.fam] \in Nat /\ b.len <= FullLens[b.fam]
    BY <1>1, <2>2 DEF Copies!IsIdentifier
  <2>4. b.cat = "AEAD" => b.len # 0
    BY <1>1 DEF Copies!IsIdentifier
  <2>5. b.fam \in {"ECDSA", "DETERMINISTIC_ECDSA"} => b.cat = "SIGN"
    BY <1>1 DEF Copies!OtherFam, Copies!IsIdentifier
  <2>6. b.len \in Nat /\ b.wild \in BOOLEAN
    BY <1>1 DEF Copies!IsIdentifier
  <2>7. b = [cat |-> b.cat, fam |-> b.fam, hash |-> b.hash, len |-> b.len, wild |-> b.wild]
    BY <1>1
  <2> QED BY <2>1, <2>3, <2>4, <2>5, <2>6, <2>7 DEF Copies!IsIdentifier
<1>5. Copies!OtherForm(b) = [cat |-> b.cat, fam |-> Copies!OtherFam(b.fam), hash |-> b.hash,
                      len |-> b.len, wild |-> b.wild]
  BY <1>4, PolicyOtherFormFields
<1>6. Copies!OtherForm(b) = [cat |-> a.cat, fam |-> a.fam, hash |-> a.hash,
                      len |-> a.len, wild |-> a.wild]
  BY <1>1, <1>2, <1>5
<1>7. Copies!OtherForm(b) = a
  BY <1>6 DEF Copies!IsIdentifier
<1> QED BY <1>4, <1>7 DEF b

-----------------------------------------------------------------------------
(* Intersections.  Covers(k, r): a key for r does what a key for k could do,   *)
(* but for the form of ECDSA it verifies.                                   *)
PolicyCovers(k, r) ==
    \A a, u : Copies!IsIdentifier(a) /\ Copies!AlgPermitted(r, a, u) =>
        \/ Copies!AlgPermitted(k, a, u)
        \/ u \in Copies!VerifyUsages /\ Copies!AlgPermitted(k, Copies!OtherForm(a), u)

(* What the check of each group of operations comes to. *)
LEMMA PolicyPermittedByGroup ==
    ASSUME NEW k, NEW a, NEW u
    PROVE  /\ a.cat = "MAC" =>
                (Copies!AlgPermitted(k, a, u) <=> Copies!wolfpsa_mac_alg_permitted(k, a))
           /\ a.cat = "AEAD" =>
                (Copies!AlgPermitted(k, a, u) <=>
                    /\ ~a.wild /\ a.len # 0 /\ Copies!wolfpsa_aead_alg_permitted(k, a))
           /\ a.cat \notin {"MAC", "AEAD"} =>
                (Copies!AlgPermitted(k, a, u) <=> Copies!wolfpsa_asymmetric_alg_permitted(k, a, u))
BY DEF Copies!AlgPermitted

(* A policy of a category permits only algorithms of it. *)
LEMMA PolicyPermittedCategory ==
    ASSUME NEW k, NEW a, NEW u, Copies!AlgPermitted(k, a, u)
    PROVE  k.cat = a.cat /\ k # Copies!PSA_ALG_NONE
<1>1. CASE a.cat = "MAC"
  BY <1>1, PolicyPermittedByGroup DEF Copies!wolfpsa_mac_alg_permitted, Copies!SameBase
<1>2. CASE a.cat = "AEAD"
  BY <1>2, PolicyPermittedByGroup, PolicyNoneIdentifier DEF Copies!wolfpsa_aead_alg_permitted,
     Copies!SameBase
<1>3. CASE a.cat \notin {"MAC", "AEAD"}
  BY <1>3, PolicyPermittedByGroup
     DEF Copies!wolfpsa_asymmetric_alg_permitted, Copies!wolfpsa_sign_alg_permitted,
       Copies!AnyHashPermits,
         Copies!SameFamily, Copies!VerifyEquivalent, Copies!PSA_ALG_IS_ECDSA,
           Copies!PSA_ALG_IS_HASH_ML_DSA
<1> QED BY <1>1, <1>2, <1>3

(* The wildcard of a hash-and-sign family covers every member. *)
LEMMA PolicyWildHashCovers ==
    ASSUME NEW r, NEW w, Copies!IsIdentifier(r), Copies!IsIdentifier(w),
           Copies!SameFamily(r, w),
           Copies!PSA_ALG_IS_SIGN_HASH(w), w.hash = "ANY", r.hash # "ANY"
    PROVE  PolicyCovers(w, r)
<1> SUFFICES ASSUME NEW a, NEW u, Copies!IsIdentifier(a), Copies!AlgPermitted(r, a, u)
             PROVE  \/ Copies!AlgPermitted(w, a, u)
                    \/ u \in Copies!VerifyUsages /\ Copies!AlgPermitted(w, Copies!OtherForm(a), u)
  BY DEF PolicyCovers
<1>1. /\ w.cat = "SIGN" /\ r.cat = "SIGN" /\ a.cat = "SIGN" /\ w # Copies!PSA_ALG_NONE
      /\ w.fam \notin {"PURE_EDDSA", "EDDSA_CTX"} /\ w.fam = r.fam
      /\ a.len = 0 /\ a.wild = FALSE /\ w.len = 0 /\ w.wild = FALSE
  BY PolicyPermittedCategory, PolicyNoneIdentifier DEF Copies!SameFamily,
     Copies!PSA_ALG_IS_SIGN_HASH, Copies!IsIdentifier
<1>2. Copies!wolfpsa_sign_alg_permitted(r, a, u)
  BY <1>1, PolicyPermittedByGroup DEF Copies!wolfpsa_asymmetric_alg_permitted
<1>3. ASSUME NEW b, b.cat = "SIGN", Copies!wolfpsa_sign_alg_permitted(w, b, u)
      PROVE  Copies!AlgPermitted(w, b, u)
  BY <1>1, <1>3, PolicyPermittedByGroup DEF Copies!wolfpsa_asymmetric_alg_permitted
<1>4. ASSUME NEW b, b.cat = "SIGN", b.fam = w.fam, b.len = 0, b.wild = FALSE, b.hash # "ANY"
      PROVE  Copies!AlgPermitted(w, b, u)
  BY <1>1, <1>3, <1>4
     DEF Copies!wolfpsa_sign_alg_permitted, Copies!AnyHashPermits, Copies!PSA_ALG_IS_SIGN_HASH,
         Copies!PSA_ALG_SIGN_GET_HASH, Copies!SameFamily
<1>5. CASE r = a
  BY <1>1, <1>4, <1>5
<1>6. CASE Copies!AnyHashPermits(r, a)
  BY <1>1, <1>6 DEF Copies!AnyHashPermits, Copies!PSA_ALG_SIGN_GET_HASH,
     Copies!PSA_ALG_IS_SIGN_HASH
<1>7. CASE u \in Copies!VerifyUsages /\ Copies!PSA_ALG_IS_ECDSA(a) /\ Copies!PSA_ALG_IS_ECDSA(r) /\ a.hash = r.hash
  <2>1. CASE a.fam = r.fam
    BY <1>1, <1>4, <1>7, <2>1
  <2>2. CASE a.fam # r.fam
    <3>1. Copies!OtherForm(a).fam = r.fam
      BY <1>7, <2>2, PolicyOtherFormFields DEF Copies!PSA_ALG_IS_ECDSA, Copies!OtherFam
    <3>2. /\ Copies!OtherForm(a).cat = "SIGN" /\ Copies!OtherForm(a).hash # "ANY"
          /\ Copies!OtherForm(a).len = 0 /\ Copies!OtherForm(a).wild = FALSE
      BY <1>1, <1>7, PolicyOtherFormFields
    <3> QED BY <1>1, <1>4, <1>7, <3>1, <3>2
  <2> QED BY <2>1, <2>2
<1>8. CASE u \in Copies!VerifyUsages /\ Copies!PSA_ALG_IS_HASH_ML_DSA(a) /\ Copies!PSA_ALG_IS_HASH_ML_DSA(r)
           /\ a.hash # "ANY"
  <2>1. Copies!VerifyEquivalent(w, a)
    BY <1>1, <1>8 DEF Copies!VerifyEquivalent, Copies!PSA_ALG_IS_HASH_ML_DSA,
       Copies!PSA_ALG_GET_HASH
  <2> QED BY <1>1, <1>3, <1>8, <2>1 DEF Copies!wolfpsa_sign_alg_permitted
<1> QED
  BY <1>2, <1>5, <1>6, <1>7, <1>8
     DEF Copies!wolfpsa_sign_alg_permitted, Copies!VerifyEquivalent, Copies!PSA_ALG_GET_HASH

(* A minimum length covers every length that is as long. *)
LEMMA PolicyWildMacCovers ==
    ASSUME NEW r, NEW k, Copies!IsIdentifier(r), Copies!IsIdentifier(k), Copies!SameBase(r, k),
           k.cat = "MAC",
           k.wild = TRUE, Copies!PSA_MAC_LENGTH(r) >= Copies!PSA_MAC_LENGTH(k)
    PROVE  PolicyCovers(k, r)
<1> SUFFICES ASSUME NEW a, NEW u, Copies!IsIdentifier(a), Copies!AlgPermitted(r, a, u)
             PROVE  Copies!AlgPermitted(k, a, u)
  BY DEF PolicyCovers
<1>1. a.cat = "MAC" /\ r.cat = "MAC" /\ k # Copies!PSA_ALG_NONE
  BY PolicyPermittedCategory, PolicyNoneIdentifier DEF Copies!SameBase
<1>2. Copies!wolfpsa_mac_alg_permitted(r, a)
  BY <1>1, PolicyPermittedByGroup
<1>3. Copies!SameBase(k, a)
  BY <1>2 DEF Copies!wolfpsa_mac_alg_permitted, Copies!SameBase
<1>4. /\ Copies!PSA_MAC_LENGTH(r) \in Nat /\ Copies!PSA_MAC_LENGTH(k) \in Nat /\ Copies!PSA_MAC_LENGTH(a) \in Nat
  BY <1>1 DEF Copies!PSA_MAC_LENGTH, Copies!IsIdentifier
<1>5. Copies!PSA_MAC_LENGTH(a) >= Copies!PSA_MAC_LENGTH(r)
  BY <1>2, <1>4 DEF Copies!wolfpsa_mac_alg_permitted
<1>6. Copies!PSA_MAC_LENGTH(a) >= Copies!PSA_MAC_LENGTH(k)
  BY <1>4, <1>5
<1>7. Copies!wolfpsa_mac_alg_permitted(k, a)
  BY <1>1, <1>3, <1>6 DEF Copies!wolfpsa_mac_alg_permitted
<1> QED BY <1>1, <1>7, PolicyPermittedByGroup

LEMMA PolicyWildAeadCovers ==
    ASSUME NEW r, NEW k, Copies!IsIdentifier(r), Copies!IsIdentifier(k), Copies!SameBase(r, k),
           k.cat = "AEAD",
           k.wild = TRUE, r.len >= k.len
    PROVE  PolicyCovers(k, r)
<1> SUFFICES ASSUME NEW a, NEW u, Copies!IsIdentifier(a), Copies!AlgPermitted(r, a, u)
             PROVE  Copies!AlgPermitted(k, a, u)
  BY DEF PolicyCovers
<1>1. a.cat = "AEAD" /\ r.cat = "AEAD"
  BY PolicyPermittedCategory DEF Copies!SameBase
<1>2. Copies!wolfpsa_aead_alg_permitted(r, a) /\ a.len # 0
  BY <1>1, PolicyPermittedByGroup
<1>3. Copies!SameBase(k, a)
  BY <1>2 DEF Copies!wolfpsa_aead_alg_permitted, Copies!SameBase
<1>4. r.len \in Nat /\ k.len \in Nat /\ a.len \in Nat /\ k.len # 0
  BY <1>1 DEF Copies!IsIdentifier
<1>5. a.len >= r.len
  BY <1>2, <1>4 DEF Copies!wolfpsa_aead_alg_permitted
<1>6. Copies!wolfpsa_aead_alg_permitted(k, a)
  BY <1>3, <1>4, <1>5 DEF Copies!wolfpsa_aead_alg_permitted
<1> QED BY <1>1, <1>2, <1>6, PolicyPermittedByGroup

(* A policy covers itself. *)
LEMMA PolicyCoversSelf == ASSUME NEW k PROVE PolicyCovers(k, k)
BY DEF PolicyCovers

(* PSA_ALG_NONE permits nothing. *)
LEMMA PolicyNoneCovered == ASSUME NEW k PROVE PolicyCovers(k, Copies!PSA_ALG_NONE)
<1> SUFFICES ASSUME NEW a, NEW u, Copies!AlgPermitted(Copies!PSA_ALG_NONE, a, u) PROVE FALSE
  BY DEF PolicyCovers
<1> QED BY PolicyPermittedCategory

(* The narrower of two policies of hashes is one of them. *)
LEMMA PolicyHashIntersectCovered ==
    ASSUME NEW src, NEW dst, Copies!IsIdentifier(src), Copies!IsIdentifier(dst),
           Copies!SameFamily(src, dst),
           Copies!PSA_ALG_IS_SIGN_HASH(src)
    PROVE  LET r == Copies!HashIntersect(src, dst) IN
           Copies!IsIdentifier(r) /\ PolicyCovers(src, r) /\ PolicyCovers(dst, r)
<1> DEFINE r == Copies!HashIntersect(src, dst)
<1>1. Copies!PSA_ALG_IS_SIGN_HASH(dst) /\ Copies!SameFamily(dst, src)
  BY DEF Copies!PSA_ALG_IS_SIGN_HASH, Copies!SameFamily
<1>2. CASE r = Copies!PSA_ALG_NONE
  BY <1>2, PolicyNoneCovered, PolicyNoneIdentifier
<1>3. CASE r # Copies!PSA_ALG_NONE /\ src.hash = "ANY"
  <2>1. r = dst /\ dst.hash # "ANY"
    BY <1>3 DEF Copies!HashIntersect
  <2> QED BY <1>1, <1>3, <2>1, PolicyWildHashCovers, PolicyCoversSelf
<1>4. CASE r # Copies!PSA_ALG_NONE /\ src.hash # "ANY"
  <2>1. r = src /\ dst.hash = "ANY"
    BY <1>4 DEF Copies!HashIntersect
  <2> QED BY <1>1, <1>4, <2>1, PolicyWildHashCovers, PolicyCoversSelf
<1> QED BY <1>2, <1>3, <1>4

(* A length that the minimum permits is as long, the full length included. *)
LEMMA PolicyPermittedIsLonger ==
    ASSUME NEW r, NEW k, Copies!IsIdentifier(r), Copies!IsIdentifier(k), Copies!SameBase(r, k),
           r.cat \in {"MAC", "AEAD"}, k.wild = TRUE,
             Copies!wolfpsa_tag_len_permitted(r.len, k.len)
    PROVE  PolicyCovers(k, r)
<1>1. k.cat = r.cat /\ k.fam = r.fam /\ k.len \in Nat /\ r.len \in Nat
  BY DEF Copies!SameBase, Copies!IsIdentifier
<1>2. CASE r.cat = "MAC"
  <2>1. Copies!PSA_MAC_LENGTH(r) >= Copies!PSA_MAC_LENGTH(k)
    BY <1>1, <1>2 DEF Copies!PSA_MAC_LENGTH, Copies!wolfpsa_tag_len_permitted,
       Copies!IsIdentifier
  <2> QED BY <1>1, <1>2, <2>1, PolicyWildMacCovers
<1>3. CASE r.cat = "AEAD"
  <2>1. r.len >= k.len
    BY <1>1, <1>3 DEF Copies!wolfpsa_tag_len_permitted, Copies!IsIdentifier
  <2> QED BY <1>1, <1>3, <2>1, PolicyWildAeadCovers
<1> QED BY <1>2, <1>3

(* The stricter of two minimum lengths is covered by both. *)
LEMMA PolicyRestrictedIsLonger ==
    ASSUME NEW src, NEW dst, Copies!IsIdentifier(src), Copies!IsIdentifier(dst),
           Copies!SameBase(src, dst),
           src.cat \in {"MAC", "AEAD"}, src.wild = TRUE, dst.wild = TRUE,
           NEW r, r = [src EXCEPT !.len = Copies!wolfpsa_tag_len_restrict(src.len, dst.len)]
    PROVE  Copies!IsIdentifier(r) /\ PolicyCovers(src, r) /\ PolicyCovers(dst, r)
<1> DEFINE n == Copies!wolfpsa_tag_len_restrict(src.len, dst.len)
<1>1. /\ dst.cat = src.cat /\ dst.fam = src.fam /\ dst.hash = src.hash
      /\ src.len \in Nat /\ dst.len \in Nat
  BY DEF Copies!SameBase, Copies!IsIdentifier
<1>2. n \in Nat /\ Copies!wolfpsa_tag_len_permitted(n, src.len) /\ Copies!wolfpsa_tag_len_permitted(n, dst.len)
  BY <1>1 DEF Copies!wolfpsa_tag_len_restrict, Copies!wolfpsa_tag_len_permitted
<1>3. n \in {0, src.len, dst.len} /\ (n = 0 => src.len = 0 \/ dst.len = 0)
  BY <1>1 DEF Copies!wolfpsa_tag_len_restrict
<1>0. r = [src EXCEPT !.len = n]
  OBVIOUS
<1> HIDE DEF n
<1>4. ASSUME NEW m
      PROVE  [src EXCEPT !.len = m] = [cat |-> src.cat, fam |-> src.fam, hash |-> src.hash,
                                       len |-> m, wild |-> src.wild]
  BY DEF Copies!IsIdentifier
<1>5. /\ r = [cat |-> src.cat, fam |-> src.fam, hash |-> src.hash, len |-> n, wild |-> src.wild]
      /\ r.cat = src.cat /\ r.fam = src.fam /\ r.hash = src.hash /\ r.len = n
      /\ r.wild = src.wild
  BY <1>0, <1>4
<1>6. Copies!IsIdentifier(r)
  <2>1. r.cat = "MAC" => FullLens[r.fam] \in Nat /\ r.len <= FullLens[r.fam]
    BY <1>1, <1>2, <1>3, <1>5 DEF Copies!IsIdentifier
  <2>2. r.cat = "AEAD" => r.len # 0
    BY <1>1, <1>3, <1>5 DEF Copies!IsIdentifier
  <2>3. r = [cat |-> r.cat, fam |-> r.fam, hash |-> r.hash, len |-> r.len, wild |-> r.wild]
    BY <1>5
  <2>4. r.fam \in {"ECDSA", "DETERMINISTIC_ECDSA"} => r.cat = "SIGN"
    BY <1>5 DEF Copies!IsIdentifier
  <2>5. r.len \in Nat /\ r.wild \in BOOLEAN
    BY <1>2, <1>5
  <2>6. r.cat \in {"MAC", "AEAD"}
    BY <1>5
  <2> QED BY <2>1, <2>2, <2>3, <2>4, <2>5, <2>6 DEF Copies!IsIdentifier
<1>7. Copies!SameBase(r, src) /\ Copies!SameBase(r, dst) /\ r.cat \in {"MAC", "AEAD"}
  BY <1>1, <1>5 DEF Copies!SameBase
<1>8. PolicyCovers(src, r) /\ PolicyCovers(dst, r)
  BY <1>2, <1>5, <1>6, <1>7, PolicyPermittedIsLonger
<1> QED BY <1>6, <1>8

(* The intersection of two policies of lengths is covered by both. *)
LEMMA PolicyLengthIntersectCovered ==
    ASSUME NEW src, NEW dst, Copies!IsIdentifier(src), Copies!IsIdentifier(dst),
           Copies!SameBase(src, dst),
           src.cat \in {"MAC", "AEAD"}
    PROVE  LET r == Copies!LengthIntersect(src, dst) IN
           Copies!IsIdentifier(r) /\ PolicyCovers(src, r) /\ PolicyCovers(dst, r)
<1> DEFINE r == Copies!LengthIntersect(src, dst)
<1>1. src.wild \in BOOLEAN /\ dst.wild \in BOOLEAN
  BY DEF Copies!IsIdentifier
<1>2. Copies!SameBase(dst, src) /\ dst.cat \in {"MAC", "AEAD"}
  BY DEF Copies!SameBase
<1>3. CASE src.wild /\ dst.wild
  <2>1. r = [src EXCEPT !.len = Copies!wolfpsa_tag_len_restrict(src.len, dst.len)]
    BY <1>3 DEF Copies!LengthIntersect
  <2>2. src.wild = TRUE /\ dst.wild = TRUE
    BY <1>1, <1>3
  <2> HIDE DEF r
  <2>3. Copies!IsIdentifier(r) /\ PolicyCovers(src, r) /\ PolicyCovers(dst, r)
    BY <2>1, <2>2, PolicyRestrictedIsLonger, Zenon
  <2> QED BY <2>3 DEF r
<1>4. CASE ~(src.wild /\ dst.wild) /\ src.wild /\ Copies!wolfpsa_tag_len_permitted(dst.len, src.len)
  <2>1. r = dst /\ src.wild = TRUE
    BY <1>1, <1>4 DEF Copies!LengthIntersect
  <2>2. PolicyCovers(src, dst)
    BY <1>2, <1>4, <2>1, PolicyPermittedIsLonger
  <2> QED BY <2>1, <2>2, PolicyCoversSelf
<1>5. CASE /\ ~(src.wild /\ dst.wild)
           /\ ~(src.wild /\ Copies!wolfpsa_tag_len_permitted(dst.len, src.len))
           /\ dst.wild /\ Copies!wolfpsa_tag_len_permitted(src.len, dst.len)
  <2>1. r = src /\ dst.wild = TRUE
    BY <1>1, <1>5 DEF Copies!LengthIntersect
  <2>2. PolicyCovers(dst, src)
    BY <1>5, <2>1, PolicyPermittedIsLonger
  <2> QED BY <2>1, <2>2, PolicyCoversSelf
<1>6. CASE /\ ~(src.wild /\ dst.wild)
           /\ ~(src.wild /\ Copies!wolfpsa_tag_len_permitted(dst.len, src.len))
           /\ ~(dst.wild /\ Copies!wolfpsa_tag_len_permitted(src.len, dst.len))
  <2>1. r = Copies!PSA_ALG_NONE
    BY <1>6 DEF Copies!LengthIntersect
  <2> QED BY <2>1, PolicyNoneCovered, PolicyNoneIdentifier
<1> QED BY <1>3, <1>4, <1>5, <1>6

(* What wolfpsa_alg_intersect() gives is covered by both of its arguments. *)
LEMMA PolicyIntersectCovered ==
    ASSUME NEW src, NEW dst, Copies!IsIdentifier(src), Copies!IsIdentifier(dst)
    PROVE  LET r == Copies!wolfpsa_alg_intersect(src, dst).alg IN
           Copies!IsIdentifier(r) /\ PolicyCovers(src, r) /\ PolicyCovers(dst, r)
<1> DEFINE r == Copies!wolfpsa_alg_intersect(src, dst).alg
<1>1. CASE src = dst
  <2>1. r = src
    BY <1>1 DEF Copies!wolfpsa_alg_intersect
  <2> QED BY <1>1, <2>1, PolicyCoversSelf
<1>2. CASE src # dst /\ Copies!SameFamily(src, dst) /\ Copies!PSA_ALG_IS_SIGN_HASH(src)
  <2>1. r = Copies!HashIntersect(src, dst)
    BY <1>2 DEF Copies!wolfpsa_alg_intersect
  <2> QED BY <1>2, <2>1, PolicyHashIntersectCovered
<1>3. CASE /\ src # dst /\ ~(Copies!SameFamily(src, dst) /\ Copies!PSA_ALG_IS_SIGN_HASH(src))
           /\ src.cat \in {"MAC", "AEAD"} /\ Copies!SameBase(src, dst)
  <2>1. r = Copies!LengthIntersect(src, dst)
    BY <1>3 DEF Copies!wolfpsa_alg_intersect
  <2> QED BY <1>3, <2>1, PolicyLengthIntersectCovered
<1>4. CASE /\ src # dst /\ ~(Copies!SameFamily(src, dst) /\ Copies!PSA_ALG_IS_SIGN_HASH(src))
           /\ ~(src.cat \in {"MAC", "AEAD"} /\ Copies!SameBase(src, dst))
  <2>1. r = Copies!PSA_ALG_NONE
    BY <1>4 DEF Copies!wolfpsa_alg_intersect
  <2> QED BY <2>1, PolicyNoneCovered, PolicyNoneIdentifier
<1> QED BY <1>1, <1>2, <1>3, <1>4

(* And so is what wolfpsa_alg2_intersect() gives. *)
LEMMA PolicyIntersect2Covered ==
    ASSUME NEW src, NEW dst, Copies!IsIdentifier(src), Copies!IsIdentifier(dst)
    PROVE  LET r == Copies!wolfpsa_alg2_intersect(src, dst).alg IN
           Copies!IsIdentifier(r) /\ PolicyCovers(src, r) /\ PolicyCovers(dst, r)
<1> DEFINE r == Copies!wolfpsa_alg2_intersect(src, dst).alg
<1>1. CASE src = Copies!PSA_ALG_NONE \/ dst = Copies!PSA_ALG_NONE
  <2>1. r = Copies!PSA_ALG_NONE
    BY <1>1 DEF Copies!wolfpsa_alg2_intersect
  <2> QED BY <2>1, PolicyNoneCovered, PolicyNoneIdentifier
<1>2. CASE ~(src = Copies!PSA_ALG_NONE \/ dst = Copies!PSA_ALG_NONE)
  <2>1. r = Copies!wolfpsa_alg_intersect(src, dst).alg
    BY <1>2 DEF Copies!wolfpsa_alg2_intersect
  <2> QED BY <2>1, PolicyIntersectCovered
<1> QED BY <1>1, <1>2

-----------------------------------------------------------------------------
(* Policies. *)

PolicyIsPolicy(p) == Copies!IsIdentifier(p.alg) /\ Copies!IsIdentifier(p.alg2)

(* Within, for every identifier and not only those in use: the algorithms in   *)
(* use need not be closed under OtherForm.                                   *)
PolicyNarrower(narrow, wide) ==
    \A a, u : Copies!IsIdentifier(a) /\ Copies!Granted(narrow, u, a) =>
        \/ Copies!Granted(wide, u, a)
        \/ u \in Copies!VerifyUsages /\ Copies!Granted(wide, u, Copies!OtherForm(a))

(* The inductive invariant: Narrower is transitive, Within is not. *)
PolicyInv ==
    /\ PolicyIsPolicy(copy) /\ PolicyIsPolicy(want)
    /\ PolicyNarrower(copy, origin) /\ PolicyNarrower(copy, want)

(* A policy made of covered algorithms and fewer usages is narrower. *)
LEMMA PolicyCoveredIsNarrower ==
    ASSUME NEW p, NEW q, p.usage \subseteq q.usage, PolicyCovers(q.alg, p.alg),
           PolicyCovers(q.alg2, p.alg2)
    PROVE  PolicyNarrower(p, q)
BY DEF PolicyNarrower, PolicyCovers, Copies!Granted

LEMMA PolicyNarrowerTransitive ==
    ASSUME NEW p, NEW q, NEW s, PolicyNarrower(p, q), PolicyNarrower(q, s)
    PROVE  PolicyNarrower(p, s)
<1> SUFFICES ASSUME NEW a, NEW u, Copies!IsIdentifier(a), Copies!Granted(p, u, a)
             PROVE  \/ Copies!Granted(s, u, a)
                    \/ u \in Copies!VerifyUsages /\ Copies!Granted(s, u, Copies!OtherForm(a))
  BY DEF PolicyNarrower
<1>1. CASE Copies!Granted(q, u, a)
  BY <1>1 DEF PolicyNarrower
<1>2. CASE u \in Copies!VerifyUsages /\ Copies!Granted(q, u, Copies!OtherForm(a))
  <2>1. Copies!IsIdentifier(Copies!OtherForm(a)) /\ Copies!OtherForm(Copies!OtherForm(a)) = a
    BY PolicyOtherFormTwice
  <2>2. \/ Copies!Granted(s, u, Copies!OtherForm(a))
        \/ u \in Copies!VerifyUsages /\ Copies!Granted(s, u, Copies!OtherForm(Copies!OtherForm(a)))
    BY <1>2, <2>1 DEF PolicyNarrower
  <2> QED BY <1>2, <2>1, <2>2
<1> QED BY <1>1, <1>2 DEF PolicyNarrower

(* A copy is narrower than the key it is made of and than what was asked for. *)
LEMMA PolicyCopyIsNarrower ==
    ASSUME NEW p, NEW q, PolicyIsPolicy(p), PolicyIsPolicy(q)
    PROVE  LET c == Copies!CopyPolicy(p, q).policy IN
           PolicyIsPolicy(c) /\ PolicyNarrower(c, p) /\ PolicyNarrower(c, q)
<1> DEFINE c == Copies!CopyPolicy(p, q).policy
<1>1. /\ c.usage = p.usage \intersect q.usage
      /\ c.alg = Copies!wolfpsa_alg_intersect(p.alg, q.alg).alg
      /\ c.alg2 = Copies!wolfpsa_alg2_intersect(p.alg2, q.alg2).alg
  BY DEF Copies!CopyPolicy
<1> HIDE DEF c
<1>2. Copies!IsIdentifier(c.alg) /\ PolicyCovers(p.alg, c.alg) /\ PolicyCovers(q.alg, c.alg)
  BY <1>1, PolicyIntersectCovered DEF PolicyIsPolicy
<1>3. Copies!IsIdentifier(c.alg2) /\ PolicyCovers(p.alg2, c.alg2) /\ PolicyCovers(q.alg2, c.alg2)
  BY <1>1, PolicyIntersect2Covered DEF PolicyIsPolicy
<1>4. PolicyNarrower(c, p) /\ PolicyNarrower(c, q)
  BY <1>1, <1>2, <1>3, PolicyCoveredIsNarrower
<1> QED BY <1>2, <1>3, <1>4 DEF c, PolicyIsPolicy

LEMMA PolicyAttributesArePolicies ==
    ASSUME Copies!ConstantsOK, NEW p \in Copies!Policies
    PROVE  PolicyIsPolicy(p)
BY PolicyNoneIdentifier DEF Copies!ConstantsOK, Copies!Policies, PolicyIsPolicy

LEMMA PolicyCopiesKept ==
    ASSUME Copies!ConstantsOK
    PROVE  Copies!Spec => []PolicyInv
<1>1. Copies!Init => PolicyInv
  BY PolicyAttributesArePolicies DEF Copies!Init, PolicyInv, PolicyNarrower
<1>2. PolicyInv /\ [Copies!Next]_(Copies!vars) => PolicyInv'
  <2> SUFFICES ASSUME PolicyInv, [Copies!Next]_(Copies!vars) PROVE PolicyInv'
    OBVIOUS
  <2>1. CASE UNCHANGED <<origin, want, copy>>
    BY <2>1 DEF PolicyInv, PolicyIsPolicy, PolicyNarrower, Copies!Granted
  <2>2. ASSUME NEW attributes \in Copies!Policies,
               copy' = Copies!CopyPolicy(copy, attributes).policy,
               want' = attributes, origin' = origin
        PROVE  PolicyInv'
    <3>1. PolicyIsPolicy(attributes) /\ PolicyIsPolicy(copy)
      BY PolicyAttributesArePolicies DEF PolicyInv
    <3>2. PolicyIsPolicy(copy') /\ PolicyNarrower(copy', copy) /\ PolicyNarrower(copy', attributes)
      BY <2>2, <3>1, PolicyCopyIsNarrower
    <3>3. PolicyNarrower(copy', origin)
      BY <3>2, PolicyNarrowerTransitive DEF PolicyInv
    <3>4. PolicyIsPolicy(copy') /\ PolicyIsPolicy(want') /\ PolicyNarrower(copy', origin') /\ PolicyNarrower(copy', want')
      BY <2>2, <3>1, <3>2, <3>3
    <3> QED BY <3>4 DEF PolicyInv, PolicyIsPolicy, PolicyNarrower, Copies!Granted
  <2>3. CASE Copies!Next
    BY <2>1, <2>2, <2>3 DEF Copies!Next, Copies!psa_copy_key
  <2> QED BY <2>1, <2>3 DEF Copies!vars
<1> QED BY <1>1, <1>2, PTL DEF Copies!Spec

-----------------------------------------------------------------------------
(* However often a key is copied, no copy does what the first key or the       *)
(* attributes given to psa_copy_key() would not permit.                      *)
LEMMA PolicyCopiesNeverGain ==
    ASSUME Copies!ConstantsOK
    PROVE  Copies!Spec => []Copies!NeverGains
<1>1. PolicyInv => Copies!NeverGains
  BY DEF PolicyInv, Copies!NeverGains, PolicyNarrower, Copies!Within, Copies!ConstantsOK
<1> QED BY <1>1, PolicyCopiesKept, PTL

(* An algorithm that can be carried out permits itself. *)
LEMMA PolicyPermitsItself ==
    ASSUME NEW a, NEW u, Copies!IsIdentifier(a), Copies!IsConcrete(a),
           a # Copies!PSA_ALG_NONE
    PROVE  Copies!AlgPermitted(a, a, u)
<1>1. CASE a.cat = "MAC"
  <2>1. Copies!PSA_MAC_LENGTH(a) \in Nat
    BY <1>1 DEF Copies!PSA_MAC_LENGTH, Copies!IsIdentifier
  <2> QED BY <1>1, <2>1, PolicyPermittedByGroup DEF Copies!wolfpsa_mac_alg_permitted,
      Copies!SameBase
<1>2. CASE a.cat = "AEAD"
  BY <1>2, PolicyPermittedByGroup DEF Copies!wolfpsa_aead_alg_permitted, Copies!SameBase,
     Copies!IsIdentifier, Copies!IsConcrete
<1>3. CASE a.cat \notin {"MAC", "AEAD"}
  BY <1>3, PolicyPermittedByGroup
     DEF Copies!wolfpsa_asymmetric_alg_permitted, Copies!wolfpsa_sign_alg_permitted,
         Copies!wolfpsa_key_agreement_alg_permitted
<1> QED BY <1>1, <1>2, <1>3

(* For an algorithm that can be carried out, psa_check_key_usage() promises    *)
(* nothing that the check of the operation itself refuses, and grants what     *)
(* that check grants by equality or the hash wildcard, for any policy that     *)
(* copies can reach.                                                        *)
LEMMA PolicyUsageCheckIsHonest ==
    ASSUME Copies!ConstantsOK
    PROVE  Copies!Spec => []Copies!UsageCheckHonest
<1>1. Copies!UsageCheckHonest
  <2> SUFFICES ASSUME NEW u \in Copies!Usages, NEW a \in PolicyAlgs, Copies!IsConcrete(a)
               PROVE  /\ Copies!psa_check_key_usage(copy, a, {u}) = "SUCCESS"
                            => Copies!Granted(copy, u, a)
                      /\ Copies!Granted(copy, u, a) /\ Copies!CheckedAlike(u, a)
                            => Copies!psa_check_key_usage(copy, a, {u}) = "SUCCESS"
    BY DEF Copies!UsageCheckHonest
  <2>1. Copies!IsIdentifier(a) /\ a # Copies!PSA_ALG_NONE
    BY DEF Copies!ConstantsOK
  <2>2. Copies!psa_check_key_usage(copy, a, {u}) = "SUCCESS"
            <=> u \in copy.usage /\ Copies!wolfpsa_key_permits_alg(copy, a)
    BY <2>1 DEF Copies!psa_check_key_usage
  <2>3. ASSUME NEW k, Copies!wolfpsa_policy_alg_permits(k, a)
        PROVE  Copies!AlgPermitted(k, a, u)
    <3>1. CASE k = a
      BY <2>1, <3>1, PolicyPermitsItself
    <3>2. CASE Copies!AnyHashPermits(k, a)
      <4>1. a.cat = "SIGN" /\ k # Copies!PSA_ALG_NONE
        BY <2>3, <3>2 DEF Copies!AnyHashPermits, Copies!PSA_ALG_IS_SIGN_HASH,
           Copies!wolfpsa_policy_alg_permits
      <4> QED BY <3>2, <4>1, PolicyPermittedByGroup
              DEF Copies!wolfpsa_asymmetric_alg_permitted, Copies!wolfpsa_sign_alg_permitted
    <3> QED BY <2>3, <3>1, <3>2 DEF Copies!wolfpsa_policy_alg_permits
  <2>4. ASSUME NEW k, Copies!AlgPermitted(k, a, u), Copies!CheckedAlike(u, a)
        PROVE  Copies!wolfpsa_policy_alg_permits(k, a)
    <3>1. Copies!wolfpsa_asymmetric_alg_permitted(k, a, u)
      BY <2>4, PolicyPermittedByGroup DEF Copies!CheckedAlike
    <3> QED BY <2>4, <3>1
            DEF Copies!CheckedAlike, Copies!wolfpsa_asymmetric_alg_permitted,
                Copies!wolfpsa_sign_alg_permitted, Copies!wolfpsa_policy_alg_permits
  <2> QED BY <2>2, <2>3, <2>4 DEF Copies!wolfpsa_key_permits_alg, Copies!Granted
<1> QED BY <1>1, PTL

-----------------------------------------------------------------------------
(* Hashes, ciphers, the policies of copies and the transport of keys, beside   *)
(* the other operations.                                                       *)

(* A step of the API is a step of the hash operations, or leaves them alone. *)
LEMMA ApiRunsHash == OpsSpec => Hash!Spec
<1>1. OpsInit => Hash!Init
  BY DEF OpsInit
<1>2. [OpsNext]_allvars => [Hash!Next]_(Hash!vars)
  BY DEF OpsNext, allvars, hvars, Hash!vars
<1> QED BY <1>1, <1>2, PTL DEF OpsSpec, Hash!Spec

(* A step of the API is a step of the cipher operation, or leaves it alone. *)
LEMMA ApiRunsCipher == OpsSpec => Cipher!Spec
<1>1. OpsInit => Cipher!Init
  BY DEF OpsInit
<1>2. [OpsNext]_allvars => [Cipher!Next]_(Cipher!vars)
  BY DEF OpsNext, allvars, cvars, Cipher!vars
<1> QED BY <1>1, <1>2, PTL DEF OpsSpec, Cipher!Spec

(* A step of the API is a copy of a key, or leaves the policies alone. *)
LEMMA ApiRunsCopies == OpsSpec => Copies!Spec
<1>1. OpsInit => Copies!Init
  BY DEF OpsInit
<1>2. [OpsNext]_allvars => [Copies!Next]_(Copies!vars)
  BY DEF OpsNext, allvars, pvars, Copies!vars
<1> QED BY <1>1, <1>2, PTL DEF OpsSpec, Copies!Spec

(* A step of the API is a step of the transport of keys, or leaves it alone. *)
LEMMA ApiRunsTransport == OpsSpec => Transport!Spec
<1>1. OpsInit => Transport!Init
  BY DEF OpsInit
<1>2. [OpsNext]_allvars => [Transport!Next]_(Transport!vars)
  BY DEF OpsNext, allvars, tvars, Transport!vars
<1> QED BY <1>1, <1>2, PTL DEF OpsSpec, Transport!Spec

(* Every digest is that of all the input of its operation, cloned or not, and  *)
(* every verdict is right (psa_hash_finish(), psa_hash_verify()).            *)
THEOREM HashAnswersAreExact ==
    ASSUME Hash!ConstantsOK
    PROVE  OpsSpec => []AnswersExact
<1>1. Hash!Spec => []Hash!AnswersExact
  BY Hash!DigestsAreExact
<1> QED BY <1>1, ApiRunsHash, PTL DEF AnswersExact

(* Every allocated hash context has one owner and no operation points to a     *)
(* freed one, whichever allocation failed (psa_hash_setup(),                  *)
(* psa_hash_clone(), psa_hash_abort()).                                      *)
THEOREM HashHeapIsBalanced ==
    ASSUME Hash!ConstantsOK
    PROVE  OpsSpec => []HeapBalanced
<1>1. Hash!Spec => []Hash!HeapBalanced
  BY Hash!ContextsHaveOneOwner
<1> QED BY <1>1, ApiRunsHash, PTL DEF HeapBalanced

(* However the input of psa_cipher_update() is cut, in any mode and any block   *)
(* length, no byte is lost, and what is retained or written fits.              *)
THEOREM CipherStreamsAreKept ==
    ASSUME Cipher!ConstantsOK
    PROVE  OpsSpec => []CipherStreamKept
<1>1. Cipher!Spec => []Cipher!StreamKept
  BY Cipher!StreamsAreKept
<1> QED BY <1>1, ApiRunsCipher, PTL DEF CipherStreamKept

(* What was encrypted decrypts to its message, in one call or in many          *)
(* (psa_cipher_encrypt(), psa_cipher_decrypt(), psa_cipher_finish()).          *)
THEOREM CipherMessagesComeBack ==
    ASSUME Cipher!ConstantsOK
    PROVE  OpsSpec => []CipherRoundTrip
<1>1. Cipher!Spec => []Cipher!RoundTrip
  BY Cipher!MessagesComeBack
<1> QED BY <1>1, ApiRunsCipher, PTL DEF CipherRoundTrip

(* A cipher operation works with one IV, and with none it releases nothing     *)
(* (psa_cipher_set_iv(), psa_cipher_generate_iv()).                            *)
THEOREM CiphersKeepTheirIv ==
    ASSUME Cipher!ConstantsOK
    PROVE  OpsSpec => CipherOneIv
<1>1. Cipher!Spec => Cipher!OneIv
  BY Cipher!OperationsKeepTheirIv
<1> QED BY <1>1, ApiRunsCipher, PTL DEF CipherOneIv

(* What psa_wrap_key() and psa_key_agreement() learned of a key holds for the  *)
(* key they then use, whatever key the id names by then.                     *)
THEOREM TransportUsesWhatItChecked ==
    ASSUME Transport!ConstantsOK
    PROVE  OpsSpec => []FreshAtUse
<1>1. Transport!Spec => []Transport!FreshAtUse
  BY Transport!FreshWhenUsed
<1> QED BY <1>1, ApiRunsTransport, PTL DEF FreshAtUse

(* No return of psa_wrap_key(), psa_unwrap_key(), psa_encapsulate(),           *)
(* psa_decapsulate(), psa_raw_key_agreement() or psa_key_agreement() keeps a   *)
(* copy of a key on the heap; psa_unwrap_key(), psa_encapsulate() and          *)
(* psa_decapsulate() give all their outputs or none (a failed import may leave *)
(* the id in psa_key_agreement()).                                          *)
THEOREM TransportReturnsClean ==
    ASSUME Transport!ConstantsOK
    PROVE  OpsSpec => []CleanReturn
<1>1. Transport!Spec => []Transport!CleanReturn
  BY Transport!ReturnsClean
<1> QED BY <1>1, ApiRunsTransport, PTL DEF CleanReturn

(* However often a key is copied, no copy does what the first key or the       *)
(* attributes given to psa_copy_key() would not permit.                      *)
THEOREM CopiesGainNothing ==
    ASSUME Copies!ConstantsOK
    PROVE  OpsSpec => []CopyNeverGains
<1>1. Copies!Spec => []Copies!NeverGains
  BY PolicyCopiesNeverGain
<1> QED BY <1>1, ApiRunsCopies, PTL DEF CopyNeverGains

(* For every algorithm but the wildcards of policies (any hash, an AEAD with   *)
(* the at-least flag), psa_check_key_usage() promises nothing that the check   *)
(* of the operation itself refuses, and it refuses no signing or asymmetric    *)
(* encryption or decryption that this check grants, for any policy.          *)
THEOREM UsageChecksAreHonest ==
    ASSUME Copies!ConstantsOK
    PROVE  OpsSpec => []UsageCheckHonest
<1>1. Copies!Spec => []Copies!UsageCheckHonest
  BY PolicyUsageCheckIsHonest
<1> QED BY <1>1, ApiRunsCopies, PTL DEF UsageCheckHonest
=============================================================================
