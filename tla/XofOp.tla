------------------------------- MODULE XofOp -------------------------------
(***************************************************************************)
(* The extendable-output functions of src/src/psa_xof.c: one                *)
(* psa_xof_operation_t, whose input is gathered in a buffer that grows,     *)
(* absorbed in one call, and whose output is served in pieces of any length *)
(* from a one-block staging buffer or straight from the sponge.             *)
(*                                                                         *)
(* psa_xof_output() is a loop; every turn of it is a step here, so `left'   *)
(* is positive between the steps of one call.  A byte of output is its      *)
(* place in the output of SHAKE; of the input only the length is kept.      *)
(***************************************************************************)
EXTENDS Integers, Sequences

CONSTANTS
    BlockSize,   \* alg :> its rate
    WORD32_MAX,  \* UINT32_MAX
    FirstCap,    \* first size of the input buffer (256)
    SizeMaxes,   \* the values SIZE_MAX may have in a build
    MaxOut,      \* bound: bytes of output asked of one operation
    NoCtx        \* operation->opaque == NULL

Algs == DOMAIN BlockSize

ASSUME WordAssumption == WORD32_MAX \in Nat /\ FirstCap \in 1 .. WORD32_MAX
ASSUME BuildAssumption == \A m \in SizeMaxes : m \in Nat /\ m >= WORD32_MAX
ASSUME RateAssumption == BlockSize \in [Algs -> 1 .. WORD32_MAX]
ASSUME BoundAssumption == MaxOut \in Nat

VARIABLES
    op,        \* psa_xof_operation_ctx_t, or NoCtx
    left,      \* output_length in the loop of psa_xof_output()
    status,    \* the status of the last call that ended
    size_max,  \* SIZE_MAX of this build
    fed,       \* history: bytes of input accepted since setup
    out,       \* history: the bytes of output written since setup
    asked      \* history: bytes of output asked for since setup

vars == <<op, left, status, size_max, fed, out, asked>>

Contexts ==
    [alg : Algs, squeezing : BOOLEAN, buf : Nat, buf_off : Nat, buf_len : Nat,
     ibuf_len : Nat, ibuf_cap : Nat, absorbed : Seq(Nat), blocks : Nat]

ASSUME NoCtxAssumption == NoCtx \notin Contexts

Active == op # NoCtx
Idle == left = 0

(* buf is the place in the stream of the block in the staging buffer;        *)
(* absorbed and blocks are the state of wolfCrypt's wc_Shake: what it was    *)
(* given to absorb and the number of blocks squeezed.                       *)
NewCtx(alg) ==
    [alg |-> alg, squeezing |-> FALSE, buf |-> 0, buf_off |-> 0, buf_len |-> 0,
     ibuf_len |-> 0, ibuf_cap |-> 0, absorbed |-> <<>>, blocks |-> 0]

Init ==
    /\ op = NoCtx /\ left = 0 /\ status = "SUCCESS" /\ size_max \in SizeMaxes
    /\ fed = 0 /\ out = <<>> /\ asked = 0

Rate == BlockSize[op.alg]

(* The call ends with an error and the operation is aborted. *)
wolfpsa_xof_fail(st) ==
    /\ op' = NoCtx /\ left' = 0 /\ status' = st
    /\ fed' = 0 /\ out' = <<>> /\ asked' = 0

psa_xof_abort ==
    /\ Idle
    /\ wolfpsa_xof_fail("SUCCESS")
    /\ UNCHANGED size_max

-----------------------------------------------------------------------------
(* A setup that fails leaves the operation as it was. *)
psa_xof_setup(alg) ==
    /\ Idle
    /\ \/ \* not initialised, not an XOF, Ascon, no memory, wolfCrypt refuses
          /\ status' \in {"BAD_STATE", "INVALID_ARGUMENT", "NOT_SUPPORTED",
                          "INSUFFICIENT_MEMORY", "GENERIC_ERROR"}
          /\ UNCHANGED <<op, fed, out, asked>>
       \/ /\ Active /\ status' = "BAD_STATE"
          /\ UNCHANGED <<op, fed, out, asked>>
       \/ /\ ~Active
          /\ op' = NewCtx(alg) /\ status' = "SUCCESS"
          /\ fed' = 0 /\ out' = <<>> /\ asked' = 0
    /\ UNCHANGED <<left, size_max>>

(* Neither SHAKE takes a context: every call fails and aborts. *)
psa_xof_set_context ==
    /\ Idle
    /\ wolfpsa_xof_fail(IF Active THEN "INVALID_ARGUMENT" ELSE "BAD_STATE")
    /\ UNCHANGED size_max

-----------------------------------------------------------------------------
(* psa_xof_update(). *)

(* The first of cap, 2 cap, 4 cap ... that holds `need' bytes, or WORD32_MAX  *)
(* once the next would be more.                                             *)
Doubled(cap, need) ==
    {c \in need .. WORD32_MAX :
        \E k \in 0 .. WORD32_MAX :
            /\ k > 0 => cap * 2 ^ (k - 1) < need
            /\ c = IF cap * 2 ^ k > WORD32_MAX THEN WORD32_MAX ELSE cap * 2 ^ k}

(* The sizes the buffer may have afterwards: one. *)
psa_xof_ibuf_grow(cap, need) ==
    IF need <= cap THEN {cap} ELSE Doubled(IF cap = 0 THEN FirstCap ELSE cap, need)

(* Mutation: the total is compared after the sum, which wraps. *)
TotalTooLong_sum(n) == (op.ibuf_len + n) % (size_max + 1) > WORD32_MAX

TotalTooLong(n) == n > WORD32_MAX - op.ibuf_len

psa_xof_update(n) ==
    LET need == (op.ibuf_len + n) % (size_max + 1) IN
    /\ Idle /\ n <= size_max
    /\ \/ wolfpsa_xof_fail("INVALID_ARGUMENT")  \* a NULL pointer with a length
       \/ /\ Active => op.squeezing
          /\ wolfpsa_xof_fail("BAD_STATE")
       \/ /\ Active /\ ~op.squeezing /\ n = 0
          /\ status' = "SUCCESS"
          /\ UNCHANGED <<op, left, fed, out, asked>>
       \/ /\ Active /\ ~op.squeezing /\ n > 0
          /\ n > WORD32_MAX \/ TotalTooLong(n)
          /\ wolfpsa_xof_fail("INVALID_ARGUMENT")
       \/ /\ Active /\ ~op.squeezing /\ n > 0
          /\ n <= WORD32_MAX /\ ~TotalTooLong(n)
          /\ \/ /\ need > op.ibuf_cap
                /\ wolfpsa_xof_fail("INSUFFICIENT_MEMORY")
             \/ /\ \E cap \in psa_xof_ibuf_grow(op.ibuf_cap, need) :
                    op' = [op EXCEPT !.ibuf_cap = cap, !.ibuf_len = @ + n]
                /\ fed' = fed + n /\ status' = "SUCCESS"
                /\ UNCHANGED <<left, out, asked>>
    /\ UNCHANGED size_max

-----------------------------------------------------------------------------
(* psa_xof_output(). *)

(* Mutation: the input is absorbed again by a later call. *)
Absorb_again == [op EXCEPT !.absorbed = Append(@, op.ibuf_len), !.ibuf_cap = 0,
                           !.squeezing = TRUE, !.buf_off = 0, !.buf_len = 0]

(* The input goes into the sponge once and its buffer is released. *)
Absorb ==
    IF op.squeezing THEN op
    ELSE [op EXCEPT !.absorbed = Append(@, op.ibuf_len % (WORD32_MAX + 1)),
                    !.ibuf_len = 0, !.ibuf_cap = 0,
                    !.squeezing = TRUE, !.buf_off = 0, !.buf_len = 0]

psa_xof_output(n) ==
    /\ Idle /\ n <= size_max /\ asked + n <= MaxOut
    /\ \/ wolfpsa_xof_fail("INVALID_ARGUMENT")  \* a NULL pointer with a length
       \/ ~Active /\ wolfpsa_xof_fail("BAD_STATE")
       \/ /\ Active /\ n = 0 /\ status' = "SUCCESS"
          /\ UNCHANGED <<op, left, fed, out, asked>>
       \/ /\ Active /\ n > 0 /\ ~op.squeezing   \* wc_Shake_Absorb() fails
          /\ wolfpsa_xof_fail("GENERIC_ERROR")
       \/ /\ Active /\ n > 0
          /\ op' = Absorb
          /\ left' = n /\ asked' = asked + n
          /\ UNCHANGED <<status, fed, out>>
    /\ UNCHANGED size_max

(* wc_Shake_SqueezeBlocks(): the number of bytes is a product of word32s. *)
SqueezeBlocks(n) == ((n * Rate) % (WORD32_MAX + 1)) \div Rate

(* k bytes of the stream, from the place `from' on, reach the caller. *)
Serve(from, k) ==
    /\ out' = out \o [i \in 1 .. k |-> from + i]
    /\ left' = left - k
    /\ status' = IF left = k THEN "SUCCESS" ELSE status

InLoop == Active /\ left > 0

(* Mutation: the staging buffer is taken to hold whatever is asked. *)
Take_left == IF left < Rate THEN left ELSE Rate

Take == IF left < op.buf_len - op.buf_off THEN left ELSE op.buf_len - op.buf_off

Drain ==
    /\ InLoop /\ op.buf_off < op.buf_len
    /\ Serve(op.buf + op.buf_off, Take)
    /\ op' = [op EXCEPT !.buf_off = @ + Take]
    /\ UNCHANGED <<size_max, fed, asked>>

(* Mutation: no limit on the blocks of one call. *)
BlocksOfOneCall_all == left \div Rate

(* Mutation: the last block is left to the staging buffer. *)
BlocksOfOneCall_but_last == (left - 1) \div Rate

BlocksOfOneCall ==
    LET max_blocks == WORD32_MAX \div Rate IN
    IF left \div Rate > max_blocks THEN max_blocks ELSE left \div Rate

(* Whole blocks go straight to the caller, as many as one call can make. *)
SqueezeDirect ==
    /\ InLoop /\ op.buf_off >= op.buf_len /\ left >= Rate
    /\ Serve(op.blocks * Rate, BlocksOfOneCall * Rate)
    /\ op' = [op EXCEPT !.buf_off = 0, !.buf_len = 0,
                        !.blocks = @ + SqueezeBlocks(BlocksOfOneCall)]
    /\ UNCHANGED <<size_max, fed, asked>>

(* The last bytes come from a block kept in the staging buffer. *)
SqueezeTail ==
    /\ InLoop /\ op.buf_off >= op.buf_len /\ left < Rate
    /\ op' = [op EXCEPT !.buf = op.blocks * Rate, !.buf_off = 0, !.buf_len = Rate,
                        !.blocks = @ + SqueezeBlocks(1)]
    /\ UNCHANGED <<left, status, size_max, fed, out, asked>>

SqueezeFails ==
    /\ InLoop /\ op.buf_off >= op.buf_len
    /\ wolfpsa_xof_fail("GENERIC_ERROR")
    /\ UNCHANGED size_max

(* A turn of the loop in which wolfCrypt does not fail. *)
Turn == Drain \/ SqueezeDirect \/ SqueezeTail

Next ==
    \/ \E alg \in Algs : psa_xof_setup(alg)
    \/ psa_xof_set_context
    \/ \E n \in 0 .. WORD32_MAX + 1 : psa_xof_update(n)
    \/ \E n \in 0 .. MaxOut : psa_xof_output(n)
    \/ Turn \/ SqueezeFails
    \/ psa_xof_abort

(* A thread in the loop goes on running; wolfCrypt need never fail. *)
Spec == Init /\ [][Next]_vars /\ WF_vars(Turn)

-----------------------------------------------------------------------------
(* The types, and the staging buffer is read within its valid bytes. *)
TypeOK ==
    /\ op \in Contexts \union {NoCtx}
    /\ left \in Nat /\ fed \in Nat /\ asked \in Nat /\ out \in Seq(Nat)
    /\ status \in {"SUCCESS", "BAD_STATE", "INVALID_ARGUMENT", "NOT_SUPPORTED",
                   "INSUFFICIENT_MEMORY", "GENERIC_ERROR"}
    /\ size_max \in SizeMaxes
    /\ Active => op.buf_off <= op.buf_len /\ op.buf_len <= Rate

(* However the requests are cut, psa_xof_output() writes the bytes of the    *)
(* stream in order, none twice and none left out, and a call that returned   *)
(* wrote exactly what was asked: the staging buffer, the direct squeeze and  *)
(* the chunks of the latter (src/src/psa_xof.c:397-481) join up.             *)
OneStream ==
    /\ \A i \in 1 .. Len(out) : out[i] = i
    /\ Len(out) + left = asked

(* The sponge absorbs all the accepted input, in one call, before the first  *)
(* byte comes out (src/src/psa_xof.c:357-394).                              *)
AbsorbedOnce ==
    Active => op.absorbed = IF op.squeezing THEN <<fed>> ELSE <<>>

(* The gathered input fits in its buffer and in the word32 that wolfCrypt     *)
(* takes, whatever the width of size_t (src/src/psa_xof.c:318).             *)
InputFits ==
    Active => op.ibuf_len <= op.ibuf_cap /\ op.ibuf_cap <= WORD32_MAX

(* A call of psa_xof_output() returns: a turn of its loop takes something off *)
(* output_length, or fills the staging buffer for the next turn that does    *)
(* (src/src/psa_xof.c:396-481).                                             *)
OutputReturns == [](left > 0 => <>(left = 0))
=============================================================================
