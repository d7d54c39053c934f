----------------------------- MODULE Operations -----------------------------
(***************************************************************************)
(* The operations of the API side by side: extendable output, hashes, MACs, *)
(* ciphers, the policies of copied keys, the asymmetric calls and the       *)
(* transport of keys.  They share no state (each has an operation object of *)
(* its own), so a behaviour is one of one of them and leaves the others     *)
(* alone.                                                                  *)
(***************************************************************************)
EXTENDS XofOp

CONSTANTS
    None, Free, NoIv, Garbage,                            \* model values
    FullLens,                                             \* Policy
    HashOps, HashLocal, DigestLen, HashBytes, Cells, HashMaxLen,   \* HashOp
    MacLens, MacKeys, MinTrunc, MacMaxLen,                \* MacOp
    CipherAlgs, CipherKeys, BlockLen, Ivs, CipherLens, CipherRooms, CipherMaxLen,  \* CipherOp
    PolicyAlgs, PolicyAlgs2, UsageSets,                   \* KeyPolicy
    SignKeys, SignRequests, HashLens, WcHashes, MldsaHashes, MsgLens,
    HashMax, PrehashLen, SigLens, Labels,                 \* Asymmetric
    Ids, TransportKeys, KwAlgs, KemAlgs, KaAlgs, OutTypes, Peers, KeyRooms, CtLen   \* KeyTransport

VARIABLES
    api,                                    \* the component of this behaviour
    heap, htold, hlast,                     \* HashOp
    mctx, mbufs, mtold, mlast,              \* MacOp
    cctx, ccall, cin, cout, wire, plain,    \* CipherOp
    origin, want, copy, pstatus,            \* KeyPolicy
    sent, slast,                            \* Asymmetric
    store, tcall, tbufs, twire, tret        \* KeyTransport

-----------------------------------------------------------------------------
Hash == INSTANCE HashOpProofs WITH
    Ops <- HashOps, Local <- HashLocal, Size <- DigestLen, Bytes <- HashBytes,
    MaxLen <- HashMaxLen, Null <- NoCtx, told <- htold, last <- hlast

Macs == INSTANCE MacOp WITH
    FullLen <- FullLens, Lens <- MacLens, Keys <- MacKeys, MaxLen <- MacMaxLen,
    ctx <- mctx, bufs <- mbufs, told <- mtold, last <- mlast

Cipher == INSTANCE CipherOpProofs WITH
    Algs <- CipherAlgs, Keys <- CipherKeys, BS <- BlockLen,
    Lens <- CipherLens, Rooms <- CipherRooms, MaxLen <- CipherMaxLen,
    ctx <- cctx, call <- ccall, input <- cin, out <- cout

Copies == INSTANCE KeyPolicy WITH
    FullLen <- FullLens, Algs <- PolicyAlgs, Algs2 <- PolicyAlgs2, status <- pstatus

Asym == INSTANCE Asymmetric WITH
    FullLen <- FullLens, Keys <- SignKeys, Requests <- SignRequests,
    HashLen <- HashLens, MsgLen <- MsgLens, SigLen <- SigLens, last <- slast

Transport == INSTANCE KeyTransportProofs WITH
    FullLen <- FullLens, Keys <- TransportKeys, Rooms <- KeyRooms, Absent <- NoCtx,
    call <- tcall, bufs <- tbufs, wire <- twire, ret <- tret

-----------------------------------------------------------------------------
Apis == {"xof", "hash", "mac", "cipher", "policy", "asymmetric", "transport"}

hvars == <<heap, htold, hlast>>
mvars == <<mctx, mbufs, mtold, mlast>>
cvars == <<cctx, ccall, cin, cout, wire, plain>>
pvars == <<origin, want, copy, pstatus>>
svars == <<sent, slast>>
tvars == <<store, tcall, tbufs, twire, tret>>
allvars == <<api, vars, hvars, mvars, cvars, pvars, svars, tvars>>

(* A component that does not move has one initial state. *)
OpsInit ==
    /\ api \in Apis
    /\ Init /\ Hash!Init /\ Macs!Init /\ Cipher!Init /\ Copies!Init /\ Asym!Init
    /\ Transport!Init
    /\ api # "xof" => size_max = WORD32_MAX
    /\ api # "policy" => origin = CHOOSE p \in Copies!Policies : TRUE
    /\ api # "transport" => store = [id \in Ids |-> NoCtx]

OpsNext ==
    /\ UNCHANGED api
    /\ \/ api = "xof" /\ Next /\ UNCHANGED <<hvars, mvars, cvars, pvars, svars, tvars>>
       \/ api = "hash" /\ Hash!Next /\ UNCHANGED <<vars, mvars, cvars, pvars, svars, tvars>>
       \/ api = "mac" /\ Macs!Next /\ UNCHANGED <<vars, hvars, cvars, pvars, svars, tvars>>
       \/ api = "cipher" /\ Cipher!Next /\ UNCHANGED <<vars, hvars, mvars, pvars, svars, tvars>>
       \/ api = "policy" /\ Copies!Next /\ UNCHANGED <<vars, hvars, mvars, cvars, svars, tvars>>
       \/ api = "asymmetric" /\ Asym!Next /\ UNCHANGED <<vars, hvars, mvars, cvars, pvars, tvars>>
       \/ /\ api = "transport" /\ Transport!Next
          /\ UNCHANGED <<vars, hvars, mvars, cvars, pvars, svars>>

OpsSpec == OpsInit /\ [][OpsNext]_allvars /\ WF_vars(Turn)
-----------------------------------------------------------------------------
(* Every digest, of an operation or of its clone, and every verdict is right   *)
(* (psa_hash_clone(), psa_hash_verify()).                                    *)
AnswersExact == Hash!AnswersExact

(* Every context on the heap belongs to one hash operation and none points to *)
(* a freed one, after any failure (psa_hash_clone(), psa_hash_compute()).    *)
HeapBalanced == Hash!HeapBalanced

(* A MAC is written only at a length that the policy of the key allows, and    *)
(* verification accepts exactly the MACs of a length that the algorithm asked *)
(* for covers, the shortest of which the policy allows                      *)
(* (psa_mac_verify_finish(), wolfpsa_mac_alg_permitted()).                   *)
MacVerdictsExact == Macs!VerdictsExact

(* The key that wolfCrypt's HMAC borrows lives as long as the operation, and   *)
(* no copy of a key outlives its call (wolfpsa_mac_setup()).                 *)
MacKeyBuffersHeld == Macs!KeyBuffersHeld

(* However the input of psa_cipher_update() is cut, no byte is lost, and what  *)
(* is retained or written fits.                                             *)
CipherStreamKept == Cipher!StreamKept

(* A ciphertext decrypts to its message, in one call or in many. *)
CipherRoundTrip == Cipher!RoundTrip

(* A cipher operation works with one IV (psa_cipher_set_iv()). *)
CipherOneIv == Cipher!OneIv

(* No copy of a key, nor a copy of a copy, does what the first key could not   *)
(* (psa_copy_key()).                                                         *)
CopyNeverGains == Copies!NeverGains

(* psa_check_key_usage() promises no algorithm that can be carried out where   *)
(* the operation's own check of the policy refuses it, and refuses one that    *)
(* the operation grants only where lengths, KDFs or forms of a signature       *)
(* matter.                                                                   *)
UsageCheckHonest == Copies!UsageCheckHonest

(* Verification accepts only the signatures made with this key, of these      *)
(* bytes and this context, whichever entry points were used, and calls such a  *)
(* signature invalid only when wolfCrypt failed under ECDSA or RSA-PSS         *)
(* (psa_verify_hash(), psa_verify_message()).                               *)
SignatureVerdictsExact == Asym!VerdictsExact

(* A signature or a plaintext that was written is right and had room           *)
(* (wolfpsa_sign_output_size(), psa_asymmetric_decrypt()).                   *)
AsymmetricOutputsRight == Asym!OutputsRight

(* What psa_wrap_key() and psa_key_agreement() learned of a key holds for the  *)
(* key they then use, whatever key the id names by then.                     *)
FreshAtUse == Transport!FreshAtUse

(* No path of psa_wrap_key(), psa_unwrap_key(), psa_encapsulate(),             *)
(* psa_decapsulate(), psa_raw_key_agreement() or psa_key_agreement() leaves a  *)
(* copy of a key on the heap; unwrapping and encapsulation give all their      *)
(* outputs or none (psa_key_agreement() may leave the id of a failed import). *)
CleanReturn == Transport!CleanReturn
=============================================================================
