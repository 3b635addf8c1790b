------------------------------ MODULE Sha3MCT ------------------------------
(***************************************************************************)
(* The SHA-3 Monte Carlo Test of src/acvp_hash.c: acvp_hash_sha3_mct      *)
(* (lines 179-261) with the record it emits through                       *)
(* acvp_hash_output_mct_tc (lines 48-81) for a fixed-output cipher.       *)
(*                                                                         *)
(* One step is one pass of the inner loop (lines 201-240): the message is *)
(* rebuilt from the previous digest (passes 1..MCT_INNER) and, except on  *)
(* the last pass, the crypto module is called; the last pass also outputs *)
(* and appends the record of the outer iteration (lines 242-254).  The    *)
(* crypto module is the constant operator Hash, a digest of MD_LEN bytes. *)
(***************************************************************************)
EXTENDS Naturals, Sequences, HashCommon

CONSTANTS
    MCT_OUTER,      \* ACVP_HASH_MCT_OUTER (100)
    MCT_INNER,      \* ACVP_HASH_MCT_INNER (1000)
    MD_LEN,         \* digest length of the cipher, in bytes
    MD_BYTE_MAX,    \* ACVP_HASH_MD_BYTE_MAX: capacity of stc->md
    MSG_BYTE_MAX,   \* ACVP_HASH_MSG_BYTE_MAX: capacity of stc->msg
    Bytes,          \* the byte values of the model
    Seeds,          \* decoded "msg" of an MCT test case
    Modes,          \* the mctVersion values the handler passes on
    Hash(_)         \* the crypto module

MD_STR_MAX == 2 * MD_BYTE_MAX   \* ACVP_HASH_MD_STR_MAX: hex of stc->md

ASSUME Sha3LoopAssumption == MCT_OUTER \in Nat \ {0} /\ MCT_INNER \in Nat \ {0}

ASSUME Sha3SizeAssumption ==
    /\ MD_LEN \in 1..MD_BYTE_MAX
    /\ MSG_BYTE_MAX \in Nat /\ MD_BYTE_MAX <= MSG_BYTE_MAX

ASSUME Sha3InputAssumption ==
    /\ Bytes \subseteq 0..255 /\ 0 \in Bytes
    /\ Seeds \subseteq Seq(Bytes)
    /\ \A s \in Seeds : Len(s) <= MSG_BYTE_MAX
    /\ Modes \subseteq {"standard", "alternate"}

(* The crypto module computes an MD_LEN-byte digest of the message.       *)
ASSUME Sha3HashAssumption ==
    \A n \in 0..MSG_BYTE_MAX : \A m \in [1..n -> Bytes] :
        Hash(m) \in [1..MD_LEN -> Bytes]

VARIABLES
    mode,               \* stc->mct_version
    seed,               \* auxiliary: the test case's message, never changed
    initial_seed_len,   \* initial_seed_len (line 186)
    msg,                \* stc->msg: the bytes stored, zero beyond
    msg_len,            \* stc->msg_len
    md,                 \* stc->md[0 .. md_len-1]
    i,                  \* inner loop index (pass 0 .. MCT_INNER)
    j,                  \* outer loop index
    results,            \* res_array
    status              \* "running", or how acvp_hash_sha3_mct ended

vars == <<mode, seed, initial_seed_len, msg, msg_len, md, i, j, results,
          status>>

Errors == {"crypto_fail", "malloc_fail"}
Status == {"running", "done"} \cup Errors
-----------------------------------------------------------------------------
(* Lines 207-218: the message replacing the previous digest, truncated    *)
(* or zero-padded to the original length in alternate mode.               *)
Rebuild(d) ==
    IF mode = "alternate"
    THEN SubSeq(d, 1, IF Len(d) > initial_seed_len THEN initial_seed_len
                                                  ELSE Len(d))
    ELSE d

(* Mutant of RebuildLen: the digest's own length in both modes.           *)
RebuildLenDigest(d) == Len(d)

(* Lines 215 and 218: the length of the rebuilt message.                  *)
RebuildLen(d) == IF mode = "alternate" THEN initial_seed_len ELSE Len(d)

(* acvp_hash_output_mct_tc for a fixed-output cipher (lines 62-71).       *)
OutputRecord(d) == [md |-> Hex(d)]
-----------------------------------------------------------------------------
(* State on entry, after acvp_hash_init_tc (lines 821-912) has decoded    *)
(* the message: stc->md is zeroed and md_len is 0.                        *)
Init ==
    /\ mode \in Modes
    /\ seed \in Seeds
    /\ initial_seed_len = Len(seed)
    /\ msg = seed
    /\ msg_len = Len(seed)
    /\ md = <<>>
    /\ i = 0
    /\ j = 0
    /\ results = <<>>
    /\ status = "running"

(* Passes 0 .. MCT_INNER-1 (lines 201-231): rebuild the message unless   *)
(* on pass 0, zero stc->md, call the crypto module on msg_len bytes.      *)
PassMsg == IF i = 0 THEN msg ELSE Rebuild(md)
PassMsgLen == IF i = 0 THEN msg_len ELSE RebuildLen(md)

Pass ==
    /\ status = "running"
    /\ i < MCT_INNER
    /\ msg' = PassMsg
    /\ msg_len' = PassMsgLen
    /\ md' = Hash(PadTrunc(PassMsg, PassMsgLen))
    /\ i' = i + 1
    /\ UNCHANGED <<mode, seed, initial_seed_len, j, results, status>>

(* Lines 230-235: the crypto module fails; the function returns.          *)
PassFail ==
    /\ status = "running"
    /\ i < MCT_INNER
    /\ msg' = PassMsg
    /\ msg_len' = PassMsgLen
    /\ md' = [k \in 1..Len(md) |-> 0]
    /\ status' = "crypto_fail"
    /\ UNCHANGED <<mode, seed, initial_seed_len, i, j, results>>

(* Pass MCT_INNER (lines 207-225) rebuilds the message and breaks; the    *)
(* record of the last digest is output and appended (lines 242-254).      *)
NextOuter ==
    /\ status = "running"
    /\ i = MCT_INNER
    /\ HexFits(md, MD_STR_MAX)
    /\ msg' = Rebuild(md)
    /\ msg_len' = RebuildLen(md)
    /\ results' = Append(results, OutputRecord(md))
    /\ i' = 0
    /\ j' = j + 1
    /\ status' = IF j + 1 = MCT_OUTER THEN "done" ELSE "running"
    /\ UNCHANGED <<mode, seed, initial_seed_len, md>>

(* The same pass when acvp_hash_output_mct_tc fails (lines 53-70).  Only *)
(* the allocation can fail: the digest of MD_LEN <= MD_BYTE_MAX bytes     *)
(* always fits the hex buffer, so the conversion error of line 66 cannot  *)
(* occur.                                                                  *)
OutputFail ==
    /\ status = "running"
    /\ i = MCT_INNER
    /\ msg' = Rebuild(md)
    /\ msg_len' = RebuildLen(md)
    /\ status' = "malloc_fail"
    /\ UNCHANGED <<mode, seed, initial_seed_len, md, i, j, results>>

Returned == status # "running" /\ UNCHANGED vars

Next == Pass \/ PassFail \/ NextOuter \/ OutputFail \/ Returned

Spec == Init /\ [][Next]_vars
=============================================================================
