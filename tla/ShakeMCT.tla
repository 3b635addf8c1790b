------------------------------ MODULE ShakeMCT ------------------------------
(***************************************************************************)
(* The SHAKE Monte Carlo Test of src/acvp_hash.c: acvp_hash_shake_mct     *)
(* (lines 269-377), the record it emits through acvp_hash_output_mct_tc   *)
(* (lines 48-81), and the checks of acvp_hash_kat_handler (lines 560-574) *)
(* that decide which (minOutLen, maxOutLen) pairs reach it.               *)
(*                                                                         *)
(* One step is one pass of the inner loop (one call of the crypto module) *)
(* or the final seed-only pass of an outer iteration together with the    *)
(* output of its record.  Digests are sequences of byte values; the       *)
(* crypto module is the constant operator Hash.  The byte order of the    *)
(* host and whether <endian.h> defines __BYTE_ORDER are build parameters  *)
(* (Hosts), because they select the branch at lines 348-354.              *)
(***************************************************************************)
EXTENDS Naturals, Sequences, HashCommon

CONSTANTS
    MCT_OUTER,          \* ACVP_HASH_MCT_OUTER: records per test case (100)
    MCT_INNER,          \* ACVP_HASH_MCT_INNER: digests per record (1000)
    LEFTMOST_BYTES,     \* leftmost_bytes: the chained message length (16)
    XOF_MD_BIT_MIN,     \* ACVP_HASH_XOF_MD_BIT_MIN
    XOF_MD_BIT_MAX,     \* ACVP_HASH_XOF_MD_BIT_MAX
    SHAKE_MSG_BYTE_MAX, \* ACVP_SHAKE_MSG_BYTE_MAX: capacity of stc->msg
    Bytes,              \* the byte values a digest of the model may hold
    OutLenPairs,        \* (minOutLen, maxOutLen) as read from a test group
    Seeds,              \* decoded "msg" of a SHAKE MCT test case
    Hosts,              \* build targets: byte order and endian macros
    Hash(_, _),         \* the crypto module: Hash(m, n) is an n-byte digest
    UINT                \* unsigned int arithmetic wraps modulo UINT (2^32)

XOF_MD_BYTE_MAX == XOF_MD_BIT_MAX \div 8    \* capacity of stc->md for SHAKE
XOF_MD_STR_MAX == XOF_MD_BIT_MAX \div 4     \* hex buffer of the output

ASSUME LoopAssumption ==
    /\ MCT_OUTER \in Nat \ {0}
    /\ MCT_INNER \in Nat \ {0}
    /\ LEFTMOST_BYTES \in Nat \ {0}

(* 2^32 in the build.  TLC's integers stop below 2^31, so a run may use a *)
(* smaller modulus: every value the code reduces is below 2^17 in a run.  *)
ASSUME UintAssumption == UINT \in Nat /\ UINT > 131072

(* The header's bounds: at least 16 output bits, everything below 2^32.   *)
ASSUME XofAssumption ==
    /\ XOF_MD_BIT_MIN \in 16..XOF_MD_BIT_MAX
    /\ XOF_MD_BIT_MAX \in Nat /\ XOF_MD_BIT_MAX < UINT
    /\ SHAKE_MSG_BYTE_MAX \in Nat /\ LEFTMOST_BYTES <= SHAKE_MSG_BYTE_MAX

ASSUME InputAssumption ==
    /\ Bytes \subseteq 0..255 /\ 0 \in Bytes
    /\ \A p \in OutLenPairs :
          DOMAIN p = {"min", "max"} /\ {p.min, p.max} \subseteq 0..(UINT - 1)
    /\ Seeds \subseteq Seq(Bytes)
    /\ \A s \in Seeds : Len(s) <= SHAKE_MSG_BYTE_MAX
    /\ Hosts \subseteq [bigEndian : BOOLEAN, endianMacros : BOOLEAN]

(* A correct crypto module returns exactly the requested number of bytes. *)
ASSUME HashAssumption ==
    \A m \in [1..LEFTMOST_BYTES -> Bytes], n \in 0..XOF_MD_BYTE_MAX :
        Hash(m, n) \in [1..n -> Bytes]

VARIABLES
    min_xof_bits,   \* min_xof_bits argument (the group's minOutLen)
    max_xof_bits,   \* max_xof_bits argument (the group's maxOutLen)
    host,           \* the build target the code was compiled for
    seed,           \* auxiliary: the test case's message, never changed
    msg,            \* stc->msg: the bytes stored, the rest of it is zero
    msg_len,        \* stc->msg_len
    md,             \* stc->md[0 .. md_len-1]: the last digest
    xof_len,        \* stc->xof_len: output length requested, in bytes
    i,              \* inner loop index (pass 0 .. MCT_INNER)
    j,              \* outer loop index
    results,        \* res_array: the records appended so far
    status          \* "running", or how acvp_hash_shake_mct ended

vars == <<min_xof_bits, max_xof_bits, host, seed, msg, msg_len, md,
          xof_len, i, j, results, status>>

(* Ways the function returns: its ACVP_RESULT codes, and the crashes of   *)
(* undefined behaviour (a division by zero, a read far outside stc->md).  *)
Errors == {"crypto_fail", "malloc_fail", "conv_fail"}
Crashes == {"sigfpe", "segv"}
Status == {"running", "done"} \cup Errors \cup Crashes

MctRecord == [md : Seq(0..15), outLen : Nat]
-----------------------------------------------------------------------------
(* The handler's checks on the group (lines 561-574): minOutLen is not    *)
(* below the minimum and maxOutLen is not above the maximum; nothing else. *)
Accepted(p) == p.min >= XOF_MD_BIT_MIN /\ p.max <= XOF_MD_BIT_MAX

(* Lines 282-284, in unsigned int arithmetic.                              *)
min_xof_bytes == min_xof_bits \div 8
max_xof_bytes == max_xof_bits \div 8

(* Mutant of range: the width of [min, max] without the + 1.              *)
rangeExclusive == (max_xof_bytes - min_xof_bytes) % UINT

range == (max_xof_bytes - min_xof_bytes + 1) % UINT

(* Lines 317-323: zero stc->msg, copy in at most leftmost_bytes of md.    *)
Rebuild(d) ==
    SubSeq(d, 1, IF Len(d) <= LEFTMOST_BYTES THEN Len(d) ELSE LEFTMOST_BYTES)

(* Lines 348-354: the branch taken is the little-endian one unless the    *)
(* glibc macros are defined and say big-endian (an undefined macro is 0,  *)
(* so __BYTE_ORDER == __LITTLE_ENDIAN is then 0 == 0).  The uint16_t is   *)
(* then read from rob[] in the host's own byte order.                      *)
LEBranch(h) == ~h.endianMacros \/ ~h.bigEndian
Rob(d, h) ==
    IF LEBranch(h) THEN <<d[Len(d)], d[Len(d) - 1]>>
                   ELSE <<d[Len(d) - 1], d[Len(d)]>>
HostUint16(b, h) ==
    IF h.bigEndian THEN b[1] * 256 + b[2] ELSE b[1] + b[2] * 256
rightmost_out_bits(d) == HostUint16(Rob(d, host), host)

(* Mutant of NextXofLen: a modulus one too large.                         *)
NextXofLenWide(d) == min_xof_bytes + (rightmost_out_bits(d) % (range + 1))

(* Line 357.                                                               *)
NextXofLen(d) == min_xof_bytes + (rightmost_out_bits(d) % range)

(* Mutant of OutputRecord: outLen taken from the next requested length.   *)
OutputRecordRequested(d) == [md |-> Hex(d), outLen |-> xof_len * 8]

(* acvp_hash_output_mct_tc for a SHAKE cipher (lines 62-75).              *)
OutputRecord(d) == [md |-> Hex(d), outLen |-> Len(d) * 8]
-----------------------------------------------------------------------------
(* State on entry (lines 280-291), after acvp_hash_init_tc has decoded    *)
(* the message into stc->msg and left stc->md zeroed with md_len = 0.     *)
Init ==
    /\ \E p \in OutLenPairs :
          /\ Accepted(p)
          /\ min_xof_bits = p.min
          /\ max_xof_bits = p.max
    /\ host \in Hosts
    /\ seed \in Seeds
    /\ msg = seed
    /\ msg_len = Len(seed)
    /\ md = <<>>
    /\ xof_len = (((max_xof_bits \div 8) * 8) + 7) \div 8
    /\ i = 0
    /\ j = 0
    /\ results = <<>>
    /\ status = "running"

(* The message of pass i (lines 312-334): the stored one on pass 0, else  *)
(* rebuilt from the previous digest; either way msg_len becomes 16.       *)
PassMsg == IF i = 0 THEN msg ELSE Rebuild(md)

(* Lines 336-357: a pass whose crypto call succeeds.  The module writes   *)
(* xof_len bytes into stc->md (whatever its capacity), then the last two  *)
(* bytes give the next length; md_len < 2 indexes md[UINT_MAX] and the    *)
(* modulo by a zero range traps.                                           *)
Pass ==
    /\ status = "running"
    /\ i < MCT_INNER
    /\ LET d == Hash(PadTrunc(PassMsg, LEFTMOST_BYTES), xof_len) IN
          /\ msg' = PassMsg
          /\ msg_len' = LEFTMOST_BYTES
          /\ md' = d
          /\ \/ /\ Len(d) < 2
                /\ status' = "segv"
                /\ UNCHANGED <<xof_len, i>>
             \/ /\ Len(d) >= 2
                /\ range = 0
                /\ status' = "sigfpe"
                /\ UNCHANGED <<xof_len, i>>
             \/ /\ Len(d) >= 2
                /\ range # 0
                /\ xof_len' = NextXofLen(d)
                /\ i' = i + 1
                /\ UNCHANGED status
    /\ UNCHANGED <<min_xof_bits, max_xof_bits, host, seed, j, results>>

(* Lines 336-345: stc->md is zeroed, the crypto module fails and the      *)
(* function returns at once.                                               *)
PassFail ==
    /\ status = "running"
    /\ i < MCT_INNER
    /\ msg' = PassMsg
    /\ msg_len' = LEFTMOST_BYTES
    /\ md' = [k \in 1..Len(md) |-> 0]
    /\ status' = "crypto_fail"
    /\ UNCHANGED <<min_xof_bits, max_xof_bits, host, seed, xof_len,
                   i, j, results>>

(* Mutant of NextOuter: the outer loop runs while j <= MCT_OUTER.         *)
NextOuterInclusive ==
    /\ status = "running"
    /\ i = MCT_INNER
    /\ HexFits(md, XOF_MD_STR_MAX)
    /\ msg' = Rebuild(md)
    /\ results' = Append(results, OutputRecord(md))
    /\ i' = 0
    /\ j' = j + 1
    /\ status' = IF j + 1 > MCT_OUTER THEN "done" ELSE "running"
    /\ UNCHANGED <<min_xof_bits, max_xof_bits, host, seed, msg_len, md,
                   xof_len>>

(* Pass MCT_INNER (lines 312-332) rebuilds the message and breaks; the    *)
(* record of pass MCT_INNER-1 is output and appended (lines 360-371).     *)
NextOuter ==
    /\ status = "running"
    /\ i = MCT_INNER
    /\ HexFits(md, XOF_MD_STR_MAX)
    /\ msg' = Rebuild(md)
    /\ results' = Append(results, OutputRecord(md))
    /\ i' = 0
    /\ j' = j + 1
    /\ status' = IF j + 1 = MCT_OUTER THEN "done" ELSE "running"
    /\ UNCHANGED <<min_xof_bits, max_xof_bits, host, seed, msg_len, md,
                   xof_len>>

(* The same pass when acvp_hash_output_mct_tc fails: its calloc returns   *)
(* NULL, or the hex string would not fit (lines 53-70).                   *)
OutputFail ==
    /\ status = "running"
    /\ i = MCT_INNER
    /\ msg' = Rebuild(md)
    /\ \/ status' = "malloc_fail"
       \/ ~HexFits(md, XOF_MD_STR_MAX) /\ status' = "conv_fail"
    /\ UNCHANGED <<min_xof_bits, max_xof_bits, host, seed, msg_len, md,
                   xof_len, i, j, results>>

(* The function has returned.                                              *)
Returned == status # "running" /\ UNCHANGED vars

Next == Pass \/ PassFail \/ NextOuter \/ OutputFail \/ Returned

Spec == Init /\ [][Next]_vars

(* The code runs single-threaded and the crypto call blocks until it      *)
(* returns (spec 5): a step that is enabled is eventually taken.          *)
FairSpec == Spec /\ WF_vars(Next)
-----------------------------------------------------------------------------
(* Type invariant.                                                         *)
TypeOK ==
    /\ min_xof_bits \in Nat /\ max_xof_bits \in Nat
    /\ host \in Hosts
    /\ seed \in Seeds
    /\ msg \in Seq(Bytes)
    /\ msg_len \in Nat
    /\ md \in Seq(Bytes)
    /\ xof_len \in 0..(UINT - 1)
    /\ i \in 0..MCT_INNER
    /\ j \in 0..MCT_OUTER
    /\ results \in Seq(MctRecord)
    /\ status \in Status

(* The SHAKE MCT stays inside its buffers and out of undefined behaviour  *)
(* for every group the handler accepts: the crypto module never writes    *)
(* more than the XOF_MD_BYTE_MAX bytes of stc->md, no modulo by a zero     *)
(* range (line 357) and no read of the "rightmost" bytes of a digest      *)
(* shorter than two bytes (lines 349-353).                                *)
MemorySafe ==
    /\ Len(md) <= XOF_MD_BYTE_MAX
    /\ status \notin Crashes

(* Every recorded outLen lies within the group's [minOutLen, maxOutLen]   *)
(* (spec 8: "each outLen in [min, max]"), although it is derived by       *)
(* unsigned arithmetic from the digest of the previous pass.               *)
OutLenWithinBounds ==
    \A k \in 1..Len(results) :
        results[k].outLen \in min_xof_bits..max_xof_bits

(* acvp_hash_shake_mct always returns, for every group the handler        *)
(* accepts: either with all MCT_OUTER records after the last outer        *)
(* iteration, or with an error code or a crash, never by looping on.     *)
Terminates ==
    <>(\/ status = "done" /\ Len(results) = MCT_OUTER
       \/ status \in Errors \cup Crashes)
=============================================================================
