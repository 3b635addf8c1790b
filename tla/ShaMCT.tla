------------------------------ MODULE ShaMCT ------------------------------
(***************************************************************************)
(* The classic SHA-1/SHA-2 Monte Carlo Test of src/acvp_hash.c:           *)
(* acvp_hash_mct_tc (lines 89-171), with the record it emits through      *)
(* acvp_hash_output_mct_tc (lines 48-81).                                  *)
(*                                                                         *)
(* The three chaining slots stc->m1..m3 are each a stored byte sequence   *)
(* and a length field (m1_len ..); memcpy_s copies into a slot only when  *)
(* the length fits the size it is given (mct_buffer_size), and otherwise  *)
(* zeroes the slot and returns an error (C11 Annex K).  One step is the   *)
(* seeding of an outer iteration (lines 108-115), one inner round (the    *)
(* crypto call and the rotation, lines 120-153), or the output of the     *)
(* iteration's record (lines 155-167).                                     *)
(***************************************************************************)
EXTENDS Naturals, Sequences, HashCommon

CONSTANTS
    MCT_OUTER,      \* ACVP_HASH_MCT_OUTER (100)
    MCT_INNER,      \* ACVP_HASH_MCT_INNER (1000)
    MD_LEN,         \* digest length of the cipher, in bytes
    MD_BYTE_MAX,    \* ACVP_HASH_MD_BYTE_MAX
    MSG_BYTE_MAX,   \* ACVP_HASH_MSG_BYTE_MAX: size of every MCT buffer
    Bytes,          \* the byte values of the model
    Seeds,          \* decoded "msg" of an MCT test case
    Modes,          \* the mctVersion values the handler passes on
    Hash(_)         \* the crypto module

MD_STR_MAX == 2 * MD_BYTE_MAX   \* ACVP_HASH_MD_STR_MAX

ASSUME ShaLoopAssumption == MCT_OUTER \in Nat \ {0} /\ MCT_INNER \in Nat \ {0}

ASSUME ShaSizeAssumption ==
    /\ MD_LEN \in 1..MD_BYTE_MAX
    /\ {MD_BYTE_MAX, MSG_BYTE_MAX} \subseteq Nat /\ MD_BYTE_MAX <= MSG_BYTE_MAX

ASSUME ShaInputAssumption ==
    /\ Bytes \subseteq 0..255 /\ 0 \in Bytes
    /\ Seeds \subseteq Seq(Bytes)
    /\ \A s \in Seeds : Len(s) <= MSG_BYTE_MAX
    /\ Modes \subseteq {"standard", "alternate"}

(* The crypto module computes an MD_LEN-byte digest of the message.       *)
ASSUME ShaHashAssumption ==
    \A n \in 0..(3 * MSG_BYTE_MAX) : \A m \in [1..n -> Bytes] :
        Hash(m) \in [1..MD_LEN -> Bytes]

VARIABLES
    mode,       \* stc->mct_version
    msg,        \* stc->msg, the test case's message (never written here)
    msg_len,    \* stc->msg_len
    seed,       \* the bytes seed points to: stc->msg, then stc->md
    seed_len,   \* seed_len
    m1, m2, m3, \* stc->m1..m3: the bytes stored in each slot
    m1_len, m2_len, m3_len,
    md,         \* stc->md[0 .. md_len-1]
    i,          \* outer loop index
    j,          \* inner loop index
    seeded,     \* the slots of outer iteration i have been seeded
    results,    \* res_array
    status      \* "running", or how acvp_hash_mct_tc ended

vars == <<mode, msg, msg_len, seed, seed_len, m1, m2, m3, m1_len, m2_len,
          m3_len, md, i, j, seeded, results, status>>

Errors == {"crypto_fail", "internal_err", "malloc_fail"}
Status == {"running", "done"} \cup Errors
-----------------------------------------------------------------------------
(* Lines 95 and 103-105: the size memcpy_s is given for every slot.       *)
mct_buffer_size ==
    IF mode = "alternate" THEN MSG_BYTE_MAX ELSE MD_BYTE_MAX

(* memcpy_s(slot, mct_buffer_size, src, n): the first n bytes of src, or  *)
(* a zeroed slot when n does not fit.                                      *)
CopyFits(n) == n <= mct_buffer_size
Copy(src, n) == IF CopyFits(n) THEN PadTrunc(src, n) ELSE <<>>

(* The message the harness builds (lines 121-127): A || B || C, in        *)
(* alternate mode truncated or zero-padded to the test case's msg_len.    *)
EngineMsg ==
    LET abc == PadTrunc(m1, m1_len) \o PadTrunc(m2, m2_len)
                  \o PadTrunc(m3, m3_len)
    IN  IF mode = "alternate" THEN PadTrunc(abc, msg_len) ELSE abc

(* acvp_hash_output_mct_tc for a fixed-output cipher (lines 62-71).       *)
OutputRecord(d) == [md |-> Hex(d)]
-----------------------------------------------------------------------------
(* State on entry (lines 100-105), after acvp_hash_init_tc (lines 870-883) *)
(* has allocated zeroed slots and decoded the message.  init_tc sets the  *)
(* slot lengths to the message length in bits; they are overwritten here  *)
(* before any use.                                                         *)
Init ==
    /\ mode \in Modes
    /\ msg \in Seeds
    /\ msg_len = Len(msg)
    /\ seed = msg
    /\ seed_len = Len(msg)
    /\ m1 = <<>> /\ m2 = <<>> /\ m3 = <<>>
    /\ m1_len = 8 * Len(msg) /\ m2_len = 8 * Len(msg) /\ m3_len = 8 * Len(msg)
    /\ md = <<>>
    /\ i = 0
    /\ j = 0
    /\ seeded = FALSE
    /\ results = <<>>
    /\ status = "running"

(* Lines 108-115: A = B = C = SEED.  The return values of the three       *)
(* memcpy_s calls are not looked at; the lengths are set regardless.      *)
SeedSlots ==
    /\ status = "running"
    /\ ~seeded
    /\ m1' = Copy(seed, seed_len)
    /\ m2' = Copy(seed, seed_len)
    /\ m3' = Copy(seed, seed_len)
    /\ m1_len' = seed_len /\ m2_len' = seed_len /\ m3_len' = seed_len
    /\ seeded' = TRUE
    /\ j' = 0
    /\ UNCHANGED <<mode, msg, msg_len, seed, seed_len, md, i, results, status>>

(* Mutant of Round: the copies B = C and A = B done in the other order,   *)
(* so that A receives the old C.                                           *)
RoundSwapped ==
    /\ status = "running"
    /\ seeded
    /\ j < MCT_INNER
    /\ LET d == Hash(EngineMsg) IN
          /\ md' = d
          /\ m1' = Copy(m3, m3_len)
          /\ m2' = Copy(m3, m3_len)
          /\ m3' = Copy(d, Len(d))
          /\ m1_len' = m3_len /\ m2_len' = m3_len /\ m3_len' = Len(d)
          /\ IF CopyFits(m3_len) /\ CopyFits(Len(d))
             THEN j' = j + 1 /\ UNCHANGED status
             ELSE status' = "internal_err" /\ UNCHANGED j
    /\ UNCHANGED <<mode, msg, msg_len, seed, seed_len, i, seeded, results>>

(* Lines 129-152: MD = SHA(MSG), then A = B, B = C, C = MD; any of the    *)
(* three copies failing ends the run with ACVP_INTERNAL_ERR.              *)
Round ==
    /\ status = "running"
    /\ seeded
    /\ j < MCT_INNER
    /\ LET d == Hash(EngineMsg) IN
          /\ md' = d
          /\ m1' = Copy(m2, m2_len)
          /\ m2' = Copy(m3, m3_len)
          /\ m3' = Copy(d, Len(d))
          /\ m1_len' = m2_len /\ m2_len' = m3_len /\ m3_len' = Len(d)
          /\ IF CopyFits(m2_len) /\ CopyFits(m3_len) /\ CopyFits(Len(d))
             THEN j' = j + 1 /\ UNCHANGED status
             ELSE status' = "internal_err" /\ UNCHANGED j
    /\ UNCHANGED <<mode, msg, msg_len, seed, seed_len, i, seeded, results>>

(* Lines 130-135: the crypto module fails.                                 *)
RoundFail ==
    /\ status = "running"
    /\ seeded
    /\ j < MCT_INNER
    /\ status' = "crypto_fail"
    /\ UNCHANGED <<mode, msg, msg_len, seed, seed_len, m1, m2, m3, m1_len,
                   m2_len, m3_len, md, i, j, seeded, results>>

(* Lines 155-167: output MD, append the record, SEED = MD.                *)
Output ==
    /\ status = "running"
    /\ seeded
    /\ j = MCT_INNER
    /\ HexFits(md, MD_STR_MAX)
    /\ results' = Append(results, OutputRecord(md))
    /\ seed' = md
    /\ seed_len' = Len(md)
    /\ i' = i + 1
    /\ seeded' = FALSE
    /\ status' = IF i + 1 = MCT_OUTER THEN "done" ELSE "running"
    /\ UNCHANGED <<mode, msg, msg_len, m1, m2, m3, m1_len, m2_len, m3_len,
                   md, j>>

(* Lines 157-162: acvp_hash_output_mct_tc fails (lines 53-70).  Only the *)
(* allocation can fail: the digest of MD_LEN <= MD_BYTE_MAX bytes always  *)
(* fits the hex buffer, so the conversion error of line 66 cannot occur.  *)
OutputFail ==
    /\ status = "running"
    /\ seeded
    /\ j = MCT_INNER
    /\ status' = "malloc_fail"
    /\ UNCHANGED <<mode, msg, msg_len, seed, seed_len, m1, m2, m3, m1_len,
                   m2_len, m3_len, md, i, j, seeded, results>>

Returned == status # "running" /\ UNCHANGED vars

Next == SeedSlots \/ Round \/ RoundFail \/ Output \/ OutputFail \/ Returned

Spec == Init /\ [][Next]_vars
-----------------------------------------------------------------------------
(* Spec 4.3(a): every outer iteration starts by seeding all three chaining *)
(* slots with the current seed, so the first crypto call of the iteration *)
(* hashes SEED || SEED || SEED.  The seeding copies of lines 110-115 are   *)
(* the ones whose result acvp_hash_mct_tc ignores.                         *)
SlotsHoldSeed ==
    (status = "running" /\ seeded /\ j = 0) =>
        \A s \in {<<m1, m1_len>>, <<m2, m2_len>>, <<m3, m3_len>>} :
            PadTrunc(s[1], s[2]) = PadTrunc(seed, seed_len)
=============================================================================
