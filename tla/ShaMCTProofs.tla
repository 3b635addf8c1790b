---------------------------- MODULE ShaMCTProofs ----------------------------
(***************************************************************************)
(* Proofs about the classic SHA-1/SHA-2 Monte Carlo Test (ShaMCT): when   *)
(* every seed fits the slot size acvp_hash_mct_tc passes to memcpy_s,     *)
(* each outer iteration starts with the three chaining slots holding the  *)
(* seed, and no copy of the rotation ever fails.                          *)
(***************************************************************************)
EXTENDS ShaMCT, SequenceTheorems, TLAPS

(* The test cases whose message fits the slots: in standard mode the      *)
(* slots are given ACVP_HASH_MD_BYTE_MAX bytes (line 103) while the       *)
(* handler admits messages of up to ACVP_HASH_MSG_BYTE_MAX bytes.          *)
ShortSeeds == "standard" \in Modes => \A s \in Seeds : Len(s) <= MD_BYTE_MAX

(* The inductive invariant.  The seed and, once seeded, every slot length *)
(* fit the slot size; the slots hold bytes; after the first round of an   *)
(* iteration the digest has MD_LEN bytes; right after seeding every slot  *)
(* holds the seed; and the rotation has never failed.                      *)
SInv ==
    /\ mode \in Modes
    /\ msg \in Seeds /\ msg_len = Len(msg)
    /\ seed \in Seq(Bytes) /\ seed_len = Len(seed) /\ CopyFits(seed_len)
    /\ m1 \in Seq(Bytes) /\ m2 \in Seq(Bytes) /\ m3 \in Seq(Bytes)
    /\ seeded => /\ {m1_len, m2_len, m3_len} \subseteq Nat
                 /\ CopyFits(m1_len) /\ CopyFits(m2_len) /\ CopyFits(m3_len)
    /\ md \in Seq(Bytes) /\ (j > 0 => Len(md) = MD_LEN)
    /\ j \in Nat
    /\ status \in Status \ {"internal_err"}
    /\ (seeded /\ j = 0) =>
          /\ m1 = PadTrunc(seed, seed_len) /\ m1_len = seed_len
          /\ m2 = PadTrunc(seed, seed_len) /\ m2_len = seed_len
          /\ m3 = PadTrunc(seed, seed_len) /\ m3_len = seed_len

(* acvp_hash_mct_tc never returns ACVP_INTERNAL_ERR: none of the memcpy_s *)
(* calls of the rotation (lines 138-152) fails.                           *)
NoInternalError == status # "internal_err"
-----------------------------------------------------------------------------
(* The slot size lies between the digest length and the message buffer.  *)
LEMMA SlotSize ==
    ASSUME mode \in Modes
    PROVE  /\ mct_buffer_size \in Nat
           /\ MD_LEN <= mct_buffer_size /\ MD_BYTE_MAX <= mct_buffer_size
           /\ mct_buffer_size <= MSG_BYTE_MAX
BY ShaSizeAssumption, ShaInputAssumption DEF mct_buffer_size

(* The first n bytes of a zeroed buffer holding bytes are n bytes.        *)
LEMMA PadTruncType ==
    ASSUME NEW s \in Seq(Bytes), NEW n \in Nat
    PROVE  /\ PadTrunc(s, n) \in [1..n -> Bytes]
           /\ PadTrunc(s, n) \in Seq(Bytes)
           /\ Len(PadTrunc(s, n)) = n
<1>1. PadTrunc(s, n) \in [1..n -> Bytes]
  BY ShaInputAssumption DEF PadTrunc
<1>2. QED
  BY <1>1

(* Reading n bytes of a buffer that holds the first n bytes of s reads    *)
(* the same n bytes.                                                       *)
LEMMA PadTruncIdem ==
    ASSUME NEW s \in Seq(Bytes), NEW n \in Nat
    PROVE  PadTrunc(PadTrunc(s, n), n) = PadTrunc(s, n)
BY PadTruncType DEF PadTrunc

(* A copy into a slot holds bytes.                                         *)
LEMMA CopyType ==
    ASSUME NEW s \in Seq(Bytes), NEW n \in Nat
    PROVE  Copy(s, n) \in Seq(Bytes)
BY PadTruncType DEF Copy

(* The message the harness hashes in a round (lines 121-127) is at most   *)
(* three slot sizes of bytes, so the crypto module returns MD_LEN bytes.  *)
LEMMA DigestType ==
    ASSUME SInv, seeded
    PROVE  /\ Hash(EngineMsg) \in Seq(Bytes)
           /\ Len(Hash(EngineMsg)) = MD_LEN
<1>1. /\ mct_buffer_size \in Nat /\ mct_buffer_size <= MSG_BYTE_MAX
      /\ MSG_BYTE_MAX \in Nat /\ MD_LEN \in Nat
  BY SlotSize, ShaSizeAssumption DEF SInv
<1>2. /\ {m1_len, m2_len, m3_len} \subseteq 0..MSG_BYTE_MAX
  BY <1>1 DEF SInv, CopyFits
<1> DEFINE a == PadTrunc(m1, m1_len)
           b == PadTrunc(m2, m2_len)
           c == PadTrunc(m3, m3_len)
<1>3. a \in Seq(Bytes) /\ b \in Seq(Bytes) /\ c \in Seq(Bytes)
      /\ Len(a) = m1_len /\ Len(b) = m2_len /\ Len(c) = m3_len
  BY <1>2, PadTruncType DEF SInv
<1>4. /\ a \o b \o c \in Seq(Bytes)
      /\ Len(a \o b \o c) = m1_len + m2_len + m3_len
  <2>0. \A s1, s2 \in Seq(Bytes) :
          s1 \o s2 \in Seq(Bytes) /\ Len(s1 \o s2) = Len(s1) + Len(s2)
    BY ConcatProperties
  <2>1. a \o b \in Seq(Bytes) /\ Len(a \o b) = m1_len + m2_len
    BY <1>3, <2>0
  <2>2. QED
    BY <1>3, <2>0, <2>1
<1>5. \E n \in 0..(3 * MSG_BYTE_MAX) : EngineMsg \in [1..n -> Bytes]
  <2>1. CASE mode = "alternate"
    <3>1. EngineMsg = PadTrunc(a \o b \o c, msg_len)
      BY <2>1 DEF EngineMsg
    <3>2. msg_len \in 0..MSG_BYTE_MAX
      BY ShaInputAssumption DEF SInv
    <3>3. EngineMsg \in [1..msg_len -> Bytes]
      <4>1. \A sq \in Seq(Bytes), n \in Nat : PadTrunc(sq, n) \in [1..n -> Bytes]
        BY PadTruncType
      <4>2. msg_len \in Nat
        BY <3>2, ShaSizeAssumption
      <4>3. PadTrunc(a \o b \o c, msg_len) \in [1..msg_len -> Bytes]
        BY <1>4, <4>1, <4>2, Zenon
      <4>4. QED
        BY <3>1, <4>3
    <3>4. msg_len \in 0..(3 * MSG_BYTE_MAX)
      BY <1>1, <3>2
    <3>5. QED
      BY <3>3, <3>4
  <2>2. CASE mode # "alternate"
    <3>1. EngineMsg = a \o b \o c
      BY <2>2 DEF EngineMsg
    <3>2. a \o b \o c \in [1..(m1_len + m2_len + m3_len) -> Bytes]
      <4>1. \A sq \in Seq(Bytes) : sq \in [1..Len(sq) -> Bytes]
        BY LenProperties
      <4>2. QED
        BY <1>4, <4>1
    <3>3. m1_len + m2_len + m3_len \in 0..(3 * MSG_BYTE_MAX)
      BY <1>1, <1>2
    <3>4. QED
      BY <3>1, <3>2, <3>3
  <2>3. QED
    BY <2>1, <2>2
<1>6. Hash(EngineMsg) \in [1..MD_LEN -> Bytes]
  BY <1>5, ShaHashAssumption
<1>7. QED
  BY <1>1, <1>6
-----------------------------------------------------------------------------
LEMMA InitSInv == ShortSeeds /\ Init => SInv
<1> SUFFICES ASSUME ShortSeeds, Init PROVE SInv
  OBVIOUS
<1>1. msg \in Seq(Bytes) /\ Len(msg) <= MSG_BYTE_MAX /\ mode \in {"standard", "alternate"}
  BY ShaInputAssumption DEF Init
<1>2. CopyFits(Len(msg))
  BY <1>1 DEF Init, ShortSeeds, CopyFits, mct_buffer_size
<1>3. QED
  BY <1>1, <1>2 DEF Init, SInv, Status

(* The seeding copies fit, so all three slots hold the seed.              *)
LEMMA SeedSlotsSInv == SInv /\ SeedSlots => SInv'
<1> SUFFICES ASSUME SInv, SeedSlots PROVE SInv'
  OBVIOUS
<1>1. seed_len \in Nat /\ Copy(seed, seed_len) = PadTrunc(seed, seed_len)
  BY DEF SInv, Copy
<1>2. PadTrunc(seed, seed_len) \in Seq(Bytes)
  BY <1>1, PadTruncType DEF SInv
<1>3. CopyFits(seed_len)'
  BY DEF SInv, SeedSlots, CopyFits, mct_buffer_size
<1>4. QED
  BY <1>1, <1>2, <1>3 DEF SeedSlots, SInv, CopyFits, mct_buffer_size

(* Every copy of a rotation fits: the slots hold at most a slot size and  *)
(* the digest MD_LEN bytes.                                                *)
LEMMA RoundSInv == SInv /\ Round => SInv'
<1> SUFFICES ASSUME SInv, Round PROVE SInv'
  OBVIOUS
<1> DEFINE d == Hash(EngineMsg)
<1>1. seeded /\ d \in Seq(Bytes) /\ Len(d) = MD_LEN
  BY DigestType DEF Round
<1>2. CopyFits(m2_len) /\ CopyFits(m3_len) /\ CopyFits(Len(d))
      /\ {m2_len, m3_len} \subseteq Nat
  BY <1>1, SlotSize DEF SInv, CopyFits
<1>3. j' = j + 1 /\ status' = status
  BY <1>2 DEF Round
<1>4. m1' \in Seq(Bytes) /\ m2' \in Seq(Bytes) /\ m3' \in Seq(Bytes)
  <2>1. m1' = Copy(m2, m2_len) /\ m2' = Copy(m3, m3_len) /\ m3' = Copy(d, Len(d))
    BY DEF Round
  <2>2. \A sq \in Seq(Bytes), n \in Nat : Copy(sq, n) \in Seq(Bytes)
    BY CopyType
  <2>3. m2 \in Seq(Bytes) /\ m3 \in Seq(Bytes) /\ Len(d) \in Nat
    BY <1>1, ShaSizeAssumption DEF SInv
  <2>4. QED
    BY <1>1, <1>2, <2>1, <2>2, <2>3, Zenon
<1>5. md' = d /\ m3_len' = Len(d) /\ m1_len' = m2_len /\ m2_len' = m3_len
  BY DEF Round
<1>6. UNCHANGED <<mode, msg, msg_len, seed, seed_len, seeded>>
  BY DEF Round
<1>7. CopyFits(m1_len)' /\ CopyFits(m2_len)' /\ CopyFits(m3_len)'
  BY <1>2, <1>5, <1>6 DEF CopyFits, mct_buffer_size
<1>8. QED
  BY <1>1, <1>2, <1>3, <1>4, <1>5, <1>6, <1>7 DEF SInv, CopyFits, mct_buffer_size

LEMMA RoundFailSInv == SInv /\ RoundFail => SInv'
BY DEF RoundFail, SInv, Status, Errors, CopyFits, mct_buffer_size

(* The next seed is the digest of the iteration's last round.              *)
LEMMA OutputSInv == SInv /\ Output => SInv'
<1> SUFFICES ASSUME SInv, Output PROVE SInv'
  OBVIOUS
<1>1. j > 0
  BY ShaLoopAssumption DEF Output
<1>2. Len(md) = MD_LEN /\ CopyFits(Len(md))
  BY <1>1, SlotSize DEF SInv, CopyFits
<1>3. QED
  BY <1>1, <1>2 DEF Output, SInv, Status, CopyFits, mct_buffer_size

LEMMA OutputFailSInv == SInv /\ OutputFail => SInv'
BY DEF OutputFail, SInv, Status, Errors, CopyFits, mct_buffer_size

LEMMA StutterSInv == SInv /\ (Returned \/ UNCHANGED vars) => SInv'
BY DEF Returned, vars, SInv, CopyFits, mct_buffer_size

(* SInv holds in every state when every seed fits the slot size.          *)
THEOREM ShaInvariant == ShortSeeds => (Spec => []SInv)
<1> SUFFICES ASSUME ShortSeeds PROVE Spec => []SInv
  OBVIOUS
<1>1. Init => SInv
  BY InitSInv
<1>2. SInv /\ [Next]_vars => SInv'
  BY SeedSlotsSInv, RoundSInv, RoundFailSInv, OutputSInv, OutputFailSInv,
     StutterSInv DEF Next
<1>3. QED
  BY <1>1, <1>2, PTL DEF Spec

(* Spec 4.3(a) holds for every instance whose seeds fit the slots:        *)
(* acvp_hash_mct_tc starts every outer iteration with A = B = C = SEED    *)
(* although it ignores the results of the seeding memcpy_s calls (lines   *)
(* 110-115).  sha_long_seed shows the premise is needed.                  *)
THEOREM SlotsSeeded == ShortSeeds => (Spec => []SlotsHoldSeed)
<1>1. SInv => SlotsHoldSeed
  <2> SUFFICES ASSUME SInv, status = "running", seeded, j = 0
               PROVE  \A sl \in {<<m1, m1_len>>, <<m2, m2_len>>, <<m3, m3_len>>} :
                         PadTrunc(sl[1], sl[2]) = PadTrunc(seed, seed_len)
    BY DEF SlotsHoldSeed
  <2>1. PadTrunc(PadTrunc(seed, seed_len), seed_len) = PadTrunc(seed, seed_len)
    BY PadTruncIdem DEF SInv
  <2>2. QED
    BY <2>1 DEF SInv
<1>2. QED
  BY <1>1, ShaInvariant, PTL

(* For the same instances, no memcpy_s of the rotation (lines 138-152)    *)
(* ever fails, so acvp_hash_mct_tc never returns ACVP_INTERNAL_ERR.       *)
THEOREM RotationNeverFails == ShortSeeds => (Spec => []NoInternalError)
<1>1. SInv => NoInternalError
  BY DEF SInv, NoInternalError
<1>2. QED
  BY <1>1, ShaInvariant, PTL
=============================================================================
