--------------------------- MODULE ShakeMCTProofs ---------------------------
(***************************************************************************)
(* Proofs about the SHAKE Monte Carlo Test (ShakeMCT): for every instance *)
(* of the constants, as long as the server sends groups with              *)
(* minOutLen <= maxOutLen and a byte-aligned minOutLen, the type          *)
(* invariant, MemorySafe and OutLenWithinBounds hold in every state.      *)
(***************************************************************************)
EXTENDS ShakeMCT, SequenceTheorems, TLAPS

(* What a conforming server sends, beyond what the handler checks.        *)
ConformingGroups ==
    \A p \in OutLenPairs : Accepted(p) => p.min <= p.max /\ p.min % 8 = 0

(* The inductive invariant.  The requested length stays within the group's *)
(* bounds in bytes, and after the first pass so does the digest; that is  *)
(* what MemorySafe and OutLenWithinBounds need and is not stated by them. *)
IInv ==
    /\ TypeOK
    /\ min_xof_bits >= XOF_MD_BIT_MIN
    /\ max_xof_bits <= XOF_MD_BIT_MAX
    /\ min_xof_bits <= max_xof_bits
    /\ min_xof_bits % 8 = 0
    /\ xof_len \in min_xof_bytes..max_xof_bytes
    /\ i > 0 => Len(md) \in min_xof_bytes..max_xof_bytes
    /\ status = "running" => j < MCT_OUTER
    /\ Len(msg) <= SHAKE_MSG_BYTE_MAX
    /\ MemorySafe
    /\ OutLenWithinBounds
-----------------------------------------------------------------------------
(* Lemmas about the operators the model is built from.                     *)

LEMMA PadTruncType ==
    ASSUME NEW s \in Seq(Bytes), NEW n \in Nat
    PROVE  PadTrunc(s, n) \in [1..n -> Bytes]
BY InputAssumption DEF PadTrunc

LEMMA RebuildType ==
    ASSUME NEW d \in Seq(Bytes)
    PROVE  /\ Rebuild(d) \in Seq(Bytes)
           /\ Len(Rebuild(d)) <= LEFTMOST_BYTES
<1> DEFINE n == IF Len(d) <= LEFTMOST_BYTES THEN Len(d) ELSE LEFTMOST_BYTES
<1>1. n \in 0..Len(d) /\ n <= LEFTMOST_BYTES
  BY LoopAssumption
<1>2. /\ SubSeq(d, 1, n) \in Seq(Bytes)
      /\ Len(SubSeq(d, 1, n)) = IF 1 <= n THEN n ELSE 0
  BY <1>1, SubSeqProperties
<1>3. QED
  BY <1>1, <1>2 DEF Rebuild

(* The two hex digits of a byte (acvp_bin_to_hexstr).                     *)
LEMMA NibbleBounds ==
    \A v \in 0..255 : v \div 16 \in 0..15 /\ v % 16 \in 0..15
OBVIOUS

(* Both readings of two bytes as a uint16_t (lines 349-354).             *)
LEMMA Uint16Bounds ==
    \A b1, b2 \in 0..255 : b1 * 256 + b2 \in Nat /\ b1 + b2 * 256 \in Nat
OBVIOUS

LEMMA HexType ==
    ASSUME NEW d \in Seq(Bytes)
    PROVE  Hex(d) \in Seq(0..15)
<1>1. Len(d) \in Nat
  BY LenProperties
<1>2. \A k \in 1..(2 * Len(d)) :
         (IF k % 2 = 1 THEN d[(k + 1) \div 2] \div 16 ELSE d[k \div 2] % 16)
            \in 0..15
  <2> SUFFICES ASSUME NEW k \in 1..(2 * Len(d))
               PROVE  (IF k % 2 = 1 THEN d[(k + 1) \div 2] \div 16
                                    ELSE d[k \div 2] % 16) \in 0..15
    OBVIOUS
  <2>1. CASE k % 2 = 1
    <3>1. (k + 1) \div 2 \in 1..Len(d)
      BY <1>1, <2>1
    <3>2. d[(k + 1) \div 2] \in 0..255
      BY <3>1, ElementOfSeq, InputAssumption
    <3>3. d[(k + 1) \div 2] \div 16 \in 0..15
      BY <3>2, NibbleBounds
    <3>4. QED
      BY <2>1, <3>3
  <2>2. CASE k % 2 # 1
    <3>1. k \div 2 \in 1..Len(d)
      BY <1>1, <2>2
    <3>2. d[k \div 2] \in 0..255
      BY <3>1, ElementOfSeq, InputAssumption
    <3>3. d[k \div 2] % 16 \in 0..15
      BY <3>2, NibbleBounds
    <3>4. QED
      BY <2>2, <3>3
  <2>3. QED
    BY <2>1, <2>2
<1>3. QED
  BY <1>1, <1>2, IsASeq DEF Hex

(* A function on 1..n is a sequence of length n: how a digest returned by *)
(* the crypto module is read.                                              *)
LEMMA FunIsSeq ==
    ASSUME NEW S, NEW n \in Nat, NEW f \in [1..n -> S]
    PROVE  f \in Seq(S) /\ Len(f) = n
OBVIOUS

(* The byte lengths of a conforming group: at least two bytes, at most    *)
(* the capacity of stc->md, and a range that does not wrap (line 284).    *)
LEMMA GroupBytes ==
    ASSUME min_xof_bits \in Nat, max_xof_bits \in Nat,
           min_xof_bits >= XOF_MD_BIT_MIN, max_xof_bits <= XOF_MD_BIT_MAX,
           min_xof_bits <= max_xof_bits
    PROVE  /\ min_xof_bytes \in Nat /\ max_xof_bytes \in Nat
           /\ 2 <= min_xof_bytes /\ min_xof_bytes <= max_xof_bytes
           /\ max_xof_bytes <= XOF_MD_BYTE_MAX
           /\ max_xof_bytes < UINT
           /\ range = max_xof_bytes - min_xof_bytes + 1
<1>1. /\ min_xof_bytes \in Nat /\ max_xof_bytes \in Nat
      /\ 2 <= min_xof_bytes /\ min_xof_bytes <= max_xof_bytes
      /\ max_xof_bytes <= XOF_MD_BYTE_MAX
      /\ max_xof_bytes <= max_xof_bits
  BY XofAssumption DEF min_xof_bytes, max_xof_bytes, XOF_MD_BYTE_MAX
<1>2. max_xof_bytes - min_xof_bytes + 1 \in 1..(UINT - 1)
  BY <1>1, XofAssumption, UintAssumption
<1>3. QED
  BY <1>1, <1>2, XofAssumption, UintAssumption DEF range

(* The length derived from the two trailing bytes (line 357) lies within  *)
(* the group's bounds in bytes whenever the range does not wrap.          *)
LEMMA NextXofLenBounds ==
    ASSUME NEW d \in Seq(Bytes), Len(d) >= 2, host \in Hosts,
           min_xof_bytes \in Nat, max_xof_bytes \in Nat,
           min_xof_bytes <= max_xof_bytes,
           range = max_xof_bytes - min_xof_bytes + 1
    PROVE  NextXofLen(d) \in min_xof_bytes..max_xof_bytes
<1>1. Len(d) \in Nat /\ Len(d) \in 1..Len(d) /\ Len(d) - 1 \in 1..Len(d)
  BY LenProperties
<1>2. d[Len(d)] \in 0..255 /\ d[Len(d) - 1] \in 0..255
  BY <1>1, ElementOfSeq, InputAssumption
<1>3. Rob(d, host)[1] \in 0..255 /\ Rob(d, host)[2] \in 0..255
  BY <1>2 DEF Rob
<1>4. rightmost_out_bits(d) \in Nat
  <2>1. /\ Rob(d, host)[1] * 256 + Rob(d, host)[2] \in Nat
        /\ Rob(d, host)[1] + Rob(d, host)[2] * 256 \in Nat
    BY <1>3, Uint16Bounds
  <2>2. HostUint16(Rob(d, host), host)
           \in {Rob(d, host)[1] * 256 + Rob(d, host)[2],
                Rob(d, host)[1] + Rob(d, host)[2] * 256}
    BY DEF HostUint16
  <2>3. QED
    BY <2>1, <2>2 DEF rightmost_out_bits
<1>5. rightmost_out_bits(d) % range \in 0..(range - 1)
  BY <1>4
<1>6. QED
  BY <1>5 DEF NextXofLen

(* The message of a pass is a byte string that fits stc->msg.             *)
LEMMA PassMsgType ==
    ASSUME IInv
    PROVE  PassMsg \in Seq(Bytes) /\ Len(PassMsg) <= SHAKE_MSG_BYTE_MAX
<1>1. CASE i = 0
  BY <1>1 DEF IInv, TypeOK, MemorySafe, PassMsg
<1>2. CASE i # 0
  <2>1. Rebuild(md) \in Seq(Bytes) /\ Len(Rebuild(md)) <= LEFTMOST_BYTES
    BY RebuildType DEF IInv, TypeOK
  <2>2. PassMsg = Rebuild(md)
    BY <1>2 DEF PassMsg
  <2>3. QED
    BY <2>1, <2>2, XofAssumption, LoopAssumption
<1>3. QED
  BY <1>1, <1>2

(* The digest the crypto module returns on a pass (line 340).             *)
Digest == Hash(PadTrunc(PassMsg, LEFTMOST_BYTES), xof_len)

(* Under the invariant, the requested length is one the crypto module    *)
(* can serve, so the digest is a byte string of exactly that length.      *)
LEMMA DigestType ==
    ASSUME IInv
    PROVE  Digest \in Seq(Bytes) /\ Len(Digest) = xof_len
<1>1. /\ min_xof_bytes \in Nat /\ max_xof_bytes \in Nat
      /\ 2 <= min_xof_bytes /\ max_xof_bytes <= XOF_MD_BYTE_MAX
  BY GroupBytes DEF IInv, TypeOK
<1>2. xof_len \in 0..XOF_MD_BYTE_MAX
  BY <1>1, XofAssumption DEF IInv, XOF_MD_BYTE_MAX
<1>3. PadTrunc(PassMsg, LEFTMOST_BYTES) \in [1..LEFTMOST_BYTES -> Bytes]
  <2>1. PassMsg \in Seq(Bytes) /\ LEFTMOST_BYTES \in Nat
    BY PassMsgType, LoopAssumption
  <2>2. QED
    BY <2>1, PadTruncType
<1>4. Digest \in [1..xof_len -> Bytes]
  BY <1>2, <1>3, HashAssumption DEF Digest
<1>5. QED
  BY <1>2, <1>4, FunIsSeq
-----------------------------------------------------------------------------
(* The invariant holds in every initial state.                            *)
LEMMA InitIInv ==
    ASSUME ConformingGroups
    PROVE  Init => IInv
<1> SUFFICES ASSUME Init PROVE IInv
  OBVIOUS
<1>1. PICK p \in OutLenPairs : Accepted(p) /\ min_xof_bits = p.min
                                          /\ max_xof_bits = p.max
  BY DEF Init
<1>2. /\ min_xof_bits \in Nat /\ max_xof_bits \in Nat
      /\ min_xof_bits >= XOF_MD_BIT_MIN /\ max_xof_bits <= XOF_MD_BIT_MAX
      /\ min_xof_bits <= max_xof_bits /\ min_xof_bits % 8 = 0
  BY <1>1, InputAssumption, UintAssumption DEF Accepted, ConformingGroups
<1>3. /\ min_xof_bytes \in Nat /\ max_xof_bytes \in Nat
      /\ min_xof_bytes <= max_xof_bytes /\ max_xof_bytes < UINT
  BY <1>2, GroupBytes
<1>4. xof_len = max_xof_bytes
  BY <1>2 DEF Init, max_xof_bytes
<1>5. seed \in Seq(Bytes) /\ Len(seed) <= SHAKE_MSG_BYTE_MAX
  BY InputAssumption DEF Init
<1>6. TypeOK
  <2>1. md \in Seq(Bytes) /\ results \in Seq(MctRecord)
    BY EmptySeq DEF Init
  <2>2. xof_len \in 0..(UINT - 1)
    BY <1>3, <1>4, UintAssumption
  <2>3. /\ i \in 0..MCT_INNER /\ j \in 0..MCT_OUTER
        /\ status \in Status /\ host \in Hosts /\ seed \in Seeds
    BY LoopAssumption DEF Init, Status
  <2>4. msg \in Seq(Bytes) /\ msg_len \in Nat
    BY <1>5, LenProperties DEF Init
  <2>5. QED
    BY <1>2, <2>1, <2>2, <2>3, <2>4 DEF TypeOK
<1>7. MemorySafe
  BY <1>5, XofAssumption DEF Init, MemorySafe, XOF_MD_BYTE_MAX, Crashes
<1>8. OutLenWithinBounds
  BY DEF Init, OutLenWithinBounds
<1>9. QED
  BY <1>2, <1>3, <1>4, <1>5, <1>6, <1>7, <1>8, LoopAssumption DEF Init, IInv

(* A pass of the inner loop keeps the invariant: the digest has the      *)
(* requested length, so neither crash branch is taken, and the next       *)
(* length stays within the group's bounds (line 357).                     *)
LEMMA PassIInv ==
    ASSUME IInv, Pass
    PROVE  IInv'
<1>1. /\ min_xof_bytes \in Nat /\ max_xof_bytes \in Nat
      /\ 2 <= min_xof_bytes /\ min_xof_bytes <= max_xof_bytes
      /\ max_xof_bytes <= XOF_MD_BYTE_MAX /\ max_xof_bytes < UINT
      /\ range = max_xof_bytes - min_xof_bytes + 1
  BY GroupBytes DEF IInv, TypeOK
<1>2. Digest \in Seq(Bytes) /\ Len(Digest) = xof_len
  BY DigestType
<1>3. Len(Digest) >= 2 /\ range # 0
  BY <1>1, <1>2 DEF IInv
<1>4. /\ md' = Digest
      /\ msg' = PassMsg
      /\ msg_len' = LEFTMOST_BYTES
      /\ xof_len' = NextXofLen(Digest)
      /\ i' = i + 1
      /\ status' = status /\ min_xof_bits' = min_xof_bits
      /\ max_xof_bits' = max_xof_bits /\ host' = host /\ seed' = seed
      /\ j' = j /\ results' = results
  BY <1>3 DEF Pass, Digest
<1>5. NextXofLen(Digest) \in min_xof_bytes..max_xof_bytes
  BY <1>1, <1>2, <1>3, NextXofLenBounds DEF IInv, TypeOK
<1>6. PassMsg \in Seq(Bytes) /\ Len(PassMsg) <= SHAKE_MSG_BYTE_MAX
  BY PassMsgType
<1>7. i + 1 \in 0..MCT_INNER /\ i + 1 > 0
  BY LoopAssumption DEF Pass, IInv, TypeOK
<1>8. TypeOK'
  <2>1. md' \in Seq(Bytes) /\ msg' \in Seq(Bytes)
    BY <1>2, <1>4, <1>6
  <2>2. xof_len' \in 0..(UINT - 1) /\ msg_len' \in Nat /\ i' \in 0..MCT_INNER
    BY <1>1, <1>4, <1>5, <1>7, LoopAssumption, UintAssumption
  <2>3. QED
    BY <1>4, <2>1, <2>2 DEF IInv, TypeOK
<1>9. MemorySafe'
  <2>0. xof_len \in min_xof_bytes..max_xof_bytes
    BY DEF IInv
  <2>a. Len(md') = xof_len
    BY <1>2, <1>4
  <2>1. Len(md') <= XOF_MD_BYTE_MAX
    BY <1>1, <2>0, <2>a, XofAssumption DEF XOF_MD_BYTE_MAX
  <2>2. Len(msg') <= SHAKE_MSG_BYTE_MAX
    BY <1>4, <1>6
  <2>3. status' \notin Crashes
    BY <1>4 DEF IInv, MemorySafe
  <2>4. QED
    BY <2>1, <2>2, <2>3 DEF MemorySafe
<1>10. OutLenWithinBounds'
  <2>1. OutLenWithinBounds
    BY DEF IInv
  <2>2. QED
    BY <1>4, <2>1 DEF OutLenWithinBounds
<1>11. Len(msg') <= SHAKE_MSG_BYTE_MAX
  BY <1>4, <1>6
<1>12. QED
  BY <1>1, <1>2, <1>4, <1>5, <1>7, <1>8, <1>9, <1>10, <1>11
  DEF IInv, min_xof_bytes, max_xof_bytes

(* A failing crypto call ends the run with the rebuilt message stored.    *)
LEMMA PassFailIInv ==
    ASSUME IInv, PassFail
    PROVE  IInv'
<1>1. PassMsg \in Seq(Bytes) /\ Len(PassMsg) <= SHAKE_MSG_BYTE_MAX
  BY PassMsgType
<1>2. /\ msg' = PassMsg /\ msg_len' = LEFTMOST_BYTES
      /\ md' = [k \in 1..Len(md) |-> 0]
      /\ status' = "crypto_fail"
      /\ min_xof_bits' = min_xof_bits /\ max_xof_bits' = max_xof_bits
      /\ host' = host /\ seed' = seed /\ xof_len' = xof_len
      /\ i' = i /\ j' = j /\ results' = results
  BY DEF PassFail
<1>3. md' \in Seq(Bytes) /\ Len(md') = Len(md)
  <2>1. Len(md) \in Nat
    BY LenProperties DEF IInv, TypeOK
  <2>2. md' \in [1..Len(md) -> Bytes]
    BY <1>2, InputAssumption
  <2>3. QED
    BY <2>1, <2>2, FunIsSeq
<1>4. TypeOK'
  BY <1>1, <1>2, <1>3, LoopAssumption DEF IInv, TypeOK, Status, Errors
<1>5. MemorySafe'
  BY <1>1, <1>2, <1>3 DEF IInv, MemorySafe, Crashes
<1>6. OutLenWithinBounds'
  <2>1. OutLenWithinBounds
    BY DEF IInv
  <2>2. QED
    BY <1>2, <2>1 DEF OutLenWithinBounds
<1>7. Len(msg') <= SHAKE_MSG_BYTE_MAX
  BY <1>1, <1>2
<1>8. QED
  BY <1>2, <1>3, <1>4, <1>5, <1>6, <1>7 DEF IInv, min_xof_bytes, max_xof_bytes

(* The record of an outer iteration: its outLen is the length of the last *)
(* digest in bits, hence within the group's bounds (lines 62-75).         *)
LEMMA OutputRecordBounds ==
    ASSUME IInv, i = MCT_INNER
    PROVE  /\ OutputRecord(md) \in MctRecord
           /\ OutputRecord(md).outLen \in min_xof_bits..max_xof_bits
<1>1. md \in Seq(Bytes) /\ Len(md) \in min_xof_bytes..max_xof_bytes
  BY LoopAssumption DEF IInv, TypeOK
<1>2. min_xof_bits \in Nat /\ max_xof_bits \in Nat /\ min_xof_bits % 8 = 0
  BY DEF IInv, TypeOK
<1>3. Len(md) * 8 \in min_xof_bits..max_xof_bits
  BY <1>1, <1>2 DEF min_xof_bytes, max_xof_bytes
<1>4. Hex(md) \in Seq(0..15)
  BY <1>1, HexType
<1>5. QED
  BY <1>1, <1>3, <1>4 DEF OutputRecord, MctRecord

(* The last pass of an outer iteration appends its record.                *)
LEMMA NextOuterIInv ==
    ASSUME IInv, NextOuter
    PROVE  IInv'
<1>1. /\ msg' = Rebuild(md)
      /\ results' = Append(results, OutputRecord(md))
      /\ i' = 0 /\ j' = j + 1
      /\ status' = IF j + 1 = MCT_OUTER THEN "done" ELSE "running"
      /\ min_xof_bits' = min_xof_bits /\ max_xof_bits' = max_xof_bits
      /\ host' = host /\ seed' = seed /\ msg_len' = msg_len /\ md' = md
      /\ xof_len' = xof_len /\ i = MCT_INNER /\ status = "running"
  BY DEF NextOuter
<1>2. /\ OutputRecord(md) \in MctRecord
      /\ OutputRecord(md).outLen \in min_xof_bits..max_xof_bits
  BY <1>1, OutputRecordBounds
<1>3. Rebuild(md) \in Seq(Bytes) /\ Len(Rebuild(md)) <= LEFTMOST_BYTES
  BY RebuildType DEF IInv, TypeOK
<1>4. j \in 0..(MCT_OUTER - 1)
  BY <1>1, LoopAssumption DEF IInv, TypeOK
<1>5. /\ results' \in Seq(MctRecord)
      /\ Len(results') = Len(results) + 1
      /\ \A k \in 1..Len(results) : results'[k] = results[k]
      /\ results'[Len(results) + 1] = OutputRecord(md)
  BY <1>1, <1>2, AppendProperties DEF IInv, TypeOK
<1>6. TypeOK'
  BY <1>1, <1>3, <1>4, <1>5, LoopAssumption DEF IInv, TypeOK, Status
<1>7. MemorySafe'
  BY <1>1, <1>3, XofAssumption, LoopAssumption DEF IInv, MemorySafe, Crashes
<1>8. OutLenWithinBounds'
  <2>1. OutLenWithinBounds
    BY DEF IInv
  <2>2. QED
    BY <1>1, <1>2, <1>5, <2>1, LenProperties DEF IInv, TypeOK,
       OutLenWithinBounds
<1>9. (status' = "running") => j' < MCT_OUTER
  BY <1>1, <1>4, LoopAssumption
<1>10. Len(msg') <= SHAKE_MSG_BYTE_MAX
  BY <1>1, <1>3, LoopAssumption, XofAssumption
<1>11. QED
  BY <1>1, <1>6, <1>7, <1>8, <1>9, <1>10 DEF IInv, min_xof_bytes, max_xof_bytes

(* The output fails: the run ends with the rebuilt message stored.        *)
LEMMA OutputFailIInv ==
    ASSUME IInv, OutputFail
    PROVE  IInv'
<1>1. /\ msg' = Rebuild(md)
      /\ status' \in {"malloc_fail", "conv_fail"}
      /\ min_xof_bits' = min_xof_bits /\ max_xof_bits' = max_xof_bits
      /\ host' = host /\ seed' = seed /\ msg_len' = msg_len /\ md' = md
      /\ xof_len' = xof_len /\ i' = i /\ j' = j /\ results' = results
  BY DEF OutputFail
<1>2. Rebuild(md) \in Seq(Bytes) /\ Len(Rebuild(md)) <= LEFTMOST_BYTES
  BY RebuildType DEF IInv, TypeOK
<1>3. TypeOK'
  BY <1>1, <1>2 DEF IInv, TypeOK, Status, Errors
<1>4. MemorySafe'
  BY <1>1, <1>2, XofAssumption, LoopAssumption DEF IInv, MemorySafe, Crashes
<1>5. OutLenWithinBounds'
  <2>1. OutLenWithinBounds
    BY DEF IInv
  <2>2. QED
    BY <1>1, <2>1 DEF OutLenWithinBounds
<1>6. Len(msg') <= SHAKE_MSG_BYTE_MAX
  BY <1>1, <1>2, LoopAssumption, XofAssumption
<1>7. QED
  BY <1>1, <1>3, <1>4, <1>5, <1>6 DEF IInv, min_xof_bytes, max_xof_bytes

(* Every step of acvp_hash_shake_mct, and a stutter, keeps the invariant. *)
LEMMA NextIInv ==
    IInv /\ [Next]_vars => IInv'
<1> SUFFICES ASSUME IInv, [Next]_vars PROVE IInv'
  OBVIOUS
<1>1. CASE Pass
  BY <1>1, PassIInv
<1>2. CASE PassFail
  BY <1>2, PassFailIInv
<1>3. CASE NextOuter
  BY <1>3, NextOuterIInv
<1>4. CASE OutputFail
  BY <1>4, OutputFailIInv
<1>5. CASE Returned \/ UNCHANGED vars
  BY <1>5 DEF Returned, vars, IInv, TypeOK, MemorySafe, OutLenWithinBounds,
     min_xof_bytes, max_xof_bytes
<1>6. QED
  BY <1>1, <1>2, <1>3, <1>4, <1>5 DEF Next

(* For every instance of the constants and every group a conforming      *)
(* server sends, acvp_hash_shake_mct keeps the inductive invariant in     *)
(* every state of every run.                                               *)
THEOREM ShakeInvariant ==
    ASSUME ConformingGroups
    PROVE  Spec => []IInv
<1>1. Init => IInv
  BY InitIInv
<1>2. IInv /\ [Next]_vars => IInv'
  BY NextIInv
<1>3. QED
  BY <1>1, <1>2, PTL DEF Spec

(* Type correctness of the SHAKE MCT state (TypeOK) for conforming groups. *)
THEOREM TypeCorrect ==
    ASSUME ConformingGroups
    PROVE  Spec => []TypeOK
<1>1. IInv => TypeOK
  BY DEF IInv
<1>2. QED
  BY <1>1, ShakeInvariant, PTL

(* MemorySafe for every instance: with minOutLen <= maxOutLen and a      *)
(* byte-aligned minOutLen, the crypto module never writes past stc->md,   *)
(* the chained message fits stc->msg, and neither the division by range   *)
(* (line 357) nor the read of md[md_len - 2] (lines 349-353) goes wrong.  *)
THEOREM MemorySafety ==
    ASSUME ConformingGroups
    PROVE  Spec => []MemorySafe
<1>1. IInv => MemorySafe
  BY DEF IInv
<1>2. QED
  BY <1>1, ShakeInvariant, PTL

(* OutLenWithinBounds for every instance: every outLen that              *)
(* acvp_hash_output_mct_tc records lies in [minOutLen, maxOutLen].        *)
THEOREM OutLenBounded ==
    ASSUME ConformingGroups
    PROVE  Spec => []OutLenWithinBounds
<1>1. IInv => OutLenWithinBounds
  BY DEF IInv
<1>2. QED
  BY <1>1, ShakeInvariant, PTL
=============================================================================
