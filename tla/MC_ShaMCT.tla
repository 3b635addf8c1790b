------------------------------ MODULE MC_ShaMCT ------------------------------
(***************************************************************************)
(* Small instances of ShaMCT for TLC.  Digests are 2 bytes, so in         *)
(* alternate mode A || B || C (3 to 6 bytes) is truncated for the longer  *)
(* messages and padded for the empty one; in standard mode a 4-byte       *)
(* message is longer than the 3-byte standard slot size.  MCHash is a     *)
(* deterministic stand-in for SHA that depends on every byte and on the  *)
(* length.                                                                 *)
(***************************************************************************)
EXTENDS ShaMCTRef

MCHash(m) ==
    LET c == SubSeq(m, 1, Len(m))
        w[k \in 0..Len(c)] == IF k = 0 THEN 2 ELSE w[k - 1] * 5 + c[k] + k
        v == w[Len(c)]
    IN  [k \in 1..MD_LEN |-> (v + k) % 3]

MCBytes == 0..2
(* Seeds that fit the standard-mode slot size MD_BYTE_MAX.                *)
MCSeeds == {<<>>, <<2>>, <<1, 2>>, <<2, 0, 1>>}
(* A standard-mode seed longer than the slot size (lines 109-115).        *)
MCLongSeeds == {<<2, 0, 1, 2>>}
MCAllSeeds == MCSeeds \cup MCLongSeeds
MCModes == {"standard", "alternate"}
MCStandard == {"standard"}
=============================================================================
