----------------------------- MODULE MC_Sha3MCT -----------------------------
(***************************************************************************)
(* Small instances of Sha3MCT for TLC.  Messages of 0 to 4 bytes are      *)
(* shorter than, as long as and longer than the 2-byte digest, so the     *)
(* alternate mode both pads and truncates.  MCHash3 is a deterministic    *)
(* stand-in for SHA-3 that depends on every byte and on the length (the   *)
(* message is first copied into a sequence value, so that TLC reads it    *)
(* once however often the hash refers to it).                              *)
(***************************************************************************)
EXTENDS Sha3MCTRef

MCHash3(m) ==
    LET c == SubSeq(m, 1, Len(m))
        w[k \in 0..Len(c)] == IF k = 0 THEN 1 ELSE w[k - 1] * 3 + c[k] + k
        v == w[Len(c)]
    IN  [k \in 1..MD_LEN |-> (v + 5 * k) % 6]

MCBytes == 0..5
MCSeeds == {<<>>, <<3>>, <<1, 2>>, <<4, 0, 5, 2>>}
MCModes == {"standard", "alternate"}
=============================================================================
