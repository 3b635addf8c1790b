------------------------------ MODULE ShaMCTRef ------------------------------
(***************************************************************************)
(* The classic triple-buffer MCT chain as spec 4.3(a) defines it, and the *)
(* check that acvp_hash_mct_tc implements the abstract MCT contract       *)
(* MCTResults with that chain as the expected records.                    *)
(***************************************************************************)
EXTENDS ShaMCT

(* The chain of a test case with message s in mode m.  R[n] is the triple *)
(* of slots <<A, B, C>> after n rounds (all outer iterations in a row).   *)
(* A round that starts an outer iteration first sets A = B = C to the     *)
(* seed (s, then the previous digest); every round hashes A || B || C,    *)
(* truncated or zero-padded to the length of s in alternate mode, and     *)
(* rotates.  Record k is the last digest of outer iteration k.            *)
ShaChain(s, m) ==
    LET R[n \in 0..(MCT_OUTER * MCT_INNER)] ==
            IF n = 0
            THEN <<s, s, s>>
            ELSE LET prev == R[n - 1]
                     t == IF (n - 1) % MCT_INNER = 0 /\ n > 1
                          THEN <<prev[3], prev[3], prev[3]>>
                          ELSE prev
                     abc == t[1] \o t[2] \o t[3]
                     d == Hash(IF m = "alternate" THEN PadTrunc(abc, Len(s))
                                                  ELSE abc)
                 IN  <<t[2], t[3], d>>
    IN  [k \in 1..MCT_OUTER |-> [md |-> Hex(R[k * MCT_INNER][3])]]

ShaInput == <<msg, mode>>
ShaInputs == Seeds \X Modes
ShaTable == [x \in ShaInputs |-> ShaChain(x[1], x[2])]
ShaExpected(x) == ShaTable[x]

Abstract == INSTANCE MCTResults
    WITH input <- ShaInput, Inputs <- ShaInputs,
         Expected <- ShaExpected, Errors <- Errors

(* acvp_hash_mct_tc appends, in order, exactly the records of the spec's  *)
(* triple-buffer chain for the test case, and returns either after        *)
(* MCT_OUTER of them or with an error code: a wrong rotation order, a     *)
(* slot length not carried along with its bytes, or a wrong reseeding     *)
(* breaks it.                                                              *)
RefinesMCTResults == Abstract!Spec
=============================================================================
