----------------------------- MODULE Sha3MCTRef -----------------------------
(***************************************************************************)
(* The SHA-3 MCT chain as spec 4.3(b) defines it, and the check that      *)
(* acvp_hash_sha3_mct implements the abstract MCT contract MCTResults     *)
(* with that chain as the expected records.                                *)
(***************************************************************************)
EXTENDS Sha3MCT

(* The chain of a test case with message s in mode m.  D[n] is the n-th  *)
(* digest of the test case (all outer iterations in a row): the first is  *)
(* the digest of s, each next one the digest of the previous digest,      *)
(* truncated or zero-padded to the length of s in alternate mode.  Record *)
(* k is the last digest of outer iteration k.                              *)
Sha3Chain(s, m) ==
    LET D[n \in 1..(MCT_OUTER * MCT_INNER)] ==
            IF n = 1
            THEN Hash(s)
            ELSE LET prev == D[n - 1]
                     next == IF m = "alternate" THEN PadTrunc(prev, Len(s))
                                                ELSE prev
                 IN  Hash(next)
    IN  [k \in 1..MCT_OUTER |-> [md |-> Hex(D[k * MCT_INNER])]]

Sha3Input == <<seed, mode>>
Sha3Inputs == Seeds \X Modes
Sha3Table == [x \in Sha3Inputs |-> Sha3Chain(x[1], x[2])]
Sha3Expected(x) == Sha3Table[x]

Abstract == INSTANCE MCTResults
    WITH input <- Sha3Input, Inputs <- Sha3Inputs,
         Expected <- Sha3Expected, Errors <- Errors

(* acvp_hash_sha3_mct appends, in order, exactly the records of the spec's *)
(* chain for the test case, and returns either after MCT_OUTER of them or *)
(* with an error code: a wrong replacement rule, a wrong pass count or an *)
(* off-by-one in which digest is recorded breaks it.                       *)
RefinesMCTResults == Abstract!Spec
=============================================================================
