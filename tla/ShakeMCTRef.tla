---------------------------- MODULE ShakeMCTRef ----------------------------
(***************************************************************************)
(* The SHAKE MCT chain as spec 4.3(c) defines it, and the check that      *)
(* acvp_hash_shake_mct implements the abstract MCT contract MCTResults    *)
(* with that chain as the expected records.                                *)
(***************************************************************************)
EXTENDS ShakeMCT

(* The two trailing bytes as a 16-bit value, the last byte the low one,   *)
(* whatever the host's byte order.                                         *)
TrailingValue(d) == d[Len(d) - 1] * 256 + d[Len(d)]

(* The chain of a test case with message s and bounds p.  f[n] describes *)
(* the n-th digest computation of the whole test case (passes 0..999 of   *)
(* every outer iteration in a row): its message and requested length,     *)
(* and for n > 0 the digest of computation n - 1.  The first message is   *)
(* the test case's message; the next one is the leftmost 16 bytes of the  *)
(* digest, padded with zero bytes when the digest is shorter; the next    *)
(* length is min + (value mod (max - min + 1)), all in bytes.  Record k   *)
(* is the digest of pass 999 of outer iteration k, with its length.       *)
RefChain(s, p) ==
    LET lo == p.min \div 8
        hi == p.max \div 8
        f[n \in 0..(MCT_OUTER * MCT_INNER)] ==
            IF n = 0
            THEN [msg |-> s, len |-> hi, md |-> <<>>]
            ELSE LET prev == f[n - 1]
                     d == Hash(prev.msg, prev.len)
                 IN  [msg |-> PadTrunc(d, LEFTMOST_BYTES),
                      len |-> lo + (TrailingValue(d) % (hi - lo + 1)),
                      md |-> d]
    IN  [k \in 1..MCT_OUTER |->
            [md |-> Hex(f[k * MCT_INNER].md),
             outLen |-> Len(f[k * MCT_INNER].md) * 8]]

(* The test case's input, and the chains of all inputs with well-formed  *)
(* bounds, computed once.                                                  *)
ShakeInput == <<seed, [min |-> min_xof_bits, max |-> max_xof_bits]>>
ShakeInputs == {x \in Seeds \X OutLenPairs : x[2].min \div 8 <= x[2].max \div 8}
RefTable == [x \in ShakeInputs |-> RefChain(x[1], x[2])]
ShakeExpected(x) == RefTable[x]

Abstract == INSTANCE MCTResults WITH input <- ShakeInput,
                                     Inputs <- ShakeInputs,
                                     Expected <- ShakeExpected

(* acvp_hash_shake_mct appends exactly the records of the chain of spec   *)
(* 4.3(c), in order, one per outer iteration, and otherwise only fails:   *)
(* the passes, the seed-only pass 1000, the length derivation from the   *)
(* trailing bytes and the outLen reported with each record.               *)
RefinesMCTResults == Abstract!Spec
=============================================================================
