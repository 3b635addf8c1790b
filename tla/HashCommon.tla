----------------------------- MODULE HashCommon -----------------------------
(***************************************************************************)
(* Buffer conventions shared by the Monte Carlo Tests of src/acvp_hash.c. *)
(* A byte buffer of the test context (stc->msg, stc->md, stc->m1..m3) is  *)
(* modelled by the sequence of the bytes stored in it; the buffers are     *)
(* calloc'ed and memzero_s'ed, so a read past what was stored reads 0.     *)
(* The hex encoder acvp_bin_to_hexstr is outside src/ and is modelled      *)
(* from its contract (spec 6): two digits per byte, and failure when the  *)
(* target string is too small.                                             *)
(***************************************************************************)
EXTENDS Naturals, Sequences

(* The first n bytes of a zero-initialised buffer whose stored bytes are  *)
(* s: what the crypto module reads for a message of length n.             *)
PadTrunc(s, n) == [k \in 1..n |-> IF k <= Len(s) THEN s[k] ELSE 0]

(* acvp_bin_to_hexstr: the hex digits of d, high nibble first.            *)
Hex(d) == [k \in 1..(2 * Len(d)) |->
              IF k % 2 = 1 THEN d[(k + 1) \div 2] \div 16
                           ELSE d[k \div 2] % 16]

(* acvp_bin_to_hexstr succeeds only if the hex string fits the target.   *)
HexFits(d, cap) == 2 * Len(d) <= cap
=============================================================================
