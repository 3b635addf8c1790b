----------------------------- MODULE MCTResults -----------------------------
(***************************************************************************)
(* What a Monte Carlo Test of src/acvp_hash.c promises, whichever of the  *)
(* three chaining algorithms runs it (spec 4.3, shared contract): the     *)
(* records appended to the test case's resultsArray are, in order, the    *)
(* first records of the chain Expected(input) that the spec defines for   *)
(* the test case's input, and the run either ends with exactly MCT_OUTER  *)
(* of them or returns one of the error codes Errors.                      *)
(***************************************************************************)
EXTENDS Naturals, Sequences

CONSTANTS
    MCT_OUTER,      \* ACVP_HASH_MCT_OUTER: records per test case
    Inputs,         \* the inputs of a test case (message, parameters)
    Expected(_),    \* Expected(x)[k]: the k-th record of input x
    Errors          \* the error codes the run may return

VARIABLES input, results, status

Init ==
    /\ input \in Inputs
    /\ results = <<>>
    /\ status = "running"

(* The next outer iteration completes and its record is appended.        *)
AppendRecord ==
    /\ status = "running"
    /\ Len(results) < MCT_OUTER
    /\ results' = Append(results, Expected(input)[Len(results) + 1])
    /\ status' = IF Len(results) + 1 = MCT_OUTER THEN "done" ELSE "running"
    /\ UNCHANGED input

(* The run stops with an error; no record of the current iteration.      *)
Fail ==
    /\ status = "running"
    /\ status' \in Errors
    /\ UNCHANGED <<input, results>>

Next == AppendRecord \/ Fail

Spec == Init /\ [][Next]_<<input, results, status>>
=============================================================================
