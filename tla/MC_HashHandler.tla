--------------------------- MODULE MC_HashHandler ---------------------------
(***************************************************************************)
(* The instances of HashHandler that TLC checks.  The sizes keep the      *)
(* relations of the build's constants: digests of MD_LEN = MD_BYTE_MAX    *)
(* bytes, SHAKE messages longer than the others, and an XOF range whose   *)
(* upper end is larger than the fixed-output digest buffer.  Vector sets  *)
(* are one group from a menu that holds every group and test error, or    *)
(* two conforming groups, under each algorithm and an unregistered one.   *)
(***************************************************************************)
EXTENDS HashHandler

MCSigned == TRUE
MCUnsigned == FALSE
MCNullDiffers == FALSE
MCNullIsEqual == TRUE

(* A conforming test and its variants, one field changed each.            *)
TOk(id) == [tcId |-> id, hasMsg |-> TRUE, hexLen |-> 4, hexOk |-> TRUE,
            outLen |-> 16, contentLength |-> 16, exp |-> "repeating"]
BadTests ==
    { [TOk(1) EXCEPT !.hasMsg = FALSE],
      [TOk(1) EXCEPT !.hexLen = 6],         \* fits SHAKE only
      [TOk(1) EXCEPT !.hexLen = 8],         \* too long for every cipher
      [TOk(1) EXCEPT !.hexLen = 3],         \* odd number of hex digits
      [TOk(1) EXCEPT !.hexOk = FALSE],
      [TOk(1) EXCEPT !.contentLength = 8],
      [TOk(1) EXCEPT !.exp = "other"],
      [TOk(1) EXCEPT !.exp = "NONE"],
      [TOk(1) EXCEPT !.outLen = 8],         \* below XOF_MD_BIT_MIN
      [TOk(1) EXCEPT !.outLen = 32] }       \* XOF_MD_BIT_MAX
TestMenu == {<<>>, <<TOk(1)>>, <<TOk(1), TOk(2)>>} \cup {<<b>> : b \in BadTests}

G(id, tt, tests) == [tgId |-> id, testType |-> tt, minOutLen |-> 16,
                     maxOutLen |-> 32, mctVersion |-> "standard", tests |-> tests]
TestTypes == {"AFT", "MCT", "VOT", "LDT"}
BadGroups ==
    { [G(1, "AFT", <<TOk(1)>>) EXCEPT !.tgId = 0],
      [G(1, "AFT", <<TOk(1)>>) EXCEPT !.testType = "NONE"],
      [G(1, "AFT", <<TOk(1)>>) EXCEPT !.testType = "BAD"],
      [G(1, "MCT", <<TOk(1)>>) EXCEPT !.minOutLen = 8],
      [G(1, "MCT", <<TOk(1)>>) EXCEPT !.maxOutLen = 40],
      [G(1, "MCT", <<TOk(1)>>) EXCEPT !.mctVersion = "alternate"],
      [G(1, "MCT", <<TOk(1)>>) EXCEPT !.mctVersion = "NONE"],
      [G(1, "MCT", <<TOk(1)>>) EXCEPT !.mctVersion = "other"] }
GroupMenu == {G(1, tt, ts) : tt \in TestTypes, ts \in TestMenu} \cup BadGroups
Algs == Families \cup {"UNKNOWN"}

AllSets ==
    {[alg |-> a, groups |-> <<gr>>] : a \in Algs, gr \in GroupMenu}
    \cup {[alg |-> a, groups |-> <<G(1, t1, <<TOk(1), TOk(2)>>),
                                   G(2, t2, <<TOk(3)>>)>>] :
            a \in Algs, t1 \in TestTypes, t2 \in TestTypes}

(* A single-shot SHAKE test asking for more than the fixed-output digest *)
(* buffer holds, or for a length that is not a whole number of bytes.     *)
LongAft(v) ==
    \E k \in 1..Len(v.groups) : \E n \in 1..Len(v.groups[k].tests) :
        v.alg = "SHAKE" /\ v.groups[k].testType = "AFT"
        /\ v.groups[k].tests[n].outLen > 8 * MD_BYTE_MAX
(* The main run: the whole menu, on a build with a signed enum and a     *)
(* strcmp_s that reports a NULL argument as a mismatch.  No outLen in the *)
(* menu is a fraction of a byte and no contentLength one of a byte.       *)
MCVectorSets == AllSets
(* The buffer run: the lengths a fixed-output md buffer holds.            *)
MCFitSets == {v \in AllSets : ~LongAft(v)}
(* handler_shake_aft_overflow: a SHAKE AFT test with outLen = 32.         *)
MCLongAftSets == {v \in AllSets : LongAft(v)}
(* handler_accepts_invalid: three inputs spec 4.1 rejects, on a build    *)
(* with an unsigned enum and a strcmp_s that zeroes diff on NULL: an      *)
(* unknown mctVersion, an LDT test without expansionTechnique, and an LDT *)
(* contentLength of 17 bits for 2 bytes.                                   *)
MCAcceptsInvalidSets ==
    {[alg |-> a, groups |-> <<[G(1, "MCT", <<TOk(1)>>) EXCEPT !.mctVersion = "other"]>>] :
        a \in {"SHA", "SHA3"}}
    \cup {[alg |-> a, groups |-> <<G(1, "LDT", <<[TOk(1) EXCEPT !.exp = "NONE"]>>)>>] :
            a \in {"SHA", "SHA3"}}
    \cup {[alg |-> "SHA", groups |-> <<G(1, "LDT", <<[TOk(1) EXCEPT !.contentLength = 17]>>)>>]}
=============================================================================
