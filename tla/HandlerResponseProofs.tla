------------------------ MODULE HandlerResponseProofs ------------------------
(***************************************************************************)
(* Proofs about what the vector-set handler (HashHandler) answers: the    *)
(* response groups it builds are always a prefix of the response the spec *)
(* asks for, and a successful return emits all of it.                     *)
(***************************************************************************)
EXTENDS HashHandler, TLAPS

(* The vector sets whose single-shot SHAKE tests ask for whole bytes.    *)
(* acvp_hash_init_tc rounds outLen up to bytes (line 900) and             *)
(* acvp_hash_output_tc reports md_len * 8 bits (line 812), so another     *)
(* outLen is echoed rounded up; spec 4.4 and 8 disagree on whether such a *)
(* length may be sent at all.                                             *)
WholeByteOutLens ==
    \A v \in VectorSets : v.alg = "SHAKE" =>
        \A k \in 1..Len(v.groups) : v.groups[k].testType # "MCT" =>
            \A n \in 1..Len(v.groups[k].tests) :
                v.groups[k].tests[n].outLen % 8 = 0

Exp == ExpectedResponse(vs)

(* The record the spec asks for test n of the current group.              *)
ExpTest(n) == Exp[g].tests[n]

(* The inductive invariant behind ResponseMirrorsRequest.  The response   *)
(* groups are exactly the expected ones before g; inside a group the      *)
(* tests array holds the expected records before t; between init_tc and   *)
(* the output the context carries the requested SHAKE length, rounded to  *)
(* bytes and back; and a successful return has walked every group.        *)
RInv ==
    /\ vs \in VectorSets
    /\ g \in 1..Len(vs.groups) + 1
    /\ t \in Nat \ {0}
    /\ pc \in {"start", "group", "test", "crypto", "output"}
    /\ status \in {"running", "done"} \cup Errors
    /\ r_groups = [k \in 1..g - 1 |-> Exp[k]]
    /\ pc \in {"test", "crypto", "output"} =>
          /\ g \in 1..Len(vs.groups)
          /\ t \in 1..Len(Grp.tests) + 1
          /\ r_tests = [n \in 1..t - 1 |-> ExpTest(n)]
    /\ pc \in {"crypto", "output"} => t \in 1..Len(Grp.tests) /\ Grp.testType # "MCT"
    /\ (pc = "crypto" /\ status = "running" /\ vs.alg = "SHAKE")
          => stc.xof_len \in Nat /\ stc.xof_len * 8 = Tst.outLen
    /\ (pc = "output" /\ status = "running" /\ vs.alg = "SHAKE")
          => stc.md_len \in Nat /\ stc.md_len * 8 = Tst.outLen
    /\ status = "done" => emitted = r_groups /\ g = Len(vs.groups) + 1
-----------------------------------------------------------------------------
(* Rounding a whole number of bytes' worth of bits up to bytes and back   *)
(* gives the bits again: init_tc's (outLen + 7) / 8 and output_tc's * 8.  *)
LEMMA RoundTrip == \A x \in Nat : x % 8 = 0 => ((x + 7) \div 8) * 8 = x
OBVIOUS

(* The record the spec asks for a test of the current group.             *)
LEMMA ExpTestDef ==
    ASSUME vs \in VectorSets, g \in 1..Len(vs.groups), NEW n \in 1..Len(Grp.tests)
    PROVE  ExpTest(n) =
             [tcId |-> Grp.tests[n].tcId,
              outLen |-> IF vs.alg = "SHAKE" /\ Grp.testType # "MCT"
                         THEN Grp.tests[n].outLen ELSE 0]
BY DEF ExpTest, Exp, ExpectedResponse, Grp

(* The group the spec asks for: its tgId and the expected tests.         *)
LEMMA ExpGroupDef ==
    ASSUME g \in 1..Len(vs.groups)
    PROVE  /\ Exp[g] = [tgId |-> Grp.tgId, tests |-> Exp[g].tests]
           /\ Exp[g].tests = [n \in 1..Len(Grp.tests) |-> ExpTest(n)]
BY DEF ExpTest, Exp, ExpectedResponse, Grp

(* The initial state: nothing is in the response yet.                     *)
LEMMA InitRInv == Init => RInv
<1> SUFFICES ASSUME Init PROVE RInv
  OBVIOUS
<1>1. vs \in VectorSets /\ vs.groups \in Seq(Group)
  BY HandlerAssumption DEF Init
<1>2. r_groups = [k \in 1..g - 1 |-> Exp[k]]
  BY DEF Init
<1>3. QED
  BY <1>1, <1>2 DEF Init, RInv

(* A failure return changes only the status and the context.              *)
LEMMA FailRInv ==
    ASSUME RInv, NEW code \in Errors, Fail(code),
           UNCHANGED <<vs, g, t, r_tests, r_groups, emitted>>
    PROVE  RInv'
BY DEF Fail, RInv, Errors, Exp, ExpTest, Grp, Tst

LEMMA StartRInv == RInv /\ Start => RInv'
<1> SUFFICES ASSUME RInv, Start PROVE RInv'
  OBVIOUS
<1>1. CASE vs.alg \in Registered
  BY <1>1 DEF Start, RInv, Exp, ExpTest, Grp, Tst
<1>2. CASE vs.alg \notin Registered
  BY <1>2, FailRInv DEF Start, Errors
<1>3. QED
  BY <1>1, <1>2

(* Opening a group empties the tests array (r_tarr is created anew).      *)
LEMMA GroupStartRInv == RInv /\ GroupStart => RInv'
<1> SUFFICES ASSUME RInv, GroupStart PROVE RInv'
  OBVIOUS
<1> DEFINE err == GroupError(Grp, vs.alg)
<1>1. CASE err = "none"
  <2>1. g \in 1..Len(vs.groups) /\ g' = g /\ vs' = vs
    BY DEF GroupStart, RInv
  <2>2. pc' = "test" /\ t' = 1 /\ r_tests' = <<>> /\ status' = status
    BY <1>1 DEF GroupStart
  <2>3. r_tests' = [n \in 1..t' - 1 |-> ExpTest(n)']
    BY <2>2
  <2>4. QED
    BY <2>1, <2>2, <2>3 DEF GroupStart, RInv, Exp, Grp
<1>2. CASE err # "none"
  <2>1. err \in Errors
    BY <1>2 DEF GroupError, Errors
  <2>2. QED
    BY <1>2, <2>1, FailRInv DEF GroupStart
<1>3. QED
  BY <1>1, <1>2

(* init_tc stores the requested length in bytes; an MCT appends a record  *)
(* without outLen (lines 714-734).                                        *)
LEMMA TestStartRInv == WholeByteOutLens /\ RInv /\ TestStart => RInv'
<1> SUFFICES ASSUME WholeByteOutLens, RInv, TestStart PROVE RInv'
  OBVIOUS
<1> DEFINE err == TestError(Tst, vs.alg, Grp.testType)
           tt == Grp.testType
           ctx == [cap |-> MdCap(vs.alg, tt),
                   xof_len |-> IF vs.alg = "SHAKE" /\ tt # "MCT"
                               THEN (Tst.outLen + 7) \div 8 ELSE 0,
                   md_len |-> 0,
                   mode |-> IF tt = "MCT" THEN mct_version ELSE "uninit"]
<1>1. /\ g \in 1..Len(vs.groups) /\ t \in 1..Len(Grp.tests)
      /\ r_tests = [n \in 1..t - 1 |-> ExpTest(n)]
  BY DEF RInv, TestStart
<1>2. UNCHANGED <<vs, g, r_groups, emitted>>
  BY DEF TestStart
<1>3. Tst \in Test
  <2>1. vs.groups \in Seq(Group)
    BY HandlerAssumption DEF RInv
  <2>2. Grp \in Group
    BY <1>1, <2>1 DEF Grp
  <2>3. Grp.tests \in Seq(Test)
    BY <2>2 DEF Group
  <2>4. QED
    BY <1>1, <2>3 DEF Tst
<1>4. err \in Errors \cup {"none"}
  BY DEF TestError, Errors
<1>5. CASE err = "none" /\ ~DecodeFails(Tst) /\ tt # "MCT"
        /\ stc' = ctx /\ pc' = "crypto" /\ UNCHANGED <<status, r_tests, t>>
  <2>1. vs.alg = "SHAKE" => Tst.outLen % 8 = 0
    BY <1>1, <1>5 DEF WholeByteOutLens, RInv, Tst, Grp
  <2>2. vs.alg = "SHAKE" => ctx.xof_len \in Nat /\ ctx.xof_len * 8 = Tst.outLen
    BY <1>3, <1>5, <2>1, RoundTrip DEF Test
  <2>3. QED
    BY <1>1, <1>2, <1>5, <2>2 DEF RInv, Exp, ExpTest, Grp, Tst
<1>6. CASE err = "none" /\ ~DecodeFails(Tst) /\ tt = "MCT"
        /\ r_tests' = Append(r_tests, [tcId |-> Tst.tcId, outLen |-> 0])
        /\ t' = t + 1 /\ stc' = NoStc /\ UNCHANGED <<status, pc>>
  <2>1. ExpTest(t) = [tcId |-> Tst.tcId, outLen |-> 0]
    BY <1>1, <1>6, ExpTestDef DEF RInv, Tst
  <2>2. r_tests' = [n \in 1..t |-> ExpTest(n)]
    BY <1>1, <1>6, <2>1
  <2>3. QED
    BY <1>1, <1>2, <1>6, <2>2 DEF RInv, Exp, ExpTest, Grp, Tst
<1>7. CASE \E e \in Errors : Fail(e) /\ UNCHANGED <<r_tests, t>>
  BY <1>2, <1>7, FailRInv
<1>8. QED
  <2>1. \/ \E e \in Errors : Fail(e) /\ UNCHANGED <<r_tests, t>>
        \/ err = "none" /\ ~DecodeFails(Tst) /\ tt # "MCT"
           /\ stc' = ctx /\ pc' = "crypto" /\ UNCHANGED <<status, r_tests, t>>
        \/ err = "none" /\ ~DecodeFails(Tst) /\ tt = "MCT"
           /\ r_tests' = Append(r_tests, [tcId |-> Tst.tcId, outLen |-> 0])
           /\ t' = t + 1 /\ stc' = NoStc /\ UNCHANGED <<status, pc>>
    BY <1>4 DEF TestStart, Errors, MctErrors
  <2>2. QED
    BY <2>1, <1>5, <1>6, <1>7

(* The crypto module writes xof_len bytes of a SHAKE digest.              *)
LEMMA CryptoRInv == RInv /\ Crypto => RInv'
<1> SUFFICES ASSUME RInv, Crypto PROVE RInv'
  OBVIOUS
<1>1. CASE /\ stc' = [stc EXCEPT !.md_len = IF vs.alg = "SHAKE" THEN stc.xof_len
                                                                ELSE MD_LEN]
           /\ pc' = "output" /\ UNCHANGED status
  <2>1. vs.alg = "SHAKE" => stc'.md_len \in Nat /\ stc'.md_len * 8 = Tst.outLen
    BY <1>1 DEF RInv, Crypto
  <2>2. QED
    BY <1>1, <2>1 DEF Crypto, RInv, Exp, ExpTest, Grp, Tst
<1>2. CASE Fail("CRYPTO_MODULE_FAIL")
  BY <1>2, FailRInv DEF Crypto, Errors
<1>3. QED
  BY <1>1, <1>2 DEF Crypto

(* The record output_tc builds is the one the spec asks for: the tcId    *)
(* and, for SHAKE, md_len * 8 = outLen.                                   *)
LEMMA OutputRInv == RInv /\ Output => RInv'
<1> SUFFICES ASSUME RInv, Output PROVE RInv'
  OBVIOUS
<1>1. /\ g \in 1..Len(vs.groups) /\ t \in 1..Len(Grp.tests)
      /\ r_tests = [n \in 1..t - 1 |-> ExpTest(n)]
      /\ Grp.testType # "MCT"
  BY DEF RInv, Output
<1>2. UNCHANGED <<vs, g, r_groups, emitted>>
  BY DEF Output
<1>3. CASE /\ r_tests' = Append(r_tests, TestRecord(Tst, vs.alg, stc.md_len))
           /\ t' = t + 1 /\ pc' = "test" /\ UNCHANGED status
  <2>1. TestRecord(Tst, vs.alg, stc.md_len) = ExpTest(t)
    <3>1. vs.alg = "SHAKE" => stc.md_len * 8 = Tst.outLen
      BY DEF RInv, Output
    <3>2. QED
      BY <1>1, <3>1, ExpTestDef DEF RInv, TestRecord, Tst
  <2>2. r_tests' = [n \in 1..t |-> ExpTest(n)]
    BY <1>1, <1>3, <2>1
  <2>3. QED
    BY <1>1, <1>2, <1>3, <2>2 DEF RInv, Exp, ExpTest, Grp, Tst
<1>4. CASE Fail("MALLOC_FAIL") /\ UNCHANGED <<r_tests, t>>
  BY <1>2, <1>4, FailRInv DEF Errors
<1>5. CASE Fail("DATA_CONV") /\ UNCHANGED <<r_tests, t>>
  BY <1>2, <1>5, FailRInv DEF Errors
<1>6. QED
  BY <1>3, <1>4, <1>5 DEF Output

(* A finished group (every test appended) is appended to the response.    *)
LEMMA GroupEndRInv == RInv /\ GroupEnd => RInv'
<1> SUFFICES ASSUME RInv, GroupEnd PROVE RInv'
  OBVIOUS
<1>1. g \in 1..Len(vs.groups) /\ t = Len(Grp.tests) + 1
  BY DEF RInv, GroupEnd
<1>2. r_tests = Exp[g].tests
  BY <1>1, ExpGroupDef DEF RInv, GroupEnd
<1>3. [tgId |-> Grp.tgId, tests |-> r_tests] = Exp[g]
  BY <1>1, <1>2, ExpGroupDef
<1>4. r_groups' = [k \in 1..g |-> Exp[k]]
  BY <1>3 DEF RInv, GroupEnd
<1>5. QED
  BY <1>1, <1>4 DEF GroupEnd, RInv, Exp, ExpTest, Grp, Tst

(* Serializing after the last group emits the whole response.             *)
LEMMA FinishRInv == RInv /\ Finish => RInv'
BY DEF Finish, RInv, Exp, ExpTest, Grp, Tst

LEMMA StutterRInv == RInv /\ (Returned \/ UNCHANGED vars) => RInv'
BY DEF Returned, vars, RInv, Exp, ExpTest, Grp, Tst

(* RInv holds in every state, for vector sets whose single-shot SHAKE     *)
(* tests ask for whole bytes.                                              *)
THEOREM ResponseInvariant == WholeByteOutLens => (Spec => []RInv)
<1> SUFFICES ASSUME WholeByteOutLens PROVE Spec => []RInv
  OBVIOUS
<1>1. Init => RInv
  BY InitRInv
<1>2. RInv /\ [Next]_vars => RInv'
  BY StartRInv, GroupStartRInv, TestStartRInv, CryptoRInv, OutputRInv,
     GroupEndRInv, FinishRInv, StutterRInv DEF Next
<1>3. QED
  BY <1>1, <1>2, PTL DEF Spec

(* The response kat_handler builds is, at every point, the first groups   *)
(* of the response spec 4.4 and 6 ask for, each with every test record in *)
(* order and echoing tgId, tcId and outLen, and a successful return emits *)
(* all of it (lines 510-772): the handler run checks the same on one      *)
(* instance.                                                               *)
THEOREM ResponseMirrors == WholeByteOutLens => (Spec => []ResponseMirrorsRequest)
<1>1. RInv => ResponseMirrorsRequest
  <2> SUFFICES ASSUME RInv PROVE ResponseMirrorsRequest
    OBVIOUS
  <2>1. Exp = [k \in 1..Len(vs.groups) |-> Exp[k]]
    BY DEF Exp, ExpectedResponse
  <2>2. Len(r_groups) = g - 1 /\ g - 1 <= Len(vs.groups)
    BY DEF RInv
  <2>3. r_groups = SubSeq(Exp, 1, Len(r_groups))
    BY <2>1, <2>2 DEF RInv
  <2>4. status = "done" => emitted = Exp
    <3> SUFFICES ASSUME status = "done" PROVE emitted = Exp
      OBVIOUS
    <3>1. emitted = [k \in 1..g - 1 |-> Exp[k]] /\ g - 1 = Len(vs.groups)
      BY DEF RInv
    <3>2. QED
      BY <2>1, <3>1
  <2>5. QED
    BY <2>2, <2>3, <2>4 DEF ResponseMirrorsRequest, Exp
<1>2. QED
  BY <1>1, ResponseInvariant, PTL
-----------------------------------------------------------------------------
(* The builds on which the handler's classifiers reject what they cannot *)
(* read: the compiler gives ACVP_HASH_MCT_VERSION a signed type, so -1 is *)
(* negative at line 583, and strcmp_s reports a NULL argument as a        *)
(* mismatch at line 411.  handler_accepts_invalid shows either failing.   *)
StrictBuild == EnumSigned = TRUE /\ NullIsEqual = FALSE

(* The vector sets whose lengths the handler's checks can decide: LDT    *)
(* contentLengths are whole bytes (line 631 compares them rounded down)   *)
(* and SHAKE MCT bounds are ordered (with minOutLen above maxOutLen the   *)
(* SHAKE MCT corrupts memory, shake_unchecked_bounds, and its outcome is  *)
(* not one of the handler's).                                             *)
DecidableLengths ==
    \A v \in VectorSets : \A k \in 1..Len(v.groups) :
        /\ v.groups[k].testType = "MCT" /\ v.alg = "SHAKE" =>
              v.groups[k].minOutLen <= v.groups[k].maxOutLen
        /\ v.groups[k].testType = "LDT" =>
              \A n \in 1..Len(v.groups[k].tests) :
                  v.groups[k].tests[n].contentLength % 8 = 0

(* Test n of the current group is one spec 4.1 admits.                    *)
TestOk(n) == SpecValidTest(Grp.tests[n], vs.alg, Grp.testType)

(* The inductive invariant behind AcceptsOnlyValid: every group the loop *)
(* has left, and every test of the current group it has passed (or is     *)
(* running), meets spec 4.1; a successful return has left every group.    *)
VInv ==
    /\ vs \in VectorSets
    /\ g \in 1..Len(vs.groups) + 1
    /\ t \in Nat \ {0}
    /\ pc \in {"start", "group", "test", "crypto", "output"}
    /\ status \in {"running", "done"} \cup Errors
    /\ pc # "start" => vs.alg \in Registered
    /\ \A k \in 1..Len(vs.groups) : k < g =>
          /\ SpecValidGroup(vs.groups[k], vs.alg)
          /\ \A n \in 1..Len(vs.groups[k].tests) :
                SpecValidTest(vs.groups[k].tests[n], vs.alg, vs.groups[k].testType)
    /\ pc \in {"test", "crypto", "output"} =>
          /\ g \in 1..Len(vs.groups)
          /\ SpecValidGroup(Grp, vs.alg)
          /\ \A n \in 1..Len(Grp.tests) : n < t => TestOk(n)
    /\ pc \in {"crypto", "output"} => t \in 1..Len(Grp.tests) /\ TestOk(t)
    /\ status = "done" => pc = "group" /\ g = Len(vs.groups) + 1
-----------------------------------------------------------------------------
(* The current group and test are a Group and a Test.                     *)
LEMMA CurrentTypes ==
    ASSUME vs \in VectorSets, g \in 1..Len(vs.groups)
    PROVE  /\ vs.alg \in Families \cup {"UNKNOWN"}
           /\ Grp \in Group
           /\ Grp.tests \in Seq(Test)
           /\ \A n \in 1..Len(Grp.tests) : Grp.tests[n] \in Test
<1>1. vs.groups \in Seq(Group) /\ vs.alg \in Families \cup {"UNKNOWN"}
  BY HandlerAssumption
<1>2. Grp \in Group
  BY <1>1 DEF Grp
<1>3. QED
  BY <1>1, <1>2 DEF Group

(* A group that passes lines 527-589 is one spec 4.1 admits.              *)
LEMMA GroupChecked ==
    ASSUME StrictBuild, DecidableLengths,
           vs \in VectorSets, g \in 1..Len(vs.groups),
           GroupError(Grp, vs.alg) = "none"
    PROVE  SpecValidGroup(Grp, vs.alg)
<1>1. Grp \in Group
  BY CurrentTypes
<1>2. Grp.tgId # 0 /\ Grp.testType \in {"AFT", "MCT", "VOT", "LDT"}
  BY <1>1 DEF GroupError, ReadTestType, Group
<1>3. Grp.testType = "VOT" => vs.alg = "SHAKE"
  BY <1>2 DEF GroupError
<1>4. Grp.testType = "MCT" /\ vs.alg = "SHAKE" =>
          /\ XOF_MD_BIT_MIN <= Grp.minOutLen /\ Grp.maxOutLen <= XOF_MD_BIT_MAX
          /\ Grp.minOutLen <= Grp.maxOutLen
  <2>1. Grp.testType = "MCT" /\ vs.alg = "SHAKE" => Grp.minOutLen <= Grp.maxOutLen
    BY DEF DecidableLengths, Grp
  <2>2. Grp.minOutLen \in Nat /\ Grp.maxOutLen \in Nat
        /\ XOF_MD_BIT_MIN \in Nat /\ XOF_MD_BIT_MAX \in Nat
    BY <1>1, HandlerAssumption DEF Group
  <2>3. Grp.testType = "MCT" /\ vs.alg = "SHAKE" =>
          ~(Grp.minOutLen < XOF_MD_BIT_MIN \/ Grp.maxOutLen > XOF_MD_BIT_MAX)
    BY <1>2 DEF GroupError
  <2>4. QED
    BY <2>1, <2>2, <2>3
<1>5. Grp.testType = "MCT" /\ vs.alg = "SHAKE" =>
          /\ XOF_MD_BIT_MIN <= Grp.minOutLen /\ Grp.minOutLen <= XOF_MD_BIT_MAX
          /\ XOF_MD_BIT_MIN <= Grp.maxOutLen /\ Grp.maxOutLen <= XOF_MD_BIT_MAX
  <2>1. Grp.minOutLen \in Nat /\ Grp.maxOutLen \in Nat
        /\ XOF_MD_BIT_MIN \in Nat /\ XOF_MD_BIT_MAX \in Nat
    BY <1>1, HandlerAssumption DEF Group
  <2>2. QED
    BY <1>4, <2>1
<1>6. Grp.testType = "MCT" /\ vs.alg # "SHAKE" =>
          Grp.mctVersion \in {"standard", "alternate"}
  BY <1>1, <1>2 DEF GroupError, StrictBuild, MctVersionNegative, ReadMctVersion, Group
<1>7. QED
  BY <1>2, <1>3, <1>5, <1>6 DEF SpecValidGroup

(* A test that passes lines 600-678 and decodes in acvp_hash_init_tc is   *)
(* one spec 4.1 admits.                                                   *)
LEMMA TestChecked ==
    ASSUME StrictBuild, DecidableLengths,
           vs \in VectorSets, g \in 1..Len(vs.groups), t \in 1..Len(Grp.tests),
           Grp.testType \in {"AFT", "MCT", "VOT", "LDT"},
           TestError(Tst, vs.alg, Grp.testType) = "none", ~DecodeFails(Tst)
    PROVE  TestOk(t)
<1> DEFINE tt == Grp.testType
<1>1. Tst \in Test
  BY CurrentTypes DEF Tst
<1>2. /\ Tst.hexLen \in Nat /\ Tst.contentLength \in Nat /\ Tst.outLen \in Nat
      /\ MSG_BYTE_MAX \in Nat /\ SHAKE_MSG_BYTE_MAX \in Nat
  BY <1>1, HandlerAssumption DEF Test
<1>3. Tst.hasMsg /\ Tst.hexOk /\ Tst.hexLen % 2 = 0
  <2>1. Tst.hasMsg
    BY Zenon DEF TestError
  <2>2. Tst.hexOk /\ Tst.hexLen % 2 = 0
    BY <1>2 DEF DecodeFails
  <2>3. QED
    BY <2>1, <2>2
<1>4. Tst.hexLen \div 2 <= (IF vs.alg = "SHAKE" THEN SHAKE_MSG_BYTE_MAX ELSE MSG_BYTE_MAX)
  <2>1. CASE tt = "LDT"
    BY <1>2, <2>1 DEF TestError, MSG_STR_MAX
  <2>2. CASE tt # "LDT"
    BY <1>2, <2>2 DEF TestError, MSG_STR_MAX, SHAKE_MSG_STR_MAX
  <2>3. QED
    BY <2>1, <2>2
<1>5. tt = "LDT" => Tst.contentLength = 8 * (Tst.hexLen \div 2) /\ Tst.exp = "repeating"
  <2> SUFFICES ASSUME tt = "LDT"
               PROVE  Tst.contentLength = 8 * (Tst.hexLen \div 2) /\ Tst.exp = "repeating"
    OBVIOUS
  <2>1. Tst.contentLength % 8 = 0
    BY DEF DecidableLengths, Tst, Grp
  <2>2. Tst.contentLength \div 8 = Tst.hexLen \div 2
    BY DEF TestError
  <2>3. Tst.exp = "repeating"
    BY DEF TestError, ReadExpMethod, StrictBuild
  <2>4. QED
    BY <1>2, <2>1, <2>2, <2>3
<1>6. vs.alg = "SHAKE" /\ tt # "MCT" => Tst.outLen \in XOF_MD_BIT_MIN..XOF_MD_BIT_MAX
  BY DEF TestError
<1>7. QED
  BY <1>3, <1>4, <1>5, <1>6 DEF TestOk, SpecValidTest, Tst
-----------------------------------------------------------------------------
LEMMA InitVInv == Init => VInv
BY HandlerAssumption DEF Init, VInv

LEMMA FailVInv ==
    ASSUME VInv, NEW code \in Errors, Fail(code), UNCHANGED <<vs, g, t>>
    PROVE  VInv'
BY DEF Fail, VInv, Errors, TestOk, Grp

LEMMA StartVInv == VInv /\ Start => VInv'
<1> SUFFICES ASSUME VInv, Start PROVE VInv'
  OBVIOUS
<1>1. CASE vs.alg \in Registered
  BY <1>1 DEF Start, VInv, TestOk, Grp
<1>2. CASE vs.alg \notin Registered
  BY <1>2, FailVInv DEF Start, Errors
<1>3. QED
  BY <1>1, <1>2

(* A group is entered only once lines 527-589 accepted it.                *)
LEMMA GroupStartVInv ==
    StrictBuild /\ DecidableLengths /\ VInv /\ GroupStart => VInv'
<1> SUFFICES ASSUME StrictBuild, DecidableLengths, VInv, GroupStart PROVE VInv'
  OBVIOUS
<1> DEFINE err == GroupError(Grp, vs.alg)
<1>1. CASE err = "none"
  <2>1. g \in 1..Len(vs.groups) /\ UNCHANGED <<vs, g>>
    BY DEF GroupStart, VInv
  <2>2. SpecValidGroup(Grp, vs.alg)
    BY <1>1, <2>1, GroupChecked DEF VInv
  <2>3. pc' = "test" /\ t' = 1 /\ status' = status /\ status = "running"
        /\ pc = "group"
    BY <1>1 DEF GroupStart
  <2>4. (pc \in {"test", "crypto", "output"} =>
          /\ g \in 1..Len(vs.groups)
          /\ SpecValidGroup(Grp, vs.alg)
          /\ \A n \in 1..Len(Grp.tests) : n < t => TestOk(n))'
    BY <2>1, <2>2, <2>3 DEF TestOk, Grp
  <2>5. (\A k \in 1..Len(vs.groups) : k < g =>
          /\ SpecValidGroup(vs.groups[k], vs.alg)
          /\ \A n \in 1..Len(vs.groups[k].tests) :
                SpecValidTest(vs.groups[k].tests[n], vs.alg, vs.groups[k].testType))'
    BY <2>1 DEF VInv
  <2>6. QED
    BY <2>1, <2>3, <2>4, <2>5 DEF VInv
<1>2. CASE err # "none"
  <2>1. err \in Errors
    BY <1>2 DEF GroupError, Errors
  <2>2. QED
    BY <1>2, <2>1, FailVInv DEF GroupStart
<1>3. QED
  BY <1>1, <1>2

(* A test goes on (to the crypto call, or as a finished MCT) only once    *)
(* lines 600-678 and the decoding in acvp_hash_init_tc accepted it.       *)
LEMMA TestStartVInv ==
    StrictBuild /\ DecidableLengths /\ VInv /\ TestStart => VInv'
<1> SUFFICES ASSUME StrictBuild, DecidableLengths, VInv, TestStart PROVE VInv'
  OBVIOUS
<1> DEFINE err == TestError(Tst, vs.alg, Grp.testType)
           tt == Grp.testType
<1>1. /\ g \in 1..Len(vs.groups) /\ t \in 1..Len(Grp.tests)
      /\ SpecValidGroup(Grp, vs.alg) /\ status = "running" /\ pc = "test"
  BY DEF VInv, TestStart
<1>2. UNCHANGED <<vs, g>>
  BY DEF TestStart
<1>3. err = "none" /\ ~DecodeFails(Tst) => TestOk(t)
  BY <1>1, TestChecked DEF VInv, SpecValidGroup
<1>4. err \in Errors \cup {"none"}
  BY DEF TestError, Errors
<1>5. CASE err = "none" /\ ~DecodeFails(Tst) /\ tt # "MCT"
        /\ pc' = "crypto" /\ UNCHANGED <<status, t>>
  BY <1>1, <1>2, <1>3, <1>5 DEF VInv, TestOk, Grp
<1>6. CASE err = "none" /\ ~DecodeFails(Tst) /\ tt = "MCT"
        /\ t' = t + 1 /\ UNCHANGED <<status, pc>>
  BY <1>1, <1>2, <1>3, <1>6 DEF VInv, TestOk, Grp
<1>7. CASE \E e \in Errors : Fail(e) /\ UNCHANGED t
  BY <1>2, <1>7, FailVInv
<1>8. QED
  <2>1. \/ \E e \in Errors : Fail(e) /\ UNCHANGED t
        \/ err = "none" /\ ~DecodeFails(Tst) /\ tt # "MCT"
           /\ pc' = "crypto" /\ UNCHANGED <<status, t>>
        \/ err = "none" /\ ~DecodeFails(Tst) /\ tt = "MCT"
           /\ t' = t + 1 /\ UNCHANGED <<status, pc>>
    BY <1>4 DEF TestStart, Errors, MctErrors
  <2>2. QED
    BY <2>1, <1>5, <1>6, <1>7

LEMMA CryptoVInv == VInv /\ Crypto => VInv'
<1> SUFFICES ASSUME VInv, Crypto PROVE VInv'
  OBVIOUS
<1>1. CASE pc' = "output" /\ UNCHANGED status
  BY <1>1 DEF Crypto, VInv, TestOk, Grp
<1>2. CASE Fail("CRYPTO_MODULE_FAIL")
  BY <1>2, FailVInv DEF Crypto, Errors
<1>3. QED
  BY <1>1, <1>2 DEF Crypto

LEMMA OutputVInv == VInv /\ Output => VInv'
<1> SUFFICES ASSUME VInv, Output PROVE VInv'
  OBVIOUS
<1>1. UNCHANGED <<vs, g>>
  BY DEF Output
<1>2. CASE t' = t + 1 /\ pc' = "test" /\ UNCHANGED status
  BY <1>1, <1>2 DEF Output, VInv, TestOk, Grp
<1>3. CASE Fail("MALLOC_FAIL") /\ UNCHANGED t
  BY <1>1, <1>3, FailVInv DEF Errors
<1>4. CASE Fail("DATA_CONV") /\ UNCHANGED t
  BY <1>1, <1>4, FailVInv DEF Errors
<1>5. QED
  BY <1>2, <1>3, <1>4 DEF Output

(* A group is left only after every one of its tests went through.        *)
LEMMA GroupEndVInv == VInv /\ GroupEnd => VInv'
<1> SUFFICES ASSUME VInv, GroupEnd PROVE VInv'
  OBVIOUS
<1>1. g \in 1..Len(vs.groups) /\ SpecValidGroup(Grp, vs.alg)
      /\ \A n \in 1..Len(Grp.tests) : TestOk(n)
  BY DEF VInv, GroupEnd
<1>2. QED
  BY <1>1 DEF GroupEnd, VInv, TestOk, Grp

LEMMA FinishVInv == VInv /\ Finish => VInv'
BY DEF Finish, VInv, TestOk, Grp

LEMMA StutterVInv == VInv /\ (Returned \/ UNCHANGED vars) => VInv'
BY DEF Returned, vars, VInv, TestOk, Grp

(* VInv holds in every state on a strict build, for vector sets whose     *)
(* lengths the checks can decide.                                         *)
THEOREM ValidationInvariant ==
    StrictBuild /\ DecidableLengths => (Spec => []VInv)
<1> SUFFICES ASSUME StrictBuild, DecidableLengths PROVE Spec => []VInv
  OBVIOUS
<1>1. Init => VInv
  BY InitVInv
<1>2. VInv /\ [Next]_vars => VInv'
  BY StartVInv, GroupStartVInv, TestStartVInv, CryptoVInv, OutputVInv,
     GroupEndVInv, FinishVInv, StutterVInv DEF Next
<1>3. QED
  BY <1>1, <1>2, PTL DEF Spec

(* kat_handler returns success only for a vector set spec 4.1 calls       *)
(* valid, on a build with a signed ACVP_HASH_MCT_VERSION and a strcmp_s   *)
(* that treats NULL as a mismatch, when LDT contentLengths are whole      *)
(* bytes and SHAKE MCT bounds are ordered: the handler run checks the     *)
(* same on one instance and handler_accepts_invalid shows each premise    *)
(* about the build is needed.                                             *)
THEOREM AcceptsValid ==
    StrictBuild /\ DecidableLengths => (Spec => []AcceptsOnlyValid)
<1>1. VInv => AcceptsOnlyValid
  BY DEF VInv, AcceptsOnlyValid, SpecValid
<1>2. QED
  BY <1>1, ValidationInvariant, PTL

(* On the same builds and vector sets, the single-shot crypto call is     *)
(* only ever made for a group and a test that spec 4.1 admits: the        *)
(* handler run checks the same on one instance.                           *)
THEOREM CryptoValidated ==
    StrictBuild /\ DecidableLengths => (Spec => CryptoOnValidTest)
<1> SUFFICES ASSUME StrictBuild, DecidableLengths PROVE Spec => CryptoOnValidTest
  OBVIOUS
<1>1. VInv /\ Crypto => SpecValidGroup(Grp, vs.alg) /\ SpecValidTest(Tst, vs.alg, Grp.testType)
  BY DEF VInv, Crypto, TestOk, Tst
<1>2. QED
  BY <1>1, ValidationInvariant, PTL DEF CryptoOnValidTest
=============================================================================
