----------------------------- MODULE HashHandler -----------------------------
(***************************************************************************)
(* The vector-set handler of src/acvp_hash.c, acvp_hash_kat_handler       *)
(* (lines 427-785), with the classifiers it calls (lines 379-426), the    *)
(* test context it sizes (acvp_hash_init_tc, lines 821-912), the          *)
(* single-shot AFT/VOT/LDT path and its output (acvp_hash_output_tc,      *)
(* lines 787-819).                                                         *)
(*                                                                         *)
(* The handler walks the groups and the tests of one vector set in order. *)
(* A message is abstracted to its hex length and whether it is well-      *)
(* formed hex; a digest to its length.  An MCT is one step whose outcome  *)
(* is a success or one of the MCT error codes: the MCT modules show that  *)
(* each MCT implements that contract (MCTResults).  Failures of calloc    *)
(* and of the crypto module are nondeterministic.                         *)
(***************************************************************************)
EXTENDS Naturals, Sequences, HashCommon

CONSTANTS
    MD_LEN,             \* digest length of the fixed-output ciphers, bytes
    MD_BYTE_MAX,        \* ACVP_HASH_MD_BYTE_MAX
    MSG_BYTE_MAX,       \* ACVP_HASH_MSG_BYTE_MAX
    SHAKE_MSG_BYTE_MAX, \* ACVP_SHAKE_MSG_BYTE_MAX
    XOF_MD_BIT_MIN,     \* ACVP_HASH_XOF_MD_BIT_MIN
    XOF_MD_BIT_MAX,     \* ACVP_HASH_XOF_MD_BIT_MAX
    EnumSigned,         \* the compiler gives ACVP_HASH_MCT_VERSION a signed type
    NullIsEqual,        \* strcmp_s(d, n, NULL, &diff) leaves diff = 0 (safeclib)
    Registered,         \* the cipher families with a capability entry
    VectorSets          \* the vector sets the server may send

Families == {"SHA", "SHA3", "SHAKE"}   \* SHA-1/SHA-2, SHA-3, SHAKE ciphers
MD_STR_MAX == 2 * MD_BYTE_MAX
MSG_STR_MAX == 2 * MSG_BYTE_MAX
SHAKE_MSG_STR_MAX == 2 * SHAKE_MSG_BYTE_MAX
XOF_MD_BYTE_MAX == XOF_MD_BIT_MAX \div 8
XOF_MD_STR_MAX == XOF_MD_BIT_MAX \div 4

(* A test: "tcId", "msg" (or "largeMsg".content) as hex, "outLen", and    *)
(* the LDT fields "contentLength" and "expansionTechnique".               *)
Test == [tcId : Nat, hasMsg : BOOLEAN, hexLen : Nat, hexOk : BOOLEAN,
         outLen : Nat, contentLength : Nat, exp : {"repeating", "other", "NONE"}]
(* A group: a missing number reads as 0, a missing string as "NONE".      *)
Group == [tgId : Nat, testType : {"AFT", "MCT", "VOT", "LDT", "NONE", "BAD"},
          minOutLen : Nat, maxOutLen : Nat,
          mctVersion : {"standard", "alternate", "other", "NONE"},
          tests : Seq(Test)]

ASSUME HandlerAssumption ==
    /\ MD_LEN \in 1..MD_BYTE_MAX
    /\ {MD_BYTE_MAX, MSG_BYTE_MAX, SHAKE_MSG_BYTE_MAX, XOF_MD_BIT_MAX} \subseteq Nat
    /\ XOF_MD_BIT_MIN \in 1..XOF_MD_BIT_MAX
    /\ EnumSigned \in BOOLEAN /\ NullIsEqual \in BOOLEAN
    /\ Registered \subseteq Families
    /\ VectorSets \subseteq [alg : Families \cup {"UNKNOWN"}, groups : Seq(Group)]

(* How the build's buffer sizes relate (acvp_hash.h is not in the        *)
(* repository): the fixed-output digest buffer is no larger than the      *)
(* message and XOF digest buffers, and the XOF bound is whole bytes.      *)
ASSUME BufferSizeAssumption ==
    /\ MD_BYTE_MAX <= MSG_BYTE_MAX
    /\ MD_BYTE_MAX <= XOF_MD_BYTE_MAX
    /\ XOF_MD_BIT_MAX % 8 = 0

VARIABLES
    vs,           \* the vector set (obj)
    g,            \* group index i
    t,            \* test index j
    pc,           \* where the handler is: "start", "group", "test", "crypto", "output"
    mct_version,  \* the handler's local mct_version (declared uninitialized)
    stc,          \* the live test context
    r_tests,      \* r_tarr: the tests of the group being built
    r_groups,     \* r_garr: the groups of the response built so far
    emitted,      \* what the handler leaves in ctx->kat_resp for the transport
    status        \* "running", "done", or the ACVP_RESULT of an error

vars == <<vs, g, t, pc, mct_version, stc, r_tests, r_groups, emitted, status>>

Errors == {"MALFORMED_JSON", "UNSUPPORTED_OP", "MISSING_ARG",
           "INVALID_ARG", "TC_MISSING_DATA", "TC_INVALID_DATA", "MALLOC_FAIL",
           "DATA_CONV", "CRYPTO_MODULE_FAIL", "INTERNAL_ERR"}
(* What an MCT may return (ShaMCT, Sha3MCT, ShakeMCT).                    *)
MctErrors == {"CRYPTO_MODULE_FAIL", "INTERNAL_ERR", "MALLOC_FAIL", "DATA_CONV"}
NoStc == [cap |-> 0, xof_len |-> 0, md_len |-> 0, mode |-> "uninit"]
-----------------------------------------------------------------------------
Grp == vs.groups[g]
Tst == Grp.tests[t]

(* read_test_type (lines 379-403): 0 for an unknown tag.                  *)
ReadTestType(s) == IF s \in {"AFT", "MCT", "VOT", "LDT"} THEN s ELSE "none"

(* read_exp_method (lines 405-414) on json_object_get_string's result,   *)
(* NULL for a missing "expansionTechnique": strcmp_s reports a match when *)
(* it zeroes diff before rejecting the NULL argument.                      *)
ReadExpMethod(s) ==
    IF s = "repeating" \/ (s = "NONE" /\ NullIsEqual) THEN "repeating" ELSE "none"

(* read_mct_version (lines 416-425): -1 for an unknown tag.               *)
ReadMctVersion(s) == IF s \in {"standard", "alternate"} THEN s ELSE "minus1"

(* Line 583: mct_version < 0, which holds for -1 only if the enum is a    *)
(* signed type; otherwise -1 is converted to UINT_MAX and passes.         *)
MctVersionNegative(v) == v = "minus1" /\ EnumSigned

(* Mutant of GroupError: the check that VOT is for SHAKE only is missing. *)
GroupErrorNoVot(gr, alg) ==
    IF gr.tgId = 0 THEN "MALFORMED_JSON"
    ELSE IF gr.testType = "NONE" THEN "MISSING_ARG"
    ELSE IF ReadTestType(gr.testType) = "none" THEN "INVALID_ARG"
    ELSE IF gr.testType = "MCT" /\ alg = "SHAKE"
            /\ (gr.minOutLen < XOF_MD_BIT_MIN \/ gr.maxOutLen > XOF_MD_BIT_MAX)
         THEN "INVALID_ARG"
    ELSE IF gr.testType = "MCT" /\ alg # "SHAKE" /\ gr.mctVersion = "NONE"
         THEN "TC_MISSING_DATA"
    ELSE IF gr.testType = "MCT" /\ alg # "SHAKE"
            /\ MctVersionNegative(ReadMctVersion(gr.mctVersion))
         THEN "TC_INVALID_DATA"
    ELSE "none"

(* Lines 527-589: the checks of a group, in the code's order.             *)
GroupError(gr, alg) ==
    IF gr.tgId = 0 THEN "MALFORMED_JSON"
    ELSE IF gr.testType = "NONE" THEN "MISSING_ARG"
    ELSE IF ReadTestType(gr.testType) = "none" THEN "INVALID_ARG"
    ELSE IF gr.testType = "VOT" /\ alg # "SHAKE" THEN "INVALID_ARG"
    ELSE IF gr.testType = "MCT" /\ alg = "SHAKE"
            /\ (gr.minOutLen < XOF_MD_BIT_MIN \/ gr.maxOutLen > XOF_MD_BIT_MAX)
         THEN "INVALID_ARG"
    ELSE IF gr.testType = "MCT" /\ alg # "SHAKE" /\ gr.mctVersion = "NONE"
         THEN "TC_MISSING_DATA"
    ELSE IF gr.testType = "MCT" /\ alg # "SHAKE"
            /\ MctVersionNegative(ReadMctVersion(gr.mctVersion))
         THEN "TC_INVALID_DATA"
    ELSE "none"

(* Mutant of TestError: the SHAKE outLen range check is missing.          *)
TestErrorNoOutLenRange(ts, alg, tt) ==
    IF tt = "LDT" THEN
        IF alg = "SHAKE" THEN "INVALID_ARG"
        ELSE IF ~ts.hasMsg THEN "MISSING_ARG"
        ELSE IF ts.hexLen > MSG_STR_MAX THEN "INVALID_ARG"
        ELSE IF ts.contentLength \div 8 # ts.hexLen \div 2 THEN "INVALID_ARG"
        ELSE IF ReadExpMethod(ts.exp) # "repeating" THEN "INVALID_ARG"
        ELSE "none"
    ELSE IF ~ts.hasMsg THEN "MISSING_ARG"
    ELSE IF ts.hexLen > (IF alg = "SHAKE" THEN SHAKE_MSG_STR_MAX ELSE MSG_STR_MAX)
         THEN "INVALID_ARG"
    ELSE "none"

(* Lines 600-678: the checks of a test, in the code's order.              *)
TestError(ts, alg, tt) ==
    IF tt = "LDT" THEN
        IF alg = "SHAKE" THEN "INVALID_ARG"
        ELSE IF ~ts.hasMsg THEN "MISSING_ARG"
        ELSE IF ts.hexLen > MSG_STR_MAX THEN "INVALID_ARG"
        ELSE IF ts.contentLength \div 8 # ts.hexLen \div 2 THEN "INVALID_ARG"
        ELSE IF ReadExpMethod(ts.exp) # "repeating" THEN "INVALID_ARG"
        ELSE "none"
    ELSE IF ~ts.hasMsg THEN "MISSING_ARG"
    ELSE IF ts.hexLen > (IF alg = "SHAKE" THEN SHAKE_MSG_STR_MAX ELSE MSG_STR_MAX)
         THEN "INVALID_ARG"
    ELSE IF alg = "SHAKE" /\ tt # "MCT"
            /\ ts.outLen \notin XOF_MD_BIT_MIN..XOF_MD_BIT_MAX
         THEN "INVALID_ARG"
    ELSE "none"

(* Mutant of MdCap: a VOT test gets the fixed-output digest buffer.       *)
MdCapVotSmall(alg, tt) ==
    IF tt \in {"AFT", "LDT", "VOT"} THEN MD_BYTE_MAX
    ELSE IF alg = "SHA3" THEN MD_BYTE_MAX
    ELSE IF alg = "SHAKE" THEN XOF_MD_BYTE_MAX
    ELSE MSG_BYTE_MAX

(* acvp_hash_init_tc, lines 848-885: the size of stc->md.                 *)
MdCap(alg, tt) ==
    IF tt \in {"AFT", "LDT"} THEN MD_BYTE_MAX
    ELSE IF tt = "VOT" THEN XOF_MD_BYTE_MAX
    ELSE IF alg = "SHA3" THEN MD_BYTE_MAX
    ELSE IF alg = "SHAKE" THEN XOF_MD_BYTE_MAX
    ELSE MSG_BYTE_MAX

(* Lines 886-894: acvp_hexstr_to_bin fails on malformed or odd-length hex *)
(* (the length was checked against the capacity before).                  *)
DecodeFails(ts) == ~ts.hexOk \/ ts.hexLen % 2 = 1

(* acvp_hash_output_tc, lines 787-819: the record of a single-shot test.  *)
OutputStrCap(tt) == IF tt = "VOT" THEN XOF_MD_STR_MAX ELSE MD_STR_MAX
OutputFits == 2 * stc.md_len <= OutputStrCap(Grp.testType)
(* Mutant of TestRecord: no outLen field for SHAKE.                       *)
TestRecordNoOutLen(ts, alg, mdLen) == [tcId |-> ts.tcId, outLen |-> 0]

TestRecord(ts, alg, mdLen) ==
    [tcId |-> ts.tcId, outLen |-> IF alg = "SHAKE" THEN mdLen * 8 ELSE 0]
-----------------------------------------------------------------------------
Init ==
    /\ vs \in VectorSets
    /\ g = 1
    /\ t = 1
    /\ pc = "start"
    /\ mct_version = "uninit"
    /\ stc = NoStc
    /\ r_tests = <<>>
    /\ r_groups = <<>>
    /\ emitted = <<>>
    /\ status = "running"

(* An error return: rv is set, the context is released (lines 709, 731, *)
(* 739, 751) and so is the partial response (lines 774-778).              *)
Fail(code) == status' = code /\ stc' = NoStc /\ UNCHANGED pc

(* Lines 467-506: the algorithm must name a registered capability.        *)
Start ==
    /\ status = "running" /\ pc = "start"
    /\ IF vs.alg \in Registered
       THEN pc' = "group" /\ UNCHANGED <<status, stc>>
       ELSE Fail("UNSUPPORTED_OP")
    /\ UNCHANGED <<vs, g, t, mct_version, r_tests, r_groups, emitted>>

(* Lines 510-589: open the response group (r_gval with an empty tests    *)
(* array) and check the group; a non-SHAKE MCT group sets mct_version.    *)
GroupStart ==
    /\ status = "running" /\ pc = "group"
    /\ g <= Len(vs.groups)
    /\ LET err == GroupError(Grp, vs.alg) IN
          IF err = "none"
          THEN /\ pc' = "test"
               /\ t' = 1
               /\ r_tests' = <<>>
               /\ mct_version' =
                     IF Grp.testType = "MCT" /\ vs.alg # "SHAKE"
                     THEN ReadMctVersion(Grp.mctVersion) ELSE mct_version
               /\ UNCHANGED <<status, stc>>
          ELSE Fail(err) /\ UNCHANGED <<t, r_tests, mct_version>>
    /\ UNCHANGED <<vs, g, r_groups, emitted>>

(* Lines 594-712: check the test, then acvp_hash_init_tc (lines 821-912) *)
(* zeroes stc, allocates its buffers (any calloc may fail), decodes the   *)
(* message and sets the lengths.  An MCT then runs to its outcome         *)
(* (lines 714-734); a single-shot test goes on to the crypto call.        *)
TestStart ==
    /\ status = "running" /\ pc = "test"
    /\ t <= Len(Grp.tests)
    /\ LET err == TestError(Tst, vs.alg, Grp.testType)
           tt == Grp.testType
           ctx == [cap |-> MdCap(vs.alg, tt),
                   xof_len |-> IF vs.alg = "SHAKE" /\ tt # "MCT"
                               THEN (Tst.outLen + 7) \div 8 ELSE 0,
                   md_len |-> 0,
                   mode |-> IF tt = "MCT" THEN mct_version ELSE "uninit"]
       IN  \/ err # "none" /\ Fail(err) /\ UNCHANGED <<r_tests, t>>
           \/ err = "none" /\ Fail("MALLOC_FAIL") /\ UNCHANGED <<r_tests, t>>
           \/ /\ err = "none" /\ DecodeFails(Tst)
              /\ Fail("DATA_CONV") /\ UNCHANGED <<r_tests, t>>
           \/ /\ err = "none" /\ ~DecodeFails(Tst) /\ tt # "MCT"
              /\ stc' = ctx /\ pc' = "crypto"
              /\ UNCHANGED <<status, r_tests, t>>
           \/ /\ err = "none" /\ ~DecodeFails(Tst) /\ tt = "MCT"
              /\ \/ /\ r_tests' = Append(r_tests, [tcId |-> Tst.tcId, outLen |-> 0])
                    /\ t' = t + 1
                    /\ stc' = NoStc
                    /\ UNCHANGED <<status, pc>>
                 \/ \E e \in MctErrors : Fail(e) /\ UNCHANGED <<r_tests, t>>
    /\ UNCHANGED <<vs, g, mct_version, r_groups, emitted>>

(* Lines 735-743: the crypto module writes the digest into stc->md: the  *)
(* requested xof_len bytes for SHAKE, MD_LEN bytes otherwise.             *)
Crypto ==
    /\ status = "running" /\ pc = "crypto"
    /\ \/ stc' = [stc EXCEPT !.md_len = IF vs.alg = "SHAKE" THEN stc.xof_len
                                                           ELSE MD_LEN]
          /\ pc' = "output" /\ UNCHANGED status
       \/ Fail("CRYPTO_MODULE_FAIL")
    /\ UNCHANGED <<vs, g, t, mct_version, r_tests, r_groups, emitted>>

(* Lines 744-762: acvp_hash_output_tc, release the context, append the   *)
(* test's record to the group.                                             *)
Output ==
    /\ status = "running" /\ pc = "output"
    /\ \/ /\ OutputFits
          /\ r_tests' = Append(r_tests, TestRecord(Tst, vs.alg, stc.md_len))
          /\ t' = t + 1
          /\ pc' = "test"
          /\ stc' = NoStc
          /\ UNCHANGED status
       \/ Fail("MALLOC_FAIL") /\ UNCHANGED <<r_tests, t>>
       \/ ~OutputFits /\ Fail("DATA_CONV") /\ UNCHANGED <<r_tests, t>>
    /\ UNCHANGED <<vs, g, mct_version, r_groups, emitted>>

(* Line 764: the finished group is appended to the response.              *)
GroupEnd ==
    /\ status = "running" /\ pc = "test"
    /\ t > Len(Grp.tests)
    /\ r_groups' = Append(r_groups, [tgId |-> Grp.tgId, tests |-> r_tests])
    /\ g' = g + 1
    /\ pc' = "group"
    /\ UNCHANGED <<vs, t, mct_version, stc, r_tests, emitted, status>>

(* Lines 767-772: the vector-set response is appended and serialized.     *)
Finish ==
    /\ status = "running" /\ pc = "group"
    /\ g > Len(vs.groups)
    /\ emitted' = r_groups
    /\ status' = "done"
    /\ UNCHANGED <<vs, g, t, pc, mct_version, stc, r_tests, r_groups>>

Returned == status # "running" /\ UNCHANGED vars

Next == Start \/ GroupStart \/ TestStart \/ Crypto \/ Output \/ GroupEnd
        \/ Finish \/ Returned

Spec == Init /\ [][Next]_vars
-----------------------------------------------------------------------------
(* What spec 4.1 requires of a vector set that is processed to the end:   *)
(* a registered algorithm, every group well-formed for it (a recognized   *)
(* test type, VOT only for SHAKE, SHAKE MCT bounds present and within the *)
(* global XOF bounds, a recognized mctVersion otherwise) and every test   *)
(* with well-formed hex of allowed length, a matching LDT content length  *)
(* and technique, and an in-bounds outLen for non-MCT SHAKE tests.        *)
SpecValidGroup(gr, alg) ==
    /\ gr.tgId # 0
    /\ gr.testType \in {"AFT", "MCT", "VOT", "LDT"}
    /\ gr.testType = "VOT" => alg = "SHAKE"
    /\ gr.testType = "MCT" /\ alg = "SHAKE" =>
          XOF_MD_BIT_MIN <= gr.minOutLen /\ gr.minOutLen <= XOF_MD_BIT_MAX
          /\ XOF_MD_BIT_MIN <= gr.maxOutLen /\ gr.maxOutLen <= XOF_MD_BIT_MAX
    /\ gr.testType = "MCT" /\ alg # "SHAKE" =>
          gr.mctVersion \in {"standard", "alternate"}
SpecValidTest(ts, alg, tt) ==
    /\ ts.hasMsg /\ ts.hexOk /\ ts.hexLen % 2 = 0
    /\ ts.hexLen \div 2 <= (IF alg = "SHAKE" THEN SHAKE_MSG_BYTE_MAX ELSE MSG_BYTE_MAX)
    /\ tt = "LDT" => ts.contentLength = 8 * (ts.hexLen \div 2) /\ ts.exp = "repeating"
    /\ alg = "SHAKE" /\ tt # "MCT" => ts.outLen \in XOF_MD_BIT_MIN..XOF_MD_BIT_MAX
SpecValid(v) ==
    /\ v.alg \in Registered
    /\ \A k \in 1..Len(v.groups) :
          /\ SpecValidGroup(v.groups[k], v.alg)
          /\ \A n \in 1..Len(v.groups[k].tests) :
                SpecValidTest(v.groups[k].tests[n], v.alg, v.groups[k].testType)

(* The handler returns success only for a vector set that spec 4.1 calls *)
(* valid: every validation the spec asks for is made somewhere between    *)
(* the group checks (lines 527-589), the test checks (600-678), the       *)
(* decoding in acvp_hash_init_tc and the MCT dispatch.                     *)
AcceptsOnlyValid == status = "done" => SpecValid(vs)

(* The response the spec asks for (spec 4.4, 6): the groups in document  *)
(* order, each with its tests in order, echoing tgId and tcId; a          *)
(* single-shot SHAKE record carries the requested outLen.                 *)
ExpectedResponse(v) ==
    [k \in 1..Len(v.groups) |->
        [tgId |-> v.groups[k].tgId,
         tests |-> [n \in 1..Len(v.groups[k].tests) |->
                      [tcId |-> v.groups[k].tests[n].tcId,
                       outLen |-> IF v.alg = "SHAKE" /\ v.groups[k].testType # "MCT"
                                  THEN v.groups[k].tests[n].outLen ELSE 0]]]]

(* The response groups built so far are the first groups of that         *)
(* response, and a successful run emits all of it: the group and test     *)
(* arrays are recreated and appended at the right points of the loops     *)
(* and every record reports what was asked.                                *)
ResponseMirrorsRequest ==
    /\ Len(r_groups) <= Len(vs.groups)
    /\ r_groups = SubSeq(ExpectedResponse(vs), 1, Len(r_groups))
    /\ status = "done" => emitted = ExpectedResponse(vs)

(* The single-shot crypto call (lines 735-743) is only ever made for a   *)
(* group and a test that spec 4.1 admits: the checks of lines 527-589 and *)
(* 600-678 and the decoding in acvp_hash_init_tc, made steps earlier, let *)
(* nothing else through to the crypto module.                              *)
CryptoOnValidTest ==
    [][Crypto => SpecValidGroup(Grp, vs.alg) /\ SpecValidTest(Tst, vs.alg, Grp.testType)]_vars

(* The crypto module never writes more digest bytes than the test        *)
(* context's md buffer holds: the buffer acvp_hash_init_tc sizes by test  *)
(* type (lines 848-885) must fit the length the handler accepted for the  *)
(* test (lines 668-676).                                                   *)
DigestFitsBuffer == stc.md_len <= stc.cap
=============================================================================
