-------------------------- MODULE HashHandlerProofs --------------------------
(***************************************************************************)
(* Proofs about the vector-set handler (HashHandler): for every instance  *)
(* of the buffer sizes, as long as no SHAKE AFT test asks for more output *)
(* than the fixed-output digest buffer holds, the crypto module of a      *)
(* single-shot test never writes past stc->md.                            *)
(***************************************************************************)
EXTENDS HashHandler, TLAPS

(* The vector sets whose SHAKE AFT tests ask for at most                  *)
(* ACVP_HASH_MD_BYTE_MAX bytes: acvp_hash_init_tc gives every AFT test an *)
(* md buffer of that size (line 851), while the handler admits any outLen *)
(* up to ACVP_HASH_XOF_MD_BIT_MAX (lines 668-676).                         *)
ShortAftLengths ==
    \A v \in VectorSets : v.alg = "SHAKE" =>
        \A k \in 1..Len(v.groups) : v.groups[k].testType = "AFT" =>
            \A n \in 1..Len(v.groups[k].tests) :
                v.groups[k].tests[n].outLen <= 8 * MD_BYTE_MAX

Modes == {"uninit", "standard", "alternate", "minus1"}
StcType == [cap : Nat, xof_len : Nat, md_len : Nat, mode : Modes]

(* The digest length the crypto module writes for the live context.       *)
Written == IF vs.alg = "SHAKE" THEN stc.xof_len ELSE MD_LEN

(* The inductive invariant.  Between init_tc and the crypto call the      *)
(* requested length already fits the buffer; that is what the crypto     *)
(* step needs and DigestFitsBuffer does not state.                        *)
IInv ==
    /\ vs \in VectorSets
    /\ g \in Nat \ {0}
    /\ t \in Nat \ {0}
    /\ pc \in {"start", "group", "test", "crypto", "output"}
    /\ status \in {"running", "done"} \cup Errors
    /\ mct_version \in Modes
    /\ stc \in StcType
    /\ pc \in {"test", "crypto", "output"} => g \in 1..Len(vs.groups)
    /\ (pc = "crypto" /\ status = "running") => Written <= stc.cap
    /\ DigestFitsBuffer
-----------------------------------------------------------------------------
LEMMA NoStcType == NoStc \in StcType /\ NoStc.md_len <= NoStc.cap
BY DEF NoStc, StcType, Modes

(* Rounding a bit length up to bytes stays within a whole-byte bound.   *)
LEMMA BytesOfBits ==
    \A x, m \in Nat : x <= 8 * m => (x + 7) \div 8 <= m
OBVIOUS

(* The XOF bound in bytes, times eight, is the bound in bits.            *)
LEMMA XofWholeBytes == XOF_MD_BIT_MAX = 8 * XOF_MD_BYTE_MAX /\ XOF_MD_BYTE_MAX \in Nat
BY HandlerAssumption, BufferSizeAssumption DEF XOF_MD_BYTE_MAX

(* A test of a vector set is a Test of a Group.                           *)
LEMMA TestOfSet ==
    ASSUME NEW v \in VectorSets, NEW k \in 1..Len(v.groups),
           NEW n \in 1..Len(v.groups[k].tests)
    PROVE  /\ v.alg \in Families \cup {"UNKNOWN"}
           /\ v.groups[k] \in Group
           /\ v.groups[k].tests[n] \in Test
<1>1. v.groups \in Seq(Group) /\ v.alg \in Families \cup {"UNKNOWN"}
  BY HandlerAssumption
<1>2. v.groups[k] \in Group
  BY <1>1
<1>3. v.groups[k].tests \in Seq(Test)
  BY <1>2 DEF Group
<1>4. QED
  BY <1>1, <1>2, <1>3

(* The capacity acvp_hash_init_tc gives md is one of the three sizes.     *)
LEMMA MdCapNat ==
    ASSUME NEW alg, NEW tt
    PROVE  MdCap(alg, tt) \in {MD_BYTE_MAX, XOF_MD_BYTE_MAX, MSG_BYTE_MAX}
BY DEF MdCap

(* The key step: for a single-shot test that passed the handler's checks, *)
(* the length the crypto module will write fits the md buffer init_tc     *)
(* allocates for the test type.                                            *)
LEMMA CtxFits ==
    ASSUME ShortAftLengths,
           NEW v \in VectorSets, NEW k \in 1..Len(v.groups),
           NEW n \in 1..Len(v.groups[k].tests),
           TestError(v.groups[k].tests[n], v.alg, v.groups[k].testType) = "none",
           v.groups[k].testType # "MCT"
    PROVE  (IF v.alg = "SHAKE" THEN (v.groups[k].tests[n].outLen + 7) \div 8
                               ELSE MD_LEN)
              <= MdCap(v.alg, v.groups[k].testType)
<1> DEFINE ts == v.groups[k].tests[n]
           tt == v.groups[k].testType
<1>1. ts \in Test /\ v.groups[k] \in Group
  BY TestOfSet
<1>2. ts.outLen \in Nat /\ tt \in {"AFT", "MCT", "VOT", "LDT", "NONE", "BAD"}
  BY <1>1 DEF Test, Group
<1>3. CASE v.alg = "SHAKE"
  <2>1. tt # "LDT"
    BY <1>3 DEF TestError
  <2>2. ts.outLen \in XOF_MD_BIT_MIN..XOF_MD_BIT_MAX
    BY <1>3, <2>1 DEF TestError
  <2>3. CASE tt = "AFT"
    <3>1. ts.outLen <= 8 * MD_BYTE_MAX
      BY <1>3, <2>3 DEF ShortAftLengths
    <3>2. (ts.outLen + 7) \div 8 <= MD_BYTE_MAX
      BY <1>2, <3>1, HandlerAssumption, BytesOfBits
    <3>3. MdCap(v.alg, tt) = MD_BYTE_MAX
      BY <2>3 DEF MdCap
    <3>4. QED
      BY <1>3, <3>2, <3>3
  <2>4. CASE tt # "AFT"
    <3>1. MdCap(v.alg, tt) = XOF_MD_BYTE_MAX
      BY <1>3, <2>1, <2>4 DEF MdCap
    <3>2. (ts.outLen + 7) \div 8 <= XOF_MD_BYTE_MAX
      BY <1>2, <2>2, XofWholeBytes, BytesOfBits
    <3>3. QED
      BY <1>3, <3>1, <3>2
  <2>5. QED
    BY <2>3, <2>4
<1>4. CASE v.alg # "SHAKE"
  <2>1. MD_LEN <= MdCap(v.alg, tt)
    BY MdCapNat, HandlerAssumption, BufferSizeAssumption DEF XOF_MD_BYTE_MAX
  <2>2. QED
    BY <1>4, <2>1
<1>5. QED
  BY <1>3, <1>4
-----------------------------------------------------------------------------
(* The initial state: no context is live (NoStc).                          *)
LEMMA InitIInv == Init => IInv
BY NoStcType DEF Init, IInv, DigestFitsBuffer, Modes

(* A failure return releases the context (lines 709, 731, 739, 751).      *)
LEMMA FailIInv ==
    ASSUME IInv, NEW code \in Errors, Fail(code),
           UNCHANGED <<vs, g, t, mct_version>>
    PROVE  IInv'
BY NoStcType DEF Fail, IInv, DigestFitsBuffer, Errors

LEMMA StartIInv == IInv /\ Start => IInv'
<1> SUFFICES ASSUME IInv, Start PROVE IInv'
  OBVIOUS
<1>1. CASE vs.alg \in Registered
  BY <1>1 DEF Start, IInv, DigestFitsBuffer, Written
<1>2. CASE vs.alg \notin Registered
  BY <1>2, FailIInv DEF Start, Errors
<1>3. QED
  BY <1>1, <1>2

LEMMA GroupStartIInv == IInv /\ GroupStart => IInv'
<1> SUFFICES ASSUME IInv, GroupStart PROVE IInv'
  OBVIOUS
<1> DEFINE err == GroupError(Grp, vs.alg)
<1>1. CASE err = "none"
  <2>1. ReadMctVersion(Grp.mctVersion) \in Modes
    BY DEF ReadMctVersion, Modes
  <2>2. QED
    BY <1>1, <2>1 DEF GroupStart, IInv, DigestFitsBuffer, Written
<1>2. CASE err # "none"
  <2>1. err \in Errors
    BY <1>2 DEF GroupError, Errors
  <2>2. QED
    BY <1>2, <2>1, FailIInv DEF GroupStart
<1>3. QED
  BY <1>1, <1>2

LEMMA TestStartIInv == ShortAftLengths /\ IInv /\ TestStart => IInv'
<1> SUFFICES ASSUME ShortAftLengths, IInv, TestStart PROVE IInv'
  OBVIOUS
<1> DEFINE err == TestError(Tst, vs.alg, Grp.testType)
           tt == Grp.testType
           ctx == [cap |-> MdCap(vs.alg, tt),
                   xof_len |-> IF vs.alg = "SHAKE" /\ tt # "MCT"
                               THEN (Tst.outLen + 7) \div 8 ELSE 0,
                   md_len |-> 0,
                   mode |-> IF tt = "MCT" THEN mct_version ELSE "uninit"]
<1>1. g \in 1..Len(vs.groups) /\ t \in 1..Len(Grp.tests)
  BY DEF IInv, TestStart
<1>2. Tst \in Test
  BY <1>1, TestOfSet DEF IInv, Tst, Grp
<1>3. err \in Errors \cup {"none"}
  BY DEF TestError, Errors
<1>4. CASE err = "none" /\ ~DecodeFails(Tst) /\ tt # "MCT"
        /\ stc' = ctx /\ pc' = "crypto" /\ UNCHANGED <<status, r_tests, t>>
  <2>1. MdCap(vs.alg, tt) \in Nat
    BY MdCapNat, HandlerAssumption, XofWholeBytes
  <2>2. ctx \in StcType
    BY <1>2, <1>4, <2>1 DEF Test, StcType, Modes
  <2>3. (IF vs.alg = "SHAKE" THEN (Tst.outLen + 7) \div 8 ELSE MD_LEN)
          <= MdCap(vs.alg, tt)
    <3>1. /\ TestError(vs.groups[g].tests[t], vs.alg, vs.groups[g].testType) = "none"
          /\ vs.groups[g].testType # "MCT"
      BY <1>4 DEF Tst, Grp
    <3>2. vs \in VectorSets /\ g \in 1..Len(vs.groups)
          /\ t \in 1..Len(vs.groups[g].tests)
      BY <1>1 DEF IInv, Grp
    <3>3. QED
      BY <3>1, <3>2, CtxFits DEF Tst, Grp
  <2>4. (IF vs.alg = "SHAKE" THEN ctx.xof_len ELSE MD_LEN) <= ctx.cap
    BY <1>4, <2>3
  <2>5. QED
    <3>1. stc' \in StcType /\ stc'.md_len <= stc'.cap
      BY <1>4, <2>1, <2>2
    <3>2. vs' = vs
      BY DEF TestStart
    <3>3. (IF vs'.alg = "SHAKE" THEN stc'.xof_len ELSE MD_LEN) <= stc'.cap
      BY <1>4, <2>4, <3>2
    <3>4. QED
      BY <1>1, <1>4, <3>1, <3>2, <3>3 DEF TestStart, IInv, DigestFitsBuffer, Written
<1>5. CASE err = "none" /\ ~DecodeFails(Tst) /\ tt = "MCT"
        /\ r_tests' = Append(r_tests, [tcId |-> Tst.tcId, outLen |-> 0])
        /\ t' = t + 1 /\ stc' = NoStc /\ UNCHANGED <<status, pc>>
  BY <1>5, NoStcType DEF TestStart, IInv, DigestFitsBuffer, Written
<1>6. CASE \E e \in Errors : Fail(e) /\ UNCHANGED <<r_tests, t>>
  BY <1>6, FailIInv DEF TestStart
<1>7. QED
  <2>1. \/ \E e \in Errors : Fail(e) /\ UNCHANGED <<r_tests, t>>
        \/ err = "none" /\ ~DecodeFails(Tst) /\ tt # "MCT"
           /\ stc' = ctx /\ pc' = "crypto" /\ UNCHANGED <<status, r_tests, t>>
        \/ err = "none" /\ ~DecodeFails(Tst) /\ tt = "MCT"
           /\ r_tests' = Append(r_tests, [tcId |-> Tst.tcId, outLen |-> 0])
           /\ t' = t + 1 /\ stc' = NoStc /\ UNCHANGED <<status, pc>>
    BY <1>3 DEF TestStart, Errors, MctErrors
  <2>2. QED
    BY <2>1, <1>4, <1>5, <1>6

(* The crypto call writes Written bytes, which the invariant bounds.      *)
LEMMA CryptoIInv == IInv /\ Crypto => IInv'
<1> SUFFICES ASSUME IInv, Crypto PROVE IInv'
  OBVIOUS
<1>1. CASE /\ stc' = [stc EXCEPT !.md_len = IF vs.alg = "SHAKE" THEN stc.xof_len
                                                                ELSE MD_LEN]
           /\ pc' = "output" /\ UNCHANGED status
  <2>1. Written <= stc.cap /\ MD_LEN \in Nat
    BY HandlerAssumption DEF Crypto, IInv
  <2>2. stc' \in StcType /\ stc'.md_len <= stc'.cap
    BY <1>1, <2>1 DEF IInv, StcType, Written
  <2>3. QED
    BY <1>1, <2>2 DEF Crypto, IInv, DigestFitsBuffer
<1>2. CASE Fail("CRYPTO_MODULE_FAIL")
  BY <1>2, FailIInv DEF Crypto, Errors
<1>3. QED
  BY <1>1, <1>2 DEF Crypto

(* The output releases the context on every path.                         *)
LEMMA OutputIInv == IInv /\ Output => IInv'
<1> SUFFICES ASSUME IInv, Output PROVE IInv'
  OBVIOUS
<1>1. stc' = NoStc
  BY DEF Output, Fail
<1>2. CASE pc' = "test" /\ t' = t + 1 /\ UNCHANGED status
  BY <1>1, <1>2, NoStcType DEF Output, IInv, DigestFitsBuffer
<1>3. UNCHANGED <<vs, g, mct_version>>
  BY DEF Output
<1>4. CASE Fail("MALLOC_FAIL") /\ UNCHANGED t
  BY <1>3, <1>4, FailIInv DEF Errors
<1>5. CASE Fail("DATA_CONV") /\ UNCHANGED t
  BY <1>3, <1>5, FailIInv DEF Errors
<1>6. QED
  BY <1>2, <1>4, <1>5 DEF Output

LEMMA GroupEndIInv == IInv /\ GroupEnd => IInv'
BY DEF GroupEnd, IInv, DigestFitsBuffer, Written

LEMMA FinishIInv == IInv /\ Finish => IInv'
BY DEF Finish, IInv, DigestFitsBuffer, Written

LEMMA StutterIInv == IInv /\ (Returned \/ UNCHANGED vars) => IInv'
BY DEF Returned, vars, IInv, DigestFitsBuffer, Written

(* The handler never holds a context whose digest outruns its md buffer,  *)
(* provided no SHAKE AFT test asks for more than ACVP_HASH_MD_BYTE_MAX     *)
(* bytes: IInv holds in every state.                                       *)
THEOREM HandlerInvariant == ShortAftLengths => (Spec => []IInv)
<1> SUFFICES ASSUME ShortAftLengths PROVE Spec => []IInv
  OBVIOUS
<1>1. Init => IInv
  BY InitIInv
<1>2. IInv /\ [Next]_vars => IInv'
  BY StartIInv, GroupStartIInv, TestStartIInv, CryptoIInv, OutputIInv,
     GroupEndIInv, FinishIInv, StutterIInv DEF Next
<1>3. QED
  BY <1>1, <1>2, PTL DEF Spec

(* Every digest the crypto module writes for a single-shot test fits the  *)
(* md buffer acvp_hash_init_tc sized for it (lines 848-885), for every    *)
(* build whose buffer sizes satisfy BufferSizeAssumption, when the SHAKE  *)
(* AFT lengths are short enough: the handler_buffers run checks the same  *)
(* on one instance, handler_shake_aft_overflow shows the premise matters. *)
THEOREM BufferSafety == ShortAftLengths => (Spec => []DigestFitsBuffer)
<1>1. IInv => DigestFitsBuffer
  BY DEF IInv
<1>2. QED
  BY <1>1, HandlerInvariant, PTL
=============================================================================
