# TLA+ models of the hash test-vector processing (src/src/acvp_hash.c)

This directory holds TLA+ models of the hash handler of libacvp. That handler takes a vector set from an ACVP server for SHA-1, SHA-2, SHA-3 or SHAKE. It runs each test case through the crypto module under test and builds the JSON response. Alongside the models are TLC configurations that check them on small instances, and TLAPS proofs of the main safety properties of the SHAKE and SHA-1/SHA-2 MCTs and of the handler.

## The system

`src/src/acvp_hash.c` is single-threaded and strictly sequential (spec §5). Its parts:

| Part | Code | Role |
|---|---|---|
| Vector-set handler | `acvp_hash_kat_handler`, lines 427-785 | Walks the groups and tests, validates each group (test type, `minOutLen`/`maxOutLen`, `mctVersion`) and each test, and dispatches to an MCT or a single-shot test. |
| Test-case context | `acvp_hash_init_tc` 821-912, `acvp_hash_release_tc` 918-926 | Allocates zeroed buffers sized by test type and cipher, and decodes the message. |
| Classic MCT | `acvp_hash_mct_tc` 89-171 | SHA-1/SHA-2. Three chaining slots A, B, C are seeded with the seed; each of 1000 rounds hashes A‖B‖C and rotates. |
| SHA-3 MCT | `acvp_hash_sha3_mct` 179-261 | A single chain over passes 0..1000, where pass 1000 only rebuilds the next seed. |
| SHAKE MCT | `acvp_hash_shake_mct` 269-377 | Like SHA-3, plus a variable output length. Each digest's two trailing bytes give the next length. |
| Record output | `acvp_hash_output_mct_tc` 48-81, `acvp_hash_output_tc` 787-819 | Hex-encodes the digest, and adds `outLen` for SHAKE. |
| Classifiers | `read_test_type`, `read_exp_method`, `read_mct_version` 379-426 | String comparisons. |

The collaborators live outside `src/`: the crypto module (`cap->crypto_handler`), the hex codec `acvp_bin_to_hexstr`, parson (JSON), and safeclib (`memcpy_s`, `memzero_s`). Each MCT calls the crypto module MCT_OUTER × MCT_INNER times (100 × 1000). It appends one record per outer iteration to `resultsArray`, and on any failure returns without that iteration's record.

## Modules

| Module | Models |
|---|---|
| `HashCommon` | Shared operators. `PadTrunc(s, n)` is the first n bytes of a zeroed buffer holding s, which is how every "copy then set length" of the code reads back. `Hex` and `HexFits` are `acvp_bin_to_hexstr` and its capacity check; the codec is not under `src/`, so they are modelled from spec §6. |
| `MCTResults` | The abstract MCT contract (spec §4.3, common rule, and §4.4). The records are, in order, a prefix of the chain `Expected(input)`. The run ends with all MCT_OUTER records or with one of `Errors`. |
| `ShakeMCT` | `acvp_hash_shake_mct`, the handler's SHAKE group checks (`Accepted`, lines 560-574) and the record output. |
| `ShakeMCTRef` | The chain of spec §4.3(c) as a recursive function (`RefChain`), and `RefinesMCTResults`: ShakeMCT implements MCTResults through `INSTANCE ... WITH`. |
| `ShakeMCTProofs` | TLAPS proofs for ShakeMCT. |
| `Sha3MCT`, `Sha3MCTRef` | `acvp_hash_sha3_mct` and the chain of spec §4.3(b). |
| `ShaMCT`, `ShaMCTRef` | `acvp_hash_mct_tc` and the triple-buffer chain of spec §4.3(a). |
| `HashHandler` | `acvp_hash_kat_handler` with the classifiers, `acvp_hash_init_tc`/`acvp_hash_release_tc` and the single-shot path with `acvp_hash_output_tc`. An MCT is one step whose outcome is the MCT contract (a record or an MCT error). |
| `HashHandlerProofs` | TLAPS proofs that a single-shot digest never outruns its md buffer. |
| `HandlerResponseProofs` | TLAPS proofs that the handler's response mirrors the request, that it accepts only valid vector sets, and that the crypto call only gets validated tests. |
| `ShaMCTProofs` | TLAPS proofs that the SHA-1/SHA-2 MCT seeds its slots and never fails a rotation copy when the seed fits the slots. |
| `MC_ShakeMCT`, `MC_Sha3MCT`, `MC_ShaMCT`, `MC_HashHandler` | The instances TLC checks: the stand-in hash functions and the input sets. |

How the models correspond to the code:

- **State.** Each MCT module has one variable per piece of state the code changes:
  - `stc->msg`/`msg_len`, `stc->md`, `stc->xof_len`, the slots `m1..m3` with their lengths, and the `seed` pointer;
  - the loop indices `i` and `j`;
  - `res_array` (`results`);
  - `status`, which is "running" or the value the function returned.
- **Byte buffers.** A buffer is the sequence of bytes it holds; the rest of it is zero.
- **Crypto module.** It is the constant operator `Hash`. The assumption `*HashAssumption` says it returns a digest of the right length.
- **Steps.** One step is one inner pass or round, which always includes the crypto call. The separate steps are:
  - the seed-only pass 1000 together with the output of the record (`NextOuter` / `Output`);
  - in ShaMCT, the seeding of the slots (`SeedSlots`).
- **Failure paths.** Each failure path is an action of its own: `PassFail`/`RoundFail` for the crypto module, `OutputFail` for calloc or conversion failure, and the rotation copy failure inside `Round`.
- **Undefined behaviour.** ShakeMCT models two crashes as status values: a modulo by a zero `range` (`"sigfpe"`) and the read of `md[md_len-1]` on a digest shorter than two bytes (`"segv"`).
- **Unsigned arithmetic.** It is modelled modulo the constant `UINT`. The build uses 2^32. The runs use 2^20, which is larger than every value the code reduces in them.
- **Byte order.** The `#if` of line 348 depends on whether `__BYTE_ORDER` is defined and on the host's byte order. Both are in the constant `Hosts`.

How `HashHandler` corresponds to the code:

- **State.** `vs` is the vector set, `g` and `t` are the loop indices `i` and `j`, and `pc` is the point in the loop body. `mct_version` is the handler's local. `stc` is the live test context, reduced to the md buffer size (`cap`), `xof_len`, `md_len` and the mode. `r_tests` and `r_groups` are `r_tarr` and `r_garr`, `emitted` is what reaches `ctx->kat_resp`, and `status` is the returned `rv`.
- **Data.** A message is its hex length and whether it is well-formed hex. A digest is its length. A missing number reads as 0 and a missing string as `"NONE"`, as parson returns them.
- **Checks.** `GroupError` and `TestError` are the checks of lines 527-589 and 600-678, written as IF chains in the code's order. The first failing check decides the error code.
- **Steps.** The actions are:
  - `Start`: the capability lookup;
  - `GroupStart`: the group checks;
  - `TestStart`: the test checks, `acvp_hash_init_tc` and, for an MCT, its outcome;
  - `Crypto`, `Output`, `GroupEnd`, `Finish`.
- **Failures.** Every `calloc` and every crypto call may fail. Each error path releases the context (`Fail` resets `stc` to `NoStc`, which is `acvp_hash_release_tc`) and discards the partial response.
- **Build choices.** Two constants are choices of the build that the source does not fix:
  - `EnumSigned`: whether the compiler gives `ACVP_HASH_MCT_VERSION` a signed type;
  - `NullIsEqual`: whether `strcmp_s` with a NULL argument leaves `diff = 0`. safeclib sets `*diff = 0` before it checks its arguments.
- **Header sizes.** The sizes of `acvp_hash.h` are not in the repository. `BufferSizeAssumption` states what the proofs need of them:
  - the fixed-output digest buffer is no larger than the message and XOF buffers;
  - the XOF bound is a whole number of bytes.

## Runs

All instances use MCT_OUTER = 3 and MCT_INNER = 3. That is enough to reach every control point:
- the first and later outer iterations;
- pass 0, the middle passes and the seed-only last pass;
- every failure path.

Digests are 2..6 bytes (SHAKE) or 2 bytes (SHA-3, SHA). The chained message is 3 bytes (LEFTMOST_BYTES, standing for 16), so digests are both shorter and longer than it. Messages are 0..4 bytes, so alternate mode both pads and truncates. The stand-in hashes depend on every byte and on the length, so a wrong message or length changes the digest.

| Run | Expect | What it shows |
|---|---|---|
| `shake_mct` | pass | Scope: every conforming group of 16..48 bits (and one rejected group), on three correct builds. Checks `MemorySafe` (no write past `stc->md`, no modulo by zero, no read before `stc->md`), `OutLenWithinBounds` (every recorded `outLen` within [min, max]) and `RefinesMCTResults` (the records are exactly the chain of §4.3(c)). |
| `shake_termination` | pass | `Terminates` under weak fairness, over every pair of byte-aligned lengths of 0..56 bits, every build and four seeds. The function always returns, with all records, an error or a crash. |
| `sha3_mct` | pass | `RefinesMCTResults` for SHA-3 in both modes. |
| `sha_mct` | pass | `RefinesMCTResults` for the classic MCT in both modes. This includes a standard-mode message longer than the slots, which must end in an error without a record. |
| `shake_unchecked_bounds` | violation | Two groups pass the handler and make the first passes leave `stc->md` (`MemorySafe`): one without `maxOutLen`, where the first pass reads `md[-1]`, and one with `minOutLen > maxOutLen`, where the unsigned `range` wraps and the requested length overruns the buffer. |
| `shake_big_endian_no_macros` | violation | A big-endian build without `__BYTE_ORDER` takes the little-endian branch, and the lengths diverge from §4.3(c). |
| `shake_long_seed` | violation | Pass 0 hashes the message cut or padded to 16 bytes, while §4.3(c) says pass 0 uses the original message. |
| `handler` | pass | Scope: single-group vector sets holding every group and test error, and two-group sets of every pair of test types, under SHA, SHA-3, SHAKE and an unregistered algorithm. Checks `AcceptsOnlyValid` (success only for a vector set spec §4.1 calls valid), `ResponseMirrorsRequest` (the response so far is a prefix of the mirrored request, and a success emits all of it) and the action property `CryptoOnValidTest` (every single-shot crypto call is for a group and a test §4.1 admits). Every requested `outLen` in the menu is a whole number of bytes. For other lengths the code reports the length rounded up to bytes. Spec §4.4 ("achieved" length) allows that and §8 ("requested" length) does not, so no run judges it. |
| `handler_buffers` | pass | `DigestFitsBuffer` over the same menu without SHAKE AFT lengths above the fixed-output buffer. VOT lengths up to the XOF maximum fit their buffer. |
| `handler_shake_aft_overflow` | violation | A SHAKE AFT `outLen` the handler accepts is larger than the AFT md buffer (`DigestFitsBuffer`). |
| `handler_accepts_invalid` | violation | Three vector sets that spec §4.1 rejects are answered (`AcceptsOnlyValid`): an unknown `mctVersion` on a build with an unsigned enum, where the check `mct_version < 0` is false; an LDT test without `expansionTechnique`, which reads as "repeating"; and `contentLength = 17` for 2 bytes, because the code compares `contentLength/8`. |
| `sha_long_seed` | violation | Scope: a standard-mode message longer than `ACVP_HASH_MD_BYTE_MAX`. The seeding `memcpy_s` fails and its result is ignored, so the first round hashes zeroed slots (`SlotsHoldSeed`). |

Each property of a passing run has a mutant in PROJECT.json, a plausible bug in the mapped code that TLC catches:
- `range` without the `+ 1`;
- a modulus one too large;
- `outLen` taken from the next requested length;
- the outer loop running one iteration too many;
- alternate-mode length not applied;
- the rotation copies swapped;
- the SHAKE `outLen` left out of a single-shot record;
- the VOT-only-for-SHAKE check dropped;
- the SHAKE `outLen` range check dropped (caught by `CryptoOnValidTest`);
- VOT given the fixed-output md buffer.

The handler instance uses the build's proportions in miniature:
- 2-byte digests and fixed-output buffers, and 3-byte SHAKE messages;
- an XOF range of 16..32 bits, so a VOT may ask for twice the fixed-output buffer;
- one or two tests per group, and one or two groups.

This reaches every error code of the handler in both the group and the test checks, each `calloc` and crypto failure, the conversion failure in `acvp_hash_output_tc`, and the step from one group to the next.

**Fairness.** `FairSpec` adds `WF_vars(Next)`. The code is a single thread with no waits except the blocking crypto call, which spec §5 treats as atomic and always returning. So a step that stays enabled is taken.

## Proofs (ShakeMCTProofs, checked by tlapm)

All theorems assume `ConformingGroups`: every group the handler accepts has `minOutLen <= maxOutLen` and a byte-aligned `minOutLen`. This is what a conforming server sends, and the handler checks neither half. The `shake_unchecked_bounds` violation run shows what happens when `minOutLen <= maxOutLen` fails. No run has a `minOutLen` that is not a multiple of 8: line 282 rounds it down, so the code may then record an `outLen` below `minOutLen` (hazard at :282, left unchecked).

- `ShakeInvariant`: `Spec => []IInv`.
- `TypeCorrect`: `Spec => []TypeOK`.
- `MemorySafety`: `Spec => []MemorySafe`.
- `OutLenBounded`: `Spec => []OutLenWithinBounds`.

`MemorySafe` and `OutLenWithinBounds` are not inductive on their own. A step's safety depends on the requested length `xof_len`, and after the first pass on the digest length, both lying in [min_bytes, max_bytes]. It also needs `range = max_bytes - min_bytes + 1` to be nonzero and exact, which requires min <= max. `IInv` adds these facts the bound `j < MCT_OUTER` while running, and that the chained message fits `stc->msg` (`Len(msg) <= SHAKE_MSG_BYTE_MAX`, kept in `IInv` rather than in `MemorySafe` because `Rebuild` bounds it by construction).

`NextIInv` has one lemma per action:
- `PassIInv` shows the two crash disjuncts cannot be taken;
- `NextXofLenBounds` shows that `min + v % range` stays in the bounds for every 16-bit `v`.

Lemmas about `PadTrunc`, `Hex`, `Rebuild` and the 16-bit value carry the types.

Only model-checked, because the prover cannot do it:
- the liveness property `Terminates`;
- the refinements `RefinesMCTResults`, whose reference chains are recursive functions over the whole run and would need induction over data;
- everything about Sha3MCT (its only property is its refinement).

## Proofs (HashHandlerProofs, checked by tlapm)

- `HandlerInvariant`: `ShortAftLengths => (Spec => []IInv)`.
- `BufferSafety`: `ShortAftLengths => (Spec => []DigestFitsBuffer)`.

Both hold for every value of the constants that satisfies `HandlerAssumption` and `BufferSizeAssumption`. `ShortAftLengths` says that no SHAKE AFT test asks for more than `ACVP_HASH_MD_BYTE_MAX` bytes. The handler does not check this, and `handler_shake_aft_overflow` shows what happens without it.

`DigestFitsBuffer` is not inductive, because the crypto step writes a length chosen at `TestStart`. `IInv` adds three facts:
- while a context is live before the crypto call, the length the module will write (`Written`) already fits `stc.cap`;
- the loop index `g` is in range inside a group;
- the variables are typed.

The key lemma is `CtxFits`. A single-shot test that passed `TestError` gets a capacity from `MdCap` that holds its length:
- the ShortAftLengths bound for SHAKE AFT;
- the XOF bound in whole bytes for VOT;
- `MD_LEN` and the size relations for the fixed-output ciphers.

Every failure path resets the context (`FailIInv`).

## Proofs (HandlerResponseProofs, checked by tlapm)

These theorems cover the three properties of the `handler` run for every value of the constants.

- `ResponseInvariant`: `WholeByteOutLens => (Spec => []RInv)`.
- `ResponseMirrors`: `WholeByteOutLens => (Spec => []ResponseMirrorsRequest)`.
- `ValidationInvariant`: `StrictBuild /\ DecidableLengths => (Spec => []VInv)`.
- `AcceptsValid`: `StrictBuild /\ DecidableLengths => (Spec => []AcceptsOnlyValid)`.
- `CryptoValidated`: `StrictBuild /\ DecidableLengths => (Spec => CryptoOnValidTest)`, the action property.

The premises:
- **`WholeByteOutLens`**: every single-shot SHAKE `outLen` is a whole number of bytes.
  - `acvp_hash_init_tc` rounds the length up to bytes (line 900).
  - `acvp_hash_output_tc` reports `md_len * 8` (line 812).
  - So any other length is echoed rounded up. The spec contradicts itself about which value is right (hazard at :812).
- **`StrictBuild`**: `ACVP_HASH_MCT_VERSION` has a signed type, and `strcmp_s` reports a NULL argument as a mismatch. `handler_accepts_invalid` shows that each of these is needed.
- **`DecidableLengths`** has two parts.
  - LDT `contentLength`s are whole bytes. Line 631 compares them rounded down, which is the third case of `handler_accepts_invalid`.
  - SHAKE MCT bounds are ordered. Otherwise the SHAKE MCT corrupts memory (`shake_unchecked_bounds`), and its outcome is none of the handler's.

Neither property is inductive on its own. `ResponseMirrorsRequest` talks only about `r_groups` and `emitted`, while the step that appends a group depends on the tests collected in `r_tests`. `RInv` adds these facts:
- `r_groups` is exactly the expected groups before `g`;
- inside a group, `r_tests` is exactly the expected records before `t`;
- between `acvp_hash_init_tc` and the output, `xof_len * 8` and then `md_len * 8` equal the requested `outLen`;
- `done` implies that `g` is past the last group.

The lemmas `ExpTestDef` and `ExpGroupDef` unfold the expected response. `RoundTrip` is the arithmetic fact `((x + 7) \div 8) * 8 = x` for whole bytes.

`AcceptsOnlyValid` only speaks at the end. `VInv` carries the facts the end needs:
- every group the loop has left is valid;
- every test of the current group before `t` is valid, as is the test being run once the loop is past `TestStart`;
- a registered algorithm once past `Start`.

`GroupChecked` and `TestChecked` are the key lemmas. A group that passes `GroupError`, or a test that passes `TestError` and decodes, satisfies `SpecValidGroup` or `SpecValidTest` under the premises. `CryptoOnValidTest` follows from `VInv` in the `crypto` state.

## Proofs (ShaMCTProofs, checked by tlapm)

- `ShaInvariant`: `ShortSeeds => (Spec => []SInv)`.
- `SlotsSeeded`: `ShortSeeds => (Spec => []SlotsHoldSeed)`. `sha_long_seed` shows this property violated without the premise; no passing run checks it.
- `RotationNeverFails`: `ShortSeeds => (Spec => []NoInternalError)`. No `memcpy_s` of the rotation fails, so `ACVP_INTERNAL_ERR` is never returned.

`ShortSeeds` says that in standard mode every seed fits `ACVP_HASH_MD_BYTE_MAX`, the slot size `acvp_hash_mct_tc` passes to `memcpy_s`.

`SInv` states these facts:
- the seed fits the slot size, and so does every slot length once seeded;
- the slots and the digest hold bytes;
- after an iteration's first round the digest has `MD_LEN` bytes, so the next seed fits as well;
- right after seeding, each slot holds `PadTrunc(seed, seed_len)`.

`DigestType` bounds the harness message `A || B || C`, which lets the `ShaHashAssumption` about the crypto module apply.

`ShaSizeAssumption` now states that `MD_BYTE_MAX` is a natural number, which the build's constant is.

## Not modelled

- The handler's failures before the group loop, other than the capability lookup: a missing `algorithm` string, and `acvp_create_array`/`acvp_setup_json_rsp_group` (lines 467-508). These return at once, before any state is built.
- The content of messages and digests in `HashHandler`. The MCT modules model the bytes. The handler needs only lengths and well-formedness.
- `fullLength` of LDT tests, which the code does not validate.
- The JSON library, the hex codec's decoder (reduced to `DecodeFails`) and the crypto module's internals.

## Plan for later work

1. Compose HashHandler with an MCT module, so that the handler's accepted groups feed the MCT's inputs directly.
2. Add message-buffer invariants for Sha3MCT and prove them as for ShaMCT.
3. The MCT refinements stay model-checked. Their reference chains are recursive functions, and unfolding one needs an induction theorem with an operator parameter, which the installed provers cannot instantiate.
