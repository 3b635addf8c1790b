---------------------------- MODULE MC_ShakeMCT ----------------------------
(***************************************************************************)
(* Small instances of ShakeMCT for TLC.  A 3-byte chained message and     *)
(* output lengths of 2..6 bytes make digests both shorter and longer than *)
(* the chained message; bytes range over 0..5.  MCHash is a deterministic *)
(* stand-in for SHAKE that depends on every input byte and on the length. *)
(***************************************************************************)
EXTENDS ShakeMCTRef

MCHash(m, n) ==
    LET w[k \in 0..Len(m)] == IF k = 0 THEN 0 ELSE w[k - 1] * 3 + m[k] + k
    IN  [k \in 1..n |-> (w[Len(m)] + 5 * k + n) % 6]

MCBytes == 0..5

(* Every byte-aligned pair a conforming server may send (16..48 bits),    *)
(* and one the handler rejects.                                            *)
ConformingPairs ==
    {p \in [min : {16, 24, 32, 40, 48}, max : {16, 24, 32, 40, 48}] :
        p.min <= p.max} \cup {[min |-> 8, max |-> 24]}

MCSeeds == {<<1, 2, 3>>, <<5, 0, 4>>}

(* Little-endian glibc, little-endian without the macros, big-endian glibc *)
CorrectHosts ==
    {[bigEndian |-> FALSE, endianMacros |-> TRUE],
     [bigEndian |-> FALSE, endianMacros |-> FALSE],
     [bigEndian |-> TRUE, endianMacros |-> TRUE]}
LittleEndianHost == {[bigEndian |-> FALSE, endianMacros |-> TRUE]}
(* A big-endian target whose headers do not define __BYTE_ORDER.          *)
BigEndianNoMacros == {[bigEndian |-> TRUE, endianMacros |-> FALSE]}

(* Every pair of byte-aligned lengths of 0..56 bits, conforming or not:   *)
(* maxOutLen absent (0), below the minimum, minOutLen above maxOutLen.     *)
AllPairs == [min : {0, 8, 16, 24, 32, 40, 48, 56}, max : {0, 8, 16, 24, 32, 40, 48, 56}]
AllHosts == [bigEndian : BOOLEAN, endianMacros : BOOLEAN]
AllSeeds == MCSeeds \cup {<<1, 2, 3, 4>>, <<2>>}

(* maxOutLen absent from the group: json_object_get_number returns 0.     *)
MissingMaxPair == {[min |-> 16, max |-> 0]}
(* minOutLen above maxOutLen, both within the global bounds.              *)
MinAboveMaxPair == {[min |-> 40, max |-> 24]}
(* shake_unchecked_bounds: both groups the handler's bound checks pass.  *)
UncheckedPairs == MissingMaxPair \cup MinAboveMaxPair
(* A 4-byte seed where the chained message is 3 bytes.                    *)
LongSeed == {<<1, 2, 3, 4>>}
=============================================================================
