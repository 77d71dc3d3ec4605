----------------------------- MODULE CppFixtures -----------------------------
(***************************************************************************)
(* The fixtures of bench/cpp_protobuf/main.cc that are computed: a payload *)
(* full of unknown fields, and a map filled in two orders.                 *)
(***************************************************************************)
EXTENDS Integers, SequencesExt, FiniteSetsExt

CONSTANT kUnknownFieldStressCount    \* 1024

kUnknownFieldStressFirstNumber == 1000
kUnknownFieldStressNumberSpan == 16

ASSUME StressAssumption ==
    /\ kUnknownFieldStressCount \in Nat
    /\ kUnknownFieldStressCount % kUnknownFieldStressNumberSpan = 0

kUnknownFieldStressCountPerNumber ==
    kUnknownFieldStressCount \div kUnknownFieldStressNumberSpan

\* Fault: 128 in one byte.
OneByteMore ==
    LET Rest[v \in Nat] ==
            IF v > 128 THEN <<(v % 128) + 128>> \o Rest[v \div 128] ELSE <<v>>
    IN  Rest

\* AppendVarint: what it appends for a value.
Varint ==
    LET Rest[v \in Nat] ==
            IF v >= 128 THEN <<(v % 128) + 128>> \o Rest[v \div 128] ELSE <<v>>
    IN  Rest

MakeUnknownFieldPayload(base) ==
    base \o FlattenSeq([n \in 1 .. kUnknownFieldStressCount |->
        LET number == kUnknownFieldStressFirstNumber + ((n - 1) % kUnknownFieldStressNumberSpan)
        IN  Varint[8 * number] \o Varint[n]])

\* UnknownFieldCountByNumber, of the numbers of the fields.
UnknownFieldCountByNumber(numbers, number) ==
    Cardinality({i \in DOMAIN numbers : numbers[i] = number})

-----------------------------------------------------------------------------
kLargeMapEntryCount == 1024
kLargeMapShuffleMultiplier == 257
kLargeMapShuffleIncrement == 911

Index == 0 .. kLargeMapEntryCount - 1

\* Entry i has the key "key-i", four digits of it: the key is its index.
Value(index) == (index % 4096) + 1

MakeLargeMap == [i \in Index |-> Value(i)]

ShuffledLargeMapIndex(i) ==
    (i * kLargeMapShuffleMultiplier + kLargeMapShuffleIncrement) % kLargeMapEntryCount

MakeShuffledLargeMap == [key \in {ShuffledLargeMapIndex(i) : i \in Index} |-> Value(key)]
=============================================================================
