------------------------- MODULE CppBenchmarkSafety -------------------------
(***************************************************************************)
(* Properties of CppBenchmark and of the fixtures.                         *)
(***************************************************************************)
EXTENDS CppBenchmark, CppFixtures

LOCAL RF == INSTANCE RawField WITH RecursionLimit <- 100

\* The time of a row is that of the fastest of kBenchmarkSamples samples, and no
\* call of the warm-up or of another benchmark is in it ("does a short warmup and
\* reports the best elapsed sample out of three", bench/README.md 119-120).
BestOfSamples ==
    stage = "between" /\ sample = kBenchmarkSamples =>
        /\ Len(samples) = kBenchmarkSamples
        /\ \E i \in DOMAIN samples : best = samples[i]
        /\ \A i \in DOMAIN samples : best <= samples[i]

\* Whatever call the library refuses, the program ends with it, before a sample is
\* timed: in the preparation, or in the warm-up with the first call of a benchmark
\* whose payload the preparation did not try.
AbortsBeforeTiming ==
    refused # {} =>
        /\ status = "aborted"
        /\ prepared = Len(Steps) =>
              /\ stage = "warmup" /\ calls = 0
              /\ \A i \in DOMAIN Steps : CallsOf(Steps[i]) \cap refused = {}

\* SerializeWithCachedSizes writes the sizes the message cached, so something must
\* have serialized it before (main.cc 1869, 2214, 3785).
SizesCachedFirst == Calling /\ Current.does = "deterministic" => Current.on \in sized

Serializes(call) == call.does \in {"encode", "array"}

\* What the program owes to that: the message of a deterministic benchmark is
\* serialized in the preparation or by an earlier benchmark.
SizedBefore ==
    \A k \in DOMAIN Rows :
        Rows[k].does = "deterministic" =>
            \/ \E i \in DOMAIN Steps : Serializes(Steps[i]) /\ Rows[k].on \in Steps[i].on
            \/ \E i \in 1 .. k - 1 : Serializes(Rows[i]) /\ Rows[k].on = Rows[i].on

\* However the library fills an object, every call of a benchmark leaves it with
\* its payload once: the calls that reuse it do the work of the first one (each of
\* the lambdas that capture an object clears it, main.cc 1849, 1897, 1962, 2268 and
\* so on).
CallsAlike == calls # 0 => held = 1

\* What the program owes to that: no lambda fills a captured object as it is.
ObjectsCleared == \A k \in DOMAIN Rows : Rows[k].object # "kept"

StressFields == RF!ReadFields(MakeUnknownFieldPayload(<<8, 7>>))

CountsOfStressFields ==
    LET numbers == [i \in DOMAIN StressFields.fields |-> RF!rawFieldNumber(StressFields.fields[i])]
    IN  /\ StressFields.ok
        /\ Len(numbers) = 1 + kUnknownFieldStressCount
        /\ \A n \in 0 .. kUnknownFieldStressNumberSpan - 1 :
              UnknownFieldCountByNumber(numbers, kUnknownFieldStressFirstNumber + n)
                  = kUnknownFieldStressCountPerNumber

\* The payload with unknown fields that was made from the bytes of a person, read by
\* the rules of wire.zig, has the number of unknown fields that main expects, in all
\* and of each number (main.cc 405-410, 1904-1926).
UnknownFieldsCounted == prepared > 1 => CountsOfStressFields

\* The shuffled map is the large map: the deterministic benchmark sorts as many
\* entries as the others encode, although every index is computed modulo the count.
ShuffledIsSame == prepared = Len(Steps) => MakeShuffledLargeMap = MakeLargeMap

\* The two fixtures that main computes have the entries its benchmarks rely on.
FixturesAgree == UnknownFieldsCounted /\ ShuffledIsSame
=============================================================================
