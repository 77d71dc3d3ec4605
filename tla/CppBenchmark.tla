---------------------------- MODULE CppBenchmark ----------------------------
(***************************************************************************)
(* The program bench/cpp_protobuf/main.cc, the baseline that pbz is        *)
(* compared with: it prepares payloads, prints their sizes, and times one  *)
(* benchmark after another (RunTimed).  It calls std::abort as soon as the *)
(* C++ protobuf library refuses a call.  The library is not part of the    *)
(* repository: it may refuse any call that the program checks, but does    *)
(* the same each time it is called, and it may append to the object that   *)
(* it fills or replace what that holds.                                    *)
(***************************************************************************)
EXTENDS Integers, Sequences

CONSTANTS
    Payloads,           \* what is encoded, decoded, printed or parsed
    Preparation,        \* the steps before the first benchmark
    Benchmarks,         \* the calls of RunTimed
    kBenchmarkSamples,  \* 3
    Longest,            \* the time a call may take (a bound of the model)
    Never                 \* std::chrono::nanoseconds::max()

Operation ==
    {"encode", "array", "deterministic", "decode", "decode_unknown", "count_unknown",
     "stringify", "parse", "format", "read"}

\* Where a body has the object from that the call fills: it makes a new one, or
\* captures one and clears it, keeps what it holds, or writes it from its beginning.
Object == {"new", "cleared", "kept", "buffer"}

ASSUME ProgramAssumption ==
    /\ Preparation \in Seq([does : Operation, on : SUBSET Payloads])
    /\ Benchmarks \in Seq([does : Operation, on : Payloads, object : Object,
                           iterations : Nat \ {0}])
    /\ Benchmarks # <<>>

ASSUME TimeAssumption ==
    /\ kBenchmarkSamples \in Nat \ {0} /\ Longest \in Nat /\ Never \in Nat
    /\ \A i \in DOMAIN Benchmarks : Benchmarks[i].iterations * Longest <= Never

\* TLC evaluates a definition once, the value of a constant wherever it occurs.
Steps == Preparation
Rows == Benchmarks
Payload == Payloads

VARIABLES
    status,    \* "preparing", "timing", "finished" or "aborted"
    prepared,  \* how many steps of the preparation are done
    timed,     \* how many benchmarks have printed their row
    stage,     \* of RunTimed: "warmup", "sample", or "between" samples
    count,     \* i of the loop in progress
    sample,    \* samples taken
    clock,     \* Clock::now(), since the benchmark began
    start, best,
    held,      \* what the object holds that the body fills: how many times
               \* its payload
    sized,     \* the messages that hold their cached sizes, named by payload
    refused,   \* what the library refused
    calls,     \* how often this benchmark called its body
    spent,     \* the time of this sample's calls
    samples    \* those of the samples before

vars == <<status, prepared, timed, stage, count, sample, clock, start, best, held, sized,
          refused, calls, spent, samples>>

frame == <<stage, count, sample, clock, start, best, held, calls, spent, samples>>

TypeOK ==
    /\ status \in {"preparing", "timing", "finished", "aborted"}
    /\ prepared \in 0 .. Len(Steps) /\ timed \in 0 .. Len(Rows)
    /\ status = "timing" => timed < Len(Rows) /\ prepared = Len(Steps)
    /\ stage \in {"warmup", "sample", "between"}
    /\ count \in Nat /\ calls \in Nat
    /\ sample \in 0 .. kBenchmarkSamples
    /\ clock \in Nat /\ start \in 0 .. clock /\ best \in 0 .. Never
    /\ held \in Nat
    /\ sized \subseteq Payload
    /\ refused \subseteq [does : Operation, on : Payload]
    /\ spent \in Nat /\ samples \in Seq(Nat)

Init ==
    /\ status = "preparing" /\ prepared = 0 /\ timed = 0
    /\ stage = "warmup" /\ count = 0 /\ sample = 0
    /\ clock = 0 /\ start = 0 /\ best = Never /\ held = 0
    /\ calls = 0 /\ spent = 0 /\ samples = <<>>
    /\ sized = {} /\ refused = {}

-----------------------------------------------------------------------------
(* The library *)

CallOf(bench) == [does |-> bench.does, on |-> bench.on]

CallsOf(step) == {[does |-> step.does, on |-> p] : p \in step.on}

Current == Rows[timed + 1]

\* The library has done this call before.
Done(call) ==
    \/ status = "timing" /\ calls # 0 /\ call = CallOf(Current)
    \/ \E i \in 1 .. prepared : call \in CallsOf(Steps[i])
    \/ \E i \in 1 .. timed : call = CallOf(Rows[i])

\* The result of SerializeToString is not looked at, that of other calls is.
Checked == Operation \ {"encode"}

Refuses(call) ==
    /\ call.does \in Checked /\ ~Done(call)
    /\ refused' = refused \cup {call}

\* Serializing a message computes its sizes and caches them.
Sizes(operation, payloads) ==
    sized' = IF operation \in {"encode", "array"} THEN sized \cup payloads ELSE sized

\* The library adds the payload to what the object holds when it is called, or
\* replaces that; the library is not known to do the second.
Fills(bench) ==
    LET before == IF bench.object = "kept" THEN held ELSE 0
    IN  held' \in {1} \cup (IF bench.object = "buffer" THEN {} ELSE {before + 1})

-----------------------------------------------------------------------------
(* Preparation *)

PrepareAborts ==
    /\ status = "preparing" /\ prepared < Len(Steps)
    /\ \E call \in CallsOf(Steps[prepared + 1]) : Refuses(call)
    /\ status' = "aborted"
    /\ UNCHANGED <<prepared, timed, frame, sized>>

Prepare ==
    /\ status = "preparing" /\ prepared < Len(Steps)
    /\ prepared' = prepared + 1
    /\ Sizes(Steps[prepared + 1].does, Steps[prepared + 1].on)
    /\ UNCHANGED <<status, timed, frame, refused>>

\* The payload sizes are printed.
ReportSizes ==
    /\ status = "preparing" /\ prepared = Len(Steps)
    /\ status' = "timing"
    /\ UNCHANGED <<prepared, timed, frame, sized, refused>>

-----------------------------------------------------------------------------
(* RunTimed *)

Least(a, b) == IF a < b THEN a ELSE b

\* Fault: a benchmark of few iterations is not warmed up.
TenthOf(iterations) == Least(iterations \div 10, 1000)

WarmupIterations(iterations) ==
    LET tenth == Least(iterations \div 10, 1000) IN IF tenth < 1 THEN 1 ELSE tenth

Calling ==
    /\ status = "timing"
    /\ \/ stage = "warmup" /\ count < WarmupIterations(Current.iterations)
       \/ stage = "sample" /\ count < Current.iterations

Body ==
    /\ Calling
    /\ \E time \in 0 .. Longest :
          /\ clock' = clock + time
          /\ spent' = spent + time
    /\ Fills(Current)
    /\ Sizes(Current.does, {Current.on})
    /\ count' = count + 1 /\ calls' = calls + 1
    /\ UNCHANGED <<status, prepared, timed, stage, sample, start, best, refused, samples>>

BodyAborts ==
    /\ Calling
    /\ Refuses(CallOf(Current))
    /\ status' = "aborted"
    /\ UNCHANGED <<prepared, timed, frame, sized>>

\* Fault: the first sample is timed from before the warm-up.
FromWarmup == IF sample = 0 THEN start ELSE clock

Now == clock

AnotherSample == stage = "between" /\ sample < kBenchmarkSamples

BeginSample ==
    /\ status = "timing"
    /\ \/ stage = "warmup" /\ count = WarmupIterations(Current.iterations)
       \/ AnotherSample
    /\ stage' = "sample"
    /\ count' = 0
    /\ start' = Now
    /\ spent' = 0
    /\ UNCHANGED <<status, prepared, timed, sample, clock, best, held, sized, refused, calls,
                   samples>>

EndSample ==
    /\ status = "timing" /\ stage = "sample" /\ count = Current.iterations
    /\ stage' = "between"
    /\ best' = Least(best, clock - start)
    /\ sample' = sample + 1
    /\ samples' = Append(samples, spent)
    /\ UNCHANGED <<status, prepared, timed, count, clock, start, held, sized, refused, calls,
                   spent>>

NextBenchmark == timed + 1

\* BenchResult::Print, and main goes on to the next benchmark, with a new object.
PrintRow ==
    /\ status = "timing" /\ stage = "between" /\ sample = kBenchmarkSamples
    /\ timed' = NextBenchmark
    /\ status' = IF timed' = Len(Rows) THEN "finished" ELSE "timing"
    /\ stage' = "warmup" /\ count' = 0 /\ sample' = 0
    /\ clock' = 0 /\ start' = 0 /\ best' = Never /\ held' = 0
    /\ calls' = 0 /\ spent' = 0 /\ samples' = <<>>
    /\ UNCHANGED <<prepared, sized, refused>>

Next ==
    \/ Prepare \/ PrepareAborts \/ ReportSizes
    \/ Body \/ BodyAborts \/ BeginSample \/ EndSample \/ PrintRow

Spec == Init /\ [][Next]_vars
=============================================================================
