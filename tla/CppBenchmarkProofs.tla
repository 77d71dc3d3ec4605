------------------------- MODULE CppBenchmarkProofs -------------------------
(***************************************************************************)
(* Theorems of CppBenchmark, for every program of benchmarks, every number *)
(* of samples and every time of a call, and of the shuffled map.           *)
(***************************************************************************)
EXTENDS CppBenchmarkSafety, SequenceTheorems, TLAPS

\* What holds of RunTimed between its steps: how many calls were made, that the
\* time since start is that of the sample's calls, and that best is the least of
\* the samples so far.
Timing ==
    /\ stage = "warmup" => calls = count /\ sample = 0
    /\ stage # "warmup" => calls # 0
    /\ Len(samples) = sample
    /\ stage = "sample" =>
          /\ sample < kBenchmarkSamples
          /\ clock - start = spent
          /\ count <= Current.iterations
          /\ spent <= count * Longest
    /\ sample = 0 => best = Never
    /\ sample # 0 => \E i \in DOMAIN samples : best = samples[i]
    /\ \A i \in DOMAIN samples : best <= samples[i]

\* The library refused nothing as long as the program runs; a benchmark that
\* aborted did so with a call that was made for the first time.
Refusals ==
    /\ status # "aborted" => refused = {}
    /\ status = "aborted" /\ prepared = Len(Steps) =>
          /\ stage = "warmup" /\ calls = 0
          /\ \A i \in DOMAIN Steps : CallsOf(Steps[i]) \cap refused = {}

\* Nothing of RunTimed has happened before the first benchmark.
NotBegun ==
    status = "preparing" => timed = 0 /\ stage = "warmup" /\ count = 0 /\ calls = 0

\* What was serialized is sized: by the steps done, the benchmarks done and the calls
\* of the benchmark in progress.
SizedInv ==
    /\ \A i \in 1 .. prepared : Serializes(Steps[i]) => Steps[i].on \subseteq sized
    /\ \A i \in 1 .. timed : Serializes(Rows[i]) => Rows[i].on \in sized
    /\ calls # 0 => (Serializes(Rows[timed + 1]) => Rows[timed + 1].on \in sized)

IInv == TypeOK /\ Timing /\ Refusals /\ NotBegun

-----------------------------------------------------------------------------
LEMMA ProgramTyped ==
    /\ Len(Steps) \in Nat /\ Len(Rows) \in Nat \ {0}
    /\ DOMAIN Steps = 1 .. Len(Steps) /\ DOMAIN Rows = 1 .. Len(Rows)
    /\ \A i \in 1 .. Len(Steps) : Steps[i].does \in Operation /\ Steps[i].on \in SUBSET Payload
    /\ \A i \in 1 .. Len(Rows) :
          /\ Rows[i].does \in Operation /\ Rows[i].on \in Payload
          /\ Rows[i].iterations \in Nat \ {0}
          /\ Rows[i].iterations * Longest <= Never
  <1> DEFINE S == [does : Operation, on : SUBSET Payload]
             R == [does : Operation, on : Payload, object : Object, iterations : Nat \ {0}]
  <1>1. Steps \in Seq(S)
    BY ProgramAssumption DEF Steps, Payload
  <1>2. Rows \in Seq(R) /\ Rows # <<>>
    BY ProgramAssumption DEF Rows, Payload
  <1>3. \A i \in DOMAIN Rows : Rows[i].iterations * Longest <= Never
    BY TimeAssumption DEF Rows
  <1>4. /\ Len(Steps) \in Nat /\ DOMAIN Steps = 1 .. Len(Steps)
        /\ \A i \in 1 .. Len(Steps) : Steps[i] \in S
    <2> HIDE DEF S
    <2> QED BY <1>1
  <1>5. /\ Len(Rows) \in Nat \ {0} /\ DOMAIN Rows = 1 .. Len(Rows)
        /\ \A i \in 1 .. Len(Rows) : Rows[i] \in R
    <2> HIDE DEF R
    <2>1. Len(Rows) # 0 BY <1>2, EmptySeq
    <2> QED BY <1>2, <2>1
  <1> QED BY <1>3, <1>4, <1>5

LEMMA CurrentTyped ==
    ASSUME TypeOK, status = "timing"
    PROVE  /\ Current.does \in Operation /\ Current.on \in Payload
           /\ Current.iterations \in Nat \ {0}
           /\ Current.iterations * Longest <= Never
  <1>1. timed + 1 \in 1 .. Len(Rows) BY ProgramTyped DEF TypeOK
  <1> QED BY <1>1, ProgramTyped DEF Current

LEMMA WarmupIsPositive ==
    ASSUME NEW n \in Nat
    PROVE  WarmupIterations(n) \in Nat \ {0}
  BY DEF WarmupIterations, Least

\* A refused call is a call of the library.
LEMMA CallsTyped ==
    ASSUME NEW step, step.does \in Operation, step.on \in SUBSET Payload
    PROVE  CallsOf(step) \subseteq [does : Operation, on : Payload]
  BY DEF CallsOf

-----------------------------------------------------------------------------
LEMMA InitHolds == Init => IInv
  <1> SUFFICES ASSUME Init PROVE IInv OBVIOUS
  <1>1. TypeOK BY ProgramTyped, TimeAssumption DEF Init, TypeOK
  <1>2. Timing BY DEF Init, Timing
  <1> QED BY <1>1, <1>2 DEF Init, IInv, Refusals, NotBegun

LEMMA PrepareKeeps ==
    ASSUME IInv, Prepare
    PROVE  IInv'
  <1>1. prepared + 1 \in 1 .. Len(Steps) BY ProgramTyped DEF IInv, TypeOK, Prepare
  <1>2. Steps[prepared + 1].on \subseteq Payload BY <1>1, ProgramTyped
  <1>3. sized' \subseteq Payload BY <1>2 DEF IInv, TypeOK, Prepare, Sizes
  <1>4. TypeOK' BY <1>1, <1>3 DEF IInv, TypeOK, Prepare, frame
  <1>5. Timing'
    <2>1. stage' = "warmup" /\ UNCHANGED <<Current, frame>>
      BY DEF IInv, NotBegun, Prepare, frame, Current
    <2> QED BY <2>1 DEF IInv, Timing, frame
  <1>6. Refusals' BY DEF IInv, Refusals, Prepare
  <1> QED BY <1>4, <1>5, <1>6 DEF IInv, NotBegun, Prepare, frame

LEMMA PrepareAbortsKeeps ==
    ASSUME IInv, PrepareAborts
    PROVE  IInv'
  <1>1. prepared + 1 \in 1 .. Len(Steps) BY ProgramTyped DEF IInv, TypeOK, PrepareAborts
  <1>2. CallsOf(Steps[prepared + 1]) \subseteq [does : Operation, on : Payload]
    BY <1>1, ProgramTyped, CallsTyped
  <1>3. refused' \subseteq [does : Operation, on : Payload]
    BY <1>2 DEF IInv, TypeOK, PrepareAborts, Refuses
  <1>4. TypeOK' BY <1>3 DEF IInv, TypeOK, PrepareAborts, frame
  <1>5. Timing' BY DEF IInv, Timing, PrepareAborts, frame, Current
  <1>6. prepared' # Len(Steps) BY DEF PrepareAborts, IInv, TypeOK
  <1>7. Refusals' BY <1>6 DEF Refusals, PrepareAborts
  <1> QED BY <1>4, <1>5, <1>7 DEF IInv, NotBegun, PrepareAborts, frame

LEMMA ReportSizesKeeps ==
    ASSUME IInv, ReportSizes
    PROVE  IInv'
  <1>1. timed = 0 /\ timed < Len(Rows) BY ProgramTyped DEF IInv, NotBegun, ReportSizes
  <1>2. TypeOK' BY <1>1 DEF IInv, TypeOK, ReportSizes, frame
  <1>3. Timing'
    <2>1. stage' = "warmup" /\ UNCHANGED <<Current, frame>>
      BY DEF IInv, NotBegun, ReportSizes, frame, Current
    <2> QED BY <2>1 DEF IInv, Timing, frame
  <1>4. Refusals' BY DEF IInv, Refusals, ReportSizes
  <1> QED BY <1>2, <1>3, <1>4 DEF IInv, NotBegun, ReportSizes, frame

-----------------------------------------------------------------------------
LEMMA BodyKeeps ==
    ASSUME IInv, Body
    PROVE  IInv'
  <1>1. PICK time \in 0 .. Longest : clock' = clock + time /\ spent' = spent + time
    BY DEF Body
  <1>2. time \in Nat /\ time <= Longest /\ Longest \in Nat BY TimeAssumption
  <1>3. /\ status = "timing" /\ calls \in Nat /\ count \in Nat /\ spent \in Nat
        /\ clock \in Nat /\ start \in 0 .. clock
    BY DEF IInv, TypeOK, Body, Calling
  <1>4. held' \in Nat
    BY DEF IInv, TypeOK, Body, Fills
  <1>5. sized' \subseteq Payload
    BY <1>3, CurrentTyped DEF IInv, TypeOK, Body, Sizes
  <1>6. start \in 0 .. clock' BY <1>1, <1>2, <1>3
  <1>7. TypeOK'
    BY <1>1, <1>2, <1>3, <1>4, <1>5, <1>6 DEF IInv, TypeOK, Body
  <1>8. Timing'
    <2>1. UNCHANGED <<Current, stage, sample, start, best, samples>> BY DEF Body, Current
    <2>2. calls' = calls + 1 /\ count' = count + 1 BY DEF Body
    <2>3. stage = "sample" =>
            /\ sample < kBenchmarkSamples /\ clock - start = spent
            /\ spent <= count * Longest /\ count < Current.iterations
      BY DEF IInv, Timing, Body, Calling
    <2>4. (count + 1) * Longest = count * Longest + Longest
      BY <1>2, <1>3
    <2>5. count * Longest \in Nat BY <1>2, <1>3
    <2>6. stage = "sample" => spent' <= count' * Longest
      <3> DEFINE past == count * Longest
                 now == (count + 1) * Longest
      <3>1. now = past + Longest /\ past \in Nat /\ count' * Longest = now
        BY <2>2, <2>4, <2>5
      <3>2. stage = "sample" => spent <= past BY <2>3
      <3> HIDE DEF past, now
      <3> QED BY <1>1, <1>2, <1>3, <3>1, <3>2
    <2>7. Current.iterations \in Nat BY <1>3, CurrentTyped DEF IInv
    <2>8. stage = "sample" => clock' - start = spent'
      BY <1>1, <1>2, <1>3, <2>3
    <2>9. stage = "sample" => count' <= Current.iterations
      BY <1>3, <2>2, <2>3, <2>7
    <2>10. calls' # 0 BY <1>3, <2>2
    <2>11. stage = "warmup" => calls' = count' /\ sample = 0
      BY <2>2 DEF IInv, Timing
    <2> QED BY <2>1, <2>3, <2>6, <2>8, <2>9, <2>10, <2>11 DEF IInv, Timing
  <1>9. Refusals' BY <1>3 DEF IInv, Refusals, Body
  <1> QED BY <1>3, <1>4, <1>7, <1>8, <1>9 DEF IInv, NotBegun, Body

LEMMA BodyAbortsKeeps ==
    ASSUME IInv, BodyAborts
    PROVE  IInv'
  <1>1. status = "timing" /\ status' = "aborted" /\ refused = {}
    BY DEF IInv, Refusals, BodyAborts, Calling
  <1>2. prepared = Len(Steps) /\ ~Done(CallOf(Current)) /\ refused' = {CallOf(Current)}
    BY <1>1 DEF IInv, TypeOK, BodyAborts, Refuses
  <1>3. calls = 0 BY <1>1, <1>2 DEF Done
  <1>4. stage = "warmup" BY <1>3 DEF IInv, Timing
  <1>5. \A i \in DOMAIN Steps : CallsOf(Steps[i]) \cap refused' = {}
    BY <1>2, ProgramTyped DEF Done
  <1>6. CallOf(Current) \in [does : Operation, on : Payload]
    BY <1>1, CurrentTyped DEF IInv, CallOf
  <1>7. TypeOK' BY <1>1, <1>2, <1>6 DEF IInv, TypeOK, BodyAborts, frame
  <1>8. Timing' BY DEF IInv, Timing, BodyAborts, frame, Current
  <1>9. Refusals' BY <1>1, <1>3, <1>4, <1>5 DEF Refusals, BodyAborts, frame
  <1> QED BY <1>1, <1>7, <1>8, <1>9 DEF IInv, NotBegun, BodyAborts, frame

LEMMA BeginSampleKeeps ==
    ASSUME IInv, BeginSample
    PROVE  IInv'
  <1>1. /\ status = "timing" /\ calls \in Nat /\ clock \in Nat /\ Longest \in Nat
        /\ sample \in 0 .. kBenchmarkSamples /\ kBenchmarkSamples \in Nat \ {0}
    BY TimeAssumption DEF IInv, TypeOK, BeginSample
  <1>2. start' = clock /\ clock' = clock /\ spent' = 0 /\ count' = 0 /\ stage' = "sample"
    BY DEF BeginSample, Now
  <1>3. Current.iterations \in Nat \ {0} BY <1>1, CurrentTyped DEF IInv
  <1>4. WarmupIterations(Current.iterations) # 0 BY <1>3, WarmupIsPositive
  <1>5. calls # 0 BY <1>4 DEF IInv, Timing, BeginSample, AnotherSample
  <1>6. sample < kBenchmarkSamples
    <2>1. CASE stage = "warmup" BY <2>1, <1>1 DEF IInv, Timing
    <2>2. CASE AnotherSample BY <2>2 DEF AnotherSample
    <2> QED BY <2>1, <2>2 DEF BeginSample
  <1>7. TypeOK'
    <2>1. start' \in 0 .. clock' /\ spent' \in Nat /\ count' \in Nat
      BY <1>1, <1>2
    <2> QED BY <2>1, <1>2 DEF IInv, TypeOK, BeginSample
  <1>8. Timing'
    <2>1. UNCHANGED <<Current, sample, best, samples, calls>> BY DEF BeginSample, Current
    <2>2. clock' - start' = spent' /\ count' <= Current.iterations
          /\ spent' <= count' * Longest
      BY <1>1, <1>2, <1>3
    <2> QED BY <2>1, <2>2, <1>2, <1>5, <1>6 DEF IInv, Timing
  <1>9. Refusals' BY <1>1 DEF IInv, Refusals, BeginSample
  <1> QED BY <1>1, <1>7, <1>8, <1>9 DEF IInv, NotBegun, BeginSample

\* No sample lasts Never, so best is the time of one from the first sample on.
LEMMA EndSampleKeeps ==
    ASSUME IInv, EndSample
    PROVE  IInv'
  <1>1. /\ status = "timing" /\ clock \in Nat /\ start \in 0 .. clock /\ spent \in Nat
        /\ sample \in 0 .. kBenchmarkSamples /\ kBenchmarkSamples \in Nat \ {0}
        /\ best \in 0 .. Never /\ Never \in Nat /\ samples \in Seq(Nat)
    BY TimeAssumption DEF IInv, TypeOK, EndSample
  <1>2. /\ sample < kBenchmarkSamples /\ clock - start = spent /\ Len(samples) = sample
        /\ spent <= Current.iterations * Longest
    BY DEF IInv, Timing, EndSample
  <1>3. spent <= Never
    <2> DEFINE most == Current.iterations * Longest
    <2>1. most <= Never BY <1>1, CurrentTyped DEF IInv
    <2>2. spent <= most BY <1>2
    <2>3. most \in Nat BY <1>1, CurrentTyped, TimeAssumption DEF IInv
    <2> HIDE DEF most
    <2> QED BY <1>1, <2>1, <2>2, <2>3
  <1>4. /\ best' = Least(best, spent) /\ sample' = sample + 1 /\ stage' = "between"
        /\ samples' = Append(samples, spent)
    BY <1>2 DEF EndSample
  <1>5. /\ samples' \in Seq(Nat) /\ Len(samples') = sample + 1
        /\ DOMAIN samples' = 1 .. sample + 1 /\ DOMAIN samples = 1 .. sample
        /\ samples'[sample + 1] = spent
        /\ \A i \in 1 .. sample : samples'[i] = samples[i]
    BY <1>1, <1>2, <1>4
  <1>6. \A i \in DOMAIN samples : samples[i] \in Nat
    BY <1>1, <1>2, <1>5
  <1>7. TypeOK'
    BY <1>1, <1>2, <1>3, <1>4, <1>5 DEF IInv, TypeOK, EndSample, Least
  <1>8. \A i \in DOMAIN samples' : best' <= samples'[i]
    <2> SUFFICES ASSUME NEW i \in 1 .. sample + 1 PROVE best' <= samples'[i]
      BY <1>5
    <2>1. best' <= best /\ best' <= spent BY <1>1, <1>4 DEF Least
    <2>2. CASE i = sample + 1 BY <2>1, <2>2, <1>5
    <2>3. CASE i # sample + 1
      <3>1. i \in 1 .. sample BY <2>3, <1>1
      <3>2. best <= samples[i] BY <3>1, <1>5 DEF IInv, Timing
      <3>3. best' \in Nat BY <1>1, <1>4 DEF Least
      <3> QED BY <2>1, <3>1, <3>2, <3>3, <1>1, <1>5, <1>6
    <2> QED BY <2>2, <2>3
  <1>9. \E i \in DOMAIN samples' : best' = samples'[i]
    <2>1. CASE best' = spent BY <2>1, <1>1, <1>5
    <2>2. CASE best' # spent
      <3>1. best' = best /\ best < spent BY <2>2, <1>4 DEF Least
      <3>2. sample # 0 BY <3>1, <1>1, <1>3 DEF IInv, Timing
      <3>3. PICK i \in DOMAIN samples : best = samples[i] BY <3>2 DEF IInv, Timing
      <3> QED BY <3>1, <3>3, <1>1, <1>5
    <2> QED BY <2>1, <2>2
  <1>10. Timing'
    <2>1. stage # "warmup" /\ calls' = calls BY DEF EndSample
    <2>2. sample' # 0 BY <1>1, <1>4
    <2> QED BY <2>1, <2>2, <1>4, <1>5, <1>8, <1>9 DEF IInv, Timing
  <1>11. Refusals' BY <1>1 DEF IInv, Refusals, EndSample
  <1> QED BY <1>1, <1>7, <1>10, <1>11 DEF IInv, NotBegun, EndSample

LEMMA PrintRowKeeps ==
    ASSUME IInv, PrintRow
    PROVE  IInv'
  <1>1. /\ status = "timing" /\ prepared = Len(Steps) /\ timed \in Nat /\ timed < Len(Rows)
        /\ Never \in Nat /\ kBenchmarkSamples \in Nat
    BY TimeAssumption DEF IInv, TypeOK, PrintRow
  <1>0. Len(Rows) \in Nat BY ProgramTyped
  <1>2. timed' = timed + 1 /\ status' \in {"timing", "finished"}
        /\ (status' = "timing" => timed' # Len(Rows))
    BY DEF PrintRow, NextBenchmark
  <1>3. timed' \in 0 .. Len(Rows) /\ (status' = "timing" => timed' < Len(Rows))
    <2> DEFINE last == Len(Rows)
    <2> last \in Nat BY <1>0
    <2>1. timed < last /\ (status' = "timing" => timed' # last) BY <1>1, <1>2
    <2> HIDE DEF last
    <2>2. timed' \in 0 .. last /\ (status' = "timing" => timed' < last) BY <1>1, <1>2, <2>1
    <2> QED BY <2>2 DEF last
  <1>4. TypeOK'
    BY <1>1, <1>2, <1>3 DEF IInv, TypeOK, PrintRow
  <1>5. Timing' BY DEF Timing, PrintRow
  <1>6. Refusals' BY <1>1, <1>2 DEF IInv, Refusals, PrintRow
  <1>7. NotBegun' BY <1>2 DEF NotBegun
  <1> QED BY <1>4, <1>5, <1>6, <1>7 DEF IInv, PrintRow

-----------------------------------------------------------------------------
LEMMA NextKeeps ==
    ASSUME IInv, [Next]_vars
    PROVE  IInv'
  <1>1. CASE Next
    BY <1>1, PrepareKeeps, PrepareAbortsKeeps, ReportSizesKeeps, BodyKeeps, BodyAbortsKeeps,
       BeginSampleKeeps, EndSampleKeeps, PrintRowKeeps DEF Next
  <1>2. CASE UNCHANGED vars
    <2>1. UNCHANGED Current BY <1>2 DEF vars, Current
    <2>2. TypeOK' BY <1>2 DEF IInv, TypeOK, vars
    <2>3. Timing' BY <1>2, <2>1 DEF IInv, Timing, vars
    <2>4. Refusals' BY <1>2 DEF IInv, Refusals, vars
    <2>5. NotBegun' BY <1>2 DEF IInv, NotBegun, vars
    <2> QED BY <2>2, <2>3, <2>4, <2>5 DEF IInv
  <1> QED BY <1>1, <1>2

LEMMA Inductive == Spec => []IInv
  BY InitHolds, NextKeeps, PTL DEF Spec

\* Every variable of the program keeps its type; best never exceeds
\* nanoseconds::max(), and no benchmark takes more samples than main asks for.
THEOREM TypeCorrect == Spec => []TypeOK
  <1>1. IInv => TypeOK BY DEF IInv
  <1> QED BY <1>1, Inductive, PTL

\* The row that BenchResult::Print prints is the least of kBenchmarkSamples samples,
\* each the time of its own calls and of no others.
THEOREM BestIsFastest == Spec => []BestOfSamples
  <1>1. IInv => BestOfSamples
    <2> SUFFICES ASSUME IInv, sample = kBenchmarkSamples PROVE BestOfSamples
      BY DEF BestOfSamples
    <2>1. sample # 0 BY TimeAssumption
    <2> QED BY <2>1 DEF IInv, Timing, BestOfSamples
  <1> QED BY <1>1, Inductive, PTL

\* Whatever calls a library refuses, the program meets the refusal in a call that it
\* makes for the first time, never in a timed one and never for a prepared payload.
THEOREM AbortsComeEarly == Spec => []AbortsBeforeTiming
  <1>1. ASSUME IInv PROVE AbortsBeforeTiming
    <2>1. status \in {"preparing", "timing", "finished", "aborted"} BY <1>1 DEF IInv, TypeOK
    <2> QED BY <1>1, <2>1 DEF IInv, Refusals, AbortsBeforeTiming
  <1> QED BY <1>1, Inductive, PTL

\* Whether the library appends to an object or replaces what it holds, all calls of
\* a benchmark do the same work, as long as no lambda fills a captured object as it
\* is.  main.cc sees to that lambda by lambda (CppProgram), the library has no part
\* in it.
THEOREM CallsStayAlike ==
    ASSUME ObjectsCleared
    PROVE  Spec => []CallsAlike
  <1>1. Init => CallsAlike BY DEF Init, CallsAlike
  <1>2. ASSUME IInv, CallsAlike, [Next]_vars PROVE CallsAlike'
    <2>1. CASE Body
      <3>1. timed + 1 \in DOMAIN Rows
        BY <1>2, <2>1, ProgramTyped DEF IInv, TypeOK, Body, Calling
      <3>2. Current.object # "kept" BY <3>1 DEF ObjectsCleared, Current
      <3>3. held' = 1 BY <2>1, <3>2 DEF Body, Fills
      <3> QED BY <3>3 DEF CallsAlike
    <2>2. CASE PrintRow BY <2>2 DEF PrintRow, CallsAlike
    <2>3. CASE UNCHANGED <<held, calls>> BY <1>2, <2>3 DEF CallsAlike
    <2>4. CASE Prepare BY <2>3, <2>4 DEF Prepare, frame
    <2>5. CASE PrepareAborts BY <2>3, <2>5 DEF PrepareAborts, frame
    <2>6. CASE ReportSizes BY <2>3, <2>6 DEF ReportSizes, frame
    <2>7. CASE BodyAborts BY <2>3, <2>7 DEF BodyAborts, frame
    <2>8. CASE BeginSample BY <2>3, <2>8 DEF BeginSample
    <2>9. CASE EndSample BY <2>3, <2>9 DEF EndSample
    <2>10. CASE UNCHANGED vars BY <2>3, <2>10 DEF vars
    <2> QED BY <1>2, <2>1, <2>2, <2>4, <2>5, <2>6, <2>7, <2>8, <2>9, <2>10 DEF Next
  <1> QED BY <1>1, <1>2, Inductive, PTL DEF Spec

\* SerializeWithCachedSizes finds the sizes of every deterministic benchmark: a step
\* of the preparation or an earlier benchmark has serialized its message.  main.cc
\* sees to it by the order of its calls (CppProgram), the library has no part in it.
THEOREM SizesComeFirst ==
    ASSUME SizedBefore
    PROVE  Spec => []SizesCachedFirst
  <1>1. Init => SizedInv BY DEF Init, SizedInv
  <1>2. ASSUME IInv, SizedInv, [Next]_vars PROVE SizedInv'
    <2>1. CASE Prepare
      <3>1. prepared' = prepared + 1 /\ timed' = timed /\ calls' = calls
        BY <2>1 DEF Prepare, frame
      <3>2. sized' = IF Steps[prepared + 1].does \in {"encode", "array"}
                     THEN sized \cup Steps[prepared + 1].on ELSE sized
        BY <2>1 DEF Prepare, Sizes
      <3>3. prepared \in Nat /\ timed = 0 /\ calls = 0
        BY <1>2, <2>1 DEF IInv, TypeOK, NotBegun, Prepare
      <3>4. \A i \in 1 .. prepared' : i \in 1 .. prepared \/ i = prepared + 1
        BY <3>1, <3>3
      <3> QED BY <1>2, <3>1, <3>2, <3>3, <3>4 DEF SizedInv, Serializes
    <2>2. CASE Body
      <3>1. prepared' = prepared /\ timed' = timed /\ calls' = calls + 1
        BY <2>2 DEF Body
      <3>2. sized' = IF Rows[timed + 1].does \in {"encode", "array"}
                     THEN sized \cup {Rows[timed + 1].on} ELSE sized
        BY <2>2 DEF Body, Sizes, Current
      <3> QED BY <1>2, <3>1, <3>2 DEF SizedInv, Serializes
    <2>3. CASE PrintRow
      <3>1. prepared' = prepared /\ timed' = timed + 1 /\ calls' = 0 /\ sized' = sized
        BY <2>3 DEF PrintRow, NextBenchmark
      <3>2. calls # 0 /\ timed \in Nat
        BY <1>2, <2>3 DEF IInv, Timing, TypeOK, PrintRow
      <3>3. \A i \in 1 .. timed' : i \in 1 .. timed \/ i = timed + 1
        BY <3>1, <3>2
      <3> QED BY <1>2, <3>1, <3>2, <3>3 DEF SizedInv
    <2>4. CASE UNCHANGED <<prepared, timed, sized, calls>>
      BY <1>2, <2>4 DEF SizedInv
    <2>5. CASE PrepareAborts BY <2>4, <2>5 DEF PrepareAborts, frame
    <2>6. CASE ReportSizes BY <2>4, <2>6 DEF ReportSizes, frame
    <2>7. CASE BodyAborts BY <2>4, <2>7 DEF BodyAborts, frame
    <2>8. CASE BeginSample BY <2>4, <2>8 DEF BeginSample
    <2>9. CASE EndSample BY <2>4, <2>9 DEF EndSample
    <2>10. CASE UNCHANGED vars BY <2>4, <2>10 DEF vars
    <2> QED BY <1>2, <2>1, <2>2, <2>3, <2>5, <2>6, <2>7, <2>8, <2>9, <2>10 DEF Next
  <1>3. ASSUME IInv, SizedInv PROVE SizesCachedFirst
    <2> SUFFICES ASSUME Calling, Current.does = "deterministic" PROVE Current.on \in sized
      BY DEF SizesCachedFirst
    <2>1. prepared = Len(Steps) /\ timed \in Nat /\ timed + 1 \in 1 .. Len(Rows)
      BY <1>3, ProgramTyped DEF IInv, TypeOK, Calling
    <2>2. DOMAIN Rows = 1 .. Len(Rows) /\ DOMAIN Steps = 1 .. prepared
      BY <2>1, ProgramTyped
    <2>3. \/ \E i \in 1 .. prepared : Serializes(Steps[i]) /\ Current.on \in Steps[i].on
          \/ \E i \in 1 .. timed : Serializes(Rows[i]) /\ Current.on = Rows[i].on
      <3>1. timed + 1 \in DOMAIN Rows BY <2>1, <2>2
      <3>2. (timed + 1) - 1 = timed BY <2>1
      <3> QED BY <2>2, <3>1, <3>2 DEF SizedBefore, Current
    <2> QED BY <1>3, <2>3 DEF SizedInv
  <1> QED BY <1>1, <1>2, <1>3, Inductive, PTL DEF Spec

\* Multiplying by 257 modulo 1024 hits every index (769 undoes it), so the map that
\* is filled in shuffled order has every entry of the other.
THEOREM ShuffleKeepsMap == Spec => []ShuffledIsSame
  <1>1. \A k \in Index : \E i \in Index : k = ShuffledLargeMapIndex(i)
    <2> SUFFICES ASSUME NEW k \in Index
                 PROVE  \E i \in Index : k = ShuffledLargeMapIndex(i)
      OBVIOUS
    <2>1. k \in 0 .. 1023 BY DEF Index, kLargeMapEntryCount
    <2> DEFINE i == (769 * k + 881) % 1024
    <2>2. i \in 0 .. 1023 BY <2>1
    <2>3. (i * 257 + 911) % 1024 = k BY <2>1
    <2>4. i \in Index /\ k = ShuffledLargeMapIndex(i)
      BY <2>2, <2>3 DEF Index, ShuffledLargeMapIndex, kLargeMapEntryCount,
         kLargeMapShuffleMultiplier, kLargeMapShuffleIncrement
    <2> QED BY <2>4
  <1>2. \A i \in Index : ShuffledLargeMapIndex(i) \in Index
    BY DEF Index, ShuffledLargeMapIndex, kLargeMapEntryCount,
       kLargeMapShuffleMultiplier, kLargeMapShuffleIncrement
  <1>3. {ShuffledLargeMapIndex(i) : i \in Index} = Index BY <1>1, <1>2
  <1>4. ShuffledIsSame BY <1>3 DEF ShuffledIsSame, MakeShuffledLargeMap, MakeLargeMap
  <1> QED BY <1>4, PTL
=============================================================================
