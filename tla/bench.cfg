SPECIFICATION Spec
CONSTANTS
  kIterations = 2
  UnknownIterations = 1
  kUnknownFieldStressCount = 144
  Payloads <- MainPayloads
  Preparation <- MainPreparation
  Benchmarks <- MainBenchmarks
  kBenchmarkSamples = 3
  Longest = 1
  Never = 3
INVARIANTS BestOfSamples AbortsBeforeTiming SizesCachedFirst CallsAlike FixturesAgree
CHECK_DEADLOCK FALSE
