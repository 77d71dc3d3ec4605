---------------------------- MODULE MCCppBenchmark ----------------------------
(***************************************************************************)
(* The program of main.cc for TLC.                                         *)
(***************************************************************************)
EXTENDS CppBenchmarkSafety, CppProgram
=============================================================================
