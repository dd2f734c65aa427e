--------------------------- MODULE MCCpuProfiler ---------------------------
(* Model-checking instance of CpuProfiler.  Threads are model values; the   *)
(* threads are interchangeable, so safety runs may use ThreadSymmetry.     *)
EXTENDS CpuProfiler, TLC

ThreadSymmetry == Permutations(Threads)
=============================================================================
