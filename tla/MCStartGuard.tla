---------------------------- MODULE MCStartGuard ----------------------------
EXTENDS StartGuard, TLC

(* Processes and pids are interchangeable.                                  *)
ProcSymmetry == Permutations(Procs) \cup Permutations(Pids)
=============================================================================
