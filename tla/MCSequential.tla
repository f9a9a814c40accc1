---------------------------- MODULE MCSequential ----------------------------
(***************************************************************************)
(* What the connector computes without waiting for anything: its pure       *)
(* functions, one input at a time, and every sequence of operations on the  *)
(* dedupe cache.  A behaviour is about one or the other.                    *)
(***************************************************************************)
EXTENDS Rules, DedupeCache, TLC

SequentialInit == Init /\ CacheInit

Evaluates == CacheInit /\ Next /\ UNCHANGED caching
UsesCache == Init /\ CacheNext /\ UNCHANGED input

SequentialNext == Evaluates \/ UsesCache

SequentialSpec == SequentialInit /\ [][SequentialNext]_<<input, caching>>

KeySymmetry == Permutations(Required)
=============================================================================
