-------------------------- MODULE MCSchedulerQueue --------------------------
(* SchedulerQueue for TLC: the threads and the items are interchangeable. *)
EXTENDS SchedulerQueue, TLC

Symmetry == Permutations(Threads) \cup Permutations(Items)
=============================================================================
