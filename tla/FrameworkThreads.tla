-------------------------- MODULE FrameworkThreads --------------------------
(* The threads that call into the framework: those of the application and those of
   an executor. *)
EXTENDS Integers, FiniteSets

CONSTANTS
  Threads,
  NoThread     \* what stands for a thread where there is none

ASSUME ThreadsAssumption == IsFiniteSet(Threads) /\ NoThread \notin Threads
=============================================================================
