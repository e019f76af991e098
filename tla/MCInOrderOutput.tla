--------------------------- MODULE MCInOrderOutput ---------------------------
(* InOrderOutput for TLC: three input timestamps, two invocations in parallel. *)
EXTENDS InOrderOutput, TLC
=============================================================================
