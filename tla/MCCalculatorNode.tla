-------------------------- MODULE MCCalculatorNode --------------------------
(* CalculatorNode for TLC: two threads deliver three input sets to a node of which
   two invocations may run in parallel, so that a third set has to wait. *)
EXTENDS CalculatorNode, TLC
=============================================================================
