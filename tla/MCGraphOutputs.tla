--------------------------- MODULE MCGraphOutputs ---------------------------
(* One bound and one packet of a worker, one packet of Close(), two runs. *)
EXTENDS GraphOutputs
=============================================================================
