---------------------------- MODULE MCGlContexts ----------------------------
(* Three contexts, so that one can wait for two that wait for each other,  *)
(* and a thread without a context.                                         *)
EXTENDS GlContexts
=============================================================================
