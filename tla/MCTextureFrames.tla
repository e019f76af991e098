--------------------------- MODULE MCTextureFrames ---------------------------
(* A pool of two frames that the application may make smaller, two cameras *)
(* and a context that reads.                                               *)
EXTENDS TextureFrames

Symmetric == Permutations(Frames) \cup Permutations(Readers)
=============================================================================
