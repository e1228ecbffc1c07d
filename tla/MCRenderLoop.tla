--------------------------- MODULE MCRenderLoop ---------------------------
(* RenderLoop for TLC: the values of the constants are in the cfgs.        *)
EXTENDS RenderLoop, TLC

\* Nothing distinguishes one render thread from another but its birth.
ThreadSymmetry == Permutations(Threads)
===========================================================================
