---------------------------- MODULE MCRefCount ----------------------------
(* RefCount for TLC: the values of the constants are in the cfgs.          *)
EXTENDS RefCount, TLC

\* Handles other than the first are alike.
HandleSymmetry == Permutations(Handles \ {First})
===========================================================================
