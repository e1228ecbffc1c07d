---------------------------- MODULE MCListCow ----------------------------
(* ListCow for TLC: the values of the constants are in the cfgs.           *)
EXTENDS ListCow, TLC

\* Blocks and values are interchangeable.  Handles are not: Nothing chooses one.
BlockSymmetry == Permutations(Blocks) \cup Permutations(Values)
===========================================================================
