---------------------------- MODULE MCListRing ----------------------------
(* ListRing for TLC: the values of the constants are in the cfg.           *)
EXTENDS ListRing, TLC

\* No call looks at the values.
ValueSymmetry == Permutations(Values)
===========================================================================
