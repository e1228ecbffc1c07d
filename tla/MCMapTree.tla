----------------------------- MODULE MCMapTree -----------------------------
(* MapTree for TLC: the values of the constants are in the cfgs.           *)
EXTENDS MapTree
===========================================================================
