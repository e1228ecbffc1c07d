------------------------------ MODULE MCTimer ------------------------------
(* Timer for TLC: the values of the constants are in the cfgs.             *)
EXTENDS Timer
============================================================================
