--------------------------- MODULE MCObjectTree ---------------------------
(* ObjectTree for TLC: the objects may be exchanged.                       *)
EXTENDS ObjectTree, TLC

ObjectSymmetry == Permutations(Objects)
===========================================================================
