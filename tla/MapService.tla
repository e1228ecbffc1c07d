---------------------------- MODULE MapService ----------------------------
(***************************************************************************)
(* What an associative container promises: the items it is iterated over   *)
(* are those inserted and not yet removed, and a removal by key takes all  *)
(* the items of that key.                                                  *)
(***************************************************************************)
EXTENDS FiniteSets

CONSTANTS Items, KeyOf(_)

VARIABLE items

Init == items = {}

Add == \E i \in Items \ items : items' = items \cup {i}

Drop == \E i \in items : items' = items \ {i}

DropKey == \E i \in items : items' = {j \in items : KeyOf(j) # KeyOf(i)}

Next == Add \/ Drop \/ DropKey

Spec == Init /\ [][Next]_items
===========================================================================
