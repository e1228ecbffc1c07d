---------------------------- MODULE FrameService ----------------------------
(***************************************************************************)
(* What a window promises its user about frames: the screen moves forward  *)
(* through the sizes that were asked for, and being told to stop is final. *)
(* It is a promise about the width and about the height: it does not keep  *)
(* the two together, and a frame may be made of sizes of several events.   *)
(***************************************************************************)
EXTENDS Naturals

CONSTANTS Dims,     \* the two components of a size
          Parts     \* those who are given one when a frame is painted

VARIABLES asked,    \* of each component, the newest one asked for
          shown,    \* those the parts of the frame on the screen were given
          stopped   \* the service was told to stop

Init ==
    /\ asked = [d \in Dims |-> 0]
    /\ shown = [p \in Parts |-> [d \in Dims |-> 0]]
    /\ stopped = FALSE

\* One component at a time.
Ask ==
    /\ \E d \in Dims : asked'[d] > asked[d] /\ asked' = [asked EXCEPT ![d] = asked'[d]]
    /\ UNCHANGED <<shown, stopped>>

Stop ==
    /\ stopped' = TRUE
    /\ UNCHANGED <<asked, shown>>

\* No part goes back to an older width or height than it had, and the scenes,
\* the last to be painted, have none that is older than the pipeline's.
Show ==
    /\ shown' \in [Parts -> [Dims -> Nat]]
    /\ \A p \in Parts, d \in Dims : shown[p][d] <= shown'[p][d] /\ shown'[p][d] <= asked[d]
    /\ \A d \in Dims : shown'["viewport"][d] <= shown'["scene"][d]
    /\ UNCHANGED <<asked, stopped>>

Next == Ask \/ Stop \/ Show

Spec == Init /\ [][Next]_<<asked, shown, stopped>>
=============================================================================
