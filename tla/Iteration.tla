----------------------------- MODULE Iteration -----------------------------
(***************************************************************************)
(* A loop as a function of what it works on, repeated.  A step that has    *)
(* nothing left to do changes nothing, so that more steps than the loop    *)
(* takes do no harm.                                                       *)
(***************************************************************************)
EXTENDS Integers

Iterate(f, x, k) ==
    LET g[i \in Nat] == IF i = 0 THEN x ELSE f[g[i - 1]]
    IN  g[k]
===========================================================================
