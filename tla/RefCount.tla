----------------------------- MODULE RefCount -----------------------------
(***************************************************************************)
(* bs_ref, the counter behind bs_ptrref and the copy-on-write containers,  *)
(* and the handles that share one block through it, each used by a thread  *)
(* of its own.  lessref() reads the counter and decrements it in two       *)
(* atomic steps; everything else is one step.  The block is not empty:     *)
(* bs_list::copy() does nothing for an empty one.                          *)
(***************************************************************************)
EXTENDS Integers, FiniteSets

CONSTANTS
    Handles,    \* the handles that may share the block
    First,      \* the handle that made the block
    DetachBit   \* refDetach, 2^30 in the code

\* Fewer handles than refDetach: the code's counter has room for 2^30.
ASSUME RefAssumptions ==
    /\ First \in Handles
    /\ IsFiniteSet(Handles)
    /\ DetachBit \in Nat /\ Cardinality(Handles) <= DetachBit

VARIABLES
    detach, \* the block was made with refShareableDetach
    ref,    \* bs_ref::ref
    state,  \* what each handle does with the block
    freed   \* history: how often the block was freed

vars == <<detach, ref, state, freed>>

refShareable == 0
Base == IF detach THEN refShareable + DetachBit ELSE refShareable

\* ref & refMask in two's complement: bit 30 is set in small negative numbers.
Count(r) == IF 0 <= r /\ r < DetachBit THEN r ELSE r - DetachBit

is_shared == Count(ref) > refShareable
has_detach == ref < 0 \/ ref >= DetachBit

States == {"none",     \* has no part in the block
           "held",     \* shares it
           "writing",  \* writes it in place
           "copying",  \* copies it to write the copy
           "checked",  \* in lessref(), past the test of the counter
           "last"}     \* lessref() returned true
---------------------------------------------------------------------------
Init ==
    /\ detach \in BOOLEAN
    /\ ref = Base
    /\ state = [h \in Handles |-> IF h = First THEN "held" ELSE "none"]
    /\ freed = 0

Goes(h, from, to) == state[h] = from /\ state' = [state EXCEPT ![h] = to]

\* Mutant: the block's pointer is copied without addref().
CopyUncounted(g, h) ==
    /\ state[g] = "held"
    /\ Goes(h, "none", "held")
    /\ UNCHANGED <<detach, ref, freed>>

\* A copy of the handle: addref().
Copy(g, h) ==
    /\ state[g] = "held"
    /\ Goes(h, "none", "held")
    /\ ref' = ref + 1
    /\ UNCHANGED <<detach, freed>>

\* The move constructor and assignment of C++11.
Move(g, h) ==
    /\ state[g] = "held"
    /\ state[h] = "none"
    /\ state' = [state EXCEPT ![g] = "none", ![h] = "held"]
    /\ UNCHANGED <<detach, ref, freed>>

\* Mutant: detach() decides from refDetach alone.
WriteInPlace(h) ==
    /\ Goes(h, "held", "writing")
    /\ UNCHANGED <<detach, ref, freed>>

\* detach() before a write.
Write(h) ==
    /\ Goes(h, "held", IF has_detach /\ is_shared THEN "copying" ELSE "writing")
    /\ UNCHANGED <<detach, ref, freed>>

Written(h) ==
    /\ Goes(h, "writing", "held")
    /\ UNCHANGED <<detach, ref, freed>>

\* lessref(): the test of the counter.
Check(h) ==
    /\ \/ Goes(h, "held", IF Count(ref) = 0 THEN "last" ELSE "checked")
       \/ Goes(h, "copying", IF Count(ref) = 0 THEN "last" ELSE "checked")
    /\ UNCHANGED <<detach, ref, freed>>

\* Mutants: the counter is decremented without looking at the result, or the
\* handle that takes it to zero frees the block.
DecrementOnly(h) ==
    /\ Goes(h, "checked", "none")
    /\ ref' = ref - 1
    /\ UNCHANGED <<detach, freed>>

LastAtZero(h) ==
    /\ Goes(h, "checked", IF ref - 1 <= 0 THEN "last" ELSE "none")
    /\ ref' = ref - 1
    /\ UNCHANGED <<detach, freed>>

\* lessref(): the decrement and the test of its result.
Decrement(h) ==
    /\ Goes(h, "checked", IF ref - 1 < 0 THEN "last" ELSE "none")
    /\ ref' = ref - 1
    /\ UNCHANGED <<detach, freed>>

Free(h) ==
    /\ Goes(h, "last", "none")
    /\ freed' = freed + 1
    /\ UNCHANGED <<detach, ref>>

Next ==
    \E h \in Handles :
        \/ \E g \in Handles : Copy(g, h) \/ Move(g, h)
        \/ Write(h) \/ Written(h)
        \/ Check(h) \/ Decrement(h) \/ Free(h)

Spec == Init /\ [][Next]_vars
---------------------------------------------------------------------------
\* The handles that may still touch the block and its counter.
Users == {h \in Handles : state[h] \in {"held", "writing", "copying", "checked"}}
Last == {h \in Handles : state[h] = "last"}

\* The type of the state.
TypeOK ==
    /\ detach \in BOOLEAN
    /\ ref \in Int
    /\ state \in [Handles -> States]
    /\ freed \in Nat

\* However the two steps of several lessref() interleave, with copies between
\* them, the block is freed at most once and after everybody's last use.
FreedOnce ==
    /\ freed <= 1
    /\ freed = 1 \/ Last # {} => Users = {}
    /\ Cardinality(Last) + freed <= 1

\* bs_define.h:22, the counter "manages" the objects: the last handle to let go
\* of a block frees it.
NoLeak == Users = {} => freed = 1 \/ Last # {}

\* A block made with refShareable is freed by the last handle that lets go,
\* although two may pass the test of the counter before either decrements it.
ShareableFreed == ~detach => NoLeak

\* Copy-on-write: nobody else uses the block that a handle writes in place.
WriterAlone == detach => \A h \in Handles : state[h] = "writing" => Users = {h}
---------------------------------------------------------------------------
\* The counter counts the users, as long as nobody was told to free the block.
RefInv ==
    /\ Last = {} /\ freed = 0 => ref = Base + Cardinality(Users) - 1
    /\ ~detach /\ Last = {} /\ freed = 0 => Users # {}
    /\ FreedOnce
    /\ WriterAlone
===========================================================================
