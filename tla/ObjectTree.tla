---------------------------- MODULE ObjectTree ----------------------------
(***************************************************************************)
(* bs_object: parents and children, connections, and the counter that      *)
(* destroys an object.  One thread, but every call may be made inside a    *)
(* callback of an emission under way.  An object's memory is not used      *)
(* again.  A fault, the use of a null pointer or of freed memory, ends the *)
(* behaviour: nothing is known of the state after it.                      *)
(***************************************************************************)
EXTENDS Integers, Sequences, FiniteSets

CONSTANTS
    Objects,   \* the bs_objects ever made
    None,      \* the null pointer
    MaxRefs,   \* bound: references of an object beyond the first
    MaxDepth,  \* bound: emissions within emissions
    MaxLinks   \* bound: children and connections at a time

ASSUME ObjectAssumptions ==
    /\ None \notin Objects
    /\ MaxRefs \in Nat /\ MaxDepth \in Nat /\ MaxLinks \in Nat

VARIABLES
    life,     \* of each object: not made yet, alive, freed
    ref,      \* impl::object's own counter
    parent,   \* impl::object::parent
    child,    \* impl::object::child
    slot,     \* impl::object::slot, the objects it calls
    sig,      \* impl::object::sig, the object that calls it
    emitting, \* the emit() under way, the innermost last
    fault,    \* a null or dangling pointer was used
    broke     \* history: a caller broke one of the Rules below

tree == <<parent, child>>
nexus == <<slot, sig>>
vars == <<life, ref, tree, nexus, emitting, fault, broke>>

Elems(s) == {s[i] : i \in DOMAIN s}
Distinct(s) == \A i, j \in DOMAIN s : s[i] = s[j] => i = j

\* bs_list::remove of the element e, which is there at most once.
Without(s, e) ==
    IF e \notin Elems(s) THEN s
    ELSE LET k == CHOOSE i \in DOMAIN s : s[i] = e
         IN  [i \in 1 .. Len(s) - 1 |-> IF i < k THEN s[i] ELSE s[i + 1]]

Links(lists) == {l \in Objects \X Objects : l[2] \in Elems(lists[l[1]])}
Room == Cardinality(Links(child)) + Cardinality(Links(slot)) < MaxLinks

Live(o) == life[o] = "live"
Dead(o) == life[o] = "dead"

\* An emission: who emits, the object whose callback runs (None when its node
\* of the slot was freed), and as history, among those connected all along, whom
\* it owes a call and whom it called.
Frame(s) ==
    [from |-> s, cursor |-> Head(slot[s]),
     owed |-> Elems(slot[s]) \ {Head(slot[s])}, served |-> {Head(slot[s])}]

Init ==
    /\ life = [o \in Objects |-> "none"]
    /\ ref = [o \in Objects |-> 0]
    /\ parent = [o \in Objects |-> None]
    /\ child = [o \in Objects |-> <<>>]
    /\ slot = [o \in Objects |-> <<>>]
    /\ sig = [o \in Objects |-> None]
    /\ emitting = <<>>
    /\ fault = FALSE
    /\ broke = FALSE

Faults == fault' = TRUE /\ UNCHANGED <<life, ref, tree, nexus, emitting>>
Keeps == fault' = fault
Breaks(rule) == broke' = (broke \/ rule)
Obeys == broke' = broke
---------------------------------------------------------------------------
(* Rules under which the code uses no dangling pointer.  The comments of   *)
(* the class have none of them.                                            *)

\* An object is destroyed after its children, after the objects it was the
\* last to connect, and not while it emits or its callback runs.
Entangled(o) ==
    \/ child[o] # <<>>
    \/ \E p \in Objects : p # o /\ Live(p) /\ sig[p] = o
    \/ \E i \in DOMAIN emitting : o \in {emitting[i].from, emitting[i].cursor}

\* lessref() needs an object that was connected once, and knows one signaler.
ConnectedTwice(s, o) == \E t \in Objects : t # s /\ Live(t) /\ o \in Elems(slot[t])
---------------------------------------------------------------------------
(* The children's list.                                                    *)

\* remove(it) erases the child and then writes into the children of the
\* parent's own parent (bs_object.cpp:100), which may be gone.
RemoveFaults(p) ==
    LET g == parent[p]
    IN  /\ g # None
        /\ Dead(g) \/ \E c \in Elems(child[g]) : Dead(c)

\* bs_object(parent).
New(o, p) ==
    /\ life[o] = "none"
    /\ p # None => Live(p) /\ Room
    /\ life' = [life EXCEPT ![o] = "live"]
    /\ parent' = [parent EXCEPT ![o] = p]
    /\ child' = IF p = None THEN child
                ELSE [child EXCEPT ![p] = Append(@, o)]
    /\ Keeps /\ Obeys
    /\ UNCHANGED <<ref, nexus, emitting>>

\* Mutant: the old parent keeps the child.
ParentOnly(o, p) ==
    /\ Live(o) /\ Live(p)
    /\ parent' = [parent EXCEPT ![o] = p]
    /\ child' = IF o \in Elems(child[p]) THEN child
                ELSE [child EXCEPT ![p] = Append(@, o)]
    /\ Keeps /\ Obeys
    /\ UNCHANGED <<life, ref, nexus, emitting>>

\* parent(p): away from the old parent, then to the end of the new one's list.
Reparent(o, p) ==
    LET old == parent[o]
        removed == IF old = None THEN child
                   ELSE [child EXCEPT ![old] = Without(child[old], o)]
    IN  /\ Live(o) /\ Live(p)
        /\ Room
        /\ IF old # None /\ (Dead(old) \/ RemoveFaults(old))
           THEN Faults
           ELSE /\ parent' = [parent EXCEPT ![o] = p]
                /\ child' = [removed EXCEPT ![p] = Append(removed[p], o)]
                /\ Keeps
                /\ UNCHANGED <<life, ref, nexus, emitting>>
        /\ Obeys

\* parent(NULL) calls append() on the null pointer.
Unparent(o) == Live(o) /\ Faults /\ Breaks(TRUE)
---------------------------------------------------------------------------
(* Connections.                                                            *)

\* Mutant: connect() does not look for the object.
ConnectAgain(s, o) ==
    /\ Live(s) /\ Live(o)
    /\ Room
    /\ slot' = [slot EXCEPT ![s] = Append(@, o)]
    /\ sig' = [sig EXCEPT ![o] = s]
    /\ Breaks(ConnectedTwice(s, o))
    /\ Keeps
    /\ UNCHANGED <<life, ref, tree, emitting>>

Connect(s, o) ==
    /\ Live(s) /\ Live(o)
    /\ Room
    /\ IF o \in Elems(slot[s]) THEN UNCHANGED nexus
       ELSE /\ slot' = [slot EXCEPT ![s] = Append(@, o)]
            /\ sig' = [sig EXCEPT ![o] = s]
    /\ Breaks(ConnectedTwice(s, o))
    /\ Keeps
    /\ UNCHANGED <<life, ref, tree, emitting>>

\* What the emissions of s know once o is no longer in its slot.
Forgotten(s, o) ==
    [i \in DOMAIN emitting |->
        LET f == emitting[i]
        IN  IF f.from # s THEN f
            ELSE [f EXCEPT !.cursor = IF f.cursor = o THEN None ELSE f.cursor,
                           !.owed = f.owed \ {o},
                           !.served = f.served \ {o}]]

Calling(s, o) == \E i \in DOMAIN emitting : emitting[i].from = s /\ emitting[i].cursor = o

Disconnect(s, o) ==
    /\ Live(s) /\ Live(o)
    /\ slot' = [slot EXCEPT ![s] = Without(slot[s], o)]
    /\ emitting' = Forgotten(s, o)
    /\ Breaks(Calling(s, o))
    /\ Keeps
    /\ UNCHANGED <<life, ref, tree, sig>>

\* emit() calls the first of its slot.
Emit(s) ==
    /\ Live(s)
    /\ slot[s] # <<>>
    /\ Len(emitting) < MaxDepth
    /\ IF Dead(Head(slot[s])) THEN Faults
       ELSE /\ emitting' = Append(emitting, Frame(s))
            /\ Keeps
            /\ UNCHANGED <<life, ref, tree, nexus>>
    /\ Obeys

Index(s, e) == CHOOSE i \in DOMAIN s : s[i] = e
Outer == SubSeq(emitting, 1, Len(emitting) - 1)

\* Mutant: the loop ends at the last node, and not past it.
AtLastNode(f) == Index(slot[f.from], f.cursor) + 1 >= Len(slot[f.from])

\* The callback was the last of the slot's.
AtEnd(f) == f.cursor = slot[f.from][Len(slot[f.from])]

\* A callback returns, and emit() goes to the node after the one it holds: it
\* returns, or calls the next object, one added meanwhile included.
CallbackReturns ==
    LET f == emitting[Len(emitting)]
        s == f.from
        next == slot[s][Index(slot[s], f.cursor) + 1]
    IN  /\ emitting # <<>>
        /\ \/ /\ Dead(s) \/ f.cursor = None
              /\ Faults
           \/ /\ ~Dead(s) /\ f.cursor # None
              /\ AtEnd(f)
              /\ emitting' = Outer
              /\ Keeps
              /\ UNCHANGED <<life, ref, tree, nexus>>
           \/ /\ ~Dead(s) /\ f.cursor # None
              /\ ~AtEnd(f)
              /\ IF Dead(next) THEN Faults
                 ELSE /\ emitting' = Append(Outer,
                             [f EXCEPT !.cursor = next,
                                       !.owed = f.owed \ {next},
                                       !.served = f.served \cup (f.owed \cap {next})])
                      /\ Keeps
                      /\ UNCHANGED <<life, ref, tree, nexus>>
        /\ Obeys
---------------------------------------------------------------------------
(* The end of an object.                                                   *)

\* A bs_ptrref to it is copied.
AddRef(o) ==
    /\ Live(o)
    /\ ref[o] < MaxRefs
    /\ ref' = [ref EXCEPT ![o] = @ + 1]
    /\ Keeps /\ Obeys
    /\ UNCHANGED <<life, tree, nexus, emitting>>

\* Mutant: the counter is not looked at.
LessRefAnyway(o) ==
    /\ Live(o)
    /\ ref' = [ref EXCEPT ![o] = @ - 1]
    /\ Keeps /\ Obeys
    /\ UNCHANGED <<life, tree, nexus, emitting>>

\* A reference that is not the last.
LessRef(o) ==
    /\ Live(o)
    /\ ref[o] > 0
    /\ ref' = [ref EXCEPT ![o] = @ - 1]
    /\ Keeps /\ Obeys
    /\ UNCHANGED <<life, tree, nexus, emitting>>

\* What the freed memory held is not there any more.
Freed(o) ==
    /\ life' = [life EXCEPT ![o] = "dead"]
    /\ parent' = [parent EXCEPT ![o] = None]
    /\ sig' = [sig EXCEPT ![o] = None]

\* The last one: the pointers lessref() follows are the parent, the signaler,
\* and the children, of which one that dies frees the node the loop stands on.
DestroyFaults(o) ==
    \/ parent[o] # None /\ (Dead(parent[o]) \/ RemoveFaults(parent[o]))
    \/ sig[o] = None
    \/ Dead(sig[o])
    \/ \E c \in Elems(child[o]) : c # o /\ (Dead(c) \/ ref[c] = 0)

\* Mutant: the signaler keeps the object in its slot.
DestroyConnected(o) ==
    LET p == parent[o]
    IN  /\ Live(o)
        /\ ref[o] = 0
        /\ IF DestroyFaults(o) THEN Faults
           ELSE /\ child' = [q \in Objects |-> IF q = o THEN <<>>
                                              ELSE IF q = p THEN Without(child[p], o)
                                              ELSE child[q]]
                /\ slot' = [slot EXCEPT ![o] = <<>>]
                /\ Freed(o)
                /\ Keeps
                /\ UNCHANGED <<ref, emitting>>
        /\ Breaks(Entangled(o) \/ sig[o] = None)

\* A child that lives on keeps its pointer to the parent.
Destroy(o) ==
    LET p == parent[o]
        s == sig[o]
    IN  /\ Live(o)
        /\ ref[o] = 0
        /\ IF DestroyFaults(o) THEN Faults
           ELSE /\ child' = [q \in Objects |-> IF q = o THEN <<>>
                                              ELSE IF q = p THEN Without(child[p], o)
                                              ELSE child[q]]
                /\ slot' = [q \in Objects |-> IF q = o THEN <<>>
                                             ELSE IF q = s THEN Without(slot[s], o)
                                             ELSE slot[q]]
                /\ emitting' = Forgotten(s, o)
                /\ ref' = [c \in Objects |->
                              IF c \in Elems(child[o]) \ {o} THEN ref[c] - 1 ELSE ref[c]]
                /\ Freed(o)
                /\ Keeps
        /\ Breaks(Entangled(o) \/ sig[o] = None)

\* The delete of a bs_ptrref to a derived class, whose own counter it uses: the
\* destructor of bs_object does nothing.
Delete(o) ==
    /\ Live(o)
    /\ Freed(o)
    /\ child' = [child EXCEPT ![o] = <<>>]
    /\ slot' = [slot EXCEPT ![o] = <<>>]
    /\ ref' = [ref EXCEPT ![o] = 0]
    /\ Breaks(Entangled(o) \/ parent[o] # None \/ \E s \in Objects : o \in Elems(slot[s]))
    /\ Keeps
    /\ UNCHANGED emitting
---------------------------------------------------------------------------
Counts == \E o \in Objects : AddRef(o) \/ LessRef(o)
Kin == \E o \in Objects :
    \/ \E p \in Objects : New(o, p) \/ Reparent(o, p)
    \/ New(o, None) \/ Unparent(o)
Nexus ==
    \/ \E s, o \in Objects : Connect(s, o) \/ Disconnect(s, o)
    \/ \E s \in Objects : Emit(s)
    \/ CallbackReturns
Ends == \E o \in Objects : Destroy(o) \/ Delete(o)

Next == ~fault /\ (Counts \/ Kin \/ Nexus \/ Ends)

Spec == Init /\ [][Next]_vars
---------------------------------------------------------------------------
Frames ==
    [from : Objects, cursor : Objects \cup {None}, owed : SUBSET Objects, served : SUBSET Objects]

\* The type of the state.
TypeOK ==
    /\ life \in [Objects -> {"none", "live", "dead"}]
    /\ ref \in [Objects -> Nat]
    /\ parent \in [Objects -> Objects \cup {None}]
    /\ child \in [Objects -> Seq(Objects)]
    /\ slot \in [Objects -> Seq(Objects)]
    /\ sig \in [Objects -> Objects \cup {None}]
    /\ emitting \in Seq(Frames)
    /\ fault \in BOOLEAN
    /\ broke \in BOOLEAN

\* bs_object.cpp:15, a parent and its children know each other: whatever was
\* moved, destroyed or deleted, and in which order, the children of a living
\* object are the objects that have it as their parent, each once.
Family ==
    \A p \in Objects : Live(p) =>
        /\ Distinct(child[p])
        /\ \A c \in Elems(child[p]) : Live(c) => parent[c] = p
        /\ \A c \in Objects : Live(c) /\ parent[c] = p => c \in Elems(child[p])

\* A slot has an object once.
SlotsDistinct == \A s \in Objects : Distinct(slot[s])

\* bs_object.h:31, objects "manage themselves": callers that keep to the rules
\* never make the code use a null or dangling pointer, neither in a
\* destruction, nor in a move, nor when a callback returns to emit().
NoFault == fault => broke

\* bs_object.h:27, emit() runs the callbacks of the pool: whatever the callbacks
\* connect, disconnect and emit, an emission that returns has called everyone
\* who was connected all along, and it calls none of them twice.
EmitsToAll ==
    [][emitting # <<>> /\ ~fault' =>
         LET n == Len(emitting)
             f == emitting[n]
         IN  /\ Len(emitting') < n => f.owed = {}
             /\ Len(emitting') = n /\ emitting'[n].cursor \notin {f.cursor, None} =>
                    emitting'[n].cursor \notin f.served]_vars
---------------------------------------------------------------------------
\* Nobody knows an object that was not made.
Unborn ==
    \A o \in Objects : life[o] = "none" =>
        /\ child[o] = <<>> /\ slot[o] = <<>>
        /\ parent[o] = None /\ sig[o] = None
        /\ \A q \in Objects :
              /\ parent[q] # o /\ sig[q] # o
              /\ o \notin Elems(child[q]) /\ o \notin Elems(slot[q])

\* An emission stands on a node of the slot, unless that was freed.
OnNode(f) ==
    /\ life[f.from] # "none"
    /\ Live(f.from) /\ f.cursor # None => f.cursor \in Elems(slot[f.from])
Cursors == \A i \in DOMAIN emitting : OnNode(emitting[i])

\* Behind EmitsToAll: whom an emission still owes a call comes after the node it
\* stands on, and whom it called is not after it.
Between(nodes, f) ==
    \E k \in DOMAIN nodes :
        /\ nodes[k] = f.cursor
        /\ \A o \in f.owed : \E j \in DOMAIN nodes : j > k /\ nodes[j] = o
        /\ \A o \in f.served : \E j \in DOMAIN nodes : j <= k /\ nodes[j] = o
Ordered(f) == Live(f.from) /\ f.cursor # None => Between(slot[f.from], f)
Emissions == \A i \in DOMAIN emitting : Ordered(emitting[i])

\* Behind NoFault: until a rule is broken every pointer
\* that the code will follow leads to a living object.
Sound ==
    /\ ~fault
    /\ \A o \in Objects : Live(o) =>
        /\ parent[o] # None => Live(parent[o])
        /\ sig[o] # None => Live(sig[o])
        /\ \A c \in Elems(child[o]) : Live(c)
        /\ \A p \in Elems(slot[o]) : Live(p) /\ sig[p] = o
    /\ \A i \in DOMAIN emitting :
        /\ Live(emitting[i].from)
        /\ emitting[i].cursor \in Elems(slot[emitting[i].from])

\* The inductive invariant of the pointers, and with the emissions' order.
ObjectInv ==
    /\ TypeOK
    /\ Family
    /\ SlotsDistinct
    /\ Unborn
    /\ Cursors
    /\ ~broke => Sound

Inv == ObjectInv /\ Emissions
===========================================================================
