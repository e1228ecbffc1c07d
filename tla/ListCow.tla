------------------------------ MODULE ListCow ------------------------------
(***************************************************************************)
(* The handles of bs_list and the blocks they share.  detach() gives a     *)
(* handle that is about to be written a block of its own, with one         *)
(* exception: copy() does nothing for an empty block.                      *)
(*                                                                         *)
(* The ring of nodes of a block is the sequence of their values, and an    *)
(* iterator the position of its node: one obtained with begin() or end()   *)
(* of the list it is given to, after which the list is detached.  A call   *)
(* is one step; a call with a list or a count of values is one step to     *)
(* start and one for each value, because each insertion detaches anew.     *)
(*                                                                         *)
(* Not here: swap() of two nodes, which leaves the ring inconsistent,      *)
(* sort(), the merge() and splice() without a body, and positions past the *)
(* end in replace(), which would write the header, and in move().          *)
(***************************************************************************)
EXTENDS Integers, Sequences, FiniteSets

CONSTANTS
    Handles,  \* the bs_list objects
    Blocks,   \* _bs_list_ blocks that can be allocated
    Null,     \* shared_null
    Values,
    MaxLen    \* bound: the length of a list

ASSUME ListAssumptions ==
    /\ IsFiniteSet(Handles) /\ Handles # {}
    /\ Null \notin Blocks
    /\ MaxLen \in Nat

VARIABLES
    impl,    \* the block of each handle, or Null
    block,   \* the count and the values of each block; Free without a handle
    work     \* the foreach in progress, of a call that inserts several values

vars == <<impl, block, work>>

Free == [ref |-> -1, data |-> <<>>]

Value(h) == IF impl[h] = Null THEN <<>> ELSE block[impl[h]].data
is_shared(h) == impl[h] # Null /\ block[impl[h]].ref > 0

Nothing == [to |-> CHOOSE h \in Handles : TRUE, at |-> 0, step |-> 0, left |-> <<>>, clear |-> {}]
Idle == work = Nothing
---------------------------------------------------------------------------
Init ==
    /\ impl = [h \in Handles |-> Null]
    /\ block = [b \in Blocks |-> Free]
    /\ work = Nothing

\* Mutant: free() is not called for the block that nobody uses any more.
KeepLast(h) ==
    IF impl[h] = Null THEN block ELSE [block EXCEPT ![impl[h]].ref = @ - 1]

\* lessref() and free().  free() gives back the nodes and never the block
\* itself, whose storage is lost: which block is allocated next is all the same.
Lessref(h) ==
    LET old == block[impl[h]]
    IN  IF impl[h] = Null THEN block
        ELSE [block EXCEPT ![impl[h]] =
                IF old.ref = 0 THEN Free ELSE [old EXCEPT !.ref = old.ref - 1]]

\* A block that is made, with refShareableDetach, for a handle.
Make(h, s) ==
    \E b \in Blocks :
        /\ block[b] = Free
        /\ impl' = [impl EXCEPT ![h] = b]
        /\ block' = [Lessref(h) EXCEPT ![b] = [ref |-> 0, data |-> s]]

\* Mutant: detach() only sees to handles without a block.
WriteShared(h, s) ==
    \/ impl[h] = Null /\ Make(h, s)
    \/ /\ impl[h] # Null
       /\ block' = [block EXCEPT ![impl[h]].data = s]
       /\ UNCHANGED impl

\* detach(), copy(), and what the call then does with the nodes.
Write(h, s) ==
    \/ /\ impl[h] = Null \/ (is_shared(h) /\ Value(h) # <<>>)
       /\ Make(h, s)
    \/ /\ impl[h] # Null /\ (is_shared(h) => Value(h) = <<>>)
       /\ block' = [block EXCEPT ![impl[h]].data = s]
       /\ UNCHANGED impl

Detach(h) == Write(h, Value(h))
---------------------------------------------------------------------------
\* SubSeq(s, 1, i) and the values after it, with v or without the n next.
With(s, i, v) == SubSeq(s, 1, i) \o <<v>> \o SubSeq(s, i + 1, Len(s))
Without(s, i, n) == SubSeq(s, 1, i) \o SubSeq(s, i + n + 1, Len(s))

\* The node begin() + pos: for a position past the end, the one before the last.
Place(s, pos) == IF pos <= Len(s) THEN pos ELSE IF s = <<>> THEN 0 ELSE Len(s) - 1

\* insert(), append() and prepend() of a value.
Insert(h, pos, v) ==
    /\ Idle
    /\ Len(Value(h)) < MaxLen
    /\ Write(h, With(Value(h), Place(Value(h), pos), v))
    /\ UNCHANGED work

Append1(h, v) == Insert(h, Len(Value(h)), v)

\* remove(pos), which takes the last node for a position past it.
Remove(h, pos) ==
    LET s == Value(h)
        i == IF pos < Len(s) THEN pos ELSE Len(s) - 1
    IN  /\ Idle
        /\ Write(h, IF s = <<>> THEN s ELSE Without(s, i, 1))
        /\ UNCHANGED work

\* erase(start, end), pop_front() and pop_back().
Erase(h, i, j) ==
    /\ Idle
    /\ i <= j /\ j <= Len(Value(h))
    /\ Write(h, Without(Value(h), i, j - i))
    /\ UNCHANGED work

Replace(h, i, v) ==
    /\ Idle
    /\ i < Len(Value(h))
    /\ Write(h, [Value(h) EXCEPT ![i + 1] = v])
    /\ UNCHANGED work

\* move(): the node goes before the one at the other position.  The end of the
\* list is no node.
Moved(s, i, j) ==
    LET one == <<s[i + 1]>>
    IN  IF i < j
        THEN SubSeq(s, 1, i) \o SubSeq(s, i + 2, j) \o one \o SubSeq(s, j + 1, Len(s))
        ELSE SubSeq(s, 1, j) \o one \o SubSeq(s, j + 1, i) \o SubSeq(s, i + 2, Len(s))

Move(h, inx, to) ==
    LET s == Value(h)
    IN  /\ Idle
        /\ inx # to
        /\ inx <= Len(s) /\ to <= Len(s)
        /\ Write(h, IF inx < Len(s) /\ to < Len(s) THEN Moved(s, inx, to) ELSE s)
        /\ UNCHANGED work

Turned(s) == [i \in 1..Len(s) |-> s[Len(s) + 1 - i]]

reverse(h) ==
    /\ Idle
    /\ Write(h, Turned(Value(h)))
    /\ UNCHANGED work
---------------------------------------------------------------------------
\* Mutant: the assigned handle does not count.
AssignUncounted(h, g) ==
    /\ Idle
    /\ impl[h] # impl[g]
    /\ \/ impl[g] = Null /\ Make(h, <<>>)
       \/ /\ impl[g] # Null
          /\ impl' = [impl EXCEPT ![h] = impl[g]]
          /\ block' = Lessref(h)
    /\ UNCHANGED work

\* h shares the block of g.
Share(h, g) ==
    /\ impl[g] # Null
    /\ impl' = [impl EXCEPT ![h] = impl[g]]
    /\ block' = [Lessref(h) EXCEPT ![impl[g]].ref = @ + 1]

\* operator = and the copy constructors.  The null block is static, so a list
\* that is assigned one makes a block of its own.
Assign(h, g) ==
    /\ Idle
    /\ impl[h] # impl[g]
    /\ Share(h, g) \/ (impl[g] = Null /\ Make(h, <<>>))
    /\ UNCHANGED work

\* The moving operator =.
MoveAssign(h, g) ==
    /\ Idle
    /\ h # g
    /\ block' = Lessref(h)
    /\ impl' = [impl EXCEPT ![h] = impl[g], ![g] = Null]
    /\ UNCHANGED work

Drop(h) ==
    /\ block' = Lessref(h)
    /\ impl' = [impl EXCEPT ![h] = Null]

\* clear(), or the destructor and the constructor of the next list.
Clear(h) == Idle /\ Drop(h) /\ UNCHANGED work

Swap(h, g) ==
    /\ Idle
    /\ impl' = [impl EXCEPT ![h] = impl[g], ![g] = impl[h]]
    /\ UNCHANGED <<block, work>>
---------------------------------------------------------------------------
\* A foreach over s that inserts into h from position i on, every value at the
\* same position or each after the one before it, and the list it then clears.
Foreach(h, i, step, s, clear) ==
    /\ Idle
    /\ Len(Value(h)) + Len(s) <= MaxLen
    /\ work' = [to |-> h, at |-> i, step |-> step, left |-> s, clear |-> clear]

\* append(), prepend() and insert() of a list.
InsertList(h, pos, step, g) ==
    /\ h # g
    /\ Foreach(h, pos, step, Value(g), {})
    /\ UNCHANGED <<impl, block>>

AppendList(h, g) == InsertList(h, Len(Value(h)), 1, g)
PrependList(h, g) == InsertList(h, 0, 0, g)

\* insert() of a list at an iterator, and splice(), which clears the other list.
Splice(h, i, g, clear) ==
    /\ h # g
    /\ i <= Len(Value(h))
    /\ Foreach(h, i, 0, Value(g), clear)
    /\ Detach(h)

\* insert() of a number of equal values at an iterator.
InsertCopies(h, i, n, v) ==
    /\ i <= Len(Value(h))
    /\ Foreach(h, i, 0, [k \in 1..n |-> v], {})
    /\ Detach(h)

\* form() and operator = of a std::list, which append.
Form(h, s) ==
    /\ Foreach(h, Len(Value(h)), 1, s, {})
    /\ Detach(h)

\* operator +, into a new list.
Plus(h, f, g) ==
    /\ impl[h] = Null /\ h # f /\ h # g
    /\ Len(Value(f)) + Len(Value(g)) <= MaxLen
    /\ Foreach(h, Len(Value(f)), 1, Value(g), {})
    /\ Share(h, f) \/ (impl[f] = Null /\ UNCHANGED <<impl, block>>)

\* The next value of the foreach.
InsertNext ==
    LET h == work.to
    IN  /\ work.left # <<>>
        /\ Write(h, With(Value(h), Place(Value(h), work.at), Head(work.left)))
        /\ work' = [work EXCEPT !.at = @ + work.step, !.left = Tail(@)]

\* The foreach is over.
Return ==
    /\ ~Idle /\ work.left = <<>>
    /\ \/ \E g \in work.clear : Drop(g)
       \/ work.clear = {} /\ UNCHANGED <<impl, block>>
    /\ work' = Nothing
---------------------------------------------------------------------------
Positions == 0..(MaxLen + 1)

OneHandle(h) ==
    \/ Clear(h) \/ reverse(h)
    \/ \E pos \in Positions :
        \/ \E v \in Values : Insert(h, pos, v) \/ Replace(h, pos, v)
        \/ Remove(h, pos)
        \/ \E to \in Positions : Erase(h, pos, to) \/ Move(h, pos, to)
    \/ \E v \in Values :
        \/ Append1(h, v)
        \/ \E i \in Positions, n \in Positions : InsertCopies(h, i, n, v)
    \/ \E v \in Values, w \in Values : Form(h, <<v, w>>)

TwoHandles(h, g) ==
    \/ Assign(h, g) \/ MoveAssign(h, g) \/ Swap(h, g)
    \/ AppendList(h, g) \/ PrependList(h, g)
    \/ \E pos \in Positions :
        \/ InsertList(h, pos, 1, g)
        \/ Splice(h, pos, g, {}) \/ Splice(h, pos, g, {g})

Next ==
    \/ \E h \in Handles :
        \/ OneHandle(h)
        \/ \E g \in Handles :
            \/ TwoHandles(h, g)
            \/ \E f \in Handles : Plus(h, f, g)
    \/ InsertNext
    \/ Return

Spec == Init /\ [][Next]_vars
---------------------------------------------------------------------------
Users(b) == {h \in Handles : impl[h] = b}

\* The type of the state, and a block that was given back holds no node.
BlockOK ==
    /\ impl \in [Handles -> Blocks \cup {Null}]
    /\ block \in [Blocks -> [ref : Nat \cup {-1}, data : Seq(Values)]]
    /\ \A b \in Blocks : block[b].ref = -1 => block[b] = Free

TypeOK ==
    /\ BlockOK
    /\ work \in [to : Handles, at : Nat, step : {0, 1}, left : Seq(Values),
                 clear : SUBSET Handles]

\* Whatever sequence of copies, moves, swaps, detachments and destructions: the
\* counter of a block is the number of its handles less one, so that a block
\* is freed with its last handle and no handle is left with a freed block.
RefsExact == \A b \in Blocks : Cardinality(Users(b)) = block[b].ref + 1

value == [h \in Handles |-> Value(h)]
Service == INSTANCE ListService

\* bs_list.h:19-21: a list that is shared is copied before it is changed.
ListServiceSpec == Service!Spec

\* An empty block with several handles, for which copy() does nothing.
EmptyShared == \E h \in Handles : is_shared(h) /\ Value(h) = <<>>

\* As long as no empty block is shared, every step of every call changes the
\* list it is made on as that call promises and no other handle's list.
Isolated == [][EmptyShared \/ [Service!Next]_value]_vars
===========================================================================
