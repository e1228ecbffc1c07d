------------------------------ MODULE ListRing ------------------------------
(***************************************************************************)
(* The ring of nodes behind one bs_list: its links, the iterators that     *)
(* walk them, and the copy that is made when another handle, b, has the    *)
(* block.  ListCow has the handles and their counters; here the nodes are  *)
(* the cells of a small memory, each call changes the links the code       *)
(* changes, and a position is found by walking.                            *)
(***************************************************************************)
EXTENDS Integers, Sequences, FiniteSets, Iteration

CONSTANTS
    N,         \* cells of the memory
    Values,
    MaxLen,    \* bound: nodes of a list before a call that adds one
    MaxCalls   \* bound: calls

ASSUME RingAssumptions ==
    N \in Nat \ {0} /\ MaxLen \in Nat /\ MaxCalls \in Nat

VARIABLES
    m,        \* the memory: the cells' links, data and counts, and the handles
    it,       \* an iterator the program keeps
    twisted,  \* history: the headers of the rings in which swap() exchanged two
              \* nodes, or move() put a node before itself
    calls

vars == <<m, it, twisted, calls>>

Null == 0          \* shared_null, a static header without nodes
Lost == N + 1      \* no cell, and what is read from a cell that was freed
Cells == 1 .. N
Places == Null .. Lost
Faults == {"no", "hang", "freed", "header"}

\* A header and a node are cells alike: list and impl are one pointer.
Memories ==
    [next : [Places -> Places], prev : [Places -> Places],
     data : [Places -> Values \cup {Lost}], count : [Places -> Int],
     nodes : SUBSET Cells, heads : SUBSET (Cells \cup {Null}),
     list : Places, other : Places, fault : Faults]

Init ==
    /\ m = [next |-> [c \in Places |-> IF c = Null THEN Null ELSE Lost],
            prev |-> [c \in Places |-> IF c = Null THEN Null ELSE Lost],
            data |-> [c \in Places |-> Lost], count |-> [c \in Places |-> 0],
            nodes |-> {}, heads |-> {Null},
            list |-> Null, other |-> Null, fault |-> "no"]
    /\ it = Lost
    /\ twisted = {}
    /\ calls = 0
---------------------------------------------------------------------------
(* Walks.                                                                  *)

\* iterator + k, with the k of an int.
Plus(s, c, k) == IF k > 0 THEN Iterate(s.next, c, k) ELSE Iterate(s.prev, c, -k)

\* The steps from c to d, or as many as any walk in this memory can take and
\* one more if it never comes to d.
Longest == N + 2
Walk(link, d) ==
    [r \in [at : Places, steps : Nat] |->
        IF r.at = d THEN r ELSE [at |-> link[r.at], steps |-> r.steps + 1]]
Steps(link, c, d) == Iterate(Walk(link, d), [at |-> c, steps |-> 0], Longest).steps

\* The cells from c to d, without d.
Path(link, c, d) == [k \in 1 .. Steps(link, c, d) |-> Iterate(link, c, k - 1)]

\* iterator - iterator walks back, and has no other end.
Back(s, c, d) == Steps(s.prev, c, d)

\* The nodes of a header's ring, in order, if the walk comes back to it.
Nodes(s, h) == Path(s.next, s.next[h], h)
Elements(s, h) == LET n == Nodes(s, h) IN {n[k] : k \in DOMAIN n}
Closed(s, h) == Steps(s.next, s.next[h], h) < Longest

size(s) == s.count[s.list]
is_shared(s) == s.list # Null /\ s.other = s.list
---------------------------------------------------------------------------
(* Cells.                                                                  *)

Used(s) == s.nodes \cup s.heads
Free(s) == Cells \ Used(s)
New(s) == CHOOSE c \in Free(s) : \A d \in Free(s) : c <= d
Room(s, k) == Cardinality(Free(s)) >= k

Fails(s, what) == [s EXCEPT !.fault = IF @ = "no" THEN what ELSE @]

\* One assignment; nothing can be assigned to a cell that was freed.
SetNext(s, c, d) == IF c \in Used(s) THEN [s EXCEPT !.next[c] = d] ELSE Fails(s, "freed")
SetPrev(s, c, d) == IF c \in Used(s) THEN [s EXCEPT !.prev[c] = d] ELSE Fails(s, "freed")
Count(s, k) == [s EXCEPT !.count[s.list] = @ + k]

newnode(s, v) == LET c == New(s) IN [s EXCEPT !.nodes = @ \cup {c}, !.data[c] = v]
freenode(s, c) ==
    [s EXCEPT !.nodes = @ \ {c}, !.data[c] = Lost, !.next[c] = Lost, !.prev[c] = Lost]
---------------------------------------------------------------------------
(* Blocks.                                                                 *)

NewHeader(s) ==
    LET h == New(s)
    IN  [s EXCEPT !.heads = @ \cup {h}, !.count[h] = 0, !.list = h,
                  !.next[h] = h, !.prev[h] = h]

\* copy(): new nodes in the order of the next links, one more in each turn,
\* and last the links to the new header.
CopyStep(link, end) ==
    [r \in [t : Memories, last : Places, from : Places] |->
        LET c == New(r.t)
            t == newnode(r.t, r.t.data[r.from])
        IN  IF r.from = end THEN r
            ELSE [t |-> SetPrev(SetNext(t, r.last, c), c, r.last),
                  last |-> c, from |-> link[r.from]]]
Copying(s, link) ==
    LET start == NewHeader(s)
    IN  Iterate(CopyStep(link, s.list),
                [t |-> start, last |-> start.list, from |-> link[s.list]], N)
Joined(t, last, k) ==
    [SetPrev(SetNext(t, last, t.list), t.list, last) EXCEPT !.count[t.list] = k]

\* Mutant: the new nodes are in the order of the prev links.
CopyBackward(s) ==
    LET r == Copying(s, s.prev)
    IN  IF ~Closed(s, s.list) THEN Fails(s, "hang") ELSE Joined(r.t, r.last, size(s))

copy(s) ==
    LET r == Copying(s, s.next)
    IN  IF ~Closed(s, s.list) THEN Fails(s, "hang") ELSE Joined(r.t, r.last, size(s))

detach(s) ==
    IF s.list = Null THEN NewHeader(s)
    ELSE IF is_shared(s) /\ size(s) > 0 THEN copy(s)
    ELSE s

\* free() gives back the nodes and keeps the header, because the loop before
\* its test ends where the test looks.
FreeStep(end) ==
    [r \in [t : Memories, at : Places] |->
        IF r.at = end \/ r.t.fault # "no" THEN r
        ELSE IF r.at \notin r.t.nodes THEN [r EXCEPT !.t = Fails(r.t, "freed")]
        ELSE [t |-> freenode(r.t, r.at), at |-> r.t.next[r.at]]]
free(s, end) == Iterate(FreeStep(end), [t |-> s, at |-> s.next[end]], N + 1).t
---------------------------------------------------------------------------
(* The links a call changes, in the code's order.                          *)

\* Mutant: the node before the new one keeps its next.
LinkOneWay(s, p, v) ==
    LET c == New(s)
        s1 == SetNext(SetPrev(newnode(s, v), c, s.prev[p]), c, p)
    IN  Count(SetPrev(s1, p, c), 1)

\* insert() and append(), before the cell p.
Link(s, p, v) ==
    LET c == New(s)
        s1 == SetNext(SetPrev(newnode(s, v), c, s.prev[p]), c, p)
        s2 == SetNext(s1, s1.prev[c], c)
    IN  Count(SetPrev(s2, p, c), 1)

\* prepend().
LinkFirst(s, v) ==
    LET c == New(s)
        h == s.list
        s1 == SetPrev(SetNext(newnode(s, v), c, s.next[h]), c, h)
    IN  Count(SetNext(SetPrev(s1, s1.next[c], c), h, c), 1)

Out(s, p) ==
    LET s1 == SetPrev(s, s.next[p], s.prev[p])
    IN  SetNext(s1, s1.prev[p], s1.next[p])

\* remove(pos) of a list that is detached.
RemoveAt(s, pos) ==
    LET p == Plus(s, s.next[s.list], IF size(s) = 0 \/ pos < size(s) THEN pos ELSE size(s) - 1)
    IN  IF p = s.list THEN s
        ELSE IF p \notin s.nodes THEN Fails(s, "freed")
        ELSE Count(freenode(Out(s, p), p), -1)

MoveBefore(s, p, q) ==
    LET s1 == Out(s, p)
        s2 == SetPrev(SetNext(s1, p, q), p, s1.prev[q])
        s3 == SetNext(s2, s2.prev[q], p)
    IN  SetPrev(s3, q, p)

\* swap(i, j) of two nodes, x before y.
Exchange(s, x, y) ==
    LET s1 == SetNext(s, s.prev[x], y)
        s2 == SetNext(s1, s1.prev[y], x)
        s3 == SetNext(SetNext(s2, x, s2.next[y]), y, s2.next[x])
    IN  SetPrev(SetPrev(s3, x, s3.prev[y]), y, s3.prev[x])

\* reverse() exchanges data from both ends, the last by going back.
Turned(r) == r.first \in {r.last, r.t.prev[r.last]}
TurnStep ==
    [r \in [t : Memories, first : Places, last : Places] |->
        LET l == r.t.prev[r.last]
        IN  IF Turned(r) \/ r.t.fault # "no" THEN r
            ELSE IF ~({r.first, l} \subseteq r.t.nodes)
            THEN [r EXCEPT !.t = Fails(r.t, IF {r.first, l} \subseteq Used(r.t)
                                            THEN "header" ELSE "freed")]
            ELSE [t |-> [r.t EXCEPT !.data[r.first] = r.t.data[l], !.data[l] = r.t.data[r.first]],
                  first |-> r.t.next[r.first], last |-> l]]
Turn(s) ==
    LET r == Iterate(TurnStep, [t |-> s, first |-> s.next[s.list], last |-> s.list], N)
    IN  IF Turned(r) THEN r.t ELSE Fails(r.t, "hang")
---------------------------------------------------------------------------
(* Calls.                                                                  *)

Call == m.fault = "no" /\ calls < MaxCalls /\ calls' = calls + 1

\* The copy of a twisted ring may have another number of nodes than its count.
Copied(s) == IF m.list \in twisted THEN {s.list} \ {Null} ELSE {}
Does(s) == m' = s /\ twisted' = twisted \cup Copied(s)

\* An iterator whose node was freed, or whose block no handle has, is not used
\* again.
Keeps(s) == it' = IF it \in s.nodes \cup {s.list, s.other} THEN it ELSE Lost

\* Memory for a copy, and for one more node.
Roomy == Room(m, Cardinality(m.nodes) + 1)
Short == size(m) < MaxLen /\ Room(m, Cardinality(m.nodes) + 2)

begin(s) == s.next[s.list]

Append1(v) ==
    /\ Call /\ Short
    /\ LET s == detach(m) IN Does(Link(s, s.list, v)) /\ Keeps(s)

Prepend(v) ==
    /\ Call /\ Short
    /\ LET s == detach(m) IN Does(LinkFirst(s, v)) /\ Keeps(s)

\* insert(pos): the position is cut to an int, and for an empty list
\* size() - 1 is then -1.
Insert(pos, v) ==
    /\ Call /\ Short
    /\ LET s == detach(m)
           p == Plus(s, begin(s), IF pos > size(s) THEN size(s) - 1 ELSE pos)
       IN  IF p \in Used(s)
           THEN Does(Link(s, p, v)) /\ it' = New(s)
           ELSE Does(Fails(s, "freed")) /\ UNCHANGED it

Remove(pos) ==
    /\ Call /\ Roomy
    /\ LET s == RemoveAt(detach(m), pos) IN Does(s) /\ Keeps(s)

Replace(pos, v) ==
    /\ Call /\ Roomy
    /\ LET s == detach(m)
           p == Plus(s, begin(s), pos)
       IN  /\ Does(IF p = s.list THEN Fails(s, "header")
                   ELSE IF p \in s.nodes THEN [s EXCEPT !.data[p] = v]
                   ELSE Fails(s, "freed"))
           /\ Keeps(s)

Move(inx, to) ==
    /\ Call /\ Roomy
    /\ inx # to
    /\ LET s == detach(m)
           p == Plus(s, begin(s), inx)
           q == Plus(s, begin(s), to)
       IN  /\ m' = IF s.list \in {p, q} THEN s
                   ELSE IF {p, q} \subseteq s.nodes THEN MoveBefore(s, p, q)
                   ELSE Fails(s, "freed")
           /\ twisted' = twisted \cup Copied(s) \cup (IF p = q /\ p # s.list THEN {s.list} ELSE {})
           /\ Keeps(s)

Smaller(i, j) == IF i < j THEN i ELSE j

\* swap(i, j): both positions are bounded by the last one's.
Swap(i, j) ==
    /\ Call /\ Roomy
    /\ i < j
    /\ LET s == detach(m)
           x == Plus(s, begin(s), IF size(s) = 0 THEN i ELSE Smaller(i, size(s) - 1))
           y == Plus(s, begin(s), IF size(s) = 0 THEN j ELSE Smaller(j, size(s) - 1))
       IN  /\ m' = IF x = y THEN s
                   ELSE IF {x, y} \subseteq s.nodes THEN Exchange(s, x, y)
                   ELSE Fails(s, "freed")
           /\ twisted' = twisted \cup Copied(s) \cup (IF x # y THEN {s.list} ELSE {})
           /\ Keeps(s)

Reverse ==
    /\ Call /\ Roomy
    /\ LET s == detach(m) IN Does(Turn(s)) /\ Keeps(s)

\* clear(), which assigns a null list.
Clear ==
    /\ Call
    /\ m.list # Null
    /\ LET s == IF is_shared(m) THEN m ELSE free(m, m.list)
       IN  Does([s EXCEPT !.list = Null]) /\ Keeps(m')

\* l += l: the loop ends at the header of the block it began in.  If that is
\* still the list's, every turn puts a node before it.
AddStep(s) ==
    [r \in [t : Memories, from : Places] |->
        IF r.from = s.list THEN r
        ELSE [t |-> Link(r.t, r.t.list, s.data[r.from]), from |-> s.next[r.from]]]
AppendSelf ==
    /\ Call
    /\ begin(m) # m.list
    /\ 2 * size(m) <= MaxLen /\ Room(m, 2 * Cardinality(m.nodes) + 1)
    /\ UNCHANGED it
    /\ LET s == detach(m)
       IN  Does(IF s.list = m.list THEN Fails(m, "hang")
                ELSE Iterate(AddStep(m), [t |-> s, from |-> begin(m)], N).t)

\* b = l, and b's destruction.
Share ==
    /\ Call
    /\ m.other = Null /\ m.list # Null
    /\ m' = [m EXCEPT !.other = m.list]
    /\ UNCHANGED <<it, twisted>>

Drop ==
    /\ Call
    /\ m.other # Null
    /\ LET s == IF is_shared(m) THEN m ELSE free(m, m.other)
       IN  Does([s EXCEPT !.other = Null]) /\ Keeps(m')
---------------------------------------------------------------------------
(* Calls with iterators.                                                   *)

\* begin() + k, of the list and of a const reference to it.
Begin(k) ==
    /\ Call /\ Roomy
    /\ LET s == detach(m) IN Does(s) /\ it' = Plus(s, begin(s), k)

ConstBegin(k) ==
    /\ Call
    /\ m.list # Null
    /\ it' = Plus(m, begin(m), k)
    /\ UNCHANGED <<m, twisted>>

\* Mutant: begin() is called, which detaches.
ErasedDetached(s, c) ==
    LET k == Back(s, c, begin(detach(s)))
    IN  IF k < Longest THEN RemoveAt(detach(s), k) ELSE Fails(s, "hang")

\* erase(it) finds the position before the list is detached.
Erased(s, c) ==
    LET k == Back(s, c, begin(s))
    IN  IF k < Longest THEN RemoveAt(detach(s), k) ELSE Fails(s, "hang")

Erase ==
    /\ Call /\ Roomy
    /\ it # Lost
    /\ LET s == Erased(m, it)
       IN  /\ Does(s)
           /\ it' = IF s.fault = "no" THEN Plus(s, begin(s), Back(m, it, begin(m))) ELSE it

PopBack ==
    /\ Call /\ Roomy
    /\ LET s == detach(m)
           t == Erased(s, s.prev[s.list])
       IN  Does(t) /\ Keeps(t)

PopFront ==
    /\ Call /\ Roomy
    /\ LET s == detach(m)
           t == Erased(s, begin(s))
       IN  Does(t) /\ Keeps(t)

\* insert(it, v) asks begin() for the position, which detaches first.
InsertAt(v) ==
    /\ Call /\ Short
    /\ it # Lost
    /\ LET s == detach(m)
           k == Back(s, it, begin(s))
       IN  IF k < Longest
           THEN Does(Link(s, Plus(s, begin(s), k), v)) /\ it' = New(s)
           ELSE Does(Fails(s, "hang")) /\ UNCHANGED it
---------------------------------------------------------------------------
Positions == 0 .. MaxLen

Next ==
    \/ \E v \in Values :
        \/ Append1(v) \/ Prepend(v) \/ InsertAt(v)
        \/ \E pos \in Positions : Insert(pos, v) \/ Replace(pos, v)
    \/ \E pos \in Positions :
        \/ Remove(pos) \/ Begin(pos) \/ ConstBegin(pos)
        \/ \E to \in Positions : Move(pos, to) \/ Swap(pos, to)
    \/ Reverse \/ Clear \/ AppendSelf \/ Share \/ Drop
    \/ Erase \/ PopBack \/ PopFront

Spec == Init /\ [][Next]_vars
---------------------------------------------------------------------------
(* Properties.                                                             *)

\* The ring of a header: the walk over next comes back to it after as many
\* nodes as its count, and prev undoes next.
Ring(s, h) ==
    /\ Closed(s, h)
    /\ Elements(s, h) \subseteq s.nodes
    /\ Len(Nodes(s, h)) = s.count[h]
    /\ \A c \in Elements(s, h) \cup {h} : s.prev[s.next[c]] = c /\ s.next[s.prev[c]] = c

\* The type of the state; after any sequence of calls, in every block but those
\* where swap() exchanged nodes or move() put a node before itself, the links
\* are a ring both ways with as many nodes as the count, and no node is
\* allocated that neither handle reaches.
RingOK ==
    /\ it \in Places
    /\ {m.list, m.other} \cup twisted \subseteq m.heads
    /\ m.fault \in Faults
    /\ m.fault = "no" =>
        /\ \A h \in {m.list, m.other} \ ({Null} \cup twisted) : Ring(m, h)
        /\ twisted = {} => m.nodes = Elements(m, m.list) \cup Elements(m, m.other)

\* The two handles as sequences of their own.
Elems(s, h) == LET n == Nodes(s, h) IN [k \in DOMAIN n |-> s.data[n[k]]]
Handles == {"l", "b"}
value == [h \in Handles |-> Elems(m, IF h = "l" THEN m.list ELSE m.other)]
Service == INSTANCE ListService

\* A call on the links is a call on the sequence: it changes the list as bs_list
\* promises and leaves the other handle's elements alone, however the nodes
\* are shared and whatever was reversed or moved before.  (ListCow has what
\* happens to a shared block without nodes.)
Contents ==
    [][/\ {m.list, m.other} \cap twisted = {}
       /\ m'.fault = "no" /\ Closed(m', m'.list)
       /\ ~(is_shared(m) /\ size(m) = 0)
       => Service!Next \/ UNCHANGED value]_vars

Around(s, h) == Elements(s, h) \cup {h}

\* A call goes wrong - it never ends, it uses a node that was freed or it writes
\* the data of the header - only when the ring was twisted before, or by an
\* insertion at an iterator while the block is shared, by an iterator of
\* another ring, by a list appended to itself, or by a replacement past the
\* end.
FaultHasCause ==
    [][m'.fault # "no" =>
        \/ {m.list, m.other} \cap twisted # {}
        \/ (\E v \in Values : InsertAt(v)) /\ (is_shared(m) \/ it \notin Around(m, m.list))
        \/ Erase /\ it \notin Around(m, m.list)
        \/ AppendSelf /\ ~is_shared(m)
        \/ \E pos \in Positions, v \in Values : Replace(pos, v) /\ pos >= size(m)]_vars
=============================================================================
