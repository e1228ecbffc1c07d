---------------------------- MODULE ListService ----------------------------
(***************************************************************************)
(* What the handles of bs_list promise: each is a sequence of its own, and *)
(* a call changes the list it is made on.  Only swap() and what moves a    *)
(* list change two.                                                        *)
(***************************************************************************)
EXTENDS Naturals, Sequences

CONSTANTS Handles, Values

VARIABLE value

Init == value = [h \in Handles |-> <<>>]

Becomes(h, s) == value' = [value EXCEPT ![h] = s]

Insert ==
    \E h \in Handles, v \in Values : \E i \in 0..Len(value[h]) :
        Becomes(h, SubSeq(value[h], 1, i) \o <<v>> \o SubSeq(value[h], i + 1, Len(value[h])))

Erase ==
    \E h \in Handles : \E i \in 0..Len(value[h]), j \in 0..Len(value[h]) :
        i <= j /\ Becomes(h, SubSeq(value[h], 1, i) \o SubSeq(value[h], j + 1, Len(value[h])))

Replace ==
    \E h \in Handles, v \in Values : \E i \in 1..Len(value[h]) :
        Becomes(h, [value[h] EXCEPT ![i] = v])

\* An element goes before another one.
Move ==
    \E h \in Handles : \E i \in 1..Len(value[h]), j \in 1..Len(value[h]) :
        LET Part(a, b) == SubSeq(value[h], a, b)
            one == <<value[h][i]>>
        IN  Becomes(h, IF i < j
                       THEN Part(1, i - 1) \o Part(i + 1, j - 1) \o one \o Part(j, Len(value[h]))
                       ELSE Part(1, j - 1) \o one \o Part(j, i - 1) \o Part(i + 1, Len(value[h])))

\* Two elements change places.
Exchange ==
    \E h \in Handles : \E i \in 1..Len(value[h]), j \in 1..Len(value[h]) :
        Becomes(h, [value[h] EXCEPT ![i] = value[h][j], ![j] = value[h][i]])

Turn ==
    \E h \in Handles :
        Becomes(h, [i \in 1..Len(value[h]) |-> value[h][Len(value[h]) + 1 - i]])

Clear == \E h \in Handles : Becomes(h, <<>>)

\* The elements of a list go behind those of another or of itself.
Extend == \E h \in Handles, g \in Handles : Becomes(h, value[h] \o value[g])

Assign == \E h \in Handles, g \in Handles : Becomes(h, value[g])

Swap ==
    \E h \in Handles, g \in Handles :
        value' = [value EXCEPT ![h] = value[g], ![g] = value[h]]

Take ==
    \E h \in Handles, g \in Handles :
        h # g /\ value' = [value EXCEPT ![h] = value[g], ![g] = <<>>]

Next == Insert \/ Erase \/ Replace \/ Move \/ Exchange \/ Turn \/ Clear \/ Extend \/ Assign
        \/ Swap \/ Take

Spec == Init /\ [][Next]_value
===========================================================================
