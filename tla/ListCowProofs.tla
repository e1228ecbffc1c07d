--------------------------- MODULE ListCowProofs ---------------------------
(* Theorems about ListCow, for any numbers of handles, blocks and values   *)
(* and lists of any bounded length.                                        *)
EXTENDS ListCow, FiniteSetTheorems, SequenceTheorems, TLAPS

UsersOf(f, b) == {h \in Handles : f[h] = b}
One(p) == IF p THEN 1 ELSE 0

\* One handle goes from its block to another, or none.
Moves(f, e, h, c) == e[h] = c /\ \A g \in Handles \ {h} : e[g] = f[g]

LEMMA UsersMove ==
    ASSUME NEW f, NEW e, NEW h \in Handles, NEW c, NEW b,
           Moves(f, e, h, c)
    PROVE  /\ Cardinality(UsersOf(f, b)) \in Nat
           /\ Cardinality(UsersOf(e, b)) =
                Cardinality(UsersOf(f, b)) - One(f[h] = b) + One(c = b)
<1> DEFINE U == UsersOf(f, b)
           V == UsersOf(e, b)
<1>1. IsFiniteSet(U) /\ IsFiniteSet(U \ {h})
  BY ListAssumptions, FS_Subset DEF UsersOf
<1>2. Cardinality(U) \in Nat
  BY <1>1, FS_CardinalityType
<1>3. V = IF c = b THEN (U \ {h}) \cup {h} ELSE U \ {h}
  BY DEF UsersOf, Moves
<1>4. h \in U <=> f[h] = b
  BY DEF UsersOf
<1> HIDE DEF U, V
<1>5. Cardinality(U \ {h}) = Cardinality(U) - One(f[h] = b)
  BY <1>1, <1>2, <1>4, FS_RemoveElement DEF One
<1>6. Cardinality((U \ {h}) \cup {h}) = Cardinality(U \ {h}) + 1
  BY <1>1, FS_AddElement
<1>7. Cardinality(V) = Cardinality(U) - One(f[h] = b) + One(c = b)
  BY <1>2, <1>3, <1>5, <1>6 DEF One
<1> QED BY <1>2, <1>7 DEF U, V

\* The counters when all handles are where f says.
Counted(f, s) == \A b \in Blocks : Cardinality(UsersOf(f, b)) = s[b].ref + 1

LEMMA Counts == RefsExact <=> Counted(impl, block)
BY DEF RefsExact, Counted, Users, UsersOf

LEMMA CountsPrimed == RefsExact' <=> Counted(impl', block')
BY DEF RefsExact, Counted, Users, UsersOf

\* A block that a handle has is not Free.
LEMMA HandleCounts ==
    ASSUME BlockOK, RefsExact, NEW h \in Handles, impl[h] # Null
    PROVE  impl[h] \in Blocks /\ block[impl[h]].ref \in Nat
<1>1. impl[h] \in Blocks /\ h \in Users(impl[h])
  BY DEF BlockOK, Users
<1>2. IsFiniteSet(Users(impl[h]))
  BY ListAssumptions, FS_Subset DEF Users
<1>3. Cardinality(Users(impl[h])) # 0
  BY <1>1, <1>2, FS_EmptySet
<1> QED BY <1>1, <1>3 DEF RefsExact, BlockOK

\* A block that two handles have is shared.
LEMMA TwoCount ==
    ASSUME BlockOK, RefsExact, NEW h \in Handles, NEW g \in Handles,
           g # h, impl[g] = impl[h], impl[h] # Null
    PROVE  block[impl[h]].ref > 0
<1>1. impl[h] \in Blocks /\ h \in Users(impl[h]) /\ g \in Users(impl[h])
  BY DEF BlockOK, Users
<1>2. IsFiniteSet(Users(impl[h]))
  BY ListAssumptions, FS_Subset DEF Users
<1>3. Cardinality(Users(impl[h])) \notin {0, 1}
  <2>1. Cardinality(Users(impl[h])) = 1 => \E x : Users(impl[h]) = {x}
    BY <1>2, FS_Singleton
  <2> QED BY <1>1, <1>2, <2>1, FS_EmptySet
<1> QED BY <1>1, <1>3 DEF RefsExact, BlockOK

\* lessref() takes the handle off its block, and frees it with the last one.
LEMMA Less ==
    ASSUME BlockOK, RefsExact, NEW h \in Handles
    PROVE  /\ Lessref(h) \in [Blocks -> [ref : Nat \cup {-1}, data : Seq(Values)]]
           /\ \A b \in Blocks :
                /\ Lessref(h)[b].ref = block[b].ref - One(impl[h] = b)
                /\ Lessref(h)[b].ref = -1 => Lessref(h)[b] = Free
                /\ Lessref(h)[b].ref # -1 => Lessref(h)[b].data = block[b].data
<1>1. CASE impl[h] = Null
  BY <1>1, ListAssumptions DEF Lessref, BlockOK, One
<1>2. CASE impl[h] # Null
  <2>1. impl[h] \in Blocks /\ block[impl[h]].ref \in Nat
    BY <1>2, HandleCounts
  <2>2. Free \in [ref : Nat \cup {-1}, data : Seq(Values)] /\ Free.ref = -1
    BY EmptySeq DEF Free
  <2>3. CASE block[impl[h]].ref = 0
    <3>1. Lessref(h) = [block EXCEPT ![impl[h]] = Free]
      BY <1>2, <2>1, <2>3 DEF Lessref, BlockOK
    <3> QED BY <2>1, <2>2, <2>3, <3>1 DEF BlockOK, One
  <2>4. CASE block[impl[h]].ref # 0
    <3> DEFINE less == [block[impl[h]] EXCEPT !.ref = block[impl[h]].ref - 1]
    <3>1. Lessref(h) = [block EXCEPT ![impl[h]] = less]
      BY <1>2, <2>1, <2>4 DEF Lessref, BlockOK
    <3>2. less \in [ref : Nat \cup {-1}, data : Seq(Values)]
          /\ less.ref = block[impl[h]].ref - 1 /\ less.ref # -1
          /\ less.data = block[impl[h]].data
      BY <2>1, <2>4 DEF BlockOK
    <3> HIDE DEF less
    <3> QED BY <2>1, <3>1, <3>2 DEF BlockOK, One
  <2> QED BY <2>3, <2>4
<1> QED BY <1>1, <1>2
---------------------------------------------------------------------------
\* What the other handles see of a block is not touched by lessref().
LEMMA KeepsOthers ==
    ASSUME BlockOK, RefsExact, NEW h \in Handles, NEW g \in Handles, g # h, impl[g] # Null
    PROVE  /\ impl[g] \in Blocks /\ block[impl[g]].ref \in Nat
           /\ Lessref(h)[impl[g]].ref # -1
           /\ Lessref(h)[impl[g]].data = Value(g)
<1>1. impl[g] \in Blocks /\ block[impl[g]].ref \in Nat
  BY HandleCounts
<1>2. impl[h] = impl[g] => block[impl[g]].ref > 0
  BY TwoCount
<1>3. Lessref(h)[impl[g]].ref # -1
  BY <1>1, <1>2, Less DEF One
<1> QED BY <1>1, <1>3, Less DEF Value

\* The list of one handle becomes s, and no other changes.
Changes(h, s) == \A g \in Handles : Value(g)' = IF g = h THEN s ELSE Value(g)

LEMMA MakeCorrect ==
    ASSUME BlockOK, RefsExact, NEW h \in Handles, NEW s \in Seq(Values), Make(h, s)
    PROVE  BlockOK' /\ RefsExact' /\ Changes(h, s)
<1> DEFINE new == [ref |-> 0, data |-> s]
<1>1. PICK b \in Blocks : /\ block[b] = Free
                          /\ impl' = [impl EXCEPT ![h] = b]
                          /\ block' = [Lessref(h) EXCEPT ![b] = new]
  BY DEF Make
<1>2. block[b].ref = -1
  BY <1>1 DEF Free
<1>3. \A g \in Handles : impl[g] # b
  BY <1>2, HandleCounts, ListAssumptions
<1>4. new \in [ref : Nat \cup {-1}, data : Seq(Values)] /\ new.ref = 0 /\ new.data = s
  OBVIOUS
<1> HIDE DEF new
<1>5. block' \in [Blocks -> [ref : Nat \cup {-1}, data : Seq(Values)]]
      /\ block'[b] = new
      /\ \A c \in Blocks \ {b} : block'[c] = Lessref(h)[c]
  BY <1>1, <1>4, Less
<1>6. DOMAIN impl = Handles /\ impl' \in [Handles -> Blocks \cup {Null}]
      /\ impl'[h] = b /\ (\A g \in Handles \ {h} : impl'[g] = impl[g])
      /\ Moves(impl, impl', h, b)
  BY <1>1 DEF BlockOK, Moves
<1>7. BlockOK'
  <2>1. \A c \in Blocks : block'[c].ref = -1 => block'[c] = Free
    BY <1>4, <1>5, Less
  <2> QED BY <1>5, <1>6, <2>1 DEF BlockOK, Free
<1>8. RefsExact'
  <2> SUFFICES ASSUME NEW c \in Blocks
               PROVE  Cardinality(UsersOf(impl', c)) = block'[c].ref + 1
    BY CountsPrimed DEF Counted
  <2>1. Cardinality(UsersOf(impl, c)) = block[c].ref + 1
    BY Counts DEF Counted
  <2>2. Cardinality(UsersOf(impl', c)) =
            Cardinality(UsersOf(impl, c)) - One(impl[h] = c) + One(b = c)
    BY <1>6, UsersMove
  <2>3. CASE c = b
    BY <1>2, <1>3, <1>4, <1>5, <2>1, <2>2, <2>3 DEF One
  <2>4. CASE c # b
    <3>1. block'[c].ref = block[c].ref - One(impl[h] = c)
      BY <1>5, <2>4, Less
    <3> QED BY <2>1, <2>2, <2>4, <3>1 DEF One, BlockOK
  <2> QED BY <2>3, <2>4
<1>9. Changes(h, s)
  <2> SUFFICES ASSUME NEW g \in Handles
               PROVE  Value(g)' = IF g = h THEN s ELSE Value(g)
    BY DEF Changes
  <2>1. CASE g = h
    BY <1>4, <1>5, <1>6, <2>1, ListAssumptions DEF Value
  <2>2. CASE g # h /\ impl[g] = Null
    BY <1>6, <2>2 DEF Value
  <2>3. CASE g # h /\ impl[g] # Null
    BY <1>3, <1>5, <1>6, <2>3, KeepsOthers DEF Value
  <2> QED BY <2>1, <2>2, <2>3
<1> QED BY <1>7, <1>8, <1>9

LEMMA ShareCorrect ==
    ASSUME BlockOK, RefsExact, NEW h \in Handles, NEW g \in Handles,
           impl[h] # impl[g], Share(h, g)
    PROVE  BlockOK' /\ RefsExact' /\ Changes(h, Value(g))
<1> DEFINE b == impl[g]
           old == Lessref(h)[b]
           new == [old EXCEPT !.ref = old.ref + 1]
<1>1. b # Null /\ impl' = [impl EXCEPT ![h] = b] /\ block' = [Lessref(h) EXCEPT ![b] = new]
  BY DEF Share
<1>2. h # g /\ b \in Blocks /\ block[b].ref \in Nat /\ old.ref # -1 /\ old.data = Value(g)
  BY <1>1, KeepsOthers
<1>3. old.ref = block[b].ref
  BY <1>2, Less DEF One
<1>4. new \in [ref : Nat \cup {-1}, data : Seq(Values)]
      /\ new.ref = block[b].ref + 1 /\ new.data = Value(g)
  <2>1. old \in [ref : Nat \cup {-1}, data : Seq(Values)]
    BY <1>2, Less
  <2> HIDE DEF old
  <2> QED BY <1>2, <1>3, <2>1
<1> HIDE DEF new, old
<1>5. block' \in [Blocks -> [ref : Nat \cup {-1}, data : Seq(Values)]]
      /\ block'[b] = new
      /\ \A c \in Blocks \ {b} : block'[c] = Lessref(h)[c]
  BY <1>1, <1>2, <1>4, Less
<1>6. DOMAIN impl = Handles /\ impl' \in [Handles -> Blocks \cup {Null}]
      /\ impl'[h] = b /\ (\A f \in Handles \ {h} : impl'[f] = impl[f])
      /\ Moves(impl, impl', h, b)
  BY <1>1 DEF BlockOK, Moves
<1>7. BlockOK'
  <2>1. \A c \in Blocks : block'[c].ref = -1 => block'[c] = Free
    <3>1. new.ref # -1
      BY <1>2, <1>4
    <3> QED BY <1>5, <3>1, Less
  <2> QED BY <1>5, <1>6, <2>1 DEF BlockOK, Free
<1>8. RefsExact'
  <2> SUFFICES ASSUME NEW c \in Blocks
               PROVE  Cardinality(UsersOf(impl', c)) = block'[c].ref + 1
    BY CountsPrimed DEF Counted
  <2>1. Cardinality(UsersOf(impl, c)) = block[c].ref + 1
    BY Counts DEF Counted
  <2>2. Cardinality(UsersOf(impl', c)) =
            Cardinality(UsersOf(impl, c)) - One(impl[h] = c) + One(b = c)
    BY <1>6, UsersMove
  <2>3. CASE c = b
    BY <1>2, <1>4, <1>5, <2>1, <2>2, <2>3 DEF One
  <2>4. CASE c # b
    <3>1. block'[c].ref = block[c].ref - One(impl[h] = c)
      BY <1>5, <2>4, Less
    <3> QED BY <2>1, <2>2, <2>4, <3>1 DEF One, BlockOK
  <2> QED BY <2>3, <2>4
<1>9. Changes(h, Value(g))
  <2> SUFFICES ASSUME NEW f \in Handles
               PROVE  Value(f)' = IF f = h THEN Value(g) ELSE Value(f)
    BY DEF Changes
  <2>1. CASE f = h
    BY <1>1, <1>4, <1>5, <1>6, <2>1 DEF Value
  <2>2. CASE f # h /\ impl[f] = Null
    BY <1>6, <2>2 DEF Value
  <2>3. CASE f # h /\ impl[f] = b
    BY <1>1, <1>4, <1>5, <1>6, <2>3 DEF Value
  <2>4. CASE f # h /\ impl[f] # Null /\ impl[f] # b
    BY <1>5, <1>6, <2>4, KeepsOthers DEF Value
  <2> QED BY <2>1, <2>2, <2>3, <2>4
<1> QED BY <1>7, <1>8, <1>9

LEMMA DropCorrect ==
    ASSUME BlockOK, RefsExact, NEW h \in Handles, Drop(h)
    PROVE  BlockOK' /\ RefsExact' /\ Changes(h, <<>>)
<1>1. DOMAIN impl = Handles /\ impl' = [impl EXCEPT ![h] = Null]
      /\ impl' \in [Handles -> Blocks \cup {Null}]
      /\ impl'[h] = Null /\ (\A f \in Handles \ {h} : impl'[f] = impl[f])
      /\ Moves(impl, impl', h, Null)
  BY DEF BlockOK, Drop, Moves
<1>2. BlockOK'
  BY <1>1, Less DEF BlockOK, Drop
<1>3. RefsExact'
  <2> SUFFICES ASSUME NEW c \in Blocks
               PROVE  Cardinality(UsersOf(impl', c)) = block'[c].ref + 1
    BY CountsPrimed DEF Counted
  <2>1. Cardinality(UsersOf(impl, c)) = block[c].ref + 1
    BY Counts DEF Counted
  <2>2. Cardinality(UsersOf(impl', c)) =
            Cardinality(UsersOf(impl, c)) - One(impl[h] = c) + One(Null = c)
    BY <1>1, UsersMove
  <2>3. block'[c].ref = block[c].ref - One(impl[h] = c)
    BY Less DEF Drop
  <2> QED BY <2>1, <2>2, <2>3, ListAssumptions DEF One, BlockOK
<1>4. Changes(h, <<>>)
  <2> SUFFICES ASSUME NEW g \in Handles
               PROVE  Value(g)' = IF g = h THEN <<>> ELSE Value(g)
    BY DEF Changes
  <2>1. CASE g = h \/ impl[g] = Null
    BY <1>1, <2>1 DEF Value
  <2>2. CASE g # h /\ impl[g] # Null
    BY <1>1, <2>2, KeepsOthers DEF Value, Drop
  <2> QED BY <2>1, <2>2
<1> QED BY <1>2, <1>3, <1>4

LEMMA TakeCorrect ==
    ASSUME BlockOK, RefsExact, NEW h \in Handles, NEW g \in Handles, h # g,
           block' = Lessref(h), impl' = [impl EXCEPT ![h] = impl[g], ![g] = Null]
    PROVE  /\ BlockOK' /\ RefsExact'
           /\ \A f \in Handles :
                Value(f)' = IF f = h THEN Value(g) ELSE IF f = g THEN <<>> ELSE Value(f)
<1> DEFINE mid == [impl EXCEPT ![h] = impl[g]]
<1>1. /\ impl' \in [Handles -> Blocks \cup {Null}]
      /\ impl'[h] = impl[g] /\ impl'[g] = Null
      /\ \A f \in Handles \ {h, g} : impl'[f] = impl[f]
  BY DEF BlockOK
<1>2. Moves(impl, mid, h, impl[g]) /\ Moves(mid, impl', g, Null) /\ mid[g] = impl[g]
  BY DEF BlockOK, Moves
<1> HIDE DEF mid
<1>3. BlockOK'
  <2>1. /\ block' \in [Blocks -> [ref : Nat \cup {-1}, data : Seq(Values)]]
        /\ \A b \in Blocks : block'[b].ref = -1 => block'[b] = Free
    BY Less
  <2> QED BY ONLY <1>1, <2>1 DEF BlockOK
<1>4. RefsExact'
  <2> SUFFICES ASSUME NEW c \in Blocks
               PROVE  Cardinality(UsersOf(impl', c)) = block'[c].ref + 1
    BY CountsPrimed DEF Counted
  <2>1. Cardinality(UsersOf(impl, c)) = block[c].ref + 1
    BY Counts DEF Counted
  <2>2. Cardinality(UsersOf(mid, c)) =
            Cardinality(UsersOf(impl, c)) - One(impl[h] = c) + One(impl[g] = c)
    BY <1>2, UsersMove
  <2>3. Cardinality(UsersOf(impl', c)) =
            Cardinality(UsersOf(mid, c)) - One(mid[g] = c) + One(Null = c)
    BY <1>2, UsersMove
  <2>4. block'[c].ref = block[c].ref - One(impl[h] = c)
    BY Less
  <2> QED BY <1>2, <2>1, <2>2, <2>3, <2>4, ListAssumptions DEF One, BlockOK
<1>5. ASSUME NEW f \in Handles
      PROVE  Value(f)' = IF f = h THEN Value(g) ELSE IF f = g THEN <<>> ELSE Value(f)
  <2>1. CASE f = h
    <3>1. CASE impl[g] = Null
      BY <1>1, <2>1, <3>1 DEF Value
    <3>2. CASE impl[g] # Null
      BY <1>1, <2>1, <3>2, KeepsOthers DEF Value
    <3> QED BY <3>1, <3>2
  <2>2. CASE f = g
    BY <1>1, <2>2 DEF Value
  <2>3. CASE f # h /\ f # g /\ impl[f] = Null
    BY <1>1, <2>3 DEF Value
  <2>4. CASE f # h /\ f # g /\ impl[f] # Null
    BY <1>1, <2>4, KeepsOthers DEF Value
  <2> QED BY <2>1, <2>2, <2>3, <2>4
<1> QED BY <1>3, <1>4, <1>5

LEMMA SwapCorrect ==
    ASSUME BlockOK, RefsExact, NEW h \in Handles, NEW g \in Handles,
           block' = block, impl' = [impl EXCEPT ![h] = impl[g], ![g] = impl[h]]
    PROVE  /\ BlockOK' /\ RefsExact'
           /\ \A f \in Handles :
                Value(f)' = IF f = h THEN Value(g) ELSE IF f = g THEN Value(h) ELSE Value(f)
<1> DEFINE mid == [impl EXCEPT ![h] = impl[g]]
<1>1. /\ impl' \in [Handles -> Blocks \cup {Null}]
      /\ impl'[h] = impl[g] /\ impl'[g] = impl[h]
      /\ \A f \in Handles \ {h, g} : impl'[f] = impl[f]
  BY DEF BlockOK
<1>2. Moves(impl, mid, h, impl[g]) /\ Moves(mid, impl', g, impl[h]) /\ mid[g] = impl[g]
  BY DEF BlockOK, Moves
<1> HIDE DEF mid
<1>3. BlockOK'
  BY <1>1 DEF BlockOK, Free
<1>4. RefsExact'
  <2> SUFFICES ASSUME NEW c \in Blocks
               PROVE  Cardinality(UsersOf(impl', c)) = block'[c].ref + 1
    BY CountsPrimed DEF Counted
  <2>1. Cardinality(UsersOf(impl, c)) = block[c].ref + 1
    BY Counts DEF Counted
  <2>2. Cardinality(UsersOf(mid, c)) =
            Cardinality(UsersOf(impl, c)) - One(impl[h] = c) + One(impl[g] = c)
    BY <1>2, UsersMove
  <2>3. Cardinality(UsersOf(impl', c)) =
            Cardinality(UsersOf(mid, c)) - One(mid[g] = c) + One(impl[h] = c)
    BY <1>2, UsersMove
  <2> QED BY <1>2, <2>1, <2>2, <2>3 DEF One, BlockOK
<1>5. \A f \in Handles :
        Value(f)' = IF f = h THEN Value(g) ELSE IF f = g THEN Value(h) ELSE Value(f)
  BY <1>1 DEF Value
<1> QED BY <1>3, <1>4, <1>5

\* Without a shared empty block, a write reaches the list of one handle.
LEMMA WriteCorrect ==
    ASSUME BlockOK, RefsExact, NEW h \in Handles, NEW s \in Seq(Values), Write(h, s)
    PROVE  BlockOK' /\ RefsExact' /\ (EmptyShared \/ Changes(h, s))
<1>1. CASE Make(h, s)
  BY <1>1, MakeCorrect
<1>2. CASE /\ impl[h] # Null /\ (is_shared(h) => Value(h) = <<>>)
           /\ block' = [block EXCEPT ![impl[h]].data = s]
           /\ UNCHANGED impl
  <2> DEFINE b == impl[h]
             new == [block[b] EXCEPT !.data = s]
  <2>1. b \in Blocks /\ block[b].ref \in Nat
    BY <1>2, HandleCounts
  <2>2. new \in [ref : Nat \cup {-1}, data : Seq(Values)]
        /\ new.ref = block[b].ref /\ new.data = s
    BY <2>1 DEF BlockOK
  <2>3. block' = [block EXCEPT ![b] = new] /\ impl' = impl
    BY <1>2
  <2> HIDE DEF new
  <2>4. block' \in [Blocks -> [ref : Nat \cup {-1}, data : Seq(Values)]]
        /\ block'[b] = new
        /\ \A c \in Blocks \ {b} : block'[c] = block[c]
    BY <2>1, <2>2, <2>3 DEF BlockOK
  <2>5. BlockOK'
    BY <2>1, <2>2, <2>3, <2>4 DEF BlockOK, Free
  <2>6. RefsExact'
    BY <2>2, <2>3, <2>4 DEF RefsExact, Users
  <2>7. ASSUME ~EmptyShared PROVE Changes(h, s)
    <3>1. ~is_shared(h)
      BY <1>2, <2>7 DEF EmptyShared
    <3>2. \A g \in Handles \ {h} : impl[g] # b
      BY <1>2, <3>1, TwoCount DEF is_shared
    <3>3. \A g \in Handles : impl[g] \in Blocks \cup {Null}
      BY DEF BlockOK
    <3> QED BY <1>2, <2>2, <2>3, <2>4, <3>2, <3>3 DEF Changes, Value
  <2> QED BY <2>5, <2>6, <2>7
<1> QED BY <1>1, <1>2 DEF Write
---------------------------------------------------------------------------
LEMMA ListValue ==
    ASSUME BlockOK, NEW h \in Handles
    PROVE  Value(h) \in Seq(Values) /\ Len(Value(h)) \in Nat
BY EmptySeq DEF BlockOK, Value

LEMMA Piece ==
    ASSUME NEW s \in Seq(Values), NEW m \in Nat \ {0}, NEW n \in Int, n <= Len(s)
    PROVE  SubSeq(s, m, n) \in Seq(Values)
<1>1. \A i \in m..n : s[i] \in Values
  BY ElementOfSeq
<1> QED BY <1>1, SubSeqProperties

LEMMA Single == ASSUME NEW v \in Values PROVE <<v>> \in Seq(Values)
OBVIOUS

LEMMA WithSeq ==
    ASSUME NEW s \in Seq(Values), NEW i \in 0..Len(s), NEW v \in Values
    PROVE  With(s, i, v) \in Seq(Values)
<1>1. SubSeq(s, 1, i) \in Seq(Values) /\ SubSeq(s, i + 1, Len(s)) \in Seq(Values)
  BY Piece
<1>2. SubSeq(s, 1, i) \o <<v>> \in Seq(Values)
  BY <1>1, Single, ConcatProperties
<1> QED BY <1>1, <1>2, ConcatProperties DEF With

LEMMA WithoutSeq ==
    ASSUME NEW s \in Seq(Values), NEW i \in Nat, NEW n \in Nat, i + n <= Len(s)
    PROVE  Without(s, i, n) \in Seq(Values)
<1>1. SubSeq(s, 1, i) \in Seq(Values) /\ SubSeq(s, i + n + 1, Len(s)) \in Seq(Values)
  BY Piece
<1> QED BY <1>1, ConcatProperties DEF Without

LEMMA MovedSeq ==
    ASSUME NEW s \in Seq(Values), NEW i \in Nat, NEW j \in Nat, i < Len(s), j < Len(s)
    PROVE  Moved(s, i, j) \in Seq(Values)
<1>1. <<s[i + 1]>> \in Seq(Values)
  BY ElementOfSeq, Single
<1>2. /\ SubSeq(s, 1, i) \in Seq(Values) /\ SubSeq(s, i + 2, j) \in Seq(Values)
      /\ SubSeq(s, j + 1, Len(s)) \in Seq(Values) /\ SubSeq(s, 1, j) \in Seq(Values)
      /\ SubSeq(s, j + 1, i) \in Seq(Values) /\ SubSeq(s, i + 2, Len(s)) \in Seq(Values)
  BY Piece
<1>3. SubSeq(s, 1, i) \o SubSeq(s, i + 2, j) \o <<s[i + 1]>> \o SubSeq(s, j + 1, Len(s))
        \in Seq(Values)
  BY <1>1, <1>2, ConcatProperties
<1>4. SubSeq(s, 1, j) \o <<s[i + 1]>> \o SubSeq(s, j + 1, i) \o SubSeq(s, i + 2, Len(s))
        \in Seq(Values)
  BY <1>1, <1>2, ConcatProperties
<1> QED BY <1>3, <1>4 DEF Moved

LEMMA TurnedSeq == ASSUME NEW s \in Seq(Values) PROVE Turned(s) \in Seq(Values)
<1>1. \A i \in 1..Len(s) : s[Len(s) + 1 - i] \in Values
  BY ElementOfSeq
<1> QED BY <1>1, IsASeq DEF Turned

LEMMA PlaceInside ==
    ASSUME NEW s \in Seq(Values), NEW pos \in Nat
    PROVE  Place(s, pos) \in 0..Len(s)
BY EmptySeq DEF Place
---------------------------------------------------------------------------
LEMMA ValueIs == \A h \in Handles : value[h] = Value(h)
BY DEF value

LEMMA ValueBecomes ==
    ASSUME NEW h \in Handles, NEW s, Changes(h, s)
    PROVE  value' = [value EXCEPT ![h] = s]
BY DEF Changes, value

\* What a step leaves behind.
Good == BlockOK' /\ RefsExact' /\ (EmptyShared \/ [Service!Next]_value)

LEMMA InsertGood ==
    ASSUME BlockOK, RefsExact, NEW h \in Handles, NEW pos \in Nat, NEW v \in Values,
           Write(h, With(Value(h), Place(Value(h), pos), v))
    PROVE  Good
<1> DEFINE i == Place(Value(h), pos)
<1>1. i \in 0..Len(Value(h)) /\ With(Value(h), i, v) \in Seq(Values)
  BY ListValue, PlaceInside, WithSeq
<1>2. BlockOK' /\ RefsExact' /\ (EmptyShared \/ Changes(h, With(Value(h), i, v)))
  BY <1>1, WriteCorrect
<1>3. ASSUME Changes(h, With(Value(h), i, v)) PROVE Service!Insert
  <2>1. value' = [value EXCEPT ![h] = With(value[h], i, v)]
    BY <1>3, ValueBecomes, ValueIs
  <2> HIDE DEF i
  <2> QED BY <1>1, <2>1, ValueIs DEF Service!Insert, Service!Becomes, With
<1> QED BY <1>2, <1>3 DEF Good, Service!Next

LEMMA EraseGood ==
    ASSUME BlockOK, RefsExact, NEW h \in Handles, NEW i \in Nat, NEW n \in Nat,
           i + n <= Len(Value(h)), Write(h, Without(Value(h), i, n))
    PROVE  Good
<1>1. Without(Value(h), i, n) \in Seq(Values)
  BY ListValue, WithoutSeq
<1>2. BlockOK' /\ RefsExact' /\ (EmptyShared \/ Changes(h, Without(Value(h), i, n)))
  BY <1>1, WriteCorrect
<1>3. ASSUME Changes(h, Without(Value(h), i, n)) PROVE Service!Erase
  <2>1. value' = [value EXCEPT ![h] = Without(value[h], i, n)]
    BY <1>3, ValueBecomes, ValueIs
  <2>2. i \in 0..Len(value[h]) /\ i + n \in 0..Len(value[h]) /\ i <= i + n
    BY ListValue, ValueIs
  <2> QED BY <2>1, <2>2 DEF Service!Erase, Service!Becomes, Without
<1> QED BY <1>2, <1>3 DEF Good, Service!Next

LEMMA DetachGood ==
    ASSUME BlockOK, RefsExact, NEW h \in Handles, Write(h, Value(h))
    PROVE  Good
<1>1. BlockOK' /\ RefsExact' /\ (EmptyShared \/ Changes(h, Value(h)))
  BY ListValue, WriteCorrect
<1>2. Changes(h, Value(h)) => value' = value
  BY DEF Changes, value
<1> QED BY <1>1, <1>2 DEF Good

LEMMA ReplaceGood ==
    ASSUME BlockOK, RefsExact, NEW h \in Handles, NEW i \in Nat, NEW v \in Values,
           i < Len(Value(h)), Write(h, [Value(h) EXCEPT ![i + 1] = v])
    PROVE  Good
<1>1. i + 1 \in 1..Len(Value(h)) /\ [Value(h) EXCEPT ![i + 1] = v] \in Seq(Values)
  BY ListValue, ExceptSeq
<1>2. BlockOK' /\ RefsExact' /\ (EmptyShared \/ Changes(h, [Value(h) EXCEPT ![i + 1] = v]))
  BY <1>1, WriteCorrect
<1>3. ASSUME Changes(h, [Value(h) EXCEPT ![i + 1] = v]) PROVE Service!Replace
  <2>1. value' = [value EXCEPT ![h] = [value[h] EXCEPT ![i + 1] = v]]
    BY <1>3, ValueBecomes, ValueIs
  <2> QED BY <1>1, <2>1, ValueIs DEF Service!Replace, Service!Becomes
<1> QED BY <1>2, <1>3 DEF Good, Service!Next

LEMMA MoveGood ==
    ASSUME BlockOK, RefsExact, NEW h \in Handles, NEW i \in Nat, NEW j \in Nat,
           i < Len(Value(h)), j < Len(Value(h)), Write(h, Moved(Value(h), i, j))
    PROVE  Good
<1>1. Moved(Value(h), i, j) \in Seq(Values)
  BY ListValue, MovedSeq
<1>2. BlockOK' /\ RefsExact' /\ (EmptyShared \/ Changes(h, Moved(Value(h), i, j)))
  BY <1>1, WriteCorrect
<1>3. ASSUME Changes(h, Moved(Value(h), i, j)) PROVE Service!Move
  <2>1. value' = [value EXCEPT ![h] = Moved(value[h], i, j)]
    BY <1>3, ValueBecomes, ValueIs
  <2>2. i + 1 \in 1..Len(value[h]) /\ j + 1 \in 1..Len(value[h])
    BY ListValue, ValueIs
  <2>3. /\ (i + 1) - 1 = i /\ (i + 1) + 1 = i + 2 /\ (j + 1) - 1 = j
        /\ (i < j <=> i + 1 < j + 1)
    OBVIOUS
  <2> QED BY <2>1, <2>2, <2>3 DEF Service!Move, Service!Becomes, Moved
<1> QED BY <1>2, <1>3 DEF Good, Service!Next

LEMMA TurnGood ==
    ASSUME BlockOK, RefsExact, NEW h \in Handles, Write(h, Turned(Value(h)))
    PROVE  Good
<1>1. BlockOK' /\ RefsExact' /\ (EmptyShared \/ Changes(h, Turned(Value(h))))
  BY ListValue, TurnedSeq, WriteCorrect
<1>2. ASSUME Changes(h, Turned(Value(h))) PROVE Service!Turn
  <2>1. value' = [value EXCEPT ![h] = Turned(value[h])]
    BY <1>2, ValueBecomes, ValueIs
  <2> QED BY <2>1 DEF Service!Turn, Service!Becomes, Turned
<1> QED BY <1>1, <1>2 DEF Good, Service!Next

LEMMA AssignGood ==
    ASSUME BlockOK, RefsExact, NEW h \in Handles, NEW g \in Handles, impl[h] # impl[g],
           Share(h, g) \/ (impl[g] = Null /\ Make(h, <<>>))
    PROVE  Good
<1>1. impl[g] = Null => Value(g) = <<>>
  BY DEF Value
<1>2. BlockOK' /\ RefsExact' /\ Changes(h, Value(g))
  BY <1>1, ShareCorrect, MakeCorrect, EmptySeq
<1>3. value' = [value EXCEPT ![h] = value[g]]
  BY <1>2, ValueBecomes, ValueIs
<1>4. Service!Assign
  BY <1>3 DEF Service!Assign, Service!Becomes
<1> QED BY <1>2, <1>4 DEF Good, Service!Next

LEMMA DropGood ==
    ASSUME BlockOK, RefsExact, NEW h \in Handles, Drop(h)
    PROVE  Good
<1>1. BlockOK' /\ RefsExact' /\ value' = [value EXCEPT ![h] = <<>>]
  BY DropCorrect, ValueBecomes
<1>2. Service!Clear
  BY <1>1 DEF Service!Clear, Service!Becomes
<1> QED BY <1>1, <1>2 DEF Good, Service!Next

LEMMA TakeGood ==
    ASSUME BlockOK, RefsExact, NEW h \in Handles, NEW g \in Handles, h # g,
           block' = Lessref(h), impl' = [impl EXCEPT ![h] = impl[g], ![g] = Null]
    PROVE  Good
<1>1. BlockOK' /\ RefsExact'
      /\ \A f \in Handles :
            Value(f)' = IF f = h THEN Value(g) ELSE IF f = g THEN <<>> ELSE Value(f)
  BY TakeCorrect
<1>2. value' = [value EXCEPT ![h] = value[g], ![g] = <<>>]
  BY <1>1 DEF value
<1>3. Service!Take
  BY <1>2 DEF Service!Take
<1> QED BY <1>1, <1>3 DEF Good, Service!Next

LEMMA SwapGood ==
    ASSUME BlockOK, RefsExact, NEW h \in Handles, NEW g \in Handles,
           block' = block, impl' = [impl EXCEPT ![h] = impl[g], ![g] = impl[h]]
    PROVE  Good
<1>1. BlockOK' /\ RefsExact'
      /\ \A f \in Handles :
            Value(f)' = IF f = h THEN Value(g) ELSE IF f = g THEN Value(h) ELSE Value(f)
  BY SwapCorrect
<1>2. value' = [value EXCEPT ![h] = value[g], ![g] = value[h]]
  BY <1>1 DEF value
<1>3. Service!Swap
  BY <1>2 DEF Service!Swap
<1> QED BY <1>1, <1>3 DEF Good, Service!Next

LEMMA SameGood ==
    ASSUME BlockOK, RefsExact, UNCHANGED <<impl, block>>
    PROVE  Good
<1>1. BlockOK' /\ RefsExact'
  BY DEF BlockOK, RefsExact, Users, Free
<1>2. value' = value
  BY DEF value, Value
<1> QED BY <1>1, <1>2 DEF Good
---------------------------------------------------------------------------
Works == [to : Handles, at : Nat, step : {0, 1}, left : Seq(Values), clear : SUBSET Handles]

LEMMA NothingWorks == Nothing \in Works
<1>1. (CHOOSE h \in Handles : TRUE) \in Handles
  BY ListAssumptions
<1> QED BY <1>1, EmptySeq DEF Nothing, Works

LEMMA ForeachWorks ==
    ASSUME NEW h \in Handles, NEW i \in Nat, NEW step \in {0, 1}, NEW s \in Seq(Values),
           NEW clear \in SUBSET Handles, Foreach(h, i, step, s, clear)
    PROVE  work' \in Works
BY DEF Foreach, Works

LEMMA PositionsNat == Positions \subseteq Nat
BY ListAssumptions DEF Positions

LEMMA OneHandleGood ==
    ASSUME TypeOK, RefsExact, NEW h \in Handles, OneHandle(h)
    PROVE  Good /\ work' \in Works
<1> USE DEF TypeOK, Works
<1>1. Value(h) \in Seq(Values) /\ Len(Value(h)) \in Nat
  BY ListValue
<1>2. CASE Clear(h)
  BY <1>2, DropGood DEF Clear
<1>3. CASE reverse(h)
  BY <1>3, TurnGood DEF reverse
<1>4. ASSUME NEW pos \in Positions, NEW v \in Values, Insert(h, pos, v)
      PROVE  Good /\ work' \in Works
  BY <1>4, PositionsNat, InsertGood DEF Insert
<1>5. ASSUME NEW i \in Positions, NEW v \in Values, Replace(h, i, v)
      PROVE  Good /\ work' \in Works
  BY <1>5, PositionsNat, ReplaceGood DEF Replace
<1>6. ASSUME NEW pos \in Positions, Remove(h, pos)
      PROVE  Good /\ work' \in Works
  <2> DEFINE i == IF pos < Len(Value(h)) THEN pos ELSE Len(Value(h)) - 1
  <2>1. CASE Value(h) = <<>>
    BY <1>6, <2>1, DetachGood DEF Remove
  <2>2. CASE Value(h) # <<>>
    <3>1. Write(h, Without(Value(h), i, 1)) /\ UNCHANGED work
      BY <1>6, <2>2 DEF Remove
    <3>2. i \in Nat /\ i + 1 <= Len(Value(h))
      BY <1>1, <2>2, PositionsNat, EmptySeq
    <3> HIDE DEF i
    <3> QED BY <3>1, <3>2, EraseGood
  <2> QED BY <2>1, <2>2
<1>7. ASSUME NEW i \in Positions, NEW j \in Positions, Erase(h, i, j)
      PROVE  Good /\ work' \in Works
  <2>1. i \in Nat /\ j - i \in Nat /\ i + (j - i) <= Len(Value(h))
    BY <1>7, <1>1, PositionsNat DEF Erase
  <2> QED BY <1>7, <2>1, EraseGood DEF Erase
<1>8. ASSUME NEW i \in Positions, NEW j \in Positions, Move(h, i, j)
      PROVE  Good /\ work' \in Works
  <2>1. CASE i < Len(Value(h)) /\ j < Len(Value(h))
    BY <1>8, <2>1, PositionsNat, MoveGood DEF Move
  <2>2. CASE ~(i < Len(Value(h)) /\ j < Len(Value(h)))
    BY <1>8, <2>2, DetachGood DEF Move
  <2> QED BY <2>1, <2>2
<1>9. ASSUME NEW v \in Values, Append1(h, v)
      PROVE  Good /\ work' \in Works
  BY <1>9, <1>1, InsertGood DEF Append1, Insert
<1>10. ASSUME NEW i \in Positions, NEW n \in Positions, NEW v \in Values, InsertCopies(h, i, n, v)
      PROVE  Good /\ work' \in Works
  <2>1. [k \in 1..n |-> v] \in Seq(Values)
    BY PositionsNat, IsASeq
  <2>2. work' \in Works
    <3> DEFINE s == [k \in 1..n |-> v]
    <3>1. Foreach(h, i, 0, s, {}) /\ i \in Nat /\ s \in Seq(Values)
      BY <1>10, <2>1, PositionsNat DEF InsertCopies
    <3> HIDE DEF s
    <3> QED BY <3>1 DEF Foreach
  <2> QED BY <1>10, <2>2, DetachGood DEF InsertCopies, Detach
<1>11. ASSUME NEW v \in Values, NEW w \in Values, Form(h, <<v, w>>)
       PROVE  Good /\ work' \in Works
  <2>1. <<v, w>> \in Seq(Values)
    OBVIOUS
  <2>2. work' \in Works
    <3> DEFINE s == <<v, w>>
    <3>1. Foreach(h, Len(Value(h)), 1, s, {}) /\ s \in Seq(Values)
      BY <1>11, <2>1 DEF Form
    <3> HIDE DEF s
    <3> QED BY <1>1, <3>1 DEF Foreach
  <2> QED BY <1>11, <2>2, DetachGood DEF Form, Detach
<1> QED
  BY <1>2, <1>3, <1>4, <1>5, <1>6, <1>7, <1>8, <1>9, <1>10, <1>11 DEF OneHandle

LEMMA TwoHandlesGood ==
    ASSUME TypeOK, RefsExact, NEW h \in Handles, NEW g \in Handles, TwoHandles(h, g)
    PROVE  Good /\ work' \in Works
<1> USE DEF TypeOK, Works
<1>1. /\ Value(h) \in Seq(Values) /\ Len(Value(h)) \in Nat
      /\ Value(g) \in Seq(Values)
  BY ListValue
<1>2. CASE Assign(h, g)
  BY <1>2, AssignGood DEF Assign
<1>3. CASE MoveAssign(h, g)
  BY <1>3, TakeGood DEF MoveAssign
<1>4. CASE Swap(h, g)
  BY <1>4, SwapGood DEF Swap
<1>5. ASSUME NEW pos \in Nat, NEW step \in {0, 1}, InsertList(h, pos, step, g)
      PROVE  Good /\ work' \in Works
  BY <1>5, <1>1, ForeachWorks, SameGood DEF InsertList
<1>6. ASSUME NEW i \in Nat, NEW clear \in SUBSET Handles, Splice(h, i, g, clear)
      PROVE  Good /\ work' \in Works
  BY <1>6, <1>1, ForeachWorks, DetachGood DEF Splice, Detach
<1>7. {} \in SUBSET Handles /\ {g} \in SUBSET Handles
  OBVIOUS
<1> QED
  BY <1>1, <1>2, <1>3, <1>4, <1>5, <1>6, <1>7, PositionsNat
     DEF TwoHandles, AppendList, PrependList

LEMMA PlusGood ==
    ASSUME TypeOK, RefsExact, NEW h \in Handles, NEW f \in Handles, NEW g \in Handles,
           Plus(h, f, g)
    PROVE  Good /\ work' \in Works
<1>1. Len(Value(f)) \in Nat /\ Value(g) \in Seq(Values)
  BY ListValue DEF TypeOK
<1>2. work' \in Works
  BY <1>1, ForeachWorks DEF Plus
<1>3. CASE Share(h, f)
  <2>1. impl[h] # impl[f]
    BY <1>3 DEF Plus, Share
  <2> QED BY <1>2, <1>3, <2>1, AssignGood DEF TypeOK
<1>4. CASE UNCHANGED <<impl, block>>
  BY <1>2, <1>4, SameGood DEF TypeOK
<1> QED BY <1>2, <1>3, <1>4 DEF Plus

LEMMA NextGood ==
    ASSUME TypeOK, RefsExact, Next
    PROVE  Good /\ work' \in Works
<1>1. CASE InsertNext
  <2>1. /\ work \in Works /\ work.left # <<>>
        /\ work.to \in Handles /\ work.at \in Nat /\ work.step \in {0, 1}
        /\ work.left \in Seq(Values)
    BY <1>1 DEF InsertNext, TypeOK, Works
  <2>2. Head(work.left) \in Values /\ Tail(work.left) \in Seq(Values)
    BY <2>1, HeadTailProperties
  <2>3. work' \in Works
    <3>1. work.at + work.step \in Nat
      BY <2>1
    <3>2. work' = [work EXCEPT !.at = work.at + work.step, !.left = Tail(work.left)]
      BY <1>1 DEF InsertNext
    <3> QED BY <2>1, <2>2, <3>1, <3>2 DEF Works
  <2> QED BY <1>1, <2>1, <2>2, <2>3, InsertGood DEF InsertNext, TypeOK
<1>2. CASE Return
  <2>1. \A g \in work.clear : g \in Handles
    BY DEF TypeOK
  <2> QED BY <1>2, <2>1, NothingWorks, DropGood, SameGood DEF Return, TypeOK
<1> QED
  BY <1>1, <1>2, OneHandleGood, TwoHandlesGood, PlusGood DEF Next
---------------------------------------------------------------------------
\* The state keeps its type, and counters count the handles: a block is freed
\* with its last handle and never before.
THEOREM ListCorrect == Spec => [](TypeOK /\ RefsExact)
<1>1. Init => TypeOK /\ RefsExact
  <2> SUFFICES ASSUME Init PROVE TypeOK /\ RefsExact
    OBVIOUS
  <2>1. Free \in [ref : Nat \cup {-1}, data : Seq(Values)] /\ Free.ref = -1
    BY EmptySeq DEF Free
  <2>2. TypeOK
    BY <2>1, NothingWorks DEF Init, TypeOK, BlockOK, Works
  <2>3. \A b \in Blocks : Users(b) = {}
    BY ListAssumptions DEF Init, Users
  <2>4. RefsExact
    <3>1. Cardinality({}) = 0
      BY FS_EmptySet
    <3>2. \A b \in Blocks : block[b].ref = -1
      BY <2>1 DEF Init
    <3> QED BY <2>3, <3>1, <3>2 DEF RefsExact
  <2> QED BY <2>2, <2>4
<1>2. TypeOK /\ RefsExact /\ [Next]_vars => (TypeOK /\ RefsExact)'
  <2> SUFFICES ASSUME TypeOK, RefsExact, [Next]_vars PROVE (TypeOK /\ RefsExact)'
    OBVIOUS
  <2>1. CASE Next
    BY <2>1, NextGood DEF Good, TypeOK, Works
  <2>2. CASE UNCHANGED vars
    BY <2>2, SameGood DEF vars, Good, TypeOK
  <2> QED BY <2>1, <2>2
<1> QED BY <1>1, <1>2, PTL DEF Spec

\* The state keeps its type.
THEOREM ListTypeCorrect == Spec => []TypeOK
<1> QED BY ListCorrect, PTL

\* While no empty block is shared, every step is one of the list service's: a
\* call changes the list it is made on as it promises and no other.
THEOREM IsolatedCorrect == Spec => Isolated
<1>1. TypeOK /\ RefsExact /\ [Next]_vars => [EmptyShared \/ [Service!Next]_value]_vars
  BY NextGood DEF Good
<1> QED BY <1>1, ListCorrect, PTL DEF Spec, Isolated
===========================================================================
