--------------------------- MODULE MapTreeProofs ---------------------------
(***************************************************************************)
(* The tree of bs_map, for any number of keys and of equal keys.           *)
(***************************************************************************)
EXTENDS MapTree, IterationProofs, FiniteSetTheorems

---------------------------------------------------------------------------
(* The shape of the tree.                                                  *)

\* The cells the tree is made of: the header and the nodes that are in.
InNodes(t) == {n \in Nodes : InTree(t, n)}
Inside(t) == InNodes(t) \cup {Header}

\* i lies on side d of j; i is the number next to j on side d.
Before(d, i, j) == IF d = "lchild" THEN i < j ELSE j < i
Adjoins(d, i, j) == IF d = "lchild" THEN i = j - 1 ELSE i = j + 1

\* Children and parents agree, and a node outside has no links.
Linked(t) ==
    /\ t.parent[Header] = Null
    /\ t.child["rchild"][Header] = Null
    /\ \A n \in Inside(t), d \in Sides :
          t.child[d][n] # Null => t.parent[t.child[d][n]] = n
    /\ \A n \in InNodes(t) :
          /\ t.parent[n] \in Inside(t)
          /\ \E d \in Sides : t.child[d][t.parent[n]] = n
    /\ \A n \in Nodes \ InNodes(t), d \in Sides : t.child[d][n] = Null

\* pos numbers the c nodes from left to right and the header after them;
\* b[d][n] is the number of the cell that ends the subtree of n on side d.
Ranks(t, c, pos) ==
    /\ pos \in [Cells -> Int]
    /\ pos[Header] = c + 1
    /\ \A n \in InNodes(t) : pos[n] \in 1 .. c
    /\ \A m, n \in Inside(t) : pos[m] = pos[n] => m = n
    /\ c = Cardinality(InNodes(t))

Bounds(t, c, pos, b) ==
    /\ b \in [Sides -> [Cells -> Int]]
    /\ b["lchild"][Header] = 0 /\ b["rchild"][Header] = c + 2
    /\ \A n \in Inside(t), d \in Sides :
          b[d][n] \in 0 .. c + 2 /\ Before(d, b[d][n], pos[n])
    /\ \A n \in Inside(t), d \in Sides :
          IF t.child[d][n] = Null
          THEN Adjoins(d, b[d][n], pos[n])
          ELSE b[d][t.child[d][n]] = b[d][n] /\ b[Opp(d)][t.child[d][n]] = pos[n]

\* Between neighbours at most one link ends.
Gaps(t, pos) ==
    \A m, n \in Inside(t) :
        pos[n] = pos[m] + 1 => t.child["rchild"][m] # Null \/ t.child["lchild"][n] # Null

Sorted(t, pos) ==
    \A m, n \in InNodes(t) : pos[m] < pos[n] => key(m) <= key(n)

Shape(t, c, pos, b) ==
    /\ t \in Trees /\ c \in Nat
    /\ Linked(t) /\ Ranks(t, c, pos) /\ Bounds(t, c, pos, b) /\ Gaps(t, pos)
    /\ Sorted(t, pos)
---------------------------------------------------------------------------
LEMMA NodeFacts ==
    /\ MaxNodes \in Nat
    /\ Null \notin Cells /\ Null \notin Nodes /\ Header \notin Nodes /\ Header # Null
    /\ Header \in Cells /\ Nodes \subseteq Cells /\ Nodes \subseteq Links
    /\ Null \in Links /\ Links \ {Null} = Nodes
<1>1. MaxKey * Copies \in Nat
  BY TreeAssumptions
<1> QED BY <1>1 DEF MaxNodes, Null, Cells, Nodes, Header, Links

LEMMA SideFacts ==
    /\ "lchild" \in Sides /\ "rchild" \in Sides /\ "lchild" # "rchild"
    /\ \A d \in Sides : Opp(d) \in Sides /\ Opp(d) # d /\ Opp(Opp(d)) = d
    /\ \A d, e \in Sides : e = d \/ e = Opp(d)
BY DEF Sides, Opp


\* A child lies between its parent and the parent's bound on that side.
LEMMA ChildFacts ==
    ASSUME NEW t, NEW c, NEW pos, NEW b, Shape(t, c, pos, b),
           NEW n \in Inside(t), NEW d \in Sides, t.child[d][n] # Null
    PROVE  LET m == t.child[d][n]
           IN  /\ m \in InNodes(t) /\ t.parent[m] = n /\ m # n
               /\ b[d][m] = b[d][n] /\ b[Opp(d)][m] = pos[n]
               /\ Before(d, pos[m], pos[n]) /\ Before(d, b[d][n], pos[m])
               /\ t.child[Opp(d)][n] # m
<1> DEFINE m == t.child[d][n]
           o == Opp(d)
<1>1. n \in Cells /\ o \in Sides /\ o # d /\ Opp(o) = d
  BY SideFacts, NodeFacts DEF InNodes, Inside
<1>2. m \in Nodes /\ t.parent[m] = n
  BY <1>1, NodeFacts DEF Shape, Linked, Trees
<1>3. m \in InNodes(t)
  BY <1>1, <1>2, NodeFacts DEF InNodes, InTree
<1>4. m \in Inside(t) /\ m \in Cells /\ m # Header
  BY <1>2, <1>3, NodeFacts DEF Inside
<1>5. b[d][m] = b[d][n] /\ b[o][m] = pos[n]
  BY DEF Shape, Bounds
<1>6. /\ pos[m] \in Int /\ pos[n] \in Int /\ b[d][n] \in Int
      /\ Before(d, b[d][n], pos[n]) /\ Before(d, b[d][m], pos[m]) /\ Before(o, b[o][m], pos[m])
  BY <1>1, <1>4 DEF Shape, Bounds, Ranks
<1>7. Before(d, pos[m], pos[n]) /\ Before(d, b[d][n], pos[m])
  BY <1>1, <1>5, <1>6 DEF Before, Sides, Opp
<1>8. m # n
  BY <1>6, <1>7 DEF Before
<1>9. t.child[o][n] # m
  <2> SUFFICES ASSUME t.child[o][n] = m PROVE FALSE
    OBVIOUS
  <2>1. t.child[o][n] # Null
    BY <1>2, NodeFacts
  <2>2. b[o][m] = b[o][n]
    BY <1>1, <2>1 DEF Shape, Bounds
  <2>3. Before(o, b[o][n], pos[n])
    BY <1>1 DEF Shape, Bounds
  <2> QED BY <1>5, <1>6, <2>2, <2>3 DEF Before
<1> QED BY <1>2, <1>3, <1>5, <1>7, <1>8, <1>9

\* A node is on one side of its parent; the root is the header's child.
\* The same with a name for the child.
LEMMA ChildNamed ==
    ASSUME NEW t, NEW c, NEW pos, NEW b, Shape(t, c, pos, b),
           NEW n \in Inside(t), NEW d \in Sides, NEW m, m = t.child[d][n], m # Null
    PROVE  /\ m \in InNodes(t) /\ t.parent[m] = n /\ m # n
           /\ b[d][m] = b[d][n] /\ b[Opp(d)][m] = pos[n]
           /\ t.child[Opp(d)][n] # m
BY ChildFacts

\* A child is in one place.
LEMMA OnePlace ==
    ASSUME NEW t, NEW c, NEW pos, NEW b, Shape(t, c, pos, b),
           NEW n \in Inside(t), NEW f \in Sides, NEW x \in Inside(t), NEW d \in Sides,
           NEW w, w = t.child[f][n], w = t.child[d][x], w # Null
    PROVE  n = x /\ f = d
<1>1. t.parent[w] = n /\ t.child[Opp(f)][n] # w
  <2>1. w = t.child[f][n] /\ w # Null /\ Shape(t, c, pos, b)
    OBVIOUS
  <2> QED BY ONLY <2>1, ChildNamed
<1>2. t.parent[w] = x
  <2>1. w = t.child[d][x] /\ w # Null /\ Shape(t, c, pos, b)
    OBVIOUS
  <2> QED BY ONLY <2>1, ChildNamed
<1>3. f = d \/ d = Opp(f)
  BY SideFacts
<1> QED BY <1>1, <1>2, <1>3

\* The bounds of the children, and where there is none.
LEMMA BoundFacts ==
    ASSUME NEW t, NEW c, NEW pos, NEW b, Shape(t, c, pos, b),
           NEW n \in Inside(t), NEW d \in Sides, t.child[d][n] = Null
    PROVE  Adjoins(d, b[d][n], pos[n])
<1>1. Bounds(t, c, pos, b)
  BY DEF Shape
<1> QED BY <1>1 DEF Bounds

LEMMA ParentFacts ==
    ASSUME NEW t, NEW c, NEW pos, NEW b, Shape(t, c, pos, b), NEW n \in InNodes(t)
    PROVE  LET q == t.parent[n]
               d == Side(t, n)
           IN  /\ q \in Inside(t) /\ q \in Cells /\ q # n
               /\ d \in Sides /\ t.child[d][q] = n
               /\ \A e \in Sides : t.child[e][q] = n => e = d
               /\ n = Root(t) <=> q = Header
<1> DEFINE q == t.parent[n]
           d == Side(t, n)
<1>1. q \in Inside(t) /\ q \in Cells /\ n \in Nodes /\ n # Null /\ n # Header /\ n \in Cells
  BY NodeFacts DEF Shape, Linked, Inside, InNodes
<1>2. PICK e \in Sides : t.child[e][q] = n
  BY DEF Shape, Linked
<1>3. d \in Sides /\ t.child[d][q] = n
  BY <1>2 DEF Side, Sides
<1>4. q # n
  BY <1>1, <1>3, ChildFacts
<1>5. \A f \in Sides : t.child[f][q] = n => f = d
  BY <1>1, <1>3, ChildFacts, SideFacts
<1>6. n = Root(t) => q = Header
  <2> SUFFICES ASSUME n = Root(t) PROVE q = Header
    OBVIOUS
  <2>1. Header \in Inside(t) /\ "lchild" \in Sides
    BY SideFacts DEF Inside
  <2> QED BY <1>1, <2>1, ChildFacts DEF Root
<1>7. q = Header => n = Root(t)
  BY <1>1, <1>3 DEF Shape, Linked, Root, Sides
<1> QED BY <1>1, <1>3, <1>4, <1>5, <1>6, <1>7

\* The same with names for the parent and the side.
LEMMA ParentNamed ==
    ASSUME NEW t, NEW c, NEW pos, NEW b, Shape(t, c, pos, b), NEW n \in InNodes(t),
           NEW q, q = t.parent[n], NEW d, d = Side(t, n)
    PROVE  /\ q \in Cells /\ q # n /\ d \in Sides /\ t.child[d][q] = n
           /\ \A e \in Sides : t.child[e][q] = n => e = d
<1>1. /\ t.parent[n] \in Cells /\ t.parent[n] # n /\ Side(t, n) \in Sides
      /\ t.child[Side(t, n)][t.parent[n]] = n
      /\ \A e \in Sides : t.child[e][t.parent[n]] = n => e = Side(t, n)
  BY ParentFacts
<1> QED BY ONLY <1>1, q = t.parent[n], d = Side(t, n)

\* A child of a node is not its parent.
LEMMA NoCycle ==
    ASSUME NEW t, NEW c, NEW pos, NEW b, Shape(t, c, pos, b),
           NEW n \in InNodes(t), NEW d \in Sides, t.child[d][n] # Null
    PROVE  t.parent[n] # t.child[d][n]
<1> SUFFICES ASSUME t.parent[n] = t.child[d][n] PROVE FALSE
  OBVIOUS
<1> DEFINE m == t.child[d][n]
           e == Side(t, n)
<1>1. n \in Inside(t) /\ n # Null
  BY NodeFacts DEF Inside, InNodes
<1>2. Before(d, pos[m], pos[n]) /\ Before(d, b[d][n], pos[m]) /\ m \in Inside(t) /\ m \in Cells
  BY <1>1, ChildFacts, NodeFacts DEF Inside, InNodes
<1>3. e \in Sides /\ t.child[e][m] = n
  BY ParentFacts
<1>4. Before(e, pos[n], pos[m]) /\ b[Opp(e)][n] = pos[m]
  BY <1>1, <1>2, <1>3, ChildFacts
<1>5. pos[m] \in Int /\ pos[n] \in Int
  BY <1>2, NodeFacts DEF Shape, Ranks, InNodes
<1> HIDE DEF m, e
<1>6. e # d
  BY <1>2, <1>4, <1>5 DEF Before
<1>7. d = Opp(e)
  BY <1>3, <1>6, SideFacts
<1> QED BY <1>2, <1>4, <1>5, <1>7 DEF Before

\* One assignment to a link.
LEMMA ChildExcept ==
    ASSUME NEW ch \in [Sides -> [Cells -> Links]], NEW d \in Sides, NEW x \in Cells,
           NEW v \in Links
    PROVE  /\ [ch EXCEPT ![d][x] = v] \in [Sides -> [Cells -> Links]]
           /\ \A e \in Sides, n \in Cells :
                 [ch EXCEPT ![d][x] = v][e][n] = IF e = d /\ n = x THEN v ELSE ch[e][n]
OBVIOUS

\* The links after a rotation at x, in which y takes the place of x and c
\* changes from y to x.
Rotated(t, u, x, d) ==
    LET y == t.child[d][x]
        c == t.child[Opp(d)][y]
        q == t.parent[x]
    IN  /\ \A e \in Sides, n \in Cells :
              u.child[e][n] = IF e = d /\ n = x THEN c
                              ELSE IF e = Opp(d) /\ n = y THEN x
                              ELSE IF n = q /\ t.child[e][n] = x THEN y
                              ELSE t.child[e][n]
        /\ \A n \in Cells :
              u.parent[n] = IF n = c THEN x
                            ELSE IF n = x THEN y
                            ELSE IF n = y THEN q
                            ELSE t.parent[n]

\* What SetParent does to a tree.
LEMMA SetParentFields ==
    ASSUME NEW t \in Trees, NEW n \in Links, NEW p \in Cells
    PROVE  LET u == SetParent(t, n, p)
           IN  /\ u \in Trees
               /\ u.child = t.child /\ u.color = t.color /\ u.most_left = t.most_left
               /\ u.count = t.count /\ u.bad = t.bad
               /\ \A m \in Cells : u.parent[m] = IF m = n THEN p ELSE t.parent[m]
<1>1. CASE n = Null
  BY <1>1, NodeFacts DEF SetParent
<1>2. CASE n # Null
  <2>1. n \in Cells
    BY <1>2, NodeFacts
  <2> QED BY <1>2, <2>1 DEF SetParent, Trees
<1> QED BY <1>1, <1>2

LEMMA RotateFields ==
    ASSUME NEW t, NEW c, NEW pos, NEW b, Shape(t, c, pos, b),
           NEW x \in InNodes(t), NEW d \in Sides, t.child[d][x] # Null
    PROVE  LET u == Rotate(t, x, d)
           IN  /\ u \in Trees /\ Rotated(t, u, x, d)
               /\ u.color = t.color /\ u.most_left = t.most_left
               /\ u.count = t.count /\ u.bad = t.bad
<1> DEFINE y == t.child[d][x]
           o == Opp(d)
           m == t.child[o][y]
           q == t.parent[x]
           e == Side(t, x)
<1>1. t \in Trees /\ x \in Nodes /\ x \in Cells /\ o \in Sides /\ o # d /\ Opp(o) = d
  BY SideFacts, NodeFacts DEF Shape, InNodes
<1>2. x \in Inside(t) /\ y \in InNodes(t) /\ y \in Inside(t) /\ y \in Nodes /\ y \in Cells /\ m \in Links
      /\ x # y /\ t.parent[y] = x
  BY <1>1, ChildFacts, NodeFacts DEF Trees, Inside, InNodes
<1>3. m # Null => m \in Cells /\ m # y /\ m # x
  <2>1. m # Null => m \in InNodes(t) /\ m # y /\ t.parent[m] = y
    BY <1>1, <1>2, ChildFacts
  <2>2. q # y
    BY NoCycle
  <2> QED BY <2>1, <2>2, NodeFacts DEF InNodes
<1>4. q \in Cells /\ q \in Inside(t) /\ q # x /\ q # y /\ e \in Sides /\ t.child[e][q] = x
      /\ (\A f \in Sides : t.child[f][q] = x => f = e) /\ (x = Root(t) <=> q = Header)
  <2>1. q # y
    BY NoCycle
  <2> QED BY <2>1, ParentFacts
<1> HIDE DEF y, m, q, e, o
<1>5. PICK u : u = [t EXCEPT !.child[d][x] = m, !.child[o][y] = x, !.child[e][q] = y,
                             !.parent[y] = q, !.parent[x] = y]
  OBVIOUS
<1>6. Rotate(t, x, d) = SetParent(u, m, x)
  BY <1>5 DEF Rotate, y, m, q, e, o
<1>7. u.child = [t.child EXCEPT ![d][x] = m, ![o][y] = x, ![e][q] = y]
      /\ u.parent = [t.parent EXCEPT ![y] = q, ![x] = y]
      /\ u.color = t.color /\ u.most_left = t.most_left /\ u.count = t.count /\ u.bad = t.bad
      /\ DOMAIN u = DOMAIN t
  BY <1>1, <1>5 DEF Trees
<1>8. t.child \in [Sides -> [Cells -> Links]] /\ t.parent \in [Cells -> Cells \cup {Null}]
  BY <1>1 DEF Trees
<1>9. x \in Links /\ y \in Links
  BY <1>1, <1>2, NodeFacts
<1>10. /\ u.child \in [Sides -> [Cells -> Links]]
       /\ \A f \in Sides, n \in Cells :
             u.child[f][n] = IF f = d /\ n = x THEN m
                             ELSE IF f = o /\ n = y THEN x
                             ELSE IF n = q /\ f = e THEN y
                             ELSE t.child[f][n]
  <2>1. PICK c1 : c1 = [t.child EXCEPT ![d][x] = m]
    OBVIOUS
  <2>2. PICK c2 : c2 = [c1 EXCEPT ![o][y] = x]
    OBVIOUS
  <2>3. u.child = [c2 EXCEPT ![e][q] = y]
    BY <1>7, <2>1, <2>2
  <2>4. /\ c1 \in [Sides -> [Cells -> Links]]
        /\ \A f \in Sides, n \in Cells :
              c1[f][n] = IF f = d /\ n = x THEN m ELSE t.child[f][n]
    BY <1>1, <1>2, <1>8, <2>1, ChildExcept
  <2>5. /\ c2 \in [Sides -> [Cells -> Links]]
        /\ \A f \in Sides, n \in Cells :
              c2[f][n] = IF f = o /\ n = y THEN x ELSE c1[f][n]
    BY <1>1, <1>2, <1>9, <2>2, <2>4, ChildExcept
  <2>6. /\ u.child \in [Sides -> [Cells -> Links]]
        /\ \A f \in Sides, n \in Cells :
              u.child[f][n] = IF f = e /\ n = q THEN y ELSE c2[f][n]
    BY <1>4, <1>9, <2>3, <2>5, ChildExcept
  <2> QED BY <1>1, <1>2, <1>4, <2>4, <2>5, <2>6
<1>11. \A f \in Sides, n \in Cells : (n = q /\ f = e) <=> (n = q /\ t.child[f][n] = x)
  BY <1>4
<1>12. /\ u.parent \in [Cells -> Cells \cup {Null}]
       /\ \A n \in Cells : u.parent[n] = IF n = x THEN y ELSE IF n = y THEN q ELSE t.parent[n]
  BY <1>1, <1>2, <1>4, <1>7, <1>8
<1>13. u \in Trees
  BY <1>1, <1>2, <1>4, <1>5, <1>9, <1>10, <1>12 DEF Trees
<1>14. /\ SetParent(u, m, x) \in Trees /\ SetParent(u, m, x).child = u.child
       /\ SetParent(u, m, x).color = u.color /\ SetParent(u, m, x).most_left = u.most_left
       /\ SetParent(u, m, x).count = u.count /\ SetParent(u, m, x).bad = u.bad
       /\ \A n \in Cells : SetParent(u, m, x).parent[n] = IF n = m THEN x ELSE u.parent[n]
  BY <1>1, <1>2, <1>13, SetParentFields
<1>15. \A f \in Sides, n \in Cells :
          Rotate(t, x, d).child[f][n] = IF f = d /\ n = x THEN m
                                        ELSE IF f = o /\ n = y THEN x
                                        ELSE IF n = q /\ t.child[f][n] = x THEN y
                                        ELSE t.child[f][n]
  BY <1>6, <1>10, <1>11, <1>14
<1>16. \A n \in Cells :
          Rotate(t, x, d).parent[n] = IF n = m THEN x
                                      ELSE IF n = x THEN y
                                      ELSE IF n = y THEN q
                                      ELSE t.parent[n]
  BY <1>6, <1>12, <1>14
<1>17. Rotated(t, Rotate(t, x, d), x, d)
  BY <1>15, <1>16 DEF Rotated, m, y, q, o
<1> QED BY <1>6, <1>7, <1>14, <1>17

\* A rotation keeps the nodes and their order.
LEMMA RotateShape ==
    ASSUME NEW t, NEW c, NEW pos, NEW b, Shape(t, c, pos, b),
           NEW x \in InNodes(t), NEW d \in Sides, t.child[d][x] # Null,
           NEW u \in Trees, Rotated(t, u, x, d)
    PROVE  InNodes(u) = InNodes(t) /\ \E b2 : Shape(u, c, pos, b2)
<1> DEFINE y == t.child[d][x]
           o == Opp(d)
           m == t.child[o][y]
           q == t.parent[x]
           e == Side(t, x)
           b2 == [f \in Sides |-> [n \in Cells |->
                     IF f = d /\ n = x THEN pos[y]
                     ELSE IF f = o /\ n = y THEN b[o][x]
                     ELSE b[f][n]]]
<1>1. /\ t \in Trees /\ x \in Nodes /\ x \in Cells /\ x \in Inside(t) /\ x # Null
      /\ o \in Sides /\ o # d /\ Opp(o) = d /\ c \in Nat
  BY SideFacts, NodeFacts DEF Shape, InNodes, Inside
<1>2. /\ y \in InNodes(t) /\ y \in Inside(t) /\ y \in Nodes /\ y \in Cells /\ y # Null
      /\ x # y /\ t.parent[y] = x
      /\ b[d][y] = b[d][x] /\ b[o][y] = pos[x] /\ Before(d, pos[y], pos[x])
  BY <1>1, ChildFacts, NodeFacts DEF Trees, Inside, InNodes
<1>3. q # y
  BY NoCycle
<1>4. m # Null => /\ m \in InNodes(t) /\ m \in Inside(t) /\ m \in Cells /\ m # y /\ m # x
                  /\ t.parent[m] = y
                  /\ b[o][m] = b[o][y] /\ b[d][m] = pos[y]
  <2>1. m # Null => m \in InNodes(t) /\ m # y /\ t.parent[m] = y
                    /\ b[o][m] = b[o][y] /\ b[d][m] = pos[y]
    <3> SUFFICES ASSUME m # Null
                 PROVE  m \in InNodes(t) /\ m # y /\ t.parent[m] = y
                        /\ b[o][m] = b[o][y] /\ b[d][m] = pos[y]
      OBVIOUS
    <3>1. PICK n, a : n = m /\ a = y
      OBVIOUS
    <3>2. n = t.child[o][a] /\ n # Null /\ a \in Inside(t) /\ o \in Sides /\ Opp(o) = d
      BY <1>1, <1>2, <3>1
    <3> HIDE DEF m, y, o
    <3>3. n \in InNodes(t) /\ t.parent[n] = a /\ n # a /\ b[o][n] = b[o][a] /\ b[Opp(o)][n] = pos[a]
      BY <3>2, ChildNamed
    <3> QED BY <3>1, <3>2, <3>3
  <2> QED BY <1>3, <2>1, NodeFacts DEF InNodes, Inside
<1>5. q \in Cells /\ q \in Inside(t) /\ q # x /\ q # Null /\ e \in Sides /\ t.child[e][q] = x
      /\ (\A f \in Sides : t.child[f][q] = x => f = e)
  BY ParentFacts, NodeFacts
<1>6. /\ pos \in [Cells -> Int] /\ b \in [Sides -> [Cells -> Int]]
      /\ \A n \in Inside(t), f \in Sides :
            b[f][n] \in 0 .. c + 2 /\ Before(f, b[f][n], pos[n])
  BY DEF Shape, Bounds, Ranks
<1>7. /\ \A f \in Sides, n \in Cells :
            u.child[f][n] = IF f = d /\ n = x THEN m
                            ELSE IF f = o /\ n = y THEN x
                            ELSE IF n = q /\ f = e THEN y
                            ELSE t.child[f][n]
      /\ \A n \in Cells :
            u.parent[n] = IF n = m THEN x
                          ELSE IF n = x THEN y
                          ELSE IF n = y THEN q
                          ELSE t.parent[n]
  BY <1>5 DEF Rotated
<1>8. /\ b2 \in [Sides -> [Cells -> Int]]
      /\ \A f \in Sides, n \in Cells :
            b2[f][n] = IF f = d /\ n = x THEN pos[y]
                       ELSE IF f = o /\ n = y THEN b[o][x]
                       ELSE b[f][n]
  BY <1>1, <1>2, <1>6
<1> HIDE DEF y, o, m, q, e, b2
<1>9. InNodes(u) = InNodes(t) /\ Inside(u) = Inside(t)
  <2>1. \A n \in Nodes : u.parent[n] # Null <=> t.parent[n] # Null
    BY <1>1, <1>2, <1>3, <1>4, <1>5, <1>7, NodeFacts DEF InNodes, InTree
  <2> QED BY <2>1 DEF InNodes, InTree, Inside
<1>10. Inside(t) \subseteq Cells /\ InNodes(t) \subseteq Inside(t) /\ Header \in Inside(t)
       /\ Header \notin InNodes(t)
  BY NodeFacts DEF Inside, InNodes
<1>11. Linked(u)
  <2>1. u.parent[Header] = Null /\ u.child["rchild"][Header] = Null
    <3>1. t.parent[Header] = Null /\ t.child["rchild"][Header] = Null
      BY DEF Shape, Linked
    <3>2. Header \in Cells /\ Header # x /\ Header # y /\ Header # m
      BY <1>1, <1>2, <1>4, <1>10, NodeFacts
    <3>3. ~(Header = q /\ "rchild" = e)
      BY <1>1, <1>5, <3>1
    <3> QED BY <1>7, <3>1, <3>2, <3>3, SideFacts
  <2>2. ASSUME NEW n \in Inside(t), NEW f \in Sides, u.child[f][n] # Null
        PROVE  u.parent[u.child[f][n]] = n
    <3>1. n \in Cells
      BY <1>10
    <3>2. CASE f = d /\ n = x
      BY <1>4, <1>7, <2>2, <3>1, <3>2
    <3>3. CASE f = o /\ n = y
      <4>1. u.child[f][n] = x
        BY <1>1, <1>7, <3>1, <3>3
      <4>2. m # x
        BY <1>1, <1>4
      <4> QED BY <1>1, <1>7, <3>3, <4>1, <4>2
    <3>4. CASE n = q /\ f = e
      <4>1. u.child[f][n] = y
        BY <1>3, <1>5, <1>7, <3>1, <3>4
      <4>2. m # y
        BY <1>2, <1>4
      <4> QED BY <1>2, <1>7, <3>4, <4>1, <4>2
    <3>5. CASE ~(f = d /\ n = x) /\ ~(f = o /\ n = y) /\ ~(n = q /\ f = e)
      <4>1. u.child[f][n] = t.child[f][n] /\ t.child[f][n] # Null
        BY <1>7, <2>2, <3>1, <3>5
      <4>2. PICK w : w = t.child[f][n]
        OBVIOUS
      <4>3. w \in InNodes(t) /\ w \in Cells /\ t.parent[w] = n
        BY <1>10, <4>1, <4>2, ChildFacts
      <4>4. w # x
        BY <1>5, <3>5, <4>2, <4>3 DEF q
      <4>5. w # y
        <5> SUFFICES ASSUME w = y PROVE FALSE
          OBVIOUS
        <5>1. w = t.child[d][x] /\ w # Null /\ x \in Inside(t)
          BY <1>1, <1>2 DEF y
        <5>2. n = x /\ f = d
          BY <4>2, <5>1, OnePlace
        <5> QED BY <3>5, <5>2
      <4>6. w # m
        BY <1>2, <1>4, <3>5, <4>1, <4>2, <4>3, ChildFacts, SideFacts DEF m, o
      <4> QED BY <1>7, <4>1, <4>2, <4>3, <4>4, <4>5, <4>6
    <3> QED BY <3>2, <3>3, <3>4, <3>5
  <2>3. ASSUME NEW n \in InNodes(t)
        PROVE  u.parent[n] \in Inside(t) /\ \E f \in Sides : u.child[f][u.parent[n]] = n
    <3>1. n \in Cells /\ n # Null
      BY <1>10, NodeFacts
    <3>2. CASE n = m
      BY <1>1, <1>7, <3>1, <3>2
    <3>3. CASE n = x /\ n # m
      BY <1>1, <1>2, <1>7, <3>1, <3>3
    <3>4. CASE n = y /\ n # m /\ n # x
      BY <1>3, <1>5, <1>7, <3>1, <3>4
    <3>5. CASE n # m /\ n # x /\ n # y
      <4>1. u.parent[n] = t.parent[n] /\ t.parent[n] \in Inside(t) /\ t.parent[n] \in Cells
        BY <1>7, <3>1, <3>5, ParentFacts
      <4>2. PICK f \in Sides : t.child[f][t.parent[n]] = n
        BY ParentFacts
      <4>3. u.child[f][t.parent[n]] = n
        BY <1>5, <1>7, <3>1, <3>5, <4>1, <4>2 DEF y, m
      <4> QED BY <4>1, <4>3
    <3> QED BY <3>2, <3>3, <3>4, <3>5
  <2>4. ASSUME NEW n \in Nodes \ InNodes(t), NEW f \in Sides PROVE u.child[f][n] = Null
    <3>1. n # x /\ n # y /\ n # q /\ t.child[f][n] = Null /\ n \in Cells
      BY <1>2, <1>5, NodeFacts DEF Shape, Linked, Inside
    <3> QED BY <1>7, <3>1
  <2> QED BY <1>9, <2>1, <2>2, <2>3, <2>4 DEF Linked
<1>12. Ranks(u, c, pos)
  BY <1>9 DEF Shape, Ranks
<1>13. Bounds(u, c, pos, b2)
  <2>1. pos[x] \in Int /\ pos[y] \in Int /\ b[o][x] \in 0 .. c + 2
        /\ pos[y] \in 1 .. c
    BY <1>1, <1>2, <1>6 DEF Shape, Ranks
  <2>2. b2["lchild"][Header] = 0 /\ b2["rchild"][Header] = c + 2
    <3>1. Header # x /\ Header # y /\ Header \in Cells
      BY <1>1, <1>2, NodeFacts
    <3> QED BY <1>8, <3>1, SideFacts DEF Shape, Bounds
  <2>3. ASSUME NEW n \in Inside(t), NEW f \in Sides
        PROVE  b2[f][n] \in 0 .. c + 2 /\ Before(f, b2[f][n], pos[n])
    <3>1. n \in Cells
      BY <1>10
    <3>2. CASE f = d /\ n = x
      BY <1>1, <1>2, <1>8, <2>1, <3>1, <3>2
    <3>3. CASE f = o /\ n = y
      <4>1. b2[f][n] = b[o][x] /\ Before(o, b[o][x], pos[x])
        BY <1>1, <1>6, <1>8, <3>1, <3>3
      <4>2. Before(o, pos[x], pos[y])
        BY <1>1, <1>2 DEF Before, o, Opp, Sides
      <4> QED BY <2>1, <3>3, <4>1, <4>2 DEF Before
    <3>4. CASE ~(f = d /\ n = x) /\ ~(f = o /\ n = y)
      BY <1>6, <1>8, <3>1, <3>4
    <3> QED BY <3>2, <3>3, <3>4
  <2>4. ASSUME NEW n \in Inside(t), NEW f \in Sides
        PROVE  IF u.child[f][n] = Null
               THEN Adjoins(f, b2[f][n], pos[n])
               ELSE b2[f][u.child[f][n]] = b2[f][n] /\ b2[Opp(f)][u.child[f][n]] = pos[n]
    <3>1. n \in Cells
      BY <1>10
    <3>2. CASE f = d /\ n = x
      <4>1. u.child[f][n] = m /\ b2[f][n] = pos[y]
        BY <1>7, <1>8, <3>1, <3>2
      <4>2. CASE m = Null
        <5>1. Adjoins(o, b[o][y], pos[y])
          BY <1>1, <1>2, <4>2 DEF Shape, Bounds, m
        <5>2. Adjoins(d, pos[y], pos[x])
          BY <1>1, <1>2, <2>1, <5>1 DEF Adjoins, o, Opp, Sides
        <5> QED BY <3>2, <4>1, <4>2, <5>2
      <4>3. CASE m # Null
        BY <1>1, <1>2, <1>4, <1>8, <3>2, <4>1, <4>3 DEF o
      <4> QED BY <4>2, <4>3
    <3>3. CASE f = o /\ n = y
      <4>1. u.child[f][n] = x /\ b2[f][n] = b[o][x]
        BY <1>1, <1>7, <1>8, <3>1, <3>3
      <4> QED BY <1>1, <1>2, <1>8, <3>3, <4>1
    <3>4. CASE n = q /\ f = e
      <4>1. u.child[f][n] = y /\ b2[f][n] = b[f][n]
        BY <1>3, <1>5, <1>7, <1>8, <3>1, <3>4
      <4>2. \A g \in Sides : b2[g][y] = b[g][x]
        BY <1>1, <1>2, <1>8, SideFacts DEF o
      <4>3. b[f][x] = b[f][n] /\ b[Opp(f)][x] = pos[n]
        BY <1>1, <1>5, <3>4 DEF Shape, Bounds
      <4> QED BY <1>2, <4>1, <4>2, <4>3, SideFacts
    <3>5. CASE ~(f = d /\ n = x) /\ ~(f = o /\ n = y) /\ ~(n = q /\ f = e)
      <4>1. u.child[f][n] = t.child[f][n] /\ b2[f][n] = b[f][n]
        BY <1>7, <1>8, <3>1, <3>5
      <4>2. CASE t.child[f][n] = Null
        BY <4>1, <4>2 DEF Shape, Bounds
      <4>3. CASE t.child[f][n] # Null
        <5>1. PICK w : w = t.child[f][n]
          OBVIOUS
        <5>2. w \in InNodes(t) /\ w \in Cells /\ t.parent[w] = n
              /\ b[f][w] = b[f][n] /\ b[Opp(f)][w] = pos[n]
          BY <1>10, <4>3, <5>1, ChildFacts
        <5>3. w # x
          BY <1>5, <3>5, <5>1, <5>2 DEF q
        <5>4. w # y
          <6> SUFFICES ASSUME w = y PROVE FALSE
            OBVIOUS
          <6>1. w = t.child[d][x] /\ w # Null /\ x \in Inside(t)
            BY <1>1, <1>2 DEF y
          <6>2. n = x /\ f = d
            BY <5>1, <6>1, OnePlace
          <6> QED BY <3>5, <6>2
        <5>5. b2[f][w] = b[f][w] /\ b2[Opp(f)][w] = b[Opp(f)][w]
          BY <1>8, <5>2, <5>3, <5>4, SideFacts
        <5> QED BY <4>1, <4>3, <5>1, <5>2, <5>5
      <4> QED BY <4>2, <4>3
    <3> QED BY <3>2, <3>3, <3>4, <3>5
  <2> QED BY <1>8, <1>9, <2>2, <2>3, <2>4 DEF Bounds
<1>14. Gaps(u, pos)
  <2> SUFFICES ASSUME NEW k \in Inside(t), NEW n \in Inside(t), pos[n] = pos[k] + 1
               PROVE  u.child["rchild"][k] # Null \/ u.child["lchild"][n] # Null
    BY <1>9 DEF Gaps
  <2>1. k \in Cells /\ n \in Cells
    BY <1>10
  <2>2. t.child["rchild"][k] # Null \/ t.child["lchild"][n] # Null
    BY DEF Shape, Gaps
  <2>3. \A w \in Cells, f \in Sides :
           t.child[f][w] # Null => u.child[f][w] # Null \/ (f = d /\ w = x /\ m = Null)
    BY <1>1, <1>2, <1>7
  <2>4. u.child[o][y] # Null
    BY <1>1, <1>2, <1>7
  <2>5. ASSUME m = Null
        PROVE  /\ d = "rchild" => pos[y] = pos[x] + 1 /\ o = "lchild"
               /\ d = "lchild" => pos[x] = pos[y] + 1 /\ o = "rchild"
    <3>1. Adjoins(o, b[o][y], pos[y])
      BY <1>1, <1>2, <2>5 DEF Shape, Bounds, m
    <3> QED BY <1>1, <1>2, <1>6, <3>1 DEF Adjoins, o, Opp, Sides
  <2>6. \A v, w \in Inside(t) : pos[v] = pos[w] => v = w
    BY DEF Shape, Ranks
  <2>7. pos[k] \in Int /\ pos[n] \in Int /\ pos[x] \in Int /\ pos[y] \in Int
    BY <1>1, <1>2, <1>6, <2>1
  <2>8. CASE t.child["rchild"][k] # Null /\ u.child["rchild"][k] = Null
    <3>1. d = "rchild" /\ k = x /\ m = Null
      BY <2>1, <2>3, <2>8, SideFacts
    <3>2. n = y /\ o = "lchild"
      BY <1>2, <2>5, <2>6, <2>7, <3>1
    <3> QED BY <2>4, <3>2
  <2>9. CASE t.child["lchild"][n] # Null /\ u.child["lchild"][n] = Null
    <3>1. d = "lchild" /\ n = x /\ m = Null
      BY <2>1, <2>3, <2>9, SideFacts
    <3>2. k = y /\ o = "rchild"
      BY <1>2, <2>5, <2>6, <2>7, <3>1
    <3> QED BY <2>4, <3>2
  <2> QED BY <2>2, <2>8, <2>9
<1>15. Sorted(u, pos)
  BY <1>9 DEF Shape, Sorted
<1> QED BY <1>1, <1>9, <1>11, <1>12, <1>13, <1>14, <1>15 DEF Shape

\* The shape is one of links, not of colours.
LEMMA PaintShape ==
    ASSUME NEW t, NEW c, NEW pos, NEW b, Shape(t, c, pos, b),
           NEW u \in Trees, u.child = t.child, u.parent = t.parent
    PROVE  Shape(u, c, pos, b) /\ InNodes(u) = InNodes(t)
<1>1. InNodes(u) = InNodes(t) /\ Inside(u) = Inside(t)
  BY DEF InNodes, InTree, Inside
<1>2. Linked(u)
  BY <1>1 DEF Shape, Linked
<1>3. Ranks(u, c, pos)
  BY <1>1 DEF Shape, Ranks
<1>4. Bounds(u, c, pos, b)
  BY <1>1 DEF Shape, Bounds
<1>5. Gaps(u, pos)
  BY <1>1 DEF Shape, Gaps
<1> QED BY <1>1, <1>2, <1>3, <1>4, <1>5 DEF Shape, Sorted

\* u has the nodes of t in their order, whatever its links and colours are.
Kept(t, u, c, pos) ==
    /\ \E b : Shape(u, c, pos, b)
    /\ InNodes(u) = InNodes(t)
    /\ u.most_left = t.most_left /\ u.count = t.count

LEMMA KeptTwice ==
    ASSUME NEW t, NEW u, NEW v, NEW c, NEW pos, Kept(t, u, c, pos), Kept(u, v, c, pos)
    PROVE  Kept(t, v, c, pos)
BY DEF Kept

\* A node is painted.
LEMMA Painted ==
    ASSUME NEW t \in Trees, NEW n, NEW k \in {"red", "black"},
           NEW u, u = [t EXCEPT !.color[n] = k]
    PROVE  /\ u \in Trees /\ u.child = t.child /\ u.parent = t.parent
           /\ u.most_left = t.most_left /\ u.count = t.count /\ u.bad = t.bad
           /\ \A m \in Cells : u.color[m] = IF m = n THEN k ELSE t.color[m]
BY DEF Trees

LEMMA Blackened ==
    ASSUME NEW t \in Trees, NEW n \in Links
    PROVE  LET u == Blacken(t, n)
           IN  /\ u \in Trees /\ u.child = t.child /\ u.parent = t.parent
               /\ u.most_left = t.most_left /\ u.count = t.count /\ u.bad = t.bad
               /\ \A m \in Cells : u.color[m] = IF m = n THEN "black" ELSE t.color[m]
<1>1. CASE n = Null
  BY <1>1, NodeFacts DEF Blacken
<1>2. CASE n # Null
  <2>1. Blacken(t, n) = [t EXCEPT !.color[n] = "black"]
    BY <1>2 DEF Blacken
  <2>2. PICK u : u = [t EXCEPT !.color[n] = "black"]
    OBVIOUS
  <2>3. /\ u \in Trees /\ u.child = t.child /\ u.parent = t.parent
        /\ u.most_left = t.most_left /\ u.count = t.count /\ u.bad = t.bad
        /\ \A m \in Cells : u.color[m] = IF m = n THEN "black" ELSE t.color[m]
    BY <2>2, Painted
  <2> QED BY <2>1, <2>2, <2>3
<1> QED BY <1>1, <1>2

LEMMA PaintKept ==
    ASSUME NEW t, NEW c, NEW pos, NEW b, Shape(t, c, pos, b),
           NEW u \in Trees, u.child = t.child, u.parent = t.parent,
           u.most_left = t.most_left, u.count = t.count
    PROVE  Kept(t, u, c, pos)
BY PaintShape DEF Kept

LEMMA RotateKept ==
    ASSUME NEW t, NEW c, NEW pos, NEW b, Shape(t, c, pos, b),
           NEW x \in InNodes(t), NEW d \in Sides, t.child[d][x] # Null
    PROVE  LET u == Rotate(t, x, d)
           IN  /\ Kept(t, u, c, pos) /\ Rotated(t, u, x, d)
               /\ u \in Trees /\ u.color = t.color /\ u.bad = t.bad
<1>1. PICK u : u = Rotate(t, x, d)
  OBVIOUS
<1>2. /\ u \in Trees /\ Rotated(t, u, x, d)
      /\ u.color = t.color /\ u.most_left = t.most_left
      /\ u.count = t.count /\ u.bad = t.bad
  BY <1>1, RotateFields
<1>3. InNodes(u) = InNodes(t) /\ \E b2 : Shape(u, c, pos, b2)
  BY <1>2, RotateShape
<1> QED BY <1>1, <1>2, <1>3 DEF Kept
---------------------------------------------------------------------------
(* rebalance.                                                              *)

\* The root is black, unless it is the node the loop stands on.
RootBlack(t, x) == x = Root(t) \/ BlackOrNull(t, Root(t))

\* While the loop climbs, x has a grandparent.
LEMMA ClimbFacts ==
    ASSUME NEW t, NEW c, NEW pos, NEW b, Shape(t, c, pos, b),
           NEW x \in InNodes(t), RootBlack(t, x), Climbs(t, x)
    PROVE  LET p == t.parent[x]
               g == t.parent[p]
               d == Side(t, p)
           IN  /\ p \in InNodes(t) /\ g \in InNodes(t) /\ p # Root(t) /\ p # x /\ g # p
               /\ x # Root(t) /\ Red(t, p) /\ g # x
               /\ d \in Sides /\ t.child[d][g] = p
               /\ Side(t, x) \in Sides /\ t.child[Side(t, x)][p] = x
<1> DEFINE p == t.parent[x]
           g == t.parent[p]
<1>1. x # Root(t) /\ Red(t, p)
  BY DEF Climbs
<1>2. p \in Inside(t) /\ p # Header /\ p # x /\ Side(t, x) \in Sides /\ t.child[Side(t, x)][p] = x
  BY <1>1, ParentFacts
<1>3. p \in InNodes(t)
  BY <1>2 DEF Inside
<1>4. p # Root(t)
  BY <1>1, <1>3, NodeFacts DEF RootBlack, BlackOrNull, InNodes
<1>5. g \in Inside(t) /\ g # Header /\ g # p /\ Side(t, p) \in Sides /\ t.child[Side(t, p)][g] = p
  BY <1>3, <1>4, ParentFacts
<1>6. g \in InNodes(t)
  BY <1>5 DEF Inside
<1>7. g # x
  BY <1>2, <1>3, NoCycle, NodeFacts DEF InNodes
<1> QED BY <1>1, <1>2, <1>3, <1>4, <1>5, <1>6, <1>7

\* A rotation away from the root keeps it.
LEMMA RotatedRoot ==
    ASSUME NEW t, NEW c, NEW pos, NEW b, Shape(t, c, pos, b),
           NEW x \in InNodes(t), NEW d \in Sides, t.child[d][x] # Null,
           NEW u, Rotated(t, u, x, d)
    PROVE  Root(u) = IF x = Root(t) THEN t.child[d][x] ELSE Root(t)
<1>1. x # Header /\ Header \in Cells /\ "lchild" \in Sides /\ x \in Inside(t)
  BY NodeFacts, SideFacts DEF InNodes, Inside
<1>2. t.child[d][x] # Header
  BY <1>1, ChildFacts, NodeFacts DEF InNodes
<1>3. Root(u) = IF Header = t.parent[x] /\ Root(t) = x THEN t.child[d][x] ELSE Root(t)
  BY <1>1, <1>2 DEF Rotated, Root
<1> QED BY <1>3, ParentFacts

\* x and its parent come to lie on the same side, below the same grandparent.
StraightenedAs(t, r, c, pos, x, p, g, d) ==
    /\ Kept(t, r.t, c, pos) /\ r.t \in Trees
    /\ r.t.color = t.color /\ r.t.bad = t.bad /\ Root(r.t) = Root(t)
    /\ r.x \in InNodes(t)
    /\ IF x = t.child[Opp(d)][p]
       THEN /\ Rotated(t, r.t, p, Opp(d)) /\ r.x = p /\ r.t.parent[p] = x
            /\ r.t.child[d][x] = p /\ r.t.parent[x] = g /\ r.t.child[d][g] = x
       ELSE r.t = t /\ r.x = x /\ t.child[d][p] = x

LEMMA StraightenedFacts ==
    ASSUME NEW t, NEW c, NEW pos, NEW b, Shape(t, c, pos, b),
           NEW x \in InNodes(t), RootBlack(t, x), Climbs(t, x),
           NEW p, p = t.parent[x], NEW g, g = t.parent[p], NEW d, d = Side(t, p),
           NEW r, r = Straightened(t, x)
    PROVE  StraightenedAs(t, r, c, pos, x, p, g, d)
<1>1. /\ p \in InNodes(t) /\ g \in InNodes(t) /\ p # Root(t) /\ p # x /\ g # p
      /\ x # Root(t) /\ Red(t, p) /\ g # x
      /\ d \in Sides /\ t.child[d][g] = p
      /\ Side(t, x) \in Sides /\ t.child[Side(t, x)][p] = x
  BY ClimbFacts
<1>2. p \in Cells /\ g \in Cells /\ x \in Cells /\ x # Null /\ t \in Trees
  BY <1>1, NodeFacts DEF InNodes, Shape
<1>3. CASE x = t.child[Opp(d)][p]
  <2>1. PICK u : u = Rotate(t, p, Opp(d))
    OBVIOUS
  <2>2. Straightened(t, x) = [t |-> u, x |-> p]
    BY <1>3, <2>1 DEF Straightened
  <2>3. Opp(d) \in Sides /\ t.child[Opp(d)][p] # Null /\ Opp(Opp(d)) = d /\ Opp(d) # d
    BY <1>1, <1>2, <1>3, SideFacts
  <2>4. Kept(t, u, c, pos) /\ Rotated(t, u, p, Opp(d)) /\ u \in Trees /\ u.color = t.color
        /\ u.bad = t.bad
    BY <1>1, <2>1, <2>3, RotateKept
  <2>5. Root(u) = Root(t)
    BY <1>1, <2>3, <2>4, RotatedRoot
  <2>6. t.child[d][x] # x /\ t.child[d][x] # p
    <3>1. CASE t.child[d][x] = Null
      BY <1>1, <1>2, <3>1, NodeFacts DEF InNodes
    <3>2. CASE t.child[d][x] # Null
      <4>1. x \in Inside(t)
        BY DEF Inside
      <4>2. t.child[d][x] # x
        <5>1. PICK m : m = t.child[d][x]
          OBVIOUS
        <5>2. m # x
          BY <1>1, <3>2, <4>1, <5>1, ChildNamed
        <5> QED BY <5>1, <5>2
      <4> QED BY <1>1, <3>2, <4>2, NoCycle
    <3> QED BY <3>1, <3>2
  <2>7. u.parent[p] = x /\ u.child[d][x] = p /\ u.parent[x] = g /\ u.child[d][g] = x
    <3>1. PICK k : k = t.child[d][x]
      OBVIOUS
    <3>2. PICK o : o = Opp(d)
      OBVIOUS
    <3>3. Rotated(t, u, p, o) /\ t.child[o][p] = x /\ t.child[Opp(o)][x] = k /\ t.parent[p] = g
      BY <1>3, <2>3, <2>4, <3>1, <3>2
    <3>4. /\ \A e \in Sides, n \in Cells :
                u.child[e][n] = IF e = o /\ n = p THEN k
                                ELSE IF e = Opp(o) /\ n = x THEN p
                                ELSE IF n = g /\ t.child[e][n] = p THEN x
                                ELSE t.child[e][n]
          /\ \A n \in Cells : u.parent[n] = IF n = k THEN p
                                            ELSE IF n = p THEN x
                                            ELSE IF n = x THEN g
                                            ELSE t.parent[n]
      BY ONLY <3>3 DEF Rotated
    <3>5. Opp(o) = d /\ o # d /\ d \in Sides /\ k # x /\ k # p /\ p # x /\ g # p /\ g # x
          /\ t.child[d][g] = p /\ p \in Cells /\ g \in Cells /\ x \in Cells
      BY <1>1, <1>2, <2>3, <2>6, <3>1, <3>2
    <3> QED BY ONLY <3>4, <3>5
  <2>8. PICK v, z : v = r.t /\ z = r.x
    OBVIOUS
  <2>9. v = u /\ z = p
    BY <2>2, <2>8
  <2> QED BY <1>1, <1>3, <2>4, <2>5, <2>7, <2>8, <2>9 DEF StraightenedAs
<1>4. CASE x # t.child[Opp(d)][p]
  <2>1. Straightened(t, x) = [t |-> t, x |-> x]
    BY <1>4 DEF Straightened
  <2>2. Kept(t, t, c, pos)
    BY DEF Kept
  <2>3. t.child[d][p] = x
    BY <1>1, <1>4, SideFacts
  <2> QED BY <1>2, <1>4, <2>1, <2>2, <2>3 DEF StraightenedAs
<1> QED BY <1>3, <1>4

\* Two nodes in line below g are turned, and change colours with it.
TurnedColors(t, u, p, g) ==
    \A n \in Cells : u.color[n] = IF n = g THEN "red" ELSE IF n = p THEN "black" ELSE t.color[n]
TurnedAs(t, r, c, pos, x, p, g, d) ==
    /\ Kept(t, r.t, c, pos) /\ r.t \in Trees /\ r.x = x /\ r.t.bad = t.bad
    /\ r = [t |-> r.t, x |-> r.x]
    /\ Rotated(t, r.t, g, d)
    /\ TurnedColors(t, r.t, p, g)
    /\ Root(r.t) = IF g = Root(t) THEN p ELSE Root(t)

\* A rotation is told by the links alone.
LEMMA RotatedSame ==
    ASSUME NEW s, NEW t, t.child = s.child, t.parent = s.parent,
           NEW u, NEW x, NEW d, Rotated(t, u, x, d)
    PROVE  Rotated(s, u, x, d)
BY DEF Rotated

LEMMA TurnedFacts ==
    ASSUME NEW t, NEW c, NEW pos, NEW b, Shape(t, c, pos, b),
           NEW x \in InNodes(t), NEW p \in InNodes(t), NEW g \in InNodes(t), NEW d \in Sides,
           p = t.parent[x], g = t.parent[p], t.child[d][g] = p,
           NEW r, r = Turned(t, x, d)
    PROVE  TurnedAs(t, r, c, pos, x, p, g, d)
<1>1. PICK u : u = [t EXCEPT !.color[p] = "black"]
  OBVIOUS
<1>2. PICK v : v = [u EXCEPT !.color[g] = "red"]
  OBVIOUS
<1>3. t \in Trees
  BY DEF Shape
<1>4. /\ u \in Trees /\ u.child = t.child /\ u.parent = t.parent
      /\ u.most_left = t.most_left /\ u.count = t.count /\ u.bad = t.bad
      /\ \A n \in Cells : u.color[n] = IF n = p THEN "black" ELSE t.color[n]
  BY <1>1, <1>3, Painted
<1>5. /\ v \in Trees /\ v.child = t.child /\ v.parent = t.parent
      /\ v.most_left = t.most_left /\ v.count = t.count /\ v.bad = t.bad
      /\ \A n \in Cells : v.color[n] = IF n = g THEN "red" ELSE u.color[n]
  <2>1. /\ v \in Trees /\ v.child = u.child /\ v.parent = u.parent
        /\ v.most_left = u.most_left /\ v.count = u.count /\ v.bad = u.bad
        /\ \A n \in Cells : v.color[n] = IF n = g THEN "red" ELSE u.color[n]
    BY <1>2, <1>4, Painted
  <2> QED BY <1>4, <2>1
<1>6. r = [t |-> Rotate(v, g, d), x |-> x]
  BY <1>1, <1>2 DEF Turned
<1>7. Shape(v, c, pos, b) /\ InNodes(v) = InNodes(t) /\ Kept(t, v, c, pos)
  BY <1>5, PaintShape, PaintKept
<1>8. v.child[d][g] # Null
  BY <1>5, NodeFacts DEF InNodes
<1>9. PICK w : w = Rotate(v, g, d)
  OBVIOUS
<1>10. Kept(v, w, c, pos) /\ Rotated(v, w, g, d) /\ w \in Trees /\ w.color = v.color /\ w.bad = v.bad
  BY <1>7, <1>8, <1>9, RotateKept
<1>11. Kept(t, w, c, pos)
  BY <1>7, <1>10, KeptTwice
<1>12. Rotated(t, w, g, d)
  BY <1>5, <1>10, RotatedSame
<1>13. Root(w) = IF g = Root(t) THEN p ELSE Root(t)
  BY <1>5, <1>8, <1>12, RotatedRoot
<1>14. TurnedColors(t, w, p, g)
  BY <1>4, <1>5, <1>10 DEF TurnedColors
<1>15. r.t = w /\ r.x = x /\ w.bad = t.bad /\ r = [t |-> r.t, x |-> r.x]
  BY <1>5, <1>6, <1>9, <1>10
<1> QED BY <1>10, <1>11, <1>12, <1>13, <1>14, <1>15 DEF TurnedAs

\* The first case of a turn of the loop: a red uncle.
Raised(u, v, p, y, g) ==
    /\ v.child = u.child /\ v.parent = u.parent
    /\ v.most_left = u.most_left /\ v.count = u.count /\ v.bad = u.bad
    /\ \A n \in Cells : v.color[n] = IF n = g THEN "red"
                                     ELSE IF n = p \/ n = y THEN "black"
                                     ELSE u.color[n]

LEMMA RaisedFacts ==
    ASSUME NEW u \in Trees, NEW x \in Nodes, Climbs(u, x),
           NEW p, p = u.parent[x], NEW g, g = u.parent[p],
           NEW y, y = u.child[Opp(Side(u, p))][g], ~BlackOrNull(u, y)
    PROVE  \E v \in Trees : /\ RebalanceStep[[t |-> u, x |-> x]] = [t |-> v, x |-> g]
                            /\ Raised(u, v, p, y, g)
<1>1. PICK v1 : v1 = [u EXCEPT !.color[p] = "black"]
  OBVIOUS
<1>2. PICK v2 : v2 = [v1 EXCEPT !.color[y] = "black"]
  OBVIOUS
<1>3. PICK v : v = [v2 EXCEPT !.color[g] = "red"]
  OBVIOUS
<1>4. RebalanceStep[[t |-> u, x |-> x]] = [t |-> v, x |-> g]
  <2>1. [t |-> u, x |-> x] \in [t : Trees, x : Nodes]
    OBVIOUS
  <2> QED BY <1>1, <1>2, <1>3, <2>1 DEF RebalanceStep
<1>5. /\ v1 \in Trees /\ v1.child = u.child /\ v1.parent = u.parent
      /\ v1.most_left = u.most_left /\ v1.count = u.count /\ v1.bad = u.bad
      /\ \A n \in Cells : v1.color[n] = IF n = p THEN "black" ELSE u.color[n]
  BY <1>1, Painted
<1>6. /\ v2 \in Trees /\ v2.child = v1.child /\ v2.parent = v1.parent
      /\ v2.most_left = v1.most_left /\ v2.count = v1.count /\ v2.bad = v1.bad
      /\ \A n \in Cells : v2.color[n] = IF n = y THEN "black" ELSE v1.color[n]
  <2>1. v1 \in Trees
    BY <1>5
  <2> QED BY ONLY <1>2, <2>1, Painted
<1>7. /\ v \in Trees /\ v.child = v2.child /\ v.parent = v2.parent
      /\ v.most_left = v2.most_left /\ v.count = v2.count /\ v.bad = v2.bad
      /\ \A n \in Cells : v.color[n] = IF n = g THEN "red" ELSE v2.color[n]
  <2>1. v2 \in Trees
    BY <1>6
  <2> QED BY ONLY <1>3, <2>1, Painted
<1> HIDE <1>1, <1>2, <1>3
<1>8. \A n \in Cells : v.color[n] = IF n = g THEN "red"
                                    ELSE IF n = p \/ n = y THEN "black"
                                    ELSE u.color[n]
  BY ONLY <1>5, <1>6, <1>7
<1>9. Raised(u, v, p, y, g)
  BY <1>5, <1>6, <1>7, <1>8 DEF Raised
<1> QED BY <1>4, <1>7, <1>9

\* The other case: r is what the first rotation leaves, w what the second does.
TurnsAs(u, r, w, top, c, pos, x, p, g, d) ==
    /\ StraightenedAs(u, r, c, pos, x, p, g, d)
    /\ top = (IF x = u.child[Opp(d)][p] THEN x ELSE p) /\ top \in InNodes(u)
    /\ r.t.child[d][top] = r.x /\ r.t.parent[top] = g /\ r.t.child[d][g] = top
    /\ TurnedAs(r.t, w, c, pos, r.x, top, g, d)

LEMMA TurnFacts ==
    ASSUME NEW u, NEW c, NEW pos, NEW b, Shape(u, c, pos, b),
           NEW x \in InNodes(u), RootBlack(u, x), Climbs(u, x),
           NEW p, p = u.parent[x], NEW g, g = u.parent[p],
           NEW d, d = Side(u, p), BlackOrNull(u, u.child[Opp(d)][g]),
           NEW r, r = Straightened(u, x), NEW w, w = Turned(r.t, r.x, d),
           NEW top, top = r.t.parent[r.x]
    PROVE  RebalanceStep[[t |-> u, x |-> x]] = w /\ TurnsAs(u, r, w, top, c, pos, x, p, g, d)
<1>1. /\ p \in InNodes(u) /\ g \in InNodes(u) /\ p # Root(u) /\ p # x /\ g # p
      /\ x # Root(u) /\ Red(u, p) /\ g # x
      /\ d \in Sides /\ u.child[d][g] = p
  BY ClimbFacts
<1>2. x \in Nodes /\ u \in Trees /\ [t |-> u, x |-> x] \in [t : Trees, x : Nodes]
  BY DEF Shape, InNodes
<1>3. RebalanceStep[[t |-> u, x |-> x]] = w
  BY <1>2 DEF RebalanceStep
<1>4. StraightenedAs(u, r, c, pos, x, p, g, d)
  BY StraightenedFacts
<1>5. /\ top \in InNodes(u) /\ r.t.parent[top] = g /\ r.t.child[d][g] = top
      /\ r.t.child[d][top] = r.x
      /\ top = IF x = u.child[Opp(d)][p] THEN x ELSE p
  BY <1>1, <1>4 DEF StraightenedAs
<1>6. InNodes(r.t) = InNodes(u) /\ \E b2 : Shape(r.t, c, pos, b2)
  BY <1>4 DEF Kept, StraightenedAs
<1>7. PICK b2 : Shape(r.t, c, pos, b2)
  BY <1>6
<1>8. r.x \in InNodes(r.t) /\ top \in InNodes(r.t) /\ g \in InNodes(r.t) /\ d \in Sides
  BY <1>1, <1>4, <1>5, <1>6 DEF StraightenedAs
<1>9. TurnedAs(r.t, w, c, pos, r.x, top, g, d)
  BY <1>5, <1>7, <1>8, TurnedFacts
<1> QED BY <1>3, <1>4, <1>5, <1>9 DEF TurnsAs

\* What a turn of the loop keeps.
RebalanceInv(t, c, pos) ==
    {s \in [t : Trees, x : Nodes] :
        /\ Kept(t, s.t, c, pos) /\ s.t.bad = t.bad
        /\ s.x \in InNodes(t) /\ RootBlack(s.t, s.x)}

LEMMA RebalanceStepKept ==
    ASSUME NEW t \in Trees, NEW c, NEW pos, NEW s \in RebalanceInv(t, c, pos)
    PROVE  RebalanceStep[s] \in RebalanceInv(t, c, pos)
<1>1. PICK u, x : u = s.t /\ x = s.x
  OBVIOUS
<1>2. PICK p : p = u.parent[x]
  OBVIOUS
<1>3. PICK g : g = u.parent[p]
  OBVIOUS
<1>4. PICK d : d = Side(u, p)
  OBVIOUS
<1>5. PICK y : y = u.child[Opp(d)][g]
  OBVIOUS
<1>6. /\ s \in [t : Trees, x : Nodes] /\ u \in Trees /\ x \in Nodes
      /\ Kept(t, u, c, pos) /\ u.bad = t.bad /\ x \in InNodes(t) /\ RootBlack(u, x)
      /\ InNodes(u) = InNodes(t) /\ s = [t |-> u, x |-> x]
  BY <1>1 DEF RebalanceInv, Kept
<1>7. PICK b : Shape(u, c, pos, b)
  BY <1>6 DEF Kept
<1>8. Root(u) \in Links /\ (Root(u) # Null => Root(u) \in Cells)
  <2>1. Root(u) \in Links
    BY <1>6, NodeFacts, SideFacts DEF Root, Trees
  <2> QED BY <2>1, NodeFacts
<1>9. CASE ~Climbs(u, x)
  BY <1>1, <1>6, <1>9 DEF RebalanceStep
<1>10. CASE Climbs(u, x)
  <2>1. /\ p \in InNodes(t) /\ g \in InNodes(t) /\ p # Root(u) /\ p # x /\ g # p
        /\ x # Root(u) /\ Red(u, p) /\ g # x /\ g \in Nodes
    BY <1>2, <1>3, <1>6, <1>7, <1>10, ClimbFacts DEF InNodes
  <2>2. CASE ~BlackOrNull(u, y)
    <3>1. PICK v \in Trees : RebalanceStep[s] = [t |-> v, x |-> g] /\ Raised(u, v, p, y, g)
      <4>1. y = u.child[Opp(Side(u, p))][g] /\ u \in Trees /\ x \in Nodes
        BY <1>4, <1>5, <1>6
      <4>2. \E v \in Trees : /\ RebalanceStep[[t |-> u, x |-> x]] = [t |-> v, x |-> g]
                             /\ Raised(u, v, p, y, g)
        BY ONLY <1>2, <1>3, <1>10, <2>2, <4>1, RaisedFacts
      <4> QED BY <1>6, <4>2
    <3>2. Kept(u, v, c, pos)
      BY <1>7, <3>1, PaintKept DEF Raised
    <3>3. Kept(t, v, c, pos)
      BY <1>6, <3>2, KeptTwice
    <3>4. RootBlack(v, g)
      <4>1. Root(v) = Root(u)
        BY <3>1 DEF Root, Raised
      <4>2. g # Root(u) /\ Root(u) # Null => ~Red(v, Root(u))
        BY <1>6, <1>8, <2>1, <3>1 DEF RootBlack, BlackOrNull, Red, Raised
      <4> QED BY <4>1, <4>2 DEF RootBlack, BlackOrNull
    <3>5. v.bad = t.bad
      BY <1>6, <3>1 DEF Raised
    <3> QED BY <2>1, <3>1, <3>3, <3>4, <3>5 DEF RebalanceInv
  <2>3. CASE BlackOrNull(u, y)
    <3>1. PICK r : r = Straightened(u, x)
      OBVIOUS
    <3>2. PICK w : w = Turned(r.t, r.x, d)
      OBVIOUS
    <3>3. PICK top : top = r.t.parent[r.x]
      OBVIOUS
    <3>4. /\ RebalanceStep[s] = w /\ w = [t |-> w.t, x |-> w.x]
          /\ Kept(u, r.t, c, pos) /\ r.t.color = u.color /\ r.t.bad = u.bad
          /\ Root(r.t) = Root(u) /\ r.x \in InNodes(u) /\ top \in InNodes(u)
          /\ r.t.parent[top] = g
          /\ Kept(r.t, w.t, c, pos) /\ w.t \in Trees /\ w.x = r.x /\ w.t.bad = r.t.bad
          /\ \A n \in Cells : w.t.color[n] = IF n = g THEN "red"
                                             ELSE IF n = top THEN "black"
                                             ELSE r.t.color[n]
          /\ Root(w.t) = IF g = Root(r.t) THEN top ELSE Root(r.t)
      <4>1. BlackOrNull(u, u.child[Opp(d)][g]) /\ x \in InNodes(u)
        BY <1>5, <1>6, <2>3
      <4>2. RebalanceStep[[t |-> u, x |-> x]] = w /\ TurnsAs(u, r, w, top, c, pos, x, p, g, d)
        BY <1>2, <1>3, <1>4, <1>6, <1>7, <1>10, <3>1, <3>2, <3>3, <4>1, TurnFacts
      <4>3. StraightenedAs(u, r, c, pos, x, p, g, d) /\ TurnedAs(r.t, w, c, pos, r.x, top, g, d)
        BY <4>2 DEF TurnsAs
      <4> QED BY <1>6, <4>2, <4>3 DEF TurnsAs, StraightenedAs, TurnedAs, TurnedColors
    <3> HIDE <1>1, <1>2, <1>3, <1>4, <1>5, <3>1, <3>2, <3>3
    <3>5. InNodes(r.t) = InNodes(t) /\ \E b2 : Shape(r.t, c, pos, b2)
      BY <1>6, <3>4 DEF Kept
    <3>6. Kept(t, w.t, c, pos)
      BY <1>6, <3>4, KeptTwice
    <3>7. RootBlack(w.t, w.x)
      <4>1. g # Root(u) /\ Root(u) # Null => ~Red(w.t, Root(u))
        BY <1>6, <1>8, <2>1, <3>4 DEF RootBlack, BlackOrNull, Red
      <4>2. top \in Cells /\ g \in Cells /\ top # g
        BY <1>6, <2>1, <3>4, <3>5, ParentFacts, NodeFacts DEF InNodes
      <4> QED BY <3>4, <4>1, <4>2 DEF RootBlack, BlackOrNull, Red
    <3> QED BY <1>6, <3>4, <3>6, <3>7 DEF RebalanceInv, InNodes
  <2> QED BY <2>2, <2>3
<1> QED BY <1>9, <1>10

LEMMA RebalanceKept ==
    ASSUME NEW t, NEW c, NEW pos, NEW b, Shape(t, c, pos, b),
           NEW x \in InNodes(t), RootBlack(t, x)
    PROVE  LET u == Rebalance(t, x)
           IN  /\ Kept(t, u, c, pos) /\ u \in Trees /\ u.bad = t.bad
               /\ BlackOrNull(u, Root(u))
<1> DEFINE S == RebalanceInv(t, c, pos)
           s0 == [t |-> t, x |-> x]
<1>1. t \in Trees
  BY DEF Shape
<1>2. s0 \in S
  BY <1>1 DEF RebalanceInv, Kept, InNodes
<1>3. \A s \in S : RebalanceStep[s] \in S
  BY <1>1, RebalanceStepKept
<1>4. PICK s : s = Iterate(RebalanceStep, s0, MaxNodes)
  OBVIOUS
<1>5. s \in S
  <2> HIDE DEF S, s0
  <2> QED BY <1>2, <1>3, <1>4, IterateKeeps, NodeFacts
<1>6. /\ s.t \in Trees /\ Kept(t, s.t, c, pos) /\ s.t.bad = t.bad
  BY <1>5 DEF RebalanceInv
<1>7. PICK u : u = Blacken(s.t, Root(s.t))
  OBVIOUS
<1>8. Root(s.t) \in Links
  BY <1>6, NodeFacts, SideFacts DEF Root, Trees
<1>9. /\ u \in Trees /\ u.child = s.t.child /\ u.parent = s.t.parent
      /\ u.most_left = s.t.most_left /\ u.count = s.t.count /\ u.bad = s.t.bad
      /\ \A m \in Cells : u.color[m] = IF m = Root(s.t) THEN "black" ELSE s.t.color[m]
  BY <1>6, <1>7, <1>8, Blackened
<1>10. Kept(s.t, u, c, pos)
  BY <1>6, <1>9, PaintKept DEF Kept
<1>11. Kept(t, u, c, pos)
  BY <1>6, <1>10, KeptTwice
<1>12. BlackOrNull(u, Root(u))
  <2>1. Root(u) = Root(s.t)
    BY <1>9 DEF Root
  <2> QED BY <1>8, <1>9, <2>1, NodeFacts DEF BlackOrNull, Red
<1>13. Rebalance(t, x) = u
  BY <1>4, <1>7 DEF Rebalance
<1> QED BY <1>6, <1>9, <1>11, <1>12, <1>13
---------------------------------------------------------------------------
(* Searching.                                                              *)

\* There are not more nodes in the tree than there are.
LEMMA CountFits ==
    ASSUME NEW t, NEW c, NEW pos, NEW b, Shape(t, c, pos, b)
    PROVE  c <= MaxNodes /\ IsFiniteSet(InNodes(t)) /\ c = Cardinality(InNodes(t))
<1>1. IsFiniteSet(Nodes) /\ Cardinality(Nodes) = MaxNodes
  <2>1. IsFiniteSet(1 .. MaxNodes)
        /\ Cardinality(1 .. MaxNodes) = IF 1 > MaxNodes THEN 0 ELSE MaxNodes - 1 + 1
    BY NodeFacts, FS_Interval
  <2> QED BY <2>1, NodeFacts DEF Nodes
<1>2. InNodes(t) \subseteq Nodes
  BY DEF InNodes
<1> QED BY <1>1, <1>2, FS_Subset DEF Shape, Ranks

LEMMA KeyFacts == \A n \in Nodes : key(n) \in Int
BY TreeAssumptions DEF key, Nodes, MaxNodes

\* The nodes left of the subtree of n have keys up to k, those right of it
\* greater ones.
Around(t, pos, b, k, n) ==
    \A m \in InNodes(t) :
        /\ pos[m] <= b["lchild"][n] => key(m) <= k
        /\ b["rchild"][n] <= pos[m] => k < key(m)

\* Where a new node of key k belongs: on side d of p.
Belongs(t, pos, k, p, d) ==
    /\ p \in Inside(t) /\ d \in Sides /\ t.child[d][p] = Null
    /\ p = Header => d = "lchild"
    /\ \A m \in InNodes(t) :
          IF d = "lchild" THEN IF pos[m] < pos[p] THEN key(m) <= k ELSE k < key(m)
          ELSE IF pos[m] <= pos[p] THEN key(m) <= k ELSE k < key(m)

LEMMA DescendEnds ==
    ASSUME NEW t, NEW c, NEW pos, NEW b, Shape(t, c, pos, b), NEW k \in Int
    PROVE  LET s == Descend(t, k)
           IN  /\ Belongs(t, pos, k, s.node, s.side)
               /\ ~(s.last # Null /\ key(s.last) < k)
<1> DEFINE D == [at : Links, node : Cells, side : Sides, last : Links]
           Good(i, s) ==
              /\ s.last # Null => s.last \in Nodes /\ k < key(s.last)
              /\ IF s.at = Null THEN Belongs(t, pos, k, s.node, s.side)
                 ELSE /\ s.at \in InNodes(t) /\ Around(t, pos, b, k, s.at)
                      /\ b["rchild"][s.at] - b["lchild"][s.at] <= i + 1
           R == {p \in Nat \X D : Good(p[1], p[2])}
           s0 == [at |-> Root(t), node |-> Header, side |-> "lchild", last |-> Null]
           f == DescendStep(t, k)
<1>1. /\ t \in Trees /\ c \in Nat /\ c <= MaxNodes /\ Root(t) \in Links /\ s0 \in D
      /\ t.child \in [Sides -> [Cells -> Links]]
      /\ pos \in [Cells -> Int] /\ b \in [Sides -> [Cells -> Int]]
  BY CountFits, NodeFacts, SideFacts DEF Shape, Root, Trees, Ranks, Bounds
<1>2. Good(MaxNodes, s0)
  <2>1. \A m \in InNodes(t) : pos[m] \in 1 .. c
    BY DEF Shape, Ranks
  <2>2. CASE Root(t) = Null
    <3>1. Adjoins("lchild", b["lchild"][Header], pos[Header])
          /\ b["lchild"][Header] = 0 /\ pos[Header] = c + 1
      BY <2>2, SideFacts DEF Shape, Bounds, Ranks, Inside, Root
    <3>2. 0 = (c + 1) - 1
      BY <3>1 DEF Adjoins
    <3>3. c = 0
      BY <1>1, <3>2
    <3> QED BY <2>1, <2>2, <3>3, SideFacts DEF Belongs, Inside, Root
  <2>3. CASE Root(t) # Null
    <3>1. Root(t) \in InNodes(t) /\ b["lchild"][Root(t)] = 0 /\ b["rchild"][Root(t)] = c + 1
      <4>1. Header \in Inside(t) /\ "lchild" \in Sides /\ Opp("lchild") = "rchild"
        BY SideFacts DEF Inside, Opp
      <4>2. b["lchild"][Header] = 0 /\ pos[Header] = c + 1
        BY DEF Shape, Bounds, Ranks
      <4> QED BY <2>3, <4>1, <4>2, ChildFacts DEF Root
    <3>2. Around(t, pos, b, k, Root(t))
      BY <1>1, <2>1, <3>1 DEF Around
    <3> QED BY <1>1, <2>3, <3>1, <3>2, NodeFacts
  <2> QED BY <2>2, <2>3
<1>3. ASSUME NEW s \in D, s.at # Null, s.at \in InNodes(t), Around(t, pos, b, k, s.at)
      PROVE  /\ ~Good(0, s)
             /\ \A i \in Nat : Good(i + 1, s) => f[s] \in D /\ Good(i, f[s])
  <2> DEFINE n == s.at
  <2>1. n \in Nodes /\ n \in Cells /\ n \in Inside(t)
    BY <1>3, NodeFacts DEF InNodes, Inside
  <2>2. /\ pos[n] \in Int /\ b["lchild"][n] \in Int /\ b["rchild"][n] \in Int
        /\ b["lchild"][n] < pos[n] /\ pos[n] < b["rchild"][n]
    <3>1. Before("lchild", b["lchild"][n], pos[n]) /\ Before("rchild", b["rchild"][n], pos[n])
      BY <2>1, SideFacts DEF Shape, Bounds
    <3> QED BY <1>1, <2>1, <3>1, SideFacts DEF Before
  <2>3. ~Good(0, s)
    BY <1>3, <2>2
  <2>4. ASSUME NEW i \in Nat, Good(i + 1, s) PROVE f[s] \in D /\ Good(i, f[s])
      <3>1. n \in InNodes(t) /\ n # Header /\ n # Null /\ n = s.at
      BY <1>3, NodeFacts DEF InNodes
    <3>2. \A m \in InNodes(t) : key(m) \in Int /\ pos[m] \in Int /\ m \in Inside(t)
      BY <1>1, KeyFacts, NodeFacts DEF Inside, InNodes
    <3>3. \A m \in InNodes(t) : pos[m] <= b["lchild"][n] => key(m) <= k
      BY <1>3 DEF Around
    <3>4. \A m \in InNodes(t) : b["rchild"][n] <= pos[m] => k < key(m)
      BY <1>3 DEF Around
    <3> HIDE DEF n
    <3>5. ASSUME NEW m \in InNodes(t), pos[n] <= pos[m] PROVE key(n) <= key(m)
      <4>1. CASE pos[n] = pos[m]
        <5>1. m = n
          BY <2>1, <3>2, <4>1 DEF Shape, Ranks
        <5> QED BY <3>2, <5>1
      <4>2. CASE pos[n] < pos[m]
        BY <3>1, <4>2 DEF Shape, Sorted
      <4> QED BY <2>2, <3>2, <3>5, <4>1, <4>2
    <3>6. ASSUME NEW m \in InNodes(t), pos[m] <= pos[n] PROVE key(m) <= key(n)
      <4>1. CASE pos[n] = pos[m]
        <5>1. m = n
          BY <2>1, <3>2, <4>1 DEF Shape, Ranks
        <5> QED BY <3>2, <5>1
      <4>2. CASE pos[m] < pos[n]
        BY <3>1, <4>2 DEF Shape, Sorted
      <4> QED BY <2>2, <3>2, <3>6, <4>1, <4>2
    <3>7. CASE k < key(n)
      <4>1. PICK w : w = t.child["lchild"][n]
        OBVIOUS
      <4>2. f[s] = [at |-> w, node |-> n, side |-> "lchild", last |-> n]
        BY <1>3, <3>1, <3>7, <4>1 DEF DescendStep
      <4>3. w \in Links
        BY <1>1, <2>1, <4>1, SideFacts
      <4>4. f[s] \in D
        BY <2>1, <4>2, <4>3, SideFacts, NodeFacts
      <4>5. ASSUME NEW m \in InNodes(t), pos[n] <= pos[m] PROVE k < key(m)
        <5>1. key(n) <= key(m) /\ key(n) \in Int /\ key(m) \in Int
          BY <3>1, <3>2, <3>5, <4>5
        <5> QED BY <3>7, <5>1
      <4>6. CASE w = Null
        <5>1. b["lchild"][n] = pos[n] - 1
          <6>1. Adjoins("lchild", b["lchild"][n], pos[n])
            BY <2>1, <4>1, <4>6, SideFacts DEF Shape, Bounds
          <6> QED BY <6>1 DEF Adjoins
        <5>2. ASSUME NEW m \in InNodes(t), pos[m] < pos[n] PROVE key(m) <= k
          <6>1. pos[m] <= b["lchild"][n]
            BY <2>2, <3>2, <5>1, <5>2
          <6> QED BY <3>3, <6>1
        <5>3. \A m \in InNodes(t) : ~(pos[m] < pos[n]) => k < key(m)
          BY <2>2, <3>2, <4>5
        <5>4. Belongs(t, pos, k, n, "lchild")
          BY <2>1, <3>1, <4>1, <5>3, <4>6, <5>2, SideFacts DEF Belongs
        <5> QED BY <2>1, <3>7, <4>2, <4>4, <4>6, <5>4
      <4>7. CASE w # Null
        <5>1. w \in InNodes(t) /\ b["lchild"][w] = b["lchild"][n] /\ b["rchild"][w] = pos[n]
          BY <2>1, <4>1, <4>7, ChildFacts, SideFacts DEF Opp
        <5>2. Around(t, pos, b, k, w)
          BY <3>3, <4>5, <5>1 DEF Around
        <5> QED BY <2>1, <2>2, <2>4, <3>1, <3>7, <4>2, <4>4, <4>7, <5>1, <5>2
      <4> QED BY <4>6, <4>7
    <3>8. CASE ~(k < key(n))
      <4>1. PICK w : w = t.child["rchild"][n]
        OBVIOUS
      <4>2. f[s] = [at |-> w, node |-> n, side |-> "rchild", last |-> s.last]
        BY <1>3, <3>1, <3>8, <4>1 DEF DescendStep
      <4>3. w \in Links
        BY <1>1, <2>1, <4>1, SideFacts
      <4>4. f[s] \in D
        BY <2>1, <4>2, <4>3, SideFacts, NodeFacts
      <4>5. ASSUME NEW m \in InNodes(t), pos[m] <= pos[n] PROVE key(m) <= k
        <5>1. key(m) <= key(n) /\ key(n) \in Int /\ key(m) \in Int
          BY <3>1, <3>2, <3>6, <4>5
        <5> QED BY <3>8, <5>1
      <4>6. CASE w = Null
        <5>1. b["rchild"][n] = pos[n] + 1
          <6>1. Adjoins("rchild", b["rchild"][n], pos[n])
            BY <2>1, <4>1, <4>6, SideFacts DEF Shape, Bounds
          <6> QED BY <6>1, SideFacts DEF Adjoins
        <5>2. ASSUME NEW m \in InNodes(t), ~(pos[m] <= pos[n]) PROVE k < key(m)
          <6>1. b["rchild"][n] <= pos[m]
            BY <2>2, <3>2, <5>1, <5>2
          <6> QED BY <3>4, <6>1
        <5>3. Belongs(t, pos, k, n, "rchild")
          BY <2>1, <3>1, <4>1, <4>5, <4>6, <5>2, SideFacts DEF Belongs
        <5> QED BY <2>1, <2>4, <4>2, <4>4, <4>6, <5>3
      <4>7. CASE w # Null
        <5>1. w \in InNodes(t) /\ b["rchild"][w] = b["rchild"][n] /\ b["lchild"][w] = pos[n]
          BY <2>1, <4>1, <4>7, ChildFacts, SideFacts DEF Opp
        <5>2. Around(t, pos, b, k, w)
          BY <3>4, <4>5, <5>1 DEF Around
        <5> QED BY <2>1, <2>2, <2>4, <3>1, <4>2, <4>4, <4>7, <5>1, <5>2
      <4> QED BY <4>6, <4>7
    <3> QED BY <3>7, <3>8
  <2> QED BY <2>3, <2>4
<1>4. ASSUME NEW s \in D, s.at = Null
      PROVE  f[s] = s
  BY <1>4 DEF DescendStep
<1>5. PICK s : s = Iterate(f, s0, MaxNodes)
  OBVIOUS
<1>6. <<0, s>> \in R
  <2>1. <<MaxNodes, s0>> \in R
    BY <1>1, <1>2, NodeFacts
  <2>2. \A y : <<0, y>> \in R => <<0, f[y]>> \in R
    <3> SUFFICES ASSUME NEW y \in D, Good(0, y) PROVE Good(0, f[y]) /\ f[y] \in D
      OBVIOUS
    <3>1. CASE y.at = Null
      BY <1>4, <3>1
    <3>2. CASE y.at # Null
      BY <1>3, <3>2
    <3> QED BY <3>1, <3>2
  <2>3. \A i \in Nat : \A y : <<i + 1, y>> \in R => <<i, f[y]>> \in R
    <3> SUFFICES ASSUME NEW i \in Nat, NEW y \in D, Good(i + 1, y) PROVE Good(i, f[y]) /\ f[y] \in D
      OBVIOUS
    <3>1. CASE y.at = Null
      BY <1>4, <3>1
    <3>2. CASE y.at # Null
      BY <1>3, <3>2
    <3> QED BY <3>1, <3>2
  <2> HIDE DEF R, s0, f
  <2>4. MaxNodes \in Nat
    BY NodeFacts
  <2>5. \A j \in Nat : MaxNodes <= j => <<0, Iterate(f, s0, j)>> \in R
    BY ONLY <2>1, <2>2, <2>3, <2>4, LoopRule
  <2>6. MaxNodes <= MaxNodes
    BY <2>4
  <2> QED BY <1>5, <2>4, <2>5, <2>6
<1>7. s \in D /\ Good(0, s)
  BY <1>6
<1>8. s.at = Null
  BY <1>3, <1>7
<1>9. s = Descend(t, k)
  BY <1>5 DEF Descend
<1> HIDE DEF f, s0
<1> QED BY <1>7, <1>8, <1>9, KeyFacts
---------------------------------------------------------------------------
(* A new node.                                                             *)

\* Numbers from q on make room for q.
Room(v, q) == IF v >= q THEN v + 1 ELSE v

LEMMA AttachShape ==
    ASSUME NEW t, NEW c, NEW pos, NEW b, Shape(t, c, pos, b),
           NEW n \in Nodes \ InNodes(t), NEW p, NEW d, Belongs(t, pos, key(n), p, d),
           NEW u \in Trees,
           \A e \in Sides, m \in Cells :
              u.child[e][m] = IF e = d /\ m = p THEN n ELSE t.child[e][m],
           \A m \in Cells : u.parent[m] = IF m = n THEN p ELSE t.parent[m]
    PROVE  /\ InNodes(u) = InNodes(t) \cup {n}
           /\ \E pos2, b2 :
                 /\ Shape(u, c + 1, pos2, b2)
                 /\ pos2[n] = IF d = "lchild" THEN pos[p] ELSE pos[p] + 1
                 /\ \A m \in Inside(t) : pos2[m] = Room(pos[m], pos2[n])
<1> DEFINE q == IF d = "lchild" THEN pos[p] ELSE pos[p] + 1
           pos2 == [m \in Cells |-> IF m = n THEN q ELSE Room(pos[m], q)]
           b2 == [e \in Sides |-> [m \in Cells |->
                     IF m # n THEN Room(b[e][m], q)
                     ELSE IF e = "lchild" THEN q - 1 ELSE q + 1]]
<1>1. /\ t \in Trees /\ c \in Nat
      /\ n \in Nodes /\ n \in Cells /\ n # Header /\ n # Null /\ n \notin Inside(t)
      /\ p \in Inside(t) /\ p \in Cells /\ p # Null /\ p # n /\ d \in Sides /\ t.child[d][p] = Null
      /\ pos \in [Cells -> Int] /\ b \in [Sides -> [Cells -> Int]]
  BY NodeFacts DEF Shape, Ranks, Bounds, Belongs, InNodes, Inside
<1>2. /\ pos[Header] = c + 1 /\ Header \in Inside(t) /\ Header \in Cells
      /\ \A m \in InNodes(t) : pos[m] \in 1 .. c
      /\ \A m \in Inside(t) : m \in Cells /\ pos[m] \in 1 .. c + 1
  <2>1. pos[Header] = c + 1 /\ \A m \in InNodes(t) : pos[m] \in 1 .. c
    BY DEF Shape, Ranks
  <2>2. \A m \in Inside(t) : m \in Cells /\ (m \in InNodes(t) \/ m = Header)
    BY NodeFacts DEF Inside, InNodes
  <2> QED BY <1>1, <2>1, <2>2, NodeFacts DEF Inside
<1>3. q \in 1 .. c + 1 /\ (d = "lchild" => q = pos[p]) /\ (d # "lchild" => q = pos[p] + 1)
  <2>1. d # "lchild" => p # Header
    BY DEF Belongs
  <2>2. p # Header => p \in InNodes(t)
    BY <1>1 DEF Inside
  <2> QED BY <1>1, <1>2, <2>1, <2>2
<1>4. /\ pos2 \in [Cells -> Int] /\ pos2[n] = q
      /\ \A m \in Cells : m # n => pos2[m] = Room(pos[m], q)
  BY <1>1, <1>3 DEF Room
<1>5. /\ b2 \in [Sides -> [Cells -> Int]] /\ b2["lchild"][n] = q - 1 /\ b2["rchild"][n] = q + 1
      /\ \A e \in Sides, m \in Cells : m # n => b2[e][m] = Room(b[e][m], q)
  BY <1>1, <1>3, SideFacts DEF Room
<1> HIDE DEF q, pos2, b2
<1>6. InNodes(u) = InNodes(t) \cup {n} /\ Inside(u) = Inside(t) \cup {n}
  <2>1. \A m \in Nodes : u.parent[m] # Null <=> m = n \/ t.parent[m] # Null
    BY <1>1, NodeFacts
  <2> QED BY <1>1, <2>1 DEF InNodes, InTree, Inside
<1>7. Linked(u)
  <2>1. u.parent[Header] = Null /\ u.child["rchild"][Header] = Null
    BY <1>1, <1>2, SideFacts DEF Shape, Linked, Belongs
  <2>2. ASSUME NEW m \in Inside(u), NEW e \in Sides, u.child[e][m] # Null
        PROVE  u.parent[u.child[e][m]] = m
    <3>1. m \in Cells
      BY <1>1, <1>2, <1>6
    <3>2. CASE e = d /\ m = p
      BY <1>1, <3>1, <3>2
    <3>3. CASE ~(e = d /\ m = p)
      <4>1. u.child[e][m] = t.child[e][m]
        BY <3>1, <3>3
      <4>2. m # n
        BY <1>1, <2>2, <4>1 DEF Shape, Linked
      <4>3. t.child[e][m] \in InNodes(t) /\ t.parent[t.child[e][m]] = m
        BY <1>6, <2>2, <4>1, <4>2, ChildFacts
      <4> QED BY <1>1, <4>1, <4>3, NodeFacts DEF InNodes
    <3> QED BY <3>2, <3>3
  <2>3. ASSUME NEW m \in InNodes(u)
        PROVE  u.parent[m] \in Inside(u) /\ \E e \in Sides : u.child[e][u.parent[m]] = m
    <3>1. CASE m = n
      BY <1>1, <1>6, <3>1
    <3>2. CASE m # n
      <4>1. m \in InNodes(t) /\ m \in Cells /\ u.parent[m] = t.parent[m]
        BY <1>1, <1>6, <3>2, NodeFacts DEF InNodes
      <4>2. PICK e \in Sides : t.child[e][t.parent[m]] = m
        BY <4>1 DEF Shape, Linked
      <4>3. t.parent[m] \in Inside(t) /\ t.parent[m] \in Cells /\ m # Null
        BY <1>2, <4>1, NodeFacts DEF Shape, Linked, InNodes
      <4>4. u.child[e][t.parent[m]] = m
        BY <1>1, <4>2, <4>3
      <4> QED BY <1>6, <4>1, <4>3, <4>4
    <3> QED BY <3>1, <3>2
  <2>4. ASSUME NEW m \in Nodes \ InNodes(u), NEW e \in Sides PROVE u.child[e][m] = Null
    <3>1. m \in Nodes \ InNodes(t) /\ m # p /\ m \in Cells
      BY <1>1, <1>6, NodeFacts DEF Inside
    <3> QED BY <3>1 DEF Shape, Linked
  <2> QED BY <2>1, <2>2, <2>3, <2>4 DEF Linked
<1>8. Ranks(u, c + 1, pos2)
  <2>1. pos2[Header] = (c + 1) + 1
    BY <1>1, <1>2, <1>3, <1>4 DEF Room
  <2>2. ASSUME NEW m \in InNodes(u) PROVE pos2[m] \in 1 .. (c + 1)
    <3>1. CASE m = n
      BY <1>3, <1>4, <3>1
    <3>2. CASE m # n
      <4>1. m \in Cells /\ pos[m] \in 1 .. c
        BY <1>2, <1>6, <3>2 DEF Inside
      <4> QED BY <1>1, <1>3, <1>4, <3>2, <4>1 DEF Room
    <3> QED BY <3>1, <3>2
  <2>3. ASSUME NEW m \in Inside(u), NEW k \in Inside(u), pos2[m] = pos2[k] PROVE m = k
    <3>1. \A j \in Inside(u) : j # n => j \in Inside(t) /\ pos2[j] = Room(pos[j], q) /\ pos[j] \in Int
      BY <1>2, <1>4, <1>6
    <3>2. \A j \in Inside(u) : j # n => pos2[j] # q
      BY <1>3, <3>1 DEF Room
    <3>3. CASE m # n /\ k # n
      <4>1. pos[m] = pos[k]
        BY <1>3, <2>3, <3>1, <3>3 DEF Room
      <4> QED BY <3>1, <3>3, <4>1 DEF Shape, Ranks
    <3> QED BY <1>4, <2>3, <3>2, <3>3
  <2>4. c + 1 = Cardinality(InNodes(u))
    <3>1. IsFiniteSet(InNodes(t)) /\ c = Cardinality(InNodes(t))
      BY CountFits
    <3>2. n \notin InNodes(t)
      BY <1>1 DEF Inside
    <3> QED BY <1>6, <3>1, <3>2, FS_AddElement
  <2> QED BY <1>4, <2>1, <2>2, <2>3, <2>4 DEF Ranks
<1>9. Bounds(u, c + 1, pos2, b2)
  <2>1. b2["lchild"][Header] = 0 /\ b2["rchild"][Header] = (c + 1) + 2
    BY <1>1, <1>2, <1>3, <1>5, SideFacts DEF Shape, Bounds, Room
  <2>2. \A m \in Inside(t) : m # n /\ m \in Cells /\ pos[m] \in Int /\ pos2[m] = Room(pos[m], q)
    BY <1>1, <1>2, <1>4
  <2>3. \A e \in Sides, m \in Inside(t) :
           b[e][m] \in 0 .. c + 2 /\ Before(e, b[e][m], pos[m]) /\ b2[e][m] = Room(b[e][m], q)
    BY <1>5, <2>2 DEF Shape, Bounds
  <2>4. ASSUME NEW m \in Inside(u), NEW e \in Sides
        PROVE  b2[e][m] \in 0 .. (c + 1) + 2 /\ Before(e, b2[e][m], pos2[m])
    <3>1. CASE m = n
      <4>1. e = "lchild" \/ e = "rchild"
        BY DEF Sides
      <4> QED BY <1>1, <1>3, <1>4, <1>5, <3>1, <4>1, SideFacts DEF Before
    <3>2. CASE m # n
      <4>1. m \in Inside(t)
        BY <1>6, <3>2
      <4>2. b[e][m] \in 0 .. c + 2 /\ Before(e, b[e][m], pos[m]) /\ pos[m] \in Int
            /\ b2[e][m] = Room(b[e][m], q) /\ pos2[m] = Room(pos[m], q)
        BY <2>2, <2>3, <4>1
      <4>3. b2[e][m] \in 0 .. (c + 1) + 2
        BY <1>1, <1>3, <4>2 DEF Room
      <4> QED BY <1>3, <4>2, <4>3 DEF Room, Before
    <3> QED BY <3>1, <3>2
  <2>5. ASSUME NEW m \in Inside(u), NEW e \in Sides
        PROVE  IF u.child[e][m] = Null
               THEN Adjoins(e, b2[e][m], pos2[m])
               ELSE b2[e][u.child[e][m]] = b2[e][m] /\ b2[Opp(e)][u.child[e][m]] = pos2[m]
    <3>1. CASE m = n
      <4>1. u.child[e][m] = Null
        <5>1. t.child[e][n] = Null
          BY <1>1 DEF Shape, Linked, Inside
        <5> QED BY <1>1, <3>1, <5>1
      <4>2. e = "lchild" \/ e = "rchild"
        BY DEF Sides
      <4> QED BY <1>3, <1>4, <1>5, <3>1, <4>1, <4>2, SideFacts DEF Adjoins
    <3>2. CASE m = p /\ e = d
      <4>1. u.child[e][m] = n
        BY <1>1, <3>2
      <4>2. Adjoins(d, b[d][p], pos[p])
        BY <1>1 DEF Shape, Bounds
      <4>3. pos[p] \in Int /\ b[d][p] \in Int /\ pos2[p] = Room(pos[p], q) /\ b2[d][p] = Room(b[d][p], q)
        BY <1>1, <2>2, <2>3
      <4>4. CASE d = "lchild"
        <5>1. b[d][p] = pos[p] - 1 /\ q = pos[p]
          BY <1>3, <4>2, <4>4 DEF Adjoins
        <5>2. b2[d][p] = q - 1 /\ pos2[p] = q + 1
          BY <1>3, <4>3, <5>1 DEF Room
        <5>3. b2[d][n] = q - 1 /\ b2[Opp(d)][n] = q + 1
          BY <1>5, <4>4 DEF Opp
        <5> QED BY <1>1, <3>2, <4>1, <5>2, <5>3
      <4>5. CASE d # "lchild"
        <5>1. b[d][p] = pos[p] + 1 /\ q = pos[p] + 1
          BY <1>3, <4>2, <4>5 DEF Adjoins
        <5>2. b2[d][p] = q + 1 /\ pos2[p] = q - 1
          BY <1>3, <4>3, <5>1 DEF Room
        <5>3. d = "rchild"
          BY <1>1, <4>5 DEF Sides
        <5>4. b2[d][n] = q + 1 /\ b2[Opp(d)][n] = q - 1
          BY <1>5, <5>3, SideFacts DEF Opp
        <5> QED BY <1>1, <3>2, <4>1, <5>2, <5>4
      <4> QED BY <4>4, <4>5
    <3>3. CASE m # n /\ ~(m = p /\ e = d)
      <4>1. m \in Inside(t) /\ m \in Cells /\ u.child[e][m] = t.child[e][m]
        BY <1>2, <1>6, <3>3
      <4>2. pos[m] \in Int /\ b[e][m] \in Int /\ pos2[m] = Room(pos[m], q)
            /\ b2[e][m] = Room(b[e][m], q)
        BY <2>2, <2>3, <4>1
      <4>3. CASE t.child[e][m] # Null
        <5>1. PICK w : w = t.child[e][m]
          OBVIOUS
        <5>2. w \in InNodes(t) /\ b[e][w] = b[e][m] /\ b[Opp(e)][w] = pos[m]
          BY <4>1, <4>3, <5>1, ChildFacts
        <5>3. w \in Inside(t) /\ Opp(e) \in Sides
          BY <5>2, SideFacts DEF Inside
        <5> QED BY <2>3, <4>1, <4>2, <4>3, <5>1, <5>2, <5>3
      <4>4. CASE t.child[e][m] = Null
        <5>1. Adjoins(e, b[e][m], pos[m])
          BY <4>1, <4>4 DEF Shape, Bounds
        <5>2. CASE e = "lchild"
          <6>1. b[e][m] = pos[m] - 1
            BY <5>1, <5>2 DEF Adjoins
          <6>2. pos[m] # q
            <7>1. CASE d = "lchild"
              <8>1. m # p
                BY <3>3, <5>2, <7>1
              <8>2. pos[m] # pos[p]
                BY <1>1, <4>1, <8>1 DEF Shape, Ranks
              <8> QED BY <1>3, <7>1, <8>2
            <7>2. CASE d # "lchild"
              <8>1. d = "rchild" /\ q = pos[p] + 1 /\ t.child["rchild"][p] = Null
                BY <1>1, <1>3, <7>2 DEF Sides
              <8>2. t.child["lchild"][m] = Null
                BY <4>4, <5>2
              <8> QED BY <1>1, <4>1, <8>1, <8>2 DEF Shape, Gaps
            <7> QED BY <7>1, <7>2
          <6>3. b2[e][m] = pos2[m] - 1
            BY <1>3, <4>2, <6>1, <6>2 DEF Room
          <6> QED BY <4>1, <4>4, <5>2, <6>3 DEF Adjoins
        <5>3. CASE e # "lchild"
          <6>1. b[e][m] = pos[m] + 1 /\ e = "rchild"
            BY <5>1, <5>3 DEF Adjoins, Sides
          <6>2. pos[m] + 1 # q
            <7>1. CASE d # "lchild"
              <8>1. m # p
                BY <1>1, <3>3, <6>1, <7>1 DEF Sides
              <8>2. pos[m] # pos[p]
                BY <1>1, <4>1, <8>1 DEF Shape, Ranks
              <8>3. pos[p] \in Int
                BY <1>1
              <8>4. q = pos[p] + 1
                BY <1>3, <7>1
              <8> QED BY <4>2, <8>2, <8>3, <8>4
            <7>2. CASE d = "lchild"
              <8>1. q = pos[p] /\ t.child["lchild"][p] = Null
                BY <1>1, <1>3, <7>2
              <8>2. t.child["rchild"][m] = Null
                BY <4>4, <6>1
              <8> QED BY <1>1, <4>1, <8>1, <8>2 DEF Shape, Gaps
            <7> QED BY <7>1, <7>2
          <6>3. b2[e][m] = pos2[m] + 1
            BY <1>3, <4>2, <6>1, <6>2 DEF Room
          <6> QED BY <4>1, <4>4, <5>3, <6>3 DEF Adjoins
        <5> QED BY <5>2, <5>3
      <4> QED BY <4>3, <4>4
    <3> QED BY <3>1, <3>2, <3>3
  <2>6. b2 \in [Sides -> [Cells -> Int]]
    BY <1>5
  <2> QED BY <2>1, <2>4, <2>5, <2>6 DEF Bounds
<1>10. Gaps(u, pos2)
  <2> SUFFICES ASSUME NEW m \in Inside(u), NEW k \in Inside(u), pos2[k] = pos2[m] + 1,
                      u.child["rchild"][m] = Null, u.child["lchild"][k] = Null
               PROVE  FALSE
    BY DEF Gaps
  <2>1. \A j \in Inside(u) : j # n => j \in Inside(t) /\ j \in Cells /\ pos[j] \in Int
                                      /\ pos2[j] = Room(pos[j], q)
    BY <1>2, <1>4, <1>6
  <2>2. CASE m # n /\ k # n
    <3>1. pos[k] = pos[m] + 1
      BY <1>3, <2>1, <2>2 DEF Room
    <3>2. t.child["rchild"][m] # Null \/ t.child["lchild"][k] # Null
      BY <2>1, <2>2, <3>1 DEF Shape, Gaps
    <3>3. \A e \in Sides, j \in Cells : u.child[e][j] = Null => t.child[e][j] = Null
      BY <1>1
    <3> QED BY <2>1, <2>2, <3>2, <3>3, SideFacts
  <2>3. CASE m # n /\ k = n
    <3>1. pos2[m] = q - 1 /\ pos[m] = q - 1
      BY <1>3, <1>4, <2>1, <2>3 DEF Room
    <3>2. CASE d = "lchild"
      <4>1. pos[p] = pos[m] + 1 /\ t.child["lchild"][p] = Null
        BY <1>1, <1>3, <3>1, <3>2
      <4>2. t.child["rchild"][m] # Null
        BY <1>1, <2>1, <2>3, <4>1 DEF Shape, Gaps
      <4>3. u.child["rchild"][m] = t.child["rchild"][m]
        BY <1>1, <2>1, <2>3, <3>2, SideFacts
      <4> QED BY <4>2, <4>3
    <3>3. CASE d # "lchild"
      <4>1. pos[p] = pos[m] /\ d = "rchild"
        BY <1>1, <1>2, <1>3, <3>1, <3>3 DEF Sides
      <4>2. p = m
        BY <1>1, <2>1, <2>3, <4>1 DEF Shape, Ranks
      <4>3. u.child["rchild"][m] = n
        BY <1>1, <4>1, <4>2
      <4> QED BY <1>1, <4>3
    <3> QED BY <3>2, <3>3
  <2>4. CASE m = n /\ k # n
    <3>1. pos2[k] = q + 1 /\ pos[k] = q
      BY <1>3, <1>4, <2>1, <2>4 DEF Room
    <3>2. CASE d # "lchild"
      <4>1. pos[k] = pos[p] + 1 /\ t.child["rchild"][p] = Null /\ d = "rchild"
        BY <1>1, <1>3, <3>1, <3>2 DEF Sides
      <4>2. t.child["lchild"][k] # Null
        BY <1>1, <2>1, <2>4, <4>1 DEF Shape, Gaps
      <4>3. u.child["lchild"][k] = t.child["lchild"][k]
        BY <1>1, <2>1, <2>4, <4>1, SideFacts
      <4> QED BY <4>2, <4>3
    <3>3. CASE d = "lchild"
      <4>1. pos[p] = pos[k]
        BY <1>3, <3>1, <3>3
      <4>2. p = k
        BY <1>1, <2>1, <2>4, <4>1 DEF Shape, Ranks
      <4>3. u.child["lchild"][k] = n
        BY <1>1, <3>3, <4>2
      <4> QED BY <1>1, <4>3
    <3> QED BY <3>2, <3>3
  <2>5. CASE m = n /\ k = n
    BY <1>3, <1>4, <2>5
  <2> QED BY <2>2, <2>3, <2>4, <2>5
<1>11. Sorted(u, pos2)
  <2> SUFFICES ASSUME NEW m \in InNodes(u), NEW k \in InNodes(u), pos2[m] < pos2[k]
               PROVE  key(m) <= key(k)
    BY DEF Sorted
  <2>1. \A j \in InNodes(u) : j # n => j \in InNodes(t) /\ pos2[j] = Room(pos[j], q) /\ pos[j] \in Int
    BY <1>2, <1>4, <1>6 DEF Inside
  <2>2. key(m) \in Int /\ key(k) \in Int
    BY KeyFacts DEF InNodes
  <2>3. \A j \in InNodes(t) : IF pos[j] < q THEN key(j) <= key(n) ELSE key(n) < key(j)
    BY <1>1, <1>2, <1>3 DEF Belongs, Inside
  <2>4. CASE m # n /\ k # n
    <3>1. pos[m] < pos[k]
      BY <1>3, <2>1, <2>4 DEF Room
    <3> QED BY <2>1, <2>4, <3>1 DEF Shape, Sorted
  <2>5. CASE m = n /\ k # n
    <3>1. ~(pos[k] < q)
      BY <1>3, <1>4, <2>1, <2>5 DEF Room
    <3> QED BY <2>1, <2>2, <2>3, <2>5, <3>1
  <2>6. CASE m # n /\ k = n
    <3>1. pos[m] < q
      BY <1>3, <1>4, <2>1, <2>6 DEF Room
    <3> QED BY <2>1, <2>3, <2>6, <3>1
  <2> QED BY <1>3, <1>4, <2>4, <2>5, <2>6
<1>12. Shape(u, c + 1, pos2, b2)
  BY <1>1, <1>7, <1>8, <1>9, <1>10, <1>11 DEF Shape
<1> QED BY <1>1, <1>2, <1>4, <1>6, <1>12 DEF q

\* most_left is the first node, or the header if there is none.
First(t, pos) == t.most_left \in Inside(t) /\ pos[t.most_left] = 1

\* n is below p on side d, and nothing is repaired yet.
Attached(t, a, n, p, d) ==
    /\ \A e \in Sides, k \in Cells :
          a.child[e][k] = IF e = d /\ k = p THEN n ELSE t.child[e][k]
    /\ \A k \in Cells : a.parent[k] = IF k = n THEN p ELSE t.parent[k]
    /\ \A k \in Cells : a.color[k] = IF k = n THEN "red" ELSE t.color[k]
    /\ a.most_left = IF d = "lchild" /\ p = t.most_left THEN n ELSE t.most_left
    /\ a.count = t.count + 1 /\ a.bad = t.bad

\* insert() attaches the node where it belongs and repairs the tree.
InsertedAs(t, pos, n, u) ==
    \E p \in Inside(t), d \in Sides, a \in Trees :
       Belongs(t, pos, key(n), p, d) /\ Attached(t, a, n, p, d) /\ u = Rebalance(a, n)

LEMMA InsertedForm ==
    ASSUME NEW t, NEW pos, NEW b, Shape(t, t.count, pos, b),
           NEW n \in Nodes \ InNodes(t), NEW u, u = Inserted(t, n)
    PROVE  InsertedAs(t, pos, n, u)
<1>1. t \in Trees /\ n \in Nodes /\ n \in Cells /\ n \in Links /\ n # Null /\ n # Header
      /\ n \notin InNodes(t) /\ t.count \in Nat
  BY NodeFacts DEF Shape, Trees
<1>2. key(n) \in Int
  BY <1>1, KeyFacts
<1>3. PICK s : s = Descend(t, key(n))
  OBVIOUS
<1>4. PICK p, d : p = s.node /\ d = s.side
  OBVIOUS
<1>5. Belongs(t, pos, key(n), p, d) /\ ~(s.last # Null /\ key(s.last) < key(n))
  BY <1>2, <1>3, <1>4, DescendEnds
<1>6. u = Create(t, n, p, d)
  BY <1>3, <1>4, <1>5 DEF Inserted
<1>7. PICK m : m = IF d = "lchild" /\ p = t.most_left THEN n ELSE t.most_left
  OBVIOUS
<1>8. PICK a : a = [Attach(t, n, p, d) EXCEPT !.most_left = m]
  OBVIOUS
<1>9. Attach(t, n, p, d).most_left = t.most_left
  BY <1>1 DEF Attach, Trees
<1>10. u = Rebalance(a, n)
  BY <1>6, <1>7, <1>8, <1>9 DEF Create
<1>11. p \in Cells /\ p \in Inside(t) /\ d \in Sides /\ p # n /\ (p = Header => d = "lchild")
  BY <1>1, <1>5, NodeFacts DEF Belongs, Inside, InNodes
<1> HIDE <1>3, <1>4, <1>7
<1>12. m = IF d = "lchild" /\ p = t.most_left THEN n ELSE t.most_left
  BY <1>7
<1>13. m \in Cells
  BY <1>1, <1>12 DEF Trees
<1>14. /\ a \in Trees
       /\ \A e \in Sides, k \in Cells :
             a.child[e][k] = IF e = d /\ k = p THEN n ELSE t.child[e][k]
       /\ \A k \in Cells : a.parent[k] = IF k = n THEN p ELSE t.parent[k]
       /\ \A k \in Cells : a.color[k] = IF k = n THEN "red" ELSE t.color[k]
       /\ a.most_left = m /\ a.count = t.count + 1 /\ a.bad = t.bad
  <2>1. a = [child |-> [t.child EXCEPT ![d][p] = n], parent |-> [t.parent EXCEPT ![n] = p],
             color |-> [t.color EXCEPT ![n] = "red"], most_left |-> m,
             count |-> t.count + 1, bad |-> t.bad]
    BY <1>1, <1>8 DEF Attach, Trees
  <2>2. /\ t.child \in [Sides -> [Cells -> Links]] /\ t.parent \in [Cells -> Cells \cup {Null}]
        /\ t.color \in [Cells -> {"red", "black"}] /\ t.bad \in BOOLEAN
    BY <1>1 DEF Trees
  <2> HIDE <1>8
  <2>3. /\ a.child \in [Sides -> [Cells -> Links]]
        /\ \A e \in Sides, k \in Cells :
              a.child[e][k] = IF e = d /\ k = p THEN n ELSE t.child[e][k]
    BY <1>1, <1>11, <2>1, <2>2, ChildExcept
  <2>4. /\ a.parent \in [Cells -> Cells \cup {Null}]
        /\ \A k \in Cells : a.parent[k] = IF k = n THEN p ELSE t.parent[k]
    BY <1>1, <1>11, <2>1, <2>2
  <2>5. /\ a.color \in [Cells -> {"red", "black"}]
        /\ \A k \in Cells : a.color[k] = IF k = n THEN "red" ELSE t.color[k]
    BY <1>1, <1>11, <2>1, <2>2
  <2>6. a \in Trees
    BY <1>1, <1>13, <2>1, <2>2, <2>3, <2>4, <2>5 DEF Trees
  <2> QED BY <2>1, <2>3, <2>4, <2>5, <2>6
<1>15. Attached(t, a, n, p, d)
  <2> HIDE <1>8
  <2> QED BY <1>12, <1>14 DEF Attached
<1> QED BY <1>5, <1>10, <1>11, <1>14, <1>15 DEF InsertedAs

LEMMA AttachedFacts ==
    ASSUME NEW t, NEW c, NEW pos, NEW b, Shape(t, c, pos, b), BlackOrNull(t, Root(t)),
           NEW n \in Nodes \ InNodes(t), NEW p \in Inside(t), NEW d \in Sides,
           Belongs(t, pos, key(n), p, d), NEW a \in Trees, Attached(t, a, n, p, d)
    PROVE  /\ RootBlack(a, n) /\ InNodes(a) = InNodes(t) \cup {n}
           /\ \E pos2, b2 :
                 /\ Shape(a, c + 1, pos2, b2)
                 /\ pos2[n] = IF d = "lchild" THEN pos[p] ELSE pos[p] + 1
                 /\ \A k \in Inside(t) : pos2[k] = Room(pos[k], pos2[n])
<1>1. t \in Trees /\ n \in Nodes /\ n \in Cells /\ n # Null /\ n # Header /\ n \notin InNodes(t)
  BY NodeFacts DEF Shape
<1>2. p \in Cells /\ p # n /\ (p = Header => d = "lchild")
  BY <1>1, NodeFacts DEF Belongs, Inside, InNodes
<1>3. /\ InNodes(a) = InNodes(t) \cup {n}
      /\ \E pos2, b2 :
            /\ Shape(a, c + 1, pos2, b2)
            /\ pos2[n] = IF d = "lchild" THEN pos[p] ELSE pos[p] + 1
            /\ \A k \in Inside(t) : pos2[k] = Room(pos[k], pos2[n])
  BY AttachShape DEF Attached
<1>4. RootBlack(a, n)
  <2>1. Root(a) = IF p = Header THEN n ELSE Root(t)
    BY <1>1, <1>2, NodeFacts, SideFacts DEF Root, Attached
  <2>2. p # Header /\ Root(t) # Null => a.color[Root(t)] = t.color[Root(t)]
    <3>1. Root(t) # Null => Root(t) \in InNodes(t)
      BY ChildFacts, SideFacts DEF Root, Inside
    <3>2. Root(t) # Null => Root(t) \in Cells /\ Root(t) # n
      BY <1>1, <3>1, NodeFacts DEF InNodes
    <3> QED BY <3>2 DEF Attached
  <2> QED BY <2>1, <2>2 DEF RootBlack, BlackOrNull, Red
<1> QED BY <1>3, <1>4

\* insert() adds the node and keeps the rest.
LEMMA InsertedKept ==
    ASSUME NEW t, NEW pos, NEW b, Shape(t, t.count, pos, b), BlackOrNull(t, Root(t)),
           NEW n \in Nodes \ InNodes(t), NEW u, u = Inserted(t, n)
    PROVE  /\ u \in Trees /\ u.count = t.count + 1 /\ u.bad = t.bad
           /\ InNodes(u) = InNodes(t) \cup {n} /\ BlackOrNull(u, Root(u))
           /\ \E pos2, b2 : Shape(u, u.count, pos2, b2) /\ (First(t, pos) => First(u, pos2))
<1>1. t \in Trees /\ n \in Nodes /\ n \notin InNodes(t) /\ t.count \in Nat
  BY DEF Shape
<1>2. PICK p \in Inside(t), d \in Sides, a \in Trees :
         Belongs(t, pos, key(n), p, d) /\ Attached(t, a, n, p, d) /\ u = Rebalance(a, n)
  <2>1. InsertedAs(t, pos, n, u)
    BY InsertedForm
  <2> QED BY <2>1 DEF InsertedAs
<1>3. PICK m : m = IF d = "lchild" /\ p = t.most_left THEN n ELSE t.most_left
  OBVIOUS
<1>4. a.most_left = m /\ a.count = t.count + 1 /\ a.bad = t.bad
  BY <1>2, <1>3 DEF Attached
<1>5. /\ RootBlack(a, n) /\ InNodes(a) = InNodes(t) \cup {n}
      /\ \E pos2, b2 :
            /\ Shape(a, t.count + 1, pos2, b2)
            /\ pos2[n] = IF d = "lchild" THEN pos[p] ELSE pos[p] + 1
            /\ \A k \in Inside(t) : pos2[k] = Room(pos[k], pos2[n])
  BY <1>2, AttachedFacts
<1>6. PICK pos2, b2 : /\ Shape(a, t.count + 1, pos2, b2)
                      /\ pos2[n] = IF d = "lchild" THEN pos[p] ELSE pos[p] + 1
                      /\ \A k \in Inside(t) : pos2[k] = Room(pos[k], pos2[n])
  BY <1>5
<1>7. /\ Kept(a, u, t.count + 1, pos2) /\ u \in Trees /\ u.bad = a.bad
      /\ BlackOrNull(u, Root(u))
  BY <1>2, <1>5, <1>6, RebalanceKept
<1>8. PICK b3 : Shape(u, t.count + 1, pos2, b3)
  BY <1>7 DEF Kept
<1>9. InNodes(u) = InNodes(a) /\ u.most_left = m /\ u.count = t.count + 1
  BY <1>4, <1>7 DEF Kept
<1>10. ASSUME First(t, pos) PROVE First(u, pos2)
  <2>1. t.most_left \in Inside(t) /\ pos[t.most_left] = 1
    BY <1>10 DEF First
  <2>2. Inside(u) = Inside(t) \cup {n}
    BY <1>5, <1>9 DEF Inside
  <2>3. pos[p] \in Int /\ 1 <= pos[p] /\ (pos[p] = 1 => p = t.most_left)
    <3>1. \A k \in Inside(t) : k \in InNodes(t) \/ k = Header
      BY DEF Inside
    <3>2. pos[p] \in 1 .. t.count + 1
      <4>1. CASE p = Header
        BY <1>1, <4>1 DEF Shape, Ranks
      <4>2. CASE p \in InNodes(t)
        <5>1. pos[p] \in 1 .. t.count
          BY <4>2 DEF Shape, Ranks
        <5> QED BY <1>1, <5>1
      <4> QED BY <1>2, <3>1, <4>1, <4>2
    <3>3. pos[p] = 1 => p = t.most_left
      BY <1>2, <2>1 DEF Shape, Ranks
    <3> QED BY <1>1, <3>2, <3>3
  <2>4. CASE d = "lchild" /\ p = t.most_left
    BY <1>3, <1>6, <1>9, <2>1, <2>2, <2>4 DEF First
  <2>5. CASE ~(d = "lchild" /\ p = t.most_left)
    <3>1. pos2[n] \in Int /\ pos2[n] > 1
      BY <1>6, <2>3, <2>5
    <3>2. pos2[t.most_left] = 1
      BY <1>6, <2>1, <3>1 DEF Room
    <3> QED BY <1>3, <1>9, <2>1, <2>2, <2>5, <3>2 DEF First
  <2> QED BY <2>4, <2>5
<1> QED BY <1>4, <1>5, <1>7, <1>8, <1>9, <1>10
---------------------------------------------------------------------------
(* A node leaves.                                                          *)

\* Numbers from q on close the gap.
Closed(v, q) == IF v >= q THEN v - 1 ELSE v

\* x takes the place of z, which has no other child.
Spliced(t, u, z, x) ==
    /\ \A f \in Sides, m \in Cells :
          u.child[f][m] = IF m = z THEN Null
                          ELSE IF t.child[f][m] = z THEN x
                          ELSE t.child[f][m]
    /\ \A m \in Cells :
          u.parent[m] = IF m = z THEN Null ELSE IF m = x THEN t.parent[z] ELSE t.parent[m]

LEMMA SpliceShape ==
    ASSUME NEW t, NEW c, NEW pos, NEW b, Shape(t, c, pos, b),
           NEW z \in InNodes(t), NEW g \in Sides, t.child[Opp(g)][z] = Null,
           NEW x, x = t.child[g][z], NEW u \in Trees, Spliced(t, u, z, x)
    PROVE  /\ InNodes(u) = InNodes(t) \ {z}
           /\ \E pos2, b2 :
                 /\ Shape(u, c - 1, pos2, b2)
                 /\ \A m \in Inside(u) : pos2[m] = Closed(pos[m], pos[z])
<1> DEFINE th == IF g = "lchild" THEN pos[z] + 1 ELSE pos[z]
           pos2 == [m \in Cells |-> Closed(pos[m], th)]
           b2 == [e \in Sides |-> [m \in Cells |-> Closed(b[e][m], th)]]
           q == t.parent[z]
           e == Side(t, z)
           o == Opp(g)
<1>1. /\ t \in Trees /\ c \in Nat
      /\ z \in Nodes /\ z \in Cells /\ z # Header /\ z # Null /\ z \in Inside(t)
      /\ g \in Sides /\ o \in Sides /\ g # o /\ Opp(o) = g /\ t.child[o][z] = Null
      /\ pos \in [Cells -> Int] /\ b \in [Sides -> [Cells -> Int]]
  BY NodeFacts, SideFacts DEF Shape, Ranks, Bounds, InNodes, Inside
<1>2. /\ q \in Inside(t) /\ q \in Cells /\ q # z /\ e \in Sides /\ t.child[e][q] = z
      /\ \A f \in Sides, m \in Inside(t) : t.child[f][m] = z <=> m = q /\ f = e
  <2>1. q \in Inside(t) /\ q \in Cells /\ q # z /\ e \in Sides /\ t.child[e][q] = z
        /\ \A f \in Sides : t.child[f][q] = z => f = e
    BY ParentFacts
  <2>2. \A f \in Sides, m \in Inside(t) : t.child[f][m] = z => m = q
    BY <1>1 DEF Shape, Linked
  <2> QED BY <2>1, <2>2
<1>3. /\ pos[Header] = c + 1 /\ Header \in Inside(t) /\ Header \in Cells
      /\ \A m \in InNodes(t) : pos[m] \in 1 .. c
      /\ \A m \in Inside(t) : m \in Cells /\ pos[m] \in 1 .. c + 1 /\ (m # z => pos[m] # pos[z])
      /\ pos[z] \in 1 .. c
  <2>1. pos[Header] = c + 1 /\ \A m \in InNodes(t) : pos[m] \in 1 .. c
    BY DEF Shape, Ranks
  <2>2. \A m \in Inside(t) : m \in Cells /\ (m \in InNodes(t) \/ m = Header)
    BY NodeFacts DEF Inside, InNodes
  <2>3. \A m \in Inside(t) : m # z => pos[m] # pos[z]
    BY <1>1 DEF Shape, Ranks
  <2> QED BY <1>1, <2>1, <2>2, <2>3, NodeFacts DEF Inside
<1>4. /\ th \in 1 .. c + 1 /\ (g = "lchild" => th = pos[z] + 1) /\ (g # "lchild" => th = pos[z])
  BY <1>1, <1>3
<1>5. /\ pos2 \in [Cells -> Int]
      /\ \A m \in Cells : pos2[m] = Closed(pos[m], th)
  BY <1>1, <1>4 DEF Closed
<1>6. /\ b2 \in [Sides -> [Cells -> Int]]
      /\ \A f \in Sides, m \in Cells : b2[f][m] = Closed(b[f][m], th)
  BY <1>1, <1>4 DEF Closed
<1>7. x # Null => /\ x \in InNodes(t) /\ x \in Inside(t) /\ x # z /\ x # q /\ t.parent[x] = z
                  /\ b[g][x] = b[g][z] /\ b[o][x] = pos[z]
  <2>1. x # Null => x \in InNodes(t) /\ x # z /\ t.parent[x] = z
                    /\ b[g][x] = b[g][z] /\ b[o][x] = pos[z]
    BY <1>1, ChildFacts
  <2>2. x # Null => x # q
    BY NoCycle
  <2> QED BY <2>1, <2>2 DEF Inside
<1>8. x \in Links
  BY <1>1 DEF Trees
<1> HIDE DEF th, pos2, b2, q, e, o
<1>9. \A f \in Sides, m \in Inside(t) :
         u.child[f][m] = IF m = z THEN Null ELSE IF m = q /\ f = e THEN x ELSE t.child[f][m]
  BY <1>2, <1>3 DEF Spliced
<1>10. \A m \in Cells :
          u.parent[m] = IF m = z THEN Null ELSE IF m = x THEN q ELSE t.parent[m]
  BY DEF Spliced, q
<1>11. InNodes(u) = InNodes(t) \ {z} /\ Inside(u) = Inside(t) \ {z}
  <2>1. \A m \in Nodes : u.parent[m] # Null <=> m # z /\ t.parent[m] # Null
    BY <1>2, <1>7, <1>10, NodeFacts DEF InNodes, InTree
  <2> QED BY <1>1, <2>1 DEF InNodes, InTree, Inside
<1>12. Linked(u)
  <2>1. u.parent[Header] = Null /\ u.child["rchild"][Header] = Null
    <3>1. t.parent[Header] = Null /\ t.child["rchild"][Header] = Null
      BY DEF Shape, Linked
    <3>2. Header # z /\ Header # x
      BY <1>1, <1>7, NodeFacts DEF InNodes
    <3>3. ~(Header = q /\ "rchild" = e)
      BY <1>1, <1>2, <3>1
    <3> QED BY <1>3, <1>9, <1>10, <3>1, <3>2, <3>3, SideFacts
  <2>2. ASSUME NEW m \in Inside(u), NEW f \in Sides, u.child[f][m] # Null
        PROVE  u.parent[u.child[f][m]] = m
    <3>1. m \in Inside(t) /\ m # z
      BY <1>11
    <3>2. CASE m = q /\ f = e
      <4>1. u.child[f][m] = x
        BY <1>9, <3>1, <3>2
      <4> QED BY <1>3, <1>7, <1>10, <2>2, <3>2, <4>1
    <3>3. CASE ~(m = q /\ f = e)
      <4>1. PICK w : w = t.child[f][m]
        OBVIOUS
      <4>2. u.child[f][m] = w /\ w # Null /\ w # z
        BY <1>2, <1>9, <2>2, <3>1, <3>3, <4>1
      <4>3. w \in InNodes(t) /\ t.parent[w] = m
        BY <3>1, <4>1, <4>2, ChildFacts
      <4>4. w # x
        BY <1>7, <3>1, <4>2, <4>3
      <4>5. w \in Cells
        BY <1>3, <4>3 DEF Inside
      <4> QED BY <1>10, <4>2, <4>3, <4>4, <4>5
    <3> QED BY <3>2, <3>3
  <2>3. ASSUME NEW m \in InNodes(u)
        PROVE  u.parent[m] \in Inside(u) /\ \E f \in Sides : u.child[f][u.parent[m]] = m
    <3>1. m \in InNodes(t) /\ m # z /\ m \in Cells /\ m # Null
      BY <1>3, <1>11, NodeFacts DEF Inside, InNodes
    <3>2. CASE m = x
      <4>1. u.parent[m] = q /\ u.child[e][q] = m
        BY <1>2, <1>9, <1>10, <3>1, <3>2
      <4> QED BY <1>2, <1>11, <4>1
    <3>3. CASE m # x
      <4>1. PICK f \in Sides : t.child[f][t.parent[m]] = m
        BY <3>1 DEF Shape, Linked
      <4>2. t.parent[m] \in Inside(t) /\ u.parent[m] = t.parent[m]
        BY <1>10, <3>1, <3>3 DEF Shape, Linked
      <4>3. t.parent[m] # z
        <5> SUFFICES ASSUME t.parent[m] = z PROVE FALSE
          OBVIOUS
        <5>1. f = g \/ f = o
          BY SideFacts DEF o
        <5> QED BY <1>1, <3>1, <3>3, <4>1, <5>1
      <4>4. u.child[f][t.parent[m]] = m
        BY <1>2, <1>9, <3>1, <4>1, <4>2, <4>3
      <4> QED BY <1>11, <4>2, <4>3, <4>4
    <3> QED BY <3>2, <3>3
  <2>4. ASSUME NEW m \in Nodes \ InNodes(u), NEW f \in Sides PROVE u.child[f][m] = Null
    <3>1. CASE m = z
      BY <1>1, <1>9, <3>1
    <3>2. CASE m # z
      <4>1. m \in Nodes \ InNodes(t) /\ m \in Cells
        BY <1>11, <3>2, NodeFacts
      <4>2. t.child[f][m] = Null
        BY <4>1 DEF Shape, Linked
      <4> QED BY <1>1, <3>2, <4>1, <4>2 DEF Spliced
    <3> QED BY <3>1, <3>2
  <2> QED BY <2>1, <2>2, <2>3, <2>4 DEF Linked
<1>13. Ranks(u, c - 1, pos2)
  <2>1. pos2[Header] = (c - 1) + 1
    <3>1. pos2[Header] = Closed(c + 1, th)
      BY <1>3, <1>5
    <3>2. c \in Int /\ th \in Int /\ c + 1 >= th
      BY <1>1, <1>4
    <3> QED BY <3>1, <3>2 DEF Closed
  <2>2. ASSUME NEW m \in InNodes(u) PROVE pos2[m] \in 1 .. (c - 1)
    <3>1. m \in Cells /\ pos[m] \in 1 .. c /\ pos[m] # pos[z]
      BY <1>3, <1>11 DEF Inside
    <3>2. pos2[m] = Closed(pos[m], th)
      BY <1>5, <3>1
    <3>3. /\ c \in Nat /\ pos[z] \in 1 .. c
          /\ th = pos[z] \/ th = pos[z] + 1
      BY <1>1, <1>3, <1>4
    <3> QED BY ONLY <3>1, <3>2, <3>3 DEF Closed
  <2>3. ASSUME NEW m \in Inside(u), NEW k \in Inside(u), pos2[m] = pos2[k] PROVE m = k
    <3>1. m \in Inside(t) /\ k \in Inside(t) /\ m # z /\ k # z
      BY <1>11
    <3>2. pos[m] # pos[z] /\ pos[k] # pos[z] /\ pos[m] \in Int /\ pos[k] \in Int /\ pos[z] \in Int
          /\ pos2[m] = Closed(pos[m], th) /\ pos2[k] = Closed(pos[k], th)
      BY <1>3, <1>5, <3>1
    <3>3. pos[m] = pos[k]
      <4>1. Closed(pos[m], th) = Closed(pos[k], th) /\ (th = pos[z] \/ th = pos[z] + 1)
        BY <1>4, <2>3, <3>2
      <4> QED BY <3>2, <4>1 DEF Closed
    <3> QED BY <3>1, <3>3 DEF Shape, Ranks
  <2>4. c - 1 = Cardinality(InNodes(u))
    <3>1. IsFiniteSet(InNodes(t)) /\ c = Cardinality(InNodes(t))
      BY CountFits
    <3> QED BY <1>11, <3>1, FS_RemoveElement
  <2> QED BY <1>5, <2>1, <2>2, <2>3, <2>4 DEF Ranks
\* Only a node below z has its bound at z.
<1>14. ASSUME NEW m \in Inside(t), m # z, t.child[g][m] = Null
       PROVE  ~Adjoins(g, pos[z], pos[m])
  <2>1. CASE g = "lchild"
    <3>1. t.child["rchild"][z] = Null /\ t.child["lchild"][m] = Null
      BY <1>1, <1>14, <2>1 DEF Opp, o
    <3>2. pos[m] # pos[z] + 1
      BY <1>1, <3>1 DEF Shape, Gaps
    <3> QED BY <1>3, <2>1, <3>2 DEF Adjoins
  <2>2. CASE g # "lchild"
    <3>1. t.child["lchild"][z] = Null /\ t.child["rchild"][m] = Null
      BY <1>1, <1>14, <2>2 DEF Opp, o, Sides
    <3>2. pos[z] # pos[m] + 1
      BY <1>1, <3>1 DEF Shape, Gaps
    <3> QED BY <1>3, <2>2, <3>2 DEF Adjoins
  <2> QED BY <2>1, <2>2
<1>15. Bounds(u, c - 1, pos2, b2)
  <2>1. b2["lchild"][Header] = 0 /\ b2["rchild"][Header] = (c - 1) + 2
    <3>1. b["lchild"][Header] = 0 /\ b["rchild"][Header] = c + 2
      BY DEF Shape, Bounds
    <3> QED BY <1>1, <1>3, <1>4, <1>6, <3>1, SideFacts DEF Closed
  <2>2. \A f \in Sides, m \in Inside(t) :
           /\ b[f][m] \in 0 .. c + 2 /\ Before(f, b[f][m], pos[m])
           /\ b2[f][m] = Closed(b[f][m], th) /\ pos2[m] = Closed(pos[m], th)
    BY <1>3, <1>5, <1>6 DEF Shape, Bounds
  <2>3. ASSUME NEW m \in Inside(t), m # z, Adjoins(g, pos[z], pos[m]) PROVE b[g][m] # pos[z]
    <3> SUFFICES ASSUME b[g][m] = pos[z] PROVE FALSE
      OBVIOUS
    <3>1. t.child[g][m] # Null
      BY <1>14, <2>3
    <3>2. PICK w : w = t.child[g][m]
      OBVIOUS
    <3>3. Before(g, pos[w], pos[m]) /\ Before(g, pos[z], pos[w]) /\ w \in InNodes(t)
      BY <3>1, <3>2, ChildFacts
    <3>4. pos[w] \in Int /\ pos[m] \in Int /\ pos[z] \in Int
      BY <1>3, <3>3
    <3> QED BY <2>3, <3>3, <3>4 DEF Before, Adjoins
  <2>4. ASSUME NEW m \in Inside(u), NEW f \in Sides
        PROVE  b2[f][m] \in 0 .. (c - 1) + 2 /\ Before(f, b2[f][m], pos2[m])
    <3>1. m \in Inside(t) /\ m # z
      BY <1>11
    <3>2. b[f][m] \in 0 .. c + 2 /\ Before(f, b[f][m], pos[m]) /\ pos[m] \in Int
          /\ b2[f][m] = Closed(b[f][m], th) /\ pos2[m] = Closed(pos[m], th) /\ pos[m] # pos[z]
      BY <1>3, <2>2, <3>1
    <3>3. b2[f][m] \in 0 .. (c - 1) + 2
      BY <1>1, <1>4, <3>2 DEF Closed
    <3>4. CASE f = "lchild"
      <4>1. CASE g = "lchild"
        <5>1. ~(b[f][m] = pos[z] /\ pos[m] = pos[z] + 1)
          <6> SUFFICES ASSUME b[f][m] = pos[z], pos[m] = pos[z] + 1 PROVE FALSE
            OBVIOUS
          <6>1. Adjoins(g, pos[z], pos[m])
            BY <1>3, <4>1 DEF Adjoins
          <6> QED BY <2>3, <3>1, <3>4, <4>1, <6>1
        <5> QED BY <1>3, <1>4, <3>2, <3>3, <3>4, <4>1, <5>1 DEF Closed, Before
      <4>2. CASE g # "lchild"
        BY <1>3, <1>4, <3>2, <3>3, <3>4, <4>2 DEF Closed, Before
      <4> QED BY <4>1, <4>2
    <3>5. CASE f # "lchild"
      <4>1. CASE g # "lchild"
        <5>1. ~(b[f][m] = pos[z] /\ pos[m] = pos[z] - 1)
          <6> SUFFICES ASSUME b[f][m] = pos[z], pos[m] = pos[z] - 1 PROVE FALSE
            OBVIOUS
          <6>1. Adjoins(g, pos[z], pos[m])
            BY <1>3, <4>1 DEF Adjoins
          <6>2. f = g
            BY <1>1, <3>5, <4>1 DEF Sides
          <6> QED BY <2>3, <3>1, <6>1, <6>2
        <5> QED BY <1>3, <1>4, <3>2, <3>3, <3>5, <4>1, <5>1 DEF Closed, Before
      <4>2. CASE g = "lchild"
        BY <1>3, <1>4, <3>2, <3>3, <3>5, <4>2 DEF Closed, Before
      <4> QED BY <4>1, <4>2
    <3> QED BY <3>4, <3>5
  \* The bounds of x become those of z.
  <2>5. Adjoins(o, b[o][z], pos[z])
    BY <1>1 DEF Shape, Bounds
  <2>6. Closed(pos[z], th) = Closed(b[o][z], th)
    <3>1. b[o][z] \in Int /\ pos[z] \in Int
      BY <1>1, <1>3, <2>2
    <3>2. CASE g = "lchild"
      <4>1. b[o][z] = pos[z] + 1
        BY <2>5, <3>2, SideFacts DEF Adjoins, o, Opp
      <4> QED BY <1>4, <3>1, <3>2, <4>1 DEF Closed
    <3>3. CASE g # "lchild"
      <4>1. b[o][z] = pos[z] - 1
        BY <2>5, <3>3 DEF Adjoins, o, Opp
      <4> QED BY <1>4, <3>1, <3>3, <4>1 DEF Closed
    <3> QED BY <3>2, <3>3
  <2>7. b[e][z] = b[e][q] /\ b[Opp(e)][z] = pos[q] /\ Opp(e) \in Sides
    BY <1>1, <1>2, ChildFacts, SideFacts
  <2>8. ASSUME NEW m \in Inside(u), NEW f \in Sides
        PROVE  IF u.child[f][m] = Null
               THEN Adjoins(f, b2[f][m], pos2[m])
               ELSE b2[f][u.child[f][m]] = b2[f][m] /\ b2[Opp(f)][u.child[f][m]] = pos2[m]
    <3>1. m \in Inside(t) /\ m # z
      BY <1>11
    <3>2. pos[m] \in Int /\ b[f][m] \in Int /\ pos2[m] = Closed(pos[m], th)
          /\ b2[f][m] = Closed(b[f][m], th) /\ pos[m] # pos[z] /\ pos[z] \in Int
      BY <1>3, <2>2, <3>1
    <3>3. CASE m = q /\ f = e /\ x # Null
      <4>1. u.child[f][m] = x
        BY <1>9, <3>1, <3>3
      <4>2. \A h \in Sides : b2[h][x] = Closed(b[h][z], th)
        <5>1. b2[g][x] = Closed(b[g][z], th) /\ b2[o][x] = Closed(pos[z], th)
          BY <1>1, <1>7, <2>2, <3>3
        <5>2. \A h \in Sides : h = g \/ h = o
          BY SideFacts DEF o
        <5> QED BY <2>6, <5>1, <5>2
      <4> QED BY <2>7, <3>2, <3>3, <4>1, <4>2
    <3>4. CASE m = q /\ f = e /\ x = Null
      <4>1. u.child[f][m] = Null
        BY <1>9, <3>1, <3>4
      <4>2. Adjoins(g, b[g][z], pos[z])
        BY <1>1, <3>4, BoundFacts
      <4>3. Adjoins(e, b[e][z], pos[z]) /\ Adjoins(Opp(e), b[Opp(e)][z], pos[z])
        <5>1. \A h \in Sides : h = g \/ h = o
          BY SideFacts DEF o
        <5> QED BY <1>2, <2>5, <2>7, <4>2, <5>1
      <4>4. Adjoins(e, b[e][q], pos[z]) /\ Adjoins(Opp(e), pos[q], pos[z])
        BY <2>7, <4>3
      <4>5. CASE e = "lchild"
        <5>1. b[e][q] = pos[z] - 1 /\ pos[q] = pos[z] + 1
          BY <4>4, <4>5, SideFacts DEF Adjoins, Opp
        <5> QED BY <1>4, <3>2, <3>4, <4>1, <4>5, <5>1 DEF Adjoins, Closed
      <4>6. CASE e # "lchild"
        <5>1. b[e][q] = pos[z] + 1 /\ pos[q] = pos[z] - 1
          BY <4>4, <4>6, SideFacts DEF Adjoins, Opp
        <5> QED BY <1>4, <3>2, <3>4, <4>1, <4>6, <5>1 DEF Adjoins, Closed
      <4> QED BY <4>5, <4>6
    <3>5. CASE ~(m = q /\ f = e)
      <4>1. PICK w : w = t.child[f][m]
        OBVIOUS
      <4>2. u.child[f][m] = w /\ w # z
        BY <1>2, <1>9, <3>1, <3>5, <4>1
      <4>3. CASE w # Null
        <5>1. w \in InNodes(t) /\ b[f][w] = b[f][m] /\ b[Opp(f)][w] = pos[m] /\ Opp(f) \in Sides
          BY <3>1, <4>1, <4>3, ChildFacts, SideFacts
        <5>2. b2[f][w] = Closed(b[f][w], th) /\ b2[Opp(f)][w] = Closed(b[Opp(f)][w], th)
          BY <2>2, <5>1 DEF Inside
        <5> QED BY <3>2, <4>2, <4>3, <5>1, <5>2
      <4>4. CASE w = Null
        <5>1. Adjoins(f, b[f][m], pos[m])
          BY <3>1, <4>1, <4>4, BoundFacts
        <5>2. f = g => ~Adjoins(g, pos[z], pos[m])
          BY <1>14, <3>1, <4>1, <4>4
        <5>3. CASE f = "lchild"
          <6>1. b[f][m] = pos[m] - 1
            BY <5>1, <5>3 DEF Adjoins
          <6>2. g = "lchild" => pos[m] # pos[z] + 1
            BY <3>2, <5>2, <5>3 DEF Adjoins
          <6>3. b2[f][m] = pos2[m] - 1
            BY <1>4, <3>2, <6>1, <6>2 DEF Closed
          <6> QED BY <4>2, <4>4, <5>3, <6>3 DEF Adjoins
        <5>4. CASE f # "lchild"
          <6>1. b[f][m] = pos[m] + 1
            BY <5>1, <5>4 DEF Adjoins
          <6>2. g # "lchild" => pos[m] # pos[z] - 1
            <7>1. g # "lchild" => f = g
              BY <1>1, <5>4 DEF Sides
            <7> QED BY <3>2, <5>2, <5>4, <7>1 DEF Adjoins
          <6>3. b2[f][m] = pos2[m] + 1
            BY <1>4, <3>2, <6>1, <6>2 DEF Closed
          <6> QED BY <4>2, <4>4, <5>4, <6>3 DEF Adjoins
        <5> QED BY <5>3, <5>4
      <4> QED BY <4>3, <4>4
    <3> QED BY <3>3, <3>4, <3>5
  <2> QED BY <1>6, <2>1, <2>4, <2>8 DEF Bounds
<1>16. Gaps(u, pos2)
  <2> SUFFICES ASSUME NEW m \in Inside(u), NEW k \in Inside(u), pos2[k] = pos2[m] + 1,
                      u.child["rchild"][m] = Null, u.child["lchild"][k] = Null
               PROVE  FALSE
    BY DEF Gaps
  <2>1. \A j \in Inside(u) : j \in Inside(t) /\ j # z /\ pos[j] \in Int /\ pos[j] # pos[z]
                             /\ pos2[j] = Closed(pos[j], th)
    BY <1>3, <1>5, <1>11
  <2>2. \A f \in Sides, j \in Inside(u) :
           u.child[f][j] = Null => t.child[f][j] = Null \/ (j = q /\ f = e /\ x = Null)
    BY <1>9, <2>1
  <2>3. t.child["rchild"][m] = Null \/ (m = q /\ e = "rchild" /\ x = Null)
    BY <2>2, SideFacts
  <2>4. t.child["lchild"][k] = Null \/ (k = q /\ e = "lchild" /\ x = Null)
    BY <2>2, SideFacts
  <2>5. x = Null => t.child["lchild"][z] = Null /\ t.child["rchild"][z] = Null
    <3>1. "lchild" \in {g, o} /\ "rchild" \in {g, o}
      BY <1>1, SideFacts DEF o
    <3> QED BY <1>1, <3>1
  <2>6. t.child["lchild"][z] = Null \/ t.child["rchild"][z] = Null
    <3>1. o = "lchild" \/ o = "rchild"
      BY <1>1 DEF Sides
    <3> QED BY <1>1, <3>1
  <2>7. x = Null /\ e = "rchild" => pos[q] = pos[z] - 1
    <3> SUFFICES ASSUME x = Null, e = "rchild" PROVE pos[q] = pos[z] - 1
      OBVIOUS
    <3>1. b["lchild"][z] = pos[q]
      BY <1>1, <1>2, ChildFacts, SideFacts DEF Opp
    <3>2. Adjoins("lchild", b["lchild"][z], pos[z])
      BY <1>1, <2>5, SideFacts DEF Shape, Bounds
    <3> QED BY <3>1, <3>2 DEF Adjoins
  <2>8. x = Null /\ e = "lchild" => pos[q] = pos[z] + 1
    <3> SUFFICES ASSUME x = Null, e = "lchild" PROVE pos[q] = pos[z] + 1
      OBVIOUS
    <3>1. b["rchild"][z] = pos[q]
      BY <1>1, <1>2, ChildFacts, SideFacts DEF Opp
    <3>2. Adjoins("rchild", b["rchild"][z], pos[z])
      BY <1>1, <2>5, SideFacts DEF Shape, Bounds
    <3> QED BY <3>1, <3>2, SideFacts DEF Adjoins
  <2>9. pos[z] \in Int
    BY <1>3
  <2>10. CASE pos[k] = pos[m] + 1
    <3>1. t.child["rchild"][m] # Null \/ t.child["lchild"][k] # Null
      BY <2>1, <2>10 DEF Shape, Gaps
    <3> QED BY <2>1, <2>3, <2>4, <2>7, <2>8, <2>9, <2>10, <3>1
  <2>11. CASE pos[k] # pos[m] + 1
    <3>1. pos[z] = pos[m] + 1 /\ pos[k] = pos[z] + 1
      BY <1>4, <2>1, <2>9, <2>11 DEF Closed
    <3>2. t.child["rchild"][m] # Null \/ t.child["lchild"][z] # Null
      BY <1>1, <2>1, <3>1 DEF Shape, Gaps
    <3>3. t.child["rchild"][z] # Null \/ t.child["lchild"][k] # Null
      BY <1>1, <2>1, <3>1 DEF Shape, Gaps
    <3> QED BY <2>3, <2>4, <2>5, <2>6, <3>2, <3>3, SideFacts
  <2> QED BY <2>10, <2>11
<1>17. Sorted(u, pos2)
  <2> SUFFICES ASSUME NEW m \in InNodes(u), NEW k \in InNodes(u), pos2[m] < pos2[k]
               PROVE  key(m) <= key(k)
    BY DEF Sorted
  <2>1. m \in InNodes(t) /\ k \in InNodes(t) /\ pos[m] \in Int /\ pos[k] \in Int
        /\ pos2[m] = Closed(pos[m], th) /\ pos2[k] = Closed(pos[k], th)
    BY <1>3, <1>5, <1>11 DEF Inside
  <2>2. pos[m] < pos[k]
    BY <1>4, <2>1 DEF Closed
  <2> QED BY <2>1, <2>2 DEF Shape, Sorted
<1>18. c - 1 \in Nat
  BY <1>1, <1>3
<1>19. Shape(u, c - 1, pos2, b2)
  BY <1>12, <1>13, <1>15, <1>16, <1>17, <1>18 DEF Shape
<1>20. ASSUME NEW m \in Inside(u) PROVE pos2[m] = Closed(pos[m], pos[z])
  <2>1. m \in Cells /\ pos[m] # pos[z] /\ pos[m] \in Int
    BY <1>3, <1>11
  <2> QED BY <1>3, <1>4, <1>5, <2>1 DEF Closed
<1> QED BY <1>11, <1>19, <1>20

\* y, which is not in the tree, takes the place of z.
Replaced(t, u, z, y) ==
    /\ \A f \in Sides, m \in Cells :
          u.child[f][m] = IF m = z THEN Null
                          ELSE IF m = y THEN t.child[f][z]
                          ELSE IF t.child[f][m] = z THEN y
                          ELSE t.child[f][m]
    /\ \A m \in Cells :
          u.parent[m] = IF m = z THEN Null
                        ELSE IF m = y THEN t.parent[z]
                        ELSE IF t.parent[m] = z THEN y
                        ELSE t.parent[m]

LEMMA ReplaceShape ==
    ASSUME NEW t, NEW c, NEW pos, NEW b, Shape(t, c, pos, b),
           NEW z \in InNodes(t), NEW y \in Nodes \ InNodes(t),
           \A m \in InNodes(t) : /\ pos[m] < pos[z] => key(m) <= key(y)
                                 /\ pos[z] < pos[m] => key(y) <= key(m),
           NEW u \in Trees, Replaced(t, u, z, y)
    PROVE  /\ InNodes(u) = (InNodes(t) \ {z}) \cup {y}
           /\ \E pos2, b2 :
                 /\ Shape(u, c, pos2, b2)
                 /\ pos2[y] = pos[z]
                 /\ \A m \in Inside(u) : m # y => pos2[m] = pos[m]
<1> DEFINE Old(m) == IF m = y THEN z ELSE m
           Now(m) == IF m = z THEN y ELSE m
           pos2 == [m \in Cells |-> pos[Old(m)]]
           b2 == [e \in Sides |-> [m \in Cells |-> b[e][Old(m)]]]
<1>1. /\ t \in Trees /\ c \in Nat
      /\ z \in Nodes /\ z \in Cells /\ z # Header /\ z # Null /\ z \in Inside(t)
      /\ y \in Nodes /\ y \in Cells /\ y # Header /\ y # Null /\ y \notin Inside(t) /\ y # z
      /\ pos \in [Cells -> Int] /\ b \in [Sides -> [Cells -> Int]]
      /\ Header \in Cells /\ Header \in Inside(t) /\ Inside(t) \subseteq Cells
  BY NodeFacts DEF Shape, Ranks, Bounds, InNodes, Inside
<1>2. t.parent[z] \in Inside(t) /\ t.parent[z] # z /\ \A f \in Sides : t.child[f][z] # z
  <2>1. t.parent[z] \in Inside(t) /\ t.parent[z] # z
    BY ParentFacts
  <2>2. \A f \in Sides : t.child[f][z] # z
    BY <1>1, ChildFacts
  <2> QED BY <2>1, <2>2
<1>3. \A m \in Cells : /\ Old(m) \in Cells /\ pos2[m] = pos[Old(m)]
                       /\ \A e \in Sides : b2[e][m] = b[e][Old(m)]
  BY <1>1
<1>4. pos2 \in [Cells -> Int] /\ b2 \in [Sides -> [Cells -> Int]]
  BY <1>1
<1>5. InNodes(u) = (InNodes(t) \ {z}) \cup {y} /\ Inside(u) = (Inside(t) \ {z}) \cup {y}
  <2>1. \A m \in Nodes : u.parent[m] # Null <=> m = y \/ (m # z /\ t.parent[m] # Null)
    BY <1>1, <1>2, NodeFacts DEF Replaced
  <2> QED BY <1>1, <2>1 DEF InNodes, InTree, Inside
<1>6. /\ \A m \in Inside(u) : m \in Cells /\ Old(m) \in Inside(t) /\ Now(Old(m)) = m
      /\ \A m \in Inside(t) : Now(m) \in Inside(u) /\ Old(Now(m)) = m
      /\ \A m \in InNodes(u) : Old(m) \in InNodes(t) /\ m \in Inside(u)
      /\ \A m, k \in Inside(u) : Old(m) = Old(k) => m = k
      /\ Now(Null) = Null /\ Old(Header) = Header /\ Now(Header) = Header
  BY <1>1, <1>5 DEF Inside
<1>7. \A f \in Sides, m \in Inside(u) :
         t.child[f][Old(m)] # y /\ u.child[f][m] = Now(t.child[f][Old(m)])
  <2>1. \A f \in Sides, m \in Inside(t) : t.child[f][m] # y
    BY <1>1, ChildFacts
  <2> QED BY <1>1, <1>2, <1>6, <2>1 DEF Replaced
<1>8. \A m \in InNodes(u) : u.parent[m] = Now(t.parent[Old(m)])
  BY <1>1, <1>2, <1>5, <1>6 DEF Replaced
<1>9. \A w : w \in InNodes(t) => Now(w) # Null /\ u.parent[Now(w)] = Now(t.parent[w])
  <2> SUFFICES ASSUME NEW w \in InNodes(t) PROVE Now(w) # Null /\ u.parent[Now(w)] = Now(t.parent[w])
    OBVIOUS
  <2>1. Now(w) \in InNodes(u) /\ Old(Now(w)) = w
    BY <1>1, <1>5
  <2> HIDE DEF Now, Old
  <2> QED BY <1>8, <2>1, NodeFacts DEF InNodes
<1>10. \A w : Now(w) = Null => w = Null
  BY <1>1
<1> HIDE DEF Old, Now, pos2, b2
<1>11. Linked(u)
  <2>1. u.parent[Header] = Null /\ u.child["rchild"][Header] = Null
    <3>1. t.parent[Header] = Null /\ t.child["rchild"][Header] = Null
      BY DEF Shape, Linked
    <3>2. Header \in Inside(u)
      BY DEF Inside
    <3> QED BY <1>1, <1>6, <1>7, <3>1, <3>2, SideFacts DEF Replaced
  <2>2. ASSUME NEW m \in Inside(u), NEW f \in Sides, u.child[f][m] # Null
        PROVE  u.parent[u.child[f][m]] = m
    <3>1. PICK w : w = t.child[f][Old(m)]
      OBVIOUS
    <3>2. u.child[f][m] = Now(w) /\ w # Null
      BY <1>6, <1>7, <2>2, <3>1
    <3>3. w \in InNodes(t) /\ t.parent[w] = Old(m)
      BY <1>6, <3>1, <3>2, ChildFacts
    <3> QED BY <1>6, <1>9, <3>2, <3>3
  <2>3. ASSUME NEW m \in InNodes(u)
        PROVE  u.parent[m] \in Inside(u) /\ \E f \in Sides : u.child[f][u.parent[m]] = m
    <3>1. PICK k : k = Old(m)
      OBVIOUS
    <3>2. k \in InNodes(t) /\ m = Now(k) /\ u.parent[m] = Now(t.parent[k])
      BY <1>6, <1>8, <3>1
    <3>3. PICK f \in Sides : t.child[f][t.parent[k]] = k
      BY <3>2 DEF Shape, Linked
    <3>4. t.parent[k] \in Inside(t)
      BY <3>2 DEF Shape, Linked
    <3>5. Now(t.parent[k]) \in Inside(u) /\ Old(Now(t.parent[k])) = t.parent[k]
      BY <1>6, <3>4
    <3>6. u.child[f][Now(t.parent[k])] = m
      BY <1>7, <3>2, <3>3, <3>5
    <3> QED BY <3>2, <3>5, <3>6
  <2>4. ASSUME NEW m \in Nodes \ InNodes(u), NEW f \in Sides PROVE u.child[f][m] = Null
    <3>1. CASE m = z
      BY <1>1, <3>1 DEF Replaced
    <3>2. CASE m # z
      <4>1. m \in Nodes \ InNodes(t) /\ m \in Cells /\ m # y
        BY <1>5, <3>2, NodeFacts
      <4>2. t.child[f][m] = Null
        BY <4>1 DEF Shape, Linked
      <4> QED BY <1>1, <3>2, <4>1, <4>2 DEF Replaced
    <3> QED BY <3>1, <3>2
  <2> QED BY <2>1, <2>2, <2>3, <2>4 DEF Linked
<1>12. Ranks(u, c, pos2)
  <2>1. pos2[Header] = c + 1
    BY <1>1, <1>3, <1>6 DEF Shape, Ranks
  <2>2. \A m \in InNodes(u) : pos2[m] \in 1 .. c
    <3>1. \A m \in InNodes(t) : pos[m] \in 1 .. c
      BY DEF Shape, Ranks
    <3> QED BY <1>3, <1>6, <3>1
  <2>3. ASSUME NEW m \in Inside(u), NEW k \in Inside(u), pos2[m] = pos2[k] PROVE m = k
    <3>1. Old(m) \in Inside(t) /\ Old(k) \in Inside(t) /\ pos[Old(m)] = pos[Old(k)]
      BY <1>3, <1>6, <2>3
    <3>2. Old(m) = Old(k)
      BY <3>1 DEF Shape, Ranks
    <3> QED BY <1>6, <3>2
  <2>4. c = Cardinality(InNodes(u))
    <3>1. IsFiniteSet(InNodes(t)) /\ c = Cardinality(InNodes(t))
      BY CountFits
    <3>2. IsFiniteSet(InNodes(t) \ {z}) /\ Cardinality(InNodes(t) \ {z}) = c - 1
      BY <3>1, FS_RemoveElement
    <3>3. y \notin InNodes(t) \ {z}
      OBVIOUS
    <3>4. Cardinality((InNodes(t) \ {z}) \cup {y}) = (c - 1) + 1
      BY <3>2, <3>3, FS_AddElement
    <3> QED BY <1>1, <1>5, <3>4
  <2> QED BY <1>4, <2>1, <2>2, <2>3, <2>4 DEF Ranks
<1>13. Bounds(u, c, pos2, b2)
  <2>1. b2["lchild"][Header] = 0 /\ b2["rchild"][Header] = c + 2
    BY <1>1, <1>3, <1>6, SideFacts DEF Shape, Bounds
  <2>2. ASSUME NEW m \in Inside(u), NEW f \in Sides
        PROVE  b2[f][m] \in 0 .. c + 2 /\ Before(f, b2[f][m], pos2[m])
    <3>1. Old(m) \in Inside(t) /\ pos2[m] = pos[Old(m)] /\ b2[f][m] = b[f][Old(m)]
      BY <1>3, <1>6
    <3> QED BY <3>1 DEF Shape, Bounds
  <2>3. ASSUME NEW m \in Inside(u), NEW f \in Sides
        PROVE  IF u.child[f][m] = Null
               THEN Adjoins(f, b2[f][m], pos2[m])
               ELSE b2[f][u.child[f][m]] = b2[f][m] /\ b2[Opp(f)][u.child[f][m]] = pos2[m]
    <3>1. Old(m) \in Inside(t) /\ pos2[m] = pos[Old(m)] /\ b2[f][m] = b[f][Old(m)]
      BY <1>3, <1>6
    <3>2. PICK w : w = t.child[f][Old(m)]
      OBVIOUS
    <3>3. u.child[f][m] = Now(w)
      BY <1>7, <3>2
    <3>4. CASE w = Null
      <4>1. Adjoins(f, b[f][Old(m)], pos[Old(m)])
        BY <3>1, <3>2, <3>4 DEF Shape, Bounds
      <4> QED BY <1>6, <3>1, <3>3, <3>4, <4>1
    <3>5. CASE w # Null
      <4>1. w \in InNodes(t) /\ b[f][w] = b[f][Old(m)] /\ b[Opp(f)][w] = pos[Old(m)]
        BY <3>1, <3>2, <3>5, ChildFacts
      <4>2. Now(w) \in Cells /\ Old(Now(w)) = w /\ Opp(f) \in Sides
        BY <1>6, <4>1, SideFacts DEF Inside
      <4>3. b2[f][Now(w)] = b[f][w] /\ b2[Opp(f)][Now(w)] = b[Opp(f)][w]
        BY <1>3, <4>2
      <4> QED BY <1>10, <3>1, <3>3, <3>5, <4>1, <4>3
    <3> QED BY <3>4, <3>5
  <2> QED BY <1>4, <2>1, <2>2, <2>3 DEF Bounds
<1>14. Gaps(u, pos2)
  <2> SUFFICES ASSUME NEW m \in Inside(u), NEW k \in Inside(u), pos2[k] = pos2[m] + 1
               PROVE  u.child["rchild"][m] # Null \/ u.child["lchild"][k] # Null
    BY DEF Gaps
  <2>1. Old(m) \in Inside(t) /\ Old(k) \in Inside(t) /\ pos[Old(k)] = pos[Old(m)] + 1
    BY <1>3, <1>6
  <2>2. t.child["rchild"][Old(m)] # Null \/ t.child["lchild"][Old(k)] # Null
    BY <2>1 DEF Shape, Gaps
  <2> QED BY <1>7, <1>10, <2>2, SideFacts
<1>15. Sorted(u, pos2)
  <2> SUFFICES ASSUME NEW m \in InNodes(u), NEW k \in InNodes(u), pos2[m] < pos2[k]
               PROVE  key(m) <= key(k)
    BY DEF Sorted
  <2>1. Old(m) \in InNodes(t) /\ Old(k) \in InNodes(t) /\ pos[Old(m)] < pos[Old(k)]
    BY <1>3, <1>6
  <2>2. CASE m # y /\ k # y
    BY <2>1, <2>2 DEF Shape, Sorted, Old
  <2>3. CASE m = y /\ k # y
    BY <2>1, <2>3 DEF Old
  <2>4. CASE m # y /\ k = y
    BY <2>1, <2>4 DEF Old
  <2>5. CASE m = y /\ k = y
    <3>1. pos[z] \in Int /\ Old(m) = z /\ Old(k) = z
      BY <1>1, <2>5 DEF Old
    <3> QED BY <2>1, <3>1
  <2> QED BY <2>2, <2>3, <2>4, <2>5
<1>16. Shape(u, c, pos2, b2)
  BY <1>1, <1>11, <1>12, <1>13, <1>14, <1>15 DEF Shape
<1>17. pos2[y] = pos[z] /\ \A m \in Inside(u) : m # y => pos2[m] = pos[m]
  BY <1>1, <1>3, <1>6 DEF Old
<1> QED BY <1>5, <1>16, <1>17

\* A cell lies between its bounds, and a child has less room than its parent.
LEMMA WidthFacts ==
    ASSUME NEW t, NEW c, NEW pos, NEW b, Shape(t, c, pos, b), NEW n \in Inside(t)
    PROVE  /\ pos[n] \in Int /\ b["lchild"][n] \in Int /\ b["rchild"][n] \in Int
           /\ 0 <= b["lchild"][n] /\ b["lchild"][n] < pos[n]
           /\ pos[n] < b["rchild"][n] /\ b["rchild"][n] <= c + 2
           /\ \A d \in Sides :
                 t.child[d][n] # Null =>
                    b["rchild"][t.child[d][n]] - b["lchild"][t.child[d][n]]
                       < b["rchild"][n] - b["lchild"][n]
<1>1. c \in Nat /\ n \in Cells /\ pos \in [Cells -> Int] /\ b \in [Sides -> [Cells -> Int]]
  BY NodeFacts DEF Shape, Ranks, Bounds, Inside, InNodes
<1>2. /\ b["lchild"][n] \in 0 .. c + 2 /\ Before("lchild", b["lchild"][n], pos[n])
      /\ b["rchild"][n] \in 0 .. c + 2 /\ Before("rchild", b["rchild"][n], pos[n])
  BY SideFacts DEF Shape, Bounds
<1>3. b["lchild"][n] < pos[n] /\ pos[n] < b["rchild"][n]
  BY <1>2, SideFacts DEF Before
<1>4. ASSUME NEW d \in Sides, t.child[d][n] # Null
      PROVE  b["rchild"][t.child[d][n]] - b["lchild"][t.child[d][n]]
                < b["rchild"][n] - b["lchild"][n]
  <2>1. PICK m : m = t.child[d][n]
    OBVIOUS
  <2>2. b[d][m] = b[d][n] /\ b[Opp(d)][m] = pos[n]
    BY <1>4, <2>1, ChildFacts
  <2>3. CASE d = "lchild"
    <3>1. b["lchild"][m] = b["lchild"][n] /\ b["rchild"][m] = pos[n]
      BY <2>2, <2>3, SideFacts DEF Opp
    <3> QED BY <1>1, <1>2, <1>3, <2>1, <3>1
  <2>4. CASE d # "lchild"
    <3>1. b["rchild"][m] = b["rchild"][n] /\ b["lchild"][m] = pos[n]
      BY <2>2, <2>4, SideFacts DEF Opp, Sides
    <3> QED BY <1>1, <1>2, <1>3, <2>1, <3>1
  <2> QED BY <2>3, <2>4
<1> QED BY <1>1, <1>2, <1>3, <1>4

\* The last node on a side is the one next to the bound on that side.
LEMMA FarFacts ==
    ASSUME NEW t, NEW c, NEW pos, NEW b, Shape(t, c, pos, b),
           NEW n \in InNodes(t), NEW d \in Sides, NEW w, w = Far(t, n, d)
    PROVE  /\ w \in InNodes(t) /\ t.child[d][w] = Null /\ b[d][w] = b[d][n]
           /\ Adjoins(d, b[d][n], pos[w])
<1> DEFINE width(m) == b["rchild"][m] - b["lchild"][m]
           R == {p \in Nat \X Nodes :
                    /\ p[2] \in InNodes(t) /\ b[d][p[2]] = b[d][n]
                    /\ t.child[d][p[2]] = Null \/ width(p[2]) <= p[1] + 2}
           f == FarStep(t, d)
<1>1. \A m \in Nodes : f[m] = IF t.child[d][m] = Null THEN m ELSE t.child[d][m]
  BY DEF FarStep
<1>2. n \in Nodes /\ c \in Nat /\ c <= MaxNodes /\ MaxNodes \in Nat
  BY CountFits, NodeFacts DEF InNodes, Shape
<1>3. \A m \in InNodes(t) : width(m) \in Int /\ width(m) >= 2 /\ width(m) <= c + 2 /\ m \in Inside(t)
  <2> SUFFICES ASSUME NEW m \in InNodes(t)
               PROVE  width(m) \in Int /\ width(m) >= 2 /\ width(m) <= c + 2 /\ m \in Inside(t)
    OBVIOUS
  <2>1. m \in Inside(t)
    BY DEF Inside
  <2>2. /\ pos[m] \in Int /\ b["lchild"][m] \in Int /\ b["rchild"][m] \in Int
        /\ 0 <= b["lchild"][m] /\ b["lchild"][m] < pos[m]
        /\ pos[m] < b["rchild"][m] /\ b["rchild"][m] <= c + 2
    BY <2>1, WidthFacts
  <2> QED BY <1>2, <2>1, <2>2
<1>4. ASSUME NEW m \in InNodes(t), t.child[d][m] # Null
      PROVE  /\ t.child[d][m] \in InNodes(t) /\ b[d][t.child[d][m]] = b[d][m]
             /\ width(t.child[d][m]) < width(m)
  <2>1. m \in Inside(t)
    BY DEF Inside
  <2>2. t.child[d][m] \in InNodes(t) /\ b[d][t.child[d][m]] = b[d][m]
    BY <1>4, <2>1, ChildFacts
  <2>3. width(t.child[d][m]) < width(m)
    BY <1>4, <2>1, WidthFacts
  <2> QED BY <2>2, <2>3
<1> HIDE DEF width, f
<1>5. <<MaxNodes, n>> \in R
  BY <1>2, <1>3
<1>6. \A y : <<0, y>> \in R => t.child[d][y] = Null /\ f[y] = y
  <2> SUFFICES ASSUME NEW y \in Nodes, y \in InNodes(t), width(y) <= 0 + 2, t.child[d][y] # Null
               PROVE  FALSE
    BY <1>1
  <2>1. t.child[d][y] \in InNodes(t) /\ width(t.child[d][y]) < width(y)
    BY <1>4
  <2> QED BY <1>3, <2>1
<1>7. \A i \in Nat : \A y : <<i + 1, y>> \in R => <<i, f[y]>> \in R
  <2> SUFFICES ASSUME NEW i \in Nat, NEW y \in Nodes, <<i + 1, y>> \in R
               PROVE  <<i, f[y]>> \in R
    OBVIOUS
  <2>1. y \in InNodes(t) /\ b[d][y] = b[d][n]
        /\ (t.child[d][y] = Null \/ width(y) <= i + 3)
    OBVIOUS
  <2>2. CASE t.child[d][y] = Null
    BY <1>1, <2>1, <2>2
  <2>3. CASE t.child[d][y] # Null
    <3>1. PICK m : m = t.child[d][y]
      OBVIOUS
    <3>2. m \in InNodes(t) /\ b[d][m] = b[d][y] /\ width(m) < width(y) /\ f[y] = m
      BY <1>1, <1>4, <2>1, <2>3, <3>1
    <3>3. width(m) <= i + 2 /\ m \in Nodes
      BY <1>3, <2>1, <2>3, <3>2 DEF InNodes
    <3> QED BY <2>1, <3>2, <3>3
  <2> QED BY <2>2, <2>3
<1>8. <<0, w>> \in R
  <2>1. \A y : <<0, y>> \in R => <<0, f[y]>> \in R
    BY <1>6
  <2>2. MaxNodes \in Nat /\ MaxNodes <= MaxNodes
    BY <1>2
  <2> HIDE DEF R
  <2>3. <<0, Iterate(f, n, MaxNodes)>> \in R
    BY <1>5, <1>7, <2>1, <2>2, LoopRule
  <2> QED BY <2>3 DEF Far, f
<1>9. w \in InNodes(t) /\ t.child[d][w] = Null /\ b[d][w] = b[d][n]
  BY <1>6, <1>8
<1>10. Adjoins(d, b[d][w], pos[w])
  BY <1>9 DEF Shape, Bounds, Inside
<1> QED BY <1>9, <1>10

LEMMA FreedFields ==
    ASSUME NEW t \in Trees, NEW z \in Nodes
    PROVE  LET u == Freed(t, z)
           IN  /\ u \in Trees /\ u.count = t.count /\ u.bad = t.bad /\ u.most_left = t.most_left
               /\ \A f \in Sides, m \in Cells :
                     u.child[f][m] = IF m = z THEN Null ELSE t.child[f][m]
               /\ \A m \in Cells : u.parent[m] = IF m = z THEN Null ELSE t.parent[m]
               /\ \A m \in Cells : u.color[m] = IF m = z THEN "black" ELSE t.color[m]
<1>1. PICK u : u = Freed(t, z)
  OBVIOUS
<1>2. PICK c1 : c1 = [t.child EXCEPT !["lchild"][z] = Null]
  OBVIOUS
<1>3. PICK c2 : c2 = [c1 EXCEPT !["rchild"][z] = Null]
  OBVIOUS
<1>4. z \in Cells /\ Null \in Links
  BY NodeFacts
<1>5. /\ t.child \in [Sides -> [Cells -> Links]] /\ t.parent \in [Cells -> Cells \cup {Null}]
      /\ t.color \in [Cells -> {"red", "black"}]
  BY DEF Trees
<1>6. /\ c1 \in [Sides -> [Cells -> Links]]
      /\ \A f \in Sides, m \in Cells :
            c1[f][m] = IF f = "lchild" /\ m = z THEN Null ELSE t.child[f][m]
  BY <1>2, <1>4, <1>5, SideFacts, ChildExcept
<1>7. /\ c2 \in [Sides -> [Cells -> Links]]
      /\ \A f \in Sides, m \in Cells :
            c2[f][m] = IF f = "rchild" /\ m = z THEN Null ELSE c1[f][m]
  BY <1>3, <1>4, <1>6, SideFacts, ChildExcept
<1>8. u = [t EXCEPT !.child = c2, !.parent[z] = Null, !.color[z] = "black"]
  <2>1. PICK t1 : t1 = [t EXCEPT !.child["lchild"][z] = Null]
    OBVIOUS
  <2>2. t1 = [t EXCEPT !.child = c1]
    BY <1>2, <2>1
  <2>3. PICK t2 : t2 = [t1 EXCEPT !.child["rchild"][z] = Null]
    OBVIOUS
  <2>4. t2 = [t EXCEPT !.child = c2]
    BY <1>3, <2>2, <2>3 DEF Trees
  <2>5. u = [t2 EXCEPT !.parent[z] = Null, !.color[z] = "black"]
    BY <1>1, <2>1, <2>3 DEF Freed
  <2>6. t2.parent = t.parent /\ t2.color = t.color
    BY <2>4 DEF Trees
  <2> HIDE <2>1, <2>3
  <2> QED BY <2>4, <2>5, <2>6 DEF Trees
<1>9. u.child = c2 /\ u.parent = [t.parent EXCEPT ![z] = Null]
      /\ u.color = [t.color EXCEPT ![z] = "black"]
      /\ u.count = t.count /\ u.bad = t.bad /\ u.most_left = t.most_left
  BY <1>8 DEF Trees
<1>10. u \in Trees
  BY <1>5, <1>7, <1>8 DEF Trees
<1>11. \A f \in Sides, m \in Cells :
          u.child[f][m] = IF m = z THEN Null ELSE t.child[f][m]
  BY <1>6, <1>7, <1>9 DEF Sides
<1>12. /\ \A m \in Cells : u.parent[m] = IF m = z THEN Null ELSE t.parent[m]
       /\ \A m \in Cells : u.color[m] = IF m = z THEN "black" ELSE t.color[m]
  BY <1>5, <1>9
<1> QED BY <1>1, <1>9, <1>10, <1>11, <1>12

\* destroy_rebalance, of a node with one child at most.
SplicedOut(t, u, z, x) ==
    /\ u \in Trees /\ Spliced(t, u, z, x)
    /\ u.count = t.count /\ u.bad = t.bad
    /\ \A m \in Cells : u.color[m] = IF m = z THEN "black" ELSE t.color[m]

LEMMA UnlinkOneFacts ==
    ASSUME NEW t, NEW c, NEW pos, NEW b, Shape(t, c, pos, b), NEW z \in InNodes(t),
           NEW g \in Sides, t.child[Opp(g)][z] = Null,
           NEW x, x = t.child[g][z], NEW u, u = Freed(UnlinkOne(t, z, x), z)
    PROVE  SplicedOut(t, u, z, x)
<1> DEFINE q == t.parent[z]
           e == Side(t, z)
<1>1. t \in Trees /\ z \in Nodes /\ z \in Cells /\ x \in Links
  BY NodeFacts DEF InNodes, Shape, Trees
<1>2. /\ q \in Inside(t) /\ q \in Cells /\ q # z /\ e \in Sides /\ t.child[e][q] = z
      /\ \A f \in Sides, m \in Cells : t.child[f][m] = z <=> m = q /\ f = e
  <2>1. q \in Inside(t) /\ q \in Cells /\ q # z /\ e \in Sides /\ t.child[e][q] = z
        /\ \A f \in Sides : t.child[f][q] = z => f = e
    BY ParentFacts
  <2>2. ASSUME NEW f \in Sides, NEW m \in Cells, t.child[f][m] = z PROVE m = q
    <3>1. z # Null
      BY <1>1, NodeFacts
    <3>2. m \in Inside(t)
      <4>1. m \in Nodes \/ m = Header
        BY DEF Cells
      <4> QED BY <2>2, <3>1, <4>1 DEF Shape, Linked, Inside
    <3> QED BY <2>2, <3>1, <3>2 DEF Shape, Linked
  <2> QED BY <2>1, <2>2
<1>3. x # z
  BY <1>1, ChildFacts, NodeFacts DEF Inside
<1>4. PICK ml : ml = IF ~(z = t.most_left /\ t.child["lchild"][z] = Null) THEN t.most_left
                     ELSE IF x # Null THEN x ELSE q
  OBVIOUS
<1>5. ml \in Cells
  BY <1>1, <1>2, <1>4, NodeFacts DEF Trees
<1>6. PICK v : v = [t EXCEPT !.child[e][q] = x, !.most_left = ml]
  OBVIOUS
<1>7. UnlinkOne(t, z, x) = SetParent(v, x, q)
  BY <1>1, <1>4, <1>6 DEF UnlinkOne, Trees
<1>8. PICK w : w = SetParent(v, x, q)
  OBVIOUS
<1>9. u = Freed(w, z)
  BY <1>7, <1>8
<1> HIDE DEF q, e
<1>10. /\ v \in Trees /\ v.parent = t.parent /\ v.color = t.color
       /\ v.count = t.count /\ v.bad = t.bad
       /\ \A f \in Sides, m \in Cells :
             v.child[f][m] = IF f = e /\ m = q THEN x ELSE t.child[f][m]
  <2>1. t.child \in [Sides -> [Cells -> Links]]
    BY <1>1 DEF Trees
  <2>2. PICK ch : ch = [t.child EXCEPT ![e][q] = x]
    OBVIOUS
  <2>3. /\ ch \in [Sides -> [Cells -> Links]]
        /\ \A f \in Sides, m \in Cells :
              ch[f][m] = IF f = e /\ m = q THEN x ELSE t.child[f][m]
    BY <1>1, <1>2, <2>1, <2>2, ChildExcept
  <2>4. v = [t EXCEPT !.child = ch, !.most_left = ml]
    BY <1>1, <1>6, <2>2 DEF Trees
  <2>5. v.child = ch /\ v \in Trees /\ v.parent = t.parent /\ v.color = t.color
       /\ v.count = t.count /\ v.bad = t.bad
    BY <1>1, <1>5, <2>3, <2>4 DEF Trees
  <2> QED BY <2>3, <2>5
<1>11. /\ w \in Trees /\ w.child = v.child /\ w.color = v.color
       /\ w.count = v.count /\ w.bad = v.bad
       /\ \A m \in Cells : w.parent[m] = IF m = x THEN q ELSE v.parent[m]
  BY <1>1, <1>2, <1>8, <1>10, SetParentFields
<1> HIDE <1>6, <1>8
<1>12. /\ u \in Trees /\ u.count = w.count /\ u.bad = w.bad
       /\ \A f \in Sides, m \in Cells :
             u.child[f][m] = IF m = z THEN Null ELSE w.child[f][m]
       /\ \A m \in Cells : u.parent[m] = IF m = z THEN Null ELSE w.parent[m]
       /\ \A m \in Cells : u.color[m] = IF m = z THEN "black" ELSE w.color[m]
  <2> HIDE <1>7
  <2> QED BY <1>1, <1>9, <1>11, FreedFields
<1>13. \A f \in Sides, m \in Cells :
          u.child[f][m] = IF m = z THEN Null
                          ELSE IF t.child[f][m] = z THEN x
                          ELSE t.child[f][m]
  BY <1>2, <1>10, <1>11, <1>12
<1>14. \A m \in Cells :
          u.parent[m] = IF m = z THEN Null ELSE IF m = x THEN t.parent[z] ELSE t.parent[m]
  BY <1>10, <1>11, <1>12 DEF q
<1>15. Spliced(t, u, z, x)
  BY <1>13, <1>14 DEF Spliced
<1> QED BY <1>10, <1>11, <1>12, <1>15 DEF SplicedOut

\* The node y that takes the place of z, which has two children.
Below(t, pos, z, left, right, y) ==
    /\ left \in InNodes(t) /\ right \in InNodes(t) /\ y \in InNodes(t)
    /\ t.child["lchild"][y] = Null /\ pos[y] = pos[z] + 1
    /\ y # z /\ y # left /\ y # t.parent[z] /\ left # right
    /\ y = right <=> t.parent[y] = z
    /\ y # right => /\ t.parent[y] \in InNodes(t) /\ t.child["lchild"][t.parent[y]] = y
                    /\ right # t.child["rchild"][y]
    /\ left # t.child["rchild"][y]

LEMMA NextBelow ==
    ASSUME NEW t, NEW c, NEW pos, NEW b, Shape(t, c, pos, b), NEW z \in InNodes(t),
           NEW left, left = t.child["lchild"][z], left # Null,
           NEW right, right = t.child["rchild"][z], right # Null,
           NEW y, y = Far(t, right, "lchild")
    PROVE  Below(t, pos, z, left, right, y)
<1>1. z \in Inside(t) /\ "lchild" \in Sides /\ "rchild" \in Sides
      /\ Opp("lchild") = "rchild" /\ Opp("rchild") = "lchild"
  BY SideFacts DEF Opp, Inside
<1>2. left \in InNodes(t) /\ t.parent[left] = z /\ Before("lchild", pos[left], pos[z]) /\ left # right
  BY <1>1, ChildFacts
<1>3. right \in InNodes(t) /\ t.parent[right] = z /\ Before("rchild", pos[right], pos[z])
      /\ b["lchild"][right] = pos[z] /\ b["rchild"][right] = b["rchild"][z]
  BY <1>1, ChildFacts
<1>4. y \in InNodes(t) /\ t.child["lchild"][y] = Null /\ b["lchild"][y] = pos[z]
      /\ Adjoins("lchild", pos[z], pos[y])
  BY <1>1, <1>3, FarFacts
<1>5. /\ pos[z] \in Int /\ pos[y] \in Int /\ pos[left] \in Int /\ pos[right] \in Int /\ 1 <= pos[z]
      /\ b["rchild"][z] \in Int
  <2>1. \A m \in InNodes(t) : pos[m] \in 1 .. c /\ c \in Nat
    BY DEF Shape, Ranks
  <2>2. b["rchild"][z] \in Int
    BY <1>1, WidthFacts
  <2> QED BY <1>2, <1>3, <1>4, <2>1, <2>2
<1>6. pos[y] = pos[z] + 1 /\ pos[left] < pos[z] /\ pos[z] < pos[right]
  BY <1>2, <1>3, <1>4, <1>5, SideFacts DEF Adjoins, Before
<1>7. y # z /\ y # left
  BY <1>5, <1>6
<1>8. y # t.parent[z]
  <2> SUFFICES ASSUME y = t.parent[z] PROVE FALSE
    OBVIOUS
  <2>1. Side(t, z) \in Sides /\ t.child[Side(t, z)][y] = z
    BY ParentFacts
  <2>2. y \in Inside(t) /\ z # Null
    BY <1>4, NodeFacts DEF Inside, InNodes
  <2>3. CASE Side(t, z) = "lchild"
    BY <1>4, <2>1, <2>2, <2>3
  <2>4. CASE Side(t, z) = "rchild"
    <3>1. Before("rchild", pos[z], pos[y])
      BY <1>1, <2>1, <2>2, <2>4, ChildFacts
    <3> QED BY <1>5, <1>6, <3>1, SideFacts DEF Before
  <2> QED BY <2>1, <2>3, <2>4 DEF Sides
<1>9. PICK p, e : p = t.parent[y] /\ e = Side(t, y)
  OBVIOUS
<1>10. p \in Inside(t) /\ e \in Sides /\ t.child[e][p] = y /\ y # Null /\ y \in Inside(t)
  BY <1>4, <1>9, ParentFacts, NodeFacts DEF InNodes, Inside
<1>11. e = "rchild" => p = z
  <2> SUFFICES ASSUME e = "rchild" PROVE p = z
    OBVIOUS
  <2>1. b["lchild"][y] = pos[p]
    BY <1>1, <1>10, ChildFacts
  <2> QED BY <1>1, <1>4, <1>10, <2>1 DEF Shape, Ranks
<1>12. e = "lchild" => p # z /\ p \in InNodes(t)
  <2> SUFFICES ASSUME e = "lchild" PROVE p # z /\ p \in InNodes(t)
    OBVIOUS
  <2>1. Before("lchild", pos[y], pos[p]) /\ b["lchild"][y] = b["lchild"][p]
    BY <1>1, <1>10, ChildFacts
  <2>2. p # z
    BY <1>5, <1>6, <2>1 DEF Before
  <2>3. p # Header
    <3>1. b["lchild"][Header] = 0
      BY DEF Shape, Bounds
    <3> QED BY <1>4, <1>5, <2>1, <3>1
  <2> QED BY <1>10, <2>2, <2>3 DEF Inside
<1>13. y = right <=> p = z
  <2>1. p = z => e = "rchild"
    BY <1>10, <1>12 DEF Sides
  <2> QED BY <1>3, <1>9, <1>10, <2>1
<1>14. y # right => e = "lchild"
  BY <1>10, <1>11, <1>13 DEF Sides
<1>15. y # right => right # t.child["rchild"][y]
  <2> SUFFICES ASSUME y # right, right = t.child["rchild"][y] PROVE FALSE
    OBVIOUS
  <2>1. "rchild" \in Sides /\ y \in Inside(t) /\ right # Null
    BY <1>1, <1>10
  <2>2. t.parent[right] = y
    BY <2>1, ChildNamed
  <2> QED BY <1>3, <1>7, <2>2
<1>16. left # t.child["rchild"][y]
  <2> SUFFICES ASSUME left = t.child["rchild"][y] PROVE FALSE
    OBVIOUS
  <2>1. t.parent[left] = y
    BY <1>1, <1>10, ChildFacts
  <2> QED BY <1>2, <1>7, <2>1
<1> QED BY <1>2, <1>3, <1>4, <1>6, <1>7, <1>8, <1>9, <1>10, <1>12, <1>13, <1>14, <1>15, <1>16
        DEF Below

\* destroy_rebalance, of a node with two children: as if y had been taken out
\* and put in the place of z.
Moved(t, u, z, y, x) ==
    /\ u \in Trees /\ u.count = t.count /\ u.bad = t.bad
    /\ \E v \in Trees : Spliced(t, v, y, x) /\ Replaced(v, u, z, y)
    /\ \A m \in Cells : u.color[m] = IF m = z THEN "black"
                                     ELSE IF m = y THEN t.color[z]
                                     ELSE t.color[m]

LEMMA UnlinkTwoFacts ==
    ASSUME NEW t, NEW c, NEW pos, NEW b, Shape(t, c, pos, b), NEW z \in InNodes(t),
           t.child["lchild"][z] # Null, t.child["rchild"][z] # Null,
           NEW y, y = Far(t, t.child["rchild"][z], "lchild"),
           NEW x, x = t.child["rchild"][y], NEW u, u = Freed(UnlinkTwo(t, z, y, x), z)
    PROVE  Moved(t, u, z, y, x)
<1> DEFINE left == t.child["lchild"][z]
           right == t.child["rchild"][z]
           q == t.parent[z]
           e == Side(t, z)
           p == t.parent[y]
<1>1. /\ left \in InNodes(t) /\ right \in InNodes(t) /\ y \in InNodes(t)
      /\ t.child["lchild"][y] = Null
      /\ y # z /\ y # left /\ y # q /\ left # right
      /\ y = right <=> p = z
      /\ y # right => p \in InNodes(t) /\ t.child["lchild"][p] = y /\ right # x
      /\ left # x
  <2>1. Below(t, pos, z, left, right, y)
    BY NextBelow
  <2> QED BY ONLY <2>1, x = t.child["rchild"][y] DEF Below
<1>2. /\ t \in Trees /\ z \in Nodes /\ z \in Cells /\ z # Null
      /\ y \in Nodes /\ y \in Cells /\ y # Null /\ y \in Inside(t) /\ z \in Inside(t)
      /\ left \in Cells /\ left # Null /\ left \in Links /\ left # Header
      /\ right \in Cells /\ right # Null /\ right \in Links /\ right # Header
      /\ x \in Links
      /\ \A m \in InNodes(t) : m \in Cells /\ m \in Inside(t)
  BY <1>1, NodeFacts, SideFacts DEF InNodes, Inside, Shape, Trees
<1>3. /\ t.child \in [Sides -> [Cells -> Links]] /\ t.parent \in [Cells -> Cells \cup {Null}]
      /\ t.color \in [Cells -> {"red", "black"}] /\ t.bad \in BOOLEAN
  BY <1>2 DEF Trees
\* Every link of the tree leads to its one end.
<1>4. ASSUME NEW f \in Sides, NEW m \in Cells, t.child[f][m] # Null
      PROVE  m \in Inside(t) /\ t.parent[t.child[f][m]] = m /\ t.child[f][m] # m
             /\ t.child[Opp(f)][m] # t.child[f][m] /\ t.child[f][m] \in InNodes(t)
  <2>1. m \in Nodes \/ m = Header
    BY DEF Cells
  <2>2. m \in Inside(t)
    BY <1>4, <2>1 DEF Shape, Linked, Inside
  <2> QED BY <1>4, <2>2, ChildFacts
<1>5. /\ q \in Cells /\ q # z /\ e \in Sides /\ t.child[e][q] = z
      /\ \A f \in Sides, m \in Cells : t.child[f][m] = z <=> m = q /\ f = e
  <2>1. q \in Cells /\ q # z /\ e \in Sides /\ t.child[e][q] = z
        /\ \A f \in Sides : t.child[f][q] = z => f = e
    BY ParentFacts
  <2>2. \A f \in Sides, m \in Cells : t.child[f][m] = z => m = q
    BY <1>2, <1>4
  <2> QED BY <2>1, <2>2
<1>6. /\ p \in Cells /\ p # y
      /\ \A f \in Sides, m \in Cells :
            t.child[f][m] = y <=> m = p /\ f = IF y = right THEN "rchild" ELSE "lchild"
  <2>1. p \in Cells /\ p # y /\ Side(t, y) \in Sides /\ t.child[Side(t, y)][p] = y
        /\ \A f \in Sides : t.child[f][p] = y => f = Side(t, y)
    <3>1. y \in InNodes(t) /\ Shape(t, c, pos, b)
      BY <1>1
    <3> QED BY ONLY <3>1, ParentNamed
  <2>2. \A f \in Sides, m \in Cells : t.child[f][m] = y => m = p
    BY <1>2, <1>4
  <2>3. Side(t, y) = IF y = right THEN "rchild" ELSE "lchild"
    BY <1>1, <2>1, SideFacts
  <2> QED BY <2>1, <2>2, <2>3
<1>7. x # y /\ x # z /\ (x # Null => t.parent[x] = y /\ x \in Cells)
  <2>1. x # Null => x # y /\ t.parent[x] = y /\ x \in InNodes(t)
    BY <1>2, <1>4, SideFacts
  <2> QED BY <1>1, <1>2, <2>1, NodeFacts DEF InNodes
<1>8. \A m \in Cells : t.parent[m] = z <=> m = left \/ m = right
  <2>1. ASSUME NEW m \in Cells, t.parent[m] = z PROVE m = left \/ m = right
    <3>1. m \in InNodes(t)
      <4>1. m # Header
        BY <1>2, <2>1 DEF Shape, Linked
      <4> QED BY <1>2, <2>1, <4>1 DEF Cells, InNodes, InTree
    <3>2. PICK f \in Sides : t.child[f][t.parent[m]] = m
      BY <3>1 DEF Shape, Linked
    <3> QED BY <2>1, <3>2 DEF Sides
  <2> QED BY <1>2, <1>4, <2>1, SideFacts
<1>9. PICK w : w = Lifted(t, z, y)
  OBVIOUS
<1>10. UnlinkTwo(t, z, y, x) =
          IF y = right THEN w
          ELSE SetParent([w EXCEPT !.child["lchild"][p] = x, !.child["rchild"][y] = right,
                                   !.parent[right] = y], x, p)
  BY <1>9 DEF UnlinkTwo
<1>11. w = [t EXCEPT !.child["lchild"][y] = left, !.parent[left] = y,
                     !.child[e][q] = y, !.parent[y] = q, !.color[y] = t.color[z]]
  BY <1>9 DEF Lifted
<1> HIDE DEF left, right, q, e, p
<1> DEFINE v == [t EXCEPT
           !.child = [f \in Sides |-> [m \in Cells |->
                        IF m = y THEN Null ELSE IF t.child[f][m] = y THEN x ELSE t.child[f][m]]],
           !.parent = [m \in Cells |->
                        IF m = y THEN Null ELSE IF m = x THEN p ELSE t.parent[m]]]
<1>12. /\ v \in Trees
       /\ \A f \in Sides, m \in Cells :
             v.child[f][m] = IF m = y THEN Null
                             ELSE IF t.child[f][m] = y THEN x
                             ELSE t.child[f][m]
       /\ \A m \in Cells :
             v.parent[m] = IF m = y THEN Null ELSE IF m = x THEN p ELSE t.parent[m]
  <2>1. /\ v.child = [f \in Sides |-> [m \in Cells |->
                        IF m = y THEN Null ELSE IF t.child[f][m] = y THEN x ELSE t.child[f][m]]]
        /\ v.parent = [m \in Cells |->
                        IF m = y THEN Null ELSE IF m = x THEN p ELSE t.parent[m]]
    BY <1>2 DEF Trees
  <2>2. v.child \in [Sides -> [Cells -> Links]]
    BY <1>2, <1>3, <2>1, NodeFacts
  <2>3. v.parent \in [Cells -> Cells \cup {Null}]
    BY <1>3, <1>6, <2>1
  <2>4. v \in Trees
    BY <1>2, <2>1, <2>2, <2>3 DEF Trees
  <2> HIDE DEF v
  <2> QED BY <2>1, <2>4
<1> HIDE DEF v
<1>13. Spliced(t, v, y, x)
  BY <1>12 DEF Spliced, p
<1>14. PICK c1 : c1 = [t.child EXCEPT !["lchild"][y] = left]
  OBVIOUS
<1>15. PICK c2 : c2 = [c1 EXCEPT ![e][q] = y]
  OBVIOUS
<1>16. /\ c1 \in [Sides -> [Cells -> Links]]
       /\ \A f \in Sides, m \in Cells :
             c1[f][m] = IF f = "lchild" /\ m = y THEN left ELSE t.child[f][m]
  BY <1>2, <1>3, <1>14, SideFacts, ChildExcept
<1>17. /\ c2 \in [Sides -> [Cells -> Links]]
       /\ \A f \in Sides, m \in Cells : c2[f][m] = IF f = e /\ m = q THEN y ELSE c1[f][m]
  BY <1>2, <1>5, <1>15, <1>16, NodeFacts, ChildExcept
<1>18. /\ w.child = c2 /\ w.parent = [t.parent EXCEPT ![left] = y, ![y] = q]
       /\ w.color = [t.color EXCEPT ![y] = t.color[z]]
       /\ w.most_left = t.most_left /\ w.count = t.count /\ w.bad = t.bad
       /\ DOMAIN w = DOMAIN t
  BY <1>2, <1>11, <1>14, <1>15 DEF Trees
<1>19. w = [t EXCEPT !.child = c2, !.parent = [t.parent EXCEPT ![left] = y, ![y] = q],
                     !.color = [t.color EXCEPT ![y] = t.color[z]]]
  <2>1. PICK w1 : w1 = [t EXCEPT !.child["lchild"][y] = left]
    OBVIOUS
  <2>2. w1 = [t EXCEPT !.child = c1]
    BY <1>14, <2>1
  <2>3. PICK w2 : w2 = [w1 EXCEPT !.parent[left] = y]
    OBVIOUS
  <2>4. w2 = [t EXCEPT !.child = c1, !.parent = [t.parent EXCEPT ![left] = y]]
    BY <1>2, <2>2, <2>3 DEF Trees
  <2>5. PICK w3 : w3 = [w2 EXCEPT !.child[e][q] = y]
    OBVIOUS
  <2>6. w3 = [t EXCEPT !.child = c2, !.parent = [t.parent EXCEPT ![left] = y]]
    BY <1>2, <1>15, <2>4, <2>5 DEF Trees
  <2>7. w = [w3 EXCEPT !.parent[y] = q, !.color[y] = t.color[z]]
    BY <1>11, <2>1, <2>3, <2>5 DEF left, q, e
  <2>8. w3.parent = [t.parent EXCEPT ![left] = y] /\ w3.color = t.color
    BY <1>2, <2>6 DEF Trees
  <2> HIDE <1>11, <2>1, <2>2, <2>3, <2>4, <2>5
  <2> QED BY <1>2, <2>6, <2>7, <2>8 DEF Trees
<1>20. /\ w \in Trees
       /\ \A m \in Cells : w.parent[m] = IF m = y THEN q ELSE IF m = left THEN y ELSE t.parent[m]
       /\ \A m \in Cells : w.color[m] = IF m = y THEN t.color[z] ELSE t.color[m]
  <2>1. /\ [t.parent EXCEPT ![left] = y, ![y] = q] \in [Cells -> Cells \cup {Null}]
        /\ [t.color EXCEPT ![y] = t.color[z]] \in [Cells -> {"red", "black"}]
    BY <1>2, <1>3, <1>5
  <2>2. w \in Trees
    BY <1>2, <1>17, <1>19, <2>1 DEF Trees
  <2> QED BY <1>1, <1>2, <1>3, <1>5, <1>18, <2>2
<1>21. \A f \in Sides, m \in Cells :
          w.child[f][m] = IF f = e /\ m = q THEN y
                          ELSE IF f = "lchild" /\ m = y THEN left
                          ELSE t.child[f][m]
  BY <1>16, <1>17, <1>18
<1> HIDE <1>9, <1>11, <1>14, <1>15
<1>22. PICK a : a = UnlinkTwo(t, z, y, x)
  OBVIOUS
<1>23. /\ a \in Trees /\ a.color = w.color /\ a.count = t.count /\ a.bad = t.bad
       /\ \A f \in Sides, m \in Cells :
             a.child[f][m] = IF y # right /\ f = "rchild" /\ m = y THEN right
                             ELSE IF y # right /\ f = "lchild" /\ m = p THEN x
                             ELSE w.child[f][m]
       /\ \A m \in Cells :
             a.parent[m] = IF y # right /\ m = x THEN p
                           ELSE IF y # right /\ m = right THEN y
                           ELSE w.parent[m]
  <2>1. CASE y = right
    BY <1>10, <1>18, <1>20, <1>22, <2>1
  <2>2. CASE y # right
    <3>1. PICK d1 : d1 = [w.child EXCEPT !["lchild"][p] = x]
      OBVIOUS
    <3>2. PICK d2 : d2 = [d1 EXCEPT !["rchild"][y] = right]
      OBVIOUS
    <3>3. w.child \in [Sides -> [Cells -> Links]] /\ w.parent \in [Cells -> Cells \cup {Null}]
      BY <1>20 DEF Trees
    <3>4. /\ d1 \in [Sides -> [Cells -> Links]]
          /\ \A f \in Sides, m \in Cells :
                d1[f][m] = IF f = "lchild" /\ m = p THEN x ELSE w.child[f][m]
      <4>1. "lchild" \in Sides /\ p \in Cells /\ x \in Links
        BY <1>2, <1>6, SideFacts
      <4> QED BY ONLY <3>1, <3>3, <4>1
    <3>5. /\ d2 \in [Sides -> [Cells -> Links]]
          /\ \A f \in Sides, m \in Cells :
                d2[f][m] = IF f = "rchild" /\ m = y THEN right ELSE d1[f][m]
      BY <1>2, <3>2, <3>4, SideFacts, ChildExcept
    <3>6. PICK w2 : w2 = [w EXCEPT !.child["lchild"][p] = x, !.child["rchild"][y] = right,
                                   !.parent[right] = y]
      OBVIOUS
    <3>7. w2 = [w EXCEPT !.child = d2, !.parent = [w.parent EXCEPT ![right] = y]]
      <4>1. PICK a1 : a1 = [w EXCEPT !.child["lchild"][p] = x]
        OBVIOUS
      <4>2. a1 = [w EXCEPT !.child = d1]
        BY <3>1, <4>1
      <4>3. PICK a2 : a2 = [a1 EXCEPT !.child["rchild"][y] = right]
        OBVIOUS
      <4>4. a2 = [w EXCEPT !.child = d2]
        BY <1>20, <3>2, <4>2, <4>3 DEF Trees
      <4>5. w2 = [a2 EXCEPT !.parent[right] = y]
        BY <3>6, <4>1, <4>3
      <4>6. a2.parent = w.parent
        BY <1>20, <4>4 DEF Trees
      <4> HIDE <3>6, <4>1, <4>3
      <4> QED BY <1>20, <4>4, <4>5, <4>6 DEF Trees
    <3>8. /\ w2 \in Trees /\ w2.child = d2 /\ w2.color = w.color /\ w2.count = w.count
          /\ w2.bad = w.bad
          /\ \A m \in Cells : w2.parent[m] = IF m = right THEN y ELSE w.parent[m]
      <4>1. [w.parent EXCEPT ![right] = y] \in [Cells -> Cells \cup {Null}]
        BY <1>2, <3>3
      <4>2. w2.child = d2 /\ w2.color = w.color /\ w2.count = w.count /\ w2.bad = w.bad
            /\ w2.parent = [w.parent EXCEPT ![right] = y] /\ w2 \in Trees
        BY <1>20, <3>5, <3>7, <4>1 DEF Trees
      <4> QED BY <1>2, <3>3, <4>2
    <3>9. a = SetParent(w2, x, p)
      BY <1>10, <1>22, <2>2, <3>6
    <3>10. /\ a \in Trees /\ a.child = w2.child /\ a.color = w2.color
           /\ a.count = w2.count /\ a.bad = w2.bad
           /\ \A m \in Cells : a.parent[m] = IF m = x THEN p ELSE w2.parent[m]
      <4>1. w2 \in Trees /\ x \in Links /\ p \in Cells
        BY <1>2, <1>6, <3>8
      <4> QED BY ONLY <3>9, <4>1, SetParentFields
    <3>11. \A f \in Sides, m \in Cells :
              a.child[f][m] = IF y # right /\ f = "rchild" /\ m = y THEN right
                              ELSE IF y # right /\ f = "lchild" /\ m = p THEN x
                              ELSE w.child[f][m]
      BY ONLY <2>2, <3>4, <3>5, <3>8, <3>10
    <3>12. \A m \in Cells :
              a.parent[m] = IF y # right /\ m = x THEN p
                            ELSE IF y # right /\ m = right THEN y
                            ELSE w.parent[m]
      BY ONLY <2>2, <3>8, <3>10
    <3> QED BY <1>18, <3>8, <3>10, <3>11, <3>12
  <2> QED BY <2>1, <2>2
<1>24. u = Freed(a, z)
  BY <1>22
<1>25. /\ u \in Trees /\ u.count = a.count /\ u.bad = a.bad
       /\ \A f \in Sides, m \in Cells : u.child[f][m] = IF m = z THEN Null ELSE a.child[f][m]
       /\ \A m \in Cells : u.parent[m] = IF m = z THEN Null ELSE a.parent[m]
       /\ \A m \in Cells : u.color[m] = IF m = z THEN "black" ELSE a.color[m]
  <2> HIDE <1>22
  <2>1. a \in Trees /\ z \in Nodes
    BY <1>2, <1>23
  <2> QED BY ONLY <1>24, <2>1, FreedFields
<1>26. ASSUME NEW f \in Sides, NEW m \in Cells
       PROVE  u.child[f][m] = IF m = z THEN Null
                              ELSE IF m = y THEN v.child[f][z]
                              ELSE IF v.child[f][m] = z THEN y
                              ELSE v.child[f][m]
  <2>1. u.child[f][m] = IF m = z THEN Null ELSE a.child[f][m]
    BY <1>25
  <2>2. a.child[f][m] = IF y # right /\ f = "rchild" /\ m = y THEN right
                        ELSE IF y # right /\ f = "lchild" /\ m = p THEN x
                        ELSE IF f = e /\ m = q THEN y
                        ELSE IF f = "lchild" /\ m = y THEN left
                        ELSE t.child[f][m]
    BY <1>21, <1>23
  <2>3. v.child[f][m] = IF m = y THEN Null
                        ELSE IF t.child[f][m] = y THEN x
                        ELSE t.child[f][m]
    BY <1>12
  <2>4. v.child[f][z] = IF t.child[f][z] = y THEN x ELSE t.child[f][z]
    BY <1>1, <1>2, <1>12
  <2>5. f = "lchild" \/ f = "rchild"
    BY DEF Sides
  <2>6. CASE m = z
    BY <2>1, <2>6
  <2>7. CASE m = y
    <3>1. ~(f = e /\ m = q) /\ ~(m = p)
      BY <1>1, <1>6, <2>7
    <3>2. CASE f = "lchild"
      <4>1. t.child[f][z] = left
        BY <3>2 DEF left
      <4> QED BY <1>1, <2>1, <2>2, <2>4, <2>7, <3>1, <3>2, <4>1
    <3>3. CASE f = "rchild"
      <4>1. t.child[f][z] = right /\ t.child[f][m] = x
        BY <2>7, <3>3 DEF right
      <4> QED BY <1>1, <2>1, <2>2, <2>4, <2>7, <3>1, <3>3, <4>1, SideFacts
    <3> QED BY <2>5, <3>2, <3>3
  <2>8. CASE m # z /\ m # y
    <3>1. v.child[f][m] = z <=> m = q /\ f = e
      BY <1>5, <1>7, <2>3, <2>8, <1>1
    <3>2. t.child[f][m] = y <=> y # right /\ f = "lchild" /\ m = p
      BY <1>1, <1>6, <2>8
    <3>3. ~(t.child[f][m] = y /\ m = q /\ f = e)
      BY <1>1, <1>5
    <3> QED BY <2>1, <2>2, <2>3, <2>8, <3>1, <3>2, <3>3
  <2> QED BY <2>6, <2>7, <2>8
<1>27. ASSUME NEW m \in Cells
       PROVE  u.parent[m] = IF m = z THEN Null
                            ELSE IF m = y THEN v.parent[z]
                            ELSE IF v.parent[m] = z THEN y
                            ELSE v.parent[m]
  <2>1. u.parent[m] = IF m = z THEN Null ELSE a.parent[m]
    BY <1>25
  <2>2. a.parent[m] = IF y # right /\ m = x THEN p
                      ELSE IF y # right /\ m = right THEN y
                      ELSE IF m = y THEN q
                      ELSE IF m = left THEN y
                      ELSE t.parent[m]
    BY <1>20, <1>23
  <2>3. v.parent[m] = IF m = y THEN Null ELSE IF m = x THEN p ELSE t.parent[m]
    BY <1>12
  <2>4. v.parent[z] = q
    BY <1>1, <1>2, <1>7, <1>12 DEF q
  <2>5. t.parent[m] = z <=> m = left \/ m = right
    BY <1>8
  <2>6. m = x => t.parent[m] = y
    BY <1>7, NodeFacts
  <2>7. CASE m = z
    BY <2>1, <2>7
  <2>8. CASE m = y
    BY <1>1, <1>7, <2>1, <2>2, <2>4, <2>8
  <2>9. CASE m # z /\ m # y /\ m = x
    BY <1>1, <2>1, <2>2, <2>3, <2>5, <2>6, <2>9
  <2>10. CASE m # z /\ m # y /\ m # x
    BY <1>1, <2>1, <2>2, <2>3, <2>5, <2>10
  <2> QED BY <2>7, <2>8, <2>9, <2>10
<1>28. Replaced(v, u, z, y)
  BY <1>26, <1>27 DEF Replaced
<1>29. \A m \in Cells : u.color[m] = IF m = z THEN "black"
                                     ELSE IF m = y THEN t.color[z]
                                     ELSE t.color[m]
  <2>1. a.color = w.color
    BY <1>23
  <2>2. \A m \in Cells : w.color[m] = IF m = y THEN t.color[z] ELSE t.color[m]
    BY <1>20
  <2>3. \A m \in Cells : u.color[m] = IF m = z THEN "black" ELSE a.color[m]
    BY <1>25
  <2> QED BY ONLY <2>1, <2>2, <2>3
<1> QED BY <1>12, <1>13, <1>23, <1>25, <1>28, <1>29 DEF Moved

\* The first half of destroy_rebalance, and what the second half starts from.
Unlinked(t, z, r, c) ==
    /\ r.t \in Trees /\ r.t.count = t.count /\ r.t.bad = t.bad
    /\ InNodes(r.t) = InNodes(t) \ {z}
    /\ \E pos, b : Shape(r.t, c, pos, b)
    /\ r.x \in Links /\ r.xp \in Inside(r.t) /\ (r.xp = Header => r.x = Root(r.t))
    /\ RootBlack(r.t, r.x) /\ (r.red => BlackOrNull(r.t, Root(r.t)))

LEMMA UnlinkedOne ==
    ASSUME NEW t, NEW c, NEW pos, NEW b, Shape(t, c, pos, b), BlackOrNull(t, Root(t)),
           NEW z \in InNodes(t), NEW r, r = Unlink(t, z),
           t.child["lchild"][z] = Null \/ t.child["rchild"][z] = Null
    PROVE  Unlinked(t, z, r, c - 1)
<1>1. PICK g \in Sides : t.child[Opp(g)][z] = Null
                         /\ g = IF t.child["lchild"][z] = Null THEN "rchild" ELSE "lchild"
  <2>1. Opp("lchild") = "rchild" /\ Opp("rchild") = "lchild"
    BY SideFacts DEF Opp
  <2> QED BY <2>1, SideFacts
<1>2. PICK x, u : x = t.child[g][z] /\ u = Freed(UnlinkOne(t, z, x), z)
  OBVIOUS
<1>3. r.x = x /\ r.xp = t.parent[z] /\ r.red = Red(t, z) /\ r.t = u
  BY <1>1, <1>2 DEF Unlink
<1>4. /\ u \in Trees /\ Spliced(t, u, z, x)
      /\ u.count = t.count /\ u.bad = t.bad
      /\ \A m \in Cells : u.color[m] = IF m = z THEN "black" ELSE t.color[m]
  <2>1. SplicedOut(t, u, z, x)
    BY <1>1, <1>2, UnlinkOneFacts
  <2> QED BY ONLY <2>1 DEF SplicedOut
<1> HIDE <1>2
<1>5. x = t.child[g][z]
  BY <1>2
<1>6. InNodes(u) = InNodes(t) \ {z} /\ \E pos2, b2 : Shape(u, c - 1, pos2, b2)
  BY <1>1, <1>4, <1>5, SpliceShape
<1>7. /\ t \in Trees /\ z \in Nodes /\ z \in Cells /\ z # Null /\ z # Header /\ x \in Links
      /\ Root(t) \in Links
  BY <1>5, NodeFacts, SideFacts DEF InNodes, Shape, Trees, Root
<1>8. PICK q, e : q = t.parent[z] /\ e = Side(t, z)
  OBVIOUS
<1>9. q \in Inside(t) /\ q \in Cells /\ q # z /\ e \in Sides /\ t.child[e][q] = z
  BY <1>8, ParentFacts
<1>10. q \in Inside(u) /\ (q = Header => x = Root(u))
  <2>1. q = Header => e = "lchild"
    BY <1>7, <1>9 DEF Shape, Linked, Sides
  <2> QED BY <1>4, <1>6, <1>9, <2>1 DEF Inside, Spliced, Root
<1>11. Root(u) = IF Root(t) = z THEN x ELSE Root(t)
  BY <1>4, <1>7, NodeFacts, SideFacts DEF Spliced, Root
<1>12. RootBlack(u, x)
  <2>1. CASE Root(t) = z
    BY <1>11, <2>1 DEF RootBlack
  <2>2. CASE Root(t) # z
    BY <1>4, <1>7, <1>11, <2>2, NodeFacts DEF RootBlack, BlackOrNull, Red
  <2> QED BY <2>1, <2>2
<1>13. Red(t, z) => BlackOrNull(u, Root(u))
  <2>1. Red(t, z) => Root(t) # z
    BY <1>7 DEF BlackOrNull
  <2> QED BY <1>4, <1>7, <1>11, <2>1, NodeFacts DEF BlackOrNull, Red
<1> QED BY <1>3, <1>4, <1>6, <1>7, <1>8, <1>9, <1>10, <1>12, <1>13 DEF Unlinked

LEMMA UnlinkedTwo ==
    ASSUME NEW t, NEW c, NEW pos, NEW b, Shape(t, c, pos, b), BlackOrNull(t, Root(t)),
           NEW z \in InNodes(t), NEW r, r = Unlink(t, z),
           t.child["lchild"][z] # Null, t.child["rchild"][z] # Null
    PROVE  Unlinked(t, z, r, c - 1)
<1>1. PICK left, right : left = t.child["lchild"][z] /\ right = t.child["rchild"][z]
  OBVIOUS
<1>2. PICK y : y = Far(t, right, "lchild")
  OBVIOUS
<1>3. PICK p : p = t.parent[y]
  OBVIOUS
<1>4. /\ y \in InNodes(t) /\ t.child["lchild"][y] = Null /\ pos[y] = pos[z] + 1 /\ y # z
      /\ y = right <=> p = z
      /\ y # right => p \in InNodes(t) /\ t.child["lchild"][p] = y
  <2>1. Below(t, pos, z, left, right, y)
    BY <1>1, <1>2, NextBelow
  <2> QED BY ONLY <1>3, <2>1 DEF Below
<1>5. PICK x, u : x = t.child["rchild"][y] /\ u = Freed(UnlinkTwo(t, z, y, x), z)
  OBVIOUS
<1>6. /\ r.x = x /\ r.xp = (IF y = right THEN y ELSE p) /\ r.red = Red(t, y) /\ r.t = u
  BY <1>1, <1>2, <1>3, <1>4, <1>5 DEF Unlink
<1>7. /\ u \in Trees /\ u.count = t.count /\ u.bad = t.bad
      /\ \E v \in Trees : Spliced(t, v, y, x) /\ Replaced(v, u, z, y)
      /\ \A m \in Cells : u.color[m] = IF m = z THEN "black"
                                       ELSE IF m = y THEN t.color[z]
                                       ELSE t.color[m]
  <2>1. Moved(t, u, z, y, x)
    BY <1>1, <1>2, <1>5, UnlinkTwoFacts
  <2> QED BY ONLY <2>1 DEF Moved
<1>8. x = t.child["rchild"][y]
  BY <1>5
<1> HIDE <1>2, <1>5
<1>9. PICK v \in Trees : Spliced(t, v, y, x) /\ Replaced(v, u, z, y)
  BY <1>7
<1>10. /\ t \in Trees /\ z \in Nodes /\ z \in Cells /\ z # Null /\ z # Header
       /\ y \in Nodes /\ y \in Cells /\ y # Null /\ y # Header
       /\ x \in Links /\ Root(t) \in Links /\ p \in Cells /\ p # y
  <2>1. p \in Cells /\ p # y
    BY <1>3, <1>4, ParentFacts
  <2> QED BY <1>4, <1>8, <2>1, NodeFacts, SideFacts DEF InNodes, Shape, Trees, Root
<1>11. Opp("rchild") = "lchild" /\ "rchild" \in Sides /\ "lchild" \in Sides
  BY SideFacts DEF Opp
<1>12. /\ InNodes(v) = InNodes(t) \ {y}
       /\ \E pos2, b2 :
             /\ Shape(v, c - 1, pos2, b2)
             /\ \A m \in Inside(v) : pos2[m] = Closed(pos[m], pos[y])
  BY <1>4, <1>8, <1>9, <1>11, SpliceShape
<1>13. PICK pos1, b1 : /\ Shape(v, c - 1, pos1, b1)
                       /\ \A m \in Inside(v) : pos1[m] = Closed(pos[m], pos[y])
  BY <1>12
<1>14. z \in InNodes(v) /\ y \in Nodes \ InNodes(v)
  BY <1>4, <1>10, <1>12
<1>15. ASSUME NEW m \in InNodes(v)
       PROVE  /\ pos1[m] < pos1[z] => key(m) <= key(y)
              /\ pos1[z] < pos1[m] => key(y) <= key(m)
  <2>1. m \in InNodes(t) /\ m # y /\ pos1[m] = Closed(pos[m], pos[y])
        /\ pos1[z] = Closed(pos[z], pos[y])
    BY <1>12, <1>13, <1>14 DEF Inside
  <2>2. pos[m] \in Int /\ pos[y] \in Int /\ pos[z] \in Int
    <3>1. \A k \in InNodes(t) : pos[k] \in 1 .. c
      BY DEF Shape, Ranks
    <3> QED BY <1>4, <2>1, <3>1
  <2>3. pos[m] # pos[y]
    BY <1>4, <2>1 DEF Shape, Ranks, Inside
  <2>4. pos1[m] < pos1[z] => pos[m] < pos[y]
    BY <1>4, <2>1, <2>2 DEF Closed
  <2>5. pos1[z] < pos1[m] => pos[y] < pos[m]
    BY <1>4, <2>1, <2>2, <2>3 DEF Closed
  <2> QED BY <1>4, <2>1, <2>4, <2>5 DEF Shape, Sorted
<1>16. /\ InNodes(u) = (InNodes(v) \ {z}) \cup {y}
       /\ \E pos2, b2 : Shape(u, c - 1, pos2, b2)
  BY <1>7, <1>9, <1>13, <1>14, <1>15, ReplaceShape
<1>17. InNodes(u) = InNodes(t) \ {z}
  BY <1>4, <1>12, <1>16
<1>18. \A f \in Sides, m \in Cells :
          m # y => v.child[f][m] = IF t.child[f][m] = y THEN x ELSE t.child[f][m]
  BY <1>9 DEF Spliced
<1>19. /\ \A f \in Sides : u.child[f][y] = v.child[f][z]
       /\ \A f \in Sides, m \in Cells :
             m # y /\ m # z => u.child[f][m] = IF v.child[f][m] = z THEN y ELSE v.child[f][m]
  BY <1>4, <1>9, <1>10 DEF Replaced
<1>20. Root(t) # y
  <2>1. p # Header
    <3>1. CASE y = right
      BY <1>4, <1>10, <3>1
    <3>2. CASE y # right
      BY <1>4, <3>2, NodeFacts DEF InNodes
    <3> QED BY <3>1, <3>2
  <2> QED BY <1>3, <1>4, <2>1, ParentFacts
<1>21. Root(u) = IF Root(t) = z THEN y ELSE Root(t)
  BY <1>10, <1>11, <1>18, <1>19, <1>20, NodeFacts DEF Root
<1>22. BlackOrNull(u, Root(u))
  <2>1. CASE Root(t) = z
    BY <1>4, <1>7, <1>10, <1>21, <2>1 DEF BlackOrNull, Red
  <2>2. CASE Root(t) # z
    BY <1>7, <1>10, <1>20, <1>21, <2>2, NodeFacts DEF BlackOrNull, Red
  <2> QED BY <2>1, <2>2
<1>23. r.xp \in Inside(u) /\ r.xp # Header
  <2>1. CASE y = right
    BY <1>6, <1>10, <1>16, <2>1 DEF Inside
  <2>2. CASE y # right
    <3>1. p # z /\ p # y /\ p \in InNodes(u)
      BY <1>4, <1>10, <1>17, <2>2
    <3> QED BY <1>6, <2>2, <3>1, NodeFacts DEF Inside, InNodes
  <2> QED BY <2>1, <2>2
<1> QED BY <1>6, <1>7, <1>10, <1>16, <1>17, <1>22, <1>23 DEF Unlinked, RootBlack
---------------------------------------------------------------------------
(* The repair after a removal.                                             *)

LEMMA SiblingRaisedFacts ==
    ASSUME NEW t, NEW c, NEW pos, NEW b, Shape(t, c, pos, b), BlackOrNull(t, Root(t)),
           NEW xp \in InNodes(t), NEW d \in Sides, t.child[Opp(d)][xp] # Null,
           NEW u, u = SiblingRaised(t, xp, d)
    PROVE  Kept(t, u, c, pos) /\ u \in Trees /\ u.bad = t.bad /\ BlackOrNull(u, Root(u))
<1> DEFINE w == t.child[Opp(d)][xp]
<1>1. /\ t \in Trees /\ Opp(d) \in Sides /\ xp \in Nodes /\ xp \in Cells /\ xp \in Inside(t)
      /\ Root(t) \in Links
  BY NodeFacts, SideFacts DEF Shape, InNodes, Inside, Root, Trees
<1>2. w \in InNodes(t) /\ w \in Nodes /\ w \in Cells /\ w # xp
  BY <1>1, ChildFacts, NodeFacts DEF InNodes
<1>3. CASE ~Red(t, w)
  <2>1. u = t
    BY <1>3 DEF SiblingRaised
  <2> QED BY <1>1, <2>1 DEF Kept
<1>4. CASE Red(t, w)
  <2>1. PICK v1 : v1 = [t EXCEPT !.color[w] = "black"]
    OBVIOUS
  <2>2. PICK k : k = IF d = "lchild" THEN "red" ELSE t.color[xp]
    OBVIOUS
  <2>3. PICK v : v = [v1 EXCEPT !.color[xp] = k]
    OBVIOUS
  <2>4. k \in {"red", "black"}
    BY <1>1, <2>2 DEF Trees
  <2>5. /\ v1 \in Trees /\ v1.child = t.child /\ v1.parent = t.parent
        /\ v1.most_left = t.most_left /\ v1.count = t.count /\ v1.bad = t.bad
        /\ \A m \in Cells : v1.color[m] = IF m = w THEN "black" ELSE t.color[m]
    BY <1>1, <2>1, Painted
  <2>6. u = Rotate(v, xp, Opp(d))
    <3>1. v1.color[xp] = t.color[xp]
      BY <1>1, <1>2, <2>5
    <3>2. v = [t EXCEPT !.color[w] = "black", !.color[xp] = IF d = "lchild" THEN "red" ELSE @]
      BY <2>1, <2>2, <2>3, <3>1
    <3> QED BY <1>4, <3>2 DEF SiblingRaised
  <2>7. /\ v \in Trees /\ v.child = v1.child /\ v.parent = v1.parent
        /\ v.most_left = v1.most_left /\ v.count = v1.count /\ v.bad = v1.bad
        /\ \A m \in Cells : v.color[m] = IF m = xp THEN k ELSE v1.color[m]
    BY <2>3, <2>4, <2>5, Painted
  <2> HIDE <2>1, <2>2, <2>3
  <2> HIDE DEF w
  <2>8. Shape(v, c, pos, b) /\ InNodes(v) = InNodes(t) /\ Kept(t, v, c, pos)
    BY <2>5, <2>7, PaintShape, PaintKept
  <2>9. Kept(v, u, c, pos) /\ Rotated(v, u, xp, Opp(d))
        /\ u \in Trees /\ u.color = v.color /\ u.bad = v.bad
    BY <1>1, <2>5, <2>6, <2>7, <2>8, RotateKept
  <2>10. Kept(t, u, c, pos)
    BY <2>8, <2>9, KeptTwice
  <2>11. Root(v) = Root(t)
    BY <2>5, <2>7 DEF Root
  <2>12. Root(u) = IF xp = Root(t) THEN w ELSE Root(t)
    BY <1>1, <2>5, <2>7, <2>8, <2>9, <2>11, RotatedRoot DEF w
  <2>13. BlackOrNull(u, Root(u))
    BY <1>1, <1>2, <2>5, <2>7, <2>9, <2>12, NodeFacts DEF BlackOrNull, Red
  <2> QED BY <2>5, <2>7, <2>9, <2>10, <2>13
<1> QED BY <1>3, <1>4

\* A rotation puts the child under the node's parent, on the side of the node.
LEMMA RotatedUnder ==
    ASSUME NEW t, NEW u, NEW x, NEW d, Rotated(t, u, x, d), NEW n, n = t.child[d][x],
           NEW q \in Cells, q = t.parent[x], q # x, q # n,
           NEW e \in Sides, t.child[e][q] = x
    PROVE  u.child[e][q] = n
<1>1. u.child[e][q] = IF e = d /\ q = x THEN t.child[Opp(d)][n]
                      ELSE IF e = Opp(d) /\ q = n THEN x
                      ELSE IF q = t.parent[x] /\ t.child[e][q] = x THEN n
                      ELSE t.child[e][q]
  BY DEF Rotated
<1> QED BY <1>1

LEMMA OuterRedFacts ==
    ASSUME NEW t, NEW c, NEW pos, NEW b, Shape(t, c, pos, b), BlackOrNull(t, Root(t)),
           NEW xp \in InNodes(t), NEW d \in Sides, NEW w, w = t.child[Opp(d)][xp], w # Null,
           NEW e \in Sides, ~BlackOrNull(t, t.child[e][w]),
           NEW u, u = OuterRed(t, w, d)
    PROVE  /\ Kept(t, u, c, pos) /\ u \in Trees /\ u.bad = t.bad /\ BlackOrNull(u, Root(u))
           /\ u.child[Opp(d)][xp] # Null
<1>1. /\ t \in Trees /\ Opp(d) \in Sides /\ Opp(d) # d /\ xp \in Nodes /\ xp \in Cells
      /\ xp \in Inside(t) /\ Root(t) \in Links /\ xp # Header
  BY NodeFacts, SideFacts DEF Shape, InNodes, Inside, Root, Trees
<1>2. w \in InNodes(t) /\ w \in Nodes /\ w \in Cells /\ w # xp /\ t.parent[w] = xp /\ w # Root(t)
  <2>1. w \in InNodes(t) /\ t.parent[w] = xp /\ w # xp
    BY <1>1, ChildFacts
  <2>2. w # Root(t)
    BY <1>1, <2>1, ParentFacts
  <2> QED BY <2>1, <2>2, NodeFacts DEF InNodes
<1>3. CASE ~BlackOrNull(t, t.child[Opp(d)][w])
  <2>1. u = t
    BY <1>3 DEF OuterRed
  <2> QED BY <1>1, <2>1 DEF Kept
<1>4. CASE BlackOrNull(t, t.child[Opp(d)][w])
  <2>1. PICK n : n = t.child[d][w]
    OBVIOUS
  <2>2. ~BlackOrNull(t, n)
    BY <1>4, <2>1, SideFacts
  <2>3. n # Null /\ n \in Links /\ n \in Cells
    BY <1>1, <1>2, <2>1, <2>2, NodeFacts DEF BlackOrNull, Trees
  <2>4. PICK v1 : v1 = Blacken(t, n)
    OBVIOUS
  <2>5. PICK v : v = [v1 EXCEPT !.color[w] = "red"]
    OBVIOUS
  <2>6. u = Rotate(v, w, d)
    BY <1>4, <2>1, <2>4, <2>5 DEF OuterRed
  <2>7. /\ v1 \in Trees /\ v1.child = t.child /\ v1.parent = t.parent
        /\ v1.most_left = t.most_left /\ v1.count = t.count /\ v1.bad = t.bad
        /\ \A m \in Cells : v1.color[m] = IF m = n THEN "black" ELSE t.color[m]
    BY <1>1, <2>3, <2>4, Blackened
  <2>8. /\ v \in Trees /\ v.child = v1.child /\ v.parent = v1.parent
        /\ v.most_left = v1.most_left /\ v.count = v1.count /\ v.bad = v1.bad
        /\ \A m \in Cells : v.color[m] = IF m = w THEN "red" ELSE v1.color[m]
    BY <2>5, <2>7, Painted
  <2> HIDE <2>4, <2>5
  <2>9. Shape(v, c, pos, b) /\ InNodes(v) = InNodes(t) /\ Kept(t, v, c, pos)
    BY <2>7, <2>8, PaintShape, PaintKept
  <2>10. v.child[d][w] # Null
    BY <2>1, <2>3, <2>7, <2>8
  <2>11. Kept(v, u, c, pos) /\ Rotated(v, u, w, d)
         /\ u \in Trees /\ u.color = v.color /\ u.bad = v.bad
    BY <1>2, <2>6, <2>9, <2>10, RotateKept
  <2>12. Kept(t, u, c, pos)
    BY <2>9, <2>11, KeptTwice
  <2>13. Root(u) = Root(t)
    <3>1. Root(v) = Root(t)
      BY <2>7, <2>8 DEF Root
    <3> QED BY <1>2, <2>9, <2>10, <2>11, <3>1, RotatedRoot
  <2>14. BlackOrNull(u, Root(u))
    <3>1. CASE Root(t) = Null
      BY <2>13, <3>1 DEF BlackOrNull
    <3>2. CASE Root(t) # Null
      <4>1. Root(t) \in Cells
        BY <1>1, <3>2, NodeFacts
      <4>2. t.color[Root(t)] # "red"
        BY <3>2 DEF BlackOrNull, Red
      <4>3. v1.color[Root(t)] # "red"
        BY ONLY <2>7, <4>1, <4>2
      <4>4. u.color[Root(t)] # "red"
        BY ONLY <1>2, <2>8, <2>11, <4>1, <4>3
      <4> QED BY <2>13, <4>4 DEF BlackOrNull, Red
    <3> QED BY <3>1, <3>2
  <2>15. u.child[Opp(d)][xp] # Null
    <3>1. n # xp
      BY <1>2, <2>1, <2>3, NoCycle
    <3>2. Opp(d) \in Sides /\ xp \in Cells /\ xp = v.parent[w] /\ xp # w
          /\ v.child[Opp(d)][xp] = w /\ n = v.child[d][w]
      BY <1>1, <1>2, <2>1, <2>7, <2>8
    <3>3. Rotated(v, u, w, d)
      BY <2>11
    <3>4. u.child[Opp(d)][xp] = n
      BY ONLY <3>1, <3>2, <3>3, RotatedUnder
    <3> QED BY <2>3, <3>4
  <2> QED BY <2>7, <2>8, <2>11, <2>12, <2>14, <2>15
<1> QED BY <1>3, <1>4

LEMMA SiblingTurnedFacts ==
    ASSUME NEW t, NEW c, NEW pos, NEW b, Shape(t, c, pos, b), BlackOrNull(t, Root(t)),
           NEW xp \in InNodes(t), NEW d \in Sides, t.child[Opp(d)][xp] # Null,
           NEW u, u = SiblingTurned(t, xp, d)
    PROVE  Kept(t, u, c, pos) /\ u \in Trees /\ u.bad = t.bad /\ BlackOrNull(u, Root(u))
<1> DEFINE w == t.child[Opp(d)][xp]
<1>1. /\ t \in Trees /\ Opp(d) \in Sides /\ xp \in Nodes /\ xp \in Cells /\ xp \in Inside(t)
      /\ Root(t) \in Links
  BY NodeFacts, SideFacts DEF Shape, InNodes, Inside, Root, Trees
<1>2. w \in InNodes(t) /\ w \in Nodes /\ w \in Cells /\ w # xp
  BY <1>1, ChildFacts, NodeFacts DEF InNodes
<1>3. PICK v1 : v1 = [t EXCEPT !.color[w] = t.color[xp]]
  OBVIOUS
<1>4. PICK v2 : v2 = [v1 EXCEPT !.color[xp] = "black"]
  OBVIOUS
<1>5. PICK o : o = v2.child[Opp(d)][w]
  OBVIOUS
<1>6. PICK v : v = Blacken(v2, o)
  OBVIOUS
<1>7. u = Rotate(v, xp, Opp(d))
  BY <1>3, <1>4, <1>5, <1>6 DEF SiblingTurned
<1>8. t.color[xp] \in {"red", "black"}
  BY <1>1 DEF Trees
<1>9. /\ v1 \in Trees /\ v1.child = t.child /\ v1.parent = t.parent
      /\ v1.most_left = t.most_left /\ v1.count = t.count /\ v1.bad = t.bad
      /\ \A m \in Cells : v1.color[m] = IF m = w THEN t.color[xp] ELSE t.color[m]
  BY <1>1, <1>3, <1>8, Painted
<1>10. /\ v2 \in Trees /\ v2.child = v1.child /\ v2.parent = v1.parent
       /\ v2.most_left = v1.most_left /\ v2.count = v1.count /\ v2.bad = v1.bad
       /\ \A m \in Cells : v2.color[m] = IF m = xp THEN "black" ELSE v1.color[m]
  BY <1>4, <1>9, Painted
<1>11. o \in Links
  BY <1>1, <1>2, <1>5, <1>10 DEF Trees
<1>12. /\ v \in Trees /\ v.child = v2.child /\ v.parent = v2.parent
       /\ v.most_left = v2.most_left /\ v.count = v2.count /\ v.bad = v2.bad
       /\ \A m \in Cells : v.color[m] = IF m = o THEN "black" ELSE v2.color[m]
  BY <1>6, <1>10, <1>11, Blackened
<1> HIDE <1>3, <1>4, <1>5, <1>6
<1> HIDE DEF w
<1>13. Shape(v, c, pos, b) /\ InNodes(v) = InNodes(t) /\ Kept(t, v, c, pos)
  BY <1>9, <1>10, <1>12, PaintShape, PaintKept
<1>14. Kept(v, u, c, pos) /\ Rotated(v, u, xp, Opp(d))
      /\ u \in Trees /\ u.color = v.color /\ u.bad = v.bad
  BY <1>1, <1>7, <1>9, <1>10, <1>12, <1>13, RotateKept
<1>15. Kept(t, u, c, pos)
  BY <1>13, <1>14, KeptTwice
<1>16. Root(v) = Root(t)
  BY <1>9, <1>10, <1>12 DEF Root
<1>17. Root(u) = IF xp = Root(t) THEN w ELSE Root(t)
  BY <1>1, <1>9, <1>10, <1>12, <1>13, <1>14, <1>16, RotatedRoot DEF w
<1>18. BlackOrNull(u, Root(u))
  <2>1. CASE xp = Root(t)
    <3>1. t.color[xp] # "red"
      BY <1>1, <2>1, NodeFacts DEF BlackOrNull, Red
    <3> QED BY <1>2, <1>9, <1>10, <1>12, <1>14, <1>17, <2>1, <3>1 DEF BlackOrNull, Red
  <2>2. CASE xp # Root(t)
    <3>1. w # Root(t)
      <4>1. t.parent[w] = xp
        BY <1>1, ChildFacts DEF w
      <4> QED BY <1>1, <1>2, <4>1, ParentFacts, NodeFacts DEF InNodes
    <3> QED BY <1>1, <1>9, <1>10, <1>12, <1>14, <1>17, <2>2, <3>1, NodeFacts DEF BlackOrNull, Red
  <2> QED BY <2>1, <2>2
<1> QED BY <1>9, <1>10, <1>12, <1>14, <1>15, <1>18

\* What a turn of the loop keeps.
RepairInv(t, c, pos) ==
    {s \in [t : Trees, x : Links, xp : Cells, done : BOOLEAN] :
        /\ Kept(t, s.t, c, pos) /\ RootBlack(s.t, s.x)
        /\ s.done \/ (s.xp \in Inside(t) /\ (s.xp = Header => s.x = Root(s.t)))}

LEMMA RepairStepKept ==
    ASSUME NEW t \in Trees, NEW c, NEW pos, NEW s \in RepairInv(t, c, pos)
    PROVE  RepairStep[s] \in RepairInv(t, c, pos)
<1>1. /\ s \in [t : Trees, x : Links, xp : Cells, done : BOOLEAN]
      /\ Kept(t, s.t, c, pos) /\ RootBlack(s.t, s.x)
      /\ s.done \/ (s.xp \in Inside(t) /\ (s.xp = Header => s.x = Root(s.t)))
  BY DEF RepairInv
<1>2. PICK b : Shape(s.t, c, pos, b)
  BY <1>1 DEF Kept
<1>3. InNodes(s.t) = InNodes(t)
  BY <1>1 DEF Kept
<1>4. PICK d : d = IF s.x = s.t.child["lchild"][s.xp] THEN "lchild" ELSE "rchild"
  OBVIOUS
<1>5. PICK u : u = SiblingRaised(s.t, s.xp, d)
  OBVIOUS
<1>6. PICK w : w = u.child[Opp(d)][s.xp]
  OBVIOUS
<1>7. RepairStep[s] =
         IF s.done \/ s.x = Root(s.t) \/ ~BlackOrNull(s.t, s.x) THEN s
         ELSE IF s.t.child[Opp(d)][s.xp] = Null \/ w = Null
         THEN [s EXCEPT !.t = Crash(s.t), !.done = TRUE]
         ELSE IF \A e \in Sides : BlackOrNull(u, u.child[e][w])
         THEN [s EXCEPT !.t = [u EXCEPT !.color[w] = "red"],
                        !.x = s.xp, !.xp = u.parent[s.xp]]
         ELSE [s EXCEPT !.t = SiblingTurned(OuterRed(u, w, d), s.xp, d), !.done = TRUE]
  BY <1>1, <1>4, <1>5, <1>6 DEF RepairStep
<1>8. d \in Sides
  BY <1>4, SideFacts
<1> HIDE <1>4, <1>5, <1>6
<1>9. CASE s.done \/ s.x = Root(s.t) \/ ~BlackOrNull(s.t, s.x)
  BY <1>7, <1>9
<1>10. CASE ~(s.done \/ s.x = Root(s.t) \/ ~BlackOrNull(s.t, s.x))
  <2>1. s.xp \in InNodes(t) /\ s.xp \in Nodes /\ s.xp \in Links /\ s.xp \in Cells
    BY <1>1, <1>10, NodeFacts DEF Inside, InNodes
  <2>2. BlackOrNull(s.t, Root(s.t))
    BY <1>1, <1>10 DEF RootBlack
  <2>3. CASE s.t.child[Opp(d)][s.xp] = Null \/ w = Null
    <3>1. PICK v : v = Crash(s.t)
      OBVIOUS
    <3>2. RepairStep[s] = [s EXCEPT !.t = v, !.done = TRUE]
      BY <1>7, <1>10, <2>3, <3>1
    <3>3. /\ v \in Trees /\ v.child = s.t.child /\ v.parent = s.t.parent /\ v.color = s.t.color
          /\ v.most_left = s.t.most_left /\ v.count = s.t.count
      BY <1>1, <3>1 DEF Crash, Trees
    <3>4. Kept(s.t, v, c, pos)
      BY <1>2, <3>3, PaintKept
    <3>5. Kept(t, v, c, pos)
      BY <1>1, <3>4, KeptTwice
    <3>6. RootBlack(v, s.x)
      BY <1>1, <3>3 DEF RootBlack, BlackOrNull, Red, Root
    <3>7. RepairStep[s] = [t |-> v, x |-> s.x, xp |-> s.xp, done |-> TRUE]
      BY <1>1, <3>2
    <3> QED BY <1>1, <3>3, <3>5, <3>6, <3>7 DEF RepairInv
  <2>4. CASE ~(s.t.child[Opp(d)][s.xp] = Null \/ w = Null)
    <3>1. Kept(s.t, u, c, pos) /\ u \in Trees /\ BlackOrNull(u, Root(u))
      BY <1>2, <1>3, <1>5, <1>8, <2>1, <2>2, <2>4, SiblingRaisedFacts
    <3>2. PICK b2 : Shape(u, c, pos, b2)
      BY <3>1 DEF Kept
    <3>3. InNodes(u) = InNodes(t) /\ Kept(t, u, c, pos) /\ w # Null
      BY <1>1, <1>3, <2>4, <3>1, KeptTwice DEF Kept
    <3>4. CASE \A e \in Sides : BlackOrNull(u, u.child[e][w])
      <4>1. PICK v : v = [u EXCEPT !.color[w] = "red"]
        OBVIOUS
      <4>2. PICK q : q = u.parent[s.xp]
        OBVIOUS
      <4>3. RepairStep[s] = [s EXCEPT !.t = v, !.x = s.xp, !.xp = q]
        BY <1>7, <1>10, <2>4, <3>4, <4>1, <4>2
      <4>4. RepairStep[s] = [t |-> v, x |-> s.xp, xp |-> q, done |-> FALSE]
        BY <1>1, <1>10, <4>3
      <4>5. /\ v \in Trees /\ v.child = u.child /\ v.parent = u.parent
            /\ v.most_left = u.most_left /\ v.count = u.count /\ v.bad = u.bad
            /\ \A m \in Cells : v.color[m] = IF m = w THEN "red" ELSE u.color[m]
        BY <3>1, <4>1, Painted
      <4>6. Kept(t, v, c, pos)
        <5>1. Kept(u, v, c, pos)
          BY <3>2, <4>5, PaintKept
        <5> QED BY <3>3, <5>1, KeptTwice
      <4>7. q \in Inside(t) /\ q \in Cells /\ (q = Header => s.xp = Root(v))
        <5>1. Root(v) = Root(u)
          BY <4>5 DEF Root
        <5>2. q \in Inside(u) /\ q \in Cells /\ (q = Header => s.xp = Root(u))
          BY <2>1, <3>2, <3>3, <4>2, ParentFacts
        <5> QED BY <3>3, <5>1, <5>2 DEF Inside
      <4>8. RootBlack(v, s.xp)
        <5>1. w # Root(u)
          <6>1. w \in InNodes(u) /\ u.parent[w] = s.xp
            BY <1>6, <1>8, <2>1, <3>2, <3>3, SideFacts, ChildFacts DEF Inside
          <6> QED BY <2>1, <3>2, <6>1, ParentFacts, NodeFacts
        <5>2. Root(v) = Root(u) /\ Root(u) \in Links
          BY <3>1, <4>5, NodeFacts, SideFacts DEF Root, Trees
        <5> QED BY <3>1, <4>5, <5>1, <5>2, NodeFacts DEF RootBlack, BlackOrNull, Red
      <4> QED BY <2>1, <4>4, <4>5, <4>6, <4>7, <4>8 DEF RepairInv
    <3>5. CASE ~(\A e \in Sides : BlackOrNull(u, u.child[e][w]))
      <4>1. PICK e \in Sides : ~BlackOrNull(u, u.child[e][w])
        BY <3>5
      <4>2. PICK a : a = OuterRed(u, w, d)
        OBVIOUS
      <4>3. /\ Kept(u, a, c, pos) /\ a \in Trees /\ BlackOrNull(a, Root(a))
            /\ a.child[Opp(d)][s.xp] # Null
        BY <1>6, <1>8, <2>1, <3>1, <3>2, <3>3, <4>1, <4>2, OuterRedFacts
      <4>4. PICK b3 : Shape(a, c, pos, b3)
        BY <4>3 DEF Kept
      <4>5. InNodes(a) = InNodes(t) /\ Kept(t, a, c, pos)
        BY <3>3, <4>3, KeptTwice DEF Kept
      <4>6. PICK v : v = SiblingTurned(a, s.xp, d)
        OBVIOUS
      <4>7. Kept(a, v, c, pos) /\ v \in Trees /\ BlackOrNull(v, Root(v))
        BY <1>8, <2>1, <4>3, <4>4, <4>5, <4>6, SiblingTurnedFacts
      <4>8. Kept(t, v, c, pos)
        BY <4>5, <4>7, KeptTwice
      <4>9. RepairStep[s] = [s EXCEPT !.t = v, !.done = TRUE]
        BY <1>7, <1>10, <2>4, <3>5, <4>2, <4>6
      <4>10. RepairStep[s] = [t |-> v, x |-> s.x, xp |-> s.xp, done |-> TRUE]
        BY <1>1, <4>9
      <4> QED BY <1>1, <4>7, <4>8, <4>10 DEF RepairInv, RootBlack
    <3> QED BY <3>4, <3>5
  <2> QED BY <2>3, <2>4
<1> QED BY <1>9, <1>10

LEMMA RepairKept ==
    ASSUME NEW t, NEW c, NEW pos, NEW b, Shape(t, c, pos, b),
           NEW x \in Links, NEW xp \in Inside(t), xp = Header => x = Root(t), RootBlack(t, x),
           NEW u, u = Repair(t, x, xp)
    PROVE  Kept(t, u, c, pos) /\ u \in Trees /\ BlackOrNull(u, Root(u))
<1> DEFINE S == RepairInv(t, c, pos)
           s0 == [t |-> t, x |-> x, xp |-> xp, done |-> FALSE]
<1>1. t \in Trees /\ xp \in Cells
  BY NodeFacts DEF Shape, Inside, InNodes
<1>2. s0 \in S
  BY <1>1 DEF RepairInv, Kept
<1>3. \A s \in S : RepairStep[s] \in S
  BY <1>1, RepairStepKept
<1>4. PICK s : s = Iterate(RepairStep, s0, MaxNodes)
  OBVIOUS
<1>5. s \in S
  <2> HIDE DEF S, s0
  <2> QED BY <1>2, <1>3, <1>4, IterateKeeps, NodeFacts
<1>6. u = Blacken(s.t, s.x)
  BY <1>4 DEF Repair
<1> HIDE <1>4
<1>7. s.t \in Trees /\ s.x \in Links /\ Kept(t, s.t, c, pos) /\ RootBlack(s.t, s.x)
  BY <1>5 DEF RepairInv
<1>8. /\ u \in Trees /\ u.child = s.t.child /\ u.parent = s.t.parent
      /\ u.most_left = s.t.most_left /\ u.count = s.t.count /\ u.bad = s.t.bad
      /\ \A m \in Cells : u.color[m] = IF m = s.x THEN "black" ELSE s.t.color[m]
  BY <1>6, <1>7, Blackened
<1> HIDE <1>6
<1>9. Kept(s.t, u, c, pos)
  BY <1>7, <1>8, PaintKept DEF Kept
<1>10. Kept(t, u, c, pos)
  BY <1>7, <1>9, KeptTwice
<1>11. BlackOrNull(u, Root(u))
  <2>1. Root(u) = Root(s.t) /\ Root(s.t) \in Links
    BY <1>7, <1>8, NodeFacts, SideFacts DEF Root, Trees
  <2> QED BY <1>7, <1>8, <2>1, NodeFacts DEF RootBlack, BlackOrNull, Red
<1> QED BY <1>8, <1>10, <1>11

\* destroy_rebalance takes its node out and keeps the rest.
LEMMA DestroyKept ==
    ASSUME NEW t, NEW pos, NEW b, Shape(t, t.count, pos, b), BlackOrNull(t, Root(t)),
           NEW z \in InNodes(t), NEW u, u = Destroy(t, z)
    PROVE  /\ u \in Trees /\ u.count = t.count - 1
           /\ InNodes(u) = InNodes(t) \ {z} /\ BlackOrNull(u, Root(u))
           /\ \E pos2, b2 : Shape(u, u.count, pos2, b2)
<1>1. PICK r : r = Unlink(t, z)
  OBVIOUS
<1>2. Unlinked(t, z, r, t.count - 1)
  BY <1>1, UnlinkedOne, UnlinkedTwo
<1>3. PICK pos2, b2 : Shape(r.t, t.count - 1, pos2, b2)
  BY <1>2 DEF Unlinked
<1>4. PICK v : v = IF r.red THEN r.t ELSE Repair(r.t, r.x, r.xp)
  OBVIOUS
<1>5. u = [v EXCEPT !.count = @ - 1]
  BY <1>1, <1>4 DEF Destroy
<1> HIDE <1>1
<1>6. Kept(r.t, v, t.count - 1, pos2) /\ v \in Trees /\ BlackOrNull(v, Root(v))
  <2>1. CASE r.red
    BY <1>2, <1>3, <1>4, <2>1 DEF Unlinked, Kept
  <2>2. CASE ~r.red
    <3>1. v = Repair(r.t, r.x, r.xp)
      BY <1>4, <2>2
    <3> HIDE <1>4
    <3> QED BY <1>2, <1>3, <3>1, RepairKept DEF Unlinked
  <2> QED BY <2>1, <2>2
<1>7. v.count = t.count /\ t.count - 1 \in Nat
  BY <1>2, <1>3, <1>6 DEF Unlinked, Kept, Shape
<1>8. /\ u \in Trees /\ u.child = v.child /\ u.parent = v.parent /\ u.color = v.color
      /\ u.count = t.count - 1
  BY <1>5, <1>6, <1>7 DEF Trees
<1>9. InNodes(v) = InNodes(t) \ {z} /\ \E b3 : Shape(v, t.count - 1, pos2, b3)
  BY <1>2, <1>6 DEF Unlinked, Kept
<1>10. InNodes(u) = InNodes(v) /\ \E b3 : Shape(u, t.count - 1, pos2, b3)
  BY <1>8, <1>9, PaintShape
<1>11. BlackOrNull(u, Root(u))
  BY <1>6, <1>8 DEF BlackOrNull, Red, Root
<1> QED BY <1>8, <1>9, <1>10, <1>11
---------------------------------------------------------------------------
(* find and remove.                                                        *)

LEMMA KeyOrder ==
    ASSUME NEW t, NEW c, NEW pos, NEW b, Shape(t, c, pos, b),
           NEW m \in InNodes(t), NEW n \in InNodes(t), pos[m] <= pos[n]
    PROVE  key(m) <= key(n)
<1>1. pos[m] \in Int /\ pos[n] \in Int /\ m \in Inside(t) /\ n \in Inside(t)
      /\ key(m) \in Int /\ key(n) \in Int
  BY WidthFacts, KeyFacts DEF Inside, InNodes
<1>2. CASE pos[m] = pos[n]
  <2>1. m = n
    BY <1>1, <1>2 DEF Shape, Ranks
  <2> QED BY <1>1, <2>1
<1>3. CASE pos[m] < pos[n]
  BY <1>3 DEF Shape, Sorted
<1> QED BY <1>1, <1>2, <1>3

\* A root's subtree is the tree.
LEMMA RootFacts ==
    ASSUME NEW t, NEW c, NEW pos, NEW b, Shape(t, c, pos, b)
    PROVE  /\ c \in Nat /\ Header \in Inside(t) /\ pos[Header] = c + 1
           /\ \A n \in InNodes(t) : pos[n] \in 1 .. c /\ n \in Inside(t)
           /\ IF Root(t) = Null THEN c = 0 /\ InNodes(t) = {}
              ELSE /\ Root(t) \in InNodes(t)
                   /\ b["lchild"][Root(t)] = 0 /\ b["rchild"][Root(t)] = c + 1
<1>1. Header \in Inside(t) /\ "lchild" \in Sides /\ Opp("lchild") = "rchild" /\ c \in Nat
  BY SideFacts DEF Inside, Opp, Shape
<1>2. b["lchild"][Header] = 0 /\ pos[Header] = c + 1
  BY DEF Shape, Bounds, Ranks
<1>3. \A n \in InNodes(t) : pos[n] \in 1 .. c /\ n \in Inside(t)
  BY DEF Shape, Ranks, Inside
<1>4. CASE Root(t) = Null
  <2>1. Adjoins("lchild", b["lchild"][Header], pos[Header])
    BY <1>1, <1>4 DEF Shape, Bounds, Root
  <2>2. c = 0
    BY <1>1, <1>2, <2>1 DEF Adjoins
  <2>3. InNodes(t) = {}
    BY <1>3, <2>2
  <2> QED BY <1>1, <1>2, <1>3, <1>4, <2>2, <2>3
<1>5. CASE Root(t) # Null
  BY <1>1, <1>2, <1>3, <1>5, ChildFacts DEF Root
<1> QED BY <1>4, <1>5

\* find() finds a node of the key if there is one.
LEMMA FindFacts ==
    ASSUME NEW t, NEW c, NEW pos, NEW b, Shape(t, c, pos, b), NEW k \in Int,
           NEW w, w = Find(t, k)
    PROVE  IF w = Null THEN \A m \in InNodes(t) : key(m) # k
           ELSE w \in InNodes(t) /\ key(w) = k
<1> DEFINE Good(i, n) ==
              IF n = Null THEN \A m \in InNodes(t) : key(m) # k
              ELSE /\ n \in InNodes(t)
                   /\ \A m \in InNodes(t) :
                         key(m) = k => b["lchild"][n] < pos[m] /\ pos[m] < b["rchild"][n]
                   /\ key(n) = k \/ b["rchild"][n] - b["lchild"][n] <= i + 1
           R == {p \in Nat \X Links : Good(p[1], p[2])}
           f == FindStep(t, k)
<1>1. /\ t \in Trees /\ c \in Nat /\ c <= MaxNodes /\ Root(t) \in Links /\ MaxNodes \in Nat
  BY CountFits, NodeFacts, SideFacts DEF Shape, Root, Trees
<1>2. Good(MaxNodes, Root(t))
  <2>1. \A m \in InNodes(t) : pos[m] \in 1 .. c
    BY RootFacts
  <2> QED BY <1>1, <2>1, RootFacts
<1>3. \A n \in Links :
         f[n] = IF n = Null \/ key(n) = k THEN n
                ELSE t.child[IF k < key(n) THEN "lchild" ELSE "rchild"][n]
  BY DEF FindStep
<1>4. ASSUME NEW n \in Nodes, n # Null, Good(0, n) PROVE key(n) = k
  <2>1. n \in InNodes(t) /\ (key(n) = k \/ b["rchild"][n] - b["lchild"][n] <= 1)
    BY <1>4
  <2>2. /\ pos[n] \in Int /\ b["lchild"][n] \in Int /\ b["rchild"][n] \in Int
        /\ b["lchild"][n] < pos[n] /\ pos[n] < b["rchild"][n]
    BY <2>1, WidthFacts DEF Inside
  <2> QED BY <2>1, <2>2
<1>5. ASSUME NEW n \in Links, NEW i \in Nat, Good(i + 1, n) PROVE f[n] \in Links /\ Good(i, f[n])
  <2>1. CASE n = Null \/ key(n) = k
    <3>1. f[n] = n
      BY <1>3, <2>1
    <3> QED BY <1>5, <2>1, <3>1
  <2>2. CASE ~(n = Null \/ key(n) = k)
    <3>1. PICK d : d = IF k < key(n) THEN "lchild" ELSE "rchild"
      OBVIOUS
    <3>2. PICK w2 : w2 = t.child[d][n]
      OBVIOUS
    <3>3. f[n] = w2
      BY <1>3, <2>2, <3>1, <3>2
    <3>4. /\ n \in InNodes(t) /\ n \in Inside(t) /\ n \in Cells /\ key(n) \in Int
          /\ \A m \in InNodes(t) :
                key(m) = k => b["lchild"][n] < pos[m] /\ pos[m] < b["rchild"][n]
          /\ b["rchild"][n] - b["lchild"][n] <= i + 2
      BY <1>5, <2>2, KeyFacts, NodeFacts DEF Inside, InNodes
    <3>5. d \in Sides /\ w2 \in Links
      BY <1>1, <3>1, <3>2, <3>4, SideFacts DEF Trees
    <3>6. /\ pos[n] \in Int /\ b["lchild"][n] \in Int /\ b["rchild"][n] \in Int
          /\ b["lchild"][n] < pos[n] /\ pos[n] < b["rchild"][n]
      BY <3>4, WidthFacts
    <3>7. ASSUME NEW m \in InNodes(t), key(m) = k PROVE Before(d, pos[m], pos[n]) /\ pos[m] \in Int
      <4>1. pos[m] \in Int
        BY RootFacts
      <4>2. pos[n] <= pos[m] => key(n) <= key(m)
        BY <3>4, KeyOrder
      <4>3. pos[m] <= pos[n] => key(m) <= key(n)
        BY <3>4, KeyOrder
      <4> QED BY <2>2, <3>1, <3>4, <3>6, <3>7, <4>1, <4>2, <4>3, SideFacts DEF Before
    <3>8. CASE w2 = Null
      <4>1. Adjoins(d, b[d][n], pos[n])
        BY <3>2, <3>4, <3>5, <3>8 DEF Shape, Bounds
      <4>2. ASSUME NEW m \in InNodes(t), key(m) = k PROVE FALSE
        <5>1. Before(d, pos[m], pos[n]) /\ pos[m] \in Int
          BY <3>7, <4>2
        <5>2. b["lchild"][n] < pos[m] /\ pos[m] < b["rchild"][n]
          BY <3>4, <4>2
        <5>3. d = "lchild" \/ d = "rchild"
          BY <3>1
        <5> QED BY <3>6, <4>1, <5>1, <5>2, <5>3, SideFacts DEF Before, Adjoins
      <4> QED BY <3>3, <3>5, <3>8, <4>2
    <3>9. CASE w2 # Null
      <4>1. w2 \in InNodes(t) /\ b[d][w2] = b[d][n] /\ b[Opp(d)][w2] = pos[n]
        BY <3>2, <3>4, <3>5, <3>9, ChildFacts
      <4>2. b["rchild"][w2] - b["lchild"][w2] < b["rchild"][n] - b["lchild"][n]
        BY <3>2, <3>4, <3>5, <3>9, WidthFacts
      <4>3. b["rchild"][w2] \in Int /\ b["lchild"][w2] \in Int
        BY <4>1, WidthFacts DEF Inside
      <4>4. ASSUME NEW m \in InNodes(t), key(m) = k
            PROVE  b["lchild"][w2] < pos[m] /\ pos[m] < b["rchild"][w2]
        <5>1. Before(d, pos[m], pos[n])
          BY <3>7, <4>4
        <5>2. b["lchild"][n] < pos[m] /\ pos[m] < b["rchild"][n]
          BY <3>4, <4>4
        <5>3. CASE d = "lchild"
          BY <4>1, <5>1, <5>2, <5>3, SideFacts DEF Before, Opp
        <5>4. CASE d = "rchild"
          BY <4>1, <5>1, <5>2, <5>4, SideFacts DEF Before, Opp
        <5> QED BY <3>1, <5>3, <5>4
      <4>5. b["rchild"][w2] - b["lchild"][w2] <= i + 1
        BY <3>4, <3>6, <4>2, <4>3
      <4> QED BY <3>3, <3>5, <3>9, <4>1, <4>4, <4>5
    <3> QED BY <3>8, <3>9
  <2> QED BY <2>1, <2>2
<1>6. <<0, w>> \in R
  <2>1. \A y : <<0, y>> \in R => <<0, f[y]>> \in R
    <3> SUFFICES ASSUME NEW y \in Links, Good(0, y) PROVE f[y] = y
      OBVIOUS
    <3>1. y # Null => y \in Nodes /\ key(y) = k
      BY <1>4, NodeFacts
    <3> QED BY <1>3, <3>1
  <2>2. \A i \in Nat : \A y : <<i + 1, y>> \in R => <<i, f[y]>> \in R
    <3> SUFFICES ASSUME NEW i \in Nat, NEW y \in Links, Good(i + 1, y)
                 PROVE  f[y] \in Links /\ Good(i, f[y])
      OBVIOUS
    <3> QED BY <1>5
  <2>3. <<MaxNodes, Root(t)>> \in R
    BY <1>1, <1>2
  <2>4. MaxNodes \in Nat /\ MaxNodes <= MaxNodes
    BY <1>1
  <2> HIDE DEF R, f
  <2>5. <<0, Iterate(f, Root(t), MaxNodes)>> \in R
    BY <2>1, <2>2, <2>3, <2>4, LoopRule
  <2> QED BY <2>5 DEF Find, f
<1>7. w \in Links /\ Good(0, w)
  BY <1>6
<1> QED BY <1>4, <1>7, NodeFacts

\* A tree as the calls leave it.
Whole(t) ==
    /\ \E pos, b : Shape(t, t.count, pos, b)
    /\ BlackOrNull(t, Root(t))

LEMMA WholeFind ==
    ASSUME NEW t, Whole(t), NEW k \in Int
    PROVE  IF Find(t, k) = Null THEN \A m \in InNodes(t) : key(m) # k
           ELSE Find(t, k) \in InNodes(t) /\ key(Find(t, k)) = k
BY FindFacts DEF Whole

\* remove(key) takes out the nodes of the key, all of them if it comes to its end.
LEMMA RemovedKept ==
    ASSUME NEW t, Whole(t), NEW k \in Int, NEW u, u = Removed(t, k)
    PROVE  /\ Whole(u)
           /\ ~u.bad => InNodes(u) = {m \in InNodes(t) : key(m) # k}
<1> DEFINE S == {v \in Trees : /\ Whole(v) /\ InNodes(v) \subseteq InNodes(t)
                               /\ \A m \in InNodes(t) \ InNodes(v) : key(m) = k}
           Ends(v) == v.bad \/ Find(v, k) = Null
           R == {p \in Nat \X S : Ends(p[2]) \/ p[2].count <= p[1]}
           f == RemoveStep(k)
<1>1. t \in S /\ t.count <= MaxNodes /\ MaxNodes \in Nat
  BY CountFits, NodeFacts DEF Whole, Shape
<1>2. \A v \in S : f[v] = IF Ends(v) THEN v ELSE Destroy(v, Find(v, k))
  BY DEF RemoveStep
<1>3. ASSUME NEW v \in S, ~Ends(v)
      PROVE  f[v] \in S /\ f[v].count = v.count - 1 /\ v.count \in Nat \ {0}
  <2>1. PICK z : z = Find(v, k)
    OBVIOUS
  <2>2. z \in InNodes(v) /\ key(z) = k
    BY <1>3, <2>1, WholeFind
  <2>3. PICK v2 : v2 = Destroy(v, z)
    OBVIOUS
  <2>4. f[v] = v2
    BY <1>2, <1>3, <2>1, <2>3
  <2>5. PICK pos, b : Shape(v, v.count, pos, b)
    BY DEF Whole
  <2>6. /\ v2 \in Trees /\ v2.count = v.count - 1
        /\ InNodes(v2) = InNodes(v) \ {z} /\ Whole(v2)
    BY <2>2, <2>3, <2>5, DestroyKept DEF Whole
  <2>7. v.count \in Nat \ {0}
    BY <2>2, <2>5, RootFacts
  <2> HIDE <2>1, <2>3
  <2>8. v2 \in S
    BY <2>2, <2>6
  <2> QED BY <2>4, <2>6, <2>7, <2>8
<1>4. ASSUME NEW v \in S, v.count <= 0 PROVE Ends(v)
  BY <1>3, <1>4
<1> HIDE DEF S, Ends, f
<1>5. <<0, u>> \in R
  <2>1. \A y : <<0, y>> \in R => <<0, f[y]>> \in R
    <3> SUFFICES ASSUME NEW y \in S, Ends(y) \/ y.count <= 0 PROVE f[y] = y
      OBVIOUS
    <3> QED BY <1>2, <1>4
  <2>2. \A i \in Nat : \A y : <<i + 1, y>> \in R => <<i, f[y]>> \in R
    <3> SUFFICES ASSUME NEW i \in Nat, NEW y \in S, Ends(y) \/ y.count <= i + 1
                 PROVE  f[y] \in S /\ (Ends(f[y]) \/ f[y].count <= i)
      OBVIOUS
    <3>1. CASE Ends(y)
      BY <1>2, <3>1
    <3>2. CASE ~Ends(y)
      BY <1>3, <3>2
    <3> QED BY <3>1, <3>2
  <2>3. <<MaxNodes, t>> \in R
    BY <1>1
  <2>4. MaxNodes \in Nat /\ MaxNodes <= MaxNodes
    BY <1>1
  <2> HIDE DEF R
  <2>5. <<0, Iterate(f, t, MaxNodes)>> \in R
    BY <2>1, <2>2, <2>3, <2>4, LoopRule
  <2> QED BY <2>5 DEF Removed, f
<1>6. u \in S /\ Ends(u)
  BY <1>4, <1>5
<1>7. ~u.bad => \A m \in InNodes(u) : key(m) # k
  BY <1>6, WholeFind DEF S, Ends
<1> QED BY <1>6, <1>7 DEF S
---------------------------------------------------------------------------
(* The state.                                                              *)

TreeInv ==
    /\ Whole(tree)
    /\ removals \in 0 .. MaxRemovals
    /\ removals = 0 => \E pos, b : Shape(tree, tree.count, pos, b) /\ First(tree, pos)

LEMMA InitShape ==
    ASSUME Init
    PROVE  /\ InNodes(tree) = {} /\ Root(tree) = Null
           /\ \E pos, b : Shape(tree, tree.count, pos, b) /\ First(tree, pos)
<1> DEFINE pos == [n \in Cells |-> 1]
           b == [d \in Sides |-> [n \in Cells |-> IF d = "lchild" THEN 0 ELSE 2]]
<1>1. /\ tree \in Trees /\ tree.count = 0 /\ tree.most_left = Header
      /\ \A d \in Sides, n \in Cells : tree.child[d][n] = Null
      /\ \A n \in Cells : tree.parent[n] = Null
  BY NodeFacts, SideFacts DEF Init, Trees
<1>2. Header \in Cells /\ Nodes \subseteq Cells /\ Header # Null
  BY NodeFacts
<1>3. InNodes(tree) = {} /\ Inside(tree) = {Header}
  BY <1>1, <1>2 DEF InNodes, InTree, Inside
<1>4. Linked(tree)
  BY <1>1, <1>2, <1>3, SideFacts DEF Linked
<1>5. Ranks(tree, 0, pos)
  BY <1>2, <1>3, FS_EmptySet DEF Ranks
<1>6. Bounds(tree, 0, pos, b)
  <2>1. b \in [Sides -> [Cells -> Int]]
    OBVIOUS
  <2>2. b["lchild"][Header] = 0 /\ b["rchild"][Header] = 2 /\ pos[Header] = 1
    BY <1>2, SideFacts
  <2> HIDE DEF b, pos
  <2> QED BY <1>1, <1>2, <1>3, <2>1, <2>2, SideFacts DEF Bounds, Before, Adjoins, Sides
<1>7. Gaps(tree, pos) /\ Sorted(tree, pos)
  BY <1>2, <1>3 DEF Gaps, Sorted
<1>8. First(tree, pos)
  BY <1>1, <1>2, <1>3 DEF First
<1>9. Shape(tree, tree.count, pos, b)
  BY <1>1, <1>4, <1>5, <1>6, <1>7 DEF Shape
<1>10. Root(tree) = Null
  BY <1>1, <1>2, SideFacts DEF Root
<1> QED BY <1>3, <1>8, <1>9, <1>10

\* What the calls do to the nodes.
LEMMA InsertStep ==
    ASSUME TreeInv, NEW k \in Keys, Insert(k)
    PROVE  TreeInv' /\ \E n \in Nodes \ InNodes(tree) : InNodes(tree)' = InNodes(tree) \cup {n}
<1>1. PICK n \in Unused(k) : tree' = Inserted(tree, n)
  BY DEF Insert
<1>2. n \in Nodes \ InNodes(tree) /\ removals' = removals
  BY <1>1 DEF Unused, InNodes, Insert
<1>3. BlackOrNull(tree, Root(tree))
  BY DEF TreeInv, Whole
<1>4. ASSUME NEW pos, NEW b, Shape(tree, tree.count, pos, b)
      PROVE  /\ InNodes(tree') = InNodes(tree) \cup {n} /\ BlackOrNull(tree', Root(tree'))
             /\ \E pos2, b2 : Shape(tree', tree'.count, pos2, b2)
                              /\ (First(tree, pos) => First(tree', pos2))
  BY <1>1, <1>2, <1>3, <1>4, InsertedKept
<1>5. InNodes(tree') = InNodes(tree) \cup {n} /\ Whole(tree')
  BY <1>4 DEF TreeInv, Whole
<1>6. removals = 0 => \E pos, b : Shape(tree', tree'.count, pos, b) /\ First(tree', pos)
  BY <1>4 DEF TreeInv
<1> QED BY <1>2, <1>5, <1>6 DEF TreeInv

LEMMA CrashKept ==
    ASSUME NEW t, Whole(t), NEW u, u = Crash(t)
    PROVE  Whole(u) /\ InNodes(u) = InNodes(t)
<1>1. t \in Trees
  BY DEF Whole, Shape
<1>2. /\ u \in Trees /\ u.child = t.child /\ u.parent = t.parent /\ u.color = t.color
      /\ u.count = t.count
  BY <1>1 DEF Crash, Trees
<1>3. BlackOrNull(u, Root(u))
  BY <1>2 DEF Whole, BlackOrNull, Red, Root
<1> HIDE DEF Crash
<1> QED BY <1>2, <1>3, PaintShape DEF Whole

\* A call that did not come to its end leaves the tree it found.
LEMMA BecomesKept ==
    ASSUME NEW t, Whole(t), Whole(tree), Becomes(t)
    PROVE  /\ Whole(tree')
           /\ InNodes(tree') = IF t.bad THEN InNodes(tree) ELSE InNodes(t)
BY CrashKept DEF Becomes

LEMMA RemoveStepKeeps ==
    ASSUME TreeInv, NEW k \in Keys, Remove(k)
    PROVE  /\ TreeInv'
           /\ \/ InNodes(tree)' = InNodes(tree)
              \/ \E n \in InNodes(tree) :
                    InNodes(tree)' = {m \in InNodes(tree) : key(m) # key(n)}
<1>1. Whole(tree) /\ k \in Int
  BY TreeAssumptions DEF TreeInv, Keys
<1>2. PICK u : u = Removed(tree, k)
  OBVIOUS
<1>3. Whole(u) /\ (~u.bad => InNodes(u) = {m \in InNodes(tree) : key(m) # k})
  BY <1>1, <1>2, RemovedKept
<1>4. Becomes(u)
  BY <1>2 DEF Remove
<1>5. Whole(tree') /\ InNodes(tree') = IF u.bad THEN InNodes(tree) ELSE InNodes(u)
  <2> HIDE <1>2
  <2> QED BY <1>1, <1>3, <1>4, BecomesKept
<1>6. removals' = removals + 1 /\ removals < MaxRemovals /\ removals \in 0 .. MaxRemovals
  BY DEF Remove, TreeInv
<1>7. TreeInv'
  BY <1>5, <1>6, TreeAssumptions DEF TreeInv
<1>8. Find(tree, k) \in InNodes(tree) /\ key(Find(tree, k)) = k
  BY <1>1, WholeFind DEF Remove
<1>9. CASE u.bad
  BY <1>5, <1>7, <1>9
<1>10. CASE ~u.bad
  <2>1. PICK n \in InNodes(tree) : key(n) = k
    BY <1>8
  <2>2. InNodes(tree') = {m \in InNodes(tree) : key(m) # key(n)}
    BY <1>3, <1>5, <1>10, <2>1
  <2> QED BY <1>7, <2>2
<1> QED BY <1>9, <1>10

LEMMA EraseStepKeeps ==
    ASSUME TreeInv, NEW n \in Nodes, Erase(n)
    PROVE  /\ TreeInv'
           /\ \/ InNodes(tree)' = InNodes(tree)
              \/ InNodes(tree)' = InNodes(tree) \ {n}
<1>1. Whole(tree) /\ n \in InNodes(tree)
  BY DEF TreeInv, Erase, InNodes
<1>2. PICK u : u = Destroy(tree, n)
  OBVIOUS
<1>3. Whole(u) /\ InNodes(u) = InNodes(tree) \ {n}
  BY <1>1, <1>2, DestroyKept DEF Whole
<1>4. Becomes(u)
  BY <1>2 DEF Erase
<1>5. Whole(tree') /\ InNodes(tree') = IF u.bad THEN InNodes(tree) ELSE InNodes(u)
  <2> HIDE <1>2
  <2> QED BY <1>1, <1>3, <1>4, BecomesKept
<1>6. removals' = removals + 1 /\ removals < MaxRemovals /\ removals \in 0 .. MaxRemovals
  BY DEF Erase, TreeInv
<1>7. TreeInv'
  BY <1>5, <1>6, TreeAssumptions DEF TreeInv
<1> QED BY <1>3, <1>5, <1>7

\* Every reachable tree has the shape, and a first node as long as nothing
\* was removed.
THEOREM TreeInvariant == Spec => []TreeInv
<1>1. Init => TreeInv
  <2> SUFFICES ASSUME Init PROVE TreeInv
    OBVIOUS
  <2>1. /\ Root(tree) = Null
        /\ \E pos, b : Shape(tree, tree.count, pos, b) /\ First(tree, pos)
    BY InitShape
  <2>2. removals \in 0 .. MaxRemovals
    BY TreeAssumptions DEF Init
  <2> QED BY <2>1, <2>2 DEF TreeInv, Whole, BlackOrNull
<1>2. TreeInv /\ [Next]_vars => TreeInv'
  <2> SUFFICES ASSUME TreeInv, [Next]_vars PROVE TreeInv'
    OBVIOUS
  <2>1. ASSUME NEW k \in Keys, Insert(k) PROVE TreeInv'
    BY <2>1, InsertStep
  <2>2. ASSUME NEW k \in Keys, Remove(k) PROVE TreeInv'
    BY <2>2, RemoveStepKeeps
  <2>3. ASSUME NEW n \in Nodes, Erase(n) PROVE TreeInv'
    BY <2>3, EraseStepKeeps
  <2>4. CASE UNCHANGED vars
    BY <2>4 DEF vars, TreeInv
  <2> QED BY <2>1, <2>2, <2>3, <2>4 DEF Next
<1> QED BY <1>1, <1>2, PTL DEF Spec

\* The state has its type, and the map never counts more nodes than there are.
THEOREM TypeCorrect == Spec => []TypeOK
<1>1. TreeInv => TypeOK
  BY CountFits DEF TreeInv, TypeOK, Whole, Shape
<1> QED BY <1>1, TreeInvariant, PTL
---------------------------------------------------------------------------
(* The order of the links.                                                 *)

\* s holds the nodes numbered from i to j - 1, in that order.
Slice(t, pos, s, i, j) ==
    /\ s \in Seq(Nodes) /\ Len(s) = j - i
    /\ \A h \in 1 .. Len(s) : s[h] \in InNodes(t) /\ pos[s[h]] = i - 1 + h

LEMMA SliceEmpty ==
    ASSUME NEW t, NEW pos, NEW i \in Int
    PROVE  Slice(t, pos, <<>>, i, i)
BY DEF Slice

\* Two slices and the node between them.
LEMMA SliceJoin ==
    ASSUME NEW t, NEW pos, NEW s, NEW r, NEW i \in Int, NEW j \in Int, NEW h \in Int,
           NEW n \in InNodes(t), pos[n] = j,
           Slice(t, pos, s, i, j), Slice(t, pos, r, j + 1, h)
    PROVE  Slice(t, pos, s \o <<n>> \o r, i, h)
<1> DEFINE q == s \o <<n>> \o r
<1>1. n \in Nodes
  BY DEF InNodes
<1>2. s \in Seq(Nodes) /\ r \in Seq(Nodes) /\ Len(s) = j - i /\ Len(r) = h - (j + 1)
  BY DEF Slice
<1>3. q \in Seq(Nodes) /\ Len(q) = h - i
  BY <1>1, <1>2
<1>4. ASSUME NEW k \in 1 .. Len(q) PROVE q[k] \in InNodes(t) /\ pos[q[k]] = i - 1 + k
  <2>1. CASE k <= Len(s)
    <3>1. q[k] = s[k] /\ k \in 1 .. Len(s)
      BY <1>1, <1>2, <2>1
    <3> QED BY <3>1 DEF Slice
  <2>2. CASE k = Len(s) + 1
    <3>1. q[k] = n
      BY <1>1, <1>2, <2>2
    <3> QED BY <1>2, <2>2, <3>1
  <2>3. CASE k > Len(s) + 1
    <3>1. q[k] = r[k - (Len(s) + 1)] /\ k - (Len(s) + 1) \in 1 .. Len(r)
      BY <1>1, <1>2, <1>3, <2>3
    <3>2. pos[q[k]] = (j + 1) - 1 + (k - (Len(s) + 1)) /\ q[k] \in InNodes(t)
      BY <3>1 DEF Slice
    <3> QED BY <1>2, <3>2
  <2> QED BY <1>2, <2>1, <2>2, <2>3
<1> QED BY <1>3, <1>4 DEF Slice

\* The subtree of a child, down to a depth that is enough for it.
LEMMA SliceOfChild ==
    ASSUME NEW t, NEW c, NEW pos, NEW b, Shape(t, c, pos, b), NEW g, NEW k \in Nat,
           g[Null] = <<>>,
           \A m \in InNodes(t) : b["rchild"][m] - b["lchild"][m] <= k + 1
               => Slice(t, pos, g[m], b["lchild"][m] + 1, b["rchild"][m]),
           NEW n \in InNodes(t), b["rchild"][n] - b["lchild"][n] <= k + 2
    PROVE  /\ Slice(t, pos, g[t.child["lchild"][n]], b["lchild"][n] + 1, pos[n])
           /\ Slice(t, pos, g[t.child["rchild"][n]], pos[n] + 1, b["rchild"][n])
<1>1. n \in Inside(t) /\ "lchild" \in Sides /\ "rchild" \in Sides
      /\ Opp("lchild") = "rchild" /\ Opp("rchild") = "lchild"
  BY SideFacts DEF Inside, Opp
<1>2. pos[n] \in Int /\ b["lchild"][n] \in Int /\ b["rchild"][n] \in Int
  BY <1>1, WidthFacts
<1>3. ASSUME NEW d \in Sides, t.child[d][n] = Null PROVE Adjoins(d, b[d][n], pos[n])
  BY <1>1, <1>3 DEF Shape, Bounds
<1>4. ASSUME NEW d \in Sides, t.child[d][n] # Null
      PROVE  LET m == t.child[d][n]
             IN  /\ m \in InNodes(t) /\ b[d][m] = b[d][n] /\ b[Opp(d)][m] = pos[n]
                 /\ b["rchild"][m] - b["lchild"][m] <= k + 1
  <2> DEFINE m == t.child[d][n]
  <2>1. m \in InNodes(t) /\ b[d][m] = b[d][n] /\ b[Opp(d)][m] = pos[n]
    BY <1>1, <1>4, ChildFacts
  <2>2. b["rchild"][m] - b["lchild"][m] < b["rchild"][n] - b["lchild"][n]
    BY <1>1, <1>4, WidthFacts
  <2>3. b["lchild"][m] \in Int /\ b["rchild"][m] \in Int
    BY <2>1, WidthFacts DEF Inside
  <2> HIDE DEF m
  <2>4. b["rchild"][m] - b["lchild"][m] <= k + 1
    BY <1>2, <2>2, <2>3
  <2> QED BY <2>1, <2>4 DEF m
<1>5. Slice(t, pos, g[t.child["lchild"][n]], b["lchild"][n] + 1, pos[n])
  <2>1. CASE t.child["lchild"][n] = Null
    <3>1. b["lchild"][n] + 1 = pos[n]
      BY <1>1, <1>2, <1>3, <2>1 DEF Adjoins
    <3> QED BY <1>2, <2>1, <3>1, SliceEmpty
  <2>2. CASE t.child["lchild"][n] # Null
    BY <1>1, <1>4, <2>2
  <2> QED BY <2>1, <2>2
<1>6. Slice(t, pos, g[t.child["rchild"][n]], pos[n] + 1, b["rchild"][n])
  <2>1. CASE t.child["rchild"][n] = Null
    <3>1. b["rchild"][n] = pos[n] + 1
      BY <1>1, <1>2, <1>3, <2>1, SideFacts DEF Adjoins
    <3> QED BY <1>2, <2>1, <3>1, SliceEmpty
  <2>2. CASE t.child["rchild"][n] # Null
    BY <1>1, <1>4, <2>2
  <2> QED BY <2>1, <2>2
<1> QED BY <1>5, <1>6

\* The order of the links is that of the numbers.
LEMMA OrderSlice ==
    ASSUME NEW t, NEW c, NEW pos, NEW b, Shape(t, c, pos, b)
    PROVE  Slice(t, pos, InOrder(t)[Root(t)], 1, c + 1)
<1> DEFINE f == OrderStep(t)
           g0 == [n \in Links |-> <<>>]
           G(k) == Iterate(f, g0, k)
           Good(g, k) ==
              /\ g \in [Links -> Seq(Nodes)] /\ g[Null] = <<>>
              /\ \A m \in InNodes(t) : b["rchild"][m] - b["lchild"][m] <= k + 1
                    => Slice(t, pos, g[m], b["lchild"][m] + 1, b["rchild"][m])
           T == {k \in Nat : Good(G(k), k)}
<1>1. /\ t \in Trees /\ InNodes(t) \subseteq Nodes /\ InNodes(t) \subseteq Cells
      /\ InNodes(t) \subseteq Inside(t) /\ Nodes \subseteq Links /\ Null \in Links
      /\ Null \notin Nodes /\ "lchild" \in Sides /\ "rchild" \in Sides /\ Nodes \subseteq Cells
      /\ Links \ {Null} = Nodes
  BY NodeFacts, SideFacts DEF Shape, InNodes, Inside
<1>2. \A g \in [Links -> Seq(Nodes)], n \in Links :
         f[g][n] = IF n = Null THEN <<>>
                   ELSE g[t.child["lchild"][n]] \o <<n>> \o g[t.child["rchild"][n]]
  BY DEF OrderStep
<1>3. \A g \in [Links -> Seq(Nodes)] : f[g] \in [Links -> Seq(Nodes)]
  <2> SUFFICES ASSUME NEW g \in [Links -> Seq(Nodes)] PROVE f[g] \in [Links -> Seq(Nodes)]
    OBVIOUS
  <2>1. \A n \in Links : f[g][n] \in Seq(Nodes)
    <3> SUFFICES ASSUME NEW n \in Links PROVE f[g][n] \in Seq(Nodes)
      OBVIOUS
    <3> HIDE DEF f
    <3>1. CASE n = Null
      <4>1. f[g][n] = <<>>
        BY <1>2, <3>1
      <4>2. <<>> \in Seq(Nodes)
        OBVIOUS
      <4> QED BY <4>1, <4>2
    <3>2. CASE n # Null
      <4>1. n \in Nodes /\ n \in Cells
        BY <1>1, <3>2
      <4>2. t.child["lchild"][n] \in Links /\ t.child["rchild"][n] \in Links
        BY <1>1, <4>1 DEF Trees
      <4>3. /\ g[t.child["lchild"][n]] \in Seq(Nodes)
            /\ g[t.child["rchild"][n]] \in Seq(Nodes) /\ <<n>> \in Seq(Nodes)
        BY <4>1, <4>2
      <4>4. g[t.child["lchild"][n]] \o <<n>> \o g[t.child["rchild"][n]] \in Seq(Nodes)
        BY <4>3
      <4> QED BY <1>2, <3>2, <4>4
    <3> QED BY <3>1, <3>2
  <2>2. f[g] = [n \in Links |-> f[g][n]]
    BY DEF OrderStep
  <2> HIDE DEF f
  <2> QED BY <2>1, <2>2
<1>4. G(0) = g0 /\ \A k \in Nat : G(k + 1) = f[G(k)]
  BY IterateSteps
<1>5. Good(g0, 0)
  <2>1. g0 \in [Links -> Seq(Nodes)] /\ g0[Null] = <<>>
    BY <1>1
  <2>2. ASSUME NEW m \in InNodes(t), b["rchild"][m] - b["lchild"][m] <= 0 + 1 PROVE FALSE
    <3>1. /\ pos[m] \in Int /\ b["lchild"][m] \in Int /\ b["rchild"][m] \in Int
          /\ b["lchild"][m] < pos[m] /\ pos[m] < b["rchild"][m]
      BY <1>1, WidthFacts
    <3> QED BY <2>2, <3>1
  <2> HIDE DEF g0
  <2> QED BY <2>1, <2>2
<1>6. ASSUME NEW k \in Nat, NEW g, Good(g, k) PROVE Good(f[g], k + 1)
  <2>1. f[g] \in [Links -> Seq(Nodes)] /\ f[g][Null] = <<>>
    BY <1>1, <1>2, <1>3, <1>6
  <2>2. ASSUME NEW m \in InNodes(t), b["rchild"][m] - b["lchild"][m] <= (k + 1) + 1
        PROVE  Slice(t, pos, f[g][m], b["lchild"][m] + 1, b["rchild"][m])
    <3>1. m \in Links /\ m # Null
      BY <1>1
    <3>2. f[g][m] = g[t.child["lchild"][m]] \o <<m>> \o g[t.child["rchild"][m]]
      BY <1>2, <1>6, <3>1
    <3>3. pos[m] \in Int /\ b["lchild"][m] \in Int /\ b["rchild"][m] \in Int
      BY <1>1, WidthFacts
    <3>4. b["rchild"][m] - b["lchild"][m] <= k + 2
      BY <2>2, <3>3
    <3>5. /\ Slice(t, pos, g[t.child["lchild"][m]], b["lchild"][m] + 1, pos[m])
          /\ Slice(t, pos, g[t.child["rchild"][m]], pos[m] + 1, b["rchild"][m])
      <4> HIDE DEF f
      <4> QED BY <1>6, <3>4, SliceOfChild
    <3> HIDE DEF f
    <3>6. PICK i, j, k2 : i = b["lchild"][m] + 1 /\ j = pos[m] /\ k2 = b["rchild"][m]
      OBVIOUS
    <3>7. PICK r, q : r = g[t.child["lchild"][m]] /\ q = g[t.child["rchild"][m]]
      OBVIOUS
    <3>8. /\ i \in Int /\ j \in Int /\ k2 \in Int /\ m \in InNodes(t) /\ pos[m] = j
          /\ Slice(t, pos, r, i, j) /\ Slice(t, pos, q, j + 1, k2)
      BY <3>3, <3>5, <3>6, <3>7
    <3>9. Slice(t, pos, r \o <<m>> \o q, i, k2)
      BY ONLY <3>8, SliceJoin
    <3> QED BY <3>2, <3>6, <3>7, <3>9
  <2> HIDE DEF f
  <2> QED BY <2>1, <2>2
<1>7. \A k \in Nat : k \in T
  <2>1. 0 \in T
    <3> HIDE DEF G, Good
    <3> QED BY <1>4, <1>5
  <2>2. \A k \in Nat : k \in T => k + 1 \in T
    <3> HIDE DEF G, Good
    <3> QED BY <1>4, <1>6
  <2> HIDE DEF T
  <2> QED BY <2>1, <2>2, NatSet
<1>8. Good(InOrder(t), MaxNodes)
  <2>1. G(MaxNodes) = InOrder(t)
    BY DEF InOrder
  <2>2. MaxNodes \in T
    <3> HIDE DEF T
    <3> QED BY <1>7, NodeFacts
  <2> HIDE DEF G, Good
  <2> QED BY <2>1, <2>2
<1>9. c \in Nat /\ c <= MaxNodes /\ MaxNodes \in Nat
  BY CountFits, NodeFacts DEF Shape
<1>10. CASE Root(t) = Null
  <2>1. c = 0
    BY <1>10, RootFacts
  <2>2. InOrder(t)[Root(t)] = <<>>
    BY <1>8, <1>10
  <2> QED BY <2>1, <2>2, SliceEmpty
<1>11. CASE Root(t) # Null
  <2>1. /\ Root(t) \in InNodes(t) /\ b["lchild"][Root(t)] = 0
        /\ b["rchild"][Root(t)] = c + 1
    BY <1>11, RootFacts
  <2>2. b["rchild"][Root(t)] - b["lchild"][Root(t)] <= MaxNodes + 1
    BY <1>9, <2>1
  <2>3. Slice(t, pos, InOrder(t)[Root(t)], b["lchild"][Root(t)] + 1, b["rchild"][Root(t)])
    BY <1>8, <2>1, <2>2
  <2> QED BY <2>1, <2>3
<1> QED BY <1>10, <1>11

LEMMA OrderFacts ==
    ASSUME NEW c, NEW pos, NEW b, Shape(tree, c, pos, b)
    PROVE  /\ c \in Nat /\ Order \in Seq(Nodes) /\ Len(Order) = c
           /\ \A i \in 1 .. c : Order[i] \in InNodes(tree) /\ pos[Order[i]] = i
           /\ \A n \in InNodes(tree) : pos[n] \in 1 .. c /\ Order[pos[n]] = n
           /\ OrderSet = InNodes(tree)
<1>1. c \in Nat /\ Slice(tree, pos, Order, 1, c + 1)
  BY OrderSlice DEF Order, Shape
<1>2. Order \in Seq(Nodes) /\ Len(Order) = c
  BY <1>1 DEF Slice
<1>3. \A i \in 1 .. c : Order[i] \in InNodes(tree) /\ pos[Order[i]] = i
  BY <1>1, <1>2 DEF Slice
<1> HIDE DEF Order
<1>4. ASSUME NEW n \in InNodes(tree) PROVE pos[n] \in 1 .. c /\ Order[pos[n]] = n
  <2>1. pos[n] \in 1 .. c
    BY RootFacts
  <2>2. Order[pos[n]] \in InNodes(tree) /\ pos[Order[pos[n]]] = pos[n]
    BY <1>3, <2>1
  <2> QED BY <2>1, <2>2 DEF Shape, Ranks, Inside
<1>5. DOMAIN Order = 1 .. c
  BY <1>2
<1>6. OrderSet = InNodes(tree)
  BY <1>3, <1>4, <1>5 DEF OrderSet
<1> QED BY <1>1, <1>2, <1>3, <1>4, <1>6

LEMMA WholeNodes ==
    ASSUME Whole(tree)
    PROVE  OrderSet = InNodes(tree)
BY OrderFacts DEF Whole

\* The tree is a search tree that find() agrees with, whatever was inserted and
\* removed: the four parts of SearchTree, from the numbering of its nodes.
THEOREM SearchTreeCorrect == Spec => []SearchTree
<1>1. TreeInv => SearchTree
  <2> SUFFICES ASSUME TreeInv PROVE SearchTree
    OBVIOUS
  <2>1. Whole(tree)
    BY DEF TreeInv
  <2>2. PICK pos, b : Shape(tree, tree.count, pos, b)
    BY <2>1 DEF Whole
  <2>3. /\ tree.count \in Nat /\ DOMAIN Order = 1 .. tree.count
        /\ \A i \in 1 .. tree.count : Order[i] \in InNodes(tree) /\ pos[Order[i]] = i
        /\ OrderSet = InNodes(tree)
    BY <2>2, OrderFacts
  <2>4. ASSUME NEW i \in DOMAIN Order, NEW j \in DOMAIN Order, i < j
        PROVE  key(Order[i]) <= key(Order[j])
    <3>1. Order[i] \in InNodes(tree) /\ pos[Order[i]] = i
      BY <2>3
    <3>2. Order[j] \in InNodes(tree) /\ pos[Order[j]] = j
      BY <2>3
    <3>3. pos[Order[i]] <= pos[Order[j]]
      BY <2>3, <2>4, <3>1, <3>2
    <3> QED BY <2>2, <3>1, <3>2, <3>3, KeyOrder
  <2>5. ASSUME NEW k \in Keys
        PROVE  Find(tree, k) # Null <=> \E n \in OrderSet : key(n) = k
    <3>1. k \in Int
      BY TreeAssumptions DEF Keys
    <3> QED BY <2>1, <2>3, <3>1, WholeFind
  <2>6. \A n \in OrderSet : n = tree.child[Side(tree, n)][tree.parent[n]]
    BY <2>2, <2>3, ParentFacts
  <2>7. tree.count = Cardinality(OrderSet)
    BY <2>2, <2>3, CountFits
  <2> QED BY <2>4, <2>5, <2>6, <2>7 DEF SearchTree
<1> QED BY <1>1, TreeInvariant, PTL

\* The calls are those of a map: an insertion adds a node, remove() takes all
\* nodes of a key and erase() one; a call that crashes changes nothing.
THEOREM MapCorrect == Spec => MapServiceSpec
<1>1. Init => Map!Init
  <2> SUFFICES ASSUME Init PROVE OrderSet = {}
    BY DEF Map!Init
  <2>1. InNodes(tree) = {} /\ \E pos, b : Shape(tree, tree.count, pos, b)
    BY InitShape
  <2> QED BY <2>1, OrderFacts
<1>2. TreeInv /\ TreeInv' /\ [Next]_vars => [Map!Next]_OrderSet
  <2> SUFFICES ASSUME TreeInv, TreeInv', [Next]_vars PROVE [Map!Next]_OrderSet
    OBVIOUS
  <2>1. OrderSet = InNodes(tree)
    BY WholeNodes DEF TreeInv
  <2>2. Whole(tree) => OrderSet = InNodes(tree)
    BY WholeNodes
  <2>3. (Whole(tree) => OrderSet = InNodes(tree))'
    BY WholeNodes, PTL
  <2>4. OrderSet' = InNodes(tree)'
    BY <2>3 DEF TreeInv
  <2>5. InNodes(tree) \subseteq Nodes
    BY DEF InNodes
  <2>6. ASSUME NEW k \in Keys, Insert(k) PROVE Map!Add
    BY <2>1, <2>4, <2>6, InsertStep DEF Map!Add
  <2>7. ASSUME NEW k \in Keys, Remove(k) PROVE Map!DropKey \/ UNCHANGED OrderSet
    BY <2>1, <2>4, <2>7, RemoveStepKeeps DEF Map!DropKey
  <2>8. ASSUME NEW n \in Nodes, Erase(n) PROVE Map!Drop \/ UNCHANGED OrderSet
    <3>1. n \in OrderSet
      BY <2>1, <2>8 DEF Erase, InNodes
    <3> QED BY <2>1, <2>4, <2>8, <3>1, EraseStepKeeps DEF Map!Drop
  <2>9. CASE UNCHANGED vars
    BY <2>1, <2>4, <2>9 DEF vars, InNodes, InTree
  <2> QED BY <2>6, <2>7, <2>8, <2>9 DEF Next, Map!Next
<1> QED BY <1>1, <1>2, TreeInvariant, PTL DEF Spec, MapServiceSpec, Map!Spec
---------------------------------------------------------------------------
(* Iterators.                                                              *)

\* next() and prev() go up until they come from the other side, or to the header.
LEMMA ClimbEnds ==
    ASSUME NEW t, NEW c, NEW pos, NEW b, Shape(t, c, pos, b),
           NEW n \in Inside(t), NEW d \in Sides,
           NEW a, a = Iterate(ClimbStep(t, d), n, MaxNodes)
    PROVE  /\ a \in Inside(t) /\ b[d][a] = b[d][n]
           /\ a # Header => t.parent[a] \in Inside(t) /\ t.child[Opp(d)][t.parent[a]] = a
<1> DEFINE width(m) == b["rchild"][m] - b["lchild"][m]
           Ends(m) == m = Header \/ t.child[d][t.parent[m]] # m
           R == {p \in Nat \X Inside(t) :
                    /\ b[d][p[2]] = b[d][n]
                    /\ Ends(p[2]) \/ width(p[2]) + p[1] >= c + 2}
           f == ClimbStep(t, d)
<1>1. /\ t \in Trees /\ c \in Nat /\ c <= MaxNodes /\ MaxNodes \in Nat
      /\ Inside(t) \subseteq Cells /\ t.parent[Header] = Null
  BY CountFits, NodeFacts DEF Shape, Linked, Inside, InNodes
<1>2. \A m \in Inside(t) :
         m # Header => m \in InNodes(t) /\ t.parent[m] # Null /\ t.parent[m] \in Inside(t)
  BY DEF Inside, InNodes, InTree, Shape, Linked
<1>3. \A m \in Inside(t) : f[m] = IF Ends(m) THEN m ELSE t.parent[m]
  BY <1>1, <1>2 DEF ClimbStep
<1>4. ASSUME NEW m \in Inside(t), ~Ends(m)
      PROVE  /\ t.parent[m] \in Inside(t) /\ b[d][t.parent[m]] = b[d][m]
             /\ width(m) < width(t.parent[m])
  <2>1. t.parent[m] \in Inside(t) /\ t.child[d][t.parent[m]] = m /\ m # Null
    BY <1>1, <1>2, <1>4, NodeFacts
  <2> QED BY <2>1, ChildFacts, WidthFacts
<1>5. \A m \in Inside(t) : width(m) \in Int /\ 2 <= width(m) /\ width(m) <= c + 2
  <2> SUFFICES ASSUME NEW m \in Inside(t)
               PROVE  width(m) \in Int /\ 2 <= width(m) /\ width(m) <= c + 2
    OBVIOUS
  <2>1. /\ pos[m] \in Int /\ b["lchild"][m] \in Int /\ b["rchild"][m] \in Int
        /\ 0 <= b["lchild"][m] /\ b["lchild"][m] < pos[m]
        /\ pos[m] < b["rchild"][m] /\ b["rchild"][m] <= c + 2
    BY WidthFacts
  <2> QED BY <1>1, <2>1
<1> HIDE DEF Ends, width, f
<1>6. <<0, a>> \in R
  <2>1. \A y : <<0, y>> \in R => <<0, f[y]>> \in R
    <3> SUFFICES ASSUME NEW y \in Inside(t), Ends(y) \/ width(y) + 0 >= c + 2 PROVE f[y] = y
      OBVIOUS
    <3>1. Ends(y)
      <4> SUFFICES ASSUME ~Ends(y) PROVE FALSE
        OBVIOUS
      <4>1. t.parent[y] \in Inside(t) /\ width(y) < width(t.parent[y])
        BY <1>4
      <4>2. /\ width(y) \in Int /\ width(t.parent[y]) \in Int
            /\ width(t.parent[y]) <= c + 2
        BY <1>5, <4>1
      <4> QED BY <1>1, <4>1, <4>2
    <3> QED BY <1>3, <3>1
  <2>2. \A i \in Nat : \A y : <<i + 1, y>> \in R => <<i, f[y]>> \in R
    <3> SUFFICES ASSUME NEW i \in Nat, NEW y \in Inside(t), b[d][y] = b[d][n],
                        Ends(y) \/ width(y) + (i + 1) >= c + 2
                 PROVE  /\ f[y] \in Inside(t) /\ b[d][f[y]] = b[d][n]
                        /\ Ends(f[y]) \/ width(f[y]) + i >= c + 2
      OBVIOUS
    <3>1. CASE Ends(y)
      BY <1>3, <3>1
    <3>2. CASE ~Ends(y)
      <4>1. /\ f[y] \in Inside(t) /\ b[d][f[y]] = b[d][n] /\ width(y) < width(f[y])
        BY <1>3, <1>4, <3>2
      <4>2. width(y) \in Int /\ width(f[y]) \in Int
        BY <1>5, <4>1
      <4>3. width(f[y]) + i >= c + 2
        BY <1>1, <3>2, <4>1, <4>2
      <4> QED BY <4>1, <4>3
    <3> QED BY <3>1, <3>2
  <2>3. <<MaxNodes, n>> \in R
    <3>1. width(n) + MaxNodes >= c + 2
      BY <1>1, <1>5
    <3> QED BY <1>1, <3>1
  <2>4. MaxNodes \in Nat /\ MaxNodes <= MaxNodes
    BY <1>1
  <2> HIDE DEF R
  <2>5. <<0, Iterate(f, n, MaxNodes)>> \in R
    BY <2>1, <2>2, <2>3, <2>4, LoopRule
  <2> QED BY <2>5 DEF f
<1>7. a \in Inside(t) /\ b[d][a] = b[d][n] /\ (Ends(a) \/ width(a) + 0 >= c + 2)
  BY <1>6
<1>8. Ends(a)
  <2> SUFFICES ASSUME ~Ends(a) PROVE FALSE
    OBVIOUS
  <2>1. t.parent[a] \in Inside(t) /\ width(a) < width(t.parent[a])
    BY <1>4, <1>7
  <2>2. width(a) \in Int /\ width(t.parent[a]) \in Int /\ width(t.parent[a]) <= c + 2
    BY <1>5, <1>7, <2>1
  <2> QED BY <1>1, <1>7, <2>1, <2>2
<1>9. a # Header => t.parent[a] \in Inside(t) /\ t.child[Opp(d)][t.parent[a]] = a
  <2> SUFFICES ASSUME a # Header
               PROVE  t.parent[a] \in Inside(t) /\ t.child[Opp(d)][t.parent[a]] = a
    OBVIOUS
  <2>1. a \in InNodes(t) /\ t.parent[a] \in Inside(t) /\ t.child[d][t.parent[a]] # a
    BY <1>2, <1>7, <1>8 DEF Ends
  <2>2. PICK e \in Sides : t.child[e][t.parent[a]] = a
    BY <2>1 DEF Shape, Linked
  <2> QED BY <2>1, <2>2, SideFacts
<1> QED BY <1>7, <1>9

\* Beside is the cell with the next number on that side.
LEMMA BesideFacts ==
    ASSUME NEW t, NEW c, NEW pos, NEW b, Shape(t, c, pos, b),
           NEW n \in Inside(t), NEW d \in Sides, NEW v \in 1 .. c + 1,
           Adjoins(d, v, pos[n]), NEW w, w = Beside(t, n, d)
    PROVE  w \in Inside(t) /\ pos[w] = v
<1>1. /\ d = "lchild" \/ d = "rchild"
      /\ "lchild" # "rchild" /\ Opp("lchild") = "rchild" /\ Opp("rchild") = "lchild"
      /\ Opp(d) \in Sides /\ Opp(Opp(d)) = d
  BY SideFacts DEF Sides, Opp
<1>2. /\ c \in Nat /\ pos[n] \in Int /\ \A m \in InNodes(t) : m \in Inside(t) /\ pos[m] \in Int
      /\ \A m \in Inside(t) : pos[m] \in Int
      /\ b["lchild"][Header] = 0 /\ b["rchild"][Header] = c + 2
  <2>1. \A m \in Inside(t) : pos[m] \in Int
    BY WidthFacts
  <2>2. c \in Nat /\ \A m \in InNodes(t) : m \in Inside(t)
    BY RootFacts
  <2>3. b["lchild"][Header] = 0 /\ b["rchild"][Header] = c + 2
    BY DEF Shape, Bounds
  <2> QED BY <2>1, <2>2, <2>3
<1>3. CASE t.child[d][n] # Null
  <2>1. t.child[d][n] \in InNodes(t) /\ b[Opp(d)][t.child[d][n]] = pos[n]
    BY <1>3, ChildFacts
  <2>2. w = Far(t, t.child[d][n], Opp(d))
    BY <1>3 DEF Beside
  <2>3. w \in InNodes(t) /\ Adjoins(Opp(d), pos[n], pos[w])
    BY <1>1, <2>1, <2>2, FarFacts
  <2>4. pos[w] = v
    BY <1>1, <1>2, <2>3 DEF Adjoins
  <2> QED BY <1>2, <2>3, <2>4
<1>4. CASE t.child[d][n] = Null
  <2>1. PICK a : a = Iterate(ClimbStep(t, d), n, MaxNodes)
    OBVIOUS
  <2>2. w = t.parent[a]
    BY <1>4, <2>1 DEF Beside, Climb
  <2>3. /\ a \in Inside(t) /\ b[d][a] = b[d][n]
        /\ a # Header => w \in Inside(t) /\ t.child[Opp(d)][w] = a
    BY <2>1, <2>2, ClimbEnds
  <2>4. Adjoins(d, b[d][n], pos[n])
    BY <1>4 DEF Shape, Bounds
  <2>5. b[d][a] \in Int
    BY <1>1, <2>3, WidthFacts
  <2>6. b[d][a] = v
    BY <1>1, <1>2, <2>3, <2>4, <2>5 DEF Adjoins
  <2>7. a # Header
    BY <1>1, <1>2, <2>6
  <2>8. a # Null
    BY <2>3, NodeFacts DEF Inside, InNodes
  <2>9. b[d][a] = pos[w]
    BY <1>1, <2>3, <2>7, <2>8, ChildFacts
  <2> QED BY <2>3, <2>6, <2>7, <2>9
<1> QED BY <1>3, <1>4

\* An iterator goes from number to number.
LEMMA AlongFacts ==
    ASSUME NEW t, NEW c, NEW pos, NEW b, Shape(t, c, pos, b),
           NEW n \in Inside(t), NEW d \in Sides, NEW i \in Nat, NEW v \in 1 .. c + 1,
           v = IF d = "lchild" THEN pos[n] - i ELSE pos[n] + i, NEW w, w = Along(t, n, d, i)
    PROVE  w \in Inside(t) /\ pos[w] = v
<1> DEFINE f == [m \in Cells \cup {Null} |-> IF m = Null THEN Null ELSE Beside(t, m, d)]
           S == {k \in Nat : \A u \in 1 .. c + 1 :
                    u = (IF d = "lchild" THEN pos[n] - k ELSE pos[n] + k)
                       => Iterate(f, n, k) \in Inside(t) /\ pos[Iterate(f, n, k)] = u}
<1>1. c \in Nat /\ pos[n] \in 1 .. c + 1
  <2>1. n \in InNodes(t) \/ n = Header
    BY DEF Inside
  <2> QED BY <2>1, RootFacts
<1>2. \A m \in Inside(t) : f[m] = Beside(t, m, d) /\ pos[m] \in Int
  BY WidthFacts, NodeFacts DEF Inside, InNodes
<1> HIDE DEF f
<1>3. 0 \in S
  BY <1>1, IterateSteps
<1>4. \A k \in Nat : k \in S => k + 1 \in S
  <2> SUFFICES ASSUME NEW k \in Nat, k \in S, NEW u \in 1 .. c + 1,
                      u = IF d = "lchild" THEN pos[n] - (k + 1) ELSE pos[n] + (k + 1)
               PROVE  /\ Iterate(f, n, k + 1) \in Inside(t)
                      /\ pos[Iterate(f, n, k + 1)] = u
    OBVIOUS
  <2>1. PICK m : m = Iterate(f, n, k)
    OBVIOUS
  <2>2. PICK x \in 1 .. c + 1 : x = IF d = "lchild" THEN pos[n] - k ELSE pos[n] + k
    BY <1>1
  <2>3. m \in Inside(t) /\ pos[m] = x
    BY <2>1, <2>2
  <2>4. Adjoins(d, u, pos[m])
    BY <1>1, <2>2, <2>3 DEF Adjoins
  <2>5. Iterate(f, n, k + 1) = f[m]
    <3> HIDE DEF S
    <3>1. Iterate(f, n, k + 1) = f[Iterate(f, n, k)]
      BY IterateSteps
    <3> QED BY <2>1, <3>1
  <2>6. f[m] = Beside(t, m, d)
    BY <1>2, <2>3
  <2>7. f[m] \in Inside(t) /\ pos[f[m]] = u
    BY <2>3, <2>4, <2>6, BesideFacts
  <2> QED BY <2>5, <2>7
<1>5. i \in S
  <2>1. \A k \in Nat : k \in S
    <3> HIDE DEF S
    <3> QED BY <1>3, <1>4, NatSet
  <2> HIDE DEF S
  <2> QED BY <2>1
<1>6. w = Iterate(f, n, i)
  BY DEF Along, f
<1> QED BY <1>5, <1>6

\* Up to the first removal an iteration meets every node in order, both ways.
THEOREM IteratesInsertedCorrect == Spec => []IteratesInserted
<1>1. TreeInv => IteratesInserted
  <2> SUFFICES ASSUME TreeInv, removals = 0 PROVE Iterates
    BY DEF IteratesInserted
  <2> DEFINE c == tree.count
  <2>1. PICK pos, b : Shape(tree, c, pos, b) /\ First(tree, pos)
    BY DEF TreeInv
  <2> HIDE DEF c
  <2>2. /\ c \in Nat /\ Order \in Seq(Nodes) /\ Len(Order) = c
        /\ \A i \in 1 .. c : Order[i] \in InNodes(tree) /\ pos[Order[i]] = i
    BY <2>1, OrderFacts
  <2>3. Order = [i \in 1 .. c |-> Order[i]]
    BY <2>2
  <2>4. /\ Header \in Inside(tree) /\ pos[Header] = c + 1
        /\ \A m \in InNodes(tree) : m \in Inside(tree)
        /\ \A m, n \in Inside(tree) : pos[m] = pos[n] => m = n
    BY <2>1, RootFacts DEF Shape, Ranks
  <2>5. begin(tree) \in Inside(tree) /\ pos[begin(tree)] = 1
    <3>1. Root(tree) = Null => c = 0
      BY <2>1, RootFacts
    <3> QED BY <2>1, <2>4, <3>1 DEF begin, First
  <2>6. ASSUME NEW i \in 1 .. c PROVE Along(tree, begin(tree), "rchild", i - 1) = Order[i]
    <3>1. PICK w : w = Along(tree, begin(tree), "rchild", i - 1)
      OBVIOUS
    <3>2. i - 1 \in Nat /\ i \in 1 .. c + 1 /\ i = pos[begin(tree)] + (i - 1)
      BY <2>2, <2>5
    <3>3. w \in Inside(tree) /\ pos[w] = i
      BY <2>1, <2>5, <3>1, <3>2, SideFacts, AlongFacts
    <3> QED BY <2>2, <2>4, <3>1, <3>3
  <2>7. Walk(tree) = Order
    <3>1. Walk(tree) = [i \in 1 .. c |-> Along(tree, begin(tree), "rchild", i - 1)]
      BY DEF Walk, c
    <3> QED BY <2>3, <2>6, <3>1
  <2>8. c # 0 => next(tree, Order[c]) = Header
    <3> SUFFICES ASSUME c # 0 PROVE next(tree, Order[c]) = Header
      OBVIOUS
    <3>1. Order[c] \in Inside(tree) /\ pos[Order[c]] = c /\ c + 1 \in 1 .. c + 1
      BY <2>2, <2>4
    <3>2. PICK w : w = Beside(tree, Order[c], "rchild")
      OBVIOUS
    <3>3. Adjoins("rchild", c + 1, c)
      BY SideFacts DEF Adjoins
    <3>4. w \in Inside(tree) /\ pos[w] = c + 1
      BY <2>1, <3>1, <3>2, <3>3, SideFacts, BesideFacts
    <3> QED BY <2>4, <3>2, <3>4 DEF next
  <2>9. ASSUME NEW i \in 1 .. c
        PROVE  Along(tree, prev(tree, Header), "lchild", c - i) = Order[i]
    <3>1. PICK m : m = Beside(tree, Header, "lchild")
      OBVIOUS
    <3>2. c \in 1 .. c + 1 /\ c - i \in Nat /\ i \in 1 .. c + 1 /\ i = c - (c - i)
      BY <2>2
    <3>3. Adjoins("lchild", c, pos[Header])
      BY <2>2, <2>4 DEF Adjoins
    <3>4. m \in Inside(tree) /\ pos[m] = c
      BY <2>1, <2>4, <3>1, <3>2, <3>3, SideFacts, BesideFacts
    <3>5. PICK w : w = Along(tree, m, "lchild", c - i)
      OBVIOUS
    <3>6. i = pos[m] - (c - i)
      BY <3>2, <3>4
    <3>7. w \in Inside(tree) /\ pos[w] = i
      BY <2>1, <3>2, <3>4, <3>5, <3>6, SideFacts, AlongFacts
    <3> QED BY <2>2, <2>4, <3>1, <3>5, <3>7 DEF prev
  <2>10. WalkBack(tree) = Order
    <3>1. WalkBack(tree) = [i \in 1 .. c |-> Along(tree, prev(tree, Header), "lchild", c - i)]
      BY DEF WalkBack, c
    <3> QED BY <2>3, <2>9, <3>1
  <2> QED BY <2>7, <2>8, <2>10 DEF Iterates, c
<1> QED BY <1>1, TreeInvariant, PTL
---------------------------------------------------------------------------
(* The balance of a tree nothing was removed from.                         *)

\* h counts the black nodes on every path down.
Heights(t, h) ==
    /\ h \in [Links -> Nat] /\ h[Null] = 0
    /\ \A n \in InNodes(t), d \in Sides :
          h[n] = h[t.child[d][n]] + (IF Red(t, n) THEN 0 ELSE 1)

\* No red node has a red child, except x.
RedsApart(t, x) ==
    \A n \in InNodes(t), d \in Sides :
       Red(t, n) /\ t.child[d][n] # x => BlackOrNull(t, t.child[d][n])

\* Only the parent has a node as its child.
LEMMA OneParent ==
    ASSUME NEW t, NEW c, NEW pos, NEW b, Shape(t, c, pos, b)
    PROVE  /\ \A n \in InNodes(t), d \in Sides :
                 LET m == t.child[d][n]
                 IN  m # Null => /\ m \in InNodes(t) /\ m \in Cells /\ m \in Links
                                 /\ t.parent[m] = n /\ m # n
           /\ \A n \in InNodes(t), d \in Sides : t.child[d][n] \in Links
           /\ \A n \in InNodes(t) : n \in Cells /\ n \in Links /\ n # Null /\ n # Header
<1>1. \A n \in InNodes(t) : n \in Cells /\ n \in Links /\ n # Null /\ n # Header /\ n \in Inside(t)
  BY NodeFacts DEF InNodes, Inside
<1>2. ASSUME NEW n \in InNodes(t), NEW d \in Sides PROVE t.child[d][n] \in Links
  BY <1>1, <1>2 DEF Shape, Trees
<1>3. ASSUME NEW n \in InNodes(t), NEW d \in Sides, t.child[d][n] # Null
      PROVE  LET m == t.child[d][n]
             IN  m \in InNodes(t) /\ m \in Cells /\ m \in Links /\ t.parent[m] = n /\ m # n
  BY <1>1, <1>3, ChildFacts
<1> QED BY <1>1, <1>2, <1>3

\* A red uncle: the black of g goes to its two children.
LEMMA RaisedBalance ==
    ASSUME NEW t, NEW c, NEW pos, NEW b, Shape(t, c, pos, b),
           NEW h, Heights(t, h), NEW x \in InNodes(t), RedsApart(t, x), RootBlack(t, x),
           Climbs(t, x),
           NEW p, p = t.parent[x], NEW g, g = t.parent[p],
           NEW y, y = t.child[Opp(Side(t, p))][g], ~BlackOrNull(t, y),
           NEW v, Raised(t, v, p, y, g)
    PROVE  /\ Red(v, g) /\ RedsApart(v, g)
           /\ \E h2 : Heights(v, h2)
<1>1. PICK d : d = Side(t, p)
  OBVIOUS
<1>2. /\ p \in InNodes(t) /\ g \in InNodes(t) /\ p # x /\ g # p
      /\ Red(t, p) /\ g # x /\ d \in Sides /\ t.child[d][g] = p
  BY <1>1, ClimbFacts
<1>3. y = t.child[Opp(d)][g] /\ Opp(d) \in Sides /\ \A e \in Sides : e = d \/ e = Opp(d)
  BY <1>1, <1>2, SideFacts
<1>4. y # Null /\ Red(t, y)
  BY DEF BlackOrNull
<1>5. /\ \A n \in InNodes(t), e \in Sides :
            LET m == t.child[e][n]
            IN  m # Null => /\ m \in InNodes(t) /\ m \in Cells /\ m \in Links
                            /\ t.parent[m] = n /\ m # n
      /\ \A n \in InNodes(t), e \in Sides : t.child[e][n] \in Links
      /\ \A n \in InNodes(t) : n \in Cells /\ n \in Links /\ n # Null /\ n # Header
  BY OneParent
<1>6. y \in InNodes(t) /\ t.parent[y] = g /\ y # g
  <2> DEFINE o == Opp(d)
  <2>1. g \in InNodes(t) /\ o \in Sides /\ y = t.child[o][g] /\ t.child[o][g] # Null
    BY <1>2, <1>3, <1>4
  <2> HIDE DEF o
  <2>2. LET n == t.child[o][g] IN n \in InNodes(t) /\ t.parent[n] = g /\ n # g
    BY <2>1, OneParent
  <2> QED BY <2>1, <2>2
<1>7. ~Red(t, g)
  BY <1>2, <1>5 DEF RedsApart, BlackOrNull
<1>8. InNodes(v) = InNodes(t) /\ v.child = t.child
  BY DEF Raised, InNodes, InTree
<1>9. \A n \in InNodes(t) : Red(v, n) <=> n = g \/ (n # p /\ n # y /\ Red(t, n))
  BY <1>5 DEF Raised, Red
<1>10. RedsApart(v, g)
  <2> SUFFICES ASSUME NEW n \in InNodes(t), NEW e \in Sides, NEW m, m = t.child[e][n],
                      Red(v, n), m # g, m # Null
               PROVE  ~Red(v, m)
    BY <1>8 DEF RedsApart, BlackOrNull
  <2>1. m \in InNodes(t) /\ t.parent[m] = n
    BY <1>5
  <2>2. CASE n = g
    BY <1>2, <1>3, <1>6, <1>9, <2>2
  <2>3. CASE n # g
    <3>1. n # p /\ Red(t, n)
      BY <1>9, <2>3
    <3>2. m # x
      BY <2>1, <3>1
    <3>3. ~Red(t, m)
      BY <3>1, <3>2 DEF RedsApart, BlackOrNull
    <3> QED BY <1>9, <2>1, <3>3
  <2> QED BY <2>2, <2>3
<1>11. Red(v, g)
  BY <1>2, <1>9
<1>12. \E h2 : Heights(v, h2)
  <2> DEFINE h2 == [m \in Links |-> IF m = p \/ m = y THEN h[m] + 1 ELSE h[m]]
  <2>1. h2 \in [Links -> Nat] /\ h2[Null] = 0
    <3>1. h \in [Links -> Nat] /\ h[Null] = 0 /\ Null \in Links
      BY NodeFacts DEF Heights
    <3>2. Null # p /\ Null # y
      BY <1>2, <1>4, <1>5
    <3>3. \A m \in Links : h[m] \in Nat
      BY <3>1
    <3>4. \A m \in Links : h2[m] = IF m = p \/ m = y THEN h[m] + 1 ELSE h[m]
      OBVIOUS
    <3>5. h2 = [m \in Links |-> h2[m]]
      OBVIOUS
    <3> HIDE DEF h2
    <3>6. \A m \in Links : h2[m] \in Nat
      BY ONLY <3>3, <3>4
    <3>7. h2 \in [Links -> Nat]
      BY ONLY <3>5, <3>6
    <3>8. h2[Null] = 0
      BY ONLY <3>1, <3>2, <3>4
    <3> QED BY <3>7, <3>8
  <2>2. \A m \in Links : h2[m] = IF m = p \/ m = y THEN h[m] + 1 ELSE h[m]
    OBVIOUS
  <2> HIDE DEF h2
  <2>3. \A m \in Links : h[m] \in Int
    <3>1. h \in [Links -> Nat]
      BY DEF Heights
    <3> QED BY ONLY <3>1
  <2>4. ASSUME NEW n \in InNodes(t), NEW e \in Sides
        PROVE  h2[n] = h2[t.child[e][n]] + (IF Red(v, n) THEN 0 ELSE 1)
    <3>1. PICK m : m = t.child[e][n]
      OBVIOUS
    <3>2. h[n] = h[m] + (IF Red(t, n) THEN 0 ELSE 1) /\ m \in Links /\ n \in Links
      BY <1>5, <3>1 DEF Heights
    <3>3. h[n] \in Int /\ h[m] \in Int
      BY <2>3, <3>2
    <3>4. CASE n = g
      <4>1. m = p \/ m = y
        BY <1>2, <1>3, <3>1, <3>4
      <4>2. h2[m] = h[m] + 1 /\ h2[n] = h[n] /\ Red(v, n)
        BY <1>2, <1>6, <1>11, <2>2, <3>2, <3>4, <4>1
      <4>3. h[n] = h[m] + 1
        BY <1>7, <3>2, <3>4
      <4>4. h2[n] = h2[m] /\ h2[m] \in Int
        BY ONLY <3>3, <4>2, <4>3
      <4> QED BY ONLY <3>1, <4>2, <4>4
    <3>5. CASE n # g
      <4>1. m # p /\ m # y
        <5>1. m # Null => t.parent[m] = n
          BY <1>5, <3>1
        <5> QED BY <1>2, <1>4, <1>5, <1>6, <3>5, <5>1
      <4>2. h2[m] = h[m]
        BY <2>2, <3>2, <4>1
      <4>3. CASE n = p \/ n = y
        <5>1. Red(t, n) /\ ~Red(v, n) /\ h2[n] = h[n] + 1
          BY <1>2, <1>4, <1>9, <2>2, <3>2, <3>5, <4>3
        <5>2. h[n] = h[m]
          BY ONLY <3>2, <3>3, <5>1
        <5>3. h2[n] = h2[m] + 1
          BY ONLY <4>2, <5>1, <5>2
        <5> QED BY ONLY <3>1, <5>1, <5>3
      <4>4. CASE n # p /\ n # y
        <5>1. (Red(t, n) <=> Red(v, n)) /\ h2[n] = h[n]
          BY <1>9, <2>2, <3>2, <3>5, <4>4
        <5> QED BY <3>1, <3>2, <4>2, <5>1
      <4> QED BY <4>3, <4>4
    <3> QED BY <3>4, <3>5
  <2>5. Heights(v, h2)
    BY <1>8, <2>1, <2>4 DEF Heights
  <2> QED BY <2>5
<1> QED BY <1>10, <1>11, <1>12

\* A rotation of two red nodes leaves the heights as they are.
LEMMA RotatedReds ==
    ASSUME NEW t, NEW c, NEW pos, NEW b, Shape(t, c, pos, b), NEW h, Heights(t, h),
           NEW p \in InNodes(t), NEW o \in Sides, NEW x \in InNodes(t), x = t.child[o][p],
           Red(t, p), Red(t, x),
           NEW u, InNodes(u) = InNodes(t), u.color = t.color, Rotated(t, u, p, o)
    PROVE  Heights(u, h)
<1>1. /\ \A n \in InNodes(t), e \in Sides :
            LET m == t.child[e][n]
            IN  m # Null => /\ m \in InNodes(t) /\ m \in Cells /\ m \in Links
                            /\ t.parent[m] = n /\ m # n
      /\ \A n \in InNodes(t), e \in Sides : t.child[e][n] \in Links
      /\ \A n \in InNodes(t) : n \in Cells /\ n \in Links /\ n # Null /\ n # Header
  BY OneParent
<1>2. x # p /\ t.parent[p] # x /\ t.parent[p] # p
  BY <1>1, NoCycle, ParentFacts
<1>3. /\ h[p] = h[x] /\ h[x] = h[t.child[Opp(o)][x]]
      /\ \A e \in Sides : h[p] = h[t.child[e][p]] /\ h[x] = h[t.child[e][x]]
  <2>1. ASSUME NEW e \in Sides, NEW n \in InNodes(t), Red(t, n) PROVE h[n] = h[t.child[e][n]]
    <3>1. h \in [Links -> Nat] /\ t.child[e][n] \in Links
      BY <1>1 DEF Heights
    <3>2. h[n] = h[t.child[e][n]] + 0
      BY <2>1 DEF Heights
    <3> QED BY <3>1, <3>2
  <2> QED BY <2>1, SideFacts
<1>4. ASSUME NEW n \in InNodes(t), NEW e \in Sides
      PROVE  h[u.child[e][n]] = h[t.child[e][n]]
  <2>1. u.child[e][n] = IF e = o /\ n = p THEN t.child[Opp(o)][x]
                        ELSE IF e = Opp(o) /\ n = x THEN p
                        ELSE IF n = t.parent[p] /\ t.child[e][n] = p THEN x
                        ELSE t.child[e][n]
    BY <1>1 DEF Rotated
  <2> QED BY <1>3, <2>1
<1>5. \A n \in InNodes(t) : Red(u, n) <=> Red(t, n)
  BY DEF Red
<1> QED BY <1>4, <1>5 DEF Heights

\* The second rotation, with its colours.
LEMMA TurnedHeights ==
    ASSUME NEW t, NEW c, NEW pos, NEW b, Shape(t, c, pos, b), NEW h, Heights(t, h),
           NEW g \in InNodes(t), NEW d \in Sides, NEW p \in InNodes(t), p = t.child[d][g],
           Red(t, p), ~Red(t, g),
           NEW u, InNodes(u) = InNodes(t), Rotated(t, u, g, d),
           TurnedColors(t, u, p, g)
    PROVE  \E h2 : Heights(u, h2)
<1> DEFINE h2 == [m \in Links |-> IF m = p THEN h[g] ELSE IF m = g THEN h[p] ELSE h[m]]
<1>1. /\ \A n \in InNodes(t), e \in Sides :
            LET m == t.child[e][n]
            IN  m # Null => /\ m \in InNodes(t) /\ m \in Cells /\ m \in Links
                            /\ t.parent[m] = n /\ m # n
      /\ \A n \in InNodes(t), e \in Sides : t.child[e][n] \in Links
      /\ \A n \in InNodes(t) : n \in Cells /\ n \in Links /\ n # Null /\ n # Header
  BY OneParent
<1>2. p # g /\ t.parent[g] # p /\ t.parent[g] # g /\ t.parent[p] = g /\ p # Null /\ g # Null
  BY <1>1, NoCycle, ParentFacts
<1>3. h \in [Links -> Nat] /\ h[Null] = 0 /\ Null \in Links /\ p \in Links /\ g \in Links
  BY <1>1, NodeFacts DEF Heights
<1>4. \A n \in InNodes(t), e \in Sides :
         h[n] = h[t.child[e][n]] + (IF Red(t, n) THEN 0 ELSE 1) /\ h[t.child[e][n]] \in Int
  BY <1>1, <1>3 DEF Heights
<1>5. \A n \in InNodes(t) : Red(u, n) <=> n = g \/ (n # p /\ Red(t, n))
  BY <1>1 DEF Red, TurnedColors
<1>6. h2 \in [Links -> Nat] /\ h2[Null] = 0 /\ h2[p] = h[g] /\ h2[g] = h[p]
      /\ \A m \in Links : m # p /\ m # g => h2[m] = h[m]
  BY <1>2, <1>3
<1> HIDE DEF h2
<1>7. h[g] = h[p] + 1 /\ h[p] \in Int
  BY <1>2, <1>4
<1>8. \A e \in Sides : h[t.child[e][p]] = h[p]
  BY <1>4, <1>7
<1>9. \A e \in Sides : h[t.child[e][g]] = h[p]
  <2> SUFFICES ASSUME NEW e \in Sides PROVE h[t.child[e][g]] = h[p]
    OBVIOUS
  <2>1. h[g] = h[t.child[e][g]] + 1 /\ h[t.child[e][g]] \in Int
    BY <1>4
  <2> QED BY <1>7, <2>1
<1>10. ASSUME NEW n \in InNodes(t), NEW e \in Sides
       PROVE  h2[n] = h2[u.child[e][n]] + (IF Red(u, n) THEN 0 ELSE 1)
  <2>1. u.child[e][n] = IF e = d /\ n = g THEN t.child[Opp(d)][p]
                        ELSE IF e = Opp(d) /\ n = p THEN g
                        ELSE IF n = t.parent[g] /\ t.child[e][n] = g THEN p
                        ELSE t.child[e][n]
    BY <1>1 DEF Rotated
  <2>2. \A m \in InNodes(t), f \in Sides :
           LET k == t.child[f][m]
           IN  /\ k = p => m = g
               /\ k = g => m = t.parent[g]
               /\ k # p /\ k # g => h2[k] = h[k]
    BY <1>1, <1>2, <1>6
  <2>3. CASE n = g
    <3>1. Red(u, n) /\ h2[n] = h[p]
      BY <1>5, <1>6, <2>3
    <3>2. CASE e = d
      <4>1. u.child[e][n] = t.child[Opp(d)][p] /\ Opp(d) \in Sides
        BY <2>1, <2>3, <3>2, SideFacts
      <4>2. t.child[Opp(d)][p] # p /\ t.child[Opp(d)][p] # g
        BY <1>2, <2>2, <4>1
      <4>3. h2[t.child[Opp(d)][p]] = h[p]
        BY <1>8, <2>2, <4>1, <4>2
      <4> QED BY <1>7, <3>1, <4>1, <4>3
    <3>3. CASE e # d
      <4>1. u.child[e][n] = t.child[e][g]
        BY <1>2, <2>1, <2>3, <3>3
      <4>2. t.child[e][g] # p /\ t.child[e][g] # g
        <5>1. e = Opp(d) /\ g \in Inside(t)
          BY <3>3, SideFacts DEF Inside
        <5> QED BY <1>1, <1>2, <5>1, ChildFacts
      <4>3. h2[t.child[e][g]] = h[p]
        BY <1>9, <2>2, <4>2
      <4> QED BY <1>7, <3>1, <4>1, <4>3
    <3> QED BY <3>2, <3>3
  <2>4. CASE n = p
    <3>1. ~Red(u, n) /\ h2[n] = h[p] + 1
      BY <1>2, <1>5, <1>6, <1>7, <2>4
    <3>2. CASE e = Opp(d)
      <4>1. u.child[e][n] = g
        BY <1>2, <2>1, <2>4, <3>2
      <4> QED BY <1>6, <3>1, <4>1
    <3>3. CASE e # Opp(d)
      <4>1. u.child[e][n] = t.child[e][p]
        BY <1>2, <2>1, <2>4, <3>3
      <4>2. t.child[e][p] # p /\ t.child[e][p] # g
        BY <1>2, <2>2
      <4>3. h2[t.child[e][p]] = h[p]
        BY <1>8, <2>2, <4>2
      <4> QED BY <3>1, <4>1, <4>3
    <3> QED BY <3>2, <3>3
  <2>5. CASE n # g /\ n # p
    <3>1. (Red(u, n) <=> Red(t, n)) /\ h2[n] = h[n]
      BY <1>1, <1>5, <1>6, <2>5
    <3>2. t.child[e][n] # p
      BY <2>2, <2>5
    <3>3. h2[u.child[e][n]] = h[t.child[e][n]]
      <4>1. CASE t.child[e][n] = g
        <5>1. u.child[e][n] = p
          BY <2>1, <2>2, <2>5, <4>1
        <5> QED BY <1>6, <4>1, <5>1
      <4>2. CASE t.child[e][n] # g
        <5>1. u.child[e][n] = t.child[e][n]
          BY <2>1, <2>5, <4>2
        <5> QED BY <2>2, <3>2, <4>2, <5>1
      <4> QED BY <4>1, <4>2
    <3>4. h[n] = h[t.child[e][n]] + (IF Red(t, n) THEN 0 ELSE 1)
      BY <1>4
    <3> QED BY <3>1, <3>3, <3>4
  <2> QED BY <2>3, <2>4, <2>5
<1>11. Heights(u, h2)
  BY <1>6, <1>10 DEF Heights
<1> QED BY <1>11

\* The first rotation moves the one red node with a red child down.
LEMMA RotatedApart ==
    ASSUME NEW t, NEW c, NEW pos, NEW b, Shape(t, c, pos, b), NEW o \in Sides,
           NEW p \in InNodes(t), NEW x \in InNodes(t), x = t.child[o][p], RedsApart(t, x),
           Red(t, x), ~Red(t, t.parent[p]),
           NEW u, InNodes(u) = InNodes(t), u.color = t.color, Rotated(t, u, p, o)
    PROVE  RedsApart(u, p)
<1>1. /\ \A n \in InNodes(t), e \in Sides :
            LET m == t.child[e][n]
            IN  m # Null => /\ m \in InNodes(t) /\ m \in Cells /\ m \in Links
                            /\ t.parent[m] = n /\ m # n
      /\ \A n \in InNodes(t), e \in Sides : t.child[e][n] \in Links
      /\ \A n \in InNodes(t) : n \in Cells /\ n \in Links /\ n # Null /\ n # Header
  BY OneParent
<1>2. SUFFICES ASSUME NEW n \in InNodes(t), NEW e \in Sides, NEW m, m = u.child[e][n],
                      Red(t, n), m # p, m # Null
               PROVE  ~Red(t, m)
  BY DEF RedsApart, BlackOrNull, Red
<1>3. m = IF e = o /\ n = p THEN t.child[Opp(o)][x]
          ELSE IF e = Opp(o) /\ n = x THEN p
          ELSE IF n = t.parent[p] /\ t.child[e][n] = p THEN x
          ELSE t.child[e][n]
  <2>1. u.child[e][n] = IF e = o /\ n = p THEN t.child[Opp(o)][x]
                        ELSE IF e = Opp(o) /\ n = x THEN p
                        ELSE IF n = t.parent[p] /\ t.child[e][n] = p THEN x
                        ELSE t.child[e][n]
    BY <1>1 DEF Rotated
  <2> QED BY <1>2, <2>1
<1>4. x # Null /\ p # x /\ t.parent[x] = p
  BY <1>1
<1>5. CASE e = o /\ n = p
  <2>1. m = t.child[Opp(o)][x] /\ Opp(o) \in Sides
    BY <1>3, <1>5, SideFacts
  <2>2. m # x
    BY <1>1, <1>2, <2>1
  <2> QED BY <1>2, <2>1, <2>2 DEF RedsApart, BlackOrNull
<1>6. CASE ~(e = o /\ n = p)
  <2>1. n # t.parent[p]
    BY <1>2
  <2>2. m = t.child[e][n]
    BY <1>2, <1>3, <1>6, <2>1
  <2>3. m # x
    <3> SUFFICES ASSUME m = x PROVE FALSE
      OBVIOUS
    <3>1. t.parent[m] = n
      BY <1>1, <1>2, <2>2
    <3>2. n = p
      BY <1>4, <3>1
    <3>3. e = Opp(o) /\ p \in Inside(t) /\ t.child[o][p] # Null
      BY <1>4, <1>6, <3>2, SideFacts DEF Inside
    <3>4. t.child[Opp(o)][p] # t.child[o][p]
      BY <3>3, ChildFacts
    <3> QED BY <2>2, <3>2, <3>3, <3>4
  <2> QED BY <1>2, <2>2, <2>3 DEF RedsApart, BlackOrNull
<1> QED BY <1>5, <1>6

\* The second one leaves no red node with a red child.
LEMMA TurnedApart ==
    ASSUME NEW t, NEW c, NEW pos, NEW b, Shape(t, c, pos, b), NEW d \in Sides,
           NEW g \in InNodes(t), NEW p \in InNodes(t), NEW x \in InNodes(t),
           p = t.child[d][g], x = t.child[d][p], RedsApart(t, x),
           Red(t, x), Red(t, p), ~Red(t, g), BlackOrNull(t, t.child[Opp(d)][g]),
           NEW u, InNodes(u) = InNodes(t), Rotated(t, u, g, d),
           TurnedColors(t, u, p, g)
    PROVE  RedsApart(u, Null) /\ Red(u, x) /\ u.parent[x] = p /\ ~Red(u, p)
<1>1. /\ \A n \in InNodes(t), e \in Sides :
            LET m == t.child[e][n]
            IN  m # Null => /\ m \in InNodes(t) /\ m \in Cells /\ m \in Links
                            /\ t.parent[m] = n /\ m # n
      /\ \A n \in InNodes(t), e \in Sides : t.child[e][n] \in Links
      /\ \A n \in InNodes(t) : n \in Cells /\ n \in Links /\ n # Null /\ n # Header
  BY OneParent
<1>2. /\ x # Null /\ p # Null /\ p # x /\ p # g /\ t.parent[p] = g /\ t.parent[x] = p
      /\ t.parent[g] # p /\ t.parent[g] # g
  <2>1. x # Null /\ p # Null
    BY <1>1
  <2>2. p # x /\ p # g /\ t.parent[p] = g /\ t.parent[x] = p
    BY <1>1, <2>1
  <2>3. t.parent[g] # p
    BY <2>1, NoCycle
  <2>4. t.parent[g] # g
    BY ParentFacts
  <2> QED BY <2>1, <2>2, <2>3, <2>4
<1>3. x # g
  BY <1>2
<1>4. Opp(d) \in Sides /\ Opp(d) # d /\ p \in Inside(t) /\ \A e \in Sides : e = d \/ e = Opp(d)
  BY SideFacts DEF Inside
<1>5. t.child[Opp(d)][p] # x
  <2>1. Shape(t, c, pos, b) /\ d \in Sides /\ x = t.child[d][p]
    OBVIOUS
  <2> QED BY ONLY <1>2, <1>4, <2>1, ChildNamed
<1>6. \A n \in Cells : Red(u, n) <=> n = g \/ (n # p /\ Red(t, n))
  BY DEF Red, TurnedColors
<1>7. Red(u, x) /\ ~Red(u, p)
  BY <1>1, <1>2, <1>6
<1>8. u.parent[x] = p
  BY <1>1, <1>2, <1>3, <1>5 DEF Rotated
<1>9. ASSUME NEW n \in InNodes(t), NEW e \in Sides, NEW m, m = u.child[e][n],
             Red(u, n), m # Null
      PROVE  ~Red(u, m)
  <2>1. m = IF e = d /\ n = g THEN t.child[Opp(d)][p]
            ELSE IF e = Opp(d) /\ n = p THEN g
            ELSE IF n = t.parent[g] /\ t.child[e][n] = g THEN p
            ELSE t.child[e][n]
    <3>1. n \in Cells /\ e \in Sides /\ p = t.child[d][g] /\ Rotated(t, u, g, d)
      BY <1>1
    <3> QED BY ONLY <1>9, <3>1 DEF Rotated
  <2>2. n # p
    BY <1>1, <1>7, <1>9
  <2>3. CASE n = g
    <3>1. CASE e = d
      <4>1. m = t.child[Opp(d)][p]
        BY <2>1, <2>3, <3>1
      <4>2. ~Red(t, m)
        BY <1>4, <1>5, <1>9, <4>1 DEF RedsApart, BlackOrNull
      <4>3. m \in Cells /\ m # g
        <5>1. PICK o : o = Opp(d)
          OBVIOUS
        <5>2. o \in Sides /\ m = t.child[o][p] /\ m # Null
          BY <1>4, <1>9, <4>1, <5>1
        <5>3. m \in Cells /\ t.parent[m] = p
          BY <1>1, <5>2
        <5> QED BY <1>2, <5>3
      <4> QED BY <1>6, <4>2, <4>3
    <3>2. CASE e # d
      <4>1. m = t.child[Opp(d)][g]
        BY <1>2, <1>4, <2>1, <2>3, <3>2
      <4>2. ~Red(t, m) /\ m \in Cells /\ m # g
        BY <1>1, <1>4, <1>9, <4>1 DEF BlackOrNull
      <4> QED BY <1>6, <4>2
    <3> QED BY <3>1, <3>2
  <2>4. CASE n # g
    <3>1. Red(t, n)
      BY <1>1, <1>6, <1>9, <2>4
    <3>2. CASE n = t.parent[g] /\ t.child[e][n] = g
      BY <1>7, <2>1, <2>2, <2>4, <3>2
    <3>3. CASE ~(n = t.parent[g] /\ t.child[e][n] = g)
      <4>1. m = t.child[e][n]
        BY <2>1, <2>2, <2>4, <3>3
      <4>2. m \in Cells /\ t.parent[m] = n
        BY <1>1, <1>9, <4>1
      <4>3. m # x /\ m # g
        BY <1>2, <2>2, <3>3, <4>1, <4>2
      <4>4. ~Red(t, m)
        BY <1>9, <3>1, <4>1, <4>3 DEF RedsApart, BlackOrNull
      <4> QED BY <1>6, <4>2, <4>3, <4>4
    <3> QED BY <3>2, <3>3
  <2> QED BY <2>3, <2>4
<1>10. RedsApart(u, Null)
  BY <1>9 DEF RedsApart, BlackOrNull
<1> QED BY <1>7, <1>8, <1>10

\* The turn that rotates, both of its rotations.
LEMMA TurnBalance ==
    ASSUME NEW u, NEW c, NEW pos, NEW b, Shape(u, c, pos, b), NEW h, Heights(u, h),
           NEW x \in InNodes(u), RootBlack(u, x), RedsApart(u, x), Red(u, x), Climbs(u, x),
           NEW d, d = Side(u, u.parent[x]),
           BlackOrNull(u, u.child[Opp(d)][u.parent[u.parent[x]]]),
           NEW s, s = RebalanceStep[[t |-> u, x |-> x]]
    PROVE  /\ RedsApart(s.t, s.x) /\ Red(s.t, s.x) /\ ~Climbs(s.t, s.x)
           /\ \E h2 : Heights(s.t, h2)
<1>1. PICK p : p = u.parent[x]
  OBVIOUS
<1>2. PICK g : g = u.parent[p]
  OBVIOUS
<1>3. PICK r : r = Straightened(u, x)
  OBVIOUS
<1>4. PICK w : w = Turned(r.t, r.x, d)
  OBVIOUS
<1>5. PICK top : top = r.t.parent[r.x]
  OBVIOUS
<1>6. PICK v : v = r.t
  OBVIOUS
<1>7. PICK z : z = r.x
  OBVIOUS
<1>8. /\ RebalanceStep[[t |-> u, x |-> x]] = w
      /\ Kept(u, r.t, c, pos) /\ r.t.color = u.color
      /\ r.x \in InNodes(u) /\ top \in InNodes(u)
      /\ IF x = u.child[Opp(d)][p]
         THEN Rotated(u, r.t, p, Opp(d)) /\ r.x = p /\ top = x
         ELSE r.t = u /\ r.x = x /\ top = p
      /\ r.t.child[d][top] = r.x /\ r.t.parent[top] = g /\ r.t.child[d][g] = top
      /\ Kept(r.t, w.t, c, pos) /\ w.x = r.x
      /\ Rotated(r.t, w.t, g, d)
      /\ TurnedColors(r.t, w.t, top, g)
  <2>1. RebalanceStep[[t |-> u, x |-> x]] = w /\ TurnsAs(u, r, w, top, c, pos, x, p, g, d)
    BY <1>1, <1>2, <1>3, <1>4, <1>5, TurnFacts
  <2>2. StraightenedAs(u, r, c, pos, x, p, g, d) /\ TurnedAs(r.t, w, c, pos, r.x, top, g, d)
    BY <2>1 DEF TurnsAs
  <2> QED BY <2>1, <2>2 DEF TurnsAs, StraightenedAs, TurnedAs
<1>9. /\ p \in InNodes(u) /\ g \in InNodes(u) /\ p # x /\ g # p /\ Red(u, p) /\ g # x
      /\ d \in Sides /\ u.child[d][g] = p
  BY <1>1, <1>2, ClimbFacts
<1>10. s = w /\ w.x = z /\ BlackOrNull(u, u.child[Opp(d)][g])
  BY <1>1, <1>2, <1>7, <1>8
<1>11. /\ Kept(u, v, c, pos) /\ v.color = u.color
       /\ z \in InNodes(u) /\ top \in InNodes(u)
       /\ IF x = u.child[Opp(d)][p]
          THEN Rotated(u, v, p, Opp(d)) /\ z = p /\ top = x
          ELSE v = u /\ z = x /\ top = p
       /\ v.child[d][top] = z /\ v.parent[top] = g /\ v.child[d][g] = top
       /\ Kept(v, w.t, c, pos)
       /\ Rotated(v, w.t, g, d)
       /\ TurnedColors(v, w.t, top, g)
  BY <1>6, <1>7, <1>8
<1> HIDE <1>1, <1>3, <1>4, <1>5, <1>6, <1>7
<1>12. ~Red(u, g)
  BY <1>9, NodeFacts DEF RedsApart, BlackOrNull, InNodes
<1>13. InNodes(v) = InNodes(u) /\ InNodes(w.t) = InNodes(u)
  BY <1>11 DEF Kept
<1>14. PICK b2 : Shape(v, c, pos, b2)
  BY <1>11 DEF Kept
<1>15. Opp(d) \in Sides /\ Opp(Opp(d)) = d /\ Opp(d) # d
  BY <1>9, SideFacts
<1>16. /\ Heights(v, h) /\ RedsApart(v, z) /\ Red(v, z) /\ Red(v, top) /\ ~Red(v, g)
       /\ BlackOrNull(v, v.child[Opp(d)][g])
  <2>1. Red(v, z) /\ Red(v, top) /\ ~Red(v, g)
    BY <1>9, <1>11, <1>12 DEF Red
  <2>2. CASE x = u.child[Opp(d)][p]
    <3>1. Rotated(u, v, p, Opp(d)) /\ z = p
      BY <1>11, <2>2
    <3>2. Heights(v, h)
      BY <1>9, <1>11, <1>13, <1>15, <2>2, <3>1, RotatedReds
    <3>3. RedsApart(v, p)
      BY <1>2, <1>9, <1>11, <1>12, <1>13, <1>15, <2>2, <3>1, RotatedApart
    <3>4. v.child[Opp(d)][g] = u.child[Opp(d)][g]
      <4>1. u.child[Opp(d)][g] # p
        <5>1. /\ g \in Inside(u) /\ d \in Sides /\ p = u.child[d][g] /\ p # Null
              /\ Shape(u, c, pos, b)
          BY <1>9, NodeFacts DEF Inside, InNodes
        <5> QED BY ONLY <5>1, ChildNamed
      <4>2. g \in Cells
        BY <1>9, NodeFacts DEF InNodes
      <4>3. \A f \in Sides, n \in Cells :
               v.child[f][n] = IF f = Opp(d) /\ n = p
                               THEN u.child[Opp(Opp(d))][u.child[Opp(d)][p]]
                               ELSE IF f = Opp(Opp(d)) /\ n = u.child[Opp(d)][p] THEN p
                               ELSE IF n = u.parent[p] /\ u.child[f][n] = p
                                    THEN u.child[Opp(d)][p]
                               ELSE u.child[f][n]
        BY ONLY <3>1 DEF Rotated
      <4>4. g # p /\ Opp(d) \in Sides /\ Opp(Opp(d)) # Opp(d)
        BY <1>9, <1>15
      <4> QED BY ONLY <4>1, <4>2, <4>3, <4>4
    <3>5. BlackOrNull(v, v.child[Opp(d)][g])
      BY <1>10, <1>11, <3>4 DEF BlackOrNull, Red
    <3> QED BY <2>1, <3>1, <3>2, <3>3, <3>5
  <2>3. CASE x # u.child[Opp(d)][p]
    BY <1>10, <1>11, <2>1, <2>3
  <2> QED BY <2>2, <2>3
<1>17. top \in InNodes(v) /\ g \in InNodes(v) /\ z \in InNodes(v) /\ InNodes(w.t) = InNodes(v)
  BY <1>9, <1>11, <1>13
<1>18. RedsApart(w.t, Null) /\ Red(w.t, z) /\ w.t.parent[z] = top /\ ~Red(w.t, top)
  <2>1. PICK a : a = w.t
    OBVIOUS
  <2>2. /\ InNodes(a) = InNodes(v) /\ Rotated(v, a, g, d) /\ TurnedColors(v, a, top, g)
        /\ top = v.child[d][g] /\ z = v.child[d][top]
    BY <1>11, <1>17, <2>1
  <2>3. RedsApart(a, Null) /\ Red(a, z) /\ a.parent[z] = top /\ ~Red(a, top)
    BY ONLY <1>9, <1>14, <1>16, <1>17, <2>2, TurnedApart
  <2> QED BY <2>1, <2>3
<1>19. \E h2 : Heights(w.t, h2)
  BY <1>9, <1>11, <1>14, <1>16, <1>17, TurnedHeights
<1>20. ~Climbs(w.t, z)
  BY <1>18 DEF Climbs
<1>21. RedsApart(w.t, z)
  BY <1>18 DEF RedsApart, BlackOrNull
<1> QED BY <1>10, <1>18, <1>19, <1>20, <1>21

\* The widths of the nodes that x goes through bound the number of turns.
LEMMA WiderUp ==
    ASSUME NEW t, NEW c, NEW pos, NEW b, Shape(t, c, pos, b),
           NEW n \in InNodes(t), NEW q, q = t.parent[n]
    PROVE  /\ b["rchild"][n] - b["lchild"][n] \in Int
           /\ 2 <= b["rchild"][n] - b["lchild"][n]
           /\ b["rchild"][n] - b["lchild"][n] + 1 <= b["rchild"][q] - b["lchild"][q]
           /\ b["rchild"][q] - b["lchild"][q] \in Int
           /\ b["rchild"][q] - b["lchild"][q] <= c + 2
<1>1. /\ q \in Inside(t) /\ Side(t, n) \in Sides /\ t.child[Side(t, n)][q] = n
      /\ n \in Inside(t) /\ n # Null
  BY ParentFacts, NodeFacts DEF Inside, InNodes
<1>2. b["rchild"][n] - b["lchild"][n] < b["rchild"][q] - b["lchild"][q]
  BY <1>1, WidthFacts
<1>3. /\ pos[n] \in Int /\ b["lchild"][n] \in Int /\ b["rchild"][n] \in Int
      /\ b["lchild"][n] < pos[n] /\ pos[n] < b["rchild"][n]
  BY <1>1, WidthFacts
<1>4. /\ b["lchild"][q] \in Int /\ b["rchild"][q] \in Int
      /\ 0 <= b["lchild"][q] /\ b["rchild"][q] <= c + 2 /\ c \in Nat
  BY <1>1, WidthFacts DEF Shape
<1> QED BY <1>2, <1>3, <1>4

\* In the end the root is painted black.
LEMMA RootPainted ==
    ASSUME NEW t, NEW c, NEW pos, NEW b, Shape(t, c, pos, b), NEW x \in InNodes(t),
           RedsApart(t, x), ~Climbs(t, x), \E h : Heights(t, h),
           NEW u, u = Blacken(t, Root(t))
    PROVE  RedsApart(u, Null) /\ \E h2 : Heights(u, h2)
<1>1. /\ \A n \in InNodes(t), e \in Sides :
            LET m == t.child[e][n]
            IN  m # Null => /\ m \in InNodes(t) /\ m \in Cells /\ m \in Links
                            /\ t.parent[m] = n /\ m # n
      /\ \A n \in InNodes(t), e \in Sides : t.child[e][n] \in Links
      /\ \A n \in InNodes(t) : n \in Cells /\ n \in Links /\ n # Null /\ n # Header
  BY OneParent
<1>2. PICK r : r = Root(t)
  OBVIOUS
<1>3. t \in Trees /\ r \in Links /\ (r # Null => r \in InNodes(t) /\ t.parent[r] = Header)
  BY <1>2, NodeFacts, SideFacts, RootFacts, ParentFacts DEF Shape, Root, Trees
<1>4. /\ u.child = t.child /\ u.parent = t.parent
      /\ \A m \in Cells : u.color[m] = IF m = r THEN "black" ELSE t.color[m]
  BY <1>2, <1>3, Blackened
<1>5. InNodes(u) = InNodes(t)
  BY <1>4 DEF InNodes, InTree
<1>6. \A n \in InNodes(t) : Red(u, n) <=> n # r /\ Red(t, n)
  BY <1>1, <1>4 DEF Red
<1>7. \A n \in InNodes(t), d \in Sides : t.child[d][n] # r \/ r = Null
  BY <1>1, <1>3
<1>8. RedsApart(u, Null)
  <2> SUFFICES ASSUME NEW n \in InNodes(t), NEW d \in Sides, NEW m, m = t.child[d][n],
                      Red(u, n), m # Null
               PROVE  ~Red(u, m)
    BY <1>4, <1>5 DEF RedsApart, BlackOrNull
  <2>1. m \in InNodes(t) /\ t.parent[m] = n /\ Red(t, n)
    BY <1>1, <1>6
  <2>2. m # x
    <3> SUFFICES ASSUME m = x PROVE FALSE
      OBVIOUS
    <3>1. x = Root(t)
      BY <2>1 DEF Climbs
    <3> QED BY <1>2, <1>7, <3>1
  <2> QED BY <1>6, <2>1, <2>2 DEF RedsApart, BlackOrNull
<1>9. PICK h : Heights(t, h)
  OBVIOUS
<1>10. \E h2 : Heights(u, h2)
  <2>1. CASE r = Null \/ ~Red(t, r)
    <3>1. \A n \in InNodes(t) : Red(u, n) <=> Red(t, n)
      BY <1>1, <1>6, <2>1
    <3>2. Heights(u, h)
      BY <1>4, <1>5, <1>9, <3>1 DEF Heights
    <3> QED BY <3>2
  <2>2. CASE r # Null /\ Red(t, r)
    <3> DEFINE h2 == [m \in Links |-> IF m = r THEN h[m] + 1 ELSE h[m]]
    <3>1. h \in [Links -> Nat] /\ h[Null] = 0 /\ Null \in Links
      BY <1>9, NodeFacts DEF Heights
    <3>2. /\ h2 \in [Links -> Nat] /\ h2[Null] = 0
          /\ \A m \in Links : h2[m] = IF m = r THEN h[m] + 1 ELSE h[m]
      BY <2>2, <3>1
    <3> HIDE DEF h2
    <3>3. ASSUME NEW n \in InNodes(t), NEW d \in Sides
          PROVE  h2[n] = h2[t.child[d][n]] + (IF Red(u, n) THEN 0 ELSE 1)
      <4>1. h[n] = h[t.child[d][n]] + (IF Red(t, n) THEN 0 ELSE 1)
        BY <1>9 DEF Heights
      <4>2. h2[t.child[d][n]] = h[t.child[d][n]] /\ h[t.child[d][n]] \in Nat
        BY <1>1, <1>7, <2>2, <3>1, <3>2
      <4>3. CASE n = r
        <5>1. h[n] = h[t.child[d][n]] + 0 /\ h2[n] = h[n] + 1 /\ ~Red(u, n)
          BY <1>1, <1>6, <2>2, <3>2, <4>1, <4>3
        <5> QED BY <4>2, <5>1
      <4>4. CASE n # r
        <5>1. h2[n] = h[n] /\ (Red(u, n) <=> Red(t, n))
          BY <1>1, <1>6, <3>2, <4>4
        <5> QED BY <4>1, <4>2, <5>1
      <4> QED BY <4>3, <4>4
    <3>4. Heights(u, h2)
      BY <1>4, <1>5, <3>2, <3>3 DEF Heights
    <3> QED BY <3>4
  <2> QED BY <2>1, <2>2
<1> QED BY <1>8, <1>10

\* rebalance ends, and leaves a balanced tree.
LEMMA RebalanceBalance ==
    ASSUME NEW t, NEW c, NEW pos, NEW b, Shape(t, c, pos, b), NEW h, Heights(t, h),
           NEW x \in InNodes(t), RootBlack(t, x), RedsApart(t, x), Red(t, x),
           NEW u, u = Rebalance(t, x)
    PROVE  RedsApart(u, Null) /\ \E h2 : Heights(u, h2)
<1> DEFINE width(n) == b["rchild"][n] - b["lchild"][n]
           Even(s) == /\ RedsApart(s.t, s.x) /\ Red(s.t, s.x)
                      /\ \E h2 : Heights(s.t, h2)
           Left(i, s) == Shape(s.t, c, pos, b) /\ width(s.x) + i >= c + 2
           I == RebalanceInv(t, c, pos)
           S == {s \in I : Even(s)}
           R == {q \in Nat \X S : ~Climbs(q[2].t, q[2].x) \/ Left(q[1], q[2])}
           s0 == [t |-> t, x |-> x]
           f == RebalanceStep
<1>1. t \in Trees /\ c \in Nat /\ c <= MaxNodes /\ MaxNodes \in Nat
  BY CountFits, NodeFacts DEF Shape
<1>2. ASSUME NEW s \in I
      PROVE  /\ s.t \in Trees /\ s.x \in Nodes /\ s = [t |-> s.t, x |-> s.x]
             /\ s.x \in InNodes(s.t) /\ RootBlack(s.t, s.x)
             /\ \E b2 : Shape(s.t, c, pos, b2)
  BY DEF RebalanceInv, Kept
<1>3. \A s \in I : f[s] \in I
  BY <1>1, RebalanceStepKept
<1>4. \A s \in I : ~Climbs(s.t, s.x) => f[s] = s
  BY DEF RebalanceInv, RebalanceStep
<1>5. s0 \in I
  BY <1>1 DEF RebalanceInv, Kept, InNodes
<1> HIDE DEF I, f
<1>6. ASSUME NEW s \in S, Left(0, s) \/ ~Climbs(s.t, s.x) PROVE ~Climbs(s.t, s.x)
  <2> SUFFICES ASSUME Left(0, s), Climbs(s.t, s.x) PROVE FALSE
    BY <1>6
  <2>1. s.x \in InNodes(s.t)
    BY <1>2
  <2>2. width(s.x) + 0 >= c + 2 /\ Shape(s.t, c, pos, b)
    OBVIOUS
  <2>3. /\ width(s.x) \in Int /\ width(s.t.parent[s.x]) \in Int
        /\ width(s.x) + 1 <= width(s.t.parent[s.x]) /\ width(s.t.parent[s.x]) <= c + 2
    BY <2>1, <2>2, WiderUp
  <2> QED BY ONLY <1>1, <2>2, <2>3
<1>7. ASSUME NEW s \in S, Climbs(s.t, s.x)
      PROVE  /\ f[s] \in S
             /\ \A i \in Nat : Left(i + 1, s) =>
                   ~Climbs(f[s].t, f[s].x) \/ Left(i, f[s])
  <2>1. PICK v, z : v = s.t /\ z = s.x
    OBVIOUS
  <2>2. /\ v \in Trees /\ z \in Nodes /\ s = [t |-> v, x |-> z]
        /\ z \in InNodes(v) /\ RootBlack(v, z)
        /\ RedsApart(v, z) /\ Red(v, z) /\ Climbs(v, z)
    BY <1>2, <1>7, <2>1
  <2>3. PICK h1 : Heights(v, h1)
    BY <2>1
  <2>4. PICK b1 : Shape(v, c, pos, b1)
    BY <1>2, <2>1
  <2>5. PICK p : p = v.parent[z]
    OBVIOUS
  <2>6. PICK g : g = v.parent[p]
    OBVIOUS
  <2>7. PICK d : d = Side(v, p)
    OBVIOUS
  <2>8. PICK y : y = v.child[Opp(d)][g]
    OBVIOUS
  <2>9. f[s] \in I
    BY <1>3
  <2>10. CASE BlackOrNull(v, y)
    <3>1. PICK w : w = f[s]
      OBVIOUS
    <3>2. w = RebalanceStep[[t |-> v, x |-> z]]
      BY <2>2, <3>1 DEF f
    <3>3. /\ RedsApart(w.t, w.x) /\ Red(w.t, w.x) /\ ~Climbs(w.t, w.x)
          /\ \E h2 : Heights(w.t, h2)
      BY <2>2, <2>3, <2>4, <2>5, <2>6, <2>7, <2>8, <2>10, <3>2, TurnBalance
    <3> QED BY <2>9, <3>1, <3>3
  <2>11. CASE ~BlackOrNull(v, y)
    <3>1. PICK w \in Trees : f[s] = [t |-> w, x |-> g] /\ Raised(v, w, p, y, g)
      BY <2>2, <2>5, <2>6, <2>7, <2>8, <2>11, RaisedFacts DEF f
    <3>2. /\ Red(w, g) /\ RedsApart(w, g) /\ \E h2 : Heights(w, h2)
      BY <2>2, <2>3, <2>4, <2>5, <2>6, <2>7, <2>8, <2>11, <3>1, RaisedBalance
    <3>3. f[s].t = w /\ f[s].x = g
      BY <3>1
    <3>4. f[s] \in S
      BY <2>9, <3>2, <3>3
    <3>5. ASSUME NEW i \in Nat, Left(i + 1, s) PROVE Left(i, f[s])
      <4>1. Shape(v, c, pos, b) /\ width(z) + (i + 1) >= c + 2
        BY <2>1, <3>5
      <4>2. p \in InNodes(v)
        BY <2>2, <2>5, <4>1, ClimbFacts
      <4>3. width(z) \in Int /\ width(p) \in Int /\ width(z) + 1 <= width(p)
        BY <2>2, <2>5, <4>1, WiderUp
      <4>4. width(g) \in Int /\ width(p) + 1 <= width(g)
        BY <2>6, <4>1, <4>2, WiderUp
      <4> HIDE DEF width
      <4>5. width(g) + i >= c + 2
        BY <1>1, <4>1, <4>3, <4>4
      <4>6. Shape(w, c, pos, b)
        BY <3>1, <4>1, PaintShape DEF Raised
      <4> QED BY <3>3, <4>5, <4>6
    <3> QED BY <3>4, <3>5
  <2> QED BY <2>10, <2>11
<1>8. PICK s : s = Iterate(f, s0, MaxNodes)
  OBVIOUS
<1>9. s \in S /\ ~Climbs(s.t, s.x)
  <2>1. \A q : <<0, q>> \in R => ~Climbs(q.t, q.x) /\ q \in S
    BY <1>6
  <2>2. \A q : <<0, q>> \in R => <<0, f[q]>> \in R
    <3> SUFFICES ASSUME NEW q, <<0, q>> \in R PROVE <<0, f[q]>> \in R
      OBVIOUS
    <3>1. q \in S /\ ~Climbs(q.t, q.x)
      BY <2>1
    <3>2. f[q] = q
      BY <1>4, <3>1
    <3> QED BY <3>2
  <2>3. \A i \in Nat : \A q : <<i + 1, q>> \in R => <<i, f[q]>> \in R
    <3> SUFFICES ASSUME NEW i \in Nat, NEW q \in S,
                        ~Climbs(q.t, q.x) \/ Left(i + 1, q)
                 PROVE  f[q] \in S /\ (~Climbs(f[q].t, f[q].x) \/ Left(i, f[q]))
      OBVIOUS
    <3>1. CASE ~Climbs(q.t, q.x)
      BY <1>4, <3>1
    <3>2. CASE Climbs(q.t, q.x)
      BY <1>7, <3>2
    <3> QED BY <3>1, <3>2
  <2>4. <<MaxNodes, s0>> \in R
    <3>1. s0 \in S
      BY <1>5
    <3>2. width(x) \in Int /\ 2 <= width(x)
      BY WiderUp
    <3>3. Left(MaxNodes, s0)
      BY <1>1, <3>2
    <3> QED BY <1>1, <3>1, <3>3
  <2>5. MaxNodes \in Nat /\ MaxNodes <= MaxNodes
    BY <1>1
  <2> HIDE DEF R, S, s0
  <2>6. <<0, s>> \in R
    BY <1>8, <2>2, <2>3, <2>4, <2>5, LoopRule
  <2> QED BY <2>1, <2>6
<1>10. PICK v, z : v = s.t /\ z = s.x
  OBVIOUS
<1>11. /\ v \in Trees /\ z \in InNodes(v) /\ RedsApart(v, z) /\ ~Climbs(v, z)
       /\ \E h2 : Heights(v, h2)
  BY <1>2, <1>9, <1>10
<1>12. u = Blacken(v, Root(v))
  BY <1>8, <1>10 DEF Rebalance, f
<1>13. PICK b2 : Shape(v, c, pos, b2)
  BY <1>2, <1>9, <1>10
<1> QED BY <1>11, <1>12, <1>13, RootPainted

\* The new node has no black node below it, and is the only red child of a red node.
LEMMA AttachedBalance ==
    ASSUME NEW t, NEW c, NEW pos, NEW b, Shape(t, c, pos, b), NEW h, Heights(t, h),
           RedsApart(t, Null),
           NEW n \in Nodes \ InNodes(t), NEW p \in Inside(t), NEW d \in Sides,
           Belongs(t, pos, key(n), p, d), NEW a \in Trees, Attached(t, a, n, p, d),
           InNodes(a) = InNodes(t) \cup {n}
    PROVE  RedsApart(a, n) /\ Red(a, n) /\ \E h2 : Heights(a, h2)
<1> DEFINE h2 == [m \in Links |-> IF m = n THEN 0 ELSE h[m]]
<1>1. /\ \A k \in InNodes(t), e \in Sides :
            LET m == t.child[e][k]
            IN  m # Null => /\ m \in InNodes(t) /\ m \in Cells /\ m \in Links
                            /\ t.parent[m] = k /\ m # k
      /\ \A k \in InNodes(t), e \in Sides : t.child[e][k] \in Links
      /\ \A k \in InNodes(t) : k \in Cells /\ k \in Links /\ k # Null /\ k # Header
  BY OneParent
<1>2. n \in Cells /\ n \in Links /\ n # Null /\ n \notin InNodes(t) /\ Null \in Links /\ p # n
  BY NodeFacts DEF Inside
<1>3. \A e \in Sides : t.child[e][n] = Null
  BY DEF Shape, Linked
<1>4. t.child[d][p] = Null
  BY DEF Belongs
<1>5. Red(a, n) /\ \A k \in InNodes(t) : Red(a, k) <=> Red(t, k)
  BY <1>1, <1>2 DEF Attached, Red
<1>6. \A e \in Sides, k \in InNodes(a) :
         a.child[e][k] = IF e = d /\ k = p THEN n ELSE t.child[e][k]
  BY <1>1, <1>2 DEF Attached
<1>7. \A e \in Sides : a.child[e][n] = Null
  BY <1>2, <1>3, <1>6
<1>8. RedsApart(a, n)
  <2> SUFFICES ASSUME NEW k \in InNodes(a), NEW e \in Sides, NEW m, m = a.child[e][k],
                      Red(a, k), m # n, m # Null
               PROVE  ~Red(a, m)
    BY DEF RedsApart, BlackOrNull
  <2>1. k \in InNodes(t)
    BY <1>7
  <2>2. m = t.child[e][k]
    BY <1>6
  <2> QED BY <1>1, <1>5, <2>1, <2>2 DEF RedsApart, BlackOrNull
<1>9. h \in [Links -> Nat] /\ h[Null] = 0
  BY DEF Heights
<1>10. /\ h2 \in [Links -> Nat] /\ h2[Null] = 0 /\ h2[n] = 0
       /\ \A m \in Links : m # n => h2[m] = h[m]
  BY <1>2, <1>9
<1> HIDE DEF h2
<1>11. ASSUME NEW k \in InNodes(a), NEW e \in Sides
       PROVE  h2[k] = h2[a.child[e][k]] + (IF Red(a, k) THEN 0 ELSE 1)
  <2>1. CASE k = n
    BY <1>5, <1>7, <1>10, <2>1
  <2>2. CASE k \in InNodes(t)
    <3>1. h[k] = h[t.child[e][k]] + (IF Red(t, k) THEN 0 ELSE 1) /\ h2[k] = h[k]
      BY <1>1, <1>2, <1>10, <2>2 DEF Heights
    <3>2. h2[a.child[e][k]] = h[t.child[e][k]]
      <4>1. CASE e = d /\ k = p
        BY <1>4, <1>6, <1>9, <1>10, <4>1
      <4>2. CASE ~(e = d /\ k = p)
        <5>1. a.child[e][k] = t.child[e][k] /\ t.child[e][k] \in Links /\ t.child[e][k] # n
          BY <1>1, <1>2, <1>6, <2>2, <4>2
        <5> QED BY <1>10, <5>1
      <4> QED BY <4>1, <4>2
    <3> QED BY <1>5, <2>2, <3>1, <3>2
  <2> QED BY <2>1, <2>2
<1>12. Heights(a, h2)
  BY <1>10, <1>11 DEF Heights
<1> QED BY <1>5, <1>8, <1>12

LEMMA InsertedBalance ==
    ASSUME NEW t, NEW pos, NEW b, Shape(t, t.count, pos, b), BlackOrNull(t, Root(t)),
           RedsApart(t, Null), \E h : Heights(t, h),
           NEW n \in Nodes \ InNodes(t), NEW u, u = Inserted(t, n)
    PROVE  RedsApart(u, Null) /\ \E h : Heights(u, h)
<1>1. PICK p \in Inside(t), d \in Sides, a \in Trees :
         Belongs(t, pos, key(n), p, d) /\ Attached(t, a, n, p, d) /\ u = Rebalance(a, n)
  <2>1. InsertedAs(t, pos, n, u)
    BY InsertedForm
  <2> QED BY <2>1 DEF InsertedAs
<1>2. /\ RootBlack(a, n) /\ InNodes(a) = InNodes(t) \cup {n}
      /\ \E pos2, b2 : Shape(a, t.count + 1, pos2, b2)
  BY <1>1, AttachedFacts
<1>3. RedsApart(a, n) /\ Red(a, n) /\ \E h2 : Heights(a, h2)
  BY <1>1, <1>2, AttachedBalance
<1>4. n \in InNodes(a)
  BY <1>2
<1> QED BY <1>1, <1>2, <1>3, <1>4, RebalanceBalance

\* BlackHeight counts what h counts.
LEMMA HeightFacts ==
    ASSUME NEW t, NEW c, NEW pos, NEW b, Shape(t, c, pos, b), NEW h, Heights(t, h)
    PROVE  BlackHeight(t)[Root(t)] = h[Root(t)]
<1> DEFINE f == BlackStep(t)
           g0 == [n \in Links |-> 0]
           G(k) == Iterate(f, g0, k)
           Good(g, k) ==
              /\ g \in [Links -> Int] /\ g[Null] = 0
              /\ \A m \in InNodes(t) :
                    b["rchild"][m] - b["lchild"][m] <= k + 1 => g[m] = h[m]
           T == {k \in Nat : Good(G(k), k)}
<1>1. /\ \A k \in InNodes(t), e \in Sides :
            LET m == t.child[e][k]
            IN  m # Null => /\ m \in InNodes(t) /\ m \in Cells /\ m \in Links
                            /\ t.parent[m] = k /\ m # k
      /\ \A k \in InNodes(t), e \in Sides : t.child[e][k] \in Links
      /\ \A k \in InNodes(t) : k \in Cells /\ k \in Links /\ k # Null /\ k # Header
  BY OneParent
<1>2. \A g \in [Links -> Int] :
         /\ f[g] \in [Links -> Int] /\ f[g][Null] = 0
         /\ \A n \in Links \ {Null} :
               f[g][n] = IF \/ g[t.child["lchild"][n]] = -1
                            \/ g[t.child["lchild"][n]] # g[t.child["rchild"][n]]
                         THEN -1
                         ELSE g[t.child["lchild"][n]] + (IF Red(t, n) THEN 0 ELSE 1)
  <2>1. \A n \in Links \ {Null} :
           t.child["lchild"][n] \in Links /\ t.child["rchild"][n] \in Links
    BY NodeFacts, SideFacts DEF Shape, Trees
  <2> QED BY <2>1, NodeFacts DEF BlackStep
<1>3. G(0) = g0 /\ \A k \in Nat : G(k + 1) = f[G(k)]
  BY IterateSteps
<1>4. Good(g0, 0)
  <2>1. g0 \in [Links -> Int] /\ g0[Null] = 0
    BY NodeFacts
  <2>2. ASSUME NEW m \in InNodes(t), b["rchild"][m] - b["lchild"][m] <= 0 + 1 PROVE FALSE
    BY <2>2, WiderUp
  <2> HIDE DEF g0
  <2> QED BY <2>1, <2>2
<1> HIDE DEF f
<1>5. ASSUME NEW k \in Nat, NEW g, Good(g, k) PROVE Good(f[g], k + 1)
  <2>1. f[g] \in [Links -> Int] /\ f[g][Null] = 0
    BY <1>2, <1>5
  <2>2. ASSUME NEW m \in InNodes(t), b["rchild"][m] - b["lchild"][m] <= (k + 1) + 1
        PROVE  f[g][m] = h[m]
    <3>1. m \in Links \ {Null} /\ "lchild" \in Sides /\ "rchild" \in Sides
      BY <1>1, SideFacts
    <3>2. ASSUME NEW e \in Sides PROVE g[t.child[e][m]] = h[t.child[e][m]]
      <4>1. CASE t.child[e][m] = Null
        BY <1>5, <4>1 DEF Heights
      <4>2. CASE t.child[e][m] # Null
        <5>1. PICK w : w = t.child[e][m]
          OBVIOUS
        <5>2. w \in InNodes(t) /\ t.parent[w] = m
          BY <1>1, <4>2, <5>1
        <5>3. /\ b["rchild"][w] - b["lchild"][w] \in Int
              /\ b["rchild"][w] - b["lchild"][w] + 1 <= b["rchild"][m] - b["lchild"][m]
              /\ b["rchild"][m] - b["lchild"][m] \in Int
          BY <5>2, WiderUp
        <5>4. b["rchild"][w] - b["lchild"][w] <= k + 1
          BY <2>2, <5>3
        <5>5. g[w] = h[w]
          BY <1>5, <5>2, <5>4
        <5> QED BY <5>1, <5>5
      <4> QED BY <4>1, <4>2
    <3>3. ASSUME NEW e \in Sides
          PROVE  /\ h[t.child[e][m]] \in Nat /\ h[m] \in Nat
                 /\ h[m] = h[t.child[e][m]] + (IF Red(t, m) THEN 0 ELSE 1)
      BY <1>1 DEF Heights
    <3>4. h[t.child["lchild"][m]] = h[t.child["rchild"][m]]
      <4>1. /\ h[m] = h[t.child["lchild"][m]] + (IF Red(t, m) THEN 0 ELSE 1)
            /\ h[m] = h[t.child["rchild"][m]] + (IF Red(t, m) THEN 0 ELSE 1)
            /\ h[t.child["lchild"][m]] \in Nat /\ h[t.child["rchild"][m]] \in Nat
        BY <3>1, <3>3
      <4>2. CASE Red(t, m)
        BY <4>1, <4>2
      <4>3. CASE ~Red(t, m)
        BY <4>1, <4>3
      <4> QED BY <4>2, <4>3
    <3>5. /\ g[t.child["lchild"][m]] = h[t.child["lchild"][m]]
          /\ g[t.child["rchild"][m]] = g[t.child["lchild"][m]]
          /\ g[t.child["lchild"][m]] # -1
      BY <3>1, <3>2, <3>3, <3>4
    <3>6. f[g][m] = g[t.child["lchild"][m]] + (IF Red(t, m) THEN 0 ELSE 1)
      BY <1>2, <1>5, <3>1, <3>5
    <3> QED BY <3>1, <3>3, <3>5, <3>6
  <2> QED BY <2>1, <2>2
<1>6. \A k \in Nat : k \in T
  <2>1. 0 \in T
    <3> HIDE DEF G, Good
    <3> QED BY <1>3, <1>4
  <2>2. \A k \in Nat : k \in T => k + 1 \in T
    <3> HIDE DEF G, Good
    <3> QED BY <1>3, <1>5
  <2> HIDE DEF T
  <2> QED BY <2>1, <2>2, NatSet
<1>7. Good(BlackHeight(t), MaxNodes)
  <2>1. G(MaxNodes) = BlackHeight(t)
    BY DEF BlackHeight, f
  <2>2. MaxNodes \in T
    <3> HIDE DEF T
    <3> QED BY <1>6, NodeFacts
  <2> HIDE DEF G, Good
  <2> QED BY <2>1, <2>2
<1>8. c \in Nat /\ c <= MaxNodes /\ MaxNodes \in Nat
  BY CountFits, NodeFacts DEF Shape
<1>9. CASE Root(t) = Null
  BY <1>7, <1>9 DEF Heights
<1>10. CASE Root(t) # Null
  <2>1. /\ Root(t) \in InNodes(t) /\ b["lchild"][Root(t)] = 0
        /\ b["rchild"][Root(t)] = c + 1
    BY <1>10, RootFacts
  <2>2. b["rchild"][Root(t)] - b["lchild"][Root(t)] <= MaxNodes + 1
    BY <1>8, <2>1
  <2> QED BY <1>7, <2>1, <2>2
<1> QED BY <1>9, <1>10

BalanceInv == removals = 0 => RedsApart(tree, Null) /\ \E h : Heights(tree, h)

\* Up to the first removal the tree is red-black: its root is black, no red node
\* has a red child, and all paths down have as many black nodes.
THEOREM BalancedCorrect == Spec => []Balanced
<1>1. Init => BalanceInv
  <2> SUFFICES ASSUME Init PROVE BalanceInv
    OBVIOUS
  <2>1. InNodes(tree) = {}
    BY InitShape
  <2>2. Heights(tree, [n \in Links |-> 0])
    BY <2>1, NodeFacts DEF Heights
  <2> QED BY <2>1, <2>2 DEF BalanceInv, RedsApart
<1>2. TreeInv /\ BalanceInv /\ [Next]_vars => BalanceInv'
  <2> SUFFICES ASSUME TreeInv, BalanceInv, [Next]_vars, removals' = 0
               PROVE  RedsApart(tree', Null) /\ \E h : Heights(tree', h)
    BY DEF BalanceInv
  <2>1. removals \in Nat
    BY DEF TreeInv
  <2>2. ASSUME NEW k \in Keys, Insert(k)
        PROVE  RedsApart(tree', Null) /\ \E h : Heights(tree', h)
    <3>1. PICK n \in Unused(k) : tree' = Inserted(tree, n)
      BY <2>2 DEF Insert
    <3>2. n \in Nodes \ InNodes(tree) /\ removals = 0
      BY <2>2, <3>1 DEF Unused, InNodes, Insert
    <3>3. RedsApart(tree, Null) /\ \E h : Heights(tree, h)
      BY <3>2 DEF BalanceInv
    <3>4. BlackOrNull(tree, Root(tree)) /\ \E pos, b : Shape(tree, tree.count, pos, b)
      BY DEF TreeInv, Whole
    <3> QED BY <3>1, <3>2, <3>3, <3>4, InsertedBalance
  <2>3. ASSUME NEW k \in Keys, Remove(k) PROVE FALSE
    BY <2>1, <2>3 DEF Remove
  <2>4. ASSUME NEW n \in Nodes, Erase(n) PROVE FALSE
    BY <2>1, <2>4 DEF Erase
  <2>5. CASE UNCHANGED vars
    BY <2>5 DEF vars, BalanceInv
  <2> QED BY <2>2, <2>3, <2>4, <2>5 DEF Next
<1>3. TreeInv /\ BalanceInv => Balanced
  <2> SUFFICES ASSUME TreeInv, BalanceInv, removals = 0
               PROVE  /\ BlackOrNull(tree, Root(tree))
                      /\ \A n \in Nodes : InTree(tree, n) /\ Red(tree, n) =>
                            \A d \in Sides : BlackOrNull(tree, tree.child[d][n])
                      /\ BlackHeight(tree)[Root(tree)] # -1
    BY DEF Balanced
  <2>1. BlackOrNull(tree, Root(tree)) /\ \E pos, b : Shape(tree, tree.count, pos, b)
    BY DEF TreeInv, Whole
  <2>2. PICK h : Heights(tree, h) /\ RedsApart(tree, Null)
    BY DEF BalanceInv
  <2>3. BlackHeight(tree)[Root(tree)] = h[Root(tree)]
    BY <2>1, <2>2, HeightFacts
  <2>4. h[Root(tree)] \in Nat
    BY <2>1, <2>2, NodeFacts, SideFacts DEF Heights, Shape, Root, Trees
  <2>5. ASSUME NEW n \in Nodes, InTree(tree, n), Red(tree, n), NEW d \in Sides
        PROVE  BlackOrNull(tree, tree.child[d][n])
    BY <2>2, <2>5 DEF RedsApart, InNodes, BlackOrNull
  <2> QED BY <2>1, <2>3, <2>4, <2>5
<1> QED BY <1>1, <1>2, <1>3, TreeInvariant, PTL DEF Spec
===========================================================================
