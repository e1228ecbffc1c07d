------------------------------ MODULE MapTree ------------------------------
(***************************************************************************)
(* The red-black tree of bs_map (bs_treedata and bs_mapdata): a record of  *)
(* the links, colours, most_left and count.  child["lchild"] and           *)
(* child["rchild"] are the fields lchild and rchild, so the code's         *)
(* mirrored branches are one definition each, over the side d they work    *)
(* on.  Not here: the sharing of a block, and insert(pos, key), which does *)
(* not compile.                                                            *)
(***************************************************************************)
EXTENDS Integers, Sequences, FiniteSets, Iteration

CONSTANTS
    MaxKey,       \* the keys are 1..MaxKey
    Copies,       \* nodes that may have the same key at a time
    MaxRemovals   \* bound: calls of remove() and erase()

ASSUME TreeAssumptions ==
    MaxKey \in Nat \ {0} /\ Copies \in Nat \ {0} /\ MaxRemovals \in Nat

VARIABLES
    tree,
    removals   \* counter of the bounded removals

vars == <<tree, removals>>

Keys == 1..MaxKey
MaxNodes == MaxKey * Copies    \* also enough steps for a loop up or down the tree
Nodes == 1..MaxNodes
Null == 0
Header == -1     \* bs_treedata::header, whose lchild is the root
Cells == Nodes \cup {Header}
Links == Nodes \cup {Null}

key(n) == (n - 1) \div Copies + 1

Sides == {"lchild", "rchild"}
Opp(d) == IF d = "lchild" THEN "rchild" ELSE "lchild"

Trees == [child : [Sides -> [Cells -> Links]], parent : [Cells -> Cells \cup {Null}],
          color : [Cells -> {"red", "black"}], most_left : Cells, count : Nat,
          bad : BOOLEAN]

Root(t) == t.child["lchild"][Header]
Red(t, n) == t.color[n] = "red"
BlackOrNull(t, n) == n = Null \/ ~Red(t, n)
InTree(t, n) == t.parent[n] # Null
Crash(t) == [t EXCEPT !.bad = TRUE]

\* Assignments through a pointer that the code tests for NULL first.
SetParent(t, n, p) == IF n = Null THEN t ELSE [t EXCEPT !.parent[n] = p]
Blacken(t, n) == IF n = Null THEN t ELSE [t EXCEPT !.color[n] = "black"]

\* The side of its parent that n is on.
Side(t, n) == IF n = t.child["lchild"][t.parent[n]] THEN "lchild" ELSE "rchild"

\* Mutant: the middle subtree keeps its old parent.
RotateLoosely(t, x, d) ==
    LET y == t.child[d][x]
    IN  [t EXCEPT !.child[d][x] = t.child[Opp(d)][y], !.child[Opp(d)][y] = x,
                  !.child[Side(t, x)][t.parent[x]] = y,
                  !.parent[y] = t.parent[x], !.parent[x] = y]

\* left_rotate (d is rchild) and right_rotate (d is lchild): y takes the place
\* of x below x's parent, or as the root.
Rotate(t, x, d) ==
    LET y == t.child[d][x]
        c == t.child[Opp(d)][y]
        u == [t EXCEPT !.child[d][x] = c, !.child[Opp(d)][y] = x,
                       !.child[Side(t, x)][t.parent[x]] = y,
                       !.parent[y] = t.parent[x], !.parent[x] = y]
    IN  SetParent(u, c, x)

\* One turn of rebalance's loop, at x.  A red uncle of x is painted black with
\* the parent, and the loop goes on two levels up; else the tree is turned at
\* the grandparent, after the parent if x is on its inner side.
Climbs(t, x) == x # Root(t) /\ Red(t, t.parent[x])
Straightened(t, x) ==
    LET p == t.parent[x]
        o == Opp(Side(t, p))
    IN  IF x = t.child[o][p] THEN [t |-> Rotate(t, p, o), x |-> p] ELSE [t |-> t, x |-> x]
Turned(t, x, d) ==
    LET p == t.parent[x]
        g == t.parent[p]
    IN  [t |-> Rotate([t EXCEPT !.color[p] = "black", !.color[g] = "red"], g, d), x |-> x]
RebalanceStep ==
    [s \in [t : Trees, x : Nodes] |->
        LET p == s.t.parent[s.x]
            g == s.t.parent[p]
            y == s.t.child[Opp(Side(s.t, p))][g]
        IN  IF ~Climbs(s.t, s.x) THEN s
            ELSE IF ~BlackOrNull(s.t, y)
            THEN [t |-> [s.t EXCEPT !.color[p] = "black", !.color[y] = "black",
                                    !.color[g] = "red"],
                  x |-> g]
            ELSE LET r == Straightened(s.t, s.x) IN Turned(r.t, r.x, Side(s.t, p))]

\* rebalance, after x was painted red.
Rebalance(t, x) ==
    LET r == Iterate(RebalanceStep, [t |-> t, x |-> x], MaxNodes).t
    IN  Blacken(r, Root(r))

\* The new node n below p on side d.
Attach(t, n, p, d) ==
    [t EXCEPT !.count = @ + 1, !.child[d][p] = n, !.parent[n] = p, !.color[n] = "red"]

\* Mutant: the tree is not repaired.
LinkOnly(t, n, p, d) ==
    LET a == [Attach(t, n, p, d) EXCEPT
                 !.most_left = IF d = "lchild" /\ p = @ THEN n ELSE @]
    IN  Blacken(a, Root(a))

\* Mutant: most_left is the newest left child.
CreateLeft(t, n, p, d) ==
    Rebalance([Attach(t, n, p, d) EXCEPT !.most_left = IF d = "lchild" THEN n ELSE @], n)

\* create.
Create(t, n, p, d) ==
    Rebalance([Attach(t, n, p, d) EXCEPT
                  !.most_left = IF d = "lchild" /\ p = @ THEN n ELSE @], n)

\* find: NULL, or the node the search meets first.
FindStep(t, k) ==
    [n \in Links |->
        IF n = Null \/ key(n) = k THEN n
        ELSE t.child[IF k < key(n) THEN "lchild" ELSE "rchild"][n]]
Find(t, k) == Iterate(FindStep(t, k), Root(t), MaxNodes)

\* insert's loop: the node it looks at, the last one met, on which side of that
\* the new one goes, and the last node where the search turned left.
DescendStep(t, k) ==
    [s \in [at : Links, node : Cells, side : Sides, last : Links] |->
        IF s.at = Null THEN s
        ELSE IF k < key(s.at)
        THEN [at |-> t.child["lchild"][s.at], node |-> s.at, side |-> "lchild", last |-> s.at]
        ELSE [at |-> t.child["rchild"][s.at], node |-> s.at, side |-> "rchild", last |-> s.last]]
Descend(t, k) ==
    Iterate(DescendStep(t, k),
            [at |-> Root(t), node |-> Header, side |-> "lchild", last |-> Null], MaxNodes)

\* insert(key, val).  The test that would overwrite a value comes out false
\* wherever the search turns left, so an equal key gets a node of its own.
Inserted(t, n) ==
    LET s == Descend(t, key(n))
    IN  IF s.last # Null /\ key(s.last) < key(n) THEN t
        ELSE Create(t, n, s.node, s.side)
---------------------------------------------------------------------------
\* The last node below n on side d.
FarStep(t, d) == [n \in Nodes |-> IF t.child[d][n] = Null THEN n ELSE t.child[d][n]]
Far(t, n, d) == Iterate(FarStep(t, d), n, MaxNodes)

\* Nobody knows z any more; destroy_rebalance frees it in the end.
Freed(t, z) ==
    [t EXCEPT !.child["lchild"][z] = Null, !.child["rchild"][z] = Null,
              !.parent[z] = Null, !.color[z] = "black"]

\* z has one child at most, and x takes its place.
UnlinkOne(t, z, x) ==
    LET q == t.parent[z]
        leftmost == z = t.most_left /\ t.child["lchild"][z] = Null
    IN  SetParent([t EXCEPT !.child[Side(t, z)][q] = x,
                            !.most_left = IF ~leftmost THEN @ ELSE IF x # Null THEN x ELSE q],
                  x, q)

\* z has two children, and y, the next node, takes its place, colour and left
\* subtree;
Lifted(t, z, y) ==
    LET left == t.child["lchild"][z]
        q == t.parent[z]
    IN  [t EXCEPT !.child["lchild"][y] = left, !.parent[left] = y,
                  !.child[Side(t, z)][q] = y, !.parent[y] = q, !.color[y] = t.color[z]]

\* unless y is its child, x, the child of y, moves up, and y gets the right
\* subtree too.
UnlinkTwo(t, z, y, x) ==
    LET right == t.child["rchild"][z]
        xp == t.parent[y]
        u == Lifted(t, z, y)
    IN  IF y = right THEN u
        ELSE SetParent([u EXCEPT !.child["lchild"][xp] = x, !.child["rchild"][y] = right,
                                 !.parent[right] = y],
                       x, xp)

\* The first half of destroy_rebalance: z leaves the tree.  x is the node
\* that moves up into the gap, below xp; red is the colour that left.
Unlink(t, z) ==
    LET left == t.child["lchild"][z]
        right == t.child["rchild"][z]
        two == left # Null /\ right # Null
        y == IF two THEN Far(t, right, "lchild") ELSE z
        x == IF t.child["lchild"][y] = Null THEN t.child["rchild"][y] ELSE t.child["lchild"][y]
    IN  [x |-> x, xp |-> IF two /\ y = right THEN y ELSE t.parent[y], red |-> Red(t, y),
         t |-> Freed(IF two THEN UnlinkTwo(t, z, y, x) ELSE UnlinkOne(t, z, x), z)]

\* The loop that repairs the tree, where x is the child of xp on side d, in its
\* parts: a red sibling of x is turned above xp (the
\* branch for a right child does not paint x_parent red),
SiblingRaised(t, xp, d) ==
    LET w == t.child[Opp(d)][xp]
    IN  IF ~Red(t, w) THEN t
        ELSE Rotate([t EXCEPT !.color[w] = "black",
                               !.color[xp] = IF d = "lchild" THEN "red" ELSE @],
                    xp, Opp(d))

\* a red child of the sibling w comes to its outer side,
OuterRed(t, w, d) ==
    IF ~BlackOrNull(t, t.child[Opp(d)][w]) THEN t
    ELSE Rotate([Blacken(t, t.child[d][w]) EXCEPT !.color[w] = "red"], w, d)

\* and the sibling takes the place and colour of xp.
SiblingTurned(t, xp, d) ==
    LET w == t.child[Opp(d)][xp]
        u == [t EXCEPT !.color[w] = t.color[xp], !.color[xp] = "black"]
    IN  Rotate(Blacken(u, u.child[Opp(d)][w]), xp, Opp(d))

RepairStep ==
    [s \in [t : Trees, x : Links, xp : Cells, done : BOOLEAN] |->
        LET d == IF s.x = s.t.child["lchild"][s.xp] THEN "lchild" ELSE "rchild"
            t == SiblingRaised(s.t, s.xp, d)
            w == t.child[Opp(d)][s.xp]
        IN  IF s.done \/ s.x = Root(s.t) \/ ~BlackOrNull(s.t, s.x) THEN s
            ELSE IF s.t.child[Opp(d)][s.xp] = Null \/ w = Null
            THEN [s EXCEPT !.t = Crash(s.t), !.done = TRUE]
            ELSE IF \A e \in Sides : BlackOrNull(t, t.child[e][w])
            THEN [s EXCEPT !.t = [t EXCEPT !.color[w] = "red"],
                           !.x = s.xp, !.xp = t.parent[s.xp]]
            ELSE [s EXCEPT !.t = SiblingTurned(OuterRed(t, w, d), s.xp, d), !.done = TRUE]]

\* The second half.
Repair(t, x, xp) ==
    LET r == Iterate(RepairStep, [t |-> t, x |-> x, xp |-> xp, done |-> FALSE], MaxNodes)
    IN  Blacken(r.t, r.x)

\* Mutant: the node is not counted off.
DestroyUncounted(t, z) ==
    LET u == Unlink(t, z)
    IN  IF u.red THEN u.t ELSE Repair(u.t, u.x, u.xp)

\* delnode: destroy_rebalance, after which z is freed.
Destroy(t, z) ==
    LET u == Unlink(t, z)
        r == IF u.red THEN u.t ELSE Repair(u.t, u.x, u.xp)
    IN  [r EXCEPT !.count = @ - 1]

\* remove(key): as long as find() finds one.
RemoveStep(k) ==
    [t \in Trees |-> IF t.bad \/ Find(t, k) = Null THEN t ELSE Destroy(t, Find(t, k))]
Removed(t, k) == Iterate(RemoveStep(k), t, MaxNodes)
---------------------------------------------------------------------------
\* create_data.
Init ==
    /\ tree = [child |-> [d \in Sides |-> [n \in Cells |-> Null]],
               parent |-> [n \in Cells |-> Null], color |-> [n \in Cells |-> "black"],
               most_left |-> Header, count |-> 0, bad |-> FALSE]
    /\ removals = 0

Unused(k) == {n \in Nodes : key(n) = k /\ ~InTree(tree, n)}

\* A call that uses a null pointer is the last one; what it had changed is not
\* looked at.
Becomes(t) == tree' = IF t.bad THEN Crash(tree) ELSE t

\* insert(key, val).
Insert(k) ==
    /\ \E n \in Unused(k) :
          /\ \A m \in Unused(k) : n <= m
          /\ tree' = Inserted(tree, n)
    /\ UNCHANGED removals

\* remove(key).
Remove(k) ==
    /\ removals < MaxRemovals
    /\ removals' = removals + 1
    /\ Find(tree, k) # Null
    /\ Becomes(Removed(tree, k))

\* erase(pos), of a map whose block is not shared.
Erase(n) ==
    /\ removals < MaxRemovals
    /\ removals' = removals + 1
    /\ InTree(tree, n)
    /\ Becomes(Destroy(tree, n))

Next ==
    /\ ~tree.bad
    /\ \/ \E k \in Keys : Insert(k) \/ Remove(k)
       \/ \E n \in Nodes : Erase(n)

Spec == Init /\ [][Next]_vars
---------------------------------------------------------------------------
(* Iterators.                                                              *)

\* Up from n while n is the child on side d; where that ends.
ClimbStep(t, d) ==
    [n \in Cells |->
        IF t.parent[n] # Null /\ n = t.child[d][t.parent[n]] THEN t.parent[n] ELSE n]
Climb(t, n, d) == t.parent[Iterate(ClimbStep(t, d), n, MaxNodes)]

\* bs_treebase::next (d is rchild) and prev (d is lchild).
Beside(t, n, d) ==
    IF t.child[d][n] # Null THEN Far(t, t.child[d][n], Opp(d)) ELSE Climb(t, n, d)

next(t, n) == Beside(t, n, "rchild")
prev(t, n) == Beside(t, n, "lchild")

begin(t) == IF Root(t) = Null THEN Header ELSE t.most_left

\* Where an iterator is after i steps.
Along(t, n, d, i) ==
    Iterate([m \in Cells \cup {Null} |-> IF m = Null THEN Null ELSE Beside(t, m, d)], n, i)

\* for (it = begin(); it != end(); ++it), and the loop of copy(), which takes
\* count steps whatever it meets.
Walk(t) == [i \in 1..t.count |-> Along(t, begin(t), "rchild", i - 1)]

\* From end() back to begin().
WalkBack(t) == [i \in 1..t.count |-> Along(t, prev(t, Header), "lchild", t.count - i)]
---------------------------------------------------------------------------
(* Properties.                                                             *)

\* The type of the state.
TypeOK ==
    /\ tree \in Trees
    /\ tree.count <= MaxNodes
    /\ removals \in 0..MaxRemovals

\* The nodes below each node in the order of the links, from the left, down to
\* a depth that a step makes one deeper.
OrderStep(t) ==
    [g \in [Links -> Seq(Nodes)] |->
        [n \in Links |-> IF n = Null THEN <<>>
                         ELSE g[t.child["lchild"][n]] \o <<n>> \o g[t.child["rchild"][n]]]]
InOrder(t) == Iterate(OrderStep(t), [n \in Links |-> <<>>], MaxNodes)
Order == InOrder(tree)[Root(tree)]
OrderSet == {Order[i] : i \in DOMAIN Order}

\* The tree is a search tree whatever was inserted and removed, with equal
\* keys too: find() finds a node of every key that has one, parents and
\* children agree, and count is the number of nodes.
SearchTree ==
    /\ \A i, j \in DOMAIN Order : i < j => key(Order[i]) <= key(Order[j])
    /\ \A k \in Keys : Find(tree, k) # Null <=> \E n \in OrderSet : key(n) = k
    /\ \A n \in OrderSet : n = tree.child[Side(tree, n)][tree.parent[n]]
    /\ tree.count = Cardinality(OrderSet)

\* The tree is a map: an insertion adds one node, a removal takes one or all
\* those of a key, and no rotation or repair loses or revives a node.
Map == INSTANCE MapService WITH Items <- Nodes, KeyOf <- key, items <- OrderSet
MapServiceSpec == Map!Spec

\* Iterating from begin() to end() and back from end() meets every node, in
\* the order of the keys; copy() relies on it.  It rests on most_left, which
\* destroy_rebalance sets knowing that (bs_map.inl:33) "it cannot have (left)
\* children due the red black invariant".
Iterates ==
    /\ Walk(tree) = Order
    /\ tree.count # 0 => next(tree, Order[tree.count]) = Header
    /\ WalkBack(tree) = Order

\* The same of a map nothing was removed from.
IteratesInserted == removals = 0 => Iterates

\* The black nodes on a path down from each node, -1 if two paths differ.
BlackStep(t) ==
    [g \in [Links -> Int] |->
        [n \in Links |->
            IF n = Null THEN 0
            ELSE LET l == g[t.child["lchild"][n]]
                     r == g[t.child["rchild"][n]]
                 IN  IF l = -1 \/ l # r THEN -1
                     ELSE l + (IF Red(t, n) THEN 0 ELSE 1)]]
BlackHeight(t) == Iterate(BlackStep(t), [n \in Links |-> 0], MaxNodes)

\* bs_mapdata.h:63, rebalance "repairs the red-black tree": after any series
\* of insertions the root is black, no red node has a red child, and all paths
\* down have as many black nodes, so that a search is logarithmic.
Balanced ==
    removals = 0 =>
        /\ BlackOrNull(tree, Root(tree))
        /\ \A n \in Nodes : InTree(tree, n) /\ Red(tree, n) =>
              \A d \in Sides : BlackOrNull(tree, tree.child[d][n])
        /\ BlackHeight(tree)[Root(tree)] # -1
===========================================================================
