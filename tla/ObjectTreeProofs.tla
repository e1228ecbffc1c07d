------------------------- MODULE ObjectTreeProofs -------------------------
(* Theorems about ObjectTree, for any number of objects.                   *)
EXTENDS ObjectTree, SequenceTheorems, TLAPS

LEMMA EmptyElems == Elems(<<>>) = {} /\ Distinct(<<>>)
BY DEF Elems, Distinct

LEMMA ElemsIn ==
    ASSUME NEW S, NEW s \in Seq(S)
    PROVE  Elems(s) \subseteq S /\ (s # <<>> => Head(s) \in Elems(s))
BY DEF Elems

LEMMA AppendElems ==
    ASSUME NEW S, NEW s \in Seq(S), NEW e \in S
    PROVE  /\ Append(s, e) \in Seq(S)
           /\ Elems(Append(s, e)) = Elems(s) \cup {e}
           /\ Distinct(s) /\ e \notin Elems(s) => Distinct(Append(s, e))
<1> DEFINE t == Append(s, e)
<1>1. /\ t \in Seq(S)
      /\ Len(t) = Len(s) + 1
      /\ DOMAIN t = 1 .. Len(s) + 1
      /\ \A i \in 1 .. Len(s) : t[i] = s[i]
      /\ t[Len(s) + 1] = e
      /\ Len(s) \in Nat
      /\ DOMAIN s = 1 .. Len(s)
  OBVIOUS
<1> HIDE DEF t
<1>2. Elems(t) = Elems(s) \cup {e}
  <2>1. ASSUME NEW x \in Elems(t) PROVE x \in Elems(s) \cup {e}
    BY <1>1, <2>1 DEF Elems
  <2>2. ASSUME NEW x \in Elems(s) \cup {e} PROVE x \in Elems(t)
    BY <1>1, <2>2 DEF Elems
  <2> QED BY <2>1, <2>2
<1>3. Distinct(s) /\ e \notin Elems(s) => Distinct(t)
  BY <1>1 DEF Elems, Distinct
<1> QED BY <1>1, <1>2, <1>3 DEF t

LEMMA WithoutElems ==
    ASSUME NEW S, NEW s \in Seq(S), NEW e, Distinct(s)
    PROVE  /\ Without(s, e) \in Seq(S)
           /\ Elems(Without(s, e)) = Elems(s) \ {e}
           /\ Distinct(Without(s, e))
<1>1. CASE e \notin Elems(s)
  BY <1>1 DEF Without
<1>2. CASE e \in Elems(s)
  <2> DEFINE n == Len(s)
             k == CHOOSE i \in DOMAIN s : s[i] = e
             t == [i \in 1 .. n - 1 |-> IF i < k THEN s[i] ELSE s[i + 1]]
  <2>1. n \in Nat /\ DOMAIN s = 1 .. n /\ \A i \in 1 .. n : s[i] \in S
    OBVIOUS
  <2>2. k \in 1 .. n /\ s[k] = e
    BY <1>2, <2>1 DEF Elems
  <2>3. Without(s, e) = t
    BY <1>2 DEF Without
  <2> HIDE DEF k
  <2>4. t \in Seq(S) /\ DOMAIN t = 1 .. n - 1
    <3>1. t \in [1 .. n - 1 -> S]
      BY <2>1, <2>2
    <3>2. n - 1 \in Nat
      BY <2>1, <2>2
    <3> QED BY <3>1, <3>2
  <2>5. \A i \in 1 .. n - 1 : t[i] = IF i < k THEN s[i] ELSE s[i + 1]
    OBVIOUS
  <2> HIDE DEF n, t
  <2>6. \A i, j \in 1 .. n : s[i] = s[j] => i = j
    BY <2>1 DEF Distinct
  <2>7. Distinct(t)
    BY <2>1, <2>2, <2>4, <2>5, <2>6 DEF Distinct
  <2>8. ASSUME NEW x \in Elems(t) PROVE x \in Elems(s) \ {e}
    <3>1. PICK i \in 1 .. n - 1 : x = t[i]
      BY <2>4, <2>8 DEF Elems
    <3>2. PICK j \in 1 .. n : x = s[j] /\ j # k
      BY <2>1, <2>2, <2>5, <3>1
    <3> QED BY <2>1, <2>2, <2>6, <3>2 DEF Elems
  <2>9. ASSUME NEW x \in Elems(s), x # e PROVE x \in Elems(t)
    <3>1. PICK i \in 1 .. n : x = s[i]
      BY <2>1, <2>9 DEF Elems
    <3>2. i # k
      BY <2>2, <2>9, <3>1
    <3>3. PICK j \in 1 .. n - 1 : t[j] = x
      <4>1. CASE i < k
        BY <2>1, <2>2, <2>5, <3>1, <4>1
      <4>2. CASE i > k
        <5>1. i - 1 \in 1 .. n - 1 /\ ~(i - 1 < k) /\ (i - 1) + 1 = i
          BY <2>1, <2>2, <4>2
        <5> QED BY <2>5, <3>1, <5>1
      <4> QED BY <2>1, <2>2, <3>2, <4>1, <4>2
    <3> QED BY <2>4, <3>3 DEF Elems
  <2> QED BY <2>3, <2>4, <2>7, <2>8, <2>9
<1> QED BY <1>1, <1>2

---------------------------------------------------------------------------
(* Steps that leave the pointers alone.                                    *)

LEMMA Still ==
    ASSUME ObjectInv, UNCHANGED <<life, tree, nexus>>
    PROVE  Family' /\ SlotsDistinct' /\ Unborn'
BY DEF ObjectInv, Family, SlotsDistinct, Unborn, tree, nexus, Live

LEMMA FaultStep ==
    ASSUME ObjectInv, Faults, broke' = TRUE
    PROVE  ObjectInv'
<1>1. Family' /\ SlotsDistinct' /\ Unborn'
  BY Still DEF Faults
<1>2. Cursors'
  BY DEF ObjectInv, Cursors, OnNode, Faults, nexus, Live
<1>3. TypeOK'
  BY DEF ObjectInv, TypeOK, Faults, tree, nexus
<1> QED BY <1>1, <1>2, <1>3 DEF ObjectInv

\* The emissions of Sound, of one frame.
Well(f) == Live(f.from) /\ f.cursor \in Elems(slot[f.from])

LEMMA SoundFrames ==
    ASSUME Sound PROVE \A i \in DOMAIN emitting : Well(emitting[i])
BY DEF Sound, Well

LEMMA StillSound ==
    ASSUME Sound, UNCHANGED <<life, tree, nexus, fault>>,
           \A i \in DOMAIN emitting' : Well(emitting'[i])
    PROVE  Sound'
BY DEF Sound, tree, nexus, Live, Well

LEMMA CountsStep ==
    ASSUME ObjectInv, NEW o \in Objects, AddRef(o) \/ LessRef(o)
    PROVE  ObjectInv'
<1>1. Family' /\ SlotsDistinct' /\ Unborn'
  BY Still DEF AddRef, LessRef
<1>2. UNCHANGED <<life, tree, nexus, emitting>>
  BY DEF AddRef, LessRef
<1>3. Cursors'
  BY <1>2 DEF ObjectInv, Cursors, OnNode, nexus, Live
<1>4. TypeOK'
  <2>1. ref \in [Objects -> Nat]
    BY DEF ObjectInv, TypeOK
  <2>2. ref' \in [Objects -> Nat]
    BY <2>1 DEF AddRef, LessRef
  <2>3. fault' = fault /\ broke' = broke
    BY DEF AddRef, LessRef, Keeps, Obeys
  <2> QED BY <1>2, <2>2, <2>3 DEF ObjectInv, TypeOK, tree, nexus
<1>5. ~broke' => Sound'
  BY DEF ObjectInv, Sound, AddRef, LessRef, Keeps, Obeys, tree, nexus, Live
<1> QED BY <1>1, <1>3, <1>4, <1>5 DEF ObjectInv

LEMMA AppendFrame ==
    ASSUME NEW q \in Seq(Frames), NEW f \in Frames
    PROVE  /\ Append(q, f) \in Seq(Frames)
           /\ \A i \in DOMAIN Append(q, f) :
                  \/ Append(q, f)[i] = f
                  \/ i \in DOMAIN q /\ Append(q, f)[i] = q[i]
<1>1. /\ Append(q, f) \in Seq(Frames)
      /\ DOMAIN Append(q, f) = 1 .. Len(q) + 1
      /\ DOMAIN q = 1 .. Len(q) /\ Len(q) \in Nat
      /\ Append(q, f)[Len(q) + 1] = f
      /\ \A i \in 1 .. Len(q) : Append(q, f)[i] = q[i]
  OBVIOUS
<1> QED BY <1>1

LEMMA EmitStep ==
    ASSUME ObjectInv, NEW s \in Objects, Emit(s)
    PROVE  ObjectInv'
<1> DEFINE h == Head(slot[s])
           f == Frame(s)
<1>1. /\ slot[s] \in Seq(Objects) /\ slot[s] # <<>>
      /\ emitting \in Seq(Frames) /\ broke \in BOOLEAN
      /\ Live(s)
  BY DEF ObjectInv, TypeOK, Emit
<1>2. h \in Elems(slot[s]) /\ Elems(slot[s]) \subseteq Objects
  BY <1>1, ElemsIn
<1>3. ~broke => Live(h) /\ ~Dead(h)
  BY <1>1, <1>2 DEF ObjectInv, Sound, Live, Dead
<1>4. CASE Dead(h)
  <2>1. Faults /\ broke' = TRUE
    BY <1>1, <1>3, <1>4 DEF Emit, Obeys
  <2> QED BY <2>1, FaultStep
<1>5. CASE ~Dead(h)
  <2>1. /\ emitting' = Append(emitting, f)
        /\ UNCHANGED <<life, ref, tree, nexus, fault, broke>>
    BY <1>5 DEF Emit, Keeps, Obeys
  <2>2. f \in Frames /\ f.from = s /\ f.cursor = h
    BY <1>2 DEF Frame, Frames
  <2> HIDE DEF f
  <2>3. Family' /\ SlotsDistinct' /\ Unborn'
    BY <2>1, Still
  <2>4. TypeOK'
    <3>1. emitting' \in Seq(Frames)
      BY <1>1, <2>1, <2>2
    <3> QED BY <2>1, <3>1 DEF ObjectInv, TypeOK, tree, nexus
  <2>5. \A i \in DOMAIN emitting' : emitting'[i] = f \/ (i \in DOMAIN emitting /\ emitting'[i] = emitting[i])
    <3> DEFINE q == Append(emitting, f)
    <3>1. \A i \in DOMAIN q : q[i] = f \/ (i \in DOMAIN emitting /\ q[i] = emitting[i])
      BY <1>1, <2>2, AppendFrame
    <3>2. emitting' = q
      BY <2>1
    <3> HIDE DEF q
    <3> QED BY <3>1, <3>2
  <2>6. Cursors'
    <3>1. OnNode(f)
      BY <1>1, <1>2, <2>2 DEF OnNode, Live
    <3>2. \A i \in DOMAIN emitting' : OnNode(emitting'[i])
      BY <2>5, <3>1 DEF ObjectInv, Cursors
    <3> QED BY <2>1, <3>2 DEF Cursors, OnNode, nexus, Live
  <2>7. ASSUME ~broke' PROVE Sound'
    <3>1. Sound
      BY <2>1, <2>7 DEF ObjectInv
    <3>2. Well(f)
      BY <1>1, <1>2, <2>2 DEF Well
    <3>3. \A i \in DOMAIN emitting' : Well(emitting'[i])
      BY <2>5, <3>1, <3>2, SoundFrames
    <3> QED BY <2>1, <3>1, <3>3, StillSound
  <2> QED BY <2>3, <2>4, <2>6, <2>7 DEF ObjectInv
<1> QED BY <1>4, <1>5

LEMMA ReturnStep ==
    ASSUME ObjectInv, CallbackReturns
    PROVE  ObjectInv'
<1> DEFINE n == Len(emitting)
           f == emitting[n]
           s == f.from
           k == Index(slot[s], f.cursor)
           next == slot[s][k + 1]
           g == [f EXCEPT !.cursor = next, !.owed = f.owed \ {next},
                          !.served = f.served \cup (f.owed \cap {next})]
<1>1. /\ emitting \in Seq(Frames) /\ emitting # <<>> /\ broke \in BOOLEAN
      /\ broke' = broke
  BY DEF ObjectInv, TypeOK, CallbackReturns, Obeys
<1>2. n \in DOMAIN emitting /\ n \in Nat /\ n >= 1 /\ DOMAIN emitting = 1 .. n /\ f \in Frames
  BY <1>1
<1>3. f.from \in Objects /\ f.cursor \in Objects \cup {None}
  BY <1>2 DEF Frames
<1>4. OnNode(f)
  BY <1>2 DEF ObjectInv, Cursors
<1>5. ~broke => Well(f)
  BY <1>2, SoundFrames DEF ObjectInv
<1>6. Outer \in Seq(Frames) /\ DOMAIN Outer = 1 .. n - 1
      /\ \A i \in 1 .. n - 1 : Outer[i] = emitting[i]
  BY <1>1, <1>2 DEF Outer
<1>7. slot[s] \in Seq(Objects)
  BY <1>3 DEF ObjectInv, TypeOK
<1>8. CASE Dead(s) \/ f.cursor = None
  <2>1. Faults
    BY <1>8 DEF CallbackReturns
  <2>2. broke
    <3>1. ASSUME Well(f) PROVE FALSE
      BY <1>3, <1>7, <1>8, <3>1, ElemsIn, ObjectAssumptions DEF Well, Live, Dead
    <3> QED BY <1>5, <3>1
  <2> QED BY <1>1, <2>1, <2>2, FaultStep
<1>9. CASE ~Dead(s) /\ f.cursor # None
  <2>1. Live(s) /\ f.cursor \in Elems(slot[s])
    BY <1>3, <1>4, <1>9 DEF OnNode, ObjectInv, TypeOK, Live, Dead
  <2>2. CASE AtEnd(f)
    <3>1. emitting' = Outer /\ UNCHANGED <<life, ref, tree, nexus, fault>>
      BY <1>9, <2>2 DEF CallbackReturns, Keeps
    <3>2. Family' /\ SlotsDistinct' /\ Unborn'
      BY <3>1, Still
    <3>3. TypeOK'
      BY <1>1, <1>6, <3>1 DEF ObjectInv, TypeOK, tree, nexus
    <3>4. \A i \in DOMAIN emitting' : i \in DOMAIN emitting /\ emitting'[i] = emitting[i]
      BY <1>2, <1>6, <3>1
    <3>5. Cursors'
      BY <3>1, <3>4 DEF ObjectInv, Cursors, OnNode, nexus, Live
    <3>6. ASSUME ~broke' PROVE Sound'
      <4>1. Sound
        BY <1>1, <3>6 DEF ObjectInv
      <4>2. \A i \in DOMAIN emitting' : Well(emitting'[i])
        BY <3>4, <4>1, SoundFrames
      <4> QED BY <3>1, <4>1, <4>2, StillSound
    <3> QED BY <3>2, <3>3, <3>5, <3>6 DEF ObjectInv
  <2>3. CASE ~AtEnd(f)
    <3>1. k \in DOMAIN slot[s] /\ slot[s][k] = f.cursor
      BY <2>1 DEF Index, Elems
    <3>2. next \in Elems(slot[s]) /\ next \in Objects
      <4> HIDE DEF k
      <4>1. k # Len(slot[s])
        BY <2>3, <3>1 DEF AtEnd
      <4>2. k + 1 \in DOMAIN slot[s]
        BY <1>7, <3>1, <4>1
      <4>3. next \in Elems(slot[s])
        BY <4>2 DEF Elems
      <4> QED BY <1>7, <4>3, ElemsIn
    <3>3. CASE Dead(next)
      <4>1. Faults
        BY <1>9, <2>3, <3>3 DEF CallbackReturns, Keeps
      <4>2. broke
        BY <1>3, <2>1, <3>2, <3>3 DEF ObjectInv, Sound, Live, Dead
      <4> QED BY <1>1, <4>1, <4>2, FaultStep
    <3>4. CASE ~Dead(next)
      <4>1. emitting' = Append(Outer, g) /\ UNCHANGED <<life, ref, tree, nexus, fault>>
        BY <1>9, <2>3, <3>4 DEF CallbackReturns, Keeps
      <4> HIDE DEF next
      <4>2. g \in Frames /\ g.from = s /\ g.cursor = next
        BY <1>2, <3>2 DEF Frames
      <4> HIDE DEF g
      <4>3. Family' /\ SlotsDistinct' /\ Unborn'
        BY <4>1, Still
      <4>4. TypeOK'
        <5>1. emitting' \in Seq(Frames)
          BY <1>6, <4>1, <4>2
        <5> QED BY <1>1, <4>1, <5>1 DEF ObjectInv, TypeOK, tree, nexus
      <4>5. \A i \in DOMAIN emitting' :
               emitting'[i] = g \/ (i \in DOMAIN emitting /\ emitting'[i] = emitting[i])
        <5>1. \A i \in DOMAIN Outer : i \in DOMAIN emitting /\ Outer[i] = emitting[i]
          BY <1>2, <1>6
        <5> DEFINE q == Append(Outer, g)
        <5>2. \A i \in DOMAIN q : q[i] = g \/ (i \in DOMAIN Outer /\ q[i] = Outer[i])
          BY <1>6, <4>2, AppendFrame
        <5>3. emitting' = q
          BY <4>1
        <5> HIDE DEF q
        <5> QED BY <5>1, <5>2, <5>3
      <4>6. Cursors'
        <5>1. OnNode(g)
          BY <2>1, <3>2, <4>2 DEF OnNode, Live
        <5>2. \A i \in DOMAIN emitting' : OnNode(emitting'[i])
          BY <4>5, <5>1 DEF ObjectInv, Cursors
        <5> QED BY <4>1, <5>2 DEF Cursors, OnNode, nexus, Live
      <4>7. ASSUME ~broke' PROVE Sound'
        <5>1. Sound
          BY <1>1, <4>7 DEF ObjectInv
        <5>2. Well(g)
          BY <2>1, <3>2, <4>2 DEF Well
        <5>3. \A i \in DOMAIN emitting' : Well(emitting'[i])
          BY <4>5, <5>1, <5>2, SoundFrames
        <5> QED BY <4>1, <5>1, <5>3, StillSound
      <4> QED BY <4>3, <4>4, <4>6, <4>7 DEF ObjectInv
    <3> QED BY <3>3, <3>4
  <2> QED BY <2>2, <2>3
<1> QED BY <1>8, <1>9
---------------------------------------------------------------------------
(* Steps that move pointers.                                               *)

\* What the invariant says of one list.
LEMMA Lists ==
    ASSUME ObjectInv, NEW q \in Objects
    PROVE  /\ child[q] \in Seq(Objects) /\ Elems(child[q]) \subseteq Objects
           /\ slot[q] \in Seq(Objects) /\ Elems(slot[q]) \subseteq Objects
           /\ Distinct(slot[q])
           /\ Live(q) => Distinct(child[q])
<1>1. child[q] \in Seq(Objects) /\ slot[q] \in Seq(Objects)
  BY DEF ObjectInv, TypeOK
<1>2. Distinct(slot[q]) /\ (Live(q) => Distinct(child[q]))
  BY DEF ObjectInv, SlotsDistinct, Family
<1> QED BY <1>1, <1>2, ElemsIn


Appended(f, g, p, o) == g = [f EXCEPT ![p] = Append(f[p], o)]
Dropped(f, g, p, o) == g = [f EXCEPT ![p] = Without(f[p], o)]

\* What came of it.
Grew(f, g, p, o) ==
    /\ g \in [Objects -> Seq(Objects)]
    /\ \A q \in Objects : q # p => g[q] = f[q]
    /\ Elems(g[p]) = Elems(f[p]) \cup {o}
    /\ Distinct(f[p]) /\ o \notin Elems(f[p]) => Distinct(g[p])
Shrank(f, g, p, o) ==
    /\ g \in [Objects -> Seq(Objects)]
    /\ \A q \in Objects : q # p => g[q] = f[q]
    /\ Elems(g[p]) = Elems(f[p]) \ {o}
    /\ Distinct(g[p])

LEMMA AppendTo ==
    ASSUME NEW f \in [Objects -> Seq(Objects)], NEW p \in Objects, NEW o \in Objects,
           NEW g, Appended(f, g, p, o)
    PROVE  Grew(f, g, p, o)
<1>1. f[p] \in Seq(Objects) /\ g[p] = Append(f[p], o)
  BY DEF Appended
<1>2. Append(f[p], o) \in Seq(Objects)
  BY <1>1, AppendElems
<1>3. g \in [Objects -> Seq(Objects)] /\ \A q \in Objects : q # p => g[q] = f[q]
  BY <1>2 DEF Appended
<1> QED BY <1>1, <1>3, AppendElems DEF Grew

LEMMA WithoutFrom ==
    ASSUME NEW f \in [Objects -> Seq(Objects)], NEW p \in Objects, NEW o \in Objects,
           NEW g, Dropped(f, g, p, o), Distinct(f[p])
    PROVE  Shrank(f, g, p, o)
<1>1. f[p] \in Seq(Objects) /\ g[p] = Without(f[p], o)
  BY DEF Dropped
<1>2. Without(f[p], o) \in Seq(Objects)
  BY <1>1, WithoutElems
<1>3. g \in [Objects -> Seq(Objects)] /\ \A q \in Objects : q # p => g[q] = f[q]
  BY <1>2 DEF Dropped
<1> QED BY <1>1, <1>3, WithoutElems DEF Shrank

\* Family, of one parent.
Parented(q) ==
    /\ Distinct(child[q])
    /\ \A c \in Elems(child[q]) : Live(c) => parent[c] = q
    /\ \A c \in Objects : Live(c) /\ parent[c] = q => c \in Elems(child[q])

LEMMA FamilyOf == Family <=> \A q \in Objects : Live(q) => Parented(q)
BY DEF Family, Parented

LEMMA FamilyOfPrimed == Family' <=> \A q \in Objects : Live(q)' => Parented(q)'
BY DEF Family, Parented

\* Sound, of one object.
SoundOf(o) ==
    /\ parent[o] # None => Live(parent[o])
    /\ sig[o] # None => Live(sig[o])
    /\ \A c \in Elems(child[o]) : Live(c)
    /\ \A p \in Elems(slot[o]) : Live(p) /\ sig[p] = o

LEMMA SoundEach == Sound => \A o \in Objects : Live(o) => SoundOf(o)
BY DEF Sound, SoundOf

LEMMA SoundPrimed ==
    ASSUME ~fault', (\A i \in DOMAIN emitting : Well(emitting[i]))',
           \A o \in Objects : Live(o)' => SoundOf(o)'
    PROVE  Sound'
BY DEF Sound, SoundOf, Well

LEMMA NewStep ==
    ASSUME ObjectInv, NEW o \in Objects, NEW p \in Objects \cup {None}, New(o, p)
    PROVE  ObjectInv'
<1>1. /\ life[o] = "none" /\ (p # None => Live(p))
      /\ life' = [life EXCEPT ![o] = "live"]
      /\ parent' = [parent EXCEPT ![o] = p]
      /\ UNCHANGED <<ref, nexus, emitting, fault, broke>>
  BY DEF New, Keeps, Obeys
<1>2. /\ life \in [Objects -> {"none", "live", "dead"}]
      /\ parent \in [Objects -> Objects \cup {None}]
      /\ child \in [Objects -> Seq(Objects)]
  BY DEF ObjectInv, TypeOK
<1>3. \A q \in Objects : (Live(q)' <=> Live(q) \/ q = o) /\ (q # o => parent'[q] = parent[q])
  BY <1>1, <1>2 DEF Live
<1>4. o # p /\ ~Live(o) /\ parent'[o] = p
  BY <1>1, <1>2, ObjectAssumptions DEF Live
<1>5. /\ child[o] = <<>>
      /\ \A q \in Objects : /\ parent[q] # o /\ sig[q] # o
                            /\ o \notin Elems(child[q]) /\ o \notin Elems(slot[q])
  BY <1>1 DEF ObjectInv, Unborn
<1>6. /\ child' \in [Objects -> Seq(Objects)]
      /\ \A q \in Objects : q # p => child'[q] = child[q]
      /\ p # None => /\ Elems(child'[p]) = Elems(child[p]) \cup {o}
                     /\ Distinct(child'[p])
  <2>1. CASE p = None
    <3>1. child' = child
      BY <2>1 DEF New
    <3> QED BY <1>2, <2>1, <3>1
  <2>2. CASE p # None
    <3>1. Appended(child, child', p, o)
      BY <2>2 DEF New, Appended
    <3>2. p \in Objects /\ Distinct(child[p]) /\ o \notin Elems(child[p])
      BY <1>1, <1>5, <2>2, Lists
    <3>3. Grew(child, child', p, o)
      BY <1>2, <3>1, <3>2, AppendTo
    <3> QED BY <3>2, <3>3 DEF Grew
  <2> QED BY <2>1, <2>2
<1>7. TypeOK'
  <2>1. life' \in [Objects -> {"none", "live", "dead"}] /\ parent' \in [Objects -> Objects \cup {None}]
    BY <1>1, <1>2
  <2> QED BY <1>1, <1>6, <2>1 DEF ObjectInv, TypeOK, nexus
<1>8. Family'
  <2> SUFFICES ASSUME NEW q \in Objects, Live(q)' PROVE Parented(q)'
    BY FamilyOfPrimed
  <2>1. CASE q = p
    <3>1. Live(q) /\ Parented(q) /\ q # None
      BY <1>1, <2>1, ObjectAssumptions, FamilyOf DEF ObjectInv
    <3> QED BY <1>3, <1>4, <1>6, <2>1, <3>1, Lists DEF Parented
  <2>2. CASE q = o
    <3>1. child'[q] = <<>>
      BY <1>4, <1>5, <1>6, <2>2
    <3> QED BY <1>3, <1>4, <1>5, <2>2, <3>1, EmptyElems DEF Parented
  <2>3. CASE q # o /\ q # p
    <3>1. Parented(q) /\ child'[q] = child[q] /\ Live(q)
      BY <1>3, <1>6, <2>3, FamilyOf DEF ObjectInv
    <3> QED BY <1>3, <1>4, <1>5, <2>3, <3>1, Lists DEF Parented
  <2> QED BY <2>1, <2>2, <2>3
<1>9. SlotsDistinct' /\ Cursors'
  BY <1>1, <1>2 DEF ObjectInv, SlotsDistinct, Cursors, OnNode, nexus, Live
<1>10. Unborn'
  <2> SUFFICES ASSUME NEW u \in Objects, life'[u] = "none"
               PROVE  /\ child'[u] = <<>> /\ slot'[u] = <<>>
                      /\ parent'[u] = None /\ sig'[u] = None
                      /\ \A q \in Objects :
                            /\ parent'[q] # u /\ sig'[q] # u
                            /\ u \notin Elems(child'[q]) /\ u \notin Elems(slot'[q])
    BY DEF Unborn
  <2>1. u # o /\ life[u] = "none" /\ u # p
    BY <1>1, <1>2, ObjectAssumptions DEF Live
  <2>2. /\ child[u] = <<>> /\ slot[u] = <<>> /\ parent[u] = None /\ sig[u] = None
        /\ \A q \in Objects : /\ parent[q] # u /\ sig[q] # u
                              /\ u \notin Elems(child[q]) /\ u \notin Elems(slot[q])
    BY <2>1 DEF ObjectInv, Unborn
  <2>3. slot' = slot /\ sig' = sig
    BY <1>1 DEF nexus
  <2>4. \A q \in Objects : parent'[q] # u
    BY <1>3, <1>4, <2>1, <2>2
  <2>5. \A q \in Objects : u \notin Elems(child'[q])
    BY <1>6, <2>1, <2>2, ObjectAssumptions
  <2>6. child'[u] = <<>> /\ parent'[u] = None
    BY <1>3, <1>6, <2>1, <2>2
  <2> QED BY <2>2, <2>3, <2>4, <2>5, <2>6
<1>11. ASSUME ~broke' PROVE Sound'
  <2>1. Sound /\ UNCHANGED <<slot, sig, emitting, fault>>
    BY <1>1, <1>11 DEF ObjectInv, nexus
  <2>2. ~fault' /\ (\A i \in DOMAIN emitting : Well(emitting[i]))'
    <3>1. \A i \in DOMAIN emitting : emitting[i].from \in Objects
      <4>1. \A i \in DOMAIN emitting : emitting[i] \in Frames
        BY DEF ObjectInv, TypeOK
      <4> QED BY <4>1 DEF Frames
    <3>2. \A i \in DOMAIN emitting : Well(emitting[i])
      BY <2>1, SoundFrames
    <3> QED BY <1>3, <2>1, <3>1, <3>2 DEF Sound, Well
  <2>3. ASSUME NEW q \in Objects, Live(q)' PROVE SoundOf(q)'
    <3>1. CASE q = o
      <4>1. child'[q] = <<>> /\ slot'[q] = <<>> /\ sig'[q] = None
        BY <1>1, <1>4, <1>6, <2>1, <3>1 DEF ObjectInv, Unborn
      <4> QED BY <1>1, <1>3, <1>4, <3>1, <4>1, EmptyElems DEF SoundOf
    <3>2. CASE q # o
      <4>1. SoundOf(q) /\ Live(q) /\ parent'[q] = parent[q]
        BY <1>3, <2>1, <2>3, <3>2, SoundEach
      <4>2. \A c \in Elems(child'[q]) : Live(c)'
        BY <1>3, <1>4, <1>6, <4>1, Lists, ObjectAssumptions DEF SoundOf
      <4>3. parent[q] # None => parent[q] \in Objects
        BY <1>2
      <4>4. sig[q] # None => sig[q] \in Objects
        BY DEF ObjectInv, TypeOK
      <4> QED BY <1>3, <2>1, <4>1, <4>2, <4>3, <4>4, Lists DEF SoundOf
    <3> QED BY <3>1, <3>2
  <2> QED BY <2>2, <2>3, SoundPrimed
<1> QED BY <1>7, <1>8, <1>9, <1>10, <1>11 DEF ObjectInv

LEMMA ReparentStep ==
    ASSUME ObjectInv, NEW o \in Objects, NEW p \in Objects, Reparent(o, p)
    PROVE  ObjectInv'
<1> DEFINE old == parent[o]
           removed == IF old = None THEN child
                      ELSE [child EXCEPT ![old] = Without(child[old], o)]
<1>1. Live(o) /\ Live(p) /\ broke' = broke
  BY DEF Reparent, Obeys
<1>2. /\ parent \in [Objects -> Objects \cup {None}]
      /\ child \in [Objects -> Seq(Objects)]
      /\ broke \in BOOLEAN
  BY DEF ObjectInv, TypeOK
<1>3. \A q \in Objects : Live(q) => Parented(q)
  BY FamilyOf DEF ObjectInv
<1>4. old # None => old \in Objects /\ life[old] # "none"
  BY <1>2 DEF ObjectInv, Unborn
<1>5. CASE old # None /\ (Dead(old) \/ RemoveFaults(old))
  <2>1. Faults
    BY <1>5 DEF Reparent
  <2>2. ASSUME ~broke PROVE FALSE
    <3>1. \A q \in Objects : Live(q) => SoundOf(q)
      BY <2>2, SoundEach DEF ObjectInv
    <3>2. Live(old) /\ SoundOf(old)
      BY <1>1, <1>4, <1>5, <3>1 DEF SoundOf
    <3>3. parent[old] # None => SoundOf(parent[old]) /\ ~Dead(parent[old])
      BY <1>2, <1>4, <1>5, <3>1, <3>2 DEF SoundOf, Live, Dead
    <3> QED BY <1>5, <3>2, <3>3 DEF RemoveFaults, SoundOf, Live, Dead
  <2> QED BY <1>1, <1>2, <2>1, <2>2, FaultStep
<1>6. CASE ~(old # None /\ (Dead(old) \/ RemoveFaults(old)))
  <2>1. /\ parent' = [parent EXCEPT ![o] = p]
        /\ child' = [removed EXCEPT ![p] = Append(removed[p], o)]
        /\ UNCHANGED <<life, ref, nexus, emitting, fault>>
    BY <1>6 DEF Reparent, Keeps
  <2>2. old # None => Live(old)
    BY <1>4, <1>6 DEF Live, Dead, ObjectInv, TypeOK
  <2>3. /\ removed \in [Objects -> Seq(Objects)]
        /\ \A q \in Objects : /\ Live(q) => Distinct(removed[q])
                              /\ q # old => removed[q] = child[q]
                              /\ Elems(removed[q]) = Elems(child[q]) \ (IF q = old THEN {o} ELSE {})
    <3>1. CASE old = None
      <4>1. removed = child
        BY <3>1
      <4> QED BY <1>2, <3>1, <4>1, Lists, ObjectAssumptions
    <3>2. CASE old # None
      <4>1. Dropped(child, removed, old, o)
        BY <3>2 DEF Dropped
      <4> HIDE DEF removed
      <4>2. Shrank(child, removed, old, o)
        BY <1>2, <1>4, <2>2, <3>2, <4>1, Lists, WithoutFrom
      <4> QED BY <1>4, <3>2, <4>2, Lists DEF Shrank
    <3> QED BY <3>1, <3>2
  <2>4. o \notin Elems(removed[p])
    BY <1>1, <1>3, <2>3 DEF Parented
  <2> HIDE DEF removed
  <2>5. /\ child' \in [Objects -> Seq(Objects)]
        /\ \A q \in Objects : /\ Live(q) => Distinct(child'[q])
                              /\ q \notin {p, old} => child'[q] = child[q]
                              /\ Elems(child'[q]) = (Elems(child[q]) \ (IF q = old THEN {o} ELSE {}))
                                                      \cup (IF q = p THEN {o} ELSE {})
    <3>1. Appended(removed, child', p, o)
      BY <2>1 DEF Appended
    <3>2. Grew(removed, child', p, o)
      BY <2>3, <3>1, AppendTo
    <3> QED BY <1>1, <2>3, <2>4, <3>2 DEF Grew
  <2> HIDE DEF old
  <2>6. \A q \in Objects : /\ Live(q)' <=> Live(q)
                           /\ parent'[q] = IF q = o THEN p ELSE parent[q]
                           /\ parent[o] = old
    BY <1>2, <2>1 DEF Live, old
  <2>7. TypeOK'
    <3>1. parent' \in [Objects -> Objects \cup {None}]
      BY <1>2, <2>1
    <3> QED BY <1>1, <2>1, <2>5, <3>1 DEF ObjectInv, TypeOK, nexus
  <2>8. ASSUME NEW q \in Objects, Live(q)' PROVE Parented(q)'
    <3>1. Parented(q) /\ Live(q)
      BY <1>3, <2>6, <2>8
    <3>2. ASSUME NEW c \in Elems(child'[q]), Live(c)' PROVE parent'[c] = q
      <4>1. c \in Objects
        BY <1>1, <2>5, <3>2, Lists
      <4>2. CASE c = o
        <5>1. q = p \/ (o \in Elems(child[q]) /\ q # old)
          BY <2>5, <3>2, <4>2
        <5>2. o \in Elems(child[q]) => old = q
          BY <1>1, <2>6, <3>1 DEF Parented
        <5> QED BY <2>6, <4>1, <4>2, <5>1, <5>2
      <4>3. CASE c # o
        <5>1. c \in Elems(child[q])
          BY <2>5, <3>2, <4>3
        <5> QED BY <2>6, <3>1, <3>2, <4>1, <4>3, <5>1 DEF Parented
      <4> QED BY <4>2, <4>3
    <3>3. ASSUME NEW c \in Objects, Live(c)', parent'[c] = q PROVE c \in Elems(child'[q])
      <4>1. CASE c = o
        <5>1. q = p
          BY <2>6, <3>3, <4>1
        <5> QED BY <2>5, <4>1, <5>1
      <4>2. CASE c # o
        <5>1. c \in Elems(child[q])
          BY <2>6, <3>1, <3>3, <4>2 DEF Parented
        <5> QED BY <2>5, <4>2, <5>1
      <4> QED BY <4>1, <4>2
    <3> QED BY <2>5, <3>1, <3>2, <3>3 DEF Parented
  <2>9. SlotsDistinct' /\ Cursors'
    BY <2>1 DEF ObjectInv, SlotsDistinct, Cursors, OnNode, nexus, Live
  <2>10. Unborn'
    <3> SUFFICES ASSUME NEW u \in Objects, life'[u] = "none"
                 PROVE  /\ child'[u] = <<>> /\ slot'[u] = <<>>
                        /\ parent'[u] = None /\ sig'[u] = None
                        /\ \A q \in Objects :
                              /\ parent'[q] # u /\ sig'[q] # u
                              /\ u \notin Elems(child'[q]) /\ u \notin Elems(slot'[q])
      BY DEF Unborn
    <3>1. /\ child[u] = <<>> /\ slot[u] = <<>> /\ parent[u] = None /\ sig[u] = None
          /\ \A q \in Objects : /\ parent[q] # u /\ sig[q] # u
                                /\ u \notin Elems(child[q]) /\ u \notin Elems(slot[q])
      BY <2>1 DEF ObjectInv, Unborn
    <3>2. u # o /\ u # p /\ u # old
      BY <1>1, <2>1, <2>6, <3>1 DEF Live
    <3>3. slot' = slot /\ sig' = sig
      BY <2>1 DEF nexus
    <3>4. \A q \in Objects : parent'[q] # u
      BY <2>6, <3>1, <3>2
    <3>5. \A q \in Objects : u \notin Elems(child'[q])
      BY <2>5, <3>1, <3>2
    <3>6. child'[u] = <<>> /\ parent'[u] = None
      BY <2>5, <2>6, <3>1, <3>2
    <3> QED BY <3>1, <3>3, <3>4, <3>5, <3>6
  <2>11. ASSUME ~broke' PROVE Sound'
    <3>1. Sound /\ UNCHANGED <<life, slot, sig, emitting, fault>>
      BY <1>1, <2>1, <2>11 DEF ObjectInv, nexus
    <3>2. ~fault' /\ (\A i \in DOMAIN emitting : Well(emitting[i]))'
      BY <3>1, SoundFrames DEF Sound, Well, Live
    <3>3. ASSUME NEW q \in Objects, Live(q)' PROVE SoundOf(q)'
      <4>1. SoundOf(q)
        BY <2>6, <3>1, <3>3, SoundEach
      <4> QED BY <1>1, <2>5, <2>6, <3>1, <4>1 DEF SoundOf, Live
    <3> QED BY <3>2, <3>3, SoundPrimed
  <2> QED BY <2>7, <2>8, <2>9, <2>10, <2>11, FamilyOfPrimed DEF ObjectInv
<1> QED BY <1>5, <1>6

LEMMA ConnectStep ==
    ASSUME ObjectInv, NEW s \in Objects, NEW o \in Objects, Connect(s, o)
    PROVE  ObjectInv'
<1>1. /\ Live(s) /\ Live(o) /\ UNCHANGED <<life, ref, tree, emitting, fault>>
      /\ broke' = (broke \/ ConnectedTwice(s, o))
  BY DEF Connect, Keeps, Breaks
<1>2. /\ slot \in [Objects -> Seq(Objects)]
      /\ sig \in [Objects -> Objects \cup {None}]
      /\ broke' \in BOOLEAN
  BY <1>1 DEF ObjectInv, TypeOK, ConnectedTwice
<1>3. CASE o \in Elems(slot[s])
  <2>1. UNCHANGED <<life, ref, tree, nexus, emitting, fault>>
    BY <1>1, <1>3 DEF Connect
  <2>2. Family' /\ SlotsDistinct' /\ Unborn'
    BY <2>1, Still
  <2>3. Cursors'
    BY <2>1 DEF ObjectInv, Cursors, OnNode, nexus, Live
  <2>4. TypeOK'
    BY <1>2, <2>1 DEF ObjectInv, TypeOK, tree, nexus
  <2>5. ASSUME ~broke' PROVE Sound'
    <3>1. Sound
      BY <1>1, <2>5 DEF ObjectInv
    <3> QED BY <2>1, <3>1 DEF Sound, tree, nexus, Live
  <2> QED BY <2>2, <2>3, <2>4, <2>5 DEF ObjectInv
<1>4. CASE o \notin Elems(slot[s])
  <2>1. Appended(slot, slot', s, o) /\ sig' = [sig EXCEPT ![o] = s]
    BY <1>4 DEF Connect, Appended
  <2>2. Grew(slot, slot', s, o)
    BY <1>2, <2>1, AppendTo
  <2>3. \A q \in Objects : /\ Live(q)' <=> Live(q)
                           /\ sig'[q] = IF q = o THEN s ELSE sig[q]
                           /\ Elems(slot'[q]) = Elems(slot[q]) \cup (IF q = s THEN {o} ELSE {})
                           /\ Distinct(slot'[q])
    BY <1>1, <1>2, <1>4, <2>1, <2>2, Lists DEF Live, Grew
  <2>4. TypeOK'
    <3>1. sig' \in [Objects -> Objects \cup {None}]
      BY <1>2, <2>1
    <3> QED BY <1>1, <1>2, <2>2, <3>1 DEF ObjectInv, TypeOK, tree, Grew
  <2>5. Family' /\ SlotsDistinct'
    BY <1>1, <2>3 DEF ObjectInv, Family, SlotsDistinct, tree, Live
  <2>6. Cursors'
    <3>1. ASSUME NEW i \in DOMAIN emitting PROVE OnNode(emitting[i])'
      <4>1. OnNode(emitting[i]) /\ emitting[i] \in Frames
        BY DEF ObjectInv, Cursors, TypeOK
      <4>2. emitting[i].from \in Objects
        BY <4>1 DEF Frames
      <4> QED BY <1>1, <2>3, <4>1, <4>2 DEF OnNode
    <3> QED BY <1>1, <3>1 DEF Cursors
  <2>7. Unborn'
    <3> SUFFICES ASSUME NEW u \in Objects, life'[u] = "none"
                 PROVE  /\ child'[u] = <<>> /\ slot'[u] = <<>>
                        /\ parent'[u] = None /\ sig'[u] = None
                        /\ \A q \in Objects :
                              /\ parent'[q] # u /\ sig'[q] # u
                              /\ u \notin Elems(child'[q]) /\ u \notin Elems(slot'[q])
      BY DEF Unborn
    <3>1. /\ child[u] = <<>> /\ slot[u] = <<>> /\ parent[u] = None /\ sig[u] = None
          /\ \A q \in Objects : /\ parent[q] # u /\ sig[q] # u
                                /\ u \notin Elems(child[q]) /\ u \notin Elems(slot[q])
      BY <1>1 DEF ObjectInv, Unborn
    <3>2. u # o /\ u # s
      BY <1>1 DEF Live
    <3>3. child' = child /\ parent' = parent /\ slot'[u] = slot[u]
      BY <1>1, <2>2, <3>2 DEF tree, Grew
    <3> QED BY <2>3, <3>1, <3>2, <3>3
  <2>8. ASSUME ~broke' PROVE Sound'
    <3>1. Sound /\ ~ConnectedTwice(s, o) /\ UNCHANGED <<child, parent>>
      BY <1>1, <2>8 DEF ObjectInv, tree
    <3>2. ~fault' /\ (\A i \in DOMAIN emitting : Well(emitting[i]))'
      <4>1. ASSUME NEW i \in DOMAIN emitting PROVE Well(emitting[i])'
        <5>1. Well(emitting[i]) /\ emitting[i] \in Frames
          BY <3>1, SoundFrames DEF ObjectInv, TypeOK
        <5>2. emitting[i].from \in Objects
          BY <5>1 DEF Frames
        <5> QED BY <1>1, <2>3, <5>1, <5>2 DEF Well
      <4> QED BY <1>1, <3>1, <4>1 DEF Sound
    <3>3. ASSUME NEW q \in Objects, Live(q)' PROVE SoundOf(q)'
      <4>1. SoundOf(q) /\ Live(q)
        BY <2>3, <3>1, <3>3, SoundEach
      <4>2. q # s => o \notin Elems(slot[q])
        BY <3>1, <4>1 DEF ConnectedTwice
      <4>3. ASSUME NEW c \in Elems(slot'[q]) PROVE Live(c)' /\ sig'[c] = q
        <5>1. CASE c = o
          BY <1>1, <2>3, <4>2, <4>3, <5>1
        <5>2. CASE c # o
          <6>1. c \in Elems(slot[q]) /\ c \in Objects
            BY <2>3, <4>3, <5>2, Lists
          <6> QED BY <2>3, <4>1, <5>2, <6>1 DEF SoundOf
        <5> QED BY <5>1, <5>2
      <4>4. ASSUME sig'[q] # None PROVE life'[sig'[q]] = "live"
        <5>1. CASE q = o
          BY <1>1, <2>3, <5>1 DEF Live
        <5>2. CASE q # o
          BY <1>1, <2>3, <4>1, <4>4, <5>2 DEF SoundOf, Live
        <5> QED BY <5>1, <5>2
      <4>5. /\ parent'[q] # None => life'[parent'[q]] = "live"
            /\ \A c \in Elems(child'[q]) : Live(c)'
        BY <1>1, <3>1, <4>1 DEF SoundOf, Live
      <4> QED BY <4>3, <4>4, <4>5 DEF SoundOf, Live
    <3> QED BY <3>2, <3>3, SoundPrimed
  <2> QED BY <2>4, <2>5, <2>6, <2>7, <2>8 DEF ObjectInv
<1> QED BY <1>3, <1>4

\* The emissions once o is out of the slot of s.
LEMMA ForgottenFrames ==
    ASSUME ObjectInv, NEW s \in Objects, NEW o \in Objects
    PROVE  /\ Forgotten(s, o) \in Seq(Frames)
           /\ DOMAIN Forgotten(s, o) = DOMAIN emitting
           /\ \A i \in DOMAIN emitting :
                /\ Forgotten(s, o)[i].from = emitting[i].from
                /\ Forgotten(s, o)[i].cursor =
                     IF emitting[i].from = s /\ emitting[i].cursor = o
                     THEN None ELSE emitting[i].cursor
<1> DEFINE F(i) == Forgotten(s, o)[i]
<1>1. emitting \in Seq(Frames)
  BY DEF ObjectInv, TypeOK
<1>2. ASSUME NEW i \in DOMAIN emitting
      PROVE  /\ F(i) \in Frames
             /\ F(i).from = emitting[i].from
             /\ F(i).cursor = IF emitting[i].from = s /\ emitting[i].cursor = o
                              THEN None ELSE emitting[i].cursor
  <2>1. emitting[i] \in Frames
    BY <1>1
  <2>2. F(i) = IF emitting[i].from # s THEN emitting[i]
               ELSE [emitting[i] EXCEPT
                       !.cursor = IF emitting[i].cursor = o THEN None ELSE emitting[i].cursor,
                       !.owed = emitting[i].owed \ {o},
                       !.served = emitting[i].served \ {o}]
    BY DEF Forgotten
  <2>3. CASE emitting[i].from # s
    BY <2>1, <2>2, <2>3
  <2>4. CASE emitting[i].from = s
    <3> DEFINE c == IF emitting[i].cursor = o THEN None ELSE emitting[i].cursor
               w == emitting[i].owed \ {o}
               v == emitting[i].served \ {o}
    <3>1. F(i) = [emitting[i] EXCEPT !.cursor = c, !.owed = w, !.served = v]
      BY <2>2, <2>4
    <3>2. c \in Objects \cup {None} /\ w \in SUBSET Objects /\ v \in SUBSET Objects
      BY <2>1 DEF Frames
    <3>3. c = IF emitting[i].from = s /\ emitting[i].cursor = o THEN None ELSE emitting[i].cursor
      BY <2>4
    <3> HIDE DEF F, c, w, v
    <3>4. F(i) \in Frames /\ F(i).from = emitting[i].from /\ F(i).cursor = c
      BY <2>1, <3>1, <3>2 DEF Frames
    <3> QED BY <3>3, <3>4
  <2> QED BY <2>3, <2>4
<1>3. Forgotten(s, o) \in Seq(Frames) /\ DOMAIN Forgotten(s, o) = DOMAIN emitting
  <2>1. DOMAIN emitting = 1 .. Len(emitting) /\ Len(emitting) \in Nat
    BY <1>1
  <2>2. Forgotten(s, o) \in [1 .. Len(emitting) -> Frames]
    BY <1>2, <2>1 DEF Forgotten
  <2> QED BY <2>1, <2>2
<1> QED BY <1>2, <1>3

LEMMA DisconnectStep ==
    ASSUME ObjectInv, NEW s \in Objects, NEW o \in Objects, Disconnect(s, o)
    PROVE  ObjectInv'
<1>1. /\ Live(s) /\ Live(o) /\ UNCHANGED <<life, ref, tree, sig, fault>>
      /\ broke' = (broke \/ Calling(s, o))
      /\ emitting' = Forgotten(s, o)
      /\ Dropped(slot, slot', s, o)
  BY DEF Disconnect, Keeps, Breaks, Dropped
<1>2. slot \in [Objects -> Seq(Objects)] /\ broke' \in BOOLEAN
  BY <1>1 DEF ObjectInv, TypeOK, Calling
<1>3. Shrank(slot, slot', s, o)
  BY <1>1, <1>2, WithoutFrom, Lists
<1>4. \A q \in Objects : /\ Live(q)' <=> Live(q)
                         /\ Elems(slot'[q]) = Elems(slot[q]) \ (IF q = s THEN {o} ELSE {})
                         /\ Distinct(slot'[q])
  BY <1>1, <1>3, Lists DEF Live, Shrank
<1>5. /\ emitting' \in Seq(Frames) /\ DOMAIN emitting' = DOMAIN emitting
      /\ \A i \in DOMAIN emitting :
           /\ emitting'[i].from = emitting[i].from /\ emitting[i].from \in Objects
           /\ emitting'[i].cursor = IF emitting[i].from = s /\ emitting[i].cursor = o
                                    THEN None ELSE emitting[i].cursor
  <2>1. \A i \in DOMAIN emitting : emitting[i] \in Frames
    BY DEF ObjectInv, TypeOK
  <2>2. \A i \in DOMAIN emitting : emitting[i].from \in Objects
    BY <2>1 DEF Frames
  <2> QED BY <1>1, <2>2, ForgottenFrames
<1>6. TypeOK'
  BY <1>1, <1>2, <1>3, <1>5 DEF ObjectInv, TypeOK, tree, Shrank
<1>7. Family' /\ SlotsDistinct'
  BY <1>1, <1>4 DEF ObjectInv, Family, SlotsDistinct, tree, Live
<1>8. Cursors'
  <2>1. ASSUME NEW i \in DOMAIN emitting PROVE OnNode(emitting[i])'
    <3>1. OnNode(emitting[i])
      BY DEF ObjectInv, Cursors
    <3> QED BY <1>1, <1>4, <1>5, <3>1 DEF OnNode
  <2> QED BY <1>5, <2>1 DEF Cursors
<1>9. Unborn'
  <2> SUFFICES ASSUME NEW u \in Objects, life'[u] = "none"
               PROVE  /\ child'[u] = <<>> /\ slot'[u] = <<>>
                      /\ parent'[u] = None /\ sig'[u] = None
                      /\ \A q \in Objects :
                            /\ parent'[q] # u /\ sig'[q] # u
                            /\ u \notin Elems(child'[q]) /\ u \notin Elems(slot'[q])
    BY DEF Unborn
  <2>1. /\ child[u] = <<>> /\ slot[u] = <<>> /\ parent[u] = None /\ sig[u] = None
        /\ \A q \in Objects : /\ parent[q] # u /\ sig[q] # u
                              /\ u \notin Elems(child[q]) /\ u \notin Elems(slot[q])
    BY <1>1 DEF ObjectInv, Unborn
  <2>2. u # s /\ slot'[u] = slot[u]
    BY <1>1, <1>3 DEF Live, Shrank
  <2> QED BY <1>1, <1>4, <2>1, <2>2 DEF tree
<1>10. ASSUME ~broke' PROVE Sound'
  <2>1. Sound /\ ~Calling(s, o)
    BY <1>1, <1>10 DEF ObjectInv
  <2>2. (\A i \in DOMAIN emitting : Well(emitting[i]))'
    <3>1. ASSUME NEW i \in DOMAIN emitting PROVE Well(emitting[i])'
      <4>1. Well(emitting[i]) /\ ~(emitting[i].from = s /\ emitting[i].cursor = o)
        BY <2>1, SoundFrames DEF Calling
      <4> QED BY <1>4, <1>5, <4>1 DEF Well
    <3> QED BY <1>5, <3>1
  <2>3. ASSUME NEW q \in Objects, Live(q)' PROVE SoundOf(q)'
    <3>1. SoundOf(q) /\ Live(q)
      BY <1>4, <2>1, <2>3, SoundEach
    <3> QED BY <1>1, <1>4, <3>1 DEF SoundOf, tree, Live
  <2>4. ~fault'
    BY <1>1, <2>1 DEF Sound
  <2> QED BY <2>2, <2>3, <2>4, SoundPrimed
<1> QED BY <1>6, <1>7, <1>8, <1>9, <1>10 DEF ObjectInv

LEMMA DeleteStep ==
    ASSUME ObjectInv, NEW o \in Objects, Delete(o)
    PROVE  ObjectInv'
<1> DEFINE rule == Entangled(o) \/ parent[o] # None \/ \E s \in Objects : o \in Elems(slot[s])
<1>1. /\ Live(o)
      /\ life' = [life EXCEPT ![o] = "dead"]
      /\ parent' = [parent EXCEPT ![o] = None]
      /\ sig' = [sig EXCEPT ![o] = None]
      /\ child' = [child EXCEPT ![o] = <<>>]
      /\ slot' = [slot EXCEPT ![o] = <<>>]
      /\ ref' = [ref EXCEPT ![o] = 0]
      /\ broke' = (broke \/ rule)
      /\ UNCHANGED <<fault, emitting>>
  BY DEF Delete, Freed, Keeps, Breaks
<1>2. /\ life \in [Objects -> {"none", "live", "dead"}]
      /\ parent \in [Objects -> Objects \cup {None}] /\ sig \in [Objects -> Objects \cup {None}]
      /\ child \in [Objects -> Seq(Objects)] /\ slot \in [Objects -> Seq(Objects)]
      /\ ref \in [Objects -> Nat]
  BY DEF ObjectInv, TypeOK
<1>3. \A q \in Objects : /\ Live(q)' <=> Live(q) /\ q # o
                         /\ q # o => /\ parent'[q] = parent[q] /\ sig'[q] = sig[q]
                                     /\ child'[q] = child[q] /\ slot'[q] = slot[q]
                                     /\ life'[q] = life[q]
  BY <1>1, <1>2 DEF Live
<1>4. child'[o] = <<>> /\ slot'[o] = <<>> /\ parent'[o] = None /\ sig'[o] = None /\ life'[o] = "dead"
  BY <1>1, <1>2
<1>5. TypeOK'
  <2>1. /\ life' \in [Objects -> {"none", "live", "dead"}]
        /\ parent' \in [Objects -> Objects \cup {None}] /\ sig' \in [Objects -> Objects \cup {None}]
        /\ child' \in [Objects -> Seq(Objects)] /\ slot' \in [Objects -> Seq(Objects)]
        /\ ref' \in [Objects -> Nat]
    BY <1>1, <1>2
  <2>2. broke' \in BOOLEAN
    BY <1>1
  <2> QED BY <1>1, <2>1, <2>2 DEF ObjectInv, TypeOK
<1>6. ASSUME NEW q \in Objects, Live(q)' PROVE Parented(q)'
  <2>1. Parented(q) /\ q # o
    BY <1>3, <1>6, FamilyOf DEF ObjectInv
  <2> QED BY <1>3, <2>1, Lists DEF Parented
<1>7. SlotsDistinct'
  BY <1>3, <1>4, Lists, EmptyElems DEF SlotsDistinct
<1>8. Cursors'
  <2>1. ASSUME NEW i \in DOMAIN emitting PROVE OnNode(emitting[i])'
    <3>1. OnNode(emitting[i]) /\ emitting[i] \in Frames
      BY DEF ObjectInv, Cursors, TypeOK
    <3>2. emitting[i].from \in Objects
      BY <3>1 DEF Frames
    <3> QED BY <1>1, <1>3, <1>4, <3>1, <3>2 DEF OnNode
  <2> QED BY <1>1, <2>1 DEF Cursors
<1>9. Unborn'
  <2> SUFFICES ASSUME NEW u \in Objects, life'[u] = "none"
               PROVE  /\ child'[u] = <<>> /\ slot'[u] = <<>>
                      /\ parent'[u] = None /\ sig'[u] = None
                      /\ \A q \in Objects :
                            /\ parent'[q] # u /\ sig'[q] # u
                            /\ u \notin Elems(child'[q]) /\ u \notin Elems(slot'[q])
    BY DEF Unborn
  <2>1. u # o /\ life[u] = "none"
    BY <1>3, <1>4
  <2>2. /\ child[u] = <<>> /\ slot[u] = <<>> /\ parent[u] = None /\ sig[u] = None
        /\ \A q \in Objects : /\ parent[q] # u /\ sig[q] # u
                              /\ u \notin Elems(child[q]) /\ u \notin Elems(slot[q])
    BY <2>1 DEF ObjectInv, Unborn
  <2>3. ASSUME NEW q \in Objects
        PROVE  /\ parent'[q] # u /\ sig'[q] # u
               /\ u \notin Elems(child'[q]) /\ u \notin Elems(slot'[q])
    BY <1>3, <1>4, <2>2, EmptyElems, ObjectAssumptions
  <2> QED BY <1>3, <2>1, <2>2, <2>3
<1>10. ASSUME ~broke' PROVE Sound'
  <2>1. Sound /\ ~Entangled(o) /\ parent[o] = None /\ \A s \in Objects : o \notin Elems(slot[s])
    BY <1>1, <1>10 DEF ObjectInv
  <2>2. (\A i \in DOMAIN emitting : Well(emitting[i]))'
    <3>1. ASSUME NEW i \in DOMAIN emitting PROVE Well(emitting[i])'
      <4>1. Well(emitting[i]) /\ emitting[i] \in Frames /\ emitting[i].from # o
        BY <2>1, SoundFrames DEF ObjectInv, TypeOK, Entangled
      <4>2. emitting[i].from \in Objects
        BY <4>1 DEF Frames
      <4> QED BY <1>1, <1>3, <4>1, <4>2 DEF Well
    <3> QED BY <1>1, <3>1
  <2>3. ASSUME NEW q \in Objects, Live(q)' PROVE SoundOf(q)'
    <3>1. SoundOf(q) /\ Live(q) /\ q # o /\ Parented(q)
      BY <1>3, <2>1, <2>3, SoundEach, FamilyOf DEF ObjectInv
    <3>2. parent[q] # o /\ sig[q] # o
      <4>1. Parented(o) /\ child[o] = <<>>
        BY <1>1, <2>1, FamilyOf DEF ObjectInv, Entangled
      <4>2. parent[q] # o
        BY <3>1, <4>1, EmptyElems DEF Parented
      <4> QED BY <2>1, <3>1, <4>2 DEF Entangled
    <3>3. o \notin Elems(child[q]) /\ o \notin Elems(slot[q])
      BY <1>1, <2>1, <3>1, ObjectAssumptions DEF Parented
    <3>4. /\ parent[q] # None => parent[q] \in Objects
          /\ sig[q] # None => sig[q] \in Objects
      BY <1>2
    <3>5. /\ parent'[q] # None => life'[parent'[q]] = "live"
          /\ sig'[q] # None => life'[sig'[q]] = "live"
      BY <1>3, <3>1, <3>2, <3>4 DEF SoundOf, Live
    <3>6. \A c \in Elems(child'[q]) : Live(c)'
      BY <1>3, <3>1, <3>3, Lists DEF SoundOf
    <3>7. \A c \in Elems(slot'[q]) : Live(c)' /\ sig'[c] = q
      BY <1>3, <3>1, <3>3, Lists DEF SoundOf
    <3> QED BY <3>5, <3>6, <3>7 DEF SoundOf, Live
  <2>4. ~fault'
    BY <1>1, <2>1 DEF Sound
  <2> QED BY <2>2, <2>3, <2>4, SoundPrimed
<1> QED BY <1>5, <1>6, <1>7, <1>8, <1>9, <1>10, FamilyOfPrimed DEF ObjectInv

LEMMA DestroyStep ==
    ASSUME ObjectInv, NEW o \in Objects, Destroy(o)
    PROVE  ObjectInv'
<1> DEFINE p == parent[o]
           s == sig[o]
<1>1. /\ Live(o) /\ ref[o] = 0
      /\ broke' = (broke \/ (Entangled(o) \/ sig[o] = None))
  BY DEF Destroy, Breaks
<1>2. /\ life \in [Objects -> {"none", "live", "dead"}]
      /\ parent \in [Objects -> Objects \cup {None}] /\ sig \in [Objects -> Objects \cup {None}]
      /\ child \in [Objects -> Seq(Objects)] /\ slot \in [Objects -> Seq(Objects)]
      /\ ref \in [Objects -> Nat]
  BY DEF ObjectInv, TypeOK
<1>3. /\ p # None => p \in Objects /\ life[p] # "none"
      /\ s # None => s \in Objects /\ life[s] # "none"
  BY <1>2 DEF ObjectInv, Unborn
<1>4. Parented(o)
  BY <1>1, FamilyOf DEF ObjectInv
<1>5. CASE DestroyFaults(o)
  <2>1. Faults
    BY <1>5 DEF Destroy
  <2>2. ASSUME ~broke' PROVE FALSE
    <3>1. Sound /\ ~Entangled(o) /\ s # None
      BY <1>1, <2>2 DEF ObjectInv
    <3>2. \A q \in Objects : Live(q) => SoundOf(q)
      BY <3>1, SoundEach
    <3>3. Live(s) /\ ~Dead(s) /\ child[o] = <<>>
      BY <1>1, <3>1, <3>2 DEF SoundOf, Live, Dead, Entangled
    <3>4. p # None => Live(p) /\ ~Dead(p) /\ SoundOf(p)
      BY <1>1, <1>3, <3>2 DEF SoundOf, Live, Dead
    <3>5. p # None /\ parent[p] # None => ~Dead(parent[p]) /\ SoundOf(parent[p])
      BY <1>2, <1>3, <3>2, <3>4 DEF SoundOf, Live, Dead
    <3>6. p # None => ~RemoveFaults(p)
      BY <3>5 DEF RemoveFaults, SoundOf, Live, Dead
    <3>7. Elems(child[o]) = {}
      BY <3>3, EmptyElems
    <3> QED BY <1>5, <3>1, <3>3, <3>4, <3>6, <3>7 DEF DestroyFaults
  <2>3. broke' \in BOOLEAN
    BY <1>1
  <2> QED BY <2>1, <2>2, <2>3, FaultStep
<1>6. CASE ~DestroyFaults(o)
  <2>1. /\ s \in Objects /\ Live(s)
        /\ p # None => p \in Objects /\ Live(p)
        /\ \A c \in Elems(child[o]) : c = o \/ ref[c] # 0
    BY <1>2, <1>3, <1>6 DEF DestroyFaults, Live, Dead
  <2>2. /\ child' = [q \in Objects |-> IF q = o THEN <<>>
                                       ELSE IF q = p THEN Without(child[p], o)
                                       ELSE child[q]]
        /\ slot' = [q \in Objects |-> IF q = o THEN <<>>
                                      ELSE IF q = s THEN Without(slot[s], o)
                                      ELSE slot[q]]
        /\ emitting' = Forgotten(s, o)
        /\ ref' = [c \in Objects |->
                      IF c \in Elems(child[o]) \ {o} THEN ref[c] - 1 ELSE ref[c]]
        /\ life' = [life EXCEPT ![o] = "dead"]
        /\ parent' = [parent EXCEPT ![o] = None]
        /\ sig' = [sig EXCEPT ![o] = None]
        /\ fault' = fault
    BY <1>6 DEF Destroy, Freed, Keeps
  <2>3. \A q \in Objects : /\ Live(q)' <=> Live(q) /\ q # o
                           /\ q # o => /\ parent'[q] = parent[q] /\ sig'[q] = sig[q]
                                       /\ life'[q] = life[q]
    BY <1>2, <2>2 DEF Live
  <2>4. /\ child'[o] = <<>> /\ slot'[o] = <<>>
        /\ parent'[o] = None /\ sig'[o] = None /\ life'[o] = "dead"
    BY <1>2, <2>2
  <2>5. ASSUME NEW q \in Objects
        PROVE  /\ child'[q] \in Seq(Objects)
               /\ q # p /\ q # o => child'[q] = child[q]
               /\ q # o => Elems(child'[q]) = Elems(child[q]) \ (IF q = p THEN {o} ELSE {})
               /\ Live(q) => Distinct(child'[q])
    <3>1. CASE q = o
      <4>1. child'[q] = <<>> /\ <<>> \in Seq(Objects)
        BY <2>4, <3>1
      <4>2. Distinct(child'[q])
        BY <4>1, EmptyElems
      <4> QED BY <3>1, <4>1, <4>2
    <3>2. CASE q # o /\ q = p
      <4>1. child'[q] = Without(child[q], o) /\ Live(q)
        BY <2>1, <2>2, <3>2, ObjectAssumptions
      <4> QED BY <3>2, <4>1, Lists, WithoutElems
    <3>3. CASE q # o /\ q # p
      <4>1. child'[q] = child[q]
        BY <2>2, <3>3
      <4> QED BY <3>3, <4>1, Lists
    <3> QED BY <3>1, <3>2, <3>3
  <2>6. ASSUME NEW q \in Objects
        PROVE  /\ slot'[q] \in Seq(Objects)
               /\ q # s /\ q # o => slot'[q] = slot[q]
               /\ q # o => Elems(slot'[q]) = Elems(slot[q]) \ (IF q = s THEN {o} ELSE {})
               /\ Distinct(slot'[q])
    <3>1. CASE q = o
      <4>1. slot'[q] = <<>> /\ <<>> \in Seq(Objects)
        BY <2>4, <3>1
      <4>2. Distinct(slot'[q])
        BY <4>1, EmptyElems
      <4> QED BY <3>1, <4>1, <4>2
    <3>2. CASE q # o /\ q = s
      <4>1. slot'[q] = Without(slot[q], o)
        BY <2>2, <3>2
      <4> QED BY <3>2, <4>1, Lists, WithoutElems
    <3>3. CASE q # o /\ q # s
      <4>1. slot'[q] = slot[q]
        BY <2>2, <3>3
      <4> QED BY <3>3, <4>1, Lists
    <3> QED BY <3>1, <3>2, <3>3
  <2>7. /\ emitting' \in Seq(Frames) /\ DOMAIN emitting' = DOMAIN emitting
        /\ \A i \in DOMAIN emitting :
             /\ emitting'[i].from = emitting[i].from /\ emitting[i].from \in Objects
             /\ emitting'[i].cursor = IF emitting[i].from = s /\ emitting[i].cursor = o
                                      THEN None ELSE emitting[i].cursor
    <3>1. \A i \in DOMAIN emitting : emitting[i] \in Frames
      BY DEF ObjectInv, TypeOK
    <3>2. \A i \in DOMAIN emitting : emitting[i].from \in Objects
      BY <3>1 DEF Frames
    <3> QED BY <2>1, <2>2, <3>2, ForgottenFrames
  <2>8. TypeOK'
    <3>1. /\ life' \in [Objects -> {"none", "live", "dead"}]
          /\ parent' \in [Objects -> Objects \cup {None}]
          /\ sig' \in [Objects -> Objects \cup {None}]
      BY <1>2, <2>2
    <3>2. child' \in [Objects -> Seq(Objects)]
      <4>1. child' = [q \in Objects |-> child'[q]]
        BY <2>2
      <4> QED BY <2>5, <4>1
    <3>3. slot' \in [Objects -> Seq(Objects)]
      <4>1. slot' = [q \in Objects |-> slot'[q]]
        BY <2>2
      <4> QED BY <2>6, <4>1
    <3>4. ref' \in [Objects -> Nat]
      BY <1>2, <2>1, <2>2
    <3>5. broke' \in BOOLEAN
      BY <1>1
    <3> QED BY <2>2, <2>7, <3>1, <3>2, <3>3, <3>4, <3>5 DEF ObjectInv, TypeOK
  <2> HIDE DEF p, s
  <2>9. ASSUME NEW q \in Objects, Live(q)' PROVE Parented(q)'
    <3>1. Parented(q) /\ q # o /\ Live(q)
      BY <2>3, <2>9, FamilyOf DEF ObjectInv
    <3>2. ASSUME NEW c \in Elems(child'[q]), Live(c)' PROVE parent'[c] = q
      <4>1. c \in Elems(child[q]) /\ c \in Objects
        BY <2>5, <3>1, <3>2, Lists
      <4> QED BY <2>3, <3>1, <3>2, <4>1 DEF Parented
    <3>3. ASSUME NEW c \in Objects, Live(c)', parent'[c] = q PROVE c \in Elems(child'[q])
      <4>1. c # o /\ c \in Elems(child[q])
        BY <2>3, <3>1, <3>3 DEF Parented
      <4> QED BY <2>5, <3>1, <4>1
    <3> QED BY <2>5, <3>1, <3>2, <3>3 DEF Parented
  <2>10. SlotsDistinct'
    BY <2>6 DEF SlotsDistinct
  <2>11. Cursors'
    <3>1. ASSUME NEW i \in DOMAIN emitting PROVE OnNode(emitting[i])'
      <4>1. OnNode(emitting[i])
        BY DEF ObjectInv, Cursors
      <4> QED BY <2>3, <2>4, <2>6, <2>7, <4>1 DEF OnNode
    <3> QED BY <2>7, <3>1 DEF Cursors
  <2>12. Unborn'
    <3> SUFFICES ASSUME NEW u \in Objects, life'[u] = "none"
                 PROVE  /\ child'[u] = <<>> /\ slot'[u] = <<>>
                        /\ parent'[u] = None /\ sig'[u] = None
                        /\ \A q \in Objects :
                              /\ parent'[q] # u /\ sig'[q] # u
                              /\ u \notin Elems(child'[q]) /\ u \notin Elems(slot'[q])
      BY DEF Unborn
    <3>1. u # o /\ life[u] = "none"
      BY <2>3, <2>4
    <3>2. /\ child[u] = <<>> /\ slot[u] = <<>> /\ parent[u] = None /\ sig[u] = None
          /\ \A q \in Objects : /\ parent[q] # u /\ sig[q] # u
                                /\ u \notin Elems(child[q]) /\ u \notin Elems(slot[q])
      BY <3>1 DEF ObjectInv, Unborn
    <3>3. u # p /\ u # s
      BY <3>2 DEF p, s
    <3>4. ASSUME NEW q \in Objects
          PROVE  /\ parent'[q] # u /\ sig'[q] # u
                 /\ u \notin Elems(child'[q]) /\ u \notin Elems(slot'[q])
      <4>1. CASE q = o
        BY <2>4, <4>1, EmptyElems, ObjectAssumptions
      <4>2. CASE q # o
        BY <2>3, <2>5, <2>6, <3>2, <4>2
      <4> QED BY <4>1, <4>2
    <3> QED BY <2>3, <2>5, <2>6, <3>1, <3>2, <3>3, <3>4
  <2>13. ASSUME ~broke' PROVE Sound'
    <3>1. Sound /\ ~Entangled(o)
      BY <1>1, <2>13 DEF ObjectInv
    <3>2. (\A i \in DOMAIN emitting : Well(emitting[i]))'
      <4>1. ASSUME NEW i \in DOMAIN emitting PROVE Well(emitting[i])'
        <5>1. /\ Well(emitting[i])
              /\ emitting[i].from # o /\ emitting[i].cursor # o
          BY <3>1, SoundFrames DEF Entangled
        <5> QED BY <2>3, <2>6, <2>7, <5>1 DEF Well
      <4> QED BY <2>7, <4>1
    <3>3. ASSUME NEW q \in Objects, Live(q)' PROVE SoundOf(q)'
      <4>1. SoundOf(q) /\ Live(q) /\ q # o /\ Parented(q)
        BY <2>3, <3>1, <3>3, SoundEach, FamilyOf DEF ObjectInv
      <4>2. parent[q] # o /\ sig[q] # o
        <5>1. child[o] = <<>>
          BY <3>1 DEF Entangled
        <5>2. parent[q] # o
          BY <1>4, <4>1, <5>1, EmptyElems DEF Parented
        <5> QED BY <3>1, <4>1, <5>2 DEF Entangled
      <4>3. o \notin Elems(child'[q]) /\ o \notin Elems(slot'[q])
        <5>1. o \in Elems(child[q]) => q = p
          BY <1>1, <4>1 DEF Parented, p
        <5>2. o \in Elems(slot[q]) => q = s
          BY <4>1 DEF SoundOf, s
        <5> QED BY <2>5, <2>6, <4>1, <5>1, <5>2
      <4>4. /\ parent[q] # None => parent[q] \in Objects
            /\ sig[q] # None => sig[q] \in Objects
        BY <1>2
      <4>5. /\ parent'[q] # None => life'[parent'[q]] = "live"
            /\ sig'[q] # None => life'[sig'[q]] = "live"
        BY <2>3, <4>1, <4>2, <4>4 DEF SoundOf, Live
      <4>6. ASSUME NEW c \in Elems(child'[q]) PROVE Live(c)'
        <5>1. c \in Elems(child[q]) /\ c # o /\ c \in Objects
          BY <2>5, <4>1, <4>3, <4>6, Lists
        <5> QED BY <2>3, <4>1, <5>1 DEF SoundOf
      <4>7. ASSUME NEW c \in Elems(slot'[q]) PROVE Live(c)' /\ sig'[c] = q
        <5>1. c \in Elems(slot[q]) /\ c # o /\ c \in Objects
          BY <2>6, <4>1, <4>3, <4>7, Lists
        <5> QED BY <2>3, <4>1, <5>1 DEF SoundOf
      <4> QED BY <4>5, <4>6, <4>7 DEF SoundOf, Live
    <3>4. ~fault'
      BY <2>2, <3>1 DEF Sound
    <3> QED BY <3>2, <3>3, <3>4, SoundPrimed
  <2> QED BY <2>8, <2>9, <2>10, <2>11, <2>12, <2>13, FamilyOfPrimed DEF ObjectInv
<1> QED BY <1>5, <1>6
---------------------------------------------------------------------------
LEMMA ObjectInit == Init => ObjectInv
<1> SUFFICES ASSUME Init PROVE ObjectInv
  OBVIOUS
<1>1. \A o \in Objects : /\ life[o] = "none" /\ ref[o] = 0 /\ parent[o] = None
                         /\ child[o] = <<>> /\ slot[o] = <<>> /\ sig[o] = None
  BY DEF Init
<1>2. TypeOK
  <2>1. /\ life \in [Objects -> {"none", "live", "dead"}]
        /\ ref \in [Objects -> Nat]
        /\ parent \in [Objects -> Objects \cup {None}] /\ sig \in [Objects -> Objects \cup {None}]
    BY DEF Init
  <2>2. child \in [Objects -> Seq(Objects)] /\ slot \in [Objects -> Seq(Objects)]
    BY DEF Init
  <2>3. emitting = <<>> /\ fault \in BOOLEAN /\ broke \in BOOLEAN
    BY DEF Init
  <2>4. <<>> \in Seq(Frames)
    OBVIOUS
  <2> QED BY <2>1, <2>2, <2>3, <2>4 DEF TypeOK
<1>3. Family /\ SlotsDistinct
  BY <1>1, EmptyElems DEF Family, SlotsDistinct, Live
<1>4. Unborn
  BY <1>1, EmptyElems, ObjectAssumptions DEF Unborn
<1>5. Cursors
  BY DEF Init, Cursors
<1>6. Sound
  <2>1. \A o \in Objects : ~Live(o)
    BY <1>1 DEF Live
  <2> QED BY <2>1 DEF Init, Sound
<1> QED BY <1>2, <1>3, <1>4, <1>5, <1>6 DEF ObjectInv

LEMMA ObjectStep ==
    ASSUME ObjectInv, [Next]_vars
    PROVE  ObjectInv'
<1>1. CASE UNCHANGED vars
  BY <1>1 DEF vars, tree, nexus, ObjectInv, TypeOK, Family, SlotsDistinct, Unborn, Cursors,
     OnNode, Sound, Live
<1>2. CASE Counts
  BY <1>2, CountsStep DEF Counts
<1>3. CASE Kin
  <2>1. ASSUME NEW o \in Objects, Unparent(o) PROVE ObjectInv'
    <3>1. Faults /\ broke' = TRUE
      BY <2>1 DEF Unparent, Breaks
    <3> QED BY <3>1, FaultStep
  <2> QED BY <1>3, <2>1, NewStep, ReparentStep DEF Kin
<1>4. CASE Nexus
  BY <1>4, ConnectStep, DisconnectStep, EmitStep, ReturnStep DEF Nexus
<1>5. CASE Ends
  BY <1>5, DestroyStep, DeleteStep DEF Ends
<1> QED BY <1>1, <1>2, <1>3, <1>4, <1>5 DEF Next

\* The invariant of any number of objects, whatever is called inside of what.
THEOREM ObjectCorrect == Spec => []ObjectInv
BY ObjectInit, ObjectStep, PTL DEF Spec

\* The children of a living object are those that have it as their parent.
THEOREM FamilyCorrect == Spec => []Family
<1>1. ObjectInv => Family
  BY DEF ObjectInv
<1> QED BY <1>1, ObjectCorrect, PTL

\* No null or dangling pointer is used before a rule is broken.
THEOREM NoFaultCorrect == Spec => []NoFault
<1>1. ObjectInv => NoFault
  BY DEF ObjectInv, TypeOK, Sound, NoFault
<1> QED BY <1>1, ObjectCorrect, PTL

\* The state keeps its type.
THEOREM ObjectTypeCorrect == Spec => []TypeOK
<1>1. ObjectInv => TypeOK
  BY DEF ObjectInv
<1> QED BY <1>1, ObjectCorrect, PTL
---------------------------------------------------------------------------
(* Emissions: whom they owe a call, and whom they called.                  *)

LEMMA BetweenAppend ==
    ASSUME NEW nodes \in Seq(Objects), NEW e \in Objects, NEW f, Between(nodes, f)
    PROVE  Between(Append(nodes, e), f)
<1>1. /\ DOMAIN nodes = 1 .. Len(nodes) /\ Len(nodes) \in Nat
      /\ DOMAIN Append(nodes, e) = 1 .. Len(nodes) + 1
      /\ \A i \in 1 .. Len(nodes) : Append(nodes, e)[i] = nodes[i]
  OBVIOUS
<1> QED BY <1>1 DEF Between

LEMMA BetweenWithout ==
    ASSUME NEW nodes \in Seq(Objects), Distinct(nodes), NEW e, NEW f, NEW g,
           Between(nodes, f), f.cursor # e, g.cursor = f.cursor,
           g.owed = f.owed \ {e}, g.served = f.served \ {e}
    PROVE  Between(Without(nodes, e), g)
<1>1. CASE e \notin Elems(nodes)
  BY <1>1 DEF Without, Between
<1>2. CASE e \in Elems(nodes)
  <2> DEFINE n == Len(nodes)
             c == CHOOSE i \in DOMAIN nodes : nodes[i] = e
             t == [i \in 1 .. n - 1 |-> IF i < c THEN nodes[i] ELSE nodes[i + 1]]
             new(j) == IF j < c THEN j ELSE j - 1
  <2>1. n \in Nat /\ DOMAIN nodes = 1 .. n
    OBVIOUS
  <2>2. c \in 1 .. n /\ nodes[c] = e
    BY <1>2, <2>1 DEF Elems
  <2>3. Without(nodes, e) = t
    BY <1>2 DEF Without
  <2> HIDE DEF c
  <2>4. DOMAIN t = 1 .. n - 1
        /\ \A i \in 1 .. n - 1 : t[i] = IF i < c THEN nodes[i] ELSE nodes[i + 1]
    OBVIOUS
  <2> HIDE DEF n, t
  <2>5. \A j \in 1 .. n : nodes[j] # e => j # c /\ new(j) \in 1 .. n - 1 /\ t[new(j)] = nodes[j]
    <3> SUFFICES ASSUME NEW j \in 1 .. n, nodes[j] # e
                 PROVE  j # c /\ new(j) \in 1 .. n - 1 /\ t[new(j)] = nodes[j]
      OBVIOUS
    <3>1. CASE j < c
      BY <2>1, <2>2, <2>4, <3>1
    <3>2. CASE j > c
      <4>1. j - 1 \in 1 .. n - 1 /\ ~(j - 1 < c) /\ (j - 1) + 1 = j
        BY <2>1, <2>2, <3>2
      <4> QED BY <2>2, <2>4, <3>2, <4>1
    <3> QED BY <2>1, <2>2, <3>1, <3>2
  <2>6. \A i, j \in 1 .. n : i # c /\ j # c =>
           (i < j => new(i) < new(j)) /\ (i <= j => new(i) <= new(j))
    BY <2>1, <2>2
  <2> HIDE DEF new
  <2>7. PICK k \in 1 .. n :
          /\ nodes[k] = f.cursor
          /\ \A o \in f.owed : \E j \in 1 .. n : j > k /\ nodes[j] = o
          /\ \A o \in f.served : \E j \in 1 .. n : j <= k /\ nodes[j] = o
    BY <2>1 DEF Between
  <2>8. k # c /\ new(k) \in 1 .. n - 1 /\ t[new(k)] = g.cursor
    BY <2>5, <2>7
  <2>9. ASSUME NEW o \in g.owed PROVE \E j \in 1 .. n - 1 : j > new(k) /\ t[j] = o
    <3>1. PICK j \in 1 .. n : j > k /\ nodes[j] = o
      BY <2>7, <2>9
    <3>2. j # c /\ new(j) \in 1 .. n - 1 /\ t[new(j)] = o
      BY <2>5, <2>9, <3>1
    <3>3. new(k) < new(j)
      BY <2>1, <2>6, <2>8, <3>1, <3>2
    <3> QED BY <2>1, <2>8, <3>2, <3>3
  <2>10. ASSUME NEW o \in g.served PROVE \E j \in 1 .. n - 1 : j <= new(k) /\ t[j] = o
    <3>1. PICK j \in 1 .. n : j <= k /\ nodes[j] = o
      BY <2>7, <2>10
    <3>2. j # c /\ new(j) \in 1 .. n - 1 /\ t[new(j)] = o
      BY <2>5, <2>10, <3>1
    <3>3. new(j) <= new(k)
      BY <2>1, <2>6, <2>8, <3>1, <3>2
    <3> QED BY <3>2, <3>3
  <2> QED BY <2>3, <2>4, <2>8, <2>9, <2>10 DEF Between
<1> QED BY <1>1, <1>2

\* The emissions that are forgotten about o, completely.
LEMMA ForgottenFrame ==
    ASSUME ObjectInv, NEW s \in Objects, NEW o \in Objects, NEW i \in DOMAIN emitting
    PROVE  LET f == emitting[i]
               g == Forgotten(s, o)[i]
           IN  /\ f.from # s => g = f
               /\ f.from = s => /\ g.from = s
                                /\ g.cursor = IF f.cursor = o THEN None ELSE f.cursor
                                /\ g.owed = f.owed \ {o} /\ g.served = f.served \ {o}
<1> DEFINE f == emitting[i]
           c == IF f.cursor = o THEN None ELSE f.cursor
           w == f.owed \ {o}
           v == f.served \ {o}
<1>1. f \in Frames
  BY DEF ObjectInv, TypeOK
<1>2. Forgotten(s, o)[i] = IF f.from # s THEN f
                           ELSE [f EXCEPT !.cursor = c, !.owed = w, !.served = v]
  BY DEF Forgotten
<1>3. c = IF f.cursor = o THEN None ELSE f.cursor
  OBVIOUS
<1> HIDE DEF c
<1> QED BY <1>1, <1>2, <1>3 DEF Frames

\* Emissions stay in order where the slots only grow.
LEMMA StillOrdered ==
    ASSUME ObjectInv, Emissions, emitting' = emitting,
           \A q \in Objects : Live(q)' /\ life[q] # "none" => Live(q),
           \A q \in Objects : Live(q)' =>
              \/ slot'[q] = slot[q]
              \/ \E e \in Objects : slot'[q] = Append(slot[q], e)
    PROVE  Emissions'
<1> SUFFICES ASSUME NEW i \in DOMAIN emitting PROVE Ordered(emitting[i])'
  BY DEF Emissions
<1> DEFINE f == emitting[i]
<1>1. f \in Frames /\ OnNode(f) /\ Ordered(f) /\ emitting'[i] = f
  BY DEF ObjectInv, TypeOK, Cursors, Emissions
<1>2. f.from \in Objects /\ life[f.from] # "none" /\ slot[f.from] \in Seq(Objects)
  BY <1>1 DEF Frames, OnNode, ObjectInv, TypeOK
<1>3. ASSUME life'[f.from] = "live", f.cursor # None
      PROVE  Between(slot'[f.from], f)
  <2>1. Live(f.from) /\ Live(f.from)'
    BY <1>2, <1>3 DEF Live
  <2>2. Between(slot[f.from], f)
    BY <1>1, <1>3, <2>1 DEF Ordered
  <2>3. \/ slot'[f.from] = slot[f.from]
        \/ \E e \in Objects : slot'[f.from] = Append(slot[f.from], e)
    BY <1>2, <1>3 DEF Live
  <2>4. ASSUME NEW e \in Objects, slot'[f.from] = Append(slot[f.from], e)
        PROVE  Between(slot'[f.from], f)
    BY <1>2, <2>2, <2>4, BetweenAppend
  <2> QED BY <2>2, <2>3, <2>4
<1> QED BY <1>1, <1>3 DEF Ordered, Live, Between

\* Emissions stay in order when o is taken out of the slot of s.
LEMMA ForgottenOrdered ==
    ASSUME ObjectInv, Emissions, NEW s \in Objects, NEW o \in Objects,
           emitting' = Forgotten(s, o),
           \A q \in Objects : Live(q)' => Live(q),
           \A q \in Objects : Live(q)' =>
              slot'[q] = IF q = s THEN Without(slot[q], o) ELSE slot[q]
    PROVE  Emissions'
<1>1. DOMAIN emitting' = DOMAIN emitting
  BY ForgottenFrames
<1> SUFFICES ASSUME NEW i \in DOMAIN emitting PROVE Ordered(emitting[i])'
  BY <1>1 DEF Emissions
<1> DEFINE f == emitting[i]
           g == emitting'[i]
<1>2. f \in Frames /\ Ordered(f)
  BY DEF ObjectInv, TypeOK, Emissions
<1>3. f.from \in Objects /\ slot[f.from] \in Seq(Objects) /\ Distinct(slot[f.from])
  BY <1>2 DEF Frames, ObjectInv, TypeOK, SlotsDistinct
<1>4. /\ f.from # s => g = f
      /\ f.from = s => /\ g.from = s
                       /\ g.cursor = IF f.cursor = o THEN None ELSE f.cursor
                       /\ g.owed = f.owed \ {o} /\ g.served = f.served \ {o}
  BY ForgottenFrame
<1> HIDE DEF g
<1>5. ASSUME life'[g.from] = "live", g.cursor # None
      PROVE  Between(slot'[g.from], g)
  <2>1. g.from = f.from /\ f.cursor = g.cursor
    BY <1>4, <1>5
  <2>2. Live(f.from) /\ life'[f.from] = "live"
    BY <1>3, <1>5, <2>1 DEF Live
  <2>3. Between(slot[f.from], f)
    BY <1>2, <1>5, <2>1, <2>2 DEF Ordered
  <2>4. CASE f.from # s
    <3>1. slot'[f.from] = slot[f.from]
      BY <1>3, <2>2, <2>4 DEF Live
    <3> QED BY <1>4, <2>3, <2>4, <3>1
  <2>5. CASE f.from = s
    <3>1. f.cursor # o
      BY <1>4, <1>5, <2>5
    <3>2. slot'[s] = Without(slot[s], o)
      BY <2>2, <2>5 DEF Live
    <3> QED BY <1>3, <1>4, <2>1, <2>3, <2>5, <3>1, <3>2, BetweenWithout
  <2> QED BY <2>4, <2>5
<1> QED BY <1>5 DEF g, Ordered, Live, Between

\* An emission that begins.
LEMMA EmitOrdered ==
    ASSUME ObjectInv, Emissions, NEW s \in Objects, Emit(s)
    PROVE  Emissions' /\ (emitting' = emitting \/ Len(emitting') = Len(emitting) + 1)
<1>1. slot[s] \in Seq(Objects) /\ slot[s] # <<>> /\ emitting \in Seq(Frames)
  BY DEF ObjectInv, TypeOK, Emit
<1>2. CASE Faults
  BY <1>2, StillOrdered DEF Faults, nexus, Live
<1>3. CASE emitting' = Append(emitting, Frame(s)) /\ UNCHANGED <<life, ref, tree, nexus>>
  <2> DEFINE f == Frame(s)
  <2>1. /\ f.from = s /\ f.cursor = Head(slot[s]) /\ f.served = {Head(slot[s])}
        /\ f.owed = Elems(slot[s]) \ {Head(slot[s])}
    BY DEF Frame
  <2>2. f \in Frames
    <3>1. Elems(slot[s]) \subseteq Objects /\ Head(slot[s]) \in Objects
      BY <1>1, ElemsIn
    <3> QED BY <3>1 DEF Frame, Frames
  <2> HIDE DEF f
  <2>3. Between(slot[s], f)
    <3>1. /\ DOMAIN slot[s] = 1 .. Len(slot[s]) /\ Len(slot[s]) \in Nat /\ Len(slot[s]) > 0
          /\ Head(slot[s]) = slot[s][1]
      BY <1>1
    <3>2. \A o \in f.owed : \E j \in 1 .. Len(slot[s]) : j > 1 /\ slot[s][j] = o
      BY <2>1, <3>1 DEF Elems
    <3> QED BY <2>1, <3>1, <3>2 DEF Between
  <2>4. /\ Len(emitting') = Len(emitting) + 1
        /\ \A i \in DOMAIN emitting' :
             \/ emitting'[i] = f
             \/ i \in DOMAIN emitting /\ emitting'[i] = emitting[i]
    <3>1. emitting' = Append(emitting, f)
      BY <1>3 DEF f
    <3>2. \A i \in DOMAIN Append(emitting, f) :
             \/ Append(emitting, f)[i] = f
             \/ i \in DOMAIN emitting /\ Append(emitting, f)[i] = emitting[i]
      BY <1>1, <2>2, AppendFrame
    <3>3. Len(Append(emitting, f)) = Len(emitting) + 1
      BY <1>1, <2>2
    <3> QED BY <3>1, <3>2, <3>3, Zenon
  <2>5. \A i \in DOMAIN emitting' : Ordered(emitting'[i])
    BY <2>1, <2>3, <2>4 DEF Emissions, Ordered
  <2> QED BY <1>3, <2>4, <2>5 DEF Emissions, Ordered, nexus, Live
<1> QED BY <1>2, <1>3 DEF Emit

\* A callback that returns: it leaves the emission only when nobody is owed a
\* call, and goes on to an object that was not called.
LEMMA ReturnOrdered ==
    ASSUME ObjectInv, Emissions, CallbackReturns, ~fault'
    PROVE  LET n == Len(emitting)
               f == emitting[n]
           IN  /\ Emissions'
               /\ Len(emitting') < n => f.owed = {}
               /\ Len(emitting') = n /\ emitting'[n].cursor \notin {f.cursor, None} =>
                      emitting'[n].cursor \notin f.served
<1> DEFINE n == Len(emitting)
           f == emitting[n]
           s == f.from
           nodes == slot[s]
           next == nodes[Index(nodes, f.cursor) + 1]
           g == [f EXCEPT !.cursor = next, !.owed = f.owed \ {next},
                          !.served = f.served \cup (f.owed \cap {next})]
<1>1. /\ emitting \in Seq(Frames) /\ n \in Nat /\ n >= 1 /\ DOMAIN emitting = 1 .. n
      /\ f \in Frames /\ s \in Objects
  <2>1. emitting \in Seq(Frames) /\ emitting # <<>>
    BY DEF ObjectInv, TypeOK, CallbackReturns
  <2>2. n \in Nat /\ n >= 1 /\ DOMAIN emitting = 1 .. n /\ f \in Frames
    BY <2>1
  <2> QED BY <2>1, <2>2 DEF Frames
<1>2. ~Dead(s) /\ f.cursor # None
  BY DEF CallbackReturns, Faults
<1>3. nodes \in Seq(Objects) /\ Distinct(nodes) /\ Live(s)
  BY <1>1, <1>2 DEF ObjectInv, TypeOK, SlotsDistinct, Cursors, OnNode, Live, Dead
<1>4. PICK k \in DOMAIN nodes :
        /\ nodes[k] = f.cursor
        /\ \A o \in f.owed : \E j \in DOMAIN nodes : j > k /\ nodes[j] = o
        /\ \A o \in f.served : \E j \in DOMAIN nodes : j <= k /\ nodes[j] = o
  <2>1. Between(nodes, f)
    BY <1>1, <1>2, <1>3 DEF Emissions, Ordered
  <2> QED BY <2>1 DEF Between
<1>5. Index(nodes, f.cursor) = k /\ DOMAIN nodes = 1 .. Len(nodes) /\ Len(nodes) \in Nat
  BY <1>3, <1>4 DEF Index, Distinct
<1>6. Outer \in Seq(Frames) /\ DOMAIN Outer = 1 .. n - 1 /\ Len(Outer) = n - 1
      /\ \A i \in 1 .. n - 1 : Outer[i] = emitting[i]
  BY <1>1 DEF Outer
<1>7. CASE AtEnd(f)
  <2>1. emitting' = Outer /\ UNCHANGED <<life, ref, tree, nexus>>
    BY <1>2, <1>7 DEF CallbackReturns
  <2>2. k = Len(nodes)
    <3>1. nodes[k] = nodes[Len(nodes)] /\ Len(nodes) \in DOMAIN nodes
      BY <1>4, <1>5, <1>7 DEF AtEnd
    <3> QED BY <1>3, <1>4, <3>1 DEF Distinct
  <2>3. f.owed = {}
    BY <1>4, <1>5, <2>2
  <2>4. Emissions'
    <3>1. \A i \in DOMAIN emitting' : i \in DOMAIN emitting /\ emitting'[i] = emitting[i]
      BY <1>1, <1>6, <2>1
    <3> QED BY <2>1, <3>1 DEF Emissions, Ordered, nexus, Live
  <2>5. Len(emitting') = n - 1 /\ n - 1 # n
    <3>1. n \in Nat /\ Len(emitting') = n - 1
      BY <1>1, <1>6, <2>1
    <3> HIDE DEF n
    <3> QED BY <3>1
  <2> QED BY <1>1, <2>3, <2>4, <2>5
<1>8. CASE ~AtEnd(f)
  <2>1. emitting' = Append(Outer, g) /\ UNCHANGED <<life, ref, tree, nexus>>
    BY <1>2, <1>8 DEF CallbackReturns, Faults
  <2>2. k + 1 \in DOMAIN nodes /\ next = nodes[k + 1] /\ next \in Objects
    <3>1. k # Len(nodes)
      BY <1>4, <1>8 DEF AtEnd
    <3> QED BY <1>3, <1>4, <1>5, <3>1
  <2> HIDE DEF next
  <2>3. /\ g \in Frames /\ g.from = s /\ g.cursor = next /\ g.owed = f.owed \ {next}
        /\ g.served = f.served \cup (f.owed \cap {next})
    BY <1>1, <2>2 DEF Frames
  <2> HIDE DEF g
  <2>4. next \notin f.served
    BY <1>3, <1>4, <1>5, <2>2 DEF Distinct
  <2>5. Between(nodes, g)
    <3>1. \A o \in g.owed : \E j \in DOMAIN nodes : j > k + 1 /\ nodes[j] = o
      <4> SUFFICES ASSUME NEW o \in g.owed PROVE \E j \in DOMAIN nodes : j > k + 1 /\ nodes[j] = o
        OBVIOUS
      <4>1. PICK j \in DOMAIN nodes : j > k /\ nodes[j] = o
        BY <1>4, <2>3
      <4>2. j # k + 1
        BY <2>2, <2>3, <4>1
      <4> QED BY <1>5, <4>1, <4>2
    <3>2. \A o \in g.served : \E j \in DOMAIN nodes : j <= k + 1 /\ nodes[j] = o
      <4> SUFFICES ASSUME NEW o \in g.served PROVE \E j \in DOMAIN nodes : j <= k + 1 /\ nodes[j] = o
        OBVIOUS
      <4>1. CASE o \in f.served
        <5>1. PICK j \in DOMAIN nodes : j <= k /\ nodes[j] = o
          BY <1>4, <4>1
        <5> QED BY <1>5, <5>1
      <4>2. CASE o = next
        BY <1>5, <2>2, <4>2
      <4> QED BY <2>3, <4>1, <4>2
    <3> QED BY <2>2, <2>3, <3>1, <3>2 DEF Between
  <2>6. /\ Len(emitting') = n /\ emitting'[n] = g
        /\ \A i \in DOMAIN emitting' :
             emitting'[i] = g \/ (i \in DOMAIN emitting /\ emitting'[i] = emitting[i])
    <3>1. /\ DOMAIN Append(Outer, g) = 1 .. n /\ Len(Append(Outer, g)) = n
          /\ Append(Outer, g)[n] = g
          /\ \A i \in 1 .. n - 1 : Append(Outer, g)[i] = emitting[i]
      <4> HIDE DEF n
      <4> QED BY <1>1, <1>6, <2>3
    <3> DEFINE q == Append(Outer, g)
    <3>2. emitting' = q
      BY <2>1
    <3> HIDE DEF q
    <3>3. n \in Nat /\ DOMAIN emitting = 1 .. n
      BY <1>1
    <3>4. DOMAIN q = 1 .. n /\ Len(q) = n /\ q[n] = g
          /\ \A i \in 1 .. n - 1 : q[i] = emitting[i]
      BY <3>1 DEF q
    <3> HIDE DEF n
    <3>5. \A i \in 1 .. n : i = n \/ i \in 1 .. n - 1
      BY <3>3
    <3> QED BY <3>2, <3>3, <3>4, <3>5
  <2>7. \A i \in DOMAIN emitting' : Ordered(emitting'[i])
    BY <2>3, <2>5, <2>6 DEF Emissions, Ordered
  <2>8. Emissions'
    BY <2>1, <2>7 DEF Emissions, Ordered, nexus, Live
  <2> QED BY <1>1, <2>3, <2>4, <2>6, <2>8
<1> QED BY <1>7, <1>8

\* What the other steps do to the emissions.
LEMMA OtherOrdered ==
    ASSUME ObjectInv, Emissions, [Next]_vars,
           CallbackReturns => fault', \A s \in Objects : ~Emit(s)
    PROVE  /\ Emissions'
           /\ Len(emitting') = Len(emitting)
           /\ \A i \in DOMAIN emitting :
                 emitting'[i].cursor \in {emitting[i].cursor, None}
<1>1. ASSUME emitting' = emitting
      PROVE  /\ Len(emitting') = Len(emitting)
             /\ \A i \in DOMAIN emitting : emitting'[i].cursor \in {emitting[i].cursor, None}
  BY <1>1
<1>2. ASSUME NEW s \in Objects, NEW o \in Objects, emitting' = Forgotten(s, o)
      PROVE  /\ Len(emitting') = Len(emitting)
             /\ \A i \in DOMAIN emitting : emitting'[i].cursor \in {emitting[i].cursor, None}
  <2>1. emitting \in Seq(Frames) /\ emitting' \in Seq(Frames) /\ DOMAIN emitting' = DOMAIN emitting
    BY <1>2, ForgottenFrames DEF ObjectInv, TypeOK
  <2>2. Len(emitting') = Len(emitting)
    BY <2>1
  <2> QED BY <1>2, <2>2, ForgottenFrames
<1>3. CASE UNCHANGED vars
  BY <1>1, <1>3, StillOrdered DEF vars, nexus, Live
<1>4. CASE Counts
  <2>1. UNCHANGED <<life, slot, emitting>>
    BY <1>4 DEF Counts, AddRef, LessRef, nexus
  <2> QED BY <1>1, <2>1, StillOrdered DEF Live
<1>5. CASE Kin \/ (CallbackReturns /\ fault')
  <2>1. UNCHANGED <<slot, emitting>> /\ \A q \in Objects : Live(q)' /\ life[q] # "none" => Live(q)
    <3>1. CASE \E o \in Objects : Unparent(o) \/ \E p \in Objects : Reparent(o, p)
      BY <3>1 DEF Unparent, Reparent, Faults, nexus, Live
    <3>2. ASSUME NEW o \in Objects, NEW p, New(o, p)
          PROVE  UNCHANGED <<slot, emitting>> /\ \A q \in Objects : Live(q)' /\ life[q] # "none" => Live(q)
      BY <3>2 DEF New, nexus, Live, ObjectInv, TypeOK
    <3>3. CASE CallbackReturns /\ fault' /\ ~fault
      BY <3>3 DEF CallbackReturns, Faults, Keeps, nexus, Live
    <3>4. CASE UNCHANGED vars
      BY <3>4 DEF vars, nexus, Live
    <3> QED BY <1>5, <3>1, <3>2, <3>3, <3>4 DEF Kin, Next
  <2> QED BY <1>1, <2>1, StillOrdered
<1>6. ASSUME NEW s \in Objects, NEW o \in Objects, Connect(s, o)
      PROVE  UNCHANGED <<life, emitting>> /\ Emissions'
  <2>1. UNCHANGED <<life, emitting>> /\ (slot' = slot \/ slot' = [slot EXCEPT ![s] = Append(@, o)])
    BY <1>6 DEF Connect, nexus
  <2>2. \A q \in Objects : slot'[q] = slot[q] \/ slot'[q] = Append(slot[q], o)
    BY <2>1 DEF ObjectInv, TypeOK
  <2> QED BY <2>1, <2>2, StillOrdered DEF Live
<1>7. ASSUME NEW s \in Objects, NEW o \in Objects, Disconnect(s, o)
      PROVE  emitting' = Forgotten(s, o) /\ Emissions'
  <2>1. /\ life' = life /\ emitting' = Forgotten(s, o)
        /\ slot' = [slot EXCEPT ![s] = Without(slot[s], o)]
    BY <1>7 DEF Disconnect
  <2>2. \A q \in Objects : slot'[q] = IF q = s THEN Without(slot[q], o) ELSE slot[q]
    BY <2>1 DEF ObjectInv, TypeOK
  <2> QED BY <2>1, <2>2, ForgottenOrdered DEF Live
<1>8. ASSUME NEW o \in Objects, Destroy(o)
      PROVE  /\ Emissions'
             /\ emitting' = emitting \/ \E s \in Objects : emitting' = Forgotten(s, o)
  <2>1. CASE Faults
    BY <2>1, StillOrdered DEF Faults, nexus, Live
  <2>2. CASE ~DestroyFaults(o)
    <3> DEFINE s == sig[o]
    <3>1. s \in Objects
      BY <2>2 DEF DestroyFaults, ObjectInv, TypeOK
    <3>2. /\ emitting' = Forgotten(s, o) /\ life' = [life EXCEPT ![o] = "dead"]
          /\ slot' = [q \in Objects |-> IF q = o THEN <<>>
                                       ELSE IF q = s THEN Without(slot[s], o)
                                       ELSE slot[q]]
      BY <1>8, <2>2 DEF Destroy, Freed
    <3> HIDE DEF s
    <3>3. \A q \in Objects : Live(q)' => q # o /\ Live(q)
      BY <3>2 DEF Live, ObjectInv, TypeOK
    <3>4. \A q \in Objects : Live(q)' => slot'[q] = IF q = s THEN Without(slot[q], o) ELSE slot[q]
      BY <3>2, <3>3
    <3> QED BY <3>1, <3>2, <3>3, <3>4, ForgottenOrdered
  <2> QED BY <1>8, <2>1, <2>2 DEF Destroy
<1>9. ASSUME NEW o \in Objects, Delete(o)
      PROVE  emitting' = emitting /\ Emissions'
  <2>1. /\ emitting' = emitting /\ life' = [life EXCEPT ![o] = "dead"]
        /\ slot' = [slot EXCEPT ![o] = <<>>]
    BY <1>9 DEF Delete, Freed
  <2>2. \A q \in Objects : Live(q)' => q # o /\ Live(q) /\ slot'[q] = slot[q]
    BY <2>1 DEF Live, ObjectInv, TypeOK
  <2> QED BY <2>1, <2>2, StillOrdered
<1>10. CASE Nexus
  <2>1. CASE CallbackReturns
    BY <1>1, <1>5, <2>1
  <2>2. CASE \E s, o \in Objects : Connect(s, o) \/ Disconnect(s, o)
    BY <1>1, <1>2, <1>6, <1>7, <2>2
  <2> QED BY <1>10, <2>1, <2>2 DEF Nexus
<1>11. CASE Ends
  BY <1>1, <1>2, <1>8, <1>9, <1>11 DEF Ends
<1> QED BY <1>3, <1>4, <1>5, <1>10, <1>11 DEF Next

\* Emissions are in the order of the slots, with the pointers sound.
THEOREM InvCorrect == Spec => []Inv
<1>1. Init => Emissions
  BY DEF Init, Emissions
<1>2. ObjectInv /\ Emissions /\ [Next]_vars => Emissions'
  <2> SUFFICES ASSUME ObjectInv, Emissions, [Next]_vars PROVE Emissions'
    OBVIOUS
  <2>1. CASE CallbackReturns /\ ~fault'
    BY <2>1, ReturnOrdered
  <2>2. ASSUME NEW s \in Objects, Emit(s) PROVE Emissions'
    BY <2>2, EmitOrdered
  <2>3. CASE (CallbackReturns => fault') /\ \A s \in Objects : ~Emit(s)
    BY <2>3, OtherOrdered
  <2> QED BY <2>1, <2>2, <2>3
<1> QED BY <1>1, <1>2, ObjectCorrect, PTL DEF Spec, Inv

\* An emission that returns has called everyone who was connected all along,
\* and no one twice, for any number of objects, depth of emissions within
\* emissions, and whatever the callbacks connect, disconnect and destroy.
THEOREM EmitsToAllCorrect == Spec => EmitsToAll
<1> DEFINE A == emitting # <<>> /\ ~fault' =>
                  LET n == Len(emitting)
                      f == emitting[n]
                  IN  /\ Len(emitting') < n => f.owed = {}
                      /\ Len(emitting') = n /\ emitting'[n].cursor \notin {f.cursor, None} =>
                             emitting'[n].cursor \notin f.served
<1>1. ObjectInv /\ Emissions /\ [Next]_vars => A
  <2> SUFFICES ASSUME ObjectInv, Emissions, [Next]_vars, emitting # <<>>, ~fault' PROVE A
    OBVIOUS
  <2>1. Len(emitting) \in Nat /\ Len(emitting) \in DOMAIN emitting
    <3>1. emitting \in Seq(Frames)
      BY DEF ObjectInv, TypeOK
    <3> QED BY <3>1
  <2>2. CASE CallbackReturns
    BY <2>2, ReturnOrdered
  <2>3. ASSUME NEW s \in Objects, Emit(s) PROVE A
    BY <2>1, <2>3, EmitOrdered
  <2>4. CASE ~CallbackReturns /\ \A s \in Objects : ~Emit(s)
    BY <2>1, <2>4, OtherOrdered
  <2> QED BY <2>2, <2>3, <2>4
<1>2. Inv => ObjectInv /\ Emissions
  BY DEF Inv
<1> QED BY <1>1, <1>2, InvCorrect, PTL DEF Spec, EmitsToAll
===========================================================================
