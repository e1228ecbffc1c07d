--------------------------- MODULE ListRingProofs ---------------------------
(***************************************************************************)
(* The ring of bs_list, for any memory, any number of nodes and any series *)
(* of calls: first what a call does to the links (RingCorrect and          *)
(* FaultsCorrect), then what it does to the elements in the order of the   *)
(* links (ContentsCorrect).                                                *)
(***************************************************************************)
EXTENDS ListRing, IterationProofs, FiniteSetTheorems, SequenceTheorems
---------------------------------------------------------------------------
(* What every memory keeps, a ring twisted or not.                         *)

\* Headers and nodes are different cells, a cell that is neither links
\* nowhere, and nothing leads to shared_null.
Sane(s) ==
    /\ s \in Memories
    /\ Null \in s.heads /\ s.nodes \cap s.heads = {} /\ {s.list, s.other} \subseteq s.heads
    /\ \A c \in Places \ Used(s) : s.next[c] = Lost /\ s.prev[c] = Lost
    /\ \A c \in Places \ {Null} : s.next[c] # Null /\ s.prev[c] # Null

\* F is behind a fence: no link leads into it from outside, and every header
\* but the list's is in it.
Fenced(s, F) ==
    /\ F \subseteq Used(s) /\ Null \in F /\ s.heads \ {s.list} \subseteq F /\ s.list \notin F
    /\ \A c \in Places \ F : s.next[c] \notin F /\ s.prev[c] \notin F

\* What is in F did not change.
Same(F, s, t) ==
    /\ \A c \in F : /\ t.next[c] = s.next[c] /\ t.prev[c] = s.prev[c]
                    /\ t.data[c] = s.data[c] /\ t.count[c] = s.count[c]
                    /\ c \in t.nodes <=> c \in s.nodes
                    /\ c \in t.heads <=> c \in s.heads
    /\ t.other = s.other

\* From s to t the list was changed, and nothing behind the fence.
Within(F, s, t) ==
    /\ Sane(t) /\ Fenced(t, F) /\ Same(F, s, t)
    /\ t.list = s.list /\ t.heads = s.heads
    /\ s.fault # "no" => t.fault # "no"

LEMMA PlaceFacts ==
    /\ N \in Nat /\ Null \notin Cells /\ Lost \notin Cells /\ Null # Lost
    /\ Null \in Places /\ Lost \in Places /\ Cells \subseteq Places
    /\ \A c \in Places : c \in Cells \/ c = Null \/ c = Lost
    /\ Cells = 1 .. N
BY RingAssumptions DEF Null, Lost, Cells, Places

LEMMA UsedFacts ==
    ASSUME NEW s, Sane(s)
    PROVE  /\ Used(s) \subseteq Places /\ Lost \notin Used(s)
           /\ Free(s) \subseteq Cells /\ Free(s) \cap Used(s) = {}
           /\ s.nodes \subseteq Cells /\ s.heads \subseteq Cells \cup {Null}
           /\ s.next \in [Places -> Places] /\ s.prev \in [Places -> Places]
           /\ s.data \in [Places -> Values \cup {Lost}] /\ s.count \in [Places -> Int]
           /\ s.list \in Places /\ s.other \in Places /\ s.fault \in Faults
BY PlaceFacts DEF Sane, Used, Free, Memories

LEMMA NewFacts ==
    ASSUME NEW s, Sane(s), Free(s) # {}
    PROVE  /\ New(s) \in Free(s) /\ New(s) \in Cells /\ New(s) \in Places
           /\ New(s) \notin Used(s) /\ New(s) \notin s.nodes /\ New(s) \notin s.heads
           /\ New(s) # Null /\ New(s) # Lost
<1> DEFINE S == Free(s)
<1>1. S \subseteq Nat /\ S # {}
  BY UsedFacts, PlaceFacts
<1>2. PICK x \in S : \A y \in S : x <= y
  <2> DEFINE R == OpToRel(<, Nat)
  <2>1. IsWellFoundedOn(R, Nat)
    BY NatLessThanWellFounded
  <2>2. R = {ss \in Nat \X Nat : ss[1] < ss[2]}
    BY DEF OpToRel
  <2>3. PICK x \in S : \A y \in S : <<y, x>> \notin R
    <3> HIDE DEF S, R
    <3> QED BY <1>1, <2>1, WFMin
  <2>4. ASSUME NEW y \in S PROVE x <= y
    <3>1. x \in Nat /\ y \in Nat /\ <<y, x>> \notin R
      BY <1>1, <2>3
    <3>2. ASSUME y < x PROVE <<y, x>> \in R
      <4>1. x \in Nat /\ y \in Nat
        BY <3>1
      <4> HIDE DEF R, S
      <4> QED BY <2>2, <3>2, <4>1
    <3> HIDE DEF R, S
    <3> QED BY <3>1, <3>2
  <2> QED BY <2>4
<1>3. New(s) \in S
  BY <1>2 DEF New
<1> QED BY <1>3, UsedFacts, PlaceFacts DEF Used
---------------------------------------------------------------------------
(* One assignment.                                                         *)

\* All but the links.
Rest(s, t) ==
    /\ t.data = s.data /\ t.count = s.count /\ t.nodes = s.nodes /\ t.heads = s.heads
    /\ t.list = s.list /\ t.other = s.other

\* f is g everywhere but at c.
But(f, g, c) == \A e \in Places \ {c} : f[e] = g[e]

LEMMA FailsFields ==
    ASSUME NEW s \in Memories, NEW what \in Faults, what # "no", NEW t, t = Fails(s, what)
    PROVE  /\ t \in Memories /\ Rest(s, t) /\ t.next = s.next /\ t.prev = s.prev
           /\ t.fault # "no"
BY DEF Fails, Memories, Rest, Faults

LEMMA SetNextFields ==
    ASSUME NEW s \in Memories, NEW c \in Places, NEW d \in Places, NEW t, t = SetNext(s, c, d)
    PROVE  /\ t \in Memories /\ Rest(s, t) /\ t.prev = s.prev
           /\ c \in Used(s) => t.fault = s.fault /\ t.next[c] = d
           /\ c \notin Used(s) => t.fault # "no" /\ t.next[c] = s.next[c]
           /\ But(t.next, s.next, c)
<1>1. CASE c \in Used(s)
  <2>1. t = [s EXCEPT !.next = [s.next EXCEPT ![c] = d]]
    BY <1>1 DEF SetNext, Memories
  <2>2. t.next = [s.next EXCEPT ![c] = d] /\ t.next \in [Places -> Places]
    BY <2>1 DEF Memories
  <2>3. t \in Memories /\ Rest(s, t) /\ t.prev = s.prev /\ t.fault = s.fault
    BY <2>1, <2>2 DEF Memories, Rest
  <2>4. t.next[c] = d /\ But(t.next, s.next, c)
    BY <2>2 DEF Memories, But
  <2> QED BY <1>1, <2>3, <2>4
<1>2. CASE c \notin Used(s)
  <2>1. t = Fails(s, "freed")
    BY <1>2 DEF SetNext
  <2> QED BY <1>2, <2>1, FailsFields DEF Faults, But
<1> QED BY <1>1, <1>2

LEMMA SetPrevFields ==
    ASSUME NEW s \in Memories, NEW c \in Places, NEW d \in Places, NEW t, t = SetPrev(s, c, d)
    PROVE  /\ t \in Memories /\ Rest(s, t) /\ t.next = s.next
           /\ c \in Used(s) => t.fault = s.fault /\ t.prev[c] = d
           /\ c \notin Used(s) => t.fault # "no" /\ t.prev[c] = s.prev[c]
           /\ But(t.prev, s.prev, c)
<1>1. CASE c \in Used(s)
  <2>1. t = [s EXCEPT !.prev = [s.prev EXCEPT ![c] = d]]
    BY <1>1 DEF SetPrev, Memories
  <2>2. t.prev = [s.prev EXCEPT ![c] = d] /\ t.prev \in [Places -> Places]
    BY <2>1 DEF Memories
  <2>3. t \in Memories /\ Rest(s, t) /\ t.next = s.next /\ t.fault = s.fault
    BY <2>1, <2>2 DEF Memories, Rest
  <2>4. t.prev[c] = d /\ But(t.prev, s.prev, c)
    BY <2>2 DEF Memories, But
  <2> QED BY <1>1, <2>3, <2>4
<1>2. CASE c \notin Used(s)
  <2>1. t = Fails(s, "freed")
    BY <1>2 DEF SetPrev
  <2> QED BY <1>2, <2>1, FailsFields DEF Faults, But
<1> QED BY <1>1, <1>2

\* Only links changed.
Relinks(s, t) == Rest(s, t) /\ t.fault = s.fault /\ Used(t) = Used(s)

LEMMA RelinksThen ==
    ASSUME NEW r, NEW s, NEW t, Relinks(r, s), Relinks(s, t)
    PROVE  Relinks(r, t)
BY DEF Relinks, Rest

\* One link of a cell that is used.
NextIs(s, t, c, d) ==
    Relinks(s, t) /\ t.prev = s.prev /\ t.next[c] = d /\ But(t.next, s.next, c)
PrevIs(s, t, c, d) ==
    Relinks(s, t) /\ t.next = s.next /\ t.prev[c] = d /\ But(t.prev, s.prev, c)

LEMMA NextSet ==
    ASSUME NEW s \in Memories, NEW c \in Places, NEW d \in Places, c \in Used(s),
           NEW t, t = SetNext(s, c, d)
    PROVE  NextIs(s, t, c, d)
<1>1. Rest(s, t) /\ t.prev = s.prev /\ t.fault = s.fault /\ t.next[c] = d /\ But(t.next, s.next, c)
  BY SetNextFields
<1>2. Relinks(s, t)
  BY <1>1 DEF Relinks, Used, Rest
<1> QED BY <1>1, <1>2 DEF NextIs

LEMMA PrevSet ==
    ASSUME NEW s \in Memories, NEW c \in Places, NEW d \in Places, c \in Used(s),
           NEW t, t = SetPrev(s, c, d)
    PROVE  PrevIs(s, t, c, d)
<1>1. Rest(s, t) /\ t.next = s.next /\ t.fault = s.fault /\ t.prev[c] = d /\ But(t.prev, s.prev, c)
  BY SetPrevFields
<1>2. Relinks(s, t)
  BY <1>1 DEF Relinks, Used, Rest
<1> QED BY <1>1, <1>2 DEF PrevIs

LEMMA NewNodeFields ==
    ASSUME NEW s, Sane(s), Free(s) # {}, NEW v \in Values \cup {Lost},
           NEW t, t = newnode(s, v), NEW c, c = New(s)
    PROVE  /\ t \in Memories /\ t.next = s.next /\ t.prev = s.prev /\ t.count = s.count
           /\ t.heads = s.heads /\ t.list = s.list /\ t.other = s.other /\ t.fault = s.fault
           /\ t.nodes = s.nodes \cup {c}
           /\ t.data[c] = v /\ But(t.data, s.data, c)
<1>1. c \in Cells /\ c \in Places
  BY NewFacts
<1>2. s \in Memories
  BY DEF Sane
<1>3. t = [s EXCEPT !.nodes = s.nodes \cup {c}, !.data = [s.data EXCEPT ![c] = v]]
  BY <1>2 DEF newnode, Memories
<1>4. t.data = [s.data EXCEPT ![c] = v] /\ t.nodes = s.nodes \cup {c}
  BY <1>2, <1>3 DEF Memories
<1>5. t.data \in [Places -> Values \cup {Lost}] /\ t.nodes \in SUBSET Cells
  BY <1>1, <1>2, <1>4 DEF Memories
<1>6. t.data[c] = v /\ But(t.data, s.data, c)
  BY <1>1, <1>2, <1>4 DEF Memories, But
<1> QED BY <1>2, <1>3, <1>4, <1>5, <1>6 DEF Memories

LEMMA FreeNodeFields ==
    ASSUME NEW s \in Memories, NEW c \in Places, NEW t, t = freenode(s, c)
    PROVE  /\ t \in Memories /\ t.count = s.count
           /\ t.heads = s.heads /\ t.list = s.list /\ t.other = s.other /\ t.fault = s.fault
           /\ t.nodes = s.nodes \ {c}
           /\ t.data[c] = Lost /\ t.next[c] = Lost /\ t.prev[c] = Lost
           /\ But(t.data, s.data, c) /\ But(t.next, s.next, c) /\ But(t.prev, s.prev, c)
<1>1. PICK a : a = s.nodes \ {c}
  OBVIOUS
<1>2. PICK d : d = [s.data EXCEPT ![c] = Lost]
  OBVIOUS
<1>3. PICK f : f = [s.next EXCEPT ![c] = Lost]
  OBVIOUS
<1>4. PICK g : g = [s.prev EXCEPT ![c] = Lost]
  OBVIOUS
<1>5. t = [s EXCEPT !.nodes = a, !.data = d, !.next = f, !.prev = g]
  BY <1>1, <1>2, <1>3, <1>4 DEF freenode, Memories
<1>6. /\ s \in Memories /\ a \in SUBSET Cells /\ d \in [Places -> Values \cup {Lost}]
      /\ f \in [Places -> Places] /\ g \in [Places -> Places]
  BY <1>1, <1>2, <1>3, <1>4, PlaceFacts DEF Memories
<1>7. t \in Memories /\ t.nodes = a /\ t.data = d /\ t.next = f /\ t.prev = g
  BY ONLY <1>5, <1>6 DEF Memories
<1>8. /\ t.count = s.count /\ t.heads = s.heads /\ t.list = s.list
      /\ t.other = s.other /\ t.fault = s.fault
  BY <1>5 DEF Memories
<1>9. d[c] = Lost /\ f[c] = Lost /\ g[c] = Lost
  BY <1>2, <1>3, <1>4 DEF Memories
<1>10. But(d, s.data, c) /\ But(f, s.next, c) /\ But(g, s.prev, c)
  BY <1>2, <1>3, <1>4 DEF Memories, But
<1> QED BY <1>1, <1>7, <1>8, <1>9, <1>10

LEMMA CountFields ==
    ASSUME NEW s \in Memories, NEW k \in Int, NEW t, t = Count(s, k)
    PROVE  /\ t \in Memories /\ t.next = s.next /\ t.prev = s.prev /\ t.data = s.data
           /\ t.heads = s.heads /\ t.list = s.list /\ t.other = s.other /\ t.fault = s.fault
           /\ t.nodes = s.nodes
           /\ t.count[s.list] = s.count[s.list] + k /\ But(t.count, s.count, s.list)
<1>1. t = [s EXCEPT !.count = [s.count EXCEPT ![s.list] = s.count[s.list] + k]]
  BY DEF Count, Memories
<1>2. t.count = [s.count EXCEPT ![s.list] = s.count[s.list] + k]
  BY <1>1 DEF Memories
<1>3. t.count \in [Places -> Int]
  BY <1>2 DEF Memories
<1>4. t.count[s.list] = s.count[s.list] + k /\ But(t.count, s.count, s.list)
  BY <1>2 DEF Memories, But
<1> QED BY <1>1, <1>2, <1>3, <1>4 DEF Memories
---------------------------------------------------------------------------
(* Assignments in front of the fence leave what is behind it alone.        *)

LEMMA Outside ==
    ASSUME NEW s, NEW F, Sane(s), Fenced(s, F), NEW c \in Places \ F
    PROVE  /\ s.next[c] \in Places \ F /\ s.prev[c] \in Places \ F /\ c # Null
           /\ s.next[c] # Null /\ s.prev[c] # Null
BY UsedFacts DEF Fenced

LEMMA WithinSelf ==
    ASSUME NEW F, NEW s, Sane(s), Fenced(s, F)
    PROVE  Within(F, s, s)
BY DEF Within, Same

LEMMA WithinThen ==
    ASSUME NEW F, NEW s, NEW r, NEW t, Within(F, s, r), Within(F, r, t)
    PROVE  Within(F, s, t)
BY DEF Within, Same

\* The same cells are used, and a link that changed leads to a cell in front.
LEMMA Relinked ==
    ASSUME NEW F, NEW s, NEW t, Sane(s), Fenced(s, F), t \in Memories,
           t.nodes = s.nodes, t.heads = s.heads, t.list = s.list, t.other = s.other,
           t.fault = s.fault \/ t.fault # "no",
           \A c \in F : t.data[c] = s.data[c] /\ t.count[c] = s.count[c],
           \A c \in Places : \/ t.next[c] = s.next[c]
                             \/ c \in Used(s) \ F /\ t.next[c] \in Places \ F,
           \A c \in Places : \/ t.prev[c] = s.prev[c]
                             \/ c \in Used(s) \ F /\ t.prev[c] \in Places \ F
    PROVE  Within(F, s, t)
<1>1. Used(t) = Used(s)
  BY DEF Used
<1>2. Sane(t)
  BY <1>1 DEF Sane, Fenced
<1>3. Fenced(t, F)
  BY <1>1 DEF Fenced
<1>4. Same(F, s, t)
  BY UsedFacts DEF Same, Fenced
<1> QED BY <1>2, <1>3, <1>4 DEF Within

LEMMA WithinFails ==
    ASSUME NEW F, NEW s, NEW r, Within(F, s, r), NEW what \in Faults, what # "no",
           NEW t, t = Fails(r, what)
    PROVE  Within(F, s, t)
<1>1. Sane(r) /\ Fenced(r, F) /\ r \in Memories
  BY DEF Within, Sane
<1>2. Within(F, r, t)
  <2>1. t \in Memories /\ Rest(r, t) /\ t.next = r.next /\ t.prev = r.prev /\ t.fault # "no"
    BY <1>1, FailsFields
  <2> QED BY <1>1, <2>1, Relinked DEF Rest
<1> QED BY <1>2, WithinThen

LEMMA WithinNext ==
    ASSUME NEW F, NEW s, NEW r, Within(F, s, r), NEW c \in Places \ F, NEW d \in Places \ F,
           NEW t, t = SetNext(r, c, d)
    PROVE  Within(F, s, t)
<1>1. Sane(r) /\ Fenced(r, F) /\ r \in Memories
  BY DEF Within, Sane
<1>2. c \in Places /\ d \in Places /\ c \notin F /\ d \notin F
  OBVIOUS
<1>3. Within(F, r, t)
  <2>1. /\ t \in Memories /\ Rest(r, t) /\ t.prev = r.prev
        /\ c \in Used(r) => t.fault = r.fault /\ t.next[c] = d
        /\ c \notin Used(r) => t.fault # "no" /\ t.next[c] = r.next[c]
        /\ But(t.next, r.next, c)
    BY <1>1, <1>2, SetNextFields
  <2>2. \A e \in Places : t.next[e] = r.next[e] \/ (e \in Used(r) \ F /\ t.next[e] \in Places \ F)
    BY <1>2, <2>1 DEF But
  <2> QED BY <1>1, <2>1, <2>2, Relinked DEF Rest
<1> QED BY <1>3, WithinThen

LEMMA WithinPrev ==
    ASSUME NEW F, NEW s, NEW r, Within(F, s, r), NEW c \in Places \ F, NEW d \in Places \ F,
           NEW t, t = SetPrev(r, c, d)
    PROVE  Within(F, s, t)
<1>1. Sane(r) /\ Fenced(r, F) /\ r \in Memories
  BY DEF Within, Sane
<1>2. c \in Places /\ d \in Places /\ c \notin F /\ d \notin F
  OBVIOUS
<1>3. Within(F, r, t)
  <2>1. /\ t \in Memories /\ Rest(r, t) /\ t.next = r.next
        /\ c \in Used(r) => t.fault = r.fault /\ t.prev[c] = d
        /\ c \notin Used(r) => t.fault # "no" /\ t.prev[c] = r.prev[c]
        /\ But(t.prev, r.prev, c)
    BY <1>1, <1>2, SetPrevFields
  <2>2. \A e \in Places : t.prev[e] = r.prev[e] \/ (e \in Used(r) \ F /\ t.prev[e] \in Places \ F)
    BY <1>2, <2>1 DEF But
  <2> QED BY <1>1, <2>1, <2>2, Relinked DEF Rest
<1> QED BY <1>3, WithinThen

LEMMA WithinNew ==
    ASSUME NEW F, NEW s, NEW r, Within(F, s, r), Free(r) # {}, NEW v \in Values \cup {Lost},
           NEW t, t = newnode(r, v), NEW c, c = New(r)
    PROVE  Within(F, s, t) /\ c \in Places \ F /\ c \in Used(t)
<1>1. Sane(r) /\ Fenced(r, F)
  BY DEF Within
<1>2. /\ t \in Memories /\ t.next = r.next /\ t.prev = r.prev /\ t.count = r.count
      /\ t.heads = r.heads /\ t.list = r.list /\ t.other = r.other /\ t.fault = r.fault
      /\ t.nodes = r.nodes \cup {c}
      /\ But(t.data, r.data, c)
  BY <1>1, NewNodeFields
<1>3. c \in Places /\ c \notin Used(r) /\ c # Null /\ c \notin r.heads
  BY <1>1, NewFacts
<1>4. Used(t) = Used(r) \cup {c}
  BY <1>2 DEF Used
<1>5. Sane(t)
  BY <1>1, <1>2, <1>3, <1>4 DEF Sane
<1>6. Fenced(t, F)
  BY <1>1, <1>2, <1>4 DEF Fenced
<1>7. c \notin F /\ F \subseteq Places
  BY <1>1, <1>3, UsedFacts DEF Fenced
<1>8. Same(F, r, t)
  BY <1>2, <1>7 DEF Same, But
<1>9. Within(F, r, t)
  BY <1>2, <1>5, <1>6, <1>8 DEF Within
<1> QED BY <1>3, <1>4, <1>7, <1>9, WithinThen

LEMMA WithinFree ==
    ASSUME NEW F, NEW s, NEW r, Within(F, s, r), NEW c \in r.nodes \ F,
           NEW t, t = freenode(r, c)
    PROVE  Within(F, s, t)
<1>1. Sane(r) /\ Fenced(r, F) /\ r \in Memories
  BY DEF Within, Sane
<1>2. c \in Places /\ c # Null /\ Lost # Null /\ c \notin r.heads /\ F \subseteq Places /\ Lost \notin F
  BY <1>1, UsedFacts, PlaceFacts DEF Fenced, Sane
<1>3. /\ t \in Memories /\ t.count = r.count
      /\ t.heads = r.heads /\ t.list = r.list /\ t.other = r.other /\ t.fault = r.fault
      /\ t.nodes = r.nodes \ {c}
      /\ t.next[c] = Lost /\ t.prev[c] = Lost
      /\ But(t.data, r.data, c) /\ But(t.next, r.next, c) /\ But(t.prev, r.prev, c)
  BY <1>1, <1>2, FreeNodeFields
<1>4. Used(t) = Used(r) \ {c}
  BY <1>2, <1>3 DEF Used
<1>5. Sane(t)
  BY <1>1, <1>2, <1>3, <1>4 DEF Sane, But
<1>6. Fenced(t, F)
  BY <1>1, <1>2, <1>3, <1>4 DEF Fenced, But
<1>7. Same(F, r, t)
  BY <1>2, <1>3 DEF Same, But
<1>8. Within(F, r, t)
  BY <1>3, <1>5, <1>6, <1>7 DEF Within
<1> QED BY <1>8, WithinThen

LEMMA WithinCount ==
    ASSUME NEW F, NEW s, NEW r, Within(F, s, r), NEW k \in Int, NEW t, t = Count(r, k)
    PROVE  Within(F, s, t)
<1>1. Sane(r) /\ Fenced(r, F) /\ r \in Memories /\ r.list \notin F /\ F \subseteq Places
  BY UsedFacts DEF Within, Sane, Fenced
<1>2. /\ t \in Memories /\ t.next = r.next /\ t.prev = r.prev /\ t.data = r.data
      /\ t.heads = r.heads /\ t.list = r.list /\ t.other = r.other /\ t.fault = r.fault
      /\ t.nodes = r.nodes
      /\ But(t.count, r.count, r.list)
  BY <1>1, CountFields
<1>3. \A c \in F : t.data[c] = r.data[c] /\ t.count[c] = r.count[c]
  BY <1>1, <1>2 DEF But
<1>4. Within(F, r, t)
  BY <1>1, <1>2, <1>3, Relinked
<1> QED BY <1>4, WithinThen

\* The data of nodes in front of the fence.
LEMMA WithinData ==
    ASSUME NEW F, NEW s, NEW r, Within(F, s, r),
           NEW d \in [Places -> Values \cup {Lost}], \A c \in F : d[c] = r.data[c],
           NEW t, t = [r EXCEPT !.data = d]
    PROVE  Within(F, s, t)
<1>1. Sane(r) /\ Fenced(r, F) /\ r \in Memories
  BY DEF Within, Sane
<1>2. /\ t \in Memories /\ t.next = r.next /\ t.prev = r.prev /\ t.data = d
      /\ t.heads = r.heads /\ t.list = r.list /\ t.other = r.other /\ t.fault = r.fault
      /\ t.nodes = r.nodes /\ t.count = r.count
  BY <1>1 DEF Memories
<1>3. Within(F, r, t)
  BY <1>1, <1>2, Relinked
<1> QED BY <1>3, WithinThen
---------------------------------------------------------------------------
(* What the calls do to the links.                                         *)

\* f is g everywhere but at c and d.
ButTwo(f, g, c, d) == \A e \in Places \ {c, d} : f[e] = g[e]

\* A new node c with the data v is between a and q.
Linked(s, t, a, q, c, v) ==
    /\ c \in Cells \ Used(s) /\ t.nodes = s.nodes \cup {c} /\ t.fault = s.fault
    /\ t.next[a] = c /\ t.next[c] = q /\ t.prev[c] = a /\ t.prev[q] = c
    /\ ButTwo(t.next, s.next, a, c) /\ ButTwo(t.prev, s.prev, q, c)
    /\ t.data[c] = v /\ But(t.data, s.data, c)
    /\ t.count[s.list] = s.count[s.list] + 1 /\ But(t.count, s.count, s.list)

\* Nothing between a and q.
Closes(s, t, a, q) ==
    /\ Rest(s, t) /\ t.fault = s.fault
    /\ t.next[a] = q /\ t.prev[q] = a
    /\ But(t.next, s.next, a) /\ But(t.prev, s.prev, q)

LEMMA LinkFacts ==
    ASSUME NEW s, NEW F, Sane(s), Fenced(s, F), Free(s) # {}, NEW p \in Places \ F,
           NEW v \in Values \cup {Lost}, NEW t, t = Link(s, p, v)
    PROVE  /\ Within(F, s, t)
           /\ {p, s.prev[p]} \subseteq Used(s) => Linked(s, t, s.prev[p], p, New(s), v)
<1> PICK c : c = New(s)
  OBVIOUS
<1> PICK a : a = s.prev[p]
  OBVIOUS
<1> PICK t0 : t0 = newnode(s, v)
  OBVIOUS
<1> PICK t1 : t1 = SetPrev(t0, c, a)
  OBVIOUS
<1> PICK t2 : t2 = SetNext(t1, c, p)
  OBVIOUS
<1> PICK b : b = t2.prev[c]
  OBVIOUS
<1> PICK t3 : t3 = SetNext(t2, b, c)
  OBVIOUS
<1> PICK t4 : t4 = SetPrev(t3, p, c)
  OBVIOUS
<1>1. t = Count(t4, 1)
  BY DEF Link
<1>2. a \in Places \ F /\ a \in Places /\ p \in Places
  BY Outside
<1>3. Within(F, s, t0) /\ c \in Places \ F /\ c \in Used(t0)
  BY WithinSelf, WithinNew
<1>4. Within(F, s, t1)
  BY <1>2, <1>3, WithinPrev
<1>5. Within(F, s, t2)
  BY <1>3, <1>4, WithinNext
<1>6. b \in Places \ F /\ b \in Places /\ c \in Places
  BY <1>3, <1>5, Outside DEF Within
<1>7. Within(F, s, t3)
  BY <1>3, <1>5, <1>6, WithinNext
<1>8. Within(F, s, t4)
  BY <1>3, <1>7, WithinPrev
<1>9. Within(F, s, t)
  BY <1>1, <1>8, WithinCount
<1>10. ASSUME p \in Used(s), a \in Used(s) PROVE Linked(s, t, a, p, c, v)
  <2>1. /\ s \in Memories /\ t0 \in Memories /\ t1 \in Memories /\ t2 \in Memories
        /\ t3 \in Memories /\ t4 \in Memories
    BY <1>3, <1>4, <1>5, <1>7, <1>8 DEF Within, Sane
  <2>2. /\ t0.next = s.next /\ t0.prev = s.prev /\ t0.count = s.count
        /\ t0.heads = s.heads /\ t0.list = s.list /\ t0.fault = s.fault
        /\ t0.nodes = s.nodes \cup {c}
    BY NewNodeFields
  <2>3. t0.data[c] = v /\ But(t0.data, s.data, c)
    BY NewNodeFields
  <2>4. Used(t0) = Used(s) \cup {c}
    BY <2>2 DEF Used
  <2>5. PrevIs(t0, t1, c, a)
    BY <1>2, <1>3, <1>6, <2>1, PrevSet
  <2>6. c \in Used(t1) /\ a \in Used(t1) /\ p \in Used(t1)
    BY <1>3, <1>10, <2>4, <2>5 DEF PrevIs, Relinks
  <2>7. NextIs(t1, t2, c, p)
    BY <1>2, <1>6, <2>1, <2>6, NextSet
  <2>8. b = a /\ a \in Used(t2) /\ p \in Used(t2)
    BY <2>5, <2>6, <2>7 DEF PrevIs, NextIs, Relinks
  <2>9. NextIs(t2, t3, a, c)
    BY <1>2, <1>6, <2>1, <2>8, NextSet
  <2>10. p \in Used(t3)
    BY <2>8, <2>9 DEF NextIs, Relinks
  <2>11. PrevIs(t3, t4, p, c)
    BY <1>2, <1>6, <2>1, <2>10, PrevSet
  <2>12. /\ t.next = t4.next /\ t.prev = t4.prev /\ t.data = t4.data /\ t.fault = t4.fault
         /\ t.nodes = t4.nodes
    <3>1. t = Count(t4, 1) /\ t4 \in Memories /\ 1 \in Int
      BY <1>1, <2>1
    <3> QED BY ONLY <3>1, CountFields
  <2>13. t.count[t4.list] = t4.count[t4.list] + 1 /\ But(t.count, t4.count, t4.list)
    <3>1. t = Count(t4, 1) /\ t4 \in Memories /\ 1 \in Int
      BY <1>1, <2>1
    <3> QED BY ONLY <3>1, CountFields
  <2>14. c \in Cells /\ c \notin Used(s) /\ s.list \in Places
    BY NewFacts, UsedFacts
  <2>15. a # c /\ p # c
    BY <1>10, <2>14
  <2>16. t.next[a] = c /\ t.next[c] = p /\ ButTwo(t.next, s.next, a, c)
    <3>1. But(t2.next, s.next, c) /\ But(t3.next, t2.next, a) /\ t.next = t3.next
      <4>1. t1.next = s.next
        BY <2>2, <2>5 DEF PrevIs
      <4>2. But(t2.next, t1.next, c)
        BY <2>7 DEF NextIs
      <4>3. But(t3.next, t2.next, a)
        BY <2>9 DEF NextIs
      <4>4. t.next = t3.next
        BY <2>11, <2>12 DEF PrevIs
      <4> QED BY <4>1, <4>2, <4>3, <4>4
    <3>2. ButTwo(t3.next, s.next, a, c) /\ t3.next[c] = t2.next[c]
      BY ONLY <1>6, <2>15, <3>1 DEF But, ButTwo
    <3> QED BY <2>7, <2>9, <3>1, <3>2 DEF NextIs
  <2>17. t.prev[p] = c /\ t.prev[c] = a /\ ButTwo(t.prev, s.prev, p, c)
    <3>1. But(t1.prev, s.prev, c) /\ But(t4.prev, t1.prev, p) /\ t.prev = t4.prev
      <4>1. But(t1.prev, s.prev, c)
        BY <2>2, <2>5 DEF PrevIs
      <4>2. t3.prev = t1.prev
        BY <2>7, <2>9 DEF NextIs
      <4>3. But(t4.prev, t3.prev, p)
        BY <2>11 DEF PrevIs
      <4>4. t.prev = t4.prev
        BY <2>12
      <4> QED BY <4>1, <4>2, <4>3, <4>4
    <3>2. ButTwo(t4.prev, s.prev, p, c) /\ t4.prev[c] = t1.prev[c]
      BY ONLY <1>6, <2>15, <3>1 DEF But, ButTwo
    <3> QED BY <2>5, <2>11, <3>1, <3>2 DEF PrevIs
  <2>18. t.nodes = s.nodes \cup {c} /\ t.fault = s.fault /\ t.data = t0.data /\ t4.count = s.count
         /\ t4.list = s.list
    <3>1. Relinks(t0, t4)
      <4>1. Relinks(t0, t1) /\ Relinks(t1, t2) /\ Relinks(t2, t3) /\ Relinks(t3, t4)
        BY <2>5, <2>7, <2>9, <2>11 DEF NextIs, PrevIs
      <4>2. Relinks(t0, t2)
        BY <4>1, RelinksThen
      <4>3. Relinks(t0, t3)
        BY <4>1, <4>2, RelinksThen
      <4> QED BY <4>1, <4>3, RelinksThen
    <3> QED BY <2>2, <2>12, <3>1 DEF Relinks, Rest
  <2>19. t.data[c] = v /\ But(t.data, s.data, c)
    BY <2>18, <2>3
  <2>20. t.count[s.list] = s.count[s.list] + 1 /\ But(t.count, s.count, s.list)
    BY <2>18, <2>13
  <2> QED BY <2>14, <2>16, <2>17, <2>18, <2>19, <2>20 DEF Linked
<1> QED BY <1>9, <1>10

LEMMA LinkFirstFacts ==
    ASSUME NEW s, NEW F, Sane(s), Fenced(s, F), Free(s) # {},
           NEW v \in Values \cup {Lost}, NEW t, t = LinkFirst(s, v)
    PROVE  /\ Within(F, s, t)
           /\ s.next[s.list] \in Used(s) => Linked(s, t, s.list, s.next[s.list], New(s), v)
<1> PICK c : c = New(s)
  OBVIOUS
<1>1. PICK h : h = s.list
  OBVIOUS
<1>2. PICK q : q = s.next[h]
  OBVIOUS
<1> PICK t0 : t0 = newnode(s, v)
  OBVIOUS
<1> PICK t1 : t1 = SetNext(t0, c, q)
  OBVIOUS
<1> PICK t2 : t2 = SetPrev(t1, c, h)
  OBVIOUS
<1> PICK b : b = t2.next[c]
  OBVIOUS
<1> PICK t3 : t3 = SetPrev(t2, b, c)
  OBVIOUS
<1> PICK t4 : t4 = SetNext(t3, h, c)
  OBVIOUS
<1>3. t = Count(t4, 1)
  BY <1>1, <1>2 DEF LinkFirst
<1>4. h \in Places \ F /\ h \in Places /\ q \in Places \ F /\ q \in Places /\ h \in Used(s)
  <2>1. h \in Places \ F /\ h \in Used(s)
    BY <1>1, UsedFacts DEF Fenced, Sane, Used
  <2> QED BY <1>2, <2>1, Outside
<1>5. Within(F, s, t0) /\ c \in Places \ F /\ c \in Used(t0)
  BY WithinSelf, WithinNew
<1>6. Within(F, s, t1)
  BY <1>4, <1>5, WithinNext
<1>7. Within(F, s, t2)
  BY <1>4, <1>5, <1>6, WithinPrev
<1>8. b \in Places \ F /\ b \in Places /\ c \in Places
  BY <1>5, <1>7, Outside DEF Within
<1>9. Within(F, s, t3)
  BY <1>5, <1>7, <1>8, WithinPrev
<1>10. Within(F, s, t4)
  BY <1>4, <1>5, <1>9, WithinNext
<1>11. Within(F, s, t)
  BY <1>3, <1>10, WithinCount
<1>12. ASSUME q \in Used(s) PROVE Linked(s, t, h, q, c, v)
  <2>1. /\ s \in Memories /\ t0 \in Memories /\ t1 \in Memories /\ t2 \in Memories
        /\ t3 \in Memories /\ t4 \in Memories
    BY <1>5, <1>6, <1>7, <1>9, <1>10 DEF Within, Sane
  <2>2. /\ t0.next = s.next /\ t0.prev = s.prev /\ t0.count = s.count
        /\ t0.heads = s.heads /\ t0.list = s.list /\ t0.fault = s.fault
        /\ t0.nodes = s.nodes \cup {c}
    BY NewNodeFields
  <2>3. t0.data[c] = v /\ But(t0.data, s.data, c)
    BY NewNodeFields
  <2>4. Used(t0) = Used(s) \cup {c}
    BY <2>2 DEF Used
  <2>5. NextIs(t0, t1, c, q)
    BY <1>4, <1>5, <1>8, <2>1, NextSet
  <2>6. c \in Used(t1) /\ q \in Used(t1) /\ h \in Used(t1)
    BY <1>4, <1>5, <1>12, <2>4, <2>5 DEF NextIs, Relinks
  <2>7. PrevIs(t1, t2, c, h)
    BY <1>4, <1>8, <2>1, <2>6, PrevSet
  <2>8. b = q /\ q \in Used(t2) /\ h \in Used(t2)
    BY <2>5, <2>6, <2>7 DEF PrevIs, NextIs, Relinks
  <2>9. PrevIs(t2, t3, q, c)
    BY <1>4, <1>8, <2>1, <2>8, PrevSet
  <2>10. h \in Used(t3)
    BY <2>8, <2>9 DEF PrevIs, Relinks
  <2>11. NextIs(t3, t4, h, c)
    BY <1>4, <1>8, <2>1, <2>10, NextSet
  <2>12. /\ t.next = t4.next /\ t.prev = t4.prev /\ t.data = t4.data /\ t.fault = t4.fault
         /\ t.nodes = t4.nodes
    BY <1>3, <2>1, CountFields
  <2>13. t.count[t4.list] = t4.count[t4.list] + 1 /\ But(t.count, t4.count, t4.list)
    BY <1>3, <2>1, CountFields
  <2>14. c \in Cells /\ c \notin Used(s) /\ s.list \in Places
    BY NewFacts, UsedFacts
  <2>15. h # c /\ q # c
    BY <1>4, <1>12, <2>14
  <2>16. t.next[h] = c /\ t.next[c] = q /\ ButTwo(t.next, s.next, h, c)
    <3>1. But(t1.next, s.next, c) /\ But(t4.next, t1.next, h) /\ t.next = t4.next
      BY <2>2, <2>5, <2>7, <2>9, <2>11, <2>12 DEF NextIs, PrevIs
    <3>2. ButTwo(t4.next, s.next, h, c) /\ t4.next[c] = t1.next[c]
      BY <1>4, <1>8, <2>15, <3>1 DEF But, ButTwo
    <3> QED BY <2>5, <2>11, <3>1, <3>2 DEF NextIs
  <2>17. t.prev[q] = c /\ t.prev[c] = h /\ ButTwo(t.prev, s.prev, q, c)
    <3>1. But(t2.prev, s.prev, c) /\ But(t3.prev, t2.prev, q) /\ t.prev = t3.prev
      BY <2>2, <2>5, <2>7, <2>9, <2>11, <2>12 DEF NextIs, PrevIs
    <3>2. ButTwo(t3.prev, s.prev, q, c) /\ t3.prev[c] = t2.prev[c]
      BY <1>4, <1>8, <2>15, <3>1 DEF But, ButTwo
    <3> QED BY <2>7, <2>9, <3>1, <3>2 DEF PrevIs
  <2>18. t.nodes = s.nodes \cup {c} /\ t.fault = s.fault /\ t.data = t0.data /\ t4.count = s.count
         /\ t4.list = s.list
    <3>1. Relinks(t0, t4)
      <4>1. Relinks(t0, t1) /\ Relinks(t1, t2) /\ Relinks(t2, t3) /\ Relinks(t3, t4)
        BY <2>5, <2>7, <2>9, <2>11 DEF NextIs, PrevIs
      <4>2. Relinks(t0, t2)
        BY <4>1, RelinksThen
      <4>3. Relinks(t0, t3)
        BY <4>1, <4>2, RelinksThen
      <4> QED BY <4>1, <4>3, RelinksThen
    <3> QED BY <2>2, <2>12, <3>1 DEF Relinks, Rest
  <2>19. t.data[c] = v /\ But(t.data, s.data, c)
    BY <2>18, <2>3
  <2>20. t.count[s.list] = s.count[s.list] + 1 /\ But(t.count, s.count, s.list)
    BY <2>18, <2>13
  <2> QED BY <2>14, <2>16, <2>17, <2>18, <2>19, <2>20, <1>1 DEF Linked
<1> QED BY <1>11, <1>12, <1>1, <1>2

\* Walks from in front of the fence stay there.
LEMMA PlusOutside ==
    ASSUME NEW s, NEW F, Sane(s), Fenced(s, F), NEW c \in Places \ F, NEW k \in Int
    PROVE  Plus(s, c, k) \in Places \ F
<1> DEFINE S == Places \ F
<1> DEFINE f == s.next
<1> DEFINE g == s.prev
<1>1. \A y \in S : f[y] \in S
  BY Outside
<1>2. \A y \in S : g[y] \in S
  BY Outside
<1>3. c \in S
  OBVIOUS
<1>4. \A j \in Nat : Iterate(f, c, j) \in S
  <2> HIDE DEF S, f
  <2> QED BY <1>1, <1>3, IterateKeeps
<1>5. \A j \in Nat : Iterate(g, c, j) \in S
  <2> HIDE DEF S, g
  <2> QED BY <1>2, <1>3, IterateKeeps
<1>6. CASE k > 0
  <2>1. k \in Nat /\ Plus(s, c, k) = Iterate(f, c, k)
    BY <1>6 DEF Plus
  <2> QED BY <1>4, <2>1
<1>7. CASE ~(k > 0)
  <2>1. -k \in Nat /\ Plus(s, c, k) = Iterate(g, c, -k)
    BY <1>7 DEF Plus
  <2> QED BY <1>5, <2>1
<1> QED BY <1>6, <1>7

LEMMA ListOutside ==
    ASSUME NEW s, NEW F, Sane(s), Fenced(s, F)
    PROVE  /\ s.list \in Places \ F /\ s.list \in Used(s) /\ s.list # Null
           /\ s.next[s.list] \in Places \ F /\ s.prev[s.list] \in Places \ F
<1>1. s.list \in Places \ F /\ s.list \in Used(s)
  BY UsedFacts DEF Fenced, Sane, Used
<1> QED BY <1>1, Outside DEF Fenced

LEMMA OutFacts ==
    ASSUME NEW s, NEW F, Sane(s), Fenced(s, F), NEW p \in Places \ F, NEW t, t = Out(s, p)
    PROVE  /\ Within(F, s, t)
           /\ {s.prev[p], s.next[p]} \subseteq Used(s) \ {p}
              => Closes(s, t, s.prev[p], s.next[p])
<1>1. PICK a : a = s.prev[p]
  OBVIOUS
<1>2. PICK b : b = s.next[p]
  OBVIOUS
<1> PICK t1 : t1 = SetPrev(s, b, a)
  OBVIOUS
<1> PICK x : x = t1.prev[p]
  OBVIOUS
<1> PICK y : y = t1.next[p]
  OBVIOUS
<1>3. t = SetNext(t1, x, y)
  BY <1>1, <1>2 DEF Out
<1>4. a \in Places \ F /\ b \in Places \ F
  BY <1>1, <1>2, Outside
<1>5. Within(F, s, t1)
  BY <1>4, WithinSelf, WithinPrev
<1>6. x \in Places \ F /\ y \in Places \ F
  BY <1>5, Outside DEF Within
<1>7. Within(F, s, t)
  BY <1>3, <1>5, <1>6, WithinNext
<1>8. ASSUME a \in Used(s), b \in Used(s), a # p, b # p PROVE Closes(s, t, a, b)
  <2>1. s \in Memories /\ t1 \in Memories /\ a \in Places /\ b \in Places /\ p \in Places
    BY <1>4, <1>5 DEF Within, Sane
  <2>2. PrevIs(s, t1, b, a)
    BY <1>8, <2>1, PrevSet
  <2>3. x = a /\ y = b /\ a \in Used(t1)
    BY <1>8, <1>1, <1>2, <2>1, <2>2 DEF PrevIs, Relinks, But
  <2>4. NextIs(t1, t, a, b)
    BY <1>3, <2>1, <2>3, NextSet
  <2>5. Relinks(s, t)
    BY <2>2, <2>4, RelinksThen DEF PrevIs, NextIs
  <2> QED BY <2>2, <2>4, <2>5 DEF Closes, PrevIs, NextIs, Relinks
<1>9. {a, b} \subseteq Used(s) \ {p} => Closes(s, t, a, b)
  BY <1>8
<1> QED BY <1>7, <1>9, <1>1, <1>2

\* The node p, which was between a and b, is given back.
Removed(s, t, a, p, b) ==
    /\ t.nodes = s.nodes \ {p} /\ t.fault = s.fault
    /\ t.next[a] = b /\ t.prev[b] = a
    /\ ButTwo(t.next, s.next, a, p) /\ ButTwo(t.prev, s.prev, b, p)
    /\ But(t.data, s.data, p)
    /\ t.count[s.list] = s.count[s.list] - 1 /\ But(t.count, s.count, s.list)

LEMMA FreedFacts ==
    ASSUME NEW s, NEW F, Sane(s), Fenced(s, F), NEW p \in s.nodes \ F,
           NEW t, t = Count(freenode(Out(s, p), p), -1)
    PROVE  /\ Within(F, s, t)
           /\ {s.prev[p], s.next[p]} \subseteq Used(s) \ {p}
              => Removed(s, t, s.prev[p], p, s.next[p])
<1>1. PICK a : a = s.prev[p]
  OBVIOUS
<1>2. PICK b : b = s.next[p]
  OBVIOUS
<1> PICK t1 : t1 = Out(s, p)
  OBVIOUS
<1> PICK t2 : t2 = freenode(t1, p)
  OBVIOUS
<1>3. t = Count(t2, -1)
  OBVIOUS
<1>4. p \in Places \ F /\ p \in Places
  BY UsedFacts, PlaceFacts
<1>5. Within(F, s, t1)
  BY <1>4, OutFacts
<1>6. p \in t1.nodes
  <2>1. t1.nodes = s.nodes
    <3>1. PICK r : r = SetPrev(s, b, a)
      OBVIOUS
    <3>2. PICK x : x = r.prev[p]
      OBVIOUS
    <3>3. PICK y : y = r.next[p]
      OBVIOUS
    <3>4. t1 = SetNext(r, x, y)
      BY <1>1, <1>2, <3>1, <3>2, <3>3 DEF Out
    <3>5. r \in Memories /\ Rest(s, r) /\ r.nodes = s.nodes
      <4>1. s \in Memories /\ a \in Places /\ b \in Places
        BY <1>4, <1>1, <1>2, UsedFacts DEF Sane
      <4> QED BY <3>1, <4>1, SetPrevFields DEF Rest
    <3>6. x \in Places /\ y \in Places
      BY <1>4, <3>2, <3>3, <3>5 DEF Memories
    <3> QED BY <3>4, <3>5, <3>6, SetNextFields DEF Rest
  <2> QED BY <2>1
<1>7. Within(F, s, t2)
  BY <1>5, <1>6, WithinFree
<1>8. Within(F, s, t)
  BY <1>3, <1>7, WithinCount
<1>9. ASSUME {a, b} \subseteq Used(s) \ {p} PROVE Removed(s, t, a, p, b)
  <2>1. t1 \in Memories /\ t2 \in Memories
    BY <1>5, <1>7 DEF Within, Sane
  <2>2. Closes(s, t1, a, b)
    BY <1>4, <1>9, <1>1, <1>2, OutFacts
  <2>3. /\ t2.count = t1.count /\ t2.list = t1.list /\ t2.fault = t1.fault
        /\ t2.nodes = t1.nodes \ {p}
        /\ But(t2.data, t1.data, p) /\ But(t2.next, t1.next, p) /\ But(t2.prev, t1.prev, p)
    BY <1>4, <2>1, FreeNodeFields
  <2>4. /\ t.next = t2.next /\ t.prev = t2.prev /\ t.data = t2.data
        /\ t.fault = t2.fault /\ t.nodes = t2.nodes
        /\ t.count[t2.list] = t2.count[t2.list] - 1 /\ But(t.count, t2.count, t2.list)
    <3>1. -1 \in Int
      OBVIOUS
    <3>2. /\ t.next = t2.next /\ t.prev = t2.prev /\ t.data = t2.data
          /\ t.fault = t2.fault /\ t.nodes = t2.nodes
          /\ t.count[t2.list] = t2.count[t2.list] + -1 /\ But(t.count, t2.count, t2.list)
      BY <1>3, <2>1, <3>1, CountFields
    <3>3. t2.count[t2.list] \in Int
      BY <2>1 DEF Memories
    <3> QED BY <3>2, <3>3
  <2>5. a \in Places /\ b \in Places /\ a # p /\ b # p
    BY <1>9, UsedFacts
  <2>6. t.nodes = s.nodes \ {p} /\ t.fault = s.fault
    BY <2>2, <2>3, <2>4 DEF Closes, Rest
  <2>7. t.next[a] = b /\ ButTwo(t.next, s.next, a, p)
    <3>1. t1.next[a] = b /\ But(t1.next, s.next, a)
      BY <2>2 DEF Closes
    <3>2. But(t2.next, t1.next, p) /\ t.next = t2.next
      BY <2>3, <2>4
    <3> QED BY <1>4, <2>5, <3>1, <3>2 DEF But, ButTwo
  <2>8. t.prev[b] = a /\ ButTwo(t.prev, s.prev, b, p)
    <3>1. t1.prev[b] = a /\ But(t1.prev, s.prev, b)
      BY <2>2 DEF Closes
    <3>2. But(t2.prev, t1.prev, p) /\ t.prev = t2.prev
      BY <2>3, <2>4
    <3> QED BY <1>4, <2>5, <3>1, <3>2 DEF But, ButTwo
  <2>9. But(t.data, s.data, p)
    BY <2>2, <2>3, <2>4 DEF Closes, Rest
  <2>10. t.count[s.list] = s.count[s.list] - 1 /\ But(t.count, s.count, s.list)
    BY <2>2, <2>3, <2>4 DEF Closes, Rest
  <2> QED BY <2>6, <2>7, <2>8, <2>9, <2>10 DEF Removed
<1> QED BY <1>8, <1>9, <1>1, <1>2

\* The cell c goes between a and q.
Inserts(s, t, a, q, c) ==
    /\ Rest(s, t) /\ t.fault = s.fault
    /\ t.next[a] = c /\ t.next[c] = q /\ t.prev[c] = a /\ t.prev[q] = c
    /\ ButTwo(t.next, s.next, a, c) /\ ButTwo(t.prev, s.prev, q, c)

LEMMA MoveFacts ==
    ASSUME NEW s, NEW F, Sane(s), Fenced(s, F), NEW p \in Places \ F, NEW q \in Places \ F,
           NEW t, t = MoveBefore(s, p, q), NEW r, r = Out(s, p)
    PROVE  /\ Within(F, s, t) /\ Within(F, s, r)
           /\ p # q /\ r.prev[q] # p /\ {p, q, r.prev[q]} \subseteq Used(r)
              => Inserts(r, t, r.prev[q], q, p)
<1>1. PICK a : a = r.prev[q]
  OBVIOUS
<1> PICK t1 : t1 = SetNext(r, p, q)
  OBVIOUS
<1> PICK t2 : t2 = SetPrev(t1, p, a)
  OBVIOUS
<1> PICK b : b = t2.prev[q]
  OBVIOUS
<1> PICK t3 : t3 = SetNext(t2, b, p)
  OBVIOUS
<1>2. t = SetPrev(t3, q, p)
  BY <1>1 DEF MoveBefore
<1>3. Within(F, s, r)
  BY OutFacts
<1>4. a \in Places \ F
  BY <1>3, <1>1, Outside DEF Within
<1>5. Within(F, s, t1)
  BY <1>3, WithinNext
<1>6. Within(F, s, t2)
  BY <1>4, <1>5, WithinPrev
<1>7. b \in Places \ F
  BY <1>6, Outside DEF Within
<1>8. Within(F, s, t3)
  BY <1>6, <1>7, WithinNext
<1>9. Within(F, s, t)
  BY <1>2, <1>8, WithinPrev
<1>10. ASSUME p # q, a # p, {p, q, a} \subseteq Used(r) PROVE Inserts(r, t, a, q, p)
  <2>1. /\ r \in Memories /\ t1 \in Memories /\ t2 \in Memories /\ t3 \in Memories
        /\ a \in Places /\ b \in Places /\ p \in Places /\ q \in Places
    BY <1>3, <1>4, <1>5, <1>6, <1>7, <1>8 DEF Within, Sane
  <2>2. NextIs(r, t1, p, q)
    BY <1>10, <2>1, NextSet
  <2>3. p \in Used(t1) /\ a \in Used(t1) /\ q \in Used(t1)
    BY <1>10, <2>2 DEF NextIs, Relinks
  <2>4. PrevIs(t1, t2, p, a)
    BY <2>1, <2>3, PrevSet
  <2>5. b = a /\ a \in Used(t2) /\ q \in Used(t2)
    <3>1. b = t1.prev[q]
      BY <1>10, <2>1, <2>4 DEF PrevIs, But
    <3>2. t1.prev = r.prev
      BY <2>2 DEF NextIs
    <3> QED BY <1>1, <2>3, <2>4, <3>1, <3>2 DEF PrevIs, Relinks
  <2>6. NextIs(t2, t3, a, p)
    BY <2>1, <2>5, NextSet
  <2>7. q \in Used(t3)
    BY <2>5, <2>6 DEF NextIs, Relinks
  <2>8. PrevIs(t3, t, q, p)
    BY <1>2, <2>1, <2>7, PrevSet
  <2>9. Relinks(r, t)
    <3>1. Relinks(r, t1) /\ Relinks(t1, t2) /\ Relinks(t2, t3) /\ Relinks(t3, t)
      BY <2>2, <2>4, <2>6, <2>8 DEF NextIs, PrevIs
    <3>2. Relinks(r, t2)
      BY <3>1, RelinksThen
    <3>3. Relinks(r, t3)
      BY <3>1, <3>2, RelinksThen
    <3> QED BY <3>1, <3>3, RelinksThen
  <2>10. t.next[a] = p /\ t.next[p] = q /\ ButTwo(t.next, r.next, a, p)
    <3>1. /\ But(t1.next, r.next, p) /\ But(t3.next, t1.next, a) /\ t.next = t3.next
          /\ t1.next[p] = q /\ t3.next[a] = p
      BY <2>2, <2>4, <2>6, <2>8 DEF NextIs, PrevIs
    <3>2. ButTwo(t3.next, r.next, a, p) /\ t3.next[p] = t1.next[p]
      BY <1>10, <2>1, <3>1 DEF But, ButTwo
    <3> QED BY <3>1, <3>2
  <2>11. t.prev[q] = p /\ t.prev[p] = a /\ ButTwo(t.prev, r.prev, q, p)
    <3>1. /\ But(t2.prev, r.prev, p) /\ But(t.prev, t2.prev, q)
          /\ t2.prev[p] = a /\ t.prev[q] = p
      BY <2>2, <2>4, <2>6, <2>8 DEF NextIs, PrevIs
    <3>2. ButTwo(t.prev, r.prev, q, p) /\ t.prev[p] = t2.prev[p]
      BY <1>10, <2>1, <3>1 DEF But, ButTwo
    <3> QED BY <3>1, <3>2
  <2> QED BY <2>9, <2>10, <2>11 DEF Inserts, Relinks
<1> QED BY <1>3, <1>9, <1>10, <1>1

LEMMA ExchangeFacts ==
    ASSUME NEW s, NEW F, Sane(s), Fenced(s, F), NEW x \in Places \ F, NEW y \in Places \ F,
           NEW t, t = Exchange(s, x, y)
    PROVE  Within(F, s, t)
<1>1. PICK a : a = s.prev[x]
  OBVIOUS
<1>2. PICK t1 : t1 = SetNext(s, a, y)
  OBVIOUS
<1>3. PICK b : b = t1.prev[y]
  OBVIOUS
<1>4. PICK t2 : t2 = SetNext(t1, b, x)
  OBVIOUS
<1>5. PICK c : c = t2.next[y]
  OBVIOUS
<1>6. PICK d : d = t2.next[x]
  OBVIOUS
<1>7. PICK t3 : t3 = SetNext(t2, x, c)
  OBVIOUS
<1>8. PICK t4 : t4 = SetNext(t3, y, d)
  OBVIOUS
<1>9. PICK e : e = t4.prev[y]
  OBVIOUS
<1>10. PICK g : g = t4.prev[x]
  OBVIOUS
<1>11. PICK t5 : t5 = SetPrev(t4, x, e)
  OBVIOUS
<1>12. t = SetPrev(t5, y, g)
  BY <1>1, <1>2, <1>3, <1>4, <1>5, <1>6, <1>7, <1>8, <1>9, <1>10, <1>11 DEF Exchange
<1>13. Within(F, s, t1)
  BY <1>1, <1>2, Outside, WithinSelf, WithinNext
<1>14. Within(F, s, t2)
  <2>1. b \in Places \ F
    BY <1>3, <1>13, Outside DEF Within
  <2> QED BY <1>4, <1>13, <2>1, WithinNext
<1>15. c \in Places \ F /\ d \in Places \ F
  BY <1>5, <1>6, <1>14, Outside DEF Within
<1>16. Within(F, s, t3)
  BY <1>7, <1>14, <1>15, WithinNext
<1>17. Within(F, s, t4)
  BY <1>8, <1>15, <1>16, WithinNext
<1>18. e \in Places \ F /\ g \in Places \ F
  BY <1>9, <1>10, <1>17, Outside DEF Within
<1>19. Within(F, s, t5)
  BY <1>11, <1>17, <1>18, WithinPrev
<1> QED BY <1>12, <1>18, <1>19, WithinPrev

\* reverse() changes data, and none behind the fence.
Turning(F, s) ==
    {r \in [t : Memories, first : Places, last : Places] :
        Within(F, s, r.t) /\ r.first \notin F /\ r.last \notin F}

LEMMA TurnStepWithin ==
    ASSUME NEW s, NEW F, Sane(s), Fenced(s, F), NEW r \in Turning(F, s)
    PROVE  TurnStep[r] \in Turning(F, s)
<1>1. /\ r \in [t : Memories, first : Places, last : Places]
      /\ Within(F, s, r.t) /\ r.first \in Places \ F /\ r.last \in Places \ F
  BY DEF Turning
<1>2. PICK u : u = r.t
  OBVIOUS
<1>3. PICK l : l = u.prev[r.last]
  OBVIOUS
<1>4. Within(F, s, u) /\ u \in Memories /\ l \in Places \ F
  BY <1>1, <1>2, <1>3, Outside DEF Within, Sane
<1>5. TurnStep[r] =
        IF Turned(r) \/ u.fault # "no" THEN r
        ELSE IF ~({r.first, l} \subseteq u.nodes)
        THEN [r EXCEPT !.t = Fails(u, IF {r.first, l} \subseteq Used(u) THEN "header" ELSE "freed")]
        ELSE [t |-> [u EXCEPT !.data[r.first] = u.data[l], !.data[l] = u.data[r.first]],
              first |-> u.next[r.first], last |-> l]
  BY <1>1, <1>2, <1>3 DEF TurnStep
<1>6. CASE Turned(r) \/ u.fault # "no"
  BY <1>5, <1>6
<1>7. CASE ~(Turned(r) \/ u.fault # "no") /\ ~({r.first, l} \subseteq u.nodes)
  <2>1. PICK what : what = IF {r.first, l} \subseteq Used(u) THEN "header" ELSE "freed"
    OBVIOUS
  <2>2. what \in Faults /\ what # "no"
    BY <2>1 DEF Faults
  <2>3. PICK t : t = Fails(u, what)
    OBVIOUS
  <2>4. Within(F, s, t) /\ t \in Memories
    BY <1>4, <2>2, <2>3, WithinFails DEF Within, Sane
  <2>5. TurnStep[r] = [r EXCEPT !.t = t]
    BY <1>5, <1>7, <2>1, <2>3
  <2> QED BY <1>1, <2>4, <2>5 DEF Turning
<1>8. CASE ~(Turned(r) \/ u.fault # "no") /\ {r.first, l} \subseteq u.nodes
  <2>1. PICK d : d = [u.data EXCEPT ![r.first] = u.data[l], ![l] = u.data[r.first]]
    OBVIOUS
  <2>2. u.data \in [Places -> Values \cup {Lost}]
    BY <1>4 DEF Memories
  <2>3. d \in [Places -> Values \cup {Lost}]
    BY <1>1, <1>4, <2>1, <2>2
  <2>4. Sane(u) /\ Fenced(u, F)
    BY <1>4 DEF Within
  <2>5. F \subseteq Places
    BY <2>4, UsedFacts DEF Fenced
  <2>6. \A c \in F : d[c] = u.data[c]
    BY <1>1, <1>4, <2>1, <2>2, <2>5
  <2>7. PICK t : t = [u EXCEPT !.data = d]
    OBVIOUS
  <2>8. Within(F, s, t)
    BY <1>4, <2>3, <2>6, <2>7, WithinData
  <2>9. Within(F, s, t) /\ t \in Memories
    BY <2>8 DEF Within, Sane
  <2>10. [u EXCEPT !.data[r.first] = u.data[l], !.data[l] = u.data[r.first]] = t
    BY <1>4, <2>1, <2>7 DEF Memories
  <2>11. TurnStep[r] = [t |-> t, first |-> u.next[r.first], last |-> l]
    BY <1>5, <1>8, <2>10
  <2>12. u.next[r.first] \in Places \ F
    BY <1>1, <2>4, Outside
  <2> QED BY <1>4, <2>9, <2>11, <2>12 DEF Turning
<1> QED BY <1>6, <1>7, <1>8

LEMMA TurnWithin ==
    ASSUME NEW s, NEW F, Sane(s), Fenced(s, F), NEW t, t = Turn(s)
    PROVE  Within(F, s, t)
<1>1. PICK x : x = [t |-> s, first |-> s.next[s.list], last |-> s.list]
  OBVIOUS
<1>2. x \in Turning(F, s)
  BY <1>1, ListOutside, WithinSelf DEF Turning, Sane
<1>3. PICK r : r = Iterate(TurnStep, x, N)
  OBVIOUS
<1>4. r \in Turning(F, s)
  BY <1>2, <1>3, TurnStepWithin, IterateKeeps, PlaceFacts
<1>5. t = IF Turned(r) THEN r.t ELSE Fails(r.t, "hang")
  BY <1>1, <1>3 DEF Turn
<1>6. Within(F, s, r.t)
  BY <1>4 DEF Turning
<1>7. CASE Turned(r)
  BY <1>5, <1>6, <1>7
<1>8. CASE ~Turned(r)
  <2>1. "hang" \in Faults /\ "hang" # "no"
    BY DEF Faults
  <2>2. t = Fails(r.t, "hang")
    BY <1>5, <1>8
  <2> QED BY <1>6, <2>1, <2>2, WithinFails
<1> QED BY <1>7, <1>8
---------------------------------------------------------------------------
(* Walks.                                                                  *)

\* j steps lead from c to d, and no fewer; or none do, and j is Longest.
Reaches(link, c, d, j) ==
    /\ j \in 0 .. Longest
    /\ \A i \in 0 .. j - 1 : Iterate(link, c, i) # d
    /\ j < Longest => Iterate(link, c, j) = d

LEMMA StepsFacts ==
    ASSUME NEW link \in [Places -> Places], NEW c \in Places, NEW d \in Places
    PROVE  Reaches(link, c, d, Steps(link, c, d))
<1>1. PICK W : W = Walk(link, d)
  OBVIOUS
<1>2. PICK x : x = [at |-> c, steps |-> 0]
  OBVIOUS
<1>3. ASSUME NEW r \in [at : Places, steps : Nat]
      PROVE  W[r] = IF r.at = d THEN r ELSE [at |-> link[r.at], steps |-> r.steps + 1]
  BY <1>1 DEF Walk
<1> DEFINE Good(r, k) ==
             /\ r \in [at : Places, steps : Nat] /\ r.steps <= k
             /\ r.at = Iterate(link, c, r.steps)
             /\ \A i \in 0 .. r.steps - 1 : Iterate(link, c, i) # d
             /\ r.at # d => r.steps = k
           T == {k \in Nat : Good(Iterate(W, x, k), k)}
<1>4. 0 \in T
  <2>1. Iterate(W, x, 0) = x /\ Iterate(link, c, 0) = c
    BY IterateSteps
  <2> QED BY <1>2, <2>1
<1>5. ASSUME NEW k \in Nat, Good(Iterate(W, x, k), k) PROVE Good(Iterate(W, x, k + 1), k + 1)
  <2>1. PICK r : r = Iterate(W, x, k)
    OBVIOUS
  <2>2. PICK q : q = Iterate(W, x, k + 1)
    OBVIOUS
  <2>3. q = W[r]
    BY <2>1, <2>2, IterateSteps
  <2>4. Good(r, k)
    <3> HIDE DEF Good
    <3> QED BY <1>5, <2>1
  <2>5. CASE r.at = d
    <3>1. q = r
      BY <1>3, <2>3, <2>4, <2>5
    <3>2. Good(r, k + 1)
      <4>1. r.steps <= k + 1
        BY <2>4
      <4> QED BY <2>4, <2>5, <4>1
    <3> HIDE DEF Good
    <3> QED BY <2>2, <3>1, <3>2
  <2>6. CASE r.at # d
    <3>1. q = [at |-> link[r.at], steps |-> r.steps + 1]
      BY <1>3, <2>3, <2>4, <2>6
    <3>2. link[r.at] = Iterate(link, c, r.steps + 1)
      BY <2>4, IterateSteps
    <3>3. r.steps = k /\ link[r.at] \in Places
      BY <2>4, <2>6
    <3>4. q \in [at : Places, steps : Nat] /\ q.steps = k + 1 /\ q.at = Iterate(link, c, q.steps)
      BY <3>1, <3>2, <3>3
    <3>5. ASSUME NEW i \in 0 .. q.steps - 1 PROVE Iterate(link, c, i) # d
      <4>1. i \in 0 .. r.steps - 1 \/ i = r.steps
        BY <3>3, <3>4
      <4> QED BY <2>4, <2>6, <4>1
    <3>6. Good(q, k + 1)
      BY <3>4, <3>5
    <3> HIDE DEF Good
    <3> QED BY <2>2, <3>6
  <2> QED BY <2>5, <2>6
<1>6. \A k \in Nat : k \in T => k + 1 \in T
  <2> HIDE DEF Good
  <2> QED BY <1>5
<1>7. \A k \in Nat : k \in T
  <2> HIDE DEF T
  <2> QED BY <1>4, <1>6, NatSet
<1>8. Longest \in Nat
  BY PlaceFacts DEF Longest
<1>9. PICK r : r = Iterate(W, x, Longest)
  OBVIOUS
<1>10. Good(r, Longest)
  <2> HIDE DEF Good
  <2> QED BY <1>7, <1>8, <1>9
<1>11. Steps(link, c, d) = r.steps
  BY <1>1, <1>2, <1>9 DEF Steps
<1>12. Reaches(link, c, d, r.steps)
  BY <1>8, <1>10 DEF Reaches
<1> QED BY <1>11, <1>12

\* There is one such number.
LEMMA ReachesOnce ==
    ASSUME NEW link, NEW c, NEW d, NEW i, NEW j,
           Reaches(link, c, d, i), Reaches(link, c, d, j)
    PROVE  i = j
<1>1. Longest \in Nat
  BY PlaceFacts DEF Longest
<1>2. i \in Nat /\ j \in Nat /\ i <= Longest /\ j <= Longest
  BY <1>1 DEF Reaches
<1>3. ~(i < j)
  BY <1>1, <1>2 DEF Reaches
<1>4. ~(j < i)
  BY <1>1, <1>2 DEF Reaches
<1> QED BY <1>2, <1>3, <1>4

\* p goes from the header h over n cells, no two of them the same, back to h.
Forth(link, h, n, p) ==
    /\ n \in Nat /\ p \in [0 .. n + 1 -> Places] /\ p[0] = h /\ p[n + 1] = h
    /\ \A i \in 0 .. n : \A j \in 0 .. n : p[i] = p[j] => i = j
    /\ \A i \in 0 .. n : link[p[i]] = p[i + 1]

Inner(n, p) == {p[i] : i \in 1 .. n}

\* As many cells as p has.
LEMMA ForthLength ==
    ASSUME NEW link, NEW h, NEW n, NEW p, Forth(link, h, n, p),
           NEW S, IsFiniteSet(S), Inner(n, p) \subseteq S
    PROVE  n <= Cardinality(S)
<1>1. n \in Nat /\ Cardinality(S) \in Nat
  BY FS_CardinalityType DEF Forth
<1>2. SUFFICES ASSUME Cardinality(S) < n PROVE FALSE
  BY <1>1
<1>3. IsFiniteSet(1 .. n) /\ Cardinality(1 .. n) = n
  BY <1>1, <1>2, FS_Interval
<1>4. PICK f : f = [i \in 1 .. n |-> p[i]]
  OBVIOUS
<1>5. f \in [1 .. n -> S]
  BY <1>4 DEF Inner
<1>6. \E i, j \in 1 .. n : i # j /\ f[i] = f[j]
  BY <1>2, <1>3, <1>5, FS_PigeonHole
<1>7. PICK i \in 1 .. n, j \in 1 .. n : i # j /\ f[i] = f[j]
  BY <1>6
<1> QED BY <1>1, <1>4, <1>7 DEF Forth

LEMMA CellsFinite ==
    /\ IsFiniteSet(Cells) /\ Cardinality(Cells) = N
    /\ \A S \in SUBSET Cells : IsFiniteSet(S) /\ Cardinality(S) \in Nat /\ Cardinality(S) <= N
<1>1. IsFiniteSet(Cells) /\ Cardinality(Cells) = N
  BY PlaceFacts, RingAssumptions, FS_Interval
<1> QED BY <1>1, FS_Subset, FS_CardinalityType

\* The walk round such a ring.
LEMMA ForthSteps ==
    ASSUME NEW link \in [Places -> Places], NEW h, NEW n, NEW p, Forth(link, h, n, p),
           Inner(n, p) \subseteq Cells
    PROVE  /\ n <= N /\ n < Longest
           /\ Steps(link, link[h], h) = n
           /\ \A i \in 0 .. n : Iterate(link, link[h], i) = p[i + 1]
           /\ \A i \in 0 .. n + 1 : Iterate(link, h, i) = p[i]
<1>1. n <= N /\ n < Longest /\ n \in Nat /\ h \in Places /\ link[h] \in Places
  <2>1. n <= N
    BY CellsFinite, ForthLength
  <2>2. n \in Nat /\ h \in Places
    BY DEF Forth
  <2> QED BY <2>1, <2>2, PlaceFacts DEF Longest
<1>2. \A i \in 0 .. n + 1 : Iterate(link, h, i) = p[i]
  <2>1. PICK k : k = n + 1
    OBVIOUS
  <2>2. k \in Nat /\ k - 1 = n /\ p[0] = h
    BY <1>1, <2>1 DEF Forth
  <2>3. \A i \in 0 .. k - 1 : p[i + 1] = link[p[i]]
    BY <2>2 DEF Forth
  <2>4. \A i \in 0 .. k : Iterate(link, h, i) = p[i]
    BY <2>2, <2>3, IteratePath
  <2> QED BY <2>1, <2>4
<1>3. \A i \in 0 .. n : Iterate(link, link[h], i) = p[i + 1]
  <2>1. PICK q : q = [i \in 0 .. n |-> p[i + 1]]
    OBVIOUS
  <2>2. \A i \in 0 .. n - 1 : q[i + 1] = link[q[i]]
    BY <1>1, <2>1 DEF Forth
  <2>3. q[0] = link[h]
    BY <1>1, <2>1 DEF Forth
  <2>4. \A i \in 0 .. n : Iterate(link, q[0], i) = q[i]
    BY <1>1, <2>2, IteratePath
  <2> QED BY <2>1, <2>3, <2>4
<1>4. Reaches(link, link[h], h, n)
  <2>1. ASSUME NEW i \in 0 .. n - 1 PROVE Iterate(link, link[h], i) # h
    <3>1. i \in 0 .. n /\ i + 1 \in 0 .. n /\ i + 1 # 0 /\ 0 \in 0 .. n
      BY <1>1
    <3>2. p[i + 1] # p[0]
      BY <3>1 DEF Forth
    <3> QED BY <1>3, <3>1, <3>2 DEF Forth
  <2>2. Iterate(link, link[h], n) = h
    <3>1. n \in 0 .. n
      BY <1>1
    <3> QED BY <1>3, <3>1 DEF Forth
  <2>3. n \in 0 .. Longest
    BY <1>1, PlaceFacts DEF Longest
  <2> QED BY <2>1, <2>2, <2>3 DEF Reaches
<1>5. Steps(link, link[h], h) = n
  BY <1>1, <1>4, StepsFacts, ReachesOnce
<1> QED BY <1>1, <1>2, <1>3, <1>5

\* A walk that comes back has met nodes only, each of them once.
LEMMA ClosedForth ==
    ASSUME NEW s, NEW F, Sane(s), Fenced(s, F), Closed(s, s.list)
    PROVE  \E n, p : Forth(s.next, s.list, n, p) /\ Inner(n, p) \subseteq s.nodes
<1>1. PICK link : link = s.next
  OBVIOUS
<1>2. PICK h : h = s.list
  OBVIOUS
<1>3. PICK n : n = Steps(link, link[h], h)
  OBVIOUS
<1>4. PICK w : w = [i \in 0 .. n + 1 |-> Iterate(link, h, i)]
  OBVIOUS
<1>5. link \in [Places -> Places] /\ h \in Places \ F /\ h \in Used(s) /\ link[h] \in Places
  BY <1>1, <1>2, ListOutside, UsedFacts
<1>6. /\ n \in Nat /\ \A i \in 0 .. n - 1 : Iterate(link, link[h], i) # h
      /\ Iterate(link, link[h], n) = h
  <2>1. n < Longest
    BY <1>1, <1>2, <1>3 DEF Closed
  <2>2. Reaches(link, link[h], h, n)
    BY <1>3, <1>5, StepsFacts
  <2>3. Longest \in Nat
    BY PlaceFacts DEF Longest
  <2> QED BY <2>1, <2>2, <2>3 DEF Reaches
<1>7. ASSUME NEW i \in Nat PROVE Iterate(link, h, i + 1) = Iterate(link, link[h], i)
  <2>1. Iterate(link, h, 1) = link[h]
    <3>1. Iterate(link, h, 0 + 1) = link[Iterate(link, h, 0)] /\ 0 + 1 = 1
      BY IterateSteps
    <3> QED BY <3>1, IterateSteps
  <2>2. 1 \in Nat /\ i + 1 = 1 + i
    OBVIOUS
  <2>3. Iterate(link, h, 1 + i) = Iterate(link, Iterate(link, h, 1), i)
    BY <2>2, IteratePlus
  <2> QED BY <2>1, <2>2, <2>3
<1>8. Iterate(link, h, n + 1) = h
  BY <1>6, <1>7
<1>9. ASSUME NEW i \in 1 .. n PROVE Iterate(link, h, i) # h
  <2>1. i - 1 \in Nat /\ i - 1 \in 0 .. n - 1 /\ (i - 1) + 1 = i
    BY <1>6
  <2>2. Iterate(link, h, i) = Iterate(link, link[h], i - 1)
    BY <1>7, <2>1
  <2> QED BY <1>6, <2>1, <2>2
<1>10. \A i \in Nat : Iterate(link, h, i) \in Places \ F
  <2> DEFINE S == Places \ F
  <2>1. \A y \in S : link[y] \in S
    BY <1>1, Outside
  <2>2. h \in S
    BY <1>5
  <2> HIDE DEF S
  <2>3. \A i \in Nat : Iterate(link, h, i) \in S
    BY <2>1, <2>2, IterateKeeps
  <2> QED BY <2>3 DEF S
<1>11. ASSUME NEW i \in 1 .. n, NEW j \in 1 .. n, i < j PROVE Iterate(link, h, i) # Iterate(link, h, j)
  <2>1. SUFFICES ASSUME Iterate(link, h, i) = Iterate(link, h, j) PROVE FALSE
    OBVIOUS
  <2>2. PICK k : k = (n + 1) - j
    OBVIOUS
  <2>3. k \in Nat /\ j + k = n + 1 /\ i + k \in 1 .. n /\ i \in Nat /\ j \in Nat
    BY <1>6, <1>11, <2>2
  <2>4. Iterate(link, h, i + k) = Iterate(link, h, j + k)
    <3>1. Iterate(link, h, i + k) = Iterate(link, Iterate(link, h, i), k)
      BY <2>3, IteratePlus
    <3>2. Iterate(link, h, j + k) = Iterate(link, Iterate(link, h, j), k)
      BY <2>3, IteratePlus
    <3> QED BY <2>1, <3>1, <3>2
  <2>5. Iterate(link, h, j + k) = h
    BY <1>8, <2>3
  <2>6. PICK e \in 1 .. n : e = i + k
    BY <2>3
  <2>7. Iterate(link, h, e) # h
    BY <1>9
  <2> QED BY <2>4, <2>5, <2>6, <2>7
<1>12. ASSUME NEW i \in 1 .. n PROVE Iterate(link, h, i) \in s.nodes
  <2>1. PICK c : c = Iterate(link, h, i)
    OBVIOUS
  <2>2. c \in Places \ F /\ c # h /\ i \in Nat
    BY <1>6, <1>9, <1>10, <2>1
  <2>3. c \in Used(s)
    <3>1. SUFFICES ASSUME c \notin Used(s) PROVE FALSE
      OBVIOUS
    <3>2. link[c] = Lost /\ link[Lost] = Lost
      BY <1>1, <2>2, <3>1, UsedFacts, PlaceFacts DEF Sane
    <3>3. \A k \in Nat : Iterate(link, Lost, k) = Lost
      <4>1. \A y \in {Lost} : link[y] \in {Lost}
        BY <3>2
      <4>2. \A k \in Nat : Iterate(link, Lost, k) \in {Lost}
        BY <4>1, IterateKeeps
      <4> QED BY <4>2
    <3>4. Iterate(link, h, i + 1) = Lost
      <4>1. Iterate(link, h, i + 1) = link[Iterate(link, h, i)]
        BY <2>2, IterateSteps
      <4> QED BY <2>1, <3>2, <4>1
    <3>5. n - i \in Nat /\ i + 1 \in Nat /\ (i + 1) + (n - i) = n + 1
      BY <1>6
    <3>6. Iterate(link, h, (i + 1) + (n - i)) = Iterate(link, Lost, n - i)
      BY <3>4, <3>5, IteratePlus
    <3>7. h = Lost
      BY <1>8, <3>3, <3>5, <3>6
    <3> QED BY <1>5, <3>7, UsedFacts
  <2> QED BY <1>2, <2>1, <2>2, <2>3 DEF Used, Fenced
<1>13. Forth(link, h, n, w)
  <2>1. n \in Nat /\ w \in [0 .. n + 1 -> Places]
    BY <1>4, <1>6, <1>10
  <2>2. w[0] = h
    BY <1>4, <2>1, IterateSteps
  <2>3. w[n + 1] = h
    BY <1>4, <1>8, <2>1
  <2>4. ASSUME NEW i \in 0 .. n, NEW j \in 0 .. n, i < j PROVE w[i] # w[j]
    <3>1. i \in Nat /\ j \in 1 .. n /\ i \in 0 .. n + 1 /\ j \in 0 .. n + 1
      BY <2>1, <2>4
    <3>2. CASE i = 0
      BY <1>4, <1>9, <2>2, <3>1, <3>2
    <3>3. CASE i # 0
      <4>1. i \in 1 .. n
        BY <3>1, <3>3
      <4> QED BY <1>4, <1>11, <2>4, <3>1, <4>1
    <3> QED BY <3>2, <3>3
  <2>5. ASSUME NEW i \in 0 .. n, NEW j \in 0 .. n, w[i] = w[j] PROVE i = j
    <3>1. i < j \/ j < i \/ i = j
      BY <2>1
    <3> QED BY <2>4, <2>5, <3>1
  <2>6. ASSUME NEW i \in 0 .. n PROVE link[w[i]] = w[i + 1]
    <3>1. i \in Nat /\ i \in 0 .. n + 1 /\ i + 1 \in 0 .. n + 1
      BY <2>1
    <3>2. w[i] = Iterate(link, h, i) /\ w[i + 1] = Iterate(link, h, i + 1)
      BY <1>4, <3>1
    <3>3. Iterate(link, h, i + 1) = link[Iterate(link, h, i)]
      BY <3>1, IterateSteps
    <3> QED BY <3>2, <3>3
  <2> QED BY <2>1, <2>2, <2>3, <2>5, <2>6 DEF Forth
<1>14. Inner(n, w) \subseteq s.nodes
  <2>1. ASSUME NEW i \in 1 .. n PROVE w[i] \in s.nodes
    <3>1. i \in 0 .. n + 1
      BY <1>6
    <3> QED BY <1>4, <1>12, <3>1
  <2> QED BY <2>1 DEF Inner
<1> QED BY <1>1, <1>2, <1>13, <1>14
---------------------------------------------------------------------------
(* Rings both ways.                                                        *)

\* p goes forth along f, and g goes back along p.
Rounds(f, g, h, n, p) == Forth(f, h, n, p) /\ \A i \in 0 .. n : g[p[i + 1]] = p[i]

Put(p, n, i, c) ==
    [k \in 0 .. n + 2 |-> IF k <= i THEN p[k] ELSE IF k = i + 1 THEN c ELSE p[k - 1]]
Cut(p, n, i) == [k \in 0 .. n |-> IF k < i THEN p[k] ELSE p[k + 1]]

\* The cells of a ring, its header with them.
Cycle(n, p) == {p[i] : i \in 0 .. n}

LEMMA CycleFacts ==
    ASSUME NEW f, NEW h, NEW n, NEW p, Forth(f, h, n, p)
    PROVE  /\ Cycle(n, p) = Inner(n, p) \cup {h} /\ h \notin Inner(n, p)
           /\ Cycle(n, p) \subseteq Places
           /\ \A i \in 0 .. n + 1 : p[i] \in Cycle(n, p)
           /\ \A i \in 1 .. n : p[i] \in Inner(n, p)
           /\ \A i \in 1 .. n + 1 : \A j \in 1 .. n + 1 : p[i] = p[j] => i = j
<1>1. n \in Nat /\ p \in [0 .. n + 1 -> Places] /\ p[0] = h /\ p[n + 1] = h
  BY DEF Forth
<1>2. \A i \in 0 .. n : \A j \in 0 .. n : p[i] = p[j] => i = j
  BY DEF Forth
<1>3. Cycle(n, p) = Inner(n, p) \cup {h}
  <2>1. ASSUME NEW i \in 0 .. n PROVE p[i] \in Inner(n, p) \cup {h}
    <3>1. i = 0 \/ i \in 1 .. n
      BY <1>1
    <3> QED BY <1>1, <3>1 DEF Inner
  <2>2. ASSUME NEW i \in 1 .. n PROVE p[i] \in Cycle(n, p)
    <3>1. i \in 0 .. n
      BY <1>1
    <3> QED BY <3>1 DEF Cycle
  <2>3. h \in Cycle(n, p)
    <3>1. 0 \in 0 .. n
      BY <1>1
    <3> QED BY <1>1, <3>1 DEF Cycle
  <2> QED BY <2>1, <2>2, <2>3 DEF Cycle, Inner
<1>4. h \notin Inner(n, p)
  <2>1. ASSUME NEW i \in 1 .. n PROVE p[i] # h
    <3>1. i \in 0 .. n /\ 0 \in 0 .. n /\ i # 0
      BY <1>1
    <3> QED BY <1>1, <1>2, <3>1
  <2> QED BY <2>1 DEF Inner
<1>5. Cycle(n, p) \subseteq Places
  BY <1>1 DEF Cycle
<1>6. ASSUME NEW i \in 0 .. n + 1 PROVE p[i] \in Cycle(n, p)
  <2>1. i \in 0 .. n \/ i = n + 1
    BY <1>1
  <2> QED BY <1>1, <1>3, <2>1 DEF Cycle
<1>7. \A i \in 1 .. n : p[i] \in Inner(n, p)
  BY DEF Inner
<1>8. ASSUME NEW i \in 1 .. n + 1, NEW j \in 1 .. n + 1, p[i] = p[j] PROVE i = j
  <2>1. (i = n + 1 \/ i \in 1 .. n) /\ (j = n + 1 \/ j \in 1 .. n)
    BY <1>1
  <2>2. CASE i \in 1 .. n /\ j \in 1 .. n
    <3>1. i \in 0 .. n /\ j \in 0 .. n
      BY <1>1, <2>2
    <3> QED BY <1>2, <1>8, <3>1
  <2>3. CASE i \in 1 .. n /\ j = n + 1
    BY <1>1, <1>4, <1>7, <1>8, <2>3
  <2>4. CASE i = n + 1 /\ j \in 1 .. n
    BY <1>1, <1>4, <1>7, <1>8, <2>4
  <2> QED BY <2>1, <2>2, <2>3, <2>4
<1> QED BY <1>3, <1>4, <1>5, <1>6, <1>7, <1>8

LEMMA PutRound ==
    ASSUME NEW f, NEW g, NEW h, NEW n, NEW p, Rounds(f, g, h, n, p),
           NEW i \in 0 .. n, NEW c \in Places, c \notin Cycle(n, p), NEW a, a = p[i], NEW b, b = p[i + 1],
           NEW f2, f2[a] = c, f2[c] = b, ButTwo(f2, f, a, c),
           NEW g2, g2[c] = a, g2[b] = c, ButTwo(g2, g, b, c),
           NEW q, q = Put(p, n, i, c)
    PROVE  Rounds(f2, g2, h, n + 1, q) /\ Inner(n + 1, q) = Inner(n, p) \cup {c}
<1>1. n \in Nat /\ p \in [0 .. n + 1 -> Places] /\ p[0] = h /\ p[n + 1] = h
  BY DEF Rounds, Forth
<1>2. \A k \in 0 .. n : \A j \in 0 .. n : p[k] = p[j] => k = j
  BY DEF Rounds, Forth
<1>3. \A k \in 1 .. n + 1 : \A j \in 1 .. n + 1 : p[k] = p[j] => k = j
  BY CycleFacts DEF Rounds
<1>4. \A k \in 0 .. n + 1 : p[k] # c /\ p[k] \in Places
  BY CycleFacts DEF Rounds
<1>5. \A k \in 0 .. n : f[p[k]] = p[k + 1] /\ g[p[k + 1]] = p[k]
  BY DEF Rounds, Forth
<1>6. i \in Nat /\ i <= n
  BY <1>1
<1>7. /\ \A k \in 0 .. i : q[k] = p[k]
      /\ q[i + 1] = c
      /\ \A k \in i + 2 .. n + 2 : q[k] = p[k - 1]
  BY <1>1, <1>6 DEF Put
<1>8. q \in [0 .. n + 2 -> Places]
  BY <1>1, <1>6 DEF Put
<1>9. q[0] = h /\ q[n + 2] = h
  BY <1>1, <1>6, <1>7
<1>10. ASSUME NEW k \in 0 .. n + 1, NEW j \in 0 .. n + 1, q[k] = q[j] PROVE k = j
  <2>1. ASSUME NEW l \in 0 .. n + 1
        PROVE  \/ l \in 0 .. i /\ q[l] = p[l] /\ l \in 0 .. n
               \/ l = i + 1 /\ q[l] = c
               \/ l \in i + 2 .. n + 1 /\ q[l] = p[l - 1] /\ l - 1 \in 0 .. n
    BY <1>1, <1>6, <1>7
  <2>2. ASSUME NEW l \in 0 .. n PROVE p[l] # c
    BY <1>1, <1>4
  <2> QED BY <1>1, <1>2, <1>6, <1>10, <2>1, <2>2
<1>11. ASSUME NEW k \in 0 .. n + 1 PROVE f2[q[k]] = q[k + 1] /\ g2[q[k + 1]] = q[k]
  <2>1. CASE k < i
    <3>1. k \in 0 .. n /\ k + 1 \in 1 .. n + 1 /\ k \in 0 .. i /\ k + 1 \in 0 .. i /\ k # i /\ k + 1 # i + 1
          /\ i + 1 \in 1 .. n + 1 /\ k \in 0 .. n + 1 /\ k + 1 \in 0 .. n + 1
      BY <1>1, <1>6, <2>1
    <3>2. p[k] # a /\ p[k] # c /\ p[k] \in Places
      BY <1>2, <1>4, <3>1
    <3>3. p[k + 1] # b /\ p[k + 1] # c /\ p[k + 1] \in Places
      BY <1>3, <1>4, <3>1
    <3>4. f2[p[k]] = f[p[k]] /\ g2[p[k + 1]] = g[p[k + 1]]
      BY <3>2, <3>3 DEF ButTwo
    <3> QED BY <1>5, <1>7, <3>1, <3>4
  <2>2. CASE k = i
    <3>1. i \in 0 .. i
      BY <1>6
    <3> QED BY <1>7, <2>2, <3>1
  <2>3. CASE k = i + 1
    <3>1. i + 2 \in i + 2 .. n + 2 /\ (i + 2) - 1 = i + 1 /\ k + 1 = i + 2
      BY <1>1, <1>6, <2>3
    <3>2. q[k + 1] = b /\ q[k] = c
      BY <1>7, <2>3, <3>1
    <3> QED BY <3>2
  <2>4. CASE k > i + 1
    <3>1. /\ k - 1 \in 0 .. n /\ k \in 1 .. n + 1 /\ k \in i + 2 .. n + 2 /\ k + 1 \in i + 2 .. n + 2
          /\ k - 1 # i /\ k # i + 1 /\ i + 1 \in 1 .. n + 1 /\ (k + 1) - 1 = k /\ (k - 1) + 1 = k
          /\ k - 1 \in 0 .. n + 1 /\ k \in 0 .. n + 1
      BY <1>1, <1>6, <2>4
    <3>2. p[k - 1] # a /\ p[k - 1] # c /\ p[k - 1] \in Places
      BY <1>2, <1>4, <3>1
    <3>3. p[k] # b /\ p[k] # c /\ p[k] \in Places
      BY <1>3, <1>4, <3>1
    <3>4. f2[p[k - 1]] = f[p[k - 1]] /\ g2[p[k]] = g[p[k]]
      BY <3>2, <3>3 DEF ButTwo
    <3>5. f[p[k - 1]] = p[k] /\ g[p[k]] = p[k - 1]
      BY <1>5, <3>1
    <3>6. q[k] = p[k - 1] /\ q[k + 1] = p[k]
      BY <1>7, <3>1
    <3> QED BY <3>4, <3>5, <3>6
  <2> QED BY <1>1, <1>6, <2>1, <2>2, <2>3, <2>4
<1>12. Forth(f2, h, n + 1, q)
  <2>1. n + 1 \in Nat /\ (n + 1) + 1 = n + 2
    BY <1>1
  <2> QED BY <1>8, <1>9, <1>10, <1>11, <2>1 DEF Forth
<1>13. Inner(n + 1, q) = Inner(n, p) \cup {c}
  <2>1. ASSUME NEW l \in 1 .. n + 1 PROVE q[l] \in Inner(n, p) \cup {c}
    <3>1. \/ l \in 0 .. i /\ l \in 1 .. n
          \/ l = i + 1
          \/ l \in i + 2 .. n + 2 /\ l - 1 \in 1 .. n
      BY <1>1, <1>6
    <3> QED BY <1>7, <3>1 DEF Inner
  <2>2. ASSUME NEW l \in 1 .. n PROVE p[l] \in Inner(n + 1, q)
    <3>1. CASE l <= i
      <4>1. l \in 1 .. n + 1 /\ l \in 0 .. i
        BY <1>1, <3>1
      <4> QED BY <1>7, <4>1 DEF Inner
    <3>2. CASE l > i
      <4>1. l + 1 \in 1 .. n + 1 /\ l + 1 \in i + 2 .. n + 2 /\ (l + 1) - 1 = l
        BY <1>1, <1>6, <3>2
      <4>2. q[l + 1] = p[l]
        BY <1>7, <4>1
      <4> QED BY <4>1, <4>2 DEF Inner
    <3> QED BY <1>1, <1>6, <3>1, <3>2
  <2>3. c \in Inner(n + 1, q)
    <3>1. i + 1 \in 1 .. n + 1
      BY <1>1, <1>6
    <3> QED BY <1>7, <3>1 DEF Inner
  <2> QED BY <2>1, <2>2, <2>3 DEF Inner
<1> QED BY <1>11, <1>12, <1>13 DEF Rounds

LEMMA CutRound ==
    ASSUME NEW f, NEW g, NEW h, NEW n, NEW p, Rounds(f, g, h, n, p),
           NEW i \in 1 .. n, NEW a, a = p[i - 1], NEW x, x = p[i], NEW b, b = p[i + 1],
           NEW f2, f2[a] = b, ButTwo(f2, f, a, x),
           NEW g2, g2[b] = a, ButTwo(g2, g, b, x),
           NEW q, q = Cut(p, n, i)
    PROVE  Rounds(f2, g2, h, n - 1, q) /\ Inner(n - 1, q) = Inner(n, p) \ {x}
<1>1. n \in Nat /\ p \in [0 .. n + 1 -> Places] /\ p[0] = h /\ p[n + 1] = h
  BY DEF Rounds, Forth
<1>2. \A k \in 0 .. n : \A j \in 0 .. n : p[k] = p[j] => k = j
  BY DEF Rounds, Forth
<1>3. \A k \in 1 .. n + 1 : \A j \in 1 .. n + 1 : p[k] = p[j] => k = j
  BY CycleFacts DEF Rounds
<1>4. \A k \in 0 .. n + 1 : p[k] \in Places
  BY <1>1
<1>5. \A k \in 0 .. n : f[p[k]] = p[k + 1] /\ g[p[k + 1]] = p[k]
  BY DEF Rounds, Forth
<1>6. i \in Nat /\ 1 <= i /\ i <= n
  BY <1>1
<1>7. /\ \A k \in 0 .. i - 1 : q[k] = p[k]
      /\ \A k \in i .. n : q[k] = p[k + 1]
  BY <1>1, <1>6 DEF Cut
<1>8. q \in [0 .. n -> Places]
  BY <1>1, <1>6 DEF Cut
<1>9. q[0] = h /\ q[n] = h
  BY <1>1, <1>6, <1>7
<1>10. ASSUME NEW k \in 0 .. n - 1, NEW j \in 0 .. n - 1, q[k] = q[j] PROVE k = j
  <2>1. ASSUME NEW l \in 0 .. n - 1
        PROVE  \/ l \in 0 .. i - 1 /\ q[l] = p[l] /\ l \in 0 .. n
               \/ l \in i .. n - 1 /\ q[l] = p[l + 1] /\ l + 1 \in 0 .. n
    BY <1>1, <1>6, <1>7
  <2> QED BY <1>1, <1>2, <1>6, <1>10, <2>1
<1>11. ASSUME NEW k \in 0 .. n - 1 PROVE f2[q[k]] = q[k + 1] /\ g2[q[k + 1]] = q[k]
  <2>1. CASE k < i - 1
    <3>1. /\ k \in 0 .. n /\ k \in 0 .. i - 1 /\ k + 1 \in 0 .. i - 1 /\ i - 1 \in 0 .. n /\ i \in 0 .. n
          /\ k # i - 1 /\ k # i
          /\ k + 1 \in 1 .. n + 1 /\ i \in 1 .. n + 1 /\ i + 1 \in 1 .. n + 1 /\ k + 1 # i /\ k + 1 # i + 1
          /\ k \in 0 .. n + 1 /\ k + 1 \in 0 .. n + 1
      BY <1>1, <1>6, <2>1
    <3>2. p[k] # a /\ p[k] # x /\ p[k] \in Places
      BY <1>2, <1>4, <3>1
    <3>3. p[k + 1] # b /\ p[k + 1] # x /\ p[k + 1] \in Places
      BY <1>3, <1>4, <3>1
    <3>4. f2[p[k]] = f[p[k]] /\ g2[p[k + 1]] = g[p[k + 1]]
      BY <3>2, <3>3 DEF ButTwo
    <3> QED BY <1>5, <1>7, <3>1, <3>4
  <2>2. CASE k = i - 1
    <3>1. k \in 0 .. i - 1 /\ k + 1 = i /\ i \in i .. n
      BY <1>1, <1>6, <2>2
    <3>2. q[k] = a /\ q[k + 1] = b
      BY <1>7, <2>2, <3>1
    <3> QED BY <3>2
  <2>3. CASE k > i - 1
    <3>1. /\ k + 1 \in 0 .. n /\ k \in i .. n /\ k + 1 \in i .. n /\ i - 1 \in 0 .. n /\ i \in 0 .. n
          /\ k + 1 # i - 1 /\ k + 1 # i
          /\ k + 2 \in 1 .. n + 1 /\ i \in 1 .. n + 1 /\ i + 1 \in 1 .. n + 1 /\ k + 2 # i /\ k + 2 # i + 1
          /\ k + 1 \in 0 .. n + 1 /\ k + 2 \in 0 .. n + 1 /\ (k + 1) + 1 = k + 2
      BY <1>1, <1>6, <2>3
    <3>2. p[k + 1] # a /\ p[k + 1] # x /\ p[k + 1] \in Places
      BY <1>2, <1>4, <3>1
    <3>3. p[k + 2] # b /\ p[k + 2] # x /\ p[k + 2] \in Places
      BY <1>3, <1>4, <3>1
    <3>4. f2[p[k + 1]] = f[p[k + 1]] /\ g2[p[k + 2]] = g[p[k + 2]]
      BY <3>2, <3>3 DEF ButTwo
    <3>5. f[p[k + 1]] = p[k + 2] /\ g[p[k + 2]] = p[k + 1]
      BY <1>5, <3>1
    <3>6. q[k] = p[k + 1] /\ q[k + 1] = p[k + 2]
      BY <1>7, <3>1
    <3> QED BY <3>4, <3>5, <3>6
  <2> QED BY <1>1, <1>6, <2>1, <2>2, <2>3
<1>12. Forth(f2, h, n - 1, q)
  <2>1. n - 1 \in Nat /\ (n - 1) + 1 = n
    BY <1>1, <1>6
  <2> QED BY <1>8, <1>9, <1>10, <1>11, <2>1 DEF Forth
<1>13. Inner(n - 1, q) = Inner(n, p) \ {x}
  <2>1. ASSUME NEW l \in 1 .. n - 1 PROVE q[l] \in Inner(n, p) \ {x}
    <3>1. \/ l \in 0 .. i - 1 /\ l \in 1 .. n /\ l # i /\ l \in 0 .. n
          \/ l \in i .. n /\ l + 1 \in 1 .. n /\ l + 1 # i /\ l + 1 \in 0 .. n
      BY <1>1, <1>6
    <3>2. i \in 0 .. n
      BY <1>1, <1>6
    <3> QED BY <1>2, <1>7, <3>1, <3>2 DEF Inner
  <2>2. ASSUME NEW l \in 1 .. n, p[l] # x PROVE p[l] \in Inner(n - 1, q)
    <3>1. CASE l < i
      <4>1. l \in 1 .. n - 1 /\ l \in 0 .. i - 1
        BY <1>1, <1>6, <3>1
      <4> QED BY <1>7, <4>1 DEF Inner
    <3>2. CASE l > i
      <4>1. l - 1 \in 1 .. n - 1 /\ l - 1 \in i .. n /\ (l - 1) + 1 = l
        BY <1>1, <1>6, <3>2
      <4>2. q[l - 1] = p[l]
        BY <1>7, <4>1
      <4> QED BY <4>1, <4>2 DEF Inner
    <3> QED BY <1>1, <1>6, <2>2, <3>1, <3>2
  <2> QED BY <2>1, <2>2 DEF Inner
<1> QED BY <1>11, <1>12, <1>13 DEF Rounds

LEMMA SameRound ==
    ASSUME NEW f, NEW g, NEW h, NEW n, NEW p, Rounds(f, g, h, n, p),
           NEW f2, NEW g2, \A c \in Cycle(n, p) : f2[c] = f[c] /\ g2[c] = g[c]
    PROVE  Rounds(f2, g2, h, n, p)
<1>1. ASSUME NEW i \in 0 .. n PROVE p[i] \in Cycle(n, p) /\ p[i + 1] \in Cycle(n, p)
  <2>1. i \in 0 .. n + 1 /\ i + 1 \in 0 .. n + 1
    BY DEF Rounds, Forth
  <2> QED BY <2>1, CycleFacts DEF Rounds
<1> QED BY <1>1 DEF Rounds, Forth
---------------------------------------------------------------------------
(* The ring of a header in a memory.                                       *)

Chain(s, h, n, p) ==
    Rounds(s.next, s.prev, h, n, p) /\ Inner(n, p) \subseteq s.nodes /\ s.count[h] = n

LEMMA ChainRing ==
    ASSUME NEW s, Sane(s), NEW h, NEW n, NEW p, Chain(s, h, n, p)
    PROVE  /\ Ring(s, h) /\ Closed(s, h)
           /\ Elements(s, h) = Inner(n, p) /\ Around(s, h) = Cycle(n, p)
           /\ Steps(s.next, s.next[h], h) = n
<1>1. PICK f : f = s.next
  OBVIOUS
<1>2. PICK g : g = s.prev
  OBVIOUS
<1>3. f \in [Places -> Places] /\ Rounds(f, g, h, n, p) /\ Inner(n, p) \subseteq Cells
  BY <1>1, <1>2, UsedFacts DEF Chain
<1>4. /\ n \in Nat /\ p \in [0 .. n + 1 -> Places] /\ p[0] = h /\ p[n + 1] = h
      /\ \A i \in 0 .. n : f[p[i]] = p[i + 1] /\ g[p[i + 1]] = p[i]
  BY <1>3 DEF Rounds, Forth
<1>5. /\ Steps(f, f[h], h) = n /\ n < Longest
      /\ \A i \in 0 .. n : Iterate(f, f[h], i) = p[i + 1]
  BY <1>3, ForthSteps DEF Rounds
<1>6. PICK w : w = Nodes(s, h)
  OBVIOUS
<1>7. w = [k \in 1 .. n |-> Iterate(f, f[h], k - 1)]
  BY <1>1, <1>5, <1>6 DEF Nodes, Path
<1>8. \A k \in 1 .. n : w[k] = p[k]
  BY <1>4, <1>5, <1>7
<1>9. DOMAIN w = 1 .. n
  BY <1>7
<1>10. Len(w) = n
  <2>1. w \in [1 .. n -> Places]
    BY <1>4, <1>7, <1>8
  <2>2. w \in Seq(Places)
    BY <1>4, <2>1, SeqDef
  <2> QED BY <1>4, <1>9, <2>2, LenProperties
<1>11. Elements(s, h) = Inner(n, p)
  BY <1>6, <1>8, <1>9 DEF Elements, Inner
<1>12. Cycle(n, p) = Inner(n, p) \cup {h}
  BY <1>3, CycleFacts DEF Rounds
<1>13. Around(s, h) = Cycle(n, p)
  BY <1>11, <1>12 DEF Around
<1>14. Closed(s, h)
  BY <1>1, <1>5 DEF Closed
<1>15. ASSUME NEW c \in Cycle(n, p) PROVE g[f[c]] = c /\ f[g[c]] = c
  <2>1. PICK i \in 0 .. n : c = p[i]
    BY DEF Cycle
  <2>2. g[f[c]] = c
    BY <1>4, <2>1
  <2>3. PICK j \in 0 .. n : c = p[j + 1]
    <3>1. CASE i = 0
      <4>1. n \in 0 .. n
        BY <1>4
      <4> QED BY <1>4, <2>1, <3>1, <4>1
    <3>2. CASE i # 0
      <4>1. i - 1 \in 0 .. n /\ (i - 1) + 1 = i
        BY <1>4, <3>2
      <4> QED BY <2>1, <4>1
    <3> QED BY <3>1, <3>2
  <2>4. f[g[c]] = c
    BY <1>4, <2>3
  <2> QED BY <2>2, <2>4
<1>16. Ring(s, h)
  <2>1. Len(Nodes(s, h)) = s.count[h] /\ Elements(s, h) \subseteq s.nodes
    BY <1>6, <1>10, <1>11 DEF Chain
  <2>2. \A c \in Elements(s, h) \cup {h} : s.prev[s.next[c]] = c /\ s.next[s.prev[c]] = c
    BY <1>1, <1>2, <1>11, <1>12, <1>15
  <2> QED BY <1>14, <2>1, <2>2 DEF Ring
<1> QED BY <1>1, <1>5, <1>11, <1>13, <1>14, <1>16

\* Walks round a ring stay on it, and no step over the ring is longer than it.
LEMMA RoundWalk ==
    ASSUME NEW s, NEW h, NEW n, NEW p, Rounds(s.next, s.prev, h, n, p), NEW c \in Cycle(n, p)
    PROVE  /\ s.next[c] \in Cycle(n, p) /\ s.prev[c] \in Cycle(n, p)
           /\ \A k \in Int : Plus(s, c, k) \in Cycle(n, p)
<1> PICK f : f = s.next
  OBVIOUS
<1> PICK g : g = s.prev
  OBVIOUS
<1> PICK S : S = Cycle(n, p)
  OBVIOUS
<1>1. /\ n \in Nat /\ p[0] = h /\ p[n + 1] = h
      /\ \A i \in 0 .. n : f[p[i]] = p[i + 1] /\ g[p[i + 1]] = p[i]
  BY DEF Rounds, Forth
<1>2. \A i \in 0 .. n + 1 : p[i] \in S
  BY CycleFacts DEF Rounds
<1>3. ASSUME NEW d \in S PROVE f[d] \in S /\ g[d] \in S
  <2>1. PICK i \in 0 .. n : d = p[i]
    BY DEF Cycle
  <2>2. f[d] \in S
    <3>1. i + 1 \in 0 .. n + 1
      BY <1>1
    <3> QED BY <1>1, <1>2, <2>1, <3>1
  <2>3. g[d] \in S
    <3>1. CASE i = 0
      <4>1. n \in 0 .. n /\ n \in 0 .. n + 1
        BY <1>1
      <4> QED BY <1>1, <1>2, <2>1, <3>1, <4>1
    <3>2. CASE i # 0
      <4>1. i - 1 \in 0 .. n /\ (i - 1) + 1 = i /\ i - 1 \in 0 .. n + 1
        BY <1>1, <3>2
      <4> QED BY <1>1, <1>2, <2>1, <4>1
    <3> QED BY <3>1, <3>2
  <2> QED BY <2>2, <2>3
<1>4. \A j \in Nat : Iterate(f, c, j) \in S
  BY <1>3, IterateKeeps
<1>5. \A j \in Nat : Iterate(g, c, j) \in S
  BY <1>3, IterateKeeps
<1>6. ASSUME NEW k \in Int PROVE Plus(s, c, k) \in S
  <2>1. CASE k > 0
    <3>1. k \in Nat /\ Plus(s, c, k) = Iterate(f, c, k)
      BY <2>1 DEF Plus
    <3> QED BY <1>4, <3>1
  <2>2. CASE ~(k > 0)
    <3>1. -k \in Nat /\ Plus(s, c, k) = Iterate(g, c, -k)
      BY <2>2 DEF Plus
    <3> QED BY <1>5, <3>1
  <2> QED BY <2>1, <2>2
<1> QED BY <1>3, <1>6

LEMMA Reached ==
    ASSUME NEW link \in [Places -> Places], NEW c \in Places, NEW d \in Places,
           NEW j \in Nat, j < Longest, Iterate(link, c, j) = d
    PROVE  Steps(link, c, d) < Longest
<1>1. Longest \in Nat
  BY PlaceFacts DEF Longest
<1>2. Reaches(link, c, d, Steps(link, c, d))
  BY StepsFacts
<1> QED BY <1>1, <1>2 DEF Reaches

LEMMA RoundBack ==
    ASSUME NEW s, Sane(s), NEW h, NEW n, NEW p, Rounds(s.next, s.prev, h, n, p),
           Inner(n, p) \subseteq s.nodes, NEW c \in Cycle(n, p)
    PROVE  Back(s, c, s.next[h]) < Longest
<1>1. PICK g : g = s.prev
  OBVIOUS
<1>2. /\ n \in Nat /\ p[0] = h /\ p[n + 1] = h /\ s.next[h] = p[1] /\ p \in [0 .. n + 1 -> Places]
      /\ \A i \in 0 .. n : g[p[i + 1]] = p[i]
  BY <1>1 DEF Rounds, Forth
<1>3. n < Longest /\ g \in [Places -> Places] /\ Longest \in Nat
  <2>1. Inner(n, p) \subseteq Cells /\ s.next \in [Places -> Places]
    BY UsedFacts
  <2> QED BY <1>1, <2>1, UsedFacts, ForthSteps, PlaceFacts DEF Rounds, Longest
<1>4. PICK i \in 1 .. n + 1 : c = p[i]
  <2>1. PICK i \in 0 .. n : c = p[i]
    BY DEF Cycle
  <2>2. CASE i = 0
    <3>1. n + 1 \in 1 .. n + 1
      BY <1>2
    <3> QED BY <1>2, <2>1, <2>2, <3>1
  <2>3. CASE i # 0
    <3>1. i \in 1 .. n + 1
      BY <1>2, <2>3
    <3> QED BY <2>1, <3>1
  <2> QED BY <2>2, <2>3
<1>5. PICK q : q = [j \in 0 .. i - 1 |-> p[i - j]]
  OBVIOUS
<1>6. ASSUME NEW j \in 0 .. (i - 1) - 1 PROVE q[j + 1] = g[q[j]]
  <2>1. /\ j \in 0 .. i - 1 /\ j + 1 \in 0 .. i - 1 /\ i - (j + 1) \in 0 .. n
        /\ (i - (j + 1)) + 1 = i - j
    BY <1>2, <1>6
  <2> QED BY <1>2, <1>5, <2>1
<1>7. i - 1 \in Nat
  BY <1>2
<1>8. \A j \in 0 .. i - 1 : Iterate(g, q[0], j) = q[j]
  <2>1. \A j \in 0 .. (i - 1) - 1 : q[j + 1] = g[q[j]]
    BY <1>6
  <2> QED BY ONLY <1>7, <2>1, IteratePath
<1>9. Iterate(g, c, i - 1) = p[1]
  <2>1. 0 \in 0 .. i - 1 /\ i - 1 \in 0 .. i - 1 /\ i - (i - 1) = 1 /\ i - 0 = i
    BY <1>2, <1>7
  <2>2. q[0] = c /\ q[i - 1] = p[1]
    BY <1>4, <1>5, <2>1
  <2> QED BY <1>8, <2>1, <2>2
<1>10. c \in Places /\ p[1] \in Places /\ i - 1 < Longest
  BY <1>2, <1>3, <1>4
<1> QED BY <1>1, <1>2, <1>3, <1>7, <1>9, <1>10, Reached DEF Back

\* The place of a position in front of the end is a node.
LEMMA PlusAt ==
    ASSUME NEW s, Sane(s), NEW h, NEW n, NEW p, Chain(s, h, n, p),
           NEW pos \in Nat, pos <= n
    PROVE  Plus(s, s.next[h], pos) = p[pos + 1]
<1>1. /\ n \in Nat /\ s.next[h] = p[1]
      /\ \A i \in 0 .. n : Iterate(s.next, s.next[h], i) = p[i + 1]
  <2>1. Inner(n, p) \subseteq Cells /\ s.next \in [Places -> Places]
    BY UsedFacts DEF Chain
  <2>2. Forth(s.next, h, n, p)
    BY DEF Chain, Rounds
  <2>3. n \in Nat /\ s.next[h] = p[1]
    <3>1. 0 \in 0 .. n /\ 0 + 1 = 1
      BY <2>2 DEF Forth
    <3> QED BY <2>2, <3>1 DEF Forth
  <2> QED BY <2>1, <2>2, <2>3, ForthSteps
<1>2. CASE pos > 0
  <2>1. Plus(s, s.next[h], pos) = Iterate(s.next, s.next[h], pos)
    BY <1>2 DEF Plus
  <2>2. pos \in 0 .. n
    BY <1>1
  <2> QED BY <1>1, <2>1, <2>2
<1>3. CASE ~(pos > 0)
  <2>1. Plus(s, s.next[h], pos) = Iterate(s.prev, s.next[h], 0)
    <3>1. PICK k \in Int : k = -pos
      OBVIOUS
    <3>2. k = 0 /\ ~(pos > 0)
      BY <1>3, <3>1
    <3>3. Plus(s, s.next[h], pos) = Iterate(s.prev, s.next[h], k)
      BY <3>1, <3>2 DEF Plus
    <3> QED BY <3>2, <3>3
  <2>2. pos + 1 = 1
    BY <1>3
  <2>3. Iterate(s.prev, s.next[h], 0) = s.next[h]
    BY IterateSteps
  <2> QED BY <1>1, <2>1, <2>3, <2>2
<1> QED BY <1>2, <1>3
---------------------------------------------------------------------------
(* The list's ring under the calls.                                        *)

Good(s) == \E n, p : Chain(s, s.list, n, p)

\* From s to t the ring was changed, and is one; no node is lost.
Stays(s, t) ==
    /\ Good(t) /\ t.fault = s.fault
    /\ t.nodes \ Elements(t, t.list) = s.nodes \ Elements(s, s.list)

LEMMA StaysSelf ==
    ASSUME NEW s, Good(s)
    PROVE  Stays(s, s)
BY DEF Stays

LEMMA StaysThen ==
    ASSUME NEW r, NEW s, NEW t, Stays(r, s), Stays(s, t)
    PROVE  Stays(r, t)
BY DEF Stays

LEMMA StaysChain ==
    ASSUME NEW s, Sane(s), NEW n, NEW p, Chain(s, s.list, n, p),
           NEW t, Sane(t), t.list = s.list, t.fault = s.fault,
           NEW k, NEW q, Chain(t, t.list, k, q),
           t.nodes \ Inner(k, q) = s.nodes \ Inner(n, p)
    PROVE  Stays(s, t)
<1>1. Elements(s, s.list) = Inner(n, p)
  BY ChainRing
<1>2. Elements(t, t.list) = Inner(k, q)
  BY ChainRing
<1>3. Good(t)
  BY DEF Good
<1> QED BY <1>1, <1>2, <1>3 DEF Stays

\* The cells of the ring are used and in front of the fence.
LEMMA AroundFacts ==
    ASSUME NEW s, Sane(s), NEW F, Fenced(s, F), NEW n, NEW p, Chain(s, s.list, n, p)
    PROVE  /\ n \in Nat /\ Inner(n, p) \subseteq s.nodes /\ s.count[s.list] = n /\ n <= N
           /\ Cycle(n, p) \subseteq Used(s) /\ Cycle(n, p) \subseteq Places \ F
           /\ Cycle(n, p) = Inner(n, p) \cup {s.list} /\ s.list \notin Inner(n, p)
           /\ Cycle(n, p) = Around(s, s.list) /\ Elements(s, s.list) = Inner(n, p)
<1>1. Forth(s.next, s.list, n, p) /\ n \in Nat /\ Inner(n, p) \subseteq s.nodes /\ s.count[s.list] = n
  BY DEF Chain, Rounds, Forth
<1>2. s.list \in Places \ F /\ s.list \in Used(s)
  BY ListOutside
<1>3. Cycle(n, p) = Inner(n, p) \cup {s.list} /\ s.list \notin Inner(n, p)
  BY <1>1, CycleFacts
<1>4. Cycle(n, p) \subseteq Used(s)
  BY <1>1, <1>2, <1>3 DEF Used
<1>5. Inner(n, p) \subseteq Places \ F
  <2>1. PICK S : S = Places \ F
    OBVIOUS
  <2>2. \A y \in S : s.next[y] \in S
    BY <2>1, Outside
  <2>3. \A j \in Nat : Iterate(s.next, s.list, j) \in S
    BY <1>2, <2>1, <2>2, IterateKeeps
  <2>4. \A i \in 0 .. n + 1 : Iterate(s.next, s.list, i) = p[i]
    BY <1>1, UsedFacts, ForthSteps
  <2>5. ASSUME NEW i \in 1 .. n PROVE p[i] \in S
    <3>1. i \in Nat /\ i \in 0 .. n + 1
      BY <1>1
    <3> QED BY <2>3, <2>4, <3>1
  <2> QED BY <2>1, <2>5 DEF Inner
<1>6. Cycle(n, p) \subseteq Places \ F
  BY <1>2, <1>3, <1>5
<1>7. n <= N
  <2>1. Inner(n, p) \subseteq Cells
    BY <1>1, UsedFacts
  <2> QED BY <1>1, <2>1, CellsFinite, ForthLength
<1> QED BY <1>1, <1>3, <1>4, <1>6, <1>7, ChainRing

LEMMA LinkedStays ==
    ASSUME NEW s, Sane(s), NEW F, Fenced(s, F), NEW n, NEW p, Chain(s, s.list, n, p),
           NEW i \in 0 .. n, NEW c, NEW v, NEW t, Linked(s, t, p[i], p[i + 1], c, v), Within(F, s, t)
    PROVE  Stays(s, t) /\ Chain(t, t.list, n + 1, Put(p, n, i, c))
<1>1. PICK h : h = s.list
  OBVIOUS
<1>2. Sane(t) /\ t.list = h
  BY <1>1 DEF Within
<1>3. PICK q : q = Put(p, n, i, c)
  OBVIOUS
<1>4. c \in Cells /\ c \notin Used(s) /\ c \in Places /\ c \notin Cycle(n, p)
  BY AroundFacts, PlaceFacts DEF Linked
<1>5. Rounds(s.next, s.prev, h, n, p)
  BY <1>1 DEF Chain
<1>6. PICK a : a = p[i]
  OBVIOUS
<1>7. PICK b : b = p[i + 1]
  OBVIOUS
<1>8. /\ t.next[a] = c /\ t.next[c] = b /\ ButTwo(t.next, s.next, a, c)
      /\ t.prev[c] = a /\ t.prev[b] = c /\ ButTwo(t.prev, s.prev, b, c)
  BY <1>6, <1>7 DEF Linked
<1>9. Rounds(t.next, t.prev, h, n + 1, q) /\ Inner(n + 1, q) = Inner(n, p) \cup {c}
  BY <1>3, <1>4, <1>5, <1>6, <1>7, <1>8, PutRound
<1>10. t.nodes = s.nodes \cup {c} /\ t.count[h] = s.count[h] + 1 /\ t.fault = s.fault
  BY <1>1 DEF Linked
<1>11. Inner(n, p) \subseteq s.nodes /\ c \notin s.nodes /\ s.count[h] = n
  BY <1>1, <1>4 DEF Chain, Used
<1>12. Chain(t, h, n + 1, q)
  BY <1>9, <1>10, <1>11 DEF Chain
<1>13. t.nodes \ Inner(n + 1, q) = s.nodes \ Inner(n, p)
  BY <1>9, <1>10, <1>11
<1> QED BY <1>1, <1>2, <1>3, <1>10, <1>12, <1>13, StaysChain

\* insert() puts the node between two of the ring.
\* A new node with the data v is in front of d, in the chain p of n elements.
LinkedBefore(s, t, n, p, d, v) ==
    \E i \in 0 .. n : d = p[i + 1] /\ Linked(s, t, p[i], p[i + 1], New(s), v)

LEMMA LinkPlace ==
    ASSUME NEW s, Sane(s), NEW F, Fenced(s, F), NEW n, NEW p, Chain(s, s.list, n, p), Free(s) # {},
           NEW d \in Around(s, s.list), NEW v \in Values \cup {Lost}, NEW t, t = Link(s, d, v)
    PROVE  Within(F, s, t) /\ LinkedBefore(s, t, n, p, d, v)
<1>1. Chain(s, s.list, n, p)
  OBVIOUS
<1>2. d \in Cycle(n, p) /\ d \in Places \ F /\ d \in Used(s) /\ n \in Nat
  BY <1>1, AroundFacts
<1>3. PICK i \in 0 .. n : d = p[i + 1] /\ s.prev[d] = p[i]
  <2>1. /\ p[0] = s.list /\ p[n + 1] = s.list
        /\ \A i \in 0 .. n : s.prev[p[i + 1]] = p[i]
    BY <1>1 DEF Chain, Rounds, Forth
  <2>2. PICK j \in 0 .. n : d = p[j]
    BY <1>2 DEF Cycle
  <2>3. CASE j = 0
    <3>1. n \in 0 .. n
      BY <1>2
    <3> QED BY <2>1, <2>2, <2>3, <3>1
  <2>4. CASE j # 0
    <3>1. j - 1 \in 0 .. n /\ (j - 1) + 1 = j
      BY <1>2, <2>4
    <3> QED BY <2>1, <2>2, <3>1
  <2> QED BY <2>3, <2>4
<1>4. p[i] \in Used(s)
  <2>1. p[i] \in Cycle(n, p)
    BY DEF Cycle
  <2> QED BY <1>1, <2>1, AroundFacts
<1>5. Within(F, s, t) /\ Linked(s, t, p[i], p[i + 1], New(s), v)
  BY <1>2, <1>3, <1>4, LinkFacts
<1> QED BY <1>3, <1>5 DEF LinkedBefore

LEMMA LinkStays ==
    ASSUME NEW s, Sane(s), NEW F, Fenced(s, F), Good(s), Free(s) # {},
           NEW d \in Around(s, s.list), NEW v \in Values \cup {Lost}, NEW t, t = Link(s, d, v)
    PROVE  Within(F, s, t) /\ Stays(s, t)
<1>1. PICK n, p : Chain(s, s.list, n, p)
  BY DEF Good
<1>2. Within(F, s, t) /\ LinkedBefore(s, t, n, p, d, v)
  BY <1>1, LinkPlace
<1>3. PICK i \in 0 .. n : Linked(s, t, p[i], p[i + 1], New(s), v)
  BY ONLY <1>2 DEF LinkedBefore
<1> QED BY <1>1, <1>2, <1>3, LinkedStays

\* prepend() puts it first.
LEMMA LinkFirstPlace ==
    ASSUME NEW s, Sane(s), NEW F, Fenced(s, F), NEW n, NEW p, Chain(s, s.list, n, p), Free(s) # {},
           NEW v \in Values \cup {Lost}, NEW t, t = LinkFirst(s, v)
    PROVE  Within(F, s, t) /\ 0 \in 0 .. n /\ Linked(s, t, p[0], p[0 + 1], New(s), v)
<1>1. Chain(s, s.list, n, p)
  OBVIOUS
<1>2. n \in Nat /\ 0 \in 0 .. n /\ 0 + 1 = 1 /\ p[0] = s.list /\ s.next[s.list] = p[1]
  <2>1. n \in Nat
    BY <1>1, AroundFacts
  <2>2. 0 \in 0 .. n /\ 0 + 1 = 1
    BY <2>1
  <2> QED BY <1>1, <2>1, <2>2 DEF Chain, Rounds, Forth
<1>3. p[1] \in Used(s)
  <2>1. p[1] \in Cycle(n, p)
    <3>1. 1 \in 0 .. n + 1
      BY <1>2
    <3> QED BY <1>1, <3>1, CycleFacts DEF Chain, Rounds
  <2> QED BY <1>1, <2>1, AroundFacts
<1>4. Within(F, s, t) /\ Linked(s, t, p[0], p[0 + 1], New(s), v)
  BY <1>2, <1>3, LinkFirstFacts
<1> QED BY <1>2, <1>4

LEMMA LinkFirstStays ==
    ASSUME NEW s, Sane(s), NEW F, Fenced(s, F), Good(s), Free(s) # {},
           NEW v \in Values \cup {Lost}, NEW t, t = LinkFirst(s, v)
    PROVE  Within(F, s, t) /\ Stays(s, t)
<1>1. PICK n, p : Chain(s, s.list, n, p)
  BY DEF Good
<1>2. Within(F, s, t) /\ 0 \in 0 .. n /\ Linked(s, t, p[0], p[0 + 1], New(s), v)
  BY <1>1, LinkFirstPlace
<1> QED BY <1>1, <1>2, LinkedStays

\* A node of the ring is given back.
LEMMA FreedPlace ==
    ASSUME NEW s, Sane(s), NEW F, Fenced(s, F), NEW n, NEW p, Chain(s, s.list, n, p),
           NEW i \in 1 .. n, NEW d, d = p[i], NEW t, t = Count(freenode(Out(s, d), d), -1)
    PROVE  /\ Within(F, s, t) /\ Stays(s, t)
           /\ Chain(t, t.list, n - 1, Cut(p, n, i)) /\ But(t.data, s.data, d)
<1>1. Chain(s, s.list, n, p)
  OBVIOUS
<1>2. PICK h : h = s.list
  OBVIOUS
<1>3. /\ n \in Nat /\ Inner(n, p) \subseteq s.nodes /\ s.count[h] = n
      /\ Cycle(n, p) \subseteq Used(s) /\ Cycle(n, p) \subseteq Places \ F
      /\ d \in Inner(n, p) /\ Inner(n, p) \subseteq Cycle(n, p)
  <2>1. d \in Inner(n, p)
    BY DEF Inner
  <2> QED BY <1>1, <1>2, <2>1, AroundFacts
<1>4. d = p[i]
  OBVIOUS
<1>5. PICK a : a = p[i - 1]
  OBVIOUS
<1>6. PICK b : b = p[i + 1]
  OBVIOUS
<1>7. Rounds(s.next, s.prev, h, n, p) /\ Forth(s.next, h, n, p)
  BY <1>1, <1>2 DEF Chain, Rounds
<1>8. i \in 0 .. n /\ i - 1 \in 0 .. n /\ i - 1 \in 0 .. n + 1 /\ i + 1 \in 0 .. n + 1 /\ (i - 1) + 1 = i
      /\ i \in 1 .. n + 1 /\ i + 1 \in 1 .. n + 1 /\ i # i + 1 /\ i # i - 1
  BY <1>3
<1>9. s.next[d] = b /\ s.prev[d] = a
  BY <1>4, <1>5, <1>6, <1>7, <1>8 DEF Rounds, Forth
<1>10. a \in Cycle(n, p) /\ b \in Cycle(n, p)
  BY <1>5, <1>6, <1>7, <1>8, CycleFacts
<1>11. a # d
  BY <1>4, <1>5, <1>7, <1>8 DEF Forth
<1>12. b # d
  BY <1>4, <1>6, <1>7, <1>8, CycleFacts
<1>13. d \in s.nodes \ F
  BY <1>3
<1>14. Within(F, s, t) /\ Removed(s, t, a, d, b)
  BY <1>3, <1>9, <1>10, <1>11, <1>12, <1>13, FreedFacts
<1>15. PICK q : q = Cut(p, n, i)
  OBVIOUS
<1>16. /\ t.next[a] = b /\ ButTwo(t.next, s.next, a, d)
       /\ t.prev[b] = a /\ ButTwo(t.prev, s.prev, b, d)
       /\ t.nodes = s.nodes \ {d} /\ t.fault = s.fault /\ t.count[h] = s.count[h] - 1
  BY <1>2, <1>14 DEF Removed
<1>17. Rounds(t.next, t.prev, h, n - 1, q) /\ Inner(n - 1, q) = Inner(n, p) \ {d}
  BY <1>4, <1>5, <1>6, <1>7, <1>15, <1>16, CutRound
<1>18. Chain(t, h, n - 1, q)
  BY <1>3, <1>16, <1>17 DEF Chain
<1>19. t.nodes \ Inner(n - 1, q) = s.nodes \ Inner(n, p)
  BY <1>3, <1>16, <1>17
<1>20. Sane(t) /\ t.list = h
  BY <1>2, <1>14 DEF Within
<1>21. Stays(s, t)
  BY <1>1, <1>2, <1>16, <1>18, <1>19, <1>20, StaysChain
<1>22. But(t.data, s.data, d)
  BY <1>14 DEF Removed
<1> QED BY <1>14, <1>15, <1>18, <1>20, <1>21, <1>22

LEMMA FreedStays ==
    ASSUME NEW s, Sane(s), NEW F, Fenced(s, F), Good(s),
           NEW d \in Elements(s, s.list), NEW t, t = Count(freenode(Out(s, d), d), -1)
    PROVE  Within(F, s, t) /\ Stays(s, t)
<1>1. PICK n, p : Chain(s, s.list, n, p)
  BY DEF Good
<1>2. d \in Inner(n, p)
  BY <1>1, AroundFacts
<1>3. PICK i \in 1 .. n : d = p[i]
  BY <1>2 DEF Inner
<1> QED BY <1>1, <1>3, FreedPlace

LEMMA RemoveAtStays ==
    ASSUME NEW s, Sane(s), NEW F, Fenced(s, F), Good(s),
           NEW pos \in Int, NEW t, t = RemoveAt(s, pos)
    PROVE  Within(F, s, t) /\ Stays(s, t)
<1>1. PICK n, p : Chain(s, s.list, n, p)
  BY DEF Good
<1>2. PICK k : k = IF size(s) = 0 \/ pos < size(s) THEN pos ELSE size(s) - 1
  OBVIOUS
<1>3. k \in Int
  <2>1. size(s) \in Int
    BY UsedFacts DEF size
  <2> QED BY <1>2, <2>1
<1>4. PICK d : d = Plus(s, s.next[s.list], k)
  OBVIOUS
<1>5. t = IF d = s.list THEN s
          ELSE IF d \notin s.nodes THEN Fails(s, "freed")
          ELSE Count(freenode(Out(s, d), d), -1)
  BY <1>2, <1>4 DEF RemoveAt
<1>6. d \in Cycle(n, p)
  <2>1. Rounds(s.next, s.prev, s.list, n, p) /\ s.list \in Cycle(n, p)
    BY <1>1, AroundFacts DEF Chain
  <2>2. s.next[s.list] \in Cycle(n, p)
    BY <2>1, RoundWalk
  <2> QED BY <1>3, <1>4, <2>1, <2>2, RoundWalk
<1>7. d = s.list \/ (d \in Elements(s, s.list) /\ d \in s.nodes)
  BY <1>1, <1>6, AroundFacts
<1>8. CASE d = s.list
  BY <1>5, <1>8, StaysSelf, WithinSelf
<1>9. CASE d # s.list
  <2>1. d \in Elements(s, s.list) /\ t = Count(freenode(Out(s, d), d), -1)
    BY <1>5, <1>7, <1>9
  <2> QED BY <2>1, FreedStays
<1> QED BY <1>8, <1>9

\* Only data changed.
LEMMA DataStays ==
    ASSUME NEW s, Sane(s), NEW F, Fenced(s, F), Good(s),
           NEW t, Within(F, s, t), t.next = s.next, t.prev = s.prev, t.count = s.count,
           t.nodes = s.nodes, t.fault = s.fault
    PROVE  Stays(s, t)
<1>1. PICK n, p : Chain(s, s.list, n, p)
  BY DEF Good
<1>2. Sane(t) /\ t.list = s.list
  BY DEF Within
<1>3. Chain(t, t.list, n, p)
  BY <1>1, <1>2 DEF Chain
<1> QED BY <1>1, <1>2, <1>3, StaysChain

\* The nodes in front of the one at j when the one at i is out.
Before(i, j) == IF j < i THEN j - 1 ELSE j - 2

\* The node at i goes before the one at j, where that is without it.
LEMMA MovePlace ==
    ASSUME NEW s, Sane(s), NEW F, Fenced(s, F), NEW n, NEW p, Chain(s, s.list, n, p),
           NEW i \in 1 .. n, NEW j0 \in 1 .. n, i # j0, NEW d, d = p[i], NEW e, e = p[j0],
           NEW k, k = Before(i, j0),
           NEW t, t = MoveBefore(s, d, e)
    PROVE  /\ Within(F, s, t) /\ Stays(s, t) /\ t.data = s.data
           /\ Chain(t, t.list, n, Put(Cut(p, n, i), n - 1, k, d))
<1>1. Chain(s, s.list, n, p)
  OBVIOUS
<1>2. PICK h : h = s.list
  OBVIOUS
<1>3. /\ n \in Nat /\ Inner(n, p) \subseteq s.nodes /\ s.count[h] = n
      /\ Cycle(n, p) \subseteq Used(s) /\ Cycle(n, p) \subseteq Places \ F
      /\ d \in Inner(n, p) /\ e \in Inner(n, p) /\ Inner(n, p) \subseteq Cycle(n, p)
  <2>1. d \in Inner(n, p) /\ e \in Inner(n, p)
    BY DEF Inner
  <2> QED BY <1>1, <1>2, <2>1, AroundFacts
<1>4. d = p[i]
  OBVIOUS
<1>5. PICK a : a = p[i - 1]
  OBVIOUS
<1>6. PICK b : b = p[i + 1]
  OBVIOUS
<1>7. Rounds(s.next, s.prev, h, n, p) /\ Forth(s.next, h, n, p)
  BY <1>1, <1>2 DEF Chain, Rounds
<1>8. i \in 0 .. n /\ i - 1 \in 0 .. n /\ i - 1 \in 0 .. n + 1 /\ i + 1 \in 0 .. n + 1 /\ (i - 1) + 1 = i
      /\ i \in 1 .. n + 1 /\ i + 1 \in 1 .. n + 1 /\ i # i + 1 /\ i # i - 1
  BY <1>3
<1>9. s.next[d] = b /\ s.prev[d] = a
  BY <1>4, <1>5, <1>6, <1>7, <1>8 DEF Rounds, Forth
<1>10. a \in Cycle(n, p) /\ b \in Cycle(n, p)
  BY <1>5, <1>6, <1>7, <1>8, CycleFacts
<1>11. a # d
  BY <1>4, <1>5, <1>7, <1>8 DEF Forth
<1>12. b # d
  BY <1>4, <1>6, <1>7, <1>8, CycleFacts
<1>13. PICK r : r = Out(s, d)
  OBVIOUS
<1>14. Within(F, s, r) /\ Closes(s, r, a, b)
  BY <1>3, <1>9, <1>10, <1>11, <1>12, <1>13, OutFacts
<1>15. PICK u : u = Cut(p, n, i)
  OBVIOUS
<1>16. r.next[a] = b /\ r.prev[b] = a /\ Rest(s, r) /\ r.fault = s.fault
  BY <1>14 DEF Closes
<1>17. ButTwo(r.next, s.next, a, d) /\ ButTwo(r.prev, s.prev, b, d)
  BY <1>14 DEF Closes, But, ButTwo
<1>18. Rounds(r.next, r.prev, h, n - 1, u) /\ Inner(n - 1, u) = Inner(n, p) \ {d}
  BY <1>4, <1>5, <1>6, <1>7, <1>15, <1>16, <1>17, CutRound
<1>19. PICK j \in 1 .. n - 1 : e = u[j] /\ k = j - 1
  <2>1. CASE j0 < i
    <3>1. j0 \in 1 .. n - 1 /\ j0 \in 0 .. n /\ u[j0] = p[j0]
      BY <1>3, <1>15, <2>1 DEF Cut
    <3> QED BY <2>1, <3>1 DEF Before
  <2>2. CASE ~(j0 < i)
    <3>1. j0 - 1 \in 1 .. n - 1 /\ j0 - 1 \in 0 .. n /\ ~(j0 - 1 < i) /\ j0 - 1 + 1 = j0
          /\ j0 - 1 - 1 = j0 - 2
      BY <1>3, <2>2
    <3>2. u[j0 - 1] = p[j0 - 1 + 1]
      BY <1>15, <3>1 DEF Cut
    <3> QED BY <2>2, <3>1, <3>2 DEF Before
  <2> QED BY <2>1, <2>2
<1>20. k \in 0 .. n - 1 /\ k = j - 1
  BY <1>3, <1>19
<1>21. k + 1 = j /\ n - 1 \in Nat /\ (n - 1) + 1 = n
  BY <1>3, <1>19, <1>20
<1>22. PICK c : c = u[k]
  OBVIOUS
<1>23. r.prev[e] = c /\ e = u[k + 1]
  BY <1>18, <1>19, <1>20, <1>21, <1>22 DEF Rounds
<1>24. /\ Cycle(n - 1, u) = Inner(n - 1, u) \cup {h}
       /\ \A l \in 0 .. n : u[l] \in Cycle(n - 1, u)
  BY <1>18, <1>21, CycleFacts DEF Rounds
<1>25. d # h /\ d \in Places /\ Cycle(n, p) = Inner(n, p) \cup {h}
  BY <1>1, <1>2, <1>3, AroundFacts
<1>26. d \notin Cycle(n - 1, u) /\ Cycle(n - 1, u) \subseteq Cycle(n, p)
  BY <1>18, <1>24, <1>25
<1>27. c \in Cycle(n - 1, u) /\ c # d /\ c \in Used(s)
  <2>1. k \in 0 .. n
    BY <1>20, <1>21
  <2> QED BY <1>3, <1>20, <1>22, <1>24, <1>26, <2>1
<1>28. {d, e, c} \subseteq Used(r)
  <2>1. Used(r) = Used(s)
    BY <1>16 DEF Rest, Used
  <2> QED BY <1>3, <1>27, <2>1
<1>29. Within(F, s, t) /\ Inserts(r, t, c, e, d)
  <2>1. d # e
    <3>1. i \in 0 .. n /\ j0 \in 0 .. n
      BY <1>3
    <3> QED BY <1>4, <1>7, <3>1 DEF Forth
  <2> QED BY <1>3, <1>13, <1>23, <1>27, <1>28, <2>1, MoveFacts
<1>30. PICK q : q = Put(u, n - 1, k, d)
  OBVIOUS
<1>31. /\ t.next[c] = d /\ t.next[d] = e /\ ButTwo(t.next, r.next, c, d)
       /\ t.prev[d] = c /\ t.prev[e] = d /\ ButTwo(t.prev, r.prev, e, d)
       /\ Rest(r, t) /\ t.fault = r.fault
  BY <1>29 DEF Inserts
<1>32. Rounds(t.next, t.prev, h, n, q) /\ Inner(n, q) = Inner(n - 1, u) \cup {d}
  BY <1>18, <1>20, <1>21, <1>22, <1>23, <1>25, <1>26, <1>30, <1>31, PutRound
<1>33. Inner(n, q) = Inner(n, p)
  BY <1>3, <1>18, <1>32
<1>34. t.nodes = s.nodes /\ t.count = s.count /\ t.fault = s.fault
  BY <1>16, <1>31 DEF Rest
<1>35. Chain(t, h, n, q)
  BY <1>3, <1>32, <1>33, <1>34 DEF Chain
<1>36. Sane(t) /\ t.list = h
  BY <1>2, <1>29 DEF Within
<1>37. Stays(s, t)
  BY <1>1, <1>2, <1>33, <1>34, <1>35, <1>36, StaysChain
<1>38. t.data = s.data
  BY <1>16, <1>31 DEF Rest
<1> QED BY <1>15, <1>29, <1>30, <1>35, <1>36, <1>37, <1>38

LEMMA MoveStays ==
    ASSUME NEW s, Sane(s), NEW F, Fenced(s, F), Good(s),
           NEW d \in Elements(s, s.list), NEW e \in Elements(s, s.list), d # e,
           NEW t, t = MoveBefore(s, d, e)
    PROVE  Within(F, s, t) /\ Stays(s, t)
<1>1. PICK n, p : Chain(s, s.list, n, p)
  BY DEF Good
<1>2. d \in Inner(n, p) /\ e \in Inner(n, p)
  BY <1>1, AroundFacts
<1>3. PICK i \in 1 .. n : d = p[i]
  BY <1>2 DEF Inner
<1>4. PICK j \in 1 .. n : e = p[j]
  BY <1>2 DEF Inner
<1>5. i # j
  BY <1>3, <1>4
<1>6. PICK k : k = Before(i, j)
  OBVIOUS
<1>7. i \in 1 .. n /\ j \in 1 .. n /\ i # j /\ d = p[i] /\ e = p[j] /\ k = Before(i, j)
  BY <1>3, <1>4, <1>5, <1>6
<1> QED BY ONLY Sane(s), Fenced(s, F), t = MoveBefore(s, d, e), <1>1, <1>7, MovePlace

\* t has the links and the nodes of s.
SameLinks(s, t) ==
    t.next = s.next /\ t.prev = s.prev /\ t.count = s.count /\ t.nodes = s.nodes /\ t.fault = s.fault

\* The data of j nodes at either end have changed places.
Mirror(n, j, i) == IF i <= j \/ i >= n + 1 - j THEN n + 1 - i ELSE i
HalfTurned(s, t, n, p, j) == \A i \in 1 .. n : t.data[p[i]] = s.data[p[Mirror(n, j, i)]]

\* After k turns the ends are k cells nearer, or they have met.
Turns(s, n, p, k, r) ==
    /\ SameLinks(s, r.t)
    /\ \E j \in 0 .. k :
        /\ r.first = p[j + 1] /\ r.last = p[n + 1 - j] /\ 2 * j <= n
        /\ j = k \/ Turned(r)
        /\ HalfTurned(s, r.t, n, p, j)

LEMMA TurnedOnce ==
    ASSUME NEW s, Sane(s), NEW n \in Nat, NEW p, Chain(s, s.list, n, p),
           NEW j \in Nat, 2 * j + 1 < n, NEW u \in Memories, HalfTurned(s, u, n, p, j),
           NEW a, a = p[j + 1], NEW b, b = p[n - j],
           NEW t, t = [u EXCEPT !.data[a] = u.data[b], !.data[b] = u.data[a]]
    PROVE  HalfTurned(s, t, n, p, j + 1)
<1>1. /\ \A i \in 0 .. n + 1 : p[i] \in Places
      /\ \A i \in 0 .. n : \A k \in 0 .. n : p[i] = p[k] => i = k
  BY DEF Chain, Rounds, Forth
<1>2. j + 1 \in 1 .. n /\ n - j \in 1 .. n /\ j + 1 # n - j
  OBVIOUS
<1>3. a \in Places /\ b \in Places /\ a # b
  BY <1>1, <1>2
<1>4. \A c \in Places : t.data[c] = IF c = b THEN u.data[a] ELSE IF c = a THEN u.data[b] ELSE u.data[c]
  <2>1. u.data \in [Places -> Values \cup {Lost}]
    BY DEF Memories
  <2>2. t.data = [u.data EXCEPT ![a] = u.data[b], ![b] = u.data[a]]
    BY DEF Memories
  <2> QED BY <1>3, <2>1, <2>2
<1>5. ASSUME NEW i \in 1 .. n PROVE t.data[p[i]] = s.data[p[Mirror(n, j + 1, i)]]
  <2>1. p[i] \in Places /\ i \in Nat
    BY <1>1
  <2>2. \A k \in 1 .. n : u.data[p[k]] = s.data[p[Mirror(n, j, k)]]
    BY DEF HalfTurned
  <2>3. CASE i = j + 1
    <3>1. t.data[p[i]] = u.data[p[n - j]]
      BY <1>3, <1>4, <2>1, <2>3
    <3>2. Mirror(n, j, n - j) = n - j /\ Mirror(n, j + 1, i) = n - j
      BY <2>3 DEF Mirror
    <3> QED BY <1>2, <2>2, <3>1, <3>2
  <2>4. CASE i = n - j
    <3>1. t.data[p[i]] = u.data[p[j + 1]]
      BY <1>3, <1>4, <2>1, <2>4
    <3>2. Mirror(n, j, j + 1) = j + 1 /\ Mirror(n, j + 1, i) = j + 1
      BY <2>4 DEF Mirror
    <3> QED BY <1>2, <2>2, <3>1, <3>2
  <2>5. CASE i # j + 1 /\ i # n - j
    <3>1. p[i] # a /\ p[i] # b
      BY <1>1, <1>2, <2>5
    <3>2. t.data[p[i]] = u.data[p[i]]
      BY <1>4, <2>1, <3>1
    <3>3. Mirror(n, j + 1, i) = Mirror(n, j, i)
      BY <2>1, <2>5 DEF Mirror
    <3> QED BY <2>2, <3>2, <3>3
  <2> QED BY <2>3, <2>4, <2>5
<1> QED BY <1>5 DEF HalfTurned

LEMMA TurnStepTurns ==
    ASSUME NEW s, Sane(s), NEW F, Fenced(s, F), s.fault = "no", NEW n, NEW p, Chain(s, s.list, n, p),
           NEW k \in Nat, NEW r \in Turning(F, s), Turns(s, n, p, k, r)
    PROVE  Turns(s, n, p, k + 1, TurnStep[r])
<1>1. /\ r \in [t : Memories, first : Places, last : Places]
      /\ Within(F, s, r.t) /\ r.first \in Places \ F /\ r.last \in Places \ F
  BY DEF Turning
<1>2. PICK u : u = r.t
  OBVIOUS
<1>3. PICK l : l = u.prev[r.last]
  OBVIOUS
<1>4. TurnStep[r] =
        IF Turned(r) \/ u.fault # "no" THEN r
        ELSE IF ~({r.first, l} \subseteq u.nodes)
        THEN [r EXCEPT !.t = Fails(u, IF {r.first, l} \subseteq Used(u) THEN "header" ELSE "freed")]
        ELSE [t |-> [u EXCEPT !.data[r.first] = u.data[l], !.data[l] = u.data[r.first]],
              first |-> u.next[r.first], last |-> l]
  BY <1>1, <1>2, <1>3 DEF TurnStep
<1>5. PICK j \in 0 .. k : /\ r.first = p[j + 1] /\ r.last = p[n + 1 - j] /\ 2 * j <= n
                          /\ j = k \/ Turned(r)
                          /\ HalfTurned(s, u, n, p, j)
  BY <1>2 DEF Turns
<1>6. SameLinks(s, u)
  BY <1>2 DEF Turns
<1>7. CASE Turned(r)
  <2>1. TurnStep[r] = r
    BY <1>4, <1>7
  <2>2. j \in 0 .. k + 1
    OBVIOUS
  <2> QED BY <1>2, <1>5, <1>6, <1>7, <2>1, <2>2 DEF Turns
<1>8. CASE ~Turned(r)
  <2>1. j = k /\ j \in Nat
    BY <1>5, <1>8
  <2>2. /\ n \in Nat /\ Inner(n, p) \subseteq s.nodes
        /\ \A i \in 0 .. n : s.next[p[i]] = p[i + 1] /\ s.prev[p[i + 1]] = p[i]
    BY DEF Chain, Rounds, Forth
  <2>3. n - j \in 0 .. n /\ (n - j) + 1 = n + 1 - j
    BY <1>5, <2>1, <2>2
  <2>4. l = p[n - j]
    BY <1>3, <1>5, <1>6, <2>2, <2>3 DEF SameLinks
  <2>5. n # 2 * j
    <3>1. SUFFICES ASSUME n = 2 * j PROVE FALSE
      OBVIOUS
    <3>2. n + 1 - j = j + 1
      BY <2>1, <3>1
    <3>3. r.first = r.last
      BY <1>5, <3>2
    <3> QED BY <1>8, <3>3 DEF Turned
  <2>6. n # 2 * j + 1
    <3>1. SUFFICES ASSUME n = 2 * j + 1 PROVE FALSE
      OBVIOUS
    <3>2. n - j = j + 1
      BY <2>1, <3>1
    <3>3. r.first = u.prev[r.last]
      BY <1>3, <1>5, <2>4, <3>2
    <3> QED BY <1>2, <1>8, <3>3 DEF Turned
  <2>7. /\ 2 * (j + 1) <= n /\ j + 1 \in 1 .. n /\ j + 1 \in 0 .. n /\ n - j \in 1 .. n
        /\ n + 1 - (j + 1) = n - j /\ j + 1 \in 0 .. k + 1
    BY <1>5, <2>1, <2>2, <2>5, <2>6
  <2>8. r.first \in u.nodes /\ l \in u.nodes /\ u.next[r.first] = p[j + 2]
    <3>1. p[j + 1] \in Inner(n, p) /\ p[n - j] \in Inner(n, p)
      BY <2>7 DEF Inner
    <3>2. (j + 1) + 1 = j + 2
      BY <2>1
    <3>3. s.next[p[j + 1]] = p[(j + 1) + 1]
      BY <2>2, <2>7
    <3> QED BY <1>5, <1>6, <2>2, <2>4, <3>1, <3>2, <3>3 DEF SameLinks
  <2>9. PICK t : t = [u EXCEPT !.data[r.first] = u.data[l], !.data[l] = u.data[r.first]]
    OBVIOUS
  <2>10. TurnStep[r] = [t |-> t, first |-> p[j + 2], last |-> l]
    <3>1. u.fault = "no"
      BY <1>6 DEF SameLinks
    <3> QED BY <1>4, <1>8, <2>8, <2>9, <3>1
  <2>11. SameLinks(s, t)
    <3>1. u \in Memories
      BY <1>1, <1>2
    <3> QED BY <1>6, <2>9, <3>1 DEF SameLinks, Memories
  <2>12. HalfTurned(s, t, n, p, j + 1)
    <3>1. u \in Memories /\ 2 * j + 1 < n
      BY <1>1, <1>2, <2>1, <2>2, <2>5, <2>6, <1>5
    <3>2. r.first = p[j + 1] /\ l = p[n - j] /\ HalfTurned(s, u, n, p, j)
      BY <1>5, <2>4
    <3> QED BY <2>1, <2>2, <2>9, <3>1, <3>2, TurnedOnce
  <2>13. PICK q : q = TurnStep[r]
    OBVIOUS
  <2>14. PICK i \in 0 .. k + 1 : i = j + 1
    BY <2>7
  <2>15. q.t = t /\ q.first = p[i + 1] /\ q.last = p[n + 1 - i] /\ 2 * i <= n /\ i = k + 1
         /\ HalfTurned(s, q.t, n, p, i)
    <3>1. i + 1 = j + 2 /\ n + 1 - i = n - j
      BY <2>1, <2>2, <2>14
    <3> QED BY <2>1, <2>4, <2>7, <2>10, <2>12, <2>13, <2>14, <3>1
  <2> QED BY <2>11, <2>13, <2>15 DEF Turns
<1> QED BY <1>7, <1>8

\* The data are in the other order, and the links as they were.
LEMMA TurnFacts ==
    ASSUME NEW s, Sane(s), NEW F, Fenced(s, F), NEW n, NEW p, Chain(s, s.list, n, p), s.fault = "no",
           NEW t, t = Turn(s)
    PROVE  /\ Within(F, s, t) /\ SameLinks(s, t)
           /\ \E j : HalfTurned(s, t, n, p, j) /\ j \in Nat /\ 2 * j <= n /\ n <= 2 * j + 1
<1>1. PICK x : x = [t |-> s, first |-> s.next[s.list], last |-> s.list]
  OBVIOUS
<1>2. x \in Turning(F, s)
  BY <1>1, ListOutside, WithinSelf DEF Turning, Sane
<1>3. \A k \in Nat : Iterate(TurnStep, x, k) \in Turning(F, s)
  BY <1>2, TurnStepWithin, IterateKeeps
<1> DEFINE T == {k \in Nat : Turns(s, n, p, k, Iterate(TurnStep, x, k))}
<1>4. 0 \in T
  <2>1. Iterate(TurnStep, x, 0) = x
    BY IterateSteps
  <2>2. n \in Nat /\ 0 \in 0 .. n /\ 0 + 1 = 1 /\ n + 1 - 0 = n + 1 /\ 2 * 0 <= n /\ 0 \in 0 .. 0
    BY DEF Chain, Rounds, Forth
  <2>3. s.next[s.list] = p[0 + 1] /\ s.list = p[n + 1 - 0]
    BY <2>2 DEF Chain, Rounds, Forth
  <2>4. SameLinks(s, s)
    BY DEF SameLinks
  <2>5. x.t = s /\ x.first = p[0 + 1] /\ x.last = p[n + 1 - 0]
    BY <1>1, <2>3
  <2>6. HalfTurned(s, s, n, p, 0)
    <3>1. \A i \in 1 .. n : Mirror(n, 0, i) = i
      BY <2>2 DEF Mirror
    <3> QED BY <3>1 DEF HalfTurned
  <2>7. Turns(s, n, p, 0, x)
    BY <2>2, <2>4, <2>5, <2>6 DEF Turns
  <2> QED BY <2>1, <2>7
<1>5. ASSUME NEW k \in Nat, Turns(s, n, p, k, Iterate(TurnStep, x, k))
      PROVE  Turns(s, n, p, k + 1, Iterate(TurnStep, x, k + 1))
  <2>1. Iterate(TurnStep, x, k + 1) = TurnStep[Iterate(TurnStep, x, k)]
    BY IterateSteps
  <2> QED BY <1>3, <1>5, <2>1, TurnStepTurns
<1>6. \A k \in Nat : k \in T => k + 1 \in T
  BY <1>5
<1>7. \A k \in Nat : k \in T
  <2> HIDE DEF T
  <2> QED BY <1>4, <1>6, NatSet
<1>8. PICK r : r = Iterate(TurnStep, x, N)
  OBVIOUS
<1>9. Turns(s, n, p, N, r)
  BY <1>7, <1>8, PlaceFacts
<1>10. Turned(r) /\ \E j : HalfTurned(s, r.t, n, p, j) /\ j \in Nat /\ 2 * j <= n /\ n <= 2 * j + 1
  <2>1. n <= N /\ n \in Nat /\ N \in Nat \ {0}
    BY AroundFacts, RingAssumptions
  <2>2. PICK j \in 0 .. N : /\ r.first = p[j + 1] /\ r.last = p[n + 1 - j] /\ 2 * j <= n
                            /\ j = N \/ Turned(r)
                            /\ HalfTurned(s, r.t, n, p, j)
    BY <1>9 DEF Turns
  <2>3. Turned(r) /\ j \in Nat
    BY <2>1, <2>2
  <2>4. n <= 2 * j + 1
    <3>1. SUFFICES ASSUME n > 2 * j + 1 PROVE FALSE
      BY <2>1, <2>3
    <3>2. j + 1 \in 0 .. n /\ n - j \in 0 .. n /\ n + 1 - j \in 1 .. n + 1 /\ (n - j) + 1 = n + 1 - j
          /\ j + 1 \in 1 .. n + 1 /\ j + 1 # n - j /\ j + 1 # n + 1 - j
      BY <2>1, <2>3, <3>1
    <3>3. /\ Forth(s.next, s.list, n, p) /\ \A i \in 0 .. n : s.prev[p[i + 1]] = p[i]
          /\ \A i \in 0 .. n : \A k \in 0 .. n : p[i] = p[k] => i = k
      BY DEF Chain, Rounds, Forth
    <3>4. p[j + 1] # p[n - j]
      BY <3>2, <3>3
    <3>5. p[j + 1] # p[n + 1 - j]
      BY <3>2, <3>3, CycleFacts
    <3>6. r.t.prev[r.last] = p[n - j]
      <4>1. r.t.prev = s.prev
        BY <1>9 DEF Turns, SameLinks
      <4> QED BY <2>2, <3>2, <3>3, <4>1
    <3> QED BY <2>2, <2>3, <3>4, <3>5, <3>6 DEF Turned
  <2> QED BY <2>2, <2>3, <2>4
<1>11. t = r.t
  BY <1>1, <1>8, <1>10 DEF Turn
<1>12. Within(F, s, t) /\ SameLinks(s, t)
  BY <1>3, <1>8, <1>9, <1>11, PlaceFacts DEF Turning, Turns
<1> QED BY <1>10, <1>11, <1>12

LEMMA TurnStays ==
    ASSUME NEW s, Sane(s), NEW F, Fenced(s, F), Good(s), s.fault = "no", NEW t, t = Turn(s)
    PROVE  Within(F, s, t) /\ Stays(s, t)
<1>1. PICK n, p : Chain(s, s.list, n, p)
  BY DEF Good
<1>2. Within(F, s, t) /\ SameLinks(s, t)
  BY <1>1, TurnFacts
<1> QED BY <1>2, DataStays DEF SameLinks
---------------------------------------------------------------------------
(* A new block, and the copy of one.                                       *)

\* Everything that was there is behind the fence, and nothing of it changed.
Apart(s, t) ==
    /\ Sane(t) /\ Fenced(t, Used(s)) /\ Same(Used(s), s, t)
    /\ t.fault = s.fault /\ t.list \notin Used(s) /\ t.list \in Cells

LEMMA HeaderFacts ==
    ASSUME NEW s, Sane(s), Free(s) # {}, NEW t, t = NewHeader(s), NEW h, h = New(s)
    PROVE  /\ Apart(s, t)
           /\ t.list = h /\ t.nodes = s.nodes /\ t.heads = s.heads \cup {h}
           /\ t.next[h] = h /\ t.prev[h] = h /\ t.count[h] = 0
<1>1. /\ h \in Free(s) /\ h \in Cells /\ h \in Places
      /\ h \notin Used(s) /\ h \notin s.nodes /\ h \notin s.heads
      /\ h # Null /\ h # Lost
  BY NewFacts
<1>2. s \in Memories
  BY DEF Sane
<1>3. t = [s EXCEPT !.heads = s.heads \cup {h}, !.count = [s.count EXCEPT ![h] = 0], !.list = h,
                    !.next = [s.next EXCEPT ![h] = h], !.prev = [s.prev EXCEPT ![h] = h]]
  BY <1>2 DEF NewHeader, Memories
<1>4. /\ t.heads = s.heads \cup {h} /\ t.count = [s.count EXCEPT ![h] = 0] /\ t.list = h
      /\ t.next = [s.next EXCEPT ![h] = h] /\ t.prev = [s.prev EXCEPT ![h] = h]
      /\ t.nodes = s.nodes /\ t.data = s.data /\ t.other = s.other /\ t.fault = s.fault
  BY <1>2, <1>3 DEF Memories
<1>5. t \in Memories
  <2>1. /\ t.heads \in SUBSET (Cells \cup {Null}) /\ t.count \in [Places -> Int] /\ t.list \in Places
        /\ t.next \in [Places -> Places] /\ t.prev \in [Places -> Places]
    BY <1>1, <1>2, <1>4 DEF Memories
  <2> QED BY <1>2, <1>3, <2>1 DEF Memories
<1>6. /\ t.next[h] = h /\ t.prev[h] = h /\ t.count[h] = 0
      /\ But(t.next, s.next, h) /\ But(t.prev, s.prev, h) /\ But(t.count, s.count, h)
  BY <1>1, <1>2, <1>4 DEF Memories, But
<1>7. Used(t) = Used(s) \cup {h}
  BY <1>4 DEF Used
<1>8. Sane(t)
  <2>1. /\ Null \in t.heads /\ t.nodes \cap t.heads = {} /\ {t.list, t.other} \subseteq t.heads
    BY <1>1, <1>4 DEF Sane
  <2>2. \A c \in Places \ Used(t) : t.next[c] = Lost /\ t.prev[c] = Lost
    BY <1>6, <1>7 DEF Sane, But
  <2>3. \A c \in Places \ {Null} : t.next[c] # Null /\ t.prev[c] # Null
    BY <1>1, <1>6 DEF Sane, But
  <2> QED BY <1>5, <2>1, <2>2, <2>3 DEF Sane
<1>9. Used(s) \subseteq Places /\ Lost \notin Used(s)
  BY UsedFacts
<1>10. Fenced(t, Used(s))
  <2>1. /\ Used(s) \subseteq Used(t) /\ Null \in Used(s) /\ t.heads \ {t.list} \subseteq Used(s)
        /\ t.list \notin Used(s)
    BY <1>1, <1>4, <1>7 DEF Used, Sane
  <2>2. \A c \in Places \ Used(s) : t.next[c] \notin Used(s) /\ t.prev[c] \notin Used(s)
    BY <1>1, <1>6, <1>9 DEF Sane, But
  <2> QED BY <2>1, <2>2 DEF Fenced
<1>11. Same(Used(s), s, t)
  BY <1>1, <1>4, <1>6, <1>9 DEF Same, But
<1> QED BY <1>1, <1>4, <1>6, <1>8, <1>10, <1>11 DEF Apart

LEMMA ApartThen ==
    ASSUME NEW s, NEW r, NEW t, Apart(s, r), Within(Used(s), r, t), t.fault = r.fault
    PROVE  Apart(s, t)
BY DEF Apart, Within, Same

LEMMA HeaderGood ==
    ASSUME NEW s, Sane(s), Free(s) # {}, NEW t, t = NewHeader(s)
    PROVE  Apart(s, t) /\ Good(t) /\ Elements(t, t.list) = {} /\ t.nodes = s.nodes
<1>1. PICK h : h = New(s)
  OBVIOUS
<1>2. /\ Apart(s, t) /\ h \in Places
      /\ t.list = h /\ t.nodes = s.nodes
      /\ t.next[h] = h /\ t.prev[h] = h /\ t.count[h] = 0
  BY <1>1, HeaderFacts, NewFacts
<1>3. PICK p : p = [i \in 0 .. 0 + 1 |-> h]
  OBVIOUS
<1>4. Chain(t, t.list, 0, p)
  <2>1. p[0] = h /\ p[0 + 1] = h /\ 0 \in Nat /\ 0 .. 0 = {0} /\ p \in [0 .. 0 + 1 -> Places]
    BY <1>2, <1>3
  <2>2. Inner(0, p) = {}
    BY DEF Inner
  <2>3. Rounds(t.next, t.prev, h, 0, p)
    BY <1>2, <2>1 DEF Rounds, Forth
  <2> QED BY <1>2, <2>2, <2>3 DEF Chain
<1>5. Elements(t, t.list) = {}
  <2>1. Inner(0, p) = {}
    BY DEF Inner
  <2> QED BY <1>2, <1>4, <2>1, ChainRing DEF Apart
<1> QED BY <1>2, <1>4, <1>5 DEF Good

\* q goes from the header h over k cells, linked both ways.
Trail(t, h, k, q) ==
    /\ q \in [0 .. k -> Places] /\ q[0] = h
    /\ \A i \in 0 .. k : \A j \in 0 .. k : q[i] = q[j] => i = j
    /\ \A i \in 0 .. k - 1 : t.next[q[i]] = q[i + 1] /\ t.prev[q[i + 1]] = q[i]

\* k nodes of the ring p of s are copied to the cells q of t, which are all
\* that is new.
Copies(s, p, t, k, q) ==
    /\ Trail(t, t.list, k, q)
    /\ Inner(k, q) = t.nodes \ s.nodes
    /\ \A i \in 1 .. k : t.data[q[i]] = s.data[p[i]]
    /\ Cardinality(Free(s)) <= Cardinality(Free(t)) + k + 1

\* The state of the loop after k turns.
InCopy(s, p, k, r) ==
    /\ r \in [t : Memories, last : Places, from : Places]
    /\ Apart(s, r.t) /\ r.from = p[k + 1]
    /\ \E q : Copies(s, p, r.t, k, q) /\ r.last = q[k]

LEMMA CopyStart ==
    ASSUME NEW s, Sane(s), Free(s) # {}, NEW n, NEW p, Forth(s.next, s.list, n, p),
           NEW t, t = NewHeader(s), NEW r, r = [t |-> t, last |-> t.list, from |-> s.next[s.list]]
    PROVE  InCopy(s, p, 0, r)
<1>1. PICK h : h = New(s)
  OBVIOUS
<1>2. /\ Apart(s, t) /\ t.list = h /\ t.nodes = s.nodes /\ t.heads = s.heads \cup {h}
      /\ h \in Free(s) /\ h \in Places
  BY <1>1, HeaderFacts, NewFacts
<1>3. PICK q : q = [i \in 0 .. 0 |-> h]
  OBVIOUS
<1>4. Trail(t, t.list, 0, q) /\ q[0] = h
  <2>1. q \in [0 .. 0 -> Places] /\ q[0] = h /\ 0 .. 0 = {0} /\ 0 .. 0 - 1 = {}
    BY <1>2, <1>3
  <2> QED BY <1>2, <2>1 DEF Trail
<1>5. Inner(0, q) = {} /\ 1 .. 0 = {}
  BY DEF Inner
<1>6. Cardinality(Free(s)) <= Cardinality(Free(t)) + 0 + 1
  <2>1. Free(t) = Free(s) \ {h}
    BY <1>2 DEF Free, Used
  <2>2. IsFiniteSet(Free(s)) /\ Cardinality(Free(s)) \in Nat
    BY UsedFacts, CellsFinite
  <2>3. Cardinality(Free(t)) = Cardinality(Free(s)) - 1
    BY <1>2, <2>1, <2>2, FS_RemoveElement
  <2> QED BY <2>2, <2>3
<1>7. Copies(s, p, t, 0, q)
  BY <1>2, <1>4, <1>5, <1>6 DEF Copies
<1>8. s.next[s.list] = p[0 + 1] /\ p[0 + 1] \in Places
  <2>1. 0 \in 0 .. n /\ 0 + 1 \in 0 .. n + 1 /\ 0 + 1 = 1
    BY DEF Forth
  <2> QED BY <2>1 DEF Forth
<1>9. t \in Memories
  BY <1>2 DEF Apart, Sane
<1> QED BY <1>2, <1>4, <1>7, <1>8, <1>9 DEF InCopy

LEMMA CopyTurn ==
    ASSUME NEW s, Sane(s), NEW n, NEW p, Forth(s.next, s.list, n, p), Inner(n, p) \subseteq s.nodes,
           n + 1 <= Cardinality(Free(s)),
           NEW k \in Nat, k < n, NEW r, InCopy(s, p, k, r),
           NEW link, link = s.next, NEW end, end = s.list
    PROVE  InCopy(s, p, k + 1, CopyStep(link, end)[r])
<1>1. /\ r \in [t : Memories, last : Places, from : Places]
      /\ Apart(s, r.t) /\ r.from = p[k + 1]
  BY DEF InCopy
<1>2. PICK q : Copies(s, p, r.t, k, q) /\ r.last = q[k]
  BY DEF InCopy
<1>3. PICK u : u = r.t
  OBVIOUS
<1>4. PICK F : F = Used(s)
  OBVIOUS
<1>5. PICK a : a = r.last
  OBVIOUS
<1>6. PICK c : c = New(u)
  OBVIOUS
<1>7. PICK v : v = u.data[r.from]
  OBVIOUS
<1>8. PICK t0 : t0 = newnode(u, v)
  OBVIOUS
<1>9. PICK t1 : t1 = SetNext(t0, a, c)
  OBVIOUS
<1>10. PICK t2 : t2 = SetPrev(t1, c, a)
  OBVIOUS
<1>11. n \in Nat /\ k + 1 \in 1 .. n /\ k + 1 \in 0 .. n /\ 0 \in 0 .. n /\ (k + 1) + 1 \in 0 .. n + 1
  BY DEF Forth
<1>12. r.from \in Inner(n, p) /\ r.from # end /\ link[r.from] = p[(k + 1) + 1] /\ p[(k + 1) + 1] \in Places
  <2>1. r.from \in Inner(n, p)
    BY <1>1, <1>11 DEF Inner
  <2>2. r.from # end
    BY <1>1, <1>11 DEF Forth
  <2>3. link[p[k + 1]] = p[(k + 1) + 1]
    BY <1>11 DEF Forth
  <2> QED BY <1>1, <1>11, <2>1, <2>2, <2>3 DEF Forth
<1>13. PICK r2 : r2 = CopyStep(link, end)[r]
  OBVIOUS
<1>14. r2 = [t |-> t2, last |-> c, from |-> link[r.from]]
  BY <1>1, <1>3, <1>5, <1>6, <1>7, <1>8, <1>9, <1>10, <1>12, <1>13 DEF CopyStep
<1>15. Sane(u) /\ Fenced(u, F) /\ Same(F, s, u) /\ u \in Memories
  BY <1>1, <1>3, <1>4 DEF Apart
<1>16. /\ Trail(u, u.list, k, q) /\ Inner(k, q) = u.nodes \ s.nodes
       /\ \A i \in 1 .. k : u.data[q[i]] = s.data[p[i]]
       /\ Cardinality(Free(s)) <= Cardinality(Free(u)) + k + 1
  BY <1>2, <1>3 DEF Copies
<1>17. IsFiniteSet(Free(u)) /\ Cardinality(Free(u)) \in Nat /\ IsFiniteSet(Free(s)) /\ Cardinality(Free(s)) \in Nat
  BY <1>15, UsedFacts, CellsFinite
<1>18. Free(u) # {}
  <2>1. Cardinality(Free(u)) # 0
    BY <1>11, <1>16, <1>17
  <2> QED BY <1>17, <2>1, FS_EmptySet
<1>19. v \in Values \cup {Lost} /\ v = s.data[r.from]
  <2>1. v \in Values \cup {Lost}
    BY <1>1, <1>7, <1>15 DEF Memories
  <2>2. r.from \in F
    BY <1>4, <1>12 DEF Used
  <2> QED BY <1>7, <1>15, <2>1, <2>2 DEF Same
<1>20. Within(F, u, t0) /\ c \in Places \ F /\ c \in Used(t0)
  BY <1>6, <1>8, <1>15, <1>18, <1>19, WithinSelf, WithinNew
<1>21. c \in Cells /\ c \in Places /\ c \notin Used(u) /\ c \in Free(u)
  BY <1>6, <1>15, <1>18, NewFacts
<1>22. /\ t0.next = u.next /\ t0.prev = u.prev /\ t0.heads = u.heads /\ t0.list = u.list
       /\ t0.fault = u.fault
       /\ t0.nodes = u.nodes \cup {c} /\ t0.data[c] = v /\ But(t0.data, u.data, c) /\ t0 \in Memories
  BY <1>6, <1>8, <1>15, <1>18, <1>19, NewNodeFields
<1>23. \A i \in 0 .. k : q[i] \in Used(u) \ F
  <2>1. q[0] \in Used(u) \ F
    BY <1>15, <1>16, ListOutside DEF Trail
  <2>2. ASSUME NEW i \in 1 .. k PROVE q[i] \in Used(u) \ F
    <3>1. q[i] \in u.nodes \ s.nodes
      BY <1>16 DEF Inner
    <3>2. q[i] \notin s.heads
      <4>1. s.heads \subseteq u.heads
        BY <1>4, <1>15 DEF Same, Used
      <4> QED BY <1>15, <3>1, <4>1 DEF Sane
    <3> QED BY <1>4, <3>1, <3>2 DEF Used
  <2>3. \A i \in 0 .. k : i = 0 \/ i \in 1 .. k
    OBVIOUS
  <2> QED BY <2>1, <2>2, <2>3
<1>24. a = q[k] /\ a \in Used(u) \ F /\ a \in Places /\ a # c /\ k \in 0 .. k
  BY <1>1, <1>2, <1>5, <1>21, <1>23
<1>25. Within(F, u, t1)
  BY <1>9, <1>20, <1>24, WithinNext
<1>26. Within(F, u, t2)
  BY <1>10, <1>20, <1>24, <1>25, WithinPrev
<1>27. t1 \in Memories /\ t2 \in Memories
  BY <1>25, <1>26 DEF Within, Sane
<1>28. Used(t0) = Used(u) \cup {c}
  BY <1>22 DEF Used
<1>29. NextIs(t0, t1, a, c)
  BY <1>9, <1>21, <1>22, <1>24, <1>28, NextSet
<1>30. PrevIs(t1, t2, c, a)
  <2>1. c \in Used(t1)
    BY <1>20, <1>29 DEF NextIs, Relinks
  <2> QED BY <1>10, <1>21, <1>24, <1>27, <2>1, PrevSet
<1>31. Relinks(t0, t2)
  BY <1>29, <1>30, RelinksThen DEF NextIs, PrevIs
<1>32. /\ t2.nodes = u.nodes \cup {c} /\ t2.list = u.list /\ t2.fault = u.fault
       /\ t2.data[c] = v /\ But(t2.data, u.data, c) /\ Used(t2) = Used(u) \cup {c}
  BY <1>22, <1>28, <1>31 DEF Relinks, Rest
<1>33. /\ t2.next[a] = c /\ But(t2.next, u.next, a)
       /\ t2.prev[c] = a /\ But(t2.prev, u.prev, c)
  BY <1>22, <1>29, <1>30 DEF NextIs, PrevIs
<1>34. Apart(s, t2)
  BY <1>1, <1>3, <1>4, <1>26, <1>32, ApartThen
<1>35. PICK q2 : q2 = [i \in 0 .. k + 1 |-> IF i = k + 1 THEN c ELSE q[i]]
  OBVIOUS
<1>36. q2[k + 1] = c /\ \A i \in 0 .. k : q2[i] = q[i]
  BY <1>35
<1>37. Trail(t2, t2.list, k + 1, q2)
  <2>1. q2 \in [0 .. k + 1 -> Places]
    BY <1>16, <1>21, <1>35 DEF Trail
  <2>2. q2[0] = t2.list
    <3>1. 0 \in 0 .. k
      OBVIOUS
    <3> QED BY <1>16, <1>32, <1>36, <3>1 DEF Trail
  <2>3. ASSUME NEW i \in 0 .. k + 1, NEW j \in 0 .. k + 1, q2[i] = q2[j] PROVE i = j
    <3>1. (i = k + 1 \/ i \in 0 .. k) /\ (j = k + 1 \/ j \in 0 .. k)
      OBVIOUS
    <3>2. \A l \in 0 .. k : q[l] # c
      BY <1>21, <1>23
    <3>3. CASE i \in 0 .. k /\ j \in 0 .. k
      BY <1>16, <1>36, <2>3, <3>3 DEF Trail
    <3> QED BY <1>36, <2>3, <3>1, <3>2, <3>3
  <2>4. ASSUME NEW i \in 0 .. (k + 1) - 1 PROVE t2.next[q2[i]] = q2[i + 1] /\ t2.prev[q2[i + 1]] = q2[i]
    <3>1. CASE i = k
      BY <1>24, <1>33, <1>36, <3>1
    <3>2. CASE i # k
      <4>1. i \in 0 .. k - 1 /\ i \in 0 .. k /\ i + 1 \in 0 .. k /\ k \in 0 .. k
        BY <3>2
      <4>2. u.next[q[i]] = q[i + 1] /\ u.prev[q[i + 1]] = q[i]
        BY <1>16, <4>1 DEF Trail
      <4>3. q[i] # a /\ q[i + 1] # c /\ q[i] \in Places /\ q[i + 1] \in Places
        BY <1>16, <1>21, <1>23, <1>24, <3>2, <4>1 DEF Trail
      <4>4. t2.next[q[i]] = u.next[q[i]] /\ t2.prev[q[i + 1]] = u.prev[q[i + 1]]
        BY <1>33, <4>3 DEF But
      <4>5. q2[i] = q[i] /\ q2[i + 1] = q[i + 1]
        BY <1>36, <4>1
      <4> QED BY <4>2, <4>4, <4>5
    <3> QED BY <3>1, <3>2
  <2> QED BY <2>1, <2>2, <2>3, <2>4 DEF Trail
<1>38. Inner(k + 1, q2) = t2.nodes \ s.nodes
  <2>1. Inner(k + 1, q2) = Inner(k, q) \cup {c}
    <3>1. ASSUME NEW i \in 1 .. k + 1 PROVE q2[i] \in Inner(k, q) \cup {c}
      <4>1. i = k + 1 \/ (i \in 0 .. k /\ i \in 1 .. k)
        OBVIOUS
      <4> QED BY <1>36, <4>1 DEF Inner
    <3>2. ASSUME NEW i \in 1 .. k PROVE q[i] \in Inner(k + 1, q2)
      <4>1. i \in 0 .. k /\ i \in 1 .. k + 1
        OBVIOUS
      <4>2. q2[i] = q[i]
        BY <1>36, <4>1
      <4> QED BY <4>1, <4>2 DEF Inner
    <3>3. c \in Inner(k + 1, q2)
      <4>1. k + 1 \in 1 .. k + 1
        OBVIOUS
      <4> QED BY <1>36, <4>1 DEF Inner
    <3> QED BY <3>1, <3>2, <3>3 DEF Inner
  <2>2. c \notin s.nodes
    BY <1>4, <1>20 DEF Used
  <2> QED BY <1>16, <1>32, <2>1, <2>2
<1>39. ASSUME NEW i \in 1 .. k + 1 PROVE t2.data[q2[i]] = s.data[p[i]]
  <2>1. CASE i = k + 1
    BY <1>1, <1>19, <1>32, <1>36, <2>1
  <2>2. CASE i # k + 1
    <3>1. i \in 1 .. k /\ i \in 0 .. k
      BY <2>2
    <3>2. q[i] # c /\ q[i] \in Places
      BY <1>16, <1>21, <1>23, <3>1 DEF Trail
    <3> QED BY <1>16, <1>32, <1>36, <3>1, <3>2 DEF But
  <2> QED BY <2>1, <2>2
<1>40. Cardinality(Free(s)) <= Cardinality(Free(t2)) + (k + 1) + 1
  <2>1. Free(t2) = Free(u) \ {c}
    BY <1>32 DEF Free
  <2>2. Cardinality(Free(t2)) = Cardinality(Free(u)) - 1
    BY ONLY <1>17, <1>21, <2>1, FS_RemoveElement
  <2> QED BY <1>16, <1>17, <2>2
<1>41. Copies(s, p, t2, k + 1, q2)
  BY <1>37, <1>38, <1>39, <1>40 DEF Copies
<1>42. r2 \in [t : Memories, last : Places, from : Places]
  BY <1>12, <1>14, <1>21, <1>27
<1>43. r2.t = t2 /\ r2.last = q2[k + 1] /\ r2.from = p[(k + 1) + 1]
  BY <1>12, <1>14, <1>36
<1> QED BY <1>13, <1>34, <1>41, <1>42, <1>43 DEF InCopy

LEMMA CopyLoop ==
    ASSUME NEW s, Sane(s), NEW n, NEW p, Forth(s.next, s.list, n, p), Inner(n, p) \subseteq s.nodes,
           n + 1 <= Cardinality(Free(s)), Free(s) # {}
    PROVE  InCopy(s, p, n, Copying(s, s.next))
<1>1. PICK x : x = [t |-> NewHeader(s), last |-> NewHeader(s).list, from |-> s.next[s.list]]
  OBVIOUS
<1>2. PICK f : f = CopyStep(s.next, s.list)
  OBVIOUS
<1>3. Copying(s, s.next) = Iterate(f, x, N)
  BY <1>1, <1>2 DEF Copying
<1> DEFINE T == {k \in Nat : k <= n => InCopy(s, p, k, Iterate(f, x, k))}
<1>4. 0 \in T
  <2>1. Iterate(f, x, 0) = x
    BY IterateSteps
  <2>2. InCopy(s, p, 0, x)
    BY <1>1, CopyStart
  <2> QED BY <2>1, <2>2
<1>5. ASSUME NEW k \in Nat, k <= n => InCopy(s, p, k, Iterate(f, x, k)), k + 1 <= n
      PROVE  InCopy(s, p, k + 1, Iterate(f, x, k + 1))
  <2>1. Iterate(f, x, k + 1) = f[Iterate(f, x, k)]
    BY IterateSteps
  <2>2. n \in Nat
    BY DEF Forth
  <2>3. k < n /\ k <= n
    BY <1>5, <2>2
  <2>4. InCopy(s, p, k + 1, CopyStep(s.next, s.list)[Iterate(f, x, k)])
    BY <1>5, <2>3, CopyTurn
  <2> QED BY <1>2, <2>1, <2>4
<1>6. \A k \in Nat : k \in T => k + 1 \in T
  BY <1>5
<1>7. \A k \in Nat : k \in T
  <2> HIDE DEF T
  <2> QED BY <1>4, <1>6, NatSet
<1>8. n \in Nat /\ n <= N /\ N \in Nat
  <2>1. n <= N
    BY UsedFacts, CellsFinite, ForthLength
  <2> QED BY <2>1, PlaceFacts DEF Forth
<1>9. InCopy(s, p, n, Iterate(f, x, n))
  BY <1>7, <1>8
<1>10. f[Iterate(f, x, n)] = Iterate(f, x, n)
  <2>1. PICK r : r = Iterate(f, x, n)
    OBVIOUS
  <2>2. r \in [t : Memories, last : Places, from : Places] /\ r.from = p[n + 1]
    BY <1>9, <2>1 DEF InCopy
  <2>3. r.from = s.list
    BY <2>2 DEF Forth
  <2>4. f[r] = r
    BY <1>2, <2>2, <2>3 DEF CopyStep
  <2> QED BY <2>1, <2>4
<1>11. Iterate(f, x, N) = Iterate(f, x, n)
  BY <1>8, <1>10, IterateStops
<1> QED BY <1>3, <1>9, <1>11

\* t is a copy of the ring p of s, in new cells q.
IsCopy(s, t, n, p, q) ==
    /\ Apart(s, t)
    /\ Forth(s.next, s.list, n, p) /\ Inner(n, p) \subseteq s.nodes
    /\ Rounds(t.next, t.prev, t.list, n, q)
    /\ Inner(n, q) = t.nodes \ s.nodes
    /\ t.count[t.list] = s.count[s.list]
    /\ \A i \in 1 .. n : t.data[q[i]] = s.data[p[i]]
    /\ Cardinality(Free(s)) <= Cardinality(Free(t)) + n + 1

LEMMA JoinedFacts ==
    ASSUME NEW s, Sane(s), NEW n, NEW p, Forth(s.next, s.list, n, p), Inner(n, p) \subseteq s.nodes,
           NEW r, InCopy(s, p, n, r), NEW t, t = Joined(r.t, r.last, s.count[s.list])
    PROVE  \E q : IsCopy(s, t, n, p, q)
<1>1. /\ r \in [t : Memories, last : Places, from : Places] /\ Apart(s, r.t) /\ n \in Nat
  BY DEF InCopy, Forth
<1>2. PICK w : Copies(s, p, r.t, n, w) /\ r.last = w[n]
  BY DEF InCopy
<1>3. PICK u : u = r.t
  OBVIOUS
<1>4. PICK F : F = Used(s)
  OBVIOUS
<1>5. PICK a : a = r.last
  OBVIOUS
<1>6. PICK h : h = u.list
  OBVIOUS
<1>7. PICK t1 : t1 = SetNext(u, a, h)
  OBVIOUS
<1>8. PICK t2 : t2 = SetPrev(t1, h, a)
  OBVIOUS
<1>9. PICK k : k = s.count[s.list]
  OBVIOUS
<1>10. t = [t2 EXCEPT !.count[h] = k]
  BY <1>3, <1>5, <1>6, <1>7, <1>8, <1>9 DEF Joined
<1>11. Sane(u) /\ Fenced(u, F) /\ Same(F, s, u) /\ u \in Memories /\ Apart(s, u)
  BY <1>1, <1>3, <1>4 DEF Apart
<1>12. /\ Trail(u, h, n, w) /\ Inner(n, w) = u.nodes \ s.nodes
       /\ \A i \in 1 .. n : u.data[w[i]] = s.data[p[i]]
       /\ Cardinality(Free(s)) <= Cardinality(Free(u)) + n + 1
  BY <1>2, <1>3, <1>6 DEF Copies
<1>13. h \in Used(u) \ F /\ h \in Places /\ h \in u.heads /\ h \notin u.nodes
  BY <1>6, <1>11, ListOutside DEF Sane
<1>14. \A i \in 0 .. n : w[i] \in Used(u) \ F
  <2>1. w[0] \in Used(u) \ F
    BY <1>12, <1>13 DEF Trail
  <2>2. ASSUME NEW i \in 1 .. n PROVE w[i] \in Used(u) \ F
    <3>1. w[i] \in u.nodes \ s.nodes
      BY <1>12 DEF Inner
    <3>2. w[i] \notin s.heads
      <4>1. s.heads \subseteq u.heads
        BY <1>4, <1>11 DEF Same, Used
      <4> QED BY <1>11, <3>1, <4>1 DEF Sane
    <3> QED BY <1>4, <3>1, <3>2 DEF Used
  <2>3. \A i \in 0 .. n : i = 0 \/ i \in 1 .. n
    BY <1>1
  <2> QED BY <2>1, <2>2, <2>3
<1>15. a = w[n] /\ a \in Used(u) \ F /\ a \in Places /\ n \in 0 .. n
  <2>1. n \in 0 .. n
    BY <1>1
  <2> QED BY <1>1, <1>2, <1>5, <1>14, <2>1
<1>16. Within(F, u, t1)
  BY <1>7, <1>11, <1>13, <1>15, WithinSelf, WithinNext
<1>17. Within(F, u, t2)
  BY <1>8, <1>13, <1>15, <1>16, WithinPrev
<1>18. t1 \in Memories /\ t2 \in Memories
  BY <1>16, <1>17 DEF Within, Sane
<1>19. NextIs(u, t1, a, h)
  BY <1>7, <1>11, <1>13, <1>15, NextSet
<1>20. PrevIs(t1, t2, h, a)
  <2>1. h \in Used(t1)
    BY <1>13, <1>19 DEF NextIs, Relinks
  <2> QED BY <1>8, <1>13, <1>15, <1>18, <2>1, PrevSet
<1>21. Relinks(u, t2)
  BY <1>19, <1>20, RelinksThen DEF NextIs, PrevIs
<1>22. k \in Int
  BY <1>9, UsedFacts
<1>23. /\ t.next = t2.next /\ t.prev = t2.prev /\ t.data = t2.data /\ t.nodes = t2.nodes
       /\ t.heads = t2.heads /\ t.list = t2.list /\ t.other = t2.other /\ t.fault = t2.fault
       /\ t.count = [t2.count EXCEPT ![h] = k] /\ t \in Memories
  BY <1>10, <1>13, <1>18, <1>22 DEF Memories
<1>24. Within(F, t2, t)
  <2>1. \A c \in F : t.data[c] = t2.data[c] /\ t.count[c] = t2.count[c]
    <3>1. \A c \in F : c # h /\ c \in Places
      BY <1>11, <1>13, UsedFacts DEF Fenced
    <3> QED BY <1>18, <1>23, <3>1 DEF Memories
  <2>2. Sane(t2) /\ Fenced(t2, F)
    BY <1>17 DEF Within
  <2> QED BY <1>23, <2>1, <2>2, Relinked
<1>25. Within(F, u, t)
  BY <1>17, <1>24, WithinThen
<1>26. /\ t.fault = u.fault /\ t.nodes = u.nodes /\ t.data = u.data /\ t.list = h /\ Used(t) = Used(u)
       /\ t.count[h] = k
  <2>1. t.count[h] = k
    BY <1>13, <1>18, <1>23 DEF Memories
  <2> QED BY <1>6, <1>21, <1>23, <2>1 DEF Relinks, Rest, Used
<1>27. Apart(s, t)
  BY <1>4, <1>11, <1>25, <1>26, ApartThen
<1>28. /\ t.next[a] = h /\ But(t.next, u.next, a) /\ t.prev[h] = a /\ But(t.prev, u.prev, h)
  BY <1>19, <1>20, <1>23 DEF NextIs, PrevIs
<1>29. PICK q : q = [i \in 0 .. n + 1 |-> IF i = n + 1 THEN h ELSE w[i]]
  OBVIOUS
<1>30. q[n + 1] = h /\ \A i \in 0 .. n : q[i] = w[i]
  BY <1>1, <1>29
<1>31. Forth(t.next, h, n, q) /\ \A i \in 0 .. n : t.prev[q[i + 1]] = q[i]
  <2>1. q \in [0 .. n + 1 -> Places]
    <3>1. ASSUME NEW i \in 0 .. n + 1 PROVE q[i] \in Places
      <4>1. i = n + 1 \/ i \in 0 .. n
        BY <1>1
      <4> QED BY <1>13, <1>14, <1>30, <4>1, <1>11, UsedFacts
    <3> QED BY <1>29, <3>1
  <2>2. q[0] = h
    <3>1. 0 \in 0 .. n
      BY <1>1
    <3> QED BY <1>12, <1>30, <3>1 DEF Trail
  <2>3. \A i \in 0 .. n : \A j \in 0 .. n : q[i] = q[j] => i = j
    BY <1>12, <1>30 DEF Trail
  <2>4. ASSUME NEW i \in 0 .. n PROVE t.next[q[i]] = q[i + 1] /\ t.prev[q[i + 1]] = q[i]
    <3>1. CASE i = n
      BY <1>15, <1>28, <1>30, <3>1
    <3>2. CASE i # n
      <4>1. i \in 0 .. n - 1 /\ i + 1 \in 0 .. n /\ i + 1 # 0 /\ 0 \in 0 .. n
        BY <1>1, <3>2
      <4>2. u.next[w[i]] = w[i + 1] /\ u.prev[w[i + 1]] = w[i]
        BY <1>12, <4>1 DEF Trail
      <4>3. w[i] # a /\ w[i + 1] # h /\ w[i] \in Places /\ w[i + 1] \in Places
        BY <1>12, <1>15, <3>2, <4>1 DEF Trail
      <4>4. t.next[w[i]] = u.next[w[i]] /\ t.prev[w[i + 1]] = u.prev[w[i + 1]]
        BY <1>28, <4>3 DEF But
      <4>5. q[i] = w[i] /\ q[i + 1] = w[i + 1]
        BY <1>30, <4>1
      <4> QED BY <4>2, <4>4, <4>5
    <3> QED BY <3>1, <3>2
  <2> QED BY <1>1, <1>30, <2>1, <2>2, <2>3, <2>4 DEF Forth
<1>32. Rounds(t.next, t.prev, t.list, n, q)
  BY <1>26, <1>31 DEF Rounds
<1>33. Inner(n, q) = t.nodes \ s.nodes
  <2>1. \A i \in 1 .. n : q[i] = w[i]
    BY <1>1, <1>30
  <2>2. Inner(n, q) = Inner(n, w)
    BY <2>1 DEF Inner
  <2> QED BY <1>12, <1>26, <2>2
<1>34. \A i \in 1 .. n : t.data[q[i]] = s.data[p[i]]
  BY <1>1, <1>12, <1>26, <1>30
<1>35. Free(t) = Free(u)
  BY <1>26 DEF Free
<1>36. t.count[t.list] = s.count[s.list]
  BY <1>9, <1>26
<1>37. Cardinality(Free(s)) <= Cardinality(Free(t)) + n + 1
  BY <1>12, <1>35
<1> QED BY <1>27, <1>32, <1>33, <1>34, <1>36, <1>37 DEF IsCopy

LEMMA CopyFacts ==
    ASSUME NEW s, Sane(s), NEW F, Fenced(s, F), Closed(s, s.list), Room(s, Cardinality(s.nodes) + 1),
           NEW t, t = copy(s)
    PROVE  \E n, p, q : IsCopy(s, t, n, p, q)
<1>1. \E n, p : Forth(s.next, s.list, n, p) /\ Inner(n, p) \subseteq s.nodes
  BY ClosedForth
<1>2. PICK n, p : Forth(s.next, s.list, n, p) /\ Inner(n, p) \subseteq s.nodes
  BY <1>1
<1>3. IsFiniteSet(s.nodes) /\ Cardinality(s.nodes) \in Nat
  BY UsedFacts, CellsFinite
<1>4. n <= Cardinality(s.nodes) /\ n \in Nat
  BY <1>2, <1>3, ForthLength DEF Forth
<1>5. IsFiniteSet(Free(s)) /\ Cardinality(Free(s)) \in Nat
  BY UsedFacts, CellsFinite
<1>6. n + 1 <= Cardinality(Free(s)) /\ Free(s) # {}
  <2>1. Cardinality(Free(s)) >= Cardinality(s.nodes) + 1
    BY DEF Room
  <2>2. Cardinality(Free(s)) # 0
    BY <1>3, <1>5, <2>1
  <2> QED BY <1>3, <1>4, <1>5, <2>1, <2>2, FS_EmptySet
<1>7. PICK r : r = Copying(s, s.next)
  OBVIOUS
<1>8. InCopy(s, p, n, r)
  BY <1>2, <1>6, <1>7, CopyLoop
<1>9. t = Joined(r.t, r.last, s.count[s.list])
  BY <1>7 DEF copy, size
<1> QED BY <1>2, <1>8, <1>9, JoinedFacts
---------------------------------------------------------------------------
(* The block given back.                                                   *)

\* Only nodes were given back.
Shrinks(s, t) ==
    /\ Sane(t) /\ t.heads = s.heads /\ t.list = s.list /\ t.other = s.other /\ t.count = s.count
    /\ t.next[Null] = s.next[Null]
    /\ s.fault # "no" => t.fault # "no"

LEMMA ShrinkNode ==
    ASSUME NEW s, Sane(s), NEW c \in s.nodes, NEW t, t = freenode(s, c)
    PROVE  /\ Shrinks(s, t)
           /\ t.fault = s.fault /\ t.nodes = s.nodes \ {c} /\ t.next[c] = Lost
           /\ But(t.next, s.next, c) /\ But(t.prev, s.prev, c) /\ But(t.data, s.data, c)
<1>1. c \in Places /\ c # Null /\ c \notin s.heads /\ s \in Memories
  BY UsedFacts, PlaceFacts DEF Sane
<1>2. /\ t \in Memories /\ t.count = s.count
      /\ t.heads = s.heads /\ t.list = s.list /\ t.other = s.other /\ t.fault = s.fault
      /\ t.nodes = s.nodes \ {c}
      /\ t.next[c] = Lost /\ t.prev[c] = Lost
      /\ But(t.data, s.data, c) /\ But(t.next, s.next, c) /\ But(t.prev, s.prev, c)
  BY <1>1, FreeNodeFields
<1>3. Used(t) = Used(s) \ {c}
  BY <1>1, <1>2 DEF Used
<1>4. Sane(t)
  BY <1>1, <1>2, <1>3, PlaceFacts DEF Sane, But
<1>5. t.next[Null] = s.next[Null]
  BY <1>1, <1>2, PlaceFacts DEF But
<1> QED BY <1>2, <1>4, <1>5 DEF Shrinks

LEMMA ShrinkFails ==
    ASSUME NEW s, Sane(s), NEW t, t = Fails(s, "freed")
    PROVE  Shrinks(s, t) /\ t.fault # "no" /\ t.next = s.next
<1>1. "freed" \in Faults /\ "freed" # "no" /\ s \in Memories
  BY DEF Faults, Sane
<1>2. t \in Memories /\ Rest(s, t) /\ t.next = s.next /\ t.prev = s.prev /\ t.fault # "no"
  BY <1>1, FailsFields
<1>3. Sane(t)
  BY <1>2 DEF Sane, Rest, Used
<1> QED BY <1>2, <1>3 DEF Shrinks, Rest

LEMMA ShrinksThen ==
    ASSUME NEW r, NEW s, NEW t, Shrinks(r, s), Shrinks(s, t)
    PROVE  Shrinks(r, t)
BY DEF Shrinks

\* What a turn does, by its three cases.
FreeTurn(end, r, q) ==
    /\ q \in [t : Memories, at : Places] /\ Shrinks(r.t, q.t)
    /\ \/ (r.at = end \/ r.t.fault # "no") /\ q = r
       \/ r.at # end /\ r.at \notin r.t.nodes /\ q.t.fault # "no" /\ q.t.next = r.t.next
       \/ /\ r.at # end /\ r.at \in r.t.nodes /\ q.t.fault = r.t.fault /\ r.t.fault = "no"
          /\ q.at = r.t.next[r.at] /\ q.t.nodes = r.t.nodes \ {r.at} /\ q.t.next[r.at] = Lost
          /\ But(q.t.next, r.t.next, r.at) /\ But(q.t.prev, r.t.prev, r.at)
          /\ But(q.t.data, r.t.data, r.at)

LEMMA FreeTurns ==
    ASSUME NEW end, NEW r \in [t : Memories, at : Places], Sane(r.t),
           NEW q, q = FreeStep(end)[r]
    PROVE  FreeTurn(end, r, q)
<1>1. PICK u : u = r.t
  OBVIOUS
<1>2. PICK c : c = r.at
  OBVIOUS
<1>3. Sane(u) /\ u \in Memories /\ c \in Places
  BY <1>1, <1>2
<1>4. q = IF c = end \/ u.fault # "no" THEN r
          ELSE IF c \notin u.nodes THEN [r EXCEPT !.t = Fails(u, "freed")]
          ELSE [t |-> freenode(u, c), at |-> u.next[c]]
  BY <1>1, <1>2 DEF FreeStep
<1>5. CASE c = end \/ u.fault # "no"
  <2>1. q = r
    BY <1>4, <1>5
  <2>2. Shrinks(u, u)
    BY <1>3 DEF Shrinks
  <2> QED BY <1>1, <1>2, <1>5, <2>1, <2>2 DEF FreeTurn
<1>6. CASE ~(c = end \/ u.fault # "no") /\ c \notin u.nodes
  <2>1. PICK t : t = Fails(u, "freed")
    OBVIOUS
  <2>2. Shrinks(u, t) /\ t.fault # "no" /\ t \in Memories /\ t.next = u.next
    BY <1>3, <2>1, ShrinkFails DEF Shrinks, Sane
  <2>3. q = [r EXCEPT !.t = t]
    BY <1>4, <1>6, <2>1
  <2>4. q \in [t : Memories, at : Places] /\ q.t = t
    BY <2>2, <2>3
  <2> QED BY <1>1, <1>2, <1>6, <2>2, <2>4 DEF FreeTurn
<1>7. CASE ~(c = end \/ u.fault # "no") /\ c \in u.nodes
  <2>1. PICK t : t = freenode(u, c)
    OBVIOUS
  <2>2. /\ Shrinks(u, t)
        /\ t.fault = u.fault /\ t.nodes = u.nodes \ {c} /\ t.next[c] = Lost
        /\ But(t.next, u.next, c) /\ But(t.prev, u.prev, c) /\ But(t.data, u.data, c)
    BY <1>3, <1>7, <2>1, ShrinkNode
  <2>3. q = [t |-> t, at |-> u.next[c]]
    BY <1>4, <1>7, <2>1
  <2>4. t \in Memories /\ u.next[c] \in Places
    BY <1>3, <2>2, UsedFacts DEF Shrinks, Sane
  <2>5. q \in [t : Memories, at : Places] /\ q.t = t /\ q.at = u.next[c]
    BY <2>3, <2>4
  <2> QED BY <1>1, <1>2, <1>7, <2>2, <2>5 DEF FreeTurn
<1> QED BY <1>5, <1>6, <1>7

\* The turns of a walk that frees.
Freeing(s, end, k) == Iterate(FreeStep(end), [t |-> s, at |-> s.next[end]], k)

LEMMA FreeingFacts ==
    ASSUME NEW s, Sane(s), NEW end \in Places
    PROVE  /\ Freeing(s, end, 0) = [t |-> s, at |-> s.next[end]]
           /\ free(s, end) = Freeing(s, end, N + 1).t
           /\ \A k \in Nat : /\ Freeing(s, end, k) \in [t : Memories, at : Places]
                             /\ Shrinks(s, Freeing(s, end, k).t)
                             /\ FreeTurn(end, Freeing(s, end, k), Freeing(s, end, k + 1))
<1>1. PICK x : x = [t |-> s, at |-> s.next[end]]
  OBVIOUS
<1>2. PICK f : f = FreeStep(end)
  OBVIOUS
<1>3. \A k : Freeing(s, end, k) = Iterate(f, x, k)
  BY <1>1, <1>2 DEF Freeing
<1> DEFINE S == {r \in [t : Memories, at : Places] : Shrinks(s, r.t)}
<1>4. x \in S
  BY <1>1, UsedFacts DEF Sane, Shrinks
<1>5. \A r \in S : f[r] \in S
  <2> SUFFICES ASSUME NEW r \in [t : Memories, at : Places], Shrinks(s, r.t) PROVE f[r] \in S
    OBVIOUS
  <2>1. PICK q : q = f[r]
    OBVIOUS
  <2>2. FreeTurn(end, r, q)
    BY <1>2, <2>1, FreeTurns DEF Shrinks
  <2>3. q \in [t : Memories, at : Places] /\ Shrinks(r.t, q.t)
    BY <2>2 DEF FreeTurn
  <2>4. Shrinks(s, q.t)
    BY <2>3, ShrinksThen
  <2> QED BY <2>1, <2>3, <2>4
<1>6. \A k \in Nat : Iterate(f, x, k) \in S
  <2> HIDE DEF S
  <2> QED BY <1>4, <1>5, IterateKeeps
<1>7. ASSUME NEW k \in Nat
      PROVE  /\ Freeing(s, end, k) \in [t : Memories, at : Places]
             /\ Shrinks(s, Freeing(s, end, k).t)
             /\ FreeTurn(end, Freeing(s, end, k), Freeing(s, end, k + 1))
  <2>1. PICK r : r = Iterate(f, x, k)
    OBVIOUS
  <2>2. Iterate(f, x, k + 1) = f[r]
    BY <2>1, IterateSteps
  <2>3. r \in [t : Memories, at : Places] /\ Shrinks(s, r.t)
    BY <1>6, <2>1
  <2>4. FreeTurn(end, r, f[r])
    BY <1>2, <2>3, FreeTurns DEF Shrinks
  <2> QED BY <1>3, <2>1, <2>2, <2>3, <2>4
<1>8. Freeing(s, end, 0) = x
  BY <1>3, IterateSteps
<1>9. free(s, end) = Freeing(s, end, N + 1).t
  BY DEF free, Freeing
<1> QED BY <1>1, <1>7, <1>8, <1>9

LEMMA FreeShrinks ==
    ASSUME NEW s, Sane(s), NEW h \in Places, NEW t, t = free(s, h)
    PROVE  Shrinks(s, t)
<1>1. N + 1 \in Nat
  BY PlaceFacts
<1> QED BY <1>1, FreeingFacts

\* The walk that frees a whole ring frees its nodes, and nothing else.
Emptied(s, t, n, p) ==
    /\ t.nodes = s.nodes \ Inner(n, p) /\ t.fault = s.fault
    /\ \A c \in Places \ Inner(n, p) :
        t.next[c] = s.next[c] /\ t.prev[c] = s.prev[c] /\ t.data[c] = s.data[c]

LEMMA FreeEmpties ==
    ASSUME NEW s, Sane(s), s.fault = "no", NEW h, NEW n, NEW p, Chain(s, h, n, p),
           NEW t, t = free(s, h)
    PROVE  Emptied(s, t, n, p) /\ Shrinks(s, t)
<1>1. Forth(s.next, h, n, p) /\ n \in Nat /\ h \in Places /\ p[0] = h /\ p[n + 1] = h
  BY DEF Chain, Rounds, Forth
<1>2. Inner(n, p) \subseteq s.nodes /\ Inner(n, p) \subseteq Cells
  BY UsedFacts DEF Chain
<1> DEFINE Did(k) == {p[i] : i \in 1 .. k}
           R(k) == Freeing(s, h, k)
           G(k) == /\ R(k).at = p[k + 1] /\ R(k).t.nodes = s.nodes \ Did(k) /\ R(k).t.fault = "no"
                   /\ \A c \in Places \ Did(k) :
                        /\ R(k).t.next[c] = s.next[c] /\ R(k).t.prev[c] = s.prev[c]
                        /\ R(k).t.data[c] = s.data[c]
           T == {k \in Nat : k <= n => G(k)}
<1>3. 0 \in T
  <2>1. R(0) = [t |-> s, at |-> s.next[h]]
    BY <1>1, FreeingFacts
  <2>2. s.next[h] = p[0 + 1]
    <3>1. 0 \in 0 .. n
      BY <1>1
    <3> QED BY <1>1, <3>1 DEF Forth
  <2>3. Did(0) = {}
    OBVIOUS
  <2> QED BY <2>1, <2>2, <2>3
<1>4. ASSUME NEW k \in Nat, k <= n => G(k), k + 1 <= n PROVE G(k + 1)
  <2>1. k + 1 \in 1 .. n /\ k + 1 \in 0 .. n /\ k + 1 # 0 /\ 0 \in 0 .. n /\ k <= n
    BY <1>1, <1>4
  <2>2. PICK r : r = R(k)
    OBVIOUS
  <2>3. PICK q : q = R(k + 1)
    OBVIOUS
  <2>4. PICK x : x = p[k + 1]
    OBVIOUS
  <2>5. FreeTurn(h, r, q)
    BY <1>1, <2>2, <2>3, FreeingFacts
  <2>6. /\ r.at = x /\ r.t.nodes = s.nodes \ Did(k) /\ r.t.fault = "no"
        /\ \A c \in Places \ Did(k) :
            r.t.next[c] = s.next[c] /\ r.t.prev[c] = s.prev[c] /\ r.t.data[c] = s.data[c]
    BY <1>4, <2>1, <2>2, <2>4
  <2>7. x # h /\ x \in s.nodes /\ x \notin Did(k) /\ x \in Places /\ s.next[x] = p[(k + 1) + 1]
    <3>1. x \in Inner(n, p)
      BY <2>1, <2>4 DEF Inner
    <3>2. x # h
      BY <1>1, <2>1, <2>4 DEF Forth
    <3>3. ASSUME NEW i \in 1 .. k PROVE p[i] # x
      <4>1. i \in 0 .. n /\ i # k + 1
        BY <1>1, <2>1
      <4> QED BY <1>1, <2>1, <2>4, <4>1 DEF Forth
    <3>4. s.next[x] = p[(k + 1) + 1]
      BY <1>1, <2>1, <2>4 DEF Forth
    <3> QED BY <1>2, <3>1, <3>2, <3>3, <3>4, PlaceFacts
  <2>8. /\ q.t.fault = r.t.fault /\ q.at = r.t.next[x] /\ q.t.nodes = r.t.nodes \ {x}
        /\ But(q.t.next, r.t.next, x) /\ But(q.t.prev, r.t.prev, x) /\ But(q.t.data, r.t.data, x)
    <3>1. x \in r.t.nodes
      BY <2>6, <2>7
    <3> QED BY <2>5, <2>6, <2>7, <3>1 DEF FreeTurn
  <2>9. Did(k + 1) = Did(k) \cup {x}
    <3>1. \A i \in 1 .. k + 1 : i \in 1 .. k \/ i = k + 1
      OBVIOUS
    <3>2. \A i \in 1 .. k : i \in 1 .. k + 1
      OBVIOUS
    <3>3. k + 1 \in 1 .. k + 1
      OBVIOUS
    <3> QED BY <2>4, <3>1, <3>2, <3>3
  <2> HIDE DEF Did
  <2>10. q.at = p[(k + 1) + 1]
    BY <2>6, <2>7, <2>8
  <2>11. q.t.nodes = s.nodes \ Did(k + 1) /\ q.t.fault = "no"
    BY <2>6, <2>8, <2>9
  <2>12. ASSUME NEW c \in Places \ Did(k + 1)
         PROVE  q.t.next[c] = s.next[c] /\ q.t.prev[c] = s.prev[c] /\ q.t.data[c] = s.data[c]
    <3>1. c \in Places \ Did(k) /\ c # x
      BY <2>9
    <3> QED BY <2>6, <2>8, <3>1 DEF But
  <2> QED BY <2>3, <2>10, <2>11, <2>12
<1>5. \A k \in Nat : k \in T => k + 1 \in T
  <2> HIDE DEF G
  <2> QED BY <1>4
<1>6. \A k \in Nat : k \in T
  <2> HIDE DEF T
  <2> QED BY <1>3, <1>5, NatSet
<1>7. G(n)
  <2> HIDE DEF G
  <2> QED BY <1>1, <1>6
<1>8. PICK f : f = FreeStep(h)
  OBVIOUS
<1>9. PICK x : x = [t |-> s, at |-> s.next[h]]
  OBVIOUS
<1>10. Iterate(f, x, N + 1) = Iterate(f, x, n)
  <2>1. n <= N /\ N \in Nat
    BY <1>1, <1>2, CellsFinite, ForthLength, PlaceFacts
  <2>2. PICK r : r = Iterate(f, x, n)
    OBVIOUS
  <2>3. r = R(n)
    BY <1>8, <1>9, <2>2 DEF Freeing
  <2>4. r.at = h
    BY <1>1, <1>7, <2>3
  <2>5. f[r] = r
    <3>1. r \in [t : Memories, at : Places]
      BY <1>1, <2>3, FreeingFacts
    <3> QED BY <1>8, <2>4, <3>1 DEF FreeStep
  <2>6. n <= N + 1 /\ N + 1 \in Nat
    BY <1>1, <2>1
  <2> QED BY <1>1, <2>2, <2>5, <2>6, IterateStops
<1>11. t = R(n).t
  BY <1>8, <1>9, <1>10 DEF Freeing, free
<1>12. Did(n) = Inner(n, p)
  BY DEF Inner
<1>13. Emptied(s, t, n, p)
  BY <1>7, <1>11, <1>12 DEF Emptied
<1>14. Shrinks(s, t)
  BY <1>1, FreeShrinks
<1> QED BY <1>13, <1>14

\* The list's block is given back: nothing behind the fence changes.
LEMMA FreeWithin ==
    ASSUME NEW s, Sane(s), NEW F, Fenced(s, F), NEW t, t = free(s, s.list)
    PROVE  Within(F, s, t)
<1>1. PICK h : h = s.list
  OBVIOUS
<1>2. h \in Places \ F /\ h \in Places /\ s.next[h] \in Places \ F
  BY <1>1, ListOutside
<1> DEFINE T == {k \in Nat : Within(F, s, Freeing(s, h, k).t) /\ Freeing(s, h, k).at \notin F}
<1>3. 0 \in T
  <2>1. Freeing(s, h, 0) = [t |-> s, at |-> s.next[h]]
    BY <1>2, FreeingFacts
  <2> QED BY <1>2, <2>1, WithinSelf
<1>4. ASSUME NEW k \in Nat, Within(F, s, Freeing(s, h, k).t), Freeing(s, h, k).at \notin F
      PROVE  Within(F, s, Freeing(s, h, k + 1).t) /\ Freeing(s, h, k + 1).at \notin F
  <2>1. PICK r : r = Freeing(s, h, k)
    OBVIOUS
  <2>2. PICK f : f = FreeStep(h)
    OBVIOUS
  <2>3. PICK q : q = Freeing(s, h, k + 1)
    OBVIOUS
  <2>4. r \in [t : Memories, at : Places] /\ q = f[r]
    <3>1. r \in [t : Memories, at : Places]
      BY <1>2, <2>1, FreeingFacts
    <3> QED BY <2>1, <2>2, <2>3, <3>1, IterateSteps DEF Freeing
  <2>5. PICK u : u = r.t
    OBVIOUS
  <2>6. PICK c : c = r.at
    OBVIOUS
  <2>7. Within(F, s, u) /\ c \in Places \ F /\ Sane(u) /\ Fenced(u, F)
    BY <1>4, <2>1, <2>4, <2>5, <2>6 DEF Within
  <2>8. q = IF c = h \/ u.fault # "no" THEN r
            ELSE IF c \notin u.nodes THEN [r EXCEPT !.t = Fails(u, "freed")]
            ELSE [t |-> freenode(u, c), at |-> u.next[c]]
    BY <2>2, <2>4, <2>5, <2>6 DEF FreeStep
  <2>9. CASE c = h \/ u.fault # "no"
    BY <1>4, <2>1, <2>3, <2>8, <2>9
  <2>10. CASE ~(c = h \/ u.fault # "no") /\ c \notin u.nodes
    <3>1. "freed" \in Faults /\ "freed" # "no"
      BY DEF Faults
    <3>2. PICK w : w = Fails(u, "freed")
      OBVIOUS
    <3>3. Within(F, s, w)
      BY <2>7, <3>1, <3>2, WithinFails
    <3>4. q.t = w /\ q.at = c
      BY <2>4, <2>6, <2>8, <2>10, <3>2
    <3> QED BY <2>3, <2>7, <3>3, <3>4
  <2>11. CASE ~(c = h \/ u.fault # "no") /\ c \in u.nodes
    <3>1. PICK w : w = freenode(u, c)
      OBVIOUS
    <3>2. Within(F, s, w)
      BY <2>7, <2>11, <3>1, WithinFree
    <3>3. q.t = w /\ q.at = u.next[c]
      BY <2>8, <2>11, <3>1
    <3>4. u.next[c] \notin F
      BY <2>7, Outside
    <3> QED BY <2>3, <3>2, <3>3, <3>4
  <2> QED BY <2>9, <2>10, <2>11
<1>5. \A k \in Nat : k \in T => k + 1 \in T
  BY <1>4
<1>6. \A k \in Nat : k \in T
  <2> HIDE DEF T
  <2> QED BY <1>3, <1>5, NatSet
<1>7. N + 1 \in Nat
  BY PlaceFacts
<1>8. t = Freeing(s, h, N + 1).t
  BY <1>1, <1>2, FreeingFacts
<1> QED BY <1>6, <1>7, <1>8
---------------------------------------------------------------------------
(* The other handle's block is given back.  Its ring may be twisted, and   *)
(* lead in front of the fence, to nodes that were given back before and    *)
(* are used again; a walk that goes there never comes back, and ends in a  *)
(* fault.                                                                  *)

\* What is in front of the fence did not change.
Front(F, s, t) ==
    \A c \in Places \ F :
        /\ t.next[c] = s.next[c] /\ t.prev[c] = s.prev[c] /\ t.data[c] = s.data[c]
        /\ c \in t.nodes <=> c \in s.nodes

\* After k turns of the walk.
Goes(F, s, h, k, r) ==
    /\ \A c \in Places \ F : r.t.next[c] \notin F
    /\ r.t.fault # "no" \/ r.at \notin F \/ Front(F, s, r.t)
    /\ r.t.fault # "no" \/ r.at = h \/ Cardinality(r.t.nodes) + k <= Cardinality(s.nodes)

LEMMA GoesOn ==
    ASSUME NEW s, Sane(s), NEW F, Fenced(s, F), NEW h \in F, NEW k \in Nat,
           NEW r \in [t : Memories, at : Places], Shrinks(s, r.t), Goes(F, s, h, k, r),
           NEW q, FreeTurn(h, r, q)
    PROVE  Goes(F, s, h, k + 1, q)
<1>1. PICK u : u = r.t
  OBVIOUS
<1>2. PICK c : c = r.at
  OBVIOUS
<1>3. Sane(u) /\ c \in Places /\ F \subseteq Places /\ Lost \notin F
  BY <1>1, <1>2, UsedFacts DEF Shrinks, Fenced
<1>4. /\ \A d \in Places \ F : u.next[d] \notin F
      /\ u.fault # "no" \/ c \notin F \/ Front(F, s, u)
      /\ u.fault # "no" \/ c = h \/ Cardinality(u.nodes) + k <= Cardinality(s.nodes)
  BY <1>1, <1>2 DEF Goes
<1>5. CASE (c = h \/ u.fault # "no") /\ q = r
  <2>1. q.t = u /\ q.at = c
    BY <1>1, <1>2, <1>5
  <2>2. q.t.fault # "no" \/ q.at = h
    BY <1>5, <2>1
  <2> QED BY <1>4, <2>1, <2>2 DEF Goes
<1>6. CASE c # h /\ c \notin u.nodes /\ q.t.fault # "no" /\ q.t.next = u.next
  <2>1. \A d \in Places \ F : q.t.next[d] \notin F
    BY <1>4, <1>6
  <2> QED BY <1>6, <2>1 DEF Goes
<1>7. CASE /\ c # h /\ c \in u.nodes /\ q.t.fault = u.fault /\ u.fault = "no"
           /\ q.at = u.next[c] /\ q.t.nodes = u.nodes \ {c} /\ q.t.next[c] = Lost
           /\ But(q.t.next, u.next, c) /\ But(q.t.prev, u.prev, c) /\ But(q.t.data, u.data, c)
  <2>1. \A d \in Places \ F : q.t.next[d] \notin F
    BY <1>3, <1>4, <1>7 DEF But
  <2>2. q.at \notin F \/ Front(F, s, q.t)
    <3>1. CASE c \notin F
      BY <1>3, <1>4, <1>7, <3>1
    <3>2. CASE c \in F
      <4>1. Front(F, s, u)
        BY <1>4, <1>7, <3>2
      <4> QED BY <1>7, <3>2, <4>1 DEF Front, But
    <3> QED BY <3>1, <3>2
  <2>3. Cardinality(q.t.nodes) + (k + 1) <= Cardinality(s.nodes)
    <3>1. IsFiniteSet(u.nodes) /\ Cardinality(u.nodes) \in Nat /\ Cardinality(s.nodes) \in Nat
      BY <1>3, UsedFacts, CellsFinite
    <3>2. Cardinality(u.nodes \ {c}) = Cardinality(u.nodes) - 1
      BY <1>7, <3>1, FS_RemoveElement
    <3>3. q.t.nodes = u.nodes \ {c}
      BY <1>7
    <3> QED BY <1>4, <1>7, <3>1, <3>2, <3>3
  <2> QED BY <2>1, <2>2, <2>3 DEF Goes
<1> QED BY <1>1, <1>2, <1>5, <1>6, <1>7 DEF FreeTurn

LEMMA FreeBehind ==
    ASSUME NEW s, Sane(s), NEW F, Fenced(s, F), NEW h \in F, NEW t, t = free(s, h)
    PROVE  /\ Shrinks(s, t)
           /\ \A c \in Places \ F : t.next[c] \notin F
           /\ t.fault # "no" \/ Front(F, s, t)
<1>1. h \in Places /\ F \subseteq Places
  BY UsedFacts DEF Fenced
<1> DEFINE T == {k \in Nat : Goes(F, s, h, k, Freeing(s, h, k))}
<1>2. 0 \in T
  <2>1. PICK r : r = Freeing(s, h, 0)
    OBVIOUS
  <2>2. r = [t |-> s, at |-> s.next[h]]
    BY <1>1, <2>1, FreeingFacts
  <2>3. Cardinality(s.nodes) \in Nat
    BY UsedFacts, CellsFinite
  <2>4. \A c \in Places \ F : s.next[c] \notin F
    BY DEF Fenced
  <2>5. Front(F, s, s)
    BY DEF Front
  <2>6. Goes(F, s, h, 0, r)
    BY <2>2, <2>3, <2>4, <2>5 DEF Goes
  <2> QED BY <2>1, <2>6
<1>3. ASSUME NEW k \in Nat, Goes(F, s, h, k, Freeing(s, h, k))
      PROVE  Goes(F, s, h, k + 1, Freeing(s, h, k + 1))
  BY <1>1, <1>3, FreeingFacts, GoesOn
<1>4. \A k \in Nat : k \in T => k + 1 \in T
  BY <1>3
<1>5. \A k \in Nat : k \in T
  <2> HIDE DEF T
  <2> QED BY <1>2, <1>4, NatSet
<1>6. N + 1 \in Nat
  BY PlaceFacts
<1>7. PICK r : r = Freeing(s, h, N + 1)
  OBVIOUS
<1>8. Goes(F, s, h, N + 1, r) /\ t = r.t /\ Shrinks(s, t)
  BY <1>1, <1>5, <1>6, <1>7, FreeingFacts
<1>9. t.fault # "no" \/ r.at = h
  <2>1. Cardinality(s.nodes) \in Nat /\ Cardinality(s.nodes) <= N
    BY UsedFacts, CellsFinite
  <2>2. Cardinality(t.nodes) \in Nat
    BY <1>8, UsedFacts, CellsFinite DEF Shrinks
  <2>3. ~(Cardinality(t.nodes) + (N + 1) <= Cardinality(s.nodes))
    BY <2>1, <2>2, PlaceFacts
  <2> QED BY <1>8, <2>3 DEF Goes
<1> QED BY <1>8, <1>9 DEF Goes
---------------------------------------------------------------------------
(* l += l.                                                                 *)

LEMMA LinkRoom ==
    ASSUME NEW s, NEW F, Sane(s), Fenced(s, F), Free(s) # {}, NEW p \in Places \ F,
           NEW v \in Values \cup {Lost}, NEW t, t = Link(s, p, v)
    PROVE  Free(t) = Free(s) \ {New(s)}
<1>1. PICK c : c = New(s)
  OBVIOUS
<1>2. PICK a : a = s.prev[p]
  OBVIOUS
<1>3. PICK t0 : t0 = newnode(s, v)
  OBVIOUS
<1>4. PICK t1 : t1 = SetPrev(t0, c, a)
  OBVIOUS
<1>5. PICK t2 : t2 = SetNext(t1, c, p)
  OBVIOUS
<1>6. PICK b : b = t2.prev[c]
  OBVIOUS
<1>7. PICK t3 : t3 = SetNext(t2, b, c)
  OBVIOUS
<1>8. PICK t4 : t4 = SetPrev(t3, p, c)
  OBVIOUS
<1>9. t = Count(t4, 1)
  BY <1>1, <1>2, <1>3, <1>4, <1>5, <1>6, <1>7, <1>8 DEF Link
<1>10. c \in Places /\ a \in Places /\ p \in Places
  BY <1>1, <1>2, NewFacts, UsedFacts
<1>11. t0 \in Memories /\ t0.nodes = s.nodes \cup {c} /\ t0.heads = s.heads
  BY <1>1, <1>3, NewNodeFields
<1>12. t1 \in Memories /\ t1.nodes = t0.nodes /\ t1.heads = t0.heads
  <2>1. t1 \in Memories /\ Rest(t0, t1)
    BY <1>4, <1>10, <1>11, SetPrevFields
  <2> QED BY <2>1 DEF Rest
<1>13. t2 \in Memories /\ t2.nodes = t1.nodes /\ t2.heads = t1.heads
  <2>1. t2 \in Memories /\ Rest(t1, t2)
    BY <1>5, <1>10, <1>12, SetNextFields
  <2> QED BY <2>1 DEF Rest
<1>14. b \in Places
  BY <1>6, <1>10, <1>13 DEF Memories
<1>15. t3 \in Memories /\ t3.nodes = t2.nodes /\ t3.heads = t2.heads
  <2>1. t3 \in Memories /\ Rest(t2, t3)
    BY <1>7, <1>10, <1>13, <1>14, SetNextFields
  <2> QED BY <2>1 DEF Rest
<1>16. t4 \in Memories /\ t4.nodes = t3.nodes /\ t4.heads = t3.heads
  <2>1. t4 \in Memories /\ Rest(t3, t4)
    BY <1>8, <1>10, <1>15, SetPrevFields
  <2> QED BY <2>1 DEF Rest
<1>17. t.nodes = t4.nodes /\ t.heads = t4.heads
  BY <1>9, <1>16, CountFields
<1>18. t.nodes = s.nodes \cup {c} /\ t.heads = s.heads
  BY <1>11, <1>12, <1>13, <1>15, <1>16, <1>17
<1> QED BY <1>1, <1>18 DEF Free, Used

\* The data of k cells of the ring p of s are behind those of the ring of c.
Longer(s, c, p, k, t, j, y, w) ==
    /\ Chain(t, t.list, j + k, w)
    /\ \A i \in 1 .. j : t.data[w[i]] = c.data[y[i]]
    /\ \A i \in 1 .. k : t.data[w[j + i]] = s.data[p[i]]
Lengthens(s, c, p, k, t) ==
    \A j, y : Chain(c, c.list, j, y) => \E w : Longer(s, c, p, k, t, j, y, w)

LEMMA LinkLengthens ==
    ASSUME NEW s, NEW c, NEW p, NEW k \in Nat, NEW u, Sane(u), NEW F, Fenced(u, F), Free(u) # {},
           Lengthens(s, c, p, k, u), NEW v \in Values \cup {Lost}, v = s.data[p[k + 1]],
           NEW t, t = Link(u, u.list, v)
    PROVE  Lengthens(s, c, p, k + 1, t)
<1> SUFFICES ASSUME NEW j, NEW y, Chain(c, c.list, j, y)
             PROVE  \E w : Longer(s, c, p, k + 1, t, j, y, w)
  BY DEF Lengthens
<1>1. j \in Nat
  BY DEF Chain, Rounds, Forth
<1>2. PICK w : Longer(s, c, p, k, u, j, y, w)
  BY DEF Lengthens
<1>3. /\ Chain(u, u.list, j + k, w)
      /\ \A i \in 1 .. j : u.data[w[i]] = c.data[y[i]]
      /\ \A i \in 1 .. k : u.data[w[j + i]] = s.data[p[i]]
  BY <1>2 DEF Longer
<1>4. PICK n \in Nat : n = j + k
  BY <1>1
<1>5. Chain(u, u.list, n, w)
  BY <1>3, <1>4
<1>6. PICK d : d = u.list
  OBVIOUS
<1>7. d \in Around(u, u.list) /\ t = Link(u, d, v)
  BY <1>6 DEF Around
<1>8. PICK b : b = New(u)
  OBVIOUS
<1>9. PICK i \in 0 .. n : Within(F, u, t) /\ d = w[i + 1] /\ Linked(u, t, w[i], w[i + 1], b, v)
  <2>1. Within(F, u, t) /\ LinkedBefore(u, t, n, w, d, v)
    BY <1>5, <1>7, LinkPlace
  <2> QED BY ONLY <1>8, <2>1 DEF LinkedBefore
<1>10. i = n
  <2>1. Forth(u.next, u.list, n, w) /\ w[n + 1] = u.list
    BY <1>5 DEF Chain, Rounds, Forth
  <2>2. i + 1 \in 1 .. n + 1 /\ n + 1 \in 1 .. n + 1
    OBVIOUS
  <2>3. w[i + 1] = w[n + 1]
    BY <1>6, <1>9, <2>1
  <2>4. i + 1 = n + 1
    BY <2>1, <2>2, <2>3, CycleFacts
  <2> QED BY <2>4
<1>11. PICK z : z = Put(w, n, n, b)
  OBVIOUS
<1>12. Chain(t, t.list, n + 1, z)
  <2>1. Linked(u, t, w[n], w[n + 1], b, v) /\ n \in 0 .. n
    BY <1>9, <1>10
  <2> QED BY <1>5, <1>9, <1>11, <2>1, LinkedStays
<1>13. t.data[b] = v /\ But(t.data, u.data, b) /\ b \notin u.nodes
  BY <1>9 DEF Linked, Used
<1>14. /\ \A a \in 0 .. n + 2 : z[a] = IF a <= n THEN w[a] ELSE IF a = n + 1 THEN b ELSE w[a - 1]
  BY <1>11 DEF Put
<1>15. ASSUME NEW a \in 1 .. n PROVE t.data[z[a]] = u.data[w[a]]
  <2>1. z[a] = w[a]
    <3>1. a \in 0 .. n + 2 /\ a <= n
      OBVIOUS
    <3> QED BY <1>14, <3>1
  <2>2. w[a] \in u.nodes
    BY <1>5 DEF Chain, Inner
  <2>3. w[a] \in Places \ {b}
    BY <1>13, <2>2, UsedFacts, PlaceFacts
  <2> QED BY <1>13, <2>1, <2>3 DEF But
<1>16. z[n + 1] = b
  <2>1. n + 1 \in 0 .. n + 2 /\ ~(n + 1 <= n)
    OBVIOUS
  <2> QED BY <1>14, <2>1
<1>17. \A a \in 1 .. j : t.data[z[a]] = c.data[y[a]]
  <2>1. \A a \in 1 .. j : a \in 1 .. n
    BY <1>1, <1>4
  <2> QED BY <1>3, <1>15, <2>1
<1>18. ASSUME NEW a \in 1 .. k + 1 PROVE t.data[z[j + a]] = s.data[p[a]]
  <2>1. CASE a <= k
    <3>1. a \in 1 .. k /\ j + a \in 1 .. n
      BY <1>1, <1>4, <2>1
    <3> QED BY <1>3, <1>15, <3>1
  <2>2. CASE a = k + 1
    <3>1. j + a = n + 1
      BY <1>1, <1>4, <2>2
    <3> QED BY <1>13, <1>16, <2>2, <3>1
  <2> QED BY <2>1, <2>2
<1>19. n + 1 = j + (k + 1)
  BY <1>1, <1>4
<1>20. Chain(t, t.list, j + (k + 1), z)
  BY <1>12, <1>19
<1>21. Longer(s, c, p, k + 1, t, j, y, z)
  BY <1>17, <1>18, <1>20 DEF Longer
<1> QED BY <1>21

\* After k turns.
Adds(s, c, n, p, k, r) ==
    /\ r \in [t : Memories, from : Places] /\ r.from = p[k + 1]
    /\ Within(Used(s), c, r.t) /\ (Good(c) => Stays(c, r.t))
    /\ n <= Cardinality(Free(r.t)) + k
    /\ Lengthens(s, c, p, k, r.t)

LEMMA AddTurn ==
    ASSUME NEW s, Sane(s), NEW c, NEW n, NEW p, NEW q, IsCopy(s, c, n, p, q),
           NEW k \in Nat, k < n, NEW r, Adds(s, c, n, p, k, r)
    PROVE  Adds(s, c, n, p, k + 1, AddStep(s)[r])
<1>1. Forth(s.next, s.list, n, p) /\ n \in Nat /\ k + 1 \in 0 .. n /\ 0 \in 0 .. n /\ (k + 1) + 1 \in 0 .. n + 1
  BY DEF IsCopy, Forth
<1>2. PICK F : F = Used(s)
  OBVIOUS
<1>3. PICK u : u = r.t
  OBVIOUS
<1>4. PICK x : x = r.from
  OBVIOUS
<1>5. /\ r \in [t : Memories, from : Places] /\ x = p[k + 1] /\ Within(F, c, u)
      /\ (Good(c) => Stays(c, u)) /\ n <= Cardinality(Free(u)) + k
      /\ Lengthens(s, c, p, k, u)
  BY <1>2, <1>3, <1>4 DEF Adds
<1>6. x # s.list /\ s.next[x] = p[(k + 1) + 1] /\ p[(k + 1) + 1] \in Places
  BY <1>1, <1>5 DEF Forth
<1>7. PICK v : v = s.data[x]
  OBVIOUS
<1>8. v \in Values \cup {Lost}
  <2>1. x \in Places
    BY <1>4, <1>5
  <2>2. s.data \in [Places -> Values \cup {Lost}]
    BY UsedFacts DEF Sane, Memories
  <2> QED BY <1>7, <2>1, <2>2
<1>9. PICK t : t = Link(u, u.list, v)
  OBVIOUS
<1>10. PICK g : g = AddStep(s)[r]
  OBVIOUS
<1>11. g = [t |-> t, from |-> s.next[x]]
  BY <1>3, <1>4, <1>5, <1>6, <1>7, <1>9, <1>10 DEF AddStep
<1>12. Sane(u) /\ Fenced(u, F)
  BY <1>5 DEF Within
<1>13. IsFiniteSet(Free(u)) /\ Cardinality(Free(u)) \in Nat
  BY <1>12, UsedFacts, CellsFinite
<1>14. Free(u) # {}
  <2>1. Cardinality(Free(u)) # 0
    BY <1>1, <1>5, <1>13
  <2> QED BY <1>13, <2>1, FS_EmptySet
<1>15. u.list \in Places \ F
  BY <1>12, ListOutside
<1>16. Within(F, u, t)
  BY <1>8, <1>9, <1>12, <1>14, <1>15, LinkFacts
<1>17. Within(F, c, t)
  BY <1>5, <1>16, WithinThen
<1>18. ASSUME Good(c) PROVE Stays(c, t)
  <2>1. Stays(c, u) /\ Good(u)
    BY <1>5, <1>18 DEF Stays
  <2>2. u.list \in Around(u, u.list)
    BY DEF Around
  <2>3. Stays(u, t)
    BY <1>8, <1>9, <1>12, <1>14, <2>1, <2>2, LinkStays
  <2> QED BY <2>1, <2>3, StaysThen
<1>19. n <= Cardinality(Free(t)) + (k + 1)
  <2>1. Free(t) = Free(u) \ {New(u)}
    BY <1>8, <1>9, <1>12, <1>14, <1>15, LinkRoom
  <2>2. New(u) \in Free(u)
    BY <1>12, <1>14, NewFacts
  <2>3. Cardinality(Free(u) \ {New(u)}) = Cardinality(Free(u)) - 1
    BY <1>13, <2>2, FS_RemoveElement
  <2> QED BY <1>1, <1>5, <1>13, <2>1, <2>3
<1>20. t \in Memories
  BY <1>16 DEF Within, Sane
<1>21. g \in [t : Memories, from : Places] /\ g.t = t /\ g.from = p[(k + 1) + 1]
  BY <1>6, <1>11, <1>20
<1>22. Lengthens(s, c, p, k + 1, t)
  <2>1. v = s.data[p[k + 1]]
    BY <1>5, <1>7
  <2> QED BY <1>5, <1>8, <1>9, <1>12, <1>14, <2>1, LinkLengthens
<1> QED BY <1>2, <1>10, <1>17, <1>18, <1>19, <1>21, <1>22 DEF Adds

LEMMA AddFacts ==
    ASSUME NEW s, Sane(s), NEW c, NEW n, NEW p, NEW q, IsCopy(s, c, n, p, q),
           Room(s, 2 * Cardinality(s.nodes) + 1),
           NEW t, t = Iterate(AddStep(s), [t |-> c, from |-> s.next[s.list]], N).t
    PROVE  Within(Used(s), c, t) /\ (Good(c) => Stays(c, t)) /\ Lengthens(s, c, p, n, t)
<1>1. /\ Forth(s.next, s.list, n, p) /\ n \in Nat /\ Inner(n, p) \subseteq s.nodes
      /\ Sane(c) /\ Fenced(c, Used(s))
      /\ Cardinality(Free(s)) <= Cardinality(Free(c)) + n + 1
  BY DEF IsCopy, Forth, Apart
<1>2. /\ IsFiniteSet(s.nodes) /\ Cardinality(s.nodes) \in Nat
      /\ Cardinality(Free(s)) \in Nat /\ Cardinality(Free(c)) \in Nat
  BY <1>1, UsedFacts, CellsFinite
<1>3. n <= Cardinality(s.nodes) /\ n <= N /\ N \in Nat
  BY <1>1, <1>2, UsedFacts, CellsFinite, ForthLength, PlaceFacts
<1>4. n <= Cardinality(Free(c)) + 0
  <2>1. Cardinality(Free(s)) >= 2 * Cardinality(s.nodes) + 1
    BY DEF Room
  <2> QED BY <1>1, <1>2, <1>3, <2>1
<1>5. PICK x : x = [t |-> c, from |-> s.next[s.list]]
  OBVIOUS
<1>6. PICK f : f = AddStep(s)
  OBVIOUS
<1> DEFINE T == {k \in Nat : k <= n => Adds(s, c, n, p, k, Iterate(f, x, k))}
<1>7. 0 \in T
  <2>1. Iterate(f, x, 0) = x
    BY IterateSteps
  <2>2. s.next[s.list] = p[0 + 1] /\ p[0 + 1] \in Places
    <3>1. 0 \in 0 .. n /\ 0 + 1 \in 0 .. n + 1
      BY <1>1
    <3> QED BY <1>1, <3>1 DEF Forth
  <2>3. c \in Memories
    BY <1>1 DEF Sane
  <2>4. x \in [t : Memories, from : Places] /\ x.t = c /\ x.from = p[0 + 1]
    BY <1>5, <2>2, <2>3
  <2>5. Within(Used(s), c, c) /\ (Good(c) => Stays(c, c))
    BY <1>1, WithinSelf, StaysSelf
  <2>6. Lengthens(s, c, p, 0, c)
    <3>1. ASSUME NEW j, NEW y, Chain(c, c.list, j, y)
          PROVE  j + 0 = j /\ \A i \in 1 .. 0 : FALSE
      BY <3>1 DEF Chain, Rounds, Forth
    <3>2. ASSUME NEW j, NEW y, Chain(c, c.list, j, y) PROVE Longer(s, c, p, 0, c, j, y, y)
      BY <3>1, <3>2 DEF Longer
    <3> QED BY <3>2 DEF Lengthens
  <2>7. Adds(s, c, n, p, 0, x)
    BY <1>4, <2>4, <2>5, <2>6 DEF Adds
  <2> QED BY <2>1, <2>7
<1>8. ASSUME NEW k \in Nat, k <= n => Adds(s, c, n, p, k, Iterate(f, x, k)), k + 1 <= n
      PROVE  Adds(s, c, n, p, k + 1, Iterate(f, x, k + 1))
  <2>1. Iterate(f, x, k + 1) = f[Iterate(f, x, k)]
    BY IterateSteps
  <2>2. k < n /\ k <= n
    BY <1>1, <1>8
  <2>3. Adds(s, c, n, p, k + 1, AddStep(s)[Iterate(f, x, k)])
    BY <1>8, <2>2, AddTurn
  <2> QED BY <1>6, <2>1, <2>3
<1>9. \A k \in Nat : k \in T => k + 1 \in T
  BY <1>8
<1>10. \A k \in Nat : k \in T
  <2> HIDE DEF T
  <2> QED BY <1>7, <1>9, NatSet
<1>11. PICK r : r = Iterate(f, x, n)
  OBVIOUS
<1>12. Adds(s, c, n, p, n, r)
  BY <1>1, <1>10, <1>11
<1>13. f[r] = r
  <2>1. r \in [t : Memories, from : Places] /\ r.from = s.list
    BY <1>1, <1>12 DEF Adds, Forth
  <2> QED BY <1>6, <2>1 DEF AddStep
<1>14. Iterate(f, x, N) = r
  BY <1>1, <1>3, <1>11, <1>13, IterateStops
<1>15. t = r.t
  BY <1>5, <1>6, <1>14
<1> QED BY <1>12, <1>15 DEF Adds
---------------------------------------------------------------------------
(* The invariant.                                                          *)

\* The other handle's ring is behind the fence.
OtherOK(F, W, s) ==
    s.other \notin {Null, s.list} \cup W
        => \E n, p : Chain(s, s.other, n, p) /\ Cycle(n, p) \subseteq F

\* The list has a block: its ring is in front of a fence.  W are the twisted
\* headers.
Open(F, W, s) ==
    /\ Fenced(s, F) /\ OtherOK(F, W, s)
    /\ s.list \notin W => Good(s)
    /\ W = {} => s.nodes = Elements(s, s.list) \cup Elements(s, s.other)

\* It has none.
Shut(W, s) ==
    /\ OtherOK(Used(s), W, s)
    /\ W = {} => s.nodes = Elements(s, s.other)

Kept(W, s) == IF s.list = Null THEN Shut(W, s) ELSE \E F : Open(F, W, s)

Base(W, s) ==
    Sane(s) /\ s.next[Null] = Null /\ s.count[Null] = 0 /\ W \subseteq s.heads \ {Null}

RingInv ==
    /\ it \in Places \ {Null} /\ Base(twisted, m)
    /\ m.fault = "no" => Kept(twisted, m)

LEMMA NullRing ==
    ASSUME NEW s, Sane(s), s.next[Null] = Null
    PROVE  Elements(s, Null) = {}
<1>1. PICK f : f = s.next
  OBVIOUS
<1>2. f \in [Places -> Places] /\ Null \in Places /\ f[Null] = Null
  BY <1>1, UsedFacts, PlaceFacts
<1>3. Reaches(f, Null, Null, 0)
  <2>1. Longest \in Nat
    BY PlaceFacts DEF Longest
  <2>2. Iterate(f, Null, 0) = Null
    BY IterateSteps
  <2> QED BY <2>1, <2>2 DEF Reaches
<1>4. Steps(f, Null, Null) = 0
  BY <1>2, <1>3, StepsFacts, ReachesOnce
<1>5. PICK w : w = Nodes(s, Null)
  OBVIOUS
<1>6. w = [k \in 1 .. 0 |-> Iterate(f, Null, k - 1)]
  BY <1>1, <1>2, <1>4, <1>5 DEF Nodes, Path
<1>7. DOMAIN w = {}
  BY <1>6
<1> QED BY <1>5, <1>7 DEF Elements

\* A ring that did not change.
LEMMA SameChain ==
    ASSUME NEW s, NEW t, NEW h, NEW n, NEW p, Chain(s, h, n, p),
           \A c \in Cycle(n, p) : t.next[c] = s.next[c] /\ t.prev[c] = s.prev[c],
           Inner(n, p) \subseteq t.nodes, t.count[h] = s.count[h]
    PROVE  Chain(t, h, n, p)
<1>1. Rounds(t.next, t.prev, h, n, p)
  BY SameRound DEF Chain
<1> QED BY <1>1 DEF Chain

\* Behind the fence it does not.
LEMMA BehindChain ==
    ASSUME NEW F, NEW s, NEW t, Sane(s), Sane(t), Same(F, s, t), NEW h, NEW n, NEW p,
           Chain(s, h, n, p), Cycle(n, p) \subseteq F
    PROVE  Chain(t, h, n, p) /\ Elements(t, h) = Elements(s, h) /\ Elements(s, h) \subseteq F
<1>1. Cycle(n, p) = Inner(n, p) \cup {h}
  BY CycleFacts DEF Chain, Rounds
<1>2. \A c \in Cycle(n, p) : t.next[c] = s.next[c] /\ t.prev[c] = s.prev[c]
  BY DEF Same
<1>3. Inner(n, p) \subseteq t.nodes
  BY <1>1 DEF Same, Chain
<1>4. t.count[h] = s.count[h]
  BY <1>1 DEF Same
<1>5. Chain(t, h, n, p)
  BY <1>2, <1>3, <1>4, SameChain
<1>6. Elements(t, h) = Inner(n, p) /\ Elements(s, h) = Inner(n, p)
  BY <1>5, ChainRing
<1> QED BY <1>1, <1>5, <1>6

LEMMA GoodElements ==
    ASSUME NEW s, Sane(s), NEW F, Fenced(s, F), Good(s)
    PROVE  /\ Elements(s, s.list) \subseteq s.nodes /\ Elements(s, s.list) \cap F = {}
           /\ Around(s, s.list) \subseteq Used(s) /\ Around(s, s.list) \subseteq Places \ F
           /\ Around(s, s.list) = Elements(s, s.list) \cup {s.list}
           /\ s.list \notin Elements(s, s.list)
<1>1. PICK n, p : Chain(s, s.list, n, p)
  BY DEF Good
<1>2. /\ Inner(n, p) \subseteq s.nodes
      /\ Cycle(n, p) \subseteq Used(s) /\ Cycle(n, p) \subseteq Places \ F
      /\ Cycle(n, p) = Inner(n, p) \cup {s.list} /\ s.list \notin Inner(n, p)
      /\ Cycle(n, p) = Around(s, s.list) /\ Elements(s, s.list) = Inner(n, p)
  BY <1>1, AroundFacts
<1> QED BY <1>2

\* A call that leaves what is behind the fence alone, and the list's ring a ring
\* if it is not twisted now, keeps the invariant.
LEMMA OpenStays ==
    ASSUME NEW F, NEW W, NEW s, Base(W, s), Open(F, W, s), NEW t, Within(F, s, t),
           NEW W2, W \subseteq W2, s.list \notin W2 => Stays(s, t)
    PROVE  Open(F, W2, t)
<1>1. Sane(s) /\ Sane(t) /\ Fenced(s, F) /\ Fenced(t, F) /\ Same(F, s, t)
  BY DEF Base, Within, Open
<1>2. /\ t.list = s.list /\ t.other = s.other /\ {s.list, s.other} \subseteq s.heads
      /\ s.next[Null] = Null /\ t.next[Null] = Null
  BY <1>1 DEF Within, Same, Base, Sane, Fenced
<1>3. ASSUME s.other \notin {Null, s.list} \cup W2
      PROVE  /\ \E n, p : Chain(t, s.other, n, p) /\ Cycle(n, p) \subseteq F
             /\ Elements(t, s.other) = Elements(s, s.other) /\ Elements(s, s.other) \subseteq F
  <2>1. PICK n, p : Chain(s, s.other, n, p) /\ Cycle(n, p) \subseteq F
    BY <1>3 DEF Open, OtherOK
  <2> QED BY <1>1, <2>1, BehindChain
<1>4. OtherOK(F, W2, t)
  BY <1>2, <1>3 DEF OtherOK
<1>5. t.list \notin W2 => Good(t)
  BY <1>2 DEF Stays
<1>6. ASSUME W2 = {} PROVE t.nodes = Elements(t, t.list) \cup Elements(t, t.other)
  <2>1. W = {} /\ Stays(s, t) /\ Good(s) /\ s.nodes = Elements(s, s.list) \cup Elements(s, s.other)
    BY <1>6 DEF Open
  <2>2. /\ Elements(t, t.list) \subseteq t.nodes
        /\ t.nodes \ Elements(t, t.list) = s.nodes \ Elements(s, s.list)
    BY <1>1, <2>1, GoodElements DEF Stays
  <2>3. CASE s.other = s.list
    BY <1>2, <2>1, <2>2, <2>3
  <2>4. CASE s.other = Null
    <3>1. Elements(s, Null) = {} /\ Elements(t, Null) = {}
      BY <1>1, <1>2, NullRing
    <3> QED BY <1>2, <2>1, <2>2, <2>4, <3>1
  <2>5. CASE s.other # s.list /\ s.other # Null
    <3>1. Elements(t, s.other) = Elements(s, s.other) /\ Elements(s, s.other) \subseteq F
      BY <1>3, <1>6, <2>5
    <3>2. Elements(s, s.list) \cap F = {}
      BY <1>1, <2>1, GoodElements
    <3> QED BY <1>2, <2>1, <2>2, <3>1, <3>2
  <2> QED BY <2>3, <2>4, <2>5
<1> QED BY <1>1, <1>4, <1>5, <1>6 DEF Open

\* The list has a block of its own and is worked on.
Ready(F, W, s) ==
    /\ Base(W, s) /\ s.list # Null /\ Fenced(s, F)
    /\ s.fault = "no" => Open(F, W, s)

LEMMA Worked ==
    ASSUME NEW F, NEW W, NEW s, Ready(F, W, s), NEW t, Within(F, s, t),
           NEW W2, W \subseteq W2, W2 \subseteq s.heads \ {Null},
           s.fault = "no" /\ t.fault = "no" /\ s.list \notin W2 => Stays(s, t)
    PROVE  Ready(F, W2, t)
<1>1. /\ t.list = s.list /\ t.heads = s.heads /\ Fenced(t, F) /\ Sane(t)
      /\ t.next[Null] = s.next[Null] /\ t.count[Null] = s.count[Null]
  BY DEF Within, Same, Fenced
<1>2. Base(W2, t)
  BY <1>1 DEF Ready, Base
<1>3. ASSUME t.fault = "no" PROVE Open(F, W2, t)
  <2>1. s.fault = "no"
    BY <1>3 DEF Within
  <2> QED BY <1>3, <2>1, OpenStays DEF Ready
<1> QED BY <1>1, <1>2, <1>3 DEF Ready
---------------------------------------------------------------------------
(* What a call starts with.                                                *)

\* The twisted headers after the call.
Widened(W, s, t) == W \cup (IF s.list \in W THEN {t.list} \ {Null} ELSE {})

\* detach() leaves nothing to detach, and fails only on a twisted ring.
Detached(W, s, t) ==
    /\ \E F : Ready(F, Widened(W, s, t), t)
    /\ detach(t) = t
    /\ t.fault # "no" => s.list \in W
    /\ Cardinality(Free(s)) <= Cardinality(Free(t)) + Cardinality(s.nodes) + 1

LEMMA ApartSame ==
    ASSUME NEW s, Sane(s), NEW t, Apart(s, t)
    PROVE  /\ s.heads \subseteq t.heads /\ s.nodes \subseteq t.nodes
           /\ t.next[Null] = s.next[Null] /\ t.count[Null] = s.count[Null]
           /\ t.other = s.other /\ t.other # t.list /\ t.list # Null
BY DEF Apart, Same, Used, Sane

LEMMA DetachNull ==
    ASSUME NEW W, NEW s, Base(W, s), s.fault = "no", Kept(W, s), s.list = Null,
           Room(s, Cardinality(s.nodes) + 1), NEW t, t = detach(s)
    PROVE  Detached(W, s, t)
<1>1. Sane(s) /\ Null \notin W /\ W \subseteq s.heads \ {Null} /\ s.next[Null] = Null
      /\ s.count[Null] = 0
  BY DEF Base
<1>2. /\ IsFiniteSet(s.nodes) /\ Cardinality(s.nodes) \in Nat
      /\ IsFiniteSet(Free(s)) /\ Cardinality(Free(s)) \in Nat
  BY <1>1, UsedFacts, CellsFinite
<1>3. Free(s) # {}
  <2>1. Cardinality(Free(s)) >= Cardinality(s.nodes) + 1
    BY DEF Room
  <2>2. Cardinality(Free(s)) # 0
    BY <1>2, <2>1
  <2> QED BY <1>2, <2>2, FS_EmptySet
<1>4. t = NewHeader(s)
  BY DEF detach
<1>5. Apart(s, t) /\ Good(t) /\ Elements(t, t.list) = {} /\ t.nodes = s.nodes
  BY <1>1, <1>3, <1>4, HeaderGood
<1>6. /\ s.heads \subseteq t.heads /\ s.nodes \subseteq t.nodes
      /\ t.next[Null] = s.next[Null] /\ t.count[Null] = s.count[Null]
      /\ t.other = s.other /\ t.other # t.list /\ t.list # Null
  BY <1>1, <1>5, ApartSame
<1>7. Widened(W, s, t) = W
  BY <1>1 DEF Widened
<1>8. PICK F : F = Used(s)
  OBVIOUS
<1>9. Sane(t) /\ Fenced(t, F) /\ Same(F, s, t) /\ t.fault = s.fault
  BY <1>5, <1>8 DEF Apart
<1>10. Shut(W, s)
  BY DEF Kept
<1>11. ASSUME s.other \notin {Null} \cup W
       PROVE  /\ \E n, p : Chain(t, s.other, n, p) /\ Cycle(n, p) \subseteq F
              /\ Elements(t, s.other) = Elements(s, s.other)
  <2>1. PICK n, p : Chain(s, s.other, n, p) /\ Cycle(n, p) \subseteq F
    BY <1>8, <1>10, <1>11 DEF Shut, OtherOK
  <2> QED BY <1>1, <1>9, <2>1, BehindChain
<1>12. Open(F, W, t)
  <2>1. OtherOK(F, W, t)
    BY <1>6, <1>11 DEF OtherOK
  <2>2. ASSUME W = {} PROVE t.nodes = Elements(t, t.list) \cup Elements(t, t.other)
    <3>1. s.nodes = Elements(s, s.other)
      BY <1>10, <2>2 DEF Shut
    <3>2. CASE s.other = Null
      <4>1. Elements(s, Null) = {} /\ Elements(t, Null) = {}
        BY <1>1, <1>6, <1>9, NullRing
      <4> QED BY <1>5, <1>6, <3>1, <3>2, <4>1
    <3>3. CASE s.other # Null
      BY <1>5, <1>6, <1>11, <2>2, <3>1, <3>3
    <3> QED BY <3>2, <3>3
  <2> QED BY <1>5, <1>9, <2>1, <2>2 DEF Open
<1>13. Ready(F, W, t)
  <2>1. Base(W, t)
    BY <1>1, <1>6, <1>9 DEF Base
  <2> QED BY <1>6, <1>9, <1>12, <2>1 DEF Ready
<1>14. detach(t) = t
  BY <1>6 DEF detach, is_shared
<1>15. Cardinality(Free(s)) <= Cardinality(Free(t)) + Cardinality(s.nodes) + 1
  <2>1. PICK h : h = New(s)
    OBVIOUS
  <2>2. t.heads = s.heads \cup {h} /\ h \in Free(s)
    BY <1>1, <1>3, <1>4, <2>1, HeaderFacts, NewFacts
  <2>3. Free(t) = Free(s) \ {h}
    BY <1>5, <2>2 DEF Free, Used
  <2>4. Cardinality(Free(t)) = Cardinality(Free(s)) - 1
    BY <1>2, <2>2, <2>3, FS_RemoveElement
  <2> QED BY <1>2, <2>4
<1> QED BY <1>7, <1>9, <1>13, <1>14, <1>15 DEF Detached

LEMMA DetachCopy ==
    ASSUME NEW W, NEW s, Base(W, s), s.fault = "no", NEW F0, Open(F0, W, s), s.list # Null,
           is_shared(s), size(s) > 0, Closed(s, s.list),
           Room(s, Cardinality(s.nodes) + 1), NEW t, t = detach(s)
    PROVE  /\ Detached(W, s, t) /\ Ready(Used(s), Widened(W, s, t), t)
           /\ \E n, p, q : IsCopy(s, t, n, p, q)
<1>1. Sane(s) /\ Null \notin W /\ W \subseteq s.heads \ {Null} /\ s.next[Null] = Null
      /\ s.count[Null] = 0 /\ Fenced(s, F0)
  BY DEF Base, Open
<1>2. t = copy(s) /\ s.other = s.list
  BY DEF detach, is_shared
<1>3. PICK n, p, q : IsCopy(s, t, n, p, q)
  BY <1>1, <1>2, CopyFacts
<1>4. PICK F : F = Used(s)
  OBVIOUS
<1>5. Apart(s, t) /\ Sane(t) /\ Fenced(t, F) /\ Same(F, s, t) /\ t.fault = s.fault /\ t.list \notin F
  BY <1>3, <1>4 DEF Apart, IsCopy
<1>6. /\ s.heads \subseteq t.heads /\ s.nodes \subseteq t.nodes
      /\ t.next[Null] = s.next[Null] /\ t.count[Null] = s.count[Null]
      /\ t.other = s.other /\ t.other # t.list /\ t.list # Null /\ t.list \in t.heads
  BY <1>1, <1>5, ApartSame DEF Sane
<1>7. PICK V : V = Widened(W, s, t)
  OBVIOUS
<1>8. /\ W \subseteq V /\ V \subseteq W \cup {t.list}
      /\ t.list \in V <=> s.list \in W
      /\ V = {} => W = {}
  <2>1. t.list \notin W
    BY <1>1, <1>4, <1>5 DEF Used
  <2> QED BY <1>6, <1>7, <2>1 DEF Widened
<1>9. ASSUME s.list \notin W
      PROVE  /\ \E k, w : Chain(t, s.list, k, w) /\ Cycle(k, w) \subseteq F
             /\ Elements(t, s.list) = Elements(s, s.list)
             /\ Chain(t, t.list, n, q) /\ Elements(t, t.list) = t.nodes \ s.nodes
  <2>1. PICK k, w : Chain(s, s.list, k, w)
    BY <1>9 DEF Open, Good
  <2>2. Cycle(k, w) \subseteq F
    BY <1>1, <1>4, <2>1, AroundFacts
  <2>3. Chain(t, s.list, k, w) /\ Elements(t, s.list) = Elements(s, s.list)
    BY <1>1, <1>5, <2>1, <2>2, BehindChain
  <2>4. k = n
    <3>1. Steps(s.next, s.next[s.list], s.list) = k
      BY <1>1, <2>1, ChainRing
    <3>2. Forth(s.next, s.list, n, p) /\ Inner(n, p) \subseteq Cells /\ s.next \in [Places -> Places]
      BY <1>1, <1>3, UsedFacts DEF IsCopy
    <3>3. Steps(s.next, s.next[s.list], s.list) = n
      BY <3>2, ForthSteps
    <3> QED BY <3>1, <3>3
  <2>5. s.count[s.list] = k
    BY <2>1 DEF Chain
  <2>6. Chain(t, t.list, n, q) /\ Inner(n, q) = t.nodes \ s.nodes
    BY <1>3, <2>4, <2>5 DEF IsCopy, Chain
  <2>7. Elements(t, t.list) = t.nodes \ s.nodes
    BY <1>5, <2>6, ChainRing
  <2> QED BY <2>2, <2>3, <2>6, <2>7
<1>10. Open(F, V, t)
  <2>1. OtherOK(F, V, t)
    BY <1>2, <1>6, <1>8, <1>9 DEF OtherOK
  <2>2. t.list \notin V => Good(t)
    BY <1>8, <1>9 DEF Good
  <2>3. ASSUME V = {} PROVE t.nodes = Elements(t, t.list) \cup Elements(t, t.other)
    <3>1. s.nodes = Elements(s, s.list) \cup Elements(s, s.other) /\ s.list \notin W
      BY <1>8, <2>3 DEF Open
    <3> QED BY <1>2, <1>6, <1>9, <3>1
  <2> QED BY <1>5, <2>1, <2>2, <2>3 DEF Open
<1>11. Ready(F, V, t)
  <2>1. Base(V, t)
    BY <1>1, <1>5, <1>6, <1>8 DEF Base
  <2> QED BY <1>5, <1>6, <1>10, <2>1 DEF Ready
<1>12. detach(t) = t
  BY <1>6 DEF detach, is_shared
<1>13. Cardinality(Free(s)) <= Cardinality(Free(t)) + Cardinality(s.nodes) + 1
  <2>1. /\ IsFiniteSet(s.nodes) /\ Cardinality(s.nodes) \in Nat
        /\ Cardinality(Free(s)) \in Nat /\ Cardinality(Free(t)) \in Nat
    BY <1>1, <1>5, UsedFacts, CellsFinite
  <2>2. Forth(s.next, s.list, n, p) /\ Inner(n, p) \subseteq s.nodes /\ n \in Nat
        /\ Cardinality(Free(s)) <= Cardinality(Free(t)) + n + 1
    BY <1>3 DEF IsCopy, Forth
  <2>3. n <= Cardinality(s.nodes)
    BY <2>1, <2>2, ForthLength
  <2> QED BY <2>1, <2>2, <2>3
<1>14. Detached(W, s, t)
  BY <1>5, <1>7, <1>11, <1>12, <1>13 DEF Detached
<1> QED BY <1>3, <1>4, <1>7, <1>11, <1>14

LEMMA DetachFacts ==
    ASSUME NEW W, NEW s, Base(W, s), s.fault = "no", Kept(W, s),
           Room(s, Cardinality(s.nodes) + 1), NEW t, t = detach(s)
    PROVE  Detached(W, s, t)
<1>1. CASE s.list = Null
  BY <1>1, DetachNull
<1>2. CASE s.list # Null
  <2>1. PICK F : Open(F, W, s)
    BY <1>2 DEF Kept
  <2>2. Sane(s) /\ Fenced(s, F) /\ Null \notin W
    BY <2>1 DEF Base, Open
  <2>3. Widened(W, s, s) = W
    BY <2>2 DEF Widened
  <2>4. Cardinality(s.nodes) \in Nat /\ Cardinality(Free(s)) \in Nat
    BY <2>2, UsedFacts, CellsFinite
  <2>5. Cardinality(Free(s)) <= Cardinality(Free(s)) + Cardinality(s.nodes) + 1
    BY <2>4
  <2>6. Ready(F, W, s)
    BY <1>2, <2>1, <2>2 DEF Ready
  <2>7. CASE is_shared(s) /\ size(s) > 0 /\ Closed(s, s.list)
    BY <1>2, <2>1, <2>7, DetachCopy
  <2>8. CASE is_shared(s) /\ size(s) > 0 /\ ~Closed(s, s.list)
    <3>1. t = Fails(s, "hang")
      BY <1>2, <2>8 DEF detach, copy
    <3>2. "hang" \in Faults /\ "hang" # "no"
      BY DEF Faults
    <3>3. Within(F, s, t)
      BY <2>2, <3>1, <3>2, WithinSelf, WithinFails
    <3>4. /\ t \in Memories /\ Rest(s, t) /\ t.next = s.next /\ t.prev = s.prev /\ t.fault # "no"
      BY <2>2, <3>1, <3>2, FailsFields DEF Sane
    <3>5. Widened(W, s, t) = W
      BY <2>3, <3>4 DEF Widened, Rest
    <3>6. Ready(F, W, t)
      BY <2>6, <3>3, <3>4, Worked DEF Ready, Base
    <3>7. detach(t) = t
      <4>1. t.list = s.list /\ t.other = s.other /\ t.count = s.count
        BY <3>4 DEF Rest
      <4>2. is_shared(t) /\ size(t) > 0 /\ t.list # Null
        BY <1>2, <2>8, <4>1 DEF is_shared, size
      <4>3. ~Closed(t, t.list)
        BY <2>8, <3>4, <4>1 DEF Closed
      <4>4. detach(t) = Fails(t, "hang")
        BY <4>2, <4>3 DEF detach, copy
      <4>5. Fails(t, "hang") = t
        <5>1. Fails(t, "hang") = [t EXCEPT !.fault = t.fault]
          BY <3>4 DEF Fails, Memories
        <5> QED BY <3>4, <5>1 DEF Memories
      <4> QED BY <4>4, <4>5
    <3>8. s.list \in W
      BY <2>1, <2>2, <2>8, ChainRing DEF Open, Good
    <3>9. Free(t) = Free(s)
      BY <3>4 DEF Free, Used, Rest
    <3> QED BY <2>5, <3>5, <3>6, <3>7, <3>8, <3>9 DEF Detached
  <2>9. CASE ~(is_shared(s) /\ size(s) > 0)
    <3>1. t = s
      BY <1>2, <2>9 DEF detach
    <3> QED BY <2>3, <2>5, <2>6, <3>1 DEF Detached
  <2> QED BY <2>7, <2>8, <2>9
<1> QED BY <1>1, <1>2
---------------------------------------------------------------------------
(* A call on a detached list.                                              *)

\* It leaves what is behind any fence alone, and a ring a ring, or it fails.
Works(s, t) ==
    \A F : Sane(s) /\ Fenced(s, F)
           => /\ Within(F, s, t)
              /\ s.fault = "no" /\ t.fault = "no" /\ Good(s) => Stays(s, t)

Encloses(s, t) == \A F : Sane(s) /\ Fenced(s, F) => Within(F, s, t)

\* Of a ring it does not fail.
Succeeds(s, t) ==
    Sane(s) /\ s.fault = "no" /\ Good(s) /\ (\E F : Fenced(s, F)) => t.fault = "no"

LEMMA WorksStays ==
    ASSUME NEW s, NEW t,
           \A F : Sane(s) /\ Fenced(s, F)
                  => Within(F, s, t) /\ (s.fault = "no" /\ Good(s) => Stays(s, t))
    PROVE  Works(s, t) /\ Succeeds(s, t)
<1>1. Works(s, t)
  BY DEF Works
<1>2. ASSUME Sane(s), s.fault = "no", Good(s), NEW F, Fenced(s, F) PROVE t.fault = "no"
  BY <1>2 DEF Stays
<1> QED BY <1>1, <1>2 DEF Succeeds

LEMMA WorksSelf == \A s : Works(s, s) /\ Succeeds(s, s)
<1> SUFFICES ASSUME NEW s PROVE Works(s, s) /\ Succeeds(s, s)
  OBVIOUS
<1>1. \A F : Sane(s) /\ Fenced(s, F)
             => Within(F, s, s) /\ (s.fault = "no" /\ Good(s) => Stays(s, s))
  BY WithinSelf, StaysSelf
<1> QED BY <1>1, WorksStays

LEMMA WorksFails ==
    ASSUME NEW s, NEW what \in Faults, what # "no", NEW t, t = Fails(s, what)
    PROVE  Works(s, t)
<1>1. ASSUME NEW F, Sane(s), Fenced(s, F) PROVE Within(F, s, t) /\ t.fault # "no"
  <2>1. Within(F, s, t)
    BY <1>1, WithinSelf, WithinFails
  <2>2. s \in Memories
    BY <1>1 DEF Sane
  <2> QED BY <2>1, <2>2, FailsFields
<1> QED BY <1>1 DEF Works

\* The cells a walk from a ring's first node comes to.
LEMMA PlusAround ==
    ASSUME NEW s, Sane(s), NEW F, Fenced(s, F), Good(s), NEW k \in Int
    PROVE  /\ Plus(s, begin(s), k) \in Around(s, s.list) /\ Plus(s, begin(s), k) \in Used(s)
           /\ Plus(s, begin(s), k) # s.list => Plus(s, begin(s), k) \in Elements(s, s.list)
<1>1. PICK n, p : Chain(s, s.list, n, p)
  BY DEF Good
<1>2. s.list \in Cycle(n, p)
  BY <1>1, CycleFacts DEF Chain, Rounds
<1>3. s.next[s.list] \in Cycle(n, p)
  BY <1>1, <1>2, RoundWalk DEF Chain
<1>4. Plus(s, begin(s), k) \in Cycle(n, p)
  BY <1>1, <1>3, RoundWalk DEF Chain, begin
<1> QED BY <1>1, <1>4, AroundFacts

LEMMA WorksRemove ==
    ASSUME NEW s, NEW pos \in Int, NEW t, t = RemoveAt(s, pos)
    PROVE  Works(s, t) /\ Succeeds(s, t)
<1>1. ASSUME NEW F, Sane(s), Fenced(s, F) PROVE Within(F, s, t)
  <2>1. PICK k : k = IF size(s) = 0 \/ pos < size(s) THEN pos ELSE size(s) - 1
    OBVIOUS
  <2>2. size(s) \in Int
    BY <1>1, UsedFacts DEF size
  <2>3. k \in Int
    BY <2>1, <2>2
  <2>4. PICK d : d = Plus(s, s.next[s.list], k)
    OBVIOUS
  <2>5. d \in Places \ F
    BY <1>1, <2>3, <2>4, ListOutside, PlusOutside
  <2>6. t = IF d = s.list THEN s ELSE IF d \notin s.nodes THEN Fails(s, "freed")
            ELSE Count(freenode(Out(s, d), d), -1)
    BY <2>1, <2>4 DEF RemoveAt
  <2>7. "freed" \in Faults /\ "freed" # "no"
    BY DEF Faults
  <2>8. Within(F, s, Fails(s, "freed"))
    BY <1>1, <2>7, WithinSelf, WithinFails
  <2>9. ASSUME d \in s.nodes PROVE Within(F, s, Count(freenode(Out(s, d), d), -1))
    BY <1>1, <2>5, <2>9, FreedFacts
  <2> QED BY <1>1, <2>6, <2>8, <2>9, WithinSelf
<1>2. ASSUME NEW F, Sane(s), Fenced(s, F), Good(s) PROVE Stays(s, t)
  BY <1>2, RemoveAtStays
<1> QED BY <1>1, <1>2, WorksStays
---------------------------------------------------------------------------
(* The invariant after a call.                                             *)

LEMMA ReadyKept ==
    ASSUME NEW F, NEW W, NEW s, Ready(F, W, s)
    PROVE  Base(W, s) /\ (s.fault = "no" => Kept(W, s))
BY DEF Ready, Kept

LEMMA Detaching ==
    ASSUME RingInv, m.fault = "no", Room(m, Cardinality(m.nodes) + 1), NEW s, s = detach(m)
    PROVE  Detached(twisted, m, s)
BY DetachFacts DEF RingInv

LEMMA KeepsPlace ==
    ASSUME it \in Places \ {Null}, NEW s, Keeps(s)
    PROVE  it' \in Places \ {Null}
BY PlaceFacts DEF Keeps

LEMMA Ends ==
    ASSUME NEW F, NEW W, NEW t, Ready(F, W, t), m' = t, twisted' = W, it' \in Places \ {Null}
    PROVE  RingInv'
<1>1. Base(W, t) /\ (t.fault = "no" => Kept(W, t))
  BY ReadyKept
<1> QED BY <1>1 DEF RingInv

\* The calls that detach the list and work on it; W are the headers they twist.
LEMMA CallOK ==
    ASSUME RingInv, m.fault = "no", Room(m, Cardinality(m.nodes) + 1), NEW s, s = detach(m),
           NEW t, Encloses(s, t), m' = t,
           NEW W, W \subseteq {s.list}, W = {} => Works(s, t), twisted' = twisted \cup Copied(s) \cup W,
           it' \in Places \ {Null}
    PROVE  RingInv'
<1>1. Detached(twisted, m, s)
  BY Detaching
<1>2. PICK V : V = Widened(twisted, m, s)
  OBVIOUS
<1>3. PICK F : Ready(F, V, s)
  BY <1>1, <1>2 DEF Detached
<1>4. Sane(s) /\ Fenced(s, F) /\ s.list # Null /\ V \subseteq s.heads \ {Null} /\ s.list \in s.heads
  BY <1>3 DEF Ready, Base, Sane
<1>5. twisted' = V \cup W
  BY <1>2 DEF Copied, Widened
<1>6. Within(F, s, t)
  BY <1>4 DEF Encloses
<1>7. ASSUME s.fault = "no", t.fault = "no", s.list \notin V \cup W PROVE Stays(s, t)
  <2>1. Good(s) /\ Works(s, t)
    BY <1>3, <1>7 DEF Ready, Open
  <2> QED BY <1>4, <1>7, <2>1 DEF Works
<1>8. Ready(F, V \cup W, t)
  <2>1. V \subseteq V \cup W /\ V \cup W \subseteq s.heads \ {Null}
    BY <1>4
  <2> QED BY <1>3, <1>6, <1>7, <2>1, Worked
<1> QED BY <1>5, <1>8, Ends

LEMMA DoesOK ==
    ASSUME RingInv, m.fault = "no", Room(m, Cardinality(m.nodes) + 1), NEW s, s = detach(m),
           NEW t, Works(s, t), Does(t), it' \in Places \ {Null}
    PROVE  RingInv'
<1>1. Detached(twisted, m, s)
  BY Detaching
<1>2. PICK F : Ready(F, Widened(twisted, m, s), s)
  BY <1>1 DEF Detached
<1>3. t.list = s.list
  <2>1. Sane(s) /\ Fenced(s, F)
    BY <1>2 DEF Ready, Base
  <2>2. Within(F, s, t)
    BY <2>1 DEF Works
  <2> QED BY <2>2 DEF Within
<1>4. PICK W : W = {}
  OBVIOUS
<1>5. twisted' = twisted \cup Copied(s) \cup W /\ m' = t /\ W \subseteq {s.list}
  BY <1>3, <1>4 DEF Does, Copied
<1>6. Encloses(s, t)
  BY DEF Encloses, Works
<1> QED BY <1>5, <1>6, CallOK

\* A list that is not twisted is a ring when it is detached.
LEMMA DetachedGood ==
    ASSUME RingInv, m.fault = "no", Room(m, Cardinality(m.nodes) + 1), m.list \notin twisted,
           NEW s, s = detach(m)
    PROVE  /\ Sane(s) /\ s.fault = "no" /\ Good(s) /\ \E F : Fenced(s, F)
           /\ detach(s) = s /\ size(s) = size(m)
<1>1. Detached(twisted, m, s)
  BY Detaching
<1>2. Widened(twisted, m, s) = twisted
  BY DEF Widened
<1>3. PICK F : Ready(F, twisted, s)
  BY <1>1, <1>2 DEF Detached
<1>4. s.fault = "no"
  BY <1>1 DEF Detached
<1>5. Sane(s) /\ Fenced(s, F) /\ (s.list \notin twisted => Good(s)) /\ detach(s) = s
  BY <1>1, <1>3, <1>4 DEF Ready, Base, Open, Detached
<1>6. s.list \notin twisted /\ size(s) = size(m)
  <2>1. (s = m \/ s.list \notin m.heads) /\ size(s) = size(m)
    <3>1. Sane(m) /\ twisted \subseteq m.heads
      BY DEF RingInv, Base
    <3>2. CASE m.list = Null
      <4>1. Kept(twisted, m)
        BY DEF RingInv
      <4>2. Free(m) # {}
        <5>1. IsFiniteSet(Free(m)) /\ Cardinality(Free(m)) \in Nat /\ Cardinality(m.nodes) \in Nat
          BY <3>1, UsedFacts, CellsFinite
        <5>2. Cardinality(Free(m)) # 0
          BY <5>1 DEF Room
        <5> QED BY <5>1, <5>2, FS_EmptySet
      <4>3. s = NewHeader(m)
        BY <3>2 DEF detach
      <4>4. Apart(m, s) /\ s.count[s.list] = 0
        BY <3>1, <4>2, <4>3, HeaderFacts
      <4>5. m.count[Null] = 0
        BY DEF RingInv, Base
      <4> QED BY <3>2, <4>4, <4>5 DEF Apart, Used, size
    <3>3. CASE m.list # Null /\ is_shared(m) /\ size(m) > 0
      <4>1. s = copy(m)
        BY <3>3 DEF detach
      <4>2. PICK G : Open(G, twisted, m)
        BY <3>3 DEF RingInv, Kept
      <4>3. Good(m) /\ Fenced(m, G)
        BY <4>2 DEF Open
      <4>4. Closed(m, m.list)
        BY <3>1, <4>3, ChainRing DEF Good
      <4>5. \E n, p, q : IsCopy(m, s, n, p, q)
        BY <3>1, <4>1, <4>3, <4>4, CopyFacts
      <4> QED BY <4>5 DEF IsCopy, Apart, Used, size
    <3>4. CASE m.list # Null /\ ~(is_shared(m) /\ size(m) > 0)
      BY <3>4 DEF detach
    <3> QED BY <3>2, <3>3, <3>4
  <2> QED BY <2>1 DEF RingInv, Base
<1> QED BY <1>3, <1>4, <1>5, <1>6

LEMMA CallSucceeds ==
    ASSUME RingInv, m.fault = "no", Room(m, Cardinality(m.nodes) + 1), m.list \notin twisted,
           NEW s, s = detach(m), NEW t, Succeeds(s, t), m' = t
    PROVE  m'.fault = "no"
BY DetachedGood DEF Succeeds
---------------------------------------------------------------------------
(* Calls that add a node.                                                  *)

LEMMA ShortRoom ==
    ASSUME RingInv, m.fault = "no", Room(m, Cardinality(m.nodes) + 2), NEW s, s = detach(m)
    PROVE  Room(m, Cardinality(m.nodes) + 1) /\ Free(s) # {}
<1>1. Sane(m)
  BY DEF RingInv, Base
<1>2. Cardinality(m.nodes) \in Nat /\ Cardinality(Free(m)) \in Nat
  BY <1>1, UsedFacts, CellsFinite
<1>3. Room(m, Cardinality(m.nodes) + 1)
  BY <1>2 DEF Room
<1>4. Detached(twisted, m, s)
  BY <1>3, Detaching
<1>5. Cardinality(Free(m)) <= Cardinality(Free(s)) + Cardinality(m.nodes) + 1
  BY <1>4 DEF Detached
<1>6. Sane(s)
  BY <1>4 DEF Detached, Ready, Base
<1>7. Cardinality(Free(s)) \in Nat
  BY <1>6, UsedFacts, CellsFinite
<1>8. Cardinality(Free(s)) # 0
  BY <1>2, <1>5, <1>7 DEF Room
<1>9. Free(s) # {}
  BY <1>8, FS_EmptySet
<1> QED BY <1>3, <1>9

LEMMA NewPlace ==
    ASSUME NEW s, Sane(s), Free(s) # {}
    PROVE  New(s) \in Places \ {Null}
BY NewFacts

LEMMA WorksAppend ==
    ASSUME NEW s, Free(s) # {}, NEW v \in Values, NEW t, t = Link(s, s.list, v)
    PROVE  Works(s, t) /\ Succeeds(s, t)
<1>1. ASSUME NEW F, Sane(s), Fenced(s, F) PROVE Within(F, s, t)
  BY <1>1, ListOutside, LinkFacts
<1>2. ASSUME NEW F, Sane(s), Fenced(s, F), Good(s) PROVE Stays(s, t)
  <2>1. s.list \in Around(s, s.list)
    BY DEF Around
  <2> QED BY <1>2, <2>1, LinkStays
<1> QED BY <1>1, <1>2, WorksStays

LEMMA WorksPrepend ==
    ASSUME NEW s, Free(s) # {}, NEW v \in Values, NEW t, t = LinkFirst(s, v)
    PROVE  Works(s, t) /\ Succeeds(s, t)
<1>1. ASSUME NEW F, Sane(s), Fenced(s, F) PROVE Within(F, s, t)
  BY <1>1, LinkFirstFacts
<1>2. ASSUME NEW F, Sane(s), Fenced(s, F), Good(s) PROVE Stays(s, t)
  BY <1>2, LinkFirstStays
<1> QED BY <1>1, <1>2, WorksStays

LEMMA WorksInsert ==
    ASSUME NEW s, Free(s) # {}, NEW v \in Values, NEW k \in Int, NEW d, d = Plus(s, begin(s), k),
           NEW t, t = IF d \in Used(s) THEN Link(s, d, v) ELSE Fails(s, "freed")
    PROVE  Works(s, t) /\ Succeeds(s, t)
<1>1. ASSUME NEW F, Sane(s), Fenced(s, F) PROVE Within(F, s, t)
  <2>1. d \in Places \ F
    BY <1>1, ListOutside, PlusOutside DEF begin
  <2>2. Within(F, s, Link(s, d, v))
    BY <1>1, <2>1, LinkFacts
  <2>3. "freed" \in Faults /\ "freed" # "no"
    BY DEF Faults
  <2>4. Within(F, s, Fails(s, "freed"))
    BY <1>1, <2>3, WithinSelf, WithinFails
  <2> QED BY <2>2, <2>4
<1>2. ASSUME NEW F, Sane(s), Fenced(s, F), Good(s) PROVE Stays(s, t)
  <2>1. d \in Around(s, s.list) /\ d \in Used(s)
    BY <1>2, PlusAround
  <2> QED BY <1>2, <2>1, LinkStays
<1> QED BY <1>1, <1>2, WorksStays

LEMMA Append1OK ==
    ASSUME RingInv, NEW v \in Values, Append1(v)
    PROVE  RingInv' /\ (m.list \notin twisted => m'.fault = "no")
<1>1. m.fault = "no" /\ Room(m, Cardinality(m.nodes) + 2)
  BY DEF Append1, Call, Short
<1>2. PICK s : s = detach(m)
  OBVIOUS
<1>3. Room(m, Cardinality(m.nodes) + 1) /\ Free(s) # {}
  BY <1>1, <1>2, ShortRoom
<1>4. PICK t : t = Link(s, s.list, v)
  OBVIOUS
<1>5. Does(t) /\ Keeps(s)
  BY <1>2, <1>4 DEF Append1
<1>6. Works(s, t) /\ Succeeds(s, t)
  BY <1>3, <1>4, WorksAppend
<1>7. it' \in Places \ {Null}
  BY <1>5, KeepsPlace DEF RingInv
<1>8. RingInv'
  BY <1>1, <1>2, <1>3, <1>5, <1>6, <1>7, DoesOK
<1> QED BY <1>1, <1>2, <1>3, <1>5, <1>6, <1>8, CallSucceeds DEF Does

LEMMA PrependOK ==
    ASSUME RingInv, NEW v \in Values, Prepend(v)
    PROVE  RingInv' /\ (m.list \notin twisted => m'.fault = "no")
<1>1. m.fault = "no" /\ Room(m, Cardinality(m.nodes) + 2)
  BY DEF Prepend, Call, Short
<1>2. PICK s : s = detach(m)
  OBVIOUS
<1>3. Room(m, Cardinality(m.nodes) + 1) /\ Free(s) # {}
  BY <1>1, <1>2, ShortRoom
<1>4. PICK t : t = LinkFirst(s, v)
  OBVIOUS
<1>5. Does(t) /\ Keeps(s)
  BY <1>2, <1>4 DEF Prepend
<1>6. Works(s, t) /\ Succeeds(s, t)
  BY <1>3, <1>4, WorksPrepend
<1>7. it' \in Places \ {Null}
  BY <1>5, KeepsPlace DEF RingInv
<1>8. RingInv'
  BY <1>1, <1>2, <1>3, <1>5, <1>6, <1>7, DoesOK
<1> QED BY <1>1, <1>2, <1>3, <1>5, <1>6, <1>8, CallSucceeds DEF Does

LEMMA InsertOK ==
    ASSUME RingInv, NEW pos \in Positions, NEW v \in Values, Insert(pos, v)
    PROVE  RingInv' /\ (m.list \notin twisted => m'.fault = "no")
<1>1. m.fault = "no" /\ Room(m, Cardinality(m.nodes) + 2) /\ pos \in Int
  BY RingAssumptions DEF Insert, Call, Short, Positions
<1>2. PICK s : s = detach(m)
  OBVIOUS
<1>3. Room(m, Cardinality(m.nodes) + 1) /\ Free(s) # {}
  BY <1>1, <1>2, ShortRoom
<1>4. Sane(s)
  BY <1>1, <1>2, <1>3, Detaching DEF Detached, Ready, Base
<1>5. PICK k : k = IF pos > size(s) THEN size(s) - 1 ELSE pos
  OBVIOUS
<1>6. k \in Int
  BY <1>1, <1>4, <1>5, UsedFacts DEF size
<1>7. PICK d : d = Plus(s, begin(s), k)
  OBVIOUS
<1>8. PICK t : t = IF d \in Used(s) THEN Link(s, d, v) ELSE Fails(s, "freed")
  OBVIOUS
<1>9. Does(t) /\ it' \in {it, New(s)}
  BY <1>2, <1>5, <1>7, <1>8 DEF Insert
<1>10. Works(s, t) /\ Succeeds(s, t)
  BY <1>3, <1>6, <1>7, <1>8, WorksInsert
<1>11. it' \in Places \ {Null}
  BY <1>3, <1>4, <1>9, NewPlace DEF RingInv
<1>12. RingInv'
  BY <1>1, <1>2, <1>3, <1>9, <1>10, <1>11, DoesOK
<1> QED BY <1>1, <1>2, <1>3, <1>9, <1>10, <1>12, CallSucceeds DEF Does
---------------------------------------------------------------------------
(* Calls that take one out or change it.                                   *)

LEMMA RemoveOK ==
    ASSUME RingInv, NEW pos \in Positions, Remove(pos)
    PROVE  RingInv' /\ (m.list \notin twisted => m'.fault = "no")
<1>1. m.fault = "no" /\ Room(m, Cardinality(m.nodes) + 1) /\ pos \in Int
  BY RingAssumptions DEF Remove, Call, Roomy, Positions
<1>2. PICK s : s = detach(m)
  OBVIOUS
<1>3. PICK t : t = RemoveAt(s, pos)
  OBVIOUS
<1>4. Does(t) /\ Keeps(t)
  BY <1>2, <1>3 DEF Remove
<1>5. Works(s, t) /\ Succeeds(s, t)
  BY <1>1, <1>3, WorksRemove
<1>6. it' \in Places \ {Null}
  BY <1>4, KeepsPlace DEF RingInv
<1>7. RingInv'
  BY <1>1, <1>2, <1>4, <1>5, <1>6, DoesOK
<1> QED BY <1>1, <1>2, <1>4, <1>5, <1>7, CallSucceeds DEF Does

LEMMA WorksReplace ==
    ASSUME NEW s, NEW v \in Values, NEW pos \in Nat, NEW d, d = Plus(s, begin(s), pos),
           NEW t, t = IF d = s.list THEN Fails(s, "header")
                      ELSE IF d \in s.nodes THEN [s EXCEPT !.data[d] = v]
                      ELSE Fails(s, "freed")
    PROVE  Works(s, t) /\ (pos < size(s) => Succeeds(s, t))
<1>1. {"freed", "header"} \subseteq Faults \ {"no"} /\ pos \in Int
  BY DEF Faults
<1>2. ASSUME d # s.list, d \in s.nodes
      PROVE  \A F : Sane(s) /\ Fenced(s, F)
                    => Within(F, s, t) /\ (s.fault = "no" /\ Good(s) => Stays(s, t))
  <2> SUFFICES ASSUME NEW F, Sane(s), Fenced(s, F)
               PROVE  Within(F, s, t) /\ (s.fault = "no" /\ Good(s) => Stays(s, t))
    OBVIOUS
  <2>1. d \in Places \ F
    BY <1>1, ListOutside, PlusOutside DEF begin
  <2>2. PICK f : f = [s.data EXCEPT ![d] = v]
    OBVIOUS
  <2>3. t = [s EXCEPT !.data = f]
    BY <1>2, <2>2
  <2>4. f \in [Places -> Values \cup {Lost}] /\ \A c \in F : f[c] = s.data[c]
    BY <2>1, <2>2, UsedFacts DEF Fenced
  <2>5. Within(F, s, t)
    BY <2>3, <2>4, WithinSelf, WithinData
  <2>6. t.next = s.next /\ t.prev = s.prev /\ t.count = s.count /\ t.nodes = s.nodes
        /\ t.fault = s.fault
    BY <2>3 DEF Sane, Memories
  <2> QED BY <2>5, <2>6, DataStays
<1>3. CASE d # s.list /\ d \in s.nodes
  BY <1>2, <1>3, WorksStays
<1>4. CASE ~(d # s.list /\ d \in s.nodes)
  <2>1. t = Fails(s, "header") \/ t = Fails(s, "freed")
    BY <1>4
  <2>2. Works(s, t)
    BY <1>1, <2>1, WorksFails
  <2>3. ASSUME pos < size(s), Sane(s), Good(s), NEW F, Fenced(s, F) PROVE FALSE
    <3>1. PICK n, p : Chain(s, s.list, n, p)
      BY <2>3 DEF Good
    <3>2. n \in Nat /\ s.count[s.list] = n /\ Inner(n, p) \subseteq s.nodes
          /\ s.list \notin Inner(n, p)
      BY <2>3, <3>1, AroundFacts
    <3>3. pos < n
      BY <2>3, <3>2 DEF size
    <3>4. pos <= n /\ pos + 1 \in 1 .. n
      BY <3>2, <3>3
    <3>5. d = p[pos + 1]
      BY <2>3, <3>1, <3>4, PlusAt DEF begin
    <3>6. p[pos + 1] \in Inner(n, p)
      BY <3>4 DEF Inner
    <3> QED BY <1>4, <3>2, <3>5, <3>6
  <2> QED BY <2>2, <2>3 DEF Succeeds
<1> QED BY <1>3, <1>4

LEMMA ReplaceOK ==
    ASSUME RingInv, NEW pos \in Positions, NEW v \in Values, Replace(pos, v)
    PROVE  RingInv' /\ (m.list \notin twisted /\ pos < size(m) => m'.fault = "no")
<1>1. m.fault = "no" /\ Room(m, Cardinality(m.nodes) + 1) /\ pos \in Nat
  BY RingAssumptions DEF Replace, Call, Roomy, Positions
<1>2. PICK s : s = detach(m)
  OBVIOUS
<1>3. PICK d : d = Plus(s, begin(s), pos)
  OBVIOUS
<1>4. PICK t : t = IF d = s.list THEN Fails(s, "header")
                   ELSE IF d \in s.nodes THEN [s EXCEPT !.data[d] = v]
                   ELSE Fails(s, "freed")
  OBVIOUS
<1>5. Does(t) /\ Keeps(s)
  BY <1>2, <1>3, <1>4 DEF Replace
<1>6. Works(s, t) /\ (pos < size(s) => Succeeds(s, t))
  BY <1>1, <1>3, <1>4, WorksReplace
<1>7. it' \in Places \ {Null}
  BY <1>5, KeepsPlace DEF RingInv
<1>8. RingInv'
  BY <1>1, <1>2, <1>5, <1>6, <1>7, DoesOK
<1>9. ASSUME m.list \notin twisted, pos < size(m) PROVE m'.fault = "no"
  <2>1. size(s) = size(m)
    BY <1>1, <1>2, <1>9, DetachedGood
  <2> QED BY <1>1, <1>2, <1>5, <1>6, <1>9, <2>1, CallSucceeds DEF Does
<1> QED BY <1>8, <1>9
---------------------------------------------------------------------------
(* Calls that change the order.                                            *)

\* The next links are changed one by one: a and b were in front of x and y.
Exchanged(s, t, x, y, a, b) ==
    \E f, g, h :
        /\ f[a] = y /\ But(f, s.next, a)
        /\ g[b] = x /\ But(g, f, b)
        /\ h[x] = g[y] /\ But(h, g, x)
        /\ t.next[y] = g[x] /\ But(t.next, h, y)

\* The assignments of swap() and move() are to cells of the ring.
LEMMA ExchangeLinks ==
    ASSUME NEW s \in Memories, NEW x \in Used(s), NEW y \in Used(s), Used(s) \subseteq Places,
           s.prev[x] \in Used(s), s.prev[y] \in Used(s), NEW t, t = Exchange(s, x, y)
    PROVE  Relinks(s, t) /\ Exchanged(s, t, x, y, s.prev[x], s.prev[y])
<1>1. \A u \in Memories : \A c \in Places : u.next[c] \in Places /\ u.prev[c] \in Places
  BY DEF Memories
<1>2. PICK s1 : s1 = SetNext(s, s.prev[x], y)
  OBVIOUS
<1>3. s1 \in Memories /\ NextIs(s, s1, s.prev[x], y)
  BY <1>2, NextSet, SetNextFields
<1>4. Used(s1) = Used(s) /\ s1.fault = s.fault /\ s1.prev = s.prev
  BY <1>3 DEF NextIs, Relinks
<1>5. PICK s2 : s2 = SetNext(s1, s1.prev[y], x)
  OBVIOUS
<1>6. s2 \in Memories /\ NextIs(s1, s2, s1.prev[y], x)
  BY <1>3, <1>4, <1>5, NextSet, SetNextFields
<1>7. Used(s2) = Used(s) /\ s2.fault = s.fault /\ s2.prev = s.prev
  BY <1>4, <1>6 DEF NextIs, Relinks
<1>8. PICK r : r = SetNext(s2, x, s2.next[y])
  OBVIOUS
<1>9. r \in Memories /\ NextIs(s2, r, x, s2.next[y])
  BY <1>1, <1>6, <1>7, <1>8, NextSet, SetNextFields
<1>10. Used(r) = Used(s) /\ r.fault = s.fault /\ r.prev = s.prev
  BY <1>7, <1>9 DEF NextIs, Relinks
<1>11. PICK s3 : s3 = SetNext(r, y, s2.next[x])
  OBVIOUS
<1>12. s3 \in Memories /\ NextIs(r, s3, y, s2.next[x])
  BY <1>1, <1>6, <1>9, <1>10, <1>11, NextSet, SetNextFields
<1>13. Used(s3) = Used(s) /\ s3.fault = s.fault
  BY <1>10, <1>12 DEF NextIs, Relinks
<1>14. PICK s4 : s4 = SetPrev(s3, x, s3.prev[y])
  OBVIOUS
<1>15. s4 \in Memories /\ PrevIs(s3, s4, x, s3.prev[y])
  BY <1>1, <1>12, <1>13, <1>14, PrevSet, SetPrevFields
<1>16. Used(s4) = Used(s) /\ s4.fault = s.fault
  BY <1>13, <1>15 DEF PrevIs, Relinks
<1>17. t = SetPrev(s4, y, s3.prev[x])
  BY <1>2, <1>5, <1>8, <1>11, <1>14 DEF Exchange
<1>18. PrevIs(s4, t, y, s3.prev[x])
  BY <1>1, <1>12, <1>15, <1>16, <1>17, PrevSet
<1>19. Relinks(s, t)
  <2>1. Relinks(s, s1) /\ Relinks(s1, s2) /\ Relinks(s2, r) /\ Relinks(r, s3)
        /\ Relinks(s3, s4) /\ Relinks(s4, t)
    BY <1>3, <1>6, <1>9, <1>12, <1>15, <1>18 DEF NextIs, PrevIs
  <2>2. Relinks(s, s2)
    BY <2>1, RelinksThen
  <2>3. Relinks(s, r)
    BY <2>1, <2>2, RelinksThen
  <2>4. Relinks(s, s3)
    BY <2>1, <2>3, RelinksThen
  <2>5. Relinks(s, s4)
    BY <2>1, <2>4, RelinksThen
  <2> QED BY <2>1, <2>5, RelinksThen
<1>20. t.next = s3.next /\ s1.prev = s.prev
  BY <1>4, <1>15, <1>18 DEF PrevIs
<1>21. PICK f, g, h : f = s1.next /\ g = s2.next /\ h = r.next
  OBVIOUS
<1>22. /\ f[s.prev[x]] = y /\ But(f, s.next, s.prev[x])
       /\ g[s.prev[y]] = x /\ But(g, f, s.prev[y])
       /\ h[x] = g[y] /\ But(h, g, x)
       /\ t.next[y] = g[x] /\ But(t.next, h, y)
  BY <1>3, <1>6, <1>9, <1>12, <1>20, <1>21 DEF NextIs
<1> QED BY <1>19, <1>22 DEF Exchanged

LEMMA ExchangeFault ==
    ASSUME NEW s \in Memories, NEW x \in Used(s), NEW y \in Used(s), Used(s) \subseteq Places,
           s.prev[x] \in Used(s), s.prev[y] \in Used(s)
    PROVE  Exchange(s, x, y).fault = s.fault
<1>1. PICK t : t = Exchange(s, x, y)
  OBVIOUS
<1> QED BY <1>1, ExchangeLinks DEF Relinks

\* A node put before itself is the next of itself.
LEMMA MoveSelf ==
    ASSUME NEW s \in Memories, NEW x \in Used(s), Used(s) \subseteq Places,
           s.prev[x] \in Used(s), s.next[x] \in Used(s),
           NEW t, t = MoveBefore(s, x, x)
    PROVE  /\ t.fault = s.fault /\ t.next[x] = x /\ t.next[s.prev[x]] = x
           /\ ButTwo(t.next, s.next, s.prev[x], x)
<1>1. \A u \in Memories : \A c \in Places : u.next[c] \in Places /\ u.prev[c] \in Places
  BY DEF Memories
<1>2. PICK r : r = SetPrev(s, s.next[x], s.prev[x])
  OBVIOUS
<1>3. r \in Memories /\ PrevIs(s, r, s.next[x], s.prev[x])
  BY <1>2, PrevSet, SetPrevFields
<1>4. Used(r) = Used(s) /\ r.fault = s.fault /\ r.prev[x] = s.prev[x]
  BY <1>3 DEF PrevIs, Relinks, But
<1>5. PICK s1 : s1 = SetNext(r, r.prev[x], r.next[x])
  OBVIOUS
<1>6. s1 \in Memories /\ NextIs(r, s1, r.prev[x], r.next[x])
  BY <1>1, <1>3, <1>4, <1>5, NextSet, SetNextFields
<1>7. Used(s1) = Used(s) /\ s1.fault = s.fault /\ s1.prev = r.prev
  BY <1>4, <1>6 DEF NextIs, Relinks
<1>8. PICK u : u = SetNext(s1, x, x)
  OBVIOUS
<1>9. u \in Memories /\ NextIs(s1, u, x, x)
  BY <1>6, <1>7, <1>8, NextSet, SetNextFields
<1>10. Used(u) = Used(s) /\ u.fault = s.fault
  BY <1>7, <1>9 DEF NextIs, Relinks
<1>11. PICK s2 : s2 = SetPrev(u, x, s1.prev[x])
  OBVIOUS
<1>12. s2 \in Memories /\ PrevIs(u, s2, x, s1.prev[x])
  BY <1>1, <1>6, <1>9, <1>10, <1>11, PrevSet, SetPrevFields
<1>13. Used(s2) = Used(s) /\ s2.fault = s.fault /\ s2.prev[x] = s.prev[x]
  BY <1>4, <1>7, <1>10, <1>12 DEF PrevIs, Relinks
<1>14. PICK s3 : s3 = SetNext(s2, s2.prev[x], x)
  OBVIOUS
<1>15. s3 \in Memories /\ NextIs(s2, s3, s2.prev[x], x)
  BY <1>12, <1>13, <1>14, NextSet, SetNextFields
<1>16. Used(s3) = Used(s) /\ s3.fault = s.fault
  BY <1>13, <1>15 DEF NextIs, Relinks
<1>17. t = SetPrev(s3, x, x)
  BY <1>2, <1>5, <1>8, <1>11, <1>14 DEF MoveBefore, Out
<1>18. PrevIs(s3, t, x, x)
  BY <1>15, <1>16, <1>17, PrevSet
<1>19. t.fault = s.fault
  BY <1>16, <1>18 DEF PrevIs, Relinks
<1>20. PICK a : a = s.prev[x]
  OBVIOUS
<1>21. PICK f, g : f = s1.next /\ g = u.next
  OBVIOUS
<1>22. But(f, s.next, a) /\ g[x] = x /\ But(g, f, x) /\ t.next[a] = x /\ But(t.next, g, a)
  BY <1>3, <1>4, <1>6, <1>9, <1>12, <1>13, <1>15, <1>18, <1>20, <1>21 DEF NextIs, PrevIs
<1>23. t.next[x] = x
  <2>1. CASE a = x
    BY <1>22, <2>1
  <2>2. CASE a # x
    BY <1>22, <2>2 DEF But
  <2> QED BY <2>1, <2>2
<1>24. ButTwo(t.next, s.next, a, x)
  BY <1>22 DEF But, ButTwo
<1> QED BY <1>19, <1>20, <1>22, <1>23, <1>24

LEMMA MoveFault ==
    ASSUME NEW s \in Memories, NEW x \in Used(s), Used(s) \subseteq Places,
           s.prev[x] \in Used(s), s.next[x] \in Used(s)
    PROVE  MoveBefore(s, x, x).fault = s.fault
<1>1. PICK t : t = MoveBefore(s, x, x)
  OBVIOUS
<1> QED BY <1>1, MoveSelf

\* The cells on either side of one of the ring.
LEMMA AroundLinks ==
    ASSUME NEW s, Sane(s), NEW F, Fenced(s, F), Good(s), NEW c \in Around(s, s.list)
    PROVE  c \in Used(s) /\ s.next[c] \in Used(s) /\ s.prev[c] \in Used(s)
           /\ s.prev[c] \in Around(s, s.list) /\ s.next[c] \in Around(s, s.list)
<1>1. PICK n, p : Chain(s, s.list, n, p)
  BY DEF Good
<1>2. c \in Cycle(n, p) /\ Cycle(n, p) \subseteq Used(s) /\ Cycle(n, p) = Around(s, s.list)
  BY <1>1, AroundFacts
<1>3. s.next[c] \in Cycle(n, p) /\ s.prev[c] \in Cycle(n, p)
  BY <1>1, <1>2, RoundWalk DEF Chain
<1> QED BY <1>2, <1>3

LEMMA WorksMove ==
    ASSUME NEW s, NEW i \in Int, NEW j \in Int, NEW x, x = Plus(s, begin(s), i),
           NEW y, y = Plus(s, begin(s), j),
           NEW t, t = IF s.list \in {x, y} THEN s
                      ELSE IF {x, y} \subseteq s.nodes THEN MoveBefore(s, x, y)
                      ELSE Fails(s, "freed")
    PROVE  /\ Encloses(s, t) /\ Succeeds(s, t)
           /\ x # y \/ x = s.list => Works(s, t)
<1>1. ASSUME NEW F, Sane(s), Fenced(s, F) PROVE Within(F, s, t)
  <2>1. x \in Places \ F /\ y \in Places \ F
    BY <1>1, ListOutside, PlusOutside DEF begin
  <2>2. Within(F, s, MoveBefore(s, x, y))
    BY <1>1, <2>1, MoveFacts
  <2>3. "freed" \in Faults /\ "freed" # "no"
    BY DEF Faults
  <2>4. Within(F, s, Fails(s, "freed"))
    BY <1>1, <2>3, WithinSelf, WithinFails
  <2> QED BY <1>1, <2>2, <2>4, WithinSelf
<1>2. ASSUME NEW F, Sane(s), Fenced(s, F), Good(s), x # y \/ x = s.list PROVE Stays(s, t)
  <2>1. CASE s.list \in {x, y}
    BY <1>2, <2>1, StaysSelf
  <2>2. CASE s.list \notin {x, y}
    <3>1. x \in Elements(s, s.list) /\ y \in Elements(s, s.list)
      BY <1>2, <2>2, PlusAround
    <3>2. {x, y} \subseteq s.nodes
      BY <1>2, <3>1, GoodElements
    <3> QED BY <1>2, <2>2, <3>1, <3>2, MoveStays
  <2> QED BY <2>1, <2>2
<1>3. ASSUME Sane(s), s.fault = "no", Good(s), NEW F, Fenced(s, F) PROVE t.fault = "no"
  <2>1. CASE x # y \/ x = s.list
    BY <1>2, <1>3, <2>1 DEF Stays
  <2>2. CASE x = y /\ x # s.list
    <3>1. x \in Around(s, s.list) /\ x \in Elements(s, s.list)
      BY <1>3, <2>2, PlusAround
    <3>2. x \in s.nodes
      BY <1>3, <3>1, GoodElements
    <3>3. x \in Used(s) /\ s.next[x] \in Used(s) /\ s.prev[x] \in Used(s)
      BY <1>3, <3>1, AroundLinks
    <3>4. s \in Memories /\ Used(s) \subseteq Places
      BY <1>3, UsedFacts DEF Sane
    <3>5. MoveBefore(s, x, x).fault = s.fault
      BY <3>3, <3>4, MoveFault
    <3> QED BY <1>3, <2>2, <3>2, <3>5
  <2> QED BY <2>1, <2>2
<1>4. Encloses(s, t) /\ Succeeds(s, t)
  BY <1>1, <1>3 DEF Encloses, Succeeds
<1>5. ASSUME x # y \/ x = s.list PROVE Works(s, t)
  BY <1>1, <1>2, <1>5 DEF Works
<1> QED BY <1>4, <1>5

LEMMA MoveOK ==
    ASSUME RingInv, NEW inx \in Positions, NEW to \in Positions, Move(inx, to)
    PROVE  RingInv' /\ (m.list \notin twisted => m'.fault = "no")
<1>1. /\ m.fault = "no" /\ Room(m, Cardinality(m.nodes) + 1) /\ inx \in Int /\ to \in Int
  BY RingAssumptions DEF Move, Call, Roomy, Positions
<1>2. PICK s : s = detach(m)
  OBVIOUS
<1>3. PICK x : x = Plus(s, begin(s), inx)
  OBVIOUS
<1>4. PICK y : y = Plus(s, begin(s), to)
  OBVIOUS
<1>5. PICK t : t = IF s.list \in {x, y} THEN s
                   ELSE IF {x, y} \subseteq s.nodes THEN MoveBefore(s, x, y)
                   ELSE Fails(s, "freed")
  OBVIOUS
<1>6. PICK W : W = IF x = y /\ x # s.list THEN {s.list} ELSE {}
  OBVIOUS
<1>7. m' = t /\ twisted' = twisted \cup Copied(s) \cup W /\ Keeps(s)
  BY <1>2, <1>3, <1>4, <1>5, <1>6 DEF Move
<1>8. Encloses(s, t) /\ Succeeds(s, t) /\ (W = {} => Works(s, t)) /\ W \subseteq {s.list}
  <2>1. Encloses(s, t) /\ Succeeds(s, t) /\ (x # y \/ x = s.list => Works(s, t))
    BY <1>1, <1>3, <1>4, <1>5, WorksMove
  <2> QED BY <1>6, <2>1
<1>9. it' \in Places \ {Null}
  BY <1>7, KeepsPlace DEF RingInv
<1>10. RingInv'
  BY <1>1, <1>2, <1>7, <1>8, <1>9, CallOK
<1> QED BY <1>1, <1>2, <1>7, <1>8, <1>10, CallSucceeds

LEMMA WorksSwap ==
    ASSUME NEW s, NEW i \in Int, NEW j \in Int, NEW x, x = Plus(s, begin(s), i),
           NEW y, y = Plus(s, begin(s), j),
           NEW t, t = IF x = y THEN s
                      ELSE IF {x, y} \subseteq s.nodes THEN Exchange(s, x, y)
                      ELSE Fails(s, "freed")
    PROVE  /\ Encloses(s, t)
           /\ x = y => Works(s, t)
           /\ s.list \notin {x, y} \/ x = y => Succeeds(s, t)
<1>1. ASSUME NEW F, Sane(s), Fenced(s, F) PROVE Within(F, s, t)
  <2>1. x \in Places \ F /\ y \in Places \ F
    BY <1>1, ListOutside, PlusOutside DEF begin
  <2>2. Within(F, s, Exchange(s, x, y))
    BY <1>1, <2>1, ExchangeFacts
  <2>3. "freed" \in Faults /\ "freed" # "no"
    BY DEF Faults
  <2>4. Within(F, s, Fails(s, "freed"))
    BY <1>1, <2>3, WithinSelf, WithinFails
  <2> QED BY <1>1, <2>2, <2>4, WithinSelf
<1>2. ASSUME Sane(s), s.fault = "no", Good(s), NEW F, Fenced(s, F), s.list \notin {x, y}
      PROVE  t.fault = "no"
  <2>1. /\ x \in Around(s, s.list) /\ x \in Elements(s, s.list)
        /\ y \in Around(s, s.list) /\ y \in Elements(s, s.list)
    BY <1>2, PlusAround
  <2>2. {x, y} \subseteq s.nodes
    BY <1>2, <2>1, GoodElements
  <2>3. x \in Used(s) /\ y \in Used(s) /\ s.prev[x] \in Used(s) /\ s.prev[y] \in Used(s)
    BY <1>2, <2>1, AroundLinks
  <2>4. s \in Memories /\ Used(s) \subseteq Places
    BY <1>2, UsedFacts DEF Sane
  <2>5. Exchange(s, x, y).fault = s.fault
    BY <2>3, <2>4, ExchangeFault
  <2> QED BY <1>2, <2>2, <2>5
<1>3. x = y => Works(s, t) /\ Succeeds(s, t)
  BY WorksSelf
<1>4. Encloses(s, t)
  BY <1>1 DEF Encloses
<1>5. s.list \notin {x, y} => Succeeds(s, t)
  BY <1>2 DEF Succeeds
<1> QED BY <1>3, <1>4, <1>5

LEMMA SwapPlace ==
    ASSUME NEW s, Sane(s), NEW F, Fenced(s, F), Good(s), NEW i \in Nat,
           NEW k, k = IF size(s) = 0 THEN i ELSE Smaller(i, size(s) - 1),
           NEW x, x = Plus(s, begin(s), k)
    PROVE  x = s.list <=> size(s) = 0
<1>1. PICK n, p : Chain(s, s.list, n, p)
  BY DEF Good
<1>2. /\ n \in Nat /\ size(s) = n /\ s.list \notin Inner(n, p)
      /\ Elements(s, s.list) = Inner(n, p)
  BY <1>1, AroundFacts DEF size
<1>3. CASE n = 0
  <2>1. Elements(s, s.list) = {}
    BY <1>2, <1>3 DEF Inner
  <2>2. k \in Int
    BY <1>2, <1>3
  <2> QED BY <1>2, <1>3, <2>1, <2>2, PlusAround
<1>4. CASE n # 0
  <2>1. k \in Nat /\ k <= n /\ k + 1 \in 1 .. n
    BY <1>2, <1>4 DEF Smaller
  <2>2. x = p[k + 1]
    BY <1>1, <2>1, PlusAt DEF begin
  <2>3. p[k + 1] \in Inner(n, p)
    BY <2>1 DEF Inner
  <2> QED BY <1>2, <1>4, <2>2, <2>3
<1> QED BY <1>3, <1>4

LEMMA SwapOK ==
    ASSUME RingInv, NEW i \in Positions, NEW j \in Positions, Swap(i, j)
    PROVE  RingInv' /\ (m.list \notin twisted => m'.fault = "no")
<1>1. m.fault = "no" /\ Room(m, Cardinality(m.nodes) + 1) /\ i \in Nat /\ j \in Nat
  BY RingAssumptions DEF Swap, Call, Roomy, Positions
<1>2. PICK s : s = detach(m)
  OBVIOUS
<1>3. PICK k : k = IF size(s) = 0 THEN i ELSE Smaller(i, size(s) - 1)
  OBVIOUS
<1>4. PICK l : l = IF size(s) = 0 THEN j ELSE Smaller(j, size(s) - 1)
  OBVIOUS
<1>5. PICK x : x = Plus(s, begin(s), k)
  OBVIOUS
<1>6. PICK y : y = Plus(s, begin(s), l)
  OBVIOUS
<1>7. PICK t : t = IF x = y THEN s
                   ELSE IF {x, y} \subseteq s.nodes THEN Exchange(s, x, y)
                   ELSE Fails(s, "freed")
  OBVIOUS
<1>8. PICK W : W = IF x # y THEN {s.list} ELSE {}
  OBVIOUS
<1>9. m' = t /\ twisted' = twisted \cup Copied(s) \cup W /\ Keeps(s)
  BY <1>2, <1>3, <1>4, <1>5, <1>6, <1>7, <1>8 DEF Swap
<1>10. Sane(s)
  BY <1>1, <1>2, Detaching DEF Detached, Ready, Base
<1>11. k \in Int /\ l \in Int
  BY <1>1, <1>3, <1>4, <1>10, UsedFacts DEF size, Smaller
<1>12. /\ Encloses(s, t) /\ (x = y => Works(s, t))
       /\ s.list \notin {x, y} \/ x = y => Succeeds(s, t)
  BY <1>5, <1>6, <1>7, <1>11, WorksSwap
<1>13. it' \in Places \ {Null}
  BY <1>9, KeepsPlace DEF RingInv
<1>14. (W = {} => Works(s, t)) /\ W \subseteq {s.list}
  BY <1>8, <1>12
<1>15. RingInv'
  BY <1>1, <1>2, <1>9, <1>12, <1>13, <1>14, CallOK
<1>16. ASSUME m.list \notin twisted PROVE m'.fault = "no"
  <2>1. PICK F : Good(s) /\ Fenced(s, F)
    BY <1>1, <1>2, <1>16, DetachedGood
  <2>2. (x = s.list <=> size(s) = 0) /\ (y = s.list <=> size(s) = 0)
    BY <1>1, <1>3, <1>4, <1>5, <1>6, <1>10, <2>1, SwapPlace
  <2>3. s.list \notin {x, y} \/ x = y
    BY <2>2
  <2> QED BY <1>1, <1>2, <1>9, <1>12, <1>16, <2>3, CallSucceeds
<1> QED BY <1>15, <1>16

LEMMA ReverseOK ==
    ASSUME RingInv, Reverse
    PROVE  RingInv' /\ (m.list \notin twisted => m'.fault = "no")
<1>1. m.fault = "no" /\ Room(m, Cardinality(m.nodes) + 1)
  BY DEF Reverse, Call, Roomy
<1>2. PICK s : s = detach(m)
  OBVIOUS
<1>3. PICK t : t = Turn(s)
  OBVIOUS
<1>4. Does(t) /\ Keeps(s)
  BY <1>2, <1>3 DEF Reverse
<1>5. ASSUME NEW F, Sane(s), Fenced(s, F)
      PROVE  Within(F, s, t) /\ (s.fault = "no" /\ Good(s) => Stays(s, t))
  BY <1>3, <1>5, TurnWithin, TurnStays
<1>6. Works(s, t) /\ Succeeds(s, t)
  BY <1>5, WorksStays
<1>7. it' \in Places \ {Null}
  BY <1>4, KeepsPlace DEF RingInv
<1>8. RingInv'
  BY <1>1, <1>2, <1>4, <1>6, <1>7, DoesOK
<1> QED BY <1>1, <1>2, <1>4, <1>6, <1>8, CallSucceeds DEF Does
---------------------------------------------------------------------------
(* Calls with iterators.                                                   *)

\* A walk in front of a fence does not come to the null header.
LEMMA PlusPlace ==
    ASSUME NEW s, Sane(s), NEW F, Fenced(s, F), NEW k \in Int
    PROVE  Plus(s, begin(s), k) \in Places \ {Null}
<1>1. Plus(s, begin(s), k) \in Places \ F
  BY ListOutside, PlusOutside DEF begin
<1> QED BY <1>1 DEF Fenced

LEMMA BeginOK ==
    ASSUME RingInv, NEW k \in Positions, Begin(k)
    PROVE  RingInv' /\ (m.list \notin twisted => m'.fault = "no")
<1>1. m.fault = "no" /\ Room(m, Cardinality(m.nodes) + 1) /\ k \in Int
  BY RingAssumptions DEF Begin, Call, Roomy, Positions
<1>2. PICK s : s = detach(m)
  OBVIOUS
<1>3. Does(s) /\ it' = Plus(s, begin(s), k)
  BY <1>2 DEF Begin
<1>4. Works(s, s) /\ Succeeds(s, s)
  BY WorksSelf
<1>5. PICK F : Sane(s) /\ Fenced(s, F)
  BY <1>1, <1>2, Detaching DEF Detached, Ready, Base
<1>6. it' \in Places \ {Null}
  BY <1>1, <1>3, <1>5, PlusPlace
<1>7. RingInv'
  BY <1>1, <1>2, <1>3, <1>4, <1>6, DoesOK
<1> QED BY <1>1, <1>2, <1>3, <1>4, <1>7, CallSucceeds DEF Does

LEMMA ConstBeginOK ==
    ASSUME RingInv, NEW k \in Positions, ConstBegin(k)
    PROVE  RingInv' /\ m'.fault = "no"
<1>1. /\ m.fault = "no" /\ m.list # Null /\ k \in Int
      /\ it' = Plus(m, begin(m), k) /\ m' = m /\ twisted' = twisted
  BY RingAssumptions DEF ConstBegin, Call, Positions
<1>2. PICK F : Open(F, twisted, m)
  BY <1>1 DEF RingInv, Kept
<1>3. Sane(m) /\ Fenced(m, F)
  BY <1>2 DEF RingInv, Base, Open
<1>4. it' \in Places \ {Null}
  BY <1>1, <1>3, PlusPlace
<1> QED BY <1>1, <1>4 DEF RingInv

\* erase() of a list that is detached, at a cell of its ring or at another.
LEMMA BackInt ==
    ASSUME NEW s, Sane(s), NEW c \in Places
    PROVE  Back(s, c, begin(s)) \in Nat
<1>1. PICK f : f = s.prev
  OBVIOUS
<1>2. PICK d : d = begin(s)
  OBVIOUS
<1>3. f \in [Places -> Places] /\ d \in Places
  BY <1>1, <1>2, UsedFacts DEF begin
<1>4. Reaches(f, c, d, Steps(f, c, d))
  BY <1>3, StepsFacts
<1>5. Longest \in Nat
  BY PlaceFacts DEF Longest
<1>6. Steps(f, c, d) \in Nat
  BY <1>4, <1>5 DEF Reaches
<1> QED BY <1>1, <1>2, <1>6 DEF Back

LEMMA BackFound ==
    ASSUME NEW s, Sane(s), Good(s), NEW c \in Around(s, s.list)
    PROVE  Back(s, c, begin(s)) < Longest
<1>1. PICK n, p : Chain(s, s.list, n, p)
  BY DEF Good
<1>2. Rounds(s.next, s.prev, s.list, n, p) /\ Inner(n, p) \subseteq s.nodes
  BY <1>1 DEF Chain
<1>3. Around(s, s.list) = Cycle(n, p)
  BY <1>1, ChainRing
<1> QED BY <1>2, <1>3, RoundBack DEF begin

LEMMA WorksErase ==
    ASSUME NEW s, Sane(s), detach(s) = s, NEW c \in Places, NEW t, t = Erased(s, c)
    PROVE  Works(s, t) /\ (c \in Around(s, s.list) => Succeeds(s, t))
<1>1. PICK k : k = Back(s, c, begin(s))
  OBVIOUS
<1>2. t = IF k < Longest THEN RemoveAt(s, k) ELSE Fails(s, "hang")
  BY <1>1 DEF Erased
<1>3. k \in Int
  BY <1>1, BackInt
<1>4. Works(s, RemoveAt(s, k)) /\ Succeeds(s, RemoveAt(s, k))
  BY <1>3, WorksRemove
<1>5. "hang" \in Faults /\ "hang" # "no"
  BY DEF Faults
<1>6. Works(s, Fails(s, "hang"))
  BY <1>5, WorksFails
<1>7. Works(s, t)
  BY <1>2, <1>4, <1>6
<1>8. ASSUME c \in Around(s, s.list) PROVE Succeeds(s, t)
  <2>1. Good(s) => k < Longest
    BY <1>1, <1>8, BackFound
  <2> QED BY <1>2, <1>4, <2>1 DEF Succeeds
<1> QED BY <1>7, <1>8

LEMMA PopBackOK ==
    ASSUME RingInv, PopBack
    PROVE  RingInv' /\ (m.list \notin twisted => m'.fault = "no")
<1>1. m.fault = "no" /\ Room(m, Cardinality(m.nodes) + 1)
  BY DEF PopBack, Call, Roomy
<1>2. PICK s : s = detach(m)
  OBVIOUS
<1>3. PICK c : c = s.prev[s.list]
  OBVIOUS
<1>4. PICK t : t = Erased(s, c)
  OBVIOUS
<1>5. Does(t) /\ Keeps(t)
  BY <1>2, <1>3, <1>4 DEF PopBack
<1>6. Sane(s) /\ detach(s) = s
  BY <1>1, <1>2, Detaching DEF Detached, Ready, Base
<1>7. c \in Places
  BY <1>3, <1>6, UsedFacts
<1>8. Works(s, t) /\ (c \in Around(s, s.list) => Succeeds(s, t))
  BY <1>4, <1>6, <1>7, WorksErase
<1>9. it' \in Places \ {Null}
  BY <1>5, KeepsPlace DEF RingInv
<1>10. RingInv'
  BY <1>1, <1>2, <1>5, <1>8, <1>9, DoesOK
<1>11. ASSUME m.list \notin twisted PROVE m'.fault = "no"
  <2>1. PICK F : Fenced(s, F) /\ Good(s)
    BY <1>1, <1>2, <1>11, DetachedGood
  <2>2. s.list \in Around(s, s.list)
    BY DEF Around
  <2>3. c \in Around(s, s.list)
    BY <1>3, <1>6, <2>1, <2>2, AroundLinks
  <2> QED BY <1>1, <1>2, <1>5, <1>8, <1>11, <2>3, CallSucceeds DEF Does
<1> QED BY <1>10, <1>11

LEMMA PopFrontOK ==
    ASSUME RingInv, PopFront
    PROVE  RingInv' /\ (m.list \notin twisted => m'.fault = "no")
<1>1. m.fault = "no" /\ Room(m, Cardinality(m.nodes) + 1)
  BY DEF PopFront, Call, Roomy
<1>2. PICK s : s = detach(m)
  OBVIOUS
<1>3. PICK c : c = begin(s)
  OBVIOUS
<1>4. PICK t : t = Erased(s, c)
  OBVIOUS
<1>5. Does(t) /\ Keeps(t)
  BY <1>2, <1>3, <1>4 DEF PopFront
<1>6. Sane(s) /\ detach(s) = s
  BY <1>1, <1>2, Detaching DEF Detached, Ready, Base
<1>7. c \in Places
  BY <1>3, <1>6, UsedFacts DEF begin
<1>8. Works(s, t) /\ (c \in Around(s, s.list) => Succeeds(s, t))
  BY <1>4, <1>6, <1>7, WorksErase
<1>9. it' \in Places \ {Null}
  BY <1>5, KeepsPlace DEF RingInv
<1>10. RingInv'
  BY <1>1, <1>2, <1>5, <1>8, <1>9, DoesOK
<1>11. ASSUME m.list \notin twisted PROVE m'.fault = "no"
  <2>1. PICK F : Fenced(s, F) /\ Good(s)
    BY <1>1, <1>2, <1>11, DetachedGood
  <2>2. s.list \in Around(s, s.list)
    BY DEF Around
  <2>3. c \in Around(s, s.list)
    BY <1>3, <1>6, <2>1, <2>2, AroundLinks DEF begin
  <2> QED BY <1>1, <1>2, <1>5, <1>8, <1>11, <2>3, CallSucceeds DEF Does
<1> QED BY <1>10, <1>11

\* An iterator of the null list's ring would be the null header.
LEMMA AroundNotNull ==
    ASSUME RingInv, it \in Around(m, m.list)
    PROVE  m.list # Null
<1>1. Sane(m) /\ m.next[Null] = Null /\ it # Null
  BY DEF RingInv, Base
<1>2. Elements(m, Null) = {}
  BY <1>1, NullRing
<1> QED BY <1>1, <1>2 DEF Around

LEMMA WorksInsertAt ==
    ASSUME NEW s, Sane(s), Free(s) # {}, NEW c \in Places, NEW v \in Values,
           NEW k, k = Back(s, c, begin(s)),
           NEW t, t = IF k < Longest THEN Link(s, Plus(s, begin(s), k), v) ELSE Fails(s, "hang")
    PROVE  Works(s, t) /\ (c \in Around(s, s.list) => Succeeds(s, t))
<1>1. PICK d : d = Plus(s, begin(s), k)
  OBVIOUS
<1>2. k \in Int
  BY BackInt
<1>3. ASSUME NEW F, Fenced(s, F)
      PROVE  /\ Within(F, s, Link(s, d, v))
             /\ Good(s) => Stays(s, Link(s, d, v))
  <2>1. d \in Places \ F
    BY <1>1, <1>2, <1>3, ListOutside, PlusOutside DEF begin
  <2>2. Within(F, s, Link(s, d, v))
    BY <1>3, <2>1, LinkFacts
  <2>3. ASSUME Good(s) PROVE Stays(s, Link(s, d, v))
    <3>1. d \in Around(s, s.list)
      BY <1>1, <1>2, <1>3, <2>3, PlusAround
    <3> QED BY <1>3, <2>3, <3>1, LinkStays
  <2> QED BY <2>2, <2>3
<1>4. Works(s, Link(s, d, v)) /\ Succeeds(s, Link(s, d, v))
  BY <1>3, WorksStays
<1>5. "hang" \in Faults /\ "hang" # "no"
  BY DEF Faults
<1>6. Works(s, Fails(s, "hang"))
  BY <1>5, WorksFails
<1>7. Works(s, t)
  BY <1>1, <1>4, <1>6
<1>8. ASSUME c \in Around(s, s.list) PROVE Succeeds(s, t)
  <2>1. Good(s) => k < Longest
    BY <1>8, BackFound
  <2> QED BY <1>1, <1>4, <2>1 DEF Succeeds
<1> QED BY <1>7, <1>8

LEMMA InsertAtOK ==
    ASSUME RingInv, NEW v \in Values, InsertAt(v)
    PROVE  /\ RingInv'
           /\ m.list \notin twisted /\ ~is_shared(m) /\ it \in Around(m, m.list)
              => m'.fault = "no"
<1>1. m.fault = "no" /\ Room(m, Cardinality(m.nodes) + 2)
  BY DEF InsertAt, Call, Short
<1>2. PICK s : s = detach(m)
  OBVIOUS
<1>3. Room(m, Cardinality(m.nodes) + 1) /\ Free(s) # {}
  BY <1>1, <1>2, ShortRoom
<1>4. PICK k : k = Back(s, it, begin(s))
  OBVIOUS
<1>5. PICK t : t = IF k < Longest THEN Link(s, Plus(s, begin(s), k), v) ELSE Fails(s, "hang")
  OBVIOUS
<1>6. Does(t) /\ it' \in {it, New(s)}
  BY <1>2, <1>4, <1>5 DEF InsertAt
<1>7. Sane(s) /\ it \in Places
  BY <1>1, <1>2, <1>3, Detaching DEF Detached, Ready, Base, RingInv
<1>8. Works(s, t) /\ (it \in Around(s, s.list) => Succeeds(s, t))
  BY <1>3, <1>4, <1>5, <1>7, WorksInsertAt
<1>9. it' \in Places \ {Null}
  BY <1>3, <1>6, <1>7, NewPlace DEF RingInv
<1>10. RingInv'
  BY <1>1, <1>2, <1>3, <1>6, <1>8, <1>9, DoesOK
<1>11. ASSUME m.list \notin twisted, ~is_shared(m), it \in Around(m, m.list)
       PROVE  m'.fault = "no"
  <2>1. s = m
    BY <1>2, <1>11, AroundNotNull DEF detach
  <2> QED BY <1>1, <1>2, <1>3, <1>6, <1>8, <1>11, <2>1, CallSucceeds DEF Does
<1> QED BY <1>10, <1>11

LEMMA EraseOK ==
    ASSUME RingInv, Erase
    PROVE  /\ RingInv'
           /\ m.list \notin twisted /\ it \in Around(m, m.list) => m'.fault = "no"
<1>1. m.fault = "no" /\ Room(m, Cardinality(m.nodes) + 1) /\ it \in Places \ {Null}
  BY DEF Erase, Call, Roomy, RingInv
<1>2. PICK s : s = detach(m)
  OBVIOUS
<1>3. PICK k : k = Back(m, it, begin(m))
  OBVIOUS
<1>4. PICK t : t = IF k < Longest THEN RemoveAt(s, k) ELSE Fails(m, "hang")
  OBVIOUS
<1>5. Does(t) /\ it' = IF t.fault = "no" THEN Plus(t, begin(t), k) ELSE it
  BY <1>2, <1>3, <1>4 DEF Erase, Erased
<1>6. Sane(m) /\ Base(twisted, m)
  BY DEF RingInv, Base
<1>7. k \in Int
  BY <1>1, <1>3, <1>6, BackInt
<1>8. CASE k < Longest
  <2>1. t = RemoveAt(s, k)
    BY <1>4, <1>8
  <2>2. Works(s, t) /\ Succeeds(s, t)
    BY <1>7, <2>1, WorksRemove
  <2>3. PICK F : Sane(s) /\ Fenced(s, F)
    BY <1>1, <1>2, Detaching DEF Detached, Ready, Base
  <2>4. Sane(t) /\ Fenced(t, F)
    BY <2>2, <2>3 DEF Works, Within
  <2>5. Plus(t, begin(t), k) \in Places \ {Null}
    BY <1>7, <2>4, PlusPlace
  <2>6. it' \in Places \ {Null}
    BY <1>1, <1>5, <2>5
  <2>7. RingInv'
    BY <1>1, <1>2, <1>5, <2>2, <2>6, DoesOK
  <2> QED BY <1>1, <1>2, <1>5, <2>2, <2>7, CallSucceeds DEF Does
<1>9. CASE ~(k < Longest)
  <2>1. t = Fails(m, "hang") /\ "hang" \in Faults /\ "hang" # "no" /\ m \in Memories
    BY <1>4, <1>6, <1>9 DEF Faults, Sane
  <2>2. t \in Memories /\ Rest(m, t) /\ t.next = m.next /\ t.prev = m.prev /\ t.fault # "no"
    BY <2>1, FailsFields
  <2>3. Base(twisted, t)
    BY <1>6, <2>2 DEF Base, Sane, Rest, Used
  <2>4. twisted' = twisted /\ m' = t
    BY <1>5, <2>2 DEF Does, Copied, Rest
  <2>5. RingInv'
    BY <1>1, <1>5, <2>2, <2>3, <2>4 DEF RingInv
  <2>6. ASSUME m.list \notin twisted, it \in Around(m, m.list) PROVE FALSE
    <3>1. m.list # Null
      BY <2>6, AroundNotNull
    <3>2. Good(m)
      BY <1>1, <2>6, <3>1 DEF RingInv, Kept, Open, Call, Erase
    <3> QED BY <1>3, <1>6, <1>9, <2>6, <3>2, BackFound
  <2> QED BY <2>5, <2>6
<1> QED BY <1>8, <1>9
---------------------------------------------------------------------------
(* Calls on the handles.                                                   *)

\* The cells of two memories, where only the handles differ.
SameCells(s, t) ==
    /\ t.next = s.next /\ t.prev = s.prev /\ t.data = s.data /\ t.count = s.count
    /\ t.nodes = s.nodes /\ t.heads = s.heads /\ t.fault = s.fault

LEMMA ListSet ==
    ASSUME NEW s, Sane(s), NEW x \in s.heads, NEW t, t = [s EXCEPT !.list = x]
    PROVE  Sane(t) /\ SameCells(s, t) /\ t.list = x /\ t.other = s.other
<1>1. x \in Places /\ s \in Memories
  BY UsedFacts, PlaceFacts DEF Sane, Used
<1>2. t \in Memories /\ SameCells(s, t) /\ t.list = x /\ t.other = s.other
  BY <1>1 DEF Memories, SameCells
<1> QED BY <1>2 DEF Sane, SameCells, Used

LEMMA OtherSet ==
    ASSUME NEW s, Sane(s), NEW x \in s.heads, NEW t, t = [s EXCEPT !.other = x]
    PROVE  Sane(t) /\ SameCells(s, t) /\ t.list = s.list /\ t.other = x
<1>1. x \in Places /\ s \in Memories
  BY UsedFacts, PlaceFacts DEF Sane, Used
<1>2. t \in Memories /\ SameCells(s, t) /\ t.list = s.list /\ t.other = x
  BY <1>1 DEF Memories, SameCells
<1> QED BY <1>2 DEF Sane, SameCells, Used

LEMMA SameCellsChain ==
    ASSUME NEW s, NEW t, SameCells(s, t)
    PROVE  /\ \A h : Elements(t, h) = Elements(s, h)
           /\ \A h, n, p : Chain(s, h, n, p) => Chain(t, h, n, p)
           /\ Used(t) = Used(s)
BY DEF SameCells, Elements, Nodes, Chain, Used

LEMMA ShareOK ==
    ASSUME RingInv, Share
    PROVE  RingInv' /\ m'.fault = "no"
<1>1. /\ m.fault = "no" /\ m.other = Null /\ m.list # Null /\ it' = it /\ twisted' = twisted
      /\ m' = [m EXCEPT !.other = m.list]
  BY DEF Share, Call
<1>2. Sane(m) /\ m.list \in m.heads /\ Base(twisted, m)
  BY DEF RingInv, Base, Sane
<1>3. PICK t : t = [m EXCEPT !.other = m.list]
  OBVIOUS
<1>4. Sane(t) /\ SameCells(m, t) /\ t.list = m.list /\ t.other = m.list
  BY <1>2, <1>3, OtherSet
<1>5. PICK F : Open(F, twisted, m)
  BY <1>1 DEF RingInv, Kept
<1>6. Open(F, twisted, t)
  <2>1. Fenced(t, F)
    BY <1>4, <1>5 DEF Open, Fenced, SameCells, Used
  <2>2. OtherOK(F, twisted, t)
    BY <1>4 DEF OtherOK
  <2>3. t.list \notin twisted => Good(t)
    BY <1>4, <1>5, SameCellsChain DEF Open, Good
  <2>4. ASSUME twisted = {} PROVE t.nodes = Elements(t, t.list) \cup Elements(t, t.other)
    <3>1. m.nodes = Elements(m, m.list) \cup Elements(m, Null) /\ Elements(m, Null) = {}
      BY <1>1, <1>2, <1>5, <2>4, NullRing DEF Open, Base
    <3> QED BY <1>4, <3>1, SameCellsChain DEF SameCells
  <2> QED BY <2>1, <2>2, <2>3, <2>4 DEF Open
<1>7. Base(twisted, t)
  BY <1>2, <1>4 DEF Base, SameCells
<1>8. Kept(twisted, t)
  BY <1>1, <1>4, <1>6 DEF Kept
<1> QED BY <1>1, <1>3, <1>4, <1>7, <1>8 DEF RingInv, SameCells

LEMMA ClearOK ==
    ASSUME RingInv, Clear
    PROVE  RingInv' /\ (m.list \notin twisted => m'.fault = "no")
<1>1. m.fault = "no" /\ m.list # Null
  BY DEF Clear, Call
<1>2. PICK s : s = IF is_shared(m) THEN m ELSE free(m, m.list)
  OBVIOUS
<1>3. PICK t : t = [s EXCEPT !.list = Null]
  OBVIOUS
<1>4. Does(t) /\ Keeps(m')
  BY <1>2, <1>3 DEF Clear
<1>5. it' \in Places \ {Null}
  BY <1>4, PlaceFacts DEF Keeps, RingInv
<1>6. Sane(m) /\ Base(twisted, m) /\ m.next[Null] = Null /\ Null \notin twisted /\ Null \in m.heads
      /\ m.list \in Places
  BY UsedFacts DEF RingInv, Base, Sane
<1>7. PICK F : Open(F, twisted, m)
  BY <1>1 DEF RingInv, Kept
<1>8. Fenced(m, F)
  BY <1>7 DEF Open
<1>9. /\ Sane(s) /\ s.heads = m.heads /\ s.list = m.list /\ s.other = m.other /\ s.count = m.count
      /\ s.next[Null] = Null
  BY <1>2, <1>6, FreeShrinks DEF Shrinks
<1>10. Sane(t) /\ SameCells(s, t) /\ t.list = Null /\ t.other = m.other
  BY <1>3, <1>6, <1>9, ListSet
<1>11. m' = t /\ twisted' = twisted
  BY <1>4, <1>10 DEF Does, Copied
<1>12. Base(twisted, t)
  BY <1>6, <1>9, <1>10 DEF Base, SameCells
<1>13. ASSUME m.list \notin twisted
       PROVE  /\ ~is_shared(m) => s.nodes = m.nodes \ Elements(m, m.list)
              /\ s.fault = "no" /\ Good(m)
  <2>1. PICK n, p : Chain(m, m.list, n, p)
    BY <1>7, <1>13 DEF Open, Good
  <2>2. Elements(m, m.list) = Inner(n, p)
    BY <1>6, <2>1, ChainRing
  <2>3. CASE ~is_shared(m)
    BY <1>1, <1>2, <1>6, <2>1, <2>2, <2>3, FreeEmpties DEF Emptied, Good
  <2>4. CASE is_shared(m)
    BY <1>1, <1>2, <2>1, <2>4 DEF Good
  <2> QED BY <2>3, <2>4
<1>14. ASSUME t.fault = "no" PROVE Shut(twisted, t)
  <2>1. CASE is_shared(m)
    <3>1. s = m /\ m.other = m.list
      BY <1>2, <2>1 DEF is_shared
    <3>2. ASSUME m.other \notin twisted
          PROVE  \E n, p : Chain(t, m.other, n, p) /\ Cycle(n, p) \subseteq Used(t)
      <4>1. PICK n, p : Chain(m, m.list, n, p)
        BY <1>7, <3>1, <3>2 DEF Open, Good
      <4>2. Cycle(n, p) \subseteq Used(m)
        BY <1>6, <1>8, <4>1, AroundFacts
      <4> QED BY <1>10, <3>1, <4>1, <4>2, SameCellsChain
    <3>3. ASSUME twisted = {} PROVE t.nodes = Elements(t, m.other)
      <4>1. m.nodes = Elements(m, m.list) \cup Elements(m, m.other)
        BY <1>7, <3>3 DEF Open
      <4> QED BY <1>10, <3>1, <4>1, SameCellsChain DEF SameCells
    <3> QED BY <1>10, <3>2, <3>3 DEF Shut, OtherOK
  <2>2. CASE ~is_shared(m)
    <3>1. s = free(m, m.list) /\ m.other # m.list
      BY <1>1, <1>2, <2>2 DEF is_shared
    <3>2. Within(F, m, s) /\ Same(F, m, s)
      BY <1>6, <1>8, <3>1, FreeWithin DEF Within
    <3>3. F \subseteq Used(s)
      BY <3>2 DEF Within, Fenced
    <3>4. ASSUME m.other \notin {Null} \cup twisted
          PROVE  /\ \E n, p : Chain(t, m.other, n, p) /\ Cycle(n, p) \subseteq Used(t)
                 /\ Elements(t, m.other) = Elements(m, m.other) /\ Elements(m, m.other) \subseteq F
      <4>1. PICK n, p : Chain(m, m.other, n, p) /\ Cycle(n, p) \subseteq F
        BY <1>7, <3>1, <3>4 DEF Open, OtherOK
      <4>2. /\ Chain(s, m.other, n, p) /\ Elements(s, m.other) = Elements(m, m.other)
            /\ Elements(m, m.other) \subseteq F
        BY <1>6, <1>9, <3>2, <4>1, BehindChain
      <4> QED BY <1>10, <3>3, <4>1, <4>2, SameCellsChain
    <3>5. ASSUME twisted = {} PROVE t.nodes = Elements(t, m.other)
      <4>1. /\ m.nodes = Elements(m, m.list) \cup Elements(m, m.other)
            /\ s.nodes = m.nodes \ Elements(m, m.list) /\ Good(m)
        BY <1>7, <1>13, <2>2, <3>5 DEF Open
      <4>2. Elements(m, m.list) \cap F = {}
        BY <1>6, <1>8, <4>1, GoodElements
      <4>3. CASE m.other = Null
        <5>1. Elements(m, Null) = {} /\ Elements(s, Null) = {}
          BY <1>6, <1>9, NullRing
        <5> QED BY <1>10, <4>1, <4>3, <5>1, SameCellsChain DEF SameCells
      <4>4. CASE m.other # Null
        <5>1. Elements(t, m.other) = Elements(m, m.other) /\ Elements(m, m.other) \subseteq F
          BY <3>4, <3>5, <4>4
        <5> QED BY <1>10, <4>1, <4>2, <5>1 DEF SameCells
      <4> QED BY <4>3, <4>4
    <3> QED BY <1>10, <3>4, <3>5 DEF Shut, OtherOK
  <2> QED BY <2>1, <2>2
<1>15. t.fault = "no" => Kept(twisted, t)
  BY <1>10, <1>14 DEF Kept
<1>16. RingInv'
  BY <1>5, <1>11, <1>12, <1>15 DEF RingInv
<1> QED BY <1>10, <1>11, <1>13, <1>16 DEF SameCells

\* A fence without the cells that were freed behind it.
LEMMA FenceLess ==
    ASSUME NEW s, Sane(s), NEW F, Fenced(s, F), NEW t, Sane(t), t.heads = s.heads,
           t.list = s.list, Front(F, s, t), NEW G, G = F \cap Used(t)
    PROVE  Fenced(t, G)
<1>1. \A c \in Places \ F : t.next[c] \notin F /\ t.prev[c] \notin F
  BY DEF Fenced, Front
<1>2. \A c \in F \ Used(t) : t.next[c] = Lost /\ t.prev[c] = Lost
  BY UsedFacts DEF Sane, Fenced
<1>3. Lost \notin G
  BY UsedFacts
<1>4. Null \in G /\ s.heads \ {s.list} \subseteq G
  BY DEF Fenced, Sane, Used
<1> QED BY <1>1, <1>2, <1>3, <1>4 DEF Fenced

LEMMA DropOK ==
    ASSUME RingInv, Drop
    PROVE  RingInv' /\ ({m.list, m.other} \cap twisted = {} => m'.fault = "no")
<1>1. m.fault = "no" /\ m.other # Null
  BY DEF Drop, Call
<1>2. PICK s : s = IF is_shared(m) THEN m ELSE free(m, m.other)
  OBVIOUS
<1>3. PICK t : t = [s EXCEPT !.other = Null]
  OBVIOUS
<1>4. Does(t) /\ Keeps(m')
  BY <1>2, <1>3 DEF Drop
<1>5. it' \in Places \ {Null}
  BY <1>4, PlaceFacts DEF Keeps, RingInv
<1>6. /\ Sane(m) /\ Base(twisted, m) /\ m.next[Null] = Null /\ Null \in m.heads
      /\ twisted \subseteq m.heads \ {Null} /\ m.other \in Places /\ m.other \in m.heads
  BY UsedFacts DEF RingInv, Base, Sane
<1>7. /\ Sane(s) /\ s.heads = m.heads /\ s.list = m.list /\ s.count = m.count
      /\ s.next[Null] = Null
  BY <1>2, <1>6, FreeShrinks DEF Shrinks
<1>8. Sane(t) /\ SameCells(s, t) /\ t.list = m.list /\ t.other = Null
  BY <1>3, <1>6, <1>7, OtherSet
<1>9. m' = t /\ twisted' = twisted
  BY <1>4, <1>8 DEF Does, Copied
<1>10. Base(twisted, t)
  BY <1>6, <1>7, <1>8 DEF Base, SameCells
<1>11. Elements(t, Null) = {} /\ Elements(m, Null) = {} /\ Elements(t, t.other) = {}
  BY <1>6, <1>7, <1>8, NullRing DEF SameCells
<1>12. ASSUME is_shared(m) PROVE s = m /\ m.other = m.list
  BY <1>2, <1>12 DEF is_shared
\* The other handle's ring, when it has its own.
<1>13. ASSUME ~is_shared(m), m.other \notin twisted
       PROVE  s.fault = "no" /\ s.nodes = m.nodes \ Elements(m, m.other)
  <2>1. m.other # m.list
    BY <1>1, <1>13 DEF is_shared
  <2>2. \E n, p : Chain(m, m.other, n, p)
    BY <1>1, <1>13, <2>1 DEF RingInv, Kept, Shut, Open, OtherOK
  <2>3. PICK n, p : Chain(m, m.other, n, p)
    BY <2>2
  <2>4. Elements(m, m.other) = Inner(n, p)
    BY <1>6, <2>3, ChainRing
  <2> QED BY <1>1, <1>2, <1>6, <1>13, <2>3, <2>4, FreeEmpties DEF Emptied
<1>14. ASSUME m.list = Null PROVE Kept(twisted, t)
  <2>1. ~is_shared(m) /\ Shut(twisted, m)
    BY <1>1, <1>14 DEF is_shared, RingInv, Kept
  <2>2. ASSUME twisted = {} PROVE t.nodes = {}
    BY <1>8, <1>13, <2>1, <2>2 DEF Shut, SameCells
  <2>3. Shut(twisted, t)
    BY <1>8, <1>11, <2>2 DEF Shut, OtherOK
  <2> QED BY <1>8, <1>14, <2>3 DEF Kept
<1>15. ASSUME m.list # Null, t.fault = "no" PROVE Kept(twisted, t)
  <2>1. PICK F : Open(F, twisted, m)
    BY <1>1, <1>15 DEF RingInv, Kept
  <2>2. Fenced(m, F)
    BY <2>1 DEF Open
  <2>3. CASE is_shared(m)
    <3>1. SameCells(m, t)
      BY <1>8, <1>12, <2>3
    <3>2. Fenced(t, F)
      BY <1>8, <2>2, <3>1 DEF Fenced, SameCells, Used
    <3>3. t.list \notin twisted => Good(t)
      BY <1>8, <2>1, <3>1, SameCellsChain DEF Open, Good
    <3>4. ASSUME twisted = {} PROVE t.nodes = Elements(t, t.list) \cup Elements(t, t.other)
      <4>1. m.nodes = Elements(m, m.list) \cup Elements(m, m.other) /\ m.other = m.list
        BY <1>12, <2>1, <2>3, <3>4 DEF Open
      <4>2. t.nodes = m.nodes /\ Elements(t, t.list) = Elements(m, m.list)
        BY <1>8, <3>1, SameCellsChain DEF SameCells
      <4> QED BY <1>11, <4>1, <4>2
    <3>5. Open(F, twisted, t)
      BY <1>8, <3>2, <3>3, <3>4 DEF Open, OtherOK
    <3> QED BY <1>8, <1>15, <3>5 DEF Kept
  <2>4. CASE ~is_shared(m)
    <3>1. m.other \in F /\ m.other # m.list /\ s = free(m, m.other)
      BY <1>1, <1>2, <1>6, <2>2, <2>4 DEF is_shared, Fenced
    <3>2. Front(F, m, s)
      <4>1. s.fault = "no"
        BY <1>8, <1>15 DEF SameCells
      <4>2. s.fault # "no" \/ Front(F, m, s)
        BY <1>6, <2>2, <3>1, FreeBehind
      <4> QED BY <4>1, <4>2
    <3>3. PICK G : G = F \cap Used(s)
      OBVIOUS
    <3>4. Fenced(s, G)
      BY <1>6, <1>7, <2>2, <3>2, <3>3, FenceLess
    <3>5. Fenced(t, G)
      BY <1>7, <1>8, <3>4 DEF Fenced, SameCells, Used
    <3>6. ASSUME m.list \notin twisted
          PROVE  Good(t) /\ Elements(t, t.list) = Elements(m, m.list)
      <4>1. PICK n, p : Chain(m, m.list, n, p)
        BY <2>1, <3>6 DEF Open, Good
      <4>2. /\ Cycle(n, p) \subseteq Places \ F /\ Inner(n, p) \subseteq m.nodes
            /\ Inner(n, p) \subseteq Cycle(n, p)
        BY <1>6, <2>2, <4>1, AroundFacts
      <4>3. Inner(n, p) \subseteq s.nodes
        BY <3>2, <4>2 DEF Front
      <4>4. \A c \in Cycle(n, p) : s.next[c] = m.next[c] /\ s.prev[c] = m.prev[c]
        BY <3>2, <4>2 DEF Front
      <4>5. Chain(s, m.list, n, p)
        BY <1>7, <4>1, <4>3, <4>4, SameChain
      <4>6. Elements(s, m.list) = Inner(n, p) /\ Elements(m, m.list) = Inner(n, p)
        BY <1>6, <1>7, <4>1, <4>5, ChainRing
      <4> QED BY <1>8, <4>5, <4>6, SameCellsChain DEF Good
    <3>7. ASSUME twisted = {} PROVE t.nodes = Elements(t, t.list) \cup Elements(t, t.other)
      <4>1. /\ m.nodes = Elements(m, m.list) \cup Elements(m, m.other) /\ Good(m)
            /\ s.nodes = m.nodes \ Elements(m, m.other)
        BY <1>13, <2>1, <2>4, <3>7 DEF Open
      <4>2. Elements(m, m.list) \cap F = {}
        BY <1>6, <2>2, <4>1, GoodElements
      <4>3. Elements(m, m.other) \subseteq F
        <5>1. PICK n, p : Chain(m, m.other, n, p) /\ Cycle(n, p) \subseteq F
          BY <1>1, <2>1, <3>1, <3>7 DEF Open, OtherOK
        <5>2. Same(F, m, m)
          BY DEF Same
        <5> QED BY <1>6, <5>1, <5>2, BehindChain
      <4> QED BY <1>8, <1>11, <3>6, <3>7, <4>1, <4>2, <4>3 DEF SameCells
    <3>8. Open(G, twisted, t)
      BY <1>8, <3>5, <3>6, <3>7 DEF Open, OtherOK
    <3> QED BY <1>8, <1>15, <3>8 DEF Kept
  <2> QED BY <2>3, <2>4
<1>16. RingInv'
  BY <1>5, <1>9, <1>10, <1>14, <1>15 DEF RingInv
<1>17. ASSUME m.other \notin twisted PROVE m'.fault = "no"
  BY <1>1, <1>8, <1>9, <1>12, <1>13, <1>17 DEF SameCells
<1> QED BY <1>16, <1>17

LEMMA AppendSelfOK ==
    ASSUME RingInv, AppendSelf
    PROVE  RingInv' /\ (m.list \notin twisted /\ is_shared(m) => m'.fault = "no")
<1>1. /\ m.fault = "no" /\ begin(m) # m.list /\ Room(m, 2 * Cardinality(m.nodes) + 1)
      /\ it' = it
  BY DEF AppendSelf, Call
<1>2. PICK s : s = detach(m)
  OBVIOUS
<1>3. /\ Sane(m) /\ Base(twisted, m) /\ m.next[Null] = Null /\ it \in Places \ {Null}
      /\ m.list # Null
  BY <1>1 DEF RingInv, Base, begin
<1>4. PICK t : t = IF s.list = m.list THEN Fails(m, "hang")
                   ELSE Iterate(AddStep(m), [t |-> s, from |-> begin(m)], N).t
  OBVIOUS
<1>5. Does(t)
  BY <1>2, <1>4 DEF AppendSelf
<1>6. PICK F : Open(F, twisted, m)
  BY <1>1, <1>3 DEF RingInv, Kept
<1>7. Room(m, Cardinality(m.nodes) + 1)
  <2>1. Cardinality(m.nodes) \in Nat /\ Cardinality(Free(m)) \in Nat
    BY <1>3, UsedFacts, CellsFinite
  <2> QED BY <1>1, <2>1 DEF Room
<1>8. CASE s.list = m.list
  <2>1. t = Fails(m, "hang") /\ "hang" \in Faults /\ "hang" # "no" /\ m \in Memories
    BY <1>3, <1>4, <1>8 DEF Faults, Sane
  <2>2. t \in Memories /\ Rest(m, t) /\ t.next = m.next /\ t.prev = m.prev /\ t.fault # "no"
    BY <2>1, FailsFields
  <2>3. Base(twisted, t)
    BY <1>3, <2>2 DEF Base, Sane, Rest, Used
  <2>4. twisted' = twisted /\ m' = t
    BY <1>3, <1>5, <2>2 DEF Does, Copied, Rest, Base
  <2>5. RingInv'
    BY <1>1, <1>3, <2>2, <2>3, <2>4 DEF RingInv
  <2>6. ASSUME m.list \notin twisted, is_shared(m) PROVE FALSE
    <3>1. Good(m) /\ Fenced(m, F)
      BY <1>6, <2>6 DEF Open
    <3>2. PICK n, p : Chain(m, m.list, n, p)
      BY <3>1 DEF Good
    <3>3. n \in Nat /\ m.count[m.list] = n
      BY <1>3, <3>1, <3>2, AroundFacts
    <3>4. n # 0
      <4>1. n = 0 => m.next[m.list] = m.list
        BY <3>2 DEF Chain, Rounds, Forth
      <4> QED BY <1>1, <4>1 DEF begin
    <3>5. size(m) > 0
      BY <3>3, <3>4 DEF size
    <3>6. Closed(m, m.list)
      BY <1>3, <3>2, ChainRing
    <3>7. s = copy(m)
      BY <1>2, <1>3, <2>6, <3>5 DEF detach
    <3>8. \E k, q, r : IsCopy(m, s, k, q, r)
      BY <1>3, <1>7, <3>1, <3>6, <3>7, CopyFacts
    <3>9. s.list \notin Used(m)
      BY <3>8 DEF IsCopy, Apart
    <3> QED BY <1>3, <1>8, <3>9 DEF Sane, Used
  <2> QED BY <2>5, <2>6
<1>9. CASE s.list # m.list
  <2>1. is_shared(m) /\ size(m) > 0
    BY <1>2, <1>3, <1>9 DEF detach
  <2>2. Closed(m, m.list)
    <3>1. ASSUME ~Closed(m, m.list) PROVE FALSE
      <4>1. s = Fails(m, "hang")
        BY <1>2, <1>3, <2>1, <3>1 DEF detach, copy
      <4>2. "hang" \in Faults /\ "hang" # "no" /\ m \in Memories
        BY <1>3 DEF Faults, Sane
      <4>3. Rest(m, s)
        BY <4>1, <4>2, FailsFields
      <4> QED BY <1>9, <4>3 DEF Rest
    <3> QED BY <3>1
  <2>3. PICK V : V = Widened(twisted, m, s)
    OBVIOUS
  <2>4. /\ Detached(twisted, m, s) /\ Ready(Used(m), V, s)
        /\ \E n, p, q : IsCopy(m, s, n, p, q)
    BY <1>1, <1>2, <1>3, <1>6, <1>7, <2>1, <2>2, <2>3, DetachCopy
  <2>5. PICK n, p, q : IsCopy(m, s, n, p, q)
    BY <2>4
  <2>6. t = Iterate(AddStep(m), [t |-> s, from |-> m.next[m.list]], N).t
    BY <1>4, <1>9 DEF begin
  <2>7. Within(Used(m), s, t) /\ (Good(s) => Stays(s, t))
    BY <1>1, <1>3, <2>5, <2>6, AddFacts
  <2>8. t.list = s.list
    BY <2>7 DEF Within
  <2>9. Ready(Used(m), V, t)
    <3>1. V \subseteq s.heads \ {Null}
      BY <2>4 DEF Ready, Base
    <3>2. ASSUME s.fault = "no", s.list \notin V PROVE Stays(s, t)
      BY <2>4, <2>7, <3>2 DEF Ready, Open
    <3> QED BY <2>4, <2>7, <3>1, <3>2, Worked
  <2>10. twisted' = V /\ m' = t
    BY <1>5, <2>3, <2>8 DEF Does, Copied, Widened
  <2>11. RingInv'
    BY <1>1, <1>3, <2>9, <2>10, Ends
  <2>12. ASSUME m.list \notin twisted PROVE m'.fault = "no"
    <3>1. s.fault = "no" /\ Good(s)
      BY <1>1, <1>2, <1>7, <2>12, DetachedGood
    <3> QED BY <2>7, <2>10, <3>1 DEF Stays
  <2> QED BY <2>11, <2>12
<1> QED BY <1>8, <1>9
---------------------------------------------------------------------------
(* The ring and the faults.                                                *)

LEMMA RingStart == Init => RingInv
<1> SUFFICES ASSUME Init PROVE RingInv
  OBVIOUS
<1>1. /\ m.next = [c \in Places |-> IF c = Null THEN Null ELSE Lost]
      /\ m.prev = [c \in Places |-> IF c = Null THEN Null ELSE Lost]
      /\ m.data = [c \in Places |-> Lost] /\ m.count = [c \in Places |-> 0]
      /\ m.nodes = {} /\ m.heads = {Null} /\ m.list = Null /\ m.other = Null
      /\ m.fault = "no" /\ it = Lost /\ twisted = {}
  BY DEF Init
<1>2. m \in Memories
  <2>1. \A c \in Places : (IF c = Null THEN Null ELSE Lost) \in Places
    BY PlaceFacts
  <2>2. "no" \in Faults
    BY DEF Faults
  <2>3. Null \in Places /\ Lost \in Places
    BY PlaceFacts
  <2> QED BY <2>1, <2>2, <2>3 DEF Init, Memories
<1>3. Used(m) = {Null} /\ m.next[Null] = Null /\ m.count[Null] = 0
  BY <1>1, PlaceFacts DEF Used
<1>4. Sane(m)
  BY <1>1, <1>2, <1>3, PlaceFacts DEF Sane
<1>5. Elements(m, Null) = {}
  BY <1>3, <1>4, NullRing
<1>6. Kept(twisted, m)
  BY <1>1, <1>5 DEF Kept, Shut, OtherOK
<1> QED BY <1>1, <1>3, <1>4, <1>6, PlaceFacts DEF RingInv, Base

\* The cause of a fault, as FaultHasCause lists them.
Cause ==
    \/ {m.list, m.other} \cap twisted # {}
    \/ (\E v \in Values : InsertAt(v)) /\ (is_shared(m) \/ it \notin Around(m, m.list))
    \/ Erase /\ it \notin Around(m, m.list)
    \/ AppendSelf /\ ~is_shared(m)
    \/ \E pos \in Positions, v \in Values : Replace(pos, v) /\ pos >= size(m)

LEMMA RingStep ==
    ASSUME RingInv, Next
    PROVE  RingInv' /\ (m'.fault # "no" => Cause)
<1>1. Sane(m)
  BY DEF RingInv, Base
<1>2. size(m) \in Int
  BY <1>1, UsedFacts DEF size
<1>3. ASSUME m.list \notin twisted => m'.fault = "no" PROVE m'.fault # "no" => Cause
  BY <1>3 DEF Cause
<1>4. ASSUME NEW v \in Values, Append1(v) \/ Prepend(v)
      PROVE  RingInv' /\ (m'.fault # "no" => Cause)
  BY <1>3, <1>4, Append1OK, PrependOK
<1>5. ASSUME NEW v \in Values, InsertAt(v) PROVE RingInv' /\ (m'.fault # "no" => Cause)
  BY <1>5, InsertAtOK DEF Cause
<1>6. ASSUME NEW v \in Values, NEW pos \in Positions, Insert(pos, v)
      PROVE  RingInv' /\ (m'.fault # "no" => Cause)
  BY <1>3, <1>6, InsertOK
<1>7. ASSUME NEW v \in Values, NEW pos \in Positions, Replace(pos, v)
      PROVE  RingInv' /\ (m'.fault # "no" => Cause)
  <2>1. RingInv' /\ (m.list \notin twisted /\ pos < size(m) => m'.fault = "no")
    BY <1>7, ReplaceOK
  <2>2. pos < size(m) \/ pos >= size(m)
    BY <1>2 DEF Positions
  <2> QED BY <1>7, <2>1, <2>2 DEF Cause
<1>8. ASSUME NEW pos \in Positions, Remove(pos) \/ Begin(pos) \/ ConstBegin(pos)
      PROVE  RingInv' /\ (m'.fault # "no" => Cause)
  BY <1>3, <1>8, RemoveOK, BeginOK, ConstBeginOK
<1>9. ASSUME NEW pos \in Positions, NEW to \in Positions, Move(pos, to) \/ Swap(pos, to)
      PROVE  RingInv' /\ (m'.fault # "no" => Cause)
  BY <1>3, <1>9, MoveOK, SwapOK
<1>10. ASSUME Reverse \/ Clear \/ Share \/ PopBack \/ PopFront
       PROVE  RingInv' /\ (m'.fault # "no" => Cause)
  BY <1>3, <1>10, ReverseOK, ClearOK, ShareOK, PopBackOK, PopFrontOK
<1>11. ASSUME AppendSelf PROVE RingInv' /\ (m'.fault # "no" => Cause)
  BY <1>11, AppendSelfOK DEF Cause
<1>12. ASSUME Drop PROVE RingInv' /\ (m'.fault # "no" => Cause)
  BY <1>12, DropOK DEF Cause
<1>13. ASSUME Erase PROVE RingInv' /\ (m'.fault # "no" => Cause)
  BY <1>13, EraseOK DEF Cause
<1> QED
  BY <1>4, <1>5, <1>6, <1>7, <1>8, <1>9, <1>10, <1>11, <1>12, <1>13 DEF Next

LEMMA RingMeans == RingInv => RingOK
<1> SUFFICES ASSUME RingInv PROVE RingOK
  OBVIOUS
<1>1. /\ Sane(m) /\ m.next[Null] = Null /\ twisted \subseteq m.heads \ {Null}
      /\ {m.list, m.other} \subseteq m.heads /\ m.fault \in Faults /\ it \in Places
  BY UsedFacts DEF RingInv, Base, Sane
<1>2. ASSUME m.fault = "no", m.list \notin {Null} \cup twisted PROVE Ring(m, m.list)
  BY <1>1, <1>2, ChainRing DEF RingInv, Kept, Open, Good
<1>3. ASSUME m.fault = "no", m.other \notin {Null} \cup twisted PROVE Ring(m, m.other)
  <2>1. CASE m.other = m.list
    BY <1>2, <1>3, <2>1
  <2>2. CASE m.other # m.list
    <3>1. \E n, p : Chain(m, m.other, n, p)
      BY <1>3, <2>2 DEF RingInv, Kept, Shut, Open, OtherOK
    <3> QED BY <1>1, <3>1, ChainRing
  <2> QED BY <2>1, <2>2
<1>4. ASSUME m.fault = "no", twisted = {}
      PROVE  m.nodes = Elements(m, m.list) \cup Elements(m, m.other)
  <2>1. CASE m.list = Null
    <3>1. m.nodes = Elements(m, m.other)
      BY <1>4, <2>1 DEF RingInv, Kept, Shut
    <3> QED BY <1>1, <2>1, <3>1, NullRing
  <2>2. CASE m.list # Null
    BY <1>4, <2>2 DEF RingInv, Kept, Open
  <2> QED BY <2>1, <2>2
<1> QED BY <1>1, <1>2, <1>3, <1>4 DEF RingOK

\* After any calls the ring of each handle's header that swap() and move() did
\* not twist is whole, both ways and with its count, and no node is lost
\* (bs_list.inl: insert, remove, move, copy, free and what calls them).
THEOREM RingCorrect == Spec => []RingOK
<1>1. RingInv /\ [Next]_vars => RingInv'
  <2>1. ASSUME RingInv, UNCHANGED vars PROVE RingInv'
    BY <2>1 DEF vars, RingInv
  <2> QED BY <2>1, RingStep
<1> QED BY <1>1, RingStart, RingMeans, PTL DEF Spec

\* A call hangs, uses a freed node or writes the header only for one of the
\* causes FaultHasCause names.
THEOREM FaultsCorrect == Spec => FaultHasCause
<1>1. RingInv /\ [Next]_vars => RingInv'
  <2>1. ASSUME RingInv, UNCHANGED vars PROVE RingInv'
    BY <2>1 DEF vars, RingInv
  <2> QED BY <2>1, RingStep
<1>2. RingInv /\ [Next]_vars => [m'.fault # "no" => Cause]_vars
  BY RingStep
<1>3. Spec => [][m'.fault # "no" => Cause]_vars
  BY <1>1, <1>2, RingStart, PTL DEF Spec
<1> QED BY <1>3 DEF FaultHasCause, Cause
---------------------------------------------------------------------------
(* Sequences, by position.                                                 *)

LEMMA PieceAt ==
    ASSUME NEW D, NEW d \in Seq(D), NEW a \in Nat \ {0}, NEW b \in Int, b <= Len(d)
    PROVE  /\ SubSeq(d, a, b) \in Seq(D)
           /\ Len(SubSeq(d, a, b)) = IF a <= b THEN b - a + 1 ELSE 0
           /\ \A k \in 1 .. b - a + 1 : SubSeq(d, a, b)[k] = d[a + k - 1]
<1>1. \A k \in a .. b : d[k] \in D
  <2>1. \A k \in a .. b : k \in 1 .. Len(d)
    BY LenProperties
  <2> QED BY <2>1, ElementOfSeq
<1>2. a \in Int
  OBVIOUS
<1>3. \A k \in 1 .. b - a + 1 : SubSeq(d, a, b)[k] = d[a + k - 1]
  BY <1>1, <1>2, SubSeqProperties
<1> QED BY <1>1, <1>2, <1>3, SubSeqProperties

\* A list of three and of four parts, by position.
LEMMA ThreeParts ==
    ASSUME NEW D, NEW a \in Seq(D), NEW b \in Seq(D), NEW c \in Seq(D), NEW d, d = a \o b \o c
    PROVE  /\ d \in Seq(D) /\ Len(d) = Len(a) + Len(b) + Len(c)
           /\ \A k \in 1 .. Len(d) : d[k] = IF k <= Len(a) THEN a[k]
                                            ELSE IF k <= Len(a) + Len(b) THEN b[k - Len(a)]
                                            ELSE c[k - Len(a) - Len(b)]
<1>1. PICK e : e = a \o b
  OBVIOUS
<1>2. /\ e \in Seq(D) /\ Len(e) = Len(a) + Len(b)
      /\ \A k \in 1 .. Len(e) : e[k] = IF k <= Len(a) THEN a[k] ELSE b[k - Len(a)]
  <2>1. /\ e \in Seq(D) /\ Len(e) = Len(a) + Len(b)
        /\ \A k \in 1 .. Len(a) + Len(b) : e[k] = IF k <= Len(a) THEN a[k] ELSE b[k - Len(a)]
    BY <1>1, ConcatProperties
  <2> QED BY <2>1
<1>3. d = e \o c
  BY <1>1
<1>4. /\ d \in Seq(D) /\ Len(d) = Len(e) + Len(c)
      /\ \A k \in 1 .. Len(d) : d[k] = IF k <= Len(e) THEN e[k] ELSE c[k - Len(e)]
  <2>1. /\ d \in Seq(D) /\ Len(d) = Len(e) + Len(c)
        /\ \A k \in 1 .. Len(e) + Len(c) : d[k] = IF k <= Len(e) THEN e[k] ELSE c[k - Len(e)]
    <3>1. e \in Seq(D)
      BY <1>2
    <3> QED BY <1>3, <3>1, ConcatProperties
  <2> QED BY <2>1
<1>5. Len(a) \in Nat /\ Len(b) \in Nat /\ Len(c) \in Nat
  BY LenProperties
<1>6. ASSUME NEW k \in 1 .. Len(d)
      PROVE  d[k] = IF k <= Len(a) THEN a[k]
                    ELSE IF k <= Len(a) + Len(b) THEN b[k - Len(a)]
                    ELSE c[k - Len(a) - Len(b)]
  <2>1. CASE k <= Len(e)
    <3>1. k \in 1 .. Len(e) /\ d[k] = e[k]
      BY <1>2, <1>4, <1>5, <1>6, <2>1
    <3>2. k <= Len(a) + Len(b)
      BY <1>2, <2>1
    <3> QED BY <1>2, <3>1, <3>2
  <2>2. CASE ~(k <= Len(e))
    <3>1. d[k] = c[k - Len(e)]
      BY <1>4, <1>6, <2>2
    <3>2. k - Len(e) = k - Len(a) - Len(b) /\ ~(k <= Len(a)) /\ ~(k <= Len(a) + Len(b))
      BY <1>2, <1>5, <1>6, <2>2
    <3> QED BY <3>1, <3>2
  <2> QED BY <2>1, <2>2
<1> QED BY <1>2, <1>4, <1>6

\* An element put in, and taken out.
LEMMA PutSeq ==
    ASSUME NEW D, NEW d \in Seq(D), NEW i \in 0 .. Len(d), NEW v \in D,
           NEW e \in Seq(D), Len(e) = Len(d) + 1,
           \A k \in 1 .. Len(e) : e[k] = IF k <= i THEN d[k] ELSE IF k = i + 1 THEN v ELSE d[k - 1]
    PROVE  e = SubSeq(d, 1, i) \o <<v>> \o SubSeq(d, i + 1, Len(d))
<1>1. Len(d) \in Nat /\ i \in Nat
  BY LenProperties
<1>2. PICK a : a = SubSeq(d, 1, i)
  OBVIOUS
<1>3. PICK b : b = SubSeq(d, i + 1, Len(d))
  OBVIOUS
<1>4. PICK o : o = <<v>>
  OBVIOUS
<1>5. a \in Seq(D) /\ Len(a) = i /\ \A k \in 1 .. i : a[k] = d[k]
  <2>1. i <= Len(d)
    BY <1>1
  <2>2. /\ a \in Seq(D) /\ Len(a) = (IF 1 <= i THEN i - 1 + 1 ELSE 0)
        /\ \A k \in 1 .. i - 1 + 1 : a[k] = d[1 + k - 1]
    BY <1>1, <1>2, <2>1, PieceAt
  <2>3. \A k \in 1 .. i : a[k] = d[k]
    <3>1. \A k \in 1 .. i : k \in 1 .. i - 1 + 1 /\ 1 + k - 1 = k
      BY <1>1
    <3> QED BY <2>2, <3>1
  <2> QED BY <1>1, <2>2, <2>3
<1>6. b \in Seq(D) /\ Len(b) = Len(d) - i /\ \A k \in 1 .. Len(d) - i : b[k] = d[i + k]
  <2>1. /\ b \in Seq(D) /\ Len(b) = (IF i + 1 <= Len(d) THEN Len(d) - (i + 1) + 1 ELSE 0)
        /\ \A k \in 1 .. Len(d) - (i + 1) + 1 : b[k] = d[i + 1 + k - 1]
    BY <1>1, <1>3, PieceAt
  <2>2. \A k \in 1 .. Len(d) - i : b[k] = d[i + k]
    <3>1. \A k \in 1 .. Len(d) - i : k \in 1 .. Len(d) - (i + 1) + 1 /\ i + 1 + k - 1 = i + k
      BY <1>1
    <3> QED BY <2>1, <3>1
  <2> QED BY <1>1, <2>1, <2>2
<1>7. o \in Seq(D) /\ Len(o) = 1 /\ o[1] = v
  BY <1>4
<1>8. PICK f : f = a \o o \o b
  OBVIOUS
<1>9. /\ f \in Seq(D) /\ Len(f) = i + 1 + (Len(d) - i)
      /\ \A k \in 1 .. Len(f) : f[k] = IF k <= i THEN a[k] ELSE IF k <= i + 1 THEN o[k - i]
                                       ELSE b[k - i - 1]
  <2>1. /\ f \in Seq(D) /\ Len(f) = Len(a) + Len(o) + Len(b)
        /\ \A k \in 1 .. Len(f) : f[k] = IF k <= Len(a) THEN a[k]
                                         ELSE IF k <= Len(a) + Len(o) THEN o[k - Len(a)]
                                         ELSE b[k - Len(a) - Len(o)]
    <3>1. a \in Seq(D) /\ b \in Seq(D) /\ o \in Seq(D)
      BY <1>5, <1>6, <1>7
    <3> QED BY ONLY <1>8, <3>1, ThreeParts
  <2> QED BY <1>5, <1>6, <1>7, <2>1
<1>10. ASSUME NEW k \in 1 .. Len(e) PROVE e[k] = f[k]
  <2>1. k \in 1 .. Len(f) /\ k \in Nat
    BY <1>1, <1>9
  <2>2. CASE k <= i
    <3>1. k \in 1 .. i
      BY <2>2, <1>1
    <3> QED BY <1>5, <1>9, <2>1, <2>2, <3>1
  <2>3. CASE k = i + 1
    <3>1. k - i = 1 /\ ~(k <= i) /\ k <= i + 1
      BY <2>3, <1>1
    <3> QED BY <1>7, <1>9, <2>1, <2>3, <3>1
  <2>4. CASE k > i + 1
    <3>1. ~(k <= i) /\ ~(k <= i + 1) /\ k # i + 1 /\ k - i - 1 \in 1 .. Len(d) - i /\ i + (k - i - 1) = k - 1
      BY <1>1, <2>1, <2>4
    <3>2. f[k] = b[k - i - 1]
      BY <1>9, <2>1, <3>1
    <3>3. b[k - i - 1] = d[k - 1]
      BY <1>6, <3>1
    <3>4. e[k] = d[k - 1]
      BY <3>1
    <3> QED BY <3>2, <3>3, <3>4
  <2> QED BY <1>1, <2>1, <2>2, <2>3, <2>4
<1>11. Len(e) = Len(f)
  BY <1>1, <1>9
<1>12. e = f
  BY <1>9, <1>10, <1>11, SeqEqual
<1> QED BY <1>2, <1>3, <1>4, <1>8, <1>12

LEMMA CutSeq ==
    ASSUME NEW D, NEW d \in Seq(D), NEW i \in 1 .. Len(d),
           NEW e \in Seq(D), Len(e) = Len(d) - 1,
           \A k \in 1 .. Len(e) : e[k] = IF k < i THEN d[k] ELSE d[k + 1]
    PROVE  e = SubSeq(d, 1, i - 1) \o SubSeq(d, i + 1, Len(d))
<1>1. Len(d) \in Nat /\ i \in Nat
  BY LenProperties
<1>2. PICK a : a = SubSeq(d, 1, i - 1)
  OBVIOUS
<1>3. PICK b : b = SubSeq(d, i + 1, Len(d))
  OBVIOUS
<1>4. a \in Seq(D) /\ Len(a) = i - 1 /\ \A k \in 1 .. i - 1 : a[k] = d[k]
  <2>1. i - 1 <= Len(d) /\ i - 1 \in Int
    BY <1>1
  <2>2. /\ a \in Seq(D) /\ Len(a) = (IF 1 <= i - 1 THEN i - 1 - 1 + 1 ELSE 0)
        /\ \A k \in 1 .. i - 1 - 1 + 1 : a[k] = d[1 + k - 1]
    BY <1>1, <1>2, <2>1, PieceAt
  <2>3. \A k \in 1 .. i - 1 : a[k] = d[k]
    <3>1. \A k \in 1 .. i - 1 : k \in 1 .. i - 1 - 1 + 1 /\ 1 + k - 1 = k
      BY <1>1
    <3> QED BY <2>2, <3>1
  <2> QED BY <1>1, <2>2, <2>3
<1>5. b \in Seq(D) /\ Len(b) = Len(d) - i /\ \A k \in 1 .. Len(d) - i : b[k] = d[i + k]
  <2>1. /\ b \in Seq(D) /\ Len(b) = (IF i + 1 <= Len(d) THEN Len(d) - (i + 1) + 1 ELSE 0)
        /\ \A k \in 1 .. Len(d) - (i + 1) + 1 : b[k] = d[i + 1 + k - 1]
    BY <1>1, <1>3, PieceAt
  <2>2. \A k \in 1 .. Len(d) - i : b[k] = d[i + k]
    <3>1. \A k \in 1 .. Len(d) - i : k \in 1 .. Len(d) - (i + 1) + 1 /\ i + 1 + k - 1 = i + k
      BY <1>1
    <3> QED BY <2>1, <3>1
  <2> QED BY <1>1, <2>1, <2>2
<1>6. PICK f : f = a \o b
  OBVIOUS
<1>7. /\ f \in Seq(D) /\ Len(f) = i - 1 + (Len(d) - i)
      /\ \A k \in 1 .. Len(f) : f[k] = IF k <= i - 1 THEN a[k] ELSE b[k - (i - 1)]
  <2>1. /\ f \in Seq(D) /\ Len(f) = Len(a) + Len(b)
        /\ \A k \in 1 .. Len(a) + Len(b) : f[k] = IF k <= Len(a) THEN a[k] ELSE b[k - Len(a)]
    BY <1>4, <1>5, <1>6, ConcatProperties
  <2> QED BY <1>4, <1>5, <2>1
<1>8. Len(e) = Len(f)
  BY <1>1, <1>7
<1>9. ASSUME NEW k \in 1 .. Len(e) PROVE e[k] = f[k]
  <2>1. k \in 1 .. Len(f) /\ k \in Nat
    BY <1>8, <1>7, <1>1
  <2>2. CASE k < i
    <3>1. k \in 1 .. i - 1 /\ k <= i - 1
      BY <2>2, <1>1
    <3> QED BY <1>4, <1>7, <2>1, <2>2, <3>1
  <2>3. CASE ~(k < i)
    <3>1. ~(k <= i - 1) /\ k - (i - 1) \in 1 .. Len(d) - i /\ i + (k - (i - 1)) = k + 1
      BY <1>1, <2>1, <2>3
    <3>2. f[k] = b[k - (i - 1)]
      BY <1>7, <2>1, <3>1
    <3>3. b[k - (i - 1)] = d[k + 1]
      BY <1>5, <3>1
    <3> QED BY <2>3, <3>2, <3>3
  <2> QED BY <2>2, <2>3
<1>10. e = f
  BY <1>7, <1>8, <1>9, SeqEqual
<1> QED BY <1>2, <1>3, <1>6, <1>10
---------------------------------------------------------------------------
(* What a ring holds.                                                      *)

Marks == Values \cup {Lost}

\* d is what the nodes p of s hold.
Holds(s, n, p, d) ==
    d \in Seq(Marks) /\ Len(d) = n /\ \A k \in 1 .. n : d[k] = s.data[p[k]]

LEMMA ForthElems ==
    ASSUME NEW s, Sane(s), NEW h, NEW n, NEW p, Forth(s.next, h, n, p), Inner(n, p) \subseteq Cells,
           NEW d, d = Elems(s, h)
    PROVE  Holds(s, n, p, d)
<1>1. /\ s.next \in [Places -> Places] /\ s.data \in [Places -> Marks] /\ Cells \subseteq Places
      /\ n \in Nat
  BY UsedFacts, PlaceFacts DEF Sane, Memories, Marks, Forth
<1>2. /\ Steps(s.next, s.next[h], h) = n
      /\ \A i \in 0 .. n : Iterate(s.next, s.next[h], i) = p[i + 1]
  BY <1>1, ForthSteps
<1>3. PICK w : w = Nodes(s, h)
  OBVIOUS
<1>4. w = [k \in 1 .. n |-> Iterate(s.next, s.next[h], k - 1)]
  BY <1>2, <1>3 DEF Nodes, Path
<1>5. \A k \in 1 .. n : w[k] = p[k]
  <2>1. ASSUME NEW k \in 1 .. n PROVE w[k] = p[k]
    <3>1. k - 1 \in 0 .. n /\ k - 1 + 1 = k
      BY <1>1
    <3>2. Iterate(s.next, s.next[h], k - 1) = p[k - 1 + 1]
      BY <1>2, <3>1
    <3> QED BY <1>4, <3>1, <3>2
  <2> QED BY <2>1
<1>6. d = [k \in DOMAIN w |-> s.data[w[k]]]
  BY <1>3 DEF Elems
<1>7. DOMAIN w = 1 .. n
  BY <1>4
<1>8. \A k \in 1 .. n : d[k] = s.data[p[k]] /\ p[k] \in Cells
  BY <1>5, <1>6, <1>7 DEF Inner
<1>9. d = [k \in 1 .. n |-> d[k]]
  BY <1>6, <1>7
<1>10. \A k \in 1 .. n : d[k] \in Marks
  BY <1>1, <1>8
<1>11. d \in [1 .. n -> Marks]
  BY <1>9, <1>10
<1>12. d \in Seq(Marks) /\ Len(d) = n
  BY <1>1, <1>11
<1> QED BY <1>8, <1>12 DEF Holds

LEMMA ChainElems ==
    ASSUME NEW s, Sane(s), NEW h, NEW n, NEW p, Chain(s, h, n, p), NEW d, d = Elems(s, h)
    PROVE  Holds(s, n, p, d)
<1>1. Inner(n, p) \subseteq Cells
  BY UsedFacts DEF Chain
<1> QED BY <1>1, ForthElems DEF Chain, Rounds

LEMMA HoldsOnce ==
    ASSUME NEW s, NEW t, NEW n \in Nat, NEW p, NEW q, NEW d, NEW e,
           Holds(s, n, p, d), Holds(t, n, q, e),
           \A k \in 1 .. n : t.data[q[k]] = s.data[p[k]]
    PROVE  e = d
<1>1. d \in Seq(Marks) /\ e \in Seq(Marks) /\ Len(e) = Len(d) /\ \A k \in 1 .. Len(e) : e[k] = d[k]
  BY DEF Holds
<1> QED BY <1>1, SeqEqual

\* shared_null has no nodes.
LEMMA NullElems ==
    ASSUME NEW s, Sane(s), s.next[Null] = Null
    PROVE  Elems(s, Null) = <<>>
<1>1. s.next \in [Places -> Places] /\ Null \in Places /\ Longest \in Nat /\ 0 < Longest
  BY UsedFacts, PlaceFacts DEF Sane, Memories, Longest
<1>2. Steps(s.next, Null, Null) = 0
  <2>1. Reaches(s.next, Null, Null, 0)
    BY <1>1, IterateSteps DEF Reaches
  <2> QED BY <1>1, <2>1, StepsFacts, ReachesOnce
<1>3. Nodes(s, Null) = [k \in 1 .. 0 |-> Iterate(s.next, Null, k - 1)]
  BY <1>2 DEF Nodes, Path
<1>4. PICK w : w = Nodes(s, Null)
  OBVIOUS
<1>5. DOMAIN w = {}
  BY <1>3, <1>4
<1>6. Elems(s, Null) = [k \in DOMAIN w |-> s.data[w[k]]]
  BY <1>4 DEF Elems
<1>7. PICK e : e = Elems(s, Null)
  OBVIOUS
<1>8. e \in [1 .. 0 -> Marks]
  BY <1>5, <1>6, <1>7
<1> QED BY <1>7, <1>8

\* A ring whose cells did not change holds what it held.
LEMMA SameElems ==
    ASSUME NEW s, NEW t, Sane(s), Sane(t), NEW h, NEW n, NEW p, Chain(s, h, n, p), Chain(t, h, n, p),
           \A c \in Inner(n, p) : t.data[c] = s.data[c]
    PROVE  Elems(t, h) = Elems(s, h)
<1>1. PICK d : d = Elems(s, h)
  OBVIOUS
<1>2. PICK e : e = Elems(t, h)
  OBVIOUS
<1>3. Holds(s, n, p, d) /\ Holds(t, n, p, e)
  BY <1>1, <1>2, ChainElems
<1>4. n \in Nat /\ \A k \in 1 .. n : t.data[p[k]] = s.data[p[k]]
  <2>1. n \in Nat
    BY DEF Chain, Rounds, Forth
  <2>2. \A k \in 1 .. n : p[k] \in Inner(n, p)
    BY DEF Inner
  <2>3. ASSUME NEW k \in 1 .. n PROVE t.data[p[k]] = s.data[p[k]]
    BY <2>2
  <2> QED BY <2>1, <2>3
<1>5. e = d
  BY <1>3, <1>4, HoldsOnce
<1> QED BY <1>1, <1>2, <1>5
---------------------------------------------------------------------------
(* The other handle's elements.                                            *)

\* The other handle has no block, or a ring behind the fence.
Behind(F, s) ==
    s.other = Null \/ \E n, p : Chain(s, s.other, n, p) /\ Cycle(n, p) \subseteq F

LEMMA OtherKept ==
    ASSUME NEW s, Sane(s), NEW F, Behind(F, s), s.next[Null] = Null, NEW t, Sane(t), t.next[Null] = Null,
           Same(F, s, t)
    PROVE  Elems(t, t.other) = Elems(s, s.other) /\ Behind(F, t)
<1>1. t.other = s.other
  BY DEF Same
<1>2. CASE s.other = Null
  BY <1>1, <1>2, NullElems DEF Behind
<1>3. CASE s.other # Null
  <2>1. PICK n, p : Chain(s, s.other, n, p) /\ Cycle(n, p) \subseteq F
    BY <1>3 DEF Behind
  <2>2. Chain(t, s.other, n, p)
    BY <2>1, BehindChain
  <2>3. Cycle(n, p) = Inner(n, p) \cup {s.other}
    BY <2>1, CycleFacts DEF Chain, Rounds
  <2>4. \A c \in Inner(n, p) : t.data[c] = s.data[c]
    BY <2>1, <2>3 DEF Same
  <2>5. Elems(t, s.other) = Elems(s, s.other)
    BY <2>1, <2>2, <2>4, SameElems
  <2> QED BY <1>1, <2>1, <2>2, <2>5 DEF Behind
<1> QED BY <1>2, <1>3

\* The list is detached and its ring is whole, and so is the other's.
Whole(F, s) ==
    /\ Sane(s) /\ Fenced(s, F) /\ s.fault = "no" /\ Good(s) /\ s.next[Null] = Null
    /\ Behind(F, s)

LEMMA WholeKeeps ==
    ASSUME NEW F, NEW s, Whole(F, s), NEW t, Within(F, s, t)
    PROVE  t.list = s.list /\ Elems(t, t.other) = Elems(s, s.other)
<1>1. Same(F, s, t) /\ Sane(t) /\ t.list = s.list
  BY DEF Within
<1>2. t.next[Null] = Null
  BY <1>1 DEF Same, Whole, Fenced
<1> QED BY <1>1, <1>2, OtherKept DEF Whole
---------------------------------------------------------------------------
(* detach() keeps what the handles hold.                                   *)

\* What every call on two whole rings starts with.
Quiet ==
    /\ RingInv /\ m.fault = "no" /\ {m.list, m.other} \cap twisted = {}
    /\ ~(is_shared(m) /\ size(m) = 0)

\* s is the memory m with the list detached.
Prepared(F, s) ==
    /\ Whole(F, s)
    /\ Elems(s, s.list) = Elems(m, m.list) /\ Elems(s, s.other) = Elems(m, m.other)

LEMMA QuietFacts ==
    ASSUME Quiet
    PROVE  /\ Sane(m) /\ Base(twisted, m) /\ Kept(twisted, m) /\ m.next[Null] = Null
           /\ m.list \notin twisted /\ m.other \notin twisted
BY DEF Quiet, RingInv, Base

LEMMA QuietBehind ==
    ASSUME Quiet
    PROVE  /\ m.list = Null => Behind(Used(m), m)
           /\ \A F : Open(F, twisted, m) /\ m.other # m.list => Behind(F, m)
           /\ m.list # Null /\ is_shared(m) => Behind(Used(m), m)
<1>1. m.list = Null => Behind(Used(m), m)
  BY QuietFacts DEF Kept, Shut, OtherOK, Behind
<1>2. \A F : Open(F, twisted, m) /\ m.other # m.list => Behind(F, m)
  BY QuietFacts DEF Open, OtherOK, Behind
<1>3. ASSUME m.list # Null, is_shared(m) PROVE Behind(Used(m), m)
  <2>1. PICK F : Open(F, twisted, m)
    BY <1>3, QuietFacts DEF Kept
  <2>2. Good(m) /\ Fenced(m, F) /\ Sane(m)
    BY <2>1, QuietFacts DEF Open
  <2>3. PICK n, p : Chain(m, m.list, n, p)
    BY <2>2 DEF Good
  <2>4. Cycle(n, p) \subseteq Used(m)
    BY <2>2, <2>3, AroundFacts
  <2> QED BY <1>3, <2>3, <2>4 DEF Behind, is_shared
<1> QED BY <1>1, <1>2, <1>3

LEMMA ApartPrepared ==
    ASSUME Quiet, NEW s, Sane(s), s.fault = "no", Good(s),
           Apart(m, s), Behind(Used(m), m), Elems(s, s.list) = Elems(m, m.list)
    PROVE  Prepared(Used(m), s)
<1>1. Fenced(s, Used(m)) /\ Same(Used(m), m, s)
  BY DEF Apart
<1>2. s.next[Null] = Null
  BY QuietFacts, ApartSame
<1>3. Elems(s, s.other) = Elems(m, m.other) /\ Behind(Used(m), s)
  BY <1>1, <1>2, QuietFacts, OtherKept
<1> QED BY <1>1, <1>2, <1>3 DEF Prepared, Whole

\* A shared block is copied: everything that was there is behind the fence.
LEMMA DetachShared ==
    ASSUME Quiet, Room(m, Cardinality(m.nodes) + 1), is_shared(m), NEW s, s = detach(m)
    PROVE  /\ Prepared(Used(m), s)
           /\ \E n, p, q : IsCopy(m, s, n, p, q)
<1>1. m.list # Null /\ is_shared(m)
  BY DEF is_shared
<1>2. RingInv /\ m.fault = "no"
  BY DEF Quiet
<1>3. Sane(s) /\ s.fault = "no" /\ Good(s)
  BY <1>2, QuietFacts, DetachedGood
<1>4. PICK F : Open(F, twisted, m)
  BY <1>1, QuietFacts DEF Kept
<1>5. Good(m) /\ Fenced(m, F)
  BY <1>4, QuietFacts DEF Open
<1>6. PICK i, w : Chain(m, m.list, i, w)
  BY <1>5 DEF Good
<1>7. size(m) = i /\ i \in Nat
  BY <1>6 DEF Chain, Rounds, Forth, size
<1>8. size(m) > 0
  BY <1>1, <1>7 DEF Quiet
<1>9. Closed(m, m.list)
  BY <1>6, ChainRing, QuietFacts
<1>10. \E n, p, q : IsCopy(m, s, n, p, q)
  BY <1>2, <1>1, <1>4, <1>8, <1>9, DetachCopy, QuietFacts
<1>11. PICK n, p, q : IsCopy(m, s, n, p, q)
  BY <1>10
<1>12. Inner(n, q) \subseteq Cells /\ Inner(n, p) \subseteq Cells
  BY <1>3, <1>11, UsedFacts, QuietFacts DEF IsCopy
<1>13. Forth(m.next, m.list, n, p) /\ Forth(s.next, s.list, n, q) /\ Apart(m, s)
       /\ \A k \in 1 .. n : s.data[q[k]] = m.data[p[k]]
  BY <1>11 DEF IsCopy, Rounds
<1>14. PICK d : d = Elems(m, m.list)
  OBVIOUS
<1>15. PICK e : e = Elems(s, s.list)
  OBVIOUS
<1>16. Holds(m, n, p, d) /\ Holds(s, n, q, e)
  BY <1>3, <1>12, <1>13, <1>14, <1>15, ForthElems, QuietFacts
<1>17. e = d
  <2>1. n \in Nat
    BY <1>13 DEF Forth
  <2> QED BY <1>13, <1>16, <2>1, HoldsOnce
<1>18. Prepared(Used(m), s)
  BY <1>1, <1>3, <1>13, <1>14, <1>15, <1>17, QuietBehind, ApartPrepared
<1> QED BY <1>10, <1>18

LEMMA DetachWhole ==
    ASSUME Quiet, Room(m, Cardinality(m.nodes) + 1), NEW s, s = detach(m)
    PROVE  \E F : Prepared(F, s)
<1>1. RingInv /\ m.fault = "no"
  BY DEF Quiet
<1>2. Sane(s) /\ s.fault = "no" /\ Good(s)
  BY <1>1, QuietFacts, DetachedGood
<1>3. CASE m.list # Null /\ ~is_shared(m)
  <2>1. s = m
    BY <1>3 DEF detach
  <2>2. PICK F : Open(F, twisted, m)
    BY <1>3, QuietFacts DEF Kept
  <2>3. m.other # m.list
    BY <1>3 DEF is_shared
  <2>4. Behind(F, m)
    BY <2>2, <2>3, QuietBehind
  <2>5. Whole(F, s)
    BY <1>2, <2>1, <2>2, <2>4, QuietFacts DEF Whole, Open
  <2> QED BY <2>1, <2>5 DEF Prepared
<1>4. CASE m.list = Null
  <2>1. s = NewHeader(m)
    BY <1>4 DEF detach
  <2>2. Free(m) # {}
    <3>1. Cardinality(m.nodes) \in Nat /\ Cardinality(Free(m)) \in Nat
      BY UsedFacts, CellsFinite, QuietFacts
    <3>2. Cardinality(Free(m)) # 0
      BY <3>1 DEF Room
    <3> QED BY <3>2, FS_EmptySet
  <2>3. Apart(m, s) /\ Elements(s, s.list) = {}
    BY <2>1, <2>2, QuietFacts, HeaderGood
  <2>4. PICK n, p : Chain(s, s.list, n, p)
    BY <1>2 DEF Good
  <2>5. Inner(n, p) = {} /\ n \in Nat
    BY <1>2, <2>3, <2>4, ChainRing DEF Chain, Rounds, Forth
  <2>6. n = 0
    <3>1. \A k \in 1 .. n : FALSE
      BY <2>5 DEF Inner
    <3> QED BY <2>5, <3>1
  <2>7. PICK d : d = Elems(s, s.list)
    OBVIOUS
  <2>8. d \in Seq(Marks) /\ Len(d) = 0
    BY <1>2, <2>4, <2>6, <2>7, ChainElems DEF Holds
  <2>9. d = <<>>
    BY <2>8, EmptySeq
  <2>10. Elems(m, m.list) = <<>>
    BY <1>4, NullElems, QuietFacts
  <2> QED BY <1>2, <1>4, <2>3, <2>7, <2>9, <2>10, QuietBehind, ApartPrepared
<1>5. CASE m.list # Null /\ is_shared(m)
  BY <1>5, DetachShared
<1> QED BY <1>3, <1>4, <1>5
---------------------------------------------------------------------------
(* The service's actions.                                                  *)

LEMMA ValueIs ==
    /\ value = [h \in Handles |-> IF h = "l" THEN Elems(m, m.list) ELSE Elems(m, m.other)]
    /\ value' = [h \in Handles |-> IF h = "l" THEN Elems(m', m'.list) ELSE Elems(m', m'.other)]
    /\ value["l"] = Elems(m, m.list) /\ value["b"] = Elems(m, m.other)
    /\ "l" \in Handles /\ "b" \in Handles
BY DEF value, Handles

\* The list's elements become e, the other handle's stay.
LEMMA ListBecomes ==
    ASSUME NEW e, Elems(m', m'.list) = e, Elems(m', m'.other) = Elems(m, m.other)
    PROVE  Service!Becomes("l", e)
<1>1. value' = [value EXCEPT !["l"] = e]
  BY ValueIs DEF Handles
<1> QED BY <1>1 DEF Service!Becomes

LEMMA ValueStays ==
    ASSUME Elems(m', m'.list) = Elems(m, m.list), Elems(m', m'.other) = Elems(m, m.other)
    PROVE  UNCHANGED value
BY ValueIs

\* What a call on a detached list makes of the elements d of its ring.
Grown(d, e, v) ==
    \E i \in 0 .. Len(d) : e = SubSeq(d, 1, i) \o <<v>> \o SubSeq(d, i + 1, Len(d))
Shrunk(d, e) ==
    \E i \in 1 .. Len(d) : e = SubSeq(d, 1, i - 1) \o SubSeq(d, i + 1, Len(d))

LEMMA GrownInserts ==
    ASSUME NEW v \in Values, Grown(Elems(m, m.list), Elems(m', m'.list), v),
           Elems(m', m'.other) = Elems(m, m.other)
    PROVE  Service!Insert
<1>1. PICK d : d = value["l"]
  OBVIOUS
<1>2. PICK e : e = Elems(m', m'.list)
  OBVIOUS
<1>3. PICK i \in 0 .. Len(d) : e = SubSeq(d, 1, i) \o <<v>> \o SubSeq(d, i + 1, Len(d))
  BY <1>1, <1>2, ValueIs DEF Grown
<1>4. Service!Becomes("l", e)
  BY <1>2, ListBecomes
<1>5. "l" \in Handles /\ i \in 0 .. Len(value["l"])
      /\ Service!Becomes("l", SubSeq(value["l"], 1, i) \o <<v>> \o SubSeq(value["l"], i + 1, Len(value["l"])))
  BY <1>1, <1>3, <1>4, ValueIs
<1> QED BY <1>5 DEF Service!Insert

LEMMA ShrunkErases ==
    ASSUME Elems(m, m.list) \in Seq(Marks), Shrunk(Elems(m, m.list), Elems(m', m'.list)),
           Elems(m', m'.other) = Elems(m, m.other)
    PROVE  Service!Erase
<1>1. PICK d : d = value["l"]
  OBVIOUS
<1>2. PICK e : e = Elems(m', m'.list)
  OBVIOUS
<1>3. PICK i \in 1 .. Len(d) : e = SubSeq(d, 1, i - 1) \o SubSeq(d, i + 1, Len(d))
  BY <1>1, <1>2, ValueIs DEF Shrunk
<1>4. Service!Becomes("l", e)
  BY <1>2, ListBecomes
<1>5. Len(d) \in Nat
  BY <1>1, ValueIs, LenProperties
<1>6. i - 1 \in 0 .. Len(d) /\ i \in 0 .. Len(d) /\ i - 1 <= i
  BY <1>5
<1>7. "l" \in Handles /\ i - 1 \in 0 .. Len(value["l"]) /\ i \in 0 .. Len(value["l"]) /\ i - 1 <= i
      /\ Service!Becomes("l", SubSeq(value["l"], 1, i - 1) \o SubSeq(value["l"], i + 1, Len(value["l"])))
  BY <1>1, <1>3, <1>4, <1>6, ValueIs
<1> QED BY <1>7 DEF Service!Erase
---------------------------------------------------------------------------
(* A node put in, and one taken out.                                       *)

LEMMA LinkedGrows ==
    ASSUME NEW s, Sane(s), NEW F, Fenced(s, F), NEW n, NEW p, Chain(s, s.list, n, p),
           NEW i \in 0 .. n, NEW c, NEW v \in Marks,
           NEW t, Linked(s, t, p[i], p[i + 1], c, v), Within(F, s, t)
    PROVE  Grown(Elems(s, s.list), Elems(t, t.list), v)
<1>1. PICK d : d = Elems(s, s.list)
  OBVIOUS
<1>2. PICK e : e = Elems(t, t.list)
  OBVIOUS
<1>3. PICK q : q = Put(p, n, i, c)
  OBVIOUS
<1>4. Sane(t) /\ Chain(t, t.list, n + 1, q)
  BY <1>3, LinkedStays DEF Within
<1>5. Holds(s, n, p, d) /\ Holds(t, n + 1, q, e)
  BY <1>1, <1>2, <1>4, ChainElems
<1>6. n \in Nat /\ Inner(n, p) \subseteq s.nodes
  BY AroundFacts
<1>7. t.data[c] = v /\ But(t.data, s.data, c) /\ c \notin s.nodes
  BY DEF Linked, Used
<1>8. /\ d \in Seq(Marks) /\ Len(d) = n /\ e \in Seq(Marks) /\ Len(e) = n + 1
      /\ \A k \in 1 .. n : d[k] = s.data[p[k]]
      /\ \A k \in 1 .. n + 1 : e[k] = t.data[q[k]]
  BY <1>5 DEF Holds
<1>9. \A k \in 1 .. n : t.data[p[k]] = d[k]
  <2>1. ASSUME NEW k \in 1 .. n PROVE t.data[p[k]] = d[k]
    <3>1. p[k] \in s.nodes
      BY <1>6 DEF Inner
    <3>2. p[k] \in Places \ {c}
      BY <1>7, <3>1, UsedFacts, PlaceFacts
    <3>3. t.data[p[k]] = s.data[p[k]]
      BY <1>7, <3>2 DEF But
    <3> QED BY <1>8, <3>3
  <2> QED BY <2>1
<1>10. ASSUME NEW k \in 1 .. Len(e)
       PROVE  e[k] = IF k <= i THEN d[k] ELSE IF k = i + 1 THEN v ELSE d[k - 1]
  <2>1. k \in 1 .. n + 1 /\ k \in 0 .. n + 2 /\ k \in Nat /\ i \in Nat
    BY <1>6, <1>8
  <2>2. e[k] = t.data[q[k]]
    BY <1>8, <2>1
  <2>3. CASE k <= i
    <3>1. q[k] = p[k] /\ k \in 1 .. n
      BY <1>3, <1>6, <2>1, <2>3 DEF Put
    <3> QED BY <1>9, <2>2, <2>3, <3>1
  <2>4. CASE k = i + 1
    <3>1. q[k] = c /\ ~(k <= i)
      BY <1>3, <2>1, <2>4 DEF Put
    <3> QED BY <1>7, <2>2, <2>4, <3>1
  <2>5. CASE k > i + 1
    <3>1. q[k] = p[k - 1] /\ k - 1 \in 1 .. n /\ ~(k <= i) /\ k # i + 1
      BY <1>3, <1>6, <2>1, <2>5 DEF Put
    <3>2. e[k] = d[k - 1]
      BY <1>9, <2>2, <3>1
    <3> QED BY <3>1, <3>2
  <2> QED BY <2>1, <2>3, <2>4, <2>5
<1>11. i \in 0 .. Len(d) /\ Len(e) = Len(d) + 1
  BY <1>8
<1>12. e = SubSeq(d, 1, i) \o <<v>> \o SubSeq(d, i + 1, Len(d))
  BY <1>8, <1>10, <1>11, PutSeq
<1> QED BY <1>1, <1>2, <1>11, <1>12 DEF Grown

LEMMA LinkGrows ==
    ASSUME NEW s, Sane(s), NEW F, Fenced(s, F), Good(s), Free(s) # {},
           NEW d \in Around(s, s.list), NEW v \in Marks, NEW t, t = Link(s, d, v)
    PROVE  Within(F, s, t) /\ Grown(Elems(s, s.list), Elems(t, t.list), v)
<1>1. PICK n, p : Chain(s, s.list, n, p)
  BY DEF Good
<1>2. v \in Values \cup {Lost}
  BY DEF Marks
<1>3. Within(F, s, t) /\ LinkedBefore(s, t, n, p, d, v)
  BY <1>1, <1>2, LinkPlace
<1>4. PICK i \in 0 .. n : Linked(s, t, p[i], p[i + 1], New(s), v)
  BY ONLY <1>3 DEF LinkedBefore
<1> QED BY <1>1, <1>3, <1>4, LinkedGrows

LEMMA LinkFirstGrows ==
    ASSUME NEW s, Sane(s), NEW F, Fenced(s, F), Good(s), Free(s) # {},
           NEW v \in Marks, NEW t, t = LinkFirst(s, v)
    PROVE  Within(F, s, t) /\ Grown(Elems(s, s.list), Elems(t, t.list), v)
<1>1. PICK n, p : Chain(s, s.list, n, p)
  BY DEF Good
<1>2. v \in Values \cup {Lost}
  BY DEF Marks
<1>3. Within(F, s, t) /\ 0 \in 0 .. n /\ Linked(s, t, p[0], p[0 + 1], New(s), v)
  BY <1>1, <1>2, LinkFirstPlace
<1> QED BY <1>1, <1>3, LinkedGrows

LEMMA RemoveShrinks ==
    ASSUME NEW s, Sane(s), NEW F, Fenced(s, F), Good(s), NEW pos \in Int,
           NEW t, t = RemoveAt(s, pos)
    PROVE  Within(F, s, t) /\ (t = s \/ Shrunk(Elems(s, s.list), Elems(t, t.list)))
<1>1. PICK n, p : Chain(s, s.list, n, p)
  BY DEF Good
<1>2. PICK k : k = IF size(s) = 0 \/ pos < size(s) THEN pos ELSE size(s) - 1
  OBVIOUS
<1>3. k \in Int
  <2>1. size(s) \in Int
    BY UsedFacts DEF size
  <2> QED BY <1>2, <2>1
<1>4. PICK x : x = Plus(s, begin(s), k)
  OBVIOUS
<1>5. t = IF x = s.list THEN s
          ELSE IF x \notin s.nodes THEN Fails(s, "freed")
          ELSE Count(freenode(Out(s, x), x), -1)
  BY <1>2, <1>4 DEF RemoveAt, begin
<1>6. CASE x = s.list
  BY <1>5, <1>6, WithinSelf
<1>7. CASE x # s.list
  <2>1. x \in Elements(s, s.list)
    BY <1>3, <1>4, <1>7, PlusAround
  <2>2. x \in Inner(n, p) /\ Inner(n, p) \subseteq s.nodes /\ n \in Nat
    BY <1>1, <2>1, AroundFacts
  <2>3. t = Count(freenode(Out(s, x), x), -1)
    BY <1>5, <1>7, <2>2
  <2>4. PICK i \in 1 .. n : x = p[i]
    BY <2>2 DEF Inner
  <2>5. PICK q : q = Cut(p, n, i)
    OBVIOUS
  <2>6. Within(F, s, t) /\ Chain(t, t.list, n - 1, q) /\ But(t.data, s.data, x)
    BY <1>1, <2>3, <2>4, <2>5, FreedPlace
  <2>7. PICK d : d = Elems(s, s.list)
    OBVIOUS
  <2>8. PICK e : e = Elems(t, t.list)
    OBVIOUS
  <2>9. Holds(s, n, p, d) /\ Holds(t, n - 1, q, e)
    BY <1>1, <2>6, <2>7, <2>8, ChainElems DEF Within
  <2>10. /\ d \in Seq(Marks) /\ Len(d) = n /\ e \in Seq(Marks) /\ Len(e) = n - 1
         /\ \A j \in 1 .. n : d[j] = s.data[p[j]]
         /\ \A j \in 1 .. n - 1 : e[j] = t.data[q[j]]
    BY <2>9 DEF Holds
  <2>11. ASSUME NEW j \in 1 .. n, j # i PROVE t.data[p[j]] = d[j]
    <3>1. Forth(s.next, s.list, n, p) /\ j \in 0 .. n /\ i \in 0 .. n
      BY <1>1, <2>2 DEF Chain, Rounds
    <3>2. p[j] # x
      BY <2>4, <2>11, <3>1 DEF Forth
    <3>3. p[j] \in s.nodes
      BY <2>2 DEF Inner
    <3>4. p[j] \in Places \ {x}
      BY <3>2, <3>3, UsedFacts, PlaceFacts
    <3>5. t.data[p[j]] = s.data[p[j]]
      BY <2>6, <3>4 DEF But
    <3> QED BY <2>10, <3>5
  <2>12. ASSUME NEW j \in 1 .. Len(e) PROVE e[j] = IF j < i THEN d[j] ELSE d[j + 1]
    <3>1. j \in 1 .. n - 1 /\ j \in 0 .. n /\ j \in 1 .. n /\ j + 1 \in 1 .. n
      BY <2>2, <2>10
    <3>2. e[j] = t.data[q[j]]
      BY <2>10, <3>1
    <3>3. CASE j < i
      <4>1. q[j] = p[j] /\ j # i
        BY <2>2, <2>5, <3>1, <3>3 DEF Cut
      <4> QED BY <2>11, <3>1, <3>2, <3>3, <4>1
    <3>4. CASE ~(j < i)
      <4>1. q[j] = p[j + 1] /\ j + 1 # i
        BY <2>2, <2>5, <3>1, <3>4 DEF Cut
      <4> QED BY <2>11, <3>1, <3>2, <3>4, <4>1
    <3> QED BY <3>3, <3>4
  <2>13. i \in 1 .. Len(d) /\ Len(e) = Len(d) - 1
    BY <2>10
  <2>14. e = SubSeq(d, 1, i - 1) \o SubSeq(d, i + 1, Len(d))
    BY <2>10, <2>12, <2>13, CutSeq
  <2>15. Shrunk(d, e)
    BY <2>13, <2>14 DEF Shrunk
  <2> QED BY <2>6, <2>7, <2>8, <2>15
<1> QED BY <1>6, <1>7
---------------------------------------------------------------------------
(* The calls that put a node in or take one out.                           *)

Answers == Service!Next \/ UNCHANGED value

LEMMA AnswersGrown ==
    ASSUME Quiet, Room(m, Cardinality(m.nodes) + 1), NEW s, s = detach(m), NEW v \in Values, NEW t, m' = t,
           \A F : Whole(F, s) => Within(F, s, t) /\ Grown(Elems(s, s.list), Elems(t, t.list), v)
    PROVE  Answers
<1>1. PICK F : Prepared(F, s)
  BY DetachWhole
<1>2. Within(F, s, t) /\ Grown(Elems(s, s.list), Elems(t, t.list), v)
  BY <1>1 DEF Prepared
<1>3. Grown(Elems(m, m.list), Elems(m', m'.list), v)
  BY <1>1, <1>2 DEF Prepared
<1>4. Elems(m', m'.other) = Elems(m, m.other)
  BY <1>1, <1>2, WholeKeeps DEF Prepared
<1>5. Service!Insert
  BY <1>3, <1>4, GrownInserts
<1> QED BY <1>5 DEF Answers, Service!Next

LEMMA WholeFacts ==
    ASSUME NEW F, NEW s, Whole(F, s)
    PROVE  /\ Sane(s) /\ Fenced(s, F) /\ Good(s) /\ s.fault = "no"
           /\ Elems(s, s.list) \in Seq(Marks)
<1>1. Sane(s) /\ Fenced(s, F) /\ Good(s) /\ s.fault = "no"
  BY DEF Whole
<1>2. PICK n, p : Chain(s, s.list, n, p)
  BY <1>1 DEF Good
<1>3. PICK d : d = Elems(s, s.list)
  OBVIOUS
<1>4. Holds(s, n, p, d)
  BY <1>1, <1>2, <1>3, ChainElems
<1> QED BY <1>1, <1>3, <1>4 DEF Holds

LEMMA AnswersShrunk ==
    ASSUME Quiet, Room(m, Cardinality(m.nodes) + 1), NEW s, s = detach(m), NEW t, m' = t,
           \A F : Whole(F, s)
                  => Within(F, s, t) /\ (t = s \/ Shrunk(Elems(s, s.list), Elems(t, t.list)))
    PROVE  Answers
<1>1. PICK F : Prepared(F, s)
  BY DetachWhole
<1>2. Within(F, s, t) /\ (t = s \/ Shrunk(Elems(s, s.list), Elems(t, t.list)))
  BY <1>1 DEF Prepared
<1>3. Elems(m', m'.other) = Elems(m, m.other)
  BY <1>1, <1>2, WholeKeeps DEF Prepared
<1>4. CASE t = s
  <2>1. UNCHANGED value
    BY <1>1, <1>3, <1>4, ValueStays DEF Prepared
  <2> QED BY <2>1 DEF Answers
<1>5. CASE Shrunk(Elems(s, s.list), Elems(t, t.list))
  <2>1. Shrunk(Elems(m, m.list), Elems(m', m'.list))
    BY <1>1, <1>5 DEF Prepared
  <2>2. Elems(m, m.list) \in Seq(Marks)
    BY <1>1, WholeFacts DEF Prepared
  <2>3. Service!Erase
    BY <1>3, <2>1, <2>2, ShrunkErases
  <2> QED BY <2>3 DEF Answers, Service!Next
<1> QED BY <1>2, <1>4, <1>5

LEMMA AnswersRemoved ==
    ASSUME Quiet, Room(m, Cardinality(m.nodes) + 1), NEW s, s = detach(m), NEW pos \in Int,
           m' = RemoveAt(s, pos)
    PROVE  Answers
<1>1. PICK t : t = RemoveAt(s, pos)
  OBVIOUS
<1>2. ASSUME NEW F, Whole(F, s)
      PROVE  Within(F, s, t) /\ (t = s \/ Shrunk(Elems(s, s.list), Elems(t, t.list)))
  BY <1>1, <1>2, WholeFacts, RemoveShrinks
<1> QED BY <1>1, <1>2, AnswersShrunk

LEMMA QuietRoom ==
    ASSUME Quiet, Room(m, Cardinality(m.nodes) + 2), NEW s, s = detach(m)
    PROVE  Room(m, Cardinality(m.nodes) + 1) /\ Free(s) # {}
BY ShortRoom DEF Quiet

LEMMA AnswersAppend ==
    ASSUME Quiet, NEW v \in Values, Append1(v)
    PROVE  Answers
<1>1. PICK s : s = detach(m)
  OBVIOUS
<1>2. PICK t : t = Link(s, s.list, v)
  OBVIOUS
<1>3. Room(m, Cardinality(m.nodes) + 2) /\ m' = t
  BY <1>1, <1>2 DEF Append1, Short, Does
<1>4. Room(m, Cardinality(m.nodes) + 1) /\ Free(s) # {}
  BY <1>1, <1>3, QuietRoom
<1>5. ASSUME NEW F, Whole(F, s)
      PROVE  Within(F, s, t) /\ Grown(Elems(s, s.list), Elems(t, t.list), v)
  <2>1. s.list \in Around(s, s.list) /\ v \in Marks
    BY DEF Around, Marks
  <2> QED BY <1>2, <1>4, <1>5, <2>1, WholeFacts, LinkGrows
<1> QED BY <1>1, <1>3, <1>4, <1>5, AnswersGrown

LEMMA AnswersPrepend ==
    ASSUME Quiet, NEW v \in Values, Prepend(v)
    PROVE  Answers
<1>1. PICK s : s = detach(m)
  OBVIOUS
<1>2. PICK t : t = LinkFirst(s, v)
  OBVIOUS
<1>3. Room(m, Cardinality(m.nodes) + 2) /\ m' = t
  BY <1>1, <1>2 DEF Prepend, Short, Does
<1>4. Room(m, Cardinality(m.nodes) + 1) /\ Free(s) # {}
  BY <1>1, <1>3, QuietRoom
<1>5. ASSUME NEW F, Whole(F, s)
      PROVE  Within(F, s, t) /\ Grown(Elems(s, s.list), Elems(t, t.list), v)
  <2>1. v \in Marks
    BY DEF Marks
  <2> QED BY <1>2, <1>4, <1>5, <2>1, WholeFacts, LinkFirstGrows
<1> QED BY <1>1, <1>3, <1>4, <1>5, AnswersGrown

\* insert() at a position found by walking k steps.
LEMMA AnswersPlaced ==
    ASSUME Quiet, Room(m, Cardinality(m.nodes) + 2), NEW s, s = detach(m), NEW v \in Values,
           NEW k, Sane(s) => k \in Int, NEW t, m' = t, t = Link(s, Plus(s, begin(s), k), v)
    PROVE  Answers
<1>1. Room(m, Cardinality(m.nodes) + 1) /\ Free(s) # {}
  BY QuietRoom
<1>2. ASSUME NEW F, Whole(F, s)
      PROVE  Within(F, s, t) /\ Grown(Elems(s, s.list), Elems(t, t.list), v)
  <2>1. Sane(s) /\ Fenced(s, F) /\ Good(s) /\ v \in Marks
    BY <1>2, WholeFacts DEF Marks
  <2>2. PICK d : d = Plus(s, begin(s), k)
    OBVIOUS
  <2>3. d \in Around(s, s.list)
    BY <2>1, <2>2, PlusAround
  <2> QED BY <1>1, <2>1, <2>2, <2>3, LinkGrows
<1> QED BY <1>1, <1>2, AnswersGrown

LEMMA SaneFails ==
    ASSUME NEW s, Sane(s), NEW what \in Faults, what # "no"
    PROVE  Fails(s, what).fault # "no"
BY FailsFields DEF Sane

LEMMA QuietSane ==
    ASSUME Quiet, Room(m, Cardinality(m.nodes) + 1), NEW s, s = detach(m)
    PROVE  Sane(s) /\ detach(s) = s /\ \E F : Whole(F, s)
<1>1. \E F : Whole(F, s)
  BY DetachWhole DEF Prepared
<1>2. RingInv /\ m.fault = "no" /\ m.list \notin twisted
  BY QuietFacts DEF Quiet
<1> QED BY <1>1, <1>2, DetachedGood

LEMMA AnswersInsert ==
    ASSUME Quiet, NEW pos \in Positions, NEW v \in Values, Insert(pos, v), m'.fault = "no"
    PROVE  Answers
<1>1. PICK s : s = detach(m)
  OBVIOUS
<1>2. PICK k : k = IF pos > size(s) THEN size(s) - 1 ELSE pos
  OBVIOUS
<1>3. PICK d : d = Plus(s, begin(s), k)
  OBVIOUS
<1>4. /\ Room(m, Cardinality(m.nodes) + 2) /\ pos \in Int
      /\ m' = IF d \in Used(s) THEN Link(s, d, v) ELSE Fails(s, "freed")
  BY <1>1, <1>2, <1>3, RingAssumptions DEF Insert, Short, Does, Positions
<1>5. Room(m, Cardinality(m.nodes) + 1)
  BY <1>1, <1>4, QuietRoom
<1>6. Sane(s) => k \in Int
  BY <1>2, <1>4, UsedFacts DEF size
<1>7. d \in Used(s)
  <2>1. PICK F : Whole(F, s)
    BY <1>1, <1>5, QuietSane
  <2> QED BY <1>3, <1>6, <2>1, WholeFacts, PlusAround
<1> QED BY <1>1, <1>3, <1>4, <1>6, <1>7, AnswersPlaced

LEMMA AnswersInsertAt ==
    ASSUME Quiet, NEW v \in Values, InsertAt(v), m'.fault = "no"
    PROVE  Answers
<1>1. PICK s : s = detach(m)
  OBVIOUS
<1>2. PICK k : k = Back(s, it, begin(s))
  OBVIOUS
<1>3. /\ Room(m, Cardinality(m.nodes) + 2)
      /\ m' = IF k < Longest THEN Link(s, Plus(s, begin(s), k), v) ELSE Fails(s, "hang")
  BY <1>1, <1>2 DEF InsertAt, Short, Does
<1>4. Room(m, Cardinality(m.nodes) + 1)
  BY <1>1, <1>3, QuietRoom
<1>5. it \in Places /\ Sane(s) /\ "hang" \in Faults
  BY <1>1, <1>4, QuietSane DEF Quiet, RingInv, Faults
<1>6. k \in Int
  BY <1>2, <1>5, BackInt
<1>7. k < Longest
  BY <1>3, <1>5, SaneFails
<1> QED BY <1>1, <1>3, <1>6, <1>7, AnswersPlaced

LEMMA AnswersRemove ==
    ASSUME Quiet, NEW pos \in Positions, Remove(pos)
    PROVE  Answers
<1>1. PICK s : s = detach(m)
  OBVIOUS
<1>2. Room(m, Cardinality(m.nodes) + 1) /\ pos \in Int /\ m' = RemoveAt(s, pos)
  BY <1>1, RingAssumptions DEF Remove, Roomy, Does, Positions
<1> QED BY <1>1, <1>2, AnswersRemoved

LEMMA AnswersErase ==
    ASSUME Quiet, Erase, m'.fault = "no"
    PROVE  Answers
<1>1. PICK s : s = detach(m)
  OBVIOUS
<1>2. PICK k : k = Back(m, it, begin(m))
  OBVIOUS
<1>3. /\ Room(m, Cardinality(m.nodes) + 1)
      /\ m' = IF k < Longest THEN RemoveAt(s, k) ELSE Fails(m, "hang")
  BY <1>1, <1>2 DEF Erase, Erased, Roomy, Does
<1>4. it \in Places /\ Sane(m) /\ "hang" \in Faults
  BY QuietFacts DEF Quiet, RingInv, Faults
<1>5. k \in Int
  BY <1>2, <1>4, BackInt
<1>6. k < Longest
  BY <1>3, <1>4, SaneFails
<1> QED BY <1>1, <1>3, <1>5, <1>6, AnswersRemoved

\* pop_back() and pop_front() erase at a cell of the detached list.
LEMMA AnswersPop ==
    ASSUME Quiet, Room(m, Cardinality(m.nodes) + 1), NEW s, s = detach(m), NEW c, Sane(s) => c \in Places,
           m' = Erased(s, c), m'.fault = "no"
    PROVE  Answers
<1>1. Sane(s) /\ detach(s) = s /\ "hang" \in Faults
  BY QuietSane DEF Faults
<1>2. PICK k : k = Back(s, c, begin(s))
  OBVIOUS
<1>3. m' = IF k < Longest THEN RemoveAt(s, k) ELSE Fails(s, "hang")
  BY <1>1, <1>2 DEF Erased
<1>4. k \in Int
  BY <1>1, <1>2, BackInt
<1>5. k < Longest
  BY <1>1, <1>3, SaneFails
<1> QED BY <1>3, <1>4, <1>5, AnswersRemoved

LEMMA AnswersPopBack ==
    ASSUME Quiet, PopBack, m'.fault = "no"
    PROVE  Answers
<1>1. PICK s : s = detach(m)
  OBVIOUS
<1>2. PICK c : c = s.prev[s.list]
  OBVIOUS
<1>3. Room(m, Cardinality(m.nodes) + 1) /\ m' = Erased(s, c)
  BY <1>1, <1>2 DEF PopBack, Roomy, Does
<1>4. Sane(s) => c \in Places
  BY <1>2, UsedFacts
<1> QED BY <1>1, <1>3, <1>4, AnswersPop

LEMMA AnswersPopFront ==
    ASSUME Quiet, PopFront, m'.fault = "no"
    PROVE  Answers
<1>1. PICK s : s = detach(m)
  OBVIOUS
<1>2. PICK c : c = begin(s)
  OBVIOUS
<1>3. Room(m, Cardinality(m.nodes) + 1) /\ m' = Erased(s, c)
  BY <1>1, <1>2 DEF PopFront, Roomy, Does
<1>4. Sane(s) => c \in Places
  BY <1>2, UsedFacts DEF begin
<1> QED BY <1>1, <1>3, <1>4, AnswersPop

LEMMA AnswersBegin ==
    ASSUME Quiet, NEW k \in Positions, Begin(k)
    PROVE  Answers
<1>1. PICK s : s = detach(m)
  OBVIOUS
<1>2. Room(m, Cardinality(m.nodes) + 1) /\ m' = s
  BY <1>1 DEF Begin, Roomy, Does
<1>3. PICK F : Prepared(F, s)
  BY <1>1, <1>2, DetachWhole
<1>4. UNCHANGED value
  BY <1>2, <1>3, ValueStays DEF Prepared
<1> QED BY <1>4 DEF Answers

LEMMA AnswersConstBegin ==
    ASSUME Quiet, NEW k \in Positions, ConstBegin(k)
    PROVE  Answers
<1>1. m' = m
  BY DEF ConstBegin
<1>2. UNCHANGED value
  BY <1>1, ValueStays
<1> QED BY <1>2 DEF Answers
---------------------------------------------------------------------------
(* The calls that change the order.                                        *)

\* The element at i goes before the one at j.
MoveAt(d, i, j, k) ==
    IF i < j
    THEN IF k < i THEN d[k] ELSE IF k < j - 1 THEN d[k + 1] ELSE IF k = j - 1 THEN d[i] ELSE d[k]
    ELSE IF k < j THEN d[k] ELSE IF k = j THEN d[i] ELSE IF k <= i THEN d[k - 1] ELSE d[k]

MovedList(d, i, j) ==
    IF i < j
    THEN SubSeq(d, 1, i - 1) \o SubSeq(d, i + 1, j - 1) \o <<d[i]>> \o SubSeq(d, j, Len(d))
    ELSE SubSeq(d, 1, j - 1) \o <<d[i]>> \o SubSeq(d, j, i - 1) \o SubSeq(d, i + 1, Len(d))

\* The elements of d are those of a, b, c and g, in this order.
IsJoined(d, a, b, c, g) ==
    /\ Len(d) = Len(a) + Len(b) + Len(c) + Len(g)
    /\ \A k \in 1 .. Len(d) : d[k] = IF k <= Len(a) THEN a[k]
                                     ELSE IF k <= Len(a) + Len(b) THEN b[k - Len(a)]
                                     ELSE IF k <= Len(a) + Len(b) + Len(c)
                                     THEN c[k - Len(a) - Len(b)]
                                     ELSE g[k - Len(a) - Len(b) - Len(c)]

LEMMA FourParts ==
    ASSUME NEW D, NEW a \in Seq(D), NEW b \in Seq(D), NEW c \in Seq(D), NEW g \in Seq(D),
           NEW d, d = a \o b \o c \o g
    PROVE  d \in Seq(D) /\ IsJoined(d, a, b, c, g)
<1>1. PICK e : e = a \o b
  OBVIOUS
<1>2. /\ e \in Seq(D) /\ Len(e) = Len(a) + Len(b)
      /\ \A k \in 1 .. Len(a) + Len(b) : e[k] = IF k <= Len(a) THEN a[k] ELSE b[k - Len(a)]
  BY <1>1, ConcatProperties
<1>3. d = e \o c \o g /\ e \in Seq(D)
  BY <1>1, <1>2
<1>4. /\ d \in Seq(D) /\ Len(d) = Len(e) + Len(c) + Len(g)
      /\ \A k \in 1 .. Len(d) : d[k] = IF k <= Len(e) THEN e[k]
                                       ELSE IF k <= Len(e) + Len(c) THEN c[k - Len(e)]
                                       ELSE g[k - Len(e) - Len(c)]
  BY <1>3, ThreeParts
<1>5. Len(a) \in Nat /\ Len(b) \in Nat /\ Len(c) \in Nat /\ Len(g) \in Nat
  BY LenProperties
<1>6. ASSUME NEW k \in 1 .. Len(d)
      PROVE  d[k] = IF k <= Len(a) THEN a[k]
                    ELSE IF k <= Len(a) + Len(b) THEN b[k - Len(a)]
                    ELSE IF k <= Len(a) + Len(b) + Len(c)
                    THEN c[k - Len(a) - Len(b)]
                    ELSE g[k - Len(a) - Len(b) - Len(c)]
  <2>1. CASE k <= Len(e)
    <3>1. k \in 1 .. Len(a) + Len(b) /\ d[k] = e[k]
      BY <1>2, <1>4, <1>5, <1>6, <2>1
    <3>2. k <= Len(a) + Len(b)
      BY <1>2, <2>1
    <3> QED BY <1>2, <3>1, <3>2
  <2>2. CASE ~(k <= Len(e)) /\ k <= Len(e) + Len(c)
    <3>1. d[k] = c[k - Len(e)]
      BY <1>4, <1>6, <2>2
    <3>2. k - Len(e) = k - Len(a) - Len(b) /\ ~(k <= Len(a)) /\ ~(k <= Len(a) + Len(b))
          /\ k <= Len(a) + Len(b) + Len(c)
      BY <1>2, <1>5, <1>6, <2>2
    <3> QED BY <3>1, <3>2
  <2>3. CASE ~(k <= Len(e) + Len(c))
    <3>1. ~(k <= Len(e))
      BY <1>2, <1>5, <1>6, <2>3
    <3>2. d[k] = g[k - Len(e) - Len(c)]
      BY <1>4, <1>6, <2>3, <3>1
    <3>3. k - Len(e) - Len(c) = k - Len(a) - Len(b) - Len(c) /\ ~(k <= Len(a))
          /\ ~(k <= Len(a) + Len(b)) /\ ~(k <= Len(a) + Len(b) + Len(c))
      BY <1>2, <1>5, <1>6, <2>3
    <3> QED BY <3>2, <3>3
  <2> QED BY <2>1, <2>2, <2>3
<1>7. Len(d) = Len(a) + Len(b) + Len(c) + Len(g)
  BY <1>2, <1>4, <1>5
<1>8. IsJoined(d, a, b, c, g)
  BY ONLY <1>6, <1>7 DEF IsJoined
<1> QED BY <1>4, <1>8

LEMMA MoveSeq ==
    ASSUME NEW D, NEW d \in Seq(D), NEW i \in 1 .. Len(d), NEW j \in 1 .. Len(d), i # j,
           NEW e \in Seq(D), Len(e) = Len(d), \A k \in 1 .. Len(e) : e[k] = MoveAt(d, i, j, k)
    PROVE  e = MovedList(d, i, j)
<1>1. Len(d) \in Nat /\ i \in Nat /\ j \in Nat /\ 1 <= i /\ 1 <= j /\ i <= Len(d) /\ j <= Len(d)
  BY LenProperties
<1>2. PICK o : o = <<d[i]>>
  OBVIOUS
<1>3. o \in Seq(D) /\ Len(o) = 1 /\ o[1] = d[i]
  BY <1>2, ElementOfSeq
<1>4. CASE i < j
  <2>1. PICK a : a = SubSeq(d, 1, i - 1)
    OBVIOUS
  <2>2. PICK b : b = SubSeq(d, i + 1, j - 1)
    OBVIOUS
  <2>3. PICK c : c = SubSeq(d, j, Len(d))
    OBVIOUS
  <2>4. a \in Seq(D) /\ Len(a) = i - 1 /\ \A k \in 1 .. i - 1 : a[k] = d[k]
    <3>1. 1 \in Nat \ {0} /\ i - 1 \in Int /\ i - 1 <= Len(d)
      BY <1>1
    <3>2. /\ a \in Seq(D) /\ Len(a) = (IF 1 <= i - 1 THEN i - 1 - 1 + 1 ELSE 0)
          /\ \A k \in 1 .. i - 1 - 1 + 1 : a[k] = d[1 + k - 1]
      BY <2>1, <3>1, PieceAt
    <3>3. \A k \in 1 .. i - 1 : k \in 1 .. i - 1 - 1 + 1 /\ 1 + k - 1 = k
      BY <1>1
    <3>4. \A k \in 1 .. i - 1 : a[k] = d[k]
      BY <3>2, <3>3
    <3> QED BY <1>1, <3>2, <3>4
  <2>5. b \in Seq(D) /\ Len(b) = j - 1 - i /\ \A k \in 1 .. j - 1 - i : b[k] = d[i + k]
    <3>1. i + 1 \in Nat \ {0} /\ j - 1 \in Int /\ j - 1 <= Len(d)
      BY <1>1
    <3>2. /\ b \in Seq(D) /\ Len(b) = (IF i + 1 <= j - 1 THEN j - 1 - (i + 1) + 1 ELSE 0)
          /\ \A k \in 1 .. j - 1 - (i + 1) + 1 : b[k] = d[i + 1 + k - 1]
      BY <2>2, <3>1, PieceAt
    <3>3. \A k \in 1 .. j - 1 - i : k \in 1 .. j - 1 - (i + 1) + 1 /\ i + 1 + k - 1 = i + k
      BY <1>1
    <3>4. \A k \in 1 .. j - 1 - i : b[k] = d[i + k]
      BY <3>2, <3>3
    <3> QED BY <1>1, <1>4, <3>2, <3>4
  <2>6. c \in Seq(D) /\ Len(c) = Len(d) - j + 1 /\ \A k \in 1 .. Len(d) - j + 1 : c[k] = d[j + k - 1]
    <3>1. j \in Nat \ {0} /\ Len(d) \in Int /\ Len(d) <= Len(d)
      BY <1>1
    <3>2. /\ c \in Seq(D) /\ Len(c) = (IF j <= Len(d) THEN Len(d) - j + 1 ELSE 0)
          /\ \A k \in 1 .. Len(d) - j + 1 : c[k] = d[j + k - 1]
      BY <2>3, <3>1, PieceAt
    <3> QED BY <1>1, <3>2
  <2>7. PICK f : f = a \o b \o o \o c
    OBVIOUS
  <2>8. /\ f \in Seq(D) /\ Len(f) = Len(a) + Len(b) + Len(o) + Len(c)
        /\ \A k \in 1 .. Len(f) : f[k] = IF k <= Len(a) THEN a[k]
                                         ELSE IF k <= Len(a) + Len(b) THEN b[k - Len(a)]
                                         ELSE IF k <= Len(a) + Len(b) + Len(o)
                                         THEN o[k - Len(a) - Len(b)]
                                         ELSE c[k - Len(a) - Len(b) - Len(o)]
    <3>1. a \in Seq(D) /\ b \in Seq(D) /\ o \in Seq(D) /\ c \in Seq(D)
      BY <1>3, <2>4, <2>5, <2>6
    <3>2. f \in Seq(D) /\ IsJoined(f, a, b, o, c)
      BY ONLY <2>7, <3>1, FourParts
    <3> QED BY ONLY <3>2 DEF IsJoined
  <2>9. Len(f) = Len(d) /\ Len(a) + Len(b) = j - 2 /\ Len(a) = i - 1 /\ Len(o) = 1
    BY <1>1, <1>3, <2>4, <2>5, <2>6, <2>8
  <2>10. ASSUME NEW k \in 1 .. Len(e) PROVE e[k] = f[k]
    <3>1. k \in Nat /\ 1 <= k /\ k <= Len(d) /\ k \in 1 .. Len(f) /\ e[k] = MoveAt(d, i, j, k)
      BY <1>1, <2>9
    <3>2. CASE k < i
      <4>1. e[k] = d[k]
        BY <1>4, <3>1, <3>2 DEF MoveAt
      <4>2. k <= Len(a) /\ k \in 1 .. i - 1
        BY <1>1, <2>9, <3>1, <3>2
      <4>3. f[k] = a[k]
        BY <2>8, <3>1, <4>2
      <4> QED BY <2>4, <4>1, <4>2, <4>3
    <3>3. CASE ~(k < i) /\ k < j - 1
      <4>1. e[k] = d[k + 1]
        BY <1>4, <3>1, <3>3 DEF MoveAt
      <4>2. /\ ~(k <= Len(a)) /\ k <= Len(a) + Len(b) /\ k - Len(a) \in 1 .. j - 1 - i
            /\ i + (k - Len(a)) = k + 1
        BY <1>1, <2>9, <3>1, <3>3
      <4>3. f[k] = b[k - Len(a)]
        BY <2>8, <3>1, <4>2
      <4>4. b[k - Len(a)] = d[i + (k - Len(a))]
        BY <2>5, <4>2
      <4> QED BY <4>1, <4>2, <4>3, <4>4
    <3>4. CASE k = j - 1
      <4>1. e[k] = d[i]
        <5>1. ~(k < i) /\ ~(k < j - 1)
          BY <1>1, <1>4, <3>1, <3>4
        <5> QED BY <1>4, <3>1, <3>4, <5>1 DEF MoveAt
      <4>2. /\ ~(k <= Len(a)) /\ ~(k <= Len(a) + Len(b)) /\ k <= Len(a) + Len(b) + Len(o)
            /\ k - Len(a) - Len(b) = 1
        <5>1. Len(b) = j - 1 - i
          BY <2>5
        <5>2. i < j
          BY <1>4
        <5>3. k \in Nat /\ i \in Nat /\ j \in Nat
          BY <1>1, <3>1
        <5> QED BY ONLY <2>9, <3>4, <5>1, <5>2, <5>3
      <4>3. f[k] = o[k - Len(a) - Len(b)]
        BY <2>8, <3>1, <4>2
      <4> QED BY <1>3, <4>1, <4>2, <4>3
    <3>5. CASE k > j - 1
      <4>1. e[k] = d[k]
        <5>1. ~(k < i) /\ ~(k < j - 1) /\ k # j - 1
          BY <1>1, <1>4, <3>1, <3>5
        <5> QED BY <1>4, <3>1, <5>1 DEF MoveAt
      <4>2. /\ ~(k <= Len(a)) /\ ~(k <= Len(a) + Len(b)) /\ ~(k <= Len(a) + Len(b) + Len(o))
            /\ k - Len(a) - Len(b) - Len(o) \in 1 .. Len(d) - j + 1
            /\ j + (k - Len(a) - Len(b) - Len(o)) - 1 = k
        BY <1>1, <1>4, <2>4, <2>5, <2>9, <3>1, <3>5
      <4>3. f[k] = c[k - Len(a) - Len(b) - Len(o)]
        BY <2>8, <3>1, <4>2
      <4>4. c[k - Len(a) - Len(b) - Len(o)] = d[j + (k - Len(a) - Len(b) - Len(o)) - 1]
        BY <2>6, <4>2
      <4> QED BY <4>1, <4>2, <4>3, <4>4
    <3> QED BY <1>1, <3>1, <3>2, <3>3, <3>4, <3>5
  <2>11. e = f
    BY <2>8, <2>9, <2>10, SeqEqual
  <2> QED BY <1>2, <1>4, <2>1, <2>2, <2>3, <2>7, <2>11 DEF MovedList
<1>5. CASE ~(i < j)
  <2>1. j < i
    BY <1>1, <1>5
  <2>2. PICK a : a = SubSeq(d, 1, j - 1)
    OBVIOUS
  <2>3. PICK b : b = SubSeq(d, j, i - 1)
    OBVIOUS
  <2>4. PICK c : c = SubSeq(d, i + 1, Len(d))
    OBVIOUS
  <2>5. a \in Seq(D) /\ Len(a) = j - 1 /\ \A k \in 1 .. j - 1 : a[k] = d[k]
    <3>1. 1 \in Nat \ {0} /\ j - 1 \in Int /\ j - 1 <= Len(d)
      BY <1>1
    <3>2. /\ a \in Seq(D) /\ Len(a) = (IF 1 <= j - 1 THEN j - 1 - 1 + 1 ELSE 0)
          /\ \A k \in 1 .. j - 1 - 1 + 1 : a[k] = d[1 + k - 1]
      BY <2>2, <3>1, PieceAt
    <3>3. \A k \in 1 .. j - 1 : k \in 1 .. j - 1 - 1 + 1 /\ 1 + k - 1 = k
      BY <1>1
    <3>4. \A k \in 1 .. j - 1 : a[k] = d[k]
      BY <3>2, <3>3
    <3> QED BY <1>1, <3>2, <3>4
  <2>6. b \in Seq(D) /\ Len(b) = i - j /\ \A k \in 1 .. i - j : b[k] = d[j + k - 1]
    <3>1. j \in Nat \ {0} /\ i - 1 \in Int /\ i - 1 <= Len(d)
      BY <1>1
    <3>2. /\ b \in Seq(D) /\ Len(b) = (IF j <= i - 1 THEN i - 1 - j + 1 ELSE 0)
          /\ \A k \in 1 .. i - 1 - j + 1 : b[k] = d[j + k - 1]
      BY <2>3, <3>1, PieceAt
    <3>3. \A k \in 1 .. i - j : k \in 1 .. i - 1 - j + 1
      BY <1>1
    <3>4. \A k \in 1 .. i - j : b[k] = d[j + k - 1]
      BY <3>2, <3>3
    <3> QED BY <1>1, <2>1, <3>2, <3>4
  <2>7. c \in Seq(D) /\ Len(c) = Len(d) - i /\ \A k \in 1 .. Len(d) - i : c[k] = d[i + k]
    <3>1. i + 1 \in Nat \ {0} /\ Len(d) \in Int /\ Len(d) <= Len(d)
      BY <1>1
    <3>2. /\ c \in Seq(D) /\ Len(c) = (IF i + 1 <= Len(d) THEN Len(d) - (i + 1) + 1 ELSE 0)
          /\ \A k \in 1 .. Len(d) - (i + 1) + 1 : c[k] = d[i + 1 + k - 1]
      BY <2>4, <3>1, PieceAt
    <3>3. \A k \in 1 .. Len(d) - i : k \in 1 .. Len(d) - (i + 1) + 1 /\ i + 1 + k - 1 = i + k
      BY <1>1
    <3>4. \A k \in 1 .. Len(d) - i : c[k] = d[i + k]
      BY <3>2, <3>3
    <3> QED BY <1>1, <3>2, <3>4
  <2>8. PICK f : f = a \o o \o b \o c
    OBVIOUS
  <2>9. /\ f \in Seq(D) /\ Len(f) = Len(a) + Len(o) + Len(b) + Len(c)
        /\ \A k \in 1 .. Len(f) : f[k] = IF k <= Len(a) THEN a[k]
                                         ELSE IF k <= Len(a) + Len(o) THEN o[k - Len(a)]
                                         ELSE IF k <= Len(a) + Len(o) + Len(b)
                                         THEN b[k - Len(a) - Len(o)]
                                         ELSE c[k - Len(a) - Len(o) - Len(b)]
    <3>1. a \in Seq(D) /\ b \in Seq(D) /\ o \in Seq(D) /\ c \in Seq(D)
      BY <1>3, <2>5, <2>6, <2>7
    <3>2. f \in Seq(D) /\ IsJoined(f, a, o, b, c)
      BY ONLY <2>8, <3>1, FourParts
    <3> QED BY ONLY <3>2 DEF IsJoined
  <2>10. Len(f) = Len(d) /\ Len(a) = j - 1 /\ Len(o) = 1 /\ Len(b) = i - j
    BY <1>1, <1>3, <2>5, <2>6, <2>7, <2>9
  <2>11. ASSUME NEW k \in 1 .. Len(e) PROVE e[k] = f[k]
    <3>1. k \in Nat /\ 1 <= k /\ k <= Len(d) /\ k \in 1 .. Len(f) /\ e[k] = MoveAt(d, i, j, k)
      BY <1>1, <2>10
    <3>2. CASE k < j
      <4>1. e[k] = d[k]
        BY <1>5, <3>1, <3>2 DEF MoveAt
      <4>2. k <= Len(a) /\ k \in 1 .. j - 1
        BY <1>1, <2>10, <3>1, <3>2
      <4>3. f[k] = a[k]
        BY <2>9, <3>1, <4>2
      <4> QED BY <2>5, <4>1, <4>2, <4>3
    <3>3. CASE k = j
      <4>1. e[k] = d[i]
        <5>1. ~(k < j)
          BY <1>1, <3>3
        <5> QED BY <1>5, <3>1, <3>3, <5>1 DEF MoveAt
      <4>2. ~(k <= Len(a)) /\ k <= Len(a) + Len(o) /\ k - Len(a) = 1
        BY <1>1, <2>10, <3>1, <3>3
      <4>3. f[k] = o[k - Len(a)]
        BY <2>9, <3>1, <4>2
      <4> QED BY <1>3, <4>1, <4>2, <4>3
    <3>4. CASE j < k /\ k <= i
      <4>1. e[k] = d[k - 1]
        <5>1. ~(k < j) /\ k # j
          BY <1>1, <3>1, <3>4
        <5> QED BY <1>5, <3>1, <3>4, <5>1 DEF MoveAt
      <4>2. /\ ~(k <= Len(a)) /\ ~(k <= Len(a) + Len(o)) /\ k <= Len(a) + Len(o) + Len(b)
            /\ k - Len(a) - Len(o) \in 1 .. i - j /\ j + (k - Len(a) - Len(o)) - 1 = k - 1
        BY <1>1, <2>10, <3>1, <3>4
      <4>3. f[k] = b[k - Len(a) - Len(o)]
        BY <2>9, <3>1, <4>2
      <4>4. b[k - Len(a) - Len(o)] = d[j + (k - Len(a) - Len(o)) - 1]
        BY <2>6, <4>2
      <4> QED BY <4>1, <4>2, <4>3, <4>4
    <3>5. CASE i < k
      <4>1. e[k] = d[k]
        <5>1. ~(k < j) /\ k # j /\ ~(k <= i)
          BY <1>1, <2>1, <3>1, <3>5
        <5> QED BY <1>5, <3>1, <5>1 DEF MoveAt
      <4>2. /\ ~(k <= Len(a)) /\ ~(k <= Len(a) + Len(o)) /\ ~(k <= Len(a) + Len(o) + Len(b))
            /\ k - Len(a) - Len(o) - Len(b) \in 1 .. Len(d) - i
            /\ i + (k - Len(a) - Len(o) - Len(b)) = k
        BY <1>1, <2>1, <2>10, <3>1, <3>5
      <4>3. f[k] = c[k - Len(a) - Len(o) - Len(b)]
        BY <2>9, <3>1, <4>2
      <4>4. c[k - Len(a) - Len(o) - Len(b)] = d[i + (k - Len(a) - Len(o) - Len(b))]
        BY <2>7, <4>2
      <4> QED BY <4>1, <4>2, <4>3, <4>4
    <3> QED BY <1>1, <3>1, <3>2, <3>3, <3>4, <3>5
  <2>12. e = f
    BY <2>9, <2>10, <2>11, SeqEqual
  <2> QED BY <1>2, <1>5, <2>2, <2>3, <2>4, <2>8, <2>12 DEF MovedList
<1> QED BY <1>4, <1>5

\* An element replaced, and two that change places.
LEMMA ReplacedSeq ==
    ASSUME NEW D, NEW d \in Seq(D), NEW i \in 1 .. Len(d), NEW v \in D,
           NEW e \in Seq(D), Len(e) = Len(d),
           \A k \in 1 .. Len(e) : e[k] = IF k = i THEN v ELSE d[k]
    PROVE  e = [d EXCEPT ![i] = v]
<1>1. PICK f : f = [d EXCEPT ![i] = v]
  OBVIOUS
<1>2. f \in Seq(D) /\ Len(f) = Len(d) /\ \A k \in 1 .. Len(d) : f[k] = IF k = i THEN v ELSE d[k]
  BY <1>1, ExceptSeq
<1>3. \A k \in 1 .. Len(e) : e[k] = f[k]
  BY <1>2
<1>4. e = f
  BY <1>2, <1>3, SeqEqual
<1> QED BY <1>1, <1>4

LEMMA ExchangedSeq ==
    ASSUME NEW D, NEW d \in Seq(D), NEW i \in 1 .. Len(d), NEW j \in 1 .. Len(d), i # j,
           NEW e \in Seq(D), Len(e) = Len(d),
           \A k \in 1 .. Len(e) : e[k] = IF k = i THEN d[j] ELSE IF k = j THEN d[i] ELSE d[k]
    PROVE  e = [d EXCEPT ![i] = d[j], ![j] = d[i]]
<1>1. PICK f : f = [d EXCEPT ![i] = d[j]]
  OBVIOUS
<1>2. d[i] \in D /\ d[j] \in D
  BY ElementOfSeq
<1>3. f \in Seq(D) /\ Len(f) = Len(d) /\ \A k \in 1 .. Len(d) : f[k] = IF k = i THEN d[j] ELSE d[k]
  BY <1>1, <1>2, ExceptSeq
<1>4. j \in 1 .. Len(f) /\ Len(e) = Len(f)
  BY <1>3
<1>5. \A k \in 1 .. Len(e) : e[k] = IF k = j THEN d[i] ELSE f[k]
  BY <1>3
<1>6. e = [f EXCEPT ![j] = d[i]]
  <2>1. PICK w \in D : w = d[i]
    BY <1>2
  <2>2. \A k \in 1 .. Len(e) : e[k] = IF k = j THEN w ELSE f[k]
    BY <1>5, <2>1
  <2>3. f \in Seq(D) /\ j \in 1 .. Len(f) /\ Len(e) = Len(f) /\ e \in Seq(D)
    BY <1>3, <1>4
  <2>4. e = [f EXCEPT ![j] = w]
    BY ONLY <2>2, <2>3, ReplacedSeq
  <2> QED BY <2>1, <2>4
<1>7. e = [[d EXCEPT ![i] = d[j]] EXCEPT ![j] = d[i]]
  BY <1>1, <1>6
<1>8. [[d EXCEPT ![i] = d[j]] EXCEPT ![j] = d[i]] = [d EXCEPT ![i] = d[j], ![j] = d[i]]
  OBVIOUS
<1> QED BY ONLY <1>7, <1>8

\* What a call on the detached list s makes of a ring: the list's elements
\* change as Q says, and nothing behind the fence.
LEMMA AnswersStart ==
    ASSUME Quiet, Room(m, Cardinality(m.nodes) + 1), NEW s, s = detach(m)
    PROVE  \E F, n, p, d :
              /\ Prepared(F, s) /\ Sane(s) /\ Fenced(s, F) /\ Good(s) /\ s.fault = "no"
              /\ Chain(s, s.list, n, p)
              /\ d = Elems(s, s.list) /\ d = value["l"] /\ Holds(s, n, p, d)
<1>1. PICK F : Prepared(F, s)
  BY DetachWhole
<1>2. Sane(s) /\ Fenced(s, F) /\ Good(s) /\ s.fault = "no"
  BY <1>1, WholeFacts DEF Prepared
<1>3. PICK n, p : Chain(s, s.list, n, p)
  BY <1>2 DEF Good
<1>4. PICK d : d = Elems(s, s.list)
  OBVIOUS
<1>5. Holds(s, n, p, d)
  BY <1>2, <1>3, <1>4, ChainElems
<1>6. d = value["l"]
  BY <1>1, <1>4, ValueIs DEF Prepared
<1> QED BY <1>1, <1>2, <1>3, <1>4, <1>5, <1>6

LEMMA AnswersBecomes ==
    ASSUME NEW F, NEW s, Prepared(F, s), NEW t, Within(F, s, t), m' = t, NEW e, e = Elems(t, t.list)
    PROVE  Service!Becomes("l", e)
<1>1. Elems(m', m'.other) = Elems(m, m.other)
  BY WholeKeeps DEF Prepared
<1> QED BY <1>1, ListBecomes

LEMMA AnswersReplace ==
    ASSUME Quiet, NEW pos \in Positions, NEW v \in Values, Replace(pos, v), m'.fault = "no"
    PROVE  Answers
<1>1. PICK s : s = detach(m)
  OBVIOUS
<1>2. PICK c : c = Plus(s, begin(s), pos)
  OBVIOUS
<1>3. PICK t : t = IF c = s.list THEN Fails(s, "header")
                   ELSE IF c \in s.nodes THEN [s EXCEPT !.data[c] = v]
                   ELSE Fails(s, "freed")
  OBVIOUS
<1>4. Room(m, Cardinality(m.nodes) + 1) /\ pos \in Nat /\ m' = t
  BY <1>1, <1>2, <1>3, RingAssumptions DEF Replace, Roomy, Does, Positions
<1>5. PICK F, n, p, d :
        /\ Prepared(F, s) /\ Sane(s) /\ Fenced(s, F) /\ Good(s) /\ s.fault = "no"
        /\ Chain(s, s.list, n, p)
        /\ d = Elems(s, s.list) /\ d = value["l"] /\ Holds(s, n, p, d)
  BY <1>1, <1>4, AnswersStart
<1>6. c # s.list /\ c \in s.nodes
  <2>1. "header" \in Faults /\ "freed" \in Faults
    BY DEF Faults
  <2> QED BY <1>3, <1>4, <1>5, <2>1, SaneFails
<1>7. t = [s EXCEPT !.data[c] = v]
  BY <1>3, <1>6
<1>8. Within(F, s, t)
  <2>1. Works(s, t)
    BY <1>2, <1>3, <1>4, WorksReplace
  <2> QED BY <1>5, <2>1 DEF Works
<1>9. n \in Nat /\ Inner(n, p) \subseteq s.nodes /\ Elements(s, s.list) = Inner(n, p)
  BY <1>5, AroundFacts
<1>10. PICK i \in 1 .. n : c = p[i]
  <2>1. c \in Elements(s, s.list)
    BY <1>2, <1>4, <1>5, <1>6, PlusAround
  <2> QED BY <1>9, <2>1 DEF Inner
<1>11. /\ t.next = s.next /\ t.prev = s.prev /\ t.nodes = s.nodes /\ t.count = s.count
       /\ t.list = s.list /\ t.data = [s.data EXCEPT ![c] = v]
  BY <1>5, <1>7 DEF Sane, Memories
<1>12. Sane(t) /\ Chain(t, t.list, n, p)
  BY <1>5, <1>8, <1>11 DEF Within, Chain
<1>13. PICK e : e = Elems(t, t.list)
  OBVIOUS
<1>14. Holds(t, n, p, e)
  BY <1>12, <1>13, ChainElems
<1>15. /\ d \in Seq(Marks) /\ Len(d) = n /\ e \in Seq(Marks) /\ Len(e) = n
       /\ \A k \in 1 .. n : d[k] = s.data[p[k]]
       /\ \A k \in 1 .. n : e[k] = t.data[p[k]]
  BY <1>5, <1>14 DEF Holds
<1>16. \A k \in 1 .. n : p[k] \in Places /\ (p[k] = c <=> k = i)
  <2>1. Forth(s.next, s.list, n, p)
    BY <1>5 DEF Chain, Rounds
  <2> QED BY <1>9, <1>10, <2>1 DEF Forth
<1>17. \A k \in 1 .. Len(e) : e[k] = IF k = i THEN v ELSE d[k]
  <2>1. ASSUME NEW k \in 1 .. n PROVE t.data[p[k]] = IF k = i THEN v ELSE s.data[p[k]]
    <3>1. s.data \in [Places -> Values \cup {Lost}] /\ p[k] \in Places /\ (p[k] = c <=> k = i)
      BY <1>5, <1>16, UsedFacts
    <3> QED BY <1>11, <3>1
  <2>2. ASSUME NEW k \in 1 .. Len(e) PROVE e[k] = IF k = i THEN v ELSE d[k]
    BY <1>15, <2>1
  <2> QED BY <2>2
<1>18. e = [d EXCEPT ![i] = v] /\ i \in 1 .. Len(d)
  <2>1. i \in 1 .. Len(d) /\ Len(e) = Len(d) /\ v \in Marks /\ d \in Seq(Marks) /\ e \in Seq(Marks)
    BY <1>15 DEF Marks
  <2>2. e = [d EXCEPT ![i] = v]
    BY ONLY <1>17, <2>1, ReplacedSeq
  <2> QED BY <2>1, <2>2
<1>19. Service!Becomes("l", e)
  BY <1>4, <1>5, <1>8, <1>13, AnswersBecomes
<1>20. Service!Replace
  <2>1. "l" \in Handles /\ i \in 1 .. Len(value["l"]) /\ Service!Becomes("l", [value["l"] EXCEPT ![i] = v])
    BY <1>5, <1>18, <1>19, ValueIs
  <2> QED BY <2>1 DEF Service!Replace
<1> QED BY <1>20 DEF Answers, Service!Next

\* move() of a node before another.
LEMMA MovedPath ==
    ASSUME NEW n \in Nat, NEW p, NEW i \in 1 .. n, NEW j \in 1 .. n, i # j,
           NEW q, q = Put(Cut(p, n, i), n - 1, Before(i, j), p[i])
    PROVE  \A a \in 1 .. n : q[a] = MoveAt(p, i, j, a)
<1> SUFFICES ASSUME NEW a \in 1 .. n PROVE q[a] = MoveAt(p, i, j, a)
  OBVIOUS
<1>1. PICK c : c = Cut(p, n, i)
  OBVIOUS
<1>2. PICK k : k = Before(i, j)
  OBVIOUS
<1>3. k = IF j < i THEN j - 1 ELSE j - 2
  BY <1>2 DEF Before
<1>4. q = Put(c, n - 1, k, p[i])
  BY <1>1, <1>2
<1>5. a \in 0 .. n - 1 + 2 /\ a \in Nat /\ i \in Nat /\ j \in Nat /\ k \in Int
  BY <1>3
<1>6. q[a] = IF a <= k THEN c[a] ELSE IF a = k + 1 THEN p[i] ELSE c[a - 1]
  BY <1>4, <1>5 DEF Put
<1>7. \A b \in 0 .. n : c[b] = IF b < i THEN p[b] ELSE p[b + 1]
  BY <1>1 DEF Cut
<1>8. a \in 0 .. n /\ a - 1 \in 0 .. n
  BY <1>5
<1>9. c[a] = (IF a < i THEN p[a] ELSE p[a + 1])
      /\ c[a - 1] = (IF a - 1 < i THEN p[a - 1] ELSE p[a - 1 + 1])
  BY <1>7, <1>8
<1>10. a - 1 + 1 = a
  BY <1>5
<1>11. CASE i < j
  <2>1. k = j - 2 /\ k + 1 = j - 1
    BY <1>3, <1>5, <1>11
  <2>2. CASE a <= k
    <3>1. a < j - 1 /\ q[a] = c[a]
      BY <1>5, <1>6, <2>1, <2>2
    <3> QED BY <1>9, <1>11, <3>1 DEF MoveAt
  <2>3. CASE a = k + 1
    <3>1. a = j - 1 /\ ~(a < i) /\ ~(a < j - 1) /\ ~(a <= k)
      BY <1>5, <1>11, <2>1, <2>3
    <3> QED BY <1>6, <1>11, <2>3, <3>1 DEF MoveAt
  <2>4. CASE a > k + 1
    <3>1. a # j - 1 /\ ~(a < i) /\ ~(a < j - 1) /\ ~(a <= k) /\ a # k + 1 /\ ~(a - 1 < i)
      BY <1>5, <1>11, <2>1, <2>4
    <3>2. q[a] = p[a]
      BY <1>6, <1>9, <1>10, <3>1
    <3> QED BY <1>11, <3>1, <3>2 DEF MoveAt
  <2> QED BY <1>5, <2>2, <2>3, <2>4
<1>12. CASE ~(i < j)
  <2>1. j < i /\ k = j - 1 /\ k + 1 = j
    BY <1>3, <1>5, <1>12
  <2>2. CASE a <= k
    <3>1. a < j /\ a < i
      BY <1>5, <2>1, <2>2
    <3>2. q[a] = p[a]
      BY <1>6, <1>9, <2>2, <3>1
    <3> QED BY <1>12, <3>1, <3>2 DEF MoveAt
  <2>3. CASE a = k + 1
    <3>1. a = j /\ ~(a < j) /\ ~(a <= k)
      BY <1>5, <2>1, <2>3
    <3> QED BY <1>6, <1>12, <2>3, <3>1 DEF MoveAt
  <2>4. CASE a > k + 1
    <3>1. ~(a < j) /\ a # j /\ ~(a <= k) /\ a # k + 1 /\ (a <= i <=> a - 1 < i)
      BY <1>5, <2>1, <2>4
    <3>2. q[a] = c[a - 1]
      BY <1>6, <3>1
    <3>3. q[a] = IF a <= i THEN p[a - 1] ELSE p[a]
      BY <1>9, <1>10, <3>1, <3>2
    <3> QED BY <1>12, <3>1, <3>3 DEF MoveAt
  <2> QED BY <1>5, <2>2, <2>3, <2>4
<1> QED BY <1>11, <1>12

\* Two lists are moved alike.
LEMMA MovedData ==
    ASSUME NEW n \in Nat, NEW p, NEW d, NEW i \in 1 .. n, NEW j \in 1 .. n, i # j, NEW a \in 1 .. n
    PROVE  \E b \in 1 .. n : MoveAt(p, i, j, a) = p[b] /\ MoveAt(d, i, j, a) = d[b]
<1>1. a \in Nat /\ i \in Nat /\ j \in Nat
  OBVIOUS
<1>2. CASE i < j
  <2>1. CASE a < i
    BY <1>2, <2>1 DEF MoveAt
  <2>2. CASE ~(a < i) /\ a < j - 1
    <3>1. a + 1 \in 1 .. n
      BY <1>1, <2>2
    <3> QED BY <1>2, <2>2, <3>1 DEF MoveAt
  <2>3. CASE ~(a < i) /\ ~(a < j - 1) /\ a = j - 1
    BY <1>2, <2>3 DEF MoveAt
  <2>4. CASE ~(a < i) /\ ~(a < j - 1) /\ a # j - 1
    BY <1>2, <2>4 DEF MoveAt
  <2> QED BY <2>1, <2>2, <2>3, <2>4
<1>3. CASE ~(i < j)
  <2>1. CASE a < j
    BY <1>3, <2>1 DEF MoveAt
  <2>2. CASE ~(a < j) /\ a = j
    BY <1>3, <2>2 DEF MoveAt
  <2>3. CASE ~(a < j) /\ a # j /\ a <= i
    <3>1. a - 1 \in 1 .. n
      BY <1>1, <2>3
    <3> QED BY <1>3, <2>3, <3>1 DEF MoveAt
  <2>4. CASE ~(a < j) /\ a # j /\ ~(a <= i)
    BY <1>3, <2>4 DEF MoveAt
  <2> QED BY <2>1, <2>2, <2>3, <2>4
<1> QED BY <1>2, <1>3

\* A walk that does not leave S does not come to h.
LEMMA NeverClosed ==
    ASSUME NEW s, Sane(s), NEW h \in Places, NEW S, s.next[h] \in S,
           \A c \in S : s.next[c] \in S, h \notin S
    PROVE  ~Closed(s, h)
<1>1. PICK f : f = s.next
  OBVIOUS
<1>2. PICK c : c = s.next[h]
  OBVIOUS
<1>3. f \in [Places -> Places] /\ c \in Places
  BY <1>1, <1>2, UsedFacts
<1>4. \A k \in Nat : Iterate(f, c, k) \in S
  BY <1>1, <1>2, IterateKeeps
<1>5. PICK k : k = Steps(f, c, h)
  OBVIOUS
<1>6. Reaches(f, c, h, k)
  BY <1>3, <1>5, StepsFacts
<1>7. k \in Nat /\ (k < Longest => Iterate(f, c, k) = h)
  BY <1>6, PlaceFacts DEF Reaches, Longest
<1>8. ~(k < Longest)
  BY <1>4, <1>7
<1> QED BY <1>1, <1>2, <1>5, <1>8 DEF Closed

\* A node put before itself: the walk ends in a loop without the header.
LEMMA SelfNeverClosed ==
    ASSUME NEW s, Sane(s), NEW F, Fenced(s, F), NEW n, NEW p, Chain(s, s.list, n, p),
           NEW i \in 1 .. n, NEW x, x = p[i], NEW t, t = MoveBefore(s, x, x), Sane(t)
    PROVE  ~Closed(t, s.list)
<1>1. /\ n \in Nat /\ Inner(n, p) \subseteq s.nodes /\ Cycle(n, p) \subseteq Used(s)
      /\ Cycle(n, p) \subseteq Places \ F
  BY AroundFacts
<1>2. Forth(s.next, s.list, n, p) /\ \A k \in 0 .. n : s.prev[p[k + 1]] = p[k]
  BY DEF Chain, Rounds
<1>3. /\ p[0] = s.list /\ \A k \in 0 .. n : s.next[p[k]] = p[k + 1]
      /\ \A k \in 0 .. n : \A j \in 0 .. n : p[k] = p[j] => k = j
  BY <1>2 DEF Forth
<1>4. \A k \in 0 .. n + 1 : p[k] \in Cycle(n, p)
  BY <1>2, CycleFacts
<1>5. s.prev[x] = p[i - 1]
  <2>1. i - 1 \in 0 .. n /\ i - 1 + 1 = i
    BY <1>1
  <2> QED BY <1>2, <2>1
<1>6. s.next[x] = p[i + 1]
  BY <1>1, <1>3
<1>7. x \in Cycle(n, p) /\ p[i - 1] \in Cycle(n, p) /\ p[i + 1] \in Cycle(n, p)
  BY <1>1, <1>4
<1>8. t.next[x] = x /\ t.next[p[i - 1]] = x /\ ButTwo(t.next, s.next, p[i - 1], x)
  <2>1. s \in Memories /\ Used(s) \subseteq Places
    BY UsedFacts DEF Sane
  <2>2. x \in Used(s) /\ s.prev[x] \in Used(s) /\ s.next[x] \in Used(s)
    BY <1>1, <1>5, <1>6, <1>7
  <2> QED BY <1>5, <2>1, <2>2, MoveSelf
<1>9. PICK S : S = {p[k] : k \in 1 .. i}
  OBVIOUS
<1>10. x \in S
  BY <1>1, <1>9
<1>11. ASSUME NEW k \in 0 .. i PROVE t.next[p[k]] \in S
  <2>1. CASE k = i \/ k = i - 1
    BY <1>8, <1>10, <2>1
  <2>2. CASE k # i /\ k # i - 1
    <3>1. k \in 0 .. n /\ i - 1 \in 0 .. n /\ i \in 0 .. n /\ k + 1 \in 1 .. i
      BY <1>1, <2>2
    <3>2. p[k] # x /\ p[k] # p[i - 1]
      BY <1>3, <2>2, <3>1
    <3>3. p[k] \in Places
      BY <1>1, <1>4, <3>1
    <3>4. t.next[p[k]] = s.next[p[k]]
      BY <1>8, <3>2, <3>3 DEF ButTwo
    <3>5. t.next[p[k]] = p[k + 1]
      BY <1>3, <3>1, <3>4
    <3> QED BY <1>9, <3>1, <3>5
  <2> QED BY <2>1, <2>2
<1>12. \A c \in S : t.next[c] \in S
  BY <1>9, <1>11
<1>13. t.next[s.list] \in S
  <2>1. 0 \in 0 .. i
    BY <1>1
  <2> QED BY <1>3, <1>11, <2>1
<1>14. s.list \notin S
  <2>1. \A k \in 1 .. i : k \in 0 .. n /\ 0 \in 0 .. n /\ k # 0
    BY <1>1
  <2>2. \A k \in 1 .. i : p[k] # p[0]
    BY <1>3, <2>1
  <2> QED BY <1>3, <1>9, <2>2
<1>15. s.list \in Places
  BY UsedFacts
<1> QED BY <1>12, <1>13, <1>14, <1>15, NeverClosed

LEMMA MovedMoves ==
    ASSUME NEW d, d = value["l"], NEW i \in 1 .. Len(d), NEW j \in 1 .. Len(d),
           NEW e, e = MovedList(d, i, j), Service!Becomes("l", e)
    PROVE  Service!Move
<1>1. /\ "l" \in Handles /\ i \in 1 .. Len(value["l"]) /\ j \in 1 .. Len(value["l"])
      /\ Service!Becomes("l", MovedList(value["l"], i, j))
  BY ValueIs
<1> QED BY <1>1 DEF Service!Move, MovedList

LEMMA MoveElems ==
    ASSUME NEW s, Sane(s), NEW F, Fenced(s, F), NEW n, NEW p, Chain(s, s.list, n, p),
           NEW d, Holds(s, n, p, d), NEW i \in 1 .. n, NEW j \in 1 .. n, i # j,
           NEW x, x = p[i], NEW y, y = p[j], NEW t, t = MoveBefore(s, x, y),
           NEW e, e = Elems(t, t.list)
    PROVE  Within(F, s, t) /\ e = MovedList(d, i, j) /\ i \in 1 .. Len(d) /\ j \in 1 .. Len(d)
<1>1. PICK k : k = Before(i, j)
  OBVIOUS
<1>2. PICK q : q = Put(Cut(p, n, i), n - 1, k, x)
  OBVIOUS
<1>3. Within(F, s, t) /\ t.data = s.data /\ Chain(t, t.list, n, q)
  BY <1>1, <1>2, MovePlace
<1>4. Holds(t, n, q, e)
  BY <1>3, ChainElems DEF Within
<1>5. /\ d \in Seq(Marks) /\ Len(d) = n /\ e \in Seq(Marks) /\ Len(e) = n
      /\ \A a \in 1 .. n : d[a] = s.data[p[a]]
      /\ \A a \in 1 .. n : e[a] = t.data[q[a]]
  BY <1>4 DEF Holds
<1>6. n \in Nat
  BY AroundFacts
<1>7. \A a \in 1 .. n : q[a] = MoveAt(p, i, j, a)
  BY <1>1, <1>2, <1>6, MovedPath
<1>8. \A a \in 1 .. n : \E b \in 1 .. n : MoveAt(p, i, j, a) = p[b] /\ MoveAt(d, i, j, a) = d[b]
  BY ONLY <1>6, i \in 1 .. n, j \in 1 .. n, i # j, MovedData
<1>9. ASSUME NEW a \in 1 .. Len(e) PROVE e[a] = MoveAt(d, i, j, a)
  <2>1. a \in 1 .. n
    BY <1>5
  <2>2. PICK b \in 1 .. n : MoveAt(p, i, j, a) = p[b] /\ MoveAt(d, i, j, a) = d[b]
    BY <1>8, <2>1
  <2>3. e[a] = t.data[p[b]]
    BY <1>5, <1>7, <2>1, <2>2
  <2> QED BY <1>3, <1>5, <2>2, <2>3
<1>10. i \in 1 .. Len(d) /\ j \in 1 .. Len(d) /\ Len(e) = Len(d)
  BY <1>5
<1>11. e = MovedList(d, i, j)
  BY <1>5, <1>9, <1>10, MoveSeq
<1> QED BY <1>3, <1>10, <1>11

LEMMA AnswersMove ==
    ASSUME Quiet, NEW inx \in Positions, NEW to \in Positions, Move(inx, to),
           m'.fault = "no", Closed(m', m'.list)
    PROVE  Answers
<1>1. PICK s : s = detach(m)
  OBVIOUS
<1>2. PICK x : x = Plus(s, begin(s), inx)
  OBVIOUS
<1>3. PICK y : y = Plus(s, begin(s), to)
  OBVIOUS
<1>4. PICK t : t = IF s.list \in {x, y} THEN s
                   ELSE IF {x, y} \subseteq s.nodes THEN MoveBefore(s, x, y)
                   ELSE Fails(s, "freed")
  OBVIOUS
<1>5. Room(m, Cardinality(m.nodes) + 1) /\ inx \in Int /\ to \in Int /\ m' = t
  BY <1>1, <1>2, <1>3, <1>4, RingAssumptions DEF Move, Roomy, Positions
<1>6. PICK F, n, p, d :
        /\ Prepared(F, s) /\ Sane(s) /\ Fenced(s, F) /\ Good(s) /\ s.fault = "no"
        /\ Chain(s, s.list, n, p)
        /\ d = Elems(s, s.list) /\ d = value["l"] /\ Holds(s, n, p, d)
  BY <1>1, <1>5, AnswersStart
<1>7. CASE s.list \in {x, y}
  <2>1. m' = s
    BY <1>4, <1>5, <1>7
  <2>2. UNCHANGED value
    BY <1>6, <2>1, ValueStays DEF Prepared
  <2> QED BY <2>2 DEF Answers
<1>8. CASE s.list \notin {x, y}
  <2>1. x \in Elements(s, s.list) /\ y \in Elements(s, s.list)
    BY <1>2, <1>3, <1>5, <1>6, <1>8, PlusAround
  <2>2. n \in Nat /\ Elements(s, s.list) = Inner(n, p) /\ Inner(n, p) \subseteq s.nodes
    BY <1>6, AroundFacts
  <2>3. PICK i \in 1 .. n : x = p[i]
    BY <2>1, <2>2 DEF Inner
  <2>4. PICK j \in 1 .. n : y = p[j]
    BY <2>1, <2>2 DEF Inner
  <2>5. t = MoveBefore(s, x, y)
    BY <1>4, <1>8, <2>1, <2>2
  <2>6. CASE x = y
    <3>1. Within(F, s, t)
      <4>1. Encloses(s, t)
        BY <1>2, <1>3, <1>4, <1>5, WorksMove
      <4> QED BY <1>6, <4>1 DEF Encloses
    <3>2. Sane(t) /\ t.list = s.list
      BY <3>1 DEF Within
    <3>3. t = MoveBefore(s, x, x)
      BY <2>5, <2>6
    <3>4. ~Closed(t, s.list)
      BY <1>6, <2>3, <3>2, <3>3, SelfNeverClosed
    <3> QED BY <1>5, <3>2, <3>4
  <2>7. CASE x # y
    <3>1. i # j
      BY <2>3, <2>4, <2>7
    <3>2. PICK e : e = Elems(t, t.list)
      OBVIOUS
    <3>3. Within(F, s, t) /\ e = MovedList(d, i, j) /\ i \in 1 .. Len(d) /\ j \in 1 .. Len(d)
      BY <1>6, <2>3, <2>4, <2>5, <3>1, <3>2, MoveElems
    <3>4. Service!Becomes("l", e)
      BY <1>5, <1>6, <3>2, <3>3, AnswersBecomes
    <3>5. Service!Move
      BY <1>6, <3>3, <3>4, MovedMoves
    <3> QED BY <3>5 DEF Answers, Service!Next
  <2> QED BY <2>6, <2>7
<1> QED BY <1>7, <1>8

\* swap() of two nodes of a ring.
Turnabout(i, j, k) == IF k = i THEN j ELSE IF k = j THEN i ELSE k
SwapPath(p, n, i, j) == [k \in 0 .. n + 1 |-> p[Turnabout(i, j, k)]]

\* The next links after it.
SwapNext(p, i, j, l) ==
    IF l = j THEN (IF i = j - 1 THEN p[i] ELSE p[i + 1])
    ELSE IF l = i THEN p[j + 1]
    ELSE IF l = j - 1 THEN p[i]
    ELSE IF l = i - 1 THEN p[j]
    ELSE p[l + 1]
Swapped(link, n, p, i, j) == \A l \in 0 .. n : link[p[l]] = SwapNext(p, i, j, l)

LEMMA ExchangedLinks ==
    ASSUME NEW s, NEW t, NEW h, NEW n, NEW p, Forth(s.next, h, n, p),
           NEW i \in 1 .. n, NEW j \in 1 .. n, i < j,
           NEW x, x = p[i], NEW y, y = p[j], NEW a, a = p[i - 1], NEW b, b = p[j - 1],
           Exchanged(s, t, x, y, a, b)
    PROVE  Swapped(t.next, n, p, i, j)
<1>1. PICK f, g, e :
        /\ f[a] = y /\ But(f, s.next, a)
        /\ g[b] = x /\ But(g, f, b)
        /\ e[x] = g[y] /\ But(e, g, x)
        /\ t.next[y] = g[x] /\ But(t.next, e, y)
  BY DEF Exchanged
<1>2. /\ n \in Nat /\ \A k \in 0 .. n : p[k] \in Places
      /\ \A k \in 0 .. n : s.next[p[k]] = p[k + 1]
      /\ \A k \in 0 .. n : \A l \in 0 .. n : p[k] = p[l] => k = l
  BY DEF Forth
<1>3. i - 1 \in 0 .. n /\ i \in 0 .. n /\ j - 1 \in 0 .. n /\ j \in 0 .. n /\ i \in Nat /\ j \in Nat
  BY <1>2
<1>4. \A k \in 0 .. n : f[p[k]] = IF k = i - 1 THEN p[j] ELSE p[k + 1]
  <2>1. ASSUME NEW k \in 0 .. n, k # i - 1 PROVE f[p[k]] = p[k + 1]
    <3>1. p[k] \in Places \ {a}
      BY <1>2, <1>3, <2>1
    <3> QED BY <1>1, <1>2, <3>1 DEF But
  <2>2. f[p[i - 1]] = p[j]
    BY <1>1
  <2> QED BY <2>1, <2>2
<1>5. \A k \in 0 .. n : g[p[k]] = IF k = j - 1 THEN p[i] ELSE f[p[k]]
  <2>1. ASSUME NEW k \in 0 .. n, k # j - 1 PROVE g[p[k]] = f[p[k]]
    <3>1. p[k] \in Places \ {b}
      BY <1>2, <1>3, <2>1
    <3> QED BY <1>1, <3>1 DEF But
  <2>2. g[p[j - 1]] = p[i]
    BY <1>1
  <2> QED BY <2>1, <2>2
<1>6. g[y] = p[j + 1]
  <2>1. g[p[j]] = f[p[j]]
    BY <1>3, <1>5
  <2>2. j # i - 1
    BY <1>3
  <2>3. f[p[j]] = p[j + 1]
    BY <1>3, <1>4, <2>2
  <2> QED BY <2>1, <2>3
<1>7. g[x] = IF i = j - 1 THEN p[i] ELSE p[i + 1]
  <2>1. i # i - 1
    BY <1>3
  <2>2. f[p[i]] = p[i + 1]
    BY <1>3, <1>4, <2>1
  <2>3. g[p[i]] = IF i = j - 1 THEN p[i] ELSE f[p[i]]
    BY <1>3, <1>5
  <2> QED BY <2>2, <2>3
<1>8. \A k \in 0 .. n : k # j /\ k # i => t.next[p[k]] = g[p[k]]
  <2>1. ASSUME NEW k \in 0 .. n, k # j, k # i PROVE t.next[p[k]] = g[p[k]]
    <3>1. p[k] \in Places \ {x} /\ p[k] \in Places \ {y}
      BY <1>2, <1>3, <2>1
    <3> QED BY <1>1, <3>1 DEF But
  <2> QED BY <2>1
<1>9. t.next[p[i]] = p[j + 1]
  <2>1. i # j
    BY <1>3
  <2>2. p[i] \in Places \ {y}
    BY <1>2, <1>3, <2>1
  <2>3. t.next[p[i]] = e[p[i]]
    BY <1>1, <2>2 DEF But
  <2> QED BY <1>1, <1>6, <2>3
<1>10. ASSUME NEW l \in 0 .. n
       PROVE  t.next[p[l]] = SwapNext(p, i, j, l)
  <2>1. CASE l = j
    BY <1>1, <1>7, <2>1 DEF SwapNext
  <2>2. CASE l # j /\ l = i
    BY <1>9, <2>2 DEF SwapNext
  <2>3. CASE l # j /\ l # i
    <3>1. t.next[p[l]] = g[p[l]]
      BY <1>8, <2>3
    <3>2. g[p[l]] = IF l = j - 1 THEN p[i] ELSE f[p[l]]
      BY <1>5
    <3>3. f[p[l]] = IF l = i - 1 THEN p[j] ELSE p[l + 1]
      BY <1>4
    <3> QED BY <2>3, <3>1, <3>2, <3>3 DEF SwapNext
  <2> QED BY <2>1, <2>2, <2>3
<1> QED BY <1>10 DEF Swapped

LEMMA SwappedForth ==
    ASSUME NEW s, NEW t, NEW h, NEW n, NEW p, Forth(s.next, h, n, p),
           NEW i \in 1 .. n, NEW j \in 1 .. n, i < j,
           NEW x, x = p[i], NEW y, y = p[j], NEW a, a = p[i - 1], NEW b, b = p[j - 1],
           Exchanged(s, t, x, y, a, b), NEW q, q = SwapPath(p, n, i, j)
    PROVE  Forth(t.next, h, n, q) /\ Inner(n, q) \subseteq Inner(n, p)
<1>1. /\ n \in Nat /\ p \in [0 .. n + 1 -> Places] /\ p[0] = h /\ p[n + 1] = h
      /\ \A k \in 0 .. n : \A l \in 0 .. n : p[k] = p[l] => k = l
  BY DEF Forth
<1>2. i \in Nat /\ j \in Nat /\ i \in 1 .. n /\ j \in 1 .. n /\ i < j
  BY <1>1
<1>3. /\ \A k \in 0 .. n + 1 : Turnabout(i, j, k) \in 0 .. n + 1
      /\ \A k \in 0 .. n : Turnabout(i, j, k) \in 0 .. n
      /\ \A k \in 1 .. n : Turnabout(i, j, k) \in 1 .. n
  BY ONLY <1>1, <1>2 DEF Turnabout
<1>4. q \in [0 .. n + 1 -> Places] /\ \A k \in 0 .. n + 1 : q[k] = p[Turnabout(i, j, k)]
  BY <1>1, <1>3 DEF SwapPath
<1>5. q[0] = h /\ q[n + 1] = h
  <2>1. 0 \in 0 .. n + 1 /\ n + 1 \in 0 .. n + 1 /\ 0 # i /\ 0 # j /\ n + 1 # i /\ n + 1 # j
    BY <1>1, <1>2
  <2>2. Turnabout(i, j, 0) = 0 /\ Turnabout(i, j, n + 1) = n + 1
    BY <2>1 DEF Turnabout
  <2> QED BY <1>1, <1>4, <2>1, <2>2
<1>6. \A k \in 0 .. n : \A l \in 0 .. n : q[k] = q[l] => k = l
  <2>1. ASSUME NEW k \in 0 .. n, NEW l \in 0 .. n, q[k] = q[l] PROVE k = l
    <3>1. k \in 0 .. n + 1 /\ l \in 0 .. n + 1
      BY <1>1
    <3>2. p[Turnabout(i, j, k)] = p[Turnabout(i, j, l)]
      BY <1>4, <2>1, <3>1
    <3>3. Turnabout(i, j, k) \in 0 .. n /\ Turnabout(i, j, l) \in 0 .. n
      BY <1>3
    <3>4. Turnabout(i, j, k) = Turnabout(i, j, l)
      BY <1>1, <3>2, <3>3
    <3> QED BY <1>2, <3>4 DEF Turnabout
  <2> QED BY <2>1
<1>7. ASSUME NEW k \in 0 .. n PROVE t.next[q[k]] = q[k + 1]
  <2>1. \A l \in 0 .. n : t.next[p[l]] = SwapNext(p, i, j, l)
    <3>1. Swapped(t.next, n, p, i, j)
      BY ExchangedLinks
    <3> QED BY <3>1 DEF Swapped
  <2>2. k \in Nat /\ k \in 0 .. n + 1 /\ k + 1 \in 0 .. n + 1 /\ i \in 0 .. n /\ j \in 0 .. n
    BY <1>1, <1>2
  <2>3. q[k] = p[Turnabout(i, j, k)] /\ q[k + 1] = p[Turnabout(i, j, k + 1)]
    BY <1>4, <2>2
  <2>4. CASE k = i
    <3>1. Turnabout(i, j, k) = j /\ Turnabout(i, j, k + 1) = IF i = j - 1 THEN i ELSE i + 1
      BY <1>2, <2>4 DEF Turnabout
    <3>2. t.next[p[j]] = IF i = j - 1 THEN p[i] ELSE p[i + 1]
      BY <2>1, <2>2 DEF SwapNext
    <3> QED BY <2>3, <3>1, <3>2
  <2>5. CASE k = j
    <3>1. Turnabout(i, j, k) = i /\ Turnabout(i, j, k + 1) = j + 1
      BY <1>2, <2>5 DEF Turnabout
    <3>2. i # j
      BY <1>2
    <3>3. t.next[p[i]] = p[j + 1]
      BY <2>1, <2>2, <3>2 DEF SwapNext
    <3> QED BY <2>3, <3>1, <3>3
  <2>6. CASE k # i /\ k # j
    <3>1. Turnabout(i, j, k) = k
      BY <2>6 DEF Turnabout
    <3>2. t.next[p[k]] = IF k = j - 1 THEN p[i] ELSE IF k = i - 1 THEN p[j] ELSE p[k + 1]
      BY <2>1, <2>6 DEF SwapNext
    <3>3. Turnabout(i, j, k + 1) = IF k = j - 1 THEN i ELSE IF k = i - 1 THEN j ELSE k + 1
      BY <1>2, <2>2, <2>6 DEF Turnabout
    <3> QED BY <2>3, <3>1, <3>2, <3>3
  <2> QED BY <2>4, <2>5, <2>6
<1>8. Forth(t.next, h, n, q)
  BY <1>1, <1>4, <1>5, <1>6, <1>7 DEF Forth
<1>9. Inner(n, q) \subseteq Inner(n, p)
  <2>1. ASSUME NEW k \in 1 .. n PROVE q[k] \in Inner(n, p)
    <3>1. k \in 0 .. n + 1
      BY <1>1
    <3> QED BY <1>3, <1>4, <3>1 DEF Inner
  <2> QED BY <2>1 DEF Inner
<1> QED BY <1>8, <1>9

ExchangedList(d, i, j) == [d EXCEPT ![i] = d[j], ![j] = d[i]]

LEMMA SwapElems ==
    ASSUME NEW s, Sane(s), NEW F, Fenced(s, F), NEW n, NEW p, Chain(s, s.list, n, p),
           NEW d, Holds(s, n, p, d), NEW i \in 1 .. n, NEW j \in 1 .. n, i < j,
           NEW x, x = p[i], NEW y, y = p[j], NEW t, t = Exchange(s, x, y),
           NEW e, e = Elems(t, t.list)
    PROVE  /\ Within(F, s, t) /\ i \in 1 .. Len(d) /\ j \in 1 .. Len(d)
           /\ e = ExchangedList(d, i, j)
<1>1. /\ n \in Nat /\ Inner(n, p) \subseteq s.nodes /\ Cycle(n, p) \subseteq Used(s)
      /\ Cycle(n, p) \subseteq Places \ F
  BY AroundFacts
<1>2. Forth(s.next, s.list, n, p) /\ \A k \in 0 .. n : s.prev[p[k + 1]] = p[k]
  BY DEF Chain, Rounds
<1>3. \A k \in 0 .. n + 1 : p[k] \in Cycle(n, p)
  BY <1>2, CycleFacts
<1>4. /\ i - 1 \in 0 .. n /\ j - 1 \in 0 .. n /\ i - 1 + 1 = i /\ j - 1 + 1 = j
      /\ i \in 0 .. n + 1 /\ j \in 0 .. n + 1 /\ i - 1 \in 0 .. n + 1 /\ j - 1 \in 0 .. n + 1
  BY <1>1
<1>5. s.prev[x] = p[i - 1] /\ s.prev[y] = p[j - 1]
  BY <1>2, <1>4
<1>6. Within(F, s, t)
  <2>1. x \in Places \ F /\ y \in Places \ F
    BY <1>1, <1>3, <1>4
  <2> QED BY <2>1, ExchangeFacts
<1>7. Relinks(s, t) /\ Exchanged(s, t, x, y, s.prev[x], s.prev[y])
  <2>1. s \in Memories /\ Used(s) \subseteq Places
    BY UsedFacts DEF Sane
  <2>2. x \in Used(s) /\ y \in Used(s) /\ s.prev[x] \in Used(s) /\ s.prev[y] \in Used(s)
    BY <1>1, <1>3, <1>4, <1>5
  <2> QED BY <2>1, <2>2, ExchangeLinks
<1>8. PICK q : q = SwapPath(p, n, i, j)
  OBVIOUS
<1>9. Forth(t.next, s.list, n, q) /\ Inner(n, q) \subseteq Inner(n, p)
  <2>1. PICK a, b : a = p[i - 1] /\ b = p[j - 1]
    OBVIOUS
  <2>2. Exchanged(s, t, x, y, a, b)
    BY <1>5, <1>7, <2>1
  <2> QED BY <1>2, <1>8, <2>1, <2>2, SwappedForth
<1>10. Holds(t, n, q, e)
  <2>1. Sane(t) /\ t.list = s.list
    BY <1>6 DEF Within
  <2>2. Inner(n, q) \subseteq Cells
    BY <1>1, <1>9, UsedFacts
  <2> QED BY <1>9, <2>1, <2>2, ForthElems
<1>11. /\ d \in Seq(Marks) /\ Len(d) = n /\ e \in Seq(Marks) /\ Len(e) = n
       /\ \A k \in 1 .. n : d[k] = s.data[p[k]]
       /\ \A k \in 1 .. n : e[k] = t.data[q[k]]
  BY <1>10 DEF Holds
<1>12. t.data = s.data
  BY <1>7 DEF Relinks, Rest
<1>13. ASSUME NEW k \in 1 .. Len(e)
       PROVE  e[k] = IF k = i THEN d[j] ELSE IF k = j THEN d[i] ELSE d[k]
  <2>1. k \in 1 .. n /\ k \in 0 .. n + 1
    BY <1>1, <1>11
  <2>2. q[k] = p[Turnabout(i, j, k)]
    BY <1>8, <2>1 DEF SwapPath
  <2>3. e[k] = s.data[p[Turnabout(i, j, k)]]
    BY <1>11, <1>12, <2>1, <2>2
  <2>4. Turnabout(i, j, k) \in 1 .. n
    BY <2>1 DEF Turnabout
  <2>5. e[k] = d[Turnabout(i, j, k)]
    BY <1>11, <2>3, <2>4
  <2> QED BY <2>5 DEF Turnabout
<1>14. i \in 1 .. Len(d) /\ j \in 1 .. Len(d) /\ i # j /\ Len(e) = Len(d)
  BY <1>1, <1>11
<1>15. d \in Seq(Marks) /\ e \in Seq(Marks)
  BY <1>11
<1>16. e = [d EXCEPT ![i] = d[j], ![j] = d[i]]
  BY ONLY <1>13, <1>14, <1>15, ExchangedSeq
<1> QED BY <1>6, <1>14, <1>16 DEF ExchangedList

LEMMA ExchangedExchanges ==
    ASSUME NEW d, d = value["l"], NEW i \in 1 .. Len(d), NEW j \in 1 .. Len(d),
           NEW e, e = ExchangedList(d, i, j), Service!Becomes("l", e)
    PROVE  Service!Exchange
<1>1. /\ "l" \in Handles /\ i \in 1 .. Len(value["l"]) /\ j \in 1 .. Len(value["l"])
      /\ Service!Becomes("l", ExchangedList(value["l"], i, j))
  BY ValueIs
<1> QED BY <1>1 DEF Service!Exchange, ExchangedList

LEMMA AnswersSwap ==
    ASSUME Quiet, NEW i0 \in Positions, NEW j0 \in Positions, Swap(i0, j0), m'.fault = "no"
    PROVE  Answers
<1>1. PICK s : s = detach(m)
  OBVIOUS
<1>2. PICK a : a = IF size(s) = 0 THEN i0 ELSE Smaller(i0, size(s) - 1)
  OBVIOUS
<1>3. PICK b : b = IF size(s) = 0 THEN j0 ELSE Smaller(j0, size(s) - 1)
  OBVIOUS
<1>4. PICK x : x = Plus(s, begin(s), a)
  OBVIOUS
<1>5. PICK y : y = Plus(s, begin(s), b)
  OBVIOUS
<1>6. PICK t : t = IF x = y THEN s
                   ELSE IF {x, y} \subseteq s.nodes THEN Exchange(s, x, y)
                   ELSE Fails(s, "freed")
  OBVIOUS
<1>7. /\ Room(m, Cardinality(m.nodes) + 1) /\ i0 \in Nat /\ j0 \in Nat /\ i0 < j0 /\ m' = t
  BY <1>1, <1>2, <1>3, <1>4, <1>5, <1>6, RingAssumptions DEF Swap, Roomy, Positions
<1>8. PICK F, n, p, d :
        /\ Prepared(F, s) /\ Sane(s) /\ Fenced(s, F) /\ Good(s) /\ s.fault = "no"
        /\ Chain(s, s.list, n, p)
        /\ d = Elems(s, s.list) /\ d = value["l"] /\ Holds(s, n, p, d)
  BY <1>1, <1>7, AnswersStart
<1>9. CASE x = y
  <2>1. m' = s
    BY <1>6, <1>7, <1>9
  <2>2. UNCHANGED value
    BY <1>8, <2>1, ValueStays DEF Prepared
  <2> QED BY <2>2 DEF Answers
<1>10. CASE x # y
  <2>1. /\ n \in Nat /\ Inner(n, p) \subseteq s.nodes /\ s.count[s.list] = n
    BY <1>8, AroundFacts
  <2>2. size(s) = n
    BY <2>1 DEF size
  <2>3. n # 0
    <3>1. ASSUME n = 0 PROVE FALSE
      <4>1. x = s.list /\ y = s.list
        BY <1>2, <1>3, <1>4, <1>5, <1>7, <1>8, <2>2, <3>1, SwapPlace
      <4> QED BY <1>10, <4>1
    <3> QED BY <3>1
  <2>4. a = Smaller(i0, n - 1) /\ b = Smaller(j0, n - 1)
    BY <1>2, <1>3, <2>2, <2>3
  <2>5. a \in Nat /\ b \in Nat /\ a <= b /\ b <= n - 1
    BY <1>7, <2>1, <2>3, <2>4 DEF Smaller
  <2>6. x = p[a + 1] /\ y = p[b + 1]
    <3>1. a <= n /\ b <= n
      BY <2>1, <2>5
    <3> QED BY <1>4, <1>5, <1>8, <2>5, <3>1, PlusAt DEF begin
  <2>7. a # b
    BY <1>10, <2>6
  <2>8. PICK i \in 1 .. n : i = a + 1
    BY <2>1, <2>5
  <2>9. PICK j \in 1 .. n : j = b + 1
    BY <2>1, <2>5
  <2>10. i < j /\ x = p[i] /\ y = p[j]
    BY <2>5, <2>6, <2>7, <2>8, <2>9
  <2>11. t = Exchange(s, x, y)
    <3>1. x \in Inner(n, p) /\ y \in Inner(n, p)
      BY <2>10 DEF Inner
    <3> QED BY <1>6, <1>10, <2>1, <3>1
  <2>12. PICK e : e = Elems(t, t.list)
    OBVIOUS
  <2>13. /\ Within(F, s, t) /\ i \in 1 .. Len(d) /\ j \in 1 .. Len(d)
         /\ e = ExchangedList(d, i, j)
    <3>1. Sane(s) /\ Fenced(s, F) /\ Chain(s, s.list, n, p) /\ Holds(s, n, p, d)
      BY <1>8
    <3> QED BY ONLY <2>1, <2>10, <2>11, <2>12, <3>1, i \in 1 .. n, j \in 1 .. n, SwapElems
  <2>14. Service!Becomes("l", e)
    BY <1>7, <1>8, <2>12, <2>13, AnswersBecomes
  <2>15. Service!Exchange
    BY <1>8, <2>13, <2>14, ExchangedExchanges
  <2> QED BY <2>15 DEF Answers, Service!Next
<1> QED BY <1>9, <1>10

Backward(d) == [k \in 1 .. Len(d) |-> d[Len(d) + 1 - k]]

LEMMA BackwardTurns ==
    ASSUME NEW d, d = value["l"], Service!Becomes("l", Backward(d))
    PROVE  Service!Turn
<1>1. "l" \in Handles /\ Service!Becomes("l", Backward(value["l"]))
  BY ValueIs
<1> QED BY <1>1 DEF Service!Turn, Backward

LEMMA BackwardSeq ==
    ASSUME NEW D, NEW d \in Seq(D), NEW e \in Seq(D), Len(e) = Len(d),
           \A k \in 1 .. Len(e) : e[k] = d[Len(d) + 1 - k]
    PROVE  e = Backward(d)
<1>1. Len(d) \in Nat /\ DOMAIN e = 1 .. Len(e) /\ e \in [1 .. Len(e) -> D]
  BY LenProperties
<1> QED BY <1>1 DEF Backward

LEMMA TurnElems ==
    ASSUME NEW s, Sane(s), NEW F, Fenced(s, F), NEW n, NEW p, Chain(s, s.list, n, p), s.fault = "no",
           NEW d, Holds(s, n, p, d), NEW t, t = Turn(s), NEW e, e = Elems(t, t.list)
    PROVE  Within(F, s, t) /\ e = Backward(d)
<1>1. Within(F, s, t) /\ SameLinks(s, t)
  BY TurnFacts
<1>2. PICK j : HalfTurned(s, t, n, p, j) /\ j \in Nat /\ 2 * j <= n /\ n <= 2 * j + 1
  BY TurnFacts
<1>3. n \in Nat
  BY AroundFacts
<1>4. Sane(t) /\ Chain(t, t.list, n, p)
  BY <1>1 DEF Within, SameLinks, Chain
<1>5. Holds(t, n, p, e)
  BY <1>4, ChainElems
<1>6. /\ d \in Seq(Marks) /\ Len(d) = n /\ e \in Seq(Marks) /\ Len(e) = n
      /\ \A k \in 1 .. n : d[k] = s.data[p[k]]
      /\ \A k \in 1 .. n : e[k] = t.data[p[k]]
  BY <1>5 DEF Holds
<1>7. ASSUME NEW k \in 1 .. Len(e) PROVE e[k] = d[Len(d) + 1 - k]
  <2>1. k \in 1 .. n
    BY <1>6
  <2>2. Mirror(n, j, k) = n + 1 - k
    BY <1>2, <1>3, <2>1 DEF Mirror
  <2>3. n + 1 - k \in 1 .. n
    BY <1>3, <2>1
  <2>4. t.data[p[k]] = s.data[p[Mirror(n, j, k)]]
    BY <1>2, <2>1 DEF HalfTurned
  <2> QED BY <1>6, <2>1, <2>2, <2>3, <2>4
<1>8. e = Backward(d)
  BY <1>6, <1>7, BackwardSeq
<1> QED BY <1>1, <1>8

LEMMA AnswersReverse ==
    ASSUME Quiet, Reverse
    PROVE  Answers
<1>1. PICK s : s = detach(m)
  OBVIOUS
<1>2. PICK t : t = Turn(s)
  OBVIOUS
<1>3. Room(m, Cardinality(m.nodes) + 1) /\ m' = t
  BY <1>1, <1>2 DEF Reverse, Roomy, Does
<1>4. PICK F, n, p, d :
        /\ Prepared(F, s) /\ Sane(s) /\ Fenced(s, F) /\ Good(s) /\ s.fault = "no"
        /\ Chain(s, s.list, n, p)
        /\ d = Elems(s, s.list) /\ d = value["l"] /\ Holds(s, n, p, d)
  BY <1>1, <1>3, AnswersStart
<1>5. PICK e : e = Elems(t, t.list)
  OBVIOUS
<1>6. Within(F, s, t) /\ e = Backward(d)
  BY <1>2, <1>4, <1>5, TurnElems
<1>7. Service!Becomes("l", e)
  BY <1>3, <1>4, <1>5, <1>6, AnswersBecomes
<1>8. Service!Turn
  BY <1>4, <1>6, <1>7, BackwardTurns
<1> QED BY <1>8 DEF Answers, Service!Next
---------------------------------------------------------------------------
(* The calls on the handles.                                               *)

LEMMA SameCellsElems ==
    ASSUME NEW s, NEW t, SameCells(s, t)
    PROVE  \A h : Elems(t, h) = Elems(s, h)
BY DEF SameCells, Elems, Nodes

\* The other handle's elements become e, the list's stay.
LEMMA OtherBecomes ==
    ASSUME NEW e, Elems(m', m'.other) = e, Elems(m', m'.list) = Elems(m, m.list)
    PROVE  Service!Becomes("b", e)
<1>1. value' = [h \in Handles |-> IF h = "l" THEN Elems(m, m.list) ELSE e]
  BY ValueIs
<1>2. value = [h \in Handles |-> IF h = "l" THEN Elems(m, m.list) ELSE Elems(m, m.other)]
  BY ValueIs
<1>3. \A h \in Handles : h = "l" \/ h = "b"
  BY DEF Handles
<1>4. [value EXCEPT !["b"] = e] = [h \in Handles |-> IF h = "l" THEN Elems(m, m.list) ELSE e]
  BY <1>2, <1>3
<1> QED BY <1>1, <1>4 DEF Service!Becomes

LEMMA AnswersShare ==
    ASSUME Quiet, Share
    PROVE  Answers
<1>1. PICK t : t = [m EXCEPT !.other = m.list]
  OBVIOUS
<1>2. Sane(m) /\ m.list \in m.heads /\ m' = t
  BY <1>1, QuietFacts DEF Share, Sane
<1>3. SameCells(m, t) /\ t.list = m.list /\ t.other = m.list
  BY <1>1, <1>2, OtherSet
<1>4. PICK e : e = Elems(m, m.list)
  OBVIOUS
<1>5. Elems(m', m'.list) = e /\ Elems(m', m'.other) = e
  BY <1>2, <1>3, <1>4, SameCellsElems
<1>6. Service!Becomes("b", e)
  BY <1>4, <1>5, OtherBecomes
<1>7. "b" \in Handles /\ "l" \in Handles /\ Service!Becomes("b", value["l"])
  BY <1>4, <1>6, ValueIs
<1>8. Service!Assign
  BY <1>7 DEF Service!Assign
<1> QED BY <1>8 DEF Answers, Service!Next

LEMMA AnswersClear ==
    ASSUME Quiet, Clear
    PROVE  Answers
<1>1. m.list # Null /\ m.fault = "no"
  BY DEF Clear, Call
<1>2. PICK s : s = IF is_shared(m) THEN m ELSE free(m, m.list)
  OBVIOUS
<1>3. PICK t : t = [s EXCEPT !.list = Null]
  OBVIOUS
<1>4. m' = t
  BY <1>2, <1>3 DEF Clear, Does
<1>5. Sane(m) /\ m.next[Null] = Null /\ Null \in m.heads /\ m.list \in Places
  BY QuietFacts, UsedFacts DEF Sane
<1>6. PICK F : Open(F, twisted, m)
  BY <1>1, QuietFacts DEF Kept
<1>7. Fenced(m, F)
  BY <1>6 DEF Open
<1>8. Sane(s) /\ s.heads = m.heads /\ s.other = m.other /\ s.next[Null] = Null
  BY <1>2, <1>5, FreeShrinks DEF Shrinks
<1>9. Sane(t) /\ SameCells(s, t) /\ t.list = Null /\ t.other = m.other
  BY <1>3, <1>5, <1>8, ListSet
<1>10. Elems(s, m.other) = Elems(m, m.other)
  <2>1. CASE is_shared(m)
    BY <1>2, <2>1
  <2>2. CASE ~is_shared(m)
    <3>1. s = free(m, m.list) /\ m.other # m.list
      BY <1>1, <1>2, <2>2 DEF is_shared
    <3>2. Same(F, m, s)
      BY <1>5, <1>7, <3>1, FreeWithin DEF Within
    <3>3. Behind(F, m)
      BY <1>6, <3>1, QuietBehind
    <3>4. Elems(s, s.other) = Elems(m, m.other)
      BY <1>5, <1>8, <3>2, <3>3, OtherKept
    <3> QED BY <1>8, <3>4
  <2> QED BY <2>1, <2>2
<1>11. Elems(t, Null) = <<>>
  <2>1. t.next[Null] = Null
    BY <1>8, <1>9 DEF SameCells
  <2> QED BY <1>9, <2>1, NullElems
<1>12. Elems(m', m'.list) = <<>> /\ Elems(m', m'.other) = Elems(m, m.other)
  BY <1>4, <1>9, <1>10, <1>11, SameCellsElems
<1>13. Service!Becomes("l", <<>>) /\ "l" \in Handles
  BY <1>12, ListBecomes, ValueIs
<1>14. Service!Clear
  BY <1>13 DEF Service!Clear
<1> QED BY <1>14 DEF Answers, Service!Next

\* The block the other handle gives back is behind a fence.
LEMMA FreeOther ==
    ASSUME Quiet, m.list # Null, m.other # m.list, m.other # Null,
           NEW s, s = free(m, m.other), s.fault = "no"
    PROVE  Elems(s, m.list) = Elems(m, m.list)
<1>1. PICK F : Open(F, twisted, m)
  BY QuietFacts DEF Kept
<1>2. Fenced(m, F) /\ Good(m) /\ Sane(m)
  BY <1>1, QuietFacts DEF Open
<1>3. m.other \in F /\ m.other \in Places
  BY <1>2, UsedFacts DEF Fenced, Sane
<1>4. Shrinks(m, s) /\ Front(F, m, s)
  BY <1>2, <1>3, FreeBehind
<1>5. PICK n, p : Chain(m, m.list, n, p)
  BY <1>2 DEF Good
<1>6. /\ Cycle(n, p) \subseteq Places \ F /\ Inner(n, p) \subseteq m.nodes
      /\ Inner(n, p) \subseteq Cycle(n, p)
  BY <1>2, <1>5, AroundFacts
<1>7. Inner(n, p) \subseteq s.nodes
  BY <1>4, <1>6 DEF Front
<1>8. \A c \in Cycle(n, p) : s.next[c] = m.next[c] /\ s.prev[c] = m.prev[c]
  BY <1>4, <1>6 DEF Front
<1>9. s.count = m.count /\ Sane(s)
  BY <1>4 DEF Shrinks
<1>10. Chain(s, m.list, n, p)
  BY <1>5, <1>7, <1>8, <1>9, SameChain
<1>11. \A c \in Inner(n, p) : s.data[c] = m.data[c]
  BY <1>4, <1>6 DEF Front
<1> QED BY <1>2, <1>5, <1>9, <1>10, <1>11, SameElems

LEMMA AnswersDrop ==
    ASSUME Quiet, Drop, m'.fault = "no"
    PROVE  Answers
<1>1. m.other # Null /\ m.fault = "no"
  BY DEF Drop, Call
<1>2. PICK s : s = IF is_shared(m) THEN m ELSE free(m, m.other)
  OBVIOUS
<1>3. PICK t : t = [s EXCEPT !.other = Null]
  OBVIOUS
<1>4. m' = t
  BY <1>2, <1>3 DEF Drop, Does
<1>5. Sane(m) /\ m.next[Null] = Null /\ Null \in m.heads /\ m.other \in Places
  BY QuietFacts, UsedFacts DEF Sane
<1>6. Sane(s) /\ s.heads = m.heads /\ s.list = m.list /\ s.next[Null] = Null
  BY <1>2, <1>5, FreeShrinks DEF Shrinks
<1>7. Sane(t) /\ SameCells(s, t) /\ t.list = m.list /\ t.other = Null
  BY <1>3, <1>5, <1>6, OtherSet
<1>8. s.fault = "no"
  BY <1>4, <1>7 DEF SameCells
<1>9. Elems(s, m.list) = Elems(m, m.list)
  <2>1. CASE is_shared(m)
    BY <1>2, <2>1
  <2>2. CASE m.list = Null
    BY <1>5, <1>6, <2>2, NullElems
  <2>3. CASE ~is_shared(m) /\ m.list # Null
    <3>1. s = free(m, m.other) /\ m.other # m.list
      BY <1>2, <2>3 DEF is_shared
    <3> QED BY <1>1, <1>8, <2>3, <3>1, FreeOther
  <2> QED BY <2>1, <2>2, <2>3
<1>10. Elems(t, Null) = <<>>
  <2>1. t.next[Null] = Null
    BY <1>6, <1>7 DEF SameCells
  <2> QED BY <1>7, <2>1, NullElems
<1>11. Elems(m', m'.other) = <<>> /\ Elems(m', m'.list) = Elems(m, m.list)
  BY <1>4, <1>7, <1>9, <1>10, SameCellsElems
<1>12. Service!Becomes("b", <<>>) /\ "b" \in Handles
  BY <1>11, OtherBecomes, ValueIs
<1>13. Service!Clear
  BY <1>12 DEF Service!Clear
<1> QED BY <1>13 DEF Answers, Service!Next
---------------------------------------------------------------------------
(* A list appended to itself.                                              *)

\* The copy is a ring as long as the original, with its data.
LEMMA CopyChain ==
    ASSUME NEW s, Sane(s), Good(s), NEW c, NEW n, NEW p, NEW q, IsCopy(s, c, n, p, q)
    PROVE  Chain(c, c.list, n, q)
<1>1. Forth(s.next, s.list, n, p) /\ Inner(n, p) \subseteq Cells
  BY UsedFacts DEF IsCopy
<1>2. PICK i, w : Chain(s, s.list, i, w)
  BY DEF Good
<1>3. s.next \in [Places -> Places]
  BY UsedFacts
<1>4. Steps(s.next, s.next[s.list], s.list) = n
  BY <1>1, <1>3, ForthSteps
<1>5. Steps(s.next, s.next[s.list], s.list) = i
  BY <1>2, ChainRing
<1>6. c.count[c.list] = n
  BY <1>2, <1>4, <1>5 DEF Chain, IsCopy
<1>7. Rounds(c.next, c.prev, c.list, n, q) /\ Inner(n, q) \subseteq c.nodes
  BY DEF IsCopy
<1> QED BY <1>6, <1>7 DEF Chain

\* t's elements are those of s twice.
LEMMA LongerElems ==
    ASSUME NEW s, Sane(s), NEW c, NEW n, NEW p, NEW q, IsCopy(s, c, n, p, q),
           NEW t, Sane(t), NEW w, Longer(s, c, p, n, t, n, q, w),
           NEW d, d = Elems(s, s.list), NEW e, e = Elems(t, t.list)
    PROVE  e = d \o d
<1>1. Forth(s.next, s.list, n, p) /\ Inner(n, p) \subseteq Cells /\ n \in Nat
  BY UsedFacts DEF IsCopy, Forth
<1>2. Holds(s, n, p, d)
  BY <1>1, ForthElems
<1>3. Chain(t, t.list, n + n, w)
  BY DEF Longer
<1>4. Holds(t, n + n, w, e)
  BY <1>3, ChainElems
<1>5. /\ d \in Seq(Marks) /\ Len(d) = n /\ \A i \in 1 .. n : d[i] = s.data[p[i]]
      /\ e \in Seq(Marks) /\ Len(e) = n + n /\ \A i \in 1 .. n + n : e[i] = t.data[w[i]]
  BY <1>2, <1>4 DEF Holds
<1>6. \A i \in 1 .. n : e[i] = d[i]
  <2>1. \A i \in 1 .. n : t.data[w[i]] = c.data[q[i]]
    BY DEF Longer
  <2>2. \A i \in 1 .. n : c.data[q[i]] = s.data[p[i]]
    BY DEF IsCopy
  <2>3. \A i \in 1 .. n : i \in 1 .. n + n
    BY <1>1
  <2> QED BY <1>5, <2>1, <2>2, <2>3
<1>7. \A i \in 1 .. n : e[n + i] = d[i]
  <2>1. \A i \in 1 .. n : t.data[w[n + i]] = s.data[p[i]]
    BY DEF Longer
  <2>2. \A i \in 1 .. n : n + i \in 1 .. n + n
    BY <1>1
  <2> QED BY <1>5, <2>1, <2>2
<1>8. PICK f : f = d \o d
  OBVIOUS
<1>9. /\ f \in Seq(Marks) /\ Len(f) = n + n
      /\ \A i \in 1 .. n + n : f[i] = IF i <= n THEN d[i] ELSE d[i - n]
  BY <1>1, <1>5, <1>8, ConcatProperties
<1>10. ASSUME NEW i \in 1 .. n + n PROVE e[i] = f[i]
  <2>1. CASE i <= n
    <3>1. i \in 1 .. n
      BY <1>1, <2>1
    <3> QED BY <1>6, <1>9, <2>1, <3>1
  <2>2. CASE ~(i <= n)
    <3>1. PICK j \in 1 .. n : i = n + j
      <4>1. i - n \in 1 .. n /\ i = n + (i - n)
        BY <1>1, <2>2
      <4> QED BY <4>1
    <3>2. i - n = j
      BY <1>1, <3>1
    <3> QED BY <1>7, <1>9, <2>2, <3>1, <3>2
  <2> QED BY <2>1, <2>2
<1>11. e = f
  BY <1>5, <1>9, <1>10, SeqEqual
<1> QED BY <1>8, <1>11

LEMMA AnswersAppendSelf ==
    ASSUME Quiet, AppendSelf, m'.fault = "no"
    PROVE  Answers
<1>1. /\ m.fault = "no" /\ begin(m) # m.list /\ Room(m, 2 * Cardinality(m.nodes) + 1)
      /\ Sane(m) /\ m.next[Null] = Null
  BY QuietFacts DEF AppendSelf, Call
<1>2. PICK s : s = detach(m)
  OBVIOUS
<1>3. PICK t : t = IF s.list = m.list THEN Fails(m, "hang")
                   ELSE Iterate(AddStep(m), [t |-> s, from |-> begin(m)], N).t
  OBVIOUS
<1>4. m' = t
  BY <1>2, <1>3 DEF AppendSelf, Does
<1>5. s.list # m.list
  <2>1. ASSUME s.list = m.list PROVE FALSE
    <3>1. t = Fails(m, "hang") /\ "hang" \in Faults /\ "hang" # "no"
      BY <1>3, <2>1 DEF Faults
    <3> QED BY <1>1, <1>4, <3>1, SaneFails
  <2> QED BY <2>1
<1>6. m.list # Null
  BY <1>1 DEF begin
<1>7. is_shared(m)
  BY <1>2, <1>5, <1>6 DEF detach
<1>8. Room(m, Cardinality(m.nodes) + 1)
  <2>1. Cardinality(m.nodes) \in Nat /\ Cardinality(Free(m)) \in Nat
    BY <1>1, UsedFacts, CellsFinite
  <2> QED BY <1>1, <2>1 DEF Room
<1>9. Prepared(Used(m), s)
  BY <1>2, <1>7, <1>8, DetachShared
<1>10. PICK n, p, q : IsCopy(m, s, n, p, q)
  BY <1>2, <1>7, <1>8, DetachShared
<1>11. Good(m)
  BY <1>6, QuietFacts DEF Quiet, Kept, Open
<1>12. Chain(s, s.list, n, q)
  BY <1>1, <1>10, <1>11, CopyChain
<1>13. t = Iterate(AddStep(m), [t |-> s, from |-> m.next[m.list]], N).t
  BY <1>3, <1>5 DEF begin
<1>14. Within(Used(m), s, t) /\ Lengthens(m, s, p, n, t)
  BY <1>1, <1>10, <1>13, AddFacts
<1>15. PICK w : Longer(m, s, p, n, t, n, q, w)
  BY <1>12, <1>14 DEF Lengthens
<1>16. PICK d : d = Elems(m, m.list)
  OBVIOUS
<1>17. PICK e : e = Elems(t, t.list)
  OBVIOUS
<1>18. Sane(t)
  BY <1>14 DEF Within
<1>19. e = d \o d
  BY <1>1, <1>10, <1>15, <1>16, <1>17, <1>18, LongerElems
<1>20. Service!Becomes("l", e)
  BY <1>4, <1>9, <1>14, <1>17, AnswersBecomes
<1>21. "l" \in Handles /\ e = value["l"] \o value["l"]
  BY <1>16, <1>19, ValueIs
<1>22. Service!Extend
  BY <1>20, <1>21 DEF Service!Extend
<1> QED BY <1>22 DEF Answers, Service!Next
---------------------------------------------------------------------------
(* The calls are those of the service.                                     *)

\* One case for each call.
LEMMA AnswersNext ==
    ASSUME Quiet, Next, m'.fault = "no", Closed(m', m'.list)
    PROVE  Answers
<1>1. ASSUME NEW v \in Values, Append1(v) \/ Prepend(v) \/ InsertAt(v) PROVE Answers
  BY <1>1, AnswersAppend, AnswersPrepend, AnswersInsertAt
<1>2. ASSUME NEW pos \in Positions, NEW v \in Values, Insert(pos, v) \/ Replace(pos, v)
      PROVE  Answers
  BY <1>2, AnswersInsert, AnswersReplace
<1>3. ASSUME NEW pos \in Positions, Remove(pos) \/ Begin(pos) \/ ConstBegin(pos) PROVE Answers
  BY <1>3, AnswersRemove, AnswersBegin, AnswersConstBegin
<1>4. ASSUME NEW pos \in Positions, NEW to \in Positions, Move(pos, to) \/ Swap(pos, to)
      PROVE  Answers
  BY <1>4, AnswersMove, AnswersSwap
<1>5. ASSUME Reverse \/ Clear \/ AppendSelf \/ Share \/ Drop PROVE Answers
  BY <1>5, AnswersReverse, AnswersClear, AnswersAppendSelf, AnswersShare, AnswersDrop
<1>6. ASSUME Erase \/ PopBack \/ PopFront PROVE Answers
  BY <1>6, AnswersErase, AnswersPopBack, AnswersPopFront
<1> QED BY <1>1, <1>2, <1>3, <1>4, <1>5, <1>6 DEF Next

\* The antecedent of Contents.
Heard ==
    /\ {m.list, m.other} \cap twisted = {}
    /\ m'.fault = "no" /\ Closed(m', m'.list)
    /\ ~(is_shared(m) /\ size(m) = 0)

LEMMA ContentsStep ==
    ASSUME RingInv, Next, Heard
    PROVE  Answers
<1>1. m.fault = "no"
  BY DEF Next, Append1, Prepend, Insert, InsertAt, Remove, Replace, Begin, ConstBegin, Move, Swap,
     Reverse, Clear, AppendSelf, Share, Drop, Erase, PopBack, PopFront, Call
<1>2. Quiet
  BY <1>1 DEF Quiet, Heard
<1> QED BY <1>2, AnswersNext DEF Heard

\* On untwisted rings every call, shared or not, changes what the two handles
\* hold as a call of ListService does: an element goes in, out or elsewhere in
\* the list, the order is turned, or one handle takes the other's elements
\* (bs_list.inl).
THEOREM ContentsCorrect == Spec => Contents
<1>1. RingInv /\ [Next]_vars => RingInv'
  <2>1. ASSUME RingInv, UNCHANGED vars PROVE RingInv'
    BY <2>1 DEF vars, RingInv
  <2> QED BY <2>1, RingStep
<1>2. RingInv /\ [Next]_vars => [Heard => Answers]_vars
  BY ContentsStep
<1>3. Spec => [][Heard => Answers]_vars
  BY <1>1, <1>2, RingStart, PTL DEF Spec
<1> QED BY <1>3 DEF Contents, Heard, Answers
=============================================================================
