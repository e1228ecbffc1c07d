-------------------------- MODULE RefCountProofs --------------------------
(* Theorems about RefCount, for any number of handles up to refDetach.     *)
EXTENDS RefCount, FiniteSetTheorems, TLAPS

THEOREM RefTypeCorrect == Spec => []TypeOK
<1>1. Init => TypeOK
  BY RefAssumptions DEF Init, TypeOK, Base, refShareable, States
<1>2. TypeOK /\ [Next]_vars => TypeOK'
  BY DEF TypeOK, States, Next, vars, Copy, Move, Write, Written, Check, Decrement,
     Free, Goes
<1> QED
  BY <1>1, <1>2, PTL DEF Spec

\* Every set of handles is finite, and the counter has room for it.
LEMMA HandleSets ==
    ASSUME NEW S, S \subseteq Handles
    PROVE  /\ IsFiniteSet(S)
           /\ Cardinality(S) \in 0..DetachBit
           /\ Cardinality(S) = 0 <=> S = {}
           /\ Cardinality(S) = 1 <=> \E h \in Handles : S = {h}
<1>1. IsFiniteSet(S) /\ Cardinality(S) <= Cardinality(Handles)
  BY RefAssumptions, FS_Subset
<1>2. Cardinality(S) \in Nat /\ Cardinality(Handles) \in Nat
  BY <1>1, RefAssumptions, FS_CardinalityType
<1>3. Cardinality(S) = 1 <=> \E h \in Handles : S = {h}
  BY <1>1, FS_Singleton
<1> QED BY <1>1, <1>2, <1>3, RefAssumptions, FS_EmptySet

\* A user finds in the counter how many others there are.
LEMMA UserCounts ==
    ASSUME TypeOK, RefInv, NEW h \in Users
    PROVE  /\ Last = {} /\ freed = 0
           /\ ref = Base + Cardinality(Users) - 1
           /\ Count(ref) = Cardinality(Users) - 1
           /\ has_detach <=> detach
<1>1. Last = {} /\ freed = 0
  BY DEF TypeOK, RefInv, FreedOnce
<1>2. ref = Base + Cardinality(Users) - 1
  BY <1>1 DEF RefInv
<1>3. Cardinality(Users) \in 1..DetachBit
  BY HandleSets DEF Users
<1> QED
  BY <1>1, <1>2, <1>3, RefAssumptions
     DEF Base, Count, has_detach, refShareable

\* A step that leaves the users, the counter and the block as they are.
LEMMA SameUsers ==
    ASSUME TypeOK, RefInv, UNCHANGED <<detach, ref, freed, Users, Last>>,
           detach => \A h \in Handles : state'[h] = "writing" => Users = {h}
    PROVE  RefInv'
BY DEF RefInv, FreedOnce, WriterAlone, Base

\* A step with which one handle stops to use the block.
LEMMA OneUserLess ==
    ASSUME TypeOK, RefInv, NEW h \in Users, UNCHANGED <<detach, freed>>,
           Users' = Users \ {h},
           \A g \in Handles \ {h} : state'[g] = state[g],
           state'[h] # "writing",
           \/ Users # {h} /\ Last' = {} /\ ref' = ref - 1
           \/ Users = {h} /\ Last' = {h} 
           \/ detach /\ Last' = {} /\ ref' = ref - 1
    PROVE  RefInv'
<1>1. h \in Handles
  BY DEF Users
<1>2. IsFiniteSet(Users) /\ Cardinality(Users) \in Nat /\ Cardinality(Users') \in Nat
  BY HandleSets DEF Users
<1>3. Cardinality(Users') = Cardinality(Users) - 1
  BY <1>2, FS_RemoveElement
<1>4. Last = {} /\ freed = 0 /\ ref = Base + Cardinality(Users) - 1
  BY UserCounts
<1>5. Cardinality({}) = 0 /\ Cardinality({h}) = 1
  BY FS_EmptySet, FS_Singleton
<1>6. FreedOnce'
  BY <1>4, <1>5 DEF FreedOnce, RefInv
<1>7. WriterAlone'
  BY <1>1 DEF RefInv, WriterAlone, Users
<1>8. Last' = {} => ref' = Base + Cardinality(Users') - 1
  BY <1>2, <1>3, <1>4, RefAssumptions DEF Base, refShareable
<1>9. ~detach /\ Last' = {} => Users' # {}
  OBVIOUS
<1> QED
  BY <1>4, <1>6, <1>7, <1>8, <1>9 DEF RefInv, Base

THEOREM RefCorrect == Spec => []RefInv
<1>1. Init => RefInv
  <2> SUFFICES ASSUME Init PROVE RefInv
    OBVIOUS
  <2>1. Users = {First} /\ Last = {}
    BY RefAssumptions DEF Init, Users, Last
  <2>2. Cardinality({First}) = 1 /\ Cardinality({}) = 0
    BY FS_EmptySet, FS_Singleton
  <2> QED
    BY <2>1, <2>2, RefAssumptions
       DEF Init, RefInv, FreedOnce, WriterAlone, Base, refShareable
<1>2. TypeOK /\ RefInv /\ [Next]_vars => RefInv'
  <2> SUFFICES ASSUME TypeOK, RefInv, [Next]_vars PROVE RefInv'
    OBVIOUS
  <2>1. CASE UNCHANGED vars
    BY <2>1 DEF vars, RefInv, FreedOnce, WriterAlone, Users, Last, Base
  <2>2. ASSUME NEW g \in Handles, NEW h \in Handles, Copy(g, h) PROVE RefInv'
    <3>1. g \in Users /\ h \notin Users /\ Users' = Users \cup {h} /\ Last' = Last
      BY <2>2 DEF Copy, Goes, Users, Last, TypeOK
    <3>2. Cardinality(Users') = Cardinality(Users) + 1 /\ Cardinality(Users) \in Nat
      BY <3>1, HandleSets, FS_AddElement DEF Users
    <3>3. WriterAlone'
      BY <2>2, <3>1 DEF RefInv, WriterAlone, Copy, Goes, TypeOK
    <3> QED
      BY <2>2, <3>1, <3>2, <3>3, UserCounts, RefAssumptions
         DEF RefInv, FreedOnce, Copy, Base, refShareable
  <2>3. ASSUME NEW g \in Handles, NEW h \in Handles, Move(g, h) PROVE RefInv'
    <3>1. g \in Users /\ h \notin Users \ {g} /\ g # h
          /\ Users' = (Users \ {g}) \cup {h} /\ Last' = Last
      BY <2>3 DEF Move, Users, Last, TypeOK
    <3>2. Cardinality(Users') = Cardinality(Users)
      <4>1. IsFiniteSet(Users) /\ Cardinality(Users) \in Nat
        BY HandleSets DEF Users
      <4>2. IsFiniteSet(Users \ {g}) /\ Cardinality(Users \ {g}) = Cardinality(Users) - 1
        BY <3>1, <4>1, FS_RemoveElement
      <4>3. Cardinality((Users \ {g}) \cup {h}) = Cardinality(Users \ {g}) + 1
        BY <3>1, <4>2, FS_AddElement
      <4> QED BY <3>1, <4>1, <4>2, <4>3
    <3>3. WriterAlone'
      BY <2>3, <3>1 DEF RefInv, WriterAlone, Move, TypeOK
    <3> QED
      BY <2>3, <3>1, <3>2, <3>3, UserCounts DEF RefInv, FreedOnce, Move, Base
  <2>4. ASSUME NEW h \in Handles, Write(h) PROVE RefInv'
    <3>1. h \in Users /\ UNCHANGED <<Users, Last>>
      BY <2>4 DEF Write, Goes, Users, Last, TypeOK
    <3>2. detach /\ state'[h] = "writing" => Users = {h}
      <4> SUFFICES ASSUME detach, state'[h] = "writing" PROVE Users = {h}
        OBVIOUS
      <4>1. ~is_shared
        BY <2>4, <3>1, UserCounts DEF Write, Goes, TypeOK
      <4>2. Cardinality(Users) = 1
        <5>1. Cardinality(Users) \in 1..DetachBit
          BY <3>1, HandleSets DEF Users
        <5>2. Count(ref) = Cardinality(Users) - 1
          BY <3>1, UserCounts
        <5> QED BY <4>1, <5>1, <5>2, RefAssumptions DEF is_shared, refShareable
      <4>3. Users \subseteq Handles
        BY DEF Users
      <4>4. PICK g \in Handles : Users = {g}
        BY ONLY <4>2, <4>3, HandleSets
      <4> QED BY ONLY <3>1, <4>4
    <3>3. detach => \A g \in Handles : state'[g] = "writing" => Users = {g}
      BY <2>4, <3>1, <3>2 DEF Write, Goes, TypeOK, RefInv, WriterAlone
    <3> QED
      BY <2>4, <3>1, <3>3, SameUsers DEF Write
  <2>5. ASSUME NEW h \in Handles, Written(h) PROVE RefInv'
    <3>1. UNCHANGED <<Users, Last>>
      BY <2>5 DEF Written, Goes, Users, Last, TypeOK
    <3> QED
      BY <2>5, <3>1, SameUsers DEF Written, Goes, TypeOK, RefInv, WriterAlone
  <2>6. ASSUME NEW h \in Handles, Check(h) PROVE RefInv'
    <3>1. h \in Users
      BY <2>6 DEF Check, Goes, Users
    <3>2. CASE Count(ref) = 0
      <4>1. Users = {h}
        <5>1. Cardinality(Users) = 1
          BY <3>1, <3>2, UserCounts, HandleSets, RefAssumptions DEF Users
        <5>2. Users \subseteq Handles
          BY DEF Users
        <5> QED BY <3>1, <5>1, <5>2, HandleSets
      <4>2. Users' = Users \ {h} /\ Last' = Last \cup {h} /\ state'[h] # "writing"
            /\ \A g \in Handles \ {h} : state'[g] = state[g]
        BY <2>6, <3>2 DEF Check, Goes, Users, Last, TypeOK
      <4> QED
        BY <2>6, <3>1, <4>1, <4>2, UserCounts, OneUserLess DEF Check
    <3>3. CASE Count(ref) # 0
      <4>1. UNCHANGED <<Users, Last>>
        BY <2>6, <3>3 DEF Check, Goes, Users, Last, TypeOK
      <4> QED
        BY <2>6, <3>3, <4>1, SameUsers DEF Check, Goes, TypeOK, RefInv, WriterAlone
    <3> QED BY <3>2, <3>3
  <2>7. ASSUME NEW h \in Handles, Decrement(h) PROVE RefInv'
    <3>1. h \in Users /\ Users' = Users \ {h} /\ state'[h] # "writing"
          /\ (\A g \in Handles \ {h} : state'[g] = state[g])
          /\ Last' = IF ref - 1 < 0 THEN Last \cup {h} ELSE Last
      BY <2>7 DEF Decrement, Goes, Users, Last, TypeOK
    <3>2. Last = {} /\ ref = Base + Cardinality(Users) - 1 /\ Cardinality(Users) \in 1..DetachBit
      BY <3>1, UserCounts, HandleSets DEF Users
    <3>3. Cardinality(Users) = 1 <=> Users = {h}
      BY <3>1, HandleSets DEF Users
    <3>4. CASE ref - 1 < 0
      <4>1. Users = {h}
        BY <3>2, <3>3, <3>4, RefAssumptions DEF Base, refShareable
      <4> QED
        BY <2>7, <3>1, <3>2, <3>4, <4>1, OneUserLess DEF Decrement
    <3>5. CASE ~(ref - 1 < 0)
      <4>1. detach \/ Users # {h}
        BY <3>2, <3>3, <3>5 DEF Base, refShareable
      <4> QED
        BY <2>7, <3>1, <3>2, <3>5, <4>1, OneUserLess DEF Decrement
    <3> QED BY <3>4, <3>5
  <2>8. ASSUME NEW h \in Handles, Free(h) PROVE RefInv'
    <3>1. h \in Last /\ Last' = Last \ {h} /\ Users' = Users
      BY <2>8 DEF Free, Goes, Users, Last, TypeOK
    <3>2. IsFiniteSet(Last) /\ Cardinality(Last) \in Nat
      BY HandleSets DEF Last
    <3>3. Cardinality(Last') = Cardinality(Last) - 1 /\ Cardinality(Last') \in Nat
      <4>1. Cardinality(Last') = Cardinality(Last) - 1
        BY <3>1, <3>2, FS_RemoveElement
      <4> QED BY <4>1, HandleSets DEF Last
    <3>4. Users = {} /\ freed = 0 /\ freed' = 1
      BY <2>8, <3>1, <3>2, <3>3 DEF RefInv, FreedOnce, Free, TypeOK
    <3>5. FreedOnce'
      BY <3>1, <3>2, <3>3, <3>4 DEF RefInv, FreedOnce
    <3>6. WriterAlone'
      BY <2>8 DEF RefInv, WriterAlone, Users, Free, Goes, TypeOK
    <3> QED BY <3>4, <3>5, <3>6 DEF RefInv
  <2> QED
    BY <2>1, <2>2, <2>3, <2>4, <2>5, <2>6, <2>7, <2>8 DEF Next
<1> QED
  BY <1>1, <1>2, RefTypeCorrect, PTL DEF Spec

\* The block is freed once and after the last use, with or without refDetach.
THEOREM FreedOnceCorrect == Spec => []FreedOnce
<1>1. RefInv => FreedOnce
  BY DEF RefInv
<1> QED BY <1>1, RefCorrect, PTL

\* A block made with refShareable never leaks.
THEOREM NoLeakCorrect == Spec => []ShareableFreed
<1>1. TypeOK /\ RefInv => ShareableFreed
  BY DEF TypeOK, RefInv, FreedOnce, NoLeak, ShareableFreed
<1> QED BY <1>1, RefTypeCorrect, RefCorrect, PTL

\* A handle of a copy-on-write container writes a block of its own.
THEOREM WriterAloneCorrect == Spec => []WriterAlone
<1>1. RefInv => WriterAlone
  BY DEF RefInv
<1> QED BY <1>1, RefCorrect, PTL
===========================================================================
