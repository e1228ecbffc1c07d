---------------------------- MODULE TimerProofs ----------------------------
(***************************************************************************)
(* One thread at a time executes an object's run(), and id() is its id:    *)
(* for any number of objects, of callers and of threads, and for every way *)
(* the calls of a timer use the thread it is.                              *)
(***************************************************************************)
EXTENDS Timer, TLAPS

\* A bs_thread starts with nobody in a call.
LEMMA ThreadInitInv == ThreadInit => ThreadInv
<1>1. ThreadInit => ThreadTypeOK
  <2> SUFFICES ASSUME ThreadInit PROVE ThreadTypeOK
    OBVIOUS
  <2>1. /\ running \in [Objects -> BOOLEAN] /\ joinable \in [Objects -> BOOLEAN]
        /\ id \in [Objects -> Ids \cup {None}]
        /\ wait_mutex \in [Objects -> Users \cup {None}]
    BY DEF ThreadInit
  <2>2. thread_map \subseteq Ids \X Objects /\ race \in BOOLEAN
    BY DEF ThreadInit
  <2>3. /\ pc \in [Users -> UserSteps] /\ call \in [Users -> {"none", "start", "wait"}]
        /\ object \in [Users -> Objects]
    BY DEF ThreadInit, UserSteps
  <2>4. tpc \in [Ids -> ThreadSteps] /\ of \in [Ids -> Objects]
    BY DEF ThreadInit, ThreadSteps
  <2> QED BY ONLY <2>1, <2>2, <2>3, <2>4 DEF ThreadTypeOK
<1>2. ThreadInit => OneRun /\ IdOfRunner /\ StartsAlone /\ IdWritten /\ OnlyStartCreates
  BY DEF ThreadInit, OneRun, IdOfRunner, StartsAlone, IdWritten, OnlyStartCreates, Runs,
         Starting
<1>. QED BY <1>1, <1>2 DEF ThreadInv

\* Every step of a user or of a thread keeps the types and writes an id before
\* it is used.
LEMMA ThreadTypeStep ==
    ASSUME ThreadTypeOK, IdWritten, OnlyStartCreates, ThreadNext
    PROVE  ThreadTypeOK' /\ IdWritten' /\ OnlyStartCreates'
<1>. USE ThreadAssumptions DEF ThreadTypeOK, IdWritten, OnlyStartCreates, Goes, Returns, Turns, UserSteps,
         ThreadSteps, objects, users, threads, map
<1>1. ASSUME NEW u \in Users, NEW o \in Objects, Start(u, o) \/ Wait(u, o)
      PROVE  ThreadTypeOK' /\ IdWritten' /\ OnlyStartCreates'
  <2>1. CASE Start(u, o) /\ running[o]
    BY <2>1 DEF Start
  <2>2. CASE Start(u, o) /\ ~running[o]
    BY <2>2 DEF Start, Called
  <2>3. CASE Wait(u, o)
    BY <2>3 DEF Wait, Called
  <2>. QED BY <1>1, <2>1, <2>2, <2>3
<1>2. ASSUME NEW u \in Users, UserStep(u)
      PROVE  ThreadTypeOK' /\ IdWritten' /\ OnlyStartCreates'
  <2>1. CASE Lock(u)
    BY <2>1 DEF Lock
  <2>2. CASE Join(u)
    BY <2>2 DEF Join
  <2>3. CASE Unlock(u)
    BY <2>3 DEF Unlock, AfterWait
  <2>4. CASE Create(u)
    BY <2>4 DEF Create
  <2>5. CASE CreateFails(u)
    BY <2>5 DEF CreateFails
  <2>6. CASE BeginAppend(u)
    <3>1. race' \in BOOLEAN
      BY <2>6, Zenon DEF BeginAppend, Overlaps
    <3>. QED BY <2>6, <3>1 DEF BeginAppend
  <2>7. CASE Append(u)
    BY <2>7 DEF Append
  <2>8. CASE SetJoinable(u)
    BY <2>8 DEF SetJoinable
  <2>. QED BY <1>2, <2>1, <2>2, <2>3, <2>4, <2>5, <2>6, <2>7, <2>8 DEF UserStep
<1>3. ASSUME NEW i \in Ids, EndRun(i) \/ Leave(i)
      PROVE  ThreadTypeOK' /\ IdWritten' /\ OnlyStartCreates'
  <2>1. CASE BeginRemove(i)
    <3>1. race' \in BOOLEAN
      BY <2>1, Zenon DEF BeginRemove, Overlaps
    <3>. QED BY <2>1, <3>1 DEF BeginRemove
  <2>2. CASE EndRun(i) \/ Reset(i) \/ Remove(i)
    BY <2>2 DEF EndRun, Reset, Remove
  <2>. QED BY <1>3, <2>1, <2>2 DEF Leave
<1>. QED BY <1>1, <1>2, <1>3 DEF ThreadNext

\* A start() that won the test of __running keeps it until the thread it creates
\* resets it, so no second thread comes.
LEMMA ThreadInvStep ==
    ASSUME ThreadInv, ThreadNext
    PROVE  ThreadInv'
<1>1. ThreadTypeOK /\ ThreadTypeOK' /\ IdWritten' /\ OnlyStartCreates'
  BY ThreadTypeStep DEF ThreadInv
<1>. SUFFICES OneRun' /\ IdOfRunner' /\ StartsAlone'
  BY <1>1 DEF ThreadInv
<1>. USE <1>1 DEF ThreadTypeOK, ThreadInv, OneRun, IdOfRunner, StartsAlone, Runs, Starting,
         Goes, Returns, Turns, UserSteps, ThreadSteps, objects, users, threads, map
<1>2. ASSUME NEW u \in Users, NEW o \in Objects, Start(u, o) \/ Wait(u, o)
      PROVE  OneRun' /\ IdOfRunner' /\ StartsAlone'
  <2>1. CASE Start(u, o)
    <3>1. CASE running[o]
      BY <2>1, <3>1 DEF Start
    <3>2. CASE ~running[o]
      <4>1. \A i \in Ids : ~Runs(i, o)
        BY <3>2
      <4>2. \A v \in Users : ~Starting(v, o)
        BY <3>2
      <4>3. \A v \in Users, p \in Objects :
               Starting(v, p)' <=> Starting(v, p) \/ (v = u /\ p = o)
        BY <2>1, <3>2 DEF Start, Called
      <4>4. \A i \in Ids, p \in Objects : Runs(i, p)' <=> Runs(i, p)
        BY <2>1 DEF Start
      <4>5. running'[o] /\ \A p \in Objects : running[p] => running'[p]
        BY <2>1 DEF Start
      <4>6. OneRun' /\ StartsAlone'
        <5>. HIDE DEF Runs, Starting
        <5>. QED BY <4>1, <4>2, <4>3, <4>4, <4>5
      <4>7. IdOfRunner'
        BY <2>1 DEF Start
      <4>. QED BY <4>6, <4>7
    <3>. QED BY <3>1, <3>2
  <2>2. CASE Wait(u, o)
    BY <2>2 DEF Wait, Called
  <2>. QED BY <1>2, <2>1, <2>2
<1>3. ASSUME NEW u \in Users, UserStep(u)
      PROVE  OneRun' /\ IdOfRunner' /\ StartsAlone'
  <2>1. CASE Lock(u)
    BY <2>1 DEF Lock
  <2>2. CASE Join(u)
    BY <2>2 DEF Join
  <2>3. CASE Unlock(u)
    <3>1. CASE call[u] = "start" /\ Goes(u, "unlock", "create") /\ UNCHANGED call
      <4>1. \A v \in Users, p \in Objects : Starting(v, p)' <=> Starting(v, p)
        BY <2>3, <3>1 DEF Unlock
      <4>. QED BY <2>3, <4>1 DEF Unlock
    <3>2. CASE call[u] = "wait" /\ Returns(u, "unlock")
      <4>1. \A v \in Users, p \in Objects : Starting(v, p)' <=> Starting(v, p)
        BY <2>3, <3>2 DEF Unlock
      <4>. QED BY <2>3, <4>1 DEF Unlock
    <3>. QED BY <2>3, <3>1, <3>2 DEF Unlock, AfterWait
  <2>4. CASE Create(u)
    <3>1. PICK i \in Ids : /\ Goes(u, "create", "append")
                           /\ Turns(i, "none", "run")
                           /\ of' = [of EXCEPT ![i] = object[u]]
                           /\ id' = [id EXCEPT ![object[u]] = i]
                           /\ UNCHANGED <<running, joinable, wait_mutex, call, object, map>>
      BY <2>4 DEF Create
    <3>2. PICK o \in Objects : o = object[u]
      OBVIOUS
    <3>3. call[u] = "start"
      BY <3>1 DEF OnlyStartCreates
    <3>. QED
      <4>1. Starting(u, o)
        BY <3>1, <3>2, <3>3
      <4>2. running[o] /\ \A j \in Ids : ~Runs(j, o)
        BY <3>2, <4>1
      <4>3. \A v \in Users, p \in Objects : Starting(v, p)' <=> Starting(v, p) /\ v # u
        BY <3>1
      <4>4. \A j \in Ids, p \in Objects :
               Runs(j, p)' <=> Runs(j, p) \/ (j = i /\ p = o)
        BY <3>1, <3>2
      <4>5. \A v \in Users : ~Starting(v, o)'
        BY <3>2, <4>1, <4>3
      <4>6. OneRun' /\ StartsAlone'
        <5>1. UNCHANGED running
          BY <3>1
        <5>. HIDE DEF Runs, Starting
        <5>. QED BY <3>2, <4>1, <4>2, <4>3, <4>4, <4>5, <5>1
      <4>7. IdOfRunner'
        BY <3>1, <3>2, <4>2
      <4>. QED BY <4>6, <4>7
  <2>5. CASE CreateFails(u)
    BY <2>5 DEF CreateFails
  <2>6. CASE BeginAppend(u)
    BY <2>6 DEF BeginAppend
  <2>7. CASE Append(u)
    BY <2>7 DEF Append
  <2>8. CASE SetJoinable(u)
    BY <2>8 DEF SetJoinable
  <2>. QED BY <1>3, <2>1, <2>2, <2>3, <2>4, <2>5, <2>6, <2>7, <2>8 DEF UserStep
<1>4. ASSUME NEW i \in Ids, EndRun(i) \/ Leave(i)
      PROVE  OneRun' /\ IdOfRunner' /\ StartsAlone'
  <2>1. CASE EndRun(i)
    BY <2>1 DEF EndRun
  <2>2. CASE Reset(i)
    BY <2>2 DEF Reset
  <2>3. CASE BeginRemove(i) \/ Remove(i)
    BY <2>3 DEF BeginRemove, Remove
  <2>. QED BY <1>4, <2>1, <2>2, <2>3 DEF Leave
<1>. QED BY <1>2, <1>3, <1>4 DEF ThreadNext

LEMMA ThreadInvStutter == ThreadInv /\ UNCHANGED threadVars => ThreadInv'
BY DEF ThreadInv, ThreadTypeOK, OneRun, IdOfRunner, StartsAlone, IdWritten, OnlyStartCreates, Runs,
       Starting, threadVars, objects, users, threads, map

\* The calls and the loop of a timer do to its bs_thread only what it offers.
LEMMA TimerStep ==
    ASSUME ThreadTypeOK, TimerTypeOK, Next
    PROVE  TimerTypeOK' /\ (ThreadNext \/ UNCHANGED threadVars)
<1>. USE DEF TimerTypeOK, TimerSteps, States, Store, Then, Ends
<1>1. ASSUME NEW u \in Users, NEW o \in Objects,
             StartTimer(u, o) \/ StopTimer(u, o) \/ TestState(u, o)
      PROVE  TimerTypeOK' /\ UNCHANGED threadVars
  BY <1>1 DEF Enter, StartTimer, StopTimer, TestState
<1>2. ASSUME NEW u \in Users, InCall(u)
      PROVE  TimerTypeOK' /\ (ThreadNext \/ UNCHANGED threadVars)
  <2>1. CASE StoreState(u)
    BY <2>1 DEF StoreState
  <2>2. CASE StartThread(u) \/ Finish(u)
    BY <2>2 DEF StartThread, Finish, ThreadNext
  <2>3. CASE UserStep(u) /\ UNCHANGED timerVars
    BY <2>3 DEF ThreadNext, timerVars
  <2>. QED BY <1>2, <2>1, <2>2, <2>3 DEF InCall
<1>3. ASSUME NEW i \in Ids, InThread(i)
      PROVE  TimerTypeOK' /\ (ThreadNext \/ UNCHANGED threadVars)
  <2>1. CASE Look(i)
    BY <2>1 DEF Look, ThreadNext
  <2>2. CASE Callback(i)
    BY <2>2 DEF Callback, ThreadTypeOK
  <2>3. CASE Leave(i) /\ UNCHANGED timerVars
    BY <2>3 DEF ThreadNext, timerVars
  <2>. QED BY <1>3, <2>1, <2>2, <2>3 DEF InThread
<1>. QED BY <1>1, <1>2, <1>3 DEF Next

\* In every behaviour of a timer both invariants hold.
LEMMA TimerInv == Spec => [](ThreadInv /\ TimerTypeOK)
<1>1. Init => ThreadInv /\ TimerTypeOK
  BY ThreadInitInv DEF Init, TimerTypeOK, States, TimerSteps
<1>2. ThreadInv /\ TimerTypeOK /\ [Next]_vars => (ThreadInv /\ TimerTypeOK)'
  <2>. SUFFICES ASSUME ThreadInv, TimerTypeOK, [Next]_vars
                PROVE  ThreadInv' /\ TimerTypeOK'
    OBVIOUS
  <2>1. CASE Next
    BY <2>1, TimerStep, ThreadInvStep, ThreadInvStutter DEF ThreadInv
  <2>2. CASE UNCHANGED vars
    BY <2>2, ThreadInvStutter DEF vars, timerVars, TimerTypeOK
  <2>. QED BY <2>1, <2>2
<1>. QED BY <1>1, <1>2, PTL DEF Spec

\* The types of a timer's state and of the bs_thread it is.
THEOREM TimerTypeCorrect == Spec => []TypeOK
<1>1. ThreadInv /\ TimerTypeOK => TypeOK
  BY DEF ThreadInv, TypeOK
<1>. QED BY <1>1, TimerInv, PTL

\* start() of bs_thread.cpp:546: although wait() does not wait for a detached
\* thread, no two threads execute one object's run(), is_running() is true while
\* one does, and no start() is about to create another.
THEOREM TimerRunCorrect == Spec => []OneRun
<1>1. ThreadInv => OneRun
  BY DEF ThreadInv
<1>. QED BY <1>1, TimerInv, PTL

\* id() of bs_thread.cpp:646: it is the id of the thread that executes run().
THEOREM TimerIdCorrect == Spec => []IdOfRunner
<1>1. ThreadInv => IdOfRunner
  BY DEF ThreadInv
<1>. QED BY <1>1, TimerInv, PTL

\* What one step of a thread or of a call does to the threads in run().
LEMMA RunsOnly ==
    ASSUME ThreadTypeOK, ThreadNext, NEW i \in Ids, tpc[i] = "run"
    PROVE  of'[i] = of[i] /\ (tpc'[i] = "run" \/ EndRun(i))
<1>. USE DEF ThreadTypeOK, Goes, Turns, objects, users, threads, map
<1>1. CASE \E u \in Users, o \in Objects : Start(u, o) \/ Wait(u, o)
  BY <1>1 DEF Start, Wait
<1>2. CASE \E u \in Users : UserStep(u)
  BY <1>2 DEF UserStep, Lock, Join, Unlock, Create, CreateFails, BeginAppend, Append,
              SetJoinable
<1>3. CASE \E j \in Ids : EndRun(j) \/ Leave(j)
  BY <1>3 DEF EndRun, Leave, Reset, BeginRemove, Remove
<1>. QED BY <1>1, <1>2, <1>3 DEF ThreadNext

LEMMA LateStep ==
    ASSUME ThreadInv, TimerTypeOK, LateInv, Next
    PROVE  LateInv'
<1>. USE DEF LateInv, TimerTypeOK, Store
<1>1. ThreadTypeOK
  BY DEF ThreadInv
<1>2. ASSUME NEW u \in Users, NEW o \in Objects,
             StartTimer(u, o) \/ StopTimer(u, o) \/ TestState(u, o)
      PROVE  LateInv'
  BY <1>1, <1>2 DEF Enter, StartTimer, StopTimer, TestState, threadVars, threads,
                    ThreadTypeOK
<1>3. ASSUME NEW u \in Users, InCall(u)
      PROVE  LateInv'
  <2>1. CASE StoreState(u)
    BY <1>1, <2>1 DEF StoreState, threadVars, threads, ThreadTypeOK
  <2>2. CASE StartThread(u) \/ Finish(u) \/ (UserStep(u) /\ UNCHANGED timerVars)
    <3>1. ThreadNext /\ UNCHANGED <<current_state, loop, late>>
      BY <2>2 DEF StartThread, Finish, ThreadNext, timerVars
    <3>2. \A i \in Ids : ~EndRun(i)
      BY <1>1, <2>2 DEF StartThread, Finish, UserStep, Start, Wait, Lock, Join, Unlock,
         Create, CreateFails, BeginAppend, Append, SetJoinable, EndRun, Turns, Goes,
         AfterWait, Returns, threads, users, ThreadTypeOK, UserSteps, Called
    <3>3. \A i \in Ids : tpc[i] = "run" => of'[i] = of[i] /\ tpc'[i] = "run"
      BY <1>1, <3>1, <3>2, RunsOnly
    <3>. QED BY <3>1, <3>3
  <2>. QED BY <1>3, <2>1, <2>2 DEF InCall
<1>4. ASSUME NEW i \in Ids, InThread(i)
      PROVE  LateInv'
  <2>1. CASE Look(i)
    BY <1>1, <2>1 DEF Look, At, EndRun, Turns, threadVars, threads, ThreadTypeOK
  <2>2. CASE Callback(i)
    <3>1. \A j \in Ids : loop[j] = "callback" /\ of[j] = of[i] => j = i
      BY <1>1, <2>2 DEF Callback, At, ThreadInv, OneRun, Runs, ThreadTypeOK
    <3>. QED BY <1>1, <2>2, <3>1 DEF Callback, At, threadVars, threads, ThreadTypeOK
  <2>3. CASE Leave(i) /\ UNCHANGED timerVars
    BY <1>1, <2>3 DEF Leave, Reset, BeginRemove, Remove, Turns, timerVars, ThreadTypeOK
  <2>. QED BY <1>4, <2>1, <2>2, <2>3 DEF InThread
<1>. QED BY <1>2, <1>3, <1>4 DEF Next

\* stop() of bs_timer.cpp:26 does not wait for the thread, yet at most the one
\* callback already decided on comes after it.
THEOREM LateCallbacksCorrect == Spec => []LateCallbacks
<1>1. Init => LateInv
  BY DEF Init, LateInv
<1>2. ThreadInv /\ TimerTypeOK /\ LateInv /\ [Next]_vars => LateInv'
  <2>1. LateInv /\ UNCHANGED vars => LateInv'
    BY DEF LateInv, vars, timerVars, threadVars, threads
  <2>. QED BY <2>1, LateStep
<1>3. LateInv => LateCallbacks
  BY DEF LateInv, LateCallbacks
<1>. QED BY <1>1, <1>2, <1>3, TimerInv, PTL DEF Spec
=============================================================================
