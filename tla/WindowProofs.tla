---------------------------- MODULE WindowProofs ----------------------------
(***************************************************************************)
(* Theorems about RenderLoop, for every style, set of threads and bound,   *)
(* and about GraphWindow, which puts scenes into its windows, for any      *)
(* scenes, cameras, controls and calls.                                    *)
(***************************************************************************)
EXTENDS GraphWindow, SequenceTheorems, FiniteSetTheorems, TLAPS

\* Short stacks of calls.
LEMMA ShortStacks ==
    ASSUME NEW a \in Calls, NEW b \in Calls, NEW c \in Calls
    PROVE  <<>> \in Seq(Calls) /\ <<a>> \in Seq(Calls)
           /\ <<a, b>> \in Seq(Calls) /\ <<a, b, c>> \in Seq(Calls)
OBVIOUS

\* The calls a handler pushes are calls of the dispatcher.
LEMMA HandlerType == \A code : Handler(code) \in Seq(Calls)
<1> TAKE code
<1>1. /\ <<"initialize", "viewport">> \in Seq(Calls)
      /\ <<"start", "activa">> \in Seq(Calls)
      /\ <<"start">> \in Seq(Calls)
      /\ <<"stop">> \in Seq(Calls)
      /\ <<"activa">> \in Seq(Calls)
      /\ <<"initialize", "viewport", "activa">> \in Seq(Calls)
      /\ <<"update", "activa">> \in Seq(Calls)
      /\ <<>> \in Seq(Calls)
  BY ShortStacks DEF Calls
<1>2. /\ If(MultiThread, <<"start", "activa">>) \in Seq(Calls)
      /\ If(MultiThread, <<"start">>) \in Seq(Calls)
      /\ If(MultiThread, <<"stop">>) \in Seq(Calls)
  BY <1>1 DEF If
<1>3. <<"initialize", "viewport">> \o If(MultiThread, <<"start", "activa">>)
        \in Seq(Calls)
  BY <1>1, <1>2, ConcatProperties
<1>4. <<"initialize", "viewport">> \o If(MultiThread, <<"start">>) \o <<"activa">>
        \in Seq(Calls)
  BY <1>1, <1>2, ConcatProperties
<1> HIDE DEF Calls
<1> QED BY <1>1, <1>2, <1>3, <1>4 DEF Handler

\* A call that is made leaves a stack of calls.
LEMMA TailType ==
    ASSUME todo \in Seq(Calls), todo # <<>>
    PROVE  Tail(todo) \in Seq(Calls)
BY HeadTailProperties

\* Sizes only grow: a width and a height may be new, each by itself.
LEMMA GeometryGrows ==
    ASSUME geometry \in [Dims -> Nat], NewGeometry
    PROVE  /\ geometry' \in [Dims -> Nat]
           /\ \A d \in Dims : geometry[d] <= geometry'[d]
<1>1. PICK new \in SUBSET Dims :
         geometry' = [d \in Dims |-> IF d \in new THEN geometry[d] + 1 ELSE geometry[d]]
  BY DEF NewGeometry
<1> QED BY <1>1

\* A step of the assignment to the viewport: nothing, or one component.
LEMMA ViewportGrows ==
    ASSUME TypeOK, Viewport
    PROVE  \/ UNCHANGED viewport
           \/ \E d \in Dims : /\ viewport[d] # geometry[d]
                              /\ viewport' = [viewport EXCEPT ![d] = geometry[d]]
                              /\ viewport' \in [Dims -> Nat]
BY DEF TypeOK, Viewport

\* The frame after one component was read by one part.
Reads(part, d) ==
    /\ part \in Parts /\ d \in unread
    /\ frame' = [frame EXCEPT ![part][d] = viewport[d]]
    /\ frame' \in [Parts -> [Dims -> Nat]]
    /\ unread' \in SUBSET Dims

LEMMA ReadStep ==
    ASSUME TypeOK, NEW t \in Threads, NEW part \in Parts, NEW next \in Positions,
           Read(t, part, next, viewport)
    PROVE  /\ pc[t] = part
           /\ pc' \in [Threads -> Positions]
           /\ \E d \in unread :
                 /\ Reads(part, d)
                 /\ \/ unread = {d} /\ unread' = Dims /\ pc' = [pc EXCEPT ![t] = next]
                    \/ unread' = unread \ {d} /\ pc' = [pc EXCEPT ![t] = part]
<1> USE DEF TypeOK
<1>1. part \in Positions
  BY DEF Parts, Positions
<1>2. PICK d \in unread :
        /\ frame' = [frame EXCEPT ![part][d] = viewport[d]]
        /\ IF unread = {d}
           THEN Go(t, part, next) /\ unread' = Dims
           ELSE Go(t, part, part) /\ unread' = unread \ {d}
  BY DEF Read
<1>3. /\ pc[t] = part
      /\ \/ unread = {d} /\ unread' = Dims /\ pc' = [pc EXCEPT ![t] = next]
         \/ unread' = unread \ {d} /\ pc' = [pc EXCEPT ![t] = part]
  BY <1>2 DEF Go
<1>4. d \in Dims /\ frame[part] \in [Dims -> Nat] /\ viewport[d] \in Nat
  OBVIOUS
<1>5. frame' \in [Parts -> [Dims -> Nat]]
  BY <1>2, <1>4
<1>6. Reads(part, d)
  BY <1>2, <1>3, <1>5 DEF Reads
<1>7. pc' \in [Threads -> Positions]
  BY <1>1, <1>3
<1> QED BY <1>3, <1>6, <1>7

\* What the three parts of paints() do to the frame and to the thread.
LEMMA PaintStep ==
    ASSUME TypeOK, NEW t \in Threads,
           PaintViewport(t) \/ PaintCamera(t) \/ PaintScene(t)
    PROVE  \/ /\ pc[t] = "camera" /\ pc' = [pc EXCEPT ![t] = "scene"]
              /\ unread = Dims /\ UNCHANGED <<frame, unread>>
           \/ \E part \in Parts, next \in {"camera", "scene", "swap"} :
                 /\ <<part, next>> \in {<<"viewport", "camera">>, <<"camera", "scene">>,
                                        <<"scene", "swap">>}
                 /\ Read(t, part, next, viewport)
<1>1. CASE PaintViewport(t)
  BY <1>1 DEF PaintViewport, Parts
<1>2. CASE PaintCamera(t)
  BY <1>2 DEF PaintCamera, Go, Parts
<1>3. CASE PaintScene(t)
  BY <1>3 DEF PaintScene, Parts
<1> QED BY <1>1, <1>2, <1>3

LEMMA PaintType ==
    ASSUME TypeOK, NEW t \in Threads,
           PaintViewport(t) \/ PaintCamera(t) \/ PaintScene(t)
    PROVE  /\ pc' \in [Threads -> Positions]
           /\ frame' \in [Parts -> [Dims -> Nat]]
           /\ unread' \in SUBSET Dims
           /\ pc[t] \in Parts
           /\ \E to \in {"viewport", "camera", "scene", "swap"} : pc' = [pc EXCEPT ![t] = to]
<1>1. CASE /\ pc[t] = "camera" /\ pc' = [pc EXCEPT ![t] = "scene"]
           /\ unread = Dims /\ UNCHANGED <<frame, unread>>
  BY <1>1 DEF TypeOK, Positions, Parts
<1>2. ASSUME NEW part \in Parts, NEW next \in {"camera", "scene", "swap"},
             Read(t, part, next, viewport)
      PROVE  /\ pc' \in [Threads -> Positions]
             /\ frame' \in [Parts -> [Dims -> Nat]]
             /\ unread' \in SUBSET Dims
             /\ pc[t] \in Parts
             /\ \E to \in {"viewport", "camera", "scene", "swap"} : pc' = [pc EXCEPT ![t] = to]
  <2>1. next \in Positions
    BY DEF Positions
  <2>2. part \in {"viewport", "camera", "scene", "swap"}
    BY DEF Parts
  <2> QED BY <1>2, <2>1, <2>2, ReadStep DEF Reads
<1> QED BY <1>1, <1>2, PaintStep

\* What a dispatcher that paints gives the parts: all of them one viewport, but
\* for the camera, which there may not be.
PaintsAll ==
    \E given \in {Parts, Parts \ {"camera"}} :
        /\ frame' = [p \in Parts |-> IF p \in given THEN viewport ELSE frame[p]]
        /\ shown' = frame'

LEMMA PaintedHere == PaintHere => PaintsAll
BY DEF PaintHere, PaintsAll

\* A step of run() takes the thread to a position.
LEMMA GoType ==
    ASSUME TypeOK, NEW t \in Threads, NEW from, NEW to \in Positions, Go(t, from, to)
    PROVE  pc' \in [Threads -> Positions]
BY DEF Go, TypeOK

THEOREM TypeCorrect == Spec => []TypeOK
<1>1. Init => TypeOK
  <2> SUFFICES ASSUME Init PROVE TypeOK
    OBVIOUS
  <2>1. /\ is_exit \in BOOLEAN /\ is_initw \in BOOLEAN
        /\ render \in BOOLEAN /\ loop \in BOOLEAN
        /\ running \in BOOLEAN /\ is_run \in BOOLEAN
        /\ is_ctx \in BOOLEAN /\ context \in BOOLEAN /\ pipeline \in BOOLEAN
        /\ pipe \in BOOLEAN /\ fault \in BOOLEAN
    BY Zenon DEF Init
  <2>2. todo \in Seq(Calls)
    BY ShortStacks DEF Init, Calls
  <2>3. /\ geometry \in [Dims -> Nat] /\ viewport \in [Dims -> Nat]
        /\ frame \in [Parts -> [Dims -> Nat]] /\ shown \in [Parts -> [Dims -> Nat]]
    BY DEF Init
  <2> QED
    BY Assumptions, <2>1, <2>2, <2>3 DEF Init, TypeOK, Positions
<1>2. TypeOK /\ [Next]_vars => TypeOK'
  <2> SUFFICES ASSUME TypeOK, [Next]_vars PROVE TypeOK'
    OBVIOUS
  <2> USE DEF TypeOK, envVars, ctxVars, glVars, startVars, flags, sync, view,
              painted, counters
  <2>1. CASE UNCHANGED vars
    BY <2>1 DEF vars
  <2>2. CASE Expose
    BY Assumptions, HandlerType, GeometryGrows, <2>2 DEF Expose, NextEvent, Send, Idle
  <2>3. CASE ConfigureNotify
    BY Assumptions, HandlerType, GeometryGrows, <2>3 DEF ConfigureNotify, NextEvent, Send, Idle
  <2>4. CASE Input
    BY Assumptions, HandlerType, <2>4 DEF Input, NextEvent, Send, Idle
  <2>5. CASE Post
    BY ShortStacks, <2>5 DEF Post, Idle, Calls
  <2>6. CASE Emit
    BY ShortStacks, <2>6 DEF Emit, Idle, Calls
  <2>7. CASE DerivedStop
    BY ShortStacks, <2>7 DEF DerivedStop, Idle, Calls
  <2>8. CASE SendExit
    BY HandlerType, <2>8 DEF SendExit, Send
  <2>9. CASE Return
    BY <2>9 DEF Return
  <2>10. CASE Dispatcher /\ Initialize
    <3>1. /\ pipeline' \in BOOLEAN /\ is_ctx' \in BOOLEAN
          /\ context' \in BOOLEAN /\ pipe' \in BOOLEAN /\ fault' \in BOOLEAN
      <4>1. CASE is_ctx
        BY <2>10, <4>1 DEF Initialize
      <4>2. CASE ~is_ctx
        <5>1. PICK ok \in {TRUE, ~GlewFails} :
              /\ pipeline' = (pipeline \/ ok)
              /\ is_ctx' = pipeline'
              /\ context' = TRUE
              /\ IF MultiThread
                 THEN UNCHANGED <<pipe, fault>>
                 ELSE /\ pipe' = pipeline'
                      /\ fault' = (fault \/ ~pipeline')
          BY <2>10, <4>2, Zenon DEF Initialize
        <5>2. pipeline' \in BOOLEAN /\ is_ctx' \in BOOLEAN /\ context' \in BOOLEAN
          BY <5>1, Zenon
        <5>3. pipe' \in BOOLEAN /\ fault' \in BOOLEAN
          BY <5>1, <5>2, Zenon
        <5> QED BY <5>2, <5>3
      <4> QED BY <4>1, <4>2
    <3>2. todo' \in Seq(Calls)
      BY <2>10, TailType DEF Initialize, Call
    <3>3. UNCHANGED <<startVars, flags, sync, pc, viewport, frame, shown>>
          /\ UNCHANGED <<envVars, upc, current, geometry, unread, late>>
      BY <2>10 DEF Dispatcher, Initialize
    <3> QED
      BY <3>1, <3>2, <3>3
  <2>11. CASE Dispatcher /\ Viewport
    <3>1. todo' \in Seq(Calls)
      BY TailType, <2>11 DEF Viewport, Call
    <3>2. viewport' \in [Dims -> Nat]
      BY ViewportGrows, <2>11
    <3> QED
      BY <3>1, <3>2, <2>11 DEF Dispatcher, Viewport
  <2>12. CASE Dispatcher /\ RenderStart
    <3>1. is_run' \in BOOLEAN /\ running' \in BOOLEAN
      BY <2>12, Zenon DEF RenderStart
    <3>2. pc' \in [Threads -> Positions]
      BY <2>12 DEF RenderStart, PthreadCreate, Positions
    <3>3. todo' \in Seq(Calls)
      BY <2>12, TailType DEF RenderStart, Call
    <3>4. UNCHANGED <<ctxVars, flags, sync, pipe, viewport, frame, shown, fault>>
          /\ UNCHANGED <<envVars, upc, current, geometry, unread, late>>
      BY <2>12 DEF Dispatcher, RenderStart
    <3> QED
      BY <3>1, <3>2, <3>3, <3>4
  <2>13. CASE Dispatcher /\ RenderActiva
    <3> USE <2>13 DEF RenderActiva
    <3>1. Tail(todo) \in Seq(Calls) /\ <<"wake">> \in Seq(Calls) /\ <<>> \in Seq(Calls)
      BY TailType, ShortStacks DEF Call, Calls
    <3>2. todo' \in Seq(Calls)
      <4>1. \A mode : If(mode # loop \/ ~mode, <<"wake">>) \o Tail(todo) \in Seq(Calls)
        BY <3>1, ConcatProperties DEF If
      <4> QED BY <4>1, <3>1 DEF Activate, PaintHere
    <3>3. loop' \in BOOLEAN
      BY Zenon DEF Activate, PaintHere
    <3>4. fault' \in BOOLEAN
      BY Zenon DEF Activate, PaintHere
    <3>5. frame' \in [Parts -> [Dims -> Nat]] /\ shown' \in [Parts -> [Dims -> Nat]]
      <4>1. \/ UNCHANGED <<frame, shown>>
            \/ PaintsAll
        BY PaintedHere DEF Activate
      <4>2. CASE PaintsAll
        <5>1. PICK given \in {Parts, Parts \ {"camera"}} :
                 /\ frame' = [p \in Parts |-> IF p \in given THEN viewport ELSE frame[p]]
                 /\ shown' = frame'
          BY <4>2 DEF PaintsAll
        <5>2. ASSUME NEW p \in Parts
              PROVE  (IF p \in given THEN viewport ELSE frame[p]) \in [Dims -> Nat]
          <6>1. viewport \in [Dims -> Nat] /\ frame[p] \in [Dims -> Nat]
            BY <5>2
          <6> QED BY <6>1, Zenon
        <5>3. frame' \in [Parts -> [Dims -> Nat]]
          BY ONLY <5>1, <5>2
        <5> QED BY ONLY <5>1, <5>3
      <4> QED BY <4>1, <4>2
    <3>6. UNCHANGED <<ctxVars, startVars, sync, pc, render, viewport, pipe>>
          /\ UNCHANGED <<envVars, upc, current, geometry, unread, late>>
      BY DEF Dispatcher, Activate, PaintHere
    <3> QED
      BY <3>2, <3>3, <3>4, <3>5, <3>6
  <2>14. CASE Dispatcher /\ WakeOne
    BY Assumptions, TailType, <2>14 DEF Dispatcher, WakeOne, Call, Signal
  <2>15. CASE Dispatcher /\ RenderStop
    <3> USE <2>15 DEF RenderStop
    <3>1. render' \in BOOLEAN /\ loop' \in BOOLEAN
      BY Zenon
    <3>2. Tail(todo) \in Seq(Calls)
      BY TailType DEF Call
    <3>3. <<"lock", "wake", "unlock", "wait">> \in Seq(Calls)
          /\ <<"stop_locked", "unlock", "lock", "wake", "unlock", "wait">> \in Seq(Calls)
      BY DEF Calls
    <3>4. todo' \in Seq(Calls)
      <4>1. /\ <<"lock", "wake", "unlock", "wait">> \o Tail(todo) \in Seq(Calls)
            /\ <<"stop_locked", "unlock", "lock", "wake", "unlock", "wait">>
                 \o Tail(todo) \in Seq(Calls)
        BY <3>2, <3>3, ConcatProperties
      <4> QED BY <3>2, <4>1, Zenon
    <3>5. UNCHANGED <<ctxVars, startVars, sync, pc, pipe, viewport, frame, shown, fault>>
          /\ UNCHANGED <<envVars, upc, current, geometry, unread, late>>
      BY DEF Dispatcher
    <3> QED
      BY <3>1, <3>4, <3>5
  <2>16. CASE Dispatcher /\ ClearLocked
    <3>1. render' \in BOOLEAN /\ loop' \in BOOLEAN
      BY <2>16, Zenon DEF ClearLocked
    <3> QED
      BY Assumptions, TailType, <2>16, <3>1 DEF Dispatcher, ClearLocked, Call
  <2>17. CASE Dispatcher /\ LockDisp
    BY Assumptions, TailType, <2>17 DEF Dispatcher, LockDisp, Call
  <2>18. CASE Dispatcher /\ UnlockDisp
    BY Assumptions, TailType, <2>18 DEF Dispatcher, UnlockDisp, Call
  <2>19. CASE Dispatcher /\ Wait
    <3>1. is_run' \in BOOLEAN
      BY <2>19, Zenon DEF Wait
    <3> QED
      BY Assumptions, TailType, <2>19, <3>1 DEF Dispatcher, Wait, Call
  <2>20. ASSUME NEW u \in Updaters, UpdateElsewhere(u) PROVE TypeOK'
    <3>1. loop' \in BOOLEAN
      BY <2>20, Zenon DEF UpdateElsewhere
    <3> QED
      BY <2>20, <3>1 DEF UpdateElsewhere
  <2>21. ASSUME NEW u \in Updaters, WakeElsewhere(u) PROVE TypeOK'
    BY <2>21 DEF WakeElsewhere, Signal
  <2>22. ASSUME NEW t \in Threads, MakeCurrent(t), UNCHANGED threadRest PROVE TypeOK'
    <3>1. pc' \in [Threads -> Positions]
      BY <2>22, GoType DEF MakeCurrent, Positions
    <3>2. fault' \in BOOLEAN
      BY <2>22, Zenon DEF MakeCurrent
    <3> QED
      BY <2>22, <3>1, <3>2 DEF threadRest, MakeCurrent
  <2>23. ASSUME NEW t \in Threads, Initializes(t), UNCHANGED threadRest PROVE TypeOK'
    BY <2>23 DEF threadRest, Initializes, Go, Positions
  <2>24. ASSUME NEW t \in Threads, DoneCurrent(t), UNCHANGED threadRest PROVE TypeOK'
    BY <2>24 DEF threadRest, DoneCurrent, Go, Positions
  <2>25. ASSUME NEW t \in Threads, TestRender(t), UNCHANGED threadRest PROVE TypeOK'
    BY <2>25 DEF threadRest, TestRender, Go, Positions
  <2>26. ASSUME NEW t \in Threads, Lock(t), UNCHANGED threadRest PROVE TypeOK'
    <3>1. pc' \in [Threads -> Positions]
      BY <2>26, GoType DEF Lock, Positions
    <3> QED
      BY <2>26, <3>1 DEF threadRest, Lock
  <2>27. ASSUME NEW t \in Threads, PaintViewport(t), UNCHANGED threadRest PROVE TypeOK'
    <3>1. fault' \in BOOLEAN
      BY <2>27, Zenon DEF PaintViewport
    <3> QED
      BY <2>27, <3>1, PaintType DEF threadRest, PaintViewport
  <2>28. ASSUME NEW t \in Threads, PaintCamera(t) \/ PaintScene(t), UNCHANGED threadRest
         PROVE  TypeOK'
    BY <2>28, PaintType DEF threadRest, PaintCamera, PaintScene
  <2>29. ASSUME NEW t \in Threads, Swap(t), UNCHANGED threadRest PROVE TypeOK'
    BY <2>29 DEF threadRest, Swap, Go, Positions
  <2>30. ASSUME NEW t \in Threads, Unlock(t), UNCHANGED threadRest PROVE TypeOK'
    <3>1. pc' \in [Threads -> Positions]
      BY <2>30, GoType DEF Unlock, Positions
    <3> QED
      BY <2>30, <3>1 DEF threadRest, Unlock
  <2>31. ASSUME NEW t \in Threads, TestLoop(t), UNCHANGED threadRest PROVE TypeOK'
    BY <2>31 DEF threadRest, TestLoop, Go, Positions
  <2>32. ASSUME NEW t \in Threads, CondWait(t), UNCHANGED threadRest PROVE TypeOK'
    BY <2>32 DEF threadRest, CondWait, Go, Positions
  <2>33. ASSUME NEW t \in Threads, CondWoken(t), UNCHANGED threadRest PROVE TypeOK'
    BY <2>33 DEF threadRest, CondWoken, Go, Positions
  <2>34. ASSUME NEW t \in Threads, End(t), UNCHANGED threadRest PROVE TypeOK'
    <3>1. running' \in BOOLEAN
      BY <2>34, Zenon DEF End
    <3> QED
      BY <2>34, <3>1 DEF threadRest, End, Go, Positions
  <2>35. ASSUME NEW t \in Threads, WakeAlone(t), UNCHANGED threadRest PROVE TypeOK'
    BY <2>35 DEF threadRest, WakeAlone, Go, Positions
  <2> QED
    BY <2>1, <2>2, <2>3, <2>4, <2>5, <2>6, <2>7, <2>8, <2>9, <2>10, <2>11, <2>12, <2>13, <2>14, <2>15, <2>16, <2>17, <2>18, <2>19, <2>20, <2>21, <2>22, <2>23, <2>24, <2>25, <2>26, <2>27, <2>28, <2>29, <2>30, <2>31, <2>32, <2>33, <2>34, <2>35
       DEF Next, Environment, Leave, Dispatcher, Run, Step, Spurious
<1> QED
  BY <1>1, <1>2, PTL DEF Spec
---------------------------------------------------------------------------
\* What each step may do to the threads' positions.
LEMMA PositionSteps ==
    ASSUME TypeOK, [Next]_vars
    PROVE  \/ UNCHANGED <<pc, running>>
           \/ RenderStart
           \/ \E t \in Threads : Step(t)
<1> USE DEF envVars, ctxVars, glVars, startVars, flags, sync, view, painted,
            counters
<1>1. CASE UNCHANGED vars
  BY <1>1 DEF vars
<1>2. CASE Environment \/ Leave
  BY <1>2 DEF Environment, Leave, Expose, ConfigureNotify, Input, Post, Emit,
     DerivedStop, SendExit, Return, NextEvent
<1>3. CASE Dispatcher
  BY <1>3 DEF Dispatcher, Initialize, Viewport, RenderActiva, WakeOne,
     RenderStop, ClearLocked, LockDisp, UnlockDisp, Wait, Activate, PaintHere
<1>4. ASSUME NEW u \in Updaters, UpdateElsewhere(u) \/ WakeElsewhere(u)
      PROVE  UNCHANGED <<pc, running>>
  BY <1>4 DEF UpdateElsewhere, WakeElsewhere
<1>5. ASSUME NEW t \in Threads, Run(t) \/ Spurious(t)
      PROVE  UNCHANGED <<pc, running>> \/ Step(t)
  BY <1>5 DEF Run, Spurious, WakeAlone
<1> QED BY <1>1, <1>2, <1>3, <1>4, <1>5 DEF Next

\* A step of run() moves one thread that executes run().
LEMMA StepMoves ==
    ASSUME TypeOK, NEW t \in Threads, Step(t)
    PROVE  /\ Active(t)
           /\ \E to \in Positions \ {"unborn"} : pc' = [pc EXCEPT ![t] = to]
           /\ \/ UNCHANGED running /\ pc[t] # "end" /\ pc'[t] # "dead"
              \/ pc[t] = "end" /\ pc'[t] = "dead"
<1> USE DEF TypeOK, Go, Active, Positions, glVars, sync, painted
<1>1. CASE End(t)
  BY <1>1 DEF End
<1>2. CASE MakeCurrent(t) \/ Initializes(t) \/ DoneCurrent(t) \/ TestRender(t)
  BY <1>2 DEF MakeCurrent, Initializes, DoneCurrent, TestRender
<1>3. CASE Lock(t) \/ Unlock(t) \/ TestLoop(t) \/ CondWait(t) \/ CondWoken(t)
  BY <1>3 DEF Lock, Unlock, TestLoop, CondWait, CondWoken
<1>4. CASE PaintViewport(t) \/ PaintCamera(t) \/ PaintScene(t)
  <2>1. PICK to \in {"viewport", "camera", "scene", "swap"} : pc' = [pc EXCEPT ![t] = to]
    BY <1>4, PaintType
  <2>2. pc[t] \in {"viewport", "camera", "scene"} /\ UNCHANGED running
    BY <1>4, PaintType DEF PaintViewport, PaintCamera, PaintScene, Parts
  <2> QED BY <2>1, <2>2
<1>5. CASE Swap(t)
  BY <1>5 DEF Swap
<1> QED BY <1>1, <1>2, <1>3, <1>4, <1>5 DEF Step

THEOREM RunCorrect == Spec => []RunInv
<1>1. Init => RunInv
  BY DEF Init, RunInv, OneRun, Active
<1>2. TypeOK /\ RunInv /\ [Next]_vars => RunInv'
  <2> SUFFICES ASSUME TypeOK, RunInv, [Next]_vars PROVE RunInv'
    OBVIOUS
  <2> USE DEF RunInv, OneRun, Active
  <2>1. CASE UNCHANGED <<pc, running>>
    BY <2>1
  <2>2. CASE RenderStart
    BY <2>2 DEF RenderStart, PthreadCreate, TypeOK
  <2>3. ASSUME NEW t \in Threads, Step(t) PROVE RunInv'
    <3>1. PICK to \in Positions \ {"unborn"} : pc' = [pc EXCEPT ![t] = to]
      BY <2>3, StepMoves
    <3>2. Active(t) /\ (UNCHANGED running \/ to = "dead")
      BY <2>3, <3>1, StepMoves DEF TypeOK
    <3>3. \A s \in Threads \ {t} : pc[s] \in {"unborn", "dead"} /\ pc'[s] = pc[s]
      BY <3>1, <3>2 DEF TypeOK
    <3> QED BY <3>1, <3>2, <3>3 DEF TypeOK
  <2> QED BY <2>1, <2>2, <2>3, PositionSteps
<1> QED
  BY <1>1, <1>2, TypeCorrect, PTL DEF Spec
---------------------------------------------------------------------------
(* The mutex.  The dispatcher's side first: what render_stop's stacks are. *)

LEMMA HoldingMoves ==
    ASSUME todo \in HoldingStacks
    PROVE  /\ todo # <<>>
           /\ Head(todo) \in {"unlock", "wake"}
           /\ Head(todo) = "wake" => Tail(todo) = <<"unlock", "wait">>
           /\ Head(todo) = "unlock" => Tail(todo) \in StoppingStacks
<1>1. CASE todo = <<"unlock", "lock", "wake", "unlock", "wait">>
  <2>1. Tail(todo) = <<"lock", "wake", "unlock", "wait">>
    BY <1>1
  <2> QED BY <1>1, <2>1 DEF StoppingStacks
<1>2. CASE todo = <<"wake", "unlock", "wait">>
  <2>1. Tail(todo) = <<"unlock", "wait">>
    BY <1>2
  <2> QED BY <1>2, <2>1
<1>3. CASE todo = <<"unlock", "wait">>
  <2>1. Tail(todo) = <<"wait">>
    BY <1>3
  <2> QED BY <1>3, <2>1 DEF StoppingStacks
<1> QED BY <1>1, <1>2, <1>3 DEF HoldingStacks

LEMMA StoppingMoves ==
    ASSUME todo \in StoppingStacks
    PROVE  /\ todo # <<>>
           /\ Head(todo) \in {"stop", "stop_locked", "lock", "wait"}
           /\ Head(todo) \in {"stop", "wait"} => Tail(todo) = <<>>
           /\ Head(todo) \in {"stop_locked", "lock"} => Tail(todo) \in HoldingStacks
<1>1. CASE todo = <<"stop">> \/ todo = <<"wait">>
  <2>1. /\ <<"stop">> \in Seq(Calls) /\ Len(<<"stop">>) = 1
        /\ <<"wait">> \in Seq(Calls) /\ Len(<<"wait">>) = 1
    BY DEF Calls
  <2>2. Tail(todo) = <<>>
    <3>1. todo \in Seq(Calls) /\ Len(todo) = 1 /\ todo # <<>>
      BY <1>1, <2>1, EmptySeq
    <3>2. Tail(todo) \in Seq(Calls) /\ Len(Tail(todo)) = 0
      BY <3>1, HeadTailProperties
    <3> QED BY <3>2, EmptySeq
  <2> QED BY <1>1, <2>2
<1>2. CASE todo = <<"stop_locked", "unlock", "lock", "wake", "unlock", "wait">>
  <2>1. Tail(todo) = <<"unlock", "lock", "wake", "unlock", "wait">>
    BY <1>2
  <2> QED BY <1>2, <2>1 DEF HoldingStacks
<1>3. CASE todo = <<"lock", "wake", "unlock", "wait">>
  <2>1. Tail(todo) = <<"wake", "unlock", "wait">>
    BY <1>3
  <2> QED BY <1>3, <2>1 DEF HoldingStacks
<1> QED BY <1>1, <1>2, <1>3 DEF StoppingStacks

LEMMA QuietMoves ==
    ASSUME todo \in Seq(Quiet), todo # <<>>
    PROVE  Head(todo) \in Quiet /\ Tail(todo) \in Seq(Quiet)
BY HeadTailProperties

\* A handler of the dispatcher's loop stops the thread or leaves it alone.
LEMMA HandlerStacks ==
    \A code : Handler(code) \in StoppingStacks \cup Seq(Quiet)
<1> TAKE code
<1>1. /\ <<"initialize", "viewport">> \in Seq(Quiet)
      /\ <<"start", "activa">> \in Seq(Quiet)
      /\ <<"start">> \in Seq(Quiet)
      /\ <<"activa">> \in Seq(Quiet)
      /\ <<"initialize", "viewport", "activa">> \in Seq(Quiet)
      /\ <<"update", "activa">> \in Seq(Quiet)
      /\ <<>> \in Seq(Quiet)
  BY DEF Quiet
<1>2. /\ If(MultiThread, <<"start", "activa">>) \in Seq(Quiet)
      /\ If(MultiThread, <<"start">>) \in Seq(Quiet)
      /\ If(MultiThread, <<"stop">>) \in StoppingStacks \cup Seq(Quiet)
  BY <1>1 DEF If, StoppingStacks
<1>3. <<"initialize", "viewport">> \o If(MultiThread, <<"start", "activa">>)
        \in Seq(Quiet)
  BY <1>1, <1>2, ConcatProperties
<1>4. <<"initialize", "viewport">> \o If(MultiThread, <<"start">>) \o <<"activa">>
        \in Seq(Quiet)
  BY <1>1, <1>2, ConcatProperties
<1> QED BY <1>1, <1>2, <1>3, <1>4 DEF Handler

\* What a step may do to the stack and the mutex.
StackStep ==
    \/ UNCHANGED <<todo, mutex>>
    \/ /\ todo = <<>> /\ UNCHANGED mutex
       /\ todo' \in StoppingStacks \cup Seq(Quiet)
    \/ /\ todo # <<>> /\ Head(todo) \in Quiet /\ UNCHANGED mutex
       /\ \/ todo' = Tail(todo)
          \/ Head(todo) # "wake" /\ todo' = <<"wake">> \o Tail(todo)
    \/ /\ todo # <<>> /\ Head(todo) \in {"stop", "wait"} /\ UNCHANGED mutex
       /\ \/ todo' = Tail(todo)
          \/ \E s \in StoppingStacks :
                Head(todo) = "stop" /\ todo' = s \o Tail(todo)
    \/ /\ todo # <<>> /\ Head(todo) \in {"stop_locked", "lock"}
       /\ todo' = Tail(todo) /\ mutex = None /\ mutex' = Disp
    \/ /\ todo # <<>> /\ Head(todo) = "unlock"
       /\ todo' = Tail(todo) /\ mutex' = None
    \/ /\ UNCHANGED todo
       /\ \E t \in Threads :
             \/ mutex = None /\ mutex' = t
             \/ pc[t] \in Locked /\ mutex' = None

LEMMA StackSteps ==
    ASSUME TypeOK, [Next]_vars
    PROVE  StackStep
<1> USE DEF envVars, ctxVars, glVars, startVars, flags, sync, view, painted,
            counters
<1>1. CASE UNCHANGED vars
  BY <1>1 DEF vars, StackStep
<1>2. CASE Environment \/ Leave
  <2>1. /\ <<"update">> \in Seq(Quiet)
        /\ <<"stop">> \in StoppingStacks
    BY DEF Quiet, StoppingStacks
  <2> QED
    BY <1>2, <2>1, HandlerStacks DEF Environment, Leave, Expose, ConfigureNotify,
       Input, Post, Emit, DerivedStop, SendExit, Return, NextEvent, Idle, Send, StackStep
<1>3. CASE Initialize \/ Viewport \/ RenderStart \/ WakeOne
  BY <1>3 DEF Initialize, Viewport, RenderStart, WakeOne, Call, Quiet, StackStep
<1>4. CASE RenderActiva
  <2>1. <<>> \o Tail(todo) = Tail(todo)
    BY <1>4, TailType, ConcatEmptySeq DEF RenderActiva, Call, TypeOK
  <2> QED
    BY <1>4, <2>1 DEF RenderActiva, Activate, PaintHere, If, Call, Quiet, StackStep
<1>5. CASE RenderStop \/ Wait
  BY <1>5 DEF RenderStop, Wait, Call, StoppingStacks, StackStep
<1>6. CASE ClearLocked \/ LockDisp \/ UnlockDisp
  BY <1>6 DEF ClearLocked, LockDisp, UnlockDisp, Call, StackStep
<1>7. ASSUME NEW u \in Updaters, UpdateElsewhere(u) \/ WakeElsewhere(u)
      PROVE  StackStep
  BY <1>7 DEF StackStep, UpdateElsewhere, WakeElsewhere
<1>8. ASSUME NEW t \in Threads, Run(t) \/ Spurious(t)
      PROVE  StackStep
  <2>1. UNCHANGED todo
    BY <1>8 DEF Run, Spurious, threadRest
  <2>2. CASE Lock(t) \/ CondWoken(t)
    BY <2>1, <2>2 DEF StackStep, Lock, CondWoken
  <2>3. CASE Unlock(t) \/ CondWait(t)
    BY <2>1, <2>3 DEF StackStep, Unlock, CondWait, Go, Locked
  <2>4. CASE ~(Lock(t) \/ CondWoken(t) \/ Unlock(t) \/ CondWait(t))
    <3>1. UNCHANGED mutex
      BY <1>8, <2>4 DEF Run, Spurious, Step, MakeCurrent, Initializes, DoneCurrent,
         TestRender, PaintViewport, PaintCamera, PaintScene, Swap, TestLoop, End, WakeAlone
    <3> QED BY <2>1, <3>1 DEF StackStep
  <2> QED BY <2>2, <2>3, <2>4
<1> QED BY <1>1, <1>2, <1>3, <1>4, <1>5, <1>6, <1>7, <1>8 DEF Next, Dispatcher

\* What a step may do to the positions, the mutex and the two sets of threads.
LockStep ==
    \/ /\ UNCHANGED <<mutex, current>>
       /\ waiting' \subseteq waiting
       /\ \A t \in Threads :
             \/ pc'[t] = pc[t]
             \/ pc[t] = "unborn" /\ pc'[t] = "make0"
    \/ /\ mutex = None /\ mutex' = Disp
       /\ UNCHANGED <<pc, current, waiting>>
    \/ /\ todo # <<>> /\ Head(todo) = "unlock" /\ mutex' = None
       /\ UNCHANGED <<pc, current, waiting>>
    \/ \E t \in Threads : Step(t)

LEMMA LockSteps ==
    ASSUME TypeOK, [Next]_vars
    PROVE  LockStep
<1> USE DEF envVars, ctxVars, glVars, startVars, flags, sync, view, painted,
            counters
<1>1. CASE UNCHANGED vars
  BY <1>1 DEF vars, LockStep
<1>2. CASE Environment \/ Leave
  BY <1>2 DEF LockStep, Environment, Leave, Expose, ConfigureNotify, Input, Post,
     Emit, DerivedStop, SendExit, Return, NextEvent
<1>3. CASE Dispatcher /\ (Initialize \/ Viewport \/ RenderActiva \/ RenderStop \/ Wait)
  BY <1>3 DEF LockStep, Dispatcher, Initialize, Viewport, RenderActiva, Activate,
     PaintHere, RenderStop, Wait
<1>4. CASE Dispatcher /\ RenderStart
  BY <1>4 DEF LockStep, Dispatcher, RenderStart, PthreadCreate, TypeOK
<1>5. CASE Dispatcher /\ WakeOne
  BY <1>5 DEF LockStep, Dispatcher, WakeOne, Signal
<1>6. CASE Dispatcher /\ (ClearLocked \/ LockDisp \/ UnlockDisp)
  BY <1>6 DEF LockStep, Dispatcher, ClearLocked, LockDisp, UnlockDisp, Call
<1>7. ASSUME NEW u \in Updaters, UpdateElsewhere(u) \/ WakeElsewhere(u)
      PROVE  LockStep
  BY <1>7 DEF LockStep, UpdateElsewhere, WakeElsewhere, Signal
<1>8. ASSUME NEW t \in Threads, Run(t) \/ Spurious(t)
      PROVE  LockStep
  BY <1>8 DEF LockStep, Run, Spurious, WakeAlone
<1> QED BY <1>1, <1>2, <1>3, <1>4, <1>5, <1>6, <1>7, <1>8 DEF Next, Dispatcher

MutexInv == StackInv /\ LockInv

LEMMA StackPreserved ==
    ASSUME TypeOK, MutexInv, [Next]_vars
    PROVE  StackInv'
<1> USE DEF MutexInv
<1>1. <<>> \in Seq(Quiet) /\ <<"unlock", "wait">> \in HoldingStacks
      /\ Disp \notin Threads /\ Disp # None
  BY Assumptions DEF HoldingStacks
<1>2. \/ todo \in HoldingStacks /\ mutex = Disp
      \/ todo \in StoppingStacks /\ mutex # Disp
      \/ todo \in Seq(Quiet) /\ mutex # Disp
  BY DEF StackInv
<1>3. CASE UNCHANGED <<todo, mutex>>
  BY <1>3 DEF StackInv
<1>4. CASE todo = <<>> /\ UNCHANGED mutex /\ todo' \in StoppingStacks \cup Seq(Quiet)
  BY <1>2, <1>4, HoldingMoves DEF StackInv
<1>5. CASE /\ todo # <<>> /\ Head(todo) \in Quiet /\ UNCHANGED mutex
           /\ \/ todo' = Tail(todo)
              \/ Head(todo) # "wake" /\ todo' = <<"wake">> \o Tail(todo)
  <2>1. CASE todo \in HoldingStacks /\ mutex = Disp
    BY <1>1, <1>5, <2>1, HoldingMoves DEF StackInv, Quiet
  <2>2. CASE todo \in StoppingStacks
    BY <1>5, <2>2, StoppingMoves DEF Quiet
  <2>3. CASE todo \in Seq(Quiet) /\ mutex # Disp
    <3>1. <<"wake">> \in Seq(Quiet)
      BY DEF Quiet
    <3>2. todo' \in Seq(Quiet)
      BY <1>5, <2>3, <3>1, QuietMoves, ConcatProperties
    <3> QED BY <1>5, <2>3, <3>2 DEF StackInv
  <2> QED BY <1>2, <2>1, <2>2, <2>3
<1>6. CASE /\ todo # <<>> /\ Head(todo) \in {"stop", "wait"} /\ UNCHANGED mutex
           /\ \/ todo' = Tail(todo)
              \/ \E s \in StoppingStacks :
                    Head(todo) = "stop" /\ todo' = s \o Tail(todo)
  <2>1. todo \in StoppingStacks /\ mutex # Disp
    BY <1>2, <1>6, HoldingMoves, QuietMoves DEF Quiet
  <2>2. Tail(todo) = <<>>
    BY <1>6, <2>1, StoppingMoves
  <2>3. \A s \in StoppingStacks : s \o <<>> = s
    <3>1. StoppingStacks \subseteq Seq(Calls)
      BY DEF StoppingStacks, Calls
    <3> QED BY <3>1, ConcatEmptySeq
  <2> QED BY <1>1, <1>6, <2>1, <2>2, <2>3 DEF StackInv
<1>7. CASE /\ todo # <<>> /\ Head(todo) \in {"stop_locked", "lock"}
           /\ todo' = Tail(todo) /\ mutex = None /\ mutex' = Disp
  <2>1. todo \in StoppingStacks
    BY <1>1, <1>2, <1>7, HoldingMoves, QuietMoves DEF Quiet
  <2> QED BY <1>7, <2>1, StoppingMoves DEF StackInv
<1>8. CASE todo # <<>> /\ Head(todo) = "unlock" /\ todo' = Tail(todo) /\ mutex' = None
  <2>1. todo \in HoldingStacks
    BY <1>2, <1>8, StoppingMoves, QuietMoves DEF Quiet
  <2> QED BY <1>1, <1>8, <2>1, HoldingMoves DEF StackInv
<1>9. CASE /\ UNCHANGED todo
           /\ \E t \in Threads :
                 \/ mutex = None /\ mutex' = t
                 \/ pc[t] \in Locked /\ mutex' = None
  BY <1>1, <1>2, <1>9 DEF StackInv, LockInv
<1> QED
  BY <1>3, <1>4, <1>5, <1>6, <1>7, <1>8, <1>9, StackSteps DEF StackStep

\* Where a step of run() may leave its own thread: between lock() and unlock()
\* with the mutex, out of it without, in current and waiting as its position says.
LEMMA StepKeepsLocks ==
    ASSUME TypeOK, LockInv, NEW t \in Threads, Step(t)
    PROVE  /\ \/ mutex' = t /\ mutex \in {t, None}
              \/ pc'[t] \notin Locked /\ mutex' = None /\ mutex = t
              \/ pc'[t] \notin Locked /\ mutex' = mutex
           /\ current' \subseteq current \cup {t}
           /\ t \in current' => pc'[t] \in Bound
           /\ waiting' \subseteq waiting \cup {t}
           /\ t \in waiting' => pc'[t] = "asleep"
<1> USE DEF TypeOK, LockInv, Locked, Bound, Go, sync, painted, glVars
<1>1. CASE MakeCurrent(t) \/ Initializes(t) \/ DoneCurrent(t) \/ TestRender(t)
  BY <1>1 DEF MakeCurrent, Initializes, DoneCurrent, TestRender
<1>2. CASE Lock(t)
  BY <1>2 DEF Lock
<1>3. CASE Unlock(t)
  BY <1>3 DEF Unlock
<1>4. CASE CondWait(t) \/ CondWoken(t)
  BY <1>4 DEF CondWait, CondWoken
<1>5. CASE PaintViewport(t) \/ PaintCamera(t) \/ PaintScene(t)
  <2>1. pc[t] \in {"viewport", "camera", "scene"} /\ UNCHANGED <<mutex, waiting, current>>
    BY <1>5, PaintType DEF PaintViewport, PaintCamera, PaintScene, Parts
  <2>2. pc'[t] \in {"viewport", "camera", "scene", "swap"}
    BY <1>5, PaintType
  <2> QED BY <2>1, <2>2
<1>6. CASE TestLoop(t) \/ End(t) \/ Swap(t)
  BY <1>6 DEF TestLoop, End, Swap
<1> QED BY <1>1, <1>2, <1>3, <1>4, <1>5, <1>6 DEF Step

LEMMA LockPreserved ==
    ASSUME TypeOK, MutexInv, [Next]_vars
    PROVE  LockInv'
<1> USE DEF LockInv
<1>1. LockInv /\ None \notin Threads \cup {Disp} /\ Disp \notin Threads
  BY Assumptions DEF MutexInv
<1>2. CASE /\ UNCHANGED <<mutex, current>>
           /\ waiting' \subseteq waiting
           /\ \A t \in Threads :
                 \/ pc'[t] = pc[t]
                 \/ pc[t] = "unborn" /\ pc'[t] = "make0"
  <2>1. \A t \in Threads : pc'[t] \in Locked => mutex' = t
    BY <1>1, <1>2 DEF Locked
  <2>2. \A t \in current' : pc'[t] \in Bound
    BY <1>1, <1>2 DEF Bound, TypeOK
  <2>3. \A t \in waiting' : pc'[t] = "asleep"
    BY <1>1, <1>2 DEF TypeOK
  <2> QED BY <2>1, <2>2, <2>3
<1>3. CASE mutex = None /\ mutex' = Disp /\ UNCHANGED <<pc, current, waiting>>
  BY <1>1, <1>3
<1>4. CASE /\ todo # <<>> /\ Head(todo) = "unlock" /\ mutex' = None
           /\ UNCHANGED <<pc, current, waiting>>
  <2>1. todo \notin StoppingStacks \cup Seq(Quiet)
    BY <1>4, StoppingMoves, QuietMoves DEF Quiet
  <2>2. mutex = Disp
    BY <2>1 DEF MutexInv, StackInv
  <2> QED BY <1>1, <1>4, <2>2
<1>5. ASSUME NEW t \in Threads, Step(t) PROVE LockInv'
  <2>1. \A s \in Threads \ {t} : pc'[s] = pc[s]
    BY <1>5, StepMoves DEF TypeOK
  <2>2. ASSUME NEW s \in Threads, pc'[s] \in Locked PROVE mutex' = s
    BY <1>1, <1>5, <2>1, <2>2, StepKeepsLocks
  <2>3. ASSUME NEW s \in current'
        PROVE pc'[s] \in Bound
    BY <1>1, <1>5, <2>1, <2>3, StepKeepsLocks DEF TypeOK
  <2>4. ASSUME NEW s \in waiting' PROVE pc'[s] = "asleep"
    BY <1>1, <1>5, <2>1, <2>4, StepKeepsLocks DEF TypeOK
  <2> QED BY <2>2, <2>3, <2>4
<1> QED BY <1>2, <1>3, <1>4, <1>5, LockSteps DEF LockStep

\* The mutex and the context are held as the code brackets them.
THEOREM MutexCorrect == Spec => []MutexInv
<1>1. Init => MutexInv
  <2>1. <<>> \in Seq(Quiet) /\ None # Disp
    BY Assumptions
  <2> QED
    BY <2>1 DEF Init, MutexInv, StackInv, LockInv, Locked
<1>2. TypeOK /\ MutexInv /\ [Next]_vars => MutexInv'
  BY StackPreserved, LockPreserved DEF MutexInv
<1> QED
  BY <1>1, <1>2, TypeCorrect, PTL DEF Spec

\* No two threads paint at a time, whatever the dispatcher and the updaters do.
THEOREM ContextIsExclusive == Spec => []ContextExclusive
<1>1. TypeOK /\ RunInv /\ MutexInv => ContextExclusive
  <2> SUFFICES ASSUME TypeOK, RunInv, MutexInv PROVE ContextExclusive
    OBVIOUS
  <2>1. \A t \in current : t \in Threads /\ Active(t)
    BY DEF TypeOK, MutexInv, LockInv, Bound, Active
  <2>2. \A s, t \in current : s = t
    BY <2>1 DEF RunInv, OneRun
  <2> QED BY <2>2 DEF MutexInv, LockInv, ContextExclusive
<1> QED
  BY <1>1, TypeCorrect, RunCorrect, MutexCorrect, PTL
---------------------------------------------------------------------------
(* Frames: at most one after _render is cleared, and never an older one.   *)

\* What a step may do to the frames and to what a frame is made of.
FrameStep ==
    \/ /\ UNCHANGED <<painted, view>>
       /\ render' => render
       /\ \A t \in Threads : pc'[t] = pc[t] \/ pc'[t] = "make0"
    \/ /\ UNCHANGED <<painted, render, pc, viewport>>
       /\ NewGeometry
    \/ /\ UNCHANGED <<painted, render, pc, geometry>>
       /\ Viewport
    \/ /\ UNCHANGED <<late, unread, render, pc, view>>
       /\ PaintsAll
    \/ \E t \in Threads : Step(t) /\ UNCHANGED <<render, view>>

LEMMA FrameSteps ==
    ASSUME TypeOK, [Next]_vars
    PROVE  FrameStep
<1> USE DEF FrameStep, envVars, ctxVars, glVars, startVars, flags, sync, view,
            painted, counters
<1>1. CASE UNCHANGED vars
  BY <1>1 DEF vars
<1>2. CASE Leave \/ Post \/ Emit \/ DerivedStop
  BY <1>2 DEF Leave, Post, Emit, DerivedStop, SendExit, Return
<1>3. CASE Expose \/ ConfigureNotify \/ Input
  BY <1>3 DEF Expose, ConfigureNotify, Input, NextEvent
<1>4. CASE Dispatcher /\ (Initialize \/ WakeOne \/ LockDisp \/ UnlockDisp \/ Wait)
  BY <1>4 DEF Dispatcher, Initialize, WakeOne, LockDisp, UnlockDisp, Wait
<1>5. CASE Dispatcher /\ Viewport
  BY <1>5 DEF Dispatcher, Viewport
<1>6. CASE Dispatcher /\ RenderStart
  BY <1>6 DEF Dispatcher, RenderStart, PthreadCreate, TypeOK
<1>7. CASE Dispatcher /\ RenderActiva
  <2>1. UNCHANGED <<late, unread, render, pc, view>>
    BY <1>7 DEF Dispatcher, RenderActiva
  <2>2. UNCHANGED <<frame, shown>> \/ PaintsAll
    BY <1>7, PaintedHere DEF RenderActiva, Activate
  <2> QED BY <2>1, <2>2
<1>8. CASE Dispatcher /\ (RenderStop \/ ClearLocked)
  BY <1>8 DEF Dispatcher, RenderStop, ClearLocked
<1>9. ASSUME NEW u \in Updaters, UpdateElsewhere(u) \/ WakeElsewhere(u)
      PROVE  FrameStep
  BY <1>9 DEF UpdateElsewhere, WakeElsewhere
<1>10. ASSUME NEW t \in Threads, Run(t) \/ Spurious(t)
       PROVE  FrameStep
  BY <1>10 DEF Run, Spurious, WakeAlone, threadRest
<1> QED
  BY <1>1, <1>2, <1>3, <1>4, <1>5, <1>6, <1>7, <1>8, <1>9, <1>10
     DEF Next, Environment, Dispatcher

\* Only the swap counts a late frame, and only the test of _render leads to it.
LEMMA StepLate ==
    ASSUME TypeOK, NEW t \in Threads, Step(t)
    PROVE  \/ /\ pc[t] = "swap" /\ pc'[t] = "unlock"
              /\ late' = IF render THEN late ELSE late + 1
           \/ /\ UNCHANGED late
              /\ pc'[t] \in Begun => pc[t] \in Begun \/ render
<1> USE DEF TypeOK, Begun, Go, sync, painted, glVars
<1>1. CASE MakeCurrent(t) \/ Initializes(t) \/ DoneCurrent(t) \/ TestRender(t)
  BY <1>1 DEF MakeCurrent, Initializes, DoneCurrent, TestRender
<1>2. CASE Lock(t) \/ Unlock(t) \/ TestLoop(t) \/ CondWait(t) \/ CondWoken(t)
  BY <1>2 DEF Lock, Unlock, TestLoop, CondWait, CondWoken
<1>3. CASE PaintViewport(t) \/ PaintCamera(t) \/ PaintScene(t)
  <2>1. pc[t] \in {"viewport", "camera", "scene"} /\ UNCHANGED late
    BY <1>3, PaintType DEF PaintViewport, PaintCamera, PaintScene, Parts
  <2> QED BY <2>1
<1>4. CASE Swap(t) \/ End(t)
  BY <1>4 DEF Swap, End
<1> QED BY <1>1, <1>2, <1>3, <1>4 DEF Step

\* At most one frame is shown after the thread is told to stop.
THEOREM LateCorrect == Spec => [](LateInv /\ LateFrames)
<1>1. Init => LateInv
  BY DEF Init, LateInv, Begun
<1>2. TypeOK /\ RunInv /\ LateInv /\ [Next]_vars => LateInv'
  <2> SUFFICES ASSUME TypeOK, RunInv, LateInv, [Next]_vars PROVE LateInv'
    OBVIOUS
  <2>1. CASE FrameStep /\ UNCHANGED <<late, pc>> /\ (render' => render)
    BY <2>1 DEF LateInv
  <2>2. CASE /\ UNCHANGED late
             /\ render' => render
             /\ \A t \in Threads : pc'[t] = pc[t] \/ pc'[t] = "make0"
    BY <2>2 DEF LateInv, Begun
  <2>3. ASSUME NEW t \in Threads, Step(t), UNCHANGED render PROVE LateInv'
    <3>1. \A s \in Threads \ {t} : pc'[s] = pc[s] /\ ~Active(s)
      BY <2>3, StepMoves DEF TypeOK, RunInv, OneRun
    <3> QED
      BY <2>3, <3>1, StepLate DEF LateInv, Begun, Active
  <2> QED
    BY <2>1, <2>2, <2>3, FrameSteps DEF FrameStep, painted
<1>3. LateInv => LateFrames
  BY DEF LateInv, LateFrames
<1> QED
  BY <1>1, <1>2, <1>3, TypeCorrect, RunCorrect, PTL DEF Spec

\* What run() does to a frame: nothing, one component of one part, or the swap.
\* A thread is at the scenes' part with something read, or at the swap, only
\* behind what the pipeline read.
LEMMA StepFrames ==
    ASSUME TypeOK, NEW t \in Threads, Step(t)
    PROVE  \/ /\ UNCHANGED <<frame, shown>> /\ pc'[t] # "swap"
              /\ pc'[t] = "scene" => unread' = Dims
           \/ /\ UNCHANGED shown
              /\ \E part \in Parts, d \in unread :
                    /\ Reads(part, d) /\ pc[t] = part
                    /\ \/ pc'[t] \in {"viewport", "camera"}
                       \/ pc'[t] = "scene" /\ part = "camera" /\ unread' = Dims
                       \/ pc'[t] = "scene" /\ part = "scene" /\ unread' = unread \ {d}
                       \/ pc'[t] = "swap" /\ part = "scene" /\ unread = {d}
           \/ /\ UNCHANGED frame /\ shown' = frame
              /\ pc[t] = "swap" /\ pc'[t] = "unlock"
<1> USE DEF TypeOK
<1>1. CASE MakeCurrent(t) \/ Initializes(t) \/ DoneCurrent(t) \/ TestRender(t)
  BY <1>1 DEF MakeCurrent, Initializes, DoneCurrent, TestRender, Go, painted
<1>2. CASE Lock(t) \/ Unlock(t) \/ TestLoop(t) \/ CondWait(t) \/ CondWoken(t)
  BY <1>2 DEF Lock, Unlock, TestLoop, CondWait, CondWoken, Go, painted
<1>3. CASE PaintViewport(t) \/ PaintCamera(t) \/ PaintScene(t)
  <2>1. UNCHANGED shown
    BY <1>3 DEF PaintViewport, PaintCamera, PaintScene
  <2>2. CASE /\ pc[t] = "camera" /\ pc' = [pc EXCEPT ![t] = "scene"]
             /\ unread = Dims /\ UNCHANGED <<frame, unread>>
    BY <2>1, <2>2
  <2>3. ASSUME NEW part \in Parts, NEW next \in {"camera", "scene", "swap"},
               <<part, next>> \in {<<"viewport", "camera">>, <<"camera", "scene">>,
                                  <<"scene", "swap">>},
               Read(t, part, next, viewport)
        PROVE  \E d \in unread :
                 /\ Reads(part, d) /\ pc[t] = part
                 /\ \/ pc'[t] \in {"viewport", "camera"} /\ part # "scene"
                    \/ pc'[t] = "scene" /\ part = "camera" /\ unread' = Dims
                    \/ pc'[t] = "scene" /\ part = "scene" /\ unread' = unread \ {d}
                    \/ pc'[t] = "swap" /\ part = "scene" /\ unread = {d}
    <3>1. next \in Positions
      BY DEF Positions
    <3>2. PICK d \in unread :
             /\ Reads(part, d) /\ pc[t] = part
             /\ \/ unread = {d} /\ unread' = Dims /\ pc' = [pc EXCEPT ![t] = next]
                \/ unread' = unread \ {d} /\ pc' = [pc EXCEPT ![t] = part]
      BY <2>3, <3>1, ReadStep
    <3>3. \/ part = "viewport" /\ next = "camera"
          \/ part = "camera" /\ next = "scene"
          \/ part = "scene" /\ next = "swap"
      BY <2>3
    <3> QED BY <3>2, <3>3
  <2>4. CASE \E part \in Parts, next \in {"camera", "scene", "swap"} :
               /\ <<part, next>> \in {<<"viewport", "camera">>, <<"camera", "scene">>,
                                      <<"scene", "swap">>}
               /\ Read(t, part, next, viewport)
    <3>1. PICK part \in Parts, next \in {"camera", "scene", "swap"} :
               /\ <<part, next>> \in {<<"viewport", "camera">>, <<"camera", "scene">>,
                                      <<"scene", "swap">>}
               /\ Read(t, part, next, viewport)
      BY <2>4
    <3>2. PICK d \in unread :
             /\ Reads(part, d) /\ pc[t] = part
             /\ \/ pc'[t] \in {"viewport", "camera"} /\ part # "scene"
                \/ pc'[t] = "scene" /\ part = "camera" /\ unread' = Dims
                \/ pc'[t] = "scene" /\ part = "scene" /\ unread' = unread \ {d}
                \/ pc'[t] = "swap" /\ part = "scene" /\ unread = {d}
      BY <2>3, <3>1
    <3> QED BY <2>1, <3>2, Zenon
  <2> QED BY <1>3, <2>2, <2>4, PaintStep
<1>4. CASE Swap(t)
  BY <1>4 DEF Swap, Go
<1>5. CASE End(t)
  BY <1>5 DEF End, Go, painted
<1> QED BY <1>1, <1>2, <1>3, <1>4, <1>5 DEF Step

\* One component more in a frame keeps it between the screen and the viewport.
LEMMA ReadsBetween ==
    ASSUME TypeOK, Between, NEW part \in Parts, NEW d \in unread, Reads(part, d),
           UNCHANGED <<shown, view>>
    PROVE  Between'
<1>1. /\ viewport \in [Dims -> Nat] /\ frame \in [Parts -> [Dims -> Nat]]
      /\ shown \in [Parts -> [Dims -> Nat]] /\ d \in Dims
  BY DEF TypeOK
<1>2. \A p \in Parts, e \in Dims :
         frame'[p][e] = IF p = part /\ e = d THEN viewport[d] ELSE frame[p][e]
  BY <1>1 DEF Reads
<1>3. \A p \in Parts, e \in Dims :
         /\ shown[p][e] \in Nat /\ frame[p][e] \in Nat /\ viewport[e] \in Nat
         /\ shown[p][e] <= frame[p][e] /\ frame[p][e] <= viewport[e]
  BY <1>1 DEF Between
<1>4. \A p \in Parts, e \in Dims :
         shown[p][e] <= frame'[p][e] /\ frame'[p][e] <= viewport[e]
  BY <1>2, <1>3
<1> QED BY <1>4 DEF Between, view

\* And the scenes behind the pipeline.
LEMMA ReadsInOrder ==
    ASSUME TypeOK, Between, InOrder, NEW t \in Threads, NEW part \in Parts,
           NEW d \in unread, Reads(part, d), pc[t] = part,
           \A s \in Threads \ {t} : pc'[s] \notin {"scene", "swap"},
           \/ pc'[t] \in {"viewport", "camera"}
           \/ pc'[t] = "scene" /\ part = "camera" /\ unread' = Dims
           \/ pc'[t] = "scene" /\ part = "scene" /\ unread' = unread \ {d}
           \/ pc'[t] = "swap" /\ part = "scene" /\ unread = {d}
    PROVE  InOrder'
<1>1. /\ viewport \in [Dims -> Nat] /\ frame \in [Parts -> [Dims -> Nat]] /\ d \in Dims
      /\ "viewport" \in Parts /\ "scene" \in Parts
  BY DEF TypeOK, Parts
<1>2. \A p \in Parts, e \in Dims :
         frame'[p][e] = IF p = part /\ e = d THEN viewport[d] ELSE frame[p][e]
  BY <1>1 DEF Reads
<1>3. SUFFICES ASSUME NEW e \in Dims,
                      pc'[t] = "swap" \/ (pc'[t] = "scene" /\ e \notin unread')
               PROVE  frame'["viewport"][e] <= frame'["scene"][e]
  BY DEF InOrder
<1>4. part = "scene" /\ (e = d \/ e \notin unread)
  BY <1>3
<1>5. frame'["viewport"][e] = frame["viewport"][e]
  BY <1>1, <1>2, <1>4
<1>6. CASE e = d
  <2>1. frame'["scene"][e] = viewport[e]
    BY <1>1, <1>2, <1>4, <1>6
  <2> QED BY <1>1, <1>5, <2>1 DEF Between
<1>7. CASE e # d
  <2>1. frame'["scene"][e] = frame["scene"][e]
    BY <1>1, <1>2, <1>7
  <2>2. frame["viewport"][e] <= frame["scene"][e]
    BY <1>4, <1>7 DEF InOrder
  <2> QED BY <1>5, <2>1, <2>2
<1> QED BY <1>6, <1>7

\* A frame painted by the dispatcher itself.
LEMMA PaintsBetween ==
    ASSUME TypeOK, Between, PaintsAll
    PROVE  /\ \A p \in Parts, d \in Dims :
                 frame[p][d] <= frame'[p][d] /\ frame'[p][d] <= viewport[d]
           /\ frame'["viewport"] = viewport /\ frame'["scene"] = viewport
           /\ frame' \in [Parts -> [Dims -> Nat]] /\ shown' = frame'
<1>1. PICK given \in {Parts, Parts \ {"camera"}} :
        /\ frame' = [p \in Parts |-> IF p \in given THEN viewport ELSE frame[p]]
        /\ shown' = frame'
  BY DEF PaintsAll
<1>2. /\ viewport \in [Dims -> Nat] /\ frame \in [Parts -> [Dims -> Nat]]
      /\ \A p \in Parts, d \in Dims : frame[p][d] <= viewport[d]
  BY DEF TypeOK, Between
<1>3. \A p \in Parts : frame'[p] = viewport \/ frame'[p] = frame[p]
  BY <1>1
<1>4. ASSUME NEW p \in Parts, NEW d \in Dims
      PROVE  frame[p][d] <= frame'[p][d] /\ frame'[p][d] <= viewport[d]
  <2>1. viewport[d] \in Nat /\ frame[p][d] \in Nat /\ frame[p][d] <= viewport[d]
    BY <1>2
  <2> QED BY <1>3, <2>1
<1>5. frame'["viewport"] = viewport /\ frame'["scene"] = viewport
  BY <1>1 DEF Parts
<1>6. frame' \in [Parts -> [Dims -> Nat]]
  BY <1>1, <1>2
<1> QED BY <1>1, <1>4, <1>5, <1>6

THEOREM FrameCorrect == Spec => []FrameInv
<1>1. Init => FrameInv
  BY DEF Init, FrameInv, Between, InOrder
<1>2. TypeOK /\ RunInv /\ FrameInv /\ [Next]_vars => FrameInv'
  <2> SUFFICES ASSUME TypeOK, RunInv, FrameInv, [Next]_vars PROVE FrameInv'
    OBVIOUS
  <2> USE DEF FrameInv
  <2>1. CASE /\ UNCHANGED <<painted, view>>
             /\ \A t \in Threads : pc'[t] = pc[t] \/ pc'[t] = "make0"
    BY <2>1 DEF Between, InOrder, painted, view
  <2>2. CASE UNCHANGED <<painted, pc, viewport>> /\ NewGeometry
    <3>1. \A d \in Dims : viewport[d] <= geometry'[d]
      BY <2>2, GeometryGrows DEF Between, TypeOK
    <3> QED BY <2>2, <3>1 DEF Between, InOrder, painted
  <2>3. CASE UNCHANGED <<painted, pc, geometry>> /\ Viewport
    <3>1. CASE UNCHANGED viewport
      BY <2>3, <3>1 DEF Between, InOrder, painted
    <3>2. ASSUME NEW d \in Dims, viewport' = [viewport EXCEPT ![d] = geometry[d]]
          PROVE  FrameInv'
      <4>1. /\ viewport \in [Dims -> Nat] /\ geometry \in [Dims -> Nat]
            /\ \A p \in Parts, e \in Dims : frame[p][e] \in Nat
        BY DEF TypeOK
      <4>2. \A e \in Dims : viewport[e] <= viewport'[e] /\ viewport'[e] <= geometry[e]
        BY <3>2, <4>1 DEF Between
      <4>3. \A e \in Dims : viewport'[e] \in Nat
        BY <3>2, <4>1
      <4>4. \A p \in Parts, e \in Dims : frame[p][e] <= viewport'[e]
        BY <4>1, <4>2, <4>3 DEF Between
      <4> QED BY <2>3, <4>2, <4>4 DEF Between, InOrder, painted
    <3> QED BY <2>3, <3>1, <3>2, ViewportGrows
  <2>4. CASE UNCHANGED <<unread, pc, view>> /\ PaintsAll
    <3>1. \A p \in Parts, d \in Dims :
             frame'[p][d] \in Nat /\ viewport[d] \in Nat
             /\ shown'[p][d] = frame'[p][d] /\ frame'[p][d] <= viewport[d]
      BY <2>4, PaintsBetween DEF TypeOK
    <3>2. \A d \in Dims : frame'["viewport"][d] = frame'["scene"][d]
                        /\ frame'["viewport"][d] \in Nat
      BY <2>4, <3>1, PaintsBetween DEF Parts
    <3>3. Between'
      BY <2>4, <3>1 DEF Between, view
    <3> QED BY <3>2, <3>3 DEF InOrder
  <2>5. ASSUME NEW t \in Threads, Step(t), UNCHANGED view PROVE FrameInv'
    <3>1. \A s \in Threads \ {t} : pc'[s] = pc[s] /\ ~Active(s)
      BY <2>5, StepMoves DEF RunInv, OneRun, TypeOK
    <3>2. \A s \in Threads \ {t} : pc'[s] \notin {"scene", "swap"}
      BY <3>1 DEF Active
    <3>3. CASE /\ UNCHANGED <<frame, shown>> /\ pc'[t] # "swap"
               /\ pc'[t] = "scene" => unread' = Dims
      BY <2>5, <3>2, <3>3 DEF Between, InOrder, view
    <3>4. CASE UNCHANGED frame /\ shown' = frame /\ pc[t] = "swap" /\ pc'[t] = "unlock"
      <4>1. \A p \in Parts, d \in Dims : frame[p][d] \in Nat
        BY DEF TypeOK
      <4> QED BY <2>5, <3>2, <3>4, <4>1 DEF Between, InOrder, view
    <3>5. ASSUME NEW part \in Parts, NEW d \in unread, UNCHANGED shown, Reads(part, d),
                 pc[t] = part,
                 \/ pc'[t] \in {"viewport", "camera"}
                 \/ pc'[t] = "scene" /\ part = "camera" /\ unread' = Dims
                 \/ pc'[t] = "scene" /\ part = "scene" /\ unread' = unread \ {d}
                 \/ pc'[t] = "swap" /\ part = "scene" /\ unread = {d}
          PROVE  FrameInv'
      BY <2>5, <3>2, <3>5, ReadsBetween, ReadsInOrder
    <3> QED BY <2>5, <3>3, <3>4, <3>5, StepFrames
  <2> QED
    BY <2>1, <2>2, <2>3, <2>4, <2>5, FrameSteps DEF FrameStep
<1> QED
  BY <1>1, <1>2, TypeCorrect, RunCorrect, PTL DEF Spec

\* The window implements the frame service.
THEOREM ServiceImplemented == Spec => FrameServiceSpec
<1>1. Init => Service!Init
  BY DEF Init, Service!Init
<1>2. TypeOK /\ FrameInv /\ [Next]_vars
        => [Service!Next]_<<viewport, shown, ~render>>
  <2> SUFFICES ASSUME TypeOK, FrameInv, [Next]_vars
               PROVE  Service!Next \/ UNCHANGED <<viewport, shown, render>>
    OBVIOUS
  <2> USE DEF FrameInv, Service!Next
  <2>1. CASE UNCHANGED <<painted, view>> /\ (render' => render)
    BY <2>1 DEF Service!Stop, TypeOK, painted, view
  <2>2. CASE UNCHANGED <<painted, render, viewport>>
    BY <2>2 DEF painted
  <2>3. CASE UNCHANGED <<painted, render>> /\ Viewport
    <3>1. ASSUME NEW d \in Dims, viewport[d] # geometry[d],
                 viewport' = [viewport EXCEPT ![d] = geometry[d]]
          PROVE  Service!Ask
      <4>1. /\ viewport \in [Dims -> Nat] /\ geometry \in [Dims -> Nat]
            /\ viewport[d] <= geometry[d]
        BY DEF TypeOK, Between
      <4>2. viewport'[d] = geometry[d] /\ viewport'[d] > viewport[d]
        BY <3>1, <4>1
      <4>3. viewport' = [viewport EXCEPT ![d] = viewport'[d]]
        BY <3>1, <4>2
      <4> QED BY <2>3, <4>2, <4>3 DEF Service!Ask, painted
    <3> QED BY <2>3, <3>1, ViewportGrows DEF painted
  <2>4. CASE UNCHANGED <<render, view>> /\ PaintsAll
    <3>1. \A p \in Parts, d \in Dims :
             /\ shown[p][d] \in Nat /\ frame[p][d] \in Nat /\ frame'[p][d] \in Nat
             /\ shown[p][d] <= frame[p][d] /\ frame[p][d] <= frame'[p][d]
             /\ shown'[p][d] = frame'[p][d] /\ frame'[p][d] <= viewport[d]
      BY <2>4, PaintsBetween DEF TypeOK, Between
    <3>2. \A p \in Parts, d \in Dims :
             shown[p][d] <= shown'[p][d] /\ shown'[p][d] <= viewport[d]
      BY <3>1
    <3>3. \A d \in Dims : shown'["viewport"][d] <= shown'["scene"][d]
      BY <2>4, <3>1, PaintsBetween DEF Parts
    <3>4. shown' \in [Parts -> [Dims -> Nat]]
      BY <2>4, PaintsBetween
    <3> QED BY <2>4, <3>2, <3>3, <3>4 DEF Service!Show, view
  <2>5. ASSUME NEW t \in Threads, Step(t), UNCHANGED <<render, view>>
        PROVE  Service!Next \/ UNCHANGED <<viewport, shown, render>>
    <3>1. CASE UNCHANGED shown
      BY <2>5, <3>1 DEF view
    <3>2. CASE shown' = frame /\ pc[t] = "swap"
      <4>1. \A p \in Parts, d \in Dims :
               shown[p][d] <= frame[p][d] /\ frame[p][d] <= viewport[d]
        BY DEF Between
      <4>2. \A d \in Dims : frame["viewport"][d] <= frame["scene"][d]
        BY <2>5, <3>2 DEF InOrder
      <4> QED BY <2>5, <3>2, <4>1, <4>2 DEF Service!Show, TypeOK, view
    <3> QED BY <2>5, <3>1, <3>2, StepFrames
  <2> QED
    BY <2>1, <2>2, <2>3, <2>4, <2>5, FrameSteps DEF FrameStep
<1> QED
  BY <1>1, <1>2, TypeCorrect, FrameCorrect, PTL
     DEF Spec, FrameServiceSpec, Service!Spec
---------------------------------------------------------------------------
(* Null pointers.                                                          *)

\* What a step may do to the pointers and to what their use depends on.
SafeStep ==
    \/ /\ UNCHANGED <<context, pipeline, pipe, fault>>
       /\ is_ctx' => is_ctx
       /\ \A t \in Threads : pc'[t] = pc[t] \/ pc'[t] = "make0"
    \/ Initialize /\ UNCHANGED pc
    \/ PaintHere /\ UNCHANGED <<pc, ctxVars>>
    \/ \E t \in Threads : Step(t) /\ UNCHANGED ctxVars

LEMMA SafeSteps ==
    ASSUME TypeOK, [Next]_vars
    PROVE  SafeStep
<1> USE DEF SafeStep, envVars, ctxVars, glVars, startVars, flags, sync, view,
            painted, counters
<1>1. CASE UNCHANGED vars
  BY <1>1 DEF vars
<1>2. CASE Post \/ Emit \/ DerivedStop \/ Return
  BY <1>2 DEF Post, Emit, DerivedStop, Return
<1>3. CASE Expose \/ ConfigureNotify \/ Input \/ SendExit
  <2>1. UNCHANGED <<context, pipeline, pipe, fault, pc>>
    BY <1>3 DEF Expose, ConfigureNotify, Input, SendExit, NextEvent, Send
  <2>2. is_ctx' => is_ctx
    BY <1>3, Zenon DEF Expose, ConfigureNotify, Input, SendExit, Send
  <2> QED BY <2>1, <2>2
<1>4. CASE Dispatcher /\ (Viewport \/ WakeOne \/ LockDisp \/ UnlockDisp \/ Wait)
  BY <1>4 DEF Dispatcher, Viewport, WakeOne, LockDisp, UnlockDisp, Wait
<1>5. CASE Initialize
  BY <1>5 DEF Initialize
<1>6. CASE Dispatcher /\ RenderStart
  BY <1>6 DEF Dispatcher, RenderStart, PthreadCreate, TypeOK
<1>7. CASE Dispatcher /\ RenderActiva
  BY <1>7 DEF Dispatcher, RenderActiva, Activate
<1>8. CASE Dispatcher /\ (RenderStop \/ ClearLocked)
  BY <1>8 DEF Dispatcher, RenderStop, ClearLocked
<1>9. ASSUME NEW u \in Updaters, UpdateElsewhere(u) \/ WakeElsewhere(u)
      PROVE  SafeStep
  BY <1>9 DEF UpdateElsewhere, WakeElsewhere
<1>10. ASSUME NEW t \in Threads, Run(t) \/ Spurious(t)
       PROVE  SafeStep
  BY <1>10 DEF Run, Spurious, WakeAlone, threadRest
<1> QED
  BY <1>1, <1>2, <1>3, <1>4, <1>5, <1>6, <1>7, <1>8, <1>9, <1>10
     DEF Next, Environment, Leave, Dispatcher

\* What run() needs of the pointers, and what it does to pipe.
LEMMA StepPointers ==
    ASSUME TypeOK, SafeInv, NEW t \in Threads, Step(t), UNCHANGED ctxVars, ~fault
    PROVE  /\ is_ctx => ~fault'
           /\ pipe => pipe'
           /\ pipe' => pipeline
           /\ Active(t)' /\ pc'[t] # "make0" /\ ~fault' => context
           /\ Active(t)' /\ pc'[t] \notin {"make0", "initializes"} /\ ~fault' => pipe'
<1> USE DEF TypeOK, SafeInv, Active, Go, sync, painted, glVars
<1>1. CASE MakeCurrent(t)
  <2>1. (~fault' => context) /\ (is_ctx => ~fault')
    BY <1>1, Zenon DEF MakeCurrent
  <2>2. UNCHANGED pipe /\ (pc'[t] = "initializes" \/ pc[t] = "make")
    BY <1>1 DEF MakeCurrent
  <2> QED BY <2>1, <2>2
<1>2. CASE Initializes(t)
  BY <1>2 DEF Initializes
<1>3. CASE DoneCurrent(t) \/ TestRender(t) \/ Lock(t) \/ Unlock(t)
  <2>1. /\ pc[t] \in {"done0", "test", "lock", "lockw", "unlock", "unlockw"}
        /\ UNCHANGED <<pipe, fault>>
    BY <1>3 DEF DoneCurrent, TestRender, Lock, Unlock
  <2> QED BY <2>1
<1>4. CASE TestLoop(t) \/ CondWait(t) \/ CondWoken(t) \/ End(t)
  <2>1. /\ pc[t] \in {"loop", "wait", "asleep", "end"}
        /\ UNCHANGED <<pipe, fault>>
    BY <1>4 DEF TestLoop, CondWait, CondWoken, End
  <2> QED BY <2>1
<1>5. CASE PaintViewport(t)
  <2>1. pc[t] = "viewport" /\ UNCHANGED pipe /\ fault' = (fault \/ ~context \/ ~pipe)
    BY <1>5 DEF PaintViewport, Read
  <2> QED BY <2>1
<1>6. CASE PaintCamera(t) \/ PaintScene(t)
  <2>1. pc[t] \in {"camera", "scene"} /\ UNCHANGED <<pipe, fault>>
    BY <1>6 DEF PaintCamera, PaintScene, Read
  <2> QED BY <2>1
<1>7. CASE Swap(t)
  BY <1>7 DEF Swap
<1> QED BY <1>1, <1>2, <1>3, <1>4, <1>5, <1>6, <1>7 DEF Step

\* Once the context is initialized, nothing null is used, in any thread.
THEOREM SafeCorrect == Spec => [](SafeInv /\ InitializedIsSafe)
<1>1. Init => SafeInv
  BY DEF Init, SafeInv, Active
<1>2. TypeOK /\ RunInv /\ SafeInv /\ [Next]_vars => SafeInv'
  <2> SUFFICES ASSUME TypeOK, RunInv, SafeInv, [Next]_vars PROVE SafeInv'
    OBVIOUS
  <2>1. CASE UNCHANGED vars
    BY <2>1 DEF vars, SafeInv, Active, glVars, ctxVars
  <2>2. CASE /\ UNCHANGED <<context, pipeline, pipe, fault>>
             /\ is_ctx' => is_ctx
             /\ \A t \in Threads : pc'[t] = pc[t] \/ pc'[t] = "make0"
    BY <2>2 DEF SafeInv, Active
  <2>3. CASE Initialize /\ UNCHANGED pc /\ ~fault
    <3>1. /\ is_ctx' => context' /\ pipeline' /\ (~MultiThread => pipe') /\ ~fault'
          /\ pipe' => pipeline'
          /\ (context => context') /\ (pipe => pipe')
      BY <2>3, Zenon DEF Initialize, SafeInv, ctxVars
    <3> QED BY <2>3, <3>1 DEF SafeInv, Active
  <2>4. CASE PaintHere /\ UNCHANGED <<pc, ctxVars>> /\ ~fault
    <3>1. /\ is_ctx => ~fault'
          /\ UNCHANGED <<is_ctx, context, pipeline, pipe>>
      BY <2>4, Zenon DEF PaintHere, SafeInv, ctxVars
    <3> QED BY <2>4, <3>1 DEF SafeInv, Active
  <2>5. ASSUME NEW t \in Threads, Step(t), UNCHANGED ctxVars, ~fault PROVE SafeInv'
    <3>1. \A s \in Threads \ {t} : ~Active(s)'
      BY <2>5, StepMoves DEF TypeOK, RunInv, OneRun, Active
    <3> QED
      BY <2>5, <3>1, StepPointers DEF SafeInv, ctxVars
  <2> QED
    BY <2>1, <2>2, <2>3, <2>4, <2>5, SafeSteps DEF SafeStep, Next
<1>3. SafeInv => InitializedIsSafe
  BY DEF SafeInv, InitializedIsSafe
<1> QED
  BY <1>1, <1>2, <1>3, TypeCorrect, RunCorrect, PTL DEF Spec

\* Calls without "start", or that begin with what begins, begin with initialize().
LEMMA BeginsConcat ==
    ASSUME NEW a \in Seq(Calls), NEW b \in Seq(Calls), Begins(a), Begins(b)
    PROVE  Begins(a \o b)
<1> SUFFICES ASSUME NEW k \in DOMAIN (a \o b), (a \o b)[k] = "start"
             PROVE  \E j \in 1 .. k - 1 : (a \o b)[j] = "initialize"
  BY DEF Begins
<1>1. /\ Len(a) \in Nat /\ Len(b) \in Nat
      /\ DOMAIN a = 1 .. Len(a) /\ DOMAIN b = 1 .. Len(b)
      /\ k \in 1 .. Len(a) + Len(b)
      /\ \A i \in 1 .. Len(a) + Len(b) :
            (a \o b)[i] = IF i <= Len(a) THEN a[i] ELSE b[i - Len(a)]
  BY ConcatProperties, LenProperties
<1>2. CASE k <= Len(a)
  <2>1. PICK j \in 1 .. k - 1 : a[j] = "initialize"
    BY <1>1, <1>2 DEF Begins
  <2> QED BY <1>1, <1>2, <2>1
<1>3. CASE k > Len(a)
  <2>1. PICK j \in 1 .. (k - Len(a)) - 1 : b[j] = "initialize"
    BY <1>1, <1>3 DEF Begins
  <2>2. j + Len(a) \in 1 .. k - 1 /\ (a \o b)[j + Len(a)] = "initialize"
    BY <1>1, <1>3, <2>1
  <2> QED BY <2>2
<1> QED BY <1>1, <1>2, <1>3

LEMMA BeginsTail ==
    ASSUME NEW s \in Seq(Calls), s # <<>>, Begins(s), Head(s) # "initialize"
    PROVE  Begins(Tail(s)) /\ Head(s) # "start"
<1>1. /\ Len(s) \in Nat /\ Len(s) > 0 /\ DOMAIN s = 1 .. Len(s) /\ Head(s) = s[1]
      /\ DOMAIN Tail(s) = 1 .. Len(s) - 1
      /\ \A i \in 1 .. Len(s) - 1 : Tail(s)[i] = s[i + 1]
  BY EmptySeq, HeadTailProperties, LenProperties
<1>2. Head(s) # "start"
  BY <1>1 DEF Begins
<1>3. ASSUME NEW k \in DOMAIN Tail(s), Tail(s)[k] = "start"
      PROVE  \E j \in 1 .. k - 1 : Tail(s)[j] = "initialize"
  <2>1. PICK j \in 1 .. (k + 1) - 1 : s[j] = "initialize"
    BY <1>1, <1>3 DEF Begins
  <2>2. j - 1 \in 1 .. k - 1 /\ Tail(s)[j - 1] = "initialize"
    BY <1>1, <1>3, <2>1
  <2> QED BY <2>2
<1> QED BY <1>2, <1>3 DEF Begins

\* After initialize() anything may follow.
LEMMA InitializeFirst ==
    ASSUME NEW a \in Seq(Calls), NEW b \in Seq(Calls), a # <<>>, a[1] = "initialize"
    PROVE  Begins(a \o b)
<1>1. /\ Len(a) \in Nat /\ Len(a) > 0 /\ Len(b) \in Nat
      /\ DOMAIN (a \o b) = 1 .. Len(a) + Len(b)
      /\ (a \o b)[1] = "initialize"
  BY ConcatProperties, LenProperties, EmptySeq
<1>2. ASSUME NEW k \in DOMAIN (a \o b), (a \o b)[k] = "start"
      PROVE  \E j \in 1 .. k - 1 : (a \o b)[j] = "initialize"
  BY <1>1, <1>2
<1> QED BY <1>2 DEF Begins

\* Every handler makes initialize() its first call, or does not start.
LEMMA HandlerBegins == \A code : Begins(Handler(code))
<1> TAKE code
<1>1. /\ <<>> \in Seq(Calls) /\ <<"initialize", "viewport">> \in Seq(Calls)
      /\ <<"start", "activa">> \in Seq(Calls) /\ <<"activa">> \in Seq(Calls)
      /\ <<"start">> \in Seq(Calls)
  BY ShortStacks DEF Calls
<1>2. /\ Begins(<<>>) /\ Begins(<<"stop">>) /\ Begins(<<"update", "activa">>)
      /\ Begins(<<"activa">>) /\ Begins(<<"initialize", "viewport", "activa">>)
  BY DEF Begins
<1>3. /\ If(MultiThread, <<"start", "activa">>) \in Seq(Calls)
      /\ If(MultiThread, <<"start">>) \in Seq(Calls)
  BY <1>1 DEF If
<1>4. <<"initialize", "viewport">> # <<>> /\ <<"initialize", "viewport">>[1] = "initialize"
  OBVIOUS
<1>5. Begins(<<"initialize", "viewport">> \o If(MultiThread, <<"start", "activa">>))
  BY <1>1, <1>3, <1>4, InitializeFirst
<1>6. Begins(<<"initialize", "viewport">> \o If(MultiThread, <<"start">>) \o <<"activa">>)
  <2>1. /\ <<"initialize", "viewport">> \o If(MultiThread, <<"start">>) \in Seq(Calls)
        /\ Begins(<<"initialize", "viewport">> \o If(MultiThread, <<"start">>))
    BY <1>1, <1>3, <1>4, InitializeFirst, ConcatProperties
  <2> QED BY <1>1, <1>2, <2>1, BeginsConcat
<1>7. Begins(If(MultiThread, <<"stop">>))
  BY <1>2 DEF If
<1> HIDE DEF Begins, Calls
<1> QED BY <1>2, <1>5, <1>6, <1>7 DEF Handler

\* What a step may do to the calls that are still to make, before the thread
\* may start.
StartStep ==
    \/ UNCHANGED <<todo, pc>>
    \/ Begins(todo') /\ UNCHANGED pc
    \/ Call("initialize") /\ context' /\ (~GlewFails => pipeline') /\ UNCHANGED pc
    \/ /\ todo # <<>> /\ Head(todo) # "initialize" /\ UNCHANGED pc
       /\ \E more \in Seq(Calls) : Begins(more) /\ todo' = more \o Tail(todo)
    \/ Call("start") /\ todo' = Tail(todo) /\ UNCHANGED ctxVars
    \/ \E t \in Threads : Step(t) /\ UNCHANGED <<todo, ctxVars>>

LEMMA StartSteps ==
    ASSUME TypeOK, SafeInv, [Next]_vars
    PROVE  StartStep
<1> USE DEF StartStep, envVars, ctxVars, glVars, startVars, flags, sync, view,
            painted, counters
<1>1. /\ <<>> \in Seq(Calls) /\ <<"wake">> \in Seq(Calls)
      /\ <<"lock", "wake", "unlock", "wait">> \in Seq(Calls)
      /\ <<"stop_locked", "unlock", "lock", "wake", "unlock", "wait">> \in Seq(Calls)
      /\ Begins(<<>>) /\ Begins(<<"wake">>) /\ Begins(<<"update">>) /\ Begins(<<"stop">>)
      /\ Begins(<<"lock", "wake", "unlock", "wait">>)
      /\ Begins(<<"stop_locked", "unlock", "lock", "wake", "unlock", "wait">>)
      /\ todo # <<>> => Tail(todo) \in Seq(Calls) /\ <<>> \o Tail(todo) = Tail(todo)
  BY ShortStacks, TailType, EmptySeq, ConcatEmptySeq DEF Calls, Begins, TypeOK
<1>2. CASE UNCHANGED vars
  BY <1>2 DEF vars
<1>3. CASE Post \/ Return
  BY <1>3 DEF Post, Return
<1>4. CASE Expose \/ ConfigureNotify \/ Input \/ SendExit
  BY <1>4, HandlerBegins DEF Expose, ConfigureNotify, Input, SendExit, NextEvent, Send
<1>5. CASE Emit \/ DerivedStop
  BY <1>1, <1>5 DEF Emit, DerivedStop
<1>6. CASE Dispatcher /\ Initialize
  <2>1. Call("initialize") /\ UNCHANGED pc
    BY <1>6 DEF Initialize
  <2>2. context' /\ (~GlewFails => pipeline')
    BY <1>6, Zenon DEF Initialize, SafeInv
  <2> QED BY <2>1, <2>2, Zenon
<1>7. CASE Dispatcher /\ Viewport
  <2>1. /\ todo # <<>> /\ Head(todo) # "initialize" /\ UNCHANGED pc
        /\ todo' = Tail(todo) \/ UNCHANGED todo
    BY <1>7 DEF Viewport, Call
  <2> QED BY <1>1, <2>1
<1>8. CASE Dispatcher /\ (WakeOne \/ ClearLocked \/ LockDisp \/ UnlockDisp \/ Wait)
  <2>1. todo # <<>> /\ Head(todo) # "initialize" /\ todo' = Tail(todo) /\ UNCHANGED pc
    BY <1>8 DEF WakeOne, ClearLocked, LockDisp, UnlockDisp, Wait, Call
  <2> QED BY <1>1, <2>1
<1>9. CASE Dispatcher /\ RenderStart
  BY <1>9 DEF RenderStart
<1>10. CASE Dispatcher /\ RenderActiva
  <2>1. todo # <<>> /\ Head(todo) # "initialize" /\ UNCHANGED pc
    BY <1>10 DEF RenderActiva, Call
  <2>2. \/ todo' = <<"wake">> \o Tail(todo)
        \/ todo' = <<>> \o Tail(todo)
    BY <1>1, <1>10, <2>1, Zenon DEF RenderActiva, Activate, PaintHere, If
  <2> QED BY <1>1, <2>1, <2>2
<1>11. CASE Dispatcher /\ RenderStop
  <2>1. todo # <<>> /\ Head(todo) # "initialize" /\ UNCHANGED pc
    BY <1>11 DEF RenderStop, Call
  <2>2. \/ todo' = <<"stop_locked", "unlock", "lock", "wake", "unlock", "wait">> \o Tail(todo)
        \/ todo' = <<"lock", "wake", "unlock", "wait">> \o Tail(todo)
        \/ todo' = <<>> \o Tail(todo)
    BY <1>1, <1>11, <2>1, Zenon DEF RenderStop
  <2> QED BY <1>1, <2>1, <2>2
<1>12. ASSUME NEW u \in Updaters, UpdateElsewhere(u) \/ WakeElsewhere(u)
       PROVE  StartStep
  BY <1>12 DEF UpdateElsewhere, WakeElsewhere
<1>13. ASSUME NEW t \in Threads, Run(t) \/ Spurious(t)
       PROVE  StartStep
  BY <1>13 DEF Run, Spurious, WakeAlone, threadRest
<1> QED
  BY <1>2, <1>3, <1>4, <1>5, <1>6, <1>7, <1>8, <1>9, <1>10, <1>11, <1>12,
     <1>13
     DEF Next, Environment, Leave, Dispatcher

\* A render thread that has its context and its pipeline uses no null pointer.
LEMMA StepReady ==
    ASSUME TypeOK, SafeInv, NEW t \in Threads, Step(t), ~fault, Ready
    PROVE  ~fault'
<1> USE DEF TypeOK, SafeInv, Ready, Active, Go, sync, painted, glVars
<1>1. CASE MakeCurrent(t)
  BY <1>1, Zenon DEF MakeCurrent
<1>2. CASE Initializes(t)
  BY <1>2, Zenon DEF Initializes
<1>3. CASE DoneCurrent(t) \/ TestRender(t) \/ Lock(t) \/ Unlock(t)
  <2>1. UNCHANGED fault
    BY <1>3 DEF DoneCurrent, TestRender, Lock, Unlock
  <2> QED BY <2>1
<1>4. CASE TestLoop(t) \/ CondWait(t) \/ CondWoken(t) \/ End(t)
  <2>1. UNCHANGED fault
    BY <1>4 DEF TestLoop, CondWait, CondWoken, End
  <2> QED BY <2>1
<1>5. CASE PaintViewport(t)
  <2>1. pipe
    BY <1>5 DEF PaintViewport, Read
  <2> QED BY <1>5, <2>1, Zenon DEF PaintViewport
<1>6. CASE PaintCamera(t) \/ PaintScene(t) \/ Swap(t)
  BY <1>6 DEF PaintCamera, PaintScene, Swap
<1> QED BY <1>1, <1>2, <1>3, <1>4, <1>5, <1>6 DEF Step

\* The fault variable, without a thread's step.
LEMMA FaultSteps ==
    ASSUME MultiThread, [Next]_vars
    PROVE  \/ UNCHANGED fault
           \/ \E t \in Threads : Step(t)
<1> USE DEF envVars, ctxVars, glVars, startVars, flags, sync, view, painted,
            counters
<1>1. CASE UNCHANGED vars
  BY <1>1 DEF vars
<1>2. CASE Environment \/ Leave
  BY <1>2 DEF Environment, Leave, Expose, ConfigureNotify, Input, Post, Emit,
     DerivedStop, SendExit, Return, NextEvent
<1>3. CASE Dispatcher
  <2>1. CASE Initialize
    BY <2>1, Zenon DEF Initialize
  <2>2. CASE RenderActiva
    BY <2>2, Zenon DEF RenderActiva, Activate, PaintHere
  <2> QED
    BY <1>3, <2>1, <2>2 DEF Dispatcher, Viewport, RenderStart, WakeOne, RenderStop,
       ClearLocked, LockDisp, UnlockDisp, Wait
<1>4. ASSUME NEW u \in Updaters, UpdateElsewhere(u) \/ WakeElsewhere(u)
      PROVE  UNCHANGED fault
  BY <1>4 DEF UpdateElsewhere, WakeElsewhere
<1>5. ASSUME NEW t \in Threads, Run(t) \/ Spurious(t)
      PROVE  UNCHANGED fault \/ Step(t)
  BY <1>5 DEF Run, Spurious, WakeAlone
<1> QED BY <1>1, <1>2, <1>3, <1>4, <1>5 DEF Next

\* The context and the pipeline are never given back.
LEMMA ReadyStays ==
    ASSUME TypeOK, [Next]_vars, Ready
    PROVE  Ready'
<1>1. CASE UNCHANGED <<context, pipeline>>
  BY <1>1 DEF Ready
<1>2. CASE Initialize
  BY <1>2, Zenon DEF Initialize, ctxVars, Ready
<1>3. CASE PaintHere /\ UNCHANGED ctxVars
  BY <1>3 DEF ctxVars, Ready
<1>4. ASSUME NEW t \in Threads, Step(t), UNCHANGED ctxVars PROVE Ready'
  BY <1>4 DEF ctxVars, Ready
<1> QED BY <1>1, <1>2, <1>3, <1>4, SafeSteps DEF SafeStep

\* Where the render thread starts, its context and its pipeline are set up.
THEOREM StartCorrect == Spec => []StartInv
<1>1. Init => StartInv
  <2>1. Begins(<<>>)
    BY DEF Begins
  <2> QED BY <2>1 DEF Init, StartInv, Active
<1>2. TypeOK /\ SafeInv /\ StartInv /\ [Next]_vars => StartInv'
  <2> SUFFICES ASSUME TypeOK, SafeInv, StartInv, [Next]_vars, MultiThread, ~GlewFails
               PROVE  /\ ~fault'
                      /\ Ready' \/ Begins(todo)'
                      /\ \A t \in Threads : Active(t)' => Ready'
    BY DEF StartInv
  <2>1. ~fault /\ (Ready \/ Begins(todo)) /\ \A t \in Threads : Active(t) => Ready
    BY DEF StartInv
  <2>2. ~fault'
    <3>1. ASSUME NEW t \in Threads, Step(t) PROVE ~fault'
      BY <2>1, <3>1, StepMoves, StepReady
    <3> QED BY <2>1, <3>1, FaultSteps
  <2>3. CASE Ready
    BY <2>2, <2>3, ReadyStays
  <2>4. CASE ~Ready
    <3>1. Begins(todo) /\ todo \in Seq(Calls) /\ \A t \in Threads : ~Active(t)
      BY <2>1, <2>4 DEF TypeOK
    <3>2. CASE UNCHANGED <<todo, pc>>
      BY <2>2, <3>1, <3>2 DEF Active
    <3>3. CASE Begins(todo') /\ UNCHANGED pc
      BY <2>2, <3>1, <3>3 DEF Active, Begins
    <3>4. CASE context' /\ pipeline' /\ UNCHANGED pc
      BY <2>2, <3>4 DEF Ready
    <3>5. CASE /\ todo # <<>> /\ Head(todo) # "initialize" /\ UNCHANGED pc
               /\ \E more \in Seq(Calls) : Begins(more) /\ todo' = more \o Tail(todo)
      <4>1. PICK more \in Seq(Calls) : Begins(more) /\ todo' = more \o Tail(todo)
        BY <3>5
      <4>2. Begins(todo')
        BY <3>1, <3>5, <4>1, BeginsTail, BeginsConcat, TailType
      <4> QED BY <2>2, <3>1, <3>5, <4>2 DEF Active, Begins
    <3>6. ~Call("start")
      BY <3>1, BeginsTail DEF Call
    <3>7. \A t \in Threads : ~Step(t)
      BY <3>1, StepMoves
    <3> QED BY <3>2, <3>3, <3>4, <3>5, <3>6, <3>7, StartSteps DEF StartStep
  <2> QED BY <2>3, <2>4
<1> QED
  BY <1>1, <1>2, TypeCorrect, SafeCorrect, PTL DEF Spec

\* A window with a render thread, where glewInit() works, never uses a null
\* pointer: whatever events, updates and stops come, and in whatever order.
THEOREM NoFaultCorrect ==
    ASSUME MultiThread, ~GlewFails
    PROVE  Spec => []NoFault
<1>1. StartInv => NoFault
  BY DEF StartInv, NoFault
<1> QED
  BY <1>1, StartCorrect, PTL

\* run() is never executed twice at a time, however often the thread is stopped
\* and started and however many threads the process could have.
THEOREM OneRunCorrect == Spec => []OneRun
<1>1. RunInv => OneRun
  BY DEF RunInv
<1> QED
  BY <1>1, RunCorrect, PTL

\* The whole inductive invariant.
THEOREM InvCorrect == Spec => []Inv
<1>1. RunInv /\ MutexInv /\ LateInv /\ FrameInv /\ SafeInv /\ StartInv => Inv
  BY DEF Inv, MutexInv, RunInv
<1> QED
  BY <1>1, RunCorrect, MutexCorrect, LateCorrect, FrameCorrect, SafeCorrect,
     StartCorrect, PTL
---------------------------------------------------------------------------
(* What a removal leaves.                                                  *)

UpTo(K, m) == {k \in K : k <= m}

\* Counting the members of a set of numbers from below tells them apart.
LEMMA Ranks ==
    ASSUME NEW n \in Nat, NEW K \in SUBSET (1 .. n)
    PROVE  /\ IsFiniteSet(K) /\ Cardinality(K) \in Nat
           /\ \A m \in Nat : Cardinality(UpTo(K, m)) \in 0 .. Cardinality(K)
           /\ \A m \in K : Cardinality(UpTo(K, m)) \in 1 .. Cardinality(K)
           /\ \A a \in Nat, b \in K : a < b => Cardinality(UpTo(K, a)) < Cardinality(UpTo(K, b))
           /\ \A m \in Nat : 1 .. m \subseteq K =>
                 Cardinality(UpTo(K, m)) = m /\ m <= Cardinality(K)
<1>1. IsFiniteSet(1 .. n)
  BY FS_Interval
<1>2. IsFiniteSet(K)
  BY <1>1, FS_Subset
<1>3. Cardinality(K) \in Nat
  BY <1>2, FS_CardinalityType
<1>4. ASSUME NEW m \in Nat
      PROVE  IsFiniteSet(UpTo(K, m)) /\ Cardinality(UpTo(K, m)) \in 0 .. Cardinality(K)
  <2>1. UpTo(K, m) \in SUBSET K
    BY DEF UpTo
  <2>2. IsFiniteSet(UpTo(K, m)) /\ Cardinality(UpTo(K, m)) <= Cardinality(K)
    BY <1>2, <2>1, FS_Subset
  <2> QED BY <1>3, <2>2, FS_CardinalityType
<1>5. ASSUME NEW a \in Nat, NEW b \in K, a < b
      PROVE  Cardinality(UpTo(K, a)) < Cardinality(UpTo(K, b))
  <2>1. b \in Nat /\ \A k \in K : k \in Nat
    OBVIOUS
  <2>2. UpTo(K, a) \in SUBSET UpTo(K, b)
    <3>1. \A k \in K : k <= a => k <= b
      BY <1>5, <2>1
    <3> QED BY <3>1 DEF UpTo
  <2>3. b \in UpTo(K, b) /\ b \notin UpTo(K, a)
    BY <1>5, <2>1 DEF UpTo
  <2>4. Cardinality(UpTo(K, a)) <= Cardinality(UpTo(K, b))
        /\ (Cardinality(UpTo(K, b)) = Cardinality(UpTo(K, a)) => UpTo(K, b) = UpTo(K, a))
    BY <1>4, <2>1, <2>2, FS_Subset
  <2> QED BY <1>4, <2>1, <2>4, <2>3
<1>6. ASSUME NEW m \in K PROVE Cardinality(UpTo(K, m)) \in 1 .. Cardinality(K)
  <2>1. m \in Nat /\ 0 < m
    OBVIOUS
  <2>2. Cardinality(UpTo(K, 0)) < Cardinality(UpTo(K, m))
    BY <1>5, <2>1
  <2> QED BY <1>3, <1>4, <2>1, <2>2
<1>7. ASSUME NEW m \in Nat, 1 .. m \subseteq K
      PROVE  Cardinality(UpTo(K, m)) = m /\ m <= Cardinality(K)
  <2>1. \A k \in K : k \in Nat /\ 1 <= k
    OBVIOUS
  <2>2. \A k \in K : k <= m <=> k \in 1 .. m
    BY <2>1
  <2>3. UpTo(K, m) = 1 .. m
    BY <1>7, <2>2, Zenon DEF UpTo
  <2>4. Cardinality(1 .. m) = m
    BY FS_Interval
  <2> QED BY <1>3, <1>4, <2>3, <2>4
<1> QED BY <1>2, <1>3, <1>4, <1>5, <1>6, <1>7

Kept(l, e) == DOMAIN l \ Removed(l, e)

\* What stays keeps its elements, and everything before a removal its place.
StayInPlace(l, e, f, n) ==
    /\ n \in Nat /\ f \in [1 .. n -> DOMAIN l]
    /\ \A k \in DOMAIN l : l[k] # e => \E j \in 1 .. n : f[j] = k
    /\ \A m \in DOMAIN l : (\A k \in Removed(l, e) : k > m) =>
          m <= n /\ \A j \in 1 .. m : f[j] = j

LEMMA StaysRight ==
    ASSUME NEW S, NEW l \in Seq(S), NEW e, NEW f \in Stays(l, e)
    PROVE  StayInPlace(l, e, f, Cardinality(Kept(l, e)))
<1> DEFINE K == Kept(l, e)
           n == Cardinality(K)
<1>1. Len(l) \in Nat /\ DOMAIN l = 1 .. Len(l)
  BY LenProperties
<1>2. K \in SUBSET (1 .. Len(l))
  BY <1>1 DEF Kept
<1>3. /\ f \in [1 .. n -> K]
      /\ \A j \in 1 .. n : Cardinality(UpTo(K, f[j])) = j
  BY DEF Stays, Kept, UpTo
<1>4. \A k \in DOMAIN l : l[k] # e => k \in K
  BY DEF Kept, Removed
<1>5. \A k \in DOMAIN l : k \notin Removed(l, e) => k \in K
  BY DEF Kept
<1> HIDE DEF K
<1>6. /\ n \in Nat
      /\ \A m \in K : Cardinality(UpTo(K, m)) \in 1 .. n
      /\ \A a \in Nat, b \in K : a < b => Cardinality(UpTo(K, a)) < Cardinality(UpTo(K, b))
      /\ \A m \in Nat : 1 .. m \subseteq K => Cardinality(UpTo(K, m)) = m /\ m <= n
  BY <1>1, <1>2, Ranks
<1>7. ASSUME NEW k \in K, NEW j \in 1 .. n, j = Cardinality(UpTo(K, k))
      PROVE  f[j] = k
  <2>1. f[j] \in K /\ Cardinality(UpTo(K, f[j])) = j
    BY <1>3
  <2>2. \A m \in K : m \in Nat
    BY <1>2
  <2>3. f[j] \in Nat /\ k \in Nat
    BY <2>2, <2>1
  <2>4. ~(f[j] < k) /\ ~(k < f[j])
    BY <1>6, <1>7, <2>1, <2>3
  <2> QED BY <2>3, <2>4
<1>8. ASSUME NEW k \in DOMAIN l, l[k] # e PROVE \E j \in 1 .. n : f[j] = k
  BY <1>4, <1>6, <1>7, <1>8
<1>9. ASSUME NEW m \in DOMAIN l, \A k \in Removed(l, e) : k > m
      PROVE  m <= n /\ \A j \in 1 .. m : f[j] = j
  <2>1. m \in Nat /\ 1 .. m \subseteq K
    BY <1>1, <1>5, <1>9 DEF Removed
  <2>2. ASSUME NEW j \in 1 .. m PROVE f[j] = j
    <3>1. j \in Nat /\ 1 .. j \subseteq K /\ j \in K
      BY <2>1
    <3>2. Cardinality(UpTo(K, j)) = j /\ j \in 1 .. n
      BY <1>6, <3>1
    <3> QED BY <1>7, <3>1, <3>2
  <2> QED BY <1>6, <2>1, <2>2
<1>10. f \in [1 .. n -> DOMAIN l]
  BY <1>1, <1>2, <1>3
<1> QED BY <1>6, <1>8, <1>9, <1>10 DEF K, StayInPlace
---------------------------------------------------------------------------
(* The composition is the render loop with something added.                *)

\* Whatever scenes and programs do in between, the window behaves as the render
\* loop of RenderLoop, so the theorems about that hold for it.
THEOREM WindowIsLoop == SceneSpec => Spec
<1>1. SceneInit => Init
  BY DEF SceneInit
<1>2. ASSUME [SceneNext]_windowVars PROVE [Next]_vars
  <2>1. CASE LoopStep
    BY <2>1 DEF LoopStep, InLoop, Next
  <2>2. CASE EndFrame
    BY <2>2 DEF EndFrame, InLoop, Next
  <2>3. CASE BeginFrame \/ InitializeReturns \/ PaintReturns
    BY <2>3 DEF BeginFrame, InitializeReturns, PaintReturns
  <2>4. CASE Calling
    BY <2>4 DEF Calling, ApiCall, InsertScene, DeleteScene, InsertCamera, DeleteCamera,
                SetCamera, InsertControl, DeleteControl
  <2>5. CASE UNCHANGED windowVars
    BY <2>5 DEF windowVars
  <2> QED BY <1>2, <2>1, <2>2, <2>3, <2>4, <2>5 DEF SceneNext
<1> QED BY <1>1, <1>2, PTL DEF SceneSpec, Spec

\* Nothing null is used once the context is initialized.
THEOREM WindowIsSafe == SceneSpec => []InitializedIsSafe
<1>1. SafeInv /\ InitializedIsSafe => InitializedIsSafe
  OBVIOUS
<1> QED BY <1>1, WindowIsLoop, SafeCorrect, PTL
---------------------------------------------------------------------------
(* Typing.                                                                 *)

\* A list and its flags stay lists when they are picked from.
LEMMA PickedType ==
    ASSUME NEW S, NEW l \in Seq(S), NEW n \in Nat, NEW f \in [1 .. n -> DOMAIN l]
    PROVE  Picked(l, f) \in Seq(S) /\ Len(Picked(l, f)) = n
<1>1. \A j \in 1 .. n : l[f[j]] \in S
  BY ElementOfSeq, LenProperties
<1>2. Picked(l, f) \in [1 .. n -> S]
  BY <1>1 DEF Picked
<1>3. Picked(l, f) \in Seq(S)
  BY <1>2
<1> QED BY <1>2, <1>3, LenProperties

LEMMA StaysType ==
    ASSUME NEW S, NEW l \in Seq(S), NEW e, NEW f \in Stays(l, e)
    PROVE  Picked(l, f) \in Seq(S)
BY StaysRight, PickedType DEF StayInPlace

\* The default camera and what the controls have.
LEMMA GivenType ==
    ASSUME SceneTypeOK, NEW c \in Cameras \cup {None}
    PROVE  GivenAll(c) \in [Controls -> Cameras \cup {None}]
BY DEF SceneTypeOK, GivenAll

---------------------------------------------------------------------------
(* The invariant, action by action.                                        *)

LEMMA SceneInvInit == SceneInit => SceneInv
<1> SUFFICES ASSUME SceneInit PROVE SceneInv
  OBVIOUS
<1>1. /\ <<>> \in Seq(Scenes) /\ <<>> \in Seq(Cameras) /\ <<>> \in Seq(Controls)
      /\ <<>> \in Seq(BOOLEAN) /\ Len(<<>>) = 0 /\ DOMAIN <<>> = {}
  BY EmptySeq
<1>2. shifted \in BOOLEAN /\ crash \in BOOLEAN
  BY Zenon DEF SceneInit
<1>3. SceneTypeOK
  BY <1>1, <1>2, WindowAssumptions DEF SceneTypeOK, SceneInit, Outside
<1>4. InRange /\ OwedAhead /\ InitFirst
  BY <1>1 DEF InRange, InCallback, OwedAhead, InitFirst, SceneInit, Outside, Loops
<1>5. CrashHasCause
  BY DEF CrashHasCause, SceneInit
<1> QED BY <1>3, <1>4, <1>5 DEF SceneInv

\* A step of the render loop alone, of a call's camera half, and of nothing.
LEMMA ScenesKept ==
    ASSUME SceneInv, UNCHANGED <<scenes, at, owed, ready, shifted>>
    PROVE  InRange' /\ OwedAhead' /\ InitFirst'
BY DEF SceneInv, InRange, InCallback, OwedAhead, Ahead, InitFirst, scenes

\* A list of S with one more at its end.
Grew(S, l, e, q) ==
    /\ q \in Seq(S)
    /\ Len(q) = Len(l) + 1
    /\ DOMAIN q = 1 .. Len(q)
    /\ \A k \in DOMAIN l : k \in DOMAIN q /\ q[k] = l[k]
    /\ \A k \in DOMAIN q : k \in DOMAIN l \/ (k = Len(l) + 1 /\ q[k] = e)
    /\ Elems(q) = Elems(l) \cup {e}

LEMMA Appended ==
    ASSUME NEW S, NEW l \in Seq(S), NEW e \in S
    PROVE  Grew(S, l, e, Append(l, e))
<1>1. Len(l) \in Nat /\ DOMAIN l = 1 .. Len(l)
  BY LenProperties
<1>2. /\ Append(l, e) \in Seq(S)
      /\ Len(Append(l, e)) = Len(l) + 1
      /\ \A k \in 1 .. Len(l) : Append(l, e)[k] = l[k]
      /\ Append(l, e)[Len(l) + 1] = e
  BY <1>1
<1>3. DOMAIN Append(l, e) = 1 .. Len(l) + 1
  BY <1>2, LenProperties
<1> DEFINE q == Append(l, e)
<1>4. /\ \A k \in DOMAIN l : k \in DOMAIN q /\ q[k] = l[k]
      /\ \A k \in DOMAIN q : k \in DOMAIN l \/ (k = Len(l) + 1 /\ q[k] = e)
      /\ Len(l) + 1 \in DOMAIN q /\ q[Len(l) + 1] = e
  BY <1>1, <1>2, <1>3
<1> HIDE DEF q
<1>5. Elems(q) = Elems(l) \cup {e}
  BY <1>4, Zenon DEF Elems
<1>6. q \in Seq(S) /\ Len(q) = Len(l) + 1 /\ DOMAIN q = 1 .. Len(q)
  BY <1>2, <1>3 DEF q
<1> QED BY <1>4, <1>5, <1>6, Zenon DEF Grew, q

LEMMA InsertSceneKeeps ==
    ASSUME SceneInv, NEW s \in Scenes, InsertScene(s)
    PROVE  SceneInv'
<1> DEFINE q == Append(paint, s)
           g == Append(is_paint_init, FALSE)
<1>1. /\ paint \in Seq(Scenes) /\ is_paint_init \in Seq(BOOLEAN) /\ FALSE \in BOOLEAN
      /\ Len(is_paint_init) = Len(paint)
  BY DEF SceneInv, SceneTypeOK
<1>2. Grew(Scenes, paint, s, q) /\ Grew(BOOLEAN, is_paint_init, FALSE, g)
  BY <1>1, Appended, Zenon
<1>3. /\ q \in Seq(Scenes) /\ Len(q) = Len(paint) + 1
      /\ \A k \in DOMAIN paint : k \in DOMAIN q /\ q[k] = paint[k]
      /\ \A k \in DOMAIN q : k \in DOMAIN paint \/ k = Len(paint) + 1
      /\ DOMAIN q = 1 .. Len(q)
  BY <1>2, Zenon DEF Grew
<1>4. /\ g \in Seq(BOOLEAN) /\ Len(g) = Len(is_paint_init) + 1
      /\ \A k \in DOMAIN is_paint_init : g[k] = is_paint_init[k]
      /\ \A k \in DOMAIN g : g[k] => k \in DOMAIN is_paint_init
      /\ DOMAIN g = 1 .. Len(g)
  BY <1>2, Zenon DEF Grew
<1>5. /\ DOMAIN q = 1 .. Len(q) /\ DOMAIN paint = 1 .. Len(paint)
      /\ DOMAIN is_paint_init = DOMAIN paint /\ DOMAIN g = DOMAIN q
  BY <1>1, <1>3, <1>4, LenProperties
<1> HIDE DEF q, g
<1>6. /\ paint' = q /\ is_paint_init' = g
      /\ UNCHANGED <<camera, camera_default, camera_ctrl, cameras, at, owed, ready, shifted, crash>>
      /\ calls' = calls + 1
  BY DEF InsertScene, ApiCall, views, q, g
<1>7. SceneTypeOK'
  BY <1>3, <1>4, <1>6 DEF SceneInv, SceneTypeOK
<1>8. InRange'
  BY <1>3, <1>6 DEF SceneInv, InRange, InCallback
<1>9. OwedAhead'
  <2> SUFFICES ASSUME ~shifted', (at.loop \in Loops)', NEW x \in owed'
               PROVE  (\E k \in DOMAIN paint : paint[k] = x /\ Ahead(k))'
    BY DEF OwedAhead
  <2>1. PICK k \in DOMAIN paint : paint[k] = x /\ Ahead(k)
    BY <1>6 DEF SceneInv, OwedAhead
  <2> QED BY <2>1, <1>3, <1>6 DEF Ahead
<1>10. InitFirst'
  <2>1. ASSUME ~shifted, NEW k \in DOMAIN q, g[k] PROVE q[k] \in ready
    BY <2>1, <1>3, <1>4, <1>5 DEF SceneInv, InitFirst
  <2>2. ASSUME ~shifted, at.loop = "paint" PROVE q[at.i] \in ready
    BY <2>2, <1>3 DEF SceneInv, InitFirst, InRange, InCallback
  <2> QED BY <1>6, <2>1, <2>2 DEF InitFirst
<1>11. CrashHasCause'
  BY <1>6 DEF SceneInv, CrashHasCause
<1> QED BY <1>7, <1>8, <1>9, <1>10, <1>11 DEF SceneInv


LEMMA DeleteSceneKeeps ==
    ASSUME SceneInv, NEW s \in Scenes, DeleteScene(s)
    PROVE  SceneInv'
<1>1. /\ paint \in Seq(Scenes) /\ is_paint_init \in Seq(BOOLEAN)
      /\ Len(is_paint_init) = Len(paint) /\ Len(paint) \in Nat
      /\ DOMAIN paint = 1 .. Len(paint) /\ DOMAIN is_paint_init = DOMAIN paint
  BY LenProperties DEF SceneInv, SceneTypeOK
<1>2. PICK f \in Stays(paint, s) : paint' = Picked(paint, f) /\ is_paint_init' = Picked(is_paint_init, f)
  BY DEF DeleteScene
<1> DEFINE n == Cardinality(Kept(paint, s))
<1>a. StayInPlace(paint, s, f, n)
  BY <1>1, <1>2, StaysRight, Zenon
<1> HIDE DEF n
<1>3. /\ n \in Nat
      /\ f \in [1 .. n -> DOMAIN paint]
      /\ \A k \in DOMAIN paint : paint[k] # s => \E j \in 1 .. n : f[j] = k
      /\ \A m \in DOMAIN paint : (\A k \in Removed(paint, s) : k > m) =>
            m <= n /\ \A j \in 1 .. m : f[j] = j
  BY <1>a DEF StayInPlace
<1>4. /\ paint' \in Seq(Scenes) /\ is_paint_init' \in Seq(BOOLEAN)
      /\ Len(paint') = n /\ Len(is_paint_init') = n
  <2>1. \A S : \A l \in Seq(S) : \A g \in [1 .. n -> DOMAIN l] :
           Picked(l, g) \in Seq(S) /\ Len(Picked(l, g)) = n
    BY <1>3, PickedType
  <2> QED BY <1>1, <1>2, <1>3, <2>1
<1>5. /\ DOMAIN paint' = 1 .. n
      /\ \A j \in 1 .. n : f[j] \in DOMAIN paint /\ paint'[j] = paint[f[j]]
                           /\ is_paint_init'[j] = is_paint_init[f[j]]
  BY <1>2, <1>3, <1>4 DEF Picked
<1>6. /\ UNCHANGED <<camera, camera_default, camera_ctrl, cameras, at, ready, crash>>
      /\ owed' = owed \ {s} /\ calls' = calls + 1
  BY DEF DeleteScene, ApiCall, views
<1>7. /\ shifted \in BOOLEAN
      /\ shifted' = (shifted \/ (InCallback /\ \E k \in Removed(paint, s) : k <= at.i))
  BY DEF DeleteScene, SceneInv, SceneTypeOK
<1>8. shifted' \in BOOLEAN /\ (shifted => shifted')
  BY <1>7, Zenon
<1>9. ASSUME ~shifted', InCallback
      PROVE  at.i \in DOMAIN paint /\ at.i \in 1 .. n /\ \A j \in 1 .. at.i : f[j] = j
  <2>1. ~shifted /\ ~ \E k \in Removed(paint, s) : k <= at.i
    BY <1>7, <1>9, Zenon
  <2>2. at.i \in DOMAIN paint
    BY <1>9, <2>1 DEF SceneInv, InRange
  <2>3. at.i \in Nat /\ \A k \in Removed(paint, s) : k \in Nat
    BY <1>1, <2>2 DEF Removed
  <2>4. \A k \in Removed(paint, s) : k > at.i
    BY <2>1, <2>3
  <2>5. at.i <= n /\ \A j \in 1 .. at.i : f[j] = j
    BY <1>3, <2>2, <2>4, Zenon
  <2> QED BY <1>1, <1>3, <2>2, <2>5
<1>10. SceneTypeOK'
  BY <1>4, <1>6, <1>8 DEF SceneInv, SceneTypeOK
<1>11. InRange'
  BY <1>5, <1>6, <1>9 DEF InRange, InCallback
<1>12. OwedAhead'
  <2> SUFFICES ASSUME ~shifted', at.loop \in Loops, NEW x \in owed \ {s}
               PROVE  \E j \in 1 .. n : paint'[j] = x /\ Ahead(j)'
    BY <1>5, <1>6 DEF OwedAhead
  <2>1. PICK k \in DOMAIN paint : paint[k] = x /\ Ahead(k)
    BY <1>8 DEF SceneInv, OwedAhead
  <2>2. PICK j \in 1 .. n : f[j] = k
    BY <1>3, <2>1
  <2>3. InCallback
    BY <2>1 DEF Ahead, InCallback
  <2>4. at.i \in DOMAIN paint /\ at.i \in 1 .. n /\ \A m \in 1 .. at.i : f[m] = m
    BY <1>9, <2>3
  <2>5. k >= at.i => j >= at.i
    BY <1>1, <1>3, <2>2, <2>4
  <2>6. k > at.i => j > at.i
    BY <1>1, <1>3, <2>2, <2>4
  <2>7. Ahead(j)'
    BY <1>6, <2>1, <2>5, <2>6 DEF Ahead
  <2> QED BY <1>5, <2>1, <2>2, <2>7
<1>13. InitFirst'
  <2>1. ASSUME ~shifted', NEW j \in 1 .. n, is_paint_init'[j] PROVE paint'[j] \in ready
    BY <2>1, <1>5, <1>8 DEF SceneInv, InitFirst
  <2>2. ASSUME ~shifted', at.loop = "paint" PROVE paint'[at.i] \in ready
    <3>1. at.i \in 1 .. n /\ f[at.i] = at.i /\ paint[at.i] \in ready
      BY <1>8, <1>9, <2>2 DEF SceneInv, InitFirst, InCallback
    <3> QED BY <1>5, <3>1
  <2> QED BY <1>5, <1>6, <2>1, <2>2 DEF InitFirst
<1>14. CrashHasCause'
  BY <1>6, <1>8 DEF SceneInv, CrashHasCause
<1> QED BY <1>10, <1>11, <1>12, <1>13, <1>14 DEF SceneInv

\* What a call on the cameras and controls has to show.
LEMMA ViewCalls ==
    ASSUME SceneInv, ApiCall, KeepsScenes,
           camera' \in Seq(Cameras), camera_default' \in Cameras \cup {None},
           camera_ctrl' \in Seq(Controls), cameras' \in [Controls -> Cameras \cup {None}]
    PROVE  SceneInv'
<1>1. InRange' /\ OwedAhead' /\ InitFirst'
  BY ScenesKept DEF ApiCall, KeepsScenes
<1>2. CrashHasCause'
  BY DEF ApiCall, KeepsScenes, CrashHasCause, SceneInv
<1>3. SceneTypeOK'
  BY DEF ApiCall, KeepsScenes, SceneInv, SceneTypeOK, scenes
<1> QED BY <1>1, <1>2, <1>3 DEF SceneInv

LEMMA CamerasKeep ==
    ASSUME SceneInv, NEW c \in Cameras, InsertCamera(c) \/ DeleteCamera(c)
    PROVE  SceneInv'
<1> USE DEF SceneInv
<1>1. /\ camera \in Seq(Cameras) /\ camera_ctrl \in Seq(Controls)
      /\ camera_default \in Cameras \cup {None}
      /\ cameras \in [Controls -> Cameras \cup {None}]
      /\ Elems(camera_ctrl) \subseteq Controls
  BY ElementOfSeq, LenProperties DEF SceneTypeOK, Elems
<1>2. CASE InsertCamera(c)
  <2>1. camera_default' \in Cameras \cup {None} /\ camera_ctrl' = camera_ctrl
    BY <1>1, <1>2 DEF InsertCamera
  <2>2. cameras' \in [Controls -> Cameras \cup {None}]
    BY <1>1, <1>2, <2>1, GivenType DEF InsertCamera
  <2>3. camera' \in Seq(Cameras)
    BY <1>1, <1>2 DEF InsertCamera
  <2> QED BY <1>1, <1>2, <2>1, <2>2, <2>3, ViewCalls DEF InsertCamera
<1>3. CASE DeleteCamera(c)
  <2>1. camera' \in Seq(Cameras)
    BY <1>1, <1>3, StaysType DEF DeleteCamera
  <2> QED BY <1>1, <1>3, <2>1, ViewCalls DEF DeleteCamera
<1> QED BY <1>2, <1>3

LEMMA SetCameraKeeps ==
    ASSUME SceneInv, NEW c \in Cameras \cup {None}, SetCamera(c)
    PROVE  SceneInv'
<1>1. /\ camera \in Seq(Cameras) /\ camera_ctrl \in Seq(Controls)
      /\ Elems(camera_ctrl) \subseteq Controls
  BY ElementOfSeq, LenProperties DEF SceneInv, SceneTypeOK, Elems
<1>2. cameras' \in [Controls -> Cameras \cup {None}]
  BY GivenType DEF SetCamera, SceneInv
<1> QED BY <1>1, <1>2, ViewCalls DEF SetCamera

LEMMA ControlsKeep ==
    ASSUME SceneInv, NEW k \in Controls, InsertControl(k) \/ DeleteControl(k)
    PROVE  SceneInv'
<1>1. /\ camera \in Seq(Cameras) /\ camera_ctrl \in Seq(Controls)
      /\ camera_default \in Cameras \cup {None}
      /\ cameras \in [Controls -> Cameras \cup {None}]
      /\ Elems(camera_ctrl) \subseteq Controls
  BY ElementOfSeq, LenProperties DEF SceneInv, SceneTypeOK, Elems
<1>2. CASE InsertControl(k)
  <2>1. Grew(Controls, camera_ctrl, k, camera_ctrl')
    BY <1>1, <1>2, Appended DEF InsertControl
  <2>2. camera_ctrl' \in Seq(Controls) /\ Elems(camera_ctrl') = Elems(camera_ctrl) \cup {k}
    BY <2>1, Zenon DEF Grew
  <2>3. cameras' \in [Controls -> Cameras \cup {None}]
    BY <1>1, <1>2 DEF InsertControl
  <2> QED BY <1>1, <1>2, <2>2, <2>3, ViewCalls DEF InsertControl
<1>3. CASE DeleteControl(k)
  <2>1. PICK f \in Stays(camera_ctrl, k) : camera_ctrl' = Picked(camera_ctrl, f)
    BY <1>3 DEF DeleteControl
  <2>2. camera_ctrl' \in Seq(Controls)
    BY <1>1, <2>1, StaysType
  <2> QED BY <1>1, <1>3, <2>2, ViewCalls DEF DeleteControl
<1> QED BY <1>2, <1>3
\* Moving on in a list: what is owed now lies ahead of the next index.
LEMMA MovesOn ==
    ASSUME SceneInv, ~shifted, InCallback, at.loop # "initialize"
    PROVE  /\ \A x \in owed : \E k \in DOMAIN paint : paint[k] = x /\ k >= at.i + 1
           /\ at.i + 1 \notin DOMAIN paint => owed = {}
           /\ at.i + 1 \in Nat
<1>1. at.i \in Nat /\ at.loop = "paint"
  BY DEF InCallback, SceneInv, SceneTypeOK
<1>2. DOMAIN paint = 1 .. Len(paint) /\ Len(paint) \in Nat
  BY LenProperties DEF SceneInv, SceneTypeOK
<1>3. ASSUME NEW x \in owed PROVE \E k \in DOMAIN paint : paint[k] = x /\ k >= at.i + 1
  <2>1. PICK k \in DOMAIN paint : paint[k] = x /\ k > at.i
    BY <1>1 DEF SceneInv, OwedAhead, Ahead, Loops
  <2> QED BY <1>1, <1>2, <2>1
<1>4. ASSUME at.i + 1 \notin DOMAIN paint, NEW x \in owed PROVE FALSE
  <2>1. PICK k \in DOMAIN paint : k >= at.i + 1
    BY <1>3
  <2> QED BY <1>1, <1>2, <1>4, <2>1
<1> QED BY <1>1, <1>3, <1>4

\* What a step of the loop has to show.
LEMMA LoopCalls ==
    ASSUME SceneInv, UNCHANGED <<paint, views, shifted, calls>>,
           is_paint_init' \in Seq(BOOLEAN), Len(is_paint_init') = Len(paint),
           at' \in [loop : Loops \cup {"none"}, i : Nat],
           owed' \subseteq Scenes, ready' \subseteq Scenes,
           crash' \in BOOLEAN,
           CrashHasCause', InRange', OwedAhead', InitFirst'
    PROVE  SceneInv'
<1>1. SceneTypeOK'
  BY DEF SceneInv, SceneTypeOK, views
<1> QED BY <1>1 DEF SceneInv

\* A turn of the loop, of which the next state owes no more than it did.
LEMMA Turns ==
    ASSUME SceneInv, NEW l \in {"initialize", "paint"}, NEW k \in DOMAIN paint,
           UNCHANGED <<scenes, views, ready, shifted, crash, calls>>,
           at' = Turn(l, k),
           owed' \subseteq Scenes,
           ~shifted => \A x \in owed' : \E j \in DOMAIN paint : paint[j] = x /\ Ahead(j)',
           ~shifted /\ l = "paint" => paint[k] \in ready
    PROVE  SceneInv'
<1>1. k \in Nat /\ at' \in [loop : Loops \cup {"none"}, i : Nat] /\ at'.i = k /\ at'.loop = l
  BY LenProperties DEF SceneInv, SceneTypeOK, Turn, Loops
<1>2. InRange' /\ CrashHasCause'
  BY <1>1 DEF InRange, scenes, views, SceneInv, CrashHasCause
<1>3. OwedAhead'
  BY DEF OwedAhead, scenes
<1>4. InitFirst'
  BY <1>1 DEF InitFirst, scenes, SceneInv
<1> QED BY <1>1, <1>2, <1>3, <1>4, LoopCalls DEF scenes, SceneInv, SceneTypeOK

\* The loop is over.
LEMMA LoopEnds ==
    ASSUME SceneInv, UNCHANGED <<scenes, views, ready, shifted, calls>>,
           crash' \in BOOLEAN, CrashHasCause',
           at' \in {Outside, Turn("swap", 0)},
           owed' \subseteq owed,
           at'.loop = "swap" /\ ~shifted => owed' = {}
    PROVE  SceneInv'
<1>1. /\ at' \in [loop : Loops \cup {"none"}, i : Nat]
      /\ at'.loop \in {"none", "swap"}
  BY DEF Turn, Outside, Loops
<1>2. InRange' /\ InitFirst' /\ OwedAhead'
  BY <1>1 DEF InRange, InCallback, InitFirst, OwedAhead, scenes, SceneInv, Loops
<1> QED BY <1>1, <1>2, LoopCalls DEF scenes, SceneInv, SceneTypeOK

LEMMA BeginFrameKeeps ==
    ASSUME SceneInv, BeginFrame PROVE SceneInv'
<1>1. DOMAIN paint = 1 .. Len(paint) /\ Len(paint) \in Nat /\ paint \in Seq(Scenes)
  BY LenProperties DEF SceneInv, SceneTypeOK
<1>2. UNCHANGED <<scenes, views, ready, shifted, crash, calls>>
  BY DEF BeginFrame
<1>3. CASE paint = <<>>
  <2>1. at' = Turn("swap", 0) /\ owed' = {}
    BY <1>3 DEF BeginFrame
  <2>2. crash' \in BOOLEAN /\ CrashHasCause'
    BY <1>2 DEF SceneInv, SceneTypeOK, CrashHasCause, views
  <2> QED BY <1>2, <2>1, <2>2, LoopEnds DEF Turn
<1>4. CASE paint # <<>> /\ is_paint_init[1]
  <2>1. at' = Turn("paint", 1) /\ owed' = Elems(paint) \ {paint[1]}
    BY <1>4 DEF BeginFrame
  <2>2. 1 \in DOMAIN paint /\ (~shifted => paint[1] \in ready)
    BY <1>1, <1>4 DEF SceneInv, InitFirst
  <2>3. ASSUME NEW x \in owed' PROVE \E j \in DOMAIN paint : paint[j] = x /\ Ahead(j)'
    <3>1. PICK j \in DOMAIN paint : paint[j] = x /\ j # 1
      BY <2>1 DEF Elems
    <3> QED BY <1>1, <2>1, <3>1 DEF Ahead, Turn
  <2>4. owed' \subseteq Scenes
    BY <1>1, <2>1, ElementOfSeq DEF Elems
  <2> QED BY <1>2, <2>1, <2>2, <2>3, <2>4, Turns
<1>5. CASE paint # <<>> /\ ~is_paint_init[1]
  <2>1. at' = Turn("initialize", 1) /\ owed' = Elems(paint)
    BY <1>5 DEF BeginFrame
  <2>2. 1 \in DOMAIN paint
    BY <1>1, <1>5
  <2>3. ASSUME NEW x \in owed' PROVE \E j \in DOMAIN paint : paint[j] = x /\ Ahead(j)'
    <3>1. PICK j \in DOMAIN paint : paint[j] = x
      BY <2>1, <2>3 DEF Elems
    <3> QED BY <1>1, <2>1, <3>1 DEF Ahead, Turn
  <2>4. owed' \subseteq Scenes
    BY <1>1, <2>1, ElementOfSeq DEF Elems
  <2> QED BY <1>2, <2>1, <2>2, <2>3, <2>4, Turns
<1> QED BY <1>3, <1>4, <1>5

LEMMA PaintReturnsKeeps ==
    ASSUME SceneInv, PaintReturns PROVE SceneInv'
<1>1. /\ DOMAIN paint = 1 .. Len(paint) /\ Len(paint) \in Nat /\ at.i \in Nat
      /\ owed \subseteq Scenes
  BY LenProperties DEF SceneInv, SceneTypeOK
<1>2. at.loop = "paint" /\ InCallback
  BY DEF PaintReturns, InLoop, InCallback
<1> DEFINE n == at.i + 1
<1>3. /\ ~shifted => \A x \in owed : \E k \in DOMAIN paint : paint[k] = x /\ k >= n
      /\ ~shifted /\ n \notin DOMAIN paint => owed = {}
      /\ n \in Nat
  BY <1>1, <1>2, MovesOn
<1>4. UNCHANGED <<scenes, views, ready, shifted, crash, calls>> /\ GoesTo(n)
  BY DEF PaintReturns
<1> HIDE DEF n
<1>5. CASE n \notin DOMAIN paint
  <2>1. at' = Turn("swap", 0) /\ owed' = owed
    BY <1>4, <1>5 DEF GoesTo
  <2>2. crash' \in BOOLEAN /\ CrashHasCause'
    BY <1>4 DEF SceneInv, SceneTypeOK, CrashHasCause, views
  <2> QED BY <1>3, <1>4, <1>5, <2>1, <2>2, LoopEnds
<1>6. CASE n \in DOMAIN paint /\ is_paint_init[n]
  <2>1. at' = Turn("paint", n) /\ owed' = owed \ {paint[n]}
    BY <1>4, <1>6 DEF GoesTo
  <2>2. ~shifted => paint[n] \in ready
    BY <1>6 DEF SceneInv, InitFirst
  <2>3. ASSUME ~shifted, NEW x \in owed'
        PROVE  \E j \in DOMAIN paint : paint[j] = x /\ Ahead(j)'
    <3>1. PICK k \in DOMAIN paint : paint[k] = x /\ k >= n
      BY <1>3, <2>1, <2>3
    <3>2. k > n
      BY <1>1, <1>3, <2>1, <3>1
    <3> QED BY <2>1, <3>1, <3>2 DEF Ahead, Turn
  <2> QED BY <1>1, <1>4, <1>6, <2>1, <2>2, <2>3, Turns
<1>7. CASE n \in DOMAIN paint /\ ~is_paint_init[n]
  <2>1. at' = Turn("initialize", n) /\ owed' = owed
    BY <1>4, <1>7 DEF GoesTo
  <2>2. ASSUME ~shifted, NEW x \in owed'
        PROVE  \E j \in DOMAIN paint : paint[j] = x /\ Ahead(j)'
    BY <1>3, <2>1, <2>2 DEF Ahead, Turn
  <2> QED BY <1>1, <1>4, <1>7, <2>1, <2>2, Turns
<1> QED BY <1>5, <1>6, <1>7

LEMMA InitializeReturnsKeeps ==
    ASSUME SceneInv, InitializeReturns PROVE SceneInv'
<1>1. /\ DOMAIN paint = 1 .. Len(paint) /\ Len(paint) \in Nat /\ at.i \in Nat
      /\ owed \subseteq Scenes /\ paint \in Seq(Scenes) /\ ready \subseteq Scenes
      /\ is_paint_init \in Seq(BOOLEAN) /\ Len(is_paint_init) = Len(paint)
      /\ DOMAIN is_paint_init = DOMAIN paint
  BY LenProperties DEF SceneInv, SceneTypeOK
<1>2. at.loop = "initialize" /\ InCallback /\ ~crash
  BY DEF InitializeReturns, InLoop, InCallback
<1>3. UNCHANGED <<paint, views, shifted, calls>>
  BY DEF InitializeReturns
<1>4. ~shifted => at.i \in DOMAIN paint
  BY <1>2 DEF SceneInv, InRange
<1>5. CASE at.i \notin DOMAIN paint
  <2>1. crash' = TRUE /\ UNCHANGED <<ready, is_paint_init, at, owed>> /\ shifted
    BY <1>4, <1>5 DEF InitializeReturns
  <2>2. InRange' /\ OwedAhead' /\ InitFirst' /\ CrashHasCause'
    BY <1>3, <2>1 DEF InRange, OwedAhead, InitFirst, CrashHasCause
  <2> QED BY <1>1, <1>3, <2>1, <2>2, LoopCalls DEF SceneInv, SceneTypeOK
<1>6. CASE at.i \in DOMAIN paint
  <2>1. /\ ready' = ready \cup (IF shifted THEN {} ELSE {paint[at.i]})
        /\ ready' \subseteq Scenes
    BY <1>1, <1>6, ElementOfSeq DEF InitializeReturns
  <2>2. /\ is_paint_init' = [is_paint_init EXCEPT ![at.i] = TRUE]
        /\ at' = Turn("paint", at.i) /\ owed' = owed \ {paint[at.i]} /\ crash' = crash
    BY <1>6 DEF InitializeReturns
  <2>3. /\ is_paint_init' \in Seq(BOOLEAN) /\ Len(is_paint_init') = Len(paint)
        /\ DOMAIN is_paint_init' = DOMAIN paint
        /\ \A k \in DOMAIN paint : k # at.i => is_paint_init'[k] = is_paint_init[k]
    <3>1. is_paint_init \in [1 .. Len(paint) -> BOOLEAN]
      BY <1>1, LenProperties, ElementOfSeq
    <3>2. is_paint_init' \in [1 .. Len(paint) -> BOOLEAN]
      BY <2>2, <3>1, Zenon
    <3>3. \A k \in DOMAIN paint : k # at.i => is_paint_init'[k] = is_paint_init[k]
      BY <1>1, <2>2, <3>1, Zenon
    <3>4. is_paint_init' \in Seq(BOOLEAN)
      BY <1>1, <3>2
    <3> QED BY <1>1, <3>2, <3>3, <3>4, LenProperties
  <2>4. at' \in [loop : Loops \cup {"none"}, i : Nat] /\ at'.loop = "paint" /\ at'.i = at.i
    BY <1>1, <2>2 DEF Turn, Loops
  <2>5. InRange' /\ CrashHasCause'
    BY <1>2, <1>3, <1>6, <2>2, <2>4 DEF InRange, CrashHasCause
  <2>6. OwedAhead'
    <3> SUFFICES ASSUME ~shifted, NEW x \in owed \ {paint[at.i]}
                 PROVE  \E k \in DOMAIN paint : paint[k] = x /\ k > at.i
      BY <1>3, <2>2, <2>4 DEF OwedAhead, Ahead
    <3>1. PICK k \in DOMAIN paint : paint[k] = x /\ k >= at.i
      BY <1>2 DEF SceneInv, OwedAhead, Ahead, Loops
    <3> QED BY <1>1, <3>1
  <2>7. InitFirst'
    <3>1. ASSUME ~shifted, NEW k \in DOMAIN paint, is_paint_init'[k] PROVE paint[k] \in ready'
      <4>1. CASE k = at.i
        BY <2>1, <3>1, <4>1
      <4>2. CASE k # at.i
        BY <2>1, <2>3, <3>1, <4>2 DEF SceneInv, InitFirst
      <4> QED BY <4>1, <4>2
    <3>2. ~shifted => paint[at.i] \in ready'
      BY <2>1
    <3> QED BY <1>3, <2>4, <3>1, <3>2 DEF InitFirst
  <2>8. SceneTypeOK'
    BY <1>1, <1>3, <2>1, <2>2, <2>3, <2>4 DEF SceneInv, SceneTypeOK, views
  <2> QED BY <2>5, <2>6, <2>7, <2>8 DEF SceneInv
<1> QED BY <1>5, <1>6

\* The steps of the render loop itself, the end of a frame, and nothing.
LEMMA RestKeeps ==
    ASSUME SceneInv, LoopStep \/ EndFrame \/ UNCHANGED windowVars PROVE SceneInv'
<1>1. CASE LoopStep
  <2>1. UNCHANGED sceneVars
    BY <1>1 DEF LoopStep
  <2>2. InRange' /\ OwedAhead' /\ InitFirst'
    BY <2>1, ScenesKept DEF sceneVars, loopVars
  <2> QED BY <2>1, <2>2 DEF sceneVars, loopVars, scenes, views, SceneInv, SceneTypeOK, CrashHasCause
<1>2. CASE EndFrame
  <2>1. /\ UNCHANGED <<scenes, views, ready, shifted, crash, calls>>
        /\ at' = Outside /\ owed' = {}
    BY <1>2 DEF EndFrame
  <2>2. crash' \in BOOLEAN /\ CrashHasCause'
    BY <2>1 DEF SceneInv, SceneTypeOK, CrashHasCause, views
  <2> QED BY <2>1, <2>2, LoopEnds
<1>3. CASE UNCHANGED windowVars
  <2>1. UNCHANGED sceneVars
    BY <1>3 DEF windowVars
  <2>2. InRange' /\ OwedAhead' /\ InitFirst'
    BY <2>1, ScenesKept DEF sceneVars, loopVars
  <2> QED BY <2>1, <2>2 DEF sceneVars, loopVars, scenes, views, SceneInv, SceneTypeOK, CrashHasCause
<1> QED BY <1>1, <1>2, <1>3

LEMMA CallingKeeps == ASSUME SceneInv, Calling PROVE SceneInv'
BY InsertSceneKeeps, DeleteSceneKeeps, CamerasKeep, SetCameraKeeps, ControlsKeep DEF Calling

\* The inductive invariant.
THEOREM SceneCorrect == SceneSpec => []SceneInv
<1>1. SceneInv /\ [SceneNext]_windowVars => SceneInv'
  BY RestKeeps, CallingKeeps, BeginFrameKeeps, InitializeReturnsKeeps,
     PaintReturnsKeeps DEF SceneNext
<1> QED BY <1>1, SceneInvInit, PTL DEF SceneSpec

\* The state of the window's lists and loops keeps its type.
THEOREM SceneTypeCorrect == SceneSpec => []SceneTypeOK
<1>1. SceneInv => SceneTypeOK
  BY DEF SceneInv
<1> QED BY <1>1, SceneCorrect, PTL

\* No scene is painted before its initialize() has returned.
THEOREM InitFirstCorrect == SceneSpec => []InitFirst
<1>1. SceneInv => InitFirst
  BY DEF SceneInv
<1> QED BY <1>1, SceneCorrect, PTL

\* The loop over the scenes stays in the list, unless a callback removed a scene
\* it had come to.
THEOREM CrashCorrect == SceneSpec => []CrashHasCause
<1>1. SceneInv => CrashHasCause
  BY DEF SceneInv
<1> QED BY <1>1, SceneCorrect, PTL
---------------------------------------------------------------------------
(* The action properties.                                                  *)

\* A loop that ends owes nothing.
LEMMA EndsPaid ==
    ASSUME SceneInv, SceneNext, at.loop \in Loops, at'.loop \in {"none", "swap"}, ~shifted
    PROVE  owed = {}
<1>1. CASE PaintReturns
  <2>1. at.i + 1 \notin DOMAIN paint /\ at.loop = "paint"
    BY <1>1 DEF PaintReturns, GoesTo, InLoop, Turn
  <2> QED BY <2>1, MovesOn DEF InCallback
<1>2. CASE EndFrame
  <2>1. at.loop = "swap"
    BY <1>2 DEF EndFrame, InLoop
  <2> QED BY <2>1 DEF SceneInv, OwedAhead, Ahead
<1>3. CASE InitializeReturns
  BY <1>3 DEF InitializeReturns, InLoop, Turn, SceneInv, InRange, InCallback
<1>4. CASE LoopStep \/ BeginFrame
  BY <1>4 DEF LoopStep, BeginFrame, InLoop, Loops
<1>5. CASE Calling
  <2>1. at' = at
    BY <1>5 DEF Calling, ApiCall, InsertScene, DeleteScene, InsertCamera, DeleteCamera,
                SetCamera, InsertControl, DeleteControl
  <2>2. at.loop = "swap"
    BY <2>1 DEF Loops
  <2> QED BY <2>2 DEF SceneInv, OwedAhead, Ahead
<1> QED BY <1>1, <1>2, <1>3, <1>4, <1>5 DEF SceneNext

\* A frame reaches every scene that stays in the list.
THEOREM ReachesAllCorrect == SceneSpec => ReachesAll
<1>1. SceneInv /\ [SceneNext]_windowVars
      => [at.loop \in Loops /\ at'.loop \in {"none", "swap"} /\ ~shifted => owed = {}]_windowVars
  BY EndsPaid
<1> QED BY <1>1, SceneCorrect, PTL DEF SceneSpec, ReachesAll

\* A call leaves the controls with the default camera, or made the first of a
\* list that was empty.
LEMMA CallFollows ==
    ASSUME SceneInv, Calling, SameCamera, ~(camera = <<>> /\ Len(camera') = 1)
    PROVE  SameCamera'
<1>1. camera_ctrl \in Seq(Controls) /\ Elems(camera_ctrl) \subseteq Controls
      /\ camera \in Seq(Cameras) /\ cameras \in [Controls -> Cameras \cup {None}]
  BY ElementOfSeq, LenProperties DEF SceneInv, SceneTypeOK, Elems
<1>2. ASSUME NEW s \in Scenes, InsertScene(s) \/ DeleteScene(s) PROVE SameCamera'
  BY <1>2 DEF InsertScene, DeleteScene, views, SameCamera, Elems
<1>3. ASSUME NEW c \in Cameras, InsertCamera(c) PROVE SameCamera'
  <2>1. camera # <<>>
    <3>1. camera' = Append(camera, c)
      BY <1>3 DEF InsertCamera
    <3>2. camera = <<>> => Len(camera') = 1
      BY <1>1, <3>1
    <3> QED BY <3>2
  <2>2. camera_default' = camera_default /\ camera_ctrl' = camera_ctrl
    BY <1>3, <2>1 DEF InsertCamera
  <2>3. CASE is_control_camera
    BY <1>1, <1>3, <2>2, <2>3 DEF InsertCamera, GivenAll, SameCamera, Elems
  <2>4. CASE ~is_control_camera
    BY <1>3, <2>2, <2>4 DEF InsertCamera, SameCamera, Elems
  <2> QED BY <2>3, <2>4
<1>4. ASSUME NEW c \in Cameras, DeleteCamera(c) PROVE SameCamera'
  BY <1>4 DEF DeleteCamera, SameCamera, Elems
<1>5. ASSUME NEW c \in Cameras \cup {None}, SetCamera(c) PROVE SameCamera'
  BY <1>1, <1>5 DEF SetCamera, GivenAll, SameCamera, Elems
<1>6. ASSUME NEW k \in Controls, InsertControl(k) PROVE SameCamera'
  <2>1. Grew(Controls, camera_ctrl, k, camera_ctrl')
    BY <1>1, <1>6, Appended DEF InsertControl
  <2>2. Elems(camera_ctrl') = Elems(camera_ctrl) \cup {k}
    BY <2>1, Zenon DEF Grew
  <2>3. \A x \in Elems(camera_ctrl') : camera_default # None => cameras'[x] = camera_default
    BY <1>1, <1>6, <2>2 DEF InsertControl, SameCamera
  <2> QED BY <1>6, <2>3 DEF InsertControl, SameCamera, Elems
<1>7. ASSUME NEW k \in Controls, DeleteControl(k) PROVE SameCamera'
  <2>1. PICK f \in Stays(camera_ctrl, k) : camera_ctrl' = Picked(camera_ctrl, f)
    BY <1>7 DEF DeleteControl
  <2>2. PICK n \in Nat : f \in [1 .. n -> DOMAIN camera_ctrl]
    BY <1>1, <2>1, StaysRight DEF StayInPlace
  <2>3. Elems(camera_ctrl') \subseteq Elems(camera_ctrl)
    BY <2>1, <2>2 DEF Picked, Elems
  <2>4. \A x \in Elems(camera_ctrl') : camera_default # None => cameras[x] = camera_default
    BY <2>3 DEF SameCamera
  <2> QED BY <1>7, <2>4 DEF DeleteControl, SameCamera, Elems
<1> QED BY <1>2, <1>3, <1>4, <1>5, <1>6, <1>7 DEF Calling

\* The controls stop following the window's camera in one way only.
THEOREM ControlsFollowCorrect == SceneSpec => ControlsFollow
<1>1. ASSUME SceneInv, SceneNext, ~Calling PROVE SameCamera => SameCamera'
  BY <1>1 DEF SceneNext, LoopStep, sceneVars, views, BeginFrame,
     InitializeReturns, PaintReturns, EndFrame, SameCamera, Elems
<1>2. SceneInv /\ [SceneNext]_windowVars
      => [SameCamera /\ ~SameCamera' => camera = <<>> /\ Len(camera') = 1]_windowVars
  BY <1>1, CallFollows
<1> QED BY <1>2, SceneCorrect, PTL DEF SceneSpec, ControlsFollow
=============================================================================
