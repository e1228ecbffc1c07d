------------------------------- MODULE Timer -------------------------------
(***************************************************************************)
(* bs_timer in TimerMode_Timing: a bs_thread whose run() loops on          *)
(* current_state and calls back.  The calls of a timer store current_state *)
(* without a lock.  Time is abstracted: the loop may find its timeout      *)
(* reached whenever it looks.                                              *)
(***************************************************************************)
EXTENDS Naturals, BsThread

VARIABLES
    current_state, \* bs_timer::current_state
    on, step,      \* the timer each user calls, and what is left of the call
    loop,          \* where the thread of each id is in run()
    late           \* history: callbacks since the timer was stopped

timerVars == <<current_state, on, step, loop, late>>
vars == <<threadVars, timerVars>>

TimerSteps == {"none", "start", "finish", "pause", "resume"}
States == {"Stop", "Run", "Pause"}
---------------------------------------------------------------------------
Init ==
    /\ ThreadInit
    /\ current_state = [o \in Objects |-> "Stop"]
    /\ on \in [Users -> Objects]
    /\ step = [u \in Users |-> "none"]
    /\ loop = [i \in Ids |-> "look"]
    /\ late = [o \in Objects |-> 0]

\* A user that is in no call.
Free(u) == pc[u] = "idle" /\ step[u] = "none"

Then(u, s) == step' = [step EXCEPT ![u] = s]
Ends(u) == Then(u, "none") /\ UNCHANGED on

Store(o, s) ==
    /\ current_state' = [current_state EXCEPT ![o] = s]
    /\ late' = IF s = "Stop" THEN late ELSE [late EXCEPT ![o] = 0]

Enter(u, o) ==
    /\ Free(u)
    /\ on' = [on EXCEPT ![u] = o]
    /\ UNCHANGED <<threadVars, loop>>

\* start(msec) stores Run and goes on to bs_thread::start().
StartTimer(u, o) ==
    /\ Enter(u, o)
    /\ Store(o, "Run")
    /\ Then(u, "start")

\* stop(is_wait) stores Stop and may go on to bs_thread::finish().
StopTimer(u, o) ==
    /\ Enter(u, o)
    /\ Store(o, "Stop")
    /\ \E s \in {"none", "finish"} : Then(u, s)

\* pause() and resume() test the state, then store theirs.
TestState(u, o) ==
    /\ Enter(u, o)
    /\ current_state[o] # "Stop"
    /\ \E s \in {"pause", "resume"} : Then(u, s)
    /\ UNCHANGED <<current_state, late>>

StoreState(u) ==
    /\ \/ step[u] = "pause" /\ Store(on[u], "Pause")
       \/ step[u] = "resume" /\ Store(on[u], "Run")
    /\ Ends(u)
    /\ UNCHANGED <<threadVars, loop>>

StartThread(u) ==
    /\ step[u] = "start"
    /\ Start(u, on[u])
    /\ Ends(u)
    /\ UNCHANGED <<current_state, loop, late>>

Finish(u) ==
    /\ step[u] = "finish"
    /\ Wait(u, on[u])
    /\ Ends(u)
    /\ UNCHANGED <<current_state, loop, late>>
---------------------------------------------------------------------------
(* bs_timer::run.                                                          *)

At(i, l) == tpc[i] = "run" /\ loop[i] = l

\* Mutants: a stopped timer goes on, or waits as a paused one does.
LookPast(i) ==
    /\ At(i, "look")
    /\ loop' = [loop EXCEPT ![i] = "callback"]
    /\ UNCHANGED <<threadVars, current_state, on, step, late>>

LookForEver(i) ==
    /\ At(i, "look")
    /\ current_state[of[i]] = "Run"
    /\ loop' = [loop EXCEPT ![i] = "callback"]
    /\ UNCHANGED <<threadVars, current_state, on, step, late>>

\* The loop looks at current_state: it ends, finds the timeout reached, or
\* sleeps and looks again.
Look(i) ==
    /\ At(i, "look")
    /\ UNCHANGED <<current_state, on, step, late>>
    /\ \/ current_state[of[i]] = "Stop" /\ EndRun(i) /\ UNCHANGED loop
       \/ /\ current_state[of[i]] = "Run"
          /\ loop' = [loop EXCEPT ![i] = "callback"]
          /\ UNCHANGED threadVars

\* callback(NULL), which may call stop() as hover_times does.
Callback(i) ==
    /\ At(i, "callback")
    /\ loop' = [loop EXCEPT ![i] = "look"]
    /\ \/ UNCHANGED current_state
       \/ current_state' = [current_state EXCEPT ![of[i]] = "Stop"]
    /\ late' = [late EXCEPT ![of[i]] = IF current_state[of[i]] = "Stop" THEN @ + 1 ELSE @]
    /\ UNCHANGED <<threadVars, on, step>>
---------------------------------------------------------------------------
InCall(u) ==
    \/ StoreState(u) \/ StartThread(u) \/ Finish(u)
    \/ UserStep(u) /\ UNCHANGED timerVars

InThread(i) ==
    \/ Look(i) \/ Callback(i)
    \/ Leave(i) /\ UNCHANGED timerVars

Next ==
    \/ \E u \in Users : \/ InCall(u)
                          \/ \E o \in Objects :
                                 StartTimer(u, o) \/ StopTimer(u, o) \/ TestState(u, o)
    \/ \E i \in Ids : InThread(i)

Spec == Init /\ [][Next]_vars

\* Every thread that can take a step takes one; nobody is obliged to call.
Fairness ==
    /\ \A u \in Users : WF_vars(InCall(u))
    /\ \A i \in Ids : WF_vars(InThread(i))

FairSpec == Spec /\ Fairness
---------------------------------------------------------------------------
(* Properties.                                                             *)

\* The type of the state.
TimerTypeOK ==
    /\ current_state \in [Objects -> States]
    /\ on \in [Users -> Objects]
    /\ step \in [Users -> TimerSteps]
    /\ loop \in [Ids -> {"look", "callback"}]
    /\ late \in [Objects -> Nat]

TypeOK == ThreadTypeOK /\ TimerTypeOK

\* bs_timer.h:30, stop "stops": stop() does not wait for the thread, yet after
\* it has stored its state at most the one callback already decided on comes.
LateCallbacks == \A o \in Objects : late[o] <= 1

\* Its inductive form: a callback that is due after the stop is the first, and
\* only a thread in run() has one due.
LateInv ==
    /\ \A o \in Objects : late[o] <= 1 /\ (current_state[o] # "Stop" => late[o] = 0)
    /\ \A i \in Ids : loop[i] = "callback" => tpc[i] = "run" /\ late[of[i]] = 0

\* A stopped timer's thread ends, unless somebody takes the timer out of its
\* stop again.
StopEnds ==
    \A o \in Objects :
        current_state[o] = "Stop" ~>
            (current_state[o] # "Stop" \/ \A i \in Ids : ~Runs(i, o))

\* No call keeps __wait_mutex: wait() and start() release it on every path.
MutexReleased ==
    \A o \in Objects : wait_mutex[o] # None ~> wait_mutex[o] = None
===========================================================================
