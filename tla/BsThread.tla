----------------------------- MODULE BsThread -----------------------------
(***************************************************************************)
(* bs_thread: objects that each execute their run() in a thread of their   *)
(* own, started and waited for by several other threads.  The threads are  *)
(* created detached and the system gives a dead thread's id to a new one.  *)
(* The calls of thread_map lock nothing; race tells that two overlapped,   *)
(* after which the map's content means nothing.                            *)
(***************************************************************************)
CONSTANTS
    Objects,   \* the bs_thread objects
    Users,     \* the threads that call them
    Ids,       \* the pthread ids of the threads they may have at a time
    None       \* nobody: no owner, and the thread_id 0

ASSUME ThreadAssumptions ==
    None \notin Users \cup Ids

VARIABLES
    running,    \* bs_thread::__running
    joinable,   \* bs_thread::__joinable
    id,         \* bs_thread::__thread_id
    wait_mutex, \* the owner of bs_thread::__wait_mutex
    thread_map, \* bs_thread::thread_map, as pairs of an id and an object
    race,       \* history: two calls of thread_map overlapped
    pc, call, object,  \* what each user does, for which call, on which object
    tpc, of     \* what the thread of each id does, and for which object

objects == <<running, joinable, id, wait_mutex>>
users == <<pc, call, object>>
threads == <<tpc, of>>
map == <<thread_map, race>>
threadVars == <<objects, users, threads, map>>

UserSteps == {"idle", "lock", "join", "unlock", "create", "append",
              "appending", "joinable"}
ThreadSteps == {"none", "run", "reset", "remove", "removing"}
---------------------------------------------------------------------------
ThreadInit ==
    /\ running = [o \in Objects |-> FALSE]
    /\ joinable = [o \in Objects |-> FALSE]
    /\ id = [o \in Objects |-> None]
    /\ wait_mutex = [o \in Objects |-> None]
    /\ thread_map = {}
    /\ race = FALSE
    /\ pc = [u \in Users |-> "idle"]
    /\ call = [u \in Users |-> "none"]
    /\ object \in [Users -> Objects]
    /\ tpc = [i \in Ids |-> "none"]
    /\ of \in [Ids -> Objects]

Goes(u, from, to) == pc[u] = from /\ pc' = [pc EXCEPT ![u] = to]
Returns(u, from) ==
    Goes(u, from, "idle") /\ call' = [call EXCEPT ![u] = "none"]
Turns(i, from, to) == tpc[i] = from /\ tpc' = [tpc EXCEPT ![i] = to]

Called(u, o, c) ==
    /\ call' = [call EXCEPT ![u] = c]
    /\ object' = [object EXCEPT ![u] = o]

\* Mutant: __running is set but not tested.
StartAnyway(u, o) ==
    /\ Called(u, o, "start")
    /\ Goes(u, "idle", "lock")
    /\ running' = [running EXCEPT ![o] = TRUE]
    /\ UNCHANGED <<joinable, id, wait_mutex, threads, map>>

\* start(): __running.bcswap(false, true).
Start(u, o) ==
    /\ IF running[o]
       THEN pc[u] = "idle" /\ UNCHANGED <<pc, call, object>>
       ELSE Goes(u, "idle", "lock") /\ Called(u, o, "start")
    /\ running' = [running EXCEPT ![o] = TRUE]
    /\ UNCHANGED <<joinable, id, wait_mutex, threads, map>>

\* wait() called by a thread that is not the object's own.
Wait(u, o) ==
    /\ Called(u, o, "wait")
    /\ Goes(u, "idle", "lock")
    /\ UNCHANGED <<objects, threads, map>>

Lock(u) ==
    /\ Goes(u, "lock", "join")
    /\ wait_mutex[object[u]] = None
    /\ wait_mutex' = [wait_mutex EXCEPT ![object[u]] = u]
    /\ UNCHANGED <<running, joinable, id, call, object, threads, map>>

\* start() goes on, wait() returns.
AfterWait(u, from) ==
    \/ call[u] = "start" /\ Goes(u, from, "create") /\ UNCHANGED call
    \/ call[u] = "wait" /\ Returns(u, from)

\* Mutant: the return after a failed pthread_join forgets the mutex.
JoinKeepsLock(u) ==
    /\ IF joinable[object[u]]
       THEN AfterWait(u, "join")
       ELSE Goes(u, "join", "unlock") /\ UNCHANGED call
    /\ joinable' = [joinable EXCEPT ![object[u]] = FALSE]
    /\ UNCHANGED <<running, id, wait_mutex, object, threads, map>>

\* pthread_join of a detached thread returns an error at once.
Join(u) ==
    /\ Goes(u, "join", "unlock")
    /\ joinable' = [joinable EXCEPT ![object[u]] = FALSE]
    /\ UNCHANGED <<running, id, wait_mutex, call, object, threads, map>>

Unlock(u) ==
    /\ AfterWait(u, "unlock")
    /\ wait_mutex' = [wait_mutex EXCEPT ![object[u]] = None]
    /\ UNCHANGED <<running, joinable, id, object, threads, map>>

\* Mutant: the new thread's id is not written.
CreateOnly(u) ==
    \E i \in Ids :
        /\ Goes(u, "create", "append")
        /\ Turns(i, "none", "run")
        /\ of' = [of EXCEPT ![i] = object[u]]
        /\ UNCHANGED <<objects, call, object, map>>

\* pthread_create, which writes __thread_id before the thread runs.
Create(u) ==
    \E i \in Ids :
        /\ Goes(u, "create", "append")
        /\ Turns(i, "none", "run")
        /\ of' = [of EXCEPT ![i] = object[u]]
        /\ id' = [id EXCEPT ![object[u]] = i]
        /\ UNCHANGED <<running, joinable, wait_mutex, call, object, map>>

\* No thread is left: start() returns false and leaves __running set.
CreateFails(u) ==
    /\ \A i \in Ids : tpc[i] # "none"
    /\ Returns(u, "create")
    /\ UNCHANGED <<objects, object, threads, map>>

Overlaps ==
    race' = (race \/ (\E u \in Users : pc[u] = "appending")
                  \/ (\E i \in Ids : tpc[i] = "removing"))

\* thread_map.append(__thread_id, this), then __joinable = true.
BeginAppend(u) ==
    /\ Goes(u, "append", "appending")
    /\ Overlaps
    /\ UNCHANGED <<objects, call, object, threads, thread_map>>

Append(u) ==
    /\ Goes(u, "appending", "joinable")
    /\ thread_map' = thread_map \cup {<<id[object[u]], object[u]>>}
    /\ UNCHANGED <<objects, call, object, threads, race>>

SetJoinable(u) ==
    /\ Returns(u, "joinable")
    /\ joinable' = [joinable EXCEPT ![object[u]] = TRUE]
    /\ UNCHANGED <<running, id, wait_mutex, object, threads, map>>
---------------------------------------------------------------------------
(* bs_thread::__run.                                                       *)

\* run() returns or throws.
EndRun(i) ==
    /\ Turns(i, "run", "reset")
    /\ UNCHANGED <<objects, users, of, map>>

Reset(i) ==
    /\ Turns(i, "reset", "remove")
    /\ running' = [running EXCEPT ![of[i]] = FALSE]
    /\ UNCHANGED <<joinable, id, wait_mutex, users, of, map>>

\* thread_map.remove(t->__thread_id), by then perhaps a newer thread's id.
BeginRemove(i) ==
    /\ Turns(i, "remove", "removing")
    /\ Overlaps
    /\ UNCHANGED <<objects, users, of, thread_map>>

Remove(i) ==
    /\ Turns(i, "removing", "none")
    /\ thread_map' = {e \in thread_map : e[1] # id[of[i]]}
    /\ UNCHANGED <<objects, users, of, race>>
---------------------------------------------------------------------------
UserStep(u) ==
    \/ Lock(u) \/ Join(u) \/ Unlock(u)
    \/ Create(u) \/ CreateFails(u)
    \/ BeginAppend(u) \/ Append(u) \/ SetJoinable(u)

Leave(i) == Reset(i) \/ BeginRemove(i) \/ Remove(i)

ThreadNext ==
    \/ \E u \in Users : UserStep(u) \/ (\E o \in Objects : Start(u, o) \/ Wait(u, o))
    \/ \E i \in Ids : EndRun(i) \/ Leave(i)

ThreadSpec == ThreadInit /\ [][ThreadNext]_threadVars
---------------------------------------------------------------------------
\* The type of the state.
ThreadTypeOK ==
    /\ running \in [Objects -> BOOLEAN]
    /\ joinable \in [Objects -> BOOLEAN]
    /\ id \in [Objects -> Ids \cup {None}]
    /\ wait_mutex \in [Objects -> Users \cup {None}]
    /\ thread_map \subseteq Ids \X Objects
    /\ race \in BOOLEAN
    /\ pc \in [Users -> UserSteps]
    /\ call \in [Users -> {"none", "start", "wait"}]
    /\ object \in [Users -> Objects]
    /\ tpc \in [Ids -> ThreadSteps]
    /\ of \in [Ids -> Objects]

\* A user between the test of __running and pthread_create, and a thread up to
\* its reset of __running, are about to run, or run, the object's run().
Starting(u, o) ==
    /\ object[u] = o
    /\ call[u] = "start"
    /\ pc[u] \in {"lock", "join", "unlock", "create"}
Runs(i, o) == of[i] = o /\ tpc[i] \in {"run", "reset"}

\* bs_thread.h:240, start "does nothing if it runs": although wait() does not
\* wait, an object's run() is executed by one thread at a time, is_running()
\* tells so, and nobody is about to create a second one.
OneRun ==
    \A o \in Objects :
        /\ \A i, j \in Ids : Runs(i, o) /\ Runs(j, o) => i = j
        /\ \A i \in Ids : Runs(i, o) => running[o] /\ \A u \in Users : ~Starting(u, o)

\* id() is the id of the thread that executes run(), whoever called start()
\* since and whatever older threads of the object are still ending.
IdOfRunner == \A i \in Ids : tpc[i] \in {"run", "reset"} => id[of[i]] = i

\* __running belongs to one start() or to one thread, and a start() that goes on
\* to thread_map has an id to write.
StartsAlone ==
    \A o \in Objects, u \in Users : Starting(u, o) =>
        running[o] /\ \A v \in Users : Starting(v, o) => v = u

IdWritten ==
    \A u \in Users : pc[u] \in {"append", "appending"} => id[object[u]] \in Ids

OnlyStartCreates == \A u \in Users : pc[u] = "create" => call[u] = "start"

\* The inductive invariant.
ThreadInv ==
    /\ ThreadTypeOK
    /\ OneRun
    /\ IdOfRunner
    /\ StartsAlone
    /\ IdWritten
    /\ OnlyStartCreates
===========================================================================
