---------------------------- MODULE RenderLoop ----------------------------
(***************************************************************************)
(* The render loop of a window: the X11 dispatcher (x11_window::dispatch   *)
(* and window_base::callback), the render thread (context_thread::run) and *)
(* what they share: the style bits, _render, _loop, the mutex and the      *)
(* condition of window_base, the GL context and the viewport.              *)
(*                                                                         *)
(* The dispatcher is a stack of pending calls, todo: a handler pushes the  *)
(* calls its body makes and each call is one action.  A render thread is a *)
(* pc that walks context_thread::run.                                      *)
(***************************************************************************)
EXTENDS Naturals, Sequences

CONSTANTS
    MultiThread,  \* Window_MultiThread is in the window's style
    AlwaysRun,    \* Window_AlwaysRun is in the window's style
    Threads,      \* the threads pthread_create can make before it fails
    Updaters,     \* other threads in which a connected scene emits NULL
    Disp,         \* the dispatcher, the main thread
    None,         \* nobody
    GlewFails,    \* glewInit() may fail in the dispatcher
    Emits,        \* a connected object emits NULL in the dispatcher
    CallsStop,    \* a derived window calls the protected render_stop()
    MaxEvents,    \* bound: X events delivered
    MaxUpdates,   \* bound: calls of update()
    MaxStops,     \* bound: calls of render_stop()
    MaxSize       \* bound: the changes a width or a height goes through

ASSUME Assumptions ==
    /\ MultiThread \in BOOLEAN /\ AlwaysRun \in BOOLEAN
    /\ GlewFails \in BOOLEAN /\ Emits \in BOOLEAN /\ CallsStop \in BOOLEAN
    /\ MaxEvents \in Nat /\ MaxUpdates \in Nat /\ MaxStops \in Nat /\ MaxSize \in Nat
    /\ Disp \notin Threads \cup Updaters
    /\ None \notin Threads \cup {Disp}
    \* without a render thread bs_object's rule holds: one thread per object
    /\ ~MultiThread => Updaters = {}

VARIABLES
    todo,      \* the calls the dispatcher has still to make
    quit,      \* "run", then "exiting" once Window_Exit is sent, "returned"
    is_exit,   \* x11_window's is_exit
    is_initw,  \* the static of x11_window's send_event
    upc,       \* the updaters' positions
    pc,        \* the render threads' positions
    mutex,     \* the owner of window_base's mutex
    waiting,   \* the threads blocked in window_base's condition
    render,    \* ctx_thread::_render
    loop,      \* ctx_thread::_loop
    running,   \* bs_thread::__running of the context_thread
    is_run,    \* impl::base::_is_run
    is_ctx,    \* impl::base::_is_ctx
    context,   \* impl::base::_context is not null
    pipeline,  \* bs_render's pipeline is not null
    pipe,      \* graphs_window's pipe is not null
    current,   \* the threads the GL context is current in
    geometry,  \* the window's width and height, each counted by its changes
    viewport,  \* the width and height in the context's viewport
    frame,     \* those that the parts of the frame being painted were given
    unread,    \* the components the part at hand has still to read
    shown,     \* the frame last swapped to the screen
    late,      \* history: frames swapped since _render was cleared
    fault,     \* history: a null pointer was used
    events, updates, stops  \* counters of the bounded inputs

envVars   == <<quit, is_exit, is_initw, events, updates, stops>>
ctxVars   == <<is_ctx, context, pipeline>>
glVars    == <<pipe, current>>
startVars == <<is_run, running>>
flags     == <<render, loop>>
sync      == <<mutex, waiting>>
view      == <<geometry, viewport>>
painted   == <<frame, unread, shown, late>>
counters  == <<events, updates, stops>>
vars == <<todo, envVars, upc, pc, sync, flags, startVars, ctxVars, glVars,
          view, painted, fault>>

\* The viewport is a vector of four integers.  Two of them are always zero; the
\* other two are written, and read, one by one.
Dims == {"width", "height"}

\* Those who read it in paints(): the pipeline, the camera and the scenes, for
\* which one stands.  They are given references and read a component more than
\* once; one of the readings, whichever, stands for each.
Parts == {"viewport", "camera", "scene"}
---------------------------------------------------------------------------
(* The event codes are the sets of their bits, so & is intersection.       *)

Window_Input      == {28}
Window_Initialize == {28, 0}
Window_Paint      == {28, 1}
Window_Resize     == {28, 0, 1}
Window_Exit       == {28, 2}
Event_Mouse       == {29}

Codes == {Window_Initialize, Window_Paint, Window_Resize, Window_Exit,
          Event_Mouse}

Has(code, mask) == code \cap mask # {}

is_window(code) == 28 \in code

\* The branch window_base::callback takes.
Branch(code) ==
    IF is_window(code) /\ Has(code, Window_Initialize) THEN "Initialize"
    ELSE IF is_window(code) /\ Has(code, Window_Exit) THEN "Exit"
    ELSE IF is_window(code) /\ Has(code, Window_Paint) THEN "Paint"
    ELSE IF is_window(code) /\ Has(code, Window_Resize) THEN "Resize"
    ELSE IF Has(code, Window_Input) THEN "Input"
    ELSE "Ignore"

If(style, calls) == IF style THEN calls ELSE <<>>

\* Mutant: the render thread is started before the context is set up.
StartFirst(code) ==
    IF Branch(code) = "Ignore" THEN <<>>
    ELSE If(MultiThread, <<"start">>) \o <<"initialize", "viewport", "activa">>

\* The calls the branch makes, in order.
Handler(code) ==
    CASE Branch(code) = "Initialize" ->
             <<"initialize", "viewport">> \o If(MultiThread, <<"start", "activa">>)
      [] Branch(code) = "Exit"   -> If(MultiThread, <<"stop">>)
      [] Branch(code) = "Paint"  ->
             <<"initialize", "viewport">> \o If(MultiThread, <<"start">>) \o <<"activa">>
      [] Branch(code) = "Resize" -> <<"initialize", "viewport", "activa">>
      [] Branch(code) = "Input"  -> <<"update", "activa">>
      [] OTHER -> <<>>

Calls == {"initialize", "viewport", "start", "activa", "update", "wake",
          "stop", "stop_locked", "lock", "unlock", "wait"}

Positions == {"unborn", "make0", "initializes", "done0", "test", "lock", "make",
              "viewport", "camera", "scene", "swap", "unlock", "loop", "lockw",
              "wait", "asleep", "unlockw", "end", "dead"}
---------------------------------------------------------------------------
Init ==
    /\ todo = <<>>
    /\ quit = "run"
    /\ is_exit = FALSE
    /\ is_initw = FALSE
    /\ upc = [u \in Updaters |-> "idle"]
    /\ pc = [t \in Threads |-> "unborn"]
    /\ mutex = None
    /\ waiting = {}
    /\ render = TRUE
    /\ loop = FALSE
    /\ running = FALSE
    /\ is_run = FALSE
    /\ is_ctx = FALSE
    /\ context = FALSE
    /\ pipeline = FALSE
    /\ pipe = FALSE
    /\ current = {}
    /\ geometry = [d \in Dims |-> 1]
    /\ viewport = [d \in Dims |-> 0]
    /\ frame = [p \in Parts |-> viewport]
    /\ unread = Dims
    /\ shown = frame
    /\ late = 0
    /\ fault = FALSE
    /\ events = 0
    /\ updates = 0
    /\ stops = 0
---------------------------------------------------------------------------
(* The dispatcher between two events.                                      *)

Idle == todo = <<>> /\ quit = "run"

\* self->emit() reaches window_base::callback with the event's code.
Send(code) ==
    /\ todo' = Handler(code)
    /\ is_ctx' = (is_ctx /\ Branch(code) # "Exit")
    /\ UNCHANGED <<context, pipeline>>

\* The width and the height an Expose or a ConfigureNotify brings may be new
\* ones; each is taken or refused by a test of its own.
NewGeometry ==
    \E new \in SUBSET {d \in Dims : geometry[d] < MaxSize} :
        geometry' = [d \in Dims |-> IF d \in new THEN geometry[d] + 1 ELSE geometry[d]]

NextEvent ==
    /\ Idle
    /\ ~is_exit
    /\ events < MaxEvents
    /\ events' = events + 1
    /\ UNCHANGED <<startVars, flags, sync, painted, glVars, quit, is_exit,
                   updates, stops, upc, pc, viewport, fault>>

Expose ==
    /\ NextEvent
    /\ NewGeometry
    /\ Send(IF is_initw THEN Window_Paint ELSE Window_Initialize)
    /\ is_initw' = TRUE

ConfigureNotify ==
    /\ NextEvent
    /\ NewGeometry
    /\ Send(Window_Resize)
    /\ UNCHANGED is_initw

Input ==
    /\ NextEvent
    /\ Send(Event_Mouse)
    /\ UNCHANGED <<is_initw, geometry>>

\* iwcontext::post with Window_Exit, which any object may call.
Post ==
    /\ Idle
    /\ ~is_exit
    /\ is_exit' = TRUE
    /\ UNCHANGED <<ctxVars, startVars, flags, sync, view, painted, counters,
                   glVars, todo, quit, is_initw, upc, pc, fault>>

\* The loop of dispatch ends and Window_Exit is sent.
SendExit ==
    /\ Idle
    /\ is_exit
    /\ Send(Window_Exit)
    /\ quit' = "exiting"
    /\ UNCHANGED <<startVars, flags, sync, view, painted, counters, glVars,
                   is_exit, is_initw, upc, pc, fault>>

Return ==
    /\ todo = <<>>
    /\ quit = "exiting"
    /\ quit' = "returned"
    /\ UNCHANGED <<ctxVars, startVars, flags, sync, view, painted, counters,
                   glVars, todo, is_exit, is_initw, upc, pc, fault>>

\* graphs_window::callback(NULL) on the dispatcher's thread.
Emit ==
    /\ Idle
    /\ Emits
    /\ updates < MaxUpdates
    /\ updates' = updates + 1
    /\ todo' = <<"update">>
    /\ UNCHANGED <<ctxVars, startVars, flags, sync, view, painted, glVars,
                   quit, is_exit, is_initw, events, stops, upc, pc, fault>>

\* A window derived from window_base calls its protected render_stop().
DerivedStop ==
    /\ Idle
    /\ CallsStop
    /\ stops < MaxStops
    /\ stops' = stops + 1
    /\ todo' = <<"stop">>
    /\ UNCHANGED <<ctxVars, startVars, flags, sync, view, painted, glVars,
                   quit, is_exit, is_initw, events, updates, upc, pc, fault>>
---------------------------------------------------------------------------
(* The calls of the dispatcher.                                            *)

Call(c) == todo # <<>> /\ Head(todo) = c

\* Mutant: initializes() is not called when there is no render thread.
InitializeOnly ==
    /\ Call("initialize")
    /\ todo' = Tail(todo)
    /\ is_ctx' = TRUE
    /\ context' = TRUE
    /\ pipeline' = TRUE
    /\ UNCHANGED <<startVars, flags, sync, pc, viewport, frame, shown, pipe,
                   fault>>

\* _rbase->initialize(), then initializes() when there is no render thread.
Initialize ==
    /\ Call("initialize")
    /\ todo' = Tail(todo)
    /\ IF is_ctx
       THEN UNCHANGED <<ctxVars, pipe, fault>>
       ELSE \E ok \in {TRUE, ~GlewFails} :
            /\ pipeline' = (pipeline \/ ok)
            /\ is_ctx' = pipeline'
            /\ context' = TRUE
            /\ IF MultiThread
               THEN UNCHANGED <<pipe, fault>>
               ELSE /\ pipe' = pipeline'
                    /\ fault' = (fault \/ ~pipeline')
    /\ UNCHANGED <<startVars, flags, sync, pc, viewport, frame, shown>>

\* *viewport = geometry, without the mutex, when they differ: one step for each
\* component, in an order that is the compiler's.
Viewport ==
    /\ Call("viewport")
    /\ \/ /\ viewport = geometry
          /\ todo' = Tail(todo)
          /\ UNCHANGED viewport
       \/ /\ \E d \in Dims : /\ viewport[d] # geometry[d]
                             /\ viewport' = [viewport EXCEPT ![d] = geometry[d]]
          /\ UNCHANGED todo
    /\ UNCHANGED <<ctxVars, startVars, flags, sync, pc, pipe, frame, shown,
                   fault>>

\* pthread_create fails when no thread is left; bs_thread::start then leaves
\* __running set.
PthreadCreate ==
    IF \A t \in Threads : pc[t] # "unborn"
    THEN UNCHANGED pc
    ELSE \E t \in Threads : /\ pc[t] = "unborn"
                            /\ pc' = [pc EXCEPT ![t] = "make0"]

\* Mutant: bs_thread::start does not test __running.
RestartAnyway ==
    /\ Call("start")
    /\ todo' = Tail(todo)
    /\ is_run' = TRUE
    /\ running' = TRUE
    /\ IF is_run
       THEN UNCHANGED pc
       ELSE PthreadCreate
    /\ UNCHANGED <<ctxVars, flags, sync, pipe, viewport, frame, shown, fault>>

\* render_start: _is_run guards bs_thread::start, which __running guards.
RenderStart ==
    /\ Call("start")
    /\ todo' = Tail(todo)
    /\ is_run' = TRUE
    /\ IF is_run \/ running
       THEN UNCHANGED <<pc, running>>
       ELSE running' = TRUE /\ PthreadCreate
    /\ UNCHANGED <<ctxVars, flags, sync, pipe, viewport, frame, shown, fault>>

\* render_activa(mode) with a render thread, up to its wake_one().
Activate(mode) ==
    /\ MultiThread
    /\ loop' = mode
    /\ todo' = If(mode # loop \/ ~mode, <<"wake">>) \o Tail(todo)
    /\ UNCHANGED <<pipe, frame, shown, fault>>

\* render_activa without one: the caller paints.  The window may have no camera.
PaintHere ==
    /\ ~MultiThread
    /\ todo' = Tail(todo)
    /\ fault' = (fault \/ ~context \/ ~pipe)
    /\ \E given \in {Parts, Parts \ {"camera"}} :
          frame' = [p \in Parts |-> IF p \in given THEN viewport ELSE frame[p]]
    /\ shown' = frame'
    /\ UNCHANGED <<loop, pipe>>

RenderActiva ==
    /\ \/ /\ Call("activa")
          /\ Activate(AlwaysRun \/ loop) \/ PaintHere
       \/ /\ Call("update")
          /\ Activate(FALSE) \/ PaintHere
    /\ UNCHANGED <<ctxVars, startVars, sync, pc, render, viewport>>

\* pthread_cond_signal wakes one waiting thread, if there is one.
Signal ==
    IF waiting = {} THEN UNCHANGED waiting
    ELSE \E t \in waiting : waiting' = waiting \ {t}

WakeOne ==
    /\ Call("wake")
    /\ todo' = Tail(todo)
    /\ Signal
    /\ UNCHANGED <<ctxVars, startVars, flags, pc, mutex, pipe, viewport,
                   frame, shown, fault>>
---------------------------------------------------------------------------

\* render_stop and context_thread::stop, which locks only when _loop is set.
RenderStop ==
    /\ Call("stop")
    /\ IF is_run /\ loop
       THEN /\ todo' = <<"stop_locked", "unlock", "lock", "wake", "unlock",
                         "wait">> \o Tail(todo)
            /\ UNCHANGED flags
       ELSE IF is_run
       THEN /\ todo' = <<"lock", "wake", "unlock", "wait">> \o Tail(todo)
            /\ render' = FALSE
            /\ loop' = FALSE
       ELSE /\ todo' = Tail(todo)
            /\ UNCHANGED flags
    /\ UNCHANGED <<ctxVars, startVars, sync, pc, pipe, viewport, frame, shown,
                   fault>>

ClearLocked ==
    /\ Call("stop_locked")
    /\ mutex = None
    /\ mutex' = Disp
    /\ todo' = Tail(todo)
    /\ render' = FALSE
    /\ loop' = FALSE
    /\ UNCHANGED <<ctxVars, startVars, pc, waiting, pipe, viewport, frame,
                   shown, fault>>

LockDisp ==
    /\ Call("lock")
    /\ mutex = None
    /\ mutex' = Disp
    /\ todo' = Tail(todo)
    /\ UNCHANGED <<ctxVars, startVars, flags, pc, waiting, pipe, viewport,
                   frame, shown, fault>>

UnlockDisp ==
    /\ Call("unlock")
    /\ mutex' = None
    /\ todo' = Tail(todo)
    /\ UNCHANGED <<ctxVars, startVars, flags, pc, waiting, pipe, viewport,
                   frame, shown, fault>>

\* bs_thread::wait() joins a detached thread: it returns at once.
Wait ==
    /\ Call("wait")
    /\ is_run' = FALSE
    /\ todo' = Tail(todo)
    /\ UNCHANGED <<ctxVars, flags, sync, pc, running, pipe, viewport, frame,
                   shown, fault>>

Dispatcher ==
    /\ \/ Initialize \/ Viewport \/ RenderStart \/ RenderActiva \/ WakeOne
       \/ RenderStop \/ ClearLocked \/ LockDisp \/ UnlockDisp \/ Wait
    /\ UNCHANGED <<envVars, upc, current, geometry, unread, late>>

Leave == SendExit \/ Return

Environment ==
    Expose \/ ConfigureNotify \/ Input \/ Post \/ Emit \/ DerivedStop
---------------------------------------------------------------------------
(* update() called in another thread.                                      *)

UpdateElsewhere(u) ==
    /\ upc[u] = "idle"
    /\ updates < MaxUpdates
    /\ updates' = updates + 1
    /\ upc' = [upc EXCEPT ![u] = "wake"]
    /\ loop' = FALSE
    /\ UNCHANGED <<ctxVars, startVars, sync, view, painted, glVars, todo,
                   quit, is_exit, is_initw, events, stops, pc, render, fault>>

WakeElsewhere(u) ==
    /\ upc[u] = "wake"
    /\ upc' = [upc EXCEPT ![u] = "idle"]
    /\ Signal
    /\ UNCHANGED <<envVars, ctxVars, startVars, flags, view, painted, glVars,
                   todo, pc, mutex, fault>>
---------------------------------------------------------------------------
(* context_thread::run.                                                    *)

Go(t, from, to) == pc[t] = from /\ pc' = [pc EXCEPT ![t] = to]

\* make_current(): before initializes(), and before each frame.
MakeCurrent(t) ==
    /\ Go(t, "make0", "initializes") \/ Go(t, "make", "viewport")
    /\ current' = current \cup {t}
    /\ fault' = (fault \/ ~context)
    /\ UNCHANGED <<sync, painted, running, pipe>>

\* initializes(): bsASSERT expands to nothing, so it only reads what the
\* dispatcher's initialize() left.
Initializes(t) ==
    /\ Go(t, "initializes", "done0")
    /\ pipe' = pipeline
    /\ fault' = (fault \/ ~pipeline)
    /\ UNCHANGED <<sync, painted, running, current>>

\* Mutants: the frame is painted without lock(), and the loop never ends.
PaintUnlocked(t) ==
    /\ Go(t, "test", IF render THEN "make" ELSE "end")
    /\ UNCHANGED <<sync, painted, glVars, running, fault>>

LoopForever(t) ==
    /\ Go(t, "test", "lock")
    /\ UNCHANGED <<sync, painted, glVars, running, fault>>

\* while (_render)
TestRender(t) ==
    /\ Go(t, "test", IF render THEN "lock" ELSE "end")
    /\ UNCHANGED <<sync, painted, glVars, running, fault>>

Lock(t) ==
    /\ Go(t, "lock", "make") \/ Go(t, "lockw", "wait")
    /\ mutex = None
    /\ mutex' = t
    /\ UNCHANGED <<painted, glVars, waiting, running, fault>>

\* A part, which is the position of its name, reads the components of v one by
\* one, in an order that is the compiler's; then the next is at hand.
Read(t, part, next, v) ==
    \E d \in unread :
        /\ frame' = [frame EXCEPT ![part][d] = v[d]]
        /\ IF unread = {d}
           THEN Go(t, part, next) /\ unread' = Dims
           ELSE Go(t, part, part) /\ unread' = unread \ {d}

\* Mutant: the pipeline is given the window's geometry.
PaintGeometry(t) ==
    /\ Read(t, "viewport", "camera", geometry)
    /\ UNCHANGED <<sync, glVars, running, shown, late, fault>>

\* paints() gives the viewport to the pipeline ...
PaintViewport(t) ==
    /\ Read(t, "viewport", "camera", viewport)
    /\ fault' = (fault \/ ~context \/ ~pipe)
    /\ UNCHANGED <<sync, glVars, running, shown, late>>

\* ... to the camera, if the window has one ...
PaintCamera(t) ==
    /\ \/ Read(t, "camera", "scene", viewport)
       \/ /\ Go(t, "camera", "scene")
          /\ unread = Dims
          /\ UNCHANGED <<frame, unread>>
    /\ UNCHANGED <<sync, glVars, running, shown, late, fault>>

\* Mutant: the scenes are given the viewport less a border.
PaintInside(t) ==
    /\ Read(t, "scene", "swap", [d \in Dims |-> viewport[d] - 2])
    /\ UNCHANGED <<sync, glVars, running, shown, late, fault>>

\* ... and to the scenes.
PaintScene(t) ==
    /\ Read(t, "scene", "swap", viewport)
    /\ UNCHANGED <<sync, glVars, running, shown, late, fault>>

\* swap_buffers() and done_current().
Swap(t) ==
    /\ Go(t, "swap", "unlock")
    /\ shown' = frame
    /\ late' = IF render THEN late ELSE late + 1
    /\ current' = current \ {t}
    /\ UNCHANGED <<sync, running, pipe, frame, unread, fault>>

DoneCurrent(t) ==
    /\ Go(t, "done0", "test")
    /\ current' = current \ {t}
    /\ UNCHANGED <<sync, painted, running, pipe, fault>>

Unlock(t) ==
    /\ Go(t, "unlock", "loop") \/ Go(t, "unlockw", "test")
    /\ mutex' = None
    /\ UNCHANGED <<painted, glVars, waiting, running, fault>>

\* if (!_loop)
TestLoop(t) ==
    /\ Go(t, "loop", IF loop THEN "test" ELSE "lockw")
    /\ UNCHANGED <<sync, painted, glVars, running, fault>>

\* pthread_cond_wait releases the mutex and blocks in one step ...
CondWait(t) ==
    /\ Go(t, "wait", "asleep")
    /\ mutex' = None
    /\ waiting' = waiting \cup {t}
    /\ UNCHANGED <<painted, glVars, running, fault>>

\* Mutant: the wait is repeated until _loop is set.
WaitForLoop(t) ==
    /\ Go(t, "asleep", IF loop THEN "unlockw" ELSE "wait")
    /\ t \notin waiting
    /\ mutex = None
    /\ mutex' = t
    /\ UNCHANGED <<painted, glVars, waiting, running, fault>>

\* ... and takes the mutex again once it is woken, without testing anything.
CondWoken(t) ==
    /\ Go(t, "asleep", "unlockw")
    /\ t \notin waiting
    /\ mutex = None
    /\ mutex' = t
    /\ UNCHANGED <<painted, glVars, waiting, running, fault>>

\* POSIX lets a wait return without a signal.
WakeAlone(t) ==
    /\ t \in waiting
    /\ waiting' = waiting \ {t}
    /\ UNCHANGED <<painted, glVars, pc, mutex, running, fault>>

\* bs_thread::__run after run() returns.
End(t) ==
    /\ Go(t, "end", "dead")
    /\ running' = FALSE
    /\ UNCHANGED <<sync, painted, glVars, fault>>

Step(t) ==
    \/ MakeCurrent(t) \/ Initializes(t) \/ DoneCurrent(t) \/ TestRender(t)
    \/ Lock(t) \/ PaintViewport(t) \/ PaintCamera(t) \/ PaintScene(t) \/ Swap(t)
    \/ Unlock(t) \/ TestLoop(t) \/ CondWait(t) \/ CondWoken(t) \/ End(t)

\* run() writes nothing of the dispatcher's.
threadRest == <<todo, upc, envVars, ctxVars, flags, view, is_run>>

Run(t) == Step(t) /\ UNCHANGED threadRest
Spurious(t) == WakeAlone(t) /\ UNCHANGED threadRest
---------------------------------------------------------------------------
\* A null pointer ends the process.
Next ==
    /\ ~fault
    /\ \/ Dispatcher
       \/ Leave
       \/ Environment
       \/ \E u \in Updaters : UpdateElsewhere(u) \/ WakeElsewhere(u)
       \/ \E t \in Threads : Run(t) \/ Spurious(t)

Spec == Init /\ [][Next]_vars

\* The scheduler runs every thread that can run.  Nothing obliges an event to
\* arrive, an object to emit or a wait to wake by itself.
Fairness ==
    /\ WF_vars(~fault /\ (Dispatcher \/ Leave))
    /\ \A u \in Updaters : WF_vars(~fault /\ WakeElsewhere(u))
    /\ \A t \in Threads : WF_vars(~fault /\ Run(t))

FairSpec == Spec /\ Fairness
---------------------------------------------------------------------------
(* Properties.                                                             *)

\* The type of the state.
TypeOK ==
    /\ todo \in Seq(Calls)
    /\ quit \in {"run", "exiting", "returned"}
    /\ is_exit \in BOOLEAN /\ is_initw \in BOOLEAN
    /\ render \in BOOLEAN /\ loop \in BOOLEAN
    /\ running \in BOOLEAN /\ is_run \in BOOLEAN
    /\ is_ctx \in BOOLEAN /\ context \in BOOLEAN /\ pipeline \in BOOLEAN
    /\ pipe \in BOOLEAN /\ fault \in BOOLEAN
    /\ upc \in [Updaters -> {"idle", "wake"}]
    /\ pc \in [Threads -> Positions]
    /\ mutex \in Threads \cup {Disp, None}
    /\ waiting \subseteq Threads
    /\ current \subseteq Threads
    /\ geometry \in [Dims -> Nat]
    /\ viewport \in [Dims -> Nat]
    /\ frame \in [Parts -> [Dims -> Nat]]
    /\ unread \subseteq Dims
    /\ shown \in [Parts -> [Dims -> Nat]]
    /\ late \in Nat
    /\ events \in Nat
    /\ updates \in Nat
    /\ stops \in Nat

Active(t) == pc[t] \notin {"unborn", "dead"}

\* Positions of run() that lie between its lock() and its unlock().
Locked == {"make", "viewport", "camera", "scene", "swap", "unlock", "wait", "unlockw"}

\* The window's thread object never executes run() twice at a time, although
\* render_stop() does not join and render_start() may follow it at once:
\* bs_thread::start refuses while __running is set.
OneRun == \A s, t \in Threads : Active(s) /\ Active(t) => s = t

\* Frames are painted, and the GL context is current, in one thread at a time
\* and only under the window's mutex once initializes() is over.
ContextExclusive ==
    /\ \A s, t \in current : s = t
    /\ \A t \in Threads : pc[t] \in Locked => mutex = t

\* bsASSERT(context() == 0, "context not!") and bsASSERT(!initialize(),
\* "render initialize not"): neither pointer is null when it is used.
NoFault == ~fault

\* Once rbase->initialize() has succeeded, nothing the window does later uses
\* a pointer that is still null.
InitializedIsSafe == is_ctx => ~fault

\* context_thread::stop() clears _render without joining: whatever follows it,
\* restarts included, at most the one frame already begun past the test of
\* _render still comes to the screen.
LateFrames == late <= 1

\* What a user of the window sees.
Service == INSTANCE FrameService WITH asked <- viewport, stopped <- ~render

\* The window implements the frame service: although the dispatcher writes the
\* viewport without the mutex, component by component, while a frame reads it in
\* three places, neither the width nor the height of any of the three goes back
\* to an older one or runs ahead of what was written.
FrameServiceSpec == Service!Spec
---------------------------------------------------------------------------
(* The inductive invariant behind the safety properties.                   *)

\* __running covers every thread that executes run().
RunInv == OneRun /\ \A t \in Threads : Active(t) => running

\* The stacks of render_stop between its lock() and unlock(), and outside.
HoldingStacks ==
    {<<"unlock", "lock", "wake", "unlock", "wait">>,
     <<"wake", "unlock", "wait">>, <<"unlock", "wait">>}
StoppingStacks ==
    {<<"stop">>, <<"stop_locked", "unlock", "lock", "wake", "unlock", "wait">>,
     <<"lock", "wake", "unlock", "wait">>, <<"wait">>}
Quiet == {"initialize", "viewport", "start", "activa", "update", "wake"}

\* The dispatcher holds the mutex exactly inside render_stop's sections.
StackInv ==
    \/ todo \in HoldingStacks /\ mutex = Disp
    \/ todo \in StoppingStacks \cup Seq(Quiet) /\ mutex # Disp

\* Where the GL context may be current.
Bound == {"initializes", "done0", "viewport", "camera", "scene", "swap"}

\* A thread between its lock() and unlock() owns the mutex and the context.
LockInv ==
    /\ \A t \in Threads : pc[t] \in Locked => mutex = t
    /\ \A t \in current : pc[t] \in Bound
    /\ \A t \in waiting : pc[t] = "asleep"

\* Past the test of _render, no late frame has been shown yet.
Begun == {"lock", "make", "viewport", "camera", "scene", "swap"}
LateInv ==
    /\ late \in {0, 1}
    /\ render => late = 0
    /\ \A t \in Threads : pc[t] \in Begun => late = 0

\* What a frame has read lies between what is on the screen and the newest ...
Between ==
    /\ \A d \in Dims : viewport[d] <= geometry[d]
    /\ \A p \in Parts, d \in Dims :
          shown[p][d] <= frame[p][d] /\ frame[p][d] <= viewport[d]

\* ... and the scenes read it after the pipeline.
InOrder ==
    \A t \in Threads, d \in Dims :
        pc[t] = "swap" \/ (pc[t] = "scene" /\ d \notin unread) =>
            frame["viewport"][d] <= frame["scene"][d]

FrameInv == Between /\ InOrder

\* Once initialized nothing is null; short of a fault, a thread past
\* initializes() has what it needs.
SafeInv ==
    /\ is_ctx => context /\ pipeline /\ (~MultiThread => pipe) /\ ~fault
    /\ pipe => pipeline
    /\ \A t \in Threads :
          /\ Active(t) /\ pc[t] # "make0" /\ ~fault => context
          /\ Active(t) /\ pc[t] \notin {"make0", "initializes"} /\ ~fault => pipe

\* The calls s start the render thread only after initialize().
Begins(s) ==
    \A k \in DOMAIN s : s[k] = "start" => \E j \in 1 .. k - 1 : s[j] = "initialize"

\* Unless glewInit() fails, a render thread starts with a context and a pipeline.
Ready == context /\ pipeline
StartInv ==
    MultiThread /\ ~GlewFails =>
        /\ ~fault
        /\ Ready \/ Begins(todo)
        /\ \A t \in Threads : Active(t) => Ready

Inv == RunInv /\ StackInv /\ LockInv /\ LateInv /\ FrameInv /\ SafeInv /\ StartInv
---------------------------------------------------------------------------
(* Liveness, and what the repository says of the program.                  *)

\* The width or the height on the screen covers n.
Shows(d, n) == shown["viewport"][d] >= n /\ shown["scene"][d] >= n

\* The render thread is past the points where a wake-up can be lost: it is
\* about to read the component, or woken, or loops.
Committed(d) ==
    \E t \in Threads :
        \/ pc[t] \in {"make0", "initializes", "done0", "test", "lock", "make", "unlockw"}
        \/ pc[t] = "viewport" /\ d \in unread
        \/ pc[t] = "asleep" /\ t \notin waiting
        \/ loop /\ pc[t] \in {"viewport", "camera", "scene", "swap", "unlock", "loop"}

\* A width or a height set while the render thread is committed reaches the
\* screen, unless the program ends first.
CommittedShows ==
    \A d \in Dims, n \in 1 .. MaxSize :
        (Committed(d) /\ viewport[d] = n) ~> (Shows(d, n) \/ quit # "run")

\* iwcontext.h:48, "rendered when an event is triggered": the size an event
\* brings reaches the screen, unless the program ends first.
EventShows ==
    \A d \in Dims, n \in 1 .. MaxSize :
        (viewport[d] = n) ~> (Shows(d, n) \/ quit # "run")
===========================================================================
