---------------------------- MODULE GraphWindow ----------------------------
(***************************************************************************)
(* graphs_window: the scenes, cameras and controls of a window, over the   *)
(* render loop of a window that paints in the dispatcher.  The lists are   *)
(* changed by the calls of bs_graphs, which the program makes between two  *)
(* events and its scenes make inside their own callbacks, in the middle of *)
(* the window's loop over the list.                                        *)
(***************************************************************************)
EXTENDS RenderLoop, FiniteSets

CONSTANTS
    Scenes, Cameras, Controls,
    MaxCalls,  \* bound: calls of bs_graphs
    MaxLen     \* bound: scenes, cameras or controls in a list

\* A window with a render thread would run its loops in that thread, and the
\* lists have no lock.
ASSUME WindowAssumptions ==
    /\ ~MultiThread
    /\ None \notin Cameras
    /\ MaxCalls \in Nat /\ MaxLen \in Nat

VARIABLES
    paint, is_paint_init,  \* graphs_window's scenes, and which are initialized
    camera, camera_default,
    camera_ctrl,           \* graphs_window's controls
    cameras,               \* icamcontrol::cameras, of each control
    at,       \* the loop over the scenes under way, and its index
    owed,     \* history: scenes of the list the loop has not called yet
    ready,    \* history: scenes whose initialize() has returned
    shifted,  \* history: a callback removed a scene at or before the index
    crash,    \* history: the loop went past the end of the list
    calls

scenes == <<paint, is_paint_init>>
views == <<camera, camera_default, camera_ctrl, cameras>>
loopVars == <<at, owed, ready, shifted, crash>>
sceneVars == <<scenes, views, loopVars, calls>>
windowVars == <<vars, sceneVars>>

Elems(s) == {s[i] : i \in DOMAIN s}

\* Where a frame's loop over the scenes may be; in each of these but the last a
\* scene's callback is under way.
Loops == {"initialize", "paint", "swap"}
Outside == [loop |-> "none", i |-> 0]
Turn(l, k) == [loop |-> l, i |-> k]

SceneInit ==
    /\ Init
    /\ paint = <<>> /\ is_paint_init = <<>>
    /\ camera = <<>> /\ camera_default = None
    /\ camera_ctrl = <<>>
    /\ cameras = [k \in Controls |-> None]
    /\ at = Outside
    /\ owed = {} /\ ready = {}
    /\ shifted = FALSE
    /\ crash = FALSE
    /\ calls = 0
---------------------------------------------------------------------------
(* The lists.                                                              *)

\* The loop `if (l[i] == e) l.remove(i)' with its i++ passes over whatever
\* follows an element it removed: of equal neighbours it removes every other.
Removed(l, e) ==
    {k \in DOMAIN l : \E first \in 1 .. k :
        /\ \A m \in first .. k : l[m] = e
        /\ first > 1 => l[first - 1] # e
        /\ (k - first) % 2 = 0}

\* The positions of what stays: the j-th is the one with j of them up to it.
Stays(l, e) ==
    LET kept == DOMAIN l \ Removed(l, e)
    IN  {f \in [1 .. Cardinality(kept) -> kept] :
            \A j \in DOMAIN f : Cardinality({k \in kept : k <= f[j]}) = j}

Picked(l, f) == [j \in DOMAIN f |-> l[f[j]]]

\* Who can call: the program between two events, or a scene called back.
InCallback == at.loop \in {"initialize", "paint"}

ApiCall ==
    /\ ~fault /\ ~crash
    /\ Idle \/ InCallback
    /\ calls < MaxCalls
    /\ calls' = calls + 1
    /\ UNCHANGED <<vars, at, ready, crash>>

\* Mutant: the scene is given no flag.
InsertPaint(s) ==
    /\ ApiCall
    /\ Len(paint) < MaxLen
    /\ paint' = Append(paint, s)
    /\ UNCHANGED <<is_paint_init, views, owed, shifted>>

InsertScene(s) ==
    /\ ApiCall
    /\ Len(paint) < MaxLen
    /\ paint' = Append(paint, s)
    /\ is_paint_init' = Append(is_paint_init, FALSE)
    /\ UNCHANGED <<views, owed, shifted>>

\* Mutant: the flags keep the place of the scene that was removed.
DeletePaint(s) ==
    /\ ApiCall
    /\ \E f \in Stays(paint, s) :
         /\ paint' = Picked(paint, f)
         /\ is_paint_init' = SubSeq(is_paint_init, 1, Len(f))
    /\ owed' = owed \ {s}
    /\ shifted' = (shifted \/ (InCallback /\ \E k \in Removed(paint, s) : k <= at.i))
    /\ UNCHANGED views

DeleteScene(s) ==
    /\ ApiCall
    /\ \E f \in Stays(paint, s) :
         /\ paint' = Picked(paint, f)
         /\ is_paint_init' = Picked(is_paint_init, f)
    /\ owed' = owed \ {s}
    /\ shifted' = (shifted \/ (InCallback /\ \E k \in Removed(paint, s) : k <= at.i))
    /\ UNCHANGED views
---------------------------------------------------------------------------
(* Cameras and controls.                                                   *)

KeepsScenes == UNCHANGED <<scenes, owed, shifted>>

\* set_control_camera: every control of the list is given the camera.
GivenAll(c) ==
    [k \in Controls |-> IF k \in Elems(camera_ctrl) THEN c ELSE cameras[k]]

\* is_control_camera: a control of the list has none.
is_control_camera == \E k \in Elems(camera_ctrl) : cameras[k] = None

\* Mutant: every camera becomes the default one.
InsertDefault(c) ==
    /\ ApiCall
    /\ Len(camera) < MaxLen
    /\ camera_default' = c
    /\ cameras' = IF is_control_camera THEN GivenAll(camera_default') ELSE cameras
    /\ camera' = Append(camera, c)
    /\ UNCHANGED camera_ctrl
    /\ KeepsScenes

\* The first of the list becomes the default one.
InsertCamera(c) ==
    /\ ApiCall
    /\ Len(camera) < MaxLen
    /\ camera_default' = IF camera = <<>> THEN c ELSE camera_default
    /\ cameras' = IF is_control_camera THEN GivenAll(camera_default') ELSE cameras
    /\ camera' = Append(camera, c)
    /\ UNCHANGED camera_ctrl
    /\ KeepsScenes

DeleteCamera(c) ==
    /\ ApiCall
    /\ \E f \in Stays(camera, c) : camera' = Picked(camera, f)
    /\ UNCHANGED <<camera_default, camera_ctrl, cameras>>
    /\ KeepsScenes

\* bs_graphs::set(camera), which may be null.
SetCamera(c) ==
    /\ ApiCall
    /\ camera_default' = c
    /\ cameras' = GivenAll(c)
    /\ UNCHANGED <<camera, camera_ctrl>>
    /\ KeepsScenes

InsertControl(k) ==
    /\ ApiCall
    /\ Len(camera_ctrl) < MaxLen
    /\ cameras' = IF camera_default = None THEN cameras
                  ELSE [cameras EXCEPT ![k] = camera_default]
    /\ camera_ctrl' = Append(camera_ctrl, k)
    /\ UNCHANGED <<camera, camera_default>>
    /\ KeepsScenes

DeleteControl(k) ==
    /\ ApiCall
    /\ \E f \in Stays(camera_ctrl, k) : camera_ctrl' = Picked(camera_ctrl, f)
    /\ UNCHANGED <<camera, camera_default, cameras>>
    /\ KeepsScenes
---------------------------------------------------------------------------
(* The loop over the scenes.                                               *)

InLoop(l) == at.loop = l /\ ~fault /\ ~crash

\* Mutant: the loop goes on while i <= paint.count().
GoesPast(k) ==
    IF k > Len(paint) + 1 THEN at' = Turn("swap", 0) /\ UNCHANGED owed
    ELSE IF k \in DOMAIN paint /\ is_paint_init[k]
    THEN at' = Turn("paint", k) /\ owed' = owed \ {paint[k]}
    ELSE at' = Turn("initialize", k) /\ UNCHANGED owed

\* The k-th turn of render_scene begins, or the loop is over.
GoesTo(k) ==
    IF k \notin DOMAIN paint THEN at' = Turn("swap", 0) /\ UNCHANGED owed
    ELSE IF is_paint_init[k]
    THEN at' = Turn("paint", k) /\ owed' = owed \ {paint[k]}
    ELSE at' = Turn("initialize", k) /\ UNCHANGED owed

\* A call whose body paints, with the pointers it needs.
Paints == (Call("activa") \/ Call("update")) /\ context /\ pipe

BeginFrame ==
    /\ InLoop("none")
    /\ Paints
    /\ IF paint = <<>> THEN at' = Turn("swap", 0) /\ owed' = {}
       ELSE IF is_paint_init[1]
       THEN at' = Turn("paint", 1) /\ owed' = Elems(paint) \ {paint[1]}
       ELSE at' = Turn("initialize", 1) /\ owed' = Elems(paint)
    /\ UNCHANGED <<vars, scenes, views, ready, shifted, crash, calls>>

\* initialize() returns: the flag and the scene at the index are those that are
\* there now.
InitializeReturns ==
    /\ InLoop("initialize")
    /\ IF at.i \in DOMAIN paint
       THEN /\ ready' = ready \cup (IF shifted THEN {} ELSE {paint[at.i]})
            /\ is_paint_init' = [is_paint_init EXCEPT ![at.i] = TRUE]
            /\ at' = Turn("paint", at.i)
            /\ owed' = owed \ {paint[at.i]}
            /\ UNCHANGED crash
       ELSE crash' = TRUE /\ UNCHANGED <<ready, is_paint_init, at, owed>>
    /\ UNCHANGED <<vars, paint, views, shifted, calls>>

\* Mutant: the index is advanced twice.
PaintSkips ==
    /\ InLoop("paint")
    /\ GoesTo(at.i + 2)
    /\ UNCHANGED <<vars, scenes, views, ready, shifted, crash, calls>>

PaintReturns ==
    /\ InLoop("paint")
    /\ GoesTo(at.i + 1)
    /\ UNCHANGED <<vars, scenes, views, ready, shifted, crash, calls>>

\* The rest of the frame, and of the call that painted it.
EndFrame ==
    /\ InLoop("swap")
    /\ Paints
    /\ Dispatcher
    /\ at' = Outside
    /\ owed' = {}
    /\ UNCHANGED <<scenes, views, ready, shifted, crash, calls>>

\* Everything else of the render loop.  An input reaches no scene and no control:
\* window_base::callback takes none of its branches.
LoopStep ==
    /\ InLoop("none")
    /\ \/ ~Paints /\ Dispatcher
       \/ Leave
       \/ Environment
    /\ UNCHANGED sceneVars
---------------------------------------------------------------------------
Calling ==
    \/ \E s \in Scenes : InsertScene(s) \/ DeleteScene(s)
    \/ \E c \in Cameras : InsertCamera(c) \/ DeleteCamera(c)
    \/ \E c \in Cameras \cup {None} : SetCamera(c)
    \/ \E k \in Controls : InsertControl(k) \/ DeleteControl(k)

SceneNext ==
    \/ LoopStep
    \/ BeginFrame \/ InitializeReturns \/ PaintReturns \/ EndFrame
    \/ Calling

SceneSpec == SceneInit /\ [][SceneNext]_windowVars
---------------------------------------------------------------------------
(* Properties.                                                             *)

\* The type of the state; a scene and its flag are in step.
SceneTypeOK ==
    /\ paint \in Seq(Scenes)
    /\ is_paint_init \in Seq(BOOLEAN)
    /\ Len(is_paint_init) = Len(paint)
    /\ camera \in Seq(Cameras)
    /\ camera_default \in Cameras \cup {None}
    /\ camera_ctrl \in Seq(Controls)
    /\ cameras \in [Controls -> Cameras \cup {None}]
    /\ at \in [loop : Loops \cup {"none"}, i : Nat]
    /\ owed \subseteq Scenes
    /\ ready \subseteq Scenes
    /\ shifted \in BOOLEAN
    /\ crash \in BOOLEAN
    /\ calls \in Nat

\* graph_window.cpp:157, a scene is initialized before it is painted: so it is,
\* however scenes are appended and removed between the frames and inside the
\* callbacks, unless a callback removed a scene the loop had come to, which
\* moves another scene to the index of the flag.
InitFirst ==
    ~shifted => /\ \A k \in DOMAIN paint : is_paint_init[k] => paint[k] \in ready
                /\ at.loop = "paint" => paint[at.i] \in ready

\* A frame reaches every scene that stays in the list while the loop runs, with
\* the same exception.
ReachesAll ==
    [][at.loop \in Loops /\ at'.loop \in {"none", "swap"} /\ ~shifted => owed = {}]_windowVars

\* The controls drive the camera the window looks through, and stop doing so only
\* when a camera put into a list that is empty, perhaps because its cameras were
\* removed, becomes the default one: the controls keep the one they have.
SameCamera ==
    camera_default # None => \A k \in Elems(camera_ctrl) : cameras[k] = camera_default
ControlsFollow ==
    [][SameCamera /\ ~SameCamera' => camera = <<>> /\ Len(camera') = 1]_windowVars

\* The loop goes on by index after a callback changed the list: it leaves the
\* list, which is an undefined access, only after a callback removed a scene it
\* had come to.
CrashHasCause == crash => shifted
---------------------------------------------------------------------------
(* The inductive invariant behind them.                                    *)

\* The index of a callback under way is in the list.
InRange == ~shifted /\ InCallback => at.i \in DOMAIN paint

\* What the loop still owes lies ahead of its index.
Ahead(k) ==
    \/ at.loop = "initialize" /\ k >= at.i
    \/ at.loop = "paint" /\ k > at.i
OwedAhead ==
    ~shifted /\ at.loop \in Loops =>
        \A s \in owed : \E k \in DOMAIN paint : paint[k] = s /\ Ahead(k)

SceneInv ==
    /\ SceneTypeOK
    /\ InRange
    /\ OwedAhead
    /\ InitFirst
    /\ CrashHasCause
=============================================================================
