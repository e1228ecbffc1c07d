# MVSS, a verification project in TLA+

MVSS is a C++ library for multimedia visual shows: a base library in the manner
of Qt (objects, threads, reference-counted containers), an X11 platform, an
OpenGL renderer and a GUI that lives in the rendered window.  This project
models the parts whose correctness depends on the order of things: threads,
callbacks, shared counters and shared blocks.

## The system

| component | state it keeps | operations | talks to |
|---|---|---|---|
| window and render loop (`source/graphs/window_base.*`, `context_thread.*`) | style, `_is_run`, `_is_ctx`, `_render`, `_loop`, a mutex, a condition, the viewport | `callback`, `render_start/stop/activa`, `update`, `run` | events (calls), render thread (shared flags), GL context |
| scene window (`source/graphs/graph_window.*`, `bs_graphs.cpp`) | pipeline pointer, lists of scenes, cameras, controls, current camera | `callback(NULL)`, `initializes`, `paints`, append and remove | render loop (overrides), scenes (callbacks) |
| X11 windows (`source/platform/unix/x11/`) | `is_exit`, `is_initw`, geometry, mouse tracking, a key released late | `dispatch`, `send_event`, `post` | window (emit), timer |
| context (`glx_context.*`, `bs_render.cpp`) | GLX context, pipeline singleton | create, make, done, swap, initialize | render loop (calls) |
| reference counter (`bs_define.h`, `bs_object.h`) | one integer, bit 30 for copy-on-write | `addref`, `lessref`, tests | `bs_ptrref`, containers |
| containers (`tools/bs_list.inl`, `bs_array.inl`, `bs_map.inl`, `bs_maphash.inl`) | a pointer to a shared block | copy, move, insert, remove, `detach` | reference counter |
| threads (`bs_thread.*`) | `__running`, id, `thread_map`, joinable set, priority | start, wait, cancel, current | pthread |
| timer (`bs_timer.*`) | interval, flags, a thread | start, stop, run | threads, GUI hover, mouse tracking |
| object tree (`bs_object.cpp`) | parent, children, connections | connect, emit, destroy | everything |
| events (`bs_event.h`, `ievent.h`) | none | encode and test codes | all of the above |
| GUI (`bs_gui.cpp`, `render/gui/`) | panels, hover, focus, a mutex | events, paint, hover timer | render loop, timer |
| X11 extensions (`ext/`) | selections, drag state, WM requests | asynchronous requests to the server | X11 windows |

Hard behaviour is in the render loop (two to four threads on unprotected flags,
a detached thread that is "joined", wake-ups without a predicate, failure of GL
start-up), in the reference counter (a test and a decrement that are two atomic
steps), in the containers that share blocks through it, in the thread class and
the timer built on it, in lists that are changed by the callbacks a loop over
them makes, in objects that are destroyed while others point to them, and in
event codes made of bits that overlap.
The vendored libraries, the codecs, the mathematics, the geometry and the
wrappers of single GL calls keep no state of that kind and are left out.
`PROJECT.json` lists every component with its status and every hazard at its
line.

## Modules

| module | models | state and actions |
|---|---|---|
| `RenderLoop` | `window_base::callback`, `render_start/stop/activa`, `x11_window::dispatch`, `context_thread::run`, `graphs_window::paints` and `initializes` | below |
| `FrameService` | what a window promises about frames | of the width and of the height, the newest asked for and those the parts of the frame on the screen were given; `Ask`, `Show`, `Stop` |
| `BsThread` | `bs_thread::start`, `wait`, `__run`, `thread_map` | below |
| `Timer` | `bs_timer`, extends `BsThread` | below |
| `RefCount` | `bs_ref` and the handles of one block | below |
| `MapTree` | the red-black tree of `bs_map` | below |
| `MapService` | what an associative container promises | a set of items; `Add`, `Drop`, `DropKey` |
| `Iteration` | a loop: a function repeated, `Iterate(f, x, k)` | none |
| `ListCow` | `bs_list`: the handles and the blocks they share | below |
| `ListRing` | `bs_list`: the ring of nodes, its links and iterators | below |
| `ListService` | what the handles of a list promise | a sequence for each handle; one action per kind of call |
| `ObjectTree` | `bs_object` | below |
| `GraphWindow` | `graphs_window` and `bs_graphs`: scenes, cameras and controls, extends `RenderLoop` | below |
| `MCRenderLoop`, `MCGraphWindow`, `MCTimer`, `MCRefCount`, `MCMapTree`, `MCListCow`, `MCListRing`, `MCObjectTree` | the same for TLC | symmetry; the constants are in the cfgs |
| `WindowProofs` (`RenderLoop` and `GraphWindow`), `RefCountProofs`, `TimerProofs`, `MapTreeProofs`, `ListCowProofs`, `ListRingProofs`, `ObjectTreeProofs`, and the lemmas on loops in `IterationProofs` | theorems | |

`ListService` is what both `ListCow` and `ListRing` are shown to do; `GraphWindow` is the
composition of the scene window with the render loop and is proved to refine it.

`RenderLoop` and `BsThread` both contain `start()`, `wait()` and the end of a
thread.  In `RenderLoop` they are one step each, called by one thread, the
dispatcher, on one object, and the new thread's first actions follow; `BsThread`
takes them apart, with any number of callers and objects.

### RenderLoop

The dispatcher is the sequence `todo` of the calls it still has to make.  An
X event (`Expose`, `ConfigureNotify`, `Input`), the end (`SendExit`), an
object that emits NULL (`Emit`) or a derived window (`DerivedStop`) puts the calls
of the handler on it; each call is then one action (`Initialize`, `Viewport`,
`RenderStart`, `RenderActiva`, `WakeOne`, `RenderStop`, `ClearLocked`,
`LockDisp`, `UnlockDisp`, `Wait`), so every other thread can come between two of them,
as it can in the code.  Event codes are the sets of their bits: `Branch` tests them in the
order of `window_base::callback`, with the overlaps of `iwcontext.h:24-37`.

A render thread is a position `pc` in `context_thread::run`, one action for each
access to shared state: `MakeCurrent`, `Initializes`, `DoneCurrent`, `TestRender`,
`Lock`, `PaintViewport`, `PaintCamera`, `PaintScene`, `Swap`, `Unlock`, `TestLoop`, `CondWait`, `CondWoken`,
`End`.  `waiting` is the wait set of the condition; `Signal` takes one thread out
of it or does nothing, `WakeAlone` is a spurious wake-up.  What the code
shares without a lock is read and written in single steps where it is a `bool`, a
pointer or an `int`, which on the platforms the code builds for are one access each, and
the model lets every other thread act between two accesses.  `UpdateElsewhere` and
`WakeElsewhere` are `update()` in another thread.

The viewport is none of these: it is a vector of four `int`s that the dispatcher assigns without
the mutex (`window_base.cpp:69`, `92`, `108`) while a frame reads it under the mutex in three places
(`graph_window.cpp:287`, `295`, `325`), each time through a reference.  So `Viewport`
writes it one component (`Dims`) at a time, `Read` reads it one component at a time, in
any order, for each of the three places (`Parts`; the camera's is passed over in a window without
one), and any step of the dispatcher may come between two of these.  A frame can mix a new width
with an old height, and give the pipeline, the camera and the scenes different sizes.  A part that reads a
component more than once, as `pipeline_fixed::viewport` does, is modelled by one of its readings, whichever.
`geometry` is written and compared in the dispatcher only; its width and its height are taken or
refused by tests of their own (`x11_window.cpp:120-123`), so `NewGeometry` changes either or both.
What is left to promise of such frames is `FrameService`: **of the width, and of the height**, no part goes back to an
older one than it had on the screen, none has one that was not yet written, and the scenes have none older
than the pipeline's.  It does not say that a width and a height belong together, which the code does not ensure.

| variable | code |
|---|---|
| `render`, `loop` | `ctx_thread::_render`, `_loop` |
| `running`, `is_run`, `is_ctx`, `context` | `bs_thread::__running`, `impl::base::_is_run`, `_is_ctx`, `_context` |
| `pipeline`, `pipe` | `bs_render`'s pipeline, `graphs_window`'s `pipe` |
| `geometry`, `viewport` | the window's width and height, each counted by its changes, and those in the viewport |
| `frame`, `unread`, `shown` | the widths and heights the parts of the frame under way were given, the components the part at hand has still to read, and those of the last frame swapped |
| `late`, `fault` | history: frames painted since `_render` was cleared; a null pointer was used |

### GraphWindow

`GraphWindow` adds to `RenderLoop` the lists of a window that paints in the dispatcher:
`paint` and `is_paint_init` (the scenes and, in a list of its own, which of them are initialized),
`camera` and `camera_default`, `camera_ctrl` and the camera of each control.  The calls of
`bs_graphs` (`InsertScene`, `DeleteScene`, `InsertCamera`, `DeleteCamera`, `SetCamera`, `InsertControl`,
`DeleteControl`) come from the program between two events and **from a scene's own
callback**, in the middle of the window's loop.  `at` is that loop, `render_scene`, and its index:
`BeginFrame`, `InitializeReturns`, `PaintReturns`, `EndFrame`, one action for each return of a callback.  A call of the
dispatcher that paints, one step in `RenderLoop`, is here the frame from `BeginFrame` to
`EndFrame`, which is where the render loop's step is taken; everything else of the render loop is `LoopStep`.
A deletion is the code's loop `if (l[i] == e) l.remove(i)` with its `i++`, which
passes over the element after one it removed (`Removed`).

No event reaches a scene or a control, and none does in the model.  `window_base::callback` hands an event to
`events()` only if its code has bit 28 (`window_base.cpp:111`, `iwcontext.h:30`), but every code with that
bit is taken by its first branch (line 59), since `Window_Initialize` is bits 28 and 0; the codes of the mouse and
the keyboard have bits 29 and 30.  So `graphs_window::events`, `event_control` and `event_scene` are not called, and
`Input` is an event that changes nothing (`Branch` is `"Ignore"` for it).

`owed`, `ready` and `shifted` are history: the scenes the loop has still to call, those whose
`initialize()` returned, and whether a callback removed a scene at or before the
index.  The last one is the exception in `InitFirst`, `ReachesAll` and `CrashHasCause`: then another
scene is at the index, is marked as initialized without having been, or is
passed over, or the index is past the end when `initialize()` returns, and the loop leaves the list (`crash`).

### BsThread and Timer

`BsThread` has a position for each caller (`pc`, with `call` and `object`) and one for each
thread (`tpc`, with `of`).  A thread is its pthread id: an id whose thread has ended may
be given to a new one, as the system does.  `Start` is the compare-and-swap of
`__running`, then come `Lock`, `Join` and `Unlock` of `wait()`, `Create`, and the two
halves of `thread_map.append()`; `EndRun`, `Reset` and the two halves of
`thread_map.remove()` are the end of `__run`.  The threads are created
detached, so `pthread_join` fails at once and **`wait()` waits for nothing**; `Join`
models that.  The calls of `thread_map` are in two halves because they lock
nothing: `race` says that two overlapped, and then the map is not spoken of.

`Timer` adds `current_state`, what each caller has left to do in `start`, `stop`, `pause`
or `resume` (`step`, on the timer `on`), and where the thread is in `run()` (`loop`).
Time is left out: whenever the loop looks it may find its timeout reached.
`callback()` may call `stop()`, as the hover timer of the GUI does.

### RefCount

`ref` is the integer of `bs_ref`, `state` what each handle does.  `lessref()` is two
steps, `Check` and `Decrement`, because it tests the counter and decrements it in two
atomic operations; a handle for which it returned true is `last` and frees the block.
`detach` distinguishes a block made with `refShareable` from one made with
`refShareableDetach`, whose counter has bit 30 (`DetachBit`) on top; `Count` is
`ref & refMask` in two's complement, with the small negative numbers a
decrement can leave.

### MapTree

`tree` is a record of functions over the nodes, with the header's node and the NULL; 
`Insert`, `Remove` (by key, every equal one) and `Erase` (one node) are one action each, as
they are one call on one thread, and are translated branch by branch: the descent, `Rebalance`
with its rotations, `Unlink` with the cached `most_left`, and `Repair`.  Branches of the code that are mirror
images are one definition over the side they work on, except where the code's are not (`SiblingRaised`).  Each loop of the
code is a step, a function from a state of the loop to the next one that leaves a finished loop as it is, and
`Iterate` repeats it `MaxNodes` times; the proofs show that this is enough for the loops up or down a tree.
`bad` in the record says that the
code followed a null pointer, and then nothing is claimed of what the call had changed (`Becomes`).
`removals` counts removals for the properties that hold up to the first one.

### ListCow

`impl` maps each list to its block or to `shared_null`, `block` each block to its
counter and the values of its ring of nodes.  Every block is made with
`refShareableDetach`, so the counter is written without that bit.  The calls are used by
one thread here (`RefCount` has the interleavings), and each is one action built from
`Write` (`detach()`, `copy()` and the change), `Make`, `Share` (`addref()`), `Lessref`
(with `free()`) and `Drop`.  A call with a list of values is a loop in
the code, and each turn detaches anew; `work` holds what is left of it, `InsertNext` is a turn, and
nothing else happens until `Return`.  Iterators are positions: the model covers those
obtained from the list they are given to after it was detached.

The service, `ListService`, is what bs_list.h:19-21 says: a write reaches one list.
The code keeps to it except for one state, a block without nodes that is shared, because
`copy()` returns at once when there is nothing to copy.  `Isolated` is the refinement outside that
state, and `list_empty` shows what happens in it.

### ListRing

`m` is a small memory: for each cell its `next`, `prev`, and its data if it is a node or its count if it is
a header; `list` and `other` are the headers two handles have, `it` an iterator the program keeps, and
`fault` what went wrong.  A call writes the links in the order the code does
(`Link`, `LinkFirst`, `Out`, `MoveBefore`, `Exchange`, `Turn`), each through the cells as the writes before left
them, so that neighbours, the first and the last node come out as they do in the code.
Positions are found by walking (`Plus`, `Back`), round the header if they are past the
end, and an iterator is a cell that stays in the old ring when the list is
copied.  A loop that has no end is the fault `hang`.  `twisted` is history: the headers of
rings in which `swap(i, j)` exchanged two nodes, or `move()` put a node before
itself (its second position walked round to the first): after these `prev` and `next`
do not agree and the properties say no more than that.
A walk, and each loop over nodes, is a step iterated (`Iteration`), with a step left over when there is nothing
to do: `Longest` is more than any walk that ends can take.  `l += l` puts several elements in with one call, which
`ListService` has as `Extend`.

### ObjectTree

`life`, `ref`, `parent`, `child`, `slot` and `sig` are the fields of `impl::object`; `emitting` is the
stack of `emit()` calls, each with the node it stands on.  Any call may be
made while a callback runs.  `New`, `Reparent`, `Unparent`, `Connect`, `Disconnect`, `Emit`, `CallbackReturns`,
`AddRef`, `LessRef` are the calls; `Destroy` is the last `lessref()`, with its way through
the parent, the signaler and the children; `Delete` is the `delete` of a derived class by its own counter, which
runs none of that.  A pointer that is null or leads to freed memory when the
code follows it is `fault`, and nothing is said of the state afterwards.

The code relies on its callers for much of this and says so nowhere.  `broke` is set when a
caller breaks one of four rules: nobody destroys an object that still has children, that is
the last signaler of a living object, or that is in the middle of an emission (`Entangled`);
an object has one signaler at a time and is connected before it is destroyed by `lessref()`;
a callback does not disconnect its own object; `parent(NULL)` is not called; and `delete` is
for objects without a parent and without connections.  `NoFault` says that these rules are enough.

## What the runs show

| run | bounds | shows |
|---|---|---|
| `render_safety` | always-running window, 2 threads, 1 updater, 3 events, 1 update, 1 stop, a width and a height that change once each | one `run()` at a time; GL context exclusive; no null pointer; at most one late frame; no width or height of a frame goes back, or ahead of what was written; `Inv`, the invariant of the proofs |
| `render_wakeups` | on-demand window, 1 thread, 1 updater, 3 events, 1 update, by the dispatcher or the updater; width and height as above; fair | a width or a height set while the thread is committed to another turn reaches the screen |
| `render_lost_wakeup` | 1 thread, 3 events; width and height as above; fair | **violation**: an event's wake-up is lost |
| `scene_window` | window without a thread, 2 scenes, 2 cameras, 2 controls, lists of up to 3, 6 calls, 2 events, 1 update, glewInit may fail | nothing null is used once initialized; scenes are initialized before they are painted, and every frame reaches those that stay, unless a callback removes a scene the loop has come to, which is also the only way for the loop to leave the list; controls follow the camera |
| `ref_handles` | 5 handles, both kinds of block | freed once, after the last use; no leak of a `refShareable` block; a writer is alone |
| `map_order` | 4 keys with 2 copies each, 3 removals | search order, agreement with `find()`, refinement of `MapService`; before a removal balance and iteration |
| `map_iterate` | 6 keys, 3 removals | **violation**: after removals an iteration misses a key |
| `timer_calls` | 1 timer, 2 callers, 2 thread ids; fair | one `run()` at a time, `id()` is its id, at most one callback after `stop()`, a stopped timer's thread ends, `__wait_mutex` is released |
| `list_handles` | 3 lists, 4 blocks, 2 values, lists of up to 3 | counters are handles, and a call changes one list as it promises while no empty block is shared |
| `list_empty` | 2 lists | **violation**: what is appended to one list is in another |
| `list_ring` | 8 cells, 2 values, up to 3 nodes, 7 calls | the links are a ring both ways, each call changes the sequence as `ListService` says, and the calls that never end or touch what is not a node are the ones named |
| `object_tree` | 3 objects, 1 further reference each, 3 links, 1 emission at a time | parents and children know each other; four rules keep every pointer good; an emission reaches everyone once; `Inv`, the invariant of the proofs |

Why the bounds are enough to be interesting.  Two render threads are what a stop followed by a start can
bring; a third would need a second stop, which adds no new overlap because
`__running` admits one at a time (proved for any number).  Three events let the
context be set up, the viewport change under a frame, and an event follow.  A width and a
height that change once each (`MaxSize`) give four sizes, of which the mixed ones are those a torn access makes; the
components are compared only with older values of their own, so a second change adds a value between
the oldest and the newest, which `ServiceImplemented` covers for any number.  Five
handles allow two that let go, one that copies, one that writes and one that
rests, all at once.  Eight nodes make every branch of the insertion and the removal happen
(the mutants and the coverage of the runs witness it), and six distinct keys are the fewest with which the
violation of `map_iterate` was found.  Three lists
allow a block with two handles beside a third one that is assigned, moved or inserted from, and length three
puts a value before, between and after others; a block more than lists is what `copy()` needs, which allocates before it lets go.  Two callers and two ids make a new thread of a timer start
while its old one is ending, and make `pthread_create` fail.  Two scenes, a list of up to three
(one of them twice) and six calls let a callback remove its own scene, one before
or one after it, and put it back.  Seven calls on a ring fill it to three, share it, keep
an iterator and make two more changes; eight cells hold a full ring, its
copy, and no more, so headers that are never given back end the behaviour early
but leave every call its turn.  Three objects are a parent with two children, a
signaler with two connections, or a chain of three.  The
runs with `SYMMETRY` check safety only.

`CHECK_DEADLOCK FALSE` everywhere but for `ListCow`: the program may stop, in `RenderLoop` once it has
returned, faulted or used up the bounded inputs; a block may be freed; a tree may
have had its removals; the bounded calls on a ring or a window are used up; every object may be freed; a timer may be left alone by its callers with its thread paused.

**Fairness.**  `RenderLoop`: weak fairness of the dispatcher, of each updater's second
half and of each render thread, that is, the scheduler runs a thread that can run.  Nothing
obliges an event, an update, a stop or a spurious wake-up.
`Timer`: weak fairness of each call that has begun and of each thread that exists; nobody is obliged to call.  A mutex is not
assumed to be fair.

## What is proved

All theorems are for every value of the constants that satisfies the named
assumptions: `Assumptions` (flags are booleans, bounds are naturals, the dispatcher is not a
render thread, a window without a render thread is used by one thread),
`RefAssumptions` (finitely many handles, not more than `refDetach` has room for),
`ListAssumptions` (finitely many lists, at least one; `shared_null` is not a block that is allocated),
`RingAssumptions` (at least one cell of memory; the bounds are naturals),
`ObjectAssumptions` (the null pointer is not an object; the bounds are naturals), `WindowAssumptions` (the window
has no render thread; no camera is the null pointer),
`ThreadAssumptions` (0 is not a thread),
`TreeAssumptions` (there is a key, and a node for each; the bound of the removals is a natural).

`WindowProofs`, of `RenderLoop`.  `TypeCorrect`; then the inductive invariant in its parts:
`RunCorrect` (`RunInv`: `__running` is set while any thread executes `run()`, which is what makes a
second one impossible although nobody joins the first; `OneRun` alone does not exclude a
`start()` during a `run()`), `MutexCorrect` (`StackInv` and `LockInv`: the shapes `todo` can
have inside and outside `render_stop`'s critical sections, without which an `unlock`
could release a render thread's lock), from both `ContextIsExclusive`;
`LateCorrect` (`LateInv`: a thread past the test of `_render` has painted no late frame yet);
`FrameCorrect` (`FrameInv`, for each component by itself: `Between`, what a part has read lies between
what it had on the screen and the viewport, and the viewport behind the geometry; `InOrder`, what the
scenes have read in this frame is not older than what the pipeline read, which needs that they read after it
while the viewport only grows) and from it `ServiceImplemented`, the refinement of `FrameService`: every step is
`Ask`, for one component, `Show`, `Stop` or a stutter; `SafeCorrect` (`SafeInv`: which pointers are set at which position) and
`StartCorrect` (`StartInv`: until the context and the pipeline are there, every `start` among the dispatcher's
calls comes behind an `initialize`, and a render thread that runs has both), from
which `NoFaultCorrect`: with a render thread and a GL that starts, no null pointer is followed.  The two hypotheses are those of the
run: a window whose GL fails does go on with a null pipeline.  `InvCorrect` is their conjunction, which `render_safety` also
checks.

`RefCountProofs`.  `RefTypeCorrect` and `RefCorrect` (`RefInv`: while nobody was told to
free the block the counter is the number of users less one, over the block's base), then
`FreedOnceCorrect`, `NoLeakCorrect` (for `refShareable`) and `WriterAloneCorrect`.
The counting invariant is needed because `FreedOnce` says nothing of the counter.

`TimerProofs`.  `ThreadInv` (with `StartsAlone`: the winner of the compare-and-swap is the only one between it and
`pthread_create`, and `IdWritten`) is inductive for every step of a `bs_thread`; `TimerStep` shows that
a step of a timer is one of them or leaves the thread alone.  Hence `TimerTypeCorrect`,
`TimerRunCorrect` and `TimerIdCorrect`.  `LateInv` adds where the thread is in its loop after a
stop, and gives `LateCallbacksCorrect`: at most the callback already decided on comes after `stop()`.

`ListCowProofs`.  `ListCorrect`: `TypeOK` and `RefsExact` are inductive together, because
`lessref()` keeps the counter's type only if the counter is right.  The lemmas go from the
sets of handles (`UsersMove`: what one handle's change does to the cardinality of each) through
the parts the calls are made of (`Less`, `MakeCorrect`, `ShareCorrect`, `DropCorrect`, `TakeCorrect`, `SwapCorrect`,
`WriteCorrect`) to the calls.  `IsolatedCorrect` comes out of the same lemmas: what
the other handles read is untouched (`KeepsOthers`), and what the handle reads is what the service's action says.

`MapTreeProofs`.  Every property of `map_order` is a theorem, for any number of keys, of equal keys and of
removals.  `TreeInvariant`: `TreeInv` is inductive.  That the links agree and that each child is on the right side of its parent
is not enough, since a rotation changes who is below whom; the invariant
therefore says that there are numbers for the nodes, rising with the
keys, such that the nodes below each node are those whose numbers lie strictly between two bounds, which
the parent's number and the parent's own bounds give.  Rotations keep the numbers, a
new node gets one in the gap the descent ended in, and a node that leaves takes its own away
(`RotateKept`, `InsertedKept`, `UnlinkedOne`, `UnlinkedTwo`, `DestroyKept`).  It says nothing of colours, so
it outlives the removal's repair that the code gets wrong.  From it `TypeCorrect`, `SearchTreeCorrect` (the search narrows the bounds
at each step, so `MaxNodes` steps end it: `LoopRule`), `MapCorrect` (each call is an action of `MapService` or a stutter; the one that
crashes is a stutter, since its memory is not looked at) and `IteratesInsertedCorrect`, for which `most_left` is
the first node while `removals` is 0.  `BalancedCorrect` needs `BalanceInv` beside it: `RedsApart` (red nodes
have black children, except at the node the loop of `rebalance` is at) and a function of heights that each
node's children agree on (`Heights`); painting and turning change the heights of two nodes at most (`TurnedHeights`).

`IterationProofs`.  The recursive function in `Iterate` exists (`NatSet` is induction over a set of naturals, from
`WFMin`), and the rules of a loop: what its step keeps holds in the end, and a measure
that falls while it is not finished bounds its turns.  A path along links is what the loop over them visits
(`IteratePath`), and a loop that stands still goes on doing so.

`ListRingProofs`.  `RingCorrect` and `FaultsCorrect`, for any memory and any number of calls.  `RingOK` is not inductive: it
says nothing of a ring that `swap()` twisted, through which later calls still write, nor of the cells that no ring has.
`RingInv` therefore says of every memory that headers and nodes are different cells, that a freed
cell links nowhere and that nothing leads to `shared_null` (`Sane`); and that there is a *fence* (`Fenced`): a set of
cells, with the other handle's ring and the headers nobody has, that no link from in front of it leads into.  A call follows links
from the list's header, so whatever it writes - even in a twisted ring - is in front of the fence (`Within`), and the other handle's ring is what
it was.  A ring itself is a numbered path forth and back (`Chain`): a new node goes in between two numbers
(`PutRound`), a removed one closes the gap (`CutRound`), a copy is built number by number (`CopyLoop`), and a block that
is freed is given back number by number (`FreeEmpties`); a twisted block is freed behind the fence
(`FreeBehind`).  Each call then keeps `RingInv` (`Works`) and has no fault on a ring that is whole (`Succeeds`), which is `FaultHasCause`.

`ContentsCorrect` is the refinement: on two untwisted rings a call on the links is an action of `ListService` on the two sequences of
elements, or changes neither.  The numbers of a `Chain` are the positions of the elements (`ChainElems`), so it is enough to say what
each call does to the numbers: the new node's number splits the sequence (`AnswersGrown`), a removed one leaves a gap
(`AnswersShrunk`), `move()` shifts the numbers between the two places (`MovedList`), `reverse()` exchanges the data of numbers that
mirror each other (`HalfTurned`, after half of the turns), and `swap()` gives two nodes each other's number although the links
back are then wrong (`Swapped`: the elements are read forwards).  That the other handle keeps its elements follows from the fence
(`OtherKept`), that `detach()` keeps both sequences from the copy's numbers (`DetachWhole`), and that `l += l` on a shared block ends with the elements twice
from what each turn of its loop appends (`Lengthens`).  `move()` past the end may close the ring without the header; that case is
excluded by the hypothesis of `Contents`, and `FaultHasCause` and `twisted` follow it.

`ObjectTreeProofs`.  `ObjectInv` is inductive (`ObjectCorrect`): the type, `Family`, `SlotsDistinct` (a slot has
an object once, without which taking one out would leave another),
`Unborn` (nobody knows an object that was not made), `Cursors` (an emission stands on a node of its
slot) and, until a rule is broken, `Sound` (every pointer the code will
follow leads to a living object).  `NoFault` alone is not inductive, because it says nothing of
pointers that are not followed yet.  Hence `FamilyCorrect`, `NoFaultCorrect` and `ObjectTypeCorrect`, for any number of
objects, emissions within emissions and calls in any order.  `InvCorrect` adds `Emissions`: whoever an emission owes a
call is ahead of the node it stands on, whoever it has called is not, and the nodes of a slot that are still in it keep their order.  It needs that
`connect` appends and that taking a node out moves no other (`BetweenAppend`, `BetweenWithout`).  `EmitsToAllCorrect`
follows: what is owed lies ahead of the last node, that is, nobody.

`WindowProofs`, of `GraphWindow`.  `WindowIsLoop`: every step of the window with scenes is a step of `RenderLoop`
or leaves its variables alone, so what is proved of the render loop holds for the window
(`WindowIsSafe` takes over `InitializedIsSafe`).  `SceneCorrect`: `SceneInv` is inductive, with
`InRange` (the index of a callback under way is in the list, which is what `CrashHasCause` needs) and `OwedAhead`
(what the loop owes lies ahead of its index, which is what `ReachesAll` needs).  The lemmas about `Removed` and `Stays` say what a deletion does to positions: what stays
keeps its order, and what was after the index is still after it unless `shifted`.  From these
`SceneTypeCorrect`, `InitFirstCorrect`, `CrashCorrect`, `ReachesAllCorrect` and `ControlsFollowCorrect`, for any
number of scenes, cameras, controls and calls.

**Only model-checked**: liveness (`CommittedShows`, `StopEnds`, `MutexReleased`), which the provers cannot treat.  Every other
property of the passing runs is a theorem.

## Disagreements between the code and what the repository says of it

Each is a `finding` of `PROJECT.json`, with the lines, and one run.

* A wake-up sent between the test of `_loop` and the wait is lost (`render_lost_wakeup`).
* An empty block that lists share is not copied before it is written (`list_empty`).
* One branch of the removal's repair does not paint the parent; afterwards
  `begin()` can be wrong (`map_iterate`).

Others met on the way and not given a run: in a tree that the repair left unbalanced a later repair reads
the children of a sibling that is null (`tree.bad`; six insertions and three removals of distinct keys suffice); two concurrent `lessref()` that both read a count of one leak a
copy-on-write block (`ShareableFreed` holds only without `refDetach`); a timer that is started while its thread
is ending does not run, although `start()` returns true; `bsASSERT` expands to nothing, so a window whose GL start-up fails goes on with a null pipeline
(`RenderLoop` with `GlewFails`); `wait()` does not wait; the comment of `bs_map::find` promises the first of
equal keys; `Window_Initialize`'s bits are in every window event, so `Window_Exit` takes the branch of
initialization and the render thread is not stopped although `iwcontext.h:34` calls the event exit, and for the same
reason no event of the mouse or the keyboard reaches `events()` (the model has the
behaviour); a frame may be given a width and a height that were never set together; `thread_map` keeps the id of a thread that ended before it was recorded, so `current()` may
return another object; `swap(i, j)` of a list leaves the neighbours' `prev` wrong, `insert(itr)` of a shared list and `l += l` of one
that is not shared never end, `replace()` past the end writes to the header and `move()` past the end may lose
the nodes (`FaultHasCause` and `twisted` name them); `hover_times::callback` dispatches without the mutex that
`bs_gui.cpp:10` announces; the first camera put into a list that was emptied becomes the default one without the controls
following (`ControlsFollow` names it).

## Not modelled

`PROJECT.json` lists each component with its reason.  In the parts modelled: thread
priorities, policies and `cancel()`; a derived window's destruction while its thread runs;
the scenes' lists of a window with a render thread, which walks them without a lock while the program changes
them, so that nothing can be promised; an emission nested in a scene's callback;
`events()`, `event_control()` and `event_scene()`, which nothing reaches; what `paint_gui` does in a
frame; `TimerMode_Time`; the values of geometries and colours; iteration while another
handle writes.  Data races on plain flags and integers are modelled as single reads and writes, a vector as several;
on `thread_map` they are marked and then nothing is claimed.

The GUI is left out although it has a mutex and a timer of its own: nothing in the repository puts a widget
into the panel (`tWidgetManages::append` is protected and never called, `bs_gui::create`
returns an empty pointer), so its hover, focus and dispatch run over an empty tree.

## Plan

Done: the render loop, threads and timer, the reference counter, `bs_map`'s tree, `bs_list`'s handles and its ring, the
object tree, and the scene window composed with the render loop.  What would come next, in this order:

1. `Cow`: handles by blocks for `bs_array`, `bs_map` and `bs_maphash`, whose `detach()`
   differs from the list's, with the promise of `ListService` that a write reaches one handle.
2. `SpinLock` for `bs_thread.cpp:64-96`, and what `current()` may find in `thread_map`.
3. `EventCodes`: the tests of `ievent.h` against the sets of bits they stand for.
4. `Clipboard`: the requests to the X server whose answers are events.

Runs are kept few: as modules are added, one question of the same module goes into the same run.
