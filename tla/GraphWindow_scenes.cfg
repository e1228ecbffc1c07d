\* A window without a render thread, two scenes, two cameras and two controls.
CONSTANTS
    MultiThread = FALSE
    AlwaysRun = FALSE
    Threads = {}
    Updaters = {}
    Disp = disp
    None = none
    GlewFails = TRUE
    Emits = TRUE
    CallsStop = FALSE
    MaxEvents = 2
    MaxUpdates = 1
    MaxStops = 0
    MaxSize = 2
    Scenes = {s1, s2}
    Cameras = {c1, c2}
    Controls = {k1, k2}
    MaxCalls = 6
    MaxLen = 3

SPECIFICATION SceneSpec

SYMMETRY SceneSymmetry

INVARIANTS
    SceneTypeOK
    InitializedIsSafe
    InitFirst
    CrashHasCause

PROPERTIES
    ReachesAll
    ControlsFollow

CHECK_DEADLOCK FALSE
