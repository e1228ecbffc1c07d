\* The style of bs_main, with everything around it that can disturb the loop.
CONSTANTS
    MultiThread = TRUE
    AlwaysRun = TRUE
    Threads = {t1, t2}
    Updaters = {u1}
    Disp = disp
    None = none
    GlewFails = FALSE
    Emits = TRUE
    CallsStop = TRUE
    MaxEvents = 3
    MaxUpdates = 1
    MaxStops = 1
    MaxSize = 2

SPECIFICATION Spec

INVARIANTS
    TypeOK
    OneRun
    ContextExclusive
    NoFault
    LateFrames
    Inv

PROPERTIES
    FrameServiceSpec

SYMMETRY ThreadSymmetry

CHECK_DEADLOCK FALSE
