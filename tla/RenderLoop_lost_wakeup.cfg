\* Rendering on request: a wake-up sent before the thread waits.
CONSTANTS
    MultiThread = TRUE
    AlwaysRun = FALSE
    Threads = {t1}
    Updaters = {}
    Disp = disp
    None = none
    GlewFails = FALSE
    Emits = FALSE
    CallsStop = FALSE
    MaxEvents = 3
    MaxUpdates = 0
    MaxStops = 0
    MaxSize = 2

SPECIFICATION FairSpec

PROPERTIES
    EventShows

CHECK_DEADLOCK FALSE
