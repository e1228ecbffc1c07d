\* Rendering on request: events, and an update from the dispatcher or another thread.
CONSTANTS
    MultiThread = TRUE
    AlwaysRun = FALSE
    Threads = {t1}
    Updaters = {u1}
    Disp = disp
    None = none
    GlewFails = FALSE
    Emits = TRUE
    CallsStop = FALSE
    MaxEvents = 3
    MaxUpdates = 1
    MaxStops = 0
    MaxSize = 2

SPECIFICATION FairSpec

PROPERTIES
    CommittedShows

CHECK_DEADLOCK FALSE
