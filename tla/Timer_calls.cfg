\* One timer called by two threads.
CONSTANTS
    Objects = {timer}
    Users = {u1, u2}
    Ids = {i1, i2}
    None = none

SPECIFICATION FairSpec

INVARIANTS
    TypeOK
    OneRun
    IdOfRunner
    LateCallbacks

PROPERTIES
    StopEnds
    MutexReleased

CHECK_DEADLOCK FALSE
