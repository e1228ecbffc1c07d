\* Three elements and a copy of them: the list's ring, the other handle's and a
\* new block, in a memory that gets no header back.
CONSTANTS
    N = 8
    Values = {v1, v2}
    MaxLen = 3
    MaxCalls = 7

SPECIFICATION Spec

INVARIANTS
    RingOK

PROPERTIES
    Contents
    FaultHasCause

SYMMETRY ValueSymmetry

CHECK_DEADLOCK FALSE
