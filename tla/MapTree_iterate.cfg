\* Distinct keys, inserted and removed.
CONSTANTS
    MaxKey = 6
    Copies = 1
    MaxRemovals = 3

SPECIFICATION Spec

INVARIANTS
    Iterates

CHECK_DEADLOCK FALSE
