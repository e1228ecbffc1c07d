\* Equal keys, inserted and removed.
CONSTANTS
    MaxKey = 4
    Copies = 2
    MaxRemovals = 3

SPECIFICATION Spec

INVARIANTS
    TypeOK
    SearchTree
    IteratesInserted
    Balanced

PROPERTIES
    MapServiceSpec

CHECK_DEADLOCK FALSE
