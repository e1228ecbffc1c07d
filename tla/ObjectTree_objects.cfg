\* Three objects, one more reference to each, three links.
CONSTANTS
    Objects = {o1, o2, o3}
    None = none
    MaxRefs = 1
    MaxDepth = 1
    MaxLinks = 3

SPECIFICATION Spec

INVARIANTS
    TypeOK
    Family
    NoFault
    Inv

PROPERTIES
    EmitsToAll

SYMMETRY ObjectSymmetry

CHECK_DEADLOCK FALSE
