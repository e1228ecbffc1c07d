\* Three lists, with a block more than lists: detach() allocates before it lets go.
CONSTANTS
    Handles = {h1, h2, h3}
    Blocks = {b1, b2, b3, b4}
    Null = shared_null
    Values = {v1, v2}
    MaxLen = 3

SPECIFICATION Spec

INVARIANTS
    TypeOK
    RefsExact

PROPERTIES
    Isolated

SYMMETRY BlockSymmetry

