\* Five handles, of a block made with refShareable or refShareableDetach.
CONSTANTS
    Handles = {h1, h2, h3, h4, h5}
    First = h1
    DetachBit = 8

SPECIFICATION Spec

INVARIANTS
    FreedOnce
    ShareableFreed
    WriterAlone
    RefInv

SYMMETRY HandleSymmetry

CHECK_DEADLOCK FALSE
