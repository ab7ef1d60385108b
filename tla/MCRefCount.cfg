SPECIFICATION Spec
CONSTANTS
    p1 = p1
    p2 = p2
    p3 = p3
    NULL = NULL
    Gone = Gone
    HeadField = HeadField
    Nodes <- SomeBlocks
    Locals <- SomeLocals
    Count = 3
    Width = 8
SYMMETRY Symmetry
INVARIANTS
    FreeListIsSound
    CountIsPointers
    RcSafeWhenHeld
\* The pool is given back, or an assertion, undefined behaviour or a read of
\* a freed object ends the run.
CHECK_DEADLOCK FALSE
