SPECIFICATION Spec
CONSTANTS
    NrTemps = 3
    Value = {a, b}
    MaxDepth = 8
INVARIANTS
    TypeOK
    Staircase
    SpillsDisjoint
    ClobberBoundsSpills
PROPERTY RefinesVirtualTemps
\* a failed assert stops the compiler
CHECK_DEADLOCK FALSE
