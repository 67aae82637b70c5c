SPECIFICATION Spec
CONSTANTS
    Word = {0, 1}
    Reg <- MCReg
    CallerSaved <- MCCallerSaved
    RegTable <- MCRegTable
    MaxLocals = 2
    MaxDepth = 2
INVARIANTS
    TypeOK
    EntriesExact
PROPERTY RefinesPrivateLocals
