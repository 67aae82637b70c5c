SPECIFICATION Spec
CONSTANTS
    F = F
    G = G
    C = C
    LuaFn <- MCLuaFn
    CFn <- MCCFn
    NrLocals <- MCNrLocals
    NrParams <- MCNrParams
    Calls <- MCCalls
    Returns <- MCReturns
    MaxWord = 16
    MaxResults = 2
CHECK_DEADLOCK FALSE
PROPERTY CallKeepsLocals
