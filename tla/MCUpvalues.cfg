SPECIFICATION Spec
CONSTANTS
    Value = {v0, v1}
    NrLocals = 3
    NrRegLocals = 1
    Protos <- MCProtos
    JumpArgs = {1}
    MaxDepth = 2
    MaxClosures = 3
    MaxCells = 4
SYMMETRY ValueSymmetry
INVARIANTS
    TypeOK
    OpenUpvaluesLive
    OneUpvaluePerPlace
    OpenListByFrame
PROPERTY RefinesBoxedVariables
\* the main chunk returns
CHECK_DEADLOCK FALSE
