SPECIFICATION Spec
CONSTANTS
    Value = {0, 1}
    NrLocals = 1
    NrRegLocals = 1
    Protos <- MCRegProtos
    JumpArgs = {}
    MaxDepth = 2
    MaxClosures = 2
    MaxCells = 2
PROPERTY CloseTakesCurrentValue
CHECK_DEADLOCK FALSE
