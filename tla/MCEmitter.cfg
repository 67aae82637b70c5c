SPECIFICATION Spec
CONSTANTS
    Label = {0}
    VmLines = 2
    OffsetRange = 4
    FirstBuffer = 8
    MaxCode = 4
    MaxPlaced = 2
INVARIANTS
    TypeOK
    JumpTableOrdered
    LabelsSorted
    HeadIsBranches
PROPERTIES
    ReallocOldSize
    LinkExact
    RefinesEagerAssembler
\* a linked or aborted emitter is finished
CHECK_DEADLOCK FALSE
