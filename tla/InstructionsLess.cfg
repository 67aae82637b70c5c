SPECIFICATION Spec
CONSTANTS
    Half = 8
    ImmHalf = 4
    Locals = 4
    Upvals = 2
    FieldsPerFlush = 2
    Addresses <- MCAddresses
    Numeric <- MCNumeric
    SpareRegs <- MCSpareRegs
    Program <- MCProgram
    Starts <- MCStarts
INVARIANT SkipsAsDocumented
CHECK_DEADLOCK FALSE
