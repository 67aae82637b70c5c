SPECIFICATION Spec
CONSTANTS
    Half = 8
    ImmHalf = 4
    Locals = 4
    Upvals = 2
    FieldsPerFlush = 2
    Addresses <- MCAddresses
    Numeric <- MCNumeric
    SpareRegs <- MCSpareRegs
    Program <- MCProgram
    Starts <- MCStarts
INVARIANTS
    TypeOK
    ComputesInRegisters
PROPERTIES
    RefinesLuaOperations
    Terminates
\* an instruction that is done, refused or in error is the end
CHECK_DEADLOCK FALSE
