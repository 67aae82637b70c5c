SPECIFICATION Spec
CONSTANTS
    NrArgRegs = 4
    MaxArgs = 5
    Region = 4
    Address = {0, 2, 3, 5}
    Uses <- MCUses
    Text <- MCText
    TValue = {v0, v1, v2}
    TNil = v0
    MaxList = 2
INVARIANTS
    StaticCallTypeOK
    ArgumentsDelivered
    WaitersIntact
    CallEntersFunction
    DictionaryTypeOK
    KeysUnique
PROPERTIES
    CallEmitted
    RefinesMap
\* the generator is done when the call is emitted, and an assert stops the program
CHECK_DEADLOCK FALSE
