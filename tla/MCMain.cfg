SPECIFICATION MainSpec
CONSTANTS
    CFun = CFun
    LFun = LFun
    Nil = Nil
    Junk = Junk
    Number = {n1}
    Name = {g}
    Ctest = g
    MinStack = 2
    MaxDepth = 4
    MaxValues = 2
    Headers = {Good, Bad}
    GoodHeader = Good
    Chunks <- MCChunks
    Opcodes <- MCOpcodes
    Closure <- MakeClosure
    Buffer = 3
    JfCount = 2
    ArchCount = 1
    JitSize = 2
    FputsResult = 1
CHECK_DEADLOCK FALSE
INVARIANTS
    TypeOK
    LoadedExactly
    ObjectFileDescribesCode
PROPERTIES
    RefinesValueStacks
