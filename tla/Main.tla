-------------------------------- MODULE Main --------------------------------
(***************************************************************************)
(* The program (main.c, main): a file of bytecode is loaded and compiled,  *)
(* a state is made with a C function in a global variable, and the main    *)
(* chunk is executed; with -d the code is written out instead (ElfDump).   *)
(* While the chunk runs, Lua functions and C functions call each other     *)
(* (CStack).                                                               *)
(***************************************************************************)
EXTENDS CStack

CONSTANTS
    Ctest,       \* the name of the global variable that holds ctest
    Chunks, Headers, GoodHeader, Opcodes, Closure, Buffer,   \* of Loader
    JfCount, ArchCount, JitSize, FputsResult                 \* of ElfDump

MainAssumption == Ctest \in Name
ASSUME MainAssumption

VARIABLES
    chunk, file, pos, active, protos, outcome,   \* of Loader
    elf, dumped, strtabidx, secoff, mark,        \* of ElfDump, which reads protos
    phase,      \* what main() is at
    disassem    \* option -d

Load == INSTANCE Loader
Elf == INSTANCE ElfDump

ASSUME ProgramsAssumption == \A c \in Chunks : Load!IsProgram(c)
ASSUME BufferAssumption == Buffer \in Nat

loadVars == <<chunk, file, pos, active, protos, outcome>>
elfVars == <<elf, dumped, strtabidx, secoff, mark>>
mainVars == <<vars, loadVars, elfVars, phase, disassem>>

MainInit ==
    /\ Init
    /\ Load!Init
    /\ Elf!Init
    /\ phase = "load"
    /\ disassem \in BOOLEAN

-----------------------------------------------------------------------------
Goto(p) == phase' = p
OnlyApi == UNCHANGED <<loadVars, elfVars, disassem>>
OnlyLoader == UNCHANGED <<vars, elfVars, disassem>>
OnlyMain == UNCHANGED <<vars, loadVars, elfVars, disassem>>

LoadFile ==
    /\ phase = "load"
    /\ Load!Next
    /\ UNCHANGED phase
    /\ OnlyLoader

\* A file that is not accepted is the end; a state is made for one that is.
FileRead ==
    /\ phase = "load"
    /\ outcome # "loading"
    /\ Goto(IF outcome # "loaded" THEN "exit" ELSE IF disassem THEN "serialise" ELSE "push")
    /\ OnlyMain

\* The object file is written from the code, which is left as it is.
Serialise ==
    /\ phase = "serialise"
    /\ \/ Elf!Next /\ UNCHANGED phase
       \/ dumped = "all" /\ Goto("exit") /\ UNCHANGED elfVars
    /\ UNCHANGED <<vars, loadVars, disassem>>

PushCtest == phase = "push" /\ PushValue(CFun) /\ Goto("name") /\ OnlyApi
NameCtest == phase = "name" /\ SetGlobalName(Ctest) /\ Goto("execute") /\ OnlyApi

\* The globals are the one upvalue of the main chunk.
ExecuteMain ==
    /\ phase = "execute"
    /\ OnlyApi
    /\ IF Len(protos[<<>>].upvalues) = 1
       THEN Execute /\ Goto("run")
       ELSE Goto("aborted") /\ UNCHANGED vars

\* The main chunk has not returned to execute.
ChunkRuns == Depth > 1 \/ ret # <<>>

RunChunk ==
    /\ phase = "run"
    /\ ChunkRuns
    /\ Next
    /\ UNCHANGED phase
    /\ OnlyApi

Cleanup ==
    /\ phase = "run"
    /\ status = "running"
    /\ ~ChunkRuns
    /\ Goto("exit")
    /\ OnlyMain

MainNext ==
    \/ LoadFile \/ FileRead \/ Serialise \/ PushCtest \/ NameCtest \/ ExecuteMain \/ RunChunk \/ Cleanup

MainSpec == MainInit /\ [][MainNext]_mainVars

-----------------------------------------------------------------------------
(* What is read of the file is what it says, to its end (Loader).            *)
LoadedExactly == Load!LoadedExactly

(* The object file of option -d describes the code of all functions          *)
(* (ElfDump).                                                                *)
ObjectFileDescribesCode == Elf!ObjectFileDescribesCode
=============================================================================
