# Formal models of eluajit (TooLegitToJit)

eluajit is a small just-in-time compiler for the integer-only bytecode of Lua
5.2, written in C and targeting MIPS32.  `main.c` loads a `luac` file, every
function prototype is translated instruction by instruction into machine code,
and the result is called.  The compiler is single-threaded; what is hard in it
is not concurrency but *two times*: an allocator, a frame map or an emitter
runs at compile time and decides, through offsets and counters, what the
emitted code will do to registers, stack words and heap cells at run time.  A
mistake shows only after a particular sequence of both.

This directory holds TLA+ modules that model the parts of the compiler and its
runtime, the configurations that model-check them with TLC, and theorems about
them checked by TLAPS.

## 1. Inventory

| Component | State it keeps | Operations | Talks to |
|---|---|---|---|
| Temporary registers (`temporaries.c`) | reference counts in the upper half of `m->reg[]`, `allow_spill`, `max_access`; at run time the registers and the words below `sp` | `acquire_temp`, `release_temp`, `temps_accessed`, `disable_spill`/`restore_spill`/`enable_spill` | every code generator |
| Machine-code emitter (`emitter32.c`) | code buffer, jump table, lists of local labels, list of unlinked branches | `ENCODE_OP`, `label_pc`, `label_local`, `branch_pc`, `branch_local`, `link`, `absc`, `offset`, `cleanup` | loader, branch generator |
| Shared JIT functions (`jitfunc.c`, `arch/mips/jfunc.c`) | table of entry points, clobber and temps of each | `jfuncs_init`, `jfunc_call`, `jfunc_addr` | call protocol, register save |
| Frame map (`frame.c`, `arch/mips/machine.c`) | none; a mapping from Lua locals to registers and stack words | `vreg_to_operand`, `pslot_to_operand`, `emit_header` | all instruction generators |
| Register save and restore (`stack.c`) | none at compile time; registers and frame words at run time | `x_frame`, `jinit_store_regs`, `jinit_load_regs`, `jf_*local_offset`, `save_frame_limit` | frame map, JIT functions |
| Static C calls (`arch/mips/call.c`) | a dependency graph of the argument registers during one call | `mips_static_ccall`, `assign_arg_regs`, `resolv_cycle`, `safe_direct_call` | temporaries, upvalues, tables |
| Upvalues and closures (`func.c`, `emit_closure`, `emit_getupval`, `emit_setupval`) | `openuvs` list, cells, closures | `closure_create`, `find_stackupval`, `closure_close` | frame, register save, epilogue |
| Call protocol (`xlogue.c`) | argument registers, frame words, `sp`, `fp`, `ra` | `do_call`, `do_ret`, `prologue`, the `jinit_*` functions, `ljc_invokec` | JIT functions, Lua state, upvalues |
| Branches and comparisons (`arch/mips/branch.c`, `libranch.c`) | none | `beq` ... `bge`, `emit_eq`, `emit_lt`, `emit_le`, `emit_jmp` | emitter, temporaries, upvalues |
| Arithmetic (`arch/mips/arithmetic.c`, `liarith.c`, `synthetic.c`) | none | `add` ... `pow`, `push`, `pop`, `syn_min`, `memcpyw` | temporaries |
| Loops and moves (`instruction.c`) | none | `emit_forprep`, `emit_forloop`, `emit_loadk`, `emit_move` | branches, arithmetic |
| Tables and dictionaries (`table.c`, `listdict.c`, `litabup.c`) | array part, dictionary list | `table_create`, `table_setlist`, `table_set`, `table_get`, list dictionary `search`/`insert`/`find`/`delete` | Lua state |
| Lua state and C API (`lapi.c`, `lstate.c`) | value stack `stack`..`top`, globals, `openuvs` | `lua_push*`, `lua_settop`, `lua_gettop`, `lua_call`, `lua_setglobal`, `lua_getglobal` | tables, call protocol |
| Loader (`main.c`) | prototypes being read, the position in the file | `load_function`, `load_constants`, `load_prototypes`, `load_code`, `load_upvalues`, `ignore_debug`, `execute`, `main` | all generators |
| ELF dump (`elf.c`) | offsets of names and of code | `serialise` | loader, emitter |
| Allocation, strings, errors, meta-events (`mmap_alloc.c`, `lstring.c`, `lerror.c`, `lmetaevent.c`) | pages | thin wrappers and stubs | loader |

What is hard in each of them, and the properties that make it right:

* **Temporary registers.** More temporaries than registers can be held; the
  two scans that pick a slot agree only while the reference counts have a
  certain shape.  A released temporary must get back the value it had.
* **Emitter.** Labels are found by scanning lists after all code is emitted;
  recording a branch and encoding it must stay in step; offsets are truncated;
  the buffer grows under an allocator that is told its old size.
* **Frame map and register save.** Locals are spread over callee-saved
  registers, caller-saved registers and stack words, two words each, and the
  code that saves them is shared by all functions and entered in the middle.
* **Static C calls.** Operands that are in argument registers already must be
  moved in an order in which none is overwritten; there may be cycles.
* **Upvalues.** A captured variable is in a stack word, then in a heap cell;
  closures made at different times must agree which.
* **Call protocol.** Frames are built by one piece of generated code and taken
  down by another; numbers of arguments and results may be unknown until run
  time; C functions use the same stack.
* **Tables.** Keys of several types are compared by a scan that trusts the type
  of the node.
* **Branches, arithmetic, loops.** Instruction selection over 32-bit words:
  overflow, shifts for division, complementary conditions.
* **Lua state.** Stack indices from both ends, re-entry from C; the results of a
  function are read from an array that is no longer in use.
* **Loader.** Code precedes what is needed to compile it, so the reader skips it,
  reads on, comes back and leaves again, at every depth of nesting; names
  longer than a buffer are read in part and skipped in part.
* **ELF dump.** Four traversals of the functions find each other's output by
  counts of what was written.

Nothing in the program runs concurrently, nothing persists and no message is
sent, so there are no hazards of these kinds.

## 2. The modules

Every component is one module, and most have the specification of what they
promise in another, which they implement under a refinement mapping written at
their end.

| Code | Detailed module | Implements | Proofs |
|---|---|---|---|
| `temporaries.c` | `Temporaries` | `VirtualTemps`: a stack of values | `TemporariesProofs` |
| `emitter32.c` | `Emitter` | `EagerAssembler`: every branch is resolved as soon as its destination is placed | `EmitterProofs` |
| `frame.c`, `stack.c`, `arch/mips/jfunc.c`, parts of `xlogue.c` and `arch/mips/call.c` | `Locals` | `PrivateLocals`: a stack of functions, each with locals only it can change | `LocalsProofs` |
| `xlogue.c` | `CallProtocol` | `Activations`: activations that keep what is below `top` and pass values in order | `CallProtocolProofs` |
| `func.c`, upvalue instructions | `Upvalues` | `BoxedVariables`: variables are boxes that closures share | `UpvaluesProofs` |
| `arch/mips/call.c` | `StaticCall` | | `EmitterProofs` |
| `arch/mips/arithmetic.c`, `arch/mips/branch.c`, `liarith.c`, `libranch.c`, `litabup.c`, `instruction.c`, `operand.c` | `Instructions`, from `TableCode`, `InstructionCode`, `CodeGenerators`, `MipsCode` and `Words` | `LuaOperations`: an instruction changes the locals, upvalues and tables it names and decides whether to skip | `InstructionsProofs` |
| `table.c`, `listdict.c` | `Dictionary` | `KeyValueMap`: a partial function that may stop | `InstructionsProofs` |
| `lapi.c`, `lstate.c`, `ljc_invokec` and `jinit_bootstrap` of `xlogue.c` | `CStack` | `ValueStacks`: every active C function has a list of values of its own | `CStackProofs` |
| `main.c`, from `load_function` on | `Loader` | | `MainProofs` |
| `elf.c` | `ElfDump` | | |
| `main` | `Main`, which composes `Loader`, `ElfDump` and `CStack` | | |

Two components that belong together have their theorems in one module: the code that
calls a table function and the table, and the emitter and the call instructions that it
emits.  So names that both of two such components would define have the prefix
`Dictionary` or `StaticCall` in the smaller one.  `MC<Module>.tla` and the `.cfg` files
give constants their values for TLC; `MCTableCalls` makes one program of `StaticCall`
and `Dictionary`, a call of a C function and what that function does with a table.

## 3. State and actions

### Temporaries
`refcount` is the upper half of `m->reg[i]`, `regs` and `spilled` are what the
emitted moves do at run time, so one action is an acquire or a release *and* the
execution of the code it emits.  `StackWord` is `abs_stack_offset`,
`AcquireSlot` and `ReleaseSlot` are the scans.  `AcquireAborts` is the assert
when spills are disabled.  `SetSpill` are the three toggles, `BeginJFunc` the
reset of the high-water mark for a shared function.

### Emitter
One action per method that `load_code` and the generators call.  A word of code
is a record that says whether it is a branch and what its operand field holds,
with the arithmetic of `link` modulo `OffsetRange`; the opcode is not kept.
`LabelPc`, `LabelLocal`, `BranchPc`, `BranchLocal`, `EmitOp`, `Link` and the
assert `LinkAborts` are the operations, and the `lines` counter is the loop
index of `load_code`.  `Link` cuts the buffer to the size of the code.  An offset
that does not fit its field is truncated without a word; `EagerAssembler` lets such
a branch go to any line but keeps all others exact.

### Locals
`regs` and `frames` are run-time state; what the compiler decides is in
operators: `InRegister` and `RegOf` (`vreg_to_operand`), `MovesFrom` and `Skip`
(the shared code of `stack.c` and the offset at which it is entered),
`TempMoves` (the MIPS code around C calls).  Actions are an assignment to a
word of a local, a Lua call, its return, a C call that yields a value into a
local, and one that yields none.

### CallProtocol
The stack as words counted from its bottom, `sp`, `fp`, the return-address
register and the four argument registers.  Actions are the pieces of generated
code between two jumps: `PreCall`, `LuaPro` and `CPro` (the two sides of
`jinit_pro`), `Prologue`, `Ret`, `Epilogue`, `PostCallFixed`, `PostCallOpen`.
`Calls` and `Returns` are the instructions of each function.  A program uses up
results of unknown number at once, as the bytecode compiler guarantees.  The
move to the operand behind the array `rargs` (`xlogue.c:370`) is undefined in C;
it is modelled as having no effect on the registers of the protocol, which is
also what happens if that operand is `iter`.

`PreCall` does not ask whether the called local holds a function, as `precall` does not
(its TODO, `xlogue.c:77`), and `jinit_pro` lets every value that is neither kind of function
fall through to `lcl_pro`.  There the code is fetched through the word of the local;
if that is no closure the machine jumps anywhere, the status `"astray"`, in which
nothing more is said of it.  `Activations` sets no missing argument or result to a
value of its own choice: what such a local holds is left open there, and that it
should be nil is the property `MissingAreNil`.

The refinement mapping walks the frame pointers.  An activation's `top` is
where `sp` is, which is not always above its locals (see the findings), so
`Activations` promises nothing about locals from `top` on.

### Instructions
The generators are in layers.  `Words` has the arithmetic, `MipsCode` the operands
and what the processor does with an instruction.  `CodeGenerators` has one operator
per function of `arch/mips/arithmetic.c` and `branch.c`, which yields the sequence
of machine instructions that the function emits.  `InstructionCode` puts them
together as `emit_bop`, `emit_relational`, `emit_move`, `emit_forprep` and
`emit_forloop` do, with the check of types and the call of C behind it, and
`TableCode` as `litabup.c` does for upvalues and tables.  `Instructions` runs the
code: one action per machine instruction, a branch together with its delay slot,
and one per C function that the code calls.

`spare` is the number of registers for words of locals, so a local may be in
registers, on the stack, or its value in one and its type on the other.  `val`
holds registers and words of memory: words of the frame, the closure, its upvalues
and the cells they point to, so that `getupvalptr` is three loads and an address
of a type word really is in a temporary across `table_get`.  `heap` are the tables
as maps, which `Dictionary` implements.  A failed assertion of a generator is an
element of its code and makes `Enter` end in `"aborted"`.  Labels stay in the code
by name (`Emitter` resolves them); a call of C is one instruction (`StaticCall`
passes its arguments) that leaves any value in the temporaries.  `state` is an
auxiliary variable for the refinement: locals, upvalues and tables when the last
bytecode instruction was complete.

`LuaOperations` promises what the code can keep: a comparison of numbers goes by
the sign of a difference, which must be a word; a quotient is truncated; a loop that
counts up runs exactly, also when its last step overflows.  Order is promised for two
numbers and two strings, and any other pair ends in an error.  A read from a value
that is no table ends in an error too.  A write is another matter: `ljc_tableset` and
`table_setlist` get an address and no type (the TODOs of `litabup.c:195` and `:270`), so
what is written is whatever is at that address.  A word that happens to be
the address of a table changes that table, whatever its type is; with any other one the
program writes to memory that is no table, the status `"astray"`.

### Upvalues
`uvs` are the cells, `openuvs` the list in its order, `creating` the closure
that the loop of `closure_create` is filling.  One action per turn of that
loop (`CaptureOpen`, `CaptureNew`, `CaptureParent`), so that a capture may find
an upvalue that the same closure just opened.  `Return` saves result registers,
closes and drops the frame, as `do_ret` and the epilogue do; `Jump` closes from
`A`.  `NrMigrated` is the length of the prefix of the list that
`closure_close` takes before it stops.

### StaticCall
The loops of `mips_static_ccall` one turn at a time: stack arguments, the
dependency graph with its byte encoding (bit 7 and an offset), rounds of moves
with `resolv_cycle` between them, the arguments that are not in registers, the
call.  `areg` holds what the argument registers contain at run time, `call` the
call instruction: a `jal` if `is_safe_direct_call` says so, or a call through a
register, with the address that the processor goes to.  The same two functions
call the shared functions.

### Dictionary
The list of nodes in order, with the comparison of `find` and its assert, and
`table_setlist` one item at a time.  Keys have a type and a word; two addresses
may hold the same text.  `Matches` goes by the type of the node alone, as `find` does:
in a table that has a string and is used with a number, `strcmp` is given the number
for an address.  Where there is memory at that address the texts are compared, and
where there is none the program stops (`Faults`), as it does at the assertion.  What
`find` cannot tell apart, and `KeysToldApart` excludes, is a key that is no string and has the
word of one or is the address of its text.

### CStack
`memory` are the arrays of values, `gstack` of the state and one in the frame of
each active `ljc_invokec`; `stack` and `top` are the fields of the state, which the
C code saves and restores in activations.  `Push`, `Pop`, `SetTop`, `SetGlobal`,
`GetGlobal` and `Call` are the functions of the API, with the assertions of
`index2addr` and `luai_apicheck` as the status `"aborted"`.  A call of a C function
enters `InvokeC`, one of a Lua function goes through `bootstrap` (`InvokeLua`); Lua
functions call again (`LuaCalls`), and `CReturns` and `LuaReturns` leave `ret`, a
pointer into an array that may be gone, until `ApiTakes`, `LuaTakes` or `Executed`
read it.  Then the array is set to `Junk`, as is what lies past the top of a
stack, so a result that is read too late does not get through unnoticed.  Arrays of
C functions have `LUA_MINSTACK` places; the one for results of generated code stands
for the stack of generated code and has room for the most values a call passes.

### Loader
The file is a sequence of items without tags, as luac writes it (`Dump`, external);
`pos` is `ftell`.  `active` is the stack of calls of `load_function` with the step
each is at: members, constants, prototypes, code, upvalues, debug information.
`LoadMembers` notes where the code is and skips it; `Rewind` comes back for it after
the functions inside are read, and `CodeLoaded` goes to `AfterCode`.  `Static` is
`load_static_string` with its buffer.  Outcomes other than `"loaded"` are a header
that is rejected, a failure with a message, an assertion, and a crash.

### ElfDump
One action per stage of `serialise`: names, code, symbols, section headers, header.
A traversal is `PostOrder` of the tree of functions.  The file is a sequence of
units, and offsets are positions in it.  `ObjectFileDescribesCode` reads the result
the way a tool does, from the header on.

### Main
The phases of `main()`: the file is loaded; then either the object file is written,
or `ctest` is pushed and named and the main chunk runs until it returns.

## 4. The runs

| Run | Bounds | Shows |
|---|---|---|
| `temporaries` | 3 registers, 8 held | two rounds of spills of every slot and a third begun; `RefinesVirtualTemps`, spills are disjoint, the recorded clobber bounds them as long as one round is spilled |
| `emitter` | 2 lines, 4 instructions, one label placed twice, first buffer of 8 bytes, offsets from -2 to 1 | the buffer of two instructions grows, a branch lies before, between and after the places of its label, in reach of it or out of reach; jump table, sizes, `LinkExact`, `RefinesEagerAssembler` |
| `upvalues` | 3 locals, 2 frames, 3 closures, 4 cells | sharing through calls, closes by jumps and returns; `RefinesBoxedVariables` |
| `table_calls` | 4 registers as on MIPS, 5 operands; regions of 4 instructions, code and functions at 4 places in 2 of them; 3 or 4 keys, 3 values, 2 list items | all operands in all registers: order, waiting, termination; near and far calls enter their functions; tables with numbers, with strings, with a boolean beside numbers, and with strings beside numbers: `RefinesMap` |
| `upvalue_stale` | as `upvalues` | a violation: `CloseTakesCurrentValue` |
| `locals` | 2 callee-saved, 1 caller-saved register, 2 locals | a local whose value is in a register and whose type is not; `RefinesPrivateLocals` |
| `calls` | 17 words, functions of 3 and 1 locals, up to 2 results from C | two and three frames, fixed and open calls, results fewer and more than expected, called values that are no functions; `RefinesActivations`, `HeadersIntact` |
| `missing_not_nil` | as `calls` | a violation: `MissingAreNil` |
| `call_clobbers` | as `calls` | a violation: `CallKeepsLocals` |
| `instructions` | words of 4 bits, immediates of 3; constants that fit an immediate, its negation, both, none; 2 upvalues, 2 tables and a new one; 5 divisions of the locals between registers and stack | every operand form of five operations and six comparisons, numbers and strings, comparisons of nil and of a table too, all loops with steps -1, 1 and 2, thirteen kinds of instructions, on tables, on values that are none, and on one that has the address of one; `RefinesLuaOperations`, `ComputesInRegisters`, `Terminates` |
| `negated_order` | as `instructions` | a violation: `SkipsAsDocumented` |
| `main` | value stacks of 2, 4 active functions with `main` among them, 2 values passed; 5 programs of up to 4 functions three deep, a good and a bad header; strings around a buffer of 3 | every way a file is refused and one that loads and runs; calls between C and Lua that fill the stacks; `RefinesValueStacks`, `LoadedExactly`, `ObjectFileDescribesCode` |

Two of everything that can be confused (values, frames, closures, keys of one
text) and one more than fits (registers, buffer, expected results) is what the
bounds are chosen for; the theorems remove them where there are theorems.
`calls` has three frames only of the small function.  In `emitter` four instructions are
longer than the reach of a branch, in both directions.  In `table_calls` every table is
looked at after one of the calls.  In `main` the C functions make any calls of the API
in any order, of which the places of the stacks are the only bound, and the Lua
functions pass any values; the depth of four is `main`, the main chunk and
two functions above it, of which each may be C or Lua.

Deadlock is not checked where the modelled code stops: an assert, a linked
emitter, a call that is emitted, an instruction that is done, the return of the
main chunk, the end of the program, the end of the bounded stack.

## 5. Fairness

`WF_vars(Next)` is assumed in `StaticCall` and `Instructions`: a generator that runs
alone and never blocks does its next step, and so does the processor.  `CallEmitted`
says that the rounds of a call end, `Terminates` that every instruction and every
loop does.  All other properties are safety properties and the modules state no
fairness; in `CStack` in particular a C function may go on for ever.

## 6. What is proved

All theorems hold for every value of the constants that meets the assumptions
named in the modules.

**Temporaries.** `IInv` is the type invariant and `IsStair`: the reference
counts are `n + 1` up to some slot and `n` from there on.  `Staircase` alone
does not determine the slot that a scan finds; the stair does (`StairSlots`),
so an acquire and the release that undoes it meet at the same slot.  The
theorems are type correctness, `Staircase`, `SpillsDisjoint` (from the
arithmetic of `StackWord`), `ClobberBoundsSpills` (the words of the first round of
spills are those counted by the clobber; section 7 has what is beyond) and the refinement of
`VirtualTemps`, whose mapping reads the value of each held temporary in its
register or its word.

**Emitter.** `IInv` adds to the safety invariants what ties `pc` to the number
of lines and the types that the arithmetic needs.  `LinkIsExact`: a branch in
reach gets the distance to its label and any other misses it by a multiple of
the range.  `TypeCorrect` says among other things that the code never outgrows its
buffer, and `OldSizeIsReal` that the allocator is told the right old size: both are
about a buffer doubled until it fits, so they rest on an induction over the
doublings.  `LabelsResolve`: the linked code is that of `EagerAssembler`, in which a
branch in reach has the destination that was known when its label was placed, for
any range of offsets; nothing is assumed about how long the code is.

**Locals.** `EntriesAreExact` is about the shared code alone: for every table
and number of locals the entry is within it and the moves from there on are
those of the function's locals, shown by counting words of locals before and
after the entry.  `TypeCorrect` holds for any table.  `LocalsArePrivate` has the hypothesis
`DistinctRegs`, that no two words of locals are in one register, and an invariant that says
where the words of suspended functions are.  The table of MIPS (`machine.c:155`) lists `_t6`
twice, as the 14th and the 15th of the registers for locals, so the hypothesis is about
how many locals functions have: `LocalsArePrivateOnMips` is that with up to seven of them,
14 words, locals are private with this very table.

**Static C calls.** `WaitersIntact` says that a register which an argument still
waits for holds what it held at the start.  `IInv` adds the ranges of the graph and
of the counters, that the registers are untouched until the graph is made, and
that the source `zerorow` finds is a register the argument waits for
(`SourceWaits`).  `StaticCallTypeCorrect` and `WaitersStayIntact` hold for any
number of registers and operands, so no move destroys
what another one still needs, whatever the graph.  `ArgumentsArrive` adds that every
argument which does not depend on its own register gets the value of its operand.
Its invariant `DInv` has four parts more: an argument waits for at most one
register, that of its operand or, on a cycle, its own (`Rows`); what no longer waits
has arrived (`Done`); a round that has moved nothing has passed over nothing but
arguments that others wait for (`Round`), and then the registers still waited for
form a set that the operands map onto itself (`AllOnCycle`), so a cycle is broken
only where there is one; and so on for the operands that are not in registers.
That the rounds end is left to TLC.  `CallsEnterFunctions` is about `jal`: an address
is its region and its place in it (`DivisionUnique`), and the next address is in the
same region unless it begins one (`SameRegion`).

**Dictionary.** `NodesInv` is the type invariant, `KeysUnique` and `Pending`, that the items
of a SETLIST are in step with its key.  With unique keys the node that a scan
finds is the only one (`ValueOfNode`), so an insertion, a change in place and a
deletion change the map at one point; `ImplementsMap` takes the actions one by one
from there.  `DictionaryTypeCorrect` and `KeysStayUnique` hold for all tables, with keys of
any types in one table, because a scan that meets a node it cannot compare stops the program.
`ImplementsMap` has one hypothesis, `KeysToldApart`: that no key which is no string has
the word of a string or the address of its text, where `find` takes one for the
other.

**Instructions.** `TypeCorrect` of the other components is about a few variables; here
it is about whatever code the generators emit, so it is a type system for machine
code.  `Content` says what a place may hold: a word, a type, or the one address that
is stored there.  `Steps(f, i, P, Q)` says that instruction `i` takes contents in `P`
to contents in `Q`, whatever words it works on and whatever a C function it calls
returns; an annotation (`Annotates`) gives each place of the code what is known there,
for example that one temporary has a word and another the address of a cell; and code
is `Fine` if it has an annotation, computes in registers only, and each of its branches has
a plain instruction in its delay slot and goes to a label further on, or out of the line.
Before a label nothing is known of temporaries, so all ways to it agree.  `FineConcat`
puts pieces of code together.  There is one lemma for each generator, from
`acquire_reg` and the operations of `arithmetic.c` and `branch.c` up to the instructions of
`litabup.c`; `FineCompile` says that each line of each function is fine, with its locals
in registers, on the stack or in both.  `IInv` then ties the run to it: the text is what
was compiled, and the contents are among those the annotation knows where control is.
`TypeOK` is not inductive without that, because an instruction alone may store an address
in a local.  Two results come of it, for every width of words, any number of locals,
upvalues and registers, any program and contents to start from: `InstructionsTypeCorrect`
(words of locals and upvalues stay words, types stay types, and addresses never leave
temporaries and the way to the upvalues, across every call of C), and
`ComputesOnlyInRegisters`.  The assumptions are that immediates are no wider than words
(`HalfAssumption`), that the four types are words, and that programs and contents
are made of those (`ProgramAssumption`, `StartsAssumption`).

**Upvalues.** The invariant has `EachOnce` and `OnePerPlace` of the open list, `ByFrame`,
that its upvalues are in the order of their frames, and `Live`, that what it points
to exists.  They need each other: the scan of `closure_close` stops at the first
upvalue below its base, and only because of the order are all upvalues of the
popped frame before that (`MigratedFacts`); a new upvalue goes to the head of the
list, which keeps the order because it is always one of the current frame.  The
theorems are `TypeCorrect`, `OpenUpvaluesStayLive`, `UpvaluesAreShared` and
`ListStaysByFrame`.  `BoxesAreShared`, the refinement of `BoxedVariables`, assumes nothing
of where locals live: it says that every behaviour in which no close takes a stale value
(`CloseTakesCurrentValue`, the property that `upvalue_stale` violates) is one of
`BoxedVariables`.  So the stale close is the only way in which sharing goes wrong, and
`StackLocalsCloseCurrent`, which has no hypothesis, says that it needs a local in
a register: a local on the stack is always closed with the value it has.  `RInv` adds to
the invariant that the open upvalues a closure can see are of frames below its own
(`RunningBelow`) and that a closure being made has captured what its prototype says, so
far (`Captured`); the mapping takes a variable to the box of the upvalue that
points to its place, if there is one.

**Call protocol.** `Chain` says what a stack of frames is: a sequence of places, each
above the header of the one before it, and each with the three words of a header
that lead back to the one before.  `IInv` says that there is such a sequence that
ends at `fp`, that the return address and the registers of source and destination
hold at each place of the protocol what the header to be pushed or just popped
holds, and that every frame has room for its locals.  `sp` may be as low as
`fp + 1`, below the locals of the frame (section 7), so that a header is never
damaged is not a matter of `sp` being past the locals: what a step writes below
`sp` is locals of the current frame, and those lie above its header.  The frames are
found by a function that walks down from `fp`, and `ChainIsFrames` shows by
induction that it finds this sequence; the copies of arguments and results are
functions too (`CopiedElsewhere`).  `TypeCorrect` and `HeadersStayIntact` hold for
any functions, any depth, and any numbers of arguments and results.

`ActivationsImplemented` is the refinement of `Activations`.  `Passed` adds to `IInv` where
what is being passed lies: arguments after the local that was called, results in locals of
the function that returns and then above the header it has left, and results of unknown
number at the end of the stack.  `FrameTurn` and
`OthersKept` say that an activation is a function of the words below its `sp`, so what
a step writes above that leaves all activations but the last alone.  `ArgResArrives` is
about the copy: it goes up, and what it reads is not yet written because it lies above
what is written, or below all of it.  Results go down if the called local is below
`top`; if it is not, they may overlap where they go and arrive changed, and so may
locals of a suspended activation above its `top` change.  `Activations` promises nothing of
either.

**Value stacks.** `IInv` says where the list of every activation is: a C function's in
its own array, from its top up; that of a Lua function in the array of the C function
below, which the fields `stack` and `top` still denote; that the lists hold values;
and that results lie in an array that no activation uses, above all of them.
`OtherLists` and `ListChanges` say what a push, a pop or a `lua_settop` does to the lists,
`Begins`, `Returning` and `Taking` what a call, a return and the use of the results
do, and there is one lemma for each action.  `ListArrives` is about the end of `lua_call`,
where `lua_settop` may overwrite results.  `StacksAreLists` is the refinement of
`ValueStacks`.  No bound on the number of arguments is assumed, as a call with too many
aborts.

**Loader.** `LoadedExactlyAlways` is about every program, of any depth, in a file with any
header.  The invariant `LoadOK` says what is left of the file at each step of each call of
`load_function` that has not returned: the rest of the items of its own function, then what its
caller has still to read, and so on outwards; that the code it skipped lies at `seek`
and what comes after the inner functions at `end`; and that what has been read so far
is what the program has.  So one lemma for each step says that it takes its items
off the front of what is left.  The items of a function are a sequence made of sequences, and
that those of the inner functions follow each other is an induction over the number of
the function, the least counterexample again.  The assumptions are that a program is what
luac can write (`ProgramsAssumption`: lists of constants, names and inner functions) and that the
buffer has a size (`BufferAssumption`).

The provers cannot use the induction theorems of the library for a property that is
a parameter.  For a given function on numbers the least counterexample does the same:
`Induction` of `CallProtocolProofs` and the lemmas about doubling of `EmitterProofs`
follow from the well-foundedness of the natural numbers.

Only model-checked:

* liveness (`CallEmitted`, `Terminates`), which is out of reach of the prover;
* `RefinesLuaOperations`, that the code of an instruction computes what it means: it would
  need the values that the annotations above abstract from, and division and shifts that the
  provers do not decide;
* `ObjectFileDescribesCode` of `Main`: the traversals of `ElfDump` would each need an
  induction over the tree of functions.  `StacksAreLists` is about `CStack` alone, started at once,
  which `Main` starts after the file is loaded.

## 7. What the code does otherwise than it says
Four runs end in a violation, each of one property.

* `upvalue_stale`: `do_ret` saves the result registers only, so a captured
  local that lives in a register is closed with the value of its last save.
  `RefinesBoxedVariables` is therefore checked for captured locals on the stack.
* `call_clobbers`: `jinit_vresult_postcall` sets `sp` to the end of open results
  and nothing sets it back, so after `f( g() )` with few results the caller's
  own locals are above `sp` and its next call overwrites them.
* `missing_not_nil`: `jinit_cpy_arg_res` should move the number expected to the
  limit of `do_nilling` and moves the number there is to the operand behind its array
  (`xlogue.c:370`), so nothing is set to nil: neither a parameter without an argument
  nor a result that the function did not return.  Each keeps what its words held.
* `negated_order`: for `A = 1`, `emit_lt` branches with `bgt` and `emit_le` with
  `bge`, where the negations are `bge` and `bgt`: `not (1 < 1)` and `not (1 <= 1)`
  go the wrong way.

Some assumptions of the passing runs mark where the code is not right either,
without a run of their own:

* an operand of a static C call that is in its own argument register, or on a
  cycle of registers, is loaded from a stack word that nothing stored
  (`ArgumentsDelivered` is about all others);
* `is_safe_direct_call` compares the region of 256 MB of the function with that of the
  `jal` (`call.c:53`), but the processor takes that of the delay slot, so a `jal` that is
  the last word of a region goes wrong, which `CallEntersFunction` excepts; and `mips_b`
  jumps to the shared epilogue by `j` without the test, as its TODO says (`branch.c:66`);
* the clobber of a shared function is the number of its temporaries beyond the
  registers (`jitfunc.c:97`), but `abs_stack_offset` leaves a word unused after each
  round: from `2 * NrTemps + 1` temporaries on, a word beyond the clobber is written (with 4
  registers and 9 temporaries word 6, where the clobber is 5).  `ClobberBoundsSpills` is about one
  round of spills;
* a call of a value that is no function is not noticed (`xlogue.c:77`, `:534`): the
  prologue of Lua functions jumps through its word (`"astray"` of `CallProtocol`);
* a negative number divided by a constant power of two is shifted, which rounds down
  (`arithmetic.c:190`), where `machine.h:36` says that division truncates: `-3 / 2` is
  -2 if 2 is a constant, and -1 if it is not.  `LuaOperations` truncates, and
  `MCInstructions` leaves out these quotients that are not exact;
* `SETTABLE`, `SETTABUP` and `SETLIST` write through a word that nobody checked
  (`litabup.c:127`, `:195`, `:270`), `"astray"` of `Instructions`;
* in a table that has a string, `find` gives the word of any other key to `strcmp`
  (`listdict.c:45`): it faults, or takes a number for the string at that address;
* `x < x` with `x` in a register leaves 0 in `x`: the difference is put in place
  of an operand that the delay slot cannot restore (left out of `MCProgram`);
* a `for` loop that counts down stops before its first turn, and so does one over
  more than half of the words; comparisons of words so far apart are wrong
  (`LuaOperations` promises nothing there);
* `10 / x`, `3 < x` and `x == 100000` stop the compiler at an assertion, and
  `1 / 0` between constants divides by zero in the compiler (`Refuse`);
* the MIPS register table lists `_t6` twice (`arch/mips/machine.c:155`), so the type of the
  seventh local and the value of the eighth share a register.  `locals` has a table without
  duplicates;
* a `JMP` that closes an inner block leaves a local open if a closure captured it
  before an earlier one, because `closure_close` stops at the first upvalue
  outside the block (`LeaveBlock` of `BoxedVariables` leaves open which variables
  of a block end, so the refinement holds);
* a key that is neither string nor number is stored and makes a later `find`
  assert, which `KeyValueMap` allows as a stop;
* a C function without results makes `index2addr` assert, the outcome
  `"aborted"` of `CPro`.
* `GETTABUP` fetches the table to its destination before it reads the key
  (`litabup.c:214`), so `R(A) := Up[B][R(A)]` looks up the table in itself, where
  `lopcodes.h:191` says `R(A) := UpValue[B][RK(C)]` (left out of `MCProgram`);
* `SETTABUP` is decoded with `GETARG_B( A )` (`main.c:347`), which is 0 for every
  upvalue up to the size of that field; `lopcodes.h:194` says `UpValue[A]`
  (`MCProgram` has upvalue 0 only);
* `LOADNIL` emits nothing (`main.c:321`);
* `lua_call` ends with `lua_settop`, which sets every entry beyond the old top to nil
  after the results were put there (`lapi.c:178`): results beyond the places
  of the function and its arguments are lost, which `ValueStacks` allows;
* `table_create` asks for `sizeof( sz )` bytes (`table.c:39`), and the test
  `!tag_gentype( tm ) == LUA_TFUNCTION` compares a truth value with a tag
  (`litabup.c:118`, out of reach because no metamethod is ever found);
* `load_upvalues` tests the pointer to the inner functions instead of the one it
  allocated, and its caller ignores the result (`main.c:206`, `main.c:424`);
* the number of local symbols that the symbol table's header gives counts the shared
  functions of all machines, not those of this machine (`elf.c:118`), so it is
  too small by them; `ObjectFileDescribesCode` does not use it;
* `dump_label` adds up what `fputs` returns (`elf.c:97`), of which C only says that it
  is not negative.  The property holds for a library that returns 1 (glibc does);
  with `FputsResult = 0` TLC finds names misplaced.

## 8. Not modelled, and the plan

* `malloc` failures (asserts), strings as bytes, error messages, and the bit layout
  of instructions: no other part's decisions depend on them.
* Files that end early: no read is checked, and the variables then hold anything.
  Files of the model are complete.  Memory that is freed at the end of `main`.
* That `bootstrap` does not save the registers a C function must keep: the only C code
  that calls back is the metamethod path, whose lookup is a stub.
* What is past the top of a value stack.  It stays in memory in the program, but
  nothing in `lapi.c` reads it before a push or `lua_settop` has set it.
* The key of `SELF` in any register but the one the compiler of Lua uses, and the body of `pow`.
* In `CallProtocol`: vararg functions and tail calls (`load_code` has no case for
  them) and `SETLIST` of open results.
* The table of shared functions (`jitfunc.c`): it is filled once, in an order in which
  every entry is there before it is used, because the frames that shared functions are
  compiled with have no locals in temporaries.  That `mips_static_ccall` holds all
  temporaries that it needs.
* The scripts around the disassembler.

What is left, in order of what it would add:

1. `ObjectFileDescribesCode` as a theorem, along the way of `LoadedExactlyAlways`.
2. Annotations of `Instructions` that carry values, for moves, upvalues and tables first: for
   these `RefinesLuaOperations` needs no arithmetic.
3. Theorems about words: a difference that is a word has the right sign, the test
   of a loop is exact although its counter may overflow.
