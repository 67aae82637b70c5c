------------------------------ MODULE Upvalues ------------------------------
(***************************************************************************)
(* Upvalues and closures: func.c, the instructions that use them           *)
(* (instruction.c, litabup.c, libranch.c) and what calls and returns do to *)
(* the registers and stack words that hold locals (xlogue.c, stack.c).     *)
(*                                                                         *)
(* The stack grows downwards; a place is a TValue's distance below         *)
(* &ls->genv, so "uv->val > stackbase" reads "place < base".  Frame 0 is   *)
(* that of the C code which starts the main chunk: its only variable is    *)
(* genv.  In every frame one more TValue lies below the locals: the        *)
(* register the called closure is in.                                      *)
(***************************************************************************)
EXTENDS Integers, Sequences

CONSTANTS
    Value,       \* what a TValue may hold
    NrLocals,    \* locals of a function
    NrRegLocals, \* locals that live in machine registers (9 on MIPS)
    Protos,      \* upvalue descriptors of the prototypes a program has
    JumpArgs,    \* operands A > 0 of the JMP instructions a program has
    MaxDepth,    \* bound: frames
    MaxClosures, \* bound: closures created
    MaxCells     \* bound: upvalues created

ASSUME LocalsAssumption == NrLocals \in Nat \ {0} /\ NrRegLocals \in Nat
ASSUME ProtosAssumption ==
    Protos \subseteq Seq([instack : BOOLEAN, idx : 0..(NrLocals - 1)])
ASSUME JumpAssumption == JumpArgs \subseteq 1..NrLocals
ASSUME ValueAssumption == Value # {}
ASSUME BoundsAssumption == MaxDepth \in Nat \ {0} /\ MaxClosures \in Nat /\ MaxCells \in Nat

VARIABLES
    regs,      \* the registers of locals: those of the running function
    stack,     \* the TValues on the stack
    frames,    \* closures being run, the innermost last
    uvs,       \* the upvalues allocated: where val points, and v
    openuvs,   \* ls->openuvs
    closures,  \* closures[c]: the upvalues of closure c
    creating   \* the closure that closure_create is filling in, or Idle

vars == <<regs, stack, frames, uvs, openuvs, closures, creating>>

Local == 0..(NrLocals - 1)
RegLocal == {i \in Local : i < NrRegLocals}
FrameSize == NrLocals + 1
PlaceOf(d, i) == d * FrameSize + i
Place == 0..(MaxDepth * FrameSize + NrLocals)
CallSlot(d) == PlaceOf(d, NrLocals)

Depth == Len(frames)
Running == frames[Depth]
Idle == [proto |-> <<>>, uvs |-> <<>>, busy |-> FALSE]

\* Where an upvalue's val points: into the stack, or at its own v.
At(place) == [open |-> TRUE, place |-> place]
Own(v) == [open |-> FALSE, v |-> v]

-----------------------------------------------------------------------------
\* What the registers and the stack hold for local i of the running function.
LocalValue(i) == IF i \in RegLocal THEN regs[i] ELSE stack[PlaceOf(Depth, i)]

SetLocalValue(i, v) ==
    IF i \in RegLocal
    THEN regs' = [regs EXCEPT ![i] = v] /\ UNCHANGED stack
    ELSE stack' = [stack EXCEPT ![PlaceOf(Depth, i)] = v] /\ UNCHANGED regs

\* x_frame storing locals in S: those in registers are written to the stack.
Stored(S) ==
    [p \in Place |->
        IF \E i \in S \cap RegLocal : p = PlaceOf(Depth, i)
        THEN regs[CHOOSE i \in S \cap RegLocal : p = PlaceOf(Depth, i)]
        ELSE stack[p]]

\* closure_create( &main, NULL, &ls.genv ), and execute() has called it.
Init ==
    /\ regs \in [RegLocal -> Value]
    /\ \E v \in Value : stack = [p \in Place |-> v]
    /\ frames = <<1>>
    /\ uvs = <<At(PlaceOf(0, 0))>>
    /\ openuvs = <<1>>
    /\ closures = <<<<1>>>>
    /\ creating = Idle

Active == frames # <<>> /\ ~creating.busy

\* Any instruction that assigns a local.
SetLocal ==
    /\ Active
    /\ \E i \in Local, v \in Value : SetLocalValue(i, v)
    /\ UNCHANGED <<frames, uvs, openuvs, closures, creating>>

-----------------------------------------------------------------------------
\* Mutant: an open upvalue is looked for only at the head of the list.
OpenAtHeadOnly(place) ==
    {uv \in 1..Len(uvs) : openuvs # <<>> /\ openuvs[1] = uv /\ uvs[uv] = At(place)}

\* find_stackupval: the open upvalues that point at a place.
OpenAt(place) ==
    {uv \in 1..Len(uvs) :
        /\ \E k \in 1..Len(openuvs) : openuvs[k] = uv
        /\ uvs[uv] = At(place)}

\* Mutant: a new upvalue goes to the end of the list.
AddOpenTail(uv) == Append(openuvs, uv)

\* list_add: at the head.
AddOpen(uv) == <<uv>> \o openuvs

\* emit_closure calls closure_create.
StartClosure ==
    /\ Active
    /\ Len(closures) < MaxClosures
    /\ \E p \in Protos :
          /\ \A k \in 1..Len(p) : p[k].instack \/ p[k].idx < Len(closures[Running])
          /\ creating' = [proto |-> p, uvs |-> <<>>, busy |-> TRUE]
    /\ UNCHANGED <<regs, stack, frames, uvs, openuvs, closures>>

Capturing == creating.busy /\ Len(creating.uvs) < Len(creating.proto)
Descriptor == creating.proto[Len(creating.uvs) + 1]
Capture(uv) == creating' = [creating EXCEPT !.uvs = Append(creating.uvs, uv)]

\* One round of the loop of closure_create: a local that has an open upvalue ...
CaptureOpen ==
    /\ Capturing
    /\ Descriptor.instack
    /\ \E uv \in OpenAt(PlaceOf(Depth, Descriptor.idx)) : Capture(uv)
    /\ UNCHANGED <<regs, stack, frames, uvs, openuvs, closures>>

\* ... a local that has none yet ...
CaptureNew ==
    /\ Capturing
    /\ Descriptor.instack
    /\ OpenAt(PlaceOf(Depth, Descriptor.idx)) = {}
    /\ Len(uvs) < MaxCells
    /\ uvs' = Append(uvs, At(PlaceOf(Depth, Descriptor.idx)))
    /\ openuvs' = AddOpen(Len(uvs) + 1)
    /\ Capture(Len(uvs) + 1)
    /\ UNCHANGED <<regs, stack, frames, closures>>

\* ... or an upvalue of the function that creates the closure.
CaptureParent ==
    /\ Capturing
    /\ ~Descriptor.instack
    /\ Capture(closures[Running][Descriptor.idx + 1])
    /\ UNCHANGED <<regs, stack, frames, uvs, openuvs, closures>>

\* closure_create returns; the closure can be called from anywhere.
FinishClosure ==
    /\ creating.busy
    /\ ~Capturing
    /\ closures' = Append(closures, creating.uvs)
    /\ creating' = Idle
    /\ UNCHANGED <<regs, stack, frames, uvs, openuvs>>

-----------------------------------------------------------------------------
\* Mutant: the test of closure_close for a stack that grows upwards.
BeyondUpwards(uv, base) == uvs[uv].place <= base

\* !(uv->val > stackbase)
Beyond(uv, base) == uvs[uv].place >= base

\* How many upvalues closure_close migrates before it breaks out of its loop.
NrMigrated(base) ==
    CHOOSE n \in 0..Len(openuvs) :
        /\ \A k \in 1..n : Beyond(openuvs[k], base)
        /\ n < Len(openuvs) => ~Beyond(openuvs[n + 1], base)

\* Mutants: the value is read from the place closed at, and val is copied
\* for *val.
MigratedValueBase(uv, base, mem) == mem[base]
MigratedPointer(uv, base, mem) == uvs[uv].place

MigratedValue(uv, base, mem) == mem[uvs[uv].place]

\* closure_close, where mem is the stack at the time.
ClosureClose(base, mem) ==
    /\ uvs' = [uv \in 1..Len(uvs) |->
                  IF \E k \in 1..NrMigrated(base) : openuvs[k] = uv
                  THEN Own(MigratedValue(uv, base, mem)) ELSE uvs[uv]]
    /\ openuvs' = SubSeq(openuvs, NrMigrated(base) + 1, Len(openuvs))

\* emit_jmp with a nonzero A: the base is vreg A + 1.
Jump ==
    /\ Active
    /\ \E a \in JumpArgs : ClosureClose(PlaceOf(Depth, a + 1), stack)
    /\ UNCHANGED <<regs, stack, frames, closures, creating>>

\* emit_call up to the prologue, which sets up the callee's frame.  No value
\* of the program is the main chunk, closure 1.
Call ==
    /\ Active
    /\ Depth < MaxDepth
    /\ \E c \in 2..Len(closures) : frames' = Append(frames, c)
    /\ stack' = Stored(Local)
    /\ UNCHANGED <<regs, uvs, openuvs, closures, creating>>

\* do_ret with the results in vregs first..last, the epilogue, and the load of
\* the caller's registers in its emit_call.
Return ==
    /\ Active
    /\ \E first \in Local, last \in -1..(NrLocals - 1) :
          LET mem == Stored(first..last)
          IN  /\ stack' = mem
              /\ ClosureClose(CallSlot(Depth - 1), mem)
              /\ regs' = IF Depth = 1 THEN regs
                         ELSE [i \in RegLocal |-> mem[PlaceOf(Depth - 1, i)]]
    /\ frames' = SubSeq(frames, 1, Depth - 1)
    /\ UNCHANGED <<closures, creating>>

\* getupvalptr: the closure, its upvalue, and what val points at.
UpvalValue(uv) == IF uvs[uv].open THEN stack[uvs[uv].place] ELSE uvs[uv].v

GetUpval ==
    /\ Active
    /\ \E u \in 1..Len(closures[Running]), i \in Local :
          SetLocalValue(i, UpvalValue(closures[Running][u]))
    /\ UNCHANGED <<frames, uvs, openuvs, closures, creating>>

SetUpval ==
    /\ Active
    /\ \E u \in 1..Len(closures[Running]), i \in Local :
          LET uv == closures[Running][u]
          IN  IF uvs[uv].open
              THEN /\ stack' = [stack EXCEPT ![uvs[uv].place] = LocalValue(i)]
                   /\ UNCHANGED uvs
              ELSE /\ uvs' = [uvs EXCEPT ![uv] = Own(LocalValue(i))]
                   /\ UNCHANGED stack
    /\ UNCHANGED <<regs, frames, openuvs, closures, creating>>

Next ==
    \/ SetLocal \/ GetUpval \/ SetUpval
    \/ StartClosure \/ CaptureOpen \/ CaptureNew \/ CaptureParent \/ FinishClosure
    \/ Call \/ Return \/ Jump

Spec == Init /\ [][Next]_vars

-----------------------------------------------------------------------------
Cell == 1..Len(uvs)

TypeOK ==
    /\ regs \in [RegLocal -> Value]
    /\ stack \in [Place -> Value]
    /\ uvs \in Seq({At(p) : p \in Place} \cup {Own(v) : v \in Value})
    /\ openuvs \in Seq(Cell)
    /\ closures \in Seq(Seq(Cell))
    /\ frames \in Seq(1..Len(closures))
    /\ creating \in [proto : Protos \cup {<<>>}, uvs : Seq(Cell), busy : BOOLEAN]

\* An open upvalue points at a local of a function that is still running, or at
\* genv: no closure ever reads or writes a stack word that was given to another
\* call.  This is why the epilogue closes before it pops the frame.
OpenUpvaluesLive ==
    \A uv \in Cell : uvs[uv].open =>
        \/ uvs[uv].place = PlaceOf(0, 0)
        \/ \E d \in 1..Depth, i \in Local : uvs[uv].place = PlaceOf(d, i)

\* Closures that capture the same variable share one upvalue: no place has two
\* open ones, and the list holds each open upvalue once and no closed one.
OneUpvaluePerPlace ==
    /\ \A a, b \in Cell : uvs[a].open /\ uvs[b].open /\ uvs[a].place = uvs[b].place => a = b
    /\ {openuvs[k] : k \in 1..Len(openuvs)} = {uv \in Cell : uvs[uv].open}
    /\ \A j, k \in 1..Len(openuvs) : openuvs[j] = openuvs[k] => j = k

\* closure_close stops at the first upvalue that is not beyond its base.  The
\* list is not sorted, but it is in the order of the frames, innermost first,
\* which is all that a return needs.
OpenListByFrame ==
    \A j, k \in 1..Len(openuvs) : j <= k =>
        uvs[openuvs[k]].place \div FrameSize <= uvs[openuvs[j]].place \div FrameSize

\* The comment in do_ret (xlogue.c:172): live registers are saved to the stack
\* before the epilogue, so what an upvalue takes with it is the variable's value.
CloseTakesCurrentValue ==
    [][\A uv \in Cell, i \in Local :
          uvs[uv] = At(PlaceOf(Depth, i)) /\ ~uvs'[uv].open => uvs'[uv].v = LocalValue(i)]_vars

-----------------------------------------------------------------------------
\* A local of frame d: in a register only while its function is running.
ValueIn(d, i) == IF d = Depth THEN LocalValue(i) ELSE stack[PlaceOf(d, i)]

BoxesAt(place) == {uv \in Cell : uvs[uv] = At(place)}

\* The mapping: a variable is in a box when an open upvalue points at it, and
\* what an upvalue's val points at is the contents of a box.
Variable(d, i) ==
    IF BoxesAt(PlaceOf(d, i)) # {}
    THEN [boxed |-> TRUE, b |-> CHOOSE uv \in BoxesAt(PlaceOf(d, i)) : TRUE]
    ELSE [boxed |-> FALSE, v |-> ValueIn(d, i)]

Contents(uv) ==
    IF ~uvs[uv].open THEN uvs[uv].v
    ELSE IF uvs[uv].place = PlaceOf(0, 0) THEN stack[PlaceOf(0, 0)]
    ELSE ValueIn(uvs[uv].place \div FrameSize, uvs[uv].place % FrameSize)

BoxedFrames ==
    [d \in 1..Depth |-> [closure |-> frames[d],
                         locals |-> [i \in Local |-> Variable(d, i)]]]
BoxContents == [uv \in Cell |-> Contents(uv)]

Boxed == INSTANCE BoxedVariables WITH
    Arities <- {Len(p) : p \in Protos},
    Levels <- {a + 1 : a \in JumpArgs},
    frames <- BoxedFrames,
    box <- BoxContents

\* The upvalues implement boxed variables: a captured variable has one value,
\* which its function and all closures that captured it read and write, before
\* and after the function returns.
RefinesBoxedVariables == Boxed!Spec
=============================================================================
