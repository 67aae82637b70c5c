----------------------------- MODULE StaticCall -----------------------------
(***************************************************************************)
(* Passing operands to a C function: mips_static_ccall and assign_arg_regs *)
(* of arch/mips/call.c, with the run-time effect of the moves they emit.   *)
(* The temporary registers of the code generator are the argument          *)
(* registers of the C calling convention, so an operand may be in a        *)
(* register that another argument has to go to.                            *)
(***************************************************************************)
EXTENDS Integers

CONSTANTS
    NrArgRegs,   \* args_by_reg (4)
    MaxArgs,     \* bound: arguments of a call
    Region,      \* the instructions in 256 MB
    Address      \* where code and C functions may be, counted in instructions

ASSUME NrArgRegsAssumption == NrArgRegs \in 1..63
ASSUME MaxArgsAssumption == MaxArgs \in Nat
ASSUME RegionAssumption == Region \in Nat \ {0}
ASSUME AddressAssumption == Address \subseteq Nat

VARIABLES
    argsz,       \* number of operands
    args,        \* the operands: an argument register, or Elsewhere
    phase,       \* the part of mips_static_ccall that is running
    i,           \* index of its loop
    dgraph,      \* dgraph[r][c]: argument r is in argument register c
    resolved,    \* moves emitted in this round
    unresolved,  \* the last argument that has to wait, counted from 1
    spill,       \* offset of the last stack word that resolv_cycle took
    areg,        \* run time: the argument registers
    passed,      \* run time: the stack words of the arguments
    call         \* the call instruction: where it is, of what, what it enters

staticCallVars == <<argsz, args, phase, i, dgraph, resolved, unresolved, spill, areg, passed, call>>

ArgReg == 0..(NrArgRegs - 1)
Elsewhere == -1         \* an immediate, a memory word or another register
Args == 0..(argsz - 1)
RegArgs == {n \in ArgReg : n < argsz}

\* Contents of registers and words: what an argument register held before the
\* call, the value of the operand that is elsewhere, or anything.
Held(r) == [from |-> "argument register", n |-> r]
Own(n) == [from |-> "elsewhere", n |-> n]
Junk == [from |-> "unknown word"]

Value(n) == IF args[n] = Elsewhere THEN Own(n) ELSE areg[args[n]]

-----------------------------------------------------------------------------
\* zerorow: does argument r still wait for a move, and from which register?
Waits(r) == \E c \in ArgReg : dgraph[r][c] # 0
Source(r) == CHOOSE c \in ArgReg :
    dgraph[r][c] # 0 /\ \A d \in ArgReg : dgraph[r][d] # 0 => c <= d

\* Mutant: only the later arguments are looked at.
NoLaterWaitsFor(c) == \A r \in ArgReg : r > c => dgraph[r][c] = 0

\* zerocol: no other argument waits for register c.
NoneWaitsFor(c) == \A r \in ArgReg \ {c} : dgraph[r][c] = 0

StaticCallInit ==
    /\ argsz \in 0..MaxArgs
    /\ args \in [0..(argsz - 1) -> ArgReg \cup {Elsewhere}]
    /\ phase = "stack_args"
    /\ i = NrArgRegs
    /\ dgraph = [r \in ArgReg |-> [c \in ArgReg |-> 0]]
    /\ resolved = 0
    /\ unresolved = 0
    /\ spill = -4
    /\ areg = [r \in ArgReg |-> Held(r)]
    /\ passed = [n \in NrArgRegs..(argsz - 1) |-> Junk]
    /\ call = <<>>

\* The arguments beyond the registers are stored first.
StoreStackArg ==
    /\ phase = "stack_args"
    /\ i < argsz
    /\ passed' = [passed EXCEPT ![i] = Value(i)]
    /\ i' = i + 1
    /\ UNCHANGED <<argsz, args, phase, dgraph, resolved, unresolved, spill, areg, call>>

\* The dependency graph; then assign_arg_regs begins its first round.
MakeGraph ==
    /\ phase = "stack_args"
    /\ i >= argsz
    /\ dgraph' = [r \in ArgReg |-> [c \in ArgReg |->
                     IF r \in RegArgs /\ args[r] = c THEN 1 ELSE 0]]
    /\ phase' = "assign"
    /\ i' = 0
    /\ UNCHANGED <<argsz, args, resolved, unresolved, spill, areg, passed, call>>

\* The move for argument r: an argument that depends on itself is loaded from
\* the stack, at the offset that the graph holds.
Moved(r) == IF Source(r) = r THEN Junk ELSE areg[Source(r)]

\* One argument in a round of assign_arg_regs: nothing to do, ...
AssignNothing ==
    /\ phase = "assign" /\ i < NrArgRegs
    /\ ~Waits(i)
    /\ i' = i + 1
    /\ UNCHANGED <<argsz, args, phase, dgraph, resolved, unresolved, spill, areg, passed, call>>

\* Mutant: a move does not wait for those that need its destination.
FreeAlways(r) == TRUE

FreeToMove(r) == NoneWaitsFor(r)

\* ... its register is free, ...
AssignMove ==
    /\ phase = "assign" /\ i < NrArgRegs
    /\ Waits(i)
    /\ FreeToMove(i)
    /\ areg' = [areg EXCEPT ![i] = Moved(i)]
    /\ dgraph' = [dgraph EXCEPT ![i][Source(i)] = 0]
    /\ resolved' = resolved + 1
    /\ i' = i + 1
    /\ UNCHANGED <<argsz, args, phase, unresolved, spill, passed, call>>

\* ... or another argument still needs what is in it.
AssignWait ==
    /\ phase = "assign" /\ i < NrArgRegs
    /\ Waits(i)
    /\ ~FreeToMove(i)
    /\ unresolved' = i + 1
    /\ i' = i + 1
    /\ UNCHANGED <<argsz, args, phase, dgraph, resolved, spill, areg, passed, call>>

\* Mutant: the graph holds integers.
RedirectedWide(v, off) ==
    [r \in ArgReg |->
        IF Waits(r) /\ Source(r) = v
        THEN [[dgraph[r] EXCEPT ![v] = 0] EXCEPT ![r] = off]
        ELSE dgraph[r]]

\* resolv_cycle: what waits for register v is told to wait for a stack word.
\* Nothing is stored there.  The graph holds bytes.
Redirected(v, off) ==
    [r \in ArgReg |->
        IF Waits(r) /\ Source(r) = v
        THEN [[dgraph[r] EXCEPT ![v] = 0] EXCEPT ![r] = off % 256]
        ELSE dgraph[r]]

\* Mutant: cycles are not looked for.
CycleNever == FALSE

\* A round in which arguments wait and none could be moved.
Cycle == unresolved # 0 /\ resolved = 0

EndRound ==
    /\ phase = "assign" /\ i = NrArgRegs
    /\ IF Cycle
       THEN /\ spill' = spill - 4
            /\ dgraph' = Redirected(unresolved - 1, spill - 4)
       ELSE UNCHANGED <<spill, dgraph>>
    /\ phase' = IF unresolved # 0 THEN "assign" ELSE "other_args"
    /\ i' = 0
    /\ resolved' = 0
    /\ unresolved' = 0
    /\ UNCHANGED <<argsz, args, areg, passed, call>>

\* The operands that are not in argument registers are loaded last.
LoadOther ==
    /\ phase = "other_args"
    /\ i \in RegArgs
    /\ areg' = IF args[i] = Elsewhere THEN [areg EXCEPT ![i] = Own(i)] ELSE areg
    /\ i' = i + 1
    /\ UNCHANGED <<argsz, args, phase, dgraph, resolved, unresolved, spill, passed, call>>

\* The processor: jal holds the place of its target in a region, which is the
\* region of the instruction in its delay slot.
RegionOf(a) == a \div Region
JalField(fn) == fn % Region
JalEnters(site, field) == RegionOf(site + 1) * Region + field

\* Mutant: every call is direct.
IsAnyDirectCall(site, fn) == TRUE

\* is_safe_direct_call: asked of the next instruction, which is the jal.
IsSafeDirectCall(site, fn) == RegionOf(fn) = RegionOf(site)

\* A function that is too far away is called through register t0.
Enters(site, fn) ==
    IF IsSafeDirectCall(site, fn) THEN JalEnters(site, JalField(fn)) ELSE fn

Call ==
    /\ phase = "other_args"
    /\ i \notin RegArgs
    /\ phase' = "called"
    /\ \E site, fn \in Address :
        call' = <<[site |-> site, fn |-> fn, enters |-> Enters(site, fn)]>>
    /\ UNCHANGED <<argsz, args, i, dgraph, resolved, unresolved, spill, areg, passed>>

StaticCallNext ==
    \/ StoreStackArg \/ MakeGraph
    \/ AssignNothing \/ AssignMove \/ AssignWait \/ EndRound
    \/ LoadOther \/ Call

\* The generator is a sequential program that keeps running.
StaticCallSpec == StaticCallInit /\ [][StaticCallNext]_staticCallVars /\ WF_staticCallVars(StaticCallNext)

-----------------------------------------------------------------------------
StaticCallTypeOK ==
    /\ argsz \in 0..MaxArgs
    /\ args \in [0..(argsz - 1) -> ArgReg \cup {Elsewhere}]
    /\ phase \in {"stack_args", "assign", "other_args", "called"}
    /\ i \in Nat
    /\ dgraph \in [ArgReg -> [ArgReg -> 0..255]]
    /\ resolved \in 0..NrArgRegs
    /\ unresolved \in 0..NrArgRegs
    /\ spill \in Int
    /\ DOMAIN areg = ArgReg
    /\ DOMAIN passed = NrArgRegs..(argsz - 1)
    /\ phase = "called" => call[1] \in [site : Address, fn : Address, enters : Nat]

\* What the C function should find as its n-th argument.
Expected(n) == IF args[n] = Elsewhere THEN Own(n) ELSE Held(args[n])
Received(n) == IF n \in ArgReg THEN areg[n] ELSE passed[n]

\* Arguments that trade places: what each of them needs is in a register of
\* one of the others, and all of these registers are needed.  Argument n is one
\* of some that do, or it is in its own register.
OnCycle(n) ==
    \E S \in SUBSET RegArgs : n \in S /\ {args[m] : m \in S} = S

\* Every argument that does not depend, through the registers of the others,
\* on its own register reaches the C function, whatever the order the moves
\* have to be made in and however many arguments are passed on the stack.
ArgumentsDelivered ==
    phase = "called" => \A n \in Args : ~OnCycle(n) => Received(n) = Expected(n)

\* No two arguments of a round are ever moved out of order: a register is
\* overwritten only when no other argument still has to be taken from it.
WaitersIntact ==
    phase = "assign" =>
        \A r, c \in ArgReg : r # c /\ dgraph[r][c] # 0 => areg[c] = Held(c)

\* The call enters its function, wherever code and function are, or the call is
\* the last instruction of 256 MB: the test is of where the jal is, and the
\* processor goes by where its delay slot is (src/arch/mips/call.c:50).
CallEntersFunction ==
    phase = "called" /\ call[1].enters # call[1].fn => (call[1].site + 1) % Region = 0

\* The rounds of assign_arg_regs end, with cycles too.
CallEmitted == <>(phase = "called")
=============================================================================
