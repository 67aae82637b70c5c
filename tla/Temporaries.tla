---------------------------- MODULE Temporaries -----------------------------
(***************************************************************************)
(* The temporary-register allocator of temporaries.c, together with the    *)
(* effect of the moves it emits.  The allocator runs at compile time and   *)
(* the moves at run time, but both happen in the same order, so one state  *)
(* holds the two: the reference counts kept in the upper half of m->reg[], *)
(* and the registers and stack words the emitted code acts on.             *)
(*                                                                         *)
(* Stack words are counted down from sp in units of 4 bytes.               *)
(***************************************************************************)
EXTENDS Integers

CONSTANTS
    NrTemps,    \* m->nr_temp_regs (4 on MIPS)
    Value,      \* the contents of a register
    MaxDepth    \* bound: temporaries held at the same time

ASSUME NrTempsAssumption == NrTemps \in Nat \ {0}
ASSUME MaxDepthAssumption == MaxDepth \in Nat
ASSUME ValueAssumption == Value # {}

VARIABLES
    refcount,     \* GET_REFCOUNT(m->reg[i])
    regs,         \* run time: contents of the temporary registers
    spilled,      \* run time: contents of the words below sp
    allow_spill,  \* m->allow_spill
    max_access,   \* m->max_access
    aborted       \* an assert has failed and the compiler has stopped

vars == <<refcount, regs, spilled, allow_spill, max_access, aborted>>

Slot == 0..(NrTemps - 1)
Word == 1..(MaxDepth * (NrTemps + 1))

-----------------------------------------------------------------------------
\* Mutant: the rounds of spills are not told apart.
StackWordOneRound(i, rc) == i + rc

\* Mutant: the word of the previous value is not skipped (rc for rc - 1).
StackWordLate(i, rc) == rc * NrTemps + i + rc

\* abs_stack_offset: where the rc-th value of slot i is kept, in words below sp.
StackWord(i, rc) == (rc - 1) * NrTemps + i + rc

\* Slots at which the reference count steps down.
Drops(rcs) == {i \in Slot : i + 1 \in Slot /\ rcs[i] > rcs[i + 1]}

\* The downward scan of acquire_temp: the slot after the last drop, else slot 0.
AcquireSlot(rcs) ==
    IF Drops(rcs) = {} THEN 0
    ELSE (CHOOSE i \in Drops(rcs) : \A j \in Drops(rcs) : j <= i) + 1

\* Mutant: the upward scan stops one slot late.
ReleaseSlotLate(rcs) ==
    IF Drops(rcs) = {} THEN NrTemps - 1
    ELSE (CHOOSE i \in Drops(rcs) : \A j \in Drops(rcs) : i <= j) + 1

\* The upward scan of release_temp: the first drop, else the last slot.
ReleaseSlot(rcs) ==
    IF Drops(rcs) = {} THEN NrTemps - 1
    ELSE CHOOSE i \in Drops(rcs) : \A j \in Drops(rcs) : i <= j

\* temps_accessed: how many temporaries are held.
TempsAccessed(rcs) ==
    LET i == ReleaseSlot(rcs) IN (rcs[i] - 1) * NrTemps + i + 1

-----------------------------------------------------------------------------
Init ==
    /\ refcount = [i \in Slot |-> 0]
    /\ regs \in [Slot -> Value]
    /\ spilled = [w \in Word |-> CHOOSE v \in Value : TRUE]
    /\ allow_spill = TRUE
    /\ max_access = 0
    /\ aborted = FALSE

\* acquire_temp: the slot's current value, if any, is moved below sp.
AcquireTemp ==
    LET i  == AcquireSlot(refcount)
        rc == refcount[i]
    IN  /\ ~aborted
        /\ TempsAccessed(refcount) < MaxDepth
        /\ rc > 0 => allow_spill
        /\ spilled' = IF rc > 0 THEN [spilled EXCEPT ![StackWord(i, rc)] = regs[i]]
                                ELSE spilled
        /\ refcount' = [refcount EXCEPT ![i] = rc + 1]
        /\ max_access' = IF TempsAccessed(refcount') > max_access
                         THEN TempsAccessed(refcount') ELSE max_access
        /\ UNCHANGED <<regs, allow_spill, aborted>>

\* acquire_temp with spills disabled and no free register: the assert fails.
AcquireAborts ==
    /\ ~aborted
    /\ refcount[AcquireSlot(refcount)] > 0
    /\ ~allow_spill
    /\ aborted' = TRUE
    /\ UNCHANGED <<refcount, regs, spilled, allow_spill, max_access>>

\* Mutants: the word of the temporary released is loaded, not that of the one
\* under it; and releasing with nothing held is not caught.
FillWordReleased(i, rc) == StackWord(i, rc + 1)
HeldUnchecked(i) == TRUE

FillWord(i, rc) == StackWord(i, rc)
HeldAt(i) == refcount[i] > 0

\* release_temp: the value the slot held before is moved back into its register.
ReleaseTemp ==
    LET i  == ReleaseSlot(refcount)
        rc == refcount[i] - 1
    IN  /\ ~aborted
        /\ HeldAt(i)
        /\ regs' = IF rc > 0 THEN [regs EXCEPT ![i] = spilled[FillWord(i, rc)]]
                             ELSE regs
        /\ refcount' = [refcount EXCEPT ![i] = rc]
        /\ UNCHANGED <<spilled, allow_spill, max_access, aborted>>

\* An emitted instruction writes a temporary its client holds in a register.
WriteTemp ==
    /\ ~aborted
    /\ \E i \in Slot, v \in Value :
          /\ refcount[i] > 0
          /\ regs' = [regs EXCEPT ![i] = v]
    /\ UNCHANGED <<refcount, spilled, allow_spill, max_access, aborted>>

\* disable_spill, and restore_spill or enable_spill.
SetSpill ==
    /\ ~aborted
    /\ allow_spill' = ~allow_spill
    /\ UNCHANGED <<refcount, regs, spilled, max_access, aborted>>

\* jfuncs_init begins the next JIT function: it asserts that none is held.
BeginJFunc ==
    /\ ~aborted
    /\ TempsAccessed(refcount) = 0
    /\ max_access' = 0
    /\ UNCHANGED <<refcount, regs, spilled, allow_spill, aborted>>

Next ==
    \/ AcquireTemp \/ AcquireAborts \/ ReleaseTemp
    \/ WriteTemp \/ SetSpill \/ BeginJFunc

Spec == Init /\ [][Next]_vars

-----------------------------------------------------------------------------
\* jfuncs_stack_clobber: the words a JIT function is said to use below sp.
StackClobber == IF max_access > NrTemps THEN max_access - NrTemps ELSE 0

\* The words that hold a value of a temporary still held.
SpilledOf(i) == {StackWord(i, rc) : rc \in 1..(refcount[i] - 1)}

TypeOK ==
    /\ refcount \in [Slot -> Nat]
    /\ regs \in [Slot -> Value]
    /\ spilled \in [Word -> Value]
    /\ allow_spill \in BOOLEAN
    /\ max_access \in Nat
    /\ aborted \in BOOLEAN

\* The invariant stated above the scan of acquire_temp (temporaries.c:24):
\* slot(i + 1) <= slot(i); and no slot is two temporaries ahead of another,
\* so the most recent NrTemps temporaries are all in registers.
Staircase ==
    \A i, j \in Slot : i <= j => /\ refcount[j] <= refcount[i]
                                 /\ refcount[i] <= refcount[j] + 1

\* Spilled values never share a word and never leave the area the stack
\* bound of the run provides: a fill always reads what its own spill wrote.
SpillsDisjoint ==
    /\ \A i \in Slot : \A rc \in 1..(refcount[i] - 1) : StackWord(i, rc) \in Word
    /\ \A i, j \in Slot : \A a \in 1..(refcount[i] - 1), b \in 1..(refcount[j] - 1) :
          StackWord(i, a) = StackWord(j, b) => i = j /\ a = b

\* A JIT function that spills at most one round of temporaries writes no word
\* below sp beyond the clobber it is recorded with, which jfunc_call compares
\* with the words its caller leaves free.  abs_stack_offset leaves a word unused
\* after every round, so beyond 2 * NrTemps temporaries the clobber is too small.
ClobberBoundsSpills ==
    StackClobber <= NrTemps =>
        \A i \in Slot : \A w \in SpilledOf(i) : w <= StackClobber

-----------------------------------------------------------------------------
\* The k-th oldest temporary lives in slot (k-1) % NrTemps, and in its
\* register only while no later temporary has taken that register.
TempValue(k) ==
    LET i == (k - 1) % NrTemps
        r == (k - 1) \div NrTemps + 1
    IN  IF r = refcount[i] THEN regs[i] ELSE spilled[StackWord(i, r)]

Virtual == INSTANCE VirtualTemps WITH
    Window <- NrTemps,
    temps <- [k \in 1..TempsAccessed(refcount) |-> TempValue(k)]

\* The allocator implements the stack of virtual temporaries: acquiring or
\* releasing one never changes the contents of any other, however many are
\* spilled, and a client's write reaches the temporary it named.
RefinesVirtualTemps == Virtual!Spec
=============================================================================
