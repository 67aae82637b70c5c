------------------------------- MODULE Locals -------------------------------
(***************************************************************************)
(* Where the locals of a Lua function are: frame.c maps word p of a frame  *)
(* (the value or the type of local p \div 2) to a register, as long as     *)
(* there are any, or to a stack word; stack.c and arch/mips/jfunc.c        *)
(* generate the code that moves locals between the two, and calls enter    *)
(* that code in the middle, at an offset that depends on the number of     *)
(* locals.                                                                 *)
(***************************************************************************)
EXTENDS Integers, Sequences, FiniteSets

CONSTANTS
    Word,
    Reg,          \* registers of the machine that may hold locals
    CallerSaved,  \* those of them that a C function may change (_t0 .. _t9)
    RegTable,     \* machine.reg without the temporaries: _s0 .. _s7, _t0 ..
    MaxLocals,    \* bound: locals of a function
    MaxDepth      \* bound: functions running

ASSUME WordAssumption == Word # {}
ASSUME BoundsAssumption == MaxLocals \in Nat \ {0} /\ MaxDepth \in Nat \ {0}
\* The registers a C function keeps come first, and hold whole locals.
ASSUME RegTableAssumption ==
    /\ RegTable \in Seq(Reg)
    /\ \A i, j \in 1..Len(RegTable) :
          RegTable[i] \in CallerSaved /\ (i <= j \/ (i % 2 = 0 /\ i = j + 1))
             => RegTable[j] \in CallerSaved

VARIABLES
    regs,      \* what the registers hold
    frames,    \* the stack frames: number of locals and stack words
    done       \* the instruction executed last, and what it had to assign

vars == <<regs, frames, done>>

WordsOf(n) == 0..(2 * n - 1)
Depth == Len(frames)
Top == frames[Depth]

-----------------------------------------------------------------------------
NrSpareRegs == Len(RegTable)
InRegister == 0..(NrSpareRegs - 1)

\* vreg_to_physical_reg
RegOf(p) == RegTable[p + 1]

TempWords == {p \in InRegister : RegOf(p) \in CallerSaved}

\* What the operands of vreg_to_operand hold: the register of word p, if it
\* has one, and else its stack word.
Read(p) == IF p \in InRegister THEN regs[RegOf(p)] ELSE Top.words[p]

\* Moves are emitted for the locals from the last to the first, and for each
\* first the value and then the type.
Before(q, p) == q \div 2 > p \div 2 \/ (q \div 2 = p \div 2 /\ q < p)

\* Code that moves the words in W, entered after its first skip moves.
MovesFrom(W, skip) == {p \in W : Cardinality({q \in W : Before(q, p)}) >= skip}

\* Mutant: each local is taken to have one move.
SkipPerLocal(n) == IF NrSpareRegs > n THEN NrSpareRegs - n ELSE 0

\* jf_storelocal_offset, jf_loadlocal_offset, mjf_storetemp_offset and
\* mjf_loadtemp_offset, in moves.
Skip(n) == IF NrSpareRegs > 2 * n THEN NrSpareRegs - 2 * n ELSE 0

\* The words that JF_STORE_LOCALS and JF_LOAD_LOCALS move when they are called
\* for n locals, and those that MJF_STORETEMP and MJF_LOADTEMP move.
LocalMoves(n) == MovesFrom(InRegister, Skip(n))
TempMoves(n) == MovesFrom(TempWords, Skip(n))

\* x_frame for k locals from local a on.
LimitMoves(a, k) == InRegister \cap (2 * a)..(2 * (a + k) - 1)

\* The words of a frame after the moves in W to the stack.
Stored(words, rs, W) ==
    [p \in DOMAIN words |-> IF p \in W THEN rs[RegOf(p)] ELSE words[p]]

\* The registers after the moves in W from the stack: of two moves into one
\* register, the later one counts.
Loaded(rs, words, W) ==
    [r \in Reg |->
        LET into == {p \in W : RegOf(p) = r}
        IN  IF into = {} THEN rs[r]
            ELSE words[CHOOSE p \in into : \A q \in into : q = p \/ Before(q, p)]]

Junk(rs, R, w) == [r \in Reg |-> IF r \in R THEN w ELSE rs[r]]

-----------------------------------------------------------------------------
\* The main chunk has been called; what it finds in its locals is arbitrary.
Init ==
    \E n \in 1..MaxLocals, w \in Word :
        /\ regs = [r \in Reg |-> w]
        /\ frames = <<[n |-> n, words |-> [p \in WordsOf(n) |-> w]]>>
        /\ done = <<"start">>

\* One move into a word of a local, such as either half of assign().
Assign ==
    \E p \in WordsOf(Top.n), w \in Word :
        /\ done' = <<"word", p, w>>
        /\ IF p \in InRegister
           THEN regs' = [regs EXCEPT ![RegOf(p)] = w] /\ UNCHANGED frames
           ELSE frames' = [frames EXCEPT ![Depth].words[p] = w] /\ UNCHANGED regs

\* Mutant: the registers after the last local of the frame are not looked at,
\* nor are those of the last local.
AnyTempsLess(n) == \E p \in TempWords : p \in WordsOf(n - 1)

\* is_any_temps, which looks at one local more than there are.
AnyTemps(n) == \E p \in TempWords : p \in WordsOf(n + 1)

\* The words of the frame and the registers after mips_static_ccall called a C
\* function that changes the stack words to W(words) and leaves w in registers.
SavedTemps(rs) ==
    IF AnyTemps(Top.n) THEN Stored(Top.words, rs, TempMoves(Top.n)) ELSE Top.words
AfterCCall(words, w) ==
    IF AnyTemps(Top.n)
    THEN Loaded(Junk(regs, CallerSaved, w), words, TempMoves(Top.n))
    ELSE Junk(regs, CallerSaved, w)

\* Mutant: the type is left in its stack word.
TypeFillNot(rs, words, i) == rs

\* vreg_type_fill
TypeFill(rs, words, i) == Loaded(rs, words, {2 * i + 1} \cap InRegister)

\* do_gettable and the slow path of emit_bop: the C function leaves the type of
\* the result in the stack word of local i, and returns the value.
CallForTValue ==
    \E i \in 0..(Top.n - 1), v, t, w \in Word :
        LET called == [SavedTemps(regs) EXCEPT ![2 * i + 1] = t]
            after == AfterCCall(called, w)
        IN  /\ done' = <<"local", i, v, t>>
            /\ IF 2 * i \in InRegister
               THEN /\ regs' = TypeFill([after EXCEPT ![RegOf(2 * i)] = v], called, i)
                    /\ frames' = [frames EXCEPT ![Depth].words = called]
               ELSE /\ regs' = TypeFill(after, called, i)
                    /\ frames' = [frames EXCEPT ![Depth].words = [called EXCEPT ![2 * i] = v]]

\* emit_setlist: the items are saved, and a C function is called that returns
\* nothing; with no items it is any other such call.
CallForNothing ==
    \E a \in 0..Top.n, w \in Word : \E k \in 0..(Top.n - a) :
        LET saved == Stored(SavedTemps(regs), regs, LimitMoves(a, k))
        IN  /\ done' = <<"nothing">>
            /\ regs' = AfterCCall(saved, w)
            /\ frames' = [frames EXCEPT ![Depth].words = saved]

\* Mutant: one argument or result too many is copied.
CopiedOneMore(dst, b, src, a, k) ==
    LET into == (2 * b)..(2 * (b + k) + 1)
    IN  [p \in DOMAIN dst \cup into |->
            IF p \in into /\ p - 2 * b + 2 * a \in DOMAIN src THEN src[p - 2 * b + 2 * a]
            ELSE IF p \in DOMAIN dst THEN dst[p] ELSE CHOOSE w \in Word : TRUE]

\* JF_ARG_RES_CPY for k arguments or results that exist.
Copied(dst, b, src, a, k) ==
    [p \in DOMAIN dst |->
        IF p \in (2 * b)..(2 * (b + k) - 1) THEN src[p - 2 * b + 2 * a] ELSE dst[p]]

\* emit_call up to the end of the callee's prologue: the callee has n locals, k
\* of them parameters, and its arguments are the k locals from a on.  The
\* prologue works in registers of locals (prefer_nontemp_acquire_reg).
Call ==
    /\ Depth < MaxDepth
    /\ \E n \in 1..MaxLocals, w \in Word : \E k \in 0..n : \E a \in 0..(Top.n - k) :
          LET saved == Stored(Top.words, regs, LocalMoves(Top.n))
              callee == Copied([p \in WordsOf(n) |-> w], 0, saved, a, k)
          IN  /\ done' = <<"call", n, a, k>>
              /\ frames' = Append([frames EXCEPT ![Depth].words = saved],
                                  [n |-> n, words |-> callee])
              /\ regs' = Loaded(Junk(regs, Reg, w), callee, LocalMoves(k))

\* do_ret with k results from local b on, JF_EPILOGUE, and the rest of emit_call
\* in the caller, which keeps the results from its local a on.
Return ==
    /\ Depth > 1
    /\ \E w \in Word, k \in 0..Top.n :
       \E b \in 0..(Top.n - k), a \in 0..(frames[Depth - 1].n - k) :
          LET saved == Stored(Top.words, regs, LimitMoves(b, k))
              caller == frames[Depth - 1]
              words == Copied(caller.words, a, saved, b, k)
          IN  /\ done' = <<"return", b, a, k>>
              /\ frames' = [SubSeq(frames, 1, Depth - 1) EXCEPT ![Depth - 1].words = words]
              /\ regs' = Loaded(Junk(regs, Reg, w), words, LocalMoves(caller.n))

Next == Assign \/ CallForTValue \/ CallForNothing \/ Call \/ Return

Spec == Init /\ [][Next]_vars

-----------------------------------------------------------------------------
TypeOK ==
    /\ regs \in [Reg -> Word]
    /\ \A d \in 1..Depth :
          /\ frames[d].n \in 1..MaxLocals
          /\ frames[d].words \in [WordsOf(frames[d].n) -> Word]

\* Entered at the offset for n locals of the running function, be they its
\* parameters or all it has, the shared code moves exactly the words of its first
\* n locals that have a register, and the code for C calls those of its locals in
\* caller-saved registers: none is missed, nothing below the frame is read or
\* written, and the offset is not past the end of the code.
EntriesExact ==
    /\ \A n \in 0..Top.n :
          /\ LocalMoves(n) = InRegister \cap WordsOf(n)
          /\ Skip(n) <= Cardinality(InRegister)
    /\ AnyTemps(Top.n) =>
          /\ TempMoves(Top.n) = TempWords \cap WordsOf(Top.n)
          /\ Skip(Top.n) <= Cardinality(TempWords)

-----------------------------------------------------------------------------
\* The running function's locals are where Read finds them, those of its
\* callers in their stack words.
View == [p \in WordsOf(Top.n) |-> Read(p)]

AllLocals ==
    [d \in 1..Depth |->
        [n |-> frames[d].n, words |-> IF d = Depth THEN View ELSE frames[d].words]]

Private == INSTANCE PrivateLocals WITH locals <- AllLocals

\* Registers and stack words implement locals that are private to their
\* function, across calls of Lua functions and of C functions.  This needs
\* functions whose locals the table has different registers for.
RefinesPrivateLocals == Private!Spec
=============================================================================
