--------------------------- MODULE CodeGenerators ---------------------------
(***************************************************************************)
(* Instruction selection for MIPS: move() of arch/mips/machine.c, the      *)
(* operations of arch/mips/arithmetic.c and the branches of                *)
(* arch/mips/branch.c.  Each operator is the code that its C function      *)
(* emits; n is the number of temporaries that are held already (no caller  *)
(* holds so many that one is spilled, which is the business of the module  *)
(* Temporaries).                                                           *)
(***************************************************************************)
EXTENDS MipsCode

\* Mutant: one value too many fits.
IsAddImmedToo(o) == IsImm(o) /\ o.k \in (-ImmHalf)..ImmHalf

\* What fits a signed immediate, itself or negated.
IsAddImmed(o) == IsImm(o) /\ o.k \in (-ImmHalf)..(ImmHalf - 1)
IsSubImmed(o) == IsImm(o) /\ -o.k \in (-ImmHalf)..(ImmHalf - 1)
IsInvertible(o) == IsAddImmed(o) /\ IsSubImmed(o)

\* sub_zero_reg
ZeroReg(o) == IF o = Imm(0) THEN Reg(Zero) ELSE o

\* ispowerof2 and ilog2 of an immediate
Exponents(k) == {e \in 0..(ImmHalf - 1) : 2^e = k}
IsPowerOf2(o) == IsAddImmed(o) /\ o.k > 0 /\ Exponents(o.k) # {}
Log2(o) == Imm(CHOOSE e \in Exponents(o.k) : TRUE)

\* move: memory is written from a register, a temporary if need be.
Move(d, s, n) ==
    IF IsReg(d) \/ IsReg(s) THEN <<Copy(d, s)>>
    ELSE <<Copy(Reg(Temp(n)), s), Copy(d, Reg(Temp(n)))>>

-----------------------------------------------------------------------------
\* Mutant: the other source may be overwritten.
LoadRegisterOver(rd, other, n) == rd

\* A source that needs a register shares that of the destination unless the
\* other source is there.
LoadRegister(rd, other, n) == IF other = rd THEN Reg(Temp(n)) ELSE rd

\* acquire_reg: registers for the operands, and the loads that fill them.
AcquireReg(d, s, t, allowimmed, n) ==
    LET fits(o) == IsReg(o) \/ (allowimmed /\ IsAddImmed(o))
        rd == IF IsReg(d) THEN d ELSE Reg(Temp(n))
        n1 == IF IsReg(d) THEN n ELSE n + 1
        rs == IF fits(s) THEN s ELSE LoadRegister(rd, t, n1)
        n2 == IF rs = Reg(Temp(n1)) THEN n1 + 1 ELSE n1
        rt == IF fits(t) THEN t ELSE LoadRegister(rd, rs, n2)
        load(r, o) == IF fits(o) THEN <<>> ELSE Move(r, o, n2)
    IN  [d |-> rd, s |-> rs, t |-> rt, loads |-> load(rs, s) \o load(rt, t)]

\* An instruction with two sources, between acquire_reg and release_reg.
ThreeOperand(op, d, s, t, allowimmed, n) ==
    LET a == AcquireReg(d, s, t, allowimmed, n)
    IN  Asserted(~IsImm(s))
        \o a.loads
        \o <<Ins(op, a.d, a.s, a.t)>>
        \o (IF a.d = d THEN <<>> ELSE Move(d, a.d, n))

DoAdd(d, s, t, negate, n) ==
    LET x == IF IsAddImmed(s) THEN t ELSE s
        y == IF IsAddImmed(s) THEN s ELSE t
        a == AcquireReg(d, x, y, TRUE, n)
    IN  Asserted(~IsImm(x))
        \o a.loads
        \o <<Ins("add", a.d, a.s, a.t)>>
        \o (IF negate THEN <<Ins("sub", a.d, Reg(Zero), a.d)>> ELSE <<>>)
        \o (IF a.d = d THEN <<>> ELSE Move(d, a.d, n))

\* VALIDATE_OPERANDS: two immediates are folded by the compiler, whose own
\* division by zero traps.
Folded(op, d, s, t, n) ==
    IF op \in {"div", "mod"} /\ t.k = 0 THEN Asserted(FALSE)
    ELSE Move(d, Imm(CHOOSE w \in Results(op, s.k, t.k) : TRUE), n)

SubCode(d, s, t, n) ==
    IF IsSubImmed(s) THEN DoAdd(d, t, Imm(-s.k), TRUE, n)
    ELSE IF IsSubImmed(t) THEN DoAdd(d, s, Imm(-t.k), FALSE, n)
    ELSE ThreeOperand("sub", d, s, t, FALSE, n)

MulCode(d, s, t, n) ==
    LET x == IF IsPowerOf2(s) THEN t ELSE s
        y == IF IsPowerOf2(s) THEN s ELSE t
    IN  IF IsPowerOf2(y) THEN ThreeOperand("sll", d, x, Log2(y), TRUE, n)
        ELSE ThreeOperand("mul", d, x, y, FALSE, n)

DivCode(d, s, t, n) ==
    IF IsPowerOf2(t) THEN ThreeOperand("sra", d, s, Log2(t), TRUE, n)
    ELSE ThreeOperand("div", d, s, t, FALSE, n)

\* mips_add, mips_sub, mips_mul, mips_sdiv, mips_smod, mips_or
Arithmetic(op, d, s, t, n) ==
    LET x == ZeroReg(s)
        y == ZeroReg(t)
    IN  IF IsImm(s) /\ IsImm(t) THEN Folded(op, d, s, t, n)
        ELSE CASE op = "add" -> DoAdd(d, x, y, FALSE, n)
               [] op = "sub" -> SubCode(d, x, y, n)
               [] op = "mul" -> MulCode(d, x, y, n)
               [] op = "div" -> DivCode(d, x, y, n)
               [] op \in {"mod", "or"} -> ThreeOperand(op, d, x, y, FALSE, n)

-----------------------------------------------------------------------------
\* mips_b to a label, with its delay slot.
Jump(l) == <<Branch("beq", Reg(Zero), Reg(Zero), l), Nop>>

\* do_equv: the patterns, tried for the operands in both orders.
EquvPattern(op, s, t, l, n) ==
    LET t1 == Reg(Temp(n))
        t2 == Reg(Temp(n + 1))
    IN  CASE IsReg(s) /\ IsReg(t) ->
                <<Branch(op, s, t, l), Nop>>
          [] IsReg(s) /\ IsMem(t) ->
                <<Copy(t1, t), Branch(op, s, t1, l), Nop>>
          [] IsReg(s) /\ IsInvertible(t) ->
                <<Ins("add", s, s, Imm(-t.k)), Branch(op, s, Reg(Zero), l),
                  Ins("add", s, s, t)>>
          [] IsMem(s) /\ IsMem(t) ->
                <<Copy(t1, s), Copy(t2, t), Ins("sub", t1, t1, t2),
                  Branch(op, t1, Reg(Zero), l), Nop>>
          [] IsMem(s) /\ IsInvertible(t) ->
                <<Copy(t1, s), Ins("add", t1, t1, Imm(-t.k)),
                  Branch(op, t1, Reg(Zero), l), Nop>>
          [] OTHER -> Asserted(FALSE)

\* mips_beq and mips_bne
Equality(op, s, t, l, n) ==
    LET x == ZeroReg(s)
        y == ZeroReg(t)
        straight == EquvPattern(op, x, y, l, n)
    IN  Asserted(~IsImm(s))
        \o (IF Refused(straight) THEN EquvPattern(op, y, x, l, n) ELSE straight)

\* mips_blt, mips_bgt, mips_ble, mips_bge: the sign of the difference decides.
\* Without temporaries the difference replaces s until the delay slot.
Inequality(op, s, t, l, n) ==
    LET y == ZeroReg(t)
        iss == ~IsReg(s)
        ist == ~(IsReg(y) \/ IsInvertible(y))
        n1 == IF iss THEN n + 1 ELSE n
        rs == IF iss THEN Reg(Temp(n)) ELSE s
        rt == IF ist THEN Reg(Temp(n1)) ELSE y
        d == IF ~iss /\ ist THEN rt ELSE rs
    IN  Asserted(~IsImm(s))
        \o (IF iss THEN Move(rs, s, n) ELSE <<>>)
        \o (IF ist THEN Move(rt, y, n) ELSE <<>>)
        \o Arithmetic("sub", d, rs, rt, n1 + 1)
        \o <<Branch(op, d, Reg(Zero), l)>>
        \o (IF iss \/ ist THEN <<Nop>> ELSE Arithmetic("add", d, d, rt, n1))
=============================================================================
