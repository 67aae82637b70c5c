-------------------------- MODULE InstructionCode ---------------------------
(***************************************************************************)
(* The code of the bytecode instructions that compute, compare and loop:   *)
(* emit_bop (liarith.c), emit_relational (libranch.c), emit_move,          *)
(* emit_forprep and emit_forloop (instruction.c), and the operands that    *)
(* the locals of a function become (frame.c, operand.c).                   *)
(***************************************************************************)
EXTENDS CodeGenerators

Number == 0   \* LUA_TNUMBER
String == 4   \* LUA_TSTRING
Nil == 3      \* LUA_TNIL
Table == 5    \* LUA_TTABLE
Types == {Number, String, Nil, Table}

ASSUME TypesAssumption == Types \subseteq Word

-----------------------------------------------------------------------------
\* pslot_to_operand: the words of the locals, value before type, fill the
\* registers for locals in order; each also has a word on the stack.  The frame
\* f is the number of registers there are.
Register(k) == <<"reg", k>>
FrameWord(k) == <<"frame", k>>

Slot(f, k, stackonly) ==
    IF stackonly \/ k >= f THEN Mem(FrameWord(k)) ELSE Reg(Register(k))

\* vreg_to_operand
LocalOperand(f, l) == [value |-> Slot(f, 2 * l, FALSE), type |-> Slot(f, 2 * l + 1, FALSE)]
StackOperand(f, l) == [value |-> Slot(f, 2 * l, TRUE), type |-> Slot(f, 2 * l + 1, TRUE)]

\* loperand_to_operand: a local, or a constant that became an immediate.
Operand(f, o) ==
    IF o.islocal THEN LocalOperand(f, o.index)
    ELSE [value |-> Imm(o.word), type |-> Imm(o.type)]

OfLocal(l) == [islocal |-> TRUE, index |-> l]

-----------------------------------------------------------------------------
\* Calls of C functions, by mips_static_ccall; `to` is where a result goes.
CallBop(op, d, s, t, home) ==
    <<[op |-> "bop", bop |-> op, to |-> d, s |-> s, t |-> t, home |-> home]>>
CallRelational(rel, d, s, t) ==
    <<[op |-> "relational", rel |-> rel, to |-> d, s |-> s, t |-> t]>>

\* The check for two numbers; both are if the OR of their types is 0.
TypeCheck(s, t) ==
    LET tag == Reg(Temp(0))
    IN  Arithmetic("or", tag, s.type, t.type, 1) \o Equality("beq", tag, Imm(0), Next0, 1)

\* vreg_type_fill
TypeFill(f, l) ==
    LET type == LocalOperand(f, l).type
    IN  IF IsReg(type) THEN Move(type, StackOperand(f, l).type, 1) ELSE <<>>

\* emit_bop
EmitBop(f, op, l, s, t) ==
    LET d == LocalOperand(f, l)
    IN  TypeCheck(s, t)
        \o CallBop(op, d.value, s, t, StackOperand(f, l).type) \o TypeFill(f, l) \o Jump(Next1)
        \o <<Label(Next0)>>
        \o Arithmetic(op, d.value, s.value, t.value, 1)
        \o Move(d.type, Imm(Number), 1)
        \o <<Label(Next1)>>

\* The branch that emit_eq, emit_lt and emit_le choose.
Relation(rel, pred, s, t) ==
    CASE rel = "eq" -> Equality(IF pred THEN "bne" ELSE "beq", s, t, Line, 1)
      [] rel = "lt" -> Inequality(IF pred THEN "bgtz" ELSE "bltz", s, t, Line, 1)
      [] rel = "le" -> Inequality(IF pred THEN "bgez" ELSE "blez", s, t, Line, 1)

\* emit_relational
EmitRelational(rel, pred, s, t) ==
    LET tag == Reg(Temp(0))
    IN  TypeCheck(s, t)
        \o CallRelational(rel, tag, s, t)
        \o Equality("beq", tag, Imm(IF pred THEN 0 ELSE 1), Line, 1)
        \o Jump(Next1)
        \o <<Label(Next0)>>
        \o Relation(rel, pred, s.value, t.value)
        \o <<Label(Next1)>>

\* assign
EmitMove(f, l, s) ==
    LET d == LocalOperand(f, l)
    IN  Move(d.value, s.value, 0) \o Move(d.type, s.type, 0)

EmitForPrep(f, l) ==
    EmitBop(f, "sub", l, LocalOperand(f, l), LocalOperand(f, l + 2)) \o Jump(Line)

\* Mutant: the loop ends when the counter is the limit.
EmitForLoopEqual(f, l) ==
    LET loopvar == LocalOperand(f, l)
        limit == LocalOperand(f, l + 1)
        step == LocalOperand(f, l + 2)
    IN  EmitBop(f, "add", l, loopvar, step)
        \o EmitMove(f, l + 3, loopvar)
        \o Equality("beq", loopvar.value, limit.value, Next0, 0)
        \o Jump(Line)
        \o <<Label(Next0)>>

EmitForLoop(f, l) ==
    LET loopvar == LocalOperand(f, l)
        limit == LocalOperand(f, l + 1)
        step == LocalOperand(f, l + 2)
    IN  EmitBop(f, "add", l, loopvar, step)
        \o EmitMove(f, l + 3, loopvar)
        \o Inequality("bgtz", loopvar.value, limit.value, Next0, 0)
        \o Jump(Line)
        \o <<Label(Next0)>>
=============================================================================
