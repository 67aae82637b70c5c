------------------------------ MODULE MipsCode ------------------------------
(***************************************************************************)
(* Operands and the MIPS instructions that the generators of               *)
(* arch/mips emit.  A place is a register or a word of the frame; an       *)
(* instruction reads operands and writes a place.  Labels stand in the     *)
(* code where label_local places them, and branches name them: the         *)
(* Emitter module is about how they become offsets.                        *)
(***************************************************************************)
EXTENDS Words, Sequences

-----------------------------------------------------------------------------
\* Operands: OP_TARGETREG, OP_TARGETDADDR of the frame, OP_TARGETIMMED, and
\* OP_TARGETDADDR of a register that holds the address of some word.
Reg(p) == [tag |-> "reg", at |-> p]
Mem(p) == [tag |-> "mem", at |-> p]
Imm(k) == [tag |-> "imm", k |-> k]
Ind(r, n) == [tag |-> "ind", base |-> r.at, off |-> n]

IsReg(o) == o.tag = "reg"
IsMem(o) == o.tag = "mem"
IsImm(o) == o.tag = "imm"

Zero == <<"zero", 0>>
Temp(n) == <<"temp", n>>
Temps == {Temp(n) : n \in 0..3}

-----------------------------------------------------------------------------
\* Labels: a local label further on, or another line of bytecode.
Next0 == 0
Next1 == 1
Line == 2

Ins(op, d, s, t) == [op |-> op, d |-> d, s |-> s, t |-> t]
Copy(d, s) == Ins("copy", d, s, Imm(0))
Nop == Copy(Reg(Zero), Reg(Zero))
Branch(op, s, t, l) == [op |-> op, s |-> s, t |-> t, to |-> l]
Label(l) == [op |-> "label", to |-> l]

\* A condition that the generator asserts.
Asserted(b) == IF b THEN <<>> ELSE <<[op |-> "assert"]>>
Refused(code) == \E i \in DOMAIN code : code[i].op = "assert"

BranchOps == {"beq", "bne", "bltz", "bgtz", "blez", "bgez"}
IsBranch(i) == i.op \in BranchOps

-----------------------------------------------------------------------------
\* OR is applied to type words only: what matters is whether both are zero.
OrWord(a, b) == IF a = 0 THEN b ELSE a

\* The words an instruction may produce; a division by zero produces anything.
Results(op, a, b) ==
    CASE op = "copy" -> {a}
      [] op = "add"  -> {Wrap(a + b)}
      [] op = "sub"  -> {Wrap(a - b)}
      [] op = "or"   -> {OrWord(a, b)}
      [] op = "mul"  -> {Wrap(a * b)}
      [] op = "sll"  -> {Wrap(a * 2^b)}
      [] op = "sra"  -> {a \div 2^b}
      [] op = "div"  -> IF b = 0 THEN Word ELSE {Wrap(Quotient(a, b))}
      [] op = "mod"  -> IF b = 0 THEN Word ELSE {Remainder(a, b)}

Holds(op, a, b) ==
    CASE op = "beq"  -> a = b
      [] op = "bne"  -> a # b
      [] op = "bltz" -> a < 0
      [] op = "bgtz" -> a > 0
      [] op = "blez" -> a <= 0
      [] op = "bgez" -> a >= 0

\* The address of a word is its place; places of one object are numbered.
At(v, o) == IF o.tag = "ind" THEN <<v[o.base][1], v[o.base][2] + o.off>> ELSE o.at
Read(v, o) == IF IsImm(o) THEN o.k ELSE v[At(v, o)]

\* The contents of all places after an instruction, register zero being fixed.
Write(v, o, w) == IF At(v, o) = Zero THEN v ELSE [v EXCEPT ![At(v, o)] = w]
Effects(v, i) ==
    {Write(v, i.d, w) : w \in IF i.op = "address" THEN {At(v, i.s)}
                             ELSE Results(i.op, Read(v, i.s), Read(v, i.t))}

\* The next place of a local label (find_local_label with isnext).
Place(code, i, l) ==
    CHOOSE j \in (i + 1)..Len(code) :
        /\ code[j] = Label(l)
        /\ \A k \in (i + 1)..(j - 1) : code[k] # Label(l)
=============================================================================
