---------------------------- MODULE Instructions ----------------------------
(***************************************************************************)
(* The instructions of the bytecode that compute, compare, loop, and read  *)
(* and write upvalues and tables.  In a behaviour, a function of one such  *)
(* instruction, or of a loop with an empty body, is compiled for a machine *)
(* with some registers for locals, and its code is run one machine         *)
(* instruction at a time.                                                  *)
(***************************************************************************)
EXTENDS TableCode

CONSTANTS
    Locals,     \* the number of locals of the function
    Upvals,     \* and of its upvalues
    Numeric,    \* strings (their words) that lstrtonum accepts, as their own number
    Addresses,  \* words that are addresses of tables
    SpareRegs,  \* the numbers of registers for locals to be looked at
    Program,    \* the instructions and loops to be looked at
    Starts(_)   \* the locals, upvalues and tables that each may start from

ASSUME LocalsAssumption == Locals \in Nat /\ Upvals \in Nat
ASSUME AddressesAssumption == Addresses \subseteq Word
ASSUME SpareRegsAssumption == SpareRegs \subseteq Nat

VARIABLES
    ins,      \* what the function does: one instruction, or a loop
    spare,    \* NR_SPARE_REGS: words of locals that are in registers
    text,     \* the machine code of each of its bytecode instructions
    line,     \* the bytecode instruction that is being run
    at,       \* the next machine instruction of its code
    val,      \* the contents of registers and of words of memory
    heap,     \* the tables, each a function of keys
    state,    \* auxiliary: locals, upvalues, tables when the last one was complete
    jumped,   \* control left the code for another line of bytecode
    status    \* "compiling", "running", "done", "aborted", "error", or "astray" when
              \* memory that is no table has been written as if it were one

vars == <<ins, spare, text, line, at, val, heap, state, jumped, status>>

Local == 0..(Locals - 1)
Upval == 0..(Upvals - 1)

\* The instructions: of locals and constants, with the locals that they use too.
Value == [type : Types, word : Word]
Source == {OfLocal(l) : l \in Local} \cup [islocal : {FALSE}, type : Types, word : Word]
Instruction ==
    [kind : {"arith"}, op : {"add", "sub", "mul", "div", "mod"}, d : Local, s : Source, t : Source]
    \cup [kind : {"compare"}, rel : {"eq", "lt", "le"}, pred : BOOLEAN, s : Source, t : Source]
    \cup [kind : {"move"}, d : Local, s : Source]
    \cup {i \in [kind : {"for"}, d : Local] : i.d + 3 \in Local}
    \cup [kind : {"getupval"}, d : Local, u : Upval]
    \cup [kind : {"setupval"}, s : Source, u : Upval]
    \cup [kind : {"gettable"}, d : Local, t : Local, k : Source]
    \cup [kind : {"gettabup"}, d : Local, u : Upval, k : Source]
    \cup {i \in [kind : {"self"}, d : Local, t : Local, k : Source] : i.d + 1 \in Local}
    \cup [kind : {"settable"}, t : Local, k : Source, s : Source]
    \cup [kind : {"settabup"}, u : Upval, k : Source, s : Source]
    \cup [kind : {"newtable"}, d : Local]
    \cup {i \in [kind : {"setlist"}, t : Local, n : Nat \ {0}, block : Nat \ {0}] : i.t + i.n \in Local}

ASSUME ProgramAssumption == Program \subseteq Instruction
ASSUME StartsAssumption == \A i \in Program : \A x \in Starts(i) :
    /\ x.local \in [Local -> Value] /\ x.up \in [Upval -> Value]
    /\ DOMAIN x.heap \subseteq Addresses
    /\ \A t \in DOMAIN x.heap : \A k \in DOMAIN x.heap[t] : x.heap[t][k] \in Value

\* The code of each bytecode instruction of the function.
Compile(f, i) ==
    CASE i.kind = "arith"    -> <<EmitBop(f, i.op, i.d, Operand(f, i.s), Operand(f, i.t))>>
      [] i.kind = "compare"  -> <<EmitRelational(i.rel, i.pred, Operand(f, i.s), Operand(f, i.t))>>
      [] i.kind = "move"     -> <<EmitMove(f, i.d, Operand(f, i.s))>>
      [] i.kind = "for"      -> <<EmitForPrep(f, i.d), EmitForLoop(f, i.d)>>
      [] i.kind = "getupval" -> <<EmitGetUpval(f, i.d, i.u)>>
      [] i.kind = "setupval" -> <<EmitSetUpval(f, Operand(f, i.s), i.u)>>
      [] i.kind = "gettable" -> <<EmitGetTable(f, i.d, i.t, Operand(f, i.k))>>
      [] i.kind = "gettabup" -> <<EmitGetTabUp(f, i.d, i.u, Operand(f, i.k))>>
      [] i.kind = "self"     -> <<EmitSelf(f, i.d, i.t, Operand(f, i.k))>>
      [] i.kind = "settable" -> <<EmitSetTable(f, i.t, Operand(f, i.k), Operand(f, i.s))>>
      [] i.kind = "settabup" -> <<EmitSetTabUp(f, i.u, Operand(f, i.k), Operand(f, i.s))>>
      [] i.kind = "newtable" -> <<EmitNewTable(f, i.d)>>
      [] i.kind = "setlist"  -> <<EmitSetList(f, i.t, i.n, i.block)>>

-----------------------------------------------------------------------------
\* The value in two words, and the values of all variables.
Argument(v, o) == [type |-> Read(v, o.type), word |-> Read(v, o.value)]
LocalsOf(v) == [l \in Local |-> Argument(v, LocalOperand(spare, l))]
UpvalsOf(v) == [u \in Upval |-> [type |-> v[CellType(u)], word |-> v[CellValue(u)]]]

\* tonumber
IsNumeric(x) == x.type = Number \/ (x.type = String /\ x.word \in Numeric)

\* ljc_nonnumeric_bop and ljc_relational, which is not called for two numbers;
\* other arithmetic, and an order of what is not two strings, reach
\* lcurrent_error.
BopAllowed(x, y) == IsNumeric(x) /\ IsNumeric(y)
RelationalAllowed(rel, x, y) == rel = "eq" \/ (x.type = String /\ y.type = String)

BopResults(op, x, y) == Results(op, x.word, y.word)
RelationalResult(rel, x, y) ==
    CASE rel = "eq" -> x = y
      [] rel = "lt" -> x.word < y.word
      [] rel = "le" -> x.word <= y.word

\* table_get: nil if there is nothing.
Lookup(t, k) ==
    IF k \in DOMAIN heap[t] THEN heap[t][k] ELSE [type |-> Nil, word |-> 0]

\* table_set
Store(h, t, k, x) ==
    [h EXCEPT ![t] = [key \in DOMAIN @ \cup {k} |-> IF key = k THEN x ELSE @[key]]]

\* table_setlist: values that lie downwards from a word of the frame.
Item(v, base, i) ==
    [type |-> v[<<base[1], base[2] + 2 * i + 1>>], word |-> v[<<base[1], base[2] + 2 * i>>]]
StoreList(h, t, v, base, first, n) ==
    [h EXCEPT ![t] =
        LET set == {[type |-> Number, word |-> first + 1 + i] : i \in 0..(n - 1)}
        IN  [key \in set \cup DOMAIN @ |->
                IF key \in set THEN Item(v, base, key.word - first - 1) ELSE @[key]]]

-----------------------------------------------------------------------------
\* Where words are: temporaries, locals in registers and in the frame, the way
\* to the upvalues, and their cells.
Places(f) ==
    Temps \cup {Zero, FrameClosure, Slot0}
    \cup {Object(u) : u \in Upval} \cup {UpVal(u) : u \in Upval}
    \cup {CellType(u) : u \in Upval} \cup {CellValue(u) : u \in Upval}
    \cup {Register(k) : k \in {k \in 0..(2 * Locals - 1) : k < f}}
    \cup {FrameWord(k) : k \in 0..(2 * Locals - 1)}

\* Nothing of this instruction.
Junk == Half - 1

\* What is where when the function is entered: words of locals in registers, or
\* else in the frame, where the others have some word; the way to the upvalues.
Entry(f, x) ==
    [p \in Places(f) |->
        CASE p[1] = "temp" -> Junk
          [] p[1] = "zero" -> 0
          [] p[1] = "closure" -> Slot0
          [] p[1] = "slot" -> Object(0)
          [] p[1] = "object" -> UpVal(p[2])
          [] p[1] = "upval" -> CellType(p[2])
          [] p[1] = "cell" /\ p[2] % 2 = 0 -> x.up[p[2] \div 2].type
          [] p[1] = "cell" /\ p[2] % 2 = 1 -> x.up[p[2] \div 2].word
          [] p[1] = "frame" /\ p[2] < f -> String
          [] OTHER -> LET l == x.local[p[2] \div 2]
                      IN  IF p[2] % 2 = 0 THEN l.word ELSE l.type]

Init ==
    /\ ins \in Program
    /\ state \in Starts(ins)
    /\ spare \in SpareRegs
    /\ heap = state.heap
    /\ val = Entry(spare, state)
    /\ text = Compile(spare, ins)
    /\ line = 1
    /\ at = 1
    /\ jumped = FALSE
    /\ status = "compiling"

code == text[line]

\* The compiler stops at a failed assertion, or the function is called.
Enter ==
    /\ status = "compiling"
    /\ status' = IF \E l \in DOMAIN text : Refused(text[l]) THEN "aborted" ELSE "running"
    /\ UNCHANGED <<ins, spare, text, line, at, val, heap, state, jumped>>

Running == status = "running" /\ at <= Len(code)
Goto(n) == at' = n /\ UNCHANGED <<ins, spare, text, line, state, jumped, status>>
Stop(s) == status' = s /\ UNCHANGED <<ins, spare, text, line, at, val, heap, state, jumped>>
Fail == Stop("error")

Calls == {"bop", "relational", "tableget", "tableset", "create", "setlist"}

Plain ==
    /\ Running
    /\ code[at].op \notin BranchOps \cup {"label"} \cup Calls
    /\ val' \in Effects(val, code[at])
    /\ Goto(at + 1)
    /\ UNCHANGED heap

Labelled ==
    /\ Running
    /\ code[at].op = "label"
    /\ Goto(at + 1)
    /\ UNCHANGED <<val, heap>>

\* A branch and the instruction in its delay slot.
Branches ==
    /\ Running
    /\ IsBranch(code[at])
    /\ val' \in Effects(val, code[at + 1])
    /\ LET i == code[at]
           taken == Holds(i.op, Read(val, i.s), Read(val, i.t))
       IN  IF taken /\ i.to = Line
           THEN /\ at' = Len(code) + 1
                /\ jumped' = TRUE
                /\ UNCHANGED <<ins, spare, text, line, state, status>>
           ELSE Goto(IF taken THEN Place(code, at, i.to) ELSE at + 2)
    /\ UNCHANGED heap

-----------------------------------------------------------------------------
\* C functions use the temporaries; locals in registers they keep, or the code
\* around the call does (Locals).
Called(op) == Running /\ code[at].op = op
Clobbered == [p \in DOMAIN val |-> IF p \in Temps THEN Junk ELSE val[p]]
Returned(v) == val' = v /\ Goto(at + 1)

CallsBop ==
    /\ Called("bop")
    /\ LET i == code[at]
           x == Argument(val, i.s)
           y == Argument(val, i.t)
       IN  IF BopAllowed(x, y)
           THEN \E w \in BopResults(i.bop, x, y) :
                    Returned(Write(Write(Clobbered, i.home, Number), i.to, w)) /\ UNCHANGED heap
           ELSE Fail

CallsRelational ==
    /\ Called("relational")
    /\ LET i == code[at]
           x == Argument(val, i.s)
           y == Argument(val, i.t)
       IN  IF RelationalAllowed(i.rel, x, y)
           THEN /\ Returned(Write(Clobbered, i.to, IF RelationalResult(i.rel, x, y) THEN 1 ELSE 0))
                /\ UNCHANGED heap
           ELSE Fail

\* ljc_tableget: the type goes where the last argument points.
CallsTableGet ==
    /\ Called("tableget")
    /\ LET i == code[at]
           t == Argument(val, i.table)
           x == Lookup(t.word, Argument(val, i.key))
       IN  IF t.type = Table /\ t.word \in DOMAIN heap
           THEN /\ Returned(Write([Clobbered EXCEPT ![Read(val, i.home)] = x.type], i.to, x.word))
                /\ UNCHANGED heap
           ELSE Fail

\* ljc_tableset looks at no type, and writes through whatever the word is.
CallsTableSet ==
    /\ Called("tableset")
    /\ LET i == code[at]
           t == Read(val, i.table)
       IN  IF t \in DOMAIN heap
           THEN /\ heap' = Store(heap, t, Argument(val, i.key), Argument(val, i.s))
                /\ Returned(Clobbered)
           ELSE Stop("astray")

\* table_create
CallsCreate ==
    /\ Called("create")
    /\ \E t \in Addresses \ DOMAIN heap :
            /\ heap' = [a \in DOMAIN heap \cup {t} |-> IF a = t THEN [k \in {} |-> 0] ELSE heap[a]]
            /\ Returned(Write(Clobbered, code[at].to, t))

\* table_setlist neither.
CallsSetList ==
    /\ Called("setlist")
    /\ LET i == code[at]
           t == Read(val, i.table)
       IN  IF t \in DOMAIN heap
           THEN /\ heap' = StoreList(heap, t, val, Read(val, i.base), i.first, i.n)
                /\ Returned(Clobbered)
           ELSE Stop("astray")

-----------------------------------------------------------------------------
\* The code of a line has been left.  In a loop, FORPREP jumps to FORLOOP, and
\* FORLOOP jumps to itself over the empty body.
Complete ==
    /\ status = "running"
    /\ at = Len(code) + 1
    /\ IF ins.kind = "for" /\ jumped
       THEN line' = 2 /\ at' = 1 /\ jumped' = FALSE /\ UNCHANGED status
       ELSE status' = "done" /\ UNCHANGED <<line, at, jumped>>
    /\ state' = [local |-> LocalsOf(val), up |-> UpvalsOf(val), heap |-> heap]
    /\ UNCHANGED <<ins, spare, text, val, heap>>

Next ==
    \/ Enter \/ Plain \/ Labelled \/ Branches
    \/ CallsBop \/ CallsRelational \/ CallsTableGet \/ CallsTableSet \/ CallsCreate \/ CallsSetList
    \/ Complete

Spec == Init /\ [][Next]_vars /\ WF_vars(Next)

-----------------------------------------------------------------------------
Finished == {"done", "aborted", "error", "astray"}

(* Type invariant: words stay words, those that are types of locals and      *)
(* upvalues stay types, and register zero stays zero, while the code of      *)
(* machine.c, arithmetic.c, branch.c and litabup.c runs; addresses are in    *)
(* temporaries and on the way to upvalues only.                              *)
TypeOK ==
    /\ spare \in SpareRegs
    /\ line \in DOMAIN text
    /\ at \in 1..(Len(code) + 1)
    /\ DOMAIN val = Places(spare)
    /\ \A p \in Places(spare) :
        /\ p[1] \in {"reg", "frame", "cell"} => val[p] \in Word
        /\ (p[1] \in {"reg", "frame"} /\ p[2] % 2 = 1) => val[p] \in Types
        /\ (p[1] = "cell" /\ p[2] % 2 = 0) => val[p] \in Types
    /\ val[Zero] = 0
    /\ state.local \in [Local -> Value]
    /\ state.up \in [Upval -> Value]
    /\ DOMAIN heap \subseteq Addresses
    /\ \A t \in DOMAIN heap : \A k \in DOMAIN heap[t] : heap[t][k] \in Value
    /\ jumped \in BOOLEAN
    /\ status \in {"compiling", "running"} \cup Finished

(* The generated code does what the instruction means: results, the decision *)
(* to skip, turns of a loop, what is read and stored in upvalues and tables, *)
(* and nothing else changes, wherever locals and types are (arithmetic.c,    *)
(* branch.c, liarith.c:105, libranch.c:125, litabup.c).                      *)
Lua == INSTANCE LuaOperations WITH
    turning <- line = 2,
    var <- state.local,
    up <- state.up,
    heap <- state.heap,
    jumped <- status = "done" /\ jumped,
    status <- IF status \in Finished THEN status ELSE "next"
RefinesLuaOperations == Lua!Spec

(* Only registers are computed with, and immediates that fit: words of the   *)
(* frame and other immediates are loaded first, whichever operands are       *)
(* swapped, negated or shared (arithmetic.c:51, branch.c:146).               *)
ComputesInRegisters ==
    \A i \in DOMAIN code : code[i].op \in {"add", "sub", "mul", "or", "sll", "sra", "div", "mod"} =>
        /\ IsReg(code[i].d) /\ IsReg(code[i].s)
        /\ \/ IsReg(code[i].t)
           \/ code[i].op \in {"add", "sll", "sra"} /\ code[i].t.k \in (-ImmHalf)..(ImmHalf - 1)

(* Every instruction ends, and every loop with a step does: the test at its  *)
(* end (instruction.c:84) comes to hold even when the counter overflows.     *)
Terminates == <>(status \in Finished)

(* OP_LT and OP_LE: "if ((RK(B) <  RK(C)) ~= A) then pc++" (lopcodes.h:216). *)
SkipsAsDocumented ==
    status = "done" /\ ins.kind = "compare" /\ ins.rel # "eq" =>
        LET x == Argument(val, Operand(spare, ins.s))
            y == Argument(val, Operand(spare, ins.t))
        IN  x.word - y.word \in Word =>
                (jumped <=> (RelationalResult(ins.rel, x, y) # ins.pred))
=============================================================================
