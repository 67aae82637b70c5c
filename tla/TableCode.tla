----------------------------- MODULE TableCode ------------------------------
(***************************************************************************)
(* The code of the bytecode instructions on upvalues and tables            *)
(* (litabup.c).  A register may hold the address of a word here: the       *)
(* closure of the function is in its frame, its upvalues point to cells,   *)
(* and C functions are passed addresses of words of the frame.             *)
(***************************************************************************)
EXTENDS InstructionCode

CONSTANT FieldsPerFlush   \* LFIELDS_PER_FLUSH

ASSUME FieldsPerFlushAssumption == FieldsPerFlush \in Nat

\* Where the frame's word for the closure leads, dereference by dereference.
FrameClosure == <<"closure", 0>>
Slot0 == <<"slot", 0>>
Object(u) == <<"object", u>>
UpVal(u) == <<"upval", u>>

\* A cell, like every TValue, has its type before its value.
CellType(u) == <<"cell", 2 * u>>
CellValue(u) == <<"cell", 2 * u + 1>>

\* address_of
AddressOf(d, o) == <<Ins("address", d, o, Imm(0))>>

-----------------------------------------------------------------------------
\* getupvalptr
GetUpvalPtr(ptr, u) ==
    <<Copy(ptr, Mem(FrameClosure)), Copy(ptr, Ind(ptr, 0)), Copy(ptr, Ind(ptr, u)),
      Copy(ptr, Ind(ptr, 0))>>

\* do_getupval
DoGetUpval(d, u, n) ==
    LET ptr == Reg(Temp(n))
    IN  GetUpvalPtr(ptr, u)
        \o Move(d.value, Ind(ptr, 1), n + 1)
        \o Move(d.type, Ind(ptr, 0), n + 1)

EmitGetUpval(f, l, u) == DoGetUpval(LocalOperand(f, l), u, 0)

EmitSetUpval(f, s, u) ==
    LET ptr == Reg(Temp(0))
    IN  GetUpvalPtr(ptr, u)
        \o Move(Ind(ptr, 1), s.value, 1)
        \o Move(Ind(ptr, 0), s.type, 1)

-----------------------------------------------------------------------------
\* Calls of ljc_tableget, ljc_tableset, table_create and table_setlist.
CallTableGet(d, t, k, tag) ==
    <<[op |-> "tableget", to |-> d, table |-> t, key |-> k, home |-> tag]>>
CallTableSet(t, k, s) == <<[op |-> "tableset", table |-> t, key |-> k, s |-> s]>>
CallCreate(d) == <<[op |-> "create", to |-> d]>>
CallSetList(t, base, first, n) ==
    <<[op |-> "setlist", table |-> t, base |-> base, first |-> first, n |-> n]>>

\* Mutant: the type is left where the C function wrote it.
DoGetTableUnfilled(f, l, t, k) ==
    LET tag == Reg(Temp(0))
    IN  AddressOf(tag, StackOperand(f, l).type)
        \o CallTableGet(LocalOperand(f, l).value, t, k, tag)

\* do_gettable: the C function writes the type through a pointer.
DoGetTable(f, l, t, k) ==
    LET tag == Reg(Temp(0))
    IN  AddressOf(tag, StackOperand(f, l).type)
        \o CallTableGet(LocalOperand(f, l).value, t, k, tag)
        \o TypeFill(f, l)

EmitGetTable(f, l, t, k) == DoGetTable(f, l, LocalOperand(f, t), k)
EmitSetTable(f, t, k, s) == CallTableSet(LocalOperand(f, t).value, k, s)

\* The table of an upvalue is fetched to where the result goes.
EmitGetTabUp(f, l, u, k) ==
    LET d == LocalOperand(f, l)
    IN  DoGetUpval(d, u, 0) \o DoGetTable(f, l, d, k)

EmitSetTabUp(f, u, k, s) ==
    LET t == [type |-> Reg(Temp(0)), value |-> Reg(Temp(1))]
    IN  DoGetUpval(t, u, 2) \o CallTableSet(t.value, k, s)

EmitSelf(f, l, t, k) ==
    LET table == LocalOperand(f, t)
    IN  EmitMove(f, l + 1, table) \o DoGetTable(f, l, table, k)

EmitNewTable(f, l) ==
    LET d == LocalOperand(f, l)
    IN  CallCreate(d.value) \o Move(d.type, Imm(Table), 0)

-----------------------------------------------------------------------------
\* x_frame, for a store: those words of n locals that are in registers, from the
\* last local down, a value before its type.  Registers end within the frame.
SaveFrameLimit(f, first, n) ==
    LET end == IF f < 2 * (first + n) THEN f ELSE 2 * (first + n)
        swap(k) == IF k % 2 = 1 THEN k - 1 ELSE IF k + 1 < end THEN k + 1 ELSE k
    IN  [i \in 1..(end - 2 * first) |->
            Copy(Mem(FrameWord(swap(end - i))), Reg(Register(swap(end - i))))]

\* emit_setlist: n values from the stack, as the items of a block.
EmitSetList(f, t, n, block) ==
    LET base == Reg(Temp(0))
    IN  SaveFrameLimit(f, t + 1, n)
        \o AddressOf(base, StackOperand(f, t + 1).value)
        \o CallSetList(LocalOperand(f, t).value, base, (block - 1) * FieldsPerFlush, n)
=============================================================================
