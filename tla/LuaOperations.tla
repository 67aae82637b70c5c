--------------------------- MODULE LuaOperations ----------------------------
(***************************************************************************)
(* What the instructions that compute, compare, loop, and read and write   *)
(* upvalues and tables promise: each changes the local, the upvalue or the *)
(* table it names, or decides whether to skip, in one step.                *)
(* Words overflow.  Comparisons of numbers go by the sign of a difference, *)
(* so the decision is promised when the difference is a word, and for the  *)
(* negated forms when the numbers are not equal.  Reads check that they    *)
(* are of a table; stores do not.                                          *)
(***************************************************************************)
EXTENDS Words

LOCAL INSTANCE TLC

CONSTANTS Numeric, Addresses, FieldsPerFlush, Program, Starts(_)

VARIABLES
    ins,       \* the instruction, or the loop
    turning,   \* the loop has been prepared
    var,       \* the locals
    up,        \* the upvalues
    heap,      \* the tables, each a function of keys
    jumped,    \* the next instruction is skipped
    status

vars == <<ins, turning, var, up, heap, jumped, status>>

Number == 0
String == 4
Table == 5
nil == [type |-> 3, word |-> 0]
Of(o) == IF o.islocal THEN var[o.index] ELSE [type |-> o.type, word |-> o.word]
BothNumbers(x, y) == x.type = Number /\ y.type = Number
Counts(x) == x.type = Number \/ (x.type # Table /\ x.word \in Numeric)

Meaning(op, a, b) ==
    CASE op = "add" -> {Wrap(a + b)}
      [] op = "sub" -> {Wrap(a - b)}
      [] op = "mul" -> {Wrap(a * b)}
      [] op = "div" -> IF b = 0 THEN Word ELSE {Wrap(Quotient(a, b))}
      [] op = "mod" -> IF b = 0 THEN Word ELSE {Remainder(a, b)}

\* Any two values are equal or not; of others, numbers and strings have an order.
Comparable(rel, x, y) == rel = "eq" \/ (x.type = y.type /\ x.type \in {Number, String})

Compares(rel, x, y) ==
    CASE rel = "eq" -> x = y
      [] rel = "lt" -> x.word < y.word
      [] rel = "le" -> x.word <= y.word

Promised(rel, pred, x, y) ==
    \/ rel = "eq"
    \/ ~BothNumbers(x, y)
    \/ x.word - y.word \in Word /\ ~(pred /\ x.word = y.word)

Decisions(rel, pred, x, y) ==
    IF Promised(rel, pred, x, y) THEN {Compares(rel, x, y) # pred} ELSE BOOLEAN

-----------------------------------------------------------------------------
Init ==
    /\ ins \in Program
    /\ \E state \in Starts(ins) : var = state.local /\ up = state.up /\ heap = state.heap
    /\ turning = FALSE
    /\ jumped = FALSE
    /\ status = "next"

Finish(s) == status = "next" /\ status' = s

\* Both operands are numbers or strings that can be read as numbers.
Arith ==
    /\ ins.kind = "arith"
    /\ Counts(Of(ins.s)) /\ Counts(Of(ins.t))
    /\ \E w \in Meaning(ins.op, Of(ins.s).word, Of(ins.t).word) :
            var' = [var EXCEPT ![ins.d] = [type |-> Number, word |-> w]]
    /\ Finish("done")
    /\ UNCHANGED <<ins, turning, up, heap, jumped>>

Compare ==
    /\ ins.kind = "compare"
    /\ Comparable(ins.rel, Of(ins.s), Of(ins.t))
    /\ jumped' \in Decisions(ins.rel, ins.pred, Of(ins.s), Of(ins.t))
    /\ Finish("done")
    /\ UNCHANGED <<ins, turning, var, up, heap>>

Move ==
    /\ ins.kind = "move"
    /\ var' = [var EXCEPT ![ins.d] = Of(ins.s)]
    /\ Finish("done")
    /\ UNCHANGED <<ins, turning, up, heap, jumped>>

\* One step back before the first turn.
ForPrep ==
    /\ ins.kind = "for" /\ ~turning
    /\ status = "next"
    /\ Counts(var[ins.d]) /\ Counts(var[ins.d + 2])
    /\ var' = [var EXCEPT ![ins.d] =
                [type |-> Number, word |-> Wrap(@.word - var[ins.d + 2].word)]]
    /\ turning' = TRUE
    /\ UNCHANGED <<ins, up, heap, jumped, status>>

\* A loop that counts up ends after the last number that is not above the
\* limit, also if the next one is not a word.
ForLoop ==
    /\ ins.kind = "for" /\ turning
    /\ status = "next"
    /\ LET step == var[ins.d + 2].word
           limit == var[ins.d + 1].word
           next == var[ins.d].word + step
           turn == [type |-> Number, word |-> Wrap(next)]
       IN  /\ var' = [var EXCEPT ![ins.d] = turn, ![ins.d + 3] = turn]
           /\ \E go \in IF step > 0 /\ next - limit \in Word THEN {next <= limit} ELSE BOOLEAN :
                status' = IF go THEN "next" ELSE "done"
    /\ UNCHANGED <<ins, turning, up, heap, jumped>>

-----------------------------------------------------------------------------
GetUpval ==
    /\ ins.kind = "getupval"
    /\ var' = [var EXCEPT ![ins.d] = up[ins.u]]
    /\ Finish("done")
    /\ UNCHANGED <<ins, turning, up, heap, jumped>>

SetUpval ==
    /\ ins.kind = "setupval"
    /\ up' = [up EXCEPT ![ins.u] = Of(ins.s)]
    /\ Finish("done")
    /\ UNCHANGED <<ins, turning, var, heap, jumped>>

\* The value that an instruction looks up or stores something in.
Indexed == IF ins.kind \in {"gettabup", "settabup"} THEN up[ins.u] ELSE var[ins.t]
Element(t, k) == IF k \in DOMAIN heap[t] THEN heap[t][k] ELSE nil

Index ==
    /\ ins.kind \in {"gettable", "gettabup"}
    /\ Indexed.type = Table
    /\ var' = [var EXCEPT ![ins.d] = Element(Indexed.word, Of(ins.k))]
    /\ Finish("done")
    /\ UNCHANGED <<ins, turning, up, heap, jumped>>

Self ==
    /\ ins.kind = "self"
    /\ Indexed.type = Table
    /\ var' = [var EXCEPT ![ins.d + 1] = Indexed, ![ins.d] = Element(Indexed.word, Of(ins.k))]
    /\ Finish("done")
    /\ UNCHANGED <<ins, turning, up, heap, jumped>>

\* New items take the place of those with the same keys.  A value that is no
\* table is taken for one if it has the address of a table.
Stores == {"settable", "settabup", "setlist"}
Update(t, items) == heap' = [heap EXCEPT ![t] = items @@ @]

SetIndex ==
    /\ ins.kind \in {"settable", "settabup"}
    /\ Indexed.word \in DOMAIN heap
    /\ Update(Indexed.word, Of(ins.k) :> Of(ins.s))
    /\ Finish("done")
    /\ UNCHANGED <<ins, turning, var, up, jumped>>

SetList ==
    /\ ins.kind = "setlist"
    /\ Indexed.word \in DOMAIN heap
    /\ LET before == (ins.block - 1) * FieldsPerFlush
           keys == {[type |-> Number, word |-> before + i] : i \in 1..ins.n}
       IN  Update(Indexed.word, [k \in keys |-> var[ins.t + k.word - before]])
    /\ Finish("done")
    /\ UNCHANGED <<ins, turning, var, up, jumped>>

\* Nothing is promised of memory that has no table where one is stored to.
Astray ==
    /\ ins.kind \in Stores
    /\ Indexed.word \notin DOMAIN heap
    /\ Finish("astray")
    /\ UNCHANGED <<ins, turning, var, up, heap, jumped>>

NewTable ==
    /\ ins.kind = "newtable"
    /\ \E t \in Addresses \ DOMAIN heap :
            /\ heap' = (t :> [k \in {} |-> nil]) @@ heap
            /\ var' = [var EXCEPT ![ins.d] = [type |-> Table, word |-> t]]
    /\ Finish("done")
    /\ UNCHANGED <<ins, turning, up, jumped>>

-----------------------------------------------------------------------------
\* No code is made for some constants; two locals are always accepted.
Refuse ==
    /\ ins.kind \in {"arith", "compare"}
    /\ ~ins.s.islocal \/ (ins.kind = "compare" /\ ~ins.t.islocal)
    /\ Finish("aborted")
    /\ UNCHANGED <<ins, turning, var, up, heap, jumped>>

Error ==
    /\ \/ ins.kind = "arith" /\ ~(Counts(Of(ins.s)) /\ Counts(Of(ins.t)))
       \/ ins.kind \in {"gettable", "gettabup", "self"} /\ Indexed.type # Table
       \/ ins.kind = "compare" /\ ~Comparable(ins.rel, Of(ins.s), Of(ins.t))
    /\ Finish("error")
    /\ UNCHANGED <<ins, turning, var, up, heap, jumped>>

Next ==
    \/ Arith \/ Compare \/ Move \/ ForPrep \/ ForLoop
    \/ GetUpval \/ SetUpval \/ Index \/ Self \/ SetIndex \/ SetList \/ Astray \/ NewTable
    \/ Refuse \/ Error

Spec == Init /\ [][Next]_vars
=============================================================================
