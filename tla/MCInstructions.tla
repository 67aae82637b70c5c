--------------------------- MODULE MCInstructions ---------------------------
(* Words of four bits with immediates of three.  Constants are two powers  *)
(* of two, one that is not, one that fits only itself, one that fits only  *)
(* negated, one that does not fit, zero, and a string.  One table has two  *)
(* numbers for keys, and another one a string.  A number has the address   *)
(* of a table, other values that are no table have not.                    *)
EXTENDS Instructions, TLC

Num(w) == [type |-> Number, word |-> w]
Str(w) == [type |-> String, word |-> w]
Const(x) == [islocal |-> FALSE, type |-> x.type, word |-> x.word]

Constants == {Const(Num(w)) : w \in {-8, -4, 0, 1, 2, 3, 4}} \cup {Const(Str(1))}
Operands == {OfLocal(0), OfLocal(1)} \cup Constants
Nothing == [type |-> Nil, word |-> 0]
Tab(w) == [type |-> Table, word |-> w]
Data == {Num(w) : w \in {-8, -3, 0, 3, 7}} \cup {Str(1), Str(2)}

Ariths == {[kind |-> "arith", op |-> op, d |-> d, s |-> s, t |-> t] :
    op \in {"add", "sub", "mul", "div", "mod"}, d \in {0, 1}, s \in Operands, t \in Operands}
Compares == {[kind |-> "compare", rel |-> rel, pred |-> pred, s |-> s, t |-> t] :
    rel \in {"eq", "lt", "le"}, pred \in BOOLEAN, s \in Operands, t \in Operands}
Moves == {[kind |-> "move", d |-> d, s |-> s] : d \in {0, 1}, s \in Operands}

Tables ==
    (5 :> (Num(1) :> Str(2) @@ Num(3) :> Tab(6))) @@ (6 :> (Str(2) :> Num(-3)))

Keys == {OfLocal(0), OfLocal(1), Const(Num(3)), Const(Str(2))}
Sources == {OfLocal(0), OfLocal(1), Const(Num(-8))}

\* GETTABUP with its destination for a key is left out (R(0) := up[R(0)]), and
\* SETTABUP is decoded with upvalue 0.  The key of SELF is a constant, or in the
\* register after the two that are assigned.
TablePrograms ==
    [kind : {"getupval"}, d : {0, 1}, u : Upval]
    \cup [kind : {"setupval"}, s : Sources, u : Upval]
    \cup [kind : {"gettable"}, d : {0, 1}, t : {0, 1}, k : Keys]
    \cup {i \in [kind : {"gettabup"}, d : {0, 1}, u : Upval, k : Keys] : i.k # OfLocal(i.d)}
    \cup {i \in [kind : {"self"}, d : {0, 1}, t : {0, 1}, k : {Const(Str(2)), OfLocal(2), OfLocal(3)}] :
            i.t <= i.d /\ (i.k.islocal => i.k.index = i.d + 2)}
    \cup [kind : {"settable"}, t : {0, 1}, k : Keys, s : Sources]
    \cup [kind : {"settabup"}, u : {0}, k : Keys, s : Sources]
    \cup [kind : {"newtable"}, d : {0, 1}]
    \cup [kind : {"setlist"}, t : {0, 1}, n : {1, 2}, block : {1, 2}]

\* A variable that is compared with itself is left out (x < x in a register).
MCProgram ==
    Ariths \cup {i \in Compares : i.s # i.t} \cup Moves \cup {[kind |-> "for", d |-> 0]}
    \cup TablePrograms

\* Locals that an instruction does not read start from one value only.
Start(first, second, others) ==
    {[l \in Local |-> CASE l = 0 -> a [] l = 1 -> b [] l = 2 -> c [] OTHER -> Num(7)] :
        a \in first, b \in second, c \in others}
Arithmetical(i) == i.kind \in {"arith", "compare", "move"}
Reads(i, l) ==
    \/ \E field \in DOMAIN i \cap {"s", "k"} : i[field] = OfLocal(l)
    \/ "t" \in DOMAIN i /\ IF Arithmetical(i) THEN i.t = OfLocal(l) ELSE i.t = l
Choice(i, l, data) == IF Reads(i, l) THEN data ELSE {Str(2)}

\* No key is looked for in a table with keys of another type: how that ends is
\* the business of the module Dictionary.
Fits(i, x) ==
    LET t == IF "u" \in DOMAIN i THEN x.up[i.u] ELSE x.local[i.t]
        key == IF i.kind = "setlist" THEN Num(1)
               ELSE IF i.k.islocal THEN x.local[i.k.index] ELSE [type |-> i.k.type, word |-> i.k.word]
    IN  t.word \in DOMAIN Tables => \A k \in DOMAIN Tables[t.word] : k.type = key.type

\* What is compared may be of any type.  A negative number is not divided by a
\* constant power of two that leaves a remainder: the shift rounds down.
Compared == (Data \ {Num(3)}) \cup {Nothing, Tab(5)}
Shifted(i) == i.kind = "arith" /\ i.op = "div" /\ i.t \in {Const(Num(2)), Const(Num(4))}
DataOf(i) ==
    IF i.kind = "compare" THEN Compared
    ELSE IF Shifted(i) THEN Data \ {Num(-3)} ELSE Data

MCStarts(i) ==
    CASE i.kind = "for" ->
            [local : Start({Num(w) : w \in Word}, {Num(w) : w \in Word}, {Num(-1), Num(1), Num(2)}),
             up : [Upval -> {Str(2)}], heap : {[t \in {} |-> 0]}]
      [] Arithmetical(i) ->
            [local : Start(Choice(i, 0, DataOf(i)), Choice(i, 1, DataOf(i)), {Num(0)}),
             up : [Upval -> {Str(2)}], heap : {[t \in {} |-> 0]}]
      [] OTHER ->
            LET data == {Tab(5), Tab(6), Num(5), Str(2), Nothing}
                starts == [local : Start(Choice(i, 0, data), Choice(i, 1, data), {Str(2)}),
                           up : [Upval -> IF "u" \in DOMAIN i THEN {Tab(5), Tab(6), Num(-3)} ELSE {Str(2)}], heap : {Tables}]
            IN  IF i.kind \in {"getupval", "setupval", "newtable"} THEN starts
                ELSE {x \in starts : Fits(i, x)}
MCNumeric == {1}
MCAddresses == {5, 6, 7}
MCSpareRegs == {0, 1, 2, 3, 8}
=============================================================================
