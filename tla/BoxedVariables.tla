--------------------------- MODULE BoxedVariables ---------------------------
(***************************************************************************)
(* What closures promise: a local variable that some closure captures is   *)
(* in effect kept in a box, shared by the activation that declared it and  *)
(* by every closure that captured it, for as long as any of them lives.    *)
(***************************************************************************)
EXTENDS Integers, Sequences

CONSTANTS
    Value,
    Local,      \* the locals of an activation
    Arities,    \* how many upvalues a closure may have
    Levels      \* first locals of the blocks that a program leaves

VARIABLES
    frames,     \* activations: the running closure, and its locals
    box,        \* contents of the boxes
    closures    \* closures[c]: the boxes captured by closure c

vars == <<frames, box, closures>>

Direct(v) == [boxed |-> FALSE, v |-> v]
InBox(b) == [boxed |-> TRUE, b |-> b]
Fresh == [Local -> {Direct(v) : v \in Value}]

Running == frames[Len(frames)]
ValueOf(i) ==
    LET x == Running.locals[i] IN IF x.boxed THEN box[x.b] ELSE x.v

\* Closure 1, which has one box (the global environment), is running.
Init ==
    /\ \E locals \in Fresh : frames = <<[closure |-> 1, locals |-> locals]>>
    /\ box \in [1..1 -> Value]
    /\ closures = <<<<1>>>>

SetRunning(locals) == frames' = [frames EXCEPT ![Len(frames)].locals = locals]

Assign(i, v) ==
    /\ IF Running.locals[i].boxed
       THEN /\ box' = [box EXCEPT ![Running.locals[i].b] = v]
            /\ UNCHANGED frames
       ELSE /\ SetRunning([Running.locals EXCEPT ![i] = Direct(v)])
            /\ UNCHANGED box
    /\ UNCHANGED closures

\* Putting a variable in a box changes nothing that a program can see.
Box(i) ==
    /\ ~Running.locals[i].boxed
    /\ box' = Append(box, ValueOf(i))
    /\ SetRunning([Running.locals EXCEPT ![i] = InBox(Len(box) + 1)])
    /\ UNCHANGED closures

\* A captured variable is one of the activation, or one its closure captured.
Capturable ==
    {Running.locals[i].b : i \in {i \in Local : Running.locals[i].boxed}}
        \cup {closures[Running.closure][u] : u \in 1..Len(closures[Running.closure])}

MakeClosure ==
    /\ \E n \in Arities : \E bs \in [1..n -> Capturable] : closures' = Append(closures, bs)
    /\ UNCHANGED <<frames, box>>

\* Leaving a block: the boxes stay with the closures, and variables of the block
\* are new ones from here on.  Not all of them need be: those that are still
\* boxed go on sharing their box with what captures them next.
LeaveBlock(level) ==
    /\ \E S \in SUBSET {i \in Local : i >= level} :
          SetRunning([i \in Local |-> IF i \in S THEN Direct(ValueOf(i))
                                                ELSE Running.locals[i]])
    /\ UNCHANGED <<box, closures>>

Call(c) ==
    /\ \E locals \in Fresh :
          frames' = Append(frames, [closure |-> c, locals |-> locals])
    /\ UNCHANGED <<box, closures>>

Return ==
    /\ frames' = SubSeq(frames, 1, Len(frames) - 1)
    /\ UNCHANGED <<box, closures>>

GetUpval(u, i) == Assign(i, box[closures[Running.closure][u]])

SetUpval(u, i) ==
    /\ box' = [box EXCEPT ![closures[Running.closure][u]] = ValueOf(i)]
    /\ UNCHANGED <<frames, closures>>

Next ==
    /\ frames # <<>>
    /\ \/ \E i \in Local, v \in Value : Assign(i, v)
       \/ \E i \in Local : Box(i)
       \/ \E level \in Levels : LeaveBlock(level)
       \/ MakeClosure
       \/ \E c \in 1..Len(closures) : Call(c)
       \/ Return
       \/ \E i \in Local, u \in 1..Len(closures[Running.closure]) :
             GetUpval(u, i) \/ SetUpval(u, i)

Spec == Init /\ [][Next]_vars
=============================================================================
