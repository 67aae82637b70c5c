--------------------------- MODULE PrivateLocals ----------------------------
(***************************************************************************)
(* What registers and stack words promise to generated code: every running *)
(* function has locals of its own, which only its own instructions and the *)
(* results of its calls change.  Word p of a function is the value (p      *)
(* even) or the type (p odd) of its local p \div 2.                        *)
(***************************************************************************)
EXTENDS Integers, Sequences

CONSTANTS
    Word,
    MaxLocals

VARIABLES
    locals,    \* [n, words] of the running functions, the innermost last
    done       \* the instruction executed last

WordsOf(n) == 0..(2 * n - 1)
Top == locals[Len(locals)]

\* k locals of src, from local a on, as the locals b .. b+k-1 of dst.
Copied(dst, b, src, a, k) ==
    [p \in DOMAIN dst |->
        IF p \in (2 * b)..(2 * (b + k) - 1) THEN src[p - 2 * b + 2 * a] ELSE dst[p]]

Init ==
    /\ \E n \in 1..MaxLocals : \E w \in [WordsOf(n) -> Word] :
          locals = <<[n |-> n, words |-> w]>>
    /\ done = <<"start">>

SetWord(p, w) ==
    /\ done' = <<"word", p, w>>
    /\ locals' = [locals EXCEPT ![Len(locals)].words[p] = w]

SetLocal(i, v, t) ==
    /\ done' = <<"local", i, v, t>>
    /\ locals' = [locals EXCEPT ![Len(locals)].words[2 * i] = v,
                                ![Len(locals)].words[2 * i + 1] = t]

SetNothing ==
    /\ done' = <<"nothing">>
    /\ UNCHANGED locals

\* A function of n locals is called with the k locals from a on as its first;
\* its other locals are not initialised.
Call(n, a, k) ==
    LET callee == locals'[Len(locals) + 1]
    IN  /\ done' = <<"call", n, a, k>>
        /\ Len(locals') = Len(locals) + 1
        /\ SubSeq(locals', 1, Len(locals)) = locals
        /\ callee.n = n
        /\ callee.words \in [WordsOf(n) -> Word]
        /\ callee.words = Copied(callee.words, 0, Top.words, a, k)

\* It returns the k locals from b on, which become those from a on of its
\* caller.
Return(b, a, k) ==
    LET d == Len(locals) - 1
    IN  /\ done' = <<"return", b, a, k>>
        /\ locals' = [SubSeq(locals, 1, d) EXCEPT
                         ![d].words = Copied(locals[d].words, a, Top.words, b, k)]

Next ==
    \/ \E p \in WordsOf(Top.n), w \in Word : SetWord(p, w)
    \/ \E i \in 0..(Top.n - 1), v, t \in Word : SetLocal(i, v, t)
    \/ SetNothing
    \/ \E n \in 1..MaxLocals : \E k \in 0..n : \E a \in 0..(Top.n - k) : Call(n, a, k)
    \/ /\ Len(locals) > 1
       /\ \E k \in 0..Top.n : \E b \in 0..(Top.n - k) :
             \E a \in 0..(locals[Len(locals) - 1].n - k) : Return(b, a, k)

Spec == Init /\ [][Next]_<<locals, done>>
=============================================================================
