---------------------------- MODULE MCTableCalls ----------------------------
(* Compiled code calls a C function on a table.  First the call is made:   *)
(* every way to have up to five operands in four argument registers, then  *)
(* what the function does with the table, and what follows.  The tables    *)
(* are used with number keys; with string keys of which two are the same   *)
(* text; with two numbers and the boolean true, whose word is that of the  *)
(* number 1; and with two strings and two numbers, one of which happens to *)
(* be an address.  All the tables are looked at after one of the calls,    *)
(* and one table after the others.                                         *)
EXTENDS StaticCall, Dictionary

MCNumbers == {NumberKey(n) : n \in 1..3}
MCStrings == {[t |-> "string", w |-> a] : a \in 100..102}
MCOthers == {NumberKey(1), NumberKey(2), [t |-> "other", w |-> 1]}
MCMixed == {[t |-> "string", w |-> 100], [t |-> "string", w |-> 101],
            NumberKey(1), NumberKey(102)}
MCUses == {MCNumbers, MCStrings, MCOthers, MCMixed}
MCText == [a \in 100..102 |-> IF a = 102 THEN "y" ELSE "x"]

\* The call after which every table is looked at.
Chosen == argsz = 0

mcVars == <<staticCallVars, dictionaryVars>>

Init == StaticCallInit /\ DictionaryInit /\ (Chosen \/ keys = MCNumbers)

Next ==
    \/ StaticCallNext /\ UNCHANGED dictionaryVars
    \/ /\ phase = "called" /\ Chosen /\ call[1].site = 0 /\ call[1].fn = 0
       /\ DictionaryNext
       /\ UNCHANGED staticCallVars

Spec == Init /\ [][Next]_mcVars /\ WF_staticCallVars(StaticCallNext)
=============================================================================
