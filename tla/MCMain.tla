------------------------------- MODULE MCMain -------------------------------
(***************************************************************************)
(* Programs of up to four functions, one of them three deep, with names    *)
(* shorter and longer than the buffer; some cannot be compiled.  Letters   *)
(* and opcodes are numbers.                                                *)
(***************************************************************************)
EXTENDS Main

LoadK == 1
MakeClosure == 37
Return == 31
Vararg == 38
MCOpcodes == {LoadK, MakeClosure, Return}

Num(n) == [tag |-> 3, number |-> n]
Str(s) == [tag |-> 4, text |-> s]
Bool == [tag |-> 1, number |-> 1]

Function(code, constants, kids, upvalues, locals) ==
    [numparams |-> Len(locals), maxstacksize |-> 2, code |-> code, constants |-> constants, kids |-> kids,
     upvalues |-> upvalues, source |-> <<64, 65, 66, 0>>, lines |-> [i \in DOMAIN code |-> i],
     locals |-> locals, names |-> [i \in DOMAIN upvalues |-> <<65, 0>>]]

Small == Function(<<<<Return, 0>>>>, <<>>, <<>>, <<>>, <<<<65, 0>>>>)
Nested == Function(<<<<LoadK, 0>>, <<MakeClosure, 1>>, <<Return, 0>>>>, <<Num(7), Str(<<65, 66, 67, 0>>)>>,
                   <<3, 4>>, <<10, 11>>, <<<<65, 66, 67, 68, 0>>, <<>>>>)
Runs == <<Function(<<<<MakeClosure, 0>>, <<Return, 0>>>>, <<Str(<<>>)>>, <<2>>, <<10>>, <<>>), Nested, Small, Small>>
NoUpvalue == <<Small>>
Boolean == <<Function(<<<<Return, 0>>>>, <<Num(1), Bool>>, <<>>, <<10>>, <<>>)>>
Unsupported == <<Function(<<<<Vararg, 0>>>>, <<>>, <<>>, <<10>>, <<>>)>>
NoFunction == <<Function(<<<<MakeClosure, 1>>>>, <<>>, <<2>>, <<10>>, <<>>), Small>>
MCChunks == {Runs, NoUpvalue, Boolean, Unsupported, NoFunction}
=============================================================================
