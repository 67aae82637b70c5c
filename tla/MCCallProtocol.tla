-------------------------- MODULE MCCallProtocol ---------------------------
(***************************************************************************)
(* Two Lua functions, one with two locals and one with one, and one C      *)
(* function.                                                               *)
(***************************************************************************)
EXTENDS CallProtocol, TLC

CONSTANTS F, G, C

MCLuaFn == {F, G}
MCCFn == {C}
MCNrLocals == (F :> 3) @@ (G :> 1)
MCNrParams == (F :> 2) @@ (G :> 1)

\* F: local 1 is called for all its results, which are the arguments of local 0
\* or the last results of F; local 2 is called for one.
\* G: local 0 is called for one.
MCCalls ==
    (F :> {[base |-> 1, narg |-> 2, nret |-> 0], [base |-> 0, narg |-> 0, nret |-> 1],
           [base |-> 2, narg |-> 1, nret |-> 2]}) @@
    (G :> {[base |-> 0, narg |-> 1, nret |-> 2]})
MCReturns ==
    (F :> {[base |-> 0, nret |-> 0], [base |-> 1, nret |-> 3]}) @@
    (G :> {[base |-> 0, nret |-> 2], [base |-> 1, nret |-> 1]})
=============================================================================
