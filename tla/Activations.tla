----------------------------- MODULE Activations ----------------------------
(***************************************************************************)
(* What the call protocol of xlogue.c promises: a stack of activations of  *)
(* Lua functions, each with its own locals.  An activation keeps its       *)
(* locals below `top'; whatever it has above top may be lost at any call   *)
(* or return.  A call passes arguments, and a return results, in order, to *)
(* and from locals below top.  What a parameter without an argument and a  *)
(* result that was not returned are is left open.                          *)
(***************************************************************************)
EXTENDS Integers, Sequences

CONSTANTS
    NrLocals,   \* NrLocals[f]: locals of function f
    NrParams    \* NrParams[f]: how many of them are parameters

VARIABLES
    acts,       \* the activations: function, locals, top, whether the topmost
                \* locals are results of a number not known before, and in
                \* one that has called, where it wants how many results
    passing     \* what is being passed to or from a function

vars == <<acts, passing>>

Idle == [kind |-> "nothing"]
Last == acts[Len(acts)]

\* An activation keeps what it has below top.
Keeps(a, b) ==
    /\ b.fn = a.fn /\ b.top = a.top /\ b.site = a.site
    /\ \A i \in 0..(a.top - 1) : b.locals[i] = a.locals[i]

\* So does what is passed from its locals, first of them number `from'.
PassedOn(vals, vals2, from, top) ==
    /\ Len(vals2) = Len(vals)
    /\ \A j \in 1..Len(vals) : from + j - 1 < top => vals2[j] = vals[j]

\* All but the last k activations keep what they have.
OthersKept(k) == \A d \in 1..(Len(acts) - k) : Keeps(acts[d], acts'[d])

Init ==
    \E f \in DOMAIN NrLocals :
        /\ Len(acts) = 1
        /\ Last.fn = f /\ Last.top = NrLocals[f] /\ ~Last.open
        /\ passing = Idle

\* An instruction other than a call or a return needs no results to be used up.
\* What it assigns may be above the top of other activations.
Assign ==
    /\ passing = Idle /\ passing' = Idle /\ ~Last.open
    /\ Len(acts') = Len(acts) /\ OthersKept(1)
    /\ \E i \in DOMAIN Last.locals :
          acts'[Len(acts)] = [Last EXCEPT !.locals[i] = acts'[Len(acts)].locals[i]]

\* Locals from one on: up to top if it includes open results.
Takes(vals, from) ==
    /\ \A j \in 1..Len(vals) :
          /\ from + j - 1 \in DOMAIN Last.locals
          /\ vals[j] = Last.locals[from + j - 1]
    /\ Last.open => from + Len(vals) = Last.top

\* A function in a local is called with the locals that follow it.
Call ==
    /\ passing = Idle
    /\ passing'.kind = "call"
    /\ Takes(passing'.vals, passing'.slot + 1)
    /\ acts' = [acts EXCEPT ![Len(acts)].site = acts'[Len(acts)].site,
                            ![Len(acts)].open = FALSE]
    /\ acts'[Len(acts)].site.base = passing'.slot

\* Time passes while arguments are on their way.
Lose ==
    /\ passing.kind = "call" /\ passing'.kind = "call"
    /\ passing'.slot = passing.slot
    /\ passing.slot < Last.top => passing'.fn = passing.fn
    /\ PassedOn(passing.vals, passing'.vals, passing.slot + 1, Last.top)
    /\ Len(acts') = Len(acts) /\ OthersKept(0)

\* The callee finds the arguments it has parameters for in its first locals.
Enter ==
    /\ passing.kind = "call"
    /\ passing' = Idle
    /\ Len(acts') = Len(acts) + 1
    /\ OthersKept(0)
    /\ LET callee == acts'[Len(acts) + 1]
       IN  /\ passing.slot < Last.top => callee.fn = passing.fn
           /\ callee.top = NrLocals[callee.fn] /\ ~callee.open
           /\ \A j \in 1..Len(passing.vals) :
                 j <= NrParams[callee.fn] /\ passing.slot + j < Last.top
                    => callee.locals[j - 1] = passing.vals[j]

\* A C function is called and has returned.
CallC ==
    /\ passing.kind = "call" /\ passing'.kind = "return"
    /\ Len(acts') = Len(acts) /\ OthersKept(0)

\* The results are locals of the function that returns.
Leave ==
    /\ passing = Idle
    /\ passing'.kind = "leave"
    /\ Takes(passing'.vals, passing'.slot)
    /\ acts' = [acts EXCEPT ![Len(acts)].open = FALSE]

Return ==
    /\ passing.kind = "leave" /\ passing'.kind = "return"
    /\ PassedOn(passing.vals, passing'.vals, passing.slot, Last.top)
    /\ Len(acts') = Len(acts) - 1 /\ Len(acts) > 1
    /\ OthersKept(1)

\* The main chunk returns.
Finish ==
    /\ passing.kind = "leave" /\ Len(acts) = 1
    /\ acts' = <<>> /\ passing' = Idle

\* The caller asked for a number of results and gets those of them there are,
\* if it had the function in a local that it keeps.
ResumeFixed ==
    LET last == acts'[Len(acts)]
        want == Last.site.nret - 1
        got  == IF Len(passing.vals) < want THEN Len(passing.vals) ELSE want
        base == Last.site.base
    IN  /\ passing.kind = "return" /\ passing' = Idle
        /\ Last.site.nret > 0
        /\ Len(acts') = Len(acts) /\ OthersKept(1)
        /\ last.fn = Last.fn /\ last.top = Last.top /\ ~last.open
        /\ base < Last.top =>
              \A j \in 1..got : last.locals[base + j - 1] = passing.vals[j]
        /\ \A i \in 0..(Last.top - 1) :
              i \notin base..(base + want - 1) => last.locals[i] = Last.locals[i]

\* It asked for all of them, and gets them as its topmost locals.
ResumeOpen ==
    LET last == acts'[Len(acts)]
        base == Last.site.base
    IN  /\ passing.kind = "return" /\ passing' = Idle
        /\ Last.site.nret = 0
        /\ Len(acts') = Len(acts) /\ OthersKept(1)
        /\ last.fn = Last.fn /\ last.top = base + Len(passing.vals) /\ last.open
        /\ base < Last.top =>
              \A j \in 1..Len(passing.vals) : last.locals[base + j - 1] = passing.vals[j]
        /\ \A i \in 0..(Last.top - 1) : i < base => last.locals[i] = Last.locals[i]

Next ==
    \/ Assign \/ Call \/ Lose \/ Enter \/ CallC
    \/ Leave \/ Return \/ Finish \/ ResumeFixed \/ ResumeOpen

Spec == Init /\ [][Next]_vars
=============================================================================
