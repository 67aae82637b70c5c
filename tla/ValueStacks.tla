----------------------------- MODULE ValueStacks ----------------------------
(***************************************************************************)
(* What the C API promises: every active C function has a list of values   *)
(* of its own, which starts with its arguments; a call replaces a function *)
(* and its arguments, at the end of a list, by exactly as many results as  *)
(* were asked for, in order.  A result beyond the places of the function   *)
(* and its arguments may be lost.                                          *)
(***************************************************************************)
EXTENDS Integers, Sequences

CONSTANTS MinStack, MaxDepth, MaxValues, Number, CFun, LFun, Nil, Name

VARIABLES
    genv,      \* the globals
    frames,    \* the active functions, each with a list of values
    results,   \* what a function has returned: at most one list
    status

vars == <<genv, frames, results, status>>

Depth == Len(frames)
list == frames[Depth].list
Running == status = "running" /\ results = <<>>
InC == Running /\ frames[Depth].kind # "lua"
InLua == Running /\ frames[Depth].kind = "lua"

Lists(n, S) == UNION {[1..k -> S] : k \in 0..n}
Becomes(l) == frames' = [frames EXCEPT ![Depth].list = l]
Fails == status' = "aborted" /\ UNCHANGED <<genv, frames, results>>
Front(l) == SubSeq(l, 1, Len(l) - 1)
Last(l) == l[Len(l)]

Init ==
    /\ genv = [var \in Name |-> Nil]
    /\ frames = <<[kind |-> "host", list |-> <<>>, base |-> 0, nresults |-> 0]>>
    /\ results = <<>>
    /\ status = "running"

-----------------------------------------------------------------------------
Push ==
    /\ InC
    /\ Len(list) < MinStack
    /\ \E v \in Number \cup {CFun} : Becomes(Append(list, v))
    /\ UNCHANGED <<genv, results, status>>

Pop ==
    /\ InC
    /\ list # <<>>
    /\ Becomes(Front(list))
    /\ UNCHANGED <<genv, results, status>>

\* A list is cut, or filled with nil.
SetTop ==
    /\ InC
    /\ \E n \in 0..MinStack :
            Becomes([i \in 1..n |-> IF i <= Len(list) THEN list[i] ELSE Nil])
    /\ UNCHANGED <<genv, results, status>>

SetGlobal ==
    /\ InC
    /\ list # <<>>
    /\ \E var \in Name : genv' = [genv EXCEPT ![var] = Last(list)]
    /\ Becomes(Front(list))
    /\ UNCHANGED <<results, status>>

GetGlobal ==
    /\ InC
    /\ Len(list) < MinStack
    /\ \E var \in Name : Becomes(Append(list, genv[var]))
    /\ UNCHANGED <<genv, results, status>>

-----------------------------------------------------------------------------
Begin(base, n, kind, args) ==
    /\ Depth < MaxDepth
    /\ Len(args) <= MinStack
    /\ frames' = Front(frames) \o
            <<[frames[Depth] EXCEPT !.base = base, !.nresults = n],
              [kind |-> kind, list |-> args, base |-> 0, nresults |-> 0]>>
    /\ UNCHANGED <<genv, results, status>>

Call ==
    /\ InC
    /\ \E base \in 1..Len(list), n \in 0..MinStack :
        /\ list[base] \in {CFun, LFun}
        /\ Begin(base, n, IF list[base] = CFun THEN "c" ELSE "lua", SubSeq(list, base + 1, Len(list)))

Execute == InC /\ Depth = 1 /\ Begin(0, 0, "lua", <<>>)

LuaDefines ==
    /\ InLua
    /\ \E var \in Name : genv' = [genv EXCEPT ![var] = LFun]
    /\ UNCHANGED <<frames, results, status>>

LuaCalls ==
    /\ InLua
    /\ \E args \in Lists(MaxValues, Number \cup {CFun}) : Begin(0, 0, "c", args)

\* A C function returns the last values of its list, a Lua function any.
Return ==
    /\ Running
    /\ Depth > 1
    /\ \/ frames[Depth].kind = "c"
          /\ \E n \in 1..Len(list) : results' = <<SubSeq(list, Len(list) - n + 1, Len(list))>>
       \/ frames[Depth].kind = "lua"
          /\ \E l \in Lists(MaxValues, Number \cup {CFun}) : results' = <<l>>
    /\ frames' = Front(frames)
    /\ UNCHANGED <<genv, status>>

LuaTakes ==
    /\ status = "running" /\ results # <<>> /\ frames[Depth].kind = "lua"
    /\ Becomes(results[1])
    /\ results' = <<>>
    /\ UNCHANGED <<genv, status>>

\* Results in the places of the function and its arguments arrive.
Given(l, i) == IF i <= Len(l) THEN l[i] ELSE Nil
Arrived(l, n, lost) == [i \in 1..n |-> IF i \in lost THEN Nil ELSE Given(l, i)]

ApiTakes ==
    /\ status = "running" /\ results # <<>> /\ frames[Depth].base > 0
    /\ LET f == frames[Depth]
           places == Len(f.list) - f.base + 1
       IN  /\ f.base + f.nresults - 1 <= MinStack
           /\ \E lost \in SUBSET ((places + 1)..f.nresults) :
                frames' = [frames EXCEPT ![Depth] =
                    [@ EXCEPT !.base = 0, !.nresults = 0,
                        !.list = SubSeq(f.list, 1, f.base - 1) \o Arrived(results[1], f.nresults, lost)]]
    /\ results' = <<>>
    /\ UNCHANGED <<genv, status>>

Executed ==
    /\ status = "running" /\ results # <<>> /\ Depth = 1 /\ frames[1].base = 0
    /\ results' = <<>>
    /\ UNCHANGED <<genv, frames, status>>

\* What stops the program: a list that is full, a C function without results
\* and, as arguments or results, more values than a list can have.
Abort ==
    /\ \/ InC /\ Len(list) = MinStack
       \/ Running /\ frames[Depth].kind = "c"
       \/ InLua /\ MaxValues > MinStack
       \/ /\ status = "running" /\ results # <<>>
          /\ frames[Depth].base + frames[Depth].nresults - 1 > MinStack
    /\ Fails

Next ==
    \/ Push \/ Pop \/ SetTop \/ SetGlobal \/ GetGlobal
    \/ Call \/ Execute \/ LuaDefines \/ LuaCalls \/ Return \/ LuaTakes \/ ApiTakes \/ Executed \/ Abort

Spec == Init /\ [][Next]_vars
=============================================================================
