------------------------------- MODULE CStack -------------------------------
(***************************************************************************)
(* The value stacks through which C functions and Lua functions talk       *)
(* (lapi.c, lstate.c) and the calls between them: lua_call, the bootstrap  *)
(* of generated code and ljc_invokec (xlogue.c).  A value stack is an      *)
(* array that grows downwards from its end.  main() has the one of the     *)
(* state, and each active C function one of its own, which is a local      *)
(* array of ljc_invokec.  A C function may make any calls of the API that  *)
(* it is entitled to.                                                      *)
(***************************************************************************)
EXTENDS Integers, Sequences

CONSTANTS
    MinStack,   \* LUA_MINSTACK, the size of each array
    MaxDepth,   \* bound: the number of active functions, main() included
    MaxValues,  \* bound: the number of values Lua code passes or returns
    Number,     \* numbers
    CFun,       \* a C function
    LFun,       \* a Lua function
    Nil,
    Junk,       \* what is in memory that has not been written
    Name        \* names of global variables

CStackAssumption ==
    /\ MinStack \in Nat \ {0}
    /\ MaxDepth \in Nat \ {0}
    /\ MaxValues \in Nat
    /\ {CFun, LFun, Nil, Junk} \cap Number = {}
    /\ Junk \notin {CFun, LFun, Nil}
    /\ CFun # LFun

ASSUME CStackAssumption

VARIABLES
    memory,   \* the arrays; number 0 is gstack, k the callstack of activation k
    stack,    \* L->stack: the array in use
    top,      \* L->top: the position in it of the last value
    genv,     \* the globals
    calls,    \* active functions, main() first
    ret,      \* where the results are of a function that has just returned
    status    \* "running" or "aborted"

vars == <<memory, stack, top, genv, calls, ret, status>>

Value == Number \cup {CFun, LFun, Nil}

\* Results of Lua functions are on the stack of generated code.
JitStack == -1
Size(s) == IF s = JitStack THEN MaxValues ELSE MinStack

Depth == Len(calls)
Running == status = "running" /\ ret = <<>>

\* A C function calls the API.
InC == Running /\ calls[Depth].kind # "lua"
InLua == Running /\ calls[Depth].kind = "lua"

Abort == status' = "aborted" /\ UNCHANGED <<memory, stack, top, genv, calls, ret>>

-----------------------------------------------------------------------------
\* Mutant: positions from the wrong end.
StkEntryUp(idx) == idx - 1

\* stk_entry
StkEntry(idx) == MinStack - idx

\* lua_gettop
GetTop == MinStack - top

\* Whether index2addr accepts an index, and the address.
Accepted(idx) == IF idx > 0 THEN idx <= MinStack ELSE idx # 0 /\ -idx <= GetTop + 1
Index2Addr(idx) == IF idx > 0 THEN StkEntry(idx) ELSE StkEntry(GetTop + idx + 1)

\* lua_settop for an index from the bottom: new entries are nil.
Nilled(array, idx) ==
    [p \in DOMAIN array |-> IF \E i \in (GetTop + 1)..idx : p = StkEntry(i) THEN Nil ELSE array[p]]

\* Values past the top are no longer anyone's and not kept.
Cut(array, t) == [p \in DOMAIN array |-> IF p < t THEN Junk ELSE array[p]]

\* lua_safepush
SafePush(v) ==
    IF top > 0
    THEN /\ memory' = [memory EXCEPT ![stack][top - 1] = v]
         /\ top' = top - 1
         /\ UNCHANGED <<stack, calls, ret, status>>
    ELSE Abort

\* lua_pushnumber, lua_pushcclosure
PushValue(v) == InC /\ SafePush(v) /\ UNCHANGED genv
Push == \E v \in Number \cup {CFun} : PushValue(v)

\* lua_safepop, of a stack with values
Pop ==
    /\ InC
    /\ GetTop > 0
    /\ top' = top + 1
    /\ memory' = [memory EXCEPT ![stack] = Cut(@, top + 1)]
    /\ UNCHANGED <<stack, genv, calls, ret, status>>

\* lua_settop
SetTop ==
    /\ InC
    /\ \E idx \in (-(GetTop + 1))..MinStack :
        /\ top' = IF idx = 0 THEN MinStack ELSE Index2Addr(idx)
        /\ memory' = [memory EXCEPT ![stack] =
                Cut(IF idx > 0 THEN Nilled(@, idx) ELSE @, IF idx = 0 THEN MinStack ELSE Index2Addr(idx))]
    /\ UNCHANGED <<stack, genv, calls, ret, status>>

\* lua_setglobal
SetGlobalName(var) ==
    /\ InC
    /\ GetTop > 0
    /\ genv' = [genv EXCEPT ![var] = memory[stack][top]]
    /\ top' = top + 1
    /\ memory' = [memory EXCEPT ![stack] = Cut(@, top + 1)]
    /\ UNCHANGED <<stack, calls, ret, status>>
SetGlobal == \E var \in Name : SetGlobalName(var)

\* lua_getglobal
GetGlobal ==
    /\ InC
    /\ \E var \in Name : SafePush(genv[var])
    /\ UNCHANGED genv

-----------------------------------------------------------------------------
\* Calls.  What lua_call keeps while the function runs is in `call`.
NoCall == [nresults |-> 0, base |-> 0]
Host == [kind |-> "host", oldstack |-> 0, oldtop |-> 0, call |-> NoCall, got |-> <<>>]
LuaActivation(args) ==
    [kind |-> "lua", oldstack |-> stack, oldtop |-> top, call |-> NoCall, got |-> args]
CActivation == [kind |-> "c", oldstack |-> stack, oldtop |-> top, call |-> NoCall, got |-> <<>>]

\* ljc_invokec up to the call: a new array, and the arguments pushed to it.
InvokeC(caller, args) ==
    LET k == Depth + 1
    IN  IF Len(args) > MinStack THEN Abort
        ELSE /\ stack' = k
             /\ top' = MinStack - Len(args)
             /\ memory' = [memory EXCEPT ![k] =
                    [p \in DOMAIN @ |-> IF MinStack - p \in DOMAIN args THEN args[MinStack - p] ELSE Junk]]
             /\ calls' = Append([calls EXCEPT ![Depth] = caller], CActivation)
             /\ UNCHANGED <<genv, ret, status>>

\* Generated code copies its arguments to its frame.
InvokeLua(caller, args) ==
    /\ calls' = Append([calls EXCEPT ![Depth] = caller], LuaActivation(args))
    /\ UNCHANGED <<memory, stack, top, genv, ret, status>>

\* The arguments lie below the function.
Passed(base, nargs) == [i \in 1..nargs |-> memory[stack][StkEntry(base) - i]]

\* lua_call up to the function, through bootstrap and the prologue.
Call ==
    /\ InC
    /\ Depth < MaxDepth
    /\ \E nargs \in 0..(GetTop - 1), nresults \in 0..MinStack :
        LET base == GetTop - nargs
            f == memory[stack][StkEntry(base)]
            caller == [calls[Depth] EXCEPT !.call = [nresults |-> nresults, base |-> base]]
        IN  \/ f = CFun /\ InvokeC(caller, Passed(base, nargs))
            \/ f = LFun /\ InvokeLua(caller, Passed(base, nargs))

\* execute: the main chunk.
Execute ==
    /\ InC
    /\ Depth = 1 /\ MaxDepth > 1
    /\ InvokeLua(calls[1], <<>>)

\* Generated code stores a closure in a global variable.
LuaDefines ==
    /\ InLua
    /\ \E var \in Name : genv' = [genv EXCEPT ![var] = LFun]
    /\ UNCHANGED <<memory, stack, top, calls, ret, status>>

\* Generated code calls a C function, with values of its own.
LuaCalls ==
    /\ InLua
    /\ Depth < MaxDepth
    /\ \E n \in 0..MaxValues : \E args \in [1..n -> Number \cup {CFun}] :
        InvokeC(calls[Depth], args)

-----------------------------------------------------------------------------
\* Mutant: the stack pointer of the callee is kept.
RestoredTopKept(a) == top

\* What ljc_invokec puts back.
RestoredStack(a) == a.oldstack
RestoredTop(a) == a.oldtop

\* ljc_invokec after the call.  No results is an index that is refused.
CReturns ==
    /\ InC
    /\ Depth > 1
    /\ \E nres \in 0..GetTop :
        IF Accepted(-nres)
        THEN /\ ret' = <<[array |-> stack, src |-> Index2Addr(-nres), n |-> nres]>>
             /\ stack' = RestoredStack(calls[Depth])
             /\ top' = RestoredTop(calls[Depth])
             /\ calls' = SubSeq(calls, 1, Depth - 1)
             /\ UNCHANGED <<memory, genv, status>>
        ELSE Abort

LuaReturns ==
    /\ InLua
    /\ \E n \in 0..MaxValues : \E results \in [1..n -> Number \cup {CFun}] :
        /\ memory' = [memory EXCEPT ![JitStack] =
                [p \in DOMAIN @ |-> IF MaxValues - p \in DOMAIN results THEN results[MaxValues - p] ELSE Junk]]
        /\ ret' = <<[array |-> JitStack, src |-> MaxValues - 1, n |-> n]>>
    /\ calls' = SubSeq(calls, 1, Depth - 1)
    /\ UNCHANGED <<stack, top, genv, status>>

\* The results are read from memory that is no longer anyone's, which is
\* forgotten then.
Result(i) == memory[ret[1].array][ret[1].src - i]
Forgotten == [memory EXCEPT ![ret[1].array] = [p \in DOMAIN @ |-> Junk]]

\* The code after a call in generated code takes them all.
LuaTakes ==
    /\ status = "running" /\ ret # <<>> /\ calls[Depth].kind = "lua"
    /\ calls' = [calls EXCEPT ![Depth].got = [i \in 1..ret[1].n |-> Result(i - 1)]]
    /\ memory' = Forgotten
    /\ ret' = <<>>
    /\ UNCHANGED <<stack, top, genv, status>>

\* The rest of lua_call: results are put where the function was, and the top
\* is set by lua_settop.
Delivered(call) ==
    [p \in DOMAIN memory[stack] |->
        IF MinStack - p \in call.base..(call.base + call.nresults - 1)
        THEN LET i == MinStack - p - call.base IN IF i < ret[1].n THEN Result(i) ELSE Nil
        ELSE memory[stack][p]]

ApiTakes ==
    /\ status = "running" /\ ret # <<>> /\ calls[Depth].call.base > 0
    /\ LET call == calls[Depth].call
           idx == call.base + call.nresults - 1
       IN  IF idx > MinStack THEN Abort
           ELSE /\ memory' = [Forgotten EXCEPT ![stack] = Cut(Nilled(Delivered(call), idx), StkEntry(idx))]
                /\ top' = StkEntry(idx)
                /\ calls' = [calls EXCEPT ![Depth].call = NoCall]
                /\ ret' = <<>>
                /\ UNCHANGED <<stack, genv, status>>

\* The main chunk has returned: execute does not look at results.
Executed ==
    /\ status = "running" /\ ret # <<>> /\ Depth = 1 /\ calls[1].call.base = 0
    /\ memory' = Forgotten
    /\ ret' = <<>>
    /\ UNCHANGED <<stack, top, genv, calls, status>>

-----------------------------------------------------------------------------
\* lstate_preinit
Init ==
    /\ memory = [s \in JitStack..MaxDepth |-> [p \in 0..(Size(s) - 1) |-> Junk]]
    /\ stack = 0
    /\ top = MinStack
    /\ genv = [var \in Name |-> Nil]
    /\ calls = <<Host>>
    /\ ret = <<>>
    /\ status = "running"

Next ==
    \/ Push \/ Pop \/ SetTop \/ SetGlobal \/ GetGlobal
    \/ Call \/ Execute \/ LuaDefines \/ LuaCalls \/ CReturns \/ LuaReturns
    \/ LuaTakes \/ ApiTakes \/ Executed

Spec == Init /\ [][Next]_vars

-----------------------------------------------------------------------------
(* Type invariant: the top of a stack stays in the array it belongs to, and  *)
(* so do the places of results (lapi.c:46, xlogue.c:659).                    *)
TypeOK ==
    /\ DOMAIN memory = JitStack..MaxDepth
    /\ \A s \in JitStack..MaxDepth : memory[s] \in [0..(Size(s) - 1) -> Value \cup {Junk}]
    /\ stack \in 0..Depth
    /\ top \in 0..MinStack
    /\ genv \in [Name -> Value]
    /\ Depth \in 1..MaxDepth
    /\ ret # <<>> =>
        /\ ret[1].n \in 0..Size(ret[1].array)
        /\ ret[1].src \in -1..(Size(ret[1].array) - 1)
        /\ ret[1].src - ret[1].n >= -1
    /\ status \in {"running", "aborted"}

(* C functions have lists of values that no other function changes, calls    *)
(* pass arguments and results in order through memory of functions that have *)
(* returned, and nothing stops but for want of space or of a result          *)
(* (lapi.c:150, xlogue.c:635).                                               *)
StackOf(k) == IF k = Depth THEN stack ELSE calls[k + 1].oldstack
TopOf(k) == IF k = Depth THEN top ELSE calls[k + 1].oldtop
ListIn(array, t) == [i \in 1..(MinStack - t) |-> array[StkEntry(i)]]
FrameOf(call, array, t) ==
    [kind |-> call.kind,
     list |-> IF call.kind = "lua" THEN call.got ELSE ListIn(array, t),
     base |-> call.call.base,
     nresults |-> call.call.nresults]
Frames == [k \in 1..Depth |-> FrameOf(calls[k], memory[StackOf(k)], TopOf(k))]

ReadFrom(array, src, n) == [j \in 1..n |-> array[src - j + 1]]
Results == [i \in DOMAIN ret |-> ReadFrom(memory[ret[i].array], ret[i].src, ret[i].n)]

Stacks == INSTANCE ValueStacks WITH frames <- Frames, results <- Results
RefinesValueStacks == Stacks!Spec
=============================================================================
