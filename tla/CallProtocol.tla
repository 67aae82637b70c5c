---------------------------- MODULE CallProtocol ----------------------------
(***************************************************************************)
(* Calls and returns: xlogue.c, at run time.  The machine code that it     *)
(* generates builds frames on the stack, copies arguments and results, and *)
(* calls C functions.  The stack is counted in words from its bottom, so   *)
(* "[sp - 4]" in the code is mem[sp + 1].  A frame whose pointer is fp has *)
(*    mem[fp - 1]  the return address,                                     *)
(*    mem[fp]      the caller's frame pointer,                             *)
(*    mem[fp + 1]  where the closure was called from,                      *)
(*    mem[fp + 2 + 2 * i], mem[fp + 3 + 2 * i]  value and type of local i. *)
(* Around calls and returns the locals that live in registers have been    *)
(* stored in their words (the module Locals shows how).                    *)
(***************************************************************************)
EXTENDS Integers, Sequences

CONSTANTS
    LuaFn, CFn,   \* functions, which are all the values there are
    NrLocals,     \* NrLocals[f]: frame.nr_locals of Lua function f
    NrParams,     \* NrParams[f]: frame.nr_params
    Calls,        \* Calls[f]: the OP_CALLs in its bytecode: base, narg and nret
    Returns,      \* Returns[f]: its OP_RETURNs: base and nret
    MaxWord,      \* bound: words of stack
    MaxResults    \* bound: results of a C function

None == -1   \* no function, and no local

ASSUME FnAssumption ==
    /\ NrLocals \in [LuaFn -> Nat \ {0}]
    /\ NrParams \in [LuaFn -> Nat]
    /\ \A f \in LuaFn : NrParams[f] <= NrLocals[f]
    /\ LuaFn \cap CFn = {}
    /\ None \notin LuaFn

\* The arguments, and the results wanted, of an instruction are locals.
ASSUME CodeAssumption ==
    \A f \in LuaFn :
        /\ Calls[f] \subseteq [base : 0..(NrLocals[f] - 1), narg : Nat, nret : Nat]
        /\ \A c \in Calls[f] : c.base + c.narg <= NrLocals[f] /\ c.base + c.nret <= NrLocals[f] + 1
        /\ Returns[f] \subseteq [base : 0..NrLocals[f], nret : Nat]
        /\ \A r \in Returns[f] : r.base + r.nret <= NrLocals[f] + 1
\* There is room for the main chunk.
ASSUME BoundsAssumption ==
    /\ MaxWord \in Nat /\ MaxResults \in Nat
    /\ \A f \in LuaFn : 3 + 2 * NrLocals[f] <= MaxWord

VARIABLES
    mem,      \* the words of the stack
    sp, fp,
    ra,       \* the return address in its register: the call site it is after
    rarg,     \* the registers of RA_EXIST, RA_SRC, RA_DST and RA_EXPECT
    at,       \* where the machine is
    fn,       \* the function whose code it is in
    pend      \* first of the results whose number is not known, or None

vars == <<mem, sp, fp, ra, rarg, at, fn, pend>>

Address == 0..MaxWord
Dead == [exist |-> 0, src |-> 0, dst |-> 0, expect |-> 0]
Nowhere == [fn |-> None, base |-> 0, nret |-> 1]

\* The words.
Val(f) == [k |-> "value", v |-> f]
Typ(f) == [k |-> "type", tag |-> IF f \in CFn THEN "LUA_TLCF" ELSE "LUA_TLCL"]
NilType == [k |-> "type", tag |-> "LUA_TNIL"]
RA(site) == [k |-> "return_address", site |-> site]
FP(a) == [k |-> "frame_pointer", a |-> a]
CL(a) == [k |-> "closure", a |-> a]
Junk == [k |-> "junk"]

LocalAt(frame, i) == frame + 2 + 2 * i

-----------------------------------------------------------------------------
\* do_copying, one local after the other.
Copied(m, dst, src, n) ==
    LET after[i \in 0..n] ==
            IF i = 0 THEN m
            ELSE LET d == dst + 2 * (i - 1)
                     s == src + 2 * (i - 1)
                     v == [after[i - 1] EXCEPT ![d] = after[i - 1][s]]
                 IN  [v EXCEPT ![d + 1] = v[s + 1]]
    IN  after[n]

\* do_nilling sets the types only.
Nilled(m, dst, from, to) ==
    [a \in Address |-> IF \E i \in from..(to - 1) : a = dst + 2 * i + 1 THEN NilType ELSE m[a]]

Least(a, b) == IF a < b THEN a ELSE b

\* The limit of do_nilling.  The number expected is not moved to RA_EXIST: what
\* is moved is RA_EXIST, to a register named by the word after the array rargs.
\* In a build where that is no register of the protocol nothing changes.
NilLimit(exist, expect) == exist

\* jinit_cpy_arg_res: the words after it, and RA_DST.
ArgResCpy(m, r) ==
    LET n == Least(r.exist, r.expect)
    IN  Nilled(Copied(m, r.dst, r.src, n), r.dst, n, NilLimit(n, r.expect))
DstAfter(r) == LET n == Least(r.exist, r.expect) IN r.dst + 2 * NilLimit(n, r.expect)

\* A C function may leave anything in the words that are not above sp.
Clobbered(m, s) == [a \in Address |-> IF a > s THEN Junk ELSE m[a]]

-----------------------------------------------------------------------------
\* execute() has called the main chunk.
Init ==
    /\ fn \in LuaFn
    /\ fp = 2
    /\ sp = 3 + 2 * NrLocals[fn]
    /\ mem = [a \in Address |->
                 CASE a = 1 -> RA(Nowhere) [] a = 2 -> FP(0) [] a = 3 -> CL(0) [] OTHER -> Junk]
    /\ ra = Nowhere
    /\ rarg = Dead
    /\ at = "body"
    /\ pend = None

\* The function assigns a local.
SetLocal ==
    /\ at = "body" /\ pend = None
    /\ \E i \in 0..(NrLocals[fn] - 1), f \in LuaFn \cup CFn :
          mem' = [mem EXCEPT ![LocalAt(fp, i)] = Val(f), ![LocalAt(fp, i) + 1] = Typ(f)]
    /\ UNCHANGED <<sp, fp, ra, rarg, at, fn, pend>>

\* Mutant: the closure is counted as an argument.
NrArgsAll(base) == (sp - (fp + 2 + 2 * base)) \div 2

\* Mutant: one of the arguments is taken for another header word.
NrArgsLess(base) == (sp - (fp + 2 * (3 + base))) \div 2

\* precall: how many locals there are after local base, up to sp.
NrArgs(base) == (sp - (fp + 2 * (2 + base))) \div 2

\* precall, which does not ask what is in the local that is called.  Bytecode
\* consumes results of unknown number at once, by a call with all of them or a
\* return of all of them.
PreCall ==
    /\ at = "body"
    /\ \E c \in Calls[fn] :
          /\ IF pend = None THEN c.narg > 0 ELSE c.narg = 0 /\ c.base < pend
          /\ rarg' = [Dead EXCEPT
                         !.exist = IF c.narg > 0 THEN c.narg - 1 ELSE NrArgs(c.base),
                         !.src = LocalAt(fp, c.base)]
          /\ ra' = [fn |-> fn, base |-> c.base, nret |-> c.nret]
    /\ at' = "prologue"
    /\ pend' = None
    /\ UNCHANGED <<mem, sp, fp, fn>>

CalledTag == LET word == mem[rarg.src + 1]
             IN  IF word.k = "type" THEN word.tag ELSE "no type"

\* The jump to a function that is none: the machine has lost its way.
Astray(m) ==
    /\ at' = "astray"
    /\ mem' = m
    /\ UNCHANGED <<sp, fp, ra, rarg, fn, pend>>

\* luai_apicheck fails in index2addr.
Aborts ==
    /\ at' = "aborted"
    /\ UNCHANGED <<mem, sp, fp, ra, rarg, fn, pend>>

\* Mutant: the operands of pushn in another order.
HeaderSwapped == [mem EXCEPT ![sp + 1] = RA(ra), ![sp + 2] = CL(rarg.src), ![sp + 3] = FP(fp)]

\* pushn of the header words in lcl_pro.
Header == [mem EXCEPT ![sp + 1] = RA(ra), ![sp + 2] = FP(fp), ![sp + 3] = CL(rarg.src)]

\* jinit_pro for a Lua closure, and for whatever is no function: lcl_pro, which
\* finds the code in the local.
LuaPro ==
    /\ at = "prologue"
    /\ CalledTag # "LUA_TLCF"
    /\ sp + 3 <= MaxWord
    /\ IF Header[rarg.src] \in {Val(f) : f \in LuaFn}
       THEN LET callee == Header[rarg.src].v
            IN  /\ sp + 3 + 2 * NrLocals[callee] <= MaxWord
                /\ mem' = Header
                /\ fp' = sp + 2
                /\ sp' = sp + 3
                /\ rarg' = [rarg EXCEPT !.src = rarg.src + 2, !.dst = LocalAt(sp + 2, 0)]
                /\ fn' = callee
                /\ at' = "enter"
                /\ UNCHANGED <<ra, pend>>
       ELSE Astray(Header)

\* prologue, in the code of the callee itself.
Prologue ==
    /\ at = "enter"
    /\ sp' = sp + 2 * NrLocals[fn]
    /\ mem' = IF NrParams[fn] = 0 THEN mem
              ELSE ArgResCpy(mem, [rarg EXCEPT !.expect = NrParams[fn]])
    /\ at' = "body"
    /\ ra' = Nowhere
    /\ rarg' = Dead
    /\ UNCHANGED <<fp, fn, pend>>

\* Where a C function leaves its results, deep in a frame that is gone.
CResults == sp + 4

\* The words after it returned n of them.
AfterC(n, res) ==
    [a \in Address |->
        IF a = sp + 1 THEN RA(ra)
        ELSE IF a = sp + 2 THEN CL(rarg.src)
        ELSE IF a \in CResults..(CResults + 2 * n - 1)
        THEN LET f == res[(a - CResults) \div 2 + 1]
             IN  IF (a - CResults) % 2 = 0 THEN Val(f) ELSE Typ(f)
        ELSE Clobbered(mem, sp)[a]]

\* jinit_pro for a light C function: lcf_pro and ljc_invokec.  index2addr
\* asserts that there is a result.
CPro ==
    /\ at = "prologue"
    /\ CalledTag = "LUA_TLCF"
    /\ CResults + 2 * MaxResults - 1 <= MaxWord
    /\ IF rarg.src > sp \/ mem[rarg.src] \notin {Val(f) : f \in CFn}
       THEN Astray(mem)
       ELSE \E n \in 0..MaxResults : \E res \in [1..n -> LuaFn \cup CFn] :
               IF n = 0 THEN Aborts
               ELSE /\ mem' = AfterC(n, res)
                    /\ rarg' = [rarg EXCEPT !.exist = n, !.src = CResults, !.dst = rarg.src]
                    /\ at' = "postcall"
                    /\ UNCHANGED <<sp, fp, ra, fn, pend>>

\* do_ret, up to the branch to the epilogue.
Ret ==
    /\ at = "body"
    /\ \E r \in Returns[fn] :
          /\ IF pend = None THEN r.nret > 0 ELSE r.nret = 0 /\ r.base <= pend
          /\ rarg' = [Dead EXCEPT
                         !.exist = IF r.nret > 0 THEN r.nret - 1
                                   ELSE (sp - LocalAt(fp, r.base)) \div 2,
                         !.src = LocalAt(fp, r.base)]
    /\ at' = "epilogue"
    /\ pend' = None
    /\ UNCHANGED <<mem, sp, fp, ra, fn>>

\* sp after the epilogue popped the three header words.
PoppedSp(f) == f - 2

\* jinit_epi: closure_close, a C function, is called first.
Epilogue ==
    /\ at = "epilogue"
    /\ mem' = Clobbered(mem, sp)
    /\ sp' = PoppedSp(fp)
    /\ fp' = mem[fp].a
    /\ ra' = mem[fp - 1].site
    /\ rarg' = [rarg EXCEPT !.dst = mem[fp + 1].a]
    /\ fn' = mem[fp - 1].site.fn
    /\ at' = IF mem[fp - 1].site = Nowhere THEN "done" ELSE "postcall"
    /\ UNCHANGED pend

\* postcall with a number of results: JF_ARG_RES_CPY.
PostCallFixed ==
    /\ at = "postcall"
    /\ ra.nret > 0
    /\ mem' = ArgResCpy(mem, [rarg EXCEPT !.expect = ra.nret - 1])
    /\ at' = "body"
    /\ ra' = Nowhere
    /\ rarg' = Dead
    /\ UNCHANGED <<sp, fp, fn, pend>>

\* postcall with all results: jinit_vresult_postcall, which pushes ra for a while.
PostCallOpen ==
    LET r == [rarg EXCEPT !.expect = rarg.exist]
    IN  /\ at = "postcall"
        /\ ra.nret = 0
        /\ DstAfter(r) <= MaxWord
        /\ mem' = ArgResCpy([mem EXCEPT ![sp + 1] = RA(ra)], r)
        /\ sp' = DstAfter(r)
        /\ pend' = ra.base
        /\ at' = "body"
        /\ ra' = Nowhere
        /\ rarg' = Dead
        /\ UNCHANGED <<fp, fn>>

Next ==
    \/ SetLocal \/ PreCall \/ LuaPro \/ Prologue \/ CPro
    \/ Ret \/ Epilogue \/ PostCallFixed \/ PostCallOpen

Spec == Init /\ [][Next]_vars
-----------------------------------------------------------------------------
\* The frames from the main chunk's to each address, by their pointers.
FramesTo(m) ==
    LET to[a \in Address] ==
            IF a > 2 /\ m[a].k = "frame_pointer" /\ m[a].a \in 2..(a - 1)
            THEN Append(to[m[a].a], a)
            ELSE <<a>>
    IN  to
Frames == FramesTo(mem)[fp]

SiteSaved(frame) == IF mem[frame - 1].k = "return_address" THEN mem[frame - 1].site ELSE Nowhere

Pair(m, a) == <<m[a], m[a + 1]>>
Pairs(m, a, n) == [j \in 1..n |-> Pair(m, a + 2 * (j - 1))]
Most(a, b) == IF a > b THEN a ELSE b

\* The activation of f whose frame is in the words m and ends at `stack'.
Activation(m, frame, f, stack, site, open) ==
    LET top == (stack - frame - 1) \div 2
    IN  [fn |-> f, top |-> top, site |-> site, open |-> open,
         locals |-> [i \in 0..(Most(NrLocals[f], top) - 1) |-> Pair(m, LocalAt(frame, i))]]

\* A frame that was left by a call has its place and its function saved above it.
Suspended(m, frame, above) ==
    LET site == m[above - 1].site
    IN  Activation(m, frame, site.fn, above - 2, site, FALSE)

\* The activations: the code of a function that is being entered has none yet.
Acts ==
    IF at = "done" THEN <<>>
    ELSE [d \in 1..(IF at = "enter" THEN Len(Frames) - 1 ELSE Len(Frames)) |->
             IF d < Len(Frames) THEN Suspended(mem, Frames[d], Frames[d + 1])
             ELSE Activation(mem, fp, fn, sp, ra, pend # None)]

Called(word) == IF word.k = "value" THEN word.v ELSE None

Slot(src, frame) == (src - frame - 2) \div 2

Passing ==
    CASE at \in {"prologue", "astray", "aborted"} ->
            [kind |-> "call", slot |-> Slot(rarg.src, fp), fn |-> Called(mem[rarg.src]),
             vals |-> Pairs(mem, rarg.src + 2, rarg.exist)]
      [] at = "enter" ->
            [kind |-> "call", slot |-> Slot(rarg.src - 2, mem[fp].a), fn |-> fn,
             vals |-> Pairs(mem, rarg.src, rarg.exist)]
      [] at = "epilogue" ->
            [kind |-> "leave", slot |-> Slot(rarg.src, fp),
             vals |-> Pairs(mem, rarg.src, rarg.exist)]
      [] at = "postcall" -> [kind |-> "return", vals |-> Pairs(mem, rarg.src, rarg.exist)]
      [] OTHER -> [kind |-> "nothing"]

Stack == INSTANCE Activations WITH acts <- Acts, passing <- Passing

-----------------------------------------------------------------------------
\* The types of the variables.
Site == [fn : LuaFn, base : Nat, nret : Nat] \cup {Nowhere}
TypeOK ==
    /\ DOMAIN mem = Address
    /\ sp \in Address /\ fp \in Address
    /\ ra \in Site
    /\ rarg \in [exist : Nat, src : 0..(MaxWord + 1), dst : Address, expect : Nat]
    /\ at \in {"body", "prologue", "enter", "epilogue", "postcall", "done", "astray", "aborted"}
    /\ fn \in LuaFn \cup {None}
    /\ pend \in Nat \cup {None}

\* Whatever is copied, pushed and clobbered, every frame below the current one
\* can be returned to: its header holds a return address, the pointer of a
\* frame below it, and the local of that frame that the closure was called from.
HeadersIntact ==
    at # "done" =>
        LET frames == Frames
        IN  /\ frames[1] = 2
            /\ \A d \in 2..Len(frames) :
                  /\ mem[frames[d] - 1].k = "return_address"
                  /\ SiteSaved(frames[d]) # Nowhere
                  /\ mem[frames[d] + 1] = CL(LocalAt(frames[d - 1], SiteSaved(frames[d]).base))

\* The stack code implements activations that keep their locals below top and
\* pass arguments and results in order.
RefinesActivations == Stack!Spec

\* "RA_EXPECT is last register [...] move it to exist" (xlogue.c:366): do_nilling
\* goes on to the number expected, so that a parameter without an argument and a
\* result that the function did not return are nil.
MissingAreNil ==
    [][ /\ Prologue => \A i \in rarg.exist..(NrParams[fn] - 1) :
                          mem'[LocalAt(fp, i) + 1] = NilType
        /\ PostCallFixed => \A j \in rarg.exist..(ra.nret - 2) :
                               mem'[rarg.dst + 2 * j + 1] = NilType ]_vars

\* "Spills must be minimized to stop clobbering the previous frames locals"
\* (xlogue.c:281): the header that a call pushes leaves the caller's locals below
\* the one that is called as they are.
CallKeepsLocals ==
    [][LuaPro => \A a \in LocalAt(fp, 0)..(LocalAt(fp, ra.base) - 1) : mem'[a] = mem[a]]_vars
=============================================================================
