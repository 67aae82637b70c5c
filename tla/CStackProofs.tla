---------------------------- MODULE CStackProofs -----------------------------
(***************************************************************************)
(* Theorems about the value stacks of C functions, for arrays of any size, *)
(* any depth of calls and any numbers of values that are passed.           *)
(***************************************************************************)
EXTENDS CStack, SequenceTheorems, TLAPS

Call0 == [nresults : 0..MinStack, base : 0..MinStack]
Activation == [kind : {"host", "c", "lua"}, oldstack : 0..MaxDepth, oldtop : 0..MinStack,
               call : Call0, got : Seq(Value)]

\* A host or C function has an array of its own, a Lua function none.
Own(k) == IF k = 1 THEN 0 ELSE k

Memory ==
    /\ DOMAIN memory = JitStack..MaxDepth
    /\ \A s \in JitStack..MaxDepth : memory[s] \in [0..(Size(s) - 1) -> Value \cup {Junk}]

Activations ==
    /\ calls \in Seq(Activation)
    /\ Depth \in 1..MaxDepth
    /\ \A k \in 1..Depth : calls[k].kind = "host" <=> k = 1

\* The list of activation k: where it is, and that it consists of values.
Listed(k) ==
    /\ StackOf(k) \in 0..k /\ TopOf(k) \in 0..MinStack
    /\ IF calls[k].kind = "lua"
       THEN StackOf(k) = calls[k].oldstack /\ TopOf(k) = calls[k].oldtop /\ calls[k].call = NoCall
       ELSE /\ StackOf(k) = Own(k)
            /\ calls[k].call.base <= MinStack - TopOf(k)
            /\ calls[k].call.base = 0 => calls[k].call = NoCall
            /\ \A p \in TopOf(k)..(MinStack - 1) : memory[StackOf(k)][p] \in Value

\* Results are in memory that no activation uses.
Passage == [array : JitStack..MaxDepth, src : Int, n : Nat]
Returned ==
    ret # <<>> =>
        /\ ret \in Seq(Passage) /\ Len(ret) = 1
        /\ ret[1].array = JitStack \/ ret[1].array = Depth + 1
        /\ ret[1].n <= Size(ret[1].array) /\ ret[1].src < Size(ret[1].array)
        /\ ret[1].src - ret[1].n >= -1
        /\ \A j \in 1..ret[1].n : memory[ret[1].array][ret[1].src - j + 1] \in Value

IInv ==
    /\ Memory
    /\ Activations
    /\ \A k \in 1..Depth : Listed(k)
    /\ ret = <<>> => calls[Depth].call = NoCall
    /\ Returned
    /\ genv \in [Name -> Value]
    /\ status \in {"running", "aborted"}

-----------------------------------------------------------------------------

\* An array of values.
Array == [0..(MinStack - 1) -> Value \cup {Junk}]

LEMMA Constants ==
    /\ MinStack \in Nat \ {0} /\ MaxDepth \in Nat \ {0} /\ MaxValues \in Nat
    /\ \A s \in 0..MaxDepth : Size(s) = MinStack /\ s \in JitStack..MaxDepth
    /\ Size(JitStack) = MaxValues /\ JitStack \in JitStack..MaxDepth
BY CStackAssumption DEF CStackAssumption, Size, JitStack

\* The activation that runs, if it is not one of a Lua function.
LEMMA TopList ==
    ASSUME IInv, calls[Depth].kind # "lua"
    PROVE  /\ Depth \in 1..MaxDepth /\ stack = Own(Depth) /\ stack \in 0..Depth
           /\ stack \in 0..MaxDepth /\ memory[stack] \in Array /\ top \in 0..MinStack
           /\ calls[Depth].call.base <= MinStack - top
           /\ \A p \in top..(MinStack - 1) : memory[stack][p] \in Value
<1>1. Depth \in 1..MaxDepth /\ Listed(Depth)
  BY DEF IInv, Activations
<1>2. StackOf(Depth) = stack /\ TopOf(Depth) = top
  BY DEF StackOf, TopOf
<1>3. /\ stack = Own(Depth) /\ stack \in 0..Depth /\ top \in 0..MinStack
      /\ calls[Depth].call.base <= MinStack - top
      /\ \A p \in top..(MinStack - 1) : memory[stack][p] \in Value
  BY <1>1, <1>2 DEF Listed
<1>4. stack \in 0..MaxDepth
  BY <1>1, <1>3, Constants
<1>5. memory[stack] \in Array
  BY <1>4, Constants DEF IInv, Memory, Array
<1> QED BY <1>1, <1>3, <1>4, <1>5

\* The arrays of other activations that are not of Lua functions are others.
LEMMA OtherLists ==
    ASSUME IInv, NEW k \in 1..Depth, calls[k].kind # "lua"
    PROVE  /\ StackOf(k) = Own(k) /\ Own(k) \in 0..k /\ Own(k) \in 0..MaxDepth
           /\ Own(k) \in DOMAIN memory
           /\ \A j \in Nat : j > k => Own(j) # Own(k)
<1>1. Depth \in 1..MaxDepth /\ Listed(k)
  BY DEF IInv, Activations
<1>2. StackOf(k) = Own(k) /\ StackOf(k) \in 0..k
  BY <1>1 DEF Listed
<1>3. Own(k) \in 0..MaxDepth
  BY <1>1, <1>2, Constants
<1>4. Own(k) \in DOMAIN memory
  BY <1>3, Constants DEF IInv, Memory
<1>5. \A j \in Nat : j > k => Own(j) # Own(k)
  BY DEF Own
<1> QED BY <1>2, <1>3, <1>4, <1>5

\* A C function changes its own list and nothing else.
LEMMA ListChanges ==
    ASSUME IInv, InC, NEW a \in Array, memory' = [memory EXCEPT ![stack] = a],
           top' \in 0..MinStack, \A p \in top'..(MinStack - 1) : a[p] \in Value,
           genv' \in [Name -> Value], UNCHANGED <<stack, calls, ret, status>>
    PROVE  /\ IInv'
           /\ Frames' = [Frames EXCEPT ![Depth].list = ListIn(a, top')]
           /\ Results' = Results
<1>1. ret = <<>> /\ status = "running" /\ calls[Depth].kind # "lua"
  BY DEF InC, Running
<1>2. /\ Depth \in 1..MaxDepth /\ stack = Own(Depth) /\ stack \in 0..Depth
      /\ stack \in 0..MaxDepth
  BY <1>1, TopList
<1>3. stack \in DOMAIN memory /\ stack \in JitStack..MaxDepth /\ Size(stack) = MinStack
  BY <1>2, Constants DEF IInv, Memory
<1>4. memory'[stack] = a /\ DOMAIN memory' = DOMAIN memory
      /\ \A s \in DOMAIN memory : s # stack => memory'[s] = memory[s]
  BY <1>3
<1>5. Memory'
  BY <1>3, <1>4 DEF IInv, Memory, Array
<1>6. ASSUME NEW k \in 1..Depth
      PROVE  /\ Listed(k)' /\ StackOf(k)' = StackOf(k)
             /\ k # Depth => TopOf(k)' = TopOf(k)
             /\ k # Depth /\ calls[k].kind # "lua" => memory'[StackOf(k)] = memory[StackOf(k)]
  <2>1. Listed(k)
    BY DEF IInv
  <2>2. CASE k = Depth
    <3>1. /\ StackOf(k)' = stack /\ StackOf(k) = stack /\ TopOf(k)' = top' /\ calls'[k] = calls[k]
      BY <2>2 DEF StackOf, TopOf, Depth
    <3>2. calls[k].call.base = 0
      BY <1>1, <2>2 DEF IInv, NoCall
    <3>3. calls[k].call.base <= MinStack - top'
      <4>1. 0 <= MinStack - top'
        <5>1. \A t \in 0..MinStack : 0 <= MinStack - t
          <6>1. MinStack \in Nat
            BY Constants
          <6> QED BY <6>1
        <5> QED BY <5>1, Zenon
      <4> QED BY <3>2, <4>1
    <3> QED BY <1>1, <1>2, <1>4, <2>1, <2>2, <3>1, <3>3 DEF Listed
  <2>3. CASE k # Depth
    <3>1. StackOf(k)' = StackOf(k) /\ TopOf(k)' = TopOf(k) /\ calls'[k] = calls[k]
      BY <2>3 DEF StackOf, TopOf, Depth
    <3>2. CASE calls[k].kind = "lua"
      BY <2>1, <2>3, <3>1, <3>2 DEF Listed
    <3>3. CASE calls[k].kind # "lua"
      <4>1. StackOf(k) \in DOMAIN memory /\ StackOf(k) # stack
        BY <1>2, <2>3, <3>3, OtherLists
      <4>2. memory'[StackOf(k)] = memory[StackOf(k)]
        BY <1>4, <4>1
      <4> QED BY <2>1, <2>3, <3>1, <3>3, <4>2 DEF Listed
    <3> QED BY <3>2, <3>3
  <2> QED BY <2>2, <2>3
<1>7. Activations' /\ Depth' = Depth /\ calls' = calls
  BY DEF IInv, Activations, Depth
<1>8. IInv'
  BY <1>1, <1>5, <1>6, <1>7 DEF IInv, Returned
<1>9. Frames' = [Frames EXCEPT ![Depth].list = ListIn(a, top')]
  <2>1. \A k \in 1..Depth : Frames[k] = FrameOf(calls[k], memory[StackOf(k)], TopOf(k))
    BY DEF Frames
  <2>2. Frames' = [k \in 1..Depth |-> FrameOf(calls[k], memory'[StackOf(k)'], TopOf(k)')]
    BY <1>7 DEF Frames
  <2>3. PICK d \in 1..MaxDepth : d = Depth
    BY <1>2
  <2>4. FrameOf(calls[d], memory'[StackOf(d)'], TopOf(d)')
           = [Frames[d] EXCEPT !.list = ListIn(a, top')]
    <3>1. StackOf(d)' = stack /\ TopOf(d)' = top'
      BY <1>7, <2>3 DEF StackOf, TopOf
    <3>2. Frames[d] = FrameOf(calls[d], memory[StackOf(d)], TopOf(d)) /\ calls[d].kind # "lua"
      BY <1>1, <1>2, <2>1, <2>3
    <3>3. FrameOf(calls[d], memory'[StackOf(d)'], TopOf(d)') = FrameOf(calls[d], a, top')
      BY <1>4, <3>1
    <3> QED BY <3>2, <3>3 DEF FrameOf
  <2>5. ASSUME NEW k \in 1..Depth, k # Depth
        PROVE  FrameOf(calls[k], memory'[StackOf(k)'], TopOf(k)') = Frames[k]
    BY <1>6, <2>1, <2>5 DEF FrameOf
  <2>6. DOMAIN Frames = 1..Depth
    BY DEF Frames
  <2>7. Frames' = [k \in 1..Depth |-> IF k = d THEN [Frames[d] EXCEPT !.list = ListIn(a, top')]
                                     ELSE Frames[k]]
    <3>1. \A k \in 1..Depth : FrameOf(calls[k], memory'[StackOf(k)'], TopOf(k)')
              = IF k = d THEN [Frames[d] EXCEPT !.list = ListIn(a, top')] ELSE Frames[k]
      BY <2>3, <2>4, <2>5
    <3> QED BY <2>2, <3>1
  <2> HIDE DEF Frames
  <2>8. [Frames EXCEPT ![d].list = ListIn(a, top')]
           = [k \in 1..Depth |-> IF k = d THEN [Frames[d] EXCEPT !.list = ListIn(a, top')]
                                 ELSE Frames[k]]
    BY <2>6
  <2> QED BY <2>3, <2>7, <2>8
<1>10. Results' = Results
  BY <1>1 DEF Results
<1> QED BY <1>8, <1>9, <1>10

-----------------------------------------------------------------------------
(* Lists, and what the mapping makes of a state. *)

LEMMA SeqOf ==
    ASSUME NEW n \in Nat, NEW f, f = [k \in 1..n |-> f[k]]
    PROVE  f \in Seq({f[k] : k \in 1..n}) /\ Len(f) = n
<1> DEFINE S == {f[k] : k \in 1..n}
<1>1. f \in [1..n -> S]
  OBVIOUS
<1>2. f \in Seq(S)
  BY <1>1, SeqDef
<1>3. Len(f) \in Nat /\ DOMAIN f = 1..Len(f)
  BY <1>2, LenProperties
<1> QED BY <1>1, <1>2, <1>3

LEMMA ListOfValues ==
    ASSUME NEW a \in Array, NEW t \in 0..MinStack, \A p \in t..(MinStack - 1) : a[p] \in Value
    PROVE  /\ ListIn(a, t) \in Seq(Value) /\ Len(ListIn(a, t)) = MinStack - t
           /\ \A i \in 1..(MinStack - t) : ListIn(a, t)[i] = a[MinStack - i]
<1>1. MinStack \in Nat
  BY Constants
<1> DEFINE n == MinStack - t
           f == ListIn(a, t)
<1>2. n \in Nat /\ f = [i \in 1..n |-> a[MinStack - i]]
  BY <1>1 DEF ListIn, StkEntry
<1>3. \A i \in 1..n : f[i] = a[MinStack - i] /\ a[MinStack - i] \in Value
  <2>1. \A i \in 1..n : MinStack - i \in t..(MinStack - 1)
    BY <1>1
  <2> HIDE DEF n, f
  <2> QED BY <1>2, <2>1
<1> HIDE DEF n, f
<1>4. f = [k \in 1..n |-> f[k]]
  BY <1>2
<1>5. f \in [1..n -> Value]
  BY <1>2, <1>3
<1>6. f \in Seq(Value)
  BY <1>2, <1>5, SeqDef
<1>7. Len(f) = n
  BY <1>2, <1>4, SeqOf
<1> QED BY <1>3, <1>6, <1>7 DEF n, f

LEMMA MapNow ==
    ASSUME IInv
    PROVE  /\ Stacks!Depth = Depth /\ Len(Frames) = Depth /\ Depth \in 1..MaxDepth
           /\ DOMAIN Frames = 1..Depth
           /\ \A k \in 1..Depth : /\ Frames[k] = FrameOf(calls[k], memory[StackOf(k)], TopOf(k))
                                  /\ Frames[k].kind = calls[k].kind
           /\ Results = <<>> <=> ret = <<>>
<1>1. Depth \in 1..MaxDepth
  BY DEF IInv, Activations
<1>2. Depth \in Nat
  BY <1>1, Constants
<1>3. Len(Frames) = Depth
  <2>1. Frames = [k \in 1..Depth |-> Frames[k]]
    BY DEF Frames
  <2> QED BY <1>2, <2>1, SeqOf
<1>4. /\ DOMAIN Frames = 1..Depth
      /\ \A k \in 1..Depth : /\ Frames[k] = FrameOf(calls[k], memory[StackOf(k)], TopOf(k))
                             /\ Frames[k].kind = calls[k].kind
  BY DEF Frames, FrameOf
<1>5. Results = <<>> <=> ret = <<>>
  <2>1. CASE ret = <<>>
    BY <2>1 DEF Results
  <2>2. CASE ret # <<>>
    <3>1. ret \in Seq(Passage) /\ Len(ret) = 1
      BY <2>2 DEF IInv, Returned
    <3>2. DOMAIN ret = 1..1
      BY <3>1, LenProperties
    <3>3. DOMAIN Results = DOMAIN ret
      BY DEF Results
    <3> QED BY <2>2, <3>2, <3>3
  <2> QED BY <2>1, <2>2
<1> QED BY <1>1, <1>3, <1>4, <1>5 DEF Stacks!Depth

\* The same for a state in which a C function runs.
LEMMA MapInC ==
    ASSUME IInv, InC
    PROVE  /\ Stacks!InC /\ Stacks!Depth = Depth /\ Depth \in 1..MaxDepth
           /\ Stacks!list = ListIn(memory[stack], top)
           /\ Stacks!list \in Seq(Value) /\ Len(Stacks!list) = GetTop
           /\ \A i \in 1..GetTop : Stacks!list[i] = memory[stack][MinStack - i]
           /\ GetTop = MinStack - top /\ GetTop \in 0..MinStack
           /\ top \in 0..MinStack /\ memory[stack] \in Array
           /\ \A p \in top..(MinStack - 1) : memory[stack][p] \in Value
<1>1. ret = <<>> /\ status = "running" /\ calls[Depth].kind # "lua"
  BY DEF InC, Running
<1>2. /\ Depth \in 1..MaxDepth /\ memory[stack] \in Array /\ top \in 0..MinStack
      /\ \A p \in top..(MinStack - 1) : memory[stack][p] \in Value
  BY <1>1, TopList
<1>3. Stacks!list = ListIn(memory[stack], top)
  <2>1. Frames[Depth].list = ListIn(memory[stack], top)
    BY <1>1, <1>2, MapNow DEF FrameOf, StackOf, TopOf
  <2> QED BY <2>1, MapNow DEF Stacks!list
<1>4. /\ Stacks!list \in Seq(Value) /\ Len(Stacks!list) = MinStack - top
      /\ \A i \in 1..(MinStack - top) : Stacks!list[i] = memory[stack][MinStack - i]
  BY <1>2, <1>3, ListOfValues
<1>5. GetTop = MinStack - top /\ GetTop \in 0..MinStack
  BY <1>2, Constants DEF GetTop
<1>6. Stacks!InC
  BY <1>1, <1>2, MapNow DEF Stacks!InC, Stacks!Running
<1> QED BY <1>2, <1>3, <1>4, <1>5, <1>6, MapNow

\* Nothing changes but the status.
LEMMA AbortStep ==
    ASSUME IInv, Abort
    PROVE  IInv' /\ Stacks!Fails
<1>1. IInv'
  BY DEF Abort, IInv, Memory, Activations, Listed, Returned, StackOf, TopOf, Depth
<1>2. UNCHANGED <<Frames, Results>>
  BY DEF Abort, Frames, Results, StackOf, TopOf, Depth
<1> QED BY <1>1, <1>2 DEF Abort, Stacks!Fails

LEMMA SafePushStep ==
    ASSUME IInv, InC, NEW v \in Value, SafePush(v), genv' = genv
    PROVE  /\ IInv'
           /\ \/ Stacks!Abort
              \/ /\ Len(Stacks!list) < MinStack
                 /\ Stacks!Becomes(Append(Stacks!list, v))
                 /\ UNCHANGED <<genv, Results, status>>
<1>1. /\ Stacks!InC /\ Stacks!Depth = Depth
      /\ Stacks!list = ListIn(memory[stack], top)
      /\ Stacks!list \in Seq(Value) /\ Len(Stacks!list) = MinStack - top
      /\ \A i \in 1..(MinStack - top) : Stacks!list[i] = memory[stack][MinStack - i]
      /\ top \in 0..MinStack /\ memory[stack] \in Array
      /\ \A p \in top..(MinStack - 1) : memory[stack][p] \in Value
  BY MapInC
<1>2. MinStack \in Nat
  BY Constants
<1>3. CASE ~(top > 0)
  <2>1. Abort
    BY <1>3 DEF SafePush
  <2>2. Len(Stacks!list) = MinStack
    BY <1>1, <1>2, <1>3
  <2> QED BY <1>1, <2>1, <2>2, AbortStep DEF Stacks!Abort
<1>4. CASE top > 0
  <2> DEFINE a == [memory[stack] EXCEPT ![top - 1] = v]
             u == top - 1
  <2>1. memory' = [memory EXCEPT ![stack] = a] /\ top' = u
        /\ UNCHANGED <<stack, calls, ret, status>>
    BY <1>4 DEF SafePush
  <2>2. u \in 0..(MinStack - 1) /\ u \in 0..MinStack /\ MinStack - u = MinStack - top + 1
    BY <1>1, <1>2, <1>4
  <2>3. a \in Array /\ a[u] = v /\ \A p \in top..(MinStack - 1) : a[p] = memory[stack][p]
    <3>1. PICK A \in Array : A = memory[stack]
      BY <1>1
    <3>2. a = [A EXCEPT ![u] = v]
      BY <3>1
    <3>3. \A p \in top..(MinStack - 1) : p # u /\ p \in 0..(MinStack - 1)
      BY <1>1, <1>2
    <3> HIDE DEF a, u
    <3> QED BY <2>2, <3>1, <3>2, <3>3 DEF Array
  <2>4. \A p \in u..(MinStack - 1) : a[p] \in Value
    <3>1. \A p \in u..(MinStack - 1) : p = u \/ p \in top..(MinStack - 1)
      BY <1>1, <1>2
    <3> HIDE DEF a, u
    <3> QED BY <1>1, <2>3, <3>1
  <2> HIDE DEF a, u
  <2>5. genv' \in [Name -> Value]
    BY DEF IInv
  <2>6. /\ IInv' /\ Frames' = [Frames EXCEPT ![Depth].list = ListIn(a, top')]
        /\ Results' = Results
    BY <2>1, <2>2, <2>3, <2>4, <2>5, ListChanges
  <2>7. ListIn(a, u) = Append(Stacks!list, v)
    <3>1. /\ ListIn(a, u) \in Seq(Value) /\ Len(ListIn(a, u)) = MinStack - u
          /\ \A i \in 1..(MinStack - u) : ListIn(a, u)[i] = a[MinStack - i]
      BY <2>2, <2>3, <2>4, ListOfValues
    <3>2. /\ Append(Stacks!list, v) \in Seq(Value)
          /\ Len(Append(Stacks!list, v)) = MinStack - top + 1
          /\ \A i \in 1..(MinStack - top) : Append(Stacks!list, v)[i] = Stacks!list[i]
          /\ Append(Stacks!list, v)[MinStack - top + 1] = v
      BY <1>1, AppendProperties
    <3>3. ASSUME NEW i \in 1..(MinStack - u)
          PROVE  ListIn(a, u)[i] = Append(Stacks!list, v)[i]
      <4>1. CASE i = MinStack - top + 1
        <5>1. MinStack - i = u
          BY <1>1, <1>2, <4>1 DEF u
        <5> QED BY <2>3, <3>1, <3>2, <4>1, <5>1
      <4>2. CASE i # MinStack - top + 1
        <5>1. i \in 1..(MinStack - top) /\ MinStack - i \in top..(MinStack - 1)
          BY <1>1, <1>2, <2>2, <4>2
        <5> QED BY <1>1, <2>3, <3>1, <3>2, <5>1
      <4> QED BY <4>1, <4>2
    <3> QED BY <2>2, <3>1, <3>2, <3>3, SeqEqual
  <2>8. Len(Stacks!list) < MinStack
    BY <1>1, <1>2, <1>4
  <2>9. Stacks!Becomes(Append(Stacks!list, v))
    BY <1>1, <2>1, <2>6, <2>7 DEF Stacks!Becomes
  <2>10. UNCHANGED <<genv, Results, status>>
    BY <2>1, <2>6
  <2> QED BY <2>6, <2>8, <2>9, <2>10
<1> QED BY <1>3, <1>4

LEMMA PushStep == IInv /\ Push => IInv' /\ Stacks!Next
<1> SUFFICES ASSUME IInv, Push PROVE IInv' /\ Stacks!Next
  OBVIOUS
<1>1. PICK v \in Number \cup {CFun} : PushValue(v)
  BY DEF Push
<1>2. v \in Value /\ InC /\ SafePush(v) /\ genv' = genv
  BY <1>1 DEF PushValue, Value
<1>3. /\ IInv'
      /\ \/ Stacks!Abort
         \/ /\ Len(Stacks!list) < MinStack
            /\ Stacks!Becomes(Append(Stacks!list, v))
            /\ UNCHANGED <<genv, Results, status>>
  BY <1>2, SafePushStep
<1>4. Stacks!InC
  BY <1>2, MapInC
<1> QED BY <1>3, <1>4 DEF Stacks!Next, Stacks!Push

LEMMA GetGlobalStep == IInv /\ GetGlobal => IInv' /\ Stacks!Next
<1> SUFFICES ASSUME IInv, GetGlobal PROVE IInv' /\ Stacks!Next
  OBVIOUS
<1>1. PICK var \in Name : SafePush(genv[var])
  BY DEF GetGlobal
<1>2. genv[var] \in Value /\ InC /\ genv' = genv
  BY DEF GetGlobal, IInv
<1>3. /\ IInv'
      /\ \/ Stacks!Abort
         \/ /\ Len(Stacks!list) < MinStack
            /\ Stacks!Becomes(Append(Stacks!list, genv[var]))
            /\ UNCHANGED <<genv, Results, status>>
  BY <1>1, <1>2, SafePushStep
<1>4. Stacks!InC
  BY <1>2, MapInC
<1> QED BY <1>3, <1>4 DEF Stacks!Next, Stacks!GetGlobal

\* The last value is taken away: the globals may change.
LEMMA FrontStep ==
    ASSUME IInv, InC, GetTop > 0, top' = top + 1,
           memory' = [memory EXCEPT ![stack] = Cut(@, top + 1)],
           genv' \in [Name -> Value], UNCHANGED <<stack, calls, ret, status>>
    PROVE  /\ IInv'
           /\ Stacks!list # <<>> /\ Stacks!Becomes(Stacks!Front(Stacks!list))
           /\ Stacks!Last(Stacks!list) = memory[stack][top] /\ memory[stack][top] \in Value
           /\ Results' = Results
<1>1. /\ Stacks!Depth = Depth
      /\ Stacks!list \in Seq(Value) /\ Len(Stacks!list) = MinStack - top
      /\ \A i \in 1..(MinStack - top) : Stacks!list[i] = memory[stack][MinStack - i]
      /\ top \in 0..MinStack /\ memory[stack] \in Array /\ GetTop = MinStack - top
      /\ \A p \in top..(MinStack - 1) : memory[stack][p] \in Value
  BY MapInC
<1>2. MinStack \in Nat
  BY Constants
<1> DEFINE u == top + 1
           n == MinStack - top
<1>3. n \in Nat \ {0} /\ u \in 0..MinStack /\ MinStack - u = n - 1 /\ top \in 0..(MinStack - 1)
  BY <1>1, <1>2
<1>4. PICK A \in Array : A = memory[stack]
  BY <1>1
<1> DEFINE a == Cut(A, u)
<1>5. /\ a \in Array
      /\ \A p \in u..(MinStack - 1) : p \in top..(MinStack - 1) /\ a[p] = A[p]
  <2>1. \A p \in u..(MinStack - 1) : ~(p < u) /\ p \in 0..(MinStack - 1) /\ p \in top..(MinStack - 1)
    BY <1>1, <1>2
  <2> HIDE DEF u
  <2> QED BY <2>1 DEF Cut, Array
<1> HIDE DEF u, n, a
<1>6. \A p \in u..(MinStack - 1) : a[p] \in Value
  BY <1>1, <1>4, <1>5
<1>7. memory' = [memory EXCEPT ![stack] = a] /\ top' = u
  BY <1>4 DEF a, u
<1>8. /\ IInv' /\ Frames' = [Frames EXCEPT ![Depth].list = ListIn(a, top')]
      /\ Results' = Results
  BY <1>3, <1>5, <1>6, <1>7, ListChanges
<1>9. ListIn(a, u) = Stacks!Front(Stacks!list)
  <2>1. /\ ListIn(a, u) \in Seq(Value) /\ Len(ListIn(a, u)) = n - 1
        /\ \A i \in 1..(n - 1) : ListIn(a, u)[i] = a[MinStack - i]
    BY <1>3, <1>5, <1>6, ListOfValues
  <2>2. Len(Stacks!list) = n
    BY <1>1 DEF n
  <2>3. /\ Stacks!Front(Stacks!list) \in Seq(Value) /\ Len(Stacks!Front(Stacks!list)) = n - 1
        /\ \A i \in 1..(n - 1) : Stacks!Front(Stacks!list)[i] = Stacks!list[i]
    <3>1. \A i \in 1..(n - 1) : Stacks!list[i] \in Value
      BY <1>1, <1>3, <2>2, ElementOfSeq
    <3>2. /\ SubSeq(Stacks!list, 1, n - 1) \in Seq(Value)
          /\ Len(SubSeq(Stacks!list, 1, n - 1)) = IF 1 <= n - 1 THEN n - 1 - 1 + 1 ELSE 0
          /\ \A i \in 1..(n - 1 - 1 + 1) :
                SubSeq(Stacks!list, 1, n - 1)[i] = Stacks!list[1 + i - 1]
      BY <1>3, <3>1, SubSeqProperties
    <3>3. Stacks!Front(Stacks!list) = SubSeq(Stacks!list, 1, n - 1)
      BY <2>2 DEF Stacks!Front
    <3> QED BY <1>3, <3>2, <3>3
  <2>4. ASSUME NEW i \in 1..(n - 1)
        PROVE  ListIn(a, u)[i] = Stacks!Front(Stacks!list)[i]
    <3>1. MinStack - i \in u..(MinStack - 1) /\ i \in 1..(MinStack - top)
      BY <1>1, <1>2, <1>3 DEF u, n
    <3> QED BY <1>1, <1>4, <1>5, <2>1, <2>3, <3>1
  <2> QED BY <1>3, <2>1, <2>3, <2>4, SeqEqual
<1>10. Stacks!list # <<>>
  BY <1>1, <1>3, EmptySeq DEF n
<1>11. Stacks!Last(Stacks!list) = memory[stack][top] /\ memory[stack][top] \in Value
  <2>1. n \in 1..n /\ MinStack - n = top /\ Len(Stacks!list) = n /\ top \in top..(MinStack - 1)
    BY <1>1, <1>2, <1>3 DEF n
  <2> QED BY <1>1, <2>1 DEF Stacks!Last, n
<1>12. Stacks!Becomes(Stacks!Front(Stacks!list))
  BY <1>1, <1>7, <1>8, <1>9 DEF Stacks!Becomes
<1> QED BY <1>8, <1>10, <1>11, <1>12

LEMMA PopStep == IInv /\ Pop => IInv' /\ Stacks!Next
<1> SUFFICES ASSUME IInv, Pop PROVE IInv' /\ Stacks!Next
  OBVIOUS
<1>1. /\ InC /\ GetTop > 0 /\ top' = top + 1
      /\ memory' = [memory EXCEPT ![stack] = Cut(@, top + 1)]
      /\ UNCHANGED <<stack, genv, calls, ret, status>>
  BY DEF Pop
<1>2. genv' \in [Name -> Value]
  BY <1>1 DEF IInv
<1>3. /\ IInv' /\ Stacks!list # <<>> /\ Stacks!Becomes(Stacks!Front(Stacks!list))
      /\ Results' = Results
  BY <1>1, <1>2, FrontStep
<1> QED BY <1>1, <1>3, MapInC DEF Stacks!Next, Stacks!Pop

LEMMA SetGlobalStep == IInv /\ SetGlobal => IInv' /\ Stacks!Next
<1> SUFFICES ASSUME IInv, SetGlobal PROVE IInv' /\ Stacks!Next
  OBVIOUS
<1>1. PICK var \in Name : SetGlobalName(var)
  BY DEF SetGlobal
<1>2. /\ InC /\ GetTop > 0 /\ top' = top + 1
      /\ genv' = [genv EXCEPT ![var] = memory[stack][top]]
      /\ memory' = [memory EXCEPT ![stack] = Cut(@, top + 1)]
      /\ UNCHANGED <<stack, calls, ret, status>>
  BY <1>1 DEF SetGlobalName
<1>3. memory[stack][top] \in Value
  <2>1. top \in top..(MinStack - 1)
    BY <1>2, MapInC, Constants
  <2> QED BY <1>2, <2>1, MapInC
<1>4. genv' \in [Name -> Value]
  BY <1>2, <1>3 DEF IInv
<1>5. /\ IInv' /\ Stacks!list # <<>> /\ Stacks!Becomes(Stacks!Front(Stacks!list))
      /\ Stacks!Last(Stacks!list) = memory[stack][top] /\ Results' = Results
  BY <1>2, <1>4, FrontStep
<1> QED BY <1>2, <1>5, MapInC DEF Stacks!Next, Stacks!SetGlobal

LEMMA SetTopStep == IInv /\ SetTop => IInv' /\ Stacks!Next
<1> SUFFICES ASSUME IInv, SetTop PROVE IInv' /\ Stacks!Next
  OBVIOUS
<1>1. InC /\ UNCHANGED <<stack, genv, calls, ret, status>>
  BY DEF SetTop
<1>2. /\ Stacks!InC /\ Stacks!Depth = Depth /\ Len(Stacks!list) = GetTop
      /\ \A i \in 1..GetTop : Stacks!list[i] = memory[stack][MinStack - i]
      /\ GetTop = MinStack - top /\ GetTop \in 0..MinStack
      /\ top \in 0..MinStack /\ memory[stack] \in Array
      /\ \A p \in top..(MinStack - 1) : memory[stack][p] \in Value
  BY <1>1, MapInC
<1>3. MinStack \in Nat
  BY Constants
<1>4. PICK idx \in (-(GetTop + 1))..MinStack :
        /\ top' = IF idx = 0 THEN MinStack ELSE Index2Addr(idx)
        /\ memory' = [memory EXCEPT ![stack] =
                Cut(IF idx > 0 THEN Nilled(@, idx) ELSE @, IF idx = 0 THEN MinStack ELSE Index2Addr(idx))]
  BY DEF SetTop
<1>5. PICK A \in Array : A = memory[stack]
  BY <1>2
<1> DEFINE t == IF idx = 0 THEN MinStack ELSE Index2Addr(idx)
           b == IF idx > 0 THEN Nilled(A, idx) ELSE A
           a == Cut(b, t)
           n == MinStack - t
           len == GetTop
<1>6. /\ t \in 0..MinStack /\ n \in 0..MinStack /\ t = MinStack - n
      /\ idx > 0 => n = idx
      /\ ~(idx > 0) => n <= len
  <2>1. idx \in Int
    BY <1>2, <1>3
  <2>2. CASE idx > 0
    BY <1>3, <1>4, <2>1, <2>2 DEF Index2Addr, StkEntry
  <2>3. CASE idx = 0
    BY <1>2, <1>3, <2>3
  <2>4. CASE idx < 0
    <3>1. Index2Addr(idx) = MinStack - (len + idx + 1) /\ len + idx + 1 \in 0..len
      BY <1>2, <1>4, <2>1, <2>4 DEF Index2Addr, StkEntry
    <3> QED BY <1>2, <1>3, <2>1, <2>4, <3>1
  <2> QED BY <2>1, <2>2, <2>3, <2>4
<1>7. b \in Array /\ \A i \in 1..n : b[MinStack - i] = IF i <= len THEN A[MinStack - i] ELSE Nil
  <2>1. CASE ~(idx > 0)
    <3>1. b = A
      BY <2>1
    <3>2. \A i \in 1..n : i <= len
      BY <1>2, <1>6, <2>1
    <3> HIDE DEF b, n, len
    <3> QED BY <3>1, <3>2
  <2>2. CASE idx > 0
    <3>1. b = [p \in 0..(MinStack - 1) |->
                  IF \E i \in (len + 1)..idx : p = MinStack - i THEN Nil ELSE A[p]]
      BY <1>5, <2>2 DEF Nilled, StkEntry, Array
    <3>2. b \in Array
      BY <3>1 DEF Array, Value
    <3>3. ASSUME NEW i \in 1..n
          PROVE  b[MinStack - i] = IF i <= len THEN A[MinStack - i] ELSE Nil
      <4>1. MinStack - i \in 0..(MinStack - 1) /\ n = idx
        BY <1>3, <1>6, <2>2
      <4>2. CASE i <= len
        <5>1. ~\E j \in (len + 1)..idx : MinStack - i = MinStack - j
          BY <1>2, <1>3, <1>6, <4>2
        <5> HIDE DEF b, len, n
        <5> QED BY <3>1, <4>1, <4>2, <5>1
      <4>3. CASE ~(i <= len)
        <5>1. i \in (len + 1)..idx
          BY <1>2, <1>6, <4>1, <4>3
        <5> HIDE DEF b, len, n
        <5> QED BY <3>1, <4>1, <4>3, <5>1
      <4> QED BY <4>2, <4>3
    <3> QED BY <3>2, <3>3
  <2> QED BY <2>1, <2>2
<1> HIDE DEF b
<1>8. a \in Array /\ \A i \in 1..n : a[MinStack - i] = IF i <= len THEN A[MinStack - i] ELSE Nil
  <2>1. a \in Array /\ \A p \in 0..(MinStack - 1) : ~(p < t) => a[p] = b[p]
    BY <1>7 DEF Cut, Array
  <2>2. \A i \in 1..n : MinStack - i \in 0..(MinStack - 1) /\ ~(MinStack - i < t)
    BY <1>3, <1>6
  <2> HIDE DEF a, t, n
  <2> QED BY <1>7, <2>1, <2>2
<1>9. memory' = [memory EXCEPT ![stack] = a] /\ top' = t
  BY <1>4, <1>5 DEF b
<1> HIDE DEF a, t, n
<1>10. \A i \in 1..n : a[MinStack - i] = IF i <= Len(Stacks!list) THEN Stacks!list[i] ELSE Nil
  <2>1. \A i \in 1..n : i <= len => i \in 1..len
    BY <1>2, <1>6
  <2> QED BY <1>2, <1>5, <1>8, <2>1
<1>11. \A p \in t..(MinStack - 1) : a[p] \in Value
  <2>1. ASSUME NEW p \in t..(MinStack - 1) PROVE a[p] \in Value
    <3>1. PICK i \in 1..n : p = MinStack - i
      <4>1. MinStack - p \in 1..n /\ p = MinStack - (MinStack - p)
        BY <1>3, <1>6
      <4> QED BY <4>1
    <3>2. CASE i <= len
      <4>1. p \in top..(MinStack - 1)
        BY <1>2, <1>3, <1>6, <3>1, <3>2
      <4> QED BY <1>2, <1>5, <1>8, <3>1, <3>2, <4>1
    <3>3. CASE ~(i <= len)
      BY <1>8, <3>1, <3>3 DEF Value
    <3> QED BY <3>2, <3>3
  <2> QED BY <2>1
<1>12. /\ IInv' /\ Frames' = [Frames EXCEPT ![Depth].list = ListIn(a, top')]
       /\ Results' = Results
  <2>1. genv' \in [Name -> Value] /\ top' \in 0..MinStack
        /\ \A p \in top'..(MinStack - 1) : a[p] \in Value
    BY <1>1, <1>6, <1>9, <1>11 DEF IInv
  <2> QED BY <1>1, <1>8, <1>9, <2>1, ListChanges
<1>13. ListIn(a, top') = [i \in 1..n |-> IF i <= Len(Stacks!list) THEN Stacks!list[i] ELSE Nil]
  <2>1. ListIn(a, top') = [i \in 1..n |-> a[MinStack - i]]
    <3>1. MinStack - top' = n
      BY <1>3, <1>6, <1>9
    <3> QED BY <3>1 DEF ListIn, StkEntry
  <2> QED BY <1>10, <2>1
<1>14. Stacks!SetTop
  BY <1>1, <1>2, <1>6, <1>12, <1>13 DEF Stacks!SetTop, Stacks!Becomes
<1> QED BY <1>12, <1>14 DEF Stacks!Next

-----------------------------------------------------------------------------
(* Calls. *)

LEMMA Prefix ==
    ASSUME NEW S, NEW F, NEW m \in Nat, \A i \in 1..m : F[i] \in S
    PROVE  /\ SubSeq(F, 1, m) \in Seq(S) /\ Len(SubSeq(F, 1, m)) = m
           /\ \A i \in 1..m : SubSeq(F, 1, m)[i] = F[i]
<1>1. /\ SubSeq(F, 1, m) \in Seq(S) /\ Len(SubSeq(F, 1, m)) = IF 1 <= m THEN m - 1 + 1 ELSE 0
      /\ \A i \in 1..(m - 1 + 1) : SubSeq(F, 1, m)[i] = F[1 + i - 1]
  BY SubSeqProperties
<1> QED BY <1>1

IsList(f, n) == f = [k \in 1..n |-> f[k]]

LEMMA SeqIn ==
    ASSUME NEW S, NEW n \in Nat, NEW f, IsList(f, n), \A k \in 1..n : f[k] \in S
    PROVE  f \in Seq(S) /\ Len(f) = n
<1>1. f \in [1..n -> S]
  BY DEF IsList
<1>2. f \in Seq(S)
  BY <1>1, SeqDef
<1> QED BY <1>2, SeqOf DEF IsList

\* All but the last of a sequence.
LEMMA FrontIs ==
    ASSUME NEW n \in Nat \ {0}, NEW F, NEW G, IsList(F, n),
           IsList(G, n - 1), \A k \in 1..(n - 1) : G[k] = F[k]
    PROVE  G = Stacks!Front(F)
<1>1. PICK m \in Nat : m = n - 1
  OBVIOUS
<1> DEFINE S == {F[k] : k \in 1..n}
<1>2. Len(F) = n
  BY SeqOf DEF IsList
<1>3. /\ \A k \in 1..m : F[k] \in S
      /\ \A k \in 1..m : G[k] \in S
  BY <1>1
<1> HIDE DEF S
<1>4. IsList(G, m)
  BY <1>1
<1>5. G \in Seq(S) /\ Len(G) = m
  BY <1>3, <1>4, SeqIn
<1>6. /\ SubSeq(F, 1, m) \in Seq(S) /\ Len(SubSeq(F, 1, m)) = m
      /\ \A k \in 1..m : SubSeq(F, 1, m)[k] = F[k]
  BY <1>3, Prefix
<1>7. G = SubSeq(F, 1, m)
  BY <1>1, <1>5, <1>6, SeqEqual
<1> QED BY <1>1, <1>2, <1>7 DEF Stacks!Front

\* All but the last of a sequence, and two more.
LEMMA FrontAnd ==
    ASSUME NEW n \in Nat \ {0}, NEW F, NEW G, IsList(F, n),
           IsList(G, n + 1), \A k \in 1..(n - 1) : G[k] = F[k]
    PROVE  G = Stacks!Front(F) \o <<G[n], G[n + 1]>>
<1>1. PICK m \in Nat : m = n - 1
  OBVIOUS
<1> DEFINE S == {G[k] : k \in 1..(n + 1)}
           R == SubSeq(F, 1, m)
<1>2. Len(F) = n
  BY SeqOf DEF IsList
<1>3. /\ \A k \in 1..(n + 1) : G[k] \in S
      /\ \A k \in 1..m : F[k] \in S
      /\ G[n] \in S /\ G[n + 1] \in S
  BY <1>1
<1> HIDE DEF S
<1>4. G \in Seq(S) /\ Len(G) = n + 1
  BY <1>3, SeqIn
<1>5. R \in Seq(S) /\ Len(R) = m /\ \A k \in 1..m : R[k] = F[k]
  BY <1>3, Prefix
<1>6. PICK x \in S, y \in S : x = G[n] /\ y = G[n + 1]
  BY <1>3
<1>7. <<x, y>> \in Seq(S) /\ Len(<<x, y>>) = 2 /\ <<x, y>>[1] = x /\ <<x, y>>[2] = y
  BY <1>6
<1>8. PICK T \in Seq(S) : T = <<x, y>>
  BY <1>7
<1> HIDE DEF R
<1>9. /\ R \o T \in Seq(S) /\ Len(R \o T) = n + 1
      /\ \A k \in 1..(n + 1) : (R \o T)[k] = IF k <= m THEN R[k] ELSE T[k - m]
  <2>1. /\ R \o T \in Seq(S) /\ Len(R \o T) = Len(R) + Len(T)
        /\ \A k \in 1..(Len(R) + Len(T)) : (R \o T)[k] = IF k <= Len(R) THEN R[k] ELSE T[k - Len(R)]
    BY <1>5, <1>8, ConcatProperties
  <2>2. Len(R) = m /\ Len(R) + Len(T) = n + 1
    BY <1>1, <1>5, <1>7, <1>8
  <2> QED BY <2>1, <2>2
<1>10. ASSUME NEW k \in 1..(n + 1) PROVE G[k] = (R \o T)[k]
  <2>1. CASE k < n
    <3>1. k <= m /\ k \in 1..m /\ k \in 1..(n - 1)
      BY <1>1, <2>1
    <3> QED BY <1>5, <1>9, <3>1
  <2>2. CASE k = n
    <3>1. ~(k <= m) /\ k - m = 1
      BY <1>1, <2>2
    <3> QED BY <1>6, <1>7, <1>8, <1>9, <2>2, <3>1
  <2>3. CASE k = n + 1
    <3>1. ~(k <= m) /\ k - m = 2
      BY <1>1, <2>3
    <3> QED BY <1>6, <1>7, <1>8, <1>9, <2>3, <3>1
  <2>4. k < n \/ k = n \/ k = n + 1
    OBVIOUS
  <2> QED BY <2>1, <2>2, <2>3, <2>4
<1>11. G = R \o T
  BY <1>4, <1>9, <1>10, SeqEqual
<1> QED BY <1>1, <1>2, <1>6, <1>8, <1>11 DEF R, Stacks!Front

LEMMA Changed ==
    ASSUME NEW S, NEW s \in Seq(S), NEW d \in 1..Len(s), NEW x \in S
    PROVE  LET r == [s EXCEPT ![d] = x]
           IN  /\ r \in Seq(S) /\ Len(r) = Len(s) /\ r[d] = x
               /\ \A k \in 1..Len(s) : k # d => r[k] = s[k]
<1> DEFINE r == [s EXCEPT ![d] = x]
           n == Len(s)
<1>1. n \in Nat /\ DOMAIN s = 1..n /\ s \in [1..n -> S]
  BY SeqDef, LenProperties
<1>2. r \in [1..n -> S] /\ r[d] = x /\ \A k \in 1..n : k # d => r[k] = s[k]
  <2> HIDE DEF n
  <2> QED BY <1>1
<1> HIDE DEF r, n
<1>3. r \in Seq(S)
  BY <1>1, <1>2, SeqDef
<1>4. Len(r) = n
  BY <1>1, <1>2, <1>3, LenProperties
<1> QED BY <1>2, <1>3, <1>4 DEF r, n

LEMMA ChangedAndOne ==
    ASSUME NEW S, NEW s \in Seq(S), NEW d \in Nat \ {0}, Len(s) = d, NEW x \in S, NEW y \in S
    PROVE  LET r == Append([s EXCEPT ![d] = x], y)
           IN  /\ r \in Seq(S) /\ Len(r) = d + 1 /\ r[d] = x /\ r[d + 1] = y
               /\ \A k \in 1..d : k # d => r[k] = s[k]
<1>1. d \in 1..Len(s)
  OBVIOUS
<1>2. PICK m : m = [s EXCEPT ![d] = x]
  OBVIOUS
<1> DEFINE r == [s EXCEPT ![d] = x]
<1>0. /\ r \in Seq(S) /\ Len(r) = Len(s) /\ r[d] = x
      /\ \A k \in 1..Len(s) : k # d => r[k] = s[k]
  <2> HIDE DEF r
  <2> QED BY <1>1, Changed DEF r
<1>5. m \in Seq(S) /\ Len(m) = d /\ m[d] = x /\ \A k \in 1..d : k # d => m[k] = s[k]
  BY <1>0, <1>2
<1>3. /\ Append(m, y) \in Seq(S) /\ Len(Append(m, y)) = d + 1
      /\ \A k \in 1..d : Append(m, y)[k] = m[k]
      /\ Append(m, y)[d + 1] = y
  BY <1>5, AppendProperties
<1>4. d \in 1..d
  OBVIOUS
<1> HIDE DEF r
<1> QED BY <1>2, <1>3, <1>4, <1>5

\* What a caller wants does not change its list.
Wanting(f, call) == [f EXCEPT !.base = call.base, !.nresults = call.nresults]

LEMMA FrameCalls ==
    ASSUME NEW c, NEW w, w.kind = c.kind, w.got = c.got, NEW array, NEW t, NEW f,
           f = FrameOf(c, array, t)
    PROVE  FrameOf(w, array, t) = Wanting(f, w.call)
<1>1. PICK k, l, b, n, b2, n2 :
          /\ l = IF c.kind = "lua" THEN c.got ELSE ListIn(array, t)
          /\ k = c.kind /\ b = c.call.base /\ n = c.call.nresults
          /\ b2 = w.call.base /\ n2 = w.call.nresults
  OBVIOUS
<1>2. /\ f = [kind |-> k, list |-> l, base |-> b, nresults |-> n]
      /\ FrameOf(w, array, t) = [kind |-> k, list |-> l, base |-> b2, nresults |-> n2]
  BY <1>1 DEF FrameOf
<1>3. [[kind |-> k, list |-> l, base |-> b, nresults |-> n] EXCEPT !.base = b2]
          = [kind |-> k, list |-> l, base |-> b2, nresults |-> n]
  OBVIOUS
<1>4. [[kind |-> k, list |-> l, base |-> b2, nresults |-> n] EXCEPT !.nresults = n2]
          = [kind |-> k, list |-> l, base |-> b2, nresults |-> n2]
  OBVIOUS
<1> QED BY <1>1, <1>2, <1>3, <1>4 DEF Wanting

\* A function is called: the activation of the caller keeps where it wants the
\* results, and the callee has a new array if it is a C function.
LEMMA Begins ==
    ASSUME IInv, Running, Depth < MaxDepth,
           NEW c \in Call0, NEW act \in Activation, act.oldstack = stack, act.oldtop = top,
           act.call = NoCall, act.kind \in {"c", "lua"},
           IF calls[Depth].kind = "lua" THEN c = NoCall
           ELSE c.base <= MinStack - top /\ (c.base = 0 => c = NoCall),
           calls' = Append([calls EXCEPT ![Depth] = [calls[Depth] EXCEPT !.call = c]], act),
           Memory', \A s \in 0..Depth : memory'[s] = memory[s],
           IF act.kind = "lua" THEN stack' = stack /\ top' = top
           ELSE /\ stack' = Depth + 1 /\ top' \in 0..MinStack
                /\ \A p \in top'..(MinStack - 1) : memory'[Depth + 1][p] \in Value,
           UNCHANGED <<genv, ret, status>>
    PROVE  /\ IInv' /\ Results' = Results
           /\ Frames' = Stacks!Front(Frames) \o
                  <<[Frames[Depth] EXCEPT !.base = c.base, !.nresults = c.nresults],
                    [kind |-> act.kind,
                     list |-> IF act.kind = "lua" THEN act.got ELSE ListIn(memory'[stack'], top'),
                     base |-> 0, nresults |-> 0]>>
<1>1. PICK d \in Nat \ {0} : d = Depth /\ d < MaxDepth /\ d \in 1..MaxDepth
  BY Constants DEF IInv, Activations
<1>2. calls \in Seq(Activation) /\ Len(calls) = d
  BY <1>1 DEF IInv, Activations, Depth
<1>3. ret = <<>> /\ status = "running" /\ ret' = <<>>
  BY DEF Running
<1> DEFINE caller == [calls[d] EXCEPT !.call = c]
<1>4. calls[d] \in Activation /\ caller \in Activation /\ caller.call = c
      /\ caller.kind = calls[d].kind /\ caller.oldstack = calls[d].oldstack
      /\ caller.oldtop = calls[d].oldtop /\ caller.got = calls[d].got
  <2>1. calls[d] \in Activation
    BY <1>1, <1>2, ElementOfSeq
  <2> QED BY <2>1 DEF Activation
<1>5. calls' = Append([calls EXCEPT ![d] = caller], act)
  BY <1>1
<1> HIDE DEF caller
<1>6. PICK s \in Seq(Activation), w \in Activation : s = calls /\ w = caller /\ Len(s) = d
  BY <1>2, <1>4
<1>7. /\ calls' \in Seq(Activation) /\ Len(calls') = d + 1
      /\ calls'[d] = caller /\ calls'[d + 1] = act
      /\ \A k \in 1..d : k # d => calls'[k] = calls[k]
  <2>1. calls' = Append([s EXCEPT ![d] = w], act)
    BY <1>5, <1>6
  <2>2. LET r == Append([s EXCEPT ![d] = w], act)
        IN  /\ r \in Seq(Activation) /\ Len(r) = d + 1 /\ r[d] = w /\ r[d + 1] = act
            /\ \A k \in 1..d : k # d => r[k] = s[k]
    BY <1>6, ChangedAndOne
  <2> QED BY <1>6, <2>1, <2>2
<1>8. Depth' = d + 1
  BY <1>7 DEF Depth
<1>9. /\ \A k \in 1..d : k # d => calls'[k] = calls[k]
      /\ calls'[d] = caller
  BY <1>7
<1>10. \A k \in 1..d : StackOf(k)' = StackOf(k) /\ TopOf(k)' = TopOf(k)
  <2> SUFFICES ASSUME NEW k \in 1..d PROVE StackOf(k)' = StackOf(k) /\ TopOf(k)' = TopOf(k)
    OBVIOUS
  <2>1. k # d + 1
    BY <1>1
  <2>2. StackOf(k)' = calls'[k + 1].oldstack /\ TopOf(k)' = calls'[k + 1].oldtop
    BY <1>8, <2>1 DEF StackOf, TopOf
  <2>3. CASE k = d
    BY <1>1, <1>7, <2>2, <2>3 DEF StackOf, TopOf
  <2>4. CASE k # d
    <3>1. k + 1 \in 1..d
      BY <1>1, <2>4
    <3>2. calls'[k + 1].oldstack = calls[k + 1].oldstack
          /\ calls'[k + 1].oldtop = calls[k + 1].oldtop
      BY <1>4, <1>9, <3>1
    <3> QED BY <1>1, <2>2, <2>4, <3>2 DEF StackOf, TopOf
  <2> QED BY <2>3, <2>4
<1>11. \A k \in 1..d : /\ Listed(k) /\ StackOf(k) \in 0..d
                       /\ memory'[StackOf(k)] = memory[StackOf(k)]
  <2> SUFFICES ASSUME NEW k \in 1..d
               PROVE  Listed(k) /\ StackOf(k) \in 0..d
    BY <1>1
  <2>1. Listed(k)
    BY <1>1 DEF IInv
  <2>2. StackOf(k) \in 0..k
    BY <2>1 DEF Listed
  <2> QED BY <1>1, <2>1, <2>2
<1>12. Activations'
  <2>1. \A k \in 1..(d + 1) : calls'[k].kind = "host" <=> k = 1
    <3> SUFFICES ASSUME NEW k \in 1..(d + 1) PROVE calls'[k].kind = "host" <=> k = 1
      OBVIOUS
    <3>1. CASE k = d + 1
      BY <1>1, <1>7, <3>1
    <3>2. CASE k # d + 1
      <4>1. k \in 1..d /\ (calls[k].kind = "host" <=> k = 1)
        BY <1>1, <3>2 DEF IInv, Activations
      <4> QED BY <1>4, <1>9, <4>1
    <3> QED BY <3>1, <3>2
  <2>2. d + 1 \in 1..MaxDepth
    BY <1>1, Constants
  <2> QED BY <1>7, <1>8, <2>1, <2>2 DEF Activations, Depth
<1>13. ASSUME NEW k \in 1..(d + 1) PROVE Listed(k)'
  <2>1. CASE k = d + 1
    <3>1. StackOf(k)' = stack' /\ TopOf(k)' = top' /\ calls'[k] = act
      BY <1>7, <1>8, <2>1 DEF StackOf, TopOf
    <3>2. CASE act.kind = "lua"
      <4>1. stack \in 0..k /\ top \in 0..MinStack
        <5>1. StackOf(d) = stack /\ TopOf(d) = top /\ Listed(d)
          BY <1>1, <1>11 DEF StackOf, TopOf
        <5>2. stack \in 0..d /\ top \in 0..MinStack
          BY <5>1 DEF Listed
        <5> QED BY <1>1, <2>1, <5>2
      <4> QED BY <3>1, <3>2, <4>1 DEF Listed
    <3>3. CASE act.kind # "lua"
      <4>1. /\ stack' = k /\ top' \in 0..MinStack
            /\ \A p \in top'..(MinStack - 1) : memory'[k][p] \in Value
        BY <1>1, <2>1, <3>3
      <4>2. k \in 0..k /\ Own(k) = k
        BY <1>1, <2>1 DEF Own
      <4>3. act.call.base <= MinStack - top'
        <5>1. act.call.base = 0
          BY DEF NoCall
        <5>2. \A t \in 0..MinStack : 0 <= MinStack - t
          <6>1. MinStack \in Nat
            BY Constants
          <6> QED BY <6>1
        <5>3. 0 <= MinStack - top'
          BY <4>1, <5>2, Zenon
        <5> QED BY <5>1, <5>3
      <4> QED BY <3>1, <3>3, <4>1, <4>2, <4>3 DEF Listed
    <3> QED BY <3>2, <3>3
  <2>2. CASE k # d + 1
    <3>1. k \in 1..d
      BY <1>1, <2>2
    <3>2. /\ StackOf(k)' = StackOf(k) /\ TopOf(k)' = TopOf(k) /\ Listed(k)
          /\ memory'[StackOf(k)] = memory[StackOf(k)]
      BY <1>10, <1>11, <3>1
    <3>3. CASE k # d
      BY <1>9, <3>1, <3>2, <3>3 DEF Listed
    <3>4. CASE k = d
      <4>1. TopOf(k) = top /\ calls'[k] = caller
        BY <1>1, <1>9, <3>4 DEF TopOf
      <4>2. /\ caller.kind = calls[k].kind /\ caller.oldstack = calls[k].oldstack
            /\ caller.oldtop = calls[k].oldtop /\ caller.call = c
            /\ IF calls[k].kind = "lua" THEN c = NoCall
               ELSE c.base <= MinStack - TopOf(k) /\ (c.base = 0 => c = NoCall)
        BY <1>1, <1>4, <3>4, <4>1
      <4> QED BY <3>2, <4>1, <4>2 DEF Listed
    <3> QED BY <3>3, <3>4
  <2> QED BY <2>1, <2>2
<1>14. IInv'
  <2>1. \A k \in 1..Depth' : Listed(k)'
    BY <1>8, <1>13
  <2>2. (calls[Depth].call = NoCall)'
    BY <1>7, <1>8
  <2> QED BY <1>3, <1>12, <2>1, <2>2 DEF IInv, Returned
<1> DEFINE x == [Frames[d] EXCEPT !.base = c.base, !.nresults = c.nresults]
           y == [kind |-> act.kind,
                 list |-> IF act.kind = "lua" THEN act.got ELSE ListIn(memory'[stack'], top'),
                 base |-> 0, nresults |-> 0]
<1>15. Frames' = [k \in 1..(d + 1) |-> IF k < d THEN Frames[k] ELSE IF k = d THEN x ELSE y]
  <2>1. Frames' = [k \in 1..(d + 1) |-> FrameOf(calls'[k], memory'[StackOf(k)'], TopOf(k)')]
    BY <1>8 DEF Frames
  <2>2. \A k \in 1..d : Frames[k] = FrameOf(calls[k], memory[StackOf(k)], TopOf(k))
    BY <1>1 DEF Frames
  <2>3. ASSUME NEW k \in 1..(d + 1)
        PROVE  FrameOf(calls'[k], memory'[StackOf(k)'], TopOf(k)')
                   = IF k < d THEN Frames[k] ELSE IF k = d THEN x ELSE y
    <3>1. CASE k < d
      <4>1. k \in 1..d /\ k # d
        BY <1>1, <3>1
      <4> QED BY <1>9, <1>10, <1>11, <2>2, <3>1, <4>1
    <3>2. CASE k = d
      <4>1. k \in 1..d /\ ~(k < d)
        BY <1>1, <3>2
      <4>2. FrameOf(calls'[k], memory'[StackOf(k)'], TopOf(k)')
                = FrameOf(caller, memory[StackOf(k)], TopOf(k))
        BY <1>9, <1>10, <1>11, <3>2, <4>1
      <4>3. Frames[k] = FrameOf(calls[k], memory[StackOf(k)], TopOf(k))
        BY <2>2, <4>1
      <4>4. FrameOf(caller, memory[StackOf(k)], TopOf(k)) = x
        <5>1. PICK o, v, array, t : o = calls[k] /\ v = caller
                                    /\ array = memory[StackOf(k)] /\ t = TopOf(k)
          OBVIOUS
        <5>2. v.kind = o.kind /\ v.got = o.got /\ v.call = c
          BY <1>4, <3>2, <5>1
        <5>3. PICK f : f = FrameOf(o, array, t)
          OBVIOUS
        <5>4. FrameOf(v, array, t) = Wanting(f, v.call)
          BY <5>2, <5>3, FrameCalls
        <5>5. f = Frames[d] /\ FrameOf(v, array, t) = FrameOf(caller, memory[StackOf(k)], TopOf(k))
          BY <3>2, <4>3, <5>1, <5>3
        <5> QED BY <5>2, <5>4, <5>5 DEF Wanting
      <4> HIDE DEF x, y
      <4> QED BY <3>2, <4>1, <4>2, <4>4
    <3>3. CASE k = d + 1
      <4>1. StackOf(k)' = stack' /\ TopOf(k)' = top' /\ calls'[k] = act
        BY <1>7, <1>8, <3>3 DEF StackOf, TopOf
      <4>2. FrameOf(calls'[k], memory'[StackOf(k)'], TopOf(k)') = FrameOf(act, memory'[stack'], top')
        BY <4>1
      <4>3. ~(k < d) /\ k # d
        BY <1>1, <3>3
      <4>4. act.call.base = 0 /\ act.call.nresults = 0
        BY DEF NoCall
      <4>5. FrameOf(act, memory'[stack'], top') = y
        BY <4>4 DEF FrameOf
      <4> HIDE DEF x, y
      <4> QED BY <4>2, <4>3, <4>5
    <3>4. k < d \/ k = d \/ k = d + 1
      BY <1>1
    <3> QED BY <3>1, <3>2, <3>3, <3>4
  <2> HIDE DEF x, y
  <2> QED BY <2>1, <2>3
<1>16. Frames' = Stacks!Front(Frames) \o <<x, y>>
  <2>1. Frames = [k \in 1..d |-> Frames[k]]
    BY <1>1 DEF Frames
  <2> HIDE DEF x, y
  <2>2. PICK F, G : F = Frames /\ G = Frames'
    OBVIOUS
  <2>3. IsList(F, d) /\ IsList(G, d + 1)
    BY <1>15, <2>1, <2>2 DEF IsList
  <2>4. /\ \A k \in 1..(d - 1) : G[k] = F[k]
        /\ G[d] = x /\ G[d + 1] = y
    <3>1. /\ \A k \in 1..(d - 1) : k \in 1..(d + 1) /\ k < d
          /\ d \in 1..(d + 1) /\ ~(d < d) /\ d + 1 \in 1..(d + 1) /\ ~(d + 1 < d) /\ d + 1 # d
      BY <1>1
    <3> QED BY <1>15, <2>2, <3>1
  <2>5. G = Stacks!Front(F) \o <<G[d], G[d + 1]>>
    BY <2>3, <2>4, FrontAnd
  <2> QED BY <2>2, <2>4, <2>5
<1>17. Results' = Results
  BY <1>3 DEF Results
<1> QED BY <1>1, <1>14, <1>16, <1>17

\* Generated code is entered: it needs no array.
LEMMA InvokeLuaStep ==
    ASSUME IInv, Running, Depth < MaxDepth, NEW c \in Call0, NEW args \in Seq(Value),
           IF calls[Depth].kind = "lua" THEN c = NoCall
           ELSE c.base <= MinStack - top /\ (c.base = 0 => c = NoCall),
           Len(args) <= MinStack,
           InvokeLua([calls[Depth] EXCEPT !.call = c], args)
    PROVE  IInv' /\ Stacks!Begin(c.base, c.nresults, "lua", args)
<1>1. Depth \in 1..MaxDepth /\ stack \in 0..MaxDepth /\ top \in 0..MinStack
  <2>1. Depth \in 1..MaxDepth /\ Listed(Depth)
    BY DEF IInv, Activations
  <2>2. stack \in 0..Depth /\ top \in 0..MinStack
    BY <2>1 DEF Listed, StackOf, TopOf
  <2> QED BY <2>1, <2>2, Constants
<1>2. PICK act : act = LuaActivation(args)
  OBVIOUS
<1>3. /\ act \in Activation /\ act.kind = "lua" /\ act.oldstack = stack /\ act.oldtop = top
      /\ act.call = NoCall /\ act.got = args
  <2>1. NoCall \in Call0
    BY Constants DEF NoCall, Call0
  <2> QED BY <1>1, <1>2, <2>1 DEF LuaActivation, Activation
<1>4. /\ calls' = Append([calls EXCEPT ![Depth] = [calls[Depth] EXCEPT !.call = c]], act)
      /\ UNCHANGED <<memory, stack, top, genv, ret, status>>
  BY <1>2 DEF InvokeLua
<1>5. Memory' /\ \A s \in 0..Depth : memory'[s] = memory[s]
  BY <1>4 DEF IInv, Memory
<1> DEFINE y == [kind |-> act.kind,
                 list |-> IF act.kind = "lua" THEN act.got ELSE ListIn(memory'[stack'], top'),
                 base |-> 0, nresults |-> 0]
<1>6. /\ IInv' /\ Results' = Results
      /\ Frames' = Stacks!Front(Frames) \o
             <<[Frames[Depth] EXCEPT !.base = c.base, !.nresults = c.nresults], y>>
  BY <1>3, <1>4, <1>5, Begins
<1>7. y = [kind |-> "lua", list |-> args, base |-> 0, nresults |-> 0]
  BY <1>3
<1> HIDE DEF y
<1> QED BY <1>4, <1>6, <1>7, MapNow DEF Stacks!Begin

\* A C function is entered: its arguments are the list in its array.
LEMMA InvokeCStep ==
    ASSUME IInv, Running, Depth < MaxDepth, NEW c \in Call0, NEW args \in Seq(Value),
           IF calls[Depth].kind = "lua" THEN c = NoCall
           ELSE c.base <= MinStack - top /\ (c.base = 0 => c = NoCall),
           InvokeC([calls[Depth] EXCEPT !.call = c], args)
    PROVE  /\ IInv'
           /\ \/ Len(args) > MinStack /\ Stacks!Fails
              \/ Stacks!Begin(c.base, c.nresults, "c", args)
<1>1. Depth \in 1..MaxDepth /\ stack \in 0..MaxDepth /\ top \in 0..MinStack /\ Depth + 1 \in 1..MaxDepth
  <2>1. Depth \in 1..MaxDepth /\ Listed(Depth)
    BY DEF IInv, Activations
  <2>2. stack \in 0..Depth /\ top \in 0..MinStack
    BY <2>1 DEF Listed, StackOf, TopOf
  <2> QED BY <2>1, <2>2, Constants
<1>2. CASE Len(args) > MinStack
  <2>1. Abort
    BY <1>2 DEF InvokeC
  <2> QED BY <1>2, <2>1, AbortStep
<1>3. CASE ~(Len(args) > MinStack)
  <2>1. PICK act, n, m : act = CActivation /\ n = Len(args) /\ m = MinStack
    OBVIOUS
  <2>2. /\ act \in Activation /\ act.kind = "c" /\ act.oldstack = stack /\ act.oldtop = top
        /\ act.call = NoCall
    <3>1. NoCall \in Call0 /\ <<>> \in Seq(Value)
      BY Constants DEF NoCall, Call0
    <3> QED BY <1>1, <2>1, <3>1 DEF CActivation, Activation
  <2>3. /\ n \in 0..m /\ m \in Nat /\ DOMAIN args = 1..n /\ \A i \in 1..n : args[i] \in Value
    <3>1. n \in Nat /\ DOMAIN args = 1..n
      BY <2>1, LenProperties
    <3>2. \A i \in 1..n : args[i] \in Value
      BY <2>1, ElementOfSeq
    <3> QED BY <1>3, <2>1, <3>1, <3>2, Constants
  <2> DEFINE a == [p \in 0..(m - 1) |-> IF m - p \in 1..n THEN args[m - p] ELSE Junk]
             t == m - n
  <2>4. /\ stack' = Depth + 1 /\ top' = t
        /\ calls' = Append([calls EXCEPT ![Depth] = [calls[Depth] EXCEPT !.call = c]], act)
        /\ UNCHANGED <<genv, ret, status>>
    BY <1>3, <2>1 DEF InvokeC
  <2>5. memory' = [memory EXCEPT ![Depth + 1] = a]
    <3>1. DOMAIN memory[Depth + 1] = 0..(m - 1)
      <4>1. Depth + 1 \in 0..MaxDepth
        BY <1>1
      <4>2. Size(Depth + 1) = m /\ Depth + 1 \in JitStack..MaxDepth
        BY <2>1, <4>1, Constants
      <4>3. memory[Depth + 1] \in [0..(Size(Depth + 1) - 1) -> Value \cup {Junk}]
        BY <4>2 DEF IInv, Memory
      <4> QED BY <4>2, <4>3
    <3> QED BY <1>3, <2>1, <2>3, <3>1 DEF InvokeC
  <2>6. a \in Array /\ t \in 0..MinStack /\ \A p \in t..(m - 1) : a[p] \in Value
    <3>1. a \in Array
      BY <2>1, <2>3 DEF Array
    <3>2. \A p \in t..(m - 1) : m - p \in 1..n /\ p \in 0..(m - 1)
      BY <2>3
    <3>3. \A p \in t..(m - 1) : a[p] \in Value
      <4> HIDE DEF t
      <4> QED BY <2>3, <3>2
    <3> HIDE DEF a
    <3> QED BY <2>1, <2>3, <3>1, <3>3
  <2>7. \A i \in 1..n : a[m - i] = args[i]
    <3>1. \A i \in 1..n : m - i \in 0..(m - 1) /\ m - (m - i) = i
      BY <2>3
    <3> QED BY <3>1
  <2> HIDE DEF a
  <2>8. Memory' /\ memory'[Depth + 1] = a /\ \A s \in 0..Depth : memory'[s] = memory[s]
    <3>1. Depth + 1 \in 0..MaxDepth /\ \A s \in 0..Depth : s # Depth + 1 /\ s \in 0..MaxDepth
      <4>1. PICK d : d = Depth
        OBVIOUS
      <4>2. d + 1 \in 0..MaxDepth /\ \A s \in 0..d : s # d + 1 /\ s \in 0..MaxDepth
        BY <1>1, <4>1, Constants
      <4> QED BY <4>1, <4>2
    <3>2. Depth + 1 \in DOMAIN memory /\ \A s \in 0..Depth : s \in DOMAIN memory
      BY <3>1, Constants DEF IInv, Memory
    <3>3. Size(Depth + 1) = MinStack
      BY <3>1, Constants
    <3> QED BY <2>5, <2>6, <3>1, <3>2, <3>3 DEF IInv, Memory, Array
  <2> DEFINE y == [kind |-> act.kind,
                   list |-> IF act.kind = "lua" THEN act.got ELSE ListIn(memory'[stack'], top'),
                   base |-> 0, nresults |-> 0]
  <2>9. /\ top' \in 0..MinStack /\ act.kind \in {"c", "lua"}
        /\ \A p \in top'..(MinStack - 1) : memory'[Depth + 1][p] \in Value
    <3> HIDE DEF t
    <3> QED BY <2>1, <2>2, <2>4, <2>6, <2>8
  <2>10. /\ IInv' /\ Results' = Results
        /\ Frames' = Stacks!Front(Frames) \o
               <<[Frames[Depth] EXCEPT !.base = c.base, !.nresults = c.nresults], y>>
    BY <2>2, <2>4, <2>8, <2>9, Begins
  <2>11. y = [kind |-> "c", list |-> args, base |-> 0, nresults |-> 0]
    <3>1. PICK l, u : l = ListIn(a, u) /\ u = t
      OBVIOUS
    <3>2. /\ l \in Seq(Value) /\ Len(l) = MinStack - u
          /\ \A i \in 1..(MinStack - u) : l[i] = a[MinStack - i]
      BY <2>1, <2>6, <3>1, ListOfValues
    <3>3. MinStack - u = n
      BY <2>1, <2>3, <3>1
    <3>4. l = args
      BY <2>1, <2>7, <3>2, <3>3, SeqEqual
    <3>5. ListIn(memory'[stack'], top') = args
      BY <2>4, <2>8, <3>1, <3>4
    <3> QED BY <2>2, <3>5
  <2> HIDE DEF y
  <2>12. Len(args) <= MinStack
    BY <2>1, <2>3
  <2> QED BY <2>4, <2>10, <2>11, <2>12, MapNow DEF Stacks!Begin
<1> QED BY <1>2, <1>3

LEMMA CallStep == IInv /\ Call => IInv' /\ Stacks!Next
<1> SUFFICES ASSUME IInv, Call PROVE IInv' /\ Stacks!Next
  OBVIOUS
<1>1. /\ InC /\ Running /\ Depth < MaxDepth /\ calls[Depth].kind # "lua"
  BY DEF Call, InC
<1>2. /\ Stacks!InC /\ Stacks!list \in Seq(Value) /\ Len(Stacks!list) = GetTop
      /\ \A i \in 1..GetTop : Stacks!list[i] = memory[stack][MinStack - i]
      /\ GetTop = MinStack - top /\ GetTop \in 0..MinStack /\ top \in 0..MinStack
  BY <1>1, MapInC
<1>3. MinStack \in Nat
  BY Constants
<1>4. PICK nargs \in 0..(GetTop - 1), nresults \in 0..MinStack :
        LET base == GetTop - nargs
            f == memory[stack][StkEntry(base)]
            caller == [calls[Depth] EXCEPT !.call = [nresults |-> nresults, base |-> base]]
        IN  \/ f = CFun /\ InvokeC(caller, Passed(base, nargs))
            \/ f = LFun /\ InvokeLua(caller, Passed(base, nargs))
  BY DEF Call
<1>5. PICK n, L : n = GetTop /\ L = Stacks!list
  OBVIOUS
<1>6. PICK base : base = n - nargs
  OBVIOUS
<1>7. base \in 1..n /\ n \in 0..MinStack /\ base \in 0..MinStack /\ nargs = n - base
      /\ L \in Seq(Value) /\ Len(L) = n /\ n = MinStack - top
  <2>1. /\ n \in 0..MinStack /\ L \in Seq(Value) /\ Len(L) = n /\ n = MinStack - top
        /\ nargs \in 0..(n - 1)
    BY <1>2, <1>4, <1>5
  <2>2. base \in 1..n /\ base \in 0..MinStack /\ nargs = n - base
    BY <1>3, <1>6, <2>1
  <2> QED BY <2>1, <2>2
<1>8. PICK args, c : args = Passed(base, nargs) /\ c = [nresults |-> nresults, base |-> base]
  OBVIOUS
<1>9. args = SubSeq(L, base + 1, n) /\ args \in Seq(Value) /\ Len(args) = nargs
  <2>1. IsList(args, nargs) /\ \A i \in 1..nargs : args[i] = memory[stack][MinStack - base - i]
    BY <1>8 DEF Passed, StkEntry, IsList
  <2>2. ASSUME NEW i \in 1..nargs PROVE args[i] = L[base + i] /\ L[base + i] \in Value
    <3>1. base + i \in 1..n /\ MinStack - base - i = MinStack - (base + i)
      BY <1>3, <1>7
    <3>2. L[base + i] \in Value
      BY <1>7, <3>1, ElementOfSeq
    <3> QED BY <1>2, <1>5, <2>1, <3>1, <3>2
  <2>3. nargs \in Nat
    BY <1>7
  <2>4. args \in Seq(Value) /\ Len(args) = nargs
    <3>1. \A i \in 1..nargs : args[i] \in Value
      BY <2>2
    <3> QED BY <2>1, <2>3, <3>1, SeqIn
  <2>5. PICK lo \in Int : lo = base + 1
    BY <1>7
  <2>6. /\ SubSeq(L, lo, n) \in Seq(Value)
        /\ Len(SubSeq(L, lo, n)) = IF lo <= n THEN n - lo + 1 ELSE 0
        /\ \A i \in 1..(n - lo + 1) : SubSeq(L, lo, n)[i] = L[lo + i - 1]
    <3>1. \A i \in lo..n : L[i] \in Value
      <4>1. \A i \in lo..n : i \in 1..n
        BY <1>7, <2>5
      <4> QED BY <1>7, <4>1, ElementOfSeq
    <3>2. n \in Int
      BY <1>7
    <3> QED BY <2>5, <3>1, <3>2, SubSeqProperties
  <2>7. /\ Len(SubSeq(L, lo, n)) = nargs
        /\ \A i \in 1..nargs : SubSeq(L, lo, n)[i] = L[base + i]
    <3>1. n - lo + 1 = nargs /\ (lo <= n \/ nargs = 0) /\ \A i \in 1..nargs : lo + i - 1 = base + i
      BY <1>7, <2>5
    <3> QED BY <2>6, <3>1
  <2> QED BY <2>2, <2>4, <2>5, <2>6, <2>7, SeqEqual
<1>10. c \in Call0 /\ c.base = base /\ c.nresults = nresults
  BY <1>7, <1>8 DEF Call0
<1>11. c.base <= MinStack - top /\ (c.base = 0 => c = NoCall) /\ Len(args) <= MinStack
  <2>1. base <= n /\ base # 0 /\ nargs <= MinStack
    BY <1>3, <1>7
  <2>2. n = MinStack - top
    BY <1>7
  <2> QED BY <1>9, <1>10, <2>1, <2>2
<1>12. memory[stack][StkEntry(base)] = L[base]
  BY <1>2, <1>5, <1>7 DEF StkEntry
<1>13. \/ L[base] = CFun /\ InvokeC([calls[Depth] EXCEPT !.call = c], args)
       \/ L[base] = LFun /\ InvokeLua([calls[Depth] EXCEPT !.call = c], args)
  BY <1>4, <1>5, <1>6, <1>8, <1>12
<1>14. CASE L[base] = CFun /\ InvokeC([calls[Depth] EXCEPT !.call = c], args)
  <2>1. /\ IInv'
        /\ \/ Len(args) > MinStack /\ Stacks!Fails
           \/ Stacks!Begin(c.base, c.nresults, "c", args)
    BY <1>1, <1>9, <1>10, <1>11, <1>14, InvokeCStep
  <2>2. ~(Len(args) > MinStack)
    BY <1>3, <1>7, <1>9
  <2>3. Stacks!Begin(base, nresults, "c", SubSeq(L, base + 1, n))
    BY <1>9, <1>10, <2>1, <2>2
  <2>4. Stacks!Call
    BY <1>2, <1>4, <1>5, <1>7, <1>14, <2>3 DEF Stacks!Call
  <2> QED BY <2>1, <2>4 DEF Stacks!Next
<1>15. CASE L[base] = LFun /\ InvokeLua([calls[Depth] EXCEPT !.call = c], args)
  <2>1. IInv' /\ Stacks!Begin(c.base, c.nresults, "lua", args)
    BY <1>1, <1>9, <1>10, <1>11, <1>15, InvokeLuaStep
  <2>2. Stacks!Begin(base, nresults, "lua", SubSeq(L, base + 1, n))
    BY <1>9, <1>10, <2>1
  <2>3. L[base] # CFun
    BY <1>15, CStackAssumption DEF CStackAssumption
  <2>4. Stacks!Call
    BY <1>2, <1>4, <1>5, <1>7, <1>15, <2>2, <2>3 DEF Stacks!Call
  <2> QED BY <2>1, <2>4 DEF Stacks!Next
<1> QED BY <1>13, <1>14, <1>15

LEMMA ExecuteStep == IInv /\ Execute => IInv' /\ Stacks!Next
<1> SUFFICES ASSUME IInv, Execute PROVE IInv' /\ Stacks!Next
  OBVIOUS
<1>1. /\ InC /\ Running /\ Depth = 1 /\ Depth < MaxDepth /\ ret = <<>> /\ InvokeLua(calls[1], <<>>)
  BY Constants DEF Execute, InC, Running
<1>2. PICK w : w = calls[Depth]
  OBVIOUS
<1>3. w \in Activation /\ w.call = NoCall /\ w.kind # "lua"
  <2>1. calls \in Seq(Activation) /\ Depth \in 1..Len(calls)
    BY <1>1 DEF IInv, Activations, Depth
  <2>2. calls[Depth] \in Activation
    BY <2>1, ElementOfSeq
  <2> QED BY <1>1, <1>2, <2>2 DEF IInv, InC
<1>4. [w EXCEPT !.call = NoCall] = w
  BY <1>3 DEF Activation
<1>5. /\ NoCall \in Call0 /\ NoCall.base = 0 /\ NoCall.nresults = 0 /\ Len(<<>>) <= MinStack
      /\ <<>> \in Seq(Value)
  BY Constants DEF NoCall, Call0
<1>6. NoCall.base <= MinStack - top
  <2>1. top \in 0..MinStack
    BY <1>1, MapInC
  <2>2. \A t \in 0..MinStack : 0 <= MinStack - t
    <3>1. MinStack \in Nat
      BY Constants
    <3> QED BY <3>1
  <2> QED BY <1>5, <2>1, <2>2
<1>7. InvokeLua([calls[Depth] EXCEPT !.call = NoCall], <<>>)
  BY <1>1, <1>2, <1>4
<1>8. IInv' /\ Stacks!Begin(NoCall.base, NoCall.nresults, "lua", <<>>)
  BY <1>1, <1>2, <1>3, <1>5, <1>6, <1>7, InvokeLuaStep
<1>9. Stacks!Execute
  BY <1>1, <1>5, <1>8, MapInC DEF Stacks!Execute
<1> QED BY <1>8, <1>9 DEF Stacks!Next

LEMMA MapInLua ==
    ASSUME IInv, InLua
    PROVE  Stacks!InLua /\ Stacks!Depth = Depth /\ Running
           /\ Frames[Depth].kind = "lua" /\ Depth \in 1..MaxDepth /\ Depth # 1
<1>1. Running /\ ret = <<>> /\ calls[Depth].kind = "lua" /\ status = "running"
  BY DEF InLua, Running
<1>2. Depth \in 1..MaxDepth /\ Frames[Depth].kind = "lua" /\ Depth # 1
  BY <1>1, MapNow DEF IInv, Activations
<1> QED BY <1>1, <1>2, MapNow DEF Stacks!InLua, Stacks!Running

LEMMA LuaDefinesStep == IInv /\ LuaDefines => IInv' /\ Stacks!Next
<1> SUFFICES ASSUME IInv, LuaDefines PROVE IInv' /\ Stacks!Next
  OBVIOUS
<1>1. PICK var \in Name : genv' = [genv EXCEPT ![var] = LFun]
  BY DEF LuaDefines
<1>2. InLua /\ UNCHANGED <<memory, stack, top, calls, ret, status>>
  BY DEF LuaDefines
<1>3. genv' \in [Name -> Value]
  BY <1>1 DEF IInv, Value
<1>4. IInv'
  BY <1>2, <1>3 DEF IInv, Memory, Activations, Listed, Returned, StackOf, TopOf, Depth
<1>5. UNCHANGED <<Frames, Results>>
  BY <1>2 DEF Frames, Results, StackOf, TopOf, Depth
<1>6. Stacks!LuaDefines
  BY <1>1, <1>2, <1>5, MapInLua DEF Stacks!LuaDefines
<1> QED BY <1>4, <1>6 DEF Stacks!Next

LEMMA LuaCallsStep == IInv /\ LuaCalls => IInv' /\ Stacks!Next
<1> SUFFICES ASSUME IInv, LuaCalls PROVE IInv' /\ Stacks!Next
  OBVIOUS
<1>1. InLua /\ Depth < MaxDepth
  BY DEF LuaCalls
<1>2. PICK n \in 0..MaxValues : \E args \in [1..n -> Number \cup {CFun}] : InvokeC(calls[Depth], args)
  BY DEF LuaCalls
<1>3. PICK args \in [1..n -> Number \cup {CFun}] : InvokeC(calls[Depth], args)
  BY <1>2
<1>4. n \in Nat /\ MaxValues \in Nat /\ n <= MaxValues
  BY Constants
<1>5. args \in Seq(Value) /\ Len(args) = n
  <2>1. IsList(args, n) /\ \A i \in 1..n : args[i] \in Value
    BY DEF IsList, Value
  <2> QED BY <1>4, <2>1, SeqIn
<1>6. /\ Stacks!InLua /\ Stacks!Depth = Depth /\ Running /\ calls[Depth].kind = "lua"
      /\ Depth \in 1..MaxDepth
  BY <1>1, MapInLua DEF InLua
<1>7. PICK w : w = calls[Depth]
  OBVIOUS
<1>8. w \in Activation /\ w.call = NoCall
  <2>1. calls \in Seq(Activation) /\ Depth \in 1..Len(calls)
    BY <1>6 DEF IInv, Activations, Depth
  <2>2. calls[Depth] \in Activation
    BY <2>1, ElementOfSeq
  <2>3. ret = <<>>
    BY <1>6 DEF Running
  <2> QED BY <1>7, <2>2, <2>3 DEF IInv
<1>9. [w EXCEPT !.call = NoCall] = w
  BY <1>8 DEF Activation
<1>10. /\ NoCall \in Call0 /\ NoCall.base = 0 /\ NoCall.nresults = 0
  BY Constants DEF NoCall, Call0
<1>11. InvokeC([calls[Depth] EXCEPT !.call = NoCall], args)
  BY <1>3, <1>7, <1>9
<1>12. /\ IInv'
       /\ \/ Len(args) > MinStack /\ Stacks!Fails
          \/ Stacks!Begin(NoCall.base, NoCall.nresults, "c", args)
  BY <1>1, <1>5, <1>6, <1>10, <1>11, InvokeCStep
<1>13. CASE Len(args) > MinStack /\ Stacks!Fails
  <2>1. MaxValues > MinStack
    BY <1>4, <1>5, <1>13, Constants
  <2> QED BY <1>6, <1>12, <1>13, <2>1 DEF Stacks!Abort, Stacks!Next
<1>14. CASE Stacks!Begin(NoCall.base, NoCall.nresults, "c", args)
  <2>1. args \in Stacks!Lists(MaxValues, Number \cup {CFun})
    BY <1>3 DEF Stacks!Lists
  <2>2. Stacks!LuaCalls
    BY <1>6, <1>10, <1>14, <2>1 DEF Stacks!LuaCalls
  <2> QED BY <1>12, <2>2 DEF Stacks!Next
<1> QED BY <1>12, <1>13, <1>14

-----------------------------------------------------------------------------
(* Returns. *)

LEMMA OneList ==
    ASSUME NEW r, NEW M
    PROVE  [i \in DOMAIN <<r>> |-> ReadFrom(M[<<r>>[i].array], <<r>>[i].src, <<r>>[i].n)]
               = <<ReadFrom(M[r.array], r.src, r.n)>>
OBVIOUS

\* A function returns: its results are where no activation keeps anything.
LEMMA Returning ==
    ASSUME IInv, Running, Depth > 1, NEW r \in Passage, ret' = <<r>>,
           Memory', \A s \in 0..(Depth - 1) : memory'[s] = memory[s],
           calls' = SubSeq(calls, 1, Depth - 1),
           stack' = calls[Depth].oldstack, top' = calls[Depth].oldtop,
           UNCHANGED <<genv, status>>,
           r.array = JitStack \/ r.array = Depth,
           r.n <= Size(r.array), r.src < Size(r.array), r.src - r.n >= -1,
           \A j \in 1..r.n : memory'[r.array][r.src - j + 1] \in Value
    PROVE  /\ IInv' /\ Frames' = Stacks!Front(Frames)
           /\ Results' = <<ReadFrom(memory'[r.array], r.src, r.n)>>
<1>1. PICK d \in Nat \ {0} : d = Depth /\ d \in 1..MaxDepth
  BY Constants DEF IInv, Activations
<1>2. PICK m \in Nat \ {0} : m = d - 1 /\ d = m + 1 /\ m \in 1..MaxDepth
  <2>1. d > 1 /\ d - 1 \in Nat \ {0} /\ d = (d - 1) + 1 /\ d - 1 \in 1..MaxDepth
    BY <1>1, Constants
  <2> QED BY <2>1
<1>3. calls \in Seq(Activation) /\ Len(calls) = d
  BY <1>1 DEF IInv, Activations, Depth
<1>4. /\ calls' \in Seq(Activation) /\ Len(calls') = m
      /\ \A k \in 1..m : calls'[k] = calls[k]
  <2>1. \A k \in 1..m : calls[k] \in Activation
    <3>1. \A k \in 1..m : k \in 1..d
      BY <1>2
    <3> QED BY <1>3, <3>1, ElementOfSeq
  <2>2. calls' = SubSeq(calls, 1, m)
    BY <1>1, <1>2
  <2>3. /\ SubSeq(calls, 1, m) \in Seq(Activation) /\ Len(SubSeq(calls, 1, m)) = m
        /\ \A k \in 1..m : SubSeq(calls, 1, m)[k] = calls[k]
    BY <2>1, Prefix
  <2> QED BY <2>2, <2>3
<1>5. Depth' = m
  BY <1>4 DEF Depth
<1>6. \A k \in 1..m : StackOf(k)' = StackOf(k) /\ TopOf(k)' = TopOf(k)
  <2> SUFFICES ASSUME NEW k \in 1..m PROVE StackOf(k)' = StackOf(k) /\ TopOf(k)' = TopOf(k)
    OBVIOUS
  <2>1. k # d
    BY <1>2
  <2>2. CASE k = m
    BY <1>1, <1>2, <1>5, <2>1, <2>2 DEF StackOf, TopOf
  <2>3. CASE k # m
    <3>1. k + 1 \in 1..m
      BY <1>2, <2>3
    <3> QED BY <1>1, <1>4, <1>5, <2>1, <2>3, <3>1 DEF StackOf, TopOf
  <2> QED BY <2>2, <2>3
<1>7. \A k \in 1..m : Listed(k) /\ memory'[StackOf(k)] = memory[StackOf(k)]
  <2> SUFFICES ASSUME NEW k \in 1..m
               PROVE  Listed(k) /\ memory'[StackOf(k)] = memory[StackOf(k)]
    OBVIOUS
  <2>1. k \in 1..d /\ \A s \in 0..k : s \in 0..(d - 1)
    BY <1>2
  <2>2. Listed(k)
    BY <1>1, <2>1 DEF IInv
  <2>3. StackOf(k) \in 0..k
    BY <2>2 DEF Listed
  <2> QED BY <1>1, <2>1, <2>2, <2>3
<1>8. ASSUME NEW k \in 1..m PROVE Listed(k)'
  <2>1. /\ calls'[k] = calls[k] /\ StackOf(k)' = StackOf(k) /\ TopOf(k)' = TopOf(k)
        /\ Listed(k) /\ memory'[StackOf(k)] = memory[StackOf(k)]
    BY <1>4, <1>6, <1>7
  <2> QED BY <2>1 DEF Listed
<1>9. Activations'
  <2>1. \A k \in 1..m : k \in 1..d
    BY <1>2
  <2>2. \A k \in 1..m : calls'[k].kind = "host" <=> k = 1
    BY <1>1, <1>4, <2>1 DEF IInv, Activations
  <2> QED BY <1>2, <1>4, <1>5, <2>2 DEF Activations, Depth
<1>10. Returned'
  <2>1. r \in Passage /\ <<r>> \in Seq(Passage) /\ Len(<<r>>) = 1 /\ <<r>>[1] = r
    OBVIOUS
  <2>2. r.array = JitStack \/ r.array = Depth' + 1
    BY <1>1, <1>2, <1>5
  <2> QED BY <2>1, <2>2 DEF Returned
<1>11. IInv'
  <2>1. ret' # <<>>
    OBVIOUS
  <2> QED BY <1>5, <1>8, <1>9, <1>10, <2>1 DEF IInv
<1>12. Frames' = Stacks!Front(Frames)
  <2>1. PICK F, G : F = Frames /\ G = Frames'
    OBVIOUS
  <2>2. IsList(F, d) /\ IsList(G, m)
    BY <1>1, <1>5, <2>1 DEF Frames, IsList
  <2>3. \A k \in 1..m : G[k] = F[k]
    <3>1. \A k \in 1..m : k \in 1..d
      BY <1>2
    <3>2. \A k \in 1..m : F[k] = FrameOf(calls[k], memory[StackOf(k)], TopOf(k))
      BY <1>1, <2>1, <3>1 DEF Frames
    <3>3. \A k \in 1..m : G[k] = FrameOf(calls'[k], memory'[StackOf(k)'], TopOf(k)')
      BY <1>5, <2>1 DEF Frames
    <3> QED BY <1>4, <1>6, <1>7, <3>2, <3>3
  <2>4. G = Stacks!Front(F)
    BY <1>2, <2>2, <2>3, FrontIs
  <2> QED BY <2>1, <2>4
<1>13. Results' = <<ReadFrom(memory'[r.array], r.src, r.n)>>
  <2>1. PICK M : M = memory'
    OBVIOUS
  <2>2. Results' = [i \in DOMAIN <<r>> |-> ReadFrom(M[<<r>>[i].array], <<r>>[i].src, <<r>>[i].n)]
    BY <2>1 DEF Results
  <2> QED BY <2>1, <2>2, OneList
<1> QED BY <1>11, <1>12, <1>13

LEMMA CReturnsStep == IInv /\ CReturns => IInv' /\ Stacks!Next
<1> SUFFICES ASSUME IInv, CReturns PROVE IInv' /\ Stacks!Next
  OBVIOUS
<1>1. InC /\ Running /\ Depth > 1 /\ calls[Depth].kind # "lua"
  BY DEF CReturns, InC
<1>2. /\ Stacks!InC /\ Stacks!Depth = Depth /\ Stacks!list \in Seq(Value)
      /\ Len(Stacks!list) = GetTop /\ Depth \in 1..MaxDepth
      /\ \A i \in 1..GetTop : Stacks!list[i] = memory[stack][MinStack - i]
      /\ GetTop = MinStack - top /\ GetTop \in 0..MinStack /\ top \in 0..MinStack
      /\ memory[stack] \in Array /\ \A p \in top..(MinStack - 1) : memory[stack][p] \in Value
  BY <1>1, MapInC
<1>3. MinStack \in Nat
  BY Constants
<1>4. PICK nres \in 0..GetTop :
        IF Accepted(-nres)
        THEN /\ ret' = <<[array |-> stack, src |-> Index2Addr(-nres), n |-> nres]>>
             /\ stack' = RestoredStack(calls[Depth])
             /\ top' = RestoredTop(calls[Depth])
             /\ calls' = SubSeq(calls, 1, Depth - 1)
             /\ UNCHANGED <<memory, genv, status>>
        ELSE Abort
  BY DEF CReturns
<1>5. Stacks!Running /\ Stacks!Depth > 1 /\ Frames[Depth].kind = "c"
  <2>1. calls[Depth].kind = "c"
    <3>1. calls \in Seq(Activation) /\ Depth \in 1..Len(calls)
      BY <1>2 DEF IInv, Activations, Depth
    <3>2. calls[Depth] \in Activation
      BY <3>1, ElementOfSeq
    <3>3. calls[Depth].kind # "host"
      BY <1>1, <1>2 DEF IInv, Activations
    <3> QED BY <1>1, <3>2, <3>3 DEF Activation
  <2> QED BY <1>1, <1>2, <2>1, MapNow DEF Stacks!InC
<1>6. CASE ~Accepted(-nres)
  <2>1. IInv' /\ Stacks!Fails
    BY <1>4, <1>6, AbortStep
  <2> QED BY <1>2, <1>5, <2>1 DEF Stacks!Abort, Stacks!Next
<1>7. CASE Accepted(-nres)
  <2>1. PICK n, src, L, len, t : /\ n = nres /\ src = Index2Addr(-nres) /\ L = Stacks!list
                                 /\ len = GetTop /\ t = top
    OBVIOUS
  <2>2. n \in 0..len /\ len \in 0..MinStack /\ t \in 0..MinStack /\ len = MinStack - t
    BY <1>2, <1>4, <2>1
  <2>3. n \in 1..len /\ src = t + n - 1
    <3>1. ~(-n > 0) /\ n # 0
      BY <1>7, <2>1, <2>2 DEF Accepted
    <3>2. src = MinStack - (len + (-n) + 1)
      BY <2>1, <3>1 DEF Index2Addr, StkEntry
    <3> QED BY <1>3, <2>2, <3>1, <3>2
  <2>4. PICK r : r = [array |-> stack, src |-> src, n |-> n]
    OBVIOUS
  <2>5. /\ stack = Depth /\ stack \in 0..MaxDepth /\ stack \in JitStack..MaxDepth
        /\ Size(stack) = MinStack
    <3>1. stack = Own(Depth) /\ stack \in 0..MaxDepth
      BY <1>1, TopList
    <3>2. Depth # 1
      BY <1>1, <1>2
    <3> QED BY <3>1, <3>2, Constants DEF Own
  <2>6. r \in Passage /\ r.array = stack /\ r.src = src /\ r.n = n
    <3>1. src \in Int /\ n \in Nat
      BY <2>2, <2>3
    <3> QED BY <2>4, <2>5, <3>1 DEF Passage
  <2>7. /\ ret' = <<r>> /\ UNCHANGED <<memory, genv, status>>
        /\ calls' = SubSeq(calls, 1, Depth - 1)
        /\ stack' = calls[Depth].oldstack /\ top' = calls[Depth].oldtop
    BY <1>4, <1>7, <2>1, <2>4 DEF RestoredStack, RestoredTop
  <2>8. r.n <= Size(r.array) /\ r.src < Size(r.array) /\ r.src - r.n >= -1
    <3>1. n <= MinStack /\ src < MinStack /\ src - n >= -1
      BY <1>3, <2>2, <2>3
    <3> QED BY <2>5, <2>6, <3>1
  <2>9. \A j \in 1..n : /\ src - j + 1 \in t..(MinStack - 1)
                        /\ src - j + 1 = MinStack - (len - n + j) /\ len - n + j \in 1..len
    BY <1>3, <2>2, <2>3
  <2>10. \A j \in 1..r.n : memory'[r.array][r.src - j + 1] \in Value
    BY <1>2, <2>1, <2>6, <2>7, <2>9
  <2>11. Memory' /\ \A s \in 0..(Depth - 1) : memory'[s] = memory[s]
    BY <2>7 DEF IInv, Memory
  <2>12. /\ IInv' /\ Frames' = Stacks!Front(Frames)
         /\ Results' = <<ReadFrom(memory'[r.array], r.src, r.n)>>
    BY <1>1, <2>5, <2>6, <2>7, <2>8, <2>10, <2>11, Returning
  <2>13. ReadFrom(memory'[r.array], r.src, r.n) = SubSeq(L, len - n + 1, len)
    <3>1. PICK R, A, lo : /\ R = ReadFrom(A, src, n) /\ A = memory[stack] /\ lo = len - n + 1
      OBVIOUS
    <3>2. IsList(R, n) /\ \A j \in 1..n : R[j] = A[src - j + 1]
      BY <3>1 DEF ReadFrom, IsList
    <3>3. \A j \in 1..n : R[j] = L[len - n + j] /\ R[j] \in Value
      <4>1. \A i \in 1..len : L[i] = A[MinStack - i]
        BY <1>2, <2>1, <3>1
      <4>2. \A p \in t..(MinStack - 1) : A[p] \in Value
        BY <1>2, <2>1, <3>1
      <4> QED BY <2>9, <3>2, <4>1, <4>2
    <3>4. n \in Nat
      BY <2>2
    <3>5. R \in Seq(Value) /\ Len(R) = n
      BY <3>2, <3>3, <3>4, SeqIn
    <3>6. lo \in Int /\ len \in Int /\ lo <= len /\ len - lo + 1 = n
          /\ \A i \in lo..len : i \in 1..len
          /\ \A j \in 1..n : lo + j - 1 = len - n + j
      BY <2>2, <2>3, <3>1
    <3>7. \A i \in lo..len : L[i] \in Value
      BY <1>2, <2>1, <3>6, ElementOfSeq
    <3>8. /\ SubSeq(L, lo, len) \in Seq(Value)
          /\ Len(SubSeq(L, lo, len)) = IF lo <= len THEN len - lo + 1 ELSE 0
          /\ \A i \in 1..(len - lo + 1) : SubSeq(L, lo, len)[i] = L[lo + i - 1]
      BY <3>6, <3>7, SubSeqProperties
    <3>9. Len(SubSeq(L, lo, len)) = n /\ \A i \in 1..n : SubSeq(L, lo, len)[i] = L[len - n + i]
      BY <3>6, <3>8
    <3>10. R = SubSeq(L, lo, len)
      BY <3>3, <3>5, <3>8, <3>9, SeqEqual
    <3> QED BY <2>6, <2>7, <3>1, <3>10
  <2>14. Results' = <<SubSeq(Stacks!list, Len(Stacks!list) - n + 1, Len(Stacks!list))>>
         /\ n \in 1..Len(Stacks!list)
    BY <1>2, <2>1, <2>3, <2>12, <2>13
  <2>15. Stacks!Return
    BY <1>2, <1>5, <2>7, <2>12, <2>14 DEF Stacks!Return
  <2> QED BY <2>12, <2>15 DEF Stacks!Next
<1> QED BY <1>6, <1>7

LEMMA LuaReturnsStep == IInv /\ LuaReturns => IInv' /\ Stacks!Next
<1> SUFFICES ASSUME IInv, LuaReturns PROVE IInv' /\ Stacks!Next
  OBVIOUS
<1>1. /\ InLua /\ calls' = SubSeq(calls, 1, Depth - 1)
      /\ UNCHANGED <<stack, top, genv, status>>
  BY DEF LuaReturns
<1>2. PICK n \in 0..MaxValues : \E results \in [1..n -> Number \cup {CFun}] :
        /\ memory' = [memory EXCEPT ![JitStack] =
                [p \in DOMAIN @ |-> IF MaxValues - p \in DOMAIN results THEN results[MaxValues - p] ELSE Junk]]
        /\ ret' = <<[array |-> JitStack, src |-> MaxValues - 1, n |-> n]>>
  BY DEF LuaReturns
<1>3. PICK results \in [1..n -> Number \cup {CFun}] :
        /\ memory' = [memory EXCEPT ![JitStack] =
                [p \in DOMAIN @ |-> IF MaxValues - p \in DOMAIN results THEN results[MaxValues - p] ELSE Junk]]
        /\ ret' = <<[array |-> JitStack, src |-> MaxValues - 1, n |-> n]>>
  BY <1>2
<1>4. /\ Stacks!InLua /\ Stacks!Depth = Depth /\ Running /\ Frames[Depth].kind = "lua"
      /\ Depth \in 1..MaxDepth /\ Depth # 1 /\ calls[Depth].kind = "lua"
  BY <1>1, MapInLua DEF InLua
<1>5. PICK m \in Nat : m = MaxValues /\ n \in 0..m
  BY Constants
<1>6. PICK a : a = [p \in 0..(m - 1) |-> IF m - p \in 1..n THEN results[m - p] ELSE Junk]
  OBVIOUS
<1>7. /\ \A i \in 1..n : results[i] \in Value
      /\ \A i \in 1..n : m - i \in 0..(m - 1) /\ m - (m - i) = i
  BY <1>5 DEF Value
<1>8. a \in [0..(m - 1) -> Value \cup {Junk}] /\ \A i \in 1..n : a[m - i] = results[i]
  BY <1>6, <1>7
<1>9. memory' = [memory EXCEPT ![JitStack] = a]
  <2>1. DOMAIN memory[JitStack] = 0..(m - 1) /\ DOMAIN results = 1..n
    <3>1. memory[JitStack] \in [0..(Size(JitStack) - 1) -> Value \cup {Junk}]
      BY Constants DEF IInv, Memory
    <3> QED BY <1>5, <3>1, Constants
  <2> QED BY <1>3, <1>5, <1>6, <2>1
<1>10. Memory' /\ memory'[JitStack] = a /\ \A s \in 0..(Depth - 1) : memory'[s] = memory[s]
  <2>1. \A s \in 0..(Depth - 1) : s # JitStack /\ s \in JitStack..MaxDepth
    <3>1. PICK d : d = Depth
      OBVIOUS
    <3>2. \A s \in 0..(d - 1) : s # JitStack /\ s \in JitStack..MaxDepth
      BY <1>4, <3>1, Constants DEF JitStack
    <3> QED BY <3>1, <3>2
  <2>2. DOMAIN memory = JitStack..MaxDepth
    BY DEF IInv, Memory
  <2> QED BY <1>5, <1>8, <1>9, <2>1, <2>2, Constants DEF IInv, Memory
<1>11. PICK r : r = [array |-> JitStack, src |-> m - 1, n |-> n]
  OBVIOUS
<1>12. r \in Passage /\ r.array = JitStack /\ r.src = m - 1 /\ r.n = n
  <2>1. m - 1 \in Int /\ n \in Nat
    BY <1>5
  <2> QED BY <1>11, <2>1, Constants DEF Passage
<1>13. r.n <= Size(r.array) /\ r.src < Size(r.array) /\ r.src - r.n >= -1
  <2>1. n <= m /\ m - 1 < m /\ m - 1 - n >= -1
    BY <1>5
  <2> QED BY <1>5, <1>12, <2>1, Constants
<1>14. \A j \in 1..n : memory'[r.array][r.src - j + 1] = results[j]
  <2>1. \A j \in 1..n : m - 1 - j + 1 = m - j
    BY <1>5
  <2> QED BY <1>8, <1>10, <1>12, <2>1
<1>15. \A j \in 1..r.n : memory'[r.array][r.src - j + 1] \in Value
  BY <1>7, <1>12, <1>14
<1>16. stack' = calls[Depth].oldstack /\ top' = calls[Depth].oldtop /\ Depth > 1
  <2>1. Listed(Depth) /\ StackOf(Depth) = stack /\ TopOf(Depth) = top
    BY <1>4 DEF IInv, StackOf, TopOf
  <2>2. stack = calls[Depth].oldstack /\ top = calls[Depth].oldtop
    BY <1>4, <2>1 DEF Listed
  <2> QED BY <1>1, <1>4, <2>2
<1>17. ret' = <<r>>
  BY <1>3, <1>5, <1>11
<1>18. /\ IInv' /\ Frames' = Stacks!Front(Frames)
       /\ Results' = <<ReadFrom(memory'[r.array], r.src, r.n)>>
  BY <1>1, <1>4, <1>10, <1>12, <1>13, <1>15, <1>16, <1>17, Returning
<1>19. ReadFrom(memory'[r.array], r.src, r.n) = results
  BY <1>12, <1>14 DEF ReadFrom
<1>20. results \in Stacks!Lists(MaxValues, Number \cup {CFun})
  BY <1>3 DEF Stacks!Lists
<1>21. Stacks!Return
  BY <1>1, <1>4, <1>16, <1>18, <1>19, <1>20 DEF Stacks!Return, Stacks!InLua
<1> QED BY <1>18, <1>21 DEF Stacks!Next

\* The caller goes on: results are taken, and where they were is forgotten.
LEMMA Taking ==
    ASSUME IInv, status = "running", ret # <<>>, NEW w \in Activation,
           w.kind = calls[Depth].kind, w.oldstack = calls[Depth].oldstack,
           w.oldtop = calls[Depth].oldtop, w.call = NoCall,
           calls' = [calls EXCEPT ![Depth] = w],
           Memory', \A s \in 0..Depth : s # stack => memory'[s] = memory[s],
           IF w.kind = "lua" THEN top' = top /\ memory'[stack] = memory[stack]
           ELSE top' \in 0..MinStack /\ \A p \in top'..(MinStack - 1) : memory'[stack][p] \in Value,
           ret' = <<>>, UNCHANGED <<stack, genv, status>>
    PROVE  /\ IInv' /\ Results' = <<>>
           /\ Frames' = [Frames EXCEPT ![Depth] = FrameOf(w, memory'[stack], top')]
<1>1. PICK d \in Nat \ {0} : d = Depth /\ d \in 1..MaxDepth
  BY Constants DEF IInv, Activations
<1>2. calls \in Seq(Activation) /\ Len(calls) = d
  BY <1>1 DEF IInv, Activations, Depth
<1>3. /\ calls' \in Seq(Activation) /\ Len(calls') = d /\ calls'[d] = w
      /\ \A k \in 1..d : k # d => calls'[k] = calls[k]
  <2>1. PICK c \in Seq(Activation) : c = calls
    BY <1>2
  <2>2. d \in 1..Len(c)
    BY <1>1, <1>2, <2>1
  <2> DEFINE r == [c EXCEPT ![d] = w]
  <2>3. /\ r \in Seq(Activation) /\ Len(r) = Len(c) /\ r[d] = w
        /\ \A k \in 1..Len(c) : k # d => r[k] = c[k]
    <3> HIDE DEF r
    <3> QED BY <2>2, Changed DEF r
  <2> HIDE DEF r
  <2> QED BY <1>1, <1>2, <2>1, <2>3 DEF r
<1>4. Depth' = d
  BY <1>3 DEF Depth
<1>5. \A k \in 1..d : StackOf(k)' = StackOf(k) /\ (k # d => TopOf(k)' = TopOf(k))
  <2> SUFFICES ASSUME NEW k \in 1..d
               PROVE  StackOf(k)' = StackOf(k) /\ (k # d => TopOf(k)' = TopOf(k))
    OBVIOUS
  <2>1. CASE k = d
    BY <1>1, <1>4, <2>1 DEF StackOf
  <2>2. CASE k # d
    <3>1. k + 1 \in 1..d
      BY <2>2
    <3>2. calls'[k + 1].oldstack = calls[k + 1].oldstack
          /\ calls'[k + 1].oldtop = calls[k + 1].oldtop
      BY <1>1, <1>3, <3>1
    <3> QED BY <1>1, <1>4, <2>2, <3>2 DEF StackOf, TopOf
  <2> QED BY <2>1, <2>2
<1>6. ASSUME NEW k \in 1..d, k # d
      PROVE  /\ Listed(k)' /\ calls'[k] = calls[k]
             /\ calls[k].kind # "lua" => memory'[StackOf(k)] = memory[StackOf(k)]
  <2>1. Listed(k) /\ calls'[k] = calls[k] /\ StackOf(k)' = StackOf(k) /\ TopOf(k)' = TopOf(k)
    BY <1>1, <1>3, <1>5, <1>6 DEF IInv
  <2>2. CASE calls[k].kind = "lua"
    BY <2>1, <2>2 DEF Listed
  <2>3. CASE calls[k].kind # "lua"
    <3>1. /\ StackOf(k) = Own(k) /\ Own(k) \in 0..k
          /\ \A j \in Nat : j > k => Own(j) # Own(k)
      BY <1>1, <2>3, OtherLists
    <3>2. d > k /\ Own(k) \in 0..d
      BY <1>6, <3>1
    <3>3. memory'[StackOf(k)] = memory[StackOf(k)]
      <4>1. CASE Own(k) # stack
        BY <1>1, <3>1, <3>2, <4>1
      <4>2. CASE Own(k) = stack
        <5>1. calls[d].kind = "lua"
          BY <1>1, <3>1, <3>2, <4>2, TopList
        <5> QED BY <1>1, <3>1, <4>2, <5>1
      <4> QED BY <4>1, <4>2
    <3> QED BY <2>1, <2>3, <3>3 DEF Listed
  <2> QED BY <2>2, <2>3
<1>7. Listed(d)'
  <2>1. /\ Listed(d) /\ StackOf(d) = stack /\ TopOf(d) = top
        /\ StackOf(d)' = stack /\ TopOf(d)' = top' /\ calls'[d] = w
    BY <1>1, <1>3, <1>4 DEF IInv, StackOf, TopOf
  <2>2. CASE w.kind = "lua"
    BY <1>1, <2>1, <2>2 DEF Listed
  <2>3. CASE w.kind # "lua"
    <3>1. w.call.base = 0
      BY DEF NoCall
    <3>2. \A t \in 0..MinStack : 0 <= MinStack - t
      <4>1. MinStack \in Nat
        BY Constants
      <4> QED BY <4>1
    <3>3. top' \in 0..MinStack
      BY <2>3
    <3>4. 0 <= MinStack - top'
      BY <3>2, <3>3, Zenon
    <3> QED BY <1>1, <2>1, <2>3, <3>1, <3>4 DEF Listed
  <2> QED BY <2>2, <2>3
<1>8. Activations'
  <2>1. \A k \in 1..d : calls'[k].kind = "host" <=> k = 1
    BY <1>1, <1>3 DEF IInv, Activations
  <2> QED BY <1>1, <1>3, <1>4, <2>1 DEF Activations, Depth
<1>9. IInv'
  <2>1. \A k \in 1..Depth' : Listed(k)'
    BY <1>4, <1>6, <1>7
  <2>2. (calls[Depth].call = NoCall)'
    BY <1>3, <1>4
  <2> QED BY <1>8, <2>1, <2>2 DEF IInv, Returned
<1>10. Frames' = [Frames EXCEPT ![d] = FrameOf(w, memory'[stack], top')]
  <2>1. PICK F, G, x : F = Frames /\ G = Frames' /\ x = FrameOf(w, memory'[stack], top')
    OBVIOUS
  <2>2. IsList(F, d) /\ IsList(G, d)
    BY <1>1, <1>4, <2>1 DEF Frames, IsList
  <2>3. \A k \in 1..d : F[k] = FrameOf(calls[k], memory[StackOf(k)], TopOf(k))
    BY <1>1, <2>1 DEF Frames
  <2>4. \A k \in 1..d : G[k] = FrameOf(calls'[k], memory'[StackOf(k)'], TopOf(k)')
    BY <1>4, <2>1 DEF Frames
  <2>5. G[d] = x
    <3>1. StackOf(d)' = stack /\ TopOf(d)' = top' /\ calls'[d] = w /\ d \in 1..d
      BY <1>3, <1>4 DEF StackOf, TopOf
    <3> QED BY <2>1, <2>4, <3>1
  <2>6. ASSUME NEW k \in 1..d, k # d PROVE G[k] = F[k]
    <3>1. /\ calls'[k] = calls[k] /\ StackOf(k)' = StackOf(k) /\ TopOf(k)' = TopOf(k)
          /\ calls[k].kind # "lua" => memory'[StackOf(k)] = memory[StackOf(k)]
      BY <1>5, <1>6, <2>6
    <3>2. CASE calls[k].kind = "lua"
      <4>1. PICK c, a, b, t : /\ c = calls[k] /\ a = memory[StackOf(k)]
                              /\ b = memory'[StackOf(k)] /\ t = TopOf(k)
        OBVIOUS
      <4>2. FrameOf(c, a, t) = FrameOf(c, b, t)
        BY <3>2, <4>1 DEF FrameOf
      <4>3. F[k] = FrameOf(c, a, t) /\ G[k] = FrameOf(c, b, t)
        BY <2>3, <2>4, <3>1, <4>1
      <4> QED BY <4>2, <4>3
    <3>3. CASE calls[k].kind # "lua"
      BY <2>3, <2>4, <3>1, <3>3
    <3> QED BY <3>2, <3>3
  <2>7. G = [F EXCEPT ![d] = x]
    BY <2>2, <2>5, <2>6 DEF IsList
  <2> QED BY <2>1, <2>7
<1>11. Results' = <<>>
  BY DEF Results
<1> QED BY <1>1, <1>9, <1>10, <1>11

\* What there is of results.
LEMMA MapResults ==
    ASSUME IInv, status = "running", ret # <<>>, NEW r, r = ret[1]
    PROVE  /\ r \in Passage
           /\ r.array \in DOMAIN memory /\ r.array \notin 0..Depth
           /\ Results # <<>> /\ Results[1] = ReadFrom(memory[r.array], r.src, r.n)
           /\ \A j \in 1..r.n : memory[r.array][r.src - j + 1] \in Value
           /\ Results[1] \in Seq(Value) /\ Len(Results[1]) = r.n
           /\ \A j \in 1..r.n : Results[1][j] = memory[r.array][r.src - j + 1]
<1>1. /\ ret \in Seq(Passage) /\ Len(ret) = 1
      /\ r.array = JitStack \/ r.array = Depth + 1
      /\ \A j \in 1..r.n : memory[r.array][r.src - j + 1] \in Value
  BY DEF IInv, Returned
<1>2. DOMAIN ret = 1..1 /\ r \in Passage
  <2>1. DOMAIN ret = 1..1
    BY <1>1, LenProperties
  <2>2. 1 \in 1..Len(ret)
    BY <1>1
  <2> QED BY <1>1, <2>1, <2>2, ElementOfSeq
<1>3. r.array \in DOMAIN memory /\ r.n \in Nat
  BY <1>2 DEF Passage, IInv, Memory
<1>4. r.array \notin 0..Depth
  <2>1. Depth \in 1..MaxDepth
    BY DEF IInv, Activations
  <2>2. \A d \in 1..MaxDepth : d + 1 \notin 0..d /\ -1 \notin 0..d
    OBVIOUS
  <2> QED BY <1>1, <2>1, <2>2 DEF JitStack
<1>5. Results # <<>>
  BY MapNow
<1>6. PICK R : R = ReadFrom(memory[r.array], r.src, r.n)
  OBVIOUS
<1>7. Results[1] = R
  <2>1. 1 \in DOMAIN ret
    BY <1>2
  <2> QED BY <1>6, <2>1 DEF Results
<1>8. IsList(R, r.n) /\ \A j \in 1..r.n : R[j] = memory[r.array][r.src - j + 1]
  BY <1>6 DEF ReadFrom, IsList
<1>9. R \in Seq(Value) /\ Len(R) = r.n
  <2>1. PICK n \in Nat : n = r.n
    BY <1>3
  <2>2. IsList(R, n) /\ \A j \in 1..n : R[j] \in Value
    BY <1>1, <1>8, <2>1
  <2>3. R \in Seq(Value) /\ Len(R) = n
    BY <2>2, SeqIn
  <2> QED BY <2>1, <2>3
<1> QED BY <1>1, <1>2, <1>3, <1>4, <1>5, <1>6, <1>7, <1>8, <1>9

\* Only an array that nobody uses is forgotten.
LEMMA Forgetting ==
    ASSUME IInv, ret # <<>>, status = "running"
    PROVE  /\ DOMAIN Forgotten = JitStack..MaxDepth
           /\ \A s \in JitStack..MaxDepth : Forgotten[s] \in [0..(Size(s) - 1) -> Value \cup {Junk}]
           /\ \A s \in 0..Depth : Forgotten[s] = memory[s]
<1>1. PICK r, q : r = ret[1] /\ q = r.array
  OBVIOUS
<1>2. q \in DOMAIN memory /\ q \notin 0..Depth
  BY <1>1, MapResults
<1>3. /\ DOMAIN memory = JitStack..MaxDepth
      /\ \A s \in JitStack..MaxDepth : memory[s] \in [0..(Size(s) - 1) -> Value \cup {Junk}]
  BY DEF IInv, Memory
<1>4. PICK a : a = [p \in DOMAIN memory[q] |-> Junk]
  OBVIOUS
<1>5. Forgotten = [memory EXCEPT ![q] = a]
  BY <1>1, <1>4 DEF Forgotten
<1>6. a \in [0..(Size(q) - 1) -> Value \cup {Junk}]
  BY <1>2, <1>3, <1>4
<1>7. \A s \in 0..Depth : s \in JitStack..MaxDepth
  <2>1. Depth \in 1..MaxDepth
    BY DEF IInv, Activations
  <2>2. \A d \in 1..MaxDepth : \A s \in 0..d : s \in 0..MaxDepth
    BY Constants
  <2> QED BY <2>1, <2>2, Constants
<1> QED BY <1>2, <1>3, <1>5, <1>6, <1>7

LEMMA LuaTakesStep == IInv /\ LuaTakes => IInv' /\ Stacks!Next
<1> SUFFICES ASSUME IInv, LuaTakes PROVE IInv' /\ Stacks!Next
  OBVIOUS
<1>1. /\ status = "running" /\ ret # <<>> /\ calls[Depth].kind = "lua"
      /\ memory' = Forgotten /\ ret' = <<>> /\ UNCHANGED <<stack, top, genv, status>>
  BY DEF LuaTakes
<1>2. PICK r : r = ret[1]
  OBVIOUS
<1>3. PICK R : R = Results[1]
  OBVIOUS
<1>4. /\ r \in Passage /\ R \in Seq(Value) /\ Len(R) = r.n /\ Results # <<>>
      /\ R = ReadFrom(memory[r.array], r.src, r.n)
  BY <1>1, <1>2, <1>3, MapResults
<1>5. [i \in 1..r.n |-> Result(i - 1)] = R
  <2>1. r.src \in Int
    BY <1>4 DEF Passage
  <2>2. \A i \in 1..r.n : r.src - (i - 1) = r.src - i + 1
    BY <2>1
  <2>3. \A i \in 1..r.n : Result(i - 1) = memory[r.array][r.src - i + 1]
    BY <1>2, <2>2 DEF Result
  <2> QED BY <1>4, <2>3 DEF ReadFrom
<1>6. Depth \in 1..MaxDepth /\ Listed(Depth) /\ calls[Depth] \in Activation
  <2>1. Depth \in 1..MaxDepth /\ calls \in Seq(Activation) /\ Depth \in 1..Len(calls)
    BY DEF IInv, Activations, Depth
  <2>2. calls[Depth] \in Activation
    BY <2>1, ElementOfSeq
  <2> QED BY <2>1, <2>2 DEF IInv
<1>7. PICK c \in Activation : c = calls[Depth]
  BY <1>6
<1>8. PICK w : w = [c EXCEPT !.got = R]
  OBVIOUS
<1>9. /\ w \in Activation /\ w.kind = "lua" /\ w.oldstack = c.oldstack /\ w.oldtop = c.oldtop
      /\ w.call = c.call /\ w.got = R
  BY <1>1, <1>4, <1>7, <1>8 DEF Activation
<1>10. c.call = NoCall
  BY <1>1, <1>6, <1>7 DEF Listed
<1>11. calls' = [calls EXCEPT ![Depth] = w]
  BY <1>2, <1>5, <1>7, <1>8 DEF LuaTakes
<1>12. /\ Memory' /\ \A s \in 0..Depth : memory'[s] = memory[s]
       /\ stack \in 0..Depth
  <2>1. stack \in 0..Depth
    BY <1>6 DEF Listed, StackOf
  <2> QED BY <1>1, <2>1, Forgetting DEF Memory
<1>13. /\ IInv' /\ Results' = <<>>
       /\ Frames' = [Frames EXCEPT ![Depth] = FrameOf(w, memory'[stack], top')]
  BY <1>1, <1>7, <1>9, <1>10, <1>11, <1>12, Taking
<1>14. Frames' = [Frames EXCEPT ![Depth].list = R]
  <2>1. PICK F, f, d, a, t : F = Frames /\ d = Depth /\ f = F[d] /\ a = memory[stack] /\ t = top
    OBVIOUS
  <2>2. f = FrameOf(c, a, t)
    BY <1>6, <1>7, <2>1, MapNow DEF StackOf, TopOf
  <2>3. FrameOf(w, a, t) = [f EXCEPT !.list = R]
    <3>1. f = [kind |-> "lua", list |-> c.got, base |-> c.call.base, nresults |-> c.call.nresults]
      BY <1>1, <1>7, <2>2 DEF FrameOf
    <3>2. FrameOf(w, a, t)
              = [kind |-> "lua", list |-> R, base |-> c.call.base, nresults |-> c.call.nresults]
      BY <1>9 DEF FrameOf
    <3> QED BY <3>1, <3>2
  <2>4. FrameOf(w, memory'[stack], top') = FrameOf(w, a, t)
    BY <1>1, <1>12, <2>1
  <2>5. Frames' = [F EXCEPT ![d] = [f EXCEPT !.list = R]]
    BY <1>13, <2>1, <2>3, <2>4
  <2> QED BY <2>1, <2>5
<1>15. Stacks!LuaTakes
  <2>1. Frames[Depth].kind = "lua" /\ Stacks!Depth = Depth
    BY <1>1, <1>6, MapNow
  <2>2. Stacks!Becomes(Results[1])
    BY <1>3, <1>14, <2>1 DEF Stacks!Becomes
  <2> QED BY <1>1, <1>4, <1>13, <2>1, <2>2 DEF Stacks!LuaTakes
<1> QED BY <1>13, <1>15 DEF Stacks!Next

LEMMA ExecutedStep == IInv /\ Executed => IInv' /\ Stacks!Next
<1> SUFFICES ASSUME IInv, Executed PROVE IInv' /\ Stacks!Next
  OBVIOUS
<1>1. /\ status = "running" /\ ret # <<>> /\ Depth = 1 /\ calls[1].call.base = 0
      /\ memory' = Forgotten /\ ret' = <<>> /\ UNCHANGED <<stack, top, genv, calls, status>>
  BY DEF Executed
<1>2. /\ Listed(1) /\ calls \in Seq(Activation) /\ Len(calls) = 1 /\ calls[1].kind = "host"
      /\ StackOf(1) = stack /\ TopOf(1) = top
  BY <1>1 DEF IInv, Activations, Depth, StackOf, TopOf
<1>3. calls[1] \in Activation
  <2>1. 1 \in 1..Len(calls)
    BY <1>2
  <2> QED BY <1>2, <2>1, ElementOfSeq
<1>4. PICK w \in Activation : w = calls[1]
  BY <1>3
<1>5. w.call = NoCall /\ w.kind # "lua"
  BY <1>1, <1>2, <1>4 DEF Listed
<1>6. calls' = [calls EXCEPT ![Depth] = w]
  <2>1. PICK c \in Seq(Activation) : c = calls
    BY <1>2
  <2>2. c = [i \in 1..Len(c) |-> c[i]]
    <3>1. \A s \in Seq(Activation) : s = [i \in 1..Len(s) |-> s[i]]
      BY SeqDef, LenProperties
    <3> QED BY <3>1
  <2>3. [c EXCEPT ![1] = c[1]] = c
    BY <2>2
  <2> QED BY <1>1, <1>4, <2>1, <2>3
<1>7. /\ Memory' /\ \A s \in 0..Depth : memory'[s] = memory[s]
      /\ stack \in 0..Depth /\ top \in 0..MinStack
      /\ \A p \in top..(MinStack - 1) : memory[stack][p] \in Value
  <2>1. /\ stack \in 0..Depth /\ top \in 0..MinStack
        /\ \A p \in top..(MinStack - 1) : memory[stack][p] \in Value
    BY <1>1, <1>2 DEF Listed
  <2> QED BY <1>1, <2>1, Forgetting DEF Memory
<1>8. /\ IInv' /\ Results' = <<>>
      /\ Frames' = [Frames EXCEPT ![Depth] = FrameOf(w, memory'[stack], top')]
  BY <1>1, <1>4, <1>5, <1>6, <1>7, Taking
<1>9. Frames' = Frames
  <2>1. PICK F, f : F = Frames /\ f = FrameOf(w, memory[stack], top)
    OBVIOUS
  <2>2. F[1] = f /\ IsList(F, 1)
    <3>1. F[1] = FrameOf(calls[1], memory[StackOf(1)], TopOf(1)) /\ IsList(F, 1)
      BY <1>1, <2>1 DEF Frames, IsList
    <3> QED BY <1>2, <1>4, <2>1, <3>1
  <2>3. Frames' = [F EXCEPT ![1] = f]
    BY <1>1, <1>7, <1>8, <2>1
  <2>4. [F EXCEPT ![1] = f] = F
    BY <2>2 DEF IsList
  <2> QED BY <2>1, <2>3, <2>4
<1>10. Stacks!Executed
  <2>1. Frames[1].base = 0 /\ Results # <<>>
    BY <1>1, MapNow DEF FrameOf
  <2> QED BY <1>1, <1>8, <1>9, <2>1, MapNow DEF Stacks!Executed
<1> QED BY <1>8, <1>10 DEF Stacks!Next

\* How lua_call changes the caller's array, in three steps.
Filled(A, R, b, idx) ==
    [p \in 0..(MinStack - 1) |->
        IF MinStack - p \in b..idx THEN Stacks!Given(R, MinStack - p - b + 1) ELSE A[p]]
NilledIn(D, t, idx) ==
    [p \in 0..(MinStack - 1) |->
        IF \E i \in (MinStack - t + 1)..idx : p = MinStack - i THEN Nil ELSE D[p]]
CutTo(N, idx) == [p \in 0..(MinStack - 1) |-> IF p < MinStack - idx THEN Junk ELSE N[p]]

\* What the caller's list becomes: what was before the function, and results.
Change(A, R, b, t, idx) == CutTo(NilledIn(Filled(A, R, b, idx), t, idx), idx)
Arrival(L, R, b, t, nr) == SubSeq(L, 1, b - 1) \o Stacks!Arrived(R, nr, (MinStack - t - b + 2)..nr)

\* nr results for a function at place b of the list in array A from place t on.
Fits(A, R, b, t, nr, idx) ==
    /\ A \in Array /\ t \in 0..MinStack /\ \A p \in t..(MinStack - 1) : A[p] \in Value
    /\ R \in Seq(Value) /\ b \in Nat /\ b > 0 /\ b <= MinStack - t /\ nr \in Nat
    /\ idx \in 0..MinStack /\ idx = b + nr - 1
Holds(a, idx, l) ==
    /\ a \in Array /\ \A p \in (MinStack - idx)..(MinStack - 1) : a[p] \in Value
    /\ ListIn(a, MinStack - idx) = l

LEMMA ListArrives ==
    ASSUME NEW A, NEW R, NEW b, NEW t, NEW nr, NEW idx, Fits(A, R, b, t, nr, idx)
    PROVE  Holds(Change(A, R, b, t, idx), idx, Arrival(ListIn(A, t), R, b, t, nr))
<1> A \in Array /\ t \in 0..MinStack /\ \A p \in t..(MinStack - 1) : A[p] \in Value
  BY DEF Fits
<1> R \in Seq(Value) /\ b \in Nat /\ b > 0 /\ b <= MinStack - t /\ nr \in Nat
  BY DEF Fits
<1> idx \in 0..MinStack /\ idx = b + nr - 1
  BY DEF Fits
<1>given. PICK L, a, lost :
        /\ L = ListIn(A, t) /\ a = Change(A, R, b, t, idx)
        /\ lost = (MinStack - t - b + 2)..nr
  OBVIOUS
<1>values. /\ L \in Seq(Value) /\ Len(L) = MinStack - t
       /\ \A i \in 1..(MinStack - t) : L[i] = A[MinStack - i] /\ L[i] \in Value
  <2>1. /\ ListIn(A, t) \in Seq(Value) /\ Len(ListIn(A, t)) = MinStack - t
        /\ \A i \in 1..(MinStack - t) : ListIn(A, t)[i] = A[MinStack - i]
    BY ListOfValues
  <2>2. \A i \in 1..(MinStack - t) : MinStack - i \in t..(MinStack - 1)
    BY Constants
  <2>3. \A i \in 1..(MinStack - t) : A[MinStack - i] \in Value
    BY <2>2
  <2> QED BY <1>given, <2>1, <2>3
<1>0. PICK D, N : /\ D = Filled(A, R, b, idx) /\ N = NilledIn(D, t, idx)
                    /\ a = CutTo(N, idx)
  BY <1>given DEF Change
<1>1. PICK m \in Nat, len \in Nat : m = MinStack /\ len = MinStack - t /\ len <= m
  <2>1. MinStack \in Nat
    BY Constants
  <2> QED BY <2>1
<1> DEFINE X(i) == IF i < b THEN L[i]
                   ELSE IF i \in (len + 1)..idx THEN Nil ELSE Stacks!Given(R, i - b + 1)
<1>2. \A j \in Nat \ {0} : Stacks!Given(R, j) \in Value
  <2>1. ASSUME NEW j \in Nat \ {0} PROVE Stacks!Given(R, j) \in Value
    <3>1. CASE j <= Len(R)
      <4>1. j \in 1..Len(R)
        BY <3>1, LenProperties
      <4>2. R[j] \in Value
        BY <4>1, ElementOfSeq
      <4> QED BY <3>1, <4>2 DEF Stacks!Given
    <3>2. CASE ~(j <= Len(R))
      BY <3>2 DEF Stacks!Given, Value
    <3> QED BY <3>1, <3>2
  <2> QED BY <2>1
<1>3. ASSUME NEW i \in 1..idx PROVE X(i) \in Value
  <2>1. CASE i < b
    <3>1. i \in 1..len
      BY <1>1, <2>1
    <3> QED BY <1>1, <1>values, <2>1, <3>1
  <2>2. CASE ~(i < b)
    <3>1. i - b + 1 \in Nat \ {0}
      BY <2>2
    <3> QED BY <1>2, <2>2, <3>1 DEF Value
  <2> QED BY <2>1, <2>2
<1>4. ASSUME NEW i \in 1..idx PROVE a[m - i] = X(i)
  <2>1. m - i \in 0..(m - 1) /\ ~(m - i < m - idx) /\ m - (m - i) = i
    BY <1>1
  <2>2. a[m - i] = N[m - i]
    BY <1>0, <1>1, <2>1 DEF CutTo
  <2>3. (\E j \in (len + 1)..idx : m - i = m - j) <=> i \in (len + 1)..idx
    BY <1>1
  <2>4. N[m - i] = IF i \in (len + 1)..idx THEN Nil ELSE D[m - i]
    BY <1>0, <1>1, <2>1, <2>3 DEF NilledIn
  <2>5. D[m - i] = IF i \in b..idx THEN Stacks!Given(R, i - b + 1) ELSE A[m - i]
    BY <1>0, <1>1, <2>1 DEF Filled
  <2>6. CASE i < b
    <3>1. i \in 1..len /\ ~(i \in (len + 1)..idx) /\ ~(i \in b..idx)
      BY <1>1, <2>6
    <3>2. L[i] = A[m - i]
      BY <1>1, <1>values, <3>1
    <3> QED BY <2>2, <2>4, <2>5, <2>6, <3>1, <3>2
  <2>7. CASE ~(i < b)
    <3>1. i \in b..idx
      BY <2>7
    <3> QED BY <2>2, <2>4, <2>5, <2>7, <3>1
  <2> QED BY <2>6, <2>7
<1> HIDE DEF X
<1>5. \A p \in (m - idx)..(m - 1) : a[p] \in Value
  <2>1. ASSUME NEW p \in (m - idx)..(m - 1) PROVE a[p] \in Value
    <3>1. m - p \in 1..idx /\ m - (m - p) = p
      BY <1>1
    <3> QED BY <1>3, <1>4, <3>1
  <2> QED BY <2>1
<1>6. a \in Array
  <2>1. ASSUME NEW p \in 0..(m - 1) PROVE a[p] \in Value \cup {Junk}
    <3>1. CASE p < m - idx
      BY <1>0, <1>1, <2>1, <3>1 DEF CutTo
    <3>2. CASE ~(p < m - idx)
      <4>1. p \in (m - idx)..(m - 1)
        BY <1>1, <2>1, <3>2
      <4> QED BY <1>5, <4>1
    <3> QED BY <3>1, <3>2
  <2> QED BY <1>0, <1>1, <2>1 DEF Array, CutTo
<1>7. PICK u \in 0..MinStack : u = m - idx /\ MinStack - u = idx
  BY <1>1
<1>8. PICK l : l = ListIn(a, u)
  OBVIOUS
<1>9. l \in Seq(Value) /\ Len(l) = idx /\ \A i \in 1..idx : l[i] = X(i)
  <2>1. \A p \in u..(MinStack - 1) : a[p] \in Value
    BY <1>1, <1>5, <1>7
  <2>2. /\ ListIn(a, u) \in Seq(Value) /\ Len(ListIn(a, u)) = MinStack - u
        /\ \A i \in 1..(MinStack - u) : ListIn(a, u)[i] = a[MinStack - i]
    BY <1>6, <2>1, ListOfValues
  <2>3. l \in Seq(Value) /\ Len(l) = idx /\ \A i \in 1..idx : l[i] = a[MinStack - i]
    BY <1>7, <1>8, <2>2
  <2>4. ASSUME NEW i \in 1..idx PROVE l[i] = X(i)
    <3>1. a[m - i] = X(i)
      BY <1>4
    <3>2. l[i] = a[m - i]
      BY <1>1, <2>3
    <3> QED BY <3>1, <3>2
  <2> QED BY <2>3, <2>4
<1>10. PICK q \in Nat : q = b - 1
  OBVIOUS
<1>11. PICK P : P = SubSeq(L, 1, q) /\ q = b - 1
  BY <1>10
<1>12. P \in Seq(Value) /\ Len(P) = q /\ \A i \in 1..q : P[i] = L[i]
  <2>1. \A i \in 1..q : L[i] \in Value
    <3>1. \A i \in 1..q : i \in 1..len
      BY <1>1, <1>11
    <3> QED BY <1>1, <1>values, <3>1
  <2>2. /\ SubSeq(L, 1, q) \in Seq(Value) /\ Len(SubSeq(L, 1, q)) = q
        /\ \A i \in 1..q : SubSeq(L, 1, q)[i] = L[i]
    BY <2>1, Prefix
  <2> QED BY <1>11, <2>2
<1>13. PICK T : T = Stacks!Arrived(R, nr, lost)
  OBVIOUS
<1>14. \A i \in 1..nr : T[i] = X(q + i)
  <2>1. ASSUME NEW i \in 1..nr PROVE T[i] = X(q + i)
    <3>1. T[i] = IF i \in lost THEN Nil ELSE Stacks!Given(R, i)
      BY <1>13 DEF Stacks!Arrived
    <3>2. /\ i \in lost <=> q + i \in (len + 1)..idx
          /\ ~(q + i < b) /\ q + i - b + 1 = i
      BY <1>given, <1>1, <1>11
    <3> QED BY <3>1, <3>2 DEF X
  <2> QED BY <2>1
<1>15. T \in Seq(Value) /\ Len(T) = nr
  <2>1. IsList(T, nr)
    BY <1>13 DEF Stacks!Arrived, IsList
  <2>2. \A i \in 1..nr : T[i] \in Value
    <3>1. ASSUME NEW i \in 1..nr PROVE q + i \in 1..idx
      BY <1>10
    <3> QED BY <1>3, <1>14, <3>1 DEF X
  <2> QED BY <2>1, <2>2, SeqIn
<1>16. /\ P \o T \in Seq(Value) /\ Len(P \o T) = idx
       /\ \A i \in 1..idx : (P \o T)[i] = IF i <= q THEN P[i] ELSE T[i - q]
  <2>1. /\ P \o T \in Seq(Value) /\ Len(P \o T) = Len(P) + Len(T)
        /\ \A i \in 1..(Len(P) + Len(T)) : (P \o T)[i] = IF i <= Len(P) THEN P[i] ELSE T[i - Len(P)]
    BY <1>12, <1>15, ConcatProperties
  <2>2. Len(P) = q /\ Len(P) + Len(T) = idx
    BY <1>11, <1>12, <1>15
  <2> QED BY <2>1, <2>2
<1>17. ASSUME NEW i \in 1..idx PROVE l[i] = (P \o T)[i]
  <2>1. CASE i <= q
    <3>1. i \in 1..q /\ i < b
      BY <1>11, <2>1
    <3> QED BY <1>9, <1>12, <1>16, <2>1, <3>1 DEF X
  <2>2. CASE ~(i <= q)
    <3>1. i - q \in 1..nr /\ q + (i - q) = i
      BY <1>10, <2>2
    <3> QED BY <1>9, <1>14, <1>16, <2>2, <3>1
  <2> QED BY <2>1, <2>2
<1>arrives. l = P \o T
  BY <1>9, <1>16, <1>17, SeqEqual
<1> QED BY <1>given, <1>1, <1>5, <1>6, <1>7, <1>8, <1>11, <1>13, <1>arrives DEF Arrival, Holds

LEMMA ApiTakesStep == IInv /\ ApiTakes => IInv' /\ Stacks!Next
<1> SUFFICES ASSUME IInv, ApiTakes PROVE IInv' /\ Stacks!Next
  OBVIOUS
<1>1. status = "running" /\ ret # <<>> /\ calls[Depth].call.base > 0
  BY DEF ApiTakes
<1>2. /\ Depth \in 1..MaxDepth /\ Listed(Depth) /\ calls[Depth] \in Activation
      /\ calls[Depth].kind # "lua"
  <2>1. Depth \in 1..MaxDepth /\ calls \in Seq(Activation) /\ Depth \in 1..Len(calls)
    BY DEF IInv, Activations, Depth
  <2>2. calls[Depth] \in Activation
    BY <2>1, ElementOfSeq
  <2>3. Listed(Depth)
    BY <2>1 DEF IInv
  <2>4. calls[Depth].kind # "lua"
    BY <1>1, <2>3 DEF Listed, NoCall
  <2> QED BY <2>1, <2>2, <2>3, <2>4
<1>3. /\ stack \in 0..Depth /\ stack \in 0..MaxDepth /\ memory[stack] \in Array
      /\ top \in 0..MinStack /\ calls[Depth].call.base <= MinStack - top
      /\ \A p \in top..(MinStack - 1) : memory[stack][p] \in Value
  BY <1>2, TopList
<1>4. PICK c \in Activation : c = calls[Depth]
  BY <1>2
<1>5. PICK b, nr \in Nat : b = c.call.base /\ nr = c.call.nresults
  <2>1. MinStack \in Nat
    BY Constants
  <2>2. c.call.base \in 0..MinStack /\ c.call.nresults \in 0..MinStack
    BY DEF Activation, Call0
  <2> QED BY <2>1, <2>2
<1>6. PICK idx : idx = b + nr - 1
  OBVIOUS
<1>7. idx = calls[Depth].call.base + calls[Depth].call.nresults - 1
  BY <1>4, <1>5, <1>6
<1>8. PICK f : f = Frames[Depth]
  OBVIOUS
<1>9. /\ f = FrameOf(c, memory[stack], top)
      /\ f.kind = c.kind /\ f.list = ListIn(memory[stack], top) /\ f.base = b /\ f.nresults = nr
      /\ Results # <<>>
  <2>1. f = FrameOf(c, memory[stack], top) /\ Results # <<>>
    BY <1>1, <1>2, <1>4, <1>8, MapNow DEF StackOf, TopOf
  <2> QED BY <1>2, <1>4, <1>5, <2>1 DEF FrameOf
<1>10. CASE idx > MinStack
  <2>1. Abort
    BY <1>7, <1>10 DEF ApiTakes
  <2>2. IInv' /\ Stacks!Fails
    BY <2>1, AbortStep
  <2>3. Frames[Stacks!Depth].base + Frames[Stacks!Depth].nresults - 1 > MinStack
    BY <1>6, <1>8, <1>9, <1>10, MapNow
  <2> QED BY <1>1, <1>9, <2>2, <2>3 DEF Stacks!Abort, Stacks!Next
<1>11. CASE ~(idx > MinStack)
  <2>1. /\ memory' = [Forgotten EXCEPT ![stack] =
                Cut(Nilled(Delivered(calls[Depth].call), idx), StkEntry(idx))]
        /\ top' = StkEntry(idx) /\ calls' = [calls EXCEPT ![Depth].call = NoCall]
        /\ ret' = <<>> /\ UNCHANGED <<stack, genv, status>>
    BY <1>7, <1>11 DEF ApiTakes
  <2>2. PICK A \in Array, t \in 0..MinStack : A = memory[stack] /\ t = top
    BY <1>3
  <2>3. PICK r, R, RA : r = ret[1] /\ R = Results[1] /\ RA = memory[r.array]
    OBVIOUS
  <2>4. /\ r \in Passage /\ R \in Seq(Value) /\ Len(R) = r.n
        /\ \A j \in 1..r.n : R[j] = RA[r.src - j + 1]
    BY <1>1, <2>3, MapResults
  <2>5. PICK L : L = ListIn(A, t)
    OBVIOUS
  <2>6. /\ L \in Seq(Value) /\ Len(L) = MinStack - t
        /\ \A i \in 1..(MinStack - t) : L[i] = A[MinStack - i] /\ L[i] \in Value
    <3>1. \A p \in t..(MinStack - 1) : A[p] \in Value
      BY <1>3, <2>2
    <3>2. /\ ListIn(A, t) \in Seq(Value) /\ Len(ListIn(A, t)) = MinStack - t
          /\ \A i \in 1..(MinStack - t) : ListIn(A, t)[i] = A[MinStack - i]
      BY <3>1, ListOfValues
    <3>3. \A i \in 1..(MinStack - t) : MinStack - i \in t..(MinStack - 1)
      BY Constants
    <3> QED BY <2>5, <3>1, <3>2, <3>3
  <2>7. b \in 1..(MinStack - t) /\ idx \in 0..MinStack
    <3>1. b > 0 /\ b <= MinStack - t
      BY <1>1, <1>3, <1>4, <1>5, <2>2
    <3> QED BY <1>5, <1>6, <1>11, <3>1, Constants
  <2>8. PICK D, N, a, lost : /\ D = Filled(A, R, b, idx) /\ N = NilledIn(D, t, idx)
                             /\ a = CutTo(N, idx) /\ lost = (MinStack - t - b + 2)..nr
    OBVIOUS
  <2>9. Cut(Nilled(Delivered(calls[Depth].call), idx), StkEntry(idx)) = a
    <3>1. Delivered(calls[Depth].call) = D
      <4>1. DOMAIN memory[stack] = 0..(MinStack - 1)
        BY <1>3 DEF Array
      <4>2. ASSUME NEW p \in 0..(MinStack - 1), MinStack - p \in b..idx
            PROVE  (IF MinStack - p - b < ret[1].n THEN Result(MinStack - p - b) ELSE Nil)
                       = Stacks!Given(R, MinStack - p - b + 1)
        <5>1. PICK i \in Nat : i = MinStack - p - b
          BY <2>7, <4>2, Constants
        <5>2. r.n \in Nat /\ r.src \in Int
          BY <2>4 DEF Passage
        <5>3. i < r.n <=> i + 1 \in 1..r.n
          BY <5>2
        <5>4. r.src - (i + 1) + 1 = r.src - i
          BY <5>2
        <5>5. i < r.n => R[i + 1] = Result(i)
          BY <2>3, <2>4, <5>3, <5>4 DEF Result
        <5>6. i + 1 <= Len(R) <=> i < r.n
          BY <2>4, <5>2
        <5>7. (IF i < r.n THEN Result(i) ELSE Nil) = Stacks!Given(R, i + 1)
          BY <5>5, <5>6 DEF Stacks!Given
        <5> QED BY <2>3, <5>1, <5>7
      <4>3. Delivered(calls[Depth].call) =
              [p \in 0..(MinStack - 1) |->
                  IF MinStack - p \in b..idx
                  THEN IF MinStack - p - b < ret[1].n THEN Result(MinStack - p - b) ELSE Nil
                  ELSE A[p]]
        BY <1>4, <1>5, <1>6, <2>2, <4>1 DEF Delivered
      <4> QED BY <2>8, <4>2, <4>3 DEF Filled
    <3>4. DOMAIN D = 0..(MinStack - 1)
      BY <2>8 DEF Filled
    <3>2. Nilled(D, idx) = N
      BY <2>2, <2>8, <3>4 DEF Nilled, StkEntry, GetTop, NilledIn
    <3>5. DOMAIN N = 0..(MinStack - 1)
      BY <2>8 DEF NilledIn
    <3>3. Cut(N, StkEntry(idx)) = a
      BY <2>8, <3>5 DEF Cut, StkEntry, CutTo
    <3> QED BY <3>1, <3>2, <3>3
  <2>10. PICK P : P = SubSeq(L, 1, b - 1) \o Stacks!Arrived(R, nr, lost)
    OBVIOUS
  <2>11. /\ a \in Array /\ \A p \in (MinStack - idx)..(MinStack - 1) : a[p] \in Value
         /\ ListIn(a, MinStack - idx) = P
    <3>1. a = Change(A, R, b, t, idx) /\ P = Arrival(L, R, b, t, nr)
      BY <2>8, <2>10 DEF Change, Arrival
    <3>2. Fits(A, R, b, t, nr, idx)
      <4>1. b \in Nat /\ b > 0 /\ b <= MinStack - t /\ nr \in Nat
        BY <2>7, Constants
      <4>2. \A p \in t..(MinStack - 1) : A[p] \in Value
        BY <1>3, <2>2
      <4> QED BY <1>6, <2>4, <2>7, <4>1, <4>2 DEF Fits
    <3>3. Holds(Change(A, R, b, t, idx), idx, Arrival(ListIn(A, t), R, b, t, nr))
      BY <3>2, ListArrives
    <3> QED BY <2>5, <3>1, <3>3 DEF Holds
  <2>12. memory' = [Forgotten EXCEPT ![stack] = a] /\ top' = MinStack - idx /\ top' \in 0..MinStack
    <3>1. memory' = [Forgotten EXCEPT ![stack] = a] /\ top' = MinStack - idx
      BY <2>1, <2>9 DEF StkEntry
    <3>2. MinStack - idx \in 0..MinStack
      BY <2>7, Constants
    <3> QED BY <3>1, <3>2
  <2>13. /\ Memory' /\ memory'[stack] = a
         /\ \A s \in 0..Depth : s # stack => memory'[s] = memory[s]
    <3>1. /\ DOMAIN Forgotten = JitStack..MaxDepth
          /\ \A s \in JitStack..MaxDepth : Forgotten[s] \in [0..(Size(s) - 1) -> Value \cup {Junk}]
          /\ \A s \in 0..Depth : Forgotten[s] = memory[s]
      BY <1>1, Forgetting
    <3>2. stack \in JitStack..MaxDepth /\ Size(stack) = MinStack
      BY <1>3, Constants
    <3> HIDE DEF Forgotten
    <3>3. /\ DOMAIN memory' = JitStack..MaxDepth /\ memory'[stack] = a
          /\ \A s \in JitStack..MaxDepth : s # stack => memory'[s] = Forgotten[s]
      BY <2>12, <3>1, <3>2
    <3>4. \A s \in 0..Depth : s \in JitStack..MaxDepth
      <4>1. \A d \in 1..MaxDepth : \A s \in 0..d : s \in 0..MaxDepth
        BY Constants
      <4> QED BY <1>2, <4>1, Constants
    <3>5. \A s \in JitStack..MaxDepth : memory'[s] \in [0..(Size(s) - 1) -> Value \cup {Junk}]
      BY <2>11, <3>1, <3>2, <3>3 DEF Array
    <3> QED BY <3>1, <3>3, <3>4, <3>5 DEF Memory
  <2>14. PICK w : w = [c EXCEPT !.call = NoCall]
    OBVIOUS
  <2>15. /\ w \in Activation /\ w.kind = c.kind /\ w.oldstack = c.oldstack
         /\ w.oldtop = c.oldtop /\ w.call = NoCall
    <3>1. NoCall \in Call0
      BY Constants DEF NoCall, Call0
    <3> QED BY <2>14, <3>1 DEF Activation
  <2>16. calls' = [calls EXCEPT ![Depth] = w]
    BY <1>4, <2>1, <2>14
  <2>17. \A p \in top'..(MinStack - 1) : memory'[stack][p] \in Value
    BY <2>11, <2>12, <2>13
  <2>18. /\ IInv' /\ Results' = <<>>
         /\ Frames' = [Frames EXCEPT ![Depth] = FrameOf(w, memory'[stack], top')]
    BY <1>1, <1>2, <1>4, <2>1, <2>12, <2>13, <2>15, <2>16, <2>17, Taking
  <2>19. FrameOf(w, memory'[stack], top') = [f EXCEPT !.base = 0, !.nresults = 0, !.list = P]
    <3>1. PICK k, l : k = c.kind /\ l = f.list
      OBVIOUS
    <3>2. f = [kind |-> k, list |-> l, base |-> b, nresults |-> nr]
      BY <1>5, <1>9, <3>1 DEF FrameOf
    <3>3. PICK u : u = MinStack - idx
      OBVIOUS
    <3>4. FrameOf(w, a, u) = [kind |-> k, list |-> P, base |-> 0, nresults |-> 0]
      <4>1. w.kind # "lua" /\ w.kind = k /\ w.call.base = 0 /\ w.call.nresults = 0
            /\ ListIn(a, u) = P
        BY <1>2, <1>4, <2>11, <2>15, <3>1, <3>3 DEF NoCall
      <4> QED BY <4>1 DEF FrameOf
    <3>5. FrameOf(w, memory'[stack], top') = FrameOf(w, a, u)
      BY <2>12, <2>13, <3>3
    <3>6. [[kind |-> k, list |-> l, base |-> b, nresults |-> nr] EXCEPT !.base = 0]
              = [kind |-> k, list |-> l, base |-> 0, nresults |-> nr]
      OBVIOUS
    <3>7. [[kind |-> k, list |-> l, base |-> 0, nresults |-> nr] EXCEPT !.nresults = 0]
              = [kind |-> k, list |-> l, base |-> 0, nresults |-> 0]
      OBVIOUS
    <3>8. [[kind |-> k, list |-> l, base |-> 0, nresults |-> 0] EXCEPT !.list = P]
              = [kind |-> k, list |-> P, base |-> 0, nresults |-> 0]
      OBVIOUS
    <3> QED BY <3>2, <3>4, <3>5, <3>6, <3>7, <3>8
  <2>20. Stacks!ApiTakes
    <3>1. f.list = L /\ f.base = b /\ f.nresults = nr /\ Stacks!Depth = Depth /\ Frames[Depth] = f
      BY <1>8, <1>9, <2>2, <2>5, MapNow
    <3>2. lost \in SUBSET ((Len(L) - b + 1 + 1)..nr)
      <4>1. MinStack - t - b + 2 = Len(L) - b + 1 + 1
        BY <2>6, <2>7, Constants
      <4> QED BY <2>8, <4>1
    <3>3. b + nr - 1 <= MinStack /\ b > 0
      BY <1>6, <2>7
    <3>4. Frames' = [Frames EXCEPT ![Depth] = [@ EXCEPT !.base = 0, !.nresults = 0, !.list = P]]
      <4>1. PICK F, x : F = Frames /\ x = [f EXCEPT !.base = 0, !.nresults = 0, !.list = P]
        OBVIOUS
      <4>2. Frames' = [F EXCEPT ![Depth] = x] /\ F[Depth] = f
        BY <1>8, <2>18, <2>19, <4>1
      <4> QED BY <4>1, <4>2
    <3>5. Frames' = [Frames EXCEPT ![Depth] = [@ EXCEPT !.base = 0, !.nresults = 0,
                        !.list = SubSeq(L, 1, b - 1) \o Stacks!Arrived(R, nr, lost)]]
      BY <2>10, <3>4
    <3>6. /\ status = "running" /\ Results # <<>> /\ R = Results[1] /\ Results' = <<>>
          /\ UNCHANGED <<genv, status>>
      BY <1>1, <1>9, <2>1, <2>3, <2>18
    <3> QED BY <3>1, <3>2, <3>3, <3>5, <3>6 DEF Stacks!ApiTakes
  <2> QED BY <2>18, <2>20 DEF Stacks!Next
<1> QED BY <1>10, <1>11

-----------------------------------------------------------------------------
LEMMA StartsAsLists == Init => IInv /\ Stacks!Init
<1> SUFFICES ASSUME Init PROVE IInv /\ Stacks!Init
  OBVIOUS
<1>1. /\ memory = [s \in JitStack..MaxDepth |-> [p \in 0..(Size(s) - 1) |-> Junk]]
      /\ stack = 0 /\ top = MinStack /\ genv = [var \in Name |-> Nil]
      /\ calls = <<Host>> /\ ret = <<>> /\ status = "running"
  BY DEF Init
<1>2. Memory
  BY <1>1 DEF Memory
<1>3. Host \in Activation /\ Host.kind = "host" /\ Host.call = NoCall /\ NoCall.base = 0
  <2>1. NoCall \in Call0 /\ 0 \in 0..MaxDepth /\ 0 \in 0..MinStack /\ <<>> \in Seq(Value)
    BY Constants DEF NoCall, Call0
  <2> QED BY <2>1 DEF Host, Activation, NoCall
<1>4. PICK h \in Activation : h = Host
  BY <1>3
<1>5. calls \in Seq(Activation) /\ Depth = 1 /\ calls[1] = h
  BY <1>1, <1>4 DEF Depth
<1>6. Activations
  <2>1. 1 \in 1..MaxDepth
    BY Constants
  <2> QED BY <1>3, <1>4, <1>5, <2>1 DEF Activations
<1>7. MinStack \in 0..MinStack /\ MinStack - MinStack = 0
  BY Constants
<1>8. StackOf(1) = 0 /\ TopOf(1) = MinStack
  BY <1>1, <1>5 DEF StackOf, TopOf
<1>9. Listed(1)
  <2>1. \A p \in MinStack..(MinStack - 1) : memory[0][p] \in Value
    BY Constants
  <2> QED BY <1>3, <1>4, <1>5, <1>7, <1>8, <2>1 DEF Listed, Own
<1>10. IInv
  <2>1. genv \in [Name -> Value]
    BY <1>1 DEF Value
  <2> QED BY <1>1, <1>2, <1>3, <1>4, <1>5, <1>6, <1>9, <2>1 DEF IInv, Returned
<1>11. Frames = <<[kind |-> "host", list |-> <<>>, base |-> 0, nresults |-> 0]>>
  <2>1. FrameOf(calls[1], memory[StackOf(1)], TopOf(1))
            = [kind |-> "host", list |-> <<>>, base |-> 0, nresults |-> 0]
    <3>1. ListIn(memory[0], MinStack) = <<>>
      BY <1>7 DEF ListIn
    <3>2. calls[1].kind = "host" /\ calls[1].call.base = 0 /\ calls[1].call.nresults = 0
      BY <1>3, <1>4, <1>5 DEF NoCall
    <3> QED BY <1>8, <3>1, <3>2 DEF FrameOf
  <2>2. PICK x : x = FrameOf(calls[1], memory[StackOf(1)], TopOf(1))
    OBVIOUS
  <2>3. Frames = [k \in 1..1 |-> x]
    BY <1>5, <2>2 DEF Frames
  <2>4. [k \in 1..1 |-> x] = <<x>>
    OBVIOUS
  <2> QED BY <2>1, <2>2, <2>3, <2>4
<1>12. Results = <<>>
  BY <1>1 DEF Results
<1> QED BY <1>1, <1>10, <1>11, <1>12 DEF Stacks!Init

LEMMA EveryStep == IInv /\ [Next]_vars => IInv' /\ [Stacks!Next]_Stacks!vars
<1> SUFFICES ASSUME IInv, [Next]_vars PROVE IInv' /\ [Stacks!Next]_Stacks!vars
  OBVIOUS
<1>1. CASE Next
  <2>1. CASE Push
    BY <2>1, PushStep
  <2>2. CASE Pop
    BY <2>2, PopStep
  <2>3. CASE SetTop
    BY <2>3, SetTopStep
  <2>4. CASE SetGlobal
    BY <2>4, SetGlobalStep
  <2>5. CASE GetGlobal
    BY <2>5, GetGlobalStep
  <2>6. CASE Call
    BY <2>6, CallStep
  <2>7. CASE Execute
    BY <2>7, ExecuteStep
  <2>8. CASE LuaDefines
    BY <2>8, LuaDefinesStep
  <2>9. CASE LuaCalls
    BY <2>9, LuaCallsStep
  <2>10. CASE CReturns
    BY <2>10, CReturnsStep
  <2>11. CASE LuaReturns
    BY <2>11, LuaReturnsStep
  <2>12. CASE LuaTakes
    BY <2>12, LuaTakesStep
  <2>13. CASE ApiTakes
    BY <2>13, ApiTakesStep
  <2>14. CASE Executed
    BY <2>14, ExecutedStep
  <2> QED BY <1>1, <2>1, <2>2, <2>3, <2>4, <2>5, <2>6, <2>7, <2>8, <2>9, <2>10, <2>11, <2>12,
             <2>13, <2>14 DEF Next
<1>2. CASE UNCHANGED vars
  <2>1. IInv'
    BY <1>2 DEF vars, IInv, Memory, Activations, Listed, Returned, StackOf, TopOf, Depth
  <2>2. UNCHANGED <<Frames, Results>>
    BY <1>2 DEF vars, Frames, Results, StackOf, TopOf, Depth
  <2>3. UNCHANGED <<genv, status>>
    BY <1>2 DEF vars
  <2> QED BY <2>1, <2>2, <2>3 DEF Stacks!vars
<1> QED BY <1>1, <1>2

LEMMA ListsAreTyped == IInv => TypeOK
<1> SUFFICES ASSUME IInv PROVE TypeOK
  OBVIOUS
<1>1. Depth \in 1..MaxDepth /\ Listed(Depth)
  BY DEF IInv, Activations
<1>2. stack \in 0..Depth /\ top \in 0..MinStack
  BY <1>1 DEF Listed, StackOf, TopOf
<1>3. ASSUME ret # <<>>
      PROVE  /\ ret[1].n \in 0..Size(ret[1].array)
             /\ ret[1].src \in -1..(Size(ret[1].array) - 1)
             /\ ret[1].src - ret[1].n >= -1
  <2>1. /\ ret \in Seq(Passage) /\ Len(ret) = 1
        /\ ret[1].n <= Size(ret[1].array) /\ ret[1].src < Size(ret[1].array)
        /\ ret[1].src - ret[1].n >= -1
    BY <1>3 DEF IInv, Returned
  <2>2. PICK r : r = ret[1]
    OBVIOUS
  <2>3. r \in Passage
    <3>1. 1 \in 1..Len(ret)
      BY <2>1
    <3> QED BY <2>1, <2>2, <3>1, ElementOfSeq
  <2>4. PICK n \in Nat, src \in Int, size \in Nat : n = r.n /\ src = r.src /\ size = Size(r.array)
    <3>1. r.n \in Nat /\ r.src \in Int /\ Size(r.array) \in Nat
      BY <2>3, Constants DEF Passage, Size
    <3> QED BY <3>1
  <2>5. n <= size /\ src < size /\ src - n >= -1
    BY <2>1, <2>2, <2>4
  <2>6. n \in 0..size /\ src \in -1..(size - 1)
    BY <2>5
  <2> QED BY <2>1, <2>2, <2>4, <2>6
<1> QED BY <1>1, <1>2, <1>3 DEF IInv, Memory, TypeOK

\* The top of a stack stays in the array it belongs to, and so do the places
\* of results, however functions call each other (lapi.c:46, xlogue.c:659).
THEOREM TypeCorrect == Spec => []TypeOK
<1>1. Init => IInv
  BY StartsAsLists
<1>2. IInv /\ [Next]_vars => IInv'
  BY EveryStep
<1>3. IInv => TypeOK
  BY ListsAreTyped
<1> QED BY <1>1, <1>2, <1>3, PTL DEF Spec

\* The arrays, the tops that ljc_invokec keeps and restores and the copies of
\* arguments and results implement lists of values, one for each active C
\* function, that no other function changes (lapi.c:150, xlogue.c:635).
THEOREM StacksAreLists == Spec => RefinesValueStacks
<1>1. Init => IInv /\ Stacks!Init
  BY StartsAsLists
<1>2. IInv /\ [Next]_vars => IInv' /\ [Stacks!Next]_Stacks!vars
  BY EveryStep
<1> QED BY <1>1, <1>2, PTL DEF Spec, RefinesValueStacks, Stacks!Spec
=============================================================================
