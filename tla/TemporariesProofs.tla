------------------------- MODULE TemporariesProofs --------------------------
(***************************************************************************)
(* Theorems about the temporary allocator, for every number of temporary   *)
(* registers.  The inductive invariant is that the reference counts are a  *)
(* stair: the first `top' slots hold `full' + 1 temporaries and the others *)
(* `full'.                                                                 *)
(***************************************************************************)
EXTENDS Temporaries, Sequences, TLAPS

Stair(full, top) == [i \in Slot |-> IF i < top THEN full + 1 ELSE full]

IsStair(rcs) == \E full \in Nat, top \in Slot : rcs = Stair(full, top)

IInv ==
    /\ TypeOK
    /\ IsStair(refcount)
    /\ TempsAccessed(refcount) <= MaxDepth
    /\ TempsAccessed(refcount) <= max_access

\* The two scans and temps_accessed, on a stair: the slot acquire_temp picks
\* is the first one of the lower step and release_temp undoes it.
LEMMA StairSlots ==
    ASSUME NEW full \in Nat, NEW top \in Slot
    PROVE  /\ AcquireSlot(Stair(full, top)) = top
           /\ ReleaseSlot(Stair(full, top)) = IF top = 0 THEN NrTemps - 1 ELSE top - 1
           /\ TempsAccessed(Stair(full, top)) = full * NrTemps + top
<1> DEFINE rcs == Stair(full, top)
<1> USE NrTempsAssumption
<1>1. rcs \in [Slot -> Nat]
  BY DEF Stair
<1>2. Drops(rcs) = IF top = 0 THEN {} ELSE {top - 1}
  <2>1. \A i \in Slot : rcs[i] = IF i < top THEN full + 1 ELSE full
    BY DEF Stair
  <2>2. \A i \in Slot : i + 1 \in Slot /\ rcs[i] > rcs[i + 1] <=> i = top - 1
    BY <2>1 DEF Slot
  <2> HIDE DEF rcs
  <2>3. top # 0 => top - 1 \in Slot
    BY DEF Slot
  <2>4. top = 0 => top - 1 \notin Slot
    BY DEF Slot
  <2> QED BY <2>2, <2>3, <2>4 DEF Drops
<1>3. AcquireSlot(rcs) = top
  <2>1. CASE top = 0
    BY <1>2, <2>1 DEF AcquireSlot
  <2>2. CASE top # 0
    <3>1. Drops(rcs) = {top - 1}
      BY <1>2, <2>2
    <3>2. (CHOOSE i \in Drops(rcs) : \A j \in Drops(rcs) : j <= i) = top - 1
      BY <3>1 DEF Slot
    <3> QED BY <3>1, <3>2 DEF AcquireSlot, Slot
  <2> QED BY <2>1, <2>2
<1>4. ReleaseSlot(rcs) = IF top = 0 THEN NrTemps - 1 ELSE top - 1
  <2>1. CASE top = 0
    BY <1>2, <2>1 DEF ReleaseSlot
  <2>2. CASE top # 0
    <3>1. Drops(rcs) = {top - 1}
      BY <1>2, <2>2
    <3>2. (CHOOSE i \in Drops(rcs) : \A j \in Drops(rcs) : i <= j) = top - 1
      BY <3>1 DEF Slot
    <3> QED BY <3>1, <3>2, <2>2 DEF ReleaseSlot
  <2> QED BY <2>1, <2>2
<1>5. TempsAccessed(rcs) = full * NrTemps + top
  <2>1. CASE top = 0
    <3>1. rcs[NrTemps - 1] = full
      BY <2>1 DEF Stair, Slot
    <3>2. TempsAccessed(rcs) = (full - 1) * NrTemps + (NrTemps - 1) + 1
      BY <1>4, <2>1, <3>1 DEF TempsAccessed
    <3> QED BY <3>2, <2>1
  <2>2. CASE top # 0
    <3>1. rcs[top - 1] = full + 1
      BY <2>2 DEF Stair, Slot
    <3>2. TempsAccessed(rcs) = ((full + 1) - 1) * NrTemps + (top - 1) + 1
      BY <1>4, <2>2, <3>1 DEF TempsAccessed
    <3> QED BY <3>2, <2>2 DEF Slot
  <2> QED BY <2>1, <2>2
<1> QED BY <1>3, <1>4, <1>5

\* One more temporary keeps the stair: the step moves up by one slot.
LEMMA StairUp ==
    ASSUME NEW full \in Nat, NEW top \in Slot
    PROVE  [Stair(full, top) EXCEPT ![top] = full + 1] =
               IF top + 1 \in Slot THEN Stair(full, top + 1) ELSE Stair(full + 1, 0)
<1> DEFINE rcs == [Stair(full, top) EXCEPT ![top] = full + 1]
<1>1. \A i \in Slot : rcs[i] = IF i < top + 1 THEN full + 1 ELSE full
  BY NrTempsAssumption DEF Stair, Slot
<1>2. rcs = [i \in Slot |-> rcs[i]]
  BY DEF Stair
<1>3. CASE top + 1 \in Slot
  BY <1>1, <1>2, <1>3 DEF Stair
<1>4. CASE top + 1 \notin Slot
  <2>1. \A i \in Slot : i < top + 1 /\ ~(i < 0)
    BY <1>4, NrTempsAssumption DEF Slot
  <2> QED BY <1>1, <1>2, <1>4, <2>1 DEF Stair
<1> QED BY <1>3, <1>4

\* One temporary less keeps the stair too.
LEMMA StairDown ==
    ASSUME NEW full \in Nat, NEW top \in Slot
    PROVE  /\ top > 0 => [Stair(full, top) EXCEPT ![top - 1] = full] = Stair(full, top - 1)
           /\ [Stair(full, 0) EXCEPT ![NrTemps - 1] = full - 1] = Stair(full - 1, NrTemps - 1)
<1> USE NrTempsAssumption
<1>1. ASSUME top > 0
      PROVE  [Stair(full, top) EXCEPT ![top - 1] = full] = Stair(full, top - 1)
  <2> DEFINE rcs == [Stair(full, top) EXCEPT ![top - 1] = full]
  <2>1. \A i \in Slot : rcs[i] = IF i < top - 1 THEN full + 1 ELSE full
    BY <1>1 DEF Stair, Slot
  <2>2. rcs = [i \in Slot |-> rcs[i]]
    BY DEF Stair
  <2> QED BY <2>1, <2>2 DEF Stair
<1>2. [Stair(full, 0) EXCEPT ![NrTemps - 1] = full - 1] = Stair(full - 1, NrTemps - 1)
  <2> DEFINE rcs == [Stair(full, 0) EXCEPT ![NrTemps - 1] = full - 1]
  <2>1. \A i \in Slot : rcs[i] = IF i < NrTemps - 1 THEN (full - 1) + 1 ELSE full - 1
    BY DEF Stair, Slot
  <2>2. rcs = [i \in Slot |-> rcs[i]]
    BY DEF Stair
  <2> QED BY <2>1, <2>2 DEF Stair
<1> QED BY <1>1, <1>2

LEMMA InitIInv == Init => IInv
<1> SUFFICES ASSUME Init PROVE IInv
  OBVIOUS
<1>1. TypeOK
  BY ValueAssumption DEF Init, TypeOK
<1>2. refcount = Stair(0, 0) /\ 0 \in Slot
  BY NrTempsAssumption DEF Init, Stair, Slot
<1>3. TempsAccessed(refcount) = 0
  BY <1>2, StairSlots, NrTempsAssumption
<1>4. max_access = 0
  BY DEF Init
<1> QED BY <1>1, <1>2, <1>3, <1>4, MaxDepthAssumption DEF IInv, IsStair

\* abs_stack_offset stays below sp and inside the area the depth allows.
LEMMA StackWordType ==
    ASSUME NEW i \in Slot, NEW rc \in Nat \ {0}, rc <= MaxDepth
    PROVE  StackWord(i, rc) \in Word
<1> USE NrTempsAssumption, MaxDepthAssumption
<1>1. StackWord(i, rc) = (rc - 1) * (NrTemps + 1) + i + 1
  BY DEF StackWord, Slot
<1>2. (rc - 1) * (NrTemps + 1) \in Nat
  OBVIOUS
<1>3. (rc - 1) * (NrTemps + 1) <= (MaxDepth - 1) * (NrTemps + 1)
  <2>1. (MaxDepth - rc) * (NrTemps + 1) \in Nat
    OBVIOUS
  <2>2. (MaxDepth - 1) * (NrTemps + 1) = (rc - 1) * (NrTemps + 1) + (MaxDepth - rc) * (NrTemps + 1)
    OBVIOUS
  <2> QED BY <1>2, <2>1, <2>2
<1>4. MaxDepth * (NrTemps + 1) = (MaxDepth - 1) * (NrTemps + 1) + (NrTemps + 1)
  OBVIOUS
<1> QED BY <1>1, <1>2, <1>3, <1>4 DEF Word, Slot

\* No two spilled values are given the same word.
LEMMA StackWordInjective ==
    ASSUME NEW i \in Slot, NEW j \in Slot,
           NEW a \in Nat \ {0}, NEW b \in Nat \ {0},
           StackWord(i, a) = StackWord(j, b)
    PROVE  i = j /\ a = b
<1> USE NrTempsAssumption
<1> DEFINE n == NrTemps + 1
<1>1. (a - 1) * n + i = (b - 1) * n + j
  BY DEF StackWord, Slot
<1>2. i \in 0..(n - 2) /\ j \in 0..(n - 2) /\ n \in Nat
  BY DEF Slot
<1> HIDE DEF n
<1>3. ASSUME NEW x \in Nat, NEW y \in Nat, x < y
      PROVE  x * n + n <= y * n
  <2>1. (y - x - 1) * n \in Nat
    BY <1>2, <1>3
  <2>2. y * n = x * n + n + (y - x - 1) * n
    BY <1>2
  <2>3. x * n \in Nat
    BY <1>2
  <2> QED BY <1>2, <2>1, <2>2, <2>3
<1>4. (a - 1) * n \in Nat /\ (b - 1) * n \in Nat
  BY <1>2
<1>5. CASE a < b
  <2>1. (a - 1) * n + n <= (b - 1) * n
    BY <1>3, <1>5
  <2> QED BY <1>1, <1>2, <1>4, <2>1
<1>6. CASE b < a
  <2>1. (b - 1) * n + n <= (a - 1) * n
    BY <1>3, <1>6
  <2> QED BY <1>1, <1>2, <1>4, <2>1
<1>7. CASE a = b
  BY <1>1, <1>2, <1>4, <1>7
<1> QED BY <1>5, <1>6, <1>7

\* Every round that is held is at most the depth.
LEMMA RoundBound ==
    ASSUME NEW full \in Nat, NEW top \in Slot, full * NrTemps + top <= MaxDepth
    PROVE  full <= MaxDepth
<1>1. full * NrTemps = full + full * (NrTemps - 1)
  BY NrTempsAssumption
<1>2. full * (NrTemps - 1) \in Nat
  BY NrTempsAssumption
<1> QED BY <1>1, <1>2, MaxDepthAssumption DEF Slot

\* What acquire_temp does, in terms of the stair.
LEMMA AcquireOnStair ==
    ASSUME NEW full \in Nat, NEW top \in Slot,
           refcount = Stair(full, top), AcquireTemp
    PROVE  /\ refcount' = [refcount EXCEPT ![top] = full + 1]
           /\ refcount' = IF top + 1 \in Slot THEN Stair(full, top + 1)
                          ELSE Stair(full + 1, 0)
           /\ spilled' = IF full > 0
                         THEN [spilled EXCEPT ![StackWord(top, full)] = regs[top]]
                         ELSE spilled
           /\ TempsAccessed(refcount) = full * NrTemps + top
           /\ TempsAccessed(refcount') = full * NrTemps + top + 1
           /\ full * NrTemps + top < MaxDepth
<1> USE NrTempsAssumption
<1>1. AcquireSlot(refcount) = top /\ TempsAccessed(refcount) = full * NrTemps + top
  BY StairSlots
<1>2. refcount[top] = full
  BY DEF Stair, Slot
<1>3. /\ refcount' = [refcount EXCEPT ![top] = full + 1]
      /\ spilled' = IF full > 0
                    THEN [spilled EXCEPT ![StackWord(top, full)] = regs[top]]
                    ELSE spilled
      /\ full * NrTemps + top < MaxDepth
  BY <1>1, <1>2 DEF AcquireTemp
<1>4. refcount' = IF top + 1 \in Slot THEN Stair(full, top + 1) ELSE Stair(full + 1, 0)
  BY <1>3, StairUp
<1>5. TempsAccessed(refcount') = full * NrTemps + top + 1
  <2>1. CASE top + 1 \in Slot
    BY <1>4, <2>1, StairSlots DEF Slot
  <2>2. CASE top + 1 \notin Slot
    <3>1. top + 1 = NrTemps /\ 0 \in Slot
      BY <2>2 DEF Slot
    <3>2. TempsAccessed(refcount') = (full + 1) * NrTemps + 0
      BY <1>4, <2>2, <3>1, StairSlots
    <3> QED BY <3>1, <3>2 DEF Slot
  <2> QED BY <2>1, <2>2
<1> QED BY <1>1, <1>3, <1>4, <1>5

\* What release_temp does, in terms of the stair.
LEMMA ReleaseOnStair ==
    ASSUME NEW full \in Nat, NEW top \in Slot,
           refcount = Stair(full, top), ReleaseTemp
    PROVE  LET i  == IF top = 0 THEN NrTemps - 1 ELSE top - 1
               rc == IF top = 0 THEN full - 1 ELSE full
           IN  /\ i \in Slot /\ rc \in Nat
               /\ refcount[i] = rc + 1
               /\ refcount' = [refcount EXCEPT ![i] = rc]
               /\ refcount' = Stair(rc, i)
               /\ regs' = IF rc > 0
                          THEN [regs EXCEPT ![i] = spilled[StackWord(i, rc)]]
                          ELSE regs
               /\ TempsAccessed(refcount) = full * NrTemps + top
               /\ TempsAccessed(refcount') = full * NrTemps + top - 1
<1> DEFINE i  == IF top = 0 THEN NrTemps - 1 ELSE top - 1
           rc == IF top = 0 THEN full - 1 ELSE full
<1> USE NrTempsAssumption
<1>1. ReleaseSlot(refcount) = i /\ TempsAccessed(refcount) = full * NrTemps + top
  BY StairSlots
<1>2. i \in Slot /\ refcount[i] = rc + 1
  BY DEF Stair, Slot
<1>3. refcount[i] > 0
  BY <1>1 DEF ReleaseTemp, HeldAt, FillWord
<1>4. rc \in Nat
  BY <1>2, <1>3
<1>5. /\ refcount' = [refcount EXCEPT ![i] = refcount[i] - 1]
      /\ regs' = IF refcount[i] - 1 > 0
                 THEN [regs EXCEPT ![i] = spilled[StackWord(i, refcount[i] - 1)]]
                 ELSE regs
  BY <1>1 DEF ReleaseTemp, HeldAt, FillWord
<1>6. refcount[i] - 1 = rc
  BY <1>2, <1>4
<1>7. refcount' = Stair(rc, i)
  <2>1. CASE top = 0
    BY <1>5, <1>6, <2>1, StairDown
  <2>2. CASE top # 0
    <3>1. i = top - 1 /\ rc = full /\ top > 0
      BY <2>2 DEF Slot
    <3>2. refcount' = [Stair(full, top) EXCEPT ![top - 1] = full]
      BY <1>5, <1>6, <3>1
    <3> QED BY <3>1, <3>2, StairDown
  <2> QED BY <2>1, <2>2
<1>8. TempsAccessed(refcount') = rc * NrTemps + i
  BY <1>2, <1>4, <1>7, StairSlots
<1>9. rc * NrTemps + i = full * NrTemps + top - 1
  <2>1. CASE top = 0
    BY <2>1
  <2>2. CASE top # 0
    BY <2>2 DEF Slot
  <2> QED BY <2>1, <2>2
<1> QED BY <1>1, <1>2, <1>4, <1>5, <1>6, <1>7, <1>8, <1>9

LEMMA AcquireIInv == IInv /\ AcquireTemp => IInv'
<1> SUFFICES ASSUME IInv, AcquireTemp PROVE IInv'
  OBVIOUS
<1>1. PICK full \in Nat, top \in Slot : refcount = Stair(full, top)
  BY DEF IInv, IsStair
<1>2. IsStair(refcount')
  BY <1>1, AcquireOnStair, NrTempsAssumption DEF IsStair, Slot
<1>3. refcount' \in [Slot -> Nat] /\ spilled' \in [Word -> Value]
  BY <1>1, AcquireOnStair DEF IInv, TypeOK
<1>4. max_access' \in Nat
  <2>1. TempsAccessed(refcount') \in Nat
    <3>1. TempsAccessed(refcount') = full * NrTemps + top + 1
      BY <1>1, AcquireOnStair
    <3> QED BY <3>1, NrTempsAssumption DEF Slot
  <2> QED BY <2>1 DEF AcquireTemp, IInv, TypeOK
<1>5. regs' \in [Slot -> Value] /\ allow_spill' \in BOOLEAN /\ aborted' \in BOOLEAN
  BY DEF AcquireTemp, IInv, TypeOK
<1>6. TempsAccessed(refcount') <= MaxDepth
  <2>1. /\ full * NrTemps + top < MaxDepth
        /\ TempsAccessed(refcount') = full * NrTemps + top + 1
    BY <1>1, AcquireOnStair
  <2>2. full * NrTemps + top \in Nat
    BY NrTempsAssumption DEF Slot
  <2> QED BY <2>1, <2>2, MaxDepthAssumption
<1>7. TempsAccessed(refcount') <= max_access'
  <2>1. TempsAccessed(refcount') = full * NrTemps + top + 1
    BY <1>1, AcquireOnStair
  <2>2. TempsAccessed(refcount') \in Nat
    BY <2>1, NrTempsAssumption DEF Slot
  <2> QED BY <2>2 DEF AcquireTemp, IInv, TypeOK
<1> QED BY <1>2, <1>3, <1>4, <1>5, <1>6, <1>7 DEF IInv, TypeOK

LEMMA ReleaseIInv == IInv /\ ReleaseTemp => IInv'
<1> SUFFICES ASSUME IInv, ReleaseTemp PROVE IInv'
  OBVIOUS
<1>1. PICK full \in Nat, top \in Slot : refcount = Stair(full, top)
  BY DEF IInv, IsStair
<1> DEFINE i  == IF top = 0 THEN NrTemps - 1 ELSE top - 1
           rc == IF top = 0 THEN full - 1 ELSE full
<1>2. /\ i \in Slot /\ rc \in Nat
      /\ refcount' = [refcount EXCEPT ![i] = rc]
      /\ refcount' = Stair(rc, i)
      /\ regs' = IF rc > 0
                 THEN [regs EXCEPT ![i] = spilled[StackWord(i, rc)]]
                 ELSE regs
  BY <1>1, ReleaseOnStair
<1>3. IsStair(refcount')
  BY <1>2 DEF IsStair
<1>4. refcount' \in [Slot -> Nat]
  BY <1>2 DEF IInv, TypeOK
<1>5. regs' \in [Slot -> Value]
  <2>1. CASE rc > 0
    <3>1. full * NrTemps + top <= MaxDepth
      BY <1>1, StairSlots DEF IInv
    <3>2. rc <= MaxDepth
      BY <1>2, <3>1, RoundBound, MaxDepthAssumption
    <3>3. StackWord(i, rc) \in Word
      BY <1>2, <2>1, <3>2, StackWordType
    <3> QED BY <1>2, <3>3 DEF IInv, TypeOK
  <2>2. CASE ~(rc > 0)
    BY <1>2, <2>2 DEF IInv, TypeOK
  <2> QED BY <2>1, <2>2
<1>6. TempsAccessed(refcount') <= MaxDepth
  <2>1. /\ TempsAccessed(refcount) = full * NrTemps + top
        /\ TempsAccessed(refcount') = full * NrTemps + top - 1
    BY <1>1, ReleaseOnStair
  <2>2. full * NrTemps + top \in Nat
    BY NrTempsAssumption DEF Slot
  <2> QED BY <2>1, <2>2, MaxDepthAssumption, NrTempsAssumption DEF IInv, Slot
<1>8. TempsAccessed(refcount') <= max_access'
  <2>1. /\ TempsAccessed(refcount) = full * NrTemps + top
        /\ TempsAccessed(refcount') = full * NrTemps + top - 1
    BY <1>1, ReleaseOnStair
  <2>2. full * NrTemps + top \in Nat
    BY NrTempsAssumption DEF Slot
  <2>3. max_access' = max_access /\ max_access \in Nat
    BY DEF ReleaseTemp, IInv, TypeOK
  <2> QED BY <2>1, <2>2, <2>3, NrTempsAssumption DEF IInv, Slot
<1>7. UNCHANGED <<spilled, allow_spill, max_access, aborted>>
  BY DEF ReleaseTemp
<1> QED BY <1>3, <1>4, <1>5, <1>6, <1>7, <1>8 DEF IInv, TypeOK

LEMMA NextIInv == IInv /\ [Next]_vars => IInv'
<1> SUFFICES ASSUME IInv, [Next]_vars PROVE IInv'
  OBVIOUS
<1>1. CASE AcquireTemp
  BY <1>1, AcquireIInv
<1>2. CASE AcquireAborts
  BY <1>2 DEF AcquireAborts, IInv, TypeOK
<1>3. CASE ReleaseTemp
  BY <1>3, ReleaseIInv
<1>4. CASE WriteTemp
  BY <1>4 DEF WriteTemp, IInv, TypeOK
<1>5. CASE SetSpill
  BY <1>5 DEF SetSpill, IInv, TypeOK
<1>6. CASE BeginJFunc
  BY <1>6 DEF BeginJFunc, IInv, TypeOK
<1>7. CASE UNCHANGED vars
  BY <1>7 DEF vars, IInv, TypeOK
<1> QED BY <1>1, <1>2, <1>3, <1>4, <1>5, <1>6, <1>7 DEF Next

LEMMA AlwaysIInv == Spec => []IInv
BY InitIInv, NextIInv, PTL DEF Spec

\* Every state of the allocator is well typed: in particular a release never
\* takes a reference count below zero and a fill reads a word that exists.
THEOREM TypeCorrect == Spec => []TypeOK
<1>1. IInv => TypeOK
  BY DEF IInv
<1> QED BY <1>1, AlwaysIInv, PTL

\* The comment above the scan of acquire_temp holds: the reference counts
\* never increase along the slots and differ by at most one.
THEOREM StaircaseHolds == Spec => []Staircase
<1>1. IInv => Staircase
  <2> SUFFICES ASSUME IInv PROVE Staircase
    OBVIOUS
  <2>1. PICK full \in Nat, top \in Slot : refcount = Stair(full, top)
    BY DEF IInv, IsStair
  <2>2. \A i \in Slot : refcount[i] = IF i < top THEN full + 1 ELSE full
    BY <2>1 DEF Stair
  <2> QED BY <2>2 DEF Staircase, Slot
<1> QED BY <1>1, AlwaysIInv, PTL

\* However many temporaries are spilled, no two of them share a word below
\* sp, so no fill can read another temporary's value.
THEOREM SpillsAreDisjoint == Spec => []SpillsDisjoint
<1>1. IInv => SpillsDisjoint
  <2> SUFFICES ASSUME IInv PROVE SpillsDisjoint
    OBVIOUS
  <2>1. PICK full \in Nat, top \in Slot : refcount = Stair(full, top)
    BY DEF IInv, IsStair
  <2>2. \A i \in Slot : refcount[i] = IF i < top THEN full + 1 ELSE full
    BY <2>1 DEF Stair
  <2>3. full <= MaxDepth
    BY <2>1, StairSlots, RoundBound DEF IInv
  <2>4. ASSUME NEW i \in Slot, NEW rc \in 1..(refcount[i] - 1)
        PROVE  StackWord(i, rc) \in Word
    <3>1. rc \in Nat \ {0} /\ rc <= full
      BY <2>2
    <3> QED BY <2>3, <3>1, StackWordType, MaxDepthAssumption
  <2>5. ASSUME NEW i \in Slot, NEW j \in Slot,
               NEW a \in 1..(refcount[i] - 1), NEW b \in 1..(refcount[j] - 1),
               StackWord(i, a) = StackWord(j, b)
        PROVE  i = j /\ a = b
    <3>1. a \in Nat \ {0} /\ b \in Nat \ {0}
      BY <2>2
    <3> QED BY <2>5, <3>1, StackWordInjective
  <2> QED BY <2>4, <2>5 DEF SpillsDisjoint
<1> QED BY <1>1, AlwaysIInv, PTL

\* As long as no more than one round of temporaries was spilled, what a JIT
\* function wrote below sp is within the clobber that it records.
THEOREM ClobberBounds == Spec => []ClobberBoundsSpills
<1>1. IInv => ClobberBoundsSpills
  <2> SUFFICES ASSUME IInv, StackClobber <= NrTemps,
                      NEW i \in Slot, NEW w \in SpilledOf(i)
               PROVE  w <= StackClobber
    BY DEF ClobberBoundsSpills
  <2> USE NrTempsAssumption
  <2>1. PICK full \in Nat, top \in Slot : refcount = Stair(full, top)
    BY DEF IInv, IsStair
  <2>2. PICK rc \in 1..(refcount[i] - 1) : w = StackWord(i, rc)
    BY DEF SpilledOf
  <2>3. refcount[i] = IF i < top THEN full + 1 ELSE full
    BY <2>1 DEF Stair
  <2>4. rc \in Nat \ {0} /\ i \in Nat /\ top \in Nat
    BY <2>3 DEF Slot
  <2> DEFINE base == (rc - 1) * NrTemps
  <2>5. base \in Nat
    BY <2>4
  <2>6. w = base + i + rc
    BY <2>2 DEF StackWord
  <2>7. base + i + 1 + NrTemps <= full * NrTemps + top
    <3>1. CASE i < top
      <4>1. rc <= full
        BY <2>2, <2>3, <3>1
      <4>2. (full - rc) * NrTemps \in Nat
        BY <2>4, <4>1
      <4>3. full * NrTemps = base + NrTemps + (full - rc) * NrTemps
        BY <2>4
      <4> QED BY <2>4, <2>5, <3>1, <4>2, <4>3
    <3>2. CASE ~(i < top)
      <4>1. rc + 1 <= full
        BY <2>2, <2>3, <3>2
      <4>2. (full - rc - 1) * NrTemps \in Nat
        BY <2>4, <4>1
      <4>3. full * NrTemps = base + NrTemps + NrTemps + (full - rc - 1) * NrTemps
        BY <2>4
      <4>4. i + 1 <= NrTemps
        BY DEF Slot
      <4> QED BY <2>4, <2>5, <4>2, <4>3, <4>4
    <3> QED BY <3>1, <3>2
  <2>8. full * NrTemps + top <= max_access /\ max_access \in Nat
    BY <2>1, StairSlots DEF IInv, TypeOK
  <2> HIDE DEF base
  <2>9. full * NrTemps \in Nat
    OBVIOUS
  <2>10. StackClobber \in Nat /\ base + i + 1 <= StackClobber
    BY <2>4, <2>5, <2>7, <2>8, <2>9 DEF StackClobber
  <2>11. rc = 1
    <3>1. base < NrTemps
      BY <2>4, <2>5, <2>10
    <3>2. CASE rc # 1
      <4>1. (rc - 2) * NrTemps \in Nat
        BY <2>4, <3>2
      <4>2. base = NrTemps + (rc - 2) * NrTemps
        BY <2>4 DEF base
      <4> QED BY <3>1, <4>1, <4>2
    <3> QED BY <3>2
  <2>12. base = 0
    BY <2>11 DEF base
  <2> QED BY <2>4, <2>6, <2>10, <2>11, <2>12
<1> QED BY <1>1, AlwaysIInv, PTL

-----------------------------------------------------------------------------
(* The allocator implements the stack of virtual temporaries.              *)

SlotOf(k) == (k - 1) % NrTemps
RoundOf(k) == (k - 1) \div NrTemps + 1

\* The mapped state: the contents of every temporary that is held.
Held == [k \in 1..TempsAccessed(refcount) |-> TempValue(k)]

\* Whole rounds fit below a larger number of rounds.
LEMMA RoundStep ==
    ASSUME NEW n \in Nat, NEW x \in Nat, NEW y \in Nat, x < y
    PROVE  x * n + n <= y * n
<1>1. (y - x - 1) * n \in Nat
  OBVIOUS
<1>2. y * n = x * n + n + (y - x - 1) * n
  OBVIOUS
<1>3. x * n \in Nat
  OBVIOUS
<1> QED BY <1>1, <1>2, <1>3

LEMMA DivModUnique ==
    ASSUME NEW n \in Nat \ {0}, NEW q \in Nat, NEW i \in 0..(n - 1)
    PROVE  (q * n + i) % n = i /\ (q * n + i) \div n = q
<1> DEFINE a == q * n + i  p == a \div n
<1>1. q * n \in Nat /\ a \in Nat
  OBVIOUS
<1>2. a % n \in 0..(n - 1) /\ p \in Nat /\ a = p * n + (a % n)
  BY <1>1
<1> HIDE DEF p
<1>3. p * n \in Nat
  BY <1>2
<1>4. CASE p < q
  <2>1. p * n + n <= q * n
    BY <1>2, <1>4, RoundStep
  <2> QED BY <1>1, <1>2, <1>3, <2>1
<1>5. CASE q < p
  <2>1. q * n + n <= p * n
    BY <1>2, <1>5, RoundStep
  <2> QED BY <1>1, <1>2, <1>3, <2>1
<1>6. CASE p = q
  BY <1>1, <1>2, <1>3, <1>6 DEF p
<1> QED BY <1>2, <1>4, <1>5, <1>6

\* A temporary of round q + 1 against the height rc of its slot.
LEMMA RoundHeight ==
    ASSUME NEW n \in Nat \ {0}, NEW full \in Nat, NEW top \in 0..(n - 1),
           NEW q \in Nat, NEW i \in 0..(n - 1), NEW rc \in Nat,
           rc = IF i < top THEN full + 1 ELSE full,
           q * n + i + 1 <= full * n + top
    PROVE  /\ q + 1 <= rc
           /\ q + 1 = rc <=> q * n + i + 1 + n > full * n + top
<1>1. q * n \in Nat /\ full * n \in Nat
  OBVIOUS
<1>2. CASE full < q
  <2>1. full * n + n <= q * n
    BY <1>2, RoundStep
  <2> QED BY <1>1, <2>1
<1>3. CASE q = full
  BY <1>1, <1>3
<1>4. CASE q + 1 = full
  <2>1. full * n = q * n + n
    BY <1>4
  <2> QED BY <1>1, <1>4, <2>1
<1>5. CASE q + 1 < full
  <2>1. (q + 1) * n + n <= full * n
    BY <1>5, RoundStep
  <2>2. (q + 1) * n = q * n + n
    OBVIOUS
  <2> QED BY <1>1, <1>5, <2>1, <2>2
<1> QED BY <1>2, <1>3, <1>4, <1>5

\* Where the k-th temporary lives, and when it is still in its register.
LEMMA Position ==
    ASSUME NEW full \in Nat, NEW top \in Slot,
           NEW k \in 1..(full * NrTemps + top)
    PROVE  /\ SlotOf(k) \in Slot
           /\ RoundOf(k) \in Nat \ {0}
           /\ k = (RoundOf(k) - 1) * NrTemps + SlotOf(k) + 1
           /\ RoundOf(k) <= Stair(full, top)[SlotOf(k)]
           /\ RoundOf(k) = Stair(full, top)[SlotOf(k)]
                  <=> k + NrTemps > full * NrTemps + top
<1> USE NrTempsAssumption
<1>1. k \in Nat /\ k >= 1 /\ full * NrTemps + top \in Nat /\ k <= full * NrTemps + top
  BY DEF Slot
<1>2. PICK i \in Slot, q \in Nat : i = (k - 1) % NrTemps /\ q = (k - 1) \div NrTemps
  BY <1>1 DEF Slot
<1>3. k = q * NrTemps + i + 1
  BY <1>1, <1>2
<1>4. Stair(full, top)[i] = IF i < top THEN full + 1 ELSE full
  BY DEF Stair
<1>5. /\ q + 1 <= Stair(full, top)[i]
      /\ q + 1 = Stair(full, top)[i] <=> k + NrTemps > full * NrTemps + top
  <2>1. Stair(full, top)[i] \in Nat
    BY <1>4
  <2>2. q * NrTemps + i + 1 <= full * NrTemps + top
    BY <1>1, <1>3
  <2> QED BY <1>3, <1>4, <2>1, <2>2, RoundHeight DEF Slot
<1>6. SlotOf(k) = i /\ RoundOf(k) = q + 1
  BY <1>2 DEF SlotOf, RoundOf
<1>7. (q + 1) - 1 = q /\ q + 1 \in Nat \ {0}
  OBVIOUS
<1> QED BY <1>3, <1>5, <1>6, <1>7

\* Two temporaries in the same slot and round are the same temporary.
LEMMA PositionInjective ==
    ASSUME NEW full \in Nat, NEW top \in Slot,
           NEW k \in 1..(full * NrTemps + top), NEW l \in 1..(full * NrTemps + top),
           SlotOf(k) = SlotOf(l), RoundOf(k) = RoundOf(l)
    PROVE  k = l
BY Position

\* The temporary that sits in the register of a slot.
LEMMA InRegister ==
    ASSUME NEW full \in Nat, NEW top \in Slot, NEW i \in Slot,
           Stair(full, top)[i] > 0
    PROVE  \E k \in 1..(full * NrTemps + top) :
              SlotOf(k) = i /\ RoundOf(k) = Stair(full, top)[i]
<1> USE NrTempsAssumption
<1>1. Stair(full, top)[i] = IF i < top THEN full + 1 ELSE full
  BY DEF Stair
<1>2. PICK q \in Nat : Stair(full, top)[i] = q + 1
  <2>1. Stair(full, top)[i] - 1 \in Nat
    BY <1>1
  <2> QED BY <1>1, <2>1
<1>3. i \in 0..(NrTemps - 1) /\ top \in 0..(NrTemps - 1)
  BY DEF Slot
<1>4. q * NrTemps \in Nat /\ full * NrTemps \in Nat
  OBVIOUS
<1>5. q * NrTemps + i + 1 <= full * NrTemps + top
  <2>1. CASE i < top
    BY <1>1, <1>2, <1>3, <1>4, <2>1
  <2>2. CASE ~(i < top)
    <3>1. full = q + 1
      BY <1>1, <1>2, <2>2
    <3>2. full * NrTemps = q * NrTemps + NrTemps
      BY <3>1
    <3> QED BY <1>3, <1>4, <3>2
  <2> QED BY <2>1, <2>2
<1>6. (q * NrTemps + i + 1) - 1 = q * NrTemps + i
  BY <1>3, <1>4
<1>7. SlotOf(q * NrTemps + i + 1) = i /\ RoundOf(q * NrTemps + i + 1) = q + 1
  BY <1>3, <1>6, DivModUnique DEF SlotOf, RoundOf
<1>8. q * NrTemps + i + 1 \in 1..(full * NrTemps + top)
  BY <1>3, <1>4, <1>5
<1> QED BY <1>2, <1>7, <1>8

\* A temporary's value, read off the registers or the words below sp.
LEMMA HeldValue ==
    ASSUME NEW full \in Nat, NEW top \in Slot, TypeOK,
           refcount = Stair(full, top), full * NrTemps + top <= MaxDepth,
           NEW k \in 1..(full * NrTemps + top)
    PROVE  TempValue(k) \in Value
<1>1. /\ SlotOf(k) \in Slot
      /\ RoundOf(k) \in Nat \ {0}
      /\ RoundOf(k) <= refcount[SlotOf(k)]
  BY Position
<1>2. CASE RoundOf(k) = refcount[SlotOf(k)]
  BY <1>1, <1>2 DEF TempValue, TypeOK, SlotOf, RoundOf
<1>3. CASE RoundOf(k) # refcount[SlotOf(k)]
  <2>1. refcount[SlotOf(k)] \in Nat /\ refcount[SlotOf(k)] <= full + 1
    BY <1>1 DEF Stair
  <2>2. RoundOf(k) <= MaxDepth
    BY <1>1, <1>3, <2>1, RoundBound, MaxDepthAssumption
  <2>3. StackWord(SlotOf(k), RoundOf(k)) \in Word
    BY <1>1, <2>2, StackWordType
  <2> QED BY <1>3, <2>3 DEF TempValue, TypeOK, SlotOf, RoundOf
<1> QED BY <1>2, <1>3

HeldOK ==
    /\ TempsAccessed(refcount) \in Nat
    /\ Held \in Seq(Value)
    /\ Len(Held) = TempsAccessed(refcount)

LEMMA HeldType == IInv => HeldOK
<1> SUFFICES ASSUME IInv PROVE HeldOK
  OBVIOUS
<1>1. PICK full \in Nat, top \in Slot : refcount = Stair(full, top)
  BY DEF IInv, IsStair
<1>2. TempsAccessed(refcount) = full * NrTemps + top
  BY <1>1, StairSlots
<1>3. full * NrTemps + top \in Nat
  BY NrTempsAssumption DEF Slot
<1>4. \A k \in 1..TempsAccessed(refcount) : TempValue(k) \in Value
  BY <1>1, <1>2, HeldValue DEF IInv
<1> QED BY <1>2, <1>3, <1>4 DEF Held, HeldOK

\* A sequence that grows by one element and keeps the others.
LEMMA IsAppend ==
    ASSUME NEW V, NEW s \in Seq(V), NEW t \in Seq(V),
           Len(t) = Len(s) + 1, \A k \in 1..Len(s) : t[k] = s[k]
    PROVE  t[Len(t)] \in V /\ t = Append(s, t[Len(t)])
OBVIOUS

\* A sequence that loses its last element and keeps the others.
LEMMA IsFront ==
    ASSUME NEW V, NEW s \in Seq(V), NEW t \in Seq(V), Len(s) > 0,
           Len(t) = Len(s) - 1, \A k \in 1..Len(t) : t[k] = s[k]
    PROVE  s # <<>> /\ t = SubSeq(s, 1, Len(s) - 1)
OBVIOUS

\* acquire_temp adds one temporary and changes the value of no other: the
\* one whose register it takes is found in the word it was spilled to.
LEMMA AcquireKeeps ==
    ASSUME IInv, AcquireTemp, NEW k \in 1..TempsAccessed(refcount)
    PROVE  TempValue(k)' = TempValue(k)
<1>1. PICK full \in Nat, top \in Slot : refcount = Stair(full, top)
  BY DEF IInv, IsStair
<1>2. /\ refcount' = [refcount EXCEPT ![top] = full + 1]
      /\ spilled' = IF full > 0
                    THEN [spilled EXCEPT ![StackWord(top, full)] = regs[top]]
                    ELSE spilled
      /\ regs' = regs
      /\ TempsAccessed(refcount) = full * NrTemps + top
  BY <1>1, AcquireOnStair DEF AcquireTemp
<1> DEFINE i == SlotOf(k)  r == RoundOf(k)
<1>3. i \in Slot /\ r \in Nat \ {0} /\ r <= refcount[i]
  BY <1>1, <1>2, Position
<1>4. full \in Nat /\ refcount[top] = full /\ refcount \in [Slot -> Nat]
  BY <1>1 DEF Stair, Slot
<1>5. full > 0 => StackWord(top, full) \in Word
  BY <1>1, <1>2, StackWordType, RoundBound, MaxDepthAssumption DEF IInv
<1>6. TempValue(k) = IF r = refcount[i] THEN regs[i] ELSE spilled[StackWord(i, r)]
  BY DEF TempValue, SlotOf, RoundOf
<1>7. TempValue(k)' = IF r = refcount'[i] THEN regs'[i] ELSE spilled'[StackWord(i, r)]
  BY DEF TempValue, SlotOf, RoundOf, StackWord
<1> HIDE DEF i, r
<1>8. CASE i # top
  <2>1. refcount'[i] = refcount[i]
    BY <1>2, <1>3, <1>4, <1>8
  <2>2. full > 0 => StackWord(i, r) # StackWord(top, full)
    BY <1>3, <1>8, StackWordInjective
  <2>3. spilled'[StackWord(i, r)] = spilled[StackWord(i, r)]
    BY <1>2, <2>2 DEF IInv, TypeOK
  <2> QED BY <1>2, <1>6, <1>7, <2>1, <2>3
<1>9. CASE i = top
  <2>1. refcount'[i] = full + 1 /\ r <= full /\ full > 0
    BY <1>2, <1>3, <1>4, <1>9
  <2>2. TempValue(k)' = spilled'[StackWord(top, r)]
    BY <1>3, <1>7, <1>9, <2>1
  <2>3. CASE r = full
    <3>1. spilled'[StackWord(top, full)] = regs[top]
      BY <1>2, <1>5, <2>1 DEF IInv, TypeOK
    <3> QED BY <1>4, <1>6, <1>9, <2>2, <2>3, <3>1
  <2>4. CASE r # full
    <3>1. StackWord(top, r) # StackWord(top, full)
      BY <1>3, <2>1, <2>4, StackWordInjective
    <3>2. spilled'[StackWord(top, r)] = spilled[StackWord(top, r)]
      BY <1>2, <3>1 DEF IInv, TypeOK
    <3> QED BY <1>4, <1>6, <1>9, <2>2, <2>4, <3>2
  <2> QED BY <2>3, <2>4
<1> QED BY <1>8, <1>9

LEMMA AcquireRefines == IInv /\ AcquireTemp => Virtual!Acquire
<1> SUFFICES ASSUME IInv, AcquireTemp PROVE Virtual!Acquire
  OBVIOUS
<1>1. IInv'
  BY AcquireIInv
<1>2. /\ Held \in Seq(Value) /\ Len(Held) = TempsAccessed(refcount)
      /\ TempsAccessed(refcount) \in Nat
  BY HeldType DEF HeldOK
<1>3. Held' \in Seq(Value) /\ Len(Held') = TempsAccessed(refcount)'
  <2>1. HeldOK'
    BY <1>1, HeldType, PTL
  <2> QED BY <2>1 DEF HeldOK
<1>4. TempsAccessed(refcount)' = TempsAccessed(refcount) + 1
  <2>1. PICK full \in Nat, top \in Slot : refcount = Stair(full, top)
    BY DEF IInv, IsStair
  <2> QED BY <2>1, AcquireOnStair
<1>5. \A k \in 1..Len(Held) : Held'[k] = Held[k]
  <2> SUFFICES ASSUME NEW k \in 1..Len(Held) PROVE Held'[k] = Held[k]
    OBVIOUS
  <2>1. TempValue(k)' = TempValue(k)
    BY <1>2, AcquireKeeps
  <2>2. k \in 1..TempsAccessed(refcount)'
    BY <1>2, <1>4
  <2> QED BY <1>2, <2>1, <2>2 DEF Held
<1>6. \E v \in Value : Held' = Append(Held, v)
  BY <1>2, <1>3, <1>4, <1>5, IsAppend
<1> QED BY <1>6 DEF Virtual!Acquire, Held

\* release_temp takes away the newest temporary and changes no other: the
\* one that gets its register back has its value loaded from its own word.
LEMMA ReleaseKeeps ==
    ASSUME IInv, ReleaseTemp, NEW k \in 1..(TempsAccessed(refcount) - 1)
    PROVE  TempValue(k)' = TempValue(k)
<1>1. PICK full \in Nat, top \in Slot : refcount = Stair(full, top)
  BY DEF IInv, IsStair
<1> DEFINE t  == IF top = 0 THEN NrTemps - 1 ELSE top - 1
           rc == IF top = 0 THEN full - 1 ELSE full
<1>2. /\ t \in Slot /\ rc \in Nat /\ refcount[t] = rc + 1
      /\ refcount' = [refcount EXCEPT ![t] = rc]
      /\ refcount' = Stair(rc, t)
      /\ regs' = IF rc > 0 THEN [regs EXCEPT ![t] = spilled[StackWord(t, rc)]]
                 ELSE regs
      /\ TempsAccessed(refcount) = full * NrTemps + top
      /\ TempsAccessed(refcount') = full * NrTemps + top - 1
  BY <1>1, ReleaseOnStair
<1>3. spilled' = spilled
  BY DEF ReleaseTemp
<1> HIDE DEF t, rc
<1> DEFINE i == SlotOf(k)  r == RoundOf(k)
<1>4. i \in Slot /\ r \in Nat \ {0} /\ r <= refcount'[i]
  <2>1. TempsAccessed(refcount') = rc * NrTemps + t
    BY <1>2, StairSlots
  <2>2. k \in 1..(rc * NrTemps + t)
    BY <1>2, <2>1, NrTempsAssumption DEF Slot
  <2> QED BY <1>2, <2>2, Position
<1>5. TempValue(k) = IF r = refcount[i] THEN regs[i] ELSE spilled[StackWord(i, r)]
  BY DEF TempValue, SlotOf, RoundOf
<1>6. TempValue(k)' = IF r = refcount'[i] THEN regs'[i] ELSE spilled'[StackWord(i, r)]
  BY DEF TempValue, SlotOf, RoundOf, StackWord
<1>7. refcount \in [Slot -> Nat] /\ regs \in [Slot -> Value]
  BY DEF IInv, TypeOK
<1> HIDE DEF i, r
<1>8. CASE i # t
  <2>1. refcount'[i] = refcount[i] /\ regs'[i] = regs[i]
    BY <1>2, <1>4, <1>7, <1>8
  <2> QED BY <1>3, <1>5, <1>6, <2>1
<1>9. CASE i = t
  <2>1. refcount'[t] = rc /\ r <= rc /\ rc > 0 /\ r # refcount[t]
    BY <1>2, <1>4, <1>7, <1>9
  <2>2. regs'[t] = spilled[StackWord(t, rc)]
    BY <1>2, <1>7, <2>1
  <2> QED BY <1>3, <1>5, <1>6, <1>9, <2>1, <2>2
<1> QED BY <1>8, <1>9

LEMMA ReleaseRefines == IInv /\ ReleaseTemp => Virtual!Release
<1> SUFFICES ASSUME IInv, ReleaseTemp PROVE Virtual!Release
  OBVIOUS
<1>1. IInv'
  BY ReleaseIInv
<1>2. /\ Held \in Seq(Value) /\ Len(Held) = TempsAccessed(refcount)
      /\ TempsAccessed(refcount) \in Nat
  BY HeldType DEF HeldOK
<1>3. /\ Held' \in Seq(Value) /\ Len(Held') = TempsAccessed(refcount)'
      /\ TempsAccessed(refcount)' \in Nat
  <2>1. HeldOK'
    BY <1>1, HeldType, PTL
  <2> QED BY <2>1 DEF HeldOK
<1>4. TempsAccessed(refcount)' = TempsAccessed(refcount) - 1
  <2>1. PICK full \in Nat, top \in Slot : refcount = Stair(full, top)
    BY DEF IInv, IsStair
  <2>2. /\ TempsAccessed(refcount) = full * NrTemps + top
        /\ TempsAccessed(refcount') = full * NrTemps + top - 1
    BY <2>1, ReleaseOnStair
  <2> QED BY <2>2, NrTempsAssumption DEF Slot
<1>5. \A k \in 1..Len(Held') : Held'[k] = Held[k]
  <2> SUFFICES ASSUME NEW k \in 1..Len(Held') PROVE Held'[k] = Held[k]
    OBVIOUS
  <2>1. k \in 1..(TempsAccessed(refcount) - 1) /\ k \in 1..TempsAccessed(refcount)
    BY <1>2, <1>3, <1>4
  <2>2. TempValue(k)' = TempValue(k)
    BY <2>1, ReleaseKeeps
  <2> QED BY <1>2, <1>3, <2>1, <2>2 DEF Held
<1>6. Held # <<>> /\ Held' = SubSeq(Held, 1, Len(Held) - 1)
  BY <1>2, <1>3, <1>4, <1>5, IsFront
<1> QED BY <1>6 DEF Virtual!Release, Held

\* A write to a register reaches exactly the temporary that is in it.
LEMMA WriteRefines == IInv /\ WriteTemp => Virtual!Write
<1> SUFFICES ASSUME IInv, WriteTemp PROVE Virtual!Write
  OBVIOUS
<1>1. PICK full \in Nat, top \in Slot : refcount = Stair(full, top)
  BY DEF IInv, IsStair
<1>2. PICK i \in Slot, v \in Value :
        /\ refcount[i] > 0
        /\ regs' = [regs EXCEPT ![i] = v]
        /\ refcount' = refcount /\ spilled' = spilled
  BY DEF WriteTemp
<1>3. TempsAccessed(refcount) = full * NrTemps + top
  BY <1>1, StairSlots
<1>4. PICK k \in 1..TempsAccessed(refcount) :
        SlotOf(k) = i /\ RoundOf(k) = refcount[i]
  BY <1>1, <1>2, <1>3, InRegister
<1>5. k + NrTemps > TempsAccessed(refcount)
  BY <1>1, <1>3, <1>4, Position
<1>6. regs \in [Slot -> Value]
  BY DEF IInv, TypeOK
<1>7. TempValue(k)' = v
  BY <1>2, <1>4, <1>6 DEF TempValue, SlotOf, RoundOf
<1>8. ASSUME NEW l \in 1..TempsAccessed(refcount), l # k
      PROVE  TempValue(l)' = TempValue(l)
  <2>1. ~(SlotOf(l) = i /\ RoundOf(l) = refcount[i])
    BY <1>1, <1>3, <1>4, <1>8, PositionInjective
  <2> QED BY <1>2, <1>6, <2>1 DEF TempValue, SlotOf, RoundOf, StackWord
<1>9. TempsAccessed(refcount)' = TempsAccessed(refcount)
  BY <1>2 DEF TempsAccessed, ReleaseSlot, Drops
<1>10. Held' = [Held EXCEPT ![k] = v]
  BY <1>4, <1>7, <1>8, <1>9 DEF Held
<1>11. Len(Held) = TempsAccessed(refcount) /\ TempsAccessed(refcount) \in Nat
  BY HeldType DEF HeldOK
<1>12. k \in 1..Len(Held) /\ k + NrTemps > Len(Held)
  BY <1>4, <1>5, <1>11
<1> QED BY <1>10, <1>12 DEF Virtual!Write, Virtual!Usable, Held

LEMMA StutterRefines ==
    ASSUME UNCHANGED <<refcount, regs, spilled>>
    PROVE  UNCHANGED Held
BY DEF Held, TempValue, TempsAccessed, ReleaseSlot, Drops, StackWord

\* The allocator implements the stack of virtual temporaries.
THEOREM Refinement == Spec => RefinesVirtualTemps
<1>1. Init => Virtual!Init
  <2> SUFFICES ASSUME Init PROVE Held = <<>>
    BY DEF Virtual!Init, Held
  <2>1. refcount = Stair(0, 0) /\ 0 \in Slot
    BY NrTempsAssumption DEF Init, Stair, Slot
  <2>2. TempsAccessed(refcount) = 0
    BY <2>1, StairSlots, NrTempsAssumption
  <2> QED BY <2>2 DEF Held
<1>2. IInv /\ [Next]_vars => [Virtual!Next]_Held
  <2> SUFFICES ASSUME IInv, [Next]_vars PROVE [Virtual!Next]_Held
    OBVIOUS
  <2>1. CASE AcquireTemp
    BY <2>1, AcquireRefines DEF Virtual!Next
  <2>2. CASE ReleaseTemp
    BY <2>2, ReleaseRefines DEF Virtual!Next
  <2>3. CASE WriteTemp
    BY <2>3, WriteRefines DEF Virtual!Next
  <2>4. CASE AcquireAborts \/ SetSpill \/ BeginJFunc \/ UNCHANGED vars
    <3>1. UNCHANGED <<refcount, regs, spilled>>
      BY <2>4 DEF AcquireAborts, SetSpill, BeginJFunc, vars
    <3> QED BY <3>1, StutterRefines
  <2> QED BY <2>1, <2>2, <2>3, <2>4 DEF Next
<1>3. Spec => Init /\ [][Virtual!Next]_Held
  BY <1>2, AlwaysIInv, PTL DEF Spec
<1> QED BY <1>1, <1>3, PTL DEF RefinesVirtualTemps, Virtual!Spec, Held
=============================================================================
