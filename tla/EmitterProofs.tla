--------------------------- MODULE EmitterProofs ----------------------------
(***************************************************************************)
(* Theorems about the emitter, for every number of labels, VM lines and    *)
(* instructions and every range of the branch operand; and about the       *)
(* arguments of the calls that are emitted (StaticCall), for every number  *)
(* of argument registers and of arguments.                                 *)
(***************************************************************************)
EXTENDS Emitter, StaticCall, SequenceTheorems, FiniteSetTheorems, FunctionTheorems, WellFoundedInduction, TLAPS

Word == [branch : BOOLEAN, field : Field]

\* Places of labels are in order and within the code; so are the starts of VM
\* lines; and what waits to be linked is a branch, encoded and not yet linked.
IInv ==
    /\ mcode \in Seq(Word)
    /\ jt \in [VmLine -> Nat]
    /\ pc \in Nat
    /\ lines \in 0..VmLines
    /\ local \in [Label -> Seq(Nat)]
    /\ head \subseteq Branch
    /\ LabelsSorted
    /\ HeadIsBranches
    /\ JumpTableOrdered

USE VmLinesAssumption, OffsetRangeAssumption, MaxCodeAssumption

LEMMA FieldZero == 0 \in Field
BY DEF Field

\* ENCODE_OP adds one word at the end.
LEMMA Appended ==
    ASSUME mcode \in Seq(Word), NEW w \in Word, mcode' = Append(mcode, w)
    PROVE  /\ mcode' \in Seq(Word)
           /\ ec \in Nat /\ ec' = ec + 1
           /\ \A e \in 1..ec : mcode'[e] = mcode[e]
           /\ mcode'[ec + 1] = w
<1> HIDE DEF Word
<1> QED BY AppendProperties, LenProperties DEF ec

\* After another word, whatever was within the code still is.
LEMMA OrderKept ==
    ASSUME IInv, ec \in Nat, ec' = ec + 1, UNCHANGED <<jt, pc, lines, local>>
    PROVE  LabelsSorted' /\ JumpTableOrdered'
<1>1. ASSUME NEW l \in Label, NEW e \in 1..Len(local[l]), NEW j \in 1..Len(local[l]), e <= j
      PROVE  local[l][e] <= local[l][j] /\ local[l][j] <= ec + 1
  <2>1. local[l][e] <= local[l][j] /\ local[l][j] <= ec
    BY <1>1 DEF IInv, LabelsSorted
  <2>2. local[l][j] \in Nat
    BY ElementOfSeq DEF IInv
  <2> QED BY <2>1, <2>2
<1>2. ASSUME NEW u \in 0..(lines - 1), NEW v \in 0..(lines - 1), u <= v
      PROVE  jt[u] <= jt[v] /\ jt[v] <= ec + 1
  <2>1. jt[u] <= jt[v] /\ jt[v] <= ec
    BY <1>2 DEF IInv, JumpTableOrdered
  <2>2. v \in VmLine /\ jt[v] \in Nat
    BY DEF IInv, VmLine
  <2> QED BY <2>1, <2>2
<1> QED BY <1>1, <1>2 DEF LabelsSorted, JumpTableOrdered

LEMMA EmitOpStep ==
    ASSUME IInv, EmitOp
    PROVE  IInv'
<1> DEFINE w == [branch |-> FALSE, field |-> 0]
<1>1. w \in Word /\ mcode' = Append(mcode, w) /\ UNCHANGED <<jt, pc, lines, local, head>>
  BY FieldZero DEF EmitOp, Encode, Word
<1>2. /\ mcode' \in Seq(Word) /\ ec \in Nat /\ ec' = ec + 1
      /\ \A e \in 1..ec : mcode'[e] = mcode[e]
  <2> HIDE DEF w
  <2> QED BY <1>1, Appended DEF IInv
<1>3. HeadIsBranches'
  <2>1. ASSUME NEW b \in head
        PROVE  b.mline < ec' /\ mcode'[b.mline + 1].branch
    <3>1. b.mline \in Nat /\ b.mline < ec /\ mcode[b.mline + 1].branch
      BY DEF IInv, HeadIsBranches, Branch
    <3> QED BY <1>2, <3>1
  <2> QED BY <1>1, <2>1 DEF IInv, HeadIsBranches
<1> QED BY <1>1, <1>2, <1>3, OrderKept DEF IInv

LEMMA EmitBranchStep ==
    ASSUME IInv, NEW b \in Branch, b.mline = ec, EmitBranch(b)
    PROVE  IInv'
<1> DEFINE w == [branch |-> TRUE, field |-> 0]
<1>1. /\ w \in Word /\ mcode' = Append(mcode, w) /\ UNCHANGED <<jt, pc, lines, local>>
      /\ head' = head \cup {b}
  BY FieldZero DEF EmitBranch, Encode, Word
<1>2. /\ mcode' \in Seq(Word) /\ ec \in Nat /\ ec' = ec + 1
      /\ \A e \in 1..ec : mcode'[e] = mcode[e]
      /\ mcode'[ec + 1] = w
  <2> HIDE DEF w
  <2> QED BY <1>1, Appended DEF IInv
<1>3. \A c \in head : /\ c.mline \in Nat /\ c.mline < ec
                      /\ mcode[c.mline + 1].branch
  BY DEF IInv, HeadIsBranches, Branch
<1>4. HeadIsBranches'
  <2>1. ASSUME NEW c \in head'
        PROVE  c.mline < ec' /\ mcode'[c.mline + 1].branch
    <3>1. CASE c \in head
      BY <1>2, <1>3, <3>1
    <3>2. CASE c = b
      BY <1>2, <3>2
    <3> QED BY <1>1, <3>1, <3>2
  <2>2. ASSUME NEW c \in head', NEW d \in head', c.mline = d.mline
        PROVE  c = d
    <3>1. CASE c \in head /\ d \in head
      BY <2>2, <3>1 DEF IInv, HeadIsBranches
    <3>2. CASE c = b \/ d = b
      BY <1>1, <1>2, <1>3, <2>2, <3>2
    <3> QED BY <1>1, <3>1, <3>2
  <2> QED BY <2>1, <2>2 DEF HeadIsBranches
<1> QED BY <1>1, <1>2, <1>4, OrderKept DEF IInv

LEMMA LabelPcStep ==
    ASSUME IInv, LabelPc
    PROVE  IInv'
<1>1. /\ jt' = [jt EXCEPT ![lines] = ec] /\ lines' = lines + 1
      /\ pc' = IF lines > pc THEN lines ELSE pc
      /\ lines \in VmLine
      /\ UNCHANGED <<mcode, local, head>>
  BY DEF LabelPc, JumpEntry, LargestPc, IInv, VmLine
<1>2. ec \in Nat /\ ec' = ec
  BY <1>1, LenProperties DEF ec, IInv
<1>3. jt' \in [VmLine -> Nat] /\ pc' \in Nat /\ lines' \in 0..VmLines
  BY <1>1, <1>2 DEF IInv, VmLine
<1>4. LabelsSorted' /\ HeadIsBranches'
  BY <1>1, <1>2 DEF IInv, LabelsSorted, HeadIsBranches
<1>5. JumpTableOrdered'
  <2> SUFFICES ASSUME NEW u \in 0..lines, NEW v \in 0..lines, u <= v
               PROVE  jt'[u] <= jt'[v] /\ jt'[v] <= ec
    BY <1>1, <1>2 DEF JumpTableOrdered, IInv
  <2>1. u \in VmLine /\ v \in VmLine /\ jt[u] \in Nat
    BY <1>1 DEF VmLine, IInv
  <2>2. CASE v = lines
    <3>1. jt'[v] = ec
      BY <1>1, <2>2 DEF IInv
    <3>2. u # lines => jt[u] <= ec
      BY <2>2 DEF IInv, JumpTableOrdered
    <3> QED BY <1>1, <1>2, <2>1, <3>1, <3>2 DEF IInv
  <2>3. CASE v # lines
    <3>1. u \in 0..(lines - 1) /\ v \in 0..(lines - 1)
      BY <2>3 DEF IInv
    <3> QED BY <1>1, <2>1, <2>3, <3>1 DEF IInv, JumpTableOrdered
  <2> QED BY <2>2, <2>3
<1> QED BY <1>1, <1>3, <1>4, <1>5 DEF IInv

LEMMA LabelLocalStep ==
    ASSUME IInv, LabelLocal
    PROVE  IInv'
<1>1. PICK l \in Label : local' = [local EXCEPT ![l] = Append(local[l], ec)]
  BY DEF LabelLocal, Insert
<1>2. UNCHANGED <<mcode, jt, pc, lines, head>>
  BY DEF LabelLocal
<1>3. ec \in Nat /\ ec' = ec
  BY <1>2, LenProperties DEF ec, IInv
<1>4. /\ local[l] \in Seq(Nat) /\ Append(local[l], ec) \in Seq(Nat)
      /\ Len(local[l]) \in Nat /\ Len(Append(local[l], ec)) = Len(local[l]) + 1
      /\ \A e \in 1..Len(local[l]) : Append(local[l], ec)[e] = local[l][e]
      /\ Append(local[l], ec)[Len(local[l]) + 1] = ec
  BY <1>3, AppendProperties, LenProperties DEF IInv
<1>5. LabelsSorted'
  <2> SUFFICES ASSUME NEW m \in Label, NEW e \in 1..Len(local'[m]),
                      NEW j \in 1..Len(local'[m]), e <= j
               PROVE  local'[m][e] <= local'[m][j] /\ local'[m][j] <= ec
    BY <1>3 DEF LabelsSorted
  <2>1. CASE m # l
    BY <1>1, <2>1 DEF IInv, LabelsSorted
  <2>2. CASE m = l
    <3>1. local'[m] = Append(local[l], ec)
      BY <1>1, <2>2 DEF IInv
    <3>2. \A k \in 1..Len(local[l]) : local[l][k] \in Nat /\ local[l][k] <= ec
      BY <1>4, ElementOfSeq DEF IInv, LabelsSorted
    <3>3. CASE j = Len(local[l]) + 1
      <4>1. local'[m][j] = ec /\ ec <= ec
        BY <1>3, <1>4, <3>1, <3>3
      <4>2. e \in 1..Len(local[l]) \/ e = Len(local[l]) + 1
        BY <1>4, <3>1
      <4>3. local'[m][e] <= ec
        <5>1. CASE e \in 1..Len(local[l])
          BY <1>4, <3>1, <3>2, <5>1
        <5>2. CASE e = Len(local[l]) + 1
          BY <1>3, <1>4, <3>1, <5>2
        <5> QED BY ONLY <4>2, <5>1, <5>2
      <4> QED BY ONLY <4>1, <4>3
    <3>4. CASE j # Len(local[l]) + 1
      <4>1. e \in 1..Len(local[l]) /\ j \in 1..Len(local[l])
        BY <1>4, <3>1, <3>4
      <4>2. local[l][e] <= local[l][j] /\ local[l][j] <= ec
        BY <4>1 DEF IInv, LabelsSorted
      <4> QED BY <1>4, <3>1, <4>1, <4>2
    <3> QED BY <3>3, <3>4
  <2> QED BY <2>1, <2>2
<1>6. local' \in [Label -> Seq(Nat)]
  BY <1>1, <1>4 DEF IInv
<1> QED BY <1>2, <1>3, <1>5, <1>6 DEF IInv, HeadIsBranches, JumpTableOrdered

-----------------------------------------------------------------------------
(* What find_local_label finds. *)

LEMMA LeastElement ==
    ASSUME NEW S \in SUBSET Nat, S # {}
    PROVE  \E x \in S : \A y \in S : x <= y
<1> DEFINE R == {ss \in Nat \X Nat : ss[1] < ss[2]}
<1>1. IsWellFoundedOn(R, Nat)
  BY NatLessThanWellFounded DEF OpToRel
<1>2. PICK x \in S : \A y \in S : <<y, x>> \notin R
  <2> HIDE DEF R
  <2> QED BY <1>1, WFMin
<1>3. \A y \in S : ~(y < x)
  BY <1>2
<1> QED BY <1>3

LEMMA GreatestElement ==
    ASSUME NEW n \in Nat, NEW S \in SUBSET (0..n), S # {}
    PROVE  \E x \in S : \A y \in S : y <= x
<1> DEFINE T == {n - x : x \in S}
<1>0. \A x \in S : x \in 0..n /\ n - x \in Nat
  OBVIOUS
<1>1. T \in SUBSET Nat /\ T # {}
  BY <1>0
<1>2. PICK t \in T : \A u \in T : t <= u
  BY <1>1, LeastElement
<1>3. PICK x \in S : t = n - x
  OBVIOUS
<1>4. \A y \in S : n - y \in T
  OBVIOUS
<1>5. ASSUME NEW y \in S
      PROVE  y <= x
  <2>1. n - x <= n - y
    BY <1>2, <1>3, <1>4
  <2> QED BY <1>0, <2>1
<1> QED BY <1>5

\* The places that the scan may stop at, and the one it stops at: the first
\* place after a branch to the next label, the last place before a branch to the
\* previous one.
LEMMA FoundLabel ==
    ASSUME IInv, NEW b \in Branch, b.islocal, Matches(b) # {}
    PROVE  \E e \in Matches(b) :
              /\ e \in 1..Len(local[b.local])
              /\ FindLocalLabel(b) = local[b.local][e]
              /\ FindLocalLabel(b) \in Nat
              /\ FindLocalLabel(b) <= ec
              /\ \A j \in Matches(b) : IF b.isnext THEN e <= j ELSE j <= e
<1> DEFINE places == local[b.local]
<1>1. b.local \in Label /\ places \in Seq(Nat)
  BY DEF Branch, IInv
<1>2. Len(places) \in Nat
  BY <1>1, LenProperties
<1>3. Matches(b) \in SUBSET Nat /\ Matches(b) \in SUBSET (0..Len(places))
  BY <1>2 DEF Matches
<1>4. PICK e \in Matches(b) :
         /\ \A j \in Matches(b) : IF b.isnext THEN e <= j ELSE j <= e
         /\ FindLocalLabel(b) = places[e]
  <2>1. CASE b.isnext
    <3>1. \E x \in Matches(b) : \A y \in Matches(b) : x <= y
      BY <1>3, LeastElement
    <3> QED BY <2>1, <3>1 DEF FindLocalLabel
  <2>2. CASE ~b.isnext
    <3>1. \E x \in Matches(b) : \A y \in Matches(b) : y <= x
      BY <1>2, <1>3, GreatestElement
    <3> QED BY <2>2, <3>1 DEF FindLocalLabel
  <2> QED BY <2>1, <2>2
<1>5. e \in 1..Len(places)
  BY DEF Matches
<1>6. places[e] \in Nat /\ places[e] <= ec
  BY <1>1, <1>2, <1>5, ElementOfSeq DEF IInv, LabelsSorted
<1> QED BY <1>4, <1>5, <1>6

LEMMA TargetIsLine ==
    ASSUME IInv, NEW b \in head, ~Unfound(b)
    PROVE  Target(b) \in Nat
<1>1. b \in Branch /\ jt \in [VmLine -> Nat]
  BY DEF IInv
<1>2. CASE b.islocal
  BY <1>1, <1>2, FoundLabel DEF Unfound, Target
<1>3. CASE ~b.islocal
  BY <1>1, <1>3 DEF Target, Branch
<1> QED BY <1>2, <1>3

-----------------------------------------------------------------------------
(* Linking. *)

LEMMA OffsetInField ==
    ASSUME NEW t \in Int, NEW m \in Int
    PROVE  OffsetField(t, m) \in Field
BY DEF OffsetField, Field

LEMMA LinkWords ==
    ASSUME IInv, Link
    PROVE  /\ mcode' \in Seq(Word)
           /\ ec \in Nat /\ ec' = ec
           /\ \A e \in 1..ec : /\ mcode'[e].branch = mcode[e].branch
                               /\ (~\E b \in head : b.mline = e - 1) => mcode'[e] = mcode[e]
           /\ \A b \in head : mcode'[b.mline + 1].field = OffsetField(Target(b), b.mline)
<1>1. ec \in Nat /\ mcode \in [1..ec -> Word]
  <2> HIDE DEF Word
  <2> QED BY LenProperties DEF IInv, ec
<1> DEFINE Linked(e) == IF \E b \in head : b.mline = e - 1
                        THEN LET b == CHOOSE b \in head : b.mline = e - 1
                             IN  [mcode[e] EXCEPT !.field = OffsetField(Target(b), b.mline)]
                        ELSE mcode[e]
<1>2. mcode' = [e \in 1..ec |-> Linked(e)]
  BY DEF Link, ec
<1>3. ASSUME NEW b \in head
      PROVE  /\ b.mline + 1 \in 1..ec
             /\ Linked(b.mline + 1) =
                   [mcode[b.mline + 1] EXCEPT !.field = OffsetField(Target(b), b.mline)]
             /\ OffsetField(Target(b), b.mline) \in Field
  <2>1. b.mline \in Nat /\ b.mline < ec
    BY DEF IInv, HeadIsBranches, Branch
  <2>2. (b.mline + 1) - 1 = b.mline
    BY <2>1
  <2>3. (CHOOSE c \in head : c.mline = b.mline) = b
    BY DEF IInv, HeadIsBranches
  <2>4. Target(b) \in Nat
    BY TargetIsLine DEF Link
  <2>5. OffsetField(Target(b), b.mline) \in Field
    BY <2>1, <2>4, OffsetInField
  <2>6. \E c \in head : c.mline = (b.mline + 1) - 1
    BY <2>2
  <2>7. Linked(b.mline + 1) =
           [mcode[b.mline + 1] EXCEPT !.field = OffsetField(Target(b), b.mline)]
    BY <2>2, <2>3, <2>6
  <2>8. b.mline + 1 \in 1..ec
    BY <1>1, <2>1
  <2> QED BY <2>5, <2>7, <2>8
<1>4. ASSUME NEW e \in 1..ec
      PROVE  /\ Linked(e) \in Word
             /\ Linked(e).branch = mcode[e].branch
             /\ (~\E b \in head : b.mline = e - 1) => Linked(e) = mcode[e]
  <2>1. mcode[e] \in Word
    BY <1>1
  <2>2. CASE \E b \in head : b.mline = e - 1
    <3>1. PICK b \in head : b.mline = e - 1
      BY <2>2
    <3>2. b.mline + 1 = e
      BY <3>1
    <3>3. /\ Linked(e) = [mcode[e] EXCEPT !.field = OffsetField(Target(b), b.mline)]
          /\ OffsetField(Target(b), b.mline) \in Field
      BY <1>3, <3>2
    <3> HIDE DEF Linked
    <3> QED BY <2>1, <2>2, <3>3 DEF Word
  <2>3. CASE ~\E b \in head : b.mline = e - 1
    BY <2>1, <2>3
  <2> QED BY <2>2, <2>3
<1>5. mcode' \in Seq(Word) /\ ec' = ec
  <2>1. mcode' \in [1..ec -> Word]
    BY <1>2, <1>4
  <2> QED BY <1>1, <2>1 DEF ec
<1>6. \A b \in head : mcode'[b.mline + 1].field = OffsetField(Target(b), b.mline)
  <2>1. ASSUME NEW b \in head
        PROVE  mcode'[b.mline + 1].field = OffsetField(Target(b), b.mline)
    <3>1. mcode[b.mline + 1] \in Word
      BY <1>1, <1>3
    <3>2. mcode'[b.mline + 1] =
             [mcode[b.mline + 1] EXCEPT !.field = OffsetField(Target(b), b.mline)]
      BY <1>2, <1>3
    <3> QED BY <3>1, <3>2 DEF Word
  <2> QED BY <2>1
<1> HIDE DEF Linked
<1> QED BY <1>1, <1>2, <1>4, <1>5, <1>6

LEMMA LinkStep ==
    ASSUME IInv, Link
    PROVE  IInv'
<1>1. head' = {} /\ UNCHANGED <<jt, pc, lines, local>>
  BY DEF Link
<1>2. mcode' \in Seq(Word) /\ ec' = ec
  BY LinkWords
<1> QED BY <1>1, <1>2 DEF IInv, LabelsSorted, HeadIsBranches, JumpTableOrdered

LEMMA InitIInv == Init => IInv
<1> SUFFICES ASSUME Init PROVE IInv
  OBVIOUS
<1>1. LabelsSorted /\ HeadIsBranches /\ JumpTableOrdered
  BY DEF Init, LabelsSorted, HeadIsBranches, JumpTableOrdered
<1> QED BY <1>1 DEF Init, IInv

LEMMA NextIInv == IInv /\ [Next]_vars => IInv'
<1> SUFFICES ASSUME IInv, [Next]_vars PROVE IInv'
  OBVIOUS
<1>1. ec \in Nat
  <2> HIDE DEF Word
  <2> QED BY LenProperties DEF IInv, ec
<1>2. CASE EmitOp
  BY <1>2, EmitOpStep
<1>3. CASE BranchPc
  <2>1. PICK v \in VmLine : EmitBranch([mline |-> ec, islocal |-> FALSE, vline |-> v])
    BY <1>3 DEF BranchPc, RecordedLine
  <2>2. [mline |-> ec, islocal |-> FALSE, vline |-> v] \in Branch
    BY <1>1 DEF Branch
  <2> QED BY <2>1, <2>2, EmitBranchStep
<1>4. CASE BranchLocal
  <2>1. PICK l \in Label, n \in BOOLEAN :
           EmitBranch([mline |-> ec, islocal |-> TRUE, local |-> l, isnext |-> n])
    BY <1>4 DEF BranchLocal, RecordedLine
  <2>2. [mline |-> ec, islocal |-> TRUE, local |-> l, isnext |-> n] \in Branch
    BY <1>1 DEF Branch
  <2> QED BY <2>1, <2>2, EmitBranchStep
<1>5. CASE LabelPc
  BY <1>5, LabelPcStep
<1>6. CASE LabelLocal
  BY <1>6, LabelLocalStep
<1>7. CASE Link
  BY <1>7, LinkStep
<1>8. CASE LinkAborts
  BY <1>8 DEF LinkAborts, IInv, LabelsSorted, HeadIsBranches, JumpTableOrdered, ec
<1>9. CASE UNCHANGED vars
  BY <1>9 DEF vars, IInv, LabelsSorted, HeadIsBranches, JumpTableOrdered, ec
<1> QED BY <1>2, <1>3, <1>4, <1>5, <1>6, <1>7, <1>8, <1>9 DEF Next

LEMMA AlwaysIInv == Spec => []IInv
BY InitIInv, NextIInv, PTL DEF Spec

\* The places of a local label are in the order find_local_label relies on.
THEOREM LabelsAreSorted == Spec => []LabelsSorted
<1>1. IInv => LabelsSorted
  BY DEF IInv
<1> QED BY <1>1, AlwaysIInv, PTL

\* link() patches branch instructions only, and each of them once.
THEOREM HeadHoldsBranches == Spec => []HeadIsBranches
<1>1. IInv => HeadIsBranches
  BY DEF IInv
<1> QED BY <1>1, AlwaysIInv, PTL

\* The jump table has the lines of the bytecode in order, within the code.
THEOREM JumpTableIsOrdered == Spec => []JumpTableOrdered
<1>1. IInv => JumpTableOrdered
  BY DEF IInv
<1> QED BY <1>1, AlwaysIInv, PTL

-----------------------------------------------------------------------------
(* Where linked branches go. *)

LEMMA Residue ==
    ASSUME NEW R \in Nat \ {0}, NEW d \in Int
    PROVE  /\ d % R \in 0..(R - 1)
           /\ \E q \in Int : d = R * q + (d % R)
<1>1. d % R \in 0..(R - 1)
  OBVIOUS
<1>2. d = R * (d \div R) + (d % R) /\ d \div R \in Int
  OBVIOUS
<1> QED BY <1>1, <1>2

LEMMA ResidueUnique ==
    ASSUME NEW R \in Nat \ {0}, NEW q \in Int, NEW r \in 0..(R - 1)
    PROVE  (R * q + r) % R = r
OBVIOUS

LEMMA SignResidue ==
    ASSUME NEW d \in Int
    PROVE  /\ Fits(d) => Sign(d % OffsetRange) = d
           /\ (Sign(d % OffsetRange) - d) % OffsetRange = 0
<1> DEFINE R == OffsetRange
           f == d % R
<1>1. R \in Nat \ {0}
  OBVIOUS
<1>2. PICK q \in Int : d = R * q + f
  BY <1>1, Residue
<1>3. f \in 0..(R - 1)
  BY <1>1, Residue
<1>4. Sign(f) = IF 2 * f >= R THEN f - R ELSE f
  BY DEF Sign
<1> HIDE DEF f, R
<1>5. Fits(d) => Sign(f) = d
  <2> SUFFICES ASSUME -R <= 2 * d, 2 * d < R
               PROVE  Sign(f) = d
    BY DEF Fits, R
  <2>1. CASE d >= 0
    <3>1. d \in 0..(R - 1) /\ d = R * 0 + d
      BY <1>1, <2>1
    <3>2. (R * 0 + d) % R = d
      BY <1>1, <3>1, ResidueUnique
    <3>3. f = d
      BY <3>1, <3>2 DEF f
    <3> QED BY <1>1, <1>4, <3>3
  <2>2. CASE d < 0
    <3>1. d + R \in 0..(R - 1) /\ d = R * (-1) + (d + R)
      BY <1>1, <2>2
    <3>2. (R * (-1) + (d + R)) % R = d + R
      BY <1>1, <3>1, ResidueUnique
    <3>3. f = d + R
      BY <3>1, <3>2 DEF f
    <3> QED BY <1>1, <1>4, <3>3
  <2> QED BY <2>1, <2>2
<1>6. (Sign(f) - d) % R = 0
  <2>1. CASE 2 * f >= R
    <3>1. Sign(f) - d = R * (-1 - q) + 0 /\ -1 - q \in Int
      BY <1>1, <1>2, <1>3, <1>4, <2>1
    <3> QED BY <1>1, <3>1, ResidueUnique
  <2>2. CASE ~(2 * f >= R)
    <3>1. Sign(f) - d = R * (-q) + 0 /\ -q \in Int
      BY <1>1, <1>2, <1>3, <1>4, <2>2
    <3> QED BY <1>1, <3>1, ResidueUnique
  <2> QED BY <2>1, <2>2
<1> QED BY <1>5, <1>6 DEF f, R

\* A branch within reach of its operand goes to its label, and any other one
\* misses it by a multiple of the range: the code does not check the distance.
THEOREM LinkIsExact == Spec => LinkExact
<1> DEFINE Exact == status' = "linked" =>
              \A b \in head :
                 LET goes == Goes(b.mline, mcode'[b.mline + 1].field)
                 IN  /\ Fits(Target(b) - (b.mline + 1)) => goes = Target(b)
                     /\ (goes - Target(b)) % OffsetRange = 0
<1>1. ASSUME IInv, Link
      PROVE  Exact
  <2> SUFFICES ASSUME NEW b \in head
               PROVE  LET goes == Goes(b.mline, mcode'[b.mline + 1].field)
                      IN  /\ Fits(Target(b) - (b.mline + 1)) => goes = Target(b)
                          /\ (goes - Target(b)) % OffsetRange = 0
    OBVIOUS
  <2> DEFINE d == Target(b) - (b.mline + 1)
  <2>1. Target(b) \in Nat /\ b.mline \in Nat
    BY <1>1, TargetIsLine DEF Link, IInv, Branch
  <2>2. mcode'[b.mline + 1].field = d % OffsetRange
    BY <1>1, LinkWords DEF OffsetField
  <2>3. /\ Fits(d) => Sign(d % OffsetRange) = d
        /\ (Sign(d % OffsetRange) - d) % OffsetRange = 0
    BY <2>1, SignResidue
  <2>4. Goes(b.mline, mcode'[b.mline + 1].field) = b.mline + 1 + Sign(d % OffsetRange)
    BY <2>2 DEF Goes
  <2>5. Sign(d % OffsetRange) \in Int
    BY <2>1 DEF Sign
  <2>6. (b.mline + 1 + Sign(d % OffsetRange)) - Target(b) = Sign(d % OffsetRange) - d
    BY <2>1, <2>5
  <2>7. Fits(d) => b.mline + 1 + Sign(d % OffsetRange) = Target(b)
    <3>1. b.mline + 1 + d = Target(b)
      BY <2>1
    <3> QED BY <2>3, <3>1
  <2> QED BY <2>3, <2>4, <2>6, <2>7
<1>2. ASSUME IInv, [Next]_vars
      PROVE  [Exact]_vars
  <2> SUFFICES ASSUME Next, status' = "linked"
               PROVE  Link
    BY <1>1, <1>2
  <2> QED BY DEF Next, EmitOp, BranchPc, BranchLocal, EmitBranch, LabelPc, LabelLocal,
                 LinkAborts, CanEmit
<1> QED BY <1>2, AlwaysIInv, PTL DEF Spec, LinkExact

-----------------------------------------------------------------------------
(* Linking late gives the destinations of an assembler that resolves early.    *)

\* The abstract state.
Dests == [e \in 1..Len(mcode) |-> DestOf(e)]
Placed == [l \in Label |-> IF local[l] = <<>> THEN -1 ELSE local[l][Len(local[l])]]

LEMMA Lines == IInv => ec \in Nat /\ mcode \in [1..ec -> Word]
<1> HIDE DEF Word
<1> QED BY LenProperties DEF IInv, ec

LEMMA DestsLength == IInv => Len(Dests) = ec
BY Lines DEF Dests, ec

LEMMA DestOfHead ==
    ASSUME IInv, NEW b \in head
    PROVE  b.mline + 1 \in 1..ec /\ DestOf(b.mline + 1) = Resolved(b)
<1>1. b.mline \in Nat /\ b.mline < ec
  BY DEF IInv, HeadIsBranches, Branch
<1>2. (b.mline + 1) - 1 = b.mline /\ b.mline + 1 \in 1..ec
  BY <1>1, Lines
<1>3. (CHOOSE c \in head : c.mline = b.mline) = b
  BY DEF IInv, HeadIsBranches
<1>4. \E c \in head : c.mline = (b.mline + 1) - 1
  BY <1>2
<1>5. DestOf(b.mline + 1) = Resolved(CHOOSE c \in head : c.mline = (b.mline + 1) - 1)
  BY <1>4 DEF DestOf
<1> QED BY <1>2, <1>3, <1>5

LEMMA DestOfOther ==
    ASSUME NEW e, ~\E b \in head : b.mline = e - 1
    PROVE  DestOf(e) = IF mcode[e].branch THEN To(Goes(e - 1, mcode[e].field))
                       ELSE [to |-> "through"]
BY DEF DestOf

LEMMA ResolvedKept ==
    ASSUME UNCHANGED local, NEW b
    PROVE  Resolved(b)' = Resolved(b)
BY DEF Resolved, Matches, FindLocalLabel

\* A new word leaves the destinations of the others alone.
LEMMA DestsAppended ==
    ASSUME IInv, NEW w \in Word, mcode' = Append(mcode, w), UNCHANGED local,
           NEW n, n = ec, NEW H, head' = head \cup H, \A b \in H : b.mline = n,
           NEW d, DestOf(n + 1)' = d
    PROVE  Dests' = Append(Dests, d)
<1>1. /\ n \in Nat /\ ec' = n + 1 /\ \A e \in 1..n : mcode'[e] = mcode[e]
  <2> HIDE DEF Word
  <2> QED BY Appended DEF IInv
<1>2. ASSUME NEW e \in 1..n
      PROVE  DestOf(e)' = DestOf(e)
  <2>1. CASE \E b \in head : b.mline = e - 1
    <3>1. PICK b \in head : b.mline = e - 1
      BY <2>1
    <3>2. \A c \in head' : c.mline = e - 1 => c = b
      <4>1. \A c \in head : c.mline = b.mline => c = b
        BY DEF IInv, HeadIsBranches
      <4>2. \A c \in H : c.mline # e - 1
        BY <1>1
      <4> QED BY <3>1, <4>1, <4>2
    <3>3. b \in head'
      OBVIOUS
    <3>4. (CHOOSE c \in head' : c.mline = e - 1) = b /\ \E c \in head' : c.mline = e - 1
      BY <3>1, <3>2, <3>3
    <3>5. (CHOOSE c \in head : c.mline = e - 1) = b
      BY <3>1, <3>2
    <3>6. Resolved(b)' = Resolved(b)
      BY ResolvedKept
    <3>7. DestOf(e)' = Resolved(b)'
      BY <3>4 DEF DestOf
    <3>8. DestOf(e) = Resolved(b)
      BY <2>1, <3>5 DEF DestOf
    <3> QED BY <3>6, <3>7, <3>8
  <2>2. CASE ~\E b \in head : b.mline = e - 1
    <3>1. ~\E b \in head' : b.mline = e - 1
      BY <1>1, <2>2
    <3> QED BY <1>1, <2>2, <3>1 DEF DestOf
  <2> QED BY <2>1, <2>2
<1>3. Dests' = [e \in 1..(n + 1) |-> DestOf(e)']
  BY <1>1 DEF Dests, ec
<1>4. Dests = [e \in 1..n |-> DestOf(e)] /\ Len(Dests) = n
  BY DestsLength DEF Dests, ec
<1>5. Append(Dests, d) = [e \in 1..(n + 1) |-> IF e = n + 1 THEN d ELSE Dests[e]]
  BY <1>1, <1>4
<1>6. \A e \in 1..(n + 1) : DestOf(e)' = IF e = n + 1 THEN d ELSE Dests[e]
  <2>1. \A e \in 1..(n + 1) : e # n + 1 => e \in 1..n
    BY <1>1
  <2>2. \A e \in 1..n : Dests[e] = DestOf(e)
    BY <1>4
  <2> QED BY <1>2, <2>1, <2>2
<1> QED BY <1>3, <1>5, <1>6

LEMMA EmitOpImplements ==
    ASSUME IInv, EmitOp
    PROVE  Eager!Emit(Eager!Plain)
<1> DEFINE w == [branch |-> FALSE, field |-> 0]
<1>1. /\ IInv /\ w \in Word /\ mcode' = Append(mcode, w) /\ head' = head \cup {}
      /\ UNCHANGED <<local, jt, status>> /\ status = "open"
  BY FieldZero DEF IInv, EmitOp, CanEmit, Encode, Word
<1>2. PICK n \in Nat : n = ec
  BY <1>1, Lines
<1>3. mcode'[n + 1] = w
  <2> HIDE DEF w, Word
  <2> QED BY <1>1, <1>2, Appended DEF IInv
<1>4. DestOf(n + 1)' = Eager!Plain
  <2>1. ~\E b \in head' : b.mline = (n + 1) - 1
    <3>1. \A b \in head : b.mline < n /\ b.mline \in Nat
      BY <1>1, <1>2 DEF IInv, HeadIsBranches, Branch
    <3> QED BY <1>1, <1>2, <3>1
  <2>2. DestOf(n + 1)' = IF mcode'[n + 1].branch
                         THEN To(Goes((n + 1) - 1, mcode'[n + 1].field))
                         ELSE [to |-> "through"]
    BY <2>1 DEF DestOf
  <2>3. mcode'[n + 1].branch = FALSE
    BY <1>3
  <2> QED BY <2>2, <2>3 DEF Eager!Plain
<1>5. Dests' = Append(Dests, Eager!Plain)
  <2> DEFINE H == {}
  <2>1. head' = head \cup H /\ \A b \in H : b.mline = n
    BY <1>1
  <2> HIDE DEF w, Word, H
  <2> QED BY <1>1, <1>2, <1>4, <2>1, DestsAppended
<1> QED BY <1>1, <1>5 DEF Eager!Emit, Dests, Placed

\* A branch is emitted with the destination known so far.
LEMMA BranchImplements ==
    ASSUME IInv, NEW n \in Nat, n = ec, NEW b \in Branch, b.mline = n, EmitBranch(b),
           NEW d, Resolved(b) = d
    PROVE  Eager!Emit(d)
<1> DEFINE w == [branch |-> TRUE, field |-> 0]
<1>1. /\ IInv /\ w \in Word /\ mcode' = Append(mcode, w) /\ head' = head \cup {b}
      /\ UNCHANGED <<local, jt, status>> /\ status = "open"
  BY FieldZero DEF IInv, EmitBranch, CanEmit, Encode, Word
<1>2. DestOf(n + 1)' = d
  <2>1. (n + 1) - 1 = n
    OBVIOUS
  <2>2. \A c \in head : c.mline # n
    BY <1>1 DEF IInv, HeadIsBranches, Branch
  <2>3. (CHOOSE c \in head' : c.mline = n) = b /\ \E c \in head' : c.mline = n
    BY <1>1, <2>2
  <2>4. DestOf(n + 1)' = Resolved(b)'
    BY <2>1, <2>3 DEF DestOf
  <2>5. local' = local
    BY <1>1
  <2>6. Resolved(b)' = Resolved(b)
    BY <2>5, ResolvedKept
  <2> QED BY <2>4, <2>6
<1>3. Dests' = Append(Dests, d)
  <2> DEFINE H == {b}
  <2>1. head' = head \cup H /\ \A c \in H : c.mline = n
    BY <1>1
  <2> HIDE DEF w, Word, H
  <2> QED BY <1>1, <1>2, <2>1, DestsAppended
<1> QED BY <1>1, <1>3 DEF Eager!Emit, Dests, Placed

LEMMA BranchPcImplements ==
    ASSUME IInv, BranchPc
    PROVE  Eager!EmitBranch
<1>1. PICK n \in Nat : n = ec
  BY Lines DEF IInv
<1>2. PICK v \in VmLine : EmitBranch([mline |-> n, islocal |-> FALSE, vline |-> v])
  BY <1>1 DEF BranchPc, RecordedLine
<1> DEFINE b == [mline |-> n, islocal |-> FALSE, vline |-> v]
<1>3. b \in Branch /\ b.mline = n
  BY DEF Branch
<1>4. Resolved(b) = Eager!AtVm(v)
  BY DEF Resolved, Eager!AtVm
<1>5. Eager!Emit(Eager!AtVm(v))
  <2>1. EmitBranch(b)
    BY <1>2
  <2> HIDE DEF b
  <2> QED BY <1>1, <1>3, <1>4, <2>1, BranchImplements
<1> QED BY <1>5 DEF Eager!EmitBranch

LEMMA BranchLocalImplements ==
    ASSUME IInv, BranchLocal
    PROVE  Eager!EmitBranch
<1>1. PICK n \in Nat : n = ec
  BY Lines DEF IInv
<1>2. PICK l \in Label, next \in BOOLEAN :
         /\ next \/ \A e \in 1..Len(local[l]) : local[l][e] < n
         /\ EmitBranch([mline |-> n, islocal |-> TRUE, local |-> l, isnext |-> next])
  BY <1>1 DEF BranchLocal, RecordedLine
<1> DEFINE b == [mline |-> n, islocal |-> TRUE, local |-> l, isnext |-> next]
           places == local[l]
<1>3. b \in Branch /\ b.mline = n /\ b.islocal /\ b.local = l /\ b.isnext = next
  BY DEF Branch
<1>4. EmitBranch(b)
  BY <1>2
<1>5. /\ places \in Seq(Nat) /\ Len(places) \in Nat /\ (places = <<>> <=> Len(places) = 0)
      /\ \A e \in 1..Len(places) : places[e] \in Nat /\ places[e] <= n
  <2>1. places \in Seq(Nat)
    BY DEF IInv
  <2> QED BY <1>1, <2>1, LenProperties, EmptySeq, ElementOfSeq DEF IInv, LabelsSorted
<1> HIDE DEF b
<1>6. CASE next
  <2>1. Matches(b) = {}
    BY <1>3, <1>5, <1>6 DEF Matches
  <2>2. Resolved(b) = Eager!AtNext(l)
    BY <1>3, <1>6, <2>1 DEF Resolved, Eager!AtNext
  <2>3. Eager!Emit(Eager!AtNext(l))
    BY <1>1, <1>3, <1>4, <2>2, BranchImplements
  <2> QED BY <2>3 DEF Eager!EmitBranch
<1>7. CASE ~next
  <2>1. Matches(b) = 1..Len(places)
    BY <1>2, <1>3, <1>7 DEF Matches
  <2> DEFINE d == IF Placed[l] = -1 THEN Eager!Lost ELSE Eager!To(Placed[l])
  <2>2. Placed[l] = IF places = <<>> THEN -1 ELSE places[Len(places)]
    BY DEF Placed
  <2>3. Resolved(b) = d
    <3>1. CASE Len(places) = 0
      <4>1. Matches(b) = {}
        BY <2>1, <3>1
      <4> QED BY <1>3, <1>5, <1>7, <2>2, <3>1, <4>1 DEF Resolved, Eager!Lost
    <3>2. CASE Len(places) # 0
      <4>1. Len(places) \in Matches(b)
        BY <1>5, <2>1, <3>2
      <4>2. PICK e \in Matches(b) :
               /\ e \in 1..Len(places)
               /\ FindLocalLabel(b) = places[e]
               /\ \A j \in Matches(b) : j <= e
        <5>1. Matches(b) # {}
          BY <4>1
        <5> HIDE DEF IInv
        <5> QED BY <1>3, <1>7, <5>1, FoundLabel DEF IInv
      <4>3. e = Len(places)
        BY <1>5, <4>1, <4>2
      <4>4. places[Len(places)] # -1
        BY <1>5, <4>2, <4>3
      <4> QED BY <1>3, <1>5, <1>7, <2>2, <3>2, <4>1, <4>2, <4>3, <4>4
              DEF Resolved, To, Eager!To
    <3> QED BY <3>1, <3>2
  <2>4. Eager!Emit(d)
    <3> HIDE DEF d
    <3> QED BY <1>1, <1>3, <1>4, <2>3, BranchImplements
  <2> QED BY <2>4 DEF Eager!EmitBranch, Placed
<1> QED BY <1>6, <1>7

\* A VM line starts at the code to come.
LEMMA LabelPcImplements ==
    ASSUME IInv, LabelPc
    PROVE  \E v \in VmLine : Eager!StartVmLine(v)
<1>1. /\ lines \in VmLine /\ status = "open"
      /\ jt' = [jt EXCEPT ![lines] = ec]
      /\ UNCHANGED <<mcode, local, head, status>>
  BY DEF LabelPc, JumpEntry, IInv, VmLine
<1>2. Dests' = Dests /\ Placed' = Placed
  BY <1>1 DEF Dests, Placed, DestOf, Resolved, Matches, FindLocalLabel
<1>3. Len(Dests) = ec
  BY DestsLength DEF IInv
<1>4. Eager!StartVmLine(lines)
  BY <1>1, <1>2, <1>3 DEF Eager!StartVmLine, Eager!Here, Dests, Placed
<1> QED BY <1>1, <1>4

LEMMA LeastChosen ==
    ASSUME NEW S \in SUBSET Nat, NEW e \in S, \A j \in S : e <= j
    PROVE  (CHOOSE m \in S : \A j \in S : m <= j) = e
<1>1. \A m \in S : (\A j \in S : m <= j) => m = e
  <2> SUFFICES ASSUME NEW m \in S, \A j \in S : m <= j
               PROVE  m = e
    OBVIOUS
  <2>1. m <= e /\ e <= m /\ m \in Nat /\ e \in Nat
    OBVIOUS
  <2> QED BY <2>1
<1> QED BY <1>1

LEMMA GreatestChosen ==
    ASSUME NEW S \in SUBSET Nat, NEW e \in S, \A j \in S : j <= e
    PROVE  (CHOOSE m \in S : \A j \in S : j <= m) = e
<1>1. \A m \in S : (\A j \in S : j <= m) => m = e
  <2> SUFFICES ASSUME NEW m \in S, \A j \in S : j <= m
               PROVE  m = e
    OBVIOUS
  <2>1. m <= e /\ e <= m /\ m \in Nat /\ e \in Nat
    OBVIOUS
  <2> QED BY <2>1
<1> QED BY <1>1

\* Placing a label settles the branches that wait for it, and no others.
LEMMA ResolvedWhenPlaced ==
    ASSUME IInv, NEW n \in Nat, n = ec, NEW l \in Label,
           local' = [local EXCEPT ![l] = Append(local[l], n)], NEW b \in head
    PROVE  Resolved(b)' = IF Resolved(b) = Eager!AtNext(l) THEN Eager!To(n) ELSE Resolved(b)
<1> USE DEF Resolved, To, Eager!AtNext, Eager!To
<1>1. b \in Branch /\ b.mline \in Nat /\ b.mline < n
  BY DEF IInv, HeadIsBranches, Branch
<1>2. CASE ~b.islocal
  BY <1>2
<1>3. CASE b.islocal /\ b.local # l
  <2>1. local'[b.local] = local[b.local]
    BY <1>3
  <2>2. Matches(b)' = Matches(b)
    BY <2>1 DEF Matches
  <2>3. FindLocalLabel(b)' = FindLocalLabel(b)
    <3>1. PICK M : M = Matches(b)
      OBVIOUS
    <3>2. PICK p : p = local[b.local]
      OBVIOUS
    <3>3. FindLocalLabel(b) = p[IF b.isnext THEN CHOOSE e \in M : \A j \in M : e <= j
                                ELSE CHOOSE e \in M : \A j \in M : j <= e]
      BY <3>1, <3>2 DEF FindLocalLabel
    <3>4. FindLocalLabel(b)' = p[IF b.isnext THEN CHOOSE e \in M : \A j \in M : e <= j
                                 ELSE CHOOSE e \in M : \A j \in M : j <= e]
      <4>1. M = Matches(b)' /\ p = local'[b.local]
        BY <2>1, <2>2, <3>1, <3>2
      <4> QED BY <4>1 DEF FindLocalLabel
    <3> QED BY <3>3, <3>4
  <2> QED BY <1>3, <2>2, <2>3
<1>4. CASE b.islocal /\ b.local = l
  <2> DEFINE places == local[l]
             k == Len(places)
  <2>1. places \in Seq(Nat) /\ k \in Nat /\ b.isnext \in BOOLEAN
    BY <1>1, <1>4, LenProperties DEF IInv, Branch
  <2>2. /\ Len(local'[l]) = k + 1 /\ local'[l][k + 1] = n
        /\ \A e \in 1..k : local'[l][e] = places[e] /\ places[e] \in Nat /\ places[e] <= n
    <3>1. local'[l] = Append(places, n)
      BY DEF IInv
    <3> QED BY <2>1, <3>1, AppendProperties, ElementOfSeq DEF IInv, LabelsSorted
  <2>3. PICK M : M = Matches(b)
    OBVIOUS
  <2>4. PICK N : N = Matches(b)'
    OBVIOUS
  <2>5. M = {e \in 1..k : IF b.isnext THEN b.mline < places[e] ELSE b.mline > places[e]}
    BY <1>4, <2>3 DEF Matches
  <2>6. N = {e \in 1..(k + 1) : IF b.isnext THEN b.mline < local'[l][e]
                                ELSE b.mline > local'[l][e]}
    BY <1>4, <2>2, <2>4 DEF Matches
  <2>7. FindLocalLabel(b) = places[IF b.isnext THEN CHOOSE e \in M : \A j \in M : e <= j
                                   ELSE CHOOSE e \in M : \A j \in M : j <= e]
    BY <1>4, <2>3 DEF FindLocalLabel
  <2>8. FindLocalLabel(b)' = local'[l][IF b.isnext THEN CHOOSE e \in N : \A j \in N : e <= j
                                       ELSE CHOOSE e \in N : \A j \in N : j <= e]
    BY <1>4, <2>4 DEF FindLocalLabel
  <2>9. M # {} => \E e \in M : \A j \in M : IF b.isnext THEN e <= j ELSE j <= e
    BY <1>1, <1>4, <2>3, FoundLabel
  <2> HIDE DEF places, k
  <2>10. M \subseteq 1..k
    BY <2>5
  <2>11. M \in SUBSET Nat /\ M \cup {k + 1} \in SUBSET Nat
    BY <2>1, <2>10
  <2>12. CASE b.isnext
    <3>1. N = M \cup {k + 1}
      BY <1>1, <2>1, <2>2, <2>5, <2>6, <2>12 DEF places
    <3>2. CASE M = {}
      <4>1. N = {k + 1} /\ (CHOOSE e \in N : \A j \in N : e <= j) = k + 1
        BY <2>1, <3>1, <3>2
      <4>2. FindLocalLabel(b)' = n
        BY <2>2, <2>8, <2>12, <4>1
      <4> QED BY <1>4, <2>3, <2>4, <2>12, <3>2, <4>1, <4>2
    <3>3. CASE M # {}
      <4>1. PICK e \in M : \A j \in M : e <= j
        BY <2>9, <2>12, <3>3
      <4>2. (CHOOSE m \in M : \A j \in M : m <= j) = e
        BY <2>11, <4>1, LeastChosen
      <4>3. (CHOOSE m \in N : \A j \in N : m <= j) = e
        <5>1. e \in N /\ \A j \in N : e <= j
          BY <2>1, <2>10, <3>1, <4>1
        <5> QED BY <2>11, <3>1, <5>1, LeastChosen
      <4>4. FindLocalLabel(b)' = FindLocalLabel(b)
        BY <2>2, <2>7, <2>8, <2>10, <2>12, <4>2, <4>3
      <4> QED BY <1>4, <2>3, <2>4, <3>1, <3>3, <4>4
    <3> QED BY <3>2, <3>3
  <2>13. CASE ~b.isnext
    <3>1. N = M
      <4>1. N = {e \in 1..(k + 1) : b.mline > local'[l][e]}
        BY <2>6, <2>13
      <4>2. M = {e \in 1..k : b.mline > places[e]}
        BY <2>5, <2>13
      <4>3. \A e \in 1..(k + 1) : e \in 1..k \/ e = k + 1
        BY <2>1
      <4>4. \A e \in 1..k : e \in 1..(k + 1) /\ local'[l][e] = places[e]
        BY <2>1, <2>2 DEF places
      <4>5. ~(b.mline > local'[l][k + 1])
        BY <1>1, <2>2 DEF k
      <4> QED BY <4>1, <4>2, <4>3, <4>4, <4>5
    <3>2. CASE M = {}
      BY <1>4, <2>3, <2>4, <2>13, <3>1, <3>2
    <3>3. CASE M # {}
      <4>1. PICK e \in M : \A j \in M : j <= e
        BY <2>9, <2>13, <3>3
      <4>2. (CHOOSE m \in M : \A j \in M : j <= m) = e
        BY <2>11, <4>1, GreatestChosen
      <4>3. FindLocalLabel(b)' = FindLocalLabel(b)
        BY <2>2, <2>7, <2>8, <2>10, <2>13, <3>1, <4>2
      <4> QED BY <1>4, <2>3, <2>4, <3>1, <3>3, <4>3
    <3> QED BY <3>2, <3>3
  <2> QED BY <2>1, <2>12, <2>13
<1> QED BY <1>2, <1>3, <1>4

LEMMA LabelLocalImplements ==
    ASSUME IInv, LabelLocal
    PROVE  \E l \in Label : Eager!PlaceLabel(l)
<1>1. PICK n \in Nat : n = ec
  BY Lines DEF IInv
<1>2. PICK l \in Label : local' = [local EXCEPT ![l] = Append(local[l], n)]
  BY <1>1 DEF LabelLocal, Insert
<1>3. IInv /\ UNCHANGED <<mcode, jt, head, status>> /\ status = "open"
  BY DEF IInv, LabelLocal
<1>4. ASSUME NEW e \in 1..n
      PROVE  DestOf(e)' = IF DestOf(e) = Eager!AtNext(l) THEN Eager!To(n) ELSE DestOf(e)
  <2>1. CASE \E b \in head : b.mline = e - 1
    <3>1. PICK b \in head : b.mline = e - 1
      BY <2>1
    <3>2. (CHOOSE c \in head : c.mline = e - 1) = b
      BY <1>3, <3>1 DEF IInv, HeadIsBranches
    <3>3. DestOf(e) = Resolved(b)
      BY <2>1, <3>2 DEF DestOf
    <3>4. DestOf(e)' = Resolved(b)'
      BY <1>3, <2>1, <3>2 DEF DestOf
    <3>5. Resolved(b)' = IF Resolved(b) = Eager!AtNext(l) THEN Eager!To(n) ELSE Resolved(b)
      BY <1>1, <1>2, <1>3, ResolvedWhenPlaced
    <3> QED BY <3>3, <3>4, <3>5
  <2>2. CASE ~\E b \in head : b.mline = e - 1
    <3>1. DestOf(e)' = DestOf(e)
      BY <1>3, <2>2 DEF DestOf
    <3>2. DestOf(e) # Eager!AtNext(l)
      BY <2>2 DEF DestOf, To, Eager!AtNext
    <3> QED BY <3>1, <3>2
  <2> QED BY <2>1, <2>2
<1>5. Dests = [e \in 1..n |-> DestOf(e)] /\ Len(Dests) = n
  BY <1>1, <1>3, DestsLength DEF Dests, ec
<1>6. Dests' = [e \in 1..n |-> DestOf(e)']
  BY <1>1, <1>3 DEF Dests, ec
<1>7. Dests' = [e \in 1..n |-> IF Dests[e] = Eager!AtNext(l) THEN Eager!To(n) ELSE Dests[e]]
  BY <1>4, <1>5, <1>6
<1>8. Placed' = [Placed EXCEPT ![l] = n]
  <2>1. local'[l] = Append(local[l], n) /\ local[l] \in Seq(Nat)
    BY <1>2, <1>3 DEF IInv
  <2>2. local'[l] # <<>> /\ local'[l][Len(local'[l])] = n
    BY <2>1, AppendProperties, LenProperties
  <2>3. \A m \in Label : m # l => local'[m] = local[m]
    BY <1>2, <1>3 DEF IInv
  <2> QED BY <2>2, <2>3 DEF Placed
<1>9. Eager!PlaceLabel(l)
  BY <1>3, <1>5, <1>7, <1>8 DEF Eager!PlaceLabel, Eager!Here, Dests, Placed
<1> QED BY <1>9

\* A branch whose operand reaches its target goes there.
LEMMA LinkReaches ==
    ASSUME IInv, Link, NEW b \in head, Eager!InReach(b.mline, Target(b))
    PROVE  Goes(b.mline, mcode'[b.mline + 1].field) = Target(b)
<1> DEFINE d == Target(b) - (b.mline + 1)
<1>1. b.mline \in Nat /\ Target(b) \in Nat
  BY TargetIsLine DEF Link, IInv, Branch
<1>2. Fits(d)
  BY DEF Eager!InReach, Fits
<1>3. Sign(d % OffsetRange) = d
  BY <1>1, <1>2, SignResidue
<1>4. mcode'[b.mline + 1].field = d % OffsetRange
  BY LinkWords DEF OffsetField
<1>5. Goes(b.mline, mcode'[b.mline + 1].field) = b.mline + 1 + d
  BY <1>3, <1>4 DEF Goes
<1> QED BY <1>1, <1>5

LEMMA LinkImplements ==
    ASSUME IInv, Link
    PROVE  Eager!Link
<1>1. PICK n \in Nat : n = ec
  BY Lines DEF IInv
<1>2. IInv /\ head' = {} /\ UNCHANGED <<local, jt>> /\ status = "open" /\ status' = "linked"
  BY DEF IInv, Link
<1>3. ec' = n /\ \A e \in 1..n : /\ mcode'[e].branch = mcode[e].branch
                                 /\ (~\E b \in head : b.mline = e - 1) => mcode'[e] = mcode[e]
  BY <1>1, <1>2, LinkWords
<1>4. ASSUME NEW e \in 1..n
      PROVE  /\ Eager!Linked(e, Eager!Destination(DestOf(e)), DestOf(e)')
             /\ DestOf(e).to \notin {"nextlabel", "nowhere"}
  <2>1. DestOf(e)' = IF mcode'[e].branch THEN Eager!To(Goes(e - 1, mcode'[e].field))
                     ELSE [to |-> "through"]
    BY <1>2 DEF DestOf, To, Eager!To
  <2>2. CASE \E b \in head : b.mline = e - 1
    <3>1. PICK b \in head : b.mline = e - 1
      BY <2>2
    <3>2. b.mline + 1 = e
      BY <3>1
    <3>3. DestOf(e) = Resolved(b)
      BY <1>2, <3>2, DestOfHead
    <3>4. DestOf(e)' = Eager!To(Goes(e - 1, mcode'[e].field))
      <4>1. mcode[e].branch
        BY <1>2, <3>2 DEF IInv, HeadIsBranches
      <4> QED BY <1>3, <2>1, <4>1
    <3>5. Eager!InReach(e - 1, Target(b)) => Goes(e - 1, mcode'[e].field) = Target(b)
      BY <1>2, <3>1, <3>2, LinkReaches
    <3>6. /\ Eager!Destination(DestOf(e)) = Eager!To(Target(b))
          /\ DestOf(e).to \notin {"nextlabel", "nowhere"}
      <4>1. CASE b.islocal
        <5>1. Resolved(b) = Eager!To(Target(b))
          BY <4>1 DEF Resolved, To, Eager!To, Target, Link, Unfound
        <5> QED BY <3>3, <5>1 DEF Eager!To, Eager!Destination
      <4>2. CASE ~b.islocal
        <5>1. Resolved(b) = [to |-> "vmline", vline |-> b.vline] /\ Target(b) = jt[b.vline]
          BY <4>2 DEF Resolved, Target
        <5>2. Resolved(b).to = "vmline" /\ Resolved(b).vline = b.vline
          BY <5>1
        <5> QED BY <3>3, <5>1, <5>2 DEF Eager!Destination
      <4> QED BY <4>1, <4>2
    <3>7. Eager!Linked(e, Eager!To(Target(b)), DestOf(e)')
      <4>1. CASE Eager!InReach(e - 1, Target(b))
        BY <3>4, <3>5, <4>1 DEF Eager!Linked, Eager!To
      <4>2. CASE ~Eager!InReach(e - 1, Target(b))
        BY <3>4, <4>2 DEF Eager!Linked, Eager!To
      <4> QED BY <4>1, <4>2
    <3> QED BY <3>6, <3>7
  <2>3. CASE ~\E b \in head : b.mline = e - 1
    <3>1. DestOf(e) = IF mcode[e].branch THEN Eager!To(Goes(e - 1, mcode[e].field))
                      ELSE [to |-> "through"]
      BY <2>3 DEF DestOf, To, Eager!To
    <3>2. DestOf(e)' = DestOf(e)
      <4>1. mcode'[e] = mcode[e]
        BY <1>3, <2>3
      <4> QED BY <2>1, <3>1, <4>1
    <3>3. DestOf(e) = Eager!Plain \/ \E to : DestOf(e) = Eager!To(to)
      BY <3>1 DEF Eager!To, Eager!Plain
    <3>4. /\ DestOf(e).to \notin {"nextlabel", "nowhere"}
          /\ Eager!Destination(DestOf(e)) = DestOf(e)
          /\ DestOf(e).to = "line" => DestOf(e) = Eager!To(DestOf(e).pc)
      BY <3>3 DEF Eager!To, Eager!Plain, Eager!Destination
    <3> QED BY <3>2, <3>4 DEF Eager!Linked
  <2> QED BY <2>2, <2>3
<1>5. Dests = [e \in 1..n |-> DestOf(e)] /\ Len(Dests) = n
  BY <1>1, <1>2, DestsLength DEF Dests, ec
<1>6. Dests' = [e \in 1..n |-> DestOf(e)']
  BY <1>3 DEF Dests, ec
<1>7. /\ Dests' = [e \in 1..n |-> Dests'[e]]
      /\ \A e \in 1..n : Eager!Linked(e, Eager!Destination(Dests[e]), Dests'[e])
  <2>1. ASSUME NEW e \in 1..n
        PROVE  Dests[e] = DestOf(e) /\ Dests'[e] = DestOf(e)'
    BY <1>5, <1>6
  <2>2. Dests' = [e \in 1..n |-> Dests'[e]]
    BY <1>6
  <2> QED BY <1>4, <2>1, <2>2
<1>8. \A e \in 1..n : Dests[e].to \notin {"nextlabel", "nowhere"}
  BY <1>4, <1>5
<1>9. Placed' = Placed
  BY <1>2 DEF Placed
<1> QED BY <1>2, <1>5, <1>7, <1>8, <1>9
        DEF Eager!Link, Eager!Unresolved, Dests, Placed

LEMMA LinkAbortsImplements ==
    ASSUME IInv, LinkAborts
    PROVE  Eager!LinkAborts
<1>1. PICK n \in Nat : n = ec
  BY Lines DEF IInv
<1>2. IInv /\ UNCHANGED <<mcode, local, head, jt>> /\ status = "open" /\ status' = "aborted"
  BY DEF IInv, LinkAborts
<1>3. PICK b \in head : Unfound(b)
  BY DEF LinkAborts
<1>4. b.mline + 1 \in 1..n /\ DestOf(b.mline + 1) = Resolved(b)
  BY <1>1, <1>2, DestOfHead
<1>5. Resolved(b).to \in {"nextlabel", "nowhere"}
  BY <1>3 DEF Resolved, Unfound
<1>6. Dests = [e \in 1..n |-> DestOf(e)] /\ Len(Dests) = n
  BY <1>1, <1>2, DestsLength DEF Dests, ec
<1>7. \E e \in 1..Len(Dests) : Dests[e].to \in {"nextlabel", "nowhere"}
  BY <1>4, <1>5, <1>6
<1>8. Dests' = Dests /\ Placed' = Placed
  BY <1>2 DEF Dests, Placed, DestOf, Resolved, Matches, FindLocalLabel
<1> QED BY <1>2, <1>7, <1>8 DEF Eager!LinkAborts, Eager!Unresolved, Dests, Placed

LEMMA InitImplements == Init => Eager!Init
<1> SUFFICES ASSUME Init PROVE Eager!Init
  OBVIOUS
<1>1. mcode = <<>> /\ Len(mcode) = 0
  BY DEF Init
<1>2. Dests = <<>>
  BY <1>1 DEF Dests
<1>3. Placed = [l \in Label |-> -1]
  BY DEF Init, Placed
<1> QED BY <1>2, <1>3 DEF Eager!Init, Init, Dests, Placed

LEMMA StepImplements ==
    ASSUME IInv, [Next]_vars
    PROVE  [Eager!Next]_(Eager!vars)
<1>1. CASE EmitOp
  BY <1>1, EmitOpImplements DEF Eager!Next
<1>2. CASE BranchPc \/ BranchLocal
  BY <1>2, BranchPcImplements, BranchLocalImplements DEF Eager!Next
<1>3. CASE LabelPc
  BY <1>3, LabelPcImplements DEF Eager!Next
<1>4. CASE LabelLocal
  BY <1>4, LabelLocalImplements DEF Eager!Next
<1>5. CASE Link
  BY <1>5, LinkImplements DEF Eager!Next
<1>6. CASE LinkAborts
  BY <1>6, LinkAbortsImplements DEF Eager!Next
<1>7. CASE UNCHANGED vars
  <2>1. Dests' = Dests /\ Placed' = Placed /\ UNCHANGED <<jt, status>>
    BY <1>7 DEF vars, Dests, Placed, DestOf, Resolved, Matches, FindLocalLabel
  <2> QED BY <2>1 DEF Eager!vars, Dests, Placed
<1> QED BY <1>1, <1>2, <1>3, <1>4, <1>5, <1>6, <1>7 DEF Next

\* Linking at the end of the code gives every branch the destination that an
\* assembler gives it which resolves each branch as early as possible, for any
\* number of labels, VM lines and instructions; a branch goes there if it can
\* reach that far.
THEOREM LabelsResolve == Spec => RefinesEagerAssembler
<1>1. Init => Eager!Init
  BY InitImplements
<1>2. IInv /\ [Next]_vars => [Eager!Next]_(Eager!vars)
  BY StepImplements
<1> QED BY <1>1, <1>2, AlwaysIInv, PTL DEF Spec, RefinesEagerAssembler, Eager!Spec

-----------------------------------------------------------------------------
(***************************************************************************)
(* The buffer: it always has room for the code, and grows by doubling      *)
(* once, so that the old size that the allocator is told is the real one.  *)
(***************************************************************************)
USE FirstBufferAssumption

LEMMA Induction ==
    ASSUME NEW S, 0 \in S, \A n \in Nat : n \in S => n + 1 \in S
    PROVE  Nat \subseteq S
<1> DEFINE T == Nat \ S
<1> SUFFICES ASSUME T # {} PROVE FALSE
  OBVIOUS
<1>1. PICK x \in T : \A y \in T : x <= y
  BY LeastElement
<1>2. x # 0 /\ x - 1 \in Nat /\ ~(x <= x - 1)
  OBVIOUS
<1>3. x - 1 \in S
  BY <1>1, <1>2
<1> QED BY <1>2, <1>3

\* The loop of DASM_M_GROW, turn by turn.
LEMMA DoubledTurns ==
    ASSUME NEW size \in Nat, NEW n \in Nat
    PROVE  /\ Doubled(size, n) \in [0..n -> Nat]
           /\ \A k \in 0..n :
                Doubled(size, n)[k] = IF k = 0 THEN size ELSE 2 * Doubled(size, n)[k - 1]
<1> DEFINE Turns(m, g) == \A k \in 0..m : g[k] = IF k = 0 THEN size ELSE 2 * g[k - 1]
           S == {m \in Nat : \E g \in [0..m -> Nat] : Turns(m, g)}
<1>1. 0 \in S
  <2>1. [k \in 0..0 |-> size] \in [0..0 -> Nat] /\ Turns(0, [k \in 0..0 |-> size])
    OBVIOUS
  <2> QED BY <2>1
<1>2. ASSUME NEW m \in Nat, m \in S PROVE m + 1 \in S
  <2>1. PICK g \in [0..m -> Nat] : Turns(m, g)
    BY <1>2
  <2> DEFINE h == [k \in 0..(m + 1) |-> IF k = m + 1 THEN 2 * g[m] ELSE g[k]]
  <2>2. h \in [0..(m + 1) -> Nat]
    OBVIOUS
  <2>3. Turns(m + 1, h)
    BY <2>1
  <2> HIDE DEF h
  <2>4. \E f \in [0..(m + 1) -> Nat] : Turns(m + 1, f)
    BY <2>2, <2>3
  <2>5. m + 1 \in Nat
    OBVIOUS
  <2> QED BY <2>4, <2>5, Zenon
<1>3. n \in S
  <2> HIDE DEF S
  <2> QED BY <1>1, <1>2, Induction
<1>4. PICK g \in [0..n -> Nat] : Turns(n, g)
  BY <1>3
<1> DEFINE Body(f) == [k \in 0..n |-> IF k = 0 THEN size ELSE 2 * f[k - 1]]
<1>5. g = Body(g)
  BY <1>4
<1>6. Doubled(size, n) = CHOOSE f : f = Body(f)
  BY DEF Doubled
<1> DEFINE d == Doubled(size, n)
<1>7. d = Body(d)
  <2> HIDE DEF Body
  <2> QED BY <1>5, <1>6
<1>8. Turns(n, d) /\ DOMAIN d = 0..n
  <2> HIDE DEF d
  <2> QED BY <1>7
<1>9. \A k \in Nat : k \in 0..n => d[k] \in Nat
  <2> HIDE DEF d
  <2> DEFINE U == {k \in Nat : k \in 0..n => d[k] \in Nat}
  <2>1. 0 \in U
    BY <1>8
  <2>2. ASSUME NEW k \in Nat, k \in U PROVE k + 1 \in U
    <3> SUFFICES ASSUME k + 1 \in 0..n PROVE d[k + 1] \in Nat
      OBVIOUS
    <3>1. d[k + 1] = 2 * d[k]
      BY <1>8
    <3>2. d[k] \in Nat
      BY <2>2
    <3> QED BY <3>1, <3>2
  <2>3. Nat \subseteq U
    <3> HIDE DEF U
    <3> QED BY <2>1, <2>2, Induction
  <2> QED BY <2>3
<1>10. d = [k \in 0..n |-> d[k]]
  <2> HIDE DEF d
  <2> QED BY <1>7
<1>11. d \in [0..n -> Nat]
  <2> HIDE DEF d
  <2> QED BY <1>9, <1>10
<1> QED BY <1>8, <1>11

LEMMA DoubledGrows ==
    ASSUME NEW size \in Nat \ {0}, NEW n \in Nat
    PROVE  \A k \in 0..n : Doubled(size, n)[k] >= size + k
<1> DEFINE d == Doubled(size, n)
           U == {k \in Nat : k \in 0..n => d[k] >= size + k}
<1>1. /\ d \in [0..n -> Nat]
      /\ \A k \in 0..n : d[k] = IF k = 0 THEN size ELSE 2 * d[k - 1]
  BY DoubledTurns
<1> HIDE DEF d
<1>2. 0 \in U
  BY <1>1
<1>3. ASSUME NEW k \in Nat, k \in U PROVE k + 1 \in U
  <2> SUFFICES ASSUME k + 1 \in 0..n PROVE d[k + 1] >= size + (k + 1)
    OBVIOUS
  <2>1. d[k] >= size + k /\ d[k] \in Nat
    BY <1>1, <1>3
  <2>2. d[k + 1] = 2 * d[k]
    BY <1>1
  <2> QED BY <2>1, <2>2
<1>4. Nat \subseteq U
  <2> HIDE DEF U
  <2> QED BY <1>2, <1>3, Induction
<1> QED BY <1>4 DEF d

\* One doubling is enough for one more instruction.
LEMMA GrowFits ==
    ASSUME NEW sz \in Nat, NEW need \in Nat, sz = 0 \/ sz >= FirstBuffer, need <= sz + 4
    PROVE  /\ Grow(sz, need) \in Nat /\ Grow(sz, need) >= need
           /\ Grow(sz, need) = 0 \/ Grow(sz, need) >= FirstBuffer
           /\ Grow(sz, need) # sz /\ sz # 0 => Grow(sz, need) = 2 * sz
<1>1. FirstBuffer >= 4
  OBVIOUS
<1>2. CASE sz >= need
  BY <1>2 DEF Grow
<1>3. CASE sz < need
  <2> DEFINE first == IF sz < FirstBuffer THEN FirstBuffer ELSE sz
             d == Doubled(first, need)
             Enough == {k \in 0..need : d[k] >= need}
             c == CHOOSE k \in Enough : \A j \in Enough : k <= j
  <2>1. first \in Nat \ {0} /\ first >= FirstBuffer /\ 2 * first >= need
    BY <1>1
  <2>2. Grow(sz, need) = d[c]
    BY <1>3 DEF Grow
  <2> HIDE DEF first
  <2>3. /\ d \in [0..need -> Nat]
        /\ \A k \in 0..need : d[k] = IF k = 0 THEN first ELSE 2 * d[k - 1]
        /\ \A k \in 0..need : d[k] >= first + k
    <3>1. /\ d \in [0..need -> Nat]
          /\ \A k \in 0..need : d[k] = IF k = 0 THEN first ELSE 2 * d[k - 1]
      <4>1. first \in Nat /\ need \in Nat
        BY <2>1
      <4> QED BY ONLY <4>1, DoubledTurns DEF d
    <3>2. \A k \in 0..need : d[k] >= first + k
      BY <2>1, DoubledGrows
    <3> QED BY <3>1, <3>2
  <2> HIDE DEF d
  <2>4. 1 \in Enough
    <3>1. d[1] = 2 * d[0] /\ d[0] = first
      BY <1>3, <2>3
    <3> QED BY <1>3, <2>1, <3>1
  <2>5. c \in Enough /\ \A j \in Enough : c <= j
    <3>1. \E k \in Enough : \A j \in Enough : k <= j
      BY <2>4, LeastElement
    <3> QED BY <3>1
  <2> HIDE DEF c
  <2>6. c \in {0, 1} /\ d[c] \in Nat /\ d[c] >= need /\ d[c] >= first
    BY <2>1, <2>3, <2>4, <2>5
  <2>7. sz # 0 => d[c] = 2 * sz
    <3> SUFFICES ASSUME sz # 0 PROVE d[c] = 2 * sz
      OBVIOUS
    <3>1. first = sz
      BY DEF first
    <3>2. d[0] = sz /\ d[1] = 2 * sz
      BY <1>3, <2>3, <3>1
    <3>3. c # 0
      BY <1>3, <2>6, <3>2
    <3> QED BY <2>6, <3>2, <3>3
  <2> QED BY <2>1, <2>2, <2>6, <2>7
<1> QED BY <1>2, <1>3

\* The code fits the buffer, which is none or at least the first one.
BInv ==
    /\ IInv
    /\ bufsize \in Nat
    /\ status = "open" => bufsize = 0 \/ bufsize >= FirstBuffer
    /\ 4 * ec <= bufsize
    /\ status \in {"open", "linked", "aborted"}

LEMMA EncodeKeepsRoom ==
    ASSUME BInv, status = "open", NEW w \in Word, Encode(w)
    PROVE  /\ bufsize' \in Nat
           /\ bufsize' = 0 \/ bufsize' >= FirstBuffer
           /\ 4 * ec' <= bufsize'
           /\ bufsize' > bufsize /\ bufsize # 0 => bufsize' = 2 * bufsize
<1>1. ec \in Nat /\ ec' = ec + 1
  <2> HIDE DEF Word
  <2> QED BY Appended DEF BInv, IInv, Encode
<1>2. bufsize' = Grow(bufsize, 4 * ec + 4)
  BY DEF Encode, ec
<1> DEFINE need == 4 * ec + 4
<1>3. need \in Nat /\ need <= bufsize + 4 /\ 4 * ec' = need
  BY <1>1 DEF BInv
<1> HIDE DEF need
<1>4. bufsize' = Grow(bufsize, need)
  BY <1>2 DEF need
<1> QED BY <1>3, <1>4, GrowFits DEF BInv

\* What a step does to the buffer.
LEMMA BufferStep ==
    ASSUME BInv, [Next]_vars
    PROVE  BInv' /\ (bufsize' > bufsize /\ bufsize # 0 => bufsize' = 2 * bufsize)
<1>1. IInv'
  BY NextIInv DEF BInv
<1>2. ASSUME bufsize' = bufsize, Len(mcode') = Len(mcode), status' \in {status, "aborted"}
      PROVE  BInv' /\ (bufsize' > bufsize /\ bufsize # 0 => bufsize' = 2 * bufsize)
  BY <1>1, <1>2 DEF BInv, ec
<1>3. ASSUME NEW w \in Word, Encode(w), status = "open", status' = status
      PROVE  BInv' /\ (bufsize' > bufsize /\ bufsize # 0 => bufsize' = 2 * bufsize)
  BY <1>1, <1>3, EncodeKeepsRoom DEF BInv
<1>4. CASE EmitOp
  <2>1. [branch |-> FALSE, field |-> 0] \in Word
    BY FieldZero DEF Word
  <2> HIDE DEF Word
  <2> QED BY <1>3, <1>4, <2>1 DEF EmitOp, CanEmit
<1>5. CASE BranchPc \/ BranchLocal
  <2>1. [branch |-> TRUE, field |-> 0] \in Word
    BY FieldZero DEF Word
  <2> HIDE DEF Word
  <2> QED BY <1>3, <1>5, <2>1 DEF BranchPc, BranchLocal, EmitBranch, CanEmit
<1>6. CASE LabelPc \/ LabelLocal \/ LinkAborts \/ UNCHANGED vars
  BY <1>2, <1>6 DEF LabelPc, LabelLocal, LinkAborts, vars
<1>7. CASE Link
  <2>1. ec \in Nat /\ Len(mcode) = ec
    BY LenProperties DEF ec, BInv, IInv
  <2>2. mcode' \in Seq(Word) /\ DOMAIN mcode' = 1..ec
    BY <1>1, <1>7, <2>1 DEF Link, IInv
  <2>3. Len(mcode') = ec
    <3> HIDE DEF Word
    <3> QED BY <2>1, <2>2, LenProperties
  <2>4. bufsize' = 4 * ec /\ status' = "linked"
    BY <1>7 DEF Link, ec
  <2>5. bufsize' <= bufsize /\ ec' = ec
    BY <2>1, <2>3, <2>4 DEF BInv, ec
  <2> QED BY <1>1, <2>1, <2>4, <2>5 DEF BInv
<1> QED BY <1>4, <1>5, <1>6, <1>7 DEF Next

LEMMA InitBInv == Init => BInv
<1> SUFFICES ASSUME Init PROVE BInv
  OBVIOUS
<1>1. IInv
  BY InitIInv
<1>2. bufsize = 0 /\ ec = 0 /\ status = "open"
  BY DEF Init, ec
<1> QED BY <1>1, <1>2 DEF BInv

\* The variables of the emitter keep their types; the size of the buffer is a
\* number because the loop that doubles it ends (emitter32.c:226).
THEOREM TypeCorrect == Spec => []TypeOK
<1>1. BInv /\ [Next]_vars => BInv'
  BY BufferStep
<1>2. BInv => TypeOK
  BY DEF BInv, IInv, TypeOK, Word
<1> QED BY InitBInv, <1>1, <1>2, PTL DEF Spec

\* When the buffer grows, the allocator is told its real old size: it never has to be
\* doubled more than once, from any first size (emitter32.c:227).
THEOREM OldSizeIsReal == Spec => ReallocOldSize
<1>1. BInv /\ [Next]_vars => BInv'
  BY BufferStep
<1>2. BInv /\ [Next]_vars => [bufsize' > bufsize /\ bufsize # 0 => ReallocOld(bufsize') = bufsize]_vars
  <2> SUFFICES ASSUME BInv, [Next]_vars, bufsize' > bufsize, bufsize # 0
               PROVE  ReallocOld(bufsize') = bufsize
    OBVIOUS
  <2>1. bufsize' = 2 * bufsize /\ bufsize \in Nat
    BY BufferStep DEF BInv
  <2> QED BY <2>1 DEF ReallocOld
<1> QED BY InitBInv, <1>1, <1>2, PTL DEF Spec, ReallocOldSize

-----------------------------------------------------------------------------
(* Passing operands to a C function (StaticCall).                            *)

USE NrArgRegsAssumption, MaxArgsAssumption, RegionAssumption, AddressAssumption

Bytes == [ArgReg -> [ArgReg -> 0..255]]

\* The operands of the call, which do not change.
Operands ==
    /\ argsz \in 0..MaxArgs
    /\ args \in [0..(argsz - 1) -> ArgReg \cup {Elsewhere}]
    /\ DOMAIN passed = NrArgRegs..(argsz - 1)

\* A call instruction is made for a function, and at a place, that there are.
CallMade(made) == \E site, fn \in Address : made = <<[site |-> site, fn |-> fn, enters |-> Enters(site, fn)]>>

\* Within a round, moves and waiting arguments are not more than the arguments
\* looked at; and registers are as they were until the graph is made.
CallIInv ==
    /\ Operands
    /\ phase \in {"stack_args", "assign", "other_args", "called"}
    /\ i \in Nat
    /\ dgraph \in Bytes
    /\ resolved \in 0..NrArgRegs
    /\ unresolved \in 0..NrArgRegs
    /\ spill \in Int
    /\ DOMAIN areg = ArgReg
    /\ phase = "stack_args" => areg = [r \in ArgReg |-> Held(r)] /\ resolved = 0 /\ unresolved = 0
    /\ phase = "assign" => i \in 0..NrArgRegs /\ resolved <= i /\ unresolved <= i
    /\ WaitersIntact
    /\ phase = "called" => CallMade(call)

-----------------------------------------------------------------------------
\* Division by the size of a region.
LEMMA Divided ==
    ASSUME NEW a \in Nat
    PROVE  /\ a \div Region \in Nat /\ a % Region \in 0..(Region - 1)
           /\ a = (a \div Region) * Region + (a % Region)
OBVIOUS

LEMMA DivisionUnique ==
    ASSUME NEW p \in Nat, NEW q \in Nat, NEW r \in 0..(Region - 1), NEW s \in 0..(Region - 1),
           p * Region + r = q * Region + s
    PROVE  p = q
<1>1. ASSUME NEW m \in Nat, NEW n \in Nat, m < n PROVE m * Region + Region <= n * Region
  <2>1. (n - m - 1) * Region \in Nat /\ n * Region = (n - m - 1) * Region + m * Region + Region
    BY <1>1
  <2>2. m * Region \in Nat /\ n * Region \in Nat
    OBVIOUS
  <2> QED BY <2>1, <2>2
<1>2. p * Region \in Nat /\ q * Region \in Nat
  OBVIOUS
<1>3. ~(p < q)
  BY <1>1, <1>2
<1>4. ~(q < p)
  BY <1>1, <1>2
<1> QED BY <1>3, <1>4

\* The next place is in the same region unless it is the first of another one.
LEMMA SameRegion ==
    ASSUME NEW a \in Nat, (a + 1) % Region # 0
    PROVE  RegionOf(a + 1) = RegionOf(a)
<1> DEFINE p == (a + 1) \div Region  r == (a + 1) % Region
           q == a \div Region  s == a % Region
<1>1. p \in Nat /\ r \in 0..(Region - 1) /\ a + 1 = p * Region + r
  BY Divided
<1>2. q \in Nat /\ s \in 0..(Region - 1) /\ a = q * Region + s
  BY Divided
<1>3. r # 0
  OBVIOUS
<1> HIDE DEF p, q, r, s
<1>4. p * Region \in Nat /\ q * Region \in Nat
  BY <1>1, <1>2
<1>5. r - 1 \in 0..(Region - 1) /\ p * Region + (r - 1) = q * Region + s
  BY <1>1, <1>2, <1>3, <1>4
<1>6. p = q
  BY <1>1, <1>2, <1>5, DivisionUnique
<1> QED BY <1>6 DEF p, q, RegionOf

LEMMA EntersPlace ==
    ASSUME NEW site \in Address, NEW fn \in Address
    PROVE  Enters(site, fn) \in Nat
<1>1. site + 1 \in Nat /\ fn \in Nat
  OBVIOUS
<1>2. (site + 1) \div Region \in Nat /\ fn % Region \in Nat
  BY <1>1, Divided
<1>3. ((site + 1) \div Region) * Region \in Nat
  BY <1>2
<1> QED BY <1>1, <1>2, <1>3 DEF Enters, JalEnters, JalField, RegionOf

\* A direct call enters its function if its delay slot is in its region.
LEMMA DirectCallEnters ==
    ASSUME NEW site \in Address, NEW fn \in Address, (site + 1) % Region # 0
    PROVE  Enters(site, fn) = fn
<1>1. CASE IsSafeDirectCall(site, fn)
  <2>1. RegionOf(site + 1) = RegionOf(fn)
    BY <1>1, SameRegion DEF IsSafeDirectCall
  <2>2. fn = RegionOf(fn) * Region + (fn % Region)
    BY Divided DEF RegionOf
  <2> QED BY <1>1, <2>1, <2>2 DEF Enters, JalEnters, JalField
<1>2. CASE ~IsSafeDirectCall(site, fn)
  BY <1>2 DEF Enters
<1> QED BY <1>1, <1>2

-----------------------------------------------------------------------------
LEMMA TypesKept == CallIInv => StaticCallTypeOK
<1> SUFFICES ASSUME CallIInv PROVE StaticCallTypeOK
  OBVIOUS
<1>1. phase = "called" => call[1] \in [site : Address, fn : Address, enters : Nat]
  BY EntersPlace DEF CallIInv, CallMade
<1> QED BY <1>1 DEF CallIInv, StaticCallTypeOK, Operands, Bytes

LEMMA OperandsKept ==
    ASSUME CallIInv, UNCHANGED <<argsz, args>>, DOMAIN passed' = DOMAIN passed
    PROVE  Operands'
BY DEF CallIInv, Operands

\* The source of an argument that waits is a register it waits for.
LEMMA SourceWaits ==
    ASSUME NEW r \in ArgReg, Waits(r), dgraph \in Bytes
    PROVE  Source(r) \in ArgReg /\ dgraph[r][Source(r)] # 0
<1> DEFINE waits == {c \in ArgReg : dgraph[r][c] # 0}
<1>1. waits # {} /\ waits \subseteq Nat
  BY DEF Waits, ArgReg
<1> DEFINE less == OpToRel(<, Nat)
<1>2. \E c \in waits : \A d \in waits : c <= d
  <2>1. \A d, e \in Nat : d < e => <<d, e>> \in less
    BY DEF OpToRel
  <2>2. IsWellFoundedOn(less, Nat)
    BY NatLessThanWellFounded
  <2> HIDE DEF waits, less
  <2>3. PICK c \in waits : \A d \in waits \ {c} : <<d, c>> \notin less
    BY <1>1, <2>2, WFMin
  <2>4. ASSUME NEW d \in waits PROVE c <= d
    <3>1. c \in Nat /\ d \in Nat
      BY <1>1
    <3>2. d = c \/ ~(d < c)
      BY <2>1, <2>3, <3>1
    <3> QED BY <3>1, <3>2
  <2> QED BY <2>4
<1>3. \E c \in ArgReg : dgraph[r][c] # 0 /\ \A d \in ArgReg : dgraph[r][d] # 0 => c <= d
  BY <1>2
<1> QED BY <1>3 DEF Source

LEMMA InitCallIInv == StaticCallInit => CallIInv
BY DEF StaticCallInit, CallIInv, Operands, WaitersIntact, ArgReg, Bytes

LEMMA StoreStackArgStep == ASSUME CallIInv, StoreStackArg PROVE CallIInv'
<1>1. Operands'
  BY OperandsKept DEF StoreStackArg
<1>2. WaitersIntact'
  BY DEF CallIInv, WaitersIntact, StoreStackArg, Bytes, ArgReg
<1> QED BY <1>1, <1>2 DEF CallIInv, StoreStackArg

LEMMA MakeGraphStep == ASSUME CallIInv, MakeGraph PROVE CallIInv'
<1>1. Operands'
  BY OperandsKept DEF MakeGraph
<1>2. WaitersIntact'
  BY DEF CallIInv, WaitersIntact, MakeGraph, Bytes, ArgReg
<1> QED BY <1>1, <1>2 DEF CallIInv, MakeGraph, Bytes

LEMMA AssignNothingStep == ASSUME CallIInv, AssignNothing PROVE CallIInv'
<1>1. Operands'
  BY OperandsKept DEF AssignNothing
<1>2. WaitersIntact'
  BY DEF CallIInv, WaitersIntact, AssignNothing
<1> QED BY <1>1, <1>2 DEF CallIInv, AssignNothing

LEMMA AssignWaitStep == ASSUME CallIInv, AssignWait PROVE CallIInv'
<1>1. Operands'
  BY OperandsKept DEF AssignWait
<1>2. WaitersIntact'
  BY DEF CallIInv, WaitersIntact, AssignWait
<1> QED BY <1>1, <1>2 DEF CallIInv, AssignWait

LEMMA AssignMoveStep == ASSUME CallIInv, AssignMove PROVE CallIInv'
<1>1. phase = "assign" /\ i \in Nat /\ i < NrArgRegs /\ FreeToMove(i)
  BY DEF AssignMove, CallIInv
<1>2. i \in ArgReg
  BY <1>1 DEF ArgReg
<1>3. \A r \in ArgReg \ {i} : dgraph[r][i] = 0
  BY <1>1 DEF FreeToMove, NoneWaitsFor
<1>4. /\ i \in ArgReg
      /\ areg' = [areg EXCEPT ![i] = Moved(i)]
      /\ dgraph' = [dgraph EXCEPT ![i][Source(i)] = 0]
      /\ resolved' = resolved + 1 /\ i' = i + 1 /\ phase = "assign"
      /\ \A r \in ArgReg \ {i} : dgraph[r][i] = 0
      /\ UNCHANGED <<argsz, args, phase, unresolved, spill, passed>>
  BY <1>1, <1>2, <1>3 DEF AssignMove
<1>5. Source(i) \in ArgReg /\ dgraph \in Bytes /\ DOMAIN areg = ArgReg
  BY SourceWaits, <1>4 DEF AssignMove, CallIInv
<1>6. /\ dgraph' \in Bytes
      /\ \A r, c \in ArgReg : dgraph'[r][c] # 0 => dgraph[r][c] # 0
  BY <1>4, <1>5 DEF Bytes
<1>7. DOMAIN areg' = ArgReg /\ \A c \in ArgReg : c # i => areg'[c] = areg[c]
  BY <1>4, <1>5
<1>8. WaitersIntact'
  <2>1. ASSUME NEW r \in ArgReg, NEW c \in ArgReg, r # c, dgraph'[r][c] # 0
        PROVE  areg'[c] = Held(c)
    <3>1. dgraph[r][c] # 0
      BY <1>6, <2>1
    <3>2. areg[c] = Held(c)
      BY <1>4, <2>1, <3>1 DEF CallIInv, WaitersIntact
    <3>3. c # i
      BY <1>4, <2>1, <3>1
    <3> QED BY <1>7, <3>2, <3>3
  <2> QED BY <2>1 DEF WaitersIntact
<1>9. Operands'
  BY <1>4, OperandsKept
<1>10. resolved <= i /\ i \in 0..(NrArgRegs - 1) /\ resolved \in Nat /\ unresolved <= i
  BY <1>4 DEF CallIInv, ArgReg
<1>11. unresolved \in 0..NrArgRegs /\ spill \in Int
  BY DEF CallIInv
<1>12. /\ i' \in Nat /\ i' \in 0..NrArgRegs /\ resolved' \in 0..NrArgRegs /\ resolved' <= i'
       /\ unresolved' \in 0..NrArgRegs /\ unresolved' <= i' /\ spill' \in Int
  <2>1. i' = i + 1 /\ resolved' = resolved + 1 /\ unresolved' = unresolved /\ spill' = spill
    BY <1>4
  <2> QED BY <1>10, <1>11, <2>1
<1>13. ~(phase' = "stack_args") /\ ~(phase' = "called") /\ phase' \in {"stack_args", "assign", "other_args", "called"}
  BY <1>4
<1>14. dgraph' \in Bytes /\ DOMAIN areg' = ArgReg
  BY <1>6, <1>7
<1> QED BY ONLY <1>8, <1>9, <1>12, <1>13, <1>14 DEF CallIInv

LEMMA RedirectedGraph ==
    ASSUME NEW v \in ArgReg, NEW off \in Int, dgraph \in Bytes
    PROVE  /\ Redirected(v, off) \in Bytes
           /\ \A r, c \in ArgReg : r # c /\ Redirected(v, off)[r][c] # 0 => dgraph[r][c] # 0
BY DEF Redirected, Bytes

LEMMA EndRoundStep == ASSUME CallIInv, EndRound PROVE CallIInv'
<1>1. dgraph \in Bytes /\ spill \in Int /\ unresolved \in 0..NrArgRegs /\ phase = "assign"
  BY DEF CallIInv, EndRound
<1>2. /\ dgraph' \in Bytes /\ spill' \in Int
      /\ \A r, c \in ArgReg : r # c /\ dgraph'[r][c] # 0 => dgraph[r][c] # 0
  <2>1. CASE Cycle
    <3>1. unresolved - 1 \in ArgReg /\ spill - 4 \in Int
      BY <1>1, <2>1 DEF Cycle, ArgReg
    <3>2. dgraph' = Redirected(unresolved - 1, spill - 4) /\ spill' = spill - 4
      BY <2>1 DEF EndRound
    <3> QED BY <1>1, <3>1, <3>2, RedirectedGraph
  <2>2. CASE ~Cycle
    BY <1>1, <2>2 DEF EndRound
  <2> QED BY <2>1, <2>2
<1>3. /\ phase' \in {"assign", "other_args"} /\ i' = 0 /\ resolved' = 0 /\ unresolved' = 0
      /\ UNCHANGED <<argsz, args, areg, passed>>
  BY DEF EndRound
<1>4. WaitersIntact'
  BY <1>1, <1>2, <1>3 DEF CallIInv, WaitersIntact
<1>5. Operands'
  BY <1>3, OperandsKept
<1> QED BY <1>2, <1>3, <1>4, <1>5 DEF CallIInv

LEMMA LoadOtherStep == ASSUME CallIInv, LoadOther PROVE CallIInv'
<1>1. Operands'
  BY OperandsKept DEF LoadOther
<1>2. WaitersIntact'
  BY DEF CallIInv, WaitersIntact, LoadOther
<1> QED BY <1>1, <1>2 DEF CallIInv, LoadOther

LEMMA CallStep == ASSUME CallIInv, Call PROVE CallIInv'
<1>1. Operands'
  BY OperandsKept DEF Call
<1>2. WaitersIntact'
  BY DEF CallIInv, WaitersIntact, Call
<1>3. CallMade(call')
  BY DEF Call, CallMade
<1> QED BY <1>1, <1>2, <1>3 DEF CallIInv, Call

LEMMA NextCallIInv == CallIInv /\ [StaticCallNext]_staticCallVars => CallIInv'
<1> SUFFICES ASSUME CallIInv, [StaticCallNext]_staticCallVars PROVE CallIInv'
  OBVIOUS
<1>1. CASE UNCHANGED staticCallVars
  BY <1>1, OperandsKept DEF staticCallVars, CallIInv, WaitersIntact
<1>2. CASE StaticCallNext
  BY <1>2, StoreStackArgStep, MakeGraphStep, AssignNothingStep, AssignMoveStep, AssignWaitStep,
     EndRoundStep, LoadOtherStep, CallStep DEF StaticCallNext
<1> QED BY <1>1, <1>2

LEMMA AlwaysCallIInv == StaticCallSpec => []CallIInv
BY InitCallIInv, NextCallIInv, PTL DEF StaticCallSpec

\* The registers, the graph and the counters of the rounds stay within their
\* ranges (src/arch/mips/call.c:143).
THEOREM StaticCallTypeCorrect == StaticCallSpec => []StaticCallTypeOK
BY TypesKept, AlwaysCallIInv, PTL

\* No register is overwritten while another argument still has to be taken
\* from it, with any number of registers (src/arch/mips/call.c:158).
THEOREM WaitersStayIntact == StaticCallSpec => []WaitersIntact
<1>1. CallIInv => WaitersIntact
  BY DEF CallIInv
<1> QED BY <1>1, AlwaysCallIInv, PTL

\* A call enters the function it is a call of, whatever the size of a region and
\* wherever the code is, but for one that ends a region
\* (src/arch/mips/call.c:267).
THEOREM CallsEnterFunctions == StaticCallSpec => []CallEntersFunction
<1>1. CallIInv => CallEntersFunction
  <2> SUFFICES ASSUME CallIInv, phase = "called", call[1].enters # call[1].fn
               PROVE  (call[1].site + 1) % Region = 0
    BY DEF CallEntersFunction
  <2>1. PICK site, fn \in Address : call = <<[site |-> site, fn |-> fn, enters |-> Enters(site, fn)]>>
    BY DEF CallIInv, CallMade
  <2> QED BY <2>1, DirectCallEnters
<1> QED BY <1>1, AlwaysCallIInv, PTL

-----------------------------------------------------------------------------
(***************************************************************************)
(* That the arguments arrive.  An argument waits for one register: the one *)
(* its operand is in, until it is redirected; only arguments that trade    *)
(* places ever are.                                                        *)
(***************************************************************************)
Rows ==
    phase = "assign" =>
        \A r, c \in ArgReg : dgraph[r][c] # 0 =>
            /\ r \in RegArgs
            /\ c = args[r] \/ (c = r /\ OnCycle(r))
            /\ \A d \in ArgReg : dgraph[r][d] # 0 => d = c

\* The operand of an argument is waited for, or is where it has to be.
Done ==
    phase # "stack_args" =>
        \A r \in RegArgs : args[r] # Elsewhere /\ ~OnCycle(r) =>
            (phase = "assign" /\ dgraph[r][args[r]] # 0) \/ areg[r] = Held(args[r])

\* What a round that has moved nothing, or passed over nothing, has seen.
Round ==
    phase = "assign" =>
        /\ resolved = 0 => \A j \in ArgReg : j < i /\ Waits(j) => ~NoneWaitsFor(j)
        /\ unresolved = 0 => \A j \in ArgReg : j < i => ~Waits(j)

Loaded ==
    phase \in {"other_args", "called"} =>
        \A n \in RegArgs : args[n] = Elsewhere /\ (n < i \/ phase = "called") => areg[n] = Own(n)

Stored ==
    \A n \in NrArgRegs..(argsz - 1) : n < i \/ phase # "stack_args" => passed[n] = Expected(n)

DInv == CallIInv /\ Rows /\ Done /\ Round /\ Loaded /\ Stored

LEMMA CyclesKept ==
    ASSUME UNCHANGED <<argsz, args>>
    PROVE  /\ RegArgs' = RegArgs
           /\ \A n : OnCycle(n)' <=> OnCycle(n)
           /\ \A n : Expected(n)' = Expected(n)
BY DEF RegArgs, OnCycle, Expected

LEMMA RegArgFacts ==
    ASSUME Operands, NEW n \in RegArgs
    PROVE  /\ n \in ArgReg /\ n \in 0..(argsz - 1)
           /\ args[n] # Elsewhere => args[n] \in ArgReg
           /\ args[n] = n => OnCycle(n)
<1>1. n \in ArgReg /\ n \in 0..(argsz - 1)
  BY DEF RegArgs, Operands, ArgReg
<1>2. args[n] # Elsewhere => args[n] \in ArgReg
  BY <1>1 DEF Operands
<1>3. ASSUME args[n] = n PROVE OnCycle(n)
  <2>1. {n} \in SUBSET RegArgs /\ n \in {n} /\ {args[m] : m \in {n}} = {n}
    BY <1>3
  <2> QED BY <2>1 DEF OnCycle
<1> QED BY <1>1, <1>2, <1>3

\* An argument that waits, waits for its source and for nothing else.
LEMMA WaitsForSource ==
    ASSUME DInv, phase = "assign", NEW r \in ArgReg, Waits(r)
    PROVE  /\ r \in RegArgs /\ Source(r) \in ArgReg
           /\ Source(r) = args[r] \/ (Source(r) = r /\ OnCycle(r))
           /\ \A d \in ArgReg : dgraph[r][d] # 0 <=> d = Source(r)
<1>1. Source(r) \in ArgReg /\ dgraph[r][Source(r)] # 0
  BY SourceWaits DEF DInv, CallIInv
<1> QED BY <1>1 DEF DInv, Rows

-----------------------------------------------------------------------------
\* When every waiting argument is in the way of another one, they trade places:
\* as many as wait are waited for, so each waits for another of them.
LEMMA AllOnCycle ==
    ASSUME DInv, phase = "assign",
           \A j \in ArgReg : Waits(j) => ~NoneWaitsFor(j)
    PROVE  \A r \in ArgReg : Waits(r) => OnCycle(r)
<1> DEFINE W == {r \in ArgReg : Waits(r)}
           g == [c \in W |-> CHOOSE r \in W : r # c /\ Source(r) = c]
<1>1. \A r \in W : /\ r \in ArgReg /\ r \in RegArgs
                   /\ Source(r) = args[r] \/ Source(r) = r
  BY WaitsForSource
<1>2. ASSUME NEW c \in W PROVE g[c] \in W /\ g[c] # c /\ Source(g[c]) = c
  <2>1. PICK r \in ArgReg \ {c} : dgraph[r][c] # 0
    BY DEF NoneWaitsFor
  <2>2. Waits(r)
    BY <2>1 DEF Waits
  <2>3. Source(r) = c
    BY <2>1, <2>2, WaitsForSource
  <2>4. \E x \in W : x # c /\ Source(x) = c
    BY <2>1, <2>2, <2>3
  <2>5. g[c] = CHOOSE x \in W : x # c /\ Source(x) = c
    OBVIOUS
  <2> HIDE DEF g, W
  <2> QED BY <2>4, <2>5
<1>3. g \in [W -> W]
  BY <1>2
<1> HIDE DEF g
<1>4. \A a, b \in W : g[a] = g[b] => a = b
  BY <1>2
<1>5. IsFiniteSet(W)
  <2>1. IsFiniteSet(ArgReg)
    BY FS_Interval DEF ArgReg
  <2>2. W \subseteq ArgReg
    OBVIOUS
  <2> HIDE DEF W
  <2> QED BY <2>1, <2>2, FS_Subset
<1> HIDE DEF W
<1>6. g \in Injection(W, W)
  BY <1>3, <1>4, Fun_IsInj
<1>7. g \in Surjection(W, W)
  BY <1>5, <1>6, FS_Injection
<1>8. \A r \in W : \E c \in W : g[c] = r
  BY <1>7, Fun_SurjectionProperties
<1>9. ASSUME NEW r \in W PROVE args[r] \in W
  <2>1. PICK c \in W : g[c] = r
    BY <1>8
  <2>2. Source(r) = c /\ r # c
    BY <1>2, <2>1
  <2> QED BY <1>1, <2>2
<1>10. ASSUME NEW c \in W PROVE \E r \in W : args[r] = c
  <2>1. g[c] \in W /\ g[c] # c /\ Source(g[c]) = c
    BY <1>2
  <2> QED BY <1>1, <2>1
<1>11. W \in SUBSET RegArgs /\ {args[m] : m \in W} = W
  BY <1>1, <1>9, <1>10
<1>12. \A r \in W : OnCycle(r)
  BY <1>11 DEF OnCycle
<1> QED BY <1>12 DEF W

-----------------------------------------------------------------------------
LEMMA InitDInv == StaticCallInit => DInv
<1> SUFFICES ASSUME StaticCallInit PROVE DInv
  OBVIOUS
<1>1. CallIInv
  BY InitCallIInv
<1>2. phase = "stack_args" /\ i = NrArgRegs
  BY DEF StaticCallInit
<1>3. Stored
  BY <1>1, <1>2 DEF Stored, CallIInv, Operands
<1> QED BY <1>1, <1>2, <1>3 DEF DInv, Rows, Done, Round, Loaded

LEMMA StoreStackArgDelivers == ASSUME DInv, StoreStackArg PROVE DInv'
<1>1. CallIInv'
  BY StoreStackArgStep DEF DInv
<1>2. /\ phase = "stack_args" /\ phase' = phase /\ i < argsz /\ i' = i + 1 /\ i \in Nat
      /\ passed' = [passed EXCEPT ![i] = Value(i)]
      /\ UNCHANGED <<argsz, args>>
  BY DEF StoreStackArg, DInv, CallIInv
<1>3. Stored'
  <2>1. ASSUME NEW n \in NrArgRegs..(argsz - 1), n < i + 1 PROVE passed'[n] = Expected(n)
    <3>1. CASE n < i
      <4>1. passed[n] = Expected(n)
        BY <3>1 DEF DInv, Stored
      <4>2. passed'[n] = passed[n]
        BY <1>2, <3>1 DEF DInv, CallIInv, Operands
      <4> QED BY <4>1, <4>2
    <3>2. CASE n = i
      <4>1. passed'[n] = Value(n)
        BY <1>2, <3>2 DEF DInv, CallIInv, Operands
      <4>2. args[n] \in ArgReg \cup {Elsewhere}
        BY DEF DInv, CallIInv, Operands
      <4>3. areg = [r \in ArgReg |-> Held(r)]
        BY <1>2 DEF DInv, CallIInv
      <4> QED BY <4>1, <4>2, <4>3 DEF Value, Expected
    <3> QED BY <1>2, <2>1, <3>1, <3>2 DEF DInv, CallIInv, Operands
  <2>2. \A n : Expected(n)' = Expected(n)
    BY <1>2, CyclesKept
  <2> QED BY <1>2, <2>1, <2>2 DEF Stored
<1> QED BY <1>1, <1>2, <1>3 DEF DInv, Rows, Done, Round, Loaded

LEMMA MakeGraphDelivers == ASSUME DInv, MakeGraph PROVE DInv'
<1>1. CallIInv'
  BY MakeGraphStep DEF DInv
<1>2. /\ phase = "stack_args" /\ phase' = "assign" /\ i >= argsz /\ i' = 0 /\ i \in Nat
      /\ dgraph' = [r \in ArgReg |-> [c \in ArgReg |->
                       IF r \in RegArgs /\ args[r] = c THEN 1 ELSE 0]]
      /\ UNCHANGED <<argsz, args, passed>>
  BY DEF MakeGraph, DInv, CallIInv
<1>3. /\ RegArgs' = RegArgs /\ \A n : OnCycle(n)' <=> OnCycle(n)
      /\ \A n : Expected(n)' = Expected(n)
  BY <1>2, CyclesKept
<1>4. Rows'
  BY <1>2, <1>3 DEF Rows
<1>5. Done'
  <2>1. ASSUME NEW r \in RegArgs, args[r] # Elsewhere PROVE dgraph'[r][args[r]] # 0
    <3>1. r \in ArgReg /\ args[r] \in ArgReg
      BY <2>1, RegArgFacts DEF DInv, CallIInv
    <3> QED BY <1>2, <3>1
  <2> QED BY <1>2, <1>3, <2>1 DEF Done
<1>6. Round'
  BY <1>2 DEF Round, ArgReg
<1>7. Stored'
  BY <1>2, <1>3 DEF DInv, Stored, CallIInv, Operands
<1> QED BY <1>1, <1>2, <1>4, <1>5, <1>6, <1>7 DEF DInv, Loaded

\* The two steps of a round that change only its index and its counters.
LEMMA LookedAtDelivers == ASSUME DInv, AssignNothing \/ AssignWait PROVE DInv'
<1>1. CallIInv'
  BY AssignNothingStep, AssignWaitStep DEF DInv
<1>2. /\ phase = "assign" /\ i' = i + 1 /\ i \in ArgReg
      /\ UNCHANGED <<argsz, args, phase, dgraph, resolved, areg, passed>>
  BY DEF AssignNothing, AssignWait, DInv, CallIInv, ArgReg
<1>3. /\ RegArgs' = RegArgs /\ \A n : OnCycle(n)' <=> OnCycle(n)
      /\ \A n : Expected(n)' = Expected(n)
  BY <1>2, CyclesKept
<1>4. \A r : (Waits(r)' <=> Waits(r)) /\ (NoneWaitsFor(r)' <=> NoneWaitsFor(r))
  BY <1>2 DEF Waits, NoneWaitsFor
<1>5. Rows'
  BY <1>2, <1>3 DEF DInv, Rows
<1>6. Done'
  BY <1>2, <1>3 DEF DInv, Done
<1>7. Round'
  <2>1. \/ ~Waits(i) /\ unresolved' = unresolved
        \/ ~NoneWaitsFor(i) /\ unresolved' = i + 1 /\ unresolved' # 0
    BY <1>2 DEF AssignNothing, AssignWait, FreeToMove, ArgReg
  <2>2. ASSUME NEW j \in ArgReg, j < i + 1 PROVE j < i \/ j = i
    BY <1>2, <2>2 DEF ArgReg
  <2> QED BY <1>2, <1>4, <2>1, <2>2 DEF DInv, Round
<1>8. Stored'
  BY <1>2, <1>3 DEF DInv, Stored
<1> QED BY <1>1, <1>2, <1>5, <1>6, <1>7, <1>8 DEF DInv, Loaded

\* A move takes the argument from a register that nothing has been moved to.
LEMMA AssignMoveDelivers == ASSUME DInv, AssignMove PROVE DInv'
<1>1. CallIInv'
  BY AssignMoveStep DEF DInv
<1>2. /\ phase = "assign" /\ i' = i + 1 /\ i \in ArgReg /\ Waits(i)
      /\ areg' = [areg EXCEPT ![i] = Moved(i)] /\ DOMAIN areg = ArgReg
      /\ dgraph' = [dgraph EXCEPT ![i][Source(i)] = 0] /\ dgraph \in Bytes
      /\ resolved' = resolved + 1 /\ resolved \in Nat
      /\ UNCHANGED <<argsz, args, phase, unresolved, passed>>
  <2>1. /\ phase = "assign" /\ i < NrArgRegs /\ i' = i + 1 /\ Waits(i)
        /\ areg' = [areg EXCEPT ![i] = Moved(i)]
        /\ dgraph' = [dgraph EXCEPT ![i][Source(i)] = 0]
        /\ resolved' = resolved + 1
        /\ UNCHANGED <<argsz, args, phase, unresolved, passed>>
    BY DEF AssignMove
  <2>2. DOMAIN areg = ArgReg /\ dgraph \in Bytes /\ resolved \in Nat /\ i \in Nat
    <3>1. DOMAIN areg = ArgReg /\ dgraph \in Bytes
      BY DEF DInv, CallIInv
    <3>2. resolved \in 0..NrArgRegs /\ i \in 0..NrArgRegs
      BY <2>1 DEF DInv, CallIInv
    <3> QED BY <3>1, <3>2
  <2>3. i \in ArgReg
    <3>1. i < NrArgRegs /\ i \in Nat
      BY <2>1, <2>2
    <3> QED BY <3>1 DEF ArgReg
  <2> QED BY <2>1, <2>2, <2>3
<1>3. /\ RegArgs' = RegArgs /\ \A n : OnCycle(n)' <=> OnCycle(n)
      /\ \A n : Expected(n)' = Expected(n)
  BY <1>2, CyclesKept
<1>4. /\ i \in RegArgs /\ Source(i) \in ArgReg
      /\ Source(i) = args[i] \/ (Source(i) = i /\ OnCycle(i))
      /\ \A d \in ArgReg : dgraph[i][d] # 0 <=> d = Source(i)
  BY <1>2, WaitsForSource
<1>5. /\ \A d \in ArgReg : dgraph'[i][d] = 0
      /\ \A r \in ArgReg : r # i => dgraph'[r] = dgraph[r]
      /\ \A r \in ArgReg : r # i => areg'[r] = areg[r]
  BY <1>2, <1>4 DEF Bytes
<1>6. Rows'
  BY <1>2, <1>3, <1>5 DEF DInv, Rows
<1>7. Done'
  <2>1. ASSUME NEW r \in RegArgs, args[r] # Elsewhere, ~OnCycle(r)
        PROVE  dgraph'[r][args[r]] # 0 \/ areg'[r] = Held(args[r])
    <3>1. r \in ArgReg
      BY RegArgFacts DEF DInv, CallIInv
    <3>2. CASE r = i
      <4>1. Source(i) = args[i] /\ args[i] # i /\ args[i] \in ArgReg
        BY <1>4, <2>1, <3>2, RegArgFacts DEF DInv, CallIInv
      <4>2. dgraph[i][args[i]] # 0
        BY <1>4, <4>1
      <4>3. areg[args[i]] = Held(args[i])
        BY <1>2, <4>1, <4>2 DEF DInv, CallIInv, WaitersIntact
      <4>4. areg'[i] = areg[args[i]]
        BY <1>2, <4>1 DEF Moved
      <4> QED BY <3>2, <4>3, <4>4
    <3>3. CASE r # i
      BY <1>2, <1>5, <2>1, <3>1, <3>3 DEF DInv, Done
    <3> QED BY <3>2, <3>3
  <2> QED BY <1>2, <1>3, <2>1 DEF Done
<1>8. Round'
  <2>1. ASSUME NEW j \in ArgReg, j < i + 1, unresolved = 0 PROVE ~Waits(j)'
    <3>1. CASE j = i
      BY <1>5, <3>1 DEF Waits
    <3>2. CASE j < i
      <4>1. ~Waits(j) /\ j # i
        BY <1>2, <2>1, <3>2 DEF DInv, Round, ArgReg
      <4> QED BY <1>5, <4>1 DEF Waits
    <3>3. i \in Int /\ j \in Int
      BY <1>2 DEF ArgReg
    <3>4. j = i \/ j < i
      BY ONLY <2>1, <3>3
    <3> QED BY ONLY <3>1, <3>2, <3>4
  <2>2. resolved' # 0
    BY <1>2
  <2> QED BY <1>2, <2>1, <2>2 DEF Round
<1>9. Stored'
  BY <1>2, <1>3 DEF DInv, Stored
<1> QED BY <1>1, <1>2, <1>6, <1>7, <1>8, <1>9 DEF DInv, Loaded

\* A round that changes something for arguments that wait changes it only for
\* those that trade places; and the last round leaves none waiting.
LEMMA EndRoundDelivers == ASSUME DInv, EndRound PROVE DInv'
<1>1. CallIInv'
  BY EndRoundStep DEF DInv
<1>2. /\ phase = "assign" /\ i = NrArgRegs /\ i' = 0 /\ dgraph \in Bytes
      /\ phase' = IF unresolved # 0 THEN "assign" ELSE "other_args"
      /\ UNCHANGED <<argsz, args, areg, passed>>
  BY DEF EndRound, DInv, CallIInv
<1>3. /\ RegArgs' = RegArgs /\ \A n : OnCycle(n)' <=> OnCycle(n)
      /\ \A n : Expected(n)' = Expected(n)
  BY <1>2, CyclesKept
<1>4. \A j \in ArgReg : j < i
  BY <1>2 DEF ArgReg
<1>5. Round'
  BY <1>2 DEF Round, ArgReg
<1>6. Stored'
  BY <1>2, <1>3 DEF DInv, Stored
<1>7. Loaded'
  BY <1>2, RegArgFacts DEF Loaded, ArgReg, RegArgs
<1>8. Rows' /\ Done'
  <2>1. CASE unresolved = 0
    <3>1. \A j \in ArgReg : ~Waits(j)
      BY <1>2, <1>4, <2>1 DEF DInv, Round
    <3>2. \A r \in RegArgs : args[r] # Elsewhere => dgraph[r][args[r]] = 0
      BY <3>1, RegArgFacts DEF Waits, DInv, CallIInv
    <3> QED BY <1>2, <1>3, <2>1, <3>2 DEF DInv, Rows, Done
  <2>2. CASE unresolved # 0 /\ ~Cycle
    <3>1. dgraph' = dgraph
      BY <2>2 DEF EndRound
    <3> QED BY <1>2, <1>3, <2>2, <3>1 DEF DInv, Rows, Done
  <2>3. CASE Cycle
    <3>1. \A r \in ArgReg : Waits(r) => OnCycle(r)
      <4>1. \A j \in ArgReg : Waits(j) => ~NoneWaitsFor(j)
        BY <1>2, <1>4, <2>3 DEF DInv, Round, Cycle
      <4> QED BY <1>2, <4>1, AllOnCycle
    <3>2. PICK v \in ArgReg, off \in Int : dgraph' = Redirected(v, off)
      <4>1. unresolved - 1 \in ArgReg /\ spill - 4 \in Int
        BY <2>3 DEF Cycle, ArgReg, DInv, CallIInv
      <4> QED BY <2>3, <4>1 DEF EndRound
    <3>3. ASSUME NEW r \in ArgReg, NEW c \in ArgReg, dgraph'[r][c] # 0
          PROVE  /\ r \in RegArgs
                 /\ c = args[r] \/ (c = r /\ OnCycle(r))
                 /\ \A d \in ArgReg : dgraph'[r][d] # 0 => d = c
      <4>1. CASE Waits(r) /\ Source(r) = v
        <5>1. \A d \in ArgReg : dgraph[r][d] # 0 <=> d = v
          BY <1>2, <4>1, WaitsForSource
        <5>2. dgraph'[r] = [[dgraph[r] EXCEPT ![v] = 0] EXCEPT ![r] = off % 256]
          BY <3>2, <4>1 DEF Redirected
        <5>3. \A d \in ArgReg : dgraph'[r][d] # 0 => d = r
          BY <1>2, <5>1, <5>2 DEF Bytes
        <5> QED BY <1>2, <3>1, <3>3, <4>1, <5>3, WaitsForSource
      <4>2. CASE ~(Waits(r) /\ Source(r) = v)
        <5>1. dgraph'[r] = dgraph[r]
          BY <3>2, <4>2 DEF Redirected
        <5> QED BY <1>2, <3>3, <5>1 DEF DInv, Rows
      <4> QED BY <4>1, <4>2
    <3>4. Rows'
      <4> SUFFICES ASSUME NEW r \in ArgReg, NEW c \in ArgReg, dgraph'[r][c] # 0
                   PROVE  /\ r \in RegArgs'
                          /\ c = args'[r] \/ (c = r /\ OnCycle(r)')
                          /\ \A d \in ArgReg : dgraph'[r][d] # 0 => d = c
        BY DEF Rows, ArgReg
      <4>1. args' = args
        BY <1>2
      <4> QED BY <1>3, <3>3, <4>1
    <3>5. ASSUME NEW r \in RegArgs, args[r] # Elsewhere, ~OnCycle(r)
          PROVE  areg'[r] = Held(args[r])
      <4>1. r \in ArgReg /\ args[r] \in ArgReg
        BY <3>5, RegArgFacts DEF DInv, CallIInv
      <4>2. dgraph[r][args[r]] = 0
        BY <3>1, <3>5, <4>1 DEF Waits
      <4> QED BY <1>2, <3>5, <4>2 DEF DInv, Done
    <3>6. Done'
      BY <1>2, <1>3, <3>5 DEF Done
    <3> QED BY <3>4, <3>6
  <2> QED BY <2>1, <2>2, <2>3
<1> QED BY <1>1, <1>5, <1>6, <1>7, <1>8 DEF DInv

LEMMA LoadOtherDelivers == ASSUME DInv, LoadOther PROVE DInv'
<1>1. CallIInv'
  BY LoadOtherStep DEF DInv
<1>2. /\ phase = "other_args" /\ i \in RegArgs /\ i' = i + 1 /\ i \in ArgReg
      /\ areg' = IF args[i] = Elsewhere THEN [areg EXCEPT ![i] = Own(i)] ELSE areg
      /\ DOMAIN areg = ArgReg
      /\ UNCHANGED <<argsz, args, phase, passed>>
  BY RegArgFacts DEF LoadOther, DInv, CallIInv
<1>3. /\ RegArgs' = RegArgs /\ \A n : OnCycle(n)' <=> OnCycle(n)
      /\ \A n : Expected(n)' = Expected(n)
  BY <1>2, CyclesKept
<1>4. Done'
  BY <1>2, <1>3 DEF DInv, Done
<1>5. Loaded'
  <2>1. ASSUME NEW n \in RegArgs, args[n] = Elsewhere, n < i + 1 PROVE areg'[n] = Own(n)
    <3>1. CASE n = i
      BY <1>2, <2>1, <3>1
    <3>2. CASE n < i
      <4>1. areg[n] = Own(n) /\ n # i
        BY <1>2, <2>1, <3>2 DEF DInv, Loaded, ArgReg
      <4> QED BY <1>2, <4>1
    <3> QED BY <1>2, <2>1, <3>1, <3>2 DEF RegArgs, ArgReg
  <2> QED BY <1>2, <1>3, <2>1 DEF Loaded
<1>6. Stored'
  BY <1>2, <1>3 DEF DInv, Stored
<1> QED BY <1>1, <1>2, <1>4, <1>5, <1>6 DEF DInv, Rows, Round

LEMMA CallDelivers == ASSUME DInv, Call PROVE DInv'
<1>1. CallIInv'
  BY CallStep DEF DInv
<1>2. /\ phase = "other_args" /\ phase' = "called" /\ i \notin RegArgs /\ i \in Nat
      /\ UNCHANGED <<argsz, args, areg, passed, i>>
  BY DEF Call, DInv, CallIInv
<1>3. /\ RegArgs' = RegArgs /\ \A n : OnCycle(n)' <=> OnCycle(n)
      /\ \A n : Expected(n)' = Expected(n)
  BY <1>2, CyclesKept
<1>4. \A n \in RegArgs : n < i
  BY <1>2 DEF RegArgs, ArgReg, DInv, CallIInv, Operands
<1>5. Done'
  BY <1>2, <1>3 DEF DInv, Done
<1>6. Loaded'
  BY <1>2, <1>3, <1>4 DEF DInv, Loaded
<1>7. Stored'
  BY <1>2, <1>3 DEF DInv, Stored
<1> QED BY <1>1, <1>2, <1>5, <1>6, <1>7 DEF DInv, Rows, Round

LEMMA NextDInv == DInv /\ [StaticCallNext]_staticCallVars => DInv'
<1> SUFFICES ASSUME DInv, [StaticCallNext]_staticCallVars PROVE DInv'
  OBVIOUS
<1>1. CASE UNCHANGED staticCallVars
  <2>1. CallIInv'
    BY <1>1, NextCallIInv DEF DInv
  <2>2. UNCHANGED <<argsz, args, phase, i, dgraph, resolved, unresolved, areg, passed>>
    BY <1>1 DEF staticCallVars
  <2>3. /\ RegArgs' = RegArgs /\ \A n : OnCycle(n)' <=> OnCycle(n)
        /\ \A n : Expected(n)' = Expected(n)
    BY <2>2, CyclesKept
  <2>4. \A r : (Waits(r)' <=> Waits(r)) /\ (NoneWaitsFor(r)' <=> NoneWaitsFor(r))
    BY <2>2 DEF Waits, NoneWaitsFor
  <2>5. Rows'
    BY <2>2, <2>3 DEF DInv, Rows
  <2>6. Done'
    BY <2>2, <2>3 DEF DInv, Done
  <2>7. Round'
    BY <2>2, <2>4 DEF DInv, Round
  <2>8. Loaded'
    BY <2>2, <2>3 DEF DInv, Loaded
  <2>9. Stored'
    BY <2>2, <2>3 DEF DInv, Stored
  <2> QED BY <2>1, <2>5, <2>6, <2>7, <2>8, <2>9 DEF DInv
<1>2. CASE StaticCallNext
  BY <1>2, StoreStackArgDelivers, MakeGraphDelivers, LookedAtDelivers, AssignMoveDelivers,
     EndRoundDelivers, LoadOtherDelivers, CallDelivers DEF StaticCallNext
<1> QED BY <1>1, <1>2

\* Every argument whose operand is not among registers that trade places
\* reaches the function, with any number of argument registers and whatever
\* order the moves have to be made in (src/arch/mips/call.c:143).
THEOREM ArgumentsArrive == StaticCallSpec => []ArgumentsDelivered
<1>1. DInv => ArgumentsDelivered
  <2> SUFFICES ASSUME DInv, phase = "called", NEW n \in Args, ~OnCycle(n)
               PROVE  Received(n) = Expected(n)
    BY DEF ArgumentsDelivered
  <2>1. CASE n \in ArgReg
    <3>1. n \in RegArgs
      BY <2>1 DEF Args, RegArgs, DInv, CallIInv, Operands
    <3>2. areg[n] = Expected(n)
      BY <3>1 DEF DInv, Done, Loaded, Expected
    <3> QED BY <2>1, <3>2 DEF Received
  <2>2. CASE n \notin ArgReg
    <3>1. n \in NrArgRegs..(argsz - 1)
      BY <2>2 DEF Args, ArgReg, DInv, CallIInv, Operands
    <3>2. passed[n] = Expected(n)
      BY <3>1 DEF DInv, Stored
    <3> QED BY <2>2, <3>2 DEF Received
  <2> QED BY <2>1, <2>2
<1> QED BY <1>1, InitDInv, NextDInv, PTL DEF StaticCallSpec
=============================================================================
