---------------------------- MODULE LocalsProofs ----------------------------
(***************************************************************************)
(* Theorems about Locals, for any machine whose register table meets       *)
(* RegTableAssumption, and any number of locals; that locals are private,  *)
(* as long as they have different registers.                               *)
(***************************************************************************)
EXTENDS Locals, FiniteSetTheorems, SequenceTheorems, WellFoundedInduction, TLAPS

-----------------------------------------------------------------------------
(* The moves of the shared code. *)

\* The words that are moved before word p, in the code that moves all words.
Preceding(p) == {q \in InRegister : Before(q, p)}

LEMMA SpareRegs == NrSpareRegs \in Nat
BY RegTableAssumption DEF NrSpareRegs

\* Before a value, the words of later locals are moved.
LEMMA PrecedingValue ==
    ASSUME NEW i \in Nat, 2 * i \in InRegister
    PROVE  Preceding(2 * i) = (2 * i + 2)..(NrSpareRegs - 1)
BY SpareRegs DEF Preceding, Before, InRegister

\* Before a type, the value of the same local is moved, too.
LEMMA PrecedingType ==
    ASSUME NEW i \in Nat, 2 * i + 1 \in InRegister
    PROVE  Preceding(2 * i + 1) = ((2 * i + 2)..(NrSpareRegs - 1)) \cup {2 * i}
BY SpareRegs DEF Preceding, Before, InRegister

\* How many moves there are before word p.
LEMMA PrecedingCount ==
    ASSUME NEW i \in Nat
    PROVE  /\ 2 * i \in InRegister =>
                Cardinality(Preceding(2 * i)) =
                   IF 2 * i + 2 > NrSpareRegs THEN 0 ELSE NrSpareRegs - 2 * i - 2
           /\ 2 * i + 1 \in InRegister =>
                Cardinality(Preceding(2 * i + 1)) = NrSpareRegs - 2 * i - 1
<1>1. ASSUME 2 * i \in InRegister
      PROVE  Cardinality(Preceding(2 * i)) =
                IF 2 * i + 2 > NrSpareRegs THEN 0 ELSE NrSpareRegs - 2 * i - 2
  <2>1. Preceding(2 * i) = (2 * i + 2)..(NrSpareRegs - 1)
    BY <1>1, PrecedingValue
  <2>2. 2 * i + 2 \in Int /\ NrSpareRegs - 1 \in Int
    BY SpareRegs
  <2>3. Cardinality((2 * i + 2)..(NrSpareRegs - 1)) =
            IF 2 * i + 2 > NrSpareRegs - 1 THEN 0
            ELSE (NrSpareRegs - 1) - (2 * i + 2) + 1
    BY <2>2, FS_Interval
  <2> QED BY <2>1, <2>3, SpareRegs
<1>2. ASSUME 2 * i + 1 \in InRegister
      PROVE  Cardinality(Preceding(2 * i + 1)) = NrSpareRegs - 2 * i - 1
  <2> DEFINE Later == (2 * i + 2)..(NrSpareRegs - 1)
  <2>1. Preceding(2 * i + 1) = Later \cup {2 * i}
    BY <1>2, PrecedingType
  <2>2. 2 * i + 2 \in Int /\ NrSpareRegs - 1 \in Int /\ 2 * i + 1 < NrSpareRegs
    BY <1>2, SpareRegs DEF InRegister
  <2>3. IsFiniteSet(Later) /\ Cardinality(Later) = NrSpareRegs - 2 * i - 2
    BY <2>2, FS_Interval, SpareRegs
  <2>4. 2 * i \notin Later
    OBVIOUS
  <2>5. Cardinality(Later \cup {2 * i}) = Cardinality(Later) + 1
    BY <2>3, <2>4, FS_AddElement
  <2> HIDE DEF Later
  <2>6. NrSpareRegs - 2 * i - 2 + 1 = NrSpareRegs - 2 * i - 1
    BY SpareRegs
  <2> QED BY <2>1, <2>3, <2>5, <2>6
<1> QED BY <1>1, <1>2

LEMMA Halves ==
    ASSUME NEW p \in Nat
    PROVE  \E i \in Nat : p = 2 * i \/ p = 2 * i + 1
<1>1. p \div 2 \in Nat /\ (p = 2 * (p \div 2) \/ p = 2 * (p \div 2) + 1)
  OBVIOUS
<1> QED BY <1>1

\* Code entered at the offset for n locals moves the words of the first n.
LEMMA LocalMovesExact ==
    ASSUME NEW n \in Nat
    PROVE  LocalMoves(n) = InRegister \cap WordsOf(n)
<1>1. ASSUME NEW p \in InRegister
      PROVE  Cardinality(Preceding(p)) >= Skip(n) <=> p \in WordsOf(n)
  <2>1. p \in Nat /\ p < NrSpareRegs
    BY SpareRegs DEF InRegister
  <2>2. PICK i \in Nat : p = 2 * i \/ p = 2 * i + 1
    BY <2>1, Halves
  <2>3. CASE p = 2 * i
    BY <2>1, <2>3, PrecedingCount, SpareRegs DEF Skip, WordsOf
  <2>4. CASE p = 2 * i + 1
    BY <2>1, <2>4, PrecedingCount, SpareRegs DEF Skip, WordsOf
  <2> QED BY <2>2, <2>3, <2>4
<1> QED BY <1>1 DEF LocalMoves, MovesFrom, Preceding

\* The words in caller-saved registers are the last ones, and whole locals.
LEMMA TempWordsLast ==
    ASSUME NEW p \in TempWords, NEW q \in InRegister,
           p <= q \/ (p = q + 1 /\ p % 2 = 1)
    PROVE  q \in TempWords
<1>1. p + 1 \in 1..Len(RegTable) /\ q + 1 \in 1..Len(RegTable)
  BY SpareRegs DEF TempWords, InRegister, NrSpareRegs
<1>2. RegTable[p + 1] \in CallerSaved
  BY DEF TempWords, RegOf
<1>3. p + 1 <= q + 1 \/ ((p + 1) % 2 = 0 /\ p + 1 = (q + 1) + 1)
  BY <1>1 DEF TempWords, InRegister
<1>4. RegTable[q + 1] \in CallerSaved
  BY <1>1, <1>2, <1>3, RegTableAssumption
<1> QED BY <1>4 DEF TempWords, RegOf

\* So the code for C calls is the end of the code for all words.
LEMMA TempMovesAreLocalMoves ==
    ASSUME NEW n \in Nat
    PROVE  TempMoves(n) = TempWords \cap LocalMoves(n)
<1>1. ASSUME NEW p \in TempWords
      PROVE  {q \in TempWords : Before(q, p)} = {q \in InRegister : Before(q, p)}
  <2>1. p \in InRegister
    BY DEF TempWords
  <2>2. ASSUME NEW q \in InRegister, Before(q, p)
        PROVE  p <= q \/ (p = q + 1 /\ p % 2 = 1)
    BY <2>1, <2>2 DEF Before, InRegister
  <2>3. \A q \in InRegister : Before(q, p) => q \in TempWords
    BY <2>2, TempWordsLast
  <2>4. TempWords \subseteq InRegister
    BY DEF TempWords
  <2> QED BY <2>3, <2>4
<1>2. TempWords \subseteq InRegister
  BY DEF TempWords
<1> QED BY <1>1, <1>2 DEF TempMoves, LocalMoves, MovesFrom

\* A C call enters its code within it.
LEMMA TempEntryInCode ==
    ASSUME NEW n \in Nat, AnyTemps(n)
    PROVE  Skip(n) <= Cardinality(TempWords)
<1>1. PICK p \in TempWords : p \in WordsOf(n + 1)
  BY DEF AnyTemps
<1>2. p \in InRegister /\ p \in Nat
  BY SpareRegs DEF TempWords, InRegister
<1>3. PICK i \in Nat : p = 2 * i \/ p = 2 * i + 1
  BY <1>2, Halves
<1>4. 2 * i \in InRegister /\ 2 * i <= 2 * n
  BY <1>1, <1>2, <1>3, SpareRegs DEF InRegister, WordsOf
<1>5. 2 * i \in TempWords
  <2>1. 2 * i <= 2 * i
    BY <1>4
  <2>2. p = 2 * i + 1 => p % 2 = 1
    OBVIOUS
  <2> QED BY <1>3, <1>4, <2>2, TempWordsLast
<1>6. (2 * i)..(NrSpareRegs - 1) \subseteq TempWords
  <2> SUFFICES ASSUME NEW q \in (2 * i)..(NrSpareRegs - 1) PROVE q \in TempWords
    OBVIOUS
  <2>1. q \in InRegister /\ 2 * i <= q
    BY SpareRegs DEF InRegister
  <2> QED BY <1>5, <2>1, TempWordsLast
<1>7. IsFiniteSet(TempWords)
  <2>1. IsFiniteSet(InRegister)
    BY SpareRegs, FS_Interval DEF InRegister
  <2>2. TempWords \in SUBSET InRegister
    BY DEF TempWords
  <2> QED BY <2>1, <2>2, FS_Subset
<1>8. Cardinality((2 * i)..(NrSpareRegs - 1)) = NrSpareRegs - 2 * i
  <2>1. 2 * i \in Int /\ NrSpareRegs - 1 \in Int /\ 2 * i <= NrSpareRegs - 1
    BY <1>4, SpareRegs DEF InRegister
  <2> QED BY <2>1, FS_Interval, SpareRegs
<1>9. NrSpareRegs - 2 * i <= Cardinality(TempWords) /\ Cardinality(TempWords) \in Nat
  BY <1>6, <1>7, <1>8, FS_Subset, FS_CardinalityType
<1> QED BY <1>4, <1>9, SpareRegs DEF Skip, InRegister

-----------------------------------------------------------------------------
(* The entries into the shared code, for any table. *)

\* Every frame has a number of locals.
FramesOf(N, T) == {fs \in Seq([n : N, words : T]) : fs # <<>>}

Counted == \E T : frames \in FramesOf(Nat, T)

LEMMA CountedTop ==
    ASSUME Counted
    PROVE  Depth \in Nat \ {0} /\ Top.n \in Nat
<1>0. PICK T : frames \in FramesOf(Nat, T)
  BY DEF Counted
<1>1. frames \in Seq([n : Nat, words : T]) /\ frames # <<>>
  BY <1>0 DEF FramesOf
<1> DEFINE R == [n : Nat, words : T]
<1>2. Depth \in Nat \ {0}
  <2> HIDE DEF R
  <2> QED BY <1>1, EmptySeq DEF Depth, R
<1>3. Top \in R
  <2>1. frames \in Seq(R) /\ Depth \in 1..Len(frames)
    BY <1>1, <1>2 DEF Depth
  <2> HIDE DEF R
  <2> QED BY <2>1, ElementOfSeq DEF Top
<1> QED BY <1>2, <1>3

\* An instruction changes the words of the last frame only.
LEMMA TopChanged ==
    ASSUME NEW N, NEW T, NEW fs \in FramesOf(N, T), NEW X
    PROVE  LET gs == [fs EXCEPT ![Len(fs)].words = X]
           IN  gs \in FramesOf(N, T \cup {X}) /\ Len(gs) = Len(fs)
<1> DEFINE P == [n : N, words : T]
           R == [n : N, words : T \cup {X}]
           f == [fs[Len(fs)] EXCEPT !.words = X]
           gs == [fs EXCEPT ![Len(fs)] = f]
<1>1. Len(fs) \in Nat \ {0} /\ Len(fs) \in 1..Len(fs)
  <2>1. fs \in Seq(P) /\ fs # <<>>
    BY DEF FramesOf
  <2> HIDE DEF P
  <2> QED BY <2>1, EmptySeq
<1>2. fs[Len(fs)] \in P
  <2>1. fs \in Seq(P) /\ fs # <<>>
    BY DEF FramesOf
  <2> HIDE DEF P
  <2> QED BY <2>1, <1>1, ElementOfSeq
<1>3. f \in R
  BY <1>2
<1>4. fs \in Seq(R)
  <2>1. fs \in Seq(P) /\ P \subseteq R
    BY DEF FramesOf
  <2> HIDE DEF P, R
  <2> QED BY <2>1, SeqMonotonic
<1>5. gs \in Seq(R) /\ Len(gs) = Len(fs)
  <2> HIDE DEF R, f
  <2> QED BY <1>1, <1>3, <1>4, ExceptSeq
<1>6. gs = [fs EXCEPT ![Len(fs)].words = X]
  OBVIOUS
<1>7. gs # <<>>
  <2> HIDE DEF R, gs
  <2> QED BY <1>1, <1>5
<1> HIDE DEF gs
<1> QED BY <1>5, <1>6, <1>7 DEF gs, FramesOf

LEMMA CallCounted ==
    ASSUME Counted, Call
    PROVE  Counted'
<1>0. PICK T : frames \in FramesOf(Nat, T)
  BY DEF Counted
<1>1. frames \in Seq([n : Nat, words : T]) /\ frames # <<>>
  BY <1>0 DEF FramesOf
<1>2. PICK n \in 1..MaxLocals, w \in Word : \E k \in 0..n : \E a \in 0..(Top.n - k) :
          frames' = Append([frames EXCEPT ![Depth].words =
                                              Stored(Top.words, regs, LocalMoves(Top.n))],
                           [n |-> n,
                            words |-> Copied([p \in WordsOf(n) |-> w], 0,
                                             Stored(Top.words, regs, LocalMoves(Top.n)), a, k)])
  BY DEF Call
<1>3. PICK X, Y :
          frames' = Append([frames EXCEPT ![Depth].words = X], [n |-> n, words |-> Y])
  BY <1>2
<1> DEFINE fs == [frames EXCEPT ![Depth].words = X]
           P == [n : Nat, words : T \cup {X}]
           S == [n : Nat, words : (T \cup {X}) \cup {Y}]
           e == [n |-> n, words |-> Y]
<1>4. fs \in Seq(P)
  BY <1>0, TopChanged DEF Depth, FramesOf
<1>5. P \subseteq S /\ e \in S
  BY BoundsAssumption
<1>6. Append(fs, e) \in Seq(S) /\ Append(fs, e) # <<>>
  <2> HIDE DEF fs, P, S, e
  <2> QED BY <1>4, <1>5, SeqMonotonic, AppendProperties
<1> QED BY <1>3, <1>6 DEF Counted, FramesOf

LEMMA ReturnCounted ==
    ASSUME Counted, Return
    PROVE  Counted'
<1>0. PICK T : frames \in FramesOf(Nat, T)
  BY DEF Counted
<1>1. frames \in Seq([n : Nat, words : T]) /\ frames # <<>>
  BY <1>0 DEF FramesOf
<1>2. PICK X : /\ frames' = [SubSeq(frames, 1, Depth - 1) EXCEPT ![Depth - 1].words = X]
               /\ Depth > 1
  BY DEF Return
<1> DEFINE fs == SubSeq(frames, 1, Depth - 1)
           P == [n : Nat, words : T]
<1>3. fs \in Seq(P) /\ Len(fs) = Depth - 1 /\ fs # <<>>
  <2>1. frames \in Seq(P) /\ Depth \in Nat
    BY <1>1, CountedTop
  <2> HIDE DEF P
  <2>2. \A d \in 1..(Depth - 1) : frames[d] \in P
    BY <2>1, ElementOfSeq DEF Depth
  <2>3. /\ SubSeq(frames, 1, Depth - 1) \in Seq(P)
        /\ Len(SubSeq(frames, 1, Depth - 1)) = Depth - 1
    <3>1. 1 \in Int /\ Depth - 1 \in Int /\ 1 <= Depth - 1
      BY <1>2, <2>1
    <3>2. /\ SubSeq(frames, 1, Depth - 1) \in Seq(P)
          /\ Len(SubSeq(frames, 1, Depth - 1)) =
                IF 1 <= Depth - 1 THEN (Depth - 1) - 1 + 1 ELSE 0
      BY <2>2, <3>1, SubSeqProperties
    <3> QED BY <3>1, <3>2
  <2>4. fs \in Seq(P) /\ Len(fs) = Depth - 1
    BY <2>3
  <2> HIDE DEF fs
  <2>5. Len(fs) # 0
    BY <1>2, <2>1, <2>4
  <2> QED BY <2>4, <2>5, EmptySeq
<1>4. frames' = [fs EXCEPT ![Len(fs)].words = X]
  BY <1>2, <1>3
<1>5. frames' \in FramesOf(Nat, T \cup {X})
  <2>1. fs \in FramesOf(Nat, T)
    BY <1>3 DEF FramesOf
  <2> HIDE DEF fs
  <2>2. [fs EXCEPT ![Len(fs)].words = X] \in FramesOf(Nat, T \cup {X})
    BY <2>1, TopChanged
  <2> QED BY <1>4, <2>2
<1> QED BY <1>5 DEF Counted

LEMMA CountedStep ==
    ASSUME Counted, [Next]_vars
    PROVE  Counted'
<1>0. PICK T : frames \in FramesOf(Nat, T)
  BY DEF Counted
<1>1. frames \in Seq([n : Nat, words : T]) /\ frames # <<>>
  BY <1>0 DEF FramesOf
<1>2. ASSUME NEW X, frames' = [frames EXCEPT ![Depth].words = X]
      PROVE  Counted'
  <2>1. [frames EXCEPT ![Len(frames)].words = X] \in FramesOf(Nat, T \cup {X})
    BY <1>0, TopChanged
  <2> QED BY <1>2, <2>1 DEF Counted, Depth
<1>3. CASE Assign
  <2>1. PICK p \in WordsOf(Top.n), w \in Word :
            \/ UNCHANGED frames
            \/ frames' = [frames EXCEPT ![Depth].words[p] = w]
    BY <1>3 DEF Assign
  <2>2. CASE UNCHANGED frames
    BY <2>2 DEF Counted
  <2>3. CASE frames' = [frames EXCEPT ![Depth].words[p] = w]
    <3>1. frames' = [frames EXCEPT ![Depth].words = [frames[Depth].words EXCEPT ![p] = w]]
      BY <2>3
    <3> QED BY <1>2, <3>1
  <2> QED BY <2>1, <2>2, <2>3
<1>4. CASE CallForTValue
  <2>1. \E X : frames' = [frames EXCEPT ![Depth].words = X]
    BY <1>4 DEF CallForTValue
  <2> QED BY <1>2, <2>1
<1>5. CASE CallForNothing
  <2>1. \E X : frames' = [frames EXCEPT ![Depth].words = X]
    BY <1>5 DEF CallForNothing
  <2> QED BY <1>2, <2>1
<1>6. CASE UNCHANGED vars
  BY <1>6 DEF vars, Counted
<1> QED BY <1>3, <1>4, <1>5, <1>6, CallCounted, ReturnCounted DEF Next

\* Code that saves or loads locals is always entered within it, and moves the
\* words it is meant to move, whatever the numbers of registers and of locals.
THEOREM EntriesAreExact == Spec => []EntriesExact
<1>1. Init => Counted
  <2> SUFFICES ASSUME Init PROVE Counted
    OBVIOUS
  <2>1. PICK n, X : n \in 1..MaxLocals /\ frames = <<[n |-> n, words |-> X]>>
    BY DEF Init
  <2>2. [n |-> n, words |-> X] \in [n : Nat, words : {X}]
    BY <2>1, BoundsAssumption
  <2>3. frames \in Seq([n : Nat, words : {X}]) /\ frames # <<>>
    BY <2>1, <2>2
  <2> QED BY <2>3 DEF Counted, FramesOf
<1>2. Counted /\ [Next]_vars => Counted'
  BY CountedStep
<1>3. Counted => EntriesExact
  <2> SUFFICES ASSUME Counted PROVE EntriesExact
    OBVIOUS
  <2>1. Top.n \in Nat
    BY CountedTop
  <2>2. Cardinality(InRegister) = NrSpareRegs
    <3>1. 0 \in Int /\ NrSpareRegs - 1 \in Int
      BY SpareRegs
    <3> QED BY <3>1, FS_Interval, SpareRegs DEF InRegister
  <2>3. ASSUME NEW n \in 0..Top.n
        PROVE  LocalMoves(n) = InRegister \cap WordsOf(n) /\ Skip(n) <= Cardinality(InRegister)
    <3>1. n \in Nat
      BY <2>1
    <3>2. Skip(n) <= NrSpareRegs
      BY <3>1, SpareRegs DEF Skip
    <3> QED BY <2>2, <3>1, <3>2, LocalMovesExact
  <2>4. AnyTemps(Top.n) => Skip(Top.n) <= Cardinality(TempWords)
    BY <2>1, TempEntryInCode
  <2>5. TempMoves(Top.n) = TempWords \cap WordsOf(Top.n)
    <3>1. TempMoves(Top.n) = TempWords \cap (InRegister \cap WordsOf(Top.n))
      BY <2>1, TempMovesAreLocalMoves, LocalMovesExact
    <3>2. TempWords \subseteq InRegister
      BY DEF TempWords
    <3> QED BY <3>1, <3>2
  <2> QED BY <2>3, <2>4, <2>5 DEF EntriesExact
<1> QED BY <1>1, <1>2, <1>3, PTL DEF Spec

-----------------------------------------------------------------------------
(* Private locals, for functions whose locals have different registers. *)

\* The words of locals that are in registers, in some function; and that no
\* register is listed twice for them.
Reach == InRegister \cap WordsOf(MaxLocals)
DistinctRegs == \A p, q \in Reach : RegOf(p) = RegOf(q) => p = q

AllWords == UNION {[WordsOf(n) -> Word] : n \in 1..MaxLocals}

\* The inductive invariant: the types, with the frames as a sequence.
IInv ==
    /\ regs \in [Reg -> Word]
    /\ frames \in FramesOf(1..MaxLocals, AllWords)
    /\ \A d \in 1..Depth : frames[d].words \in [WordsOf(frames[d].n) -> Word]

LEMMA FrameFacts ==
    ASSUME IInv
    PROVE  /\ Depth \in Nat \ {0}
           /\ \A d \in 1..Depth :
                 /\ frames[d] = [n |-> frames[d].n, words |-> frames[d].words]
                 /\ frames[d].n \in 1..MaxLocals
                 /\ frames[d].words \in [WordsOf(frames[d].n) -> Word]
           /\ Top.n \in 1..MaxLocals /\ Top.n \in Nat
           /\ Top.words \in [WordsOf(Top.n) -> Word]
<1> DEFINE F == [n : 1..MaxLocals, words : AllWords]
<1>1. frames \in Seq(F) /\ frames # <<>>
  BY DEF IInv, FramesOf
<1>2. Depth \in Nat \ {0}
  <2> HIDE DEF F
  <2> QED BY <1>1, EmptySeq DEF Depth
<1>3. \A d \in 1..Depth : frames[d] \in F
  <2> HIDE DEF F
  <2> QED BY <1>1, ElementOfSeq DEF Depth
<1>4. \A d \in 1..Depth : frames[d] = [n |-> frames[d].n, words |-> frames[d].words]
                            /\ frames[d].n \in 1..MaxLocals
  BY <1>3
<1>5. \A d \in 1..Depth : frames[d].words \in [WordsOf(frames[d].n) -> Word]
  BY DEF IInv
<1>6. Depth \in 1..Depth
  BY <1>2
<1>7. Top.n \in 1..MaxLocals /\ Top.words \in [WordsOf(Top.n) -> Word]
  BY <1>4, <1>5, <1>6 DEF Top
<1>8. Top.n \in Nat
  BY <1>7, BoundsAssumption
<1> HIDE DEF F
<1> QED BY <1>2, <1>4, <1>5, <1>7, <1>8

LEMMA RegOfType ==
    ASSUME NEW p \in InRegister
    PROVE  RegOf(p) \in Reg
<1>1. p + 1 \in 1..Len(RegTable)
  BY SpareRegs DEF InRegister, NrSpareRegs
<1> QED BY <1>1, RegTableAssumption, ElementOfSeq DEF RegOf

\* A move into a register leaves the words in other registers alone.
LEMMA LoadedWord ==
    ASSUME DistinctRegs, NEW rs, DOMAIN rs = Reg, NEW words,
           NEW W \in SUBSET Reach, NEW p \in Reach
    PROVE  Loaded(rs, words, W)[RegOf(p)] = IF p \in W THEN words[p] ELSE rs[RegOf(p)]
<1> DEFINE into == {q \in W : RegOf(q) = RegOf(p)}
<1>1. RegOf(p) \in Reg
  BY RegOfType DEF Reach
<1>2. into = IF p \in W THEN {p} ELSE {}
  BY DEF DistinctRegs
<1>3. Loaded(rs, words, W)[RegOf(p)] =
         IF into = {} THEN rs[RegOf(p)]
         ELSE words[CHOOSE q \in into : \A r \in into : r = q \/ Before(r, q)]
  BY <1>1 DEF Loaded
<1>4. CASE p \in W
  <2>1. into = {p}
    BY <1>2, <1>4
  <2>2. (CHOOSE q \in {p} : \A r \in {p} : r = q \/ Before(r, q)) = p
    OBVIOUS
  <2> QED BY <1>3, <1>4, <2>1, <2>2
<1>5. CASE p \notin W
  BY <1>2, <1>3, <1>5
<1> QED BY <1>4, <1>5

\* Of some words, one is moved last.
LEMMA LastMove ==
    ASSUME NEW W \in SUBSET Nat, W # {}
    PROVE  \E p \in W : \A q \in W : q = p \/ Before(q, p)
<1> DEFINE less == OpToRel(<, Nat)
           order(p) == 2 * (p \div 2) + 1 - (p % 2)
           orders == {order(p) : p \in W}
<1>1. \A p \in W : order(p) \in Nat
  OBVIOUS
<1>2. PICK n \in orders : \A m \in orders \ {n} : <<m, n>> \notin less
  <2>1. orders \subseteq Nat /\ orders # {}
    BY <1>1
  <2> HIDE DEF orders, less
  <2> QED BY <2>1, NatLessThanWellFounded, WFMin DEF less
<1>3. PICK p \in W : n = order(p)
  OBVIOUS
<1>4. ASSUME NEW q \in W
      PROVE  q = p \/ Before(q, p)
  <2>1. order(q) = order(p) \/ <<order(q), order(p)>> \notin less
    BY <1>2, <1>3
  <2>2. order(q) >= order(p)
    BY <1>1, <2>1 DEF OpToRel
  <2>3. \A i \in {p, q} : /\ i \in Nat /\ i \div 2 \in Nat
                          /\ i = 2 * (i \div 2) + (i % 2) /\ i % 2 \in {0, 1}
    OBVIOUS
  <2> QED BY <2>2, <2>3 DEF Before
<1> QED BY <1>4

LEMMA LoadedType ==
    ASSUME NEW rs \in [Reg -> Word], NEW words, 
           NEW W \in SUBSET InRegister, \A p \in W : words[p] \in Word
    PROVE  Loaded(rs, words, W) \in [Reg -> Word]
<1>1. ASSUME NEW r \in Reg
      PROVE  Loaded(rs, words, W)[r] \in Word
  <2> DEFINE into == {p \in W : RegOf(p) = r}
  <2>1. CASE into # {}
    <3>1. into \in SUBSET Nat
      <4>1. InRegister \subseteq Nat
        BY SpareRegs DEF InRegister
      <4> QED BY <4>1
    <3>2. \E p \in into : \A q \in into : q = p \/ Before(q, p)
      <4> HIDE DEF into
      <4> QED BY <2>1, <3>1, LastMove
    <3>3. Loaded(rs, words, W)[r] =
             words[CHOOSE p \in into : \A q \in into : q = p \/ Before(q, p)]
      BY <2>1 DEF Loaded
    <3> QED BY <3>2, <3>3
  <2>2. CASE into = {}
    BY <2>2 DEF Loaded
  <2> QED BY <2>1, <2>2
<1> QED BY <1>1 DEF Loaded

\* The words of a function that are in registers.
LEMMA InReach ==
    ASSUME NEW n \in 1..MaxLocals, NEW k \in 0..n
    PROVE  InRegister \cap WordsOf(k) \subseteq Reach
<1>1. n \in Nat /\ k \in Nat /\ MaxLocals \in Nat /\ k <= MaxLocals
  BY BoundsAssumption
<1> QED BY <1>1 DEF Reach, WordsOf

LEMMA JunkType ==
    ASSUME NEW rs \in [Reg -> Word], NEW R, NEW w \in Word
    PROVE  Junk(rs, R, w) \in [Reg -> Word]
BY DEF Junk

\* The words that a C call saves, seen in the frame of the running function.
LEMMA TempMovesExact ==
    ASSUME NEW n \in Nat
    PROVE  TempMoves(n) = TempWords \cap WordsOf(n)
<1>1. TempMoves(n) = TempWords \cap (InRegister \cap WordsOf(n))
  BY TempMovesAreLocalMoves, LocalMovesExact
<1>2. TempWords \subseteq InRegister
  BY DEF TempWords
<1> QED BY <1>1, <1>2

LEMMA WordsGrow ==
    ASSUME NEW n \in Nat
    PROVE  WordsOf(n) \subseteq WordsOf(n + 1)
BY DEF WordsOf

LEMMA StoredWords ==
    ASSUME IInv, NEW W \in SUBSET InRegister
    PROVE  /\ Stored(Top.words, regs, W) \in [WordsOf(Top.n) -> Word]
           /\ \A q \in WordsOf(Top.n) :
                 Stored(Top.words, regs, W)[q] =
                    IF q \in W THEN regs[RegOf(q)] ELSE Top.words[q]
<1>1. Top.words \in [WordsOf(Top.n) -> Word] /\ regs \in [Reg -> Word]
  BY FrameFacts DEF IInv
<1>2. DOMAIN Top.words = WordsOf(Top.n)
  BY <1>1
<1>3. \A q \in W : regs[RegOf(q)] \in Word
  BY <1>1, RegOfType
<1> QED BY <1>1, <1>2, <1>3 DEF Stored

\* mips_static_ccall saves what the C function may change, ...
LEMMA SavedTempsWords ==
    ASSUME IInv
    PROVE  /\ SavedTemps(regs) \in [WordsOf(Top.n) -> Word]
           /\ \A q \in WordsOf(Top.n) :
                 SavedTemps(regs)[q] =
                    IF q \in TempWords THEN regs[RegOf(q)] ELSE Top.words[q]
<1>1. Top.n \in Nat /\ Top.words \in [WordsOf(Top.n) -> Word]
  BY FrameFacts
<1>2. CASE AnyTemps(Top.n)
  <2>1. SavedTemps(regs) = Stored(Top.words, regs, TempWords \cap WordsOf(Top.n))
    BY <1>1, <1>2, TempMovesExact DEF SavedTemps
  <2>2. TempWords \cap WordsOf(Top.n) \in SUBSET InRegister
    BY DEF TempWords
  <2> QED BY <2>1, <2>2, StoredWords
<1>3. CASE ~AnyTemps(Top.n)
  <2>1. SavedTemps(regs) = Top.words
    BY <1>3 DEF SavedTemps
  <2>2. \A q \in WordsOf(Top.n) : q \notin TempWords
    BY <1>1, <1>3, WordsGrow DEF AnyTemps
  <2> QED BY <1>1, <2>1, <2>2
<1> QED BY <1>2, <1>3

\* ... and loads it after the call.
LEMMA AfterCCallWords ==
    ASSUME IInv, NEW words \in [WordsOf(Top.n) -> Word], NEW w \in Word
    PROVE  /\ AfterCCall(words, w) \in [Reg -> Word]
           /\ DistinctRegs =>
                 \A q \in InRegister \cap WordsOf(Top.n) :
                    AfterCCall(words, w)[RegOf(q)] =
                       IF q \in TempWords THEN words[q] ELSE regs[RegOf(q)]
<1>1. Top.n \in Nat /\ regs \in [Reg -> Word]
  BY FrameFacts DEF IInv
<1> DEFINE rs == Junk(regs, CallerSaved, w)
<1>2. rs \in [Reg -> Word]
  BY <1>1, JunkType
<1>3. \A q \in InRegister : q \notin TempWords => rs[RegOf(q)] = regs[RegOf(q)]
  BY RegOfType DEF Junk, TempWords
<1>4. CASE AnyTemps(Top.n)
  <2> DEFINE W == TempWords \cap WordsOf(Top.n)
  <2>1. AfterCCall(words, w) = Loaded(rs, words, W)
    BY <1>1, <1>4, TempMovesExact DEF AfterCCall
  <2>2. W \in SUBSET InRegister /\ \A p \in W : words[p] \in Word
    BY DEF TempWords
  <2>3. Loaded(rs, words, W) \in [Reg -> Word]
    <3> HIDE DEF rs, W
    <3> QED BY <1>2, <2>2, LoadedType
  <2>4. DistinctRegs =>
           \A q \in InRegister \cap WordsOf(Top.n) :
              Loaded(rs, words, W)[RegOf(q)] = IF q \in W THEN words[q] ELSE rs[RegOf(q)]
    <3>1. DOMAIN rs = Reg
      BY <1>2
    <3>2. InRegister \cap WordsOf(Top.n) \subseteq Reach
      BY FrameFacts, InReach
    <3>3. W \in SUBSET Reach
      BY <2>2, <3>2
    <3> HIDE DEF rs, W
    <3> QED BY <3>1, <3>2, <3>3, LoadedWord
  <2> QED BY <1>3, <2>1, <2>3, <2>4
<1>5. CASE ~AnyTemps(Top.n)
  <2>1. AfterCCall(words, w) = rs
    BY <1>5 DEF AfterCCall
  <2>2. \A q \in WordsOf(Top.n) : q \notin TempWords
    BY <1>1, <1>5, WordsGrow DEF AnyTemps
  <2> QED BY <1>2, <1>3, <2>1, <2>2
<1> QED BY <1>4, <1>5

\* What the frames and the abstract locals are after an instruction that leaves
\* X in the stack words of the running function.
LEMMA AfterTop ==
    ASSUME IInv, NEW X \in [WordsOf(Top.n) -> Word],
           frames' = [frames EXCEPT ![Depth].words = X], regs' \in [Reg -> Word]
    PROVE  /\ IInv'
           /\ View' = [p \in WordsOf(Top.n) |->
                          IF p \in InRegister THEN regs'[RegOf(p)] ELSE X[p]]
           /\ AllLocals' = [AllLocals EXCEPT ![Depth].words = View']
<1>1. /\ Depth \in Nat \ {0} /\ Depth \in 1..Depth
      /\ frames \in FramesOf(1..MaxLocals, AllWords)
      /\ frames \in Seq([n : 1..MaxLocals, words : AllWords])
  BY FrameFacts DEF IInv, FramesOf
<1>2. Top = frames[Depth] /\ Top.n \in 1..MaxLocals
  BY FrameFacts DEF Top
<1>3. AllWords \cup {X} = AllWords
  BY <1>2 DEF AllWords
<1>4. /\ frames' \in FramesOf(1..MaxLocals, AllWords)
      /\ Depth' = Depth
      /\ \A d \in 1..Depth :
            frames'[d] = IF d = Depth THEN [n |-> Top.n, words |-> X] ELSE frames[d]
  <2> DEFINE gs == [frames EXCEPT ![Len(frames)].words = X]
  <2>1. gs \in FramesOf(1..MaxLocals, AllWords \cup {X}) /\ Len(gs) = Len(frames)
    BY <1>1, TopChanged
  <2>2. frames' = gs
    BY DEF Depth
  <2>3. \A d \in 1..Depth :
           gs[d] = IF d = Depth THEN [n |-> Top.n, words |-> X] ELSE frames[d]
    <3>1. DOMAIN frames = 1..Depth
      <4> DEFINE F == [n : 1..MaxLocals, words : AllWords]
      <4>1. frames \in Seq(F)
        BY <1>1
      <4> HIDE DEF F
      <4> QED BY <4>1, LenProperties DEF Depth
    <3>2. Depth = Len(frames) /\ Top.words = frames[Depth].words
      BY DEF Depth, Top
    <3>3. frames[Depth] = [n |-> Top.n, words |-> Top.words]
      BY <1>1, <3>2, FrameFacts DEF Top
    <3>4. [frames[Depth] EXCEPT !.words = X] = [n |-> Top.n, words |-> X]
      BY <3>3
    <3> QED BY <1>1, <3>1, <3>2, <3>4
  <2> HIDE DEF gs
  <2> QED BY <1>3, <2>1, <2>2, <2>3 DEF Depth
<1>5. IInv'
  <2>1. \A d \in 1..Depth : frames[d].words \in [WordsOf(frames[d].n) -> Word]
    BY DEF IInv
  <2>2. ASSUME NEW d \in 1..Depth'
        PROVE  frames'[d].words \in [WordsOf(frames'[d].n) -> Word]
    <3>1. CASE d = Depth
      <4>1. frames'[d] = [n |-> Top.n, words |-> X]
        BY <1>1, <1>4, <3>1
      <4>2. frames'[d].n = Top.n /\ frames'[d].words = X
        BY <4>1
      <4> QED BY <4>2
    <3>2. CASE d # Depth
      BY <1>4, <2>1, <3>2
    <3> QED BY <3>1, <3>2
  <2> QED BY <1>4, <2>2 DEF IInv
<1>6. Top' = [n |-> Top.n, words |-> X]
  BY <1>1, <1>4 DEF Top
<1>7. View' = [p \in WordsOf(Top.n) |->
                  IF p \in InRegister THEN regs'[RegOf(p)] ELSE X[p]]
  BY <1>6 DEF View, Read
<1>8. AllLocals' = [AllLocals EXCEPT ![Depth].words = View']
  <2>1. AllLocals' =
           [d \in 1..Depth |-> [n |-> frames'[d].n,
                                words |-> IF d = Depth THEN View' ELSE frames'[d].words]]
    BY <1>4 DEF AllLocals
  <2>2. AllLocals' =
           [d \in 1..Depth |-> [n |-> frames[d].n,
                                words |-> IF d = Depth THEN View' ELSE frames[d].words]]
    BY <1>1, <1>2, <1>4, <2>1
  <2> HIDE DEF View
  <2> QED BY <1>1, <2>2 DEF AllLocals
<1> QED BY <1>5, <1>7, <1>8

LEMMA AbstractTop ==
    ASSUME IInv
    PROVE  /\ Len(AllLocals) = Depth
           /\ AllLocals[Depth] = [n |-> Top.n, words |-> View]
           /\ Private!Top = [n |-> Top.n, words |-> View]
           /\ View \in [WordsOf(Top.n) -> Word]
           /\ \A p \in WordsOf(Top.n) : View[p] = IF p \in InRegister THEN regs[RegOf(p)]
                                                  ELSE Top.words[p]
<1>1. Depth \in Nat \ {0} /\ Depth \in 1..Depth
  BY FrameFacts
<1>2. Len(AllLocals) = Depth
  BY <1>1 DEF AllLocals
<1>3. AllLocals[Depth] = [n |-> Top.n, words |-> View]
  BY <1>1 DEF AllLocals, Top
<1>4. \A p \in WordsOf(Top.n) : View[p] = IF p \in InRegister THEN regs[RegOf(p)]
                                          ELSE Top.words[p]
  BY DEF View, Read
<1>5. View \in [WordsOf(Top.n) -> Word]
  <2>1. Top.words \in [WordsOf(Top.n) -> Word] /\ regs \in [Reg -> Word]
    BY FrameFacts DEF IInv
  <2>2. \A p \in WordsOf(Top.n) : View[p] \in Word
    BY <1>4, <2>1, RegOfType
  <2> QED BY <2>2 DEF View
<1>6. Private!Top = AllLocals[Len(AllLocals)]
  BY DEF Private!Top
<1> QED BY <1>2, <1>3, <1>4, <1>5, <1>6

\* One move assigns one word of a local.
LEMMA AssignImplements ==
    ASSUME IInv, Assign
    PROVE  IInv' /\ (DistinctRegs => Private!Next)
<1>1. PICK p \in WordsOf(Top.n), w \in Word :
          /\ done' = <<"word", p, w>>
          /\ IF p \in InRegister
             THEN regs' = [regs EXCEPT ![RegOf(p)] = w] /\ UNCHANGED frames
             ELSE frames' = [frames EXCEPT ![Depth].words[p] = w] /\ UNCHANGED regs
  BY DEF Assign
<1> DEFINE X == IF p \in InRegister THEN Top.words ELSE [Top.words EXCEPT ![p] = w]
<1>2. /\ Top.words \in [WordsOf(Top.n) -> Word] /\ regs \in [Reg -> Word]
      /\ Depth \in 1..Depth /\ Top = frames[Depth]
      /\ frames[Depth] = [n |-> Top.n, words |-> Top.words]
      /\ DOMAIN frames = 1..Depth
      /\ frames = [d \in 1..Depth |-> frames[d]]
  <2>1. frames \in Seq([n : 1..MaxLocals, words : AllWords])
    BY DEF IInv, FramesOf
  <2>2. DOMAIN frames = 1..Depth /\ frames = [d \in 1..Depth |-> frames[d]]
    <3> DEFINE F == [n : 1..MaxLocals, words : AllWords]
    <3>1. frames \in Seq(F)
      BY <2>1
    <3> HIDE DEF F
    <3>2. frames \in [1..Depth -> F]
      BY <3>1, LenProperties DEF Depth
    <3> QED BY <3>2
  <2> QED BY <2>2, FrameFacts DEF IInv, Top
<1>3. X \in [WordsOf(Top.n) -> Word]
  BY <1>2
<1>4. frames' = [frames EXCEPT ![Depth].words = X]
  <2>1. CASE p \in InRegister
    <3>1. [frames[Depth] EXCEPT !.words = Top.words] = frames[Depth]
      BY <1>2
    <3>2. [frames EXCEPT ![Depth] = frames[Depth]] = frames
      BY <1>2
    <3>3. [frames EXCEPT ![Depth].words = Top.words] = frames
      BY <3>1, <3>2
    <3> QED BY <1>1, <2>1, <3>3
  <2>2. CASE p \notin InRegister
    <3>1. frames' = [frames EXCEPT ![Depth].words = [frames[Depth].words EXCEPT ![p] = w]]
      BY <1>1, <2>2
    <3> QED BY <1>2, <2>2, <3>1
  <2> QED BY <2>1, <2>2
<1>5. regs' \in [Reg -> Word]
  BY <1>1, <1>2
<1>6. /\ IInv'
      /\ View' = [q \in WordsOf(Top.n) |->
                     IF q \in InRegister THEN regs'[RegOf(q)] ELSE X[q]]
      /\ AllLocals' = [AllLocals EXCEPT ![Depth].words = View']
  <2> HIDE DEF X
  <2> QED BY <1>3, <1>4, <1>5, AfterTop
<1>7. DistinctRegs => View' = [View EXCEPT ![p] = w]
  <2> SUFFICES ASSUME DistinctRegs PROVE View' = [View EXCEPT ![p] = w]
    OBVIOUS
  <2>1. View \in [WordsOf(Top.n) -> Word]
    BY AbstractTop
  <2>2. ASSUME NEW q \in WordsOf(Top.n)
        PROVE  View'[q] = IF q = p THEN w ELSE View[q]
    <3>1. View'[q] = IF q \in InRegister THEN regs'[RegOf(q)] ELSE X[q]
      BY <1>6
    <3>2. View[q] = IF q \in InRegister THEN regs[RegOf(q)] ELSE Top.words[q]
      BY AbstractTop
    <3>3. CASE q \in InRegister
      <4>1. RegOf(q) \in Reg
        BY <3>3, RegOfType
      <4>2. p \in InRegister /\ RegOf(p) = RegOf(q) => p = q
        BY <3>3, FrameFacts, InReach DEF DistinctRegs
      <4> QED BY <1>1, <1>2, <3>1, <3>2, <3>3, <4>1, <4>2
    <3>4. CASE q \notin InRegister
      BY <1>1, <1>2, <3>1, <3>2, <3>4
    <3> QED BY <3>3, <3>4
  <2> HIDE DEF View
  <2>3. DOMAIN View' = WordsOf(Top.n)
    BY <1>6
  <2>4. View' = [q \in WordsOf(Top.n) |-> View'[q]]
    BY <1>6
  <2>5. [View EXCEPT ![p] = w] = [q \in WordsOf(Top.n) |-> IF q = p THEN w ELSE View[q]]
    BY <2>1
  <2> QED BY <2>2, <2>4, <2>5
<1>8. DistinctRegs => Private!SetWord(p, w)
  <2> SUFFICES ASSUME DistinctRegs PROVE Private!SetWord(p, w)
    OBVIOUS
  <2>1. Len(AllLocals) = Depth /\ AllLocals[Depth].words = View
    BY AbstractTop
  <2>2. AllLocals' = [AllLocals EXCEPT ![Depth].words = [AllLocals[Depth].words EXCEPT ![p] = w]]
    BY <1>6, <1>7, <2>1
  <2>3. AllLocals' = [AllLocals EXCEPT ![Depth].words[p] = w]
    BY <2>2
  <2> QED BY <1>1, <2>1, <2>3 DEF Private!SetWord
<1>9. p \in Private!WordsOf(Private!Top.n)
  <2>1. Private!Top.n = Top.n
    BY AbstractTop
  <2> QED BY <2>1 DEF Private!WordsOf, WordsOf
<1> QED BY <1>6, <1>8, <1>9 DEF Private!Next

\* A C function that returns a TValue assigns one local.
LEMMA CallForTValueImplements ==
    ASSUME IInv, CallForTValue
    PROVE  IInv' /\ (DistinctRegs => Private!Next)
<1>1. PICK i \in 0..(Top.n - 1), v \in Word, t \in Word, w \in Word :
         LET called == [SavedTemps(regs) EXCEPT ![2 * i + 1] = t]
             after == AfterCCall(called, w)
         IN  /\ done' = <<"local", i, v, t>>
             /\ IF 2 * i \in InRegister
                THEN /\ regs' = TypeFill([after EXCEPT ![RegOf(2 * i)] = v], called, i)
                     /\ frames' = [frames EXCEPT ![Depth].words = called]
                ELSE /\ regs' = TypeFill(after, called, i)
                     /\ frames' = [frames EXCEPT ![Depth].words = [called EXCEPT ![2 * i] = v]]
  BY DEF CallForTValue
<1> DEFINE called == [SavedTemps(regs) EXCEPT ![2 * i + 1] = t]
           after == AfterCCall(called, w)
           rs == IF 2 * i \in InRegister THEN [after EXCEPT ![RegOf(2 * i)] = v] ELSE after
           X == IF 2 * i \in InRegister THEN called ELSE [called EXCEPT ![2 * i] = v]
           W == {2 * i + 1} \cap InRegister
<1>2. Top.n \in Nat /\ 2 * i \in WordsOf(Top.n) /\ 2 * i + 1 \in WordsOf(Top.n)
  BY FrameFacts DEF WordsOf
<1>3. /\ called \in [WordsOf(Top.n) -> Word]
      /\ X \in [WordsOf(Top.n) -> Word]
      /\ \A q \in WordsOf(Top.n) :
            called[q] = IF q = 2 * i + 1 THEN t
                        ELSE IF q \in TempWords THEN regs[RegOf(q)] ELSE Top.words[q]
  BY <1>2, SavedTempsWords
<1>4. /\ after \in [Reg -> Word]
      /\ DistinctRegs => \A q \in InRegister \cap WordsOf(Top.n) :
            after[RegOf(q)] = IF q \in TempWords THEN called[q] ELSE regs[RegOf(q)]
  <2> HIDE DEF called
  <2> QED BY <1>3, AfterCCallWords
<1>5. /\ rs \in [Reg -> Word]
      /\ DistinctRegs => \A q \in InRegister \cap WordsOf(Top.n) :
            rs[RegOf(q)] = IF q = 2 * i THEN v ELSE after[RegOf(q)]
  <2>1. \A q \in InRegister : RegOf(q) \in Reg
    BY RegOfType
  <2>2. DistinctRegs /\ 2 * i \in InRegister =>
           \A q \in InRegister \cap WordsOf(Top.n) : RegOf(q) = RegOf(2 * i) => q = 2 * i
    BY <1>2, FrameFacts, InReach DEF DistinctRegs
  <2> HIDE DEF after
  <2> QED BY <1>4, <2>1, <2>2
<1>6. /\ regs' = Loaded(rs, called, W)
      /\ frames' = [frames EXCEPT ![Depth].words = X]
  BY <1>1 DEF TypeFill
<1>7. /\ regs' \in [Reg -> Word]
      /\ DistinctRegs => \A q \in InRegister \cap WordsOf(Top.n) :
            regs'[RegOf(q)] = IF q \in W THEN called[q] ELSE rs[RegOf(q)]
  <2>1. W \in SUBSET InRegister /\ \A p \in W : called[p] \in Word
    BY <1>2, <1>3
  <2>2. rs \in [Reg -> Word] /\ DOMAIN rs = Reg
    BY <1>5
  <2>3. InRegister \cap WordsOf(Top.n) \subseteq Reach /\ W \in SUBSET Reach
    BY <1>2, FrameFacts, InReach
  <2> HIDE DEF called, rs, W
  <2>4. regs' \in [Reg -> Word]
    BY <1>6, <2>1, <2>2, LoadedType
  <2> QED BY <1>6, <2>2, <2>3, <2>4, LoadedWord
<1>8. /\ IInv'
      /\ View' = [q \in WordsOf(Top.n) |->
                     IF q \in InRegister THEN regs'[RegOf(q)] ELSE X[q]]
      /\ AllLocals' = [AllLocals EXCEPT ![Depth].words = View']
  <2> HIDE DEF X
  <2> QED BY <1>3, <1>6, <1>7, AfterTop
<1>9. DistinctRegs => View' = [View EXCEPT ![2 * i] = v, ![2 * i + 1] = t]
  <2> SUFFICES ASSUME DistinctRegs PROVE View' = [View EXCEPT ![2 * i] = v, ![2 * i + 1] = t]
    OBVIOUS
  <2>1. /\ View \in [WordsOf(Top.n) -> Word]
        /\ \A q \in WordsOf(Top.n) : View[q] = IF q \in InRegister THEN regs[RegOf(q)]
                                               ELSE Top.words[q]
    BY AbstractTop
  <2>2. ASSUME NEW q \in WordsOf(Top.n)
        PROVE  View'[q] = IF q = 2 * i + 1 THEN t ELSE IF q = 2 * i THEN v ELSE View[q]
    <3>1. View'[q] = IF q \in InRegister THEN regs'[RegOf(q)] ELSE X[q]
      BY <1>8
    <3>2. 2 * i # 2 * i + 1
      OBVIOUS
    <3>3. CASE q \in InRegister
      <4>1. View'[q] = IF q = 2 * i + 1 THEN called[q]
                       ELSE IF q = 2 * i THEN v ELSE after[RegOf(q)]
        <5> HIDE DEF called, after, rs
        <5> QED BY <1>5, <1>7, <3>1, <3>3
      <4>2. after[RegOf(q)] = IF q \in TempWords THEN called[q] ELSE regs[RegOf(q)]
        BY <1>4, <3>3
      <4> HIDE DEF called, after
      <4> QED BY <1>3, <2>1, <3>2, <3>3, <4>1, <4>2
    <3>4. CASE q \notin InRegister
      <4>1. q \notin TempWords /\ View[q] = Top.words[q]
        BY <2>1, <3>4 DEF TempWords
      <4>2. View'[q] = X[q]
        BY <3>1, <3>4
      <4>3. called[q] = IF q = 2 * i + 1 THEN t ELSE Top.words[q]
        <5> HIDE DEF called
        <5> QED BY <1>3, <4>1
      <4>4. X[q] = IF q = 2 * i THEN v ELSE called[q]
        <5> HIDE DEF called
        <5> QED BY <1>2, <1>3, <3>4
      <4> HIDE DEF called, X
      <4> QED BY <3>2, <4>1, <4>2, <4>3, <4>4
    <3> QED BY <3>3, <3>4
  <2>3. View' = [q \in WordsOf(Top.n) |-> View'[q]]
    BY <1>8
  <2>4. [View EXCEPT ![2 * i] = v, ![2 * i + 1] = t] =
           [q \in WordsOf(Top.n) |->
               IF q = 2 * i + 1 THEN t ELSE IF q = 2 * i THEN v ELSE View[q]]
    <3> HIDE DEF View
    <3> QED BY <1>2, <2>1
  <2> HIDE DEF View
  <2> QED BY <2>2, <2>3, <2>4
<1>10. DistinctRegs => Private!SetLocal(i, v, t)
  <2> SUFFICES ASSUME DistinctRegs PROVE Private!SetLocal(i, v, t)
    OBVIOUS
  <2>1. Len(AllLocals) = Depth /\ AllLocals[Depth].words = View
    BY AbstractTop
  <2>2. AllLocals' = [AllLocals EXCEPT ![Depth].words =
                         [AllLocals[Depth].words EXCEPT ![2 * i] = v, ![2 * i + 1] = t]]
    BY <1>8, <1>9, <2>1
  <2>3. AllLocals' = [AllLocals EXCEPT ![Depth].words[2 * i] = v,
                                       ![Depth].words[2 * i + 1] = t]
    BY <2>2
  <2>4. done' = <<"local", i, v, t>>
    BY <1>1
  <2> QED BY <2>1, <2>3, <2>4 DEF Private!SetLocal
<1>11. i \in 0..(Private!Top.n - 1)
  <2>1. Private!Top.n = Top.n
    BY AbstractTop
  <2> QED BY <2>1
<1> QED BY <1>8, <1>10, <1>11 DEF Private!Next

\* A C function that returns nothing assigns nothing.
LEMMA CallForNothingImplements ==
    ASSUME IInv, CallForNothing
    PROVE  IInv' /\ (DistinctRegs => Private!Next)
<1>1. PICK a, w, k :
         /\ a \in 0..Top.n /\ w \in Word /\ k \in 0..(Top.n - a)
         /\ done' = <<"nothing">>
         /\ regs' = AfterCCall(Stored(SavedTemps(regs), regs, LimitMoves(a, k)), w)
         /\ frames' = [frames EXCEPT ![Depth].words =
                          Stored(SavedTemps(regs), regs, LimitMoves(a, k))]
  BY DEF CallForNothing
<1> a \in 0..Top.n /\ w \in Word /\ k \in 0..(Top.n - a)
  BY <1>1
<1> DEFINE saved == Stored(SavedTemps(regs), regs, LimitMoves(a, k))
<1>2. /\ saved \in [WordsOf(Top.n) -> Word]
      /\ \A q \in WordsOf(Top.n) :
            saved[q] = IF q \in LimitMoves(a, k) \cup TempWords THEN regs[RegOf(q)]
                       ELSE Top.words[q]
  <2>1. \A q \in InRegister : regs[RegOf(q)] \in Word
    BY RegOfType DEF IInv
  <2>2. LimitMoves(a, k) \subseteq InRegister
    BY DEF LimitMoves
  <2>3. DOMAIN SavedTemps(regs) = WordsOf(Top.n)
    BY SavedTempsWords
  <2> QED BY <2>1, <2>2, <2>3, SavedTempsWords DEF Stored
<1>3. /\ regs' \in [Reg -> Word]
      /\ DistinctRegs =>
            \A q \in InRegister \cap WordsOf(Top.n) : regs'[RegOf(q)] = regs[RegOf(q)]
  <2>1. /\ regs' \in [Reg -> Word]
        /\ DistinctRegs => \A q \in InRegister \cap WordsOf(Top.n) :
              regs'[RegOf(q)] = IF q \in TempWords THEN saved[q] ELSE regs[RegOf(q)]
    <3> HIDE DEF saved
    <3> QED BY <1>1, <1>2, AfterCCallWords DEF saved
  <2> HIDE DEF saved
  <2> QED BY <1>2, <2>1
<1>4. /\ IInv'
      /\ View' = [q \in WordsOf(Top.n) |->
                     IF q \in InRegister THEN regs'[RegOf(q)] ELSE saved[q]]
      /\ AllLocals' = [AllLocals EXCEPT ![Depth].words = View']
  <2>1. frames' = [frames EXCEPT ![Depth].words = saved]
    BY <1>1
  <2> HIDE DEF saved
  <2> QED BY <1>2, <1>3, <2>1, AfterTop
<1>5. DistinctRegs => View' = View
  <2> SUFFICES ASSUME DistinctRegs PROVE View' = View
    OBVIOUS
  <2>1. \A q \in WordsOf(Top.n) : q \notin InRegister =>
                                     q \notin LimitMoves(a, k) \cup TempWords
    BY DEF LimitMoves, TempWords
  <2>2. \A q \in WordsOf(Top.n) :
           (IF q \in InRegister THEN regs'[RegOf(q)] ELSE saved[q]) = View[q]
    <3> HIDE DEF saved
    <3> QED BY <1>2, <1>3, <2>1, AbstractTop
  <2>3. View = [q \in WordsOf(Top.n) |-> View[q]]
    BY DEF View
  <2> HIDE DEF saved, View
  <2> QED BY <1>4, <2>2, <2>3
<1>6. DistinctRegs => AllLocals' = AllLocals
  <2> SUFFICES ASSUME DistinctRegs PROVE AllLocals' = AllLocals
    OBVIOUS
  <2>1. Depth \in 1..Depth
    BY FrameFacts
  <2>2. [AllLocals[Depth] EXCEPT !.words = View] = AllLocals[Depth]
    BY AbstractTop
  <2>3. [AllLocals EXCEPT ![Depth] = AllLocals[Depth]] = AllLocals
    BY DEF AllLocals
  <2> QED BY <1>4, <1>5, <2>2, <2>3
<1>7. DistinctRegs => Private!SetNothing
  BY <1>1, <1>6 DEF Private!SetNothing
<1> QED BY <1>4, <1>7 DEF Private!Next

\* A call leaves the locals of the caller alone, and passes its arguments.
LEMMA CallImplements ==
    ASSUME IInv, Call
    PROVE  IInv' /\ (DistinctRegs => Private!Next)
<1>1. PICK n, w, k, a :
         /\ n \in 1..MaxLocals /\ w \in Word /\ k \in 0..n /\ a \in 0..(Top.n - k)
         /\ LET saved == Stored(Top.words, regs, LocalMoves(Top.n))
                callee == Copied([p \in WordsOf(n) |-> w], 0, saved, a, k)
            IN  /\ done' = <<"call", n, a, k>>
                /\ frames' = Append([frames EXCEPT ![Depth].words = saved],
                                    [n |-> n, words |-> callee])
                /\ regs' = Loaded(Junk(regs, Reg, w), callee, LocalMoves(k))
  BY DEF Call
<1> n \in 1..MaxLocals /\ w \in Word /\ k \in 0..n /\ a \in 0..(Top.n - k)
  BY <1>1
<1> DEFINE saved == Stored(Top.words, regs, LocalMoves(Top.n))
           callee == Copied([p \in WordsOf(n) |-> w], 0, saved, a, k)
           fs == [frames EXCEPT ![Depth].words = saved]
           e == [n |-> n, words |-> callee]
<1>2. Depth \in Nat \ {0} /\ Top.n \in Nat /\ n \in Nat /\ k \in Nat
  BY FrameFacts, BoundsAssumption
<1>3. saved = View
  <2>1. LocalMoves(Top.n) = InRegister \cap WordsOf(Top.n)
    BY <1>2, LocalMovesExact
  <2>2. /\ saved \in [WordsOf(Top.n) -> Word]
        /\ \A q \in WordsOf(Top.n) :
              saved[q] = IF q \in LocalMoves(Top.n) THEN regs[RegOf(q)] ELSE Top.words[q]
    BY <2>1, StoredWords
  <2> HIDE DEF saved, View
  <2> QED BY <2>1, <2>2, AbstractTop
<1>4. /\ callee \in [WordsOf(n) -> Word]
      /\ \A p \in WordsOf(k) : p \in WordsOf(n) /\ callee[p] = View[p + 2 * a]
  <2>1. View \in [WordsOf(Top.n) -> Word]
    BY AbstractTop
  <2>2. \A p \in WordsOf(k) : p \in WordsOf(n) /\ p + 2 * a \in WordsOf(Top.n)
    BY <1>2 DEF WordsOf
  <2>3. WordsOf(k) = (2 * 0)..(2 * (0 + k) - 1)
    BY <1>2 DEF WordsOf
  <2>4. \A p \in WordsOf(k) : p - 2 * 0 + 2 * a = p + 2 * a
    BY <1>2 DEF WordsOf
  <2>5. callee = [p \in WordsOf(n) |-> IF p \in WordsOf(k) THEN View[p - 2 * 0 + 2 * a] ELSE w]
    BY <1>3, <2>3 DEF Copied
  <2> HIDE DEF View, callee
  <2> QED BY <2>1, <2>2, <2>4, <2>5
<1>5. /\ regs' \in [Reg -> Word]
      /\ DistinctRegs => \A q \in InRegister \cap WordsOf(k) : regs'[RegOf(q)] = callee[q]
  <2> DEFINE rs == Junk(regs, Reg, w)
             W == LocalMoves(k)
  <2>1. rs \in [Reg -> Word] /\ DOMAIN rs = Reg
    BY JunkType DEF IInv
  <2>2. W = InRegister \cap WordsOf(k)
    BY <1>2, LocalMovesExact
  <2>3. W \in SUBSET InRegister /\ \A p \in W : callee[p] \in Word
    <3> HIDE DEF callee, W
    <3> QED BY <1>4, <2>2
  <2>4. regs' = Loaded(rs, callee, W)
    BY <1>1
  <2>5. W \in SUBSET Reach
    BY <2>2, InReach
  <2> HIDE DEF callee, rs, W
  <2> QED BY <2>1, <2>2, <2>3, <2>4, <2>5, LoadedType, LoadedWord
<1>6. /\ fs \in Seq([n : 1..MaxLocals, words : AllWords])
      /\ Len(fs) = Depth
      /\ \A d \in 1..Depth :
            fs[d] = IF d = Depth THEN [n |-> Top.n, words |-> saved] ELSE frames[d]
  <2>1. frames \in FramesOf(1..MaxLocals, AllWords)
    BY DEF IInv
  <2>2. saved \in AllWords
    <3>1. View \in [WordsOf(Top.n) -> Word] /\ Top.n \in 1..MaxLocals
      BY AbstractTop, FrameFacts
    <3> QED BY <1>3, <3>1 DEF AllWords
  <2> HIDE DEF saved
  <2>3. [frames EXCEPT ![Len(frames)].words = saved] \in FramesOf(1..MaxLocals, AllWords \cup {saved})
        /\ Len([frames EXCEPT ![Len(frames)].words = saved]) = Len(frames)
    BY <2>1, TopChanged
  <2>4. AllWords \cup {saved} = AllWords
    BY <2>2
  <2>5. \A d \in 1..Depth :
           fs[d] = IF d = Depth THEN [n |-> Top.n, words |-> saved] ELSE frames[d]
    <3>1. DOMAIN frames = 1..Depth
      <4> DEFINE F == [n : 1..MaxLocals, words : AllWords]
      <4>1. frames \in Seq(F)
        BY <2>1 DEF FramesOf
      <4> HIDE DEF F
      <4> QED BY <4>1, LenProperties DEF Depth
    <3>2. Depth \in 1..Depth /\ frames[Depth] = [n |-> Top.n, words |-> Top.words]
      BY <1>2, FrameFacts DEF Top
    <3>3. [frames[Depth] EXCEPT !.words = saved] = [n |-> Top.n, words |-> saved]
      BY <3>2
    <3> QED BY <3>1, <3>2, <3>3
  <2> QED BY <2>3, <2>4, <2>5 DEF FramesOf, Depth
<1>7. /\ frames' \in FramesOf(1..MaxLocals, AllWords)
      /\ Depth' = Depth + 1
      /\ \A d \in 1..Depth : frames'[d] = fs[d]
      /\ frames'[Depth + 1] = e
  <2> DEFINE F == [n : 1..MaxLocals, words : AllWords]
  <2>1. e \in F
    <3> HIDE DEF callee
    <3> QED BY <1>4 DEF AllWords
  <2>2. frames' = Append(fs, e) /\ fs \in Seq(F)
    BY <1>1, <1>6
  <2>3. Len(fs) = Depth
    BY <1>6
  <2> HIDE DEF F, e, fs
  <2>4. frames' \in Seq(F) /\ Len(frames') = Depth + 1
        /\ (\A d \in 1..Depth : frames'[d] = fs[d]) /\ frames'[Depth + 1] = e
    BY <2>1, <2>2, <2>3, AppendProperties
  <2>5. frames' # <<>>
    BY <1>2, <2>4
  <2> QED BY <2>4, <2>5 DEF F, FramesOf, Depth
<1>8. IInv'
  <2>1. \A d \in 1..Depth : frames'[d].words \in [WordsOf(frames'[d].n) -> Word]
    <3>1. \A d \in 1..Depth : frames[d].words \in [WordsOf(frames[d].n) -> Word]
      BY DEF IInv
    <3>2. ASSUME NEW d \in 1..Depth, d # Depth
          PROVE  frames'[d] = frames[d]
      <4> HIDE DEF fs
      <4> QED BY <1>6, <1>7, <3>2
    <3>3. frames'[Depth] = [n |-> Top.n, words |-> View]
      <4> HIDE DEF fs, View, saved
      <4> QED BY <1>2, <1>3, <1>6, <1>7
    <3>4. View \in [WordsOf(Top.n) -> Word]
      BY AbstractTop
    <3>5. frames'[Depth].words \in [WordsOf(frames'[Depth].n) -> Word]
      <4>1. frames'[Depth].n = Top.n /\ frames'[Depth].words = View
        BY <3>3
      <4> QED BY <3>4, <4>1
    <3> QED BY <3>1, <3>2, <3>5
  <2>2. frames'[Depth + 1].words \in [WordsOf(frames'[Depth + 1].n) -> Word]
    <3>1. frames'[Depth + 1].n = n /\ frames'[Depth + 1].words = callee
      BY <1>7
    <3> HIDE DEF callee
    <3> QED BY <1>4, <3>1
  <2>3. \A d \in 1..(Depth + 1) : d \in 1..Depth \/ d = Depth + 1
    BY <1>2
  <2>4. \A d \in 1..Depth' : frames'[d].words \in [WordsOf(frames'[d].n) -> Word]
    BY <1>7, <2>1, <2>2, <2>3
  <2> QED BY <1>5, <1>7, <2>4 DEF IInv
<1>9. Top' = e
  BY <1>7 DEF Top
<1>10. View' = [p \in WordsOf(n) |->
                  IF p \in InRegister THEN regs'[RegOf(p)] ELSE callee[p]]
  BY <1>9 DEF View, Read
<1>11. AllLocals' = [d \in 1..(Depth + 1) |->
                       [n |-> frames'[d].n,
                        words |-> IF d = Depth + 1 THEN View' ELSE frames'[d].words]]
  BY <1>7 DEF AllLocals
<1>12. /\ View' \in [WordsOf(n) -> Word]
       /\ DistinctRegs => \A p \in WordsOf(k) : View'[p] = View[p + 2 * a]
  <2>1. \A q \in InRegister : regs'[RegOf(q)] \in Word
    BY <1>5, RegOfType
  <2> HIDE DEF callee
  <2> QED BY <1>4, <1>5, <1>10, <2>1
<1>13. /\ Len(AllLocals') = Depth + 1
       /\ \A d \in 1..Depth : AllLocals'[d] = AllLocals[d]
       /\ AllLocals'[Depth + 1] = [n |-> n, words |-> View']
  <2>1. Len(AllLocals') = Depth + 1
    BY <1>2, <1>11
  <2>2. AllLocals'[Depth + 1] = [n |-> n, words |-> View']
    BY <1>2, <1>7, <1>11
  <2>3. ASSUME NEW d \in 1..Depth
        PROVE  AllLocals'[d] = AllLocals[d]
    <3>1. AllLocals'[d] = [n |-> frames'[d].n, words |-> frames'[d].words]
      BY <1>2, <1>11
    <3>2. AllLocals[d] = [n |-> frames[d].n, words |-> IF d = Depth THEN View ELSE frames[d].words]
      BY DEF AllLocals
    <3>3. frames'[d] = IF d = Depth THEN [n |-> Top.n, words |-> View] ELSE frames[d]
      <4> HIDE DEF fs, saved, View
      <4> QED BY <1>3, <1>6, <1>7
    <3>4. Top = frames[Depth]
      BY DEF Top
    <3> HIDE DEF View
    <3> QED BY <3>1, <3>2, <3>3, <3>4
  <2> QED BY <2>1, <2>2, <2>3
<1>14. SubSeq(AllLocals', 1, Depth) = AllLocals
  <2>1. SubSeq(AllLocals', 1, Depth) = [d \in 1..Depth |-> AllLocals'[d]]
    BY <1>2, <1>11, <1>13
  <2>2. AllLocals = [d \in 1..Depth |-> AllLocals[d]]
    BY DEF AllLocals
  <2> QED BY <1>13, <2>1, <2>2
<1>15. DistinctRegs => View' = Private!Copied(View', 0, Private!Top.words, a, k)
  <2> SUFFICES ASSUME DistinctRegs PROVE View' = Private!Copied(View', 0, Private!Top.words, a, k)
    OBVIOUS
  <2>1. Private!Top.words = View
    BY AbstractTop
  <2>2. DOMAIN View' = WordsOf(n) /\ View' = [p \in WordsOf(n) |-> View'[p]]
    BY <1>10
  <2>3. WordsOf(k) = (2 * 0)..(2 * (0 + k) - 1)
    BY <1>2 DEF WordsOf
  <2>4. \A p \in WordsOf(k) : p - 2 * 0 + 2 * a = p + 2 * a
    BY <1>2 DEF WordsOf
  <2>5. Private!Copied(View', 0, View, a, k) =
           [p \in WordsOf(n) |-> IF p \in WordsOf(k) THEN View[p - 2 * 0 + 2 * a] ELSE View'[p]]
    BY <2>2, <2>3 DEF Private!Copied
  <2> HIDE DEF View
  <2> QED BY <1>12, <2>1, <2>2, <2>4, <2>5
<1>16. DistinctRegs => Private!Call(n, a, k)
  <2> SUFFICES ASSUME DistinctRegs PROVE Private!Call(n, a, k)
    OBVIOUS
  <2>1. Len(AllLocals) = Depth
    BY AbstractTop
  <2>2. AllLocals'[Depth + 1].n = n /\ AllLocals'[Depth + 1].words = View'
    BY <1>13
  <2>3. Private!WordsOf(n) = WordsOf(n)
    BY DEF Private!WordsOf, WordsOf
  <2>4. done' = <<"call", n, a, k>>
    BY <1>1
  <2> HIDE DEF View
  <2> QED BY <1>12, <1>13, <1>14, <1>15, <2>1, <2>2, <2>3, <2>4 DEF Private!Call
<1>17. a \in 0..(Private!Top.n - k)
  <2>1. Private!Top.n = Top.n
    BY AbstractTop
  <2> QED BY <2>1
<1> QED BY <1>8, <1>16, <1>17 DEF Private!Next

\* A return passes the results, and puts the locals of the caller where its code
\* looks for them.
LEMMA ReturnImplements ==
    ASSUME IInv, Return
    PROVE  IInv' /\ (DistinctRegs => Private!Next)
<1>1. PICK w, k, b, a :
         /\ w \in Word /\ k \in 0..Top.n /\ b \in 0..(Top.n - k)
         /\ a \in 0..(frames[Depth - 1].n - k)
         /\ LET saved == Stored(Top.words, regs, LimitMoves(b, k))
                words == Copied(frames[Depth - 1].words, a, saved, b, k)
            IN  /\ done' = <<"return", b, a, k>>
                /\ frames' = [SubSeq(frames, 1, Depth - 1) EXCEPT ![Depth - 1].words = words]
                /\ regs' = Loaded(Junk(regs, Reg, w), words, LocalMoves(frames[Depth - 1].n))
  BY DEF Return
<1> /\ w \in Word /\ k \in 0..Top.n /\ b \in 0..(Top.n - k)
    /\ a \in 0..(frames[Depth - 1].n - k)
  BY <1>1
<1> DEFINE D == Depth - 1
           n == frames[D].n
           saved == Stored(Top.words, regs, LimitMoves(b, k))
           words == Copied(frames[D].words, a, saved, b, k)
           fs == SubSeq(frames, 1, D)
<1>2. /\ Depth \in Nat /\ D \in Nat \ {0} /\ D \in 1..Depth /\ D # Depth
      /\ Top.n \in Nat /\ k \in Nat
  <2>1. Depth > 1
    BY DEF Return
  <2> QED BY <2>1, FrameFacts
<1>3. /\ n \in 1..MaxLocals /\ n \in Nat
      /\ frames[D] = [n |-> n, words |-> frames[D].words]
      /\ frames[D].words \in [WordsOf(n) -> Word]
  BY <1>2, FrameFacts, BoundsAssumption
<1>4. \A p \in (2 * a)..(2 * (a + k) - 1) :
         /\ p - 2 * a + 2 * b \in WordsOf(Top.n)
         /\ saved[p - 2 * a + 2 * b] = View[p - 2 * a + 2 * b]
  <2>1. /\ LimitMoves(b, k) \in SUBSET InRegister
        /\ \A q \in InRegister : q \in (2 * b)..(2 * (b + k) - 1) => q \in LimitMoves(b, k)
    BY DEF LimitMoves
  <2>2. \A q \in WordsOf(Top.n) :
           saved[q] = IF q \in LimitMoves(b, k) THEN regs[RegOf(q)] ELSE Top.words[q]
    BY <2>1, StoredWords
  <2>3. ASSUME NEW p \in (2 * a)..(2 * (a + k) - 1)
        PROVE  LET q == p - 2 * a + 2 * b
               IN  q \in WordsOf(Top.n) /\ q \in (2 * b)..(2 * (b + k) - 1)
    BY <1>2, <1>3 DEF WordsOf
  <2>4. \A q \in (2 * b)..(2 * (b + k) - 1) : q \in WordsOf(Top.n) => saved[q] = View[q]
    <3> HIDE DEF saved, View
    <3> QED BY <2>1, <2>2, AbstractTop
  <2> HIDE DEF saved, View
  <2> QED BY <2>3, <2>4
<1>5. /\ words \in [WordsOf(n) -> Word]
      /\ words = Private!Copied(frames[D].words, a, View, b, k)
  <2>1. View \in [WordsOf(Top.n) -> Word]
    BY AbstractTop
  <2> HIDE DEF saved, View
  <2>2. words = [p \in WordsOf(n) |-> IF p \in (2 * a)..(2 * (a + k) - 1)
                                      THEN saved[p - 2 * a + 2 * b] ELSE frames[D].words[p]]
    BY <1>3 DEF Copied
  <2>3. Private!Copied(frames[D].words, a, View, b, k) =
           [p \in WordsOf(n) |-> IF p \in (2 * a)..(2 * (a + k) - 1)
                                 THEN View[p - 2 * a + 2 * b] ELSE frames[D].words[p]]
    BY <1>3 DEF Private!Copied
  <2> HIDE DEF words
  <2> QED BY <1>3, <1>4, <2>1, <2>2, <2>3
<1>6. /\ regs' \in [Reg -> Word]
      /\ DistinctRegs => \A q \in InRegister \cap WordsOf(n) : regs'[RegOf(q)] = words[q]
  <2> DEFINE rs == Junk(regs, Reg, w)
             W == LocalMoves(n)
  <2>1. rs \in [Reg -> Word] /\ DOMAIN rs = Reg
    BY JunkType DEF IInv
  <2>2. W = InRegister \cap WordsOf(n)
    BY <1>3, LocalMovesExact
  <2>3. W \in SUBSET InRegister /\ \A p \in W : words[p] \in Word
    <3> HIDE DEF words, W
    <3> QED BY <1>5, <2>2
  <2>4. regs' = Loaded(rs, words, W)
    BY <1>1
  <2>5. W \in SUBSET Reach
    BY <1>3, <2>2, InReach
  <2> HIDE DEF words, rs, W
  <2> QED BY <2>1, <2>2, <2>3, <2>4, <2>5, LoadedType, LoadedWord
<1>7. /\ fs \in FramesOf(1..MaxLocals, AllWords) /\ Len(fs) = D
      /\ \A d \in 1..D : fs[d] = frames[d]
  <2> DEFINE F == [n : 1..MaxLocals, words : AllWords]
  <2>1. frames \in Seq(F)
    BY DEF IInv, FramesOf
  <2> HIDE DEF F
  <2>2. 1 \in Int /\ D \in Int /\ 1 <= D /\ D <= Len(frames)
    BY <1>2 DEF Depth
  <2>3. \A d \in 1..D : frames[d] \in F
    BY <2>1, <2>2, ElementOfSeq, LenProperties
  <2>4. /\ SubSeq(frames, 1, D) \in Seq(F)
        /\ Len(SubSeq(frames, 1, D)) = IF 1 <= D THEN D - 1 + 1 ELSE 0
        /\ \A d \in 1..(D - 1 + 1) : SubSeq(frames, 1, D)[d] = frames[1 + d - 1]
    BY <2>2, <2>3, SubSeqProperties
  <2>5. fs \in Seq(F) /\ Len(fs) = D /\ \A d \in 1..D : fs[d] = frames[d]
    BY <2>2, <2>4
  <2> HIDE DEF fs, D
  <2>6. fs # <<>>
    BY <2>2, <2>5
  <2> QED BY <2>5, <2>6 DEF F, FramesOf
<1>8. /\ frames' \in FramesOf(1..MaxLocals, AllWords)
      /\ Depth' = D
      /\ \A d \in 1..D :
            frames'[d] = IF d = D THEN [n |-> n, words |-> words] ELSE frames[d]
  <2>1. frames' = [fs EXCEPT ![Len(fs)].words = words]
    BY <1>1, <1>7
  <2>2. words \in AllWords
    <3> HIDE DEF words
    <3> QED BY <1>3, <1>5 DEF AllWords
  <2>3. /\ [fs EXCEPT ![Len(fs)].words = words] \in FramesOf(1..MaxLocals, AllWords \cup {words})
        /\ Len([fs EXCEPT ![Len(fs)].words = words]) = Len(fs)
    <3> HIDE DEF fs, words
    <3> QED BY <1>7, TopChanged
  <2>4. AllWords \cup {words} = AllWords
    BY <2>2
  <2>5. DOMAIN fs = 1..D
    <3> DEFINE F == [n : 1..MaxLocals, words : AllWords]
    <3>1. fs \in Seq(F) /\ Len(fs) = D
      BY <1>7 DEF FramesOf
    <3> HIDE DEF F, fs
    <3> QED BY <3>1, LenProperties
  <2>6. [frames[D] EXCEPT !.words = words] = [n |-> n, words |-> words]
    <3> HIDE DEF words
    <3> QED BY <1>3
  <2> HIDE DEF fs, words
  <2>7. ASSUME NEW d \in 1..D
        PROVE  frames'[d] = IF d = D THEN [n |-> n, words |-> words] ELSE frames[d]
    <3>1. D \in 1..D /\ fs[D] = frames[D] /\ fs[d] = frames[d]
      BY <1>2, <1>7
    <3>2. frames'[d] = IF d = D THEN [fs[D] EXCEPT !.words = words] ELSE fs[d]
      BY <1>7, <2>1, <2>5
    <3> QED BY <2>6, <3>1, <3>2
  <2> QED BY <1>7, <2>1, <2>3, <2>4, <2>7 DEF Depth
<1>9. IInv'
  <2>1. \A d \in 1..Depth : frames[d].words \in [WordsOf(frames[d].n) -> Word]
    BY DEF IInv
  <2>2. ASSUME NEW d \in 1..D
        PROVE  frames'[d].words \in [WordsOf(frames'[d].n) -> Word]
    <3>1. CASE d = D
      <4>1. frames'[d].n = n /\ frames'[d].words = words
        <5> HIDE DEF words
        <5> QED BY <1>8, <3>1
      <4> HIDE DEF words, n
      <4> QED BY <1>5, <4>1
    <3>2. CASE d # D
      BY <1>2, <1>8, <2>1, <3>2
    <3> QED BY <3>1, <3>2
  <2> HIDE DEF D
  <2> QED BY <1>6, <1>8, <2>2 DEF IInv
<1>10. Top' = [n |-> n, words |-> words]
  <2>1. D \in 1..D
    BY <1>2
  <2> HIDE DEF words, n, D
  <2> QED BY <1>8, <2>1 DEF Top
<1>11. DistinctRegs => View' = words
  <2> SUFFICES ASSUME DistinctRegs PROVE View' = words
    OBVIOUS
  <2>1. View' = [p \in WordsOf(n) |->
                    IF p \in InRegister THEN regs'[RegOf(p)] ELSE words[p]]
    BY <1>10 DEF View, Read
  <2> HIDE DEF words, n
  <2> QED BY <1>5, <1>6, <2>1
<1>12. DistinctRegs => AllLocals' = [d \in 1..D |->
                       [n |-> frames[d].n, words |-> IF d = D THEN words ELSE frames[d].words]]
  <2> SUFFICES ASSUME DistinctRegs PROVE AllLocals' = [d \in 1..D |->
                       [n |-> frames[d].n, words |-> IF d = D THEN words ELSE frames[d].words]]
    OBVIOUS
  <2>1. AllLocals' = [d \in 1..D |->
                        [n |-> frames'[d].n, words |-> IF d = D THEN View' ELSE frames'[d].words]]
    BY <1>8 DEF AllLocals
  <2> HIDE DEF words
  <2> QED BY <1>8, <1>11, <2>1
<1>13. /\ Len(AllLocals) = Depth /\ Private!Top.words = View /\ Private!Top.n = Top.n
       /\ \A d \in 1..D : AllLocals[d] = frames[d]
       /\ SubSeq(AllLocals, 1, D) = [d \in 1..D |-> frames[d]]
  <2>1. Len(AllLocals) = Depth /\ Private!Top.words = View /\ Private!Top.n = Top.n
    BY AbstractTop
  <2>2. ASSUME NEW d \in 1..D
        PROVE  AllLocals[d] = frames[d]
    <3>1. d \in 1..Depth /\ d # Depth
      BY <1>2
    <3>2. AllLocals[d] = [n |-> frames[d].n, words |-> frames[d].words]
      BY <3>1 DEF AllLocals
    <3> QED BY <3>1, <3>2, FrameFacts
  <2>3. SubSeq(AllLocals, 1, D) = [d \in 1..D |-> AllLocals[d]]
    BY <1>2, <2>1
  <2> QED BY <2>1, <2>2, <2>3
<1>14. DistinctRegs => Private!Return(b, a, k)
  <2> SUFFICES ASSUME DistinctRegs PROVE Private!Return(b, a, k)
    OBVIOUS
  <2>1. done' = <<"return", b, a, k>>
    BY <1>1
  <2>2. D \in 1..D
    BY <1>2
  <2>3. AllLocals' = [SubSeq(AllLocals, 1, D) EXCEPT
                         ![D].words = Private!Copied(AllLocals[D].words, a, View, b, k)]
    <3>1. AllLocals[D].words = frames[D].words
      BY <1>13, <2>2
    <3>2. [frames[D] EXCEPT !.words = words] = [n |-> n, words |-> words]
      <4> HIDE DEF words
      <4> QED BY <1>3
    <3>3. \A d \in 1..D : frames[d] = [n |-> frames[d].n, words |-> frames[d].words]
      BY <1>2, FrameFacts
    <3>4. [SubSeq(AllLocals, 1, D) EXCEPT ![D].words = words] =
             [d \in 1..D |-> IF d = D THEN [n |-> n, words |-> words] ELSE frames[d]]
      <4> HIDE DEF words
      <4> QED BY <1>13, <2>2, <3>2
    <3>5. AllLocals' = [d \in 1..D |-> IF d = D THEN [n |-> n, words |-> words] ELSE frames[d]]
      <4> HIDE DEF words
      <4> QED BY <1>12, <3>3
    <3> HIDE DEF words, View
    <3> QED BY <1>5, <3>1, <3>4, <3>5
  <2>4. Len(AllLocals) - 1 = D
    BY <1>13
  <2> HIDE DEF View
  <2> QED BY <1>13, <2>1, <2>3, <2>4 DEF Private!Return
<1>15. /\ Len(AllLocals) > 1 /\ k \in 0..Private!Top.n /\ b \in 0..(Private!Top.n - k)
       /\ a \in 0..(AllLocals[Len(AllLocals) - 1].n - k)
  <2>1. AllLocals[D].n = n /\ Len(AllLocals) - 1 = D
    BY <1>2, <1>13
  <2> QED BY <1>2, <1>13, <2>1
<1> QED BY <1>9, <1>14, <1>15 DEF Private!Next

LEMMA InitImplements ==
    ASSUME Init
    PROVE  IInv /\ Private!Init
<1>1. PICK n \in 1..MaxLocals, w \in Word :
          /\ regs = [r \in Reg |-> w]
          /\ frames = <<[n |-> n, words |-> [p \in WordsOf(n) |-> w]]>>
          /\ done = <<"start">>
  BY DEF Init
<1> DEFINE ws == [p \in WordsOf(n) |-> w]
           e == [n |-> n, words |-> ws]
<1>2. ws \in [WordsOf(n) -> Word] /\ ws \in AllWords
  BY DEF AllWords
<1>3. Depth = 1 /\ frames[1] = e /\ frames # <<>>
  BY <1>1 DEF Depth
<1>4. frames \in FramesOf(1..MaxLocals, AllWords)
  <2>1. e \in [n : 1..MaxLocals, words : AllWords]
    BY <1>2
  <2> QED BY <1>1, <2>1 DEF FramesOf
<1>5. IInv
  <2>1. regs \in [Reg -> Word]
    BY <1>1
  <2>2. \A d \in 1..Depth : frames[d].words \in [WordsOf(frames[d].n) -> Word]
    BY <1>2, <1>3
  <2> QED BY <1>4, <2>1, <2>2 DEF IInv
<1>6. AllLocals = <<[n |-> n, words |-> View]>> /\ View \in [WordsOf(n) -> Word]
  <2>1. Top.n = n
    BY <1>3 DEF Top
  <2>2. View \in [WordsOf(n) -> Word]
    BY <1>5, <2>1, AbstractTop
  <2>3. AllLocals = [d \in 1..1 |-> [n |-> n, words |-> View]]
    BY <1>3 DEF AllLocals
  <2> HIDE DEF View
  <2> QED BY <2>2, <2>3
<1>7. Private!Init
  <2>1. Private!WordsOf(n) = WordsOf(n)
    BY DEF Private!WordsOf, WordsOf
  <2> HIDE DEF View, AllLocals
  <2> QED BY <1>1, <1>6, <2>1 DEF Private!Init
<1> QED BY <1>5, <1>7

LEMMA IInvStep ==
    ASSUME IInv, [Next]_vars
    PROVE  IInv' /\ (DistinctRegs => [Private!Next]_<<AllLocals, done>>)
<1>1. CASE Next
  BY <1>1, AssignImplements, CallForTValueImplements, CallForNothingImplements,
     CallImplements, ReturnImplements DEF Next
<1>2. CASE UNCHANGED vars
  BY <1>2 DEF vars, IInv, AllLocals, View, Read, Top, Depth
<1> QED BY <1>1, <1>2

\* The types of the registers and of the stack frames, whatever code runs and
\* whatever the table of registers is like.
THEOREM TypeCorrect == Spec => []TypeOK
<1>1. Init => IInv
  BY InitImplements
<1>2. IInv /\ [Next]_vars => IInv'
  BY IInvStep
<1>3. IInv => TypeOK
  BY FrameFacts DEF IInv, TypeOK
<1> QED BY <1>1, <1>2, <1>3, PTL DEF Spec

\* Locals in registers and in stack words are private to their function, across
\* Lua calls and C calls, in a program whose functions have no more locals than
\* the table has different registers for.
THEOREM LocalsArePrivate == DistinctRegs => (Spec => RefinesPrivateLocals)
<1> SUFFICES ASSUME DistinctRegs PROVE Spec => RefinesPrivateLocals
  OBVIOUS
<1>1. Init => IInv /\ Private!Init
  BY InitImplements
<1>2. IInv /\ [Next]_vars => IInv' /\ [Private!Next]_<<AllLocals, done>>
  BY IInvStep
<1> QED BY <1>1, <1>2, PTL DEF Spec, RefinesPrivateLocals, Private!Spec

-----------------------------------------------------------------------------
(* The table of the program (src/arch/mips/machine.c:153), which has _t6     *)
(* twice: functions of up to seven locals meet neither of the two.           *)

MipsRegTable ==
    <<"s0", "s1", "s2", "s3", "s4", "s5", "s6", "s7",
      "t0", "t1", "t2", "t3", "t4", "t6", "t6", "t7", "t8", "t9">>

LEMMA MipsRegsDistinct ==
    ASSUME RegTable = MipsRegTable, MaxLocals <= 7
    PROVE  DistinctRegs
<1>1. NrSpareRegs = 18
  BY DEF NrSpareRegs, MipsRegTable
<1>2. Reach \subseteq 0..13
  BY <1>1, BoundsAssumption DEF Reach, InRegister, WordsOf
<1>3. \A p \in 0..13 : RegOf(p) =
         <<"s0", "s1", "s2", "s3", "s4", "s5", "s6", "s7", "t0", "t1", "t2", "t3", "t4", "t6">>[p + 1]
  BY DEF RegOf, MipsRegTable
<1> QED BY <1>2, <1>3 DEF DistinctRegs

\* On MIPS, with the register table as it is, locals are private in every
\* program whose functions have up to seven locals.
THEOREM LocalsArePrivateOnMips ==
    RegTable = MipsRegTable /\ MaxLocals <= 7 => (Spec => RefinesPrivateLocals)
BY MipsRegsDistinct, LocalsArePrivate
=============================================================================
