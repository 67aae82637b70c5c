----------------------------- MODULE MainProofs ------------------------------
(***************************************************************************)
(* Theorems about the program: what it keeps of the file that it loads,    *)
(* for every program in the file.  The items of a function are a sequence  *)
(* made of sequences; the invariant says what is left of it at each step   *)
(* of load_function, and what follows each call that has not returned.     *)
(***************************************************************************)
EXTENDS Main, SequenceTheorems, WellFoundedInduction, TLAPS

(* Sequences.  The provers handle an operator of which they know these facts*)
(* better than the one they have axioms for.                               *)

\* Sequences of items of any kind.
IsSeq(s) == \E S : s \in Seq(S)

\* Concatenation, of which only these facts are used.
a ++ b == a \o b

\* Length and domain.
LEMMA SeqFacts ==
    ASSUME NEW s, IsSeq(s)
    PROVE  Len(s) \in Nat /\ DOMAIN s = 1..Len(s)
BY DEF IsSeq

\* The empty sequence.
LEMMA SeqNone == IsSeq(<<>>) /\ Len(<<>>) = 0
<1>1. <<>> \in Seq({})
  OBVIOUS
<1> QED BY <1>1 DEF IsSeq

\* One item.
One(x) == <<x>>

\* A sequence of one item.
LEMMA SeqOne ==
    ASSUME NEW x
    PROVE  IsSeq(One(x)) /\ Len(One(x)) = 1 /\ One(x)[1] = x
<1>1. <<x>> \in Seq({x})
  OBVIOUS
<1> QED BY <1>1 DEF IsSeq, One

\* A concatenation, item by item.
LEMMA SeqConcat ==
    ASSUME NEW a, NEW b, IsSeq(a), IsSeq(b)
    PROVE  /\ IsSeq(a ++ b)
           /\ Len(a ++ b) = Len(a) + Len(b)
           /\ \A i \in 1..Len(a) : (a ++ b)[i] = a[i]
           /\ \A i \in 1..Len(b) : (a ++ b)[Len(a) + i] = b[i]
<1>1. PICK S : a \in Seq(S)
  BY DEF IsSeq
<1>2. PICK T : b \in Seq(T)
  BY DEF IsSeq
<1>3. a \in Seq(S \cup T) /\ b \in Seq(S \cup T)
  BY <1>1, <1>2
<1>4. a ++ b \in Seq(S \cup T)
  BY <1>3 DEF ++
<1>5. IsSeq(a ++ b)
  BY <1>4 DEF IsSeq
<1>6. /\ Len(a ++ b) = Len(a) + Len(b)
      /\ \A i \in 1..Len(a) : (a ++ b)[i] = a[i]
      /\ \A i \in 1..Len(b) : (a ++ b)[Len(a) + i] = b[i]
  BY <1>3 DEF ++
<1> QED BY <1>5, <1>6

\* Sequences of the same items are the same.
LEMMA SeqSame ==
    ASSUME NEW a, NEW b, IsSeq(a), IsSeq(b), Len(a) = Len(b),
           \A i \in 1..Len(a) : a[i] = b[i]
    PROVE  a = b
<1>1. PICK S : a \in Seq(S)
  BY DEF IsSeq
<1>2. PICK T : b \in Seq(T)
  BY DEF IsSeq
<1> QED BY <1>1, <1>2

\* Concatenation is associative.
LEMMA SeqAssociative ==
    ASSUME NEW a, NEW b, NEW c, IsSeq(a), IsSeq(b), IsSeq(c)
    PROVE  (a ++ b) ++ c = a ++ (b ++ c)
<1>1. PICK S : a \in Seq(S)
  BY DEF IsSeq
<1>2. PICK T : b \in Seq(T)
  BY DEF IsSeq
<1>3. PICK U : c \in Seq(U)
  BY DEF IsSeq
<1>4. a \in Seq(S \cup T \cup U) /\ b \in Seq(S \cup T \cup U) /\ c \in Seq(S \cup T \cup U)
  BY <1>1, <1>2, <1>3
<1> QED BY <1>4 DEF ++

\* Nothing is added by the empty sequence.
LEMMA SeqEmpty ==
    ASSUME NEW a, IsSeq(a)
    PROVE  a ++ <<>> = a /\ <<>> ++ a = a
<1>1. PICK S : a \in Seq(S)
  BY DEF IsSeq
<1> QED BY <1>1 DEF ++

\* A function with a list of numbers as its domain.
IsFun(f) == f = [i \in DOMAIN f |-> f[i]]

\* A function on 1..n is a sequence.
LEMMA SeqFunction ==
    ASSUME NEW n \in Nat, NEW f, IsFun(f), DOMAIN f = 1..n
    PROVE  IsSeq(f) /\ Len(f) = n
<1> DEFINE S == {f[i] : i \in 1..n}
<1>1. f \in [1..n -> S]
  <2>1. f = [i \in 1..n |-> f[i]]
    BY DEF IsFun
  <2> QED BY <2>1
<1>2. f \in Seq(S)
  BY <1>1, SeqDef
<1> HIDE DEF S
<1>3. Len(f) = n
  BY <1>1, <1>2
<1> QED BY <1>2, <1>3 DEF IsSeq

\* Induction on the natural numbers, for a set of them.
LEMMA Induction ==
    ASSUME NEW S, 0 \in S, \A n \in Nat : n \in S => n + 1 \in S
    PROVE  Nat \subseteq S
<1> DEFINE R == {ss \in Nat \X Nat : ss[1] < ss[2]}
           T == Nat \ S
<1> SUFFICES ASSUME T # {} PROVE FALSE
  OBVIOUS
<1>1. IsWellFoundedOn(R, Nat)
  BY NatLessThanWellFounded DEF OpToRel
<1>2. PICK x \in T : \A y \in T : <<y, x>> \notin R
  <2> HIDE DEF R
  <2> QED BY <1>1, WFMin
<1>3. x # 0 /\ x - 1 \in Nat /\ x - 1 < x
  BY <1>2
<1>4. x - 1 \in S
  BY <1>2, <1>3
<1> QED BY <1>3, <1>4

\* A list of items is the concatenation of lists.
Parts(L) == IsSeq(L) /\ \A i \in 1..Len(L) : IsSeq(L[i])

\* The concatenation up to each of them.
LEMMA FlattenTurns ==
    ASSUME NEW L, Parts(L), Len(L) > 0
    PROVE  \E f : /\ f[1] = L[1]
                  /\ \A i \in 2..Len(L) : f[i] = f[i - 1] ++ L[i]
                  /\ Load!FlattenSeq(L) = f[Len(L)]
<1> DEFINE n == Len(L)
           At(f, i) == IF i = 1 THEN L[i] ELSE f[i - 1] ++ L[i]
           Body(f) == [i \in 1..n |-> At(f, i)]
           S == {k \in Nat : \E g : g = [i \in 1..(k + 1) |-> At(g, i)]}
<1>1. 0 \in S
  <2> DEFINE g == [i \in 1..(0 + 1) |-> L[1]]
  <2>1. g = [i \in 1..(0 + 1) |-> At(g, i)]
    OBVIOUS
  <2> HIDE DEF g
  <2> QED BY <2>1
<1>2. ASSUME NEW k \in Nat, k \in S PROVE k + 1 \in S
  <2>1. PICK g : g = [i \in 1..(k + 1) |-> At(g, i)]
    BY <1>2
  <2> DEFINE h == [i \in 1..(k + 1 + 1) |-> At(g, i)]
  <2>2. \A i \in 1..(k + 1) : h[i] = g[i]
    <3> HIDE DEF At
    <3> QED BY <2>1
  <2>3. \A i \in 1..(k + 1 + 1) : At(h, i) = At(g, i)
    <3> HIDE DEF h
    <3> SUFFICES ASSUME NEW i \in 1..(k + 1 + 1), i # 1 PROVE h[i - 1] = g[i - 1]
      OBVIOUS
    <3>1. i - 1 \in 1..(k + 1)
      OBVIOUS
    <3> QED BY <2>2, <3>1
  <2>4. h = [i \in 1..(k + 1 + 1) |-> At(h, i)]
    BY <2>3
  <2> HIDE DEF h
  <2>5. \E f : f = [i \in 1..(k + 1 + 1) |-> At(f, i)]
    BY <2>4
  <2>6. k + 1 \in Nat
    OBVIOUS
  <2> QED BY <2>5, <2>6, Zenon
<1>3. PICK g : g = Body(g)
  <2>1. n - 1 \in S
    <3>1. n - 1 \in Nat
      BY SeqFacts DEF Parts
    <3> HIDE DEF S
    <3> QED BY <1>1, <1>2, <3>1, Induction
  <2>2. n - 1 + 1 = n
    BY SeqFacts DEF Parts
  <2> QED BY <2>1, <2>2
<1> DEFINE f == CHOOSE h : h = Body(h)
<1>4. Load!FlattenSeq(L) = f[Len(L)]
  BY DEF Load!FlattenSeq, ++
<1>5. f = Body(f)
  <2> HIDE DEF Body
  <2> QED BY <1>3
<1> HIDE DEF f
<1>6. f[1] = L[1] /\ \A i \in 2..n : f[i] = f[i - 1] ++ L[i]
  <2>1. n \in Nat /\ 1 \in 1..n /\ \A i \in 2..n : i \in 1..n /\ i # 1
    BY SeqFacts DEF Parts
  <2>2. \A i \in 1..n : f[i] = At(f, i)
    <3> HIDE DEF At
    <3> QED BY <1>5
  <2> QED BY <2>1, <2>2
<1> QED BY <1>4, <1>6

\* What follows after each of them.
Follows(R, L, i) == R[i] = L[i + 1] ++ R[i + 1]

\* The whole at the beginning, nothing at the end.
IsRests(R, L) ==
    /\ R[Len(L)] = <<>>
    /\ \A i \in 0..Len(L) : IsSeq(R[i])
    /\ \A i \in 0..(Len(L) - 1) : Follows(R, L, i)

\* The same for the first k lists.
RestsUpto(R, k, L, all) ==
    /\ R[k] = <<>> /\ R[0] = all
    /\ \A i \in 0..k : IsSeq(R[i])
    /\ \A i \in 0..(k - 1) : Follows(R, L, i)

\* One more list at the end.
LEMMA RestsOfOneMore ==
    ASSUME NEW L, NEW m \in Nat, NEW Q, NEW all, RestsUpto(Q, m, L, all), NEW x, x = L[m + 1],
           \A i \in 1..(m + 1) : IsSeq(L[i])
    PROVE  \E R : RestsUpto(R, m + 1, L, all ++ x)
<1> DEFINE R == [i \in 0..(m + 1) |-> IF i = m + 1 THEN <<>> ELSE Q[i] ++ x]
<1>1. R[m + 1] = <<>> /\ \A i \in 0..m : R[i] = Q[i] ++ x
  OBVIOUS
<1> HIDE DEF R
<1>2. IsSeq(x)
  <2>1. m + 1 \in 1..(m + 1)
    OBVIOUS
  <2> QED BY <2>1
<1>3. R[0] = all ++ x
  <2>1. 0 \in 0..m /\ Q[0] = all
    BY DEF RestsUpto
  <2> QED BY <1>1, <2>1
<1>4. ASSUME NEW i \in 0..(m + 1) PROVE IsSeq(R[i])
  <2>1. i = m + 1 \/ i \in 0..m
    OBVIOUS
  <2>2. CASE i = m + 1
    BY <1>1, <2>2, SeqNone
  <2>3. CASE i \in 0..m
    <3>1. IsSeq(Q[i]) /\ R[i] = Q[i] ++ x
      BY <1>1, <2>3 DEF RestsUpto
    <3> QED BY <1>2, <3>1, SeqConcat
  <2> QED BY <2>1, <2>2, <2>3
<1>5. ASSUME NEW i \in 0..(m + 1 - 1) PROVE Follows(R, L, i)
  <2>1. i \in 0..m /\ (i = m \/ (i \in 0..(m - 1) /\ i + 1 \in 0..m /\ i + 1 \in 1..(m + 1)))
    OBVIOUS
  <2>2. CASE i = m
    <3>1. R[i] = <<>> ++ x /\ R[i + 1] = <<>> /\ x = L[i + 1]
      BY <1>1, <2>1, <2>2 DEF RestsUpto
    <3>2. <<>> ++ x = x ++ <<>>
      BY <1>2, SeqEmpty
    <3> QED BY <3>1, <3>2 DEF Follows
  <2>3. CASE i \in 0..(m - 1) /\ i + 1 \in 0..m /\ i + 1 \in 1..(m + 1)
    <3>1. PICK a, b, c, d : a = L[i + 1] /\ b = Q[i + 1] /\ c = Q[i] /\ d = R[i + 1]
      OBVIOUS
    <3>2. c = a ++ b
      BY <2>3, <3>1 DEF RestsUpto, Follows
    <3>3. R[i] = c ++ x /\ d = b ++ x
      BY <1>1, <2>1, <2>3, <3>1
    <3>4. IsSeq(a) /\ IsSeq(b)
      BY <2>3, <3>1 DEF RestsUpto
    <3>5. (a ++ b) ++ x = a ++ (b ++ x)
      BY ONLY <1>2, <3>4, SeqAssociative
    <3> QED BY ONLY <3>1, <3>2, <3>3, <3>5 DEF Follows
  <2> QED BY <2>1, <2>2, <2>3
<1>6. PICK t : t = all ++ x
  OBVIOUS
<1>7. RestsUpto(R, m + 1, L, t)
  <2>1. R[m + 1] = <<>> /\ R[0] = t
    BY ONLY <1>1, <1>3, <1>6
  <2>2. \A i \in 0..(m + 1) : IsSeq(R[i])
    BY ONLY <1>4
  <2>3. \A i \in 0..(m + 1 - 1) : Follows(R, L, i)
    BY ONLY <1>5
  <2> QED BY <2>1, <2>2, <2>3 DEF RestsUpto
<1> QED BY <1>6, <1>7

\* A concatenation can be taken apart list by list.
LEMMA FlattenRests ==
    ASSUME NEW L, Parts(L)
    PROVE  \E R : IsRests(R, L) /\ R[0] = Load!FlattenSeq(L)
<1>1. Len(L) \in Nat /\ \A i \in 1..Len(L) : IsSeq(L[i])
  BY SeqFacts DEF Parts
<1>2. CASE Len(L) = 0
  <2>1. L = <<>>
    BY <1>2, SeqNone, SeqSame DEF Parts
  <2>2. Load!FlattenSeq(L) = <<>>
    BY <1>2, <2>1 DEF Load!FlattenSeq
  <2> DEFINE R == [i \in 0..0 |-> <<>>]
  <2>3. IsRests(R, L) /\ R[0] = Load!FlattenSeq(L)
    BY <1>2, <2>2, SeqNone DEF IsRests
  <2> QED BY <2>3
<1>3. CASE Len(L) > 0
  <2>1. PICK f : /\ f[1] = L[1]
                 /\ \A i \in 2..Len(L) : f[i] = f[i - 1] ++ L[i]
                 /\ Load!FlattenSeq(L) = f[Len(L)]
    BY <1>3, FlattenTurns
  <2> DEFINE S == {k \in Nat : k + 1 <= Len(L) => \E R : RestsUpto(R, k + 1, L, f[k + 1])}
  <2>2. 0 \in S
    <3> DEFINE R == [i \in 0..1 |-> IF i = 0 THEN L[1] ELSE <<>>]
    <3>1. R[0] = L[1] /\ R[1] = <<>>
      OBVIOUS
    <3>2. PICK a : a = L[1] /\ IsSeq(a)
      BY <1>1, <1>3
    <3>3. a = a ++ <<>>
      BY <3>2, SeqEmpty
    <3> HIDE DEF R
    <3>4. RestsUpto(R, 1, L, f[1])
      <4>1. \A i \in 0..1 : IsSeq(R[i])
        BY <3>1, <3>2, SeqNone
      <4>2. ASSUME NEW i \in 0..(1 - 1) PROVE Follows(R, L, i)
        <5>1. i = 0 /\ 0 + 1 = 1
          OBVIOUS
        <5>2. R[0] = L[1] ++ R[1]
          BY <3>1, <3>2, <3>3
        <5> QED BY <5>1, <5>2 DEF Follows
      <4> QED BY <2>1, <3>1, <4>1, <4>2 DEF RestsUpto
    <3> QED BY <3>4
  <2>3. ASSUME NEW k \in Nat, k \in S PROVE k + 1 \in S
    <3>1. SUFFICES ASSUME k + 1 + 1 <= Len(L) PROVE \E R : RestsUpto(R, k + 1 + 1, L, f[k + 1 + 1])
      OBVIOUS
    <3>2. k + 1 <= Len(L)
      BY <1>1, <3>1
    <3>3. PICK Q : RestsUpto(Q, k + 1, L, f[k + 1])
      BY <2>3, <3>2
    <3>4. PICK m, g, x : m \in Nat /\ m = k + 1 /\ g = f[k + 1] /\ x = L[m + 1]
      OBVIOUS
    <3>5. RestsUpto(Q, m, L, g) /\ \A i \in 1..(m + 1) : IsSeq(L[i])
      BY <1>1, <3>1, <3>3, <3>4
    <3>6. f[m + 1] = g ++ x
      <4>1. PICK j \in 2..Len(L) : j = m + 1 /\ j - 1 = m
        BY <1>1, <3>1, <3>4
      <4>2. f[j] = f[j - 1] ++ L[j]
        BY <2>1
      <4>3. f[j - 1] = g /\ L[j] = x
        BY <3>4, <4>1
      <4> QED BY <4>1, <4>2, <4>3
    <3>7. \E R : RestsUpto(R, m + 1, L, g ++ x)
      BY <3>4, <3>5, RestsOfOneMore
    <3> QED BY <3>4, <3>6, <3>7
  <2>4. Len(L) - 1 \in S
    <3>1. Len(L) - 1 \in Nat
      BY <1>1, <1>3
    <3> HIDE DEF S
    <3> QED BY <2>2, <2>3, <3>1, Induction
  <2>5. PICK R : RestsUpto(R, Len(L), L, f[Len(L)])
    <3>1. Len(L) - 1 + 1 = Len(L)
      BY <1>1
    <3>2. \E R : RestsUpto(R, Len(L) - 1 + 1, L, f[Len(L) - 1 + 1])
      BY <1>1, <2>4, <3>1
    <3> QED BY <3>1, <3>2
  <2> QED BY <2>1, <2>5 DEF RestsUpto, IsRests
<1> QED BY <1>1, <1>2, <1>3

\* What follows after each list, in the concatenation of all.
Rests(L) == CHOOSE R : IsRests(R, L) /\ R[0] = Load!FlattenSeq(L)

\* What Rests is.
LEMMA RestsOf ==
    ASSUME NEW L, Parts(L)
    PROVE  /\ IsRests(Rests(L), L)
           /\ Rests(L)[0] = Load!FlattenSeq(L)
           /\ IsSeq(Load!FlattenSeq(L))
<1>1. IsRests(Rests(L), L) /\ Rests(L)[0] = Load!FlattenSeq(L)
  BY FlattenRests DEF Rests
<1>2. 0 \in 0..Len(L)
  BY SeqFacts DEF Parts
<1> QED BY <1>1, <1>2 DEF IsRests

-----------------------------------------------------------------------------
(* What there is to read of a function.                                    *)

\* The items of the lists of a function.
ConstantItems(p) == [i \in DOMAIN p.constants |-> Load!Constant(p.constants[i])]
LocalItems(p) == [i \in DOMAIN p.locals |-> Load!LocalVar(p.locals[i])]
NameItems(p) == [i \in DOMAIN p.names |-> Load!Counted(p.names[i])]

\* What there is to read of a function, at each point of reading it.
RestNames(p, i) == Rests(NameItems(p))[i]
RestNameCount(p) == One(Len(p.names)) ++ RestNames(p, 0)
RestLocals(p, i) == Rests(LocalItems(p))[i] ++ RestNameCount(p)
RestLocalCount(p) == One(Len(p.locals)) ++ RestLocals(p, 0)
RestLines(p) == Load!Counted(p.lines) ++ RestLocalCount(p)
RestDebug(p) == Load!Counted(p.source) ++ RestLines(p)
RestUpvalues(p) == Load!Counted(p.upvalues) ++ RestDebug(p)
RestKids(p, ks, i) == Rests(ks)[i] ++ RestUpvalues(p)
RestKidCount(p, ks) == One(Len(p.kids)) ++ RestKids(p, ks, 0)
RestConstants(p, ks, i) == Rests(ConstantItems(p))[i] ++ RestKidCount(p, ks)
RestConstantCount(p, ks) == One(Len(p.constants)) ++ RestConstants(p, ks, 0)
RestCode(p, ks) == Load!Counted(p.code) ++ RestConstantCount(p, ks)
Members(p) == <<0, 0, p.numparams, 0, p.maxstacksize>>
RestAll(p, ks) == Members(p) ++ RestCode(p, ks)

\* A function of a program.
IsSource(p) ==
    /\ IsSeq(p.code) /\ IsSeq(p.constants) /\ IsSeq(p.kids) /\ IsSeq(p.upvalues) /\ IsSeq(p.source)
    /\ IsSeq(p.lines) /\ IsSeq(p.locals) /\ IsSeq(p.names)
    /\ \A i \in 1..Len(p.constants) : Load!IsConstant(p.constants[i])
    /\ \A i \in 1..Len(p.locals) : IsSeq(p.locals[i])
    /\ \A i \in 1..Len(p.names) : IsSeq(p.names[i])

\* The lists of a program are sequences.
LEMMA ListIsSeq ==
    ASSUME NEW s, Load!IsList(s)
    PROVE  IsSeq(s)
BY DEF Load!IsList, IsSeq

\* Every node of a program is a function, with those inside it further on.
LEMMA FunctionsAreSources ==
    ASSUME NEW c, Load!IsProgram(c), NEW n \in 1..Len(c)
    PROVE  /\ IsSeq(c) /\ Len(c) \in Nat /\ Len(c) > 0
           /\ IsSource(c[n])
           /\ \A i \in 1..Len(c[n].kids) : c[n].kids[i] \in (n + 1)..Len(c)
<1>1. IsSeq(c) /\ c # <<>>
  BY ListIsSeq DEF Load!IsProgram
<1>2. Len(c) \in Nat /\ DOMAIN c = 1..Len(c)
  BY <1>1, SeqFacts
<1>3. PICK p : p = c[n]
  OBVIOUS
<1>4. /\ Load!IsList(p.code) /\ Load!IsList(p.constants) /\ Load!IsList(p.upvalues) /\ Load!IsList(p.source)
      /\ Load!IsList(p.lines) /\ Load!IsList(p.locals) /\ Load!IsList(p.names)
      /\ \A i \in DOMAIN p.constants : Load!IsConstant(p.constants[i])
      /\ \A i \in DOMAIN p.locals : Load!IsList(p.locals[i])
      /\ \A i \in DOMAIN p.names : Load!IsList(p.names[i])
      /\ p.kids \in Seq((n + 1)..Len(c))
  <2> HIDE DEF Load!IsList
  <2> QED BY <1>2, <1>3 DEF Load!IsProgram
<1>5. IsSeq(p.kids) /\ \A i \in 1..Len(p.kids) : p.kids[i] \in (n + 1)..Len(c)
  BY <1>4 DEF IsSeq
<1>6. IsSource(p)
  <2>1. /\ IsSeq(p.code) /\ IsSeq(p.constants) /\ IsSeq(p.upvalues) /\ IsSeq(p.source)
        /\ IsSeq(p.lines) /\ IsSeq(p.locals) /\ IsSeq(p.names)
    BY <1>4, ListIsSeq
  <2>2. DOMAIN p.constants = 1..Len(p.constants) /\ DOMAIN p.locals = 1..Len(p.locals)
        /\ DOMAIN p.names = 1..Len(p.names)
    BY <2>1, SeqFacts
  <2>3. \A i \in 1..Len(p.locals) : IsSeq(p.locals[i])
    BY <1>4, <2>2, ListIsSeq
  <2>4. \A i \in 1..Len(p.names) : IsSeq(p.names[i])
    BY <1>4, <2>2, ListIsSeq
  <2> QED BY <1>4, <1>5, <2>1, <2>2, <2>3, <2>4 DEF IsSource
<1> QED BY <1>1, <1>2, <1>3, <1>5, <1>6

\* A count and what it counts are one item more.
LEMMA CountedIsSeq ==
    ASSUME NEW s, IsSeq(s)
    PROVE  IsSeq(Load!Counted(s)) /\ Len(Load!Counted(s)) = 1 + Len(s)
<1>1. Load!Counted(s) = One(Len(s)) ++ s
  BY DEF Load!Counted, ++, One
<1>2. PICK a : a = One(Len(s)) /\ IsSeq(a) /\ Len(a) = 1
  BY SeqOne
<1>3. IsSeq(a ++ s) /\ Len(a ++ s) = Len(a) + Len(s)
  BY <1>2, SeqConcat
<1> QED BY <1>1, <1>2, <1>3

\* The items of a constant.
LEMMA ConstantIsSeq ==
    ASSUME NEW x, Load!IsConstant(x)
    PROVE  IsSeq(Load!Constant(x))
<1>1. \A a, b : IsSeq(<<a, b>>)
  <2> SUFFICES ASSUME NEW a, NEW b PROVE IsSeq(<<a, b>>)
    OBVIOUS
  <2>1. <<a, b>> \in Seq({a, b})
    OBVIOUS
  <2> QED BY <2>1 DEF IsSeq
<1>2. CASE x.tag = Load!StringTag
  <2>1. IsSeq(x.text)
    BY <1>2, ListIsSeq DEF Load!IsConstant
  <2>2. IsSeq(<<x.tag, Len(x.text)>> ++ x.text)
    BY <1>1, <2>1, SeqConcat
  <2> QED BY <1>2, <2>2 DEF Load!Constant, ++
<1>3. CASE x.tag # Load!StringTag
  BY <1>1, <1>3 DEF Load!Constant, ++
<1> QED BY <1>2, <1>3

\* The items of a local variable.
LEMMA LocalIsSeq ==
    ASSUME NEW s, IsSeq(s)
    PROVE  IsSeq(Load!LocalVar(s)) /\ Len(Load!LocalVar(s)) = 3 + Len(s)
<1>1. <<0, 0>> \in Seq({0}) /\ Len(<<0, 0>>) = 2
  OBVIOUS
<1>2. IsSeq(<<0, 0>>)
  BY <1>1 DEF IsSeq
<1>3. PICK t, z : t = Load!Counted(s) /\ IsSeq(t) /\ Len(t) = 1 + Len(s) /\ z = <<0, 0>> /\ IsSeq(z) /\ Len(z) = 2
  BY <1>1, <1>2, CountedIsSeq
<1>4. IsSeq(t ++ z) /\ Len(t ++ z) = Len(t) + Len(z)
  BY <1>3, SeqConcat
<1>5. Len(s) \in Nat
  BY SeqFacts
<1> QED BY <1>3, <1>4, <1>5 DEF Load!LocalVar, ++

\* The lists of a function, as lists of items.
LEMMA ItemLists ==
    ASSUME NEW p, IsSource(p)
    PROVE  /\ Parts(ConstantItems(p)) /\ Len(ConstantItems(p)) = Len(p.constants)
           /\ Parts(LocalItems(p)) /\ Len(LocalItems(p)) = Len(p.locals)
           /\ Parts(NameItems(p)) /\ Len(NameItems(p)) = Len(p.names)
<1>1. /\ Len(p.constants) \in Nat /\ DOMAIN p.constants = 1..Len(p.constants)
      /\ Len(p.locals) \in Nat /\ DOMAIN p.locals = 1..Len(p.locals)
      /\ Len(p.names) \in Nat /\ DOMAIN p.names = 1..Len(p.names)
  BY SeqFacts DEF IsSource
<1>2. IsSeq(ConstantItems(p)) /\ Len(ConstantItems(p)) = Len(p.constants)
  <2>1. IsFun(ConstantItems(p)) /\ DOMAIN ConstantItems(p) = 1..Len(p.constants)
    BY <1>1 DEF ConstantItems, IsFun
  <2> QED BY <1>1, <2>1, SeqFunction
<1>3. IsSeq(LocalItems(p)) /\ Len(LocalItems(p)) = Len(p.locals)
  <2>1. IsFun(LocalItems(p)) /\ DOMAIN LocalItems(p) = 1..Len(p.locals)
    BY <1>1 DEF LocalItems, IsFun
  <2> QED BY <1>1, <2>1, SeqFunction
<1>4. IsSeq(NameItems(p)) /\ Len(NameItems(p)) = Len(p.names)
  <2>1. IsFun(NameItems(p)) /\ DOMAIN NameItems(p) = 1..Len(p.names)
    BY <1>1 DEF NameItems, IsFun
  <2> QED BY <1>1, <2>1, SeqFunction
<1>5. \A i \in 1..Len(p.constants) : IsSeq(ConstantItems(p)[i])
  BY <1>1, ConstantIsSeq DEF IsSource, ConstantItems
<1>6. \A i \in 1..Len(p.locals) : IsSeq(LocalItems(p)[i])
  BY <1>1, LocalIsSeq DEF IsSource, LocalItems
<1>7. \A i \in 1..Len(p.names) : IsSeq(NameItems(p)[i])
  BY <1>1, CountedIsSeq DEF IsSource, NameItems
<1> QED BY <1>2, <1>3, <1>4, <1>5, <1>6, <1>7 DEF Parts

\* What is left of a list, with all that follows.
LEMMA RestsThen ==
    ASSUME NEW L, Parts(L), NEW T, IsSeq(T), NEW i \in 0..Len(L)
    PROVE  /\ IsSeq(Rests(L)[i] ++ T)
           /\ i = Len(L) => Rests(L)[i] ++ T = T
           /\ i < Len(L) => /\ Rests(L)[i] ++ T = L[i + 1] ++ (Rests(L)[i + 1] ++ T)
                            /\ IsSeq(L[i + 1])
<1>1. PICK R : R = Rests(L) /\ IsRests(R, L)
  BY RestsOf
<1>2. Len(L) \in Nat
  BY SeqFacts DEF Parts
<1>3. PICK r : r = R[i] /\ IsSeq(r)
  BY <1>1 DEF IsRests
<1>4. IsSeq(r ++ T)
  BY <1>3, SeqConcat
<1>5. CASE i = Len(L)
  <2>1. r = <<>>
    BY <1>1, <1>3, <1>5 DEF IsRests
  <2>2. r ++ T = T
    BY <2>1, SeqEmpty
  <2> QED BY <1>1, <1>3, <1>4, <1>5, <2>2
<1>6. CASE i < Len(L)
  <2>1. i \in 0..(Len(L) - 1) /\ i + 1 \in 0..Len(L) /\ i + 1 \in 1..Len(L)
    BY <1>2, <1>6
  <2>2. PICK x, y : x = L[i + 1] /\ y = R[i + 1] /\ IsSeq(x) /\ IsSeq(y)
    BY <1>1, <2>1 DEF IsRests, Parts
  <2>3. r = x ++ y
    BY <1>1, <1>3, <2>1, <2>2 DEF IsRests, Follows
  <2>4. (x ++ y) ++ T = x ++ (y ++ T)
    BY <2>2, SeqAssociative
  <2>5. r ++ T = x ++ (y ++ T)
    BY ONLY <2>3, <2>4
  <2>6. i # Len(L)
    BY <1>2, <1>6
  <2> QED BY <1>1, <1>3, <1>4, <2>2, <2>5, <2>6
<1> QED BY <1>2, <1>5, <1>6

\* A count before a sequence.
LEMMA CountSeq ==
    ASSUME NEW x, NEW T, IsSeq(T)
    PROVE  IsSeq(One(x) ++ T)
BY SeqOne, SeqConcat

\* What there is to read is a sequence, at each point.
LEMMA RestSeqs ==
    ASSUME NEW p, IsSource(p), NEW ks, Parts(ks), Len(ks) = Len(p.kids)
    PROVE  /\ \A i \in 0..Len(p.names) : IsSeq(RestNames(p, i))
           /\ IsSeq(RestNameCount(p))
           /\ \A i \in 0..Len(p.locals) : IsSeq(RestLocals(p, i))
           /\ IsSeq(RestLocalCount(p)) /\ IsSeq(RestLines(p)) /\ IsSeq(RestDebug(p)) /\ IsSeq(RestUpvalues(p))
           /\ \A i \in 0..Len(p.kids) : IsSeq(RestKids(p, ks, i))
           /\ IsSeq(RestKidCount(p, ks))
           /\ \A i \in 0..Len(p.constants) : IsSeq(RestConstants(p, ks, i))
           /\ IsSeq(RestConstantCount(p, ks)) /\ IsSeq(RestCode(p, ks)) /\ IsSeq(Members(p)) /\ IsSeq(RestAll(p, ks))
<1>1. \A i \in 0..Len(p.names) : IsSeq(RestNames(p, i))
  <2>1. IsRests(Rests(NameItems(p)), NameItems(p)) /\ Len(NameItems(p)) = Len(p.names)
    BY ItemLists, RestsOf
  <2> QED BY <2>1 DEF IsRests, RestNames
<1>2. Len(p.names) \in Nat /\ Len(p.locals) \in Nat /\ Len(p.kids) \in Nat /\ Len(p.constants) \in Nat
  BY SeqFacts DEF IsSource
<1>3. IsSeq(RestNameCount(p))
  <2>1. IsSeq(RestNames(p, 0))
    BY <1>1, <1>2
  <2> QED BY <2>1, CountSeq DEF RestNameCount
<1>4. \A i \in 0..Len(p.locals) : IsSeq(RestLocals(p, i))
  <2>1. Parts(LocalItems(p)) /\ Len(LocalItems(p)) = Len(p.locals)
    BY ItemLists
  <2> QED BY <1>3, <2>1, RestsThen DEF RestLocals
<1>5. IsSeq(RestLocalCount(p))
  <2>1. IsSeq(RestLocals(p, 0))
    BY <1>2, <1>4
  <2> QED BY <2>1, CountSeq DEF RestLocalCount
<1>6. IsSeq(RestLines(p))
  <2>1. IsSeq(Load!Counted(p.lines))
    BY CountedIsSeq DEF IsSource
  <2> QED BY <1>5, <2>1, SeqConcat DEF RestLines
<1>7. IsSeq(RestDebug(p))
  <2>1. IsSeq(Load!Counted(p.source))
    BY CountedIsSeq DEF IsSource
  <2> QED BY <1>6, <2>1, SeqConcat DEF RestDebug
<1>8. IsSeq(RestUpvalues(p))
  <2>1. IsSeq(Load!Counted(p.upvalues))
    BY CountedIsSeq DEF IsSource
  <2> QED BY <1>7, <2>1, SeqConcat DEF RestUpvalues
<1>9. \A i \in 0..Len(p.kids) : IsSeq(RestKids(p, ks, i))
  BY <1>8, RestsThen DEF RestKids
<1>10. IsSeq(RestKidCount(p, ks))
  <2>1. IsSeq(RestKids(p, ks, 0))
    BY <1>2, <1>9
  <2> QED BY <2>1, CountSeq DEF RestKidCount
<1>11. \A i \in 0..Len(p.constants) : IsSeq(RestConstants(p, ks, i))
  <2>1. Parts(ConstantItems(p)) /\ Len(ConstantItems(p)) = Len(p.constants)
    BY ItemLists
  <2> QED BY <1>10, <2>1, RestsThen DEF RestConstants
<1>12. IsSeq(RestConstantCount(p, ks))
  <2>1. IsSeq(RestConstants(p, ks, 0))
    BY <1>2, <1>11
  <2> QED BY <2>1, CountSeq DEF RestConstantCount
<1>13. IsSeq(RestCode(p, ks))
  <2>1. IsSeq(Load!Counted(p.code))
    BY CountedIsSeq DEF IsSource
  <2> QED BY <1>12, <2>1, SeqConcat DEF RestCode
<1>14. IsSeq(Members(p))
  <2>1. Members(p) \in Seq({0, p.numparams, p.maxstacksize})
    BY DEF Members
  <2> QED BY <2>1 DEF IsSeq
<1>15. IsSeq(RestAll(p, ks))
  BY <1>13, <1>14, SeqConcat DEF RestAll
<1> QED BY <1>1, <1>3, <1>4, <1>5, <1>6, <1>7, <1>8, <1>9, <1>10, <1>11, <1>12, <1>13, <1>14, <1>15

\* Thirteen lists in a row.
LEMMA Reassociate ==
    ASSUME NEW a1, NEW a2, NEW a3, NEW a4, NEW a5, NEW a6, NEW a7, NEW a8, NEW a9, NEW a10, NEW a11, NEW a12, NEW a13,
           IsSeq(a1), IsSeq(a2), IsSeq(a3), IsSeq(a4), IsSeq(a5), IsSeq(a6), IsSeq(a7), IsSeq(a8), IsSeq(a9), IsSeq(a10), IsSeq(a11), IsSeq(a12), IsSeq(a13)
    PROVE  a1 ++ a2 ++ a3 ++ a4 ++ a5 ++ a6 ++ a7 ++ a8 ++ a9 ++ a10 ++ a11 ++ a12 ++ a13 =
               a1 ++ (a2 ++ (a3 ++ (a4 ++ (a5 ++ (a6 ++ (a7 ++ (a8 ++ (a9 ++ (a10 ++ (a11 ++ (a12 ++ a13)))))))))))
<1>1. PICK x2 : x2 = a1 ++ a2 /\ IsSeq(x2)
  BY SeqConcat
<1>2. PICK x3 : x3 = x2 ++ a3 /\ IsSeq(x3)
  BY <1>1, SeqConcat
<1>3. PICK x4 : x4 = x3 ++ a4 /\ IsSeq(x4)
  BY <1>2, SeqConcat
<1>4. PICK x5 : x5 = x4 ++ a5 /\ IsSeq(x5)
  BY <1>3, SeqConcat
<1>5. PICK x6 : x6 = x5 ++ a6 /\ IsSeq(x6)
  BY <1>4, SeqConcat
<1>6. PICK x7 : x7 = x6 ++ a7 /\ IsSeq(x7)
  BY <1>5, SeqConcat
<1>7. PICK x8 : x8 = x7 ++ a8 /\ IsSeq(x8)
  BY <1>6, SeqConcat
<1>8. PICK x9 : x9 = x8 ++ a9 /\ IsSeq(x9)
  BY <1>7, SeqConcat
<1>9. PICK x10 : x10 = x9 ++ a10 /\ IsSeq(x10)
  BY <1>8, SeqConcat
<1>10. PICK x11 : x11 = x10 ++ a11 /\ IsSeq(x11)
  BY <1>9, SeqConcat
<1>11. PICK x12 : x12 = x11 ++ a12 /\ IsSeq(x12)
  BY <1>10, SeqConcat
<1>12. PICK y12 : y12 = a12 ++ a13 /\ IsSeq(y12)
  BY SeqConcat
<1>13. PICK y11 : y11 = a11 ++ y12 /\ IsSeq(y11)
  BY <1>12, SeqConcat
<1>14. PICK y10 : y10 = a10 ++ y11 /\ IsSeq(y10)
  BY <1>13, SeqConcat
<1>15. PICK y9 : y9 = a9 ++ y10 /\ IsSeq(y9)
  BY <1>14, SeqConcat
<1>16. PICK y8 : y8 = a8 ++ y9 /\ IsSeq(y8)
  BY <1>15, SeqConcat
<1>17. PICK y7 : y7 = a7 ++ y8 /\ IsSeq(y7)
  BY <1>16, SeqConcat
<1>18. PICK y6 : y6 = a6 ++ y7 /\ IsSeq(y6)
  BY <1>17, SeqConcat
<1>19. PICK y5 : y5 = a5 ++ y6 /\ IsSeq(y5)
  BY <1>18, SeqConcat
<1>20. PICK y4 : y4 = a4 ++ y5 /\ IsSeq(y4)
  BY <1>19, SeqConcat
<1>21. PICK y3 : y3 = a3 ++ y4 /\ IsSeq(y3)
  BY <1>20, SeqConcat
<1>22. PICK y2 : y2 = a2 ++ y3 /\ IsSeq(y2)
  BY <1>21, SeqConcat
<1>23. x12 ++ a13 = x11 ++ y12
  <2>1. (x11 ++ a12) ++ a13 = x11 ++ (a12 ++ a13)
    BY <1>11, <1>12, SeqAssociative, <1>10
  <2> QED BY ONLY <2>1, <1>11, <1>12
<1>24. x11 ++ y12 = x10 ++ y11
  <2>1. (x10 ++ a11) ++ y12 = x10 ++ (a11 ++ y12)
    BY <1>10, <1>13, SeqAssociative, <1>9, <1>12
  <2> QED BY ONLY <2>1, <1>10, <1>13
<1>25. x10 ++ y11 = x9 ++ y10
  <2>1. (x9 ++ a10) ++ y11 = x9 ++ (a10 ++ y11)
    BY <1>9, <1>14, SeqAssociative, <1>8, <1>13
  <2> QED BY ONLY <2>1, <1>9, <1>14
<1>26. x9 ++ y10 = x8 ++ y9
  <2>1. (x8 ++ a9) ++ y10 = x8 ++ (a9 ++ y10)
    BY <1>8, <1>15, SeqAssociative, <1>7, <1>14
  <2> QED BY ONLY <2>1, <1>8, <1>15
<1>27. x8 ++ y9 = x7 ++ y8
  <2>1. (x7 ++ a8) ++ y9 = x7 ++ (a8 ++ y9)
    BY <1>7, <1>16, SeqAssociative, <1>6, <1>15
  <2> QED BY ONLY <2>1, <1>7, <1>16
<1>28. x7 ++ y8 = x6 ++ y7
  <2>1. (x6 ++ a7) ++ y8 = x6 ++ (a7 ++ y8)
    BY <1>6, <1>17, SeqAssociative, <1>5, <1>16
  <2> QED BY ONLY <2>1, <1>6, <1>17
<1>29. x6 ++ y7 = x5 ++ y6
  <2>1. (x5 ++ a6) ++ y7 = x5 ++ (a6 ++ y7)
    BY <1>5, <1>18, SeqAssociative, <1>4, <1>17
  <2> QED BY ONLY <2>1, <1>5, <1>18
<1>30. x5 ++ y6 = x4 ++ y5
  <2>1. (x4 ++ a5) ++ y6 = x4 ++ (a5 ++ y6)
    BY <1>4, <1>19, SeqAssociative, <1>3, <1>18
  <2> QED BY ONLY <2>1, <1>4, <1>19
<1>31. x4 ++ y5 = x3 ++ y4
  <2>1. (x3 ++ a4) ++ y5 = x3 ++ (a4 ++ y5)
    BY <1>3, <1>20, SeqAssociative, <1>2, <1>19
  <2> QED BY ONLY <2>1, <1>3, <1>20
<1>32. x3 ++ y4 = x2 ++ y3
  <2>1. (x2 ++ a3) ++ y4 = x2 ++ (a3 ++ y4)
    BY <1>2, <1>21, SeqAssociative, <1>1, <1>20
  <2> QED BY ONLY <2>1, <1>2, <1>21
<1>33. x2 ++ y3 = a1 ++ y2
  <2>1. (a1 ++ a2) ++ y3 = a1 ++ (a2 ++ y3)
    BY <1>1, <1>22, SeqAssociative, <1>21
  <2> QED BY ONLY <2>1, <1>1, <1>22
<1>34. x12 ++ a13 = a1 ++ y2
  BY ONLY <1>23, <1>24, <1>25, <1>26, <1>27, <1>28, <1>29, <1>30, <1>31, <1>32, <1>33
<1> QED BY ONLY <1>1, <1>2, <1>3, <1>4, <1>5, <1>6, <1>7, <1>8, <1>9, <1>10, <1>11, <1>12, <1>13, <1>14, <1>15, <1>16, <1>17, <1>18, <1>19, <1>20, <1>21, <1>22, <1>34

\* The items of a function are what there is to read at its first one.
LEMMA ItemsInOrder ==
    ASSUME NEW p, IsSource(p), NEW ks, Parts(ks)
    PROVE  Load!FunctionItems(p, ks) = RestAll(p, ks)
<1>1. PICK a1 : a1 = Members(p) /\ IsSeq(a1)
  <2>1. Members(p) \in Seq({0, p.numparams, p.maxstacksize})
    BY DEF Members
  <2> QED BY <2>1 DEF IsSeq
<1>2. PICK a2 : a2 = Load!Counted(p.code) /\ IsSeq(a2)
  BY CountedIsSeq DEF IsSource
<1>3. PICK a3 : a3 = One(Len(p.constants)) /\ IsSeq(a3)
  BY SeqOne
<1>4. PICK a4 : a4 = Load!FlattenSeq(ConstantItems(p)) /\ IsSeq(a4) /\ Rests(ConstantItems(p))[0] = a4
  BY ItemLists, RestsOf
<1>5. PICK a5 : a5 = One(Len(p.kids)) /\ IsSeq(a5)
  BY SeqOne
<1>6. PICK a6 : a6 = Load!FlattenSeq(ks) /\ IsSeq(a6) /\ Rests(ks)[0] = a6
  BY RestsOf
<1>7. PICK a7 : a7 = Load!Counted(p.upvalues) /\ IsSeq(a7)
  BY CountedIsSeq DEF IsSource
<1>8. PICK a8 : a8 = Load!Counted(p.source) /\ IsSeq(a8)
  BY CountedIsSeq DEF IsSource
<1>9. PICK a9 : a9 = Load!Counted(p.lines) /\ IsSeq(a9)
  BY CountedIsSeq DEF IsSource
<1>10. PICK a10 : a10 = One(Len(p.locals)) /\ IsSeq(a10)
  BY SeqOne
<1>11. PICK a11 : a11 = Load!FlattenSeq(LocalItems(p)) /\ IsSeq(a11) /\ Rests(LocalItems(p))[0] = a11
  BY ItemLists, RestsOf
<1>12. PICK a12 : a12 = One(Len(p.names)) /\ IsSeq(a12)
  BY SeqOne
<1>13. PICK a13 : a13 = Load!FlattenSeq(NameItems(p)) /\ IsSeq(a13) /\ Rests(NameItems(p))[0] = a13
  BY ItemLists, RestsOf
<1>14. Load!FunctionItems(p, ks) = a1 ++ a2 ++ a3 ++ a4 ++ a5 ++ a6 ++ a7 ++ a8 ++ a9 ++ a10 ++ a11 ++ a12 ++ a13
  BY ONLY <1>1, <1>2, <1>3, <1>4, <1>5, <1>6, <1>7, <1>8, <1>9, <1>10, <1>11, <1>12, <1>13 DEF Load!FunctionItems, ++, One, Members, ConstantItems, LocalItems, NameItems
<1>15. RestNames(p, 0) = a13
  BY ONLY <1>13 DEF RestNames
<1>16. RestNameCount(p) = a12 ++ a13
  BY ONLY <1>12, <1>15 DEF RestNameCount
<1>17. RestLocals(p, 0) = a11 ++ (a12 ++ a13)
  BY ONLY <1>11, <1>16 DEF RestLocals
<1>18. RestLocalCount(p) = a10 ++ (a11 ++ (a12 ++ a13))
  BY ONLY <1>10, <1>17 DEF RestLocalCount
<1>19. RestLines(p) = a9 ++ (a10 ++ (a11 ++ (a12 ++ a13)))
  BY ONLY <1>9, <1>18 DEF RestLines
<1>20. RestDebug(p) = a8 ++ (a9 ++ (a10 ++ (a11 ++ (a12 ++ a13))))
  BY ONLY <1>8, <1>19 DEF RestDebug
<1>21. RestUpvalues(p) = a7 ++ (a8 ++ (a9 ++ (a10 ++ (a11 ++ (a12 ++ a13)))))
  BY ONLY <1>7, <1>20 DEF RestUpvalues
<1>22. RestKids(p, ks, 0) = a6 ++ (a7 ++ (a8 ++ (a9 ++ (a10 ++ (a11 ++ (a12 ++ a13))))))
  BY ONLY <1>6, <1>21 DEF RestKids
<1>23. RestKidCount(p, ks) = a5 ++ (a6 ++ (a7 ++ (a8 ++ (a9 ++ (a10 ++ (a11 ++ (a12 ++ a13)))))))
  BY ONLY <1>5, <1>22 DEF RestKidCount
<1>24. RestConstants(p, ks, 0) = a4 ++ (a5 ++ (a6 ++ (a7 ++ (a8 ++ (a9 ++ (a10 ++ (a11 ++ (a12 ++ a13))))))))
  BY ONLY <1>4, <1>23 DEF RestConstants
<1>25. RestConstantCount(p, ks) = a3 ++ (a4 ++ (a5 ++ (a6 ++ (a7 ++ (a8 ++ (a9 ++ (a10 ++ (a11 ++ (a12 ++ a13)))))))))
  BY ONLY <1>3, <1>24 DEF RestConstantCount
<1>26. RestCode(p, ks) = a2 ++ (a3 ++ (a4 ++ (a5 ++ (a6 ++ (a7 ++ (a8 ++ (a9 ++ (a10 ++ (a11 ++ (a12 ++ a13))))))))))
  BY ONLY <1>2, <1>25 DEF RestCode
<1>27. RestAll(p, ks) = a1 ++ (a2 ++ (a3 ++ (a4 ++ (a5 ++ (a6 ++ (a7 ++ (a8 ++ (a9 ++ (a10 ++ (a11 ++ (a12 ++ a13)))))))))))
  BY ONLY <1>1, <1>26 DEF RestAll
<1>28. a1 ++ a2 ++ a3 ++ a4 ++ a5 ++ a6 ++ a7 ++ a8 ++ a9 ++ a10 ++ a11 ++ a12 ++ a13 =
           a1 ++ (a2 ++ (a3 ++ (a4 ++ (a5 ++ (a6 ++ (a7 ++ (a8 ++ (a9 ++ (a10 ++ (a11 ++ (a12 ++ a13)))))))))))
  BY ONLY <1>1, <1>2, <1>3, <1>4, <1>5, <1>6, <1>7, <1>8, <1>9, <1>10, <1>11, <1>12, <1>13, Reassociate
<1> QED BY ONLY <1>14, <1>27, <1>28

-----------------------------------------------------------------------------
(* What there is to read of a program.                                     *)

\* The items of all functions of a program.
KidItems(D, p) == [i \in DOMAIN p.kids |-> D[p.kids[i]]]
ItemsFrom(D, m, c) == D = [n \in m..Len(c) |-> Load!FunctionItems(c[n], KidItems(D, c[n]))]
Dumps(c) == CHOOSE D : D = [n \in DOMAIN c |-> Load!FunctionItems(c[n], KidItems(D, c[n]))]

\* What is written of a program is the items of its main function.
LEMMA DumpOfMain ==
    ASSUME NEW c
    PROVE  Load!Dump(c) = Dumps(c)[1]
BY DEF Load!Dump, Dumps, KidItems

\* Those of a function are made of those of functions that come after it.
LEMMA ItemsFromEarlier ==
    ASSUME NEW c, Load!IsProgram(c), NEW m \in 1..Len(c), NEW g, ItemsFrom(g, m + 1, c)
    PROVE  \E h : ItemsFrom(h, m, c)
<1> DEFINE F(D, n) == Load!FunctionItems(c[n], KidItems(D, c[n]))
           h == [n \in m..Len(c) |-> F(g, n)]
<1>1. Len(c) \in Nat
  BY FunctionsAreSources
<1>2. \A n \in (m + 1)..Len(c) : h[n] = g[n]
  <2>1. \A n \in (m + 1)..Len(c) : g[n] = F(g, n)
    BY DEF ItemsFrom
  <2>2. \A n \in (m + 1)..Len(c) : n \in m..Len(c)
    BY <1>1
  <2>3. \A n \in m..Len(c) : h[n] = F(g, n)
    OBVIOUS
  <2> HIDE DEF F, h
  <2> QED BY <2>1, <2>2, <2>3
<1>3. ASSUME NEW n \in m..Len(c) PROVE F(h, n) = F(g, n)
  <2> HIDE DEF h
  <2>1. n \in 1..Len(c)
    BY <1>1
  <2>2. DOMAIN c[n].kids = 1..Len(c[n].kids)
    BY <2>1, FunctionsAreSources, SeqFacts DEF IsSource
  <2>3. \A i \in 1..Len(c[n].kids) : c[n].kids[i] \in (n + 1)..Len(c)
    BY <2>1, FunctionsAreSources
  <2>4. (n + 1)..Len(c) \subseteq (m + 1)..Len(c)
    BY <1>1
  <2>5. \A i \in DOMAIN c[n].kids : h[c[n].kids[i]] = g[c[n].kids[i]]
    BY <1>2, <2>2, <2>3, <2>4
  <2>6. KidItems(h, c[n]) = KidItems(g, c[n])
    BY <2>5 DEF KidItems
  <2> QED BY <2>6
<1>4. h = [n \in m..Len(c) |-> F(h, n)]
  <2>1. h = [n \in m..Len(c) |-> F(g, n)]
    OBVIOUS
  <2> HIDE DEF F, h
  <2> QED BY <1>3, <2>1
<1> HIDE DEF h
<1> QED BY <1>4 DEF ItemsFrom

\* The items of all functions, from the last one on.
LEMMA ItemsExist ==
    ASSUME NEW c, Load!IsProgram(c)
    PROVE  /\ ItemsFrom(Dumps(c), 1, c)
           /\ \A n \in 1..Len(c) : Dumps(c)[n] = Load!FunctionItems(c[n], KidItems(Dumps(c), c[n]))
<1> DEFINE S == {k \in Nat : k <= Len(c) => \E D : ItemsFrom(D, Len(c) + 1 - k, c)}
<1>1. IsSeq(c)
  BY ListIsSeq DEF Load!IsProgram
<1>2. Len(c) \in Nat /\ DOMAIN c = 1..Len(c)
  BY <1>1, SeqFacts
<1>3. 0 \in S
  <2> DEFINE g == [n \in (Len(c) + 1)..Len(c) |-> 0]
  <2>1. (Len(c) + 1)..Len(c) = {} /\ Len(c) + 1 - 0 = Len(c) + 1
    BY <1>2
  <2>2. \A D : ItemsFrom(g, Len(c) + 1, c)
    BY <2>1 DEF ItemsFrom
  <2> HIDE DEF g
  <2> QED BY <2>1, <2>2
<1>4. ASSUME NEW k \in Nat, k \in S PROVE k + 1 \in S
  <2>1. SUFFICES ASSUME k + 1 <= Len(c) PROVE \E D : ItemsFrom(D, Len(c) + 1 - (k + 1), c)
    OBVIOUS
  <2>2. PICK m \in 1..Len(c) : m = Len(c) + 1 - (k + 1) /\ m + 1 = Len(c) + 1 - k /\ k <= Len(c)
    BY <1>2, <2>1
  <2>3. \E D : ItemsFrom(D, m + 1, c)
    BY <1>4, <2>2
  <2> QED BY <2>2, <2>3, ItemsFromEarlier
<1>5. \E D : ItemsFrom(D, 1, c)
  <2>1. Len(c) \in S
    <3> HIDE DEF S
    <3> QED BY <1>2, <1>3, <1>4, Induction
  <2>2. Len(c) + 1 - Len(c) = 1 /\ Len(c) <= Len(c)
    BY <1>2
  <2>3. \E D : ItemsFrom(D, Len(c) + 1 - Len(c), c)
    BY <2>1, <2>2
  <2> QED BY <2>2, <2>3
<1>6. ItemsFrom(Dumps(c), 1, c)
  <2>1. \E D : D = [n \in DOMAIN c |-> Load!FunctionItems(c[n], KidItems(D, c[n]))]
    BY <1>2, <1>5 DEF ItemsFrom
  <2>2. Dumps(c) = [n \in DOMAIN c |-> Load!FunctionItems(c[n], KidItems(Dumps(c), c[n]))]
    BY <2>1, Zenon DEF Dumps
  <2> QED BY <1>2, <2>2 DEF ItemsFrom
<1>7. ASSUME NEW n \in 1..Len(c) PROVE Dumps(c)[n] = Load!FunctionItems(c[n], KidItems(Dumps(c), c[n]))
  <2>1. PICK D : D = Dumps(c)
    OBVIOUS
  <2>2. D = [k \in 1..Len(c) |-> Load!FunctionItems(c[k], KidItems(D, c[k]))]
    BY <1>6, <2>1 DEF ItemsFrom
  <2> QED BY <2>1, <2>2
<1> QED BY <1>6, <1>7

\* The items of the functions inside one.
LEMMA KidItemsAre ==
    ASSUME NEW c, Load!IsProgram(c), NEW n \in 1..Len(c),
           \A k \in (n + 1)..Len(c) : IsSeq(Dumps(c)[k])
    PROVE  /\ Parts(KidItems(Dumps(c), c[n]))
           /\ Len(KidItems(Dumps(c), c[n])) = Len(c[n].kids)
           /\ \A i \in 1..Len(c[n].kids) : KidItems(Dumps(c), c[n])[i] = Dumps(c)[c[n].kids[i]]
           /\ Dumps(c)[n] = RestAll(c[n], KidItems(Dumps(c), c[n]))
           /\ IsSeq(Dumps(c)[n])
<1>1. PICK L : L = KidItems(Dumps(c), c[n])
  OBVIOUS
<1>2. Len(c[n].kids) \in Nat /\ DOMAIN c[n].kids = 1..Len(c[n].kids) /\ IsSource(c[n])
  BY FunctionsAreSources, SeqFacts DEF IsSource
<1>3. IsFun(L) /\ DOMAIN L = 1..Len(c[n].kids)
  BY <1>1, <1>2 DEF IsFun, KidItems
<1>4. IsSeq(L) /\ Len(L) = Len(c[n].kids)
  BY <1>2, <1>3, SeqFunction
<1>5. \A i \in 1..Len(c[n].kids) : L[i] = Dumps(c)[c[n].kids[i]]
  BY <1>1, <1>2 DEF KidItems
<1>6. \A i \in 1..Len(c[n].kids) : IsSeq(L[i])
  BY <1>5, FunctionsAreSources
<1>7. Parts(L)
  BY <1>4, <1>6 DEF Parts
<1>8. Dumps(c)[n] = RestAll(c[n], L)
  BY <1>1, <1>2, <1>7, ItemsExist, ItemsInOrder
<1>9. IsSeq(Dumps(c)[n])
  BY <1>2, <1>4, <1>7, <1>8, RestSeqs
<1> QED BY <1>1, <1>4, <1>5, <1>7, <1>8, <1>9

\* The items of each function, those of the functions inside included.
LEMMA DumpsAre ==
    ASSUME NEW c, Load!IsProgram(c), NEW n \in 1..Len(c)
    PROVE  /\ IsSource(c[n])
           /\ Parts(KidItems(Dumps(c), c[n]))
           /\ Len(KidItems(Dumps(c), c[n])) = Len(c[n].kids)
           /\ \A i \in 1..Len(c[n].kids) : /\ KidItems(Dumps(c), c[n])[i] = Dumps(c)[c[n].kids[i]]
                                           /\ c[n].kids[i] \in 1..Len(c)
           /\ Dumps(c)[n] = RestAll(c[n], KidItems(Dumps(c), c[n]))
           /\ IsSeq(Dumps(c)[n])
<1> DEFINE N == Len(c)
           S == {k \in Nat : \A j \in 1..N : j > N - k => IsSeq(Dumps(c)[j])}
<1>1. N \in Nat
  BY FunctionsAreSources
<1>2. 0 \in S
  BY <1>1
<1>3. ASSUME NEW k \in Nat, k \in S PROVE k + 1 \in S
  <2> SUFFICES ASSUME NEW j \in 1..N, j > N - (k + 1) PROVE IsSeq(Dumps(c)[j])
    OBVIOUS
  <2>1. \A i \in (j + 1)..N : IsSeq(Dumps(c)[i])
    BY <1>1, <1>3
  <2> QED BY <2>1, KidItemsAre
<1>4. N \in S
  <2> HIDE DEF S
  <2> QED BY <1>1, <1>2, <1>3, Induction
<1>5. \A j \in 1..N : IsSeq(Dumps(c)[j])
  BY <1>1, <1>4
<1>6. \A k \in (n + 1)..N : IsSeq(Dumps(c)[k])
  BY <1>1, <1>5
<1>7. IsSource(c[n]) /\ \A i \in 1..Len(c[n].kids) : c[n].kids[i] \in 1..N
  <2>1. \A k \in (n + 1)..N : k \in 1..N
    BY <1>1
  <2> QED BY <2>1, FunctionsAreSources
<1> QED BY <1>6, <1>7, KidItemsAre

-----------------------------------------------------------------------------
(* Reading.                                                                *)

\* One item at the end.
LEMMA SeqAppend ==
    ASSUME NEW s, IsSeq(s), NEW x
    PROVE  /\ IsSeq(Append(s, x)) /\ Len(Append(s, x)) = Len(s) + 1
           /\ \A i \in 1..Len(s) : Append(s, x)[i] = s[i]
           /\ Append(s, x)[Len(s) + 1] = x
<1>1. PICK S : s \in Seq(S)
  BY DEF IsSeq
<1>2. s \in Seq(S \cup {x})
  BY <1>1
<1>3. Append(s, x) \in Seq(S \cup {x})
  BY <1>2
<1>4. IsSeq(Append(s, x))
  BY <1>3 DEF IsSeq
<1>5. /\ Len(Append(s, x)) = Len(s) + 1
      /\ \A i \in 1..Len(s) : Append(s, x)[i] = s[i]
      /\ Append(s, x)[Len(s) + 1] = x
  BY <1>2
<1> QED BY <1>4, <1>5

\* n items from the m-th.
Part(s, m, n) == SubSeq(s, m, m + n - 1)

\* Part of a sequence, item by item.
LEMMA SeqPart ==
    ASSUME NEW s, IsSeq(s), NEW m \in Nat, NEW n \in Nat, m >= 1, m + n <= Len(s) + 1
    PROVE  /\ IsSeq(Part(s, m, n)) /\ Len(Part(s, m, n)) = n
           /\ \A i \in 1..n : Part(s, m, n)[i] = s[m + i - 1]
<1>1. PICK S : s \in Seq(S)
  BY DEF IsSeq
<1>2. SubSeq(s, m, m + n - 1) \in Seq(S)
  BY <1>1
<1>3. IsSeq(Part(s, m, n))
  BY <1>2 DEF IsSeq, Part
<1>4. /\ Len(Part(s, m, n)) = n
      /\ \A i \in 1..n : Part(s, m, n)[i] = s[m + i - 1]
  BY <1>1 DEF Part
<1> QED BY <1>3, <1>4

\* What has been kept of a list.
First(s, i) == SubSeq(s, 1, i)

\* Keeping one more item of a list.
LEMMA FirstOf ==
    ASSUME NEW s, IsSeq(s)
    PROVE  /\ First(s, 0) = <<>> /\ First(s, Len(s)) = s
           /\ \A i \in 0..(Len(s) - 1) : Append(First(s, i), s[i + 1]) = First(s, i + 1)
<1>1. Len(s) \in Nat
  BY SeqFacts
<1>2. ASSUME NEW i \in 0..Len(s)
      PROVE  /\ IsSeq(First(s, i)) /\ Len(First(s, i)) = i
             /\ \A j \in 1..i : First(s, i)[j] = s[j]
  <2>1. PICK S : s \in Seq(S)
    BY DEF IsSeq
  <2>2. SubSeq(s, 1, i) \in Seq(S)
    BY <1>1, <2>1
  <2>3. IsSeq(First(s, i))
    BY <2>2 DEF IsSeq, First
  <2>4. Len(First(s, i)) = i /\ \A j \in 1..i : First(s, i)[j] = s[j]
    BY <1>1, <2>1 DEF First
  <2> QED BY <2>3, <2>4
<1>3. First(s, 0) = <<>>
  <2>1. 0 \in 0..Len(s)
    BY <1>1
  <2>2. IsSeq(First(s, 0)) /\ Len(First(s, 0)) = 0
    BY <1>2, <2>1
  <2>3. \A j \in 1..0 : First(s, 0)[j] = <<>>[j]
    OBVIOUS
  <2> QED BY <2>2, <2>3, SeqNone, SeqSame
<1>4. First(s, Len(s)) = s
  <2>1. Len(s) \in 0..Len(s)
    BY <1>1
  <2> QED BY <1>2, <2>1, SeqSame
<1>5. ASSUME NEW i \in 0..(Len(s) - 1) PROVE Append(First(s, i), s[i + 1]) = First(s, i + 1)
  <2>1. i \in 0..Len(s) /\ i + 1 \in 0..Len(s)
    BY <1>1
  <2>2. PICK t, x : t = First(s, i) /\ x = s[i + 1] /\ IsSeq(t) /\ Len(t) = i /\ \A j \in 1..i : t[j] = s[j]
    BY <1>2, <2>1
  <2>3. PICK u : u = First(s, i + 1) /\ IsSeq(u) /\ Len(u) = i + 1 /\ \A j \in 1..(i + 1) : u[j] = s[j]
    BY <1>2, <2>1
  <2>4. PICK v : v = Append(t, x)
    OBVIOUS
  <2>7. /\ IsSeq(v) /\ Len(v) = Len(t) + 1 /\ v[Len(t) + 1] = x
        /\ \A j \in 1..Len(t) : v[j] = t[j]
    BY <2>2, <2>4, SeqAppend
  <2>5. \A j \in 1..(i + 1) : v[j] = u[j]
    BY ONLY <2>2, <2>3, <2>7
  <2>6. v = u
    BY <2>2, <2>3, <2>5, <2>7, SeqSame
  <2> QED BY <2>2, <2>3, <2>4, <2>6
<1> QED BY <1>3, <1>4, <1>5

-----------------------------------------------------------------------------
\* At a position of a file, R is what there is to its end.
Reads(f, p, R) ==
    /\ p \in 1..(Len(f) + 1)
    /\ IsSeq(R)
    /\ p + Len(R) = Len(f) + 1
    /\ \A i \in 1..Len(R) : f[p + i - 1] = R[i]

\* Items that are read: what follows is what there is then.
LEMMA Take ==
    ASSUME NEW f, IsSeq(f), NEW p, NEW a, IsSeq(a), NEW R, IsSeq(R), Reads(f, p, a ++ R)
    PROVE  /\ p \in Nat /\ p >= 1 /\ Len(a) \in Nat /\ p + Len(a) <= Len(f) + 1
           /\ \A i \in 1..Len(a) : f[p + i - 1] = a[i]
           /\ Reads(f, p + Len(a), R)
<1>1. Len(f) \in Nat /\ Len(a) \in Nat /\ Len(R) \in Nat
  BY SeqFacts
<1>2. PICK t : t = a ++ R
  OBVIOUS
<1>3. /\ Len(t) = Len(a) + Len(R)
      /\ \A i \in 1..Len(a) : t[i] = a[i]
      /\ \A i \in 1..Len(R) : t[Len(a) + i] = R[i]
  BY <1>2, SeqConcat
<1>4. p \in Nat /\ p >= 1 /\ p + Len(t) = Len(f) + 1 /\ \A i \in 1..Len(t) : f[p + i - 1] = t[i]
  BY <1>1, <1>2 DEF Reads
<1>5. \A i \in 1..Len(a) : f[p + i - 1] = a[i]
  <2>1. \A i \in 1..Len(a) : i \in 1..Len(t)
    BY ONLY <1>1, <1>3
  <2> QED BY ONLY <1>3, <1>4, <2>1
<1>6. \A i \in 1..Len(R) : f[p + Len(a) + i - 1] = R[i]
  <2> SUFFICES ASSUME NEW i \in 1..Len(R) PROVE f[p + Len(a) + i - 1] = R[i]
    OBVIOUS
  <2>1. PICK j : j = Len(a) + i
    OBVIOUS
  <2>2. j \in 1..Len(t) /\ p + j - 1 = p + Len(a) + i - 1
    <3>1. Len(t) = Len(a) + Len(R) /\ p \in Nat
      BY <1>3, <1>4
    <3> QED BY <1>1, <2>1, <3>1
  <2>3. f[p + j - 1] = t[j] /\ t[j] = R[i]
    BY <1>3, <1>4, <2>1, <2>2
  <2> QED BY ONLY <2>2, <2>3
<1>7. p + Len(a) \in 1..(Len(f) + 1) /\ p + Len(a) + Len(R) = Len(f) + 1
  BY ONLY <1>1, <1>3, <1>4
<1>8. Reads(f, p + Len(a), R)
  BY <1>6, <1>7 DEF Reads
<1>9. p + Len(a) <= Len(f) + 1
  BY <1>1, <1>7
<1> QED BY <1>1, <1>4, <1>5, <1>8, <1>9

\* The same, before what follows the function.
LEMMA TakeThen ==
    ASSUME NEW f, IsSeq(f), NEW p, NEW a, IsSeq(a), NEW R, IsSeq(R), NEW k, IsSeq(k), Reads(f, p, (a ++ R) ++ k)
    PROVE  /\ p \in Nat /\ p >= 1 /\ Len(a) \in Nat /\ p + Len(a) <= Len(f) + 1
           /\ \A i \in 1..Len(a) : f[p + i - 1] = a[i]
           /\ Reads(f, p + Len(a), R ++ k)
<1>1. (a ++ R) ++ k = a ++ (R ++ k)
  BY SeqAssociative
<1>2. IsSeq(R ++ k)
  BY SeqConcat
<1> QED BY <1>1, <1>2, Take

\* One item is read.
LEMMA TakeOne ==
    ASSUME NEW f, IsSeq(f), NEW p, NEW x, NEW R, IsSeq(R), NEW k, IsSeq(k), Reads(f, p, (One(x) ++ R) ++ k)
    PROVE  /\ p \in Nat /\ p >= 1 /\ f[p] = x
           /\ Reads(f, p + 1, R ++ k)
<1>1. PICK a : a = One(x) /\ IsSeq(a) /\ Len(a) = 1 /\ a[1] = x
  BY SeqOne
<1>2. p \in Nat /\ p >= 1 /\ Reads(f, p + 1, R ++ k) /\ \A i \in 1..1 : f[p + i - 1] = a[i]
  BY <1>1, TakeThen
<1>3. 1 \in 1..1 /\ p + 1 - 1 = p
  BY <1>2
<1> QED BY <1>1, <1>2, <1>3

\* A count and what it counts, item by item.
LEMMA CountedItems ==
    ASSUME NEW s, IsSeq(s)
    PROVE  /\ IsSeq(Load!Counted(s)) /\ Len(Load!Counted(s)) = 1 + Len(s) /\ Len(s) \in Nat
           /\ Load!Counted(s)[1] = Len(s)
           /\ \A i \in 1..Len(s) : Load!Counted(s)[1 + i] = s[i]
<1>1. PICK a : a = One(Len(s)) /\ IsSeq(a) /\ Len(a) = 1 /\ a[1] = Len(s)
  BY SeqOne
<1>2. Load!Counted(s) = a ++ s
  BY <1>1 DEF Load!Counted, ++, One
<1>3. PICK t : t = a ++ s
  OBVIOUS
<1>4. /\ IsSeq(t) /\ Len(t) = Len(a) + Len(s) /\ \A i \in 1..Len(a) : t[i] = a[i]
      /\ \A i \in 1..Len(s) : t[Len(a) + i] = s[i]
  <2>1. IsSeq(a) /\ IsSeq(s)
    BY <1>1
  <2> QED BY ONLY <1>3, <2>1, SeqConcat
<1>5. Len(s) \in Nat
  BY SeqFacts
<1>6. 1 \in 1..1
  OBVIOUS
<1>7. t[1] = Len(s)
  BY <1>1, <1>4, <1>6
<1>8. Len(t) = 1 + Len(s) /\ \A i \in 1..Len(s) : t[1 + i] = s[i]
  BY <1>1, <1>4
<1> QED BY <1>2, <1>3, <1>4, <1>5, <1>7, <1>8

\* A count and what it counts are read.
LEMMA TakeCounted ==
    ASSUME NEW f, IsSeq(f), NEW p, NEW s, IsSeq(s), NEW R, IsSeq(R), NEW k, IsSeq(k),
           Reads(f, p, (Load!Counted(s) ++ R) ++ k)
    PROVE  /\ p \in Nat /\ p >= 1 /\ Len(s) \in Nat /\ p + 1 + Len(s) <= Len(f) + 1
           /\ f[p] = Len(s)
           /\ \A i \in 1..Len(s) : f[p + i] = s[i]
           /\ Reads(f, p + 1 + Len(s), R ++ k)
<1>1. PICK a : /\ a = Load!Counted(s) /\ IsSeq(a) /\ Len(a) = 1 + Len(s) /\ Len(s) \in Nat /\ a[1] = Len(s)
               /\ \A i \in 1..Len(s) : a[1 + i] = s[i]
  BY CountedItems
<1>2. /\ p \in Nat /\ p >= 1 /\ p + Len(a) <= Len(f) + 1
      /\ \A i \in 1..Len(a) : f[p + i - 1] = a[i]
      /\ Reads(f, p + Len(a), R ++ k)
  BY <1>1, TakeThen
<1>3. p + Len(a) = p + 1 + Len(s)
  BY <1>1, <1>2
<1>4. f[p] = Len(s)
  <2>1. 1 \in 1..Len(a) /\ p + 1 - 1 = p
    BY <1>1, <1>2
  <2> QED BY <1>1, <1>2, <2>1
<1>5. ASSUME NEW i \in 1..Len(s) PROVE f[p + i] = s[i]
  <2>1. PICK j \in 1..Len(a) : j = 1 + i /\ p + j - 1 = p + i
    BY <1>1, <1>2
  <2> QED BY <1>1, <1>2, <2>1
<1> QED BY <1>1, <1>2, <1>3, <1>4, <1>5

\* The items that were read are those that there were.
LEMMA ItemsRead ==
    ASSUME NEW f, IsSeq(f), NEW p \in Nat, NEW s, IsSeq(s), p >= 1, p + Len(s) <= Len(f) + 1,
           \A i \in 1..Len(s) : f[p + i - 1] = s[i]
    PROVE  Part(f, p, Len(s)) = s
<1>1. Len(s) \in Nat
  BY SeqFacts
<1>2. PICK t : t = Part(f, p, Len(s)) /\ IsSeq(t) /\ Len(t) = Len(s)
                /\ \A i \in 1..Len(s) : t[i] = f[p + i - 1]
  BY <1>1, SeqPart
<1> QED BY <1>2, SeqSame

-----------------------------------------------------------------------------
(* The ways to functions.                                                  *)

\* Load!NodeAt, of a program that is given.
NodeStep(g, c, path, k) == IF k = 0 THEN 1 ELSE c[g[k - 1]].kids[path[k]]
IsNodes(g, c, path, n) == g = [k \in 0..n |-> NodeStep(g, c, path, k)]
Nodes(c, path, n) == CHOOSE g : IsNodes(g, c, path, n)
NodeIn(c, path) == Nodes(c, path, Len(path))[Len(path)]

\* It is the node of the program in the file.
LEMMA NodeAtIsNodeIn ==
    ASSUME NEW path
    PROVE  Load!NodeAt(path) = NodeIn(chunk, path)
BY DEF Load!NodeAt, NodeIn, Nodes, IsNodes, NodeStep

\* The nodes on a way, one after the other.
LEMMA NodesAre ==
    ASSUME NEW c, NEW path, NEW n \in Nat
    PROVE  /\ Nodes(c, path, n)[0] = 1
           /\ \A k \in 1..n : Nodes(c, path, n)[k] = c[Nodes(c, path, n)[k - 1]].kids[path[k]]
<1> DEFINE S == {m \in Nat : \E g : IsNodes(g, c, path, m)}
<1>1. 0 \in S
  <2> DEFINE g == [k \in 0..0 |-> 1]
  <2>1. IsNodes(g, c, path, 0)
    BY DEF IsNodes, NodeStep
  <2> HIDE DEF g
  <2> QED BY <2>1
<1>2. ASSUME NEW m \in Nat, m \in S PROVE m + 1 \in S
  <2>1. PICK g : IsNodes(g, c, path, m)
    BY <1>2
  <2> DEFINE h == [k \in 0..(m + 1) |-> NodeStep(g, c, path, k)]
  <2>2. \A k \in 0..m : h[k] = g[k]
    <3> HIDE DEF NodeStep
    <3> QED BY <2>1 DEF IsNodes
  <2>3. \A k \in 0..(m + 1) : NodeStep(h, c, path, k) = NodeStep(g, c, path, k)
    <3> HIDE DEF h
    <3> SUFFICES ASSUME NEW k \in 0..(m + 1), k # 0 PROVE h[k - 1] = g[k - 1]
      BY DEF NodeStep
    <3>1. k - 1 \in 0..m
      OBVIOUS
    <3> QED BY <2>2, <3>1
  <2>4. IsNodes(h, c, path, m + 1)
    BY <2>3 DEF IsNodes
  <2> HIDE DEF h
  <2> QED BY <2>4
<1>3. n \in S
  <2> HIDE DEF S
  <2> QED BY <1>1, <1>2, Induction
<1>4. PICK g : g = Nodes(c, path, n) /\ IsNodes(g, c, path, n)
  BY <1>3 DEF Nodes
<1>5. 0 \in 0..n /\ \A k \in 1..n : k \in 0..n /\ k # 0
  OBVIOUS
<1>6. g[0] = NodeStep(g, c, path, 0) /\ \A k \in 1..n : g[k] = NodeStep(g, c, path, k)
  BY <1>4, <1>5 DEF IsNodes
<1> QED BY <1>4, <1>5, <1>6 DEF NodeStep

\* The way to the main function.
LEMMA NodeOfMain ==
    ASSUME NEW c
    PROVE  NodeIn(c, <<>>) = 1
<1>1. Len(<<>>) = 0
  OBVIOUS
<1> QED BY <1>1, NodesAre DEF NodeIn

\* The way to a function inside another.
LEMMA NodeOfChild ==
    ASSUME NEW c, NEW path, IsSeq(path), NEW x
    PROVE  NodeIn(c, Append(path, x)) = c[NodeIn(c, path)].kids[x]
<1>9. PICK n, q : n = Len(path) /\ q = Append(path, x)
  OBVIOUS
<1>1. n \in Nat /\ Len(q) = n + 1 /\ q[n + 1] = x /\ \A k \in 1..n : q[k] = path[k]
  BY <1>9, SeqFacts, SeqAppend
<1>10. PICK m \in Nat : m = n + 1 /\ m - 1 = n /\ m \in 1..m /\ \A k \in 1..n : k \in 1..m
  BY <1>1
<1>2. PICK h : h = Nodes(c, path, n) /\ h[0] = 1 /\ \A k \in 1..n : h[k] = c[h[k - 1]].kids[path[k]]
  BY <1>1, NodesAre
<1>3. PICK g : g = Nodes(c, q, m) /\ g[0] = 1 /\ \A k \in 1..m : g[k] = c[g[k - 1]].kids[q[k]]
  BY <1>10, NodesAre
<1> DEFINE S == {k \in Nat : k <= n => g[k] = h[k]}
<1>4. 0 \in S
  BY <1>2, <1>3
<1>5. ASSUME NEW k \in Nat, k \in S PROVE k + 1 \in S
  <2> SUFFICES ASSUME k + 1 <= n PROVE g[k + 1] = h[k + 1]
    OBVIOUS
  <2>1. PICK j \in 1..n : j = k + 1 /\ j - 1 = k
    BY <1>1
  <2>2. g[k] = h[k]
    BY <1>1, <1>5
  <2>3. h[j] = c[h[j - 1]].kids[path[j]] /\ g[j] = c[g[j - 1]].kids[q[j]] /\ q[j] = path[j]
    BY <1>1, <1>2, <1>3, <1>10
  <2> QED BY <2>1, <2>2, <2>3
<1>6. n \in S
  <2> HIDE DEF S
  <2> QED BY <1>1, <1>4, <1>5, Induction
<1>7. g[n] = h[n]
  BY <1>1, <1>6
<1>8. g[m] = c[g[n]].kids[x]
  <2>1. g[m] = c[g[m - 1]].kids[q[m]]
    BY <1>3, <1>10
  <2> QED BY <1>1, <1>10, <2>1
<1>11. Len(q) = m
  BY <1>1, <1>10
<1> QED BY <1>2, <1>3, <1>7, <1>8, <1>9, <1>11 DEF NodeIn

-----------------------------------------------------------------------------
\* The next name of an upvalue.
LEMMA NamesStep ==
    ASSUME NEW p, IsSource(p), NEW i \in 0..Len(p.names)
    PROVE  /\ i = Len(p.names) => RestNames(p, i) = <<>>
           /\ i < Len(p.names) => RestNames(p, i) = Load!Counted(p.names[i + 1]) ++ RestNames(p, i + 1)
<1>1. PICK L, R : L = NameItems(p) /\ R = Rests(L) /\ Parts(L) /\ Len(L) = Len(p.names) /\ IsRests(R, L)
  BY ItemLists, RestsOf
<1>2. DOMAIN p.names = 1..Len(p.names) /\ Len(p.names) \in Nat
  BY SeqFacts DEF IsSource
<1>3. \A j \in 0..Len(p.names) : RestNames(p, j) = R[j]
  BY <1>1 DEF RestNames
<1>4. R[Len(p.names)] = <<>>
  BY <1>1 DEF IsRests
<1>5. ASSUME i < Len(p.names)
      PROVE  RestNames(p, i) = Load!Counted(p.names[i + 1]) ++ RestNames(p, i + 1)
  <2>1. i \in 0..(Len(p.names) - 1) /\ i + 1 \in 1..Len(p.names) /\ i + 1 \in 0..Len(p.names)
    BY <1>2, <1>5
  <2>2. R[i] = L[i + 1] ++ R[i + 1]
    BY <1>1, <2>1 DEF IsRests, Follows
  <2>3. L[i + 1] = Load!Counted(p.names[i + 1])
    BY <1>1, <1>2, <2>1 DEF NameItems
  <2> QED BY <1>3, <2>1, <2>2, <2>3
<1> QED BY <1>3, <1>4, <1>5

\* The next local variable.
LEMMA LocalsStep ==
    ASSUME NEW p, IsSource(p), NEW i \in 0..Len(p.locals)
    PROVE  /\ i = Len(p.locals) => RestLocals(p, i) = RestNameCount(p)
           /\ i < Len(p.locals) => RestLocals(p, i) = Load!LocalVar(p.locals[i + 1]) ++ RestLocals(p, i + 1)
<1>1. PICK L, T : L = LocalItems(p) /\ Parts(L) /\ Len(L) = Len(p.locals) /\ T = RestNameCount(p) /\ IsSeq(T)
  <2>1. Len(p.names) \in Nat
    BY SeqFacts DEF IsSource
  <2>2. IsSeq(RestNames(p, 0))
    <3>1. IsRests(Rests(NameItems(p)), NameItems(p)) /\ Len(NameItems(p)) = Len(p.names)
      BY ItemLists, RestsOf
    <3> QED BY <2>1, <3>1 DEF IsRests, RestNames
  <2>3. IsSeq(RestNameCount(p))
    BY <2>2, CountSeq DEF RestNameCount
  <2> QED BY <2>3, ItemLists
<1>2. DOMAIN p.locals = 1..Len(p.locals) /\ Len(p.locals) \in Nat
  BY SeqFacts DEF IsSource
<1>3. \A j \in 0..Len(p.locals) : RestLocals(p, j) = Rests(L)[j] ++ T
  BY <1>1 DEF RestLocals
<1>4. ASSUME i = Len(p.locals) PROVE RestLocals(p, i) = T
  BY <1>1, <1>3, <1>4, RestsThen
<1>5. ASSUME i < Len(p.locals)
      PROVE  RestLocals(p, i) = Load!LocalVar(p.locals[i + 1]) ++ RestLocals(p, i + 1)
  <2>1. i + 1 \in 1..Len(p.locals) /\ i + 1 \in 0..Len(p.locals)
    BY <1>2, <1>5
  <2>2. Rests(L)[i] ++ T = L[i + 1] ++ (Rests(L)[i + 1] ++ T)
    BY <1>1, <1>5, RestsThen
  <2>3. L[i + 1] = Load!LocalVar(p.locals[i + 1])
    BY <1>1, <1>2, <2>1 DEF LocalItems
  <2> QED BY <1>3, <2>1, <2>2, <2>3
<1> QED BY <1>1, <1>4, <1>5

\* The next function inside.
LEMMA KidsStep ==
    ASSUME NEW p, IsSource(p), NEW ks, Parts(ks), Len(ks) = Len(p.kids), NEW i \in 0..Len(p.kids)
    PROVE  /\ i = Len(p.kids) => RestKids(p, ks, i) = RestUpvalues(p)
           /\ i < Len(p.kids) => RestKids(p, ks, i) = ks[i + 1] ++ RestKids(p, ks, i + 1)
<1>1. IsSeq(RestUpvalues(p))
  BY RestSeqs
<1> QED BY <1>1, RestsThen DEF RestKids

\* The next constant.
LEMMA ConstantsStep ==
    ASSUME NEW p, IsSource(p), NEW ks, Parts(ks), Len(ks) = Len(p.kids), NEW i \in 0..Len(p.constants)
    PROVE  /\ i = Len(p.constants) => RestConstants(p, ks, i) = RestKidCount(p, ks)
           /\ i < Len(p.constants) =>
                RestConstants(p, ks, i) = Load!Constant(p.constants[i + 1]) ++ RestConstants(p, ks, i + 1)
<1>1. PICK L, T : L = ConstantItems(p) /\ Parts(L) /\ Len(L) = Len(p.constants) /\ T = RestKidCount(p, ks) /\ IsSeq(T)
  BY RestSeqs, ItemLists
<1>2. DOMAIN p.constants = 1..Len(p.constants) /\ Len(p.constants) \in Nat
  BY SeqFacts DEF IsSource
<1>3. \A j \in 0..Len(p.constants) : RestConstants(p, ks, j) = Rests(L)[j] ++ T
  BY <1>1 DEF RestConstants
<1>4. ASSUME i = Len(p.constants) PROVE RestConstants(p, ks, i) = T
  BY <1>1, <1>3, <1>4, RestsThen
<1>5. ASSUME i < Len(p.constants)
      PROVE  RestConstants(p, ks, i) = Load!Constant(p.constants[i + 1]) ++ RestConstants(p, ks, i + 1)
  <2>1. i + 1 \in 1..Len(p.constants) /\ i + 1 \in 0..Len(p.constants)
    BY <1>2, <1>5
  <2>2. Rests(L)[i] ++ T = L[i + 1] ++ (Rests(L)[i + 1] ++ T)
    BY <1>1, <1>5, RestsThen
  <2>3. L[i + 1] = Load!Constant(p.constants[i + 1])
    BY <1>1, <1>2, <2>1 DEF ConstantItems
  <2> QED BY <1>3, <2>1, <2>2, <2>3
<1> QED BY <1>1, <1>4, <1>5

\* The items of a local variable.
LEMMA TakeLocal ==
    ASSUME NEW f, IsSeq(f), NEW p, NEW s, IsSeq(s), NEW R, IsSeq(R), NEW k, IsSeq(k),
           Reads(f, p, (Load!LocalVar(s) ++ R) ++ k)
    PROVE  f[p] = Len(s) /\ Len(s) \in Nat /\ Reads(f, p + 3 + Len(s), R ++ k)
<1>1. PICK z : z = <<0, 0>> /\ IsSeq(z) /\ Len(z) = 2
  <2>1. <<0, 0>> \in Seq({0}) /\ Len(<<0, 0>>) = 2
    OBVIOUS
  <2> QED BY <2>1 DEF IsSeq
<1>2. PICK a : a = Load!Counted(s) /\ IsSeq(a) /\ Len(s) \in Nat
  BY CountedItems
<1>3. Load!LocalVar(s) = a ++ z
  BY <1>1, <1>2 DEF Load!LocalVar, ++
<1>4. (a ++ z) ++ R = a ++ (z ++ R) /\ IsSeq(z ++ R)
  BY <1>1, <1>2, SeqAssociative, SeqConcat
<1>5. f[p] = Len(s) /\ p \in Nat /\ Reads(f, p + 1 + Len(s), (z ++ R) ++ k)
  BY <1>2, <1>3, <1>4, TakeCounted
<1>6. Reads(f, p + 1 + Len(s) + Len(z), R ++ k)
  BY <1>1, <1>5, TakeThen
<1>7. p + 1 + Len(s) + Len(z) = p + 3 + Len(s)
  BY <1>1, <1>2, <1>5
<1> QED BY <1>2, <1>5, <1>6, <1>7

\* The items of a constant.
LEMMA TakeConstant ==
    ASSUME NEW f, IsSeq(f), NEW p, NEW x, Load!IsConstant(x), NEW R, IsSeq(R), NEW k, IsSeq(k),
           Reads(f, p, (Load!Constant(x) ++ R) ++ k)
    PROVE  /\ p \in Nat /\ f[p] = x.tag
           /\ x.tag = Load!StringTag =>
                /\ Len(x.text) \in Nat /\ f[p + 1] = Len(x.text) /\ Part(f, p + 2, Len(x.text)) = x.text
                /\ x = [tag |-> Load!StringTag, text |-> x.text]
                /\ Reads(f, p + 2 + Len(x.text), R ++ k)
           /\ x.tag # Load!StringTag =>
                /\ x = [tag |-> x.tag, number |-> x.number]
                /\ f[p + 1] = x.number /\ Reads(f, p + 2, R ++ k)
<1>1. CASE x.tag = Load!StringTag
  <2>11. PICK s : s = x.text /\ IsSeq(s)
    BY <1>1, ListIsSeq DEF Load!IsConstant
  <2>12. PICK a : a = Load!Counted(s) /\ IsSeq(a) /\ Len(s) \in Nat
    BY <2>11, CountedItems
  <2>1. PICK t : /\ s = x.text /\ IsSeq(s) /\ a = Load!Counted(s) /\ IsSeq(a) /\ Len(s) \in Nat
                 /\ t = One(x.tag) /\ IsSeq(t)
    BY <2>11, <2>12, SeqOne
  <2>2. Load!Constant(x) = t ++ a
    <3>1. <<x.tag, Len(s)>> = One(x.tag) ++ One(Len(s))
      BY DEF ++, One
    <3>2. Load!Constant(x) = (One(x.tag) ++ One(Len(s))) ++ s
      BY <1>1, <2>1, <3>1 DEF Load!Constant, ++
    <3>3. a = One(Len(s)) ++ s
      BY <2>1 DEF Load!Counted, ++, One
    <3> QED BY <2>1, <3>2, <3>3, SeqAssociative, SeqOne
  <2>3. (t ++ a) ++ R = t ++ (a ++ R) /\ IsSeq(a ++ R)
    BY <2>1, SeqAssociative, SeqConcat
  <2>4. p \in Nat /\ p >= 1 /\ f[p] = x.tag /\ Reads(f, p + 1, (a ++ R) ++ k)
    BY <2>1, <2>2, <2>3, TakeOne
  <2>13. PICK r, n : r = p + 1 /\ n = Len(s) /\ n \in Nat
    BY <2>1
  <2>16. IsSeq(s)
    BY <2>1
  <2>14. Reads(f, r, (Load!Counted(s) ++ R) ++ k)
    BY <2>1, <2>4, <2>13
  <2>5. /\ r + 1 + n <= Len(f) + 1 /\ f[r] = n
        /\ \A i \in 1..n : f[r + i] = s[i]
        /\ Reads(f, r + 1 + n, R ++ k)
    <3>1. /\ r + 1 + Len(s) <= Len(f) + 1 /\ f[r] = Len(s)
          /\ \A i \in 1..Len(s) : f[r + i] = s[i]
          /\ Reads(f, r + 1 + Len(s), R ++ k)
      BY ONLY IsSeq(f), IsSeq(R), IsSeq(k), <2>16, <2>14, TakeCounted
    <3> QED BY ONLY <2>13, <3>1
  <2>6. r + 1 + n = p + 2 + n /\ \A i \in 1..n : r + i = p + 2 + i - 1
    BY <2>4, <2>13
  <2>7. PICK m : m = p + 2 /\ m \in Nat /\ m >= 1
    <3>1. p + 2 \in Nat /\ p + 2 >= 1
      BY <2>4
    <3> QED BY <3>1
  <2>15. m + n <= Len(f) + 1
    BY <2>5, <2>6, <2>7
  <2>8. \A i \in 1..n : f[m + i - 1] = s[i]
    BY <2>5, <2>6, <2>7
  <2>9. Part(f, m, n) = s
    BY ONLY IsSeq(f), <2>16, <2>13, <2>7, <2>8, <2>15, ItemsRead
  <2>10. x = [tag |-> Load!StringTag, text |-> x.text]
    BY <1>1 DEF Load!IsConstant
  <2>17. f[p + 1] = Len(x.text) /\ Part(f, p + 2, Len(x.text)) = x.text /\ Reads(f, p + 2 + Len(x.text), R ++ k)
    BY <2>1, <2>5, <2>6, <2>7, <2>9, <2>13
  <2> QED BY <1>1, <2>1, <2>4, <2>10, <2>17
<1>2. CASE x.tag # Load!StringTag
  <2>1. PICK a, t : a = One(x.number) /\ IsSeq(a) /\ t = One(x.tag) /\ IsSeq(t)
    BY SeqOne
  <2>2. Load!Constant(x) = t ++ a
    BY <1>2, <2>1 DEF Load!Constant, ++, One
  <2>3. (t ++ a) ++ R = t ++ (a ++ R) /\ IsSeq(a ++ R)
    BY <2>1, SeqAssociative, SeqConcat
  <2>8. Reads(f, p, (One(x.tag) ++ (a ++ R)) ++ k)
    BY <2>1, <2>2, <2>3
  <2>4. p \in Nat /\ p >= 1 /\ f[p] = x.tag /\ Reads(f, p + 1, (a ++ R) ++ k)
    BY <2>3, <2>8, TakeOne
  <2>5. f[p + 1] = x.number /\ Reads(f, p + 1 + 1, R ++ k)
    BY <2>1, <2>4, TakeOne
  <2>6. p + 1 + 1 = p + 2
    BY <2>4
  <2>7. x = [tag |-> x.tag, number |-> x.number]
    BY <1>2 DEF Load!IsConstant
  <2> QED BY <1>2, <2>4, <2>5, <2>6, <2>7
<1> QED BY <1>1, <1>2

-----------------------------------------------------------------------------
(* The steps of a call of load_function.                                   *)

\* A function and the items of those inside it.
Source(p, ks) == IsSource(p) /\ Parts(ks) /\ Len(ks) = Len(p.kids)

\* The members that a call of load_function has.
IsCall(call) == IsFun(call) /\ DOMAIN call = {"path", "step", "i", "n", "seek", "end"}

\* A struct proto that has been filled in so far.
ProtoRead(p, nrconstants, constants, nrprotos, code, upvalues) ==
    [numparams |-> p.numparams, maxstacksize |-> p.maxstacksize, sizecode |-> Len(p.code), code |-> code,
     nrconstants |-> nrconstants, constants |-> constants, nrprotos |-> nrprotos, upvalues |-> upvalues]

\* The code can be read again.
CodeAt(f, seek, p) ==
    /\ seek \in Nat /\ seek >= 1 /\ seek + Len(p.code) <= Len(f) + 1
    /\ \A i \in 1..Len(p.code) : f[seek + i - 1] = p.code[i]

\* The first m functions inside have been loaded, or are being loaded.
Seen(dom, path, m) == \A j \in 1..m : Append(path, j) \in dom

\* A call at each of its steps: what it has read, and where it is.
AtMembers(f, pp, call, p, ks, q, k) ==
    /\ call.step = "members" /\ q = Load!Blank
    /\ Reads(f, pp, RestAll(p, ks) ++ k)

AtConstantCount(f, pp, call, p, ks, q, k) ==
    /\ call.step = "nrconstants" /\ q = ProtoRead(p, 0, <<>>, 0, <<>>, <<>>)
    /\ CodeAt(f, call.seek, p)
    /\ Reads(f, pp, RestConstantCount(p, ks) ++ k)

AtConstants(f, pp, call, p, ks, q, k) ==
    /\ call.step = "constants" /\ call.i \in 0..Len(p.constants)
    /\ q = ProtoRead(p, Len(p.constants), First(p.constants, call.i), 0, <<>>, <<>>)
    /\ CodeAt(f, call.seek, p)
    /\ Reads(f, pp, RestConstants(p, ks, call.i) ++ k)

Waiting(f, call, p, q, dom) ==
    /\ call.step = "prototypes" /\ call.i \in 0..Len(p.kids)
    /\ q = ProtoRead(p, Len(p.constants), p.constants, Len(p.kids), <<>>, <<>>)
    /\ CodeAt(f, call.seek, p)
    /\ Seen(dom, call.path, call.i)

AtPrototypes(f, pp, call, p, ks, q, k, dom) ==
    /\ Waiting(f, call, p, q, dom)
    /\ Reads(f, pp, RestKids(p, ks, call.i) ++ k)

AtCode(f, pp, call, p, q, k, dom) ==
    /\ call.step = "code" /\ call.i \in 0..Len(p.code)
    /\ q = ProtoRead(p, Len(p.constants), p.constants, Len(p.kids), First(p.code, call.i), <<>>)
    /\ CodeAt(f, call.seek, p) /\ pp = call.seek + call.i
    /\ Seen(dom, call.path, Len(p.kids))
    /\ Reads(f, call.end, RestUpvalues(p) ++ k)

AtUpvalues(f, pp, call, p, q, k, dom) ==
    /\ call.step = "upvalues"
    /\ q = ProtoRead(p, Len(p.constants), p.constants, Len(p.kids), p.code, <<>>)
    /\ Seen(dom, call.path, Len(p.kids))
    /\ Reads(f, pp, RestUpvalues(p) ++ k)

\* All that is kept has been read.
Complete(call, p, q, dom) ==
    /\ q = ProtoRead(p, Len(p.constants), p.constants, Len(p.kids), p.code, p.upvalues)
    /\ Seen(dom, call.path, Len(p.kids))

AtDebug(f, pp, call, p, q, k, dom) ==
    /\ call.step = "debug" /\ Complete(call, p, q, dom)
    /\ Reads(f, pp, RestDebug(p) ++ k)

AtLocals(f, pp, call, p, q, k, dom) ==
    /\ call.step = "locals" /\ Complete(call, p, q, dom)
    /\ call.n = Len(p.locals) /\ call.i \in 0..Len(p.locals)
    /\ Reads(f, pp, RestLocals(p, call.i) ++ k)

AtNames(f, pp, call, p, q, k, dom) ==
    /\ call.step = "names" /\ Complete(call, p, q, dom)
    /\ call.n = Len(p.names) /\ call.i \in 0..Len(p.names)
    /\ Reads(f, pp, RestNames(p, call.i) ++ k)

\* One of the steps.
AtStep(f, pp, call, p, ks, q, k, dom) ==
    \/ AtMembers(f, pp, call, p, ks, q, k)
    \/ AtConstantCount(f, pp, call, p, ks, q, k)
    \/ AtConstants(f, pp, call, p, ks, q, k)
    \/ AtPrototypes(f, pp, call, p, ks, q, k, dom)
    \/ AtCode(f, pp, call, p, q, k, dom)
    \/ AtUpvalues(f, pp, call, p, q, k, dom)
    \/ AtDebug(f, pp, call, p, q, k, dom)
    \/ AtLocals(f, pp, call, p, q, k, dom)
    \/ AtNames(f, pp, call, p, q, k, dom)

\* Wherever the reader is, it is in the file.
LEMMA StepInFile ==
    ASSUME NEW f, IsSeq(f), NEW p, NEW ks, Source(p, ks), NEW pp, NEW call, NEW q, NEW k, NEW dom,
           AtStep(f, pp, call, p, ks, q, k, dom)
    PROVE  pp \in 1..(Len(f) + 1)
<1>1. Len(f) \in Nat /\ Len(p.code) \in Nat
  BY SeqFacts DEF Source, IsSource
<1>2. CASE AtCode(f, pp, call, p, q, k, dom)
  BY <1>1, <1>2 DEF AtCode, CodeAt
<1>3. CASE \E R : Reads(f, pp, R)
  BY <1>3 DEF Reads
<1>4. ~AtCode(f, pp, call, p, q, k, dom) => \E R : Reads(f, pp, R)
  BY DEF AtStep, AtMembers, AtConstantCount, AtConstants, AtPrototypes, AtUpvalues, AtDebug, AtLocals, AtNames
<1> QED BY <1>2, <1>3, <1>4

\* What LoadMembers does to a struct proto.
SetMembers(q, numparams, maxstacksize, sizecode) ==
    [q EXCEPT !.numparams = numparams, !.maxstacksize = maxstacksize, !.sizecode = sizecode]

\* The members of the function are kept.
LEMMA MembersSet ==
    ASSUME NEW p, NEW a, NEW b, NEW n, a = p.numparams, b = p.maxstacksize, n = Len(p.code)
    PROVE  SetMembers(Load!Blank, a, b, n) = ProtoRead(p, 0, <<>>, 0, <<>>, <<>>)
<1> DEFINE R(x, y, z, e) == [numparams |-> x, maxstacksize |-> y, sizecode |-> z, code |-> e, nrconstants |-> 0,
                             constants |-> e, nrprotos |-> 0, upvalues |-> e]
<1>1. PICK e : e = <<>>
  OBVIOUS
<1>2. PICK r : r = R(0, 0, 0, e)
  OBVIOUS
<1>3. PICK r1 : r1 = R(a, 0, 0, e)
  OBVIOUS
<1>4. r1 = [r EXCEPT !.numparams = a]
  BY <1>2, <1>3
<1>5. PICK r2 : r2 = R(a, b, 0, e)
  OBVIOUS
<1>6. r2 = [r1 EXCEPT !.maxstacksize = b]
  BY <1>3, <1>5
<1>7. PICK r3 : r3 = R(a, b, n, e)
  OBVIOUS
<1>8. r3 = [r2 EXCEPT !.sizecode = n]
  BY <1>5, <1>7
<1> HIDE DEF R
<1>9. SetMembers(r, a, b, n) = [[[r EXCEPT !.numparams = a] EXCEPT !.maxstacksize = b] EXCEPT !.sizecode = n]
  BY DEF SetMembers
<1>10. r3 = SetMembers(r, a, b, n)
  BY <1>4, <1>6, <1>8, <1>9
<1>11. r = Load!Blank
  BY ONLY <1>1, <1>2 DEF R, Load!Blank
<1>12. r3 = ProtoRead(p, 0, <<>>, 0, <<>>, <<>>)
  BY <1>1, <1>7 DEF R, ProtoRead
<1> QED BY <1>10, <1>11, <1>12

\* LoadMembers: the code is skipped, where it is is kept.
LEMMA MembersRead ==
    ASSUME NEW f, IsSeq(f), NEW k, IsSeq(k), NEW p, NEW ks, Source(p, ks), NEW pp, NEW call, IsCall(call), NEW q,
           AtMembers(f, pp, call, p, ks, q, k)
    PROVE  AtConstantCount(f, pp + (6 + f[pp + 5]), [call EXCEPT !.step = "nrconstants", !.seek = pp + 6], p, ks,
               SetMembers(q, f[pp + 2], f[pp + 4], f[pp + 5]), k)
<1>1. IsSource(p) /\ IsSeq(Members(p)) /\ IsSeq(RestCode(p, ks)) /\ IsSeq(RestConstantCount(p, ks)) /\ IsSeq(p.code)
  BY RestSeqs DEF Source, IsSource
<1>2. PICK m : /\ m = Members(p) /\ IsSeq(m) /\ Len(m) = 5 /\ m[3] = p.numparams /\ m[5] = p.maxstacksize
  <2>1. Len(Members(p)) = 5 /\ Members(p)[3] = p.numparams /\ Members(p)[5] = p.maxstacksize
    BY DEF Members
  <2> QED BY <1>1, <2>1
<1>3. Reads(f, pp, (m ++ RestCode(p, ks)) ++ k)
  BY <1>2 DEF AtMembers, RestAll
<1>4. pp \in Nat /\ pp >= 1 /\ (\A i \in 1..Len(m) : f[pp + i - 1] = m[i]) /\ Reads(f, pp + Len(m), RestCode(p, ks) ++ k)
  <2>1. IsSeq(f) /\ IsSeq(k) /\ IsSeq(m) /\ IsSeq(RestCode(p, ks))
    BY <1>1, <1>2
  <2> QED BY ONLY <1>3, <2>1, TakeThen
<1>5. f[pp + 2] = p.numparams /\ f[pp + 4] = p.maxstacksize
  <2>1. 3 \in 1..Len(m) /\ 5 \in 1..Len(m) /\ pp + 3 - 1 = pp + 2 /\ pp + 5 - 1 = pp + 4
    BY <1>2, <1>4
  <2> QED BY <1>2, <1>4, <2>1
<1>6. PICK r : r = pp + 5 /\ r \in Nat
  BY <1>4
<1>7. Reads(f, r, (Load!Counted(p.code) ++ RestConstantCount(p, ks)) ++ k)
  BY <1>2, <1>4, <1>6 DEF RestCode
<1>8. PICK s, n : s = p.code /\ n = Len(s)
  OBVIOUS
<1>9. /\ n \in Nat /\ r + 1 + n <= Len(f) + 1 /\ f[r] = n
      /\ \A i \in 1..n : f[r + i] = s[i]
      /\ Reads(f, r + 1 + n, RestConstantCount(p, ks) ++ k)
  <2>1. IsSeq(f) /\ IsSeq(k) /\ IsSeq(s) /\ IsSeq(RestConstantCount(p, ks))
    BY <1>1, <1>8
  <2>2. Reads(f, r, (Load!Counted(s) ++ RestConstantCount(p, ks)) ++ k)
    BY <1>7, <1>8
  <2>3. /\ Len(s) \in Nat /\ r + 1 + Len(s) <= Len(f) + 1 /\ f[r] = Len(s)
        /\ \A i \in 1..Len(s) : f[r + i] = s[i]
        /\ Reads(f, r + 1 + Len(s), RestConstantCount(p, ks) ++ k)
    BY ONLY <2>1, <2>2, TakeCounted
  <2> QED BY ONLY <1>8, <2>3
<1>10. CodeAt(f, pp + 6, p)
  <2>1. pp + 6 = r + 1 /\ pp + 6 \in Nat /\ pp + 6 >= 1 /\ \A i \in 1..n : pp + 6 + i - 1 = r + i
    BY <1>4, <1>6, <1>9
  <2> QED BY <1>8, <1>9, <2>1 DEF CodeAt
<1>11. pp + (6 + f[pp + 5]) = r + 1 + n /\ f[pp + 5] = Len(p.code)
  <2>1. f[pp + 5] = n /\ n = Len(p.code)
    BY ONLY <1>6, <1>8, <1>9
  <2>2. pp + (6 + n) = r + 1 + n
    BY ONLY <1>4, <1>6, <1>9
  <2> QED BY ONLY <2>1, <2>2
<1>12. SetMembers(q, f[pp + 2], f[pp + 4], f[pp + 5]) = ProtoRead(p, 0, <<>>, 0, <<>>, <<>>)
  <2>1. q = Load!Blank
    BY DEF AtMembers
  <2>2. PICK a, b, c : a = f[pp + 2] /\ b = f[pp + 4] /\ c = f[pp + 5]
    OBVIOUS
  <2>3. a = p.numparams /\ b = p.maxstacksize /\ c = Len(p.code)
    BY <1>5, <1>11, <2>2
  <2>4. SetMembers(Load!Blank, a, b, c) = ProtoRead(p, 0, <<>>, 0, <<>>, <<>>)
    BY ONLY <2>3, MembersSet
  <2> QED BY ONLY <2>1, <2>2, <2>4
<1>13. PICK call2 : call2 = [call EXCEPT !.step = "nrconstants", !.seek = pp + 6]
  OBVIOUS
<1>14. call2.step = "nrconstants" /\ call2.seek = pp + 6
  BY <1>13 DEF IsCall
<1> QED BY <1>9, <1>10, <1>11, <1>12, <1>13, <1>14 DEF AtConstantCount

\* CountConstants.
LEMMA ConstantCountRead ==
    ASSUME NEW f, IsSeq(f), NEW k, IsSeq(k), NEW p, NEW ks, Source(p, ks), NEW pp, NEW call, IsCall(call), NEW q,
           AtConstantCount(f, pp, call, p, ks, q, k)
    PROVE  AtConstants(f, pp + 1, [call EXCEPT !.step = "constants", !.i = 0], p, ks,
               [q EXCEPT !.nrconstants = f[pp]], k)
<1>1. IsSeq(RestConstants(p, ks, 0)) /\ Len(p.constants) \in Nat /\ IsSeq(p.constants)
  <2>1. Len(p.constants) \in Nat
    BY SeqFacts DEF Source, IsSource
  <2> QED BY <2>1, RestSeqs DEF Source, IsSource
<1>2. Reads(f, pp, (One(Len(p.constants)) ++ RestConstants(p, ks, 0)) ++ k)
  BY DEF AtConstantCount, RestConstantCount
<1>3. f[pp] = Len(p.constants) /\ Reads(f, pp + 1, RestConstants(p, ks, 0) ++ k)
  BY <1>1, <1>2, TakeOne
<1>4. PICK call2 : call2 = [call EXCEPT !.step = "constants", !.i = 0]
  OBVIOUS
<1>5. call2.step = "constants" /\ call2.i = 0 /\ call2.seek = call.seek
  BY <1>4 DEF IsCall
<1>6. First(p.constants, 0) = <<>>
  BY <1>1, FirstOf
<1>7. [q EXCEPT !.nrconstants = f[pp]] = ProtoRead(p, Len(p.constants), <<>>, 0, <<>>, <<>>)
  BY <1>3 DEF AtConstantCount, ProtoRead
<1>8. 0 \in 0..Len(p.constants)
  BY <1>1
<1> QED BY <1>3, <1>4, <1>5, <1>6, <1>7, <1>8 DEF AtConstants, AtConstantCount

\* Lengths of the lists of a function.
LEMMA Lengths ==
    ASSUME NEW p, IsSource(p)
    PROVE  /\ Len(p.code) \in Nat /\ Len(p.constants) \in Nat /\ Len(p.kids) \in Nat /\ Len(p.upvalues) \in Nat
           /\ Len(p.source) \in Nat /\ Len(p.lines) \in Nat /\ Len(p.locals) \in Nat /\ Len(p.names) \in Nat
BY SeqFacts DEF IsSource

\* One more constant.
LEMMA ConstantKept ==
    ASSUME NEW p, IsSource(p), NEW i \in 0..(Len(p.constants) - 1), NEW q,
           q = ProtoRead(p, Len(p.constants), First(p.constants, i), 0, <<>>, <<>>)
    PROVE  [q EXCEPT !.constants = Append(@, p.constants[i + 1])]
            = ProtoRead(p, Len(p.constants), First(p.constants, i + 1), 0, <<>>, <<>>)
<1>1. PICK s, t, u : s = First(p.constants, i) /\ t = First(p.constants, i + 1) /\ u = Append(s, p.constants[i + 1])
  OBVIOUS
<1>2. u = t
  BY <1>1, FirstOf DEF IsSource
<1>3. q.constants = s
  BY <1>1 DEF ProtoRead
<1>4. PICK q2 : q2 = [q EXCEPT !.constants = Append(@, p.constants[i + 1])]
  OBVIOUS
<1>5. q2 = [q EXCEPT !.constants = t]
  <2>1. Append(q.constants, p.constants[i + 1]) = t
    BY <1>1, <1>2, <1>3
  <2> QED BY ONLY <1>4, <2>1
<1>6. [q EXCEPT !.constants = t] = ProtoRead(p, Len(p.constants), t, 0, <<>>, <<>>)
  BY <1>1 DEF ProtoRead
<1>7. q2 = ProtoRead(p, Len(p.constants), First(p.constants, i + 1), 0, <<>>, <<>>)
  BY ONLY <1>1, <1>6, <1>5
<1> QED BY ONLY <1>4, <1>7

\* LoadConstant, by the tag.
LEMMA ConstantRead ==
    ASSUME NEW f, IsSeq(f), NEW k, IsSeq(k), NEW p, NEW ks, Source(p, ks), NEW pp, NEW call, IsCall(call), NEW q,
           AtConstants(f, pp, call, p, ks, q, k), call.i < Len(p.constants)
    PROVE  /\ f[pp] = Load!NumberTag =>
                AtConstants(f, pp + 2, [call EXCEPT !.i = @ + 1], p, ks,
                    [q EXCEPT !.constants = Append(@, [tag |-> Load!NumberTag, number |-> f[pp + 1]])], k)
           /\ f[pp] = Load!StringTag =>
                AtConstants(f, pp + (2 + f[pp + 1]), [call EXCEPT !.i = @ + 1], p, ks,
                    [q EXCEPT !.constants = Append(@, [tag |-> Load!StringTag, text |-> Part(f, pp + 2, f[pp + 1])])],
                    k)
<1>1. PICK i, x : /\ i = call.i /\ x = p.constants[i + 1] /\ i \in 0..(Len(p.constants) - 1) /\ i + 1 \in 0..Len(p.constants)
                  /\ Load!IsConstant(x) /\ i \in 0..Len(p.constants)
  <2>1. IsSource(p) /\ call.i \in 0..Len(p.constants)
    BY DEF Source, AtConstants
  <2>2. Len(p.constants) \in Nat
    BY <2>1, Lengths
  <2>3. call.i + 1 \in 1..Len(p.constants) /\ call.i \in 0..(Len(p.constants) - 1) /\ call.i + 1 \in 0..Len(p.constants)
    BY <2>1, <2>2
  <2>4. Load!IsConstant(p.constants[call.i + 1])
    BY <2>1, <2>3 DEF IsSource
  <2> QED BY <2>1, <2>3, <2>4
<1>2. PICK R : R = RestConstants(p, ks, i + 1) /\ IsSeq(R)
  BY <1>1, RestSeqs DEF Source
<1>3. Reads(f, pp, (Load!Constant(x) ++ R) ++ k)
  <2>1. RestConstants(p, ks, i) = Load!Constant(x) ++ R
    BY <1>1, <1>2, ConstantsStep DEF Source
  <2> QED BY <1>1, <2>1 DEF AtConstants
<1>4. /\ pp \in Nat /\ f[pp] = x.tag
      /\ x.tag = Load!StringTag =>
           /\ Len(x.text) \in Nat /\ f[pp + 1] = Len(x.text) /\ Part(f, pp + 2, Len(x.text)) = x.text
           /\ x = [tag |-> Load!StringTag, text |-> x.text]
           /\ Reads(f, pp + 2 + Len(x.text), R ++ k)
      /\ x.tag # Load!StringTag =>
           /\ x = [tag |-> x.tag, number |-> x.number]
           /\ f[pp + 1] = x.number /\ Reads(f, pp + 2, R ++ k)
  <2>1. IsSeq(f) /\ IsSeq(R) /\ IsSeq(k) /\ Load!IsConstant(x)
    BY <1>1, <1>2
  <2> QED BY ONLY <1>3, <2>1, TakeConstant
<1>5. PICK call2 : call2 = [call EXCEPT !.i = @ + 1]
  OBVIOUS
<1>6. call2.step = "constants" /\ call2.i = i + 1 /\ call2.seek = call.seek
  BY <1>1, <1>5 DEF IsCall, AtConstants
<1>7. PICK q2 : q2 = [q EXCEPT !.constants = Append(@, x)]
  OBVIOUS
<1>8. q2 = ProtoRead(p, Len(p.constants), First(p.constants, i + 1), 0, <<>>, <<>>)
  <2>1. q = ProtoRead(p, Len(p.constants), First(p.constants, i), 0, <<>>, <<>>) /\ IsSource(p)
    BY <1>1 DEF AtConstants, Source
  <2> QED BY <1>1, <1>7, <2>1, ConstantKept
<1>9. ASSUME NEW r, Reads(f, r, R ++ k) PROVE AtConstants(f, r, call2, p, ks, q2, k)
  <2>1. CodeAt(f, call2.seek, p)
    BY <1>6 DEF AtConstants
  <2> QED BY <1>1, <1>2, <1>6, <1>8, <1>9, <2>1 DEF AtConstants
<1>10. ASSUME f[pp] = Load!NumberTag
       PROVE  AtConstants(f, pp + 2, call2, p, ks,
                    [q EXCEPT !.constants = Append(@, [tag |-> Load!NumberTag, number |-> f[pp + 1]])], k)
  <2>1. x.tag = Load!NumberTag /\ x.tag # Load!StringTag
    BY <1>4, <1>10 DEF Load!NumberTag, Load!StringTag
  <2>2. PICK y : y = [tag |-> Load!NumberTag, number |-> f[pp + 1]] /\ y = x
    BY <1>4, <2>1
  <2>3. AtConstants(f, pp + 2, call2, p, ks, q2, k)
    BY <1>4, <1>9, <2>1
  <2> QED BY ONLY <1>7, <2>2, <2>3
<1>11. ASSUME f[pp] = Load!StringTag
       PROVE  AtConstants(f, pp + (2 + f[pp + 1]), call2, p, ks,
                    [q EXCEPT !.constants = Append(@, [tag |-> Load!StringTag, text |-> Part(f, pp + 2, f[pp + 1])])],
                    k)
  <2>1. x.tag = Load!StringTag
    BY <1>4, <1>11
  <2>2. PICK y : y = [tag |-> Load!StringTag, text |-> Part(f, pp + 2, f[pp + 1])] /\ y = x
    BY <1>4, <2>1
  <2>3. pp + (2 + f[pp + 1]) = pp + 2 + Len(x.text)
    BY <1>4, <2>1
  <2>4. AtConstants(f, pp + 2 + Len(x.text), call2, p, ks, q2, k)
    BY <1>4, <1>9, <2>1
  <2> QED BY ONLY <1>7, <2>2, <2>3, <2>4
<1> QED BY <1>5, <1>10, <1>11

\* LoadPrototypes.
LEMMA PrototypesCounted ==
    ASSUME NEW f, IsSeq(f), NEW k, IsSeq(k), NEW p, NEW ks, Source(p, ks), NEW pp, NEW call, IsCall(call), NEW q,
           AtConstants(f, pp, call, p, ks, q, k), call.i = Len(p.constants), NEW dom
    PROVE  AtPrototypes(f, pp + 1, [call EXCEPT !.step = "prototypes", !.i = 0], p, ks,
               [q EXCEPT !.nrprotos = f[pp]], k, dom)
<1>1. IsSource(p) /\ Len(p.kids) \in Nat /\ IsSeq(RestKids(p, ks, 0)) /\ Len(p.constants) \in Nat
  <2>1. IsSource(p) /\ Len(p.kids) \in Nat /\ Len(p.constants) \in Nat
    BY Lengths DEF Source
  <2>2. 0 \in 0..Len(p.kids)
    BY <2>1
  <2> QED BY <2>1, <2>2, RestSeqs DEF Source
<1>2. RestConstants(p, ks, call.i) = One(Len(p.kids)) ++ RestKids(p, ks, 0)
  <2>1. call.i \in 0..Len(p.constants)
    BY DEF AtConstants
  <2> QED BY <2>1, ConstantsStep DEF Source, RestKidCount
<1>3. f[pp] = Len(p.kids) /\ Reads(f, pp + 1, RestKids(p, ks, 0) ++ k)
  <2>1. Reads(f, pp, (One(Len(p.kids)) ++ RestKids(p, ks, 0)) ++ k)
    BY <1>2 DEF AtConstants
  <2> QED BY <1>1, <2>1, TakeOne
<1>4. PICK call2 : call2 = [call EXCEPT !.step = "prototypes", !.i = 0]
  OBVIOUS
<1>5. call2.step = "prototypes" /\ call2.i = 0 /\ call2.seek = call.seek
  BY <1>4 DEF IsCall
<1>6. [q EXCEPT !.nrprotos = f[pp]] = ProtoRead(p, Len(p.constants), p.constants, Len(p.kids), <<>>, <<>>)
  <2>1. First(p.constants, call.i) = p.constants
    BY <1>1, FirstOf DEF IsSource
  <2>2. q = ProtoRead(p, Len(p.constants), p.constants, 0, <<>>, <<>>)
    BY <2>1 DEF AtConstants
  <2> QED BY ONLY <1>3, <2>2 DEF ProtoRead
<1>7. CodeAt(f, call2.seek, p) /\ 0 \in 0..Len(p.kids) /\ Seen(dom, call2.path, 0)
  BY <1>1, <1>5 DEF AtConstants, Seen
<1>8. Waiting(f, call2, p, [q EXCEPT !.nrprotos = f[pp]], dom)
  BY <1>5, <1>6, <1>7 DEF Waiting
<1> QED BY <1>3, <1>4, <1>5, <1>8 DEF AtPrototypes

\* LoadChild: the call waits, the items of the function inside are next.
LEMMA ChildCalled ==
    ASSUME NEW f, IsSeq(f), NEW k, IsSeq(k), NEW p, NEW ks, Source(p, ks), NEW pp, NEW call, IsCall(call), NEW q, NEW dom,
           AtPrototypes(f, pp, call, p, ks, q, k, dom), call.i < Len(p.kids),
           NEW p2, NEW ks2, Source(p2, ks2), ks[call.i + 1] = RestAll(p2, ks2)
    PROVE  /\ Waiting(f, [call EXCEPT !.i = @ + 1], p, q, dom \cup {Append(call.path, call.i + 1)})
           /\ AtMembers(f, pp, Load!LoadFunction(Append(call.path, call.i + 1)), p2, ks2, Load!Blank,
                  RestKids(p, ks, call.i + 1) ++ k)
           /\ IsSeq(RestKids(p, ks, call.i + 1) ++ k)
           /\ call.i + 1 >= 1
<1>1. PICK i : i = call.i
  OBVIOUS
<1>2. i \in 0..Len(p.kids) /\ i + 1 \in 0..Len(p.kids) /\ Len(p.kids) \in Nat /\ i + 1 >= 1 /\ i < Len(p.kids)
  BY <1>1, Lengths DEF Source, AtPrototypes, Waiting
<1>3. PICK path2, call2 : path2 = Append(call.path, call.i + 1) /\ call2 = [call EXCEPT !.i = @ + 1]
  OBVIOUS
<1>4. call2.step = "prototypes" /\ call2.i = i + 1 /\ call2.seek = call.seek /\ call2.path = call.path
  BY <1>1, <1>3 DEF IsCall, AtPrototypes, Waiting
<1>5. Seen(dom \cup {path2}, call2.path, i + 1)
  <2>1. \A j \in 1..i : Append(call.path, j) \in dom
    BY <1>1 DEF AtPrototypes, Waiting, Seen
  <2>2. \A j \in 1..(i + 1) : j \in 1..i \/ j = i + 1
    BY <1>2
  <2> QED BY <1>1, <1>3, <1>4, <2>1, <2>2 DEF Seen
<1>6. Waiting(f, call2, p, q, dom \cup {path2})
  <2>1. q = ProtoRead(p, Len(p.constants), p.constants, Len(p.kids), <<>>, <<>>) /\ CodeAt(f, call2.seek, p)
    BY <1>4 DEF AtPrototypes, Waiting
  <2> QED BY <1>2, <1>4, <1>5, <2>1 DEF Waiting
<1>7. PICK a, R : a = RestAll(p2, ks2) /\ R = RestKids(p, ks, i + 1) /\ IsSeq(a) /\ IsSeq(R)
  BY <1>2, RestSeqs DEF Source
<1>8. RestKids(p, ks, i) = a ++ R
  BY <1>1, <1>2, <1>7, KidsStep DEF Source
<1>9. Reads(f, pp, (a ++ R) ++ k)
  BY <1>1, <1>8 DEF AtPrototypes
<1>10. Reads(f, pp, a ++ (R ++ k)) /\ IsSeq(R ++ k)
  <2>1. (a ++ R) ++ k = a ++ (R ++ k)
    BY <1>7, SeqAssociative
  <2>2. IsSeq(R ++ k)
    BY <1>7, SeqConcat
  <2> QED BY ONLY <1>9, <2>1, <2>2
<1>14. PICK new : new = Load!LoadFunction(path2)
  OBVIOUS
<1>11. new.step = "members"
  BY ONLY <1>14 DEF Load!LoadFunction
<1>12. AtMembers(f, pp, new, p2, ks2, Load!Blank, R ++ k)
  BY <1>7, <1>10, <1>11 DEF AtMembers
<1> QED BY <1>1, <1>2, <1>3, <1>6, <1>7, <1>10, <1>12, <1>14

\* Rewind: the code is next, and where to go on is kept.
LEMMA Rewound ==
    ASSUME NEW f, IsSeq(f), NEW k, IsSeq(k), NEW p, NEW ks, Source(p, ks), NEW pp, NEW call, IsCall(call), NEW q, NEW dom,
           AtPrototypes(f, pp, call, p, ks, q, k, dom), call.i = Len(p.kids)
    PROVE  AtCode(f, call.seek, [call EXCEPT !.step = "code", !.i = 0, !.end = pp], p, q, k, dom)
<1>1. PICK call2 : call2 = [call EXCEPT !.step = "code", !.i = 0, !.end = pp]
  OBVIOUS
<1>2. call2.step = "code" /\ call2.i = 0 /\ call2.seek = call.seek /\ call2.path = call.path /\ call2.end = pp
  BY <1>1 DEF IsCall
<1>3. IsSource(p) /\ Len(p.code) \in Nat /\ call.i \in 0..Len(p.kids)
  BY Lengths DEF Source, AtPrototypes, Waiting
<1>4. RestKids(p, ks, call.i) = RestUpvalues(p)
  BY <1>3, KidsStep DEF Source
<1>5. Reads(f, pp, RestUpvalues(p) ++ k)
  BY <1>4 DEF AtPrototypes
<1>6. First(p.code, 0) = <<>>
  BY <1>3, FirstOf DEF IsSource
<1>7. CodeAt(f, call.seek, p) /\ Seen(dom, call.path, Len(p.kids)) /\ call.seek \in Nat
      /\ q = ProtoRead(p, Len(p.constants), p.constants, Len(p.kids), <<>>, <<>>)
  BY DEF AtPrototypes, Waiting, CodeAt
<1>8. call.seek = call.seek + 0 /\ 0 \in 0..Len(p.code)
  BY <1>3, <1>7
<1>9. AtCode(f, call.seek, call2, p, q, k, dom)
  BY ONLY <1>2, <1>5, <1>6, <1>7, <1>8 DEF AtCode
<1> QED BY <1>1, <1>9

\* JitInstruction.
LEMMA InstructionRead ==
    ASSUME NEW f, IsSeq(f), NEW k, IsSeq(k), NEW p, NEW ks, Source(p, ks), NEW pp, NEW call, IsCall(call), NEW q, NEW dom,
           AtCode(f, pp, call, p, q, k, dom), call.i < Len(p.code)
    PROVE  AtCode(f, pp + 1, [call EXCEPT !.i = @ + 1], p, [q EXCEPT !.code = Append(@, f[pp])], k, dom)
<1>1. PICK i, call2 : i = call.i /\ call2 = [call EXCEPT !.i = @ + 1]
  OBVIOUS
<1>2. IsSource(p) /\ Len(p.code) \in Nat /\ i \in 0..(Len(p.code) - 1) /\ i + 1 \in 0..Len(p.code) /\ i + 1 \in 1..Len(p.code)
  <2>1. IsSource(p) /\ Len(p.code) \in Nat
    BY Lengths DEF Source
  <2>2. i \in 0..Len(p.code)
    BY <1>1 DEF AtCode
  <2> QED BY <1>1, <2>1, <2>2
<1>3. call2.step = "code" /\ call2.i = i + 1 /\ call2.seek = call.seek /\ call2.path = call.path /\ call2.end = call.end
  BY <1>1 DEF IsCall, AtCode
<1>4. /\ CodeAt(f, call.seek, p) /\ pp = call.seek + i /\ Seen(dom, call.path, Len(p.kids))
      /\ Reads(f, call.end, RestUpvalues(p) ++ k)
      /\ q = ProtoRead(p, Len(p.constants), p.constants, Len(p.kids), First(p.code, i), <<>>)
  BY <1>1 DEF AtCode
<1>5. f[pp] = p.code[i + 1] /\ pp + 1 = call.seek + (i + 1)
  <2>1. call.seek \in Nat /\ \A j \in 1..Len(p.code) : f[call.seek + j - 1] = p.code[j]
    BY <1>4 DEF CodeAt
  <2>3. PICK z : z = call.seek
    OBVIOUS
  <2>4. z \in Nat /\ pp = z + i
    BY <1>4, <2>1, <2>3
  <2>5. z + (i + 1) - 1 = pp /\ pp + 1 = z + (i + 1)
    BY ONLY <1>2, <2>4
  <2>2. call.seek + (i + 1) - 1 = pp /\ pp + 1 = call.seek + (i + 1)
    BY <2>3, <2>5
  <2> QED BY <1>2, <2>1, <2>2
<1>6. [q EXCEPT !.code = Append(@, f[pp])]
        = ProtoRead(p, Len(p.constants), p.constants, Len(p.kids), First(p.code, i + 1), <<>>)
  <2>1. PICK s, t, u : s = First(p.code, i) /\ t = First(p.code, i + 1) /\ u = Append(s, f[pp])
    OBVIOUS
  <2>2. u = t
    <3>1. Append(First(p.code, i), p.code[i + 1]) = First(p.code, i + 1)
      BY <1>2, FirstOf DEF IsSource
    <3> QED BY <1>5, <2>1, <3>1
  <2>3. q.code = s
    BY <1>4, <2>1 DEF ProtoRead
  <2>4. [q EXCEPT !.code = Append(@, f[pp])] = [q EXCEPT !.code = u]
    BY <2>1, <2>3
  <2>5. [q EXCEPT !.code = t] = ProtoRead(p, Len(p.constants), p.constants, Len(p.kids), t, <<>>)
    BY <1>4 DEF ProtoRead
  <2> QED BY <2>1, <2>2, <2>4, <2>5
<1>7. CodeAt(f, call2.seek, p) /\ Seen(dom, call2.path, Len(p.kids)) /\ Reads(f, call2.end, RestUpvalues(p) ++ k)
      /\ pp + 1 = call2.seek + call2.i
  BY <1>3, <1>4, <1>5
<1>8. AtCode(f, pp + 1, call2, p, [q EXCEPT !.code = Append(@, f[pp])], k, dom)
  BY <1>2, <1>3, <1>6, <1>7 DEF AtCode
<1> QED BY <1>1, <1>8

\* CodeLoaded: back to what follows the functions inside.
LEMMA CodeRead ==
    ASSUME NEW f, IsSeq(f), NEW k, IsSeq(k), NEW p, NEW ks, Source(p, ks), NEW pp, NEW call, IsCall(call), NEW q, NEW dom,
           AtCode(f, pp, call, p, q, k, dom), call.i = Len(p.code)
    PROVE  AtUpvalues(f, call.end, [call EXCEPT !.step = "upvalues", !.i = 0], p, q, k, dom)
<1>1. PICK call2 : call2 = [call EXCEPT !.step = "upvalues", !.i = 0]
  OBVIOUS
<1>2. call2.step = "upvalues" /\ call2.path = call.path
  BY <1>1 DEF IsCall
<1>3. First(p.code, call.i) = p.code
  BY FirstOf DEF Source, IsSource
<1>4. /\ Seen(dom, call.path, Len(p.kids)) /\ Reads(f, call.end, RestUpvalues(p) ++ k)
      /\ q = ProtoRead(p, Len(p.constants), p.constants, Len(p.kids), p.code, <<>>)
  BY <1>3 DEF AtCode
<1>5. AtUpvalues(f, call.end, call2, p, q, k, dom)
  BY <1>2, <1>4 DEF AtUpvalues
<1> QED BY <1>1, <1>5

\* LoadUpvalues.
LEMMA UpvaluesRead ==
    ASSUME NEW f, IsSeq(f), NEW k, IsSeq(k), NEW p, NEW ks, Source(p, ks), NEW pp, NEW call, IsCall(call), NEW q, NEW dom,
           AtUpvalues(f, pp, call, p, q, k, dom)
    PROVE  AtDebug(f, pp + (1 + f[pp]), [call EXCEPT !.step = "debug", !.i = 0], p,
               [q EXCEPT !.upvalues = Part(f, pp + 1, f[pp])], k, dom)
<1>1. PICK call2 : call2 = [call EXCEPT !.step = "debug", !.i = 0]
  OBVIOUS
<1>2. call2.step = "debug" /\ call2.path = call.path
  BY <1>1 DEF IsCall
<1>3. PICK s, R : s = p.upvalues /\ R = RestDebug(p) /\ IsSeq(s) /\ IsSeq(R)
  BY RestSeqs DEF Source, IsSource
<1>4. Reads(f, pp, (Load!Counted(s) ++ R) ++ k)
  BY <1>3 DEF AtUpvalues, RestUpvalues
<1>5. /\ pp \in Nat /\ pp >= 1 /\ Len(s) \in Nat /\ pp + 1 + Len(s) <= Len(f) + 1
      /\ f[pp] = Len(s)
      /\ \A i \in 1..Len(s) : f[pp + i] = s[i]
      /\ Reads(f, pp + 1 + Len(s), R ++ k)
  <2>1. IsSeq(s) /\ IsSeq(R)
    BY <1>3
  <2> QED BY ONLY IsSeq(f), IsSeq(k), <1>4, <2>1, TakeCounted
<1>6. PICK m \in Nat : m = pp + 1 /\ m >= 1 /\ m + Len(s) <= Len(f) + 1
  BY ONLY <1>5
<1>7. \A i \in 1..Len(s) : f[m + i - 1] = s[i]
  <2>1. \A i \in 1..Len(s) : m + i - 1 = pp + i
    BY ONLY <1>5, <1>6
  <2> QED BY ONLY <1>5, <2>1
<1>8. Part(f, m, Len(s)) = s
  <2>1. IsSeq(s)
    BY <1>3
  <2> QED BY ONLY IsSeq(f), <2>1, <1>6, <1>7, ItemsRead
<1>9. Part(f, pp + 1, f[pp]) = p.upvalues
  BY ONLY <1>3, <1>5, <1>6, <1>8
<1>10. [q EXCEPT !.upvalues = Part(f, pp + 1, f[pp])]
        = ProtoRead(p, Len(p.constants), p.constants, Len(p.kids), p.code, p.upvalues)
  <2>1. q = ProtoRead(p, Len(p.constants), p.constants, Len(p.kids), p.code, <<>>)
    BY DEF AtUpvalues
  <2> QED BY ONLY <1>9, <2>1 DEF ProtoRead
<1>11. pp + (1 + f[pp]) = pp + 1 + Len(s)
  BY ONLY <1>5
<1>12. Complete(call2, p, [q EXCEPT !.upvalues = Part(f, pp + 1, f[pp])], dom)
  BY <1>2, <1>10 DEF Complete, AtUpvalues
<1>13. AtDebug(f, pp + (1 + f[pp]), call2, p, [q EXCEPT !.upvalues = Part(f, pp + 1, f[pp])], k, dom)
  BY <1>2, <1>3, <1>5, <1>11, <1>12 DEF AtDebug
<1> QED BY <1>1, <1>13

\* A string that is not kept is read to its end, however long it is.
Skipped(n) == 1 + (IF n < Buffer THEN n ELSE Buffer) + (IF n - Buffer > 0 THEN n - Buffer ELSE 0)

\* Whatever the size of the buffer.
LEMMA SkippedAll ==
    ASSUME NEW n \in Nat
    PROVE  Skipped(n) = 1 + n
BY BufferAssumption DEF Skipped

\* IgnoreSource.
LEMMA SourceIgnored ==
    ASSUME NEW f, IsSeq(f), NEW k, IsSeq(k), NEW p, NEW ks, Source(p, ks), NEW pp, NEW call, IsCall(call), NEW q, NEW dom,
           AtDebug(f, pp, call, p, q, k, dom), NEW l, l = Skipped(f[pp]), NEW m, m = l + 1 + f[pp + l]
    PROVE  AtLocals(f, pp + (m + 1), [call EXCEPT !.step = "locals", !.i = 0, !.n = f[pp + m]], p, q, k, dom)
<1>1. PICK call2 : call2 = [call EXCEPT !.step = "locals", !.i = 0, !.n = f[pp + m]]
  OBVIOUS
<1>2. call2.step = "locals" /\ call2.path = call.path /\ call2.i = 0 /\ call2.n = f[pp + m]
  BY <1>1 DEF IsCall
<1>3. PICK s, t : s = p.source /\ t = p.lines
  OBVIOUS
<1>4. /\ IsSeq(s) /\ IsSeq(t) /\ IsSeq(RestLines(p)) /\ IsSeq(RestLocalCount(p)) /\ IsSeq(RestLocals(p, 0))
      /\ Len(s) \in Nat /\ Len(t) \in Nat /\ Len(p.locals) \in Nat
  <2>1. Len(p.locals) \in Nat /\ Len(s) \in Nat /\ Len(t) \in Nat
    BY <1>3, Lengths DEF Source
  <2> QED BY <1>3, <2>1, RestSeqs DEF Source, IsSource
<1>5. pp \in Nat /\ f[pp] = Len(s) /\ Reads(f, pp + 1 + Len(s), RestLines(p) ++ k)
  <2>1. Reads(f, pp, (Load!Counted(s) ++ RestLines(p)) ++ k)
    BY <1>3 DEF AtDebug, RestDebug
  <2> QED BY ONLY IsSeq(f), IsSeq(k), <1>4, <2>1, TakeCounted
<1>6. PICK r : r = pp + 1 + Len(s)
  OBVIOUS
<1>7. r \in Nat /\ f[r] = Len(t) /\ Reads(f, r + 1 + Len(t), RestLocalCount(p) ++ k)
  <2>1. Reads(f, r, (Load!Counted(t) ++ RestLocalCount(p)) ++ k)
    BY <1>3, <1>5, <1>6 DEF RestLines
  <2> QED BY ONLY IsSeq(f), IsSeq(k), <1>4, <2>1, TakeCounted
<1>8. PICK u : u = r + 1 + Len(t)
  OBVIOUS
<1>9. f[u] = Len(p.locals) /\ Reads(f, u + 1, RestLocals(p, 0) ++ k)
  <2>1. Reads(f, u, (One(Len(p.locals)) ++ RestLocals(p, 0)) ++ k)
    BY <1>7, <1>8 DEF RestLocalCount
  <2> QED BY ONLY IsSeq(f), IsSeq(k), <1>4, <2>1, TakeOne
<1>10. pp + m = u /\ pp + (m + 1) = u + 1
  <2>1. l = 1 + Len(s)
    BY <1>4, <1>5, SkippedAll
  <2>2. pp + l = r
    BY ONLY <1>4, <1>5, <1>6, <2>1
  <2>3. m = l + 1 + Len(t)
    BY <1>7, <2>2
  <2> QED BY ONLY <1>4, <1>5, <1>6, <1>8, <2>1, <2>3
<1>11. Complete(call2, p, q, dom)
  BY <1>2 DEF AtDebug, Complete
<1>12. 0 \in 0..Len(p.locals)
  BY <1>4
<1>13. AtLocals(f, pp + (m + 1), call2, p, q, k, dom)
  BY <1>2, <1>9, <1>10, <1>11, <1>12 DEF AtLocals
<1> QED BY <1>1, <1>13

\* IgnoreLocal.
LEMMA LocalIgnored ==
    ASSUME NEW f, IsSeq(f), NEW k, IsSeq(k), NEW p, NEW ks, Source(p, ks), NEW pp, NEW call, IsCall(call), NEW q, NEW dom,
           AtLocals(f, pp, call, p, q, k, dom), call.i < call.n
    PROVE  AtLocals(f, pp + (Skipped(f[pp]) + 2), [call EXCEPT !.i = @ + 1], p, q, k, dom)
<1>1. PICK i, call2 : i = call.i /\ call2 = [call EXCEPT !.i = @ + 1]
  OBVIOUS
<1>2. call2.step = "locals" /\ call2.path = call.path /\ call2.i = i + 1 /\ call2.n = Len(p.locals)
  BY <1>1 DEF IsCall, AtLocals
<1>3. /\ IsSource(p) /\ i \in 0..Len(p.locals) /\ i < Len(p.locals) /\ i + 1 \in 1..Len(p.locals)
      /\ i + 1 \in 0..Len(p.locals)
  <2>1. IsSource(p) /\ Len(p.locals) \in Nat
    BY Lengths DEF Source
  <2>2. i \in 0..Len(p.locals) /\ i < Len(p.locals)
    BY <1>1 DEF AtLocals
  <2> QED BY <2>1, <2>2
<1>4. PICK s, R : s = p.locals[i + 1] /\ R = RestLocals(p, i + 1)
  OBVIOUS
<1>5. IsSeq(s) /\ IsSeq(R)
  <2>1. IsSeq(s)
    BY <1>3, <1>4 DEF IsSource
  <2>2. IsSeq(R)
    BY <1>3, <1>4, RestSeqs DEF Source
  <2> QED BY <2>1, <2>2
<1>6. Reads(f, pp, (Load!LocalVar(s) ++ R) ++ k) /\ pp \in Nat
  <2>1. RestLocals(p, i) = Load!LocalVar(s) ++ R
    BY <1>3, <1>4, LocalsStep
  <2> QED BY <1>1, <2>1 DEF AtLocals, Reads
<1>7. f[pp] = Len(s) /\ Len(s) \in Nat /\ Reads(f, pp + 3 + Len(s), R ++ k)
  BY ONLY IsSeq(f), IsSeq(k), <1>5, <1>6, TakeLocal
<1>8. pp + (Skipped(f[pp]) + 2) = pp + 3 + Len(s)
  <2>1. Skipped(f[pp]) = 1 + Len(s)
    BY <1>7, SkippedAll
  <2> QED BY <1>6, <1>7, <2>1
<1>9. Complete(call2, p, q, dom)
  BY <1>2 DEF AtLocals, Complete
<1>10. AtLocals(f, pp + (Skipped(f[pp]) + 2), call2, p, q, k, dom)
  BY <1>2, <1>3, <1>4, <1>7, <1>8, <1>9 DEF AtLocals
<1> QED BY <1>1, <1>10

\* CountNames.
LEMMA NamesCounted ==
    ASSUME NEW f, IsSeq(f), NEW k, IsSeq(k), NEW p, NEW ks, Source(p, ks), NEW pp, NEW call, IsCall(call), NEW q, NEW dom,
           AtLocals(f, pp, call, p, q, k, dom), call.i = call.n
    PROVE  AtNames(f, pp + 1, [call EXCEPT !.step = "names", !.i = 0, !.n = f[pp]], p, q, k, dom)
<1>1. PICK call2 : call2 = [call EXCEPT !.step = "names", !.i = 0, !.n = f[pp]]
  OBVIOUS
<1>2. call2.step = "names" /\ call2.path = call.path /\ call2.i = 0 /\ call2.n = f[pp]
  BY <1>1 DEF IsCall
<1>3. IsSource(p) /\ Len(p.names) \in Nat /\ IsSeq(RestNames(p, 0)) /\ 0 \in 0..Len(p.names)
  <2>1. IsSource(p) /\ Len(p.names) \in Nat
    BY Lengths DEF Source
  <2>2. 0 \in 0..Len(p.names)
    BY <2>1
  <2> QED BY <2>1, <2>2, RestSeqs DEF Source
<1>4. Reads(f, pp, (One(Len(p.names)) ++ RestNames(p, 0)) ++ k)
  <2>1. call.i \in 0..Len(p.locals) /\ call.i = Len(p.locals)
    BY DEF AtLocals
  <2>2. RestLocals(p, call.i) = One(Len(p.names)) ++ RestNames(p, 0)
    BY <1>3, <2>1, LocalsStep DEF RestNameCount
  <2> QED BY <2>2 DEF AtLocals
<1>5. f[pp] = Len(p.names) /\ Reads(f, pp + 1, RestNames(p, 0) ++ k)
  BY ONLY IsSeq(f), IsSeq(k), <1>3, <1>4, TakeOne
<1>6. Complete(call2, p, q, dom)
  BY <1>2 DEF AtLocals, Complete
<1>7. AtNames(f, pp + 1, call2, p, q, k, dom)
  BY <1>2, <1>3, <1>5, <1>6 DEF AtNames
<1> QED BY <1>1, <1>7

\* IgnoreName.
LEMMA NameIgnored ==
    ASSUME NEW f, IsSeq(f), NEW k, IsSeq(k), NEW p, NEW ks, Source(p, ks), NEW pp, NEW call, IsCall(call), NEW q, NEW dom,
           AtNames(f, pp, call, p, q, k, dom), call.i < call.n
    PROVE  AtNames(f, pp + Skipped(f[pp]), [call EXCEPT !.i = @ + 1], p, q, k, dom)
<1>1. PICK i, call2 : i = call.i /\ call2 = [call EXCEPT !.i = @ + 1]
  OBVIOUS
<1>2. call2.step = "names" /\ call2.path = call.path /\ call2.i = i + 1 /\ call2.n = Len(p.names)
  BY <1>1 DEF IsCall, AtNames
<1>3. /\ IsSource(p) /\ i \in 0..Len(p.names) /\ i < Len(p.names) /\ i + 1 \in 1..Len(p.names)
      /\ i + 1 \in 0..Len(p.names)
  <2>1. IsSource(p) /\ Len(p.names) \in Nat
    BY Lengths DEF Source
  <2>2. i \in 0..Len(p.names) /\ i < Len(p.names)
    BY <1>1 DEF AtNames
  <2> QED BY <2>1, <2>2
<1>4. PICK s, R : s = p.names[i + 1] /\ R = RestNames(p, i + 1)
  OBVIOUS
<1>5. IsSeq(s) /\ IsSeq(R)
  <2>1. IsSeq(s)
    BY <1>3, <1>4 DEF IsSource
  <2>2. IsSeq(R)
    BY <1>3, <1>4, RestSeqs DEF Source
  <2> QED BY <2>1, <2>2
<1>6. Reads(f, pp, (Load!Counted(s) ++ R) ++ k) /\ pp \in Nat
  <2>1. RestNames(p, i) = Load!Counted(s) ++ R
    BY <1>3, <1>4, NamesStep
  <2> QED BY <1>1, <2>1 DEF AtNames, Reads
<1>7. f[pp] = Len(s) /\ Len(s) \in Nat /\ Reads(f, pp + 1 + Len(s), R ++ k)
  BY ONLY IsSeq(f), IsSeq(k), <1>5, <1>6, TakeCounted
<1>8. pp + Skipped(f[pp]) = pp + 1 + Len(s)
  <2>1. Skipped(f[pp]) = 1 + Len(s)
    BY <1>7, SkippedAll
  <2> QED BY <1>6, <1>7, <2>1
<1>9. Complete(call2, p, q, dom)
  BY <1>2 DEF AtNames, Complete
<1>10. AtNames(f, pp + Skipped(f[pp]), call2, p, q, k, dom)
  BY <1>2, <1>3, <1>4, <1>7, <1>8, <1>9 DEF AtNames
<1> QED BY <1>1, <1>10

\* FunctionLoaded: all is kept, and what follows the function is next.
LEMMA FunctionRead ==
    ASSUME NEW f, IsSeq(f), NEW k, IsSeq(k), NEW p, NEW ks, Source(p, ks), NEW pp, NEW call, NEW q, NEW dom,
           AtNames(f, pp, call, p, q, k, dom), call.i = call.n
    PROVE  Complete(call, p, q, dom) /\ Reads(f, pp, k)
<1>1. call.i \in 0..Len(p.names) /\ call.i = Len(p.names) /\ IsSource(p)
  BY DEF AtNames, Source
<1>2. RestNames(p, call.i) = <<>>
  BY <1>1, NamesStep
<1>3. <<>> ++ k = k
  BY SeqEmpty
<1>4. Reads(f, pp, k)
  BY <1>2, <1>3 DEF AtNames
<1> QED BY <1>4 DEF AtNames

-----------------------------------------------------------------------------
(* The calls that have not returned.                                       *)

\* The function at the end of a way, and the items of those inside it.
FnOf(c, path) == c[NodeIn(c, path)]
KsOf(c, path) == KidItems(Dumps(c), FnOf(c, path))
IsPath(c, path) == IsSeq(path) /\ NodeIn(c, path) \in 1..Len(c)

\* Calls that wait for the one above them; K is what follows each function in the file.
WaitingAt(c, f, a, P, K, d) ==
    /\ Waiting(f, a[d], FnOf(c, a[d].path), P[a[d].path], DOMAIN P)
    /\ K[d + 1] = RestKids(FnOf(c, a[d].path), KsOf(c, a[d].path), a[d].i) ++ K[d]

\* A call is for a function of the program, one level further in.
CallAt(c, a, P, K, d) ==
    /\ IsCall(a[d]) /\ IsSeq(K[d]) /\ IsPath(c, a[d].path)
    /\ Len(a[d].path) = d - 1
    /\ a[d].path \in DOMAIN P

\* The calls that have not returned.
Calls(c, f, a, P, K) ==
    /\ IsSeq(a) /\ Len(a) >= 1 /\ K[1] = <<>> /\ IsFun(P)
    /\ \A d \in 1..Len(a) : CallAt(c, a, P, K, d)
    /\ \A d \in 1..(Len(a) - 1) : WaitingAt(c, f, a, P, K, d)

\* The innermost one is at one of the steps.
TopAt(c, f, pp, a, P, K) ==
    LET call == a[Len(a)]
    IN  AtStep(f, pp, call, FnOf(c, call.path), KsOf(c, call.path), P[call.path], K[Len(a)], DOMAIN P)

\* A function that has been loaded, with those inside it.
Finished(c, P, path) ==
    /\ Load!IsFunction(P[path], FnOf(c, path))
    /\ \A j \in DOMAIN FnOf(c, path).kids : Append(path, j) \in DOMAIN P

\* All but those that are being loaded.
FinishedBut(c, a, P) == \A path \in DOMAIN P : (\E d \in 1..Len(a) : a[d].path = path) \/ Finished(c, P, path)

\* The reader is in a function.
InCalls(c, f, pp, a, P) == \E K : Calls(c, f, a, P, K) /\ TopAt(c, f, pp, a, P, K) /\ FinishedBut(c, a, P)

\* The reader of a file (IInv of the Loader): before the header, in a function, at the end, or stopped.
LoadInv(c, f, pp, a, P, o) ==
    /\ c \in Chunks /\ IsSeq(f) /\ pp \in 1..(Len(f) + 1)
    /\ \/ o = "loading" /\ a = <<>> /\ Reads(f, 2, Dumps(c)[1])
       \/ o = "loading" /\ a # <<>> /\ InCalls(c, f, pp, a, P)
       \/ o = "loaded" /\ pp = Len(f) + 1 /\ \A path \in DOMAIN P : Finished(c, P, path)
       \/ o \notin {"loading", "loaded"}

\* A way leads to a function of the program.
LEMMA SourceOf ==
    ASSUME NEW c, c \in Chunks, NEW path, IsPath(c, path)
    PROVE  Source(FnOf(c, path), KsOf(c, path))
<1>1. Load!IsProgram(c)
  BY ProgramsAssumption
<1>2. PICK n \in 1..Len(c) : n = NodeIn(c, path)
  BY DEF IsPath
<1> QED BY <1>1, <1>2, DumpsAre DEF Source, FnOf, KsOf

\* A call that goes on is for the same function.
LEMMA CallKept ==
    ASSUME NEW call, IsCall(call), NEW x, NEW y
    PROVE  /\ \A call2 : call2 = [call EXCEPT !.i = @ + 1] => IsCall(call2) /\ call2.path = call.path
           /\ \A call2 : call2 = [call EXCEPT !.step = x, !.i = 0] => IsCall(call2) /\ call2.path = call.path
           /\ \A call2 : call2 = [call EXCEPT !.step = "nrconstants", !.seek = x] =>
                             IsCall(call2) /\ call2.path = call.path
           /\ \A call2 : call2 = [call EXCEPT !.step = "code", !.i = 0, !.end = x] =>
                             IsCall(call2) /\ call2.path = call.path
           /\ \A call2 : call2 = [call EXCEPT !.step = x, !.i = 0, !.n = y] =>
                             IsCall(call2) /\ call2.path = call.path
BY DEF IsCall, IsFun

\* The step says where the call is.
LEMMA StepIs ==
    ASSUME NEW f, NEW pp, NEW call, NEW p, NEW ks, NEW q, NEW k, NEW dom, AtStep(f, pp, call, p, ks, q, k, dom)
    PROVE  /\ call.step = "members" => AtMembers(f, pp, call, p, ks, q, k)
           /\ call.step = "nrconstants" => AtConstantCount(f, pp, call, p, ks, q, k)
           /\ call.step = "constants" => AtConstants(f, pp, call, p, ks, q, k)
           /\ call.step = "prototypes" => AtPrototypes(f, pp, call, p, ks, q, k, dom)
           /\ call.step = "code" => AtCode(f, pp, call, p, q, k, dom)
           /\ call.step = "upvalues" => AtUpvalues(f, pp, call, p, q, k, dom)
           /\ call.step = "debug" => AtDebug(f, pp, call, p, q, k, dom)
           /\ call.step = "locals" => AtLocals(f, pp, call, p, q, k, dom)
           /\ call.step = "names" => AtNames(f, pp, call, p, q, k, dom)
<1>1. /\ AtMembers(f, pp, call, p, ks, q, k) => call.step = "members"
      /\ AtConstantCount(f, pp, call, p, ks, q, k) => call.step = "nrconstants"
      /\ AtConstants(f, pp, call, p, ks, q, k) => call.step = "constants"
      /\ AtPrototypes(f, pp, call, p, ks, q, k, dom) => call.step = "prototypes"
      /\ AtCode(f, pp, call, p, q, k, dom) => call.step = "code"
      /\ AtUpvalues(f, pp, call, p, q, k, dom) => call.step = "upvalues"
      /\ AtDebug(f, pp, call, p, q, k, dom) => call.step = "debug"
      /\ AtLocals(f, pp, call, p, q, k, dom) => call.step = "locals"
      /\ AtNames(f, pp, call, p, q, k, dom) => call.step = "names"
  BY DEF AtMembers, AtConstantCount, AtConstants, AtPrototypes, Waiting, AtCode, AtUpvalues, AtDebug, AtLocals, AtNames
<1> QED BY <1>1 DEF AtStep

\* Only the innermost call changes, and its proto.
LEMMA TopChanges ==
    ASSUME NEW c, c \in Chunks, NEW f, IsSeq(f), NEW a, NEW P, NEW K, Calls(c, f, a, P, K), FinishedBut(c, a, P),
           NEW n, n = Len(a), NEW path, path = a[n].path,
           NEW a2, IsSeq(a2), Len(a2) = n, \A d \in 1..(n - 1) : a2[d] = a[d],
           NEW call2, a2[n] = call2, IsCall(call2), call2.path = path,
           NEW P2, IsFun(P2), DOMAIN P2 = DOMAIN P, \A x \in DOMAIN P : x # path => P2[x] = P[x],
           NEW pp, AtStep(f, pp, call2, FnOf(c, path), KsOf(c, path), P2[path], K[n], DOMAIN P)
    PROVE  LoadInv(c, f, pp, a2, P2, "loading")
<1>1. n \in Nat /\ n >= 1 /\ n \in 1..n /\ \A d \in 1..(n - 1) : d \in 1..n /\ d # n
  BY SeqFacts DEF Calls
<1>2. \A d \in 1..n : a2[d].path = a[d].path
  <2>1. \A d \in 1..n : d \in 1..(n - 1) \/ d = n
    BY <1>1
  <2> QED BY <2>1
<1>3. \A d \in 1..n : CallAt(c, a2, P2, K, d)
  <2>1. \A d \in 1..n : IsCall(a2[d])
    <3>1. \A d \in 1..n : d \in 1..(n - 1) \/ d = n
      BY <1>1
    <3>2. \A d \in 1..(n - 1) : IsCall(a[d])
      BY <1>1 DEF Calls, CallAt
    <3> QED BY <3>1, <3>2
  <2> QED BY <1>2, <2>1 DEF Calls, CallAt
<1>4. ASSUME NEW d \in 1..(n - 1) PROVE WaitingAt(c, f, a2, P2, K, d)
  <2>1. WaitingAt(c, f, a, P, K, d) /\ a2[d] = a[d]
    BY DEF Calls
  <2>2. a[d].path # path /\ a[d].path \in DOMAIN P
    <3>1. Len(a[d].path) = d - 1 /\ Len(path) = n - 1 /\ a[d].path \in DOMAIN P
      BY <1>1 DEF Calls, CallAt
    <3>2. d - 1 # n - 1
      BY <1>1
    <3> QED BY <3>1, <3>2
  <2>3. P2[a[d].path] = P[a[d].path]
    BY <2>2
  <2> QED BY <2>1, <2>3 DEF WaitingAt
<1>5. Calls(c, f, a2, P2, K)
  BY <1>1, <1>3, <1>4 DEF Calls
<1>6. TopAt(c, f, pp, a2, P2, K)
  BY DEF TopAt
<1>7. FinishedBut(c, a2, P2)
  <2> SUFFICES ASSUME NEW x \in DOMAIN P2
               PROVE  (\E d \in 1..n : a2[d].path = x) \/ Finished(c, P2, x)
    BY DEF FinishedBut
  <2>1. CASE \E d \in 1..n : a[d].path = x
    BY <1>2, <2>1
  <2>2. CASE ~\E d \in 1..n : a[d].path = x
    <3>1. Finished(c, P, x) /\ x # path
      BY <1>1, <2>2 DEF FinishedBut
    <3>2. P2[x] = P[x]
      BY <3>1
    <3> QED BY <3>1, <3>2 DEF Finished
  <2> QED BY <2>1, <2>2
<1>8. pp \in 1..(Len(f) + 1)
  <2>1. IsPath(c, path)
    BY <1>1 DEF Calls, CallAt
  <2> QED BY <2>1, SourceOf, StepInFile
<1>9. a2 # <<>>
  BY <1>1
<1>10. InCalls(c, f, pp, a2, P2)
  BY <1>5, <1>6, <1>7 DEF InCalls
<1> QED BY <1>8, <1>9, <1>10 DEF LoadInv

\* The last one of a sequence is set.
LEMMA TopSet ==
    ASSUME NEW a, IsSeq(a), Len(a) >= 1, NEW call2
    PROVE  /\ IsSeq([a EXCEPT ![Len(a)] = call2])
           /\ Len([a EXCEPT ![Len(a)] = call2]) = Len(a)
           /\ [a EXCEPT ![Len(a)] = call2][Len(a)] = call2
           /\ \A d \in 1..(Len(a) - 1) : [a EXCEPT ![Len(a)] = call2][d] = a[d]
<1>1. PICK S : a \in Seq(S)
  BY DEF IsSeq
<1>2. PICK b : b = [a EXCEPT ![Len(a)] = call2]
  OBVIOUS
<1>3. a \in Seq(S \cup {call2}) /\ Len(a) \in Nat
  BY <1>1
<1>4. b \in Seq(S \cup {call2}) /\ Len(b) = Len(a) /\ b[Len(a)] = call2 /\ \A d \in 1..(Len(a) - 1) : b[d] = a[d]
  BY <1>2, <1>3
<1> QED BY <1>2, <1>4 DEF IsSeq

\* The state of a reader in a function.
Inside(c, f, pp, a, P, K) ==
    c \in Chunks /\ IsSeq(f) /\ Calls(c, f, a, P, K) /\ TopAt(c, f, pp, a, P, K) /\ FinishedBut(c, a, P)

\* What is known of the innermost call.
LEMMA TopFacts ==
    ASSUME NEW c, NEW f, NEW pp, NEW a, NEW P, NEW K, Inside(c, f, pp, a, P, K)
    PROVE  LET call == a[Len(a)]
           IN  /\ Len(a) \in Nat /\ Len(a) >= 1 /\ IsSeq(a) /\ IsSeq(f) /\ IsSeq(K[Len(a)]) /\ IsFun(P)
               /\ IsCall(call) /\ IsPath(c, call.path) /\ call.path \in DOMAIN P /\ Len(call.path) = Len(a) - 1
               /\ Source(FnOf(c, call.path), KsOf(c, call.path))
               /\ AtStep(f, pp, call, FnOf(c, call.path), KsOf(c, call.path), P[call.path], K[Len(a)], DOMAIN P)
<1>1. Len(a) \in Nat /\ Len(a) >= 1 /\ IsSeq(a) /\ Len(a) \in 1..Len(a) /\ IsFun(P)
  BY SeqFacts DEF Inside, Calls
<1>2. CallAt(c, a, P, K, Len(a))
  BY <1>1 DEF Inside, Calls
<1>3. Source(FnOf(c, a[Len(a)].path), KsOf(c, a[Len(a)].path))
  BY <1>2, SourceOf DEF CallAt, Inside
<1> QED BY <1>1, <1>2, <1>3 DEF CallAt, Inside, TopAt

\* The innermost call goes from one step to the next.
LEMMA TopStep ==
    ASSUME NEW c, NEW f, NEW pp, NEW a, NEW P, NEW K, Inside(c, f, pp, a, P, K),
           NEW call2, IsCall(call2), NEW path, path = a[Len(a)].path, call2.path = path, NEW q2, NEW pp2,
           AtStep(f, pp2, call2, FnOf(c, path), KsOf(c, path), q2, K[Len(a)], DOMAIN P)
    PROVE  /\ LoadInv(c, f, pp2, [a EXCEPT ![Len(a)] = call2], [P EXCEPT ![path] = q2], "loading")
           /\ q2 = P[path] => LoadInv(c, f, pp2, [a EXCEPT ![Len(a)] = call2], P, "loading")
<1>1. IsSeq(a) /\ Len(a) >= 1 /\ path \in DOMAIN P /\ IsFun(P)
  BY TopFacts
<1>2. PICK a2 : a2 = [a EXCEPT ![Len(a)] = call2]
  OBVIOUS
<1>3. IsSeq(a2) /\ Len(a2) = Len(a) /\ a2[Len(a)] = call2 /\ \A d \in 1..(Len(a) - 1) : a2[d] = a[d]
  <2>1. IsSeq(a) /\ Len(a) >= 1
    BY <1>1
  <2>2. /\ IsSeq([a EXCEPT ![Len(a)] = call2])
        /\ Len([a EXCEPT ![Len(a)] = call2]) = Len(a)
        /\ [a EXCEPT ![Len(a)] = call2][Len(a)] = call2
        /\ \A d \in 1..(Len(a) - 1) : [a EXCEPT ![Len(a)] = call2][d] = a[d]
    BY ONLY <2>1, TopSet
  <2> QED BY ONLY <1>2, <2>2
<1>4. PICK P2 : P2 = [P EXCEPT ![path] = q2]
  OBVIOUS
<1>5. IsFun(P2) /\ DOMAIN P2 = DOMAIN P /\ P2[path] = q2 /\ \A x \in DOMAIN P : x # path => P2[x] = P[x]
  BY <1>1, <1>4 DEF IsFun
<1>6. c \in Chunks /\ IsSeq(f) /\ Calls(c, f, a, P, K) /\ FinishedBut(c, a, P)
  BY DEF Inside
<1>7. PICK n : n = Len(a) /\ path = a[n].path /\ IsSeq(a2) /\ Len(a2) = n /\ a2[n] = call2
               /\ (\A d \in 1..(n - 1) : a2[d] = a[d]) /\ IsCall(call2) /\ call2.path = path
  BY <1>3
<1>8. LoadInv(c, f, pp2, a2, P2, "loading")
  <2>1. AtStep(f, pp2, call2, FnOf(c, path), KsOf(c, path), P2[path], K[n], DOMAIN P)
    BY <1>5, <1>7
  <2>2. IsFun(P2) /\ DOMAIN P2 = DOMAIN P /\ \A x \in DOMAIN P : x # path => P2[x] = P[x]
    BY <1>5
  <2> QED BY ONLY <1>6, <1>7, <2>1, <2>2, TopChanges
<1>9. ASSUME q2 = P[path] PROVE LoadInv(c, f, pp2, a2, P, "loading")
  <2>1. AtStep(f, pp2, call2, FnOf(c, path), KsOf(c, path), P[path], K[n], DOMAIN P)
    BY <1>7, <1>9
  <2>2. IsFun(P) /\ \A x \in DOMAIN P : x # path => P[x] = P[x]
    BY <1>1
  <2> QED BY ONLY <1>6, <1>7, <2>1, <2>2, TopChanges
<1> QED BY <1>2, <1>4, <1>8, <1>9

\* A function that has been loaded stays so.
LEMMA FinishedMore ==
    ASSUME NEW c, NEW P, NEW P2, NEW x, Finished(c, P, x), P2[x] = P[x], DOMAIN P \subseteq DOMAIN P2
    PROVE  Finished(c, P2, x)
BY DEF Finished

\* A function inside is called.
WithCall(a, n, call2, path2) == Append([a EXCEPT ![n] = call2], Load!LoadFunction(path2))
WithBlank(P, path2) == [x \in DOMAIN P \cup {path2} |-> IF x = path2 THEN Load!Blank ELSE P[x]]

LEMMA Pushed ==
    ASSUME NEW c, NEW f, NEW pp, NEW a, NEW P, NEW K, Inside(c, f, pp, a, P, K),
           NEW n, n = Len(a), NEW call, call = a[n], call.step = "prototypes",
           call.i < Len(FnOf(c, call.path).kids), NEW path2, path2 = Append(call.path, call.i + 1),
           NEW call2, call2 = [call EXCEPT !.i = @ + 1]
    PROVE  LoadInv(c, f, pp, WithCall(a, n, call2, path2), WithBlank(P, path2), "loading")
<1>1. PICK path, k, q, dom : path = call.path /\ k = K[n] /\ q = P[path] /\ dom = DOMAIN P
  OBVIOUS
<1>2. PICK p, ks : p = FnOf(c, path) /\ ks = KsOf(c, path)
  OBVIOUS
<1>3. /\ n \in Nat /\ n >= 1 /\ IsSeq(a) /\ IsSeq(f) /\ IsSeq(k) /\ IsFun(P) /\ IsCall(call)
      /\ IsPath(c, path) /\ path \in DOMAIN P /\ Len(path) = n - 1 /\ Source(p, ks)
      /\ AtStep(f, pp, call, p, ks, q, k, dom)
  BY <1>1, <1>2, TopFacts
<1>4. AtPrototypes(f, pp, call, p, ks, q, k, dom)
  BY <1>3, StepIs
<1>5. PICK i : i = call.i /\ i \in 0..Len(p.kids) /\ i < Len(p.kids) /\ i + 1 \in 1..Len(p.kids)
  <2>1. Len(p.kids) \in Nat
    BY <1>3, Lengths DEF Source
  <2>2. call.i \in 0..Len(p.kids)
    BY <1>4 DEF AtPrototypes, Waiting
  <2>3. call.i < Len(p.kids)
    BY <1>1, <1>2
  <2>4. call.i + 1 \in 1..Len(p.kids)
    BY ONLY <2>1, <2>2, <2>3
  <2> QED BY ONLY <2>2, <2>3, <2>4
<1>6. /\ IsPath(c, path2) /\ IsSeq(path2) /\ Len(path2) = n
      /\ Source(FnOf(c, path2), KsOf(c, path2)) /\ ks[i + 1] = RestAll(FnOf(c, path2), KsOf(c, path2))
  <2>1. IsSeq(path2) /\ Len(path2) = n
    BY <1>1, <1>3, SeqAppend DEF IsPath
  <2>2. Load!IsProgram(c)
    BY ProgramsAssumption DEF Inside
  <2>3. PICK m \in 1..Len(c) : m = NodeIn(c, path) /\ p = c[m] /\ ks = KidItems(Dumps(c), c[m])
    BY <1>2, <1>3 DEF IsPath, FnOf, KsOf
  <2>4. PICK j : j = p.kids[i + 1] /\ j \in 1..Len(c) /\ ks[i + 1] = Dumps(c)[j]
    BY <1>5, <2>2, <2>3, DumpsAre
  <2>5. NodeIn(c, path2) = j
    <3>1. IsSeq(path) /\ i + 1 = call.i + 1 /\ path2 = Append(path, i + 1) /\ j = c[NodeIn(c, path)].kids[i + 1]
      BY <1>1, <1>3, <1>5, <2>3, <2>4 DEF IsPath
    <3> QED BY ONLY <3>1, NodeOfChild
  <2>6. IsPath(c, path2)
    BY <2>1, <2>4, <2>5 DEF IsPath
  <2>7. Source(FnOf(c, path2), KsOf(c, path2))
    BY <2>6, SourceOf DEF Inside
  <2>8. ks[i + 1] = RestAll(FnOf(c, path2), KsOf(c, path2))
    BY <2>2, <2>4, <2>5, DumpsAre DEF FnOf, KsOf
  <2> QED BY <2>1, <2>6, <2>7, <2>8
<1>7. PICK new, k2 : new = Load!LoadFunction(path2) /\ k2 = RestKids(p, ks, i + 1) ++ k
  OBVIOUS
<1>8. /\ Waiting(f, call2, p, q, dom \cup {path2})
      /\ AtMembers(f, pp, new, FnOf(c, path2), KsOf(c, path2), Load!Blank, k2)
      /\ IsSeq(k2)
  <2>1. PICK p2, ks2 : p2 = FnOf(c, path2) /\ ks2 = KsOf(c, path2) /\ Source(p2, ks2) /\ ks[i + 1] = RestAll(p2, ks2)
    BY <1>6
  <2>2. call.i < Len(p.kids) /\ ks[call.i + 1] = RestAll(p2, ks2)
    BY <1>5, <2>1
  <2>3. /\ Waiting(f, [call EXCEPT !.i = @ + 1], p, q, dom \cup {Append(call.path, call.i + 1)})
        /\ AtMembers(f, pp, Load!LoadFunction(Append(call.path, call.i + 1)), p2, ks2, Load!Blank,
               RestKids(p, ks, call.i + 1) ++ k)
        /\ IsSeq(RestKids(p, ks, call.i + 1) ++ k)
    <3>1. IsSeq(f) /\ IsSeq(k) /\ Source(p, ks) /\ IsCall(call) /\ call.step = "prototypes"
      BY <1>3
    <3> QED BY ONLY <3>1, <1>4, <2>1, <2>2, ChildCalled
  <2> QED BY <1>5, <1>7, <2>1, <2>3
<1>9. IsCall(call2) /\ call2.path = path /\ call2.i = i + 1 /\ IsCall(new) /\ new.path = path2
  <2>1. IsCall(call2) /\ call2.path = call.path /\ call2.i = i + 1
    BY <1>3, <1>5, <1>7 DEF IsCall, IsFun
  <2>2. IsCall(new) /\ new.path = path2
    BY ONLY <1>7 DEF IsCall, IsFun, Load!LoadFunction
  <2> QED BY <1>1, <2>1, <2>2
<1>10. PICK b, a2 : b = [a EXCEPT ![n] = call2] /\ a2 = Append(b, new)
  OBVIOUS
<1>11. /\ IsSeq(a2) /\ Len(a2) = n + 1 /\ a2[n + 1] = new /\ a2[n] = call2
       /\ \A d \in 1..(n - 1) : a2[d] = a[d]
  <2>1. IsSeq(b) /\ Len(b) = n /\ b[n] = call2 /\ \A d \in 1..(n - 1) : b[d] = a[d]
    <3>1. IsSeq(a) /\ Len(a) >= 1
      BY <1>3
    <3>2. /\ IsSeq([a EXCEPT ![Len(a)] = call2])
          /\ Len([a EXCEPT ![Len(a)] = call2]) = Len(a)
          /\ [a EXCEPT ![Len(a)] = call2][Len(a)] = call2
          /\ \A d \in 1..(Len(a) - 1) : [a EXCEPT ![Len(a)] = call2][d] = a[d]
      BY ONLY <3>1, TopSet
    <3>3. n = Len(a)
      OBVIOUS
    <3> QED BY ONLY <1>10, <3>2, <3>3
  <2>2. IsSeq(a2) /\ Len(a2) = Len(b) + 1 /\ a2[Len(b) + 1] = new /\ \A d \in 1..Len(b) : a2[d] = b[d]
    BY <1>10, <2>1, SeqAppend
  <2>3. n \in 1..n /\ \A d \in 1..(n - 1) : d \in 1..n
    BY <1>3
  <2> QED BY <2>1, <2>2, <2>3
<1> DEFINE P2 == WithBlank(P, path2)
           K2 == [d \in 1..(n + 1) |-> IF d = n + 1 THEN k2 ELSE K[d]]
<1>12. /\ IsFun(P2) /\ DOMAIN P2 = dom \cup {path2} /\ P2[path2] = Load!Blank
       /\ \A x \in dom : x # path2 => P2[x] = P[x]
  BY <1>1 DEF IsFun, WithBlank
<1>13. K2[n + 1] = k2 /\ \A d \in 1..n : K2[d] = K[d]
  BY <1>3
<1> HIDE DEF P2, K2
<1>14. \A d \in 1..n : /\ IsCall(a[d]) /\ IsSeq(K[d]) /\ IsPath(c, a[d].path) /\ Len(a[d].path) = d - 1
                       /\ a[d].path \in dom /\ a[d].path # path2
  <2>1. \A d \in 1..n : CallAt(c, a, P, K, d)
    BY DEF Inside, Calls
  <2>2. \A d \in 1..n : d - 1 # n
    BY <1>3
  <2> QED BY <1>1, <1>6, <2>1, <2>2 DEF CallAt
<1>15. \A d \in 1..n : a2[d].path = a[d].path
  <2>1. \A d \in 1..n : d \in 1..(n - 1) \/ d = n
    BY <1>3
  <2> QED BY <1>1, <1>9, <1>11, <2>1
<1>16. ASSUME NEW d \in 1..(n + 1) PROVE CallAt(c, a2, P2, K2, d)
  <2>1. CASE d = n + 1
    <3>1. d - 1 = n
      BY <1>3, <2>1
    <3> QED BY <1>6, <1>8, <1>9, <1>11, <1>12, <1>13, <2>1, <3>1 DEF CallAt
  <2>2. CASE d \in 1..n
    <3>1. IsCall(a2[d])
      <4>1. d \in 1..(n - 1) \/ d = n
        BY <1>3, <2>2
      <4> QED BY <1>9, <1>11, <1>14, <4>1, <2>2
    <3> QED BY <1>12, <1>13, <1>14, <1>15, <2>2, <3>1 DEF CallAt
  <2>3. d = n + 1 \/ d \in 1..n
    BY <1>3
  <2> QED BY <2>1, <2>2, <2>3
<1>17. ASSUME NEW d \in 1..n PROVE WaitingAt(c, f, a2, P2, K2, d)
  <2>1. d + 1 \in 1..(n + 1) /\ (d = n \/ (d \in 1..(n - 1) /\ d + 1 \in 1..n))
    BY <1>3
  <2>2. P2[a[d].path] = P[a[d].path]
    BY <1>12, <1>14
  <2>3. CASE d = n
    <3>1. a2[d] = call2 /\ a2[d].path = path /\ P2[path] = q /\ K2[d + 1] = k2 /\ K2[d] = k
      BY <1>1, <1>9, <1>11, <1>13, <2>2, <2>3
    <3>2. Waiting(f, call2, p, q, DOMAIN P2)
      BY <1>8, <1>12
    <3> QED BY <1>2, <1>7, <1>9, <3>1, <3>2 DEF WaitingAt
  <2>4. CASE d \in 1..(n - 1) /\ d + 1 \in 1..n
    <3>1. a2[d] = a[d] /\ K2[d + 1] = K[d + 1] /\ K2[d] = K[d]
      BY <1>11, <1>13, <2>4
    <3>2. WaitingAt(c, f, a, P, K, d)
      BY <1>3, <2>4 DEF Inside, Calls
    <3>3. Waiting(f, a[d], FnOf(c, a[d].path), P[a[d].path], DOMAIN P2)
      BY <1>1, <1>12, <3>2 DEF WaitingAt, Waiting, Seen
    <3> QED BY <2>2, <3>1, <3>2, <3>3 DEF WaitingAt
  <2> QED BY <2>1, <2>3, <2>4
<1>18. Calls(c, f, a2, P2, K2)
  <2>1. Len(a2) >= 1 /\ n + 1 - 1 = n /\ 1 \in 1..n
    BY ONLY <1>3, <1>11
  <2>2. K2[1] = <<>>
    BY <1>13, <2>1 DEF Inside, Calls
  <2> QED BY <1>11, <1>12, <1>16, <1>17, <2>1, <2>2 DEF Calls
<1>19. TopAt(c, f, pp, a2, P2, K2)
  BY <1>8, <1>9, <1>11, <1>12, <1>13 DEF TopAt, AtStep
<1>20. FinishedBut(c, a2, P2)
  <2> SUFFICES ASSUME NEW x \in DOMAIN P2
               PROVE  (\E d \in 1..(n + 1) : a2[d].path = x) \/ Finished(c, P2, x)
    BY <1>11 DEF FinishedBut
  <2>1. n + 1 \in 1..(n + 1) /\ \A d \in 1..n : d \in 1..(n + 1)
    BY <1>3
  <2>2. CASE x = path2
    BY <1>9, <1>11, <2>1, <2>2
  <2>3. CASE x # path2 /\ \E d \in 1..n : a[d].path = x
    BY <1>15, <2>1, <2>3
  <2>4. CASE x # path2 /\ ~\E d \in 1..n : a[d].path = x
    <3>1. x \in dom
      BY <1>12, <2>4
    <3>2. Finished(c, P, x)
      BY <1>1, <2>4, <3>1 DEF Inside, FinishedBut
    <3> QED BY <1>1, <1>12, <2>4, <3>1, <3>2, FinishedMore
  <2> QED BY <2>2, <2>3, <2>4
<1>21. pp \in 1..(Len(f) + 1)
  BY <1>3, StepInFile
<1>22. a2 # <<>>
  BY <1>3, <1>11
<1>23. LoadInv(c, f, pp, a2, P2, "loading")
  BY <1>18, <1>19, <1>20, <1>21, <1>22 DEF LoadInv, InCalls, Inside
<1>24. a2 = WithCall(a, n, call2, path2)
  BY ONLY <1>7, <1>10 DEF WithCall
<1> QED BY ONLY <1>23, <1>24 DEF P2

\* All but the last one.
LEMMA SeqFront ==
    ASSUME NEW a, IsSeq(a), Len(a) >= 1
    PROVE  /\ IsSeq(SubSeq(a, 1, Len(a) - 1))
           /\ Len(SubSeq(a, 1, Len(a) - 1)) = Len(a) - 1
           /\ \A d \in 1..(Len(a) - 1) : SubSeq(a, 1, Len(a) - 1)[d] = a[d]
<1>1. Len(a) \in Nat
  BY SeqFacts
<1>2. PICK n : n = Len(a) - 1
  OBVIOUS
<1>3. n \in Nat /\ 1 + n <= Len(a) + 1 /\ 1 + n - 1 = n /\ 1 \in Nat /\ 1 >= 1 /\ \A d \in 1..n : 1 + d - 1 = d
  BY <1>1, <1>2
<1>4. /\ IsSeq(Part(a, 1, n)) /\ Len(Part(a, 1, n)) = n
      /\ \A d \in 1..n : Part(a, 1, n)[d] = a[1 + d - 1]
  BY ONLY <1>3, IsSeq(a), SeqPart
<1>5. Part(a, 1, n) = SubSeq(a, 1, n)
  BY <1>3 DEF Part
<1>6. IsSeq(SubSeq(a, 1, n)) /\ Len(SubSeq(a, 1, n)) = n /\ \A d \in 1..n : SubSeq(a, 1, n)[d] = a[d]
  BY ONLY <1>3, <1>4, <1>5
<1> QED BY ONLY <1>2, <1>6

\* A function of which all has been read has been loaded.
LEMMA FinishedNow ==
    ASSUME NEW c, NEW P, NEW path, NEW call, call.path = path, IsSource(FnOf(c, path)),
           Complete(call, FnOf(c, path), P[path], DOMAIN P)
    PROVE  Finished(c, P, path)
<1>1. PICK p, q : p = FnOf(c, path) /\ q = P[path]
  OBVIOUS
<1>2. DOMAIN p.kids = 1..Len(p.kids)
  BY <1>1, SeqFacts DEF IsSource
<1>3. Load!IsFunction(q, p)
  BY <1>1 DEF Complete, ProtoRead, Load!IsFunction
<1>4. \A j \in DOMAIN p.kids : Append(path, j) \in DOMAIN P
  BY <1>1, <1>2 DEF Complete, Seen
<1> QED BY <1>1, <1>3, <1>4 DEF Finished

\* A function has been loaded.
LEMMA Popped ==
    ASSUME NEW c, NEW f, NEW pp, NEW a, NEW P, NEW K, Inside(c, f, pp, a, P, K),
           NEW n, n = Len(a), NEW call, call = a[n], call.step = "names", call.i = call.n,
           NEW a2, a2 = SubSeq(a, 1, Len(a) - 1)
    PROVE  LoadInv(c, f, pp, a2, P, IF n = 1 THEN "loaded" ELSE "loading")
<1>1. PICK path, k, q, p, ks : /\ path = call.path /\ k = K[n] /\ q = P[path]
                               /\ p = FnOf(c, path) /\ ks = KsOf(c, path)
  OBVIOUS
<1>2. PICK dom : dom = DOMAIN P
  OBVIOUS
<1>3. /\ n \in Nat /\ n >= 1 /\ IsSeq(a) /\ IsSeq(f) /\ IsSeq(k) /\ IsFun(P) /\ IsCall(call)
      /\ Source(p, ks) /\ AtStep(f, pp, call, p, ks, q, k, dom)
  BY <1>1, <1>2, TopFacts
<1>4. AtNames(f, pp, call, p, q, k, dom)
  BY <1>3, StepIs
<1>5. Complete(call, p, q, dom) /\ Reads(f, pp, k)
  BY ONLY <1>3, <1>4, call.i = call.n, FunctionRead
<1>6. Finished(c, P, path)
  BY <1>1, <1>2, <1>3, <1>5, FinishedNow DEF Source
<1>7. IsSeq(a2) /\ Len(a2) = n - 1 /\ \A d \in 1..(n - 1) : a2[d] = a[d]
  <2>1. IsSeq(a) /\ Len(a) >= 1
    BY <1>3
  <2>2. /\ IsSeq(SubSeq(a, 1, Len(a) - 1))
        /\ Len(SubSeq(a, 1, Len(a) - 1)) = Len(a) - 1
        /\ \A d \in 1..(Len(a) - 1) : SubSeq(a, 1, Len(a) - 1)[d] = a[d]
    BY ONLY <2>1, SeqFront
  <2>3. n = Len(a) /\ a2 = SubSeq(a, 1, Len(a) - 1)
    OBVIOUS
  <2> QED BY ONLY <2>2, <2>3
<1>8. \A x \in DOMAIN P : (\E d \in 1..(n - 1) : a2[d].path = x) \/ Finished(c, P, x)
  <2> SUFFICES ASSUME NEW x \in DOMAIN P, ~Finished(c, P, x)
               PROVE  \E d \in 1..(n - 1) : a2[d].path = x
    OBVIOUS
  <2>1. PICK d \in 1..n : a[d].path = x
    BY DEF Inside, FinishedBut
  <2>2. d # n
    BY <1>1, <1>6, <2>1
  <2>3. d \in 1..(n - 1)
    BY <1>3, <2>1, <2>2
  <2> QED BY <1>7, <2>1, <2>3
<1>9. CASE n = 1
  <2>1. k = <<>>
    BY <1>1, <1>9 DEF Inside, Calls
  <2>2. pp = Len(f) + 1
    <3>1. Len(f) \in Nat
      BY <1>3, SeqFacts
    <3> QED BY <1>5, <2>1, <3>1 DEF Reads
  <2>3. \A x \in DOMAIN P : Finished(c, P, x)
    BY <1>8, <1>9
  <2>4. pp \in 1..(Len(f) + 1)
    BY <1>3, StepInFile
  <2> QED BY <1>3, <1>9, <2>2, <2>3, <2>4 DEF LoadInv, Inside
<1>10. CASE n # 1
  <2>1. PICK m : m = n - 1 /\ m \in Nat /\ m >= 1 /\ m \in 1..n /\ m \in 1..(n - 1) /\ m + 1 = n
    BY <1>3, <1>10
  <2>2. \A d \in 1..m : CallAt(c, a2, P, K, d)
    <3>1. \A d \in 1..m : CallAt(c, a, P, K, d) /\ a2[d] = a[d]
      BY <1>3, <1>7, <2>1 DEF Inside, Calls
    <3> QED BY <3>1 DEF CallAt
  <2>3. \A d \in 1..(m - 1) : WaitingAt(c, f, a2, P, K, d)
    <3>1. \A d \in 1..(m - 1) : WaitingAt(c, f, a, P, K, d) /\ a2[d] = a[d]
      BY <1>3, <1>7, <2>1 DEF Inside, Calls
    <3> QED BY <3>1 DEF WaitingAt
  <2>4. Calls(c, f, a2, P, K)
    <3>1. K[1] = <<>> /\ Len(a2) = m
      BY <1>7, <2>1 DEF Inside, Calls
    <3> QED BY <1>3, <1>7, <2>1, <2>2, <2>3, <3>1 DEF Calls
  <2>5. TopAt(c, f, pp, a2, P, K)
    <3>1. WaitingAt(c, f, a, P, K, m) /\ a2[m] = a[m] /\ Len(a2) = m
      BY <1>7, <2>1 DEF Inside, Calls
    <3>2. Reads(f, pp, RestKids(FnOf(c, a[m].path), KsOf(c, a[m].path), a[m].i) ++ K[m])
      BY <1>1, <1>5, <2>1, <3>1 DEF WaitingAt
    <3> QED BY <3>1, <3>2 DEF WaitingAt, TopAt, AtStep, AtPrototypes
  <2>6. FinishedBut(c, a2, P)
    BY <1>7, <1>8 DEF FinishedBut
  <2>7. pp \in 1..(Len(f) + 1)
    BY <1>3, StepInFile
  <2>8. a2 # <<>>
    <3>1. Len(a2) >= 1
      BY ONLY <1>7, <2>1
    <3> QED BY ONLY <3>1
  <2> QED BY <1>3, <1>10, <2>4, <2>5, <2>6, <2>7, <2>8 DEF LoadInv, InCalls, Inside
<1> QED BY <1>9, <1>10

\* The steps of the innermost call, one lemma for each.
LEMMA MembersLoaded ==
    ASSUME NEW c, NEW f, NEW pp, NEW a, NEW P, NEW K, Inside(c, f, pp, a, P, K),
           NEW call, call = a[Len(a)], call.step = "members", NEW q, q = P[call.path]
    PROVE  LoadInv(c, f, pp + (6 + f[pp + 5]), [a EXCEPT ![Len(a)] = [call EXCEPT !.step = "nrconstants", !.seek = pp + 6]],
               [P EXCEPT ![call.path] = SetMembers(q, f[pp + 2], f[pp + 4], f[pp + 5])], "loading")
<1>1. PICK path, p, ks, k, dom : path = call.path /\ p = FnOf(c, path) /\ ks = KsOf(c, path) /\ k = K[Len(a)] /\ dom = DOMAIN P
  OBVIOUS
<1>2. /\ IsSeq(f) /\ IsSeq(k) /\ Source(p, ks) /\ IsCall(call)
      /\ AtStep(f, pp, call, p, ks, q, k, dom)
  BY <1>1, TopFacts
<1>3. AtMembers(f, pp, call, p, ks, q, k)
  BY <1>2, StepIs
<1>5. AtConstantCount(f, pp + (6 + f[pp + 5]), [call EXCEPT !.step = "nrconstants", !.seek = pp + 6], p, ks, SetMembers(q, f[pp + 2], f[pp + 4], f[pp + 5]), k)
  BY ONLY <1>2, <1>3, MembersRead
<1>6. PICK call2, q2, pp2 : call2 = [call EXCEPT !.step = "nrconstants", !.seek = pp + 6] /\ q2 = SetMembers(q, f[pp + 2], f[pp + 4], f[pp + 5]) /\ pp2 = pp + (6 + f[pp + 5])
  OBVIOUS
<1>7. IsCall(call2) /\ call2.path = path
  <2>1. IsCall(call)
    BY <1>2
  <2>2. IsCall(call2) /\ call2.path = call.path
    BY ONLY <1>6, <2>1 DEF IsCall, IsFun
  <2> QED BY <1>1, <2>2
<1>8. AtStep(f, pp2, call2, p, ks, q2, k, dom)
  BY <1>5, <1>6 DEF AtStep
<1>9. LoadInv(c, f, pp2, [a EXCEPT ![Len(a)] = call2], [P EXCEPT ![path] = q2], "loading")
  <2>1. path = a[Len(a)].path /\ Inside(c, f, pp, a, P, K)
    BY <1>1
  <2>2. AtStep(f, pp2, call2, FnOf(c, path), KsOf(c, path), q2, K[Len(a)], DOMAIN P)
    BY <1>1, <1>8
  <2> QED BY ONLY <1>7, <2>1, <2>2, TopStep
<1> QED BY ONLY <1>1, <1>6, <1>9

LEMMA ConstantsCounted ==
    ASSUME NEW c, NEW f, NEW pp, NEW a, NEW P, NEW K, Inside(c, f, pp, a, P, K),
           NEW call, call = a[Len(a)], call.step = "nrconstants", NEW q, q = P[call.path]
    PROVE  LoadInv(c, f, pp + 1, [a EXCEPT ![Len(a)] = [call EXCEPT !.step = "constants", !.i = 0]],
               [P EXCEPT ![call.path] = [q EXCEPT !.nrconstants = f[pp]]], "loading")
<1>1. PICK path, p, ks, k, dom : path = call.path /\ p = FnOf(c, path) /\ ks = KsOf(c, path) /\ k = K[Len(a)] /\ dom = DOMAIN P
  OBVIOUS
<1>2. /\ IsSeq(f) /\ IsSeq(k) /\ Source(p, ks) /\ IsCall(call)
      /\ AtStep(f, pp, call, p, ks, q, k, dom)
  BY <1>1, TopFacts
<1>3. AtConstantCount(f, pp, call, p, ks, q, k)
  BY <1>2, StepIs
<1>5. AtConstants(f, pp + 1, [call EXCEPT !.step = "constants", !.i = 0], p, ks, [q EXCEPT !.nrconstants = f[pp]], k)
  BY ONLY <1>2, <1>3, ConstantCountRead
<1>6. PICK call2, q2, pp2 : call2 = [call EXCEPT !.step = "constants", !.i = 0] /\ q2 = [q EXCEPT !.nrconstants = f[pp]] /\ pp2 = pp + 1
  OBVIOUS
<1>7. IsCall(call2) /\ call2.path = path
  <2>1. IsCall(call)
    BY <1>2
  <2>2. IsCall(call2) /\ call2.path = call.path
    BY ONLY <1>6, <2>1 DEF IsCall, IsFun
  <2> QED BY <1>1, <2>2
<1>8. AtStep(f, pp2, call2, p, ks, q2, k, dom)
  BY <1>5, <1>6 DEF AtStep
<1>9. LoadInv(c, f, pp2, [a EXCEPT ![Len(a)] = call2], [P EXCEPT ![path] = q2], "loading")
  <2>1. path = a[Len(a)].path /\ Inside(c, f, pp, a, P, K)
    BY <1>1
  <2>2. AtStep(f, pp2, call2, FnOf(c, path), KsOf(c, path), q2, K[Len(a)], DOMAIN P)
    BY <1>1, <1>8
  <2> QED BY ONLY <1>7, <2>1, <2>2, TopStep
<1> QED BY ONLY <1>1, <1>6, <1>9

LEMMA NumberLoaded ==
    ASSUME NEW c, NEW f, NEW pp, NEW a, NEW P, NEW K, Inside(c, f, pp, a, P, K),
           NEW call, call = a[Len(a)], call.step = "constants", NEW q, q = P[call.path], call.i < q.nrconstants, f[pp] = Load!NumberTag
    PROVE  LoadInv(c, f, pp + 2, [a EXCEPT ![Len(a)] = [call EXCEPT !.i = @ + 1]],
               [P EXCEPT ![call.path] = [q EXCEPT !.constants = Append(@, [tag |-> Load!NumberTag, number |-> f[pp + 1]])]], "loading")
<1>1. PICK path, p, ks, k, dom : path = call.path /\ p = FnOf(c, path) /\ ks = KsOf(c, path) /\ k = K[Len(a)] /\ dom = DOMAIN P
  OBVIOUS
<1>2. /\ IsSeq(f) /\ IsSeq(k) /\ Source(p, ks) /\ IsCall(call)
      /\ AtStep(f, pp, call, p, ks, q, k, dom)
  BY <1>1, TopFacts
<1>3. AtConstants(f, pp, call, p, ks, q, k)
  BY <1>2, StepIs
<1>4. call.i < Len(p.constants)
  BY <1>3 DEF AtConstants, ProtoRead
<1>5. AtConstants(f, pp + 2, [call EXCEPT !.i = @ + 1], p, ks, [q EXCEPT !.constants = Append(@, [tag |-> Load!NumberTag, number |-> f[pp + 1]])], k)
  BY ONLY <1>2, <1>3, <1>4, f[pp] = Load!NumberTag, ConstantRead
<1>6. PICK call2, q2, pp2 : call2 = [call EXCEPT !.i = @ + 1] /\ q2 = [q EXCEPT !.constants = Append(@, [tag |-> Load!NumberTag, number |-> f[pp + 1]])] /\ pp2 = pp + 2
  OBVIOUS
<1>7. IsCall(call2) /\ call2.path = path
  <2>1. IsCall(call)
    BY <1>2
  <2>2. IsCall(call2) /\ call2.path = call.path
    BY ONLY <1>6, <2>1 DEF IsCall, IsFun
  <2> QED BY <1>1, <2>2
<1>8. AtStep(f, pp2, call2, p, ks, q2, k, dom)
  BY <1>5, <1>6 DEF AtStep
<1>9. LoadInv(c, f, pp2, [a EXCEPT ![Len(a)] = call2], [P EXCEPT ![path] = q2], "loading")
  <2>1. path = a[Len(a)].path /\ Inside(c, f, pp, a, P, K)
    BY <1>1
  <2>2. AtStep(f, pp2, call2, FnOf(c, path), KsOf(c, path), q2, K[Len(a)], DOMAIN P)
    BY <1>1, <1>8
  <2> QED BY ONLY <1>7, <2>1, <2>2, TopStep
<1> QED BY ONLY <1>1, <1>6, <1>9

LEMMA StringLoaded ==
    ASSUME NEW c, NEW f, NEW pp, NEW a, NEW P, NEW K, Inside(c, f, pp, a, P, K),
           NEW call, call = a[Len(a)], call.step = "constants", NEW q, q = P[call.path], call.i < q.nrconstants, f[pp] = Load!StringTag
    PROVE  LoadInv(c, f, pp + (2 + f[pp + 1]), [a EXCEPT ![Len(a)] = [call EXCEPT !.i = @ + 1]],
               [P EXCEPT ![call.path] = [q EXCEPT !.constants = Append(@, [tag |-> Load!StringTag, text |-> Part(f, pp + 2, f[pp + 1])])]], "loading")
<1>1. PICK path, p, ks, k, dom : path = call.path /\ p = FnOf(c, path) /\ ks = KsOf(c, path) /\ k = K[Len(a)] /\ dom = DOMAIN P
  OBVIOUS
<1>2. /\ IsSeq(f) /\ IsSeq(k) /\ Source(p, ks) /\ IsCall(call)
      /\ AtStep(f, pp, call, p, ks, q, k, dom)
  BY <1>1, TopFacts
<1>3. AtConstants(f, pp, call, p, ks, q, k)
  BY <1>2, StepIs
<1>4. call.i < Len(p.constants)
  BY <1>3 DEF AtConstants, ProtoRead
<1>5. AtConstants(f, pp + (2 + f[pp + 1]), [call EXCEPT !.i = @ + 1], p, ks, [q EXCEPT !.constants = Append(@, [tag |-> Load!StringTag, text |-> Part(f, pp + 2, f[pp + 1])])], k)
  BY ONLY <1>2, <1>3, <1>4, f[pp] = Load!StringTag, ConstantRead
<1>6. PICK call2, q2, pp2 : call2 = [call EXCEPT !.i = @ + 1] /\ q2 = [q EXCEPT !.constants = Append(@, [tag |-> Load!StringTag, text |-> Part(f, pp + 2, f[pp + 1])])] /\ pp2 = pp + (2 + f[pp + 1])
  OBVIOUS
<1>7. IsCall(call2) /\ call2.path = path
  <2>1. IsCall(call)
    BY <1>2
  <2>2. IsCall(call2) /\ call2.path = call.path
    BY ONLY <1>6, <2>1 DEF IsCall, IsFun
  <2> QED BY <1>1, <2>2
<1>8. AtStep(f, pp2, call2, p, ks, q2, k, dom)
  BY <1>5, <1>6 DEF AtStep
<1>9. LoadInv(c, f, pp2, [a EXCEPT ![Len(a)] = call2], [P EXCEPT ![path] = q2], "loading")
  <2>1. path = a[Len(a)].path /\ Inside(c, f, pp, a, P, K)
    BY <1>1
  <2>2. AtStep(f, pp2, call2, FnOf(c, path), KsOf(c, path), q2, K[Len(a)], DOMAIN P)
    BY <1>1, <1>8
  <2> QED BY ONLY <1>7, <2>1, <2>2, TopStep
<1> QED BY ONLY <1>1, <1>6, <1>9

LEMMA PrototypesLoaded ==
    ASSUME NEW c, NEW f, NEW pp, NEW a, NEW P, NEW K, Inside(c, f, pp, a, P, K),
           NEW call, call = a[Len(a)], call.step = "constants", NEW q, q = P[call.path], call.i = q.nrconstants
    PROVE  LoadInv(c, f, pp + 1, [a EXCEPT ![Len(a)] = [call EXCEPT !.step = "prototypes", !.i = 0]],
               [P EXCEPT ![call.path] = [q EXCEPT !.nrprotos = f[pp]]], "loading")
<1>1. PICK path, p, ks, k, dom : path = call.path /\ p = FnOf(c, path) /\ ks = KsOf(c, path) /\ k = K[Len(a)] /\ dom = DOMAIN P
  OBVIOUS
<1>2. /\ IsSeq(f) /\ IsSeq(k) /\ Source(p, ks) /\ IsCall(call)
      /\ AtStep(f, pp, call, p, ks, q, k, dom)
  BY <1>1, TopFacts
<1>3. AtConstants(f, pp, call, p, ks, q, k)
  BY <1>2, StepIs
<1>4. call.i = Len(p.constants)
  BY <1>3 DEF AtConstants, ProtoRead
<1>5. AtPrototypes(f, pp + 1, [call EXCEPT !.step = "prototypes", !.i = 0], p, ks, [q EXCEPT !.nrprotos = f[pp]], k, dom)
  BY ONLY <1>2, <1>3, <1>4, PrototypesCounted
<1>6. PICK call2, q2, pp2 : call2 = [call EXCEPT !.step = "prototypes", !.i = 0] /\ q2 = [q EXCEPT !.nrprotos = f[pp]] /\ pp2 = pp + 1
  OBVIOUS
<1>7. IsCall(call2) /\ call2.path = path
  <2>1. IsCall(call)
    BY <1>2
  <2>2. IsCall(call2) /\ call2.path = call.path
    BY ONLY <1>6, <2>1 DEF IsCall, IsFun
  <2> QED BY <1>1, <2>2
<1>8. AtStep(f, pp2, call2, p, ks, q2, k, dom)
  BY <1>5, <1>6 DEF AtStep
<1>9. LoadInv(c, f, pp2, [a EXCEPT ![Len(a)] = call2], [P EXCEPT ![path] = q2], "loading")
  <2>1. path = a[Len(a)].path /\ Inside(c, f, pp, a, P, K)
    BY <1>1
  <2>2. AtStep(f, pp2, call2, FnOf(c, path), KsOf(c, path), q2, K[Len(a)], DOMAIN P)
    BY <1>1, <1>8
  <2> QED BY ONLY <1>7, <2>1, <2>2, TopStep
<1> QED BY ONLY <1>1, <1>6, <1>9

LEMMA BackAtCode ==
    ASSUME NEW c, NEW f, NEW pp, NEW a, NEW P, NEW K, Inside(c, f, pp, a, P, K),
           NEW call, call = a[Len(a)], call.step = "prototypes", NEW q, q = P[call.path], call.i = q.nrprotos
    PROVE  LoadInv(c, f, call.seek, [a EXCEPT ![Len(a)] = [call EXCEPT !.step = "code", !.i = 0, !.end = pp]],
               P, "loading")
<1>1. PICK path, p, ks, k, dom : path = call.path /\ p = FnOf(c, path) /\ ks = KsOf(c, path) /\ k = K[Len(a)] /\ dom = DOMAIN P
  OBVIOUS
<1>2. /\ IsSeq(f) /\ IsSeq(k) /\ Source(p, ks) /\ IsCall(call)
      /\ AtStep(f, pp, call, p, ks, q, k, dom)
  BY <1>1, TopFacts
<1>3. AtPrototypes(f, pp, call, p, ks, q, k, dom)
  BY <1>2, StepIs
<1>4. call.i = Len(p.kids)
  BY <1>3 DEF AtPrototypes, Waiting, ProtoRead
<1>5. AtCode(f, call.seek, [call EXCEPT !.step = "code", !.i = 0, !.end = pp], p, q, k, dom)
  BY ONLY <1>2, <1>3, <1>4, Rewound
<1>6. PICK call2, q2, pp2 : call2 = [call EXCEPT !.step = "code", !.i = 0, !.end = pp] /\ q2 = q /\ pp2 = call.seek
  OBVIOUS
<1>7. IsCall(call2) /\ call2.path = path
  <2>1. IsCall(call)
    BY <1>2
  <2>2. IsCall(call2) /\ call2.path = call.path
    BY ONLY <1>6, <2>1 DEF IsCall, IsFun
  <2> QED BY <1>1, <2>2
<1>8. AtStep(f, pp2, call2, p, ks, q2, k, dom)
  BY <1>5, <1>6 DEF AtStep
<1>9. LoadInv(c, f, pp2, [a EXCEPT ![Len(a)] = call2], P, "loading")
  <2>1. path = a[Len(a)].path /\ Inside(c, f, pp, a, P, K)
    BY <1>1
  <2>2. AtStep(f, pp2, call2, FnOf(c, path), KsOf(c, path), q2, K[Len(a)], DOMAIN P)
    BY <1>1, <1>8
  <2>3. q2 = P[path]
    BY <1>1, <1>6
  <2> QED BY ONLY <1>7, <2>1, <2>2, <2>3, TopStep
<1> QED BY ONLY <1>1, <1>6, <1>9

LEMMA InstructionLoaded ==
    ASSUME NEW c, NEW f, NEW pp, NEW a, NEW P, NEW K, Inside(c, f, pp, a, P, K),
           NEW call, call = a[Len(a)], call.step = "code", NEW q, q = P[call.path], call.i < q.sizecode
    PROVE  LoadInv(c, f, pp + 1, [a EXCEPT ![Len(a)] = [call EXCEPT !.i = @ + 1]],
               [P EXCEPT ![call.path] = [q EXCEPT !.code = Append(@, f[pp])]], "loading")
<1>1. PICK path, p, ks, k, dom : path = call.path /\ p = FnOf(c, path) /\ ks = KsOf(c, path) /\ k = K[Len(a)] /\ dom = DOMAIN P
  OBVIOUS
<1>2. /\ IsSeq(f) /\ IsSeq(k) /\ Source(p, ks) /\ IsCall(call)
      /\ AtStep(f, pp, call, p, ks, q, k, dom)
  BY <1>1, TopFacts
<1>3. AtCode(f, pp, call, p, q, k, dom)
  BY <1>2, StepIs
<1>4. call.i < Len(p.code)
  BY <1>3 DEF AtCode, ProtoRead
<1>5. AtCode(f, pp + 1, [call EXCEPT !.i = @ + 1], p, [q EXCEPT !.code = Append(@, f[pp])], k, dom)
  BY ONLY <1>2, <1>3, <1>4, InstructionRead
<1>6. PICK call2, q2, pp2 : call2 = [call EXCEPT !.i = @ + 1] /\ q2 = [q EXCEPT !.code = Append(@, f[pp])] /\ pp2 = pp + 1
  OBVIOUS
<1>7. IsCall(call2) /\ call2.path = path
  <2>1. IsCall(call)
    BY <1>2
  <2>2. IsCall(call2) /\ call2.path = call.path
    BY ONLY <1>6, <2>1 DEF IsCall, IsFun
  <2> QED BY <1>1, <2>2
<1>8. AtStep(f, pp2, call2, p, ks, q2, k, dom)
  BY <1>5, <1>6 DEF AtStep
<1>9. LoadInv(c, f, pp2, [a EXCEPT ![Len(a)] = call2], [P EXCEPT ![path] = q2], "loading")
  <2>1. path = a[Len(a)].path /\ Inside(c, f, pp, a, P, K)
    BY <1>1
  <2>2. AtStep(f, pp2, call2, FnOf(c, path), KsOf(c, path), q2, K[Len(a)], DOMAIN P)
    BY <1>1, <1>8
  <2> QED BY ONLY <1>7, <2>1, <2>2, TopStep
<1> QED BY ONLY <1>1, <1>6, <1>9

LEMMA PastCode ==
    ASSUME NEW c, NEW f, NEW pp, NEW a, NEW P, NEW K, Inside(c, f, pp, a, P, K),
           NEW call, call = a[Len(a)], call.step = "code", NEW q, q = P[call.path], call.i = q.sizecode
    PROVE  LoadInv(c, f, call.end, [a EXCEPT ![Len(a)] = [call EXCEPT !.step = "upvalues", !.i = 0]],
               P, "loading")
<1>1. PICK path, p, ks, k, dom : path = call.path /\ p = FnOf(c, path) /\ ks = KsOf(c, path) /\ k = K[Len(a)] /\ dom = DOMAIN P
  OBVIOUS
<1>2. /\ IsSeq(f) /\ IsSeq(k) /\ Source(p, ks) /\ IsCall(call)
      /\ AtStep(f, pp, call, p, ks, q, k, dom)
  BY <1>1, TopFacts
<1>3. AtCode(f, pp, call, p, q, k, dom)
  BY <1>2, StepIs
<1>4. call.i = Len(p.code)
  BY <1>3 DEF AtCode, ProtoRead
<1>5. AtUpvalues(f, call.end, [call EXCEPT !.step = "upvalues", !.i = 0], p, q, k, dom)
  BY ONLY <1>2, <1>3, <1>4, CodeRead
<1>6. PICK call2, q2, pp2 : call2 = [call EXCEPT !.step = "upvalues", !.i = 0] /\ q2 = q /\ pp2 = call.end
  OBVIOUS
<1>7. IsCall(call2) /\ call2.path = path
  <2>1. IsCall(call)
    BY <1>2
  <2>2. IsCall(call2) /\ call2.path = call.path
    BY ONLY <1>6, <2>1 DEF IsCall, IsFun
  <2> QED BY <1>1, <2>2
<1>8. AtStep(f, pp2, call2, p, ks, q2, k, dom)
  BY <1>5, <1>6 DEF AtStep
<1>9. LoadInv(c, f, pp2, [a EXCEPT ![Len(a)] = call2], P, "loading")
  <2>1. path = a[Len(a)].path /\ Inside(c, f, pp, a, P, K)
    BY <1>1
  <2>2. AtStep(f, pp2, call2, FnOf(c, path), KsOf(c, path), q2, K[Len(a)], DOMAIN P)
    BY <1>1, <1>8
  <2>3. q2 = P[path]
    BY <1>1, <1>6
  <2> QED BY ONLY <1>7, <2>1, <2>2, <2>3, TopStep
<1> QED BY ONLY <1>1, <1>6, <1>9

LEMMA UpvaluesLoaded ==
    ASSUME NEW c, NEW f, NEW pp, NEW a, NEW P, NEW K, Inside(c, f, pp, a, P, K),
           NEW call, call = a[Len(a)], call.step = "upvalues", NEW q, q = P[call.path]
    PROVE  LoadInv(c, f, pp + (1 + f[pp]), [a EXCEPT ![Len(a)] = [call EXCEPT !.step = "debug", !.i = 0]],
               [P EXCEPT ![call.path] = [q EXCEPT !.upvalues = Part(f, pp + 1, f[pp])]], "loading")
<1>1. PICK path, p, ks, k, dom : path = call.path /\ p = FnOf(c, path) /\ ks = KsOf(c, path) /\ k = K[Len(a)] /\ dom = DOMAIN P
  OBVIOUS
<1>2. /\ IsSeq(f) /\ IsSeq(k) /\ Source(p, ks) /\ IsCall(call)
      /\ AtStep(f, pp, call, p, ks, q, k, dom)
  BY <1>1, TopFacts
<1>3. AtUpvalues(f, pp, call, p, q, k, dom)
  BY <1>2, StepIs
<1>5. AtDebug(f, pp + (1 + f[pp]), [call EXCEPT !.step = "debug", !.i = 0], p, [q EXCEPT !.upvalues = Part(f, pp + 1, f[pp])], k, dom)
  BY ONLY <1>2, <1>3, UpvaluesRead
<1>6. PICK call2, q2, pp2 : call2 = [call EXCEPT !.step = "debug", !.i = 0] /\ q2 = [q EXCEPT !.upvalues = Part(f, pp + 1, f[pp])] /\ pp2 = pp + (1 + f[pp])
  OBVIOUS
<1>7. IsCall(call2) /\ call2.path = path
  <2>1. IsCall(call)
    BY <1>2
  <2>2. IsCall(call2) /\ call2.path = call.path
    BY ONLY <1>6, <2>1 DEF IsCall, IsFun
  <2> QED BY <1>1, <2>2
<1>8. AtStep(f, pp2, call2, p, ks, q2, k, dom)
  BY <1>5, <1>6 DEF AtStep
<1>9. LoadInv(c, f, pp2, [a EXCEPT ![Len(a)] = call2], [P EXCEPT ![path] = q2], "loading")
  <2>1. path = a[Len(a)].path /\ Inside(c, f, pp, a, P, K)
    BY <1>1
  <2>2. AtStep(f, pp2, call2, FnOf(c, path), KsOf(c, path), q2, K[Len(a)], DOMAIN P)
    BY <1>1, <1>8
  <2> QED BY ONLY <1>7, <2>1, <2>2, TopStep
<1> QED BY ONLY <1>1, <1>6, <1>9

LEMMA PastSource ==
    ASSUME NEW c, NEW f, NEW pp, NEW a, NEW P, NEW K, Inside(c, f, pp, a, P, K),
           NEW call, call = a[Len(a)], call.step = "debug", NEW q, q = P[call.path], NEW l, l = Skipped(f[pp]), NEW m, m = l + 1 + f[pp + l]
    PROVE  LoadInv(c, f, pp + (m + 1), [a EXCEPT ![Len(a)] = [call EXCEPT !.step = "locals", !.i = 0, !.n = f[pp + m]]],
               P, "loading")
<1>1. PICK path, p, ks, k, dom : path = call.path /\ p = FnOf(c, path) /\ ks = KsOf(c, path) /\ k = K[Len(a)] /\ dom = DOMAIN P
  OBVIOUS
<1>2. /\ IsSeq(f) /\ IsSeq(k) /\ Source(p, ks) /\ IsCall(call)
      /\ AtStep(f, pp, call, p, ks, q, k, dom)
  BY <1>1, TopFacts
<1>3. AtDebug(f, pp, call, p, q, k, dom)
  BY <1>2, StepIs
<1>5. AtLocals(f, pp + (m + 1), [call EXCEPT !.step = "locals", !.i = 0, !.n = f[pp + m]], p, q, k, dom)
  BY ONLY <1>2, <1>3, l = Skipped(f[pp]), m = l + 1 + f[pp + l], SourceIgnored
<1>6. PICK call2, q2, pp2 : call2 = [call EXCEPT !.step = "locals", !.i = 0, !.n = f[pp + m]] /\ q2 = q /\ pp2 = pp + (m + 1)
  OBVIOUS
<1>7. IsCall(call2) /\ call2.path = path
  <2>1. IsCall(call)
    BY <1>2
  <2>2. IsCall(call2) /\ call2.path = call.path
    BY ONLY <1>6, <2>1 DEF IsCall, IsFun
  <2> QED BY <1>1, <2>2
<1>8. AtStep(f, pp2, call2, p, ks, q2, k, dom)
  BY <1>5, <1>6 DEF AtStep
<1>9. LoadInv(c, f, pp2, [a EXCEPT ![Len(a)] = call2], P, "loading")
  <2>1. path = a[Len(a)].path /\ Inside(c, f, pp, a, P, K)
    BY <1>1
  <2>2. AtStep(f, pp2, call2, FnOf(c, path), KsOf(c, path), q2, K[Len(a)], DOMAIN P)
    BY <1>1, <1>8
  <2>3. q2 = P[path]
    BY <1>1, <1>6
  <2> QED BY ONLY <1>7, <2>1, <2>2, <2>3, TopStep
<1> QED BY ONLY <1>1, <1>6, <1>9

LEMMA PastLocal ==
    ASSUME NEW c, NEW f, NEW pp, NEW a, NEW P, NEW K, Inside(c, f, pp, a, P, K),
           NEW call, call = a[Len(a)], call.step = "locals", NEW q, q = P[call.path], call.i < call.n
    PROVE  LoadInv(c, f, pp + (Skipped(f[pp]) + 2), [a EXCEPT ![Len(a)] = [call EXCEPT !.i = @ + 1]],
               P, "loading")
<1>1. PICK path, p, ks, k, dom : path = call.path /\ p = FnOf(c, path) /\ ks = KsOf(c, path) /\ k = K[Len(a)] /\ dom = DOMAIN P
  OBVIOUS
<1>2. /\ IsSeq(f) /\ IsSeq(k) /\ Source(p, ks) /\ IsCall(call)
      /\ AtStep(f, pp, call, p, ks, q, k, dom)
  BY <1>1, TopFacts
<1>3. AtLocals(f, pp, call, p, q, k, dom)
  BY <1>2, StepIs
<1>5. AtLocals(f, pp + (Skipped(f[pp]) + 2), [call EXCEPT !.i = @ + 1], p, q, k, dom)
  BY ONLY <1>2, <1>3, call.i < call.n, LocalIgnored
<1>6. PICK call2, q2, pp2 : call2 = [call EXCEPT !.i = @ + 1] /\ q2 = q /\ pp2 = pp + (Skipped(f[pp]) + 2)
  OBVIOUS
<1>7. IsCall(call2) /\ call2.path = path
  <2>1. IsCall(call)
    BY <1>2
  <2>2. IsCall(call2) /\ call2.path = call.path
    BY ONLY <1>6, <2>1 DEF IsCall, IsFun
  <2> QED BY <1>1, <2>2
<1>8. AtStep(f, pp2, call2, p, ks, q2, k, dom)
  BY <1>5, <1>6 DEF AtStep
<1>9. LoadInv(c, f, pp2, [a EXCEPT ![Len(a)] = call2], P, "loading")
  <2>1. path = a[Len(a)].path /\ Inside(c, f, pp, a, P, K)
    BY <1>1
  <2>2. AtStep(f, pp2, call2, FnOf(c, path), KsOf(c, path), q2, K[Len(a)], DOMAIN P)
    BY <1>1, <1>8
  <2>3. q2 = P[path]
    BY <1>1, <1>6
  <2> QED BY ONLY <1>7, <2>1, <2>2, <2>3, TopStep
<1> QED BY ONLY <1>1, <1>6, <1>9

LEMMA AtNameCount ==
    ASSUME NEW c, NEW f, NEW pp, NEW a, NEW P, NEW K, Inside(c, f, pp, a, P, K),
           NEW call, call = a[Len(a)], call.step = "locals", NEW q, q = P[call.path], call.i = call.n
    PROVE  LoadInv(c, f, pp + 1, [a EXCEPT ![Len(a)] = [call EXCEPT !.step = "names", !.i = 0, !.n = f[pp]]],
               P, "loading")
<1>1. PICK path, p, ks, k, dom : path = call.path /\ p = FnOf(c, path) /\ ks = KsOf(c, path) /\ k = K[Len(a)] /\ dom = DOMAIN P
  OBVIOUS
<1>2. /\ IsSeq(f) /\ IsSeq(k) /\ Source(p, ks) /\ IsCall(call)
      /\ AtStep(f, pp, call, p, ks, q, k, dom)
  BY <1>1, TopFacts
<1>3. AtLocals(f, pp, call, p, q, k, dom)
  BY <1>2, StepIs
<1>5. AtNames(f, pp + 1, [call EXCEPT !.step = "names", !.i = 0, !.n = f[pp]], p, q, k, dom)
  BY ONLY <1>2, <1>3, call.i = call.n, NamesCounted
<1>6. PICK call2, q2, pp2 : call2 = [call EXCEPT !.step = "names", !.i = 0, !.n = f[pp]] /\ q2 = q /\ pp2 = pp + 1
  OBVIOUS
<1>7. IsCall(call2) /\ call2.path = path
  <2>1. IsCall(call)
    BY <1>2
  <2>2. IsCall(call2) /\ call2.path = call.path
    BY ONLY <1>6, <2>1 DEF IsCall, IsFun
  <2> QED BY <1>1, <2>2
<1>8. AtStep(f, pp2, call2, p, ks, q2, k, dom)
  BY <1>5, <1>6 DEF AtStep
<1>9. LoadInv(c, f, pp2, [a EXCEPT ![Len(a)] = call2], P, "loading")
  <2>1. path = a[Len(a)].path /\ Inside(c, f, pp, a, P, K)
    BY <1>1
  <2>2. AtStep(f, pp2, call2, FnOf(c, path), KsOf(c, path), q2, K[Len(a)], DOMAIN P)
    BY <1>1, <1>8
  <2>3. q2 = P[path]
    BY <1>1, <1>6
  <2> QED BY ONLY <1>7, <2>1, <2>2, <2>3, TopStep
<1> QED BY ONLY <1>1, <1>6, <1>9

LEMMA PastName ==
    ASSUME NEW c, NEW f, NEW pp, NEW a, NEW P, NEW K, Inside(c, f, pp, a, P, K),
           NEW call, call = a[Len(a)], call.step = "names", NEW q, q = P[call.path], call.i < call.n
    PROVE  LoadInv(c, f, pp + Skipped(f[pp]), [a EXCEPT ![Len(a)] = [call EXCEPT !.i = @ + 1]],
               P, "loading")
<1>1. PICK path, p, ks, k, dom : path = call.path /\ p = FnOf(c, path) /\ ks = KsOf(c, path) /\ k = K[Len(a)] /\ dom = DOMAIN P
  OBVIOUS
<1>2. /\ IsSeq(f) /\ IsSeq(k) /\ Source(p, ks) /\ IsCall(call)
      /\ AtStep(f, pp, call, p, ks, q, k, dom)
  BY <1>1, TopFacts
<1>3. AtNames(f, pp, call, p, q, k, dom)
  BY <1>2, StepIs
<1>5. AtNames(f, pp + Skipped(f[pp]), [call EXCEPT !.i = @ + 1], p, q, k, dom)
  BY ONLY <1>2, <1>3, call.i < call.n, NameIgnored
<1>6. PICK call2, q2, pp2 : call2 = [call EXCEPT !.i = @ + 1] /\ q2 = q /\ pp2 = pp + Skipped(f[pp])
  OBVIOUS
<1>7. IsCall(call2) /\ call2.path = path
  <2>1. IsCall(call)
    BY <1>2
  <2>2. IsCall(call2) /\ call2.path = call.path
    BY ONLY <1>6, <2>1 DEF IsCall, IsFun
  <2> QED BY <1>1, <2>2
<1>8. AtStep(f, pp2, call2, p, ks, q2, k, dom)
  BY <1>5, <1>6 DEF AtStep
<1>9. LoadInv(c, f, pp2, [a EXCEPT ![Len(a)] = call2], P, "loading")
  <2>1. path = a[Len(a)].path /\ Inside(c, f, pp, a, P, K)
    BY <1>1
  <2>2. AtStep(f, pp2, call2, FnOf(c, path), KsOf(c, path), q2, K[Len(a)], DOMAIN P)
    BY <1>1, <1>8
  <2>3. q2 = P[path]
    BY <1>1, <1>6
  <2> QED BY ONLY <1>7, <2>1, <2>2, <2>3, TopStep
<1> QED BY ONLY <1>1, <1>6, <1>9

-----------------------------------------------------------------------------
(* The actions of the Loader.                                              *)

\* The inductive invariant.
LoadOK == LoadInv(chunk, file, pos, active, protos, outcome)

\* While a function is being loaded, what follows each call is known.
LEMMA InsideNow ==
    ASSUME LoadOK, outcome = "loading", active # <<>>
    PROVE  \E K : Inside(chunk, file, pos, active, protos, K)
BY DEF LoadOK, LoadInv, InCalls, Inside

\* The reader gives up.
LEMMA Stopped ==
    ASSUME LoadOK, NEW r, Load!Stop(r), UNCHANGED <<chunk, file>>, r \notin {"loading", "loaded"}
    PROVE  LoadInv(chunk', file', pos', active', protos', outcome')
BY DEF LoadOK, LoadInv, Load!Stop

\* There is a function inside that has not been loaded.
LEMMA ChildCount ==
    ASSUME NEW c, NEW f, NEW pp, NEW a, NEW P, NEW K, Inside(c, f, pp, a, P, K),
           NEW call, call = a[Len(a)], call.step = "prototypes", NEW q, q = P[call.path], call.i < q.nrprotos
    PROVE  call.i < Len(FnOf(c, call.path).kids)
<1>1. PICK path, p, ks, k, dom : path = call.path /\ p = FnOf(c, path) /\ ks = KsOf(c, path) /\ k = K[Len(a)] /\ dom = DOMAIN P
  OBVIOUS
<1>2. AtStep(f, pp, call, p, ks, q, k, dom)
  BY <1>1, TopFacts
<1>3. AtPrototypes(f, pp, call, p, ks, q, k, dom)
  BY <1>2, StepIs
<1> QED BY <1>1, <1>3 DEF AtPrototypes, Waiting, ProtoRead

\* The main function is called.
LEMMA MainCalled ==
    ASSUME NEW c, c \in Chunks, NEW f, IsSeq(f), Reads(f, 2, Dumps(c)[1])
    PROVE  LoadInv(c, f, 2, <<Load!LoadFunction(<<>>)>>, [path \in {<<>>} |-> Load!Blank], "loading")
<1>1. Load!IsProgram(c)
  BY ProgramsAssumption
<1>2. NodeIn(c, <<>>) = 1 /\ 1 \in 1..Len(c) /\ IsSeq(<<>>) /\ Len(<<>>) = 0
  <2>1. Len(c) \in Nat /\ Len(c) > 0
    BY <1>1, FunctionsAreSources DEF Load!IsProgram, Load!IsList
  <2> QED BY <1>1, <2>1, NodeOfMain, SeqNone
<1>3. IsPath(c, <<>>)
  BY <1>2 DEF IsPath
<1>4. PICK p, ks : p = FnOf(c, <<>>) /\ ks = KsOf(c, <<>>) /\ Source(p, ks)
  BY <1>3, SourceOf
<1>5. RestAll(p, ks) = Dumps(c)[1]
  BY <1>1, <1>2, <1>4, DumpsAre DEF FnOf, KsOf
<1>6. Reads(f, 2, RestAll(p, ks) ++ <<>>)
  <2>1. IsSeq(Dumps(c)[1])
    BY DEF Reads
  <2> QED BY <1>5, <2>1, SeqEmpty
<1>7. PICK call, a, P, K : /\ call = Load!LoadFunction(<<>>) /\ a = One(call)
                           /\ P = [path \in {<<>>} |-> Load!Blank] /\ K = [d \in {1} |-> <<>>]
  OBVIOUS
<1>8. IsCall(call) /\ call.path = <<>>
  BY ONLY <1>7 DEF IsCall, IsFun, Load!LoadFunction
<1>9. AtMembers(f, 2, call, p, ks, Load!Blank, <<>>)
  BY <1>6, <1>7 DEF AtMembers, Load!LoadFunction
<1>10. IsFun(P) /\ DOMAIN P = {<<>>} /\ P[<<>>] = Load!Blank /\ K[1] = <<>>
  BY <1>7 DEF IsFun
<1>11. IsSeq(a) /\ Len(a) = 1 /\ a[1] = call
  BY <1>7, SeqOne
<1>12. CallAt(c, a, P, K, 1)
  BY <1>2, <1>3, <1>8, <1>10, <1>11 DEF CallAt
<1>13. Calls(c, f, a, P, K)
  <2>1. \A d \in 1..1 : d = 1
    OBVIOUS
  <2>2. 1 >= 1 /\ 1..(1 - 1) = {}
    OBVIOUS
  <2> QED BY <1>10, <1>11, <1>12, <2>1, <2>2 DEF Calls
<1>14. TopAt(c, f, 2, a, P, K)
  BY <1>4, <1>8, <1>9, <1>10, <1>11 DEF TopAt, AtStep
<1>15. FinishedBut(c, a, P)
  BY <1>8, <1>10, <1>11 DEF FinishedBut
<1>16. a # <<>> /\ 2 \in 1..(Len(f) + 1)
  <2>1. a # <<>>
    BY ONLY <1>11
  <2>2. 2 \in 1..(Len(f) + 1)
    BY DEF Reads
  <2> QED BY <2>1, <2>2
<1>17. LoadInv(c, f, 2, a, P, "loading")
  BY <1>13, <1>14, <1>15, <1>16 DEF LoadInv, InCalls
<1> QED BY <1>7, <1>17 DEF One

\* Every action of the Loader.
LEMMA LoadStep ==
    ASSUME LoadOK, Load!Next
    PROVE  LoadInv(chunk', file', pos', active', protos', outcome')
<1>1. PICK c, f, pp, a, P : c = chunk /\ f = file /\ pp = pos /\ a = active /\ P = protos
  OBVIOUS
<1>2. PICK call : call = a[Len(a)]
  OBVIOUS
<1>3. PICK q : q = P[call.path]
  OBVIOUS
<1>4. pp \in Nat /\ pp + 0 = pp
  <2>1. pp \in 1..(Len(f) + 1) /\ IsSeq(f)
    BY <1>1 DEF LoadOK, LoadInv
  <2> QED BY <2>1, SeqFacts
<1>5. f[pp + 0] = f[pp]
  BY <1>4
<1>6. CASE Load!LoadMembers
  <2>1. outcome = "loading" /\ active # <<>> /\ call.step = "members"
    BY <1>6, <1>1, <1>2, <1>3 DEF Load!LoadMembers, Load!Loading, Load!this, Load!proto
  <2>2. PICK K : Inside(c, f, pp, a, P, K)
    BY ONLY <1>1, <2>1, LoadOK, InsideNow
  <2>3. /\ pos' = pp + (6 + f[pp + 5])
        /\ active' = [a EXCEPT ![Len(a)] = [call EXCEPT !.step = "nrconstants", !.seek = pp + 6]]
        /\ protos' = [P EXCEPT ![call.path] = SetMembers(q, f[pp + 2], f[pp + 4], f[pp + 5])]
        /\ chunk' = c /\ file' = f /\ outcome' = "loading"
    BY <1>6, <1>1, <1>2, <1>3, <1>4, <1>5, <2>1 DEF Load!LoadMembers, Load!this, Load!proto, Load!Item, Load!Loading, Load!Same, Load!Advance, Load!Becomes, Load!Set, SetMembers
  <2>4. LoadInv(c, f, pp + (6 + f[pp + 5]), [a EXCEPT ![Len(a)] = [call EXCEPT !.step = "nrconstants", !.seek = pp + 6]],
            [P EXCEPT ![call.path] = SetMembers(q, f[pp + 2], f[pp + 4], f[pp + 5])], "loading")
    BY ONLY <1>2, <1>3, <2>1, <2>2, MembersLoaded
  <2> QED BY ONLY <2>3, <2>4
<1>7. CASE Load!CountConstants
  <2>1. outcome = "loading" /\ active # <<>> /\ call.step = "nrconstants"
    BY <1>7, <1>1, <1>2, <1>3 DEF Load!CountConstants, Load!Loading, Load!this, Load!proto
  <2>2. PICK K : Inside(c, f, pp, a, P, K)
    BY ONLY <1>1, <2>1, LoadOK, InsideNow
  <2>3. /\ pos' = pp + 1
        /\ active' = [a EXCEPT ![Len(a)] = [call EXCEPT !.step = "constants", !.i = 0]]
        /\ protos' = [P EXCEPT ![call.path] = [q EXCEPT !.nrconstants = f[pp]]]
        /\ chunk' = c /\ file' = f /\ outcome' = "loading"
    BY <1>7, <1>1, <1>2, <1>3, <1>4, <1>5, <2>1 DEF Load!CountConstants, Load!this, Load!proto, Load!Item, Load!Loading, Load!Same, Load!Advance, Load!Becomes, Load!Set, Load!Go
  <2>4. LoadInv(c, f, pp + 1, [a EXCEPT ![Len(a)] = [call EXCEPT !.step = "constants", !.i = 0]],
            [P EXCEPT ![call.path] = [q EXCEPT !.nrconstants = f[pp]]], "loading")
    BY ONLY <1>2, <1>3, <2>1, <2>2, ConstantsCounted
  <2> QED BY ONLY <2>3, <2>4
<1>8. CASE Load!Rewind
  <2>1. outcome = "loading" /\ active # <<>> /\ call.step = "prototypes" /\ call.i = q.nrprotos
    BY <1>8, <1>1, <1>2, <1>3 DEF Load!Rewind, Load!Loading, Load!this, Load!proto
  <2>2. PICK K : Inside(c, f, pp, a, P, K)
    BY ONLY <1>1, <2>1, LoadOK, InsideNow
  <2>3. /\ pos' = call.seek
        /\ active' = [a EXCEPT ![Len(a)] = [call EXCEPT !.step = "code", !.i = 0, !.end = pp]]
        /\ protos' = P
        /\ chunk' = c /\ file' = f /\ outcome' = "loading"
    BY <1>8, <1>1, <1>2, <1>3, <1>4, <1>5, <2>1 DEF Load!Rewind, Load!this, Load!proto, Load!Item, Load!Loading, Load!Same, Load!Advance, Load!Becomes
  <2>4. LoadInv(c, f, call.seek, [a EXCEPT ![Len(a)] = [call EXCEPT !.step = "code", !.i = 0, !.end = pp]],
            P, "loading")
    BY ONLY <1>2, <1>3, <2>1, <2>2, BackAtCode
  <2> QED BY ONLY <2>3, <2>4
<1>9. CASE Load!CodeLoaded
  <2>1. outcome = "loading" /\ active # <<>> /\ call.step = "code" /\ call.i = q.sizecode
    BY <1>9, <1>1, <1>2, <1>3 DEF Load!CodeLoaded, Load!Loading, Load!this, Load!proto
  <2>2. PICK K : Inside(c, f, pp, a, P, K)
    BY ONLY <1>1, <2>1, LoadOK, InsideNow
  <2>3. /\ pos' = call.end
        /\ active' = [a EXCEPT ![Len(a)] = [call EXCEPT !.step = "upvalues", !.i = 0]]
        /\ protos' = P
        /\ chunk' = c /\ file' = f /\ outcome' = "loading"
    BY <1>9, <1>1, <1>2, <1>3, <1>4, <1>5, <2>1 DEF Load!CodeLoaded, Load!this, Load!proto, Load!Item, Load!Loading, Load!Same, Load!Advance, Load!Becomes, Load!Go, Load!AfterCode
  <2>4. LoadInv(c, f, call.end, [a EXCEPT ![Len(a)] = [call EXCEPT !.step = "upvalues", !.i = 0]],
            P, "loading")
    BY ONLY <1>2, <1>3, <2>1, <2>2, PastCode
  <2> QED BY ONLY <2>3, <2>4
<1>10. CASE Load!IgnoreLocal
  <2>1. outcome = "loading" /\ active # <<>> /\ call.step = "locals" /\ call.i < call.n
    BY <1>10, <1>1, <1>2, <1>3 DEF Load!IgnoreLocal, Load!Loading, Load!this, Load!proto
  <2>2. PICK K : Inside(c, f, pp, a, P, K)
    BY ONLY <1>1, <2>1, LoadOK, InsideNow
  <2>3. /\ pos' = pp + (Skipped(f[pp]) + 2)
        /\ active' = [a EXCEPT ![Len(a)] = [call EXCEPT !.i = @ + 1]]
        /\ protos' = P
        /\ chunk' = c /\ file' = f /\ outcome' = "loading"
    BY <1>10, <1>1, <1>2, <1>3, <1>4, <1>5, <2>1 DEF Load!IgnoreLocal, Load!this, Load!proto, Load!Item, Load!Loading, Load!Same, Load!Advance, Load!Becomes, Load!Turn, Load!Static, Skipped
  <2>4. LoadInv(c, f, pp + (Skipped(f[pp]) + 2), [a EXCEPT ![Len(a)] = [call EXCEPT !.i = @ + 1]],
            P, "loading")
    BY ONLY <1>2, <1>3, <2>1, <2>2, PastLocal
  <2> QED BY ONLY <2>3, <2>4
<1>11. CASE Load!CountNames
  <2>1. outcome = "loading" /\ active # <<>> /\ call.step = "locals" /\ call.i = call.n
    BY <1>11, <1>1, <1>2, <1>3 DEF Load!CountNames, Load!Loading, Load!this, Load!proto
  <2>2. PICK K : Inside(c, f, pp, a, P, K)
    BY ONLY <1>1, <2>1, LoadOK, InsideNow
  <2>3. /\ pos' = pp + 1
        /\ active' = [a EXCEPT ![Len(a)] = [call EXCEPT !.step = "names", !.i = 0, !.n = f[pp]]]
        /\ protos' = P
        /\ chunk' = c /\ file' = f /\ outcome' = "loading"
    BY <1>11, <1>1, <1>2, <1>3, <1>4, <1>5, <2>1 DEF Load!CountNames, Load!this, Load!proto, Load!Item, Load!Loading, Load!Same, Load!Advance, Load!Becomes
  <2>4. LoadInv(c, f, pp + 1, [a EXCEPT ![Len(a)] = [call EXCEPT !.step = "names", !.i = 0, !.n = f[pp]]],
            P, "loading")
    BY ONLY <1>2, <1>3, <2>1, <2>2, AtNameCount
  <2> QED BY ONLY <2>3, <2>4
<1>12. CASE Load!IgnoreName
  <2>1. outcome = "loading" /\ active # <<>> /\ call.step = "names" /\ call.i < call.n
    BY <1>12, <1>1, <1>2, <1>3 DEF Load!IgnoreName, Load!Loading, Load!this, Load!proto
  <2>2. PICK K : Inside(c, f, pp, a, P, K)
    BY ONLY <1>1, <2>1, LoadOK, InsideNow
  <2>3. /\ pos' = pp + Skipped(f[pp])
        /\ active' = [a EXCEPT ![Len(a)] = [call EXCEPT !.i = @ + 1]]
        /\ protos' = P
        /\ chunk' = c /\ file' = f /\ outcome' = "loading"
    BY <1>12, <1>1, <1>2, <1>3, <1>4, <1>5, <2>1 DEF Load!IgnoreName, Load!this, Load!proto, Load!Item, Load!Loading, Load!Same, Load!Advance, Load!Becomes, Load!Turn, Load!Static, Skipped
  <2>4. LoadInv(c, f, pp + Skipped(f[pp]), [a EXCEPT ![Len(a)] = [call EXCEPT !.i = @ + 1]],
            P, "loading")
    BY ONLY <1>2, <1>3, <2>1, <2>2, PastName
  <2> QED BY ONLY <2>3, <2>4
<1>13. CASE Load!LoadConstant
  <2>1. outcome = "loading" /\ active # <<>> /\ call.step = "constants" /\ call.i < q.nrconstants
    BY <1>13, <1>1, <1>2, <1>3 DEF Load!LoadConstant, Load!Loading, Load!this, Load!proto
  <2>2. PICK K : Inside(c, f, pp, a, P, K)
    BY ONLY <1>1, <2>1, LoadOK, InsideNow
  <2>3. CASE /\ Load!Item(0) = Load!NumberTag /\ Load!Kept([tag |-> Load!NumberTag, number |-> Load!Item(1)])
            /\ Load!Advance(2) /\ Load!Turn /\ Load!Same
    <3>1. /\ f[pp] = Load!NumberTag
          /\ pos' = pp + 2
          /\ active' = [a EXCEPT ![Len(a)] = [call EXCEPT !.i = @ + 1]]
          /\ protos' = [P EXCEPT ![call.path] = [q EXCEPT !.constants = Append(@, [tag |-> Load!NumberTag, number |-> f[pp + 1]])]]
          /\ chunk' = c /\ file' = f /\ outcome' = "loading"
      BY <1>1, <1>2, <1>3, <1>4, <1>5, <2>1, <2>3 DEF Load!this, Load!proto, Load!Item, Load!Loading, Load!Same, Load!Advance, Load!Becomes, Load!Set, Load!Kept, Load!Turn, Load!Items, Part
    <3>2. LoadInv(c, f, pp + 2, [a EXCEPT ![Len(a)] = [call EXCEPT !.i = @ + 1]],
              [P EXCEPT ![call.path] = [q EXCEPT !.constants = Append(@, [tag |-> Load!NumberTag, number |-> f[pp + 1]])]], "loading")
      BY ONLY <1>2, <1>3, <2>1, <2>2, <3>1, NumberLoaded
    <3> QED BY ONLY <3>1, <3>2
  <2>4. CASE /\ Load!Item(0) = Load!StringTag /\ Load!Kept([tag |-> Load!StringTag, text |-> Load!Items(2, Load!Item(1))])
            /\ Load!Advance(2 + Load!Item(1)) /\ Load!Turn /\ Load!Same
    <3>1. /\ f[pp] = Load!StringTag
          /\ pos' = pp + (2 + f[pp + 1])
          /\ active' = [a EXCEPT ![Len(a)] = [call EXCEPT !.i = @ + 1]]
          /\ protos' = [P EXCEPT ![call.path] = [q EXCEPT !.constants = Append(@, [tag |-> Load!StringTag, text |-> Part(f, pp + 2, f[pp + 1])])]]
          /\ chunk' = c /\ file' = f /\ outcome' = "loading"
      BY <1>1, <1>2, <1>3, <1>4, <1>5, <2>1, <2>4 DEF Load!this, Load!proto, Load!Item, Load!Loading, Load!Same, Load!Advance, Load!Becomes, Load!Set, Load!Kept, Load!Turn, Load!Items, Part
    <3>2. LoadInv(c, f, pp + (2 + f[pp + 1]), [a EXCEPT ![Len(a)] = [call EXCEPT !.i = @ + 1]],
              [P EXCEPT ![call.path] = [q EXCEPT !.constants = Append(@, [tag |-> Load!StringTag, text |-> Part(f, pp + 2, f[pp + 1])])]], "loading")
      BY ONLY <1>2, <1>3, <2>1, <2>2, <3>1, StringLoaded
    <3> QED BY ONLY <3>1, <3>2
  <2>5. CASE Load!Stop("aborted") /\ UNCHANGED <<chunk, file>>
    BY <2>5, Stopped
  <2> QED BY <1>13, <2>3, <2>4, <2>5 DEF Load!LoadConstant
<1>14. CASE Load!LoadPrototypes
  <2>1. outcome = "loading" /\ active # <<>> /\ call.step = "constants" /\ call.i = q.nrconstants
    BY <1>14, <1>1, <1>2, <1>3 DEF Load!LoadPrototypes, Load!Loading, Load!this, Load!proto
  <2>2. PICK K : Inside(c, f, pp, a, P, K)
    BY ONLY <1>1, <2>1, LoadOK, InsideNow
  <2>3. CASE Load!Set([Load!proto EXCEPT !.nrprotos = Load!Item(0)]) /\ Load!Advance(1) /\ Load!Go("prototypes") /\ Load!Same
    <3>1. /\ pos' = pp + 1
          /\ active' = [a EXCEPT ![Len(a)] = [call EXCEPT !.step = "prototypes", !.i = 0]]
          /\ protos' = [P EXCEPT ![call.path] = [q EXCEPT !.nrprotos = f[pp]]]
          /\ chunk' = c /\ file' = f /\ outcome' = "loading"
      BY <1>1, <1>2, <1>3, <1>4, <1>5, <2>1, <2>3 DEF Load!this, Load!proto, Load!Item, Load!Loading, Load!Same, Load!Advance, Load!Becomes, Load!Set, Load!Go
    <3>2. LoadInv(c, f, pp + 1, [a EXCEPT ![Len(a)] = [call EXCEPT !.step = "prototypes", !.i = 0]],
              [P EXCEPT ![call.path] = [q EXCEPT !.nrprotos = f[pp]]], "loading")
      BY ONLY <1>2, <1>3, <2>1, <2>2, PrototypesLoaded
    <3> QED BY ONLY <3>1, <3>2
  <2>4. CASE Load!Stop("failed") /\ UNCHANGED <<chunk, file>>
    BY <2>4, Stopped
  <2> QED BY <1>14, <2>3, <2>4 DEF Load!LoadPrototypes
<1>15. CASE Load!JitInstruction
  <2>1. outcome = "loading" /\ active # <<>> /\ call.step = "code" /\ call.i < q.sizecode
    BY <1>15, <1>1, <1>2, <1>3 DEF Load!JitInstruction, Load!Loading, Load!this, Load!proto
  <2>2. PICK K : Inside(c, f, pp, a, P, K)
    BY ONLY <1>1, <2>1, LoadOK, InsideNow
  <2>3. CASE Load!Set([Load!proto EXCEPT !.code = Append(@, Load!Item(0))]) /\ Load!Advance(1) /\ Load!Turn /\ Load!Same
    <3>1. /\ pos' = pp + 1
          /\ active' = [a EXCEPT ![Len(a)] = [call EXCEPT !.i = @ + 1]]
          /\ protos' = [P EXCEPT ![call.path] = [q EXCEPT !.code = Append(@, f[pp])]]
          /\ chunk' = c /\ file' = f /\ outcome' = "loading"
      BY <1>1, <1>2, <1>3, <1>4, <1>5, <2>1, <2>3 DEF Load!this, Load!proto, Load!Item, Load!Loading, Load!Same, Load!Advance, Load!Becomes, Load!Set, Load!Turn
    <3>2. LoadInv(c, f, pp + 1, [a EXCEPT ![Len(a)] = [call EXCEPT !.i = @ + 1]],
              [P EXCEPT ![call.path] = [q EXCEPT !.code = Append(@, f[pp])]], "loading")
      BY ONLY <1>2, <1>3, <2>1, <2>2, InstructionLoaded
    <3> QED BY ONLY <3>1, <3>2
  <2>4. CASE Load!Stop("aborted") /\ UNCHANGED <<chunk, file>>
    BY <2>4, Stopped
  <2> QED BY <1>15, <2>3, <2>4 DEF Load!JitInstruction
<1>16. CASE Load!LoadUpvalues
  <2>1. outcome = "loading" /\ active # <<>> /\ call.step = "upvalues"
    BY <1>16, <1>1, <1>2, <1>3 DEF Load!LoadUpvalues, Load!Loading, Load!this, Load!proto
  <2>2. PICK K : Inside(c, f, pp, a, P, K)
    BY ONLY <1>1, <2>1, LoadOK, InsideNow
  <2>3. CASE Load!Set([Load!proto EXCEPT !.upvalues = Load!Items(1, Load!Item(0))]) /\ Load!Advance(1 + Load!Item(0)) /\ Load!Go("debug") /\ Load!Same
    <3>1. /\ pos' = pp + (1 + f[pp])
          /\ active' = [a EXCEPT ![Len(a)] = [call EXCEPT !.step = "debug", !.i = 0]]
          /\ protos' = [P EXCEPT ![call.path] = [q EXCEPT !.upvalues = Part(f, pp + 1, f[pp])]]
          /\ chunk' = c /\ file' = f /\ outcome' = "loading"
      BY <1>1, <1>2, <1>3, <1>4, <1>5, <2>1, <2>3 DEF Load!this, Load!proto, Load!Item, Load!Loading, Load!Same, Load!Advance, Load!Becomes, Load!Set, Load!Go, Load!Items, Part
    <3>2. LoadInv(c, f, pp + (1 + f[pp]), [a EXCEPT ![Len(a)] = [call EXCEPT !.step = "debug", !.i = 0]],
              [P EXCEPT ![call.path] = [q EXCEPT !.upvalues = Part(f, pp + 1, f[pp])]], "loading")
      BY ONLY <1>2, <1>3, <2>1, <2>2, UpvaluesLoaded
    <3> QED BY ONLY <3>1, <3>2
  <2>4. CASE Load!Stop("crashed") /\ UNCHANGED <<chunk, file>>
    BY <2>4, Stopped
  <2> QED BY <1>16, <2>3, <2>4 DEF Load!LoadUpvalues
<1>17. CASE Load!IgnoreSource
  <2>1. outcome = "loading" /\ active # <<>> /\ call.step = "debug"
    BY <1>17, <1>1, <1>2, <1>3 DEF Load!IgnoreSource, Load!Loading, Load!this, Load!proto
  <2>2. PICK K : Inside(c, f, pp, a, P, K)
    BY ONLY <1>1, <2>1, LoadOK, InsideNow
  <2>3. PICK l, m : l = Skipped(f[pp]) /\ m = l + 1 + f[pp + l]
    OBVIOUS
  <2>4. Load!Static(0) = l
    BY <1>1, <1>5, <2>3 DEF Load!Static, Load!Item, Skipped
  <2>5. /\ pos' = pp + (m + 1)
        /\ active' = [a EXCEPT ![Len(a)] = [call EXCEPT !.step = "locals", !.i = 0, !.n = f[pp + m]]]
        /\ protos' = P
        /\ chunk' = c /\ file' = f /\ outcome' = "loading"
    BY <1>17, <1>1, <1>2, <1>3, <2>1, <2>3, <2>4 DEF Load!IgnoreSource, Load!this, Load!proto, Load!Item, Load!Loading, Load!Same, Load!Advance, Load!Becomes
  <2>6. LoadInv(c, f, pp + (m + 1), [a EXCEPT ![Len(a)] = [call EXCEPT !.step = "locals", !.i = 0, !.n = f[pp + m]]],
            P, "loading")
    BY ONLY <1>2, <1>3, <2>1, <2>2, <2>3, PastSource
  <2> QED BY ONLY <2>5, <2>6
<1>18. CASE Load!LoadChild
  <2>1. outcome = "loading" /\ active # <<>> /\ call.step = "prototypes" /\ call.i < q.nrprotos
    BY <1>18, <1>1, <1>2, <1>3 DEF Load!LoadChild, Load!Loading, Load!this, Load!proto
  <2>2. PICK K : Inside(c, f, pp, a, P, K)
    BY ONLY <1>1, <2>1, LoadOK, InsideNow
  <2>3. PICK path2, n : path2 = Append(call.path, call.i + 1) /\ n = Len(a)
    OBVIOUS
  <2>4. PICK call2, a2, P2 : /\ call2 = [call EXCEPT !.i = @ + 1]
                             /\ a2 = WithCall(a, n, call2, path2) /\ P2 = WithBlank(P, path2)
    OBVIOUS
  <2>5. pos' = pp /\ active' = a2 /\ protos' = P2 /\ chunk' = c /\ file' = f /\ outcome' = "loading"
    BY <1>18, <1>1, <1>2, <1>3, <2>1, <2>3, <2>4 DEF Load!LoadChild, Load!this, Load!Same, WithCall, WithBlank
  <2>6. call.i < Len(FnOf(c, call.path).kids)
    BY ONLY <1>2, <1>3, <2>1, <2>2, ChildCount
  <2>7. LoadInv(c, f, pp, a2, P2, "loading")
    <3>1. n = Len(a) /\ call = a[n] /\ call.step = "prototypes" /\ path2 = Append(call.path, call.i + 1)
      BY ONLY <1>2, <2>1, <2>3
    <3>2. LoadInv(c, f, pp, WithCall(a, n, call2, path2), WithBlank(P, path2), "loading")
      BY ONLY <2>2, <2>4, <2>6, <3>1, Pushed
    <3> QED BY ONLY <2>4, <3>2
  <2> QED BY ONLY <2>5, <2>7
<1>19. CASE Load!FunctionLoaded
  <2>1. outcome = "loading" /\ active # <<>> /\ call.step = "names" /\ call.i = call.n
    BY <1>19, <1>1, <1>2, <1>3 DEF Load!FunctionLoaded, Load!Loading, Load!this, Load!proto
  <2>2. PICK K : Inside(c, f, pp, a, P, K)
    BY ONLY <1>1, <2>1, LoadOK, InsideNow
  <2>3. PICK n, a2 : n = Len(a) /\ a2 = SubSeq(a, 1, Len(a) - 1)
    OBVIOUS
  <2>4. pos' = pp /\ active' = a2 /\ protos' = P /\ chunk' = c /\ file' = f
        /\ outcome' = (IF n = 1 THEN "loaded" ELSE "loading")
    BY <1>19, <1>1, <2>1, <2>3 DEF Load!FunctionLoaded
  <2>5. LoadInv(c, f, pp, a2, P, IF n = 1 THEN "loaded" ELSE "loading")
    BY ONLY <1>2, <2>1, <2>2, <2>3, Popped
  <2> QED BY ONLY <2>4, <2>5
<1>20. CASE Load!ValidateHeader
  <2>1. CASE Load!Stop("rejected") /\ UNCHANGED <<chunk, file>>
    BY <2>1, Stopped
  <2>2. CASE /\ pos' = 2 /\ active' = <<Load!LoadFunction(<<>>)>> /\ protos' = [path \in {<<>>} |-> Load!Blank]
             /\ UNCHANGED outcome /\ UNCHANGED <<chunk, file>>
    <3>1. c \in Chunks /\ IsSeq(f) /\ Reads(f, 2, Dumps(c)[1])
      BY <1>20, <1>1 DEF Load!ValidateHeader, LoadOK, LoadInv
    <3>2. LoadInv(c, f, 2, <<Load!LoadFunction(<<>>)>>, [path \in {<<>>} |-> Load!Blank], "loading")
      BY ONLY <3>1, MainCalled
    <3>3. outcome = "loading"
      BY <1>20 DEF Load!ValidateHeader
    <3> QED BY <1>1, <2>2, <3>2, <3>3
  <2> QED BY <1>20, <2>1, <2>2 DEF Load!ValidateHeader
<1> QED BY <1>6, <1>7, <1>8, <1>9, <1>10, <1>11, <1>12, <1>13, <1>14, <1>15, <1>16, <1>17, <1>18, <1>19, <1>20 DEF Load!Next

-----------------------------------------------------------------------------
(* Reading a file, from the beginning.                                     *)

\* The invariant holds at the beginning.
LEMMA LoadStarts == MainInit => LoadOK
<1> SUFFICES ASSUME MainInit PROVE LoadOK
  OBVIOUS
<1>1. chunk \in Chunks /\ pos = 1 /\ active = <<>> /\ outcome = "loading"
  BY DEF MainInit, Load!Init
<1>2. PICK h : file = <<h>> \o Load!Dump(chunk)
  BY DEF MainInit, Load!Init
<1>3. PICK c, f, D : c = chunk /\ f = file /\ D = Dumps(c)[1] /\ f = One(h) ++ D
  BY <1>2, DumpOfMain DEF One, ++
<1>4. IsSeq(D)
  <2>1. Load!IsProgram(c)
    BY <1>1, <1>3, ProgramsAssumption
  <2>2. 1 \in 1..Len(c)
    <3>1. Len(c) \in Nat /\ Len(c) > 0
      BY <2>1, FunctionsAreSources DEF Load!IsProgram, Load!IsList
    <3> QED BY <3>1
  <2>3. PICK p, ks : p = c[1] /\ ks = KidItems(Dumps(c), c[1])
    OBVIOUS
  <2>4. IsSource(p) /\ Parts(ks) /\ Len(ks) = Len(p.kids) /\ D = RestAll(p, ks)
    BY <1>3, <2>1, <2>2, <2>3, DumpsAre
  <2>5. IsSeq(RestAll(p, ks))
    BY ONLY <2>4, RestSeqs
  <2> QED BY ONLY <2>4, <2>5
<1>5. IsSeq(One(h)) /\ Len(One(h)) = 1 /\ IsSeq(f) /\ Len(f) = 1 + Len(D) /\ Len(D) \in Nat
  <2>1. IsSeq(One(h)) /\ Len(One(h)) = 1
    BY SeqOne
  <2>2. IsSeq(One(h) ++ D) /\ Len(One(h) ++ D) = Len(One(h)) + Len(D)
    BY ONLY <1>4, <2>1, SeqConcat
  <2>3. Len(D) \in Nat
    BY <1>4, SeqFacts
  <2> QED BY <1>3, <2>1, <2>2, <2>3
<1>6. Reads(f, 1, One(h) ++ D)
  <2>1. 1 \in 1..(Len(f) + 1) /\ 1 + Len(f) = Len(f) + 1 /\ \A i \in 1..Len(f) : 1 + i - 1 = i
    BY <1>5
  <2>2. \A i \in 1..Len(f) : f[1 + i - 1] = f[i]
    BY <2>1
  <2> QED BY ONLY <1>3, <1>5, <2>1, <2>2 DEF Reads
<1>7. Reads(f, 2, D)
  <2>1. Reads(f, 1 + Len(One(h)), D)
    BY ONLY <1>4, <1>5, <1>6, Take
  <2> QED BY <1>5, <2>1
<1>8. 1 \in 1..(Len(f) + 1)
  BY <1>5
<1> QED BY <1>1, <1>3, <1>5, <1>7, <1>8 DEF LoadOK, LoadInv

\* The invariant is about what has been loaded.
LEMMA LoadedIsExact == LoadOK => LoadedExactly
<1> SUFFICES ASSUME LoadOK PROVE LoadedExactly
  OBVIOUS
<1>1. pos \in 1..(Len(file) + 1)
  BY DEF LoadOK, LoadInv
<1>2. ASSUME outcome = "loaded" PROVE pos = Len(file) + 1 /\ \A path \in DOMAIN protos : Finished(chunk, protos, path)
  BY <1>2 DEF LoadOK, LoadInv
<1>3. ASSUME outcome = "loaded", NEW path \in DOMAIN protos
      PROVE  /\ Load!IsFunction(protos[path], chunk[Load!NodeAt(path)])
             /\ \A i \in DOMAIN chunk[Load!NodeAt(path)].kids : Append(path, i) \in DOMAIN protos
  <2>1. Finished(chunk, protos, path)
    BY <1>2, <1>3
  <2>2. FnOf(chunk, path) = chunk[Load!NodeAt(path)]
    BY NodeAtIsNodeIn DEF FnOf
  <2> QED BY <2>1, <2>2 DEF Finished
<1> QED BY <1>1, <1>2, <1>3 DEF LoadedExactly, Load!LoadedExactly

\* The program does not touch what was read once it has been loaded.
LEMMA LoadKept == LoadOK /\ [MainNext]_mainVars => LoadOK'
<1> SUFFICES ASSUME LoadOK, [MainNext]_mainVars PROVE LoadInv(chunk', file', pos', active', protos', outcome')
  BY DEF LoadOK
<1>1. CASE LoadFile
  BY <1>1, LoadStep DEF LoadFile
<1>2. CASE UNCHANGED loadVars
  BY <1>2 DEF loadVars, LoadOK
<1>3. LoadFile \/ UNCHANGED loadVars
  BY DEF MainNext, mainVars, FileRead, OnlyMain, Serialise, PushCtest, NameCtest, OnlyApi, ExecuteMain, RunChunk, Cleanup
<1> QED BY <1>1, <1>2, <1>3

(* Reading stays within the file; a file that is loaded has been read to its *)
(* end, and every function got its own code, constants, upvalues and         *)
(* functions: for every program, however deep its functions lie and however  *)
(* long the names are that the reader skips (main.c: load_function).         *)
THEOREM LoadedExactlyAlways == MainSpec => []LoadedExactly
<1>1. MainInit => LoadOK
  BY LoadStarts
<1>2. LoadOK /\ [MainNext]_mainVars => LoadOK'
  BY LoadKept
<1>3. LoadOK => LoadedExactly
  BY LoadedIsExact
<1> QED BY <1>1, <1>2, <1>3, PTL DEF MainSpec
=============================================================================
