------------------------- MODULE CallProtocolProofs --------------------------
(***************************************************************************)
(* Theorems about calls and returns, for any functions with any numbers of *)
(* locals, parameters, arguments and results and any code that calls and   *)
(* returns with its locals.                                                *)
(***************************************************************************)
EXTENDS CallProtocol, SequenceTheorems, WellFoundedInduction, TLAPS

\* The sites of calls, and the room that a frame has for its locals.
CallSite ==
    {s \in [fn : LuaFn, base : Nat, nret : Nat] :
        s.base < NrLocals[s.fn] /\ s.base + s.nret <= NrLocals[s.fn] + 1}
Room(frame, f) == frame + 1 + 2 * NrLocals[f] <= MaxWord

\* The header of the frame at a: the one below has called its local base.
Saved(m, below, a) ==
    /\ m[a] = FP(below)
    /\ m[a - 1] = RA(m[a - 1].site) /\ m[a - 1].site \in CallSite
    /\ m[a + 1] = CL(LocalAt(below, m[a - 1].site.base))
    /\ Room(below, m[a - 1].site.fn)

\* The frames on the stack: each lies above the header of the one below.
Chain(m, F) ==
    /\ F \in Seq(Address) /\ F # <<>> /\ F[1] = 2
    /\ m[1] = RA(Nowhere) /\ m[2] = FP(0) /\ m[3] = CL(0)
    /\ \A d \in 2..Len(F) : F[d - 1] + 3 <= F[d] /\ Saved(m, F[d - 1], F[d])

\* Beside the frames: what the registers of the protocol hold at each place.
Registers ==
    /\ at \in {"prologue", "postcall"} => ra \in CallSite /\ ra.fn = fn
    /\ at = "prologue" => rarg.src = LocalAt(fp, ra.base)
    /\ at = "postcall" => rarg.dst = LocalAt(fp, ra.base)
    /\ at = "enter" => rarg.dst = LocalAt(fp, 0) /\ sp = fp + 1
    /\ pend # None => at = "body" /\ LocalAt(fp, pend) <= sp

\* The frames on the stack end with the current one.
Framed == \E F : Chain(mem, F) /\ F[Len(F)] = fp

IInv ==
    /\ TypeOK
    /\ ra \in CallSite \cup {Nowhere}
    /\ Registers
    /\ at # "done" =>
        /\ fn \in LuaFn /\ Room(fp, fn)
        /\ fp + 1 <= sp
        /\ Framed

\* What is passed lies on the stack, results above the header of the callee, and
\* the stack ends with the results whose number is not known.
Passed ==
    /\ at = "enter" => fp > 2 /\ mem[fp + 1] = CL(rarg.src - 2)
    /\ at = "epilogue" =>
          /\ \E b \in Nat : rarg.src = LocalAt(fp, b)
          /\ rarg.src + 2 * rarg.exist <= MaxWord + 1
    /\ at = "postcall" => sp + 4 <= rarg.src /\ rarg.src + 2 * rarg.exist <= MaxWord + 1
    /\ pend # None => \E n \in Nat : sp = LocalAt(fp, pend) + 2 * n

USE FnAssumption, BoundsAssumption

-----------------------------------------------------------------------------
(* Recursive functions over numbers, from the least number without a value. *)

LEMMA Induction ==
    ASSUME NEW S, 0 \in S, \A n \in Nat : n \in S => n + 1 \in S
    PROVE  Nat \subseteq S
<1> DEFINE R == {ss \in Nat \X Nat : ss[1] < ss[2]}
           T == Nat \ S
<1> SUFFICES ASSUME T # {} PROVE FALSE
  OBVIOUS
<1>1. IsWellFoundedOn(R, Nat)
  BY NatLessThanWellFounded DEF OpToRel
<1>2. PICK x \in T : \A y \in T : <<y, x>> \notin R
  <2> HIDE DEF R
  <2> QED BY <1>1, WFMin
<1>3. x # 0 /\ x - 1 \in Nat /\ x - 1 < x
  BY <1>2
<1>4. x - 1 \in S
  BY <1>2, <1>3
<1> QED BY <1>3, <1>4

\* One local is copied: its value, then its type.
Copy(m, d, s) ==
    LET v == [m EXCEPT ![d] = m[s]] IN [v EXCEPT ![d + 1] = v[s + 1]]

\* do_copying, turn by turn.
LEMMA CopyTurns ==
    ASSUME NEW m, NEW dst, NEW src, NEW n \in Nat
    PROVE  \E f : /\ f[0] = m
                  /\ \A i \in 1..n : f[i] = Copy(f[i - 1], dst + 2 * (i - 1), src + 2 * (i - 1))
                  /\ Copied(m, dst, src, n) = f[n]
<1> DEFINE Value(f, i) ==
               IF i = 0 THEN m ELSE Copy(f[i - 1], dst + 2 * (i - 1), src + 2 * (i - 1))
           Body(f) == [i \in 0..n |-> Value(f, i)]
           S == {k \in Nat : \E g : g = [i \in 0..k |-> Value(g, i)]}
<1>1. 0 \in S
  <2> DEFINE g == [i \in 0..0 |-> m]
  <2>1. g = [i \in 0..0 |-> Value(g, i)]
    OBVIOUS
  <2> HIDE DEF g
  <2> QED BY <2>1
<1>2. ASSUME NEW k \in Nat, k \in S PROVE k + 1 \in S
  <2>1. PICK g : g = [i \in 0..k |-> Value(g, i)]
    BY <1>2
  <2> DEFINE h == [i \in 0..(k + 1) |-> Value(g, i)]
  <2>2. \A i \in 0..k : h[i] = g[i]
    BY <2>1
  <2>3. \A i \in 0..(k + 1) : Value(h, i) = Value(g, i)
    <3> HIDE DEF h
    <3> SUFFICES ASSUME NEW i \in 0..(k + 1), i # 0 PROVE h[i - 1] = g[i - 1]
      OBVIOUS
    <3>1. i - 1 \in 0..k
      OBVIOUS
    <3> QED BY <2>2, <3>1
  <2>4. h = [i \in 0..(k + 1) |-> Value(h, i)]
    BY <2>3
  <2> HIDE DEF h
  <2>5. \E f : f = [i \in 0..(k + 1) |-> Value(f, i)]
    BY <2>4
  <2>6. k + 1 \in Nat
    OBVIOUS
  <2> QED BY <2>5, <2>6, Zenon
<1>3. PICK g : g = Body(g)
  <2>1. n \in S
    <3> HIDE DEF S
    <3> QED BY <1>1, <1>2, Induction
  <2> QED BY <2>1
<1> DEFINE f == CHOOSE h : h = Body(h)
<1>4. Copied(m, dst, src, n) = f[n]
  BY DEF Copied, Copy
<1>5. f = Body(f)
  <2> HIDE DEF Body
  <2> QED BY <1>3
<1> HIDE DEF f
<1>6. f[0] = m /\ \A i \in 1..n : f[i] = Copy(f[i - 1], dst + 2 * (i - 1), src + 2 * (i - 1))
  BY <1>5
<1> QED BY <1>4, <1>6

\* The words after each turn: f[0] to f[n].
Turns(f, m, dst, src, n) ==
    /\ f[0] = m
    /\ \A i \in 1..n : f[i] = Copy(f[i - 1], dst + 2 * (i - 1), src + 2 * (i - 1))

LEMMA CopyInTurns ==
    ASSUME NEW m, NEW dst, NEW src, NEW n \in Nat
    PROVE  \E f : Turns(f, m, dst, src, n) /\ Copied(m, dst, src, n) = f[n]
BY CopyTurns DEF Turns

\* The turns up to one change the words of the destination up to there.
LEMMA TurnsElsewhere ==
    ASSUME NEW m, DOMAIN m = Address, NEW dst \in Nat, NEW src \in Nat, NEW n \in Nat,
           NEW f, Turns(f, m, dst, src, n), NEW t \in 0..n
    PROVE  /\ DOMAIN f[t] = Address
           /\ \A a \in Address : a < dst \/ a >= dst + 2 * t => f[t][a] = m[a]
<1>1. /\ f[0] = m
      /\ \A i \in 1..n : f[i] = Copy(f[i - 1], dst + 2 * (i - 1), src + 2 * (i - 1))
  BY DEF Turns
<1> DEFINE U == {k \in Nat : k <= n =>
                    /\ DOMAIN f[k] = Address
                    /\ \A a \in Address : a < dst \/ a >= dst + 2 * k => f[k][a] = m[a]}
<1>2. 0 \in U
  BY <1>1
<1>3. ASSUME NEW k \in Nat, k \in U PROVE k + 1 \in U
  <2> SUFFICES ASSUME k + 1 <= n
               PROVE  /\ DOMAIN f[k + 1] = Address
                      /\ \A a \in Address :
                            a < dst \/ a >= dst + 2 * (k + 1) => f[k + 1][a] = m[a]
    OBVIOUS
  <2>1. f[k + 1] = Copy(f[k], dst + 2 * k, src + 2 * k)
    BY <1>1
  <2>2. DOMAIN f[k] = Address /\ \A a \in Address : a < dst \/ a >= dst + 2 * k => f[k][a] = m[a]
    BY <1>3
  <2>3. f[k] = [a \in Address |-> f[k][a]] => DOMAIN f[k + 1] = Address
    BY <2>1, <2>2 DEF Copy
  <2>4. \A a \in Address : a # dst + 2 * k /\ a # dst + 2 * k + 1 => f[k + 1][a] = f[k][a]
    BY <2>1, <2>2 DEF Copy
  <2>5. DOMAIN f[k + 1] = Address
    BY <2>1, <2>2 DEF Copy
  <2>6. 2 * (k + 1) = 2 * k + 2
    OBVIOUS
  <2>7. \A a \in Address : a < dst \/ a >= dst + 2 * k + 2 =>
            /\ a < dst \/ a >= dst + 2 * k
            /\ a # dst + 2 * k /\ a # dst + 2 * k + 1
    BY DEF Address
  <2> QED BY <2>2, <2>4, <2>5, <2>6, <2>7
<1>4. t \in U
  <2> HIDE DEF U
  <2> QED BY <1>2, <1>3, Induction
<1> QED BY <1>4

\* Copying changes the words of the destination only.
LEMMA CopiedElsewhere ==
    ASSUME NEW m, DOMAIN m = Address, NEW dst \in Nat, NEW src \in Nat, NEW n \in Nat
    PROVE  /\ DOMAIN Copied(m, dst, src, n) = Address
           /\ \A a \in Address : a < dst \/ a >= dst + 2 * n => Copied(m, dst, src, n)[a] = m[a]
<1>1. PICK f : Turns(f, m, dst, src, n) /\ Copied(m, dst, src, n) = f[n]
  BY CopyInTurns
<1>2. n \in 0..n
  OBVIOUS
<1> QED BY <1>1, <1>2, TurnsElsewhere

\* The two words of local a.
SamePair(m, a, m2, b) == m[a] = m2[b] /\ m[a + 1] = m2[b + 1]

\* A turn copies the two words of a local, if the first is not copied onto the second.
LEMMA CopyPair ==
    ASSUME NEW m, DOMAIN m = Address, NEW d \in Nat, d + 1 \in Address, NEW s \in Nat,
           d # s + 1
    PROVE  SamePair(Copy(m, d, s), d, m, s)
<1>1. d \in Address /\ d # d + 1
  BY DEF Address
<1>2. PICK v : v = [m EXCEPT ![d] = m[s]]
  OBVIOUS
<1>3. PICK w : w = [v EXCEPT ![d + 1] = v[s + 1]]
  OBVIOUS
<1>4. Copy(m, d, s) = w
  BY <1>2, <1>3 DEF Copy
<1>5. DOMAIN v = Address /\ v[d] = m[s] /\ v[s + 1] = m[s + 1]
  BY <1>1, <1>2
<1>6. w[d] = v[d] /\ w[d + 1] = v[s + 1]
  BY <1>1, <1>3, <1>5
<1> QED BY <1>4, <1>5, <1>6 DEF SamePair

\* A local arrives as it was if its words are not written before it is its turn:
\* they lie below the destination, or the destination lies below the source.
LEMMA CopiedHere ==
    ASSUME NEW m, DOMAIN m = Address, NEW dst \in Nat, NEW src \in Nat, NEW n \in Nat,
           dst + 2 * n <= MaxWord + 1, NEW j \in 0..(n - 1), src + 2 * j + 1 <= MaxWord,
           dst <= src \/ src + 2 * j + 1 < dst
    PROVE  SamePair(Copied(m, dst, src, n), dst + 2 * j, m, src + 2 * j)
<1>1. PICK f : Turns(f, m, dst, src, n) /\ Copied(m, dst, src, n) = f[n]
  BY CopyInTurns
<1>2. PICK d \in Nat, s \in Nat : d = dst + 2 * j /\ s = src + 2 * j
  OBVIOUS
<1>3. j \in 0..n /\ j + 1 \in 1..n /\ (j + 1) - 1 = j
  OBVIOUS
<1>4. f[j + 1] = Copy(f[j], d, s)
  BY <1>1, <1>2, <1>3 DEF Turns
<1>5. DOMAIN f[j] = Address /\ SamePair(f[j], s, m, s)
  <2>1. /\ DOMAIN f[j] = Address
        /\ \A a \in Address : a < dst \/ a >= dst + 2 * j => f[j][a] = m[a]
    BY <1>1, <1>3, TurnsElsewhere
  <2>2. \A a \in {s, s + 1} : a \in Address /\ (a < dst \/ a >= dst + 2 * j)
    BY <1>2 DEF Address
  <2> QED BY <2>1, <2>2 DEF SamePair
<1>6. d # s + 1 /\ d + 1 \in Address /\ d \in Address
  BY <1>2 DEF Address
<1>7. SamePair(f[j + 1], d, f[j], s)
  BY <1>4, <1>5, <1>6, CopyPair
<1> DEFINE U == {k \in Nat : j + 1 + k <= n => SamePair(f[j + 1 + k], d, f[j], s)}
<1>8. 0 \in U
  BY <1>7
<1>9. ASSUME NEW k \in Nat, k \in U PROVE k + 1 \in U
  <2> SUFFICES ASSUME j + 1 + (k + 1) <= n PROVE SamePair(f[j + 1 + (k + 1)], d, f[j], s)
    OBVIOUS
  <2>1. PICK t \in 1..n : t = j + 1 + (k + 1) /\ t - 1 = j + 1 + k /\ t - 1 \in 0..n
    OBVIOUS
  <2>2. f[t] = Copy(f[t - 1], dst + 2 * (t - 1), src + 2 * (t - 1))
    BY <1>1 DEF Turns
  <2>3. DOMAIN f[t - 1] = Address
    BY <1>1, <2>1, TurnsElsewhere
  <2>4. PICK x, y : x \in Nat /\ x = dst + 2 * (t - 1) /\ y = src + 2 * (t - 1)
    BY <2>1
  <2>5. d + 1 < x
    BY <1>2, <2>1, <2>4
  <2>6. Copy(f[t - 1], x, y)[d] = f[t - 1][d] /\ Copy(f[t - 1], x, y)[d + 1] = f[t - 1][d + 1]
    <3>1. d # x /\ d # x + 1 /\ d + 1 # x /\ d + 1 # x + 1
      BY <2>4, <2>5
    <3> QED BY <1>6, <2>3, <3>1 DEF Copy
  <2>7. SamePair(f[t - 1], d, f[j], s)
    BY <1>9, <2>1
  <2> QED BY <2>1, <2>2, <2>4, <2>6, <2>7 DEF SamePair
<1>10. SamePair(f[n], d, f[j], s)
  <2>1. n - (j + 1) \in Nat /\ j + 1 + (n - (j + 1)) = n
    OBVIOUS
  <2>2. n - (j + 1) \in U
    <3> HIDE DEF U
    <3> QED BY <1>8, <1>9, <2>1, Induction
  <2> QED BY <2>1, <2>2
<1> QED BY <1>1, <1>2, <1>5, <1>10 DEF SamePair

\* No words are set to nil: the limit is the number that has been copied.
LEMMA ArgResCopied ==
    ASSUME NEW m, DOMAIN m = Address, NEW r \in [exist : Nat, src : Nat, dst : Nat, expect : Nat]
    PROVE  LET n == Least(r.exist, r.expect)
           IN  /\ n \in Nat
               /\ DOMAIN ArgResCpy(m, r) = Address
               /\ \A a \in Address : ArgResCpy(m, r)[a] = Copied(m, r.dst, r.src, n)[a]
               /\ \A a \in Address : a < r.dst => ArgResCpy(m, r)[a] = m[a]
               /\ DstAfter(r) = r.dst + 2 * n
<1> DEFINE n == Least(r.exist, r.expect)
<1>1. n \in Nat
  BY DEF Least
<1> HIDE DEF n
<1>2. ArgResCpy(m, r) = Nilled(Copied(m, r.dst, r.src, n), r.dst, n, n)
  BY DEF ArgResCpy, NilLimit, n
<1>3. n..(n - 1) = {}
  BY <1>1
<1>4. /\ DOMAIN ArgResCpy(m, r) = Address
      /\ \A a \in Address : ArgResCpy(m, r)[a] = Copied(m, r.dst, r.src, n)[a]
  BY <1>2, <1>3 DEF Nilled
<1>5. \A a \in Address : a < r.dst => Copied(m, r.dst, r.src, n)[a] = m[a]
  BY <1>1, CopiedElsewhere
<1>6. DstAfter(r) = r.dst + 2 * n
  BY DEF DstAfter, NilLimit, n
<1> QED BY <1>1, <1>4, <1>5, <1>6 DEF n

-----------------------------------------------------------------------------
(* The frames. *)

FrameTurn(m, f, a) ==
    IF a > 2 /\ m[a].k = "frame_pointer" /\ m[a].a \in 2..(a - 1) THEN Append(f[m[a].a], a) ELSE <<a>>

LEMMA FrameTurnSame ==
    ASSUME NEW m, NEW f, NEW g, NEW a \in Nat, \A b \in 0..(a - 1) : f[b] = g[b]
    PROVE  FrameTurn(m, f, a) = FrameTurn(m, g, a)
<1>1. CASE m[a].a \in 2..(a - 1)
  <2>1. f[m[a].a] = g[m[a].a]
    BY <1>1
  <2> QED BY <2>1 DEF FrameTurn
<1>2. CASE m[a].a \notin 2..(a - 1)
  BY <1>2 DEF FrameTurn
<1> QED BY <1>1, <1>2

LEMMA FramesTurns ==
    ASSUME NEW m
    PROVE  \A a \in Address : FramesTo(m)[a] = FrameTurn(m, FramesTo(m), a)
<1> DEFINE Body(f) == [a \in Address |-> FrameTurn(m, f, a)]
           S == {k \in Nat : \E g : g = [a \in 0..k |-> FrameTurn(m, g, a)]}
<1>1. 0 \in S
  <2> DEFINE g == [a \in 0..0 |-> <<a>>]
  <2>1. g = [a \in 0..0 |-> FrameTurn(m, g, a)]
    BY DEF FrameTurn
  <2> HIDE DEF g
  <2>2. \E f : f = [a \in 0..0 |-> FrameTurn(m, f, a)]
    BY <2>1
  <2>3. 0 \in Nat
    OBVIOUS
  <2> QED BY <2>2, <2>3, Zenon
<1>2. ASSUME NEW k \in Nat, k \in S PROVE k + 1 \in S
  <2>1. PICK g : g = [a \in 0..k |-> FrameTurn(m, g, a)]
    BY <1>2
  <2> DEFINE h == [a \in 0..(k + 1) |-> FrameTurn(m, g, a)]
             same == [a \in 0..k |-> FrameTurn(m, g, a)]
  <2>2. \A a \in 0..k : h[a] = g[a]
    <3>1. \A a \in 0..k : h[a] = same[a]
      OBVIOUS
    <3>2. same = g
      BY <2>1
    <3> HIDE DEF h, same
    <3> QED BY <3>1, <3>2
  <2>3. \A a \in 0..(k + 1) : FrameTurn(m, h, a) = FrameTurn(m, g, a)
    <3> HIDE DEF h
    <3> SUFFICES ASSUME NEW a \in 0..(k + 1) PROVE FrameTurn(m, h, a) = FrameTurn(m, g, a)
      OBVIOUS
    <3>1. \A b \in 0..(a - 1) : h[b] = g[b]
      BY <2>2
    <3> QED BY <3>1, FrameTurnSame
  <2>4. h = [a \in 0..(k + 1) |-> FrameTurn(m, h, a)]
    BY <2>3
  <2> HIDE DEF h
  <2>5. \E f : f = [a \in 0..(k + 1) |-> FrameTurn(m, f, a)]
    BY <2>4
  <2>6. k + 1 \in Nat
    OBVIOUS
  <2> QED BY <2>5, <2>6, Zenon
<1>3. PICK g : g = Body(g)
  <2>1. MaxWord \in S
    <3> HIDE DEF S
    <3> QED BY <1>1, <1>2, Induction
  <2> QED BY <2>1 DEF Address
<1> DEFINE f == CHOOSE h : h = Body(h)
<1>4. FramesTo(m) = f
  BY DEF FramesTo, FrameTurn
<1>5. f = Body(f)
  <2> HIDE DEF Body
  <2> QED BY <1>3
<1> HIDE DEF f
<1> QED BY <1>4, <1>5

LEMMA Prefixes ==
    ASSUME NEW S, NEW F \in Seq(S), NEW d \in 0..(Len(F) - 1)
    PROVE  /\ SubSeq(F, 1, d) \in Seq(S) /\ Len(SubSeq(F, 1, d)) = d
           /\ \A i \in 1..d : SubSeq(F, 1, d)[i] = F[i]
           /\ SubSeq(F, 1, d + 1) = Append(SubSeq(F, 1, d), F[d + 1])
<1> DEFINE A == SubSeq(F, 1, d)
           B == SubSeq(F, 1, d + 1)
<1>1. Len(F) \in Nat /\ \A i \in 1..Len(F) : F[i] \in S
  BY LenProperties, ElementOfSeq
<1>2. A \in Seq(S) /\ Len(A) = d /\ \A i \in 1..d : A[i] = F[i]
  <2>1. \A i \in 1..d : F[i] \in S
    BY <1>1
  <2>2. /\ A \in Seq(S) /\ Len(A) = IF 1 <= d THEN d - 1 + 1 ELSE 0
        /\ \A i \in 1..(d - 1 + 1) : A[i] = F[1 + i - 1]
    BY <2>1, SubSeqProperties
  <2> HIDE DEF A
  <2> QED BY <2>2
<1>3. B \in Seq(S) /\ Len(B) = d + 1 /\ \A i \in 1..(d + 1) : B[i] = F[i]
  <2>1. \A i \in 1..(d + 1) : F[i] \in S
    BY <1>1
  <2>2. /\ B \in Seq(S) /\ Len(B) = IF 1 <= d + 1 THEN (d + 1) - 1 + 1 ELSE 0
        /\ \A i \in 1..((d + 1) - 1 + 1) : B[i] = F[1 + i - 1]
    BY <2>1, SubSeqProperties
  <2> HIDE DEF B
  <2> QED BY <2>2
<1> HIDE DEF A, B
<1>4. F[d + 1] \in S
  BY <1>1
<1>5. /\ Append(A, F[d + 1]) \in Seq(S) /\ Len(Append(A, F[d + 1])) = d + 1
      /\ \A i \in 1..d : Append(A, F[d + 1])[i] = A[i]
      /\ Append(A, F[d + 1])[d + 1] = F[d + 1]
  <2>1. PICK x \in S : x = F[d + 1]
    BY <1>4
  <2>2. /\ Append(A, x) \in Seq(S) /\ Len(Append(A, x)) = Len(A) + 1
        /\ \A i \in 1..Len(A) : Append(A, x)[i] = A[i]
        /\ Append(A, x)[Len(A) + 1] = x
    BY <1>2, AppendProperties
  <2> QED BY <1>2, <2>1, <2>2
<1>6. \A i \in 1..(d + 1) : B[i] = Append(A, F[d + 1])[i]
  BY <1>2, <1>3, <1>5
<1>7. B = Append(A, F[d + 1])
  BY <1>3, <1>5, <1>6, SeqEqual
<1> QED BY <1>2, <1>7 DEF A, B

\* Frames lie above each other.
LEMMA ChainOrder ==
    ASSUME NEW m, NEW F, Chain(m, F)
    PROVE  \A d \in 1..Len(F) : F[d] \in Address /\ F[d] >= 2 /\ F[d] <= F[Len(F)]
<1> DEFINE n == Len(F)
<1>1. n \in Nat \ {0} /\ \A d \in 1..n : F[d] \in Address
  BY EmptySeq, LenProperties, ElementOfSeq DEF Chain
<1>2. F[1] = 2 /\ \A d \in 2..n : F[d - 1] + 3 <= F[d]
  BY DEF Chain
<1> HIDE DEF n
<1>3. \A d \in 1..n : F[d] >= 2
  <2> DEFINE U == {d \in Nat : d + 1 \in 1..n => F[d + 1] >= 2}
  <2>1. 0 \in U
    BY <1>2
  <2>2. ASSUME NEW d \in Nat, d \in U PROVE d + 1 \in U
    <3> SUFFICES ASSUME (d + 1) + 1 \in 1..n PROVE F[(d + 1) + 1] >= 2
      OBVIOUS
    <3>1. F[d + 1] >= 2 /\ F[d + 1] \in Address /\ F[(d + 1) + 1] \in Address
      BY <1>1, <2>2
    <3>2. F[d + 1] + 3 <= F[(d + 1) + 1]
      BY <1>2
    <3> QED BY <3>1, <3>2 DEF Address
  <2>3. Nat \subseteq U
    <3> HIDE DEF U
    <3> QED BY <2>1, <2>2, Induction
  <2>4. ASSUME NEW d \in 1..n PROVE F[d] >= 2
    <3>1. d - 1 \in Nat /\ (d - 1) + 1 = d
      BY <1>1
    <3> QED BY <2>3, <3>1
  <2> QED BY <2>4
<1>4. \A d \in 1..n : F[d] <= F[n]
  <2> DEFINE U == {k \in Nat : n - k \in 1..n => F[n - k] <= F[n]}
  <2>1. 0 \in U
    BY <1>1 DEF Address
  <2>2. ASSUME NEW k \in Nat, k \in U PROVE k + 1 \in U
    <3> SUFFICES ASSUME n - (k + 1) \in 1..n PROVE F[n - (k + 1)] <= F[n]
      OBVIOUS
    <3>1. n - k \in 2..n /\ (n - k) - 1 = n - (k + 1)
      BY <1>1
    <3>2. F[n - k] <= F[n] /\ F[n - (k + 1)] + 3 <= F[n - k]
      BY <1>2, <2>2, <3>1
    <3>3. F[n - k] \in Address /\ F[n - (k + 1)] \in Address /\ F[n] \in Address
      BY <1>1, <3>1
    <3> QED BY <3>2, <3>3 DEF Address
  <2>3. Nat \subseteq U
    <3> HIDE DEF U
    <3> QED BY <2>1, <2>2, Induction
  <2>4. ASSUME NEW d \in 1..n PROVE F[d] <= F[n]
    <3>1. n - d \in Nat /\ n - (n - d) = d
      BY <1>1
    <3> QED BY <2>3, <3>1
  <2> QED BY <2>4
<1> QED BY <1>1, <1>3, <1>4 DEF n

\* The frames that Frames finds from the top.
LEMMA ChainIsFrames ==
    ASSUME NEW m, NEW F, Chain(m, F)
    PROVE  FramesTo(m)[F[Len(F)]] = F
<1> DEFINE n == Len(F)
           T == FramesTo(m)
<1>1. F \in Seq(Address) /\ n \in Nat \ {0}
  BY EmptySeq, LenProperties DEF Chain
<1>2. \A d \in 1..n : F[d] \in Address /\ F[d] >= 2 /\ F[d] <= F[n]
  BY ChainOrder
<1>3. F[1] = 2 /\ \A d \in 2..n : F[d - 1] + 3 <= F[d] /\ m[F[d]] = FP(F[d - 1])
  BY DEF Chain, Saved
<1>4. \A a \in Address : T[a] = FrameTurn(m, T, a)
  BY FramesTurns
<1> HIDE DEF T
<1> DEFINE U == {d \in Nat : d + 1 <= n => T[F[d + 1]] = SubSeq(F, 1, d + 1)}
<1>5. 0 \in U
  <2>1. T[2] = <<2>>
    <3>1. 2 \in Address
      BY <1>1, <1>2, <1>3
    <3>2. T[2] = FrameTurn(m, T, 2)
      BY <1>4, <3>1
    <3>3. ~(2 > 2)
      OBVIOUS
    <3> QED BY <3>2, <3>3, Zenon DEF FrameTurn
  <2>2. SubSeq(F, 1, 1) = <<F[1]>>
    <3>1. SubSeq(F, 1, 0) = <<>>
      BY SubSeqEmpty
    <3>2. 0 \in 0..(Len(F) - 1)
      BY <1>1
    <3>3. SubSeq(F, 1, 0 + 1) = Append(SubSeq(F, 1, 0), F[0 + 1])
      BY <1>1, <3>2, Prefixes
    <3>4. 0 + 1 = 1
      OBVIOUS
    <3>5. SubSeq(F, 1, 1) = Append(<<>>, F[1])
      BY <3>1, <3>3, <3>4
    <3>6. Append(<<>>, F[1]) = <<F[1]>>
      OBVIOUS
    <3> QED BY <3>5, <3>6
  <2> QED BY <1>3, <2>1, <2>2
<1>6. ASSUME NEW d \in Nat, d \in U PROVE d + 1 \in U
  <2> SUFFICES ASSUME (d + 1) + 1 <= n PROVE T[F[(d + 1) + 1]] = SubSeq(F, 1, (d + 1) + 1)
    OBVIOUS
  <2> DEFINE e == d + 1
  <2>1. T[F[e]] = SubSeq(F, 1, e) /\ e \in 1..n /\ e + 1 \in 2..n /\ (e + 1) - 1 = e
    BY <1>1, <1>6
  <2> HIDE DEF e
  <2>2. /\ F[e] \in Address /\ F[e] >= 2 /\ F[e + 1] \in Address
        /\ F[e] + 3 <= F[e + 1] /\ m[F[e + 1]] = FP(F[e])
    BY <1>2, <1>3, <2>1
  <2>3. T[F[e + 1]] = Append(T[F[e]], F[e + 1])
    <3>1. T[F[e + 1]] = FrameTurn(m, T, F[e + 1])
      BY <1>4, <2>2
    <3>2. /\ F[e + 1] > 2 /\ m[F[e + 1]].k = "frame_pointer" /\ m[F[e + 1]].a = F[e]
          /\ F[e] \in 2..(F[e + 1] - 1)
      <4>1. m[F[e + 1]].k = "frame_pointer" /\ m[F[e + 1]].a = F[e]
        BY <2>2 DEF FP
      <4>2. F[e] \in Int /\ F[e + 1] \in Int
        BY <2>2 DEF Address
      <4> QED BY <2>2, <4>1, <4>2
    <3> QED BY <3>1, <3>2 DEF FrameTurn
  <2>4. SubSeq(F, 1, e + 1) = Append(SubSeq(F, 1, e), F[e + 1])
    <3>1. e \in 0..(Len(F) - 1)
      BY <1>1, <2>1
    <3> QED BY <1>1, <3>1, Prefixes
  <2> QED BY <2>1, <2>3, <2>4 DEF e
<1>7. T[F[n]] = SubSeq(F, 1, n)
  <2>1. n - 1 \in U
    <3>1. n - 1 \in Nat
      BY <1>1
    <3> HIDE DEF U
    <3> QED BY <1>5, <1>6, <3>1, Induction
  <2> QED BY <1>1, <2>1
<1>8. SubSeq(F, 1, n) = F
  BY <1>1, SubSeqFull
<1> QED BY <1>7, <1>8 DEF T

\* Frames are kept by whatever changes no word up to the header of the top one.
LEMMA ChainKept ==
    ASSUME NEW m, NEW m2, NEW F, Chain(m, F), F[Len(F)] + 1 \in Address,
           \A a \in Address : a <= F[Len(F)] + 1 => m2[a] = m[a]
    PROVE  Chain(m2, F)
<1>1. \A d \in 1..Len(F) : F[d] \in Address /\ F[d] >= 2 /\ F[d] <= F[Len(F)]
  BY ChainOrder
<1>2. Len(F) \in Nat \ {0}
  BY EmptySeq DEF Chain
<1>3. \A a \in 1..3 : a \in Address /\ a <= F[Len(F)] + 1
  <2>1. F[1] = 2 /\ F[1] <= F[Len(F)] /\ F[Len(F)] \in Int
    BY <1>1, <1>2 DEF Chain, Address
  <2> QED BY <2>1 DEF Address
<1>4. m2[1] = RA(Nowhere) /\ m2[2] = FP(0) /\ m2[3] = CL(0)
  <2>1. m2[1] = m[1] /\ m2[2] = m[2] /\ m2[3] = m[3]
    BY <1>3
  <2> QED BY <2>1 DEF Chain
<1>5. ASSUME NEW d \in 2..Len(F) PROVE F[d - 1] + 3 <= F[d] /\ Saved(m2, F[d - 1], F[d])
  <2>1. F[d - 1] + 3 <= F[d] /\ Saved(m, F[d - 1], F[d])
    BY DEF Chain
  <2>2. F[d] \in Int /\ F[d] >= 2 /\ F[d] <= F[Len(F)]
    BY <1>1, <1>2 DEF Address
  <2>3. F[Len(F)] \in Int
    BY <1>1, <1>2 DEF Address
  <2>4. \A a \in {F[d] - 1, F[d], F[d] + 1} : a \in Address /\ a <= F[Len(F)] + 1
    BY <2>2, <2>3 DEF Address
  <2>5. m2[F[d] - 1] = m[F[d] - 1] /\ m2[F[d]] = m[F[d]] /\ m2[F[d] + 1] = m[F[d] + 1]
    BY <2>4
  <2> QED BY <2>1, <2>5 DEF Saved
<1> QED BY <1>4, <1>5 DEF Chain

\* A call adds a frame, ...
LEMMA ChainPushed ==
    ASSUME NEW m, NEW F, Chain(m, F), NEW a \in Address,
           F[Len(F)] + 3 <= a, Saved(m, F[Len(F)], a)
    PROVE  /\ Chain(m, Append(F, a)) /\ Len(Append(F, a)) = Len(F) + 1
           /\ Append(F, a)[Len(F) + 1] = a
<1> DEFINE G == Append(F, a)
           n == Len(F)
<1>1. F \in Seq(Address) /\ n \in Nat \ {0}
  BY EmptySeq DEF Chain
<1>2. /\ G \in Seq(Address) /\ Len(G) = n + 1 /\ G[n + 1] = a
      /\ \A i \in 1..n : G[i] = F[i]
  BY <1>1, AppendProperties
<1> HIDE DEF G
<1>3. G # <<>>
  BY <1>1, <1>2, EmptySeq
<1>4. ASSUME NEW d \in 2..(n + 1) PROVE G[d - 1] + 3 <= G[d] /\ Saved(m, G[d - 1], G[d])
  <2>1. CASE d = n + 1
    BY <1>1, <1>2, <2>1
  <2>2. CASE d # n + 1
    <3>1. d \in 2..n /\ d \in 1..n /\ d - 1 \in 1..n
      BY <1>1, <2>2
    <3> QED BY <1>2, <3>1 DEF Chain
  <2> QED BY <2>1, <2>2
<1>5. G[1] = 2
  <2>1. F[1] = 2
    BY DEF Chain
  <2>2. 1 \in 1..n
    BY <1>1
  <2>3. G[1] = F[1]
    BY <1>2, <2>2
  <2> QED BY <2>1, <2>3
<1> QED BY <1>2, <1>3, <1>4, <1>5 DEF Chain, G

\* ... and a return takes the last one away.
LEMMA ChainPopped ==
    ASSUME NEW m, NEW F, Chain(m, F), Len(F) > 1
    PROVE  LET G == SubSeq(F, 1, Len(F) - 1)
           IN  Chain(m, G) /\ Len(G) = Len(F) - 1 /\ G[Len(G)] = F[Len(F) - 1]
<1> DEFINE n == Len(F)
           G == SubSeq(F, 1, n - 1)
<1>1. F \in Seq(Address) /\ n \in Nat \ {0} /\ n - 1 \in 0..(n - 1)
  BY EmptySeq DEF Chain
<1>2. G \in Seq(Address) /\ Len(G) = n - 1 /\ \A i \in 1..(n - 1) : G[i] = F[i]
  BY <1>1, Prefixes
<1> HIDE DEF G
<1>3. G # <<>>
  BY <1>1, <1>2, EmptySeq
<1>4. ASSUME NEW d \in 2..(n - 1) PROVE G[d - 1] + 3 <= G[d] /\ Saved(m, G[d - 1], G[d])
  <2>1. d \in 2..n /\ d \in 1..(n - 1) /\ d - 1 \in 1..(n - 1)
    BY <1>1
  <2> QED BY <1>2, <2>1 DEF Chain
<1>5. G[1] = 2 /\ G[n - 1] = F[n - 1]
  <2>1. F[1] = 2
    BY DEF Chain
  <2>2. 1 \in 1..(n - 1) /\ n - 1 \in 1..(n - 1)
    BY <1>1
  <2>3. G[1] = F[1] /\ G[n - 1] = F[n - 1]
    BY <1>2, <2>2
  <2> QED BY <2>1, <2>3
<1> QED BY <1>2, <1>3, <1>4, <1>5 DEF Chain, G

-----------------------------------------------------------------------------
(* The invariant, action by action. *)

\* What the invariant says while the machine runs.
LEMMA Running ==
    ASSUME IInv, at # "done"
    PROVE  /\ sp \in Nat /\ sp <= MaxWord /\ fp \in Nat /\ fp + 1 <= sp
           /\ fn \in LuaFn /\ NrLocals[fn] \in Nat \ {0} /\ fp + 1 + 2 * NrLocals[fn] <= MaxWord
           /\ DOMAIN mem = Address /\ Framed
BY DEF IInv, TypeOK, Address, Room

\* A step in a frame keeps the frames.
LEMMA FramedKept ==
    ASSUME IInv, at # "done", fp' = fp, \A a \in Address : a <= fp + 1 => mem'[a] = mem[a]
    PROVE  Framed'
<1>1. PICK F : Chain(mem, F) /\ F[Len(F)] = fp
  BY DEF IInv, Framed
<1>2. fp + 1 \in Address
  BY Running DEF Address
<1>3. Chain(mem', F)
  BY <1>1, <1>2, ChainKept
<1> QED BY <1>1, <1>3 DEF Framed, Chain, Saved

LEMMA InitIInv == Init => IInv
<1> SUFFICES ASSUME Init PROVE IInv
  OBVIOUS
<1> DEFINE F == <<2>>
<1>1. NrLocals[fn] \in Nat \ {0} /\ 3 + 2 * NrLocals[fn] <= MaxWord
  BY DEF Init
<1>2. F \in Seq(Address) /\ F # <<>> /\ Len(F) = 1 /\ F[1] = 2
  BY <1>1 DEF Address
<1>3. mem[1] = RA(Nowhere) /\ mem[2] = FP(0) /\ mem[3] = CL(0)
  <2>1. 1 \in Address /\ 2 \in Address /\ 3 \in Address
    BY <1>1 DEF Address
  <2> QED BY <2>1 DEF Init
<1>4. Chain(mem, F)
  BY <1>2, <1>3 DEF Chain
<1>5. Framed
  <2> HIDE DEF F
  <2> QED BY <1>2, <1>4 DEF Framed, Init
<1>6. TypeOK
  BY <1>1 DEF Init, TypeOK, Address, Dead, Site
<1> QED BY <1>1, <1>5, <1>6 DEF Init, IInv, Registers, Room

LEMMA SetLocalStep == IInv /\ SetLocal => IInv'
<1> SUFFICES ASSUME IInv, SetLocal PROVE IInv'
  OBVIOUS
<1>1. at = "body" /\ UNCHANGED <<sp, fp, ra, rarg, at, fn, pend>>
  BY DEF SetLocal
<1>2. DOMAIN mem' = Address /\ \A a \in Address : a <= fp + 1 => mem'[a] = mem[a]
  <2>1. PICK i \in 0..(NrLocals[fn] - 1), f \in LuaFn \cup CFn :
           mem' = [mem EXCEPT ![LocalAt(fp, i)] = Val(f), ![LocalAt(fp, i) + 1] = Typ(f)]
    BY DEF SetLocal
  <2>2. LocalAt(fp, i) > fp + 1
    BY <1>1, Running DEF LocalAt
  <2>3. DOMAIN mem = Address /\ fp \in Nat /\ LocalAt(fp, i) \in Nat
    BY <1>1, Running DEF LocalAt
  <2>4. PICK l \in Nat : l = LocalAt(fp, i)
    BY <2>3
  <2>5. mem' = [[mem EXCEPT ![l] = Val(f)] EXCEPT ![l + 1] = Typ(f)]
    BY <2>1, <2>4
  <2>6. \A a \in Address : a <= fp + 1 => a # l /\ a # l + 1
    <3>1. l > fp + 1 /\ fp \in Nat
      BY <2>2, <2>3, <2>4
    <3>2. \A a \in Address : a \in Int
      BY DEF Address
    <3> QED BY ONLY <3>1, <3>2, l \in Nat
  <2>7. PICK m : m = [mem EXCEPT ![l] = Val(f)]
    OBVIOUS
  <2>8. DOMAIN m = Address /\ mem' = [m EXCEPT ![l + 1] = Typ(f)]
        /\ \A a \in Address : a # l => m[a] = mem[a]
    BY <2>3, <2>5, <2>7
  <2>9. DOMAIN mem' = Address /\ \A a \in Address : a # l + 1 => mem'[a] = m[a]
    BY <2>8
  <2> QED BY <2>6, <2>8, <2>9
<1>3. Framed'
  BY <1>1, <1>2, FramedKept
<1> QED BY <1>1, <1>2, <1>3 DEF IInv, TypeOK, Registers, Room

LEMMA PreCallStep == IInv /\ PreCall => IInv'
<1> SUFFICES ASSUME IInv, PreCall PROVE IInv'
  OBVIOUS
<1>1. PICK c \in Calls[fn] :
         /\ IF pend = None THEN c.narg > 0 ELSE c.narg = 0 /\ c.base < pend
         /\ rarg' = [Dead EXCEPT
                        !.exist = IF c.narg > 0 THEN c.narg - 1 ELSE NrArgs(c.base),
                        !.src = LocalAt(fp, c.base)]
         /\ ra' = [fn |-> fn, base |-> c.base, nret |-> c.nret]
  BY DEF PreCall
<1>2. /\ at = "body" /\ at' = "prologue" /\ pend' = None
      /\ UNCHANGED <<mem, sp, fp, fn>>
  BY DEF PreCall
<1>3. /\ c.base \in 0..(NrLocals[fn] - 1) /\ c.narg \in Nat /\ c.nret \in Nat
      /\ c.base + c.nret <= NrLocals[fn] + 1
  BY <1>2, Running, CodeAssumption
<1>4. ra' \in CallSite /\ ra'.fn = fn /\ ra'.base = c.base
  BY <1>1, <1>2, <1>3, Running DEF CallSite
<1>5. LocalAt(fp, c.base) \in 0..MaxWord
  BY <1>2, <1>3, Running DEF LocalAt
<1>6. (IF c.narg > 0 THEN c.narg - 1 ELSE NrArgs(c.base)) \in Nat
  <2>1. CASE c.narg > 0
    BY <1>3, <2>1
  <2>2. CASE ~(c.narg > 0)
    <3>1. pend \in Nat /\ c.base < pend /\ fp + 2 + 2 * pend <= sp
      BY <1>1, <2>2 DEF IInv, TypeOK, Registers, LocalAt
    <3> DEFINE k == sp - (fp + 2 * (2 + c.base))
    <3>2. k \in Nat
      BY <1>2, <1>3, <3>1, Running
    <3> HIDE DEF k
    <3>3. k \div 2 \in Nat
      BY <3>2
    <3> QED BY <2>2, <3>3 DEF NrArgs, k
  <2> QED BY <2>1, <2>2
<1>7. rarg' \in [exist : Nat, src : 0..(MaxWord + 1), dst : Address, expect : Nat]
      /\ rarg'.src = LocalAt(fp, c.base)
  <2>1. LocalAt(fp, c.base) \in 0..(MaxWord + 1) /\ 0 \in Address
    BY <1>5 DEF Address
  <2> HIDE DEF NrArgs
  <2> QED BY <1>1, <1>6, <2>1 DEF Dead
<1>8. Framed'
  BY <1>2, FramedKept
<1>9. TypeOK'
  BY <1>2, <1>4, <1>7 DEF IInv, TypeOK, Site, CallSite
<1>10. Registers'
  BY <1>2, <1>4, <1>7 DEF Registers
<1> QED BY <1>2, <1>4, <1>8, <1>9, <1>10 DEF IInv, Room

\* The words of the header are above sp, and so above the frame's own header.
LEMMA HeaderWords ==
    ASSUME IInv, at # "done"
    PROVE  /\ DOMAIN Header = Address
           /\ \A a \in Address : a <= sp => Header[a] = mem[a]
           /\ sp + 3 <= MaxWord =>
                 Header[sp + 1] = RA(ra) /\ Header[sp + 2] = FP(fp) /\ Header[sp + 3] = CL(rarg.src)
<1>1. DOMAIN mem = Address /\ sp \in Nat
  BY Running
<1>2. PICK x, y, z : x = sp + 1 /\ y = sp + 2 /\ z = sp + 3
  OBVIOUS
<1>3. Header = [[[mem EXCEPT ![x] = RA(ra)] EXCEPT ![y] = FP(fp)] EXCEPT ![z] = CL(rarg.src)]
  BY <1>2 DEF Header
<1>4. DOMAIN Header = Address
  BY <1>1, <1>3
<1>5. \A a \in Address : a # x /\ a # y /\ a # z => Header[a] = mem[a]
  BY <1>1, <1>3
<1>6. \A a \in Address : a <= sp => a # x /\ a # y /\ a # z
  BY <1>1, <1>2 DEF Address
<1>7. x # y /\ y # z /\ x # z
  BY <1>1, <1>2
<1>8. ASSUME sp + 3 <= MaxWord
      PROVE  Header[x] = RA(ra) /\ Header[y] = FP(fp) /\ Header[z] = CL(rarg.src)
  <2>1. x \in Address /\ y \in Address /\ z \in Address
    BY <1>1, <1>2, <1>8 DEF Address
  <2> QED BY <1>1, <1>3, <1>7, <2>1
<1> QED BY <1>2, <1>4, <1>5, <1>6, <1>8

\* A call that goes wrong in either way.
Stopping(where, m) ==
    /\ at' = where
    /\ mem' = m
    /\ UNCHANGED <<sp, fp, ra, rarg, fn, pend>>

LEMMA StoppingWays ==
    /\ \A m : Astray(m) => Stopping("astray", m)
    /\ Aborts => Stopping("aborted", mem)
BY DEF Astray, Aborts, Stopping

\* A machine that has lost its way still has its frames.
LEMMA AstrayStep ==
    ASSUME IInv, at # "done", NEW where \in {"astray", "aborted"}, NEW m, Stopping(where, m),
           DOMAIN m = Address, \A a \in Address : a <= sp => m[a] = mem[a], pend = None
    PROVE  IInv'
<1>1. /\ at' = where /\ mem' = m
      /\ UNCHANGED <<sp, fp, ra, rarg, fn, pend>>
  BY DEF Stopping
<1>2. \A a \in Address : a <= fp + 1 => mem'[a] = mem[a]
  BY <1>1, Running DEF Address
<1>3. Framed'
  BY <1>1, <1>2, FramedKept
<1> QED BY <1>1, <1>3 DEF IInv, TypeOK, Registers, Room

\* The header of a call is the header of a new frame.
LEMMA FramePushed ==
    ASSUME IInv, at = "prologue", sp + 3 <= MaxWord, mem' = Header,
           NEW F, Chain(mem, F), F[Len(F)] = fp
    PROVE  /\ Chain(mem', Append(F, sp + 2))
           /\ Len(Append(F, sp + 2)) = Len(F) + 1 /\ Append(F, sp + 2)[Len(F) + 1] = sp + 2
           /\ \A d \in 1..Len(F) : Append(F, sp + 2)[d] = F[d]
<1>1. ra \in CallSite /\ ra.fn = fn /\ rarg.src = LocalAt(fp, ra.base)
  BY DEF IInv, Registers
<1>2. /\ sp \in Nat /\ fp \in Nat /\ fp + 1 <= sp
      /\ NrLocals[fn] \in Nat \ {0} /\ fp + 1 + 2 * NrLocals[fn] <= MaxWord
  BY Running
<1>3. Chain(mem', F)
  <2>1. fp + 1 \in Address
    BY <1>2 DEF Address
  <2>2. \A a \in Address : a <= fp + 1 => mem'[a] = mem[a]
    <3> SUFFICES ASSUME NEW a \in Address, a <= fp + 1 PROVE Header[a] = mem[a]
      OBVIOUS
    <3>1. a <= sp
      BY <1>2 DEF Address
    <3> QED BY <3>1, HeaderWords
  <2> QED BY <2>1, <2>2, ChainKept
<1>4. Saved(mem', fp, sp + 2)
  <2>1. mem'[sp + 1] = RA(ra) /\ mem'[sp + 2] = FP(fp) /\ mem'[sp + 3] = CL(rarg.src)
    BY HeaderWords
  <2>2. (sp + 2) - 1 = sp + 1 /\ (sp + 2) + 1 = sp + 3
    BY <1>2
  <2>3. RA(ra).site = ra
    BY DEF RA
  <2>4. Room(fp, ra.fn)
    BY <1>1, <1>2 DEF Room
  <2> QED BY <1>1, <2>1, <2>2, <2>3, <2>4 DEF Saved
<1>5. sp + 2 \in Address /\ fp + 3 <= sp + 2
  BY <1>2 DEF Address
<1>6. F \in Seq(Address)
  BY DEF Chain
<1>7. \A d \in 1..Len(F) : Append(F, sp + 2)[d] = F[d]
  BY <1>5, <1>6, AppendProperties
<1> QED BY <1>3, <1>4, <1>5, <1>7, ChainPushed

LEMMA LuaProStep == IInv /\ LuaPro => IInv'
<1> SUFFICES ASSUME IInv, LuaPro PROVE IInv'
  OBVIOUS
<1>1. at = "prologue" /\ sp + 3 <= MaxWord
  BY DEF LuaPro
<1>2. ra \in CallSite /\ ra.fn = fn /\ rarg.src = LocalAt(fp, ra.base) /\ pend = None
  BY <1>1 DEF IInv, Registers
<1>3. CASE Header[rarg.src] \notin {Val(f) : f \in LuaFn}
  <2>1. Stopping("astray", Header)
    BY <1>3, StoppingWays DEF LuaPro
  <2> QED BY <1>1, <1>2, <2>1, HeaderWords, AstrayStep
<1>4. CASE Header[rarg.src] \in {Val(f) : f \in LuaFn}
  <2> DEFINE callee == Header[rarg.src].v
  <2>1. /\ sp + 3 + 2 * NrLocals[callee] <= MaxWord
        /\ mem' = Header /\ fp' = sp + 2 /\ sp' = sp + 3
        /\ rarg' = [rarg EXCEPT !.src = rarg.src + 2, !.dst = LocalAt(sp + 2, 0)]
        /\ fn' = callee /\ at' = "enter" /\ UNCHANGED <<ra, pend>>
    BY <1>4 DEF LuaPro
  <2>2. callee \in LuaFn
    <3>1. PICK f \in LuaFn : Header[rarg.src] = Val(f)
      BY <1>4
    <3>2. Val(f).v = f
      BY DEF Val
    <3> QED BY <3>1, <3>2
  <2> HIDE DEF callee
  <2>3. NrLocals[callee] \in Nat \ {0}
    BY <2>2
  <2>4. /\ sp \in Nat /\ fp \in Nat /\ fp + 1 <= sp
        /\ NrLocals[fn] \in Nat \ {0} /\ fp + 1 + 2 * NrLocals[fn] <= MaxWord
    BY <1>1, Running
  <2>5. Framed'
    <3>1. PICK F : Chain(mem, F) /\ F[Len(F)] = fp
      BY <1>1, Running DEF Framed
    <3> DEFINE G == Append(F, sp + 2)
    <3>5. Chain(mem', G) /\ G[Len(G)] = sp + 2
      <4>1. /\ Chain(mem', G) /\ Len(G) = Len(F) + 1 /\ G[Len(F) + 1] = sp + 2
        BY <1>1, <2>1, <3>1, FramePushed
      <4> HIDE DEF G
      <4> QED BY <4>1
    <3> HIDE DEF G
    <3> QED BY <2>1, <3>5 DEF Framed, Chain, Saved
  <2>6. TypeOK'
    <3>1. rarg.src \in Nat /\ rarg.src + 2 \in 0..(MaxWord + 1) /\ LocalAt(sp + 2, 0) \in Address
      <4>1. PICK b \in Nat : b = ra.base /\ b < NrLocals[fn]
        BY <1>2 DEF CallSite
      <4>2. rarg.src = fp + 2 + 2 * b
        BY <1>2, <4>1 DEF LocalAt
      <4> QED BY <2>1, <2>3, <2>4, <4>1, <4>2 DEF LocalAt, Address
    <3>2. rarg \in [exist : Nat, src : 0..(MaxWord + 1), dst : Address, expect : Nat]
      BY DEF IInv, TypeOK
    <3>3. rarg' \in [exist : Nat, src : 0..(MaxWord + 1), dst : Address, expect : Nat]
      BY <2>1, <3>1, <3>2
    <3>4. sp' \in Address /\ fp' \in Address
      BY <1>1, <2>1, <2>4 DEF Address
    <3>5. DOMAIN mem' = Address
      BY <1>1, <2>1, HeaderWords
    <3> QED BY <2>1, <2>2, <3>3, <3>4, <3>5 DEF IInv, TypeOK
  <2>7. Registers'
    <3>1. rarg'.dst = LocalAt(fp', 0)
      BY <2>1 DEF IInv, TypeOK
    <3> QED BY <1>2, <2>1, <2>4, <3>1 DEF Registers
  <2>8. Room(fp, fn)'
    BY <2>1, <2>3, <2>4 DEF Room
  <2>9. (fp + 1 <= sp)'
    BY <2>1, <2>4
  <2> QED BY <1>2, <2>1, <2>2, <2>5, <2>6, <2>7, <2>8, <2>9 DEF IInv
<1> QED BY <1>3, <1>4

\* The arguments are copied above the header.
LEMMA PrologueWords ==
    ASSUME IInv, Prologue
    PROVE  DOMAIN mem' = Address /\ \A a \in Address : a <= fp + 1 => mem'[a] = mem[a]
<1>1. at = "enter"
  BY DEF Prologue
<1>2. rarg.dst = LocalAt(fp, 0)
  BY <1>1 DEF IInv, Registers
<1>3. CASE NrParams[fn] = 0
  BY <1>1, <1>3, Running DEF Prologue
<1>4. CASE NrParams[fn] # 0
  <2> DEFINE r == [rarg EXCEPT !.expect = NrParams[fn]]
  <2>1. mem' = ArgResCpy(mem, r)
    BY <1>4 DEF Prologue
  <2>2. NrParams[fn] \in Nat
    BY <1>1, Running
  <2>3. r \in [exist : Nat, src : Nat, dst : Nat, expect : Nat] /\ r.dst = fp + 2
    <3>1. rarg \in [exist : Nat, src : Nat, dst : Nat, expect : Nat]
      BY DEF IInv, TypeOK, Address
    <3>2. rarg.dst = fp + 2
      BY <1>1, <1>2, Running DEF LocalAt
    <3> QED BY <2>2, <3>1, <3>2
  <2> HIDE DEF r
  <2>4. DOMAIN mem = Address /\ fp \in Nat
    BY <1>1, Running
  <2>5. /\ DOMAIN ArgResCpy(mem, r) = Address
        /\ \A a \in Address : a < r.dst => ArgResCpy(mem, r)[a] = mem[a]
    BY <2>3, <2>4, ArgResCopied
  <2>6. \A a \in Address : a <= fp + 1 => a < r.dst
    BY <2>3, <2>4 DEF Address
  <2> QED BY <2>1, <2>5, <2>6
<1> QED BY <1>3, <1>4

LEMMA PrologueStep == IInv /\ Prologue => IInv'
<1> SUFFICES ASSUME IInv, Prologue PROVE IInv'
  OBVIOUS
<1>1. /\ at = "enter" /\ at' = "body" /\ ra' = Nowhere /\ rarg' = Dead
      /\ sp' = sp + 2 * NrLocals[fn]
      /\ UNCHANGED <<fp, fn, pend>>
  BY DEF Prologue
<1>2. rarg.dst = LocalAt(fp, 0) /\ sp = fp + 1 /\ pend = None
  BY <1>1 DEF IInv, Registers
<1>3. DOMAIN mem' = Address /\ \A a \in Address : a <= fp + 1 => mem'[a] = mem[a]
  BY PrologueWords
<1>4. Framed'
  BY <1>1, <1>3, FramedKept
<1>5. sp' \in Address /\ (fp + 1 <= sp)'
  BY <1>1, <1>2, Running DEF Address
<1>6. TypeOK'
  BY <1>1, <1>3, <1>5 DEF IInv, TypeOK, Dead, Site, Address
<1> QED BY <1>1, <1>2, <1>4, <1>5, <1>6 DEF IInv, Registers, Room

\* What a C function leaves is above sp.
LEMMA AfterCWords ==
    ASSUME IInv, at = "prologue", NEW n \in Nat, NEW res
    PROVE  /\ DOMAIN AfterC(n, res) = Address
           /\ \A a \in Address : a <= sp => AfterC(n, res)[a] = mem[a]
<1>1. DOMAIN AfterC(n, res) = Address
  BY DEF AfterC
<1>2. ASSUME NEW a \in Address, a <= sp PROVE AfterC(n, res)[a] = mem[a]
  <2>1. sp \in Nat /\ a \in Int /\ ~(a > sp)
    BY <1>2, Running DEF Address
  <2>2. a # sp + 1 /\ a # sp + 2 /\ a \notin CResults..(CResults + 2 * n - 1)
    BY <1>2, <2>1 DEF CResults
  <2>3. AfterC(n, res)[a] = Clobbered(mem, sp)[a]
    BY <2>2 DEF AfterC
  <2> QED BY <2>1, <2>3 DEF Clobbered
<1> QED BY <1>1, <1>2

LEMMA CProStep == IInv /\ CPro => IInv'
<1> SUFFICES ASSUME IInv, CPro PROVE IInv'
  OBVIOUS
<1>1. at = "prologue" /\ sp + 4 + 2 * MaxResults - 1 <= MaxWord
  BY DEF CPro, CResults
<1>2. ra \in CallSite /\ ra.fn = fn /\ rarg.src = LocalAt(fp, ra.base) /\ pend = None
  BY <1>1 DEF IInv, Registers
<1>3. CASE Stopping("astray", mem) \/ Stopping("aborted", mem)
  BY <1>1, <1>2, <1>3, Running, AstrayStep
<1>4. CASE /\ ~Stopping("astray", mem) /\ ~Stopping("aborted", mem)
  <2>1. PICK n \in 0..MaxResults :
           /\ DOMAIN mem' = Address
           /\ \A a \in Address : a <= sp => mem'[a] = mem[a]
           /\ rarg' = [rarg EXCEPT !.exist = n, !.src = CResults, !.dst = rarg.src]
           /\ at' = "postcall" /\ UNCHANGED <<sp, fp, ra, fn, pend>>
    <3>1. PICK n \in 0..MaxResults : \E res \in [1..n -> LuaFn \cup CFn] :
             /\ mem' = AfterC(n, res)
             /\ rarg' = [rarg EXCEPT !.exist = n, !.src = CResults, !.dst = rarg.src]
             /\ at' = "postcall"
             /\ UNCHANGED <<sp, fp, ra, fn, pend>>
      BY <1>4, StoppingWays DEF CPro
    <3>2. PICK res : mem' = AfterC(n, res)
      BY <3>1
    <3>3. n \in Nat
      OBVIOUS
    <3>4. /\ DOMAIN AfterC(n, res) = Address
          /\ \A a \in Address : a <= sp => AfterC(n, res)[a] = mem[a]
      BY <1>1, <3>3, AfterCWords
    <3> QED BY <3>1, <3>2, <3>4
  <2>2. \A a \in Address : a <= fp + 1 => mem'[a] = mem[a]
    <3>1. sp \in Nat /\ fp \in Nat /\ fp + 1 <= sp
      BY <1>1, Running
    <3>2. \A a \in Address : a <= fp + 1 => a <= sp
      BY <3>1 DEF Address
    <3> QED BY <2>1, <3>2
  <2>3. Framed'
    BY <1>1, <2>1, <2>2, FramedKept
  <2>4. rarg' \in [exist : Nat, src : 0..(MaxWord + 1), dst : Address, expect : Nat]
        /\ rarg'.dst = LocalAt(fp, ra.base)
    <3>1. rarg.src \in Address
      <4>1. /\ fp \in Nat /\ NrLocals[fn] \in Nat /\ fp + 1 + 2 * NrLocals[fn] <= MaxWord
        BY <1>1, Running
      <4>2. PICK b \in Nat : b = ra.base /\ b < NrLocals[fn]
        BY <1>2 DEF CallSite
      <4>3. rarg.src = fp + 2 + 2 * b
        BY <1>2, <4>2 DEF LocalAt
      <4>4. fp + 2 + 2 * b \in 0..MaxWord
        BY <4>1, <4>2
      <4> QED BY <4>3, <4>4 DEF Address
    <3>2. CResults \in 0..(MaxWord + 1)
      BY <1>1, Running DEF CResults
    <3>3. rarg \in [exist : Nat, src : 0..(MaxWord + 1), dst : Address, expect : Nat]
      BY DEF IInv, TypeOK
    <3>4. n \in Nat
      OBVIOUS
    <3>5. PICK c \in 0..(MaxWord + 1), d \in Address :
             c = CResults /\ d = rarg.src /\ d = LocalAt(fp, ra.base)
      BY <1>2, <3>1, <3>2
    <3>6. rarg' = [rarg EXCEPT !.exist = n, !.src = c, !.dst = d]
      BY <2>1, <3>5
    <3> QED BY <2>1, <3>3, <3>4, <3>5, <3>6
  <2>5. TypeOK'
    BY <2>1, <2>4 DEF IInv, TypeOK
  <2>6. Registers'
    BY <1>2, <2>1, <2>4 DEF Registers
  <2> QED BY <1>1, <1>2, <2>1, <2>3, <2>5, <2>6 DEF IInv, Room
<1> QED BY <1>3, <1>4

LEMMA RetStep == IInv /\ Ret => IInv'
<1> SUFFICES ASSUME IInv, Ret PROVE IInv'
  OBVIOUS
<1>1. PICK r \in Returns[fn] :
         /\ IF pend = None THEN r.nret > 0 ELSE r.nret = 0 /\ r.base <= pend
         /\ rarg' = [Dead EXCEPT
                        !.exist = IF r.nret > 0 THEN r.nret - 1
                                  ELSE (sp - LocalAt(fp, r.base)) \div 2,
                        !.src = LocalAt(fp, r.base)]
  BY DEF Ret
<1>2. /\ at = "body" /\ at' = "epilogue" /\ pend' = None
      /\ UNCHANGED <<mem, sp, fp, ra, fn>>
  BY DEF Ret
<1>3. r.base \in 0..NrLocals[fn] /\ r.nret \in Nat
  BY <1>2, Running, CodeAssumption
<1>4. LocalAt(fp, r.base) \in 0..(MaxWord + 1)
  BY <1>2, <1>3, Running DEF LocalAt
<1>5. (IF r.nret > 0 THEN r.nret - 1 ELSE (sp - LocalAt(fp, r.base)) \div 2) \in Nat
  <2>1. CASE r.nret > 0
    BY <1>3, <2>1
  <2>2. CASE ~(r.nret > 0)
    <3>1. pend \in Nat /\ r.base <= pend /\ fp + 2 + 2 * pend <= sp
      BY <1>1, <2>2 DEF IInv, TypeOK, Registers, LocalAt
    <3> DEFINE k == sp - LocalAt(fp, r.base)
    <3>2. k \in Nat
      BY <1>2, <1>3, <3>1, Running DEF LocalAt
    <3> HIDE DEF k
    <3>3. (k \div 2) \in Nat
      BY <3>2
    <3> QED BY <2>2, <3>3 DEF k
  <2> QED BY <2>1, <2>2
<1>6. rarg' \in [exist : Nat, src : 0..(MaxWord + 1), dst : Address, expect : Nat]
  <2>1. 0 \in Address
    BY DEF Address
  <2> QED BY <1>1, <1>4, <1>5, <2>1 DEF Dead
<1>7. Framed'
  BY <1>2, FramedKept
<1>8. TypeOK'
  BY <1>2, <1>6 DEF IInv, TypeOK
<1> QED BY <1>2, <1>7, <1>8 DEF IInv, Registers, Room

\* What closure_close may leave is above sp.
LEMMA EpilogueWords ==
    ASSUME IInv, at = "epilogue", mem' = Clobbered(mem, sp)
    PROVE  DOMAIN mem' = Address /\ \A a \in Address : a <= sp => mem'[a] = mem[a]
<1>1. sp \in Nat
  BY Running
<1>2. \A a \in Address : a \in Int
  BY DEF Address
<1> QED BY <1>1, <1>2 DEF Clobbered

\* The last of the frames F is taken away and leaves G: it was called from site s.
Popped(F, G, below, s) ==
    /\ below >= 2 /\ below + 3 <= fp
    /\ mem[fp - 1] = RA(s) /\ mem[fp + 1] = CL(LocalAt(below, s.base)) /\ Room(below, s.fn)
    /\ Chain(mem, G) /\ Chain(mem', G) /\ Len(G) = Len(F) - 1 /\ G[Len(G)] = below
    /\ \A d \in 1..Len(G) : G[d] = F[d]
    /\ sp' = fp - 2 /\ fp' = below /\ ra' = s /\ fn' = s.fn /\ at' = "postcall"
    /\ rarg' = [rarg EXCEPT !.dst = LocalAt(below, s.base)]

\* A return that is not the main chunk's takes the last frame away.
LEMMA FramePopped ==
    ASSUME IInv, Epilogue, NEW F, Chain(mem, F), F[Len(F)] = fp, Len(F) > 1
    PROVE  \E below \in Nat, s \in CallSite : \E G : Popped(F, G, below, s)
<1>1. /\ at = "epilogue" /\ mem' = Clobbered(mem, sp)
      /\ sp' = fp - 2 /\ fp' = mem[fp].a /\ ra' = mem[fp - 1].site
      /\ rarg' = [rarg EXCEPT !.dst = mem[fp + 1].a]
      /\ fn' = mem[fp - 1].site.fn
      /\ at' = IF mem[fp - 1].site = Nowhere THEN "done" ELSE "postcall"
  BY DEF Epilogue, PoppedSp
<1>2. sp \in Nat /\ sp <= MaxWord /\ fp \in Nat /\ fp + 1 <= sp
  BY <1>1, Running
<1>3. \A a \in Address : a <= sp => mem'[a] = mem[a]
  BY <1>1, EpilogueWords
<1>4. F \in Seq(Address) /\ Len(F) \in 2..Len(F) /\ Len(F) - 1 \in 1..Len(F)
      /\ Len(F) - 1 \in 0..(Len(F) - 1) /\ Len(F) \in Nat
  <2>1. Len(F) \in Nat /\ F \in Seq(Address)
    BY EmptySeq DEF Chain
  <2> QED BY <2>1
<1>5. PICK below \in Nat : below = F[Len(F) - 1] /\ below >= 2 /\ below + 3 <= fp
  <2>1. F[Len(F) - 1] \in Address /\ F[Len(F) - 1] >= 2
    BY <1>4, ChainOrder
  <2>2. F[Len(F) - 1] + 3 <= F[Len(F)]
    BY <1>4 DEF Chain
  <2> QED BY <2>1, <2>2 DEF Address
<1>6. Saved(mem, below, fp)
  BY <1>4, <1>5 DEF Chain
<1>7. PICK G : G = SubSeq(F, 1, Len(F) - 1)
  OBVIOUS
<1>8. Chain(mem, G) /\ Len(G) = Len(F) - 1 /\ G[Len(G)] = below
  BY <1>5, <1>7, ChainPopped
<1>9. \A d \in 1..Len(G) : G[d] = F[d]
  BY <1>4, <1>7, <1>8, Prefixes
<1>10. PICK s \in CallSite : /\ mem[fp] = FP(below) /\ mem[fp - 1] = RA(s)
                             /\ mem[fp + 1] = CL(LocalAt(below, s.base)) /\ Room(below, s.fn)
  BY <1>6 DEF Saved
<1>11. RA(s).site = s /\ FP(below).a = below
       /\ CL(LocalAt(below, s.base)).a = LocalAt(below, s.base)
  BY DEF RA, FP, CL
<1>12. s # Nowhere
  BY DEF CallSite, Nowhere
<1>13. /\ sp' = fp - 2 /\ fp' = below /\ ra' = s /\ fn' = s.fn /\ at' = "postcall"
       /\ rarg' = [rarg EXCEPT !.dst = LocalAt(below, s.base)]
  BY <1>1, <1>10, <1>11, <1>12
<1>14. Chain(mem', G)
  <2>1. below + 1 \in Address /\ \A a \in Address : a <= below + 1 => a <= sp
    BY <1>2, <1>5 DEF Address
  <2>2. \A a \in Address : a <= below + 1 => mem'[a] = mem[a]
    BY <1>3, <2>1
  <2> QED BY <1>8, <2>1, <2>2, ChainKept
<1> QED BY <1>5, <1>8, <1>9, <1>10, <1>13, <1>14 DEF Popped

LEMMA EpilogueStep == IInv /\ Epilogue => IInv'
<1> SUFFICES ASSUME IInv, Epilogue PROVE IInv'
  OBVIOUS
<1>1. /\ at = "epilogue" /\ mem' = Clobbered(mem, sp)
      /\ sp' = fp - 2 /\ fp' = mem[fp].a /\ ra' = mem[fp - 1].site
      /\ rarg' = [rarg EXCEPT !.dst = mem[fp + 1].a]
      /\ fn' = mem[fp - 1].site.fn
      /\ at' = IF mem[fp - 1].site = Nowhere THEN "done" ELSE "postcall"
      /\ pend' = pend
  BY DEF Epilogue, PoppedSp
<1>2. pend = None
  BY <1>1 DEF IInv, Registers
<1>3. PICK F : Chain(mem, F) /\ F[Len(F)] = fp
  BY <1>1, Running DEF Framed
<1>4. sp \in Nat /\ sp <= MaxWord /\ fp \in Nat /\ fp + 1 <= sp
  BY <1>1, Running
<1>5. DOMAIN mem' = Address /\ \A a \in Address : a <= sp => mem'[a] = mem[a]
  <2>1. \A a \in Address : a \in Int
    BY DEF Address
  <2> QED BY <1>1, <1>4, <2>1 DEF Clobbered
<1>6. rarg \in [exist : Nat, src : 0..(MaxWord + 1), dst : Address, expect : Nat]
  BY DEF IInv, TypeOK
<1>7. Len(F) \in Nat \ {0} /\ \A d \in 1..Len(F) : F[d] \in Address /\ F[d] >= 2
  BY <1>3, EmptySeq, ChainOrder DEF Chain
<1>8. CASE Len(F) = 1
  <2>1. fp = 2 /\ mem[1] = RA(Nowhere) /\ mem[2] = FP(0) /\ mem[3] = CL(0)
    BY <1>3, <1>8 DEF Chain
  <2>2. RA(Nowhere).site = Nowhere /\ FP(0).a = 0 /\ CL(0).a = 0 /\ Nowhere.fn = None
    BY DEF RA, FP, CL, Nowhere
  <2>3. fp - 1 = 1 /\ fp + 1 = 3 /\ fp - 2 = 0
    BY <2>1
  <2>4. /\ sp' = 0 /\ fp' = 0 /\ ra' = Nowhere /\ fn' = None /\ at' = "done"
        /\ rarg' = [rarg EXCEPT !.dst = 0]
    BY <1>1, <2>1, <2>2, <2>3
  <2>5. 0 \in Address
    BY DEF Address
  <2>6. rarg' \in [exist : Nat, src : 0..(MaxWord + 1), dst : Address, expect : Nat]
    BY <1>6, <2>4, <2>5
  <2> QED BY <1>1, <1>2, <1>5, <2>4, <2>5, <2>6 DEF IInv, TypeOK, Registers, Site
<1>9. CASE Len(F) > 1
  <2>0. PICK below \in Nat, s \in CallSite : \E G : Popped(F, G, below, s)
    BY <1>3, <1>9, FramePopped
  <2>1. PICK G : Popped(F, G, below, s)
    BY <2>0
  <2>2. /\ below >= 2 /\ below + 3 <= fp /\ Room(below, s.fn)
        /\ Chain(mem', G) /\ G[Len(G)] = below
        /\ sp' = fp - 2 /\ fp' = below /\ ra' = s /\ fn' = s.fn /\ at' = "postcall"
        /\ rarg' = [rarg EXCEPT !.dst = LocalAt(below, s.base)]
    BY <2>1 DEF Popped
  <2>3. s # Nowhere /\ s.fn \in LuaFn /\ s.base \in Nat /\ s.base < NrLocals[s.fn]
    BY DEF CallSite, Nowhere
  <2>4. LocalAt(below, s.base) \in Address /\ below \in Address /\ fp - 2 \in Address
        /\ below + 1 <= fp - 2
    <3>1. below + 1 + 2 * NrLocals[s.fn] <= MaxWord /\ NrLocals[s.fn] \in Nat
      BY <2>2, <2>3 DEF Room
    <3>2. below + 2 + 2 * s.base \in 0..MaxWord
      BY <2>3, <3>1
    <3>3. fp - 2 \in 0..MaxWord /\ below \in 0..MaxWord /\ below + 1 <= fp - 2
      BY <1>4, <2>2
    <3> QED BY <3>2, <3>3 DEF LocalAt, Address
  <2>5. Framed'
    BY <2>2 DEF Framed, Chain, Saved
  <2>6. rarg' \in [exist : Nat, src : 0..(MaxWord + 1), dst : Address, expect : Nat]
        /\ rarg'.dst = LocalAt(below, s.base)
    BY <1>6, <2>2, <2>4
  <2>7. TypeOK'
    BY <1>1, <1>2, <1>5, <2>3, <2>2, <2>4, <2>6 DEF TypeOK, Site, CallSite
  <2>8. Registers'
    BY <1>1, <1>2, <2>2, <2>6 DEF Registers
  <2> QED BY <2>2, <2>3, <2>4, <2>5, <2>7, <2>8 DEF IInv, Room
<1>10. Len(F) = 1 \/ Len(F) > 1
  <2>1. \A k \in Nat \ {0} : k = 1 \/ k > 1
    OBVIOUS
  <2> QED BY <1>7, <2>1, Zenon
<1> QED BY <1>8, <1>9, <1>10

\* What the results are copied by, after a call.
LEMMA PostCallCopies ==
    ASSUME IInv, at = "postcall", NEW m, DOMAIN m = Address,
           \A a \in Address : a <= fp + 1 => m[a] = mem[a], NEW e \in Nat
    PROVE  LET r == [rarg EXCEPT !.expect = e]
           IN  /\ DOMAIN ArgResCpy(m, r) = Address
               /\ \A a \in Address : a <= fp + 1 => ArgResCpy(m, r)[a] = mem[a]
               /\ DstAfter(r) \in Nat /\ DstAfter(r) >= LocalAt(fp, ra.base)
               /\ LocalAt(fp, ra.base) >= fp + 2
<1> DEFINE r == [rarg EXCEPT !.expect = e]
           n == Least(r.exist, r.expect)
<1>1. ra \in CallSite /\ rarg.dst = LocalAt(fp, ra.base)
  BY DEF IInv, Registers
<1>2. rarg \in [exist : Nat, src : Nat, dst : Nat, expect : Nat]
  BY DEF IInv, TypeOK, Address
<1>3. r \in [exist : Nat, src : Nat, dst : Nat, expect : Nat] /\ r.dst = LocalAt(fp, ra.base)
  BY <1>1, <1>2
<1>4. fp \in Nat /\ ra.base \in Nat /\ LocalAt(fp, ra.base) >= fp + 2
      /\ LocalAt(fp, ra.base) \in Nat
  BY <1>1, Running DEF LocalAt, CallSite
<1> HIDE DEF r, n
<1>5. /\ n \in Nat
      /\ DOMAIN ArgResCpy(m, r) = Address
      /\ \A a \in Address : a < r.dst => ArgResCpy(m, r)[a] = m[a]
      /\ DstAfter(r) = r.dst + 2 * n
  BY <1>3, ArgResCopied DEF n
<1>6. \A a \in Address : a <= fp + 1 => a < r.dst
  BY <1>3, <1>4 DEF Address
<1>7. DstAfter(r) \in Nat /\ DstAfter(r) >= LocalAt(fp, ra.base)
  BY <1>3, <1>4, <1>5
<1> QED BY <1>4, <1>5, <1>6, <1>7 DEF r

LEMMA PostCallFixedStep == IInv /\ PostCallFixed => IInv'
<1> SUFFICES ASSUME IInv, PostCallFixed PROVE IInv'
  OBVIOUS
<1>1. /\ at = "postcall" /\ ra.nret > 0
      /\ mem' = ArgResCpy(mem, [rarg EXCEPT !.expect = ra.nret - 1])
      /\ at' = "body" /\ ra' = Nowhere /\ rarg' = Dead
      /\ UNCHANGED <<sp, fp, fn, pend>>
  BY DEF PostCallFixed
<1>2. ra \in CallSite /\ pend = None
  BY <1>1 DEF IInv, Registers
<1>3. ra.nret - 1 \in Nat
  BY <1>1, <1>2 DEF CallSite
<1>4. DOMAIN mem' = Address /\ \A a \in Address : a <= fp + 1 => mem'[a] = mem[a]
  <2>1. DOMAIN mem = Address
    BY <1>1, Running
  <2> QED BY <1>1, <1>3, <2>1, PostCallCopies
<1>5. Framed'
  BY <1>1, <1>4, FramedKept
<1>6. TypeOK'
  BY <1>1, <1>4 DEF IInv, TypeOK, Dead, Site, Address
<1> QED BY <1>1, <1>2, <1>5, <1>6 DEF IInv, Registers, Room

LEMMA PostCallOpenStep == IInv /\ PostCallOpen => IInv'
<1> SUFFICES ASSUME IInv, PostCallOpen PROVE IInv'
  OBVIOUS
<1> DEFINE r == [rarg EXCEPT !.expect = rarg.exist]
           m == [mem EXCEPT ![sp + 1] = RA(ra)]
<1>1. /\ at = "postcall" /\ DstAfter(r) <= MaxWord
      /\ mem' = ArgResCpy(m, r) /\ sp' = DstAfter(r) /\ pend' = ra.base
      /\ at' = "body" /\ ra' = Nowhere /\ rarg' = Dead
      /\ UNCHANGED <<fp, fn>>
  BY DEF PostCallOpen
<1>2. ra \in CallSite /\ ra.base \in Nat
  BY <1>1 DEF IInv, Registers, CallSite
<1>3. DOMAIN m = Address /\ \A a \in Address : a <= fp + 1 => m[a] = mem[a]
  <2>1. DOMAIN mem = Address /\ sp \in Nat /\ fp \in Nat /\ fp + 1 <= sp
    BY <1>1, Running
  <2> QED BY <2>1 DEF Address
<1>4. rarg.exist \in Nat
  BY DEF IInv, TypeOK
<1> HIDE DEF m
<1>5. /\ DOMAIN mem' = Address
      /\ \A a \in Address : a <= fp + 1 => mem'[a] = mem[a]
      /\ sp' \in Nat /\ LocalAt(fp, ra.base) <= sp' /\ fp + 2 <= LocalAt(fp, ra.base)
  <2>1. /\ DOMAIN ArgResCpy(m, r) = Address
        /\ \A a \in Address : a <= fp + 1 => ArgResCpy(m, r)[a] = mem[a]
        /\ DstAfter(r) \in Nat /\ DstAfter(r) >= LocalAt(fp, ra.base)
        /\ LocalAt(fp, ra.base) >= fp + 2
    BY <1>1, <1>3, <1>4, PostCallCopies
  <2> HIDE DEF r
  <2> QED BY <1>1, <2>1
<1> HIDE DEF r
<1>6. fp \in Nat /\ LocalAt(fp, ra.base) \in Nat /\ sp' \in Address /\ (fp + 1 <= sp)'
  <2>1. fp \in Nat
    BY <1>1, Running
  <2>2. PICK l : l = LocalAt(fp, ra.base)
    OBVIOUS
  <2>3. l \in Nat
    BY <1>2, <2>1, <2>2 DEF LocalAt
  <2>4. sp' \in Nat /\ sp' <= MaxWord /\ l <= sp' /\ fp + 2 <= l /\ fp' = fp
    BY <1>1, <1>5, <2>2
  <2>5. sp' \in Address
    BY <2>4 DEF Address
  <2>6. fp' + 1 <= sp'
    BY <2>1, <2>3, <2>4
  <2> QED BY <2>1, <2>2, <2>3, <2>5, <2>6
<1>7. Framed'
  BY <1>1, <1>5, FramedKept
<1>8. TypeOK'
  BY <1>1, <1>2, <1>5, <1>6 DEF IInv, TypeOK, Dead, Site, Address
<1>9. Registers'
  BY <1>1, <1>5 DEF Registers
<1> QED BY <1>1, <1>6, <1>7, <1>8, <1>9 DEF IInv, Room

LEMMA StepIInv == IInv /\ [Next]_vars => IInv'
<1> SUFFICES ASSUME IInv, [Next]_vars PROVE IInv'
  OBVIOUS
<1>1. CASE UNCHANGED vars
  BY <1>1 DEF vars, IInv, TypeOK, Registers, Room, Framed, Chain, Saved
<1>2. CASE Next
  BY <1>2, SetLocalStep, PreCallStep, LuaProStep, PrologueStep, CProStep, RetStep,
     EpilogueStep, PostCallFixedStep, PostCallOpenStep DEF Next
<1> QED BY <1>1, <1>2

LEMMA Invariance == Spec => []IInv
<1> QED BY InitIInv, StepIInv, PTL DEF Spec

-----------------------------------------------------------------------------
\* Every word of the protocol is of its type: the stack pointer and the frame
\* pointer stay on the stack, the registers hold numbers of values and places.
THEOREM TypeCorrect == Spec => []TypeOK
<1>1. IInv => TypeOK
  BY DEF IInv
<1> QED BY <1>1, Invariance, PTL

\* Whatever is copied, pushed and left behind by C functions (xlogue.c), the
\* header of every frame on the stack is as its call made it.
THEOREM HeadersStayIntact == Spec => []HeadersIntact
<1>1. ASSUME IInv, at # "done"
      PROVE  /\ Frames[1] = 2
             /\ \A d \in 2..Len(Frames) :
                   /\ mem[Frames[d] - 1].k = "return_address"
                   /\ SiteSaved(Frames[d]) # Nowhere
                   /\ mem[Frames[d] + 1]
                         = CL(LocalAt(Frames[d - 1], SiteSaved(Frames[d]).base))
  <2>1. PICK F : Chain(mem, F) /\ F[Len(F)] = fp
    BY <1>1, Running DEF Framed
  <2>2. Frames = F
    BY <2>1, ChainIsFrames DEF Frames
  <2>3. ASSUME NEW d \in 2..Len(F)
        PROVE  /\ mem[F[d] - 1].k = "return_address"
               /\ SiteSaved(F[d]) # Nowhere
               /\ mem[F[d] + 1] = CL(LocalAt(F[d - 1], SiteSaved(F[d]).base))
    <3>1. PICK s \in CallSite : /\ mem[F[d] - 1] = RA(s)
                                /\ mem[F[d] + 1] = CL(LocalAt(F[d - 1], s.base))
      BY <2>1 DEF Chain, Saved
    <3>2. RA(s).k = "return_address" /\ RA(s).site = s
      BY DEF RA
    <3>3. SiteSaved(F[d]) = s
      BY <3>1, <3>2 DEF SiteSaved
    <3>4. s # Nowhere
      BY DEF CallSite, Nowhere
    <3> QED BY <3>1, <3>2, <3>3, <3>4
  <2> QED BY <2>1, <2>2, <2>3 DEF Chain
<1>2. IInv => HeadersIntact
  BY <1>1 DEF HeadersIntact
<1> QED BY <1>2, Invariance, PTL

-----------------------------------------------------------------------------
(* What is passed, action by action. *)

LEMMA LuaProPassed == IInv /\ LuaPro => Passed'
<1> SUFFICES ASSUME IInv, LuaPro PROVE Passed'
  OBVIOUS
<1>1. at = "prologue" /\ sp + 3 <= MaxWord
  BY DEF LuaPro
<1>2. pend = None /\ sp \in Nat /\ fp \in Nat /\ fp + 1 <= sp
  BY <1>1, Running DEF IInv, Registers
<1>3. CASE Header[rarg.src] \notin {Val(f) : f \in LuaFn}
  <2>1. at' = "astray" /\ pend' = pend
    BY <1>3 DEF LuaPro, Astray
  <2> QED BY <1>2, <2>1 DEF Passed
<1>4. CASE Header[rarg.src] \in {Val(f) : f \in LuaFn}
  <2>1. /\ mem' = Header /\ fp' = sp + 2 /\ at' = "enter" /\ pend' = pend
        /\ rarg' = [rarg EXCEPT !.src = rarg.src + 2, !.dst = LocalAt(sp + 2, 0)]
    BY <1>4 DEF LuaPro
  <2>2. rarg'.src - 2 = rarg.src
    <3>1. rarg \in [exist : Nat, src : Nat, dst : Nat, expect : Nat]
      BY DEF IInv, TypeOK, Address
    <3>2. PICK d : d = LocalAt(sp + 2, 0)
      OBVIOUS
    <3>3. PICK s : s = rarg.src + 2
      OBVIOUS
    <3>4. rarg' = [rarg EXCEPT !.src = s, !.dst = d]
      BY <2>1, <3>2, <3>3
    <3>5. rarg'.src = s
      BY <3>1, <3>4
    <3> QED BY <3>1, <3>3, <3>5
  <2>3. mem'[sp + 3] = CL(rarg.src)
    BY <1>1, <2>1, HeaderWords
  <2>4. fp' > 2 /\ fp' + 1 = sp + 3
    BY <1>2, <2>1
  <2> QED BY <1>2, <2>1, <2>2, <2>3, <2>4 DEF Passed
<1> QED BY <1>3, <1>4

LEMMA CProPassed == IInv /\ CPro => Passed'
<1> SUFFICES ASSUME IInv, CPro PROVE Passed'
  OBVIOUS
<1>1. at = "prologue" /\ CResults + 2 * MaxResults - 1 <= MaxWord
  BY DEF CPro
<1>2. pend = None /\ sp \in Nat
  BY <1>1, Running DEF IInv, Registers
<1>3. CASE Stopping("astray", mem) \/ Stopping("aborted", mem)
  BY <1>2, <1>3 DEF Stopping, Passed
<1>4. CASE ~Stopping("astray", mem) /\ ~Stopping("aborted", mem)
  <2>1. PICK n \in 0..MaxResults :
           /\ rarg' = [rarg EXCEPT !.exist = n, !.src = CResults, !.dst = rarg.src]
           /\ at' = "postcall" /\ UNCHANGED <<sp, fp, ra, fn, pend>>
    BY <1>4, StoppingWays DEF CPro
  <2>2. rarg \in [exist : Nat, src : Nat, dst : Nat, expect : Nat]
    BY DEF IInv, TypeOK, Address
  <2>3. PICK s \in Nat : s = CResults /\ s = sp + 4
    BY <1>2 DEF CResults
  <2>4. rarg' = [rarg EXCEPT !.exist = n, !.src = s, !.dst = rarg.src]
    BY <2>1, <2>3
  <2>5. rarg'.src = s /\ rarg'.exist = n
    BY <2>2, <2>4
  <2>6. s + 2 * n <= MaxWord + 1
    BY <1>1, <2>3
  <2> QED BY <1>2, <2>1, <2>3, <2>5, <2>6 DEF Passed
<1> QED BY <1>3, <1>4

LEMMA RetPassed == IInv /\ Ret => Passed'
<1> SUFFICES ASSUME IInv, Ret PROVE Passed'
  OBVIOUS
<1>1. PICK r \in Returns[fn] :
         rarg' = [Dead EXCEPT
                     !.exist = IF r.nret > 0 THEN r.nret - 1
                               ELSE (sp - LocalAt(fp, r.base)) \div 2,
                     !.src = LocalAt(fp, r.base)]
  BY DEF Ret
<1>2. at = "body" /\ at' = "epilogue" /\ pend' = None /\ UNCHANGED <<mem, sp, fp, ra, fn>>
  BY DEF Ret
<1>3. /\ fp \in Nat /\ sp \in Nat /\ sp <= MaxWord /\ fn \in LuaFn
      /\ NrLocals[fn] \in Nat /\ fp + 1 + 2 * NrLocals[fn] <= MaxWord
  BY <1>2, Running
<1>4. r.base \in Nat /\ r.nret \in Nat /\ r.base + r.nret <= NrLocals[fn] + 1
      /\ r.base <= NrLocals[fn]
  BY <1>3, CodeAssumption
<1>5. PICK s \in Nat : s = LocalAt(fp, r.base) /\ s = fp + 2 + 2 * r.base /\ s <= MaxWord + 1
  BY <1>3, <1>4 DEF LocalAt
<1>6. PICK n : n = IF r.nret > 0 THEN r.nret - 1 ELSE (sp - s) \div 2
  OBVIOUS
<1>7. rarg'.src = s /\ rarg'.exist = n
  BY <1>1, <1>5, <1>6 DEF Dead
<1>8. s + 2 * n <= MaxWord + 1
  <2>1. CASE r.nret > 0
    BY <1>3, <1>4, <1>5, <1>6, <2>1
  <2>2. CASE ~(r.nret > 0)
    <3>1. n = (sp - s) \div 2
      BY <1>6, <2>2
    <3>2. sp - s \in Int
      BY <1>3
    <3>3. 2 * ((sp - s) \div 2) <= sp - s
      BY <3>2
    <3> QED BY <1>3, <1>5, <3>1, <3>3
  <2> QED BY <2>1, <2>2
<1> QED BY <1>2, <1>4, <1>5, <1>7, <1>8 DEF Passed

LEMMA EpiloguePassed == IInv /\ Passed /\ Epilogue => Passed'
<1> SUFFICES ASSUME IInv, Passed, Epilogue PROVE Passed'
  OBVIOUS
<1>1. /\ at = "epilogue" /\ at' \in {"done", "postcall"} /\ pend' = pend /\ sp' = fp - 2
      /\ rarg' = [rarg EXCEPT !.dst = mem[fp + 1].a]
  BY DEF Epilogue, PoppedSp
<1>2. pend = None /\ fp \in Nat
  BY <1>1, Running DEF IInv, Registers
<1>3. PICK b \in Nat : rarg.src = fp + 2 + 2 * b
  BY <1>1 DEF Passed, LocalAt
<1>4. rarg'.src = rarg.src /\ rarg'.exist = rarg.exist
  <2>1. rarg \in [exist : Nat, src : Nat, dst : Nat, expect : Nat]
    BY DEF IInv, TypeOK, Address
  <2> QED BY <1>1, <2>1
<1>5. sp' + 4 <= rarg'.src
  BY <1>1, <1>2, <1>3, <1>4
<1> QED BY <1>1, <1>2, <1>4, <1>5 DEF Passed

LEMMA PostCallOpenPassed == IInv /\ PostCallOpen => Passed'
<1> SUFFICES ASSUME IInv, PostCallOpen PROVE Passed'
  OBVIOUS
<1> DEFINE r == [rarg EXCEPT !.expect = rarg.exist]
<1>1. at = "postcall" /\ at' = "body" /\ sp' = DstAfter(r) /\ pend' = ra.base /\ fp' = fp
  BY DEF PostCallOpen
<1>2. rarg.dst = LocalAt(fp, ra.base) /\ ra.base \in Nat
  BY <1>1 DEF IInv, Registers, CallSite
<1>3. rarg \in [exist : Nat, src : Nat, dst : Nat, expect : Nat] /\ DOMAIN mem = Address
  BY DEF IInv, TypeOK, Address
<1>4. r \in [exist : Nat, src : Nat, dst : Nat, expect : Nat] /\ r.dst = LocalAt(fp, ra.base)
  BY <1>2, <1>3
<1> HIDE DEF r
<1>5. Least(r.exist, r.expect) \in Nat /\ DstAfter(r) = r.dst + 2 * Least(r.exist, r.expect)
  BY <1>3, <1>4, ArgResCopied
<1>6. \E n \in Nat : sp' = LocalAt(fp', pend') + 2 * n
  BY <1>1, <1>4, <1>5
<1> QED BY <1>1, <1>6 DEF Passed

LEMMA StepPassed == IInv /\ Passed /\ [Next]_vars => Passed'
<1> SUFFICES ASSUME IInv, Passed, [Next]_vars PROVE Passed'
  OBVIOUS
<1>1. CASE UNCHANGED vars
  BY <1>1 DEF vars, Passed
<1>2. CASE SetLocal \/ PreCall \/ Prologue \/ PostCallFixed
  <2>1. at' \in {"body", "prologue"} /\ pend' = None
    BY <1>2 DEF SetLocal, PreCall, Prologue, PostCallFixed, IInv, Registers
  <2> QED BY <2>1 DEF Passed
<1> QED BY <1>1, <1>2, LuaProPassed, CProPassed, RetPassed, EpiloguePassed,
           PostCallOpenPassed DEF Next

LEMMA AlwaysPassed == Spec => [](IInv /\ Passed)
<1>1. Init => Passed
  BY DEF Init, Passed
<1> QED BY <1>1, InitIInv, StepIInv, StepPassed, PTL DEF Spec

-----------------------------------------------------------------------------
(* The activations that the stack stands for. *)

IsListTo(A, n) == \E S : A \in [1..n -> S]

LEMMA ListLen ==
    ASSUME NEW n \in Nat, NEW A, A = [d \in 1..n |-> A[d]]
    PROVE  Len(A) = n /\ IsListTo(A, n)
<1>1. PICK B : B = A
  OBVIOUS
<1>2. A = [d \in 1..n |-> B[d]]
  BY <1>1
<1>3. Len([d \in 1..n |-> B[d]]) = n
  OBVIOUS
<1>4. A \in [1..n -> {B[d] : d \in 1..n}]
  BY <1>2
<1> QED BY <1>2, <1>3, <1>4 DEF IsListTo

\* The words up to one are the same.
SameTo(m, m2, s) == \A a \in Address : a <= s => m2[a] = m[a]

\* The activations of the frames F, in a state with the words m: all of them but the
\* last have called.
HasCalled(acts, m, F) ==
    \A d \in 1..(Len(F) - 1) : acts[d] = Suspended(m, F[d], F[d + 1])

LEMMA ActsNow ==
    ASSUME at # "done", NEW F, Chain(mem, F), F[Len(F)] = fp
    PROVE  /\ Len(Acts) = IF at = "enter" THEN Len(F) - 1 ELSE Len(F)
           /\ IsListTo(Acts, Len(Acts))
           /\ HasCalled(Acts, mem, F)
           /\ at # "enter" => Acts[Len(F)] = Activation(mem, fp, fn, sp, ra, pend # None)
<1>1. Len(F) \in Nat \ {0} /\ Frames = F
  BY ChainIsFrames, EmptySeq DEF Chain, Frames
<1>2. PICK n \in Nat : n = IF at = "enter" THEN Len(F) - 1 ELSE Len(F)
  <2>1. PICK k \in Nat \ {0} : k = Len(F)
    BY <1>1
  <2>2. k - 1 \in Nat
    OBVIOUS
  <2> QED BY <2>1, <2>2
<1>3. Acts = [d \in 1..n |-> IF d < Len(F) THEN Suspended(mem, F[d], F[d + 1])
                            ELSE Activation(mem, fp, fn, sp, ra, pend # None)]
  BY <1>1, <1>2 DEF Acts
<1>4. Len(Acts) = n /\ IsListTo(Acts, n)
  BY <1>3, ListLen
<1> QED BY <1>1, <1>2, <1>3, <1>4 DEF HasCalled

LEMMA ActsNext ==
    ASSUME at' # "done", NEW F, Chain(mem', F), F[Len(F)] = fp'
    PROVE  /\ Len(Acts') = IF at' = "enter" THEN Len(F) - 1 ELSE Len(F)
           /\ IsListTo(Acts', Len(Acts'))
           /\ HasCalled(Acts', mem', F)
           /\ at' # "enter" => Acts'[Len(F)] = Activation(mem', fp', fn', sp', ra', pend' # None)
<1>1. Len(F) \in Nat \ {0} /\ Frames' = F
  BY ChainIsFrames, EmptySeq DEF Chain, Frames
<1>2. PICK n \in Nat : n = IF at' = "enter" THEN Len(F) - 1 ELSE Len(F)
  <2>1. PICK k \in Nat \ {0} : k = Len(F)
    BY <1>1
  <2>2. k - 1 \in Nat
    OBVIOUS
  <2> QED BY <2>1, <2>2
<1>3. Acts' = [d \in 1..n |-> IF d < Len(F) THEN Suspended(mem', F[d], F[d + 1])
                             ELSE Activation(mem', fp', fn', sp', ra', pend' # None)]
  BY <1>1, <1>2 DEF Acts
<1>4. Len(Acts') = n /\ IsListTo(Acts', n)
  BY <1>3, ListLen
<1> QED BY <1>1, <1>2, <1>3, <1>4 DEF HasCalled

TopOf(frame, s) == (s - frame - 1) \div 2
LocalsOf(frame, f, s) == 0..(Most(NrLocals[f], TopOf(frame, s)) - 1)

LEMMA Fields ==
    ASSUME NEW m, NEW frame, NEW f, NEW s, NEW site, NEW open
    PROVE  /\ Activation(m, frame, f, s, site, open).fn = f
           /\ Activation(m, frame, f, s, site, open).top = TopOf(frame, s)
           /\ Activation(m, frame, f, s, site, open).site = site
           /\ Activation(m, frame, f, s, site, open).open = open
           /\ Activation(m, frame, f, s, site, open).locals
                 = [i \in LocalsOf(frame, f, s) |-> Pair(m, LocalAt(frame, i))]
BY DEF Activation, TopOf, LocalsOf

\* The locals below top are below the end of the frame, and are locals.
LEMMA BelowTop ==
    ASSUME NEW frame \in Nat, NEW s \in Nat, frame + 1 <= s, NEW f \in LuaFn
    PROVE  /\ TopOf(frame, s) \in Nat
           /\ \A i \in Nat : i < TopOf(frame, s) =>
                 i \in LocalsOf(frame, f, s) /\ LocalAt(frame, i) + 1 <= s
<1>1. PICK t \in Int : t = TopOf(frame, s)
  BY DEF TopOf
<1>2. t >= 0 /\ frame + 1 + 2 * t <= s
  BY <1>1 DEF TopOf
<1>3. NrLocals[f] \in Nat
  OBVIOUS
<1>4. \A i \in Nat : i < t => i \in 0..(Most(NrLocals[f], t) - 1)
  BY <1>2, <1>3 DEF Most
<1>5. \A i \in Nat : i < t => frame + 2 + 2 * i + 1 <= s
  BY <1>2
<1> QED BY <1>1, <1>2, <1>4, <1>5 DEF LocalsOf, LocalAt

\* An activation keeps what it has below top while no word of its frame changes.
LEMMA KeptBelow ==
    ASSUME NEW m, NEW m2, NEW frame \in Nat, NEW s \in Nat, frame + 1 <= s, s <= MaxWord,
           SameTo(m, m2, s), NEW f \in LuaFn, NEW site, NEW o, NEW o2
    PROVE  Stack!Keeps(Activation(m, frame, f, s, site, o), Activation(m2, frame, f, s, site, o2))
<1>1. PICK a, b : a = Activation(m, frame, f, s, site, o) /\ b = Activation(m2, frame, f, s, site, o2)
  OBVIOUS
<1>2. /\ a.fn = f /\ a.top = TopOf(frame, s) /\ a.site = site
      /\ a.locals = [i \in LocalsOf(frame, f, s) |-> Pair(m, LocalAt(frame, i))]
      /\ b.fn = f /\ b.top = TopOf(frame, s) /\ b.site = site
      /\ b.locals = [i \in LocalsOf(frame, f, s) |-> Pair(m2, LocalAt(frame, i))]
  BY <1>1, Fields
<1>3. ASSUME NEW i \in 0..(a.top - 1) PROVE b.locals[i] = a.locals[i]
  <2>1. i \in Nat /\ i < TopOf(frame, s)
    BY <1>2, BelowTop
  <2>2. i \in LocalsOf(frame, f, s) /\ LocalAt(frame, i) + 1 <= s
    BY <2>1, BelowTop
  <2>3. PICK l \in Nat : l = LocalAt(frame, i)
    BY <2>1 DEF LocalAt
  <2>4. m2[l] = m[l] /\ m2[l + 1] = m[l + 1]
    <3>1. l \in Address /\ l + 1 \in Address /\ l <= s /\ l + 1 <= s
      BY <2>2, <2>3 DEF Address
    <3> QED BY <3>1 DEF SameTo
  <2> QED BY <1>2, <2>2, <2>3, <2>4 DEF Pair
<1> QED BY <1>1, <1>2, <1>3 DEF Stack!Keeps

\* So do all that have called, while no word changes below the current frame's.
LEMMA CalledKept ==
    ASSUME NEW m, NEW m2, NEW F, Chain(m, F), NEW s \in Nat, s <= MaxWord,
           SameTo(m, m2, s), F[Len(F)] - 1 <= s,
           NEW a, NEW a2, HasCalled(a, m, F), HasCalled(a2, m2, F),
           NEW d \in 1..(Len(F) - 1)
    PROVE  Stack!Keeps(a[d], a2[d])
<1>1. Len(F) \in Nat \ {0}
  BY EmptySeq DEF Chain
<1>2. d \in 1..Len(F) /\ d + 1 \in 2..Len(F) /\ d + 1 \in 1..Len(F) /\ (d + 1) - 1 = d
      /\ Len(F) \in 1..Len(F)
  BY <1>1
<1>3. PICK x, y : x = F[d] /\ y = F[d + 1]
  OBVIOUS
<1>4. x \in Nat /\ y \in Nat /\ y <= F[Len(F)] /\ F[Len(F)] \in Nat
  BY <1>2, <1>3, ChainOrder DEF Address
<1>5. x + 3 <= y /\ Saved(m, x, y)
  BY <1>2, <1>3 DEF Chain
<1>6. y - 1 \in Address /\ y - 1 <= s /\ y - 2 \in Nat /\ y - 2 <= s /\ x + 1 <= y - 2
      /\ y - 2 <= MaxWord
  BY <1>4, <1>5 DEF Address
<1>7. m2[y - 1] = m[y - 1]
  BY <1>6 DEF SameTo
<1>8. SameTo(m, m2, y - 2)
  <2>1. \A b \in Address : b <= y - 2 => b <= s
    BY <1>4, <1>6 DEF Address
  <2> QED BY <2>1 DEF SameTo
<1>9. PICK site \in CallSite : site = m[y - 1].site
  BY <1>5 DEF Saved
<1>10. site.fn \in LuaFn
  BY DEF CallSite
<1>11. PICK t, f : t = y - 2 /\ f = site.fn
  OBVIOUS
<1>12. a[d] = Activation(m, x, f, t, site, FALSE) /\ a2[d] = Activation(m2, x, f, t, site, FALSE)
  BY <1>3, <1>7, <1>9, <1>11 DEF HasCalled, Suspended
<1>13. t \in Nat /\ x + 1 <= t /\ t <= MaxWord /\ SameTo(m, m2, t) /\ f \in LuaFn
  BY <1>6, <1>8, <1>10, <1>11
<1>14. x \in Nat
  BY <1>4
<1>15. Stack!Keeps(Activation(m, x, f, t, site, FALSE), Activation(m2, x, f, t, site, FALSE))
  BY <1>13, <1>14, KeptBelow
<1> QED BY <1>12, <1>15

LEMMA SlotAt ==
    ASSUME NEW frame \in Nat, NEW b \in Nat
    PROVE  Slot(LocalAt(frame, b), frame) = b
<1>1. LocalAt(frame, b) - frame - 2 = 2 * b
  BY DEF LocalAt
<1>2. (2 * b) \div 2 = b
  OBVIOUS
<1> QED BY <1>1, <1>2 DEF Slot

LEMMA PairsAre ==
    ASSUME NEW m, NEW a \in Nat, NEW n \in Nat
    PROVE  /\ Len(Pairs(m, a, n)) = n
           /\ \A j \in 1..n : Pairs(m, a, n)[j] = Pair(m, a + 2 * (j - 1))
<1>1. Pairs(m, a, n) = [j \in 1..n |-> Pair(m, a + 2 * (j - 1))]
  BY DEF Pairs
<1>2. PICK P : P = Pairs(m, a, n)
  OBVIOUS
<1>3. \A j \in 1..n : P[j] = Pair(m, a + 2 * (j - 1))
  BY <1>1, <1>2
<1>4. P = [j \in 1..n |-> P[j]]
  BY <1>1, <1>2
<1>5. Len(P) = n
  BY <1>4, ListLen
<1> QED BY <1>2, <1>3, <1>5

\* Arguments and results below top stay while no word of the frame changes.
LEMMA PairsKept ==
    ASSUME NEW m, NEW m2, NEW frame \in Nat, NEW s \in Nat, frame + 1 <= s, s <= MaxWord,
           SameTo(m, m2, s), NEW f \in LuaFn, NEW from \in Nat, NEW n \in Nat
    PROVE  Stack!PassedOn(Pairs(m, LocalAt(frame, from), n), Pairs(m2, LocalAt(frame, from), n),
                          from, TopOf(frame, s))
<1>1. PICK src \in Nat : src = LocalAt(frame, from)
  BY DEF LocalAt
<1>2. PICK p, q : p = Pairs(m, src, n) /\ q = Pairs(m2, src, n)
  OBVIOUS
<1>3. /\ Len(p) = n /\ Len(q) = n
      /\ \A j \in 1..n : p[j] = Pair(m, src + 2 * (j - 1)) /\ q[j] = Pair(m2, src + 2 * (j - 1))
  BY <1>2, PairsAre
<1>4. ASSUME NEW j \in 1..n, from + j - 1 < TopOf(frame, s) PROVE q[j] = p[j]
  <2>1. PICK i \in Nat : i = from + j - 1
    OBVIOUS
  <2>2. LocalAt(frame, i) + 1 <= s
    BY <1>4, <2>1, BelowTop
  <2>3. LocalAt(frame, i) = src + 2 * (j - 1)
    BY <1>1, <2>1 DEF LocalAt
  <2>4. PICK l \in Nat : l = LocalAt(frame, i)
    BY <2>1 DEF LocalAt
  <2>5. m2[l] = m[l] /\ m2[l + 1] = m[l + 1]
    <3>1. l \in Address /\ l + 1 \in Address /\ l <= s /\ l + 1 <= s
      BY <2>2, <2>4 DEF Address
    <3> QED BY <3>1 DEF SameTo
  <2> QED BY <1>3, <2>3, <2>4, <2>5 DEF Pair
<1> QED BY <1>1, <1>2, <1>3, <1>4 DEF Stack!PassedOn

\* The words of a local of the current frame are on the stack, and are no other local's.
LEMMA LocalWords ==
    ASSUME NEW frame \in Nat, NEW s \in Nat, s <= MaxWord, NEW f \in LuaFn, Room(frame, f),
           frame + 1 <= s, NEW i \in LocalsOf(frame, f, s)
    PROVE  i \in Nat /\ LocalAt(frame, i) \in Address /\ LocalAt(frame, i) + 1 \in Address
<1>1. PICK t \in Nat : t = TopOf(frame, s)
  BY BelowTop
<1>2. frame + 1 + 2 * t <= s
  BY <1>1 DEF TopOf
<1>3. NrLocals[f] \in Nat /\ frame + 1 + 2 * NrLocals[f] <= MaxWord
  BY DEF Room
<1>4. i \in Nat /\ (i < NrLocals[f] \/ i < t)
  BY <1>1, <1>3 DEF LocalsOf, Most
<1>5. frame + 2 + 2 * i + 1 <= MaxWord
  BY <1>2, <1>3, <1>4
<1> QED BY <1>4, <1>5 DEF LocalAt, Address

\* The frames of a step that stays in the current one.
LEMMA InFrame ==
    ASSUME IInv, at # "done", fp' = fp, SameTo(mem, mem', fp + 1)
    PROVE  \E F : /\ Chain(mem, F) /\ Chain(mem', F) /\ F[Len(F)] = fp /\ Len(F) \in Nat \ {0}
<1>1. PICK F : Chain(mem, F) /\ F[Len(F)] = fp
  BY DEF IInv, Framed
<1>2. F[Len(F)] + 1 \in Address
  BY <1>1, Running DEF Address
<1>3. \A a \in Address : a <= F[Len(F)] + 1 => mem'[a] = mem[a]
  BY <1>1 DEF SameTo
<1>4. Chain(mem', F)
  BY <1>1, <1>2, <1>3, ChainKept
<1>5. Len(F) \in Nat \ {0}
  BY <1>1, EmptySeq DEF Chain
<1> QED BY <1>1, <1>4, <1>5

\* What the others keep in such a step.
LEMMA OthersKept ==
    ASSUME IInv, at # "done", at \notin {"enter"}, at' \notin {"done", "enter"}, fp' = fp,
           SameTo(mem, mem', fp + 1)
    PROVE  /\ Stack!OthersKept(1) /\ Len(Acts') = Len(Acts) /\ Len(Acts) \in Nat \ {0}
           /\ Acts[Len(Acts)] = Activation(mem, fp, fn, sp, ra, pend # None)
           /\ Acts'[Len(Acts)] = Activation(mem', fp', fn', sp', ra', pend' # None)
<1>1. PICK F : Chain(mem, F) /\ Chain(mem', F) /\ F[Len(F)] = fp /\ Len(F) \in Nat \ {0}
  BY InFrame
<1>2. /\ Len(Acts) = Len(F) /\ HasCalled(Acts, mem, F)
      /\ Acts[Len(F)] = Activation(mem, fp, fn, sp, ra, pend # None)
  BY <1>1, ActsNow
<1>3. /\ Len(Acts') = Len(F) /\ HasCalled(Acts', mem', F)
      /\ Acts'[Len(F)] = Activation(mem', fp', fn', sp', ra', pend' # None)
  BY <1>1, ActsNext
<1>4. ASSUME NEW d \in 1..(Len(F) - 1) PROVE Stack!Keeps(Acts[d], Acts'[d])
  <2>1. PICK s \in Nat : s = fp + 1 /\ s <= MaxWord
    BY Running
  <2>2. SameTo(mem, mem', s) /\ F[Len(F)] - 1 <= s
    BY <1>1, <2>1, Running
  <2> QED BY <1>1, <1>2, <1>3, <2>1, <2>2, CalledKept
<1>5. Stack!OthersKept(1)
  BY <1>2, <1>4 DEF Stack!OthersKept
<1> QED BY <1>1, <1>2, <1>3, <1>5

\* Only the words of local i of the frame differ.
DiffersAt(m, m2, frame, i) ==
    \A a \in Address : a # LocalAt(frame, i) /\ a # LocalAt(frame, i) + 1 => m2[a] = m[a]

LEMMA SetLocalWords ==
    ASSUME IInv, SetLocal
    PROVE  /\ SameTo(mem, mem', fp + 1)
           /\ \E i \in 0..(NrLocals[fn] - 1) : DiffersAt(mem, mem', fp, i)
<1>1. at = "body"
  BY DEF SetLocal
<1>2. PICK i \in 0..(NrLocals[fn] - 1), f \in LuaFn \cup CFn :
         mem' = [mem EXCEPT ![LocalAt(fp, i)] = Val(f), ![LocalAt(fp, i) + 1] = Typ(f)]
  BY DEF SetLocal
<1>3. DOMAIN mem = Address /\ fp \in Nat
  BY <1>1, Running
<1>4. PICK l \in Nat : l = LocalAt(fp, i) /\ l > fp + 1
  BY <1>1, <1>3, Running DEF LocalAt
<1>5. mem' = [[mem EXCEPT ![l] = Val(f)] EXCEPT ![l + 1] = Typ(f)]
  BY <1>2, <1>4
<1>6. PICK m : m = [mem EXCEPT ![l] = Val(f)]
  OBVIOUS
<1>7. DOMAIN m = Address /\ mem' = [m EXCEPT ![l + 1] = Typ(f)]
      /\ \A a \in Address : a # l => m[a] = mem[a]
  BY <1>3, <1>5, <1>6
<1>8. \A a \in Address : a # l /\ a # l + 1 => mem'[a] = mem[a]
  BY <1>7
<1>9. \A a \in Address : a <= fp + 1 => a # l /\ a # l + 1
  <2>1. \A a \in Address : a \in Int
    BY DEF Address
  <2> QED BY ONLY <1>3, <1>4, <2>1
<1>10. DiffersAt(mem, mem', fp, i)
  BY <1>4, <1>8 DEF DiffersAt
<1> QED BY <1>8, <1>9, <1>10 DEF SameTo

AssignedAt(a, a2, i) == a2 = [a EXCEPT !.locals[i] = a2.locals[i]]

\* One local differs in the words, and so in the activation.
LEMMA ActivationAssigned ==
    ASSUME NEW m, NEW m2, NEW frame \in Nat, NEW s \in Nat, s <= MaxWord, frame + 1 <= s,
           NEW f \in LuaFn, Room(frame, f), NEW site, NEW o, NEW i \in LocalsOf(frame, f, s),
           DiffersAt(m, m2, frame, i)
    PROVE  AssignedAt(Activation(m, frame, f, s, site, o),
                      Activation(m2, frame, f, s, site, o), i)
<1>1. PICK D, t : D = LocalsOf(frame, f, s) /\ t = TopOf(frame, s)
  OBVIOUS
<1>2. PICK L, L2 : /\ L = [j \in D |-> Pair(m, LocalAt(frame, j))]
                   /\ L2 = [j \in D |-> Pair(m2, LocalAt(frame, j))]
  OBVIOUS
<1>3. ASSUME NEW j \in D, j # i PROVE L2[j] = L[j]
  <2>1. /\ i \in Nat /\ j \in Nat
        /\ LocalAt(frame, j) \in Address /\ LocalAt(frame, j) + 1 \in Address
    BY <1>1, LocalWords
  <2>2. PICK x, y : x \in Nat /\ x = LocalAt(frame, j) /\ y = LocalAt(frame, i)
    BY <2>1 DEF Address
  <2>3. x # y /\ x + 1 # y /\ x # y + 1 /\ x + 1 # y + 1
    BY <1>3, <2>1, <2>2 DEF LocalAt
  <2>4. m2[x] = m[x] /\ m2[x + 1] = m[x + 1]
    BY <2>1, <2>2, <2>3 DEF DiffersAt
  <2> QED BY <1>2, <2>2, <2>4 DEF Pair
<1>4. L2 = [L EXCEPT ![i] = L2[i]]
  BY <1>1, <1>2, <1>3
<1>5. /\ Activation(m, frame, f, s, site, o)
            = [fn |-> f, top |-> t, site |-> site, open |-> o, locals |-> L]
      /\ Activation(m2, frame, f, s, site, o)
            = [fn |-> f, top |-> t, site |-> site, open |-> o, locals |-> L2]
  BY <1>1, <1>2 DEF Activation, TopOf, LocalsOf
<1> QED BY <1>4, <1>5 DEF AssignedAt

LEMMA SetLocalRefines == IInv /\ SetLocal => Stack!Assign
<1> SUFFICES ASSUME IInv, SetLocal PROVE Stack!Assign
  OBVIOUS
<1>1. at = "body" /\ pend = None /\ UNCHANGED <<sp, fp, ra, rarg, at, fn, pend>>
  BY DEF SetLocal
<1>2. PICK i \in 0..(NrLocals[fn] - 1) : DiffersAt(mem, mem', fp, i)
  BY SetLocalWords
<1>3. SameTo(mem, mem', fp + 1)
  BY SetLocalWords
<1>4. /\ Stack!OthersKept(1) /\ Len(Acts') = Len(Acts)
      /\ Acts[Len(Acts)] = Activation(mem, fp, fn, sp, ra, pend # None)
      /\ Acts'[Len(Acts)] = Activation(mem', fp, fn, sp, ra, pend # None)
  BY <1>1, <1>3, OthersKept
<1>5. PICK o : o = (pend # None)
  OBVIOUS
<1>6. i \in LocalsOf(fp, fn, sp)
  <2>1. NrLocals[fn] \in Nat
    BY <1>1, Running
  <2>2. PICK t \in Nat : t = TopOf(fp, sp)
    BY <1>1, Running, BelowTop
  <2> QED BY <2>1, <2>2 DEF LocalsOf, Most
<1>7. AssignedAt(Acts[Len(Acts)], Acts'[Len(Acts)], i)
  <2>1. sp \in Nat /\ sp <= MaxWord /\ fp \in Nat /\ fp + 1 <= sp /\ fn \in LuaFn /\ Room(fp, fn)
    BY <1>1, Running DEF Room
  <2>2. AssignedAt(Activation(mem, fp, fn, sp, ra, o), Activation(mem', fp, fn, sp, ra, o), i)
    BY <1>2, <1>6, <2>1, ActivationAssigned
  <2> QED BY <1>4, <1>5, <2>2
<1>8. /\ ~Acts[Len(Acts)].open
      /\ DOMAIN Acts[Len(Acts)].locals = LocalsOf(fp, fn, sp)
  <2>1. Acts[Len(Acts)] = Activation(mem, fp, fn, sp, ra, o)
    BY <1>4, <1>5
  <2>2. ~Acts[Len(Acts)].open
    <3>1. PICK X : X = Acts[Len(Acts)]
      OBVIOUS
    <3>2. X = Activation(mem, fp, fn, sp, ra, pend # None) /\ pend = None
      BY <1>1, <1>4, <3>1
    <3>3. ~X.open
      BY <3>2 DEF Activation
    <3> QED BY <3>1, <3>3
  <2>3. Acts[Len(Acts)].locals = [j \in LocalsOf(fp, fn, sp) |-> Pair(mem, LocalAt(fp, j))]
    BY <2>1, Fields
  <2> QED BY <2>2, <2>3
<1>9. Passing = Stack!Idle /\ Passing' = Stack!Idle
  BY <1>1 DEF Passing, Stack!Idle
<1> QED BY <1>4, <1>6, <1>7, <1>8, <1>9 DEF Stack!Assign, Stack!Last, AssignedAt

LocalsAre(a, m, frame, f, s) ==
    a.locals = [i \in LocalsOf(frame, f, s) |-> Pair(m, LocalAt(frame, i))]

AreLocals(vals, a, b) ==
    \A j \in 1..Len(vals) : b + j - 1 \in DOMAIN a.locals /\ vals[j] = a.locals[b + j - 1]

\* There are n locals after the first b, as the code says or below top.
HasLocals(frame, f, s, b, n) == b + n <= NrLocals[f] \/ b + n <= TopOf(frame, s)

\* The arguments of a call and the results of a return are locals.
LEMMA LocalsTaken ==
    ASSUME NEW m, NEW frame \in Nat, NEW s \in Nat, frame + 1 <= s, NEW f \in LuaFn,
           NEW b \in Nat, NEW n \in Nat, HasLocals(frame, f, s, b, n),
           NEW a, LocalsAre(a, m, frame, f, s)
    PROVE  AreLocals(Pairs(m, LocalAt(frame, b), n), a, b)
<1>1. PICK src \in Nat : src = LocalAt(frame, b)
  BY DEF LocalAt
<1>2. PICK V : V = Pairs(m, src, n)
  OBVIOUS
<1>3. Len(V) = n /\ \A j \in 1..n : V[j] = Pair(m, src + 2 * (j - 1))
  BY <1>2, PairsAre
<1>4. ASSUME NEW j \in 1..n PROVE b + j - 1 \in DOMAIN a.locals /\ V[j] = a.locals[b + j - 1]
  <2>1. PICK i \in Nat : i = b + j - 1
    OBVIOUS
  <2>2. src + 2 * (j - 1) = LocalAt(frame, i)
    BY <1>1, <2>1 DEF LocalAt
  <2>3. i \in LocalsOf(frame, f, s)
    <3>1. PICK t \in Nat : t = TopOf(frame, s)
      BY BelowTop
    <3>2. NrLocals[f] \in Nat
      OBVIOUS
    <3>3. i < NrLocals[f] \/ i < t
      BY <2>1, <3>1, <3>2 DEF HasLocals
    <3> QED BY <3>1, <3>2, <3>3 DEF LocalsOf, Most
  <2>4. V[j] = Pair(m, LocalAt(frame, i))
    BY <1>3, <2>2
  <2> QED BY <2>1, <2>3, <2>4 DEF LocalsAre
<1> QED BY <1>1, <1>2, <1>3, <1>4 DEF AreLocals

ChangedAt(A, n, x, B) == B = [A EXCEPT ![n] = x]

LEMMA ListChanged ==
    ASSUME NEW n \in Nat \ {0}, NEW A, IsListTo(A, n), NEW x, NEW B, ChangedAt(A, n, x, B)
    PROVE  IsListTo(B, n) /\ B[n] = x /\ \A d \in 1..(n - 1) : B[d] = A[d]
<1>1. PICK S : A \in [1..n -> S]
  BY DEF IsListTo
<1>2. n \in 1..n
  OBVIOUS
<1>3. B \in [1..n -> S \cup {x}]
  BY <1>1 DEF ChangedAt
<1>4. B[n] = x /\ \A d \in 1..(n - 1) : B[d] = A[d]
  BY <1>1, <1>2 DEF ChangedAt
<1> QED BY <1>3, <1>4 DEF IsListTo

LEMMA SameLists ==
    ASSUME NEW n \in Nat, NEW A, NEW B, IsListTo(A, n), IsListTo(B, n),
           \A d \in 1..n : A[d] = B[d]
    PROVE  A = B
<1>1. PICK S, T : A \in [1..n -> S] /\ B \in [1..n -> T]
  BY DEF IsListTo
<1> QED BY <1>1

\* Two stacks that differ in the call site and the openness of the last activation.
NowWaits(acts, acts2, open) ==
    acts2 = [acts EXCEPT ![Len(acts)].site = acts2[Len(acts)].site, ![Len(acts)].open = open]

LEMMA NowWaitsIf ==
    ASSUME NEW n \in Nat \ {0}, NEW A, NEW A2, Len(A) = n, Len(A2) = n,
           IsListTo(A, n), IsListTo(A2, n),
           \A d \in 1..(n - 1) : A2[d] = A[d],
           NEW m, NEW frame, NEW f, NEW s, NEW site, NEW o, NEW site2, NEW o2,
           A[n] = Activation(m, frame, f, s, site, o),
           A2[n] = Activation(m, frame, f, s, site2, o2)
    PROVE  NowWaits(A, A2, o2)
<1>1. PICK L, t : L = [i \in LocalsOf(frame, f, s) |-> Pair(m, LocalAt(frame, i))]
                  /\ t = TopOf(frame, s)
  OBVIOUS
<1>2. /\ A[n] = [fn |-> f, top |-> t, site |-> site, open |-> o, locals |-> L]
      /\ A2[n] = [fn |-> f, top |-> t, site |-> site2, open |-> o2, locals |-> L]
  BY <1>1 DEF Activation, TopOf, LocalsOf
<1>3. PICK b, c : b = [A[n] EXCEPT !.site = site2] /\ c = [b EXCEPT !.open = o2]
  OBVIOUS
<1>4. b = [fn |-> f, top |-> t, site |-> site2, open |-> o, locals |-> L] /\ c = A2[n]
  <2>1. PICK r : r = A[n]
    OBVIOUS
  <2>2. r = [fn |-> f, top |-> t, site |-> site, open |-> o, locals |-> L]
        /\ b = [r EXCEPT !.site = site2]
    BY <1>2, <1>3, <2>1
  <2>3. b = [fn |-> f, top |-> t, site |-> site2, open |-> o, locals |-> L]
    BY <2>2
  <2>4. c = [fn |-> f, top |-> t, site |-> site2, open |-> o2, locals |-> L]
    <3>1. c = [b EXCEPT !.open = o2]
      BY <1>3
    <3> QED BY ONLY <2>3, <3>1
  <2> QED BY <1>2, <2>3, <2>4
<1>5. PICK B, C : ChangedAt(A, n, b, B) /\ ChangedAt(B, n, c, C)
  BY DEF ChangedAt
<1>6. IsListTo(B, n) /\ B[n] = b /\ \A d \in 1..(n - 1) : B[d] = A[d]
  BY <1>5, ListChanged
<1>7. IsListTo(C, n) /\ C[n] = c /\ \A d \in 1..(n - 1) : C[d] = B[d]
  BY <1>5, <1>6, ListChanged
<1>8. C = A2
  <2>1. ASSUME NEW d \in 1..n PROVE C[d] = A2[d]
    <3>1. d = n \/ d \in 1..(n - 1)
      OBVIOUS
    <3>2. CASE d = n
      BY <1>4, <1>7, <3>2
    <3>3. CASE d \in 1..(n - 1)
      <4>1. C[d] = B[d] /\ B[d] = A[d] /\ A2[d] = A[d]
        BY <1>6, <1>7, <3>3
      <4> QED BY <4>1
    <3> QED BY <3>1, <3>2, <3>3
  <2> QED BY <1>7, <2>1, SameLists
<1>9. A2[n].site = site2
  BY <1>2
<1>10. [A EXCEPT ![n].site = site2, ![n].open = o2] = C
  BY <1>3, <1>5, <1>6 DEF ChangedAt
<1> QED BY <1>8, <1>9, <1>10 DEF NowWaits

\* How many locals there are below an open top.
LEMMA OpenTop ==
    ASSUME NEW frame \in Nat, NEW p \in Nat, NEW n \in Nat, NEW s, s = LocalAt(frame, p) + 2 * n
    PROVE  TopOf(frame, s) = p + n /\ Slot(s, frame) = p + n
<1>1. s - frame - 1 = 2 * (p + n) + 1 /\ s - frame - 2 = 2 * (p + n)
  BY DEF LocalAt
<1>2. \A k \in Nat : ((2 * k + 1) \div 2) = k /\ ((2 * k) \div 2) = k
  OBVIOUS
<1> QED BY <1>1, <1>2 DEF TopOf, Slot

\* The activations around a step that stays in the frame and changes no word.
LEMMA Unmoved ==
    ASSUME IInv, at # "done", at # "enter", at' \notin {"done", "enter"}, fp' = fp, mem' = mem
    PROVE  /\ Len(Acts) \in Nat \ {0} /\ Len(Acts') = Len(Acts)
           /\ IsListTo(Acts, Len(Acts)) /\ IsListTo(Acts', Len(Acts))
           /\ \A d \in 1..(Len(Acts) - 1) : Acts'[d] = Acts[d]
           /\ Acts[Len(Acts)] = Activation(mem, fp, fn, sp, ra, pend # None)
           /\ Acts'[Len(Acts)] = Activation(mem, fp, fn', sp', ra', pend' # None)
<1>1. SameTo(mem, mem', fp + 1)
  BY DEF SameTo
<1>2. PICK F : Chain(mem, F) /\ Chain(mem', F) /\ F[Len(F)] = fp /\ Len(F) \in Nat \ {0}
  BY <1>1, InFrame
<1>3. /\ Len(Acts) = Len(F) /\ IsListTo(Acts, Len(Acts)) /\ HasCalled(Acts, mem, F)
      /\ Acts[Len(F)] = Activation(mem, fp, fn, sp, ra, pend # None)
  BY <1>2, ActsNow
<1>4. /\ Len(Acts') = Len(F) /\ IsListTo(Acts', Len(Acts')) /\ HasCalled(Acts', mem', F)
      /\ Acts'[Len(F)] = Activation(mem', fp', fn', sp', ra', pend' # None)
  BY <1>2, ActsNext
<1>5. HasCalled(Acts', mem, F)
  BY <1>4
<1>6. \A d \in 1..(Len(F) - 1) : Acts'[d] = Acts[d]
  BY <1>3, <1>5 DEF HasCalled
<1> QED BY <1>2, <1>3, <1>4, <1>6

LEMMA PreCallRefines == IInv /\ Passed /\ PreCall => Stack!Call
<1> SUFFICES ASSUME IInv, Passed, PreCall PROVE Stack!Call
  OBVIOUS
<1>1. at = "body" /\ at' = "prologue" /\ pend' = None /\ UNCHANGED <<mem, sp, fp, fn>>
  BY DEF PreCall
<1>2. PICK c \in Calls[fn] :
         /\ IF pend = None THEN c.narg > 0 ELSE c.narg = 0 /\ c.base < pend
         /\ rarg' = [Dead EXCEPT
                        !.exist = IF c.narg > 0 THEN c.narg - 1 ELSE NrArgs(c.base),
                        !.src = LocalAt(fp, c.base)]
         /\ ra' = [fn |-> fn, base |-> c.base, nret |-> c.nret]
  BY DEF PreCall
<1>3. /\ sp \in Nat /\ sp <= MaxWord /\ fp \in Nat /\ fp + 1 <= sp /\ fn \in LuaFn
      /\ NrLocals[fn] \in Nat /\ Room(fp, fn)
  BY <1>1, Running DEF Room
<1>4. PICK b \in Nat, k \in Nat : b = c.base /\ k = c.narg
  BY <1>3, CodeAssumption
<1>5. b < NrLocals[fn] /\ b + k <= NrLocals[fn]
  BY <1>3, <1>4, CodeAssumption
<1>6. PICK src, x : src = LocalAt(fp, b) /\ x = IF k > 0 THEN k - 1 ELSE NrArgs(b)
  OBVIOUS
<1>7. rarg'.src = src /\ rarg'.exist = x /\ ra'.base = b
  BY <1>2, <1>4, <1>6 DEF Dead
<1>8. /\ x \in Nat
      /\ (b + 1) + x <= NrLocals[fn] \/ (b + 1) + x <= TopOf(fp, sp)
      /\ pend # None => (b + 1) + x = TopOf(fp, sp)
  <2>1. CASE pend = None
    <3>1. x = k - 1
      BY <1>2, <1>4, <1>6, <2>1
    <3> QED BY <1>2, <1>3, <1>4, <1>5, <2>1, <3>1
  <2>2. CASE pend # None
    <3>1. x = NrArgs(b) /\ b < pend /\ pend \in Nat
      BY <1>2, <1>4, <1>6, <2>2 DEF IInv, TypeOK
    <3>2. PICK n \in Nat : sp = LocalAt(fp, pend) + 2 * n
      BY <2>2 DEF Passed
    <3>3. TopOf(fp, sp) = pend + n
      BY <1>3, <3>1, <3>2, OpenTop
    <3>4. PICK y \in Nat : y = pend + n - b - 1
      BY <3>1
    <3>5. sp - (fp + 2 * (2 + b)) = 2 * y
      BY <1>3, <3>1, <3>2, <3>4 DEF LocalAt
    <3>6. x = (2 * y) \div 2
      BY <3>1, <3>5 DEF NrArgs
    <3>7. x = y
      BY <3>4, <3>6
    <3> QED BY <3>1, <3>3, <3>4, <3>7
  <2> QED BY <2>1, <2>2
<1>9. /\ Len(Acts) \in Nat \ {0} /\ Len(Acts') = Len(Acts)
      /\ IsListTo(Acts, Len(Acts)) /\ IsListTo(Acts', Len(Acts))
      /\ \A d \in 1..(Len(Acts) - 1) : Acts'[d] = Acts[d]
      /\ Acts[Len(Acts)] = Activation(mem, fp, fn, sp, ra, pend # None)
      /\ Acts'[Len(Acts)] = Activation(mem, fp, fn', sp', ra', pend' # None)
  BY <1>1, Unmoved
<1>10. PICK o, o2, X, Y, site2 :
          /\ o = (pend # None) /\ o2 = FALSE /\ site2 = ra'
          /\ X = Acts[Len(Acts)] /\ Y = Acts'[Len(Acts)]
  OBVIOUS
<1>11. X = Activation(mem, fp, fn, sp, ra, o) /\ Y = Activation(mem, fp, fn, sp, site2, o2)
  <2>1. (pend' # None) = FALSE
    BY <1>1
  <2>2. Y = Activation(mem, fp, fn, sp, ra', FALSE)
    BY <1>1, <1>9, <1>10, <2>1
  <2> QED BY <1>9, <1>10, <2>2
<1>12. NowWaits(Acts, Acts', o2)
  <2>1. PICK n, A, A2 : n = Len(Acts) /\ A = Acts /\ A2 = Acts'
    OBVIOUS
  <2>2. /\ n \in Nat \ {0} /\ Len(A) = n /\ Len(A2) = n /\ IsListTo(A, n) /\ IsListTo(A2, n)
        /\ \A d \in 1..(n - 1) : A2[d] = A[d]
        /\ A[n] = Activation(mem, fp, fn, sp, ra, o)
        /\ A2[n] = Activation(mem, fp, fn, sp, site2, o2)
    BY <1>9, <1>10, <1>11, <2>1
  <2>3. NowWaits(A, A2, o2)
    BY <2>2, NowWaitsIf
  <2> QED BY <2>1, <2>3
<1>13. Passing = Stack!Idle
  BY <1>1 DEF Passing, Stack!Idle
<1>14. PICK P : P = Passing'
  OBVIOUS
<1>15. P = [kind |-> "call", slot |-> Slot(src, fp), fn |-> Called(mem[src]),
            vals |-> Pairs(mem, src + 2, x)]
  BY <1>1, <1>7, <1>14 DEF Passing
<1>16. P.kind = "call" /\ P.slot = b /\ P.vals = Pairs(mem, LocalAt(fp, b + 1), x)
  <2>1. Slot(src, fp) = b
    BY <1>3, <1>6, SlotAt
  <2>2. src + 2 = LocalAt(fp, b + 1)
    BY <1>3, <1>6 DEF LocalAt
  <2> QED BY <1>15, <2>1, <2>2
<1>17. Stack!Takes(P.vals, b + 1)
  <2>1. PICK from \in Nat : from = b + 1
    OBVIOUS
  <2>2. PICK V : V = Pairs(mem, LocalAt(fp, from), x)
    OBVIOUS
  <2>3. PICK l \in Nat : l = LocalAt(fp, from)
    BY <1>3 DEF LocalAt
  <2>4. Len(V) = x
    BY <1>8, <2>2, <2>3, PairsAre
  <2>5. X.locals = [i \in LocalsOf(fp, fn, sp) |-> Pair(mem, LocalAt(fp, i))] /\ X.open = o
    BY <1>11, Fields
  <2>6. AreLocals(V, X, from)
    <3>1. HasLocals(fp, fn, sp, from, x)
      BY <1>8, <2>1 DEF HasLocals
    <3>2. LocalsAre(X, mem, fp, fn, sp)
      BY <2>5 DEF LocalsAre
    <3> QED BY <1>3, <1>8, <2>2, <3>1, <3>2, LocalsTaken
  <2>7. X.open => from + x = X.top
    <3>1. X.top = TopOf(fp, sp)
      BY <1>11 DEF Activation, TopOf
    <3>2. X.open => pend # None
      BY <1>10, <2>5
    <3> QED BY <1>8, <2>1, <3>1, <3>2
  <2>8. P.vals = V
    BY <1>16, <2>1, <2>2
  <2> QED BY <1>10, <2>1, <2>4, <2>6, <2>7, <2>8 DEF Stack!Takes, Stack!Last, AreLocals
<1>18. Acts'[Len(Acts)].site.base = b
  <2>1. Y.site = site2
    BY <1>11 DEF Activation
  <2> QED BY <1>7, <1>10, <2>1
<1> QED BY <1>10, <1>12, <1>13, <1>14, <1>16, <1>17, <1>18 DEF Stack!Call, NowWaits

NowClosed(acts, acts2, open) == acts2 = [acts EXCEPT ![Len(acts)].open = open]

LEMMA NowClosedIf ==
    ASSUME NEW n \in Nat \ {0}, NEW A, NEW A2, Len(A) = n, Len(A2) = n,
           IsListTo(A, n), IsListTo(A2, n),
           \A d \in 1..(n - 1) : A2[d] = A[d],
           NEW m, NEW frame, NEW f, NEW s, NEW site, NEW o, NEW o2,
           A[n] = Activation(m, frame, f, s, site, o),
           A2[n] = Activation(m, frame, f, s, site, o2)
    PROVE  NowClosed(A, A2, o2)
<1>1. PICK L, t : L = [i \in LocalsOf(frame, f, s) |-> Pair(m, LocalAt(frame, i))]
                  /\ t = TopOf(frame, s)
  OBVIOUS
<1>2. PICK r, r2 : r = A[n] /\ r2 = A2[n]
  OBVIOUS
<1>3. /\ r = [fn |-> f, top |-> t, site |-> site, open |-> o, locals |-> L]
      /\ r2 = [fn |-> f, top |-> t, site |-> site, open |-> o2, locals |-> L]
  BY <1>1, <1>2 DEF Activation, TopOf, LocalsOf
<1>4. r2 = [r EXCEPT !.open = o2]
  BY ONLY <1>3
<1>5. PICK B : ChangedAt(A, n, r2, B)
  BY DEF ChangedAt
<1>6. IsListTo(B, n) /\ B[n] = r2 /\ \A d \in 1..(n - 1) : B[d] = A[d]
  BY <1>5, ListChanged
<1>7. \A d \in 1..n : B[d] = A2[d]
  BY <1>2, <1>6
<1>8. B = A2
  BY <1>6, <1>7, SameLists
<1> QED BY <1>2, <1>4, <1>5, <1>8 DEF NowClosed, ChangedAt

LEMMA RetRefines == IInv /\ Passed /\ Ret => Stack!Leave
<1> SUFFICES ASSUME IInv, Passed, Ret PROVE Stack!Leave
  OBVIOUS
<1>1. at = "body" /\ at' = "epilogue" /\ pend' = None /\ UNCHANGED <<mem, sp, fp, ra, fn>>
  BY DEF Ret
<1>2. PICK r \in Returns[fn] :
         /\ IF pend = None THEN r.nret > 0 ELSE r.nret = 0 /\ r.base <= pend
         /\ rarg' = [Dead EXCEPT
                        !.exist = IF r.nret > 0 THEN r.nret - 1
                                  ELSE (sp - LocalAt(fp, r.base)) \div 2,
                        !.src = LocalAt(fp, r.base)]
  BY DEF Ret
<1>3. /\ sp \in Nat /\ sp <= MaxWord /\ fp \in Nat /\ fp + 1 <= sp /\ fn \in LuaFn
      /\ NrLocals[fn] \in Nat
  BY <1>1, Running
<1>4. PICK b \in Nat, k \in Nat : b = r.base /\ k = r.nret
  BY <1>3, CodeAssumption
<1>5. b + k <= NrLocals[fn] + 1
  BY <1>3, <1>4, CodeAssumption
<1>6. PICK src, x : src = LocalAt(fp, b) /\ x = IF k > 0 THEN k - 1 ELSE (sp - src) \div 2
  OBVIOUS
<1>7. rarg'.src = src /\ rarg'.exist = x
  BY <1>2, <1>4, <1>6 DEF Dead
<1>8. /\ x \in Nat /\ HasLocals(fp, fn, sp, b, x)
      /\ pend # None => b + x = TopOf(fp, sp)
  <2>1. CASE pend = None
    <3>1. x = k - 1 /\ x \in Nat
      BY <1>2, <1>4, <1>6, <2>1
    <3>2. b + x <= NrLocals[fn]
      BY <1>3, <1>4, <1>5, <3>1
    <3> QED BY <2>1, <3>1, <3>2 DEF HasLocals
  <2>2. CASE pend # None
    <3>1. x = (sp - src) \div 2 /\ b <= pend /\ pend \in Nat
      BY <1>2, <1>4, <1>6, <2>2 DEF IInv, TypeOK
    <3>2. PICK n \in Nat : sp = LocalAt(fp, pend) + 2 * n
      BY <2>2 DEF Passed
    <3>3. TopOf(fp, sp) = pend + n
      BY <1>3, <3>1, <3>2, OpenTop
    <3>4. PICK y \in Nat : y = pend + n - b
      BY <3>1
    <3>5. sp - src = 2 * y
      BY <1>3, <1>6, <3>1, <3>2, <3>4 DEF LocalAt
    <3>6. x = (2 * y) \div 2
      BY <3>1, <3>5
    <3>7. x = y
      BY <3>4, <3>6
    <3> QED BY <3>1, <3>3, <3>4, <3>7 DEF HasLocals
  <2> QED BY <2>1, <2>2
<1>9. /\ Len(Acts) \in Nat \ {0} /\ Len(Acts') = Len(Acts)
      /\ IsListTo(Acts, Len(Acts)) /\ IsListTo(Acts', Len(Acts))
      /\ \A d \in 1..(Len(Acts) - 1) : Acts'[d] = Acts[d]
      /\ Acts[Len(Acts)] = Activation(mem, fp, fn, sp, ra, pend # None)
      /\ Acts'[Len(Acts)] = Activation(mem, fp, fn', sp', ra', pend' # None)
  BY <1>1, Unmoved
<1>10. PICK o, o2, X : o = (pend # None) /\ o2 = FALSE /\ X = Acts[Len(Acts)]
  OBVIOUS
<1>11. X = Activation(mem, fp, fn, sp, ra, o) /\ Acts'[Len(Acts)] = Activation(mem, fp, fn, sp, ra, o2)
  <2>1. (pend' # None) = FALSE
    BY <1>1
  <2>2. Acts'[Len(Acts)] = Activation(mem, fp, fn, sp, ra, FALSE)
    BY <1>1, <1>9, <2>1
  <2> QED BY <1>9, <1>10, <2>2
<1>12. NowClosed(Acts, Acts', o2)
  <2>1. PICK n, A, A2 : n = Len(Acts) /\ A = Acts /\ A2 = Acts'
    OBVIOUS
  <2>2. /\ n \in Nat \ {0} /\ Len(A) = n /\ Len(A2) = n /\ IsListTo(A, n) /\ IsListTo(A2, n)
        /\ \A d \in 1..(n - 1) : A2[d] = A[d]
        /\ A[n] = Activation(mem, fp, fn, sp, ra, o)
        /\ A2[n] = Activation(mem, fp, fn, sp, ra, o2)
    BY <1>9, <1>10, <1>11, <2>1
  <2>3. NowClosed(A, A2, o2)
    BY <2>2, NowClosedIf
  <2> QED BY <2>1, <2>3
<1>13. Passing = Stack!Idle
  BY <1>1 DEF Passing, Stack!Idle
<1>14. PICK P : P = Passing'
  OBVIOUS
<1>15. P = [kind |-> "leave", slot |-> Slot(src, fp), vals |-> Pairs(mem, src, x)]
  BY <1>1, <1>7, <1>14 DEF Passing
<1>16. PICK V : V = Pairs(mem, LocalAt(fp, b), x)
  OBVIOUS
<1>17. P.kind = "leave" /\ P.slot = b /\ P.vals = V
  <2>1. Slot(src, fp) = b
    BY <1>3, <1>6, SlotAt
  <2> QED BY <1>6, <1>15, <1>16, <2>1
<1>18. Stack!Takes(V, b)
  <2>1. PICK l \in Nat : l = LocalAt(fp, b)
    BY <1>3 DEF LocalAt
  <2>2. Len(V) = x
    BY <1>8, <1>16, <2>1, PairsAre
  <2>3. LocalsAre(X, mem, fp, fn, sp) /\ X.open = o
    BY <1>11, Fields DEF LocalsAre
  <2>4. AreLocals(V, X, b)
    BY <1>3, <1>8, <1>16, <2>3, LocalsTaken
  <2>5. X.open => b + x = X.top
    <3>1. X.top = TopOf(fp, sp)
      BY <1>11 DEF Activation, TopOf
    <3>2. X.open => pend # None
      BY <1>10, <2>3
    <3> QED BY <1>8, <3>1, <3>2
  <2> QED BY <1>10, <2>2, <2>4, <2>5 DEF Stack!Takes, Stack!Last, AreLocals
<1> QED BY <1>10, <1>12, <1>13, <1>14, <1>17, <1>18 DEF Stack!Leave, NowClosed

\* No activation loses anything below top while no word of the last frame changes.
LEMMA AllKept ==
    ASSUME NEW m, NEW m2, NEW F, Chain(m, F), NEW s \in Nat, s <= MaxWord,
           SameTo(m, m2, s), NEW a, NEW a2, HasCalled(a, m, F), HasCalled(a2, m2, F),
           NEW frame \in Nat, frame = F[Len(F)], frame + 1 <= s,
           NEW f \in LuaFn, NEW site, NEW o, NEW o2,
           a[Len(F)] = Activation(m, frame, f, s, site, o),
           a2[Len(F)] = Activation(m2, frame, f, s, site, o2),
           NEW d \in 1..Len(F)
    PROVE  Stack!Keeps(a[d], a2[d])
<1>1. CASE d = Len(F)
  BY <1>1, KeptBelow
<1>2. CASE d # Len(F)
  <2>1. Len(F) \in Nat
    BY DEF Chain
  <2>2. d \in 1..(Len(F) - 1)
    BY <1>2, <2>1
  <2>3. F[Len(F)] - 1 <= s
    <3>1. PICK x : x = F[Len(F)]
      OBVIOUS
    <3> QED BY <3>1
  <2> QED BY <2>2, <2>3, CalledKept
<1> QED BY <1>1, <1>2

\* While arguments are on their way nothing happens to the words of the frame.
LEMMA LosesIf ==
    ASSUME IInv, at = "prologue", SameTo(mem, mem', sp), NEW P2, P2 = Passing',
           P2.kind = "call", P2.slot = ra.base, P2.fn = Called(mem'[rarg.src]),
           P2.vals = Pairs(mem', LocalAt(fp, ra.base + 1), rarg.exist),
           Len(Acts') = Len(Acts), Stack!OthersKept(0)
    PROVE  Stack!Lose
<1>1. /\ sp \in Nat /\ sp <= MaxWord /\ fp \in Nat /\ fp + 1 <= sp /\ fn \in LuaFn
      /\ DOMAIN mem = Address
  BY Running
<1>2. PICK b \in Nat : b = ra.base /\ rarg.src = LocalAt(fp, b)
  BY DEF IInv, Registers, CallSite
<1>3. PICK x \in Nat : x = rarg.exist
  BY DEF IInv, TypeOK
<1>4. PICK P : P = Passing
  OBVIOUS
<1>5. P = [kind |-> "call", slot |-> Slot(LocalAt(fp, b), fp), fn |-> Called(mem[rarg.src]),
           vals |-> Pairs(mem, LocalAt(fp, b) + 2, x)]
  BY <1>2, <1>3, <1>4 DEF Passing
<1>6. PICK V, V2 : /\ V = Pairs(mem, LocalAt(fp, b + 1), x)
                   /\ V2 = Pairs(mem', LocalAt(fp, b + 1), x)
  OBVIOUS
<1>7. P.kind = "call" /\ P.slot = b /\ P.fn = Called(mem[rarg.src]) /\ P.vals = V
  <2>1. Slot(LocalAt(fp, b), fp) = b
    BY <1>1, SlotAt
  <2>2. LocalAt(fp, b) + 2 = LocalAt(fp, b + 1)
    BY <1>1 DEF LocalAt
  <2> QED BY <1>5, <1>6, <2>1, <2>2
<1>8. P2.vals = V2
  BY <1>2, <1>3, <1>6
<1>9. Acts[Len(Acts)].top = TopOf(fp, sp)
  <2>1. PICK F : Chain(mem, F) /\ F[Len(F)] = fp
    BY Running DEF Framed
  <2>2. Acts[Len(Acts)] = Activation(mem, fp, fn, sp, ra, pend # None)
    BY <2>1, ActsNow
  <2>3. PICK X, o : X = Acts[Len(Acts)] /\ o = (pend # None)
    OBVIOUS
  <2>4. X = Activation(mem, fp, fn, sp, ra, o)
    BY <2>2, <2>3
  <2>5. X.top = TopOf(fp, sp)
    BY <2>4 DEF Activation, TopOf
  <2> QED BY <2>3, <2>5
<1>10. Stack!PassedOn(V, V2, b + 1, TopOf(fp, sp))
  <2>1. PICK from \in Nat : from = b + 1
    OBVIOUS
  <2> QED BY <1>1, <1>6, <2>1, PairsKept
<1>11. b < TopOf(fp, sp) => mem'[rarg.src] = mem[rarg.src]
  <2> SUFFICES ASSUME b < TopOf(fp, sp) PROVE mem'[rarg.src] = mem[rarg.src]
    OBVIOUS
  <2>1. PICK l \in Nat : l = LocalAt(fp, b)
    BY <1>1 DEF LocalAt
  <2>2. l + 1 <= sp
    BY <1>1, <2>1, BelowTop
  <2>3. l \in Address /\ l <= sp
    BY <1>1, <2>2 DEF Address
  <2> QED BY <1>2, <2>1, <2>3 DEF SameTo
<1> QED BY <1>2, <1>4, <1>7, <1>8, <1>9, <1>10, <1>11 DEF Stack!Lose, Stack!Last

LEMMA NothingLost ==
    ASSUME IInv, at # "done", at # "enter", at' \notin {"done", "enter"},
           fp' = fp, fn' = fn, sp' = sp, ra' = ra, SameTo(mem, mem', sp)
    PROVE  Len(Acts') = Len(Acts) /\ Stack!OthersKept(0)
<1>1. PICK s \in Nat, frame \in Nat : s = sp /\ s <= MaxWord /\ frame = fp /\ frame + 1 <= s
  BY Running
<1>2. SameTo(mem, mem', fp + 1)
  <2>1. \A a \in Address : a <= fp + 1 => a <= sp
    BY <1>1 DEF Address
  <2> QED BY <2>1 DEF SameTo
<1>3. PICK F : Chain(mem, F) /\ Chain(mem', F) /\ F[Len(F)] = fp /\ Len(F) \in Nat \ {0}
  BY <1>2, InFrame
<1>4. PICK o, o2 : o = (pend # None) /\ o2 = (pend' # None)
  OBVIOUS
<1>5. PICK f \in LuaFn : f = fn
  BY Running
<1>6. /\ Len(Acts) = Len(F) /\ HasCalled(Acts, mem, F)
      /\ Acts[Len(F)] = Activation(mem, frame, f, s, ra, o)
  BY <1>1, <1>3, <1>4, <1>5, ActsNow
<1>7. /\ Len(Acts') = Len(F) /\ HasCalled(Acts', mem', F)
      /\ Acts'[Len(F)] = Activation(mem', frame, f, s, ra, o2)
  <2>1. /\ Len(Acts') = Len(F) /\ HasCalled(Acts', mem', F)
        /\ Acts'[Len(F)] = Activation(mem', fp', fn', sp', ra', pend' # None)
    BY <1>3, ActsNext
  <2> QED BY <1>1, <1>4, <1>5, <2>1
<1>8. SameTo(mem, mem', s)
  BY <1>1
<1>9. ASSUME NEW d \in 1..Len(F) PROVE Stack!Keeps(Acts[d], Acts'[d])
  BY <1>1, <1>3, <1>6, <1>7, <1>8, AllKept
<1>10. Len(F) - 0 = Len(F)
  BY <1>3
<1> QED BY <1>6, <1>7, <1>9, <1>10 DEF Stack!OthersKept

\* A machine that has lost its way keeps what it had.
LEMMA AstrayRefines ==
    ASSUME IInv, at = "prologue", NEW where \in {"astray", "aborted"}, NEW m, Stopping(where, m),
           SameTo(mem, m, sp)
    PROVE  Stack!Lose
<1>1. at' \in {"astray", "aborted"} /\ mem' = m /\ UNCHANGED <<sp, fp, ra, rarg, fn, pend>>
  BY DEF Stopping
<1>2. SameTo(mem, mem', sp)
  BY <1>1
<1>3. Len(Acts') = Len(Acts) /\ Stack!OthersKept(0)
  BY <1>1, <1>2, NothingLost
<1>4. PICK P2 : P2 = Passing'
  OBVIOUS
<1>5. PICK b \in Nat : b = ra.base /\ rarg.src = LocalAt(fp, b)
  BY DEF IInv, Registers, CallSite
<1>6. P2 = [kind |-> "call", slot |-> Slot(rarg.src, fp), fn |-> Called(mem'[rarg.src]),
            vals |-> Pairs(mem', rarg.src + 2, rarg.exist)]
  BY <1>1, <1>4 DEF Passing
<1>7. Slot(LocalAt(fp, b), fp) = b /\ LocalAt(fp, b) + 2 = LocalAt(fp, b + 1)
  <2>1. fp \in Nat
    BY Running
  <2> QED BY <2>1, SlotAt DEF LocalAt
<1>8. /\ P2.kind = "call" /\ P2.slot = ra.base /\ P2.fn = Called(mem'[rarg.src])
      /\ P2.vals = Pairs(mem', LocalAt(fp, ra.base + 1), rarg.exist)
  BY <1>5, <1>6, <1>7
<1> QED BY <1>2, <1>3, <1>4, <1>8, LosesIf

LEMMA LuaProRefines == IInv /\ LuaPro => Stack!Lose
<1> SUFFICES ASSUME IInv, LuaPro PROVE Stack!Lose
  OBVIOUS
<1>1. at = "prologue" /\ sp + 3 <= MaxWord
  BY DEF LuaPro
<1>2. SameTo(mem, Header, sp)
  BY <1>1, HeaderWords DEF SameTo
<1>3. CASE Header[rarg.src] \notin {Val(f) : f \in LuaFn}
  <2>1. Stopping("astray", Header)
    BY <1>3, StoppingWays DEF LuaPro
  <2> QED BY <1>1, <1>2, <2>1, AstrayRefines
<1>4. CASE Header[rarg.src] \in {Val(f) : f \in LuaFn}
  <2>1. /\ mem' = Header /\ fp' = sp + 2 /\ fn' = Header[rarg.src].v /\ at' = "enter"
        /\ rarg' = [rarg EXCEPT !.src = rarg.src + 2, !.dst = LocalAt(sp + 2, 0)]
    BY <1>4 DEF LuaPro
  <2>2. PICK b \in Nat : b = ra.base /\ rarg.src = LocalAt(fp, b) /\ ra.fn = fn
    BY <1>1 DEF IInv, Registers, CallSite
  <2>3. PICK s \in Nat, frame \in Nat :
           s = sp /\ s <= MaxWord /\ frame = fp /\ frame + 1 <= s
    BY <1>1, Running
  <2>4. PICK f \in LuaFn : f = fn
    BY <1>1, Running
  <2>5. PICK x, src : x = rarg.exist /\ src = rarg.src
    OBVIOUS
  <2>6. rarg'.src = src + 2 /\ rarg'.exist = x
    <3>1. rarg \in [exist : Nat, src : Nat, dst : Nat, expect : Nat]
      BY DEF IInv, TypeOK, Address
    <3>2. PICK c, e : c = rarg.src + 2 /\ e = LocalAt(sp + 2, 0)
      OBVIOUS
    <3>3. rarg' = [rarg EXCEPT !.src = c, !.dst = e]
      BY <2>1, <3>2
    <3>4. rarg'.src = c /\ rarg'.exist = rarg.exist
      BY <3>1, <3>3
    <3> QED BY <2>5, <3>2, <3>4
  <2>7. src = LocalAt(frame, b) /\ src \in Nat
    BY <2>2, <2>3, <2>5 DEF LocalAt
  <2>8. PICK P2 : P2 = Passing'
    OBVIOUS
  <2>9. P2 = [kind |-> "call", slot |-> Slot(rarg'.src - 2, mem'[fp'].a), fn |-> fn',
              vals |-> Pairs(mem', rarg'.src, rarg'.exist)]
    BY <2>1, <2>8 DEF Passing
  <2>10. P2.slot = b
    <3>1. mem'[fp'].a = fp
      <4>1. mem'[sp + 2] = FP(fp)
        BY <1>1, <2>1, HeaderWords
      <4> QED BY <2>1, <4>1 DEF FP
    <3>2. rarg'.src - 2 = src
      BY <2>6, <2>7
    <3>3. Slot(src, frame) = b
      BY <2>3, <2>7, SlotAt
    <3> QED BY <2>3, <2>9, <3>1, <3>2, <3>3
  <2>11. P2.fn = Called(mem'[rarg.src])
    <3>1. PICK g : mem'[rarg.src] = Val(g)
      BY <1>4, <2>1
    <3>2. Called(Val(g)) = g /\ Val(g).v = g
      BY DEF Called, Val
    <3> QED BY <2>1, <2>9, <3>1, <3>2
  <2>12. P2.vals = Pairs(mem', LocalAt(fp, ra.base + 1), rarg.exist)
    <3>1. src + 2 = LocalAt(fp, b + 1)
      BY <2>2, <2>3, <2>5 DEF LocalAt
    <3> QED BY <2>2, <2>5, <2>6, <2>9, <3>1
  <2>13. Len(Acts') = Len(Acts) /\ Stack!OthersKept(0)
    <3>1. PICK F : Chain(mem, F) /\ F[Len(F)] = fp
      BY <1>1, Running DEF Framed
    <3>2. PICK G : G = Append(F, sp + 2)
      OBVIOUS
    <3>3. /\ Chain(mem', G) /\ Len(G) = Len(F) + 1 /\ G[Len(F) + 1] = sp + 2
          /\ \A d \in 1..Len(F) : G[d] = F[d]
      BY <1>1, <2>1, <3>1, <3>2, FramePushed
    <3>4. Len(F) \in Nat \ {0}
      BY <3>1, EmptySeq DEF Chain
    <3>5. PICK o, o2 : o = (pend # None) /\ o2 = FALSE
      OBVIOUS
    <3>6. /\ Len(Acts) = Len(F) /\ HasCalled(Acts, mem, F)
          /\ Acts[Len(F)] = Activation(mem, frame, f, s, ra, o)
      BY <1>1, <2>3, <2>4, <3>1, <3>5, ActsNow
    <3>7. Len(Acts') = Len(F) /\ HasCalled(Acts', mem', G)
      <4>1. PICK k, l : k = Len(F) /\ l = Len(G)
        OBVIOUS
      <4>2. k \in Nat /\ l = k + 1 /\ l - 1 = k
        BY <3>3, <3>4, <4>1
      <4>3. G[Len(G)] = fp'
        BY <2>1, <3>3
      <4>4. Len(Acts') = Len(G) - 1 /\ HasCalled(Acts', mem', G)
        BY <2>1, <3>3, <4>3, ActsNext
      <4> QED BY <4>1, <4>2, <4>4
    <3>8. HasCalled(Acts', mem', F)
      <4>1. \A d \in 1..(Len(F) - 1) : d \in 1..Len(F) /\ d + 1 \in 1..Len(F) /\ d \in 1..(Len(G) - 1)
        BY <3>3, <3>4
      <4> QED BY <3>3, <3>7, <4>1 DEF HasCalled
    <3>9. Acts'[Len(F)] = Activation(mem', frame, f, s, ra, o2)
      <4>1. Len(F) \in 1..(Len(G) - 1) /\ Len(F) \in 1..Len(F)
        BY <3>3, <3>4
      <4>2. Acts'[Len(F)] = Suspended(mem', G[Len(F)], G[Len(F) + 1])
        BY <3>7, <4>1 DEF HasCalled
      <4>3. G[Len(F)] = frame /\ G[Len(F) + 1] = s + 2
        BY <2>3, <3>1, <3>3, <4>1
      <4>4. (s + 2) - 1 = s + 1 /\ (s + 2) - 2 = s
        OBVIOUS
      <4>5. mem'[s + 1] = RA(ra)
        BY <1>1, <2>1, <2>3, HeaderWords
      <4>6. RA(ra).site = ra
        BY DEF RA
      <4>7. Suspended(mem', frame, s + 2) = Activation(mem', frame, ra.fn, s, ra, FALSE)
        BY <4>4, <4>5, <4>6 DEF Suspended
      <4> QED BY <2>2, <2>4, <3>5, <4>2, <4>3, <4>7
    <3>10. SameTo(mem, mem', s)
      BY <1>2, <2>1, <2>3
    <3>11. ASSUME NEW d \in 1..Len(F) PROVE Stack!Keeps(Acts[d], Acts'[d])
      BY <2>3, <3>1, <3>6, <3>8, <3>9, <3>10, AllKept
    <3>12. Len(F) - 0 = Len(F)
      BY <3>4
    <3> QED BY <3>6, <3>7, <3>11, <3>12 DEF Stack!OthersKept
  <2>14. SameTo(mem, mem', sp)
    BY <1>2, <2>1
  <2>15. P2.kind = "call" /\ P2.slot = ra.base
    BY <2>2, <2>9, <2>10
  <2> QED BY <1>1, <2>8, <2>11, <2>12, <2>13, <2>14, <2>15, LosesIf
<1> QED BY <1>3, <1>4

LEMMA CProRefines == IInv /\ CPro => Stack!Lose \/ Stack!CallC
<1> SUFFICES ASSUME IInv, CPro PROVE Stack!Lose \/ Stack!CallC
  OBVIOUS
<1>1. at = "prologue"
  BY DEF CPro
<1>2. CASE Stopping("astray", mem) \/ Stopping("aborted", mem)
  <2>1. SameTo(mem, mem, sp)
    BY DEF SameTo
  <2> QED BY <1>1, <1>2, <2>1, AstrayRefines
<1>3. CASE ~Stopping("astray", mem) /\ ~Stopping("aborted", mem)
  <2>1. PICK n \in 0..MaxResults : \E res \in [1..n -> LuaFn \cup CFn] :
           mem' = AfterC(n, res) /\ at' = "postcall" /\ UNCHANGED <<sp, fp, ra, fn, pend>>
    BY <1>3, StoppingWays DEF CPro
  <2>2. PICK res : mem' = AfterC(n, res)
    BY <2>1
  <2>3. SameTo(mem, mem', sp)
    BY <1>1, <2>2, AfterCWords DEF SameTo
  <2>4. Len(Acts') = Len(Acts) /\ Stack!OthersKept(0)
    BY <1>1, <2>1, <2>3, NothingLost
  <2>5. Passing.kind = "call"
    <3>1. PICK P, x, y, z : P = Passing /\ x = Slot(rarg.src, fp) /\ y = Called(mem[rarg.src])
                            /\ z = Pairs(mem, rarg.src + 2, rarg.exist)
      OBVIOUS
    <3>2. P = [kind |-> "call", slot |-> x, fn |-> y, vals |-> z]
      BY <1>1, <3>1 DEF Passing
    <3>3. P.kind = "call"
      BY <3>2
    <3> QED BY <3>1, <3>3
  <2>6. Passing'.kind = "return"
    <3>1. PICK P, z : P = Passing' /\ z = Pairs(mem', rarg'.src, rarg'.exist)
      OBVIOUS
    <3>2. P = [kind |-> "return", vals |-> z]
      BY <2>1, <3>1 DEF Passing
    <3>3. P.kind = "return"
      BY <3>2
    <3> QED BY <3>1, <3>3
  <2> QED BY <2>4, <2>5, <2>6 DEF Stack!CallC
<1> QED BY <1>2, <1>3

\* The results stay where they are until the caller takes them.
LEMMA ResultsLeft ==
    ASSUME IInv, Passed, Epilogue, NEW P, P = Passing, NEW t, t = TopOf(fp, sp)
    PROVE  /\ P.kind = "leave"
           /\ \A P2 : P2.vals = Pairs(mem', rarg'.src, rarg'.exist)
                         => Stack!PassedOn(P.vals, P2.vals, P.slot, t)
<1>1. at = "epilogue" /\ mem' = Clobbered(mem, sp) /\ rarg' = [rarg EXCEPT !.dst = mem[fp + 1].a]
  BY DEF Epilogue
<1>2. sp \in Nat /\ sp <= MaxWord /\ fp \in Nat /\ fp + 1 <= sp /\ fn \in LuaFn
  BY <1>1, Running
<1>3. PICK b \in Nat : rarg.src = LocalAt(fp, b)
  BY <1>1 DEF Passed
<1>4. PICK x \in Nat : x = rarg.exist
  BY DEF IInv, TypeOK
<1>5. rarg'.src = LocalAt(fp, b) /\ rarg'.exist = x
  <2>1. rarg \in [exist : Nat, src : Nat, dst : Nat, expect : Nat]
    BY DEF IInv, TypeOK, Address
  <2>2. rarg'.src = rarg.src /\ rarg'.exist = rarg.exist
    BY <1>1, <2>1
  <2> QED BY <1>3, <1>4, <2>2
<1>6. P = [kind |-> "leave", slot |-> Slot(LocalAt(fp, b), fp),
           vals |-> Pairs(mem, LocalAt(fp, b), x)]
  BY <1>1, <1>3, <1>4 DEF Passing
<1>7. PICK V, V2 : V = Pairs(mem, LocalAt(fp, b), x) /\ V2 = Pairs(mem', LocalAt(fp, b), x)
  OBVIOUS
<1>8. P.kind = "leave" /\ P.slot = b /\ P.vals = V
  BY <1>2, <1>6, <1>7, SlotAt
<1>9. SameTo(mem, mem', sp)
  BY <1>1, EpilogueWords DEF SameTo
<1>10. Stack!PassedOn(V, V2, b, t)
  BY <1>2, <1>7, <1>9, PairsKept
<1> QED BY <1>5, <1>7, <1>8, <1>10

LEMMA EpilogueRefines == IInv /\ Passed /\ Epilogue => Stack!Return \/ Stack!Finish
<1> SUFFICES ASSUME IInv, Passed, Epilogue PROVE Stack!Return \/ Stack!Finish
  OBVIOUS
<1>1. at = "epilogue" /\ mem' = Clobbered(mem, sp) /\ pend' = pend /\ pend = None
  BY DEF Epilogue, IInv, Registers
<1>2. PICK F : Chain(mem, F) /\ F[Len(F)] = fp
  BY <1>1, Running DEF Framed
<1>3. Len(F) \in Nat \ {0}
  BY <1>2, EmptySeq DEF Chain
<1>4. PICK o : o = FALSE
  OBVIOUS
<1>5. /\ Len(Acts) = Len(F) /\ HasCalled(Acts, mem, F)
      /\ Acts[Len(F)] = Activation(mem, fp, fn, sp, ra, o)
  <2>1. (pend # None) = FALSE
    BY <1>1
  <2>2. Acts[Len(F)] = Activation(mem, fp, fn, sp, ra, FALSE)
    BY <1>1, <1>2, <2>1, ActsNow
  <2> QED BY <1>1, <1>2, <1>4, <2>2, ActsNow
<1>6. PICK P : P = Passing
  OBVIOUS
<1>7. PICK t : t = TopOf(fp, sp)
  OBVIOUS
<1>8. P.kind = "leave"
  BY <1>6, <1>7, ResultsLeft
<1>9. CASE Len(F) = 1
  <2>1. at' = "done"
    <3>1. fp = 2 /\ mem[1] = RA(Nowhere)
      BY <1>2, <1>9 DEF Chain
    <3>2. RA(Nowhere).site = Nowhere /\ 2 - 1 = 1
      BY DEF RA
    <3> QED BY <3>1, <3>2 DEF Epilogue
  <2>2. Acts' = <<>> /\ Passing' = Stack!Idle
    <3>1. Acts' = <<>>
      BY <2>1 DEF Acts
    <3>2. Passing' = Stack!Idle
      BY <2>1 DEF Passing, Stack!Idle
    <3> QED BY <3>1, <3>2
  <2> QED BY <1>5, <1>6, <1>8, <1>9, <2>2 DEF Stack!Finish
<1>10. CASE Len(F) > 1
  <2>0. PICK below \in Nat, s \in CallSite : \E G : Popped(F, G, below, s)
    BY <1>2, <1>10, FramePopped
  <2>1. PICK G : Popped(F, G, below, s)
    BY <2>0
  <2>2. /\ below + 3 <= fp /\ mem[fp - 1] = RA(s) /\ Chain(mem, G) /\ Chain(mem', G)
        /\ Len(G) = Len(F) - 1 /\ G[Len(G)] = below
        /\ \A d \in 1..Len(G) : G[d] = F[d]
        /\ sp' = fp - 2 /\ fp' = below /\ ra' = s /\ fn' = s.fn /\ at' = "postcall"
    BY <2>1 DEF Popped
  <2>3. PICK top \in Nat, f \in LuaFn : top = fp - 2 /\ below + 1 <= top /\ top <= sp
                                        /\ top <= MaxWord /\ f = s.fn
    <3>1. fp \in Nat /\ sp \in Nat /\ fp + 1 <= sp /\ sp <= MaxWord
      BY <1>1, Running
    <3>2. s.fn \in LuaFn
      BY DEF CallSite
    <3> QED BY <2>2, <3>1, <3>2
  <2>4. /\ Len(Acts') = Len(G) /\ HasCalled(Acts', mem', G)
        /\ Acts'[Len(G)] = Activation(mem', below, f, top, s, o)
    <3>1. (pend' # None) = FALSE
      BY <1>1
    <3>2. Acts'[Len(G)] = Activation(mem', fp', fn', sp', ra', FALSE)
      BY <2>2, <3>1, ActsNext
    <3> QED BY <1>4, <2>2, <2>3, <3>2, ActsNext
  <2>5. HasCalled(Acts, mem, G)
    <3>1. \A d \in 1..(Len(G) - 1) : d \in 1..Len(G) /\ d + 1 \in 1..Len(G) /\ d \in 1..(Len(F) - 1)
      BY <1>3, <2>2
    <3> QED BY <1>5, <2>2, <3>1 DEF HasCalled
  <2>6. Acts[Len(G)] = Activation(mem, below, f, top, s, o)
    <3>1. Len(G) \in 1..(Len(F) - 1) /\ Len(G) + 1 = Len(F) /\ Len(G) \in 1..Len(G)
      BY <1>3, <1>10, <2>2
    <3>2. Acts[Len(G)] = Suspended(mem, below, fp)
      BY <1>2, <1>5, <2>2, <3>1 DEF HasCalled
    <3>3. RA(s).site = s
      BY DEF RA
    <3>4. Suspended(mem, below, fp) = Activation(mem, below, f, top, s, FALSE)
      BY <2>2, <2>3, <3>3 DEF Suspended
    <3> QED BY <1>4, <3>2, <3>4
  <2>7. SameTo(mem, mem', top)
    <3>1. \A a \in Address : a <= top => a <= sp
      BY <1>1, <2>3, Running DEF Address
    <3> QED BY <1>1, <3>1, EpilogueWords DEF SameTo
  <2>8. ASSUME NEW d \in 1..Len(G) PROVE Stack!Keeps(Acts[d], Acts'[d])
    <3>1. below = G[Len(G)] /\ Chain(mem, G)
      BY <2>2
    <3>2. below + 1 <= top /\ top <= MaxWord
      BY <2>3
    <3>3. /\ HasCalled(Acts', mem', G)
          /\ Acts'[Len(G)] = Activation(mem', below, f, top, s, o)
      BY <2>4
    <3> QED BY <2>5, <2>6, <2>7, <3>1, <3>2, <3>3, AllKept
  <2>9. Len(Acts) > 1 /\ Len(Acts') = Len(Acts) - 1 /\ Stack!OthersKept(1)
    BY <1>5, <1>10, <2>2, <2>4, <2>8 DEF Stack!OthersKept
  <2>10. PICK P2 : P2 = Passing'
    OBVIOUS
  <2>11. P2 = [kind |-> "return", vals |-> Pairs(mem', rarg'.src, rarg'.exist)]
    BY <2>2, <2>10 DEF Passing
  <2>12. P2.kind = "return" /\ P2.vals = Pairs(mem', rarg'.src, rarg'.exist)
    BY <2>11
  <2>13. Stack!PassedOn(P.vals, P2.vals, P.slot, t)
    BY <1>6, <1>7, <2>12, ResultsLeft
  <2>14. Acts[Len(Acts)].top = t
    <3>1. PICK X : X = Acts[Len(Acts)]
      OBVIOUS
    <3>2. X = Activation(mem, fp, fn, sp, ra, o)
      BY <1>5, <3>1
    <3>3. X.top = TopOf(fp, sp)
      BY <3>2 DEF Activation, TopOf
    <3> QED BY <1>7, <3>1, <3>3
  <2> QED BY <1>6, <1>8, <2>9, <2>10, <2>12, <2>13, <2>14 DEF Stack!Return, Stack!Last
<1>11. Len(F) = 1 \/ Len(F) > 1
  <2>1. \A k \in Nat \ {0} : k = 1 \/ k > 1
    OBVIOUS
  <2> QED BY <1>3, <2>1, Zenon
<1> QED BY <1>9, <1>10, <1>11

\* What is copied arrives as it was, ...
LEMMA ArgResArrives ==
    ASSUME NEW m, DOMAIN m = Address, NEW r \in [exist : Nat, src : Nat, dst : Nat, expect : Nat],
           NEW n, n = Least(r.exist, r.expect), NEW i \in Nat, i < n,
           r.dst + 2 * n <= MaxWord + 1, r.src + 2 * i + 1 <= MaxWord,
           r.dst <= r.src \/ r.src + 2 * i + 1 < r.dst
    PROVE  Pair(ArgResCpy(m, r), r.dst + 2 * i) = Pair(m, r.src + 2 * i)
<1>1. PICK dst \in Nat, src \in Nat, exist \in Nat, expect \in Nat :
         dst = r.dst /\ src = r.src /\ exist = r.exist /\ expect = r.expect
  OBVIOUS
<1>2. n \in Nat
  BY <1>1 DEF Least
<1>3. PICK A, C : A = ArgResCpy(m, r) /\ C = Copied(m, dst, src, n)
  OBVIOUS
<1>4. \A a \in Address : A[a] = C[a]
  BY <1>1, <1>3, ArgResCopied
<1>5. SamePair(C, dst + 2 * i, m, src + 2 * i)
  <2>1. i \in 0..(n - 1)
    BY <1>2
  <2>2. dst + 2 * n <= MaxWord + 1 /\ src + 2 * i + 1 <= MaxWord
        /\ (dst <= src \/ src + 2 * i + 1 < dst)
    BY <1>1
  <2> QED BY <1>2, <1>3, <2>1, <2>2, CopiedHere
<1>6. PICK x, y : x = dst + 2 * i /\ y = src + 2 * i
  OBVIOUS
<1>7. x \in Address /\ x + 1 \in Address
  <2>1. dst + 2 * n <= MaxWord + 1
    BY <1>1
  <2>2. x \in Nat /\ x + 1 <= dst + 2 * n - 1
    BY <1>2, <1>6
  <2>3. x \in Nat /\ x + 1 <= MaxWord /\ MaxWord \in Nat
    BY <1>2, <2>1, <2>2, BoundsAssumption
  <2> QED BY ONLY <2>3 DEF Address
<1>8. A[x] = m[y] /\ A[x + 1] = m[y + 1]
  BY <1>4, <1>5, <1>6, <1>7 DEF SamePair
<1> QED BY <1>1, <1>3, <1>6, <1>8 DEF Pair

\* ... and the other words are kept.
LEMMA ArgResElsewhere ==
    ASSUME NEW m, DOMAIN m = Address, NEW r \in [exist : Nat, src : Nat, dst : Nat, expect : Nat],
           NEW n, n = Least(r.exist, r.expect), NEW l \in Nat, l + 1 \in Address,
           l + 1 < r.dst \/ l >= r.dst + 2 * n
    PROVE  Pair(ArgResCpy(m, r), l) = Pair(m, l)
<1>1. PICK dst \in Nat, src \in Nat, exist \in Nat, expect \in Nat :
         dst = r.dst /\ src = r.src /\ exist = r.exist /\ expect = r.expect
  OBVIOUS
<1>2. n \in Nat
  BY <1>1 DEF Least
<1>3. PICK A, C : A = ArgResCpy(m, r) /\ C = Copied(m, dst, src, n)
  OBVIOUS
<1>4. \A a \in Address : A[a] = C[a]
  BY <1>1, <1>3, ArgResCopied
<1>5. \A a \in Address : a < dst \/ a >= dst + 2 * n => C[a] = m[a]
  <2>1. PICK f : Turns(f, m, dst, src, n) /\ C = f[n]
    BY <1>2, <1>3, CopyInTurns
  <2>2. n \in 0..n
    BY <1>2
  <2> QED BY <1>2, <2>1, <2>2, TurnsElsewhere
<1>6. l \in Address /\ (l < dst \/ l >= dst + 2 * n) /\ (l + 1 < dst \/ l + 1 >= dst + 2 * n)
  <2>1. l + 1 < dst \/ l >= dst + 2 * n
    BY <1>1
  <2> QED BY <1>2, <2>1 DEF Address
<1>7. A[l] = m[l] /\ A[l + 1] = m[l + 1]
  BY <1>4, <1>5, <1>6
<1> QED BY <1>3, <1>7 DEF Pair

\* The frame that is being entered was called from site s of the frame below.
CalledFrom(F, below, s) ==
    /\ Len(F) \in Nat /\ Len(F) > 1 /\ F[Len(F) - 1] = below /\ below + 3 <= fp
    /\ mem[fp] = FP(below) /\ mem[fp - 1] = RA(s)
    /\ rarg.src - 2 = LocalAt(below, s.base)

LEMMA Entering ==
    ASSUME IInv, Passed, at = "enter", NEW F, Chain(mem, F), F[Len(F)] = fp
    PROVE  \E below \in Nat, s \in CallSite : CalledFrom(F, below, s)
<1>1. fp > 2 /\ mem[fp + 1] = CL(rarg.src - 2)
  BY DEF Passed
<1>2. Len(F) \in Nat \ {0}
  BY EmptySeq DEF Chain
<1>3. Len(F) > 1
  <2>1. Len(F) # 1
    <3>1. F[1] = 2 /\ fp # 2
      BY <1>1, Running DEF Chain
    <3> QED BY <3>1
  <2>2. \A k \in Nat \ {0} : k # 1 => k > 1
    OBVIOUS
  <2> QED BY <1>2, <2>1, <2>2
<1>4. Len(F) \in 2..Len(F) /\ Len(F) - 1 \in 1..Len(F)
  BY <1>2, <1>3
<1>5. PICK below \in Nat : below = F[Len(F) - 1]
  BY <1>4, ChainOrder DEF Address
<1>6. below + 3 <= fp /\ Saved(mem, below, fp)
  BY <1>4, <1>5 DEF Chain
<1>7. PICK s \in CallSite : /\ mem[fp] = FP(below) /\ mem[fp - 1] = RA(s)
                            /\ mem[fp + 1] = CL(LocalAt(below, s.base))
  BY <1>6 DEF Saved
<1>8. rarg.src - 2 = LocalAt(below, s.base)
  <2>1. PICK x, y : x = rarg.src - 2 /\ y = LocalAt(below, s.base)
    OBVIOUS
  <2>2. CL(x) = CL(y)
    BY <1>1, <1>7, <2>1
  <2>3. CL(x).a = x /\ CL(y).a = y
    BY DEF CL
  <2> QED BY <2>1, <2>2, <2>3
<1> QED BY <1>2, <1>3, <1>5, <1>6, <1>7, <1>8 DEF CalledFrom

LEMMA PrologueRefines == IInv /\ Passed /\ Prologue => Stack!Enter
<1> SUFFICES ASSUME IInv, Passed, Prologue PROVE Stack!Enter
  OBVIOUS
<1>1. /\ at = "enter" /\ at' = "body" /\ ra' = Nowhere
      /\ sp' = sp + 2 * NrLocals[fn]
      /\ UNCHANGED <<fp, fn, pend>>
  BY DEF Prologue
<1>2. rarg.dst = LocalAt(fp, 0) /\ sp = fp + 1 /\ pend = None
  BY <1>1 DEF IInv, Registers
<1>3. /\ sp \in Nat /\ sp <= MaxWord /\ fp \in Nat /\ fp + 1 <= sp /\ DOMAIN mem = Address
      /\ fn \in LuaFn /\ NrLocals[fn] \in Nat /\ fp + 1 + 2 * NrLocals[fn] <= MaxWord
  BY <1>1, Running
<1>4. SameTo(mem, mem', fp + 1)
  BY PrologueWords DEF SameTo
<1>5. PICK F : Chain(mem, F) /\ Chain(mem', F) /\ F[Len(F)] = fp
  BY <1>1, <1>4, InFrame
<1>6. PICK below \in Nat, s \in CallSite : CalledFrom(F, below, s)
  BY <1>1, <1>5, Entering
<1>7. /\ Len(F) \in Nat /\ Len(F) > 1 /\ F[Len(F) - 1] = below /\ below + 3 <= fp
      /\ mem[fp] = FP(below) /\ mem[fp - 1] = RA(s)
      /\ rarg.src - 2 = LocalAt(below, s.base)
  BY <1>6 DEF CalledFrom
<1>8. PICK b \in Nat, f \in LuaFn, top \in Nat, x \in Nat :
         /\ b = s.base /\ f = s.fn /\ top = fp - 2 /\ x = rarg.exist
         /\ below + 1 <= top /\ top <= MaxWord
  <2>1. s.base \in Nat /\ s.fn \in LuaFn
    BY DEF CallSite
  <2>2. rarg.exist \in Nat
    BY DEF IInv, TypeOK
  <2>3. fp - 2 \in Nat /\ below + 1 <= fp - 2 /\ fp - 2 <= MaxWord
    BY <1>3, <1>7
  <2> QED BY <2>1, <2>2, <2>3
<1>9. Len(Acts) = Len(F) - 1 /\ HasCalled(Acts, mem, F)
  BY <1>1, <1>5, ActsNow
<1>10. Acts[Len(Acts)].top = TopOf(below, top)
  <2>1. Len(Acts) \in 1..(Len(F) - 1) /\ Len(Acts) + 1 = Len(F)
    BY <1>7, <1>9
  <2>2. Acts[Len(Acts)] = Suspended(mem, below, fp)
    BY <1>5, <1>7, <1>9, <2>1 DEF HasCalled
  <2>3. PICK X : X = Acts[Len(Acts)]
    OBVIOUS
  <2>4. X = Activation(mem, below, mem[fp - 1].site.fn, top, mem[fp - 1].site, FALSE)
    BY <1>8, <2>2, <2>3 DEF Suspended
  <2>5. X.top = TopOf(below, top)
    BY <2>4 DEF Activation, TopOf
  <2> QED BY <2>3, <2>5
<1>11. PICK o : o = FALSE
  OBVIOUS
<1>12. /\ Len(Acts') = Len(F) /\ HasCalled(Acts', mem', F)
       /\ Acts'[Len(F)] = Activation(mem', fp, fn, sp', ra', o)
  <2>1. (pend' # None) = FALSE
    BY <1>1, <1>2
  <2>2. Acts'[Len(F)] = Activation(mem', fp, fn, sp', ra', FALSE)
    BY <1>1, <1>5, <2>1, ActsNext
  <2> QED BY <1>1, <1>5, <1>11, <2>2, ActsNext
<1>13. Stack!OthersKept(0)
  <2>1. ASSUME NEW d \in 1..(Len(F) - 1) PROVE Stack!Keeps(Acts[d], Acts'[d])
    <3>1. F[Len(F)] - 1 <= sp /\ SameTo(mem, mem', sp)
      BY <1>2, <1>3, <1>4, <1>5
    <3> QED BY <1>3, <1>5, <1>9, <1>12, <3>1, CalledKept
  <2>2. Len(Acts) - 0 = Len(F) - 1
    BY <1>7, <1>9
  <2> QED BY <2>1, <2>2 DEF Stack!OthersKept
<1>14. PICK Y : Y = Acts'[Len(F)]
  OBVIOUS
<1>15. Y.fn = fn /\ Y.top = NrLocals[fn] /\ ~Y.open /\ LocalsAre(Y, mem', fp, fn, sp')
  <2>1. Y = Activation(mem', fp, fn, sp', ra', o)
    BY <1>12, <1>14
  <2>2. Y.fn = fn /\ Y.top = TopOf(fp, sp') /\ Y.open = o /\ LocalsAre(Y, mem', fp, fn, sp')
    BY <2>1, Fields DEF LocalsAre
  <2>3. TopOf(fp, sp') = NrLocals[fn]
    <3>1. sp' - fp - 1 = 2 * NrLocals[fn]
      BY <1>1, <1>2, <1>3
    <3>2. ((2 * NrLocals[fn]) \div 2) = NrLocals[fn]
      BY <1>3
    <3> QED BY <3>1, <3>2 DEF TopOf
  <2> QED BY <1>11, <2>2, <2>3
<1>16. PICK P : P = Passing
  OBVIOUS
<1>0. PICK src \in Nat : src = LocalAt(below, b + 1) /\ src = rarg.src
  <2>1. LocalAt(below, b + 1) \in Nat /\ LocalAt(below, b + 1) = LocalAt(below, b) + 2
    BY DEF LocalAt
  <2>2. rarg.src \in Nat
    BY DEF IInv, TypeOK
  <2>3. rarg.src - 2 = LocalAt(below, b)
    BY <1>7, <1>8
  <2> QED BY <2>1, <2>2, <2>3
<1>17. PICK V : src = LocalAt(below, b + 1) /\ src = rarg.src /\ V = Pairs(mem, src, x)
  BY <1>0
<1>18. P.kind = "call" /\ P.slot = b /\ P.fn = fn /\ P.vals = V
  <2>1. P = [kind |-> "call", slot |-> Slot(rarg.src - 2, mem[fp].a), fn |-> fn,
             vals |-> Pairs(mem, rarg.src, rarg.exist)]
    BY <1>1, <1>16 DEF Passing
  <2>2. mem[fp].a = below
    BY <1>7 DEF FP
  <2>3. Slot(LocalAt(below, b), below) = b
    BY SlotAt
  <2> QED BY <1>7, <1>8, <1>17, <2>1, <2>2, <2>3
<1>19. ASSUME NEW j \in 1..x, j <= NrParams[fn], b + j < TopOf(below, top)
       PROVE  Y.locals[j - 1] = V[j]
  <2>1. PICK i \in Nat : i = j - 1 /\ i < NrParams[fn] /\ NrParams[fn] \in Nat
                         /\ NrParams[fn] <= NrLocals[fn]
    BY <1>3, <1>19
  <2>2. PICK l \in Nat, y \in Nat : l = fp + 2 + 2 * i /\ y = src + 2 * i /\ l = LocalAt(fp, i)
    BY <1>3 DEF LocalAt
  <2>3. y = LocalAt(below, b + j) /\ y + 1 <= top
    <3>1. PICK c \in Nat : c = b + j
      OBVIOUS
    <3>2. LocalAt(below, c) + 1 <= top
      BY <1>8, <1>19, <3>1, BelowTop
    <3>3. LocalAt(below, c) = y
      BY <1>17, <2>1, <2>2, <3>1 DEF LocalAt
    <3> QED BY <3>1, <3>2, <3>3
  <2>4. Pair(mem', l) = Pair(mem, y)
    <3>1. PICK r : r = [rarg EXCEPT !.expect = NrParams[fn]]
      OBVIOUS
    <3>2. mem' = ArgResCpy(mem, r)
      <4>1. NrParams[fn] # 0
        BY <2>1
      <4> QED BY <3>1, <4>1 DEF Prologue
    <3>3. r \in [exist : Nat, src : Nat, dst : Nat, expect : Nat]
          /\ r.dst = fp + 2 /\ r.src = src /\ r.exist = x /\ r.expect = NrParams[fn]
      <4>1. rarg \in [exist : Nat, src : Nat, dst : Nat, expect : Nat]
        BY DEF IInv, TypeOK, Address
      <4>2. rarg.dst = fp + 2
        BY <1>2, <1>3 DEF LocalAt
      <4> QED BY <1>8, <1>17, <2>1, <3>1, <4>1, <4>2
    <3>4. PICK n \in Nat : n = Least(r.exist, r.expect) /\ i < n /\ n <= NrParams[fn]
      BY <2>1, <3>3 DEF Least
    <3>5. r.dst + 2 * n <= MaxWord + 1 /\ r.src + 2 * i + 1 <= MaxWord
          /\ r.src + 2 * i + 1 < r.dst
      BY <1>3, <1>8, <2>1, <2>2, <2>3, <3>3, <3>4
    <3>6. Pair(ArgResCpy(mem, r), r.dst + 2 * i) = Pair(mem, r.src + 2 * i)
      <4>1. n = Least(r.exist, r.expect) /\ i < n
        BY <3>4
      <4>2. DOMAIN mem = Address
        BY <1>3
      <4>3. r \in [exist : Nat, src : Nat, dst : Nat, expect : Nat]
        BY <3>3
      <4> QED BY <3>5, <4>1, <4>2, <4>3, ArgResArrives
    <3> QED BY <2>2, <3>2, <3>3, <3>6
  <2>5. Y.locals[i] = Pair(mem', l)
    <3>1. i \in LocalsOf(fp, fn, sp')
      <4>1. PICK t \in Nat : t = TopOf(fp, sp')
        <5>1. sp' \in Nat /\ fp + 1 <= sp'
          BY <1>1, <1>2, <1>3
        <5> QED BY <1>3, <5>1, BelowTop
      <4> QED BY <1>3, <2>1, <4>1 DEF LocalsOf, Most
    <3> QED BY <1>15, <2>2, <3>1 DEF LocalsAre
  <2>6. V[j] = Pair(mem, y)
    <3>1. Pairs(mem, src, x)[j] = Pair(mem, src + 2 * (j - 1))
      BY PairsAre
    <3>2. src + 2 * (j - 1) = y
      BY <2>1, <2>2
    <3> QED BY <1>17, <3>1, <3>2
  <2> QED BY <2>1, <2>4, <2>5, <2>6
<1>20. Passing' = Stack!Idle
  BY <1>1 DEF Passing, Stack!Idle
<1>21. Len(V) = x
  BY <1>17, PairsAre
<1>22. Len(Acts) + 1 = Len(F)
  BY <1>7, <1>9
<1> QED BY <1>10, <1>12, <1>13, <1>14, <1>15, <1>16, <1>18, <1>19, <1>20, <1>21, <1>22
        DEF Stack!Enter, Stack!Last

\* The results arrive in the locals from b on, ...
Arrived(m, m2, frame, b, src, n) ==
    \A j \in 1..n : Pair(m2, LocalAt(frame, b + j - 1)) = Pair(m, src + 2 * (j - 1))

\* ... and other locals are kept.
RestKept(m, m2, frame, b, n) ==
    \A i \in Nat : LocalAt(frame, i) + 1 \in Address /\ (i < b \/ i >= b + n) =>
        Pair(m2, LocalAt(frame, i)) = Pair(m, LocalAt(frame, i))

LEMMA ResultsArrive ==
    ASSUME NEW m, DOMAIN m = Address, NEW r \in [exist : Nat, src : Nat, dst : Nat, expect : Nat],
           NEW frame \in Nat, NEW b \in Nat, r.dst = LocalAt(frame, b),
           NEW n, n = Least(r.exist, r.expect),
           r.dst + 2 * n <= MaxWord + 1, r.src + 2 * r.exist <= MaxWord + 1
    PROVE  /\ r.dst <= r.src => Arrived(m, ArgResCpy(m, r), frame, b, r.src, n)
           /\ RestKept(m, ArgResCpy(m, r), frame, b, n)
<1>1. PICK dst \in Nat, src \in Nat, exist \in Nat, expect \in Nat :
         dst = r.dst /\ src = r.src /\ exist = r.exist /\ expect = r.expect
  OBVIOUS
<1>2. n \in Nat /\ n <= exist
  BY <1>1 DEF Least
<1>3. PICK A : A = ArgResCpy(m, r)
  OBVIOUS
<1>4. ASSUME dst <= src, NEW j \in 1..n
      PROVE  Pair(A, LocalAt(frame, b + j - 1)) = Pair(m, src + 2 * (j - 1))
  <2>1. PICK i \in Nat : i = j - 1 /\ i < n
    BY <1>2
  <2>2. r.dst + 2 * n <= MaxWord + 1 /\ r.src + 2 * i + 1 <= MaxWord /\ r.dst <= r.src
    <3>1. src + 2 * exist <= MaxWord + 1
      BY <1>1
    <3>2. src + 2 * i + 1 <= MaxWord
      BY <1>2, <2>1, <3>1
    <3> QED BY <1>1, <1>4, <3>2
  <2>3. Pair(ArgResCpy(m, r), r.dst + 2 * i) = Pair(m, r.src + 2 * i)
    BY <2>1, <2>2, ArgResArrives
  <2>4. dst + 2 * i = LocalAt(frame, b + j - 1) /\ src + 2 * i = src + 2 * (j - 1)
    <3>1. dst = frame + 2 + 2 * b
      BY <1>1 DEF LocalAt
    <3> QED BY <2>1, <3>1 DEF LocalAt
  <2> QED BY <1>1, <1>3, <2>3, <2>4
<1>5. ASSUME NEW i \in Nat, LocalAt(frame, i) + 1 \in Address, i < b \/ i >= b + n
      PROVE  Pair(A, LocalAt(frame, i)) = Pair(m, LocalAt(frame, i))
  <2>1. PICK l \in Nat : l = LocalAt(frame, i)
    BY DEF LocalAt
  <2>2. l + 1 < r.dst \/ l >= r.dst + 2 * n
    <3>1. dst = frame + 2 + 2 * b /\ l = frame + 2 + 2 * i
      BY <1>1, <2>1 DEF LocalAt
    <3>2. l + 1 < dst \/ l >= dst + 2 * n
      BY <1>2, <1>5, <3>1
    <3> QED BY <1>1, <3>2
  <2>3. l + 1 \in Address
    BY <1>5, <2>1
  <2>4. Pair(ArgResCpy(m, r), l) = Pair(m, l)
    BY <2>2, <2>3, ArgResElsewhere
  <2> QED BY <1>3, <2>1, <2>4
<1> QED BY <1>1, <1>3, <1>4, <1>5 DEF Arrived, RestKept

\* Where the protocol is after a call, and where the results are.
LEMMA Returning ==
    ASSUME IInv, Passed, at = "postcall"
    PROVE  \E b \in Nat, k \in Nat, src \in Nat, x \in Nat :
              /\ b = ra.base /\ k = ra.nret /\ src = rarg.src /\ x = rarg.exist
              /\ b < NrLocals[fn] /\ b + k <= NrLocals[fn] + 1
              /\ rarg.dst = LocalAt(fp, b) /\ LocalAt(fp, b) \in Nat
              /\ sp + 4 <= src /\ src + 2 * x <= MaxWord + 1
              /\ pend = None
<1>1. ra \in CallSite /\ ra.fn = fn /\ rarg.dst = LocalAt(fp, ra.base) /\ pend = None
  BY DEF IInv, Registers
<1>2. rarg.src \in Nat /\ rarg.exist \in Nat
  BY DEF IInv, TypeOK
<1>3. sp + 4 <= rarg.src /\ rarg.src + 2 * rarg.exist <= MaxWord + 1
  BY DEF Passed
<1>4. ra.base \in Nat /\ ra.nret \in Nat /\ ra.base < NrLocals[fn]
      /\ ra.base + ra.nret <= NrLocals[fn] + 1
  BY <1>1 DEF CallSite
<1>5. LocalAt(fp, ra.base) \in Nat
  BY <1>4, Running DEF LocalAt
<1> QED BY <1>1, <1>2, <1>3, <1>4, <1>5

LEMMA PostCallFixedRefines == IInv /\ Passed /\ PostCallFixed => Stack!ResumeFixed
<1> SUFFICES ASSUME IInv, Passed, PostCallFixed PROVE Stack!ResumeFixed
  OBVIOUS
<1>1. /\ at = "postcall" /\ ra.nret > 0
      /\ mem' = ArgResCpy(mem, [rarg EXCEPT !.expect = ra.nret - 1])
      /\ at' = "body" /\ ra' = Nowhere
      /\ UNCHANGED <<sp, fp, fn, pend>>
  BY DEF PostCallFixed
<1>2. PICK b \in Nat, k \in Nat, src \in Nat, x \in Nat :
              /\ b = ra.base /\ k = ra.nret /\ src = rarg.src /\ x = rarg.exist
              /\ b < NrLocals[fn] /\ b + k <= NrLocals[fn] + 1
              /\ rarg.dst = LocalAt(fp, b) /\ LocalAt(fp, b) \in Nat
              /\ sp + 4 <= src /\ src + 2 * x <= MaxWord + 1
              /\ pend = None
  BY <1>1, Returning
<1>3. /\ sp \in Nat /\ sp <= MaxWord /\ fp \in Nat /\ fp + 1 <= sp /\ DOMAIN mem = Address
      /\ fn \in LuaFn /\ NrLocals[fn] \in Nat /\ fp + 1 + 2 * NrLocals[fn] <= MaxWord
  BY <1>1, Running
<1>0. PICK want \in Nat : want = k - 1
  <2>1. k > 0
    BY <1>1, <1>2
  <2> QED BY <2>1
<1>4. PICK r : want = k - 1 /\ r = [rarg EXCEPT !.expect = want]
  BY <1>0
<1>5. /\ r \in [exist : Nat, src : Nat, dst : Nat, expect : Nat]
      /\ r.exist = x /\ r.src = src /\ r.dst = LocalAt(fp, b) /\ r.expect = want
      /\ mem' = ArgResCpy(mem, r)
  <2>1. rarg \in [exist : Nat, src : Nat, dst : Nat, expect : Nat]
    BY DEF IInv, TypeOK, Address
  <2>2. ra.nret - 1 = want
    BY <1>2, <1>4
  <2>3. mem' = ArgResCpy(mem, r)
    BY <1>1, <1>4, <2>2
  <2>4. r \in [exist : Nat, src : Nat, dst : Nat, expect : Nat]
        /\ r.exist = rarg.exist /\ r.src = rarg.src /\ r.dst = rarg.dst /\ r.expect = want
    BY <1>4, <2>1
  <2> QED BY <1>2, <2>3, <2>4
<1>6. PICK n \in Nat : n = Least(r.exist, r.expect) /\ n = (IF x < want THEN x ELSE want)
  BY <1>5 DEF Least
<1>7. n <= x /\ b + n <= NrLocals[fn]
  BY <1>2, <1>3, <1>4, <1>6
<1>8. SameTo(mem, mem', fp + 1)
  <2>1. ra.nret - 1 \in Nat
    BY <1>2, <1>4
  <2>2. \A a \in Address : a <= fp + 1 => mem'[a] = mem[a]
    BY <1>1, <1>3, <2>1, PostCallCopies
  <2> QED BY <2>2 DEF SameTo
<1>9. /\ Stack!OthersKept(1) /\ Len(Acts') = Len(Acts)
      /\ Acts[Len(Acts)] = Activation(mem, fp, fn, sp, ra, pend # None)
      /\ Acts'[Len(Acts)] = Activation(mem', fp', fn', sp', ra', pend' # None)
  BY <1>1, <1>8, OthersKept
<1>10. PICK o, t, X, Y : o = FALSE /\ t = TopOf(fp, sp) /\ X = Acts[Len(Acts)] /\ Y = Acts'[Len(Acts)]
  OBVIOUS
<1>11. X = Activation(mem, fp, fn, sp, ra, o) /\ Y = Activation(mem', fp, fn, sp, ra', o)
  <2>1. (pend # None) = FALSE /\ (pend' # None) = FALSE
    BY <1>1, <1>2
  <2>2. X = Activation(mem, fp, fn, sp, ra, FALSE) /\ Y = Activation(mem', fp, fn, sp, ra', FALSE)
    BY <1>1, <1>9, <1>10, <2>1
  <2> QED BY <1>10, <2>2
<1>12. /\ X.fn = fn /\ X.top = t /\ X.site = ra /\ LocalsAre(X, mem, fp, fn, sp)
       /\ Y.fn = fn /\ Y.top = t /\ ~Y.open /\ LocalsAre(Y, mem', fp, fn, sp)
  <2>1. X.fn = fn /\ X.top = t /\ X.site = ra /\ LocalsAre(X, mem, fp, fn, sp)
    BY <1>10, <1>11, Fields DEF LocalsAre
  <2>2. Y.fn = fn /\ Y.top = t /\ Y.open = o /\ LocalsAre(Y, mem', fp, fn, sp)
    BY <1>10, <1>11, Fields DEF LocalsAre
  <2> QED BY <1>10, <2>1, <2>2
<1>13. PICK P : P = Passing
  OBVIOUS
<1>14. PICK V : V = Pairs(mem, src, x)
  OBVIOUS
<1>15. P.kind = "return" /\ P.vals = V /\ Len(V) = x
  <2>1. P = [kind |-> "return", vals |-> Pairs(mem, rarg.src, rarg.exist)]
    BY <1>1, <1>13 DEF Passing
  <2> QED BY <1>2, <1>14, <2>1, PairsAre
<1>16. /\ LocalAt(fp, b) <= src => Arrived(mem, mem', fp, b, src, n)
       /\ RestKept(mem, mem', fp, b, n)
  <2>1. r.dst + 2 * n <= MaxWord + 1 /\ r.src + 2 * r.exist <= MaxWord + 1
    <3>1. LocalAt(fp, b) + 2 * n <= MaxWord + 1
      BY <1>2, <1>3, <1>7 DEF LocalAt
    <3> QED BY <1>2, <1>5, <3>1
  <2>2. /\ r.dst <= r.src => Arrived(mem, ArgResCpy(mem, r), fp, b, r.src, n)
        /\ RestKept(mem, ArgResCpy(mem, r), fp, b, n)
    <3>1. r \in [exist : Nat, src : Nat, dst : Nat, expect : Nat] /\ r.dst = LocalAt(fp, b)
      BY <1>5
    <3>2. n = Least(r.exist, r.expect)
      BY <1>6
    <3> QED BY <1>3, <2>1, <3>1, <3>2, ResultsArrive
  <2> QED BY <1>5, <2>2
<1>17. ASSUME b < t, NEW j \in 1..n PROVE Y.locals[b + j - 1] = V[j]
  <2>1. LocalAt(fp, b) <= src
    <3>1. LocalAt(fp, b) + 1 <= sp
      BY <1>3, <1>10, <1>17, BelowTop
    <3> QED BY <1>2, <1>3, <3>1
  <2>2. Pair(mem', LocalAt(fp, b + j - 1)) = Pair(mem, src + 2 * (j - 1))
    BY <1>16, <2>1 DEF Arrived
  <2>3. b + j - 1 \in LocalsOf(fp, fn, sp)
    <3>1. t \in Nat
      BY <1>3, <1>10, BelowTop
    <3>2. PICK i \in Nat : i = b + j - 1 /\ i < NrLocals[fn]
      BY <1>3, <1>7
    <3>3. NrLocals[fn] \in Nat
      BY <1>3
    <3>4. i \in 0..(Most(NrLocals[fn], t) - 1)
      BY ONLY <3>1, <3>2, <3>3, i \in Nat DEF Most
    <3> QED BY <1>10, <3>2, <3>4 DEF LocalsOf
  <2>4. Y.locals[b + j - 1] = Pair(mem', LocalAt(fp, b + j - 1))
    BY <1>12, <2>3 DEF LocalsAre
  <2>5. V[j] = Pair(mem, src + 2 * (j - 1))
    <3>1. j \in 1..x
      BY <1>7
    <3> QED BY <1>14, <3>1, PairsAre
  <2> QED BY <2>2, <2>4, <2>5
<1>18. ASSUME NEW i \in 0..(t - 1), i \notin b..(b + want - 1) PROVE Y.locals[i] = X.locals[i]
  <2>1. t \in Nat /\ i \in Nat /\ i < t /\ (i < b \/ i >= b + n)
    <3>1. t \in Nat
      BY <1>3, <1>10, BelowTop
    <3>2. n <= want
      BY <1>6
    <3> QED BY <1>18, <3>1, <3>2
  <2>2. i \in LocalsOf(fp, fn, sp) /\ LocalAt(fp, i) + 1 <= sp
    BY <1>3, <1>10, <2>1, BelowTop
  <2>3. LocalAt(fp, i) + 1 \in Address
    <3>1. LocalAt(fp, i) + 1 \in Nat
      BY <1>3, <2>1 DEF LocalAt
    <3> QED BY <1>3, <2>2, <3>1 DEF Address
  <2>4. Pair(mem', LocalAt(fp, i)) = Pair(mem, LocalAt(fp, i))
    BY <1>16, <2>1, <2>3 DEF RestKept
  <2> QED BY <1>12, <2>2, <2>4 DEF LocalsAre
<1>19. Passing' = Stack!Idle
  BY <1>1 DEF Passing, Stack!Idle
<1>20. X.site.base = b /\ X.site.nret = k /\ k > 0
  BY <1>1, <1>2, <1>12
<1> QED BY <1>4, <1>6, <1>9, <1>10, <1>12, <1>13, <1>15, <1>17, <1>18, <1>19, <1>20
        DEF Stack!ResumeFixed, Stack!Last

LEMMA PostCallOpenRefines == IInv /\ Passed /\ PostCallOpen => Stack!ResumeOpen
<1> SUFFICES ASSUME IInv, Passed, PostCallOpen PROVE Stack!ResumeOpen
  OBVIOUS
<1>1. PICK r, m : r = [rarg EXCEPT !.expect = rarg.exist] /\ m = [mem EXCEPT ![sp + 1] = RA(ra)]
  OBVIOUS
<1>2. /\ at = "postcall" /\ ra.nret = 0 /\ DstAfter(r) <= MaxWord
      /\ mem' = ArgResCpy(m, r) /\ sp' = DstAfter(r) /\ pend' = ra.base
      /\ at' = "body" /\ ra' = Nowhere
      /\ UNCHANGED <<fp, fn>>
  BY <1>1 DEF PostCallOpen
<1>3. PICK b \in Nat, k \in Nat, src \in Nat, x \in Nat :
              /\ b = ra.base /\ k = ra.nret /\ src = rarg.src /\ x = rarg.exist
              /\ b < NrLocals[fn] /\ b + k <= NrLocals[fn] + 1
              /\ rarg.dst = LocalAt(fp, b) /\ LocalAt(fp, b) \in Nat
              /\ sp + 4 <= src /\ src + 2 * x <= MaxWord + 1
              /\ pend = None
  BY <1>2, Returning
<1>4. /\ sp \in Nat /\ sp <= MaxWord /\ fp \in Nat /\ fp + 1 <= sp /\ DOMAIN mem = Address
      /\ fn \in LuaFn /\ NrLocals[fn] \in Nat /\ fp + 1 + 2 * NrLocals[fn] <= MaxWord
  BY <1>2, Running
<1>5. DOMAIN m = Address /\ \A a \in Address : a # sp + 1 => m[a] = mem[a]
  <2>1. PICK y : y = sp + 1
    OBVIOUS
  <2>2. m = [mem EXCEPT ![y] = RA(ra)]
    BY <1>1, <2>1
  <2> QED BY <1>4, <2>1, <2>2
<1>6. /\ r \in [exist : Nat, src : Nat, dst : Nat, expect : Nat]
      /\ r.exist = x /\ r.src = src /\ r.dst = LocalAt(fp, b) /\ r.expect = x
  <2>1. rarg \in [exist : Nat, src : Nat, dst : Nat, expect : Nat]
    BY DEF IInv, TypeOK, Address
  <2>2. r \in [exist : Nat, src : Nat, dst : Nat, expect : Nat]
        /\ r.exist = rarg.exist /\ r.src = rarg.src /\ r.dst = rarg.dst /\ r.expect = rarg.exist
    BY <1>1, <2>1
  <2> QED BY <1>3, <2>2
<1>7. x = Least(r.exist, r.expect)
  BY <1>6 DEF Least
<1>8. sp' = LocalAt(fp, b) + 2 * x /\ sp' \in Nat /\ sp' <= MaxWord /\ fp + 1 <= sp'
  <2>1. DstAfter(r) = r.dst + 2 * Least(r.exist, r.expect)
    BY <1>5, <1>6, ArgResCopied
  <2>2. DstAfter(r) = LocalAt(fp, b) + 2 * x
    BY <1>6, <1>7, <2>1
  <2> QED BY <1>2, <1>3, <1>4, <2>2 DEF LocalAt
<1>9. SameTo(mem, mem', fp + 1)
  <2>1. \A a \in Address : a <= fp + 1 => m[a] = mem[a]
    <3>1. \A a \in Address : a <= fp + 1 => a # sp + 1
      BY <1>4 DEF Address
    <3> QED BY <1>5, <3>1
  <2>2. rarg.exist \in Nat
    BY <1>3
  <2>3. \A a \in Address : a <= fp + 1 => ArgResCpy(m, [rarg EXCEPT !.expect = rarg.exist])[a] = mem[a]
    BY <1>2, <1>5, <2>1, <2>2, PostCallCopies
  <2> QED BY <1>1, <1>2, <2>3 DEF SameTo
<1>10. /\ Stack!OthersKept(1) /\ Len(Acts') = Len(Acts)
       /\ Acts[Len(Acts)] = Activation(mem, fp, fn, sp, ra, pend # None)
       /\ Acts'[Len(Acts)] = Activation(mem', fp', fn', sp', ra', pend' # None)
  BY <1>2, <1>9, OthersKept
<1>11. PICK o, o2, t, X, Y :
          /\ o = FALSE /\ o2 = TRUE /\ t = TopOf(fp, sp)
          /\ X = Acts[Len(Acts)] /\ Y = Acts'[Len(Acts)]
  OBVIOUS
<1>12. X = Activation(mem, fp, fn, sp, ra, o) /\ Y = Activation(mem', fp, fn, sp', ra', o2)
  <2>1. (pend # None) = FALSE /\ (pend' # None) = TRUE
    <3>1. pend' = b
      BY <1>2, <1>3
    <3>2. b # None
      BY DEF None
    <3> QED BY <1>3, <3>1, <3>2
  <2>2. X = Activation(mem, fp, fn, sp, ra, FALSE) /\ Y = Activation(mem', fp, fn, sp', ra', TRUE)
    BY <1>2, <1>10, <1>11, <2>1
  <2> QED BY <1>11, <2>2
<1>13. /\ X.fn = fn /\ X.top = t /\ X.site = ra /\ LocalsAre(X, mem, fp, fn, sp)
       /\ Y.fn = fn /\ Y.top = b + x /\ Y.open /\ LocalsAre(Y, mem', fp, fn, sp')
  <2>1. X.fn = fn /\ X.top = t /\ X.site = ra /\ LocalsAre(X, mem, fp, fn, sp)
    BY <1>11, <1>12, Fields DEF LocalsAre
  <2>2. Y.fn = fn /\ Y.top = TopOf(fp, sp') /\ Y.open = o2 /\ LocalsAre(Y, mem', fp, fn, sp')
    BY <1>12, Fields DEF LocalsAre
  <2>3. TopOf(fp, sp') = b + x
    BY <1>4, <1>8, OpenTop
  <2> QED BY <1>11, <2>1, <2>2, <2>3
<1>14. PICK P : P = Passing
  OBVIOUS
<1>15. PICK V : V = Pairs(mem, src, x)
  OBVIOUS
<1>16. P.kind = "return" /\ P.vals = V /\ Len(V) = x
  <2>1. P = [kind |-> "return", vals |-> Pairs(mem, rarg.src, rarg.exist)]
    BY <1>2, <1>14 DEF Passing
  <2> QED BY <1>3, <1>15, <2>1, PairsAre
<1>17. /\ LocalAt(fp, b) <= src => Arrived(m, mem', fp, b, src, x)
       /\ RestKept(m, mem', fp, b, x)
  <2>1. r.dst + 2 * x <= MaxWord + 1 /\ r.src + 2 * r.exist <= MaxWord + 1
    BY <1>3, <1>6, <1>8
  <2>2. /\ r.dst <= r.src => Arrived(m, ArgResCpy(m, r), fp, b, r.src, x)
        /\ RestKept(m, ArgResCpy(m, r), fp, b, x)
    <3>1. r \in [exist : Nat, src : Nat, dst : Nat, expect : Nat] /\ r.dst = LocalAt(fp, b)
      BY <1>6
    <3>2. DOMAIN m = Address /\ fp \in Nat
      BY <1>4, <1>5
    <3> QED BY <1>7, <2>1, <3>1, <3>2, ResultsArrive
  <2> QED BY <1>2, <1>6, <2>2
<1>18. ASSUME b < t, NEW j \in 1..x PROVE Y.locals[b + j - 1] = V[j]
  <2>1. LocalAt(fp, b) <= src
    <3>1. LocalAt(fp, b) + 1 <= sp
      BY <1>4, <1>11, <1>18, BelowTop
    <3> QED BY <1>3, <1>4, <3>1
  <2>2. Pair(mem', LocalAt(fp, b + j - 1)) = Pair(m, src + 2 * (j - 1))
    BY <1>17, <2>1 DEF Arrived
  <2>3. PICK y \in Nat : y = src + 2 * (j - 1)
    OBVIOUS
  <2>4. Pair(m, y) = Pair(mem, y)
    <3>1. y \in Address /\ y + 1 \in Address /\ y # sp + 1 /\ y + 1 # sp + 1
      <4>1. y >= src /\ y + 1 <= MaxWord
        BY <1>3, <2>3
      <4>2. sp + 2 <= src /\ sp \in Nat /\ MaxWord \in Nat
        BY <1>3, <1>4, BoundsAssumption
      <4> QED BY ONLY <4>1, <4>2, y \in Nat, src \in Nat DEF Address
    <3> QED BY <1>5, <3>1 DEF Pair
  <2>5. b + j - 1 \in LocalsOf(fp, fn, sp')
    <3>1. b + j - 1 \in Nat /\ b + j - 1 < b + x
      OBVIOUS
    <3>2. TopOf(fp, sp') = b + x
      BY <1>4, <1>8, OpenTop
    <3>3. PICK i \in Nat : i = b + j - 1 /\ i < TopOf(fp, sp')
      BY <3>1, <3>2
    <3>4. sp' \in Nat /\ fp + 1 <= sp' /\ fp \in Nat /\ fn \in LuaFn
      BY <1>4, <1>8
    <3>5. i \in LocalsOf(fp, fn, sp')
      BY <3>3, <3>4, BelowTop
    <3> QED BY <3>3, <3>5
  <2>6. Y.locals[b + j - 1] = Pair(mem', LocalAt(fp, b + j - 1))
    BY <1>13, <2>5 DEF LocalsAre
  <2>7. V[j] = Pair(mem, src + 2 * (j - 1))
    BY <1>15, PairsAre
  <2> QED BY <2>2, <2>3, <2>4, <2>6, <2>7
<1>19. ASSUME NEW i \in 0..(t - 1), i < b PROVE Y.locals[i] = X.locals[i]
  <2>1. t \in Nat /\ i \in Nat /\ i < t
    <3>1. t \in Nat
      BY <1>4, <1>11, BelowTop
    <3> QED BY <3>1
  <2>2. i \in LocalsOf(fp, fn, sp) /\ LocalAt(fp, i) + 1 <= sp
    BY <1>4, <1>11, <2>1, BelowTop
  <2>3. PICK l \in Nat : l = LocalAt(fp, i)
    BY <1>4, <2>1 DEF LocalAt
  <2>4. l \in Address /\ l + 1 \in Address /\ l # sp + 1 /\ l + 1 # sp + 1
    <3>1. l + 1 <= sp /\ sp \in Nat /\ sp <= MaxWord /\ MaxWord \in Nat
      BY <1>4, <2>2, <2>3, BoundsAssumption
    <3> QED BY ONLY <3>1, l \in Nat DEF Address
  <2>5. Pair(m, l) = Pair(mem, l)
    BY <1>5, <2>4 DEF Pair
  <2>6. Pair(mem', LocalAt(fp, i)) = Pair(m, LocalAt(fp, i))
    BY <1>17, <1>19, <2>1, <2>3, <2>4 DEF RestKept
  <2>7. i \in LocalsOf(fp, fn, sp')
    <3>1. PICK tt \in Nat : tt = TopOf(fp, sp')
      BY <1>4, <1>8, BelowTop
    <3>2. i < NrLocals[fn]
      BY <1>3, <1>4, <1>19
    <3> QED BY <1>4, <2>1, <3>1, <3>2 DEF LocalsOf, Most
  <2> QED BY <1>13, <2>2, <2>3, <2>5, <2>6, <2>7 DEF LocalsAre
<1>20. Passing' = Stack!Idle
  BY <1>2 DEF Passing, Stack!Idle
<1>21. X.site.base = b /\ X.site.nret = 0
  BY <1>2, <1>3, <1>13
<1> QED BY <1>10, <1>11, <1>13, <1>14, <1>16, <1>18, <1>19, <1>20, <1>21
        DEF Stack!ResumeOpen, Stack!Last

-----------------------------------------------------------------------------
(* The refinement. *)

LEMMA InitRefines == Init => Stack!Init
<1> SUFFICES ASSUME Init PROVE Stack!Init
  OBVIOUS
<1>1. /\ fn \in LuaFn /\ fp = 2 /\ sp = 3 + 2 * NrLocals[fn] /\ at = "body" /\ pend = None
  BY DEF Init
<1>2. PICK F : Chain(mem, F) /\ F[Len(F)] = fp
  BY <1>1, InitIInv DEF IInv, Framed
<1>3. Len(F) = 1
  <2>1. Len(F) \in Nat \ {0}
    BY <1>2, EmptySeq DEF Chain
  <2>2. ASSUME Len(F) # 1 PROVE FALSE
    <3>0. PICK n \in Nat \ {0} : n = Len(F)
      BY <2>1
    <3>1. n \in Nat /\ n = Len(F) /\ n > 1 /\ n - 1 \in 1..n /\ n \in 2..n
      <4>1. n # 1
        BY <2>2, <3>0
      <4> QED BY <3>0, <4>1
    <3>2. F[n - 1] \in Address /\ F[n - 1] >= 2 /\ F[n - 1] + 3 <= F[n]
      <4>1. F[n - 1] \in Address /\ F[n - 1] >= 2
        BY <1>2, <3>1, ChainOrder
      <4>2. F[n - 1] + 3 <= F[n]
        BY <1>2, <3>1 DEF Chain
      <4> QED BY <4>1, <4>2
    <3> QED BY <1>1, <1>2, <3>1, <3>2 DEF Address
  <2> QED BY <2>2
<1>4. PICK o, X : o = FALSE /\ X = Acts[1]
  OBVIOUS
<1>5. Len(Acts) = 1 /\ X = Activation(mem, fp, fn, sp, ra, o)
  <2>1. (pend # None) = FALSE
    BY <1>1
  <2>2. Acts[Len(F)] = Activation(mem, fp, fn, sp, ra, FALSE)
    BY <1>1, <1>2, <2>1, ActsNow
  <2> QED BY <1>1, <1>2, <1>3, <1>4, <2>2, ActsNow
<1>6. X.fn = fn /\ X.top = NrLocals[fn] /\ ~X.open
  <2>1. X.fn = fn /\ X.top = TopOf(fp, sp) /\ X.open = o
    <3>1. X = Activation(mem, fp, fn, sp, ra, o)
      BY <1>5
    <3> QED BY <3>1 DEF Activation, TopOf
  <2>2. TopOf(fp, sp) = NrLocals[fn]
    <3>1. NrLocals[fn] \in Nat
      BY <1>1
    <3>2. sp - fp - 1 = 2 * NrLocals[fn] /\ ((2 * NrLocals[fn]) \div 2) = NrLocals[fn]
      BY <1>1, <3>1
    <3> QED BY <3>2 DEF TopOf
  <2> QED BY <1>4, <2>1, <2>2
<1>7. Passing = Stack!Idle
  BY <1>1 DEF Passing, Stack!Idle
<1>8. fn \in DOMAIN NrLocals
  BY <1>1
<1> QED BY <1>4, <1>5, <1>6, <1>7, <1>8 DEF Stack!Init, Stack!Last

LEMMA StepRefines == IInv /\ Passed /\ [Next]_vars => [Stack!Next]_(Stack!vars)
<1> SUFFICES ASSUME IInv, Passed, [Next]_vars PROVE Stack!Next \/ UNCHANGED Stack!vars
  OBVIOUS
<1>1. CASE UNCHANGED vars
  <2>1. Acts' = Acts
    BY <1>1 DEF vars, Acts, Frames
  <2>2. Passing' = Passing
    BY <1>1 DEF vars, Passing
  <2> QED BY <2>1, <2>2 DEF Stack!vars
<1>2. CASE Next
  BY <1>2, SetLocalRefines, PreCallRefines, LuaProRefines, PrologueRefines, CProRefines,
     RetRefines, EpilogueRefines, PostCallFixedRefines, PostCallOpenRefines
     DEF Next, Stack!Next
<1> QED BY <1>1, <1>2

\* The stack code of xlogue.c implements activations that keep their locals below
\* top and pass arguments and results in order, whatever is on the stack above.
THEOREM ActivationsImplemented == Spec => RefinesActivations
BY InitRefines, StepRefines, AlwaysPassed, PTL DEF Spec, RefinesActivations, Stack!Spec
=============================================================================
