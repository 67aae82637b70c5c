------------------------- MODULE InstructionsProofs --------------------------
(***************************************************************************)
(* Theorems about tables, and about the code of the instructions that use  *)
(* them, compute, compare and loop.  The nodes of a dictionary have        *)
(* different keys, and a table implements a map, for every program's keys  *)
(* and values and every number of nodes.  The code keeps words words, and  *)
(* computes with registers only, for words of any width, any number of     *)
(* locals, upvalues and registers, and every program.                      *)
(***************************************************************************)
EXTENDS Dictionary, Instructions, SequenceTheorems, WellFoundedInduction, TLAPS

-----------------------------------------------------------------------------
\* A list of nodes, on its own: what it may hold, that its keys differ, and the
\* value it has for a meaning.
Node == [k : keys, v : TValue]
Unique(ns) == \A i, j \in 1..Len(ns) : Meaning(ns[i].k) = Meaning(ns[j].k) => i = j
Holding(ns, m) == {i \in 1..Len(ns) : Meaning(ns[i].k) = m}
ValueIn(ns, m) ==
    IF Holding(ns, m) = {} THEN TNil ELSE ns[CHOOSE i \in Holding(ns, m) : TRUE].v

\* The keys that table_setlist has still to use are keys of the table.
Pending == \A n \in 1..Len(setlist.vals) : NumberKey(setlist.key + n - 1) \in keys

NodesInv == DictionaryTypeOK /\ KeysUnique /\ Pending

-----------------------------------------------------------------------------
LEMMA ValueOfNode ==
    ASSUME NEW ns, Unique(ns), NEW i \in 1..Len(ns), NEW m, m = Meaning(ns[i].k)
    PROVE  ValueIn(ns, m) = ns[i].v
<1>1. Holding(ns, m) = {i}
  BY DEF Holding, Unique
<1>2. (CHOOSE j \in Holding(ns, m) : TRUE) = i
  BY <1>1
<1> QED BY <1>1, <1>2 DEF ValueIn

LEMMA NoValue ==
    ASSUME NEW ns, NEW m, \A i \in 1..Len(ns) : Meaning(ns[i].k) # m
    PROVE  ValueIn(ns, m) = TNil
BY DEF ValueIn, Holding

\* A sequence without its f-th element.
LEMMA Removed ==
    \A S : \A s \in Seq(S) : \A f \in 1..Len(s) :
        LET t == SubSeq(s, 1, f - 1) \o SubSeq(s, f + 1, Len(s))
        IN  /\ t \in Seq(S)
            /\ Len(t) = Len(s) - 1
            /\ \A i \in 1..(f - 1) : t[i] = s[i]
            /\ \A i \in f..Len(t) : t[i] = s[i + 1]
<1> TAKE S
<1> TAKE s \in Seq(S)
<1> TAKE f \in 1..Len(s)
<1> DEFINE before == SubSeq(s, 1, f - 1)
           after == SubSeq(s, f + 1, Len(s))
           t == before \o after
<1>1. Len(s) \in Nat /\ \A i \in 1..Len(s) : s[i] \in S
  BY LenProperties, ElementOfSeq
<1>2. /\ before \in Seq(S) /\ Len(before) = f - 1
      /\ \A i \in 1..(f - 1) : before[i] = s[i]
  <2>1. \A i \in 1..(f - 1) : s[i] \in S
    BY <1>1
  <2> QED BY <1>1, <2>1, SubSeqProperties
<1>3. /\ after \in Seq(S) /\ Len(after) = Len(s) - f
      /\ \A i \in 1..(Len(s) - f) : after[i] = s[f + i]
  <2>1. \A i \in (f + 1)..Len(s) : s[i] \in S
    BY <1>1
  <2>2. /\ after \in Seq(S)
        /\ Len(after) = IF f + 1 <= Len(s) THEN Len(s) - (f + 1) + 1 ELSE 0
        /\ \A i \in 1..(Len(s) - (f + 1) + 1) : after[i] = s[f + 1 + i - 1]
    BY <1>1, <2>1, SubSeqProperties
  <2> HIDE DEF after
  <2> QED BY <1>1, <2>2
<1> HIDE DEF before, after
<1>4. /\ t \in Seq(S)
      /\ Len(t) = Len(before) + Len(after)
      /\ \A i \in 1..(Len(before) + Len(after)) : t[i] =
             IF i <= Len(before) THEN before[i] ELSE after[i - Len(before)]
  BY <1>2, <1>3, ConcatProperties
<1> HIDE DEF t
<1>5. Len(t) = Len(s) - 1
  BY <1>1, <1>2, <1>3, <1>4
<1>6. ASSUME NEW i \in 1..(f - 1) PROVE t[i] = s[i]
  BY <1>1, <1>2, <1>3, <1>4, <1>5
<1>7. ASSUME NEW i \in f..Len(t) PROVE t[i] = s[i + 1]
  <2>1. i - (f - 1) \in 1..(Len(s) - f) /\ f + (i - (f - 1)) = i + 1
    BY <1>1, <1>5
  <2>2. t[i] = after[i - (f - 1)]
    BY <1>1, <1>2, <1>3, <1>4, <1>5
  <2> QED BY <1>3, <2>1, <2>2
<1> QED BY <1>4, <1>5, <1>6, <1>7 DEF t, before, after

\* The keys and the values of the other nodes stay when a node is removed.
LEMMA WithoutNode ==
    \A ns, ms : \A f \in 1..Len(ns) :
        /\ Len(ns) \in Nat /\ Unique(ns)
        /\ Len(ms) = Len(ns) - 1
        /\ \A i \in 1..(f - 1) : ms[i] = ns[i]
        /\ \A i \in f..Len(ms) : ms[i] = ns[i + 1]
        => /\ Unique(ms)
           /\ \A m : ValueIn(ms, m) = IF m = Meaning(ns[f].k) THEN TNil ELSE ValueIn(ns, m)
<1> TAKE ns, ms
<1> TAKE f \in 1..Len(ns)
<1> HAVE /\ Len(ns) \in Nat /\ Unique(ns)
         /\ Len(ms) = Len(ns) - 1
         /\ \A i \in 1..(f - 1) : ms[i] = ns[i]
         /\ \A i \in f..Len(ms) : ms[i] = ns[i + 1]
<1> DEFINE old == [i \in 1..Len(ms) |-> IF i < f THEN i ELSE i + 1]
<1>1. \A i \in 1..Len(ms) : old[i] \in 1..Len(ns) /\ old[i] # f /\ ms[i] = ns[old[i]]
  OBVIOUS
<1>2. \A i, j \in 1..Len(ms) : old[i] = old[j] => i = j
  OBVIOUS
<1>3. ASSUME NEW j \in 1..Len(ns) \ {f} PROVE \E i \in 1..Len(ms) : old[i] = j
  <2>1. CASE j < f
    <3>1. j \in 1..Len(ms) /\ old[j] = j
      BY <2>1
    <3> QED BY <3>1
  <2>2. CASE ~(j < f)
    <3>1. j - 1 \in 1..Len(ms) /\ old[j - 1] = j
      BY <2>2
    <3> QED BY <3>1
  <2> QED BY <2>1, <2>2
<1> HIDE DEF old
<1>4. Unique(ms)
  <2>1. SUFFICES ASSUME NEW i \in 1..Len(ms), NEW j \in 1..Len(ms),
                        Meaning(ms[i].k) = Meaning(ms[j].k)
                 PROVE  i = j
    BY DEF Unique
  <2>2. /\ old[i] \in 1..Len(ns) /\ ms[i] = ns[old[i]]
        /\ old[j] \in 1..Len(ns) /\ ms[j] = ns[old[j]]
    BY <1>1
  <2>3. Meaning(ns[old[i]].k) = Meaning(ns[old[j]].k)
    BY <2>1, <2>2
  <2>4. old[i] = old[j]
    BY <2>2, <2>3 DEF Unique
  <2> QED BY <1>2, <2>4
<1>5. ASSUME NEW m
      PROVE  ValueIn(ms, m) = IF m = Meaning(ns[f].k) THEN TNil ELSE ValueIn(ns, m)
  <2>1. CASE m = Meaning(ns[f].k)
    <3>1. \A i \in 1..Len(ms) : Meaning(ms[i].k) # m
      BY <1>1, <2>1 DEF Unique
    <3> QED BY <2>1, <3>1, NoValue
  <2>2. CASE m # Meaning(ns[f].k) /\ \E i \in 1..Len(ns) : m = Meaning(ns[i].k)
    <3>1. PICK j \in 1..Len(ns) : m = Meaning(ns[j].k)
      BY <2>2
    <3>2. j # f
      BY <2>2, <3>1
    <3>3. PICK i \in 1..Len(ms) : old[i] = j
      BY <1>3, <3>2
    <3>4. ms[i] = ns[j]
      BY <1>1, <3>3
    <3>5. ValueIn(ms, m) = ns[j].v
      BY <1>4, <3>1, <3>4, ValueOfNode
    <3>6. ValueIn(ns, m) = ns[j].v
      BY <3>1, ValueOfNode
    <3> QED BY <2>2, <3>5, <3>6
  <2>3. CASE m # Meaning(ns[f].k) /\ \A i \in 1..Len(ns) : m # Meaning(ns[i].k)
    <3>1. \A i \in 1..Len(ms) : Meaning(ms[i].k) # m
      BY <1>1, <2>3
    <3>2. ValueIn(ms, m) = TNil
      BY <3>1, NoValue
    <3>3. ValueIn(ns, m) = TNil
      BY <2>3, NoValue
    <3> QED BY <2>3, <3>2, <3>3
  <2> QED BY <2>1, <2>2, <2>3
<1> QED BY <1>4, <1>5

LEMMA NodeRemoved ==
    \A S : \A s \in Seq(S) : \A f \in 1..Len(s) : Unique(s) =>
        LET t == SubSeq(s, 1, f - 1) \o SubSeq(s, f + 1, Len(s))
        IN  /\ t \in Seq(S)
            /\ Unique(t)
            /\ \A m : ValueIn(t, m) = IF m = Meaning(s[f].k) THEN TNil ELSE ValueIn(s, m)
<1> TAKE S
<1> TAKE s \in Seq(S)
<1> TAKE f \in 1..Len(s)
<1> HAVE Unique(s)
<1> DEFINE t == SubSeq(s, 1, f - 1) \o SubSeq(s, f + 1, Len(s))
<1>1. /\ t \in Seq(S)
      /\ Len(t) = Len(s) - 1
      /\ \A i \in 1..(f - 1) : t[i] = s[i]
      /\ \A i \in f..Len(t) : t[i] = s[i + 1]
  BY Removed, Zenon
<1>2. Len(s) \in Nat
  BY LenProperties
<1> HIDE DEF t
<1>3. Unique(t) /\ \A m : ValueIn(t, m) = IF m = Meaning(s[f].k) THEN TNil ELSE ValueIn(s, m)
  <2>1. \A h \in 1..Len(s) :
            /\ Len(s) \in Nat /\ Unique(s)
            /\ Len(t) = Len(s) - 1
            /\ \A i \in 1..(h - 1) : t[i] = s[i]
            /\ \A i \in h..Len(t) : t[i] = s[i + 1]
            => /\ Unique(t)
               /\ \A m : ValueIn(t, m) = IF m = Meaning(s[h].k) THEN TNil ELSE ValueIn(s, m)
    BY WithoutNode
  <2> QED BY <1>1, <1>2, <2>1
<1> QED BY <1>1, <1>3 DEF t

-----------------------------------------------------------------------------

\* Two keys have the same meaning if and only if find would say so, once they can
\* be told apart.
LEMMA SameMeaning ==
    ASSUME NEW ks \in Uses, NEW k \in ks, NEW l \in ks, KeysToldApart
    PROVE  /\ k.t = "string" /\ l.w \in DOMAIN Text =>
                  (Meaning(k) = Meaning(l) <=> Text[k.w] = Text[l.w])
           /\ k.t # "string" => (Meaning(k) = Meaning(l) <=> k.w = l.w)
<1>1. k.t = "string" => k.w \in DOMAIN Text
  BY UsesAssumption
<1>2. /\ k.t = "string" /\ l.t # "string" =>
            k.w # l.w /\ (l.w \in DOMAIN Text => Text[k.w] # Text[l.w])
      /\ l.t = "string" /\ k.t # "string" => l.w # k.w
  BY DEF KeysToldApart
<1> QED BY <1>1, <1>2 DEF Meaning

LEMMA NodeKey ==
    ASSUME DictionaryTypeOK, NEW i \in 1..Len(nodes)
    PROVE  nodes[i] \in Node /\ nodes[i].k \in keys /\ nodes[i].v \in TValue
<1>1. nodes \in Seq(Node)
  BY DEF DictionaryTypeOK, Node
<1>2. nodes[i] \in Node
  BY <1>1, ElementOfSeq
<1> QED BY <1>2 DEF Node

\* A scan passes by the nodes of other meanings only.
LEMMA NoStop ==
    ASSUME DictionaryTypeOK, NEW k \in keys, Stops(k) = {}, NEW i \in 1..Len(nodes)
    PROVE  Meaning(nodes[i].k) # Meaning(k)
<1>1. ~Matches(nodes[i], k) /\ ~Unhandled(nodes[i]) /\ ~Faults(nodes[i], k)
  BY DEF Stops, Fatal
<1>2. nodes[i].k.t \in {"string", "number"}
  BY <1>1 DEF Unhandled
<1>3. CASE nodes[i].k.t = "string"
  BY <1>1, <1>3 DEF Matches, Faults, Meaning
<1>4. CASE nodes[i].k.t = "number"
  BY <1>1, <1>4 DEF Matches, Meaning
<1> QED BY <1>2, <1>3, <1>4

LEMMA FirstStop ==
    ASSUME DictionaryTypeOK, NEW k, Stops(k) # {}
    PROVE  Found(k) \in Stops(k)
<1> DEFINE stops == Stops(k)
<1> DEFINE less == OpToRel(<, Nat)
<1>1. stops # {} /\ stops \subseteq Nat
  <2>1. Len(nodes) \in Nat
    BY LenProperties DEF DictionaryTypeOK
  <2> QED BY <2>1 DEF Stops
<1>2. \E c \in stops : \A d \in stops : c <= d
  <2>1. \A d, e \in Nat : d < e => <<d, e>> \in less
    BY DEF OpToRel
  <2>2. IsWellFoundedOn(less, Nat)
    BY NatLessThanWellFounded
  <2> HIDE DEF stops, less
  <2>3. PICK c \in stops : \A d \in stops \ {c} : <<d, c>> \notin less
    BY <1>1, <2>2, WFMin
  <2>4. ASSUME NEW d \in stops PROVE c <= d
    <3>1. c \in Nat /\ d \in Nat
      BY <1>1
    <3>2. d = c \/ ~(d < c)
      BY <2>1, <2>3, <3>1
    <3> QED BY <3>1, <3>2
  <2> QED BY <2>4
<1> QED BY <1>2 DEF Found

LEMMA StopIsNode ==
    ASSUME DictionaryTypeOK, NEW k, Stops(k) # {}
    PROVE  Found(k) \in 1..Len(nodes)
BY FirstStop DEF Stops

\* A scan that does not abort ends at a key of the same meaning.
LEMMA StopMatches ==
    ASSUME DictionaryTypeOK, NEW k \in keys, Stops(k) # {}, ~FindAborts(k), KeysToldApart
    PROVE  Meaning(nodes[Found(k)].k) = Meaning(k)
<1>1. Found(k) \in Stops(k)
  BY FirstStop
<1>2. PICK f \in 1..Len(nodes) : f = Found(k) /\ Matches(nodes[f], k)
  BY <1>1 DEF Stops, FindAborts
<1>3. keys \in Uses /\ nodes[f].k \in keys
  BY NodeKey DEF DictionaryTypeOK
<1>4. CASE nodes[f].k.t = "string"
  BY <1>2, <1>3, <1>4, SameMeaning DEF Matches
<1>5. CASE nodes[f].k.t = "number"
  BY <1>2, <1>3, <1>5, SameMeaning DEF Matches
<1> QED BY <1>2, <1>4, <1>5 DEF Matches

-----------------------------------------------------------------------------
\* What dictionary_insert does to the list, and to the map that it is.
LEMMA InsertedNodes ==
    ASSUME DictionaryTypeOK, KeysUnique, NEW k \in keys, NEW v \in TValue, ~FindAborts(k),
           NEW ns, ns = Inserted(k, v)
    PROVE  /\ ns \in Seq(Node)
           /\ Unique(ns)
           /\ KeysToldApart =>
                \A m : ValueIn(ns, m) = IF m = Meaning(k) THEN v ELSE ValueIn(nodes, m)
<1>1. nodes \in Seq(Node) /\ Unique(nodes) /\ Len(nodes) \in Nat
  BY LenProperties DEF DictionaryTypeOK, Node, KeysUnique, Unique
<1>2. CASE Stops(k) = {}
  <2> DEFINE node == [k |-> k, v |-> v]
  <2>1. node \in Node /\ <<node>> \in Seq(Node) /\ Len(<<node>>) = 1 /\ <<node>>[1] = node
        /\ node.k = k /\ node.v = v
    BY DEF Node
  <2>2. ns = <<node>> \o nodes
    BY <1>2 DEF Inserted
  <2> HIDE DEF node
  <2>3. /\ ns \in Seq(Node)
        /\ Len(ns) = 1 + Len(nodes)
        /\ ns[1] = node
        /\ \A i \in 1..Len(nodes) : ns[i + 1] = nodes[i]
        /\ \A i \in 2..Len(ns) : i - 1 \in 1..Len(nodes) /\ ns[i] = nodes[i - 1]
    BY <1>1, <2>1, <2>2, ConcatProperties
  <2>4. \A i \in 1..Len(nodes) : Meaning(nodes[i].k) # Meaning(k)
    BY <1>2, NoStop
  <2>5. Unique(ns)
    <3>1. SUFFICES ASSUME NEW i \in 1..Len(ns), NEW j \in 1..Len(ns),
                          Meaning(ns[i].k) = Meaning(ns[j].k), i # j
                   PROVE  FALSE
      BY DEF Unique
    <3>2. CASE i = 1
      BY <1>1, <2>1, <2>3, <2>4, <3>1, <3>2
    <3>3. CASE j = 1
      BY <1>1, <2>1, <2>3, <2>4, <3>1, <3>3
    <3>4. CASE i # 1 /\ j # 1
      <4>1. i \in 2..Len(ns) /\ j \in 2..Len(ns)
        BY <1>1, <2>3, <3>1, <3>4
      <4>2. /\ i - 1 \in 1..Len(nodes) /\ j - 1 \in 1..Len(nodes)
            /\ ns[i] = nodes[i - 1] /\ ns[j] = nodes[j - 1]
        BY <2>3, <4>1
      <4>3. i - 1 = j - 1
        BY <1>1, <3>1, <4>2 DEF Unique
      <4> QED BY <3>1, <4>1, <4>3
    <3> QED BY <3>2, <3>3, <3>4
  <2>6. ASSUME NEW m
        PROVE  ValueIn(ns, m) = IF m = Meaning(k) THEN v ELSE ValueIn(nodes, m)
    <3>1. CASE m = Meaning(k)
      <4>1. 1 \in 1..Len(ns) /\ m = Meaning(ns[1].k) /\ ns[1].v = v
        BY <1>1, <2>1, <2>3, <3>1
      <4> QED BY <2>5, <3>1, <4>1, ValueOfNode
    <3>2. CASE m # Meaning(k) /\ \E i \in 1..Len(nodes) : m = Meaning(nodes[i].k)
      <4>1. PICK i \in 1..Len(nodes) : m = Meaning(nodes[i].k)
        BY <3>2
      <4>2. i + 1 \in 1..Len(ns) /\ ns[i + 1] = nodes[i]
        BY <1>1, <2>3
      <4>3. ValueIn(ns, m) = nodes[i].v
        BY <2>5, <4>1, <4>2, ValueOfNode
      <4>4. ValueIn(nodes, m) = nodes[i].v
        BY <1>1, <4>1, ValueOfNode
      <4> QED BY <3>2, <4>3, <4>4
    <3>3. CASE m # Meaning(k) /\ \A i \in 1..Len(nodes) : m # Meaning(nodes[i].k)
      <4>1. ASSUME NEW i \in 1..Len(ns) PROVE Meaning(ns[i].k) # m
        <5>1. i = 1 \/ i \in 2..Len(ns)
          BY <1>1, <2>3
        <5>2. CASE i = 1
          BY <2>1, <2>3, <3>3, <5>2
        <5>3. CASE i \in 2..Len(ns)
          <6>1. i - 1 \in 1..Len(nodes) /\ ns[i] = nodes[i - 1]
            BY <2>3, <5>3
          <6> QED BY <3>3, <6>1
        <5> QED BY <5>1, <5>2, <5>3
      <4> QED BY <3>3, <4>1, NoValue
    <3> QED BY <3>1, <3>2, <3>3
  <2> QED BY <2>3, <2>5, <2>6
<1>3. CASE Stops(k) # {}
  <2>1. PICK f \in 1..Len(nodes) : f = Found(k)
    BY <1>3, StopIsNode
  <2> DEFINE node == [nodes[f] EXCEPT !.v = v]
  <2>2. node \in Node /\ node.k = nodes[f].k /\ node.v = v
    BY NodeKey DEF Node
  <2>3. ns = [nodes EXCEPT ![f] = node]
    BY <1>3, <2>1 DEF Inserted
  <2> HIDE DEF node
  <2>4. /\ ns \in Seq(Node)
        /\ Len(ns) = Len(nodes)
        /\ \A i \in 1..Len(nodes) : ns[i] = IF i = f THEN node ELSE nodes[i]
    BY <1>1, <2>2, <2>3, ExceptSeq
  <2>5. \A i \in 1..Len(nodes) : ns[i].k = nodes[i].k
    BY <2>2, <2>4
  <2>6. Unique(ns)
    BY <1>1, <2>4, <2>5 DEF Unique
  <2>7. ASSUME NEW m
        PROVE  ValueIn(ns, m) = IF m = Meaning(nodes[f].k) THEN v ELSE ValueIn(nodes, m)
    <3>1. CASE m = Meaning(nodes[f].k)
      <4>1. f \in 1..Len(ns) /\ m = Meaning(ns[f].k) /\ ns[f].v = v
        BY <2>1, <2>2, <2>4, <2>5, <3>1
      <4> QED BY <2>6, <3>1, <4>1, ValueOfNode
    <3>2. CASE m # Meaning(nodes[f].k) /\ \E i \in 1..Len(nodes) : m = Meaning(nodes[i].k)
      <4>1. PICK i \in 1..Len(nodes) : m = Meaning(nodes[i].k)
        BY <3>2
      <4>2. i \in 1..Len(ns) /\ ns[i] = nodes[i]
        BY <2>1, <2>4, <3>2, <4>1
      <4>3. ValueIn(ns, m) = nodes[i].v
        BY <2>6, <4>1, <4>2, ValueOfNode
      <4>4. ValueIn(nodes, m) = nodes[i].v
        BY <1>1, <4>1, ValueOfNode
      <4> QED BY <3>2, <4>3, <4>4
    <3>3. CASE m # Meaning(nodes[f].k) /\ \A i \in 1..Len(nodes) : m # Meaning(nodes[i].k)
      <4>1. \A i \in 1..Len(ns) : Meaning(ns[i].k) # m
        BY <2>4, <2>5, <3>3
      <4> QED BY <3>3, <4>1, NoValue
    <3> QED BY <3>1, <3>2, <3>3
  <2>8. KeysToldApart => Meaning(nodes[f].k) = Meaning(k)
    BY <1>3, <2>1, StopMatches
  <2> QED BY <2>4, <2>6, <2>7, <2>8
<1> QED BY <1>2, <1>3

\* What dictionary_delete does.
LEMMA DeletedNodes ==
    ASSUME DictionaryTypeOK, KeysUnique, NEW k \in keys, ~FindAborts(k), Stops(k) # {}
    PROVE  LET ns == SubSeq(nodes, 1, Found(k) - 1) \o SubSeq(nodes, Found(k) + 1, Len(nodes))
           IN  /\ ns \in Seq(Node)
               /\ Unique(ns)
               /\ KeysToldApart =>
                    \A m : ValueIn(ns, m) = IF m = Meaning(k) THEN TNil ELSE ValueIn(nodes, m)
<1>1. nodes \in Seq(Node) /\ Unique(nodes) /\ Len(nodes) \in Nat
  BY LenProperties DEF DictionaryTypeOK, Node, KeysUnique, Unique
<1>2. PICK f \in 1..Len(nodes) :
          f = Found(k) /\ (KeysToldApart => Meaning(nodes[f].k) = Meaning(k))
  BY StopIsNode, StopMatches
<1> HIDE UsesAssumption, ValueAssumption, MaxListAssumption
<1>3. LET ns == SubSeq(nodes, 1, f - 1) \o SubSeq(nodes, f + 1, Len(nodes))
      IN  /\ ns \in Seq(Node)
          /\ Unique(ns)
          /\ \A m : ValueIn(ns, m) = IF m = Meaning(nodes[f].k) THEN TNil ELSE ValueIn(nodes, m)
  BY <1>1, <1>2, NodeRemoved, Zenon
<1> QED BY <1>2, <1>3

-----------------------------------------------------------------------------
LEMMA InitNodesInv == DictionaryInit => NodesInv
<1> SUFFICES ASSUME DictionaryInit PROVE NodesInv
  OBVIOUS
<1>1. DictionaryTypeOK
  BY EmptySeq, ValueAssumption DEF DictionaryInit, DictionaryTypeOK
<1>2. KeysUnique /\ Pending
  BY DEF DictionaryInit, KeysUnique, Pending
<1> QED BY <1>1, <1>2 DEF NodesInv

\* What the values that dictionary_search returns are.
LEMMA SearchedValue ==
    ASSUME DictionaryTypeOK, KeysUnique, NEW k \in keys, ~FindAborts(k)
    PROVE  /\ Searched(k) \in TValue
           /\ KeysToldApart => Searched(k) = ValueIn(nodes, Meaning(k))
<1>1. Unique(nodes)
  BY DEF KeysUnique, Unique
<1>2. CASE Stops(k) = {}
  BY <1>2, NoStop, NoValue, ValueAssumption DEF Searched
<1>3. CASE Stops(k) # {}
  <2>1. PICK f \in 1..Len(nodes) :
            f = Found(k) /\ (KeysToldApart => Meaning(nodes[f].k) = Meaning(k))
    BY <1>3, StopIsNode, StopMatches
  <2>2. Searched(k) = nodes[f].v /\ nodes[f].v \in TValue
    BY <1>3, <2>1, NodeKey DEF Searched
  <2> QED BY <1>1, <2>1, <2>2, ValueOfNode
<1> QED BY <1>2, <1>3

\* An operation that leaves keys and the pending values alone.
LEMMA NodesKept ==
    ASSUME NodesInv, nodes' \in Seq(Node), Unique(nodes'), reply' \in TValue,
           aborted' \in BOOLEAN, UNCHANGED <<keys, setlist>>
    PROVE  NodesInv'
BY DEF NodesInv, DictionaryTypeOK, KeysUnique, Pending, Unique, Node

LEMMA ListType == NodesInv => nodes \in Seq(Node) /\ Unique(nodes)
BY DEF NodesInv, DictionaryTypeOK, KeysUnique, Unique, Node

\* The pending values of table_setlist are used one by one.
LEMMA PendingItem ==
    ASSUME NodesInv, setlist.vals # <<>>
    PROVE  /\ NumberKey(setlist.key) \in keys
           /\ Head(setlist.vals) \in TValue
           /\ setlist.key + 1 \in Nat
           /\ Tail(setlist.vals) \in Seq(TValue)
           /\ \A n \in 1..Len(Tail(setlist.vals)) :
                  NumberKey((setlist.key + 1) + n - 1) \in keys
<1>1. setlist.vals \in Seq(TValue) /\ setlist.key \in Nat
  BY DEF NodesInv, DictionaryTypeOK
<1>2. /\ Head(setlist.vals) \in TValue /\ Tail(setlist.vals) \in Seq(TValue)
      /\ Len(Tail(setlist.vals)) = Len(setlist.vals) - 1
      /\ Len(setlist.vals) \in Nat \ {0}
  BY <1>1, HeadTailProperties, EmptySeq
<1>3. \A n \in 1..Len(setlist.vals) : NumberKey(setlist.key + n - 1) \in keys
  BY DEF NodesInv, Pending
<1>4. NumberKey(setlist.key) \in keys
  <2>1. 1 \in 1..Len(setlist.vals) /\ setlist.key + 1 - 1 = setlist.key
    BY <1>1, <1>2
  <2> QED BY <1>3, <2>1
<1>5. ASSUME NEW n \in 1..Len(Tail(setlist.vals))
      PROVE  NumberKey((setlist.key + 1) + n - 1) \in keys
  <2>0. setlist.key \in Nat /\ n \in Nat /\ \A x, m \in Nat : (x + 1) + m - 1 = x + (m + 1) - 1
    BY <1>1, <1>2
  <2>1. n + 1 \in 1..Len(setlist.vals) /\ (setlist.key + 1) + n - 1 = setlist.key + (n + 1) - 1
    BY <1>1, <1>2, <2>0
  <2> QED BY <1>3, <2>1
<1> QED BY <1>1, <1>2, <1>4, <1>5

-----------------------------------------------------------------------------
LEMMA TableSetStep == ASSUME NodesInv, TableSet PROVE NodesInv'
<1>1. PICK k \in keys, v \in TValue : ~FindAborts(k) /\ nodes' = Inserted(k, v)
  BY DEF TableSet
<1>2. nodes' \in Seq(Node) /\ Unique(nodes')
  BY <1>1, InsertedNodes DEF NodesInv
<1> QED BY <1>2, NodesKept DEF TableSet, NodesInv, DictionaryTypeOK

LEMMA TableGetStep == ASSUME NodesInv, TableGet PROVE NodesInv'
<1>1. reply' \in TValue
  BY SearchedValue DEF TableGet, NodesInv
<1>2. nodes' \in Seq(Node) /\ Unique(nodes')
  BY ListType DEF TableGet
<1> QED BY <1>1, <1>2, NodesKept DEF TableGet, NodesInv, DictionaryTypeOK

LEMMA AbortStep == ASSUME NodesInv, Abort PROVE NodesInv'
<1>1. nodes' \in Seq(Node) /\ Unique(nodes')
  BY ListType DEF Abort
<1> QED BY <1>1, NodesKept DEF Abort, NodesInv, DictionaryTypeOK

LEMMA DeleteStep == ASSUME NodesInv, Delete PROVE NodesInv'
<1>1. nodes' \in Seq(Node) /\ Unique(nodes')
  <2>1. PICK k \in keys :
            /\ ~FindAborts(k)
            /\ nodes' = IF Stops(k) = {} THEN nodes
                        ELSE SubSeq(nodes, 1, Found(k) - 1)
                                 \o SubSeq(nodes, Found(k) + 1, Len(nodes))
    BY DEF Delete
  <2>2. CASE Stops(k) = {}
    BY <2>1, <2>2, ListType
  <2>3. CASE Stops(k) # {}
    BY <2>1, <2>3, DeletedNodes DEF NodesInv
  <2> QED BY <2>2, <2>3
<1> QED BY <1>1, NodesKept DEF Delete, NodesInv, DictionaryTypeOK

LEMMA StartSetListStep == ASSUME NodesInv, StartSetList PROVE NodesInv'
<1>1. PICK n \in 1..MaxList, vals \in Seq(TValue), idx \in 0..MaxList :
          /\ Len(vals) = n
          /\ \A i \in 1..n : NumberKey(idx + i) \in keys
          /\ setlist' = [key |-> idx + 1, vals |-> vals]
  <2>1. PICK n \in 1..MaxList : \E vals \in [1..n -> TValue], idx \in 0..MaxList :
          /\ \A i \in 1..n : NumberKey(idx + i) \in keys
          /\ setlist' = [key |-> FirstKey(idx), vals |-> vals]
    BY DEF StartSetList
  <2>2. PICK vals \in [1..n -> TValue] : \E idx \in 0..MaxList :
          /\ \A i \in 1..n : NumberKey(idx + i) \in keys
          /\ setlist' = [key |-> FirstKey(idx), vals |-> vals]
    BY <2>1
  <2>3. vals \in Seq(TValue) /\ Len(vals) = n
    BY <2>2, SeqDef
  <2> QED BY <2>2, <2>3 DEF FirstKey
<1>2. setlist' \in [key : Nat, vals : Seq(TValue)]
  BY <1>1
<1>3. Pending'
  <2>1. setlist'.vals = vals /\ setlist'.key = idx + 1 /\ keys' = keys
    BY <1>1 DEF StartSetList
  <2>2. ASSUME NEW j \in 1..n PROVE NumberKey((idx + 1) + j - 1) \in keys
    <3>1. (idx + 1) + j - 1 = idx + j
      BY <1>1
    <3> QED BY <1>1, <3>1
  <2> QED BY <1>1, <2>1, <2>2 DEF Pending
<1> QED BY <1>2, <1>3 DEF StartSetList, NodesInv, DictionaryTypeOK, KeysUnique

LEMMA SetListItemStep == ASSUME NodesInv, SetListItem PROVE NodesInv'
<1> DEFINE k == NumberKey(setlist.key)
<1>1. k \in keys /\ Head(setlist.vals) \in TValue
  BY PendingItem DEF SetListItem
<1>2. CASE FindAborts(k)
  BY <1>2, AbortStep DEF SetListItem
<1>3. CASE ~FindAborts(k)
  <2>1. /\ nodes' = Inserted(k, Head(setlist.vals))
        /\ setlist' = [key |-> setlist.key + 1, vals |-> Tail(setlist.vals)]
        /\ UNCHANGED <<keys, reply, aborted>>
    BY <1>3 DEF SetListItem
  <2>2. nodes' \in Seq(Node) /\ Unique(nodes')
    BY <1>1, <1>3, <2>1, InsertedNodes DEF NodesInv
  <2>3. setlist' \in [key : Nat, vals : Seq(TValue)]
    BY <2>1, PendingItem DEF SetListItem
  <2>4. Pending'
    <3>1. setlist'.key = setlist.key + 1 /\ setlist'.vals = Tail(setlist.vals)
      BY <2>1
    <3> QED BY <2>1, <3>1, PendingItem DEF SetListItem, Pending
  <2> QED BY <2>1, <2>2, <2>3, <2>4 DEF NodesInv, DictionaryTypeOK, KeysUnique, Unique, Node
<1> QED BY <1>2, <1>3

LEMMA NextNodesInv == NodesInv /\ [DictionaryNext]_dictionaryVars => NodesInv'
<1> SUFFICES ASSUME NodesInv, [DictionaryNext]_dictionaryVars PROVE NodesInv'
  OBVIOUS
<1>1. CASE UNCHANGED dictionaryVars
  BY <1>1 DEF dictionaryVars, NodesInv, DictionaryTypeOK, KeysUnique, Pending
<1>2. CASE TableAborts
  BY <1>2, AbortStep DEF TableAborts
<1>3. CASE DictionaryNext /\ ~TableAborts
  BY <1>3, TableSetStep, TableGetStep, DeleteStep, StartSetListStep, SetListItemStep DEF DictionaryNext
<1> QED BY <1>1, <1>2, <1>3

LEMMA AlwaysNodesInv == DictionarySpec => []NodesInv
BY InitNodesInv, NextNodesInv, PTL DEF DictionarySpec

\* The list of a table holds only keys the program uses with it, and what is
\* left of a list of items is in step with the next key (src/table.c:49).
THEOREM DictionaryTypeCorrect == DictionarySpec => []DictionaryTypeOK
<1>1. NodesInv => DictionaryTypeOK
  BY DEF NodesInv
<1> QED BY <1>1, AlwaysNodesInv, PTL

\* No two nodes of a dictionary have the same key (src/listdict.c:82).
THEOREM KeysStayUnique == DictionarySpec => []KeysUnique
<1>1. NodesInv => KeysUnique
  BY DEF NodesInv
<1> QED BY <1>1, AlwaysNodesInv, PTL

-----------------------------------------------------------------------------
\* The map that a table is, now and after a step.
LEMMA MapNow ==
    [m \in AllMeanings |-> Contents(m)] = [m \in AllMeanings |-> ValueIn(nodes, m)]
BY DEF Contents, ValueIn, Holding

LEMMA MapNext ==
    [m \in AllMeanings |-> Contents(m)]' = [m \in AllMeanings |-> ValueIn(nodes', m)]
BY DEF Contents, ValueIn, Holding

LEMMA KeyMeaning ==
    ASSUME DictionaryTypeOK, NEW k \in keys
    PROVE  Meaning(k) \in AllMeanings
BY DEF DictionaryTypeOK, AllMeanings

LEMMA MapKept == ASSUME UNCHANGED <<nodes, reply>> PROVE UNCHANGED Map!vars
BY MapNow, MapNext DEF Map!vars

LEMMA InsertSets ==
    ASSUME KeysToldApart, NodesInv, NEW k \in keys, NEW v \in TValue, ~FindAborts(k),
           nodes' = Inserted(k, v), reply' = reply
    PROVE  Map!Next
<1>1. Meaning(k) \in AllMeanings
  BY KeyMeaning DEF NodesInv
<1>2. \A m : ValueIn(nodes', m) = IF m = Meaning(k) THEN v ELSE ValueIn(nodes, m)
  BY InsertedNodes DEF NodesInv
<1>3. [m \in AllMeanings |-> ValueIn(nodes', m)] =
         [[m \in AllMeanings |-> ValueIn(nodes, m)] EXCEPT ![Meaning(k)] = v]
  BY <1>1, <1>2
<1>4. Map!Set(Meaning(k), v)
  BY <1>3, MapNow, MapNext DEF Map!Set
<1> QED BY <1>1, <1>4 DEF Map!Next

LEMMA DeleteSets == ASSUME KeysToldApart, NodesInv, Delete PROVE Map!Next \/ UNCHANGED Map!vars
<1>1. PICK k \in keys :
          /\ ~FindAborts(k)
          /\ nodes' = IF Stops(k) = {} THEN nodes
                      ELSE SubSeq(nodes, 1, Found(k) - 1)
                               \o SubSeq(nodes, Found(k) + 1, Len(nodes))
  BY DEF Delete
<1>2. reply' = reply
  BY DEF Delete
<1>3. CASE Stops(k) = {}
  BY <1>1, <1>2, <1>3, MapKept
<1>4. CASE Stops(k) # {}
  <2>1. Meaning(k) \in AllMeanings
    BY KeyMeaning DEF NodesInv
  <2>2. \A m : ValueIn(nodes', m) = IF m = Meaning(k) THEN TNil ELSE ValueIn(nodes, m)
    BY <1>1, <1>4, DeletedNodes DEF NodesInv
  <2>3. [m \in AllMeanings |-> ValueIn(nodes', m)] =
           [[m \in AllMeanings |-> ValueIn(nodes, m)] EXCEPT ![Meaning(k)] = TNil]
    BY <2>1, <2>2
  <2>4. Map!Set(Meaning(k), TNil)
    BY <1>2, <2>3, MapNow, MapNext DEF Map!Set
  <2> QED BY <2>1, <2>4, ValueAssumption DEF Map!Next
<1> QED BY <1>3, <1>4

LEMMA SearchGets == ASSUME KeysToldApart, NodesInv, TableGet PROVE Map!Next
<1>1. PICK k \in keys : ~FindAborts(k) /\ reply' = Searched(k)
  BY DEF TableGet
<1>2. Meaning(k) \in AllMeanings
  BY KeyMeaning DEF NodesInv
<1>3. reply' = ValueIn(nodes, Meaning(k)) /\ nodes' = nodes
  BY <1>1, SearchedValue DEF TableGet, NodesInv
<1>4. Map!Get(Meaning(k))
  BY <1>2, <1>3, MapNow, MapNext DEF Map!Get
<1> QED BY <1>2, <1>4 DEF Map!Next

LEMMA ItemSets == ASSUME KeysToldApart, NodesInv, SetListItem PROVE Map!Next \/ UNCHANGED Map!vars
<1> DEFINE k == NumberKey(setlist.key)
<1>1. k \in keys /\ Head(setlist.vals) \in TValue
  BY PendingItem DEF SetListItem
<1>2. CASE FindAborts(k)
  BY <1>2, MapKept DEF SetListItem, Abort
<1>3. CASE ~FindAborts(k)
  <2>1. nodes' = Inserted(k, Head(setlist.vals)) /\ reply' = reply
    BY <1>3 DEF SetListItem
  <2> QED BY <1>1, <1>3, <2>1, InsertSets
<1> QED BY <1>2, <1>3

LEMMA MapInit == DictionaryInit => Map!Init
<1> SUFFICES ASSUME DictionaryInit PROVE Map!Init
  OBVIOUS
<1>1. \A m : ValueIn(nodes, m) = TNil
  BY NoValue DEF DictionaryInit
<1> QED BY <1>1, MapNow DEF DictionaryInit, Map!Init

LEMMA MapStep ==
    KeysToldApart /\ NodesInv /\ [DictionaryNext]_dictionaryVars => [Map!Next]_(Map!vars)
<1> SUFFICES ASSUME KeysToldApart, NodesInv, [DictionaryNext]_dictionaryVars
             PROVE  Map!Next \/ UNCHANGED Map!vars
  OBVIOUS
<1>1. CASE UNCHANGED dictionaryVars
  BY <1>1, MapKept DEF dictionaryVars
<1>2. CASE TableSet
  BY <1>2, InsertSets DEF TableSet
<1>3. CASE TableGet
  BY <1>3, SearchGets
<1>4. CASE TableAborts \/ StartSetList
  BY <1>4, MapKept DEF TableAborts, Abort, StartSetList
<1>5. CASE Delete
  BY <1>5, DeleteSets
<1>6. CASE SetListItem
  BY <1>6, ItemSets
<1> QED BY <1>1, <1>2, <1>3, <1>4, <1>5, <1>6 DEF DictionaryNext

\* A table implements a map from texts and words to values: every table_set,
\* table_get, dictionary_delete and item of a SETLIST does to the list of
\* nodes what the operation of a map does, in tables with any kinds of keys
\* (src/table.c:66), unless the word of another key passes for a string.
THEOREM ImplementsMap == KeysToldApart /\ DictionarySpec => RefinesMap
<1>1. KeysToldApart /\ []NodesInv /\ [][DictionaryNext]_dictionaryVars =>
          [][Map!Next]_(Map!vars)
  <2>1. CASE KeysToldApart
    <3>1. NodesInv /\ [DictionaryNext]_dictionaryVars => [Map!Next]_(Map!vars)
      BY <2>1, MapStep
    <3> QED BY <3>1, PTL
  <2>2. CASE ~KeysToldApart
    BY <2>2
  <2> QED BY <2>1, <2>2
<1> QED BY <1>1, AlwaysNodesInv, MapInit, PTL DEF DictionarySpec, RefinesMap, Map!Spec

-----------------------------------------------------------------------------
\* Code is a sequence, of instructions that are of different shapes.
IsSeq(c) == \E S : c \in Seq(S)

LEMMA SeqFacts ==
    ASSUME NEW c, IsSeq(c)
    PROVE  Len(c) \in Nat /\ DOMAIN c = 1..Len(c)
BY DEF IsSeq

LEMMA SeqConcat ==
    ASSUME NEW a, NEW b, IsSeq(a), IsSeq(b)
    PROVE  /\ IsSeq(a \o b)
           /\ Len(a \o b) = Len(a) + Len(b)
           /\ \A i \in 1..Len(a) : (a \o b)[i] = a[i]
           /\ \A i \in 1..Len(b) : (a \o b)[Len(a) + i] = b[i]
<1>1. PICK S : a \in Seq(S)
  BY DEF IsSeq
<1>2. PICK T : b \in Seq(T)
  BY DEF IsSeq
<1>3. a \in Seq(S \cup T) /\ b \in Seq(S \cup T)
  BY <1>1, <1>2
<1>4. a \o b \in Seq(S \cup T)
  BY <1>3
<1>5. IsSeq(a \o b)
  BY <1>4 DEF IsSeq
<1>6. /\ Len(a \o b) = Len(a) + Len(b)
      /\ \A i \in 1..Len(a) : (a \o b)[i] = a[i]
      /\ \A i \in 1..Len(b) : (a \o b)[Len(a) + i] = b[i]
  BY <1>3
<1> QED BY <1>5, <1>6

LEMMA SeqOne ==
    ASSUME NEW i
    PROVE  IsSeq(<<i>>) /\ Len(<<i>>) = 1 /\ <<i>>[1] = i
<1>1. <<i>> \in Seq({i})
  OBVIOUS
<1> QED BY <1>1 DEF IsSeq

LEMMA SeqTwo ==
    ASSUME NEW i, NEW j
    PROVE  IsSeq(<<i, j>>) /\ Len(<<i, j>>) = 2 /\ <<i, j>>[1] = i /\ <<i, j>>[2] = j
<1>1. <<i, j>> \in Seq({i, j})
  OBVIOUS
<1> QED BY <1>1 DEF IsSeq

LEMMA SeqNone == IsSeq(<<>>) /\ Len(<<>>) = 0
<1>1. <<>> \in Seq({})
  OBVIOUS
<1> QED BY <1>1 DEF IsSeq

-----------------------------------------------------------------------------
\* What a place other than a temporary may hold: words of locals and cells are
\* a value, then a type, or a type, then a value.
Content(p) ==
    CASE p = Zero -> {0}
      [] p[1] \in {"reg", "frame"} -> IF p[2] % 2 = 1 THEN Types ELSE Word
      [] p[1] = "cell" -> IF p[2] % 2 = 0 THEN Types ELSE Word
      [] p = FrameClosure -> {Slot0}
      [] p = Slot0 -> {Object(0)}
      [] p[1] = "object" -> {UpVal(p[2])}
      [] p[1] = "upval" -> {CellType(p[2])}

\* The contents of the machine when nothing is known of the temporaries, and
\* when some are known to be words, to be of some set, or to be one address.
Anything(f) == Word \cup Places(f) \cup {Object(0)}
Unknown(f) == {v \in [Places(f) -> Anything(f)] : \A p \in Places(f) \ Temps : v[p] \in Content(p)}
Knows(f, T) == {v \in Unknown(f) : \A t \in T \cap Temps : v[t] \in Word}
Has(f, t, K) == {v \in Unknown(f) : v[t] \in K}

Clobber(v) == [p \in DOMAIN v |-> IF p \in Temps THEN Junk ELSE v[p]]

Computing == {"add", "sub", "mul", "or", "sll", "sra", "div", "mod"}
Operations == {"add", "sub", "mul", "div", "mod"}
PlainOps == Computing \cup {"copy", "address"}

\* One instruction takes contents in P to contents in Q, whatever it does.
Steps(f, i, P, Q) ==
    \/ i.op \in PlainOps /\ \A v \in P : Effects(v, i) \subseteq Q
    \/ i.op = "label" /\ P = Unknown(f) /\ P \subseteq Q
    \/ IsBranch(i) /\ P \subseteq Q
    \/ /\ i.op = "bop" /\ i.bop \in Operations
       /\ \A v \in P : /\ Read(v, i.s.value) \in Word /\ Read(v, i.t.value) \in Word
                       /\ \A w \in Word : Write(Write(Clobber(v), i.home, Number), i.to, w) \in Q
    \/ i.op = "relational" /\ \A v \in P, b \in {0, 1} : Write(Clobber(v), i.to, b) \in Q
    \/ /\ i.op = "tableget"
       /\ \A v \in P, x \in Value :
            Write([Clobber(v) EXCEPT ![Read(v, i.home)] = x.type], i.to, x.word) \in Q
    \/ i.op = "tableset" /\ \A v \in P : Argument(v, i.s) \in Value /\ Clobber(v) \in Q
    \/ i.op = "create" /\ \A v \in P, t \in Addresses : Write(Clobber(v), i.to, t) \in Q
    \/ /\ i.op = "setlist" /\ i.first \in Int
       /\ \A v \in P : /\ Clobber(v) \in Q
                       /\ \A j \in 0..(i.n - 1) : Item(v, Read(v, i.base), j) \in Value

\* Every branch has its delay slot, and a label further on or outside, in L.
Jumps(c, L) ==
    \A j \in 1..Len(c) : IsBranch(c[j]) =>
        /\ j < Len(c) /\ c[j + 1].op \in PlainOps
        /\ c[j].to \in L \/ \E k \in (j + 1)..Len(c) : c[k] = Label(c[j].to)

\* What is known before each instruction, and after the last one.
Annotates(f, c, A) ==
    /\ A \in [1..(Len(c) + 1) -> SUBSET Unknown(f)]
    /\ \A j \in 1..Len(c) : Steps(f, c[j], A[j], A[j + 1])

Typed(f, c, L, P, Q) ==
    /\ \E A : Annotates(f, c, A) /\ P \subseteq A[1] /\ A[Len(c) + 1] \subseteq Q
    /\ Jumps(c, L)

\* Only registers are computed with, and immediates that fit.
InRegisters(i) ==
    i.op \in Computing =>
        /\ IsReg(i.d) /\ IsReg(i.s)
        /\ \/ IsReg(i.t)
           \/ i.op \in {"add", "sll", "sra"} /\ i.t.k \in (-ImmHalf)..(ImmHalf - 1)

Computes(c) == \A j \in 1..Len(c) : InRegisters(c[j])

Fine(f, c, L, P, Q) ==
    /\ IsSeq(c)
    /\ Computes(c)
    /\ Refused(c) \/ Typed(f, c, L, P, Q)

-----------------------------------------------------------------------------
LEMMA StepsWeaker ==
    ASSUME NEW f, NEW i, NEW P, NEW Q, NEW R, Steps(f, i, P, Q), Q \subseteq R
    PROVE  Steps(f, i, P, R)
<1>1. CASE i.op \in PlainOps /\ \A v \in P : Effects(v, i) \subseteq Q
  BY <1>1 DEF Steps
<1>2. CASE i.op = "label" /\ P = Unknown(f) /\ P \subseteq Q
  BY <1>2 DEF Steps
<1>3. CASE IsBranch(i) /\ P \subseteq Q
  BY <1>3 DEF Steps
<1>4. CASE /\ i.op = "bop" /\ i.bop \in Operations
           /\ \A v \in P : /\ Read(v, i.s.value) \in Word /\ Read(v, i.t.value) \in Word
                           /\ \A w \in Word : Write(Write(Clobber(v), i.home, Number), i.to, w) \in Q
  BY <1>4 DEF Steps
<1>5. CASE i.op = "relational" /\ \A v \in P, b \in {0, 1} : Write(Clobber(v), i.to, b) \in Q
  BY <1>5 DEF Steps
<1>6. CASE /\ i.op = "tableget"
           /\ \A v \in P, x \in Value :
                Write([Clobber(v) EXCEPT ![Read(v, i.home)] = x.type], i.to, x.word) \in Q
  BY <1>6 DEF Steps
<1>7. CASE i.op = "tableset" /\ \A v \in P : Argument(v, i.s) \in Value /\ Clobber(v) \in Q
  BY <1>7 DEF Steps
<1>8. CASE i.op = "create" /\ \A v \in P, t \in Addresses : Write(Clobber(v), i.to, t) \in Q
  BY <1>8 DEF Steps
<1>9. CASE /\ i.op = "setlist" /\ i.first \in Int
           /\ \A v \in P : /\ Clobber(v) \in Q
                           /\ \A j \in 0..(i.n - 1) : Item(v, Read(v, i.base), j) \in Value
  BY <1>9 DEF Steps
<1> QED BY <1>1, <1>2, <1>3, <1>4, <1>5, <1>6, <1>7, <1>8, <1>9 DEF Steps

LEMMA ComputesConcat ==
    ASSUME NEW a, NEW b, IsSeq(a), IsSeq(b), Computes(a), Computes(b)
    PROVE  Computes(a \o b)
<1>1. SUFFICES ASSUME NEW j \in 1..Len(a \o b) PROVE InRegisters((a \o b)[j])
  BY DEF Computes
<1>2. Len(a) \in Nat /\ Len(b) \in Nat /\ Len(a \o b) = Len(a) + Len(b)
  BY SeqConcat, SeqFacts
<1>3. CASE j <= Len(a)
  <2>1. j \in 1..Len(a)
    BY <1>2, <1>3
  <2> QED BY <2>1, SeqConcat DEF Computes
<1>4. CASE j > Len(a)
  <2>1. j - Len(a) \in 1..Len(b) /\ j = Len(a) + (j - Len(a))
    BY <1>2, <1>4
  <2>2. (a \o b)[j] = b[j - Len(a)]
    BY <2>1, SeqConcat
  <2> QED BY <2>1, <2>2 DEF Computes
<1> QED BY <1>2, <1>3, <1>4

LEMMA RefusedConcat ==
    ASSUME NEW a, NEW b, IsSeq(a), IsSeq(b), Refused(a) \/ Refused(b)
    PROVE  Refused(a \o b)
<1>1. Len(a) \in Nat /\ Len(b) \in Nat /\ Len(a \o b) = Len(a) + Len(b)
  BY SeqConcat, SeqFacts
<1>2. DOMAIN a = 1..Len(a) /\ DOMAIN b = 1..Len(b) /\ DOMAIN (a \o b) = 1..Len(a \o b)
  BY SeqConcat, SeqFacts
<1>3. CASE Refused(a)
  <2>1. PICK j \in 1..Len(a) : a[j].op = "assert"
    BY <1>2, <1>3 DEF Refused
  <2>2. j \in 1..Len(a \o b) /\ (a \o b)[j] = a[j]
    BY <1>1, SeqConcat
  <2> QED BY <2>1, <2>2, <1>2 DEF Refused
<1>4. CASE Refused(b)
  <2>1. PICK j \in 1..Len(b) : b[j].op = "assert"
    BY <1>2, <1>4 DEF Refused
  <2>2. Len(a) + j \in 1..Len(a \o b) /\ (a \o b)[Len(a) + j] = b[j]
    BY <1>1, SeqConcat
  <2> QED BY <2>1, <2>2, <1>2 DEF Refused
<1> QED BY <1>3, <1>4

LEMMA JumpsConcat ==
    ASSUME NEW a, NEW b, NEW L, NEW M, IsSeq(a), IsSeq(b), Jumps(a, L), Jumps(b, M)
    PROVE  Jumps(a \o b, L \cup M)
<1> DEFINE c == a \o b
<1>1. /\ Len(a) \in Nat /\ Len(b) \in Nat /\ Len(c) = Len(a) + Len(b)
      /\ \A i \in 1..Len(a) : c[i] = a[i]
      /\ \A i \in 1..Len(b) : c[Len(a) + i] = b[i]
  BY SeqConcat, SeqFacts
<1> HIDE DEF c
<1>2. SUFFICES ASSUME NEW j \in 1..Len(c), IsBranch(c[j])
               PROVE  /\ j < Len(c) /\ c[j + 1].op \in PlainOps
                      /\ c[j].to \in L \cup M \/ \E k \in (j + 1)..Len(c) : c[k] = Label(c[j].to)
  BY DEF Jumps, c
<1>3. CASE j <= Len(a)
  <2>1. j \in 1..Len(a) /\ c[j] = a[j]
    BY <1>1, <1>3
  <2>2. j < Len(a) /\ a[j + 1].op \in PlainOps
    BY <2>1, <1>2 DEF Jumps
  <2>3. j + 1 \in 1..Len(a) /\ c[j + 1] = a[j + 1] /\ j < Len(c)
    BY <2>1, <2>2, <1>1
  <2>4. a[j].to \in L \/ \E k \in (j + 1)..Len(a) : a[k] = Label(a[j].to)
    BY <2>1, <1>2 DEF Jumps
  <2>5. ASSUME NEW k \in (j + 1)..Len(a), a[k] = Label(a[j].to)
        PROVE  \E m \in (j + 1)..Len(c) : c[m] = Label(c[j].to)
    <3>1. k \in (j + 1)..Len(c) /\ k \in 1..Len(a)
      BY <1>1, <2>1
    <3> QED BY <3>1, <2>1, <2>5, <1>1
  <2> QED BY <2>1, <2>2, <2>3, <2>4, <2>5
<1>4. CASE j > Len(a)
  <2> DEFINE i == j - Len(a)
  <2>1. i \in 1..Len(b) /\ j = Len(a) + i /\ c[j] = b[i]
    BY <1>1, <1>4
  <2> HIDE DEF i
  <2>2. i < Len(b) /\ b[i + 1].op \in PlainOps
    BY <2>1, <1>2 DEF Jumps
  <2>3. i + 1 \in 1..Len(b) /\ j + 1 = Len(a) + (i + 1) /\ j < Len(c)
    BY <2>1, <2>2, <1>1
  <2>4. c[j + 1] = b[i + 1]
    BY <2>3, <1>1
  <2>5. b[i].to \in M \/ \E k \in (i + 1)..Len(b) : b[k] = Label(b[i].to)
    BY <2>1, <1>2 DEF Jumps
  <2>6. ASSUME NEW k \in (i + 1)..Len(b), b[k] = Label(b[i].to)
        PROVE  \E m \in (j + 1)..Len(c) : c[m] = Label(c[j].to)
    <3>1. Len(a) + k \in (j + 1)..Len(c) /\ k \in 1..Len(b)
      BY <1>1, <2>1
    <3>2. c[Len(a) + k] = b[k]
      BY <3>1, <1>1
    <3> QED BY <3>1, <3>2, <2>1, <2>6
  <2> QED BY <2>1, <2>2, <2>3, <2>4, <2>5, <2>6
<1> QED BY <1>1, <1>3, <1>4

LEMMA TypedConcat ==
    ASSUME NEW f, NEW a, NEW b, NEW L, NEW M, NEW P, NEW Q, NEW R, IsSeq(a), IsSeq(b),
           Typed(f, a, L, P, Q), Typed(f, b, M, Q, R)
    PROVE  Typed(f, a \o b, L \cup M, P, R)
<1> DEFINE c == a \o b
<1>1. /\ Len(a) \in Nat /\ Len(b) \in Nat /\ Len(c) = Len(a) + Len(b)
      /\ \A i \in 1..Len(a) : c[i] = a[i]
      /\ \A i \in 1..Len(b) : c[Len(a) + i] = b[i]
  BY SeqConcat, SeqFacts
<1>2. Jumps(c, L \cup M)
  BY JumpsConcat DEF Typed
<1> HIDE DEF c
<1>3. PICK A : Annotates(f, a, A) /\ P \subseteq A[1] /\ A[Len(a) + 1] \subseteq Q
  BY DEF Typed
<1>4. PICK B : Annotates(f, b, B) /\ Q \subseteq B[1] /\ B[Len(b) + 1] \subseteq R
  BY DEF Typed
<1> DEFINE C == [j \in 1..(Len(c) + 1) |-> IF j <= Len(a) THEN A[j] ELSE B[j - Len(a)]]
<1>5. A \in [1..(Len(a) + 1) -> SUBSET Unknown(f)] /\ B \in [1..(Len(b) + 1) -> SUBSET Unknown(f)]
  BY <1>3, <1>4 DEF Annotates
<1>6. C \in [1..(Len(c) + 1) -> SUBSET Unknown(f)]
  <2>1. ASSUME NEW j \in 1..(Len(c) + 1)
        PROVE  (IF j <= Len(a) THEN A[j] ELSE B[j - Len(a)]) \in SUBSET Unknown(f)
    <3>1. CASE j <= Len(a)
      <4>1. j \in 1..(Len(a) + 1)
        BY <3>1, <1>1
      <4> QED BY <4>1, <3>1, <1>5
    <3>2. CASE ~(j <= Len(a))
      <4>1. j - Len(a) \in 1..(Len(b) + 1)
        BY <3>2, <1>1
      <4> QED BY <4>1, <3>2, <1>5
    <3> QED BY <3>1, <3>2
  <2> QED BY <2>1
<1>7. ASSUME NEW j \in 1..Len(c) PROVE Steps(f, c[j], C[j], C[j + 1])
  <2>1. CASE j < Len(a)
    <3>1. j \in 1..Len(a) /\ c[j] = a[j] /\ C[j] = A[j] /\ C[j + 1] = A[j + 1]
      BY <1>1, <2>1
    <3> QED BY <3>1, <1>3 DEF Annotates
  <2>2. CASE j = Len(a)
    <3>1. j \in 1..Len(a) /\ c[j] = a[j] /\ C[j] = A[j] /\ C[j + 1] = B[1]
      BY <1>1, <2>2
    <3>2. Steps(f, a[j], A[j], A[j + 1]) /\ A[j + 1] \subseteq B[1]
      BY <3>1, <2>2, <1>3, <1>4 DEF Annotates
    <3> QED BY <3>1, <3>2, StepsWeaker
  <2>3. CASE j > Len(a)
    <3> DEFINE i == j - Len(a)
    <3>1. i \in 1..Len(b) /\ j = Len(a) + i
      BY <1>1, <2>3
    <3>2. C[j] = B[i] /\ C[j + 1] = B[i + 1]
      BY <1>1, <2>3
    <3> HIDE DEF i
    <3>3. c[j] = b[i]
      BY <3>1, <1>1
    <3>4. Steps(f, b[i], B[i], B[i + 1])
      BY <3>1, <1>4 DEF Annotates
    <3> QED BY <3>2, <3>3, <3>4
  <2> QED BY <1>1, <2>1, <2>2, <2>3
<1>8. P \subseteq C[1]
  <2>1. CASE Len(a) = 0
    <3>1. C[1] = B[1] /\ A[Len(a) + 1] = A[1]
      BY <2>1, <1>1
    <3> QED BY <3>1, <1>3, <1>4
  <2>2. CASE Len(a) # 0
    <3>1. C[1] = A[1]
      BY <2>2, <1>1
    <3> QED BY <3>1, <1>3
  <2> QED BY <2>1, <2>2
<1>9. C[Len(c) + 1] \subseteq R
  <2>1. C[Len(c) + 1] = B[Len(b) + 1]
    <3>1. Len(c) + 1 - Len(a) = Len(b) + 1 /\ ~(Len(c) + 1 <= Len(a)) /\ Len(c) + 1 \in 1..(Len(c) + 1)
      BY <1>1
    <3> QED BY <3>1
  <2> QED BY <2>1, <1>4
<1> HIDE DEF C
<1>10. Annotates(f, c, C)
  BY <1>6, <1>7 DEF Annotates
<1>11. Typed(f, c, L \cup M, P, R)
  BY <1>10, <1>8, <1>9, <1>2 DEF Typed
<1> QED BY <1>11 DEF c

\* The rule of composition.
LEMMA FineConcat ==
    ASSUME NEW f, NEW a, NEW b, NEW L, NEW M, NEW P, NEW Q, NEW R,
           Fine(f, a, L, P, Q), Fine(f, b, M, Q, R)
    PROVE  Fine(f, a \o b, L \cup M, P, R)
<1>1. IsSeq(a) /\ IsSeq(b) /\ Computes(a) /\ Computes(b)
  BY DEF Fine
<1>2. IsSeq(a \o b) /\ Computes(a \o b)
  BY <1>1, SeqConcat, ComputesConcat
<1>3. CASE Refused(a) \/ Refused(b)
  <2>1. Refused(a \o b)
    BY <1>1, <1>3, RefusedConcat
  <2> QED BY <2>1, <1>2 DEF Fine
<1>4. CASE ~(Refused(a) \/ Refused(b))
  <2>1. Typed(f, a, L, P, Q) /\ Typed(f, b, M, Q, R)
    BY <1>4 DEF Fine
  <2>2. Typed(f, a \o b, L \cup M, P, R)
    BY <2>1, <1>1, TypedConcat
  <2> QED BY <2>2, <1>2 DEF Fine
<1> QED BY <1>3, <1>4

\* Rules of consequence: less is known before, more is asked after.
LEMMA FineWeaker ==
    ASSUME NEW f, NEW c, NEW L, NEW M, NEW P, NEW Q, NEW R, NEW S,
           Fine(f, c, L, P, Q), L \subseteq M, R \subseteq P, Q \subseteq S
    PROVE  Fine(f, c, M, R, S)
<1>1. CASE Refused(c)
  BY <1>1 DEF Fine
<1>2. CASE ~Refused(c)
  <2>1. Typed(f, c, L, P, Q) /\ IsSeq(c) /\ Computes(c)
    BY <1>2 DEF Fine
  <2>2. PICK A : Annotates(f, c, A) /\ P \subseteq A[1] /\ A[Len(c) + 1] \subseteq Q
    BY <2>1 DEF Typed
  <2>3. Jumps(c, M)
    BY <2>1 DEF Typed, Jumps
  <2>4. R \subseteq A[1] /\ A[Len(c) + 1] \subseteq S
    BY <2>2
  <2>5. Typed(f, c, M, R, S)
    BY <2>2, <2>3, <2>4 DEF Typed
  <2> QED BY <2>1, <2>5 DEF Fine
<1> QED BY <1>1, <1>2

-----------------------------------------------------------------------------
LEMMA FineNone ==
    ASSUME NEW f, NEW P, NEW Q, P \subseteq Q, P \subseteq Unknown(f)
    PROVE  Fine(f, <<>>, {}, P, Q)
<1> DEFINE A == [j \in 1..1 |-> P]
<1>1. IsSeq(<<>>) /\ Len(<<>>) = 0
  BY SeqNone
<1>2. Annotates(f, <<>>, A)
  BY <1>1 DEF Annotates
<1>3. P \subseteq A[1] /\ A[Len(<<>>) + 1] \subseteq Q
  BY <1>1
<1> HIDE DEF A
<1>4. Jumps(<<>>, {}) /\ Computes(<<>>)
  BY <1>1 DEF Jumps, Computes
<1>5. Typed(f, <<>>, {}, P, Q)
  BY <1>2, <1>3, <1>4 DEF Typed
<1> QED BY <1>1, <1>4, <1>5 DEF Fine

LEMMA FineOne ==
    ASSUME NEW f, NEW i, NEW P, NEW Q, P \subseteq Unknown(f), Q \subseteq Unknown(f),
           Steps(f, i, P, Q), ~IsBranch(i), InRegisters(i)
    PROVE  Fine(f, <<i>>, {}, P, Q)
<1> DEFINE A == [j \in 1..2 |-> IF j = 1 THEN P ELSE Q]
<1>1. IsSeq(<<i>>) /\ Len(<<i>>) = 1 /\ <<i>>[1] = i
  BY SeqOne
<1>2. A \in [1..(Len(<<i>>) + 1) -> SUBSET Unknown(f)]
  BY <1>1
<1>3. A[1] = P /\ A[2] = Q
  OBVIOUS
<1> HIDE DEF A
<1>4. Annotates(f, <<i>>, A)
  BY <1>1, <1>2, <1>3 DEF Annotates
<1>5. P \subseteq A[1] /\ A[Len(<<i>>) + 1] \subseteq Q
  BY <1>1, <1>3
<1>6. Jumps(<<i>>, {}) /\ Computes(<<i>>)
  BY <1>1 DEF Jumps, Computes
<1>7. Typed(f, <<i>>, {}, P, Q)
  BY <1>4, <1>5, <1>6 DEF Typed
<1> QED BY <1>1, <1>6, <1>7 DEF Fine

\* A branch, and the instruction in its delay slot.
LEMMA FineBranch ==
    ASSUME NEW f, NEW i, NEW P, NEW Q, NEW op \in BranchOps, NEW s, NEW t, NEW l,
           P \subseteq Unknown(f), Q \subseteq Unknown(f),
           Steps(f, i, P, Q), i.op \in PlainOps, InRegisters(i)
    PROVE  Fine(f, <<Branch(op, s, t, l), i>>, {l}, P, Q)
<1> DEFINE b == Branch(op, s, t, l)
           c == <<b, i>>
           A == [j \in 1..3 |-> IF j = 3 THEN Q ELSE P]
<1>1. IsSeq(c) /\ Len(c) = 2 /\ c[1] = b /\ c[2] = i
  BY SeqTwo
<1>2. b.op = op /\ b.to = l /\ IsBranch(b)
  BY DEF Branch, IsBranch
<1>3. InRegisters(b)
  BY <1>2 DEF InRegisters, Computing, BranchOps
<1>4. Steps(f, b, P, P)
  BY <1>2 DEF Steps
<1>5. ~IsBranch(i)
  BY DEF PlainOps, Computing, IsBranch, BranchOps
<1> HIDE DEF b, c
<1>6. A \in [1..(Len(c) + 1) -> SUBSET Unknown(f)]
  BY <1>1
<1>7. A[1] = P /\ A[2] = P /\ A[3] = Q
  OBVIOUS
<1> HIDE DEF A
<1>8. Annotates(f, c, A)
  <2>1. ASSUME NEW j \in 1..Len(c) PROVE Steps(f, c[j], A[j], A[j + 1])
    <3>1. j = 1 \/ j = 2
      BY <1>1
    <3> QED BY <3>1, <1>1, <1>4, <1>7
  <2> QED BY <2>1, <1>6 DEF Annotates
<1>9. P \subseteq A[1] /\ A[Len(c) + 1] \subseteq Q
  BY <1>1, <1>7
<1>10. Jumps(c, {l})
  BY <1>1, <1>2, <1>5 DEF Jumps
<1>11. Computes(c)
  BY <1>1, <1>3 DEF Computes
<1>12. Fine(f, c, {l}, P, Q)
  BY <1>1, <1>8, <1>9, <1>10, <1>11 DEF Fine, Typed
<1> QED BY <1>12 DEF c, b

\* A label, which ends the branches to it.
LEMMA FineLabel ==
    ASSUME NEW f, NEW c, NEW L, NEW P, NEW l, Fine(f, c, L, P, Unknown(f))
    PROVE  Fine(f, c \o <<Label(l)>>, L \ {l}, P, Unknown(f))
<1> DEFINE b == <<Label(l)>>
           d == c \o b
           U == Unknown(f)
<1>1. IsSeq(b) /\ Len(b) = 1 /\ b[1] = Label(l)
  BY SeqOne
<1>2. Label(l).op = "label"
  BY DEF Label
<1>3. ~IsBranch(Label(l)) /\ InRegisters(Label(l)) /\ Steps(f, Label(l), U, U)
  BY <1>2 DEF IsBranch, BranchOps, InRegisters, Computing, Steps
<1>4. Fine(f, b, {}, U, U)
  BY <1>3, FineOne
<1> HIDE DEF U
<1>5. Fine(f, d, L \cup {}, P, U)
  BY <1>4, FineConcat DEF U
<1>6. IsSeq(c)
  BY DEF Fine
<1> HIDE DEF b
<1>7. /\ Len(c) \in Nat /\ Len(d) = Len(c) + 1
      /\ d[Len(c) + 1] = Label(l)
  <2>1. d[Len(c) + 1] = b[1]
    BY <1>1, <1>6, SeqConcat
  <2>2. Len(d) = Len(c) + Len(b)
    BY <1>1, <1>6, SeqConcat
  <2>3. Len(c) \in Nat
    BY <1>6, SeqFacts
  <2> QED BY <2>1, <2>2, <2>3, <1>1
<1> HIDE DEF d
<1>8. ASSUME ~Refused(d)
      PROVE  Typed(f, d, L \ {l}, P, U)
  <2>1. Typed(f, d, L, P, U)
    BY <1>5, <1>8 DEF Fine
  <2>2. Jumps(d, L)
    BY <2>1 DEF Typed
  <2>3. ASSUME NEW j \in 1..Len(d), IsBranch(d[j]), d[j].to = l
        PROVE  \E k \in (j + 1)..Len(d) : d[k] = Label(d[j].to)
    <3>1. j < Len(d)
      BY <2>2, <2>3 DEF Jumps
    <3>2. Len(d) \in (j + 1)..Len(d)
      BY <3>1, <1>7
    <3> QED BY <3>2, <1>7, <2>3
  <2>4. Jumps(d, L \ {l})
    BY <2>2, <2>3 DEF Jumps
  <2> QED BY <2>1, <2>4 DEF Typed
<1>9. Fine(f, d, L \ {l}, P, U)
  BY <1>5, <1>8 DEF Fine
<1> QED BY <1>9 DEF d, b, U

\* The compiler stops at a failed assertion.
LEMMA FineAsserted ==
    ASSUME NEW f, NEW x \in BOOLEAN, NEW P, P \subseteq Unknown(f)
    PROVE  /\ Fine(f, Asserted(x), {}, P, P)
           /\ ~x => \A L, Q : Fine(f, Asserted(x), L, P, Q)
<1>1. CASE x
  <2>1. Asserted(x) = <<>>
    BY <1>1 DEF Asserted
  <2> QED BY <2>1, <1>1, FineNone
<1>2. CASE ~x
  <2> DEFINE i == [op |-> "assert"]
  <2>1. Asserted(x) = <<i>>
    BY <1>2 DEF Asserted
  <2>2. IsSeq(<<i>>) /\ Len(<<i>>) = 1 /\ <<i>>[1] = i /\ DOMAIN <<i>> = 1..1
    BY SeqOne
  <2>3. Refused(<<i>>) /\ Computes(<<i>>)
    BY <2>2 DEF Refused, Computes, InRegisters, Computing
  <2>4. \A L, Q : Fine(f, <<i>>, L, P, Q)
    BY <2>2, <2>3 DEF Fine
  <2> QED BY <2>1, <2>4
<1> QED BY <1>1, <1>2

-----------------------------------------------------------------------------
LEMMA WordFacts ==
    /\ 0 \in Word /\ 1 \in Word /\ Junk \in Word /\ Types \subseteq Word
    /\ \A k \in (-ImmHalf)..(ImmHalf - 1) : k \in Word
<1>1. 0 \in Word /\ Junk \in Word
  BY HalfAssumption DEF Word, Junk
<1>2. \A k \in (-ImmHalf)..(ImmHalf - 1) : k \in Word
  BY HalfAssumption DEF Word
<1>3. Half > 5
  BY HalfAssumption, TypesAssumption DEF Types, Table, Word
<1> QED BY <1>1, <1>2, <1>3, HalfAssumption, TypesAssumption DEF Word

\* What instructions compute are words again.
LEMMA ResultsAreWords ==
    ASSUME NEW op \in Computing \cup {"copy"}, NEW a \in Word, NEW b \in Word,
           op \in {"sll", "sra"} => 2^b \in Nat \ {0}
    PROVE  Results(op, a, b) \subseteq Word /\ Results(op, a, b) # {}
<1>1. CASE op = "copy"
  BY <1>1 DEF Results
<1>2. CASE op = "add"
  BY <1>2, HalfAssumption DEF Results, Word, Wrap
<1>3. CASE op = "sub"
  BY <1>3, HalfAssumption DEF Results, Word, Wrap
<1>4. CASE op = "or"
  BY <1>4 DEF Results, OrWord
<1>5. CASE op = "mul"
  BY <1>5, HalfAssumption DEF Results, Word, Wrap
<1>6. CASE op = "sll"
  <2>1. \A k \in Int : Wrap(a * k) \in Word
    BY HalfAssumption DEF Word, Wrap
  <2>2. 2^b \in Int
    BY <1>6
  <2> QED BY <1>6, <2>1, <2>2 DEF Results
<1>7. CASE op = "sra"
  <2>1. \A k \in Nat \ {0} : a \div k \in Word
    BY HalfAssumption DEF Word
  <2>2. 2^b \in Nat \ {0}
    BY <1>7
  <2> QED BY <1>7, <2>1, <2>2 DEF Results
<1>8. CASE op = "div"
  <2>1. ASSUME b # 0 PROVE Wrap(Quotient(a, b)) \in Word
    <3>1. Quotient(a, b) \in Int
      BY <2>1 DEF Word, Quotient, Abs
    <3> QED BY <3>1, HalfAssumption DEF Word, Wrap
  <2> QED BY <1>8, <2>1, WordFacts DEF Results
<1>9. CASE op = "mod"
  <2>1. ASSUME b # 0 PROVE Remainder(a, b) \in Word
    BY <2>1, HalfAssumption DEF Word, Remainder, Quotient, Abs
  <2> QED BY <1>9, <2>1, WordFacts DEF Results
<1> QED BY <1>1, <1>2, <1>3, <1>4, <1>5, <1>6, <1>7, <1>8, <1>9 DEF Computing

LEMMA WriteFits ==
    ASSUME NEW f, NEW v \in Unknown(f), NEW o, At(v, o) \in Places(f), NEW w \in Anything(f),
           At(v, o) \in Temps \cup {Zero} \/ w \in Content(At(v, o))
    PROVE  /\ Write(v, o, w) \in Unknown(f)
           /\ At(v, o) # Zero => Write(v, o, w)[At(v, o)] = w
           /\ \A q \in Places(f) : q # At(v, o) => Write(v, o, w)[q] = v[q]
<1> DEFINE p == At(v, o)
           u == [v EXCEPT ![p] = w]
<1>1. v \in [Places(f) -> Anything(f)] /\ \A q \in Places(f) \ Temps : v[q] \in Content(q)
  BY DEF Unknown
<1>2. CASE p = Zero
  BY <1>2 DEF Write
<1>3. CASE p # Zero
  <2>1. Write(v, o, w) = u
    BY <1>3 DEF Write
  <2>2. p \in Places(f) /\ (p \in Temps \/ w \in Content(p))
    BY <1>3
  <2> HIDE DEF p
  <2>3. u \in [Places(f) -> Anything(f)] /\ u[p] = w /\ \A q \in Places(f) : q # p => u[q] = v[q]
    BY <1>1, <2>2
  <2>4. \A q \in Places(f) \ Temps : u[q] \in Content(q)
    BY <1>1, <2>2, <2>3
  <2> QED BY <2>1, <2>3, <2>4 DEF p, Unknown
<1> QED BY <1>2, <1>3

LEMMA ContentFacts ==
    /\ Content(Zero) = {0}
    /\ Content(FrameClosure) = {Slot0} /\ Content(Slot0) = {Object(0)}
    /\ \A u : Content(Object(u)) = {UpVal(u)} /\ Content(UpVal(u)) = {CellType(u)}
    /\ \A u \in Nat : Content(CellType(u)) = Types /\ Content(CellValue(u)) = Word
    /\ \A l \in Nat : /\ Content(Register(2 * l)) = Word /\ Content(Register(2 * l + 1)) = Types
                      /\ Content(FrameWord(2 * l)) = Word /\ Content(FrameWord(2 * l + 1)) = Types
<1>1. Zero[1] = "zero" /\ FrameClosure[1] = "closure" /\ Slot0[1] = "slot"
  BY DEF Zero, FrameClosure, Slot0
<1>2. Content(Zero) = {0}
  BY <1>1 DEF Content
<1>3. Content(FrameClosure) = {Slot0}
  BY <1>1 DEF Content
<1>4. Content(Slot0) = {Object(0)}
  BY <1>1 DEF Content
<1>5. ASSUME NEW u PROVE Content(Object(u)) = {UpVal(u)} /\ Content(UpVal(u)) = {CellType(u)}
  <2>1. Object(u)[1] = "object" /\ Object(u)[2] = u /\ UpVal(u)[1] = "upval" /\ UpVal(u)[2] = u
    BY DEF Object, UpVal
  <2>2. Content(Object(u)) = {UpVal(u)}
    BY <2>1, <1>1 DEF Content
  <2>3. Content(UpVal(u)) = {CellType(u)}
    BY <2>1, <1>1 DEF Content
  <2> QED BY <2>2, <2>3
<1>6. ASSUME NEW u \in Nat PROVE Content(CellType(u)) = Types /\ Content(CellValue(u)) = Word
  <2>1. /\ CellType(u)[1] = "cell" /\ CellType(u)[2] = 2 * u
        /\ CellValue(u)[1] = "cell" /\ CellValue(u)[2] = 2 * u + 1
    BY DEF CellType, CellValue
  <2>2. (2 * u) % 2 = 0 /\ (2 * u + 1) % 2 = 1
    OBVIOUS
  <2>3. Content(CellType(u)) = Types
    BY <2>1, <2>2, <1>1 DEF Content
  <2>4. Content(CellValue(u)) = Word
    BY <2>1, <2>2, <1>1 DEF Content
  <2> QED BY <2>3, <2>4
<1>7. ASSUME NEW l \in Nat
      PROVE  /\ Content(Register(2 * l)) = Word /\ Content(Register(2 * l + 1)) = Types
             /\ Content(FrameWord(2 * l)) = Word /\ Content(FrameWord(2 * l + 1)) = Types
  <2>1. /\ \A k : Register(k)[1] = "reg" /\ Register(k)[2] = k
        /\ \A k : FrameWord(k)[1] = "frame" /\ FrameWord(k)[2] = k
    BY DEF Register, FrameWord
  <2>2. (2 * l) % 2 = 0 /\ (2 * l + 1) % 2 = 1
    OBVIOUS
  <2>3. Content(Register(2 * l)) = Word
    BY <2>1, <2>2, <1>1 DEF Content
  <2>4. Content(Register(2 * l + 1)) = Types
    BY <2>1, <2>2, <1>1 DEF Content
  <2>5. Content(FrameWord(2 * l)) = Word
    BY <2>1, <2>2, <1>1 DEF Content
  <2>6. Content(FrameWord(2 * l + 1)) = Types
    BY <2>1, <2>2, <1>1 DEF Content
  <2> QED BY <2>3, <2>4, <2>5, <2>6
<1> QED BY <1>2, <1>3, <1>4, <1>5, <1>6, <1>7

LEMMA PlaceFacts ==
    ASSUME NEW f
    PROVE  /\ Temps \subseteq Places(f) /\ Zero \in Places(f) /\ Zero \notin Temps
           /\ Word \subseteq Anything(f) /\ Places(f) \subseteq Anything(f) /\ Content(Zero) = {0}
           /\ \A n \in 0..3 : Temp(n) \in Temps
           /\ \A m, n : Temp(m) = Temp(n) => m = n
<1>1. Temps \subseteq Places(f) /\ Zero \in Places(f)
  BY DEF Places
<1>2. Zero \notin Temps
  BY DEF Zero, Temps, Temp
<1>3. Word \subseteq Anything(f) /\ Places(f) \subseteq Anything(f)
  BY DEF Anything
<1>4. Content(Zero) = {0}
  BY ContentFacts
<1>5. \A n \in 0..3 : Temp(n) \in Temps
  BY DEF Temps
<1>6. \A m, n : Temp(m) = Temp(n) => m = n
  BY DEF Temp
<1> QED BY <1>1, <1>2, <1>3, <1>4, <1>5, <1>6

-----------------------------------------------------------------------------
\* An operand that holds a word, given that the temporaries in T do, and one
\* that a word may be written to.
Src(f, T, o) ==
    \/ IsImm(o) /\ o.k \in Word
    \/ (IsReg(o) \/ IsMem(o)) /\ o.at \in Places(f) /\ o.at \in Temps /\ o.at \in T
    \/ (IsReg(o) \/ IsMem(o)) /\ o.at \in Places(f) /\ o.at \notin Temps /\ Content(o.at) \subseteq Word

Dst(f, o) ==
    /\ IsReg(o) \/ IsMem(o)
    /\ o.at \in Places(f)
    /\ o.at \in Temps \cup {Zero} \/ Content(o.at) = Word

Learned(T, o) == IF o.at \in Temps THEN T \cup {o.at} ELSE T

LEMMA TagFacts ==
    ASSUME NEW o
    PROVE  /\ IsReg(o) => ~IsMem(o) /\ ~IsImm(o)
           /\ IsMem(o) => ~IsImm(o)
           /\ IsReg(o) \/ IsMem(o) => \A v : At(v, o) = o.at /\ Read(v, o) = v[o.at]
           /\ IsImm(o) => \A v : Read(v, o) = o.k
BY DEF IsReg, IsMem, IsImm, At, Read

LEMMA KnowsFacts ==
    ASSUME NEW f, NEW T
    PROVE  /\ Knows(f, T) \subseteq Unknown(f)
           /\ \A S : S \subseteq T => Knows(f, T) \subseteq Knows(f, S)
           /\ Knows(f, {}) = Unknown(f)
BY DEF Knows

LEMMA SrcReads ==
    ASSUME NEW f, NEW T, NEW o, Src(f, T, o), NEW v \in Knows(f, T)
    PROVE  Read(v, o) \in Word
<1>1. CASE IsImm(o) /\ o.k \in Word
  BY <1>1, TagFacts
<1>2. CASE (IsReg(o) \/ IsMem(o)) /\ o.at \in Places(f) /\ o.at \in Temps /\ o.at \in T
  BY <1>2, TagFacts DEF Knows
<1>3. CASE (IsReg(o) \/ IsMem(o)) /\ o.at \in Places(f) /\ o.at \notin Temps /\ Content(o.at) \subseteq Word
  <2>1. v[o.at] \in Content(o.at)
    BY <1>3 DEF Knows, Unknown
  <2> QED BY <1>3, <2>1, TagFacts
<1> QED BY <1>1, <1>2, <1>3 DEF Src

LEMMA DstWrites ==
    ASSUME NEW f, NEW T, NEW o, Dst(f, o), NEW v \in Knows(f, T), NEW w \in Word
    PROVE  Write(v, o, w) \in Knows(f, Learned(T, o))
<1> DEFINE u == Write(v, o, w)
<1>1. At(v, o) = o.at /\ o.at \in Places(f) /\ v \in Unknown(f) /\ w \in Anything(f)
  BY TagFacts, PlaceFacts, KnowsFacts DEF Dst
<1>2. /\ u \in Unknown(f)
      /\ o.at # Zero => u[o.at] = w
      /\ \A q \in Places(f) : q # o.at => u[q] = v[q]
  <2>1. At(v, o) \in Temps \cup {Zero} \/ w \in Content(At(v, o))
    BY <1>1 DEF Dst
  <2> QED BY <1>1, <2>1, WriteFits
<1> HIDE DEF u
<1>3. ASSUME NEW t \in Learned(T, o) \cap Temps PROVE u[t] \in Word
  <2>1. t # Zero /\ t \in Places(f)
    BY PlaceFacts
  <2>2. CASE t = o.at
    BY <2>1, <2>2, <1>2
  <2>3. CASE t # o.at
    <3>1. t \in T
      BY <2>3 DEF Learned
    <3>2. v[t] \in Word
      BY <3>1 DEF Knows
    <3> QED BY <3>2, <2>1, <2>3, <1>2
  <2> QED BY <2>2, <2>3
<1> QED BY <1>2, <1>3 DEF Knows, u

LEMMA PlainStep ==
    ASSUME NEW f, NEW T, NEW op \in Computing \cup {"copy"}, NEW d, NEW s, NEW t,
           Dst(f, d), Src(f, T, s), Src(f, T, t),
           op \in {"sll", "sra"} => IsImm(t) /\ 2^(t.k) \in Nat \ {0}
    PROVE  Steps(f, Ins(op, d, s, t), Knows(f, T), Knows(f, Learned(T, d)))
<1> DEFINE i == Ins(op, d, s, t)
<1>1. i.op = op /\ i.d = d /\ i.s = s /\ i.t = t
  BY DEF Ins
<1>2. i.op \in PlainOps /\ i.op # "address"
  BY <1>1 DEF PlainOps, Computing
<1> HIDE DEF i
<1>3. ASSUME NEW v \in Knows(f, T) PROVE Effects(v, i) \subseteq Knows(f, Learned(T, d))
  <2>1. Read(v, s) \in Word /\ Read(v, t) \in Word
    BY SrcReads
  <2>2. op \in {"sll", "sra"} => Read(v, t) = t.k
    BY TagFacts
  <2>3. Results(op, Read(v, s), Read(v, t)) \subseteq Word
    BY <2>1, <2>2, ResultsAreWords
  <2>4. Effects(v, i) = {Write(v, d, w) : w \in Results(op, Read(v, s), Read(v, t))}
    BY <1>1, <1>2 DEF Effects
  <2> QED BY <2>3, <2>4, DstWrites
<1>4. Steps(f, i, Knows(f, T), Knows(f, Learned(T, d)))
  BY <1>2, <1>3 DEF Steps
<1> QED BY <1>4 DEF i

LEMMA FinePlain ==
    ASSUME NEW f, NEW T, NEW op \in Computing \cup {"copy"}, NEW d, NEW s, NEW t,
           Dst(f, d), Src(f, T, s), Src(f, T, t),
           op \in {"sll", "sra"} => IsImm(t) /\ 2^(t.k) \in Nat \ {0},
           InRegisters(Ins(op, d, s, t))
    PROVE  Fine(f, <<Ins(op, d, s, t)>>, {}, Knows(f, T), Knows(f, Learned(T, d)))
<1>1. Steps(f, Ins(op, d, s, t), Knows(f, T), Knows(f, Learned(T, d)))
  BY PlainStep
<1>2. ~IsBranch(Ins(op, d, s, t))
  BY DEF Ins, IsBranch, BranchOps, Computing
<1>3. Knows(f, T) \subseteq Unknown(f) /\ Knows(f, Learned(T, d)) \subseteq Unknown(f)
  BY KnowsFacts
<1> QED BY <1>1, <1>2, <1>3, FineOne

LEMMA ImmFacts ==
    ASSUME NEW f, NEW T, NEW k \in Word
    PROVE  Src(f, T, Imm(k)) /\ IsImm(Imm(k)) /\ Imm(k).k = k
BY DEF Src, Imm, IsImm

LEMMA FineCopy ==
    ASSUME NEW f, NEW T, NEW d, NEW s, Dst(f, d), Src(f, T, s)
    PROVE  Fine(f, <<Copy(d, s)>>, {}, Knows(f, T), Knows(f, Learned(T, d)))
<1>1. Src(f, T, Imm(0))
  BY ImmFacts, WordFacts
<1>2. InRegisters(Ins("copy", d, s, Imm(0)))
  BY DEF InRegisters, Computing, Ins
<1>3. Fine(f, <<Ins("copy", d, s, Imm(0))>>, {}, Knows(f, T), Knows(f, Learned(T, d)))
  <2>1. "copy" \notin {"sll", "sra"}
    OBVIOUS
  <2> QED BY <1>1, <1>2, <2>1, FinePlain
<1> QED BY <1>3 DEF Copy

LEMMA TempFacts ==
    ASSUME NEW f, NEW n \in 0..3
    PROVE  /\ IsReg(Reg(Temp(n))) /\ Reg(Temp(n)).at = Temp(n) /\ Temp(n) \in Temps
           /\ Dst(f, Reg(Temp(n)))
           /\ \A T : Temp(n) \in T => Src(f, T, Reg(Temp(n)))
           /\ \A T : Learned(T, Reg(Temp(n))) = T \cup {Temp(n)}
<1>1. IsReg(Reg(Temp(n))) /\ Reg(Temp(n)).at = Temp(n)
  BY DEF IsReg, Reg
<1>2. Temp(n) \in Temps /\ Temp(n) \in Places(f)
  BY PlaceFacts
<1> QED BY <1>1, <1>2 DEF Dst, Src, Learned

LEMMA SrcMore ==
    ASSUME NEW f, NEW T, NEW S, NEW o, Src(f, T, o), T \subseteq S
    PROVE  Src(f, S, o)
BY DEF Src

\* move: a word gets there.
LEMMA FineMove ==
    ASSUME NEW f, NEW T, NEW d, NEW s, NEW n \in 0..3, Dst(f, d), Src(f, T, s)
    PROVE  \E S : T \subseteq S /\ Learned(T, d) \subseteq S /\ Fine(f, Move(d, s, n), {}, Knows(f, T), Knows(f, S))
<1>1. CASE IsReg(d) \/ IsReg(s)
  <2>1. Fine(f, Move(d, s, n), {}, Knows(f, T), Knows(f, Learned(T, d)))
    BY <1>1, FineCopy DEF Move
  <2> QED BY <2>1 DEF Learned
<1>2. CASE ~(IsReg(d) \/ IsReg(s))
  <2> DEFINE r == Reg(Temp(n))
             S == T \cup {Temp(n)}
  <2>1. Fine(f, <<Copy(r, s)>>, {}, Knows(f, T), Knows(f, S))
    BY FineCopy, TempFacts
  <2>2. Fine(f, <<Copy(d, r)>>, {}, Knows(f, S), Knows(f, Learned(S, d)))
    BY FineCopy, TempFacts
  <2>3. Move(d, s, n) = <<Copy(r, s)>> \o <<Copy(d, r)>>
    BY <1>2 DEF Move
  <2>4. Fine(f, Move(d, s, n), {} \cup {}, Knows(f, T), Knows(f, Learned(S, d)))
    BY <2>1, <2>2, <2>3, FineConcat
  <2>5. T \subseteq Learned(S, d) /\ Learned(T, d) \subseteq Learned(S, d)
    BY DEF Learned
  <2> QED BY <2>4, <2>5
<1> QED BY <1>1, <1>2

-----------------------------------------------------------------------------
\* A register that a word has been written to holds one.
LEMMA LoadedSrc ==
    ASSUME NEW f, NEW S, NEW r, Dst(f, r), r.at \in Temps => r.at \in S
    PROVE  Src(f, S, r)
<1>1. CASE r.at \in Temps
  BY <1>1 DEF Dst, Src
<1>2. CASE r.at = Zero
  BY <1>2, PlaceFacts, WordFacts DEF Dst, Src
<1>3. CASE r.at \notin Temps /\ r.at # Zero
  BY <1>3 DEF Dst, Src
<1> QED BY <1>1, <1>2, <1>3

\* acquire_reg: operands that are registers, or immediates that fit, and hold
\* words once the loads are done.
IsAcquired(f, T, d, s, t, imm, a) ==
    /\ IsReg(a.d) /\ Dst(f, a.d) /\ (IsReg(d) => a.d = d)
    /\ IsReg(a.s) \/ (imm /\ IsAddImmed(s) /\ a.s = s)
    /\ IsReg(a.t) \/ (imm /\ IsAddImmed(t) /\ a.t = t)
    /\ imm /\ IsAddImmed(t) => a.t = t
    /\ \E S : /\ Fine(f, a.loads, {}, Knows(f, T), Knows(f, S))
              /\ Src(f, S, a.s) /\ Src(f, S, a.t)

LEMMA Acquired ==
    ASSUME NEW f, NEW T, NEW d, NEW s, NEW t, NEW imm \in BOOLEAN, NEW n \in 0..1,
           Dst(f, d), Src(f, T, s), Src(f, T, t)
    PROVE  IsAcquired(f, T, d, s, t, imm, AcquireReg(d, s, t, imm, n))
<1> DEFINE fits(o) == IsReg(o) \/ (imm /\ IsAddImmed(o))
           rd == IF IsReg(d) THEN d ELSE Reg(Temp(n))
           n1 == IF IsReg(d) THEN n ELSE n + 1
           rs == IF fits(s) THEN s ELSE LoadRegister(rd, t, n1)
           n2 == IF rs = Reg(Temp(n1)) THEN n1 + 1 ELSE n1
           rt == IF fits(t) THEN t ELSE LoadRegister(rd, rs, n2)
           load(r, o) == IF fits(o) THEN <<>> ELSE Move(r, o, n2)
           a == AcquireReg(d, s, t, imm, n)
<1>1. a = [d |-> rd, s |-> rs, t |-> rt, loads |-> load(rs, s) \o load(rt, t)]
  BY DEF AcquireReg
<1>2. IsReg(rd) /\ Dst(f, rd) /\ (IsReg(d) => rd = d)
  BY TempFacts
<1>3. n1 \in 0..2 /\ n2 \in 0..3
  OBVIOUS
<1> HIDE DEF rd, n1
<1>4. IF fits(s) THEN rs = s ELSE IsReg(rs) /\ Dst(f, rs)
  BY <1>2, <1>3, TempFacts DEF LoadRegister
<1> HIDE DEF rs, n2
<1>5. IF fits(t) THEN rt = t ELSE IsReg(rt) /\ Dst(f, rt)
  BY <1>2, <1>3, TempFacts DEF LoadRegister
<1> HIDE DEF rt
<1>6. ASSUME NEW S, NEW r, NEW o, IF fits(o) THEN r = o ELSE IsReg(r) /\ Dst(f, r), Src(f, S, o)
      PROVE  \E R : /\ S \subseteq R /\ Src(f, R, r)
                    /\ Fine(f, load(r, o), {}, Knows(f, S), Knows(f, R))
  <2>1. CASE fits(o)
    <3>1. Fine(f, <<>>, {}, Knows(f, S), Knows(f, S))
      BY FineNone, KnowsFacts
    <3> QED BY <2>1, <3>1, <1>6
  <2>2. CASE ~fits(o)
    <3>1. PICK R : /\ S \subseteq R /\ Learned(S, r) \subseteq R
                   /\ Fine(f, Move(r, o, n2), {}, Knows(f, S), Knows(f, R))
      BY <2>2, <1>3, <1>6, FineMove
    <3>2. Src(f, R, r)
      <4>1. r.at \in Temps => r.at \in R
        BY <3>1 DEF Learned
      <4> QED BY <4>1, <2>2, <1>6, LoadedSrc
    <3> QED BY <2>2, <3>1, <3>2
  <2> QED BY <2>1, <2>2
<1> HIDE DEF load
<1>7. PICK R : /\ T \subseteq R /\ Src(f, R, rs)
               /\ Fine(f, load(rs, s), {}, Knows(f, T), Knows(f, R))
  BY <1>4, <1>6
<1>8. Src(f, R, t)
  BY <1>7, SrcMore
<1>9. PICK S : /\ R \subseteq S /\ Src(f, S, rt)
               /\ Fine(f, load(rt, t), {}, Knows(f, R), Knows(f, S))
  BY <1>5, <1>6, <1>8
<1>10. Fine(f, load(rs, s) \o load(rt, t), {} \cup {}, Knows(f, T), Knows(f, S))
  BY <1>7, <1>9, FineConcat
<1>11. Src(f, S, rs)
  BY <1>7, <1>9, SrcMore
<1>12. a.d = rd /\ a.s = rs /\ a.t = rt /\ a.loads = load(rs, s) \o load(rt, t)
  BY <1>1
<1> HIDE DEF a
<1>13. \E Q : /\ Fine(f, a.loads, {}, Knows(f, T), Knows(f, Q))
              /\ Src(f, Q, a.s) /\ Src(f, Q, a.t)
  BY <1>9, <1>10, <1>11, <1>12
<1>14. IsAcquired(f, T, d, s, t, imm, a)
  BY <1>2, <1>4, <1>5, <1>12, <1>13 DEF IsAcquired
<1> QED BY <1>14 DEF a

\* release_reg: the result gets to where it goes.
LEMMA FineResult ==
    ASSUME NEW f, NEW S, NEW d, NEW r, NEW n \in 0..3, Dst(f, d), IsReg(r), Src(f, S, r)
    PROVE  Fine(f, IF r = d THEN <<>> ELSE Move(d, r, n), {}, Knows(f, S), Unknown(f))
<1>1. CASE r = d
  BY <1>1, FineNone, KnowsFacts
<1>2. CASE r # d
  <2>1. Fine(f, <<Copy(d, r)>>, {}, Knows(f, S), Knows(f, Learned(S, d)))
    BY FineCopy
  <2>2. Fine(f, <<Copy(d, r)>>, {}, Knows(f, S), Unknown(f))
    BY <2>1, FineWeaker, KnowsFacts
  <2> QED BY <2>2, <1>2 DEF Move
<1> QED BY <1>1, <1>2

LEMMA ImmedFacts ==
    ASSUME NEW o
    PROVE  /\ IsAddImmed(o) => IsImm(o) /\ o.k \in (-ImmHalf)..(ImmHalf - 1)
           /\ IsPowerOf2(o) => IsAddImmed(o) /\ o.k > 0
           /\ IsSubImmed(o) => IsImm(o) /\ -o.k \in (-ImmHalf)..(ImmHalf - 1)
BY DEF IsAddImmed, IsPowerOf2, IsSubImmed

LEMMA ComputedInRegisters ==
    ASSUME NEW op, NEW d, NEW s, NEW t, IsReg(d), IsReg(s),
           IsReg(t) \/ (op \in {"add", "sll", "sra"} /\ IsAddImmed(t))
    PROVE  InRegisters(Ins(op, d, s, t))
BY ImmedFacts DEF InRegisters, Ins

LEMMA FineThreeOperand ==
    ASSUME NEW f, NEW T, NEW op \in Computing, NEW d, NEW s, NEW t, NEW imm \in BOOLEAN, NEW n \in 0..1,
           Dst(f, d), Src(f, T, s), Src(f, T, t),
           imm => op \in {"sll", "sra"} /\ ~IsImm(s),
           op \in {"sll", "sra"} => imm /\ IsAddImmed(t) /\ 2^(t.k) \in Nat \ {0}
    PROVE  Fine(f, ThreeOperand(op, d, s, t, imm, n), {}, Knows(f, T), Unknown(f))
<1> DEFINE a == AcquireReg(d, s, t, imm, n)
<1>0. IsAcquired(f, T, d, s, t, imm, a)
  BY Acquired
<1>1. /\ IsReg(a.d) /\ Dst(f, a.d)
      /\ IsReg(a.s) \/ (imm /\ IsAddImmed(s) /\ a.s = s)
      /\ IsReg(a.t) \/ (imm /\ IsAddImmed(t) /\ a.t = t)
      /\ imm /\ IsAddImmed(t) => a.t = t
      /\ \E S : /\ Fine(f, a.loads, {}, Knows(f, T), Knows(f, S))
                /\ Src(f, S, a.s) /\ Src(f, S, a.t)
  BY <1>0 DEF IsAcquired
<1>2. ThreeOperand(op, d, s, t, imm, n) =
        Asserted(~IsImm(s)) \o a.loads \o <<Ins(op, a.d, a.s, a.t)>>
            \o (IF a.d = d THEN <<>> ELSE Move(d, a.d, n))
  BY DEF ThreeOperand
<1> HIDE DEF a
<1>3. IsReg(a.s)
  BY <1>1, ImmedFacts
<1>4. PICK S : /\ Fine(f, a.loads, {}, Knows(f, T), Knows(f, S))
               /\ Src(f, S, a.s) /\ Src(f, S, a.t)
  BY <1>1
<1>5. Fine(f, Asserted(~IsImm(s)), {}, Knows(f, T), Knows(f, T))
  <2>1. (~IsImm(s)) \in BOOLEAN
    OBVIOUS
  <2> QED BY <2>1, FineAsserted, KnowsFacts
<1>6. Fine(f, <<Ins(op, a.d, a.s, a.t)>>, {}, Knows(f, S), Knows(f, Learned(S, a.d)))
  <2>1. InRegisters(Ins(op, a.d, a.s, a.t))
    BY <1>1, <1>3, ComputedInRegisters
  <2>2. op \in {"sll", "sra"} => IsImm(a.t) /\ 2^(a.t.k) \in Nat \ {0}
    BY <1>1, ImmedFacts
  <2> QED BY <2>1, <2>2, <1>1, <1>4, FinePlain
<1>7. Fine(f, IF a.d = d THEN <<>> ELSE Move(d, a.d, n), {}, Knows(f, Learned(S, a.d)), Unknown(f))
  <2>1. Src(f, Learned(S, a.d), a.d)
    BY <1>1, LoadedSrc DEF Learned
  <2> QED BY <2>1, <1>1, FineResult
<1>8. Fine(f, Asserted(~IsImm(s)) \o a.loads, {} \cup {}, Knows(f, T), Knows(f, S))
  BY <1>4, <1>5, FineConcat
<1>9. Fine(f, Asserted(~IsImm(s)) \o a.loads \o <<Ins(op, a.d, a.s, a.t)>>, {} \cup {} \cup {},
           Knows(f, T), Knows(f, Learned(S, a.d)))
  BY <1>6, <1>8, FineConcat
<1>10. Fine(f, ThreeOperand(op, d, s, t, imm, n), {} \cup {} \cup {} \cup {}, Knows(f, T), Unknown(f))
  BY <1>2, <1>7, <1>9, FineConcat
<1> QED BY <1>10

LEMMA ZeroFacts ==
    ASSUME NEW f, NEW T
    PROVE  /\ IsReg(Reg(Zero)) /\ Dst(f, Reg(Zero)) /\ Src(f, T, Reg(Zero))
           /\ Learned(T, Reg(Zero)) = T
<1>1. IsReg(Reg(Zero)) /\ Reg(Zero).at = Zero
  BY DEF IsReg, Reg
<1> QED BY <1>1, PlaceFacts, WordFacts DEF Dst, Src, Learned

LEMMA FineDoAdd ==
    ASSUME NEW f, NEW T, NEW d, NEW s, NEW t, NEW negate \in BOOLEAN, NEW n \in 0..1,
           Dst(f, d), Src(f, T, s), Src(f, T, t), ~(IsImm(s) /\ IsImm(t))
    PROVE  Fine(f, DoAdd(d, s, t, negate, n), {}, Knows(f, T), Unknown(f))
<1> DEFINE x == IF IsAddImmed(s) THEN t ELSE s
           y == IF IsAddImmed(s) THEN s ELSE t
           a == AcquireReg(d, x, y, TRUE, n)
           neg == IF negate THEN <<Ins("sub", a.d, Reg(Zero), a.d)>> ELSE <<>>
<1>1. Src(f, T, x) /\ Src(f, T, y) /\ ~IsAddImmed(x)
  BY ImmedFacts
<1>2. DoAdd(d, s, t, negate, n) =
        Asserted(~IsImm(x)) \o a.loads \o <<Ins("add", a.d, a.s, a.t)>> \o neg
            \o (IF a.d = d THEN <<>> ELSE Move(d, a.d, n))
  BY DEF DoAdd
<1> HIDE DEF x, y
<1>0. IsAcquired(f, T, d, x, y, TRUE, a)
  BY <1>1, Acquired
<1>3. /\ IsReg(a.d) /\ Dst(f, a.d)
      /\ IsReg(a.s) \/ (TRUE /\ IsAddImmed(x) /\ a.s = x)
      /\ IsReg(a.t) \/ (TRUE /\ IsAddImmed(y) /\ a.t = y)
      /\ \E S : /\ Fine(f, a.loads, {}, Knows(f, T), Knows(f, S))
                /\ Src(f, S, a.s) /\ Src(f, S, a.t)
  BY <1>0 DEF IsAcquired
<1> HIDE DEF a
<1>4. PICK S : /\ Fine(f, a.loads, {}, Knows(f, T), Knows(f, S))
               /\ Src(f, S, a.s) /\ Src(f, S, a.t)
  BY <1>3
<1> DEFINE R == Learned(S, a.d)
<1>5. Fine(f, Asserted(~IsImm(x)), {}, Knows(f, T), Knows(f, T))
  <2>1. (~IsImm(x)) \in BOOLEAN
    OBVIOUS
  <2> QED BY <2>1, FineAsserted, KnowsFacts
<1>6. Fine(f, <<Ins("add", a.d, a.s, a.t)>>, {}, Knows(f, S), Knows(f, R))
  <2>1. IsReg(a.s) /\ (IsReg(a.t) \/ IsAddImmed(a.t))
    BY <1>1, <1>3
  <2>2. InRegisters(Ins("add", a.d, a.s, a.t))
    BY <2>1, <1>3, ComputedInRegisters
  <2>3. "add" \in Computing \cup {"copy"} /\ "add" \notin {"sll", "sra"}
    BY DEF Computing
  <2> QED BY <2>2, <2>3, <1>3, <1>4, FinePlain
<1>7. Src(f, R, a.d) /\ Learned(R, a.d) = R
  BY <1>3, LoadedSrc DEF Learned
<1> HIDE DEF R
<1>8. Fine(f, neg, {}, Knows(f, R), Knows(f, R))
  <2>1. CASE negate
    <3>1. InRegisters(Ins("sub", a.d, Reg(Zero), a.d))
      BY <1>3, ZeroFacts, ComputedInRegisters
    <3>2. "sub" \in Computing \cup {"copy"} /\ "sub" \notin {"sll", "sra"}
      BY DEF Computing
    <3>3. Src(f, R, Reg(Zero))
      BY ZeroFacts
    <3>4. Fine(f, <<Ins("sub", a.d, Reg(Zero), a.d)>>, {}, Knows(f, R), Knows(f, Learned(R, a.d)))
      BY <3>1, <3>2, <3>3, <1>3, <1>7, FinePlain
    <3> QED BY <2>1, <3>4, <1>7
  <2>2. CASE ~negate
    BY <2>2, FineNone, KnowsFacts
  <2> QED BY <2>1, <2>2
<1> HIDE DEF neg
<1>9. Fine(f, IF a.d = d THEN <<>> ELSE Move(d, a.d, n), {}, Knows(f, R), Unknown(f))
  BY <1>7, <1>3, FineResult
<1>10. Fine(f, Asserted(~IsImm(x)) \o a.loads, {} \cup {}, Knows(f, T), Knows(f, S))
  BY <1>4, <1>5, FineConcat
<1>11. Fine(f, Asserted(~IsImm(x)) \o a.loads \o <<Ins("add", a.d, a.s, a.t)>>, {} \cup {} \cup {},
            Knows(f, T), Knows(f, R))
  BY <1>6, <1>10, FineConcat
<1>12. Fine(f, Asserted(~IsImm(x)) \o a.loads \o <<Ins("add", a.d, a.s, a.t)>> \o neg,
            {} \cup {} \cup {} \cup {}, Knows(f, T), Knows(f, R))
  BY <1>8, <1>11, FineConcat
<1>13. Fine(f, DoAdd(d, s, t, negate, n), {} \cup {} \cup {} \cup {} \cup {}, Knows(f, T), Unknown(f))
  BY <1>2, <1>9, <1>12, FineConcat
<1> QED BY <1>13

LEMMA Log2Facts ==
    ASSUME NEW f, NEW T, NEW o, IsPowerOf2(o)
    PROVE  /\ Src(f, T, Log2(o)) /\ IsAddImmed(Log2(o))
           /\ 2^(Log2(o).k) \in Nat \ {0}
<1> DEFINE e == CHOOSE e \in Exponents(o.k) : TRUE
<1>1. e \in Exponents(o.k) /\ o.k \in Int /\ o.k > 0
  <2>1. Exponents(o.k) # {} /\ o.k > 0 /\ o.k \in (-ImmHalf)..(ImmHalf - 1)
    BY ImmedFacts DEF IsPowerOf2
  <2> QED BY <2>1, HalfAssumption
<1> HIDE DEF e
<1>2. e \in 0..(ImmHalf - 1) /\ 2^e = o.k
  BY <1>1 DEF Exponents
<1>3. e \in (-ImmHalf)..(ImmHalf - 1) /\ e \in Word
  BY <1>2, HalfAssumption, WordFacts
<1>4. Log2(o) = Imm(e)
  BY DEF Log2, e
<1>5. Src(f, T, Imm(e)) /\ IsImm(Imm(e)) /\ Imm(e).k = e
  BY <1>3, ImmFacts
<1>6. IsAddImmed(Imm(e))
  BY <1>3, <1>5 DEF IsAddImmed
<1>7. 2^e \in Nat \ {0}
  BY <1>1, <1>2
<1> QED BY <1>4, <1>5, <1>6, <1>7

LEMMA ZeroRegFacts ==
    ASSUME NEW f, NEW T, NEW o, Src(f, T, o)
    PROVE  /\ Src(f, T, ZeroReg(o))
           /\ IsImm(ZeroReg(o)) => IsImm(o) /\ ZeroReg(o) = o
           /\ ~IsImm(o) => ZeroReg(o) = o
<1>1. IsReg(Reg(Zero)) /\ Src(f, T, Reg(Zero)) /\ ~IsImm(Reg(Zero))
  BY ZeroFacts, TagFacts
<1>2. IsImm(Imm(0))
  BY ImmFacts, WordFacts
<1> QED BY <1>1, <1>2 DEF ZeroReg

LEMMA NegatedFacts ==
    ASSUME NEW f, NEW T, NEW o, IsSubImmed(o)
    PROVE  IsImm(o) /\ Src(f, T, Imm(-o.k)) /\ IsAddImmed(Imm(-o.k))
<1>1. IsImm(o) /\ -o.k \in (-ImmHalf)..(ImmHalf - 1)
  BY ImmedFacts
<1>2. -o.k \in Word
  BY <1>1, WordFacts
<1>3. Src(f, T, Imm(-o.k)) /\ IsImm(Imm(-o.k)) /\ Imm(-o.k).k = -o.k
  BY <1>2, ImmFacts
<1> QED BY <1>1, <1>3 DEF IsAddImmed

LEMMA FineFolded ==
    ASSUME NEW f, NEW T, NEW op \in Operations \cup {"or"}, NEW d, NEW s, NEW t, NEW n \in 0..1,
           Dst(f, d), Src(f, T, s), Src(f, T, t), IsImm(s), IsImm(t)
    PROVE  Fine(f, Folded(op, d, s, t, n), {}, Knows(f, T), Unknown(f))
<1>1. CASE op \in {"div", "mod"} /\ t.k = 0
  <2>1. Fine(f, Asserted(FALSE), {}, Knows(f, T), Unknown(f))
    BY FineAsserted, KnowsFacts
  <2> QED BY <1>1, <2>1 DEF Folded
<1>2. CASE ~(op \in {"div", "mod"} /\ t.k = 0)
  <2> DEFINE w == CHOOSE w \in Results(op, s.k, t.k) : TRUE
  <2>1. s.k \in Word /\ t.k \in Word
    BY TagFacts DEF Src
  <2>2. op \in Computing /\ op \notin {"sll", "sra"}
    BY DEF Computing, Operations
  <2>3. Results(op, s.k, t.k) \subseteq Word /\ Results(op, s.k, t.k) # {}
    BY <2>1, <2>2, ResultsAreWords
  <2>4. w \in Word
    BY <2>3
  <2>5. Folded(op, d, s, t, n) = Move(d, Imm(w), n)
    BY <1>2 DEF Folded
  <2> HIDE DEF w
  <2>6. PICK S : Fine(f, Move(d, Imm(w), n), {}, Knows(f, T), Knows(f, S))
    <3>1. Src(f, T, Imm(w)) /\ n \in 0..3
      BY <2>4, ImmFacts
    <3>2. \E S : T \subseteq S /\ Learned(T, d) \subseteq S /\ Fine(f, Move(d, Imm(w), n), {}, Knows(f, T), Knows(f, S))
      BY <3>1, FineMove
    <3> QED BY <3>2
  <2>7. Fine(f, Move(d, Imm(w), n), {}, Knows(f, T), Unknown(f))
    BY <2>6, FineWeaker, KnowsFacts
  <2> QED BY <2>5, <2>7
<1> QED BY <1>1, <1>2

LEMMA FineSub ==
    ASSUME NEW f, NEW T, NEW d, NEW s, NEW t, NEW n \in 0..1,
           Dst(f, d), Src(f, T, s), Src(f, T, t), ~(IsImm(s) /\ IsImm(t))
    PROVE  Fine(f, SubCode(d, s, t, n), {}, Knows(f, T), Unknown(f))
<1>1. CASE IsSubImmed(s)
  <2>1. Fine(f, DoAdd(d, t, Imm(-s.k), TRUE, n), {}, Knows(f, T), Unknown(f))
    BY <1>1, NegatedFacts, FineDoAdd
  <2> QED BY <1>1, <2>1 DEF SubCode
<1>2. CASE ~IsSubImmed(s) /\ IsSubImmed(t)
  <2>1. Fine(f, DoAdd(d, s, Imm(-t.k), FALSE, n), {}, Knows(f, T), Unknown(f))
    BY <1>2, NegatedFacts, FineDoAdd
  <2> QED BY <1>2, <2>1 DEF SubCode
<1>3. CASE ~IsSubImmed(s) /\ ~IsSubImmed(t)
  <2>1. "sub" \in Computing /\ "sub" \notin {"sll", "sra"}
    BY DEF Computing
  <2>2. Fine(f, ThreeOperand("sub", d, s, t, FALSE, n), {}, Knows(f, T), Unknown(f))
    BY <2>1, FineThreeOperand
  <2> QED BY <1>3, <2>2 DEF SubCode
<1> QED BY <1>1, <1>2, <1>3

LEMMA FineShift ==
    ASSUME NEW f, NEW T, NEW op \in {"sll", "sra"}, NEW d, NEW s, NEW t, NEW n \in 0..1,
           Dst(f, d), Src(f, T, s), IsPowerOf2(t), ~IsImm(s)
    PROVE  Fine(f, ThreeOperand(op, d, s, Log2(t), TRUE, n), {}, Knows(f, T), Unknown(f))
<1>1. op \in Computing
  BY DEF Computing
<1> QED BY <1>1, Log2Facts, FineThreeOperand

LEMMA FineMul ==
    ASSUME NEW f, NEW T, NEW d, NEW s, NEW t, NEW n \in 0..1,
           Dst(f, d), Src(f, T, s), Src(f, T, t), ~(IsImm(s) /\ IsImm(t))
    PROVE  Fine(f, MulCode(d, s, t, n), {}, Knows(f, T), Unknown(f))
<1> DEFINE x == IF IsPowerOf2(s) THEN t ELSE s
           y == IF IsPowerOf2(s) THEN s ELSE t
<1>1. MulCode(d, s, t, n) = IF IsPowerOf2(y) THEN ThreeOperand("sll", d, x, Log2(y), TRUE, n)
                            ELSE ThreeOperand("mul", d, x, y, FALSE, n)
  BY DEF MulCode
<1>2. Src(f, T, x) /\ Src(f, T, y) /\ ~(IsImm(x) /\ IsImm(y))
  OBVIOUS
<1> HIDE DEF x, y
<1>3. CASE IsPowerOf2(y)
  <2>1. ~IsImm(x)
    BY <1>2, <1>3, ImmedFacts
  <2>2. Fine(f, ThreeOperand("sll", d, x, Log2(y), TRUE, n), {}, Knows(f, T), Unknown(f))
    BY <2>1, <1>2, <1>3, FineShift
  <2> QED BY <2>2, <1>1, <1>3
<1>4. CASE ~IsPowerOf2(y)
  <2>1. "mul" \in Computing /\ "mul" \notin {"sll", "sra"}
    BY DEF Computing
  <2>2. Fine(f, ThreeOperand("mul", d, x, y, FALSE, n), {}, Knows(f, T), Unknown(f))
    BY <2>1, <1>2, FineThreeOperand
  <2> QED BY <2>2, <1>1, <1>4
<1> QED BY <1>3, <1>4

LEMMA FineDiv ==
    ASSUME NEW f, NEW T, NEW d, NEW s, NEW t, NEW n \in 0..1,
           Dst(f, d), Src(f, T, s), Src(f, T, t), ~(IsImm(s) /\ IsImm(t))
    PROVE  Fine(f, DivCode(d, s, t, n), {}, Knows(f, T), Unknown(f))
<1>1. CASE IsPowerOf2(t)
  <2>1. ~IsImm(s)
    BY <1>1, ImmedFacts
  <2>2. Fine(f, ThreeOperand("sra", d, s, Log2(t), TRUE, n), {}, Knows(f, T), Unknown(f))
    BY <2>1, <1>1, FineShift
  <2> QED BY <2>2, <1>1 DEF DivCode
<1>2. CASE ~IsPowerOf2(t)
  <2>1. "div" \in Computing /\ "div" \notin {"sll", "sra"}
    BY DEF Computing
  <2>2. Fine(f, ThreeOperand("div", d, s, t, FALSE, n), {}, Knows(f, T), Unknown(f))
    BY <2>1, FineThreeOperand
  <2> QED BY <2>2, <1>2 DEF DivCode
<1> QED BY <1>1, <1>2

\* mips_add to mips_or, of any operands to any destination.
LEMMA FineArithmetic ==
    ASSUME NEW f, NEW T, NEW op \in Operations \cup {"or"}, NEW d, NEW s, NEW t, NEW n \in 0..1,
           Dst(f, d), Src(f, T, s), Src(f, T, t)
    PROVE  Fine(f, Arithmetic(op, d, s, t, n), {}, Knows(f, T), Unknown(f))
<1> DEFINE x == ZeroReg(s)
           y == ZeroReg(t)
           c == Arithmetic(op, d, s, t, n)
<1>1. CASE IsImm(s) /\ IsImm(t)
  BY <1>1, FineFolded DEF Arithmetic
<1>2. CASE ~(IsImm(s) /\ IsImm(t))
  <2>1. Src(f, T, x) /\ Src(f, T, y) /\ ~(IsImm(x) /\ IsImm(y))
    BY <1>2, ZeroRegFacts
  <2>2. /\ op = "add" => c = DoAdd(d, x, y, FALSE, n)
        /\ op = "sub" => c = SubCode(d, x, y, n)
        /\ op = "mul" => c = MulCode(d, x, y, n)
        /\ op = "div" => c = DivCode(d, x, y, n)
        /\ op \in {"mod", "or"} => c = ThreeOperand(op, d, x, y, FALSE, n)
    BY <1>2 DEF Arithmetic
  <2> HIDE DEF x, y, c
  <2>3. CASE op = "add"
    BY <2>1, <2>2, <2>3, FineDoAdd DEF c
  <2>4. CASE op = "sub"
    BY <2>1, <2>2, <2>4, FineSub DEF c
  <2>5. CASE op = "mul"
    BY <2>1, <2>2, <2>5, FineMul DEF c
  <2>6. CASE op = "div"
    BY <2>1, <2>2, <2>6, FineDiv DEF c
  <2>7. CASE op \in {"mod", "or"}
    <3>1. op \in Computing /\ op \notin {"sll", "sra"}
      BY <2>7 DEF Computing
    <3>2. Fine(f, ThreeOperand(op, d, x, y, FALSE, n), {}, Knows(f, T), Unknown(f))
      BY <3>1, <2>1, FineThreeOperand
    <3> QED BY <3>2, <2>2, <2>7 DEF c
  <2> QED BY <2>3, <2>4, <2>5, <2>6, <2>7 DEF Operations
<1> QED BY <1>1, <1>2

-----------------------------------------------------------------------------
\* An instruction before others.
LEMMA FineBefore ==
    ASSUME NEW f, NEW i, NEW c, NEW L, NEW P, NEW Q, NEW R, Fine(f, <<i>>, {}, P, Q), Fine(f, c, L, Q, R)
    PROVE  Fine(f, <<i>> \o c, L, P, R)
<1>1. Fine(f, <<i>> \o c, {} \cup L, P, R)
  BY FineConcat
<1> QED BY <1>1

LEMMA FineNop ==
    ASSUME NEW f, NEW T
    PROVE  Steps(f, Nop, Knows(f, T), Knows(f, T)) /\ Nop.op \in PlainOps /\ InRegisters(Nop)
<1>1. Src(f, T, Imm(0)) /\ Src(f, T, Reg(Zero)) /\ Dst(f, Reg(Zero)) /\ Learned(T, Reg(Zero)) = T
  BY ImmFacts, WordFacts, ZeroFacts
<1>2. "copy" \in Computing \cup {"copy"} /\ "copy" \notin {"sll", "sra"}
  OBVIOUS
<1>3. Steps(f, Ins("copy", Reg(Zero), Reg(Zero), Imm(0)), Knows(f, T), Knows(f, T))
  BY <1>1, <1>2, PlainStep
<1>4. Nop = Ins("copy", Reg(Zero), Reg(Zero), Imm(0))
  BY DEF Nop, Copy
<1>5. Nop.op = "copy"
  BY <1>4 DEF Ins
<1> QED BY <1>3, <1>4, <1>5 DEF PlainOps, InRegisters, Computing

LEMMA FineBranchNop ==
    ASSUME NEW f, NEW T, NEW op \in BranchOps, NEW s, NEW t, NEW l
    PROVE  /\ Fine(f, <<Branch(op, s, t, l), Nop>>, {l}, Knows(f, T), Knows(f, T))
           /\ Fine(f, <<Branch(op, s, t, l), Nop>>, {l}, Knows(f, T), Unknown(f))
<1>1. Fine(f, <<Branch(op, s, t, l), Nop>>, {l}, Knows(f, T), Knows(f, T))
  BY FineNop, KnowsFacts, FineBranch
<1> QED BY <1>1, KnowsFacts, FineWeaker

LEMMA FineJump ==
    ASSUME NEW f, NEW l
    PROVE  Fine(f, Jump(l), {l}, Unknown(f), Unknown(f))
<1>1. "beq" \in BranchOps
  BY DEF BranchOps
<1>2. Fine(f, <<Branch("beq", Reg(Zero), Reg(Zero), l), Nop>>, {l}, Knows(f, {}), Unknown(f))
  BY <1>1, FineBranchNop
<1> QED BY <1>2, KnowsFacts DEF Jump

LEMMA InvertibleFacts ==
    ASSUME NEW f, NEW T, NEW o, IsInvertible(o)
    PROVE  /\ IsImm(o) /\ IsAddImmed(o) /\ IsAddImmed(Imm(-o.k))
           /\ Src(f, T, o) /\ Src(f, T, Imm(-o.k))
<1>1. IsAddImmed(o) /\ IsSubImmed(o)
  BY DEF IsInvertible
<1>2. o.k \in Word
  BY <1>1, ImmedFacts, WordFacts
<1> QED BY <1>1, <1>2, ImmedFacts, NegatedFacts DEF Src

\* do_equv: no pattern computes with what is not in a register.
LEMMA FineEquv ==
    ASSUME NEW f, NEW T, NEW op \in {"beq", "bne"}, NEW s, NEW t, NEW l, NEW n \in 0..1,
           Src(f, T, s), Src(f, T, t), IsReg(s) => Dst(f, s)
    PROVE  Fine(f, EquvPattern(op, s, t, l, n), {l}, Knows(f, T), Unknown(f))
<1> DEFINE t1 == Reg(Temp(n))
           t2 == Reg(Temp(n + 1))
           c == EquvPattern(op, s, t, l, n)
           T1 == T \cup {Temp(n)}
           T2 == T1 \cup {Temp(n + 1)}
<1>1. op \in BranchOps
  BY DEF BranchOps
<1>2. /\ IsReg(t1) /\ Dst(f, t1) /\ Src(f, T1, t1) /\ Src(f, T2, t1)
      /\ \A S : Learned(S, t1) = S \cup {Temp(n)}
  BY TempFacts
<1>3. /\ IsReg(t2) /\ Dst(f, t2) /\ Src(f, T2, t2)
      /\ \A S : Learned(S, t2) = S \cup {Temp(n + 1)}
  BY TempFacts
<1>4. Fine(f, <<Copy(t1, s)>>, {}, Knows(f, T), Knows(f, T1)) /\ Fine(f, <<Copy(t1, t)>>, {}, Knows(f, T), Knows(f, T1))
  BY <1>2, FineCopy
<1>5. Src(f, T1, s) /\ Src(f, T1, t)
  BY SrcMore
<1>6. /\ IsReg(s) /\ IsReg(t) => c = <<Branch(op, s, t, l), Nop>>
      /\ IsReg(s) /\ IsMem(t) => c = <<Copy(t1, t), Branch(op, s, t1, l), Nop>>
      /\ IsReg(s) /\ IsInvertible(t) =>
            c = <<Ins("add", s, s, Imm(-t.k)), Branch(op, s, Reg(Zero), l), Ins("add", s, s, t)>>
      /\ IsMem(s) /\ IsMem(t) =>
            c = <<Copy(t1, s), Copy(t2, t), Ins("sub", t1, t1, t2), Branch(op, t1, Reg(Zero), l), Nop>>
      /\ IsMem(s) /\ IsInvertible(t) =>
            c = <<Copy(t1, s), Ins("add", t1, t1, Imm(-t.k)), Branch(op, t1, Reg(Zero), l), Nop>>
      /\ \/ IsReg(s) /\ (IsReg(t) \/ IsMem(t) \/ IsInvertible(t))
         \/ IsMem(s) /\ (IsMem(t) \/ IsInvertible(t))
         \/ c = Asserted(FALSE)
  BY TagFacts, InvertibleFacts DEF EquvPattern
<1> HIDE DEF c, t1, t2, T1, T2
<1>7. CASE IsReg(s) /\ IsReg(t)
  BY <1>1, <1>6, <1>7, FineBranchNop DEF c
<1>8. CASE IsReg(s) /\ IsMem(t)
  <2>1. Fine(f, <<Branch(op, s, t1, l), Nop>>, {l}, Knows(f, T1), Unknown(f))
    BY <1>1, FineBranchNop
  <2>2. Fine(f, <<Copy(t1, t)>> \o <<Branch(op, s, t1, l), Nop>>, {l}, Knows(f, T), Unknown(f))
    BY <2>1, <1>4, FineBefore
  <2>3. c = <<Copy(t1, t)>> \o <<Branch(op, s, t1, l), Nop>>
    BY <1>6, <1>8
  <2> QED BY <2>2, <2>3 DEF c
<1>9. CASE IsReg(s) /\ IsInvertible(t)
  <2> DEFINE i == Ins("add", s, s, Imm(-t.k))
             j == Ins("add", s, s, t)
             R == Learned(T, s)
  <2>1. "add" \in Computing \cup {"copy"} /\ "add" \notin {"sll", "sra"}
    BY DEF Computing
  <2>2. /\ Dst(f, s) /\ Src(f, T, Imm(-t.k)) /\ Src(f, R, t) /\ Src(f, R, s)
        /\ IsAddImmed(t) /\ IsAddImmed(Imm(-t.k))
    BY <1>9, InvertibleFacts, SrcMore DEF Learned
  <2>3. InRegisters(i) /\ InRegisters(j)
    BY <2>2, <1>9, ComputedInRegisters
  <2>4. Fine(f, <<i>>, {}, Knows(f, T), Knows(f, R))
    BY <2>1, <2>2, <2>3, FinePlain
  <2>5. Steps(f, j, Knows(f, R), Knows(f, Learned(R, s)))
    BY <2>1, <2>2, PlainStep
  <2>6. j.op \in PlainOps
    BY DEF Ins, PlainOps, Computing
  <2> HIDE DEF i, j, R
  <2>7. Fine(f, <<Branch(op, s, Reg(Zero), l), j>>, {l}, Knows(f, R), Knows(f, Learned(R, s)))
    BY <2>3, <2>5, <2>6, <1>1, KnowsFacts, FineBranch
  <2>8. Fine(f, <<Branch(op, s, Reg(Zero), l), j>>, {l}, Knows(f, R), Unknown(f))
    BY <2>7, KnowsFacts, FineWeaker
  <2>9. Fine(f, <<i>> \o <<Branch(op, s, Reg(Zero), l), j>>, {l}, Knows(f, T), Unknown(f))
    BY <2>4, <2>8, FineBefore
  <2>10. c = <<i>> \o <<Branch(op, s, Reg(Zero), l), j>>
    BY <1>6, <1>9 DEF i, j
  <2> QED BY <2>9, <2>10 DEF c
<1>10. CASE IsMem(s) /\ IsMem(t)
  <2> DEFINE b == <<Branch(op, t1, Reg(Zero), l), Nop>>
             i == Ins("sub", t1, t1, t2)
  <2>1. "sub" \in Computing \cup {"copy"} /\ "sub" \notin {"sll", "sra"}
    BY DEF Computing
  <2>2. Fine(f, b, {l}, Knows(f, Learned(T2, t1)), Unknown(f))
    BY <1>1, FineBranchNop
  <2>3. Fine(f, <<i>>, {}, Knows(f, T2), Knows(f, Learned(T2, t1)))
    <3>1. InRegisters(i)
      BY <1>2, <1>3, ComputedInRegisters
    <3> QED BY <3>1, <2>1, <1>2, <1>3, FinePlain
  <2>4. Fine(f, <<Copy(t2, t)>>, {}, Knows(f, T1), Knows(f, T2))
    BY <1>3, <1>5, FineCopy DEF T2
  <2> HIDE DEF b, i
  <2>5. Fine(f, <<i>> \o b, {l}, Knows(f, T2), Unknown(f))
    BY <2>2, <2>3, FineBefore
  <2>6. Fine(f, <<Copy(t2, t)>> \o (<<i>> \o b), {l}, Knows(f, T1), Unknown(f))
    BY <2>4, <2>5, FineBefore
  <2>7. Fine(f, <<Copy(t1, s)>> \o (<<Copy(t2, t)>> \o (<<i>> \o b)), {l}, Knows(f, T), Unknown(f))
    BY <2>6, <1>4, FineBefore
  <2>8. c = <<Copy(t1, s)>> \o (<<Copy(t2, t)>> \o (<<i>> \o b))
    BY <1>6, <1>10 DEF i, b
  <2> QED BY <2>7, <2>8 DEF c
<1>11. CASE IsMem(s) /\ IsInvertible(t)
  <2> DEFINE b == <<Branch(op, t1, Reg(Zero), l), Nop>>
             i == Ins("add", t1, t1, Imm(-t.k))
  <2>1. "add" \in Computing \cup {"copy"} /\ "add" \notin {"sll", "sra"}
    BY DEF Computing
  <2>2. Fine(f, b, {l}, Knows(f, Learned(T1, t1)), Unknown(f))
    BY <1>1, FineBranchNop
  <2>3. Fine(f, <<i>>, {}, Knows(f, T1), Knows(f, Learned(T1, t1)))
    <3>1. Src(f, T1, Imm(-t.k)) /\ IsAddImmed(Imm(-t.k))
      BY <1>11, InvertibleFacts
    <3>2. InRegisters(i)
      BY <3>1, <1>2, ComputedInRegisters
    <3> QED BY <3>1, <3>2, <2>1, <1>2, FinePlain
  <2> HIDE DEF b, i
  <2>4. Fine(f, <<i>> \o b, {l}, Knows(f, T1), Unknown(f))
    BY <2>2, <2>3, FineBefore
  <2>5. Fine(f, <<Copy(t1, s)>> \o (<<i>> \o b), {l}, Knows(f, T), Unknown(f))
    BY <2>4, <1>4, FineBefore
  <2>6. c = <<Copy(t1, s)>> \o (<<i>> \o b)
    BY <1>6, <1>11 DEF i, b
  <2> QED BY <2>5, <2>6 DEF c
<1>12. CASE c = Asserted(FALSE)
  <2>1. FALSE \in BOOLEAN /\ Knows(f, T) \subseteq Unknown(f)
    BY KnowsFacts
  <2>2. Fine(f, Asserted(FALSE), {l}, Knows(f, T), Unknown(f))
    BY <2>1, FineAsserted
  <2> QED BY <1>12, <2>2 DEF c
<1> QED BY <1>6, <1>7, <1>8, <1>9, <1>10, <1>11, <1>12

\* A source that may be overwritten for a while if it is a register.
Arg(f, T, o) == Src(f, T, o) /\ (IsReg(o) => Dst(f, o))

LEMMA ArgFacts ==
    ASSUME NEW f, NEW T, NEW o, Arg(f, T, o)
    PROVE  /\ Arg(f, T, ZeroReg(o))
           /\ \A S : T \subseteq S => Arg(f, S, o)
<1>1. Src(f, T, o) /\ (IsReg(o) => Dst(f, o))
  BY DEF Arg
<1>2. Src(f, T, ZeroReg(o))
  BY <1>1, ZeroRegFacts
<1>3. IsReg(ZeroReg(o)) => Dst(f, ZeroReg(o))
  <2>1. ZeroReg(o) = o \/ ZeroReg(o) = Reg(Zero)
    BY DEF ZeroReg
  <2> QED BY <2>1, <1>1, ZeroFacts
<1>4. \A S : T \subseteq S => Src(f, S, o)
  BY <1>1, SrcMore
<1> QED BY <1>1, <1>2, <1>3, <1>4 DEF Arg

\* mips_beq and mips_bne
LEMMA FineEquality ==
    ASSUME NEW f, NEW T, NEW op \in {"beq", "bne"}, NEW s, NEW t, NEW l, NEW n \in 0..1,
           Arg(f, T, s), Arg(f, T, t)
    PROVE  Fine(f, Equality(op, s, t, l, n), {l}, Knows(f, T), Unknown(f))
<1> DEFINE x == ZeroReg(s)
           y == ZeroReg(t)
           a == EquvPattern(op, x, y, l, n)
           b == EquvPattern(op, y, x, l, n)
<1>1. Arg(f, T, x) /\ Arg(f, T, y)
  BY ArgFacts
<1>2. Equality(op, s, t, l, n) = Asserted(~IsImm(s)) \o (IF Refused(a) THEN b ELSE a)
  BY DEF Equality
<1> HIDE DEF x, y
<1>3. Fine(f, a, {l}, Knows(f, T), Unknown(f)) /\ Fine(f, b, {l}, Knows(f, T), Unknown(f))
  <2>1. Src(f, T, x) /\ Src(f, T, y) /\ (IsReg(x) => Dst(f, x)) /\ (IsReg(y) => Dst(f, y))
    BY <1>1 DEF Arg
  <2> QED BY <2>1, FineEquv
<1> HIDE DEF a, b
<1>4. Fine(f, Asserted(~IsImm(s)), {}, Knows(f, T), Knows(f, T))
  <2>1. (~IsImm(s)) \in BOOLEAN
    OBVIOUS
  <2> QED BY <2>1, FineAsserted, KnowsFacts
<1>5. Fine(f, Asserted(~IsImm(s)) \o (IF Refused(a) THEN b ELSE a), {} \cup {l}, Knows(f, T), Unknown(f))
  BY <1>3, <1>4, FineConcat
<1> QED BY <1>2, <1>5

-----------------------------------------------------------------------------
\* Code that is one instruction, which may fill a delay slot.
IsSimple(f, T, d, c) ==
    \E i : /\ c = <<i>> /\ i.op \in PlainOps /\ InRegisters(i)
           /\ Steps(f, i, Knows(f, T), Knows(f, Learned(T, d)))

LEMMA ConcatTwo ==
    ASSUME NEW a, NEW i, NEW j, IsSeq(a)
    PROVE  (a \o <<i>>) \o <<j>> = a \o <<i, j>>
<1>1. PICK S : a \in Seq(S)
  BY DEF IsSeq
<1>2. PICK R : a \in Seq(R) /\ <<i>> \in Seq(R) /\ <<j>> \in Seq(R)
  <2>1. a \in Seq(S \cup {i, j}) /\ <<i>> \in Seq(S \cup {i, j}) /\ <<j>> \in Seq(S \cup {i, j})
    BY <1>1
  <2> QED BY <2>1
<1>3. <<i, j>> = <<i>> \o <<j>>
  <2> DEFINE s == <<i, j>>
             t == <<i>> \o <<j>>
  <2>1. s \in Seq({i, j}) /\ Len(s) = 2 /\ s[1] = i /\ s[2] = j
    OBVIOUS
  <2>2. <<i>> \in Seq({i, j}) /\ <<j>> \in Seq({i, j})
    OBVIOUS
  <2>3. t \in Seq({i, j}) /\ Len(t) = 2 /\ t[1] = i /\ t[2] = j
    BY <2>2
  <2> HIDE DEF s, t
  <2>4. \A k \in 1..Len(s) : s[k] = t[k]
    BY <2>1, <2>3
  <2>5. s = t
    BY <2>1, <2>3, <2>4, SeqEqual
  <2> QED BY <2>5 DEF s, t
<1>4. (a \o <<i>>) \o <<j>> = a \o (<<i>> \o <<j>>)
  BY <1>2, ConcatAssociative
<1> QED BY <1>3, <1>4

LEMMA ConcatNone ==
    ASSUME NEW a, IsSeq(a)
    PROVE  a \o <<>> = a /\ <<>> \o a = a
<1>1. PICK S : a \in Seq(S)
  BY DEF IsSeq
<1> QED BY <1>1

\* Nothing is loaded for registers and immediates that fit.
LEMMA FineInPlace ==
    ASSUME NEW f, NEW T, NEW op \in {"add", "sub"}, NEW d, NEW s, NEW t, NEW n,
           IsReg(d), IsReg(s), Dst(f, d), Src(f, T, s), Src(f, T, t), IsReg(t) \/ IsInvertible(t)
    PROVE  IsSimple(f, T, d, Arithmetic(op, d, s, t, n))
<1> DEFINE y == ZeroReg(t)
           c == Arithmetic(op, d, s, t, n)
           neg == Imm(-y.k)
<1>1. /\ ZeroReg(s) = s /\ ~IsImm(s) /\ ~IsAddImmed(s) /\ ~IsSubImmed(s)
      /\ Src(f, T, y)
  BY TagFacts, ImmedFacts, ZeroRegFacts
<1>2. IsReg(y) \/ IsInvertible(y)
  BY ZeroFacts DEF ZeroReg
<1>3. c = IF op = "add" THEN DoAdd(d, s, y, FALSE, n) ELSE SubCode(d, s, y, n)
  BY <1>1 DEF Arithmetic
<1>4. ASSUME NEW z, Src(f, T, z), IsReg(z) \/ IsAddImmed(z)
      PROVE  DoAdd(d, s, z, FALSE, n) = <<Ins("add", d, s, z)>> /\ IsSimple(f, T, d, <<Ins("add", d, s, z)>>)
  <2> DEFINE a == AcquireReg(d, s, z, TRUE, n)
  <2>1. a = [d |-> d, s |-> s, t |-> z, loads |-> <<>>]
    <3>1. <<>> \o <<>> = <<>>
      BY SeqNone, ConcatNone
    <3> QED BY <3>1, <1>1, <1>4 DEF AcquireReg
  <2>2. Asserted(~IsImm(s)) = <<>>
    BY <1>1 DEF Asserted
  <2>3. DoAdd(d, s, z, FALSE, n) =
            Asserted(~IsImm(s)) \o a.loads \o <<Ins("add", a.d, a.s, a.t)>>
                \o <<>> \o (IF a.d = d THEN <<>> ELSE Move(d, a.d, n))
    BY <1>1 DEF DoAdd
  <2>4. DoAdd(d, s, z, FALSE, n) = <<Ins("add", d, s, z)>>
    <3> HIDE DEF a
    <3>1. a.d = d /\ a.s = s /\ a.t = z /\ a.loads = <<>>
      BY <2>1
    <3>2. DoAdd(d, s, z, FALSE, n) = <<>> \o <<>> \o <<Ins("add", d, s, z)>> \o <<>> \o <<>>
      BY <2>2, <2>3, <3>1
    <3> QED BY <3>2, SeqOne, SeqNone, ConcatNone
  <2>5. "add" \in Computing \cup {"copy"} /\ "add" \notin {"sll", "sra"}
    BY DEF Computing
  <2>6. Steps(f, Ins("add", d, s, z), Knows(f, T), Knows(f, Learned(T, d)))
    BY <2>5, <1>4, PlainStep
  <2>7. InRegisters(Ins("add", d, s, z))
    BY <1>4, ComputedInRegisters
  <2>8. Ins("add", d, s, z).op \in PlainOps
    BY <2>5 DEF Ins, PlainOps
  <2> QED BY <2>4, <2>6, <2>7, <2>8 DEF IsSimple
<1>5. ASSUME IsReg(y)
      PROVE  /\ ThreeOperand("sub", d, s, y, FALSE, n) = <<Ins("sub", d, s, y)>>
             /\ IsSimple(f, T, d, <<Ins("sub", d, s, y)>>)
  <2> DEFINE a == AcquireReg(d, s, y, FALSE, n)
  <2>1. a = [d |-> d, s |-> s, t |-> y, loads |-> <<>>]
    <3>1. <<>> \o <<>> = <<>>
      BY SeqNone, ConcatNone
    <3> QED BY <3>1, <1>1, <1>5 DEF AcquireReg
  <2>2. Asserted(~IsImm(s)) = <<>>
    BY <1>1 DEF Asserted
  <2>3. ThreeOperand("sub", d, s, y, FALSE, n) =
            Asserted(~IsImm(s)) \o a.loads \o <<Ins("sub", a.d, a.s, a.t)>>
                \o (IF a.d = d THEN <<>> ELSE Move(d, a.d, n))
    BY DEF ThreeOperand
  <2>4. ThreeOperand("sub", d, s, y, FALSE, n) = <<Ins("sub", d, s, y)>>
    <3> HIDE DEF a
    <3>1. a.d = d /\ a.s = s /\ a.t = y /\ a.loads = <<>>
      BY <2>1
    <3>2. ThreeOperand("sub", d, s, y, FALSE, n) = <<>> \o <<>> \o <<Ins("sub", d, s, y)>> \o <<>>
      BY <2>2, <2>3, <3>1
    <3> QED BY <3>2, SeqOne, SeqNone, ConcatNone
  <2>5. "sub" \in Computing \cup {"copy"} /\ "sub" \notin {"sll", "sra"}
    BY DEF Computing
  <2>6. Steps(f, Ins("sub", d, s, y), Knows(f, T), Knows(f, Learned(T, d)))
    BY <2>5, <1>1, PlainStep
  <2>7. InRegisters(Ins("sub", d, s, y))
    BY <1>5, ComputedInRegisters
  <2>8. Ins("sub", d, s, y).op \in PlainOps
    BY <2>5 DEF Ins, PlainOps
  <2> QED BY <2>4, <2>6, <2>7, <2>8 DEF IsSimple
<1> HIDE DEF y, c
<1>6. CASE op = "add"
  <2>1. IsReg(y) \/ IsAddImmed(y)
    BY <1>2, InvertibleFacts
  <2> QED BY <2>1, <1>1, <1>3, <1>4, <1>6 DEF c
<1>7. CASE op = "sub" /\ IsReg(y)
  <2>1. ~IsSubImmed(y)
    BY <1>7, TagFacts, ImmedFacts
  <2>2. c = ThreeOperand("sub", d, s, y, FALSE, n)
    BY <2>1, <1>1, <1>3, <1>7 DEF SubCode
  <2> QED BY <2>2, <1>5, <1>7 DEF c
<1>8. CASE op = "sub" /\ IsInvertible(y)
  <2>1. IsSubImmed(y) /\ Src(f, T, neg) /\ IsAddImmed(neg)
    BY <1>8, InvertibleFacts DEF IsInvertible
  <2>2. c = DoAdd(d, s, neg, FALSE, n)
    BY <2>1, <1>1, <1>3, <1>8 DEF SubCode
  <2> HIDE DEF neg
  <2> QED BY <2>1, <2>2, <1>4 DEF c
<1> QED BY <1>2, <1>6, <1>7, <1>8

\* mips_blt to mips_bge
LEMMA FineInequality ==
    ASSUME NEW f, NEW T, NEW op \in {"bltz", "bgtz", "blez", "bgez"}, NEW s, NEW t, NEW l, NEW n \in 0..1,
           Arg(f, T, s), Arg(f, T, t)
    PROVE  Fine(f, Inequality(op, s, t, l, n), {l}, Knows(f, T), Unknown(f))
<1> DEFINE y == ZeroReg(t)
           iss == ~IsReg(s)
           ist == ~(IsReg(y) \/ IsInvertible(y))
           n1 == IF iss THEN n + 1 ELSE n
           rs == IF iss THEN Reg(Temp(n)) ELSE s
           rt == IF ist THEN Reg(Temp(n1)) ELSE y
           d == IF ~iss /\ ist THEN rt ELSE rs
           loads == IF iss THEN Move(rs, s, n) ELSE <<>>
           loadt == IF ist THEN Move(rt, y, n) ELSE <<>>
           sub == Arithmetic("sub", d, rs, rt, n1 + 1)
           last == IF iss \/ ist THEN <<Nop>> ELSE Arithmetic("add", d, d, rt, n1)
           b == Branch(op, d, Reg(Zero), l)
<1>1. Inequality(op, s, t, l, n) = Asserted(~IsImm(s)) \o loads \o loadt \o sub \o <<b>> \o last
  BY DEF Inequality
<1>2. Arg(f, T, y) /\ Src(f, T, s) /\ (IsReg(s) => Dst(f, s))
  BY ArgFacts DEF Arg
<1> HIDE DEF y
<1>3. n1 \in 0..2 /\ n \in 0..3
  OBVIOUS
<1>4. IsReg(rs) /\ Dst(f, rs)
  BY <1>2, <1>3, TempFacts
<1>5. PICK T1 : /\ T \subseteq T1 /\ Src(f, T1, rs)
                /\ Fine(f, loads, {}, Knows(f, T), Knows(f, T1))
  <2>1. CASE iss
    <3>1. PICK R : /\ T \subseteq R /\ Learned(T, rs) \subseteq R
                   /\ Fine(f, Move(rs, s, n), {}, Knows(f, T), Knows(f, R))
      BY <1>2, <1>3, <1>4, FineMove
    <3>2. rs.at \in Temps => rs.at \in R
      BY <3>1 DEF Learned
    <3> QED BY <2>1, <3>1, <3>2, <1>4, LoadedSrc
  <2>2. CASE ~iss
    <3>1. Fine(f, <<>>, {}, Knows(f, T), Knows(f, T))
      BY FineNone, KnowsFacts
    <3> QED BY <2>2, <3>1, <1>2
  <2> QED BY <2>1, <2>2
<1> HIDE DEF rs, n1, loads
<1>6. Arg(f, T1, y)
  BY <1>2, <1>5, ArgFacts
<1>7. (IsReg(rt) /\ Dst(f, rt)) \/ (~IsReg(rt) /\ IsInvertible(rt) /\ rt = y)
  BY <1>3, <1>6, TempFacts DEF Arg
<1>8. PICK T2 : /\ T1 \subseteq T2 /\ Src(f, T2, rt)
                /\ Fine(f, loadt, {}, Knows(f, T1), Knows(f, T2))
  <2>1. CASE ist
    <3>1. IsReg(rt) /\ Dst(f, rt) /\ Src(f, T1, y)
      BY <2>1, <1>3, <1>6, TempFacts DEF Arg
    <3>2. PICK R : /\ T1 \subseteq R /\ Learned(T1, rt) \subseteq R
                   /\ Fine(f, Move(rt, y, n), {}, Knows(f, T1), Knows(f, R))
      BY <3>1, <1>3, FineMove
    <3>3. rt.at \in Temps => rt.at \in R
      BY <3>2 DEF Learned
    <3> QED BY <2>1, <3>1, <3>2, <3>3, LoadedSrc
  <2>2. CASE ~ist
    <3>1. Fine(f, <<>>, {}, Knows(f, T1), Knows(f, T1))
      BY FineNone, KnowsFacts
    <3> QED BY <2>2, <3>1, <1>6 DEF Arg
  <2> QED BY <2>1, <2>2
<1>9. Src(f, T2, rs)
  BY <1>5, <1>8, SrcMore
<1>10. IsReg(d) /\ Dst(f, d) /\ (d = rs \/ d = rt)
  BY <1>3, <1>4, <1>7, TempFacts
<1> HIDE DEF d
<1> DEFINE T3 == Learned(T2, d)
<1>11. PICK i : /\ sub = <<i>> /\ i.op \in PlainOps /\ InRegisters(i)
                /\ Steps(f, i, Knows(f, T2), Knows(f, T3))
  <2>1. IsReg(rt) \/ IsInvertible(rt)
    BY <1>7
  <2> HIDE DEF rt, T3
  <2>2. "sub" \in {"add", "sub"}
    OBVIOUS
  <2>3. IsReg(d) /\ IsReg(rs) /\ Dst(f, d) /\ Src(f, T2, rs) /\ Src(f, T2, rt)
    BY <1>4, <1>8, <1>9, <1>10
  <2>4. \A m : IsSimple(f, T2, d, Arithmetic("sub", d, rs, rt, m))
    BY ONLY <2>1, <2>2, <2>3, FineInPlace
  <2> QED BY <2>4 DEF IsSimple, T3
<1>12. Fine(f, sub, {}, Knows(f, T2), Knows(f, T3))
  <2>1. ~IsBranch(i)
    BY <1>11 DEF PlainOps, Computing, IsBranch, BranchOps
  <2> QED BY <2>1, <1>11, FineOne, KnowsFacts
<1>13. PICK j, R : /\ last = <<j>> /\ j.op \in PlainOps /\ InRegisters(j)
                   /\ Steps(f, j, Knows(f, T3), Knows(f, R))
  <2>1. CASE iss \/ ist
    BY <2>1, FineNop
  <2>2. CASE ~(iss \/ ist)
    <3>1. Src(f, T3, rt) /\ Src(f, T3, d) /\ (IsReg(rt) \/ IsInvertible(rt))
      BY <1>7, <1>8, <1>9, <1>10, SrcMore DEF Learned
    <3>2. "add" \in {"add", "sub"}
      OBVIOUS
    <3> HIDE DEF rt, T3
    <3>3. IsReg(d) /\ Dst(f, d)
      BY <1>10
    <3>4. \A m : IsSimple(f, T3, d, Arithmetic("add", d, d, rt, m))
      BY ONLY <3>1, <3>2, <3>3, FineInPlace
    <3> QED BY <3>4, <2>2 DEF IsSimple
  <2> QED BY <2>1, <2>2
<1> HIDE DEF rt, loadt, sub, last, T3, iss, ist
<1>14. Fine(f, <<b, j>>, {l}, Knows(f, T3), Unknown(f))
  <2>1. op \in BranchOps
    BY DEF BranchOps
  <2>2. Fine(f, <<b, j>>, {l}, Knows(f, T3), Knows(f, R))
    BY <2>1, <1>13, FineBranch, KnowsFacts
  <2> QED BY <2>2, KnowsFacts, FineWeaker
<1> HIDE DEF b
<1> DEFINE pre == Asserted(~IsImm(s)) \o loads \o loadt \o sub
<1>15. Fine(f, pre, {}, Knows(f, T), Knows(f, T3))
  <2>1. Fine(f, Asserted(~IsImm(s)), {}, Knows(f, T), Knows(f, T))
    <3>1. (~IsImm(s)) \in BOOLEAN
      OBVIOUS
    <3> QED BY <3>1, FineAsserted, KnowsFacts
  <2>2. Fine(f, Asserted(~IsImm(s)) \o loads, {} \cup {}, Knows(f, T), Knows(f, T1))
    BY <2>1, <1>5, FineConcat
  <2>3. Fine(f, Asserted(~IsImm(s)) \o loads \o loadt, {} \cup {} \cup {}, Knows(f, T), Knows(f, T2))
    BY <2>2, <1>8, FineConcat
  <2>4. Fine(f, pre, {} \cup {} \cup {} \cup {}, Knows(f, T), Knows(f, T3))
    BY <2>3, <1>12, FineConcat
  <2> QED BY <2>4
<1> HIDE DEF pre
<1>16. Fine(f, pre \o <<b, j>>, {} \cup {l}, Knows(f, T), Unknown(f))
  BY <1>14, <1>15, FineConcat
<1>17. Inequality(op, s, t, l, n) = (pre \o <<b>>) \o <<j>>
  BY <1>1, <1>13 DEF pre
<1>18. (pre \o <<b>>) \o <<j>> = pre \o <<b, j>>
  BY <1>15, ConcatTwo DEF Fine
<1> QED BY <1>16, <1>17, <1>18

-----------------------------------------------------------------------------
\* Places and operands that hold the type of a value.
TypePlace(f, o) ==
    /\ IsReg(o) \/ IsMem(o)
    /\ o.at \in Places(f) \ Temps
    /\ Content(o.at) = Types

TypeSrc(f, o) == (IsImm(o) /\ o.k \in Types) \/ TypePlace(f, o)

\* The operands of a value, and those of a local.
IsOperand(f, o) == (\A T : Arg(f, T, o.value)) /\ TypeSrc(f, o.type)
IsLocal(f, o) == IsOperand(f, o) /\ Dst(f, o.value) /\ TypePlace(f, o.type)

LEMMA TypeSrcFacts ==
    ASSUME NEW f, NEW o, TypeSrc(f, o)
    PROVE  /\ \A T : Src(f, T, o)
           /\ \A v \in Unknown(f) : Read(v, o) \in Types
<1>1. CASE IsImm(o) /\ o.k \in Types
  BY <1>1, TagFacts, WordFacts DEF Src
<1>2. CASE TypePlace(f, o)
  <2>1. \A v \in Unknown(f) : v[o.at] \in Types
    BY <1>2 DEF TypePlace, Unknown
  <2> QED BY <1>2, <2>1, TagFacts, WordFacts DEF Src, TypePlace
<1> QED BY <1>1, <1>2 DEF TypeSrc

LEMMA CopySteps ==
    ASSUME NEW f, NEW d, NEW s, NEW P, NEW Q, \A v \in P : Write(v, d, Read(v, s)) \in Q
    PROVE  Steps(f, Copy(d, s), P, Q)
<1> DEFINE i == Copy(d, s)
<1>1. i.op = "copy" /\ i.d = d /\ i.s = s
  BY DEF Copy, Ins
<1>2. i.op \in PlainOps
  BY <1>1 DEF PlainOps
<1> HIDE DEF i
<1>3. ASSUME NEW v \in P PROVE Effects(v, i) \subseteq Q
  <2>1. Effects(v, i) = {Write(v, d, w) : w \in Results("copy", Read(v, s), Read(v, i.t))}
    BY <1>1 DEF Effects
  <2>2. Results("copy", Read(v, s), Read(v, i.t)) = {Read(v, s)}
    BY DEF Results
  <2> QED BY <2>1, <2>2
<1>4. Steps(f, i, P, Q)
  BY <1>2, <1>3 DEF Steps
<1> QED BY <1>4 DEF i

\* A copy of anything.
LEMMA FineCopies ==
    ASSUME NEW f, NEW d, NEW s, NEW P, NEW Q, P \subseteq Unknown(f), Q \subseteq Unknown(f),
           \A v \in P : Write(v, d, Read(v, s)) \in Q
    PROVE  Fine(f, <<Copy(d, s)>>, {}, P, Q)
<1>1. Steps(f, Copy(d, s), P, Q)
  BY CopySteps
<1>2. Copy(d, s).op = "copy"
  BY DEF Copy, Ins
<1>3. ~IsBranch(Copy(d, s)) /\ InRegisters(Copy(d, s))
  BY <1>2 DEF IsBranch, BranchOps, InRegisters, Computing
<1> QED BY <1>1, <1>3, FineOne

\* A type is moved, by way of a temporary if need be.
LEMMA FineTypeMove ==
    ASSUME NEW f, NEW d, NEW s, NEW n \in 0..3, TypePlace(f, d), TypeSrc(f, s)
    PROVE  Fine(f, Move(d, s, n), {}, Unknown(f), Unknown(f))
<1>0. ASSUME NEW v \in Unknown(f), NEW w \in Types PROVE Write(v, d, w) \in Unknown(f)
  <2>1. At(v, d) = d.at /\ d.at \in Places(f) /\ w \in Content(d.at)
    BY TagFacts DEF TypePlace
  <2>2. w \in Anything(f)
    BY WordFacts, PlaceFacts
  <2> QED BY <2>1, <2>2, WriteFits
<1>1. CASE IsReg(d) \/ IsReg(s)
  <2>1. \A v \in Unknown(f) : Write(v, d, Read(v, s)) \in Unknown(f)
    BY <1>0, TypeSrcFacts
  <2>2. Fine(f, <<Copy(d, s)>>, {}, Unknown(f), Unknown(f))
    BY <2>1, FineCopies
  <2> QED BY <2>2, <1>1 DEF Move
<1>2. CASE ~(IsReg(d) \/ IsReg(s))
  <2> DEFINE r == Reg(Temp(n))
             H == Has(f, Temp(n), Types)
  <2>1. IsReg(r) /\ r.at = Temp(n) /\ Temp(n) \in Temps
    BY TempFacts
  <2> HIDE DEF r
  <2>2. H \subseteq Unknown(f)
    BY DEF Has
  <2>3. ASSUME NEW v \in Unknown(f) PROVE Write(v, r, Read(v, s)) \in H
    <3>1. Read(v, s) \in Types /\ Read(v, s) \in Anything(f)
      BY TypeSrcFacts, WordFacts, PlaceFacts
    <3>2. At(v, r) = Temp(n) /\ Temp(n) \in Places(f) /\ Temp(n) # Zero
      BY <2>1, TagFacts, PlaceFacts
    <3>3. Write(v, r, Read(v, s)) \in Unknown(f) /\ Write(v, r, Read(v, s))[Temp(n)] = Read(v, s)
      BY <2>1, <3>1, <3>2, WriteFits
    <3> QED BY <3>1, <3>3 DEF Has
  <2>4. ASSUME NEW v \in H PROVE Write(v, d, Read(v, r)) \in Unknown(f)
    <3>1. Read(v, r) \in Types /\ v \in Unknown(f)
      BY <2>1, TagFacts DEF Has
    <3> QED BY <3>1, <1>0
  <2> HIDE DEF H
  <2>5. Fine(f, <<Copy(r, s)>>, {}, Unknown(f), H)
    BY <2>2, <2>3, FineCopies
  <2>6. Fine(f, <<Copy(d, r)>>, {}, H, Unknown(f))
    BY <2>2, <2>4, FineCopies
  <2>7. Fine(f, <<Copy(r, s)>> \o <<Copy(d, r)>>, {}, Unknown(f), Unknown(f))
    BY <2>5, <2>6, FineBefore
  <2>8. Move(d, s, n) = <<Copy(r, s), Copy(d, r)>>
    BY <1>2 DEF Move, r
  <2>9. <<Copy(r, s)>> \o <<Copy(d, r)>> = <<Copy(r, s), Copy(d, r)>>
    <3> HIDE DEF r
    <3>1. IsSeq(<<>>)
      BY SeqNone
    <3>2. (<<>> \o <<Copy(r, s)>>) \o <<Copy(d, r)>> = <<>> \o <<Copy(r, s), Copy(d, r)>>
      BY <3>1, ConcatTwo
    <3>3. IsSeq(<<Copy(r, s)>>) /\ IsSeq(<<Copy(r, s), Copy(d, r)>>)
      BY SeqOne, SeqTwo
    <3> QED BY <3>2, <3>3, ConcatNone
  <2> QED BY <2>7, <2>8, <2>9
<1> QED BY <1>1, <1>2

\* A word is moved.
LEMMA FineWordMove ==
    ASSUME NEW f, NEW d, NEW s, NEW n \in 0..3, Dst(f, d), Src(f, {}, s)
    PROVE  Fine(f, Move(d, s, n), {}, Unknown(f), Unknown(f))
<1>1. PICK S : Fine(f, Move(d, s, n), {}, Knows(f, {}), Knows(f, S))
  BY FineMove
<1> QED BY <1>1, KnowsFacts, FineWeaker

-----------------------------------------------------------------------------
\* Where the words of locals are, and what they hold.
LEMMA SlotFacts ==
    ASSUME NEW f \in Nat, NEW k \in 0..(2 * Locals - 1), NEW stackonly \in BOOLEAN
    PROVE  LET o == Slot(f, k, stackonly)
           IN  /\ IsReg(o) \/ IsMem(o)
               /\ o.at \in Places(f) \ Temps
               /\ o.at = FrameWord(k) \/ o.at = Register(k)
               /\ stackonly => IsMem(o) /\ o.at = FrameWord(k)
<1>1. IsMem(Mem(FrameWord(k))) /\ Mem(FrameWord(k)).at = FrameWord(k)
  BY DEF IsMem, Mem
<1>2. IsReg(Reg(Register(k))) /\ Reg(Register(k)).at = Register(k)
  BY DEF IsReg, Reg
<1>3. FrameWord(k) \in Places(f)
  BY DEF Places
<1>4. k < f => Register(k) \in Places(f)
  BY DEF Places
<1>5. FrameWord(k) \notin Temps /\ Register(k) \notin Temps
  BY DEF FrameWord, Register, Temps, Temp
<1>6. k \in Int
  BY LocalsAssumption
<1> QED BY <1>1, <1>2, <1>3, <1>4, <1>5, <1>6 DEF Slot

LEMMA LocalFacts ==
    ASSUME NEW f \in Nat, NEW l \in Local
    PROVE  /\ IsLocal(f, LocalOperand(f, l))
           /\ LET o == StackOperand(f, l)
              IN  /\ IsMem(o.type) /\ o.type.at = FrameWord(2 * l + 1) /\ TypePlace(f, o.type)
                  /\ IsMem(o.value) /\ o.value.at = FrameWord(2 * l)
           /\ FrameWord(2 * l) \in Places(f) \ Temps /\ FrameWord(2 * l + 1) \in Places(f) \ Temps
<1>1. l \in Nat /\ 2 * l \in 0..(2 * Locals - 1) /\ 2 * l + 1 \in 0..(2 * Locals - 1)
  BY LocalsAssumption DEF Local
<1> DEFINE v == Slot(f, 2 * l, FALSE)
           t == Slot(f, 2 * l + 1, FALSE)
           sv == Slot(f, 2 * l, TRUE)
           st == Slot(f, 2 * l + 1, TRUE)
<1>2. LocalOperand(f, l).value = v /\ LocalOperand(f, l).type = t
  BY DEF LocalOperand
<1>3. StackOperand(f, l).value = sv /\ StackOperand(f, l).type = st
  BY DEF StackOperand
<1>4. /\ IsReg(v) \/ IsMem(v)
      /\ v.at \in Places(f) \ Temps
      /\ v.at = FrameWord(2 * l) \/ v.at = Register(2 * l)
  BY <1>1, SlotFacts
<1>5. /\ IsReg(t) \/ IsMem(t)
      /\ t.at \in Places(f) \ Temps
      /\ t.at = FrameWord(2 * l + 1) \/ t.at = Register(2 * l + 1)
  BY <1>1, SlotFacts
<1>6. IsMem(sv) /\ sv.at \in Places(f) \ Temps /\ sv.at = FrameWord(2 * l)
  BY <1>1, SlotFacts
<1>7. IsMem(st) /\ st.at \in Places(f) \ Temps /\ st.at = FrameWord(2 * l + 1)
  BY <1>1, SlotFacts
<1> HIDE DEF v, t, sv, st
<1>8. Content(v.at) = Word /\ Content(t.at) = Types /\ Content(st.at) = Types
  BY <1>1, <1>4, <1>5, <1>7, ContentFacts
<1>9. Dst(f, v) /\ \A T : Src(f, T, v)
  BY <1>4, <1>8 DEF Dst, Src
<1>10. TypePlace(f, t) /\ TypePlace(f, st)
  BY <1>5, <1>7, <1>8 DEF TypePlace
<1>11. IsLocal(f, LocalOperand(f, l))
  BY <1>2, <1>9, <1>10 DEF IsLocal, IsOperand, Arg, TypeSrc
<1> QED BY <1>3, <1>6, <1>7, <1>10, <1>11

LEMMA OperandFacts ==
    ASSUME NEW f \in Nat, NEW s \in Source
    PROVE  IsOperand(f, Operand(f, s))
<1>1. CASE s \in {OfLocal(l) : l \in Local}
  <2>1. PICK l \in Local : s = OfLocal(l)
    BY <1>1
  <2>2. Operand(f, s) = LocalOperand(f, l)
    BY <2>1 DEF Operand, OfLocal
  <2> QED BY <2>2, LocalFacts DEF IsLocal
<1>2. CASE s \in [islocal : {FALSE}, type : Types, word : Word]
  <2>1. Operand(f, s).value = Imm(s.word) /\ Operand(f, s).type = Imm(s.type)
    BY <1>2 DEF Operand
  <2>2. s.word \in Word /\ s.type \in Types
    BY <1>2
  <2>3. /\ \A T : Src(f, T, Imm(s.word))
        /\ IsImm(Imm(s.word)) /\ IsImm(Imm(s.type)) /\ Imm(s.type).k = s.type
    BY <2>2, ImmFacts, WordFacts
  <2>4. ~IsReg(Imm(s.word))
    BY <2>3, TagFacts
  <2> QED BY <2>1, <2>2, <2>3, <2>4 DEF IsOperand, Arg, TypeSrc
<1> QED BY <1>1, <1>2 DEF Source

-----------------------------------------------------------------------------
LEMMA ClobberFits ==
    ASSUME NEW f, NEW v \in Unknown(f)
    PROVE  Clobber(v) \in Unknown(f)
<1>1. v \in [Places(f) -> Anything(f)] /\ \A p \in Places(f) \ Temps : v[p] \in Content(p)
  BY DEF Unknown
<1>2. Junk \in Anything(f)
  BY WordFacts, PlaceFacts
<1>3. Clobber(v) = [p \in Places(f) |-> IF p \in Temps THEN Junk ELSE v[p]]
  BY <1>1 DEF Clobber
<1>4. Clobber(v) \in [Places(f) -> Anything(f)]
  BY <1>1, <1>2, <1>3
<1>5. \A p \in Places(f) \ Temps : Clobber(v)[p] = v[p]
  BY <1>3
<1> QED BY <1>1, <1>4, <1>5 DEF Unknown

LEMMA WriteType ==
    ASSUME NEW f, NEW v \in Unknown(f), NEW o, TypePlace(f, o), NEW w \in Types
    PROVE  Write(v, o, w) \in Unknown(f)
<1>1. At(v, o) = o.at /\ o.at \in Places(f) /\ w \in Content(o.at)
  BY TagFacts DEF TypePlace
<1>2. w \in Anything(f)
  BY WordFacts, PlaceFacts
<1> QED BY <1>1, <1>2, WriteFits

LEMMA WriteWord ==
    ASSUME NEW f, NEW v \in Unknown(f), NEW o, Dst(f, o), NEW w \in Word
    PROVE  Write(v, o, w) \in Unknown(f)
<1>1. Write(v, o, w) \in Knows(f, Learned({}, o))
  BY KnowsFacts, DstWrites
<1> QED BY <1>1, KnowsFacts

\* Calls of ljc_nonnumeric_bop and ljc_relational, whatever they answer.
LEMMA FineCallBop ==
    ASSUME NEW f, NEW op \in Operations, NEW d, NEW s, NEW t, NEW home,
           Dst(f, d), IsOperand(f, s), IsOperand(f, t), TypePlace(f, home)
    PROVE  Fine(f, CallBop(op, d, s, t, home), {}, Unknown(f), Unknown(f))
<1> DEFINE i == [op |-> "bop", bop |-> op, to |-> d, s |-> s, t |-> t, home |-> home]
           U == Unknown(f)
<1>1. /\ i.op = "bop" /\ i.bop = op /\ i.to = d /\ i.s = s /\ i.t = t /\ i.home = home
      /\ CallBop(op, d, s, t, home) = <<i>>
  BY DEF CallBop
<1> HIDE DEF i
<1>2. ~IsBranch(i) /\ InRegisters(i)
  BY <1>1 DEF IsBranch, BranchOps, InRegisters, Computing
<1>3. ASSUME NEW v \in U
      PROVE  /\ Read(v, i.s.value) \in Word /\ Read(v, i.t.value) \in Word
             /\ \A w \in Word : Write(Write(Clobber(v), i.home, Number), i.to, w) \in U
  <2>1. Src(f, {}, s.value) /\ Src(f, {}, t.value) /\ v \in Knows(f, {})
    BY KnowsFacts DEF IsOperand, Arg
  <2>2. Read(v, s.value) \in Word /\ Read(v, t.value) \in Word
    BY <2>1, SrcReads
  <2>3. Number \in Types
    BY DEF Types
  <2>4. Write(Clobber(v), home, Number) \in U
    BY <2>3, ClobberFits, WriteType
  <2>5. \A w \in Word : Write(Write(Clobber(v), home, Number), d, w) \in U
    BY <2>4, WriteWord
  <2> QED BY <1>1, <2>2, <2>5
<1> HIDE DEF U
<1>4. Steps(f, i, U, U)
  BY <1>1, <1>3 DEF Steps
<1>5. Fine(f, <<i>>, {}, U, U)
  BY <1>2, <1>4, FineOne DEF U
<1> QED BY <1>1, <1>5 DEF U

LEMMA FineCallRelational ==
    ASSUME NEW f, NEW rel, NEW n \in 0..3, NEW s, NEW t
    PROVE  Fine(f, CallRelational(rel, Reg(Temp(n)), s, t), {}, Unknown(f), Knows(f, {Temp(n)}))
<1> DEFINE d == Reg(Temp(n))
           i == [op |-> "relational", rel |-> rel, to |-> d, s |-> s, t |-> t]
           U == Unknown(f)
           K == Knows(f, {Temp(n)})
<1>1. i.op = "relational" /\ i.to = d /\ CallRelational(rel, d, s, t) = <<i>>
  BY DEF CallRelational
<1>2. Dst(f, d) /\ Learned({}, d) = {Temp(n)}
  BY TempFacts
<1> HIDE DEF i, d
<1>3. ~IsBranch(i) /\ InRegisters(i)
  BY <1>1 DEF IsBranch, BranchOps, InRegisters, Computing
<1>4. ASSUME NEW v \in U, NEW b \in {0, 1} PROVE Write(Clobber(v), i.to, b) \in K
  <2>1. Clobber(v) \in Knows(f, {}) /\ b \in Word
    BY ClobberFits, KnowsFacts, WordFacts
  <2>2. Write(Clobber(v), d, b) \in Knows(f, Learned({}, d))
    BY <2>1, <1>2, DstWrites
  <2> QED BY <2>2, <1>1, <1>2
<1>5. U \subseteq Unknown(f) /\ K \subseteq Unknown(f)
  BY KnowsFacts
<1> HIDE DEF U, K
<1>6. Steps(f, i, U, K)
  BY <1>1, <1>4 DEF Steps
<1>7. Fine(f, <<i>>, {}, U, K)
  BY <1>3, <1>5, <1>6, FineOne
<1> QED BY <1>1, <1>7 DEF U, K, d

-----------------------------------------------------------------------------
\* A register is compared with zero: nothing has to be known of it.
LEMMA FineZeroTest ==
    ASSUME NEW f, NEW n \in 0..3, NEW l, NEW m
    PROVE  Fine(f, Equality("beq", Reg(Temp(n)), Imm(0), l, m), {l}, Unknown(f), Unknown(f))
<1> DEFINE r == Reg(Temp(n))
           z == Reg(Zero)
           a == EquvPattern("beq", r, z, l, m)
           b == EquvPattern("beq", z, r, l, m)
<1>1. IsReg(r) /\ ~IsImm(r) /\ IsReg(z)
  BY TempFacts, TagFacts, ZeroFacts
<1>2. ZeroReg(r) = r /\ ZeroReg(Imm(0)) = z
  <2>1. IsImm(Imm(0))
    BY ImmFacts, WordFacts
  <2> QED BY <2>1, <1>1 DEF ZeroReg
<1>3. Equality("beq", r, Imm(0), l, m) = Asserted(~IsImm(r)) \o (IF Refused(a) THEN b ELSE a)
  BY <1>2 DEF Equality
<1> HIDE DEF r, z
<1>4. a = <<Branch("beq", r, z, l), Nop>> /\ b = <<Branch("beq", z, r, l), Nop>>
  <2>1. ~IsMem(r) /\ ~IsMem(z) /\ ~IsInvertible(r) /\ ~IsInvertible(z)
    BY <1>1, TagFacts, InvertibleFacts
  <2> QED BY <1>1, <2>1 DEF EquvPattern
<1> HIDE DEF a, b
<1>5. "beq" \in BranchOps
  BY DEF BranchOps
<1>6. Fine(f, a, {l}, Knows(f, {}), Unknown(f)) /\ Fine(f, b, {l}, Knows(f, {}), Unknown(f))
  BY <1>4, <1>5, FineBranchNop
<1>7. Fine(f, IF Refused(a) THEN b ELSE a, {l}, Unknown(f), Unknown(f))
  BY <1>6, KnowsFacts
<1>8. Fine(f, Asserted(~IsImm(r)), {}, Unknown(f), Unknown(f))
  <2>1. (~IsImm(r)) \in BOOLEAN
    OBVIOUS
  <2> QED BY <2>1, FineAsserted
<1>9. Fine(f, Asserted(~IsImm(r)) \o (IF Refused(a) THEN b ELSE a), {} \cup {l}, Unknown(f), Unknown(f))
  BY <1>7, <1>8, FineConcat
<1> QED BY <1>3, <1>9 DEF r

\* Operations start from nothing known.
LEMMA FineOperation ==
    ASSUME NEW f, NEW op \in Operations \cup {"or"}, NEW d, NEW s, NEW t, NEW n \in 0..1,
           Dst(f, d), Src(f, {}, s), Src(f, {}, t)
    PROVE  Fine(f, Arithmetic(op, d, s, t, n), {}, Unknown(f), Unknown(f))
<1>1. Fine(f, Arithmetic(op, d, s, t, n), {}, Knows(f, {}), Unknown(f))
  BY FineArithmetic
<1> QED BY <1>1, KnowsFacts

LEMMA FineTypeCheck ==
    ASSUME NEW f, NEW s, NEW t, IsOperand(f, s), IsOperand(f, t)
    PROVE  Fine(f, TypeCheck(s, t), {Next0}, Unknown(f), Unknown(f))
<1> DEFINE tag == Reg(Temp(0))
<1>1. Src(f, {}, s.type) /\ Src(f, {}, t.type)
  BY TypeSrcFacts DEF IsOperand
<1>2. Dst(f, tag)
  BY TempFacts
<1>3. Fine(f, Arithmetic("or", tag, s.type, t.type, 1), {}, Unknown(f), Unknown(f))
  BY <1>1, <1>2, FineOperation
<1>4. Fine(f, Equality("beq", tag, Imm(0), Next0, 1), {Next0}, Unknown(f), Unknown(f))
  BY FineZeroTest
<1> HIDE DEF tag
<1>5. Fine(f, Arithmetic("or", tag, s.type, t.type, 1) \o Equality("beq", tag, Imm(0), Next0, 1),
           {} \cup {Next0}, Unknown(f), Unknown(f))
  BY <1>3, <1>4, FineConcat
<1> QED BY <1>5 DEF TypeCheck, tag

LEMMA FineTypeFill ==
    ASSUME NEW f \in Nat, NEW l \in Local
    PROVE  Fine(f, TypeFill(f, l), {}, Unknown(f), Unknown(f))
<1> DEFINE type == LocalOperand(f, l).type
           home == StackOperand(f, l).type
<1>1. TypePlace(f, type) /\ TypePlace(f, home)
  BY LocalFacts DEF IsLocal
<1>2. TypeSrc(f, home)
  BY <1>1 DEF TypeSrc
<1>3. TypeFill(f, l) = IF IsReg(type) THEN Move(type, home, 1) ELSE <<>>
  BY DEF TypeFill
<1> HIDE DEF type, home
<1>4. Fine(f, Move(type, home, 1), {}, Unknown(f), Unknown(f))
  BY <1>1, <1>2, FineTypeMove
<1>5. Fine(f, <<>>, {}, Unknown(f), Unknown(f))
  BY FineNone
<1> QED BY <1>3, <1>4, <1>5

\* emit_bop
LEMMA FineBop ==
    ASSUME NEW f \in Nat, NEW op \in Operations, NEW l \in Local, NEW s, NEW t,
           IsOperand(f, s), IsOperand(f, t)
    PROVE  Fine(f, EmitBop(f, op, l, s, t), {}, Unknown(f), Unknown(f))
<1> DEFINE d == LocalOperand(f, l)
           U == Unknown(f)
           c1 == TypeCheck(s, t)
           c2 == CallBop(op, d.value, s, t, StackOperand(f, l).type)
           c3 == TypeFill(f, l)
           c4 == Jump(Next1)
           c5 == Arithmetic(op, d.value, s.value, t.value, 1)
           c6 == Move(d.type, Imm(Number), 1)
           k1 == c1 \o c2 \o c3 \o c4 \o <<Label(Next0)>>
           k2 == k1 \o c5 \o c6
<1>1. EmitBop(f, op, l, s, t) = k2 \o <<Label(Next1)>>
  BY DEF EmitBop
<1>2. IsLocal(f, d) /\ TypePlace(f, StackOperand(f, l).type)
  BY LocalFacts
<1>3. Fine(f, c1, {Next0}, U, U)
  BY FineTypeCheck
<1>4. Fine(f, c2, {}, U, U)
  BY <1>2, FineCallBop DEF IsLocal
<1>5. Fine(f, c3, {}, U, U)
  BY FineTypeFill
<1>6. Fine(f, c4, {Next1}, U, U)
  BY FineJump
<1>7. Fine(f, c5, {}, U, U)
  <2>1. Dst(f, d.value) /\ Src(f, {}, s.value) /\ Src(f, {}, t.value)
    BY <1>2 DEF IsLocal, IsOperand, Arg
  <2> HIDE DEF d
  <2> QED BY <2>1, FineOperation
<1>8. Fine(f, c6, {}, U, U)
  <2>1. Number \in Types /\ IsImm(Imm(Number)) /\ Imm(Number).k = Number
    BY ImmFacts, WordFacts DEF Types
  <2>2. TypePlace(f, d.type) /\ TypeSrc(f, Imm(Number))
    BY <2>1, <1>2 DEF IsLocal, TypeSrc
  <2> HIDE DEF d
  <2> QED BY <2>2, FineTypeMove
<1> HIDE DEF c1, c2, c3, c4, c5, c6
<1>9. Fine(f, k1, {Next1}, U, U)
  <2>1. Fine(f, c1 \o c2, {Next0} \cup {}, U, U)
    BY <1>3, <1>4, FineConcat
  <2>2. Fine(f, c1 \o c2 \o c3, {Next0} \cup {} \cup {}, U, U)
    BY <2>1, <1>5, FineConcat
  <2>3. Fine(f, c1 \o c2 \o c3 \o c4, {Next0} \cup {} \cup {} \cup {Next1}, U, U)
    BY <2>2, <1>6, FineConcat
  <2>4. Fine(f, k1, ({Next0} \cup {} \cup {} \cup {Next1}) \ {Next0}, U, U)
    BY <2>3, FineLabel
  <2>5. ({Next0} \cup {} \cup {} \cup {Next1}) \ {Next0} = {Next1}
    BY DEF Next0, Next1
  <2> QED BY <2>4, <2>5
<1> HIDE DEF k1
<1>10. Fine(f, k2, {Next1}, U, U)
  <2>1. Fine(f, k1 \o c5, {Next1} \cup {}, U, U)
    BY <1>9, <1>7, FineConcat
  <2>2. Fine(f, k2, {Next1} \cup {} \cup {}, U, U)
    BY <2>1, <1>8, FineConcat
  <2> QED BY <2>2
<1> HIDE DEF k2
<1>11. Fine(f, k2 \o <<Label(Next1)>>, {Next1} \ {Next1}, U, U)
  BY <1>10, FineLabel
<1> QED BY <1>1, <1>11

-----------------------------------------------------------------------------
LEMMA FineRelation ==
    ASSUME NEW f, NEW rel \in {"eq", "lt", "le"}, NEW pred \in BOOLEAN, NEW s, NEW t,
           Arg(f, {}, s), Arg(f, {}, t)
    PROVE  Fine(f, Relation(rel, pred, s, t), {Line}, Unknown(f), Unknown(f))
<1>1. \A op \in {"beq", "bne"} : Fine(f, Equality(op, s, t, Line, 1), {Line}, Unknown(f), Unknown(f))
  <2>1. ASSUME NEW op \in {"beq", "bne"}
        PROVE  Fine(f, Equality(op, s, t, Line, 1), {Line}, Knows(f, {}), Unknown(f))
    BY FineEquality
  <2> QED BY <2>1, KnowsFacts
<1>2. \A op \in {"bltz", "bgtz", "blez", "bgez"} :
        Fine(f, Inequality(op, s, t, Line, 1), {Line}, Unknown(f), Unknown(f))
  <2>1. ASSUME NEW op \in {"bltz", "bgtz", "blez", "bgez"}
        PROVE  Fine(f, Inequality(op, s, t, Line, 1), {Line}, Knows(f, {}), Unknown(f))
    BY FineInequality
  <2> QED BY <2>1, KnowsFacts
<1>3. CASE rel = "eq"
  <2>1. Relation(rel, pred, s, t) = Equality(IF pred THEN "bne" ELSE "beq", s, t, Line, 1)
    BY <1>3 DEF Relation
  <2> QED BY <2>1, <1>1
<1>4. CASE rel = "lt"
  <2>1. Relation(rel, pred, s, t) = Inequality(IF pred THEN "bgtz" ELSE "bltz", s, t, Line, 1)
    BY <1>4 DEF Relation
  <2> QED BY <2>1, <1>2
<1>5. CASE rel = "le"
  <2>1. Relation(rel, pred, s, t) = Inequality(IF pred THEN "bgez" ELSE "blez", s, t, Line, 1)
    BY <1>5 DEF Relation
  <2> QED BY <2>1, <1>2
<1> QED BY <1>3, <1>4, <1>5

\* emit_relational
LEMMA FineRelational ==
    ASSUME NEW f, NEW rel \in {"eq", "lt", "le"}, NEW pred \in BOOLEAN, NEW s, NEW t,
           IsOperand(f, s), IsOperand(f, t)
    PROVE  Fine(f, EmitRelational(rel, pred, s, t), {Line}, Unknown(f), Unknown(f))
<1> DEFINE tag == Reg(Temp(0))
           k == Imm(IF pred THEN 0 ELSE 1)
           U == Unknown(f)
           K == Knows(f, {Temp(0)})
           c1 == TypeCheck(s, t)
           c2 == CallRelational(rel, tag, s, t)
           c3 == Equality("beq", tag, k, Line, 1)
           c4 == Jump(Next1)
           c5 == Relation(rel, pred, s.value, t.value)
           k1 == c1 \o c2 \o c3 \o c4 \o <<Label(Next0)>>
           k2 == k1 \o c5
<1>1. EmitRelational(rel, pred, s, t) = k2 \o <<Label(Next1)>>
  BY DEF EmitRelational
<1>2. Fine(f, c1, {Next0}, U, U)
  BY FineTypeCheck
<1>3. Fine(f, c2, {}, U, K)
  BY FineCallRelational
<1>4. Fine(f, c3, {Line}, K, U)
  <2>1. Arg(f, {Temp(0)}, tag)
    BY TempFacts DEF Arg
  <2>2. Src(f, {Temp(0)}, k) /\ IsImm(k)
    BY ImmFacts, WordFacts
  <2>3. Arg(f, {Temp(0)}, k)
    BY <2>2, TagFacts DEF Arg
  <2> HIDE DEF tag, k
  <2> QED BY <2>1, <2>3, FineEquality
<1>5. Fine(f, c4, {Next1}, U, U)
  BY FineJump
<1>6. Fine(f, c5, {Line}, U, U)
  <2>1. Arg(f, {}, s.value) /\ Arg(f, {}, t.value)
    BY DEF IsOperand
  <2> QED BY <2>1, FineRelation
<1> HIDE DEF c1, c2, c3, c4, c5, U, K
<1>7. Fine(f, k1, {Next1, Line}, U, U)
  <2>1. Fine(f, c1 \o c2, {Next0} \cup {}, U, K)
    BY <1>2, <1>3, FineConcat
  <2>2. Fine(f, c1 \o c2 \o c3, {Next0} \cup {} \cup {Line}, U, U)
    BY <2>1, <1>4, FineConcat
  <2>3. Fine(f, c1 \o c2 \o c3 \o c4, {Next0} \cup {} \cup {Line} \cup {Next1}, U, U)
    BY <2>2, <1>5, FineConcat
  <2>4. Fine(f, k1, ({Next0} \cup {} \cup {Line} \cup {Next1}) \ {Next0}, U, U)
    BY <2>3, FineLabel DEF U
  <2>5. ({Next0} \cup {} \cup {Line} \cup {Next1}) \ {Next0} = {Next1, Line}
    BY DEF Next0, Next1, Line
  <2> QED BY <2>4, <2>5
<1> HIDE DEF k1
<1>8. Fine(f, k2, {Next1, Line} \cup {Line}, U, U)
  BY <1>6, <1>7, FineConcat
<1> HIDE DEF k2
<1>9. Fine(f, k2 \o <<Label(Next1)>>, ({Next1, Line} \cup {Line}) \ {Next1}, U, U)
  BY <1>8, FineLabel DEF U
<1>10. ({Next1, Line} \cup {Line}) \ {Next1} = {Line}
  BY DEF Next1, Line
<1> QED BY <1>1, <1>9, <1>10 DEF U

\* assign
LEMMA FineEmitMove ==
    ASSUME NEW f \in Nat, NEW l \in Local, NEW s, IsOperand(f, s)
    PROVE  Fine(f, EmitMove(f, l, s), {}, Unknown(f), Unknown(f))
<1> DEFINE d == LocalOperand(f, l)
<1>1. IsLocal(f, d)
  BY LocalFacts
<1>2. EmitMove(f, l, s) = Move(d.value, s.value, 0) \o Move(d.type, s.type, 0)
  BY DEF EmitMove
<1> HIDE DEF d
<1>3. Fine(f, Move(d.value, s.value, 0), {}, Unknown(f), Unknown(f))
  <2>1. Dst(f, d.value) /\ Src(f, {}, s.value)
    BY <1>1 DEF IsLocal, IsOperand, Arg
  <2> QED BY <2>1, FineWordMove
<1>4. Fine(f, Move(d.type, s.type, 0), {}, Unknown(f), Unknown(f))
  <2>1. TypePlace(f, d.type) /\ TypeSrc(f, s.type)
    BY <1>1 DEF IsLocal, IsOperand
  <2> QED BY <2>1, FineTypeMove
<1>5. Fine(f, Move(d.value, s.value, 0) \o Move(d.type, s.type, 0), {} \cup {}, Unknown(f), Unknown(f))
  BY <1>3, <1>4, FineConcat
<1> QED BY <1>2, <1>5

\* emit_forprep and emit_forloop
LEMMA FineFor ==
    ASSUME NEW f \in Nat, NEW l \in Local, l + 3 \in Local
    PROVE  /\ Fine(f, EmitForPrep(f, l), {Line}, Unknown(f), Unknown(f))
           /\ Fine(f, EmitForLoop(f, l), {Line}, Unknown(f), Unknown(f))
<1> DEFINE var == LocalOperand(f, l)
           limit == LocalOperand(f, l + 1)
           step == LocalOperand(f, l + 2)
           U == Unknown(f)
<1>1. l + 1 \in Local /\ l + 2 \in Local
  BY LocalsAssumption DEF Local
<1>2. IsLocal(f, var) /\ IsLocal(f, limit) /\ IsLocal(f, step)
  BY <1>1, LocalFacts
<1>3. IsOperand(f, var) /\ IsOperand(f, limit) /\ IsOperand(f, step)
  BY <1>2 DEF IsLocal
<1>4. EmitForPrep(f, l) = EmitBop(f, "sub", l, var, step) \o Jump(Line)
  BY DEF EmitForPrep
<1> DEFINE c1 == EmitBop(f, "add", l, var, step)
           c2 == EmitMove(f, l + 3, var)
           c3 == Inequality("bgtz", var.value, limit.value, Next0, 0)
           c4 == Jump(Line)
<1>5. EmitForLoop(f, l) = c1 \o c2 \o c3 \o c4 \o <<Label(Next0)>>
  BY DEF EmitForLoop
<1> HIDE DEF var, limit, step
<1>6. "add" \in Operations /\ "sub" \in Operations
  BY DEF Operations
<1>7. Fine(f, EmitBop(f, "sub", l, var, step), {}, U, U) /\ Fine(f, c1, {}, U, U)
  BY <1>3, <1>6, FineBop
<1>8. Fine(f, c4, {Line}, U, U)
  BY FineJump
<1>9. Fine(f, EmitBop(f, "sub", l, var, step) \o Jump(Line), {} \cup {Line}, U, U)
  BY <1>7, <1>8, FineConcat
<1>10. Fine(f, c2, {}, U, U)
  BY <1>3, FineEmitMove
<1>11. Fine(f, c3, {Next0}, U, U)
  <2>1. Arg(f, {}, var.value) /\ Arg(f, {}, limit.value)
    BY <1>3 DEF IsOperand
  <2>2. Fine(f, c3, {Next0}, Knows(f, {}), U)
    BY <2>1, FineInequality
  <2> QED BY <2>2, KnowsFacts
<1> HIDE DEF c1, c2, c3, c4
<1>12. Fine(f, c1 \o c2 \o c3 \o c4 \o <<Label(Next0)>>, {Line}, U, U)
  <2>1. Fine(f, c1 \o c2, {} \cup {}, U, U)
    BY <1>7, <1>10, FineConcat
  <2>2. Fine(f, c1 \o c2 \o c3, {} \cup {} \cup {Next0}, U, U)
    BY <2>1, <1>11, FineConcat
  <2>3. Fine(f, c1 \o c2 \o c3 \o c4, {} \cup {} \cup {Next0} \cup {Line}, U, U)
    BY <2>2, <1>8, FineConcat
  <2>4. Fine(f, c1 \o c2 \o c3 \o c4 \o <<Label(Next0)>>, ({} \cup {} \cup {Next0} \cup {Line}) \ {Next0}, U, U)
    BY <2>3, FineLabel
  <2>5. ({} \cup {} \cup {Next0} \cup {Line}) \ {Next0} = {Line}
    BY DEF Next0, Line
  <2> QED BY <2>4, <2>5
<1> QED BY <1>4, <1>5, <1>9, <1>12

-----------------------------------------------------------------------------
\* Four instructions, one by one.
InRow(i, j, k, l) == <<i>> \o <<j>> \o <<k>> \o <<l>>

LEMMA FourConcat ==
    ASSUME NEW i, NEW j, NEW k, NEW l
    PROVE  <<i, j, k, l>> = InRow(i, j, k, l)
<1> DEFINE R == {i, j, k, l}
           s == <<i, j, k, l>>
           t == <<i>> \o <<j>> \o <<k>> \o <<l>>
<1>1. s \in Seq(R) /\ Len(s) = 4 /\ s[1] = i /\ s[2] = j /\ s[3] = k /\ s[4] = l
  OBVIOUS
<1>2. <<i>> \in Seq(R) /\ <<j>> \in Seq(R) /\ <<k>> \in Seq(R) /\ <<l>> \in Seq(R)
  OBVIOUS
<1> HIDE DEF R
<1>3. <<i>> \o <<j>> \in Seq(R) /\ Len(<<i>> \o <<j>>) = 2 /\ (<<i>> \o <<j>>)[1] = i /\ (<<i>> \o <<j>>)[2] = j
  BY <1>2
<1>4. t \in Seq(R) /\ Len(t) = 4 /\ t[1] = i /\ t[2] = j /\ t[3] = k /\ t[4] = l
  BY <1>2, <1>3
<1> HIDE DEF s, t
<1>5. \A m \in 1..Len(s) : s[m] = t[m]
  BY <1>1, <1>4
<1>6. s = t
  BY <1>1, <1>4, <1>5, SeqEqual
<1> QED BY <1>6 DEF s, t, InRow

\* Words on the way to an upvalue.
LEMMA WayFacts ==
    ASSUME NEW f, NEW u \in Upval
    PROVE  /\ FrameClosure \in Places(f) \ Temps /\ Slot0 \in Places(f) \ Temps
           /\ Object(u) \in Places(f) \ Temps /\ UpVal(u) \in Places(f) \ Temps
           /\ CellType(u) \in Places(f) \ Temps /\ CellValue(u) \in Places(f) \ Temps
           /\ u \in Nat
<1>1. FrameClosure \in Places(f) /\ Slot0 \in Places(f)
  BY DEF Places
<1>2. Object(u) \in Places(f)
  BY DEF Places
<1>3. UpVal(u) \in Places(f)
  BY DEF Places
<1>4. CellType(u) \in Places(f) /\ CellValue(u) \in Places(f)
  BY DEF Places
<1>5. /\ FrameClosure \notin Temps /\ Slot0 \notin Temps /\ Object(u) \notin Temps /\ UpVal(u) \notin Temps
      /\ CellType(u) \notin Temps /\ CellValue(u) \notin Temps
  BY DEF FrameClosure, Slot0, Object, UpVal, CellType, CellValue, Temps, Temp
<1>6. u \in Nat
  BY LocalsAssumption DEF Upval
<1> QED BY <1>1, <1>2, <1>3, <1>4, <1>5, <1>6

LEMMA IndFacts ==
    ASSUME NEW n, NEW k, NEW v
    PROVE  /\ ~IsReg(Ind(Reg(Temp(n)), k))
           /\ At(v, Ind(Reg(Temp(n)), k)) = <<v[Temp(n)][1], v[Temp(n)][2] + k>>
           /\ Read(v, Ind(Reg(Temp(n)), k)) = v[<<v[Temp(n)][1], v[Temp(n)][2] + k>>]
<1> DEFINE o == Ind(Reg(Temp(n)), k)
<1>1. o.tag = "ind" /\ o.base = Temp(n) /\ o.off = k
  BY DEF Ind, Reg
<1> HIDE DEF o
<1>2. ~IsReg(o) /\ ~IsImm(o)
  BY <1>1 DEF IsReg, IsImm
<1>3. At(v, o) = <<v[Temp(n)][1], v[Temp(n)][2] + k>>
  BY <1>1 DEF At
<1>4. Read(v, o) = v[At(v, o)]
  BY <1>2 DEF Read
<1> QED BY <1>2, <1>3, <1>4 DEF o

\* One dereference.
LEMMA FineFollow ==
    ASSUME NEW f, NEW n \in 0..3, NEW P, NEW s, NEW p \in Places(f) \ Temps, NEW q \in Anything(f),
           P \subseteq Unknown(f), Content(p) = {q}, \A v \in P : Read(v, s) = v[p]
    PROVE  Fine(f, <<Copy(Reg(Temp(n)), s)>>, {}, P, Has(f, Temp(n), {q}))
<1> DEFINE r == Reg(Temp(n))
           H == Has(f, Temp(n), {q})
<1>1. r.at = Temp(n) /\ Temp(n) \in Temps /\ IsReg(r)
  BY TempFacts
<1> HIDE DEF r
<1>2. ASSUME NEW v \in P PROVE Write(v, r, Read(v, s)) \in H
  <2>1. v \in Unknown(f)
    OBVIOUS
  <2>2. v[p] \in Content(p)
    BY <2>1 DEF Unknown
  <2>3. Read(v, s) = q
    BY <2>2
  <2>4. At(v, r) = Temp(n) /\ Temp(n) \in Places(f) /\ Temp(n) # Zero
    BY <1>1, TagFacts, PlaceFacts
  <2>5. Write(v, r, q) \in Unknown(f) /\ Write(v, r, q)[Temp(n)] = q
    BY <1>1, <2>1, <2>4, WriteFits
  <2> QED BY <2>3, <2>5 DEF Has
<1>3. H \subseteq Unknown(f)
  BY DEF Has
<1> HIDE DEF H
<1>4. Fine(f, <<Copy(r, s)>>, {}, P, H)
  BY <1>2, <1>3, FineCopies
<1> QED BY <1>4 DEF r, H

\* getupvalptr
LEMMA FineGetUpvalPtr ==
    ASSUME NEW f, NEW n \in 0..3, NEW u \in Upval
    PROVE  Fine(f, GetUpvalPtr(Reg(Temp(n)), u), {}, Unknown(f), Has(f, Temp(n), {CellType(u)}))
<1> DEFINE r == Reg(Temp(n))
           U == Unknown(f)
           H(q) == Has(f, Temp(n), {q})
           c1 == <<Copy(r, Mem(FrameClosure))>>
           c2 == <<Copy(r, Ind(r, 0))>>
           c3 == <<Copy(r, Ind(r, u))>>
<1>1. GetUpvalPtr(r, u) = c1 \o c2 \o c3 \o c2
  <2> DEFINE i1 == Copy(r, Mem(FrameClosure))
             i2 == Copy(r, Ind(r, 0))
             i3 == Copy(r, Ind(r, u))
  <2>1. GetUpvalPtr(r, u) = <<i1, i2, i3, i2>> /\ c1 = <<i1>> /\ c2 = <<i2>> /\ c3 = <<i3>>
    BY DEF GetUpvalPtr
  <2> HIDE DEF i1, i2, i3, c1, c2, c3
  <2>2. <<i1, i2, i3, i2>> = InRow(i1, i2, i3, i2)
    BY FourConcat
  <2> QED BY <2>1, <2>2 DEF InRow
<1>2. /\ FrameClosure \in Places(f) \ Temps /\ Slot0 \in Places(f) \ Temps
      /\ Object(u) \in Places(f) \ Temps /\ UpVal(u) \in Places(f) \ Temps
      /\ CellType(u) \in Places(f) \ Temps /\ u \in Nat
  BY WayFacts
<1>3. /\ Slot0 \in Anything(f) /\ Object(0) \in Anything(f)
      /\ UpVal(u) \in Anything(f) /\ CellType(u) \in Anything(f)
  BY <1>2 DEF Anything
<1>4. /\ Content(FrameClosure) = {Slot0} /\ Content(Slot0) = {Object(0)}
      /\ Content(Object(u)) = {UpVal(u)} /\ Content(UpVal(u)) = {CellType(u)}
  BY ContentFacts
<1>5. \A q : H(q) \subseteq U
  BY DEF Has
<1>6. Fine(f, c1, {}, U, H(Slot0))
  <2>1. IsMem(Mem(FrameClosure)) /\ Mem(FrameClosure).at = FrameClosure
    BY DEF IsMem, Mem
  <2>2. \A v \in U : Read(v, Mem(FrameClosure)) = v[FrameClosure]
    BY <2>1, TagFacts
  <2> QED BY <2>2, <1>2, <1>3, <1>4, FineFollow
<1>7. Fine(f, c2, {}, H(Slot0), H(Object(0)))
  <2>1. \A v \in H(Slot0) : v[Temp(n)] = Slot0
    BY DEF Has
  <2>2. <<Slot0[1], Slot0[2] + 0>> = Slot0
    BY DEF Slot0
  <2>3. \A v \in H(Slot0) : Read(v, Ind(r, 0)) = v[Slot0]
    BY <2>1, <2>2, IndFacts
  <2> QED BY <2>3, <1>2, <1>3, <1>4, <1>5, FineFollow
<1>8. Fine(f, c3, {}, H(Object(0)), H(UpVal(u)))
  <2>1. \A v \in H(Object(0)) : v[Temp(n)] = Object(0)
    BY DEF Has
  <2>2. <<Object(0)[1], Object(0)[2] + u>> = Object(u)
    BY <1>2 DEF Object
  <2>3. \A v \in H(Object(0)) : Read(v, Ind(r, u)) = v[Object(u)]
    BY <2>1, <2>2, IndFacts
  <2> QED BY <2>3, <1>2, <1>3, <1>4, <1>5, FineFollow
<1>9. Fine(f, c2, {}, H(UpVal(u)), H(CellType(u)))
  <2>1. \A v \in H(UpVal(u)) : v[Temp(n)] = UpVal(u)
    BY DEF Has
  <2>2. <<UpVal(u)[1], UpVal(u)[2] + 0>> = UpVal(u)
    BY <1>2 DEF UpVal
  <2>3. \A v \in H(UpVal(u)) : Read(v, Ind(r, 0)) = v[UpVal(u)]
    BY <2>1, <2>2, IndFacts
  <2> QED BY <2>3, <1>2, <1>3, <1>4, <1>5, FineFollow
<1> HIDE DEF c1, c2, c3, H, U
<1>10. Fine(f, c1 \o c2, {} \cup {}, U, H(Object(0)))
  BY <1>6, <1>7, FineConcat
<1>11. Fine(f, c1 \o c2 \o c3, {} \cup {} \cup {}, U, H(UpVal(u)))
  BY <1>10, <1>8, FineConcat
<1>12. Fine(f, c1 \o c2 \o c3 \o c2, {} \cup {} \cup {} \cup {}, U, H(CellType(u)))
  BY <1>11, <1>9, FineConcat
<1> QED BY <1>1, <1>12 DEF U, H

\* What a place may be given while temporary n holds an address.
Takes(f, n, v, o, K) ==
    /\ At(v, o) \in Places(f) /\ At(v, o) # Temp(n)
    /\ At(v, o) \in Temps \cup {Zero} \/ K \subseteq Content(At(v, o))

LEMMA TakesWrite ==
    ASSUME NEW f, NEW n \in 0..3, NEW q, NEW v \in Has(f, Temp(n), {q}), NEW o, NEW K, Takes(f, n, v, o, K),
           NEW w \in K, K \subseteq Anything(f)
    PROVE  Write(v, o, w) \in Has(f, Temp(n), {q})
<1>1. v \in Unknown(f) /\ v[Temp(n)] = q /\ Temp(n) \in Places(f)
  BY PlaceFacts DEF Has
<1>2. At(v, o) \in Places(f) /\ (At(v, o) \in Temps \cup {Zero} \/ w \in Content(At(v, o))) /\ At(v, o) # Temp(n)
  BY DEF Takes
<1>3. w \in Anything(f)
  OBVIOUS
<1>4. Write(v, o, w) \in Unknown(f) /\ Write(v, o, w)[Temp(n)] = v[Temp(n)]
  BY <1>1, <1>2, <1>3, WriteFits
<1> QED BY <1>1, <1>4 DEF Has

\* A word or a type is moved, and the address stays.
LEMMA FineAddressed ==
    ASSUME NEW f, NEW n \in 0..3, NEW m \in 0..3, m # n, NEW q, NEW d, NEW s, NEW K, K \subseteq Anything(f),
           \A v \in Has(f, Temp(n), {q}) : Takes(f, n, v, d, K) /\ Read(v, s) \in K
    PROVE  Fine(f, Move(d, s, m), {}, Has(f, Temp(n), {q}), Has(f, Temp(n), {q}))
<1> DEFINE P == Has(f, Temp(n), {q})
           r == Reg(Temp(m))
           H == {v \in P : v[Temp(m)] \in K}
<1>1. P \subseteq Unknown(f) /\ H \subseteq P
  BY DEF Has
<1>2. CASE IsReg(d) \/ IsReg(s)
  <2>1. \A v \in P : Write(v, d, Read(v, s)) \in P
    BY TakesWrite
  <2>2. Move(d, s, m) = <<Copy(d, s)>>
    BY <1>2 DEF Move
  <2> HIDE DEF P
  <2>3. Fine(f, <<Copy(d, s)>>, {}, P, P)
    BY <2>1, <1>1, FineCopies
  <2> QED BY <2>2, <2>3 DEF P
<1>3. CASE ~(IsReg(d) \/ IsReg(s))
  <2>1. IsReg(r) /\ r.at = Temp(m) /\ Temp(m) \in Temps /\ Temp(m) # Temp(n) /\ Temp(m) # Zero /\ Temp(m) \in Places(f)
    BY TempFacts, PlaceFacts
  <2>2. Move(d, s, m) = <<Copy(r, s), Copy(d, r)>>
    BY <1>3 DEF Move
  <2> HIDE DEF r
  <2>3. <<Copy(r, s)>> \o <<Copy(d, r)>> = <<Copy(r, s), Copy(d, r)>>
    <3>1. IsSeq(<<>>)
      BY SeqNone
    <3>2. (<<>> \o <<Copy(r, s)>>) \o <<Copy(d, r)>> = <<>> \o <<Copy(r, s), Copy(d, r)>>
      BY <3>1, ConcatTwo
    <3>3. IsSeq(<<Copy(r, s)>>) /\ IsSeq(<<Copy(r, s), Copy(d, r)>>)
      BY SeqOne, SeqTwo
    <3> QED BY <3>2, <3>3, ConcatNone
  <2>4. ASSUME NEW v \in P PROVE Write(v, r, Read(v, s)) \in H
    <3>1. At(v, r) = Temp(m)
      BY <2>1, TagFacts
    <3>2. Read(v, s) \in K /\ Read(v, s) \in Anything(f)
      OBVIOUS
    <3>3. Takes(f, n, v, r, K)
      BY <2>1, <3>1 DEF Takes
    <3>4. Write(v, r, Read(v, s)) \in P
      BY <3>2, <3>3, TakesWrite
    <3>5. Write(v, r, Read(v, s))[Temp(m)] = Read(v, s)
      <4>1. v \in Unknown(f)
        BY <1>1
      <4> QED BY <4>1, <2>1, <3>1, <3>2, WriteFits
    <3> QED BY <3>2, <3>4, <3>5
  <2>5. ASSUME NEW v \in H PROVE Write(v, d, Read(v, r)) \in P
    <3>1. Read(v, r) = v[Temp(m)]
      BY <2>1, TagFacts
    <3>2. Read(v, r) \in K /\ v \in P
      BY <3>1
    <3>3. Takes(f, n, v, d, K)
      BY <3>2
    <3> QED BY <3>2, <3>3, TakesWrite
  <2>6. H \subseteq Unknown(f)
    BY <1>1
  <2> HIDE DEF P, H
  <2>7. Fine(f, <<Copy(r, s)>>, {}, P, H)
    BY <2>4, <2>6, <1>1, FineCopies
  <2>8. Fine(f, <<Copy(d, r)>>, {}, H, P)
    BY <2>5, <2>6, <1>1, FineCopies
  <2>9. Fine(f, <<Copy(r, s)>> \o <<Copy(d, r)>>, {}, P, P)
    BY <2>7, <2>8, FineBefore
  <2> QED BY <2>2, <2>3, <2>9 DEF P
<1> QED BY <1>2, <1>3

\* Where the value and the type of an upvalue may be fetched to.
Fetches(f, n, o, K) ==
    /\ IsReg(o) \/ IsMem(o)
    /\ o.at \in Places(f) /\ o.at # Temp(n)
    /\ o.at \in Temps \cup {Zero} \/ K \subseteq Content(o.at)

LEMMA CellFacts ==
    ASSUME NEW f, NEW n \in 0..3, NEW u \in Upval, NEW v \in Has(f, Temp(n), {CellType(u)})
    PROVE  LET o == Ind(Reg(Temp(n)), 0)
               p == Ind(Reg(Temp(n)), 1)
           IN  /\ ~IsReg(o) /\ ~IsReg(p)
               /\ Read(v, o) \in Types /\ Takes(f, n, v, o, Types)
               /\ Read(v, p) \in Word /\ Takes(f, n, v, p, Word)
<1> DEFINE o == Ind(Reg(Temp(n)), 0)
           p == Ind(Reg(Temp(n)), 1)
           q == CellType(u)
<1>1. u \in Nat /\ CellType(u) \in Places(f) \ Temps /\ CellValue(u) \in Places(f) \ Temps
  BY WayFacts
<1>2. <<q[1], q[2] + 0>> = CellType(u) /\ <<q[1], q[2] + 1>> = CellValue(u)
  BY <1>1 DEF CellType, CellValue
<1>3. Content(CellType(u)) = Types /\ Content(CellValue(u)) = Word
  BY <1>1, ContentFacts
<1>4. v \in Unknown(f) /\ v[Temp(n)] = q
  BY DEF Has
<1> HIDE DEF q
<1>5. ~IsReg(o) /\ At(v, o) = <<q[1], q[2] + 0>> /\ Read(v, o) = v[<<q[1], q[2] + 0>>]
  BY <1>4, IndFacts
<1>6. ~IsReg(p) /\ At(v, p) = <<q[1], q[2] + 1>> /\ Read(v, p) = v[<<q[1], q[2] + 1>>]
  BY <1>4, IndFacts
<1> HIDE DEF o, p
<1>7. /\ At(v, o) = CellType(u) /\ At(v, p) = CellValue(u)
      /\ Read(v, o) = v[CellType(u)] /\ Read(v, p) = v[CellValue(u)]
  BY <1>2, <1>5, <1>6
<1>8. v[CellType(u)] \in Types /\ v[CellValue(u)] \in Word
  <2>1. \A c \in Places(f) \ Temps : v[c] \in Content(c)
    BY <1>4 DEF Unknown
  <2> QED BY <2>1, <1>1, <1>3
<1>9. Temp(n) \in Temps
  BY PlaceFacts
<1>10. Takes(f, n, v, o, Types) /\ Takes(f, n, v, p, Word)
  BY <1>1, <1>3, <1>7, <1>9 DEF Takes
<1> QED BY <1>5, <1>6, <1>7, <1>8, <1>10 DEF o, p

\* do_getupval
LEMMA FineDoGetUpval ==
    ASSUME NEW f, NEW n \in 0..2, NEW u \in Upval, NEW d, Fetches(f, n, d.value, Word), Fetches(f, n, d.type, Types)
    PROVE  Fine(f, DoGetUpval(d, u, n), {}, Unknown(f), Unknown(f))
<1> DEFINE r == Reg(Temp(n))
           P == Has(f, Temp(n), {CellType(u)})
           c1 == GetUpvalPtr(r, u)
           c2 == Move(d.value, Ind(r, 1), n + 1)
           c3 == Move(d.type, Ind(r, 0), n + 1)
<1>0. n \in 0..3 /\ n + 1 \in 0..3 /\ n + 1 # n
  OBVIOUS
<1>1. DoGetUpval(d, u, n) = c1 \o c2 \o c3
  BY DEF DoGetUpval
<1>2. Fine(f, c1, {}, Unknown(f), P)
  BY <1>0, FineGetUpvalPtr
<1>3. \A v \in P : Read(v, Ind(r, 1)) \in Word /\ Read(v, Ind(r, 0)) \in Types
  BY <1>0, CellFacts
<1>4. \A v \in P : Takes(f, n, v, d.value, Word) /\ Takes(f, n, v, d.type, Types)
  BY TagFacts DEF Fetches, Takes
<1>5. Word \subseteq Anything(f) /\ Types \subseteq Anything(f)
  BY WordFacts, PlaceFacts
<1>6. Fine(f, c2, {}, P, P)
  <2>1. \A v \in P : Takes(f, n, v, d.value, Word) /\ Read(v, Ind(r, 1)) \in Word
    BY <1>3, <1>4
  <2> HIDE DEF r
  <2> QED BY <2>1, <1>0, <1>5, FineAddressed
<1>7. Fine(f, c3, {}, P, P)
  <2>1. \A v \in P : Takes(f, n, v, d.type, Types) /\ Read(v, Ind(r, 0)) \in Types
    BY <1>3, <1>4
  <2> HIDE DEF r
  <2> QED BY <2>1, <1>0, <1>5, FineAddressed
<1>8. P \subseteq Unknown(f)
  BY DEF Has
<1> HIDE DEF c1, c2, c3, P
<1>9. Fine(f, c1 \o c2, {} \cup {}, Unknown(f), P)
  BY <1>2, <1>6, FineConcat
<1>10. Fine(f, c1 \o c2 \o c3, {} \cup {} \cup {}, Unknown(f), P)
  BY <1>9, <1>7, FineConcat
<1>11. Fine(f, c1 \o c2 \o c3, {}, Unknown(f), Unknown(f))
  BY <1>10, <1>8, FineWeaker
<1> QED BY <1>1, <1>11

LEMMA LocalFetches ==
    ASSUME NEW f \in Nat, NEW l \in Local, NEW n \in 0..3
    PROVE  LET d == LocalOperand(f, l)
           IN  Fetches(f, n, d.value, Word) /\ Fetches(f, n, d.type, Types)
<1> DEFINE d == LocalOperand(f, l)
           v == Slot(f, 2 * l, FALSE)
<1>1. IsLocal(f, d) /\ Temp(n) \in Temps
  BY LocalFacts, PlaceFacts
<1>2. v.at \notin Temps
  <2>1. 2 * l \in 0..(2 * Locals - 1)
    BY LocalsAssumption DEF Local
  <2> QED BY <2>1, SlotFacts
<1>3. d.value = v
  BY DEF LocalOperand
<1> HIDE DEF d, v
<1>4. Dst(f, d.value) /\ TypePlace(f, d.type)
  BY <1>1 DEF IsLocal
<1>5. Fetches(f, n, d.value, Word)
  BY <1>1, <1>2, <1>3, <1>4 DEF Fetches, Dst
<1>6. Fetches(f, n, d.type, Types)
  BY <1>1, <1>4 DEF Fetches, TypePlace
<1> QED BY <1>5, <1>6 DEF d

LEMMA FineEmitGetUpval ==
    ASSUME NEW f \in Nat, NEW l \in Local, NEW u \in Upval
    PROVE  Fine(f, EmitGetUpval(f, l, u), {}, Unknown(f), Unknown(f))
<1>1. Fetches(f, 0, LocalOperand(f, l).value, Word) /\ Fetches(f, 0, LocalOperand(f, l).type, Types)
  BY LocalFetches
<1> QED BY <1>1, FineDoGetUpval DEF EmitGetUpval

LEMMA FineEmitSetUpval ==
    ASSUME NEW f, NEW s, IsOperand(f, s), NEW u \in Upval
    PROVE  Fine(f, EmitSetUpval(f, s, u), {}, Unknown(f), Unknown(f))
<1> DEFINE r == Reg(Temp(0))
           P == Has(f, Temp(0), {CellType(u)})
           c1 == GetUpvalPtr(r, u)
           c2 == Move(Ind(r, 1), s.value, 1)
           c3 == Move(Ind(r, 0), s.type, 1)
<1>1. EmitSetUpval(f, s, u) = c1 \o c2 \o c3
  BY DEF EmitSetUpval
<1>2. Fine(f, c1, {}, Unknown(f), P)
  BY FineGetUpvalPtr
<1>3. P \subseteq Unknown(f)
  BY DEF Has
<1>4. \A v \in P : Read(v, s.value) \in Word /\ Read(v, s.type) \in Types
  <2>1. \A v \in P : v \in Knows(f, {})
    BY <1>3, KnowsFacts
  <2>2. Src(f, {}, s.value)
    BY DEF IsOperand, Arg
  <2>3. \A v \in P : Read(v, s.value) \in Word
    BY <2>1, <2>2, SrcReads
  <2>4. \A v \in P : Read(v, s.type) \in Types
    BY <1>3, TypeSrcFacts DEF IsOperand
  <2> QED BY <2>3, <2>4
<1>5. \A v \in P : Takes(f, 0, v, Ind(r, 1), Word) /\ Takes(f, 0, v, Ind(r, 0), Types)
  BY CellFacts
<1>6. Word \subseteq Anything(f) /\ Types \subseteq Anything(f)
  BY WordFacts, PlaceFacts
<1>7. Fine(f, c2, {}, P, P)
  <2>1. \A v \in P : Takes(f, 0, v, Ind(r, 1), Word) /\ Read(v, s.value) \in Word
    BY <1>4, <1>5
  <2>2. 0 \in 0..3 /\ 1 \in 0..3 /\ 1 # 0
    OBVIOUS
  <2> HIDE DEF r
  <2> QED BY <2>1, <2>2, <1>6, FineAddressed
<1>8. Fine(f, c3, {}, P, P)
  <2>1. \A v \in P : Takes(f, 0, v, Ind(r, 0), Types) /\ Read(v, s.type) \in Types
    BY <1>4, <1>5
  <2>2. 0 \in 0..3 /\ 1 \in 0..3 /\ 1 # 0
    OBVIOUS
  <2> HIDE DEF r
  <2> QED BY <2>1, <2>2, <1>6, FineAddressed
<1> HIDE DEF c1, c2, c3, P
<1>9. Fine(f, c1 \o c2, {} \cup {}, Unknown(f), P)
  BY <1>2, <1>7, FineConcat
<1>10. Fine(f, c1 \o c2 \o c3, {} \cup {} \cup {}, Unknown(f), P)
  BY <1>9, <1>8, FineConcat
<1>11. Fine(f, c1 \o c2 \o c3, {}, Unknown(f), Unknown(f))
  BY <1>10, <1>3, FineWeaker
<1> QED BY <1>1, <1>11

-----------------------------------------------------------------------------
\* The address of a word of the frame.
LEMMA FineAddressOf ==
    ASSUME NEW f, NEW n \in 0..3, NEW o, IsMem(o), o.at \in Places(f) \ Temps
    PROVE  Fine(f, AddressOf(Reg(Temp(n)), o), {}, Unknown(f), Has(f, Temp(n), {o.at}))
<1> DEFINE r == Reg(Temp(n))
           i == Ins("address", r, o, Imm(0))
           U == Unknown(f)
           H == Has(f, Temp(n), {o.at})
<1>1. i.op = "address" /\ i.d = r /\ i.s = o
  BY DEF Ins
<1>2. r.at = Temp(n) /\ Temp(n) \in Temps /\ IsReg(r) /\ Temp(n) \in Places(f) /\ Temp(n) # Zero
  BY TempFacts, PlaceFacts
<1>3. AddressOf(r, o) = <<i>>
  BY DEF AddressOf
<1> HIDE DEF i, r
<1>4. i.op \in PlainOps /\ ~IsBranch(i) /\ InRegisters(i)
  BY <1>1 DEF PlainOps, IsBranch, BranchOps, InRegisters, Computing
<1>5. ASSUME NEW v \in U PROVE Effects(v, i) \subseteq H
  <2>1. Effects(v, i) = {Write(v, r, o.at)}
    <3>1. At(v, o) = o.at
      BY TagFacts
    <3> QED BY <3>1, <1>1 DEF Effects
  <2>2. At(v, r) = Temp(n) /\ o.at \in Anything(f)
    BY <1>2, TagFacts, PlaceFacts
  <2>3. Write(v, r, o.at) \in U /\ Write(v, r, o.at)[Temp(n)] = o.at
    BY <1>2, <2>2, WriteFits
  <2> QED BY <2>1, <2>3 DEF Has
<1>6. H \subseteq Unknown(f)
  BY DEF Has
<1> HIDE DEF H, U
<1>7. Steps(f, i, U, H)
  BY <1>4, <1>5 DEF Steps
<1>8. Fine(f, <<i>>, {}, U, H)
  BY <1>4, <1>6, <1>7, FineOne DEF U
<1> QED BY <1>3, <1>8 DEF U, H, r

\* ljc_tableget writes a type where it is told, then its result comes back.
LEMMA FineCallTableGet ==
    ASSUME NEW f, NEW n \in 0..3, NEW d, NEW t, NEW k, NEW o, Dst(f, d), IsMem(o), TypePlace(f, o), o.at # Zero
    PROVE  Fine(f, CallTableGet(d, t, k, Reg(Temp(n))), {}, Has(f, Temp(n), {o.at}), Unknown(f))
<1> DEFINE r == Reg(Temp(n))
           i == [op |-> "tableget", to |-> d, table |-> t, key |-> k, home |-> r]
           H == Has(f, Temp(n), {o.at})
<1>1. i.op = "tableget" /\ i.to = d /\ i.home = r /\ CallTableGet(d, t, k, r) = <<i>>
  BY DEF CallTableGet
<1>2. r.at = Temp(n) /\ IsReg(r)
  BY TempFacts
<1> HIDE DEF i, r
<1>3. ~IsBranch(i) /\ InRegisters(i)
  BY <1>1 DEF IsBranch, BranchOps, InRegisters, Computing
<1>4. ASSUME NEW v \in H, NEW x \in Value
      PROVE  Write([Clobber(v) EXCEPT ![Read(v, i.home)] = x.type], i.to, x.word) \in Unknown(f)
  <2>1. v \in Unknown(f) /\ Read(v, r) = o.at
    BY <1>2, TagFacts DEF Has
  <2>2. x.type \in Types /\ x.word \in Word
    BY DEF Value
  <2>3. Clobber(v) \in Unknown(f)
    BY <2>1, ClobberFits
  <2>4. Write(Clobber(v), o, x.type) \in Unknown(f)
    BY <2>2, <2>3, WriteType
  <2>5. Write(Clobber(v), o, x.type) = [Clobber(v) EXCEPT ![o.at] = x.type]
    <3>1. At(Clobber(v), o) = o.at
      BY TagFacts
    <3> QED BY <3>1 DEF Write
  <2>6. Write([Clobber(v) EXCEPT ![o.at] = x.type], d, x.word) \in Unknown(f)
    BY <2>2, <2>4, <2>5, WriteWord
  <2> QED BY <1>1, <2>1, <2>6
<1>5. H \subseteq Unknown(f)
  BY DEF Has
<1> HIDE DEF H
<1>6. Steps(f, i, H, Unknown(f))
  BY <1>1, <1>4 DEF Steps
<1>7. Fine(f, <<i>>, {}, H, Unknown(f))
  BY <1>3, <1>5, <1>6, FineOne
<1> QED BY <1>1, <1>7 DEF H, r

\* do_gettable
LEMMA FineDoGetTable ==
    ASSUME NEW f \in Nat, NEW l \in Local, NEW t, NEW k
    PROVE  Fine(f, DoGetTable(f, l, t, k), {}, Unknown(f), Unknown(f))
<1> DEFINE r == Reg(Temp(0))
           o == StackOperand(f, l).type
           d == LocalOperand(f, l).value
           c1 == AddressOf(r, o)
           c2 == CallTableGet(d, t, k, r)
           c3 == TypeFill(f, l)
           H == Has(f, Temp(0), {o.at})
<1>1. DoGetTable(f, l, t, k) = c1 \o c2 \o c3
  BY DEF DoGetTable
<1>2. IsMem(o) /\ TypePlace(f, o) /\ o.at = FrameWord(2 * l + 1) /\ Dst(f, d)
  BY LocalFacts DEF IsLocal
<1>3. o.at # Zero /\ o.at \in Places(f) \ Temps
  BY <1>2 DEF TypePlace, FrameWord, Zero
<1> HIDE DEF o, d
<1>4. Fine(f, c1, {}, Unknown(f), H)
  BY <1>2, <1>3, FineAddressOf
<1>5. Fine(f, c2, {}, H, Unknown(f))
  BY <1>2, <1>3, FineCallTableGet
<1>6. Fine(f, c3, {}, Unknown(f), Unknown(f))
  BY FineTypeFill
<1> HIDE DEF c1, c2, c3, H
<1>7. Fine(f, c1 \o c2, {} \cup {}, Unknown(f), Unknown(f))
  BY <1>4, <1>5, FineConcat
<1>8. Fine(f, c1 \o c2 \o c3, {} \cup {} \cup {}, Unknown(f), Unknown(f))
  BY <1>6, <1>7, FineConcat
<1> QED BY <1>1, <1>8

LEMMA FineCallTableSet ==
    ASSUME NEW f, NEW t, NEW k, NEW s, IsOperand(f, s)
    PROVE  Fine(f, CallTableSet(t, k, s), {}, Unknown(f), Unknown(f))
<1> DEFINE i == [op |-> "tableset", table |-> t, key |-> k, s |-> s]
           U == Unknown(f)
<1>1. i.op = "tableset" /\ i.s = s /\ CallTableSet(t, k, s) = <<i>>
  BY DEF CallTableSet
<1> HIDE DEF i
<1>2. ~IsBranch(i) /\ InRegisters(i)
  BY <1>1 DEF IsBranch, BranchOps, InRegisters, Computing
<1>3. ASSUME NEW v \in U PROVE Argument(v, i.s) \in Value /\ Clobber(v) \in U
  <2>1. Read(v, s.type) \in Types
    BY TypeSrcFacts DEF IsOperand
  <2>2. Src(f, {}, s.value) /\ v \in Knows(f, {})
    BY KnowsFacts DEF IsOperand, Arg
  <2>3. Read(v, s.value) \in Word
    BY <2>2, SrcReads
  <2> QED BY <1>1, <2>1, <2>3, ClobberFits DEF Argument, Value
<1> HIDE DEF U
<1>4. Steps(f, i, U, U)
  BY <1>1, <1>3 DEF Steps
<1>5. Fine(f, <<i>>, {}, U, U)
  BY <1>2, <1>4, FineOne DEF U
<1> QED BY <1>1, <1>5 DEF U

\* GETTABUP, SETTABUP and SELF
LEMMA FineTabUp ==
    ASSUME NEW f \in Nat, NEW u \in Upval, NEW k
    PROVE  /\ \A l \in Local : Fine(f, EmitGetTabUp(f, l, u, k), {}, Unknown(f), Unknown(f))
           /\ \A s : IsOperand(f, s) => Fine(f, EmitSetTabUp(f, u, k, s), {}, Unknown(f), Unknown(f))
<1>1. ASSUME NEW l \in Local PROVE Fine(f, EmitGetTabUp(f, l, u, k), {}, Unknown(f), Unknown(f))
  <2> DEFINE d == LocalOperand(f, l)
  <2>1. Fetches(f, 0, d.value, Word) /\ Fetches(f, 0, d.type, Types)
    BY LocalFetches
  <2>2. EmitGetTabUp(f, l, u, k) = DoGetUpval(d, u, 0) \o DoGetTable(f, l, d, k)
    BY DEF EmitGetTabUp
  <2> HIDE DEF d
  <2>3. Fine(f, DoGetUpval(d, u, 0), {}, Unknown(f), Unknown(f))
    BY <2>1, FineDoGetUpval
  <2>4. Fine(f, DoGetTable(f, l, d, k), {}, Unknown(f), Unknown(f))
    BY FineDoGetTable
  <2>5. Fine(f, DoGetUpval(d, u, 0) \o DoGetTable(f, l, d, k), {} \cup {}, Unknown(f), Unknown(f))
    BY <2>3, <2>4, FineConcat
  <2> QED BY <2>2, <2>5
<1>2. ASSUME NEW s, IsOperand(f, s) PROVE Fine(f, EmitSetTabUp(f, u, k, s), {}, Unknown(f), Unknown(f))
  <2> DEFINE t == [type |-> Reg(Temp(0)), value |-> Reg(Temp(1))]
  <2>1. /\ IsReg(Reg(Temp(0))) /\ Reg(Temp(0)).at = Temp(0) /\ Temp(0) \in Temps
        /\ IsReg(Reg(Temp(1))) /\ Reg(Temp(1)).at = Temp(1) /\ Temp(1) \in Temps
    BY TempFacts
  <2>2. Temps \subseteq Places(f) /\ Temp(0) # Temp(2) /\ Temp(1) # Temp(2)
    BY PlaceFacts DEF Temp
  <2>3. Fetches(f, 2, t.value, Word) /\ Fetches(f, 2, t.type, Types)
    BY <2>1, <2>2 DEF Fetches
  <2>4. EmitSetTabUp(f, u, k, s) = DoGetUpval(t, u, 2) \o CallTableSet(t.value, k, s)
    BY DEF EmitSetTabUp
  <2> HIDE DEF t
  <2>5. Fine(f, DoGetUpval(t, u, 2), {}, Unknown(f), Unknown(f))
    BY <2>3, FineDoGetUpval
  <2>6. Fine(f, CallTableSet(t.value, k, s), {}, Unknown(f), Unknown(f))
    BY <1>2, FineCallTableSet
  <2>7. Fine(f, DoGetUpval(t, u, 2) \o CallTableSet(t.value, k, s), {} \cup {}, Unknown(f), Unknown(f))
    BY <2>5, <2>6, FineConcat
  <2> QED BY <2>4, <2>7
<1> QED BY <1>1, <1>2

LEMMA FineSelf ==
    ASSUME NEW f \in Nat, NEW l \in Local, l + 1 \in Local, NEW t \in Local, NEW k
    PROVE  Fine(f, EmitSelf(f, l, t, k), {}, Unknown(f), Unknown(f))
<1> DEFINE table == LocalOperand(f, t)
<1>1. IsOperand(f, table)
  BY LocalFacts DEF IsLocal
<1>2. EmitSelf(f, l, t, k) = EmitMove(f, l + 1, table) \o DoGetTable(f, l, table, k)
  BY DEF EmitSelf
<1> HIDE DEF table
<1>3. Fine(f, EmitMove(f, l + 1, table), {}, Unknown(f), Unknown(f))
  BY <1>1, FineEmitMove
<1>4. Fine(f, DoGetTable(f, l, table, k), {}, Unknown(f), Unknown(f))
  BY FineDoGetTable
<1>5. Fine(f, EmitMove(f, l + 1, table) \o DoGetTable(f, l, table, k), {} \cup {}, Unknown(f), Unknown(f))
  BY <1>3, <1>4, FineConcat
<1> QED BY <1>2, <1>5

\* emit_newtable
LEMMA FineNewTable ==
    ASSUME NEW f \in Nat, NEW l \in Local
    PROVE  Fine(f, EmitNewTable(f, l), {}, Unknown(f), Unknown(f))
<1> DEFINE d == LocalOperand(f, l)
           i == [op |-> "create", to |-> d.value]
           U == Unknown(f)
<1>1. EmitNewTable(f, l) = CallCreate(d.value) \o Move(d.type, Imm(Table), 0)
  BY DEF EmitNewTable
<1>2. IsLocal(f, d)
  BY LocalFacts
<1> HIDE DEF d
<1>3. i.op = "create" /\ i.to = d.value /\ CallCreate(d.value) = <<i>>
  BY DEF CallCreate
<1> HIDE DEF i
<1>4. ~IsBranch(i) /\ InRegisters(i)
  BY <1>3 DEF IsBranch, BranchOps, InRegisters, Computing
<1>5. ASSUME NEW v \in U, NEW t \in Addresses PROVE Write(Clobber(v), i.to, t) \in U
  <2>1. t \in Word /\ Clobber(v) \in U /\ Dst(f, d.value)
    BY AddressesAssumption, ClobberFits, <1>2 DEF IsLocal
  <2> QED BY <2>1, <1>3, WriteWord
<1> HIDE DEF U
<1>6. Steps(f, i, U, U)
  BY <1>3, <1>5 DEF Steps
<1>7. Fine(f, <<i>>, {}, U, U)
  BY <1>4, <1>6, FineOne DEF U
<1>8. Fine(f, Move(d.type, Imm(Table), 0), {}, U, U)
  <2>1. Table \in Types /\ IsImm(Imm(Table)) /\ Imm(Table).k = Table
    BY ImmFacts, WordFacts DEF Types
  <2>2. TypePlace(f, d.type) /\ TypeSrc(f, Imm(Table))
    BY <2>1, <1>2 DEF IsLocal, TypeSrc
  <2> QED BY <2>2, FineTypeMove DEF U
<1>9. Fine(f, <<i>> \o Move(d.type, Imm(Table), 0), {}, U, U)
  BY <1>7, <1>8, FineBefore
<1> QED BY <1>1, <1>3, <1>9 DEF U

-----------------------------------------------------------------------------
\* SETLIST

\* Code without branches whose instructions need to know nothing.
LEMMA FineAll ==
    ASSUME NEW f, NEW c, IsSeq(c),
           \A j \in 1..Len(c) : Steps(f, c[j], Unknown(f), Unknown(f)) /\ ~IsBranch(c[j]) /\ InRegisters(c[j])
    PROVE  Fine(f, c, {}, Unknown(f), Unknown(f))
<1> DEFINE A == [j \in 1..(Len(c) + 1) |-> Unknown(f)]
<1>1. Len(c) \in Nat
  BY SeqFacts
<1>2. A \in [1..(Len(c) + 1) -> SUBSET Unknown(f)]
  OBVIOUS
<1>3. ASSUME NEW j \in 1..Len(c) PROVE Steps(f, c[j], A[j], A[j + 1])
  <2>1. A[j] = Unknown(f) /\ A[j + 1] = Unknown(f)
    BY <1>1
  <2> QED BY <2>1
<1>4. A[1] = Unknown(f) /\ A[Len(c) + 1] = Unknown(f)
  BY <1>1
<1> HIDE DEF A
<1>5. Annotates(f, c, A)
  BY <1>2, <1>3 DEF Annotates
<1>6. Jumps(c, {})
  BY DEF Jumps
<1>7. Typed(f, c, {}, Unknown(f), Unknown(f))
  BY <1>4, <1>5, <1>6 DEF Typed
<1>8. Computes(c)
  BY DEF Computes
<1> QED BY <1>7, <1>8 DEF Fine

\* A word of the frame takes what the register for it holds.
LEMMA SavedWord ==
    ASSUME NEW f \in Nat, NEW k \in 0..(2 * Locals - 1), k < f
    PROVE  LET i == Copy(Mem(FrameWord(k)), Reg(Register(k)))
           IN  Steps(f, i, Unknown(f), Unknown(f)) /\ ~IsBranch(i) /\ InRegisters(i)
<1> DEFINE d == Mem(FrameWord(k))
           s == Reg(Register(k))
           i == Copy(d, s)
<1>1. IsMem(d) /\ d.at = FrameWord(k) /\ IsReg(s) /\ s.at = Register(k)
  BY DEF IsMem, Mem, IsReg, Reg
<1> HIDE DEF d, s
<1>2. FrameWord(k) \in Places(f) /\ Register(k) \in Places(f)
  BY DEF Places
<1>3. Register(k) \notin Temps
  BY DEF Register, Temps, Temp
<1>4. Content(Register(k)) = Content(FrameWord(k)) /\ Content(Register(k)) \subseteq Word
  <2>1. Register(k)[1] = "reg" /\ Register(k)[2] = k /\ FrameWord(k)[1] = "frame" /\ FrameWord(k)[2] = k
    BY DEF Register, FrameWord
  <2>2. Register(k) # Zero /\ FrameWord(k) # Zero
    BY DEF Register, FrameWord, Zero
  <2>0. Zero[1] = "zero" /\ FrameClosure[1] = "closure" /\ Slot0[1] = "slot"
    BY DEF Zero, FrameClosure, Slot0
  <2>3. CASE k % 2 = 1
    <3>1. Content(Register(k)) = Types
      BY <2>0, <2>1, <2>2, <2>3 DEF Content
    <3>2. Content(FrameWord(k)) = Types
      BY <2>0, <2>1, <2>2, <2>3 DEF Content
    <3> QED BY <3>1, <3>2, WordFacts
  <2>4. CASE k % 2 # 1
    <3>1. Content(Register(k)) = Word
      BY <2>0, <2>1, <2>2, <2>4 DEF Content
    <3>2. Content(FrameWord(k)) = Word
      BY <2>0, <2>1, <2>2, <2>4 DEF Content
    <3> QED BY <3>1, <3>2
  <2> QED BY <2>3, <2>4
<1>5. ASSUME NEW v \in Unknown(f) PROVE Write(v, d, Read(v, s)) \in Unknown(f)
  <2>1. Read(v, s) = v[Register(k)] /\ At(v, d) = FrameWord(k)
    BY <1>1, TagFacts
  <2>2. v[Register(k)] \in Content(FrameWord(k)) /\ v[Register(k)] \in Word
    BY <1>2, <1>3, <1>4 DEF Unknown
  <2>3. v[Register(k)] \in Anything(f)
    BY <2>2, PlaceFacts
  <2> QED BY <2>1, <2>2, <2>3, <1>2, WriteFits
<1>6. Steps(f, i, Unknown(f), Unknown(f))
  BY <1>5, CopySteps
<1>7. i.op = "copy"
  BY DEF Copy, Ins
<1> HIDE DEF i
<1>8. ~IsBranch(i) /\ InRegisters(i)
  BY <1>7 DEF IsBranch, BranchOps, InRegisters, Computing
<1> QED BY <1>6, <1>8 DEF i, d, s

LEMMA FineSaveFrame ==
    ASSUME NEW f \in Nat, NEW first \in Nat, NEW n \in Nat, first + n <= Locals
    PROVE  Fine(f, SaveFrameLimit(f, first, n), {}, Unknown(f), Unknown(f))
<1> DEFINE end == IF f < 2 * (first + n) THEN f ELSE 2 * (first + n)
           swap(k) == IF k % 2 = 1 THEN k - 1 ELSE IF k + 1 < end THEN k + 1 ELSE k
           save(k) == Copy(Mem(FrameWord(k)), Reg(Register(k)))
           c == [i \in 1..(end - 2 * first) |-> save(swap(end - i))]
<1>1. SaveFrameLimit(f, first, n) = c
  BY DEF SaveFrameLimit
<1>2. end \in Nat /\ end <= f /\ end <= 2 * Locals
  BY LocalsAssumption
<1>3. ASSUME NEW i \in 1..(end - 2 * first)
      PROVE  swap(end - i) \in 0..(2 * Locals - 1) /\ swap(end - i) < f
  <2> DEFINE k == end - i
  <2> HIDE DEF end
  <2>1. k \in Nat /\ k < end
    BY <1>2
  <2>2. k % 2 = 1 => k # 0
    BY <2>1
  <2> HIDE DEF k
  <2>3. CASE k % 2 = 1
    <3>1. swap(k) = k - 1
      BY <2>3
    <3> QED BY <3>1, <2>1, <2>2, <2>3, <1>2, LocalsAssumption DEF k
  <2>4. CASE k % 2 # 1 /\ k + 1 < end
    <3>1. swap(k) = k + 1
      BY <2>4
    <3> QED BY <3>1, <2>1, <2>4, <1>2, LocalsAssumption DEF k
  <2>5. CASE k % 2 # 1 /\ ~(k + 1 < end)
    <3>1. swap(k) = k
      BY <2>5
    <3> QED BY <3>1, <2>1, <1>2, LocalsAssumption DEF k
  <2> QED BY <2>3, <2>4, <2>5
<1> DEFINE m == IF end - 2 * first < 0 THEN 0 ELSE end - 2 * first
<1>4. m \in Nat /\ 1..m = 1..(end - 2 * first)
  BY <1>2
<1> HIDE DEF end, m, swap, save
<1>5. c \in Seq({save(k) : k \in 0..(2 * Locals - 1)})
  <2>1. c \in [1..m -> {save(k) : k \in 0..(2 * Locals - 1)}]
    BY <1>3, <1>4
  <2> HIDE DEF c
  <2> QED BY <2>1, <1>4, SeqDef
<1>6. Len(c) = m
  <2>1. DOMAIN c = 1..m
    BY <1>4
  <2> HIDE DEF c
  <2>2. Len(c) \in Nat /\ DOMAIN c = 1..Len(c)
    BY <1>5, LenProperties
  <2> QED BY <2>1, <2>2, <1>4
<1>7. IsSeq(c)
  BY <1>5 DEF IsSeq
<1>8. ASSUME NEW j \in 1..Len(c)
      PROVE  Steps(f, c[j], Unknown(f), Unknown(f)) /\ ~IsBranch(c[j]) /\ InRegisters(c[j])
  <2>1. j \in 1..(end - 2 * first)
    BY <1>4, <1>6
  <2>2. c[j] = save(swap(end - j))
    BY <2>1
  <2>3. swap(end - j) \in 0..(2 * Locals - 1) /\ swap(end - j) < f
    BY <1>3, <2>1
  <2> HIDE DEF c
  <2>4. ASSUME NEW k \in 0..(2 * Locals - 1), k < f
        PROVE  Steps(f, save(k), Unknown(f), Unknown(f)) /\ ~IsBranch(save(k)) /\ InRegisters(save(k))
    BY <2>4, SavedWord DEF save
  <2> QED BY <2>2, <2>3, <2>4
<1> HIDE DEF c
<1>9. Fine(f, c, {}, Unknown(f), Unknown(f))
  BY <1>7, <1>8, FineAll
<1> QED BY <1>1, <1>9

\* The items lie in the frame from the local after the table on.
LEMMA FineCallSetList ==
    ASSUME NEW f \in Nat, NEW t, NEW l \in Nat, NEW first \in Int, NEW n \in Nat, l + n <= Locals
    PROVE  Fine(f, CallSetList(t, Reg(Temp(0)), first, n), {}, Has(f, Temp(0), {FrameWord(2 * l)}), Unknown(f))
<1> DEFINE base == Reg(Temp(0))
           i == [op |-> "setlist", table |-> t, base |-> base, first |-> first, n |-> n]
           P == Has(f, Temp(0), {FrameWord(2 * l)})
<1>1. i.op = "setlist" /\ i.base = base /\ i.n = n /\ i.first = first /\ CallSetList(t, base, first, n) = <<i>>
  BY DEF CallSetList
<1>2. IsReg(base) /\ base.at = Temp(0)
  BY TempFacts
<1> HIDE DEF i, base
<1>3. ~IsBranch(i) /\ InRegisters(i)
  BY <1>1 DEF IsBranch, BranchOps, InRegisters, Computing
<1>4. P \subseteq Unknown(f) /\ \A v \in P : v[Temp(0)] = FrameWord(2 * l)
  BY DEF Has
<1> HIDE DEF P
<1>5. ASSUME NEW v \in P, NEW j \in 0..(n - 1) PROVE Item(v, Read(v, base), j) \in Value
  <2>1. Read(v, base) = FrameWord(2 * l)
    BY <1>2, <1>4, TagFacts
  <2>2. FrameWord(2 * l)[1] = "frame" /\ FrameWord(2 * l)[2] = 2 * l
    BY DEF FrameWord
  <2> DEFINE m == l + j
  <2>3. m \in Local /\ m \in Nat
    BY LocalsAssumption DEF Local
  <2>4. 2 * l + 2 * j = 2 * m /\ 2 * l + 2 * j + 1 = 2 * m + 1
    OBVIOUS
  <2>5. <<"frame", 2 * m>> = FrameWord(2 * m) /\ <<"frame", 2 * m + 1>> = FrameWord(2 * m + 1)
    BY DEF FrameWord
  <2> HIDE DEF m
  <2>6. Item(v, Read(v, base), j) = [type |-> v[FrameWord(2 * m + 1)], word |-> v[FrameWord(2 * m)]]
    BY <2>1, <2>2, <2>4, <2>5 DEF Item
  <2>7. FrameWord(2 * m) \in Places(f) \ Temps /\ FrameWord(2 * m + 1) \in Places(f) \ Temps
    BY <2>3, LocalFacts
  <2>8. Content(FrameWord(2 * m)) = Word /\ Content(FrameWord(2 * m + 1)) = Types
    BY <2>3, ContentFacts
  <2>9. v[FrameWord(2 * m)] \in Word /\ v[FrameWord(2 * m + 1)] \in Types
    BY <2>7, <2>8, <1>4 DEF Unknown
  <2> QED BY <2>6, <2>9 DEF Value
<1>6. \A v \in P : Clobber(v) \in Unknown(f)
  BY <1>4, ClobberFits
<1>7. Steps(f, i, P, Unknown(f))
  BY <1>1, <1>5, <1>6 DEF Steps
<1>8. Fine(f, <<i>>, {}, P, Unknown(f))
  BY <1>3, <1>4, <1>7, FineOne
<1> QED BY <1>1, <1>8 DEF P, base

LEMMA FineSetList ==
    ASSUME NEW f \in Nat, NEW t \in Local, NEW n \in Nat \ {0}, t + n \in Local, NEW block \in Nat
    PROVE  Fine(f, EmitSetList(f, t, n, block), {}, Unknown(f), Unknown(f))
<1> DEFINE base == Reg(Temp(0))
           o == StackOperand(f, t + 1).value
           H == Has(f, Temp(0), {FrameWord(2 * (t + 1))})
           a == SaveFrameLimit(f, t + 1, n)
           b == AddressOf(base, o)
           c == CallSetList(LocalOperand(f, t).value, base, (block - 1) * FieldsPerFlush, n)
           U == Unknown(f)
<1>1. t + 1 \in Nat /\ (t + 1) + n <= Locals
  BY LocalsAssumption DEF Local
<1>2. EmitSetList(f, t, n, block) = a \o b \o c
  BY DEF EmitSetList
<1>3. t + 1 \in Local
  BY LocalsAssumption DEF Local
<1>4. Fine(f, a, {}, U, U)
  BY <1>1, FineSaveFrame
<1>5. Fine(f, b, {}, U, H)
  <2>1. IsMem(o) /\ o.at = FrameWord(2 * (t + 1)) /\ FrameWord(2 * (t + 1)) \in Places(f) \ Temps
    BY <1>3, LocalFacts
  <2> HIDE DEF o
  <2> QED BY <2>1, FineAddressOf
<1>6. Fine(f, c, {}, H, U)
  <2>1. (block - 1) * FieldsPerFlush \in Int
    BY FieldsPerFlushAssumption
  <2> QED BY <2>1, <1>1, FineCallSetList
<1> HIDE DEF a, b, c, H, U
<1>7. Fine(f, a \o b, {} \cup {}, U, H)
  BY <1>4, <1>5, FineConcat
<1>8. Fine(f, a \o b \o c, ({} \cup {}) \cup {}, U, U)
  BY <1>6, <1>7, FineConcat
<1> QED BY <1>2, <1>8 DEF U

-----------------------------------------------------------------------------
\* Every instruction of the bytecode

\* The lines of a function: one, or two of a loop, each code that is fine.
Compiled(f, i, c) ==
    /\ \E n \in {1, 2} : DOMAIN c = 1..n /\ (i.kind = "for" => n = 2)
    /\ \A l \in DOMAIN c : Fine(f, c[l], {Line}, Unknown(f), Unknown(f))

LEMMA OneLine ==
    ASSUME NEW f, NEW i, i.kind # "for", NEW c, NEW L \in {{}, {Line}},
           Fine(f, c, L, Unknown(f), Unknown(f))
    PROVE  Compiled(f, i, <<c>>)
<1>1. Fine(f, c, {Line}, Unknown(f), Unknown(f))
  BY FineWeaker
<1>2. DOMAIN <<c>> = 1..1 /\ <<c>>[1] = c
  OBVIOUS
<1>3. \A l \in 1..1 : l = 1
  OBVIOUS
<1> QED BY <1>1, <1>2, <1>3 DEF Compiled

LEMMA TwoLines ==
    ASSUME NEW f, NEW i, NEW c, NEW d,
           Fine(f, c, {Line}, Unknown(f), Unknown(f)), Fine(f, d, {Line}, Unknown(f), Unknown(f))
    PROVE  Compiled(f, i, <<c, d>>)
<1>1. DOMAIN <<c, d>> = 1..2 /\ <<c, d>>[1] = c /\ <<c, d>>[2] = d
  OBVIOUS
<1>2. \A l \in 1..2 : l = 1 \/ l = 2
  OBVIOUS
<1> QED BY <1>1, <1>2 DEF Compiled

LEMMA FineCompile ==
    ASSUME NEW f \in Nat, NEW i \in Instruction
    PROVE  Compiled(f, i, Compile(f, i))
<1>1. CASE i \in {j \in [kind : {"for"}, d : Local] : j.d + 3 \in Local}
  <2>1. i.kind = "for" /\ i.d \in Local /\ i.d + 3 \in Local
    BY <1>1
  <2>2. Compile(f, i) = <<EmitForPrep(f, i.d), EmitForLoop(f, i.d)>>
    BY <2>1 DEF Compile
  <2> QED BY <2>1, <2>2, FineFor, TwoLines
<1>2. CASE i \in [kind : {"arith"}, op : {"add", "sub", "mul", "div", "mod"}, d : Local, s : Source, t : Source]
  <2>1. i.kind = "arith" /\ i.op \in Operations /\ i.d \in Local /\ i.s \in Source /\ i.t \in Source
    BY <1>2 DEF Operations
  <2>2. Compile(f, i) = <<EmitBop(f, i.op, i.d, Operand(f, i.s), Operand(f, i.t))>>
    BY <2>1 DEF Compile
  <2>3. IsOperand(f, Operand(f, i.s)) /\ IsOperand(f, Operand(f, i.t))
    BY <2>1, OperandFacts
  <2>4. Fine(f, EmitBop(f, i.op, i.d, Operand(f, i.s), Operand(f, i.t)), {}, Unknown(f), Unknown(f))
    BY <2>1, <2>3, FineBop
  <2> QED BY <2>1, <2>2, <2>4, OneLine
<1>3. CASE i \in [kind : {"compare"}, rel : {"eq", "lt", "le"}, pred : BOOLEAN, s : Source, t : Source]
  <2>1. i.kind = "compare" /\ i.rel \in {"eq", "lt", "le"} /\ i.pred \in BOOLEAN /\ i.s \in Source /\ i.t \in Source
    BY <1>3
  <2>2. Compile(f, i) = <<EmitRelational(i.rel, i.pred, Operand(f, i.s), Operand(f, i.t))>>
    BY <2>1 DEF Compile
  <2>3. IsOperand(f, Operand(f, i.s)) /\ IsOperand(f, Operand(f, i.t))
    BY <2>1, OperandFacts
  <2>4. Fine(f, EmitRelational(i.rel, i.pred, Operand(f, i.s), Operand(f, i.t)), {Line}, Unknown(f), Unknown(f))
    BY <2>1, <2>3, FineRelational
  <2> QED BY <2>1, <2>2, <2>4, OneLine
<1>4. CASE i \in [kind : {"move"}, d : Local, s : Source]
  <2>1. i.kind = "move" /\ i.d \in Local /\ i.s \in Source
    BY <1>4
  <2>2. Compile(f, i) = <<EmitMove(f, i.d, Operand(f, i.s))>>
    BY <2>1 DEF Compile
  <2>3. IsOperand(f, Operand(f, i.s))
    BY <2>1, OperandFacts
  <2>4. Fine(f, EmitMove(f, i.d, Operand(f, i.s)), {}, Unknown(f), Unknown(f))
    BY <2>1, <2>3, FineEmitMove
  <2> QED BY <2>1, <2>2, <2>4, OneLine
<1>5. CASE i \in [kind : {"getupval"}, d : Local, u : Upval]
  <2>1. i.kind = "getupval" /\ i.d \in Local /\ i.u \in Upval
    BY <1>5
  <2>2. Compile(f, i) = <<EmitGetUpval(f, i.d, i.u)>>
    BY <2>1 DEF Compile
  <2>4. Fine(f, EmitGetUpval(f, i.d, i.u), {}, Unknown(f), Unknown(f))
    BY <2>1, FineEmitGetUpval
  <2> QED BY <2>1, <2>2, <2>4, OneLine
<1>6. CASE i \in [kind : {"setupval"}, s : Source, u : Upval]
  <2>1. i.kind = "setupval" /\ i.s \in Source /\ i.u \in Upval
    BY <1>6
  <2>2. Compile(f, i) = <<EmitSetUpval(f, Operand(f, i.s), i.u)>>
    BY <2>1 DEF Compile
  <2>3. IsOperand(f, Operand(f, i.s))
    BY <2>1, OperandFacts
  <2>4. Fine(f, EmitSetUpval(f, Operand(f, i.s), i.u), {}, Unknown(f), Unknown(f))
    BY <2>1, <2>3, FineEmitSetUpval
  <2> QED BY <2>1, <2>2, <2>4, OneLine
<1>7. CASE i \in [kind : {"gettable"}, d : Local, t : Local, k : Source]
  <2>1. i.kind = "gettable" /\ i.d \in Local
    BY <1>7
  <2>2. Compile(f, i) = <<EmitGetTable(f, i.d, i.t, Operand(f, i.k))>>
    BY <2>1 DEF Compile
  <2>4. Fine(f, EmitGetTable(f, i.d, i.t, Operand(f, i.k)), {}, Unknown(f), Unknown(f))
    BY <2>1, FineDoGetTable DEF EmitGetTable
  <2> QED BY <2>1, <2>2, <2>4, OneLine
<1>8. CASE i \in [kind : {"gettabup"}, d : Local, u : Upval, k : Source]
  <2>1. i.kind = "gettabup" /\ i.d \in Local /\ i.u \in Upval
    BY <1>8
  <2>2. Compile(f, i) = <<EmitGetTabUp(f, i.d, i.u, Operand(f, i.k))>>
    BY <2>1 DEF Compile
  <2>4. Fine(f, EmitGetTabUp(f, i.d, i.u, Operand(f, i.k)), {}, Unknown(f), Unknown(f))
    BY <2>1, FineTabUp
  <2> QED BY <2>1, <2>2, <2>4, OneLine
<1>9. CASE i \in {j \in [kind : {"self"}, d : Local, t : Local, k : Source] : j.d + 1 \in Local}
  <2>1. i.kind = "self" /\ i.d \in Local /\ i.t \in Local /\ i.d + 1 \in Local
    BY <1>9
  <2>2. Compile(f, i) = <<EmitSelf(f, i.d, i.t, Operand(f, i.k))>>
    BY <2>1 DEF Compile
  <2>4. Fine(f, EmitSelf(f, i.d, i.t, Operand(f, i.k)), {}, Unknown(f), Unknown(f))
    BY <2>1, FineSelf
  <2> QED BY <2>1, <2>2, <2>4, OneLine
<1>10. CASE i \in [kind : {"settable"}, t : Local, k : Source, s : Source]
  <2>1. i.kind = "settable" /\ i.s \in Source
    BY <1>10
  <2>2. Compile(f, i) = <<EmitSetTable(f, i.t, Operand(f, i.k), Operand(f, i.s))>>
    BY <2>1 DEF Compile
  <2>3. IsOperand(f, Operand(f, i.s))
    BY <2>1, OperandFacts
  <2>4. Fine(f, EmitSetTable(f, i.t, Operand(f, i.k), Operand(f, i.s)), {}, Unknown(f), Unknown(f))
    BY <2>1, <2>3, FineCallTableSet DEF EmitSetTable
  <2> QED BY <2>1, <2>2, <2>4, OneLine
<1>11. CASE i \in [kind : {"settabup"}, u : Upval, k : Source, s : Source]
  <2>1. i.kind = "settabup" /\ i.u \in Upval /\ i.s \in Source
    BY <1>11
  <2>2. Compile(f, i) = <<EmitSetTabUp(f, i.u, Operand(f, i.k), Operand(f, i.s))>>
    BY <2>1 DEF Compile
  <2>3. IsOperand(f, Operand(f, i.s))
    BY <2>1, OperandFacts
  <2>4. Fine(f, EmitSetTabUp(f, i.u, Operand(f, i.k), Operand(f, i.s)), {}, Unknown(f), Unknown(f))
    BY <2>1, <2>3, FineTabUp
  <2> QED BY <2>1, <2>2, <2>4, OneLine
<1>12. CASE i \in [kind : {"newtable"}, d : Local]
  <2>1. i.kind = "newtable" /\ i.d \in Local
    BY <1>12
  <2>2. Compile(f, i) = <<EmitNewTable(f, i.d)>>
    BY <2>1 DEF Compile
  <2>4. Fine(f, EmitNewTable(f, i.d), {}, Unknown(f), Unknown(f))
    BY <2>1, FineNewTable
  <2> QED BY <2>1, <2>2, <2>4, OneLine
<1>13. CASE i \in {j \in [kind : {"setlist"}, t : Local, n : Nat \ {0}, block : Nat \ {0}] : j.t + j.n \in Local}
  <2>1. i.kind = "setlist" /\ i.t \in Local /\ i.n \in Nat \ {0} /\ i.block \in Nat /\ i.t + i.n \in Local
    BY <1>13
  <2>2. Compile(f, i) = <<EmitSetList(f, i.t, i.n, i.block)>>
    BY <2>1 DEF Compile
  <2>4. Fine(f, EmitSetList(f, i.t, i.n, i.block), {}, Unknown(f), Unknown(f))
    BY <2>1, FineSetList
  <2> QED BY <2>1, <2>2, <2>4, OneLine
<1> QED BY <1>1, <1>2, <1>3, <1>4, <1>5, <1>6, <1>7, <1>8, <1>9, <1>10, <1>11, <1>12, <1>13 DEF Instruction

-----------------------------------------------------------------------------
\* Running the code

\* The label that a branch finds is a later one, and there is one to find.
LEMMA PlaceFound ==
    ASSUME NEW c, NEW n \in Nat, Len(c) = n, NEW j \in Nat, NEW l,
           NEW k \in (j + 1)..n, c[k] = Label(l)
    PROVE  Place(c, j, l) \in (j + 1)..n /\ c[Place(c, j, l)] = Label(l)
<1> DEFINE T == {m \in (j + 1)..n : c[m] = Label(l)}
<1>1. T \subseteq Nat /\ T # {}
  OBVIOUS
<1>2. PICK m \in T : \A q \in T : ~(<<q, m>> \in OpToRel(<, Nat))
  <2>1. IsWellFoundedOn(OpToRel(<, Nat), Nat)
    BY NatLessThanWellFounded
  <2> HIDE DEF T
  <2> QED BY <1>1, <2>1, WFMin
<1>3. \A q \in T : ~(q < m)
  BY <1>1, <1>2 DEF OpToRel
<1>4. /\ m \in (j + 1)..n
      /\ c[m] = Label(l)
      /\ \A q \in (j + 1)..(m - 1) : c[q] # Label(l)
  BY <1>3
<1>5. \E p \in (j + 1)..Len(c) : /\ c[p] = Label(l)
                                 /\ \A q \in (j + 1)..(p - 1) : c[q] # Label(l)
  BY <1>4
<1> QED BY <1>5 DEF Place

\* What the contents are known to be before an instruction of the code.
Known(f, c, j, v) == j <= Len(c) => \E A : Annotates(f, c, A) /\ v \in A[j]

\* A line of a function that was not refused.
Runs(f, c) == IsSeq(c) /\ Jumps(c, {Line}) /\ ~Refused(c)

LEMMA Starting ==
    ASSUME NEW f, NEW c, Fine(f, c, {Line}, Unknown(f), Unknown(f)), ~Refused(c), NEW v \in Unknown(f)
    PROVE  Runs(f, c) /\ Known(f, c, 1, v)
<1>1. IsSeq(c) /\ Typed(f, c, {Line}, Unknown(f), Unknown(f))
  BY DEF Fine
<1>2. PICK A : Annotates(f, c, A) /\ Unknown(f) \subseteq A[1]
  BY <1>1 DEF Typed
<1> QED BY <1>1, <1>2 DEF Runs, Typed, Known

\* The next instruction, from what is known before it to what is known after it.
Advance(f, c, j, v, Q) ==
    /\ Q \subseteq Unknown(f)
    /\ \A w \in Q : Known(f, c, j + 1, w)
    /\ \E P : v \in P /\ P \subseteq Unknown(f) /\ Steps(f, c[j], P, Q)

LEMMA Advances ==
    ASSUME NEW f, NEW c, Runs(f, c), NEW j \in 1..Len(c), NEW v, Known(f, c, j, v)
    PROVE  \E Q : Advance(f, c, j, v, Q)
<1>1. Len(c) \in Nat
  BY SeqFacts DEF Runs
<1>2. PICK A : Annotates(f, c, A) /\ v \in A[j]
  BY <1>1 DEF Known
<1>3. A[j] \subseteq Unknown(f) /\ A[j + 1] \subseteq Unknown(f) /\ Steps(f, c[j], A[j], A[j + 1])
  <2>1. j \in 1..(Len(c) + 1) /\ j + 1 \in 1..(Len(c) + 1)
    BY <1>1
  <2> QED BY <2>1, <1>2 DEF Annotates
<1>4. \A w \in A[j + 1] : Known(f, c, j + 1, w)
  BY <1>2 DEF Known
<1> QED BY <1>2, <1>3, <1>4 DEF Advance

\* What an instruction does, by its kind.
LEMMA StepsByKind ==
    ASSUME NEW f, NEW i, NEW P, NEW Q, Steps(f, i, P, Q), NEW v \in P
    PROVE  /\ i.op \notin BranchOps \cup {"label"} \cup Calls => Effects(v, i) \subseteq Q
           /\ i.op \in PlainOps => Effects(v, i) \subseteq Q
           /\ i.op = "label" => P = Unknown(f) /\ v \in Q
           /\ IsBranch(i) => v \in Q
           /\ i.op = "bop" => /\ i.bop \in Operations
                              /\ Read(v, i.s.value) \in Word /\ Read(v, i.t.value) \in Word
                              /\ \A w \in Word : Write(Write(Clobber(v), i.home, Number), i.to, w) \in Q
           /\ i.op = "relational" => \A b \in {0, 1} : Write(Clobber(v), i.to, b) \in Q
           /\ i.op = "tableget" => \A x \in Value :
                    Write([Clobber(v) EXCEPT ![Read(v, i.home)] = x.type], i.to, x.word) \in Q
           /\ i.op = "tableset" => Argument(v, i.s) \in Value /\ Clobber(v) \in Q
           /\ i.op = "create" => \A t \in Addresses : Write(Clobber(v), i.to, t) \in Q
           /\ i.op = "setlist" => /\ i.first \in Int
                                  /\ Clobber(v) \in Q
                                  /\ \A j \in 0..(i.n - 1) : Item(v, Read(v, i.base), j) \in Value
<1>1. i.op \notin BranchOps \cup {"label"} \cup Calls => Effects(v, i) \subseteq Q
  BY DEF Steps, IsBranch, Calls
<1>2. i.op \in PlainOps => Effects(v, i) \subseteq Q
  BY DEF Steps, PlainOps, Computing, IsBranch, BranchOps
<1>3. i.op = "label" => P = Unknown(f) /\ v \in Q
  BY DEF Steps, PlainOps, Computing, IsBranch, BranchOps
<1>4. IsBranch(i) => v \in Q
  BY DEF Steps, PlainOps, Computing, IsBranch, BranchOps
<1>5. i.op = "bop" => /\ i.bop \in Operations
                      /\ Read(v, i.s.value) \in Word /\ Read(v, i.t.value) \in Word
                      /\ \A w \in Word : Write(Write(Clobber(v), i.home, Number), i.to, w) \in Q
  BY DEF Steps, PlainOps, Computing, IsBranch, BranchOps
<1>6. i.op = "relational" => \A b \in {0, 1} : Write(Clobber(v), i.to, b) \in Q
  BY DEF Steps, PlainOps, Computing, IsBranch, BranchOps
<1>7. i.op = "tableget" => \A x \in Value :
            Write([Clobber(v) EXCEPT ![Read(v, i.home)] = x.type], i.to, x.word) \in Q
  BY DEF Steps, PlainOps, Computing, IsBranch, BranchOps
<1>8. i.op = "tableset" => Argument(v, i.s) \in Value /\ Clobber(v) \in Q
  BY DEF Steps, PlainOps, Computing, IsBranch, BranchOps
<1>9. i.op = "create" => \A t \in Addresses : Write(Clobber(v), i.to, t) \in Q
  BY DEF Steps, PlainOps, Computing, IsBranch, BranchOps
<1>10. i.op = "setlist" => /\ i.first \in Int
                           /\ Clobber(v) \in Q
                           /\ \A j \in 0..(i.n - 1) : Item(v, Read(v, i.base), j) \in Value
  BY DEF Steps, PlainOps, Computing, IsBranch, BranchOps
<1> QED BY <1>1, <1>2, <1>3, <1>4, <1>5, <1>6, <1>7, <1>8, <1>9, <1>10

-----------------------------------------------------------------------------
\* The invariant: the text is the code of the function, and there is an
\* annotation of the line that is run in which the contents of the machine are
\* among those known where control is.
HeapTyped(h) ==
    /\ DOMAIN h \subseteq Addresses
    /\ \A t \in DOMAIN h : \A k \in DOMAIN h[t] : h[t][k] \in Value

TextInv ==
    /\ ins \in Program
    /\ spare \in SpareRegs
    /\ text = Compile(spare, ins)
    /\ line \in DOMAIN text

ContentsInv ==
    /\ val \in Unknown(spare)
    /\ HeapTyped(heap)
    /\ state.local \in [Local -> Value]
    /\ state.up \in [Upval -> Value]

ControlInv ==
    /\ at \in 1..(Len(code) + 1)
    /\ jumped \in BOOLEAN
    /\ status \in {"compiling", "running"} \cup Finished
    /\ status = "compiling" => at = 1
    /\ status = "running" => /\ \A l \in DOMAIN text : ~Refused(text[l])
                             /\ Known(spare, code, at, val)

IInv == TextInv /\ ContentsInv /\ ControlInv

\* Every line of the text is fine.
LEMMA TextFacts ==
    ASSUME TextInv
    PROVE  /\ spare \in Nat /\ ins \in Instruction
           /\ \A l \in DOMAIN text : Fine(spare, text[l], {Line}, Unknown(spare), Unknown(spare))
           /\ 1 \in DOMAIN text
           /\ ins.kind = "for" => 2 \in DOMAIN text
<1>1. spare \in Nat /\ ins \in Instruction
  BY SpareRegsAssumption, ProgramAssumption DEF TextInv
<1>2. Compiled(spare, ins, text)
  BY <1>1, FineCompile DEF TextInv
<1>3. PICK n \in {1, 2} : DOMAIN text = 1..n /\ (ins.kind = "for" => n = 2)
  BY <1>2 DEF Compiled
<1>4. 1 \in DOMAIN text /\ (ins.kind = "for" => 2 \in DOMAIN text)
  BY <1>3
<1> QED BY <1>1, <1>2, <1>4 DEF Compiled

LEMMA CodeFacts ==
    ASSUME IInv
    PROVE  /\ IsSeq(code) /\ Computes(code) /\ Len(code) \in Nat /\ DOMAIN code = 1..Len(code)
           /\ status = "running" => Runs(spare, code)
<1>1. line \in DOMAIN text /\ Fine(spare, code, {Line}, Unknown(spare), Unknown(spare))
  BY TextFacts DEF IInv, TextInv, code
<1>2. IsSeq(code) /\ Computes(code)
  BY <1>1 DEF Fine
<1>3. Len(code) \in Nat /\ DOMAIN code = 1..Len(code)
  BY <1>2, SeqFacts
<1>4. ASSUME status = "running" PROVE Runs(spare, code)
  <2>1. ~Refused(code)
    BY <1>1, <1>4 DEF IInv, ControlInv, code
  <2>2. Jumps(code, {Line})
    BY <1>1, <2>1 DEF Fine, Typed
  <2> QED BY <2>1, <2>2, <1>2 DEF Runs
<1> QED BY <1>2, <1>3, <1>4

\* What is known before the instruction that control is at.
LEMMA Advancing ==
    ASSUME IInv, Running
    PROVE  at \in 1..Len(code) /\ \E Q : Advance(spare, code, at, val, Q)
<1>1. Runs(spare, code) /\ Len(code) \in Nat
  BY CodeFacts DEF Running
<1>2. at \in 1..Len(code)
  BY <1>1 DEF IInv, ControlInv, Running
<1>3. Known(spare, code, at, val)
  BY DEF IInv, ControlInv, Running
<1> QED BY <1>1, <1>2, <1>3, Advances

\* Control goes on, or the function fails.
LEMMA GoesTo ==
    ASSUME IInv, Running, NEW n \in 1..(Len(code) + 1), Goto(n),
           val' \in Unknown(spare), Known(spare, code, n, val'), HeapTyped(heap')
    PROVE  IInv'
<1>1. /\ UNCHANGED <<ins, spare, text, line, state, jumped, status>>
      /\ code' = code /\ at' = n
  BY DEF Goto, code
<1>2. TextInv'
  BY <1>1 DEF IInv, TextInv
<1>3. ContentsInv'
  BY <1>1 DEF IInv, ContentsInv
<1>4. ControlInv'
  BY <1>1 DEF IInv, ControlInv, Running
<1> QED BY <1>2, <1>3, <1>4 DEF IInv

LEMMA GoesOn ==
    ASSUME IInv, Running, NEW Q, Advance(spare, code, at, val, Q), val' \in Q, Goto(at + 1), HeapTyped(heap')
    PROVE  IInv'
<1>1. at + 1 \in 1..(Len(code) + 1)
  BY Advancing, CodeFacts
<1>2. val' \in Unknown(spare) /\ Known(spare, code, at + 1, val')
  BY DEF Advance
<1> QED BY <1>1, <1>2, GoesTo

LEMMA Stopping ==
    ASSUME IInv, NEW s \in {"error", "astray"}, Stop(s)
    PROVE  IInv'
<1>1. UNCHANGED <<ins, spare, text, line, at, val, heap, state, jumped>> /\ status' = s /\ code' = code
  BY DEF Stop, code
<1>2. TextInv' /\ ContentsInv'
  BY <1>1 DEF IInv, TextInv, ContentsInv
<1>3. ControlInv'
  BY <1>1 DEF IInv, ControlInv, Finished
<1> QED BY <1>2, <1>3 DEF IInv

-----------------------------------------------------------------------------
\* The actions

LEMMA EnterKeeps ==
    ASSUME IInv, Enter
    PROVE  IInv'
<1>1. UNCHANGED <<ins, spare, text, line, at, val, heap, state, jumped>> /\ code' = code
  BY DEF Enter, code
<1>2. TextInv' /\ ContentsInv'
  BY <1>1 DEF IInv, TextInv, ContentsInv
<1>3. CASE \E l \in DOMAIN text : Refused(text[l])
  <2>1. status' = "aborted"
    BY <1>3 DEF Enter
  <2>2. ControlInv'
    BY <1>1, <2>1 DEF IInv, ControlInv, Finished
  <2> QED BY <1>2, <2>2 DEF IInv
<1>4. CASE \A l \in DOMAIN text : ~Refused(text[l])
  <2>1. status' = "running" /\ at = 1
    BY <1>4 DEF Enter, IInv, ControlInv
  <2>2. line \in DOMAIN text /\ Fine(spare, code, {Line}, Unknown(spare), Unknown(spare)) /\ ~Refused(code)
    BY <1>4, TextFacts DEF IInv, TextInv, code
  <2>3. val \in Unknown(spare)
    BY DEF IInv, ContentsInv
  <2>4. Known(spare, code, 1, val)
    BY <2>2, <2>3, Starting
  <2>5. Known(spare, code, at, val)'
    BY <1>1, <2>1, <2>4
  <2>6. ControlInv'
    BY <1>1, <1>4, <2>1, <2>5 DEF IInv, ControlInv
  <2> QED BY <1>2, <2>6 DEF IInv
<1> QED BY <1>3, <1>4

LEMMA PlainKeeps ==
    ASSUME IInv, Plain
    PROVE  IInv'
<1>1. Running /\ val' \in Effects(val, code[at]) /\ Goto(at + 1) /\ HeapTyped(heap')
  BY DEF Plain, IInv, ContentsInv
<1>2. PICK Q : Advance(spare, code, at, val, Q)
  BY <1>1, Advancing
<1>3. PICK P : val \in P /\ Steps(spare, code[at], P, Q)
  BY <1>2 DEF Advance
<1>4. code[at].op \notin BranchOps \cup {"label"} \cup Calls
  BY DEF Plain
<1>5. Effects(val, code[at]) \subseteq Q
  BY <1>3, <1>4, StepsByKind
<1> QED BY <1>1, <1>2, <1>5, GoesOn

LEMMA LabelledKeeps ==
    ASSUME IInv, Labelled
    PROVE  IInv'
<1>1. Running /\ val' = val /\ Goto(at + 1) /\ HeapTyped(heap') /\ code[at].op = "label"
  BY DEF Labelled, IInv, ContentsInv
<1>2. PICK Q : Advance(spare, code, at, val, Q)
  BY <1>1, Advancing
<1>3. PICK P : val \in P /\ Steps(spare, code[at], P, Q)
  BY <1>2 DEF Advance
<1>4. val \in Q
  BY <1>1, <1>3, StepsByKind
<1> QED BY <1>1, <1>2, <1>4, GoesOn

\* Nothing need be known at a label, so that control may come from anywhere.
LEMMA AtLabel ==
    ASSUME NEW f, NEW c, NEW A, Annotates(f, c, A), NEW k \in 1..Len(c), c[k].op = "label",
           NEW v \in Unknown(f)
    PROVE  Known(f, c, k, v)
<1>1. Steps(f, c[k], A[k], A[k + 1])
  BY DEF Annotates
<1>2. A[k] = Unknown(f)
  BY <1>1 DEF Steps, PlainOps, Computing, IsBranch, BranchOps
<1> QED BY <1>2 DEF Known

\* The delay slot is reached with what is known at the branch.
LEMMA DelaySlot ==
    ASSUME IInv, Running, IsBranch(code[at])
    PROVE  /\ at + 1 \in 1..Len(code) /\ code[at + 1].op \in PlainOps
           /\ code[at].to = Line \/ \E k \in (at + 1)..Len(code) : code[k] = Label(code[at].to)
           /\ \E A : /\ Annotates(spare, code, A)
                     /\ Effects(val, code[at + 1]) \subseteq A[at + 2] /\ A[at + 2] \subseteq Unknown(spare)
<1>1. at \in 1..Len(code) /\ Len(code) \in Nat /\ Runs(spare, code)
  BY Advancing, CodeFacts DEF Running
<1>2. /\ at < Len(code) /\ code[at + 1].op \in PlainOps
      /\ code[at].to \in {Line} \/ \E k \in (at + 1)..Len(code) : code[k] = Label(code[at].to)
  BY <1>1 DEF Runs, Jumps
<1>3. PICK A : Annotates(spare, code, A) /\ val \in A[at]
  BY <1>1 DEF IInv, ControlInv, Running, Known
<1>4. at + 1 \in 1..Len(code) /\ (at + 1) + 1 = at + 2 /\ at + 2 \in 1..(Len(code) + 1)
  BY <1>1, <1>2
<1>5. Steps(spare, code[at], A[at], A[at + 1]) /\ Steps(spare, code[at + 1], A[at + 1], A[at + 2])
  <2>1. \A j \in 1..Len(code) : Steps(spare, code[j], A[j], A[j + 1])
    BY <1>3 DEF Annotates
  <2>2. Steps(spare, code[at + 1], A[at + 1], A[(at + 1) + 1])
    BY <2>1, <1>4
  <2> QED BY <2>1, <2>2, <1>1, <1>4
<1>6. val \in A[at + 1]
  BY <1>3, <1>5, StepsByKind
<1>7. Effects(val, code[at + 1]) \subseteq A[at + 2]
  BY <1>2, <1>5, <1>6, StepsByKind
<1>8. A[at + 2] \subseteq Unknown(spare)
  BY <1>3, <1>4 DEF Annotates
<1> QED BY <1>2, <1>3, <1>4, <1>7, <1>8

LEMMA BranchesKeeps ==
    ASSUME IInv, Branches
    PROVE  IInv'
<1> DEFINE i == code[at]
           taken == Holds(i.op, Read(val, i.s), Read(val, i.t))
<1>1. Running /\ IsBranch(code[at]) /\ val' \in Effects(val, code[at + 1]) /\ UNCHANGED heap
  BY DEF Branches
<1>2. IF taken /\ i.to = Line
      THEN /\ at' = Len(code) + 1
           /\ jumped' = TRUE
           /\ UNCHANGED <<ins, spare, text, line, state, status>>
      ELSE Goto(IF taken THEN Place(code, at, i.to) ELSE at + 2)
  BY DEF Branches
<1>3. HeapTyped(heap')
  BY <1>1 DEF IInv, ContentsInv
<1>4. at \in 1..Len(code) /\ Len(code) \in Nat /\ at + 1 \in 1..Len(code)
  BY <1>1, Advancing, CodeFacts, DelaySlot
<1>5. PICK A : /\ Annotates(spare, code, A)
               /\ Effects(val, code[at + 1]) \subseteq A[at + 2] /\ A[at + 2] \subseteq Unknown(spare)
  BY <1>1, DelaySlot
<1>6. val' \in Unknown(spare) /\ val' \in A[at + 2]
  BY <1>1, <1>5
<1>7. CASE taken /\ i.to = Line
  <2>1. /\ UNCHANGED <<ins, spare, text, line, state, status, heap>> /\ code' = code
        /\ at' = Len(code) + 1 /\ jumped' = TRUE
    BY <1>1, <1>2, <1>7 DEF code
  <2>2. TextInv' /\ ContentsInv'
    BY <2>1, <1>6 DEF IInv, TextInv, ContentsInv
  <2>3. Known(spare, code, at, val)'
    BY <2>1, <1>4 DEF Known
  <2>4. at' \in 1..(Len(code') + 1) /\ status' = "running" /\ status = "running"
    BY <2>1, <1>1, <1>4 DEF Running
  <2>5. ControlInv'
    BY <2>1, <2>3, <2>4 DEF IInv, ControlInv
  <2> QED BY <2>2, <2>5 DEF IInv
<1>8. CASE taken /\ i.to # Line
  <2>1. PICK k \in (at + 1)..Len(code) : code[k] = Label(i.to)
    BY <1>1, <1>8, DelaySlot
  <2> DEFINE p == Place(code, at, i.to)
  <2>2. p \in (at + 1)..Len(code) /\ code[p] = Label(i.to)
    <3>1. at \in Nat
      BY <1>4
    <3> QED BY <3>1, <2>1, <1>4, PlaceFound
  <2>3. Goto(p)
    BY <1>2, <1>8
  <2> HIDE DEF p
  <2>4. p \in 1..Len(code) /\ code[p].op = "label"
    BY <2>2, <1>4 DEF Label
  <2>5. Known(spare, code, p, val')
    BY <2>4, <1>5, <1>6, AtLabel
  <2>6. p \in 1..(Len(code) + 1)
    BY <2>4, <1>4
  <2> QED BY <1>1, <1>3, <1>6, <2>3, <2>5, <2>6, GoesTo
<1>9. CASE ~taken
  <2>1. Goto(at + 2)
    BY <1>2, <1>9
  <2>2. at + 2 \in 1..(Len(code) + 1) /\ Known(spare, code, at + 2, val')
    BY <1>4, <1>5, <1>6 DEF Known
  <2> QED BY <1>1, <1>3, <1>6, <2>1, <2>2, GoesTo
<1> QED BY <1>7, <1>8, <1>9

-----------------------------------------------------------------------------
\* C functions keep the heap typed, and return values.

LEMMA StoreTyped ==
    ASSUME NEW h, HeapTyped(h), NEW t \in DOMAIN h, NEW k, NEW x \in Value
    PROVE  HeapTyped(Store(h, t, k, x))
<1> DEFINE s == Store(h, t, k, x)
           table == [key \in DOMAIN h[t] \cup {k} |-> IF key = k THEN x ELSE h[t][key]]
<1>1. s = [h EXCEPT ![t] = table]
  BY DEF Store
<1>2. \A key \in DOMAIN table : table[key] \in Value
  BY DEF HeapTyped
<1> HIDE DEF s, table
<1>3. DOMAIN s = DOMAIN h /\ \A a \in DOMAIN h : s[a] = IF a = t THEN table ELSE h[a]
  BY <1>1
<1> QED BY <1>2, <1>3 DEF HeapTyped, s

LEMMA StoreListTyped ==
    ASSUME NEW h, HeapTyped(h), NEW t \in DOMAIN h, NEW v, NEW base, NEW first \in Int, NEW n,
           \A j \in 0..(n - 1) : Item(v, base, j) \in Value
    PROVE  HeapTyped(StoreList(h, t, v, base, first, n))
<1> DEFINE s == StoreList(h, t, v, base, first, n)
           set == {[type |-> Number, word |-> first + 1 + i] : i \in 0..(n - 1)}
           table == [key \in set \cup DOMAIN h[t] |->
                        IF key \in set THEN Item(v, base, key.word - first - 1) ELSE h[t][key]]
<1>1. s = [h EXCEPT ![t] = table]
  BY DEF StoreList
<1>2. ASSUME NEW key \in set PROVE Item(v, base, key.word - first - 1) \in Value
  <2>1. PICK i \in 0..(n - 1) : key = [type |-> Number, word |-> first + 1 + i]
    OBVIOUS
  <2>2. key.word - first - 1 = i
    BY <2>1
  <2> QED BY <2>1, <2>2
<1> HIDE DEF set
<1>3. \A key \in DOMAIN table : table[key] \in Value
  BY <1>2 DEF HeapTyped
<1> HIDE DEF s, table
<1>4. DOMAIN s = DOMAIN h /\ \A a \in DOMAIN h : s[a] = IF a = t THEN table ELSE h[a]
  BY <1>1
<1> QED BY <1>3, <1>4 DEF HeapTyped, s

LEMMA LookupTyped ==
    ASSUME HeapTyped(heap), NEW t \in DOMAIN heap, NEW k
    PROVE  Lookup(t, k) \in Value
<1>1. Nil \in Types /\ 0 \in Word
  BY WordFacts DEF Types
<1>2. [type |-> Nil, word |-> 0] \in Value
  BY <1>1 DEF Value
<1> QED BY <1>2 DEF Lookup, HeapTyped

LEMMA ClobberedIs == Clobbered = Clobber(val)
BY DEF Clobbered, Clobber

\* A call of a C function that returns to the next instruction.
LEMMA Returning ==
    ASSUME IInv, Running, NEW Q, Advance(spare, code, at, val, Q), NEW v \in Q, Returned(v), HeapTyped(heap')
    PROVE  IInv'
<1>1. val' = v /\ Goto(at + 1)
  BY DEF Returned
<1> QED BY <1>1, GoesOn

LEMMA CallsBopKeeps ==
    ASSUME IInv, CallsBop
    PROVE  IInv'
<1> DEFINE i == code[at]
           x == Argument(val, i.s)
           y == Argument(val, i.t)
<1>1. Running /\ i.op = "bop"
  BY DEF CallsBop, Called
<1>2. PICK Q : Advance(spare, code, at, val, Q)
  BY <1>1, Advancing
<1>3. PICK P : val \in P /\ Steps(spare, i, P, Q)
  BY <1>2 DEF Advance
<1>4. /\ i.bop \in Operations
      /\ Read(val, i.s.value) \in Word /\ Read(val, i.t.value) \in Word
      /\ \A w \in Word : Write(Write(Clobbered, i.home, Number), i.to, w) \in Q
  BY <1>1, <1>3, StepsByKind, ClobberedIs
<1>5. CASE BopAllowed(x, y)
  <2>1. PICK w \in BopResults(i.bop, x, y) :
            Returned(Write(Write(Clobbered, i.home, Number), i.to, w)) /\ UNCHANGED heap
    BY <1>5 DEF CallsBop
  <2>2. BopResults(i.bop, x, y) = Results(i.bop, Read(val, i.s.value), Read(val, i.t.value))
    BY DEF BopResults, Argument
  <2>3. i.bop \in Computing \cup {"copy"} /\ i.bop \notin {"sll", "sra"}
    BY <1>4 DEF Operations, Computing
  <2>4. w \in Word
    BY <2>1, <2>2, <2>3, <1>4, ResultsAreWords
  <2>5. HeapTyped(heap')
    BY <2>1 DEF IInv, ContentsInv
  <2> QED BY <2>1, <2>4, <2>5, <1>1, <1>2, <1>4, Returning
<1>6. CASE ~BopAllowed(x, y)
  <2>1. Stop("error")
    BY <1>6 DEF CallsBop, Fail
  <2> QED BY <2>1, Stopping
<1> QED BY <1>5, <1>6

LEMMA CallsRelationalKeeps ==
    ASSUME IInv, CallsRelational
    PROVE  IInv'
<1> DEFINE i == code[at]
           x == Argument(val, i.s)
           y == Argument(val, i.t)
           b == IF RelationalResult(i.rel, x, y) THEN 1 ELSE 0
<1>1. Running /\ i.op = "relational"
  BY DEF CallsRelational, Called
<1>2. PICK Q : Advance(spare, code, at, val, Q)
  BY <1>1, Advancing
<1>3. PICK P : val \in P /\ Steps(spare, i, P, Q)
  BY <1>2 DEF Advance
<1>4. Write(Clobbered, i.to, b) \in Q
  <2>1. b \in {0, 1}
    OBVIOUS
  <2> HIDE DEF b
  <2> QED BY <2>1, <1>1, <1>3, StepsByKind, ClobberedIs
<1>5. CASE RelationalAllowed(i.rel, x, y)
  <2>1. Returned(Write(Clobbered, i.to, b)) /\ UNCHANGED heap
    BY <1>5 DEF CallsRelational
  <2>2. HeapTyped(heap')
    BY <2>1 DEF IInv, ContentsInv
  <2> QED BY <2>1, <2>2, <1>1, <1>2, <1>4, Returning
<1>6. CASE ~RelationalAllowed(i.rel, x, y)
  <2>1. Stop("error")
    BY <1>6 DEF CallsRelational, Fail
  <2> QED BY <2>1, Stopping
<1> QED BY <1>5, <1>6

LEMMA CallsTableGetKeeps ==
    ASSUME IInv, CallsTableGet
    PROVE  IInv'
<1> DEFINE i == code[at]
           t == Argument(val, i.table)
           x == Lookup(t.word, Argument(val, i.key))
           v == Write([Clobbered EXCEPT ![Read(val, i.home)] = x.type], i.to, x.word)
<1>1. Running /\ i.op = "tableget"
  BY DEF CallsTableGet, Called
<1>2. PICK Q : Advance(spare, code, at, val, Q)
  BY <1>1, Advancing
<1>3. PICK P : val \in P /\ Steps(spare, i, P, Q)
  BY <1>2 DEF Advance
<1>4. HeapTyped(heap)
  BY DEF IInv, ContentsInv
<1>5. CASE t.type = Table /\ t.word \in DOMAIN heap
  <2>1. Returned(v) /\ UNCHANGED heap
    BY <1>5 DEF CallsTableGet
  <2>2. x \in Value
    BY <1>4, <1>5, LookupTyped
  <2> HIDE DEF x
  <2>3. v \in Q
    BY <2>2, <1>1, <1>3, StepsByKind, ClobberedIs
  <2> HIDE DEF v
  <2>4. HeapTyped(heap')
    BY <2>1, <1>4
  <2> QED BY <2>1, <2>3, <2>4, <1>1, <1>2, Returning
<1>6. CASE ~(t.type = Table /\ t.word \in DOMAIN heap)
  <2>1. Stop("error")
    BY <1>6 DEF CallsTableGet, Fail
  <2> QED BY <2>1, Stopping
<1> QED BY <1>5, <1>6

LEMMA CallsTableSetKeeps ==
    ASSUME IInv, CallsTableSet
    PROVE  IInv'
<1> DEFINE i == code[at]
           t == Read(val, i.table)
<1>1. Running /\ i.op = "tableset"
  BY DEF CallsTableSet, Called
<1>2. PICK Q : Advance(spare, code, at, val, Q)
  BY <1>1, Advancing
<1>3. PICK P : val \in P /\ Steps(spare, i, P, Q)
  BY <1>2 DEF Advance
<1>4. Argument(val, i.s) \in Value /\ Clobbered \in Q
  BY <1>1, <1>3, StepsByKind, ClobberedIs
<1>5. CASE t \in DOMAIN heap
  <2>1. heap' = Store(heap, t, Argument(val, i.key), Argument(val, i.s)) /\ Returned(Clobbered)
    BY <1>5 DEF CallsTableSet
  <2>2. HeapTyped(heap')
    BY <2>1, <1>4, <1>5, StoreTyped DEF IInv, ContentsInv
  <2> QED BY <2>1, <2>2, <1>1, <1>2, <1>4, Returning
<1>6. CASE t \notin DOMAIN heap
  <2>1. Stop("astray")
    BY <1>6 DEF CallsTableSet
  <2> QED BY <2>1, Stopping
<1> QED BY <1>5, <1>6

LEMMA CallsCreateKeeps ==
    ASSUME IInv, CallsCreate
    PROVE  IInv'
<1> DEFINE i == code[at]
<1>1. Running /\ i.op = "create"
  BY DEF CallsCreate, Called
<1>2. PICK Q : Advance(spare, code, at, val, Q)
  BY <1>1, Advancing
<1>3. PICK P : val \in P /\ Steps(spare, i, P, Q)
  BY <1>2 DEF Advance
<1>4. PICK t \in Addresses \ DOMAIN heap :
            /\ heap' = [a \in DOMAIN heap \cup {t} |-> IF a = t THEN [k \in {} |-> 0] ELSE heap[a]]
            /\ Returned(Write(Clobbered, i.to, t))
  BY DEF CallsCreate
<1>5. Write(Clobbered, i.to, t) \in Q
  BY <1>1, <1>3, StepsByKind, ClobberedIs
<1>6. HeapTyped(heap')
  <2>1. HeapTyped(heap)
    BY DEF IInv, ContentsInv
  <2>2. DOMAIN [k \in {} |-> 0] = {}
    OBVIOUS
  <2> DEFINE empty == [k \in {} |-> 0]
  <2> HIDE DEF empty
  <2>3. heap' = [a \in DOMAIN heap \cup {t} |-> IF a = t THEN empty ELSE heap[a]] /\ DOMAIN empty = {}
    BY <1>4, <2>2 DEF empty
  <2> QED BY <2>1, <2>3 DEF HeapTyped
<1> QED BY <1>1, <1>2, <1>4, <1>5, <1>6, Returning

LEMMA CallsSetListKeeps ==
    ASSUME IInv, CallsSetList
    PROVE  IInv'
<1> DEFINE i == code[at]
           t == Read(val, i.table)
<1>1. Running /\ i.op = "setlist"
  BY DEF CallsSetList, Called
<1>2. PICK Q : Advance(spare, code, at, val, Q)
  BY <1>1, Advancing
<1>3. PICK P : val \in P /\ Steps(spare, i, P, Q)
  BY <1>2 DEF Advance
<1>4. /\ i.first \in Int /\ Clobbered \in Q
      /\ \A j \in 0..(i.n - 1) : Item(val, Read(val, i.base), j) \in Value
  BY <1>1, <1>3, StepsByKind, ClobberedIs
<1>5. CASE t \in DOMAIN heap
  <2>1. heap' = StoreList(heap, t, val, Read(val, i.base), i.first, i.n) /\ Returned(Clobbered)
    BY <1>5 DEF CallsSetList
  <2>2. HeapTyped(heap')
    BY <2>1, <1>4, <1>5, StoreListTyped DEF IInv, ContentsInv
  <2> QED BY <2>1, <2>2, <1>1, <1>2, <1>4, Returning
<1>6. CASE t \notin DOMAIN heap
  <2>1. Stop("astray")
    BY <1>6 DEF CallsSetList
  <2> QED BY <2>1, Stopping
<1> QED BY <1>5, <1>6

\* What locals and upvalues are, wherever they are.
LEMMA VariablesTyped ==
    ASSUME spare \in Nat, NEW v \in Unknown(spare)
    PROVE  LocalsOf(v) \in [Local -> Value] /\ UpvalsOf(v) \in [Upval -> Value]
<1>1. ASSUME NEW l \in Local PROVE Argument(v, LocalOperand(spare, l)) \in Value
  <2> DEFINE o == LocalOperand(spare, l)
  <2>1. IsOperand(spare, o)
    BY LocalFacts DEF IsLocal
  <2> HIDE DEF o
  <2>2. Read(v, o.type) \in Types
    BY <2>1, TypeSrcFacts DEF IsOperand
  <2>3. Src(spare, {}, o.value) /\ v \in Knows(spare, {})
    BY <2>1, KnowsFacts DEF IsOperand, Arg
  <2>4. Read(v, o.value) \in Word
    BY <2>3, SrcReads
  <2>5. Argument(v, o) \in Value
    BY <2>2, <2>4 DEF Argument, Value
  <2> QED BY <2>5 DEF o
<1>2. ASSUME NEW u \in Upval PROVE v[CellType(u)] \in Types /\ v[CellValue(u)] \in Word
  <2>1. CellType(u) \in Places(spare) \ Temps /\ CellValue(u) \in Places(spare) \ Temps /\ u \in Nat
    BY WayFacts
  <2>2. Content(CellType(u)) = Types /\ Content(CellValue(u)) = Word
    BY <2>1, ContentFacts
  <2> QED BY <2>1, <2>2 DEF Unknown
<1>3. LocalsOf(v) \in [Local -> Value]
  BY <1>1 DEF LocalsOf
<1>4. UpvalsOf(v) \in [Upval -> Value]
  BY <1>2 DEF UpvalsOf, Value
<1> QED BY <1>3, <1>4

LEMMA CompleteKeeps ==
    ASSUME IInv, Complete
    PROVE  IInv'
<1>1. /\ status = "running" /\ at = Len(code) + 1
      /\ state' = [local |-> LocalsOf(val), up |-> UpvalsOf(val), heap |-> heap]
      /\ UNCHANGED <<ins, spare, text, val, heap>>
  BY DEF Complete
<1>2. TextInv /\ spare \in Nat /\ val \in Unknown(spare)
  BY TextFacts DEF IInv, ContentsInv
<1>3. ContentsInv'
  <2>1. LocalsOf(val) \in [Local -> Value] /\ UpvalsOf(val) \in [Upval -> Value]
    BY <1>2, VariablesTyped
  <2>2. state'.local = LocalsOf(val) /\ state'.up = UpvalsOf(val)
    BY <1>1
  <2> QED BY <1>1, <2>1, <2>2 DEF IInv, ContentsInv
<1>4. CASE ins.kind = "for" /\ jumped
  <2>1. line' = 2 /\ at' = 1 /\ jumped' = FALSE /\ status' = "running"
    BY <1>1, <1>4 DEF Complete
  <2>2. 2 \in DOMAIN text /\ Fine(spare, text[2], {Line}, Unknown(spare), Unknown(spare))
    BY <1>2, <1>4, TextFacts
  <2>3. ~Refused(text[2]) /\ IsSeq(text[2])
    BY <1>1, <2>2 DEF IInv, ControlInv, Fine
  <2>4. Known(spare, text[2], 1, val) /\ Len(text[2]) \in Nat
    BY <1>2, <2>2, <2>3, Starting, SeqFacts
  <2>5. code' = text[2]
    BY <1>1, <2>1 DEF code
  <2>6. TextInv'
    BY <1>1, <1>2, <2>1, <2>2 DEF TextInv
  <2>7. Known(spare, code, at, val)'
    BY <1>1, <2>1, <2>4, <2>5
  <2>8. at' \in 1..(Len(code') + 1)
    BY <2>1, <2>4, <2>5
  <2>9. ControlInv'
    BY <1>1, <2>1, <2>7, <2>8 DEF IInv, ControlInv
  <2> QED BY <1>3, <2>6, <2>9 DEF IInv
<1>5. CASE ~(ins.kind = "for" /\ jumped)
  <2>1. status' = "done" /\ UNCHANGED <<line, at, jumped>>
    BY <1>5 DEF Complete
  <2>2. code' = code
    BY <1>1, <2>1 DEF code
  <2>3. TextInv'
    BY <1>1, <1>2, <2>1 DEF TextInv
  <2>4. ControlInv'
    BY <1>1, <2>1, <2>2 DEF IInv, ControlInv, Finished
  <2> QED BY <1>3, <2>3, <2>4 DEF IInv
<1> QED BY <1>4, <1>5

-----------------------------------------------------------------------------
\* The initial contents.

\* A place is of one kind.
LEMMA PlaceKinds ==
    ASSUME NEW f, NEW p \in Places(f)
    PROVE  \/ p \in Temps
           \/ p \in {Zero, FrameClosure, Slot0}
           \/ \E u \in Upval : p \in {Object(u), UpVal(u), CellType(u), CellValue(u)}
           \/ \E k \in 0..(2 * Locals - 1) : p = FrameWord(k) \/ (p = Register(k) /\ k < f)
BY DEF Places

LEMMA InitContents ==
    ASSUME Init
    PROVE  val \in Unknown(spare)
<1> DEFINE start(p) ==
              CASE p[1] = "temp" -> Junk
                [] p[1] = "zero" -> 0
                [] p[1] = "closure" -> Slot0
                [] p[1] = "slot" -> Object(0)
                [] p[1] = "object" -> UpVal(p[2])
                [] p[1] = "upval" -> CellType(p[2])
                [] p[1] = "cell" /\ p[2] % 2 = 0 -> state.up[p[2] \div 2].type
                [] p[1] = "cell" /\ p[2] % 2 = 1 -> state.up[p[2] \div 2].word
                [] p[1] = "frame" /\ p[2] < spare -> String
                [] OTHER -> LET l == state.local[p[2] \div 2]
                            IN  IF p[2] % 2 = 0 THEN l.word ELSE l.type
<1>1. val = [p \in Places(spare) |-> start(p)]
  <2>1. val = Entry(spare, state)
    BY DEF Init
  <2> QED BY <2>1 DEF Entry
<1>2. spare \in Nat /\ state.local \in [Local -> Value] /\ state.up \in [Upval -> Value]
  BY SpareRegsAssumption, StartsAssumption DEF Init
<1>3. \A x \in Value : x.type \in Types /\ x.word \in Word
  BY DEF Value
<1> HIDE DEF start
<1>4. ASSUME NEW p \in Places(spare)
      PROVE  start(p) \in Anything(spare) /\ (p \notin Temps => start(p) \in Content(p))
  <2>1. CASE p \in Temps
    <3>1. p[1] = "temp"
      BY <2>1 DEF Temps, Temp
    <3>2. start(p) = Junk
      BY <3>1 DEF start
    <3> QED BY <2>1, <3>2, WordFacts, PlaceFacts
  <2>2. CASE p \in {Zero, FrameClosure, Slot0}
    <3>1. Zero[1] = "zero" /\ FrameClosure[1] = "closure" /\ Slot0[1] = "slot"
      BY DEF Zero, FrameClosure, Slot0
    <3>2. start(Zero) = 0
      BY <3>1 DEF start
    <3>3. start(FrameClosure) = Slot0
      BY <3>1 DEF start
    <3>4. start(Slot0) = Object(0)
      BY <3>1 DEF start
    <3>5. 0 \in Anything(spare) /\ Slot0 \in Anything(spare) /\ Object(0) \in Anything(spare)
      BY WordFacts DEF Anything, Places
    <3> QED BY <2>2, <3>2, <3>3, <3>4, <3>5, ContentFacts
  <2>3. CASE \E u \in Upval : p \in {Object(u), UpVal(u), CellType(u), CellValue(u)}
    <3>1. PICK u \in Upval : p \in {Object(u), UpVal(u), CellType(u), CellValue(u)}
      BY <2>3
    <3>2. u \in Nat /\ UpVal(u) \in Places(spare) /\ CellType(u) \in Places(spare)
      BY WayFacts
    <3>3. CASE p = Object(u)
      <4>1. p[1] = "object" /\ p[2] = u
        BY <3>3 DEF Object
      <4>2. start(p) = UpVal(u)
        BY <4>1 DEF start
      <4> QED BY <4>2, <3>2, <3>3, PlaceFacts, ContentFacts
    <3>4. CASE p = UpVal(u)
      <4>1. p[1] = "upval" /\ p[2] = u
        BY <3>4 DEF UpVal
      <4>2. start(p) = CellType(u)
        BY <4>1 DEF start
      <4> QED BY <4>2, <3>2, <3>4, PlaceFacts, ContentFacts
    <3>5. CASE p = CellType(u)
      <4>1. p[1] = "cell" /\ p[2] = 2 * u
        BY <3>5 DEF CellType
      <4>2. (2 * u) % 2 = 0 /\ (2 * u) \div 2 = u
        BY <3>2
      <4>3. p[2] % 2 = 0 /\ p[2] \div 2 = u
        BY <4>1, <4>2
      <4>4. start(p) = state.up[u].type
        BY <4>1, <4>3 DEF start
      <4>5. start(p) \in Types
        BY <4>4, <1>2, <1>3
      <4> QED BY <4>5, <3>2, <3>5, PlaceFacts, ContentFacts, WordFacts
    <3>6. CASE p = CellValue(u)
      <4>1. p[1] = "cell" /\ p[2] = 2 * u + 1
        BY <3>6 DEF CellValue
      <4>2. (2 * u + 1) % 2 = 1 /\ (2 * u + 1) \div 2 = u
        BY <3>2
      <4>3. p[2] % 2 = 1 /\ p[2] \div 2 = u
        BY <4>1, <4>2
      <4>4. start(p) = state.up[u].word
        BY <4>1, <4>3 DEF start
      <4>5. start(p) \in Word
        BY <4>4, <1>2, <1>3
      <4> QED BY <4>5, <3>2, <3>6, PlaceFacts, ContentFacts, WordFacts
    <3> QED BY <3>1, <3>3, <3>4, <3>5, <3>6
  <2>4. CASE \E k \in 0..(2 * Locals - 1) : p = FrameWord(k) \/ (p = Register(k) /\ k < spare)
    <3>1. PICK k \in 0..(2 * Locals - 1) : p = FrameWord(k) \/ (p = Register(k) /\ k < spare)
      BY <2>4
    <3> DEFINE l == k \div 2
    <3>2. k \in Nat /\ l \in Local /\ l \in Nat /\ (k = 2 * l \/ k = 2 * l + 1)
      BY LocalsAssumption DEF Local
    <3>3. (k = 2 * l /\ k % 2 = 0) \/ (k = 2 * l + 1 /\ k % 2 = 1)
      BY <3>2
    <3>4. p[1] \in {"frame", "reg"} /\ p[2] = k
      BY <3>1 DEF FrameWord, Register
    <3>5. start(p) = String \/ start(p) = IF k % 2 = 0 THEN state.local[l].word ELSE state.local[l].type
      <4>1. CASE p[1] = "frame" /\ p[2] < spare
        <5>1. start(p) = String
          BY <4>1 DEF start
        <5> QED BY <5>1
      <4>2. CASE ~(p[1] = "frame" /\ p[2] < spare)
        <5>1. start(p) = IF p[2] % 2 = 0 THEN state.local[p[2] \div 2].word ELSE state.local[p[2] \div 2].type
          BY <4>2, <3>4 DEF start
        <5> QED BY <5>1, <3>4
      <4> QED BY <4>1, <4>2
    <3> HIDE DEF l
    <3>6. state.local[l].word \in Word /\ state.local[l].type \in Types /\ String \in Types /\ String \in Word
      BY <1>2, <1>3, <3>2, WordFacts DEF Types
    <3>7. CASE k = 2 * l /\ k % 2 = 0
      <4>1. Content(p) = Word
        BY <3>1, <3>2, <3>7, ContentFacts
      <4>2. start(p) \in Word
        BY <3>5, <3>6, <3>7
      <4> QED BY <4>1, <4>2, PlaceFacts
    <3>8. CASE k = 2 * l + 1 /\ k % 2 = 1
      <4>1. Content(p) = Types
        BY <3>1, <3>2, <3>8, ContentFacts
      <4>2. start(p) \in Types
        BY <3>5, <3>6, <3>8
      <4> QED BY <4>1, <4>2, PlaceFacts, WordFacts
    <3> QED BY <3>3, <3>7, <3>8
  <2> QED BY <2>1, <2>2, <2>3, <2>4, PlaceKinds
<1> QED BY <1>1, <1>4 DEF Unknown

LEMMA Initially == Init => IInv
<1>1. SUFFICES ASSUME Init PROVE IInv
  OBVIOUS
<1>2. /\ ins \in Program /\ state \in Starts(ins) /\ spare \in SpareRegs /\ heap = state.heap
      /\ text = Compile(spare, ins) /\ line = 1 /\ at = 1 /\ jumped = FALSE /\ status = "compiling"
  BY <1>1 DEF Init
<1>3. spare \in Nat /\ ins \in Instruction
  BY <1>2, SpareRegsAssumption, ProgramAssumption
<1>4. TextInv
  <2>1. Compiled(spare, ins, text)
    BY <1>2, <1>3, FineCompile
  <2>2. 1 \in DOMAIN text
    BY <2>1 DEF Compiled
  <2> QED BY <1>2, <2>2 DEF TextInv
<1>5. ContentsInv
  <2>1. /\ state.local \in [Local -> Value] /\ state.up \in [Upval -> Value]
        /\ DOMAIN heap \subseteq Addresses
        /\ \A t \in DOMAIN heap : \A k \in DOMAIN heap[t] : heap[t][k] \in Value
    BY <1>2, StartsAssumption
  <2> QED BY <1>1, <2>1, InitContents DEF ContentsInv, HeapTyped
<1>6. ControlInv
  <2>1. line \in DOMAIN text /\ Fine(spare, code, {Line}, Unknown(spare), Unknown(spare))
    BY <1>4, TextFacts DEF TextInv, code
  <2>2. Len(code) \in Nat
    BY <2>1, SeqFacts DEF Fine
  <2>3. 1 \in 1..(Len(code) + 1)
    BY <2>2
  <2>4. "compiling" \in {"compiling", "running"} \cup Finished /\ "compiling" # "running"
    OBVIOUS
  <2> QED BY <1>2, <2>3, <2>4 DEF ControlInv
<1> QED BY <1>4, <1>5, <1>6 DEF IInv

LEMMA Inductive == IInv /\ [Next]_vars => IInv'
<1>1. SUFFICES ASSUME IInv, [Next]_vars PROVE IInv'
  OBVIOUS
<1>2. CASE Enter
  BY <1>1, <1>2, EnterKeeps
<1>3. CASE Plain
  BY <1>1, <1>3, PlainKeeps
<1>4. CASE Labelled
  BY <1>1, <1>4, LabelledKeeps
<1>5. CASE Branches
  BY <1>1, <1>5, BranchesKeeps
<1>6. CASE CallsBop
  BY <1>1, <1>6, CallsBopKeeps
<1>7. CASE CallsRelational
  BY <1>1, <1>7, CallsRelationalKeeps
<1>8. CASE CallsTableGet
  BY <1>1, <1>8, CallsTableGetKeeps
<1>9. CASE CallsTableSet
  BY <1>1, <1>9, CallsTableSetKeeps
<1>10. CASE CallsCreate
  BY <1>1, <1>10, CallsCreateKeeps
<1>11. CASE CallsSetList
  BY <1>1, <1>11, CallsSetListKeeps
<1>12. CASE Complete
  BY <1>1, <1>12, CompleteKeeps
<1>13. CASE UNCHANGED vars
  <2>1. UNCHANGED <<ins, spare, text, line, at, val, heap, state, jumped, status>> /\ code' = code
    BY <1>13 DEF vars, code
  <2>2. TextInv' /\ ContentsInv'
    BY <1>1, <2>1 DEF IInv, TextInv, ContentsInv
  <2>3. ControlInv'
    BY <1>1, <2>1 DEF IInv, ControlInv
  <2> QED BY <2>2, <2>3 DEF IInv
<1> QED BY <1>1, <1>2, <1>3, <1>4, <1>5, <1>6, <1>7, <1>8, <1>9, <1>10, <1>11, <1>12, <1>13 DEF Next

-----------------------------------------------------------------------------
\* The code of every instruction keeps words in the registers and the words of
\* locals and in the cells of upvalues, whatever control does, and in them the
\* words that are types are types: an address never leaves the temporaries and
\* the way to the upvalues (machine.c, arithmetic.c, branch.c, litabup.c).
THEOREM InstructionsTypeCorrect == Spec => []TypeOK
<1>1. IInv => TypeOK
  <2>1. SUFFICES ASSUME IInv PROVE TypeOK
    OBVIOUS
  <2>2. /\ TextInv /\ ContentsInv /\ ControlInv
        /\ val \in [Places(spare) -> Anything(spare)]
        /\ \A p \in Places(spare) \ Temps : val[p] \in Content(p)
    BY <2>1 DEF IInv, ContentsInv, Unknown
  <2>3. val[Zero] = 0
    BY <2>2, PlaceFacts
  <2>4. ASSUME NEW p \in Places(spare)
        PROVE  /\ p[1] \in {"reg", "frame", "cell"} => val[p] \in Word
               /\ (p[1] \in {"reg", "frame"} /\ p[2] % 2 = 1) => val[p] \in Types
               /\ (p[1] = "cell" /\ p[2] % 2 = 0) => val[p] \in Types
    <3> SUFFICES ASSUME p[1] \in {"reg", "frame", "cell"}
                 PROVE  /\ val[p] \in Word
                        /\ (p[1] \in {"reg", "frame"} /\ p[2] % 2 = 1) => val[p] \in Types
                        /\ (p[1] = "cell" /\ p[2] % 2 = 0) => val[p] \in Types
      OBVIOUS
    <3>1. p \notin Temps /\ p # Zero /\ p # FrameClosure /\ p # Slot0
      BY <2>4 DEF Temps, Temp, Zero, FrameClosure, Slot0
    <3>2. CASE p[1] \in {"reg", "frame"}
      <4>1. Content(p) = IF p[2] % 2 = 1 THEN Types ELSE Word
        BY <3>1, <3>2 DEF Content
      <4>2. p[1] # "cell"
        BY <3>2
      <4> QED BY <2>2, <3>1, <3>2, <4>1, <4>2, WordFacts
    <3>3. CASE p[1] = "cell"
      <4>1. Content(p) = IF p[2] % 2 = 0 THEN Types ELSE Word
        BY <3>1, <3>3 DEF Content
      <4>2. p[1] \notin {"reg", "frame"}
        BY <3>3
      <4> QED BY <2>2, <3>1, <3>3, <4>1, <4>2, WordFacts
    <3> QED BY <3>2, <3>3
  <2> QED BY <2>2, <2>3, <2>4 DEF TypeOK, TextInv, ContentsInv, ControlInv, HeapTyped
<1> QED BY <1>1, Initially, Inductive, PTL DEF Spec

\* Only registers are computed with, and immediates that fit, in the code of
\* every instruction, wherever its operands are (arithmetic.c, branch.c:146).
THEOREM ComputesOnlyInRegisters == Spec => []ComputesInRegisters
<1>1. IInv => ComputesInRegisters
  <2>1. SUFFICES ASSUME IInv, NEW i \in DOMAIN code, code[i].op \in Computing
                 PROVE  /\ IsReg(code[i].d) /\ IsReg(code[i].s)
                        /\ \/ IsReg(code[i].t)
                           \/ /\ code[i].op \in {"add", "sll", "sra"}
                              /\ code[i].t.k \in (-ImmHalf)..(ImmHalf - 1)
    BY DEF ComputesInRegisters, Computing
  <2>2. InRegisters(code[i])
    BY <2>1, CodeFacts DEF Computes
  <2> QED BY <2>1, <2>2 DEF InRegisters
<1> QED BY <1>1, Initially, Inductive, PTL DEF Spec
==============================================================================
