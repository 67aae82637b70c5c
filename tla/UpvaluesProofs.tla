--------------------------- MODULE UpvaluesProofs ---------------------------
(***************************************************************************)
(* Theorems about upvalues, for any number of locals, prototypes, frames,  *)
(* closures and upvalues: open upvalues point at live variables, no two of *)
(* them at one, and the list of them is in the order of the frames, which  *)
(* makes a return close all that it has to.  They implement boxed          *)
(* variables wherever no close takes a stale value.                        *)
(***************************************************************************)
EXTENDS Upvalues, SequenceTheorems, WellFoundedInduction, TLAPS

Upvalue == {At(p) : p \in Place} \cup {Own(v) : v \in Value}
FrameOf(place) == place \div FrameSize

\* A list of the open ones among some upvalues, on its own: it holds each of
\* them once, no two point at one place, and inner frames come first.
EachOnce(us, os) ==
    /\ \A k \in 1..Len(os) : us[os[k]].open
    /\ \A uv \in 1..Len(us) : us[uv].open => \E k \in 1..Len(os) : os[k] = uv
    /\ \A j, k \in 1..Len(os) : os[j] = os[k] => j = k
OnePerPlace(us) ==
    \A a, b \in 1..Len(us) : us[a].open /\ us[b].open /\ us[a].place = us[b].place => a = b
ByFrame(us, os) ==
    \A j, k \in 1..Len(os) : j <= k => FrameOf(us[os[k]].place) <= FrameOf(us[os[j]].place)
Listed(us, os) ==
    /\ us \in Seq(Upvalue) /\ os \in Seq(1..Len(us))
    /\ EachOnce(us, os) /\ OnePerPlace(us) /\ ByFrame(us, os)

\* They point at genv or at a local of one of the first frames.
Live(us, depth) ==
    \A uv \in 1..Len(us) : us[uv].open =>
        \/ us[uv].place = PlaceOf(0, 0)
        \/ \E d \in 1..depth, i \in Local : us[uv].place = PlaceOf(d, i)

\* A closure that is being created has a prototype, whose upvalues the running
\* function can give it.
Creating ==
    creating.busy =>
        /\ frames # <<>>
        /\ creating.proto \in Protos
        /\ \A k \in 1..Len(creating.proto) :
              creating.proto[k].instack \/ creating.proto[k].idx < Len(closures[Running])

Machine ==
    /\ regs \in [RegLocal -> Value]
    /\ stack \in [Place -> Value]
    /\ Depth \in 0..MaxDepth

IInv == TypeOK /\ Machine /\ Creating /\ Listed(uvs, openuvs) /\ Live(uvs, Depth)

-----------------------------------------------------------------------------
LEMMA PlaceFacts ==
    ASSUME NEW d \in 0..MaxDepth, NEW i \in 0..NrLocals
    PROVE  /\ PlaceOf(d, i) \in Place
           /\ FrameOf(PlaceOf(d, i)) = d
BY LocalsAssumption, BoundsAssumption DEF PlaceOf, Place, FrameSize, FrameOf

\* The frame below whose locals a return closes.
LEMMA FrameOrder ==
    ASSUME NEW d \in Nat, NEW place \in Nat, place < PlaceOf(d, NrLocals)
    PROVE  FrameOf(place) <= d
BY LocalsAssumption DEF PlaceOf, FrameSize, FrameOf

LEMMA UpvalueFacts ==
    ASSUME NEW us \in Seq(Upvalue), NEW uv \in 1..Len(us)
    PROVE  /\ us[uv] \in Upvalue
           /\ us[uv].open \in BOOLEAN
           /\ us[uv].open => us[uv].place \in Place /\ us[uv] = At(us[uv].place)
           /\ ~us[uv].open => us[uv].v \in Value
<1>1. us[uv] \in Upvalue
  BY ElementOfSeq
<1>2. CASE \E p \in Place : us[uv] = At(p)
  <2>1. PICK p \in Place : us[uv] = At(p)
    BY <1>2
  <2>2. us[uv].open = TRUE /\ us[uv].place = p
    BY <2>1 DEF At
  <2> QED BY <1>1, <2>1, <2>2
<1>3. CASE \E v \in Value : us[uv] = Own(v)
  <2>1. PICK v \in Value : us[uv] = Own(v)
    BY <1>3
  <2>2. us[uv].open = FALSE /\ us[uv].v = v
    BY <2>1 DEF Own
  <2> QED BY <1>1, <2>1, <2>2
<1> QED BY <1>1, <1>2, <1>3 DEF Upvalue

LEMMA LiveFrame ==
    ASSUME NEW us \in Seq(Upvalue), NEW depth \in 0..MaxDepth, Live(us, depth),
           NEW uv \in 1..Len(us), us[uv].open
    PROVE  FrameOf(us[uv].place) <= depth
<1>1. 0 \in 0..MaxDepth /\ 0 \in 0..NrLocals
  BY LocalsAssumption, BoundsAssumption
<1>2. CASE us[uv].place = PlaceOf(0, 0)
  BY <1>1, <1>2, PlaceFacts
<1>3. CASE \E d \in 1..depth, i \in Local : us[uv].place = PlaceOf(d, i)
  <2>1. PICK d \in 1..depth, i \in Local : us[uv].place = PlaceOf(d, i)
    BY <1>3
  <2>2. d \in 0..MaxDepth /\ i \in 0..NrLocals
    BY LocalsAssumption, BoundsAssumption DEF Local
  <2> QED BY <2>1, <2>2, PlaceFacts
<1> QED BY <1>2, <1>3 DEF Live

\* Upvalues in the first frames stay live when others are popped.
LEMMA LiveBelow ==
    ASSUME NEW us \in Seq(Upvalue), NEW depth \in 1..MaxDepth, Live(us, depth),
           \A uv \in 1..Len(us) : us[uv].open => FrameOf(us[uv].place) <= depth - 1
    PROVE  Live(us, depth - 1)
<1>1. ASSUME NEW uv \in 1..Len(us), us[uv].open, us[uv].place # PlaceOf(0, 0)
      PROVE  \E d \in 1..(depth - 1), i \in Local : us[uv].place = PlaceOf(d, i)
  <2>1. PICK d \in 1..depth, i \in Local : us[uv].place = PlaceOf(d, i)
    BY <1>1 DEF Live
  <2>2. d \in 0..MaxDepth /\ i \in 0..NrLocals
    BY LocalsAssumption, BoundsAssumption DEF Local
  <2>3. d <= depth - 1
    BY <1>1, <2>1, <2>2, PlaceFacts
  <2> QED BY <2>1, <2>3
<1> QED BY <1>1 DEF Live

-----------------------------------------------------------------------------
\* The properties of the model are those of its list.
LEMMA ListProperties ==
    /\ IInv => Listed(uvs, openuvs) /\ Live(uvs, Depth)
    /\ Listed(uvs, openuvs) => OneUpvaluePerPlace /\ OpenListByFrame
    /\ Live(uvs, Depth) => OpenUpvaluesLive
<1>1. Listed(uvs, openuvs) => OneUpvaluePerPlace
  <2> SUFFICES ASSUME Listed(uvs, openuvs) PROVE OneUpvaluePerPlace
    OBVIOUS
  <2>1. \A k \in 1..Len(openuvs) : openuvs[k] \in Cell
    BY ElementOfSeq DEF Listed, Cell
  <2>2. {openuvs[k] : k \in 1..Len(openuvs)} = {uv \in Cell : uvs[uv].open}
    <3>1. ASSUME NEW k \in 1..Len(openuvs) PROVE openuvs[k] \in {uv \in Cell : uvs[uv].open}
      BY <2>1 DEF Listed, EachOnce
    <3>2. ASSUME NEW uv \in Cell, uvs[uv].open PROVE \E k \in 1..Len(openuvs) : openuvs[k] = uv
      BY <3>2 DEF Listed, EachOnce, Cell
    <3> QED BY <3>1, <3>2
  <2> QED BY <2>2 DEF Listed, EachOnce, OnePerPlace, OneUpvaluePerPlace, Cell
<1>2. Listed(uvs, openuvs) => OpenListByFrame
  BY DEF Listed, ByFrame, FrameOf, OpenListByFrame
<1>3. Live(uvs, Depth) => OpenUpvaluesLive
  BY DEF Live, OpenUpvaluesLive, Cell
<1> QED BY <1>1, <1>2, <1>3 DEF IInv

LEMMA Primed ==
    /\ Listed(uvs, openuvs)' <=> Listed(uvs', openuvs')
    /\ Live(uvs, Depth)' <=> Live(uvs', Len(frames'))
BY DEF Listed, EachOnce, OnePerPlace, ByFrame, Live, Depth

-----------------------------------------------------------------------------
LEMMA StoredType ==
    ASSUME Machine, Depth \in 1..MaxDepth, NEW S \in SUBSET Local
    PROVE  Stored(S) \in [Place -> Value]
<1>1. ASSUME NEW p \in Place PROVE Stored(S)[p] \in Value
  <2>1. CASE \E i \in S \cap RegLocal : p = PlaceOf(Depth, i)
    <3>1. (CHOOSE i \in S \cap RegLocal : p = PlaceOf(Depth, i)) \in RegLocal
      BY <2>1
    <3> QED BY <2>1, <3>1 DEF Stored, Machine
  <2>2. CASE ~\E i \in S \cap RegLocal : p = PlaceOf(Depth, i)
    BY <2>2 DEF Stored, Machine
  <2> QED BY <2>1, <2>2
<1> QED BY <1>1 DEF Stored

LEMMA LocalType ==
    ASSUME Machine, Depth \in 1..MaxDepth, NEW i \in Local
    PROVE  /\ LocalValue(i) \in Value
           /\ \A v \in Value : SetLocalValue(i, v) =>
                  regs' \in [RegLocal -> Value] /\ stack' \in [Place -> Value]
<1>1. PlaceOf(Depth, i) \in Place
  BY PlaceFacts, LocalsAssumption, BoundsAssumption DEF Local
<1>2. LocalValue(i) \in Value
  BY <1>1 DEF LocalValue, Machine
<1>3. ASSUME NEW v \in Value, SetLocalValue(i, v)
      PROVE  regs' \in [RegLocal -> Value] /\ stack' \in [Place -> Value]
  BY <1>1, <1>3 DEF SetLocalValue, Machine
<1> QED BY <1>2, <1>3

LEMMA ActiveDepth == ASSUME IInv, Active PROVE Depth \in 1..MaxDepth /\ Running \in 1..Len(closures)
<1>1. frames \in Seq(1..Len(closures)) /\ frames # <<>> /\ Depth \in 0..MaxDepth
  BY DEF IInv, TypeOK, Machine, Active
<1>2. Depth \in 1..MaxDepth
  BY <1>1, EmptySeq DEF Depth
<1>3. Running \in 1..Len(closures)
  BY <1>1, <1>2, ElementOfSeq DEF Running, Depth
<1> QED BY <1>2, <1>3

\* An operation that changes registers and words of the stack only.
LEMMA WordsStep ==
    ASSUME IInv, regs' \in [RegLocal -> Value], stack' \in [Place -> Value],
           UNCHANGED <<frames, uvs, openuvs, closures, creating>>
    PROVE  IInv'
<1>1. Listed(uvs, openuvs)' /\ Live(uvs, Depth)'
  BY Primed DEF IInv, Depth
<1>2. Creating'
  BY DEF IInv, Creating, Running, Depth
<1>3. TypeOK' /\ Machine'
  BY DEF IInv, TypeOK, Machine, Cell, Depth
<1> QED BY <1>1, <1>2, <1>3 DEF IInv

LEMMA InitIInv == Init => IInv
<1> SUFFICES ASSUME Init PROVE IInv
  OBVIOUS
<1>1. PlaceOf(0, 0) \in Place
  BY PlaceFacts, LocalsAssumption, BoundsAssumption
<1>2. /\ uvs = <<At(PlaceOf(0, 0))>> /\ uvs \in Seq(Upvalue) /\ Len(uvs) = 1
      /\ uvs[1].open = TRUE /\ uvs[1].place = PlaceOf(0, 0)
  <2>1. /\ At(PlaceOf(0, 0)) \in Upvalue
        /\ At(PlaceOf(0, 0)).open = TRUE /\ At(PlaceOf(0, 0)).place = PlaceOf(0, 0)
    BY <1>1 DEF Upvalue, At
  <2> QED BY <2>1 DEF Init
<1>3. /\ openuvs = <<1>> /\ openuvs \in Seq(1..1) /\ Len(openuvs) = 1 /\ openuvs[1] = 1
  BY DEF Init
<1>4. /\ frames \in Seq(1..1) /\ Len(frames) = 1
      /\ closures = <<<<1>>>> /\ closures \in Seq(Seq(1..1)) /\ Len(closures) = 1
  BY DEF Init
<1>5. /\ creating \in [proto : Protos \cup {<<>>}, uvs : Seq(1..1), busy : BOOLEAN]
      /\ creating.busy = FALSE
  BY EmptySeq DEF Init, Idle
<1>6. regs \in [RegLocal -> Value] /\ stack \in [Place -> Value]
  BY DEF Init
<1>7. TypeOK
  BY <1>2, <1>3, <1>4, <1>5, <1>6 DEF TypeOK, Cell, Upvalue
<1>8. Machine
  BY <1>4, <1>6, BoundsAssumption DEF Machine, Depth
<1>9. Listed(uvs, openuvs)
  <2>1. FrameOf(PlaceOf(0, 0)) <= FrameOf(PlaceOf(0, 0))
    BY PlaceFacts, LocalsAssumption, BoundsAssumption
  <2> QED BY <1>2, <1>3, <2>1 DEF Listed, EachOnce, OnePerPlace, ByFrame
<1>10. Live(uvs, Depth)
  BY <1>2 DEF Live
<1> QED BY <1>5, <1>7, <1>8, <1>9, <1>10 DEF IInv, Creating

-----------------------------------------------------------------------------
LEMMA SetLocalStep == ASSUME IInv, SetLocal PROVE IInv'
<1>1. PICK i \in Local, v \in Value : SetLocalValue(i, v)
  BY DEF SetLocal
<1>2. regs' \in [RegLocal -> Value] /\ stack' \in [Place -> Value]
  BY <1>1, ActiveDepth, LocalType DEF SetLocal, IInv
<1> QED BY <1>2, WordsStep DEF SetLocal

\* The upvalues of the running closure, and what they point at.
LEMMA RunningUpvalue ==
    ASSUME IInv, Active, NEW u \in 1..Len(closures[Running])
    PROVE  /\ closures[Running][u] \in 1..Len(uvs)
           /\ UpvalValue(closures[Running][u]) \in Value
<1>1. closures \in Seq(Seq(Cell)) /\ Running \in 1..Len(closures)
  BY ActiveDepth DEF IInv, TypeOK
<1>2. closures[Running] \in Seq(Cell)
  BY <1>1, ElementOfSeq
<1>3. closures[Running][u] \in Cell
  BY <1>2, ElementOfSeq
<1>4. ASSUME NEW uv \in Cell PROVE UpvalValue(uv) \in Value
  BY UpvalueFacts DEF IInv, Listed, Cell, UpvalValue, Machine
<1> QED BY <1>3, <1>4 DEF Cell

LEMMA GetUpvalStep == ASSUME IInv, GetUpval PROVE IInv'
<1>1. PICK u \in 1..Len(closures[Running]), i \in Local :
          SetLocalValue(i, UpvalValue(closures[Running][u]))
  BY DEF GetUpval
<1>2. UpvalValue(closures[Running][u]) \in Value
  BY RunningUpvalue DEF GetUpval
<1>3. regs' \in [RegLocal -> Value] /\ stack' \in [Place -> Value]
  BY <1>1, <1>2, ActiveDepth, LocalType DEF GetUpval, IInv
<1> QED BY <1>3, WordsStep DEF GetUpval

LEMMA SetUpvalStep == ASSUME IInv, SetUpval PROVE IInv'
<1>1. PICK u \in 1..Len(closures[Running]), i \in Local :
          IF uvs[closures[Running][u]].open
          THEN /\ stack' = [stack EXCEPT ![uvs[closures[Running][u]].place] = LocalValue(i)]
               /\ UNCHANGED uvs
          ELSE /\ uvs' = [uvs EXCEPT ![closures[Running][u]] = Own(LocalValue(i))]
               /\ UNCHANGED stack
  BY DEF SetUpval
<1>2. PICK uv \in 1..Len(uvs) : uv = closures[Running][u]
  BY RunningUpvalue DEF SetUpval
<1>3. LocalValue(i) \in Value
  BY ActiveDepth, LocalType DEF SetUpval, IInv
<1>4. UNCHANGED <<regs, frames, openuvs, closures, creating>>
  BY DEF SetUpval
<1>5. CASE uvs[uv].open
  <2>1. stack' = [stack EXCEPT ![uvs[uv].place] = LocalValue(i)] /\ uvs' = uvs
    BY <1>1, <1>2, <1>5
  <2>2. regs' \in [RegLocal -> Value] /\ stack' \in [Place -> Value]
    BY <1>3, <1>4, <2>1 DEF IInv, Machine
  <2> QED BY <1>4, <2>1, <2>2, WordsStep
<1>6. CASE ~uvs[uv].open
  <2>1. uvs' = [uvs EXCEPT ![uv] = Own(LocalValue(i))] /\ stack' = stack
    BY <1>1, <1>2, <1>6
  <2>2. Own(LocalValue(i)) \in Upvalue /\ Own(LocalValue(i)).open = FALSE
    BY <1>3 DEF Upvalue, Own
  <2>3. /\ uvs' \in Seq(Upvalue) /\ Len(uvs') = Len(uvs)
        /\ \A x \in 1..Len(uvs) : uvs'[x].open => uvs[x].open /\ uvs'[x] = uvs[x]
        /\ \A x \in 1..Len(uvs) : uvs[x].open => uvs'[x] = uvs[x]
    BY <1>6, <2>1, <2>2, ExceptSeq DEF IInv, Listed
  <2>4. \A k \in 1..Len(openuvs) : openuvs[k] \in 1..Len(uvs) /\ uvs'[openuvs[k]] = uvs[openuvs[k]]
    <3>1. \A k \in 1..Len(openuvs) : openuvs[k] \in 1..Len(uvs) /\ uvs[openuvs[k]].open
      BY ElementOfSeq DEF IInv, Listed, EachOnce
    <3> QED BY <2>3, <3>1
  <2>5. Listed(uvs', openuvs')
    <3>1. EachOnce(uvs', openuvs')
      BY <1>4, <2>3, <2>4 DEF IInv, Listed, EachOnce
    <3>2. OnePerPlace(uvs')
      BY <2>3 DEF IInv, Listed, OnePerPlace
    <3>3. ByFrame(uvs', openuvs')
      BY <1>4, <2>4 DEF IInv, Listed, ByFrame
    <3> QED BY <1>4, <2>3, <3>1, <3>2, <3>3 DEF IInv, Listed
  <2>6. Live(uvs', Len(frames'))
    BY <1>4, <2>3 DEF IInv, Live, Depth
  <2>7. TypeOK' /\ Machine' /\ Creating'
    BY <1>4, <2>1, <2>3 DEF IInv, TypeOK, Machine, Creating, Cell, Depth, Running, Upvalue
  <2> QED BY <2>5, <2>6, <2>7, Primed DEF IInv
<1> QED BY <1>5, <1>6

-----------------------------------------------------------------------------
LEMMA StartClosureStep == ASSUME IInv, StartClosure PROVE IInv'
<1>1. PICK p \in Protos :
          /\ \A k \in 1..Len(p) : p[k].instack \/ p[k].idx < Len(closures[Running])
          /\ creating' = [proto |-> p, uvs |-> <<>>, busy |-> TRUE]
  BY DEF StartClosure
<1>2. UNCHANGED <<regs, stack, frames, uvs, openuvs, closures>> /\ frames # <<>>
  BY DEF StartClosure, Active
<1>3. creating' \in [proto : Protos \cup {<<>>}, uvs : Seq(Cell), busy : BOOLEAN]
  BY <1>1, EmptySeq
<1>4. creating'.proto = p
  BY <1>1
<1>5. Creating'
  BY <1>1, <1>2, <1>4 DEF Creating, Running, Depth
<1>6. Listed(uvs, openuvs)' /\ Live(uvs, Depth)'
  BY <1>2, Primed DEF IInv, Depth
<1>7. TypeOK' /\ Machine'
  BY <1>2, <1>3 DEF IInv, TypeOK, Machine, Cell, Depth
<1> QED BY <1>5, <1>6, <1>7 DEF IInv

\* What the closure that is being created gets is one of the upvalues.
LEMMA CapturedType ==
    ASSUME IInv, NEW n \in Nat, Len(uvs) <= n, NEW uv \in 1..n, Capture(uv)
    PROVE  /\ creating' \in [proto : Protos \cup {<<>>}, uvs : Seq(1..n), busy : BOOLEAN]
           /\ creating'.proto = creating.proto /\ creating'.busy = creating.busy
<1>1. creating \in [proto : Protos \cup {<<>>}, uvs : Seq(Cell), busy : BOOLEAN]
  BY DEF IInv, TypeOK
<1>2. Cell \subseteq 1..n
  BY LenProperties DEF IInv, Listed, Cell
<1>3. creating.uvs \in Seq(1..n)
  BY <1>1, <1>2, SeqMonotonic
<1>4. Append(creating.uvs, uv) \in Seq(1..n)
  BY <1>3, AppendProperties
<1> QED BY <1>1, <1>4 DEF Capture

\* CaptureOpen and CaptureParent.
LEMMA CapturedStep ==
    ASSUME IInv, NEW uv \in 1..Len(uvs), Capture(uv),
           UNCHANGED <<regs, stack, frames, uvs, openuvs, closures>>
    PROVE  IInv'
<1>1. Len(uvs) \in Nat
  BY LenProperties DEF IInv, Listed
<1>2. /\ creating' \in [proto : Protos \cup {<<>>}, uvs : Seq(1..Len(uvs)), busy : BOOLEAN]
      /\ creating'.proto = creating.proto /\ creating'.busy = creating.busy
  BY <1>1, CapturedType
<1>3. Creating'
  BY <1>2 DEF IInv, Creating, Running, Depth
<1>4. Listed(uvs, openuvs)' /\ Live(uvs, Depth)'
  BY Primed DEF IInv, Depth
<1>5. TypeOK' /\ Machine'
  BY <1>2 DEF IInv, TypeOK, Machine, Cell, Depth
<1> QED BY <1>3, <1>4, <1>5 DEF IInv

LEMMA DescriptorFacts ==
    ASSUME IInv, Capturing
    PROVE  /\ creating.busy /\ frames # <<>> /\ Depth \in 1..MaxDepth
           /\ Running \in 1..Len(closures)
           /\ Descriptor.idx \in Local
           /\ Descriptor.instack \/ Descriptor.idx + 1 \in 1..Len(closures[Running])
<1>1. creating.busy /\ frames # <<>> /\ creating.proto \in Protos
  BY DEF Capturing, IInv, Creating
<1>2. Depth \in 1..MaxDepth /\ Running \in 1..Len(closures)
  <2>1. frames \in Seq(1..Len(closures)) /\ Depth \in 0..MaxDepth
    BY DEF IInv, TypeOK, Machine
  <2>2. Depth \in 1..MaxDepth
    BY <1>1, <2>1, EmptySeq DEF Depth
  <2>3. Running \in 1..Len(closures)
    BY <2>1, <2>2, ElementOfSeq DEF Running, Depth
  <2> QED BY <2>2, <2>3
<1>3. creating.proto \in Seq([instack : BOOLEAN, idx : 0..(NrLocals - 1)])
  BY <1>1, ProtosAssumption
<1>4. Len(creating.uvs) + 1 \in 1..Len(creating.proto)
  <2>1. creating.uvs \in Seq(Cell)
    BY DEF IInv, TypeOK
  <2> QED BY <1>3, <2>1, LenProperties DEF Capturing
<1>5. Descriptor \in [instack : BOOLEAN, idx : 0..(NrLocals - 1)]
  BY <1>3, <1>4, ElementOfSeq DEF Descriptor
<1>6. Descriptor.instack \/ Descriptor.idx < Len(closures[Running])
  BY <1>1, <1>4 DEF IInv, Creating, Descriptor
<1>7. Len(closures[Running]) \in Nat
  <2>1. closures \in Seq(Seq(Cell))
    BY DEF IInv, TypeOK
  <2>2. closures[Running] \in Seq(Cell)
    BY <1>2, <2>1, ElementOfSeq
  <2> QED BY <2>2, LenProperties
<1> QED BY <1>1, <1>2, <1>5, <1>6, <1>7, LocalsAssumption DEF Local

LEMMA CaptureOpenStep == ASSUME IInv, CaptureOpen PROVE IInv'
<1>1. PICK uv \in OpenAt(PlaceOf(Depth, Descriptor.idx)) : Capture(uv)
  BY DEF CaptureOpen
<1>2. uv \in 1..Len(uvs)
  BY <1>1 DEF OpenAt
<1> QED BY <1>1, <1>2, CapturedStep DEF CaptureOpen

LEMMA CaptureParentStep == ASSUME IInv, CaptureParent PROVE IInv'
<1>1. Running \in 1..Len(closures) /\ Descriptor.idx + 1 \in 1..Len(closures[Running])
  BY DescriptorFacts DEF CaptureParent
<1>2. closures \in Seq(Seq(Cell))
  BY DEF IInv, TypeOK
<1>3. closures[Running] \in Seq(Cell)
  BY <1>1, <1>2, ElementOfSeq
<1>4. closures[Running][Descriptor.idx + 1] \in 1..Len(uvs)
  BY <1>1, <1>3, ElementOfSeq DEF Cell
<1> QED BY <1>4, CapturedStep DEF CaptureParent

LEMMA CaptureNewStep == ASSUME IInv, CaptureNew PROVE IInv'
<1> DEFINE place == PlaceOf(Depth, Descriptor.idx)
           n == Len(uvs) + 1
<1>1. Depth \in 1..MaxDepth /\ Descriptor.idx \in Local
  BY DescriptorFacts DEF CaptureNew
<1>2. place \in Place /\ FrameOf(place) = Depth
  <2>1. Depth \in 0..MaxDepth /\ Descriptor.idx \in 0..NrLocals
    BY <1>1, LocalsAssumption, BoundsAssumption DEF Local
  <2> QED BY <2>1, PlaceFacts
<1>3. /\ At(place) \in Upvalue /\ At(place).open = TRUE /\ At(place).place = place
  BY <1>2 DEF Upvalue, At
<1>4. /\ uvs' = Append(uvs, At(place))
      /\ openuvs' = <<n>> \o openuvs
      /\ Capture(n)
      /\ OpenAt(place) = {}
      /\ UNCHANGED <<regs, stack, frames, closures>>
  BY DEF CaptureNew, AddOpen
<1> HIDE DEF place
<1>5. uvs \in Seq(Upvalue) /\ Len(uvs) \in Nat /\ openuvs \in Seq(1..Len(uvs)) /\ Len(openuvs) \in Nat
  BY LenProperties DEF IInv, Listed
<1>6. /\ uvs' \in Seq(Upvalue) /\ Len(uvs') = n
      /\ uvs'[n] = At(place)
      /\ \A uv \in 1..Len(uvs) : uvs'[uv] = uvs[uv]
  BY <1>3, <1>4, <1>5, AppendProperties
<1>7. /\ openuvs' \in Seq(1..n) /\ Len(openuvs') = Len(openuvs) + 1
      /\ openuvs'[1] = n
      /\ \A k \in 2..Len(openuvs') : k - 1 \in 1..Len(openuvs) /\ openuvs'[k] = openuvs[k - 1]
      /\ \A k \in 1..Len(openuvs) : openuvs'[k + 1] = openuvs[k]
  <2>1. openuvs \in Seq(1..n) /\ <<n>> \in Seq(1..n) /\ Len(<<n>>) = 1 /\ <<n>>[1] = n
    <3>1. 1..Len(uvs) \subseteq 1..n /\ n \in 1..n
      BY <1>5
    <3> QED BY <1>5, <3>1, SeqMonotonic
  <2> HIDE DEF n
  <2> QED BY <1>4, <1>5, <2>1, ConcatProperties
<1>8. \A k \in 1..Len(openuvs) : openuvs[k] \in 1..Len(uvs) /\ uvs'[openuvs[k]] = uvs[openuvs[k]]
  BY <1>5, <1>6, ElementOfSeq
<1>9. ASSUME NEW uv \in 1..Len(uvs), uvs[uv].open PROVE uvs[uv].place # place
  <2>1. \E k \in 1..Len(openuvs) : openuvs[k] = uv
    BY <1>9 DEF IInv, Listed, EachOnce
  <2>2. uvs[uv] = At(uvs[uv].place)
    BY <1>5, <1>9, UpvalueFacts
  <2> QED BY <1>4, <2>1, <2>2 DEF OpenAt
<1>10. EachOnce(uvs', openuvs')
  <2>1. ASSUME NEW k \in 1..Len(openuvs') PROVE uvs'[openuvs'[k]].open
    <3>1. CASE k = 1
      BY <1>3, <1>6, <1>7, <3>1
    <3>2. CASE k \in 2..Len(openuvs')
      <4>1. k - 1 \in 1..Len(openuvs) /\ openuvs'[k] = openuvs[k - 1]
        BY <1>7, <3>2
      <4>2. uvs[openuvs[k - 1]].open
        BY <4>1 DEF IInv, Listed, EachOnce
      <4> QED BY <1>8, <4>1, <4>2
    <3> QED BY <1>5, <1>7, <3>1, <3>2
  <2>2. ASSUME NEW uv \in 1..Len(uvs'), uvs'[uv].open PROVE \E k \in 1..Len(openuvs') : openuvs'[k] = uv
    <3>1. CASE uv = n
      <4>1. 1 \in 1..Len(openuvs')
        BY <1>5, <1>7
      <4> QED BY <1>7, <3>1, <4>1
    <3>2. CASE uv \in 1..Len(uvs)
      <4>1. uvs[uv].open
        BY <1>6, <2>2, <3>2
      <4>2. PICK k \in 1..Len(openuvs) : openuvs[k] = uv
        BY <3>2, <4>1 DEF IInv, Listed, EachOnce
      <4>3. k + 1 \in 1..(Len(openuvs) + 1)
        BY <1>5
      <4>4. openuvs'[k + 1] = openuvs[k] /\ Len(openuvs') = Len(openuvs) + 1
        BY <1>7
      <4> QED BY <4>2, <4>3, <4>4
    <3> QED BY <1>5, <1>6, <3>1, <3>2
  <2>3. ASSUME NEW j \in 1..Len(openuvs'), NEW k \in 1..Len(openuvs'), openuvs'[j] = openuvs'[k]
        PROVE  j = k
    <3>1. CASE j = 1 /\ k \in 2..Len(openuvs')
      <4>1. k - 1 \in 1..Len(openuvs) /\ openuvs'[k] = openuvs[k - 1]
        BY <1>7, <3>1
      <4>2. openuvs'[k] \in 1..Len(uvs) /\ openuvs'[j] = n
        BY <1>7, <1>8, <3>1, <4>1
      <4> QED BY <1>5, <2>3, <4>2
    <3>2. CASE k = 1 /\ j \in 2..Len(openuvs')
      <4>1. j - 1 \in 1..Len(openuvs) /\ openuvs'[j] = openuvs[j - 1]
        BY <1>7, <3>2
      <4>2. openuvs'[j] \in 1..Len(uvs) /\ openuvs'[k] = n
        BY <1>7, <1>8, <3>2, <4>1
      <4> QED BY <1>5, <2>3, <4>2
    <3>3. CASE j \in 2..Len(openuvs') /\ k \in 2..Len(openuvs')
      <4>1. /\ j - 1 \in 1..Len(openuvs) /\ k - 1 \in 1..Len(openuvs)
            /\ openuvs[j - 1] = openuvs[k - 1]
        BY <1>7, <2>3, <3>3
      <4>2. j - 1 = k - 1
        BY <4>1 DEF IInv, Listed, EachOnce
      <4> QED BY <1>5, <1>7, <3>3, <4>2
    <3> QED BY <1>5, <1>7, <3>1, <3>2, <3>3
  <2> QED BY <2>1, <2>2, <2>3 DEF EachOnce
<1>11. OnePerPlace(uvs')
  <2>1. ASSUME NEW a \in 1..Len(uvs'), NEW b \in 1..Len(uvs'),
               uvs'[a].open, uvs'[b].open, uvs'[a].place = uvs'[b].place
        PROVE  a = b
    <3>1. CASE a = n /\ b \in 1..Len(uvs)
      BY <1>3, <1>6, <1>9, <2>1, <3>1
    <3>2. CASE b = n /\ a \in 1..Len(uvs)
      BY <1>3, <1>6, <1>9, <2>1, <3>2
    <3>3. CASE a \in 1..Len(uvs) /\ b \in 1..Len(uvs)
      BY <1>6, <2>1, <3>3 DEF IInv, Listed, OnePerPlace
    <3> QED BY <1>5, <1>6, <3>1, <3>2, <3>3
  <2> QED BY <2>1 DEF OnePerPlace
<1>12. ByFrame(uvs', openuvs')
  <2>1. \A k \in 1..Len(openuvs) : FrameOf(uvs[openuvs[k]].place) <= Depth
    <3>1. ASSUME NEW k \in 1..Len(openuvs) PROVE FrameOf(uvs[openuvs[k]].place) <= Depth
      <4>1. openuvs[k] \in 1..Len(uvs) /\ uvs[openuvs[k]].open
        BY <1>5, ElementOfSeq DEF IInv, Listed, EachOnce
      <4> QED BY <1>1, <1>5, <4>1, LiveFrame DEF IInv
    <3> QED BY <3>1
  <2>2. ASSUME NEW j \in 1..Len(openuvs'), NEW k \in 1..Len(openuvs'), j <= k
        PROVE  FrameOf(uvs'[openuvs'[k]].place) <= FrameOf(uvs'[openuvs'[j]].place)
    <3>1. CASE k = 1
      <4>1. j = 1 /\ FrameOf(uvs'[openuvs'[1]].place) = Depth
        BY <1>2, <1>3, <1>5, <1>6, <1>7, <2>2, <3>1
      <4> QED BY <1>1, <3>1, <4>1
    <3>2. CASE j = 1 /\ k \in 2..Len(openuvs')
      <4>1. k - 1 \in 1..Len(openuvs) /\ openuvs'[k] = openuvs[k - 1]
        BY <1>7, <3>2
      <4>2. FrameOf(uvs'[openuvs'[k]].place) <= Depth
        BY <1>8, <2>1, <4>1
      <4> QED BY <1>2, <1>3, <1>6, <1>7, <3>2, <4>2
    <3>3. CASE j \in 2..Len(openuvs') /\ k \in 2..Len(openuvs')
      <4>1. /\ k - 1 \in 1..Len(openuvs) /\ openuvs'[k] = openuvs[k - 1]
            /\ j - 1 \in 1..Len(openuvs) /\ openuvs'[j] = openuvs[j - 1]
            /\ j - 1 <= k - 1
        <5>1. k - 1 \in 1..Len(openuvs) /\ openuvs'[k] = openuvs[k - 1]
          BY <1>7, <3>3
        <5>2. j - 1 \in 1..Len(openuvs) /\ openuvs'[j] = openuvs[j - 1]
          BY <1>7, <3>3
        <5> QED BY <2>2, <5>1, <5>2
      <4> QED BY <1>8, <4>1 DEF IInv, Listed, ByFrame
    <3> QED BY <1>5, <1>7, <2>2, <3>1, <3>2, <3>3
  <2> QED BY <2>2 DEF ByFrame
<1>13. Listed(uvs', openuvs')
  BY <1>6, <1>7, <1>10, <1>11, <1>12 DEF Listed
<1>14. Live(uvs', Len(frames'))
  <2>1. ASSUME NEW uv \in 1..Len(uvs'), uvs'[uv].open
        PROVE  \/ uvs'[uv].place = PlaceOf(0, 0)
               \/ \E d \in 1..Depth, i \in Local : uvs'[uv].place = PlaceOf(d, i)
    <3>1. CASE uv = n
      <4>1. Depth \in 1..Depth /\ uvs'[uv].place = PlaceOf(Depth, Descriptor.idx)
        BY <1>1, <1>3, <1>6, <3>1 DEF place
      <4> QED BY <1>1, <4>1
    <3>2. CASE uv \in 1..Len(uvs)
      BY <1>6, <2>1, <3>2 DEF IInv, Live
    <3> QED BY <1>5, <1>6, <3>1, <3>2
  <2> QED BY <1>4, <2>1 DEF Live, Depth
<1>15. /\ creating' \in [proto : Protos \cup {<<>>}, uvs : Seq(1..n), busy : BOOLEAN]
       /\ creating'.proto = creating.proto /\ creating'.busy = creating.busy
  <2>1. n \in Nat /\ Len(uvs) <= n /\ n \in 1..n
    BY <1>5
  <2> HIDE DEF n
  <2> QED BY <1>4, <2>1, CapturedType
<1>16. Creating'
  BY <1>4, <1>15 DEF IInv, Creating, Running, Depth
<1>17. closures \in Seq(Seq(1..n))
  <2>1. 1..Len(uvs) \subseteq 1..n
    BY <1>5
  <2>2. Seq(1..Len(uvs)) \subseteq Seq(1..n)
    BY <2>1, SeqMonotonic
  <2> QED BY <2>2, SeqMonotonic DEF IInv, TypeOK, Cell
<1>18. TypeOK' /\ Machine'
  BY <1>4, <1>6, <1>7, <1>15, <1>17 DEF IInv, TypeOK, Machine, Cell, Depth, Upvalue
<1> QED BY <1>13, <1>14, <1>16, <1>18, Primed DEF IInv

LEMMA FinishClosureStep == ASSUME IInv, FinishClosure PROVE IInv'
<1>1. /\ closures' = Append(closures, creating.uvs) /\ creating' = Idle
      /\ UNCHANGED <<regs, stack, frames, uvs, openuvs>>
  BY DEF FinishClosure
<1>2. closures \in Seq(Seq(Cell)) /\ creating.uvs \in Seq(Cell) /\ frames \in Seq(1..Len(closures))
  BY DEF IInv, TypeOK
<1>3. closures' \in Seq(Seq(Cell)) /\ Len(closures') = Len(closures) + 1 /\ Len(closures) \in Nat
  BY <1>1, <1>2, AppendProperties, LenProperties
<1>4. frames' \in Seq(1..Len(closures'))
  <2>1. 1..Len(closures) \subseteq 1..Len(closures')
    BY <1>3
  <2> QED BY <1>1, <1>2, <2>1, SeqMonotonic
<1>5. /\ creating' \in [proto : Protos \cup {<<>>}, uvs : Seq(Cell), busy : BOOLEAN]
      /\ creating'.busy = FALSE
  BY <1>1, EmptySeq DEF Idle
<1>6. Listed(uvs, openuvs)' /\ Live(uvs, Depth)'
  BY <1>1, Primed DEF IInv, Depth
<1>7. TypeOK' /\ Machine' /\ Creating'
  BY <1>1, <1>3, <1>4, <1>5 DEF IInv, TypeOK, Machine, Creating, Cell, Depth
<1> QED BY <1>6, <1>7 DEF IInv

LEMMA CallStep == ASSUME IInv, Call PROVE IInv'
<1>1. PICK c \in 2..Len(closures) : frames' = Append(frames, c)
  BY DEF Call
<1>2. /\ Depth \in 1..MaxDepth /\ Depth < MaxDepth
      /\ stack' = Stored(Local)
      /\ UNCHANGED <<regs, uvs, openuvs, closures, creating>>
      /\ ~creating.busy
  BY ActiveDepth DEF Call, Active
<1>3. frames' \in Seq(1..Len(closures)) /\ Len(frames') = Depth + 1
  <2>1. frames \in Seq(1..Len(closures)) /\ c \in 1..Len(closures)
    BY <1>1 DEF IInv, TypeOK
  <2> QED BY <1>1, <2>1, AppendProperties DEF Depth
<1>4. stack' \in [Place -> Value]
  BY <1>2, StoredType DEF IInv
<1>5. Live(uvs', Len(frames'))
  <2>1. 1..Depth \subseteq 1..Len(frames')
    BY <1>2, <1>3
  <2>2. Live(uvs, Depth)
    BY DEF IInv
  <2> QED BY <1>2, <2>1, <2>2 DEF Live
<1>6. Listed(uvs', openuvs')
  BY <1>2 DEF IInv
<1>7. TypeOK' /\ Creating'
  BY <1>2, <1>3, <1>4 DEF IInv, TypeOK, Creating, Cell
<1>8. Machine'
  BY <1>2, <1>3, <1>4, BoundsAssumption DEF IInv, Machine, Depth
<1> QED BY <1>5, <1>6, <1>7, <1>8, Primed DEF IInv

-----------------------------------------------------------------------------
\* closure_close stops at the first upvalue that is not beyond its base.
LEMMA MigratedFacts ==
    ASSUME openuvs \in Seq(Cell), NEW base
    PROVE  /\ NrMigrated(base) \in 0..Len(openuvs)
           /\ \A k \in 1..NrMigrated(base) : Beyond(openuvs[k], base)
           /\ NrMigrated(base) < Len(openuvs) => ~Beyond(openuvs[NrMigrated(base) + 1], base)
<1> DEFINE ends == {n \in 0..Len(openuvs) : n < Len(openuvs) => ~Beyond(openuvs[n + 1], base)}
           less == OpToRel(<, Nat)
<1>1. Len(openuvs) \in Nat
  BY LenProperties
<1>2. ends # {} /\ ends \subseteq Nat
  <2>1. Len(openuvs) \in ends
    BY <1>1
  <2> QED BY <2>1
<1>3. \E n \in ends : \A m \in ends : n <= m
  <2>1. \A d, e \in Nat : d < e => <<d, e>> \in less
    BY DEF OpToRel
  <2>2. IsWellFoundedOn(less, Nat)
    BY NatLessThanWellFounded
  <2> HIDE DEF ends, less
  <2>3. PICK n \in ends : \A m \in ends \ {n} : <<m, n>> \notin less
    BY <1>2, <2>2, WFMin
  <2>4. ASSUME NEW m \in ends PROVE n <= m
    <3>1. m \in Nat /\ n \in Nat
      BY <1>2
    <3>2. m = n \/ ~(m < n)
      BY <2>1, <2>3, <3>1
    <3> QED BY <3>1, <3>2
  <2> QED BY <2>4
<1>4. PICK n \in ends : \A m \in ends : n <= m
  BY <1>3
<1>5. \A k \in 1..n : Beyond(openuvs[k], base)
  <2>1. ASSUME NEW k \in 1..n, ~Beyond(openuvs[k], base) PROVE FALSE
    <3>1. k - 1 \in 0..Len(openuvs) /\ (k - 1) + 1 = k /\ ~(n <= k - 1)
      BY <1>1
    <3>2. k - 1 \in ends
      BY <2>1, <3>1
    <3> QED BY <1>4, <3>1, <3>2
  <2> QED BY <2>1
<1>6. \E m \in 0..Len(openuvs) :
          /\ \A k \in 1..m : Beyond(openuvs[k], base)
          /\ m < Len(openuvs) => ~Beyond(openuvs[m + 1], base)
  BY <1>4, <1>5
<1> QED BY <1>6 DEF NrMigrated

\* What closure_close leaves open is the rest of the list, as it was.
LEMMA Closed ==
    ASSUME IInv, NEW base, NEW mem \in [Place -> Value], ClosureClose(base, mem)
    PROVE  /\ Listed(uvs', openuvs') /\ Len(uvs') = Len(uvs)
           /\ \A uv \in 1..Len(uvs') : uvs'[uv].open =>
                  /\ uvs[uv].open /\ uvs'[uv] = uvs[uv]
                  /\ \E k \in 1..Len(openuvs) : NrMigrated(base) < k /\ openuvs[k] = uv
<1>1. /\ uvs \in Seq(Upvalue) /\ Len(uvs) \in Nat
      /\ openuvs \in Seq(1..Len(uvs)) /\ openuvs \in Seq(Cell) /\ Len(openuvs) \in Nat
      /\ \A k \in 1..Len(openuvs) : openuvs[k] \in 1..Len(uvs) /\ uvs[openuvs[k]].open
      /\ \A j, k \in 1..Len(openuvs) : openuvs[j] = openuvs[k] => j = k
      /\ \A uv \in 1..Len(uvs) : uvs[uv].open => \E k \in 1..Len(openuvs) : openuvs[k] = uv
  BY LenProperties, ElementOfSeq DEF IInv, Listed, EachOnce, Cell
<1>2. PICK n \in 0..Len(openuvs) : n = NrMigrated(base)
  BY <1>1, MigratedFacts
<1>3. /\ uvs' = [uv \in 1..Len(uvs) |-> IF \E k \in 1..n : openuvs[k] = uv
                                       THEN Own(mem[uvs[uv].place]) ELSE uvs[uv]]
      /\ openuvs' = SubSeq(openuvs, n + 1, Len(openuvs))
  BY <1>2 DEF ClosureClose, MigratedValue
<1>4. ASSUME NEW uv \in 1..Len(uvs), \E k \in 1..n : openuvs[k] = uv
      PROVE  uvs'[uv] \in Upvalue /\ uvs'[uv].open = FALSE
  <2>1. uvs[uv].place \in Place
    <3>1. uvs[uv].open
      <4>1. PICK k \in 1..n : openuvs[k] = uv
        BY <1>4
      <4>2. k \in 1..Len(openuvs)
        BY <1>1
      <4> QED BY <1>1, <4>1, <4>2
    <3> QED BY <1>1, <3>1, UpvalueFacts
  <2>2. mem[uvs[uv].place] \in Value
    BY <2>1
  <2> QED BY <1>3, <1>4, <2>2 DEF Upvalue, Own
<1>5. ASSUME NEW uv \in 1..Len(uvs), ~\E k \in 1..n : openuvs[k] = uv
      PROVE  uvs'[uv] = uvs[uv]
  BY <1>3, <1>5
<1>6. uvs' \in Seq(Upvalue) /\ Len(uvs') = Len(uvs)
  <2>1. ASSUME NEW uv \in 1..Len(uvs) PROVE uvs'[uv] \in Upvalue
    <3>1. uvs[uv] \in Upvalue
      BY <1>1, ElementOfSeq
    <3> QED BY <1>4, <1>5, <3>1
  <2>2. uvs' \in [1..Len(uvs) -> Upvalue]
    BY <1>3, <2>1
  <2> QED BY <1>1, <2>2, SeqDef
<1>7. /\ openuvs' \in Seq(1..Len(uvs)) /\ Len(openuvs') = Len(openuvs) - n
      /\ \A k \in 1..Len(openuvs') : n + k \in 1..Len(openuvs) /\ openuvs'[k] = openuvs[n + k]
  <2>1. \A k \in (n + 1)..Len(openuvs) : openuvs[k] \in 1..Len(uvs)
    BY <1>1
  <2>2. /\ SubSeq(openuvs, n + 1, Len(openuvs)) \in Seq(1..Len(uvs))
        /\ Len(SubSeq(openuvs, n + 1, Len(openuvs))) =
               IF n + 1 <= Len(openuvs) THEN Len(openuvs) - (n + 1) + 1 ELSE 0
        /\ \A k \in 1..(Len(openuvs) - (n + 1) + 1) :
               SubSeq(openuvs, n + 1, Len(openuvs))[k] = openuvs[n + 1 + k - 1]
    BY <1>1, <2>1, SubSeqProperties
  <2>3. /\ openuvs' \in Seq(1..Len(uvs)) /\ Len(openuvs') = Len(openuvs) - n
        /\ \A k \in 1..(Len(openuvs) - n) : openuvs'[k] = openuvs[n + 1 + k - 1]
    BY <1>1, <1>3, <2>2
  <2>4. ASSUME NEW k \in 1..Len(openuvs')
        PROVE  n + k \in 1..Len(openuvs) /\ openuvs'[k] = openuvs[n + k]
    <3>1. n + 1 + k - 1 = n + k /\ n + k \in 1..Len(openuvs) /\ k \in 1..(Len(openuvs) - n)
      BY <1>1, <2>3
    <3> QED BY <2>3, <3>1
  <2> QED BY <2>3, <2>4
<1>8. \A k \in 1..Len(openuvs') : uvs'[openuvs'[k]] = uvs[openuvs'[k]]
  <2>1. ASSUME NEW k \in 1..Len(openuvs') PROVE uvs'[openuvs'[k]] = uvs[openuvs'[k]]
    <3>1. n + k \in 1..Len(openuvs) /\ openuvs'[k] = openuvs[n + k] /\ n + k \notin 1..n
      BY <1>7
    <3>2. ~\E j \in 1..n : openuvs[j] = openuvs[n + k]
      <4>1. \A j \in 1..n : j \in 1..Len(openuvs)
        BY <1>1
      <4> QED BY <1>1, <3>1, <4>1
    <3>3. openuvs'[k] \in 1..Len(uvs)
      BY <1>1, <3>1
    <3> QED BY <1>5, <3>1, <3>2, <3>3
  <2> QED BY <2>1
<1>9. ASSUME NEW uv \in 1..Len(uvs), uvs'[uv].open
      PROVE  /\ uvs[uv].open /\ uvs'[uv] = uvs[uv]
             /\ \E k \in 1..Len(openuvs) : n < k /\ openuvs[k] = uv
  <2>1. ~\E k \in 1..n : openuvs[k] = uv
    BY <1>4, <1>9
  <2>2. uvs'[uv] = uvs[uv] /\ uvs[uv].open
    BY <1>5, <1>9, <2>1
  <2>3. PICK k \in 1..Len(openuvs) : openuvs[k] = uv
    BY <1>1, <2>2
  <2>4. n < k
    BY <1>1, <2>1, <2>3
  <2> QED BY <2>2, <2>3, <2>4
<1>10. EachOnce(uvs', openuvs')
  <2>1. ASSUME NEW k \in 1..Len(openuvs') PROVE uvs'[openuvs'[k]].open
    <3>1. uvs[openuvs[n + k]].open
      BY <1>1, <1>7
    <3> QED BY <1>7, <1>8, <3>1
  <2>2. ASSUME NEW uv \in 1..Len(uvs'), uvs'[uv].open PROVE \E k \in 1..Len(openuvs') : openuvs'[k] = uv
    <3>1. PICK j \in 1..Len(openuvs) : n < j /\ openuvs[j] = uv
      BY <1>6, <1>9, <2>2
    <3>2. j - n \in 1..Len(openuvs') /\ n + (j - n) = j
      BY <1>1, <1>7, <3>1
    <3>3. openuvs'[j - n] = openuvs[n + (j - n)]
      BY <1>7, <3>2
    <3> QED BY <3>1, <3>2, <3>3
  <2>3. ASSUME NEW j \in 1..Len(openuvs'), NEW k \in 1..Len(openuvs'), openuvs'[j] = openuvs'[k]
        PROVE  j = k
    <3>1. n + j \in 1..Len(openuvs) /\ n + k \in 1..Len(openuvs) /\ openuvs[n + j] = openuvs[n + k]
      BY <1>7, <2>3
    <3>2. n + j = n + k
      BY <1>1, <3>1
    <3> QED BY <1>7, <3>2
  <2> QED BY <2>1, <2>2, <2>3 DEF EachOnce
<1>11. OnePerPlace(uvs')
  <2>1. \A uv \in 1..Len(uvs) : uvs'[uv].open => uvs[uv].open /\ uvs'[uv] = uvs[uv]
    BY <1>9
  <2>2. OnePerPlace(uvs) /\ Len(uvs') = Len(uvs)
    BY <1>6 DEF IInv, Listed
  <2> QED BY <2>1, <2>2 DEF OnePerPlace
<1>12. ByFrame(uvs', openuvs')
  <2>1. ASSUME NEW j \in 1..Len(openuvs'), NEW k \in 1..Len(openuvs'), j <= k
        PROVE  FrameOf(uvs'[openuvs'[k]].place) <= FrameOf(uvs'[openuvs'[j]].place)
    <3>1. /\ n + j \in 1..Len(openuvs) /\ n + k \in 1..Len(openuvs) /\ n + j <= n + k
          /\ uvs'[openuvs'[k]] = uvs[openuvs[n + k]] /\ uvs'[openuvs'[j]] = uvs[openuvs[n + j]]
      BY <1>7, <1>8, <2>1
    <3>2. FrameOf(uvs[openuvs[n + k]].place) <= FrameOf(uvs[openuvs[n + j]].place)
      BY <3>1 DEF IInv, Listed, ByFrame
    <3> QED BY <3>1, <3>2
  <2> QED BY <2>1 DEF ByFrame
<1> QED BY <1>2, <1>6, <1>7, <1>9, <1>10, <1>11, <1>12 DEF Listed

LEMMA JumpStep == ASSUME IInv, Jump PROVE IInv'
<1>1. PICK a \in JumpArgs : ClosureClose(PlaceOf(Depth, a + 1), stack)
  BY DEF Jump
<1>2. stack \in [Place -> Value] /\ UNCHANGED <<regs, stack, frames, closures, creating>>
  BY DEF IInv, Machine, Jump
<1>3. /\ Listed(uvs', openuvs') /\ Len(uvs') = Len(uvs)
      /\ \A uv \in 1..Len(uvs') : uvs'[uv].open => uvs[uv].open /\ uvs'[uv] = uvs[uv]
  BY <1>1, <1>2, Closed
<1>4. Live(uvs', Len(frames'))
  BY <1>2, <1>3 DEF IInv, Live, Depth
<1>5. TypeOK' /\ Machine' /\ Creating'
  BY <1>2, <1>3 DEF IInv, TypeOK, Machine, Creating, Cell, Depth, Running, Listed, Upvalue
<1> QED BY <1>3, <1>4, <1>5, Primed DEF IInv

\* The epilogue closes the upvalues of the frame that is popped: what it leaves
\* open is in the frames below.
LEMMA ReturnStep == ASSUME IInv, Return PROVE IInv'
<1>1. PICK first \in Local, last \in -1..(NrLocals - 1) :
          /\ stack' = Stored(first..last)
          /\ ClosureClose(CallSlot(Depth - 1), Stored(first..last))
          /\ regs' = IF Depth = 1 THEN regs
                     ELSE [i \in RegLocal |-> Stored(first..last)[PlaceOf(Depth - 1, i)]]
  BY DEF Return
<1>2. /\ Depth \in 1..MaxDepth /\ frames' = SubSeq(frames, 1, Depth - 1)
      /\ UNCHANGED <<closures, creating>> /\ creating.busy = FALSE
  BY ActiveDepth DEF Return, Active, IInv, TypeOK
<1>3. Stored(first..last) \in [Place -> Value]
  <2>1. first..last \in SUBSET Local
    BY LocalsAssumption DEF Local
  <2> QED BY <1>2, <2>1, StoredType DEF IInv
<1>4. regs' \in [RegLocal -> Value]
  <2>1. CASE Depth = 1
    BY <1>1, <2>1 DEF IInv, Machine
  <2>2. CASE Depth # 1
    <3>1. ASSUME NEW i \in RegLocal PROVE PlaceOf(Depth - 1, i) \in Place
      <4>1. Depth - 1 \in 0..MaxDepth /\ i \in 0..NrLocals
        BY <1>2, LocalsAssumption, BoundsAssumption DEF RegLocal, Local
      <4> QED BY <4>1, PlaceFacts
    <3> QED BY <1>1, <1>3, <2>2, <3>1
  <2> QED BY <2>1, <2>2
<1>5. frames' \in Seq(1..Len(closures)) /\ Len(frames') = Depth - 1
  <2>1. frames \in Seq(1..Len(closures))
    BY DEF IInv, TypeOK
  <2>2. \A k \in 1..(Depth - 1) : frames[k] \in 1..Len(closures)
    BY <1>2, <2>1, ElementOfSeq DEF Depth
  <2>3. /\ SubSeq(frames, 1, Depth - 1) \in Seq(1..Len(closures))
        /\ Len(SubSeq(frames, 1, Depth - 1)) =
               IF 1 <= Depth - 1 THEN (Depth - 1) - 1 + 1 ELSE 0
    BY <1>2, <2>2, SubSeqProperties
  <2> QED BY <1>2, <2>3
<1>6. /\ Listed(uvs', openuvs') /\ Len(uvs') = Len(uvs)
      /\ \A uv \in 1..Len(uvs') : uvs'[uv].open =>
             /\ uvs[uv].open /\ uvs'[uv] = uvs[uv]
             /\ \E k \in 1..Len(openuvs) : NrMigrated(CallSlot(Depth - 1)) < k /\ openuvs[k] = uv
  BY <1>1, <1>3, Closed
<1>7. ASSUME NEW uv \in 1..Len(uvs'), uvs'[uv].open
      PROVE  FrameOf(uvs'[uv].place) <= Depth - 1
  <2> DEFINE n == NrMigrated(CallSlot(Depth - 1))
  <2>1. PICK k \in 1..Len(openuvs) : n < k /\ openuvs[k] = uv
    BY <1>6, <1>7
  <2>2. /\ openuvs \in Seq(Cell) /\ Len(openuvs) \in Nat
        /\ uvs \in Seq(Upvalue)
        /\ \A j \in 1..Len(openuvs) : openuvs[j] \in 1..Len(uvs) /\ uvs[openuvs[j]].open
    BY LenProperties, ElementOfSeq DEF IInv, Listed, EachOnce, Cell
  <2>3. /\ n \in 0..Len(openuvs)
        /\ n < Len(openuvs) => ~Beyond(openuvs[n + 1], CallSlot(Depth - 1))
    BY <2>2, MigratedFacts
  <2> HIDE DEF n
  <2>4. n + 1 \in 1..Len(openuvs) /\ n + 1 <= k /\ ~Beyond(openuvs[n + 1], CallSlot(Depth - 1))
    BY <2>1, <2>2, <2>3
  <2>5. FrameOf(uvs[openuvs[n + 1]].place) <= Depth - 1
    <3>1. uvs[openuvs[n + 1]].place \in Place
      BY <2>2, <2>4, UpvalueFacts
    <3>2. uvs[openuvs[n + 1]].place \in Nat /\ Depth - 1 \in Nat
      BY <1>2, <3>1, LocalsAssumption, BoundsAssumption DEF Place
    <3>3. PlaceOf(Depth - 1, NrLocals) \in Nat
      BY <3>2, LocalsAssumption DEF PlaceOf, FrameSize
    <3>4. uvs[openuvs[n + 1]].place < PlaceOf(Depth - 1, NrLocals)
      BY <2>4, <3>2, <3>3 DEF Beyond, CallSlot
    <3> QED BY <3>2, <3>4, FrameOrder
  <2>6. FrameOf(uvs[openuvs[k]].place) <= FrameOf(uvs[openuvs[n + 1]].place)
    BY <2>4 DEF IInv, Listed, ByFrame
  <2>7. FrameOf(uvs[openuvs[k]].place) \in Int /\ FrameOf(uvs[openuvs[n + 1]].place) \in Int
    <3>1. uvs[openuvs[k]].place \in Place /\ uvs[openuvs[n + 1]].place \in Place
      BY <2>2, <2>4, UpvalueFacts
    <3> QED BY <3>1, LocalsAssumption, BoundsAssumption DEF Place, FrameOf, FrameSize
  <2> QED BY <1>2, <1>6, <1>7, <2>1, <2>5, <2>6, <2>7
<1>8. Live(uvs', Len(frames'))
  <2>1. Live(uvs', Depth)
    BY <1>6 DEF IInv, Live
  <2>2. uvs' \in Seq(Upvalue)
    BY <1>6 DEF Listed
  <2> QED BY <1>2, <1>5, <1>7, <2>1, <2>2, LiveBelow
<1>9. TypeOK'
  BY <1>1, <1>2, <1>3, <1>4, <1>5, <1>6 DEF IInv, TypeOK, Cell, Listed, Upvalue
<1>10. Machine'
  BY <1>1, <1>2, <1>3, <1>4, <1>5, BoundsAssumption DEF Machine, Depth
<1>11. Creating'
  BY <1>2 DEF Creating
<1> QED BY <1>6, <1>8, <1>9, <1>10, <1>11, Primed DEF IInv

LEMMA NextIInv == IInv /\ [Next]_vars => IInv'
<1> SUFFICES ASSUME IInv, [Next]_vars PROVE IInv'
  OBVIOUS
<1>1. CASE UNCHANGED vars
  <2>1. regs' \in [RegLocal -> Value] /\ stack' \in [Place -> Value]
    BY <1>1 DEF vars, IInv, Machine
  <2> QED BY <1>1, <2>1, WordsStep DEF vars
<1>2. CASE Next
  BY <1>2, SetLocalStep, GetUpvalStep, SetUpvalStep, StartClosureStep, CaptureOpenStep,
     CaptureNewStep, CaptureParentStep, FinishClosureStep, CallStep, ReturnStep, JumpStep
     DEF Next
<1> QED BY <1>1, <1>2

LEMMA AlwaysIInv == Spec => []IInv
BY InitIInv, NextIInv, PTL DEF Spec

-----------------------------------------------------------------------------
\* Upvalues, closures and registers hold what they should, whatever a program
\* captures, calls and closes (src/func.c:65).
THEOREM TypeCorrect == Spec => []TypeOK
<1>1. IInv => TypeOK
  BY DEF IInv
<1> QED BY <1>1, AlwaysIInv, PTL

\* No closure ever has an upvalue that points into a frame which was popped:
\* the close of every return reaches all upvalues of its frame
\* (src/xlogue.c:389).
THEOREM OpenUpvaluesStayLive == Spec => []OpenUpvaluesLive
<1>1. IInv => OpenUpvaluesLive
  BY ListProperties
<1> QED BY <1>1, AlwaysIInv, PTL

\* Two closures that capture a variable share its upvalue, and the list of open
\* upvalues holds each of them once (src/func.c:15).
THEOREM UpvaluesAreShared == Spec => []OneUpvaluePerPlace
<1>1. IInv => OneUpvaluePerPlace
  BY ListProperties
<1> QED BY <1>1, AlwaysIInv, PTL

\* The list is in the order of the frames, so that to stop at the first upvalue
\* below the base is enough (src/func.c:50).
THEOREM ListStaysByFrame == Spec => []OpenListByFrame
<1>1. IInv => OpenListByFrame
  BY ListProperties
<1> QED BY <1>1, AlwaysIInv, PTL

-----------------------------------------------------------------------------
(***************************************************************************)
(* The refinement.  A local has its value in a register or in its place on *)
(* the stack, and a function that uses an upvalue goes to the place.  That *)
(* is right as long as the variable is of a frame below, whose registers   *)
(* the calls have stored.                                                  *)
(***************************************************************************)
RunningBelow ==
    \A d \in 1..Depth : \A u \in 1..Len(closures[frames[d]]) :
        uvs[closures[frames[d]][u]].open => FrameOf(uvs[closures[frames[d]][u]].place) < d

\* The step of CloseTakesCurrentValue.
Current ==
    \A uv \in Cell, i \in Local :
        uvs[uv] = At(PlaceOf(Depth, i)) /\ ~uvs'[uv].open => uvs'[uv].v = LocalValue(i)

\* What a closure that is being created has got so far.
Captured ==
    creating.busy =>
        /\ Len(creating.uvs) <= Len(creating.proto)
        /\ \A k \in 1..Len(creating.uvs) :
              \/ \E i \in Local : uvs[creating.uvs[k]] = At(PlaceOf(Depth, i))
              \/ \E u \in 1..Len(closures[Running]) : creating.uvs[k] = closures[Running][u]

RInv == IInv /\ RunningBelow /\ Captured

\* The mapping, of any state.
Word(rg, st, depth, d, i) == IF d = depth /\ i \in RegLocal THEN rg[i] ELSE st[PlaceOf(d, i)]
HasBox(us, place) == \E uv \in 1..Len(us) : us[uv] = At(place)
BoxOf(us, place) == CHOOSE uv \in {b \in 1..Len(us) : us[b] = At(place)} : TRUE
VarOf(rg, st, us, depth, d, i) ==
    IF HasBox(us, PlaceOf(d, i)) THEN Boxed!InBox(BoxOf(us, PlaceOf(d, i)))
    ELSE Boxed!Direct(Word(rg, st, depth, d, i))

\* The stack as it would be with the registers of the running function stored.
Memory(rg, st, depth) ==
    [p \in Place |->
        IF depth # 0 /\ \E i \in RegLocal : p = PlaceOf(depth, i)
        THEN rg[CHOOSE i \in RegLocal : p = PlaceOf(depth, i)]
        ELSE st[p]]
Mem == Memory(regs, stack, Depth)

ContentsOf(mem, us, uv) == IF us[uv].open THEN mem[us[uv].place] ELSE us[uv].v
FramesOf(rg, st, us, fr) ==
    [d \in 1..Len(fr) |-> [closure |-> fr[d],
                           locals |-> [i \in Local |-> VarOf(rg, st, us, Len(fr), d, i)]]]
BoxesOf(mem, us) == [uv \in 1..Len(us) |-> ContentsOf(mem, us, uv)]

LEMMA PlaceInjective ==
    ASSUME NEW d \in 0..MaxDepth, NEW i \in Local, NEW e \in 0..MaxDepth, NEW j \in Local,
           PlaceOf(d, i) = PlaceOf(e, j)
    PROVE  d = e /\ i = j
<1>1. i \in 0..NrLocals /\ j \in 0..NrLocals
  BY LocalsAssumption DEF Local
<1>2. FrameOf(PlaceOf(d, i)) = d /\ FrameOf(PlaceOf(e, j)) = e
  BY <1>1, PlaceFacts
<1>3. d = e
  BY <1>2
<1> QED BY <1>1, <1>3, LocalsAssumption, BoundsAssumption DEF PlaceOf, FrameSize

LEMMA BoxFacts ==
    ASSUME NEW us \in Seq(Upvalue), OnePerPlace(us), NEW place
    PROVE  /\ HasBox(us, place) => /\ BoxOf(us, place) \in 1..Len(us)
                                   /\ us[BoxOf(us, place)] = At(place)
           /\ \A uv \in 1..Len(us) : us[uv] = At(place) =>
                  HasBox(us, place) /\ BoxOf(us, place) = uv
<1>1. ASSUME HasBox(us, place)
      PROVE  BoxOf(us, place) \in 1..Len(us) /\ us[BoxOf(us, place)] = At(place)
  <2>1. \E uv \in {b \in 1..Len(us) : us[b] = At(place)} : TRUE
    BY <1>1 DEF HasBox
  <2>2. BoxOf(us, place) \in {b \in 1..Len(us) : us[b] = At(place)}
    BY <2>1 DEF BoxOf
  <2> QED BY <2>2
<1>2. ASSUME NEW uv \in 1..Len(us), us[uv] = At(place)
      PROVE  HasBox(us, place) /\ BoxOf(us, place) = uv
  <2>1. HasBox(us, place)
    BY <1>2 DEF HasBox
  <2>2. PICK b \in 1..Len(us) : b = BoxOf(us, place) /\ us[b] = At(place)
    BY <1>1, <2>1
  <2>3. us[b].open /\ us[uv].open /\ us[b].place = us[uv].place
    BY <1>2, <2>2 DEF At
  <2>4. b = uv
    BY <2>3 DEF OnePerPlace
  <2> QED BY <2>1, <2>2, <2>4
<1> QED BY <1>1, <1>2

LEMMA MemoryFacts ==
    ASSUME NEW rg \in [RegLocal -> Value], NEW st \in [Place -> Value],
           NEW depth \in 0..MaxDepth
    PROVE  /\ Memory(rg, st, depth) \in [Place -> Value]
           /\ \A d \in 1..MaxDepth, j \in Local :
                  Memory(rg, st, depth)[PlaceOf(d, j)] = Word(rg, st, depth, d, j)
           /\ Memory(rg, st, depth)[PlaceOf(0, 0)] = st[PlaceOf(0, 0)]
<1>1. Memory(rg, st, depth) \in [Place -> Value]
  <2>1. ASSUME NEW p \in Place PROVE Memory(rg, st, depth)[p] \in Value
    <3>1. CASE depth # 0 /\ \E i \in RegLocal : p = PlaceOf(depth, i)
      <4>1. (CHOOSE i \in RegLocal : p = PlaceOf(depth, i)) \in RegLocal
        BY <3>1
      <4> QED BY <3>1, <4>1 DEF Memory
    <3>2. CASE ~(depth # 0 /\ \E i \in RegLocal : p = PlaceOf(depth, i))
      BY <3>2 DEF Memory
    <3> QED BY <3>1, <3>2
  <2> QED BY <2>1 DEF Memory
<1>2. ASSUME NEW d \in 0..MaxDepth, NEW j \in Local
      PROVE  /\ PlaceOf(d, j) \in Place
             /\ \A i \in RegLocal : PlaceOf(d, j) = PlaceOf(depth, i) => d = depth /\ i = j
  <2>1. PlaceOf(d, j) \in Place
    BY PlaceFacts, LocalsAssumption DEF Local
  <2>2. RegLocal \subseteq Local
    BY DEF RegLocal
  <2> QED BY <2>1, <2>2, PlaceInjective
<1>3. ASSUME NEW d \in 1..MaxDepth, NEW j \in Local
      PROVE  Memory(rg, st, depth)[PlaceOf(d, j)] = Word(rg, st, depth, d, j)
  <2>1. d \in 0..MaxDepth /\ d # 0
    BY BoundsAssumption
  <2>2. CASE d = depth /\ j \in RegLocal
    <3>1. \E i \in RegLocal : PlaceOf(d, j) = PlaceOf(depth, i)
      BY <2>2
    <3>2. (CHOOSE i \in RegLocal : PlaceOf(d, j) = PlaceOf(depth, i)) = j
      <4>1. PICK i \in RegLocal :
                /\ i = (CHOOSE k \in RegLocal : PlaceOf(d, j) = PlaceOf(depth, k))
                /\ PlaceOf(d, j) = PlaceOf(depth, i)
        BY <3>1
      <4> QED BY <1>2, <2>1, <4>1
    <3> QED BY <1>2, <2>1, <2>2, <3>1, <3>2 DEF Memory, Word
  <2>3. CASE ~(d = depth /\ j \in RegLocal)
    <3>1. ~\E i \in RegLocal : PlaceOf(d, j) = PlaceOf(depth, i)
      BY <1>2, <2>1, <2>3
    <3> QED BY <1>2, <2>1, <2>3, <3>1 DEF Memory, Word
  <2> QED BY <2>2, <2>3
<1>4. Memory(rg, st, depth)[PlaceOf(0, 0)] = st[PlaceOf(0, 0)]
  <2>1. 0 \in 0..MaxDepth /\ 0 \in Local
    BY LocalsAssumption, BoundsAssumption DEF Local
  <2>2. depth # 0 => ~\E i \in RegLocal : PlaceOf(0, 0) = PlaceOf(depth, i)
    BY <1>2, <2>1
  <2> QED BY <1>2, <2>1, <2>2 DEF Memory
<1> QED BY <1>1, <1>3, <1>4

\* Before and after a step.
LEMMA MemFacts ==
    IInv => /\ Mem \in [Place -> Value]
            /\ \A d \in 1..MaxDepth, j \in Local :
                   Mem[PlaceOf(d, j)] = Word(regs, stack, Depth, d, j)
            /\ Mem[PlaceOf(0, 0)] = stack[PlaceOf(0, 0)]
BY MemoryFacts DEF IInv, Machine, Mem

LEMMA MemFactsNext ==
    IInv' => /\ Mem' \in [Place -> Value]
             /\ \A d \in 1..MaxDepth, j \in Local :
                    Mem'[PlaceOf(d, j)] = Word(regs', stack', Depth', d, j)
             /\ Mem'[PlaceOf(0, 0)] = stack'[PlaceOf(0, 0)]
<1> SUFFICES ASSUME IInv' PROVE
             /\ Mem' \in [Place -> Value]
             /\ \A d \in 1..MaxDepth, j \in Local :
                    Mem'[PlaceOf(d, j)] = Word(regs', stack', Depth', d, j)
             /\ Mem'[PlaceOf(0, 0)] = stack'[PlaceOf(0, 0)]
  OBVIOUS
<1>1. regs' \in [RegLocal -> Value] /\ stack' \in [Place -> Value] /\ Depth' \in 0..MaxDepth
  BY DEF IInv, Machine
<1>2. Mem' = Memory(regs', stack', Depth')
  BY DEF Mem, Memory
<1> QED BY <1>1, <1>2, MemoryFacts

\* Where the variable of an open upvalue is.
LEMMA OpenPlace ==
    ASSUME NEW us \in Seq(Upvalue), NEW depth \in 0..MaxDepth, Live(us, depth),
           NEW uv \in 1..Len(us), us[uv].open, us[uv].place # PlaceOf(0, 0)
    PROVE  \E d \in 1..depth, i \in Local :
               /\ us[uv] = At(PlaceOf(d, i)) /\ us[uv].place = PlaceOf(d, i)
               /\ PlaceOf(d, i) \div FrameSize = d /\ PlaceOf(d, i) % FrameSize = i
<1>1. PICK d \in 1..depth, i \in Local : us[uv].place = PlaceOf(d, i)
  BY DEF Live
<1>2. d \in 1..MaxDepth /\ us[uv] = At(PlaceOf(d, i))
  BY <1>1, UpvalueFacts, BoundsAssumption
<1>3. PlaceOf(d, i) \div FrameSize = d /\ PlaceOf(d, i) % FrameSize = i
  BY <1>1, <1>2, LocalsAssumption, BoundsAssumption DEF PlaceOf, FrameSize, Local
<1> QED BY <1>1, <1>2, <1>3

\* The mapping of Upvalues, in terms of the state.
LEMMA Mapping ==
    ASSUME IInv
    PROVE  /\ BoxedFrames = FramesOf(regs, stack, uvs, frames)
           /\ BoxContents = BoxesOf(Mem, uvs)
<1>1. uvs \in Seq(Upvalue) /\ Depth \in 0..MaxDepth /\ Live(uvs, Depth)
  BY DEF IInv, Listed, Machine
<1>2. \A d, i : i \in Local => ValueIn(d, i) = Word(regs, stack, Depth, d, i)
  BY DEF ValueIn, LocalValue, Word
<1>3. ASSUME NEW d \in 1..Depth, NEW i \in Local
      PROVE  Variable(d, i) = VarOf(regs, stack, uvs, Depth, d, i)
  <2>1. BoxesAt(PlaceOf(d, i)) = {b \in 1..Len(uvs) : uvs[b] = At(PlaceOf(d, i))}
    BY DEF BoxesAt, Cell
  <2>2. BoxesAt(PlaceOf(d, i)) # {} <=> HasBox(uvs, PlaceOf(d, i))
    BY <2>1 DEF HasBox
  <2>3. (CHOOSE uv \in BoxesAt(PlaceOf(d, i)) : TRUE) = BoxOf(uvs, PlaceOf(d, i))
    BY <2>1 DEF BoxOf
  <2> QED BY <1>2, <2>2, <2>3 DEF Variable, VarOf, Boxed!InBox, Boxed!Direct
<1>4. ASSUME NEW uv \in Cell PROVE Contents(uv) = ContentsOf(Mem, uvs, uv)
  <2>1. CASE ~uvs[uv].open
    BY <2>1 DEF Contents, ContentsOf
  <2>2. CASE uvs[uv].open /\ uvs[uv].place = PlaceOf(0, 0)
    BY <2>2, MemFacts DEF Contents, ContentsOf
  <2>3. CASE uvs[uv].open /\ uvs[uv].place # PlaceOf(0, 0)
    <3>1. PICK d \in 1..Depth, i \in Local :
              /\ uvs[uv].place = PlaceOf(d, i)
              /\ PlaceOf(d, i) \div FrameSize = d /\ PlaceOf(d, i) % FrameSize = i
      <4>1. PICK us, depth : us = uvs /\ depth = Depth
        OBVIOUS
      <4>2. /\ us \in Seq(Upvalue) /\ depth \in 0..MaxDepth /\ Live(us, depth)
            /\ uv \in 1..Len(us) /\ us[uv].open /\ us[uv].place # PlaceOf(0, 0)
        BY <1>1, <2>3, <4>1 DEF Cell
      <4>3. \E d \in 1..depth, i \in Local :
               /\ us[uv].place = PlaceOf(d, i)
               /\ PlaceOf(d, i) \div FrameSize = d /\ PlaceOf(d, i) % FrameSize = i
        BY <4>2, OpenPlace
      <4> QED BY <4>1, <4>3
    <3>2. Contents(uv) = ValueIn(d, i)
      BY <2>3, <3>1 DEF Contents
    <3>3. ValueIn(d, i) = Mem[PlaceOf(d, i)]
      <4>1. d \in 1..MaxDepth
        BY <1>1, <3>1, BoundsAssumption
      <4> QED BY <1>2, <3>1, <4>1, MemFacts
    <3> QED BY <2>3, <3>1, <3>2, <3>3 DEF ContentsOf
  <2> QED BY <2>1, <2>2, <2>3
<1>5. BoxedFrames = FramesOf(regs, stack, uvs, frames)
  BY <1>3 DEF BoxedFrames, FramesOf, Depth
<1>6. BoxContents = BoxesOf(Mem, uvs)
  BY <1>4 DEF BoxContents, BoxesOf, Cell
<1> QED BY <1>5, <1>6

-----------------------------------------------------------------------------
\* Upvalues that are open after a step and were there before it point where they
\* pointed, and the frames that remain run the closures they ran.
LEMMA BelowKept ==
    ASSUME IInv, RunningBelow, Depth' \in 0..Depth,
           \A d \in 1..Depth' : frames'[d] = frames[d],
           \A c \in 1..Len(closures) : closures'[c] = closures[c],
           \A uv \in 1..Len(uvs) : uvs'[uv].open => uvs'[uv] = uvs[uv]
    PROVE  RunningBelow'
<1>1. ASSUME NEW d \in 1..Depth', NEW u \in 1..Len(closures'[frames'[d]]),
             uvs'[closures'[frames'[d]][u]].open
      PROVE  FrameOf(uvs'[closures'[frames'[d]][u]].place) < d
  <2>1. /\ frames \in Seq(1..Len(closures)) /\ closures \in Seq(Seq(Cell))
        /\ Depth \in Nat /\ d \in 1..Depth
    BY DEF IInv, TypeOK, Machine
  <2>2. frames[d] \in 1..Len(closures)
    BY <2>1, ElementOfSeq DEF Depth
  <2>3. closures'[frames'[d]] = closures[frames[d]]
    BY <2>2
  <2>4. closures[frames[d]][u] \in Cell
    <3>1. closures[frames[d]] \in Seq(Cell)
      BY <2>1, <2>2, ElementOfSeq
    <3> QED BY <2>3, <3>1, ElementOfSeq
  <2>5. PICK uv \in 1..Len(uvs) : uv = closures[frames[d]][u]
    BY <2>4 DEF Cell
  <2>6. uvs'[uv].open /\ uvs'[uv] = uvs[uv]
    BY <1>1, <2>3, <2>5
  <2>7. FrameOf(uvs[uv].place) < d
    BY <2>1, <2>3, <2>5, <2>6 DEF RunningBelow
  <2> QED BY <2>3, <2>5, <2>6, <2>7
<1> QED BY <1>1 DEF RunningBelow, FrameOf

LEMMA InitRInv == Init => RInv
<1> SUFFICES ASSUME Init PROVE RInv
  OBVIOUS
<1>1. IInv
  BY InitIInv
<1>2. uvs = <<At(PlaceOf(0, 0))>> /\ creating.busy = FALSE
  BY DEF Init, Idle
<1>3. uvs[1].place = PlaceOf(0, 0)
  BY <1>2 DEF At
<1>4. RunningBelow
  <2>1. Depth = 1 /\ frames[1] = 1 /\ closures[1] = <<1>>
    BY DEF Init, Depth
  <2>2. FrameOf(PlaceOf(0, 0)) = 0
    BY PlaceFacts, LocalsAssumption, BoundsAssumption
  <2>3. Len(<<1>>) = 1 /\ <<1>>[1] = 1
    OBVIOUS
  <2> QED BY <1>3, <2>1, <2>2, <2>3 DEF RunningBelow
<1> QED BY <1>1, <1>2, <1>4 DEF RInv, Captured

\* One round of closure_create, whichever upvalue it gets.
LEMMA CapturedRound ==
    ASSUME RInv, Capturing, NEW uv \in Nat, Capture(uv),
           \A b \in 1..Len(uvs) : uvs'[b] = uvs[b],
           \/ \E i \in Local : uvs'[uv] = At(PlaceOf(Depth, i))
           \/ \E u \in 1..Len(closures[Running]) : uv = closures[Running][u],
           UNCHANGED <<frames, closures>>
    PROVE  Captured'
<1>1. /\ creating.busy /\ creating.proto \in Protos
      /\ creating \in [proto : Protos \cup {<<>>}, uvs : Seq(Cell), busy : BOOLEAN]
  BY DEF RInv, IInv, TypeOK, Capturing, Creating
<1>2. /\ creating.uvs \in Seq(Cell) /\ Len(creating.uvs) \in Nat
      /\ \A k \in 1..Len(creating.uvs) : creating.uvs[k] \in 1..Len(uvs)
  BY <1>1, LenProperties, ElementOfSeq DEF Cell
<1>3. creating.proto \in Seq([instack : BOOLEAN, idx : 0..(NrLocals - 1)])
  BY <1>1, ProtosAssumption
<1>4. Len(creating.proto) \in Nat
  BY <1>3, LenProperties
<1>5. creating'.uvs = Append(creating.uvs, uv) /\ creating'.proto = creating.proto
  BY <1>1 DEF Capture
<1>6. /\ Len(creating'.uvs) = Len(creating.uvs) + 1
      /\ \A k \in 1..Len(creating.uvs) : creating'.uvs[k] = creating.uvs[k]
      /\ creating'.uvs[Len(creating.uvs) + 1] = uv
  <2>1. creating.uvs \in Seq(Nat)
    <3>1. Cell \subseteq Nat
      BY DEF Cell
    <3> QED BY <1>2, <3>1, SeqMonotonic
  <2> QED BY <1>5, <2>1, AppendProperties
<1>7. Depth' = Depth /\ Running' = Running
  BY DEF Depth, Running
<1>8. Len(creating'.uvs) <= Len(creating'.proto)
  BY <1>2, <1>4, <1>5, <1>6 DEF Capturing
<1>9. ASSUME NEW k \in 1..Len(creating'.uvs)
      PROVE  \/ \E i \in Local : uvs'[creating'.uvs[k]] = At(PlaceOf(Depth, i))
             \/ \E u \in 1..Len(closures[Running]) : creating'.uvs[k] = closures[Running][u]
  <2>1. CASE k \in 1..Len(creating.uvs)
    <3>1. \/ \E i \in Local : uvs[creating.uvs[k]] = At(PlaceOf(Depth, i))
          \/ \E u \in 1..Len(closures[Running]) : creating.uvs[k] = closures[Running][u]
      BY <1>1, <2>1 DEF RInv, Captured
    <3> QED BY <1>2, <1>6, <2>1, <3>1
  <2>2. CASE k = Len(creating.uvs) + 1
    BY <1>6, <2>2
  <2> QED BY <1>2, <1>6, <2>1, <2>2
<1> QED BY <1>7, <1>8, <1>9 DEF Captured

LEMMA PoppedFrame ==
    ASSUME IInv, Depth \in 1..MaxDepth, frames' = SubSeq(frames, 1, Depth - 1)
    PROVE  Depth' = Depth - 1 /\ \A d \in 1..(Depth - 1) : frames'[d] = frames[d]
<1>1. frames \in Seq(1..Len(closures))
  BY DEF IInv, TypeOK
<1>2. \A k \in 1..(Depth - 1) : frames[k] \in 1..Len(closures)
  BY <1>1, ElementOfSeq DEF Depth
<1>3. /\ Len(SubSeq(frames, 1, Depth - 1)) =
             IF 1 <= Depth - 1 THEN (Depth - 1) - 1 + 1 ELSE 0
      /\ \A k \in 1..((Depth - 1) - 1 + 1) : SubSeq(frames, 1, Depth - 1)[k] = frames[1 + k - 1]
  BY <1>2, SubSeqProperties
<1>4. Len(frames') = Depth - 1 /\ \A d \in 1..(Depth - 1) : frames'[d] = frames[d]
  BY <1>3
<1> QED BY <1>4 DEF Depth

LEMMA NextRInv == ASSUME RInv, Next PROVE RInv'
<1>1. IInv'
  BY NextIInv DEF RInv
<1>2. uvs \in Seq(Upvalue) /\ Len(uvs) \in Nat /\ Depth \in Nat
  BY LenProperties DEF RInv, IInv, Listed, Machine
<1>3. ASSUME UNCHANGED <<frames, closures, uvs>> PROVE RunningBelow'
  BY <1>3 DEF RInv, RunningBelow, Depth, FrameOf
<1>4. ASSUME UNCHANGED creating, Active PROVE Captured'
  BY <1>4 DEF Captured, Active
<1>5. CASE SetLocal \/ GetUpval
  BY <1>1, <1>3, <1>4, <1>5 DEF SetLocal, GetUpval, RInv
<1>6. CASE SetUpval
  <2>1. RunningBelow'
    <3>1. PICK u \in 1..Len(closures[Running]), i \in Local :
              \/ UNCHANGED uvs
              \/ uvs' = [uvs EXCEPT ![closures[Running][u]] = Own(LocalValue(i))]
      BY <1>6 DEF SetUpval
    <3>2. PICK uv \in 1..Len(uvs) : uv = closures[Running][u]
      BY <1>6, RunningUpvalue DEF SetUpval, RInv
    <3>3. CASE uvs' = [uvs EXCEPT ![uv] = Own(LocalValue(i))]
      <4>1. Own(LocalValue(i)).open = FALSE
        BY DEF Own
      <4>2. \A x \in 1..Len(uvs) : uvs'[x].open => uvs'[x] = uvs[x]
        <5>1. DOMAIN uvs = 1..Len(uvs)
          BY <1>2, LenProperties
        <5> QED BY <3>3, <4>1, <5>1
      <4>3. UNCHANGED <<frames, closures>> /\ Depth' = Depth
        BY <1>6 DEF SetUpval, Depth
      <4> QED BY <1>2, <4>2, <4>3, BelowKept DEF RInv
    <3>4. UNCHANGED <<frames, closures>>
      BY <1>6 DEF SetUpval
    <3> QED BY <1>3, <3>1, <3>2, <3>3, <3>4
  <2> QED BY <1>1, <1>4, <1>6, <2>1 DEF SetUpval, RInv
<1>7. CASE StartClosure
  <2>1. PICK p \in Protos : creating' = [proto |-> p, uvs |-> <<>>, busy |-> TRUE]
    BY <1>7 DEF StartClosure
  <2>2. creating'.proto = p /\ creating'.uvs = <<>> /\ Len(p) \in Nat
    <3>1. p \in Seq([instack : BOOLEAN, idx : 0..(NrLocals - 1)])
      BY ProtosAssumption
    <3> QED BY <2>1, <3>1, LenProperties
  <2>3. Captured'
    BY <2>2 DEF Captured
  <2> QED BY <1>1, <1>3, <1>7, <2>3 DEF StartClosure, RInv
<1>8. CASE CaptureOpen
  <2>1. PICK uv \in OpenAt(PlaceOf(Depth, Descriptor.idx)) : Capture(uv)
    BY <1>8 DEF CaptureOpen
  <2>2. uv \in Nat /\ uvs[uv] = At(PlaceOf(Depth, Descriptor.idx)) /\ Descriptor.idx \in Local
    BY <1>8, <2>1, DescriptorFacts DEF OpenAt, CaptureOpen, RInv
  <2>3. Captured'
    BY <1>8, <2>1, <2>2, CapturedRound DEF CaptureOpen
  <2> QED BY <1>1, <1>3, <1>8, <2>3 DEF CaptureOpen, RInv
<1>9. CASE CaptureParent
  <2>1. PICK u \in 1..Len(closures[Running]) : u = Descriptor.idx + 1
    BY <1>9, DescriptorFacts DEF CaptureParent, RInv
  <2>2. PICK uv \in Nat : uv = closures[Running][u]
    <3>1. closures \in Seq(Seq(Cell)) /\ Running \in 1..Len(closures)
      BY <1>9, DescriptorFacts DEF CaptureParent, RInv, IInv, TypeOK
    <3>2. closures[Running] \in Seq(Cell)
      BY <3>1, ElementOfSeq
    <3>3. closures[Running][u] \in Cell
      BY <3>2, ElementOfSeq
    <3> QED BY <3>3 DEF Cell
  <2>3. Captured'
    BY <1>9, <2>1, <2>2, CapturedRound DEF CaptureParent
  <2> QED BY <1>1, <1>3, <1>9, <2>3 DEF CaptureParent, RInv
<1>10. CASE CaptureNew
  <2> DEFINE n == Len(uvs) + 1
             place == PlaceOf(Depth, Descriptor.idx)
  <2>1. Depth \in 1..MaxDepth /\ Descriptor.idx \in Local
    BY <1>10, DescriptorFacts DEF CaptureNew, RInv
  <2>2. /\ uvs' = Append(uvs, At(place)) /\ Capture(n)
        /\ UNCHANGED <<frames, closures>>
    BY <1>10 DEF CaptureNew
  <2>3. /\ Len(uvs') = n /\ uvs'[n] = At(place)
        /\ \A b \in 1..Len(uvs) : uvs'[b] = uvs[b]
    <3>1. At(place) \in Upvalue
      <4>1. Depth \in 0..MaxDepth /\ Descriptor.idx \in 0..NrLocals
        BY <2>1, LocalsAssumption, BoundsAssumption DEF Local
      <4> QED BY <4>1, PlaceFacts DEF Upvalue
    <3> QED BY <1>2, <2>2, <3>1, AppendProperties
  <2>4. Captured'
    <3>1. n \in Nat
      BY <1>2
    <3> HIDE DEF n
    <3> QED BY <1>10, <2>1, <2>2, <2>3, <3>1, CapturedRound DEF CaptureNew
  <2>5. RunningBelow'
    <3>1. Depth' = Depth
      BY <2>2 DEF Depth
    <3> QED BY <1>2, <2>2, <2>3, <3>1, BelowKept DEF RInv
  <2> QED BY <1>1, <2>4, <2>5 DEF RInv
<1>11. CASE FinishClosure
  <2>1. creating'.busy = FALSE
    BY <1>11 DEF FinishClosure, Idle
  <2>2. RunningBelow'
    <3>1. /\ closures' = Append(closures, creating.uvs) /\ Depth' = Depth
          /\ UNCHANGED <<frames, uvs>>
      BY <1>11 DEF FinishClosure, Depth
    <3>2. closures \in Seq(Seq(Cell)) /\ creating.uvs \in Seq(Cell)
      BY DEF RInv, IInv, TypeOK
    <3>3. \A c \in 1..Len(closures) : closures'[c] = closures[c]
      BY <3>1, <3>2, AppendProperties
    <3> QED BY <1>2, <3>1, <3>3, BelowKept DEF RInv
  <2> QED BY <1>1, <2>1, <2>2 DEF RInv, Captured
<1>12. CASE Call
  <2>1. PICK c \in 2..Len(closures) : frames' = Append(frames, c)
    BY <1>12 DEF Call
  <2>2. /\ Len(frames') = Depth + 1 /\ frames'[Depth + 1] = c
        /\ \A d \in 1..Depth : frames'[d] = frames[d]
    <3>1. frames \in Seq(1..Len(closures)) /\ c \in 1..Len(closures)
      BY <2>1 DEF RInv, IInv, TypeOK
    <3> QED BY <2>1, <3>1, AppendProperties DEF Depth
  <2>3. UNCHANGED <<uvs, closures>> /\ Depth' = Depth + 1
    BY <1>12, <2>2 DEF Call, Depth
  <2>4. ASSUME NEW d \in 1..(Depth + 1), NEW u \in 1..Len(closures[frames'[d]]),
               uvs[closures[frames'[d]][u]].open
        PROVE  FrameOf(uvs[closures[frames'[d]][u]].place) < d
    <3>1. CASE d \in 1..Depth
      BY <2>2, <2>4, <3>1 DEF RInv, RunningBelow
    <3>2. CASE d = Depth + 1
      <4>1. closures \in Seq(Seq(Cell)) /\ c \in 1..Len(closures)
        BY <2>1 DEF RInv, IInv, TypeOK
      <4>2. closures[c] \in Seq(Cell)
        BY <4>1, ElementOfSeq
      <4>3. closures[c][u] \in Cell
        BY <2>2, <2>4, <3>2, <4>2, ElementOfSeq
      <4>4. PICK uv \in 1..Len(uvs) : uv = closures[frames'[d]][u]
        BY <2>2, <3>2, <4>3 DEF Cell
      <4>5. Depth \in 0..MaxDepth /\ uvs[uv].open /\ Live(uvs, Depth)
        BY <2>4, <4>4 DEF RInv, IInv, Machine
      <4>6. FrameOf(uvs[uv].place) <= Depth
        BY <1>2, <4>5, LiveFrame
      <4>7. uvs[uv].place \in Place
        BY <1>2, <4>5, UpvalueFacts
      <4>8. FrameOf(uvs[uv].place) \in Int
        BY <4>7, LocalsAssumption DEF FrameOf, FrameSize, Place
      <4> QED BY <1>2, <3>2, <4>4, <4>6, <4>8
    <3> QED BY <1>2, <3>1, <3>2
  <2>5. RunningBelow'
    BY <2>3, <2>4 DEF RunningBelow, FrameOf
  <2> QED BY <1>1, <1>4, <1>12, <2>5 DEF Call, RInv
<1>13. CASE Jump
  <2>1. PICK a \in JumpArgs : ClosureClose(PlaceOf(Depth, a + 1), stack)
    BY <1>13 DEF Jump
  <2>2. stack \in [Place -> Value]
    BY DEF RInv, IInv, Machine
  <2>3. /\ Len(uvs') = Len(uvs)
        /\ \A uv \in 1..Len(uvs') : uvs'[uv].open => uvs[uv].open /\ uvs'[uv] = uvs[uv]
    BY <2>1, <2>2, Closed DEF RInv
  <2>4. RunningBelow'
    <3>1. UNCHANGED <<frames, closures>> /\ Depth' = Depth
      BY <1>13 DEF Jump, Depth
    <3> QED BY <1>2, <2>3, <3>1, BelowKept DEF RInv
  <2> QED BY <1>1, <1>4, <1>13, <2>4 DEF Jump, RInv
<1>14. CASE Return
  <2>1. PICK first \in Local, last \in -1..(NrLocals - 1) :
            ClosureClose(CallSlot(Depth - 1), Stored(first..last))
    BY <1>14 DEF Return
  <2>2. Depth \in 1..MaxDepth
    BY <1>14, ActiveDepth DEF Return, RInv
  <2>3. Stored(first..last) \in [Place -> Value]
    <3>1. first..last \in SUBSET Local
      BY LocalsAssumption DEF Local
    <3> QED BY <2>2, <3>1, StoredType DEF RInv, IInv
  <2>4. /\ Len(uvs') = Len(uvs)
        /\ \A uv \in 1..Len(uvs') : uvs'[uv].open => uvs[uv].open /\ uvs'[uv] = uvs[uv]
    BY <2>1, <2>3, Closed DEF RInv
  <2>5. /\ Depth' = Depth - 1 /\ \A d \in 1..(Depth - 1) : frames'[d] = frames[d]
        /\ UNCHANGED closures
    BY <1>14, <2>2, PoppedFrame DEF Return, RInv
  <2>6. RunningBelow'
    BY <2>2, <2>4, <2>5, BelowKept DEF RInv
  <2> QED BY <1>1, <1>4, <1>14, <2>6 DEF Return, RInv
<1> QED BY <1>5, <1>6, <1>7, <1>8, <1>9, <1>10, <1>11, <1>12, <1>13, <1>14 DEF Next

LEMMA StepRInv == ASSUME RInv, [Next]_vars PROVE RInv'
<1>1. ASSUME UNCHANGED vars PROVE RInv'
  <2>1. IInv'
    BY <1>1, NextIInv DEF RInv
  <2>2. RunningBelow'
    BY <1>1 DEF RInv, vars, RunningBelow, Depth, FrameOf
  <2>3. Captured'
    BY <1>1 DEF RInv, vars, Captured, Depth, Running
  <2> QED BY <2>1, <2>2, <2>3 DEF RInv
<1> QED BY <1>1, NextRInv

-----------------------------------------------------------------------------
LEMMA MappingNext ==
    RInv' => /\ BoxedFrames' = FramesOf(regs', stack', uvs', frames')
             /\ BoxContents' = BoxesOf(Mem', uvs')
<1>1. RInv => /\ BoxedFrames = FramesOf(regs, stack, uvs, frames)
              /\ BoxContents = BoxesOf(Mem, uvs)
  BY Mapping DEF RInv
<1>2. RInv' => (/\ BoxedFrames = FramesOf(regs, stack, uvs, frames)
                /\ BoxContents = BoxesOf(Mem, uvs))'
  BY <1>1, PTL
<1> QED BY <1>2 DEF FramesOf, BoxesOf, VarOf, HasBox, BoxOf, Word, ContentsOf

\* What a step that changes registers and stack words makes of a variable's
\* place.
LEMMA MemAt ==
    ASSUME RInv, RInv', NEW d \in 1..MaxDepth, NEW i \in Local
    PROVE  /\ Mem[PlaceOf(d, i)] = Word(regs, stack, Depth, d, i)
           /\ Mem'[PlaceOf(d, i)] = Word(regs', stack', Depth', d, i)
BY MemFacts, MemFactsNext DEF RInv

\* The words that no register stands for are those of the stack.
LEMMA MemBelow ==
    ASSUME RInv, NEW uv \in 1..Len(uvs), uvs[uv].open, FrameOf(uvs[uv].place) < Depth
    PROVE  Mem[uvs[uv].place] = stack[uvs[uv].place]
<1>1. uvs \in Seq(Upvalue) /\ Depth \in 0..MaxDepth /\ Live(uvs, Depth)
  BY DEF RInv, IInv, Listed, Machine
<1>2. CASE uvs[uv].place = PlaceOf(0, 0)
  BY <1>2, MemFacts DEF RInv
<1>3. CASE uvs[uv].place # PlaceOf(0, 0)
  <2>1. PICK d \in 1..Depth, i \in Local : uvs[uv].place = PlaceOf(d, i)
    BY <1>1, <1>3, OpenPlace
  <2>2. d \in 0..MaxDepth /\ d \in 1..MaxDepth /\ i \in 0..NrLocals
    BY <1>1, LocalsAssumption, BoundsAssumption DEF Local
  <2>3. d # Depth
    BY <1>1, <2>1, <2>2, PlaceFacts
  <2>4. Mem[PlaceOf(d, i)] = stack[PlaceOf(d, i)]
    BY <2>2, <2>3, MemFacts DEF RInv, Word
  <2> QED BY <2>1, <2>4
<1> QED BY <1>2, <1>3

\* An upvalue of the running function is of a frame below.
LEMMA UpvalueBelow ==
    ASSUME RInv, Active, NEW u \in 1..Len(closures[Running]),
           uvs[closures[Running][u]].open
    PROVE  FrameOf(uvs[closures[Running][u]].place) < Depth
BY ActiveDepth DEF RInv, RunningBelow, Running

LEMMA FramesFacts ==
    ASSUME NEW rg, NEW st, NEW us, NEW fr, Len(fr) \in Nat
    PROVE  /\ Len(FramesOf(rg, st, us, fr)) = Len(fr)
           /\ DOMAIN FramesOf(rg, st, us, fr) = 1..Len(fr)
           /\ \A d \in 1..Len(fr) :
                 FramesOf(rg, st, us, fr)[d] =
                     [closure |-> fr[d],
                      locals |-> [i \in Local |-> VarOf(rg, st, us, Len(fr), d, i)]]
<1>1. FramesOf(rg, st, us, fr) =
          [d \in 1..Len(fr) |-> [closure |-> fr[d],
              locals |-> [i \in Local |-> VarOf(rg, st, us, Len(fr), d, i)]]]
  BY DEF FramesOf
<1> QED BY <1>1

\* The activation that is running, and the values of its variables.
LEMMA RunningFacts ==
    ASSUME RInv, Depth \in 1..MaxDepth
    PROVE  /\ Len(BoxedFrames) = Depth /\ DOMAIN BoxedFrames = 1..Depth
           /\ Boxed!Running = BoxedFrames[Depth]
           /\ BoxedFrames[Depth].closure = Running
           /\ BoxedFrames[Depth].locals =
                  [i \in Local |-> VarOf(regs, stack, uvs, Depth, Depth, i)]
           /\ \A i \in Local : /\ LocalValue(i) = Word(regs, stack, Depth, Depth, i)
                               /\ Boxed!ValueOf(i) = LocalValue(i)
<1>1. BoxedFrames = FramesOf(regs, stack, uvs, frames) /\ BoxContents = BoxesOf(Mem, uvs)
  BY Mapping DEF RInv
<1>2. Len(BoxedFrames) = Depth /\ DOMAIN BoxedFrames = 1..Depth
  BY <1>1, FramesFacts DEF Depth
<1>3. BoxedFrames[Depth] =
          [closure |-> frames[Depth],
           locals |-> [i \in Local |-> VarOf(regs, stack, uvs, Depth, Depth, i)]]
  BY <1>1, FramesFacts DEF Depth
<1>4. Boxed!Running = BoxedFrames[Depth]
  BY <1>2 DEF Boxed!Running
<1>5. ASSUME NEW i \in Local PROVE LocalValue(i) = Word(regs, stack, Depth, Depth, i)
  BY DEF LocalValue, Word
<1>6. ASSUME NEW i \in Local PROVE Boxed!ValueOf(i) = LocalValue(i)
  <2>1. Boxed!Running.locals[i] = VarOf(regs, stack, uvs, Depth, Depth, i)
    BY <1>3, <1>4
  <2>2. CASE HasBox(uvs, PlaceOf(Depth, i))
    <3>1. PICK b \in 1..Len(uvs) : /\ b = BoxOf(uvs, PlaceOf(Depth, i))
                                   /\ uvs[b] = At(PlaceOf(Depth, i))
      BY <2>2, BoxFacts DEF RInv, IInv, Listed
    <3>2. Boxed!Running.locals[i] = Boxed!InBox(b)
      BY <2>1, <2>2, <3>1 DEF VarOf
    <3>3. Boxed!ValueOf(i) = BoxContents[b]
      BY <3>2 DEF Boxed!ValueOf, Boxed!InBox
    <3>4. BoxContents[b] = Mem[PlaceOf(Depth, i)]
      BY <1>1, <3>1 DEF BoxesOf, ContentsOf, At
    <3>5. Mem[PlaceOf(Depth, i)] = Word(regs, stack, Depth, Depth, i)
      BY MemFacts DEF RInv
    <3> QED BY <1>5, <3>3, <3>4, <3>5
  <2>3. CASE ~HasBox(uvs, PlaceOf(Depth, i))
    <3>1. Boxed!Running.locals[i] = Boxed!Direct(LocalValue(i))
      BY <1>5, <2>1, <2>3 DEF VarOf
    <3> QED BY <3>1 DEF Boxed!ValueOf, Boxed!Direct
  <2> QED BY <2>2, <2>3
<1> QED BY <1>2, <1>3, <1>4, <1>5, <1>6 DEF Running

\* Assigning a local changes what its box holds, or the local itself.
LEMMA Assigned ==
    ASSUME RInv, RInv', Depth \in 1..MaxDepth, NEW i \in Local, NEW v \in Value,
           SetLocalValue(i, v), UNCHANGED <<frames, uvs, closures>>
    PROVE  Boxed!Assign(i, v)
<1>1. /\ BoxedFrames = FramesOf(regs, stack, uvs, frames) /\ BoxContents = BoxesOf(Mem, uvs)
      /\ BoxedFrames' = FramesOf(regs', stack', uvs, frames) /\ BoxContents' = BoxesOf(Mem', uvs)
  BY Mapping, MappingNext DEF RInv
<1>2. /\ stack \in [Place -> Value] /\ regs \in [RegLocal -> Value]
      /\ PlaceOf(Depth, i) \in Place
  BY PlaceFacts, LocalsAssumption, BoundsAssumption DEF RInv, IInv, Machine, Local
<1>3. \A d \in 1..Depth, j \in Local :
          Word(regs', stack', Depth, d, j) =
              IF d = Depth /\ j = i THEN v ELSE Word(regs, stack, Depth, d, j)
  <2>1. ASSUME NEW d \in 1..Depth, NEW j \in Local
        PROVE  Word(regs', stack', Depth, d, j) =
                   IF d = Depth /\ j = i THEN v ELSE Word(regs, stack, Depth, d, j)
    <3>1. PlaceOf(d, j) \in Place
      BY PlaceFacts, LocalsAssumption, BoundsAssumption DEF Local
    <3>2. PlaceOf(d, j) = PlaceOf(Depth, i) => d = Depth /\ j = i
      <4>1. d \in 0..MaxDepth /\ Depth \in 0..MaxDepth
        BY BoundsAssumption
      <4> QED BY <4>1, PlaceInjective
    <3>3. CASE i \in RegLocal
      BY <1>2, <3>3 DEF Word, SetLocalValue
    <3>4. CASE i \notin RegLocal
      BY <1>2, <3>1, <3>2, <3>4 DEF Word, SetLocalValue
    <3> QED BY <3>3, <3>4
  <2> QED BY <2>1
<1>4. \A uv \in 1..Len(uvs) :
          ContentsOf(Mem', uvs, uv) =
              IF uvs[uv] = At(PlaceOf(Depth, i)) THEN v ELSE ContentsOf(Mem, uvs, uv)
  <2>1. ASSUME NEW uv \in 1..Len(uvs)
        PROVE  ContentsOf(Mem', uvs, uv) =
                   IF uvs[uv] = At(PlaceOf(Depth, i)) THEN v ELSE ContentsOf(Mem, uvs, uv)
    <3>1. /\ uvs \in Seq(Upvalue) /\ Live(uvs, Depth) /\ Depth \in 0..MaxDepth
          /\ uvs[uv] = At(PlaceOf(Depth, i)) => uvs[uv].open /\ uvs[uv].place = PlaceOf(Depth, i)
      BY DEF RInv, IInv, Listed, Machine, At
    <3>2. Depth' = Depth
      BY DEF Depth
    <3>3. CASE ~uvs[uv].open
      BY <3>1, <3>3 DEF ContentsOf
    <3>4. CASE uvs[uv].open /\ uvs[uv].place = PlaceOf(0, 0)
      <4>1. uvs[uv] # At(PlaceOf(Depth, i)) /\ PlaceOf(0, 0) # PlaceOf(Depth, i)
        <5>1. 0 \in 0..MaxDepth /\ 0 \in Local /\ Depth # 0
          BY LocalsAssumption, BoundsAssumption DEF Local
        <5> QED BY <3>1, <3>4, <5>1, PlaceInjective
      <4>2. stack'[PlaceOf(0, 0)] = stack[PlaceOf(0, 0)]
        <5>1. CASE i \in RegLocal
          BY <5>1 DEF SetLocalValue
        <5>2. CASE i \notin RegLocal
          <6>1. PlaceOf(0, 0) \in Place
            BY PlaceFacts, LocalsAssumption, BoundsAssumption
          <6>2. stack' = [stack EXCEPT ![PlaceOf(Depth, i)] = v]
            BY <5>2 DEF SetLocalValue
          <6> QED BY <1>2, <4>1, <6>1, <6>2
        <5> QED BY <5>1, <5>2
      <4>3. Mem[PlaceOf(0, 0)] = stack[PlaceOf(0, 0)] /\ Mem'[PlaceOf(0, 0)] = stack'[PlaceOf(0, 0)]
        BY MemFacts, MemFactsNext DEF RInv
      <4> QED BY <3>4, <4>1, <4>2, <4>3 DEF ContentsOf
    <3>5. CASE uvs[uv].open /\ uvs[uv].place # PlaceOf(0, 0)
      <4>1. PICK d \in 1..Depth, j \in Local :
                uvs[uv] = At(PlaceOf(d, j)) /\ uvs[uv].place = PlaceOf(d, j)
        BY <3>1, <3>5, OpenPlace
      <4>2. d \in 1..MaxDepth /\ d \in 0..MaxDepth
        BY <3>1, <4>1, BoundsAssumption
      <4>3. Mem[PlaceOf(d, j)] = Word(regs, stack, Depth, d, j)
        BY <4>2, MemFacts DEF RInv
      <4>4. Mem'[PlaceOf(d, j)] = Word(regs', stack', Depth, d, j)
        BY <3>2, <4>2, MemAt
      <4>5. uvs[uv] = At(PlaceOf(Depth, i)) <=> d = Depth /\ j = i
        <5>1. uvs[uv] = At(PlaceOf(Depth, i)) => d = Depth /\ j = i
          BY <3>1, <4>1, <4>2, PlaceInjective
        <5> QED BY <4>1, <5>1
      <4> QED BY <1>3, <3>5, <4>1, <4>3, <4>4, <4>5 DEF ContentsOf
    <3> QED BY <3>3, <3>4, <3>5
  <2> QED BY <2>1
<1>5. /\ Len(BoxedFrames) = Depth /\ DOMAIN BoxedFrames = 1..Depth
      /\ Boxed!Running = BoxedFrames[Depth]
      /\ BoxedFrames[Depth].locals =
                  [j \in Local |-> VarOf(regs, stack, uvs, Depth, Depth, j)]
  BY RunningFacts
<1>6. /\ BoxedFrames = [d \in 1..Depth |->
             [closure |-> frames[d],
              locals |-> [j \in Local |-> VarOf(regs, stack, uvs, Depth, d, j)]]]
      /\ BoxedFrames' = [d \in 1..Depth |->
             [closure |-> frames[d],
              locals |-> [j \in Local |-> VarOf(regs', stack', uvs, Depth, d, j)]]]
  BY <1>1 DEF FramesOf, Depth
<1>7. \A d \in 1..Depth, j \in Local :
          ~(d = Depth /\ j = i /\ ~HasBox(uvs, PlaceOf(Depth, i))) =>
              VarOf(regs', stack', uvs, Depth, d, j) = VarOf(regs, stack, uvs, Depth, d, j)
  BY <1>3 DEF VarOf
<1>8. CASE HasBox(uvs, PlaceOf(Depth, i))
  <2>1. PICK b \in 1..Len(uvs) : /\ b = BoxOf(uvs, PlaceOf(Depth, i))
                                 /\ uvs[b] = At(PlaceOf(Depth, i))
                                 /\ \A uv \in 1..Len(uvs) : uvs[uv] = At(PlaceOf(Depth, i)) => uv = b
    BY <1>8, BoxFacts DEF RInv, IInv, Listed
  <2>2. BoxedFrames[Depth].locals[i] = Boxed!InBox(b)
    BY <1>5, <1>8, <2>1 DEF VarOf
  <2>3. BoxContents' = [BoxContents EXCEPT ![b] = v]
    BY <1>1, <1>4, <2>1 DEF BoxesOf
  <2>4. BoxedFrames' = BoxedFrames
    BY <1>6, <1>7, <1>8
  <2>5. Boxed!Running.locals[i].boxed = TRUE /\ Boxed!Running.locals[i].b = b
    BY <1>5, <2>2 DEF Boxed!InBox
  <2> QED BY <2>3, <2>4, <2>5 DEF Boxed!Assign
<1>9. CASE ~HasBox(uvs, PlaceOf(Depth, i))
  <2>1. /\ BoxedFrames[Depth].locals[i].boxed = FALSE
        /\ VarOf(regs', stack', uvs, Depth, Depth, i) = Boxed!Direct(v)
    <3>1. BoxedFrames[Depth].locals[i] = Boxed!Direct(Word(regs, stack, Depth, Depth, i))
      BY <1>5, <1>9 DEF VarOf
    <3>2. Word(regs', stack', Depth, Depth, i) = v
      BY <1>3
    <3>3. BoxedFrames[Depth].locals[i].boxed = FALSE
      BY <3>1 DEF Boxed!Direct
    <3> QED BY <1>9, <3>2, <3>3 DEF VarOf
  <2>2. BoxContents' = BoxContents
    BY <1>1, <1>4, <1>9 DEF BoxesOf, HasBox
  <2>3. [BoxedFrames[Depth].locals EXCEPT ![i] = Boxed!Direct(v)] =
            [j \in Local |-> VarOf(regs', stack', uvs, Depth, Depth, j)]
    BY <1>5, <1>7, <2>1
  <2>4. BoxedFrames' = [BoxedFrames EXCEPT ![Depth].locals =
                            [j \in Local |-> VarOf(regs', stack', uvs, Depth, Depth, j)]]
    <3>1. \A d \in 1..Depth : d # Depth => BoxedFrames'[d] = BoxedFrames[d]
      BY <1>6, <1>7
    <3> QED BY <1>6, <3>1
  <2> QED BY <1>5, <2>1, <2>2, <2>3, <2>4 DEF Boxed!Assign, Boxed!SetRunning
<1> QED BY <1>8, <1>9

-----------------------------------------------------------------------------
LEMMA BoxesFacts ==
    ASSUME RInv
    PROVE  /\ BoxesOf(Mem, uvs) \in Seq(Value) /\ Len(BoxesOf(Mem, uvs)) = Len(uvs)
           /\ \A uv \in 1..Len(uvs) : ContentsOf(Mem, uvs, uv) \in Value
<1>1. uvs \in Seq(Upvalue) /\ Mem \in [Place -> Value] /\ Len(uvs) \in Nat
  BY LenProperties, MemFacts DEF RInv, IInv, Listed
<1>2. \A uv \in 1..Len(uvs) : ContentsOf(Mem, uvs, uv) \in Value
  BY <1>1, UpvalueFacts DEF ContentsOf
<1>3. BoxesOf(Mem, uvs) \in [1..Len(uvs) -> Value]
  BY <1>2 DEF BoxesOf
<1>4. BoxesOf(Mem, uvs) \in Seq(Value)
  BY <1>1, <1>3, SeqDef
<1> QED BY <1>1, <1>2, <1>3, <1>4, LenProperties

LEMMA SetLocalMaps ==
    ASSUME RInv, RInv', SetLocal
    PROVE  \E i \in Local, v \in Value : Boxed!Assign(i, v)
<1>1. PICK i \in Local, v \in Value : SetLocalValue(i, v)
  BY DEF SetLocal
<1>2. Boxed!Assign(i, v)
  BY <1>1, ActiveDepth, Assigned DEF SetLocal, RInv
<1> QED BY <1>2

LEMMA GetUpvalMaps ==
    ASSUME RInv, RInv', GetUpval
    PROVE  \E i \in Local, u \in 1..Len(closures[Boxed!Running.closure]) : Boxed!GetUpval(u, i)
<1>1. PICK u \in 1..Len(closures[Running]), i \in Local :
          SetLocalValue(i, UpvalValue(closures[Running][u]))
  BY DEF GetUpval
<1>2. closures[Running][u] \in 1..Len(uvs) /\ UpvalValue(closures[Running][u]) \in Value
  BY RunningUpvalue DEF GetUpval, RInv
<1>3. Boxed!Assign(i, UpvalValue(closures[Running][u]))
  BY <1>1, <1>2, ActiveDepth, Assigned DEF GetUpval, RInv
<1>4. BoxContents[closures[Running][u]] = UpvalValue(closures[Running][u])
  <2>1. PICK uv \in 1..Len(uvs) : uv = closures[Running][u]
    BY <1>2
  <2>2. uvs[uv].open => Mem[uvs[uv].place] = stack[uvs[uv].place]
    BY <2>1, UpvalueBelow, MemBelow DEF GetUpval
  <2>3. BoxContents[uv] = ContentsOf(Mem, uvs, uv)
    BY Mapping DEF RInv, BoxesOf
  <2> QED BY <2>1, <2>2, <2>3 DEF ContentsOf, UpvalValue
<1>5. Boxed!Running.closure = Running
  BY ActiveDepth, RunningFacts DEF GetUpval, RInv
<1>6. Boxed!GetUpval(u, i)
  BY <1>3, <1>4, <1>5 DEF Boxed!GetUpval
<1> QED BY <1>5, <1>6

LEMMA SetUpvalMaps ==
    ASSUME RInv, RInv', SetUpval
    PROVE  \E i \in Local, u \in 1..Len(closures[Boxed!Running.closure]) : Boxed!SetUpval(u, i)
<1>1. PICK u \in 1..Len(closures[Running]), i \in Local :
          IF uvs[closures[Running][u]].open
          THEN /\ stack' = [stack EXCEPT ![uvs[closures[Running][u]].place] = LocalValue(i)]
               /\ UNCHANGED uvs
          ELSE /\ uvs' = [uvs EXCEPT ![closures[Running][u]] = Own(LocalValue(i))]
               /\ UNCHANGED stack
  BY DEF SetUpval
<1>2. PICK uv \in 1..Len(uvs) : uv = closures[Running][u]
  BY RunningUpvalue DEF SetUpval, RInv
<1>3. PICK x : x = LocalValue(i)
  OBVIOUS
<1>4. UNCHANGED <<regs, frames, closures>> /\ Depth \in 1..MaxDepth /\ Depth' = Depth
  BY ActiveDepth DEF SetUpval, RInv, Depth
<1>5. /\ BoxedFrames = FramesOf(regs, stack, uvs, frames) /\ BoxContents = BoxesOf(Mem, uvs)
      /\ BoxedFrames' = FramesOf(regs, stack', uvs', frames) /\ BoxContents' = BoxesOf(Mem', uvs')
  BY <1>4, Mapping, MappingNext DEF RInv
<1>6. /\ uvs \in Seq(Upvalue) /\ OnePerPlace(uvs) /\ stack \in [Place -> Value]
      /\ DOMAIN uvs = 1..Len(uvs) /\ Len(uvs) \in Nat
  BY LenProperties DEF RInv, IInv, Listed, Machine
<1>7. BoxContents' = [BoxContents EXCEPT ![uv] = x] /\ BoxedFrames' = BoxedFrames
  <2>1. CASE uvs[uv].open
    <3>1. stack' = [stack EXCEPT ![uvs[uv].place] = x] /\ uvs' = uvs
      BY <1>1, <1>2, <1>3, <2>1
    <3>2. uvs[uv].place \in Place /\ uvs[uv] = At(uvs[uv].place)
      BY <1>6, <2>1, UpvalueFacts
    <3>7. Mem' = [Mem EXCEPT ![uvs[uv].place] = x]
      <4>1. FrameOf(uvs[uv].place) < Depth
        BY <1>2, <2>1, UpvalueBelow DEF SetUpval
      <4>2. Depth \in 1..MaxDepth
        BY <1>4
      <4>3. ~\E j \in RegLocal : uvs[uv].place = PlaceOf(Depth, j)
        <5>1. \A j \in RegLocal : FrameOf(PlaceOf(Depth, j)) = Depth
          <6>1. Depth \in 0..MaxDepth /\ RegLocal \subseteq 0..NrLocals
            BY <1>4, LocalsAssumption, BoundsAssumption DEF RegLocal, Local
          <6> QED BY <6>1, PlaceFacts
        <5> QED BY <4>1, <4>2, <5>1
      <4>4. ASSUME NEW p \in Place
            PROVE  Mem'[p] = IF p = uvs[uv].place THEN x ELSE Mem[p]
        <5>1. CASE p = uvs[uv].place
          <6>1. ~\E j \in RegLocal : p = PlaceOf(Depth, j)
            BY <4>3, <5>1
          <6>2. Mem'[p] = stack'[p]
            BY <1>4, <6>1 DEF Mem, Memory
          <6>3. stack'[p] = x
            BY <1>6, <3>1, <5>1
          <6> QED BY <5>1, <6>2, <6>3
        <5>2. CASE p # uvs[uv].place
          <6>1. stack'[p] = stack[p]
            BY <1>6, <3>1, <5>2
          <6> QED BY <1>4, <5>2, <6>1 DEF Mem, Memory
        <5> QED BY <5>1, <5>2
      <4>5. Mem \in [Place -> Value] /\ Mem' \in [Place -> Value]
        BY MemFacts, MemFactsNext DEF RInv
      <4> HIDE DEF Mem
      <4> QED BY <3>2, <4>4, <4>5
    <3>3. ASSUME NEW b \in 1..Len(uvs)
          PROVE  ContentsOf(Mem', uvs, b) = IF b = uv THEN x ELSE ContentsOf(Mem, uvs, b)
      <4>1. CASE uvs[b].open
        <5>1. uvs[b].place \in Place /\ (uvs[b].place = uvs[uv].place => b = uv)
          BY <1>6, <2>1, <4>1, UpvalueFacts DEF OnePerPlace
        <5>2. Mem \in [Place -> Value]
          BY MemFacts DEF RInv
        <5> QED BY <3>2, <3>7, <4>1, <5>1, <5>2 DEF ContentsOf
      <4>2. CASE ~uvs[b].open
        BY <2>1, <4>2 DEF ContentsOf
      <4> QED BY <4>1, <4>2
    <3>4. BoxContents' = [BoxContents EXCEPT ![uv] = x]
      BY <1>5, <3>1, <3>3 DEF BoxesOf
    <3>5. ASSUME NEW d \in 1..Depth, NEW j \in Local
          PROVE  VarOf(regs, stack', uvs, Depth, d, j) = VarOf(regs, stack, uvs, Depth, d, j)
      <4>1. PlaceOf(d, j) \in Place
        BY <1>4, PlaceFacts, LocalsAssumption, BoundsAssumption DEF Local
      <4>2. ~HasBox(uvs, PlaceOf(d, j)) => PlaceOf(d, j) # uvs[uv].place
        BY <3>2 DEF HasBox
      <4>3. ~HasBox(uvs, PlaceOf(d, j)) => stack'[PlaceOf(d, j)] = stack[PlaceOf(d, j)]
        BY <1>6, <3>1, <4>1, <4>2
      <4> QED BY <4>3 DEF VarOf, Word
    <3>6. BoxedFrames' = BoxedFrames
      BY <1>5, <3>1, <3>5 DEF FramesOf, Depth
    <3> QED BY <3>4, <3>6
  <2>2. CASE ~uvs[uv].open
    <3>1. uvs' = [uvs EXCEPT ![uv] = Own(x)] /\ stack' = stack
      BY <1>1, <1>2, <1>3, <2>2
    <3>2. /\ Len(uvs') = Len(uvs)
          /\ \A b \in 1..Len(uvs) : uvs'[b] = IF b = uv THEN Own(x) ELSE uvs[b]
      <4>1. uvs' = [b \in 1..Len(uvs) |-> IF b = uv THEN Own(x) ELSE uvs[b]]
        BY <1>6, <3>1
      <4> QED BY <1>6, <4>1
    <3>3. ASSUME NEW b \in 1..Len(uvs)
          PROVE  ContentsOf(Mem, uvs', b) = IF b = uv THEN x ELSE ContentsOf(Mem, uvs, b)
      BY <3>2 DEF ContentsOf, Own
    <3>4. BoxContents' = [BoxContents EXCEPT ![uv] = x]
      <4>1. Mem' = Mem
        BY <1>4, <3>1 DEF Mem, Memory
      <4> QED BY <1>5, <3>2, <3>3, <4>1 DEF BoxesOf
    <3>5. ASSUME NEW place
          PROVE  /\ HasBox(uvs', place) <=> HasBox(uvs, place)
                 /\ BoxOf(uvs', place) = BoxOf(uvs, place)
      <4>1. Own(x) # At(place) /\ uvs[uv] # At(place)
        BY <2>2 DEF Own, At
      <4>2. {b \in 1..Len(uvs') : uvs'[b] = At(place)} = {b \in 1..Len(uvs) : uvs[b] = At(place)}
        BY <3>2, <4>1
      <4> QED BY <3>2, <4>1, <4>2 DEF HasBox, BoxOf
    <3>6. BoxedFrames' = BoxedFrames
      BY <1>5, <3>1, <3>5 DEF FramesOf, VarOf
    <3> QED BY <3>4, <3>6
  <2> QED BY <2>1, <2>2
<1>8. Boxed!Running.closure = Running /\ Boxed!ValueOf(i) = x
  BY <1>3, <1>4, RunningFacts
<1>9. Boxed!SetUpval(u, i)
  BY <1>2, <1>4, <1>7, <1>8 DEF Boxed!SetUpval
<1> QED BY <1>8, <1>9

\* Capturing a variable that has no open upvalue puts it in a box.
LEMMA CaptureNewMaps ==
    ASSUME RInv, RInv', CaptureNew
    PROVE  \E i \in Local : Boxed!Box(i)
<1> DEFINE i == Descriptor.idx
           place == PlaceOf(Depth, i)
           n == Len(uvs)
<1>1. Depth \in 1..MaxDepth /\ i \in Local
  BY DescriptorFacts DEF CaptureNew, RInv
<1>2. /\ uvs' = Append(uvs, At(place)) /\ OpenAt(place) = {}
      /\ UNCHANGED <<regs, stack, frames, closures>> /\ Depth' = Depth
  BY DEF CaptureNew, Depth
<1>3. place \in Place
  <2>1. Depth \in 0..MaxDepth /\ i \in 0..NrLocals
    BY <1>1, LocalsAssumption, BoundsAssumption DEF Local
  <2> QED BY <2>1, PlaceFacts
<1>4. /\ uvs \in Seq(Upvalue) /\ n \in Nat
      /\ Len(uvs') = n + 1 /\ uvs'[n + 1] = At(place) /\ \A b \in 1..n : uvs'[b] = uvs[b]
  <2>1. uvs \in Seq(Upvalue) /\ At(place) \in Upvalue
    BY <1>3 DEF RInv, IInv, Listed, Upvalue
  <2> QED BY <1>2, <2>1, AppendProperties, LenProperties
<1>5. ~HasBox(uvs, place)
  <2>1. ASSUME NEW b \in 1..n, uvs[b] = At(place) PROVE FALSE
    <3>1. uvs[b].open
      BY <2>1 DEF At
    <3>2. \E k \in 1..Len(openuvs) : openuvs[k] = b
      BY <3>1 DEF RInv, IInv, Listed, EachOnce
    <3> QED BY <1>2, <2>1, <3>2 DEF OpenAt
  <2> QED BY <2>1 DEF HasBox
<1>6. /\ BoxedFrames = FramesOf(regs, stack, uvs, frames) /\ BoxContents = BoxesOf(Mem, uvs)
      /\ BoxedFrames' = FramesOf(regs, stack, uvs', frames) /\ BoxContents' = BoxesOf(Mem, uvs')
  <2>1. Mem' = Mem
    BY <1>2 DEF Mem, Memory
  <2> QED BY <1>2, <2>1, Mapping, MappingNext DEF RInv
<1> HIDE DEF i, n
<1>7. /\ Len(BoxedFrames) = Depth /\ DOMAIN BoxedFrames = 1..Depth
      /\ Boxed!Running = BoxedFrames[Depth]
      /\ BoxedFrames[Depth].locals =
             [j \in Local |-> VarOf(regs, stack, uvs, Depth, Depth, j)]
      /\ LocalValue(i) = Word(regs, stack, Depth, Depth, i)
      /\ Boxed!ValueOf(i) = LocalValue(i)
  BY <1>1, RunningFacts
<1>8. BoxedFrames[Depth].locals[i].boxed = FALSE
  <2>1. BoxedFrames[Depth].locals[i] = Boxed!Direct(Word(regs, stack, Depth, Depth, i))
    BY <1>1, <1>5, <1>7 DEF VarOf, place
  <2> QED BY <2>1 DEF Boxed!Direct
<1>9. ContentsOf(Mem, uvs', n + 1) = LocalValue(i)
  <2>1. Mem[place] = LocalValue(i)
    BY <1>1, <1>7, MemFacts DEF RInv, place
  <2> QED BY <1>4, <2>1 DEF ContentsOf, At
<1>10. Len(BoxContents) = n /\ BoxContents \in Seq(Value)
  BY <1>6, BoxesFacts DEF n
<1>11. BoxContents' = Append(BoxContents, LocalValue(i))
  <2>1. /\ BoxContents = [b \in 1..n |-> ContentsOf(Mem, uvs, b)]
        /\ BoxContents' = [b \in 1..(n + 1) |-> ContentsOf(Mem, uvs', b)]
    BY <1>4, <1>6 DEF BoxesOf, n
  <2>2. \A b \in 1..n : ContentsOf(Mem, uvs', b) = ContentsOf(Mem, uvs, b)
    BY <1>4 DEF ContentsOf
  <2>3. LocalValue(i) \in Value
    BY <1>1, LocalType DEF RInv, IInv
  <2>4. /\ Append(BoxContents, LocalValue(i)) \in Seq(Value)
        /\ Len(Append(BoxContents, LocalValue(i))) = n + 1
        /\ \A b \in 1..n : Append(BoxContents, LocalValue(i))[b] = BoxContents[b]
        /\ Append(BoxContents, LocalValue(i))[n + 1] = LocalValue(i)
    BY <1>10, <2>3, AppendProperties
  <2>5. DOMAIN Append(BoxContents, LocalValue(i)) = 1..(n + 1)
    BY <2>4, LenProperties
  <2>6. \A b \in 1..(n + 1) : BoxContents'[b] = Append(BoxContents, LocalValue(i))[b]
    BY <1>4, <1>9, <2>1, <2>2, <2>4
  <2>7. Append(BoxContents, LocalValue(i)) \in [1..(n + 1) -> Value]
    BY <2>4, LenProperties
  <2>8. BoxContents' \in [1..(n + 1) -> Value]
    BY <2>1, <2>6, <2>7
  <2>9. BoxContents' \in Seq(Value)
    BY <1>4, <2>8, SeqDef
  <2>10. Len(BoxContents') = n + 1
    BY <1>4, <2>8
  <2> QED BY <2>4, <2>6, <2>9, <2>10, SeqEqual
<1>12. HasBox(uvs', place) /\ BoxOf(uvs', place) = n + 1
  <2>1. uvs' \in Seq(Upvalue) /\ OnePerPlace(uvs') /\ n + 1 \in 1..Len(uvs')
    BY <1>4 DEF RInv, IInv, Listed, OnePerPlace, EachOnce, ByFrame
  <2> HIDE DEF place
  <2> QED BY <1>4, <2>1, BoxFacts
<1>13. ASSUME NEW d \in 1..Depth, NEW j \in Local, ~(d = Depth /\ j = i)
       PROVE  VarOf(regs, stack, uvs', Depth, d, j) = VarOf(regs, stack, uvs, Depth, d, j)
  <2>1. PlaceOf(d, j) # place
    <3>1. d \in 0..MaxDepth /\ Depth \in 0..MaxDepth
      BY <1>1, BoundsAssumption
    <3> QED BY <1>1, <1>13, <3>1, PlaceInjective DEF place
  <2>2. At(PlaceOf(d, j)) # At(place)
    BY <2>1 DEF At
  <2>3. {b \in 1..Len(uvs') : uvs'[b] = At(PlaceOf(d, j))} = {b \in 1..Len(uvs) : uvs[b] = At(PlaceOf(d, j))}
    BY <1>4, <2>2 DEF n
  <2>4. HasBox(uvs', PlaceOf(d, j)) <=> HasBox(uvs, PlaceOf(d, j))
    BY <2>3 DEF HasBox
  <2>5. BoxOf(uvs', PlaceOf(d, j)) = BoxOf(uvs, PlaceOf(d, j))
    BY <2>3 DEF BoxOf
  <2> QED BY <2>4, <2>5 DEF VarOf
<1>14. VarOf(regs, stack, uvs', Depth, Depth, i) = Boxed!InBox(n + 1)
  BY <1>12 DEF VarOf, place
<1>15. Boxed!SetRunning([BoxedFrames[Depth].locals EXCEPT ![i] = Boxed!InBox(n + 1)])
  <2>1. [BoxedFrames[Depth].locals EXCEPT ![i] = Boxed!InBox(n + 1)] =
            [j \in Local |-> VarOf(regs, stack, uvs', Depth, Depth, j)]
    BY <1>1, <1>7, <1>13, <1>14
  <2>2. /\ BoxedFrames = [d \in 1..Depth |->
               [closure |-> frames[d],
                locals |-> [j \in Local |-> VarOf(regs, stack, uvs, Depth, d, j)]]]
        /\ BoxedFrames' = [d \in 1..Depth |->
               [closure |-> frames[d],
                locals |-> [j \in Local |-> VarOf(regs, stack, uvs', Depth, d, j)]]]
    BY <1>6 DEF FramesOf, Depth
  <2>3. \A d \in 1..Depth : d # Depth => BoxedFrames'[d] = BoxedFrames[d]
    BY <1>13, <2>2
  <2>4. BoxedFrames' = [BoxedFrames EXCEPT ![Depth].locals =
                            [j \in Local |-> VarOf(regs, stack, uvs', Depth, Depth, j)]]
    BY <2>2, <2>3
  <2> QED BY <1>7, <2>1, <2>4 DEF Boxed!SetRunning
<1>16. Boxed!Box(i)
  BY <1>2, <1>7, <1>8, <1>10, <1>11, <1>15 DEF Boxed!Box
<1> QED BY <1>1, <1>16

\* The upvalues of a finished closure are boxes that the activation can reach.
LEMMA FinishClosureMaps ==
    ASSUME RInv, RInv', FinishClosure
    PROVE  Boxed!MakeClosure
<1>1. /\ closures' = Append(closures, creating.uvs) /\ creating.busy
      /\ UNCHANGED <<regs, stack, frames, uvs>>
      /\ Depth' = Depth
      /\ Len(creating.proto) <= Len(creating.uvs)
  <2>1. creating.uvs \in Seq(Cell) /\ creating.proto \in Protos
    BY DEF FinishClosure, RInv, IInv, TypeOK, Creating
  <2>2. creating.proto \in Seq([instack : BOOLEAN, idx : 0..(NrLocals - 1)])
    BY <2>1, ProtosAssumption
  <2> QED BY <2>1, <2>2, LenProperties DEF FinishClosure, Capturing, Depth
<1>2. /\ creating.uvs \in Seq(Cell) /\ creating.proto \in Protos
      /\ Len(creating.uvs) = Len(creating.proto) /\ frames # <<>>
  <2>1. creating.uvs \in Seq(Cell) /\ creating.proto \in Protos /\ frames # <<>>
    BY <1>1 DEF RInv, IInv, TypeOK, Creating
  <2>2. creating.proto \in Seq([instack : BOOLEAN, idx : 0..(NrLocals - 1)])
    BY <2>1, ProtosAssumption
  <2>3. Len(creating.uvs) <= Len(creating.proto)
    BY <1>1 DEF RInv, Captured
  <2> QED BY <1>1, <2>1, <2>2, <2>3, LenProperties
<1>3. Depth \in 1..MaxDepth
  <2>1. frames \in Seq(1..Len(closures)) /\ Depth \in 0..MaxDepth
    BY DEF RInv, IInv, TypeOK, Machine
  <2> QED BY <1>2, <2>1, EmptySeq DEF Depth
<1>4. /\ Boxed!Running.closure = Running
      /\ Boxed!Running.locals = [i \in Local |-> VarOf(regs, stack, uvs, Depth, Depth, i)]
  BY <1>3, RunningFacts
<1>5. ASSUME NEW k \in 1..Len(creating.uvs) PROVE creating.uvs[k] \in Boxed!Capturable
  <2>1. CASE \E i \in Local : uvs[creating.uvs[k]] = At(PlaceOf(Depth, i))
    <3>1. PICK i \in Local : uvs[creating.uvs[k]] = At(PlaceOf(Depth, i))
      BY <2>1
    <3>2. PICK b \in 1..Len(uvs) : b = creating.uvs[k]
      BY <1>2, ElementOfSeq DEF Cell
    <3>3. HasBox(uvs, PlaceOf(Depth, i)) /\ BoxOf(uvs, PlaceOf(Depth, i)) = b
      BY <3>1, <3>2, BoxFacts DEF RInv, IInv, Listed
    <3>4. Boxed!Running.locals[i] = Boxed!InBox(b)
      BY <1>4, <3>3 DEF VarOf
    <3>5. Boxed!Running.locals[i].boxed = TRUE /\ Boxed!Running.locals[i].b = b
      BY <3>4 DEF Boxed!InBox
    <3> QED BY <3>2, <3>5 DEF Boxed!Capturable
  <2>2. CASE \E u \in 1..Len(closures[Running]) : creating.uvs[k] = closures[Running][u]
    BY <1>4, <2>2 DEF Boxed!Capturable
  <2> QED BY <1>1, <2>1, <2>2 DEF RInv, Captured
<1>6. creating.uvs \in [1..Len(creating.proto) -> Boxed!Capturable]
  <2>1. DOMAIN creating.uvs = 1..Len(creating.proto) /\ creating.uvs \in [1..Len(creating.proto) -> Cell]
    BY <1>2, LenProperties
  <2> HIDE DEF Boxed!Capturable
  <2> QED BY <1>2, <1>5, <2>1
<1>7. BoxedFrames' = BoxedFrames /\ BoxContents' = BoxContents
  <2>1. Mem' = Mem
    BY <1>1 DEF Mem, Memory
  <2> QED BY <1>1, <2>1, Mapping, MappingNext DEF RInv
<1> QED BY <1>1, <1>2, <1>6, <1>7 DEF Boxed!MakeClosure

-----------------------------------------------------------------------------
LEMMA FramesAreSeq ==
    ASSUME NEW rg, NEW st, NEW us, NEW fr, Len(fr) \in Nat
    PROVE  FramesOf(rg, st, us, fr) \in Seq({FramesOf(rg, st, us, fr)[d] : d \in 1..Len(fr)})
<1> DEFINE F == FramesOf(rg, st, us, fr)
           R == {F[d] : d \in 1..Len(fr)}
<1>1. F = [d \in 1..Len(fr) |-> [closure |-> fr[d],
              locals |-> [i \in Local |-> VarOf(rg, st, us, Len(fr), d, i)]]]
  BY DEF FramesOf
<1>2. F \in [1..Len(fr) -> R]
  BY <1>1
<1> HIDE DEF F, R
<1>3. F \in Seq(R)
  BY <1>2, SeqDef
<1> QED BY <1>3 DEF F, R

\* What the stack holds of the variables after a store.
LEMMA StoredWords ==
    ASSUME RInv, Depth \in 1..MaxDepth, NEW S \in SUBSET Local,
           NEW d \in 0..MaxDepth, NEW j \in Local
    PROVE  Stored(S)[PlaceOf(d, j)] =
               IF d = Depth /\ j \in S \cap RegLocal THEN regs[j] ELSE stack[PlaceOf(d, j)]
<1>1. PlaceOf(d, j) \in Place
  BY PlaceFacts, LocalsAssumption, BoundsAssumption DEF Local
<1>2. \A i \in S \cap RegLocal : PlaceOf(d, j) = PlaceOf(Depth, i) => d = Depth /\ i = j
  <2>1. Depth \in 0..MaxDepth /\ S \cap RegLocal \subseteq Local
    BY BoundsAssumption DEF RegLocal
  <2> QED BY <2>1, PlaceInjective
<1>3. CASE d = Depth /\ j \in S \cap RegLocal
  <2>1. (CHOOSE i \in S \cap RegLocal : PlaceOf(d, j) = PlaceOf(Depth, i)) = j
    <3>1. \E i \in S \cap RegLocal : PlaceOf(d, j) = PlaceOf(Depth, i)
      BY <1>3
    <3>2. PICK i \in S \cap RegLocal :
              /\ i = (CHOOSE k \in S \cap RegLocal : PlaceOf(d, j) = PlaceOf(Depth, k))
              /\ PlaceOf(d, j) = PlaceOf(Depth, i)
      BY <3>1
    <3> QED BY <1>2, <3>2
  <2>2. Stored(S)[PlaceOf(d, j)] =
            regs[CHOOSE i \in S \cap RegLocal : PlaceOf(d, j) = PlaceOf(Depth, i)]
    BY <1>1, <1>3 DEF Stored
  <2> QED BY <1>3, <2>1, <2>2
<1>4. CASE ~(d = Depth /\ j \in S \cap RegLocal)
  <2>1. ~\E i \in S \cap RegLocal : PlaceOf(d, j) = PlaceOf(Depth, i)
    BY <1>2, <1>4
  <2> QED BY <1>1, <1>4, <2>1 DEF Stored
<1> QED BY <1>3, <1>4

\* A store does not touch what an upvalue of a frame below points at.
LEMMA StoredBelow ==
    ASSUME RInv, Depth \in 1..MaxDepth, NEW S \in SUBSET Local,
           NEW uv \in 1..Len(uvs), uvs[uv].open, FrameOf(uvs[uv].place) < Depth
    PROVE  Stored(S)[uvs[uv].place] = Mem[uvs[uv].place]
<1>1. uvs \in Seq(Upvalue) /\ Live(uvs, Depth) /\ Depth \in 0..MaxDepth
  BY BoundsAssumption DEF RInv, IInv, Listed
<1>2. Mem[uvs[uv].place] = stack[uvs[uv].place]
  BY MemBelow
<1>3. CASE uvs[uv].place = PlaceOf(0, 0)
  <2>1. 0 \in 0..MaxDepth /\ 0 \in Local /\ 0 # Depth
    BY LocalsAssumption, BoundsAssumption DEF Local
  <2> QED BY <1>2, <1>3, <2>1, StoredWords
<1>4. CASE uvs[uv].place # PlaceOf(0, 0)
  <2>1. PICK d \in 1..Depth, i \in Local : uvs[uv].place = PlaceOf(d, i)
    BY <1>1, <1>4, OpenPlace
  <2>2. d \in 0..MaxDepth /\ i \in 0..NrLocals
    BY <1>1, LocalsAssumption, BoundsAssumption DEF Local
  <2>3. d # Depth
    BY <1>1, <2>1, <2>2, PlaceFacts
  <2> QED BY <1>2, <2>1, <2>2, <2>3, StoredWords
<1> QED BY <1>3, <1>4

\* A call adds an activation whose locals are in no box.
LEMMA CallMaps ==
    ASSUME RInv, RInv', Call
    PROVE  \E c \in 1..Len(closures) : Boxed!Call(c)
<1>1. PICK c \in 2..Len(closures) : frames' = Append(frames, c)
  BY DEF Call
<1>2. /\ Depth \in 1..MaxDepth /\ Depth < MaxDepth /\ stack' = Stored(Local)
      /\ UNCHANGED <<regs, uvs, closures>>
  BY ActiveDepth DEF Call, RInv
<1>3. /\ Len(frames') = Depth + 1 /\ frames'[Depth + 1] = c
      /\ \A d \in 1..Depth : frames'[d] = frames[d]
  <2>1. frames \in Seq(1..Len(closures)) /\ c \in 1..Len(closures)
    BY <1>1 DEF RInv, IInv, TypeOK
  <2> QED BY <1>1, <2>1, AppendProperties DEF Depth
<1>4. /\ BoxedFrames = FramesOf(regs, stack, uvs, frames) /\ BoxContents = BoxesOf(Mem, uvs)
      /\ BoxedFrames' = FramesOf(regs, stack', uvs, frames') /\ BoxContents' = BoxesOf(Mem', uvs)
  BY <1>2, Mapping, MappingNext DEF RInv
<1>5. ASSUME NEW d \in 1..Depth, NEW i \in Local
      PROVE  Word(regs, stack', Depth + 1, d, i) = Word(regs, stack, Depth, d, i)
  <2>1. stack'[PlaceOf(d, i)] = IF d = Depth /\ i \in RegLocal THEN regs[i] ELSE stack[PlaceOf(d, i)]
    <3>1. d \in 0..MaxDepth /\ Local \in SUBSET Local /\ (i \in Local \cap RegLocal <=> i \in RegLocal)
      BY <1>2, BoundsAssumption
    <3> QED BY <1>2, <3>1, StoredWords
  <2> QED BY <1>2, <2>1 DEF Word
<1>6. ASSUME NEW d \in 1..Depth, NEW i \in Local
      PROVE  VarOf(regs, stack', uvs, Depth + 1, d, i) = VarOf(regs, stack, uvs, Depth, d, i)
  BY <1>5 DEF VarOf
<1>11. BoxContents' = BoxContents
  <2>1. ASSUME NEW uv \in 1..Len(uvs), uvs[uv].open
        PROVE  Mem'[uvs[uv].place] = Mem[uvs[uv].place]
    <3>1. uvs \in Seq(Upvalue) /\ Live(uvs, Depth) /\ Depth \in 0..MaxDepth
      BY <1>2 DEF RInv, IInv, Listed
    <3>2. CASE uvs[uv].place = PlaceOf(0, 0)
      <4>1. Mem[PlaceOf(0, 0)] = stack[PlaceOf(0, 0)] /\ Mem'[PlaceOf(0, 0)] = stack'[PlaceOf(0, 0)]
        BY MemFacts, MemFactsNext DEF RInv
      <4>2. stack'[PlaceOf(0, 0)] = stack[PlaceOf(0, 0)]
        <5>1. 0 \in 0..MaxDepth /\ 0 \in Local /\ 0 # Depth
          BY <1>2, LocalsAssumption, BoundsAssumption DEF Local
        <5>2. PICK S \in SUBSET Local : S = Local
          OBVIOUS
        <5>3. Stored(S)[PlaceOf(0, 0)] = stack[PlaceOf(0, 0)]
          BY <1>2, <5>1, StoredWords
        <5> QED BY <1>2, <5>2, <5>3
      <4> QED BY <3>2, <4>1, <4>2
    <3>3. CASE uvs[uv].place # PlaceOf(0, 0)
      <4>1. PICK d \in 1..Depth, i \in Local : uvs[uv].place = PlaceOf(d, i)
        BY <2>1, <3>1, <3>3, OpenPlace
      <4>2. d \in 1..MaxDepth /\ Depth' = Depth + 1
        <5>1. Depth' = Depth + 1
          BY <1>3 DEF Depth
        <5>2. d \in 1..MaxDepth
          BY <1>2, BoundsAssumption
        <5> QED BY <5>1, <5>2
      <4>3. Mem'[PlaceOf(d, i)] = Word(regs, stack', Depth + 1, d, i)
        BY <1>2, <4>2, MemAt
      <4>4. Mem[PlaceOf(d, i)] = Word(regs, stack, Depth, d, i)
        BY <4>2, MemFacts DEF RInv
      <4> QED BY <1>5, <4>1, <4>3, <4>4
    <3> QED BY <3>2, <3>3
  <2>2. \A uv \in 1..Len(uvs) : ContentsOf(Mem', uvs, uv) = ContentsOf(Mem, uvs, uv)
    BY <2>1 DEF ContentsOf
  <2> QED BY <1>4, <2>2 DEF BoxesOf
<1> DEFINE locals == [i \in Local |-> VarOf(regs, stack', uvs, Depth + 1, Depth + 1, i)]
           new == [closure |-> c, locals |-> locals]
           R == {BoxedFrames'[d] : d \in 1..(Depth + 1)}
<1>7. locals \in Boxed!Fresh
  <2>1. ASSUME NEW i \in Local
        PROVE  \E v \in Value : VarOf(regs, stack', uvs, Depth + 1, Depth + 1, i) = Boxed!Direct(v)
    <3>1. ~HasBox(uvs, PlaceOf(Depth + 1, i))
      <4>1. ASSUME NEW uv \in 1..Len(uvs), uvs[uv] = At(PlaceOf(Depth + 1, i)) PROVE FALSE
        <5>1. uvs[uv].open /\ uvs[uv].place = PlaceOf(Depth + 1, i)
          BY <4>1 DEF At
        <5>2. FrameOf(PlaceOf(Depth + 1, i)) = Depth + 1
          <6>1. Depth + 1 \in 0..MaxDepth /\ i \in 0..NrLocals
            BY <1>2, LocalsAssumption, BoundsAssumption DEF Local
          <6> QED BY <6>1, PlaceFacts
        <5>3. FrameOf(uvs[uv].place) <= Depth
          <6>1. Depth \in 0..MaxDepth
            BY <1>2
          <6> QED BY <5>1, <6>1, LiveFrame DEF RInv, IInv, Listed
        <5> QED BY <1>2, <5>1, <5>2, <5>3
      <4> QED BY <4>1 DEF HasBox
    <3>2. Word(regs, stack', Depth + 1, Depth + 1, i) \in Value
      <4>1. PlaceOf(Depth + 1, i) \in Place
        <5>1. Depth + 1 \in 0..MaxDepth /\ i \in 0..NrLocals
          BY <1>2, LocalsAssumption, BoundsAssumption DEF Local
        <5> QED BY <5>1, PlaceFacts
      <4>2. stack' \in [Place -> Value] /\ regs \in [RegLocal -> Value]
        BY DEF RInv, IInv, Machine
      <4> QED BY <4>1, <4>2 DEF Word
    <3> QED BY <3>1, <3>2 DEF VarOf
  <2>2. locals \in [Local -> {Boxed!Direct(v) : v \in Value}]
    BY <2>1
  <2> QED BY <2>2 DEF Boxed!Fresh
<1>8. BoxedFrames' = Append(BoxedFrames, new)
  <2>1. /\ BoxedFrames' \in Seq(R) /\ Len(BoxedFrames') = Depth + 1
        /\ BoxedFrames'[Depth + 1] = new
        /\ \A d \in 1..Depth : BoxedFrames'[d] = BoxedFrames[d]
    <3>1. Len(frames') \in Nat /\ Len(frames) \in Nat
      BY <1>2, <1>3 DEF Depth
    <3>2. BoxedFrames' \in Seq(R)
      BY <1>3, <1>4, <3>1, FramesAreSeq
    <3>3. Len(BoxedFrames') = Depth + 1
      BY <1>3, <1>4, <3>1, FramesFacts
    <3>4. BoxedFrames' = [d \in 1..(Depth + 1) |-> [closure |-> frames'[d],
              locals |-> [i \in Local |-> VarOf(regs, stack', uvs, Depth + 1, d, i)]]]
      BY <1>3, <1>4 DEF FramesOf
    <3>5. BoxedFrames = [d \in 1..Depth |-> [closure |-> frames[d],
              locals |-> [i \in Local |-> VarOf(regs, stack, uvs, Depth, d, i)]]]
      BY <1>4 DEF FramesOf, Depth
    <3>6. BoxedFrames'[Depth + 1] = new
      BY <1>2, <1>3, <3>4
    <3>7. ASSUME NEW d \in 1..Depth PROVE BoxedFrames'[d] = BoxedFrames[d]
      <4>1. d \in 1..(Depth + 1)
        BY <1>2
      <4> HIDE DEF new, locals, R
      <4> QED BY <1>3, <1>6, <3>4, <3>5, <4>1
    <3> QED BY <3>2, <3>3, <3>6, <3>7
  <2>2. BoxedFrames \in Seq(R) /\ Len(BoxedFrames) = Depth /\ new \in R
    <3>1. Len(frames) \in Nat /\ Len(frames) = Depth
      BY <1>2 DEF Depth
    <3>2. BoxedFrames \in Seq({BoxedFrames[d] : d \in 1..Depth})
      BY <1>4, <3>1, FramesAreSeq
    <3>3. {BoxedFrames[d] : d \in 1..Depth} \subseteq R
      <4> HIDE DEF new, locals
      <4>1. ASSUME NEW d \in 1..Depth PROVE BoxedFrames[d] \in R
        BY <1>2, <2>1
      <4> QED BY <4>1
    <3>4. Len(BoxedFrames) = Depth
      BY <1>2, RunningFacts
    <3>5. new \in R
      <4> HIDE DEF new, locals
      <4>1. Depth + 1 \in 1..(Depth + 1)
        BY <1>2
      <4> QED BY <2>1, <4>1
    <3> HIDE DEF R, new, locals
    <3> QED BY <3>2, <3>3, <3>4, <3>5, SeqMonotonic
  <2> HIDE DEF R, new, locals
  <2>3. /\ Append(BoxedFrames, new) \in Seq(R)
        /\ Len(Append(BoxedFrames, new)) = Depth + 1
        /\ \A d \in 1..Depth : Append(BoxedFrames, new)[d] = BoxedFrames[d]
        /\ Append(BoxedFrames, new)[Depth + 1] = new
    BY <2>2, AppendProperties
  <2>4. \A d \in 1..(Depth + 1) : BoxedFrames'[d] = Append(BoxedFrames, new)[d]
    BY <1>2, <2>1, <2>3
  <2> QED BY <2>1, <2>3, <2>4, SeqEqual
<1>9. Boxed!Call(c)
  <2> HIDE DEF locals
  <2> QED BY <1>2, <1>7, <1>8, <1>11 DEF Boxed!Call
<1>10. c \in 1..Len(closures)
  OBVIOUS
<1> QED BY <1>9, <1>10

-----------------------------------------------------------------------------
\* What closure_close does to each upvalue: it moves those beyond its base,
\* with the value they point at, and leaves the others alone.
LEMMA ClosedEach ==
    ASSUME RInv, NEW base, NEW mem \in [Place -> Value], ClosureClose(base, mem)
    PROVE  /\ Len(uvs') = Len(uvs)
           /\ \A uv \in 1..Len(uvs) :
                 \/ uvs'[uv] = uvs[uv]
                 \/ /\ uvs[uv].open /\ uvs[uv].place >= base
                    /\ uvs'[uv] = Own(mem[uvs[uv].place])
<1>1. /\ openuvs \in Seq(Cell)
      /\ \A k \in 1..Len(openuvs) : uvs[openuvs[k]].open
      /\ Len(openuvs) \in Nat
  BY LenProperties DEF RInv, IInv, Listed, EachOnce, Cell
<1>2. PICK n \in 0..Len(openuvs) : /\ n = NrMigrated(base)
                                   /\ \A k \in 1..n : Beyond(openuvs[k], base)
  BY <1>1, MigratedFacts
<1>3. uvs' = [uv \in 1..Len(uvs) |-> IF \E k \in 1..n : openuvs[k] = uv
                                     THEN Own(mem[uvs[uv].place]) ELSE uvs[uv]]
  BY <1>2 DEF ClosureClose, MigratedValue
<1>4. ASSUME NEW uv \in 1..Len(uvs), uvs'[uv] # uvs[uv]
      PROVE  /\ uvs[uv].open /\ uvs[uv].place >= base
             /\ uvs'[uv] = Own(mem[uvs[uv].place])
  <2>1. PICK k \in 1..n : openuvs[k] = uv
    BY <1>3, <1>4
  <2>2. k \in 1..Len(openuvs)
    BY <1>1
  <2> QED BY <1>1, <1>2, <1>3, <2>1, <2>2 DEF Beyond
<1>5. Len(uvs') = Len(uvs)
  BY <1>3, Closed DEF RInv
<1> QED BY <1>4, <1>5

\* It takes with it what the variables hold, if the step is one of
\* CloseTakesCurrentValue: of the variables of other frames, the stack knows.
LEMMA ClosedCurrent ==
    ASSUME RInv, Current, Depth \in 1..MaxDepth,
           NEW base, NEW mem \in [Place -> Value], ClosureClose(base, mem),
           \A uv \in 1..Len(uvs) : uvs[uv].open /\ FrameOf(uvs[uv].place) < Depth =>
               mem[uvs[uv].place] = Mem[uvs[uv].place],
           NEW uv \in 1..Len(uvs), uvs[uv].open, ~uvs'[uv].open
    PROVE  uvs'[uv].v = Mem[uvs[uv].place]
<1>1. /\ uvs \in Seq(Upvalue) /\ Live(uvs, Depth) /\ Depth \in 0..MaxDepth
      /\ FrameOf(uvs[uv].place) \in Int
  <2>1. uvs \in Seq(Upvalue) /\ Live(uvs, Depth) /\ Depth \in 0..MaxDepth
    BY DEF RInv, IInv, Listed, Machine
  <2>2. uvs[uv].place \in Place
    BY <2>1, UpvalueFacts
  <2> QED BY <2>1, <2>2, LocalsAssumption DEF FrameOf, FrameSize, Place
<1>2. uvs'[uv] = Own(mem[uvs[uv].place])
  <2>1. uvs'[uv] # uvs[uv]
    OBVIOUS
  <2> QED BY <2>1, ClosedEach
<1>3. CASE FrameOf(uvs[uv].place) < Depth
  BY <1>2, <1>3 DEF Own
<1>4. CASE ~(FrameOf(uvs[uv].place) < Depth)
  <2>1. uvs[uv].place # PlaceOf(0, 0)
    <3>1. FrameOf(PlaceOf(0, 0)) = 0
      BY PlaceFacts, LocalsAssumption, BoundsAssumption
    <3> QED BY <1>1, <1>4, <3>1
  <2>2. PICK d \in 1..Depth, i \in Local :
            uvs[uv] = At(PlaceOf(d, i)) /\ uvs[uv].place = PlaceOf(d, i)
    BY <1>1, <2>1, OpenPlace
  <2>3. d = Depth
    <3>1. d \in 0..MaxDepth /\ i \in 0..NrLocals
      BY <1>1, <2>2, LocalsAssumption, BoundsAssumption DEF Local
    <3>2. FrameOf(uvs[uv].place) = d
      BY <2>2, <3>1, PlaceFacts
    <3> QED BY <1>1, <1>4, <2>2, <3>2
  <2>4. uvs'[uv].v = LocalValue(i)
    BY <2>2, <2>3 DEF Current, Cell
  <2>5. Mem[PlaceOf(Depth, i)] = LocalValue(i)
    BY <2>2, MemFacts DEF RInv, Word, LocalValue
  <2> QED BY <2>2, <2>3, <2>4, <2>5
<1> QED BY <1>3, <1>4

\* It takes variables out of their boxes; the boxes keep their contents.
LEMMA ClosedBoxes ==
    ASSUME RInv, RInv', NEW base, NEW mem \in [Place -> Value], ClosureClose(base, mem),
           \A uv \in 1..Len(uvs) : uvs[uv].open /\ ~uvs'[uv].open =>
               uvs'[uv].v = Mem[uvs[uv].place],
           \A uv \in 1..Len(uvs) : uvs'[uv].open =>
               Mem'[uvs[uv].place] = Mem[uvs[uv].place]
    PROVE  /\ BoxContents' = BoxContents
           /\ \A p : HasBox(uvs', p) => HasBox(uvs, p) /\ BoxOf(uvs', p) = BoxOf(uvs, p)
           /\ \A p : HasBox(uvs, p) /\ ~HasBox(uvs', p) => p >= base
<1>1. /\ Len(uvs') = Len(uvs)
      /\ \A uv \in 1..Len(uvs) :
             \/ uvs'[uv] = uvs[uv]
             \/ /\ uvs[uv].open /\ uvs[uv].place >= base
                /\ uvs'[uv] = Own(mem[uvs[uv].place])
  BY ClosedEach
<1>2. /\ uvs \in Seq(Upvalue) /\ OnePerPlace(uvs)
      /\ uvs' \in Seq(Upvalue) /\ OnePerPlace(uvs')
  BY DEF RInv, IInv, Listed, EachOnce, OnePerPlace, ByFrame
<1>3. ASSUME NEW uv \in 1..Len(uvs)
      PROVE  ContentsOf(Mem', uvs', uv) = ContentsOf(Mem, uvs, uv)
  <2>1. CASE uvs'[uv] = uvs[uv]
    BY <2>1 DEF ContentsOf
  <2>2. CASE uvs[uv].open /\ uvs'[uv] = Own(mem[uvs[uv].place])
    <3>1. ~uvs'[uv].open
      BY <2>2 DEF Own
    <3> QED BY <2>2, <3>1 DEF ContentsOf
  <2> QED BY <1>1, <2>1, <2>2
<1>4. BoxContents' = BoxContents
  BY <1>1, <1>3, Mapping, MappingNext DEF RInv, BoxesOf
<1>5. ASSUME NEW p, HasBox(uvs', p) PROVE HasBox(uvs, p) /\ BoxOf(uvs', p) = BoxOf(uvs, p)
  <2>1. PICK b \in 1..Len(uvs') : b = BoxOf(uvs', p) /\ uvs'[b] = At(p)
    BY <1>2, <1>5, BoxFacts
  <2>2. b \in 1..Len(uvs) /\ uvs[b] = At(p)
    <3>1. \A v : At(p) # Own(v)
      <4>1. \A v : At(p).open = TRUE /\ Own(v).open = FALSE
        BY DEF At, Own
      <4> QED BY <4>1
    <3>2. b \in 1..Len(uvs) /\ uvs'[b] # Own(mem[uvs[b].place])
      BY <1>1, <2>1, <3>1
    <3> QED BY <1>1, <2>1, <3>2
  <2> QED BY <1>2, <2>1, <2>2, BoxFacts
<1>6. ASSUME NEW p, HasBox(uvs, p), ~HasBox(uvs', p) PROVE p >= base
  <2>1. PICK b \in 1..Len(uvs) : uvs[b] = At(p)
    BY <1>6 DEF HasBox
  <2>2. uvs'[b] # uvs[b]
    BY <1>1, <1>6, <2>1 DEF HasBox
  <2>3. uvs[b].place >= base /\ uvs[b].place = p
    BY <1>1, <2>1, <2>2 DEF At
  <2> QED BY <2>3
<1> QED BY <1>4, <1>5, <1>6

\* A JMP that closes takes variables of its block out of their boxes.
LEMMA JumpMaps ==
    ASSUME RInv, RInv', Jump, Current
    PROVE  \E level \in {a + 1 : a \in JumpArgs} : Boxed!LeaveBlock(level)
<1>1. PICK a \in JumpArgs : ClosureClose(PlaceOf(Depth, a + 1), stack)
  BY DEF Jump
<1>2. /\ Depth \in 1..MaxDepth /\ Depth' = Depth
      /\ UNCHANGED <<regs, stack, frames, closures>>
      /\ a \in Nat
  BY ActiveDepth, JumpAssumption DEF Jump, RInv, Depth
<1>3. /\ BoxContents' = BoxContents
      /\ \A p : HasBox(uvs', p) => HasBox(uvs, p) /\ BoxOf(uvs', p) = BoxOf(uvs, p)
      /\ \A p : HasBox(uvs, p) /\ ~HasBox(uvs', p) => p >= PlaceOf(Depth, a + 1)
  <2>1. Mem' = Mem
    BY <1>2 DEF Mem, Memory
  <2>2. stack \in [Place -> Value]
    BY DEF RInv, IInv, Machine
  <2>3. \A uv \in 1..Len(uvs) : uvs[uv].open /\ FrameOf(uvs[uv].place) < Depth =>
            stack[uvs[uv].place] = Mem[uvs[uv].place]
    BY MemBelow
  <2>4. \A uv \in 1..Len(uvs) : uvs[uv].open /\ ~uvs'[uv].open =>
            uvs'[uv].v = Mem[uvs[uv].place]
    BY <1>1, <1>2, <2>2, <2>3, ClosedCurrent
  <2>5. \A uv \in 1..Len(uvs) : uvs'[uv].open => Mem'[uvs[uv].place] = Mem[uvs[uv].place]
    BY <2>1
  <2> HIDE DEF Mem
  <2> QED BY <1>1, <2>2, <2>4, <2>5, ClosedBoxes
<1> DEFINE S == {i \in Local : HasBox(uvs, PlaceOf(Depth, i)) /\ ~HasBox(uvs', PlaceOf(Depth, i))}
<1>4. S \in SUBSET {i \in Local : i >= a + 1}
  <2>1. ASSUME NEW i \in S PROVE i >= a + 1
    <3>1. PlaceOf(Depth, i) >= PlaceOf(Depth, a + 1)
      BY <1>3
    <3> QED BY <1>2, <3>1, LocalsAssumption, BoundsAssumption DEF PlaceOf, FrameSize, Local
  <2> QED BY <2>1
<1>5. ASSUME NEW d \in 1..Depth, NEW i \in Local, ~(d = Depth /\ i \in S)
      PROVE  VarOf(regs, stack, uvs', Depth, d, i) = VarOf(regs, stack, uvs, Depth, d, i)
  <2>1. ~(HasBox(uvs, PlaceOf(d, i)) /\ ~HasBox(uvs', PlaceOf(d, i)))
    <3>1. CASE d < Depth
      <4>1. PlaceOf(d, i) < PlaceOf(Depth, a + 1)
        <5>1. (d + 1) * FrameSize <= Depth * FrameSize
          BY <1>2, <3>1, LocalsAssumption, BoundsAssumption DEF FrameSize
        <5>2. (d + 1) * FrameSize = d * FrameSize + FrameSize /\ d * FrameSize \in Nat
          BY <1>2, LocalsAssumption, BoundsAssumption DEF FrameSize
        <5> QED BY <1>2, <5>1, <5>2, LocalsAssumption, BoundsAssumption DEF PlaceOf, FrameSize, Local
      <4>2. ~(PlaceOf(d, i) >= PlaceOf(Depth, a + 1))
        BY <1>2, <4>1, LocalsAssumption, BoundsAssumption DEF PlaceOf, FrameSize, Local
      <4> QED BY <1>3, <4>2
    <3>2. CASE d = Depth
      BY <1>5, <3>2
    <3> QED BY <1>2, <3>1, <3>2, BoundsAssumption
  <2>2. HasBox(uvs, PlaceOf(d, i)) <=> HasBox(uvs', PlaceOf(d, i))
    BY <1>3, <2>1
  <2>3. HasBox(uvs', PlaceOf(d, i)) => BoxOf(uvs', PlaceOf(d, i)) = BoxOf(uvs, PlaceOf(d, i))
    BY <1>3
  <2> QED BY <2>2, <2>3 DEF VarOf
<1>6. /\ Len(BoxedFrames) = Depth /\ DOMAIN BoxedFrames = 1..Depth
      /\ Boxed!Running = BoxedFrames[Depth]
      /\ BoxedFrames[Depth].locals =
             [i \in Local |-> VarOf(regs, stack, uvs, Depth, Depth, i)]
      /\ \A i \in Local : Boxed!ValueOf(i) = Word(regs, stack, Depth, Depth, i)
  BY <1>2, RunningFacts
<1>7. ASSUME NEW i \in S
      PROVE  VarOf(regs, stack, uvs', Depth, Depth, i) = Boxed!Direct(Boxed!ValueOf(i))
  BY <1>6 DEF VarOf
<1>8. /\ BoxedFrames = [d \in 1..Depth |->
             [closure |-> frames[d],
              locals |-> [i \in Local |-> VarOf(regs, stack, uvs, Depth, d, i)]]]
      /\ BoxedFrames' = [d \in 1..Depth |->
             [closure |-> frames[d],
              locals |-> [i \in Local |-> VarOf(regs, stack, uvs', Depth, d, i)]]]
  BY <1>2, Mapping, MappingNext DEF RInv, FramesOf, Depth
<1> HIDE DEF S
<1>9. Boxed!SetRunning([i \in Local |-> IF i \in S THEN Boxed!Direct(Boxed!ValueOf(i))
                                                  ELSE Boxed!Running.locals[i]])
  <2>1. [i \in Local |-> IF i \in S THEN Boxed!Direct(Boxed!ValueOf(i))
                                    ELSE Boxed!Running.locals[i]] =
            [i \in Local |-> VarOf(regs, stack, uvs', Depth, Depth, i)]
    <3>1. ASSUME NEW i \in Local
          PROVE  (IF i \in S THEN Boxed!Direct(Boxed!ValueOf(i)) ELSE Boxed!Running.locals[i])
                     = VarOf(regs, stack, uvs', Depth, Depth, i)
      <4>1. Depth \in 1..Depth
        BY <1>2, BoundsAssumption
      <4>2. CASE i \in S
        BY <1>7, <4>2
      <4>3. CASE i \notin S
        BY <1>5, <1>6, <4>1, <4>3
      <4> QED BY <4>2, <4>3
    <3> QED BY <3>1
  <2>2. \A d \in 1..Depth : d # Depth => BoxedFrames'[d] = BoxedFrames[d]
    BY <1>5, <1>8
  <2>3. BoxedFrames' = [BoxedFrames EXCEPT ![Depth].locals =
                            [i \in Local |-> VarOf(regs, stack, uvs', Depth, Depth, i)]]
    BY <1>8, <2>2
  <2> QED BY <1>6, <2>1, <2>3 DEF Boxed!SetRunning
<1>10. Boxed!LeaveBlock(a + 1)
  BY <1>2, <1>3, <1>4, <1>9 DEF Boxed!LeaveBlock
<1> QED BY <1>10

\* A return removes the activation, none of whose variables is left open.
LEMMA ReturnMaps ==
    ASSUME RInv, RInv', Return, Current
    PROVE  Boxed!Return
<1>1. PICK first \in Local, last \in -1..(NrLocals - 1) :
          /\ stack' = Stored(first..last)
          /\ ClosureClose(CallSlot(Depth - 1), Stored(first..last))
          /\ regs' = IF Depth = 1 THEN regs
                     ELSE [i \in RegLocal |-> Stored(first..last)[PlaceOf(Depth - 1, i)]]
  BY DEF Return
<1>2. /\ Depth \in 1..MaxDepth /\ frames' = SubSeq(frames, 1, Depth - 1)
      /\ UNCHANGED closures
  BY ActiveDepth DEF Return, RInv
<1>3. PICK S \in SUBSET Local : S = first..last
  BY LocalsAssumption DEF Local
<1>4. Stored(S) \in [Place -> Value]
  BY <1>2, StoredType DEF RInv, IInv
<1>5. /\ Len(frames') = Depth - 1 /\ Depth' = Depth - 1
      /\ \A d \in 1..(Depth - 1) : frames'[d] = frames[d]
  BY <1>2, PoppedFrame DEF RInv, Depth
<1>13. ASSUME NEW d \in 1..(Depth - 1), NEW i \in Local
       PROVE  Word(regs', stack', Depth - 1, d, i) = Word(regs, stack, Depth, d, i)
  <2>1. stack'[PlaceOf(d, i)] = stack[PlaceOf(d, i)] /\ d # Depth
    <3>1. d \in 0..MaxDepth /\ d # Depth
      BY <1>2, BoundsAssumption
    <3>2. Stored(S)[PlaceOf(d, i)] = stack[PlaceOf(d, i)]
      BY <1>2, <3>1, StoredWords
    <3> QED BY <1>1, <1>3, <3>1, <3>2
  <2>2. CASE d = Depth - 1 /\ i \in RegLocal
    <3>1. Depth # 1
      BY <1>2, <2>2
    <3>2. regs'[i] = stack'[PlaceOf(d, i)]
      BY <1>1, <2>2, <3>1
    <3> QED BY <2>1, <2>2, <3>2 DEF Word
  <2>3. CASE ~(d = Depth - 1 /\ i \in RegLocal)
    BY <2>1, <2>3 DEF Word
  <2> QED BY <2>2, <2>3
<1>14. ASSUME NEW uv \in 1..Len(uvs), uvs'[uv].open
       PROVE  Mem'[uvs[uv].place] = Mem[uvs[uv].place]
  <2>1. /\ uvs \in Seq(Upvalue) /\ uvs' \in Seq(Upvalue) /\ Len(uvs') = Len(uvs)
        /\ uvs'[uv] = uvs[uv] /\ Live(uvs', Depth - 1) /\ Depth - 1 \in 0..MaxDepth
    <3>1. Len(uvs') = Len(uvs) /\ uvs'[uv] = uvs[uv]
      <4>1. uvs'[uv] # Own(Stored(S)[uvs[uv].place])
        BY <1>14 DEF Own
      <4>2. ClosureClose(CallSlot(Depth - 1), Stored(S))
        BY <1>1, <1>3
      <4>3. PICK mem \in [Place -> Value] : mem = Stored(S)
        BY <1>4
      <4>4. /\ Len(uvs') = Len(uvs)
            /\ uvs'[uv] = uvs[uv] \/ uvs'[uv] = Own(mem[uvs[uv].place])
        BY <4>2, <4>3, ClosedEach
      <4> QED BY <4>1, <4>3, <4>4
    <3>2. Live(uvs', Depth - 1)
      BY <1>5 DEF RInv, IInv, Live
    <3>3. uvs \in Seq(Upvalue) /\ uvs' \in Seq(Upvalue)
      BY DEF RInv, IInv, Listed, EachOnce, OnePerPlace, ByFrame
    <3>4. Depth - 1 \in 0..MaxDepth
      BY <1>2, BoundsAssumption
    <3> QED BY <3>1, <3>2, <3>3, <3>4
  <2>2. CASE uvs[uv].place = PlaceOf(0, 0)
    <3>1. Mem[PlaceOf(0, 0)] = stack[PlaceOf(0, 0)] /\ Mem'[PlaceOf(0, 0)] = stack'[PlaceOf(0, 0)]
      BY MemFacts, MemFactsNext DEF RInv
    <3>2. stack'[PlaceOf(0, 0)] = stack[PlaceOf(0, 0)]
      <4>1. 0 \in 0..MaxDepth /\ 0 \in Local /\ 0 # Depth
        BY <1>2, LocalsAssumption, BoundsAssumption DEF Local
      <4> QED BY <1>1, <1>2, <1>3, <4>1, StoredWords
    <3> QED BY <2>2, <3>1, <3>2
  <2>3. CASE uvs[uv].place # PlaceOf(0, 0)
    <3>1. PICK d \in 1..(Depth - 1), i \in Local : uvs[uv].place = PlaceOf(d, i)
      <4>1. PICK us, depth : us = uvs' /\ depth = Depth - 1
        OBVIOUS
      <4>2. /\ us \in Seq(Upvalue) /\ depth \in 0..MaxDepth /\ Live(us, depth)
            /\ uv \in 1..Len(us) /\ us[uv].open /\ us[uv].place # PlaceOf(0, 0)
        BY <1>14, <2>1, <2>3, <4>1
      <4>3. \E d \in 1..depth, i \in Local : us[uv].place = PlaceOf(d, i)
        BY <4>2, OpenPlace
      <4> QED BY <2>1, <4>1, <4>3, Zenon
    <3>2. d \in 1..MaxDepth
      BY <1>2, BoundsAssumption
    <3>3. Mem[PlaceOf(d, i)] = Word(regs, stack, Depth, d, i)
      BY <3>2, MemFacts DEF RInv
    <3>4. Mem'[PlaceOf(d, i)] = Word(regs', stack', Depth - 1, d, i)
      BY <1>5, <3>2, MemAt
    <3> QED BY <1>13, <3>1, <3>3, <3>4
  <2> QED BY <2>2, <2>3
<1>6. /\ BoxContents' = BoxContents
      /\ \A p : HasBox(uvs', p) => HasBox(uvs, p) /\ BoxOf(uvs', p) = BoxOf(uvs, p)
      /\ \A p : HasBox(uvs, p) /\ ~HasBox(uvs', p) => p >= CallSlot(Depth - 1)
  <2>1. \A uv \in 1..Len(uvs) : uvs[uv].open /\ FrameOf(uvs[uv].place) < Depth =>
            Stored(S)[uvs[uv].place] = Mem[uvs[uv].place]
    BY <1>2, StoredBelow
  <2>2. \A uv \in 1..Len(uvs) : uvs[uv].open /\ ~uvs'[uv].open =>
            uvs'[uv].v = Mem[uvs[uv].place]
    BY <1>1, <1>2, <1>3, <1>4, <2>1, ClosedCurrent
  <2> HIDE DEF Mem
  <2> QED BY <1>1, <1>3, <1>4, <1>14, <2>2, ClosedBoxes
<1>7. ASSUME NEW d \in 1..(Depth - 1), NEW i \in Local
      PROVE  VarOf(regs', stack', uvs', Depth - 1, d, i) = VarOf(regs, stack, uvs, Depth, d, i)
  <2>1. ~(PlaceOf(d, i) >= CallSlot(Depth - 1))
    <3>1. d * FrameSize <= (Depth - 1) * FrameSize
      BY <1>2, LocalsAssumption, BoundsAssumption DEF FrameSize
    <3>2. d * FrameSize \in Nat /\ (Depth - 1) * FrameSize \in Nat
      BY <1>2, LocalsAssumption, BoundsAssumption DEF FrameSize
    <3> QED BY <3>1, <3>2, LocalsAssumption DEF CallSlot, PlaceOf, Local
  <2>2. HasBox(uvs, PlaceOf(d, i)) <=> HasBox(uvs', PlaceOf(d, i))
    BY <1>6, <2>1
  <2>3. HasBox(uvs', PlaceOf(d, i)) => BoxOf(uvs', PlaceOf(d, i)) = BoxOf(uvs, PlaceOf(d, i))
    BY <1>6
  <2> QED BY <1>13, <2>2, <2>3 DEF VarOf
<1>8. /\ BoxedFrames = FramesOf(regs, stack, uvs, frames)
      /\ BoxedFrames' = FramesOf(regs', stack', uvs', frames')
      /\ Len(frames) = Depth /\ Len(frames) \in Nat /\ Len(frames') \in Nat
  BY <1>2, <1>5, Mapping, MappingNext DEF RInv, Depth
<1> DEFINE R == {BoxedFrames[d] : d \in 1..Depth}
<1>9. /\ BoxedFrames \in Seq(R) /\ Len(BoxedFrames) = Depth
  BY <1>8, FramesAreSeq, FramesFacts
<1>10. \A d \in 1..(Depth - 1) : BoxedFrames'[d] = BoxedFrames[d]
  <2>1. BoxedFrames' = [d \in 1..(Depth - 1) |-> [closure |-> frames'[d],
            locals |-> [i \in Local |-> VarOf(regs', stack', uvs', Depth - 1, d, i)]]]
    BY <1>5, <1>8 DEF FramesOf
  <2>2. BoxedFrames = [d \in 1..Depth |-> [closure |-> frames[d],
            locals |-> [i \in Local |-> VarOf(regs, stack, uvs, Depth, d, i)]]]
    BY <1>8 DEF FramesOf
  <2>3. 1..(Depth - 1) \subseteq 1..Depth
    BY <1>2
  <2> HIDE DEF R
  <2> QED BY <1>5, <1>7, <2>1, <2>2, <2>3
<1> HIDE DEF R
<1>11. BoxedFrames' \in Seq(R) /\ Len(BoxedFrames') = Depth - 1
  <2>1. Len(BoxedFrames') = Depth - 1 /\ DOMAIN BoxedFrames' = 1..(Depth - 1)
    BY <1>5, <1>8, FramesFacts
  <2>2. \A d \in 1..(Depth - 1) : BoxedFrames'[d] \in R
    <3>1. ASSUME NEW d \in 1..(Depth - 1) PROVE BoxedFrames'[d] \in R
      <4>1. d \in 1..Len(BoxedFrames)
        BY <1>2, <1>9
      <4>2. BoxedFrames[d] \in R
        BY <1>9, <4>1, ElementOfSeq
      <4> QED BY <1>10, <4>2
    <3> QED BY <3>1
  <2>3. BoxedFrames' \in Seq({BoxedFrames'[d] : d \in 1..(Depth - 1)})
    BY <1>5, <1>8, FramesAreSeq
  <2>4. {BoxedFrames'[d] : d \in 1..(Depth - 1)} \subseteq R
    BY <2>2
  <2> QED BY <2>1, <2>3, <2>4, SeqMonotonic
<1>12. BoxedFrames' = SubSeq(BoxedFrames, 1, Len(BoxedFrames) - 1)
  <2>1. \A d \in 1..(Depth - 1) : BoxedFrames[d] \in R
    <3>1. \A d \in 1..(Depth - 1) : d \in 1..Len(BoxedFrames)
      BY <1>2, <1>9
    <3> QED BY <1>9, <3>1, ElementOfSeq
  <2>2. 1 \in Int /\ Depth - 1 \in Int
    BY <1>2
  <2>3. /\ SubSeq(BoxedFrames, 1, Depth - 1) \in Seq(R)
        /\ Len(SubSeq(BoxedFrames, 1, Depth - 1)) =
               IF 1 <= Depth - 1 THEN (Depth - 1) - 1 + 1 ELSE 0
        /\ \A k \in 1..((Depth - 1) - 1 + 1) :
               SubSeq(BoxedFrames, 1, Depth - 1)[k] = BoxedFrames[1 + k - 1]
    BY <2>1, <2>2, SubSeqProperties
  <2>4. /\ Len(SubSeq(BoxedFrames, 1, Depth - 1)) = Depth - 1
        /\ \A k \in 1..(Depth - 1) : SubSeq(BoxedFrames, 1, Depth - 1)[k] = BoxedFrames[k]
    BY <1>2, <2>3
  <2>5. BoxedFrames' = SubSeq(BoxedFrames, 1, Depth - 1)
    BY <1>10, <1>11, <2>3, <2>4, SeqEqual
  <2> QED BY <1>9, <2>5
<1> QED BY <1>2, <1>6, <1>12 DEF Boxed!Return

LEMMA InitMaps == Init => Boxed!Init
<1> SUFFICES ASSUME Init PROVE Boxed!Init
  OBVIOUS
<1>1. RInv
  BY InitRInv
<1>2. /\ frames = <<1>> /\ Len(frames) = 1 /\ Depth = 1 /\ closures = <<<<1>>>>
      /\ uvs = <<At(PlaceOf(0, 0))>> /\ Len(uvs) = 1 /\ uvs[1] = At(PlaceOf(0, 0))
  BY DEF Init, Depth
<1>3. BoxedFrames = FramesOf(regs, stack, uvs, frames) /\ BoxContents = BoxesOf(Mem, uvs)
  BY <1>1, Mapping DEF RInv
<1>4. BoxContents \in [1..1 -> Value]
  BY <1>1, <1>2, <1>3, BoxesFacts DEF BoxesOf
<1> DEFINE locals == [i \in Local |-> VarOf(regs, stack, uvs, 1, 1, i)]
<1>5. locals \in Boxed!Fresh
  <2>1. ASSUME NEW i \in Local
        PROVE  \E v \in Value : VarOf(regs, stack, uvs, 1, 1, i) = Boxed!Direct(v)
    <3>1. 0 \in 0..MaxDepth /\ 0 \in Local /\ 1 \in 0..MaxDepth /\ 1 \in 1..MaxDepth
      BY LocalsAssumption, BoundsAssumption DEF Local
    <3>2. PlaceOf(1, i) # PlaceOf(0, 0)
      BY <3>1, PlaceInjective
    <3>3. ~HasBox(uvs, PlaceOf(1, i))
      BY <1>2, <3>2 DEF HasBox, At
    <3>4. Word(regs, stack, 1, 1, i) \in Value
      <4>1. LocalValue(i) \in Value /\ LocalValue(i) = Word(regs, stack, 1, 1, i)
        BY <1>1, <1>2, <3>1, LocalType, RunningFacts DEF RInv, IInv
      <4> QED BY <4>1
    <3> QED BY <3>3, <3>4 DEF VarOf
  <2>2. locals \in [Local -> {Boxed!Direct(v) : v \in Value}]
    BY <2>1
  <2> QED BY <2>2 DEF Boxed!Fresh
<1>6. BoxedFrames = <<[closure |-> 1, locals |-> locals]>>
  <2>1. BoxedFrames = [d \in 1..1 |-> [closure |-> frames[d],
            locals |-> [i \in Local |-> VarOf(regs, stack, uvs, 1, d, i)]]]
    BY <1>2, <1>3 DEF FramesOf
  <2>2. BoxedFrames = [d \in 1..1 |-> [closure |-> 1, locals |-> locals]]
    BY <1>2, <2>1
  <2> HIDE DEF locals
  <2> QED BY <2>2
<1> HIDE DEF locals
<1> QED BY <1>2, <1>4, <1>5, <1>6 DEF Boxed!Init

\* Every step of the upvalues is one of the boxed variables, or none.
LEMMA NextMaps ==
    ASSUME RInv, [Next /\ Current]_vars
    PROVE  [Boxed!Next]_(Boxed!vars)
<1>1. CASE UNCHANGED vars
  <2>1. BoxedFrames' = BoxedFrames
    BY <1>1 DEF vars, BoxedFrames, Variable, BoxesAt, ValueIn, LocalValue, Depth, Cell
  <2>2. BoxContents' = BoxContents
    BY <1>1 DEF vars, BoxContents, Contents, ValueIn, LocalValue, Depth, Cell
  <2> QED BY <1>1, <2>1, <2>2 DEF vars, Boxed!vars
<1>2. CASE Next /\ Current
  <2>1. RInv'
    BY <1>2, NextRInv
  <2>2. ASSUME Active PROVE BoxedFrames # <<>>
    <3>1. Depth \in 1..MaxDepth
      BY <2>2, ActiveDepth DEF RInv
    <3>2. Len(BoxedFrames) = Depth
      BY <3>1, RunningFacts
    <3> QED BY <3>1, <3>2
  <2>3. ASSUME creating.busy PROVE BoxedFrames # <<>>
    <3>1. frames \in Seq(1..Len(closures)) /\ frames # <<>> /\ Depth \in 0..MaxDepth
      BY <2>3 DEF RInv, IInv, TypeOK, Machine, Creating
    <3>2. Depth \in 1..MaxDepth
      BY <3>1, EmptySeq DEF Depth
    <3>3. Len(BoxedFrames) = Depth
      BY <3>2, RunningFacts
    <3> QED BY <3>2, <3>3
  <2>4. CASE SetLocal
    <3>1. \E i \in Local, v \in Value : Boxed!Assign(i, v)
      BY <2>1, <2>4, SetLocalMaps
    <3> QED BY <2>2, <2>4, <3>1 DEF Boxed!Next, SetLocal
  <2>5. CASE GetUpval
    <3>1. \E i \in Local, u \in 1..Len(closures[Boxed!Running.closure]) : Boxed!GetUpval(u, i)
      BY <2>1, <2>5, GetUpvalMaps
    <3> QED BY <2>2, <2>5, <3>1 DEF Boxed!Next, GetUpval
  <2>6. CASE SetUpval
    <3>1. \E i \in Local, u \in 1..Len(closures[Boxed!Running.closure]) : Boxed!SetUpval(u, i)
      BY <2>1, <2>6, SetUpvalMaps
    <3> QED BY <2>2, <2>6, <3>1 DEF Boxed!Next, SetUpval
  <2>7. CASE StartClosure \/ CaptureOpen \/ CaptureParent
    <3>1. UNCHANGED <<regs, stack, frames, uvs, closures>>
      BY <2>7 DEF StartClosure, CaptureOpen, CaptureParent
    <3>2. BoxedFrames' = BoxedFrames /\ BoxContents' = BoxContents
      <4>1. Mem' = Mem
        BY <3>1 DEF Mem, Memory, Depth
      <4> QED BY <2>1, <3>1, <4>1, Mapping, MappingNext DEF RInv
    <3> QED BY <3>1, <3>2 DEF Boxed!vars
  <2>8. CASE CaptureNew
    <3>1. \E i \in Local : Boxed!Box(i)
      BY <2>1, <2>8, CaptureNewMaps
    <3> QED BY <2>3, <2>8, <3>1 DEF Boxed!Next, CaptureNew, Capturing
  <2>9. CASE FinishClosure
    <3>1. Boxed!MakeClosure
      BY <2>1, <2>9, FinishClosureMaps
    <3> QED BY <2>3, <2>9, <3>1 DEF Boxed!Next, FinishClosure
  <2>10. CASE Call
    <3>1. \E c \in 1..Len(closures) : Boxed!Call(c)
      BY <2>1, <2>10, CallMaps
    <3> QED BY <2>2, <2>10, <3>1 DEF Boxed!Next, Call
  <2>11. CASE Return
    <3>1. Boxed!Return
      BY <1>2, <2>1, <2>11, ReturnMaps
    <3> QED BY <2>2, <2>11, <3>1 DEF Boxed!Next, Return
  <2>12. CASE Jump
    <3>1. \E level \in {a + 1 : a \in JumpArgs} : Boxed!LeaveBlock(level)
      BY <1>2, <2>1, <2>12, JumpMaps
    <3> QED BY <2>2, <2>12, <3>1 DEF Boxed!Next, Jump
  <2> QED BY <1>2, <2>4, <2>5, <2>6, <2>7, <2>8, <2>9, <2>10, <2>11, <2>12 DEF Next
<1> QED BY <1>1, <1>2

-----------------------------------------------------------------------------
\* As long as no close takes a stale value, upvalues implement boxed variables,
\* wherever captured locals live: a function and all closures that captured a
\* variable of it read and write one value, before and after the function
\* returns (src/func.c:50).  The runs show what the condition is worth: it holds
\* when locals that are captured are on the stack, and upvalue_stale breaks it
\* when they are in registers.
THEOREM BoxesAreShared == Spec /\ CloseTakesCurrentValue => RefinesBoxedVariables
<1>1. Init => RInv /\ Boxed!Init
  BY InitRInv, InitMaps
<1>2. RInv /\ [Next]_vars => RInv'
  BY StepRInv
<1>3. RInv /\ [Next /\ Current]_vars => [Boxed!Next]_(Boxed!vars)
  BY NextMaps
<1>4. [Next]_vars /\ [\A uv \in Cell, i \in Local :
              uvs[uv] = At(PlaceOf(Depth, i)) /\ ~uvs'[uv].open
                  => uvs'[uv].v = LocalValue(i)]_vars
          => [Next /\ Current]_vars
  BY DEF Current
<1> QED BY <1>1, <1>2, <1>3, <1>4, PTL
        DEF Spec, CloseTakesCurrentValue, RefinesBoxedVariables, Boxed!Spec

LEMMA CloseIsCurrent ==
    ASSUME RInv, Next, NEW uv \in Cell, NEW i \in Local \ RegLocal,
           uvs[uv] = At(PlaceOf(Depth, i)), ~uvs'[uv].open
    PROVE  uvs'[uv].v = LocalValue(i)
<1>1. /\ uv \in 1..Len(uvs) /\ uvs[uv].open /\ uvs[uv].place = PlaceOf(Depth, i)
      /\ uvs \in Seq(Upvalue) /\ DOMAIN uvs = 1..Len(uvs)
  BY LenProperties DEF RInv, IInv, Listed, Cell, At
<1>2. ASSUME uvs'[uv] = uvs[uv] PROVE FALSE
  BY <1>1, <1>2
<1>3. ASSUME NEW base, NEW mem \in [Place -> Value], ClosureClose(base, mem),
             Depth \in 1..MaxDepth, mem[uvs[uv].place] = stack[uvs[uv].place]
      PROVE  uvs'[uv].v = LocalValue(i)
  <2>1. uvs'[uv] = Own(mem[uvs[uv].place])
    BY <1>1, <1>2, <1>3, ClosedEach
  <2> QED BY <1>1, <1>3, <2>1 DEF Own, LocalValue
<1>4. CASE SetLocal \/ GetUpval \/ Call \/ StartClosure \/ CaptureOpen \/ CaptureParent
              \/ FinishClosure
  BY <1>2, <1>4 DEF SetLocal, GetUpval, Call, StartClosure, CaptureOpen, CaptureParent,
                    FinishClosure
<1>5. CASE SetUpval
  <2>1. PICK u \in 1..Len(closures[Running]), j \in Local :
            \/ UNCHANGED uvs
            \/ /\ ~uvs[closures[Running][u]].open
               /\ uvs' = [uvs EXCEPT ![closures[Running][u]] = Own(LocalValue(j))]
    BY <1>5 DEF SetUpval
  <2>2. uvs'[uv] = uvs[uv]
    BY <1>1, <2>1
  <2> QED BY <1>2, <2>2
<1>6. CASE CaptureNew
  <2>1. uvs'[uv] = uvs[uv]
    <3>1. PICK x : uvs' = Append(uvs, At(x)) /\ x = PlaceOf(Depth, Descriptor.idx)
      BY <1>6 DEF CaptureNew
    <3>2. At(x) \in Upvalue
      <4>1. Depth \in 0..MaxDepth /\ Descriptor.idx \in 0..NrLocals
        BY <1>6, DescriptorFacts, LocalsAssumption, BoundsAssumption
           DEF CaptureNew, RInv, Local
      <4> QED BY <3>1, <4>1, PlaceFacts DEF Upvalue
    <3> QED BY <1>1, <3>1, <3>2, AppendProperties
  <2> QED BY <1>2, <2>1
<1>7. CASE Jump
  <2>1. /\ \E a \in JumpArgs : ClosureClose(PlaceOf(Depth, a + 1), stack)
        /\ stack \in [Place -> Value] /\ Depth \in 1..MaxDepth
    BY <1>7, ActiveDepth DEF Jump, RInv, IInv, Machine
  <2> QED BY <1>3, <2>1
<1>8. CASE Return
  <2>1. PICK first \in Local, last \in -1..(NrLocals - 1) :
            ClosureClose(CallSlot(Depth - 1), Stored(first..last))
    BY <1>8 DEF Return
  <2>2. Depth \in 1..MaxDepth
    BY <1>8, ActiveDepth DEF Return, RInv
  <2>3. PICK S \in SUBSET Local : S = first..last
    BY LocalsAssumption DEF Local
  <2>4. Stored(S) \in [Place -> Value]
    BY <2>2, StoredType DEF RInv, IInv
  <2>5. Stored(S)[uvs[uv].place] = stack[uvs[uv].place]
    <3>1. Depth \in 0..MaxDepth
      BY <2>2
    <3> QED BY <1>1, <2>2, <3>1, StoredWords
  <2> QED BY <1>3, <2>1, <2>2, <2>3, <2>4, <2>5
<1> QED BY <1>4, <1>5, <1>6, <1>7, <1>8 DEF Next

\* A local that is on the stack is always closed with the value it has: only one
\* in a register can be closed with a stale value (src/xlogue.c:172).
THEOREM StackLocalsCloseCurrent ==
    Spec => [][\A uv \in Cell, i \in Local \ RegLocal :
                  uvs[uv] = At(PlaceOf(Depth, i)) /\ ~uvs'[uv].open
                      => uvs'[uv].v = LocalValue(i)]_vars
<1>1. Init => RInv
  BY InitRInv
<1>2. RInv /\ [Next]_vars => RInv'
  BY StepRInv
<1>3. RInv /\ [Next]_vars =>
          [\A uv \in Cell, i \in Local \ RegLocal :
              uvs[uv] = At(PlaceOf(Depth, i)) /\ ~uvs'[uv].open
                  => uvs'[uv].v = LocalValue(i)]_vars
  BY CloseIsCurrent
<1> QED BY <1>1, <1>2, <1>3, PTL DEF Spec
=============================================================================
