------------------------------ MODULE Emitter -------------------------------
(***************************************************************************)
(* The machine-code emitter of emitter32.c.  Instructions are appended to  *)
(* a buffer that doubles when it is full; labels and branches are only     *)
(* recorded, and link() fills in the branch offsets at the end and shrinks *)
(* the buffer to the size of the code.  The callers are the loader, which  *)
(* starts the bytecode lines in order (main.c), and the branch emitters of *)
(* arch/mips/branch.c, which record a branch and then encode it.           *)
(***************************************************************************)
EXTENDS Integers, Sequences

CONSTANTS
    Label,        \* local label numbers, 0..NR_LOCAL_LABELS-1 in the code
    VmLines,      \* the vmlines argument of emitter32_create
    OffsetRange,  \* values of a branch's immediate operand (2^16)
    FirstBuffer,  \* bytes of the first buffer (16)
    MaxCode,      \* bound: instructions emitted
    MaxPlaced     \* bound: times a local label is placed

ASSUME VmLinesAssumption == VmLines \in Nat
ASSUME OffsetRangeAssumption == OffsetRange \in Nat \ {0} /\ OffsetRange % 2 = 0
ASSUME FirstBufferAssumption == FirstBuffer \in Nat \ {0} /\ FirstBuffer % 4 = 0
ASSUME MaxCodeAssumption == MaxCode \in Nat /\ MaxPlaced \in Nat

VARIABLES
    mcode,    \* the words: is it a branch, and its 16-bit operand
    bufsize,  \* bytes allocated for mcode
    jt,       \* jump table: VM line -> machine-code line
    pc,       \* the largest VM line labelled so far
    lines,    \* VM lines labelled so far (the loop index of load_code)
    local,    \* local[l]: list of places of local label l
    head,     \* branches that remain to be linked
    status    \* "open", "linked", or "aborted" by an assert

vars == <<mcode, bufsize, jt, pc, lines, local, head, status>>

VmLine == 0..(VmLines - 1)
Field == 0..(OffsetRange - 1)
ec == Len(mcode)

Branch == [mline : Nat, islocal : {FALSE}, vline : VmLine]
             \cup [mline : Nat, islocal : {TRUE}, local : Label, isnext : BOOLEAN]

-----------------------------------------------------------------------------
\* Sizes from one on, each twice the one before.
Doubled(size, n) ==
    LET doubled[k \in 0..n] == IF k = 0 THEN size ELSE 2 * doubled[k - 1]
    IN  doubled

\* DASM_M_GROW: the buffer is doubled, from the first one up, until it fits.
Grow(sz, need) ==
    LET first == IF sz < FirstBuffer THEN FirstBuffer ELSE sz
        doubled == Doubled(first, need)
        Enough == {k \in 0..need : doubled[k] >= need}
    IN  IF sz >= need THEN sz
        ELSE doubled[CHOOSE k \in Enough : \A j \in Enough : k <= j]

\* Mutant: the new size is passed for the old one.
ReallocNew(newsize) == newsize

\* The old size that DASM_M_GROW tells the allocator.
ReallocOld(newsize) == newsize \div 2

\* ENCODE_OP
Encode(word) ==
    /\ bufsize' = Grow(bufsize, 4 * Len(mcode) + 4)
    /\ mcode' = Append(mcode, word)

\* find_local_label: list indices that match, and the one that the scan stops at.
Matches(b) ==
    {i \in 1..Len(local[b.local]) :
        IF b.isnext THEN b.mline < local[b.local][i] ELSE b.mline > local[b.local][i]}

\* Mutant: the scan for the next label starts from the tail.
FindFromTail(b) ==
    local[b.local][CHOOSE i \in Matches(b) : \A j \in Matches(b) : j <= i]

FindLocalLabel(b) ==
    local[b.local][IF b.isnext
                   THEN CHOOSE i \in Matches(b) : \A j \in Matches(b) : i <= j
                   ELSE CHOOSE i \in Matches(b) : \A j \in Matches(b) : j <= i]

\* The machine-code line that link() computes for a branch.
Target(b) == IF b.islocal THEN FindLocalLabel(b) ELSE jt[b.vline]

\* Mutants: the delay slot is not counted, and the operand is not masked.
OffsetFieldNoSlot(target, mline) == (target - mline) % OffsetRange
OffsetFieldUnmasked(target, mline) == target - (mline + 1)

\* (int16_t)(target - (mline + 1)) & 0xffff
OffsetField(target, mline) == (target - (mline + 1)) % OffsetRange

\* What the processor makes of the operand of the branch at a line.
Sign(f) == IF 2 * f >= OffsetRange THEN f - OffsetRange ELSE f
Goes(mline, f) == mline + 1 + Sign(f)

-----------------------------------------------------------------------------
Init ==
    /\ mcode = <<>>
    /\ bufsize = 0
    /\ jt = [v \in VmLine |-> 0]
    /\ pc = 0
    /\ lines = 0
    /\ local = [l \in Label |-> <<>>]
    /\ head = {}
    /\ status = "open"

CanEmit == status = "open" /\ Len(mcode) < MaxCode

\* Any instruction that is not a branch to a label.
EmitOp ==
    /\ CanEmit
    /\ Encode([branch |-> FALSE, field |-> 0])
    /\ UNCHANGED <<jt, pc, lines, local, head, status>>

\* Mutant: the branch is recorded after it is encoded.
RecordedAfter == ec + 1

\* The line a branch is recorded at: that of the instruction to come.
RecordedLine == ec

EmitBranch(b) ==
    /\ CanEmit
    /\ head' = head \cup {b}
    /\ Encode([branch |-> TRUE, field |-> 0])
    /\ UNCHANGED <<jt, pc, lines, local, status>>

\* branch_pc, then the branch instruction itself.
BranchPc ==
    \E v \in VmLine : EmitBranch([mline |-> RecordedLine, islocal |-> FALSE, vline |-> v])

\* branch_local, then the branch instruction itself.  A loop has a body: no
\* caller branches back to a label placed at the branch itself.
BranchLocal ==
    \E l \in Label, n \in BOOLEAN :
        /\ n \/ \A i \in 1..Len(local[l]) : local[l][i] < ec
        /\ EmitBranch([mline |-> RecordedLine, islocal |-> TRUE, local |-> l, isnext |-> n])

\* Mutant: an entry in bytes.
JumpEntryBytes == 4 * ec

JumpEntry == ec
LargestPc(line) == IF line > pc THEN line ELSE pc

\* label_pc, called once for each bytecode line in order.
LabelPc ==
    /\ status = "open"
    /\ lines < VmLines
    /\ jt' = [jt EXCEPT ![lines] = JumpEntry]
    /\ pc' = LargestPc(lines)
    /\ lines' = lines + 1
    /\ UNCHANGED <<mcode, bufsize, local, head, status>>

\* Mutant: the label goes to the head of the list.
InsertAtHead(places) == <<ec>> \o places

\* The scan for the place to insert at ends in the same list_add_tail
\* wherever it stops.
Insert(places) == Append(places, ec)

\* label_local
LabelLocal ==
    /\ status = "open"
    /\ \E l \in Label :
          /\ Len(local[l]) < MaxPlaced
          /\ local' = [local EXCEPT ![l] = Insert(local[l])]
    /\ UNCHANGED <<mcode, bufsize, jt, pc, lines, head, status>>

Unfound(b) == b.islocal /\ Matches(b) = {}

\* link, once every bytecode line has been translated; it ends with a realloc
\* that gives back what the doubling left over.
Link ==
    /\ status = "open"
    /\ lines = VmLines
    /\ \A b \in head : ~Unfound(b)
    /\ mcode' = [i \in 1..Len(mcode) |->
                    IF \E b \in head : b.mline = i - 1
                    THEN LET b == CHOOSE b \in head : b.mline = i - 1
                         IN  [mcode[i] EXCEPT !.field = OffsetField(Target(b), b.mline)]
                    ELSE mcode[i]]
    /\ bufsize' = 4 * Len(mcode)
    /\ head' = {}
    /\ status' = "linked"
    /\ UNCHANGED <<jt, pc, lines, local>>

\* find_local_label runs off the list: assert(false).
LinkAborts ==
    /\ status = "open"
    /\ lines = VmLines
    /\ \E b \in head : Unfound(b)
    /\ status' = "aborted"
    /\ UNCHANGED <<mcode, bufsize, jt, pc, lines, local, head>>

Next ==
    \/ EmitOp \/ BranchPc \/ BranchLocal
    \/ LabelPc \/ LabelLocal \/ Link \/ LinkAborts

Spec == Init /\ [][Next]_vars

-----------------------------------------------------------------------------
TypeOK ==
    /\ mcode \in Seq([branch : BOOLEAN, field : Field])
    /\ bufsize \in Nat
    /\ jt \in [VmLine -> Nat]
    /\ pc \in Nat
    /\ lines \in 0..VmLines
    /\ local \in [Label -> Seq(Nat)]
    /\ head \subseteq Branch
    /\ status \in {"open", "linked", "aborted"}

\* label_local says that it inserts in order; it always inserts at the tail,
\* and the lists are in order all the same, which find_local_label relies on.
LabelsSorted ==
    \A l \in Label : \A i, j \in 1..Len(local[l]) :
        i <= j => /\ local[l][i] <= local[l][j]
                  /\ local[l][j] <= ec

\* Each branch waiting to be linked is one encoded branch instruction, and no
\* instruction is waiting twice: link() never patches anything else.
HeadIsBranches ==
    /\ \A b \in head : b.mline < ec /\ mcode[b.mline + 1].branch
    /\ \A b, c \in head : b.mline = c.mline => b = c

\* Every line already translated has a jump-table entry inside the code, and
\* the entries are in the order of the lines.
JumpTableOrdered ==
    \A u, v \in 0..(lines - 1) : u <= v => jt[u] <= jt[v] /\ jt[v] <= ec

\* When the buffer grows the allocator (mremap) is told the size the buffer
\* really has, although DASM_M_GROW computes it from the new one.
ReallocOldSize ==
    [][bufsize' > bufsize /\ bufsize # 0 => ReallocOld(bufsize') = bufsize]_vars

\* A branch whose target is within reach of the operand goes there; one that
\* is out of reach misses by a multiple of the operand's range.
Fits(d) == -OffsetRange <= 2 * d /\ 2 * d < OffsetRange
LinkExact ==
    [][status' = "linked" =>
         \A b \in head :
            LET goes == Goes(b.mline, mcode'[b.mline + 1].field)
            IN  /\ Fits(Target(b) - (b.mline + 1)) => goes = Target(b)
                /\ (goes - Target(b)) % OffsetRange = 0]_vars

-----------------------------------------------------------------------------
To(line) == [to |-> "line", pc |-> line]

\* Where a branch is known to go before the code is linked.
Resolved(b) ==
    IF ~b.islocal THEN [to |-> "vmline", vline |-> b.vline]
    ELSE IF Matches(b) # {} THEN To(FindLocalLabel(b))
    ELSE IF b.isnext THEN [to |-> "nextlabel", label |-> b.local]
    ELSE [to |-> "nowhere"]

DestOf(i) ==
    IF \E b \in head : b.mline = i - 1
    THEN Resolved(CHOOSE b \in head : b.mline = i - 1)
    ELSE IF mcode[i].branch THEN To(Goes(i - 1, mcode[i].field)) ELSE [to |-> "through"]

Eager == INSTANCE EagerAssembler WITH
    dest <- [i \in 1..Len(mcode) |-> DestOf(i)],
    placed <- [l \in Label |->
                  IF local[l] = <<>> THEN -1 ELSE local[l][Len(local[l])]],
    start <- jt

\* Linking at the end gives every branch the destination it would have had if
\* it had been resolved as early as possible: the next label placed after it,
\* the last one placed before it, or the first instruction of its VM line.  Of
\* branches that are out of reach nothing is promised (emitter32.c:59).
RefinesEagerAssembler == Eager!Spec
=============================================================================
