--------------------------- MODULE EagerAssembler ---------------------------
(***************************************************************************)
(* What the emitter promises: an assembler in which every branch knows its *)
(* destination as soon as that can be known.  A branch to the previous     *)
(* local label is resolved when it is emitted, a branch to the next one    *)
(* when that label is placed, and a branch to a VM line when the code is   *)
(* linked.  The linked code goes there if the operand of the branch reaches *)
(* that far; it goes to some line or other if it does not.                  *)
(***************************************************************************)
EXTENDS Integers, Sequences

CONSTANTS
    Label,      \* numbers of the local labels
    VmLine,     \* lines of the bytecode
    OffsetRange \* values of the operand of a branch

VARIABLES
    dest,       \* dest[i]: where the i-th instruction (at line i - 1) goes
    placed,     \* placed[l]: where label l was last placed, -1 if nowhere
    start,      \* start[v]: where the code of VM line v starts
    status      \* "open", then "linked" or "aborted"

vars == <<dest, placed, start, status>>

Here == Len(dest)
To(pc) == [to |-> "line", pc |-> pc]
Plain == [to |-> "through"]
AtNext(l) == [to |-> "nextlabel", label |-> l]
AtVm(v) == [to |-> "vmline", vline |-> v]
Lost == [to |-> "nowhere"]

Init ==
    /\ dest = <<>>
    /\ placed = [l \in Label |-> -1]
    /\ start = [v \in VmLine |-> 0]
    /\ status = "open"

Emit(d) ==
    /\ status = "open"
    /\ dest' = Append(dest, d)
    /\ UNCHANGED <<placed, start, status>>

EmitBranch ==
    \/ \E v \in VmLine : Emit(AtVm(v))
    \/ \E l \in Label : Emit(AtNext(l))
    \/ \E l \in Label : Emit(IF placed[l] = -1 THEN Lost ELSE To(placed[l]))

PlaceLabel(l) ==
    /\ status = "open"
    /\ dest' = [i \in 1..Len(dest) |->
                   IF dest[i] = AtNext(l) THEN To(Here) ELSE dest[i]]
    /\ placed' = [placed EXCEPT ![l] = Here]
    /\ UNCHANGED <<start, status>>

StartVmLine(v) ==
    /\ status = "open"
    /\ start' = [start EXCEPT ![v] = Here]
    /\ UNCHANGED <<dest, placed, status>>

\* A branch that is still waiting for a label cannot be linked.
Unresolved == \E i \in 1..Len(dest) : dest[i].to \in {"nextlabel", "nowhere"}

Destination(d) == IF d.to = "vmline" THEN To(start[d.vline]) ELSE d

\* The operand is a signed distance from the line after the branch.
InReach(from, to) ==
    LET distance == to - (from + 1)
    IN  -OffsetRange <= 2 * distance /\ 2 * distance < OffsetRange

Linked(i, d, linked) ==
    IF d.to = "line" /\ ~InReach(i - 1, d.pc) THEN linked = To(linked.pc)
    ELSE linked = d

Link ==
    /\ status = "open"
    /\ ~Unresolved
    /\ dest' = [i \in 1..Len(dest) |-> dest'[i]]
    /\ \A i \in 1..Len(dest) : Linked(i, Destination(dest[i]), dest'[i])
    /\ status' = "linked"
    /\ UNCHANGED <<placed, start>>

LinkAborts ==
    /\ status = "open"
    /\ Unresolved
    /\ status' = "aborted"
    /\ UNCHANGED <<dest, placed, start>>

Next ==
    \/ Emit(Plain) \/ EmitBranch
    \/ \E l \in Label : PlaceLabel(l)
    \/ \E v \in VmLine : StartVmLine(v)
    \/ Link \/ LinkAborts

Spec == Init /\ [][Next]_vars
=============================================================================
