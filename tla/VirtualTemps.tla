---------------------------- MODULE VirtualTemps ----------------------------
(***************************************************************************)
(* What temporaries.c promises its clients: an unbounded stack of virtual  *)
(* temporaries.  Only the Window most recent ones may be read or written   *)
(* (they sit in registers); the older ones keep their contents until they  *)
(* become usable again.                                                    *)
(***************************************************************************)
EXTENDS Naturals, Sequences

CONSTANTS
    Window,     \* how many temporaries are usable at once (nr_temp_regs)
    Value       \* what a register can hold

VARIABLE temps  \* oldest first

\* The temporaries a client may name in an instruction.
Usable == {k \in 1..Len(temps) : k + Window > Len(temps)}

Init == temps = <<>>

\* A new temporary holds whatever its register held before.
Acquire == \E v \in Value : temps' = Append(temps, v)

Release ==
    /\ temps # <<>>
    /\ temps' = SubSeq(temps, 1, Len(temps) - 1)

Write == \E k \in Usable, v \in Value : temps' = [temps EXCEPT ![k] = v]

Next == Acquire \/ Release \/ Write

Spec == Init /\ [][Next]_temps
=============================================================================
