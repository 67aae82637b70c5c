----------------------------- MODULE MCUpvalues -----------------------------
(* Programs with two or three locals and prototypes that capture one local, *)
(* two locals in either order, or a local and an upvalue of their parent.   *)
EXTENDS Upvalues, TLC

In(i) == [instack |-> TRUE, idx |-> i]
Up(u) == [instack |-> FALSE, idx |-> u]

\* For functions whose local 0 is in a register and is never captured.
MCProtos == {<<In(2), In(1)>>, <<In(2), Up(0)>>}

\* A captured local that is in a register.
MCRegProtos == {<<In(0)>>}

\* No definition tells one value from another.
ValueSymmetry == Permutations(Value)
=============================================================================
