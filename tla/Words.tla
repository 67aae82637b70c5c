------------------------------- MODULE Words --------------------------------
(* Signed machine words, as lua_Number and as the registers of MIPS. *)
EXTENDS Integers

CONSTANTS
    Half,     \* words are -Half..Half-1 (2^31 in the code)
    ImmHalf   \* immediates of ADDIU are -ImmHalf..ImmHalf-1 (32768 in the code)

ASSUME HalfAssumption == Half \in Nat \ {0} /\ ImmHalf \in 1..Half

Word == (-Half)..(Half - 1)

\* Mutant: words that overflow.
NoWrap(x) == x

Wrap(x) == ((x + Half) % (2 * Half)) - Half

\* C division and remainder round towards zero, as DIV does.
Abs(a) == IF a < 0 THEN -a ELSE a
Quotient(a, b) ==
    IF (a < 0) = (b < 0) THEN Abs(a) \div Abs(b) ELSE -(Abs(a) \div Abs(b))
Remainder(a, b) == a - b * Quotient(a, b)
=============================================================================
