------------------------------ MODULE MCLocals ------------------------------
(* A machine with two registers that C functions keep and one that they do  *)
(* not, so that the type of the second local has no register.               *)
EXTENDS Locals

MCReg == {"s0", "s1", "t0"}
MCCallerSaved == {"t0"}
MCRegTable == <<"s0", "s1", "t0">>
=============================================================================
