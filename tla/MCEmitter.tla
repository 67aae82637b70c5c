----------------------------- MODULE MCEmitter ------------------------------
(* Two bytecode lines, a buffer that is reallocated for the third of four  *)
(* instructions, and a local label placed up to twice.  A branch reaches   *)
(* from the line before it to two lines after it, and no further.          *)
EXTENDS Emitter
=============================================================================
