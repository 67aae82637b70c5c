--------------------------- MODULE MCTemporaries ----------------------------
(* Three temporary registers and up to eight temporaries: two full rounds  *)
(* of spills and the start of a third.                                     *)
EXTENDS Temporaries
=============================================================================
