--------------------------- MODULE MCNanoSScroll ---------------------------
(***************************************************************************)
(* NanoSScroll for TLC: the shortest and the longest strings of each kind  *)
(* and some between.                                                       *)
(***************************************************************************)
EXTENDS NanoSScroll
=============================================================================
