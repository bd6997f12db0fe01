------------------------------ MODULE MCNanoS ------------------------------
(***************************************************************************)
(* NanoS for TLC: packets of at most one byte, as in MCNanoX.              *)
(***************************************************************************)
EXTENDS NanoS
=============================================================================
