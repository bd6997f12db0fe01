------------------------------ MODULE MCNanoX ------------------------------
(***************************************************************************)
(* NanoX for TLC: packets of at most one byte, so that the fifth packet of *)
(* a transfer is the one that no longer fits.                              *)
(***************************************************************************)
EXTENDS NanoX
=============================================================================
