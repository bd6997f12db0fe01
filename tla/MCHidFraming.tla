---------------------------- MODULE MCHidFraming ----------------------------
(***************************************************************************)
(* HidFraming for TLC: replies of less than a packet, of exactly one, and  *)
(* of more than two, where what the second packet of the longest brings    *)
(* looks like a reply of its own.                                          *)
(***************************************************************************)
EXTENDS HidFraming, TLC

MCSize == "version" :> 1 @@ "address" :> 3 @@ "sign" :> 12
MCPackets == "version" :> 1 @@ "address" :> 1 @@ "sign" :> 2
MCContent == [n \in 1..14 |-> CASE n = 9 -> 5 [] n = 13 -> 144 [] OTHER -> 0]
=============================================================================
