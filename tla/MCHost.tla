------------------------------- MODULE MCHost -------------------------------
(***************************************************************************)
(* Host for TLC: a transaction in two chunks, one that is a byte longer    *)
(* than the device takes, and two staking transactions.                    *)
(***************************************************************************)
EXTENDS Host, TLC

CONSTANTS b1, b2, transfer, toolong, delegation, collection

MCKind == transfer :> "tx" @@ toolong :> "tx" @@ delegation :> "stake"
          @@ collection :> "stake"
MCMessage ==
  transfer :> <<b1, b2, b1>> @@ delegation :> <<b2, b1, b2, b2>>
  @@ collection :> <<b2>> @@ toolong :> [n \in 1..9 |-> b1]
=============================================================================
