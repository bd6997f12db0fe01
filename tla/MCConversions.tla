--------------------------- MODULE MCConversions ---------------------------
(***************************************************************************)
(* What the device computes for the screen and the host, for TLC: amounts  *)
(* and rates, addresses, and signatures.  The program is one thread, so    *)
(* one of them runs at a time; they share no memory, so that a behaviour   *)
(* of one call shows all there is to see.                                  *)
(***************************************************************************)
EXTENDS Amount, Bech32, Signature

\* Numbers around the powers of two and of Base, and the smallest and largest
Edges == UNION {{n - 1, n, n + 1} : n \in {2^m : m \in 1..15} \cup {Base^m : m \in 1..10}}
MCNumbers == 0..900 \cup Edges \cup 65280..65535

\* Addresses of the tests and of other programs of the network
MCKnownAddresses ==
  {"one1pdv9lrdwl0rg5vglh4xtyrv3wjk3wsqket7zxy",
   "one19dtf8rtftwqunjndew89v4cpgrv9xgelr87s76",
   "one1gjsxmewzws9mt3fn65jmdhr3e4hel9xza8wd6t"}

MCAddressBytes ==
  {Decode(address) : address \in MCKnownAddresses}
  \cup {[n \in 1..20 |-> {}], [n \in 1..20 |-> 0..7], [n \in 1..20 |-> Places((13 * n) % 256)]}

Idle == stage = "idle" /\ at = "idle" /\ tlv = <<>>

Init == AmountInit /\ AddressInit /\ SignatureInit

Next ==
  \/ (Idle \/ stage # "idle") /\ AmountNext /\ UNCHANGED addressVars /\ UNCHANGED signatureVars
  \/ (Idle \/ at # "idle") /\ AddressNext /\ UNCHANGED amountVars /\ UNCHANGED signatureVars
  \/ (Idle \/ tlv # <<>>) /\ SignatureNext /\ UNCHANGED amountVars /\ UNCHANGED addressVars

vars == <<amountVars, addressVars, signatureVars>>

\* A call that runs goes on.
Spec ==
  Init /\ [][Next]_vars /\ WF_amountVars(stage # "idle" /\ AmountNext)
=============================================================================
