--------------------------- MODULE SigningService ---------------------------
(***************************************************************************)
(* What the signer promises its host and its user, whatever the device:    *)
(* one command at a time is taken and answered; a document is signed only  *)
(* at the end of a review that presented this document, and a review ends  *)
(* in one signature at most.  A command may fail or be abandoned at any    *)
(* time, and then nothing is given away.                                   *)
(***************************************************************************)
CONSTANTS Document, NoDocument

VARIABLES
  phase,  \* "ready" for a command, "busy" with one, or in a "review"
  doc,    \* the document under review, NoDocument outside a review
  given   \* what the answer to the last command gave away

vars == <<phase, doc, given>>

Nothing == [kind |-> "none", bytes |-> NoDocument]
PublicAddress == [kind |-> "address", bytes |-> NoDocument]
SignatureOf(d) == [kind |-> "signature", bytes |-> d]

Init == phase = "ready" /\ doc = NoDocument /\ given = Nothing

\* A command is taken that needs no review.
Take ==
  /\ phase = "ready"
  /\ phase' = "busy" /\ doc' = NoDocument /\ given' = Nothing

\* A command is answered, in the step that takes it or in a later one, with
\* a status or the public address.
Serve ==
  /\ phase \in {"ready", "busy"}
  /\ phase' = "ready" /\ doc' = NoDocument
  /\ given' \in {Nothing, PublicAddress}

\* A command is taken whose document the user is to review.
Present ==
  /\ phase = "ready"
  /\ phase' = "review" /\ doc' \in Document /\ given' = Nothing

\* The user approves: the document of the review is signed.
Sign ==
  /\ phase = "review"
  /\ phase' = "ready" /\ doc' = NoDocument /\ given' = SignatureOf(doc)

\* The user declines.
Decline ==
  /\ phase = "review"
  /\ phase' = "ready" /\ doc' = NoDocument /\ given' = Nothing

\* The review ends without a decision; the command is still to be answered.
Fail ==
  /\ phase = "review"
  /\ phase' = "busy" /\ doc' = NoDocument /\ UNCHANGED given

\* The session ends: what is outstanding is dropped.
Abandon ==
  /\ phase' = "ready" /\ doc' = NoDocument /\ given' = Nothing

Next ==
  Take \/ Serve \/ Present \/ Sign \/ Decline \/ Fail \/ Abandon

Spec == Init /\ [][Next]_vars
=============================================================================
