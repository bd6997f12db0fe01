------------------------------- MODULE NanoX -------------------------------
(***************************************************************************)
(* The Nano X build (HAVE_UX_FLOW): the shared firmware with the UX flows  *)
(* of getPublicKey.c, getTxnSig.c and staking.c.  A flow is a sequence of  *)
(* pages; the buttons move one page back or on, and both buttons pressed   *)
(* on an approve or a reject page run its callback, which answers the      *)
(* outstanding command and returns to the main menu.                       *)
(***************************************************************************)
EXTENDS Firmware

Address4 == <<"verify", "address", "approve", "reject">>
Tx6 == <<"review", "amount", "toaddr", "shard", "approve", "reject">>
Create10 == <<"verify", "directive", "name", "validator", "rates",
              "delegation", "bls", "amount", "approve", "reject">>
Edit10 == <<"verify", "directive", "name", "validator", "rates",
            "delegation", "bls", "status", "approve", "reject">>
Delegate7 == <<"verify", "directive", "delegator", "validator", "amount",
               "approve", "reject">>
Collect5 == <<"verify", "directive", "delegator", "approve", "reject">>

\* A slip: the flow of a delegation reuses that of collecting rewards.
PagesDelegateAsCollect(flow) ==
  CASE flow = "address" -> Address4
    [] flow = "tx" -> Tx6
    [] flow = "create" -> Create10
    [] flow = "edit" -> Edit10
    [] flow \in {"delegate", "collect"} -> Collect5

\* The pages of each UX_FLOW
Pages(flow) ==
  CASE flow = "address" -> Address4
    [] flow = "tx" -> Tx6
    [] flow = "create" -> Create10
    [] flow = "edit" -> Edit10
    [] flow = "delegate" -> Delegate7
    [] flow = "collect" -> Collect5

(***************************************************************************)
(* The screen: the flow and its page, and as history the pages shown since *)
(* ux_flow_init and what the strings of the flow were made from: the bytes *)
(* buf[] held then, whether the parser read them from the first one, and   *)
(* whether it reported the transaction complete.                           *)
(***************************************************************************)
Idle == [flow |-> "idle", step |-> 1, seen |-> {}, of |-> <<>>,
         whole |-> FALSE, complete |-> FALSE]

Opened(flow, of, whole, complete) ==
  [flow |-> flow, step |-> 1, seen |-> {Pages(flow)[1]}, of |-> of,
   whole |-> whole, complete |-> complete]

Page == Pages(ui.flow)[ui.step]
InFlow(flows) == Waiting /\ ui.flow \in flows

(***************************************************************************)
(* The handlers that open a flow                                           *)
(***************************************************************************)
\* A slip: the address is derived by the approval, not by the handler.
GetPublicKeyDisplayUnderived ==
  /\ Listening
  /\ PublicKeyMemset
  /\ CommandWaits("pubkey")
  /\ apdu' = "other"
  /\ ui' = Opened("address", <<>>, FALSE, FALSE)
  /\ UNCHANGED on

\* handleGetPublicKey with P2_DISPLAY_ADDRESS: the address is derived into
\* G_io_apdu_buffer now and sent from there when the user approves.
GetPublicKeyDisplay ==
  /\ Listening
  /\ PublicKeyMemset
  /\ CommandWaits("pubkey")
  /\ apdu' = "address"
  /\ ui' = Opened("address", <<>>, FALSE, FALSE)
  /\ UNCHANGED on

\* How the bytes fare in handleSignTx: processTx may report that it is not
\* complete, convertU256ToString may refuse the amount.
TxResults == {"complete", "incomplete", "overflow"}

\* A slip: length is advanced after the parse, which misses the last packet.
FinishTxOldLength(first, data, result) ==
  /\ Listening
  /\ Fits(first, data)
  /\ Store(first, data)
  /\ Unread(first) => result = "incomplete"
  /\ parser' = "used"
  /\ IF result = "overflow"
     THEN CommandThrows("tx", EXCEPTION_OVERFLOW) /\ UNCHANGED ui
     ELSE /\ CommandWaits("tx")
          /\ apdu' = "other"
          /\ ui' = Opened("tx", Base(first), ParserAfter(first) = "fresh",
                          result = "complete")
  /\ UNCHANGED on

\* handleSignTx with P2_FINISH: the result of processTx is not looked at.
FinishTx(first, data, result) ==
  /\ Listening
  /\ Fits(first, data)
  /\ Store(first, data)
  /\ Unread(first) => result = "incomplete"
  /\ parser' = "used"
  /\ IF result = "overflow"
     THEN CommandThrows("tx", EXCEPTION_OVERFLOW) /\ UNCHANGED ui
     ELSE /\ CommandWaits("tx")
          /\ apdu' = "other"
          /\ ui' = Opened("tx", buf', ParserAfter(first) = "fresh",
                          result = "complete")
  /\ UNCHANGED on

\* How the bytes fare in handleSignStaking: processStaking may not reach its
\* end or reach it with a directive of none of the flows, a rate or an
\* amount may be refused by its conversion, or a flow opens.
StakeResults == StakeFlows \cup {"incomplete", "unknown", "overflow"}

\* A slip: the result of processStaking is ignored as that of processTx is.
FinishStakeUnchecked(first, data, result) ==
  /\ Listening
  /\ Fits(first, data)
  /\ Store(first, data)
  /\ Unread(first) => result = "incomplete"
  /\ parser' = "used"
  /\ CommandWaits("stake")
  /\ apdu' = "other"
  /\ ui' = Opened(IF result \in StakeFlows THEN result ELSE "delegate", buf',
                  ParserAfter(first) = "fresh", result # "incomplete")
  /\ UNCHANGED on

\* handleSignStaking with P2_FINISH
FinishStake(first, data, result) ==
  /\ Listening
  /\ Fits(first, data)
  /\ Store(first, data)
  /\ Unread(first) => result = "incomplete"
  /\ parser' = "used"
  /\ IF result \in StakeFlows
     THEN /\ CommandWaits("stake")
          /\ apdu' = "other"
          /\ ui' = Opened(result, buf', ParserAfter(first) = "fresh", TRUE)
     ELSE /\ CommandThrows("stake", IF result = "overflow"
                                    THEN EXCEPTION_OVERFLOW ELSE INVALID_PARAMETER)
          /\ UNCHANGED ui
  /\ UNCHANGED on

(***************************************************************************)
(* The buttons                                                             *)
(***************************************************************************)
Turn(step) ==
  ui' = [ui EXCEPT !.step = step, !.seen = @ \cup {Pages(ui.flow)[step]}]

Right ==
  /\ InFlow(Flows)
  /\ ui.step < Len(Pages(ui.flow))
  /\ Turn(ui.step + 1)
  /\ UNCHANGED <<on, pending, staged, asynch, apdu, reply>> /\ UNCHANGED unionVars

Left ==
  /\ InFlow(Flows)
  /\ ui.step > 1
  /\ Turn(ui.step - 1)
  /\ UNCHANGED <<on, pending, staged, asynch, apdu, reply>> /\ UNCHANGED unionVars

\* io_exchange_with_code(sw, n) and ui_idle of a callback; with nothing
\* outstanding the exchange throws and ui_idle is not reached.
ReplyAndIdle(sw, data) ==
  IF pending = NoCmd
  THEN EventThrows(INVALID_STATE) /\ UNCHANGED ui
  ELSE /\ Answer(pending, sw, data)
       /\ ui' = Idle
       /\ UNCHANGED <<staged, asynch>>

\* What io_exchange finds in G_io_apdu_buffer before the status word
Payload == IF apdu = "address" THEN Address ELSE NoData

AddressOk ==
  /\ InFlow({"address"}) /\ Page = "approve"
  /\ ReplyAndIdle(SW_OK, Payload)
  /\ (pending # NoCmd => UNCHANGED apdu)
  /\ UNCHANGED on /\ UNCHANGED unionVars

\* io_seproxyhal_touch_tx_ok and io_seproxyhal_touch_staking_ok hash the
\* first length bytes of buf[], sign and send.
SignOk ==
  /\ InFlow(SignFlows) /\ Page = "approve"
  /\ ReplyAndIdle(SW_OK, Signature(buf))
  /\ (pending # NoCmd => apdu' = "other")
  /\ UNCHANGED on /\ UNCHANGED unionVars

\* deriveAndSign raises an exception: nothing is sent and ui_idle is not
\* reached, so the flow stays on its approve page.
SignFault ==
  /\ InFlow(SignFlows) /\ Page = "approve"
  /\ \E e \in SyscallFaults : EventThrows(e)
  /\ UNCHANGED <<on, ui>> /\ UNCHANGED unionVars

\* A slip: the host is told of the rejection and the flow stays.
CancelKeepingFlow ==
  /\ InFlow(Flows) /\ Page = "reject"
  /\ Answer(pending, SW_USER_REJECTED, NoData)
  /\ UNCHANGED <<on, staged, asynch, apdu, ui>> /\ UNCHANGED unionVars

Cancel ==
  /\ InFlow(Flows) /\ Page = "reject"
  /\ ReplyAndIdle(SW_USER_REJECTED, NoData)
  /\ apdu' = "other"
  /\ UNCHANGED on /\ UNCHANGED unionVars

(***************************************************************************)
(* The device                                                              *)
(***************************************************************************)
Command ==
  \/ \E sw \in {SW_BAD_CLA, SW_BAD_INS} : Refuse(sw)
  \/ GetVersion
  \/ GetPublicKeySilent
  \/ GetPublicKeyBadP2
  \/ GetPublicKeyFault
  \/ GetPublicKeyDisplay
  \/ \E ins \in SignIns, first \in BOOLEAN, data \in Payloads :
       RefuseUpload(ins, first, data) \/ StoreChunk(ins, first, data)
  \/ \E first \in BOOLEAN, data \in Payloads :
       \/ \E result \in TxResults : FinishTx(first, data, result)
       \/ \E result \in StakeResults : FinishStake(first, data, result)

Button == Right \/ Left \/ AddressOk \/ SignOk \/ SignFault \/ Cancel

Init == CoreInit(Idle)

Next ==
  \/ Command
  \/ Button
  \/ SendStaged
  \/ Reset(Idle)
  \/ Quit(Idle)
  \/ Start(Idle)

Spec == Init /\ [][Next]_vars

\* The loop turns when it can; the user reads on while there is a page to
\* read, from some time on does not go back any more, and then decides.
Decide == AddressOk \/ SignOk \/ Cancel

Fairness ==
  /\ WF_vars(SendStaged)
  /\ WF_vars(Right /\ Page \notin {"approve", "reject"})
  /\ <>[][~Left]_vars
  /\ WF_vars(Decide)

FairSpec == Spec /\ Fairness

(***************************************************************************)
(* Correctness                                                             *)
(***************************************************************************)
PageNames ==
  {"verify", "address", "review", "amount", "toaddr", "shard", "directive", "name",
   "validator", "delegator", "rates", "delegation", "bls", "status", "approve", "reject"}

UiType ==
  [flow : Flows \cup {"idle"}, step : Nat, seen : SUBSET PageNames,
   of : Seq(Byte \cup {Foreign}), whole : BOOLEAN, complete : BOOLEAN]

\* Every variable has its type, buf[] never holds more than four packets and
\* the page on the screen is a page of its flow.
TypeOK ==
  /\ CoreTypeOK
  /\ ui \in UiType
  /\ ui.flow \in Flows => ui.step \in 1..Len(Pages(ui.flow))
  /\ reply \in ReplyType

\* The host is never left waiting: while a command is outstanding, either its
\* status word is staged and will be sent, or the flow on the screen is the
\* one that answers this very command (main.c:163-239, the callbacks).
CommandIsServed ==
  on /\ pending # NoCmd =>
    \/ staged # NoWord /\ ~asynch
    \/ staged = NoWord /\ ui.flow \in Flows /\ Server(ui.flow) = pending

\* Nothing can send a reply nobody asked for, which the transport would turn
\* into INVALID_STATE over and over: a flow that answers and a staged status
\* word exist only while a command is outstanding.
RepliesOnlyWhenAsked ==
  on /\ (ui.flow \in Flows \/ staged # NoWord) => pending # NoCmd

\* What is signed is what was reviewed and what was uploaded: whatever came
\* before, the signature covers the bytes buf[] held when the pages were
\* made; and if the transfer that filled buf[] was not disturbed, these are
\* exactly its accepted bytes, and the parser read them from the first one
\* (getTxnSig.c:43-55, staking.c:36-51).
SignedIsReviewed ==
  [][SignatureSent =>
       /\ reply'.data.bytes = ui.of
       /\ unbroken => ui.of = sent /\ ui.whole]_vars

\* What a transaction of each kind is shown as: the fields of txContent that
\* handleSignTx and handleSignStaking make texts of for its flow
\* (getTxnSig.c:417-426, staking.c:773-910).  These are not all the parser
\* keeps: gasprice and startgas of a transfer (rlp.c:390-395, rlp.h:84-85)
\* are made into no text and are on no page of any flow.
Content(flow) ==
  CASE flow = "tx" -> {"amount", "toaddr", "shard"}
    [] flow = "create" -> {"directive", "name", "validator", "rates",
                           "delegation", "bls", "amount"}
    [] flow = "edit" -> {"directive", "name", "validator", "rates",
                         "delegation", "bls", "status"}
    [] flow = "delegate" -> {"directive", "delegator", "validator", "amount"}
    [] flow = "collect" -> {"directive", "delegator"}

\* No signature leaves before every text that was made of the transaction
\* was on the screen: of a transfer that is its amount, its receiver and its
\* shards, but not its gas (the UX_FLOWs of getTxnSig.c:115-123 and
\* staking.c:153-196).
ContentIsSeenBeforeSigning ==
  [][SignatureSent => Content(ui.flow) \subseteq ui.seen]_vars

\* A staking transaction is signed only if the parser reached its end.
StakingIsCompleteWhenSigned ==
  [][SignatureSent /\ reply'.to = "stake" => ui.complete]_vars

\* Every command is answered, or the session ends by a reset or by leaving
\* the application: it does not stay outstanding.
EveryCommandIsAnswered == pending # NoCmd ~> pending = NoCmd

(***************************************************************************)
(* Why they hold: what every step of the build keeps.                      *)
(***************************************************************************)
LoopInv ==
  /\ staged # NoWord => ~asynch
  /\ ~on => pending = NoCmd
  /\ CommandIsServed

ReviewInv ==
  /\ unbroken => buf = sent
  /\ Reviewing => ui.of = buf /\ (unbroken => ui.whole)

ScreenInv ==
  /\ ui.flow \in StakeFlows => ui.complete
  /\ ui.flow \in Flows => \A i \in 1..ui.step : Pages(ui.flow)[i] \in ui.seen

ReplyInv ==
  /\ on /\ pending = "pubkey" /\ staged = NoWord => apdu = "address"
  /\ staged = SW_OK => pending \in SignIns
  /\ AddressIsDelivered
  /\ StatusWordsAreValid

\* The inductive invariant
IndInv == TypeOK /\ LoopInv /\ ReviewInv /\ ScreenInv /\ ReplyInv

\* What also holds as long as no system call raises an exception
NoFaultInv == RepliesOnlyWhenAsked /\ (staged # NoWord => ui.flow \notin Flows)

(***************************************************************************)
(* The build implements the abstract service: it reviews while a signing   *)
(* flow is on the screen for the outstanding command, and the document is  *)
(* what the pages were made from.                                          *)
(***************************************************************************)
Service == INSTANCE SigningService WITH
  Document <- Seq(Byte \cup {Foreign}),
  NoDocument <- <<>>,
  phase <- IF pending = NoCmd THEN "ready" ELSE IF Reviewing THEN "review" ELSE "busy",
  doc <- IF Reviewing THEN ui.of ELSE <<>>,
  given <- reply.data

\* Every step of the build is a step of the service or changes nothing the
\* service speaks of: in particular a signature ends a review, covers the
\* document of this review, and no other reply gives anything away.
ImplementsService == Service!Spec

(***************************************************************************)
(* What the comments say and the code does not keep                        *)
(***************************************************************************)
\* initialized of both signing contexts: set by P1_FIRST, cleared by
\* P2_FINISH, so true exactly while the parser is fresh.
initialized == parser = "fresh"

\* ui.h:80 and ui.h:100: initialized "protects": a packet is taken into
\* buf[] only by P1_FIRST or while initialized is set.
ContinuationNeedsInitialized ==
  [][buf' # buf /\ pending' \in SignIns => initialized \/ parser' = "fresh"]_vars

\* ui.h:133-134: command handlers call ui_idle when they finish, so that
\* with every command answered the main menu is on the screen.
IdleWhenAnswered ==
  on /\ pending = NoCmd /\ staged = NoWord => ui = Idle
=============================================================================
