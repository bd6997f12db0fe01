------------------------------- MODULE NanoS -------------------------------
(***************************************************************************)
(* The Nano S build: the shared firmware with the bagl screens of          *)
(* getPublicKey.c, getTxnSig.c and staking.c.  Each screen has a button    *)
(* handler of its own that fills the strings of the next screen and shows  *)
(* it; only some screens offer to reject.  The texts, and the window that  *)
(* scrolls over the longer ones, are the subject of NanoSScroll.           *)
(*                                                                         *)
(* Three things differ from the Nano X: the address is derived, sent and   *)
(* only then shown; a transaction is parsed when its first screen is left, *)
(* not when it is uploaded; and the conversions of amounts and rates run   *)
(* in button handlers, where an exception leaves the screen as it is.      *)
(***************************************************************************)
EXTENDS Firmware

CONSTANT
  SeekOverlay \* the bytes of buf[] that displayIndex and partialStr of
              \* getPublicKeyContext overlay: 1 and 159 to 170

ASSUME SeekAssumption == SeekOverlay \subseteq 1..PkOverlay

(***************************************************************************)
(* The screen: what is under review, and as history which of its fields    *)
(* were shown and what its strings were made from (see NanoX).             *)
(***************************************************************************)
Screens ==
  {"idle", "display", "compare", "review", "toaddr", "amount", "amountlarge", "shard",
   "delegator", "validator", "name", "rates", "delegation", "bls", "sign"}

Idle == [flow |-> "idle", screen |-> "idle", seen |-> {}, of |-> <<>>,
         whole |-> FALSE, complete |-> FALSE]

\* The fields of the transaction a screen shows
Shows(flow, screen) ==
  CASE screen = "review" /\ flow \in StakeFlows ->
         IF flow = "edit" THEN {"directive", "status"} ELSE {"directive"}
    [] screen = "amountlarge" -> {"amount"}
    [] screen = "delegation" /\ flow = "create" -> {"delegation", "amount"}
    [] screen \in {"display", "sign"} \/ (flow = "tx" /\ screen = "review") -> {}
    [] OTHER -> {screen}

Opened(flow, of, whole, complete) ==
  LET first == IF flow = "address" THEN "display" ELSE "review"
  IN  [flow |-> flow, screen |-> first, seen |-> Shows(flow, first), of |-> of,
       whole |-> whole, complete |-> complete]

Pressed(screens) == Waiting /\ ui.screen \in screens

\* UX_DISPLAY of a screen of the same flow
ShowScreen(screen) ==
  ui' = [ui EXCEPT !.screen = screen, !.seen = @ \cup Shows(ui.flow, screen)]

Step(from, to) ==
  /\ Pressed({from})
  /\ ShowScreen(to)
  /\ UNCHANGED <<on, pending, staged, asynch, apdu, reply>> /\ UNCHANGED unionVars

\* A conversion of an amount or a rate refuses its number: the handler
\* throws before it shows the next screen.
Refused(from) ==
  /\ Pressed({from})
  /\ EventThrows(EXCEPTION_OVERFLOW)
  /\ UNCHANGED <<on, ui>> /\ UNCHANGED unionVars

(***************************************************************************)
(* The handlers that open a flow                                           *)
(***************************************************************************)
\* handleGetPublicKey with P2_DISPLAY_ADDRESS
GetPublicKeyDisplay ==
  /\ Listening
  /\ PublicKeyMemset
  /\ CommandWaits("pubkey")
  /\ apdu' = "other"
  /\ ui' = Opened("address", <<>>, FALSE, FALSE)
  /\ UNCHANGED on

\* handleSignTx with P2_FINISH: nothing is parsed yet.
FinishTx(first, data) ==
  /\ Listening
  /\ Fits(first, data)
  /\ Store(first, data)
  /\ parser' = ParserAfter(first)
  /\ CommandWaits("tx")
  /\ apdu' = "other"
  /\ ui' = Opened("tx", <<>>, FALSE, FALSE)
  /\ UNCHANGED on

StakeResults == StakeFlows \cup {"incomplete", "unknown"}

\* A slip: the result of processStaking is ignored as that of processTx is.
FinishStakeUnchecked(first, data, result) ==
  /\ Listening
  /\ Fits(first, data)
  /\ Store(first, data)
  /\ Unread(first) => result = "incomplete"
  /\ parser' = "used"
  /\ CommandWaits("stake")
  /\ apdu' = "other"
  /\ ui' = Opened(IF result \in StakeFlows THEN result ELSE "delegate", buf',
                  ParserAfter(first) = "fresh", result # "incomplete")
  /\ UNCHANGED on

\* handleSignStaking with P2_FINISH
FinishStake(first, data, result) ==
  /\ Listening
  /\ Fits(first, data)
  /\ Store(first, data)
  /\ Unread(first) => result = "incomplete"
  /\ parser' = "used"
  /\ IF result \in StakeFlows
     THEN /\ CommandWaits("stake")
          /\ apdu' = "other"
          /\ ui' = Opened(result, buf', ParserAfter(first) = "fresh", TRUE)
     ELSE CommandThrows("stake", INVALID_PARAMETER) /\ UNCHANGED ui
  /\ UNCHANGED on

(***************************************************************************)
(* getPublicKey.c: the buttons of its two screens                          *)
(***************************************************************************)
\* io_exchange_with_code inside of a button handler; next is the screen it
\* goes on to, which it does not reach if nothing is outstanding.
ReplyAndShow(sw, data, next) ==
  IF pending = NoCmd
  THEN EventThrows(INVALID_STATE) /\ UNCHANGED ui
  ELSE /\ Answer(pending, sw, data)
       /\ ui' = next
       /\ UNCHANGED <<staged, asynch>>

\* A slip: the screen to compare is shown and the reply left to its handler.
AddressOkShowsFirst ==
  /\ Pressed({"display"})
  /\ ShowScreen("compare")
  /\ apdu' = "address"
  /\ UNCHANGED <<on, pending, staged, asynch, reply>> /\ UNCHANGED unionVars

\* getPublicKey derives the address and replies, then it is shown.
AddressOk ==
  /\ Pressed({"display"})
  /\ ReplyAndShow(SW_OK, Address, [ui EXCEPT !.screen = "compare"])
  /\ apdu' = IF pending = NoCmd THEN "other" ELSE "address"
  /\ UNCHANGED on /\ UNCHANGED unionVars

\* deriveOneKeypair or deriveAndSign raises an exception: the reply is its
\* status word, and the screen stays.
DeriveFault ==
  /\ Pressed({"display", "sign"})
  /\ \E e \in SyscallFaults : EventThrows(e)
  /\ UNCHANGED <<on, ui>> /\ UNCHANGED unionVars

\* The left or the right button on the screen to compare: displayIndex and
\* partialStr are written.  The address was sent before this screen came up,
\* so that the bytes under them may by now be those of the next upload.
Seek ==
  /\ Pressed({"compare"})
  /\ buf' = [i \in DOMAIN buf |-> IF i \in SeekOverlay THEN Foreign ELSE buf[i]]
  /\ unbroken' = (unbroken /\ buf' = buf)
  /\ sent' = IF unbroken' THEN sent ELSE <<>>
  /\ UNCHANGED <<on, pending, staged, asynch, apdu, parser, ui, reply>>

\* Both buttons on the screen to compare
Compared ==
  /\ Pressed({"compare"})
  /\ ui' = Idle
  /\ UNCHANGED <<on, pending, staged, asynch, apdu, reply>> /\ UNCHANGED unionVars

(***************************************************************************)
(* getTxnSig.c: the screens of a transaction                               *)
(***************************************************************************)
\* A slip: the screens are filled without the transaction being parsed again.
ReviewTxUnparsed(complete) == ui.flow = "tx" /\ complete /\ Step("review", "toaddr")

\* A slip: the context is cleared before the parse.
ReviewTxCleared(complete) ==
  /\ ui.flow = "tx" /\ Pressed({"review"})
  /\ parser' = "used"
  /\ buf' = <<>>
  /\ ui' = [ui EXCEPT !.screen = "toaddr", !.seen = {"toaddr"}, !.of = buf,
                      !.whole = (parser = "fresh"), !.complete = complete]
  /\ UNCHANGED <<on, pending, staged, asynch, apdu, reply, unbroken, sent>>

\* ui_signTx_approve_button: processTx runs now, its result is not looked at.
ReviewTx(complete) ==
  /\ ui.flow = "tx" /\ Pressed({"review"})
  /\ complete => buf # <<>> /\ parser # "null"
  /\ parser' = "used"
  /\ ui' = [ui EXCEPT !.screen = "toaddr", !.seen = {"toaddr"}, !.of = buf,
                      !.whole = (parser = "fresh"), !.complete = complete]
  /\ UNCHANGED <<on, pending, staged, asynch, apdu, reply, buf, unbroken, sent>>

\* An amount of more than 12 characters has a screen that scrolls.
ToAddress ==
  Refused("toaddr") \/ Step("toaddr", "amount") \/ Step("toaddr", "amountlarge")

TxAmount ==
  ui.flow = "tx" /\ (Step("amount", "shard") \/ Step("amountlarge", "shard"))

Shard == Step("shard", "sign")

(***************************************************************************)
(* staking.c: the screens of a staking transaction                         *)
(***************************************************************************)
ReviewStake ==
  IF ui.flow \in {"create", "edit"}
  THEN Step("review", "validator")
  ELSE ui.flow \in {"delegate", "collect"} /\ Step("review", "delegator")

\* A slip: a delegation goes the way of collecting rewards.
DelegatorToSign == Step("delegator", "sign")

Delegator ==
  IF ui.flow = "collect" THEN Step("delegator", "sign") ELSE Step("delegator", "validator")

Validator ==
  IF ui.flow \in {"create", "edit"}
  THEN Step("validator", "name")
  ELSE \/ Refused("validator")
       \/ Step("validator", "amount")
       \/ Step("validator", "amountlarge")

Name == Refused("name") \/ Step("name", "rates")
Rates == Refused("rates") \/ Step("rates", "delegation")
Delegation == Step("delegation", "bls")
Bls == Step("bls", "sign")

StakeAmount ==
  ui.flow \in StakeFlows /\ (Step("amount", "sign") \/ Step("amountlarge", "sign"))

(***************************************************************************)
(* The screens that answer                                                 *)
(***************************************************************************)
\* ui_tx_approve_button and ui_confirm_signing_button
SignOk ==
  /\ Pressed({"sign"})
  /\ ReplyAndShow(SW_OK, Signature(buf), Idle)
  /\ apdu' = "other"
  /\ UNCHANGED on /\ UNCHANGED unionVars

\* The left button of the screens that offer to reject
Reject ==
  /\ Pressed({"display", "review", "amount", "shard", "sign"})
  /\ ReplyAndShow(SW_USER_REJECTED, NoData, Idle)
  /\ apdu' = "other"
  /\ UNCHANGED on /\ UNCHANGED unionVars

(***************************************************************************)
(* The device                                                              *)
(***************************************************************************)
Command ==
  \/ \E sw \in {SW_BAD_CLA, SW_BAD_INS} : Refuse(sw)
  \/ GetVersion
  \/ GetPublicKeySilent
  \/ GetPublicKeyBadP2
  \/ GetPublicKeyFault
  \/ GetPublicKeyDisplay
  \/ \E ins \in SignIns, first \in BOOLEAN, data \in Payloads :
       RefuseUpload(ins, first, data) \/ StoreChunk(ins, first, data)
  \/ \E first \in BOOLEAN, data \in Payloads :
       \/ FinishTx(first, data)
       \/ \E result \in StakeResults : FinishStake(first, data, result)

Read ==
  \/ \E complete \in BOOLEAN : ReviewTx(complete)
  \/ ToAddress \/ TxAmount \/ Shard
  \/ ReviewStake \/ Delegator \/ Validator \/ Name \/ Rates \/ Delegation \/ Bls
  \/ StakeAmount

Decide == AddressOk \/ SignOk \/ Reject

Button == Read \/ Decide \/ DeriveFault \/ Seek \/ Compared

Init == CoreInit(Idle)

Next ==
  \/ Command
  \/ Button
  \/ SendStaged
  \/ Reset(Idle)
  \/ Quit(Idle)
  \/ Start(Idle)

Spec == Init /\ [][Next]_vars

\* The loop turns when it can; the user reads a screen and goes on, or decides.
Fairness == WF_vars(SendStaged) /\ WF_vars(Read \/ Decide)

FairSpec == Spec /\ Fairness

(***************************************************************************)
(* Correctness                                                             *)
(***************************************************************************)
Fields ==
  {"toaddr", "amount", "shard", "directive", "status", "delegator", "validator",
   "name", "rates", "delegation", "bls", "compare", "idle"}

\* Every variable has its type and the screen belongs to the flow.
TypeOK ==
  /\ CoreTypeOK
  /\ ui \in [flow : Flows \cup {"idle"}, screen : Screens, seen : SUBSET Fields,
            of : Seq(Byte \cup {Foreign}), whole : BOOLEAN, complete : BOOLEAN]
  /\ ui.flow = "idle" <=> ui.screen = "idle"
  /\ ui.flow = "address" <=> ui.screen \in {"display", "compare"}
  /\ reply \in ReplyType

\* The host is never left waiting: while a command is outstanding, either its
\* status word is staged and will be sent, or the screen belongs to the flow
\* that answers this very command and its address was not yet sent.
CommandIsServed ==
  on /\ pending # NoCmd =>
    \/ staged # NoWord /\ ~asynch
    \/ /\ staged = NoWord /\ ui.flow \in Flows
       /\ Server(ui.flow) = pending /\ ui.screen # "compare"

\* What is signed is what was reviewed and what was uploaded, although a
\* transaction is parsed a button press after its upload ended and a screen
\* to compare may write into an upload: whatever came before, the signature
\* covers the bytes buf[] held when the screens were made; and if the transfer
\* that filled buf[] was not disturbed, these are exactly its accepted bytes,
\* and the parser read them from the first one (getTxnSig.c:136-160, 362-379,
\* staking.c:207-223, getPublicKey.c:144-161).
SignedIsReviewed ==
  [][SignatureSent =>
       /\ reply'.data.bytes = ui.of
       /\ unbroken => ui.of = sent /\ ui.whole]_vars

\* What a transaction of each kind is shown as: the fields of txContent that
\* the button handlers make texts of for its flow (getTxnSig.c:155-251,
\* 270-379, staking.c:239-734).  These are not all the parser keeps: gasprice
\* and startgas of a transfer (rlp.c:390-395, rlp.h:84-85) are made into no
\* text and are on no screen.
Content(flow) ==
  CASE flow = "tx" -> {"amount", "toaddr", "shard"}
    [] flow = "create" -> {"directive", "name", "validator", "rates",
                           "delegation", "bls", "amount"}
    [] flow = "edit" -> {"directive", "name", "validator", "rates",
                         "delegation", "bls", "status"}
    [] flow = "delegate" -> {"directive", "delegator", "validator", "amount"}
    [] flow = "collect" -> {"directive", "delegator"}

\* No way through the screens leads to a signature past a text that is made
\* of the transaction, whatever the length of its amount; the gas of a
\* transfer is not among them (getTxnSig.c:172-379, staking.c:235-734).
ContentIsSeenBeforeSigning ==
  [][SignatureSent => Content(ui.flow) \subseteq ui.seen]_vars

\* A staking transaction is signed only if the parser reached its end.
StakingIsCompleteWhenSigned ==
  [][SignatureSent /\ reply'.to = "stake" => ui.complete]_vars

\* Every command is answered, or the session ends.
EveryCommandIsAnswered == pending # NoCmd ~> pending = NoCmd

(***************************************************************************)
(* Why they hold: what every step of the build keeps.                      *)
(***************************************************************************)
\* The screens of a signing flow in their order; an amount has two.
Way(flow) ==
  CASE flow = "tx" ->
         <<{"review"}, {"toaddr"}, {"amount", "amountlarge"}, {"shard"}, {"sign"}>>
    [] flow \in {"create", "edit"} ->
         <<{"review"}, {"validator"}, {"name"}, {"rates"}, {"delegation"}, {"bls"}, {"sign"}>>
    [] flow = "delegate" ->
         <<{"review"}, {"delegator"}, {"validator"}, {"amount", "amountlarge"}, {"sign"}>>
    [] flow = "collect" -> <<{"review"}, {"delegator"}, {"sign"}>>

\* The screen is the k-th of its flow, and one of each place up to it was shown.
Reached(k) ==
  /\ ui.screen \in Way(ui.flow)[k]
  /\ \A j \in 1..k : \E s \in Way(ui.flow)[j] : Shows(ui.flow, s) \subseteq ui.seen

LoopInv ==
  /\ staged # NoWord => ~asynch
  /\ ~on => pending = NoCmd
  /\ CommandIsServed

\* A transaction whose first screen is on is not parsed yet.
Unparsed == ui.flow = "tx" /\ ui.screen = "review"

ReviewInv ==
  /\ unbroken => buf = sent
  /\ Reviewing /\ Unparsed => (unbroken => parser = "fresh")
  /\ Reviewing /\ ~Unparsed => ui.of = buf /\ (unbroken => ui.whole)

ScreenInv ==
  /\ ui.flow \in StakeFlows => ui.complete
  /\ ui.flow \in SignFlows => \E k \in 1..Len(Way(ui.flow)) : Reached(k)

ReplyInv ==
  /\ staged = SW_OK => pending \in SignIns
  /\ AddressIsDelivered
  /\ StatusWordsAreValid

\* The inductive invariant
IndInv == TypeOK /\ LoopInv /\ ReviewInv /\ ScreenInv /\ ReplyInv

(***************************************************************************)
(* The build implements the abstract service with buf[] as the document.   *)
(***************************************************************************)
Service == INSTANCE SigningService WITH
  Document <- Seq(Byte \cup {Foreign}),
  NoDocument <- <<>>,
  phase <- IF pending = NoCmd THEN "ready" ELSE IF Reviewing THEN "review" ELSE "busy",
  doc <- IF Reviewing THEN buf ELSE <<>>,
  given <- reply.data

\* Every step of the build is a step of the service or changes nothing the
\* service speaks of: buf[] does not change while it is under review, a
\* signature covers it, and no other reply gives anything away.
ImplementsService == Service!Spec

(***************************************************************************)
(* What the comments say and the code does not keep                        *)
(***************************************************************************)
\* getPublicKey.c:119-120: on the screen to compare "the user will compare
\* the public key (or address) on their device to the one shown on the
\* computer": the strings it scrolls over, which lie over the first bytes of
\* buf[], are still those of the address.
ComparesTheAddress ==
  on /\ ui.screen = "compare" =>
    \A i \in DOMAIN buf : i <= PkOverlay => buf[i] = Foreign
=============================================================================
