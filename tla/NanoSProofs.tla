---------------------------- MODULE NanoSProofs ----------------------------
(***************************************************************************)
(* Theorems about the Nano S build for every Byte, CmdBufferSize,          *)
(* PkOverlay and SyscallFaults that FirmwareAssumption admits and every    *)
(* SeekOverlay of SeekAssumption.  They read as those of NanoXProofs; what *)
(* differs is the screens, whose order is the work of the button handlers  *)
(* and not of a table of pages, the parse of a transaction, which comes a  *)
(* button press after its upload, and the screen to compare, which may     *)
(* write into an upload.                                                   *)
(***************************************************************************)
EXTENDS NanoS, FirmwareProofs

(***************************************************************************)
(* Type correctness, by the parts of the state an action changes           *)
(***************************************************************************)
UiType ==
  [flow : Flows \cup {"idle"}, screen : Screens, seen : SUBSET Fields,
   of : Contents, whole : BOOLEAN, complete : BOOLEAN]

UiTypeOK ==
  /\ ui \in UiType
  /\ ui.flow = "idle" <=> ui.screen = "idle"
  /\ ui.flow = "address" <=> ui.screen \in {"display", "compare"}

LEMMA TypeParts ==
  /\ TypeOK <=> CoreOK /\ UiTypeOK
  /\ TypeOK' <=> CoreOK' /\ UiTypeOK'
<1>1. TypeOK <=> CoreOK /\ UiTypeOK
  BY CoreParts DEF TypeOK, UiTypeOK, UiType, Contents
<1>2. TypeOK' <=> CoreOK' /\ UiTypeOK'
  BY CoreParts DEF TypeOK, UiTypeOK, UiType, Contents
<1> QED  BY <1>1, <1>2

LEMMA UnchangedTypes ==
  /\ UnionType /\ UNCHANGED unionVars => UnionType'
  /\ UiTypeOK /\ UNCHANGED ui => UiTypeOK'
  /\ LoopType /\ UNCHANGED <<pending, staged, asynch, apdu, reply>> => LoopType'
  BY UnchangedCore DEF UiTypeOK

LEMMA FlowNames ==
  /\ Flows = {"tx", "address", "create", "edit", "delegate", "collect"}
  /\ SignFlows = {"tx", "create", "edit", "delegate", "collect"}
  /\ StakeFlows = {"create", "edit", "delegate", "collect"}
  BY DEF Flows, SignFlows, StakeFlows

LEMMA IdleType ==
  /\ Idle \in UiType
  /\ Idle.flow = "idle" /\ Idle.screen = "idle" /\ Idle.flow \notin Flows
  BY FlowNames DEF Idle, UiType, Screens, Contents

LEMMA IdleTypeOK == ui' = Idle => UiTypeOK'
  BY IdleType DEF UiTypeOK

\* A screen shows fields only.
LEMMA ShowsType ==
  ASSUME NEW flow, NEW screen \in Screens, screen = "review" => flow \in SignFlows
  PROVE  Shows(flow, screen) \in SUBSET Fields
  BY FlowNames DEF Shows, Screens, Fields

LEMMA OpenedType ==
  ASSUME NEW flow \in Flows, NEW of \in Contents,
         NEW whole \in BOOLEAN, NEW complete \in BOOLEAN,
         ui' = Opened(flow, of, whole, complete)
  PROVE  UiTypeOK'
<1> DEFINE first == IF flow = "address" THEN "display" ELSE "review"
<1>1. first \in Screens /\ Shows(flow, first) \in SUBSET Fields
  BY ShowsType, FlowNames DEF Screens
<1>2. ui' = [flow |-> flow, screen |-> first, seen |-> Shows(flow, first), of |-> of,
             whole |-> whole, complete |-> complete]
  BY DEF Opened
<1>3. ui' \in UiType /\ ui'.flow = flow /\ ui'.screen = first
  <2> HIDE DEF first
  <2> QED  BY <1>1, <1>2 DEF UiType
<1> QED  BY <1>3, FlowNames DEF UiTypeOK

\* A screen of a signing flow follows another one.
LEMMA ShowScreenType ==
  ASSUME UiTypeOK, ui.screen \notin {"idle", "display", "compare"},
         NEW to \in Screens \ {"idle", "display", "compare", "review"}, ShowScreen(to)
  PROVE  UiTypeOK'
<1>1. ui \in UiType /\ Shows(ui.flow, to) \in SUBSET Fields
  BY ShowsType DEF UiTypeOK
<1>2. ui'.flow = ui.flow /\ ui'.screen = to /\ ui' \in UiType
  BY <1>1 DEF ShowScreen, UiType
<1> QED  BY <1>2 DEF UiTypeOK

LEMMA ReplyAndShowType ==
  ASSUME LoopType, UiTypeOK, NEW sw \in Word, NEW data \in
           [kind : {"none", "address", "signature"}, bytes : Contents],
         NEW next, ReplyAndShow(sw, data, next), apdu' \in {"address", "other"},
         ui' = next => UiTypeOK'
  PROVE  LoopType' /\ UiTypeOK'
<1>1. CASE pending = NoCmd
  <2>1. EventThrows(INVALID_STATE) /\ UNCHANGED ui
    BY <1>1 DEF ReplyAndShow
  <2>2. INVALID_STATE \in Thrown
    BY DEF INVALID_STATE, Thrown
  <2> QED  BY <2>1, <2>2, EventThrowsType, UnchangedTypes
<1>2. CASE pending # NoCmd
  <2>1. Answer(pending, sw, data) /\ ui' = next /\ UNCHANGED <<staged, asynch>>
    BY <1>2 DEF ReplyAndShow
  <2>2. sw \in Nat
    BY DEF Word, SW_OK
  <2>3. pending' \in Ins \cup {NoCmd} /\ reply' \in ReplyType
    BY <2>1, <2>2, AnswerType DEF LoopType
  <2> QED  BY <2>1, <2>3 DEF LoopType
<1> QED  BY <1>1, <1>2

LEMMA SeekType ==
  ASSUME UnionType, Seek
  PROVE  UnionType'
<1>1. buf \in Contents /\ DOMAIN buf = 1..Len(buf) /\ Len(buf) \in Nat
  BY DEF UnionType, Contents
<1>2. buf' \in [1..Len(buf) -> Byte \cup {Foreign}]
  <2>1. \A i \in 1..Len(buf) : buf[i] \in Byte \cup {Foreign}
    BY <1>1 DEF Contents
  <2> QED  BY <1>1, <2>1 DEF Seek
<1>3. buf' \in Contents /\ Len(buf') = Len(buf)
  BY <1>1, <1>2 DEF Contents
<1>4. unbroken' \in BOOLEAN /\ sent' \in Seq(Byte)
  BY DEF Seek, UnionType
<1> QED  BY <1>3, <1>4 DEF UnionType, Seek

LEMMA CommandType ==
  ASSUME TypeOK, Command
  PROVE  TypeOK'
<1> DEFINE OK == on' \in BOOLEAN /\ LoopType' /\ UnionType' /\ UiTypeOK'
<1> SUFFICES OK  BY TypeParts DEF CoreOK
<1>a. CoreOK /\ UiTypeOK
  BY TypeParts
<1>0. on \in BOOLEAN /\ LoopType /\ UnionType /\ UiTypeOK
  BY <1>a DEF CoreOK
<1>1. CASE GetPublicKeyDisplay
  <2>1. "pubkey" \in Ins /\ "address" \in Flows /\ <<>> \in Contents
    BY DEF Ins, Flows, Contents
  <2>2. LoopType'
    BY <1>1, <2>1, CommandWaitsType DEF GetPublicKeyDisplay
  <2>3. UiTypeOK'
    BY <1>1, <2>1, OpenedType DEF GetPublicKeyDisplay
  <2> QED  BY <1>0, <1>1, <2>2, <2>3, MemsetType DEF GetPublicKeyDisplay
<1>2. ASSUME NEW first \in BOOLEAN, NEW data \in Payloads, FinishTx(first, data)
      PROVE  OK
  <2>1. "tx" \in Ins /\ "tx" \in Flows /\ <<>> \in Contents
    BY DEF Ins, SignIns, Flows, SignFlows, Contents
  <2>2. parser' \in {"null", "fresh", "used"}
    BY <1>0, <1>2 DEF FinishTx, ParserAfter, UnionType
  <2>3. UnionType'
    BY <1>0, <1>2, <2>2, StoreType DEF FinishTx
  <2>4. LoopType'
    BY <1>2, <2>1, CommandWaitsType DEF FinishTx
  <2>5. UiTypeOK'
    BY <1>2, <2>1, OpenedType DEF FinishTx
  <2> QED  BY <1>0, <1>2, <2>3, <2>4, <2>5 DEF FinishTx
<1>3. ASSUME NEW first \in BOOLEAN, NEW data \in Payloads, NEW result \in StakeResults,
             FinishStake(first, data, result)
      PROVE  OK
  <2>1. UnionType'
    BY <1>0, <1>3, StoreType DEF FinishStake
  <2>2. "stake" \in Ins /\ INVALID_PARAMETER \in Thrown
    BY DEF Ins, SignIns, Thrown, INVALID_PARAMETER
  <2>3. CASE result \notin StakeFlows
    <3>1. CommandThrows("stake", INVALID_PARAMETER) /\ UNCHANGED <<on, ui>>
      BY <1>3, <2>3 DEF FinishStake
    <3> QED  BY <1>0, <2>1, <2>2, <3>1, CommandThrowsType, UnchangedTypes
  <2>4. CASE result \in StakeFlows
    <3>0. result \in Flows
      BY <2>4 DEF Flows, SignFlows
    <3>1. LoopType'
      BY <1>3, <2>2, <2>4, CommandWaitsType DEF FinishStake
    <3>2. UiTypeOK'
      BY <1>3, <2>1, <2>4, <3>0, OpenedType DEF FinishStake, UnionType
    <3> QED  BY <1>0, <1>3, <2>1, <3>1, <3>2 DEF FinishStake
  <2> QED  BY <2>3, <2>4
<1>4. CASE ScreenlessCommand
  BY <1>a, <1>4, ScreenlessType, UnchangedTypes DEF CoreOK
<1> QED
  <2> HIDE DEF OK
  <2> QED  BY <1>1, <1>2, <1>3, <1>4 DEF Command, ScreenlessCommand

(***************************************************************************)
(* The screens that are read.  The handler of each shows one of the        *)
(* screens it leads to, or refuses a number; the first one of a            *)
(* transaction parses it.                                                  *)
(***************************************************************************)
Amounts == {"amount", "amountlarge"}

Leads(flow, from, to) ==
  \/ from = "toaddr" /\ to \in Amounts
  \/ flow = "tx" /\ from \in Amounts /\ to = "shard"
  \/ from = "shard" /\ to = "sign"
  \/ flow \in {"create", "edit"} /\ from = "review" /\ to = "validator"
  \/ flow \in {"delegate", "collect"} /\ from = "review" /\ to = "delegator"
  \/ flow = "collect" /\ from = "delegator" /\ to = "sign"
  \/ flow # "collect" /\ from = "delegator" /\ to = "validator"
  \/ flow \in {"create", "edit"} /\ from = "validator" /\ to = "name"
  \/ flow \notin {"create", "edit"} /\ from = "validator" /\ to \in Amounts
  \/ from = "name" /\ to = "rates"
  \/ from = "rates" /\ to = "delegation"
  \/ from = "delegation" /\ to = "bls"
  \/ from = "bls" /\ to = "sign"
  \/ flow \in StakeFlows /\ from \in Amounts /\ to = "sign"

LEMMA ReadEnds ==
  ASSUME Read
  PROVE  \/ \E complete \in BOOLEAN : ReviewTx(complete)
         \/ \E from, to : Step(from, to) /\ Leads(ui.flow, from, to)
         \/ \E from \in {"toaddr", "validator", "name", "rates"} : Refused(from)
<1> DEFINE Shown == \E from, to : Step(from, to) /\ Leads(ui.flow, from, to)
           Thrown1 == \E from \in {"toaddr", "validator", "name", "rates"} : Refused(from)
<1> SUFFICES ASSUME \A complete \in BOOLEAN : ~ReviewTx(complete)
             PROVE  Shown \/ Thrown1
  OBVIOUS
<1>1. CASE ToAddress
  BY <1>1 DEF ToAddress, Leads, Amounts
<1>2. CASE TxAmount
  BY <1>2 DEF TxAmount, Leads, Amounts
<1>3. CASE Shard
  BY <1>3 DEF Shard, Leads
<1>4. CASE ReviewStake
  BY <1>4 DEF ReviewStake, Leads
<1>5. CASE Delegator
  BY <1>5 DEF Delegator, Leads
<1>6. CASE Validator
  BY <1>6 DEF Validator, Leads, Amounts
<1>7. CASE Name \/ Rates
  BY <1>7 DEF Name, Rates, Leads
<1>8. CASE Delegation \/ Bls
  BY <1>8 DEF Delegation, Bls, Leads
<1>9. CASE StakeAmount
  BY <1>9 DEF StakeAmount, Leads, Amounts
<1> QED
  <2> HIDE DEF Shown, Thrown1
  <2> QED  BY <1>1, <1>2, <1>3, <1>4, <1>5, <1>6, <1>7, <1>8, <1>9 DEF Read

LEMMA LeadsType ==
  ASSUME NEW flow, NEW from, NEW to, Leads(flow, from, to)
  PROVE  /\ from \notin {"idle", "display", "compare", "sign"}
         /\ to \in Screens \ {"idle", "display", "compare", "review"}
  BY DEF Leads, Amounts, Screens

LEMMA ReadType ==
  ASSUME TypeOK, Read
  PROVE  TypeOK'
<1>a. CoreOK /\ UiTypeOK /\ on \in BOOLEAN /\ LoopType /\ UnionType
  BY TypeParts DEF CoreOK
<1>1. ASSUME NEW complete \in BOOLEAN, ReviewTx(complete)
      PROVE  TypeOK'
  <2>1. ui \in UiType /\ ui.flow = "tx" /\ buf \in Contents /\ (parser = "fresh") \in BOOLEAN
    BY <1>1, <1>a DEF ReviewTx, UiTypeOK, UnionType
  <2>2. ui' \in UiType /\ ui'.flow = "tx" /\ ui'.screen = "toaddr"
    BY <1>1, <2>1 DEF ReviewTx, UiType, Screens, Fields
  <2>3. UiTypeOK'
    BY <2>2 DEF UiTypeOK
  <2>4. LoopType' /\ UnionType' /\ on' \in BOOLEAN
    BY <1>1, <1>a DEF ReviewTx, LoopType, UnionType
  <2> QED  BY <2>3, <2>4, TypeParts DEF CoreOK
<1>2. ASSUME NEW from, NEW to, Step(from, to), Leads(ui.flow, from, to)
      PROVE  TypeOK'
  <2>1. UiTypeOK'
    BY <1>a, <1>2, LeadsType, ShowScreenType DEF Step, Pressed
  <2> QED  BY <1>a, <1>2, <2>1, UnchangedTypes, TypeParts DEF Step, CoreOK
<1>3. ASSUME NEW from, Refused(from)
      PROVE  TypeOK'
  <2>1. EXCEPTION_OVERFLOW \in Thrown
    BY DEF Thrown, EXCEPTION_OVERFLOW
  <2> QED
    BY <1>a, <1>3, <2>1, EventThrowsType, UnchangedTypes, TypeParts DEF Refused, CoreOK
<1> QED  BY <1>1, <1>2, <1>3, ReadEnds

LEMMA ButtonType ==
  ASSUME TypeOK, Button
  PROVE  TypeOK'
<1> DEFINE OK == on' \in BOOLEAN /\ LoopType' /\ UnionType' /\ UiTypeOK'
<1> SUFFICES ASSUME ~Read PROVE OK  BY ReadType, TypeParts DEF CoreOK
<1>0. on \in BOOLEAN /\ LoopType /\ UnionType /\ UiTypeOK
  BY TypeParts DEF CoreOK
<1>1. CASE AddressOk
  <2>1. SW_OK \in Word /\ apdu' \in {"address", "other"}
    BY <1>1 DEF Word, AddressOk
  <2>2. ASSUME ui' = [ui EXCEPT !.screen = "compare"]  PROVE UiTypeOK'
    <3>1. ui \in UiType /\ ui.flow = "address"
      BY <1>0, <1>1 DEF AddressOk, Pressed, UiTypeOK
    <3>2. ui' \in UiType /\ ui'.flow = "address" /\ ui'.screen = "compare"
      BY <2>2, <3>1 DEF UiType, Screens
    <3> QED  BY <3>2 DEF UiTypeOK
  <2> QED
    BY <1>0, <1>1, <2>1, <2>2, DataTypes, ReplyAndShowType, UnchangedTypes DEF AddressOk
<1>2. CASE SignOk
  <2>1. SW_OK \in Word /\ apdu' \in {"address", "other"}
    BY <1>2 DEF Word, SignOk
  <2>2. Signature(buf) \in [kind : {"none", "address", "signature"}, bytes : Contents]
    BY <1>0, DataTypes DEF UnionType
  <2> QED
    BY <1>0, <1>2, <2>1, <2>2, IdleTypeOK, ReplyAndShowType, UnchangedTypes DEF SignOk
<1>3. CASE Reject
  <2>1. SW_USER_REJECTED \in Word /\ apdu' \in {"address", "other"}
    BY <1>3 DEF Word, Reject, SW_USER_REJECTED
  <2> QED
    BY <1>0, <1>3, <2>1, DataTypes, IdleTypeOK, ReplyAndShowType, UnchangedTypes DEF Reject
<1>4. CASE DeriveFault
  <2>1. PICK e \in SyscallFaults : EventThrows(e)
    BY <1>4 DEF DeriveFault
  <2>2. e \in Thrown
    BY FirmwareAssumption DEF Thrown
  <2> QED  BY <1>0, <1>4, <2>1, <2>2, EventThrowsType, UnchangedTypes DEF DeriveFault
<1>5. CASE Compared
  BY <1>0, <1>5, IdleTypeOK, UnchangedTypes DEF Compared
<1>6. CASE Seek
  <2>1. UnionType'
    BY <1>0, <1>6, SeekType
  <2> QED  BY <1>0, <1>6, <2>1, UnchangedTypes DEF Seek, LoopType
<1> QED
  <2> HIDE DEF OK
  <2> QED  BY <1>1, <1>2, <1>3, <1>4, <1>5, <1>6 DEF Button, Decide

LEMMA LoopTypeKept ==
  ASSUME TypeOK, SendStaged \/ Reset(Idle) \/ Quit(Idle) \/ Start(Idle)
  PROVE  TypeOK'
<1>1. CoreOK /\ UiTypeOK
  BY TypeParts
<1>2. CoreOK' /\ ui' \in {ui, Idle}
  BY <1>1, SendStagedCoreType, RestartCoreType
<1>3. UiTypeOK'
  BY <1>1, <1>2, IdleTypeOK, UnchangedTypes
<1> QED  BY <1>2, <1>3, TypeParts

LEMMA TypeInit == Init => TypeOK
<1> SUFFICES ASSUME Init PROVE TypeOK  OBVIOUS
<1>1. CoreOK /\ ui = Idle
  BY CoreInitType DEF Init
<1> QED  BY <1>1, IdleType, TypeParts DEF UiTypeOK

LEMMA TypeNext ==
  ASSUME TypeOK, [Next]_vars
  PROVE  TypeOK'
<1>1. CASE Next
  BY <1>1, CommandType, ButtonType, LoopTypeKept DEF Next
<1>2. CASE UNCHANGED vars
  BY <1>2, TypeParts, UnchangedTypes DEF vars, unionVars, CoreOK
<1> QED  BY <1>1, <1>2

\* Whatever is uploaded, pressed, reset or raised, every variable keeps its
\* type: buf[] never holds more than four packets, and the screen belongs to
\* the flow.
THEOREM TypeCorrect == Spec => []TypeOK
  BY TypeInit, TypeNext, PTL DEF Spec

(***************************************************************************)
(* The screens of a flow come in their order.                              *)
(***************************************************************************)
\* Every flow starts with its first screen on.
LEMMA WayStarts ==
  ASSUME NEW flow \in SignFlows
  PROVE  Len(Way(flow)) \in Nat \ {0} /\ Way(flow)[1] = {"review"}
<1>1. CASE flow = "tx"
  BY <1>1 DEF Way
<1>2. CASE flow \in {"create", "edit"}
  BY <1>2 DEF Way
<1>3. CASE flow = "delegate"
  BY <1>3 DEF Way
<1>4. CASE flow = "collect"
  BY <1>4 DEF Way
<1> QED  BY <1>1, <1>2, <1>3, <1>4, FlowNames

\* What a screen leads to is the next one: no handler skips one.
LEMMA WayGoesOn ==
  ASSUME NEW flow \in SignFlows, NEW k \in 1..Len(Way(flow)),
         NEW from \in Way(flow)[k], NEW to, Leads(flow, from, to)
  PROVE  k + 1 \in 1..Len(Way(flow)) /\ to \in Way(flow)[k + 1]
<1>1. CASE flow = "tx"
  <2>1. Way(flow) =
          <<{"review"}, {"toaddr"}, {"amount", "amountlarge"}, {"shard"}, {"sign"}>>
    BY <1>1 DEF Way
  <2> QED  BY <1>1, <2>1, FlowNames, SMTT(30) DEF Leads, Amounts
<1>2. CASE flow \in {"create", "edit"}
  <2>1. Way(flow) = <<{"review"}, {"validator"}, {"name"}, {"rates"}, {"delegation"},
                      {"bls"}, {"sign"}>>
    BY <1>2 DEF Way
  <2>2. k \in 1..6 /\ to \in Way(flow)[k + 1]
    <3>1. k \in 1..7
      BY <2>1
    <3>2. flow # "tx" /\ flow # "collect" /\ flow # "delegate"
      BY <1>2
    <3>3. CASE k \in 1..3
      BY <1>2, <2>1, <3>2, <3>3 DEF Leads, Amounts
    <3>4. CASE k \in 4..7
      BY <1>2, <2>1, <3>2, <3>4 DEF Leads, Amounts
    <3> QED  BY <3>1, <3>3, <3>4
  <2> QED  BY <2>1, <2>2
<1>3. CASE flow = "delegate"
  <2>1. Way(flow) = <<{"review"}, {"delegator"}, {"validator"}, {"amount", "amountlarge"},
                      {"sign"}>>
    BY <1>3 DEF Way
  <2> QED  BY <1>3, <2>1, FlowNames DEF Leads, Amounts
<1>4. CASE flow = "collect"
  <2>1. Way(flow) = <<{"review"}, {"delegator"}, {"sign"}>>
    BY <1>4 DEF Way
  <2>2. k \in 1..3
    BY <2>1
  <2>3. CASE from = "review" \/ from = "delegator"
    BY <1>4, <2>1, <2>2, <2>3 DEF Leads, Amounts
  <2>4. CASE from = "sign"
    BY <2>4, LeadsType
  <2> QED  BY <2>1, <2>2, <2>3, <2>4
<1> QED  BY <1>1, <1>2, <1>3, <1>4, FlowNames

\* On the screen that asks for the signature every text of Content came by.
LEMMA SignIsLast ==
  ASSUME ui.flow \in SignFlows, ui.screen = "sign",
         NEW k \in 1..Len(Way(ui.flow)), Reached(k)
  PROVE  Content(ui.flow) \subseteq ui.seen
<1> DEFINE Seen(j) == \E s \in Way(ui.flow)[j] : Shows(ui.flow, s) \subseteq ui.seen
<1>0. ui.screen \in Way(ui.flow)[k] /\ \A j \in 1..k : Seen(j)
  BY DEF Reached
<1>1. CASE ui.flow = "tx"
  <2>1. Way(ui.flow) =
          <<{"review"}, {"toaddr"}, {"amount", "amountlarge"}, {"shard"}, {"sign"}>>
    BY <1>1 DEF Way
  <2>2. k = 5
    BY <1>0, <2>1
  <2>3. Seen(2) /\ Seen(3) /\ Seen(4)
    BY <1>0, <2>2
  <2>4. /\ Shows("tx", "toaddr") = {"toaddr"} /\ Shows("tx", "amount") = {"amount"}
        /\ Shows("tx", "amountlarge") = {"amount"} /\ Shows("tx", "shard") = {"shard"}
    BY FlowNames DEF Shows
  <2> QED  BY <1>1, <2>1, <2>3, <2>4 DEF Content
<1>2. CASE ui.flow \in {"create", "edit"}
  <2>1. Way(ui.flow) = <<{"review"}, {"validator"}, {"name"}, {"rates"}, {"delegation"},
                         {"bls"}, {"sign"}>>
    BY <1>2 DEF Way
  <2>2. k = 7
    BY <1>0, <2>1
  <2>3. Seen(1) /\ Seen(2) /\ Seen(3) /\ Seen(4) /\ Seen(5) /\ Seen(6)
    BY <1>0, <2>2
  <2>4. \A s \in {"validator", "name", "rates", "bls"} : Shows(ui.flow, s) = {s}
    BY <1>2, FlowNames DEF Shows
  <2>5. {"validator", "name", "rates", "bls"} \subseteq ui.seen
    BY <2>1, <2>3, <2>4
  <2>6. CASE ui.flow = "create"
    <3>1. /\ Shows("create", "review") = {"directive"}
          /\ Shows("create", "delegation") = {"delegation", "amount"}
      BY FlowNames DEF Shows
    <3>2. {"directive", "delegation", "amount"} \subseteq ui.seen
      BY <2>1, <2>3, <2>6, <3>1
    <3> QED  BY <2>5, <2>6, <3>2 DEF Content
  <2>7. CASE ui.flow = "edit"
    <3>1. /\ Shows("edit", "review") = {"directive", "status"}
          /\ Shows("edit", "delegation") = {"delegation"}
      BY FlowNames DEF Shows
    <3>2. {"directive", "status", "delegation"} \subseteq ui.seen
      BY <2>1, <2>3, <2>7, <3>1
    <3> QED  BY <2>5, <2>7, <3>2 DEF Content
  <2> QED  BY <1>2, <2>6, <2>7
<1>3. CASE ui.flow = "delegate"
  <2>1. Way(ui.flow) = <<{"review"}, {"delegator"}, {"validator"},
                         {"amount", "amountlarge"}, {"sign"}>>
    BY <1>3 DEF Way
  <2>2. k = 5
    BY <1>0, <2>1
  <2>3. Seen(1) /\ Seen(2) /\ Seen(3) /\ Seen(4)
    BY <1>0, <2>2
  <2>4. /\ Shows("delegate", "review") = {"directive"}
        /\ Shows("delegate", "delegator") = {"delegator"}
        /\ Shows("delegate", "validator") = {"validator"}
        /\ Shows("delegate", "amount") = {"amount"}
        /\ Shows("delegate", "amountlarge") = {"amount"}
    BY FlowNames DEF Shows
  <2> QED  BY <1>3, <2>1, <2>3, <2>4 DEF Content
<1>4. CASE ui.flow = "collect"
  <2>1. Way(ui.flow) = <<{"review"}, {"delegator"}, {"sign"}>>
    BY <1>4 DEF Way
  <2>2. k = 3
    BY <1>0, <2>1
  <2>3. Seen(1) /\ Seen(2)
    BY <1>0, <2>2
  <2>4. /\ Shows("collect", "review") = {"directive"}
        /\ Shows("collect", "delegator") = {"delegator"}
    BY FlowNames DEF Shows
  <2> QED  BY <1>4, <2>1, <2>3, <2>4 DEF Content
<1> QED  BY <1>1, <1>2, <1>3, <1>4, FlowNames

(***************************************************************************)
(* The inductive invariant, by the four ways a handler ends (see           *)
(* NanoXProofs).                                                           *)
(***************************************************************************)
LEMMA IdleScreen == ui' = Idle => ScreenInv'
  BY IdleType, FlowNames DEF ScreenInv

LEMMA SameScreen == ScreenInv /\ UNCHANGED ui => ScreenInv'
  BY DEF ScreenInv, Reached

LEMMA CommandThrowsKeeps ==
  ASSUME ScreenInv, on' = TRUE, UNCHANGED ui,
         NEW ins \in Ins, NEW e \in Thrown, CommandThrows(ins, e),
         e = SW_OK => ins \in SignIns
  PROVE  LoopInv' /\ ScreenInv' /\ ReplyInv' /\ ~Reviewing'
<1>1. staged' # NoWord /\ (staged' = SW_OK => ins \in SignIns)
  BY StatusWordType, SuccessWord DEF CommandThrows
<1>2. LoopInv'
  BY <1>1 DEF CommandThrows, LoopInv, CommandIsServed
<1>3. ReplyInv'
  BY <1>1, CommandNames
     DEF CommandThrows, ReplyInv, AddressIsDelivered, StatusWordsAreValid, NoReply,
         NoCmd
<1> QED  BY <1>1, <1>2, <1>3, SameScreen DEF Reviewing

LEMMA CommandWaitsKeeps ==
  ASSUME on' = TRUE, NEW flow \in Flows, NEW of, NEW whole, NEW complete,
         CommandWaits(Server(flow)), ui' = Opened(flow, of, whole, complete),
         flow \in StakeFlows => complete
  PROVE  LoopInv' /\ ScreenInv' /\ ReplyInv'
<1>1. /\ ui'.flow = flow /\ ui'.complete = complete
      /\ ui'.screen = IF flow = "address" THEN "display" ELSE "review"
      /\ ui'.seen = Shows(flow, ui'.screen)
  BY DEF Opened
<1>2. LoopInv'
  BY <1>1 DEF CommandWaits, LoopInv, CommandIsServed
<1>3. ASSUME flow \in SignFlows  PROVE 1 \in 1..Len(Way(flow)) /\ Reached(1)'
  <2>1. ui'.screen = "review" /\ Way(flow)[1] = {"review"} /\ 1 \in 1..Len(Way(flow))
    BY <1>1, <1>3, WayStarts, FlowNames
  <2>2. \A j \in 1..1 : j = 1
    OBVIOUS
  <2> QED  BY <1>1, <2>1, <2>2 DEF Reached
<1>4. ScreenInv'
  BY <1>1, <1>3 DEF ScreenInv
<1>5. ReplyInv'
  BY ServerValues, CommandNames
     DEF CommandWaits, ReplyInv, AddressIsDelivered, StatusWordsAreValid, NoReply,
         NoWord, SW_OK
<1> QED  BY <1>2, <1>4, <1>5

LEMMA AnswerKeeps ==
  ASSUME ScreenInv', NEW ins \in Ins, NEW sw \in Word, NEW data,
         Answer(ins, sw, data), staged' = NoWord,
         ins = "pubkey" /\ sw = SW_OK => data = Address
  PROVE  LoopInv' /\ ScreenInv' /\ ReplyInv' /\ ~Reviewing'
<1>1. LoopInv'
  BY DEF Answer, LoopInv, CommandIsServed
<1>2. ReplyInv'
  BY CommandNames
     DEF Answer, ReplyInv, AddressIsDelivered, StatusWordsAreValid, Word, NoCmd,
         Ins, NoWord, SW_OK
<1>3. ~Reviewing'
  BY CommandNames DEF Answer, Reviewing
<1> QED  BY <1>1, <1>2, <1>3

LEMMA EventThrowsKeeps ==
  ASSUME on = TRUE, LoopInv, ScreenInv, ReplyInv, UNCHANGED <<on, ui>>,
         NEW e \in 1..15, EventThrows(e)
  PROVE  LoopInv' /\ ScreenInv' /\ ReplyInv' /\ ~Reviewing'
<1>0. e \in Thrown /\ e # SW_OK
  BY DEF Thrown, SW_OK
<1>1. staged' # NoWord /\ staged' # SW_OK /\ asynch' = FALSE
  BY <1>0, StatusWordType, SuccessWord DEF EventThrows
<1>2. LoopInv'
  BY <1>1 DEF EventThrows, LoopInv, CommandIsServed
<1>3. ReplyInv'
  BY <1>1, SMTT(30) DEF EventThrows, ReplyInv, AddressIsDelivered, StatusWordsAreValid
<1> QED  BY <1>1, <1>2, <1>3, SameScreen DEF Reviewing

LEMMA ReplyAndShowKeeps ==
  ASSUME TypeOK, LoopInv, ScreenInv, ReplyInv, Waiting, UNCHANGED on,
         NEW sw \in Word, NEW data, NEW next, ReplyAndShow(sw, data, next),
         ui' = next => ScreenInv',
         pending = "pubkey" /\ sw = SW_OK => data = Address
  PROVE  LoopInv' /\ ScreenInv' /\ ReplyInv' /\ ~Reviewing'
<1>0. on = TRUE /\ staged = NoWord
  BY DEF Waiting, TypeOK, CoreTypeOK
<1>1. CASE pending = NoCmd
  <2>1. EventThrows(INVALID_STATE) /\ UNCHANGED <<on, ui>> /\ INVALID_STATE \in 1..15
    BY <1>1 DEF ReplyAndShow, INVALID_STATE
  <2> QED  BY <1>0, <2>1, EventThrowsKeeps
<1>2. CASE pending # NoCmd
  <2>1. /\ Answer(pending, sw, data) /\ ui' = next /\ staged' = NoWord
        /\ pending \in Ins
    BY <1>0, <1>2 DEF ReplyAndShow, TypeOK, CoreTypeOK
  <2> QED  BY <2>1, AnswerKeeps
<1> QED  BY <1>1, <1>2

(***************************************************************************)
(* Every step keeps the invariant: one step of the proof per action.       *)
(***************************************************************************)
LEMMA CommandKeeps ==
  ASSUME TypeOK, LoopInv, ReviewInv, ScreenInv, ReplyInv, Command
  PROVE  LoopInv' /\ ReviewInv' /\ ScreenInv' /\ ReplyInv'
<1> DEFINE OK == LoopInv' /\ ReviewInv' /\ ScreenInv' /\ ReplyInv'
<1> SUFFICES OK  OBVIOUS
<1>0. Listening => on = TRUE /\ pending = NoCmd /\ staged = NoWord
  BY DEF Listening, Waiting, TypeOK, CoreTypeOK
<1>a. Filled
  BY DEF ReviewInv, Filled
<1>1. CASE GetPublicKeyDisplay
  <2>1. "address" \in Flows /\ "address" \notin StakeFlows /\ Server("address") = "pubkey"
    BY DEF Flows, StakeFlows, Server
  <2>2. LoopInv' /\ ScreenInv' /\ ReplyInv'
    BY <1>0, <1>1, <2>1, CommandWaitsKeeps DEF GetPublicKeyDisplay
  <2>3. ~Reviewing'
    BY <1>1, CommandNames DEF GetPublicKeyDisplay, CommandWaits, Reviewing
  <2> QED  BY <1>1, <2>2, <2>3 DEF GetPublicKeyDisplay, PublicKeyMemset, ReviewInv
<1>2. ASSUME NEW first \in BOOLEAN, NEW data \in Payloads, FinishTx(first, data)
      PROVE  OK
  <2>1. Filled' /\ (unbroken' => ParserAfter(first) = "fresh")
    BY <1>a, <1>2, StoreFills DEF FinishTx
  <2>2. "tx" \in Flows /\ "tx" \notin StakeFlows /\ Server("tx") = "tx"
    BY FlowNames DEF Server
  <2>3. /\ CommandWaits("tx") /\ on' = TRUE /\ ui' = Opened("tx", <<>>, FALSE, FALSE)
        /\ parser' = ParserAfter(first)
    BY <1>0, <1>2 DEF FinishTx
  <2>4. LoopInv' /\ ScreenInv' /\ ReplyInv'
    BY <2>2, <2>3, CommandWaitsKeeps
  <2>5. Unparsed'
    BY <2>3 DEF Opened, Unparsed
  <2> QED  BY <2>1, <2>3, <2>4, <2>5 DEF ReviewInv, Filled
<1>3. ASSUME NEW first \in BOOLEAN, NEW data \in Payloads, NEW result \in StakeResults,
             FinishStake(first, data, result)
      PROVE  OK
  <2>1. Filled' /\ (unbroken' => ParserAfter(first) = "fresh")
    BY <1>a, <1>3, StoreFills DEF FinishStake
  <2>2. "stake" \in Ins /\ INVALID_PARAMETER \in Thrown \ {SW_OK}
    BY DEF Ins, SignIns, Thrown, INVALID_PARAMETER, SW_OK
  <2>3. CASE result \notin StakeFlows
    <3>1. LoopInv' /\ ScreenInv' /\ ReplyInv' /\ ~Reviewing'
      BY <1>0, <1>3, <2>2, <2>3, CommandThrowsKeeps DEF FinishStake
    <3> QED  BY <2>1, <3>1 DEF ReviewInv, Filled
  <2>4. CASE result \in StakeFlows
    <3>0. result \in Flows /\ result # "tx" /\ Server(result) = "stake"
      BY <2>4, FlowNames DEF Server
    <3>1. CommandWaits("stake") /\ on' = TRUE /\ ui' = Opened(result, buf',
            ParserAfter(first) = "fresh", TRUE)
      BY <1>0, <1>3, <2>4 DEF FinishStake
    <3>2. LoopInv' /\ ScreenInv' /\ ReplyInv'
      BY <3>0, <3>1, CommandWaitsKeeps
    <3>3. ui'.flow = result /\ ui'.of = buf' /\ ui'.whole = (ParserAfter(first) = "fresh")
      BY <3>1 DEF Opened
    <3> QED  BY <2>1, <3>0, <3>2, <3>3 DEF ReviewInv, Filled, Unparsed
  <2> QED  BY <2>3, <2>4
<1>4. CASE ScreenlessCommand
  <2>1. Listening /\ UNCHANGED <<on, ui>> /\ SW_OK \in Word
    BY <1>4, ScreenlessEnds DEF Word
  <2>2. LoopInv' /\ ScreenInv' /\ ReplyInv' /\ ~Reviewing'
    BY <1>0, <1>4, <2>1, ScreenlessEnds, SameScreen, CommandThrowsKeeps, AnswerKeeps
       DEF AnsweredAtOnce
  <2>3. Filled'
    BY <1>a, <1>4, ScreenlessFills
  <2> QED  BY <2>2, <2>3 DEF ReviewInv, Filled
<1> QED
  <2> HIDE DEF OK
  <2> QED  BY <1>1, <1>2, <1>3, <1>4 DEF Command, ScreenlessCommand

\* A screen leads to the next one: the review goes on, of the same bytes.
LEMMA StepKeeps ==
  ASSUME TypeOK, LoopInv, ReviewInv, ScreenInv, ReplyInv,
         NEW from, NEW to, Step(from, to), Leads(ui.flow, from, to)
  PROVE  LoopInv' /\ ReviewInv' /\ ScreenInv' /\ ReplyInv'
<1>0. /\ UNCHANGED <<on, pending, staged, asynch, apdu, reply>> /\ UNCHANGED unionVars
      /\ ui.screen = from /\ ShowScreen(to)
  BY DEF Step, Pressed
<1>1. /\ ui'.flow = ui.flow /\ ui'.of = ui.of /\ ui'.whole = ui.whole
      /\ ui'.complete = ui.complete /\ ui'.screen = to
      /\ ui'.seen = ui.seen \cup Shows(ui.flow, to)
  BY <1>0 DEF ShowScreen, TypeOK
<1>2. to # "compare" /\ to # "review"
  BY LeadsType
<1>3. LoopInv'
  BY <1>0, <1>1, <1>2 DEF LoopInv, CommandIsServed
<1>4. ReviewInv'
  <2>1. ~Unparsed
    <3>1. ASSUME ui.flow = "tx", ui.screen = "review"  PROVE FALSE
      BY <1>0, <3>1 DEF Leads, Amounts
    <3> QED  BY <3>1 DEF Unparsed
  <2> QED  BY <1>0, <1>1, <1>2, <2>1 DEF ReviewInv, Reviewing, Unparsed, unionVars
<1>5. ASSUME ui.flow \in SignFlows
      PROVE  \E k \in 1..Len(Way(ui.flow)) : Reached(k)'
  <2>1. PICK k \in 1..Len(Way(ui.flow)) : Reached(k)
    BY <1>5 DEF ScreenInv
  <2>2. k + 1 \in 1..Len(Way(ui.flow)) /\ to \in Way(ui.flow)[k + 1]
    BY <1>0, <1>5, <2>1, WayGoesOn DEF Reached
  <2>3. ASSUME NEW j \in 1..(k + 1)
        PROVE  \E s \in Way(ui.flow)[j] : Shows(ui.flow, s) \subseteq ui'.seen
    <3>1. CASE j = k + 1
      BY <1>1, <2>2, <3>1
    <3>2. CASE j # k + 1
      <4>1. j \in 1..k
        BY <3>2
      <4> QED  BY <1>1, <2>1, <4>1 DEF Reached
    <3> QED  BY <3>1, <3>2
  <2>4. Reached(k + 1)'
    BY <1>1, <2>2, <2>3 DEF Reached
  <2> QED  BY <2>2, <2>4
<1>6. ScreenInv'
  BY <1>1, <1>5 DEF ScreenInv
<1>7. ReplyInv'
  BY <1>0, SMTT(30) DEF ReplyInv, AddressIsDelivered, StatusWordsAreValid
<1> QED  BY <1>3, <1>4, <1>6, <1>7

\* The parse of a transaction leaves buf[] alone and opens the second screen.
LEMMA ReviewTxKeeps ==
  ASSUME TypeOK, LoopInv, ReviewInv, ScreenInv, ReplyInv,
         NEW complete \in BOOLEAN, ReviewTx(complete)
  PROVE  LoopInv' /\ ReviewInv' /\ ScreenInv' /\ ReplyInv'
<1>0. /\ UNCHANGED <<on, pending, staged, asynch, apdu, reply, buf, unbroken, sent>>
      /\ ui.flow = "tx" /\ ui.screen = "review"
  BY DEF ReviewTx, Pressed
<1>1. /\ ui'.flow = "tx" /\ ui'.screen = "toaddr" /\ ui'.seen = {"toaddr"}
      /\ ui'.of = buf /\ ui'.whole = (parser = "fresh")
  BY <1>0 DEF ReviewTx, TypeOK
<1>2. LoopInv'
  BY <1>0, <1>1 DEF LoopInv, CommandIsServed
<1>3. ReviewInv'
  BY <1>0, <1>1 DEF ReviewInv, Reviewing, Unparsed
<1>4. ScreenInv'
  <2>1. Way("tx") =
          <<{"review"}, {"toaddr"}, {"amount", "amountlarge"}, {"shard"}, {"sign"}>>
    BY DEF Way
  <2>2. Shows("tx", "review") = {} /\ Shows("tx", "toaddr") = {"toaddr"}
    BY FlowNames DEF Shows
  <2>3. \A j \in 1..2 : j = 1 \/ j = 2
    OBVIOUS
  <2>4. 2 \in 1..Len(Way("tx")) /\ Way("tx")[1] = {"review"} /\ Way("tx")[2] = {"toaddr"}
    BY <2>1
  <2>5. Reached(2)'
    BY <1>1, <2>2, <2>3, <2>4 DEF Reached
  <2> QED  BY <1>1, <2>4, <2>5, FlowNames DEF ScreenInv
<1>5. ReplyInv'
  BY <1>0 DEF ReplyInv, AddressIsDelivered, StatusWordsAreValid
<1> QED  BY <1>2, <1>3, <1>4, <1>5

\* The screen on while a command is outstanding is that of its flow, and a
\* button that throws or answers ends the review.
LEMMA OutstandingFlow ==
  ASSUME TypeOK, LoopInv, Waiting, pending # NoCmd
  PROVE  /\ on = TRUE /\ staged = NoWord /\ pending \in Ins
         /\ ui.flow \in Flows /\ Server(ui.flow) = pending /\ ui.screen # "compare"
         /\ ui.screen = "display" <=> pending = "pubkey"
         /\ Reviewing <=> pending # "pubkey"
<1>1. on = TRUE /\ staged = NoWord /\ pending \in Ins
  BY DEF Waiting, TypeOK, CoreTypeOK
<1>2. ui.flow \in Flows /\ Server(ui.flow) = pending /\ ui.screen # "compare"
  BY <1>1 DEF LoopInv, CommandIsServed
<1>3. ui.screen = "display" <=> pending = "pubkey"
  BY <1>2, ServerValues DEF TypeOK
<1>4. Reviewing <=> pending # "pubkey"
  BY <1>1, <1>2, ServerValues, CommandNames DEF Reviewing
<1> QED  BY <1>1, <1>2, <1>3, <1>4

LEMMA ReadKeeps ==
  ASSUME TypeOK, LoopInv, ReviewInv, ScreenInv, ReplyInv, Read
  PROVE  LoopInv' /\ ReviewInv' /\ ScreenInv' /\ ReplyInv'
<1>1. ASSUME NEW from, Refused(from)
      PROVE  LoopInv' /\ ReviewInv' /\ ScreenInv' /\ ReplyInv'
  <2>1. EventThrows(EXCEPTION_OVERFLOW) /\ EXCEPTION_OVERFLOW \in 1..15 /\ on = TRUE
    BY <1>1 DEF Refused, Pressed, Waiting, TypeOK, CoreTypeOK, EXCEPTION_OVERFLOW
  <2>2. LoopInv' /\ ScreenInv' /\ ReplyInv' /\ ~Reviewing'
    BY <1>1, <2>1, EventThrowsKeeps DEF Refused
  <2> QED  BY <1>1, <2>2 DEF Refused, ReviewInv, unionVars
<1> QED  BY <1>1, ReadEnds, StepKeeps, ReviewTxKeeps

LEMMA ButtonKeeps ==
  ASSUME TypeOK, LoopInv, ReviewInv, ScreenInv, ReplyInv, Button
  PROVE  LoopInv' /\ ReviewInv' /\ ScreenInv' /\ ReplyInv'
<1> DEFINE OK == LoopInv' /\ ReviewInv' /\ ScreenInv' /\ ReplyInv'
<1> SUFFICES ASSUME ~Read PROVE OK  BY ReadKeeps
<1>a. UNCHANGED unionVars /\ ~Reviewing' => ReviewInv'
  BY DEF unionVars, ReviewInv
<1>b. SW_OK \in Word /\ SW_USER_REJECTED \in Word /\ SW_USER_REJECTED # SW_OK
  BY DEF Word, SW_OK, SW_USER_REJECTED
<1>c. "pubkey" # NoCmd
  BY DEF NoCmd
<1>1. CASE AddressOk
  <2>1. ASSUME ui' = [ui EXCEPT !.screen = "compare"]  PROVE ScreenInv'
    <3>1. ui'.flow = "address"
      BY <1>1, <2>1 DEF AddressOk, Pressed, TypeOK
    <3> QED  BY <3>1, FlowNames DEF ScreenInv
  <2>2. LoopInv' /\ ScreenInv' /\ ReplyInv' /\ ~Reviewing'
    BY <1>1, <1>b, <2>1, ReplyAndShowKeeps DEF AddressOk, Pressed
  <2> QED  BY <1>1, <1>a, <2>2 DEF AddressOk
<1>2. CASE SignOk
  <2>1. pending # "pubkey"
    BY <1>2, <1>c, OutstandingFlow DEF SignOk, Pressed
  <2>2. LoopInv' /\ ScreenInv' /\ ReplyInv' /\ ~Reviewing'
    BY <1>2, <1>b, <2>1, IdleScreen, ReplyAndShowKeeps DEF SignOk, Pressed
  <2> QED  BY <1>2, <1>a, <2>2 DEF SignOk
<1>3. CASE Reject
  <2>1. LoopInv' /\ ScreenInv' /\ ReplyInv' /\ ~Reviewing'
    BY <1>3, <1>b, IdleScreen, ReplyAndShowKeeps DEF Reject, Pressed
  <2> QED  BY <1>3, <1>a, <2>1 DEF Reject
<1>4. CASE DeriveFault
  <2>1. PICK e \in SyscallFaults : EventThrows(e)
    BY <1>4 DEF DeriveFault
  <2>2. e \in 1..15 /\ on = TRUE
    BY <1>4, FirmwareAssumption DEF DeriveFault, Pressed, Waiting, TypeOK, CoreTypeOK
  <2>3. LoopInv' /\ ScreenInv' /\ ReplyInv' /\ ~Reviewing'
    BY <1>4, <2>1, <2>2, EventThrowsKeeps DEF DeriveFault
  <2> QED  BY <1>4, <1>a, <2>3 DEF DeriveFault
<1>5. CASE Compared
  <2>1. /\ UNCHANGED <<on, pending, staged, asynch, apdu, reply>> /\ UNCHANGED unionVars
        /\ ui' = Idle /\ Waiting /\ ui.screen = "compare"
    BY <1>5 DEF Compared, Pressed
  <2>2. pending = NoCmd
    BY <2>1, OutstandingFlow
  <2>3. LoopInv' /\ ~Reviewing'
    BY <2>1, <2>2, CommandNames DEF LoopInv, CommandIsServed, Reviewing
  <2>4. ReplyInv'
    BY <2>1, SMTT(30) DEF ReplyInv, AddressIsDelivered, StatusWordsAreValid
  <2> QED  BY <1>a, <2>1, <2>3, <2>4, IdleScreen
<1>6. CASE Seek
  <2>1. /\ UNCHANGED <<on, pending, staged, asynch, apdu, reply, ui>>
        /\ Waiting /\ ui.screen = "compare"
    BY <1>6 DEF Seek, Pressed
  <2>2. pending = NoCmd
    BY <2>1, OutstandingFlow
  <2>3. LoopInv' /\ ~Reviewing'
    BY <2>1, <2>2, CommandNames DEF LoopInv, CommandIsServed, Reviewing
  <2>4. ReplyInv'
    BY <2>1, SMTT(30) DEF ReplyInv, AddressIsDelivered, StatusWordsAreValid
  <2>5. unbroken' => buf' = sent'
    BY <1>6 DEF Seek, ReviewInv
  <2>6. ReviewInv'
    BY <2>3, <2>5 DEF ReviewInv
  <2> QED  BY <2>1, <2>3, <2>4, <2>6, SameScreen
<1> QED
  <2> HIDE DEF OK
  <2> QED  BY <1>1, <1>2, <1>3, <1>4, <1>5, <1>6 DEF Button, Decide

LEMMA SendStagedKeeps ==
  ASSUME TypeOK, LoopInv, ReviewInv, ScreenInv, ReplyInv, SendStaged
  PROVE  LoopInv' /\ ReviewInv' /\ ScreenInv' /\ ReplyInv'
<1>0. /\ on /\ staged # NoWord /\ asynch = FALSE
      /\ UNCHANGED <<on, asynch, apdu, ui>> /\ UNCHANGED unionVars
  BY DEF SendStaged, LoopInv, TypeOK, CoreTypeOK
<1>1. CASE pending = NoCmd
  <2>1. /\ UNCHANGED <<pending, reply>> /\ staged' = StatusWord(INVALID_STATE)
        /\ INVALID_STATE \in Thrown /\ INVALID_STATE # SW_OK
    BY <1>0, <1>1 DEF SendStaged, Thrown, INVALID_STATE, SW_OK
  <2>2. staged' # NoWord /\ staged' # SW_OK
    BY <2>1, StatusWordType, SuccessWord
  <2>3. LoopInv'
    BY <1>0, <1>1, <2>1, <2>2 DEF LoopInv, CommandIsServed
  <2>4. ReplyInv'
    BY <1>0, <2>1, <2>2 DEF ReplyInv, AddressIsDelivered, StatusWordsAreValid
  <2> QED  BY <1>0, <2>2, <2>3, <2>4, SameScreen DEF ReviewInv, Reviewing, unionVars
<1>2. CASE pending # NoCmd
  <2>1. /\ Answer(pending, staged, NoData) /\ staged' = NoWord
        /\ pending \in Ins /\ staged \in Word
    BY <1>0, <1>2 DEF SendStaged, TypeOK, CoreTypeOK, Word
  <2>2. pending = "pubkey" => staged # SW_OK
    BY CommandNames DEF ReplyInv
  <2>3. LoopInv' /\ ScreenInv' /\ ReplyInv' /\ ~Reviewing'
    BY <1>0, <2>1, <2>2, SameScreen, AnswerKeeps
  <2> QED  BY <1>0, <2>3 DEF ReviewInv, unionVars
<1> QED  BY <1>1, <1>2

LEMMA RestartKeeps ==
  ASSUME TypeOK, LoopInv, ReviewInv, ScreenInv, ReplyInv,
         Reset(Idle) \/ Quit(Idle) \/ Start(Idle)
  PROVE  LoopInv' /\ ReviewInv' /\ ScreenInv' /\ ReplyInv'
<1>1. CASE Reset(Idle) \/ Start(Idle)
  <2>1. /\ pending' = NoCmd /\ staged' = NoWord /\ reply' = NoReply /\ ui' = Idle
        /\ (unbroken' => buf' = sent')
    BY <1>1 DEF Reset, Start, ReviewInv, unionVars
  <2>2. LoopInv'
    BY <2>1 DEF LoopInv, CommandIsServed
  <2>3. ReplyInv'
    BY <2>1 DEF ReplyInv, AddressIsDelivered, StatusWordsAreValid, NoReply, NoCmd,
                NoWord, SW_OK
  <2>4. ~Reviewing'
    BY <2>1, CommandNames DEF Reviewing
  <2> QED  BY <2>1, <2>2, <2>3, <2>4, IdleScreen DEF ReviewInv
<1>2. CASE Quit(Idle)
  <2>1. /\ on' = FALSE /\ pending' = NoCmd /\ staged' = NoWord
        /\ UNCHANGED <<apdu, ui, reply>> /\ UNCHANGED unionVars
    BY <1>2 DEF Quit, Waiting
  <2>2. LoopInv'
    BY <2>1 DEF LoopInv, CommandIsServed
  <2>3. ReplyInv'
    BY <2>1 DEF ReplyInv, AddressIsDelivered, StatusWordsAreValid, NoWord, SW_OK
  <2> QED  BY <2>1, <2>2, <2>3, SameScreen DEF ReviewInv, Reviewing, unionVars
<1> QED  BY <1>1, <1>2

LEMMA IndInvInit == Init => IndInv
<1> SUFFICES ASSUME Init PROVE IndInv  OBVIOUS
<1>1. TypeOK
  BY TypeInit
<1>2. LoopInv
  BY DEF Init, CoreInit, LoopInv, CommandIsServed
<1>3. ReviewInv
  BY CommandNames DEF Init, CoreInit, ReviewInv, Reviewing
<1>4. ScreenInv
  BY IdleType, FlowNames DEF Init, CoreInit, ScreenInv
<1>5. ReplyInv
  BY DEF Init, CoreInit, ReplyInv, AddressIsDelivered, StatusWordsAreValid, NoReply,
         NoCmd, NoWord, SW_OK
<1> QED  BY <1>1, <1>2, <1>3, <1>4, <1>5 DEF IndInv

LEMMA IndInvNext == IndInv /\ [Next]_vars => IndInv'
<1> SUFFICES ASSUME IndInv, [Next]_vars PROVE IndInv'  OBVIOUS
<1>0. TypeOK /\ LoopInv /\ ReviewInv /\ ScreenInv /\ ReplyInv
  BY DEF IndInv
<1>1. TypeOK'
  BY <1>0, TypeNext
<1>2. LoopInv' /\ ReviewInv' /\ ScreenInv' /\ ReplyInv'
  <2>1. CASE Next
    BY <1>0, <2>1, CommandKeeps, ButtonKeeps, SendStagedKeeps, RestartKeeps DEF Next
  <2>2. CASE UNCHANGED vars
    BY <1>0, <2>2, SameScreen, SMTT(30)
       DEF vars, LoopInv, CommandIsServed, ReviewInv, Reviewing, Unparsed, ReplyInv,
           AddressIsDelivered, StatusWordsAreValid
  <2> QED  BY <2>1, <2>2
<1> QED  BY <1>1, <1>2 DEF IndInv

\* The invariant that the results below rest on holds in every reachable
\* state: the loop, the review, the order of the screens and the last reply
\* fit together.
THEOREM Invariance == Spec => []IndInv
  BY IndInvInit, IndInvNext, PTL DEF Spec

\* No command is forgotten: while one is outstanding its status word is
\* staged, or the screen belongs to the flow that answers it.
THEOREM CommandServed == Spec => []CommandIsServed
<1>1. IndInv => CommandIsServed
  BY DEF IndInv, LoopInv
<1> QED  BY <1>1, Invariance, PTL

\* A reply of success to getPublicKey carries the address.
THEOREM AddressDelivered == Spec => []AddressIsDelivered
<1>1. IndInv => AddressIsDelivered
  BY DEF IndInv, ReplyInv
<1> QED  BY <1>1, Invariance, PTL

\* Every reply carries 0x9000 or a status word that starts with 6.
THEOREM StatusWordsValid == Spec => []StatusWordsAreValid
<1>1. IndInv => StatusWordsAreValid
  BY DEF IndInv, ReplyInv
<1> QED  BY <1>1, Invariance, PTL

(***************************************************************************)
(* Signatures                                                              *)
(***************************************************************************)
\* Only the screen that asks for the signature sends one.
LEMMA SignatureFromApproval ==
  ASSUME IndInv, [Next]_vars, SignatureSent
  PROVE  /\ ui.screen = "sign" /\ ui.flow \in SignFlows /\ Reviewing
         /\ pending = Server(ui.flow) /\ reply'.data.bytes = buf /\ reply'.to = pending
<1>0. LoopInv /\ TypeOK
  BY DEF IndInv
<1>a. NoReply.data.kind # "signature" /\ NoData.kind # "signature" /\ Address.kind # "signature"
  BY DEF NoReply, NoData, Address
<1>b. reply' # reply /\ reply'.data.kind = "signature"
  BY DEF SignatureSent
<1>1. ~UNCHANGED vars
  BY <1>b DEF vars
<1>2. ~Command
  <2>1. \A ins, e : ~CommandThrows(ins, e) /\ ~CommandWaits(ins)
    BY <1>a, <1>b DEF CommandThrows, CommandWaits
  <2>2. \A ins, data : data \in {NoData, Address} => ~AnsweredAtOnce(ins, data)
    BY <1>a, <1>b DEF AnsweredAtOnce, Answer
  <2>3. ~ScreenlessCommand
    BY <2>1, <2>2, ScreenlessEnds
  <2>4. ~GetPublicKeyDisplay
    BY <2>1 DEF GetPublicKeyDisplay
  <2>5. \A first, data : ~FinishTx(first, data)
    BY <2>1 DEF FinishTx
  <2>6. \A first, data, result : ~FinishStake(first, data, result)
    BY <2>1 DEF FinishStake
  <2> QED  BY <2>3, <2>4, <2>5, <2>6 DEF Command, ScreenlessCommand
<1>3. ~SendStaged
  BY <1>a, <1>b DEF SendStaged, Answer
<1>4. ~(Reset(Idle) \/ Quit(Idle) \/ Start(Idle))
  BY <1>a, <1>b DEF Reset, Quit, Start
<1>5. ~Read
  BY <1>b, ReadEnds DEF ReviewTx, Step, Refused, EventThrows
<1>6. ~DeriveFault /\ ~Seek /\ ~Compared
  BY <1>b DEF DeriveFault, Seek, Compared, EventThrows
<1>7. ~Reject
  BY <1>a, <1>b DEF Reject, ReplyAndShow, Answer, EventThrows
<1>8. ~AddressOk
  BY <1>a, <1>b DEF AddressOk, ReplyAndShow, Answer, EventThrows
<1>9. SignOk
  BY <1>1, <1>2, <1>3, <1>4, <1>5, <1>6, <1>7, <1>8 DEF Next, Button, Decide
<1>10. pending # NoCmd
  BY <1>9, <1>b DEF SignOk, ReplyAndShow, EventThrows
<1>11. Answer(pending, SW_OK, Signature(buf)) /\ ui.screen = "sign" /\ Waiting
  BY <1>9, <1>10 DEF SignOk, ReplyAndShow, Pressed
<1>12. ui.flow \in Flows /\ Server(ui.flow) = pending /\ pending # "pubkey" /\ Reviewing
  BY <1>0, <1>10, <1>11, OutstandingFlow
<1>13. ui.flow \in SignFlows
  BY <1>12, ServerValues, FlowNames
<1> QED  BY <1>11, <1>12, <1>13 DEF Answer, Signature

\* What is signed is what the screens were made from, although the parse
\* comes after the upload and a screen to compare may write into an upload;
\* and of an undisturbed transfer it is what was uploaded, read from the
\* start: for every transfer, every length and every order of the commands
\* and buttons, and also when system calls raise exceptions or a number is
\* refused.
THEOREM ReviewedIsSigned == Spec => SignedIsReviewed
<1>1. IndInv /\ [Next]_vars =>
        [SignatureSent =>
           /\ reply'.data.bytes = ui.of
           /\ unbroken => ui.of = sent /\ ui.whole]_vars
  <2> SUFFICES ASSUME IndInv, [Next]_vars, SignatureSent
               PROVE  /\ reply'.data.bytes = ui.of
                      /\ unbroken => ui.of = sent /\ ui.whole
    OBVIOUS
  <2>1. ~Unparsed /\ Reviewing /\ reply'.data.bytes = buf
    BY SignatureFromApproval DEF Unparsed
  <2> QED  BY <2>1 DEF IndInv, ReviewInv
<1> QED  BY <1>1, Invariance, PTL DEF Spec, SignedIsReviewed

\* No way through the screens leads to a signature past a text that the
\* handlers make of the transaction.
THEOREM ContentSeen == Spec => ContentIsSeenBeforeSigning
<1>1. IndInv /\ [Next]_vars => [SignatureSent => Content(ui.flow) \subseteq ui.seen]_vars
  <2> SUFFICES ASSUME IndInv, [Next]_vars, SignatureSent
               PROVE  Content(ui.flow) \subseteq ui.seen
    OBVIOUS
  <2>1. ui.flow \in SignFlows /\ ui.screen = "sign"
    BY SignatureFromApproval
  <2>2. PICK k \in 1..Len(Way(ui.flow)) : Reached(k)
    BY <2>1 DEF IndInv, ScreenInv
  <2> QED  BY <2>1, <2>2, SignIsLast
<1> QED  BY <1>1, Invariance, PTL DEF Spec, ContentIsSeenBeforeSigning

\* A staking transaction is signed only if its parse reached the end.
THEOREM StakingComplete == Spec => StakingIsCompleteWhenSigned
<1>1. IndInv /\ [Next]_vars => [SignatureSent /\ reply'.to = "stake" => ui.complete]_vars
  <2> SUFFICES ASSUME IndInv, [Next]_vars, SignatureSent, reply'.to = "stake"
               PROVE  ui.complete
    OBVIOUS
  <2>1. ui.flow \in Flows /\ Server(ui.flow) = "stake"
    BY SignatureFromApproval, FlowNames
  <2>2. ui.flow \in StakeFlows
    BY <2>1, ServerValues
  <2> QED  BY <2>2 DEF IndInv, ScreenInv
<1> QED  BY <1>1, Invariance, PTL DEF Spec, StakingIsCompleteWhenSigned

(***************************************************************************)
(* The build implements SigningService, with buf[] as the document.        *)
(***************************************************************************)
LEMMA ServiceData ==
  NoData = Service!Nothing /\ Address = Service!PublicAddress /\ NoReply.data = NoData
  BY DEF NoData, Address, NoReply, Service!Nothing, Service!PublicAddress

\* A command that will be answered by its status word or by a screen that
\* shows no document is taken by the service.
LEMMA Taken ==
  ASSUME pending = NoCmd, pending' \in Ins, reply' = NoReply, ~Reviewing'
  PROVE  Service!Take
  BY ServiceData, CommandNames DEF Service!Take, Reviewing

LEMMA ThrownIsTaken ==
  ASSUME Listening, NEW ins \in Ins, NEW e \in Thrown, CommandThrows(ins, e)
  PROVE  Service!Take
<1>1. pending = NoCmd /\ pending' \in Ins /\ reply' = NoReply /\ ~Reviewing'
  BY StatusWordType DEF Listening, CommandThrows, Reviewing
<1> QED  BY <1>1, Taken

\* An answer without a signature is served, in or outside of a review.
LEMMA Served ==
  ASSUME ~Reviewing, NEW ins, NEW sw, NEW data \in {NoData, Address},
         Answer(ins, sw, data)
  PROVE  Service!Serve
<1>1. pending' = NoCmd /\ ~Reviewing'
  BY CommandNames DEF Answer, Reviewing
<1>2. reply'.data \in {Service!Nothing, Service!PublicAddress}
  BY ServiceData DEF Answer
<1> QED  BY <1>1, <1>2 DEF Service!Serve

LEMMA Presented ==
  ASSUME Listening, NEW ins \in SignIns, on' = TRUE, CommandWaits(ins), buf' \in Contents
  PROVE  Service!Present
<1>1. pending = NoCmd /\ ~Reviewing
  BY CommandNames DEF Listening, Reviewing
<1>2. Reviewing' /\ pending' # NoCmd /\ reply' = NoReply
  BY CommandNames DEF CommandWaits, Reviewing
<1> QED  BY <1>1, <1>2, ServiceData DEF Service!Present, Contents

\* A step that leaves the outstanding command, the document of its review and
\* the last reply alone is no step of the service.
LEMMA Stutters ==
  ASSUME UNCHANGED <<pending, reply>>, Reviewing' <=> Reviewing, Reviewing => buf' = buf
  PROVE  UNCHANGED Service!vars
  BY DEF Service!vars

LEMMA UnaskedStutters ==
  ASSUME UNCHANGED <<pending, reply>>, pending = NoCmd
  PROVE  UNCHANGED Service!vars
<1>1. ~Reviewing /\ ~Reviewing'
  BY CommandNames DEF Reviewing
<1> QED  BY <1>1, Stutters

\* A button handler that throws ends the review, if there is one.
LEMMA ThrownFails ==
  ASSUME NEW e \in Thrown, EventThrows(e), UNCHANGED buf
  PROVE  Service!Fail \/ UNCHANGED Service!vars
<1>1. UNCHANGED <<pending, reply>> /\ ~Reviewing'
  BY StatusWordType DEF EventThrows, Reviewing
<1>2. CASE ~Reviewing
  BY <1>1, <1>2, Stutters
<1>3. CASE Reviewing
  <2>1. pending # NoCmd
    BY <1>3, CommandNames DEF Reviewing
  <2> QED  BY <1>1, <1>3, <2>1 DEF Service!Fail
<1> QED  BY <1>2, <1>3

LEMMA CommandImplements ==
  ASSUME IndInv, IndInv', Command
  PROVE  Service!Next
<1> DEFINE OK == Service!Next
<1> SUFFICES OK  OBVIOUS
<1>a. Service!Take \/ Service!Serve \/ Service!Present => OK
  BY DEF Service!Next
<1>b. Listening => on = TRUE /\ ~Reviewing
  BY CommandNames DEF Listening, Waiting, Reviewing, IndInv, TypeOK, CoreTypeOK
<1>c. buf' \in Contents /\ "tx" \in SignIns /\ "stake" \in SignIns /\ "pubkey" \in Ins
  BY DEF IndInv, TypeOK, CoreTypeOK, Contents, SignIns, Ins
<1>1. CASE GetPublicKeyDisplay
  <2>1. pending = NoCmd /\ pending' = "pubkey" /\ reply' = NoReply /\ ~Reviewing'
    BY <1>1, CommandNames DEF GetPublicKeyDisplay, CommandWaits, Listening, Reviewing
  <2> QED  BY <1>a, <1>c, <2>1, Taken
<1>2. ASSUME NEW first \in BOOLEAN, NEW data \in Payloads, FinishTx(first, data)
      PROVE  OK
  BY <1>2, <1>a, <1>b, <1>c, Presented DEF FinishTx
<1>3. ASSUME NEW first \in BOOLEAN, NEW data \in Payloads, NEW result \in StakeResults,
             FinishStake(first, data, result)
      PROVE  OK
  <2>1. CASE result \notin StakeFlows
    <3>1. Listening /\ CommandThrows("stake", INVALID_PARAMETER)
      BY <1>3, <2>1 DEF FinishStake
    <3>2. INVALID_PARAMETER \in Thrown /\ "stake" \in Ins
      BY <1>c, CommandNames DEF Thrown, INVALID_PARAMETER
    <3> QED  BY <1>a, <3>1, <3>2, ThrownIsTaken
  <2>2. CASE result \in StakeFlows
    BY <1>3, <1>a, <1>b, <1>c, <2>2, Presented DEF FinishStake
  <2> QED  BY <2>1, <2>2
<1>4. CASE ScreenlessCommand
  BY <1>4, <1>a, <1>b, ScreenlessEnds, ThrownIsTaken, Served DEF AnsweredAtOnce
<1> QED
  <2> HIDE DEF OK
  <2> QED  BY <1>1, <1>2, <1>3, <1>4 DEF Command, ScreenlessCommand

LEMMA ButtonImplements ==
  ASSUME IndInv, IndInv', Button
  PROVE  Service!Next \/ UNCHANGED Service!vars
<1> DEFINE OK == Service!Next \/ UNCHANGED Service!vars
<1> SUFFICES OK  OBVIOUS
<1>0. TypeOK /\ LoopInv
  BY DEF IndInv
<1>a. \/ Service!Fail \/ Service!Serve \/ Service!Sign \/ Service!Decline
      \/ UNCHANGED Service!vars
      => OK
  BY DEF Service!Next
<1>b. {EXCEPTION_OVERFLOW, INVALID_STATE} \subseteq Thrown /\ SyscallFaults \subseteq Thrown
  BY FirmwareAssumption DEF Thrown, EXCEPTION_OVERFLOW, INVALID_STATE
<1>c. ASSUME NEW sw, NEW data, NEW next, ReplyAndShow(sw, data, next), pending = NoCmd
      PROVE  OK
  BY <1>a, <1>c, UnaskedStutters DEF ReplyAndShow, EventThrows
<1>1. CASE Read
  <2>1. ASSUME NEW complete, ReviewTx(complete)  PROVE OK
    BY <1>a, <2>1, Stutters DEF ReviewTx, Reviewing
  <2>2. ASSUME NEW from, NEW to, Step(from, to)  PROVE OK
    BY <1>a, <2>2, Stutters DEF Step, Reviewing, unionVars
  <2>3. ASSUME NEW from, Refused(from)  PROVE OK
    BY <1>a, <1>b, <2>3, ThrownFails DEF Refused, unionVars
  <2> QED
    <3> HIDE DEF OK
    <3> QED  BY <1>1, <2>1, <2>2, <2>3, ReadEnds
<1>2. CASE AddressOk
  <2>1. CASE pending = NoCmd
    BY <1>2, <1>c, <2>1 DEF AddressOk
  <2>2. CASE pending # NoCmd
    <3>1. ~Reviewing /\ Answer(pending, SW_OK, Address)
      BY <1>0, <1>2, <2>2, OutstandingFlow DEF AddressOk, Pressed, ReplyAndShow
    <3> QED  BY <1>a, <3>1, Served
  <2> QED  BY <2>1, <2>2
<1>3. CASE SignOk
  <2>1. CASE pending = NoCmd
    BY <1>3, <1>c, <2>1 DEF SignOk
  <2>2. CASE pending # NoCmd
    <3>1. Reviewing /\ Answer(pending, SW_OK, Signature(buf))
      BY <1>0, <1>3, <2>2, OutstandingFlow DEF SignOk, Pressed, ReplyAndShow
    <3>2. reply'.data = Service!SignatureOf(buf)
      BY <3>1 DEF Answer, Signature, Service!SignatureOf
    <3>3. pending' = NoCmd /\ ~Reviewing'
      BY <3>1, CommandNames DEF Answer, Reviewing
    <3>4. pending # NoCmd
      BY <2>2
    <3> QED  BY <1>a, <3>1, <3>2, <3>3, <3>4 DEF Service!Sign
  <2> QED  BY <2>1, <2>2
<1>4. CASE Reject
  <2>1. CASE pending = NoCmd
    BY <1>4, <1>c, <2>1 DEF Reject
  <2>2. CASE pending # NoCmd
    <3>1. Answer(pending, SW_USER_REJECTED, NoData)
      BY <1>4, <2>2 DEF Reject, ReplyAndShow
    <3>2. CASE ~Reviewing
      BY <1>a, <3>1, <3>2, Served
    <3>3. CASE Reviewing
      <4>1. pending' = NoCmd /\ ~Reviewing' /\ reply'.data = Service!Nothing
        BY <3>1, ServiceData, CommandNames DEF Answer, Reviewing
      <4> QED  BY <1>a, <2>2, <3>3, <4>1 DEF Service!Decline
    <3> QED  BY <3>2, <3>3
  <2> QED  BY <2>1, <2>2
<1>5. CASE DeriveFault
  BY <1>a, <1>b, <1>5, ThrownFails DEF DeriveFault, unionVars
<1>6. CASE Compared
  BY <1>a, <1>6, Stutters DEF Compared, Reviewing, unionVars
<1>7. CASE Seek
  <2>1. UNCHANGED <<on, pending, staged, reply>> /\ Waiting /\ ui.screen = "compare"
    BY <1>7 DEF Seek, Pressed
  <2>2. pending = NoCmd
    BY <1>0, <2>1, OutstandingFlow
  <2> QED  BY <1>a, <2>1, <2>2, UnaskedStutters
<1> QED
  <2> HIDE DEF OK
  <2> QED  BY <1>1, <1>2, <1>3, <1>4, <1>5, <1>6, <1>7 DEF Button, Decide

LEMMA SendStagedImplements ==
  ASSUME IndInv, SendStaged
  PROVE  Service!Next \/ UNCHANGED Service!vars
<1>1. asynch = FALSE /\ staged # NoWord /\ ~Reviewing
  BY DEF SendStaged, IndInv, LoopInv, TypeOK, CoreTypeOK, Reviewing
<1>2. CASE pending = NoCmd
  BY <1>1, <1>2, UnaskedStutters DEF SendStaged
<1>3. CASE pending # NoCmd
  <2>1. Answer(pending, staged, NoData)
    BY <1>1, <1>3 DEF SendStaged
  <2> QED  BY <1>1, <2>1, Served DEF Service!Next
<1> QED  BY <1>2, <1>3

LEMMA RestartImplements ==
  ASSUME IndInv, Reset(Idle) \/ Quit(Idle) \/ Start(Idle)
  PROVE  Service!Next \/ UNCHANGED Service!vars
<1>1. CASE Reset(Idle) \/ Start(Idle)
  <2>1. pending' = NoCmd /\ ~Reviewing' /\ reply'.data = Service!Nothing
    BY <1>1, ServiceData, CommandNames DEF Reset, Start, Reviewing
  <2> QED  BY <2>1 DEF Service!Next, Service!Abandon
<1>2. CASE Quit(Idle)
  <2>1. pending = NoCmd
    BY <1>2, IdleType, OutstandingFlow DEF Quit, IndInv
  <2>2. UNCHANGED <<pending, reply>>
    BY <1>2, <2>1 DEF Quit
  <2> QED  BY <2>1, <2>2, UnaskedStutters
<1> QED  BY <1>1, <1>2

\* The Nano S build gives its host nothing the abstract service would not
\* give: every step of the command loop, of a handler or of a button is a
\* step of SigningService or changes nothing it speaks of.
THEOREM Refinement == Spec => ImplementsService
<1>1. Init => Service!Init
  BY ServiceData, CommandNames DEF Init, CoreInit, Service!Init, Reviewing
<1>2. IndInv /\ IndInv' /\ [Next]_vars => [Service!Next]_(Service!vars)
  <2> SUFFICES ASSUME IndInv, IndInv', [Next]_vars
               PROVE  Service!Next \/ UNCHANGED Service!vars
    OBVIOUS
  <2>1. CASE Next
    BY <2>1, CommandImplements, ButtonImplements, SendStagedImplements,
       RestartImplements DEF Next
  <2>2. CASE UNCHANGED vars
    BY <2>2, Stutters DEF vars, Reviewing
  <2> QED  BY <2>1, <2>2
<1> QED  BY <1>1, <1>2, Invariance, PTL DEF Spec, ImplementsService, Service!Spec
=============================================================================
