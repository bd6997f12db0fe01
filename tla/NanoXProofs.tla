---------------------------- MODULE NanoXProofs ----------------------------
(***************************************************************************)
(* Theorems about the Nano X build for every Byte, CmdBufferSize,          *)
(* PkOverlay and SyscallFaults that FirmwareAssumption admits: the types,  *)
(* the inductive invariant IndInv, and what follows from it: no command is *)
(* forgotten, what is signed is what was reviewed, and SigningService is   *)
(* implemented.                                                            *)
(***************************************************************************)
EXTENDS NanoX, FirmwareProofs

(***************************************************************************)
(* Lemmas on the operators of the model                                    *)
(***************************************************************************)
\* Every flow has at least four pages, and each has a name.
LEMMA PagesType ==
  ASSUME NEW flow \in Flows
  PROVE  /\ Len(Pages(flow)) \in Nat /\ Len(Pages(flow)) >= 4
         /\ \A i \in 1..Len(Pages(flow)) : Pages(flow)[i] \in PageNames
<1>1. CASE flow = "address"
  <2>1. Pages(flow) = Address4  BY <1>1 DEF Pages
  <2>2. Len(Address4) = 4  BY DEF Address4
  <2>3. \A i \in 1..4 : Address4[i] \in PageNames  BY DEF PageNames, Address4
  <2> QED  BY <2>1, <2>2, <2>3
<1>2. CASE flow = "tx"
  <2>1. Pages(flow) = Tx6  BY <1>2 DEF Pages
  <2>2. Len(Tx6) = 6  BY DEF Tx6
  <2>3. \A i \in 1..6 : Tx6[i] \in PageNames  BY DEF PageNames, Tx6
  <2> QED  BY <2>1, <2>2, <2>3
<1>3. CASE flow = "create"
  <2>1. Pages(flow) = Create10  BY <1>3 DEF Pages
  <2>2. Len(Create10) = 10  BY DEF Create10
  <2>3. \A i \in 1..10 : Create10[i] \in PageNames  BY DEF PageNames, Create10
  <2> QED  BY <2>1, <2>2, <2>3
<1>4. CASE flow = "edit"
  <2>1. Pages(flow) = Edit10  BY <1>4 DEF Pages
  <2>2. Len(Edit10) = 10  BY DEF Edit10
  <2>3. \A i \in 1..10 : Edit10[i] \in PageNames  BY DEF PageNames, Edit10
  <2> QED  BY <2>1, <2>2, <2>3
<1>5. CASE flow = "delegate"
  <2>1. Pages(flow) = Delegate7  BY <1>5 DEF Pages
  <2>2. Len(Delegate7) = 7  BY DEF Delegate7
  <2>3. \A i \in 1..7 : Delegate7[i] \in PageNames  BY DEF PageNames, Delegate7
  <2> QED  BY <2>1, <2>2, <2>3
<1>6. CASE flow = "collect"
  <2>1. Pages(flow) = Collect5  BY <1>6 DEF Pages
  <2>2. Len(Collect5) = 5  BY DEF Collect5
  <2>3. \A i \in 1..5 : Collect5[i] \in PageNames  BY DEF PageNames, Collect5
  <2> QED  BY <2>1, <2>2, <2>3
<1> QED
  BY <1>1, <1>2, <1>3, <1>4, <1>5, <1>6 DEF Flows, SignFlows, StakeFlows

(***************************************************************************)
(* Type correctness, by the parts of the state an action changes           *)
(***************************************************************************)
UiTypeOK ==
  /\ ui \in UiType
  /\ ui.flow \in Flows => ui.step \in 1..Len(Pages(ui.flow))

LEMMA TypeParts ==
  /\ TypeOK <=> CoreOK /\ UiTypeOK
  /\ TypeOK' <=> CoreOK' /\ UiTypeOK'
<1>1. TypeOK <=> CoreOK /\ UiTypeOK
  BY CoreParts DEF TypeOK, UiTypeOK
<1>2. TypeOK' <=> CoreOK' /\ UiTypeOK'
  BY CoreParts DEF TypeOK, UiTypeOK
<1> QED  BY <1>1, <1>2

LEMMA IdleType == Idle \in UiType /\ Idle.flow \notin Flows
  BY DEF Idle, UiType, Flows, SignFlows, StakeFlows

LEMMA OpenedType ==
  ASSUME NEW flow \in Flows, NEW of \in Contents,
         NEW whole \in BOOLEAN, NEW complete \in BOOLEAN,
         ui' = Opened(flow, of, whole, complete)
  PROVE  UiTypeOK'
<1>1. 1 \in 1..Len(Pages(flow)) /\ Pages(flow)[1] \in PageNames
  BY PagesType
<1>2. ui' \in UiType
  BY <1>1 DEF Opened, UiType, Contents
<1>3. ui'.flow = flow /\ ui'.step = 1
  BY DEF Opened
<1> QED  BY <1>1, <1>2, <1>3 DEF UiTypeOK

LEMMA UnchangedTypes ==
  /\ UnionType /\ UNCHANGED unionVars => UnionType'
  /\ UiTypeOK /\ UNCHANGED ui => UiTypeOK'
  /\ LoopType /\ UNCHANGED <<pending, staged, asynch, apdu, reply>> => LoopType'
  BY UnchangedCore DEF UiTypeOK

LEMMA TurnType ==
  ASSUME UiTypeOK, ui.flow \in Flows, NEW step \in 1..Len(Pages(ui.flow)), Turn(step)
  PROVE  UiTypeOK'
<1>1. Pages(ui.flow)[step] \in PageNames /\ Len(Pages(ui.flow)) \in Nat
  BY PagesType
<1>2. ui \in UiType
  BY DEF UiTypeOK
<1>a. step \in Nat /\ ui.seen \cup {Pages(ui.flow)[step]} \in SUBSET PageNames
  BY <1>1, <1>2 DEF UiType
<1>3. ui' \in UiType
  BY <1>a, <1>2 DEF Turn, UiType
<1>4. ui'.flow = ui.flow /\ ui'.step = step
  BY <1>2 DEF Turn, UiType
<1> QED  BY <1>3, <1>4 DEF UiTypeOK

LEMMA ReplyAndIdleType ==
  ASSUME LoopType, UiTypeOK, apdu' \in {"address", "other"},
         NEW sw \in Word, NEW data \in
           [kind : {"none", "address", "signature"}, bytes : Contents],
         ReplyAndIdle(sw, data)
  PROVE  LoopType' /\ UiTypeOK'
<1>1. CASE pending = NoCmd
  <2>1. EventThrows(INVALID_STATE) /\ UNCHANGED ui
    BY <1>1 DEF ReplyAndIdle
  <2>2. INVALID_STATE \in Thrown
    BY DEF INVALID_STATE, Thrown
  <2> QED  BY <2>1, <2>2, EventThrowsType, UnchangedTypes
<1>2. CASE pending # NoCmd
  <2>1. Answer(pending, sw, data) /\ ui' = Idle /\ UNCHANGED <<staged, asynch>>
    BY <1>2 DEF ReplyAndIdle
  <2>2. sw \in Nat
    BY DEF Word, SW_OK
  <2>3. pending' \in Ins \cup {NoCmd} /\ reply' \in ReplyType
    BY <2>1, <2>2, AnswerType DEF LoopType
  <2> QED  BY <2>1, <2>3, IdleType DEF LoopType, UiTypeOK
<1> QED  BY <1>1, <1>2

(***************************************************************************)
(* Every step keeps the type invariant: one step of the proof per action.  *)
(***************************************************************************)
LEMMA CommandType ==
  ASSUME TypeOK, Command
  PROVE  TypeOK'
<1> DEFINE OK == on' \in BOOLEAN /\ LoopType' /\ UnionType' /\ UiTypeOK'
<1> SUFFICES OK  BY TypeParts DEF CoreOK
<1>a. CoreOK /\ UiTypeOK
  BY TypeParts
<1>0. on \in BOOLEAN /\ LoopType /\ UnionType /\ UiTypeOK
  BY <1>a DEF CoreOK
<1>1. CASE GetPublicKeyDisplay
  <2>1. "pubkey" \in Ins /\ "address" \in Flows /\ <<>> \in Contents
    BY DEF Ins, Flows, Contents
  <2>2. LoopType'
    BY <1>1, <2>1, CommandWaitsType DEF GetPublicKeyDisplay
  <2>3. UiTypeOK'
    BY <1>1, <2>1, OpenedType DEF GetPublicKeyDisplay
  <2> QED  BY <1>0, <1>1, <2>2, <2>3, MemsetType DEF GetPublicKeyDisplay
<1>2. ASSUME NEW first \in BOOLEAN, NEW data \in Payloads, NEW result \in TxResults,
             FinishTx(first, data, result)
      PROVE  OK
  <2>1. UnionType'
    BY <1>0, <1>2, StoreType DEF FinishTx
  <2>2. "tx" \in Ins /\ "tx" \in Flows /\ EXCEPTION_OVERFLOW \in Thrown
    BY DEF Ins, SignIns, Flows, SignFlows, Thrown, EXCEPTION_OVERFLOW
  <2>3. CASE result = "overflow"
    BY <1>0, <1>2, <2>1, <2>2, <2>3, CommandThrowsType, UnchangedTypes DEF FinishTx
  <2>4. CASE result # "overflow"
    <3>1. LoopType'
      BY <1>2, <2>2, <2>4, CommandWaitsType DEF FinishTx
    <3>2. UiTypeOK'
      BY <1>2, <2>1, <2>2, <2>4, OpenedType DEF FinishTx, UnionType
    <3> QED  BY <1>0, <1>2, <2>1, <3>1, <3>2 DEF FinishTx
  <2> QED  BY <2>3, <2>4
<1>3. ASSUME NEW first \in BOOLEAN, NEW data \in Payloads, NEW result \in StakeResults,
              FinishStake(first, data, result)
       PROVE  OK
  <2>1. UnionType'
    BY <1>0, <1>3, StoreType DEF FinishStake
  <2>2. "stake" \in Ins /\ EXCEPTION_OVERFLOW \in Thrown /\ INVALID_PARAMETER \in Thrown
    BY DEF Ins, SignIns, Thrown, EXCEPTION_OVERFLOW, INVALID_PARAMETER
  <2>3. CASE result \notin StakeFlows
    <3>1. PICK e \in Thrown : CommandThrows("stake", e)
      BY <1>3, <2>2, <2>3 DEF FinishStake
    <3> QED
      BY <1>0, <1>3, <2>1, <2>2, <2>3, <3>1, CommandThrowsType, UnchangedTypes
         DEF FinishStake
  <2>4. CASE result \in StakeFlows
    <3>0. result \in Flows
      BY <2>4 DEF Flows, SignFlows
    <3>1. LoopType'
      BY <1>3, <2>2, <2>4, CommandWaitsType DEF FinishStake
    <3>2. UiTypeOK'
      BY <1>3, <2>1, <2>4, <3>0, OpenedType DEF FinishStake, UnionType
    <3> QED  BY <1>0, <1>3, <2>1, <3>1, <3>2 DEF FinishStake
  <2> QED  BY <2>3, <2>4
<1>4. CASE ScreenlessCommand
  BY <1>a, <1>4, ScreenlessType, UnchangedTypes DEF CoreOK
<1> QED
  <2> HIDE DEF OK
  <2> QED  BY <1>1, <1>2, <1>3, <1>4 DEF Command, ScreenlessCommand

LEMMA ButtonType ==
  ASSUME TypeOK, Button
  PROVE  TypeOK'
<1> DEFINE OK == on' \in BOOLEAN /\ LoopType' /\ UnionType' /\ UiTypeOK'
<1> SUFFICES OK  BY TypeParts DEF CoreOK
<1>0. on \in BOOLEAN /\ LoopType /\ UnionType /\ UiTypeOK
  BY TypeParts DEF CoreOK
<1>a. ui.flow \in Flows =>
        ui.step \in 1..Len(Pages(ui.flow)) /\ Len(Pages(ui.flow)) \in Nat
  BY <1>0, PagesType DEF UiTypeOK
<1>1. CASE Right
  <2>1. ui.flow \in Flows /\ ui.step + 1 \in 1..Len(Pages(ui.flow)) /\ Turn(ui.step + 1)
    BY <1>1, <1>a DEF Right, InFlow
  <2> QED  BY <1>0, <1>1, <2>1, TurnType, UnchangedTypes DEF Right
<1>2. CASE Left
  <2>1. ui.flow \in Flows /\ ui.step - 1 \in 1..Len(Pages(ui.flow)) /\ Turn(ui.step - 1)
    BY <1>2, <1>a DEF Left, InFlow
  <2> QED  BY <1>0, <1>2, <2>1, TurnType, UnchangedTypes DEF Left
<1>3. CASE AddressOk
  <2>1. apdu' \in {"address", "other"}
    BY <1>0, <1>3 DEF AddressOk, ReplyAndIdle, EventThrows, LoopType
  <2>2. Payload \in [kind : {"none", "address", "signature"}, bytes : Contents]
    BY DataTypes DEF Payload
  <2>3. SW_OK \in Word
    BY DEF Word
  <2> QED
    BY <1>0, <1>3, <2>1, <2>2, <2>3, ReplyAndIdleType, UnchangedTypes DEF AddressOk
<1>4. CASE SignOk
  <2>1. apdu' \in {"address", "other"}
    BY <1>0, <1>4 DEF SignOk, ReplyAndIdle, EventThrows, LoopType
  <2>2. Signature(buf) \in [kind : {"none", "address", "signature"}, bytes : Contents]
    BY <1>0, DataTypes DEF UnionType
  <2>3. SW_OK \in Word
    BY DEF Word
  <2> QED
    BY <1>0, <1>4, <2>1, <2>2, <2>3, ReplyAndIdleType, UnchangedTypes DEF SignOk
<1>5. CASE SignFault
  <2>1. PICK e \in SyscallFaults : EventThrows(e)
    BY <1>5 DEF SignFault
  <2>2. e \in Thrown
    BY FirmwareAssumption DEF Thrown
  <2> QED  BY <1>0, <1>5, <2>1, <2>2, EventThrowsType, UnchangedTypes DEF SignFault
<1>6. CASE Cancel
  <2>1. apdu' \in {"address", "other"}
    BY <1>6 DEF Cancel
  <2>2. SW_USER_REJECTED \in Word
    BY DEF Word, SW_USER_REJECTED
  <2> QED
    BY <1>0, <1>6, <2>1, <2>2, DataTypes, ReplyAndIdleType, UnchangedTypes DEF Cancel
<1> QED
  <2> HIDE DEF OK
  <2> QED  BY <1>1, <1>2, <1>3, <1>4, <1>5, <1>6 DEF Button

LEMMA LoopTypeKept ==
  ASSUME TypeOK, SendStaged \/ Reset(Idle) \/ Quit(Idle) \/ Start(Idle)
  PROVE  TypeOK'
<1>1. CoreOK /\ UiTypeOK
  BY TypeParts
<1>2. CoreOK' /\ ui' \in {ui, Idle}
  BY <1>1, SendStagedCoreType, RestartCoreType
<1>3. CASE UNCHANGED ui
  BY <1>1, <1>2, <1>3, UnchangedTypes, TypeParts
<1>4. CASE ui' = Idle
  BY <1>2, <1>4, IdleType, TypeParts DEF UiTypeOK
<1> QED  BY <1>2, <1>3, <1>4

LEMMA TypeInit == Init => TypeOK
<1> SUFFICES ASSUME Init PROVE TypeOK  OBVIOUS
<1>1. CoreOK /\ ui = Idle
  BY CoreInitType DEF Init
<1> QED  BY <1>1, IdleType, TypeParts DEF UiTypeOK

LEMMA TypeNext ==
  ASSUME TypeOK, [Next]_vars
  PROVE  TypeOK'
<1>1. CASE Next
  BY <1>1, CommandType, ButtonType, LoopTypeKept DEF Next
<1>2. CASE UNCHANGED vars
  BY <1>2, TypeParts, UnchangedTypes DEF vars, unionVars, CoreOK
<1> QED  BY <1>1, <1>2

\* Whatever is uploaded, pressed, reset or raised, every variable keeps its
\* type: in particular buf[] never holds more than four packets, the limit
\* handleSignTx and handleSignStaking enforce, and the page on the screen
\* exists.
THEOREM TypeCorrect == Spec => []TypeOK
  BY TypeInit, TypeNext, PTL DEF Spec

(***************************************************************************)
(* The inductive invariant.  A handler ends in one of four ways: a command *)
(* handler throws, a command handler waits for the user, the outstanding   *)
(* command is answered, or a button handler throws.  One lemma per way     *)
(* shows what it keeps of the invariant; the step lemmas below only tell   *)
(* which way an action ends.                                               *)
(***************************************************************************)
LEMMA IdleFlow == Idle.flow \notin Flows /\ Idle.flow \notin StakeFlows
  BY DEF Idle, Flows, SignFlows, StakeFlows

LEMMA CommandThrowsKeeps ==
  ASSUME ScreenInv, on' = TRUE, UNCHANGED ui,
         NEW ins \in Ins, NEW e \in Thrown, CommandThrows(ins, e),
         e = SW_OK => ins \in SignIns
  PROVE  LoopInv' /\ ScreenInv' /\ ReplyInv' /\ ~Reviewing'
<1>1. staged' # NoWord /\ (staged' = SW_OK => ins \in SignIns)
  BY StatusWordType, SuccessWord DEF CommandThrows
<1>2. LoopInv'
  BY <1>1 DEF CommandThrows, LoopInv, CommandIsServed
<1>3. ScreenInv'
  BY DEF ScreenInv
<1>4. ReplyInv'
  BY <1>1, CommandNames
     DEF CommandThrows, ReplyInv, AddressIsDelivered, StatusWordsAreValid, NoReply,
         NoCmd
<1> QED  BY <1>1, <1>2, <1>3, <1>4 DEF Reviewing

LEMMA CommandWaitsKeeps ==
  ASSUME on' = TRUE, NEW flow \in Flows, NEW of, NEW whole, NEW complete,
         CommandWaits(Server(flow)), ui' = Opened(flow, of, whole, complete),
         flow = "address" => apdu' = "address",
         flow \in StakeFlows => complete
  PROVE  LoopInv' /\ ScreenInv' /\ ReplyInv'
<1>1. /\ ui'.flow = flow /\ ui'.step = 1 /\ ui'.complete = complete
      /\ ui'.seen = {Pages(flow)[1]}
  BY DEF Opened
<1>2. LoopInv'
  BY <1>1 DEF CommandWaits, LoopInv, CommandIsServed
<1>3. \A i \in 1..1 : Pages(flow)[i] \in ui'.seen
  <2>1. ASSUME NEW i \in 1..1  PROVE i = 1
    OBVIOUS
  <2> QED  BY <1>1, <2>1
<1>4. ScreenInv'
  BY <1>1, <1>3 DEF ScreenInv
<1>5. ReplyInv'
  BY ServerValues, CommandNames
     DEF CommandWaits, ReplyInv, AddressIsDelivered, StatusWordsAreValid, NoReply,
         NoWord, SW_OK
<1> QED  BY <1>2, <1>4, <1>5

LEMMA AnswerKeeps ==
  ASSUME ScreenInv, NEW ins \in Ins, NEW sw \in Word, NEW data,
         Answer(ins, sw, data), staged' = NoWord, ui' = ui \/ ui' = Idle,
         ins = "pubkey" /\ sw = SW_OK => data = Address
  PROVE  LoopInv' /\ ScreenInv' /\ ReplyInv' /\ ~Reviewing'
<1>1. LoopInv'
  BY DEF Answer, LoopInv, CommandIsServed
<1>2. ScreenInv'
  BY IdleFlow DEF ScreenInv
<1>3. ReplyInv'
  BY CommandNames
     DEF Answer, ReplyInv, AddressIsDelivered, StatusWordsAreValid, Word, NoCmd,
         Ins, NoWord, SW_OK
<1>4. ~Reviewing'
  BY CommandNames DEF Answer, Reviewing
<1> QED  BY <1>1, <1>2, <1>3, <1>4

LEMMA EventThrowsKeeps ==
  ASSUME on = TRUE, LoopInv, ScreenInv, ReplyInv, UNCHANGED <<on, ui>>,
         NEW e \in 1..15, EventThrows(e)
  PROVE  LoopInv' /\ ScreenInv' /\ ReplyInv' /\ ~Reviewing'
<1>0. e \in Thrown /\ e # SW_OK
  BY DEF Thrown, SW_OK
<1>1. staged' # NoWord /\ staged' # SW_OK /\ asynch' = FALSE
  BY <1>0, StatusWordType, SuccessWord DEF EventThrows
<1>2. LoopInv'
  BY <1>1 DEF EventThrows, LoopInv, CommandIsServed
<1>3. ScreenInv'
  BY DEF ScreenInv
<1>4. ReplyInv'
  BY <1>1 DEF EventThrows, ReplyInv, AddressIsDelivered, StatusWordsAreValid
<1> QED  BY <1>1, <1>2, <1>3, <1>4 DEF Reviewing

LEMMA ReplyAndIdleKeeps ==
  ASSUME TypeOK, LoopInv, ScreenInv, ReplyInv, Waiting, UNCHANGED on,
         NEW sw \in Word, NEW data, ReplyAndIdle(sw, data),
         pending = "pubkey" /\ sw = SW_OK => data = Address
  PROVE  LoopInv' /\ ScreenInv' /\ ReplyInv' /\ ~Reviewing'
<1>0. on = TRUE /\ staged = NoWord
  BY DEF Waiting, TypeOK, CoreTypeOK
<1>1. CASE pending = NoCmd
  <2>1. EventThrows(INVALID_STATE) /\ UNCHANGED <<on, ui>> /\ INVALID_STATE \in 1..15
    BY <1>1 DEF ReplyAndIdle, INVALID_STATE
  <2> QED  BY <1>0, <2>1, EventThrowsKeeps
<1>2. CASE pending # NoCmd
  <2>1. /\ Answer(pending, sw, data) /\ ui' = Idle /\ staged' = NoWord
        /\ pending \in Ins
    BY <1>0, <1>2 DEF ReplyAndIdle, TypeOK, CoreTypeOK
  <2> QED  BY <2>1, AnswerKeeps
<1> QED  BY <1>1, <1>2

(***************************************************************************)
(* Every step keeps the invariant: one step of the proof per action.       *)
(***************************************************************************)
LEMMA CommandKeeps ==
  ASSUME TypeOK, LoopInv, ReviewInv, ScreenInv, ReplyInv, Command
  PROVE  LoopInv' /\ ReviewInv' /\ ScreenInv' /\ ReplyInv'
<1> DEFINE OK == LoopInv' /\ ReviewInv' /\ ScreenInv' /\ ReplyInv'
<1> SUFFICES OK  OBVIOUS
<1>0. Listening => on = TRUE /\ pending = NoCmd /\ staged = NoWord
  BY DEF Listening, Waiting, TypeOK, CoreTypeOK
<1>a. Filled
  BY DEF ReviewInv, Filled
<1>1. CASE GetPublicKeyDisplay
  <2>1. "address" \in Flows /\ "address" \notin StakeFlows /\ Server("address") = "pubkey"
    BY DEF Flows, StakeFlows, Server
  <2>2. LoopInv' /\ ScreenInv' /\ ReplyInv'
    BY <1>0, <1>1, <2>1, CommandWaitsKeeps DEF GetPublicKeyDisplay
  <2>3. ~Reviewing'
    BY <1>1, CommandNames DEF GetPublicKeyDisplay, CommandWaits, Reviewing
  <2> QED  BY <1>1, <2>2, <2>3 DEF GetPublicKeyDisplay, PublicKeyMemset, ReviewInv
<1>2. ASSUME NEW first \in BOOLEAN, NEW data \in Payloads, NEW result \in TxResults,
             FinishTx(first, data, result)
      PROVE  OK
  <2>1. (unbroken' => buf' = sent') /\ (unbroken' => ParserAfter(first) = "fresh")
    BY <1>2, <1>a, StoreFills DEF FinishTx, Filled
  <2>2. /\ "tx" \in Ins /\ "tx" \in Flows /\ "tx" \notin StakeFlows /\ Server("tx") = "tx"
        /\ EXCEPTION_OVERFLOW \in Thrown /\ EXCEPTION_OVERFLOW # SW_OK
    BY DEF Ins, SignIns, Flows, SignFlows, StakeFlows, Server, Thrown,
           EXCEPTION_OVERFLOW, SW_OK
  <2>3. CASE result = "overflow"
    <3>1. LoopInv' /\ ScreenInv' /\ ReplyInv' /\ ~Reviewing'
      BY <1>0, <1>2, <2>2, <2>3, CommandThrowsKeeps DEF FinishTx
    <3> QED  BY <2>1, <3>1 DEF ReviewInv
  <2>4. CASE result # "overflow"
    <3>1. CommandWaits("tx") /\ on' = TRUE /\ ui' = Opened("tx", buf',
            ParserAfter(first) = "fresh", result = "complete")
      BY <1>0, <1>2, <2>4 DEF FinishTx
    <3>2. LoopInv' /\ ScreenInv' /\ ReplyInv'
      BY <2>2, <3>1, CommandWaitsKeeps
    <3> QED  BY <2>1, <3>1, <3>2 DEF ReviewInv, Opened
  <2> QED  BY <2>3, <2>4
<1>3. ASSUME NEW first \in BOOLEAN, NEW data \in Payloads, NEW result \in StakeResults,
             FinishStake(first, data, result)
      PROVE  OK
  <2>1. (unbroken' => buf' = sent') /\ (unbroken' => ParserAfter(first) = "fresh")
    BY <1>3, <1>a, StoreFills DEF FinishStake, Filled
  <2>2. /\ "stake" \in Ins
        /\ {EXCEPTION_OVERFLOW, INVALID_PARAMETER} \subseteq Thrown \ {SW_OK}
    BY DEF Ins, SignIns, Thrown, EXCEPTION_OVERFLOW, INVALID_PARAMETER, SW_OK
  <2>3. CASE result \notin StakeFlows
    <3>1. PICK e \in {EXCEPTION_OVERFLOW, INVALID_PARAMETER} : CommandThrows("stake", e)
      BY <1>3, <2>3 DEF FinishStake
    <3>2. LoopInv' /\ ScreenInv' /\ ReplyInv' /\ ~Reviewing'
      BY <1>0, <1>3, <2>2, <2>3, <3>1, CommandThrowsKeeps DEF FinishStake
    <3> QED  BY <2>1, <3>2 DEF ReviewInv
  <2>4. CASE result \in StakeFlows
    <3>0. result \in Flows /\ result # "address" /\ Server(result) = "stake"
      BY <2>4 DEF Flows, SignFlows, StakeFlows, Server
    <3>1. CommandWaits("stake") /\ on' = TRUE /\ ui' = Opened(result, buf',
            ParserAfter(first) = "fresh", TRUE)
      BY <1>0, <1>3, <2>4 DEF FinishStake
    <3>2. LoopInv' /\ ScreenInv' /\ ReplyInv'
      BY <3>0, <3>1, CommandWaitsKeeps
    <3> QED  BY <2>1, <3>1, <3>2 DEF ReviewInv, Opened
  <2> QED  BY <2>3, <2>4
<1>4. CASE ScreenlessCommand
  <2>1. Listening /\ UNCHANGED <<on, ui>> /\ SW_OK \in Word
    BY <1>4, ScreenlessEnds DEF Word
  <2>2. LoopInv' /\ ScreenInv' /\ ReplyInv' /\ ~Reviewing'
    BY <1>0, <1>4, <2>1, ScreenlessEnds, CommandThrowsKeeps, AnswerKeeps DEF AnsweredAtOnce
  <2>3. Filled'
    BY <1>a, <1>4, ScreenlessFills
  <2> QED  BY <2>2, <2>3 DEF ReviewInv, Filled
<1> QED
  <2> HIDE DEF OK
  <2> QED  BY <1>1, <1>2, <1>3, <1>4 DEF Command, ScreenlessCommand

\* A page is turned: the review goes on, of the same bytes.
LEMMA TurnKeeps ==
  ASSUME TypeOK, LoopInv, ReviewInv, ScreenInv, ReplyInv, ui.flow \in Flows,
         NEW step \in 1..(ui.step + 1), Turn(step),
         UNCHANGED <<on, pending, staged, asynch, apdu, reply>>, UNCHANGED unionVars
  PROVE  LoopInv' /\ ReviewInv' /\ ScreenInv' /\ ReplyInv'
<1>0. ui \in UiType /\ ui.step \in Nat
  BY DEF TypeOK, UiType
<1>1. /\ ui'.flow = ui.flow /\ ui'.of = ui.of /\ ui'.whole = ui.whole
      /\ ui'.complete = ui.complete /\ ui'.step = step
      /\ ui'.seen = ui.seen \cup {Pages(ui.flow)[step]}
  BY <1>0 DEF Turn, UiType
<1>2. LoopInv'
  BY <1>1 DEF LoopInv, CommandIsServed
<1>3. ReviewInv'
  BY <1>1 DEF ReviewInv, Reviewing, unionVars
<1>4. ScreenInv'
  <2>1. ASSUME NEW i \in 1..step  PROVE Pages(ui.flow)[i] \in ui'.seen
    <3>1. CASE i = step
      BY <1>1, <3>1
    <3>2. CASE i # step
      <4>1. i \in 1..ui.step
        BY <1>0, <3>2
      <4> QED  BY <1>1, <4>1 DEF ScreenInv
    <3> QED  BY <3>1, <3>2
  <2> QED  BY <1>1, <2>1 DEF ScreenInv
<1>5. ReplyInv'
  BY DEF ReplyInv, AddressIsDelivered, StatusWordsAreValid
<1> QED  BY <1>2, <1>3, <1>4, <1>5

LEMMA ButtonKeeps ==
  ASSUME TypeOK, LoopInv, ReviewInv, ScreenInv, ReplyInv, Button
  PROVE  LoopInv' /\ ReviewInv' /\ ScreenInv' /\ ReplyInv'
<1> DEFINE OK == LoopInv' /\ ReviewInv' /\ ScreenInv' /\ ReplyInv'
<1> SUFFICES OK  OBVIOUS
<1>0. ui.step \in Nat
  BY DEF TypeOK, UiType
<1>a. UNCHANGED unionVars /\ ~Reviewing' => ReviewInv'
  BY DEF unionVars, ReviewInv
<1>b. SW_OK \in Word /\ SW_USER_REJECTED \in Word /\ SW_USER_REJECTED # SW_OK
  BY DEF Word, SW_OK, SW_USER_REJECTED
<1>c. ASSUME Waiting, ui.flow \in Flows, pending # NoCmd
      PROVE  on /\ staged = NoWord /\ pending = Server(ui.flow)
  BY <1>c DEF Waiting, LoopInv, CommandIsServed
<1>1. CASE Right
  <2>1. ui.flow \in Flows /\ ui.step + 1 \in 1..(ui.step + 1)
    BY <1>0, <1>1 DEF Right, InFlow
  <2> QED  BY <1>1, <2>1, TurnKeeps DEF Right
<1>2. CASE Left
  <2>1. ui.flow \in Flows /\ ui.step - 1 \in 1..(ui.step + 1)
    BY <1>0, <1>2 DEF Left, InFlow
  <2> QED  BY <1>2, <2>1, TurnKeeps DEF Left
<1>3. CASE AddressOk
  <2>1. pending = "pubkey" => Payload = Address
    <3>1. "pubkey" # NoCmd
      BY DEF NoCmd
    <3> QED
      BY <1>3 DEF AddressOk, InFlow, Waiting, ReplyInv, Payload
  <2>2. LoopInv' /\ ScreenInv' /\ ReplyInv' /\ ~Reviewing'
    BY <1>3, <1>b, <2>1, ReplyAndIdleKeeps DEF AddressOk, InFlow
  <2> QED  BY <1>3, <1>a, <2>2 DEF AddressOk
<1>4. CASE SignOk
  <2>1. pending # "pubkey"
    <3>1. ui.flow \in SignFlows /\ Waiting /\ ui.flow \in Flows /\ ui.flow # "address"
      BY <1>4 DEF SignOk, InFlow, Flows, SignFlows, StakeFlows
    <3> QED  BY <3>1, <1>c, ServerValues DEF NoCmd
  <2>2. LoopInv' /\ ScreenInv' /\ ReplyInv' /\ ~Reviewing'
    BY <1>4, <1>b, <2>1, ReplyAndIdleKeeps DEF SignOk, InFlow
  <2> QED  BY <1>4, <1>a, <2>2 DEF SignOk
<1>5. CASE SignFault
  <2>1. PICK e \in SyscallFaults : EventThrows(e)
    BY <1>5 DEF SignFault
  <2>2. e \in 1..15 /\ on = TRUE
    BY <1>5, FirmwareAssumption DEF SignFault, InFlow, Waiting, TypeOK, CoreTypeOK
  <2>3. LoopInv' /\ ScreenInv' /\ ReplyInv' /\ ~Reviewing'
    BY <1>5, <2>1, <2>2, EventThrowsKeeps DEF SignFault
  <2> QED  BY <1>5, <1>a, <2>3 DEF SignFault
<1>6. CASE Cancel
  <2>1. LoopInv' /\ ScreenInv' /\ ReplyInv' /\ ~Reviewing'
    BY <1>6, <1>b, ReplyAndIdleKeeps DEF Cancel, InFlow
  <2> QED  BY <1>6, <1>a, <2>1 DEF Cancel
<1> QED
  <2> HIDE DEF OK
  <2> QED  BY <1>1, <1>2, <1>3, <1>4, <1>5, <1>6 DEF Button

LEMMA SendStagedKeeps ==
  ASSUME TypeOK, LoopInv, ReviewInv, ScreenInv, ReplyInv, SendStaged
  PROVE  LoopInv' /\ ReviewInv' /\ ScreenInv' /\ ReplyInv'
<1>0. /\ on /\ staged # NoWord /\ asynch = FALSE
      /\ UNCHANGED <<on, asynch, apdu, ui>> /\ UNCHANGED unionVars
  BY DEF SendStaged, LoopInv, TypeOK, CoreTypeOK
<1>1. CASE pending = NoCmd
  <2>1. /\ UNCHANGED <<pending, reply>> /\ staged' = StatusWord(INVALID_STATE)
        /\ INVALID_STATE \in Thrown /\ INVALID_STATE # SW_OK
    BY <1>0, <1>1 DEF SendStaged, Thrown, INVALID_STATE, SW_OK
  <2>2. staged' # NoWord /\ staged' # SW_OK
    BY <2>1, StatusWordType, SuccessWord
  <2>3. LoopInv' /\ ScreenInv'
    BY <1>0, <1>1, <2>1, <2>2 DEF LoopInv, CommandIsServed, ScreenInv
  <2>4. ReplyInv'
    BY <1>0, <2>1, <2>2 DEF ReplyInv, AddressIsDelivered, StatusWordsAreValid
  <2> QED  BY <1>0, <2>2, <2>3, <2>4 DEF ReviewInv, Reviewing, unionVars
<1>2. CASE pending # NoCmd
  <2>1. /\ Answer(pending, staged, NoData) /\ staged' = NoWord
        /\ pending \in Ins /\ staged \in Word
    BY <1>0, <1>2 DEF SendStaged, TypeOK, CoreTypeOK, Word
  <2>2. pending = "pubkey" => staged # SW_OK
    BY CommandNames DEF ReplyInv
  <2>3. LoopInv' /\ ScreenInv' /\ ReplyInv' /\ ~Reviewing'
    BY <1>0, <2>1, <2>2, AnswerKeeps
  <2> QED  BY <1>0, <2>3 DEF ReviewInv, unionVars
<1> QED  BY <1>1, <1>2

\* Between sessions nothing is outstanding and nothing is on the screen.
LEMMA RestartKeeps ==
  ASSUME TypeOK, LoopInv, ReviewInv, ScreenInv, ReplyInv,
         Reset(Idle) \/ Quit(Idle) \/ Start(Idle)
  PROVE  LoopInv' /\ ReviewInv' /\ ScreenInv' /\ ReplyInv'
<1>1. CASE Reset(Idle) \/ Start(Idle)
  <2>1. /\ pending' = NoCmd /\ staged' = NoWord /\ reply' = NoReply /\ ui' = Idle
        /\ (unbroken' => buf' = sent')
    BY <1>1 DEF Reset, Start, ReviewInv, unionVars
  <2>2. LoopInv' /\ ScreenInv'
    BY <2>1, IdleFlow DEF LoopInv, CommandIsServed, ScreenInv
  <2>3. ReplyInv'
    BY <2>1 DEF ReplyInv, AddressIsDelivered, StatusWordsAreValid, NoReply, NoCmd,
                NoWord, SW_OK
  <2>4. ~Reviewing'
    BY <2>1, CommandNames DEF Reviewing
  <2> QED  BY <2>1, <2>2, <2>3, <2>4 DEF ReviewInv
<1>2. CASE Quit(Idle)
  <2>1. /\ on' = FALSE /\ pending' = NoCmd /\ staged' = NoWord
        /\ UNCHANGED <<apdu, ui, reply>> /\ UNCHANGED unionVars
    BY <1>2 DEF Quit, Waiting
  <2>2. LoopInv' /\ ScreenInv'
    BY <2>1 DEF LoopInv, CommandIsServed, ScreenInv
  <2>3. ReplyInv'
    BY <2>1 DEF ReplyInv, AddressIsDelivered, StatusWordsAreValid, NoWord, SW_OK
  <2> QED  BY <2>1, <2>2, <2>3 DEF ReviewInv, Reviewing, unionVars
<1> QED  BY <1>1, <1>2

LEMMA IndInvInit == Init => IndInv
<1> SUFFICES ASSUME Init PROVE IndInv  OBVIOUS
<1>1. TypeOK
  BY TypeInit
<1>2. LoopInv
  BY DEF Init, CoreInit, LoopInv, CommandIsServed
<1>3. ReviewInv
  BY CommandNames DEF Init, CoreInit, ReviewInv, Reviewing
<1>4. ScreenInv
  BY IdleFlow DEF Init, CoreInit, ScreenInv
<1>5. ReplyInv
  BY DEF Init, CoreInit, ReplyInv, AddressIsDelivered, StatusWordsAreValid, NoReply,
         NoCmd, NoWord, SW_OK
<1> QED  BY <1>1, <1>2, <1>3, <1>4, <1>5 DEF IndInv

LEMMA IndInvNext == IndInv /\ [Next]_vars => IndInv'
<1> SUFFICES ASSUME IndInv, [Next]_vars PROVE IndInv'  OBVIOUS
<1>0. TypeOK /\ LoopInv /\ ReviewInv /\ ScreenInv /\ ReplyInv
  BY DEF IndInv
<1>1. TypeOK'
  BY <1>0, TypeNext
<1>2. LoopInv' /\ ReviewInv' /\ ScreenInv' /\ ReplyInv'
  <2>1. CASE Next
    BY <1>0, <2>1, CommandKeeps, ButtonKeeps, SendStagedKeeps, RestartKeeps DEF Next
  <2>2. CASE UNCHANGED vars
    BY <1>0, <2>2
       DEF vars, LoopInv, CommandIsServed, ReviewInv, Reviewing, ScreenInv, ReplyInv,
           AddressIsDelivered, StatusWordsAreValid
  <2> QED  BY <2>1, <2>2
<1> QED  BY <1>1, <1>2 DEF IndInv

\* The invariant that the results below rest on holds in every reachable
\* state: the loop, the review, the screen and the last reply fit together.
THEOREM Invariance == Spec => []IndInv
  BY IndInvInit, IndInvNext, PTL DEF Spec

\* No command is forgotten: while one is outstanding its status word is
\* staged, or the flow on the screen is the one that answers it.
THEOREM CommandServed == Spec => []CommandIsServed
<1>1. IndInv => CommandIsServed
  BY DEF IndInv, LoopInv
<1> QED  BY <1>1, Invariance, PTL

\* The address sent on approval is the one derived before the user was
\* asked, whatever else used G_io_apdu_buffer in between.
THEOREM AddressDelivered == Spec => []AddressIsDelivered
<1>1. IndInv => AddressIsDelivered
  BY DEF IndInv, ReplyInv
<1> QED  BY <1>1, Invariance, PTL

\* Every reply carries 0x9000 or a status word that starts with 6.
THEOREM StatusWordsValid == Spec => []StatusWordsAreValid
<1>1. IndInv => StatusWordsAreValid
  BY DEF IndInv, ReplyInv
<1> QED  BY <1>1, Invariance, PTL

(***************************************************************************)
(* Signatures                                                              *)
(***************************************************************************)
\* Only an approval that answers the outstanding command sends a signature.
LEMMA SignatureFromApproval ==
  ASSUME IndInv, [Next]_vars, SignatureSent
  PROVE  /\ SignOk /\ Reviewing /\ pending = Server(ui.flow)
         /\ reply'.data.bytes = buf /\ reply'.to = pending /\ UNCHANGED unionVars
<1>0. LoopInv /\ TypeOK
  BY DEF IndInv
<1>a. NoReply.data.kind # "signature" /\ NoData.kind # "signature" /\ Address.kind # "signature"
  BY DEF NoReply, NoData, Address
<1>b. reply' # reply /\ reply'.data.kind = "signature"
  BY DEF SignatureSent
<1>1. ~UNCHANGED vars
  BY <1>b DEF vars
<1>2. ~Command
  <2>1. \A ins, e : ~CommandThrows(ins, e) /\ ~CommandWaits(ins)
    BY <1>a, <1>b DEF CommandThrows, CommandWaits
  <2>2. \A ins, data : data \in {NoData, Address} => ~AnsweredAtOnce(ins, data)
    BY <1>a, <1>b DEF AnsweredAtOnce, Answer
  <2>3. ~ScreenlessCommand
    BY <2>1, <2>2, ScreenlessEnds
  <2>4. ~GetPublicKeyDisplay
    BY <2>1 DEF GetPublicKeyDisplay
  <2>5. \A first, data, result : ~FinishTx(first, data, result)
    BY <2>1 DEF FinishTx
  <2>6. \A first, data, result : ~FinishStake(first, data, result)
    BY <2>1 DEF FinishStake
  <2> QED  BY <2>3, <2>4, <2>5, <2>6 DEF Command, ScreenlessCommand
<1>3. ~SendStaged
  BY <1>a, <1>b DEF SendStaged, Answer
<1>4. ~(Reset(Idle) \/ Quit(Idle) \/ Start(Idle))
  BY <1>a, <1>b DEF Reset, Quit, Start
<1>5. ~(Right \/ Left)
  BY <1>b DEF Right, Left
<1>6. ~SignFault
  BY <1>b DEF SignFault, EventThrows
<1>7. ~Cancel
  BY <1>a, <1>b DEF Cancel, ReplyAndIdle, Answer, EventThrows
<1>8. ~AddressOk
  BY <1>a, <1>b DEF AddressOk, ReplyAndIdle, Answer, EventThrows, Payload
<1>9. SignOk
  BY <1>1, <1>2, <1>3, <1>4, <1>5, <1>6, <1>7, <1>8 DEF Next, Button
<1>10. pending # NoCmd
  BY <1>9, <1>b DEF SignOk, ReplyAndIdle, EventThrows
<1>11. Answer(pending, SW_OK, Signature(buf)) /\ UNCHANGED unionVars
  BY <1>9, <1>10 DEF SignOk, ReplyAndIdle
<1>12. Waiting /\ ui.flow \in SignFlows /\ ui.flow \in Flows /\ ui.flow # "address"
  BY <1>9 DEF SignOk, InFlow, Flows, SignFlows, StakeFlows
<1>13. pending = Server(ui.flow)
  BY <1>0, <1>10, <1>12 DEF LoopInv, CommandIsServed, Waiting
<1>14. Reviewing
  BY <1>12, <1>13, ServerValues DEF Reviewing, Waiting
<1> QED  BY <1>9, <1>11, <1>13, <1>14 DEF Answer, Signature

\* What is signed is what the pages were made from, and of an undisturbed
\* transfer it is what was uploaded, read from the start: for every transfer,
\* every length and every order of the commands and buttons, and also when
\* system calls raise exceptions.
THEOREM ReviewedIsSigned == Spec => SignedIsReviewed
<1>1. IndInv /\ [Next]_vars =>
        [SignatureSent =>
           /\ reply'.data.bytes = ui.of
           /\ unbroken => ui.of = sent /\ ui.whole]_vars
  <2> SUFFICES ASSUME IndInv, [Next]_vars, SignatureSent
               PROVE  /\ reply'.data.bytes = ui.of
                      /\ unbroken => ui.of = sent /\ ui.whole
    OBVIOUS
  <2> QED  BY SignatureFromApproval DEF IndInv, ReviewInv
<1> QED  BY <1>1, Invariance, PTL DEF Spec, SignedIsReviewed

\* On the approve page of a signing flow every text of it came by.
LEMMA ApproveIsLast ==
  ASSUME TypeOK, ScreenInv, ui.flow \in SignFlows, Page = "approve"
  PROVE  Content(ui.flow) \subseteq ui.seen
<1> DEFINE Seen(i) == Pages(ui.flow)[i] \in ui.seen
<1>1. \A i \in 1..ui.step : Seen(i)
  BY DEF ScreenInv, Flows
<1>2. ui.step \in Nat /\ ui.step \in 1..Len(Pages(ui.flow))
  BY DEF TypeOK, UiType, Flows
<1>3. CASE ui.flow = "tx"
  <2>1. Pages(ui.flow) = Tx6  BY <1>3 DEF Pages
  <2>2. ui.step = 5  BY <1>2, <2>1 DEF Page, Tx6
  <2>3. Seen(2) /\ Seen(3) /\ Seen(4)  BY <1>1, <2>2
  <2> QED  BY <1>3, <2>1, <2>3 DEF Content, Tx6
<1>4. CASE ui.flow = "create"
  <2>1. Pages(ui.flow) = Create10  BY <1>4 DEF Pages
  <2>2. ui.step = 9  BY <1>2, <2>1 DEF Page, Create10
  <2>3. \A i \in 2..8 : Seen(i)  BY <1>1, <2>2
  <2> QED  BY <1>4, <2>1, <2>3 DEF Content, Create10
<1>5. CASE ui.flow = "edit"
  <2>1. Pages(ui.flow) = Edit10  BY <1>5 DEF Pages
  <2>2. ui.step = 9  BY <1>2, <2>1 DEF Page, Edit10
  <2>3. \A i \in 2..8 : Seen(i)  BY <1>1, <2>2
  <2> QED  BY <1>5, <2>1, <2>3 DEF Content, Edit10
<1>6. CASE ui.flow = "delegate"
  <2>1. Pages(ui.flow) = Delegate7  BY <1>6 DEF Pages
  <2>2. ui.step = 6  BY <1>2, <2>1 DEF Page, Delegate7
  <2>3. \A i \in 2..5 : Seen(i)  BY <1>1, <2>2
  <2> QED  BY <1>6, <2>1, <2>3 DEF Content, Delegate7
<1>7. CASE ui.flow = "collect"
  <2>1. Pages(ui.flow) = Collect5  BY <1>7 DEF Pages
  <2>2. ui.step = 4  BY <1>2, <2>1 DEF Page, Collect5
  <2>3. Seen(2) /\ Seen(3)  BY <1>1, <2>2
  <2> QED  BY <1>7, <2>1, <2>3 DEF Content, Collect5
<1> QED  BY <1>3, <1>4, <1>5, <1>6, <1>7 DEF SignFlows, StakeFlows

\* No signature leaves before every text the handlers make of the transaction
\* was shown; the gas of a transfer is not among them.
THEOREM ContentSeen == Spec => ContentIsSeenBeforeSigning
<1>1. IndInv /\ [Next]_vars => [SignatureSent => Content(ui.flow) \subseteq ui.seen]_vars
  <2> SUFFICES ASSUME IndInv, [Next]_vars, SignatureSent
               PROVE  Content(ui.flow) \subseteq ui.seen
    OBVIOUS
  <2>1. ui.flow \in SignFlows /\ Page = "approve"
    BY SignatureFromApproval DEF SignOk, InFlow
  <2> QED  BY <2>1, ApproveIsLast DEF IndInv
<1> QED  BY <1>1, Invariance, PTL DEF Spec, ContentIsSeenBeforeSigning

\* A staking transaction is signed only if its parse reached the end.
THEOREM StakingComplete == Spec => StakingIsCompleteWhenSigned
<1>1. IndInv /\ [Next]_vars => [SignatureSent /\ reply'.to = "stake" => ui.complete]_vars
  <2> SUFFICES ASSUME IndInv, [Next]_vars, SignatureSent, reply'.to = "stake"
               PROVE  ui.complete
    OBVIOUS
  <2>1. ui.flow \in SignFlows /\ Server(ui.flow) = "stake"
    BY SignatureFromApproval DEF SignOk, InFlow
  <2>2. ui.flow \in StakeFlows
    BY <2>1, ServerValues DEF Flows
  <2> QED  BY <2>2 DEF IndInv, ScreenInv
<1> QED  BY <1>1, Invariance, PTL DEF Spec, StakingIsCompleteWhenSigned

(***************************************************************************)
(* The Nano X build implements SigningService; and, as long as no system   *)
(* call raises an exception, it never replies unasked.                     *)
(***************************************************************************)
LEMMA ServiceData ==
  NoData = Service!Nothing /\ Address = Service!PublicAddress /\ NoReply.data = NoData
  BY DEF NoData, Address, NoReply, Service!Nothing, Service!PublicAddress

\* A command that will be answered by its status word or by a screen that
\* shows no document is taken by the service.
LEMMA Taken ==
  ASSUME pending = NoCmd, pending' \in Ins, reply' = NoReply, ~Reviewing'
  PROVE  Service!Take
  BY ServiceData, CommandNames DEF Service!Take, Reviewing

LEMMA ThrownIsTaken ==
  ASSUME Listening, NEW ins \in Ins, NEW e \in Thrown, CommandThrows(ins, e)
  PROVE  Service!Take
<1>1. pending = NoCmd /\ pending' \in Ins /\ reply' = NoReply /\ ~Reviewing'
  BY StatusWordType DEF Listening, CommandThrows, Reviewing
<1> QED  BY <1>1, Taken

\* An answer without a signature is served, in or outside of a review.
LEMMA Served ==
  ASSUME ~Reviewing, NEW ins, NEW sw, NEW data \in {NoData, Address},
         Answer(ins, sw, data)
  PROVE  Service!Serve
<1>1. pending' = NoCmd /\ ~Reviewing'
  BY CommandNames DEF Answer, Reviewing
<1>2. reply'.data \in {Service!Nothing, Service!PublicAddress}
  BY ServiceData DEF Answer
<1> QED  BY <1>1, <1>2 DEF Service!Serve

LEMMA Presented ==
  ASSUME Listening, NEW flow \in SignFlows, NEW whole, NEW complete, on' = TRUE,
         CommandWaits(Server(flow)), buf' \in Contents,
         ui' = Opened(flow, buf', whole, complete)
  PROVE  Service!Present
<1>1. flow \in Flows /\ flow # "address"
  BY DEF Flows, SignFlows, StakeFlows
<1>2. pending = NoCmd /\ ~Reviewing
  BY CommandNames DEF Listening, Reviewing
<1>3. pending' \in SignIns /\ staged' = NoWord /\ reply' = NoReply
  BY <1>1, ServerValues DEF CommandWaits
<1>4. Reviewing' /\ pending' # NoCmd
  BY <1>3, CommandNames DEF Reviewing
<1>5. ui'.of \in Contents
  BY DEF Opened
<1> QED  BY <1>2, <1>3, <1>4, <1>5, ServiceData DEF Service!Present, Contents

LEMMA CommandImplements ==
  ASSUME IndInv, IndInv', Command
  PROVE  Service!Next
<1> DEFINE OK == Service!Next
<1> SUFFICES OK  OBVIOUS
<1>a. Service!Take \/ Service!Serve \/ Service!Present => OK
  BY DEF Service!Next
<1>b. Listening => ~Reviewing
  BY CommandNames DEF Listening, Reviewing
<1>c. {"pubkey"} \cup SignIns \subseteq Ins
  BY DEF Ins
<1>d. buf' \in Contents
  BY DEF IndInv, TypeOK, CoreTypeOK, Contents
<1>e. Listening => on = TRUE
  BY DEF Listening, Waiting, IndInv, TypeOK, CoreTypeOK
<1>1. CASE GetPublicKeyDisplay
  <2>1. pending = NoCmd /\ pending' = "pubkey" /\ reply' = NoReply /\ ~Reviewing'
    BY <1>1, CommandNames DEF GetPublicKeyDisplay, CommandWaits, Listening, Reviewing
  <2> QED  BY <1>a, <1>c, <2>1, Taken
<1>2. ASSUME NEW first \in BOOLEAN, NEW data \in Payloads, NEW result \in TxResults,
             FinishTx(first, data, result)
      PROVE  OK
  <2>1. Listening
    BY <1>2 DEF FinishTx
  <2>2. CASE result = "overflow"
    <3>1. EXCEPTION_OVERFLOW \in Thrown /\ "tx" \in Ins /\ CommandThrows("tx", EXCEPTION_OVERFLOW)
      BY <1>2, <1>c, <2>2 DEF Thrown, EXCEPTION_OVERFLOW, SignIns, FinishTx
    <3> QED  BY <1>a, <2>1, <3>1, ThrownIsTaken
  <2>3. CASE result # "overflow"
    <3>1. /\ "tx" \in SignFlows /\ CommandWaits(Server("tx")) /\ on' = TRUE
          /\ ui' = Opened("tx", buf', ParserAfter(first) = "fresh", result = "complete")
      BY <1>2, <1>e, <2>1, <2>3 DEF FinishTx, SignFlows, Server
    <3> QED  BY <1>a, <1>d, <2>1, <3>1, Presented
  <2> QED  BY <2>2, <2>3
<1>3. ASSUME NEW first \in BOOLEAN, NEW data \in Payloads, NEW result \in StakeResults,
             FinishStake(first, data, result)
      PROVE  OK
  <2>1. Listening
    BY <1>3 DEF FinishStake
  <2>2. CASE result \notin StakeFlows
    <3>1. PICK e \in {EXCEPTION_OVERFLOW, INVALID_PARAMETER} : CommandThrows("stake", e)
      BY <1>3, <2>2 DEF FinishStake
    <3>2. e \in Thrown /\ "stake" \in Ins
      BY <1>c DEF Thrown, EXCEPTION_OVERFLOW, INVALID_PARAMETER, SignIns
    <3> QED  BY <1>a, <2>1, <3>1, <3>2, ThrownIsTaken
  <2>3. CASE result \in StakeFlows
    <3>1. result \in SignFlows /\ Server(result) = "stake"
      BY <2>3 DEF SignFlows, StakeFlows, Server
    <3>2. /\ CommandWaits("stake") /\ on' = TRUE
          /\ ui' = Opened(result, buf', ParserAfter(first) = "fresh", TRUE)
      BY <1>3, <1>e, <2>1, <2>3 DEF FinishStake
    <3> QED  BY <1>a, <1>d, <2>1, <3>1, <3>2, Presented
  <2> QED  BY <2>2, <2>3
<1>4. CASE ScreenlessCommand
  BY <1>4, <1>a, <1>b, ScreenlessEnds, ThrownIsTaken, Served DEF AnsweredAtOnce
<1> QED
  <2> HIDE DEF OK
  <2> QED  BY <1>1, <1>2, <1>3, <1>4 DEF Command, ScreenlessCommand

\* A step that leaves the outstanding command, the document of its review and
\* the last reply alone is no step of the service.
LEMMA Stutters ==
  ASSUME UNCHANGED <<pending, reply>>, Reviewing' <=> Reviewing,
         Reviewing => ui'.of = ui.of
  PROVE  UNCHANGED Service!vars
  BY DEF Service!vars

LEMMA UnaskedStutters ==
  ASSUME UNCHANGED <<pending, reply>>, pending = NoCmd
  PROVE  UNCHANGED Service!vars
<1>1. ~Reviewing /\ ~Reviewing'
  BY CommandNames DEF Reviewing
<1> QED  BY <1>1, Stutters

LEMMA ButtonImplements ==
  ASSUME IndInv, IndInv', Button
  PROVE  Service!Next \/ UNCHANGED Service!vars
<1> DEFINE OK == Service!Next \/ UNCHANGED Service!vars
<1> SUFFICES OK  OBVIOUS
<1>0. TypeOK /\ LoopInv /\ ReviewInv
  BY DEF IndInv
<1>a. ASSUME Waiting, ui.flow \in Flows, pending # NoCmd
      PROVE  /\ on /\ staged = NoWord /\ pending = Server(ui.flow)
             /\ ui.flow = "address" => ~Reviewing
             /\ ui.flow # "address" => Reviewing
  <2>1. on /\ staged = NoWord /\ pending = Server(ui.flow)
    BY <1>0, <1>a DEF Waiting, LoopInv, CommandIsServed
  <2> QED  BY <2>1, <1>a, ServerValues, CommandNames DEF Reviewing
<1>1. CASE Right \/ Left
  <2>1. PICK step : Turn(step)
    BY <1>1 DEF Right, Left
  <2>2. ui'.of = ui.of
    BY <1>0, <2>1 DEF Turn, TypeOK, UiType
  <2>3. UNCHANGED <<on, pending, staged, reply>>
    BY <1>1 DEF Right, Left
  <2> QED  BY <2>2, <2>3, Stutters DEF Reviewing
<1>2. CASE AddressOk
  <2>1. Waiting /\ ui.flow \in Flows /\ ui.flow = "address" /\ ReplyAndIdle(SW_OK, Payload)
    BY <1>2 DEF AddressOk, InFlow, Flows
  <2>2. CASE pending = NoCmd
    BY <2>1, <2>2, UnaskedStutters DEF ReplyAndIdle, EventThrows
  <2>3. CASE pending # NoCmd
    <3>1. ~Reviewing /\ Payload \in {NoData, Address} /\ Answer(pending, SW_OK, Payload)
      BY <1>a, <2>1, <2>3 DEF ReplyAndIdle, Payload
    <3> QED  BY <3>1, Served DEF Service!Next
  <2> QED  BY <2>2, <2>3
<1>3. CASE SignOk
  <2>1. /\ Waiting /\ ui.flow \in Flows /\ ui.flow # "address"
        /\ ReplyAndIdle(SW_OK, Signature(buf))
    BY <1>3 DEF SignOk, InFlow, Flows, SignFlows, StakeFlows
  <2>2. CASE pending = NoCmd
    BY <2>1, <2>2, UnaskedStutters DEF ReplyAndIdle, EventThrows
  <2>3. CASE pending # NoCmd
    <3>1. Reviewing /\ Answer(pending, SW_OK, Signature(buf))
      BY <1>a, <2>1, <2>3 DEF ReplyAndIdle
    <3>2. reply'.data = Service!SignatureOf(ui.of)
      BY <1>0, <3>1 DEF Answer, Signature, Service!SignatureOf, ReviewInv
    <3>3. pending' = NoCmd /\ ~Reviewing'
      BY <3>1, CommandNames DEF Answer, Reviewing
    <3>4. pending # NoCmd
      BY <2>3
    <3> QED  BY <3>1, <3>2, <3>3, <3>4 DEF Service!Next, Service!Sign
  <2> QED  BY <2>2, <2>3
<1>4. CASE SignFault
  <2>1. PICK e \in SyscallFaults : EventThrows(e)
    BY <1>4 DEF SignFault
  <2>2. e \in Thrown /\ UNCHANGED <<pending, reply>>
    BY <2>1, FirmwareAssumption DEF Thrown, EventThrows
  <2>3. ~Reviewing'
    BY <2>1, <2>2, StatusWordType DEF EventThrows, Reviewing
  <2>4. CASE pending = NoCmd
    BY <2>2, <2>4, UnaskedStutters
  <2>5. CASE pending # NoCmd
    <3>1. Reviewing
      BY <1>4, <1>a, <2>5 DEF SignFault, InFlow, Flows, SignFlows, StakeFlows
    <3> QED  BY <2>2, <2>3, <2>5, <3>1 DEF Service!Next, Service!Fail
  <2> QED  BY <2>4, <2>5
<1>5. CASE Cancel
  <2>1. ReplyAndIdle(SW_USER_REJECTED, NoData)
    BY <1>5 DEF Cancel
  <2>2. CASE pending = NoCmd
    BY <2>1, <2>2, UnaskedStutters DEF ReplyAndIdle, EventThrows
  <2>3. CASE pending # NoCmd
    <3>1. Answer(pending, SW_USER_REJECTED, NoData)
      BY <2>1, <2>3 DEF ReplyAndIdle
    <3>2. CASE ~Reviewing
      BY <3>1, <3>2, Served DEF Service!Next
    <3>3. CASE Reviewing
      <4>1. pending' = NoCmd /\ ~Reviewing' /\ reply'.data = Service!Nothing
        BY <3>1, ServiceData, CommandNames DEF Answer, Reviewing
      <4> QED  BY <2>3, <3>3, <4>1 DEF Service!Next, Service!Decline
    <3> QED  BY <3>2, <3>3
  <2> QED  BY <2>2, <2>3
<1> QED
  <2> HIDE DEF OK
  <2> QED  BY <1>1, <1>2, <1>3, <1>4, <1>5 DEF Button

LEMMA SendStagedImplements ==
  ASSUME IndInv, SendStaged
  PROVE  Service!Next \/ UNCHANGED Service!vars
<1>1. asynch = FALSE /\ staged # NoWord /\ ~Reviewing
  BY DEF SendStaged, IndInv, LoopInv, TypeOK, CoreTypeOK, Reviewing
<1>2. CASE pending = NoCmd
  BY <1>1, <1>2, UnaskedStutters DEF SendStaged
<1>3. CASE pending # NoCmd
  <2>1. Answer(pending, staged, NoData)
    BY <1>1, <1>3 DEF SendStaged
  <2> QED  BY <1>1, <2>1, Served DEF Service!Next
<1> QED  BY <1>2, <1>3

LEMMA RestartImplements ==
  ASSUME IndInv, Reset(Idle) \/ Quit(Idle) \/ Start(Idle)
  PROVE  Service!Next \/ UNCHANGED Service!vars
<1>1. CASE Reset(Idle) \/ Start(Idle)
  <2>1. pending' = NoCmd /\ ~Reviewing' /\ reply'.data = Service!Nothing
    BY <1>1, ServiceData, CommandNames DEF Reset, Start, Reviewing
  <2> QED  BY <2>1 DEF Service!Next, Service!Abandon
<1>2. CASE Quit(Idle)
  <2>1. pending = NoCmd
    BY <1>2, IdleFlow DEF Quit, Waiting, IndInv, LoopInv, CommandIsServed
  <2>2. UNCHANGED <<pending, reply>>
    BY <1>2, <2>1 DEF Quit
  <2> QED  BY <2>1, <2>2, UnaskedStutters
<1> QED  BY <1>1, <1>2

\* The Nano X build gives its host nothing the abstract service would not
\* give: every step of the command loop, of a handler or of a button is a
\* step of SigningService or changes nothing it speaks of.
THEOREM Refinement == Spec => ImplementsService
<1>1. Init => Service!Init
  BY ServiceData, CommandNames DEF Init, CoreInit, Service!Init, Reviewing
<1>2. IndInv /\ IndInv' /\ [Next]_vars => [Service!Next]_(Service!vars)
  <2> SUFFICES ASSUME IndInv, IndInv', [Next]_vars
               PROVE  Service!Next \/ UNCHANGED Service!vars
    OBVIOUS
  <2>1. CASE Next
    BY <2>1, CommandImplements, ButtonImplements, SendStagedImplements,
       RestartImplements DEF Next
  <2>2. CASE UNCHANGED vars
    BY <2>2, Stutters DEF vars, Reviewing
  <2> QED  BY <2>1, <2>2
<1> QED  BY <1>1, <1>2, Invariance, PTL DEF Spec, ImplementsService, Service!Spec

(***************************************************************************)
(* Without exceptions from system calls                                    *)
(***************************************************************************)
LEMMA AskedNext ==
  ASSUME SyscallFaults = {}, IndInv, NoFaultInv, [Next]_vars
  PROVE  NoFaultInv'
<1> DEFINE OK == NoFaultInv'
<1> SUFFICES OK  OBVIOUS
<1>0. TypeOK /\ LoopInv
  BY DEF IndInv
<1>a. ASSUME Listening, NEW ins \in Ins, NEW e \in Thrown, CommandThrows(ins, e),
             UNCHANGED ui
      PROVE  OK
  <2>1. ui.flow \notin Flows
    BY <1>a DEF Listening, Waiting, NoFaultInv, RepliesOnlyWhenAsked
  <2> QED
    BY <1>a, <2>1, CommandNames DEF CommandThrows, NoFaultInv, RepliesOnlyWhenAsked
<1>b. ASSUME NEW ins \in Ins, CommandWaits(ins)  PROVE OK
  BY <1>b, CommandNames DEF CommandWaits, NoFaultInv, RepliesOnlyWhenAsked
<1>c. ASSUME Listening, UNCHANGED <<ui, staged>>  PROVE OK
  BY <1>c DEF Listening, Waiting, NoFaultInv, RepliesOnlyWhenAsked
<1>d. {"pubkey"} \cup SignIns \subseteq Ins
  BY DEF Ins
<1>1. CASE Command
  <2>1. CASE ScreenlessCommand
    BY <1>a, <1>c, <2>1, ScreenlessEnds DEF AnsweredAtOnce
  <2>2. CASE GetPublicKeyDisplay
    BY <1>b, <1>d, <2>2 DEF GetPublicKeyDisplay
  <2>3. ASSUME NEW first \in BOOLEAN, NEW data \in Payloads, NEW result \in TxResults,
               FinishTx(first, data, result)
        PROVE  OK
    <3>1. "tx" \in Ins /\ EXCEPTION_OVERFLOW \in Thrown
      BY DEF Ins, SignIns, Thrown, EXCEPTION_OVERFLOW
    <3> QED  BY <1>a, <1>b, <2>3, <3>1 DEF FinishTx
  <2>4. ASSUME NEW first \in BOOLEAN, NEW data \in Payloads, NEW result \in StakeResults,
               FinishStake(first, data, result)
        PROVE  OK
    <3>1. "stake" \in Ins /\ {EXCEPTION_OVERFLOW, INVALID_PARAMETER} \subseteq Thrown
      BY DEF Ins, SignIns, Thrown, EXCEPTION_OVERFLOW, INVALID_PARAMETER
    <3> QED  BY <1>a, <1>b, <2>4, <3>1 DEF FinishStake
  <2> QED
    <3> HIDE DEF OK
    <3> QED  BY <1>1, <2>1, <2>2, <2>3, <2>4 DEF Command, ScreenlessCommand
<1>2. CASE Right \/ Left
  <2>1. ui'.flow = ui.flow /\ UNCHANGED <<on, pending, staged>>
    BY <1>0, <1>2 DEF Right, Left, Turn, TypeOK, UiType
  <2> QED  BY <2>1 DEF NoFaultInv, RepliesOnlyWhenAsked
<1>3. CASE AddressOk \/ SignOk \/ Cancel
  <2>1. PICK sw, data : ReplyAndIdle(sw, data)
    BY <1>3 DEF AddressOk, SignOk, Cancel
  <2>2. Waiting /\ ui.flow \in Flows
    BY <1>3 DEF AddressOk, SignOk, Cancel, InFlow, Flows
  <2>3. pending # NoCmd
    BY <2>2 DEF Waiting, NoFaultInv, RepliesOnlyWhenAsked
  <2>4. ui' = Idle /\ staged' = NoWord
    BY <2>1, <2>2, <2>3 DEF ReplyAndIdle, Waiting
  <2> QED  BY <2>4, IdleFlow DEF NoFaultInv, RepliesOnlyWhenAsked
<1>4. ~SignFault
  BY DEF SignFault
<1>5. CASE SendStaged
  <2>1. ui.flow \notin Flows /\ pending # NoCmd /\ asynch = FALSE /\ UNCHANGED ui
    BY <1>0, <1>5
       DEF SendStaged, NoFaultInv, RepliesOnlyWhenAsked, LoopInv, TypeOK, CoreTypeOK
  <2> QED  BY <1>5, <2>1 DEF SendStaged, NoFaultInv, RepliesOnlyWhenAsked
<1>6. CASE Reset(Idle) \/ Start(Idle)
  <2>1. staged' = NoWord /\ ui' = Idle
    BY <1>6 DEF Reset, Start
  <2> QED  BY <2>1, IdleFlow DEF NoFaultInv, RepliesOnlyWhenAsked
<1>7. CASE Quit(Idle)
  BY <1>7 DEF Quit, Waiting, NoFaultInv, RepliesOnlyWhenAsked
<1>8. CASE UNCHANGED vars
  BY <1>8 DEF vars, NoFaultInv, RepliesOnlyWhenAsked
<1> QED
  <2> HIDE DEF OK
  <2> QED  BY <1>1, <1>2, <1>3, <1>4, <1>5, <1>6, <1>7, <1>8 DEF Next, Button

\* As long as no system call raises an exception, nothing on the screen and
\* nothing staged can send a reply nobody asked for.
THEOREM AskedOnly ==
  ASSUME SyscallFaults = {}
  PROVE  Spec => []RepliesOnlyWhenAsked
<1>1. Init => NoFaultInv
  BY IdleFlow DEF Init, CoreInit, NoFaultInv, RepliesOnlyWhenAsked
<1>2. NoFaultInv /\ IndInv /\ [Next]_vars => NoFaultInv'
  BY AskedNext
<1>3. NoFaultInv => RepliesOnlyWhenAsked
  BY DEF NoFaultInv
<1> QED  BY <1>1, <1>2, <1>3, Invariance, PTL DEF Spec
=============================================================================
