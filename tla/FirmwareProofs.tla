--------------------------- MODULE FirmwareProofs ---------------------------
(***************************************************************************)
(* What the proofs about the two builds share, for every Byte,             *)
(* CmdBufferSize, PkOverlay and SyscallFaults that FirmwareAssumption      *)
(* admits: lemmas on the operators of Firmware, the types of its           *)
(* variables, and how the commands that open no screen end.                *)
(***************************************************************************)
EXTENDS Firmware, TLAPS

(***************************************************************************)
(* Lemmas on the operators of the model                                    *)
(***************************************************************************)
Thrown == (1..15) \cup {SW_OK, SW_INVALID_PARAM, SW_BAD_CLA, SW_BAD_INS}
Word == {SW_OK} \cup 24576..28671

\* The conversion of CATCH_OTHER maps every exception the application or its
\* system calls raise to 0x9000 or to a word that starts with 6, and never
\* to "nothing staged".
LEMMA StatusWordType ==
  ASSUME NEW e \in Thrown
  PROVE  StatusWord(e) \in Word /\ StatusWord(e) # NoWord
<1>1. CASE e \in 1..15
  <2>1. e \div 4096 = 0 /\ e % 2048 = e  BY <1>1
  <2> QED  BY <1>1, <2>1 DEF StatusWord, Word, NoWord
<1>2. CASE e = SW_OK
  BY <1>2 DEF StatusWord, Word, SW_OK, NoWord
<1>3. CASE e \in {SW_INVALID_PARAM, SW_BAD_CLA, SW_BAD_INS}
  BY <1>3 DEF StatusWord, Word, SW_INVALID_PARAM, SW_BAD_CLA, SW_BAD_INS, NoWord
<1> QED  BY <1>1, <1>2, <1>3 DEF Thrown

LEMMA SuccessWord ==
  ASSUME NEW e \in Thrown, StatusWord(e) = SW_OK
  PROVE  e = SW_OK
<1>1. CASE e \in 1..15
  <2>1. e \div 4096 = 0 /\ e % 2048 = e  BY <1>1
  <2> QED  BY <1>1, <2>1 DEF StatusWord, SW_OK
<1>2. CASE e \in {SW_INVALID_PARAM, SW_BAD_CLA, SW_BAD_INS}
  BY <1>2 DEF StatusWord, SW_INVALID_PARAM, SW_BAD_CLA, SW_BAD_INS, SW_OK
<1> QED  BY <1>1, <1>2 DEF Thrown

LEMMA CommandNames ==
  /\ NoCmd \notin Ins
  /\ "pubkey" \notin SignIns
  /\ SignIns \subseteq Ins
  BY DEF NoCmd, Ins, SignIns

LEMMA ServerValues ==
  ASSUME NEW flow \in Flows
  PROVE  /\ Server(flow) \in {"pubkey"} \cup SignIns
         /\ Server(flow) = "pubkey" <=> flow = "address"
         /\ Server(flow) = "stake" => flow \in StakeFlows
  BY DEF Server, Flows, SignFlows, StakeFlows, SignIns

Contents == Seq(Byte \cup {Foreign})

LEMMA ClobberType ==
  ASSUME NEW b \in Contents
  PROVE  Clobber(b) \in Contents /\ Len(Clobber(b)) = Len(b)
  BY DEF Clobber, Contents

LEMMA PayloadsType ==
  ASSUME NEW data \in Payloads
  PROVE  data \in Seq(Byte) /\ data \in Contents
  BY DEF Payloads, MaxSeq, Contents

\* The packet of P1_FIRST always fits.
LEMMA FirstFits ==
  ASSUME NEW data \in Payloads
  PROVE  Fits(TRUE, data)
<1>1. Len(data) \in 0..CmdBufferSize
  BY FirmwareAssumption DEF Payloads, MaxSeq
<1> QED  BY <1>1, FirmwareAssumption DEF Fits, Base, MaxLength

LEMMA DataTypes ==
  /\ NoData \in [kind : {"none", "address", "signature"}, bytes : Contents]
  /\ Address \in [kind : {"none", "address", "signature"}, bytes : Contents]
  /\ \A b \in Contents : Signature(b) \in
       [kind : {"none", "address", "signature"}, bytes : Contents]
  BY DEF NoData, Address, Signature, Contents

(***************************************************************************)
(* Type correctness, by the parts of the state an action changes           *)
(***************************************************************************)
LoopType ==
  /\ pending \in Ins \cup {NoCmd}
  /\ staged \in {NoWord} \cup Word
  /\ asynch \in BOOLEAN
  /\ apdu \in {"address", "other"}
  /\ reply \in ReplyType

UnionType ==
  /\ buf \in Contents
  /\ Len(buf) <= MaxLength
  /\ parser \in {"null", "fresh", "used"}
  /\ unbroken \in BOOLEAN
  /\ sent \in Seq(Byte)

CoreOK == on \in BOOLEAN /\ LoopType /\ UnionType

LEMMA CoreParts ==
  /\ CoreTypeOK /\ reply \in ReplyType <=> CoreOK
  /\ (CoreTypeOK /\ reply \in ReplyType)' <=> CoreOK'
<1>1. CoreTypeOK /\ reply \in ReplyType <=> CoreOK
  BY DEF CoreTypeOK, CoreOK, LoopType, UnionType, Word, Contents
<1>2. (CoreTypeOK /\ reply \in ReplyType)' <=> CoreOK'
  BY DEF CoreTypeOK, CoreOK, LoopType, UnionType, Word, Contents
<1> QED  BY <1>1, <1>2

LEMMA NoReplyType == NoReply \in ReplyType
  BY DEF NoReply, NoData, ReplyType, NoCmd, NoWord

LEMMA AnswerType ==
  ASSUME NEW ins \in Ins \cup {NoCmd}, NEW sw \in Nat, NEW data \in
           [kind : {"none", "address", "signature"}, bytes : Contents],
         Answer(ins, sw, data)
  PROVE  pending' \in Ins \cup {NoCmd} /\ reply' \in ReplyType
  BY DEF Answer, ReplyType, Contents

LEMMA CommandThrowsType ==
  ASSUME NEW ins \in Ins, NEW e \in Thrown, CommandThrows(ins, e)
  PROVE  LoopType'
  BY StatusWordType, NoReplyType DEF CommandThrows, LoopType

LEMMA EventThrowsType ==
  ASSUME LoopType, NEW e \in Thrown, EventThrows(e)
  PROVE  LoopType'
  BY StatusWordType DEF EventThrows, LoopType

LEMMA CommandWaitsType ==
  ASSUME NEW ins \in Ins, CommandWaits(ins), apdu' \in {"address", "other"}
  PROVE  LoopType'
  BY NoReplyType DEF CommandWaits, LoopType

LEMMA StoreType ==
  ASSUME UnionType, NEW first \in BOOLEAN, NEW data \in Payloads,
         Fits(first, data), Store(first, data), parser' \in {"null", "fresh", "used"}
  PROVE  UnionType'
<1>1. data \in Seq(Byte) /\ data \in Contents
  BY PayloadsType
<1>2. Base(first) \in Contents
  BY DEF Base, UnionType, Contents
<1>3. buf' \in Contents /\ Len(buf') <= MaxLength
  BY <1>1, <1>2 DEF Store, Fits, Contents
<1>4. unbroken' \in BOOLEAN
  BY DEF Store, Continues, UnionType
<1>5. sent' \in Seq(Byte)
  BY <1>1 DEF Store, UnionType
<1> QED  BY <1>3, <1>4, <1>5 DEF UnionType

LEMMA MemsetType ==
  ASSUME UnionType, PublicKeyMemset
  PROVE  UnionType'
<1>1. Clobber(buf) \in Contents /\ Len(Clobber(buf)) = Len(buf)
  BY ClobberType DEF UnionType
<1>2. buf' \in Contents /\ Len(buf') <= MaxLength
  BY <1>1 DEF UnionType, PublicKeyMemset
<1>3. sent' \in Seq(Byte)
  BY DEF PublicKeyMemset
<1>4. unbroken' \in BOOLEAN
  BY DEF PublicKeyMemset
<1>5. parser' \in {"null", "fresh", "used"}
  BY DEF UnionType, PublicKeyMemset
<1> QED  BY <1>2, <1>3, <1>4, <1>5 DEF UnionType

LEMMA UnchangedCore ==
  /\ UnionType /\ UNCHANGED unionVars => UnionType'
  /\ LoopType /\ UNCHANGED <<pending, staged, asynch, apdu, reply>> => LoopType'
  BY DEF unionVars, UnionType, LoopType

(***************************************************************************)
(* The commands that open no screen, alike in both builds                  *)
(***************************************************************************)
ScreenlessCommand ==
  \/ \E sw \in {SW_BAD_CLA, SW_BAD_INS} : Refuse(sw)
  \/ GetVersion
  \/ GetPublicKeySilent
  \/ GetPublicKeyBadP2
  \/ GetPublicKeyFault
  \/ \E ins \in SignIns, first \in BOOLEAN, data \in Payloads :
       RefuseUpload(ins, first, data) \/ StoreChunk(ins, first, data)

\* A command is answered at once, as GetVersion and GetPublicKeySilent do.
AnsweredAtOnce(ins, data) ==
  Answer(ins, SW_OK, data) /\ UNCHANGED staged /\ apdu' \in {"address", "other"}
  /\ asynch' \in BOOLEAN

\* Such a command throws, and throws 0x9000 only as the acknowledgement of a
\* chunk, or is answered at once; the screen is left alone.
LEMMA ScreenlessEnds ==
  ASSUME ScreenlessCommand
  PROVE  /\ Listening /\ UNCHANGED <<on, ui>>
         /\ \/ \E ins \in Ins, e \in Thrown :
                 CommandThrows(ins, e) /\ (e = SW_OK => ins \in SignIns)
            \/ \E ins \in Ins, data \in {NoData, Address} :
                 AnsweredAtOnce(ins, data) /\ (ins = "pubkey" => data = Address)
<1> DEFINE Throws ==
      \E ins \in Ins, e \in Thrown : CommandThrows(ins, e) /\ (e = SW_OK => ins \in SignIns)
    Answers ==
      \E ins \in Ins, data \in {NoData, Address} :
        AnsweredAtOnce(ins, data) /\ (ins = "pubkey" => data = Address)
    OK == Listening /\ UNCHANGED <<on, ui>> /\ (Throws \/ Answers)
<1> SUFFICES OK  OBVIOUS
<1>0. {"unknown", "version", "pubkey"} \cup SignIns \subseteq Ins
  BY DEF Ins
<1>1. ASSUME NEW sw \in {SW_BAD_CLA, SW_BAD_INS}, Refuse(sw)  PROVE OK
  <2>1. sw \in Thrown /\ sw # SW_OK
    BY DEF Thrown, SW_BAD_CLA, SW_BAD_INS, SW_OK
  <2> QED  BY <1>0, <1>1, <2>1 DEF Refuse
<1>2. CASE GetVersion
  BY <1>0, <1>2 DEF GetVersion, AnsweredAtOnce
<1>3. CASE GetPublicKeySilent
  BY <1>0, <1>3 DEF GetPublicKeySilent, AnsweredAtOnce
<1>4. CASE GetPublicKeyBadP2
  <2>1. SW_INVALID_PARAM \in Thrown /\ SW_INVALID_PARAM # SW_OK
    BY DEF Thrown, SW_INVALID_PARAM, SW_OK
  <2> QED  BY <1>0, <1>4, <2>1 DEF GetPublicKeyBadP2
<1>5. CASE GetPublicKeyFault
  <2>1. PICK e \in SyscallFaults : CommandThrows("pubkey", e)
    BY <1>5 DEF GetPublicKeyFault
  <2>2. e \in Thrown /\ e # SW_OK
    BY FirmwareAssumption DEF Thrown, SW_OK
  <2> QED  BY <1>0, <1>5, <2>1, <2>2 DEF GetPublicKeyFault
<1>6. ASSUME NEW ins \in SignIns, NEW first \in BOOLEAN, NEW data \in Payloads,
             RefuseUpload(ins, first, data) \/ StoreChunk(ins, first, data)
      PROVE  OK
  <2>1. {EXCEPTION_OVERFLOW, SW_OK} \subseteq Thrown
    BY DEF Thrown, EXCEPTION_OVERFLOW
  <2> QED  BY <1>0, <1>6, <2>1 DEF RefuseUpload, StoreChunk
<1> QED
  <2> HIDE DEF OK
  <2> QED  BY <1>1, <1>2, <1>3, <1>4, <1>5, <1>6 DEF ScreenlessCommand

\* They keep the types of the union: the limit on buf[] in particular.
LEMMA ScreenlessUnionType ==
  ASSUME UnionType, ScreenlessCommand
  PROVE  UnionType'
<1>1. CASE (\E sw \in {SW_BAD_CLA, SW_BAD_INS} : Refuse(sw)) \/ GetVersion
  BY <1>1, UnchangedCore DEF Refuse, GetVersion
<1>2. CASE GetPublicKeySilent \/ GetPublicKeyBadP2 \/ GetPublicKeyFault
  BY <1>2, MemsetType DEF GetPublicKeySilent, GetPublicKeyBadP2, GetPublicKeyFault
<1>3. ASSUME NEW ins \in SignIns, NEW first \in BOOLEAN, NEW data \in Payloads,
             RefuseUpload(ins, first, data)
      PROVE  UnionType'
  <2>1. MaxLength \in Nat
    BY FirmwareAssumption DEF MaxLength
  <2> QED  BY <1>3, <2>1 DEF RefuseUpload, UnionType, Base, ParserAfter, Contents
<1>4. ASSUME NEW ins \in SignIns, NEW first \in BOOLEAN, NEW data \in Payloads,
             StoreChunk(ins, first, data)
      PROVE  UnionType'
  <2>1. parser' \in {"null", "fresh", "used"}
    BY <1>4 DEF StoreChunk, UnionType, ParserAfter
  <2> QED  BY <1>4, <2>1, StoreType DEF StoreChunk
<1> QED  BY <1>1, <1>2, <1>3, <1>4 DEF ScreenlessCommand

LEMMA ScreenlessType ==
  ASSUME CoreOK, ScreenlessCommand
  PROVE  CoreOK' /\ UNCHANGED ui
<1>1. UnionType'
  BY ScreenlessUnionType DEF CoreOK
<1>2. ASSUME NEW ins \in Ins, NEW data \in {NoData, Address}, AnsweredAtOnce(ins, data)
      PROVE  LoopType'
  <2>1. SW_OK \in Nat /\ ins \in Ins \cup {NoCmd}
    BY DEF SW_OK
  <2>2. pending' \in Ins \cup {NoCmd} /\ reply' \in ReplyType
    BY <1>2, <2>1, AnswerType, DataTypes DEF AnsweredAtOnce
  <2> QED  BY <1>2, <2>2 DEF AnsweredAtOnce, CoreOK, LoopType
<1>3. LoopType'
  BY <1>2, ScreenlessEnds, CommandThrowsType
<1> QED  BY <1>1, <1>3, ScreenlessEnds DEF CoreOK

(***************************************************************************)
(* buf[] is what was accepted since P1_FIRST, as long as nothing broke the *)
(* transfer.                                                               *)
(***************************************************************************)
Filled == unbroken => buf = sent

LEMMA StoreFills ==
  ASSUME Filled, NEW first \in BOOLEAN, NEW data \in Payloads, Store(first, data)
  PROVE  /\ Filled'
         /\ unbroken' => ParserAfter(first) = "fresh"
<1>0. data \in Seq(Byte)
  BY PayloadsType
<1>1. CASE first
  <2>1. <<>> \o data = data
    BY <1>0
  <2> QED  BY <1>1, <2>1 DEF Store, Base, ParserAfter, Filled
<1>2. CASE ~first
  BY <1>2 DEF Store, Base, ParserAfter, Continues, Filled
<1> QED  BY <1>1, <1>2

LEMMA ScreenlessFills ==
  ASSUME Filled, ScreenlessCommand
  PROVE  Filled'
<1>1. CASE (\E sw \in {SW_BAD_CLA, SW_BAD_INS} : Refuse(sw)) \/ GetVersion
  BY <1>1 DEF Refuse, GetVersion, Filled, unionVars
<1>2. CASE GetPublicKeySilent \/ GetPublicKeyBadP2 \/ GetPublicKeyFault
  BY <1>2 DEF GetPublicKeySilent, GetPublicKeyBadP2, GetPublicKeyFault, PublicKeyMemset,
              Filled
<1>3. ASSUME NEW ins \in SignIns, NEW first \in BOOLEAN, NEW data \in Payloads,
             RefuseUpload(ins, first, data)
      PROVE  Filled'
  <2>1. ~first
    BY <1>3, FirstFits DEF RefuseUpload
  <2> QED  BY <1>3, <2>1 DEF RefuseUpload, Filled, Base
<1>4. ASSUME NEW ins \in SignIns, NEW first \in BOOLEAN, NEW data \in Payloads,
             StoreChunk(ins, first, data)
      PROVE  Filled'
  BY <1>4, StoreFills DEF StoreChunk
<1> QED  BY <1>1, <1>2, <1>3, <1>4 DEF ScreenlessCommand

(***************************************************************************)
(* The loop, and reset, exit and start                                     *)
(***************************************************************************)
LEMMA SendStagedCoreType ==
  ASSUME CoreOK, SendStaged
  PROVE  CoreOK' /\ UNCHANGED ui
<1>0. on \in BOOLEAN /\ LoopType /\ UnionType
  BY DEF CoreOK
<1>1. UNCHANGED <<on, asynch, apdu, ui>> /\ UNCHANGED unionVars
  BY DEF SendStaged
<1>2. CASE asynch
  BY <1>0, <1>1, <1>2, UnchangedCore DEF SendStaged, LoopType, CoreOK
<1>3. CASE ~asynch /\ pending = NoCmd
  <2>1. StatusWord(INVALID_STATE) \in Word
    BY StatusWordType DEF Thrown, INVALID_STATE
  <2> QED
    BY <1>0, <1>1, <1>3, <2>1, UnchangedCore DEF SendStaged, LoopType, CoreOK
<1>4. CASE ~asynch /\ pending # NoCmd
  <2>1. Answer(pending, staged, NoData) /\ staged' = NoWord
    BY <1>4 DEF SendStaged
  <2>2. staged \in Nat
    BY <1>0 DEF LoopType, Word, SW_OK, NoWord
  <2>3. pending' \in Ins \cup {NoCmd} /\ reply' \in ReplyType
    BY <1>0, <2>1, <2>2, AnswerType, DataTypes DEF LoopType
  <2>4. LoopType'
    BY <1>0, <1>1, <2>1, <2>3 DEF LoopType
  <2> QED  BY <1>0, <1>1, <2>4, UnchangedCore DEF CoreOK
<1> QED  BY <1>2, <1>3, <1>4

LEMMA RestartCoreType ==
  ASSUME CoreOK, NEW idle, Reset(idle) \/ Quit(idle) \/ Start(idle)
  PROVE  CoreOK' /\ ui' \in {ui, idle}
<1>0. on \in BOOLEAN /\ LoopType /\ UnionType
  BY DEF CoreOK
<1>1. CASE Reset(idle)
  <2>1. LoopType'
    BY <1>0, <1>1, NoReplyType DEF Reset, LoopType
  <2> QED  BY <1>0, <1>1, <2>1, UnchangedCore DEF Reset, CoreOK
<1>2. CASE Quit(idle)
  <2>1. LoopType'
    BY <1>0, <1>2 DEF Quit, LoopType
  <2> QED  BY <1>0, <1>2, <2>1, UnchangedCore DEF Quit, CoreOK
<1>3. CASE Start(idle)
  <2>1. LoopType'
    BY <1>3, NoReplyType DEF Start, LoopType
  <2>2. MaxLength \in Nat
    BY FirmwareAssumption DEF MaxLength
  <2>3. buf' \in Contents /\ Len(buf') <= MaxLength /\ sent' \in Seq(Byte)
    BY <1>3, <2>2 DEF Start, Contents
  <2>4. unbroken' \in BOOLEAN
    BY <1>3 DEF Start
  <2>5. UnionType'
    BY <1>3, <2>3, <2>4 DEF Start, UnionType
  <2> QED  BY <1>3, <2>1, <2>5 DEF Start, CoreOK
<1> QED  BY <1>1, <1>2, <1>3

LEMMA CoreInitType ==
  ASSUME NEW idle, CoreInit(idle)
  PROVE  CoreOK /\ ui = idle
<1>1. LoopType
  BY NoReplyType DEF CoreInit, LoopType
<1>2. MaxLength \in Nat
  BY FirmwareAssumption DEF MaxLength
<1>3. buf \in Contents /\ Len(buf) <= MaxLength /\ sent \in Seq(Byte)
  BY <1>2 DEF CoreInit, Contents
<1>4. unbroken \in BOOLEAN
  BY DEF CoreInit
<1>5. UnionType
  BY <1>3, <1>4 DEF CoreInit, UnionType
<1> QED  BY <1>1, <1>5 DEF CoreInit, CoreOK
=============================================================================
