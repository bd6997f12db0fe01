------------------------------ MODULE Firmware ------------------------------
(***************************************************************************)
(* What the Nano S and the Nano X build of the application share: the      *)
(* command loop of main.c with its conversion of exceptions into status    *)
(* words, the union of command contexts of ui.h, the upload part of        *)
(* handleSignTx and handleSignStaking, and the commands that never open a  *)
(* screen.                                                                 *)
(*                                                                         *)
(* The program is one thread.  It sits in io_exchange, which returns when  *)
(* a command arrives and which calls the button handlers while it waits;   *)
(* a handler therefore runs to its end as one step, and one action here is *)
(* one handler.  An exception leaves its handler at once, and the status   *)
(* word staged for it leaves the device in the next turn of the loop.      *)
(*                                                                         *)
(* The transport (io_exchange and below) belongs to the device's SDK and   *)
(* is modelled as main.c uses it: one command is outstanding at a time, a  *)
(* host's next command is not looked at before the outstanding one is      *)
(* answered, and replying when nothing is outstanding raises               *)
(* INVALID_STATE.                                                          *)
(***************************************************************************)
EXTENDS Integers, Sequences

CONSTANTS
  Byte,          \* the values of an uploaded byte
  Foreign,       \* a byte of buf[] written through getPublicKeyContext
  CmdBufferSize, \* CMD_BUFFER_SIZE, 255 in the code
  PkOverlay,     \* how many bytes of buf[] getPublicKeyContext overlays, 171
  SyscallFaults  \* exceptions the key derivation and signing calls may raise

ASSUME FirmwareAssumption ==
  /\ Foreign \notin Byte
  /\ CmdBufferSize \in Nat \ {0}
  /\ PkOverlay \in 0..CmdBufferSize
  /\ SyscallFaults \subseteq 1..15

VARIABLES
  on,       \* the application runs
  pending,  \* the command the host waits on, NoCmd when there is none
  staged,   \* the status word CATCH_OTHER left for the loop, NoWord if none
  asynch,   \* IO_ASYNCH_REPLY is set in the loop's flags
  apdu,     \* what G_io_apdu_buffer holds
  buf,      \* the first length bytes of buf[] of the two signing contexts
  parser,   \* txContext: "null" before any P1_FIRST, "fresh" after one, "used" after a parse
  ui,       \* the screen
  reply,    \* history: the reply to the last command, NoReply while it is awaited
  unbroken, \* history: buf[] was filled by one transfer that P1_FIRST opened,
            \* and nothing else wrote into it
  sent      \* history: the payload bytes of that transfer the device accepted

unionVars == <<buf, parser, unbroken, sent>>
vars == <<on, pending, staged, asynch, apdu, buf, parser, ui, reply, unbroken, sent>>

(***************************************************************************)
(* Commands, status words and exceptions                                   *)
(***************************************************************************)
SignIns == {"tx", "stake"}
Ins == SignIns \cup {"version", "pubkey", "unknown"}
NoCmd == "none"

\* What the user is shown: a getPublicKey address, a transaction, or a
\* staking transaction of one of the kinds that have screens of their own
\* (delegating and undelegating share theirs).
StakeFlows == {"create", "edit", "delegate", "collect"}
SignFlows == {"tx"} \cup StakeFlows
Flows == SignFlows \cup {"address"}

\* The command a flow answers
Server(flow) ==
  IF flow = "address" THEN "pubkey" ELSE IF flow = "tx" THEN "tx" ELSE "stake"

NoWord == 0

SW_OK == 36864             \* 0x9000
SW_USER_REJECTED == 27013  \* 0x6985
SW_INVALID_PARAM == 27393  \* 0x6B01
SW_BAD_CLA == 28160        \* 0x6E00
SW_BAD_INS == 27904        \* 0x6D00

INVALID_PARAMETER == 2
EXCEPTION_OVERFLOW == 3
INVALID_STATE == 9

\* A slip: the low bits are kept and the 0x6800 is left out.
StatusWordUnmasked(e) == IF e \div 4096 \in {6, 9} THEN e ELSE e % 2048

\* CATCH_OTHER: (e & 0xF000) is 0x6000 or 0x9000, or else 0x6800 | (e & 0x7FF)
StatusWord(e) == IF e \div 4096 \in {6, 9} THEN e ELSE 26624 + (e % 2048)

(***************************************************************************)
(* The memory the commands share                                           *)
(***************************************************************************)
MaxLength == 4 * CmdBufferSize
MaxSeq(S, n) == UNION {[1..m -> S] : m \in 0..n}
Payloads == MaxSeq(Byte, CmdBufferSize)

\* memset of getPublicKeyContext and the strings written there: the bytes
\* of buf[] under it are lost, length and txContext lie beyond it.
Clobber(b) == [i \in DOMAIN b |-> IF i <= PkOverlay THEN Foreign ELSE b[i]]

NoData == [kind |-> "none", bytes |-> <<>>]
Address == [kind |-> "address", bytes |-> <<>>]
Signature(b) == [kind |-> "signature", bytes |-> b]
NoReply == [to |-> NoCmd, sw |-> NoWord, data |-> NoData]

(***************************************************************************)
(* Replies and exceptions                                                  *)
(***************************************************************************)
\* io_exchange_with_code while command ins is outstanding
Answer(ins, sw, data) ==
  /\ pending' = NoCmd
  /\ reply' = [to |-> ins, sw |-> sw, data |-> data]

\* A slip: the loop does not reset flags before it calls the handler.
CommandThrowsKeepingFlag(ins, e) ==
  /\ pending' = ins
  /\ reply' = NoReply
  /\ staged' = StatusWord(e)
  /\ UNCHANGED asynch
  /\ apdu' = "other"

\* A command handler throws; one_main has just set flags and tx to 0.
CommandThrows(ins, e) ==
  /\ pending' = ins
  /\ reply' = NoReply
  /\ staged' = StatusWord(e)
  /\ asynch' = FALSE
  /\ apdu' = "other"

\* A command handler returns with IO_ASYNCH_REPLY set: a screen will answer.
CommandWaits(ins) ==
  /\ pending' = ins
  /\ reply' = NoReply
  /\ staged' = NoWord
  /\ asynch' = TRUE

\* A slip: CATCH_OTHER leaves IO_ASYNCH_REPLY set.
EventThrowsKeepingFlag(e) ==
  /\ staged' = StatusWord(e)
  /\ apdu' = "other"
  /\ UNCHANGED <<pending, reply, asynch>>

\* A button handler throws out of the io_exchange of one_main, where flags
\* still holds what the last command left there.
EventThrows(e) ==
  /\ staged' = StatusWord(e)
  /\ asynch' = (asynch /\ e = SW_OK)
  /\ apdu' = "other"
  /\ UNCHANGED <<pending, reply>>

Waiting == on /\ staged = NoWord
Listening == Waiting /\ pending = NoCmd

(***************************************************************************)
(* The loop of one_main                                                    *)
(***************************************************************************)
\* The loop turns and io_exchange sends what CATCH_OTHER staged, unless
\* IO_ASYNCH_REPLY is set.
SendStaged ==
  /\ on /\ staged # NoWord
  /\ IF asynch
     THEN /\ staged' = NoWord
          /\ UNCHANGED <<pending, reply>>
     ELSE IF pending = NoCmd
          THEN /\ staged' = StatusWord(INVALID_STATE)
               /\ UNCHANGED <<pending, reply>>
          ELSE /\ Answer(pending, staged, NoData)
               /\ staged' = NoWord
  /\ UNCHANGED <<on, asynch, apdu, ui>> /\ UNCHANGED unionVars

\* A command the loop refuses before any handler runs: CLA is not 0xE0, or
\* lookupHandler knows no such INS.
Refuse(sw) ==
  /\ Listening
  /\ CommandThrows("unknown", sw)
  /\ UNCHANGED <<on, ui>> /\ UNCHANGED unionVars

\* handleGetVersion answers before it returns.
GetVersion ==
  /\ Listening
  /\ Answer("version", SW_OK, NoData)
  /\ asynch' = FALSE
  /\ apdu' = "other"
  /\ UNCHANGED <<on, staged, ui>> /\ UNCHANGED unionVars

(***************************************************************************)
(* handleGetPublicKey                                                      *)
(***************************************************************************)
\* Every branch starts with the memset of the context.
PublicKeyMemset ==
  /\ buf' = Clobber(buf)
  /\ unbroken' = FALSE
  /\ sent' = <<>>
  /\ UNCHANGED parser

GetPublicKeySilent ==
  /\ Listening
  /\ PublicKeyMemset
  /\ Answer("pubkey", SW_OK, Address)
  /\ asynch' = TRUE
  /\ apdu' = "address"
  /\ UNCHANGED <<on, staged, ui>>

GetPublicKeyBadP2 ==
  /\ Listening
  /\ PublicKeyMemset
  /\ CommandThrows("pubkey", SW_INVALID_PARAM)
  /\ UNCHANGED <<on, ui>>

\* deriveOneKeypair raises an exception while the command is handled.
GetPublicKeyFault ==
  /\ Listening
  /\ PublicKeyMemset
  /\ \E e \in SyscallFaults : CommandThrows("pubkey", e)
  /\ UNCHANGED <<on, ui>>

(***************************************************************************)
(* The upload part of handleSignTx and handleSignStaking                   *)
(***************************************************************************)
\* P1_FIRST zeroes the context: the packet lands at offset 0.
Base(first) == IF first THEN <<>> ELSE buf

ParserAfter(first) == IF first THEN "fresh" ELSE parser

\* A slip: the packet alone is compared with the limit.
FitsAlone(first, data) == Len(data) <= MaxLength

Fits(first, data) == Len(Base(first)) + Len(data) <= MaxLength

\* The packet continues the transfer that fills buf[], or opens one.
Continues(first) == first \/ (unbroken /\ parser = "fresh")

\* The accepted packet is appended.
Store(first, data) ==
  /\ buf' = Base(first) \o data
  /\ unbroken' = Continues(first)
  /\ sent' = IF first THEN data
             ELSE IF Continues(first) THEN sent \o data ELSE <<>>

\* What the parsers cannot read to its end: an empty upload, for which they
\* return 1 at once, and one without any P1_FIRST since the start, when
\* workBuffer is null and what lies there is no transaction.
Unread(first) == buf' = <<>> \/ ParserAfter(first) = "null"

\* The packet that would not fit is refused; what P1_FIRST did remains.
RefuseUpload(ins, first, data) ==
  /\ Listening
  /\ ~Fits(first, data)
  /\ buf' = Base(first)
  /\ parser' = ParserAfter(first)
  /\ CommandThrows(ins, EXCEPTION_OVERFLOW)
  /\ UNCHANGED <<on, ui, unbroken, sent>>

\* A packet that is not the last of its transfer is acknowledged by SW_OK,
\* thrown like an error.
StoreChunk(ins, first, data) ==
  /\ Listening
  /\ Fits(first, data)
  /\ Store(first, data)
  /\ parser' = ParserAfter(first)
  /\ CommandThrows(ins, SW_OK)
  /\ UNCHANGED <<on, ui>>

(***************************************************************************)
(* Reset, exit and start of the application                                *)
(***************************************************************************)
\* EXCEPTION_IO_RESET, for a USB line that loses power or an empty command,
\* is rethrown by one_main and restarts its loop in main: the loop's locals,
\* the screen and the transport start afresh, the union keeps its content.
Reset(idle) ==
  /\ on /\ (staged = NoWord \/ pending # NoCmd)
  /\ pending' = NoCmd
  /\ reply' = NoReply
  /\ staged' = NoWord
  /\ asynch' = FALSE
  /\ ui' = idle
  /\ UNCHANGED <<on, apdu>> /\ UNCHANGED unionVars

\* os_sched_exit, from the main menu
Quit(idle) ==
  /\ Waiting
  /\ ui = idle
  /\ on' = FALSE
  /\ pending' = NoCmd
  /\ UNCHANGED <<staged, asynch, apdu, ui, reply>> /\ UNCHANGED unionVars

\* The user starts the application again, with its memory cleared.
Start(idle) ==
  /\ ~on
  /\ on' = TRUE
  /\ pending' = NoCmd
  /\ staged' = NoWord
  /\ asynch' = FALSE
  /\ apdu' = "other"
  /\ buf' = <<>>
  /\ parser' = "null"
  /\ ui' = idle
  /\ reply' = NoReply
  /\ unbroken' = FALSE
  /\ sent' = <<>>

CoreInit(idle) ==
  /\ on = TRUE
  /\ pending = NoCmd
  /\ staged = NoWord
  /\ asynch = FALSE
  /\ apdu = "other"
  /\ buf = <<>>
  /\ parser = "null"
  /\ ui = idle
  /\ reply = NoReply
  /\ unbroken = FALSE
  /\ sent = <<>>

\* The values of the shared variables
CoreTypeOK ==
  /\ on \in BOOLEAN
  /\ pending \in Ins \cup {NoCmd}
  /\ staged \in {NoWord, SW_OK} \cup 24576..28671
  /\ asynch \in BOOLEAN
  /\ apdu \in {"address", "other"}
  /\ buf \in Seq(Byte \cup {Foreign})
  /\ Len(buf) <= MaxLength
  /\ parser \in {"null", "fresh", "used"}
  /\ unbroken \in BOOLEAN
  /\ sent \in Seq(Byte)

ReplyType ==
  [to : Ins \cup {NoCmd}, sw : Nat,
   data : [kind : {"none", "address", "signature"}, bytes : Seq(Byte \cup {Foreign})]]

(***************************************************************************)
(* What both builds promise about their replies                            *)
(***************************************************************************)
\* A reply of success to getPublicKey carries the address: on the Nano X the
\* callback only sends what the handler left in G_io_apdu_buffer before the
\* user was asked (getPublicKey.c:43-63).
AddressIsDelivered ==
  reply.to = "pubkey" /\ reply.sw = SW_OK => reply.data = Address

\* Every reply ends in a status word that starts with 6, or in 0x9000
\* (main.c:207-212).
StatusWordsAreValid ==
  reply.to # NoCmd => reply.sw = SW_OK \/ reply.sw \in 24576..28671

SignatureSent == reply' # reply /\ reply'.data.kind = "signature"

\* A signing flow is on the screen for the outstanding command.
Reviewing == on /\ pending \in SignIns /\ staged = NoWord
=============================================================================
