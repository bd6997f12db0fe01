----------------------------- MODULE HidFraming -----------------------------
(***************************************************************************)
(* oneledger.go over USB HID: hidFramer cuts a command into packets and    *)
(* puts a reply together from packets, apduFramer reads the length of the  *)
(* reply and then the reply, and the methods of NanoS look at its status   *)
(* word and its size.  wallet/nano_S_driver.go has the same code.          *)
(*                                                                         *)
(* A program may end in the middle of an exchange, by a signal or by an    *)
(* error, which all commands of oneledger.go treat as fatal; the device    *)
(* does not notice and goes on with the command it has.  Packets to a      *)
(* closed handle are gone, and of those to an open one MaxLost may be      *)
(* lost, where the queue of the handle overflows.                          *)
(*                                                                         *)
(* The device's transport belongs to its SDK: it takes a command whose     *)
(* packets come in order, and nothing while it owes a reply.               *)
(***************************************************************************)
EXTENDS Integers, Sequences

CONSTANTS
  Room,         \* bytes in a packet after its header, 59
  Kinds,        \* of commands: GetVersion, GetAddress, SignTxn and SignStake
  Exact,        \* the kinds whose reply may not be longer, GetVersion
  Size,         \* bytes of the reply of each kind: 3, 42 and 65
  Packets,      \* packets of each command, 1 to 5
  Content,      \* the values of an answer's bytes; a signature may hold any
  MaxExchanges,
  MaxLost

ASSUME HidAssumption ==
  /\ Room \in Nat \ 0..1
  /\ Kinds # {} /\ Exact \subseteq Kinds
  /\ Size \in [Kinds -> Nat]
  /\ Packets \in [Kinds -> Nat \ {0}]
  /\ Content \in Seq(0..255)
  /\ \A kind \in Kinds : Size[kind] + 2 <= Len(Content)
  /\ MaxExchanges \in Nat /\ MaxLost \in Nat

VARIABLES
  pc,      \* of the program: "closed", "open", "writing", "length" or "reply"
  cmd,     \* the command of its last exchange
  written, \* packets of it that are written
  seq,     \* hidFramer.seq
  hbuf,    \* hidFramer.buf without the header
  pos,     \* hidFramer.pos, less the 5 bytes of the header
  p,       \* what io.ReadFull has so far
  need,    \* and how many bytes it is to read
  got,     \* what the exchange returned, <<>> before and after an error
  line,    \* packets that wait in the handle
  heard,   \* the device: packets of a command it has so far
  owed,    \* the command it has to reply to
  out,     \* packets of the reply not sent yet
  lost,
  clean,   \* history: the device owed no reply when the handle was opened
  cut      \* history: a program ended between two packets of its command

framer == <<seq, hbuf, pos>>
host == <<pc, cmd, written, p, need, got>>
device == <<heard, owed, out>>
vars == <<host, framer, device, line, lost, clean, cut>>

NoCommand == [id |-> 0, kind |-> "none"]
Busy == pc \in {"writing", "length", "reply"}

(***************************************************************************)
(* Bytes: of which command's reply, at which place, and the value          *)
(***************************************************************************)
Byte(of, at, value) == [of |-> of, at |-> at, value |-> value]
Padding == Byte(0, 0, 0)
U16(high, low) == 256 * high.value + low.value

codeSuccess == 36864
codeUserRejected == 27013

\* The length, the bytes of the answer, and the status word
Reply(c, code) ==
  LET size == IF code = codeSuccess THEN Size[c.kind] ELSE 0
  IN [n \in 1..(size + 4) |->
        Byte(c.id, n,
             CASE n = 1 -> (size + 2) \div 256
               [] n = 2 -> (size + 2) % 256
               [] n = size + 3 -> code \div 256
               [] n = size + 4 -> code % 256
               [] OTHER -> Content[n])]

\* The packets of a stream of bytes, the last one padded
Cut(bytes) ==
  [k \in 1..((Len(bytes) + Room - 1) \div Room) |->
     [seq |-> k - 1,
      bytes |-> [n \in 1..Room |->
                   IF (k - 1) * Room + n <= Len(bytes)
                   THEN bytes[(k - 1) * Room + n] ELSE Padding]]]

(***************************************************************************)
(* The program                                                             *)
(***************************************************************************)
Open ==
  /\ pc = "closed"
  /\ pc' = "open"
  /\ seq' = 0 /\ hbuf' = [n \in 1..Room |-> Padding] /\ pos' = 0
  /\ written' = 0 /\ p' = <<>> /\ need' = 0 /\ got' = <<>>
  /\ clean' = (owed = NoCommand)
  /\ UNCHANGED <<cmd, device, line, lost, cut>>

\* apduFramer.Exchange: hidFramer.Reset sets only seq.
Exchange(kind) ==
  /\ pc = "open" /\ cmd.id < MaxExchanges
  /\ pc' = "writing"
  /\ cmd' = [id |-> cmd.id + 1, kind |-> kind]
  /\ written' = 0 /\ got' = <<>>
  /\ seq' = 0
  /\ UNCHANGED <<p, need, hbuf, pos, device, line, lost, clean, cut>>

\* The packet n of command c reaches the device: see the module's comment.
Hear(c, n) ==
  IF owed # NoCommand THEN UNCHANGED device
  ELSE IF n # heard THEN heard' = 0 /\ UNCHANGED <<owed, out>>
  ELSE IF n + 1 < Packets[c.kind] THEN heard' = n + 1 /\ UNCHANGED <<owed, out>>
  ELSE heard' = 0 /\ owed' = c /\ UNCHANGED out

ReadFull(stage, n) == pc' = stage /\ p' = <<>> /\ need' = n

\* hidFramer.Write, one packet
Write ==
  /\ pc = "writing"
  /\ Hear(cmd, written)
  /\ written' = written + 1
  /\ IF written' = Packets[cmd.kind]
     THEN ReadFull("length", 2) ELSE UNCHANGED <<pc, p, need>>
  /\ UNCHANGED <<cmd, got, framer, line, lost, clean, cut>>

\* The program ends: an error, or a signal.
End ==
  /\ pc' = "closed"
  /\ line' = <<>>
  /\ UNCHANGED <<cmd, written, p, need, got>>

Reading == pc \in {"length", "reply"} /\ Len(p) < need
Copied(from) == IF need - Len(p) < Room - from THEN need - Len(p) ELSE Room - from

\* A slip: what is left of the packet is not compared with its end.
SomeIsLeftAlways == seq > 0

SomeIsLeft == seq > 0 /\ pos # Room

\* A slip: the sequence number is not looked at.
InSequenceAny(packet) == TRUE

InSequence(packet) == packet.seq = seq

\* hidFramer.Read when some of the packet is left
Drain ==
  /\ Reading /\ SomeIsLeft
  /\ p' = p \o SubSeq(hbuf, pos + 1, pos + Copied(pos))
  /\ pos' = pos + Copied(pos)
  /\ UNCHANGED <<pc, cmd, written, need, got, seq, hbuf, device, line, lost, clean, cut>>

\* hidFramer.Read of the next packet; it waits for one.
ReadPacket ==
  /\ Reading /\ ~SomeIsLeft
  /\ line # <<>>
  /\ hbuf' = Head(line).bytes
  /\ IF ~InSequence(Head(line))
     THEN End /\ UNCHANGED <<seq, pos>>
     ELSE /\ line' = Tail(line)
          /\ seq' = seq + 1
          /\ p' = p \o SubSeq(hbuf', 1, Copied(0))
          /\ pos' = Copied(0)
          /\ UNCHANGED <<pc, cmd, written, need, got>>
  /\ UNCHANGED <<device, lost, clean, cut>>

LengthRead ==
  /\ pc = "length" /\ Len(p) = need
  /\ ReadFull("reply", U16(p[1], p[2]))
  /\ UNCHANGED <<cmd, written, got, framer, device, line, lost, clean, cut>>

\* NanoS.Exchange, and what GetVersion, GetAddress and SignTxn ask of the
\* reply: an address or a signature is what the reply starts with.
Fitting(kind, n) == IF kind \in Exact THEN n = Size[kind] ELSE n >= Size[kind]

ReplyRead ==
  /\ pc = "reply" /\ Len(p) = need
  /\ IF /\ need >= 2
        /\ U16(p[need - 1], p[need]) = codeSuccess
        /\ Fitting(cmd.kind, need - 2)
     THEN /\ got' = SubSeq(p, 1, Size[cmd.kind])
          /\ pc' = "open"
          /\ UNCHANGED <<cmd, written, p, need, line>>
     ELSE End
  /\ UNCHANGED <<framer, device, lost, clean, cut>>

Abandon ==
  /\ Busy
  /\ End
  /\ cut' = (cut \/ (pc = "writing" /\ written > 0))
  /\ UNCHANGED <<framer, device, lost, clean>>

Close ==
  /\ pc = "open"
  /\ pc' = "closed" /\ line' = <<>>
  /\ UNCHANGED <<cmd, written, p, need, got, framer, device, lost, clean, cut>>

(***************************************************************************)
(* The device                                                              *)
(***************************************************************************)
Answer ==
  /\ owed # NoCommand /\ out = <<>>
  /\ \E code \in {codeSuccess, codeUserRejected} : out' = Cut(Reply(owed, code))
  /\ UNCHANGED <<heard, owed, host, framer, line, lost, clean, cut>>

SendPacket ==
  /\ out # <<>>
  /\ out' = Tail(out)
  /\ owed' = IF Len(out) = 1 THEN NoCommand ELSE owed
  /\ \/ line' = (IF pc = "closed" THEN <<>> ELSE Append(line, Head(out))) /\ UNCHANGED lost
     \/ pc # "closed" /\ lost < MaxLost /\ lost' = lost + 1 /\ UNCHANGED line
  /\ UNCHANGED <<heard, host, framer, clean, cut>>

Init ==
  /\ pc = "closed" /\ cmd = NoCommand /\ written = 0
  /\ p = <<>> /\ need = 0 /\ got = <<>>
  /\ seq = 0 /\ hbuf = [n \in 1..Room |-> Padding] /\ pos = 0
  /\ line = <<>>
  /\ heard = 0 /\ owed = NoCommand /\ out = <<>>
  /\ lost = 0 /\ clean = TRUE /\ cut = FALSE

Progress == Write \/ Drain \/ ReadPacket \/ LengthRead \/ ReplyRead

Next ==
  \/ Open \/ Close \/ Abandon
  \/ \E kind \in Kinds : Exchange(kind)
  \/ Progress
  \/ Answer \/ SendPacket

\* The program runs, the user decides, and the device sends.
Spec ==
  /\ Init /\ [][Next]_vars
  /\ WF_vars(Progress) /\ WF_vars(Answer) /\ WF_vars(SendPacket)

(***************************************************************************)
(* Correctness                                                             *)
(***************************************************************************)
\* What an exchange returns is a piece of one reply, from its first byte on
\* and without a gap, whatever was lost and whoever ended before; and it is
\* the reply to the command of this exchange if the device owed none when
\* the program opened it.  Otherwise the replies of this program may all be
\* those to earlier commands: nothing in a packet tells (oneledger.go:67-137).
ReturnedIsOneReply ==
  got # <<>> =>
    /\ \A n \in DOMAIN got : got[n].of = got[1].of /\ got[n].at = n + 2
    /\ clean => got[1].of = cmd.id

\* No exchange waits for ever, also after a program that ended while the
\* device owed it a reply, unless a packet was lost or a command was cut
\* between two of its packets.
ExchangeEnds == Busy ~> ~Busy \/ lost > 0 \/ cut

(***************************************************************************)
(* Why it holds: what the packets in the handle say of one another, and    *)
(* what the program has of the reply it reads.                             *)
(***************************************************************************)
Codes == {codeSuccess, codeUserRejected}

\* The kind of every command and the status word it is answered with; the
\* values of the commands that are not answered yet do not matter.
Histories == [1..MaxExchanges -> [kind : Kinds, code : Codes]]

ReplyTo(h, id) == Reply([id |-> id, kind |-> h[id].kind], h[id].code)
Of(x) == x.bytes[1].of

IsPacket(h, x) ==
  /\ Of(x) \in 1..MaxExchanges
  /\ x.seq + 1 \in 1..Len(Cut(ReplyTo(h, Of(x))))
  /\ x = Cut(ReplyTo(h, Of(x)))[x.seq + 1]

IsLast(h, x) == x.seq + 1 = Len(Cut(ReplyTo(h, Of(x))))

\* The packet an exchange reads from
HasCurrent == pc \in {"length", "reply"} /\ seq > 0
Current == [seq |-> seq - 1, bytes |-> hbuf]

\* The packet that was taken into the handle last
HasNewest == HasCurrent \/ line # <<>>
Newest == IF line = <<>> THEN Current ELSE line[Len(line)]

ByteType == [of : Nat, at : Nat, value : Nat]
PacketType == [seq : Nat, bytes : Seq(ByteType)]

HidTypeOK ==
  /\ line \in Seq(PacketType) /\ out \in Seq(PacketType)
  /\ pc \in {"closed", "open", "writing", "length", "reply"}
  /\ cmd \in {NoCommand} \cup [id : 1..MaxExchanges, kind : Kinds]
  /\ owed \in {NoCommand} \cup [id : 1..MaxExchanges, kind : Kinds]
  /\ owed.id <= cmd.id
  /\ seq \in Nat /\ lost \in 0..MaxLost /\ clean \in BOOLEAN
  /\ pc = "closed" => line = <<>>
  /\ Busy => cmd # NoCommand
  /\ pc = "writing" =>
       seq = 0 /\ owed.id < cmd.id /\ written \in 0..(Packets[cmd.kind] - 1)

\* What is sent is the rest of the reply that is owed.
OutInv(h) ==
  out # <<>> =>
    LET packets == Cut(ReplyTo(h, owed.id))
    IN  /\ owed # NoCommand /\ h[owed.id].kind = owed.kind
        /\ Len(out) \in 1..Len(packets)
        /\ out = SubSeq(packets, Len(packets) - Len(out) + 1, Len(packets))

\* No packet is of a command whose reply has not begun.
LineInv(h) ==
  /\ \A j \in DOMAIN line : IsPacket(h, line[j])
  /\ HasCurrent => IsPacket(h, Current)
  /\ \A j \in DOMAIN line :
       /\ Of(line[j]) <= cmd.id
       /\ pc = "writing" => Of(line[j]) < cmd.id
       /\ owed # NoCommand => Of(line[j]) <= owed.id
       /\ owed # NoCommand /\ out = <<>> => Of(line[j]) < owed.id
  /\ HasCurrent =>
       /\ Of(Current) <= cmd.id
       /\ owed # NoCommand => Of(Current) <= owed.id
       /\ owed # NoCommand /\ out = <<>> => Of(Current) < owed.id

\* Packets come in the order in which they were sent.
Before(x, y) == Of(x) < Of(y) \/ (Of(x) = Of(y) /\ x.seq < y.seq)

OrderInv ==
  /\ \A j, k \in DOMAIN line : j < k => Before(line[j], line[k])
  /\ HasCurrent => \A j \in DOMAIN line : Before(Current, line[j])
  /\ out # <<>> =>
       /\ \A j \in DOMAIN line : Before(line[j], Head(out))
       /\ HasCurrent => Before(Current, Head(out))

\* A packet of another reply can follow one that is not the last, and not be
\* a first one, only where two were lost: the rest of the one reply and the
\* beginning of the other.
Joins(h, x, y) == Of(x) = Of(y) \/ IsLast(h, x) \/ y.seq = 0

GapInv(h) ==
  /\ lost <= 1 =>
       /\ \A j \in 1..(Len(line) - 1) : Joins(h, line[j], line[j + 1])
       /\ HasCurrent /\ line # <<>> => Joins(h, Current, line[1])
  /\ HasNewest /\ ~IsLast(h, Newest) =>
       /\ out = <<>> \/ Of(Head(out)) # Of(Newest) => lost >= 1
       /\ out # <<>> /\ ~Joins(h, Newest, Head(out)) => lost >= 2

\* A program that found the device owing nothing meets no reply but its own.
CleanInv ==
  clean /\ pc # "closed" =>
    /\ owed \in {NoCommand, cmd}
    /\ \A j \in DOMAIN line : Of(line[j]) = cmd.id
    /\ HasCurrent => Of(Current) = cmd.id
    /\ pc \in {"open", "writing"} => owed = NoCommand /\ line = <<>>

Trusted == clean \/ lost <= 1

\* How far an exchange is into the reply it reads: Offset bytes of it were
\* its length, and the current packet is read up to pos.
Offset == IF pc = "reply" THEN 2 ELSE 0

ReadInv(h) ==
  Trusted /\ pc \in {"length", "reply"} =>
    /\ pc = "length" => need = 2
    /\ seq = 0 => pc = "length" /\ p = <<>>
    /\ seq > 0 =>
         LET reply == ReplyTo(h, Of(Current))
         IN  /\ pc = "reply" => need = Len(reply) - 2
             /\ pos \in 0..Room
             /\ Len(p) <= need
             /\ Offset + Len(p) = (seq - 1) * Room + pos
             /\ p = SubSeq(reply, Offset + 1, Offset + Len(p))

StreamInv(h) ==
  /\ OutInv(h) /\ LineInv(h) /\ OrderInv /\ GapInv(h) /\ CleanInv /\ ReadInv(h)

\* The inductive invariant
HidInv ==
  /\ HidTypeOK
  /\ \E h \in Histories : StreamInv(h)
  /\ Trusted => ReturnedIsOneReply
=============================================================================
