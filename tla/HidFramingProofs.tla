-------------------------- MODULE HidFramingProofs --------------------------
(***************************************************************************)
(* Theorems about the framing of oneledger.go, for every packet size, all  *)
(* kinds of commands with replies of any length, and any number of         *)
(* exchanges: what an exchange returns is a piece of one reply as long as  *)
(* at most one packet is lost, and the reply to its own command when the   *)
(* device owed none at the beginning, however many are lost.               *)
(***************************************************************************)
EXTENDS HidFraming, SequenceTheorems, TLAPS

(***************************************************************************)
(* Replies and their packets                                               *)
(***************************************************************************)
\* A reply names its command in every byte, numbers them, and begins with
\* the number of those that follow the length.
LEMMA ReplyShape ==
  ASSUME NEW h \in Histories, NEW id \in 1..MaxExchanges
  PROVE  /\ ReplyTo(h, id) \in Seq(ByteType)
         /\ Len(ReplyTo(h, id)) \in Nat /\ Len(ReplyTo(h, id)) >= 4
         /\ \A n \in 1..Len(ReplyTo(h, id)) :
              ReplyTo(h, id)[n].of = id /\ ReplyTo(h, id)[n].at = n
         /\ U16(ReplyTo(h, id)[1], ReplyTo(h, id)[2]) = Len(ReplyTo(h, id)) - 2
<1> DEFINE code == h[id].code
           size == IF code = codeSuccess THEN Size[h[id].kind] ELSE 0
           V(n) == CASE n = 1 -> (size + 2) \div 256
                     [] n = 2 -> (size + 2) % 256
                     [] n = size + 3 -> code \div 256
                     [] n = size + 4 -> code % 256
                     [] OTHER -> Content[n]
           r == [n \in 1..(size + 4) |-> Byte(id, n, V(n))]
<1>1. ReplyTo(h, id) = r
  BY DEF ReplyTo, Reply
<1>2. /\ h[id].kind \in Kinds /\ code \in {codeSuccess, codeUserRejected}
      /\ code \in Nat /\ MaxExchanges \in Nat
  BY HidAssumption DEF Histories, Codes, codeSuccess, codeUserRejected
<1>3. (size \in Nat /\ size + 2 <= Len(Content)) \/ size = 0
  BY <1>2, HidAssumption
<1>4. size \in Nat /\ Len(Content) \in Nat /\ Content \in Seq(0..255)
  BY <1>3, HidAssumption
<1> HIDE DEF size, code
<1>5. ASSUME NEW n \in 1..(size + 4)
      PROVE  V(n) \in Nat
  <2>1. CASE n \in {1, 2, size + 3, size + 4}
    <3>1. /\ (size + 2) \div 256 \in Nat /\ (size + 2) % 256 \in Nat
          /\ code \div 256 \in Nat /\ code % 256 \in Nat
      BY <1>2, <1>4
    <3> QED  BY <1>4, <2>1, <3>1
  <2>2. CASE n \notin {1, 2, size + 3, size + 4}
    <3>1. n \in 1..Len(Content)
      BY <1>3, <1>4, <1>5, <2>2
    <3>2. Content[n] \in 0..255
      BY <1>4, <3>1, ElementOfSeq
    <3> QED  BY <2>2, <3>2
  <2> QED  BY <2>1, <2>2
<1>6. V(1) = (size + 2) \div 256 /\ V(2) = (size + 2) % 256
  BY <1>4
<1> HIDE DEF V
<1>7. /\ r \in Seq(ByteType) /\ Len(r) = size + 4
      /\ \A n \in 1..(size + 4) : r[n] = Byte(id, n, V(n))
  <2>1. \A n \in 1..(size + 4) : Byte(id, n, V(n)) \in ByteType
    BY <1>2, <1>4, <1>5 DEF Byte, ByteType
  <2> QED  BY <1>4, <2>1
<1>8. U16(r[1], r[2]) = size + 2
  <2>1. r[1] = Byte(id, 1, V(1)) /\ r[2] = Byte(id, 2, V(2))
    BY <1>4, <1>7
  <2>2. 256 * ((size + 2) \div 256) + ((size + 2) % 256) = size + 2
    BY <1>4
  <2> QED  BY <1>6, <2>1, <2>2 DEF U16, Byte
<1>9. \A n \in 1..(size + 4) : r[n].of = id /\ r[n].at = n
  BY <1>7 DEF Byte
<1> HIDE DEF r
<1> QED  BY <1>1, <1>4, <1>7, <1>8, <1>9

\* The packets of a stream of bytes are as many as it needs, numbered from
\* zero, and hold it in order.
LEMMA CutShape ==
  ASSUME NEW r \in Seq(ByteType), Len(r) >= 4
  PROVE  /\ Len(Cut(r)) \in Nat \ {0} /\ Cut(r) \in Seq(PacketType)
         /\ (Len(Cut(r)) - 1) * Room < Len(r) /\ Len(r) <= Len(Cut(r)) * Room
         /\ \A k \in 1..Len(Cut(r)) :
              /\ Cut(r)[k] = [seq |-> k - 1, bytes |-> Cut(r)[k].bytes]
              /\ Cut(r)[k].seq = k - 1
              /\ Cut(r)[k].bytes \in Seq(ByteType) /\ Len(Cut(r)[k].bytes) = Room
              /\ \A n \in 1..Room : (k - 1) * Room + n <= Len(r) =>
                   Cut(r)[k].bytes[n] = r[(k - 1) * Room + n]
<1> DEFINE L == Len(r)
           q == (L + Room - 1) \div Room
           B(k) == [n \in 1..Room |-> IF (k - 1) * Room + n <= L
                                      THEN r[(k - 1) * Room + n] ELSE Padding]
<1>1. L \in Nat /\ L >= 4 /\ Room \in Nat \ 0..1
  BY HidAssumption
<1>2. q \in Int /\ q * Room <= L + Room - 1 /\ L + Room - 1 < q * Room + Room
  <2> HIDE DEF L
  <2> QED  BY <1>1
<1>3. q > 0
  <2> HIDE DEF L, q
  <2> QED  BY <1>1, <1>2
<1>4. q \in Nat \ {0} /\ (q - 1) * Room < L /\ L <= q * Room
  <2> HIDE DEF L, q
  <2>1. (q - 1) * Room = q * Room - Room
    BY <1>1, <1>2
  <2> QED  BY <1>1, <1>2, <1>3, <2>1
<1>5. Cut(r) = [k \in 1..q |-> [seq |-> k - 1, bytes |-> B(k)]]
  BY DEF Cut
<1>6. Padding \in ByteType
  BY DEF Padding, Byte, ByteType
<1>7. ASSUME NEW k \in 1..q
      PROVE  B(k) \in Seq(ByteType) /\ Len(B(k)) = Room
  <2>1. ASSUME NEW n \in 1..Room, (k - 1) * Room + n <= L
        PROVE  r[(k - 1) * Room + n] \in ByteType
    <3>1. (k - 1) * Room \in Nat
      BY <1>1, <1>4, <1>7
    <3>2. (k - 1) * Room + n \in 1..Len(r)
      BY <1>1, <2>1, <3>1
    <3> QED  BY <3>2
  <2>2. B(k) \in [1..Room -> ByteType]
    BY <1>6, <2>1
  <2> HIDE DEF B
  <2> QED  BY <1>1, <2>2
<1>8. \A k \in 1..q : \A n \in 1..Room :
        (k - 1) * Room + n <= L => B(k)[n] = r[(k - 1) * Room + n]
  OBVIOUS
<1> HIDE DEF L, q, B
<1>9. Len(Cut(r)) = q /\ \A k \in 1..q : Cut(r)[k] = [seq |-> k - 1, bytes |-> B(k)]
  BY <1>4, <1>5
<1>10. Cut(r) \in Seq(PacketType)
  <2>1. \A k \in 1..q : [seq |-> k - 1, bytes |-> B(k)] \in PacketType
    BY <1>4, <1>7 DEF PacketType
  <2> QED  BY <1>4, <1>5, <2>1
<1>11. \A k \in 1..q : Cut(r)[k].bytes = B(k) /\ Cut(r)[k].seq = k - 1
  BY <1>9
<1> QED  BY <1>4, <1>7, <1>8, <1>9, <1>10, <1>11 DEF L

\* A packet of a reply, by its number
LEMMA PacketShape ==
  ASSUME NEW h \in Histories, NEW id \in 1..MaxExchanges,
         NEW k \in 1..Len(Cut(ReplyTo(h, id)))
  PROVE  LET x == Cut(ReplyTo(h, id))[k]
         IN  x.seq = k - 1 /\ Of(x) = id /\ IsPacket(h, x)
<1> DEFINE r == ReplyTo(h, id)
           x == Cut(r)[k]
<1>1. /\ r \in Seq(ByteType) /\ Len(r) \in Nat /\ Len(r) >= 4
      /\ \A n \in 1..Len(r) : r[n].of = id
  BY ReplyShape
<1>2. /\ x.seq = k - 1 /\ Len(Cut(r)) \in Nat /\ (Len(Cut(r)) - 1) * Room < Len(r)
      /\ \A n \in 1..Room : (k - 1) * Room + n <= Len(r) =>
           x.bytes[n] = r[(k - 1) * Room + n]
  <2>1. k \in 1..Len(Cut(r))
    OBVIOUS
  <2> HIDE DEF r
  <2>2. /\ Len(Cut(r)) \in Nat /\ (Len(Cut(r)) - 1) * Room < Len(r)
        /\ \A i \in 1..Len(Cut(r)) :
             /\ Cut(r)[i].seq = i - 1
             /\ \A n \in 1..Room : (i - 1) * Room + n <= Len(r) =>
                  Cut(r)[i].bytes[n] = r[(i - 1) * Room + n]
    BY <1>1, CutShape
  <2> QED  BY <2>1, <2>2
<1> HIDE DEF r
<1>3. (k - 1) * Room \in Nat /\ (k - 1) * Room < Len(r) /\ 1 \in 1..Room
  <2> DEFINE q == Len(Cut(r))
  <2>1. q \in Nat /\ k \in 1..q /\ Room \in Nat \ 0..1 /\ (q - 1) * Room < Len(r)
    BY <1>2, HidAssumption DEF r
  <2> HIDE DEF q
  <2>2. (k - 1) * Room <= (q - 1) * Room
    BY <2>1
  <2> QED  BY <1>1, <2>1, <2>2
<1>4. x.bytes[1] = r[(k - 1) * Room + 1] /\ (k - 1) * Room + 1 \in 1..Len(r)
  BY <1>1, <1>2, <1>3
<1>5. Of(x) = id
  BY <1>1, <1>4 DEF Of
<1> QED  BY <1>2, <1>5 DEF IsPacket, r

\* A packet holds the piece of its reply that its number says.
LEMMA PacketPiece ==
  ASSUME NEW r \in Seq(ByteType), Len(r) >= 4, NEW k \in 1..Len(Cut(r)),
         NEW a \in 0..Room, NEW b \in a..Room, (k - 1) * Room + b <= Len(r)
  PROVE  SubSeq(Cut(r)[k].bytes, a + 1, b)
           = SubSeq(r, (k - 1) * Room + a + 1, (k - 1) * Room + b)
<1> DEFINE B == Cut(r)[k].bytes
           o == (k - 1) * Room
<1>1. /\ B \in Seq(ByteType) /\ Len(B) = Room
      /\ \A n \in 1..Room : o + n <= Len(r) => B[n] = r[o + n]
      /\ Len(Cut(r)) \in Nat
  BY CutShape
<1>2. o \in Nat /\ Room \in Nat /\ Len(r) \in Nat
  <2>1. Len(Cut(r)) \in Nat /\ Room \in Nat /\ k - 1 \in Nat
    BY <1>1, HidAssumption
  <2> QED  BY <2>1
<1> HIDE DEF B, o
<1>3. /\ SubSeq(B, a + 1, b) \in Seq(ByteType)
      /\ Len(SubSeq(B, a + 1, b)) = b - a
      /\ \A n \in 1..(b - a) : SubSeq(B, a + 1, b)[n] = B[a + n]
  <2>1. \A n \in (a + 1)..b : B[n] \in ByteType
    BY <1>1, <1>2
  <2> QED  BY <1>1, <1>2, <2>1, SubSeqProperties
<1>4. /\ SubSeq(r, o + a + 1, o + b) \in Seq(ByteType)
      /\ Len(SubSeq(r, o + a + 1, o + b)) = b - a
      /\ \A n \in 1..(b - a) : SubSeq(r, o + a + 1, o + b)[n] = r[o + a + n]
  <2>1. \A n \in (o + a + 1)..(o + b) : r[n] \in ByteType
    BY <1>2, (k - 1) * Room + b <= Len(r) DEF o
  <2> QED  BY <1>2, <2>1, SubSeqProperties, SMTT(30)
<1>5. \A n \in 1..(b - a) : B[a + n] = r[o + a + n]
  BY <1>1, <1>2, (k - 1) * Room + b <= Len(r) DEF o
<1>6. SubSeq(B, a + 1, b) = SubSeq(r, o + a + 1, o + b)
  BY <1>2, <1>3, <1>4, <1>5, SeqEqual
<1> QED  BY <1>6 DEF B, o

LEMMA PacketFacts ==
  ASSUME NEW h \in Histories, NEW x, IsPacket(h, x)
  PROVE  /\ Of(x) \in 1..MaxExchanges /\ x.seq \in Nat
         /\ x = [seq |-> x.seq, bytes |-> x.bytes]
         /\ Len(Cut(ReplyTo(h, Of(x)))) \in Nat
         /\ x.seq + 1 <= Len(Cut(ReplyTo(h, Of(x))))
<1> DEFINE C == Cut(ReplyTo(h, Of(x)))
           k == x.seq + 1
<1>1. Of(x) \in 1..MaxExchanges /\ k \in 1..Len(C) /\ x = C[k]
  BY DEF IsPacket
<1>2. /\ Len(C) \in Nat
      /\ \A i \in 1..Len(C) : C[i] = [seq |-> i - 1, bytes |-> C[i].bytes] /\ C[i].seq = i - 1
  BY <1>1, ReplyShape, CutShape
<1> HIDE DEF C
<1>3. x.seq = k - 1 /\ x = [seq |-> k - 1, bytes |-> x.bytes]
  <2> HIDE DEF k
  <2> QED  BY <1>1, <1>2
<1>4. k \in Nat /\ k - 1 \in Nat
  <2> HIDE DEF k
  <2> QED  BY <1>1, <1>2
<1>5. x.seq \in Nat /\ x = [seq |-> x.seq, bytes |-> x.bytes]
  <2> HIDE DEF k
  <2> QED  BY <1>3, <1>4
<1>6. x.seq + 1 <= Len(C)
  BY <1>1, <1>2, <1>5
<1> QED  BY <1>1, <1>2, <1>5, <1>6 DEF C

(***************************************************************************)
(* Types                                                                   *)
(***************************************************************************)
LEMMA NoCommandId == NoCommand.id = 0 /\ 0 \notin 1..MaxExchanges
  BY HidAssumption DEF NoCommand

LEMMA NoPackets == <<>> \in Seq(PacketType)
  OBVIOUS

LEMMA HidTypeInit == Init => HidTypeOK
  BY HidAssumption, NoCommandId, NoPackets DEF Init, HidTypeOK, Busy

LEMMA WriteType ==
  ASSUME HidTypeOK, Write
  PROVE  HidTypeOK'
<1>1. /\ cmd \in [id : 1..MaxExchanges, kind : Kinds] /\ cmd.id \in Nat
      /\ written \in 0..(Packets[cmd.kind] - 1) /\ Packets[cmd.kind] \in Nat \ {0}
      /\ owed.id < cmd.id /\ seq = 0
  BY HidAssumption, NoCommandId DEF HidTypeOK, Write, Busy
<1>a. UNCHANGED <<line, out>>
  BY DEF Write, Hear, device
<1>2. CASE written' = Packets[cmd.kind]
  <2>1. pc' = "length" /\ owed' \in {owed, cmd}
    BY <1>2 DEF Write, ReadFull, Hear, device
  <2> QED  BY <1>1, <1>a, <2>1 DEF HidTypeOK, Write, Busy, framer
<1>3. CASE written' # Packets[cmd.kind]
  <2>1. written + 1 < Packets[cmd.kind] /\ written' = written + 1
    BY <1>1, <1>3 DEF Write
  <2>2. pc' = "writing" /\ owed' = owed
    BY <1>3, <2>1 DEF Write, Hear, device
  <2> QED  BY <1>1, <1>a, <2>1, <2>2 DEF HidTypeOK, Write, Busy, framer
<1> QED  BY <1>2, <1>3

LEMMA HidTypeNext == HidTypeOK /\ [Next]_vars => HidTypeOK'
<1> SUFFICES ASSUME HidTypeOK, [Next]_vars PROVE HidTypeOK'
  OBVIOUS
<1> USE DEF HidTypeOK, Busy
<1>1. CASE Open
  BY <1>1 DEF Open, device
<1>2. CASE Close \/ Abandon
  BY <1>2, NoPackets DEF Close, Abandon, End, framer, device
<1>3. ASSUME NEW kind \in Kinds, Exchange(kind)
      PROVE  HidTypeOK'
  <2>1. cmd.id \in Nat /\ cmd.id + 1 \in 1..MaxExchanges /\ owed.id \in Nat
    <3>1. MaxExchanges \in Nat
      BY HidAssumption
    <3>2. cmd.id \in Nat /\ owed.id \in Nat /\ cmd.id < MaxExchanges
      BY <1>3, <3>1, NoCommandId DEF Exchange
    <3> QED  BY <3>1, <3>2
  <2>2. /\ cmd' = [id |-> cmd.id + 1, kind |-> kind] /\ cmd' \in [id : 1..MaxExchanges, kind : Kinds]
        /\ cmd'.id = cmd.id + 1 /\ cmd'.kind = kind
    BY <1>3, <2>1 DEF Exchange
  <2>3. 0 \in 0..(Packets[kind] - 1) /\ cmd' # NoCommand
    BY <2>1, <2>2, HidAssumption, NoCommandId
  <2>4. pc' = "writing" /\ written' = 0 /\ seq' = 0 /\ UNCHANGED <<device, line, lost, clean>>
    BY <1>3 DEF Exchange
  <2> QED  BY <2>1, <2>2, <2>3, <2>4 DEF device
<1>4. CASE Write
  BY <1>4, WriteType
<1>5. CASE Drain
  BY <1>5 DEF Drain, Reading, device
<1>6. CASE ReadPacket
  <2>1. line' \in Seq(PacketType) /\ (pc' = "closed" => line' = <<>>)
    <3>1. line # <<>> /\ line' \in {<<>>, Tail(line)} /\ (pc' = "closed" => line' = <<>>)
      BY <1>6 DEF ReadPacket, Reading, End
    <3>2. line \in Seq(PacketType)
      OBVIOUS
    <3> HIDE DEF HidTypeOK, Busy
    <3>3. Tail(line) \in Seq(PacketType)
      BY <3>1, <3>2, HeadTailProperties
    <3> QED  BY <3>1, <3>3, NoPackets
  <2> QED  BY <1>6, <2>1 DEF ReadPacket, Reading, End, device
<1>7. CASE LengthRead
  BY <1>7 DEF LengthRead, ReadFull, framer, device
<1>8. CASE ReplyRead
  BY <1>8, NoPackets DEF ReplyRead, End, framer, device
<1>9. CASE Answer
  <2>1. owed \in [id : 1..MaxExchanges, kind : Kinds]
    BY <1>9 DEF Answer
  <2>2. PICK code \in Codes : out' = Cut(Reply(owed, code))
    BY <1>9 DEF Answer, Codes
  <2>3. PICK h \in Histories : h = [id \in 1..MaxExchanges |-> [kind |-> owed.kind, code |-> code]]
    BY <2>1 DEF Histories
  <2>4. owed = [id |-> owed.id, kind |-> owed.kind] /\ ReplyTo(h, owed.id) = Reply(owed, code)
    BY <2>1, <2>3 DEF ReplyTo
  <2>5. out' \in Seq(PacketType)
    BY <2>1, <2>2, <2>4, ReplyShape, CutShape
  <2> QED  BY <1>9, <2>5 DEF Answer, host, framer
<1>10. CASE SendPacket
  <2>0. out' \in Seq(PacketType) /\ line' \in Seq(PacketType)
    <3>1. Head(out) \in PacketType /\ Tail(out) \in Seq(PacketType)
      BY <1>10, HeadTailProperties DEF SendPacket
    <3>2. Append(line, Head(out)) \in Seq(PacketType)
      BY <3>1, AppendProperties
    <3> QED  BY <1>10, <3>1, <3>2, NoPackets DEF SendPacket
  <2>1. /\ UNCHANGED <<pc, cmd, written, seq, clean>> /\ owed' \in {owed, NoCommand}
        /\ (pc = "closed" => line' = <<>>)
    BY <1>10 DEF SendPacket, host, framer
  <2>2. lost' \in 0..MaxLost
    BY <1>10, HidAssumption, SMTT(30) DEF SendPacket
  <2>3. owed'.id <= cmd'.id /\ (owed.id < cmd.id => owed'.id < cmd'.id)
    <3>1. cmd.id \in Nat /\ owed.id \in Nat
      BY HidAssumption, NoCommandId
    <3>2. owed'.id \in {owed.id, 0}
      BY <2>1, NoCommandId
    <3> QED  BY <2>1, <3>1, <3>2
  <2> QED  BY <2>0, <2>1, <2>2, <2>3
<1>11. CASE UNCHANGED vars
  BY <1>11 DEF vars, host, framer, device
<1> QED
  <2> HIDE DEF HidTypeOK, Busy
  <2> QED  BY <1>1, <1>2, <1>3, <1>4, <1>5, <1>6, <1>7, <1>8, <1>9, <1>10, <1>11
           DEF Next, Progress

(***************************************************************************)
(* Opening, closing and writing                                            *)
(***************************************************************************)
\* A handle that is closed or just opened holds no packet.
LEMMA EmptyKeeps ==
  ASSUME NEW h \in Histories, OutInv(h), line' = <<>>, UNCHANGED <<out, owed>>,
         pc' \in {"closed", "open"}, pc' = "closed" \/ (clean' => owed = NoCommand)
  PROVE  StreamInv(h)'
<1>1. ~HasCurrent' /\ ~HasNewest' /\ DOMAIN line' = {} /\ Len(line') = 0
  BY DEF HasCurrent, HasNewest
<1>2. OutInv(h)'
  BY DEF OutInv
<1>3. LineInv(h)' /\ OrderInv' /\ CleanInv' /\ ReadInv(h)'
  BY <1>1 DEF LineInv, OrderInv, CleanInv, ReadInv
<1>4. GapInv(h)'
  BY <1>1 DEF GapInv
<1> QED  BY <1>2, <1>3, <1>4 DEF StreamInv

LEMMA ExchangeKeeps ==
  ASSUME HidTypeOK, NEW h \in Histories, StreamInv(h), NEW kind \in Kinds, Exchange(kind)
  PROVE  StreamInv(h)'
<1>0. OutInv(h) /\ LineInv(h) /\ OrderInv /\ GapInv(h) /\ CleanInv /\ line \in Seq(PacketType)
  BY DEF StreamInv, HidTypeOK
<1>1. /\ pc = "open" /\ pc' = "writing" /\ cmd'.id = cmd.id + 1
      /\ UNCHANGED <<out, owed, line, lost, clean>>
  BY DEF Exchange, device
<1>2. ~HasCurrent' /\ (HasNewest' => line # <<>> /\ Newest' = Newest /\ HasNewest)
  BY <1>1 DEF HasCurrent, HasNewest, Newest
<1>3. OutInv(h)'
  BY <1>0, <1>1 DEF OutInv
<1>4. LineInv(h)'
  <2>1. \A j \in DOMAIN line : Of(line[j]) \in Nat /\ Of(line[j]) <= cmd.id
    BY <1>0, PacketFacts DEF LineInv
  <2>2. cmd.id \in Nat
    BY HidAssumption, NoCommandId DEF HidTypeOK
  <2>3. \A j \in DOMAIN line : Of(line[j]) < cmd.id + 1 /\ Of(line[j]) <= cmd.id + 1
    BY <2>1, <2>2
  <2> QED  BY <1>0, <1>1, <1>2, <2>3 DEF LineInv
<1>5. OrderInv'
  BY <1>0, <1>1, <1>2 DEF OrderInv
<1>6. GapInv(h)'
  BY <1>0, <1>1, <1>2 DEF GapInv
<1>7. CleanInv'
  BY <1>0, <1>1, <1>2 DEF CleanInv
<1>8. ReadInv(h)'
  BY <1>1 DEF ReadInv
<1> QED  BY <1>3, <1>4, <1>5, <1>6, <1>7, <1>8 DEF StreamInv

LEMMA WriteKeeps ==
  ASSUME HidTypeOK, NEW h \in Histories, StreamInv(h), Write
  PROVE  StreamInv(h)'
<1>0. OutInv(h) /\ LineInv(h) /\ OrderInv /\ GapInv(h) /\ CleanInv /\ line \in Seq(PacketType)
  BY DEF StreamInv, HidTypeOK
<1>1. /\ pc = "writing" /\ seq = 0 /\ seq' = 0
      /\ UNCHANGED <<out, cmd, line, lost, clean, hbuf>>
  BY DEF Write, HidTypeOK, framer, Hear, device
<1>2. \/ pc' = "length" /\ p' = <<>> /\ need' = 2 /\ owed' = owed
      \/ pc' = "length" /\ p' = <<>> /\ need' = 2 /\ owed = NoCommand /\ owed' = cmd
      \/ pc' = "writing" /\ owed' = owed
  <2>1. written \in 0..(Packets[cmd.kind] - 1) /\ Packets[cmd.kind] \in Nat
    BY HidAssumption, NoCommandId DEF Write, HidTypeOK, Busy
  <2>2. CASE written' = Packets[cmd.kind]
    BY <2>2 DEF Write, ReadFull, Hear, device
  <2>3. CASE written' # Packets[cmd.kind]
    <3>1. written + 1 < Packets[cmd.kind]
      BY <2>1, <2>3 DEF Write
    <3> QED  BY <1>1, <2>3, <3>1 DEF Write, Hear, device
  <2> QED  BY <2>2, <2>3
<1>3. ~HasCurrent /\ ~HasCurrent' /\ Newest' = Newest /\ HasNewest' = HasNewest
  BY <1>1 DEF HasCurrent, HasNewest, Newest, Current
<1>4. OutInv(h)'
  BY <1>0, <1>1, <1>2 DEF OutInv
<1>5. LineInv(h)'
  <2>1. \A j \in DOMAIN line : Of(line[j]) \in Nat /\ Of(line[j]) < cmd.id
    BY <1>0, <1>1, PacketFacts DEF LineInv
  <2>2. cmd.id \in Nat
    BY HidAssumption, NoCommandId DEF HidTypeOK
  <2>3. \A j \in DOMAIN line : Of(line[j]) < cmd.id /\ Of(line[j]) <= cmd.id
    BY <2>1, <2>2
  <2> QED  BY <1>0, <1>1, <1>2, <1>3, <2>3 DEF LineInv
<1>6. OrderInv'
  BY <1>0, <1>1, <1>3 DEF OrderInv
<1>7. GapInv(h)'
  BY <1>0, <1>1, <1>3 DEF GapInv
<1>8. CleanInv'
  BY <1>0, <1>1, <1>2, <1>3 DEF CleanInv
<1>9. ReadInv(h)'
  BY <1>1, <1>2 DEF ReadInv
<1> QED  BY <1>4, <1>5, <1>6, <1>7, <1>8, <1>9 DEF StreamInv

(***************************************************************************)
(* Reading                                                                 *)
(***************************************************************************)
\* An exchange has read n of the bytes it wants of the reply r, which are
\* its bytes after off, and goes on to read c bytes of packet k after from.
ReadsOn(r, k, off, n, wanted, from, c, s) ==
  /\ r \in Seq(ByteType) /\ Len(r) >= 4 /\ k \in 1..Len(Cut(r))
  /\ off \in {0, 2} /\ n \in Nat /\ wanted \in Nat /\ n <= wanted
  /\ off + wanted <= Len(r) /\ from \in 0..Room /\ off + n = (k - 1) * Room + from
  /\ c = IF wanted - n < Room - from THEN wanted - n ELSE Room - from
  /\ s = SubSeq(r, off + 1, off + n) \o SubSeq(Cut(r)[k].bytes, from + 1, from + c)

\* What is read then continues what was read.
LEMMA ReadOn ==
  ASSUME NEW r, NEW k, NEW off, NEW n, NEW wanted, NEW from, NEW c, NEW s,
         ReadsOn(r, k, off, n, wanted, from, c, s)
  PROVE  /\ c \in Nat /\ from + c \in 0..Room /\ n + c <= wanted
         /\ off + (n + c) = (k - 1) * Room + (from + c)
         /\ s = SubSeq(r, off + 1, off + (n + c)) /\ Len(s) = n + c
<1> DEFINE o == (k - 1) * Room
<1>0. /\ r \in Seq(ByteType) /\ Len(r) >= 4 /\ k \in 1..Len(Cut(r))
      /\ off \in {0, 2} /\ n \in Nat /\ wanted \in Nat /\ n <= wanted
      /\ off + wanted <= Len(r) /\ from \in 0..Room /\ off + n = o + from
      /\ c = IF wanted - n < Room - from THEN wanted - n ELSE Room - from
      /\ s = SubSeq(r, off + 1, off + n) \o SubSeq(Cut(r)[k].bytes, from + 1, from + c)
  BY DEF ReadsOn
<1>1. Room \in Nat /\ Len(Cut(r)) \in Nat /\ Len(r) \in Nat
  BY <1>0, HidAssumption, CutShape
<1>2. o \in Nat /\ off + n = o + from
  BY <1>0, <1>1
<1>3. c \in Nat /\ from + c \in from..Room /\ from + c \in 0..Room /\ n + c <= wanted
  BY <1>0, <1>1
<1> HIDE DEF o
<1>4. o + (from + c) <= Len(r) /\ off + (n + c) = o + (from + c) /\ o + from + 1 = off + n + 1
  BY <1>0, <1>1, <1>2, <1>3
<1>5. SubSeq(Cut(r)[k].bytes, from + 1, from + c) = SubSeq(r, off + n + 1, off + (n + c))
  <2>1. SubSeq(Cut(r)[k].bytes, from + 1, from + c)
          = SubSeq(r, o + from + 1, o + (from + c))
    BY <1>0, <1>3, <1>4, PacketPiece DEF o
  <2> QED  BY <1>4, <2>1
<1>6. /\ off + 1 \in 1..Len(r) + 1 /\ off + n \in ((off + 1) - 1)..Len(r)
      /\ off + (n + c) \in (off + n)..Len(r)
  BY <1>0, <1>1, <1>3, <1>4, SMTT(30)
<1>7. SubSeq(r, off + 1, off + n) \o SubSeq(r, off + n + 1, off + (n + c))
        = SubSeq(r, off + 1, off + (n + c))
  BY <1>0, <1>6, ConcatAdjacentSubSeq
<1>8. Len(SubSeq(r, off + 1, off + (n + c))) = n + c
  <2> DEFINE first == off + 1
             last == off + (n + c)
  <2>1. first \in 1..Len(r) + 1 /\ last \in (first - 1)..Len(r) /\ last - first + 1 = n + c
    BY <1>0, <1>1, <1>3, <1>4, SMTT(30)
  <2> HIDE DEF first, last
  <2>2. first \in Int /\ last \in Int /\ \A i \in first..last : r[i] \in ByteType
    BY <1>0, <1>1, <2>1, SMTT(30)
  <2>3. Len(SubSeq(r, first, last)) = IF first <= last THEN last - first + 1 ELSE 0
    BY <2>2, SubSeqProperties
  <2>4. Len(SubSeq(r, first, last)) = n + c
    BY <1>1, <2>1, <2>2, <2>3
  <2> QED  BY <2>4 DEF first, last
<1> QED  BY <1>0, <1>3, <1>4, <1>5, <1>7, <1>8 DEF o

\* The current packet is one of its reply.
LEMMA CurrentPacket ==
  ASSUME NEW h \in Histories, seq \in Nat \ {0}, IsPacket(h, Current)
  PROVE  LET reply == ReplyTo(h, Of(Current))
         IN  /\ reply \in Seq(ByteType) /\ Len(reply) \in Nat /\ Len(reply) >= 4
             /\ seq \in 1..Len(Cut(reply)) /\ hbuf = Cut(reply)[seq].bytes
             /\ Len(Cut(reply)) \in Nat
             /\ (Len(Cut(reply)) - 1) * Room < Len(reply)
             /\ Len(reply) <= Len(Cut(reply)) * Room
             /\ IsLast(h, Current) <=> seq = Len(Cut(reply))
<1> DEFINE reply == ReplyTo(h, Of(Current))
<1>1. Current.seq = seq - 1 /\ Current.bytes = hbuf /\ (seq - 1) + 1 = seq
  BY DEF Current
<1>2. Of(Current) \in 1..MaxExchanges /\ seq \in 1..Len(Cut(reply)) /\ Current = Cut(reply)[seq]
  BY <1>1 DEF IsPacket
<1>3. reply \in Seq(ByteType) /\ Len(reply) \in Nat /\ Len(reply) >= 4
  BY <1>2, ReplyShape
<1>4. IsLast(h, Current) <=> seq = Len(Cut(reply))
  BY <1>1 DEF IsLast
<1>5. hbuf = Cut(reply)[seq].bytes
  BY <1>1, <1>2
<1> HIDE DEF reply
<1> QED  BY <1>2, <1>3, <1>4, <1>5, CutShape DEF reply

\* The variables most invariants speak of do not change.
LEMMA StreamUntouched ==
  ASSUME NEW h \in Histories, StreamInv(h), pc \in {"length", "reply"},
         pc' \in {"length", "reply"},
         UNCHANGED <<line, out, owed, seq, hbuf, lost, clean, cmd>>
  PROVE  OutInv(h)' /\ LineInv(h)' /\ OrderInv' /\ GapInv(h)' /\ CleanInv'
<1>0. OutInv(h) /\ LineInv(h) /\ OrderInv /\ GapInv(h) /\ CleanInv
  BY DEF StreamInv
<1>1. HasCurrent' = HasCurrent /\ Current' = Current /\ HasNewest' = HasNewest /\ Newest' = Newest
  BY DEF HasCurrent, Current, HasNewest, Newest
<1>2. OutInv(h)' /\ OrderInv'
  BY <1>0, <1>1 DEF OutInv, OrderInv
<1>3. LineInv(h)'
  BY <1>0, <1>1 DEF LineInv
<1>4. GapInv(h)'
  BY <1>0, <1>1 DEF GapInv
<1>5. CleanInv'
  BY <1>0, <1>1 DEF CleanInv
<1> QED  BY <1>2, <1>3, <1>4, <1>5

\* What an exchange still wants of a reply is there.
LEMMA WantedIsThere ==
  ASSUME NEW h \in Histories, StreamInv(h), Trusted, HasCurrent, seq \in Nat
  PROVE  LET reply == ReplyTo(h, Of(Current))
         IN  /\ Offset \in {0, 2} /\ need \in Nat /\ Offset + need <= Len(reply)
             /\ Len(p) \in Nat /\ Len(p) <= need /\ pos \in 0..Room
             /\ Offset + Len(p) = (seq - 1) * Room + pos
             /\ p = SubSeq(reply, Offset + 1, Offset + Len(p))
<1> DEFINE reply == ReplyTo(h, Of(Current))
<1>1. pc \in {"length", "reply"} /\ seq \in Nat \ {0} /\ seq > 0
  BY DEF HasCurrent
<1>2. IsPacket(h, Current)
  BY DEF StreamInv, LineInv
<1>3. reply \in Seq(ByteType) /\ Len(reply) \in Nat /\ Len(reply) >= 4
  BY <1>1, <1>2, CurrentPacket
<1>4. /\ pc = "length" => need = 2
      /\ pc = "reply" => need = Len(reply) - 2
      /\ pos \in 0..Room /\ Len(p) <= need
      /\ Offset + Len(p) = (seq - 1) * Room + pos
      /\ p = SubSeq(reply, Offset + 1, Offset + Len(p))
  BY <1>1 DEF StreamInv, ReadInv
<1>5. Offset \in {0, 2} /\ need \in Nat /\ Offset + need <= Len(reply)
  <2> HIDE DEF reply
  <2> QED  BY <1>1, <1>3, <1>4 DEF Offset
<1>6. Len(p) \in Nat
  BY <1>4
<1> QED  BY <1>4, <1>5, <1>6

LEMMA DrainKeeps ==
  ASSUME HidTypeOK, NEW h \in Histories, StreamInv(h), Drain
  PROVE  StreamInv(h)'
<1>1. /\ pc \in {"length", "reply"} /\ pc' = pc /\ seq > 0 /\ seq \in Nat /\ seq \in Nat \ {0}
      /\ UNCHANGED <<line, out, owed, seq, hbuf, lost, clean, cmd, need>>
      /\ p' = p \o SubSeq(hbuf, pos + 1, pos + Copied(pos)) /\ pos' = pos + Copied(pos)
  BY DEF HidTypeOK, Drain, Reading, SomeIsLeft, device
<1>2. OutInv(h)' /\ LineInv(h)' /\ OrderInv' /\ GapInv(h)' /\ CleanInv'
  BY <1>1, StreamUntouched
<1>3. HasCurrent /\ IsPacket(h, Current) /\ Current' = Current /\ Offset' = Offset
  BY <1>1 DEF HasCurrent, StreamInv, LineInv, Current, Offset
<1>4. ReadInv(h)'
  <2> DEFINE reply == ReplyTo(h, Of(Current))
  <2> SUFFICES ASSUME Trusted
               PROVE  /\ pc = "length" => need = 2
                      /\ pc = "reply" => need = Len(reply) - 2
                      /\ pos' \in 0..Room /\ Len(p') <= need
                      /\ Offset + Len(p') = (seq - 1) * Room + pos'
                      /\ p' = SubSeq(reply, Offset + 1, Offset + Len(p'))
    BY <1>1, <1>3 DEF ReadInv, Trusted
  <2>1. /\ pc = "length" => need = 2
        /\ pc = "reply" => need = Len(reply) - 2
    BY <1>1 DEF StreamInv, ReadInv
  <2>2. /\ Offset \in {0, 2} /\ need \in Nat /\ Offset + need <= Len(reply)
        /\ Len(p) \in Nat /\ Len(p) <= need /\ pos \in 0..Room
        /\ Offset + Len(p) = (seq - 1) * Room + pos
        /\ p = SubSeq(reply, Offset + 1, Offset + Len(p))
    BY <1>1, <1>3, WantedIsThere
  <2>3. /\ reply \in Seq(ByteType) /\ Len(reply) >= 4
        /\ seq \in 1..Len(Cut(reply)) /\ hbuf = Cut(reply)[seq].bytes
    BY <1>1, <1>3, CurrentPacket
  <2> HIDE DEF reply
  <2>4. /\ pos + Copied(pos) \in 0..Room
        /\ Len(p) + Copied(pos) <= need
        /\ Offset + (Len(p) + Copied(pos)) = (seq - 1) * Room + (pos + Copied(pos))
        /\ p' = SubSeq(reply, Offset + 1, Offset + (Len(p) + Copied(pos)))
        /\ Len(p') = Len(p) + Copied(pos)
    <3> DEFINE n == Len(p)
               c == Copied(pos)
    <3>1. /\ n <= need /\ Offset + n = (seq - 1) * Room + pos
          /\ p = SubSeq(reply, Offset + 1, Offset + n)
          /\ c = IF need - n < Room - pos THEN need - n ELSE Room - pos
          /\ p' = p \o SubSeq(hbuf, pos + 1, pos + c)
      BY <1>1, <2>2 DEF Copied
    <3> HIDE DEF n, c
    <3>2. /\ Offset \in {0, 2} /\ need \in Nat /\ Offset + need <= Len(reply)
          /\ pos \in 0..Room /\ n \in Nat
      BY <2>2 DEF n
    <3>3. ReadsOn(reply, seq, Offset, n, need, pos, c, p')
      BY <2>3, <3>1, <3>2 DEF ReadsOn
    <3> QED  BY <3>3, ReadOn DEF n, c
  <2> QED  BY <1>1, <2>1, <2>4
<1> QED  BY <1>2, <1>4 DEF StreamInv

LEMMA LengthReadKeeps ==
  ASSUME HidTypeOK, NEW h \in Histories, StreamInv(h), LengthRead
  PROVE  StreamInv(h)'
<1>1. /\ pc = "length" /\ pc' = "reply" /\ seq \in Nat /\ Len(p) = need
      /\ UNCHANGED <<line, out, owed, seq, hbuf, pos, lost, clean, cmd>>
      /\ p' = <<>> /\ need' = U16(p[1], p[2])
  BY DEF HidTypeOK, LengthRead, ReadFull, device, framer
<1>2. OutInv(h)' /\ LineInv(h)' /\ OrderInv' /\ GapInv(h)' /\ CleanInv'
  BY <1>1, StreamUntouched
<1>3. ReadInv(h)'
  <2> DEFINE reply == ReplyTo(h, Of(Current))
  <2> SUFFICES ASSUME Trusted
               PROVE  /\ seq > 0 /\ need' = Len(reply) - 2
                      /\ pos \in 0..Room /\ 0 <= need'
                      /\ 2 = (seq - 1) * Room + pos
                      /\ <<>> = SubSeq(reply, 3, 2)
    BY <1>1 DEF ReadInv, Trusted, Current, Offset
  <2>1. need = 2 /\ Len(p) = 2 /\ seq > 0
    BY <1>1 DEF StreamInv, ReadInv
  <2>2. HasCurrent /\ IsPacket(h, Current) /\ seq \in Nat \ {0} /\ Offset = 0
    BY <1>1, <2>1 DEF HasCurrent, StreamInv, LineInv, Offset
  <2>3. /\ pos \in 0..Room
        /\ Offset + Len(p) = (seq - 1) * Room + pos
        /\ p = SubSeq(reply, Offset + 1, Offset + Len(p))
    BY <1>1, <2>2, WantedIsThere
  <2>4. reply \in Seq(ByteType) /\ Len(reply) \in Nat /\ Len(reply) >= 4
    BY <2>2, CurrentPacket
  <2>5. U16(reply[1], reply[2]) = Len(reply) - 2
    <3>1. Of(Current) \in 1..MaxExchanges
      BY <2>2, PacketFacts
    <3> QED  BY <3>1, ReplyShape
  <2> HIDE DEF reply
  <2>6. p = SubSeq(reply, 1, 2)
    BY <2>1, <2>2, <2>3
  <2>7. p[1] = reply[1] /\ p[2] = reply[2]
    BY <2>4, <2>6
  <2>8. SubSeq(reply, 3, 2) = <<>>
    BY <2>4, SubSeqEmpty
  <2> QED  BY <1>1, <2>1, <2>2, <2>3, <2>4, <2>5, <2>7, <2>8
<1> QED  BY <1>2, <1>3 DEF StreamInv

LEMMA TailShape ==
  ASSUME NEW S, NEW s \in Seq(S), s # <<>>, NEW t, t = Tail(s)
  PROVE  /\ Len(s) \in Nat \ {0} /\ DOMAIN s = 1..Len(s) /\ Head(s) = s[1]
         /\ t \in Seq(S) /\ Len(t) = Len(s) - 1 /\ DOMAIN t = 1..(Len(s) - 1)
         /\ \A j \in 1..(Len(s) - 1) : t[j] = s[j + 1]
         /\ t = <<>> <=> Len(s) = 1
<1>1. Len(s) \in Nat \ {0} /\ DOMAIN s = 1..Len(s) /\ Head(s) = s[1]
  BY EmptySeq
<1>2. /\ t \in Seq(S) /\ Len(t) = Len(s) - 1
      /\ \A j \in 1..(Len(s) - 1) : t[j] = s[j + 1]
  BY <1>1, HeadTailProperties
<1>3. t = <<>> <=> Len(t) = 0
  BY <1>2, EmptySeq
<1> QED  BY <1>1, <1>2, <1>3

\* A packet that is taken becomes the current one.
LEMMA TakePacket ==
  ASSUME HidTypeOK, NEW h \in Histories, StreamInv(h), line # <<>>,
         pc \in {"length", "reply"}, pc' = pc, InSequence(Head(line)),
         line' = Tail(line), hbuf' = Head(line).bytes, seq' = seq + 1,
         UNCHANGED <<out, owed, lost, clean, cmd>>
  PROVE  /\ OutInv(h)' /\ LineInv(h)' /\ OrderInv' /\ GapInv(h)' /\ CleanInv'
         /\ Current' = Head(line)
<1>0. OutInv(h) /\ LineInv(h) /\ OrderInv /\ GapInv(h) /\ CleanInv
  BY DEF StreamInv
<1>1. /\ line \in Seq(PacketType) /\ Len(line) \in Nat \ {0} /\ DOMAIN line = 1..Len(line)
      /\ seq \in Nat /\ 1 \in DOMAIN line /\ Head(line) = line[1]
  <2>1. line \in Seq(PacketType) /\ seq \in Nat
    BY DEF HidTypeOK
  <2> QED  BY <2>1
<1>2. /\ DOMAIN line' = 1..(Len(line) - 1) /\ Len(line') = Len(line) - 1
      /\ \A j \in DOMAIN line' : j + 1 \in DOMAIN line /\ line'[j] = line[j + 1]
      /\ (line' = <<>> <=> Len(line) = 1)
  BY <1>1, TailShape, SMTT(30)
<1>3. IsPacket(h, line[1]) /\ line[1].seq = seq
  BY <1>0, <1>1 DEF LineInv, InSequence
<1>4. Current' = line[1]
  <2>1. line[1] = [seq |-> line[1].seq, bytes |-> line[1].bytes] /\ seq' - 1 = seq
    BY <1>1, <1>3, PacketFacts
  <2> QED  BY <1>1, <1>3, <2>1 DEF Current
<1>5. HasCurrent' /\ HasNewest' /\ HasNewest /\ Newest' = Newest
  <2>1. HasCurrent' /\ HasNewest' /\ HasNewest
    BY <1>1 DEF HasCurrent, HasNewest
  <2>2. CASE Len(line) = 1
    <3>1. Newest = line[1]
      BY <2>2 DEF Newest
    <3>2. Newest' = Current'
      BY <1>2, <2>2 DEF Newest
    <3> QED  BY <1>4, <2>1, <3>1, <3>2
  <2>3. CASE Len(line) # 1
    <3>1. Len(line') \in DOMAIN line' /\ Len(line') + 1 = Len(line) /\ line' # <<>>
      BY <1>1, <1>2, <2>3
    <3>2. line'[Len(line')] = line[Len(line)]
      BY <1>2, <3>1
    <3> QED  BY <2>1, <3>1, <3>2 DEF Newest
  <2> QED  BY <2>2, <2>3
<1>6. OutInv(h)'
  BY <1>0 DEF OutInv
<1>7. LineInv(h)'
  <2>1. /\ \A j \in DOMAIN line' : IsPacket(h, line'[j])
        /\ \A j \in DOMAIN line' :
             /\ Of(line'[j]) <= cmd.id
             /\ owed # NoCommand => Of(line'[j]) <= owed.id
             /\ owed # NoCommand /\ out = <<>> => Of(line'[j]) < owed.id
    BY <1>0, <1>2 DEF LineInv
  <2>2. /\ Of(line[1]) <= cmd.id
        /\ owed # NoCommand => Of(line[1]) <= owed.id
        /\ owed # NoCommand /\ out = <<>> => Of(line[1]) < owed.id
    BY <1>0, <1>1 DEF LineInv
  <2> QED  BY <1>3, <1>4, <1>5, <2>1, <2>2 DEF LineInv
<1>8. OrderInv'
  <2>1. \A j, k \in DOMAIN line' : j < k => Before(line'[j], line'[k])
    BY <1>0, <1>1, <1>2 DEF OrderInv
  <2>2. \A j \in DOMAIN line' : Before(line[1], line'[j])
    BY <1>0, <1>1, <1>2 DEF OrderInv
  <2>3. out # <<>> => /\ \A j \in DOMAIN line' : Before(line'[j], Head(out))
                      /\ Before(line[1], Head(out))
    BY <1>0, <1>1, <1>2 DEF OrderInv
  <2> QED  BY <1>4, <2>1, <2>2, <2>3 DEF OrderInv
<1>9. GapInv(h)'
  <2>1. lost <= 1 => \A j \in 1..(Len(line) - 1) : Joins(h, line[j], line[j + 1])
    BY <1>0 DEF GapInv
  <2>2. lost <= 1 => \A j \in 1..(Len(line') - 1) : Joins(h, line'[j], line'[j + 1])
    <3> SUFFICES ASSUME lost <= 1, NEW j \in 1..(Len(line') - 1)
                 PROVE  Joins(h, line'[j], line'[j + 1])
      OBVIOUS
    <3>1. /\ j \in DOMAIN line' /\ j + 1 \in DOMAIN line'
          /\ j + 1 \in 1..(Len(line) - 1)
      BY <1>1, <1>2
    <3> QED  BY <1>2, <2>1, <3>1
  <2>3. lost <= 1 /\ line' # <<>> => Joins(h, line[1], line'[1])
    <3> SUFFICES ASSUME lost <= 1, line' # <<>> PROVE Joins(h, line[1], line'[1])
      OBVIOUS
    <3>1. 1 \in DOMAIN line' /\ 1 \in 1..(Len(line) - 1)
      BY <1>1, <1>2
    <3> QED  BY <1>2, <2>1, <3>1
  <2>4. ~IsLast(h, Newest) =>
          /\ out = <<>> \/ Of(Head(out)) # Of(Newest) => lost >= 1
          /\ out # <<>> /\ ~Joins(h, Newest, Head(out)) => lost >= 2
    BY <1>0, <1>5 DEF GapInv
  <2> QED  BY <1>4, <1>5, <2>2, <2>3, <2>4 DEF GapInv
<1>10. CleanInv'
  BY <1>0, <1>1, <1>2, <1>4 DEF CleanInv
<1> QED  BY <1>1, <1>4, <1>6, <1>7, <1>8, <1>9, <1>10

\* The packet taken belongs to the reply that is read: the current one is
\* not its last, and where the next one is of another reply two are lost.
LEMMA SameReply ==
  ASSUME HidTypeOK, NEW h \in Histories, StreamInv(h), Trusted, HasCurrent, pos = Room,
         Len(p) < need, line # <<>>, InSequence(Head(line))
  PROVE  Of(Head(line)) = Of(Current)
<1> DEFINE reply == ReplyTo(h, Of(Current))
<1>1. /\ line \in Seq(PacketType) /\ seq \in Nat \ {0} /\ Room \in Nat
      /\ Head(line) = line[1] /\ 1 \in DOMAIN line
  BY HidAssumption DEF HidTypeOK, HasCurrent
<1>2. IsPacket(h, Current) /\ IsPacket(h, line[1])
  BY <1>1 DEF StreamInv, LineInv
<1>3. /\ Len(reply) \in Nat /\ Len(Cut(reply)) \in Nat
      /\ Len(reply) <= Len(Cut(reply)) * Room
      /\ IsLast(h, Current) <=> seq = Len(Cut(reply))
  BY <1>1, <1>2, CurrentPacket
<1>4. /\ Offset \in {0, 2} /\ need \in Nat /\ Len(p) \in Nat
      /\ Offset + need <= Len(reply) /\ Offset + Len(p) = (seq - 1) * Room + pos
  BY <1>1, WantedIsThere
<1>5. ~IsLast(h, Current)
  <2> SUFFICES ASSUME seq = Len(Cut(reply)) PROVE FALSE
    BY <1>3
  <2>1. Len(reply) <= seq * Room
    BY <1>3
  <2> HIDE DEF reply
  <2>2. (seq - 1) * Room + Room = seq * Room
    BY <1>1
  <2> QED  BY <1>1, <1>3, <1>4, <2>1, <2>2
<1>6. CASE clean
  BY <1>1, <1>6 DEF StreamInv, CleanInv, HasCurrent
<1>7. CASE lost <= 1
  <2>1. Joins(h, Current, line[1])
    BY <1>7 DEF StreamInv, GapInv
  <2>2. line[1].seq = seq
    BY <1>1 DEF InSequence
  <2> QED  BY <1>1, <1>5, <2>1, <2>2 DEF Joins
<1> QED  BY <1>6, <1>7 DEF Trusted

LEMMA ReadPacketKeeps ==
  ASSUME HidTypeOK, NEW h \in Histories, StreamInv(h), ReadPacket
  PROVE  StreamInv(h)'
<1>0. line \in Seq(PacketType) /\ seq \in Nat /\ Room \in Nat
  BY HidAssumption DEF HidTypeOK
<1>1. CASE ~InSequence(Head(line))
  <2>1. pc' = "closed" /\ line' = <<>> /\ UNCHANGED <<out, owed>>
    BY <1>1 DEF ReadPacket, End, device
  <2> QED  BY <2>1, EmptyKeeps DEF StreamInv
<1>2. CASE InSequence(Head(line))
  <2>1. /\ pc \in {"length", "reply"} /\ pc' = pc /\ line # <<>>
        /\ line' = Tail(line) /\ hbuf' = Head(line).bytes /\ seq' = seq + 1
        /\ UNCHANGED <<out, owed, lost, clean, cmd, need>>
        /\ p' = p \o SubSeq(hbuf', 1, Copied(0)) /\ pos' = Copied(0)
        /\ Len(p) < need /\ (seq = 0 \/ pos = Room)
    <3>1. pc \in {"length", "reply"} /\ Len(p) < need /\ (seq = 0 \/ pos = Room)
      BY <1>0 DEF ReadPacket, Reading, SomeIsLeft
    <3>2. /\ pc' = pc /\ line # <<>>
          /\ line' = Tail(line) /\ hbuf' = Head(line).bytes /\ seq' = seq + 1
          /\ UNCHANGED <<out, owed, lost, clean, cmd, need>>
      BY <1>2 DEF ReadPacket, device
    <3>3. p' = p \o SubSeq(hbuf', 1, Copied(0)) /\ pos' = Copied(0)
      BY <1>2 DEF ReadPacket
    <3> QED  BY <3>1, <3>2, <3>3
  <2>2. /\ OutInv(h)' /\ LineInv(h)' /\ OrderInv' /\ GapInv(h)' /\ CleanInv'
        /\ Current' = Head(line)
    BY <1>2, <2>1, TakePacket
  <2>3. IsPacket(h, Current') /\ seq' \in Nat \ {0} /\ Offset' = Offset /\ HasCurrent'
    BY <1>0, <2>1, <2>2 DEF LineInv, HasCurrent, Offset
  <2>4. ReadInv(h)'
    <3> DEFINE reply == ReplyTo(h, Of(Head(line)))
    <3> SUFFICES ASSUME Trusted
                 PROVE  /\ pc = "length" => need = 2
                        /\ pc = "reply" => need = Len(reply) - 2
                        /\ pos' \in 0..Room /\ Len(p') <= need
                        /\ Offset + Len(p') = (seq' - 1) * Room + pos'
                        /\ p' = SubSeq(reply, Offset + 1, Offset + Len(p'))
      BY <2>1, <2>2, <2>3 DEF ReadInv, Trusted
    <3>1. /\ reply \in Seq(ByteType) /\ Len(reply) \in Nat /\ Len(reply) >= 4
          /\ seq' \in 1..Len(Cut(reply)) /\ hbuf' = Cut(reply)[seq'].bytes
      <4>1. IsPacket(h, Head(line)) /\ Head(line).seq = seq /\ Of(Head(line)) \in 1..MaxExchanges
        BY <1>2, <2>2, <2>3, PacketFacts DEF InSequence
      <4>2. Head(line) = Cut(reply)[seq + 1] /\ seq + 1 \in 1..Len(Cut(reply))
        BY <4>1 DEF IsPacket
      <4>3. reply \in Seq(ByteType) /\ Len(reply) \in Nat /\ Len(reply) >= 4
        BY <4>1, ReplyShape
      <4> QED  BY <2>1, <4>2, <4>3
    <3>2. /\ Offset \in {0, 2} /\ need \in Nat /\ Offset + need <= Len(reply)
          /\ Len(p) \in Nat /\ Len(p) <= need /\ Offset + Len(p) = (seq' - 1) * Room + 0
          /\ p = SubSeq(reply, Offset + 1, Offset + Len(p))
          /\ pc = "length" => need = 2
          /\ pc = "reply" => need = Len(reply) - 2
      <4>1. CASE seq = 0
        <5>1. pc = "length" /\ need = 2 /\ p = <<>> /\ Offset = 0
          BY <2>1, <4>1 DEF StreamInv, ReadInv, Offset
        <5>2. Len(p) = 0 /\ (seq' - 1) * Room = 0
          BY <1>0, <2>1, <4>1, <5>1
        <5> HIDE DEF reply
        <5>3. SubSeq(reply, 1, 0) = <<>>
          BY SubSeqEmpty
        <5> QED  BY <3>1, <5>1, <5>2, <5>3
      <4>2. CASE seq # 0
        <5>1. pos = Room /\ HasCurrent /\ seq > 0 /\ seq' - 1 = seq /\ seq \in Nat
          BY <1>0, <2>1, <4>2 DEF HasCurrent
        <5>2. reply = ReplyTo(h, Of(Current))
          BY <1>2, <2>1, <5>1, SameReply
        <5>3. /\ pc = "length" => need = 2
              /\ pc = "reply" => need = Len(reply) - 2
          BY <2>1, <5>1, <5>2 DEF StreamInv, ReadInv
        <5>4. (seq - 1) * Room + Room = (seq' - 1) * Room + 0
          BY <1>0, <5>1
        <5>5. /\ Offset \in {0, 2} /\ need \in Nat /\ Offset + need <= Len(reply)
              /\ Len(p) \in Nat /\ Len(p) <= need /\ Offset + Len(p) = (seq - 1) * Room + Room
              /\ p = SubSeq(reply, Offset + 1, Offset + Len(p))
          BY <5>1, <5>2, WantedIsThere
        <5> QED  BY <5>3, <5>4, <5>5
      <4> QED  BY <4>1, <4>2
    <3> HIDE DEF reply
    <3> DEFINE n == Len(p)
               c == Copied(0)
    <3>3. /\ n <= need /\ Offset + n = (seq' - 1) * Room + 0
          /\ p = SubSeq(reply, Offset + 1, Offset + n)
          /\ c = IF need - n < Room - 0 THEN need - n ELSE Room - 0
          /\ p' = p \o SubSeq(hbuf', 0 + 1, 0 + c)
      BY <2>1, <3>2, SMTT(30) DEF Copied
    <3>4. 0 \in 0..Room /\ n \in Nat /\ pos' = c
      BY <1>0, <2>1, <3>2
    <3> HIDE DEF n, c
    <3>5. ReadsOn(reply, seq', Offset, n, need, 0, c, p')
      <4>1. /\ Offset \in {0, 2} /\ need \in Nat /\ Offset + need <= Len(reply)
        BY <3>2
      <4> QED  BY <3>1, <3>3, <3>4, <4>1 DEF ReadsOn
    <3>6. /\ c \in Nat /\ 0 + c \in 0..Room /\ n + c <= need
          /\ Offset + (n + c) = (seq' - 1) * Room + (0 + c)
          /\ p' = SubSeq(reply, Offset + 1, Offset + (n + c)) /\ Len(p') = n + c
      BY <3>5, ReadOn
    <3>7. pc = "length" => need = 2
      BY <3>2
    <3>8. pc = "reply" => need = Len(reply) - 2
      BY <3>2
    <3>9. Len(p') = n + c /\ c \in Nat
      BY <3>6
    <3>10. /\ 0 + c \in 0..Room /\ n + c <= need
           /\ Offset + (n + c) = (seq' - 1) * Room + (0 + c)
      BY <3>6
    <3>12. pos' \in 0..Room /\ Len(p') <= need /\ Offset + Len(p') = (seq' - 1) * Room + pos'
      <4>1. 0 + c = pos'
        BY <3>4, <3>9
      <4> QED  BY <3>9, <3>10, <4>1
    <3>11. p' = SubSeq(reply, Offset + 1, Offset + Len(p'))
      BY <3>6
    <3> QED  BY <3>7, <3>8, <3>11, <3>12
  <2> QED  BY <2>2, <2>4 DEF StreamInv
<1> QED  BY <1>1, <1>2

\* A sequence that is the rest of a reply from one of its packets on
IsRest(h, id, o) ==
  LET packets == Cut(ReplyTo(h, id))
  IN  /\ Len(o) \in 1..Len(packets)
      /\ o = SubSeq(packets, Len(packets) - Len(o) + 1, Len(packets))

LEMMA RestShape ==
  ASSUME NEW h \in Histories, NEW id \in 1..MaxExchanges, NEW o, IsRest(h, id, o)
  PROVE  LET packets == Cut(ReplyTo(h, id))
         IN  /\ Len(packets) \in Nat /\ Len(o) \in 1..Len(packets) /\ o \in Seq(PacketType)
             /\ o # <<>> /\ IsPacket(h, Head(o)) /\ Of(Head(o)) = id
             /\ Head(o).seq = Len(packets) - Len(o)
             /\ IsLast(h, Head(o)) <=> Len(o) = 1
             /\ Len(o) > 1 => IsRest(h, id, Tail(o)) /\ Len(Tail(o)) = Len(o) - 1
<1> DEFINE packets == Cut(ReplyTo(h, id))
           L == Len(packets)
           n == Len(o)
           first == L - n + 1
<1>1. packets \in Seq(PacketType) /\ L \in Nat
  BY ReplyShape, CutShape
<1>2. n \in 1..L /\ o = SubSeq(packets, first, L)
  BY DEF IsRest
<1>3. first \in 1..L /\ L - first + 1 = n
  <2> HIDE DEF L, n
  <2> QED  BY <1>1, <1>2
<1>4. /\ o \in Seq(PacketType)
      /\ \A i \in 1..n : o[i] = packets[first + i - 1]
  <2> HIDE DEF packets, n, first
  <2>1. first \in Int /\ L \in Int /\ \A i \in first..L : packets[i] \in PacketType
    BY <1>1, <1>3
  <2>2. /\ SubSeq(packets, first, L) \in Seq(PacketType)
        /\ Len(SubSeq(packets, first, L)) = L - first + 1
        /\ \A i \in 1..(L - first + 1) : SubSeq(packets, first, L)[i] = packets[first + i - 1]
    BY <1>3, <2>1, SubSeqProperties
  <2> QED  BY <1>2, <1>3, <2>2
<1>a. o # <<>>
  BY <1>1, <1>2, <1>4, EmptySeq
<1>5. Head(o) = packets[first]
  <2> HIDE DEF packets, first, n, L
  <2>1. 1 \in 1..n /\ first + 1 - 1 = first
    BY <1>1, <1>2, <1>3
  <2> QED  BY <1>4, <2>1
<1>6. /\ Head(o).seq = first - 1 /\ Of(Head(o)) = id /\ IsPacket(h, Head(o))
  BY <1>3, <1>5, PacketShape
<1>7. IsLast(h, Head(o)) <=> n = 1
  <2>1. IsLast(h, Head(o)) <=> (first - 1) + 1 = L
    BY <1>6 DEF IsLast
  <2> HIDE DEF L, n
  <2> QED  BY <1>1, <1>2, <2>1
<1>8. ASSUME n > 1
      PROVE  IsRest(h, id, Tail(o)) /\ Len(Tail(o)) = n - 1
  <2> HIDE DEF packets, n, L
  <2>1. first \in Int /\ L \in Int /\ first <= L /\ first + 1 <= L
        /\ first + 1 = L - (n - 1) + 1 /\ n - 1 \in 1..L
    BY <1>1, <1>2, <1>3, <1>8
  <2>2. Tail(o) = SubSeq(packets, first + 1, L)
    <3> HIDE DEF first
    <3> QED  BY <1>1, <1>2, <1>3, <2>1, HeadTailOfSubSeq
  <2>3. Len(Tail(o)) = n - 1
    BY <1>4, <1>a, HeadTailProperties DEF n
  <2> HIDE DEF first
  <2>4. Tail(o) = SubSeq(packets, L - Len(Tail(o)) + 1, L) /\ Len(Tail(o)) \in 1..L
    BY <2>1, <2>2, <2>3
  <2> QED  BY <2>3, <2>4 DEF IsRest, packets, L
<1>9. Head(o).seq = L - n
  <2> HIDE DEF L, n
  <2> QED  BY <1>1, <1>2, <1>6
<1> QED  BY <1>1, <1>2, <1>4, <1>a, <1>6, <1>7, <1>8, <1>9

\* What is sent is the rest of the reply owed.
LEMMA OutShape ==
  ASSUME HidTypeOK, NEW h \in Histories, OutInv(h), out # <<>>
  PROVE  /\ owed \in [id : 1..MaxExchanges, kind : Kinds] /\ owed # NoCommand
         /\ h[owed.id].kind = owed.kind /\ IsRest(h, owed.id, out)
  BY DEF OutInv, HidTypeOK, IsRest

\* The last packet of a reply read to its end is the current one.
LEMMA ReadToTheEnd ==
  ASSUME HidTypeOK, NEW h \in Histories, StreamInv(h), Trusted, pc = "reply", Len(p) = need
  PROVE  /\ HasCurrent /\ IsPacket(h, Current) /\ IsLast(h, Current)
         /\ need = Len(ReplyTo(h, Of(Current))) - 2
         /\ p = SubSeq(ReplyTo(h, Of(Current)), 3, Len(ReplyTo(h, Of(Current))))
<1> DEFINE reply == ReplyTo(h, Of(Current))
           q == Len(Cut(reply))
           L == Len(reply)
<1>1. HasCurrent /\ seq \in Nat \ {0} /\ Offset = 2 /\ Room \in Nat
  BY HidAssumption DEF HidTypeOK, StreamInv, ReadInv, HasCurrent, Offset
<1>2. IsPacket(h, Current)
  BY <1>1 DEF StreamInv, LineInv
<1>3. /\ reply \in Seq(ByteType) /\ L \in Nat /\ L >= 4 /\ q \in Nat
      /\ seq \in 1..q /\ (q - 1) * Room < L /\ (IsLast(h, Current) <=> seq = q)
  BY <1>1, <1>2, CurrentPacket
<1>4. need = L - 2 /\ pos \in 0..Room
  BY <1>1 DEF StreamInv, ReadInv
<1>5. Offset + Len(p) = (seq - 1) * Room + pos /\ p = SubSeq(reply, Offset + 1, Offset + Len(p))
  BY <1>1, WantedIsThere
<1> HIDE DEF reply, q, L
<1>6. Offset + Len(p) = L /\ L = (seq - 1) * Room + pos
  BY <1>1, <1>3, <1>4, <1>5
<1>7. seq = q
  <2> SUFFICES ASSUME seq # q PROVE FALSE
    OBVIOUS
  <2>1. seq \in Nat /\ seq <= q - 1
    BY <1>1, <1>3
  <2>2. seq * Room <= (q - 1) * Room
    BY <1>1, <1>3, <2>1
  <2>3. (seq - 1) * Room + Room = seq * Room
    BY <1>1
  <2> QED  BY <1>1, <1>3, <1>4, <1>6, <2>1, <2>2, <2>3
<1>8. p = SubSeq(reply, 3, L)
  <2>1. Offset + 1 = 3
    BY <1>1
  <2> QED  BY <1>5, <1>6, <2>1
<1> QED  BY <1>1, <1>2, <1>3, <1>4, <1>7, <1>8 DEF reply, L

\* Nothing of the device waits when a program has read its own reply.
LEMMA NothingIsLeft ==
  ASSUME HidTypeOK, NEW h \in Histories, StreamInv(h), clean, pc = "reply", Len(p) = need
  PROVE  owed = NoCommand /\ line = <<>>
<1>1. HasCurrent /\ IsPacket(h, Current) /\ IsLast(h, Current)
  BY ReadToTheEnd DEF Trusted
<1>2. /\ owed \in {NoCommand, cmd} /\ Of(Current) = cmd.id
      /\ \A j \in DOMAIN line : Of(line[j]) = cmd.id
  BY <1>1 DEF StreamInv, CleanInv
<1>3. Of(Current) \in Nat /\ Current.seq \in Nat /\ Current.seq + 1 = Len(Cut(ReplyTo(h, cmd.id)))
  <2>1. Of(Current) \in 1..MaxExchanges /\ MaxExchanges \in Nat
    BY <1>1, HidAssumption, PacketFacts
  <2> QED  BY <1>1, <1>2, <2>1, PacketFacts DEF IsLast
<1>4. ASSUME NEW x, IsPacket(h, x), Before(Current, x), Of(x) = cmd.id
      PROVE  FALSE
  <2> DEFINE n == Len(Cut(ReplyTo(h, cmd.id)))
  <2>1. x.seq \in Nat /\ n \in Nat /\ x.seq + 1 <= n
    BY <1>4, PacketFacts
  <2>2. Current.seq < x.seq
    BY <1>2, <1>3, <1>4 DEF Before
  <2>3. Current.seq + 1 = n
    BY <1>3
  <2> HIDE DEF n
  <2> QED  BY <1>3, <2>1, <2>2, <2>3
<1>5. line = <<>>
  <2> SUFFICES ASSUME line # <<>> PROVE FALSE
    OBVIOUS
  <2>1. 1 \in DOMAIN line
    BY DEF HidTypeOK
  <2>2. IsPacket(h, line[1]) /\ Before(Current, line[1]) /\ Of(line[1]) = cmd.id
    BY <1>1, <1>2, <2>1 DEF StreamInv, LineInv, OrderInv
  <2> QED  BY <1>4, <2>2
<1>6. owed = NoCommand
  <2> SUFFICES ASSUME owed # NoCommand PROVE FALSE
    OBVIOUS
  <2>1. owed.id = cmd.id
    BY <1>2
  <2>2. CASE out = <<>>
    <3>1. Of(Current) < owed.id
      BY <1>1, <2>2 DEF StreamInv, LineInv
    <3> QED  BY <1>2, <1>3, <2>1, <3>1
  <2>3. CASE out # <<>>
    <3>1. OutInv(h) /\ Before(Current, Head(out))
      BY <1>1, <2>3 DEF StreamInv, OrderInv
    <3>2. IsPacket(h, Head(out)) /\ Of(Head(out)) = owed.id
      BY <2>3, <3>1, OutShape, RestShape
    <3> QED  BY <1>4, <2>1, <3>1, <3>2
  <2> QED  BY <2>2, <2>3
<1> QED  BY <1>5, <1>6

LEMMA ReplyReadKeeps ==
  ASSUME HidTypeOK, NEW h \in Histories, StreamInv(h), ReplyRead
  PROVE  StreamInv(h)'
<1>0. OutInv(h) /\ LineInv(h) /\ OrderInv /\ GapInv(h) /\ CleanInv
  BY DEF StreamInv
<1>1. UNCHANGED <<out, owed, lost, clean, cmd>> /\ pc = "reply" /\ Len(p) = need
  BY DEF ReplyRead, End, device
<1>2. CASE pc' = "closed"
  <2>1. line' = <<>>
    BY <1>2 DEF ReplyRead, End
  <2> QED  BY <1>0, <1>1, <1>2, <2>1, EmptyKeeps
<1>3. CASE pc' # "closed"
  <2>1. pc' = "open" /\ line' = line
    BY <1>3 DEF ReplyRead, End
  <2>2. ~HasCurrent' /\ (HasNewest' => line # <<>> /\ Newest' = Newest /\ HasNewest)
    BY <2>1 DEF HasCurrent, HasNewest, Newest
  <2>3. OutInv(h)'
    BY <1>0, <1>1 DEF OutInv
  <2>4. LineInv(h)'
    BY <1>0, <1>1, <2>1, <2>2 DEF LineInv
  <2>5. OrderInv'
    BY <1>0, <1>1, <2>1, <2>2 DEF OrderInv
  <2>6. GapInv(h)'
    BY <1>0, <1>1, <2>1, <2>2 DEF GapInv
  <2>7. CleanInv'
    <3>1. clean => owed = NoCommand /\ line = <<>>
      BY <1>1, NothingIsLeft
    <3> QED  BY <1>0, <1>1, <2>1, <2>2, <3>1 DEF CleanInv
  <2>8. ReadInv(h)'
    BY <2>1 DEF ReadInv
  <2> QED  BY <2>3, <2>4, <2>5, <2>6, <2>7, <2>8 DEF StreamInv
<1> QED  BY <1>2, <1>3

(***************************************************************************)
(* Replying                                                                *)
(***************************************************************************)
\* The packets on the way are of earlier commands where the reply to the
\* one that is owed has not begun.
LEMMA EarlierPackets ==
  ASSUME HidTypeOK, NEW h \in Histories, StreamInv(h), owed # NoCommand, out = <<>>
  PROVE  /\ owed \in [id : 1..MaxExchanges, kind : Kinds]
         /\ \A j \in DOMAIN line : Of(line[j]) < owed.id
         /\ HasCurrent => Of(Current) < owed.id
         /\ HasNewest => Of(Newest) < owed.id
<1>1. /\ owed \in [id : 1..MaxExchanges, kind : Kinds]
      /\ \A j \in DOMAIN line : Of(line[j]) < owed.id
      /\ HasCurrent => Of(Current) < owed.id
  BY DEF HidTypeOK, StreamInv, LineInv
<1>2. line # <<>> => Len(line) \in DOMAIN line
  BY DEF HidTypeOK
<1> QED  BY <1>1, <1>2 DEF HasNewest, Newest

LEMMA AnswerKeeps ==
  ASSUME HidTypeOK, NEW h \in Histories, StreamInv(h), Answer
  PROVE  \E g \in Histories : StreamInv(g)'
<1>0. OutInv(h) /\ LineInv(h) /\ OrderInv /\ GapInv(h) /\ CleanInv /\ ReadInv(h)
  BY DEF StreamInv
<1>1. /\ owed # NoCommand /\ out = <<>>
      /\ UNCHANGED <<owed, host, framer, line, lost, clean>>
  BY DEF Answer
<1>2. PICK code \in Codes : out' = Cut(Reply(owed, code))
  BY DEF Answer, Codes
<1>3. /\ owed \in [id : 1..MaxExchanges, kind : Kinds] /\ owed.id \in Nat
      /\ \A j \in DOMAIN line : Of(line[j]) < owed.id
      /\ HasCurrent => Of(Current) < owed.id
      /\ HasNewest => Of(Newest) < owed.id
  BY <1>1, EarlierPackets, HidAssumption
<1>4. PICK g \in Histories :
        /\ g[owed.id] = [kind |-> owed.kind, code |-> code]
        /\ \A id \in 1..MaxExchanges : id # owed.id => g[id] = h[id]
  <2> DEFINE new == [h EXCEPT ![owed.id] = [kind |-> owed.kind, code |-> code]]
  <2>1. /\ new \in Histories /\ new[owed.id] = [kind |-> owed.kind, code |-> code]
        /\ \A id \in 1..MaxExchanges : id # owed.id => new[id] = h[id]
    BY <1>3 DEF Histories
  <2> QED  BY <2>1
<1>5. out' = Cut(ReplyTo(g, owed.id)) /\ IsRest(g, owed.id, out')
  <2>1. owed = [id |-> owed.id, kind |-> owed.kind]
    BY <1>3
  <2>2. out' = Cut(ReplyTo(g, owed.id))
    BY <1>2, <1>4, <2>1 DEF ReplyTo
  <2>3. out' \in Seq(PacketType) /\ Len(out') \in Nat \ {0}
    BY <1>3, <1>4, <2>2, ReplyShape, CutShape
  <2>4. out' = SubSeq(out', 1, Len(out')) /\ Len(out') - Len(out') + 1 = 1
    BY <2>3, SubSeqFull
  <2> QED  BY <2>2, <2>3, <2>4 DEF IsRest
<1>6. out' # <<>> /\ Of(Head(out')) = owed.id /\ Head(out').seq = 0
  <2>1. Head(out').seq = Len(out') - Len(out') /\ Len(out') \in Nat
    BY <1>3, <1>4, <1>5, RestShape
  <2> QED  BY <1>3, <1>4, <1>5, <2>1, RestShape
<1>7. ASSUME NEW x, Of(x) < owed.id, IsPacket(h, x)
      PROVE  /\ IsPacket(g, x) /\ ReplyTo(g, Of(x)) = ReplyTo(h, Of(x))
             /\ IsLast(g, x) <=> IsLast(h, x)
             /\ \A y : Joins(g, x, y) <=> Joins(h, x, y)
  <2>1. ReplyTo(g, Of(x)) = ReplyTo(h, Of(x))
    <3>1. Of(x) \in 1..MaxExchanges /\ Of(x) # owed.id
      BY <1>3, <1>7, PacketFacts
    <3> QED  BY <1>4, <3>1 DEF ReplyTo
  <2> QED  BY <1>7, <2>1 DEF IsPacket, IsLast, Joins
<1>8. /\ UNCHANGED <<pc, cmd, seq, hbuf, pos, p, need>> /\ HasCurrent' = HasCurrent
      /\ Current' = Current /\ HasNewest' = HasNewest /\ Newest' = Newest
  BY <1>1 DEF host, framer, HasCurrent, Current, HasNewest, Newest
<1>9. OutInv(g)'
  <2>1. g[owed.id].kind = owed.kind
    BY <1>4
  <2> QED  BY <1>1, <1>5, <2>1 DEF OutInv, IsRest
<1>10. LineInv(g)'
  BY <1>0, <1>1, <1>3, <1>6, <1>7, <1>8 DEF LineInv
<1>11. OrderInv'
  BY <1>0, <1>1, <1>3, <1>6, <1>8 DEF OrderInv, Before
<1>12. GapInv(g)'
  <2>1. \A j \in DOMAIN line : IsPacket(h, line[j])
    BY <1>0 DEF LineInv
  <2>2. HasCurrent => IsPacket(h, Current)
    BY <1>0 DEF LineInv
  <2>3. lost <= 1 => /\ \A j \in 1..(Len(line) - 1) : Joins(g, line[j], line[j + 1])
                     /\ HasCurrent /\ line # <<>> => Joins(g, Current, line[1])
    <3>1. 1..(Len(line) - 1) \subseteq DOMAIN line
      BY DEF HidTypeOK
    <3> QED  BY <1>0, <1>3, <1>7, <2>1, <2>2, <3>1 DEF GapInv
  <2>4. HasNewest => (IsLast(g, Newest) <=> IsLast(h, Newest))
    <3>1. line # <<>> => Len(line) \in DOMAIN line
      BY DEF HidTypeOK
    <3>2. HasNewest => IsPacket(h, Newest)
      BY <2>1, <2>2, <3>1 DEF HasNewest, Newest
    <3> QED  BY <1>3, <1>7, <3>2
  <2>5. HasNewest /\ ~IsLast(g, Newest) => lost >= 1
    BY <1>0, <1>1, <2>4 DEF GapInv
  <2>6. Joins(g, Newest, Head(out'))
    BY <1>6 DEF Joins
  <2> QED  BY <1>1, <1>8, <2>3, <2>5, <2>6 DEF GapInv
<1>13. CleanInv'
  BY <1>0, <1>1, <1>8 DEF CleanInv
<1>14. ReadInv(g)'
  <2>1. Trusted' = Trusted /\ Offset' = Offset
    BY <1>1, <1>8 DEF Trusted, Offset
  <2>2. pc \in {"length", "reply"} /\ seq > 0 => ReplyTo(g, Of(Current)) = ReplyTo(h, Of(Current))
    BY <1>0, <1>3, <1>7 DEF LineInv, HasCurrent
  <2> QED  BY <1>0, <1>8, <2>1, <2>2 DEF ReadInv
<1>15. StreamInv(g)'
  BY <1>9, <1>10, <1>11, <1>12, <1>13, <1>14 DEF StreamInv
<1> QED  BY <1>4, <1>15

\* The packet that is sent, and what is left to send
LEMMA SentPacket ==
  ASSUME HidTypeOK, NEW h \in Histories, StreamInv(h), SendPacket
  PROVE  /\ owed \in [id : 1..MaxExchanges, kind : Kinds] /\ owed # NoCommand
         /\ h[owed.id].kind = owed.kind /\ owed.id \in Nat /\ Head(out).seq \in Nat
         /\ IsPacket(h, Head(out)) /\ Of(Head(out)) = owed.id /\ Head(out) \in PacketType
         /\ out # <<>> /\ owed' \in {owed, NoCommand} /\ (owed' # NoCommand <=> out' # <<>>)
         /\ out' = <<>> <=> IsLast(h, Head(out))
         /\ out' # <<>> => /\ IsRest(h, owed.id, out') /\ Of(Head(out')) = owed.id
                           /\ Head(out').seq = Head(out).seq + 1
<1>1. /\ out # <<>> /\ out' = Tail(out) /\ OutInv(h)
      /\ owed' = IF Len(out) = 1 THEN NoCommand ELSE owed
  BY DEF SendPacket, StreamInv
<1>2. /\ owed \in [id : 1..MaxExchanges, kind : Kinds] /\ owed # NoCommand
      /\ h[owed.id].kind = owed.kind /\ IsRest(h, owed.id, out)
  BY <1>1, OutShape
<1> DEFINE L == Len(Cut(ReplyTo(h, owed.id)))
           n == Len(out)
<1>3. /\ L \in Nat /\ n \in 1..L /\ out \in Seq(PacketType)
      /\ IsPacket(h, Head(out)) /\ Of(Head(out)) = owed.id /\ Head(out).seq = L - n
      /\ IsLast(h, Head(out)) <=> n = 1
      /\ n > 1 => IsRest(h, owed.id, out') /\ Len(out') = n - 1
  BY <1>1, <1>2, RestShape
<1>4. Head(out) \in PacketType /\ out' \in Seq(PacketType) /\ Len(out') = n - 1
  BY <1>1, <1>3, HeadTailProperties
<1>5. out' = <<>> <=> n = 1
  <2>1. out' = <<>> <=> Len(out') = 0
    BY <1>4, EmptySeq
  <2> HIDE DEF n, L
  <2> QED  BY <1>3, <1>4, <2>1
<1>6. ASSUME n > 1
      PROVE  /\ IsRest(h, owed.id, out') /\ Of(Head(out')) = owed.id
             /\ Head(out').seq = Head(out).seq + 1
  <2>1. IsRest(h, owed.id, out') /\ Len(out') = n - 1
    BY <1>3, <1>6
  <2>2. Of(Head(out')) = owed.id /\ Head(out').seq = L - Len(out')
    BY <1>2, <2>1, RestShape
  <2> HIDE DEF n, L
  <2> QED  BY <1>3, <2>1, <2>2
<1>7. owed.id \in Nat /\ Head(out).seq \in Nat
  <2> HIDE DEF n, L
  <2> QED  BY <1>2, <1>3, HidAssumption
<1> HIDE DEF n, L
<1> QED  BY <1>1, <1>2, <1>3, <1>4, <1>5, <1>6, <1>7, SMTT(30) DEF n

\* A packet that is sent enters the handle, is lost, or finds it closed.
LEMMA SendPacketKeeps ==
  ASSUME HidTypeOK, NEW h \in Histories, StreamInv(h), SendPacket
  PROVE  StreamInv(h)'
<1> DEFINE x == Head(out)
<1>0. OutInv(h) /\ LineInv(h) /\ OrderInv /\ GapInv(h) /\ CleanInv /\ ReadInv(h)
  BY DEF StreamInv
<1>1. /\ owed \in [id : 1..MaxExchanges, kind : Kinds] /\ owed # NoCommand
      /\ h[owed.id].kind = owed.kind /\ owed.id \in Nat /\ x.seq \in Nat
      /\ IsPacket(h, x) /\ Of(x) = owed.id /\ x \in PacketType
      /\ out # <<>> /\ owed' \in {owed, NoCommand} /\ (owed' # NoCommand <=> out' # <<>>)
      /\ out' = <<>> <=> IsLast(h, x)
      /\ out' # <<>> => /\ IsRest(h, owed.id, out') /\ Of(Head(out')) = owed.id
                        /\ Head(out').seq = x.seq + 1
  BY SentPacket
<1>2. /\ UNCHANGED <<pc, cmd, seq, hbuf, pos, p, need, clean>>
      /\ \/ line' = (IF pc = "closed" THEN <<>> ELSE Append(line, x)) /\ UNCHANGED lost
         \/ pc # "closed" /\ lost' = lost + 1 /\ UNCHANGED line
  BY DEF SendPacket, host, framer
<1>3. /\ line \in Seq(PacketType) /\ Len(line) \in Nat /\ DOMAIN line = 1..Len(line)
      /\ lost \in Nat /\ (line = <<>> <=> Len(line) = 0)
  BY HidAssumption, EmptySeq DEF HidTypeOK
<1>4. OutInv(h)'
  BY <1>1 DEF OutInv, IsRest
<1>5. HasCurrent' = HasCurrent /\ Current' = Current /\ Offset' = Offset
  BY <1>2 DEF HasCurrent, Current, Offset
<1>6. \A y : IsPacket(h, y) /\ Before(y, x) /\ out' # <<>> => Before(y, Head(out'))
  <2> SUFFICES ASSUME NEW y, IsPacket(h, y), Before(y, x), out' # <<>>
               PROVE  Before(y, Head(out'))
    OBVIOUS
  <2>1. y.seq \in Nat /\ Of(Head(out')) = Of(x) /\ Head(out').seq = x.seq + 1
    BY <1>1, PacketFacts
  <2> HIDE DEF x
  <2>2. y.seq < x.seq => y.seq < Head(out').seq
    BY <1>1, <2>1
  <2> QED  BY <2>1, <2>2 DEF Before
<1>7. out' # <<>> => Before(x, Head(out'))
  <2> HIDE DEF x
  <2> QED  BY <1>1 DEF Before
<1>8. ReadInv(h)'
  <2>1. Trusted' => Trusted
    BY <1>2, <1>3 DEF Trusted
  <2> QED  BY <1>0, <1>2, <1>5, <2>1 DEF ReadInv
<1>9. CASE pc = "closed"
  <2>1. line' = <<>> /\ DOMAIN line' = {} /\ Len(line') = 0 /\ ~HasCurrent' /\ ~HasNewest'
    BY <1>2, <1>9 DEF HasCurrent, HasNewest
  <2>2. LineInv(h)'
    BY <2>1 DEF LineInv
  <2>3. OrderInv'
    BY <2>1 DEF OrderInv
  <2>4. GapInv(h)' /\ CleanInv'
    BY <1>2, <1>9, <2>1 DEF GapInv, CleanInv
  <2> QED  BY <1>4, <1>8, <2>2, <2>3, <2>4 DEF StreamInv
<1>10. CASE pc # "closed" /\ line' = Append(line, x) /\ lost' = lost
  <2>1. /\ DOMAIN line' = 1..(Len(line) + 1) /\ Len(line') = Len(line) + 1 /\ line' # <<>>
        /\ \A j \in DOMAIN line : line'[j] = line[j]
        /\ line'[Len(line) + 1] = x
    <3> HIDE DEF x
    <3>1. /\ Append(line, x) \in Seq(PacketType) /\ Len(Append(line, x)) = Len(line) + 1
          /\ Append(line, x)[Len(line) + 1] = x
          /\ \A j \in 1..Len(line) : Append(line, x)[j] = line[j]
      BY <1>1, <1>3, AppendProperties
    <3>2. Append(line, x) # <<>>
      BY <1>3, <3>1
    <3> QED  BY <1>3, <1>10, <3>1, <3>2
  <2>2. /\ HasNewest' /\ Newest' = x
        /\ \A j \in DOMAIN line' : j \in DOMAIN line \/ j = Len(line) + 1
    <3>1. HasNewest' /\ Newest' = x
      BY <2>1 DEF HasNewest, Newest
    <3> QED  BY <1>3, <2>1, <3>1
  <2> HIDE DEF x
  <2>3. LineInv(h)'
    <3>1. owed.id <= cmd.id /\ (pc = "writing" => owed.id < cmd.id)
      BY DEF HidTypeOK
    <3>2. \A j \in DOMAIN line' : IsPacket(h, line'[j])
      BY <1>0, <1>1, <2>1, <2>2 DEF LineInv
    <3>3. \A j \in DOMAIN line' :
            /\ Of(line'[j]) <= cmd.id
            /\ pc = "writing" => Of(line'[j]) < cmd.id
            /\ Of(line'[j]) <= owed.id
      BY <1>0, <1>1, <2>1, <2>2, <3>1 DEF LineInv
    <3>4. HasCurrent => IsPacket(h, Current) /\ Of(Current) <= cmd.id /\ Of(Current) <= owed.id
      BY <1>0, <1>1 DEF LineInv
    <3> QED  BY <1>1, <1>2, <1>5, <3>2, <3>3, <3>4 DEF LineInv
  <2>4. OrderInv'
    <3>1. /\ \A j \in DOMAIN line : Before(line[j], x) /\ IsPacket(h, line[j])
          /\ HasCurrent => Before(Current, x) /\ IsPacket(h, Current)
      BY <1>0, <1>1 DEF OrderInv, LineInv, x
    <3>2. \A j, k \in DOMAIN line' : j < k => Before(line'[j], line'[k])
      <4> SUFFICES ASSUME NEW j \in DOMAIN line', NEW k \in DOMAIN line', j < k
                   PROVE  Before(line'[j], line'[k])
        OBVIOUS
      <4>1. j \in DOMAIN line /\ (k \in DOMAIN line \/ k = Len(line) + 1)
        BY <1>3, <2>1, <2>2
      <4> QED  BY <1>0, <2>1, <3>1, <4>1 DEF OrderInv
    <3>3. HasCurrent => \A j \in DOMAIN line' : Before(Current, line'[j])
      BY <1>0, <2>1, <2>2, <3>1 DEF OrderInv
    <3>4. out' # <<>> => /\ \A j \in DOMAIN line' : Before(line'[j], Head(out'))
                         /\ HasCurrent => Before(Current, Head(out'))
      BY <1>6, <1>7, <2>1, <2>2, <3>1
    <3> QED  BY <1>5, <3>2, <3>3, <3>4 DEF OrderInv
  <2>5. GapInv(h)'
    <3>1. HasNewest /\ lost <= 1 => Joins(h, Newest, x)
      <4>1. HasNewest /\ ~IsLast(h, Newest) /\ ~Joins(h, Newest, x) => lost >= 2
        BY <1>0, <1>1 DEF GapInv, x
      <4>2. IsLast(h, Newest) => Joins(h, Newest, x)
        BY DEF Joins
      <4> QED  BY <1>3, <4>1, <4>2
    <3>2. lost <= 1 => \A j \in 1..(Len(line') - 1) : Joins(h, line'[j], line'[j + 1])
      <4> SUFFICES ASSUME lost <= 1, NEW j \in 1..(Len(line') - 1)
                   PROVE  Joins(h, line'[j], line'[j + 1])
        OBVIOUS
      <4>1. j \in DOMAIN line /\ line # <<>>
        BY <1>3, <2>1
      <4>2. CASE j = Len(line)
        <5>1. HasNewest /\ Newest = line[j]
          BY <4>1, <4>2 DEF HasNewest, Newest
        <5> QED  BY <2>1, <3>1, <4>1, <4>2, <5>1
      <4>3. CASE j # Len(line)
        <5>1. j \in 1..(Len(line) - 1) /\ j + 1 \in DOMAIN line
          BY <1>3, <4>1, <4>3
        <5> QED  BY <1>0, <2>1, <4>1, <5>1 DEF GapInv
      <4> QED  BY <4>2, <4>3
    <3>3. lost <= 1 /\ HasCurrent => Joins(h, Current, line'[1])
      <4> SUFFICES ASSUME lost <= 1, HasCurrent PROVE Joins(h, Current, line'[1])
        OBVIOUS
      <4>1. CASE line = <<>>
        <5>1. HasNewest /\ Newest = Current
          BY <4>1 DEF HasNewest, Newest
        <5>2. line'[1] = x
          BY <1>3, <2>1, <4>1
        <5> QED  BY <3>1, <5>1, <5>2
      <4>2. CASE line # <<>>
        <5>1. line'[1] = line[1]
          BY <1>3, <2>1, <4>2
        <5> QED  BY <1>0, <4>2, <5>1 DEF GapInv
      <4> QED  BY <4>1, <4>2
    <3>4. ~IsLast(h, x) => out' # <<>> /\ Of(Head(out')) = Of(x) /\ Joins(h, x, Head(out'))
      BY <1>1 DEF Joins
    <3> QED  BY <1>5, <1>10, <2>2, <3>2, <3>3, <3>4 DEF GapInv
  <2>6. CleanInv'
    <3> SUFFICES ASSUME clean PROVE /\ owed' \in {NoCommand, cmd}
                                    /\ \A j \in DOMAIN line' : Of(line'[j]) = cmd.id
                                    /\ HasCurrent => Of(Current) = cmd.id
                                    /\ pc \notin {"open", "writing"}
      BY <1>2, <1>5 DEF CleanInv
    <3>1. owed = cmd /\ pc \notin {"open", "writing"} /\ Of(x) = cmd.id
      BY <1>0, <1>1, <1>10 DEF CleanInv
    <3>2. /\ \A j \in DOMAIN line : Of(line[j]) = cmd.id
          /\ HasCurrent => Of(Current) = cmd.id
      BY <1>0, <1>10 DEF CleanInv
    <3> QED  BY <1>1, <2>1, <2>2, <3>1, <3>2
  <2> QED  BY <1>4, <1>8, <2>3, <2>4, <2>5, <2>6 DEF StreamInv
<1>11. CASE pc # "closed" /\ line' = line /\ lost' = lost + 1
  <2>1. HasNewest' = HasNewest /\ Newest' = Newest
    BY <1>5, <1>11 DEF HasNewest, Newest
  <2>2. LineInv(h)'
    BY <1>0, <1>1, <1>2, <1>5, <1>11 DEF LineInv
  <2>3. OrderInv'
    <3>1. /\ \A j \in DOMAIN line : Before(line[j], x) /\ IsPacket(h, line[j])
          /\ HasCurrent => Before(Current, x) /\ IsPacket(h, Current)
      BY <1>0, <1>1 DEF OrderInv, LineInv
    <3> HIDE DEF x
    <3> QED  BY <1>0, <1>5, <1>6, <1>11, <3>1 DEF OrderInv
  <2>4. GapInv(h)'
    <3>1. HasNewest /\ ~IsLast(h, Newest) /\ Of(x) # Of(Newest) => lost >= 1
      BY <1>0, <1>1 DEF GapInv
    <3> HIDE DEF x
    <3>2. out' # <<>> /\ ~Joins(h, Newest, Head(out')) => Of(x) # Of(Newest)
      BY <1>1 DEF Joins
    <3>3. lost' <= 1 => lost <= 1
      BY <1>3, <1>11
    <3>4. HasNewest /\ ~IsLast(h, Newest) =>
            /\ lost' >= 1
            /\ out' # <<>> /\ ~Joins(h, Newest, Head(out')) => lost' >= 2
      BY <1>3, <1>11, <3>1, <3>2
    <3>5. lost <= 1 => /\ \A j \in 1..(Len(line) - 1) : Joins(h, line[j], line[j + 1])
                       /\ HasCurrent /\ line # <<>> => Joins(h, Current, line[1])
      BY <1>0 DEF GapInv
    <3> QED  BY <1>5, <1>11, <2>1, <3>3, <3>4, <3>5 DEF GapInv
  <2>5. CleanInv'
    BY <1>0, <1>1, <1>2, <1>5, <1>11 DEF CleanInv
  <2> QED  BY <1>4, <1>8, <2>2, <2>3, <2>4, <2>5 DEF StreamInv
<1> QED  BY <1>2, <1>9, <1>10, <1>11

(***************************************************************************)
(* The invariant                                                           *)
(***************************************************************************)
LEMMA StreamNext ==
  ASSUME HidTypeOK, NEW h \in Histories, StreamInv(h), [Next]_vars
  PROVE  \E g \in Histories : StreamInv(g)'
<1>0. OutInv(h)
  BY DEF StreamInv
<1>1. CASE Open
  <2>1. line = <<>>
    BY <1>1 DEF Open, HidTypeOK
  <2> QED  BY <1>0, <1>1, <2>1, EmptyKeeps DEF Open, device
<1>2. CASE Close
  BY <1>0, <1>2, EmptyKeeps DEF Close, device
<1>3. CASE Abandon
  BY <1>0, <1>3, EmptyKeeps DEF Abandon, End, device
<1>4. CASE \E kind \in Kinds : Exchange(kind)
  BY <1>4, ExchangeKeeps
<1>5. CASE Progress
  BY <1>5, WriteKeeps, DrainKeeps, ReadPacketKeeps, LengthReadKeeps, ReplyReadKeeps DEF Progress
<1>6. CASE Answer
  BY <1>6, AnswerKeeps
<1>7. CASE SendPacket
  BY <1>7, SendPacketKeeps
<1>8. CASE UNCHANGED vars
  <2>1. HasCurrent' = HasCurrent /\ Current' = Current /\ HasNewest' = HasNewest
        /\ Newest' = Newest /\ Offset' = Offset /\ Trusted' = Trusted
    BY <1>8 DEF vars, host, framer, device, HasCurrent, Current, HasNewest, Newest, Offset, Trusted
  <2>2. OutInv(h)' /\ OrderInv'
    BY <1>8, <2>1 DEF vars, host, framer, device, StreamInv, OutInv, OrderInv
  <2>3. LineInv(h)'
    BY <1>8, <2>1 DEF vars, host, framer, device, StreamInv, LineInv
  <2>4. GapInv(h)' /\ CleanInv'
    BY <1>8, <2>1 DEF vars, host, framer, device, StreamInv, GapInv, CleanInv
  <2>5. ReadInv(h)'
    BY <1>8, <2>1 DEF vars, host, framer, device, StreamInv, ReadInv
  <2>6. StreamInv(h)'
    BY <2>2, <2>3, <2>4, <2>5 DEF StreamInv
  <2> QED  BY <2>6
<1> QED  BY <1>1, <1>2, <1>3, <1>4, <1>5, <1>6, <1>7, <1>8 DEF Next

\* What is returned is what was read of a reply, without its length and its
\* status word.
LEMMA ReplyReadReturns ==
  ASSUME HidTypeOK, NEW h \in Histories, StreamInv(h), Trusted, ReplyRead, pc' = "open"
  PROVE  ReturnedIsOneReply'
<1> DEFINE id == Of(Current)
           reply == ReplyTo(h, id)
           L == Len(reply)
           size == Size[cmd.kind]
<1>1. /\ pc = "reply" /\ Len(p) = need /\ UNCHANGED <<cmd, clean>>
      /\ got' = SubSeq(p, 1, size) /\ Fitting(cmd.kind, need - 2)
  BY DEF ReplyRead, End
<1>2. /\ HasCurrent /\ IsPacket(h, Current) /\ need = L - 2 /\ p = SubSeq(reply, 3, L)
  BY <1>1, ReadToTheEnd
<1>3. id \in 1..MaxExchanges
  BY <1>2, PacketFacts
<1>4. /\ reply \in Seq(ByteType) /\ L \in Nat /\ L >= 4
      /\ \A n \in 1..L : reply[n].of = id /\ reply[n].at = n
  BY <1>3, ReplyShape
<1>5. clean => id = cmd.id
  BY <1>1, <1>2 DEF StreamInv, CleanInv
<1>6. size \in Nat
  BY <1>1, HidAssumption, NoCommandId DEF HidTypeOK, Busy
<1>7. size <= need - 2
  <2> HIDE DEF L
  <2> QED  BY <1>1, <1>2, <1>4, <1>6 DEF Fitting
<1> HIDE DEF id, reply, L, size
<1>8. p \in Seq(ByteType) /\ \A n \in 1..(L - 2) : p[n] = reply[n + 2]
  <2>1. \A i \in 3..L : reply[i] \in ByteType
    BY <1>4 DEF L
  <2>2. /\ SubSeq(reply, 3, L) \in Seq(ByteType)
        /\ \A n \in 1..(L - 3 + 1) : SubSeq(reply, 3, L)[n] = reply[3 + n - 1]
    BY <1>4, <2>1, SubSeqProperties
  <2>3. p = SubSeq(reply, 3, L) /\ L - 3 + 1 = L - 2
    BY <1>2, <1>4
  <2>4. \A n \in 1..(L - 2) : 3 + n - 1 = n + 2
    BY <1>4
  <2> QED  BY <2>2, <2>3, <2>4
<1>9. Len(got') = size /\ got' \in Seq(ByteType) /\ \A n \in 1..size : got'[n] = p[n]
  <2>1. \A i \in 1..size : p[i] \in ByteType
    BY <1>1, <1>2, <1>4, <1>6, <1>7, <1>8
  <2>2. /\ SubSeq(p, 1, size) \in Seq(ByteType)
        /\ Len(SubSeq(p, 1, size)) = IF 1 <= size THEN size - 1 + 1 ELSE 0
        /\ \A n \in 1..(size - 1 + 1) : SubSeq(p, 1, size)[n] = p[1 + n - 1]
    BY <1>6, <2>1, SubSeqProperties
  <2> QED  BY <1>1, <1>6, <2>2
<1>10. \A n \in 1..size : got'[n].of = id /\ got'[n].at = n + 2
  <2> SUFFICES ASSUME NEW n \in 1..size PROVE got'[n].of = id /\ got'[n].at = n + 2
    OBVIOUS
  <2>1. n \in 1..(L - 2) /\ n + 2 \in 1..L
    BY <1>2, <1>4, <1>6, <1>7
  <2>2. got'[n] = reply[n + 2]
    BY <1>8, <1>9, <2>1
  <2> QED  BY <1>4, <2>1, <2>2 DEF L
<1>11. DOMAIN got' = 1..size /\ (got' # <<>> => 1 \in 1..size)
  BY <1>6, <1>9, EmptySeq
<1> QED  BY <1>1, <1>5, <1>10, <1>11 DEF ReturnedIsOneReply

LEMMA ReturnedNext == HidInv /\ [Next]_vars => (Trusted => ReturnedIsOneReply)'
<1> SUFFICES ASSUME HidInv, [Next]_vars, Trusted'
             PROVE  ReturnedIsOneReply'
  OBVIOUS
<1>1. HidTypeOK /\ (Trusted => ReturnedIsOneReply) /\ lost \in Nat
  BY HidAssumption DEF HidInv, HidTypeOK
<1>2. PICK h \in Histories : StreamInv(h)
  BY DEF HidInv
<1>3. CASE got' = <<>>
  BY <1>3 DEF ReturnedIsOneReply
<1>4. CASE UNCHANGED <<got, cmd, clean>> /\ lost' \in {lost, lost + 1}
  <2>1. Trusted
    BY <1>1, <1>4 DEF Trusted
  <2> QED  BY <1>1, <1>4, <2>1 DEF ReturnedIsOneReply
<1>5. CASE ReplyRead /\ pc' = "open"
  <2>1. Trusted
    BY <1>5 DEF Trusted, ReplyRead
  <2> QED  BY <1>1, <1>2, <1>5, <2>1, ReplyReadReturns
<1>6. CASE Open \/ \E kind \in Kinds : Exchange(kind)
  <2>1. got' = <<>>
    BY <1>6 DEF Open, Exchange
  <2> QED  BY <1>3, <2>1
<1>7. CASE Close \/ Abandon \/ Write \/ Drain \/ ReadPacket \/ LengthRead
  <2>1. UNCHANGED <<got, cmd, clean, lost>>
    BY <1>7 DEF Close, Abandon, Write, Drain, ReadPacket, LengthRead, ReadFull, End
  <2> QED  BY <1>4, <2>1
<1>8. CASE ReplyRead /\ pc' # "open"
  <2>1. UNCHANGED <<got, cmd, clean, lost>>
    BY <1>8 DEF ReplyRead, End
  <2> QED  BY <1>4, <2>1
<1>9. CASE Answer \/ SendPacket
  <2>1. UNCHANGED <<got, cmd, clean>> /\ lost' \in {lost, lost + 1}
    BY <1>9 DEF Answer, SendPacket, host
  <2> QED  BY <1>4, <2>1
<1>10. CASE UNCHANGED vars
  <2>1. UNCHANGED <<got, cmd, clean, lost>>
    BY <1>10 DEF vars, host
  <2> QED  BY <1>4, <2>1
<1> QED  BY <1>5, <1>6, <1>7, <1>8, <1>9, <1>10 DEF Next, Progress

LEMMA HidInvInit == Init => HidInv
<1> SUFFICES ASSUME Init PROVE HidInv
  OBVIOUS
<1>1. HidTypeOK
  BY HidTypeInit
<1>2. PICK h : h \in Histories
  <2>1. PICK kind : kind \in Kinds
    BY HidAssumption
  <2>2. [id \in 1..MaxExchanges |-> [kind |-> kind, code |-> codeSuccess]] \in Histories
    BY <2>1 DEF Histories, Codes
  <2> QED  BY <2>2
<1>3. ~HasCurrent /\ ~HasNewest /\ DOMAIN line = {} /\ Len(line) = 0 /\ out = <<>>
  BY DEF Init, HasCurrent, HasNewest
<1>4. LineInv(h) /\ OutInv(h)
  BY <1>3 DEF LineInv, OutInv
<1>5. OrderInv /\ GapInv(h)
  BY <1>3 DEF OrderInv, GapInv
<1>6. CleanInv /\ ReadInv(h)
  BY DEF Init, CleanInv, ReadInv
<1>7. StreamInv(h)
  BY <1>4, <1>5, <1>6 DEF StreamInv
<1>8. ReturnedIsOneReply
  BY DEF Init, ReturnedIsOneReply
<1> QED  BY <1>1, <1>2, <1>7, <1>8 DEF HidInv

LEMMA HidInvNext == HidInv /\ [Next]_vars => HidInv'
<1> SUFFICES ASSUME HidInv, [Next]_vars PROVE HidInv'
  OBVIOUS
<1>1. HidTypeOK'
  BY HidTypeNext DEF HidInv
<1>2. \E g \in Histories : StreamInv(g)'
  BY StreamNext DEF HidInv
<1>3. (Trusted => ReturnedIsOneReply)'
  BY ReturnedNext
<1> QED  BY <1>1, <1>2, <1>3 DEF HidInv

(***************************************************************************)
(* Theorems                                                                *)
(***************************************************************************)
\* The packets on the way and the bytes that are read belong to replies of
\* the device in the order of its commands: HidInv, which carries the
\* theorems below, is an invariant.
THEOREM HidInvariance == Spec => []HidInv
<1>1. Spec => Init /\ [][Next]_vars
  BY PTL DEF Spec
<1> QED  BY <1>1, HidInvInit, HidInvNext, PTL

\* What an exchange of oneledger.go returns is a piece of one reply, from its
\* first byte on and without a gap, as long as at most one packet was lost,
\* or when the device owed no reply as the handle was opened, and then it is
\* the reply to this command, however many packets were lost.
THEOREM OneReply == Spec => [](Trusted => ReturnedIsOneReply)
<1>1. HidInv => (Trusted => ReturnedIsOneReply)
  BY DEF HidInv
<1> QED  BY <1>1, HidInvariance, PTL

\* With one packet lost at most, whoever ended before and whatever the sizes
\* are, no exchange returns bytes of two replies.
THEOREM OneReplyOneLoss ==
  ASSUME MaxLost <= 1
  PROVE  Spec => []ReturnedIsOneReply
<1>1. HidInv => ReturnedIsOneReply
  BY HidAssumption DEF HidInv, HidTypeOK, Trusted
<1> QED  BY <1>1, HidInvariance, PTL
=============================================================================
