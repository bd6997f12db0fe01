----------------------------- MODULE HostProofs -----------------------------
(***************************************************************************)
(* Theorems about the calls of ledger_sdk.js, for every number of calls,   *)
(* every transaction and every packet size, and also when the system calls *)
(* of the device raise exceptions.  The device keeps its own invariant,    *)
(* because whatever the host does is a step of it; the invariant HostInv   *)
(* ties each call to what the device holds of its transaction.             *)
(***************************************************************************)
EXTENDS Host, NanoXProofs, SequenceTheorems

(***************************************************************************)
(* The chunks of a transaction                                             *)
(***************************************************************************)
\* A transaction has as many chunks as it needs and none that is empty.
LEMMA ChunksBounds ==
  ASSUME NEW c \in Calls
  PROVE  /\ Chunks(c) \in Nat \ {0}
         /\ Len(Message[c]) \in Nat \ {0}
         /\ (Chunks(c) - 1) * CmdBufferSize < Len(Message[c])
         /\ Len(Message[c]) <= Chunks(c) * CmdBufferSize
<1> DEFINE L == Len(Message[c])
           B == CmdBufferSize
           q == (L + B - 1) \div B
<1>1. Message[c] \in Seq(Byte) /\ Message[c] # <<>>
  BY HostAssumption
<1>2. L \in Nat \ {0} /\ B \in Nat \ {0}
  BY <1>1, FirmwareAssumption
<1>3. q \in Int /\ q * B <= L + B - 1 /\ L + B - 1 < q * B + B
  <2> HIDE DEF L
  <2> QED  BY <1>2
<1>4. q > 0
  <2> HIDE DEF L, B, q
  <2> QED  BY <1>2, <1>3
<1>5. (q - 1) * B = q * B - B
  <2> HIDE DEF L, B, q
  <2> QED  BY <1>2, <1>3
<1> QED
  <2> HIDE DEF L, B, q
  <2>1. q \in Nat \ {0} /\ (q - 1) * B < L /\ L <= q * B
    BY <1>2, <1>3, <1>4, <1>5
  <2> QED  BY <1>2, <2>1 DEF Chunks, q, L, B

\* Where chunk n begins and ends
LEMMA ChunkEnds ==
  ASSUME NEW c \in Calls, NEW n \in 1..Chunks(c)
  PROVE  LET from == (n - 1) * CmdBufferSize
             end == IF n = Chunks(c) THEN Len(Message[c]) ELSE n * CmdBufferSize
         IN  /\ from \in Nat /\ end \in 1..Len(Message[c])
             /\ from < end /\ end - from <= CmdBufferSize
             /\ n < Chunks(c) => end = n * CmdBufferSize
<1> DEFINE L == Len(Message[c])
           B == CmdBufferSize
           q == Chunks(c)
<1>1. /\ L \in Nat \ {0} /\ B \in Nat \ {0} /\ q \in Nat \ {0} /\ n \in 1..q
      /\ (q - 1) * B < L /\ L <= q * B
  BY ChunksBounds, FirmwareAssumption
<1> HIDE DEF L, B, q
<1>2. /\ (n - 1) * B \in Nat /\ (n - 1) * B + B = n * B
      /\ n * B \in Nat \ {0} /\ (q - 1) * B + B = q * B
  BY <1>1
<1>3. n < q => n * B <= (q - 1) * B
  BY <1>1
<1>4. \/ n = q /\ (n - 1) * B < L /\ L - (n - 1) * B <= B
      \/ n < q /\ n * B < L
  BY <1>1, <1>2, <1>3
<1> QED  BY <1>1, <1>2, <1>4 DEF L, B, q

\* Every chunk is a payload the device can be sent.
LEMMA ChunkType ==
  ASSUME NEW c \in Calls, NEW n \in 1..Chunks(c)
  PROVE  Chunk(c, n) \in Payloads
<1> DEFINE from == (n - 1) * CmdBufferSize
           end == IF n = Chunks(c) THEN Len(Message[c]) ELSE n * CmdBufferSize
<1>1. /\ from \in Nat /\ end \in 1..Len(Message[c]) /\ from < end
      /\ end - from <= CmdBufferSize
  BY ChunkEnds
<1>2. Message[c] \in Seq(Byte) /\ CmdBufferSize \in Nat /\ Len(Message[c]) \in Nat
  BY HostAssumption, FirmwareAssumption
<1>3. Chunk(c, n) = SubSeq(Message[c], from + 1, end)
  BY DEF Chunk
<1> HIDE DEF from, end
<1>4. Chunk(c, n) \in Seq(Byte) /\ Len(Chunk(c, n)) = end - from
  BY <1>1, <1>2, <1>3, SubSeqProperties
<1>5. Len(Chunk(c, n)) \in 0..CmdBufferSize
  BY <1>1, <1>2, <1>4
<1> QED  BY <1>4, <1>5 DEF Payloads, MaxSeq

\* The chunks of a transaction put together are the transaction.
LEMMA PrefixGrows ==
  ASSUME NEW c \in Calls, NEW n \in 1..Chunks(c)
  PROVE  /\ n = 1 => <<>> \o Chunk(c, n) = Prefix(c, n)
         /\ n # 1 => Prefix(c, n - 1) \o Chunk(c, n) = Prefix(c, n)
         /\ n = Chunks(c) => Prefix(c, n) = Message[c]
<1> DEFINE from == (n - 1) * CmdBufferSize
           end == IF n = Chunks(c) THEN Len(Message[c]) ELSE n * CmdBufferSize
<1>1. from \in Nat /\ end \in 1..Len(Message[c]) /\ from < end
  BY ChunkEnds
<1>2. /\ Message[c] \in Seq(Byte) /\ Len(Message[c]) \in Nat /\ CmdBufferSize \in Nat
      /\ Chunks(c) \in Nat /\ n \in 1..Chunks(c)
  BY HostAssumption, FirmwareAssumption, ChunksBounds
<1>3. Chunk(c, n) = SubSeq(Message[c], from + 1, end) /\ Prefix(c, n) = SubSeq(Message[c], 1, end)
  BY DEF Chunk, Prefix
<1>4. n = 1 => <<>> \o Chunk(c, n) = Prefix(c, n)
  <2> SUFFICES ASSUME n = 1 PROVE <<>> \o Chunk(c, n) = Prefix(c, n)
    OBVIOUS
  <2>1. from = 0
    BY <1>2
  <2> HIDE DEF from, end
  <2>2. Chunk(c, n) \in Seq(Byte) /\ Chunk(c, n) = Prefix(c, n)
    BY <1>1, <1>2, <1>3, <2>1, SubSeqProperties
  <2> QED  BY <2>2
<1>5. n # 1 => Prefix(c, n - 1) \o Chunk(c, n) = Prefix(c, n)
  <2> SUFFICES ASSUME n # 1 PROVE Prefix(c, n - 1) \o Chunk(c, n) = Prefix(c, n)
    OBVIOUS
  <2>1. Prefix(c, n - 1) = SubSeq(Message[c], 1, from)
    BY <1>2 DEF Prefix
  <2> HIDE DEF from, end
  <2>2. from \in (1 - 1)..Len(Message[c]) /\ end \in from..Len(Message[c])
    BY <1>1, <1>2
  <2>3. SubSeq(Message[c], 1, from) \o SubSeq(Message[c], from + 1, end)
          = SubSeq(Message[c], 1, end)
    BY <1>2, <2>2, 1 \in 1..Len(Message[c]) + 1, ConcatAdjacentSubSeq
  <2> QED  BY <1>3, <2>1, <2>3
<1>6. n = Chunks(c) => Prefix(c, n) = Message[c]
  BY <1>2, SubSeqFull DEF Prefix
<1> QED  BY <1>4, <1>5, <1>6

(***************************************************************************)
(* The device under the host                                               *)
(***************************************************************************)
LEMMA CallNames ==
  ASSUME NEW c \in Calls
  PROVE  c # Nobody /\ Kind[c] \in SignIns /\ Kind[c] \in Ins /\ Kind[c] # NoCmd
  BY HostAssumption, CommandNames

\* Sending a chunk is one of the commands of the device.
LEMMA ChunkIsCommand ==
  ASSUME NEW c \in Calls, NEW n \in 1..Chunks(c), Deliver(c, n)
  PROVE  Next
<1>1. Chunk(c, n) \in Payloads /\ Kind[c] \in SignIns /\ (n = 1) \in BOOLEAN
  BY ChunkType, CallNames
<1>2. Command
  BY <1>1 DEF Deliver, Upload, Command
<1> QED  BY <1>2 DEF Next

\* Whatever the host does, the device makes a step of its own or none.
LEMMA HostStepsDevice ==
  ASSUME HostInv, [HostNext]_allVars
  PROVE  [Next]_vars
<1>1. ASSUME NEW c \in Calls, NEW n \in 1..Chunks(c), Send(c, n)
      PROVE  [Next]_vars
  BY <1>1, ChunkIsCommand DEF Send, SendFails
<1>2. ASSUME NEW c \in Calls, Begin(c)
      PROVE  [Next]_vars
  BY <1>2 DEF Begin, Refused, SendFails, Next, Command
<1>3. ASSUME NEW c \in Calls, Proceed(c)
      PROVE  [Next]_vars
  <2>1. CASE ReceiveKey(c) \/ NonceFails(c) \/ Receive(c)
    BY <2>1 DEF ReceiveKey, NonceFails, Receive
  <2>2. CASE Nonce(c)
    <3>1. 1 \in 1..Chunks(c)
      BY ChunksBounds
    <3> QED  BY <1>1, <2>2, <3>1 DEF Nonce, Refused
  <2>3. CASE Continue(c)
    <3>1. call[c].next \in 2..Chunks(c)
      BY <2>3 DEF HostInv, CallInv, Continue
    <3>2. call[c].next \in 1..Chunks(c)
      BY <3>1, ChunksBounds
    <3> QED  BY <1>1, <2>3, <3>2 DEF Continue
  <2> QED  BY <1>3, <2>1, <2>2, <2>3 DEF Proceed
<1>4. CASE Device \/ Disconnect \/ Reconnect
  BY <1>4 DEF Device, Disconnect, Reconnect, Next
<1>5. CASE UNCHANGED allVars
  BY <1>5 DEF allVars
<1> QED  BY <1>2, <1>3, <1>4, <1>5 DEF HostNext

\* What a chunk leaves behind: the words and the bytes Sent speaks of
LEMMA DeliverKeeps ==
  ASSUME NEW c \in Calls, NEW n \in 1..Chunks(c), Deliver(c, n),
         n # 1 => buf = Prefix(c, n - 1)
  PROVE  /\ Sent(c, n)' /\ reply' = NoReply /\ UNCHANGED on
         /\ pending' # NoCmd
<1> DEFINE first == n = 1
           data == Chunk(c, n)
<1>1. Kind[c] \in SignIns /\ Kind[c] # NoCmd
  BY CallNames
<1>2. Store(first, data) => buf' = Prefix(c, n)
  BY PrefixGrows DEF Store, Base
<1>3. ASSUME NEW e \in Thrown, CommandThrows(Kind[c], e), UNCHANGED on,
             e = SW_OK => n < Chunks(c) /\ buf' = Prefix(c, n)
      PROVE  /\ Sent(c, n)' /\ reply' = NoReply /\ UNCHANGED on
             /\ pending' # NoCmd
  <2>1. staged' # NoWord /\ (staged' = SW_OK => n < Chunks(c) /\ buf' = Prefix(c, n))
    BY <1>3, StatusWordType, SuccessWord DEF CommandThrows
  <2> QED  BY <1>1, <1>3, <2>1 DEF CommandThrows, Sent, Reviewing, Prefix, Chunks
<1>4. ASSUME CommandWaits(Kind[c]), UNCHANGED on, Store(first, data), n = Chunks(c)
      PROVE  /\ Sent(c, n)' /\ reply' = NoReply /\ UNCHANGED on
             /\ pending' # NoCmd
  <2>1. staged' # SW_OK
    BY <1>4 DEF CommandWaits, SW_OK, NoWord
  <2> QED  BY <1>1, <1>2, <1>4, <2>1 DEF CommandWaits, Sent, Reviewing, Prefix, Chunks
<1>5. CASE RefuseUpload(Kind[c], first, data)
  <2>1. EXCEPTION_OVERFLOW \in Thrown /\ EXCEPTION_OVERFLOW # SW_OK
    BY DEF EXCEPTION_OVERFLOW, Thrown, SW_OK
  <2> QED  BY <1>3, <1>5, <2>1 DEF RefuseUpload
<1>6. CASE n # Chunks(c) /\ StoreChunk(Kind[c], first, data)
  <2>1. SW_OK \in Thrown /\ n < Chunks(c)
    BY <1>6, ChunksBounds DEF Thrown
  <2> QED  BY <1>2, <1>3, <1>6, <2>1 DEF StoreChunk
<1>7. CASE n = Chunks(c) /\ Kind[c] = "tx"
           /\ \E result \in TxResults : FinishTx(first, data, result)
  <2>1. EXCEPTION_OVERFLOW \in Thrown /\ EXCEPTION_OVERFLOW # SW_OK
    BY DEF EXCEPTION_OVERFLOW, Thrown, SW_OK
  <2> QED  BY <1>3, <1>4, <1>7, <2>1 DEF FinishTx
<1>8. CASE n = Chunks(c) /\ Kind[c] = "stake"
           /\ \E result \in StakeResults : FinishStake(first, data, result)
  <2>1. /\ EXCEPTION_OVERFLOW \in Thrown /\ EXCEPTION_OVERFLOW # SW_OK
        /\ INVALID_PARAMETER \in Thrown /\ INVALID_PARAMETER # SW_OK
    BY DEF EXCEPTION_OVERFLOW, INVALID_PARAMETER, Thrown, SW_OK
  <2> QED  BY <1>3, <1>4, <1>8, <2>1 DEF FinishStake
<1> QED  BY <1>5, <1>6, <1>7, <1>8 DEF Deliver, Upload

\* The buttons and the loop take no bytes, and reply at most to a command
\* that is outstanding.
LEMMA DeviceKeeps ==
  ASSUME Button \/ SendStaged
  PROVE  /\ UNCHANGED <<on, buf>>
         /\ pending' # NoCmd \/ pending = NoCmd => UNCHANGED <<pending, reply>>
<1>1. ASSUME NEW sw, NEW data, ReplyAndIdle(sw, data)
      PROVE  pending' # NoCmd \/ pending = NoCmd => UNCHANGED <<pending, reply>>
  BY <1>1 DEF ReplyAndIdle, Answer, EventThrows
<1>2. CASE Right \/ Left
  BY <1>2 DEF Right, Left, unionVars
<1>3. CASE AddressOk \/ SignOk \/ Cancel
  BY <1>1, <1>3 DEF AddressOk, SignOk, Cancel, unionVars
<1>4. CASE SignFault
  BY <1>4 DEF SignFault, EventThrows, unionVars
<1>5. CASE SendStaged
  BY <1>5 DEF SendStaged, Answer, unionVars
<1> QED  BY <1>2, <1>3, <1>4, <1>5 DEF Button

\* The buttons and the loop keep what Sent says of an upload: nothing but
\* the flow that reviews it can answer with a signature.
LEMMA DeviceKeepsSent ==
  ASSUME IndInv, on, NEW c \in Calls, NEW n \in 1..Chunks(c), Sent(c, n),
         Button \/ SendStaged
  PROVE  Sent(c, n)'
<1>1. Kind[c] \in SignIns /\ Kind[c] # NoCmd /\ "pubkey" \notin SignIns
  BY CallNames, CommandNames
<1>a. on = TRUE
  BY DEF IndInv, TypeOK, CoreTypeOK
<1>2. UNCHANGED <<on, buf>> /\ on' = TRUE /\ on = TRUE
  BY <1>a, DeviceKeeps
<1>3. ASSUME UNCHANGED <<pending, reply>>, staged' # SW_OK, staged' # NoWord
      PROVE  Sent(c, n)'
  BY <1>2, <1>3 DEF Sent, Reviewing, Prefix, Chunks
<1>4. ASSUME NEW e \in Thrown \ {SW_OK}, EventThrows(e)
      PROVE  Sent(c, n)'
  <2>1. staged' # SW_OK /\ staged' # NoWord
    BY <1>4, StatusWordType, SuccessWord DEF EventThrows
  <2> QED  BY <1>3, <1>4, <2>1 DEF EventThrows
<1>5. 1..15 \subseteq Thrown \ {SW_OK} /\ INVALID_STATE \in 1..15
  BY DEF Thrown, SW_OK, INVALID_STATE
<1>6. ASSUME NEW sw, NEW data, Waiting, ReplyAndIdle(sw, data),
             pending = Kind[c] /\ n = Chunks(c) /\ buf = Message[c] =>
               \/ sw # SW_OK /\ data = NoData
               \/ data = Signature(Message[c])
      PROVE  Sent(c, n)'
  <2>1. CASE pending = NoCmd
    BY <1>4, <1>5, <1>6, <2>1 DEF ReplyAndIdle
  <2>2. CASE pending # NoCmd
    <3>1. pending = Kind[c] /\ n = Chunks(c) /\ buf = Message[c]
      BY <1>1, <1>2, <1>6, <2>2, PrefixGrows DEF Sent, Reviewing, Waiting
    <3>2. pending' = NoCmd /\ reply'.sw = sw /\ reply'.data = data /\ staged' = NoWord
      BY <1>6, <2>2 DEF ReplyAndIdle, Answer, Waiting
    <3>3. NoWord # SW_OK /\ NoCmd \notin SignIns
      BY CommandNames DEF NoWord, SW_OK
    <3> QED  BY <1>6, <3>1, <3>2, <3>3 DEF Sent, Reviewing, Prefix, Chunks
  <2> QED  BY <2>1, <2>2
<1>7. CASE Right \/ Left
  <2>1. UNCHANGED <<pending, staged, reply>>
    BY <1>7 DEF Right, Left
  <2> QED  BY <1>2, <2>1 DEF Sent, Reviewing, Prefix, Chunks
<1>8. CASE AddressOk
  <2>1. Waiting /\ ui.flow = "address" /\ ReplyAndIdle(SW_OK, Payload)
    BY <1>8 DEF AddressOk, InFlow
  <2>2. pending # Kind[c]
    BY <1>1, <1>2, <2>1 DEF IndInv, LoopInv, CommandIsServed, Server, Waiting
  <2> QED  BY <1>6, <2>1, <2>2
<1>9. CASE SignOk
  BY <1>6, <1>9 DEF SignOk, InFlow
<1>10. CASE Cancel
  <2>1. SW_USER_REJECTED # SW_OK
    BY DEF SW_USER_REJECTED, SW_OK
  <2> QED  BY <1>6, <1>10, <2>1 DEF Cancel, InFlow
<1>11. CASE SignFault
  BY <1>4, <1>5, <1>11, FirmwareAssumption DEF SignFault
<1>12. CASE SendStaged
  <2>1. staged # NoWord /\ asynch = FALSE
    BY <1>12 DEF SendStaged, IndInv, LoopInv, TypeOK, CoreTypeOK
  <2>2. CASE pending = NoCmd
    <3>1. UNCHANGED <<pending, reply>> /\ staged' = StatusWord(INVALID_STATE)
      BY <1>12, <2>1, <2>2 DEF SendStaged
    <3> QED  BY <1>3, <1>5, <3>1, StatusWordType, SuccessWord
  <2>3. CASE pending # NoCmd
    <3>1. /\ pending' = NoCmd /\ reply'.sw = staged /\ reply'.data = NoData
          /\ staged' = NoWord
      BY <1>12, <2>1, <2>3 DEF SendStaged, Answer
    <3>2. NoWord # SW_OK /\ NoCmd \notin SignIns
      BY CommandNames DEF NoWord, SW_OK
    <3> QED  BY <1>2, <3>1, <3>2 DEF Sent, Reviewing, Prefix, Chunks
  <2> QED  BY <2>2, <2>3
<1> QED  BY <1>7, <1>8, <1>9, <1>10, <1>11, <1>12 DEF Button

(***************************************************************************)
(* The calls                                                               *)
(***************************************************************************)
CallType ==
  [at : Places, next : Nat, signed : Seq(Byte \cup {Foreign}),
   outcome : {"none", "busy", "disconnected", "locked", "refused", "network"}]

LEMMA AtType ==
  ASSUME NEW at \in Places, NEW n \in Nat
  PROVE  /\ At(at, n) \in CallType /\ At(at, n).at = at /\ At(at, n).next = n
         /\ Ready(n) \in CallType /\ Ready(n).at = "ready" /\ Ready(n).next = n
<1>1. "ready" \in Places /\ <<>> \in Seq(Byte \cup {Foreign})
  BY DEF Places, Running
<1>2. Ready(n) \in CallType /\ Ready(n).at = "ready" /\ Ready(n).next = n
  BY <1>1 DEF Ready, CallType
<1>3. At(at, n) \in CallType /\ At(at, n).at = at /\ At(at, n).next = n
  BY <1>1, <1>2 DEF At, CallType
<1> QED  BY <1>2, <1>3

\* When one call moves on and the transport and the lock are taken or given
\* back by that call only, every call is still where it may be.
LEMMA CallMoves ==
  ASSUME HostTypeOK, CallInv, NEW c \in Calls, NEW r \in CallType,
         call' = [call EXCEPT ![c] = r], connected' \in BOOLEAN,
         exchanging' = exchanging \/ {exchanging, exchanging'} \subseteq {c, Nobody},
         exchanging' = c <=> r.at \in {"key", "sent"},
         lock' \in {lock, c, Nobody},
         lock' = c => r.at = "key" \/ (Locks(c) /\ r.at \in {"sent", "ready"}),
         r.at = "sent" => r.next \in 1..Chunks(c),
         r.at = "ready" => /\ r.next \in 2..Chunks(c)
                           /\ \A d \in Calls \ {c} : call[d].at # "ready",
         r.at = "returned" => r.signed = Message[c]
  PROVE  HostTypeOK' /\ CallInv'
<1>1. call \in [Calls -> CallType] /\ c # Nobody
  BY CallNames DEF HostTypeOK, CallType
<1>2. call' \in [Calls -> CallType] /\ call'[c] = r /\ \A d \in Calls \ {c} : call'[d] = call[d]
  BY <1>1
<1>3. HostTypeOK'
  BY <1>2 DEF HostTypeOK, CallType
<1>4. ASSUME NEW d \in Calls
      PROVE  /\ exchanging' = d <=> call'[d].at \in {"key", "sent"}
             /\ lock' = d => \/ call'[d].at = "key"
                             \/ Locks(d) /\ call'[d].at \in {"sent", "ready"}
             /\ call'[d].at = "sent" => call'[d].next \in 1..Chunks(d)
             /\ call'[d].at = "ready" =>
                  /\ call'[d].next \in 2..Chunks(d)
                  /\ \A other \in Calls \ {d} : call'[other].at # "ready"
             /\ call'[d].at = "returned" => call'[d].signed = Message[d]
  <2>1. CASE d = c
    BY <1>2, <2>1
  <2>2. CASE d # c
    <3>0. d # Nobody
      BY CallNames
    <3>1. exchanging' = d <=> call'[d].at \in {"key", "sent"}
      BY <1>2, <2>2, <3>0 DEF CallInv
    <3>2. lock' = d => call'[d].at = "key" \/ (Locks(d) /\ call'[d].at \in {"sent", "ready"})
      BY <1>2, <2>2, <3>0 DEF CallInv
    <3>3. call'[d].at = "ready" => \A other \in Calls \ {d} : call'[other].at # "ready"
      BY <1>2, <2>2 DEF CallInv
    <3> QED  BY <1>2, <2>2, <3>1, <3>2, <3>3 DEF CallInv
  <2> QED  BY <2>1, <2>2
<1> QED  BY <1>3, <1>4 DEF CallInv, Chunks, Locks

\* A call that moves while the device makes no step: what the other calls
\* have uploaded is not touched.
LEMMA OthersKeepUploads ==
  ASSUME HostInv, NEW c \in Calls, NEW r, call' = [call EXCEPT ![c] = r],
         UNCHANGED connected, UNCHANGED vars,
         exchanging' = exchanging \/ (exchanging' = Nobody /\ Event),
         connected => /\ r.at \notin {"key", "sent"}
                      /\ r.at = "ready" => buf = Prefix(c, r.next - 1)
  PROVE  UploadInv'
<1>1. ASSUME connected', NEW d \in Calls
      PROVE  /\ call'[d].at = "key" => pending' = NoCmd /\ reply'.data = Address
             /\ call'[d].at = "ready" /\ exchanging' = Nobody =>
                  buf' = Prefix(d, call'[d].next - 1)
             /\ call'[d].at = "sent" => Sent(d, call[d].next)'
  <2>1. CASE d = c
    <3>1. call'[d] = r
      BY <2>1 DEF HostInv, HostTypeOK
    <3> QED  BY <1>1, <2>1, <3>1 DEF vars
  <2>2. CASE d # c
    <3>1. call'[d] = call[d]
      BY <2>2 DEF HostInv, HostTypeOK
    <3>2. call[d].at = "sent" => Sent(d, call[d].next)'
      <4>1. call[d].at = "sent" => Sent(d, call[d].next)
        BY <1>1 DEF HostInv, UploadInv
      <4> QED  BY <3>1, <4>1 DEF Sent, vars, Reviewing, Prefix, Chunks
    <3>3. call[d].at = "ready" /\ exchanging' = Nobody => exchanging = Nobody
      BY DEF Event
    <3> QED  BY <1>1, <3>1, <3>2, <3>3 DEF HostInv, UploadInv, vars
  <2> QED  BY <2>1, <2>2
<1> QED  BY <1>1 DEF UploadInv, Prefix, Chunks

(***************************************************************************)
(* The inductive invariant of the host.  A step of a call ends in one of   *)
(* three ways: it throws, the device takes a chunk, or it goes on by       *)
(* itself; the remaining steps are those of the device and the connection. *)
(***************************************************************************)
Outcomes == {"busy", "disconnected", "locked", "refused", "network"}

LEMMA ThrownType ==
  ASSUME NEW outcome \in Outcomes
  PROVE  LET r == [At("thrown", 0) EXCEPT !.outcome = outcome]
         IN  r \in CallType /\ r.at = "thrown" /\ r.outcome = outcome
<1>1. "thrown" \in Places
  BY DEF Places
<1>2. At("thrown", 0) \in CallType /\ At("thrown", 0).at = "thrown"
  BY <1>1, AtType
<1> QED  BY <1>2 DEF CallType, Outcomes

\* A call that throws, its exchange over or never begun
LEMMA ThrowsKeeps ==
  ASSUME HostInv, NEW c \in Calls, NEW outcome \in Outcomes,
         Throws(c, outcome) \/ (UNCHANGED lock /\ lock # c /\
           call' = [call EXCEPT ![c] = [At("thrown", 0) EXCEPT !.outcome = outcome]]),
         UNCHANGED connected, UNCHANGED vars,
         \/ UNCHANGED exchanging /\ exchanging # c
         \/ exchanging = c /\ exchanging' = Nobody /\ Event /\ (pending = NoCmd \/ ~connected)
  PROVE  HostInv'
<1> DEFINE r == [At("thrown", 0) EXCEPT !.outcome = outcome]
<1>1. r \in CallType /\ r.at = "thrown" /\ c # Nobody
  BY ThrownType, CallNames
<1>2. call' = [call EXCEPT ![c] = r] /\ lock' \in {lock, Nobody} /\ lock' # c
  BY <1>1 DEF Throws, Unlocked
<1>3. HostTypeOK /\ CallInv /\ LineInv /\ connected' \in BOOLEAN
  BY DEF HostInv, HostTypeOK
<1> HIDE DEF r
<1>4. HostTypeOK' /\ CallInv'
  BY <1>1, <1>2, <1>3, CallMoves
<1>5. UploadInv'
  BY <1>1, <1>2, OthersKeepUploads
<1>6. LineInv'
  BY <1>3 DEF LineInv, vars
<1> QED  BY <1>4, <1>5, <1>6 DEF HostInv

\* A call whose chunk is sent, or that finds the transport not ready
LEMMA SendKeeps ==
  ASSUME HostInv, IndInv, NEW c \in Calls, NEW n \in 1..Chunks(c), Send(c, n),
         call[c].at \notin {"key", "sent"},
         lock = c => Locks(c),
         n # 1 /\ exchanging = Nobody /\ connected => buf = Prefix(c, n - 1)
  PROVE  HostInv'
<1>0. HostTypeOK /\ CallInv /\ LineInv /\ UploadInv /\ c # Nobody
  BY CallNames DEF HostInv
<1>1. exchanging # c
  BY <1>0 DEF CallInv
<1>2. CASE SendFails(c)
  <2>1. "busy" \in Outcomes /\ "disconnected" \in Outcomes
    BY DEF Outcomes
  <2> QED  BY <1>1, <1>2, <2>1, ThrowsKeeps DEF SendFails
<1>3. CASE /\ exchanging = Nobody /\ connected
           /\ Deliver(c, n)
           /\ call' = [call EXCEPT ![c] = At("sent", n)]
           /\ lock' = IF Locks(c) THEN c ELSE lock
           /\ exchanging' = c
           /\ UNCHANGED connected
  <2>1. n \in Nat /\ "sent" \in Places
    BY ChunksBounds DEF Places, Running
  <2>2. At("sent", n) \in CallType /\ At("sent", n).at = "sent" /\ At("sent", n).next = n
    BY <2>1, AtType
  <2>3. HostTypeOK' /\ CallInv'
    <3>1. connected' \in BOOLEAN
      BY <1>0, <1>3 DEF HostTypeOK
    <3>2. lock' \in {lock, c, Nobody} /\ (lock' = c => Locks(c))
      BY <1>3
    <3> QED  BY <1>0, <1>3, <2>2, <3>1, <3>2, CallMoves
  <2>4. Sent(c, n)' /\ reply' = NoReply /\ UNCHANGED on
    BY <1>3, DeliverKeeps
  <2>5. LineInv'
    BY <1>0, <1>3, <2>4 DEF LineInv
  <2>6. ASSUME NEW d \in Calls
        PROVE  /\ call'[d].at = "key" => pending' = NoCmd /\ reply'.data = Address
               /\ call'[d].at = "ready" /\ exchanging' = Nobody =>
                    buf' = Prefix(d, call'[d].next - 1)
               /\ call'[d].at = "sent" => d = c /\ call'[d].next = n
    <3>1. call'[d].at \in {"key", "sent"} => d = c
      BY <1>3, <2>3 DEF CallInv
    <3>2. call'[c] = At("sent", n)
      BY <1>0, <1>3 DEF HostTypeOK
    <3> QED  BY <1>0, <1>3, <2>2, <3>1, <3>2
  <2>7. UploadInv'
    <3> SUFFICES ASSUME NEW d \in Calls
                 PROVE  /\ call'[d].at = "key" => pending' = NoCmd /\ reply'.data = Address
                        /\ call'[d].at = "ready" /\ exchanging' = Nobody =>
                             buf' = Prefix(d, call'[d].next - 1)
                        /\ call'[d].at = "sent" => Sent(d, call[d].next)'
      BY DEF UploadInv, Prefix, Chunks
    <3>1. call'[d].at = "sent" => Sent(d, call[d].next)'
      BY <2>4, <2>6 DEF Sent, Prefix, Chunks
    <3> QED  BY <2>6, <3>1
  <2> QED  BY <2>3, <2>5, <2>7 DEF HostInv
<1> QED  BY <1>2, <1>3 DEF Send

\* publicKey(true) is called.
LEMMA BeginKeeps ==
  ASSUME HostInv, IndInv, NEW c \in Calls, Begin(c)
  PROVE  HostInv'
<1>0. /\ HostTypeOK /\ CallInv /\ LineInv /\ c # Nobody /\ call[c].at = "idle"
      /\ exchanging # c /\ lock # c
  BY CallNames DEF HostInv, Begin, CallInv
<1>1. CASE Refused(c)
  <2>1. "locked" \in Outcomes
    BY DEF Outcomes
  <2> QED  BY <1>0, <1>1, <2>1, ThrowsKeeps DEF Refused
<1>2. CASE SendFails(c)
  <2>1. "busy" \in Outcomes /\ "disconnected" \in Outcomes
    BY DEF Outcomes
  <2> QED  BY <1>0, <1>2, <2>1, ThrowsKeeps DEF SendFails
<1>3. CASE /\ exchanging = Nobody /\ connected
           /\ GetPublicKeySilent
           /\ call' = [call EXCEPT ![c] = At("key", 0)]
           /\ lock' = c
           /\ exchanging' = c
           /\ UNCHANGED connected
  <2>1. At("key", 0) \in CallType /\ At("key", 0).at = "key"
    BY AtType DEF Places, Running
  <2>2. HostTypeOK' /\ CallInv'
    <3>1. connected' \in BOOLEAN
      BY <1>0, <1>3 DEF HostTypeOK
    <3> QED  BY <1>0, <1>3, <2>1, <3>1, CallMoves
  <2>3. pending' = NoCmd /\ reply'.data = Address /\ UNCHANGED on
    BY <1>3 DEF GetPublicKeySilent, Answer
  <2>4. LineInv'
    BY <1>0, <1>3, <2>3 DEF LineInv
  <2>5. \A d \in Calls : call'[d].at # "sent"
    <3>1. call'[c] = At("key", 0)
      BY <1>0, <1>3 DEF HostTypeOK
    <3> QED  BY <1>3, <2>1, <2>2, <3>1 DEF CallInv
  <2>6. UploadInv'
    BY <1>0, <1>3, <2>3, <2>5 DEF UploadInv
  <2> QED  BY <2>2, <2>4, <2>6 DEF HostInv
<1> QED  BY <1>1, <1>2, <1>3 DEF Begin

\* The reply to publicKey arrives, or does not any more.
LEMMA ReceiveKeyKeeps ==
  ASSUME HostInv, IndInv, NEW c \in Calls, ReceiveKey(c)
  PROVE  HostInv'
<1>0. /\ HostTypeOK /\ CallInv /\ LineInv /\ c # Nobody /\ call[c].at = "key"
      /\ exchanging = c /\ exchanging' = Nobody /\ Event /\ (pending = NoCmd \/ ~connected)
      /\ UNCHANGED connected /\ UNCHANGED vars
  BY CallNames DEF HostInv, ReceiveKey, Awaited
<1>1. CASE ~Succeeded
  <2>1. "refused" \in Outcomes /\ "disconnected" \in Outcomes
    BY DEF Outcomes
  <2>2. Throws(c, "refused") \/ Throws(c, "disconnected")
    BY <1>1 DEF ReceiveKey
  <2> QED  BY <1>0, <2>1, <2>2, ThrowsKeeps
<1>2. CASE Succeeded
  <2>1. call' = [call EXCEPT ![c] = At("nonce", 0)] /\ lock' = Unlocked(c)
    BY <1>2 DEF ReceiveKey
  <2>2. At("nonce", 0) \in CallType /\ At("nonce", 0).at = "nonce"
    BY AtType DEF Places, Running
  <2>3. HostTypeOK' /\ CallInv'
    <3>1. connected' \in BOOLEAN
      BY <1>0 DEF HostTypeOK
    <3>2. lock' \in {lock, c, Nobody} /\ lock' # c
      BY <1>0, <2>1 DEF Unlocked
    <3> QED  BY <1>0, <2>1, <2>2, <3>1, <3>2, CallMoves
  <2>4. UploadInv'
    BY <1>0, <2>1, <2>2, OthersKeepUploads
  <2>5. LineInv'
    BY <1>0 DEF LineInv, vars
  <2> QED  BY <2>3, <2>4, <2>5 DEF HostInv
<1> QED  BY <1>1, <1>2

\* The nonce arrives, or the network fails, or a chunk follows.
LEMMA NonceKeeps ==
  ASSUME HostInv, IndInv, NEW c \in Calls, Nonce(c) \/ NonceFails(c)
  PROVE  HostInv'
<1>0. CallInv /\ call[c].at = "nonce" /\ exchanging # c /\ lock # c
  BY DEF HostInv, CallInv, Nonce, NonceFails
<1>1. "locked" \in Outcomes /\ "network" \in Outcomes
  BY DEF Outcomes
<1>2. CASE NonceFails(c)
  BY <1>0, <1>1, <1>2, ThrowsKeeps DEF NonceFails
<1>3. CASE Nonce(c) /\ Refused(c)
  BY <1>0, <1>1, <1>3, ThrowsKeeps DEF Refused
<1>4. CASE Nonce(c) /\ Send(c, 1)
  <2>1. 1 \in 1..Chunks(c)
    BY ChunksBounds
  <2> QED  BY <1>0, <1>4, <2>1, SendKeeps
<1> QED  BY <1>2, <1>3, <1>4 DEF Nonce

LEMMA ContinueKeeps ==
  ASSUME HostInv, IndInv, NEW c \in Calls, Continue(c)
  PROVE  HostInv'
<1>1. call[c].at = "ready" /\ call[c].next \in 2..Chunks(c) /\ (lock = c => Locks(c))
  BY DEF HostInv, CallInv, Continue
<1>2. call[c].next \in 1..Chunks(c)
  BY <1>1, ChunksBounds
<1>3. exchanging = Nobody /\ connected => buf = Prefix(c, call[c].next - 1)
  BY <1>1 DEF HostInv, UploadInv
<1> QED  BY <1>1, <1>2, <1>3, SendKeeps DEF Continue

\* The reply to a chunk arrives, or does not any more.
LEMMA ReceiveKeeps ==
  ASSUME HostInv, IndInv, NEW c \in Calls, Receive(c)
  PROVE  HostInv'
<1> DEFINE n == call[c].next
<1>0. /\ HostTypeOK /\ CallInv /\ LineInv /\ c # Nobody /\ call[c].at = "sent"
      /\ exchanging = c /\ exchanging' = Nobody /\ Event /\ (pending = NoCmd \/ ~connected)
      /\ UNCHANGED connected /\ UNCHANGED vars
  BY CallNames DEF HostInv, Receive, Awaited
<1>1. n \in 1..Chunks(c) /\ Chunks(c) \in Nat
  BY <1>0, ChunksBounds DEF CallInv
<1>a. connected' \in BOOLEAN /\ Unlocked(c) \in {lock, Nobody} /\ Unlocked(c) # c
  BY <1>0 DEF HostTypeOK, Unlocked
<1>2. CASE ~Succeeded
  <2>1. "refused" \in Outcomes /\ "disconnected" \in Outcomes
    BY DEF Outcomes
  <2>2. Throws(c, "refused") \/ Throws(c, "disconnected")
    BY <1>2 DEF Receive
  <2> QED  BY <1>0, <2>1, <2>2, ThrowsKeeps
<1>3. CASE Succeeded
  <2>0. LineInv'
    BY <1>0 DEF LineInv, vars
  <2>1. \/ n < Chunks(c) /\ buf = Prefix(c, n)
        \/ n = Chunks(c) /\ reply.data = Signature(Message[c])
    BY <1>0, <1>3 DEF Succeeded, HostInv, UploadInv, Sent
  <2>2. CASE n < Chunks(c)
    <3>1. call' = [call EXCEPT ![c] = Ready(n + 1)] /\ UNCHANGED lock
      BY <1>3, <2>2 DEF Receive
    <3>2. /\ Ready(n + 1) \in CallType /\ Ready(n + 1).at = "ready"
          /\ Ready(n + 1).next = n + 1 /\ n + 1 \in 2..Chunks(c) /\ (n + 1) - 1 = n
      <4>1. "ready" \in Places /\ n + 1 \in Nat
        BY <1>1 DEF Places, Running
      <4> QED  BY <1>1, <2>2, <4>1, AtType
    <3>3. lock' = c => Locks(c)
      BY <1>0, <3>1 DEF CallInv
    <3> HIDE DEF n
    <3>4. HostTypeOK' /\ CallInv'
      BY <1>0, <1>a, <3>1, <3>2, <3>3, CallMoves DEF Event
    <3>5. UploadInv'
      <4> DEFINE r == Ready(n + 1)
      <4>1. r.next - 1 = n /\ r.at = "ready"
        BY <3>2
      <4>2. buf = Prefix(c, r.next - 1)
        BY <1>1, <2>1, <2>2, <4>1
      <4>3. call' = [call EXCEPT ![c] = r]
        BY <3>1
      <4> HIDE DEF r
      <4> QED  BY <1>0, <4>1, <4>2, <4>3, OthersKeepUploads
    <3> QED  BY <2>0, <3>4, <3>5 DEF HostInv
  <2>3. CASE n = Chunks(c)
    <3> DEFINE r == [At("returned", 0) EXCEPT !.signed = reply.data.bytes]
    <3>1. call' = [call EXCEPT ![c] = r] /\ lock' = Unlocked(c)
      BY <1>1, <1>3, <2>3 DEF Receive
    <3>2. reply.data.bytes = Message[c] /\ Message[c] \in Seq(Byte \cup {Foreign})
      <4>1. reply.data = Signature(Message[c])
        BY <1>1, <2>1, <2>3
      <4>2. Message[c] \in Seq(Byte)
        BY HostAssumption
      <4> QED  BY <4>1, <4>2 DEF Signature
    <3>3. At("returned", 0) \in CallType /\ At("returned", 0).at = "returned"
      BY AtType DEF Places
    <3>4. r \in CallType /\ r.at = "returned" /\ r.signed = Message[c]
      BY <3>2, <3>3 DEF CallType
    <3> HIDE DEF r
    <3>5. HostTypeOK' /\ CallInv'
      BY <1>0, <1>a, <3>1, <3>4, CallMoves
    <3>6. UploadInv'
      BY <1>0, <3>1, <3>4, OthersKeepUploads
    <3> QED  BY <2>0, <3>5, <3>6 DEF HostInv
  <2> QED  BY <1>1, <2>2, <2>3
<1> QED  BY <1>2, <1>3

\* The user, the loop, and the start of an application that was left
LEMMA DeviceKeepsHost ==
  ASSUME HostInv, IndInv, Device
  PROVE  HostInv'
<1>0. /\ HostTypeOK /\ CallInv /\ LineInv /\ UploadInv /\ connected \in BOOLEAN
      /\ UNCHANGED <<call, lock, exchanging, connected>>
  BY DEF HostInv, HostTypeOK, Device, hostVars
<1>1. HostTypeOK' /\ CallInv'
  BY <1>0 DEF HostTypeOK, CallInv, Chunks, Locks
<1>2. CASE Start(Idle)
  <2>1. pending' = NoCmd /\ ~connected'
    BY <1>0, <1>2 DEF Start, LineInv
  <2> QED  BY <1>1, <2>1 DEF HostInv, LineInv, UploadInv
<1>3. CASE Button \/ SendStaged
  <2>1. /\ UNCHANGED <<on, buf>>
        /\ pending' # NoCmd \/ pending = NoCmd => UNCHANGED <<pending, reply>>
    BY <1>3, DeviceKeeps
  <2>2. LineInv'
    BY <1>0, <2>1 DEF LineInv
  <2>3. UploadInv'
    <3> SUFFICES ASSUME connected, NEW c \in Calls
                 PROVE  /\ call[c].at = "key" => pending' = NoCmd /\ reply'.data = Address
                        /\ call[c].at = "ready" /\ exchanging = Nobody =>
                             buf = Prefix(c, call[c].next - 1)
                        /\ call[c].at = "sent" => Sent(c, call[c].next)'
      BY <1>0, <2>1 DEF UploadInv, Prefix, Chunks
    <3>1. /\ call[c].at = "key" => pending = NoCmd /\ reply.data = Address
          /\ call[c].at = "ready" /\ exchanging = Nobody => buf = Prefix(c, call[c].next - 1)
          /\ call[c].at = "sent" => Sent(c, call[c].next) /\ call[c].next \in 1..Chunks(c)
      BY <1>0 DEF UploadInv, CallInv
    <3>2. call[c].at = "sent" => Sent(c, call[c].next)'
      <4> DEFINE n == call[c].next
      <4> SUFFICES ASSUME call[c].at = "sent" PROVE Sent(c, call[c].next)'
        OBVIOUS
      <4>1. on /\ n \in 1..Chunks(c) /\ Sent(c, n) /\ UNCHANGED call
        BY <1>0, <3>1 DEF LineInv
      <4>2. \A m \in 1..Chunks(c) : Sent(c, m) => Sent(c, m)'
        BY <1>3, <4>1, DeviceKeepsSent
      <4> QED  BY <4>1, <4>2 DEF Sent, Prefix, Chunks
    <3> QED  BY <2>1, <3>1, <3>2
  <2> QED  BY <1>1, <2>2, <2>3 DEF HostInv
<1> QED  BY <1>2, <1>3 DEF Device

\* The device goes away, or the program is run again.
LEMMA ConnectionKeeps ==
  ASSUME HostInv, IndInv, Disconnect \/ Reconnect
  PROVE  HostInv'
<1>0. HostTypeOK /\ CallInv /\ LineInv /\ UNCHANGED <<call, lock, exchanging>>
  BY DEF HostInv, Disconnect, Reconnect
<1>1. CASE Disconnect
  <2>1. connected' = FALSE /\ pending' = NoCmd
    BY <1>1 DEF Disconnect, Reset, Quit
  <2>2. HostTypeOK' /\ CallInv'
    BY <1>0, <2>1 DEF HostTypeOK, CallInv, Chunks, Locks
  <2> QED  BY <2>1, <2>2 DEF HostInv, LineInv, UploadInv
<1>2. CASE Reconnect
  <2>1. connected' = TRUE /\ pending' = NoCmd /\ on'
    BY <1>0, <1>2 DEF Reconnect, LineInv, vars
  <2>2. HostTypeOK' /\ CallInv'
    BY <1>0, <2>1 DEF HostTypeOK, CallInv, Chunks, Locks
  <2>3. \A c \in Calls : call'[c].at \notin {"key", "ready", "sent"}
    BY <1>0, <1>2 DEF Reconnect, Running
  <2> QED  BY <2>1, <2>2, <2>3 DEF HostInv, LineInv, UploadInv
<1> QED  BY <1>1, <1>2

LEMMA HostInvInit == HostInit => HostInv /\ IndInv
<1> SUFFICES ASSUME HostInit PROVE HostInv /\ IndInv  OBVIOUS
<1>1. At("idle", 0) \in CallType /\ At("idle", 0).at = "idle"
  BY AtType DEF Places
<1>2. IndInv
  BY IndInvInit DEF HostInit
<1>3. HostTypeOK
  BY <1>1 DEF HostInit, HostTypeOK, CallType
<1>4. CallInv /\ UploadInv
  BY <1>1, CallNames DEF HostInit, CallInv, UploadInv
<1>5. LineInv
  BY DEF HostInit, Init, CoreInit, LineInv
<1> QED  BY <1>2, <1>3, <1>4, <1>5 DEF HostInv

LEMMA HostInvNext == HostInv /\ IndInv /\ [HostNext]_allVars => HostInv' /\ IndInv'
<1> SUFFICES ASSUME HostInv, IndInv, [HostNext]_allVars PROVE HostInv' /\ IndInv'
  OBVIOUS
<1>1. IndInv'
  BY HostStepsDevice, IndInvNext
<1> SUFFICES HostInv'
  BY <1>1
<1>2. ASSUME NEW c \in Calls, Begin(c) \/ Proceed(c)
      PROVE  HostInv'
  BY <1>2, BeginKeeps, ReceiveKeyKeeps, NonceKeeps, ContinueKeeps, ReceiveKeeps DEF Proceed
<1>3. CASE Device \/ Disconnect \/ Reconnect
  BY <1>3, DeviceKeepsHost, ConnectionKeeps
<1>4. CASE UNCHANGED allVars
  <2>1. HostTypeOK' /\ CallInv' /\ LineInv'
    BY <1>4 DEF HostInv, HostTypeOK, CallInv, LineInv, Chunks, Locks, allVars, hostVars, vars
  <2>2. UploadInv'
    BY <1>4 DEF HostInv, UploadInv, Sent, Reviewing, Prefix, Chunks, allVars, hostVars, vars
  <2> QED  BY <2>1, <2>2 DEF HostInv
<1> QED  BY <1>2, <1>3, <1>4 DEF HostNext

\* Everything the next theorems say of the calls follows from this.
THEOREM HostInvariance == HostSpec => [](HostInv /\ IndInv)
  BY HostInvInit, HostInvNext, PTL DEF HostSpec

\* The device that serves the calls is the one the other theorems are about:
\* what they state of every step of the Nano X holds of it as well.
THEOREM HostDrivesDevice == HostSpec => Spec
<1>1. HostInit => Init
  BY DEF HostInit
<1> QED  BY <1>1, HostStepsDevice, HostInvariance, PTL DEF HostSpec, Spec

\* The signature a call returns, and every signature the device gives, is of
\* the transaction of the call that receives it.
THEOREM OwnSignatures == HostSpec => []SignaturesAreOwn
<1>1. HostInv => SignaturesAreOwn
  <2> SUFFICES ASSUME HostInv PROVE SignaturesAreOwn  OBVIOUS
  <2>1. \A c \in Calls : call[c].at = "returned" => call[c].signed = Message[c]
    BY DEF HostInv, CallInv
  <2>2. ASSUME connected, exchanging # Nobody, reply.data.kind = "signature"
        PROVE  reply.data.bytes = Message[exchanging]
    <3>1. exchanging \in Calls /\ call[exchanging].at \in {"key", "sent"}
      BY <2>2 DEF HostInv, HostTypeOK, CallInv
    <3>2. pending = NoCmd
      BY <2>2 DEF HostInv, LineInv, NoReply, NoData
    <3>3. reply.data = Signature(Message[exchanging])
      BY <2>2, <3>1, <3>2 DEF HostInv, UploadInv, Sent, Address, NoData
    <3> QED  BY <3>3 DEF Signature
  <2> QED  BY <2>1, <2>2 DEF SignaturesAreOwn
<1> QED  BY <1>1, HostInvariance, PTL

\* A call is turned away by the lock or the busy transport only while
\* another call runs.
THEOREM TurnedAway == HostSpec => TurnedAwayOnlyByOthers
<1> DEFINE Turned(c) == call'[c] # call[c] /\ call'[c].outcome \in {"locked", "busy"}
           Another(c) == \E other \in Calls \ {c} : call[other].at \in Running
<1>1. ASSUME HostInv, [HostNext]_allVars
      PROVE  [\A c \in Calls : Turned(c) => Another(c)]_allVars
  <2>0. HostTypeOK /\ CallInv
    BY <1>1 DEF HostInv
  <2>1. ASSUME NEW c \in Calls, SendFails(c), exchanging # c
        PROVE  \A d \in Calls : Turned(d) => Another(d)
    <3>1. CASE exchanging # Nobody
      <4>1. exchanging \in Calls \ {c} /\ call[exchanging].at \in Running
        BY <2>0, <2>1, <3>1 DEF HostTypeOK, CallInv, Running
      <4>2. Another(c) /\ \A d \in Calls \ {c} : call'[d] = call[d]
        BY <2>0, <2>1, <4>1 DEF SendFails, Throws, HostTypeOK
      <4> QED  BY <4>2
    <3>2. CASE exchanging = Nobody
      <4>1. Throws(c, "disconnected")
        BY <2>1, <3>2 DEF SendFails
      <4>2. call'[c].outcome = "disconnected" /\ \A d \in Calls \ {c} : call'[d] = call[d]
        BY <2>0, <4>1 DEF Throws, HostTypeOK, At, Ready
      <4> QED  BY <4>2
    <3> QED  BY <3>1, <3>2
  <2>2. ASSUME NEW c \in Calls, Refused(c), lock \notin {c, Nobody}
        PROVE  \A d \in Calls : Turned(d) => Another(d)
    <3>1. lock \in Calls \ {c} /\ call[lock].at \in Running
      BY <2>0, <2>2 DEF HostTypeOK, CallInv, Running
    <3>2. Another(c) /\ \A d \in Calls \ {c} : call'[d] = call[d]
      BY <2>0, <2>2, <3>1 DEF Refused, HostTypeOK
    <3> QED  BY <3>2
  <2>3. ASSUME NEW c \in Calls, NEW r, r.outcome \notin {"locked", "busy"},
               call' = [call EXCEPT ![c] = r]
        PROVE  \A d \in Calls : Turned(d) => Another(d)
    <3>1. call'[c] = r /\ \A d \in Calls \ {c} : call'[d] = call[d]
      BY <2>0, <2>3 DEF HostTypeOK
    <3> QED  BY <2>3, <3>1
  <2>a. \A at, n : At(at, n).outcome = "none" /\ Ready(n).outcome = "none"
    BY DEF At, Ready
  <2>b. ASSUME NEW c \in Calls, NEW outcome \in Outcomes \ {"locked", "busy"},
               Throws(c, outcome)
        PROVE  \A d \in Calls : Turned(d) => Another(d)
    BY <2>3, <2>b, ThrownType DEF Throws
  <2>4. ASSUME NEW c \in Calls, Begin(c)
        PROVE  \A d \in Calls : Turned(d) => Another(d)
    <3>1. exchanging # c /\ lock # c
      BY <2>0, <2>4 DEF Begin, CallInv
    <3>2. \/ Refused(c) /\ lock # Nobody
          \/ SendFails(c)
          \/ call' = [call EXCEPT ![c] = At("key", 0)]
      BY <2>4 DEF Begin
    <3> QED  BY <2>1, <2>2, <2>3, <2>a, <3>1, <3>2
  <2>5. ASSUME NEW c \in Calls, NEW n, Send(c, n), exchanging # c
        PROVE  \A d \in Calls : Turned(d) => Another(d)
    BY <2>1, <2>3, <2>5, <2>a DEF Send
  <2>6. ASSUME NEW c \in Calls, Proceed(c)
        PROVE  \A d \in Calls : Turned(d) => Another(d)
    <3>0. "refused" \in Outcomes /\ "disconnected" \in Outcomes /\ "network" \in Outcomes
      BY DEF Outcomes
    <3>1. CASE ReceiveKey(c)
      BY <2>3, <2>a, <2>b, <3>0, <3>1 DEF ReceiveKey
    <3>2. CASE NonceFails(c)
      BY <2>b, <3>0, <3>2 DEF NonceFails
    <3>3. CASE Nonce(c)
      <4>1. exchanging # c /\ lock # c
        BY <2>0, <3>3 DEF Nonce, CallInv
      <4>2. (Refused(c) /\ lock # Nobody) \/ Send(c, 1)
        BY <3>3 DEF Nonce
      <4> QED  BY <2>2, <2>5, <4>1, <4>2
    <3>4. CASE Continue(c)
      <4>1. exchanging # c
        BY <2>0, <3>4 DEF Continue, CallInv
      <4> QED  BY <2>5, <3>4, <4>1 DEF Continue
    <3>5. CASE Receive(c)
      <4>1. [At("returned", 0) EXCEPT !.signed = reply.data.bytes].outcome = "none"
        BY DEF At, Ready
      <4>2. \/ Throws(c, "refused") \/ Throws(c, "disconnected")
            \/ call' = [call EXCEPT ![c] = Ready(call[c].next + 1)]
            \/ call' = [call EXCEPT ![c] =
                          [At("returned", 0) EXCEPT !.signed = reply.data.bytes]]
        BY <3>5 DEF Receive
      <4> QED  BY <2>3, <2>a, <2>b, <3>0, <4>1, <4>2
    <3> QED  BY <2>6, <3>1, <3>2, <3>3, <3>4, <3>5 DEF Proceed
  <2>7. CASE Device \/ Disconnect \/ Reconnect
    BY <2>7 DEF Device, Disconnect, Reconnect, hostVars
  <2>8. CASE UNCHANGED allVars
    BY <2>8
  <2> QED  BY <1>1, <2>4, <2>6, <2>7, <2>8 DEF HostNext
<1> QED  BY <1>1, HostInvariance, PTL DEF HostSpec, TurnedAwayOnlyByOthers
=============================================================================
