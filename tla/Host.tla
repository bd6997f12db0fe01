-------------------------------- MODULE Host --------------------------------
(***************************************************************************)
(* ledger_sdk.js over one transport to a Nano X: calls of signTransaction  *)
(* and signStakingTransaction, which run concurrently as JavaScript does.  *)
(* A call runs from one await to the next; it asks the device for its      *)
(* address, the network for its nonce, and then sends its transaction in   *)
(* chunks and takes the reply to the last one for the signature.           *)
(*                                                                         *)
(* Two things keep calls apart.  decorateAppAPIMethods locks publicKey and *)
(* signTx, but not signStake; and the transport refuses to send while a    *)
(* reply is awaited.  The transport, the network and the promises are      *)
(* external: between the reply to a chunk and the next chunk no other      *)
(* reply arrives, because promises that are ready run before events.       *)
(*                                                                         *)
(* CHUNK_SIZE is the device's CMD_BUFFER_SIZE, 255 in both programs.       *)
(***************************************************************************)
EXTENDS NanoX

CONSTANTS
  Calls,   \* the calls, each made at most once
  Kind,    \* the command each of them uploads its transaction with
  Message  \* the bytes of the transaction of each call, encoded

Nobody == "nobody"

ASSUME HostAssumption ==
  /\ Nobody \notin Calls
  /\ Kind \in [Calls -> SignIns]
  /\ Message \in [Calls -> Seq(Byte) \ {<<>>}]

VARIABLES
  call,       \* where each call is, its next chunk, and its outcome
  lock,       \* _appAPIlock: the call that runs publicKey or signTx
  exchanging, \* the call whose reply the transport awaits
  connected   \* the device of the transport is there

hostVars == <<call, lock, exchanging, connected>>
allVars == <<hostVars, vars>>

Ready(n) == [at |-> "ready", next |-> n, outcome |-> "none", signed |-> <<>>]
At(at, n) == [Ready(n) EXCEPT !.at = at]
Running == {"key", "nonce", "ready", "sent"}

\* signTx is decorated, signStake is not.
Locks(c) == Kind[c] = "tx"

Unlocked(c) == IF lock = c THEN Nobody ELSE lock

(***************************************************************************)
(* The end of a call                                                       *)
(***************************************************************************)
\* A slip: the lock is released only by a call that succeeds.
ThrowsKeepingLock(c, outcome) ==
  /\ call' = [call EXCEPT ![c] = [At("thrown", 0) EXCEPT !.outcome = outcome]]
  /\ UNCHANGED lock

\* processErrorResponse makes SW_ERR of every error, and the caller throws;
\* the decorated method releases its lock in every case.
Throws(c, outcome) ==
  /\ call' = [call EXCEPT ![c] = [At("thrown", 0) EXCEPT !.outcome = outcome]]
  /\ lock' = Unlocked(c)

\* transport.send refuses, and the exchange of another call goes on.
SendFails(c) ==
  /\ \/ exchanging # Nobody /\ Throws(c, "busy")
     \/ exchanging = Nobody /\ ~connected /\ Throws(c, "disconnected")
  /\ UNCHANGED <<exchanging, connected>> /\ UNCHANGED vars

Refused(c) ==
  /\ call' = [call EXCEPT ![c] = [At("thrown", 0) EXCEPT !.outcome = "locked"]]
  /\ UNCHANGED <<lock, exchanging, connected>> /\ UNCHANGED vars

(***************************************************************************)
(* publicKey(true)                                                         *)
(***************************************************************************)
Begin(c) ==
  /\ call[c].at = "idle"
  /\ IF lock # Nobody THEN Refused(c)
     ELSE \/ SendFails(c)
          \/ /\ exchanging = Nobody /\ connected
             /\ GetPublicKeySilent
             /\ call' = [call EXCEPT ![c] = At("key", 0)]
             /\ lock' = c
             /\ exchanging' = c
             /\ UNCHANGED connected

\* An event is looked at when no call is ready to go on.
Event == \A c \in Calls : call[c].at # "ready"

\* The reply is there, or the device has gone.
Awaited(c) == Event /\ exchanging = c /\ (pending = NoCmd \/ ~connected)

Succeeded == connected /\ reply.sw = SW_OK

ReceiveKey(c) ==
  /\ call[c].at = "key" /\ Awaited(c)
  /\ exchanging' = Nobody
  /\ IF Succeeded
     THEN call' = [call EXCEPT ![c] = At("nonce", 0)] /\ lock' = Unlocked(c)
     ELSE Throws(c, IF connected THEN "refused" ELSE "disconnected")
  /\ UNCHANGED connected /\ UNCHANGED vars

(***************************************************************************)
(* signTx and signStake                                                    *)
(***************************************************************************)
Chunks(c) == (Len(Message[c]) + CmdBufferSize - 1) \div CmdBufferSize

Chunk(c, n) ==
  SubSeq(Message[c], (n - 1) * CmdBufferSize + 1,
         IF n = Chunks(c) THEN Len(Message[c]) ELSE n * CmdBufferSize)

\* The device takes chunk n with these P1 and P2.
Upload(c, first, finish, data) ==
  \/ RefuseUpload(Kind[c], first, data)
  \/ ~finish /\ StoreChunk(Kind[c], first, data)
  \/ /\ finish /\ Kind[c] = "tx"
     /\ \E result \in TxResults : FinishTx(first, data, result)
  \/ /\ finish /\ Kind[c] = "stake"
     /\ \E result \in StakeResults : FinishStake(first, data, result)

\* A slip: the first chunk is sent as one of the others.
DeliverMore(c, n) == Upload(c, FALSE, n = Chunks(c), Chunk(c, n))

\* The first chunk has P1_FIRST and the last P2_FINISH.
Deliver(c, n) == Upload(c, n = 1, n = Chunks(c), Chunk(c, n))

Send(c, n) ==
  \/ SendFails(c)
  \/ /\ exchanging = Nobody /\ connected
     /\ Deliver(c, n)
     /\ call' = [call EXCEPT ![c] = At("sent", n)]
     /\ lock' = IF Locks(c) THEN c ELSE lock
     /\ exchanging' = c
     /\ UNCHANGED connected

\* The nonce arrives, and the upload is called and sends its first chunk.
Nonce(c) ==
  /\ call[c].at = "nonce" /\ Event
  /\ IF Locks(c) /\ lock # Nobody THEN Refused(c) ELSE Send(c, 1)

NonceFails(c) ==
  /\ call[c].at = "nonce" /\ Event
  /\ Throws(c, "network")
  /\ UNCHANGED <<exchanging, connected>> /\ UNCHANGED vars

Continue(c) == call[c].at = "ready" /\ Send(c, call[c].next)

Receive(c) ==
  /\ call[c].at = "sent" /\ Awaited(c)
  /\ exchanging' = Nobody
  /\ IF ~Succeeded
     THEN Throws(c, IF connected THEN "refused" ELSE "disconnected")
     ELSE IF call[c].next < Chunks(c)
     THEN call' = [call EXCEPT ![c] = Ready(call[c].next + 1)] /\ UNCHANGED lock
     ELSE /\ call' = [call EXCEPT ![c] =
                        [At("returned", 0) EXCEPT !.signed = reply.data.bytes]]
          /\ lock' = Unlocked(c)
  /\ UNCHANGED connected /\ UNCHANGED vars

(***************************************************************************)
(* The device and its connection                                           *)
(***************************************************************************)
Device == (Button \/ SendStaged \/ Start(Idle)) /\ UNCHANGED hostVars

\* A reset or leaving the application ends the connection for good:
\* getHarmonyApp keeps the transport it has.
Disconnect ==
  /\ Reset(Idle) \/ Quit(Idle)
  /\ connected' = FALSE
  /\ UNCHANGED <<call, lock, exchanging>>

\* The program is run again, with the calls not made yet.
Reconnect ==
  /\ ~connected /\ on
  /\ \A c \in Calls : call[c].at \notin Running
  /\ connected' = TRUE
  /\ UNCHANGED <<call, lock, exchanging>> /\ UNCHANGED vars

HostInit ==
  /\ Init
  /\ call = [c \in Calls |-> At("idle", 0)]
  /\ lock = Nobody
  /\ exchanging = Nobody
  /\ connected = TRUE

Proceed(c) == ReceiveKey(c) \/ Nonce(c) \/ NonceFails(c) \/ Continue(c) \/ Receive(c)

HostNext ==
  \/ \E c \in Calls : Begin(c) \/ Proceed(c)
  \/ Device
  \/ Disconnect
  \/ Reconnect

\* The network answers or fails; a promise that is ready runs.
HostSpec ==
  /\ HostInit /\ [][HostNext]_allVars
  /\ Fairness
  /\ \A c \in Calls : WF_hostVars(Proceed(c))

(***************************************************************************)
(* Correctness                                                             *)
(***************************************************************************)
\* Whatever other calls do at the same time, the signature a call returns,
\* and every signature the device gives, is of the transaction of the call
\* that receives it, all of its chunks in their order (ledger_sdk.js:90-155).
SignaturesAreOwn ==
  /\ \A c \in Calls : call[c].at = "returned" => call[c].signed = Message[c]
  /\ connected /\ exchanging # Nobody /\ reply.data.kind = "signature" =>
       reply.data.bytes = Message[exchanging]

\* A call is turned away only while another one runs: neither the lock nor
\* the busy transport outlives the call that took it, on none of the error
\* paths (ledger_sdk.js:45-49, 76-80, 109-111).
TurnedAwayOnlyByOthers ==
  [][\A c \in Calls :
       call'[c] # call[c] /\ call'[c].outcome \in {"locked", "busy"} =>
         \E other \in Calls \ {c} : call[other].at \in Running]_allVars

\* Every call that was made returns or throws, whether the user approves or
\* rejects, and also if the device goes away.
EveryCallReturns ==
  \A c \in Calls : call[c].at \in Running ~> call[c].at \notin Running

(***************************************************************************)
(* Why they hold: what every step of the host and of the device keeps.     *)
(***************************************************************************)
\* The first n chunks of a call's transaction
Prefix(c, n) ==
  SubSeq(Message[c], 1, IF n = Chunks(c) THEN Len(Message[c]) ELSE n * CmdBufferSize)

Places == {"idle", "thrown", "returned"} \cup Running

HostTypeOK ==
  /\ call \in [Calls -> [at : Places, next : Nat, signed : Seq(Byte \cup {Foreign}),
                         outcome : {"none", "busy", "disconnected", "locked", "refused",
                                    "network"}]]
  /\ {lock, exchanging} \subseteq Calls \cup {Nobody}
  /\ connected \in BOOLEAN

\* The transport awaits the reply of the call that sent last, one call at
\* most is about to continue, and the lock is held by a call that runs.
CallInv ==
  \A c \in Calls :
    /\ exchanging = c <=> call[c].at \in {"key", "sent"}
    /\ lock = c => call[c].at = "key" \/ (Locks(c) /\ call[c].at \in {"sent", "ready"})
    /\ call[c].at = "sent" => call[c].next \in 1..Chunks(c)
    /\ call[c].at = "ready" =>
         call[c].next \in 2..Chunks(c) /\ \A d \in Calls \ {c} : call[d].at # "ready"
    /\ call[c].at = "returned" => call[c].signed = Message[c]

\* A command is outstanding only for a call that awaits its reply.
LineInv ==
  /\ connected => on
  /\ pending # NoCmd => connected /\ exchanging # Nobody /\ reply = NoReply

\* What the device holds and answered once it took chunk n of c
Sent(c, n) ==
  /\ pending \in {Kind[c], NoCmd}
  /\ staged = SW_OK => n < Chunks(c) /\ buf = Prefix(c, n)
  /\ Reviewing => n = Chunks(c) /\ buf = Prefix(c, n)
  /\ pending = NoCmd =>
       \/ reply.sw # SW_OK /\ reply.data = NoData
       \/ n < Chunks(c) /\ reply.data = NoData /\ buf = Prefix(c, n)
       \/ n = Chunks(c) /\ reply.data = Signature(Message[c])

UploadInv ==
  connected =>
    \A c \in Calls :
      /\ call[c].at = "key" => pending = NoCmd /\ reply.data = Address
      /\ call[c].at = "ready" /\ exchanging = Nobody => buf = Prefix(c, call[c].next - 1)
      /\ call[c].at = "sent" => Sent(c, call[c].next)

\* The inductive invariant, together with IndInv of the device
HostInv == HostTypeOK /\ CallInv /\ LineInv /\ UploadInv
=============================================================================
