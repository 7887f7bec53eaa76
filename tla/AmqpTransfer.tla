----------------------------- MODULE AmqpTransfer -----------------------------
(***************************************************************************)
(* A campaign of AMQP transfers: the harness starts one amqp_client.py per  *)
(* transfer, the client publishes its metadata and its chunks with          *)
(* publisher confirms to two RabbitMQ queues, and amqp_receiver.py consumes *)
(* both.  The broker (external) pushes a message to the receiver's channel  *)
(* as it takes it, unless prefetch_count messages of that queue are pushed  *)
(* and not acknowledged: then it waits in its queue, and a message of the   *)
(* other queue overtakes it.                                                *)
(*                                                                         *)
(* A broker may refuse a message (nack) or the client's connection may be   *)
(* lost in a publish; the receiver may be killed before its acknowledgement *)
(* arrives, and what it handled is then delivered again.                    *)
(***************************************************************************)
EXTENDS FileReceiver, FiniteSetsExt

CONSTANTS
    Campaigns,      \* the conditions a campaign may run under
    MaxFaults       \* bound on the faults of a behaviour

\* prefetch: basic_qos(prefetch_count=...), which is per consumer
\* overlap:  a client may start while the receiver is still busy (the harness
\*           waits for the client only)
\* faults:   the kinds of fault that may happen
ASSUME CampaignPlan ==
    /\ Campaigns \subseteq [prefetch : Nat \ {0}, overlap : BOOLEAN,
                            faults : SUBSET {"nack", "connection", "crash"}]
    /\ MaxFaults \in Nat

VARIABLES
    campaign,   \* the conditions of this campaign
    turn,       \* the transfer whose client runs or runs next
    pc,         \* where that client is
    sent,       \* chunks it has tried to publish
    ctrl,       \* queue file/control: transfers whose metadata is not acknowledged
    data,       \* queue file/data: chunks not acknowledged
    pushed,     \* the queues, in the order their messages were pushed
    handled,    \* how many of the pushed messages the receiver has handled
    up,         \* the receiver process is running
    samplers,   \* ResourceMonitor threads running in the receiver
    failed,     \* transfers of which a publish was not confirmed
    senderRows, \* transfers whose client appended its sender row
    faults      \* faults so far

senderVars == <<campaign, turn, pc, sent, failed, senderRows>>
brokerVars == <<ctrl, data, pushed>>
vars == <<receiverVars, senderVars, brokerVars, handled, up, samplers, faults>>

AmqpTypeOK ==
    /\ TypeOK
    /\ campaign \in Campaigns
    /\ turn \in 1 .. NumTransfers + 1
    /\ pc \in {"start", "metadata", "chunks"}
    /\ sent \in Nat
    /\ ctrl \in Seq(Transfers)
    /\ data \in Seq(Chunks)
    /\ pushed \in Seq({"control", "data"})
    /\ handled \in 0 .. Len(pushed)
    /\ up \in BOOLEAN
    /\ samplers \in Nat
    /\ failed \subseteq Transfers /\ senderRows \subseteq Transfers
    /\ faults \in 0 .. MaxFaults

Init ==
    /\ ReceiverInit
    /\ campaign \in Campaigns
    /\ turn = 1 /\ pc = "start" /\ sent = 0
    /\ ctrl = <<>> /\ data = <<>> /\ pushed = <<>>
    /\ handled = 0 /\ up = TRUE /\ samplers = 0
    /\ failed = {} /\ senderRows = {} /\ faults = 0

Fault(kind) ==
    /\ kind \in campaign.faults
    /\ faults < MaxFaults
    /\ faults' = faults + 1

----------------------------------------------------------------------------
(* The broker.  Both queues keep a message until it is acknowledged; pushed  *)
(* says which queue each message on the receiver's channel came from.       *)

Queue(q) == IF q = "control" THEN ctrl ELSE data
PushedOf(q) == Cardinality({i \in DOMAIN pushed : pushed[i] = q})

Enqueue(q, message) ==
    /\ CASE q = "control" -> ctrl' = Append(ctrl, message) /\ UNCHANGED data
         [] q = "data" -> data' = Append(data, message) /\ UNCHANGED ctrl
    /\ pushed' = IF up /\ PushedOf(q) < campaign.prefetch THEN Append(pushed, q) ELSE pushed

\* an acknowledgement arrives: the message is gone and the next one of its
\* queue that still waits is pushed
BrokerAcked ==
    /\ up /\ handled > 0
    /\ LET q == Head(pushed) IN
          /\ CASE q = "control" -> ctrl' = Tail(ctrl) /\ UNCHANGED data
               [] q = "data" -> data' = Tail(data) /\ UNCHANGED ctrl
          /\ pushed' = IF Len(Queue(q)) > PushedOf(q)
                       THEN Append(Tail(pushed), q) ELSE Tail(pushed)
    /\ handled' = handled - 1
    /\ UNCHANGED <<receiverVars, senderVars, up, samplers, faults>>

\* what is pushed to a receiver that connects: it consumes control, then data
FirstPush(q) == [i \in 1 .. Min({Len(Queue(q)), campaign.prefetch}) |-> q]

----------------------------------------------------------------------------
(* The client of the current transfer *)

Drained == ctrl = <<>> /\ data = <<>>

ClientStarts ==
    /\ pc = "start" /\ turn <= NumTransfers
    /\ campaign.overlap \/ Drained
    /\ pc' = "metadata" /\ sent' = 0
    /\ UNCHANGED <<receiverVars, campaign, turn, failed, senderRows, brokerVars,
                   handled, up, samplers, faults>>

PublishedControl == Enqueue("control", turn)
PublishedData == Enqueue("data", <<FileOf[turn], sent + 1>>)

\* send_metadata: a refusal is warned about and the transfer goes on
PublishMetadata ==
    /\ pc = "metadata"
    /\ \/ PublishedControl /\ UNCHANGED <<failed, faults>>
       \/ Fault("nack") /\ failed' = failed \cup {turn} /\ UNCHANGED brokerVars
    /\ pc' = "chunks"
    /\ UNCHANGED <<receiverVars, campaign, turn, sent, senderRows, handled, up, samplers>>

\* one round of send_chunks: a refused chunk is not sent again
PublishChunk ==
    /\ pc = "chunks" /\ sent < NumChunks[FileOf[turn]]
    /\ \/ PublishedData /\ UNCHANGED <<failed, faults>>
       \/ Fault("nack") /\ failed' = failed \cup {turn} /\ UNCHANGED brokerVars
    /\ sent' = sent + 1
    /\ UNCHANGED <<receiverVars, campaign, turn, pc, senderRows, handled, up, samplers>>

\* any other exception of a publish ends the client without a row; the broker
\* may have taken the message it was waiting for
ConnectionLost ==
    /\ pc \in {"metadata", "chunks"}
    /\ Fault("connection")
    /\ failed' = failed \cup {turn}
    /\ \/ UNCHANGED brokerVars
       \/ pc = "metadata" /\ PublishedControl
       \/ pc = "chunks" /\ sent < NumChunks[FileOf[turn]] /\ PublishedData
    /\ turn' = turn + 1 /\ pc' = "start"
    /\ UNCHANGED <<receiverVars, campaign, sent, senderRows, handled, up, samplers>>

SenderFinishes ==
    /\ pc = "chunks" /\ sent = NumChunks[FileOf[turn]]
    /\ senderRows' = senderRows \cup {turn}
    /\ turn' = turn + 1 /\ pc' = "start"
    /\ UNCHANGED <<receiverVars, campaign, sent, failed, brokerVars, handled, up,
                   samplers, faults>>

----------------------------------------------------------------------------
(* The receiver handles the pushed messages in their order *)

\* the message it handles next: the k-th pushed of a queue is the k-th there
NextQueue == pushed[handled + 1]
NextMessage == Queue(NextQueue)[Cardinality(
                    {i \in 1 .. handled + 1 : pushed[i] = NextQueue})]

\* Mutant of HandleControl: the file of the new transfer is not opened.
HandleControlWithoutOpen ==
    /\ up /\ handled < Len(pushed) /\ NextQueue = "control"
    /\ current' = NextMessage /\ received' = 0
    /\ samplers' = samplers + 1
    /\ handled' = handled + 1
    /\ UNCHANGED <<disk, open, buffered, rows, warning, senderVars, brokerVars, up, faults>>

\* on_control starts a sampler and forgets the one of a transfer cut short
HandleControl ==
    /\ up /\ handled < Len(pushed) /\ NextQueue = "control"
    /\ OnControl(NextMessage)
    /\ samplers' = samplers + 1
    /\ handled' = handled + 1
    /\ UNCHANGED <<senderVars, brokerVars, up, faults>>

\* Mutants of HandleData: a chunk without a transfer is not acknowledged; every
\* chunk stops the sampler.
HandleDataUnacked ==
    /\ up /\ handled < Len(pushed) /\ NextQueue = "data" /\ open
    /\ \/ StoreChunk(NextMessage) /\ UNCHANGED samplers
       \/ CompleteTransfer(NextMessage) /\ samplers' = samplers - 1
    /\ handled' = handled + 1
    /\ UNCHANGED <<senderVars, brokerVars, up, faults>>

HandleDataStopsSampler ==
    /\ up /\ handled < Len(pushed) /\ NextQueue = "data"
    /\ OnData(NextMessage)
    /\ samplers' = samplers - 1
    /\ handled' = handled + 1
    /\ UNCHANGED <<senderVars, brokerVars, up, faults>>

\* on_data; completing the transfer stops the sampler it started
HandleData ==
    /\ up /\ handled < Len(pushed) /\ NextQueue = "data"
    /\ \/ (DropChunk \/ StoreChunk(NextMessage)) /\ UNCHANGED samplers
       \/ CompleteTransfer(NextMessage) /\ samplers' = samplers - 1
    /\ handled' = handled + 1
    /\ UNCHANGED <<senderVars, brokerVars, up, faults>>

\* killed, in a handler or between two, or ended by an exception of its connection:
\* what was pushed and not acknowledged stays in the queues
ReceiverDies ==
    /\ up /\ Fault("crash")
    /\ \/ ReceiverRestarts
       \/ /\ handled < Len(pushed) /\ NextQueue = "control"
          /\ KilledInControl(NextMessage)
       \/ /\ handled < Len(pushed) /\ NextQueue = "data"
          /\ KilledInData(NextMessage)
    /\ up' = FALSE /\ pushed' = <<>> /\ handled' = 0 /\ samplers' = 0
    /\ UNCHANGED <<senderVars, ctrl, data>>

\* whoever runs the testbed may start it again; nothing in the testbed does
ReceiverComesBack ==
    /\ ~up /\ up' = TRUE
    /\ pushed' = FirstPush("control") \o FirstPush("data")
    /\ UNCHANGED <<receiverVars, senderVars, ctrl, data, handled, samplers, faults>>

\* the campaign is over and both queues are empty
Quiescent == turn > NumTransfers /\ Drained /\ up
Finished == Quiescent /\ UNCHANGED vars

Sender == ClientStarts \/ PublishMetadata \/ PublishChunk \/ SenderFinishes
Receiver == HandleControl \/ HandleData \/ BrokerAcked

Next == Sender \/ ConnectionLost \/ Receiver \/ ReceiverDies \/ ReceiverComesBack \/ Finished

Fairness == WF_vars(Sender) /\ WF_vars(Receiver)
Spec == Init /\ [][Next]_vars
FairSpec == Spec /\ Fairness

----------------------------------------------------------------------------
\* the chunks of a campaign, each with its transfer
Backlog == UNION {{t} \X (1 .. NumChunks[FileOf[t]]) : t \in Transfers}

\* Nothing is lost in the receiver, and no message can overtake another: either
\* each client waits for the receiver or each queue's share of the campaign fits
\* the prefetch window.
Orderly ==
    /\ "crash" \notin campaign.faults
    /\ campaign.overlap => /\ NumTransfers <= campaign.prefetch
                           /\ Cardinality(Backlog) <= campaign.prefetch

Judgeable == {t \in Transfers \ failed : NumChunks[FileOf[t]] > 0}

\* In an orderly campaign, a transfer all of whose messages the broker confirmed
\* gets exactly one receiver row, "intact" unless its tail is small, whatever
\* failed in the transfers before and after it.
ConfirmedTransferJudged ==
    Orderly /\ Quiescent => \A t \in Judgeable :
        /\ Cardinality(RowsOf(t)) = 1
        /\ \A i \in RowsOf(t) : rows[i].ok <=> FileOf[t] \notin SmallTail

\* In an orderly campaign without failed publishes only the chunks of a file
\* reach that file, as the receiver's "single in-flight transfer at a time"
\* (amqp_receiver.py:25) needs, and no sampler outlives its transfer, if each
\* file has a chunk to complete it.
OneTransferInFlight ==
    Orderly /\ failed = {} =>
        /\ \A f \in Files : \A i \in DOMAIN disk[f] : disk[f][i][1] = f
        /\ \A i \in DOMAIN buffered : buffered[i][1] = FileOf[current]
        /\ (\A t \in Transfers : NumChunks[FileOf[t]] > 0) =>
              samplers = (IF open THEN 1 ELSE 0)

\* "Every row records whether the file arrived intact" (README.md:37): in an
\* orderly campaign the verdict on a file that is left whole is "intact".
RowsRecordIntegrity ==
    Orderly /\ Quiescent => \A t \in Transfers :
        disk[FileOf[t]] = Source(FileOf[t]) => \A i \in RowsOf(t) : rows[i].ok

\* Whatever fails, the campaign ends with both queues empty, unless the receiver
\* is dead in the end: nothing restarts it.
EventuallyQuiet == <>[]Quiescent \/ <>[](~up)

\* The receiver of this campaign is the receiver of FileReceiver, whatever the
\* broker and the clients do: what holds of the one holds of the other.
ImplementsReceiver == ReceiverSpec
=============================================================================
