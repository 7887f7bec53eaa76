----------------------------- MODULE MqttTransfer -----------------------------
(***************************************************************************)
(* A campaign of MQTT transfers: one client_a.py process per transfer, with *)
(* a main thread that publishes and a paho network thread that transmits    *)
(* and runs on_publish; a mosquitto broker that queues messages for the one *)
(* subscriber; and client_b.py, the receiver, subscribed to both topics on  *)
(* one connection, so that its messages arrive in one order.                *)
(*                                                                         *)
(* paho and mosquitto are external: unacknowledged messages are transmitted *)
(* again after a reconnect; the receiver's session is clean, so what was    *)
(* queued for it is lost with its connection; the broker drops a message    *)
(* that finds the subscriber's queue full.  What a client has handed to its *)
(* socket may reach the broker after the client has ended, beside what the  *)
(* next client sends.  <<t, 0>> is the metadata of transfer t and <<t, i>>  *)
(* its i-th chunk.                                                          *)
(***************************************************************************)
EXTENDS FileReceiver, FiniteSets, FiniteSetsExt

CONSTANTS
    MaxInflight,    \* messages paho transmits without an acknowledgement
    QueueLimit,     \* mosquitto's max_queued_messages for the subscriber
    MaxFaults       \* bound on the connections and receivers lost in a behaviour

ASSUME MqttPlan ==
    MaxInflight \in Nat \ {0} /\ QueueLimit \in Nat \ {0} /\ MaxFaults \in Nat

VARIABLES
    turn,       \* the transfer whose client runs or runs next
    pc,         \* where its main thread is
    sent,       \* chunks it has published
    outbox,     \* its published messages that are not acknowledged
    taken,      \* how many of them, from the head, the broker has taken
    ackEvent,   \* metadata_ack_event is set (and ack_latency measured)
    acked,      \* the acknowledgement of the metadata has been processed
    topic,      \* messages queued for the receiver
    up,         \* the receiver's process runs
    linked,     \* the receiver is connected and subscribed
    faults,     \* connections and receivers lost
    disturbed,  \* messages to the receiver were lost or repeated, or one of an
                \* ended client came behind one of a later client
    late,       \* what an ended client left on its way to the broker
    abandoned,  \* transfers of which messages were lost with their client
    senderRows  \* the sender rows, by transfer: was the ACK latency measured

clientVars == <<turn, pc, sent, outbox, taken, ackEvent, acked, late, abandoned, senderRows>>
brokerVars == <<topic, up, linked, faults, disturbed>>
vars == <<receiverVars, clientVars, brokerVars>>

Messages == UNION {{t} \X (0 .. NumChunks[FileOf[t]]) : t \in Transfers}

MqttTypeOK ==
    /\ TypeOK
    /\ turn \in 1 .. NumTransfers + 1
    /\ pc \in {"start", "assign", "ack", "chunks", "chunk"}
    /\ sent \in Nat
    /\ outbox \in Seq(Messages) /\ taken \in 0 .. Len(outbox)
    /\ ackEvent \in BOOLEAN /\ acked \in BOOLEAN /\ (ackEvent => acked)
    /\ topic \in Seq(Messages) /\ Len(topic) <= QueueLimit
    /\ up \in BOOLEAN /\ linked \in BOOLEAN /\ (linked => up)
    /\ disturbed \in BOOLEAN /\ faults \in 0 .. MaxFaults
    /\ late \in [Transfers -> Seq(Messages)]
    /\ abandoned \subseteq Transfers
    /\ senderRows \in [1 .. turn - 1 -> BOOLEAN]

Init ==
    /\ ReceiverInit
    /\ turn = 1 /\ pc = "start" /\ sent = 0
    /\ outbox = <<>> /\ taken = 0 /\ ackEvent = FALSE /\ acked = FALSE
    /\ topic = <<>> /\ up = TRUE /\ linked = TRUE /\ faults = 0 /\ disturbed = FALSE
    /\ late = [t \in Transfers |-> <<>>] /\ abandoned = {} /\ senderRows = <<>>

----------------------------------------------------------------------------
(* client_a, main thread *)

Publish(i) == outbox' = Append(outbox, <<turn, i>>)

\* metadata_ack_event.clear() and the publish call of send_metadata: from its
\* return on, the network thread works on the message
PublishMetadata ==
    /\ pc = "start" /\ turn <= NumTransfers
    /\ Publish(0) /\ taken' = 0
    /\ sent' = 0 /\ ackEvent' = FALSE /\ acked' = FALSE
    /\ pc' = "assign"
    /\ UNCHANGED <<receiverVars, brokerVars, turn, late, abandoned, senderRows>>

\* metadata_mid = msg_info.mid
AssignMid ==
    /\ pc = "assign" /\ pc' = "ack"
    /\ UNCHANGED <<receiverVars, brokerVars, turn, sent, outbox, taken, ackEvent,
                   acked, late, abandoned, senderRows>>

\* Mutant of WaitForAck: no timeout.
WaitForAckForever ==
    /\ pc = "ack" /\ ackEvent /\ pc' = "chunks"
    /\ UNCHANGED <<receiverVars, brokerVars, turn, sent, outbox, taken, ackEvent,
                   acked, late, abandoned, senderRows>>

\* metadata_ack_event.wait(timeout=10): set, or given up with a warning
WaitForAck ==
    /\ pc = "ack" /\ pc' = "chunks"
    /\ UNCHANGED <<receiverVars, brokerVars, turn, sent, outbox, taken, ackEvent,
                   acked, late, abandoned, senderRows>>

PublishChunk ==
    /\ pc = "chunks" /\ sent < NumChunks[FileOf[turn]]
    /\ Publish(sent + 1)
    /\ sent' = sent + 1 /\ pc' = "chunk"
    /\ UNCHANGED <<receiverVars, brokerVars, turn, taken, ackEvent, acked,
                   late, abandoned, senderRows>>

\* wait_for_publish(timeout=60) returns alike when acknowledged and when not
WaitForPublish ==
    /\ pc = "chunk" /\ pc' = "chunks"
    /\ UNCHANGED <<receiverVars, brokerVars, turn, sent, outbox, taken, ackEvent,
                   acked, late, abandoned, senderRows>>

\* When the process ends, the first n messages on their way still reach the broker:
\* loop_stop hands what paho has transmitted to the socket, and the kernel goes on
\* sending.  The others are lost, with the rest of the outbox.
OnTheWay == Min({MaxInflight, Len(outbox)}) - taken
LeavesBehind(n) ==
    /\ late' = [late EXCEPT ![turn] = SubSeq(outbox, taken + 1, taken + n)]
    /\ abandoned' = IF taken + n < Len(outbox) THEN abandoned \cup {turn} ELSE abandoned
    /\ outbox' = <<>> /\ taken' = 0

\* Mutant of SenderFinishes: only a measured latency is logged.
SenderFinishesUnlogged ==
    /\ pc = "chunks" /\ sent = NumChunks[FileOf[turn]]
    /\ \E n \in 0 .. OnTheWay : LeavesBehind(n)
    /\ senderRows' = IF ackEvent THEN Append(senderRows, TRUE) ELSE senderRows
    /\ turn' = turn + 1 /\ pc' = "start"
    /\ UNCHANGED <<receiverVars, brokerVars, sent, ackEvent, acked>>

\* loop_stop, disconnect and the sender row
SenderFinishes ==
    /\ pc = "chunks" /\ sent = NumChunks[FileOf[turn]]
    /\ \E n \in 0 .. OnTheWay : LeavesBehind(n)
    /\ senderRows' = Append(senderRows, ackEvent)
    /\ turn' = turn + 1 /\ pc' = "start"
    /\ UNCHANGED <<receiverVars, brokerVars, sent, ackEvent, acked>>

----------------------------------------------------------------------------
(* client_a, paho's network thread, and the broker *)

\* the transfer of the last message the receiver has been sent
LastSent == IF topic = <<>> THEN current ELSE topic[Len(topic)][1]

\* the broker queues message m for the subscriber
Queues(m) ==
    IF linked /\ Len(topic) < QueueLimit
    THEN topic' = Append(topic, m) /\ disturbed' = (disturbed \/ LastSent > m[1])
    ELSE disturbed' = TRUE /\ UNCHANGED topic

\* the broker takes the next message of the running client
BrokerTakes ==
    /\ taken < Len(outbox) /\ taken < MaxInflight
    /\ taken' = taken + 1
    /\ Queues(outbox[taken + 1])
    /\ UNCHANGED <<receiverVars, turn, pc, sent, outbox, ackEvent, acked,
                   late, abandoned, senderRows, up, linked, faults>>

\* ... or of one that has ended
BrokerTakesLate(t) ==
    /\ late[t] # <<>>
    /\ late' = [late EXCEPT ![t] = Tail(late[t])]
    /\ Queues(Head(late[t]))
    /\ UNCHANGED <<receiverVars, turn, pc, sent, outbox, taken, ackEvent, acked,
                   abandoned, senderRows, up, linked, faults>>

\* on_publish: the event is set only if metadata_mid is known by then
OnPublish ==
    /\ taken > 0
    /\ outbox' = Tail(outbox) /\ taken' = taken - 1
    /\ IF Head(outbox)[2] = 0
       THEN acked' = TRUE /\ ackEvent' = (ackEvent \/ pc # "assign")
       ELSE UNCHANGED <<ackEvent, acked>>
    /\ UNCHANGED <<receiverVars, brokerVars, turn, pc, sent, late, abandoned, senderRows>>

\* the sender's connection is lost and made again: all is transmitted again
SenderReconnects ==
    /\ outbox # <<>> /\ faults < MaxFaults
    /\ faults' = faults + 1 /\ taken' = 0 /\ disturbed' = TRUE
    /\ UNCHANGED <<receiverVars, turn, pc, sent, outbox, ackEvent, acked,
                   late, abandoned, senderRows, topic, up, linked>>

----------------------------------------------------------------------------
(* client_b *)

\* Mutants of OnMessage: metadata is refused while a file is open; the control
\* topic is handled ahead of the data.
OnMessageRefusing ==
    /\ linked /\ topic # <<>>
    /\ topic' = Tail(topic)
    /\ LET t == Head(topic)[1]
           i == Head(topic)[2]
       IN  IF i > 0 THEN OnData(<<FileOf[t], i>>)
           ELSE IF open THEN UNCHANGED receiverVars ELSE OnControl(t)
    /\ UNCHANGED <<clientVars, up, linked, faults, disturbed>>

OnMessageControlFirst ==
    /\ linked /\ topic # <<>>
    /\ \E k \in DOMAIN topic :
          /\ k = 1 \/ topic[k][2] = 0
          /\ topic' = SubSeq(topic, 1, k - 1) \o SubSeq(topic, k + 1, Len(topic))
          /\ LET t == topic[k][1]
                 i == topic[k][2]
             IN  IF i = 0 THEN OnControl(t) ELSE OnData(<<FileOf[t], i>>)
    /\ UNCHANGED <<clientVars, up, linked, faults, disturbed>>

OnMessage ==
    /\ linked /\ topic # <<>>
    /\ topic' = Tail(topic)
    /\ LET t == Head(topic)[1]
           i == Head(topic)[2]
       IN  IF i = 0 THEN OnControl(t) ELSE OnData(<<FileOf[t], i>>)
    /\ UNCHANGED <<clientVars, up, linked, faults, disturbed>>

\* its connection is lost, and what the broker has queued for it
ReceiverLosesLink ==
    /\ linked /\ faults < MaxFaults
    /\ linked' = FALSE /\ topic' = <<>>
    /\ faults' = faults + 1 /\ disturbed' = TRUE
    /\ UNCHANGED <<receiverVars, clientVars, up>>

\* it is killed, between two messages or in the handler of one
ReceiverDies ==
    /\ up /\ faults < MaxFaults
    /\ \/ ReceiverRestarts
       \/ /\ linked /\ topic # <<>>
          /\ LET t == Head(topic)[1]
                 i == Head(topic)[2]
             IN  IF i = 0 THEN KilledInControl(t) ELSE KilledInData(<<FileOf[t], i>>)
    /\ up' = FALSE /\ linked' = FALSE /\ topic' = <<>>
    /\ faults' = faults + 1 /\ disturbed' = TRUE
    /\ UNCHANGED clientVars

\* whoever runs the testbed may start it again; nothing in the testbed does
ReceiverComesBack ==
    /\ ~up /\ up' = TRUE
    /\ UNCHANGED <<receiverVars, clientVars, topic, linked, faults, disturbed>>

\* loop_forever connects again, and on_connect subscribes
OnConnect ==
    /\ up /\ ~linked /\ linked' = TRUE
    /\ UNCHANGED <<receiverVars, clientVars, topic, up, faults, disturbed>>

Quiescent ==
    /\ turn > NumTransfers /\ \A t \in Transfers : late[t] = <<>>
    /\ topic = <<>> /\ linked
Finished == Quiescent /\ UNCHANGED vars

MainThread == PublishMetadata \/ AssignMid \/ WaitForAck \/ PublishChunk
              \/ WaitForPublish \/ SenderFinishes
LateDelivery == \E t \in Transfers : BrokerTakesLate(t)
Network == BrokerTakes \/ OnPublish \/ LateDelivery
Receiver == OnMessage \/ OnConnect

Next == MainThread \/ Network \/ Receiver \/ SenderReconnects
        \/ ReceiverLosesLink \/ ReceiverDies \/ ReceiverComesBack \/ Finished

Spec == Init /\ [][Next]_vars
FairSpec == Spec /\ WF_vars(MainThread) /\ WF_vars(LateDelivery) /\ WF_vars(Receiver)

----------------------------------------------------------------------------
\* Until the receiver or a connection is lost, a queue is full, or a message of an
\* ended client comes behind one of a later client, a transfer whose messages all
\* reached the broker gets exactly one receiver row, "intact" unless its tail is
\* small, although the next client does not wait for the receiver, waits time out,
\* and clients end with messages lost or still on their way.
TakenTransferJudged ==
    Quiescent /\ ~disturbed =>
        \A t \in Transfers \ abandoned : NumChunks[FileOf[t]] > 0 =>
            /\ Cardinality(RowsOf(t)) = 1
            /\ \A i \in RowsOf(t) : rows[i].ok <=> FileOf[t] \notin SmallTail

\* Until then nothing of one transfer is written into the file of another, also when
\* a client ended half way and its last messages come late: the receiver would only
\* put them into the wrong file once it has the metadata of a later transfer.
NoForeignChunk ==
    ~disturbed =>
        /\ \A f \in Files : \A i \in DOMAIN disk[f] : disk[f][i][1] = f
        /\ \A i \in DOMAIN buffered : buffered[i][1] = FileOf[current]

\* Every campaign ends, unless the receiver is dead in the end: no wait of the client
\* and no lost connection stops it.
EventuallyQuiet == <>[]Quiescent \/ <>[](~up)

\* "ACK latency: on_publish fires when the broker acknowledges the control
\* message (mid == metadata_mid)" (protocol-transfers.md:24): an acknowledged
\* metadata message has its latency measured.
AckLatencyMeasured == acked => ackEvent
=============================================================================
