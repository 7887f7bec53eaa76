------------------------- MODULE MqttTransferProofs -------------------------
(* Proofs about MqttTransfer, for every campaign, inflight window and queue  *)
(* limit: until messages to the receiver are lost, repeated or overtaken,    *)
(* every chunk reaches it behind a message of its own transfer, and it       *)
(* judges every transfer whose messages all came, once and rightly.          *)
EXTENDS MqttTransfer, FileReceiverProofs, FiniteSetTheorems

\* a client that runs its transfer has only messages of it in its outbox, and
\* has published no more chunks than its file has
ClientOwn ==
    /\ pc = "start" => outbox = <<>> /\ taken = 0
    /\ pc # "start" => turn \in Transfers /\ sent <= NumChunks[FileOf[turn]]
    /\ \A k \in DOMAIN outbox : outbox[k][1] = turn

MqttInv == MqttTypeOK /\ Inv /\ ClientOwn

----------------------------------------------------------------------------
(* The receiver takes the steps of FileReceiver *)

\* The types the proofs below keep needing.
LEMMA MqttTypes ==
    ASSUME MqttInv
    PROVE  /\ outbox \in Seq(Messages) /\ Len(outbox) \in Nat /\ DOMAIN outbox = 1 .. Len(outbox)
           /\ topic \in Seq(Messages) /\ Len(topic) \in Nat /\ DOMAIN topic = 1 .. Len(topic)
           /\ taken \in Nat /\ taken <= Len(outbox)
           /\ turn \in Nat /\ sent \in Nat
           /\ senderRows \in Seq(BOOLEAN) /\ Len(senderRows) = turn - 1
           /\ NumTransfers \in Nat /\ Transfers \subseteq Nat /\ NoTransfer \notin Transfers
           /\ late \in [Transfers -> Seq(Messages)]
<1>1. outbox \in Seq(Messages) /\ topic \in Seq(Messages)
  BY DEF MqttInv, MqttTypeOK
<1>2. turn \in Nat \ {0} /\ NumTransfers \in Nat
  BY FilePlan DEF MqttInv, MqttTypeOK
<1>3. senderRows \in [1 .. turn - 1 -> BOOLEAN]
  BY DEF MqttInv, MqttTypeOK
<1>4. turn - 1 \in Nat
  BY <1>2
<1>5. senderRows \in Seq(BOOLEAN) /\ Len(senderRows) = turn - 1
  BY <1>3, <1>4
<1>6. taken \in 0 .. Len(outbox) /\ sent \in Nat /\ late \in [Transfers -> Seq(Messages)]
  BY DEF MqttInv, MqttTypeOK
<1> QED BY <1>1, <1>2, <1>5, <1>6, LenProperties DEF Transfers, NoTransfer

\* A message is a transfer's metadata, or one of its chunks.
LEMMA MessageParts ==
    ASSUME NEW m \in Messages
    PROVE  /\ m[1] \in Transfers /\ m[2] \in Nat /\ m = <<m[1], m[2]>>
           /\ m[2] # 0 => <<FileOf[m[1]], m[2]>> \in Chunks
<1>1. PICK t \in Transfers : m \in {t} \X (0 .. NumChunks[FileOf[t]])
  BY DEF Messages
<1>2. m[1] = t /\ m[2] \in 0 .. NumChunks[FileOf[t]] /\ m = <<m[1], m[2]>>
  BY <1>1
<1>3. FileOf[t] \in Files /\ NumChunks[FileOf[t]] \in Nat
  BY FilePlan
<1>4. m[2] # 0 => m[2] \in 1 .. NumChunks[FileOf[t]]
  BY <1>2, <1>3
<1> QED BY <1>2, <1>3, <1>4 DEF Chunks

\* The message the receiver handles next is of its campaign.
LEMMA HeadOfTopic ==
    ASSUME MqttInv, topic # <<>>
    PROVE  /\ Head(topic) \in Messages /\ Head(topic) = topic[1] /\ Len(topic) >= 1
           /\ Tail(topic) \in Seq(Messages) /\ Len(Tail(topic)) = Len(topic) - 1
           /\ \A k \in 1 .. Len(topic) - 1 : Tail(topic)[k] = topic[k + 1]
<1>1. topic \in Seq(Messages)
  BY MqttTypes
<1>2. Len(topic) \in Nat \ {0}
  BY <1>1, EmptySeq
<1> QED BY <1>1, <1>2, HeadTailProperties

\* Every step of the campaign is a step of FileReceiver or leaves the receiver alone.
LEMMA ReceiverStep ==
    ASSUME MqttInv, [Next]_vars
    PROVE  [ReceiverNext]_receiverVars
<1>1. ASSUME OnMessage PROVE ReceiverNext
  <2>1. topic # <<>> /\ Head(topic) \in Messages
    BY <1>1, HeadOfTopic DEF OnMessage
  <2>2. CASE Head(topic)[2] = 0
    BY <1>1, <2>1, <2>2, MessageParts DEF OnMessage, ReceiverNext
  <2>3. CASE Head(topic)[2] # 0
    BY <1>1, <2>1, <2>3, MessageParts DEF OnMessage, ReceiverNext
  <2> QED BY <2>2, <2>3
<1>2. ASSUME ReceiverDies PROVE ReceiverNext
  <2>1. CASE ReceiverRestarts
    BY <2>1 DEF ReceiverNext
  <2>2. CASE topic # <<>> /\ Head(topic)[2] = 0 /\ KilledInControl(Head(topic)[1])
    BY <2>2, HeadOfTopic, MessageParts DEF ReceiverNext
  <2>3. CASE /\ topic # <<>> /\ Head(topic)[2] # 0
             /\ KilledInData(<<FileOf[Head(topic)[1]], Head(topic)[2]>>)
    BY <2>3, HeadOfTopic, MessageParts DEF ReceiverNext
  <2> QED BY <1>2, <2>1, <2>2, <2>3 DEF ReceiverDies
<1>3. ASSUME \/ PublishMetadata \/ AssignMid \/ WaitForAck \/ PublishChunk
             \/ WaitForPublish \/ SenderFinishes
      PROVE  UNCHANGED receiverVars
  BY <1>3 DEF PublishMetadata, AssignMid, WaitForAck, PublishChunk, WaitForPublish,
              SenderFinishes
<1>4. ASSUME \/ BrokerTakes \/ LateDelivery \/ OnPublish \/ SenderReconnects
             \/ ReceiverLosesLink \/ ReceiverComesBack \/ OnConnect
             \/ Finished \/ UNCHANGED vars
      PROVE  UNCHANGED receiverVars
  BY <1>4 DEF BrokerTakes, LateDelivery, BrokerTakesLate, OnPublish, SenderReconnects,
              ReceiverLosesLink, ReceiverComesBack, OnConnect, Finished, vars
<1> QED BY <1>1, <1>2, <1>3, <1>4 DEF Next, MainThread, Network, Receiver

----------------------------------------------------------------------------
(* The steps of the clients *)

\* A client's next message is of its transfer.
LEMMA NextMessages ==
    ASSUME MqttInv, turn \in Transfers
    PROVE  /\ <<turn, 0>> \in Messages
           /\ sent < NumChunks[FileOf[turn]] => <<turn, sent + 1>> \in Messages
<1>1. FileOf[turn] \in Files /\ NumChunks[FileOf[turn]] \in Nat
  BY FilePlan
<1>2. 0 \in 0 .. NumChunks[FileOf[turn]]
  BY <1>1
<1>3. sent < NumChunks[FileOf[turn]] => sent + 1 \in 0 .. NumChunks[FileOf[turn]]
  BY <1>1, MqttTypes
<1> QED BY <1>2, <1>3 DEF Messages

\* What a step of the client or of its network thread leaves behind.
ClientOK ==
    /\ turn \in 1 .. NumTransfers + 1
    /\ pc \in {"start", "assign", "ack", "chunks", "chunk"}
    /\ sent \in Nat
    /\ outbox \in Seq(Messages) /\ taken \in 0 .. Len(outbox)
    /\ late \in [Transfers -> Seq(Messages)]
    /\ abandoned \subseteq Transfers
    /\ senderRows \in [1 .. turn - 1 -> BOOLEAN]
    /\ ClientOwn

\* What a client leaves on its way when it ends.
LEMMA LeftOnTheWay ==
    ASSUME MqttInv, pc # "start", NEW n \in 0 .. OnTheWay, LeavesBehind(n)
    PROVE  /\ turn \in Transfers /\ n \in Nat /\ taken + n <= Len(outbox)
           /\ late' \in [Transfers -> Seq(Messages)]
           /\ Len(late'[turn]) = n /\ DOMAIN late'[turn] = 1 .. n
           /\ \A k \in 1 .. n : late'[turn][k] = outbox[taken + k]
           /\ \A s \in Transfers : s # turn => late'[s] = late[s]
<1>a. /\ outbox \in Seq(Messages) /\ Len(outbox) \in Nat /\ DOMAIN outbox = 1 .. Len(outbox)
      /\ taken \in Nat /\ taken <= Len(outbox) /\ late \in [Transfers -> Seq(Messages)]
  BY MqttTypes
<1>1. turn \in Transfers
  BY DEF MqttInv, ClientOwn
<1>2. n \in Nat /\ taken + n <= Len(outbox)
  <2>1. MaxInflight \in Nat /\ Min({MaxInflight, Len(outbox)}) \in {MaxInflight, Len(outbox)}
        /\ Min({MaxInflight, Len(outbox)}) <= Len(outbox)
    <3>1. MaxInflight \in Nat /\ Len(outbox) \in Nat
      BY <1>a, MqttPlan
    <3>2. \E m \in {MaxInflight, Len(outbox)} : \A k \in {MaxInflight, Len(outbox)} : m <= k
      BY <3>1
    <3>3. /\ Min({MaxInflight, Len(outbox)}) \in {MaxInflight, Len(outbox)}
          /\ \A k \in {MaxInflight, Len(outbox)} : Min({MaxInflight, Len(outbox)}) <= k
      BY <3>2, Zenon DEF Min
    <3> QED BY <3>1, <3>3
  <2> DEFINE least == Min({MaxInflight, Len(outbox)})
  <2>2. least \in Nat /\ least <= Len(outbox) /\ n \in 0 .. least - taken
    BY <1>a, <2>1 DEF OnTheWay
  <2> HIDE DEF least
  <2> QED BY <1>a, <2>2
<1>3. /\ SubSeq(outbox, taken + 1, taken + n) \in Seq(Messages)
      /\ Len(SubSeq(outbox, taken + 1, taken + n)) = n
      /\ \A k \in 1 .. n : SubSeq(outbox, taken + 1, taken + n)[k] = outbox[taken + k]
  <2>1. /\ taken + 1 \in 1 .. Len(outbox) + 1 /\ taken + n \in taken .. Len(outbox)
        /\ (taken + n) - (taken + 1) + 1 = n /\ (taken + 1) - 1 = taken
    BY <1>a, <1>2
  <2>2. \A k \in 1 .. n : (taken + 1) + k - 1 = taken + k
    BY <1>a, <1>2
  <2> QED BY <1>a, <2>1, <2>2, SubSeqProperties
<1>4. late' = [late EXCEPT ![turn] = SubSeq(outbox, taken + 1, taken + n)]
  BY DEF LeavesBehind
<1> QED BY <1>a, <1>1, <1>2, <1>3, <1>4, LenProperties

\* The client keeps to its transfer.
LEMMA ClientStep ==
    ASSUME MqttInv, [Next]_vars
    PROVE  ClientOK'
<1>0. ClientOK
  BY DEF MqttInv, MqttTypeOK, ClientOK
<1>a. /\ outbox \in Seq(Messages) /\ Len(outbox) \in Nat /\ DOMAIN outbox = 1 .. Len(outbox)
      /\ taken \in Nat /\ taken <= Len(outbox) /\ turn \in Nat /\ sent \in Nat
      /\ senderRows \in Seq(BOOLEAN) /\ Len(senderRows) = turn - 1
      /\ NumTransfers \in Nat
  BY MqttTypes
<1>1. ASSUME PublishMetadata PROVE ClientOK'
  <2>1. turn \in Transfers /\ outbox = <<>> /\ <<turn, 0>> \in Messages
    <3>1. turn \in Transfers
      BY <1>1, <1>a, <1>0 DEF PublishMetadata, Transfers, ClientOK
    <3> QED BY <1>1, <3>1, <1>0, NextMessages DEF PublishMetadata, ClientOK, ClientOwn
  <2>2. outbox' = << <<turn, 0>> >> /\ taken' = 0
    BY <1>1, <2>1 DEF PublishMetadata, Publish
  <2>3. /\ outbox' \in Seq(Messages) /\ taken' \in 0 .. Len(outbox')
        /\ \A k \in DOMAIN outbox' : outbox'[k][1] = turn
    BY <2>1, <2>2
  <2>4. /\ sent' = 0 /\ pc' = "assign"
        /\ UNCHANGED <<turn, late, abandoned, senderRows>>
    BY <1>1 DEF PublishMetadata
  <2>5. NumChunks[FileOf[turn]] >= 0
    BY <2>1, FilePlan
  <2> QED BY <1>0, <2>1, <2>3, <2>4, <2>5 DEF ClientOK, ClientOwn
<1>2. ASSUME AssignMid \/ WaitForAck \/ WaitForPublish PROVE ClientOK'
  <2>1. /\ UNCHANGED <<turn, sent, outbox, taken, late, abandoned, senderRows>>
        /\ pc # "start" /\ pc' \in {"ack", "chunks"}
    BY <1>2 DEF AssignMid, WaitForAck, WaitForPublish
  <2> QED BY <1>0, <2>1 DEF ClientOK, ClientOwn
<1>3. ASSUME PublishChunk PROVE ClientOK'
  <2>1. /\ turn \in Transfers /\ <<turn, sent + 1>> \in Messages
        /\ sent < NumChunks[FileOf[turn]]
    BY <1>3, <1>0, NextMessages DEF PublishChunk, ClientOK, ClientOwn
  <2>2. /\ outbox' = Append(outbox, <<turn, sent + 1>>)
        /\ sent' = sent + 1 /\ pc' = "chunk"
        /\ UNCHANGED <<turn, taken, late, abandoned, senderRows>>
    BY <1>3 DEF PublishChunk, Publish
  <2>3. /\ outbox' \in Seq(Messages) /\ Len(outbox') = Len(outbox) + 1
        /\ DOMAIN outbox' = 1 .. Len(outbox) + 1
        /\ \A k \in 1 .. Len(outbox) : outbox'[k] = outbox[k]
        /\ outbox'[Len(outbox) + 1] = <<turn, sent + 1>>
    BY <1>a, <2>1, <2>2, AppendProperties, LenProperties
  <2>4. \A k \in DOMAIN outbox' : outbox'[k][1] = turn
    BY <1>0, <1>a, <2>3 DEF ClientOK, ClientOwn
  <2>5. taken' \in 0 .. Len(outbox')
    BY <1>a, <2>2, <2>3
  <2>6. sent' <= NumChunks[FileOf[turn]]
    BY <1>a, <2>1, <2>2, FilePlan
  <2> QED BY <1>0, <1>a, <2>1, <2>2, <2>3, <2>4, <2>5, <2>6 DEF ClientOK, ClientOwn
<1>4. ASSUME SenderFinishes PROVE ClientOK'
  <2>1. turn \in Transfers
    BY <1>4, <1>0 DEF SenderFinishes, ClientOK, ClientOwn
  <2>2. /\ outbox' = <<>> /\ taken' = 0 /\ turn' = turn + 1 /\ pc' = "start" /\ sent' = sent
        /\ senderRows' = Append(senderRows, ackEvent)
        /\ abandoned' = abandoned \/ abandoned' = abandoned \cup {turn}
    BY <1>4 DEF SenderFinishes, LeavesBehind
  <2>c. late' \in [Transfers -> Seq(Messages)]
    BY <1>4, LeftOnTheWay DEF SenderFinishes
  <2>3. senderRows' \in Seq(BOOLEAN) /\ Len(senderRows') = turn
    <3>1. ackEvent \in BOOLEAN
      BY DEF MqttInv, MqttTypeOK
    <3>2. senderRows' \in Seq(BOOLEAN) /\ Len(senderRows') = Len(senderRows) + 1
      BY <1>a, <2>2, <3>1, AppendProperties
    <3> QED BY <1>a, <3>2
  <2>4. senderRows' \in [1 .. turn' - 1 -> BOOLEAN]
    <3>1. turn' - 1 = turn
      BY <1>a, <2>2
    <3> QED BY <2>3, <3>1, LenProperties
  <2>5. turn' \in 1 .. NumTransfers + 1
    BY <1>a, <2>1, <2>2 DEF Transfers
  <2>6. abandoned' \subseteq Transfers
    BY <1>0, <2>1, <2>2 DEF ClientOK
  <2>7. outbox' \in Seq(Messages) /\ taken' \in 0 .. Len(outbox')
    BY <2>2
  <2>8. ClientOwn'
    BY <2>2 DEF ClientOwn
  <2>9. pc' \in {"start", "assign", "ack", "chunks", "chunk"} /\ sent' \in Nat
    BY <1>a, <2>2
  <2> QED BY <2>c, <2>4, <2>5, <2>6, <2>7, <2>8, <2>9 DEF ClientOK
<1>5. ASSUME BrokerTakes PROVE ClientOK'
  <2>1. /\ UNCHANGED <<turn, pc, sent, outbox, late, abandoned, senderRows>>
        /\ taken' = taken + 1 /\ taken < Len(outbox)
    BY <1>5 DEF BrokerTakes
  <2>2. taken' \in 0 .. Len(outbox) /\ pc # "start"
    BY <1>0, <1>a, <2>1 DEF ClientOK, ClientOwn
  <2> QED BY <1>0, <2>1, <2>2 DEF ClientOK, ClientOwn
<1>6. ASSUME OnPublish PROVE ClientOK'
  <2>1. /\ UNCHANGED <<turn, pc, sent, late, abandoned, senderRows>>
        /\ taken' = taken - 1 /\ taken > 0 /\ outbox' = Tail(outbox)
    BY <1>6 DEF OnPublish
  <2>2. pc # "start" /\ outbox # <<>>
    BY <1>0, <1>a, <2>1, EmptySeq DEF ClientOK, ClientOwn
  <2>3. /\ outbox' \in Seq(Messages) /\ Len(outbox') = Len(outbox) - 1
        /\ DOMAIN outbox' = 1 .. Len(outbox) - 1
        /\ \A k \in 1 .. Len(outbox) - 1 : outbox'[k] = outbox[k + 1]
    BY <1>a, <2>1, <2>2, HeadTailProperties, LenProperties
  <2>4. ASSUME NEW k \in DOMAIN outbox' PROVE outbox'[k][1] = turn
    <3>1. k \in 1 .. Len(outbox) - 1 /\ k + 1 \in DOMAIN outbox
      BY <1>a, <2>3
    <3>2. outbox'[k] = outbox[k + 1] /\ outbox[k + 1][1] = turn
      BY <1>0, <2>3, <3>1 DEF ClientOK, ClientOwn
    <3> QED BY <3>2
  <2>5. taken' \in 0 .. Len(outbox')
    BY <1>a, <2>1, <2>3
  <2> QED BY <1>0, <2>1, <2>2, <2>3, <2>4, <2>5 DEF ClientOK, ClientOwn
<1>7. ASSUME SenderReconnects PROVE ClientOK'
  <2>1. UNCHANGED <<turn, pc, sent, outbox, late, abandoned, senderRows>> /\ taken' = 0
    BY <1>7 DEF SenderReconnects
  <2> QED BY <1>0, <1>a, <2>1 DEF ClientOK, ClientOwn
<1>8. ASSUME \/ OnMessage \/ OnConnect \/ ReceiverLosesLink \/ ReceiverDies
             \/ ReceiverComesBack \/ Finished \/ UNCHANGED vars
      PROVE  ClientOK'
  <2>1. UNCHANGED clientVars
    BY <1>8 DEF OnMessage, OnConnect, ReceiverLosesLink, ReceiverDies, ReceiverComesBack,
                Finished, vars
  <2> QED BY <1>0, <2>1 DEF clientVars, ClientOK, ClientOwn
<1>9. ASSUME LateDelivery PROVE ClientOK'
  <2>1. PICK t \in Transfers : BrokerTakesLate(t)
    BY <1>9 DEF LateDelivery
  <2>2. /\ UNCHANGED <<turn, pc, sent, outbox, taken, abandoned, senderRows>>
        /\ late' = [late EXCEPT ![t] = Tail(late[t])] /\ late[t] # <<>>
    BY <2>1 DEF BrokerTakesLate
  <2>3. late' \in [Transfers -> Seq(Messages)]
    BY <2>2, MqttTypes, HeadTailProperties
  <2> QED BY <1>0, <2>2, <2>3 DEF ClientOK, ClientOwn
<1> QED
  BY <1>1, <1>2, <1>3, <1>4, <1>5, <1>6, <1>7, <1>8, <1>9 DEF Next, MainThread, Network, Receiver

----------------------------------------------------------------------------
(* The steps of the broker and of the receiver *)

\* What a step leaves behind at the broker and of the acknowledgement.
BrokerOK ==
    /\ ackEvent \in BOOLEAN /\ acked \in BOOLEAN /\ (ackEvent => acked)
    /\ topic \in Seq(Messages) /\ Len(topic) <= QueueLimit
    /\ up \in BOOLEAN /\ linked \in BOOLEAN /\ (linked => up)
    /\ disturbed \in BOOLEAN /\ faults \in 0 .. MaxFaults

\* The broker queues one message more, if it has room and the receiver is there.
LEMMA QueuesStep ==
    ASSUME BrokerOK, NEW m \in Messages, Queues(m), UNCHANGED <<ackEvent, acked, up, linked, faults>>
    PROVE  BrokerOK'
<1>1. \/ /\ Len(topic) < QueueLimit /\ topic' = Append(topic, m)
         /\ disturbed' = (disturbed \/ LastSent > m[1])
      \/ disturbed' = TRUE /\ topic' = topic
  BY DEF Queues
<1>2. topic \in Seq(Messages) /\ Len(topic) \in Nat /\ QueueLimit \in Nat
  BY MqttPlan, LenProperties DEF BrokerOK
<1>3. topic' \in Seq(Messages) /\ Len(topic') <= QueueLimit
  BY <1>1, <1>2, AppendProperties DEF BrokerOK
<1>4. disturbed' \in BOOLEAN
  BY <1>1 DEF BrokerOK
<1> QED BY <1>3, <1>4 DEF BrokerOK

\* The queue keeps its limit, and the latency is only measured of an acknowledgement.
LEMMA BrokerStep ==
    ASSUME MqttInv, [Next]_vars
    PROVE  BrokerOK'
<1>0. BrokerOK
  BY DEF MqttInv, MqttTypeOK, BrokerOK
<1>a. /\ topic \in Seq(Messages) /\ Len(topic) \in Nat /\ Len(topic) <= QueueLimit
      /\ QueueLimit \in Nat /\ MaxFaults \in Nat /\ faults \in 0 .. MaxFaults
  BY <1>0, MqttTypes, MqttPlan DEF BrokerOK
<1>1. ASSUME PublishMetadata PROVE BrokerOK'
  <2>1. ackEvent' = FALSE /\ acked' = FALSE /\ UNCHANGED brokerVars
    BY <1>1 DEF PublishMetadata
  <2> QED BY <1>0, <2>1 DEF brokerVars, BrokerOK
<1>2. ASSUME UNCHANGED <<ackEvent, acked, brokerVars>> PROVE BrokerOK'
  BY <1>0, <1>2 DEF brokerVars, BrokerOK
<1>3. ASSUME \/ AssignMid \/ WaitForAck \/ PublishChunk \/ WaitForPublish \/ SenderFinishes
             \/ Finished \/ UNCHANGED vars
      PROVE  BrokerOK'
  <2>1. UNCHANGED <<ackEvent, acked, brokerVars>>
    BY <1>3 DEF AssignMid, WaitForAck, PublishChunk, WaitForPublish, SenderFinishes,
                Finished, vars, clientVars
  <2> QED BY <1>2, <2>1
<1>4. ASSUME BrokerTakes PROVE BrokerOK'
  <2>1. /\ UNCHANGED <<ackEvent, acked, up, linked, faults>> /\ taken < Len(outbox)
        /\ Queues(outbox[taken + 1])
    BY <1>4 DEF BrokerTakes
  <2>2. outbox[taken + 1] \in Messages
    BY <2>1, MqttTypes
  <2> QED BY <1>0, <2>1, <2>2, QueuesStep
<1>10. ASSUME LateDelivery PROVE BrokerOK'
  <2>1. PICK t \in Transfers : BrokerTakesLate(t)
    BY <1>10 DEF LateDelivery
  <2>2. /\ UNCHANGED <<ackEvent, acked, up, linked, faults>> /\ late[t] # <<>>
        /\ Queues(Head(late[t]))
    BY <2>1 DEF BrokerTakesLate
  <2>3. Head(late[t]) \in Messages
    BY <2>2, MqttTypes, HeadTailProperties
  <2> QED BY <1>0, <2>2, <2>3, QueuesStep
<1>5. ASSUME OnPublish PROVE BrokerOK'
  <2>1. UNCHANGED brokerVars
    BY <1>5 DEF OnPublish
  <2>2. CASE Head(outbox)[2] = 0
    <3>1. acked' = TRUE /\ ackEvent' \in BOOLEAN
      BY <1>5, <2>2, Zenon DEF OnPublish
    <3> QED BY <1>0, <2>1, <3>1 DEF brokerVars, BrokerOK
  <2>3. CASE Head(outbox)[2] # 0
    <3>1. UNCHANGED <<ackEvent, acked>>
      BY <1>5, <2>3, Zenon DEF OnPublish
    <3> QED BY <1>2, <2>1, <3>1
  <2> QED BY <2>2, <2>3
<1>6. ASSUME SenderReconnects PROVE BrokerOK'
  <2>1. /\ UNCHANGED <<ackEvent, acked, topic, up, linked>> /\ disturbed' = TRUE
        /\ faults' = faults + 1 /\ faults < MaxFaults
    BY <1>6 DEF SenderReconnects
  <2>2. faults' \in 0 .. MaxFaults
    BY <1>a, <2>1
  <2> QED BY <1>0, <2>1, <2>2 DEF BrokerOK
<1>7. ASSUME OnMessage PROVE BrokerOK'
  <2>1. /\ UNCHANGED <<ackEvent, acked, up, linked, faults, disturbed>>
        /\ topic # <<>> /\ topic' = Tail(topic)
    BY <1>7 DEF OnMessage, clientVars
  <2>2. topic' \in Seq(Messages) /\ Len(topic') <= QueueLimit
    BY <1>a, <2>1, HeadOfTopic
  <2> QED BY <1>0, <2>1, <2>2 DEF BrokerOK
<1>8. ASSUME ReceiverLosesLink \/ ReceiverDies PROVE BrokerOK'
  <2>1. /\ UNCHANGED <<ackEvent, acked>> /\ disturbed' = TRUE /\ linked' = FALSE
        /\ up' = up \/ up' = FALSE
        /\ faults' = faults + 1 /\ faults < MaxFaults /\ topic' = <<>>
    BY <1>8 DEF ReceiverLosesLink, ReceiverDies, clientVars
  <2>2. faults' \in 0 .. MaxFaults /\ topic' \in Seq(Messages) /\ Len(topic') <= QueueLimit
    BY <1>a, <2>1
  <2> QED BY <1>0, <2>1, <2>2 DEF BrokerOK
<1>9. ASSUME OnConnect \/ ReceiverComesBack PROVE BrokerOK'
  <2>1. /\ UNCHANGED <<ackEvent, acked, topic, faults, disturbed>> /\ up' = TRUE
        /\ linked' = linked \/ linked' = TRUE
    BY <1>9 DEF OnConnect, ReceiverComesBack, clientVars
  <2> QED BY <1>0, <2>1 DEF BrokerOK
<1> QED
  BY <1>1, <1>3, <1>4, <1>5, <1>6, <1>7, <1>8, <1>9, <1>10 DEF Next, MainThread, Network, Receiver

----------------------------------------------------------------------------
\* The initial state satisfies the invariant.
LEMMA MqttInit == Init => MqttInv
<1> SUFFICES ASSUME Init PROVE MqttInv
  OBVIOUS
<1>1. Inv
  BY InvInit DEF Init
<1>2. <<>> \in Seq(Messages) /\ Len(<<>>) = 0 /\ <<>> \in [1 .. 0 -> BOOLEAN]
  OBVIOUS
<1>3. MqttTypeOK
  <2>1. turn \in 1 .. NumTransfers + 1 /\ sent \in Nat
    BY FilePlan DEF Init
  <2>2. /\ outbox \in Seq(Messages) /\ taken \in 0 .. Len(outbox)
        /\ topic \in Seq(Messages) /\ Len(topic) <= QueueLimit /\ faults \in 0 .. MaxFaults
    BY <1>2, MqttPlan DEF Init
  <2>3. senderRows \in [1 .. turn - 1 -> BOOLEAN]
    BY <1>2 DEF Init
  <2> QED BY <1>1, <2>1, <2>2, <2>3 DEF Init, Inv, MqttTypeOK
<1>4. ClientOwn
  BY DEF Init, ClientOwn
<1> QED BY <1>1, <1>3, <1>4 DEF MqttInv

\* Every step preserves the invariant.
LEMMA MqttNext == MqttInv /\ [Next]_vars => MqttInv'
<1> SUFFICES ASSUME MqttInv, [Next]_vars PROVE MqttInv'
  OBVIOUS
<1>1. Inv'
  BY ReceiverStep, InvNext DEF MqttInv
<1>2. MqttTypeOK'
  BY <1>1, BrokerStep, ClientStep DEF Inv, BrokerOK, ClientOK, MqttTypeOK
<1> QED BY <1>1, <1>2, ClientStep DEF ClientOK, MqttInv

\* A client only ever has messages of its own transfer to send, the receiver's counter
\* counts what it wrote, and all state has its type, through losses, kills and late
\* messages.
THEOREM MqttInvariant == Spec => []MqttInv
<1> QED BY MqttInit, MqttNext, PTL DEF Spec

\* Client, network thread, broker and receiver keep to their types: the broker never
\* queues past its limit, and client_a never measures the latency of an acknowledgement
\* that has not come.
THEOREM MqttTypeCorrect == Spec => []MqttTypeOK
<1>1. MqttInv => MqttTypeOK
  BY DEF MqttInv
<1> QED BY <1>1, MqttInvariant, PTL

\* client_b.py is only ever handed metadata and chunks of the campaign, so through lost
\* connections and restarts it behaves as a receiver of FileReceiver.
THEOREM MqttIsReceiver == Spec => ReceiverSpec
<1>1. Init => ReceiverInit
  BY DEF Init
<1>2. MqttInv /\ [Next]_vars => [ReceiverNext]_receiverVars
  BY ReceiverStep
<1> QED BY <1>1, <1>2, MqttInvariant, PTL DEF Spec, ReceiverSpec

\* What is proved of every receiver holds of this one: a row that says the file is
\* intact is right, and every row counts the file it is about.
THEOREM MqttRowsSound == Spec => IntegritySound /\ IntactReported /\ RowCountsTheFile
BY MqttIsReceiver, IntegritySoundHolds, IntactReportedHolds, RowCountsTheFileHolds, PTL

----------------------------------------------------------------------------
(* Each transfer is judged once: until messages to the receiver are lost,    *)
(* repeated or overtaken, the receiver, its queue and what is still to come  *)
(* to the broker hold messages of the campaign in its order.                 *)

\* the last message the receiver has handled, then those in its queue
Place(k) == IF k = 0 THEN <<current, received>> ELSE topic[k]
Reached == Place(Len(topic))

\* transfers of which messages were lost with their client or are still on their way
\* from it; of those that a later transfer has overtaken so far, nothing is claimed
Missing == abandoned \cup {s \in Transfers : late[s] # <<>>}
GivenUp == abandoned \cup {s \in Transfers : late[s] # <<>> /\ s < Reached[1]}

\* After message m, every transfer before t is in X, or m was its last message.
Passed(m, t, X) ==
    \A s \in Transfers : m[1] <= s /\ s < t => s \in X \/ m = <<s, Announced(s)>>

\* n may be the next message after m: the transfer's next one, or metadata.
Follows(m, n, X) ==
    \/ n[1] = m[1] /\ n[2] = m[2] + 1
    \/ n[2] = 0 /\ m[1] < n[1] /\ Passed(m, n[1], X)

InTurn == \A k \in DOMAIN topic : Follows(Place(k - 1), topic[k], GivenUp)

OutboxInTurn == \A k \in DOMAIN outbox : outbox[k] = <<turn, sent + k - Len(outbox)>>

\* what the broker takes next of the running client follows what it queued last
ClientNext ==
    /\ pc = "start" => Reached[1] < turn /\ Passed(Reached, turn, Missing)
    /\ pc # "start" /\ taken = Len(outbox) => Reached = <<turn, sent>>
    /\ pc # "start" /\ taken < Len(outbox) => Follows(Reached, outbox[taken + 1], Missing)

\* an ended client left consecutive messages, to its last chunk if none was lost
LateInTurn ==
    \A t \in Transfers : late[t] # <<>> =>
        /\ t < turn
        /\ \A k \in DOMAIN late[t] : late[t][k] = <<t, late[t][1][2] + k - 1>>
        /\ t \in abandoned \/ late[t][Len(late[t])] = <<t, Announced(t)>>

\* ... and so does the next of them, if nothing has overtaken it
LateNext ==
    \A t \in Transfers : late[t] # <<>> /\ Reached[1] <= t =>
        Follows(Reached, late[t][1], Missing)

JudgedInv ==
    ~disturbed => /\ InTurn /\ Filling(GivenUp) /\ Judged(GivenUp) /\ OwnChunks
                  /\ OutboxInTurn /\ ClientNext /\ LateInTurn /\ LateNext

\* The messages of the queue and the one before it have their types.
LEMMA PlaceTypes ==
    ASSUME MqttInv
    PROVE  /\ current \in Nat /\ received \in Nat /\ (current \in Transfers \/ current = NoTransfer)
           /\ Place(0) = <<current, received>>
           /\ \A k \in 1 .. Len(topic) : Place(k) = topic[k] /\ topic[k] \in Messages
           /\ \A k \in 0 .. Len(topic) : Place(k)[1] \in Nat /\ Place(k)[2] \in Nat
           /\ Reached[1] \in Nat /\ Reached[2] \in Nat
<1>1. current \in Nat /\ received \in Nat /\ (current \in Transfers \/ current = NoTransfer)
  BY MqttTypes DEF MqttInv, MqttTypeOK, TypeOK, NoTransfer
<1>2. Place(0) = <<current, received>>
  BY DEF Place
<1>3. ASSUME NEW k \in 1 .. Len(topic)
      PROVE  /\ Place(k) = topic[k] /\ topic[k] \in Messages
             /\ Place(k)[1] \in Nat /\ Place(k)[2] \in Nat
  <2>1. k # 0 /\ topic[k] \in Messages
    BY MqttTypes
  <2>2. topic[k][1] \in Nat /\ topic[k][2] \in Nat
    BY <2>1, MessageParts, MqttTypes
  <2> QED BY <2>1, <2>2 DEF Place
<1>4. ASSUME NEW k \in 0 .. Len(topic) PROVE Place(k)[1] \in Nat /\ Place(k)[2] \in Nat
  <2>1. CASE k = 0
    BY <1>1, <1>2, <2>1
  <2>2. CASE k # 0
    <3>1. k \in 1 .. Len(topic)
      BY <2>2, MqttTypes
    <3> QED BY <1>3, <3>1
  <2> QED BY <2>1, <2>2
<1>5. Len(topic) \in 0 .. Len(topic)
  BY MqttTypes
<1> QED BY <1>1, <1>2, <1>3, <1>4, <1>5 DEF Reached

\* What has been sent last to the receiver.
LEMMA ReachedIsLast ==
    ASSUME MqttInv
    PROVE  LastSent = Reached[1]
<1>1. CASE topic = <<>>
  BY <1>1 DEF LastSent, Reached, Place
<1>2. CASE topic # <<>>
  <2>1. Len(topic) # 0
    BY <1>2, MqttTypes, EmptySeq
  <2> QED BY <1>2, <2>1 DEF LastSent, Reached, Place
<1> QED BY <1>1, <1>2

\* The broker is never ahead of the client.
LEMMA ReachedBound ==
    ASSUME MqttInv, ClientNext
    PROVE  Reached[1] <= turn
<1>a. /\ Len(outbox) \in Nat /\ DOMAIN outbox = 1 .. Len(outbox) /\ taken \in Nat
      /\ taken <= Len(outbox) /\ turn \in Nat /\ Reached[1] \in Nat
  BY MqttTypes, PlaceTypes
<1>1. CASE pc = "start"
  BY <1>a, <1>1 DEF ClientNext
<1>2. CASE pc # "start" /\ taken = Len(outbox)
  BY <1>a, <1>2 DEF ClientNext
<1>3. CASE pc # "start" /\ taken < Len(outbox)
  <2>1. taken + 1 \in DOMAIN outbox
    BY <1>a, <1>3
  <2>2. outbox[taken + 1][1] = turn /\ Follows(Reached, outbox[taken + 1], Missing)
    BY <1>3, <2>1 DEF ClientNext, MqttInv, ClientOwn
  <2> QED BY <1>a, <2>2 DEF Follows
<1>4. taken = Len(outbox) \/ taken < Len(outbox)
  <2>1. Len(outbox) \in Nat /\ taken \in Nat /\ taken <= Len(outbox)
    BY <1>a
  <2> QED BY <2>1
<1> QED BY <1>1, <1>2, <1>3, <1>4

\* To give up more transfers puts no message out of its turn.
LEMMA FollowsStill ==
    ASSUME NEW m, NEW n, NEW X, NEW Y, X \subseteq Y, Follows(m, n, X)
    PROVE  Follows(m, n, Y)
BY DEF Follows, Passed

\* What has been passed stays passed when message m goes first, unless it is the last
\* but one of its transfer that is missing.
LEMMA PassedOn ==
    ASSUME NEW p, NEW m, NEW t, NEW X, NEW Y, Passed(p, t, X),
           p[1] \in Nat, m[1] \in Nat, p[1] <= m[1], Transfers \subseteq Nat,
           \A s \in X : s # m[1] => s \in Y,
           m[1] \in Y \/ m = <<m[1], Announced(m[1])>>
    PROVE  Passed(m, t, Y)
<1> SUFFICES ASSUME NEW s \in Transfers, m[1] <= s, s < t
             PROVE  s \in Y \/ m = <<s, Announced(s)>>
  BY DEF Passed
<1>1. CASE s = m[1]
  BY <1>1
<1>2. CASE s # m[1]
  <2>1. p[1] <= s /\ p[1] # s
    BY <1>2
  <2>2. s \in X
    BY <2>1 DEF Passed
  <2> QED BY <1>2, <2>2
<1> QED BY <1>1, <1>2

\* A step that leaves the receiver and its queue alone, and gives up no fewer transfers.
LEMMA QueueKept ==
    ASSUME MqttInv, InTurn, Filling(GivenUp), Judged(GivenUp), OwnChunks,
           UNCHANGED <<receiverVars, topic>>, abandoned \subseteq abandoned',
           \A s \in Transfers : late[s] # <<>> => late'[s] # <<>>
    PROVE  /\ InTurn' /\ Filling(GivenUp)' /\ Judged(GivenUp)' /\ OwnChunks'
           /\ Reached' = Reached /\ GivenUp \subseteq GivenUp' /\ Missing \subseteq Missing'
<1>1. UNCHANGED <<disk, current, open, received, buffered, rows, topic>>
  BY DEF receiverVars
<1>2. Reached' = Reached /\ \A k : Place(k)' = Place(k)
  BY <1>1 DEF Reached, Place
<1>3. GivenUp \subseteq GivenUp' /\ Missing \subseteq Missing'
  BY <1>2 DEF GivenUp, Missing
<1>4. InTurn'
  <2> SUFFICES ASSUME NEW k \in DOMAIN topic PROVE Follows(Place(k - 1)', topic'[k], GivenUp')
    BY <1>1 DEF InTurn
  <2>1. Follows(Place(k - 1), topic[k], GivenUp)
    BY DEF InTurn
  <2>2. Follows(Place(k - 1), topic[k], GivenUp')
    BY <1>3, <2>1, FollowsStill
  <2> QED BY <1>1, <1>2, <2>2
<1>5. Filling(GivenUp)' /\ Judged(GivenUp)'
  BY <1>3, StillJudged
<1>6. OwnChunks'
  BY <1>1 DEF OwnChunks, OfFile
<1> QED BY <1>2, <1>3, <1>4, <1>5, <1>6

----------------------------------------------------------------------------
(* The client publishes in the campaign's order *)

\* A client publishes the metadata, then one chunk after the other.
LEMMA ClientInTurn ==
    ASSUME MqttInv, OutboxInTurn, ClientNext, Reached' = Reached, Missing' = Missing,
           \/ PublishMetadata \/ AssignMid \/ WaitForAck \/ PublishChunk \/ WaitForPublish
    PROVE  OutboxInTurn' /\ ClientNext'
<1>a. /\ outbox \in Seq(Messages) /\ Len(outbox) \in Nat /\ DOMAIN outbox = 1 .. Len(outbox)
      /\ taken \in Nat /\ taken <= Len(outbox) /\ turn \in Nat /\ sent \in Nat
      /\ Transfers \subseteq Nat
      /\ Reached[1] \in Nat /\ Reached[2] \in Nat
  BY MqttTypes, PlaceTypes
<1>b. taken = Len(outbox) \/ taken < Len(outbox)
  <2>1. Len(outbox) \in Nat /\ taken \in Nat /\ taken <= Len(outbox)
    BY <1>a
  <2> QED BY <2>1
<1>1. ASSUME PublishMetadata PROVE OutboxInTurn' /\ ClientNext'
  <2>1. outbox = <<>> /\ outbox' = Append(outbox, <<turn, 0>>) /\ taken' = 0
    BY <1>1 DEF PublishMetadata, Publish, MqttInv, ClientOwn
  <2>2. outbox' = << <<turn, 0>> >> /\ DOMAIN outbox' = {1} /\ Len(outbox') = 1
    BY <2>1
  <2>3. turn' = turn /\ sent' = 0 /\ pc = "start" /\ pc' # "start" 
    BY <1>1 DEF PublishMetadata
  <2>4. Reached[1] < turn /\ Passed(Reached, turn, Missing)
    BY <2>3 DEF ClientNext
  <2>5. Follows(Reached, <<turn, 0>>, Missing)
    BY <2>4 DEF Follows
  <2>6. outbox'[taken' + 1] = <<turn', 0>> /\ taken' # Len(outbox')
    BY <2>1, <2>2, <2>3
  <2>7. ClientNext'
    BY <2>3, <2>5, <2>6 DEF ClientNext, Follows
  <2>8. OutboxInTurn'
    BY <2>2, <2>3 DEF OutboxInTurn
  <2> QED BY <2>7, <2>8
<1>2. ASSUME AssignMid \/ WaitForAck \/ WaitForPublish PROVE OutboxInTurn' /\ ClientNext'
  <2>1. /\ UNCHANGED <<turn, sent, outbox, taken>>
        /\ pc # "start" /\ pc' # "start"
    BY <1>2 DEF AssignMid, WaitForAck, WaitForPublish
  <2> QED BY <2>1 DEF OutboxInTurn, ClientNext, Follows, Passed
<1>3. ASSUME PublishChunk PROVE OutboxInTurn' /\ ClientNext'
  <2>1. /\ <<turn, sent + 1>> \in Messages /\ outbox' = Append(outbox, <<turn, sent + 1>>)
        /\ sent' = sent + 1 /\ pc # "start" /\ UNCHANGED <<turn, taken>>
    BY <1>3, NextMessages DEF PublishChunk, Publish, MqttInv, ClientOwn
  <2>2. /\ Len(outbox') = Len(outbox) + 1 /\ DOMAIN outbox' = 1 .. Len(outbox) + 1
        /\ \A k \in 1 .. Len(outbox) : outbox'[k] = outbox[k]
        /\ outbox'[Len(outbox) + 1] = <<turn, sent + 1>>
    BY <1>a, <2>1, AppendProperties, LenProperties
  <2>3. OutboxInTurn'
    <3> SUFFICES ASSUME NEW k \in 1 .. Len(outbox) + 1
                 PROVE  outbox'[k] = <<turn, (sent + 1) + k - (Len(outbox) + 1)>>
      BY <2>1, <2>2 DEF OutboxInTurn
    <3>1. CASE k = Len(outbox) + 1
      <4>1. (sent + 1) + k - (Len(outbox) + 1) = sent + 1
        BY <1>a, <3>1
      <4> QED BY <2>2, <3>1, <4>1
    <3>2. CASE k # Len(outbox) + 1
      <4>1. k \in 1 .. Len(outbox) /\ (sent + 1) + k - (Len(outbox) + 1) = sent + k - Len(outbox)
        BY <1>a, <3>2
      <4>2. outbox[k] = <<turn, sent + k - Len(outbox)>>
        BY <1>a, <4>1 DEF OutboxInTurn
      <4> QED BY <2>2, <4>1, <4>2
    <3> QED BY <3>1, <3>2
  <2>4. ClientNext'
    <3>1. pc' # "start" /\ taken' # Len(outbox')
      BY <1>a, <1>3, <2>1, <2>2 DEF PublishChunk
    <3>2. CASE taken = Len(outbox)
      <4>1. Reached = <<turn, sent>>
        BY <2>1, <3>2 DEF ClientNext
      <4>2. outbox'[taken' + 1] = <<turn, sent + 1>>
        BY <2>1, <2>2, <3>2
      <4>3. outbox'[taken' + 1][1] = Reached[1] /\ outbox'[taken' + 1][2] = Reached[2] + 1
        BY <4>1, <4>2
      <4> QED BY <3>1, <4>3 DEF ClientNext, Follows
    <3>3. CASE taken < Len(outbox)
      <4>1. outbox'[taken' + 1] = outbox[taken + 1]
        BY <1>a, <2>1, <2>2, <3>3
      <4>2. Follows(Reached, outbox[taken + 1], Missing)
        BY <2>1, <3>3 DEF ClientNext
      <4> QED BY <3>1, <4>1, <4>2 DEF ClientNext
    <3> QED BY <1>b, <3>2, <3>3
  <2> QED BY <2>3, <2>4
<1> QED BY <1>1, <1>2, <1>3

\* A client that ends leaves its last messages in turn, and its transfer is missing
\* until the last of them has come.
LEMMA FinishedInTurn ==
    ASSUME MqttInv, OutboxInTurn, ClientNext, LateInTurn, LateNext, Reached' = Reached,
           Missing \subseteq Missing', SenderFinishes
    PROVE  OutboxInTurn' /\ ClientNext' /\ LateInTurn' /\ LateNext'
<1>a. /\ Len(outbox) \in Nat /\ DOMAIN outbox = 1 .. Len(outbox)
      /\ taken \in Nat /\ taken <= Len(outbox) /\ turn \in Nat /\ sent \in Nat
      /\ Transfers \subseteq Nat /\ Reached[1] \in Nat /\ Reached[1] <= turn
  BY MqttTypes, PlaceTypes, ReachedBound
<1>0. PICK n \in 0 .. OnTheWay : LeavesBehind(n)
  BY DEF SenderFinishes
<1>1. /\ outbox' = <<>> /\ turn' = turn + 1 /\ pc' = "start" /\ pc # "start"
      /\ sent = Announced(turn) /\ turn \in Transfers
      /\ abandoned' = IF taken + n < Len(outbox) THEN abandoned \cup {turn} ELSE abandoned
  BY <1>0 DEF SenderFinishes, LeavesBehind, Announced, MqttInv, ClientOwn
<1>2. /\ n \in Nat /\ taken + n <= Len(outbox)
      /\ Len(late'[turn]) = n /\ DOMAIN late'[turn] = 1 .. n
      /\ \A k \in 1 .. n : late'[turn][k] = outbox[taken + k]
      /\ \A s \in Transfers : s # turn => late'[s] = late[s]
      /\ late' \in [Transfers -> Seq(Messages)]
  BY <1>0, <1>1, LeftOnTheWay
<1>c. taken \in Nat /\ n \in Nat /\ Len(outbox) \in Nat /\ taken + n <= Len(outbox) /\ sent \in Nat
  BY <1>a, <1>2
<1>d. taken + n < Len(outbox) \/ taken + n = Len(outbox)
  BY <1>c
<1>3. OutboxInTurn'
  BY <1>1 DEF OutboxInTurn
<1>4. late'[turn] # <<>> => 0 < n
  <2>1. late'[turn] \in Seq(Messages)
    BY <1>1, <1>2
  <2>2. n = 0 => late'[turn] = <<>>
    BY <1>2, <2>1, EmptySeq
  <2> QED BY <1>2, <2>2
<1>5. turn \in Missing' \/ taken = Len(outbox)
  <2>1. CASE taken + n < Len(outbox)
    BY <1>1, <2>1 DEF Missing
  <2>2. CASE taken + n = Len(outbox) /\ n # 0
    <3>1. late'[turn] # <<>>
      BY <1>2, <2>2
    <3> QED BY <1>1, <3>1 DEF Missing
  <2>3. CASE taken + n = Len(outbox) /\ n = 0
    <3>1. taken = Len(outbox)
      BY <1>c, <2>3
    <3> QED BY <3>1
  <2> QED BY <1>d, <2>1, <2>2, <2>3
<1>6. ClientNext'
  <2>1. ASSUME NEW s \in Transfers, Reached[1] <= s, s < turn + 1
        PROVE  s \in Missing' \/ Reached = <<s, Announced(s)>>
    <3>1. CASE s = turn
      <4>1. taken = Len(outbox) => Reached = <<turn, sent>>
        BY <1>1 DEF ClientNext
      <4> QED BY <1>1, <1>5, <3>1, <4>1
    <3>2. CASE s # turn
      <4>1. s < turn /\ s \in Nat
        BY <1>a, <2>1, <3>2
      <4>2. taken = Len(outbox) \/ taken < Len(outbox)
        <5>1. Len(outbox) \in Nat /\ taken \in Nat /\ taken <= Len(outbox)
          BY <1>a
        <5> QED BY <5>1
      <4>3. Reached[1] # turn
        BY <1>a, <2>1, <4>1
      <4>4. taken < Len(outbox)
        <5>1. taken = Len(outbox) => Reached[1] = turn
          BY <1>1 DEF ClientNext
        <5> QED BY <4>2, <4>3, <5>1
      <4>5. Follows(Reached, outbox[taken + 1], Missing) /\ outbox[taken + 1][1] = turn
        <5>1. taken + 1 \in DOMAIN outbox
          BY <1>a, <4>4
        <5> QED BY <1>1, <4>4, <5>1 DEF ClientNext, MqttInv, ClientOwn
      <4>6. Passed(Reached, turn, Missing)
        BY <4>3, <4>5 DEF Follows
      <4>7. s \in Missing \/ Reached = <<s, Announced(s)>>
        BY <2>1, <4>1, <4>6 DEF Passed
      <4> QED BY <4>7
    <3> QED BY <3>1, <3>2
  <2>2. Passed(Reached, turn + 1, Missing') /\ Reached[1] < turn + 1
    BY <1>a, <2>1 DEF Passed
  <2> QED BY <1>1, <2>2 DEF ClientNext
<1>7. LateInTurn'
  <2> SUFFICES ASSUME NEW t \in Transfers, late'[t] # <<>>
               PROVE  /\ t < turn'
                      /\ \A k \in DOMAIN late'[t] : late'[t][k] = <<t, late'[t][1][2] + k - 1>>
                      /\ t \in abandoned' \/ late'[t][Len(late'[t])] = <<t, Announced(t)>>
    BY DEF LateInTurn
  <2>1. CASE t = turn
    <3>1. 0 < n /\ 1 \in 1 .. n /\ n \in 1 .. n
      BY <1>2, <1>4, <2>1
    <3>2. ASSUME NEW k \in 1 .. n
          PROVE  late'[turn][k] = <<turn, sent + (taken + k) - Len(outbox)>>
      <4>1. taken + k \in DOMAIN outbox
        BY <1>a, <1>2
      <4> QED BY <1>2, <4>1 DEF OutboxInTurn
    <3>3. late'[turn][1][2] = sent + (taken + 1) - Len(outbox)
      BY <3>1, <3>2
    <3>4. ASSUME NEW k \in 1 .. n
          PROVE  late'[turn][k] = <<turn, late'[turn][1][2] + k - 1>>
      <4>1. sent + (taken + k) - Len(outbox) = (sent + (taken + 1) - Len(outbox)) + k - 1
        BY <1>a, <1>2
      <4> QED BY <3>2, <3>3, <4>1
    <3>5. turn \in abandoned' \/ late'[turn][n] = <<turn, sent>>
      <4>1. CASE taken + n < Len(outbox)
        BY <1>1, <4>1
      <4>2. CASE taken + n = Len(outbox)
        <5>1. sent + (taken + n) - Len(outbox) = sent
          BY <1>c, <4>2
        <5> QED BY <3>1, <3>2, <5>1
      <4> QED BY <1>d, <4>1, <4>2
    <3> QED BY <1>a, <1>1, <1>2, <2>1, <3>4, <3>5
  <2>2. CASE t # turn
    <3>1. late'[t] = late[t] /\ abandoned \subseteq abandoned'
      BY <1>1, <1>2, <2>2
    <3>2. t < turn => t < turn'
      BY <1>a, <1>1
    <3> QED BY <3>1, <3>2 DEF LateInTurn
  <2> QED BY <2>1, <2>2
<1>8. LateNext'
  <2> SUFFICES ASSUME NEW t \in Transfers, late'[t] # <<>>, Reached[1] <= t
               PROVE  Follows(Reached, late'[t][1], Missing')
    BY DEF LateNext
  <2>1. Follows(Reached, late'[t][1], Missing)
    <3>1. CASE t = turn
      <4>1. 0 < n /\ late'[t][1] = outbox[taken + 1] /\ taken < Len(outbox)
        BY <1>a, <1>2, <1>4, <3>1
      <4> QED BY <1>1, <4>1 DEF ClientNext
    <3>2. CASE t # turn
      BY <1>2, <3>2 DEF LateNext
    <3> QED BY <3>1, <3>2
  <2> QED BY <2>1, FollowsStill
<1> QED BY <1>3, <1>6, <1>7, <1>8

\* An acknowledged message leaves the outbox at its head; the others stay in turn.
LEMMA AcknowledgedInTurn ==
    ASSUME MqttInv, OutboxInTurn, ClientNext, Reached' = Reached, Missing' = Missing, OnPublish
    PROVE  OutboxInTurn' /\ ClientNext'
<1>a. /\ outbox \in Seq(Messages) /\ Len(outbox) \in Nat /\ DOMAIN outbox = 1 .. Len(outbox)
      /\ taken \in Nat /\ taken <= Len(outbox) /\ turn \in Nat /\ sent \in Nat
  BY MqttTypes
<1>1. /\ outbox' = Tail(outbox) /\ taken' = taken - 1 /\ taken > 0
      /\ UNCHANGED <<turn, pc, sent>>
  BY DEF OnPublish
<1>2. outbox # <<>>
  BY <1>a, <1>1, EmptySeq
<1>3. /\ Len(outbox') = Len(outbox) - 1 /\ DOMAIN outbox' = 1 .. Len(outbox) - 1
      /\ \A k \in 1 .. Len(outbox) - 1 : outbox'[k] = outbox[k + 1]
  BY <1>a, <1>1, <1>2, HeadTailProperties, LenProperties
<1>4. OutboxInTurn'
  <2> SUFFICES ASSUME NEW k \in 1 .. Len(outbox) - 1
               PROVE  outbox'[k] = <<turn, sent + k - (Len(outbox) - 1)>>
    BY <1>1, <1>3 DEF OutboxInTurn
  <2>1. /\ k + 1 \in DOMAIN outbox
        /\ sent + (k + 1) - Len(outbox) = sent + k - (Len(outbox) - 1)
    BY <1>a
  <2>2. outbox[k + 1] = <<turn, sent + (k + 1) - Len(outbox)>>
    BY <2>1 DEF OutboxInTurn
  <2> QED BY <1>3, <2>1, <2>2
<1>5. /\ taken' = Len(outbox') => taken = Len(outbox)
      /\ taken' < Len(outbox') => taken < Len(outbox) /\ outbox'[taken' + 1] = outbox[taken + 1]
  <2>0. /\ taken' = taken - 1 /\ taken > 0 /\ Len(outbox') = Len(outbox) - 1
        /\ taken \in Nat /\ Len(outbox) \in Nat
    BY <1>a, <1>1, <1>3
  <2>1. /\ taken' = Len(outbox') => taken = Len(outbox)
        /\ taken' + 1 = taken
        /\ taken' < Len(outbox') => taken < Len(outbox) /\ taken \in 1 .. Len(outbox) - 1
    BY <2>0
  <2> QED BY <1>3, <2>1
<1>6. ClientNext'
  <2>1. pc # "start"
    BY <1>a, <1>1, <1>2 DEF MqttInv, ClientOwn
  <2> QED BY <1>1, <1>5, <2>1 DEF ClientNext, Follows, Passed
<1> QED BY <1>4, <1>6

----------------------------------------------------------------------------
(* The broker and the receiver keep that order *)

\* A message that follows the last one queued, and is not overtaken, queues in its turn.
LEMMA QueuedInTurn ==
    ASSUME MqttInv, InTurn, Filling(GivenUp), Judged(GivenUp), OwnChunks,
           NEW m \in Messages, Queues(m), ~disturbed', UNCHANGED receiverVars,
           abandoned' = abandoned, \A s \in Transfers : s # m[1] => late'[s] = late[s],
           Follows(Reached, m, Missing)
    PROVE  /\ Reached' = m /\ Reached[1] <= m[1]
           /\ InTurn' /\ Filling(GivenUp)' /\ Judged(GivenUp)' /\ OwnChunks'
<1>a. /\ topic \in Seq(Messages) /\ Len(topic) \in Nat /\ DOMAIN topic = 1 .. Len(topic)
      /\ Reached[1] \in Nat /\ m[1] \in Nat /\ Transfers \subseteq Nat
  BY MqttTypes, PlaceTypes, MessageParts
<1>b. UNCHANGED <<disk, current, open, received, buffered, rows>>
  BY DEF receiverVars
<1>1. topic' = Append(topic, m) /\ Reached[1] <= m[1]
  <2>1. topic' = Append(topic, m) /\ ~(LastSent > m[1])
    BY DEF Queues
  <2> QED BY <1>a, <2>1, ReachedIsLast
<1>2. /\ Len(topic') = Len(topic) + 1 /\ DOMAIN topic' = 1 .. Len(topic) + 1
      /\ \A k \in 1 .. Len(topic) : topic'[k] = topic[k]
      /\ topic'[Len(topic) + 1] = m
  BY <1>a, <1>1, AppendProperties, LenProperties
<1>3. Reached' = m
  <2>1. Len(topic') # 0 /\ topic'[Len(topic')] = m
    BY <1>a, <1>2
  <2> QED BY <2>1 DEF Reached, Place
<1>4. ASSUME NEW k \in 0 .. Len(topic) PROVE Place(k)' = Place(k)
  <2>1. k # 0 => k \in 1 .. Len(topic)
    BY <1>a
  <2> QED BY <1>b, <1>2, <2>1 DEF Place
<1>5. GivenUp \subseteq GivenUp'
  <2> SUFFICES ASSUME NEW s \in Transfers, late[s] # <<>>, s < Reached[1]
               PROVE  late'[s] # <<>> /\ s < m[1]
    BY <1>3 DEF GivenUp
  <2>1. s < m[1] /\ s # m[1]
    BY <1>a, <1>1
  <2> QED BY <2>1
<1>6. Follows(Reached, m, GivenUp')
  <2>1. ASSUME NEW s \in Missing, s < m[1] PROVE s \in GivenUp'
    <3>1. CASE s \in abandoned
      BY <3>1 DEF GivenUp
    <3>2. CASE s \in Transfers /\ late[s] # <<>>
      <4>1. s # m[1]
        BY <1>a, <2>1, <3>2
      <4> QED BY <1>3, <2>1, <3>2, <4>1 DEF GivenUp
    <3> QED BY <2>1, <3>1, <3>2 DEF Missing
  <2> QED BY <2>1 DEF Follows, Passed
<1>7. InTurn'
  <2> SUFFICES ASSUME NEW k \in 1 .. Len(topic) + 1
               PROVE  Follows(Place(k - 1)', topic'[k], GivenUp')
    BY <1>2 DEF InTurn
  <2>1. k - 1 \in 0 .. Len(topic) /\ Place(k - 1)' = Place(k - 1)
    BY <1>a, <1>4
  <2>2. Follows(Place(k - 1), topic'[k], GivenUp')
    <3>1. CASE k = Len(topic) + 1
      <4>1. Place(k - 1) = Reached
        BY <1>a, <3>1 DEF Reached
      <4> QED BY <1>2, <1>6, <3>1, <4>1
    <3>2. CASE k # Len(topic) + 1
      <4>1. k \in DOMAIN topic /\ topic'[k] = topic[k]
        BY <1>a, <1>2, <3>2
      <4>2. Follows(Place(k - 1), topic[k], GivenUp)
        BY <4>1 DEF InTurn
      <4> QED BY <1>5, <4>1, <4>2, FollowsStill
    <3> QED BY <3>1, <3>2
  <2> QED BY <2>1, <2>2
<1>8. Filling(GivenUp)' /\ Judged(GivenUp)'
  BY <1>5, StillJudged
<1>9. OwnChunks'
  BY <1>b DEF OwnChunks, OfFile
<1> QED BY <1>1, <1>3, <1>7, <1>8, <1>9

\* The broker takes the running client's messages in turn; what an earlier client left
\* has then been overtaken.
LEMMA TakesInTurn ==
    ASSUME MqttInv, OutboxInTurn, ClientNext, LateInTurn, BrokerTakes,
           Reached' = outbox[taken + 1]
    PROVE  OutboxInTurn' /\ ClientNext' /\ LateInTurn' /\ LateNext'
<1> DEFINE m == outbox[taken + 1]
<1>1. /\ taken' = taken + 1 /\ taken < Len(outbox)
      /\ UNCHANGED <<turn, pc, sent, outbox, late, abandoned>>
  BY DEF BrokerTakes
<1>a. /\ Len(outbox) \in Nat /\ taken \in Nat /\ turn \in Nat /\ sent \in Nat
      /\ outbox \in Seq(Messages) /\ DOMAIN outbox = 1 .. Len(outbox)
      /\ Transfers \subseteq Nat
  BY MqttTypes
<1>2. m = <<turn, sent + (taken + 1) - Len(outbox)>> /\ pc # "start"
  <2>1. taken + 1 \in DOMAIN outbox /\ outbox # <<>>
    BY <1>a, <1>1
  <2> QED BY <1>a, <2>1 DEF OutboxInTurn, MqttInv, ClientOwn
<1>3. Reached' = m
  OBVIOUS
<1> HIDE DEF m
<1>4. OutboxInTurn'
  BY <1>1 DEF OutboxInTurn
<1>5. ClientNext'
  <2>n. /\ Len(outbox) \in Nat /\ taken \in Nat /\ sent \in Nat
        /\ taken' = taken + 1 /\ taken < Len(outbox)
    BY <1>a, <1>1
  <2>1. CASE taken' = Len(outbox)
    <3>1. sent + (taken + 1) - Len(outbox) = sent
      BY <2>n, <2>1
    <3>2. m = <<turn, sent>>
      BY <1>2, <3>1
    <3> QED BY <1>1, <1>2, <1>3, <2>1, <3>2 DEF ClientNext
  <2>2. CASE taken' # Len(outbox)
    <3>1. taken' + 1 \in DOMAIN outbox
      <4>1. taken' + 1 \in 1 .. Len(outbox)
        BY <2>n, <2>2
      <4> QED BY <1>a, <4>1
    <3>2. outbox[taken' + 1] = <<turn, sent + (taken' + 1) - Len(outbox)>>
      BY <3>1 DEF OutboxInTurn
    <3>3. sent + (taken' + 1) - Len(outbox) = (sent + (taken + 1) - Len(outbox)) + 1
      BY <2>n
    <3>4. outbox[taken' + 1][1] = m[1] /\ outbox[taken' + 1][2] = m[2] + 1
      BY <1>2, <3>2, <3>3
    <3> QED BY <1>1, <1>2, <1>3, <2>2, <3>4 DEF ClientNext, Follows
  <2> QED BY <2>1, <2>2
<1>6. LateInTurn'
  BY <1>1 DEF LateInTurn
<1>7. LateNext'
  <2> SUFFICES ASSUME NEW t \in Transfers, late[t] # <<>>, turn <= t
               PROVE  FALSE
    BY <1>1, <1>2, <1>3 DEF LateNext
  <2>1. t < turn /\ t \in Nat
    BY <1>a DEF LateInTurn
  <2> QED BY <1>a, <2>1
<1> QED BY <1>4, <1>5, <1>6, <1>7

\* A number that is neither zero nor one has a predecessor that is not zero.
LEMMA MoreThanOne ==
    ASSUME NEW n \in Nat, n # 0, n # 1
    PROVE  1 \in 1 .. n - 1 /\ 2 \in 1 .. n
OBVIOUS

\* What an ended client left comes in turn, until it has been overtaken.
LEMMA LateComesInTurn ==
    ASSUME MqttInv, OutboxInTurn, ClientNext, LateInTurn, LateNext,
           NEW t \in Transfers, BrokerTakesLate(t), Reached' = late[t][1], Reached[1] <= t
    PROVE  OutboxInTurn' /\ ClientNext' /\ LateInTurn' /\ LateNext'
<1> DEFINE m == late[t][1]
<1>1. /\ late[t] # <<>> /\ late' = [late EXCEPT ![t] = Tail(late[t])]
      /\ UNCHANGED <<turn, pc, sent, outbox, taken, abandoned>>
  BY DEF BrokerTakesLate
<1>a. /\ turn \in Nat /\ Transfers \subseteq Nat /\ t \in Nat /\ Reached[1] \in Nat
      /\ Len(outbox) \in Nat /\ DOMAIN outbox = 1 .. Len(outbox)
      /\ taken \in Nat /\ taken <= Len(outbox)
      /\ late \in [Transfers -> Seq(Messages)] /\ late[t] \in Seq(Messages)
  BY MqttTypes, PlaceTypes
<1>2. /\ Len(late[t]) \in Nat \ {0} /\ DOMAIN late[t] = 1 .. Len(late[t])
      /\ Tail(late[t]) \in Seq(Messages) /\ Len(Tail(late[t])) = Len(late[t]) - 1
      /\ DOMAIN Tail(late[t]) = 1 .. Len(late[t]) - 1
      /\ \A k \in 1 .. Len(late[t]) - 1 : Tail(late[t])[k] = late[t][k + 1]
      /\ late[t][1] \in Messages
  BY <1>a, <1>1, EmptySeq, HeadTailProperties, LenProperties
<1>3. /\ late'[t] = Tail(late[t])
      /\ \A s \in Transfers : s # t => late'[s] = late[s]
  BY <1>a, <1>1
<1>4. /\ t < turn /\ m[1] = t /\ m[2] \in Nat
      /\ \A k \in 1 .. Len(late[t]) : late[t][k] = <<t, m[2] + k - 1>>
      /\ t \in abandoned \/ late[t][Len(late[t])] = <<t, Announced(t)>>
  <2>1. \A k \in 1 .. Len(late[t]) : late[t][k] = <<t, m[2] + k - 1>>
    BY <1>1, <1>2 DEF LateInTurn
  <2>2. 1 \in 1 .. Len(late[t])
    BY <1>2
  <2>3. m[1] = t
    BY <2>1, <2>2
  <2> QED BY <1>1, <1>2, <2>1, <2>3, MessageParts DEF LateInTurn
<1>5. Reached' = m
  OBVIOUS
<1> HIDE DEF m
<1>6. \A s \in Missing : s # t => s \in Missing'
  BY <1>1, <1>3 DEF Missing
<1>7. t \in Missing' \/ m = <<t, Announced(t)>>
  <2>1. CASE Len(late[t]) = 1
    <3>1. late[t][1] = m
      BY DEF m
    <3> QED BY <1>1, <1>4, <2>1, <3>1 DEF Missing
  <2>2. CASE Len(late[t]) # 1
    <3>1. Len(late'[t]) # 0
      BY <1>2, <1>3, <2>2
    <3>2. late'[t] # <<>>
      BY <3>1
    <3> QED BY <3>2 DEF Missing
  <2> QED BY <2>1, <2>2
<1>8. ASSUME NEW r, Passed(Reached, r, Missing) PROVE Passed(m, r, Missing')
  BY <1>a, <1>4, <1>6, <1>7, <1>8, PassedOn
<1>9. ClientNext'
  <2>1. CASE pc = "start"
    <3>1. Passed(m, turn, Missing') /\ m[1] < turn
      BY <1>4, <1>8, <2>1 DEF ClientNext
    <3> QED BY <1>1, <1>5, <2>1, <3>1 DEF ClientNext
  <2>2. CASE pc # "start" /\ taken = Len(outbox)
    <3>1. Reached[1] = turn
      BY <2>2 DEF ClientNext
    <3> QED BY <1>a, <1>4, <3>1
  <2>3. CASE pc # "start" /\ taken < Len(outbox)
    <3>1. taken + 1 \in DOMAIN outbox
      BY <1>a, <2>3
    <3>2. outbox[taken + 1][1] = turn /\ Follows(Reached, outbox[taken + 1], Missing)
      BY <2>3, <3>1 DEF ClientNext, MqttInv, ClientOwn
    <3>3. Reached[1] # turn
      BY <1>a, <1>4
    <3>4. outbox[taken + 1][2] = 0 /\ Passed(Reached, turn, Missing)
      BY <3>2, <3>3 DEF Follows
    <3>5. Follows(m, outbox[taken + 1], Missing')
      BY <1>4, <1>8, <3>2, <3>4 DEF Follows
    <3>6. taken # Len(outbox)
      <4>1. Len(outbox) \in Nat /\ taken \in Nat /\ taken < Len(outbox)
        BY <1>a, <2>3
      <4> QED BY <4>1
    <3> QED BY <1>1, <1>5, <2>3, <3>5, <3>6 DEF ClientNext
  <2>4. taken = Len(outbox) \/ taken < Len(outbox)
    <3>1. Len(outbox) \in Nat /\ taken \in Nat /\ taken <= Len(outbox)
      BY <1>a
    <3> QED BY <3>1
  <2> QED BY <2>1, <2>2, <2>3, <2>4
<1>10. ASSUME late'[t] # <<>>
       PROVE  /\ 2 \in 1 .. Len(late[t]) /\ late'[t][1] = <<t, m[2] + 1>>
              /\ Len(late'[t]) \in 1 .. Len(late[t]) - 1
  <2>1. Len(Tail(late[t])) # 0
    BY <1>2, <1>3, <1>10, EmptySeq
  <2>2. 1 \in 1 .. Len(late[t]) - 1 /\ 2 \in 1 .. Len(late[t])
    <3>1. Len(late[t]) \in Nat /\ Len(late[t]) # 0 /\ Len(late[t]) # 1
      BY <1>2, <2>1
    <3> QED BY <3>1, MoreThanOne
  <2>3. late'[t][1] = late[t][2] /\ late[t][2] = <<t, m[2] + 2 - 1>>
    BY <1>2, <1>3, <1>4, <2>2
  <2>4. m[2] + 2 - 1 = m[2] + 1
    BY <1>4
  <2> QED BY <1>2, <1>3, <2>2, <2>3, <2>4
<1>11. LateInTurn'
  <2> SUFFICES ASSUME NEW r \in Transfers, late'[r] # <<>>
               PROVE  /\ r < turn
                      /\ \A k \in DOMAIN late'[r] : late'[r][k] = <<r, late'[r][1][2] + k - 1>>
                      /\ r \in abandoned \/ late'[r][Len(late'[r])] = <<r, Announced(r)>>
    BY <1>1 DEF LateInTurn
  <2>1. CASE r = t
    <3>1. late'[t][1][2] = m[2] + 1
      BY <1>10, <2>1
    <3>2. ASSUME NEW k \in 1 .. Len(late[t]) - 1
          PROVE  late'[t][k] = <<t, late'[t][1][2] + k - 1>>
      <4>1. k + 1 \in 1 .. Len(late[t]) /\ m[2] + (k + 1) - 1 = (m[2] + 1) + k - 1
        BY <1>2, <1>4
      <4> QED BY <1>2, <1>3, <1>4, <3>1, <4>1
    <3>3. late'[t][Len(late'[t])] = late[t][Len(late[t])]
      <4>1. /\ Len(late'[t]) = Len(late[t]) - 1 /\ Len(late[t]) - 1 \in 1 .. Len(late[t]) - 1
            /\ (Len(late[t]) - 1) + 1 = Len(late[t])
        <5>1. Len(late'[t]) = Len(late[t]) - 1 /\ Len(late'[t]) \in 1 .. Len(late[t]) - 1
          BY <1>2, <1>3, <1>10, <2>1
        <5>2. Len(late[t]) \in Nat
          BY <1>2
        <5> QED BY <5>1, <5>2
      <4> QED BY <1>2, <1>3, <4>1
    <3> QED BY <1>2, <1>3, <1>4, <2>1, <3>2, <3>3
  <2>2. CASE r # t
    BY <1>3, <2>2 DEF LateInTurn
  <2> QED BY <2>1, <2>2
<1>12. LateNext'
  <2> SUFFICES ASSUME NEW r \in Transfers, late'[r] # <<>>, t <= r
               PROVE  Follows(m, late'[r][1], Missing')
    BY <1>4, <1>5 DEF LateNext
  <2>1. CASE r = t
    BY <1>4, <1>10, <2>1 DEF Follows
  <2>2. CASE r # t
    <3>1. r \in Nat /\ t < r /\ Reached[1] <= r /\ Reached[1] # r
      <4>1. r \in Nat /\ t \in Nat /\ Reached[1] \in Nat
        BY <1>a
      <4>2. r # t /\ t <= r /\ Reached[1] <= t
        BY <2>2
      <4> QED BY <4>1, <4>2
    <3>2. late'[r] = late[r] /\ Follows(Reached, late[r][1], Missing)
      BY <1>3, <2>2, <3>1 DEF LateNext
    <3>3. late[r][1][1] = r
      <4>1. late[r] \in Seq(Messages) /\ 1 \in DOMAIN late[r]
        BY <1>a, <3>2, EmptySeq, LenProperties
      <4> QED BY <3>2, <4>1 DEF LateInTurn
    <3>4. late[r][1][2] = 0 /\ Passed(Reached, r, Missing)
      BY <3>1, <3>2, <3>3 DEF Follows
    <3> QED BY <1>4, <1>8, <3>1, <3>2, <3>3, <3>4 DEF Follows
  <2> QED BY <2>1, <2>2
<1>13. OutboxInTurn'
  BY <1>1 DEF OutboxInTurn
<1> QED BY <1>9, <1>11, <1>12, <1>13

\* The receiver handles the messages in that order, every transfer in its turn.
LEMMA MessageInTurn ==
    ASSUME MqttInv, InTurn, Filling(GivenUp), Judged(GivenUp), OwnChunks, OnMessage
    PROVE  /\ InTurn' /\ Filling(GivenUp)' /\ Judged(GivenUp)' /\ OwnChunks'
           /\ Reached' = Reached /\ Missing' = Missing
<1> DEFINE m == Head(topic)
<1>1. /\ topic # <<>> /\ topic' = Tail(topic) /\ UNCHANGED <<late, abandoned>>
      /\ m[2] = 0 => OnControl(m[1])
      /\ m[2] # 0 => OnData(<<FileOf[m[1]], m[2]>>)
  BY DEF OnMessage, clientVars
<1>2. /\ m \in Messages /\ m = topic[1] /\ Len(topic) >= 1
      /\ Tail(topic) \in Seq(Messages) /\ Len(Tail(topic)) = Len(topic) - 1
      /\ \A k \in 1 .. Len(topic) - 1 : Tail(topic)[k] = topic[k + 1]
      /\ Len(topic) \in Nat /\ DOMAIN topic = 1 .. Len(topic)
  BY <1>1, HeadOfTopic, MqttTypes
<1>3. /\ m[1] \in Transfers /\ m[2] \in Nat /\ m[2] <= Announced(m[1]) /\ m = <<m[1], m[2]>>
      /\ m[2] # 0 => <<FileOf[m[1]], m[2]>> \in Chunks
  <2>1. PICK t \in Transfers : m \in {t} \X (0 .. NumChunks[FileOf[t]])
    BY <1>2 DEF Messages
  <2>2. NumChunks[FileOf[t]] \in Nat
    BY FilePlan
  <2> QED BY <1>2, <2>1, <2>2, MessageParts DEF Announced
<1>4. Follows(Place(0), m, GivenUp) /\ Place(0) = <<current, received>>
  <2>1. 1 \in DOMAIN topic /\ 1 - 1 = 0
    BY <1>2
  <2>2. Follows(Place(1 - 1), topic[1], GivenUp)
    BY <2>1 DEF InTurn
  <2> QED BY <1>2, <2>1, <2>2, PlaceTypes
<1> HIDE DEF m
<1>5. PICK X : X = GivenUp
  OBVIOUS
<1>6. Filling(X)' /\ Judged(X)' /\ OwnChunks' /\ Place(0)' = m
  <2>0. Inv /\ Filling(X) /\ Judged(X)
    BY <1>5 DEF MqttInv
  <2>1. CASE m[2] = 0
    <3>1. m = <<m[1], 0>> /\ OnControl(m[1])
      BY <1>1, <1>3, <2>1
    <3>2. current < m[1] /\ Passed(<<current, received>>, m[1], X)
      <4>1. m[2] # received + 1
        BY <2>1 DEF MqttInv, MqttTypeOK, TypeOK
      <4> QED BY <1>4, <1>5, <2>1, <4>1 DEF Follows
    <3>3. \A r \in Transfers : current <= r /\ r < m[1] => Done(r, X)
      BY <3>2 DEF Passed, Done
    <3>4. Filling(X)' /\ Judged(X)'
      BY <1>3, <2>0, <3>1, <3>2, <3>3, ControlJudges
    <3>5. OwnChunks'
      BY <1>3, <2>0, <3>1, OwnControl
    <3>6. current' = m[1] /\ received' = 0
      BY <3>1 DEF OnControl
    <3> QED BY <3>1, <3>4, <3>5, <3>6 DEF Place
  <2>2. CASE m[2] # 0
    <3>1. m[1] = current /\ m[2] = received + 1
      BY <1>4, <2>2 DEF Follows
    <3>2. received \in Nat /\ Announced(current) \in Nat
      BY <1>3, <3>1, FilePlan DEF Announced, MqttInv, MqttTypeOK, TypeOK
    <3>3. open /\ current # NoTransfer
      <4>1. received < Announced(current) /\ current # NoTransfer
        BY <1>3, <3>1, <3>2, MqttTypes
      <4> QED BY <2>0, <4>1 DEF Filling
    <3> DEFINE c == <<FileOf[current], received + 1>>
    <3>4. OnData(c) /\ c = <<FileOf[current], received + 1>> /\ c \in Chunks
          /\ c[1] = FileOf[current]
      BY <1>1, <1>3, <2>2, <3>1
    <3> HIDE DEF c
    <3>5. /\ Filling(X)' /\ Judged(X)'
          /\ current' = current /\ received' = received + 1
      BY <2>0, <3>3, <3>4, DataJudges
    <3>6. OwnChunks'
      BY <2>0, <3>4, OwnData
    <3>7. m = <<current', received'>>
      BY <1>3, <3>1, <3>5
    <3> QED BY <3>5, <3>6, <3>7 DEF Place
  <2> QED BY <2>1, <2>2
<1>7. /\ Len(topic') = Len(topic) - 1 /\ DOMAIN topic' = 1 .. Len(topic) - 1
      /\ \A k \in 1 .. Len(topic) - 1 : topic'[k] = topic[k + 1]
  BY <1>1, <1>2, LenProperties
<1>8. ASSUME NEW k \in 0 .. Len(topic) - 1 PROVE Place(k)' = Place(k + 1)
  <2>1. Place(1) = m
    BY <1>2 DEF Place
  <2>2. k # 0 => k \in 1 .. Len(topic) - 1 /\ k + 1 # 0
    BY <1>2
  <2> QED BY <1>6, <1>7, <2>1, <2>2 DEF Place
<1>9. Reached' = Reached
  <2>0. Len(topic) - 1 \in 0 .. Len(topic) - 1 /\ (Len(topic) - 1) + 1 = Len(topic)
    BY <1>2
  <2>1. PICK j \in 0 .. Len(topic) - 1 : j = Len(topic) - 1 /\ j + 1 = Len(topic)
    BY <2>0
  <2>2. Place(j)' = Place(j + 1) /\ j = Len(topic')
    BY <1>7, <1>8, <2>1
  <2> QED BY <2>1, <2>2 DEF Reached
<1>10. GivenUp' = X /\ Missing' = Missing
  BY <1>1, <1>5, <1>9 DEF GivenUp, Missing
<1>11. InTurn'
  <2> SUFFICES ASSUME NEW k \in 1 .. Len(topic) - 1
               PROVE  Follows(Place(k - 1)', topic'[k], X)
    BY <1>7, <1>10 DEF InTurn
  <2>1. k - 1 \in 0 .. Len(topic) - 1 /\ (k - 1) + 1 = k /\ (k + 1) - 1 = k /\ k + 1 \in DOMAIN topic
    BY <1>2
  <2>2. Place(k - 1)' = Place(k) /\ topic'[k] = topic[k + 1]
    BY <1>7, <1>8, <2>1
  <2>3. Follows(Place(k), topic[k + 1], X)
    BY <1>5, <2>1 DEF InTurn
  <2> QED BY <2>2, <2>3
<1>12. Filling(GivenUp)' /\ Judged(GivenUp)'
  BY <1>6, <1>10 DEF Filling, Judged
<1> QED BY <1>6, <1>9, <1>10, <1>11, <1>12

\* The initial state has nothing out of turn.
LEMMA JudgedInit == ASSUME Init, MqttInv PROVE JudgedInv
<1>1. /\ disk = [f \in Files |-> <<>>] /\ current = NoTransfer /\ open = FALSE /\ buffered = <<>>
      /\ received = 0 /\ rows = <<>> /\ turn = 1 /\ pc = "start"
      /\ outbox = <<>> /\ topic = <<>> /\ late = [t \in Transfers |-> <<>>]
  BY DEF Init, ReceiverInit
<1>2. InTurn /\ OutboxInTurn /\ LateInTurn /\ LateNext
  BY <1>1 DEF InTurn, OutboxInTurn, LateInTurn, LateNext
<1>3. ClientNext
  <2>1. Reached = <<0, 0>>
    BY <1>1 DEF Reached, Place, NoTransfer
  <2>2. \A s \in Transfers : s \in Nat /\ ~(s < 1)
    BY FilePlan DEF Transfers
  <2> QED BY <1>1, <2>1, <2>2 DEF ClientNext, Passed
<1>4. Filling(GivenUp) /\ Judged(GivenUp)
  BY NothingJudged DEF Init
<1>5. OwnChunks
  BY <1>1 DEF OwnChunks, OfFile
<1> QED BY <1>2, <1>3, <1>4, <1>5 DEF JudgedInv

\* Every step that disturbs nothing keeps every message in its turn and every judgement
\* right.
LEMMA JudgedNext == ASSUME MqttInv, JudgedInv, [Next]_vars PROVE JudgedInv'
<1> DEFINE Order == /\ InTurn /\ Filling(GivenUp) /\ Judged(GivenUp) /\ OwnChunks
                    /\ OutboxInTurn /\ ClientNext /\ LateInTurn /\ LateNext
<1> SUFFICES ASSUME ~disturbed' PROVE Order'
  BY DEF JudgedInv
<1>0. ~disturbed => Order
  BY DEF JudgedInv
<1>1. ASSUME \/ PublishMetadata \/ AssignMid \/ WaitForAck \/ PublishChunk \/ WaitForPublish
             \/ OnPublish
      PROVE  Order'
  <2>1. UNCHANGED <<receiverVars, topic, disturbed, abandoned, late>>
    BY <1>1 DEF PublishMetadata, AssignMid, WaitForAck, PublishChunk, WaitForPublish,
                OnPublish, brokerVars
  <2>2. Order
    BY <1>0, <2>1
  <2>3. InTurn' /\ Filling(GivenUp)' /\ Judged(GivenUp)' /\ OwnChunks' /\ Reached' = Reached
    BY <2>1, <2>2, QueueKept
  <2>4. Missing' = Missing
    BY <2>1 DEF Missing
  <2>5. OutboxInTurn' /\ ClientNext'
    BY <1>1, <2>2, <2>3, <2>4, ClientInTurn, AcknowledgedInTurn
  <2>6. LateInTurn' /\ LateNext'
    <3>1. turn' = turn
      BY <1>1 DEF PublishMetadata, AssignMid, WaitForAck, PublishChunk, WaitForPublish, OnPublish
    <3> QED BY <2>1, <2>2, <2>3, <2>4, <3>1 DEF LateInTurn, LateNext
  <2> QED BY <2>3, <2>5, <2>6
<1>2. ASSUME SenderFinishes PROVE Order'
  <2>1. UNCHANGED <<receiverVars, topic, disturbed>> /\ abandoned \subseteq abandoned'
    BY <1>2 DEF SenderFinishes, LeavesBehind, brokerVars
  <2>2. Order
    BY <1>0, <2>1
  <2>3. \A s \in Transfers : late[s] # <<>> => late'[s] # <<>>
    <3>1. PICK n \in 0 .. OnTheWay : LeavesBehind(n)
      BY <1>2 DEF SenderFinishes
    <3>2. \A s \in Transfers : s # turn => late'[s] = late[s]
      BY <1>2, <3>1, LeftOnTheWay DEF SenderFinishes
    <3>3. ASSUME NEW s \in Transfers, late[s] # <<>> PROVE s # turn
      <4>1. s < turn /\ s \in Nat /\ turn \in Nat
        BY <2>2, <3>3, MqttTypes DEF LateInTurn
      <4> QED BY <4>1
    <3> QED BY <3>2, <3>3
  <2>4. /\ InTurn' /\ Filling(GivenUp)' /\ Judged(GivenUp)' /\ OwnChunks'
        /\ Reached' = Reached /\ Missing \subseteq Missing'
    BY <2>1, <2>2, <2>3, QueueKept
  <2>5. OutboxInTurn' /\ ClientNext' /\ LateInTurn' /\ LateNext'
    BY <1>2, <2>2, <2>4, FinishedInTurn
  <2> QED BY <2>4, <2>5
<1>3. ASSUME BrokerTakes PROVE Order'
  <2> DEFINE m == outbox[taken + 1]
  <2>1. /\ UNCHANGED <<receiverVars, late, abandoned>> /\ Queues(m) /\ taken < Len(outbox)
    BY <1>3 DEF BrokerTakes
  <2>2. Order
    BY <1>0, <2>1 DEF Queues
  <2>3. m \in Messages /\ Follows(Reached, m, Missing)
    <3>1. taken + 1 \in DOMAIN outbox /\ outbox # <<>>
      BY <2>1, MqttTypes
    <3>2. pc # "start"
      BY <3>1 DEF MqttInv, ClientOwn
    <3> QED BY <2>1, <2>2, <3>1, <3>2, MqttTypes DEF ClientNext
  <2>4. Reached' = m /\ InTurn' /\ Filling(GivenUp)' /\ Judged(GivenUp)' /\ OwnChunks'
    <3> HIDE DEF m
    <3> QED BY <2>1, <2>2, <2>3, QueuedInTurn
  <2>5. OutboxInTurn' /\ ClientNext' /\ LateInTurn' /\ LateNext'
    BY <1>3, <2>2, <2>4, TakesInTurn
  <2> QED BY <2>4, <2>5
<1>4. ASSUME LateDelivery PROVE Order'
  <2>0. PICK t \in Transfers : BrokerTakesLate(t)
    BY <1>4 DEF LateDelivery
  <2> DEFINE m == late[t][1]
  <2>1. /\ UNCHANGED <<receiverVars, abandoned>> /\ Queues(Head(late[t])) /\ late[t] # <<>>
        /\ late' = [late EXCEPT ![t] = Tail(late[t])]
    BY <2>0 DEF BrokerTakesLate
  <2>2. Order
    BY <1>0, <2>1 DEF Queues
  <2>3. late[t] \in Seq(Messages) /\ m \in Messages /\ m = Head(late[t]) /\ 1 \in DOMAIN late[t]
    BY <2>1, MqttTypes, EmptySeq, HeadTailProperties, LenProperties
  <2>4. m[1] = t
    BY <2>1, <2>2, <2>3 DEF LateInTurn
  <2>5. Reached[1] <= t
    <3>1. ~(LastSent > m[1]) /\ Reached[1] \in Nat /\ t \in Nat
      BY <2>1, <2>3, MqttTypes, PlaceTypes DEF Queues
    <3> QED BY <2>4, <3>1, ReachedIsLast
  <2>6. Follows(Reached, m, Missing)
    BY <2>1, <2>2, <2>5 DEF LateNext
  <2>7. \A s \in Transfers : s # m[1] => late'[s] = late[s]
    BY <2>1, <2>4, MqttTypes
  <2>8. Reached' = m /\ InTurn' /\ Filling(GivenUp)' /\ Judged(GivenUp)' /\ OwnChunks'
    <3>1. Queues(m)
      BY <2>1, <2>3
    <3> HIDE DEF m
    <3> QED BY <2>1, <2>2, <2>3, <2>6, <2>7, <3>1, QueuedInTurn
  <2>9. OutboxInTurn' /\ ClientNext' /\ LateInTurn' /\ LateNext'
    BY <2>0, <2>2, <2>5, <2>8, LateComesInTurn
  <2> QED BY <2>8, <2>9
<1>5. ASSUME OnMessage PROVE Order'
  <2>1. UNCHANGED <<disturbed, clientVars>>
    BY <1>5 DEF OnMessage
  <2>2. Order
    BY <1>0, <2>1
  <2>3. /\ InTurn' /\ Filling(GivenUp)' /\ Judged(GivenUp)' /\ OwnChunks'
        /\ Reached' = Reached /\ Missing' = Missing
    BY <1>5, <2>2, MessageInTurn
  <2>4. OutboxInTurn' /\ ClientNext' /\ LateInTurn' /\ LateNext'
    BY <2>1, <2>2, <2>3 DEF clientVars, OutboxInTurn, ClientNext, LateInTurn, LateNext
  <2> QED BY <2>3, <2>4
<1>6. ASSUME SenderReconnects \/ ReceiverLosesLink \/ ReceiverDies PROVE FALSE
  BY <1>6 DEF SenderReconnects, ReceiverLosesLink, ReceiverDies
<1>7. ASSUME OnConnect \/ ReceiverComesBack \/ Finished \/ UNCHANGED vars PROVE Order'
  <2>1. UNCHANGED <<receiverVars, topic, disturbed, clientVars>>
    BY <1>7 DEF OnConnect, ReceiverComesBack, Finished, vars, brokerVars
  <2>2. Order
    BY <1>0, <2>1
  <2>3. abandoned' = abandoned /\ late' = late
    BY <2>1 DEF clientVars
  <2>4. InTurn' /\ Filling(GivenUp)' /\ Judged(GivenUp)' /\ OwnChunks' /\ Reached' = Reached
    BY <2>1, <2>2, <2>3, QueueKept
  <2>5. Missing' = Missing
    BY <2>3 DEF Missing
  <2>6. OutboxInTurn' /\ ClientNext' /\ LateInTurn' /\ LateNext'
    BY <2>1, <2>2, <2>4, <2>5 DEF clientVars, OutboxInTurn, ClientNext, LateInTurn, LateNext
  <2> QED BY <2>4, <2>6
<1> QED
  BY <1>1, <1>2, <1>3, <1>4, <1>5, <1>6, <1>7 DEF Next, MainThread, Network, Receiver

\* Until messages are lost, repeated or overtaken, what the receiver has handled and has
\* in its queue is in the campaign's order, so is what the broker takes next, and whatever
\* the receiver has passed is judged, but for the transfers given up.
THEOREM JudgedInvariant == Spec => []JudgedInv
<1>1. Init => JudgedInv
  BY MqttInit, JudgedInit
<1>2. MqttInv /\ JudgedInv /\ [Next]_vars => JudgedInv'
  BY JudgedNext
<1> QED BY <1>1, <1>2, MqttInvariant, PTL DEF Spec

\* NoForeignChunk: until then client_b.py writes no chunk into the file of another
\* transfer, although its data messages carry no name, and also when a client ended with
\* messages lost or still on their way.
THEOREM NoForeignChunkHolds == Spec => []NoForeignChunk
<1>1. JudgedInv => NoForeignChunk
  BY DEF JudgedInv, NoForeignChunk, OwnChunks, OfFile
<1> QED BY <1>1, JudgedInvariant, PTL

\* TakenTransferJudged: at the end of an undisturbed campaign each transfer whose messages
\* all reached the broker has its one row, and the right one, although client_a gives up
\* waiting, ends with messages lost, and never waits for the receiver.
THEOREM TakenTransferJudgedHolds == Spec => []TakenTransferJudged
<1>1. ASSUME MqttInv, JudgedInv PROVE TakenTransferJudged
  <2> SUFFICES ASSUME Quiescent, ~disturbed,
                      NEW t \in Transfers, t \notin abandoned, NumChunks[FileOf[t]] > 0
               PROVE  /\ Cardinality(RowsOf(t)) = 1
                      /\ \A i \in RowsOf(t) : rows[i].ok <=> FileOf[t] \notin SmallTail
    BY DEF TakenTransferJudged
  <2>1. turn > NumTransfers /\ topic = <<>> /\ Missing = abandoned /\ GivenUp = abandoned
    BY DEF Quiescent, Missing, GivenUp
  <2>2. pc = "start"
    BY <1>1, <2>1, MqttTypes DEF MqttInv, ClientOwn, Transfers
  <2>3. Reached = <<current, received>>
    BY <2>1 DEF Reached, Place
  <2>4. Passed(<<current, received>>, turn, abandoned)
    BY <1>1, <2>1, <2>2, <2>3 DEF JudgedInv, ClientNext
  <2>5. t < turn /\ t \in Nat /\ current \in Nat /\ Announced(t) \in Nat
    BY <1>1, <2>1, MqttTypes, PlaceTypes, FilePlan DEF Transfers, Announced
  <2>6. Behind(t)
    <3>1. CASE t < current
      BY <3>1 DEF Behind
    <3>2. CASE current <= t
      <4>1. t = current /\ received = Announced(t)
        BY <2>4, <2>5, <3>2 DEF Passed
      <4>2. current # NoTransfer /\ Announced(t) # 0
        BY <1>1, <4>1, MqttTypes DEF Announced
      <4>3. ~(received < Announced(current) \/ Announced(current) = 0)
        BY <2>5, <4>1, <4>2
      <4>4. ~open
        BY <1>1, <4>2, <4>3 DEF JudgedInv, Filling
      <4> QED BY <4>1, <4>4 DEF Behind
    <3> QED BY <2>5, <3>1, <3>2
  <2>7. JudgedRightly(t)
    BY <1>1, <2>1, <2>6 DEF JudgedInv, Judged, Announced
  <2>8. PICK i \in DOMAIN rows : RowsOf(t) = {i} /\ (rows[i].ok <=> FileOf[t] \notin SmallTail)
    BY <2>7 DEF JudgedRightly
  <2>9. Cardinality({i}) = 1
    BY FS_Singleton
  <2> QED BY <2>8, <2>9
<1> QED BY <1>1, MqttInvariant, JudgedInvariant, PTL
=============================================================================
