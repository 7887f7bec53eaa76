------------------------- MODULE AmqpTransferProofs -------------------------
(* Proofs about AmqpTransfer, for every campaign: whatever the broker        *)
(* refuses, and whenever clients and receiver die, the receiver is handed    *)
(* messages that are in its queues, and is a receiver of FileReceiver.  In   *)
(* an orderly campaign the two queues are one stream of messages in the      *)
(* order of the campaign, and every confirmed transfer is judged, once and   *)
(* rightly.                                                                  *)
EXTENDS AmqpTransfer, FileReceiverProofs, FiniteSetTheorems, FunctionTheorems

Queues == {"control", "data"}

----------------------------------------------------------------------------
(* Counting the messages of one queue on the receiver's channel *)

Places(s, q) == {i \in DOMAIN s : s[i] = q}

\* The places of a queue's messages are finitely many.
LEMMA PlacesFinite ==
    ASSUME NEW s \in Seq(Queues), NEW q
    PROVE  IsFiniteSet(Places(s, q)) /\ Cardinality(Places(s, q)) \in Nat
<1>1. Places(s, q) \subseteq 1 .. Len(s) /\ Len(s) \in Nat
  BY DEF Places
<1>2. IsFiniteSet(1 .. Len(s))
  BY <1>1, FS_Interval
<1> QED BY <1>1, <1>2, FS_Subset, FS_CardinalityType

\* A message that is pushed takes one more place of its queue.
LEMMA PlacesAppend ==
    ASSUME NEW s \in Seq(Queues), NEW r \in Queues, NEW q \in Queues
    PROVE  Cardinality(Places(Append(s, r), q))
              = Cardinality(Places(s, q)) + (IF q = r THEN 1 ELSE 0)
<1>1. /\ Len(s) \in Nat /\ DOMAIN s = 1 .. Len(s)
      /\ DOMAIN Append(s, r) = 1 .. Len(s) + 1
      /\ \A i \in 1 .. Len(s) : Append(s, r)[i] = s[i]
      /\ Append(s, r)[Len(s) + 1] = r
  BY AppendProperties, LenProperties
<1>2. Places(Append(s, r), q) =
         IF q = r THEN Places(s, q) \cup {Len(s) + 1} ELSE Places(s, q)
  BY <1>1 DEF Places
<1>3. Len(s) + 1 \notin Places(s, q)
  BY <1>1 DEF Places
<1>4. IsFiniteSet(Places(s, q)) /\ Cardinality(Places(s, q)) \in Nat
  BY PlacesFinite
<1>5. Cardinality(Places(s, q) \cup {Len(s) + 1}) = Cardinality(Places(s, q)) + 1
  BY <1>3, <1>4, FS_AddElement
<1> QED BY <1>2, <1>4, <1>5

\* The first message that is acknowledged frees one place of its queue.
LEMMA PlacesTail ==
    ASSUME NEW s \in Seq(Queues), s # <<>>, NEW q \in Queues
    PROVE  Cardinality(Places(Tail(s), q))
              = Cardinality(Places(s, q)) - (IF q = Head(s) THEN 1 ELSE 0)
<1>1. /\ Len(s) \in Nat \ {0} /\ DOMAIN s = 1 .. Len(s)
      /\ Tail(s) \in Seq(Queues) /\ DOMAIN Tail(s) = 1 .. Len(s) - 1
      /\ \A i \in 1 .. Len(s) - 1 : Tail(s)[i] = s[i + 1]
      /\ Head(s) = s[1]
  BY HeadTailProperties, LenProperties, EmptySeq
<1> DEFINE later == Places(s, q) \ {1}
           shift == [i \in Places(Tail(s), q) |-> i + 1]
<1>2. shift \in Bijection(Places(Tail(s), q), later)
  <2>1. shift \in [Places(Tail(s), q) -> later]
    BY <1>1 DEF Places
  <2>2. ASSUME NEW a \in Places(Tail(s), q), NEW b \in Places(Tail(s), q), shift[a] = shift[b]
        PROVE  a = b
    BY <1>1, <2>2 DEF Places
  <2>3. ASSUME NEW j \in later PROVE \E i \in Places(Tail(s), q) : shift[i] = j
    <3>1. j \in 2 .. Len(s) /\ s[j] = q
      BY <1>1 DEF Places
    <3>2. j - 1 \in 1 .. Len(s) - 1 /\ (j - 1) + 1 = j
      BY <1>1, <3>1
    <3>3. j - 1 \in Places(Tail(s), q)
      BY <1>1, <3>1, <3>2 DEF Places
    <3> QED BY <3>2, <3>3
  <2> QED BY <2>1, <2>2, <2>3, Fun_IsBij
<1>3. IsFiniteSet(Places(Tail(s), q)) /\ Cardinality(Places(Tail(s), q)) = Cardinality(later)
  <2>1. IsFiniteSet(Places(Tail(s), q))
    BY <1>1, PlacesFinite
  <2>2. ExistsBijection(Places(Tail(s), q), later)
    BY <1>2, Zenon DEF ExistsBijection
  <2> QED BY <2>1, <2>2, FS_Bijection
<1>4. 1 \in Places(s, q) <=> q = Head(s)
  BY <1>1 DEF Places
<1>5. IsFiniteSet(Places(s, q)) /\ Cardinality(Places(s, q)) \in Nat
  BY PlacesFinite
<1>6. Cardinality(later) = IF 1 \in Places(s, q) THEN Cardinality(Places(s, q)) - 1
                           ELSE Cardinality(Places(s, q))
  BY <1>5, FS_RemoveElement
<1> QED BY <1>3, <1>4, <1>5, <1>6

\* What is pushed to a receiver that connects: first m messages of the control
\* queue, then n of the data queue.
LEMMA PlacesFirst ==
    ASSUME NEW m \in Nat, NEW n \in Nat
    PROVE  LET s == [i \in 1 .. m |-> "control"] \o [i \in 1 .. n |-> "data"]
           IN  /\ s \in Seq(Queues)
               /\ Cardinality(Places(s, "control")) = m
               /\ Cardinality(Places(s, "data")) = n
<1> DEFINE a == [i \in 1 .. m |-> "control"]
           b == [i \in 1 .. n |-> "data"]
<1>1. a \in Seq(Queues) /\ b \in Seq(Queues) /\ Len(a) = m /\ Len(b) = n
  BY DEF Queues
<1>2. /\ a \o b \in Seq(Queues) /\ DOMAIN (a \o b) = 1 .. m + n
      /\ \A i \in 1 .. m + n : (a \o b)[i] = IF i <= m THEN "control" ELSE "data"
  BY <1>1, ConcatProperties, LenProperties
<1>3. Places(a \o b, "control") = 1 .. m /\ Places(a \o b, "data") = m + 1 .. m + n
  BY <1>2 DEF Places
<1>4. Cardinality(1 .. m) = m /\ Cardinality(m + 1 .. m + n) = n
  BY FS_Interval
<1> QED BY <1>2, <1>3, <1>4

----------------------------------------------------------------------------
(* The inductive invariant *)

\* what is pushed of a queue is in that queue, and nothing is pushed to a
\* receiver that is down
Window ==
    /\ \A q \in Queues : PushedOf(q) <= Len(Queue(q))
    /\ ~up => pushed = <<>>

\* a transfer being received has its sampler, a client that runs its transfer
Accompanied ==
    /\ open => samplers >= 1
    /\ pc # "start" => turn \in Transfers

AmqpInv == AmqpTypeOK /\ Inv /\ Window /\ Accompanied

\* The types the proofs below keep needing.
LEMMA AmqpTypes ==
    ASSUME AmqpInv
    PROVE  /\ pushed \in Seq(Queues) /\ handled \in Nat /\ handled <= Len(pushed)
           /\ ctrl \in Seq(Transfers) /\ data \in Seq(Chunks)
           /\ campaign.prefetch \in Nat \ {0}
           /\ turn \in Nat /\ samplers \in Nat /\ sent \in Nat
           /\ \A q \in Queues : PushedOf(q) = Cardinality(Places(pushed, q))
           /\ Transfers \subseteq Nat
<1>1. pushed \in Seq(Queues) /\ Len(pushed) \in Nat
  BY DEF AmqpInv, AmqpTypeOK, Queues
<1>2. handled \in Nat /\ handled <= Len(pushed)
  BY <1>1 DEF AmqpInv, AmqpTypeOK
<1>3. turn \in Nat
  BY FilePlan DEF AmqpInv, AmqpTypeOK
<1>4. campaign.prefetch \in Nat \ {0}
  BY CampaignPlan DEF AmqpInv, AmqpTypeOK
<1>5. \A q \in Queues : PushedOf(q) = Cardinality(Places(pushed, q))
  BY DEF PushedOf, Places
<1> QED BY <1>1, <1>2, <1>3, <1>4, <1>5 DEF AmqpInv, AmqpTypeOK, Transfers

\* The message handled next is in its queue: there are no more messages of a queue
\* among those handled than are pushed of it.
LEMMA NextInQueue ==
    ASSUME AmqpInv, handled < Len(pushed)
    PROVE  /\ NextQueue = "control" => NextMessage \in Transfers
           /\ NextQueue = "data" => NextMessage \in Chunks
<1> DEFINE seen == {i \in 1 .. handled + 1 : pushed[i] = NextQueue}
<1>1. /\ pushed \in Seq(Queues) /\ handled \in Nat /\ Len(pushed) \in Nat
      /\ handled + 1 \in 1 .. Len(pushed) /\ DOMAIN pushed = 1 .. Len(pushed)
  BY AmqpTypes, LenProperties
<1>2. NextQueue \in Queues /\ NextQueue = pushed[handled + 1]
  BY <1>1, ElementOfSeq DEF NextQueue
<1>3. seen \subseteq Places(pushed, NextQueue) /\ handled + 1 \in seen
  BY <1>1, <1>2 DEF Places
<1>4. IsFiniteSet(Places(pushed, NextQueue))
  BY <1>1, PlacesFinite
<1>5. /\ IsFiniteSet(seen) /\ Cardinality(seen) \in Nat
      /\ Cardinality(seen) <= PushedOf(NextQueue) /\ Cardinality(seen) # 0
  <2> HIDE DEF seen
  <2>1. IsFiniteSet(seen) /\ Cardinality(seen) <= Cardinality(Places(pushed, NextQueue))
    BY <1>3, <1>4, FS_Subset
  <2>2. Cardinality(seen) \in Nat /\ Cardinality(seen) # 0
    BY <1>3, <2>1, FS_CardinalityType, FS_EmptySet
  <2> QED BY <1>2, <2>1, <2>2, AmqpTypes
<1>6. PushedOf(NextQueue) <= Len(Queue(NextQueue)) /\ PushedOf(NextQueue) \in Nat
  BY <1>1, <1>2, AmqpTypes, PlacesFinite DEF AmqpInv, Window
<1>7. NextMessage = Queue(NextQueue)[Cardinality(seen)]
  BY DEF NextMessage
<1> HIDE DEF seen
<1>8. ASSUME NextQueue = "control" PROVE NextMessage \in Transfers
  <2>1. Queue(NextQueue) \in Seq(Transfers)
    BY <1>8, AmqpTypes DEF Queue
  <2>2. Cardinality(seen) \in 1 .. Len(Queue(NextQueue))
    BY <1>5, <1>6, <2>1, LenProperties
  <2> QED BY <1>7, <2>1, <2>2, ElementOfSeq
<1>9. ASSUME NextQueue = "data" PROVE NextMessage \in Chunks
  <2>1. Queue(NextQueue) \in Seq(Chunks)
    BY <1>9, AmqpTypes DEF Queue
  <2>2. Cardinality(seen) \in 1 .. Len(Queue(NextQueue))
    BY <1>5, <1>6, <2>1, LenProperties
  <2> QED BY <1>7, <2>1, <2>2, ElementOfSeq
<1> QED BY <1>8, <1>9

\* What the broker's state may be.
BrokerOK ==
    /\ ctrl \in Seq(Transfers) /\ data \in Seq(Chunks)
    /\ pushed \in Seq(Queues)
    /\ handled \in 0 .. Len(pushed)
    /\ Window

\* The broker takes a message: it is in its queue, and pushed at most once.
LEMMA EnqueueStep ==
    ASSUME AmqpInv, NEW q \in Queues, NEW message, Enqueue(q, message),
           q = "control" => message \in Transfers,
           q = "data" => message \in Chunks,
           UNCHANGED <<handled, up>>
    PROVE  BrokerOK'
<1>0. /\ q = "control" => ctrl' = Append(ctrl, message) /\ data' = data
      /\ q = "data" => data' = Append(data, message) /\ ctrl' = ctrl
      /\ ctrl \in Seq(Transfers) /\ data \in Seq(Chunks)
      /\ pushed \in Seq(Queues) /\ handled \in Nat /\ handled <= Len(pushed)
  BY AmqpTypes DEF Enqueue
<1>1. ctrl' \in Seq(Transfers) /\ data' \in Seq(Chunks)
  <2>1. CASE q = "control"
    BY <1>0, <2>1, AppendProperties
  <2>2. CASE q = "data"
    BY <1>0, <2>2, AppendProperties
  <2> QED BY <2>1, <2>2 DEF Queues
<1>2. pushed' = pushed \/ (up /\ pushed' = Append(pushed, q))
  BY DEF Enqueue
<1>3. pushed' \in Seq(Queues) /\ handled' \in 0 .. Len(pushed')
  <2>1. Append(pushed, q) \in Seq(Queues) /\ Len(Append(pushed, q)) = Len(pushed) + 1
    BY <1>0, AppendProperties
  <2>2. Len(pushed) \in Nat /\ handled' = handled
    BY <1>0, LenProperties
  <2>3. pushed' \in Seq(Queues) /\ (Len(pushed') = Len(pushed) \/ Len(pushed') = Len(pushed) + 1)
    BY <1>0, <1>2, <2>1, Zenon
  <2> QED BY <1>0, <2>2, <2>3
<1>4. ASSUME NEW r \in Queues PROVE PushedOf(r)' <= Len(Queue(r))'
  <2>1. Len(Queue(r))' = Len(Queue(r)) + (IF r = q THEN 1 ELSE 0) /\ Len(Queue(r)) \in Nat
    <3>1. CASE q = "control"
      BY <1>0, <3>1, AppendProperties, LenProperties DEF Queue, Queues
    <3>2. CASE q = "data"
      <4>1. /\ Len(data') = Len(data) + 1 /\ Len(ctrl') = Len(ctrl)
            /\ Len(data) \in Nat /\ Len(ctrl) \in Nat
        BY <1>0, <3>2, AppendProperties, LenProperties
      <4>2. CASE r = "control"
        BY <3>2, <4>1, <4>2 DEF Queue
      <4>3. CASE r = "data"
        BY <3>2, <4>1, <4>3 DEF Queue
      <4> QED BY <4>2, <4>3 DEF Queues
    <3> QED BY <3>1, <3>2 DEF Queues
  <2>2. PushedOf(r)' = Cardinality(Places(pushed', r))
    BY DEF PushedOf, Places
  <2>3. PushedOf(r) <= Len(Queue(r)) /\ PushedOf(r) = Cardinality(Places(pushed, r))
    BY AmqpTypes DEF AmqpInv, Window
  <2>4. Cardinality(Places(pushed, r)) \in Nat
    BY AmqpTypes, PlacesFinite
  <2>5. CASE pushed' = pushed
    BY <2>1, <2>2, <2>3, <2>4, <2>5
  <2>6. CASE pushed' = Append(pushed, q)
    <3>1. Cardinality(Places(pushed', r))
             = Cardinality(Places(pushed, r)) + (IF r = q THEN 1 ELSE 0)
      BY <2>6, AmqpTypes, PlacesAppend
    <3> QED BY <2>1, <2>2, <2>3, <2>4, <3>1
  <2> QED BY <1>2, <2>5, <2>6
<1>5. ~up' => pushed' = <<>>
  BY <1>2 DEF AmqpInv, Window
<1> QED BY <1>1, <1>3, <1>4, <1>5 DEF BrokerOK, Window

\* An acknowledgement arrives: the first message pushed leaves its queue.
LEMMA AckStep == ASSUME AmqpInv, BrokerAcked PROVE BrokerOK'
<1> DEFINE q == Head(pushed)
<1>1. /\ pushed \in Seq(Queues) /\ pushed # <<>> /\ Len(pushed) \in Nat \ {0}
      /\ handled \in Nat \ {0} /\ handled <= Len(pushed) /\ up' = up /\ up
      /\ handled' = handled - 1
  BY AmqpTypes, EmptySeq DEF BrokerAcked
<1>2. q \in Queues /\ Tail(pushed) \in Seq(Queues) /\ Len(Tail(pushed)) = Len(pushed) - 1
  BY <1>1, HeadTailProperties
<1>3. \A r \in Queues : /\ Cardinality(Places(pushed, r)) \in Nat
                        /\ Cardinality(Places(Tail(pushed), r))
                              = Cardinality(Places(pushed, r)) - (IF r = q THEN 1 ELSE 0)
                        /\ Cardinality(Places(Tail(pushed), r)) \in Nat
  BY <1>1, <1>2, PlacesTail, PlacesFinite
<1>4. \A r \in Queues : /\ PushedOf(r) = Cardinality(Places(pushed, r))
                        /\ PushedOf(r) <= Len(Queue(r))
                        /\ Len(Queue(r)) \in Nat
  BY AmqpTypes DEF AmqpInv, Window, Queue, Queues
<1>5. /\ q = "control" => ctrl' = Tail(ctrl) /\ data' = data
      /\ q = "data" => data' = Tail(data) /\ ctrl' = ctrl
      /\ pushed' = IF Len(Queue(q)) > PushedOf(q) THEN Append(Tail(pushed), q) ELSE Tail(pushed)
  BY DEF BrokerAcked
<1> HIDE DEF q
<1>6. Len(Queue(q)) > 0
  BY <1>2, <1>3, <1>4
<1>7. /\ ctrl' \in Seq(Transfers) /\ data' \in Seq(Chunks)
      /\ \A r \in Queues : Len(Queue(r))' = Len(Queue(r)) - (IF r = q THEN 1 ELSE 0)
  <2>1. CASE q = "control"
    <3>1. ctrl \in Seq(Transfers) /\ data \in Seq(Chunks) /\ ctrl # <<>>
      BY <1>6, <2>1, AmqpTypes, EmptySeq DEF Queue
    <3>2. Tail(ctrl) \in Seq(Transfers) /\ Len(Tail(ctrl)) = Len(ctrl) - 1
      BY <3>1, HeadTailProperties
    <3>3. Len(data) \in Nat
      BY <3>1, LenProperties
    <3>4. ctrl' = Tail(ctrl) /\ data' = data
      BY <1>5, <2>1
    <3>5. ASSUME NEW r \in Queues
          PROVE  Len(Queue(r))' = Len(Queue(r)) - (IF r = q THEN 1 ELSE 0)
      <4>1. CASE r = "control"
        BY <2>1, <3>2, <3>3, <3>4, <4>1 DEF Queue
      <4>2. CASE r = "data"
        BY <2>1, <3>2, <3>3, <3>4, <4>2 DEF Queue
      <4> QED BY <4>1, <4>2 DEF Queues
    <3> QED BY <3>1, <3>2, <3>4, <3>5
  <2>2. CASE q = "data"
    <3>1. ctrl \in Seq(Transfers) /\ data \in Seq(Chunks) /\ data # <<>>
      BY <1>6, <2>2, AmqpTypes, EmptySeq DEF Queue
    <3>2. Tail(data) \in Seq(Chunks) /\ Len(Tail(data)) = Len(data) - 1
      BY <3>1, HeadTailProperties
    <3>3. Len(ctrl) \in Nat
      BY <3>1, LenProperties
    <3>4. data' = Tail(data) /\ ctrl' = ctrl
      BY <1>5, <2>2
    <3>5. ASSUME NEW r \in Queues
          PROVE  Len(Queue(r))' = Len(Queue(r)) - (IF r = q THEN 1 ELSE 0)
      <4>1. CASE r = "control"
        BY <2>2, <3>2, <3>3, <3>4, <4>1 DEF Queue
      <4>2. CASE r = "data"
        BY <2>2, <3>2, <3>3, <3>4, <4>2 DEF Queue
      <4> QED BY <4>1, <4>2 DEF Queues
    <3> QED BY <3>1, <3>2, <3>4, <3>5
  <2> QED BY <1>2, <2>1, <2>2 DEF Queues
<1>8. /\ pushed' \in Seq(Queues) /\ handled' \in 0 .. Len(pushed')
      /\ \A r \in Queues : Cardinality(Places(pushed', r)) <= Len(Queue(r))'
  <2>1. CASE Len(Queue(q)) > PushedOf(q)
    <3>1. pushed' = Append(Tail(pushed), q)
      BY <1>5, <2>1
    <3>2. pushed' \in Seq(Queues) /\ Len(pushed') = Len(pushed)
      BY <1>1, <1>2, <3>1, AppendProperties
    <3>3. ASSUME NEW r \in Queues
          PROVE  Cardinality(Places(pushed', r)) = Cardinality(Places(pushed, r))
      <4>1. Cardinality(Places(pushed', r))
               = Cardinality(Places(Tail(pushed), r)) + (IF r = q THEN 1 ELSE 0)
        BY <1>2, <3>1, PlacesAppend
      <4> QED BY <1>3, <4>1
    <3>4. ASSUME NEW r \in Queues
          PROVE  Cardinality(Places(pushed', r)) <= Len(Queue(r))'
      <4>1. CASE r = q
        BY <1>2, <1>3, <1>4, <1>7, <2>1, <3>3, <4>1
      <4>2. CASE r # q
        BY <1>3, <1>4, <1>7, <3>3, <4>2
      <4> QED BY <4>1, <4>2
    <3> QED BY <1>1, <3>2, <3>4
  <2>2. CASE ~(Len(Queue(q)) > PushedOf(q))
    <3>1. pushed' = Tail(pushed)
      BY <1>5, <2>2
    <3>2. ASSUME NEW r \in Queues
          PROVE  Cardinality(Places(pushed', r)) <= Len(Queue(r))'
      BY <1>3, <1>4, <1>7, <3>1
    <3>3. pushed' \in Seq(Queues) /\ handled' \in 0 .. Len(pushed')
      BY <1>1, <1>2, <3>1
    <3> QED BY <3>2, <3>3
  <2> QED BY <2>1, <2>2
<1>9. \A r \in Queues : PushedOf(r)' <= Len(Queue(r))'
  BY <1>8 DEF PushedOf, Places
<1> QED BY <1>1, <1>7, <1>8, <1>9 DEF BrokerOK, Window

\* A receiver that connects is pushed messages of its queues.
LEMMA ComeBackStep == ASSUME AmqpInv, ReceiverComesBack PROVE BrokerOK'
<1> DEFINE m == Min({Len(Queue("control")), campaign.prefetch})
           n == Min({Len(Queue("data")), campaign.prefetch})
<1>1. /\ ctrl \in Seq(Transfers) /\ data \in Seq(Chunks) /\ handled = 0
      /\ Len(ctrl) \in Nat /\ Len(data) \in Nat /\ campaign.prefetch \in Nat
      /\ Queue("control") = ctrl /\ Queue("data") = data
  <2>1. pushed = <<>>
    BY DEF AmqpInv, Window, ReceiverComesBack
  <2> QED BY <2>1, AmqpTypes, LenProperties DEF Queue
<1>2. \A a, b \in Nat : Min({a, b}) \in Nat /\ Min({a, b}) <= a
  <2> SUFFICES ASSUME NEW a \in Nat, NEW b \in Nat
               PROVE  Min({a, b}) \in Nat /\ Min({a, b}) <= a
    OBVIOUS
  <2>1. \E x \in {a, b} : \A y \in {a, b} : x <= y
    <3>1. CASE a <= b
      BY <3>1
    <3>2. CASE ~(a <= b)
      BY <3>2
    <3> QED BY <3>1, <3>2
  <2> QED BY <2>1 DEF Min
<1>3. m \in Nat /\ n \in Nat /\ m <= Len(ctrl) /\ n <= Len(data)
  BY <1>1, <1>2
<1>4. pushed' = [i \in 1 .. m |-> "control"] \o [i \in 1 .. n |-> "data"]
  BY DEF ReceiverComesBack, FirstPush
<1> HIDE DEF m, n
<1>5. /\ pushed' \in Seq(Queues)
      /\ Cardinality(Places(pushed', "control")) = m
      /\ Cardinality(Places(pushed', "data")) = n
  BY <1>3, <1>4, PlacesFirst, Zenon
<1>6. UNCHANGED <<ctrl, data, handled>> /\ up'
  BY DEF ReceiverComesBack
<1>7. \A r \in Queues : PushedOf(r)' <= Len(Queue(r))'
  BY <1>3, <1>5, <1>6 DEF PushedOf, Places, Queue, Queues
<1> QED BY <1>1, <1>5, <1>6, <1>7, LenProperties DEF BrokerOK, Window

----------------------------------------------------------------------------
(* The receiver of this campaign takes the steps of FileReceiver *)

\* Every step of the campaign is a step of FileReceiver or leaves the receiver alone.
LEMMA ReceiverStep ==
    ASSUME AmqpInv, [Next]_vars
    PROVE  [ReceiverNext]_receiverVars
<1>1. ASSUME HandleControl PROVE ReceiverNext
  <2>1. NextMessage \in Transfers /\ OnControl(NextMessage)
    BY <1>1, NextInQueue DEF HandleControl
  <2> QED BY <2>1 DEF ReceiverNext
<1>2. ASSUME HandleData PROVE ReceiverNext
  <2>1. NextMessage \in Chunks /\ OnData(NextMessage)
    BY <1>2, NextInQueue DEF HandleData, OnData
  <2> QED BY <2>1 DEF ReceiverNext
<1>3. ASSUME ReceiverDies PROVE ReceiverNext
  <2>1. \/ ReceiverRestarts
        \/ NextQueue = "control" /\ handled < Len(pushed) /\ KilledInControl(NextMessage)
        \/ NextQueue = "data" /\ handled < Len(pushed) /\ KilledInData(NextMessage)
    BY <1>3 DEF ReceiverDies
  <2> QED BY <2>1, NextInQueue DEF ReceiverNext
<1>4. ASSUME \/ ClientStarts \/ PublishMetadata \/ PublishChunk \/ ConnectionLost
             \/ SenderFinishes \/ BrokerAcked \/ ReceiverComesBack
      PROVE  UNCHANGED receiverVars
  BY <1>4 DEF ClientStarts, PublishMetadata, PublishChunk, ConnectionLost, SenderFinishes,
              BrokerAcked, ReceiverComesBack
<1>5. ASSUME Finished \/ UNCHANGED vars PROVE UNCHANGED receiverVars
  BY <1>5 DEF Finished, vars
<1> QED BY <1>1, <1>2, <1>3, <1>4, <1>5 DEF Next, Sender, Receiver

\* The next chunk a client publishes is a chunk of its file.
LEMMA ChunkSent ==
    ASSUME AmqpInv, pc = "chunks", sent < NumChunks[FileOf[turn]]
    PROVE  <<FileOf[turn], sent + 1>> \in Chunks
<1>1. turn \in Transfers /\ FileOf[turn] \in Files /\ NumChunks[FileOf[turn]] \in Nat
  BY FilePlan DEF AmqpInv, Accompanied
<1>2. sent + 1 \in 1 .. NumChunks[FileOf[turn]]
  BY <1>1, AmqpTypes
<1> QED BY <1>1, <1>2 DEF Chunks

\* Every step keeps the queues and the receiver's channel together.
LEMMA BrokerStep == ASSUME AmqpInv, [Next]_vars PROVE BrokerOK'
<1>0. BrokerOK
  BY AmqpTypes DEF AmqpInv, BrokerOK
<1>1. ASSUME UNCHANGED <<brokerVars, handled, up>> PROVE BrokerOK'
  BY <1>0, <1>1 DEF brokerVars, BrokerOK, Window, PushedOf, Queue
<1>2. ASSUME PublishedControl, pc = "metadata", UNCHANGED <<handled, up>> PROVE BrokerOK'
  <2>1. turn \in Transfers
    BY <1>2 DEF AmqpInv, Accompanied
  <2> QED BY <1>2, <2>1, EnqueueStep DEF PublishedControl, Queues
<1>3. ASSUME PublishedData, pc = "chunks", sent < NumChunks[FileOf[turn]],
             UNCHANGED <<handled, up>>
      PROVE  BrokerOK'
  BY <1>3, ChunkSent, EnqueueStep DEF PublishedData, Queues
<1>4. ASSUME PublishMetadata PROVE BrokerOK'
  BY <1>1, <1>2, <1>4 DEF PublishMetadata
<1>5. ASSUME PublishChunk PROVE BrokerOK'
  BY <1>1, <1>3, <1>5 DEF PublishChunk
<1>6. ASSUME ConnectionLost PROVE BrokerOK'
  BY <1>1, <1>2, <1>3, <1>6 DEF ConnectionLost
<1>7. ASSUME \/ ClientStarts \/ SenderFinishes \/ Finished \/ UNCHANGED vars
      PROVE  BrokerOK'
  BY <1>1, <1>7 DEF ClientStarts, SenderFinishes, Finished, vars
<1>8. ASSUME HandleControl \/ HandleData PROVE BrokerOK'
  <2>1. UNCHANGED <<brokerVars, up>> /\ handled' = handled + 1 /\ handled < Len(pushed)
    BY <1>8 DEF HandleControl, HandleData
  <2>2. handled' \in 0 .. Len(pushed')
    BY <2>1, AmqpTypes, LenProperties DEF brokerVars
  <2> QED BY <1>0, <2>1, <2>2 DEF brokerVars, BrokerOK, Window, PushedOf, Queue
<1>9. ASSUME ReceiverDies PROVE BrokerOK'
  <2>1. pushed' = <<>> /\ handled' = 0 /\ UNCHANGED <<ctrl, data>>
    BY <1>9 DEF ReceiverDies
  <2>2. /\ <<>> \in Seq(Queues) /\ Len(<<>>) = 0
        /\ \A r \in Queues : Places(<<>>, r) = {}
    BY DEF Places
  <2>3. \A r \in Queues : PushedOf(r)' = 0
    BY <2>1, <2>2, FS_EmptySet DEF PushedOf, Places
  <2>4. \A r \in Queues : Len(Queue(r))' \in Nat
    BY <2>1, AmqpTypes DEF Queue, Queues
  <2> QED BY <2>1, <2>2, <2>3, <2>4, AmqpTypes DEF BrokerOK, Window
<1> QED
  BY <1>4, <1>5, <1>6, <1>7, <1>8, <1>9, AckStep, ComeBackStep
     DEF Next, Sender, Receiver

\* Every step keeps the clients and the samplers in step with the receiver.
LEMMA AccompaniedStep ==
    ASSUME AmqpInv, [Next]_vars
    PROVE  /\ Accompanied' /\ samplers' \in Nat
           /\ turn' \in 1 .. NumTransfers + 1 /\ pc' \in {"start", "metadata", "chunks"}
           /\ sent' \in Nat /\ campaign' \in Campaigns /\ faults' \in 0 .. MaxFaults
           /\ failed' \subseteq Transfers /\ senderRows' \subseteq Transfers /\ up' \in BOOLEAN
<1> DEFINE Goal == /\ Accompanied' /\ samplers' \in Nat
           /\ turn' \in 1 .. NumTransfers + 1 /\ pc' \in {"start", "metadata", "chunks"}
           /\ sent' \in Nat /\ campaign' \in Campaigns /\ faults' \in 0 .. MaxFaults
           /\ failed' \subseteq Transfers /\ senderRows' \subseteq Transfers /\ up' \in BOOLEAN
<1>0. /\ Accompanied /\ samplers \in Nat /\ turn \in Nat
      /\ turn \in 1 .. NumTransfers + 1 /\ pc \in {"start", "metadata", "chunks"}
      /\ sent \in Nat /\ campaign \in Campaigns /\ faults \in 0 .. MaxFaults
      /\ failed \subseteq Transfers /\ senderRows \subseteq Transfers /\ up \in BOOLEAN
      /\ NumTransfers \in Nat /\ MaxFaults \in Nat
  BY AmqpTypes, FilePlan, CampaignPlan DEF AmqpInv, AmqpTypeOK
<1>1. ASSUME ClientStarts PROVE Goal
  BY <1>0, <1>1 DEF ClientStarts, receiverVars, Accompanied, Transfers
<1>2. ASSUME PublishMetadata PROVE Goal
  BY <1>0, <1>2 DEF PublishMetadata, Fault, receiverVars, Accompanied
<1>3. ASSUME PublishChunk PROVE Goal
  BY <1>0, <1>3 DEF PublishChunk, Fault, receiverVars, Accompanied
<1>4. ASSUME ConnectionLost PROVE Goal
  BY <1>0, <1>4 DEF ConnectionLost, Fault, receiverVars, Accompanied, Transfers
<1>5. ASSUME SenderFinishes PROVE Goal
  BY <1>0, <1>5 DEF SenderFinishes, receiverVars, Accompanied, Transfers
<1>6. ASSUME HandleControl PROVE Goal
  BY <1>0, <1>6 DEF HandleControl, senderVars, Accompanied
<1>7. ASSUME HandleData PROVE Goal
  BY <1>0, <1>7 DEF HandleData, DropChunk, StoreChunk, CompleteTransfer, receiverVars,
                    senderVars, Accompanied
<1>8. ASSUME BrokerAcked \/ Finished \/ UNCHANGED vars PROVE Goal
  <2>1. UNCHANGED <<receiverVars, senderVars, up, samplers, faults>>
    BY <1>8 DEF BrokerAcked, Finished, vars
  <2> QED BY <1>0, <2>1 DEF receiverVars, senderVars, Accompanied
<1>9. ASSUME ReceiverComesBack PROVE Goal
  <2>1. UNCHANGED <<receiverVars, senderVars, samplers, faults>> /\ up' = TRUE
    BY <1>9 DEF ReceiverComesBack
  <2> QED BY <1>0, <2>1 DEF receiverVars, senderVars, Accompanied
<1>10. ASSUME ReceiverDies PROVE Goal
  <2>1. /\ open' = FALSE /\ samplers' = 0 /\ up' = FALSE /\ faults' \in 0 .. MaxFaults
        /\ UNCHANGED senderVars
    BY <1>0, <1>10 DEF ReceiverDies, ReceiverRestarts, KilledInControl, KilledInData,
                       KilledBeforeRow, KilledBeforeClose, Forgotten, Fault
  <2> QED BY <1>0, <2>1 DEF senderVars, Accompanied
<1> QED
  BY <1>1, <1>2, <1>3, <1>4, <1>5, <1>6, <1>7, <1>8, <1>9, <1>10
     DEF Next, Sender, Receiver

\* The initial state satisfies the invariant.
LEMMA AmqpInit == Init => AmqpInv
<1> SUFFICES ASSUME Init PROVE AmqpInv
  OBVIOUS
<1>1. Inv
  BY InvInit DEF Init
<1>2. /\ <<>> \in Seq(Transfers) /\ <<>> \in Seq(Chunks)
      /\ <<>> \in Seq({"control", "data"}) /\ Len(<<>>) = 0
  OBVIOUS
<1>3. AmqpTypeOK
  BY <1>1, <1>2, FilePlan, CampaignPlan DEF Init, Inv, AmqpTypeOK
<1>4. Window
  <2>1. \A r \in Queues : Places(<<>>, r) = {}
    BY DEF Places
  <2>2. \A r \in Queues : PushedOf(r) = 0 /\ Len(Queue(r)) = 0
    BY <1>2, <2>1, FS_EmptySet DEF Init, PushedOf, Places, Queue
  <2> QED BY <2>2 DEF Init, Window
<1>5. Accompanied
  BY DEF Init, ReceiverInit, Accompanied
<1> QED BY <1>1, <1>3, <1>4, <1>5 DEF AmqpInv

\* Every step preserves the invariant.
LEMMA AmqpNext == AmqpInv /\ [Next]_vars => AmqpInv'
<1> SUFFICES ASSUME AmqpInv, [Next]_vars PROVE AmqpInv'
  OBVIOUS
<1>1. Inv'
  BY ReceiverStep, InvNext DEF AmqpInv
<1>2. AmqpTypeOK'
  BY <1>1, BrokerStep, AccompaniedStep DEF Inv, BrokerOK, Queues, AmqpTypeOK
<1> QED BY <1>1, <1>2, BrokerStep, AccompaniedStep DEF BrokerOK, AmqpInv

\* The invariant holds in every reachable state.
THEOREM AmqpInvariant == Spec => []AmqpInv
<1> QED BY AmqpInit, AmqpNext, PTL DEF Spec

\* Clients, broker and receiver keep to their types: among others, the receiver
\* never has more messages on its channel than it handles and acknowledges.
THEOREM AmqpTypeCorrect == Spec => []AmqpTypeOK
<1>1. AmqpInv => AmqpTypeOK
  BY DEF AmqpInv
<1> QED BY <1>1, AmqpInvariant, PTL

\* ImplementsReceiver: through refused and repeated messages, overtaking queues and
\* restarts, amqp_receiver.py is only ever handed metadata and chunks of the
\* campaign, so it behaves as a receiver of FileReceiver.
THEOREM ImplementsReceiverHolds == Spec => ImplementsReceiver
<1>1. Init => ReceiverInit
  BY DEF Init
<1>2. AmqpInv /\ [Next]_vars => [ReceiverNext]_receiverVars
  BY ReceiverStep
<1> QED BY <1>1, <1>2, AmqpInvariant, PTL DEF Spec, ImplementsReceiver, ReceiverSpec

\* What is proved of every receiver holds of this one: a row that says the file is
\* intact is right, and every row counts the file it is about.
THEOREM AmqpRowsSound == Spec => IntegritySound /\ IntactReported /\ RowCountsTheFile
BY ImplementsReceiverHolds, IntegritySoundHolds, IntactReportedHolds,
   RowCountsTheFileHolds, PTL DEF ImplementsReceiver

----------------------------------------------------------------------------
(* Two queues as one stream *)

\* the first k members of s, and how many of them are like the k-th
First(s, k) == [i \in 1 .. k |-> s[i]]
Rank(s, k) == Cardinality(Places(First(s, k), s[k]))

\* The first members of a sequence.
LEMMA FirstType ==
    ASSUME NEW s \in Seq(Queues), NEW k \in 1 .. Len(s)
    PROVE  /\ First(s, k) \in Seq(Queues) /\ Len(First(s, k)) = k
           /\ \A i \in 1 .. k : First(s, k)[i] = s[i]
           /\ s[k] \in Queues
<1>1. Len(s) \in Nat /\ k \in Nat /\ \A i \in 1 .. k : s[i] \in Queues
  BY LenProperties
<1> QED BY <1>1 DEF First

\* A rank is a place in a queue.
LEMMA RankBounds ==
    ASSUME NEW s \in Seq(Queues), NEW k \in 1 .. Len(s)
    PROVE  Rank(s, k) \in 1 .. Cardinality(Places(s, s[k]))
<1> DEFINE T == Places(First(s, k), s[k])
<1>1. /\ First(s, k) \in Seq(Queues) /\ DOMAIN First(s, k) = 1 .. k
      /\ \A i \in 1 .. k : First(s, k)[i] = s[i]
      /\ DOMAIN s = 1 .. Len(s) /\ Len(s) \in Nat /\ k \in Nat
  BY FirstType, LenProperties
<1>2. T \subseteq Places(s, s[k]) /\ k \in T
  BY <1>1 DEF Places
<1>3. IsFiniteSet(Places(s, s[k])) /\ Cardinality(Places(s, s[k])) \in Nat
  BY PlacesFinite
<1>4. IsFiniteSet(T) /\ Cardinality(T) \in Nat
  BY <1>1, PlacesFinite
<1> HIDE DEF T
<1>5. Cardinality(T) # 0 /\ Cardinality(T) <= Cardinality(Places(s, s[k]))
  BY <1>2, <1>3, <1>4, FS_Subset, FS_EmptySet
<1>6. Rank(s, k) = Cardinality(T)
  BY DEF Rank, T
<1> QED BY <1>3, <1>4, <1>5, <1>6

\* One more member leaves the other ranks alone, and has the last rank of its kind.
LEMMA RankAppend ==
    ASSUME NEW s \in Seq(Queues), NEW q \in Queues
    PROVE  /\ \A k \in 1 .. Len(s) : Rank(Append(s, q), k) = Rank(s, k)
           /\ Rank(Append(s, q), Len(s) + 1) = Cardinality(Places(s, q)) + 1
<1> DEFINE t == Append(s, q)
<1>1. /\ t \in Seq(Queues) /\ Len(t) = Len(s) + 1 /\ Len(s) \in Nat
      /\ \A i \in 1 .. Len(s) : t[i] = s[i]
      /\ t[Len(s) + 1] = q
  BY AppendProperties, LenProperties
<1> HIDE DEF t
<1>2. ASSUME NEW k \in 1 .. Len(s) PROVE Rank(t, k) = Rank(s, k)
  <2>1. First(t, k) = First(s, k) /\ t[k] = s[k]
    BY <1>1 DEF First
  <2> QED BY <2>1 DEF Rank
<1>3. First(t, Len(s) + 1) = t
  <2>1. Len(s) + 1 \in 1 .. Len(t)
    BY <1>1
  <2>2. /\ First(t, Len(s) + 1) \in Seq(Queues) /\ Len(First(t, Len(s) + 1)) = Len(s) + 1
        /\ \A i \in 1 .. Len(s) + 1 : First(t, Len(s) + 1)[i] = t[i]
    BY <1>1, <2>1, FirstType
  <2> QED BY <1>1, <2>2, SeqEqual
<1>4. Rank(t, Len(s) + 1) = Cardinality(Places(t, q))
  BY <1>1, <1>3 DEF Rank
<1>5. Cardinality(Places(t, q)) = Cardinality(Places(s, q)) + 1
  BY PlacesAppend DEF t
<1> QED BY <1>2, <1>4, <1>5 DEF t

\* Without the first member, the ranks of its kind are one less.
LEMMA RankTail ==
    ASSUME NEW s \in Seq(Queues), NEW k \in Nat, k + 1 \in 2 .. Len(s)
    PROVE  Rank(Tail(s), k) = Rank(s, k + 1) - (IF s[k + 1] = Head(s) THEN 1 ELSE 0)
<1>1. /\ s # <<>> /\ Len(s) \in Nat /\ k \in 1 .. Len(s) - 1 /\ k + 1 \in 1 .. Len(s)
      /\ Tail(s) \in Seq(Queues) /\ Len(Tail(s)) = Len(s) - 1
      /\ \A i \in 1 .. Len(s) - 1 : Tail(s)[i] = s[i + 1]
      /\ Head(s) = s[1]
  BY HeadTailProperties, LenProperties, EmptySeq
<1> DEFINE f == First(s, k + 1)
<1>2. /\ f \in Seq(Queues) /\ Len(f) = k + 1 /\ \A i \in 1 .. k + 1 : f[i] = s[i]
      /\ s[k + 1] \in Queues
  BY <1>1, FirstType
<1> HIDE DEF f
<1>3. f # <<>> /\ Head(f) = Head(s)
  BY <1>1, <1>2
<1>4. First(Tail(s), k) = Tail(f)
  <2>1. /\ First(Tail(s), k) \in Seq(Queues) /\ Len(First(Tail(s), k)) = k
        /\ \A i \in 1 .. k : First(Tail(s), k)[i] = Tail(s)[i]
    BY <1>1, FirstType
  <2>2. /\ Tail(f) \in Seq(Queues) /\ Len(Tail(f)) = k
        /\ \A i \in 1 .. k : Tail(f)[i] = f[i + 1]
    BY <1>1, <1>2, <1>3, HeadTailProperties
  <2>3. \A i \in 1 .. k : First(Tail(s), k)[i] = Tail(f)[i]
    BY <1>1, <1>2, <2>1, <2>2
  <2> QED BY <2>1, <2>2, <2>3, SeqEqual
<1>5. Cardinality(Places(Tail(f), s[k + 1]))
         = Cardinality(Places(f, s[k + 1])) - (IF s[k + 1] = Head(f) THEN 1 ELSE 0)
  BY <1>2, <1>3, PlacesTail
<1>6. Rank(Tail(s), k) = Cardinality(Places(Tail(f), s[k + 1]))
  BY <1>1, <1>4 DEF Rank
<1>7. Rank(s, k + 1) = Cardinality(Places(f, s[k + 1]))
  BY DEF Rank, f
<1> QED BY <1>3, <1>5, <1>6, <1>7

\* what a client publishes, as the transfer and the chunk's place in it, 0 for metadata
Messages == UNION {{t} \X (0 .. Announced(t)) : t \in Transfers}
Kind(m) == IF m[2] = 0 THEN "control" ELSE "data"
Item(m) == IF m[2] = 0 THEN m[1] ELSE <<FileOf[m[1]], m[2]>>
Kinds(P) == [k \in 1 .. Len(P) |-> Kind(P[k])]
Items == Transfers \cup Chunks

\* the members of P, each in its queue and in the order of P
Split(P, Q) ==
    /\ \A k \in 1 .. Len(P) : Q[Kind(P[k])][Rank(Kinds(P), k)] = Item(P[k])
    /\ \A q \in Queues : Len(Q[q]) = Cardinality(Places(Kinds(P), q))

\* A message is a transfer's metadata, or one of its chunks.
LEMMA MessageParts ==
    ASSUME NEW m \in Messages
    PROVE  /\ m[1] \in Transfers /\ m[2] \in Nat /\ m[2] <= Announced(m[1])
           /\ m = <<m[1], m[2]>> /\ Kind(m) \in Queues /\ Item(m) \in Items
           /\ m[2] # 0 => <<FileOf[m[1]], m[2]>> \in Chunks
<1>1. PICK t \in Transfers : m \in {t} \X (0 .. Announced(t))
  BY DEF Messages
<1>2. FileOf[t] \in Files /\ NumChunks[FileOf[t]] \in Nat /\ Announced(t) = NumChunks[FileOf[t]]
  BY FilePlan DEF Announced
<1>3. /\ m[1] = t /\ m[2] \in Nat /\ m[2] <= Announced(t) /\ m = <<m[1], m[2]>>
  BY <1>1, <1>2
<1>4. m[2] # 0 => <<FileOf[m[1]], m[2]>> \in Chunks
  <2> SUFFICES ASSUME m[2] # 0 PROVE <<FileOf[t], m[2]>> \in Chunks
    BY <1>3
  <2>1. m[2] \in 1 .. NumChunks[FileOf[t]]
    BY <1>2, <1>3
  <2> QED BY <1>2, <2>1 DEF Chunks
<1> QED BY <1>1, <1>3, <1>4 DEF Kind, Item, Items, Queues

\* The kinds of a stream are the kinds of its members.
LEMMA KindsType ==
    ASSUME NEW P \in Seq(Messages)
    PROVE  /\ Kinds(P) \in Seq(Queues) /\ Len(Kinds(P)) = Len(P) /\ Len(P) \in Nat
           /\ \A k \in 1 .. Len(P) : /\ Kinds(P)[k] = Kind(P[k]) /\ P[k] \in Messages
                                     /\ Kind(P[k]) \in Queues
<1>1. Len(P) \in Nat /\ \A k \in 1 .. Len(P) : P[k] \in Messages /\ Kind(P[k]) \in Queues
  BY MessageParts, LenProperties, ElementOfSeq
<1> QED BY <1>1 DEF Kinds

\* A message that is published comes last in the stream and in its queue.
LEMMA SplitAppend ==
    ASSUME NEW P \in Seq(Messages), NEW m \in Messages, NEW Q \in [Queues -> Seq(Items)],
           Split(P, Q)
    PROVE  /\ Append(P, m) \in Seq(Messages)
           /\ Kinds(Append(P, m)) = Append(Kinds(P), Kind(m))
           /\ Split(Append(P, m), [Q EXCEPT ![Kind(m)] = Append(Q[Kind(m)], Item(m))])
<1> DEFINE R == Append(P, m)
           S == Kinds(P)
           q == Kind(m)
           Z == [Q EXCEPT ![q] = Append(Q[q], Item(m))]
<1>1. /\ S \in Seq(Queues) /\ Len(S) = Len(P) /\ Len(P) \in Nat
      /\ \A k \in 1 .. Len(P) : S[k] = Kind(P[k]) /\ Kind(P[k]) \in Queues
      /\ q \in Queues /\ Item(m) \in Items
  BY KindsType, MessageParts
<1>2. /\ R \in Seq(Messages) /\ Len(R) = Len(P) + 1
      /\ \A k \in 1 .. Len(P) : R[k] = P[k]
      /\ R[Len(P) + 1] = m
  BY <1>1, AppendProperties
<1> HIDE DEF R, S, q
<1>3. Kinds(R) = Append(S, q)
  <2>1. Kinds(R) \in Seq(Queues) /\ Len(Kinds(R)) = Len(P) + 1
    BY <1>2, KindsType
  <2>2. /\ Append(S, q) \in Seq(Queues) /\ Len(Append(S, q)) = Len(P) + 1
        /\ \A k \in 1 .. Len(P) : Append(S, q)[k] = S[k]
        /\ Append(S, q)[Len(P) + 1] = q
    <3>1. /\ Append(S, q) \in Seq(Queues) /\ Len(Append(S, q)) = Len(S) + 1
          /\ \A k \in 1 .. Len(S) : Append(S, q)[k] = S[k]
          /\ Append(S, q)[Len(S) + 1] = q
      <4>1. S \in Seq(Queues) /\ q \in Queues
        BY <1>1
      <4> QED BY <4>1, AppendProperties
    <3> QED BY <1>1, <3>1, Zenon
  <2>3. \A k \in 1 .. Len(P) + 1 : Kinds(R)[k] = Append(S, q)[k]
    <3> TAKE k \in 1 .. Len(P) + 1
    <3>1. Kinds(R)[k] = Kind(R[k])
      BY <1>2, KindsType
    <3>2. k \in 1 .. Len(P) \/ k = Len(P) + 1
      BY <1>1
    <3> QED BY <1>1, <1>2, <2>2, <3>1, <3>2 DEF q
  <2> QED BY <2>1, <2>2, <2>3, SeqEqual
<1>4. /\ Q[q] \in Seq(Items) /\ Len(Q[q]) = Cardinality(Places(S, q)) /\ Len(Q[q]) \in Nat
      /\ Z[q] = Append(Q[q], Item(m)) /\ \A p \in Queues : p # q => Z[p] = Q[p]
      /\ Len(Z[q]) = Len(Q[q]) + 1
      /\ \A i \in 1 .. Len(Q[q]) : Z[q][i] = Q[q][i]
      /\ Z[q][Len(Q[q]) + 1] = Item(m)
  BY <1>1, AppendProperties, LenProperties DEF Split, S
<1> HIDE DEF Z
<1>5. ASSUME NEW k \in 1 .. Len(R) PROVE Z[Kind(R[k])][Rank(Kinds(R), k)] = Item(R[k])
  <2>1. CASE k = Len(P) + 1
    <3>1. R[k] = m /\ Rank(Kinds(R), k) = Len(Q[q]) + 1
      BY <1>1, <1>2, <1>3, <1>4, <2>1, RankAppend
    <3> QED BY <1>4, <3>1 DEF q
  <2>2. CASE k # Len(P) + 1
    <3>1. k \in 1 .. Len(P) /\ R[k] = P[k]
      BY <1>1, <1>2, <2>2
    <3>2. Rank(Kinds(R), k) = Rank(S, k) /\ Rank(S, k) \in 1 .. Cardinality(Places(S, S[k]))
      BY <1>1, <1>3, <3>1, RankAppend, RankBounds
    <3>3. Q[Kind(P[k])][Rank(S, k)] = Item(P[k])
      BY <3>1 DEF Split, S
    <3>4. Z[Kind(P[k])][Rank(S, k)] = Q[Kind(P[k])][Rank(S, k)]
      <4>1. S[k] = Kind(P[k]) /\ Kind(P[k]) \in Queues
        BY <1>1, <3>1
      <4>2. CASE Kind(P[k]) = q
        <5>1. Rank(S, k) \in 1 .. Len(Q[q])
          BY <1>4, <3>2, <4>1, <4>2
        <5> QED BY <1>4, <4>2, <5>1
      <4>3. CASE Kind(P[k]) # q
        BY <1>4, <4>1, <4>3
      <4> QED BY <4>2, <4>3
    <3> QED BY <3>1, <3>2, <3>3, <3>4
  <2> QED BY <2>1, <2>2
<1>6. ASSUME NEW p \in Queues PROVE Len(Z[p]) = Cardinality(Places(Kinds(R), p))
  <2>1. Cardinality(Places(Kinds(R), p)) = Cardinality(Places(S, p)) + (IF p = q THEN 1 ELSE 0)
    BY <1>1, <1>3, PlacesAppend
  <2>2. Len(Q[p]) = Cardinality(Places(S, p)) /\ Cardinality(Places(S, p)) \in Nat
    BY <1>1, PlacesFinite DEF Split, S
  <2> QED BY <1>4, <2>1, <2>2
<1>7. Split(R, Z)
  BY <1>5, <1>6 DEF Split
<1> QED BY <1>2, <1>3, <1>7 DEF R, S, Z, q

\* The first message of the stream is the first of its queue.
LEMMA SplitTail ==
    ASSUME NEW P \in Seq(Messages), P # <<>>, NEW Q \in [Queues -> Seq(Items)], Split(P, Q)
    PROVE  /\ Tail(P) \in Seq(Messages) /\ Kinds(P) # <<>> /\ Head(Kinds(P)) = Kind(P[1])
           /\ Kinds(Tail(P)) = Tail(Kinds(P))
           /\ Split(Tail(P), [Q EXCEPT ![Kind(P[1])] = Tail(Q[Kind(P[1])])])
<1> DEFINE R == Tail(P)
           S == Kinds(P)
           q == Kind(P[1])
           Z == [Q EXCEPT ![q] = Tail(Q[q])]
<1>1. /\ S \in Seq(Queues) /\ Len(S) = Len(P) /\ Len(P) \in Nat \ {0}
      /\ \A k \in 1 .. Len(P) : S[k] = Kind(P[k]) /\ Kind(P[k]) \in Queues
      /\ q \in Queues /\ S # <<>> /\ Head(S) = q
  <2>1. Len(P) \in Nat \ {0}
    BY EmptySeq, LenProperties
  <2>2. 1 \in 1 .. Len(P)
    BY <2>1
  <2> QED BY <2>1, <2>2, KindsType, EmptySeq
<1>2. /\ R \in Seq(Messages) /\ Len(R) = Len(P) - 1
      /\ \A k \in 1 .. Len(P) - 1 : R[k] = P[k + 1]
  BY <1>1, HeadTailProperties
<1>3. Tail(S) \in Seq(Queues) /\ Len(Tail(S)) = Len(P) - 1
      /\ \A k \in 1 .. Len(P) - 1 : Tail(S)[k] = S[k + 1]
  BY <1>1, HeadTailProperties
<1> HIDE DEF R, S, q
<1>4. Kinds(R) = Tail(S)
  <2>1. Kinds(R) \in Seq(Queues) /\ Len(Kinds(R)) = Len(P) - 1
    BY <1>2, KindsType
  <2>2. \A k \in 1 .. Len(P) - 1 : Kinds(R)[k] = Tail(S)[k]
    <3> TAKE k \in 1 .. Len(P) - 1
    <3>1. Kinds(R)[k] = Kind(R[k]) /\ R[k] = P[k + 1] /\ Tail(S)[k] = S[k + 1]
      BY <1>2, <1>3, KindsType
    <3>2. k + 1 \in 1 .. Len(P)
      BY <1>1
    <3> QED BY <1>1, <3>1, <3>2
  <2> QED BY <1>3, <2>1, <2>2, SeqEqual
<1>5. \A p \in Queues :
        /\ Cardinality(Places(Tail(S), p)) = Cardinality(Places(S, p)) - (IF p = q THEN 1 ELSE 0)
        /\ Cardinality(Places(Tail(S), p)) \in Nat /\ Cardinality(Places(S, p)) \in Nat
        /\ Len(Q[p]) = Cardinality(Places(S, p)) /\ Q[p] \in Seq(Items)
  BY <1>1, <1>3, PlacesTail, PlacesFinite DEF Split, S
<1>6. Q[q] \in Seq(Items) /\ Len(Q[q]) \in Nat \ {0} /\ Q[q] # <<>>
  <2>1. Len(Q[q]) \in Nat \ {0}
    BY <1>1, <1>5
  <2> QED BY <1>1, <1>5, <2>1, EmptySeq
<1>7. /\ Z[q] = Tail(Q[q]) /\ \A p \in Queues : p # q => Z[p] = Q[p]
      /\ Len(Tail(Q[q])) = Len(Q[q]) - 1
      /\ \A i \in 1 .. Len(Q[q]) - 1 : Tail(Q[q])[i] = Q[q][i + 1]
  BY <1>1, <1>6, HeadTailProperties
<1> HIDE DEF Z
<1>8. ASSUME NEW k \in 1 .. Len(R) PROVE Z[Kind(R[k])][Rank(Kinds(R), k)] = Item(R[k])
  <2>1. k \in Nat /\ k + 1 \in 1 .. Len(P) /\ k + 1 \in 2 .. Len(S) /\ k \in 1 .. Len(Tail(S))
        /\ R[k] = P[k + 1] /\ Tail(S)[k] = S[k + 1]
    BY <1>1, <1>2, <1>3
  <2>2. S[k + 1] = Kind(R[k]) /\ Kind(R[k]) \in Queues
    BY <1>1, <2>1
  <2>3. Rank(Kinds(R), k) = Rank(S, k + 1) - (IF Kind(R[k]) = q THEN 1 ELSE 0)
    BY <1>1, <1>4, <2>1, <2>2, RankTail
  <2>4. Rank(Kinds(R), k) \in 1 .. Cardinality(Places(Tail(S), Kind(R[k])))
    BY <1>3, <1>4, <2>1, <2>2, RankBounds
  <2>5. Q[Kind(R[k])][Rank(S, k + 1)] = Item(R[k])
    BY <2>1 DEF Split, S
  <2>6. Rank(S, k + 1) \in 1 .. Cardinality(Places(S, S[k + 1]))
    BY <1>1, <2>1, RankBounds
  <2>7. CASE Kind(R[k]) = q
    <3>1. /\ Rank(Kinds(R), k) \in 1 .. Len(Q[q]) - 1
          /\ Rank(S, k + 1) = Rank(Kinds(R), k) + 1
      <4>1. Cardinality(Places(Tail(S), q)) = Len(Q[q]) - 1
        BY <1>1, <1>5
      <4> QED BY <2>3, <2>4, <2>6, <2>7, <4>1
    <3> QED BY <1>7, <2>5, <2>7, <3>1
  <2>8. CASE Kind(R[k]) # q
    <3>1. Rank(Kinds(R), k) = Rank(S, k + 1)
      BY <2>3, <2>6, <2>8
    <3> QED BY <1>7, <2>2, <2>5, <2>8, <3>1
  <2> QED BY <2>7, <2>8
<1>9. ASSUME NEW p \in Queues PROVE Len(Z[p]) = Cardinality(Places(Kinds(R), p))
  <2>1. Len(Z[p]) = Len(Q[p]) - (IF p = q THEN 1 ELSE 0)
    <3>1. CASE p = q
      BY <1>7, <3>1
    <3>2. CASE p # q
      <4>1. Z[p] = Q[p] /\ Len(Q[p]) \in Nat
        BY <1>5, <1>7, <3>2
      <4> QED BY <3>2, <4>1
    <3> QED BY <3>1, <3>2
  <2>2. /\ Cardinality(Places(Kinds(R), p)) = Cardinality(Places(S, p)) - (IF p = q THEN 1 ELSE 0)
        /\ Len(Q[p]) = Cardinality(Places(S, p))
    BY <1>4, <1>5
  <2> QED BY <2>1, <2>2
<1>10. Split(R, Z)
  BY <1>8, <1>9 DEF Split
<1> QED BY <1>1, <1>2, <1>4, <1>10 DEF R, S, Z, q

----------------------------------------------------------------------------
(* The stream of an orderly campaign *)

Queued == [q \in Queues |-> Queue(q)]

\* the stream is pushed in its order, and only chunks wait to be pushed
OnChannel(P) ==
    /\ Len(pushed) <= Len(P)
    /\ \A k \in 1 .. Len(P) :
          /\ k <= Len(pushed) => pushed[k] = Kind(P[k])
          /\ k > Len(pushed) => Kind(P[k]) = "data"

Stream(P) == P \in Seq(Messages) /\ Split(P, Queued) /\ OnChannel(P)

\* a chunk waits only for the window
Waits == Len(data) > PushedOf("data") => PushedOf("data") >= campaign.prefetch

\* The queues have their types.
LEMMA QueuedType ==
    ASSUME AmqpInv
    PROVE  /\ Queued \in [Queues -> Seq(Items)]
           /\ Queued["control"] = ctrl /\ Queued["data"] = data
<1>1. ctrl \in Seq(Transfers) /\ data \in Seq(Chunks)
  BY AmqpTypes
<1>2. ctrl \in Seq(Items) /\ data \in Seq(Items)
  BY <1>1 DEF Items
<1> QED BY <1>2 DEF Queued, Queue, Queues

\* All metadata is pushed; and all chunks, when the whole stream is.
LEMMA ChannelCounts ==
    ASSUME AmqpInv, NEW P, Stream(P)
    PROVE  /\ PushedOf("control") = Len(ctrl)
           /\ Len(data) > PushedOf("data") => Len(pushed) < Len(P)
           /\ Len(data) <= PushedOf("data") => Len(pushed) = Len(P)
           /\ Len(P) \in Nat /\ Len(pushed) \in Nat /\ DOMAIN pushed = 1 .. Len(pushed)
           /\ PushedOf("data") \in Nat
           /\ Len(pushed) <= Len(P)
<1> DEFINE S == Kinds(P)
<1>1. /\ S \in Seq(Queues) /\ DOMAIN S = 1 .. Len(P) /\ Len(P) \in Nat
      /\ \A k \in 1 .. Len(P) : S[k] = Kind(P[k])
  BY KindsType, LenProperties DEF Stream
<1>2. /\ pushed \in Seq(Queues) /\ DOMAIN pushed = 1 .. Len(pushed) /\ Len(pushed) \in Nat
      /\ Len(pushed) <= Len(P)
  BY AmqpTypes, LenProperties DEF Stream, OnChannel
<1>3. \A k \in 1 .. Len(P) : /\ k <= Len(pushed) => pushed[k] = S[k]
                             /\ k > Len(pushed) => S[k] = "data"
  BY <1>1 DEF Stream, OnChannel
<1>4. /\ Len(ctrl) = Cardinality(Places(S, "control"))
      /\ Len(data) = Cardinality(Places(S, "data"))
  BY QueuedType DEF Stream, Split, Queues
<1>5. /\ PushedOf("control") = Cardinality(Places(pushed, "control"))
      /\ PushedOf("data") = Cardinality(Places(pushed, "data"))
      /\ PushedOf("data") \in Nat
  BY <1>2, AmqpTypes, PlacesFinite DEF Queues
<1> HIDE DEF S
<1>6. Places(S, "control") = Places(pushed, "control")
  <2>1. ASSUME NEW k \in Places(S, "control") PROVE k \in Places(pushed, "control")
    <3>1. k \in 1 .. Len(P) /\ S[k] = "control"
      BY <1>1 DEF Places
    <3>2. k <= Len(pushed)
      BY <1>2, <1>3, <3>1
    <3> QED BY <1>2, <1>3, <3>1, <3>2 DEF Places
  <2>2. ASSUME NEW k \in Places(pushed, "control") PROVE k \in Places(S, "control")
    <3>1. k \in 1 .. Len(pushed) /\ pushed[k] = "control"
      BY <1>2 DEF Places
    <3>2. k \in 1 .. Len(P) /\ k <= Len(pushed)
      BY <1>1, <1>2, <3>1
    <3> QED BY <1>1, <1>3, <3>1, <3>2 DEF Places
  <2> QED BY <2>1, <2>2
<1>7. ASSUME Len(pushed) = Len(P) PROVE Places(S, "data") = Places(pushed, "data")
  BY <1>1, <1>2, <1>3, <1>7 DEF Places
<1>8. ASSUME Len(pushed) < Len(P) PROVE Len(data) > PushedOf("data")
  <2>1. Places(pushed, "data") \subseteq Places(S, "data")
    BY <1>1, <1>2, <1>3 DEF Places
  <2>2. Len(P) \in Places(S, "data") /\ Len(P) \notin Places(pushed, "data")
    BY <1>1, <1>2, <1>3, <1>8 DEF Places
  <2>3. IsFiniteSet(Places(S, "data")) /\ Cardinality(Places(S, "data")) \in Nat
    BY <1>1, PlacesFinite
  <2>4. /\ Cardinality(Places(pushed, "data")) <= Cardinality(Places(S, "data"))
        /\ Cardinality(Places(pushed, "data")) # Cardinality(Places(S, "data"))
    BY <2>1, <2>2, <2>3, FS_Subset
  <2> QED BY <1>4, <1>5, <2>3, <2>4
<1>9. Len(data) \in Nat
  BY AmqpTypes
<1>10. Len(data) > PushedOf("data") => Len(pushed) < Len(P)
  <2>1. Len(pushed) = Len(P) => Len(data) = PushedOf("data")
    BY <1>4, <1>5, <1>7
  <2> QED BY <1>1, <1>2, <1>5, <1>9, <2>1
<1>11. Len(data) <= PushedOf("data") => Len(pushed) = Len(P)
  BY <1>1, <1>2, <1>5, <1>8, <1>9
<1> QED BY <1>1, <1>2, <1>4, <1>5, <1>6, <1>10, <1>11

\* The receiver handles the next member of the stream.
LEMMA NextOfStream ==
    ASSUME AmqpInv, NEW P, Stream(P), handled < Len(pushed)
    PROVE  /\ handled + 1 \in 1 .. Len(P) /\ P[handled + 1] \in Messages
           /\ NextQueue = Kind(P[handled + 1])
           /\ NextMessage = Item(P[handled + 1])
<1> DEFINE S == Kinds(P)
           n == handled + 1
<1>1. /\ Len(P) \in Nat /\ Len(pushed) \in Nat /\ Len(pushed) <= Len(P) /\ handled \in Nat
      /\ DOMAIN pushed = 1 .. Len(pushed)
  BY ChannelCounts, AmqpTypes
<1>2. n \in 1 .. Len(P) /\ n \in 1 .. Len(pushed)
  BY <1>1
<1>3. /\ S \in Seq(Queues) /\ \A k \in 1 .. Len(P) : S[k] = Kind(P[k]) /\ P[k] \in Messages
      /\ Len(S) = Len(P)
  BY KindsType DEF Stream
<1>4. \A k \in 1 .. n : pushed[k] = S[k]
  <2>1. \A k \in 1 .. n : k \in 1 .. Len(P) /\ k <= Len(pushed)
    BY <1>1
  <2> QED BY <1>3, <2>1 DEF Stream, OnChannel
<1>5. NextQueue = Kind(P[n]) /\ NextQueue = S[n] /\ Kind(P[n]) \in Queues
  <2>1. n \in 1 .. n
    BY <1>1
  <2> QED BY <1>2, <1>3, <1>4, <2>1, KindsType DEF NextQueue, Stream
<1>6. {i \in 1 .. n : pushed[i] = NextQueue} = Places(First(S, n), S[n])
  <2>1. DOMAIN First(S, n) = 1 .. n /\ \A i \in 1 .. n : First(S, n)[i] = S[i]
    BY <1>1 DEF First
  <2> QED BY <1>4, <1>5, <2>1 DEF Places
<1>7. NextMessage = Queue(Kind(P[n]))[Rank(S, n)]
  BY <1>5, <1>6 DEF NextMessage, Rank
<1>8. Queue(Kind(P[n])) = Queued[Kind(P[n])]
  BY <1>5 DEF Queued
<1>9. Queued[Kind(P[n])][Rank(S, n)] = Item(P[n])
  BY <1>2 DEF Stream, Split
<1> QED BY <1>2, <1>3, <1>5, <1>7, <1>8, <1>9

\* A message that the broker takes is the last of the stream.
LEMMA StreamGrows ==
    ASSUME AmqpInv, AmqpInv', NEW P, Stream(P), Waits, up, campaign' = campaign,
           NEW m \in Messages, Enqueue(Kind(m), Item(m)),
           Kind(m) = "control" => /\ Len(ctrl) < campaign.prefetch
                                  /\ Len(data) <= PushedOf("data")
    PROVE  Stream(Append(P, m))' /\ Waits'
<1> DEFINE R == Append(P, m)
           q == Kind(m)
<1>1. /\ P \in Seq(Messages) /\ Split(P, Queued) /\ OnChannel(P)
      /\ Len(P) \in Nat /\ q \in Queues /\ Len(pushed) \in Nat /\ Len(pushed) <= Len(P)
  BY MessageParts, ChannelCounts DEF Stream
<1>2. /\ R \in Seq(Messages) /\ Len(R) = Len(P) + 1
      /\ \A k \in 1 .. Len(P) : R[k] = P[k]
      /\ R[Len(P) + 1] = m
  BY <1>1, AppendProperties
<1>3. Queued' = [Queued EXCEPT ![q] = Append(Queued[q], Item(m))]
  <2>1. /\ q = "control" => ctrl' = Append(ctrl, Item(m)) /\ data' = data
        /\ q = "data" => data' = Append(data, Item(m)) /\ ctrl' = ctrl
    BY DEF Enqueue
  <2>2. /\ Queued' \in [Queues -> Seq(Items)]
        /\ Queued'["control"] = ctrl' /\ Queued'["data"] = data'
        /\ Queued \in [Queues -> Seq(Items)] /\ Queued["control"] = ctrl /\ Queued["data"] = data
    <3>1. Queued' = [r \in Queues |-> IF r = "control" THEN ctrl' ELSE data']
      BY DEF Queued, Queue
    <3>2. Queued \in [Queues -> Seq(Items)] /\ Queued["control"] = ctrl /\ Queued["data"] = data
      BY QueuedType
    <3>3. ctrl' \in Seq(Items) /\ data' \in Seq(Items)
      <4>1. ctrl' \in Seq(Transfers) /\ data' \in Seq(Chunks)
        BY DEF AmqpInv, AmqpTypeOK
      <4> QED BY <4>1 DEF Items
    <3> QED BY <3>1, <3>2, <3>3 DEF Queues
  <2> HIDE DEF q
  <2>3. CASE q = "control"
    BY <2>1, <2>2, <2>3 DEF Queues
  <2>4. CASE q = "data"
    BY <2>1, <2>2, <2>4 DEF Queues
  <2> QED BY <1>1, <2>3, <2>4 DEF Queues
<1>4. Split(R, Queued)'
  <2>1. Split(R, [Queued EXCEPT ![q] = Append(Queued[q], Item(m))])
    BY <1>1, QueuedType, SplitAppend
  <2>2. Split(R, Queued')
    BY <1>3, <2>1
  <2> QED BY <2>2 DEF Split, Kinds, Kind, Item
<1>5. pushed' = IF PushedOf(q) < campaign.prefetch THEN Append(pushed, q) ELSE pushed
  BY DEF Enqueue
<1>6. Len(data) \in Nat /\ PushedOf("data") \in Nat /\ campaign.prefetch \in Nat
  BY ChannelCounts, AmqpTypes
<1>7. ASSUME PushedOf(q) < campaign.prefetch PROVE Len(pushed) = Len(P)
  <2>1. Len(data) <= PushedOf("data")
    <3>1. CASE q = "control"
      BY <3>1
    <3>2. CASE q = "data"
      BY <1>6, <1>7, <3>2 DEF Waits
    <3> QED BY <1>1, <3>1, <3>2 DEF Queues
  <2> QED BY <2>1, ChannelCounts
<1>8. ASSUME ~(PushedOf(q) < campaign.prefetch) PROVE q = "data"
  <2>1. PushedOf("control") = Len(ctrl)
    BY ChannelCounts
  <2> QED BY <1>1, <1>8, <2>1 DEF Queues
<1> HIDE DEF R
<1>9. OnChannel(R)'
  <2>1. ASSUME PushedOf(q) < campaign.prefetch PROVE OnChannel(R)'
    <3>1. /\ pushed' = Append(pushed, q) /\ Len(pushed) = Len(P) /\ pushed \in Seq(Queues)
      BY <1>5, <1>7, <2>1, AmqpTypes
    <3>2. /\ Len(pushed') = Len(P) + 1 /\ pushed'[Len(P) + 1] = q
          /\ \A k \in 1 .. Len(P) : pushed'[k] = pushed[k]
      <4>1. /\ Len(Append(pushed, q)) = Len(pushed) + 1 /\ Append(pushed, q)[Len(pushed) + 1] = q
            /\ \A k \in 1 .. Len(pushed) : Append(pushed, q)[k] = pushed[k]
        BY <1>1, <3>1, AppendProperties
      <4> QED BY <3>1, <4>1, Zenon
    <3>3. \A k \in 1 .. Len(P) : k <= Len(pushed) /\ pushed[k] = Kind(P[k])
      BY <1>1, <3>1 DEF OnChannel
    <3>4. \A k \in 1 .. Len(P) + 1 : pushed'[k] = Kind(R[k])
      <4> TAKE k \in 1 .. Len(P) + 1
      <4>1. k \in 1 .. Len(P) \/ k = Len(P) + 1
        BY <1>1
      <4> QED BY <1>2, <3>2, <3>3, <4>1
    <3> QED BY <1>1, <1>2, <3>2, <3>4 DEF OnChannel, Kind
  <2>2. ASSUME ~(PushedOf(q) < campaign.prefetch) PROVE OnChannel(R)'
    <3>1. pushed' = pushed /\ q = "data"
      BY <1>5, <1>8, <2>2
    <3>2. \A k \in 1 .. Len(P) + 1 : /\ k <= Len(pushed) => pushed[k] = Kind(R[k])
                                     /\ k > Len(pushed) => Kind(R[k]) = "data"
      <4> TAKE k \in 1 .. Len(P) + 1
      <4>1. k \in 1 .. Len(P) \/ (k = Len(P) + 1 /\ k > Len(pushed))
        BY <1>1
      <4> QED BY <1>1, <1>2, <3>1, <4>1 DEF OnChannel
    <3>3. Len(pushed) <= Len(P) + 1
      BY <1>1
    <3> QED BY <1>2, <3>1, <3>2, <3>3 DEF OnChannel, Kind
  <2> QED BY <2>1, <2>2
<1>10. Waits'
  <2>1. \A r \in Queues : PushedOf(r) = Cardinality(Places(pushed, r))
    BY AmqpTypes
  <2>2. PushedOf("data")' = Cardinality(Places(pushed', "data"))
    BY DEF PushedOf, Places
  <2>3. pushed \in Seq(Queues) /\ data \in Seq(Chunks)
    BY AmqpTypes
  <2>4. CASE PushedOf(q) < campaign.prefetch
    <3>1. Len(data) <= PushedOf("data")
      <4>1. Len(pushed) = Len(P)
        BY <1>7, <2>4
      <4> QED BY <1>1, <1>6, <4>1, ChannelCounts
    <3>2. PushedOf("data")' = PushedOf("data") + (IF q = "data" THEN 1 ELSE 0)
      BY <1>1, <1>5, <2>1, <2>2, <2>3, <2>4, PlacesAppend DEF Queues
    <3>3. Len(data') = Len(data) + (IF q = "data" THEN 1 ELSE 0)
      <4>1. CASE q = "control"
        <5>1. data' = data
          BY <4>1 DEF Enqueue
        <5> QED BY <1>6, <4>1, <5>1
      <4>2. CASE q = "data"
        <5>1. data' = Append(data, Item(m))
          BY <4>2 DEF Enqueue
        <5> QED BY <2>3, <4>2, <5>1
      <4> QED BY <1>1, <4>1, <4>2 DEF Queues
    <3> QED BY <1>6, <3>1, <3>2, <3>3 DEF Waits
  <2>5. CASE ~(PushedOf(q) < campaign.prefetch)
    <3>1. pushed' = pushed /\ q = "data"
      BY <1>5, <1>8, <2>5
    <3>2. PushedOf("data")' = PushedOf("data")
      BY <2>1, <2>2, <3>1 DEF Queues
    <3> QED BY <1>6, <2>5, <3>1, <3>2 DEF Waits
  <2> QED BY <2>4, <2>5
<1> QED BY <1>2, <1>4, <1>9, <1>10 DEF Stream, R

\* An acknowledgement takes the first message from the stream.
LEMMA StreamShrinks ==
    ASSUME AmqpInv, AmqpInv', NEW P, Stream(P), Waits, BrokerAcked
    PROVE  P # <<>> /\ Stream(Tail(P))' /\ Waits'
<1> DEFINE q == Kind(P[1])
<1>1. /\ P \in Seq(Messages) /\ Split(P, Queued) /\ OnChannel(P)
      /\ Len(P) \in Nat /\ Len(pushed) \in Nat \ {0} /\ Len(pushed) <= Len(P)
      /\ handled \in Nat \ {0} /\ handled <= Len(pushed)
      /\ pushed \in Seq(Queues) /\ pushed # <<>> /\ campaign' = campaign
  <2>1. Len(pushed) \in Nat /\ handled \in Nat /\ handled <= Len(pushed) /\ handled > 0
    BY ChannelCounts, AmqpTypes DEF BrokerAcked
  <2>2. pushed # <<>>
    BY <2>1, AmqpTypes, EmptySeq
  <2> QED BY <2>1, <2>2, ChannelCounts, AmqpTypes DEF Stream, BrokerAcked, senderVars
<1>2. P # <<>> /\ 1 \in 1 .. Len(P) /\ 1 <= Len(pushed) /\ Len(P) \in Nat \ {0}
  BY <1>1, EmptySeq
<1>3. q = Head(pushed) /\ q \in Queues
  BY <1>1, <1>2, KindsType, HeadTailProperties DEF OnChannel
<1>4. /\ q = "control" => ctrl' = Tail(ctrl) /\ data' = data
      /\ q = "data" => data' = Tail(data) /\ ctrl' = ctrl
      /\ pushed' = IF Len(Queue(q)) > PushedOf(q) THEN Append(Tail(pushed), q) ELSE Tail(pushed)
  BY <1>3 DEF BrokerAcked
<1> HIDE DEF q
<1>5. Queued' = [Queued EXCEPT ![q] = Tail(Queued[q])]
  <2>1. Queued' = [r \in Queues |-> IF r = "control" THEN ctrl' ELSE data']
    BY DEF Queued, Queue
  <2>2. Queued = [r \in Queues |-> IF r = "control" THEN ctrl ELSE data]
    BY DEF Queued, Queue
  <2>3. CASE q = "control"
    BY <1>4, <2>1, <2>2, <2>3 DEF Queues
  <2>4. CASE q = "data"
    BY <1>4, <2>1, <2>2, <2>4 DEF Queues
  <2> QED BY <1>3, <2>3, <2>4 DEF Queues
<1>6. Split(Tail(P), Queued)'
  <2>1. Split(Tail(P), [Queued EXCEPT ![q] = Tail(Queued[q])])
    BY <1>1, <1>2, QueuedType, SplitTail DEF q
  <2>2. Split(Tail(P), Queued')
    BY <1>5, <2>1
  <2> QED BY <2>2 DEF Split, Kinds, Kind, Item
<1>7. /\ Tail(P) \in Seq(Messages) /\ Len(Tail(P)) = Len(P) - 1
      /\ \A k \in 1 .. Len(P) - 1 : Tail(P)[k] = P[k + 1]
  BY <1>1, <1>2, HeadTailProperties
<1>8. /\ Tail(pushed) \in Seq(Queues) /\ Len(Tail(pushed)) = Len(pushed) - 1
      /\ \A k \in 1 .. Len(pushed) - 1 : Tail(pushed)[k] = pushed[k + 1]
  BY <1>1, HeadTailProperties
<1>9. /\ PushedOf("control") = Len(ctrl)
      /\ Len(data) > PushedOf("data") => Len(pushed) < Len(P)
      /\ Len(data) \in Nat /\ PushedOf("data") \in Nat /\ campaign.prefetch \in Nat
      /\ Len(ctrl) \in Nat /\ data \in Seq(Chunks)
  BY ChannelCounts, AmqpTypes
<1>10. ASSUME Len(Queue(q)) > PushedOf(q)
       PROVE  q = "data" /\ Len(data) > PushedOf("data") /\ Len(pushed) < Len(P)
  <2>1. q # "control"
    BY <1>9, <1>10 DEF Queue
  <2>2. q = "data"
    BY <1>3, <2>1 DEF Queues
  <2> QED BY <1>9, <1>10, <2>2 DEF Queue
<1>11. OnChannel(Tail(P))'
  <2>1. ASSUME NEW k \in 1 .. Len(P) - 1
        PROVE  /\ k <= Len(pushed) - 1 => Tail(pushed)[k] = Kind(Tail(P)[k])
               /\ k > Len(pushed) - 1 => Kind(Tail(P)[k]) = "data"
    <3>1. /\ k + 1 \in 1 .. Len(P) /\ Tail(P)[k] = P[k + 1]
          /\ k <= Len(pushed) - 1 => k + 1 <= Len(pushed) /\ k \in 1 .. Len(pushed) - 1
          /\ k > Len(pushed) - 1 => k + 1 > Len(pushed)
      BY <1>1, <1>7
    <3> QED BY <1>1, <1>8, <3>1 DEF OnChannel
  <2>2. CASE Len(Queue(q)) > PushedOf(q)
    <3>1. q = "data" /\ Len(pushed) < Len(P) /\ pushed' = Append(Tail(pushed), q)
      BY <1>4, <1>10, <2>2
    <3>2. /\ Len(pushed') = Len(pushed) /\ pushed'[Len(pushed)] = q
          /\ \A k \in 1 .. Len(pushed) - 1 : pushed'[k] = Tail(pushed)[k]
      <4>1. /\ Len(pushed') = Len(Tail(pushed)) + 1 /\ pushed'[Len(Tail(pushed)) + 1] = q
            /\ \A k \in 1 .. Len(Tail(pushed)) : pushed'[k] = Tail(pushed)[k]
        BY <1>3, <1>8, <3>1, AppendProperties
      <4>2. Len(Tail(pushed)) + 1 = Len(pushed)
        BY <1>1, <1>8
      <4> QED BY <1>8, <4>1, <4>2
    <3>3. \A k \in 1 .. Len(P) - 1 : /\ k <= Len(pushed) => pushed'[k] = Kind(Tail(P)[k])
                                     /\ k > Len(pushed) => Kind(Tail(P)[k]) = "data"
      <4> TAKE k \in 1 .. Len(P) - 1
      <4>1. CASE k <= Len(pushed) - 1
        <5>1. k \in 1 .. Len(pushed) - 1 /\ ~(k > Len(pushed))
          BY <1>1, <4>1
        <5> QED BY <2>1, <3>2, <4>1, <5>1
      <4>2. CASE k = Len(pushed)
        <5>1. k > Len(pushed) - 1 /\ ~(k > Len(pushed))
          BY <1>1, <4>2
        <5> QED BY <2>1, <3>1, <3>2, <4>2, <5>1
      <4>3. CASE k > Len(pushed)
        <5>1. k > Len(pushed) - 1 /\ ~(k <= Len(pushed))
          BY <1>1, <4>3
        <5> QED BY <2>1, <5>1
      <4> QED BY <1>1, <4>1, <4>2, <4>3
    <3>4. Len(pushed) <= Len(P) - 1
      BY <1>1, <3>1
    <3> QED BY <1>7, <3>2, <3>3, <3>4 DEF OnChannel, Kind
  <2>3. CASE ~(Len(Queue(q)) > PushedOf(q))
    <3>1. pushed' = Tail(pushed) /\ Len(pushed) - 1 <= Len(P) - 1
      BY <1>1, <1>4, <2>3
    <3> QED BY <1>7, <1>8, <2>1, <3>1 DEF OnChannel, Kind
  <2> QED BY <2>2, <2>3
<1>12. Waits'
  <2>1. PushedOf("data") = Cardinality(Places(pushed, "data"))
    BY AmqpTypes DEF Queues
  <2>2. PushedOf("data")' = Cardinality(Places(pushed', "data"))
    BY DEF PushedOf, Places
  <2>3. /\ Cardinality(Places(Tail(pushed), "data"))
             = PushedOf("data") - (IF "data" = q THEN 1 ELSE 0)
        /\ Cardinality(Places(Tail(pushed), "data")) \in Nat
    BY <1>1, <1>3, <1>8, <2>1, PlacesTail, PlacesFinite DEF Queues
  <2>4. CASE Len(Queue(q)) > PushedOf(q)
    <3>1. q = "data" /\ Len(data) > PushedOf("data") /\ pushed' = Append(Tail(pushed), q)
      BY <1>4, <1>10, <2>4
    <3>2. PushedOf("data")' = Cardinality(Places(Tail(pushed), "data")) + 1
      BY <1>3, <1>8, <2>2, <3>1, PlacesAppend
    <3>3. PushedOf("data")' = PushedOf("data")
      BY <1>9, <2>3, <3>1, <3>2
    <3> QED BY <1>1, <1>9, <3>1, <3>3 DEF Waits
  <2>5. CASE ~(Len(Queue(q)) > PushedOf(q))
    <3>1. PushedOf("data")' = PushedOf("data") - (IF "data" = q THEN 1 ELSE 0)
      BY <1>4, <2>2, <2>3, <2>5
    <3>2. CASE q = "data"
      <4>1. Len(data) <= PushedOf("data")
        BY <1>9, <2>5, <3>2 DEF Queue
      <4>2. data # <<>>
        <5>1. PushedOf("data") # 0
          BY <1>9, <2>3, <3>2
        <5>2. PushedOf("data") <= Len(data)
          BY DEF AmqpInv, Window, Queues, Queue
        <5> QED BY <1>9, <5>1, <5>2, EmptySeq
      <4>3. Len(data') = Len(data) - 1
        BY <1>4, <1>9, <3>2, <4>2, HeadTailProperties
      <4> QED BY <1>9, <3>1, <3>2, <4>1, <4>3 DEF Waits
    <3>3. CASE q = "control"
      <4>1. data' = data /\ PushedOf("data")' = PushedOf("data")
        BY <1>4, <1>9, <3>1, <3>3
      <4> QED BY <1>1, <4>1 DEF Waits
    <3> QED BY <1>3, <3>2, <3>3 DEF Queues
  <2> QED BY <2>4, <2>5
<1> QED BY <1>2, <1>6, <1>7, <1>11, <1>12 DEF Stream

----------------------------------------------------------------------------
(* The stream is the campaign's messages, in their order *)

\* a message, or what stands for the one before the first
Labels == Messages \cup {<<NoTransfer, 0>>}

\* nothing of m's transfer is missing once m is handled
Completed(m) == m[1] \in failed \cup {NoTransfer} \/ m[2] = Announced(m[1])

\* n may be the next message after m: transfers come in their order, each is complete
\* before the next one unless a publish of it failed, and only a message of a failed
\* transfer may be without the ones before it.
Follows(m, n) ==
    /\ m[1] <= n[1]
    /\ \A s \in Transfers : m[1] < s /\ s < n[1] => s \in failed
    /\ m[1] < n[1] => Completed(m)
    /\ n[2] = 0 => m[1] < n[1]
    /\ n[2] # 0 /\ n[1] \notin failed => m = <<n[1], n[2] - 1>>

\* the last message that left the stream, then its members
Place(m, P, k) == IF k = 0 THEN m ELSE P[k]

InTurn(m, P) == \A k \in 1 .. Len(P) : Follows(Place(m, P, k - 1), P[k])

\* what the client publishes next
Upcoming == <<turn, IF pc = "chunks" THEN sent + 1 ELSE 0>>

\* m is the last message that the receiver has handled
Latest(m) ==
    /\ current <= m[1]
    /\ m[1] \notin failed => current = m[1] /\ received = m[2]
    /\ \A s \in Transfers : current <= s /\ s < m[1] => Done(s, failed)

\* The parts of a message are numbers.
LEMMA LabelParts ==
    /\ \A m \in Labels : m[1] \in Nat /\ m[2] \in Nat
    /\ Messages \subseteq Labels
    /\ Transfers \subseteq Nat /\ NoTransfer \notin Transfers
    /\ \A t \in Transfers : Announced(t) \in Nat
<1>1. Transfers \subseteq Nat /\ NoTransfer \notin Transfers /\ NoTransfer = 0
  BY FilePlan DEF Transfers, NoTransfer
<1>2. \A m \in Messages : m[1] \in Nat /\ m[2] \in Nat
  BY <1>1, MessageParts
<1>3. \A t \in Transfers : Announced(t) \in Nat
  BY FilePlan DEF Announced
<1> QED BY <1>1, <1>2, <1>3 DEF Labels

\* More failed transfers put no message out of its turn.
LEMMA StillInTurn ==
    ASSUME NEW m, NEW n, failed \subseteq failed'
    PROVE  /\ Follows(m, n) => Follows(m, n)'
           /\ Latest(m) /\ UNCHANGED receiverVars => Latest(m)'
<1>1. Follows(m, n) => Follows(m, n)'
  BY DEF Follows, Completed, Announced
<1>2. ASSUME Latest(m), UNCHANGED receiverVars PROVE Latest(m)'
  <2>1. current' = current /\ received' = received
    BY <1>2 DEF receiverVars
  <2> QED BY <1>2, <2>1 DEF Latest, Done, Announced
<1> QED BY <1>1, <1>2

\* A transfer that has failed goes on with its next message.
LEMMA FailedGoesOn ==
    ASSUME NEW m, NEW t \in Nat, NEW i \in Nat, Follows(m, <<t, i>>), failed \subseteq failed',
           t \in failed', m[1] \in Nat
    PROVE  Follows(m, <<t, i + 1>>)'
<1>1. i + 1 # 0
  OBVIOUS
<1> QED BY <1>1 DEF Follows, Completed, Announced

\* The next transfer begins when this one has failed or is complete.
LEMMA NextTransfer ==
    ASSUME NEW m \in Labels, NEW t \in Nat, NEW i \in Nat, Follows(m, <<t, i>>),
           failed \subseteq failed',
           t \in failed' \/ (t \in Transfers /\ i = Announced(t) + 1)
    PROVE  Follows(m, <<t + 1, 0>>)'
<1>1. m[1] \in Nat /\ m[2] \in Nat /\ Transfers \subseteq Nat /\ m[1] <= t /\ m[1] < t + 1
  BY LabelParts DEF Follows
<1>2. t \in failed' \/ m = <<t, Announced(t)>>
  <2> SUFFICES ASSUME t \in Transfers, i = Announced(t) + 1, t \notin failed'
               PROVE  m = <<t, Announced(t)>>
    OBVIOUS
  <2>1. Announced(t) \in Nat
    BY LabelParts
  <2>2. i # 0 /\ t \notin failed /\ i - 1 = Announced(t)
    BY <2>1
  <2>3. m = <<t, i - 1>>
    BY <2>2 DEF Follows
  <2> QED BY <2>2, <2>3
<1>3. ASSUME NEW s \in Transfers, m[1] < s, s < t + 1 PROVE s \in failed'
  <2>1. CASE s < t
    BY <1>3, <2>1 DEF Follows
  <2>2. CASE ~(s < t)
    <3>1. s = t /\ m[1] # t
      BY <1>1, <1>3, <2>2
    <3> QED BY <1>2, <3>1
  <2> QED BY <2>1, <2>2
<1>4. Completed(m)'
  <2>1. CASE m[1] = t
    BY <1>2, <2>1 DEF Completed, Announced
  <2>2. CASE m[1] # t
    <3>1. Completed(m)
      BY <1>1, <2>2 DEF Follows
    <3> QED BY <3>1 DEF Completed, Announced
  <2> QED BY <2>1, <2>2
<1> QED BY <1>1, <1>3, <1>4 DEF Follows

\* After a message its transfer goes on, or fails and the next one begins.
LEMMA AfterMessage ==
    ASSUME NEW t \in Nat, NEW i \in Nat
    PROVE  /\ Follows(<<t, i>>, <<t, i + 1>>)
           /\ t \in failed' => Follows(<<t, i>>, <<t + 1, 0>>)'
<1>1. \A s \in Transfers : ~(t < s /\ s < t) /\ ~(t < s /\ s < t + 1)
  BY LabelParts
<1>2. i + 1 # 0 /\ (i + 1) - 1 = i
  OBVIOUS
<1>3. Follows(<<t, i>>, <<t, i + 1>>)
  BY <1>1, <1>2 DEF Follows
<1>4. t \in failed' => Follows(<<t, i>>, <<t + 1, 0>>)'
  BY <1>1 DEF Follows, Completed
<1> QED BY <1>3, <1>4

\* One more message comes behind the last.
LEMMA PlaceAppend ==
    ASSUME NEW m, NEW P \in Seq(Messages), NEW n \in Messages,
           InTurn(m, P), Follows(Place(m, P, Len(P)), n)
    PROVE  /\ InTurn(m, Append(P, n))
           /\ Place(m, Append(P, n), Len(Append(P, n))) = n
           /\ \A k \in 0 .. Len(P) : Place(m, Append(P, n), k) = Place(m, P, k)
<1> DEFINE R == Append(P, n)
<1>1. /\ Len(P) \in Nat /\ Len(R) = Len(P) + 1 /\ R[Len(P) + 1] = n
      /\ \A k \in 1 .. Len(P) : R[k] = P[k]
  BY AppendProperties, LenProperties
<1> HIDE DEF R
<1>2. \A k \in 0 .. Len(P) : Place(m, R, k) = Place(m, P, k)
  <2> TAKE k \in 0 .. Len(P)
  <2>1. k = 0 \/ k \in 1 .. Len(P)
    BY <1>1
  <2> QED BY <1>1, <2>1 DEF Place
<1>3. InTurn(m, R)
  <2> SUFFICES ASSUME NEW k \in 1 .. Len(P) + 1 PROVE Follows(Place(m, R, k - 1), R[k])
    BY <1>1 DEF InTurn
  <2>1. k - 1 \in 0 .. Len(P)
    BY <1>1
  <2>2. CASE k = Len(P) + 1
    <3>1. k - 1 = Len(P)
      BY <1>1, <2>2
    <3> QED BY <1>1, <1>2, <2>1, <2>2, <3>1
  <2>3. CASE k # Len(P) + 1
    <3>1. k \in 1 .. Len(P)
      BY <1>1, <2>3
    <3> QED BY <1>1, <1>2, <2>1, <3>1 DEF InTurn
  <2> QED BY <2>2, <2>3
<1>4. Place(m, R, Len(R)) = n
  <2>1. Len(P) + 1 # 0
    BY <1>1
  <2> QED BY <1>1, <2>1 DEF Place
<1> QED BY <1>2, <1>3, <1>4 DEF R

\* Without its first message a stream is still in turn behind that message.
LEMMA PlaceTail ==
    ASSUME NEW m, NEW P \in Seq(Messages), P # <<>>, InTurn(m, P)
    PROVE  /\ InTurn(P[1], Tail(P)) /\ Len(Tail(P)) = Len(P) - 1 /\ P[1] \in Messages
           /\ Len(P) \in Nat \ {0}
           /\ \A k \in 0 .. Len(P) - 1 : Place(P[1], Tail(P), k) = Place(m, P, k + 1)
<1>1. /\ Len(P) \in Nat \ {0} /\ Len(Tail(P)) = Len(P) - 1
      /\ \A k \in 1 .. Len(P) - 1 : Tail(P)[k] = P[k + 1]
  BY HeadTailProperties, LenProperties, EmptySeq
<1>2. P[1] \in Messages
  BY <1>1, ElementOfSeq
<1>3. \A k \in 0 .. Len(P) - 1 : Place(P[1], Tail(P), k) = Place(m, P, k + 1)
  <2> TAKE k \in 0 .. Len(P) - 1
  <2>1. CASE k = 0
    BY <2>1 DEF Place
  <2>2. CASE k # 0
    <3>1. k \in 1 .. Len(P) - 1 /\ k + 1 # 0
      BY <1>1, <2>2
    <3> QED BY <1>1, <2>2, <3>1 DEF Place
  <2> QED BY <2>1, <2>2
<1>4. InTurn(P[1], Tail(P))
  <2> SUFFICES ASSUME NEW k \in 1 .. Len(P) - 1
               PROVE  Follows(Place(P[1], Tail(P), k - 1), Tail(P)[k])
    BY <1>1 DEF InTurn
  <2>1. k - 1 \in 0 .. Len(P) - 1 /\ (k - 1) + 1 = k /\ k + 1 \in 1 .. Len(P) /\ (k + 1) - 1 = k
    BY <1>1
  <2>2. Follows(Place(m, P, (k + 1) - 1), P[k + 1])
    BY <2>1 DEF InTurn
  <2> QED BY <1>1, <1>3, <2>1, <2>2
<1> QED BY <1>1, <1>2, <1>3, <1>4

----------------------------------------------------------------------------
(* The receiver handles the stream *)

\* What is done and has chunks is closed.
LEMMA DoneIsClosed ==
    ASSUME NEW X, Filling(X), current \in Transfers => Done(current, X),
           current \in Transfers \cup {NoTransfer},
           current \notin X, current \in Transfers => Announced(current) # 0
    PROVE  ~open
BY LabelParts DEF Filling, Done

\* Handling the next message leaves it the latest, and every transfer judged.
LEMMA HandlesInTurn ==
    ASSUME AmqpInv, Filling(failed), Judged(failed), failed' = failed,
           NEW m \in Labels, NEW n \in Messages, Latest(m), Follows(m, n),
           n[2] = 0 => OnControl(n[1]),
           n[2] # 0 => OnData(<<FileOf[n[1]], n[2]>>)
    PROVE  /\ Filling(failed)' /\ Judged(failed)' /\ Latest(n)'
           /\ n[2] # 0 /\ n[1] \notin failed => current = n[1]
           /\ n[2] = 0 => \A s \in Transfers : current <= s /\ s < n[1] => Done(s, failed)
<1>1. /\ m[1] \in Nat /\ m[2] \in Nat /\ n[1] \in Transfers /\ n[1] \in Nat
      /\ n[2] \in Nat /\ n[2] <= Announced(n[1]) /\ Announced(n[1]) \in Nat
      /\ Transfers \subseteq Nat /\ NoTransfer \notin Transfers
  BY LabelParts, MessageParts
<1>2. /\ current \in Transfers \cup {NoTransfer} /\ current \in Nat /\ received \in Nat
      /\ NoTransfer = 0
  BY <1>1 DEF AmqpInv, Inv, TypeOK, NoTransfer
<1>3. current <= n[1] /\ (n[2] = 0 => current < n[1])
  <2>1. current <= m[1] /\ m[1] <= n[1] /\ (n[2] = 0 => m[1] < n[1])
    BY DEF Latest, Follows
  <2>2. current \in Nat /\ m[1] \in Nat /\ n[1] \in Nat
    BY <1>1, <1>2
  <2> QED BY <2>1, <2>2
<1>4. ASSUME NEW s \in Transfers, current <= s, s < n[1], n[2] = 0 \/ s = current
      PROVE  Done(s, failed)
  <2>1. CASE s < m[1]
    BY <1>4, <2>1 DEF Latest
  <2>2. CASE s = m[1]
    <3>1. s \in failed \/ m[2] = Announced(s)
      BY <1>1, <1>4, <2>2 DEF Follows, Completed
    <3>2. s \notin failed => s = current /\ received = m[2]
      BY <2>2 DEF Latest
    <3> QED BY <3>1, <3>2 DEF Done
  <2>3. CASE m[1] < s
    <3>1. s \in failed
      BY <1>4, <2>3 DEF Follows
    <3> QED BY <3>1 DEF Done
  <2> QED BY <1>1, <2>1, <2>2, <2>3
<1>5. ASSUME n[2] = 0
      PROVE  /\ Filling(failed)' /\ Judged(failed)' /\ Latest(n)'
             /\ \A s \in Transfers : current <= s /\ s < n[1] => Done(s, failed)
  <2>1. current < n[1]
    BY <1>5, <1>3
  <2>2. OnControl(n[1]) /\ \A s \in Transfers : current <= s /\ s < n[1] => Done(s, failed)
    BY <1>4, <1>5
  <2>3. Filling(failed)' /\ Judged(failed)'
    BY <1>1, <2>1, <2>2, ControlJudges DEF AmqpInv
  <2>4. current' = n[1] /\ received' = 0
    BY <2>2 DEF OnControl
  <2>5. Latest(n)'
    <3>1. \A i, j \in Nat : ~(i <= j /\ j < i) /\ i <= i
      OBVIOUS
    <3>2. /\ \A s \in Transfers : ~(n[1] <= s /\ s < n[1])
          /\ n[1] <= n[1]
      BY <1>1, <3>1, Zenon
    <3> QED BY <1>5, <2>4, <3>2 DEF Latest
  <2> QED BY <2>2, <2>3, <2>5
<1>6. ASSUME n[2] # 0
      PROVE  /\ Filling(failed)' /\ Judged(failed)' /\ Latest(n)'
             /\ n[1] \notin failed => current = n[1]
  <2>1. ASSUME n[1] \notin failed
        PROVE  current = n[1] /\ received = n[2] - 1
    <3>1. m = <<n[1], n[2] - 1>>
      BY <1>6, <2>1 DEF Follows
    <3> QED BY <2>1, <3>1 DEF Latest
  <2>2. ASSUME current # n[1], current \notin failed,
               current \in Transfers => Announced(current) # 0
        PROVE  ~open
    <3>1. current < n[1]
      <4>1. n[1] \in Nat /\ current \in Nat
        BY <1>1, <1>2
      <4> QED BY <1>3, <2>2, <4>1
    <3>2. current \in Transfers => Done(current, failed)
      BY <1>2, <1>4, <3>1
    <3> QED BY <1>2, <2>2, <3>2, DoneIsClosed
  <2> DEFINE c == <<FileOf[n[1]], n[2]>>
  <2>3. OnData(c)
    BY <1>6
  <2>4. open /\ current \notin failed /\ Announced(current) # 0 =>
            c = <<FileOf[current], received + 1>>
    <3> SUFFICES ASSUME open, current \notin failed, Announced(current) # 0
                 PROVE  c = <<FileOf[current], received + 1>>
      OBVIOUS
    <3>1. current = n[1]
      BY <2>2
    <3>2. received + 1 = n[2]
      BY <1>1, <2>1, <3>1
    <3> QED BY <3>1, <3>2
  <2>5. /\ Filling(failed)' /\ Judged(failed)' /\ current' = current
        /\ received' = IF open THEN received + 1 ELSE received
    BY <2>3, <2>4, DataJudges DEF AmqpInv
  <2>6. Latest(n)'
    <3>1. current <= n[1]
      BY <1>3
    <3>2. ASSUME n[1] \notin failed PROVE received' = n[2]
      <4>1. received < Announced(current) /\ current # NoTransfer
        BY <1>1, <2>1, <3>2
      <4>2. open
        BY <4>1 DEF Filling
      <4> QED BY <1>1, <2>1, <2>5, <3>2, <4>2
    <3>3. ASSUME NEW s \in Transfers, current <= s, s < n[1] PROVE Done(s, failed)'
      <4>1. n[1] \in failed
        BY <1>1, <1>2, <2>1, <3>3
      <4>2. Done(s, failed)
        <5>1. CASE s = current
          BY <1>4, <3>3, <5>1
        <5>2. CASE s < m[1]
          BY <3>3, <5>2 DEF Latest
        <5>3. CASE s = m[1]
          <6>1. s \in failed \/ m[2] = Announced(s)
            BY <1>1, <3>3, <5>3 DEF Follows, Completed
          <6> QED BY <5>3, <6>1 DEF Latest, Done
        <5>4. CASE m[1] < s
          BY <3>3, <5>4 DEF Follows, Done
        <5> QED BY <1>1, <5>1, <5>2, <5>3, <5>4
      <4>3. CASE s # current \/ s \in failed \/ Announced(s) = 0
        BY <2>5, <4>2, <4>3 DEF Done, Announced
      <4>4. CASE s = current /\ s \notin failed /\ Announced(s) # 0
        <5>1. ~open
          BY <1>1, <1>2, <2>2, <3>3, <4>4
        <5>2. received' = received
          BY <2>5, <5>1
        <5> QED BY <2>5, <4>2, <4>4, <5>2 DEF Done, Announced
      <4> QED BY <4>3, <4>4
    <3> QED BY <2>1, <2>5, <3>1, <3>2, <3>3 DEF Latest
  <2> QED BY <2>1, <2>5, <2>6
<1> QED BY <1>5, <1>6

----------------------------------------------------------------------------
(* What an orderly campaign has published fits the window *)

\* the chunks of the campaign whose publication was tried
Tried == {b \in Backlog : b[1] < turn \/ (b[1] = turn /\ pc = "chunks" /\ b[2] <= sent)}

Fits ==
    /\ pc = "metadata" => sent = 0 /\ (campaign.overlap \/ Drained)
    /\ Len(ctrl) <= IF pc = "chunks" THEN turn ELSE turn - 1
    /\ Len(data) <= Cardinality(Tried)

\* A campaign has finitely many chunks, so the chunks tried can be counted.
LEMMA CountChunks ==
    ASSUME NEW B \in SUBSET Backlog, NEW A \in SUBSET B
    PROVE  /\ Cardinality(A) \in Nat /\ Cardinality(B) \in Nat
           /\ Cardinality(Backlog) \in Nat /\ Cardinality(B) <= Cardinality(Backlog)
           /\ Cardinality(A) <= Cardinality(B)
           /\ \A x \in B \ A : Cardinality(A) + 1 <= Cardinality(B)
<1> DEFINE Share(t) == {t} \X (1 .. NumChunks[FileOf[t]])
           shares == {Share(t) : t \in Transfers}
           share == [t \in Transfers |-> Share(t)]
<1>1. IsFiniteSet(Transfers)
  BY FilePlan, FS_Interval DEF Transfers
<1>2. share \in Surjection(Transfers, shares)
  BY DEF Surjection
<1>3. IsFiniteSet(shares)
  BY <1>1, <1>2, FS_Surjection
<1>4. \A T \in shares : IsFiniteSet(T)
  <2> SUFFICES ASSUME NEW t \in Transfers PROVE IsFiniteSet(Share(t))
    OBVIOUS
  <2>1. NumChunks[FileOf[t]] \in Nat
    BY FilePlan
  <2>2. IsFiniteSet({t}) /\ IsFiniteSet(1 .. NumChunks[FileOf[t]])
    <3>1. IsFiniteSet({t})
      BY FS_Singleton
    <3>2. 1 \in Int /\ NumChunks[FileOf[t]] \in Int
      BY <2>1
    <3> QED BY <3>1, <3>2, FS_Interval
  <2> QED BY <2>2, FS_Product
<1>5. IsFiniteSet(Backlog)
  <2>1. Backlog = UNION shares
    BY DEF Backlog
  <2> HIDE DEF shares
  <2> QED BY <1>3, <1>4, <2>1, FS_UNION
<1>6. IsFiniteSet(B) /\ Cardinality(B) <= Cardinality(Backlog)
  BY <1>5, FS_Subset
<1>7. IsFiniteSet(A) /\ Cardinality(A) <= Cardinality(B)
  BY <1>6, FS_Subset
<1>8. Cardinality(A) \in Nat /\ Cardinality(B) \in Nat /\ Cardinality(Backlog) \in Nat
  BY <1>5, <1>6, <1>7, FS_CardinalityType
<1>9. ASSUME NEW x \in B \ A PROVE Cardinality(A) + 1 <= Cardinality(B)
  <2>1. Cardinality(A \cup {x}) = Cardinality(A) + 1
    BY <1>7, <1>9, FS_AddElement
  <2>2. A \cup {x} \in SUBSET B
    BY <1>9
  <2>3. Cardinality(A \cup {x}) <= Cardinality(B)
    BY <1>6, <2>2, FS_Subset
  <2> QED BY <2>1, <2>3
<1> QED BY <1>6, <1>7, <1>8, <1>9

\* When metadata is published, the window has room for it and no chunk waits.
LEMMA RoomForMetadata ==
    ASSUME AmqpInv, Orderly, Waits, Fits, pc = "metadata", PushedOf("data") \in Nat
    PROVE  Len(ctrl) < campaign.prefetch /\ Len(data) <= PushedOf("data")
<1>1. /\ turn \in Transfers /\ turn \in Nat /\ turn <= NumTransfers /\ NumTransfers \in Nat
      /\ campaign.prefetch \in Nat \ {0} /\ Len(ctrl) \in Nat /\ Len(data) \in Nat
  BY FilePlan, AmqpTypes DEF AmqpInv, Accompanied, Transfers
<1>2. CASE campaign.overlap
  <2>1. NumTransfers <= campaign.prefetch /\ Cardinality(Backlog) <= campaign.prefetch
    BY <1>2 DEF Orderly
  <2>2. /\ Cardinality(Tried) \in Nat /\ Cardinality(Backlog) \in Nat
        /\ Cardinality(Tried) <= Cardinality(Backlog)
    <3>1. Tried \in SUBSET Backlog
      BY DEF Tried
    <3> HIDE DEF Tried
    <3> QED BY <3>1, CountChunks
  <2>3. Len(ctrl) <= turn - 1 /\ Len(data) <= Cardinality(Tried)
    BY DEF Fits
  <2>4. Len(ctrl) < campaign.prefetch
    BY <1>1, <2>1, <2>3
  <2>5. Len(data) <= campaign.prefetch
    BY <1>1, <2>1, <2>2, <2>3
  <2>6. Len(data) <= PushedOf("data")
    BY <1>1, <2>5 DEF Waits
  <2> QED BY <2>4, <2>6
<1>3. CASE ~campaign.overlap
  <2>1. Len(ctrl) = 0 /\ Len(data) = 0
    BY <1>3 DEF Fits, Drained
  <2> QED BY <1>1, <2>1
<1> QED BY <1>2, <1>3

\* The client publishes what comes next.
LEMMA ClientPublishes ==
    ASSUME AmqpInv, pc = "metadata" => sent = 0, NEW r \in Labels, Follows(r, Upcoming),
           NEW u, u = Upcoming,
           ClientStarts \/ PublishMetadata \/ PublishChunk \/ ConnectionLost \/ SenderFinishes
    PROVE  /\ failed \subseteq failed'
           /\ UNCHANGED <<receiverVars, campaign, handled, up, samplers>>
           /\ \/ UNCHANGED brokerVars /\ Follows(r, Upcoming)'
              \/ /\ u \in Messages /\ Enqueue(Kind(u), Item(u)) /\ Follows(u, Upcoming)'
                 /\ Kind(u) = "control" => pc = "metadata"
<1> DEFINE Goal == \/ UNCHANGED brokerVars /\ Follows(r, Upcoming)'
                   \/ /\ u \in Messages /\ Enqueue(Kind(u), Item(u)) /\ Follows(u, Upcoming)'
                      /\ Kind(u) = "control" => pc = "metadata"
<1>1. /\ failed \subseteq failed'
      /\ UNCHANGED <<receiverVars, campaign, handled, up, samplers>>
  BY DEF ClientStarts, PublishMetadata, PublishChunk, ConnectionLost, SenderFinishes
<1>2. turn \in Nat /\ sent \in Nat /\ r[1] \in Nat /\ (pc # "start" => turn \in Transfers)
  BY AmqpTypes, LabelParts DEF AmqpInv, Accompanied
<1>3. ASSUME ClientStarts PROVE Goal
  <2>1. Upcoming' = Upcoming /\ UNCHANGED brokerVars
    BY <1>3 DEF ClientStarts, Upcoming
  <2> QED BY <1>1, <2>1, StillInTurn
<1>4. ASSUME PublishedControl, pc = "metadata"
      PROVE  /\ u = <<turn, 0>> /\ u \in Messages /\ Enqueue(Kind(u), Item(u))
             /\ Kind(u) = "control"
  <2>1. u = <<turn, 0>> /\ Kind(u) = "control" /\ Item(u) = turn
    BY <1>4 DEF Upcoming, Kind, Item
  <2>2. Announced(turn) \in Nat /\ turn \in Transfers
    BY <1>2, <1>4, LabelParts
  <2>3. u \in Messages
    BY <2>1, <2>2 DEF Messages
  <2> QED BY <1>4, <2>1, <2>3 DEF PublishedControl
<1>5. ASSUME PublishedData, pc = "chunks", sent < NumChunks[FileOf[turn]]
      PROVE  /\ u = <<turn, sent + 1>> /\ u \in Messages /\ Enqueue(Kind(u), Item(u))
             /\ Kind(u) = "data"
  <2>1. u = <<turn, sent + 1>> /\ sent + 1 # 0
    BY <1>2, <1>5 DEF Upcoming
  <2>2. Kind(u) = "data" /\ Item(u) = <<FileOf[turn], sent + 1>>
    BY <2>1 DEF Kind, Item
  <2>3. Announced(turn) \in Nat /\ turn \in Transfers /\ sent + 1 \in 0 .. Announced(turn)
    BY <1>2, <1>5, LabelParts DEF Announced
  <2>4. u \in Messages
    BY <2>1, <2>3 DEF Messages
  <2> QED BY <1>5, <2>1, <2>2, <2>4 DEF PublishedData
<1>6. ASSUME PublishMetadata PROVE Goal
  <2>1. pc = "metadata" /\ pc' = "chunks" /\ turn' = turn /\ sent' = 0 /\ sent = 0
    BY <1>6 DEF PublishMetadata
  <2>2. Upcoming' = <<turn, 0 + 1>> /\ Upcoming = <<turn, 0>>
    BY <2>1 DEF Upcoming
  <2>3. CASE PublishedControl /\ failed' = failed
    <3>1. /\ u = <<turn, 0>> /\ u \in Messages /\ Enqueue(Kind(u), Item(u))
      BY <1>4, <2>1, <2>3
    <3>2. Follows(<<turn, 0>>, <<turn, 0 + 1>>)
      BY <1>2, AfterMessage
    <3>3. Follows(u, Upcoming')
      BY <2>2, <3>1, <3>2
    <3>4. Follows(u, Upcoming)'
      BY <1>1, <2>3, <3>3 DEF Follows, Completed, Announced
    <3> QED BY <2>1, <3>1, <3>4
  <2>4. CASE UNCHANGED brokerVars /\ failed' = failed \cup {turn}
    <3>1. PICK i \in Nat : i = 0
      OBVIOUS
    <3>2. PICK t \in Nat : t = turn
      BY <1>2
    <3>3. Follows(r, <<t, i>>) /\ t \in failed'
      BY <2>2, <2>4, <3>1, <3>2
    <3>4. Follows(r, <<t, i + 1>>)'
      BY <1>1, <1>2, <3>3, FailedGoesOn
    <3> QED BY <2>2, <2>4, <3>1, <3>2, <3>4
  <2> QED BY <1>6, <2>3, <2>4 DEF PublishMetadata
<1>7. ASSUME PublishChunk PROVE Goal
  <2>1. pc = "chunks" /\ pc' = "chunks" /\ turn' = turn /\ sent' = sent + 1
    BY <1>7 DEF PublishChunk
  <2>2. Upcoming' = <<turn, (sent + 1) + 1>> /\ Upcoming = <<turn, sent + 1>>
    BY <2>1 DEF Upcoming
  <2>3. CASE PublishedData /\ failed' = failed
    <3>1. /\ u = <<turn, sent + 1>> /\ u \in Messages /\ Enqueue(Kind(u), Item(u))
          /\ Kind(u) # "control"
      BY <1>5, <1>7, <2>1, <2>3 DEF PublishChunk
    <3>2. Follows(<<turn, sent + 1>>, <<turn, (sent + 1) + 1>>)
      <4>1. PICK i \in Nat : i = sent + 1
        BY <1>2
      <4>2. Follows(<<turn, i>>, <<turn, i + 1>>)
        BY <1>2, AfterMessage
      <4> QED BY <4>1, <4>2
    <3>3. Follows(u, Upcoming')
      BY <2>2, <3>1, <3>2
    <3>4. Follows(u, Upcoming)'
      BY <2>3, <3>3 DEF Follows, Completed, Announced
    <3> QED BY <3>1, <3>4
  <2>4. CASE UNCHANGED brokerVars /\ failed' = failed \cup {turn}
    <3>1. PICK i \in Nat : i = sent + 1
      BY <1>2
    <3>2. PICK t \in Nat : t = turn
      BY <1>2
    <3>3. Follows(r, <<t, i>>) /\ t \in failed'
      BY <2>2, <2>4, <3>1, <3>2
    <3>4. Follows(r, <<t, i + 1>>)'
      BY <1>1, <1>2, <3>3, FailedGoesOn
    <3> QED BY <2>2, <2>4, <3>1, <3>2, <3>4
  <2> QED BY <1>7, <2>3, <2>4 DEF PublishChunk
<1>8. ASSUME ConnectionLost PROVE Goal
  <2>1. /\ pc \in {"metadata", "chunks"} /\ pc' = "start" /\ turn' = turn + 1
        /\ failed' = failed \cup {turn}
        /\ \/ UNCHANGED brokerVars
           \/ pc = "metadata" /\ PublishedControl
           \/ pc = "chunks" /\ sent < NumChunks[FileOf[turn]] /\ PublishedData
    BY <1>8 DEF ConnectionLost
  <2>2. Upcoming' = <<turn + 1, 0>>
    BY <2>1 DEF Upcoming
  <2>3. PICK t \in Nat : t = turn
    BY <1>2
  <2>4. PICK i \in Nat : Upcoming = <<t, i>>
    BY <1>2, <2>3 DEF Upcoming
  <2>5. t \in failed'
    BY <2>1, <2>3
  <2>6. CASE UNCHANGED brokerVars
    <3>1. Follows(r, <<t, i>>)
      BY <2>4
    <3>2. Follows(r, <<t + 1, 0>>)'
      BY <1>1, <2>5, <3>1, NextTransfer
    <3> QED BY <2>2, <2>3, <2>6, <3>2
  <2>7. CASE u \in Messages /\ Enqueue(Kind(u), Item(u)) /\ (Kind(u) = "control" => pc = "metadata")
    <3>1. Follows(<<t, i>>, <<t + 1, 0>>)'
      BY <2>5, AfterMessage
    <3> QED BY <2>2, <2>3, <2>4, <2>7, <3>1
  <2>8. ASSUME pc = "metadata" /\ PublishedControl
        PROVE  /\ u \in Messages /\ Enqueue(Kind(u), Item(u))
               /\ Kind(u) = "control" => pc = "metadata"
    BY <1>4, <2>8
  <2>9. ASSUME pc = "chunks" /\ sent < NumChunks[FileOf[turn]] /\ PublishedData
        PROVE  /\ u \in Messages /\ Enqueue(Kind(u), Item(u))
               /\ Kind(u) = "control" => pc = "metadata"
    BY <1>5, <2>9
  <2> QED BY <2>1, <2>6, <2>7, <2>8, <2>9
<1>9. ASSUME SenderFinishes PROVE Goal
  <2>1. /\ pc = "chunks" /\ pc' = "start" /\ turn' = turn + 1 /\ sent = Announced(turn)
        /\ UNCHANGED brokerVars
    BY <1>9 DEF SenderFinishes, Announced
  <2>2. Upcoming' = <<turn + 1, 0>> /\ Upcoming = <<turn, sent + 1>>
    BY <2>1 DEF Upcoming
  <2>3. PICK t \in Nat : t = turn
    BY <1>2
  <2>4. PICK i \in Nat : i = sent + 1
    BY <1>2
  <2>5. Follows(r, <<t, i>>) /\ t \in Transfers /\ i = Announced(t) + 1
    BY <1>2, <2>1, <2>2, <2>3, <2>4
  <2>6. Follows(r, <<t + 1, 0>>)'
    BY <1>1, <2>5, NextTransfer
  <2> QED BY <2>1, <2>2, <2>3, <2>6
<1> QED BY <1>1, <1>3, <1>6, <1>7, <1>8, <1>9

\* What the client publishes is counted.
LEMMA FitsClient ==
    ASSUME AmqpInv, Fits,
           ClientStarts \/ PublishMetadata \/ PublishChunk \/ ConnectionLost \/ SenderFinishes
    PROVE  Fits'
<1>1. /\ turn \in Nat /\ sent \in Nat /\ Len(ctrl) \in Nat /\ Len(data) \in Nat
      /\ ctrl \in Seq(Transfers) /\ data \in Seq(Chunks) /\ (pc # "start" => turn \in Transfers)
  BY AmqpTypes DEF AmqpInv, Accompanied
<1>2. Tried \in SUBSET Backlog /\ Tried' \in SUBSET Backlog
  BY DEF Tried, Backlog
<1>3. /\ Cardinality(Tried) \in Nat /\ Len(data) <= Cardinality(Tried)
      /\ Len(ctrl) <= IF pc = "chunks" THEN turn ELSE turn - 1
  BY <1>2, CountChunks DEF Fits
<1>4. ASSUME Tried \subseteq Tried'
      PROVE  /\ Cardinality(Tried') \in Nat /\ Cardinality(Tried) <= Cardinality(Tried')
             /\ \A x \in Tried' \ Tried : Cardinality(Tried) + 1 <= Cardinality(Tried')
  <2>1. Tried \in SUBSET Tried'
    BY <1>4
  <2> HIDE DEF Tried
  <2> QED BY <1>2, <2>1, CountChunks
<1>5. \A b \in Backlog : b[1] \in Nat /\ b[2] \in Nat
  <2> SUFFICES ASSUME NEW t \in Transfers, NEW b \in {t} \X (1 .. NumChunks[FileOf[t]])
               PROVE  b[1] \in Nat /\ b[2] \in Nat
    BY DEF Backlog
  <2>1. NumChunks[FileOf[t]] \in Nat /\ t \in Nat
    BY FilePlan, LabelParts
  <2> QED BY <2>1
<1>6. ASSUME PublishedControl
      PROVE  Len(ctrl') = Len(ctrl) + 1 /\ data' = data
  BY <1>1, <1>6 DEF PublishedControl, Enqueue
<1>7. ASSUME PublishedData
      PROVE  Len(data') = Len(data) + 1 /\ ctrl' = ctrl
  BY <1>1, <1>7 DEF PublishedData, Enqueue
<1>8. ASSUME ClientStarts PROVE Fits'
  <2>1. /\ pc = "start" /\ pc' = "metadata" /\ sent' = 0 /\ UNCHANGED <<turn, campaign, ctrl, data>>
        /\ campaign.overlap \/ Drained
    BY <1>8 DEF ClientStarts, brokerVars
  <2>2. Tried \subseteq Tried'
    BY <2>1 DEF Tried, Backlog
  <2>3. Len(data') <= Cardinality(Tried')
    BY <1>1, <1>3, <1>4, <2>1, <2>2
  <2> QED BY <1>3, <2>1, <2>3 DEF Fits, Drained
<1>9. ASSUME PublishMetadata PROVE Fits'
  <2>1. /\ pc = "metadata" /\ pc' = "chunks" /\ UNCHANGED turn
        /\ PublishedControl \/ UNCHANGED brokerVars
    BY <1>9 DEF PublishMetadata
  <2>2. Tried \subseteq Tried'
    BY <2>1 DEF Tried, Backlog
  <2>3. data' = data /\ Len(ctrl') <= Len(ctrl) + 1
    BY <1>1, <1>6, <2>1 DEF brokerVars
  <2>4. Len(data') <= Cardinality(Tried')
    BY <1>1, <1>3, <1>4, <2>2, <2>3
  <2>5. Len(ctrl') <= turn /\ Len(ctrl) <= turn - 1
    <3>1. Len(ctrl) <= turn - 1 /\ Len(ctrl') \in Nat
      BY <1>1, <1>3, <1>6, <2>1 DEF brokerVars
    <3> QED BY <1>1, <2>3, <3>1
  <2> QED BY <2>1, <2>4, <2>5 DEF Fits
<1>10. ASSUME PublishChunk PROVE Fits'
  <2>1. /\ pc = "chunks" /\ pc' = "chunks" /\ UNCHANGED turn /\ sent' = sent + 1
        /\ sent < NumChunks[FileOf[turn]]
        /\ PublishedData \/ UNCHANGED brokerVars
    BY <1>10 DEF PublishChunk
  <2>2. Tried \subseteq Tried'
    <3> SUFFICES ASSUME NEW b \in Backlog, b[1] < turn \/ (b[1] = turn /\ b[2] <= sent)
                 PROVE  b[1] < turn \/ (b[1] = turn /\ b[2] <= sent + 1)
      BY <2>1 DEF Tried, Backlog
    <3> QED BY <1>1, <1>5
  <2>3. <<turn, sent + 1>> \in Tried' \ Tried
    <3>1. NumChunks[FileOf[turn]] \in Nat /\ turn \in Transfers
      BY <1>1, <2>1, FilePlan
    <3>2. sent + 1 \in 1 .. NumChunks[FileOf[turn]]
      BY <1>1, <2>1, <3>1
    <3>3. <<turn, sent + 1>> \in Backlog
      BY <3>1, <3>2 DEF Backlog
    <3>4. ~(turn < turn) /\ ~(sent + 1 <= sent) /\ sent + 1 <= sent + 1
      BY <1>1
    <3> QED BY <2>1, <3>3, <3>4 DEF Tried, Backlog
  <2>4. Cardinality(Tried) + 1 <= Cardinality(Tried') /\ Cardinality(Tried') \in Nat
    BY <1>4, <2>2, <2>3
  <2>5. ctrl' = ctrl /\ Len(data') <= Len(data) + 1 /\ Len(data') \in Nat
    BY <1>1, <1>7, <2>1 DEF brokerVars
  <2>6. Len(data') <= Cardinality(Tried')
    BY <1>1, <1>3, <2>4, <2>5
  <2> QED BY <1>3, <2>1, <2>5, <2>6 DEF Fits
<1>11. ASSUME turn' = turn + 1, pc' = "start", pc # "start" PROVE Tried \subseteq Tried'
  <2> SUFFICES ASSUME NEW b \in Backlog, b[1] <= turn PROVE b[1] < turn + 1
    BY <1>1, <1>5, <1>11 DEF Tried, Backlog
  <2> QED BY <1>1, <1>5
<1>12. ASSUME ConnectionLost PROVE Fits'
  <2>1. /\ pc \in {"metadata", "chunks"} /\ pc' = "start" /\ turn' = turn + 1
        /\ \/ UNCHANGED brokerVars
           \/ pc = "metadata" /\ PublishedControl
           \/ pc = "chunks" /\ PublishedData /\ sent < NumChunks[FileOf[turn]]
    BY <1>12 DEF ConnectionLost
  <2>2. Tried \subseteq Tried'
    BY <1>11, <2>1
  <2>3. ASSUME NEW x, x = <<turn, sent + 1>>, PublishedData, pc = "chunks",
               sent < NumChunks[FileOf[turn]]
        PROVE  x \in Tried' \ Tried
    <3>1. NumChunks[FileOf[turn]] \in Nat /\ turn \in Transfers
      BY <1>1, <2>3, FilePlan
    <3>2. sent + 1 \in 1 .. NumChunks[FileOf[turn]]
      BY <1>1, <2>3, <3>1
    <3>3. x \in Backlog
      BY <2>3, <3>1, <3>2 DEF Backlog
    <3>4. ~(turn < turn) /\ ~(sent + 1 <= sent) /\ turn < turn + 1
      BY <1>1
    <3> QED BY <2>1, <2>3, <3>3, <3>4 DEF Tried, Backlog
  <2>4. Len(ctrl') <= turn /\ Len(data') <= Cardinality(Tried')
    <3>1. CASE UNCHANGED brokerVars
      <4>1. ctrl' = ctrl /\ data' = data
        BY <3>1 DEF brokerVars
      <4> QED BY <1>1, <1>3, <1>4, <2>2, <4>1
    <3>2. CASE pc = "metadata" /\ PublishedControl
      <4>1. Len(ctrl') = Len(ctrl) + 1 /\ data' = data /\ Len(ctrl) <= turn - 1
        BY <1>3, <1>6, <3>2
      <4> QED BY <1>1, <1>3, <1>4, <2>2, <4>1
    <3>3. CASE pc = "chunks" /\ PublishedData /\ sent < NumChunks[FileOf[turn]]
      <4>1. Len(data') = Len(data) + 1 /\ ctrl' = ctrl /\ Len(ctrl) <= turn
        BY <1>3, <1>7, <3>3
      <4>2. Cardinality(Tried) + 1 <= Cardinality(Tried') /\ Cardinality(Tried') \in Nat
        BY <1>4, <2>2, <2>3, <3>3
      <4> QED BY <1>1, <1>3, <4>1, <4>2
    <3> QED BY <2>1, <3>1, <3>2, <3>3
  <2> QED BY <1>1, <2>1, <2>4 DEF Fits
<1>13. ASSUME SenderFinishes PROVE Fits'
  <2>1. /\ pc = "chunks" /\ pc' = "start" /\ turn' = turn + 1 /\ ctrl' = ctrl /\ data' = data
    BY <1>13 DEF SenderFinishes, brokerVars
  <2>2. Len(data') <= Cardinality(Tried')
    BY <1>1, <1>3, <1>4, <1>11, <2>1
  <2>3. Len(ctrl') <= turn
    BY <1>3, <2>1
  <2> QED BY <1>1, <2>1, <2>2, <2>3 DEF Fits
<1> QED BY <1>8, <1>9, <1>10, <1>12, <1>13

\* An acknowledgement leaves less to count.
LEMMA FitsAck ==
    ASSUME AmqpInv, Fits, BrokerAcked
    PROVE  Fits'
<1> DEFINE q == Head(pushed)
<1>1. /\ pushed \in Seq(Queues) /\ pushed # <<>> /\ q \in Queues
      /\ Tail(pushed) \in Seq(Queues)
  <2>1. pushed \in Seq(Queues) /\ Len(pushed) # 0
    BY AmqpTypes, LenProperties DEF BrokerAcked
  <2> QED BY <2>1, HeadTailProperties, EmptySeq
<1>2. Cardinality(Places(pushed, q)) \in Nat \ {0}
  <2>1. /\ Cardinality(Places(Tail(pushed), q)) = Cardinality(Places(pushed, q)) - 1
        /\ Cardinality(Places(Tail(pushed), q)) \in Nat /\ Cardinality(Places(pushed, q)) \in Nat
    BY <1>1, PlacesTail, PlacesFinite
  <2> QED BY <2>1
<1>3. /\ q = "control" => ctrl' = Tail(ctrl) /\ data' = data
      /\ q = "data" => data' = Tail(data) /\ ctrl' = ctrl
      /\ UNCHANGED <<campaign, turn, pc, sent>>
  BY DEF BrokerAcked, senderVars
<1>4. PushedOf(q) = Cardinality(Places(pushed, q)) /\ PushedOf(q) <= Len(Queue(q))
  BY <1>1, AmqpTypes DEF AmqpInv, Window
<1> HIDE DEF q
<1>5. /\ q = "control" => ctrl # <<>>
      /\ q = "data" => data # <<>>
      /\ ctrl \in Seq(Transfers) /\ data \in Seq(Chunks)
      /\ Len(ctrl) \in Nat /\ Len(data) \in Nat
  <2>1. ctrl \in Seq(Transfers) /\ data \in Seq(Chunks) /\ Len(ctrl) \in Nat /\ Len(data) \in Nat
    BY AmqpTypes
  <2>2. Queue(q) # <<>>
    <3>1. Len(Queue(q)) # 0
      BY <1>1, <1>2, <1>4, <2>1 DEF Queue, Queues
    <3> QED BY <3>1
  <2> QED BY <2>1, <2>2 DEF Queue
<1>6. /\ ~Drained
      /\ Len(ctrl') \in Nat /\ Len(ctrl') <= Len(ctrl)
      /\ Len(data') \in Nat /\ Len(data') <= Len(data)
  <2>1. CASE q = "control"
    <3>1. Len(Tail(ctrl)) = Len(ctrl) - 1 /\ Len(ctrl) # 0 /\ ctrl' = Tail(ctrl) /\ data' = data
      BY <1>3, <1>5, <2>1, HeadTailProperties, EmptySeq
    <3> QED BY <1>5, <2>1, <3>1 DEF Drained
  <2>2. CASE q = "data"
    <3>1. Len(Tail(data)) = Len(data) - 1 /\ Len(data) # 0 /\ data' = Tail(data) /\ ctrl' = ctrl
      BY <1>3, <1>5, <2>2, HeadTailProperties, EmptySeq
    <3> QED BY <1>5, <2>2, <3>1 DEF Drained
  <2> QED BY <1>1, <2>1, <2>2 DEF Queues
<1>7. Tried' = Tried /\ Cardinality(Tried) \in Nat
  <2>1. Tried \in SUBSET Backlog /\ Tried' = Tried
    BY <1>3 DEF Tried, Backlog
  <2> HIDE DEF Tried
  <2> QED BY <2>1, CountChunks
<1>8. turn \in Nat
  BY AmqpTypes
<1>9. Len(ctrl') <= (IF pc = "chunks" THEN turn ELSE turn - 1) /\ Len(data') <= Cardinality(Tried)
  <2>1. Len(ctrl) <= (IF pc = "chunks" THEN turn ELSE turn - 1) /\ Len(data) <= Cardinality(Tried)
    BY DEF Fits
  <2> QED BY <1>5, <1>6, <1>7, <1>8, <2>1
<1> QED BY <1>3, <1>6, <1>7, <1>9 DEF Fits

----------------------------------------------------------------------------
(* The invariant of an orderly campaign *)

OneStream ==
    \E m \in Labels, P \in Seq(Messages) :
        /\ Stream(P) /\ InTurn(m, P)
        /\ Follows(Place(m, P, Len(P)), Upcoming)
        /\ Latest(Place(m, P, handled))

\* while no publish failed, no chunk goes astray and a sampler runs for the open file
Undisturbed ==
    failed = {} =>
        /\ OwnChunks
        /\ (\A t \in Transfers : Announced(t) > 0) => samplers = (IF open THEN 1 ELSE 0)

CampaignInv ==
    Orderly => /\ up /\ Waits /\ Fits
               /\ Filling(failed) /\ Judged(failed) /\ Undisturbed /\ OneStream

\* The places of a stream hold labels.
LEMMA PlaceType ==
    ASSUME NEW m \in Labels, NEW P \in Seq(Messages), NEW k \in 0 .. Len(P)
    PROVE  Place(m, P, k) \in Labels /\ Len(P) \in Nat
<1>1. Len(P) \in Nat
  BY LenProperties
<1>2. CASE k = 0
  BY <1>1, <1>2 DEF Place
<1>3. CASE k # 0
  <2>1. k \in 1 .. Len(P)
    BY <1>1, <1>3
  <2> QED BY <1>1, <1>3, <2>1, ElementOfSeq DEF Place, Labels
<1> QED BY <1>2, <1>3

\* The empty stream of a campaign that has not begun.
LEMMA CampaignInit == ASSUME Init, AmqpInv PROVE CampaignInv
<1> SUFFICES ASSUME Orderly
             PROVE  /\ up /\ Waits /\ Fits
                    /\ Filling(failed) /\ Judged(failed) /\ Undisturbed /\ OneStream
  BY DEF CampaignInv
<1>1. /\ up = TRUE /\ turn = 1 /\ pc = "start" /\ sent = 0 /\ ctrl = <<>> /\ data = <<>>
      /\ pushed = <<>> /\ handled = 0 /\ samplers = 0 /\ failed = {}
      /\ current = NoTransfer /\ open = FALSE /\ received = 0 /\ buffered = <<>>
      /\ disk = [f \in Files |-> <<>>]
  BY DEF Init, ReceiverInit
<1>2. Filling(failed) /\ Judged(failed)
  BY NothingJudged DEF Init
<1>3. \A q \in Queues : Places(<<>>, q) = {} /\ Cardinality(Places(<<>>, q)) = 0
  BY FS_EmptySet DEF Places
<1>4. Waits
  <2>1. PushedOf("data") = 0 /\ Len(data) = 0
    BY <1>1, <1>3 DEF PushedOf, Places, Queues
  <2> QED BY <2>1 DEF Waits
<1>5. Fits
  <2>1. Tried \in SUBSET Backlog
    BY DEF Tried
  <2>2. Cardinality(Tried) \in Nat
    <3> HIDE DEF Tried
    <3> QED BY <2>1, CountChunks
  <2>3. Len(ctrl) = 0 /\ Len(data) = 0
    BY <1>1
  <2> QED BY <1>1, <2>2, <2>3 DEF Fits
<1>6. Undisturbed
  <2>1. \A f \in Files : disk[f] = <<>>
    BY <1>1
  <2> QED BY <1>1, <2>1 DEF Undisturbed, OwnChunks, OfFile
<1>7. OneStream
  <2> DEFINE m == <<NoTransfer, 0>>
  <2>1. m \in Labels /\ <<>> \in Seq(Messages) /\ Len(<<>>) = 0
    BY DEF Labels
  <2>2. Kinds(<<>>) = <<>>
    <3>1. <<>> \in Seq(Messages)
      OBVIOUS
    <3>2. Kinds(<<>>) \in Seq(Queues) /\ Len(Kinds(<<>>)) = 0
      BY <3>1, KindsType
    <3> QED BY <3>2, EmptySeq
  <2>3. Stream(<<>>)
    <3>1. \A q \in Queues : Len(Queued[q]) = 0
      BY <1>1 DEF Queued, Queue
    <3>2. Split(<<>>, Queued)
      BY <1>3, <2>1, <2>2, <3>1 DEF Split
    <3>3. OnChannel(<<>>)
      BY <1>1, <2>1 DEF OnChannel
    <3> QED BY <2>1, <3>2, <3>3 DEF Stream
  <2>4. InTurn(m, <<>>)
    BY <2>1 DEF InTurn
  <2>5. Place(m, <<>>, 0) = m
    BY DEF Place
  <2>6. Follows(m, Upcoming)
    <3>1. Upcoming = <<1, 0>>
      BY <1>1 DEF Upcoming
    <3>2. \A s \in Transfers : ~(0 < s /\ s < 1)
      BY LabelParts
    <3> QED BY <3>1, <3>2 DEF Follows, Completed, NoTransfer
  <2>7. Latest(m)
    <3>1. \A s \in Transfers : ~(NoTransfer <= s /\ s < NoTransfer)
      BY LabelParts DEF NoTransfer
    <3>2. NoTransfer <= NoTransfer
      BY DEF NoTransfer
    <3> QED BY <1>1, <3>1, <3>2 DEF Latest
  <2> QED BY <1>1, <2>1, <2>3, <2>4, <2>5, <2>6, <2>7 DEF OneStream
<1> QED BY <1>1, <1>2, <1>4, <1>5, <1>6, <1>7

\* A client's step adds at most the next message to the stream.
LEMMA CampaignClient ==
    ASSUME AmqpInv, AmqpInv', CampaignInv,
           ClientStarts \/ PublishMetadata \/ PublishChunk \/ ConnectionLost \/ SenderFinishes
    PROVE  CampaignInv'
<1>1. campaign' = campaign
  BY DEF ClientStarts, PublishMetadata, PublishChunk, ConnectionLost, SenderFinishes
<1> SUFFICES ASSUME Orderly
             PROVE  /\ up' /\ Waits' /\ Fits'
                    /\ Filling(failed)' /\ Judged(failed)' /\ Undisturbed' /\ OneStream'
  BY <1>1 DEF CampaignInv, Orderly, Backlog
<1>2. /\ up /\ Waits /\ Fits /\ Filling(failed) /\ Judged(failed) /\ Undisturbed /\ OneStream
  BY DEF CampaignInv
<1>3. PICK m \in Labels, P \in Seq(Messages) :
         /\ Stream(P) /\ InTurn(m, P)
         /\ Follows(Place(m, P, Len(P)), Upcoming)
         /\ Latest(Place(m, P, handled))
  BY <1>2 DEF OneStream
<1>4. /\ Len(P) \in Nat /\ PushedOf("data") \in Nat /\ handled \in 0 .. Len(P)
      /\ Place(m, P, Len(P)) \in Labels
  <2>1. /\ Len(P) \in Nat /\ Len(pushed) \in Nat /\ Len(pushed) <= Len(P) /\ handled \in Nat
        /\ handled <= Len(pushed) /\ PushedOf("data") \in Nat
    BY <1>3, ChannelCounts, AmqpTypes
  <2>2. Len(P) \in 0 .. Len(P)
    BY <2>1
  <2> QED BY <2>1, <2>2, PlaceType
<1>5. PICK u : u = Upcoming
  OBVIOUS
<1>6. PICK r \in Labels : r = Place(m, P, Len(P))
  BY <1>4
<1>7. pc = "metadata" => sent = 0
  BY <1>2 DEF Fits
<1>8. /\ failed \subseteq failed'
      /\ UNCHANGED <<receiverVars, campaign, handled, up, samplers>>
      /\ \/ UNCHANGED brokerVars /\ Follows(r, Upcoming)'
         \/ /\ u \in Messages /\ Enqueue(Kind(u), Item(u)) /\ Follows(u, Upcoming)'
            /\ Kind(u) = "control" => pc = "metadata"
  BY <1>3, <1>5, <1>6, <1>7, ClientPublishes
<1>9. Filling(failed)' /\ Judged(failed)'
  BY <1>2, <1>8, StillJudged
<1>10. Undisturbed'
  BY <1>2, <1>8 DEF Undisturbed, receiverVars, OwnChunks, OfFile, Announced
<1>11. Fits'
  BY <1>2, FitsClient
<1>12. PICK h \in 0 .. Len(P) : h = handled
  BY <1>4
<1>13. PICK n : n = Place(m, P, h)
  OBVIOUS
<1>14. Latest(n)' /\ handled' = h
  BY <1>3, <1>8, <1>12, <1>13, StillInTurn
<1>15. ASSUME InTurn(m, P) PROVE InTurn(m, P)'
  BY <1>8, <1>15 DEF InTurn, Follows, Completed, Announced, Place
<1>16. CASE UNCHANGED brokerVars /\ Follows(r, Upcoming)'
  <2>1. Stream(P)' /\ Waits'
    <3>1. UNCHANGED <<ctrl, data, pushed, campaign>>
      BY <1>8, <1>16 DEF brokerVars
    <3>2. Queued' = Queued /\ PushedOf("data")' = PushedOf("data")
      BY <3>1 DEF Queued, Queue, PushedOf
    <3> QED BY <1>2, <1>3, <3>1, <3>2 DEF Stream, Split, OnChannel, Waits, Kinds, Kind, Item
  <2>2. OneStream'
    BY <1>3, <1>6, <1>13, <1>14, <1>15, <1>16, <2>1 DEF OneStream, Place
  <2> QED BY <1>2, <1>8, <1>9, <1>10, <1>11, <2>1, <2>2
<1>17. CASE /\ u \in Messages /\ Enqueue(Kind(u), Item(u)) /\ Follows(u, Upcoming)'
            /\ Kind(u) = "control" => pc = "metadata"
  <2>1. Kind(u) = "control" => Len(ctrl) < campaign.prefetch /\ Len(data) <= PushedOf("data")
    BY <1>2, <1>4, <1>17, RoomForMetadata
  <2>2. Stream(Append(P, u))' /\ Waits'
    BY <1>1, <1>2, <1>3, <1>17, <2>1, StreamGrows
  <2>3. /\ InTurn(m, Append(P, u))
        /\ Place(m, Append(P, u), Len(Append(P, u))) = u
        /\ Place(m, Append(P, u), h) = n
    BY <1>3, <1>5, <1>12, <1>13, <1>17, PlaceAppend
  <2>4. InTurn(m, Append(P, u))'
    BY <1>8, <2>3 DEF InTurn, Follows, Completed, Announced, Place
  <2>5. Append(P, u) \in Seq(Messages)
    BY <1>17, AppendProperties
  <2>6. OneStream'
    <3>1. PICK R \in Seq(Messages) : R = Append(P, u)
      BY <2>5
    <3>2. /\ Stream(R)' /\ InTurn(m, R)' /\ Place(m, R, Len(R)) = u /\ Place(m, R, h) = n
      BY <2>2, <2>3, <2>4, <3>1
    <3>3. Follows(Place(m, R, Len(R)), Upcoming)'
      BY <1>17, <3>2 DEF Place
    <3>4. Latest(Place(m, R, handled))'
      BY <1>14, <3>2 DEF Place
    <3> QED BY <3>2, <3>3, <3>4 DEF OneStream
  <2> QED BY <1>2, <1>8, <1>9, <1>10, <1>11, <2>2, <2>6
<1> QED BY <1>8, <1>16, <1>17

\* An acknowledgement takes a handled message from the stream.
LEMMA CampaignAck ==
    ASSUME AmqpInv, AmqpInv', CampaignInv, BrokerAcked
    PROVE  CampaignInv'
<1>1. UNCHANGED <<receiverVars, campaign, turn, pc, sent, failed, up, samplers>>
      /\ handled' = handled - 1
  BY DEF BrokerAcked, senderVars
<1> SUFFICES ASSUME Orderly
             PROVE  /\ up' /\ Waits' /\ Fits'
                    /\ Filling(failed)' /\ Judged(failed)' /\ Undisturbed' /\ OneStream'
  BY <1>1 DEF CampaignInv, Orderly, Backlog
<1>2. /\ up /\ Waits /\ Fits /\ Filling(failed) /\ Judged(failed) /\ Undisturbed /\ OneStream
  BY DEF CampaignInv
<1>3. PICK m \in Labels, P \in Seq(Messages) :
         /\ Stream(P) /\ InTurn(m, P)
         /\ Follows(Place(m, P, Len(P)), Upcoming)
         /\ Latest(Place(m, P, handled))
  BY <1>2 DEF OneStream
<1>4. P # <<>> /\ Stream(Tail(P))' /\ Waits'
  BY <1>2, <1>3, StreamShrinks
<1>5. /\ InTurn(P[1], Tail(P)) /\ Len(Tail(P)) = Len(P) - 1 /\ P[1] \in Labels
      /\ Len(P) \in Nat \ {0} /\ Tail(P) \in Seq(Messages)
      /\ \A k \in 0 .. Len(P) - 1 : Place(P[1], Tail(P), k) = Place(m, P, k + 1)
  BY <1>3, <1>4, PlaceTail, LabelParts, HeadTailProperties
<1>6. Filling(failed)' /\ Judged(failed)' /\ Undisturbed'
  BY <1>1, <1>2 DEF receiverVars, Filling, Judged, JudgedRightly, Behind, RowsOf, Announced,
                    Undisturbed, OwnChunks, OfFile
<1>7. Fits'
  BY <1>2, FitsAck
<1>8. handled - 1 \in 0 .. Len(P) - 1 /\ (handled - 1) + 1 = handled
  <2>1. /\ handled \in Nat /\ handled > 0 /\ handled <= Len(pushed) /\ Len(pushed) \in Nat
        /\ Len(pushed) <= Len(P) /\ Len(P) \in Nat
    BY <1>3, ChannelCounts, AmqpTypes DEF BrokerAcked
  <2> QED BY <2>1
<1>9. OneStream'
  <2>1. PICK l \in Labels : l = P[1]
    BY <1>5
  <2>2. PICK R \in Seq(Messages) : R = Tail(P)
    BY <1>5
  <2>3. PICK h : h = handled - 1
    OBVIOUS
  <2>4. Stream(R)' /\ InTurn(l, R)
    BY <1>4, <1>5, <2>1, <2>2
  <2>5. InTurn(l, R)'
    BY <1>1, <2>4 DEF InTurn, Follows, Completed, Announced, Place
  <2>6. Place(l, R, Len(R)) = Place(m, P, Len(P)) /\ Place(l, R, h) = Place(m, P, handled)
    <3>1. Len(R) \in 0 .. Len(P) - 1 /\ Len(R) + 1 = Len(P)
      BY <1>5, <2>2
    <3> QED BY <1>5, <1>8, <2>1, <2>2, <2>3, <3>1
  <2>7. Follows(Place(l, R, Len(R)), Upcoming)'
    <3>1. PICK n : n = Place(l, R, Len(R))
      OBVIOUS
    <3>2. Follows(n, Upcoming) /\ Upcoming' = Upcoming
      BY <1>1, <1>3, <2>6, <3>1 DEF Upcoming
    <3>3. Follows(n, Upcoming)'
      BY <1>1, <3>2 DEF Follows, Completed, Announced
    <3> QED BY <3>1, <3>3 DEF Place
  <2>8. Latest(Place(l, R, handled))'
    <3>1. PICK n : n = Place(l, R, h)
      OBVIOUS
    <3>2. Latest(n)
      BY <1>3, <2>6, <3>1
    <3>3. Latest(n)'
      BY <1>1, <3>2, StillInTurn
    <3> QED BY <1>1, <2>3, <3>1, <3>3 DEF Place
  <2> QED BY <2>4, <2>5, <2>7, <2>8 DEF OneStream
<1> QED BY <1>1, <1>2, <1>4, <1>6, <1>7, <1>9

\* The receiver handles the next message of the stream.
LEMMA CampaignHandles ==
    ASSUME AmqpInv, AmqpInv', CampaignInv, HandleControl \/ HandleData
    PROVE  CampaignInv'
<1>1. /\ UNCHANGED <<campaign, turn, pc, sent, failed, ctrl, data, pushed, up>>
      /\ handled' = handled + 1 /\ handled < Len(pushed)
  BY DEF HandleControl, HandleData, senderVars, brokerVars
<1> SUFFICES ASSUME Orderly
             PROVE  /\ up' /\ Waits' /\ Fits'
                    /\ Filling(failed)' /\ Judged(failed)' /\ Undisturbed' /\ OneStream'
  BY <1>1 DEF CampaignInv, Orderly, Backlog
<1>2. /\ up /\ Waits /\ Fits /\ Filling(failed) /\ Judged(failed) /\ Undisturbed /\ OneStream
  BY DEF CampaignInv
<1>3. PICK m \in Labels, P \in Seq(Messages) :
         /\ Stream(P) /\ InTurn(m, P)
         /\ Follows(Place(m, P, Len(P)), Upcoming)
         /\ Latest(Place(m, P, handled))
  BY <1>2 DEF OneStream
<1>4. /\ handled + 1 \in 1 .. Len(P) /\ P[handled + 1] \in Messages
      /\ NextQueue = Kind(P[handled + 1]) /\ NextMessage = Item(P[handled + 1])
  BY <1>1, <1>3, NextOfStream
<1>5. PICK h \in 0 .. Len(P) : h = handled
  <2>1. handled \in Nat /\ Len(P) \in Nat
    BY <1>3, AmqpTypes, ChannelCounts
  <2> QED BY <1>4, <2>1
<1>6. PICK l \in Labels : l = Place(m, P, h)
  BY PlaceType
<1>7. PICK n \in Messages : n = P[handled + 1]
  BY <1>4
<1>8. Latest(l) /\ Follows(l, n)
  <2>1. (handled + 1) - 1 = h
    BY <1>5
  <2>2. Follows(Place(m, P, (handled + 1) - 1), P[handled + 1])
    BY <1>3, <1>4 DEF InTurn
  <2> QED BY <1>3, <1>5, <1>6, <1>7, <2>1, <2>2
<1>9. /\ HandleControl => n[2] = 0 /\ OnControl(n[1]) /\ samplers' = samplers + 1
      /\ HandleData => /\ n[2] # 0
                       /\ \/ /\ DropChunk \/ StoreChunk(<<FileOf[n[1]], n[2]>>)
                             /\ samplers' = samplers
                          \/ /\ CompleteTransfer(<<FileOf[n[1]], n[2]>>)
                             /\ samplers' = samplers - 1
  BY <1>4, <1>7 DEF HandleControl, HandleData, Kind, Item
<1>10. /\ n[2] = 0 => OnControl(n[1])
       /\ n[2] # 0 => OnData(<<FileOf[n[1]], n[2]>>)
  BY <1>9 DEF OnData
<1>11. /\ Filling(failed)' /\ Judged(failed)' /\ Latest(n)'
       /\ n[2] # 0 /\ n[1] \notin failed => current = n[1]
       /\ n[2] = 0 => \A s \in Transfers : current <= s /\ s < n[1] => Done(s, failed)
  BY <1>1, <1>2, <1>8, <1>10, HandlesInTurn
<1>12. Waits' /\ Stream(P)'
  <2>1. Queued' = Queued /\ PushedOf("data")' = PushedOf("data")
    BY <1>1 DEF Queued, Queue, PushedOf
  <2> QED BY <1>1, <1>2, <1>3, <2>1 DEF Stream, Split, OnChannel, Waits, Kinds, Kind, Item
<1>13. Fits'
  BY <1>1, <1>2 DEF Fits, Drained, Tried, Backlog
<1>14. OneStream'
  <2>1. InTurn(m, P)'
    BY <1>1, <1>3 DEF InTurn, Follows, Completed, Announced, Place
  <2>2. Follows(Place(m, P, Len(P)), Upcoming)'
    <3>1. PICK r : r = Place(m, P, Len(P))
      OBVIOUS
    <3>2. Follows(r, Upcoming) /\ Upcoming' = Upcoming
      BY <1>1, <1>3, <3>1 DEF Upcoming
    <3>3. Follows(r, Upcoming)'
      BY <1>1, <3>2 DEF Follows, Completed, Announced
    <3> QED BY <3>1, <3>3 DEF Place
  <2>3. Latest(Place(m, P, handled))'
    <3>1. handled' # 0 /\ P[handled'] = n
      BY <1>1, <1>4, <1>7
    <3> QED BY <1>11, <3>1 DEF Place
  <2> QED BY <1>12, <2>1, <2>2, <2>3 DEF OneStream
<1>15. Undisturbed'
  <2> SUFFICES ASSUME failed = {}
               PROVE  /\ OwnChunks'
                      /\ (\A t \in Transfers : Announced(t) > 0) =>
                            samplers' = (IF open' THEN 1 ELSE 0)
    BY <1>1 DEF Undisturbed, Announced
  <2>1. /\ OwnChunks
        /\ (\A t \in Transfers : Announced(t) > 0) => samplers = (IF open THEN 1 ELSE 0)
    BY <1>2 DEF Undisturbed
  <2>2. n[1] \in Transfers /\ (n[2] # 0 => <<FileOf[n[1]], n[2]>> \in Chunks)
    BY MessageParts
  <2>3. CASE HandleControl
    <3>1. n[2] = 0 /\ OnControl(n[1]) /\ samplers' = samplers + 1 /\ open' = TRUE
      BY <1>9, <2>3 DEF OnControl
    <3>2. OwnChunks'
      BY <2>1, <2>2, <3>1, OwnControl DEF AmqpInv
    <3>3. ASSUME \A t \in Transfers : Announced(t) > 0 PROVE samplers' = 1
      <4>1. current < n[1]
        <5>1. current <= l[1] /\ l[1] < n[1]
          BY <1>8, <3>1 DEF Latest, Follows
        <5>2. current \in Nat /\ l[1] \in Nat /\ n[1] \in Nat
          BY <2>2, LabelParts DEF AmqpInv, Inv, TypeOK, NoTransfer
        <5> QED BY <5>1, <5>2
      <4>2. current \in Transfers \cup {NoTransfer} /\ current \in Nat
        BY LabelParts DEF AmqpInv, Inv, TypeOK, NoTransfer
      <4>3. current \in Transfers => Done(current, failed)
        BY <1>11, <3>1, <4>1, <4>2
      <4>4. current \in Transfers => Announced(current) # 0
        BY <3>3, LabelParts
      <4>5. ~open
        BY <1>2, <4>2, <4>3, <4>4, DoneIsClosed
      <4> QED BY <2>1, <3>1, <3>3, <4>5
    <3> QED BY <3>1, <3>2, <3>3
  <2>4. CASE HandleData
    <3>1. n[2] # 0 /\ current = n[1]
      BY <1>9, <1>11, <2>4
    <3>2. OwnChunks'
      <4>1. PICK c \in Chunks : c = <<FileOf[n[1]], n[2]>>
        BY <2>2, <3>1
      <4>2. OnData(c) /\ (open => c[1] = FileOf[current])
        BY <1>10, <3>1, <4>1
      <4> QED BY <2>1, <4>2, OwnData DEF AmqpInv
    <3>3. ASSUME \A t \in Transfers : Announced(t) > 0
          PROVE  samplers' = (IF open' THEN 1 ELSE 0)
      <4>1. samplers = (IF open THEN 1 ELSE 0)
        BY <2>1, <3>3
      <4>2. CASE DropChunk /\ samplers' = samplers
        BY <4>1, <4>2 DEF DropChunk, receiverVars
      <4>3. CASE StoreChunk(<<FileOf[n[1]], n[2]>>) /\ samplers' = samplers
        BY <4>1, <4>3 DEF StoreChunk
      <4>4. CASE CompleteTransfer(<<FileOf[n[1]], n[2]>>) /\ samplers' = samplers - 1
        BY <4>1, <4>4 DEF CompleteTransfer
      <4> QED BY <1>9, <2>4, <4>2, <4>3, <4>4
    <3> QED BY <3>2, <3>3
  <2> QED BY <2>3, <2>4
<1> QED BY <1>1, <1>2, <1>11, <1>12, <1>13, <1>14, <1>15

\* Every step of an orderly campaign keeps one stream.
LEMMA CampaignNext == ASSUME AmqpInv, AmqpInv', CampaignInv, [Next]_vars PROVE CampaignInv'
<1>1. ASSUME ReceiverDies \/ ReceiverComesBack PROVE CampaignInv'
  <2>1. campaign' = campaign
    BY <1>1 DEF ReceiverDies, ReceiverComesBack, senderVars
  <2>2. ~Orderly
    BY <1>1 DEF ReceiverDies, ReceiverComesBack, Fault, Orderly, CampaignInv
  <2> QED BY <2>1, <2>2 DEF CampaignInv, Orderly, Backlog
<1>2. ASSUME Finished \/ UNCHANGED vars PROVE CampaignInv'
  <2>1. UNCHANGED vars
    BY <1>2 DEF Finished
  <2>2. /\ UNCHANGED <<disk, current, open, received, buffered, rows, warning>>
        /\ UNCHANGED <<campaign, turn, pc, sent, failed, ctrl, data, pushed, handled, up, samplers>>
    BY <2>1 DEF vars, receiverVars, senderVars, brokerVars
  <2>3. /\ Orderly' = Orderly /\ up' = up /\ Waits' = Waits /\ Fits' = Fits
        /\ Filling(failed)' = Filling(failed) /\ Judged(failed)' = Judged(failed)
        /\ Undisturbed' = Undisturbed
    BY <2>2 DEF Orderly, Backlog, Waits, Fits, Tried, Drained, PushedOf, Filling, Judged,
                JudgedRightly, Behind, RowsOf, Announced, Undisturbed, OwnChunks, OfFile
  <2>4. ASSUME OneStream PROVE OneStream'
    <3>1. PICK m \in Labels, P \in Seq(Messages) :
             /\ Stream(P) /\ InTurn(m, P)
             /\ Follows(Place(m, P, Len(P)), Upcoming)
             /\ Latest(Place(m, P, handled))
      BY <2>4 DEF OneStream
    <3>2. Stream(P)'
      <4>1. Queued' = Queued
        BY <2>2 DEF Queued, Queue
      <4> QED BY <2>2, <3>1, <4>1 DEF Stream, Split, OnChannel, Kinds, Kind, Item
    <3>3. InTurn(m, P)'
      BY <2>2, <3>1 DEF InTurn, Follows, Completed, Announced, Place
    <3>4. PICK r, h : r = Place(m, P, Len(P)) /\ h = Place(m, P, handled)
      OBVIOUS
    <3>5. Follows(r, Upcoming)' /\ Latest(h)'
      BY <2>2, <3>1, <3>4 DEF Follows, Completed, Announced, Upcoming, Latest, Done
    <3>6. Follows(Place(m, P, Len(P)), Upcoming)' /\ Latest(Place(m, P, handled))'
      BY <2>2, <3>4, <3>5 DEF Place
    <3> QED BY <3>1, <3>2, <3>3, <3>6 DEF OneStream
  <2> QED BY <2>3, <2>4 DEF CampaignInv
<1> QED
  BY <1>1, <1>2, CampaignClient, CampaignAck, CampaignHandles DEF Next, Sender, Receiver

\* The invariant holds in every reachable state.
THEOREM CampaignInvariant == Spec => []CampaignInv
<1>1. Init => CampaignInv
  BY AmqpInit, CampaignInit
<1>2. AmqpInv /\ AmqpInv' /\ CampaignInv /\ [Next]_vars => CampaignInv'
  BY CampaignNext
<1> QED BY <1>1, <1>2, AmqpInvariant, PTL DEF Spec

\* ConfirmedTransferJudged: in an orderly campaign every transfer with chunks, all of
\* whose publishes were confirmed, gets exactly one receiver row, and the row tells
\* the truth unless the hash was taken of a buffered tail.
THEOREM ConfirmedTransferJudgedHolds == Spec => []ConfirmedTransferJudged
<1>1. ASSUME AmqpInv, CampaignInv PROVE ConfirmedTransferJudged
  <2> SUFFICES ASSUME Orderly, Quiescent, NEW t \in Judgeable
               PROVE  /\ Cardinality(RowsOf(t)) = 1
                      /\ \A i \in RowsOf(t) : rows[i].ok <=> FileOf[t] \notin SmallTail
    BY DEF ConfirmedTransferJudged
  <2>1. Filling(failed) /\ Judged(failed) /\ OneStream
    BY <1>1 DEF CampaignInv
  <2>2. PICK m \in Labels, P \in Seq(Messages) :
           /\ Stream(P) /\ InTurn(m, P)
           /\ Follows(Place(m, P, Len(P)), Upcoming)
           /\ Latest(Place(m, P, handled))
    BY <2>1 DEF OneStream
  <2>3. Len(P) = 0 /\ handled = 0
    <3>1. Len(data) = 0 /\ Len(ctrl) = 0
      BY DEF Quiescent, Drained
    <3>2. /\ PushedOf("data") \in Nat /\ Len(pushed) \in Nat /\ handled \in Nat
          /\ handled <= Len(pushed) /\ pushed \in Seq(Queues) /\ DOMAIN pushed = 1 .. Len(pushed)
          /\ Len(data) <= PushedOf("data") => Len(pushed) = Len(P)
      BY <1>1, <2>2, ChannelCounts, AmqpTypes
    <3>3. Len(pushed) = 0
      <4>1. \A q \in Queues : Places(pushed, q) = {}
        <5> TAKE q \in Queues
        <5>1. PushedOf(q) <= Len(Queue(q)) /\ PushedOf(q) = Cardinality(Places(pushed, q))
          BY <1>1, AmqpTypes DEF AmqpInv, Window
        <5>2. Len(Queue(q)) = 0
          BY <3>1 DEF Queue
        <5>3. IsFiniteSet(Places(pushed, q)) /\ Cardinality(Places(pushed, q)) \in Nat
          BY <3>2, PlacesFinite
        <5>4. Cardinality(Places(pushed, q)) = 0
          BY <5>1, <5>2, <5>3
        <5> QED BY <5>3, <5>4, FS_EmptySet
      <4>2. ASSUME Len(pushed) # 0 PROVE FALSE
        <5>1. 1 \in DOMAIN pushed /\ pushed[1] \in Queues
          BY <3>2, <4>2, ElementOfSeq
        <5> QED BY <4>1, <5>1 DEF Places
      <4> QED BY <4>2
    <3>4. Len(data) <= PushedOf("data")
      BY <3>1, <3>2
    <3> QED BY <3>2, <3>3, <3>4
  <2>4. Follows(m, Upcoming) /\ Latest(m)
    BY <2>2, <2>3 DEF Place
  <2>5. /\ turn \in Nat /\ t < turn /\ Upcoming = <<turn, 0>> /\ m[1] \in Nat /\ t \in Nat
        /\ t \in Transfers /\ t \notin failed /\ Announced(t) # 0 /\ t # NoTransfer
    <3>1. t \in Transfers /\ t \notin failed /\ Announced(t) > 0 /\ Announced(t) \in Nat
      BY LabelParts DEF Judgeable, Announced
    <3>2. turn \in Nat /\ turn > NumTransfers /\ NumTransfers \in Nat /\ m[1] \in Nat
      BY <1>1, AmqpTypes, FilePlan, LabelParts DEF Quiescent
    <3>3. t < turn /\ t \in Nat /\ turn \notin Transfers /\ t # NoTransfer
      BY <3>1, <3>2 DEF Transfers, NoTransfer
    <3>4. pc = "start"
      BY <1>1, <3>3 DEF AmqpInv, Accompanied
    <3> QED BY <3>1, <3>2, <3>3, <3>4 DEF Upcoming
  <2>6. Behind(t)
    <3>0. current \in Nat
      BY <1>1, LabelParts DEF AmqpInv, Inv, TypeOK, NoTransfer
    <3>1. ~(m[1] < t)
      BY <2>4, <2>5 DEF Follows
    <3>2. CASE t < current
      BY <3>2 DEF Behind
    <3>3. CASE current <= t
      <4>1. t = current /\ received = Announced(t)
        <5>1. CASE t < m[1]
          BY <2>4, <2>5, <3>3, <5>1 DEF Latest, Done
        <5>2. CASE t = m[1]
          <6>1. m[2] = Announced(t)
            BY <2>4, <2>5, <5>2 DEF Follows, Completed
          <6> QED BY <2>4, <2>5, <5>2, <6>1 DEF Latest
        <5> QED BY <2>5, <3>1, <5>1, <5>2
      <4>2. ~open
        <5>1. Announced(t) \in Nat
          BY <2>5, LabelParts
        <5> QED BY <2>1, <2>5, <4>1, <5>1 DEF Filling
      <4> QED BY <4>1, <4>2 DEF Behind
    <3> QED BY <2>5, <3>0, <3>2, <3>3
  <2>7. PICK i \in DOMAIN rows : RowsOf(t) = {i} /\ (rows[i].ok <=> FileOf[t] \notin SmallTail)
    BY <2>1, <2>5, <2>6 DEF Judged, JudgedRightly
  <2> QED BY <2>7, FS_Singleton
<1> QED BY <1>1, AmqpInvariant, CampaignInvariant, PTL

\* OneTransferInFlight: in an orderly campaign without failed publishes the receiver
\* writes every chunk to the file it belongs to, and if no file is empty it runs
\* one sampler while a file is open and none when it is closed.
THEOREM OneTransferInFlightHolds == Spec => []OneTransferInFlight
<1>1. ASSUME CampaignInv PROVE OneTransferInFlight
  BY <1>1 DEF CampaignInv, Undisturbed, OwnChunks, OfFile, OneTransferInFlight, Announced
<1> QED BY <1>1, CampaignInvariant, PTL
=============================================================================
