------------------------- MODULE DirectUploadProofs -------------------------
(***************************************************************************)
(* Proofs about DirectUpload, for any number of transfers, files, blocks,   *)
(* attempts, repeats, message IDs and faults.                               *)
(*                                                                         *)
(* First the service: Base says what there is of a transfer and when,       *)
(* FilesKept what the names show, and OkInv that no client is told ok of a  *)
(* file that is then written again for the same transfer.  Its core is a    *)
(* count: each attempt leaves at most one message behind, and as long as a  *)
(* file has as many blocks as there are attempts these late messages do not *)
(* make a file.                                                             *)
(*                                                                         *)
(* Then the capture: what PcapAnalyzer computes is a sum over a bag, so it  *)
(* is proved how its sums change with one frame more, and every copy of a   *)
(* message is accounted for: captured, under way, lost or dropped.          *)
(***************************************************************************)
EXTENDS DirectUpload, FiniteSetTheorems, WellFoundedInduction, TLAPS

----------------------------------------------------------------------------
(* The inductive invariant *)

IdsOf(answers) == {a.id : a \in answers}
Codes == {"content", "continue", "incomplete", "changed", "error"}
Frames == [src : {"client", "server"}, type : {"con", "ack", "tcp"}, mid : Nat,
           len : Nat, flagged : BOOLEAN]

\* what is under way, answered and captured
DataOK ==
    /\ protocol \in {"http", "coap"} /\ alive \in BOOLEAN
    /\ {exchange, sent, assembled} \subseteq Nat
    /\ IsFiniteSet(DOMAIN up) /\ IsFiniteSet(DOMAIN pcap)
    /\ DOMAIN up \subseteq [id : 1 .. sent, block : Nat]
    /\ history \subseteq [id : 1 .. sent, code : Codes]
    /\ DOMAIN down \subseteq history
    /\ DOMAIN pcap \subseteq Frames

\* before a transfer begins nothing of it is there, and HTTP has no messages
Fresh ==
    /\ pc = "idle" =>
        /\ up = EmptyBag /\ down = EmptyBag /\ pcap = EmptyBag
        /\ history = {} /\ assembled = 0 /\ tally = NoTally
        /\ attempt = 0 /\ exchange = 0 /\ sent = 0
    /\ protocol = "http" =>
        up = EmptyBag /\ down = EmptyBag /\ history = {} /\ pc # "probe"
    /\ protocol = "coap" =>
        pc # "raised" /\ (pc \in {"probe", "put", "returned"} => sent > 0)

\* how far the handlers and the rows of the transfers can be
Progress ==
    /\ \A t \in Transfers :
        /\ t > turn \/ (t = turn /\ pc = "idle") => handler[t] = "none"
        /\ row[t] # "none" => t < turn \/ (t = turn /\ pc = "returned")
        /\ protocol = "coap" => handler[t] \in {"none", "open", "ended"}
        /\ protocol = "http" /\ row[t] # "none" => handler[t] = "ended"
        /\ handler[t] = "reading" => t = turn /\ pc = "put"
    /\ protocol = "coap" =>
        /\ \A s, t \in Transfers : handler[s] = "open" /\ handler[t] = "open" => s = t
        /\ turn \in Transfers /\ handler[turn] = "open" => serving \in 1 .. sent

Base == TypeOK /\ DataOK /\ Fresh /\ Progress

\* the handler of some transfer is writing f
BeingWritten(f) == \E s \in Transfers : FileOf[s] = f /\ handler[s] = "open"

\* the transfers whose file has been opened by their handler
HasBegun(t) ==
    \/ row[t] = "ok" \/ handler[t] \in {"open", "written"}
    \/ t = turn /\ \E a \in history : a.code = "changed"

\* only a file that is being written is cut, and every file begun is there
FilesKept ==
    /\ alive => \A f \in Files : file[f] = "cut" => BeingWritten(f)
    /\ \A t \in Transfers : HasBegun(t) => file[FileOf[t]] # "none"

\* messages of earlier attempts that the server has yet to see
Late == {m.id : m \in {n \in DOMAIN up : n.block > 0}} \ ({sent} \cup IdsOf(history))

\* the server has put the file together from the client's last message, and will
\* say so or has said so
Settled ==
    /\ turn \in Transfers
    /\ \/ [id |-> sent, code |-> "changed"] \in history
       \/ handler[turn] = "open" /\ serving = sent

\* the attempts of a client, the blocks it asks about and the answers it had
Attempts ==
    protocol = "coap" =>
        /\ pc \in {"idle", "probe"} => attempt = 0
        /\ pc \in {"put", "returned"} => attempt > 0
        /\ attempt = 0 <=> exchange = 0
        /\ attempt = 0 => /\ \A m \in DOMAIN up : m.block = 0
                          /\ \A a \in history : a.code = "content"
                          /\ turn \in Transfers => handler[turn] # "open"
        /\ attempt > 0 => /\ \A m \in DOMAIN up : m.id = sent => m.block > 0
                          /\ \A a \in history : a.code = "content" => a.id < sent

\* an attempt leaves at most one message behind
FewLate ==
    protocol = "coap" =>
        Cardinality(Late) <= attempt /\ (attempt > 0 => Cardinality(Late) < attempt)

\* what is late does not suffice to put the file together once more
NotAgain ==
    protocol = "coap" /\ alive /\ Settled => Cardinality(Late) + assembled < Last

\* a client is told ok, or will be, of a file that is whole or being replaced
OkIsSound ==
    /\ protocol = "coap" /\ turn \in Transfers =>
        /\ [id |-> sent, code |-> "changed"] \in history =>
            handler[turn] # "open" /\ file[FileOf[turn]] = "whole"
        /\ alive /\ row[turn] = "ok" => Settled /\ handler[turn] # "open"
    /\ protocol = "http" => \A t \in Transfers :
        handler[t] = "written" =>
            file[FileOf[t]] = "whole" \/ opener[FileOf[t]] # t

LongFiles == \A f \in Files : Blocks[f] >= MaxAttempts

----------------------------------------------------------------------------
(* Bags *)

\* One copy more of x, which keeps the copies of the others.
LEMMA AddFacts ==
    ASSUME NEW B, IsABag(B), NEW x
    PROVE  /\ IsABag(BagAdd(B, x))
           /\ DOMAIN BagAdd(B, x) = DOMAIN B \cup {x}
           /\ BagAdd(B, x)[x] = 1 + (IF x \in DOMAIN B THEN B[x] ELSE 0)
           /\ \A y \in DOMAIN B : y # x => BagAdd(B, x)[y] = B[y]
<1>1. CASE x \in DOMAIN B
  <2>1. DOMAIN B = DOMAIN B \cup {x}
    BY <1>1
  <2>2. BagAdd(B, x) = [e \in DOMAIN B |-> IF e = x THEN B[e] + 1 ELSE B[e]]
    BY <1>1 DEF BagAdd
  <2>3. \A e \in DOMAIN B : B[e] \in Nat /\ B[e] > 0
    BY DEF IsABag
  <2>4. DOMAIN BagAdd(B, x) = DOMAIN B
    BY <2>2
  <2>5. BagAdd(B, x) \in [DOMAIN B -> {n \in Nat : n > 0}]
    BY <2>2, <2>3
  <2>6. IsABag(BagAdd(B, x))
    BY <2>4, <2>5 DEF IsABag
  <2> QED BY <1>1, <2>1, <2>2, <2>3, <2>4, <2>6
<1>2. CASE x \notin DOMAIN B
  BY <1>2 DEF BagAdd, IsABag
<1> QED BY <1>1, <1>2

\* A copy more leaves a bag a bag, whatever the element.
LEMMA AddKeepsBag == \A B, x : IsABag(B) => IsABag(BagAdd(B, x))
BY AddFacts

\* One copy less of x.
LEMMA RemoveFacts ==
    ASSUME NEW B, IsABag(B), NEW x \in DOMAIN B
    PROVE  /\ IsABag(BagRemove(B, x))
           /\ DOMAIN BagRemove(B, x) = IF B[x] = 1 THEN DOMAIN B \ {x} ELSE DOMAIN B
           /\ B[x] # 1 => BagRemove(B, x)[x] = B[x] - 1
           /\ \A y \in DOMAIN B : y # x => BagRemove(B, x)[y] = B[y]
<1>1. B[x] \in Nat /\ B[x] > 0
  BY DEF IsABag
<1>2. CASE B[x] = 1
  BY <1>2 DEF BagRemove, IsABag
<1>3. CASE B[x] # 1
  BY <1>1, <1>3 DEF BagRemove, IsABag
<1> QED BY <1>2, <1>3

\* The empty bag has no elements, and no other bag has none.
LEMMA EmptyFacts ==
    /\ IsABag(EmptyBag) /\ DOMAIN EmptyBag = {}
    /\ \A B : IsABag(B) /\ DOMAIN B = {} => B = EmptyBag
<1>1. DOMAIN EmptyBag = {}
  BY DEF EmptyBag, SetToBag
<1>2. IsABag(EmptyBag)
  BY DEF EmptyBag, SetToBag, IsABag
<1>3. ASSUME NEW B, IsABag(B), DOMAIN B = {} PROVE B = EmptyBag
  BY <1>3 DEF EmptyBag, SetToBag, IsABag
<1> QED BY <1>1, <1>2, <1>3

\* A finite set and one element more.
LEMMA OneMore ==
    ASSUME NEW S, NEW T, NEW x, IsFiniteSet(S), T = S \/ T = S \cup {x}
    PROVE  IsFiniteSet(T)
<1>1. IsFiniteSet(S \cup {x})
  BY FS_AddElement
<1> QED BY <1>1, Zenon

\* A part of a finite set, and what is at most one element more.
LEMMA Shrinks ==
    ASSUME NEW S, IsFiniteSet(S), NEW T, T \subseteq S
    PROVE  /\ IsFiniteSet(T) /\ Cardinality(T) \in Nat /\ Cardinality(S) \in Nat
           /\ Cardinality(T) <= Cardinality(S)
           /\ S # T => Cardinality(T) < Cardinality(S)
<1>1. /\ IsFiniteSet(T) /\ Cardinality(T) <= Cardinality(S)
      /\ Cardinality(S) = Cardinality(T) => S = T
  BY FS_Subset
<1>2. Cardinality(T) \in Nat /\ Cardinality(S) \in Nat
  BY <1>1, FS_CardinalityType
<1> QED BY <1>1, <1>2

\* What has at most one element more has at most one more.
LEMMA GrowsByOne ==
    ASSUME NEW S, IsFiniteSet(S), NEW x, NEW T, T \subseteq S \cup {x}
    PROVE  /\ Cardinality(T) \in Nat /\ Cardinality(S) \in Nat
           /\ Cardinality(T) <= Cardinality(S) + 1
<1>1. /\ IsFiniteSet(S \cup {x}) /\ Cardinality(S) \in Nat
      /\ Cardinality(S \cup {x}) \in {Cardinality(S), Cardinality(S) + 1}
  BY FS_AddElement, FS_CardinalityType
<1>2. Cardinality(T) \in Nat /\ Cardinality(T) <= Cardinality(S \cup {x})
  BY <1>1, Shrinks
<1> QED BY <1>1, <1>2

\* The size of a set with one element added.
LEMMA WithElement ==
    ASSUME NEW S, IsFiniteSet(S), NEW x, NEW T, T = S \cup {x}
    PROVE  /\ Cardinality(T) = Cardinality(S) + (IF x \in S THEN 0 ELSE 1)
           /\ Cardinality(T) \in Nat /\ Cardinality(S) \in Nat
<1>1. Cardinality(S) \in Nat
  BY FS_CardinalityType
<1>2. Cardinality(S \cup {x}) = IF x \in S THEN Cardinality(S) ELSE Cardinality(S) + 1
  BY FS_AddElement
<1> QED BY <1>1, <1>2

----------------------------------------------------------------------------
(* Steps and types *)

USE DEF setting, clientVars, coapVars, fileVars, serverVars, resultVars

\* The steps the system can make.
LEMMA Steps ==
    ASSUME [Next]_vars
    PROVE  \/ Probe \/ Resend \/ RequestFails \/ Connect \/ Segment \/ ConnectionLost
           \/ \E t \in Transfers : FinishPut(t) \/ Verify(t) \/ Save(t) \/ Respond(t)
           \/ \E m \in DOMAIN up : Receive(m) \/ Lose(m) \/ Duplicate(m)
           \/ \E a \in DOMAIN down : AnswerArrives(a) \/ LoseAnswer(a)
           \/ SegmentAgain \/ ServerDies \/ EndTransfer \/ UNCHANGED vars
BY DEF Next, Client, Server, Network, Faulty

\* The sweep begins with the types (coap_client.py, http_client.py).
LEMMA TypeInit == Init => TypeOK
BY UploadPlan, EmptyFacts DEF Init, TypeOK, NoTally, Transfers

\* Counting keeps the tally a tally; a fault stays within the bound.
LEMMA CountType ==
    ASSUME TypeOK, NEW what \in DOMAIN NoTally, Count(what)
    PROVE  tally' \in [DOMAIN NoTally -> Nat]
BY DEF TypeOK, Count

\* Faults stay within their bound.
LEMMA FaultType ==
    ASSUME TypeOK, Fault \/ UNCHANGED faults
    PROVE  faults' \in 0 .. MaxFaults
BY UploadPlan DEF TypeOK, Fault

\* What the tally counts.
LEMMA TallyNames == DOMAIN NoTally = {"resent", "reused", "lost", "duplicated", "dropped"}
BY DEF NoTally

\* A new message keeps the types of the message bag, the repeats and the tally.
LEMMA RequestType ==
    ASSUME TypeOK, NEW k, Request(k)
    PROVE  /\ IsABag(up') /\ resends' \in 0 .. MaxRetransmit
           /\ tally' \in [DOMAIN NoTally -> Nat]
<1>1. resends' \in 0 .. MaxRetransmit
  BY UploadPlan DEF Request
<1>2. IsABag(up')
  BY AddFacts DEF TypeOK, Request
<1>3. tally' \in [DOMAIN NoTally -> Nat]
  BY CountType, TallyNames DEF TypeOK, Request
<1> QED BY <1>1, <1>2, <1>3

\* A frame, seen or dropped, keeps the types of the capture.
LEMMA CaptureType ==
    ASSUME TypeOK, NEW frame, Capture(frame)
    PROVE  /\ IsABag(pcap') /\ faults' \in 0 .. MaxFaults
           /\ tally' \in [DOMAIN NoTally -> Nat]
<1>1. tally' \in [DOMAIN NoTally -> Nat]
  BY CountType, TallyNames DEF TypeOK, Capture
<1>2. IsABag(pcap')
  BY AddKeepsBag DEF TypeOK, Capture
<1>3. faults' \in 0 .. MaxFaults
  BY FaultType DEF TypeOK, Capture
<1> QED BY <1>1, <1>2, <1>3

HandlerStates == {"none", "reading", "body", "open", "written", "refused", "ended"}
FileStates == {"none", "cut", "whole", "failed"}

\* A new state of one handler leaves the handlers well typed.
LEMMA HandleType ==
    ASSUME TypeOK, NEW t, NEW state \in HandlerStates, Handle(t, state)
    PROVE  handler' \in [Transfers -> HandlerStates]
BY DEF TypeOK, Handle, HandlerStates

\* What save_file does to its file leaves the files well typed (file_manager.py:37).
LEMMA FileType ==
    ASSUME TypeOK, NEW t \in Transfers, OpenFile(t) \/ WriteFile(t) \/ WriteFails(t) \/ UNCHANGED fileVars
    PROVE  /\ file' \in [Files -> FileStates]
           /\ opener' \in [Files -> Transfers \cup {None}]
<1>1. opener' \in [Files -> Transfers \cup {None}]
  BY DEF TypeOK, OpenFile, WriteFile, WriteFails
<1>2. file' \in [Files -> FileStates]
  <2> DEFINE f == FileOf[t]
  <2>1. PICK s : s \in FileStates /\ (file' = [file EXCEPT ![f] = s] \/ file' = file)
    <3>1. CASE OpenFile(t)
      BY <3>1 DEF OpenFile, FileStates
    <3>2. CASE WriteFile(t)
      BY <3>2 DEF WriteFile, FileStates
    <3>3. CASE WriteFails(t)
      BY <3>3, UploadPlan DEF WriteFails, FileStates, TypeOK
    <3>4. CASE UNCHANGED fileVars
      BY <3>4 DEF FileStates
    <3> QED BY <3>1, <3>2, <3>3, <3>4
  <2> QED BY <2>1 DEF TypeOK, FileStates
<1> QED BY <1>1, <1>2

\* Every step preserves the types.
LEMMA TypeNext == TypeOK /\ Fresh /\ [Next]_vars => TypeOK'
<1> SUFFICES ASSUME TypeOK, Fresh, [Next]_vars PROVE TypeOK'
  OBVIOUS
<1> USE UploadPlan, TallyNames
<1>1. CASE Probe
  BY <1>1, RequestType DEF TypeOK, Probe
<1>2. CASE Resend
  <2>1. IsABag(up')
    BY <1>2, AddKeepsBag DEF TypeOK, Resend
  <2>2. faults' \in 0 .. MaxFaults
    BY <1>2, FaultType DEF Resend
  <2>3. tally' \in [DOMAIN NoTally -> Nat]
    BY <1>2, CountType DEF Resend
  <2> QED BY <1>2, <2>1, <2>2, <2>3 DEF TypeOK, Resend
<1>3. CASE RequestFails
  BY <1>3, RequestType, FaultType DEF TypeOK, RequestFails, MayRetry, Waiting
<1>4. CASE Connect
  <2>1. IsABag(pcap')
    <3>1. (\E f : pcap' = BagAdd(pcap, f)) \/ pcap' = pcap
      BY <1>4 DEF Connect
    <3> QED BY <3>1, AddKeepsBag DEF TypeOK
  <2>2. faults' \in 0 .. MaxFaults
    BY <1>4, FaultType DEF Connect
  <2>3. handler' \in [Transfers -> HandlerStates]
    BY <1>4, HandleType DEF Connect, TypeOK, HandlerStates
  <2> QED BY <1>4, <2>1, <2>2, <2>3 DEF TypeOK, Connect, HandlerStates
<1>5. CASE Segment
  BY <1>5, CaptureType, HandleType DEF TypeOK, Segment, HandlerStates
<1>6. CASE ConnectionLost
  BY <1>6, FaultType, HandleType DEF TypeOK, ConnectionLost, Uploading, HandlerStates
<1>7. ASSUME NEW t \in Transfers, FinishPut(t) PROVE TypeOK'
  <2>1. WriteFile(t) \/ WriteFails(t)
    BY <1>7 DEF FinishPut
  <2>2. IsABag(down')
    BY <1>7, AddKeepsBag DEF FinishPut, TypeOK
  <2>3. faults' \in 0 .. MaxFaults
    BY <1>7, FaultType DEF FinishPut, WriteFails
  <2> QED BY <1>7, <2>1, <2>2, <2>3, FileType, HandleType DEF TypeOK, FinishPut, HandlerStates, FileStates
<1>8. ASSUME NEW t \in Transfers, Verify(t) PROVE TypeOK'
  BY <1>8, FileType, HandleType DEF TypeOK, Verify, HandlerStates, FileStates
<1>9. ASSUME NEW t \in Transfers, Save(t) PROVE TypeOK'
  <2>1. faults' \in 0 .. MaxFaults
    BY <1>9, FaultType DEF Save, WriteFails
  <2> QED BY <1>9, <2>1, FileType, HandleType DEF TypeOK, Save, HandlerStates, FileStates
<1>10. ASSUME NEW t \in Transfers, Respond(t) PROVE TypeOK'
  BY <1>10, HandleType DEF TypeOK, Respond, Uploading, HandlerStates
<1>11. ASSUME NEW m \in DOMAIN up, Receive(m) PROVE TypeOK'
  <2> DEFINE frame == Frame("client", "con", m.id, IF m.block = 0 THEN 0 ELSE BlockLen, FALSE)
  <2>1. IsABag(pcap') /\ faults' \in 0 .. MaxFaults /\ tally' \in [DOMAIN NoTally -> Nat]
    <3>1. Capture(frame)
      BY <1>11 DEF Receive
    <3> QED BY <3>1, CaptureType
  <2>2. IsABag(up')
    BY <1>11, RemoveFacts DEF Receive, TypeOK
  <2>3. CASE Absorb(m)
    <3>1. IsABag(down')
      BY <2>3, AddFacts DEF Absorb, TypeOK
    <3> QED BY <1>11, <2>1, <2>2, <2>3, <3>1 DEF TypeOK, Receive, Absorb
  <2>4. CASE RenderPut(m)
    <3>1. turn \in Transfers
      BY <1>11, EmptyFacts DEF Fresh, TypeOK
    <3>2. handler' \in [Transfers -> HandlerStates]
      BY <2>4, HandleType DEF RenderPut, HandlerStates
    <3>3. /\ file' \in [Files -> FileStates]
          /\ opener' \in [Files -> Transfers \cup {None}]
      BY <2>4, <3>1, FileType DEF RenderPut
    <3> QED BY <1>11, <2>1, <2>2, <2>4, <3>2, <3>3
               DEF TypeOK, Receive, RenderPut, HandlerStates, FileStates
  <2> QED BY <1>11, <2>3, <2>4 DEF Receive
<1>12. ASSUME NEW m \in DOMAIN up, Lose(m) PROVE TypeOK'
  BY <1>12, RemoveFacts, FaultType, CountType DEF TypeOK, Lose
<1>13. ASSUME NEW m \in DOMAIN up, Duplicate(m) PROVE TypeOK'
  BY <1>13, AddFacts, FaultType, CountType DEF TypeOK, Duplicate
<1>14. ASSUME NEW a \in DOMAIN down, AnswerArrives(a) PROVE TypeOK'
  <2>1. IsABag(down') /\ IsABag(pcap')
    BY <1>14, AddFacts, RemoveFacts DEF AnswerArrives, TypeOK
  <2>2. IsABag(up') /\ resends' \in 0 .. MaxRetransmit /\ tally' \in [DOMAIN NoTally -> Nat]
    BY <1>14, RequestType DEF AnswerArrives, TypeOK
  <2>3. row' \in [Transfers -> {"none", "ok", "corrupt"}]
    BY <1>14 DEF AnswerArrives, TypeOK
  <2>4. attempt' \in 0 .. MaxAttempts
    BY <1>14 DEF AnswerArrives, TypeOK
  <2> QED BY <1>14, <2>1, <2>2, <2>3, <2>4 DEF TypeOK, AnswerArrives, Waiting
<1>15. ASSUME NEW a \in DOMAIN down, LoseAnswer(a) PROVE TypeOK'
  BY <1>15, RemoveFacts, FaultType DEF TypeOK, LoseAnswer
<1>16. CASE SegmentAgain
  BY <1>16, AddFacts, FaultType, CountType DEF TypeOK, SegmentAgain
<1>17. CASE ServerDies
  BY <1>17, EmptyFacts, FaultType DEF TypeOK, ServerDies
<1>18. CASE EndTransfer
  BY <1>18, EmptyFacts DEF TypeOK, EndTransfer, Transfers, NoTally
<1>19. CASE UNCHANGED vars
  BY <1>19 DEF TypeOK, vars
<1> QED BY <1>1, <1>2, <1>3, <1>4, <1>5, <1>6, <1>7, <1>8, <1>9, <1>10, <1>11, <1>12,
           <1>13, <1>14, <1>15, <1>16, <1>17, <1>18, <1>19, Steps

----------------------------------------------------------------------------
(* The inductive invariant's base: what is there of a transfer, and when *)

\* Before the first transfer there is nothing of any.
LEMMA BaseInit == Init => Base
<1> SUFFICES ASSUME Init PROVE DataOK /\ Fresh /\ Progress
  BY TypeInit DEF Base
<1> USE UploadPlan, EmptyFacts, FS_EmptySet
<1>1. DataOK
  BY DEF Init, DataOK
<1>2. Fresh
  BY DEF Init, Fresh
<1>3. Progress
  BY DEF Init, Progress, Transfers
<1> QED BY <1>1, <1>2, <1>3

\* A transfer with something of its own has begun; messages are CoAP's.
LEMMA Begun ==
    ASSUME Base
    PROVE  /\ pc # "idle" => turn \in Transfers
           /\ \A m \in DOMAIN up : pc # "idle" /\ protocol = "coap"
           /\ \A a \in DOMAIN down : pc # "idle" /\ protocol = "coap"
           /\ \A a \in history : pc # "idle" /\ protocol = "coap"
           /\ turn \in Nat
BY EmptyFacts, UploadPlan DEF Base, TypeOK, Fresh, DataOK, Transfers

\* Every step keeps that an idle harness has nothing of a transfer, since EndTransfer
\* clears it, and that HTTP has no CoAP messages.
LEMMA FreshNext ==
    ASSUME Base, [Next]_vars
    PROVE  Fresh'
<1> USE Begun, EmptyFacts DEF Fresh
<1>0. Fresh /\ TypeOK /\ protocol \in {"http", "coap"} /\ sent \in Nat
  BY DEF Base, DataOK
<1>1. CASE Probe
  BY <1>0, <1>1 DEF Probe, Request
<1>2. CASE Resend
  BY <1>0, <1>2 DEF Resend, Waiting
<1>3. CASE RequestFails
  BY <1>0, <1>3 DEF RequestFails, Request, Waiting
<1>4. CASE Connect
  BY <1>0, <1>4 DEF Connect
<1>5. CASE Segment
  BY <1>0, <1>5 DEF Segment, Uploading, Capture
<1>6. CASE ConnectionLost
  BY <1>0, <1>6 DEF ConnectionLost, Uploading
<1>7. ASSUME NEW t \in Transfers, FinishPut(t) PROVE Fresh'
  <2>1. pc = "idle" => t # turn
    BY <1>7 DEF Base, Progress, FinishPut
  <2> QED BY <1>0, <1>7, <2>1 DEF FinishPut
<1>8. ASSUME NEW t \in Transfers, Verify(t) PROVE Fresh'
  BY <1>0, <1>8 DEF Verify
<1>9. ASSUME NEW t \in Transfers, Save(t) PROVE Fresh'
  BY <1>0, <1>9 DEF Save
<1>10. ASSUME NEW t \in Transfers, Respond(t) PROVE Fresh'
  BY <1>0, <1>10 DEF Respond, Uploading
<1>11. ASSUME NEW m \in DOMAIN up, Receive(m) PROVE Fresh'
  BY <1>0, <1>11 DEF Receive
<1>12. ASSUME NEW m \in DOMAIN up, Lose(m) PROVE Fresh'
  BY <1>0, <1>12 DEF Lose
<1>13. ASSUME NEW m \in DOMAIN up, Duplicate(m) PROVE Fresh'
  BY <1>0, <1>13 DEF Duplicate
<1>14. ASSUME NEW a \in DOMAIN down, AnswerArrives(a) PROVE Fresh'
  <2>1. pc # "idle" /\ protocol = "coap" /\ protocol' = protocol
    BY <1>0, <1>14 DEF AnswerArrives
  <2>2. pc' \in {pc, "put", "returned"} /\ (pc' = pc \/ Waiting)
    BY <1>14 DEF AnswerArrives
  <2>3. sent' \in {sent, sent + 1}
    BY <1>14 DEF AnswerArrives, Request
  <2>4. sent > 0 \/ pc = "raised"
    BY <1>0, <2>1 DEF Base, TypeOK
  <2> QED BY <1>0, <2>1, <2>2, <2>3, <2>4 DEF Waiting
<1>15. ASSUME NEW a \in DOMAIN down, LoseAnswer(a) PROVE Fresh'
  BY <1>0, <1>15 DEF LoseAnswer
<1>16. CASE SegmentAgain
  BY <1>0, <1>16 DEF SegmentAgain, Uploading
<1>17. CASE ServerDies
  BY <1>0, <1>17 DEF ServerDies
<1>18. CASE EndTransfer
  BY <1>0, <1>18 DEF EndTransfer
<1>19. CASE UNCHANGED vars
  BY <1>0, <1>19 DEF vars
<1> QED BY <1>1, <1>2, <1>3, <1>4, <1>5, <1>6, <1>7, <1>8, <1>9, <1>10, <1>11, <1>12,
           <1>13, <1>14, <1>15, <1>16, <1>17, <1>18, <1>19, Steps

\* A new message about a block: the others are older.
LEMMA RequestData ==
    ASSUME Base, NEW k \in Nat, Request(k)
    PROVE  /\ exchange' = k /\ sent' = sent + 1 /\ {exchange', sent'} \subseteq Nat
           /\ IsFiniteSet(DOMAIN up')
           /\ DOMAIN up' = DOMAIN up \cup {[id |-> sent + 1, block |-> k]}
           /\ DOMAIN up' \subseteq [id : 1 .. sent', block : Nat]
           /\ history \subseteq [id : 1 .. sent', code : Codes]
<1>1. sent \in Nat /\ sent' = sent + 1 /\ exchange' = k
  BY DEF Base, DataOK, Request
<1>2. DOMAIN up' = DOMAIN up \cup {[id |-> sent + 1, block |-> k]}
  BY AddFacts DEF Base, TypeOK, Request
<1>3. IsFiniteSet(DOMAIN up')
  BY <1>2, OneMore, Zenon DEF Base, DataOK
<1>4. 1 .. sent \subseteq 1 .. sent' /\ sent + 1 \in 1 .. sent'
  BY <1>1
<1>5. DOMAIN up \subseteq [id : 1 .. sent', block : Nat] /\ history \subseteq [id : 1 .. sent', code : Codes]
  BY <1>4 DEF Base, DataOK
<1> QED BY <1>1, <1>2, <1>3, <1>4, <1>5

\* The frames that are captured.
LEMMA FrameType ==
    ASSUME NEW id \in Nat, NEW payload \in Nat
    PROVE  /\ Frame("client", "con", id, payload, FALSE) \in Frames
           /\ Frame("client", "tcp", id, payload, FALSE) \in Frames
           /\ Frame("client", "tcp", id, payload, TRUE) \in Frames
           /\ Frame("server", "ack", id, payload, FALSE) \in Frames
<1>1. id % MidSpace \in Nat /\ HeaderLen + payload \in Nat
  BY UploadPlan
<1> QED BY <1>1 DEF Frame, Frames

\* A repeat of the last message.
LEMMA ResendData ==
    ASSUME Base, Resend
    PROVE  /\ sent > 0 /\ UNCHANGED <<pc, attempt, exchange, sent, turn, handler, history>>
           /\ DOMAIN up' \in {DOMAIN up, DOMAIN up \cup {[id |-> sent, block |-> exchange]}}
<1> DEFINE new == [id |-> sent, block |-> exchange]
<1>1. DOMAIN BagAdd(up, new) = DOMAIN up \cup {new}
  <2>1. IsABag(up)
    BY DEF Base, TypeOK
  <2> QED BY <2>1, AddFacts, Zenon
<1> QED BY <1>1 DEF Resend, Waiting, Base, Fresh

\* One frame more in the capture.
LEMMA CaptureData ==
    ASSUME Base, NEW frame \in Frames,
           pcap' = BagAdd(pcap, frame) \/ UNCHANGED pcap
    PROVE  IsFiniteSet(DOMAIN pcap') /\ DOMAIN pcap' \subseteq Frames
<1>1. DOMAIN pcap' \in {DOMAIN pcap, DOMAIN pcap \cup {frame}}
  BY AddFacts DEF Base, TypeOK
<1> QED BY <1>1, FS_AddElement DEF Base, DataOK

\* One message less, or a copy more of one that is there.
LEMMA UpData ==
    ASSUME Base, NEW m \in DOMAIN up, up' = BagRemove(up, m) \/ up' = BagAdd(up, m)
    PROVE  /\ DOMAIN up' \subseteq DOMAIN up /\ DOMAIN up \subseteq DOMAIN up' \cup {m}
           /\ IsFiniteSet(DOMAIN up')
<1>1. DOMAIN up' \subseteq DOMAIN up /\ DOMAIN up \subseteq DOMAIN up' \cup {m}
  <2>1. CASE up' = BagRemove(up, m)
    <3>1. DOMAIN up' = IF up[m] = 1 THEN DOMAIN up \ {m} ELSE DOMAIN up
      BY <2>1, RemoveFacts, Zenon DEF Base, TypeOK
    <3> QED BY <3>1
  <2>2. CASE up' = BagAdd(up, m)
    BY <2>2, AddFacts DEF Base, TypeOK
  <2> QED BY <2>1, <2>2
<1> QED BY <1>1, FS_Subset DEF Base, DataOK

\* One answer less.
LEMMA DownData ==
    ASSUME Base, NEW a \in DOMAIN down, down' = BagRemove(down, a)
    PROVE  DOMAIN down' \subseteq DOMAIN down
<1>1. DOMAIN down' = IF down[a] = 1 THEN DOMAIN down \ {a} ELSE DOMAIN down
  BY RemoveFacts, Zenon DEF Base, TypeOK
<1> QED BY <1>1

\* Every step keeps messages, answers and frames what they are: the answers under way
\* are in the history, and no message is newer than the last one sent.
LEMMA DataNext ==
    ASSUME Base, [Next]_vars
    PROVE  DataOK'
<1>0. /\ DataOK /\ TypeOK /\ BlockLen \in Nat
  BY UploadPlan DEF Base
<1> USE EmptyFacts, FS_EmptySet DEF DataOK
<1>1. CASE Probe
  <2>1. 0 \in Nat /\ Request(0)
    BY <1>1 DEF Probe
  <2>2. /\ {exchange', sent'} \subseteq Nat /\ IsFiniteSet(DOMAIN up')
        /\ DOMAIN up' \subseteq [id : 1 .. sent', block : Nat]
        /\ history \subseteq [id : 1 .. sent', code : Codes]
    BY <2>1, RequestData
  <2> QED BY <1>0, <1>1, <2>2 DEF Probe
<1>2. CASE Resend
  <2> DEFINE new == [id |-> sent, block |-> exchange]
  <2>1. new \in [id : 1 .. sent, block : Nat]
    <3>1. sent > 0
      BY <1>2, ResendData
    <3> QED BY <1>0, <3>1
  <2>2. DOMAIN up' \in {DOMAIN up, DOMAIN up \cup {new}}
    BY <1>2, ResendData
  <2>3. IsFiniteSet(DOMAIN up')
    BY <1>0, <2>2, OneMore, Zenon
  <2> QED BY <1>0, <1>2, <2>1, <2>2, <2>3 DEF Resend
<1>3. CASE RequestFails
  <2>1. CASE Request(1)
    BY <1>0, <1>3, <2>1, RequestData DEF RequestFails
  <2>2. CASE UNCHANGED <<clientVars, up, tally>>
    BY <1>0, <1>3, <2>2 DEF RequestFails
  <2> QED BY <1>3, <2>1, <2>2 DEF RequestFails
<1>4. CASE Connect
  <2>1. Frame("client", "tcp", 0, 0, FALSE) \in Frames
    BY 0 \in Nat, FrameType
  <2>2. IsFiniteSet(DOMAIN pcap') /\ DOMAIN pcap' \subseteq Frames
    BY <1>4, <2>1, CaptureData DEF Connect
  <2> QED BY <1>0, <1>4, <2>2 DEF Connect
<1>5. CASE Segment
  <2>1. Frame("client", "tcp", 0, BlockLen, FALSE) \in Frames
    BY <1>0, 0 \in Nat, FrameType
  <2>2. IsFiniteSet(DOMAIN pcap') /\ DOMAIN pcap' \subseteq Frames
    BY <1>5, <2>1, CaptureData DEF Segment, Capture
  <2> QED BY <1>0, <1>5, <2>2 DEF Segment
<1>6. CASE ConnectionLost
  BY <1>0, <1>6 DEF ConnectionLost
<1>7. ASSUME NEW t \in Transfers, FinishPut(t) PROVE DataOK'
  <2>1. t = turn => serving \in 1 .. sent
    BY <1>7 DEF Base, Progress, FinishPut
  <2>2. PICK code \in {"changed", "error"} :
          LET answer == [id |-> serving, code |-> code]
          IN  IF t = turn
              THEN /\ history' = history \cup {answer}
                   /\ down' = BagAdd(down, answer)
              ELSE UNCHANGED <<history, down>>
    BY <1>7 DEF FinishPut
  <2> DEFINE answer == [id |-> serving, code |-> code]
  <2>3. t = turn => answer \in [id : 1 .. sent, code : Codes]
    BY <2>1 DEF Codes
  <2>4. t = turn => history' = history \cup {answer} /\ DOMAIN down' = DOMAIN down \cup {answer}
    <3>1. IsABag(down)
      BY <1>0 DEF TypeOK
    <3>2. DOMAIN BagAdd(down, answer) = DOMAIN down \cup {answer}
      BY <3>1, AddFacts, Zenon
    <3> QED BY <2>2, <3>2
  <2>5. t # turn => UNCHANGED <<history, down>>
    BY <2>2
  <2>6. history' \subseteq [id : 1 .. sent, code : Codes] /\ DOMAIN down' \subseteq history'
    BY <1>0, <2>3, <2>4, <2>5
  <2> QED BY <1>0, <1>7, <2>6 DEF FinishPut
<1>8. ASSUME NEW t \in Transfers, Verify(t) PROVE DataOK'
  BY <1>0, <1>8 DEF Verify
<1>9. ASSUME NEW t \in Transfers, Save(t) PROVE DataOK'
  BY <1>0, <1>9 DEF Save
<1>10. ASSUME NEW t \in Transfers, Respond(t) PROVE DataOK'
  BY <1>0, <1>10 DEF Respond
<1>11. ASSUME NEW m \in DOMAIN up, Receive(m) PROVE DataOK'
  <2> DEFINE frame == Frame("client", "con", m.id, IF m.block = 0 THEN 0 ELSE BlockLen, FALSE)
  <2>1. m.id \in 1 .. sent /\ m.id \in Nat /\ m.block \in Nat /\ sent \in Nat
    BY <1>0
  <2>2. IsFiniteSet(DOMAIN pcap') /\ DOMAIN pcap' \subseteq Frames
    <3>1. frame \in Frames
      BY <1>0, <2>1, FrameType
    <3>2. pcap' = BagAdd(pcap, frame) \/ UNCHANGED pcap
      BY <1>11 DEF Receive, Capture
    <3> QED BY <3>1, <3>2, CaptureData
  <2>3. IsFiniteSet(DOMAIN up') /\ DOMAIN up' \subseteq DOMAIN up
    BY <1>11, UpData DEF Receive
  <2>4. /\ assembled' \in Nat
        /\ history' \subseteq [id : 1 .. sent, code : Codes]
        /\ DOMAIN down' \subseteq history'
    <3>1. CASE Absorb(m)
      <4>1. PICK answer : /\ answer \in Known(m) \/ \E code \in Codes : answer = [id |-> m.id, code |-> code]
                          /\ history' = history \cup {answer}
                          /\ down' = BagAdd(down, answer)
        <5> DEFINE new == Answer(m, CASE m.block = 0 -> "content"
                                      [] m.block > 0 /\ Continues(m) -> "continue"
                                      [] OTHER -> "incomplete")
        <5>1. \E code \in Codes : new = [id |-> m.id, code |-> code]
          BY DEF Answer, Codes
        <5>2. Known(m) # {} => (CHOOSE a \in Known(m) : TRUE) \in Known(m)
          OBVIOUS
        <5> HIDE DEF new
        <5>3. history' = history \cup {IF Known(m) # {} THEN CHOOSE a \in Known(m) : TRUE ELSE new}
          BY <3>1 DEF Absorb, new
        <5>4. down' = BagAdd(down, IF Known(m) # {} THEN CHOOSE a \in Known(m) : TRUE ELSE new)
          BY <3>1 DEF Absorb, new
        <5> QED BY <5>1, <5>2, <5>3, <5>4
      <4>2. answer \in [id : 1 .. sent, code : Codes]
        BY <1>0, <2>1, <4>1 DEF Known
      <4>3. DOMAIN down' = DOMAIN down \cup {answer}
        BY <1>0, <4>1, AddFacts DEF TypeOK
      <4>4. assembled' \in Nat
        BY <1>0, <2>1, <3>1 DEF Absorb
      <4> QED BY <1>0, <4>1, <4>2, <4>3, <4>4
    <3>2. CASE RenderPut(m)
      BY <1>0, <3>2 DEF RenderPut
    <3> QED BY <1>11, <3>1, <3>2 DEF Receive
  <2> QED BY <1>0, <1>11, <2>2, <2>3, <2>4 DEF Receive
<1>12. ASSUME NEW m \in DOMAIN up, Lose(m) PROVE DataOK'
  BY <1>0, <1>12, UpData DEF Lose
<1>13. ASSUME NEW m \in DOMAIN up, Duplicate(m) PROVE DataOK'
  BY <1>0, <1>13, UpData DEF Duplicate
<1>14. ASSUME NEW a \in DOMAIN down, AnswerArrives(a) PROVE DataOK'
  <2>1. a.id \in Nat
    BY <1>0
  <2>2. IsFiniteSet(DOMAIN pcap') /\ DOMAIN pcap' \subseteq Frames
    <3>1. Frame("server", "ack", a.id, 0, FALSE) \in Frames
      BY <2>1, 0 \in Nat, FrameType
    <3>2. pcap' = BagAdd(pcap, Frame("server", "ack", a.id, 0, FALSE))
      BY <1>14 DEF AnswerArrives
    <3> QED BY <3>1, <3>2, CaptureData
  <2>3. DOMAIN down' \subseteq DOMAIN down
    BY <1>14, DownData DEF AnswerArrives
  <2>4. CASE Request(exchange + 1)
    <3>1. exchange + 1 \in Nat
      BY <1>0
    <3>2. /\ {exchange', sent'} \subseteq Nat /\ IsFiniteSet(DOMAIN up')
          /\ DOMAIN up' \subseteq [id : 1 .. sent', block : Nat]
          /\ history \subseteq [id : 1 .. sent', code : Codes]
      BY <2>4, <3>1, RequestData
    <3> QED BY <1>0, <1>14, <2>2, <2>3, <3>2 DEF AnswerArrives
  <2>5. CASE UNCHANGED <<clientVars, up, tally>>
    BY <1>0, <1>14, <2>2, <2>3, <2>5 DEF AnswerArrives
  <2> QED BY <1>14, <2>4, <2>5 DEF AnswerArrives
<1>15. ASSUME NEW a \in DOMAIN down, LoseAnswer(a) PROVE DataOK'
  <2>1. DOMAIN down' \subseteq DOMAIN down
    BY <1>15, DownData DEF LoseAnswer
  <2> QED BY <1>0, <1>15, <2>1 DEF LoseAnswer
<1>16. CASE SegmentAgain
  <2>1. Frame("client", "tcp", 0, BlockLen, TRUE) \in Frames
    BY <1>0, 0 \in Nat, FrameType
  <2>2. IsFiniteSet(DOMAIN pcap') /\ DOMAIN pcap' \subseteq Frames
    BY <1>16, <2>1, CaptureData DEF SegmentAgain
  <2> QED BY <1>0, <1>16, <2>2 DEF SegmentAgain
<1>17. CASE ServerDies
  <2>1. /\ DOMAIN up' = {} /\ DOMAIN down' = {} /\ history' = {} /\ assembled' = 0
        /\ alive' = FALSE /\ UNCHANGED <<protocol, exchange, sent, pcap>>
    BY <1>17 DEF ServerDies
  <2>2. IsFiniteSet(DOMAIN up') /\ IsFiniteSet(DOMAIN pcap')
    BY <1>0, <2>1, FS_EmptySet, Zenon
  <2>3. alive' \in BOOLEAN
    BY <2>1
  <2>4. DOMAIN up' \subseteq [id : 1 .. sent', block : Nat] /\ history' \subseteq [id : 1 .. sent', code : Codes]
    BY <2>1
  <2> QED BY <1>0, <2>1, <2>2, <2>3, <2>4
<1>18. CASE EndTransfer
  BY <1>0, <1>18 DEF EndTransfer
<1>19. CASE UNCHANGED vars
  BY <1>0, <1>19 DEF vars
<1> QED BY <1>1, <1>2, <1>3, <1>4, <1>5, <1>6, <1>7, <1>8, <1>9, <1>10, <1>11, <1>12,
           <1>13, <1>14, <1>15, <1>16, <1>17, <1>18, <1>19, Steps

\* Giving one handler a new state leaves the others alone.
LEMMA HandleFacts ==
    ASSUME TypeOK, NEW t \in Transfers, NEW state, Handle(t, state)
    PROVE  handler'[t] = state /\ \A s \in Transfers : s # t => handler'[s] = handler[s]
BY DEF TypeOK, Handle

\* Every step keeps the handlers and rows no further than their transfer is, and at
\* most one render_put writing at a time: aiocoap's server is one event loop
\* (coap_server.py:11).
LEMMA ProgressNext ==
    ASSUME Base, [Next]_vars
    PROVE  Progress'
<1>0. /\ Progress /\ TypeOK /\ protocol \in {"http", "coap"} /\ sent \in Nat
      /\ pc # "idle" => turn \in Transfers
      /\ turn \in Nat /\ Transfers \subseteq Nat
      /\ \A t \in Transfers : handler[t] \in {"none", "reading", "body", "open", "written",
                                  "refused", "ended"}
  <2>1. Transfers \subseteq Nat
    BY DEF Transfers
  <2>2. turn \in Nat /\ (pc # "idle" => turn \in Transfers)
    BY Begun
  <2>3. \A t \in Transfers : handler[t] \in {"none", "reading", "body", "open", "written",
                                            "refused", "ended"}
    BY DEF Base, TypeOK
  <2> QED BY <2>1, <2>2, <2>3 DEF Base, DataOK
<1> USE DEF Progress
<1>1. CASE Probe
  BY <1>0, <1>1 DEF Probe, Request
<1>2. CASE Resend
  BY <1>0, <1>2 DEF Resend, Waiting
<1>3. CASE RequestFails
  BY <1>0, <1>3 DEF RequestFails, Request, Waiting
<1>4. CASE Connect
  <2>1. CASE Handle(turn, "reading") /\ pc' = "put"
    <3>1. handler'[turn] = "reading" /\ \A s \in Transfers : s # turn => handler'[s] = handler[s]
      BY <1>0, <1>4, <2>1, HandleFacts DEF Connect
    <3> QED BY <1>0, <1>4, <2>1, <3>1 DEF Connect
  <2>2. CASE pc' = "raised" /\ UNCHANGED handler
    BY <1>0, <1>4, <2>2 DEF Connect
  <2> QED BY <1>4, <2>1, <2>2 DEF Connect
<1>5. CASE Segment
  BY <1>0, <1>5, HandleFacts DEF Segment, Uploading
<1>6. CASE ConnectionLost
  BY <1>0, <1>6, HandleFacts DEF ConnectionLost, Uploading
<1>7. ASSUME NEW t \in Transfers, FinishPut(t) PROVE Progress'
  BY <1>0, <1>7, HandleFacts DEF FinishPut
<1>8. ASSUME NEW t \in Transfers, Verify(t) PROVE Progress'
  BY <1>0, <1>8, HandleFacts DEF Verify
<1>9. ASSUME NEW t \in Transfers, Save(t) PROVE Progress'
  BY <1>0, <1>9, HandleFacts DEF Save
<1>10. ASSUME NEW t \in Transfers, Respond(t) PROVE Progress'
  BY <1>0, <1>10, HandleFacts DEF Respond, Uploading, TypeOK, Answered
<1>11. ASSUME NEW m \in DOMAIN up, Receive(m) PROVE Progress'
  <2>1. pc # "idle" /\ protocol = "coap" /\ m.id \in 1 .. sent
    BY Begun DEF Base, DataOK
  <2>2. CASE Absorb(m)
    BY <1>0, <1>11, <2>2 DEF Receive, Absorb
  <2>3. CASE RenderPut(m)
    <3>1. turn \in Transfers /\ serving' = m.id /\ sent' = sent /\ turn' = turn
      BY <1>0, <1>11, <2>1, <2>3 DEF Receive, RenderPut
    <3>2. handler'[turn] = "open" /\ \A s \in Transfers : s # turn => handler'[s] = handler[s]
      BY <1>0, <2>3, <3>1, HandleFacts DEF RenderPut
    <3> QED BY <1>0, <1>11, <2>1, <2>3, <3>1, <3>2 DEF Receive, Idle
  <2> QED BY <1>11, <2>2, <2>3 DEF Receive
<1>12. ASSUME NEW m \in DOMAIN up, Lose(m) PROVE Progress'
  BY <1>0, <1>12 DEF Lose
<1>13. ASSUME NEW m \in DOMAIN up, Duplicate(m) PROVE Progress'
  BY <1>0, <1>13 DEF Duplicate
<1>14. ASSUME NEW a \in DOMAIN down, AnswerArrives(a) PROVE Progress'
  <2>1. pc # "idle" /\ protocol = "coap"
    BY Begun
  <2> QED BY <1>0, <1>14, <2>1 DEF AnswerArrives, Request, Waiting, TypeOK
<1>15. ASSUME NEW a \in DOMAIN down, LoseAnswer(a) PROVE Progress'
  BY <1>0, <1>15 DEF LoseAnswer
<1>16. CASE SegmentAgain
  BY <1>0, <1>16 DEF SegmentAgain
<1>17. CASE ServerDies
  BY <1>0, <1>17 DEF ServerDies
<1>18. CASE EndTransfer
  BY <1>0, <1>18 DEF EndTransfer
<1>19. CASE UNCHANGED vars
  BY <1>0, <1>19 DEF vars
<1> QED BY <1>1, <1>2, <1>3, <1>4, <1>5, <1>6, <1>7, <1>8, <1>9, <1>10, <1>11, <1>12,
           <1>13, <1>14, <1>15, <1>16, <1>17, <1>18, <1>19, Steps

\* The base of the inductive invariant: the types, the messages and frames there
\* can be, and how far the handler and the row of each transfer are.
THEOREM BaseInvariant == Spec => []Base
<1>1. Base /\ [Next]_vars => Base'
  BY TypeNext, DataNext, FreshNext, ProgressNext DEF Base
<1> QED BY BaseInit, <1>1, PTL DEF Spec

\* TypeOK, for every sweep over HTTP or CoAP.
THEOREM UploadTypeCorrect == Spec => []TypeOK
BY BaseInvariant, PTL DEF Base

----------------------------------------------------------------------------
(* What the names show *)

\* A step that touches no file: what was being written still is, unless the
\* server is gone, and no transfer's file becomes an opened one.
LEMMA FilesUntouched ==
    ASSUME FilesKept, UNCHANGED file, alive' => alive,
           \A s \in Transfers : handler[s] = "open" /\ alive' => handler'[s] = "open",
           \A s \in Transfers : HasBegun(s)' => HasBegun(s)
    PROVE  FilesKept'
<1>1. alive' => \A f \in Files : file'[f] = "cut" => BeingWritten(f)'
  BY DEF FilesKept, BeingWritten
<1>2. \A s \in Transfers : HasBegun(s)' => file'[FileOf[s]] # "none"
  BY DEF FilesKept
<1> QED BY <1>1, <1>2 DEF FilesKept

\* A step of the handler of t that touches its file.
LEMMA FileTouched ==
    ASSUME FilesKept, TypeOK, NEW t \in Transfers, NEW shows, alive' = alive,
           file' = [file EXCEPT ![FileOf[t]] = shows], shows # "none",
           shows = "cut" => handler'[t] = "open",
           \A s \in Transfers : s # t => handler'[s] = handler[s],
           \A s \in Transfers : HasBegun(s)' => HasBegun(s) \/ s = t
    PROVE  FilesKept'
<1>1. /\ FileOf[t] \in Files /\ file'[FileOf[t]] = shows
      /\ \A f \in Files : f # FileOf[t] => file'[f] = file[f]
  BY UploadPlan DEF TypeOK
<1>2. ASSUME alive', NEW f \in Files, file'[f] = "cut" PROVE BeingWritten(f)'
  <2>1. CASE f = FileOf[t]
    BY <1>1, <1>2, <2>1 DEF BeingWritten
  <2>2. CASE f # FileOf[t]
    <3>1. PICK s \in Transfers : FileOf[s] = f /\ handler[s] = "open"
      BY <1>1, <1>2, <2>2 DEF FilesKept, BeingWritten
    <3> QED BY <2>2, <3>1 DEF BeingWritten
  <2> QED BY <2>1, <2>2
<1>3. ASSUME NEW s \in Transfers, HasBegun(s)' PROVE file'[FileOf[s]] # "none"
  <2>1. CASE FileOf[s] = FileOf[t]
    BY <1>1, <2>1
  <2>2. CASE FileOf[s] # FileOf[t]
    BY <1>1, <1>3, <2>2, UploadPlan DEF FilesKept
  <2> QED BY <2>1, <2>2
<1> QED BY <1>2, <1>3 DEF FilesKept

\* f.write fails: the name shows what it did, or a file that was not written.
LEMMA WriteFailed ==
    ASSUME FilesKept, TypeOK, NEW t \in Transfers, handler[t] = "open", WriteFails(t),
           alive' = alive,
           \A s \in Transfers : s # t => handler'[s] = handler[s],
           \A s \in Transfers : HasBegun(s)' => HasBegun(s) \/ s = t
    PROVE  FilesKept'
<1> DEFINE shows == IF file[FileOf[t]] = "cut" THEN "failed" ELSE file[FileOf[t]]
<1>1. file[FileOf[t]] # "none"
  BY DEF FilesKept, HasBegun
<1>2. file' = [file EXCEPT ![FileOf[t]] = shows]
  BY UploadPlan DEF WriteFails, TypeOK
<1>3. shows # "none" /\ shows # "cut"
  BY <1>1
<1> HIDE DEF shows
<1> QED BY <1>2, <1>3, FileTouched

\* At first nothing is shown and nothing was begun.
LEMMA FilesInit == Init => FilesKept
BY UploadPlan DEF Init, FilesKept, HasBegun

\* Every step keeps that only a file being written is cut, while the server lives,
\* and that a file a handler has opened is there (open(filepath, "wb") of save_file).
LEMMA FilesNext ==
    ASSUME Base, FilesKept, [Next]_vars
    PROVE  FilesKept'
<1>0. /\ TypeOK /\ turn \in Nat /\ (pc # "idle" => turn \in Transfers)
      /\ alive \in BOOLEAN
  BY Begun DEF Base, DataOK
<1>1. CASE Probe
  BY <1>1, FilesUntouched DEF Probe, HasBegun
<1>2. CASE Resend
  BY <1>2, FilesUntouched DEF Resend, HasBegun
<1>3. CASE RequestFails
  BY <1>3, FilesUntouched DEF RequestFails, HasBegun
<1>4. CASE Connect
  <2>1. alive' = alive /\ UNCHANGED <<file, row, turn, history>>
    BY <1>4 DEF Connect
  <2>2. handler[turn] # "open" /\ handler'[turn] \in {handler[turn], "reading"}
    <3>1. turn \in Transfers /\ pc = "idle" /\ (Handle(turn, "reading") \/ UNCHANGED handler)
      BY <1>4 DEF Connect
    <3>2. handler[turn] = "none"
      BY <1>0, <3>1 DEF Base, Progress
    <3> QED BY <1>0, <3>1, <3>2, HandleFacts
  <2>3. \A s \in Transfers : s # turn => handler'[s] = handler[s]
    BY <1>0, <1>4, HandleFacts DEF Connect
  <2> QED BY <2>1, <2>2, <2>3, FilesUntouched DEF HasBegun
<1>5. CASE Segment
  <2>1. alive' = alive /\ UNCHANGED <<file, row, turn, history>>
    BY <1>5 DEF Segment
  <2>2. handler[turn] # "open" /\ handler'[turn] \in {handler[turn], "body"}
    <3>1. turn \in Transfers /\ handler[turn] = "reading" /\ (Handle(turn, "body") \/ UNCHANGED handler)
      BY <1>0, <1>5 DEF Segment, Uploading
    <3> QED BY <1>0, <3>1, HandleFacts
  <2>3. \A s \in Transfers : s # turn => handler'[s] = handler[s]
    BY <1>0, <1>5, HandleFacts DEF Segment, Uploading
  <2> QED BY <2>1, <2>2, <2>3, FilesUntouched DEF HasBegun
<1>6. CASE ConnectionLost
  <2>1. alive' = alive /\ UNCHANGED <<file, row, turn, history>>
    BY <1>6 DEF ConnectionLost
  <2>2. handler'[turn] = handler[turn] \/ (handler[turn] = "reading" /\ handler'[turn] = "ended")
    BY <1>0, <1>6, HandleFacts DEF ConnectionLost, Uploading
  <2>3. \A s \in Transfers : s # turn => handler'[s] = handler[s]
    BY <1>0, <1>6, HandleFacts DEF ConnectionLost, Uploading
  <2> QED BY <2>1, <2>2, <2>3, FilesUntouched DEF HasBegun
<1>7. ASSUME NEW t \in Transfers, FinishPut(t) PROVE FilesKept'
  <2>1. /\ handler[t] = "open" /\ UNCHANGED <<alive, turn, row>>
        /\ handler'[t] = "none" /\ \A s \in Transfers : s # t => handler'[s] = handler[s]
    BY <1>0, <1>7, HandleFacts DEF FinishPut
  <2>2. t # turn => UNCHANGED history
    BY <1>7 DEF FinishPut
  <2>3. \A s \in Transfers : HasBegun(s)' => HasBegun(s) \/ s = t
    BY <2>1, <2>2 DEF HasBegun
  <2>4. CASE WriteFile(t)
    <3>1. file' = [file EXCEPT ![FileOf[t]] = "whole"]
      BY <2>4 DEF WriteFile
    <3> QED BY <1>0, <2>1, <2>3, <3>1, FileTouched
  <2>5. CASE WriteFails(t)
    BY <1>0, <2>1, <2>3, <2>5, WriteFailed
  <2> QED BY <1>7, <2>4, <2>5 DEF FinishPut
<1>8. ASSUME NEW t \in Transfers, Verify(t) PROVE FilesKept'
  <2>1. handler[t] = "body" /\ UNCHANGED <<alive, turn, row, history>>
    BY <1>8 DEF Verify
  <2>2. CASE Handle(t, "refused") /\ UNCHANGED fileVars
    <3>1. handler'[t] = "refused" /\ \A s \in Transfers : s # t => handler'[s] = handler[s]
      BY <1>0, <2>2, HandleFacts
    <3> QED BY <2>1, <2>2, <3>1, FilesUntouched DEF HasBegun
  <2>3. CASE Handle(t, "open") /\ OpenFile(t)
    <3>1. handler'[t] = "open" /\ \A s \in Transfers : s # t => handler'[s] = handler[s]
      BY <1>0, <2>3, HandleFacts
    <3>2. file' = [file EXCEPT ![FileOf[t]] = "cut"]
      BY <2>3 DEF OpenFile
    <3>3. \A s \in Transfers : HasBegun(s)' => HasBegun(s) \/ s = t
      BY <2>1, <3>1 DEF HasBegun
    <3> QED BY <1>0, <2>1, <3>1, <3>2, <3>3, FileTouched
  <2> QED BY <1>8, <2>2, <2>3 DEF Verify
<1>9. ASSUME NEW t \in Transfers, Save(t) PROVE FilesKept'
  <2>1. handler[t] = "open" /\ UNCHANGED <<alive, turn, row, history>>
    BY <1>9 DEF Save
  <2>2. \A s \in Transfers : s # t => handler'[s] = handler[s]
    BY <1>0, <1>9, HandleFacts DEF Save
  <2>3. \A s \in Transfers : HasBegun(s)' => HasBegun(s) \/ s = t
    BY <2>1, <2>2 DEF HasBegun
  <2>4. CASE WriteFile(t)
    <3>1. file' = [file EXCEPT ![FileOf[t]] = "whole"]
      BY <2>4 DEF WriteFile
    <3> QED BY <1>0, <2>1, <2>2, <2>3, <3>1, FileTouched
  <2>5. CASE WriteFails(t)
    BY <1>0, <2>1, <2>2, <2>3, <2>5, WriteFailed
  <2> QED BY <1>9, <2>4, <2>5 DEF Save
<1>10. ASSUME NEW t \in Transfers, Respond(t) PROVE FilesKept'
  <2>1. /\ handler[t] \in {"written", "refused"}
        /\ UNCHANGED <<alive, turn, history, file>>
    BY <1>10 DEF Respond, Answered
  <2>2. handler'[t] = "ended" /\ \A s \in Transfers : s # t => handler'[s] = handler[s]
    BY <1>0, <1>10, HandleFacts DEF Respond
  <2>3. \A s \in Transfers : row'[s] = "ok" => row[s] = "ok" \/ (s = t /\ handler[t] = "written")
    BY <1>0, <1>10, <2>1 DEF Respond, TypeOK
  <2> QED BY <2>1, <2>2, <2>3, FilesUntouched DEF HasBegun
<1>11. ASSUME NEW m \in DOMAIN up, Receive(m) PROVE FilesKept'
  <2>1. UNCHANGED <<alive, turn, row>> /\ turn \in Transfers
    BY <1>11, Begun DEF Receive
  <2>2. CASE Absorb(m)
    <3>1. UNCHANGED <<handler, file>>
      BY <2>2 DEF Absorb
    <3>2. \A a \in history' : a.code = "changed" => \E b \in history : b.code = "changed"
      <4> DEFINE new == Answer(m, CASE m.block = 0 -> "content"
                                    [] m.block > 0 /\ Continues(m) -> "continue"
                                    [] OTHER -> "incomplete")
      <4>1. new.code # "changed"
        BY DEF Answer
      <4> HIDE DEF new
      <4>2. history' = history \cup {IF Known(m) # {} THEN CHOOSE a \in Known(m) : TRUE ELSE new}
        BY <2>2 DEF Absorb, new
      <4> QED BY <4>1, <4>2 DEF Known
    <3> QED BY <2>1, <3>1, <3>2, FilesUntouched DEF HasBegun
  <2>3. CASE RenderPut(m)
    <3>1. handler'[turn] = "open" /\ \A s \in Transfers : s # turn => handler'[s] = handler[s]
      BY <1>0, <2>1, <2>3, HandleFacts DEF RenderPut
    <3>2. file' = [file EXCEPT ![FileOf[turn]] = "cut"] /\ UNCHANGED history
      BY <2>3 DEF RenderPut, OpenFile
    <3>3. \A s \in Transfers : HasBegun(s)' => HasBegun(s) \/ s = turn
      BY <2>1, <3>1, <3>2 DEF HasBegun
    <3> QED BY <1>0, <2>1, <3>1, <3>2, <3>3, FileTouched
  <2> QED BY <1>11, <2>2, <2>3 DEF Receive
<1>12. ASSUME NEW m \in DOMAIN up, Lose(m) PROVE FilesKept'
  BY <1>12, FilesUntouched DEF Lose, HasBegun
<1>13. ASSUME NEW m \in DOMAIN up, Duplicate(m) PROVE FilesKept'
  BY <1>13, FilesUntouched DEF Duplicate, HasBegun
<1>14. ASSUME NEW a \in DOMAIN down, AnswerArrives(a) PROVE FilesKept'
  <2>1. UNCHANGED <<alive, turn, handler, file, history>> /\ turn \in Transfers /\ a \in history
    BY <1>14, Begun DEF AnswerArrives, Base, DataOK
  <2>2. \A s \in Transfers : row'[s] = "ok" => row[s] = "ok" \/ (s = turn /\ a.code = "changed")
    BY <1>0, <1>14 DEF AnswerArrives, TypeOK
  <2> QED BY <2>1, <2>2, FilesUntouched DEF HasBegun
<1>15. ASSUME NEW a \in DOMAIN down, LoseAnswer(a) PROVE FilesKept'
  BY <1>15, FilesUntouched DEF LoseAnswer, HasBegun
<1>16. CASE SegmentAgain
  BY <1>16, FilesUntouched DEF SegmentAgain, HasBegun
<1>17. CASE ServerDies
  <2>1. alive' = FALSE /\ history' = {} /\ UNCHANGED <<file, row>>
    BY <1>17 DEF ServerDies
  <2>2. \A s \in Transfers : handler'[s] \notin {"open", "written"}
    BY <1>17 DEF ServerDies
  <2> QED BY <2>1, <2>2, FilesUntouched DEF HasBegun
<1>18. CASE EndTransfer
  BY <1>18, FilesUntouched DEF EndTransfer, HasBegun
<1>19. CASE UNCHANGED vars
  BY <1>19, FilesUntouched DEF vars, HasBegun
<1> QED BY <1>1, <1>2, <1>3, <1>4, <1>5, <1>6, <1>7, <1>8, <1>9, <1>10, <1>11, <1>12,
           <1>13, <1>14, <1>15, <1>16, <1>17, <1>18, <1>19, Steps

\* What the names show, together with the base.
LEMMA FilesInvariant == Spec => [](Base /\ FilesKept)
<1>1. Base /\ [Next]_vars => Base'
  BY TypeNext, DataNext, FreshNext, ProgressNext DEF Base
<1>2. Base /\ FilesKept /\ [Next]_vars => FilesKept'
  BY FilesNext
<1> QED BY BaseInit, FilesInit, <1>1, <1>2, PTL DEF Spec

\* OkFileWholeAtRest: the file of a transfer whose row says ok is whole whenever no
\* handler of its name is writing, also after overlapping handlers and retries; only
\* a write that raised leaves another one (file_manager.py:37).
THEOREM OkFileIsWholeAtRest == Spec => []OkFileWholeAtRest
<1>1. Base /\ FilesKept => OkFileWholeAtRest
  <2> SUFFICES ASSUME Base, FilesKept, NEW t \in Transfers, row[t] = "ok", alive,
                      \A s \in Transfers : FileOf[s] = FileOf[t] => handler[s] # "open"
               PROVE  file[FileOf[t]] \in {"whole", "failed"}
    BY DEF OkFileWholeAtRest
  <2>1. file[FileOf[t]] # "none"
    BY DEF FilesKept, HasBegun
  <2>2. FileOf[t] \in Files
    BY UploadPlan
  <2>3. file[FileOf[t]] # "cut"
    BY <2>2 DEF FilesKept, BeingWritten
  <2> QED BY <2>1, <2>2, <2>3 DEF Base, TypeOK
<1> QED BY FilesInvariant, <1>1, PTL

----------------------------------------------------------------------------
(* Steps of each protocol *)

\* A CoAP sweep has none of the steps of HTTP.
LEMMA CoapSteps ==
    ASSUME Base, protocol = "coap", [Next]_vars
    PROVE  \/ Probe \/ Resend \/ RequestFails \/ ServerDies \/ EndTransfer \/ UNCHANGED vars
           \/ \E t \in Transfers : FinishPut(t)
           \/ \E m \in DOMAIN up : Receive(m) \/ Lose(m) \/ Duplicate(m)
           \/ \E a \in DOMAIN down : AnswerArrives(a) \/ LoseAnswer(a)
<1>1. \A t \in Transfers : ~Verify(t) /\ ~Save(t) /\ ~Respond(t)
  BY DEF Base, Progress, Verify, Save, Respond
<1>2. ~Connect /\ ~Segment /\ ~ConnectionLost /\ ~SegmentAgain
  BY DEF Connect, Segment, ConnectionLost, SegmentAgain, Uploading
<1> QED BY <1>1, <1>2, Steps

\* An HTTP sweep has none of the steps of CoAP.
LEMMA HttpSteps ==
    ASSUME Base, protocol = "http", [Next]_vars
    PROVE  \/ Connect \/ Segment \/ ConnectionLost \/ SegmentAgain
           \/ ServerDies \/ EndTransfer \/ UNCHANGED vars
           \/ \E t \in Transfers : Verify(t) \/ Save(t) \/ Respond(t)
<1>1. \A t \in Transfers : ~FinishPut(t)
  BY DEF FinishPut
<1>2. ~Probe /\ ~Resend /\ ~RequestFails
  BY DEF Probe, Resend, RequestFails, Waiting
<1> QED BY <1>1, <1>2, Begun, Steps

\* The protocol of a sweep stays the same.
LEMMA OneProtocol ==
    ASSUME Base, [Next]_vars
    PROVE  protocol' = protocol /\ protocol \in {"http", "coap"}
<1>1. protocol' = protocol
  BY Steps DEF vars, Probe, Resend, RequestFails, Connect, Segment, ConnectionLost, FinishPut,
               Verify, Save, Respond, Receive, Lose, Duplicate, AnswerArrives, LoseAnswer,
               SegmentAgain, ServerDies, EndTransfer
<1> QED BY <1>1 DEF Base, DataOK

\* The answer to a message that does not reach render_put: the one of the history,
\* or a new one that is not about a file that was saved.
LEMMA Absorbed ==
    ASSUME Base, NEW m \in DOMAIN up, Absorb(m)
    PROVE  \E answer :
             /\ history' = history \cup {answer} /\ down' = BagAdd(down, answer)
             /\ \/ Known(m) # {} /\ answer \in Known(m)
                \/ /\ Known(m) = {} /\ answer.id = m.id
                   /\ answer \in [id : Nat, code : {"content", "continue", "incomplete"}]
                   /\ answer.code = "content" <=> m.block = 0
<1> DEFINE code == CASE m.block = 0 -> "content"
                     [] m.block > 0 /\ Continues(m) -> "continue"
                     [] OTHER -> "incomplete"
           new == Answer(m, code)
           answer == IF Known(m) # {} THEN CHOOSE a \in Known(m) : TRUE ELSE new
<1>1. m.id \in Nat /\ m.block \in Nat
  BY DEF Base, DataOK
<1>2. code \in {"content", "continue", "incomplete"} /\ (code = "content" <=> m.block = 0)
  BY <1>1
<1>3. /\ new.id = m.id /\ new.code = code
      /\ new \in [id : Nat, code : {"content", "continue", "incomplete"}]
  BY <1>1, <1>2 DEF Answer
<1>4. history' = history \cup {answer} /\ down' = BagAdd(down, answer)
  BY DEF Absorb
<1>5. CASE Known(m) # {}
  <2>1. answer \in Known(m)
    BY <1>5
  <2> QED BY <1>4, <1>5, <2>1, Zenon
<1>6. CASE Known(m) = {}
  <2>1. answer = new
    BY <1>6
  <2> HIDE DEF new, code, answer
  <2>2. answer.id = m.id /\ (answer.code = "content" <=> m.block = 0)
    BY <1>2, <1>3, <2>1
  <2>3. answer \in [id : Nat, code : {"content", "continue", "incomplete"}]
    BY <1>3, <2>1
  <2> QED BY <1>4, <1>6, <2>2, <2>3, Zenon
<1> QED BY <1>5, <1>6

----------------------------------------------------------------------------
(* The messages of earlier attempts *)

\* The late messages are finitely many, of those that were sent.
LEMMA LateFacts ==
    ASSUME Base
    PROVE  IsFiniteSet(Late) /\ Late \subseteq 1 .. sent /\ Cardinality(Late) \in Nat
<1>1. Late \subseteq 1 .. sent
  BY DEF Base, DataOK, Late
<1>2. IsFiniteSet(1 .. sent)
  BY FS_Interval DEF Base, DataOK
<1> QED BY <1>1, <1>2, Shrinks

\* Without a new message nothing more is late.
LEMMA NoneLater ==
    ASSUME DOMAIN up' \subseteq DOMAIN up, sent' = sent, history \subseteq history'
    PROVE  Late' \subseteq Late /\ \A a \in history' : a.id \notin Late'
BY DEF Late, IdsOf

\* With a new message the one before it may be late.
LEMMA LateRequest ==
    ASSUME Base, NEW k \in Nat, Request(k), UNCHANGED history
    PROVE  /\ Late' \subseteq Late \cup {sent}
           /\ sent \in IdsOf(history) => Late' \subseteq Late
           /\ (\A m \in DOMAIN up : m.block = 0) => Late' = {}
<1>1. /\ DOMAIN up' = DOMAIN up \cup {[id |-> sent + 1, block |-> k]}
      /\ sent' = sent + 1
  BY RequestData
<1>2. ASSUME NEW x \in Late'
      PROVE  x \notin IdsOf(history) /\ \E m \in DOMAIN up : m.block > 0 /\ m.id = x
  <2>1. PICK m \in DOMAIN up' : m.block > 0 /\ m.id = x
    BY <1>2 DEF Late
  <2>2. x # sent + 1 /\ x \notin IdsOf(history)
    BY <1>1, <1>2 DEF Late, IdsOf
  <2> QED BY <1>1, <2>1, <2>2
<1>3. ASSUME NEW x \in Late', x # sent PROVE x \in Late
  BY <1>2, <1>3 DEF Late
<1> QED BY <1>2, <1>3

\* Every step keeps what the client's attempts are about: before the first one only
\* the probe has been sent, and then the last message asks about a block.
LEMMA AttemptsNext ==
    ASSUME Base, Attempts, [Next]_vars
    PROVE  Attempts'
<1> SUFFICES ASSUME protocol = "coap" PROVE Attempts'
  BY OneProtocol DEF Attempts
<1>0. /\ TypeOK /\ {exchange, sent, attempt} \subseteq Nat
      /\ \A m \in DOMAIN up : m.id \in 1 .. sent /\ m.block \in Nat
      /\ \A a \in history : a.id \in 1 .. sent
      /\ DOMAIN down \subseteq history
      /\ pc = "idle" => attempt = 0 /\ up = EmptyBag /\ history = {}
      /\ pc # "raised" /\ (pc # "idle" => turn \in Transfers)
      /\ pc \in {"idle", "probe", "put", "returned"}
  BY DEF Base, DataOK, TypeOK, Fresh
<1> USE DEF Attempts
<1>1. CASE Probe
  <2>1. pc' = "probe" /\ UNCHANGED <<attempt, turn, handler, history>> /\ pc = "idle"
    BY <1>1 DEF Probe
  <2>2. exchange' = 0 /\ DOMAIN up' = DOMAIN up \cup {[id |-> sent + 1, block |-> 0]}
    BY <1>1, 0 \in Nat, RequestData DEF Probe
  <2> QED BY <1>0, <2>1, <2>2, EmptyFacts
<1>2. CASE Resend
  <2>1. UNCHANGED <<pc, attempt, exchange, sent, turn, handler, history>> /\ pc # "idle"
    BY <1>2, ResendData DEF Resend, Waiting
  <2>2. DOMAIN up' \subseteq DOMAIN up \cup {[id |-> sent, block |-> exchange]}
    BY <1>2, ResendData
  <2> QED BY <1>0, <2>1, <2>2
<1>3. CASE RequestFails
  <2>1. CASE Request(1) /\ attempt' \in {1, attempt + 1} /\ pc' = "put"
    <3>1. /\ exchange' = 1 /\ sent' = sent + 1
          /\ DOMAIN up' = DOMAIN up \cup {[id |-> sent + 1, block |-> 1]}
      BY <2>1, 1 \in Nat, RequestData
    <3>2. UNCHANGED <<turn, handler, history>>
      BY <1>3 DEF RequestFails
    <3> QED BY <1>0, <2>1, <3>1, <3>2
  <2>2. CASE pc = "put" /\ pc' = "returned" /\ UNCHANGED <<clientVars, up>>
    BY <1>0, <1>3, <2>2 DEF RequestFails
  <2> QED BY <1>3, <2>1, <2>2 DEF RequestFails
<1>4. ASSUME NEW t \in Transfers, FinishPut(t) PROVE Attempts'
  <2>1. UNCHANGED <<protocol, pc, attempt, exchange, sent, up>>
    BY <1>4 DEF FinishPut
  <2>2. \A a \in history' : a \in history \/ (a.code # "content" /\ t = turn)
    BY <1>4 DEF FinishPut
  <2>3. t = turn => attempt > 0
    <3>1. CASE attempt = 0 /\ t = turn
      BY <1>4, <3>1 DEF FinishPut
    <3> QED BY <1>0, <3>1
  <2>4. \A s \in Transfers : handler'[s] = "open" => handler[s] = "open"
    BY <1>0, <1>4, HandleFacts DEF FinishPut
  <2>5. turn' = turn
    BY <1>4 DEF FinishPut
  <2> QED BY <1>0, <2>1, <2>2, <2>3, <2>4, <2>5
<1>5. ASSUME NEW m \in DOMAIN up, Receive(m) PROVE Attempts'
  <2>1. UNCHANGED <<protocol, pc, turn, attempt, exchange, sent>>
    BY <1>5 DEF Receive
  <2>2. DOMAIN up' \subseteq DOMAIN up
    BY <1>5, UpData DEF Receive
  <2>3. CASE Absorb(m)
    <3>1. PICK answer :
             /\ history' = history \cup {answer}
             /\ \/ answer \in history
                \/ /\ answer.id = m.id
                   /\ answer.code = "content" <=> m.block = 0
      BY <2>3, Absorbed DEF Known
    <3>2. ASSUME answer \notin history, attempt = 0 PROVE answer.code = "content"
      BY <1>0, <3>1, <3>2
    <3>3. ASSUME answer \notin history, attempt > 0, answer.code = "content" PROVE answer.id < sent
      <4>1. m.id # sent
        BY <1>0, <3>1, <3>3
      <4> QED BY <1>0, <3>1, <3>3, <4>1
    <3>4. UNCHANGED handler
      BY <2>3 DEF Absorb
    <3> QED BY <1>0, <2>1, <2>2, <3>1, <3>2, <3>3, <3>4
  <2>4. CASE RenderPut(m)
    <3>1. m.block > 0
      BY <2>4, Begun, UploadPlan DEF RenderPut, Last
    <3> QED BY <1>0, <2>1, <2>2, <2>4, <3>1 DEF RenderPut
  <2> QED BY <1>5, <2>3, <2>4 DEF Receive
<1>6. ASSUME NEW m \in DOMAIN up, Lose(m) PROVE Attempts'
  <2>1. DOMAIN up' \subseteq DOMAIN up
    BY <1>6, UpData DEF Lose
  <2> QED BY <1>0, <1>6, <2>1 DEF Lose
<1>7. ASSUME NEW m \in DOMAIN up, Duplicate(m) PROVE Attempts'
  <2>1. DOMAIN up' \subseteq DOMAIN up
    BY <1>7, UpData DEF Duplicate
  <2> QED BY <1>0, <1>7, <2>1 DEF Duplicate
<1>8. ASSUME NEW a \in DOMAIN down, AnswerArrives(a) PROVE Attempts'
  <2>1. UNCHANGED <<protocol, turn, handler, history>> /\ a \in history
    BY <1>0, <1>8 DEF AnswerArrives
  <2>2. CASE UNCHANGED <<pc, clientVars, up>>
    BY <1>0, <2>1, <2>2
  <2>3. CASE Request(exchange + 1) /\ a.id = sent /\ a.code \in {"content", "continue"}
             /\ pc' = "put" /\ attempt' = IF a.code = "content" THEN 1 ELSE attempt
    <3>1. exchange + 1 \in Nat
      BY <1>0
    <3>2. /\ exchange' = exchange + 1 /\ sent' = sent + 1
          /\ DOMAIN up' = DOMAIN up \cup {[id |-> sent + 1, block |-> exchange + 1]}
      BY <2>3, <3>1, RequestData
    <3>3. attempt' > 0 /\ attempt' \in Nat
      BY <1>0, <2>1, <2>3
    <3> QED BY <1>0, <2>1, <2>3, <3>1, <3>2, <3>3
  <2>4. CASE UNCHANGED <<clientVars, up>> /\ a.id = sent /\ a.code \in {"changed", "error", "incomplete"}
             /\ pc' = "returned"
    BY <1>0, <2>1, <2>4
  <2> QED BY <1>8, <2>2, <2>3, <2>4 DEF AnswerArrives
<1>9. ASSUME NEW a \in DOMAIN down, LoseAnswer(a) PROVE Attempts'
  BY <1>9 DEF LoseAnswer
<1>10. CASE ServerDies
  BY <1>0, <1>10, EmptyFacts DEF ServerDies
<1>11. CASE EndTransfer
  <2>1. turn' \in Transfers => handler'[turn'] # "open"
    BY <1>0, <1>11 DEF EndTransfer, Base, Progress, TypeOK
  <2> QED BY <1>0, <1>11, <2>1, EmptyFacts DEF EndTransfer
<1>12. CASE UNCHANGED vars
  BY <1>12 DEF vars
<1> QED BY <1>1, <1>2, <1>3, <1>4, <1>5, <1>6, <1>7, <1>8, <1>9, <1>10, <1>11, <1>12, CoapSteps

\* Every step keeps that each attempt but the last left at most one message behind:
\* a client goes on only when its message was answered or it gave it up
\* (coap_client.py:63).
LEMMA FewLateNext ==
    ASSUME Base, Attempts, FewLate, [Next]_vars
    PROVE  FewLate'
<1> SUFFICES ASSUME protocol = "coap" PROVE FewLate'
  BY OneProtocol DEF FewLate
<1> DEFINE Few == Cardinality(Late) <= attempt /\ (attempt > 0 => Cardinality(Late) < attempt)
<1>0. /\ {exchange, sent, attempt} \subseteq Nat /\ Few
      /\ IsFiniteSet(Late) /\ Cardinality(Late) \in Nat
  BY LateFacts DEF Base, DataOK, TypeOK, FewLate
\* no attempt begins, and nothing becomes late
<1>a. ASSUME Late' \subseteq Late, attempt' = attempt PROVE FewLate'
  <2>1. Cardinality(Late') \in Nat /\ Cardinality(Late') <= Cardinality(Late)
    BY <1>0, <1>a, Shrinks
  <2> QED BY <1>0, <1>a, <2>1 DEF FewLate
\* nothing is late
<1>b. ASSUME Late' = {}, attempt' \in Nat PROVE FewLate'
  BY <1>b, FS_EmptySet DEF FewLate
<1>1. CASE Probe
  <2>1. Request(0) /\ UNCHANGED <<attempt, history>> /\ \A m \in DOMAIN up : FALSE
    BY <1>1, EmptyFacts DEF Probe, Base, Fresh
  <2> QED BY <1>0, <1>b, <2>1, 0 \in Nat, LateRequest
<1>2. CASE Resend
  <2>1. DOMAIN up' \subseteq DOMAIN up \cup {[id |-> sent, block |-> exchange]}
    BY <1>2, ResendData
  <2>2. UNCHANGED <<sent, history, attempt>>
    BY <1>2 DEF Resend
  <2>3. Late' \subseteq Late
    BY <2>1, <2>2 DEF Late, IdsOf
  <2> QED BY <1>a, <2>2, <2>3
<1>3. CASE RequestFails
  <2>1. CASE Request(1) /\ pc = "probe" /\ attempt' = 1 /\ UNCHANGED history
    <3>1. attempt = 0
      BY <2>1 DEF Attempts
    <3>2. Late' = {}
      BY <2>1, <3>1, 1 \in Nat, LateRequest DEF Attempts
    <3> QED BY <1>b, <2>1, <3>2
  <2>2. CASE Request(1) /\ attempt' = attempt + 1 /\ UNCHANGED history /\ pc = "put"
    <3>1. Late' \subseteq Late \cup {sent}
      BY <2>2, 1 \in Nat, LateRequest
    <3>2. Cardinality(Late') \in Nat /\ Cardinality(Late') <= Cardinality(Late) + 1
      BY <1>0, <3>1, GrowsByOne
    <3>3. Cardinality(Late) < attempt
      BY <1>0, <2>2 DEF Attempts
    <3> QED BY <1>0, <2>2, <3>2, <3>3 DEF FewLate
  <2>3. CASE UNCHANGED <<clientVars, up, history>>
    BY <1>a, <2>3 DEF Late, IdsOf
  <2> QED BY <1>3, <2>1, <2>2, <2>3 DEF RequestFails
<1>4. ASSUME NEW t \in Transfers, FinishPut(t) PROVE FewLate'
  <2>1. UNCHANGED <<attempt, sent, up>> /\ history \subseteq history'
    BY <1>4 DEF FinishPut
  <2> QED BY <1>a, <2>1, NoneLater
<1>5. ASSUME NEW m \in DOMAIN up, Receive(m) \/ Lose(m) \/ Duplicate(m) PROVE FewLate'
  <2>1. UNCHANGED <<attempt, sent>> /\ history \subseteq history'
    BY <1>5 DEF Receive, Absorb, RenderPut, Lose, Duplicate
  <2>2. up' = BagRemove(up, m) \/ up' = BagAdd(up, m)
    BY <1>5 DEF Receive, Lose, Duplicate
  <2> QED BY <1>a, <2>1, <2>2, UpData, NoneLater
<1>6. ASSUME NEW a \in DOMAIN down, AnswerArrives(a) PROVE FewLate'
  <2>1. UNCHANGED history /\ a \in history
    BY <1>6 DEF AnswerArrives, Base, DataOK
  <2>2. CASE UNCHANGED <<clientVars, up>>
    BY <1>a, <2>1, <2>2, NoneLater
  <2>3. CASE Request(exchange + 1) /\ a.id = sent
             /\ attempt' = IF a.code = "content" THEN 1 ELSE attempt
    <3>1. exchange + 1 \in Nat /\ sent \in IdsOf(history)
      BY <1>0, <2>1, <2>3 DEF IdsOf
    <3>2. Late' \subseteq Late /\ ((\A m \in DOMAIN up : m.block = 0) => Late' = {})
      BY <2>1, <2>3, <3>1, LateRequest
    <3>3. CASE attempt > 0
      <4>1. a.code # "content"
        BY <1>0, <2>1, <2>3, <3>3 DEF Attempts
      <4> QED BY <1>a, <2>3, <3>2, <4>1
    <3>4. CASE attempt = 0
      BY <1>b, <2>3, <3>2, <3>4 DEF Attempts
    <3> QED BY <1>0, <3>3, <3>4
  <2> QED BY <1>6, <2>2, <2>3 DEF AnswerArrives
<1>7. ASSUME NEW a \in DOMAIN down, LoseAnswer(a) PROVE FewLate'
  BY <1>a, <1>7, NoneLater DEF LoseAnswer
<1>8. CASE ServerDies \/ EndTransfer
  <2>1. attempt' \in Nat /\ Late' = {}
    BY <1>0, <1>8, EmptyFacts DEF ServerDies, EndTransfer, Late
  <2> QED BY <1>b, <2>1
<1>9. CASE UNCHANGED vars
  BY <1>a, <1>9, NoneLater DEF vars
<1> QED BY <1>1, <1>2, <1>3, <1>4, <1>5, <1>6, <1>7, <1>8, <1>9, CoapSteps

----------------------------------------------------------------------------
(* A file that was put together is not put together again *)

\* aiocoap hands the last block of what is late to render_put only if nothing of
\* the client's last message was.
LEMMA PutIsNew ==
    ASSUME Base, Attempts, FewLate, NotAgain, OkIsSound, protocol = "coap",
           NEW m \in DOMAIN up, Receive(m), RenderPut(m)
    PROVE  ~Settled /\ row[turn] # "ok" /\ attempt > 0
<1>0. /\ sent \in Nat /\ assembled \in Nat /\ m.id \in 1 .. sent /\ m.block \in Nat
      /\ turn \in Transfers /\ alive /\ Idle /\ Last \in Nat /\ Last > 0
  BY Begun, UploadPlan DEF Base, DataOK, Receive, Last
<1>1. m.block = Last /\ Known(m) = {} /\ (Last = 1 \/ assembled = Last - 1)
  BY <1>0 DEF RenderPut, Continues
<1>2. attempt > 0
  BY <1>0, <1>1 DEF Attempts, Base, TypeOK
<1>3. ~Settled
  <2> SUFFICES ASSUME Settled PROVE FALSE
    OBVIOUS
  <2>1. [id |-> sent, code |-> "changed"] \in history
    BY <1>0 DEF Settled, Idle
  <2>2. m.id # sent /\ m.id \notin IdsOf(history)
    BY <1>1, <2>1 DEF Known, IdsOf
  <2>3. m.id \in Late
    BY <1>0, <1>1, <2>2 DEF Late
  <2>4. IsFiniteSet(Late) /\ Cardinality(Late) \in Nat /\ Cardinality(Late) > 0
    BY <2>3, LateFacts, FS_EmptySet
  <2> QED BY <1>0, <1>1, <2>4 DEF NotAgain
<1> QED BY <1>0, <1>2, <1>3 DEF OkIsSound

\* Every step keeps that the late messages are too few to complete the file again
\* once the server has saved it from the client's last message, if no file is shorter
\* than the attempts there are.
LEMMA NotAgainNext ==
    ASSUME protocol = "coap" => LongFiles,
           Base, Attempts, FewLate, NotAgain, OkIsSound, [Next]_vars
    PROVE  NotAgain'
<1> SUFFICES ASSUME protocol = "coap", alive', Settled'
             PROVE  Cardinality(Late') + assembled' < Last'
  BY OneProtocol DEF NotAgain
<1>0. /\ {sent, assembled} \subseteq Nat
      /\ \A m \in DOMAIN up : m.id \in 1 .. sent /\ m.block \in Nat
      /\ \A a \in history : a.id \in 1 .. sent
      /\ IsFiniteSet(Late) /\ Cardinality(Late) \in Nat
      /\ turn \in Transfers /\ handler[turn] = "open" => serving \in 1 .. sent
  BY LateFacts DEF Base, DataOK, Progress
\* nothing becomes late, and nothing is put together
<1>a. ASSUME alive, Settled, Late' \subseteq Late, assembled' = assembled, turn' = turn
      PROVE  Cardinality(Late') + assembled' < Last'
  <2>1. Cardinality(Late') \in Nat /\ Cardinality(Late') <= Cardinality(Late)
    BY <1>0, <1>a, Shrinks
  <2>2. Last' = Last /\ Last \in Nat
    BY <1>a, UploadPlan DEF Last, Settled
  <2> QED BY <1>0, <1>a, <2>1, <2>2 DEF NotAgain
\* a new message is not answered yet
<1>b. ASSUME NEW k \in Nat, Request(k), UNCHANGED <<turn, handler, serving, history>> PROVE FALSE
  <2>1. sent' = sent + 1
    BY <1>b, RequestData
  <2> QED BY <1>0, <1>b, <2>1 DEF Settled
<1>c. ASSUME UNCHANGED <<turn, sent, handler, serving, history>> PROVE Settled
  BY <1>c DEF Settled
<1>1. CASE Probe
  BY <1>1, <1>b, 0 \in Nat DEF Probe
<1>2. CASE Resend
  <2>1. UNCHANGED <<alive, turn, sent, handler, serving, history, assembled>>
    BY <1>2 DEF Resend
  <2>2. DOMAIN up' \subseteq DOMAIN up \cup {[id |-> sent, block |-> exchange]}
    BY <1>2, ResendData
  <2>3. Late' \subseteq Late
    BY <2>1, <2>2 DEF Late, IdsOf
  <2> QED BY <1>a, <1>c, <2>1, <2>3
<1>3. CASE RequestFails
  <2>1. UNCHANGED <<alive, turn, handler, serving, history, assembled>>
    BY <1>3 DEF RequestFails
  <2>2. CASE Request(1)
    BY <1>b, <2>1, <2>2, 1 \in Nat
  <2>3. CASE UNCHANGED <<clientVars, up>>
    BY <1>a, <1>c, <2>1, <2>3, NoneLater
  <2> QED BY <1>3, <2>2, <2>3 DEF RequestFails
<1>4. ASSUME NEW t \in Transfers, FinishPut(t)
      PROVE  Cardinality(Late') + assembled' < Last'
  <2>1. UNCHANGED <<alive, turn, sent, up, assembled>> /\ history \subseteq history'
    BY <1>4 DEF FinishPut
  <2>2. Settled
    <3>1. handler'[t] # "open" /\ handler[t] = "open"
          /\ \A s \in Transfers : s # t => handler'[s] = handler[s]
      BY <1>4, HandleFacts DEF FinishPut, Base
    <3>2. CASE t = turn
      <4>1. [id |-> sent, code |-> "changed"] \in history'
        BY <2>1, <3>1, <3>2 DEF Settled
      <4>2. [id |-> sent, code |-> "changed"] \in history \/ serving = sent
        BY <1>4, <4>1 DEF FinishPut
      <4> QED BY <3>1, <3>2, <4>2 DEF Settled
    <3>3. CASE t # turn
      <4>1. UNCHANGED history /\ serving' = None
        BY <1>4, <3>3 DEF FinishPut
      <4>2. handler'[turn] # "open" \/ turn \notin Transfers
        BY <1>4, <3>1, <3>3 DEF Base, Progress, FinishPut
      <4> QED BY <2>1, <4>1, <4>2 DEF Settled
    <3> QED BY <3>2, <3>3
  <2> QED BY <1>a, <2>1, <2>2, NoneLater
<1>5. ASSUME NEW m \in DOMAIN up, Receive(m)
      PROVE  Cardinality(Late') + assembled' < Last'
  <2>1. UNCHANGED <<alive, turn, sent>> /\ turn \in Transfers /\ Idle /\ alive /\ history \subseteq history'
    BY <1>5, Begun DEF Receive, Absorb, RenderPut
  <2>2. Late' \subseteq Late /\ \A a \in history' : a.id \notin Late'
    BY <1>5, <2>1, UpData, NoneLater DEF Receive
  <2>3. CASE Absorb(m)
    <3>1. PICK answer :
             /\ history' = history \cup {answer}
             /\ \/ answer \in Known(m)
                \/ Known(m) = {} /\ answer.id = m.id /\ answer.code # "changed"
      BY <2>3, Absorbed
    <3>2. [id |-> sent, code |-> "changed"] \in history /\ Settled
      <4>1. [id |-> sent, code |-> "changed"] \in history'
        BY <2>1, <2>3 DEF Absorb, Settled, Idle
      <4> QED BY <2>1, <3>1, <4>1 DEF Known, Settled
    <3>3. CASE assembled' = assembled
      BY <1>a, <2>1, <2>2, <3>2, <3>3
    <3>4. CASE assembled' # assembled
      <4>1. /\ Known(m) = {} /\ m.block > 0 /\ Continues(m) /\ assembled' = m.block
        BY <2>3, <3>4 DEF Absorb
      <4>2. assembled' \in Nat /\ assembled' <= assembled + 1
        BY <1>0, <4>1 DEF Continues
      <4>3. m.id # sent /\ m.id \notin IdsOf(history)
        BY <3>2, <4>1 DEF Known, IdsOf
      <4>4. m.id \in Late
        BY <4>1, <4>3 DEF Late
      <4>5. m.id \notin Late'
        BY <2>2, <3>1, <4>1
      <4>6. Cardinality(Late') \in Nat /\ Cardinality(Late') < Cardinality(Late)
        BY <1>0, <2>2, <4>4, <4>5, Shrinks
      <4>7. Last' = Last /\ Last \in Nat
        BY <2>1, UploadPlan DEF Last
      <4> QED BY <1>0, <2>1, <3>2, <4>2, <4>6, <4>7 DEF NotAgain
    <3> QED BY <3>3, <3>4
  <2>4. CASE RenderPut(m)
    <3>1. assembled' = 0 /\ attempt > 0
      BY <1>5, <2>4, PutIsNew DEF RenderPut
    <3>2. Cardinality(Late') \in Nat /\ Cardinality(Late') <= Cardinality(Late)
      BY <1>0, <2>2, Shrinks
    <3>3. Cardinality(Late) < attempt
      BY <3>1 DEF FewLate
    <3>4. attempt <= MaxAttempts /\ attempt \in Nat
      BY UploadPlan DEF Base, TypeOK
    <3>5. MaxAttempts <= Last /\ Last' = Last /\ Last \in Nat
      BY <2>1, UploadPlan DEF LongFiles, Last
    <3> QED BY <1>0, <3>1, <3>2, <3>3, <3>4, <3>5, UploadPlan
  <2> QED BY <1>5, <2>3, <2>4 DEF Receive
<1>6. ASSUME NEW m \in DOMAIN up, Lose(m) \/ Duplicate(m)
      PROVE  Cardinality(Late') + assembled' < Last'
  <2>1. UNCHANGED <<alive, turn, sent, handler, serving, history, assembled>>
    BY <1>6 DEF Lose, Duplicate
  <2>2. DOMAIN up' \subseteq DOMAIN up
    BY <1>6, UpData DEF Lose, Duplicate
  <2> QED BY <1>a, <1>c, <2>1, <2>2, NoneLater
<1>7. ASSUME NEW a \in DOMAIN down, AnswerArrives(a) \/ LoseAnswer(a)
      PROVE  Cardinality(Late') + assembled' < Last'
  <2>1. UNCHANGED <<alive, turn, handler, serving, history, assembled>>
    BY <1>7 DEF AnswerArrives, LoseAnswer
  <2>2. CASE Request(exchange + 1)
    <3>1. exchange + 1 \in Nat
      BY DEF Base, DataOK
    <3> QED BY <1>b, <2>1, <2>2, <3>1
  <2>3. CASE UNCHANGED <<clientVars, up>>
    BY <1>a, <1>c, <2>1, <2>3, NoneLater
  <2> QED BY <1>7, <2>2, <2>3 DEF AnswerArrives, LoseAnswer
<1>8. CASE ServerDies
  BY <1>8 DEF ServerDies
<1>9. CASE EndTransfer
  <2>1. history' = {} /\ UNCHANGED handler /\ turn' = turn + 1 /\ turn \in Nat
    BY <1>9, Begun DEF EndTransfer
  <2>2. turn' \in Transfers => handler[turn'] = "none"
    BY <2>1 DEF Base, Progress
  <2> QED BY <2>1, <2>2 DEF Settled
<1>10. CASE UNCHANGED vars
  BY <1>10, <1>a, <1>c, NoneLater DEF vars
<1> QED BY <1>1, <1>2, <1>3, <1>4, <1>5, <1>6, <1>7, <1>8, <1>9, <1>10, CoapSteps

\* Every step of CoAP keeps that 2.04 is sent of a file that is whole, and that it
\* stays whole: no late message makes render_put open it again.
LEMMA OkCoap ==
    ASSUME Base, Attempts, FewLate, NotAgain, OkIsSound, protocol = "coap", [Next]_vars
    PROVE  OkIsSound'
<1> SUFFICES ASSUME turn' \in Transfers PROVE OkIsSound'
  BY OneProtocol DEF OkIsSound
<1>0. /\ TypeOK /\ sent \in Nat
      /\ \A a \in history : a.id \in 1 .. sent
      /\ DOMAIN down \subseteq history
  BY DEF Base, DataOK
\* nothing that matters changes
<1>a. ASSUME UNCHANGED <<alive, turn, sent, handler, serving, history, file, row>>
      PROVE  OkIsSound'
  BY <1>a, OneProtocol DEF OkIsSound, Settled
\* a new message: it is not answered yet, and the row is not there
<1>b. ASSUME NEW k \in Nat, Request(k), row'[turn'] # "ok", UNCHANGED history
      PROVE  OkIsSound'
  <2>1. sent' = sent + 1
    BY <1>b, RequestData
  <2>2. [id |-> sent', code |-> "changed"] \notin history'
    BY <1>0, <1>b, <2>1
  <2> QED BY <1>b, <2>2, OneProtocol DEF OkIsSound
<1>1. CASE Probe
  <2>1. Request(0) /\ UNCHANGED <<row, turn, history>> /\ pc = "idle" /\ turn \in Nat
    BY <1>1, Begun DEF Probe
  <2>2. row[turn] # "ok"
    BY <2>1 DEF Base, Progress
  <2> QED BY <1>b, <2>1, <2>2, 0 \in Nat
<1>2. CASE Resend
  BY <1>2, <1>a DEF Resend
<1>3. CASE RequestFails
  <2>1. CASE Request(1)
    <3>1. pc # "returned" /\ UNCHANGED <<row, turn, history>> /\ turn \in Nat
      BY <1>3, Begun DEF RequestFails, Waiting
    <3>2. row[turn] # "ok"
      BY <3>1 DEF Base, Progress
    <3> QED BY <1>b, <2>1, <3>1, <3>2, 1 \in Nat
  <2>2. CASE UNCHANGED clientVars
    BY <1>3, <2>2, <1>a DEF RequestFails
  <2> QED BY <1>3, <2>1, <2>2 DEF RequestFails
<1>4. ASSUME NEW t \in Transfers, FinishPut(t) PROVE OkIsSound'
  <2>1. /\ UNCHANGED <<alive, turn, sent, row>> /\ history \subseteq history'
        /\ handler[t] = "open" /\ handler'[t] = "none"
        /\ \A s \in Transfers : s # t => handler'[s] = handler[s]
    BY <1>0, <1>4, HandleFacts DEF FinishPut
  <2>2. turn \in Transfers
    BY <2>1
  \* the file of a name that shows a whole one still does
  <2>3. file[FileOf[turn]] = "whole" => file'[FileOf[turn]] = "whole"
    BY <1>0, <1>4, <2>2, UploadPlan DEF FinishPut, WriteFile, WriteFails, TypeOK
  <2>4. ASSUME [id |-> sent, code |-> "changed"] \in history'
        PROVE  handler'[turn] # "open" /\ file'[FileOf[turn]] = "whole"
    <3>1. CASE [id |-> sent, code |-> "changed"] \in history
      BY <2>1, <2>2, <2>3, <3>1 DEF OkIsSound
    <3>2. CASE [id |-> sent, code |-> "changed"] \notin history
      <4>1. t = turn /\ WriteFile(t)
        BY <1>4, <2>4, <3>2 DEF FinishPut
      <4> QED BY <1>0, <2>1, <4>1, UploadPlan DEF WriteFile, TypeOK
    <3> QED BY <3>1, <3>2
  <2>5. ASSUME alive, row[turn] = "ok" PROVE Settled' /\ handler'[turn] # "open"
    <3>1. handler[turn] # "open" /\ [id |-> sent, code |-> "changed"] \in history
      BY <2>2, <2>5 DEF OkIsSound, Settled
    <3> QED BY <2>1, <2>2, <3>1 DEF Settled
  <2> QED BY <2>1, <2>4, <2>5, OneProtocol DEF OkIsSound
<1>5. ASSUME NEW m \in DOMAIN up, Receive(m) PROVE OkIsSound'
  <2>1. UNCHANGED <<alive, turn, sent, row>> /\ turn \in Transfers /\ Idle /\ history \subseteq history'
    BY <1>5, Begun DEF Receive, Absorb, RenderPut
  <2>2. CASE Absorb(m)
    <3>1. PICK answer :
             /\ history' = history \cup {answer}
             /\ answer \in Known(m) \/ answer.code # "changed"
      BY <2>2, Absorbed
    <3>2. [id |-> sent, code |-> "changed"] \in history' <=> [id |-> sent, code |-> "changed"] \in history
      BY <3>1 DEF Known
    <3>3. UNCHANGED <<handler, serving, file>>
      BY <2>2 DEF Absorb
    <3> QED BY <2>1, <3>2, <3>3, OneProtocol DEF OkIsSound, Settled
  <2>3. CASE RenderPut(m)
    <3>1. ~Settled /\ row[turn] # "ok" /\ UNCHANGED history
      BY <1>5, <2>3, PutIsNew DEF RenderPut
    <3> QED BY <2>1, <3>1, OneProtocol DEF OkIsSound, Settled
  <2> QED BY <1>5, <2>2, <2>3 DEF Receive
<1>6. ASSUME NEW m \in DOMAIN up, Lose(m) \/ Duplicate(m) PROVE OkIsSound'
  BY <1>6, <1>a DEF Lose, Duplicate
<1>7. ASSUME NEW a \in DOMAIN down, AnswerArrives(a) PROVE OkIsSound'
  <2>1. UNCHANGED <<alive, turn, handler, serving, history, file>> /\ turn \in Transfers /\ a \in history
    BY <1>0, <1>7, Begun DEF AnswerArrives
  <2>2. CASE UNCHANGED <<clientVars, row>>
    BY <2>1, <2>2, <1>a
  <2>3. CASE Request(exchange + 1) /\ UNCHANGED row /\ Waiting
    <3>1. row[turn] # "ok"
      BY <2>1, <2>3 DEF Base, Progress, Waiting, Transfers
    <3>2. exchange + 1 \in Nat
      BY DEF Base, DataOK
    <3> QED BY <1>b, <2>1, <2>3, <3>1, <3>2
  <2>4. CASE /\ a.id = sent /\ UNCHANGED clientVars
             /\ row' = [row EXCEPT ![turn] = IF a.code = "changed" THEN "ok" ELSE "corrupt"]
    <3>1. row'[turn] = "ok" => a.code = "changed"
      BY <1>0, <2>1, <2>4 DEF TypeOK
    <3>2. a.code = "changed" => [id |-> sent, code |-> "changed"] \in history
      BY <2>1, <2>4 DEF Base, DataOK
    <3>3. row'[turn] = "ok" => Settled' /\ handler'[turn] # "open"
      BY <2>1, <2>4, <3>1, <3>2 DEF OkIsSound, Settled
    <3> QED BY <2>1, <2>4, <3>3, OneProtocol DEF OkIsSound
  <2> QED BY <1>7, <2>2, <2>3, <2>4 DEF AnswerArrives
<1>8. ASSUME NEW a \in DOMAIN down, LoseAnswer(a) PROVE OkIsSound'
  BY <1>8, <1>a DEF LoseAnswer
<1>9. CASE ServerDies
  BY <1>9, OneProtocol DEF ServerDies, OkIsSound
<1>10. CASE EndTransfer
  <2>1. history' = {} /\ UNCHANGED row /\ turn' = turn + 1 /\ turn \in Nat
    BY <1>10, Begun DEF EndTransfer
  <2>2. turn' \in Transfers => row[turn'] = "none"
    BY <2>1 DEF Base, Progress, Transfers
  <2> QED BY <2>1, <2>2, OneProtocol DEF OkIsSound
<1>11. CASE UNCHANGED vars
  BY <1>11, <1>a DEF vars
<1> QED BY <1>1, <1>2, <1>3, <1>4, <1>5, <1>6, <1>7, <1>8, <1>9, <1>10, <1>11, CoapSteps

\* Every step of HTTP keeps that a handler that has written shows its file, or
\* another handler has opened it since.
LEMMA OkHttp ==
    ASSUME Base, OkIsSound, protocol = "http", [Next]_vars
    PROVE  OkIsSound'
<1> SUFFICES ASSUME NEW s \in Transfers, handler'[s] = "written"
             PROVE  file'[FileOf[s]] = "whole" \/ opener'[FileOf[s]] # s
  BY OneProtocol DEF OkIsSound
<1> DEFINE Kept == file'[FileOf[s]] = "whole" \/ opener'[FileOf[s]] # s
<1>0. TypeOK /\ FileOf[s] \in Files
  BY UploadPlan DEF Base
<1>a. handler[s] = "written" => file[FileOf[s]] = "whole" \/ opener[FileOf[s]] # s
  BY DEF OkIsSound
<1>1. CASE Connect
  <2>1. handler'[s] = handler[s]
    BY <1>0, <1>1, HandleFacts DEF Connect
  <2> QED BY <1>1, <1>a, <2>1 DEF Connect
<1>2. CASE Segment
  <2>1. handler'[s] = handler[s]
    BY <1>0, <1>2, HandleFacts DEF Segment, Uploading, Base, TypeOK
  <2> QED BY <1>2, <1>a, <2>1 DEF Segment
<1>3. CASE ConnectionLost
  <2>1. handler'[s] = handler[s]
    BY <1>0, <1>3, HandleFacts DEF ConnectionLost, Uploading, Base, TypeOK
  <2> QED BY <1>3, <1>a, <2>1 DEF ConnectionLost
<1>4. CASE SegmentAgain
  BY <1>4, <1>a DEF SegmentAgain
<1>5. ASSUME NEW t \in Transfers, Verify(t) PROVE Kept
  <2>1. handler[t] = "body" /\ \A r \in Transfers : r # t => handler'[r] = handler[r]
    BY <1>0, <1>5, HandleFacts DEF Verify
  <2>2. handler'[t] # "written"
    BY <1>0, <1>5, HandleFacts DEF Verify
  <2>3. s # t /\ handler[s] = "written"
    BY <2>1, <2>2
  <2>4. CASE UNCHANGED fileVars
    BY <1>a, <2>3, <2>4
  <2>5. CASE OpenFile(t)
    BY <1>0, <1>a, <2>3, <2>5, UploadPlan DEF OpenFile, TypeOK
  <2> QED BY <1>5, <2>4, <2>5 DEF Verify
<1>6. ASSUME NEW t \in Transfers, Save(t) PROVE Kept
  <2>1. \A r \in Transfers : r # t => handler'[r] = handler[r]
    BY <1>0, <1>6, HandleFacts DEF Save
  <2>2. CASE Handle(t, "written") /\ WriteFile(t)
    BY <1>0, <1>a, <2>1, <2>2, UploadPlan DEF WriteFile, TypeOK
  <2>3. CASE Handle(t, "refused") /\ WriteFails(t)
    <3>1. s # t
      BY <1>0, <2>3, HandleFacts
    <3> QED BY <1>0, <1>a, <2>1, <2>3, <3>1, UploadPlan DEF WriteFails, TypeOK
  <2> QED BY <1>6, <2>2, <2>3 DEF Save
<1>7. ASSUME NEW t \in Transfers, Respond(t) PROVE Kept
  <2>1. handler'[t] = "ended" /\ \A r \in Transfers : r # t => handler'[r] = handler[r]
    BY <1>0, <1>7, HandleFacts DEF Respond
  <2> QED BY <1>7, <1>a, <2>1 DEF Respond
<1>8. CASE ServerDies
  BY <1>8 DEF ServerDies
<1>9. CASE EndTransfer
  BY <1>9, <1>a DEF EndTransfer
<1>10. CASE UNCHANGED vars
  BY <1>10, <1>a DEF vars
<1> QED BY <1>1, <1>2, <1>3, <1>4, <1>5, <1>6, <1>7, <1>8, <1>9, <1>10, HttpSteps

\* The inductive invariant behind a client's ok.
OkInv == Base /\ Attempts /\ FewLate /\ NotAgain /\ OkIsSound

\* The invariant of the verdicts holds at first.
LEMMA OkInit == Init => OkInv
<1> SUFFICES ASSUME Init PROVE Attempts /\ FewLate /\ NotAgain /\ OkIsSound
  BY BaseInit DEF OkInv
<1>1. Late = {}
  BY EmptyFacts DEF Init, Late
<1>2. FewLate
  BY <1>1, FS_EmptySet DEF Init, FewLate
<1>3. Attempts
  BY EmptyFacts DEF Init, Attempts
<1>4. ~Settled
  BY DEF Init, Settled
<1>5. OkIsSound
  BY DEF Init, OkIsSound
<1> QED BY <1>2, <1>3, <1>4, <1>5 DEF NotAgain

\* Every step keeps the invariant of the verdicts.
LEMMA OkNext ==
    ASSUME protocol = "coap" => LongFiles, OkInv, [Next]_vars
    PROVE  OkInv'
<1>1. Base'
  BY TypeNext, DataNext, FreshNext, ProgressNext DEF Base, OkInv
<1>2. Attempts' /\ FewLate' /\ NotAgain'
  BY AttemptsNext, FewLateNext, NotAgainNext DEF OkInv
<1>3. OkIsSound'
  BY OkCoap, OkHttp, OneProtocol DEF OkInv
<1> QED BY <1>1, <1>2, <1>3 DEF OkInv

----------------------------------------------------------------------------
(* The upload service *)

\* what UploadService sees: the names that show a whole file, the transfers
\* whose file is being written, what each client was told
Shown == {f \in Files : file[f] = "whole"}
Saving == {t \in Transfers : handler[t] = "open"}
Told == [t \in Transfers |->
            IF row[t] = "ok" THEN "ok"
            ELSE IF t < turn \/ (t = turn /\ pc \in {"returned", "raised"})
                 THEN "failed" ELSE "nothing"]

\* A step that UploadService sees as the begin of an in-place write.
LEMMA SeesBegin ==
    ASSUME NEW t \in Transfers, Told[t] # "ok", Shown' = Shown \ {FileOf[t]},
           Saving' = Saving \cup {t}, opener' = [opener EXCEPT ![FileOf[t]] = t], Told' = Told
    PROVE  Upload!Next
<1>1. Upload!Begin(t)
  BY Zenon DEF Upload!Begin, Shown, Saving, Told
<1> QED BY <1>1, Zenon DEF Upload!Next, Upload!Begin

\* A step that it sees as a file stored.
LEMMA SeesStore ==
    ASSUME NEW t \in Transfers, t \in Saving, Shown' = Shown \cup {FileOf[t]},
           Saving' = Saving \ {t}, opener' = opener, Told' = Told
    PROVE  Upload!Next
<1>1. Upload!Store(t)
  BY Zenon DEF Upload!Store, Shown, Saving, Told
<1> QED BY <1>1, Zenon DEF Upload!Next, Upload!Store

\* A step that it sees as a client told ok.
LEMMA SeesOk ==
    ASSUME NEW t \in Transfers, Told[t] = "nothing", Shown' = Shown, Saving' = Saving,
           FileOf[t] \in Shown \/ opener[FileOf[t]] # t, opener' = opener,
           Told' = [Told EXCEPT ![t] = "ok"]
    PROVE  Upload!Next
<1>1. Upload!TellOk(t)
  BY Zenon DEF Upload!TellOk, Upload!Replaced, Shown, Saving, Told
<1> QED BY <1>1, Zenon DEF Upload!Next, Upload!TellOk

\* A step that it sees as failures, or as nothing but writes that ended.
LEMMA SeesFailure ==
    ASSUME NEW failed \in SUBSET Transfers, \A t \in failed : Told[t] = "nothing",
           Shown' = Shown, Saving' \in SUBSET Saving, opener' = opener,
           Told' = [t \in Transfers |-> IF t \in failed THEN "failed" ELSE Told[t]]
    PROVE  Upload!Next
<1>1. Upload!Fail(failed)
  BY Zenon DEF Upload!Fail, Shown, Saving, Told
<1> QED BY <1>1, Zenon DEF Upload!Next, Upload!Fail

\* A step that it does not see.
LEMMA SeesNothing ==
    ASSUME Shown' = Shown, Saving' = Saving, opener' = opener, Told' = Told
    PROVE  UNCHANGED Upload!vars
BY Zenon DEF Upload!vars, Shown, Saving, Told

\* Nobody is told anything while the rows stay and no client ends.
LEMMA NothingTold ==
    ASSUME UNCHANGED <<row, turn>>, turn \in Nat,
           pc' = pc \/ {pc, pc'} \subseteq {"idle", "probe", "put"}
    PROVE  Told' = Told
BY DEF Told

\* A client that ends without an ok concludes that its transfer failed.
LEMMA FailureTold ==
    ASSUME Base, turn \in Transfers, pc \in {"idle", "probe", "put"}, turn' = turn,
           pc' \in {"returned", "raised"},
           \A t \in Transfers : row'[t] = "ok" <=> row[t] = "ok"
    PROVE  /\ Told[turn] = "nothing"
           /\ Told' = [t \in Transfers |-> IF t \in {turn} THEN "failed" ELSE Told[t]]
<1>1. turn \in Nat /\ row[turn] = "none" /\ Transfers \subseteq Nat
  BY Begun DEF Base, Progress, TypeOK, Transfers
<1> QED BY <1>1 DEF Told

\* The row that says ok is what the client is told.
LEMMA OkTold ==
    ASSUME Base, turn \in Transfers, pc \in {"idle", "probe", "put"}, turn' = turn,
           pc' = "returned", row' = [row EXCEPT ![turn] = "ok"]
    PROVE  Told[turn] = "nothing" /\ Told' = [Told EXCEPT ![turn] = "ok"]
<1>1. /\ turn \in Nat /\ row[turn] = "none" /\ Transfers \subseteq Nat
      /\ row \in [Transfers -> {"none", "ok", "corrupt"}]
  BY Begun DEF Base, Progress, TypeOK, Transfers
<1>2. Told[turn] = "nothing"
  BY <1>1 DEF Told
<1>3. \A t \in Transfers : row'[t] = IF t = turn THEN "ok" ELSE row[t]
  BY <1>1
<1>4. \A t \in Transfers : Told'[t] = IF t = turn THEN "ok" ELSE Told[t]
  BY <1>1, <1>3 DEF Told
<1> QED BY <1>2, <1>4 DEF Told

\* The file of t is written: its name shows it, or what it showed before if the
\* write fails.
LEMMA Written ==
    ASSUME Base, NEW t \in Transfers, handler[t] = "open", Told' = Told,
           NEW state, state # "open", Handle(t, state), WriteFile(t) \/ WriteFails(t)
    PROVE  Upload!Next
<1>1. t \in Saving /\ Saving' = Saving \ {t} /\ opener' = opener
  BY HandleFacts DEF Base, Saving, WriteFile, WriteFails
<1>2. CASE WriteFile(t)
  <2>1. Shown' = Shown \cup {FileOf[t]}
    BY <1>2, UploadPlan DEF Base, TypeOK, WriteFile, Shown
  <2> QED BY <1>1, <2>1, SeesStore
<1>3. CASE WriteFails(t)
  <2>1. Shown' = Shown
    BY <1>3, UploadPlan DEF Base, TypeOK, WriteFails, Shown
  <2>2. Told' = [s \in Transfers |-> IF s \in {} THEN "failed" ELSE Told[s]]
    BY DEF Told
  <2>3. Saving' \in SUBSET Saving /\ {} \in SUBSET Transfers
    BY <1>1
  <2> QED BY <1>1, <2>1, <2>2, <2>3, SeesFailure
<1> QED BY <1>2, <1>3

\* A handler opens the file of t.
LEMMA Reopened ==
    ASSUME Base, NEW t \in Transfers, Told[t] # "ok", Told' = Told,
           Handle(t, "open"), OpenFile(t)
    PROVE  Upload!Next
<1>1. Saving' = Saving \cup {t}
  BY HandleFacts DEF Base, Saving
<1>2. Shown' = Shown \ {FileOf[t]}
  BY UploadPlan DEF Base, TypeOK, OpenFile, Shown
<1>3. opener' = [opener EXCEPT ![FileOf[t]] = t]
  BY DEF OpenFile
<1> QED BY <1>1, <1>2, <1>3, SeesBegin

\* A handler that is not writing changes its state.
LEMMA OtherState ==
    ASSUME Base, NEW t \in Transfers, handler[t] # "open", NEW state, state # "open",
           Handle(t, state)
    PROVE  Saving' = Saving
BY HandleFacts DEF Base, Saving

\* A client that ends without a row that says ok is a failure.
LEMMA FailsAlone ==
    ASSUME Base, turn \in Transfers, UNCHANGED <<turn, file, opener>>, Saving' = Saving,
           pc \in {"idle", "probe", "put"}, pc' \in {"returned", "raised"},
           \A t \in Transfers : row'[t] = "ok" <=> row[t] = "ok"
    PROVE  Upload!Next
<1>1. /\ Told[turn] = "nothing"
      /\ Told' = [t \in Transfers |-> IF t \in {turn} THEN "failed" ELSE Told[t]]
  BY FailureTold
<1>2. Shown' = Shown /\ Saving' \in SUBSET Saving
  BY DEF Shown
<1>3. {turn} \in SUBSET Transfers /\ \A t \in {turn} : Told[t] = "nothing"
  BY <1>1
<1> QED BY <1>1, <1>2, <1>3, SeesFailure

\* The server dies: nothing is being written any more, and nobody is told.
LEMMA ServiceDies ==
    ASSUME Base, ServerDies
    PROVE  Upload!Next
<1>1. Told' = Told
  BY Begun, NothingTold DEF ServerDies
<1>2. Shown' = Shown /\ Saving' \in SUBSET Saving /\ opener' = opener
  BY DEF ServerDies, Shown, Saving
<1>3. Told' = [t \in Transfers |-> IF t \in {} THEN "failed" ELSE Told[t]]
  BY <1>1 DEF Told
<1>4. {} \in SUBSET Transfers /\ \A t \in {} : Told[t] = "nothing"
  OBVIOUS
<1> QED BY <1>2, <1>3, <1>4, SeesFailure, Zenon

\* A transfer without an ok had failed before the harness goes on.
LEMMA ServiceRests ==
    ASSUME Base, EndTransfer
    PROVE  UNCHANGED Upload!vars
<1>1. /\ turn' = turn + 1 /\ pc' = "idle" /\ pc \in {"returned", "raised"}
      /\ UNCHANGED <<handler, file, opener, row>>
  BY DEF EndTransfer
<1>2. turn \in Nat /\ Transfers \subseteq Nat
  BY Begun DEF Transfers
<1>3. Told' = Told
  BY <1>1, <1>2 DEF Told
<1> QED BY <1>1, <1>3, SeesNothing DEF Shown, Saving

\* Every step of a CoAP sweep is one of UploadService, or is not seen by it.
LEMMA ServiceCoap ==
    ASSUME OkInv, protocol = "coap", [Next]_vars
    PROVE  [Upload!Next]_(Upload!vars)
<1> DEFINE Sees == [Upload!Next]_(Upload!vars)
<1>0. /\ Base /\ TypeOK /\ turn \in Nat /\ (pc # "idle" => turn \in Transfers)
      /\ Attempts /\ FewLate /\ NotAgain /\ OkIsSound
  BY Begun DEF OkInv, Base
\* neither the files nor the clients are concerned
<1>a. ASSUME UNCHANGED <<file, opener, handler, row, turn>>,
             pc' = pc \/ {pc, pc'} \subseteq {"idle", "probe", "put"}
      PROVE  UNCHANGED Upload!vars
  <2>1. Shown' = Shown /\ Saving' = Saving /\ opener' = opener
    BY <1>a DEF Shown, Saving
  <2> QED BY <1>0, <1>a, <2>1, NothingTold, SeesNothing
<1>b. ASSUME UNCHANGED handler PROVE Saving' = Saving
  BY <1>b DEF Saving
<1>1. ASSUME Probe PROVE Sees
  BY <1>1, <1>a DEF Probe
<1>2. ASSUME Resend PROVE Sees
  BY <1>2, <1>a DEF Resend
<1>3. ASSUME RequestFails PROVE Sees
  <2>1. UNCHANGED <<file, opener, handler, row, turn>> /\ pc \in {"probe", "put"} /\ turn \in Transfers
    BY <1>0, <1>3 DEF RequestFails, Waiting
  <2>2. CASE pc' = "put"
    BY <1>a, <2>1, <2>2
  <2>3. CASE pc' = "returned"
    BY <1>0, <1>b, <2>1, <2>3, FailsAlone
  <2> QED BY <1>3, <2>2, <2>3 DEF RequestFails
<1>4. ASSUME NEW t \in Transfers, FinishPut(t) PROVE Sees
  <2>1. Told' = Told
    BY <1>0, <1>4, NothingTold DEF FinishPut
  <2>2. handler[t] = "open" /\ Handle(t, "none") /\ (WriteFile(t) \/ WriteFails(t))
    BY <1>4 DEF FinishPut
  <2> QED BY <1>0, <2>1, <2>2, Written
<1>5. ASSUME NEW m \in DOMAIN up, Receive(m) PROVE Sees
  <2>1. UNCHANGED <<turn, pc, row>> /\ turn \in Transfers
    BY <1>0, <1>5, Begun DEF Receive
  <2>2. CASE Absorb(m)
    BY <1>a, <2>1, <2>2 DEF Absorb
  <2>3. CASE RenderPut(m)
    <3>1. row[turn] # "ok"
      BY <1>0, <1>5, <2>3, PutIsNew
    <3>2. Told[turn] # "ok" /\ Told' = Told
      BY <1>0, <2>1, <3>1, NothingTold DEF Told
    <3>3. Handle(turn, "open") /\ OpenFile(turn)
      BY <2>3 DEF RenderPut
    <3> QED BY <1>0, <2>1, <3>2, <3>3, Reopened
  <2> QED BY <1>5, <2>2, <2>3 DEF Receive
<1>6. ASSUME NEW m \in DOMAIN up, Lose(m) \/ Duplicate(m) PROVE Sees
  BY <1>6, <1>a DEF Lose, Duplicate
<1>7. ASSUME NEW a \in DOMAIN down, AnswerArrives(a) PROVE Sees
  <2>1. UNCHANGED <<file, opener, handler, turn, history>> /\ turn \in Transfers /\ a \in history
    BY <1>0, <1>7, Begun DEF AnswerArrives, DataOK, Base
  <2>2. CASE UNCHANGED row /\ (pc' = pc \/ (Waiting /\ pc' = "put"))
    BY <1>a, <2>1, <2>2 DEF Waiting
  <2>3. CASE /\ a.id = sent /\ Waiting /\ pc' = "returned"
             /\ row' = [row EXCEPT ![turn] = IF a.code = "changed" THEN "ok" ELSE "corrupt"]
    <3>1. CASE a.code = "changed"
      <4>1. [id |-> sent, code |-> "changed"] \in history
        BY <2>1, <2>3, <3>1 DEF Base, DataOK, OkInv
      <4>2. FileOf[turn] \in Shown
        BY <1>0, <2>1, <4>1, UploadPlan, Begun DEF OkIsSound, Shown
      <4>3. Told[turn] = "nothing" /\ Told' = [Told EXCEPT ![turn] = "ok"]
        BY <1>0, <2>1, <2>3, <3>1, OkTold DEF Waiting
      <4>4. Shown' = Shown /\ Saving' = Saving
        BY <2>1 DEF Shown, Saving
      <4> QED BY <2>1, <4>2, <4>3, <4>4, SeesOk
    <3>2. CASE a.code # "changed"
      <4>1. row[turn] = "none"
        BY <1>0, <2>1, <2>3 DEF Base, Progress, Waiting, Transfers
      <4>2. \A t \in Transfers : row'[t] = "ok" <=> row[t] = "ok"
        BY <1>0, <2>3, <3>2, <4>1 DEF TypeOK
      <4> QED BY <1>0, <1>b, <2>1, <2>3, <4>2, FailsAlone DEF Waiting
    <3> QED BY <3>1, <3>2
  <2> QED BY <1>7, <2>2, <2>3 DEF AnswerArrives
<1>8. ASSUME NEW a \in DOMAIN down, LoseAnswer(a) PROVE Sees
  BY <1>8, <1>a DEF LoseAnswer
<1>9. ASSUME ServerDies PROVE Sees
  BY <1>0, <1>9, ServiceDies
<1>10. ASSUME EndTransfer PROVE Sees
  BY <1>0, <1>10, ServiceRests
<1>11. ASSUME UNCHANGED vars PROVE Sees
  BY <1>11, <1>a DEF vars
<1> HIDE DEF Sees
<1>12. Sees
  BY <1>0, <1>1, <1>2, <1>3, <1>4, <1>5, <1>6, <1>7, <1>8, <1>9, <1>10, <1>11, CoapSteps
<1> QED BY <1>12 DEF Sees

\* Every step of an HTTP sweep is one of UploadService, or is not seen by it.
LEMMA ServiceHttp ==
    ASSUME OkInv, protocol = "http", [Next]_vars
    PROVE  [Upload!Next]_(Upload!vars)
<1> DEFINE Sees == [Upload!Next]_(Upload!vars)
<1>0. /\ Base /\ TypeOK /\ turn \in Nat /\ (pc # "idle" => turn \in Transfers) /\ OkIsSound
  BY Begun DEF OkInv, Base
<1>a. ASSUME UNCHANGED <<file, opener, row, turn>>, Saving' = Saving,
             pc' = pc \/ {pc, pc'} \subseteq {"idle", "probe", "put"}
      PROVE  UNCHANGED Upload!vars
  <2>1. Shown' = Shown /\ opener' = opener
    BY <1>a DEF Shown
  <2> QED BY <1>0, <1>a, <2>1, NothingTold, SeesNothing
<1>b. ASSUME UNCHANGED handler PROVE Saving' = Saving
  BY <1>b DEF Saving
<1>1. ASSUME Connect PROVE Sees
  <2>1. UNCHANGED <<file, opener, row, turn>> /\ pc = "idle" /\ turn \in Transfers
    BY <1>1 DEF Connect
  <2>2. Saving' = Saving
    <3>1. handler[turn] = "none"
      BY <1>0, <2>1 DEF Base, Progress
    <3> QED BY <1>0, <1>1, <1>b, <2>1, <3>1, OtherState DEF Connect
  <2>3. CASE pc' = "put"
    BY <1>a, <2>1, <2>2, <2>3
  <2>4. CASE pc' = "raised"
    BY <1>0, <2>1, <2>2, <2>4, FailsAlone
  <2> QED BY <1>1, <2>3, <2>4 DEF Connect
<1>2. ASSUME Segment PROVE Sees
  <2>1. UNCHANGED <<file, opener, row, turn, pc>>
    BY <1>2 DEF Segment
  <2>2. Saving' = Saving
    BY <1>0, <1>2, <1>b, OtherState DEF Segment, Uploading
  <2> QED BY <1>a, <2>1, <2>2
<1>3. ASSUME ConnectionLost PROVE Sees
  <2>1. UNCHANGED <<file, opener, row, turn>> /\ pc = "put" /\ turn \in Transfers /\ pc' = "returned"
    BY <1>0, <1>3 DEF ConnectionLost, Uploading
  <2>2. Saving' = Saving
    BY <1>0, <1>3, <1>b, <2>1, OtherState DEF ConnectionLost
  <2> QED BY <1>0, <2>1, <2>2, FailsAlone
<1>4. ASSUME SegmentAgain PROVE Sees
  BY <1>4, <1>a, <1>b DEF SegmentAgain
<1>5. ASSUME NEW t \in Transfers, Verify(t) PROVE Sees
  <2>1. UNCHANGED <<row, turn, pc>> /\ handler[t] = "body"
    BY <1>5 DEF Verify
  <2>2. CASE Handle(t, "refused") /\ UNCHANGED fileVars
    BY <1>0, <1>a, <2>1, <2>2, OtherState
  <2>3. CASE Handle(t, "open") /\ OpenFile(t)
    <3>1. row[t] # "ok"
      BY <1>0, <2>1 DEF Base, Progress
    <3>2. Told[t] # "ok" /\ Told' = Told
      BY <1>0, <2>1, <3>1, NothingTold DEF Told
    <3> QED BY <1>0, <2>3, <3>2, Reopened
  <2> QED BY <1>5, <2>2, <2>3 DEF Verify
<1>6. ASSUME NEW t \in Transfers, Save(t) PROVE Sees
  <2>1. Told' = Told
    BY <1>0, <1>6, NothingTold DEF Save
  <2>2. /\ handler[t] = "open" /\ (WriteFile(t) \/ WriteFails(t))
        /\ Handle(t, "written") \/ Handle(t, "refused")
    BY <1>6 DEF Save
  <2> QED BY <1>0, <2>1, <2>2, Written
<1>7. ASSUME NEW t \in Transfers, Respond(t) PROVE Sees
  <2>1. UNCHANGED <<file, opener, turn>> /\ handler[t] \in {"written", "refused"} /\ Handle(t, "ended")
    BY <1>7 DEF Respond, Answered
  <2>2. Saving' = Saving
    BY <1>0, <2>1, OtherState
  <2>3. CASE UNCHANGED <<row, pc>>
    BY <1>a, <2>1, <2>2, <2>3
  <2>4. CASE /\ turn = t /\ pc = "put" /\ pc' = "returned"
             /\ row' = [row EXCEPT ![t] = IF handler[t] = "refused" THEN "corrupt" ELSE "ok"]
    <3>1. CASE handler[t] = "written"
      <4>1. FileOf[turn] \in Shown \/ opener[FileOf[turn]] # turn
        BY <1>0, <2>4, <3>1, UploadPlan DEF OkIsSound, Shown
      <4>2. Told[turn] = "nothing" /\ Told' = [Told EXCEPT ![turn] = "ok"]
        BY <1>0, <2>1, <2>4, <3>1, OkTold
      <4>3. Shown' = Shown
        BY <2>1 DEF Shown
      <4> QED BY <2>1, <2>2, <2>4, <4>1, <4>2, <4>3, SeesOk
    <3>2. CASE handler[t] = "refused"
      <4>1. row[turn] = "none"
        BY <1>0, <2>4 DEF Base, Progress, Transfers
      <4>2. \A s \in Transfers : row'[s] = "ok" <=> row[s] = "ok"
        BY <1>0, <2>4, <3>2, <4>1 DEF TypeOK
      <4> QED BY <1>0, <2>1, <2>2, <2>4, <4>2, FailsAlone
    <3> QED BY <2>1, <3>1, <3>2
  <2> QED BY <1>7, <2>3, <2>4 DEF Respond, Uploading
<1>8. ASSUME ServerDies PROVE Sees
  BY <1>0, <1>8, ServiceDies
<1>9. ASSUME EndTransfer PROVE Sees
  BY <1>0, <1>9, ServiceRests
<1>10. ASSUME UNCHANGED vars PROVE Sees
  BY <1>10, <1>a, <1>b DEF vars
<1> HIDE DEF Sees
<1>11. Sees
  BY <1>0, <1>1, <1>2, <1>3, <1>4, <1>5, <1>6, <1>7, <1>8, <1>9, <1>10, HttpSteps
<1> QED BY <1>11 DEF Sees

\* ImplementsUpload: HTTP and CoAP, with overlapping handlers, late, lost and repeated
\* messages, retries and a server that dies, are an upload service that writes in
\* place: a client is told ok only of a file that is shown whole or is replaced.
\* For CoAP no file may have fewer blocks than there are attempts; with fewer, a late
\* message has the file written again after the client was told ok.
THEOREM ImplementsUploadHolds ==
    (protocol = "coap" => LongFiles) /\ Spec => ImplementsUpload
<1> DEFINE Plan == protocol = "coap" => LongFiles
<1>1. Init => Upload!Init
  <2> SUFFICES ASSUME Init PROVE Upload!Init
    OBVIOUS
  <2>1. Shown = {} /\ Saving = {} /\ opener = [f \in Files |-> None]
    BY DEF Init, Shown, Saving
  <2>2. Told = [t \in Transfers |-> "nothing"]
    BY DEF Init, Told, Transfers
  <2> QED BY <2>1, <2>2, Zenon DEF Upload!Init, Shown, Saving, Told
<1>2. OkInv /\ [Next]_vars => [Upload!Next]_(Upload!vars)
  BY ServiceCoap, ServiceHttp, OneProtocol DEF OkInv
<1>3. Plan /\ OkInv /\ [Next]_vars => OkInv'
  BY OkNext
<1>4. Plan /\ OkInv /\ [Next]_vars => Plan'
  BY OneProtocol DEF OkInv
<1> QED BY <1>1, <1>2, <1>3, <1>4, OkInit, PTL DEF Spec, ImplementsUpload, Upload!Spec

\* The promise of the service, in its own words.
LEMMA PromiseKept ==
    ASSUME TypeOK, Upload!ToldOkIsShown, Upload!Next
    PROVE  Upload!ToldOkIsShown'
<1> DEFINE Kept(t) == Told[t] = "ok" => FileOf[t] \in Shown \/ opener[FileOf[t]] # t
<1>0. FileOf \in [Transfers -> Files] /\ opener \in [Files -> Transfers \cup {None}]
  BY UploadPlan DEF TypeOK
<1>1. \A t \in Transfers : Kept(t)
  BY Zenon DEF Upload!ToldOkIsShown, Upload!Replaced, Shown, Told
<1>2. SUFFICES ASSUME NEW w \in Transfers, Told'[w] = "ok"
               PROVE  FileOf[w] \in Shown' \/ opener'[FileOf[w]] # w
  <2>1. \A w \in Transfers : Told'[w] = "ok" => FileOf[w] \in Shown' \/ opener'[FileOf[w]] # w
    BY <1>2
  <2> QED BY <2>1, Zenon DEF Upload!ToldOkIsShown, Upload!Replaced, Shown, Told
<1>3. ASSUME NEW t \in Transfers, Upload!Begin(t)
      PROVE  FileOf[w] \in Shown' \/ opener'[FileOf[w]] # w
  <2>1. /\ Told[t] # "ok" /\ Told' = Told /\ Shown' = Shown \ {FileOf[t]}
        /\ opener' = [opener EXCEPT ![FileOf[t]] = t]
    BY <1>3, Zenon DEF Upload!Begin, Shown, Told
  <2>2. CASE FileOf[t] = FileOf[w]
    BY <1>0, <1>2, <2>1, <2>2
  <2>3. CASE FileOf[t] # FileOf[w]
    BY <1>0, <1>1, <1>2, <2>1, <2>3
  <2> QED BY <2>2, <2>3
<1>4. ASSUME NEW t \in Transfers, Upload!Store(t)
      PROVE  FileOf[w] \in Shown' \/ opener'[FileOf[w]] # w
  <2>1. /\ Told' = Told /\ opener' = opener
        /\ Shown' = Shown \cup {FileOf[t]} \/ Shown' = Shown
    BY <1>4, Zenon DEF Upload!Store, Shown, Told
  <2> QED BY <1>1, <1>2, <2>1
<1>5. ASSUME NEW t \in Transfers, Upload!TellOk(t)
      PROVE  FileOf[w] \in Shown' \/ opener'[FileOf[w]] # w
  <2>1. /\ Told' = [Told EXCEPT ![t] = "ok"] /\ opener' = opener /\ Shown' = Shown
        /\ FileOf[t] \in Shown \/ opener[FileOf[t]] # t
    BY <1>5, Zenon DEF Upload!TellOk, Upload!Replaced, Shown, Told
  <2>2. w = t \/ Told[w] = "ok"
    BY <1>2, <2>1 DEF Told
  <2> QED BY <1>1, <2>1, <2>2
<1>6. ASSUME NEW failed \in SUBSET Transfers, Upload!Fail(failed)
      PROVE  FileOf[w] \in Shown' \/ opener'[FileOf[w]] # w
  <2>1. /\ Told' = [t \in Transfers |-> IF t \in failed THEN "failed" ELSE Told[t]]
        /\ opener' = opener /\ Shown' = Shown
    BY <1>6, Zenon DEF Upload!Fail, Shown, Told
  <2>2. Told[w] = "ok"
    BY <1>2, <2>1
  <2> QED BY <1>1, <2>1, <2>2
<1> QED BY <1>3, <1>4, <1>5, <1>6, Zenon DEF Upload!Next

\* What that means to the clients: whoever was told ok finds the file whole under its
\* name, or another transfer has opened the name since.
THEOREM OkIsShown ==
    (protocol = "coap" => LongFiles) /\ Spec => []Upload!ToldOkIsShown
<1> DEFINE Plan == protocol = "coap" => LongFiles
<1>1. Init => Upload!ToldOkIsShown
  <2> SUFFICES ASSUME Init PROVE Upload!ToldOkIsShown
    OBVIOUS
  <2>1. \A t \in Transfers : Told[t] # "ok"
    BY DEF Init, Told
  <2> QED BY <2>1, Zenon DEF Upload!ToldOkIsShown, Told
<1>2. OkInv /\ [Next]_vars => [Upload!Next]_(Upload!vars)
  BY ServiceCoap, ServiceHttp, OneProtocol DEF OkInv
<1>3. Plan /\ OkInv /\ [Next]_vars => OkInv' /\ Plan'
  BY OkNext, OneProtocol DEF OkInv
<1>4. OkInv /\ Upload!ToldOkIsShown /\ Upload!Next => Upload!ToldOkIsShown'
  BY PromiseKept DEF OkInv, Base
<1>5. Upload!ToldOkIsShown /\ UNCHANGED Upload!vars => Upload!ToldOkIsShown'
  <2> SUFFICES ASSUME Upload!ToldOkIsShown, UNCHANGED Upload!vars PROVE Upload!ToldOkIsShown'
    OBVIOUS
  <2>1. Shown' = Shown /\ Told' = Told /\ opener' = opener
    BY Zenon DEF Upload!vars, Shown, Told
  <2>2. \A t \in Transfers : Told[t] = "ok" => FileOf[t] \in Shown \/ opener[FileOf[t]] # t
    BY Zenon DEF Upload!ToldOkIsShown, Upload!Replaced, Shown, Told
  <2>3. \A t \in Transfers : Told'[t] = "ok" => FileOf[t] \in Shown' \/ opener'[FileOf[t]] # t
    BY <2>1, <2>2, Zenon
  <2> QED BY <2>3, Zenon DEF Upload!ToldOkIsShown, Upload!Replaced, Shown, Told
<1> QED BY <1>1, <1>2, <1>3, <1>4, <1>5, OkInit, PTL DEF Spec

----------------------------------------------------------------------------
(* Sums over finite sets *)

\* what the sums of PcapAnalyzer add up: the values of v over S
SumOver(v, S) == MapThenSumSet(LAMBDA x : v[x], S)

\* the element the folds take next, and the partial sums they go through
Pick(s) == CHOOSE x \in s : TRUE
PartialSums(g, v, S) ==
    g = [s \in SUBSET S |-> IF s = {} THEN 0 ELSE v[Pick(s)] + g[s \ {Pick(s)}]]

\* Induction over the subsets of a finite set: of the subsets for which something
\* fails, one has no smaller one.
LEMMA Minimal ==
    ASSUME NEW S, IsFiniteSet(S), NEW Bad \in SUBSET SUBSET S, Bad # {}
    PROVE  \E s \in Bad : \A t \in Bad : t \subseteq s => t = s
<1>1. Bad \subseteq FiniteSubsetsOf(S)
  BY FS_FiniteSubsetsOfFinite
<1>2. IsWellFoundedOn(StrictSubsetOrdering(S), FiniteSubsetsOf(S))
  BY FS_StrictSubsetOrderingWellFounded
<1>3. PICK s \in Bad : \A t \in Bad : ~ (<<t, s>> \in StrictSubsetOrdering(S))
  BY <1>1, <1>2, WFMin
<1>4. \A t \in Bad : t \subseteq s /\ t # s => <<t, s>> \in StrictSubsetOrdering(S)
  <2> TAKE t \in Bad
  <2>1. t \in SUBSET S /\ s \in SUBSET S
    OBVIOUS
  <2> QED BY <2>1 DEF StrictSubsetOrdering
<1>5. \A t \in Bad : t \subseteq s => t = s
  BY <1>3, <1>4
<1> QED BY <1>5

\* The fold takes an element that is there.
LEMMA PickIn == \A s : s # {} => Pick(s) \in s
BY DEF Pick

\* The partial sums of a set do not depend on the set they are part of.
LEMMA SumsAgree ==
    ASSUME NEW S, IsFiniteSet(S), NEW T, NEW v, NEW w, \A x \in S : v[x] = w[x],
           NEW g, NEW h, PartialSums(g, v, S), PartialSums(h, w, T), S \subseteq T
    PROVE  \A s \in SUBSET S : g[s] = h[s]
<1> DEFINE Bad == {s \in SUBSET S : g[s] # h[s]}
<1> SUFFICES ASSUME Bad # {} PROVE FALSE
  OBVIOUS
<1>1. PICK s \in Bad : \A t \in Bad : t \subseteq s => t = s
  <2>1. Bad \in SUBSET SUBSET S
    OBVIOUS
  <2> HIDE DEF Bad
  <2> QED BY <2>1, Minimal
<1>2. s \in SUBSET S /\ s \in SUBSET T /\ g[s] # h[s]
  OBVIOUS
<1>3. g[s] = IF s = {} THEN 0 ELSE v[Pick(s)] + g[s \ {Pick(s)}]
  BY <1>2 DEF PartialSums
<1>4. h[s] = IF s = {} THEN 0 ELSE w[Pick(s)] + h[s \ {Pick(s)}]
  BY <1>2 DEF PartialSums
<1>5. s # {} /\ Pick(s) \in s
  BY <1>2, <1>3, <1>4, PickIn
<1>6. g[s \ {Pick(s)}] = h[s \ {Pick(s)}]
  BY <1>1, <1>2, <1>5
<1>7. v[Pick(s)] = w[Pick(s)]
  BY <1>2, <1>5
<1> QED BY <1>2, <1>3, <1>4, <1>5, <1>6, <1>7

\* A larger set has the same partial sums.
LEMMA SumsExtend ==
    ASSUME NEW S, IsFiniteSet(S), NEW T, S \subseteq T, NEW v, NEW g, NEW h,
           PartialSums(g, v, S), PartialSums(h, v, T)
    PROVE  h[S] = g[S]
<1>1. PICK w : w = v
  OBVIOUS
<1>2. PartialSums(h, w, T) /\ \A x \in S : v[x] = w[x]
  BY <1>1
<1>3. \A s \in SUBSET S : g[s] = h[s]
  BY <1>2, SumsAgree
<1> QED BY <1>3

\* A finite set has partial sums.
LEMMA SumsExist ==
    ASSUME NEW S, IsFiniteSet(S), NEW v
    PROVE  \E g : PartialSums(g, v, S)
<1> DEFINE Bad == {s \in SUBSET S : ~ \E g : PartialSums(g, v, s)}
<1> SUFFICES ASSUME Bad # {} PROVE FALSE
  OBVIOUS
<1>1. PICK s \in Bad : \A t \in Bad : t \subseteq s => t = s
  <2>1. Bad \in SUBSET SUBSET S
    OBVIOUS
  <2> HIDE DEF Bad
  <2> QED BY <2>1, Minimal
<1> DEFINE G(t) == CHOOSE g : PartialSums(g, v, t)
<1>2. ASSUME NEW t \in SUBSET s, t # s PROVE PartialSums(G(t), v, t)
  <2>1. t \in SUBSET S /\ t \notin Bad
    BY <1>1, <1>2
  <2>2. \E g : PartialSums(g, v, t)
    BY <2>1
  <2> QED BY <2>2
<1>3. ASSUME NEW t \in SUBSET s, t # s, NEW u \in SUBSET t
      PROVE  G(t)[u] = G(u)[u]
  <2>1. u \in SUBSET s /\ u # s
    BY <1>3
  <2>2. PartialSums(G(t), v, t) /\ PartialSums(G(u), v, u)
    BY <1>2, <1>3, <2>1
  <2>3. IsFiniteSet(u)
    BY <1>1, <2>1, FS_Subset
  <2>4. \A g, h : PartialSums(g, v, t) /\ PartialSums(h, v, u) => g[u] = h[u]
    <3> TAKE g, h
    <3> HAVE PartialSums(g, v, t) /\ PartialSums(h, v, u)
    <3>1. u \subseteq t
      OBVIOUS
    <3> QED BY <2>3, <3>1, SumsExtend
  <2> HIDE DEF G
  <2> QED BY <2>2, <2>4
<1> HIDE DEF G
<1> DEFINE R(t) == t \ {Pick(t)}
<1> DEFINE H == [t \in SUBSET s |-> IF t = {} THEN 0 ELSE v[Pick(t)] + G(R(t))[R(t)]]
<1>4. ASSUME NEW t \in SUBSET s, t # {}
      PROVE  H[R(t)] = G(R(t))[R(t)]
  <2> DEFINE u == R(t)
  <2>1. u \in SUBSET s /\ u # s
    BY <1>4, PickIn
  <2>2. PartialSums(G(u), v, u)
    BY <1>2, <2>1
  <2>3. G(u)[u] = IF u = {} THEN 0 ELSE v[Pick(u)] + G(u)[R(u)]
    BY <2>2 DEF PartialSums
  <2>4. G(u)[R(u)] = G(R(u))[R(u)]
    BY <1>3, <2>1
  <2>5. H[u] = IF u = {} THEN 0 ELSE v[Pick(u)] + G(R(u))[R(u)]
    BY <2>1
  <2> QED BY <2>3, <2>4, <2>5
<1>5. \A t \in SUBSET s : H[t] = IF t = {} THEN 0 ELSE v[Pick(t)] + H[R(t)]
  <2> TAKE t \in SUBSET s
  <2>1. H[t] = IF t = {} THEN 0 ELSE v[Pick(t)] + G(R(t))[R(t)]
    OBVIOUS
  <2> QED BY <1>4, <2>1
<1>6. PartialSums(H, v, s)
  <2>1. H = [t \in SUBSET s |-> H[t]]
    OBVIOUS
  <2> HIDE DEF H
  <2> QED BY <1>5, <2>1 DEF PartialSums
<1> QED BY <1>1, <1>6

\* SumOver is what its partial sums come to.
LEMMA SumOverIs ==
    ASSUME NEW S, IsFiniteSet(S), NEW v, NEW g, PartialSums(g, v, S)
    PROVE  SumOver(v, S) = g[S]
<1> DEFINE h0 == CHOOSE h : h = [s \in SUBSET S |->
                IF s = {} THEN 0 ELSE LET x == CHOOSE x \in s : TRUE IN v[x] + h[s \ {x}]]
<1>1. SumOver(v, S) = h0[S]
  BY Zenon DEF SumOver, MapThenSumSet, MapThenFoldSet
<1>2. h0 = CHOOSE h : PartialSums(h, v, S)
  BY Zenon DEF PartialSums, Pick
<1> HIDE DEF h0
<1>3. PartialSums(h0, v, S)
  BY <1>2
<1>4. \A s \in SUBSET S : g[s] = h0[s]
  BY <1>3, SumsAgree
<1> QED BY <1>1, <1>4

\* The sums of functions that agree are the same.
LEMMA SumCongruent ==
    ASSUME NEW S, IsFiniteSet(S), NEW v, NEW w, \A x \in S : v[x] = w[x]
    PROVE  SumOver(v, S) = SumOver(w, S)
<1>1. PICK g : PartialSums(g, v, S)
  BY SumsExist
<1>2. PICK h : PartialSums(h, w, S)
  BY SumsExist
<1>3. \A s \in SUBSET S : g[s] = h[s]
  BY <1>1, <1>2, SumsAgree
<1>4. SumOver(v, S) = g[S] /\ SumOver(w, S) = h[S]
  BY <1>1, <1>2, SumOverIs
<1> QED BY <1>3, <1>4

\* The sum over the empty set, and the step of the fold.
LEMMA SumStep ==
    ASSUME NEW S, IsFiniteSet(S), NEW v
    PROVE  SumOver(v, S) = IF S = {} THEN 0 ELSE v[Pick(S)] + SumOver(v, S \ {Pick(S)})
<1> DEFINE T == S \ {Pick(S)}
<1>1. IsFiniteSet(T) /\ T \subseteq S /\ T \in SUBSET S
  BY FS_Subset
<1>2. PICK g : PartialSums(g, v, S)
  BY SumsExist
<1>3. PICK h : PartialSums(h, v, T)
  BY <1>1, SumsExist
<1>4. h[T] = g[T]
  BY <1>1, <1>2, <1>3, SumsAgree
<1>5. SumOver(v, S) = g[S]
  BY <1>2, SumOverIs
<1>6. SumOver(v, T) = h[T]
  BY <1>1, <1>3, SumOverIs
<1>7. g[S] = IF S = {} THEN 0 ELSE v[Pick(S)] + g[T]
  BY <1>2 DEF PartialSums
<1> QED BY <1>4, <1>5, <1>6, <1>7

\* A sum of integers is an integer, and any of its terms can be taken first.
LEMMA SumTake ==
    ASSUME NEW S, IsFiniteSet(S), NEW v, \A x \in S : v[x] \in Int
    PROVE  /\ SumOver(v, S) \in Int
           /\ \A x \in S : SumOver(v, S) = v[x] + SumOver(v, S \ {x})
<1> DEFINE Good(s) == /\ SumOver(v, s) \in Int
                      /\ \A x \in s : SumOver(v, s) = v[x] + SumOver(v, s \ {x})
           Bad == {s \in SUBSET S : ~ Good(s)}
<1> SUFFICES ASSUME Bad # {} PROVE FALSE
  OBVIOUS
<1>1. PICK s \in Bad : \A t \in Bad : t \subseteq s => t = s
  <2>1. Bad \in SUBSET SUBSET S
    OBVIOUS
  <2> HIDE DEF Bad
  <2> QED BY <2>1, Minimal
<1>2. \A t \in SUBSET s : t # s => Good(t)
  BY <1>1
<1>3. \A t \in SUBSET s : IsFiniteSet(t)
  BY FS_Subset
<1>4. \A x \in s : v[x] \in Int
  OBVIOUS
<1> HIDE DEF Good
<1> SUFFICES Good(s)
  OBVIOUS
<1> HIDE DEF Bad
<1>5. CASE s = {}
  <2>1. SumOver(v, s) = 0
    BY <1>3, <1>5, SumStep
  <2> QED BY <1>5, <2>1 DEF Good
<1>6. CASE s # {}
  <2> DEFINE p == Pick(s)
  <2>1. p \in s
    BY <1>6, PickIn
  <2>2. SumOver(v, s) = v[p] + SumOver(v, s \ {p})
    BY <1>3, <1>6, SumStep
  <2> HIDE DEF p
  <2>3. Good(s \ {p})
    BY <1>2, <2>1
  <2>4. SumOver(v, s) \in Int
    BY <1>4, <2>1, <2>2, <2>3 DEF Good
  <2>5. ASSUME NEW x \in s, x # p
        PROVE  SumOver(v, s) = v[x] + SumOver(v, s \ {x})
    <3> DEFINE u == s \ {p, x}
    <3>1. SumOver(v, s \ {p}) = v[x] + SumOver(v, (s \ {p}) \ {x})
      BY <2>3, <2>5 DEF Good
    <3>2. Good(s \ {x})
      BY <1>2, <2>5
    <3>3. SumOver(v, s \ {x}) = v[p] + SumOver(v, (s \ {x}) \ {p})
      BY <2>1, <2>5, <3>2 DEF Good
    <3>4. (s \ {p}) \ {x} = u /\ (s \ {x}) \ {p} = u
      OBVIOUS
    <3>5. Good(u)
      BY <1>2, <2>1
    <3>6. SumOver(v, u) \in Int /\ v[p] \in Int /\ v[x] \in Int
      BY <1>4, <2>1, <3>5 DEF Good
    <3>7. SumOver(v, s \ {p}) = v[x] + SumOver(v, u)
      BY <3>1, <3>4, Zenon
    <3>8. SumOver(v, s \ {x}) = v[p] + SumOver(v, u)
      BY <3>3, <3>4, Zenon
    <3> HIDE DEF u
    <3> QED BY <2>2, <3>6, <3>7, <3>8
  <2>6. \A x \in s : SumOver(v, s) = v[x] + SumOver(v, s \ {x})
    BY <2>2, <2>5
  <2> QED BY <2>4, <2>6 DEF Good
<1> QED BY <1>5, <1>6

\* A set with one element whose term is new or has changed.
LEMMA SumChange ==
    ASSUME NEW S, IsFiniteSet(S), NEW x, NEW v, NEW w,
           \A y \in S : v[y] \in Int, \A y \in S \ {x} : w[y] = v[y], w[x] \in Int
    PROVE  SumOver(w, S \cup {x}) = SumOver(v, S) + w[x] - (IF x \in S THEN v[x] ELSE 0)
<1> DEFINE T == S \ {x}
<1>1. IsFiniteSet(T) /\ IsFiniteSet(S \cup {x})
  BY FS_RemoveElement, FS_AddElement
<1>2. SumOver(w, T) = SumOver(v, T) /\ SumOver(v, T) \in Int
  <2>1. SumOver(w, T) = SumOver(v, T)
    BY <1>1, SumCongruent
  <2>2. SumOver(v, T) \in Int
    BY <1>1, SumTake
  <2> QED BY <2>1, <2>2
<1>3. SumOver(w, S \cup {x}) = w[x] + SumOver(w, T)
  <2>1. \A y \in S \cup {x} : w[y] \in Int
    OBVIOUS
  <2>2. SumOver(w, S \cup {x}) = w[x] + SumOver(w, (S \cup {x}) \ {x})
    BY <1>1, <2>1, SumTake
  <2>3. (S \cup {x}) \ {x} = T
    OBVIOUS
  <2> QED BY <2>2, <2>3
<1>4. CASE x \in S
  <2>1. SumOver(v, S) = v[x] + SumOver(v, T)
    BY <1>4, SumTake
  <2> HIDE DEF T
  <2> QED BY <1>2, <1>3, <1>4, <2>1
<1>5. CASE x \notin S
  <2>1. T = S
    BY <1>5
  <2> HIDE DEF T
  <2> QED BY <1>2, <1>3, <1>5, <2>1
<1> QED BY <1>4, <1>5

\* Terms of at least one add up to at least their number.
LEMMA SumAtLeast ==
    ASSUME NEW S, IsFiniteSet(S), NEW v, \A x \in S : v[x] \in Int /\ v[x] >= 1
    PROVE  SumOver(v, S) \in Nat /\ SumOver(v, S) >= Cardinality(S)
<1> DEFINE Bad == {s \in SUBSET S : ~ (SumOver(v, s) >= Cardinality(s))}
<1>0. SumOver(v, S) \in Int /\ Cardinality(S) \in Nat
  BY SumTake, FS_CardinalityType
<1> SUFFICES ASSUME Bad # {} PROVE FALSE
  BY <1>0
<1>1. PICK s \in Bad : \A t \in Bad : t \subseteq s => t = s
  <2>1. Bad \in SUBSET SUBSET S
    OBVIOUS
  <2> HIDE DEF Bad
  <2> QED BY <2>1, Minimal
<1>2. IsFiniteSet(s)
  BY FS_Subset
<1>3. CASE s = {}
  <2>1. SumOver(v, s) = 0 /\ Cardinality(s) = 0
    BY <1>2, <1>3, SumStep, FS_EmptySet
  <2> QED BY <2>1
<1>4. ASSUME NEW x \in s PROVE FALSE
  <2> DEFINE t == s \ {x}
  <2>1. t \in SUBSET S /\ t \notin Bad
    BY <1>1
  <2>2. SumOver(v, t) >= Cardinality(t)
    BY <2>1
  <2>3. IsFiniteSet(t) /\ Cardinality(t) = Cardinality(s) - 1 /\ Cardinality(s) \in Nat
    BY <1>2, FS_RemoveElement, FS_CardinalityType
  <2>4. SumOver(v, s) = v[x] + SumOver(v, t) /\ SumOver(v, t) \in Int
    <3>1. \A y \in s : v[y] \in Int
      OBVIOUS
    <3>2. SumOver(v, s) = v[x] + SumOver(v, t)
      BY <1>2, <3>1, SumTake
    <3>3. SumOver(v, t) \in Int
      BY <2>3, <3>1, SumTake
    <3> QED BY <3>2, <3>3
  <2>5. v[x] \in Int /\ v[x] >= 1
    OBVIOUS
  <2>6. ~ (SumOver(v, s) >= Cardinality(s))
    OBVIOUS
  <2> HIDE DEF t
  <2> QED BY <2>2, <2>3, <2>4, <2>5, <2>6
<1> QED BY <1>3, <1>4

----------------------------------------------------------------------------
(* Counting the copies in a bag *)

\* CountOf is a sum, and the terms of a bag are numbers from 1.
LEMMA CountIs == \A B, S : CountOf(B, S) = SumOver(B, S)
BY Zenon DEF CountOf, SumOver

\* An element of a bag has at least one copy.
LEMMA BagTerms ==
    ASSUME NEW B, IsABag(B)
    PROVE  \A x \in DOMAIN B : B[x] \in Nat /\ B[x] >= 1 /\ B[x] \in Int
BY DEF IsABag

\* The copies of some elements are at least as many as the elements.
LEMMA CopyBound ==
    ASSUME NEW B, IsABag(B), IsFiniteSet(DOMAIN B), NEW S, S \subseteq DOMAIN B
    PROVE  CountOf(B, S) \in Nat /\ CountOf(B, S) >= Cardinality(S)
<1>1. IsFiniteSet(S)
  BY FS_Subset
<1>2. \A x \in S : B[x] \in Int /\ B[x] >= 1
  BY BagTerms
<1> QED BY <1>1, <1>2, SumAtLeast, CountIs

\* One copy more of x among those that are counted.
LEMMA CountAdd ==
    ASSUME NEW B, IsABag(B), IsFiniteSet(DOMAIN B), NEW x,
           NEW S, S \subseteq DOMAIN B, x \in DOMAIN B => x \in S
    PROVE  CountOf(BagAdd(B, x), S \cup {x}) = CountOf(B, S) + 1
<1> DEFINE C == BagAdd(B, x)
<1>1. /\ C[x] = 1 + (IF x \in DOMAIN B THEN B[x] ELSE 0)
      /\ \A y \in DOMAIN B : y # x => C[y] = B[y]
  BY AddFacts
<1>2. \A y \in DOMAIN B : B[y] \in Int
  BY BagTerms
<1>3. IsFiniteSet(S)
  BY FS_Subset
<1> HIDE DEF C
<1>4. C[x] \in Int /\ \A y \in S \ {x} : C[y] = B[y]
  BY <1>1, <1>2
<1>5. SumOver(C, S \cup {x}) = SumOver(B, S) + C[x] - (IF x \in S THEN B[x] ELSE 0)
  BY <1>2, <1>3, <1>4, SumChange
<1>6. SumOver(B, S) \in Int
  BY <1>2, <1>3, SumTake
<1>7. SumOver(C, S \cup {x}) = SumOver(B, S) + 1
  BY <1>1, <1>2, <1>5, <1>6
<1> QED BY <1>7, CountIs DEF C

\* Other elements are counted as before.
LEMMA CountSame ==
    ASSUME NEW B, IsABag(B), IsFiniteSet(DOMAIN B), NEW x,
           NEW S, S \subseteq DOMAIN B, x \notin S
    PROVE  CountOf(BagAdd(B, x), S) = CountOf(B, S)
<1>1. \A y \in S : B[y] = BagAdd(B, x)[y]
  BY AddFacts
<1>2. IsFiniteSet(S)
  BY FS_Subset
<1> QED BY <1>1, <1>2, SumCongruent, CountIs

\* One copy less.
LEMMA CountRemove ==
    ASSUME NEW B, IsABag(B), IsFiniteSet(DOMAIN B), NEW x \in DOMAIN B
    PROVE  CountOf(BagRemove(B, x), DOMAIN BagRemove(B, x)) = CountOf(B, DOMAIN B) - 1
<1> DEFINE C == BagRemove(B, x)
           D == DOMAIN B
<1>1. /\ DOMAIN C = IF B[x] = 1 THEN D \ {x} ELSE D
      /\ B[x] # 1 => C[x] = B[x] - 1
      /\ \A y \in D : y # x => C[y] = B[y]
  BY RemoveFacts
<1>2. \A y \in D : B[y] \in Int
  BY BagTerms
<1>3. SumOver(B, D) = B[x] + SumOver(B, D \ {x}) /\ SumOver(B, D \ {x}) \in Int
  <2>1. IsFiniteSet(D \ {x}) /\ IsFiniteSet(D) /\ x \in D
    BY FS_RemoveElement
  <2>2. \A y \in D \ {x} : B[y] \in Int
    BY <1>2
  <2> HIDE DEF D
  <2>3. SumOver(B, D) = B[x] + SumOver(B, D \ {x})
    BY <1>2, <2>1, SumTake
  <2>4. SumOver(B, D \ {x}) \in Int
    BY <2>1, <2>2, SumTake
  <2> QED BY <2>3, <2>4
<1>4. SumOver(C, D \ {x}) = SumOver(B, D \ {x})
  <2>1. IsFiniteSet(D \ {x}) /\ \A y \in D \ {x} : C[y] = B[y]
    BY <1>1, FS_RemoveElement
  <2> HIDE DEF C, D
  <2> QED BY <2>1, SumCongruent
<1> HIDE DEF C
<1>5. SumOver(C, DOMAIN C) = SumOver(B, D) - 1
  <2>1. CASE B[x] = 1
    BY <1>1, <1>3, <1>4, <2>1
  <2>2. CASE B[x] # 1
    <3>1. DOMAIN C = D /\ \A y \in D : C[y] \in Int
      BY <1>1, <1>2, <2>2
    <3>2. SumOver(C, D) = C[x] + SumOver(C, D \ {x})
      BY <3>1, SumTake
    <3> QED BY <1>1, <1>2, <1>3, <1>4, <2>2, <3>1, <3>2
  <2> QED BY <2>1, <2>2
<1> QED BY <1>5, CountIs DEF C

\* There are no copies of nothing.
LEMMA CountNone == CountOf(EmptyBag, DOMAIN EmptyBag) = 0 /\ \A B : CountOf(B, {}) = 0
<1>1. \A B : SumOver(B, {}) = 0
  BY FS_EmptySet, SumStep
<1> QED BY <1>1, CountIs, EmptyFacts

----------------------------------------------------------------------------
(* The bytes on the wire *)

WireOf(B) == [f \in DOMAIN B |-> B[f] * f.len]

\* TotalWireBytes is the sum of the lengths, times the copies.
LEMMA TotalIs ==
    ASSUME NEW B, IsFiniteSet(DOMAIN B)
    PROVE  TotalWireBytes(B) = SumOver(WireOf(B), DOMAIN B)
<1> DEFINE D == DOMAIN B
           h0 == CHOOSE h : h = [s \in SUBSET D |->
                IF s = {} THEN 0 ELSE LET x == CHOOSE x \in s : TRUE IN B[x] * x.len + h[s \ {x}]]
<1>1. TotalWireBytes(B) = h0[D]
  BY Zenon DEF TotalWireBytes, MapThenSumSet, MapThenFoldSet
<1>2. PICK g : PartialSums(g, WireOf(B), D)
  BY SumsExist
<1>3. g = [s \in SUBSET D |-> IF s = {} THEN 0 ELSE B[Pick(s)] * Pick(s).len + g[s \ {Pick(s)}]]
  <2>1. g = [s \in SUBSET D |-> IF s = {} THEN 0 ELSE WireOf(B)[Pick(s)] + g[s \ {Pick(s)}]]
    BY <1>2 DEF PartialSums
  <2>2. \A s \in SUBSET D : s # {} => WireOf(B)[Pick(s)] = B[Pick(s)] * Pick(s).len
    BY PickIn DEF WireOf
  <2> HIDE DEF D
  <2> QED BY <2>1, <2>2
<1>4. \A h : h = [s \in SUBSET D |-> IF s = {} THEN 0 ELSE B[Pick(s)] * Pick(s).len + h[s \ {Pick(s)}]]
        => PartialSums(h, WireOf(B), D)
  <2> TAKE h
  <2> HAVE h = [s \in SUBSET D |-> IF s = {} THEN 0 ELSE B[Pick(s)] * Pick(s).len + h[s \ {Pick(s)}]]
  <2>1. \A s \in SUBSET D : s # {} => WireOf(B)[Pick(s)] = B[Pick(s)] * Pick(s).len
    BY PickIn DEF WireOf
  <2>2. h = [s \in SUBSET D |-> IF s = {} THEN 0 ELSE WireOf(B)[Pick(s)] + h[s \ {Pick(s)}]]
    BY <2>1
  <2> QED BY <2>2 DEF PartialSums
<1>5. h0 = CHOOSE h : h = [s \in SUBSET D |-> IF s = {} THEN 0 ELSE B[Pick(s)] * Pick(s).len + h[s \ {Pick(s)}]]
  BY Zenon DEF Pick
<1> HIDE DEF h0
<1>6. PartialSums(h0, WireOf(B), D)
  BY <1>3, <1>4, <1>5
<1>7. SumOver(WireOf(B), D) = h0[D]
  BY <1>6, SumOverIs
<1> QED BY <1>1, <1>7

\* the lengths of the frames are numbers
Lengths(B) == \A f \in DOMAIN B : f.len \in Nat

\* Multiplying by one more adds once more.
LEMMA OneMoreTimes == \A k, l \in Nat : (k + 1) * l = k * l + l /\ k * l \in Nat
OBVIOUS

\* The bytes of a capture are a number.
LEMMA TotalType ==
    ASSUME NEW B, IsABag(B), IsFiniteSet(DOMAIN B), Lengths(B)
    PROVE  TotalWireBytes(B) \in Int
<1>1. \A f \in DOMAIN B : WireOf(B)[f] \in Int
  BY BagTerms, OneMoreTimes DEF WireOf, Lengths
<1>2. SumOver(WireOf(B), DOMAIN B) \in Int
  BY <1>1, SumTake
<1> QED BY <1>2, TotalIs

\* A frame more, and its bytes.
LEMMA TotalAdd ==
    ASSUME NEW B, IsABag(B), IsFiniteSet(DOMAIN B), Lengths(B), NEW x, x.len \in Nat
    PROVE  TotalWireBytes(BagAdd(B, x)) = TotalWireBytes(B) + x.len
<1> DEFINE C == BagAdd(B, x)
           D == DOMAIN B
           v == WireOf(B)
           w == WireOf(C)
<1>1. /\ DOMAIN C = D \cup {x}
      /\ C[x] = 1 + (IF x \in D THEN B[x] ELSE 0)
      /\ \A y \in D : y # x => C[y] = B[y]
  BY AddFacts
<1>2. \A y \in D : B[y] \in Nat /\ y.len \in Nat
  BY BagTerms DEF Lengths
<1>3. IsFiniteSet(D) /\ IsFiniteSet(DOMAIN C)
  BY <1>1, OneMore, Zenon
<1>4. \A y \in D : v[y] = B[y] * y.len /\ v[y] \in Int
  BY <1>2, OneMoreTimes DEF WireOf
<1> HIDE DEF C, D
<1>5. \A y \in DOMAIN C : w[y] = C[y] * y.len
  BY DEF WireOf
<1>6. \A y \in D \ {x} : w[y] = v[y]
  BY <1>1, <1>4, <1>5
<1>7. w[x] = x.len + (IF x \in D THEN v[x] ELSE 0) /\ w[x] \in Int
  <2>1. CASE x \in D
    <3>1. w[x] = (B[x] + 1) * x.len
      BY <1>1, <1>2, <1>5, <2>1
    <3> QED BY <1>2, <1>4, <2>1, <3>1, OneMoreTimes
  <2>2. CASE x \notin D
    <3>1. w[x] = 1 * x.len
      BY <1>1, <1>5, <2>2
    <3> QED BY <2>2, <3>1
  <2> QED BY <2>1, <2>2
<1> HIDE DEF v, w
<1>8. SumOver(w, D \cup {x}) = SumOver(v, D) + w[x] - (IF x \in D THEN v[x] ELSE 0)
  <2>1. IsFiniteSet(D) /\ (\A y \in D : v[y] \in Int) /\ w[x] \in Int
    BY <1>3, <1>4, <1>7
  <2>2. \A y \in D \ {x} : w[y] = v[y]
    BY <1>6
  <2> QED BY <2>1, <2>2, SumChange
<1>9. SumOver(v, D) \in Int
  BY <1>3, <1>4, SumTake
<1>10. SumOver(w, DOMAIN C) = SumOver(v, D) + x.len
  BY <1>1, <1>4, <1>7, <1>8, <1>9
<1> QED BY <1>3, <1>10, TotalIs DEF C, D, v, w

\* An empty capture has no bytes.
LEMMA TotalNone == TotalWireBytes(EmptyBag) = 0
<1>1. SumOver(WireOf(EmptyBag), {}) = 0
  BY FS_EmptySet, SumStep
<1> QED BY <1>1, EmptyFacts, FS_EmptySet, TotalIs

----------------------------------------------------------------------------
(* The logged retransmissions *)

\* The image of a finite set has at most as many elements.
LEMMA ImageOf ==
    ASSUME NEW S, IsFiniteSet(S), NEW g
    PROVE  IsFiniteSet({g[x] : x \in S}) /\ Cardinality({g[x] : x \in S}) <= Cardinality(S)
<1> DEFINE T == {g[x] : x \in S}
           h == [x \in S |-> g[x]]
<1>1. h \in Surjection(S, T)
  BY DEF Surjection
<1> HIDE DEF T, h
<1>2. IsFiniteSet(T) /\ Cardinality(T) <= Cardinality(S)
  BY <1>1, FS_Surjection
<1> QED BY <1>2 DEF T

\* the confirmable messages of a capture, by message ID and source (con_counts)
Con(B) == {f \in DOMAIN B : f.type = "con"}
KeyOf(f) == <<f.mid, f.src>>
WithKey(B, key) == {f \in Con(B) : KeyOf(f) = key}
KeysOf(B) == {KeyOf(f) : f \in Con(B)}

\* what each message adds to the retransmissions
Excess(B) == [key \in KeysOf(B) |-> CountOf(B, WithKey(B, key)) - 1]

\* A finite capture has finitely many confirmable messages and keys.
LEMMA ConFinite ==
    ASSUME NEW B, IsFiniteSet(DOMAIN B)
    PROVE  IsFiniteSet(Con(B)) /\ IsFiniteSet(KeysOf(B))
<1>1. IsFiniteSet(Con(B))
  BY FS_Subset DEF Con
<1> DEFINE g == [f \in Con(B) |-> KeyOf(f)]
<1>2. KeysOf(B) = {g[f] : f \in Con(B)}
  BY DEF KeysOf
<1> HIDE DEF g
<1> QED BY <1>1, <1>2, ImageOf

\* For CoAP, Retransmissions sums the excess of each message ID and source.
LEMMA RetransIs ==
    ASSUME NEW B, IsFiniteSet(DOMAIN B)
    PROVE  Retransmissions(B, "coap") = SumOver(Excess(B), KeysOf(B))
<1> DEFINE K == KeysOf(B)
           c == [key \in {<<f.mid, f.src>> : f \in {f \in DOMAIN B : f.type = "con"}} |->
                    CountOf(B, {f \in {f \in DOMAIN B : f.type = "con"} : <<f.mid, f.src>> = key})]
           h0 == CHOOSE h : h = [s \in SUBSET DOMAIN c |->
                    IF s = {} THEN 0 ELSE LET x == CHOOSE x \in s : TRUE IN (c[x] - 1) + h[s \ {x}]]
<1>1. Retransmissions(B, "coap") = h0[DOMAIN c]
  BY Zenon DEF Retransmissions, IsTcp, ConCounts, MapThenSumSet, MapThenFoldSet
<1>2. DOMAIN c = K /\ \A key \in K : c[key] - 1 = Excess(B)[key]
  BY DEF KeysOf, KeyOf, Con, WithKey, Excess
<1> HIDE DEF c
<1>3. IsFiniteSet(K)
  BY ConFinite
<1>4. PICK g : PartialSums(g, Excess(B), K)
  BY <1>3, SumsExist
<1> HIDE DEF K
<1>5. \A s \in SUBSET K : s # {} => c[Pick(s)] - 1 = Excess(B)[Pick(s)]
  BY <1>2, PickIn
<1>6. g = [s \in SUBSET K |-> IF s = {} THEN 0 ELSE (c[Pick(s)] - 1) + g[s \ {Pick(s)}]]
  <2>1. g = [s \in SUBSET K |-> IF s = {} THEN 0 ELSE Excess(B)[Pick(s)] + g[s \ {Pick(s)}]]
    BY <1>4 DEF PartialSums
  <2> QED BY <1>5, <2>1
<1>7. \A h : h = [s \in SUBSET K |-> IF s = {} THEN 0 ELSE (c[Pick(s)] - 1) + h[s \ {Pick(s)}]]
        => PartialSums(h, Excess(B), K)
  <2> TAKE h
  <2> HAVE h = [s \in SUBSET K |-> IF s = {} THEN 0 ELSE (c[Pick(s)] - 1) + h[s \ {Pick(s)}]]
  <2>1. h = [s \in SUBSET K |-> IF s = {} THEN 0 ELSE Excess(B)[Pick(s)] + h[s \ {Pick(s)}]]
    BY <1>5
  <2> QED BY <2>1 DEF PartialSums
<1>8. h0 = CHOOSE h : h = [s \in SUBSET K |-> IF s = {} THEN 0 ELSE (c[Pick(s)] - 1) + h[s \ {Pick(s)}]]
  <2>1. h0 = CHOOSE h : h = [s \in SUBSET DOMAIN c |-> IF s = {} THEN 0 ELSE (c[Pick(s)] - 1) + h[s \ {Pick(s)}]]
    BY Zenon DEF Pick
  <2> HIDE DEF h0
  <2> QED BY <1>2, <2>1
<1> HIDE DEF h0
<1>9. PartialSums(h0, Excess(B), K)
  BY <1>6, <1>7, <1>8
<1>10. SumOver(Excess(B), K) = h0[K]
  BY <1>3, <1>9, SumOverIs
<1> QED BY <1>1, <1>2, <1>10 DEF K

\* The excess of a message, and so their sum, is a number.
LEMMA ExcessType ==
    ASSUME NEW B, IsABag(B), IsFiniteSet(DOMAIN B)
    PROVE  /\ \A key \in KeysOf(B) : Excess(B)[key] \in Int
           /\ Retransmissions(B, "coap") \in Int
<1>1. ASSUME NEW key \in KeysOf(B) PROVE Excess(B)[key] \in Int
  <2>1. CountOf(B, WithKey(B, key)) \in Nat
    BY CopyBound DEF WithKey, Con
  <2> QED BY <2>1 DEF Excess
<1>2. SumOver(Excess(B), KeysOf(B)) \in Int
  BY <1>1, ConFinite, SumTake
<1> QED BY <1>1, <1>2, RetransIs

\* An answer is no retransmission.
LEMMA RetransAnswer ==
    ASSUME NEW B, IsABag(B), IsFiniteSet(DOMAIN B), NEW x, x.type # "con"
    PROVE  /\ Retransmissions(BagAdd(B, x), "coap") = Retransmissions(B, "coap")
           /\ Con(BagAdd(B, x)) = Con(B)
<1> DEFINE C == BagAdd(B, x)
<1>1. DOMAIN C = DOMAIN B \cup {x} /\ IsFiniteSet(DOMAIN C)
  <2>1. DOMAIN C = DOMAIN B \cup {x}
    BY AddFacts
  <2>2. IsFiniteSet(DOMAIN C)
    BY <2>1, OneMore, Zenon
  <2> QED BY <2>1, <2>2
<1>2. Con(C) = Con(B) /\ KeysOf(C) = KeysOf(B) /\ \A key : WithKey(C, key) = WithKey(B, key)
  BY <1>1 DEF Con, KeysOf, WithKey
<1>3. ASSUME NEW key \in KeysOf(B) PROVE Excess(C)[key] = Excess(B)[key]
  <2>1. WithKey(B, key) \subseteq DOMAIN B /\ x \notin WithKey(B, key)
    BY DEF WithKey, Con
  <2>2. CountOf(C, WithKey(B, key)) = CountOf(B, WithKey(B, key))
    BY <2>1, CountSame
  <2> QED BY <1>2, <2>2 DEF Excess
<1> HIDE DEF C
<1>4. SumOver(Excess(C), KeysOf(B)) = SumOver(Excess(B), KeysOf(B))
  BY <1>3, ConFinite, SumCongruent
<1>5. Retransmissions(C, "coap") = Retransmissions(B, "coap")
  BY <1>1, <1>2, <1>4, RetransIs
<1> QED BY <1>2, <1>5 DEF C

\* A confirmable message is a retransmission if its key was captured before.
LEMMA RetransMessage ==
    ASSUME NEW B, IsABag(B), IsFiniteSet(DOMAIN B), NEW x, x.type = "con"
    PROVE  /\ Retransmissions(BagAdd(B, x), "coap") = Retransmissions(B, "coap")
                 + (IF KeyOf(x) \in KeysOf(B) THEN 1 ELSE 0)
           /\ Con(BagAdd(B, x)) = Con(B) \cup {x}
<1> DEFINE C == BagAdd(B, x)
           k == KeyOf(x)
<1>1. DOMAIN C = DOMAIN B \cup {x} /\ IsFiniteSet(DOMAIN C)
  <2>1. DOMAIN C = DOMAIN B \cup {x}
    BY AddFacts
  <2>2. IsFiniteSet(DOMAIN C)
    BY <2>1, OneMore, Zenon
  <2> QED BY <2>1, <2>2
<1>2. /\ Con(C) = Con(B) \cup {x} /\ KeysOf(C) = KeysOf(B) \cup {k}
      /\ WithKey(C, k) = WithKey(B, k) \cup {x}
      /\ \A key : key # k => WithKey(C, key) = WithKey(B, key)
  BY <1>1 DEF Con, KeysOf, WithKey
<1>3. ASSUME NEW key \in KeysOf(B), key # k PROVE Excess(C)[key] = Excess(B)[key]
  <2>1. WithKey(B, key) \subseteq DOMAIN B /\ x \notin WithKey(B, key)
    BY <1>3 DEF WithKey, Con
  <2>2. CountOf(C, WithKey(B, key)) = CountOf(B, WithKey(B, key))
    BY <2>1, CountSame
  <2> QED BY <1>2, <1>3, <2>2 DEF Excess
<1>4. Excess(C)[k] = CountOf(B, WithKey(B, k)) /\ CountOf(B, WithKey(B, k)) \in Nat
  <2>1. WithKey(B, k) \subseteq DOMAIN B /\ (x \in DOMAIN B => x \in WithKey(B, k))
    BY DEF WithKey, Con
  <2>2. CountOf(C, WithKey(B, k) \cup {x}) = CountOf(B, WithKey(B, k)) + 1
    BY <2>1, CountAdd
  <2>3. CountOf(B, WithKey(B, k)) \in Nat
    BY <2>1, CopyBound
  <2>4. Excess(C)[k] = CountOf(C, WithKey(B, k) \cup {x}) - 1
    BY <1>2 DEF Excess
  <2> QED BY <2>2, <2>3, <2>4
<1>5. k \notin KeysOf(B) => CountOf(B, WithKey(B, k)) = 0
  <2> SUFFICES ASSUME k \notin KeysOf(B) PROVE CountOf(B, WithKey(B, k)) = 0
    OBVIOUS
  <2>1. WithKey(B, k) = {}
    BY DEF WithKey, KeysOf
  <2> QED BY <2>1, CountNone
<1>6. k \in KeysOf(B) => Excess(B)[k] = CountOf(B, WithKey(B, k)) - 1
  BY DEF Excess
<1>7. (\A key \in KeysOf(B) : Excess(B)[key] \in Int) /\ IsFiniteSet(KeysOf(B))
  BY ExcessType, ConFinite
<1> DEFINE v == Excess(B)
           w == Excess(C)
           K == KeysOf(B)
<1>8. SumOver(w, K \cup {k}) = SumOver(v, K) + w[k] - (IF k \in K THEN v[k] ELSE 0)
  <2>1. IsFiniteSet(K) /\ (\A y \in K : v[y] \in Int) /\ w[k] \in Int
    BY <1>4, <1>7
  <2>2. \A y \in K \ {k} : w[y] = v[y]
    BY <1>3
  <2> HIDE DEF v, w, K, k, C
  <2> QED BY <2>1, <2>2, SumChange
<1>9. SumOver(v, K) \in Int
  <2> HIDE DEF v, K
  <2> QED BY <1>7, SumTake DEF v, K
<1>10. SumOver(w, K \cup {k}) = SumOver(v, K) + (IF k \in K THEN 1 ELSE 0)
  <2> HIDE DEF C, k
  <2> QED BY <1>4, <1>5, <1>6, <1>8, <1>9
<1>11. Retransmissions(C, "coap") = SumOver(w, K \cup {k}) /\ Retransmissions(B, "coap") = SumOver(v, K)
  <2> HIDE DEF C
  <2> QED BY <1>1, <1>2, RetransIs
<1> QED BY <1>2, <1>10, <1>11

\* TCP: the frames that tshark flags.
Flagged(B) == {f \in DOMAIN B : f.flagged}

\* For TCP, Retransmissions counts the copies of the flagged frames.
LEMMA RetransFlags ==
    \A B : IsABag(B) /\ IsFiniteSet(DOMAIN B) =>
        /\ Retransmissions(B, "http") = CountOf(B, Flagged(B))
        /\ CountOf(B, Flagged(B)) \in Nat
<1> TAKE B
<1> HAVE IsABag(B) /\ IsFiniteSet(DOMAIN B)
<1>1. Retransmissions(B, "http") = CountOf(B, {f \in DOMAIN B : f.flagged})
  BY Zenon DEF Retransmissions, IsTcp
<1>2. Flagged(B) \subseteq DOMAIN B
  BY DEF Flagged
<1> QED BY <1>1, <1>2, CopyBound DEF Flagged

\* A flagged frame is one retransmission more.
LEMMA RetransTcpAgain ==
    ASSUME NEW B, IsABag(B), IsFiniteSet(DOMAIN B), NEW x, x.flagged = TRUE
    PROVE  Retransmissions(BagAdd(B, x), "http") = Retransmissions(B, "http") + 1
<1> DEFINE C == BagAdd(B, x)
<1>1. IsABag(C) /\ DOMAIN C = DOMAIN B \cup {x}
  BY AddFacts
<1>2. IsFiniteSet(DOMAIN C)
  BY <1>1, OneMore, Zenon
<1>3. Flagged(C) = Flagged(B) \cup {x} /\ Flagged(B) \subseteq DOMAIN B
      /\ (x \in DOMAIN B => x \in Flagged(B))
  BY <1>1 DEF Flagged
<1>4. CountOf(C, Flagged(B) \cup {x}) = CountOf(B, Flagged(B)) + 1
  BY <1>3, CountAdd
<1> HIDE DEF C
<1>5. Retransmissions(C, "http") = Retransmissions(B, "http") + 1
  BY <1>1, <1>2, <1>3, <1>4, RetransFlags
<1> QED BY <1>5 DEF C

\* A frame that is not flagged is none.
LEMMA RetransTcpFirst ==
    ASSUME NEW B, IsABag(B), IsFiniteSet(DOMAIN B), NEW x, x.flagged = FALSE
    PROVE  Retransmissions(BagAdd(B, x), "http") = Retransmissions(B, "http")
<1> DEFINE C == BagAdd(B, x)
<1>1. IsABag(C) /\ DOMAIN C = DOMAIN B \cup {x}
  BY AddFacts
<1>2. IsFiniteSet(DOMAIN C)
  BY <1>1, OneMore, Zenon
<1>3. Flagged(C) = Flagged(B) /\ Flagged(B) \subseteq DOMAIN B /\ x \notin Flagged(B)
  BY <1>1 DEF Flagged
<1>4. CountOf(C, Flagged(B)) = CountOf(B, Flagged(B))
  BY <1>3, CountSame
<1> HIDE DEF C
<1>5. Retransmissions(C, "http") = Retransmissions(B, "http")
  BY <1>1, <1>2, <1>3, <1>4, RetransFlags
<1> QED BY <1>5 DEF C

\* An empty capture has no retransmissions.
LEMMA RetransNone == Retransmissions(EmptyBag, "http") = 0 /\ Retransmissions(EmptyBag, "coap") = 0
<1>1. Retransmissions(EmptyBag, "http") = CountOf(EmptyBag, {f \in DOMAIN EmptyBag : f.flagged})
  BY Zenon DEF Retransmissions, IsTcp
<1>2. {f \in DOMAIN EmptyBag : f.flagged} = {} /\ KeysOf(EmptyBag) = {}
  BY EmptyFacts DEF KeysOf, Con
<1>3. Retransmissions(EmptyBag, "coap") = SumOver(Excess(EmptyBag), {})
  BY <1>2, EmptyFacts, FS_EmptySet, RetransIs
<1>4. \A v : SumOver(v, {}) = 0
  BY FS_EmptySet, SumStep
<1> QED BY <1>1, <1>2, <1>3, <1>4, CountNone
----------------------------------------------------------------------------
(* The capture *)

\* the message IDs that were captured, and those that were or are under way
SeenMids == {f.mid : f \in Con(pcap)}
Mids == SeenMids \cup {m.id % MidSpace : m \in DOMAIN up}
UnderWayCopies == CountOf(up, DOMAIN up)

\* the copies of the client's messages that were captured or are under way: of
\* each message ID that was captured the first is no retransmission
Copies == Retransmissions(pcap, "coap") + Cardinality(SeenMids) + UnderWayCopies

\* CoAP: the IDs used so far, and these copies against what was sent, sent again
\* and gone
UsedIds == {i % MidSpace : i \in 1 .. sent}
Explained == tally.resent + tally.duplicated + tally.reused
CopiesBalance ==
    Copies + (tally.lost + tally.dropped) = sent + (tally.resent + tally.duplicated)
ReusedIds == tally.reused = IF sent > MidSpace THEN sent - MidSpace ELSE 0

CoapRepeats ==
    /\ \A f \in Con(pcap) : f.src = "client"
    /\ ReusedIds
    /\ Mids \subseteq UsedIds
    /\ Copies - Cardinality(Mids) <= Explained
    /\ alive => CopiesBalance

\* HTTP: tshark flags what TCP sent again
HttpRepeats == Retransmissions(pcap, "http") = tally.resent

Repeats ==
    /\ protocol = "coap" => CoapRepeats
    /\ protocol = "http" => HttpRepeats

\* the bytes of the segments that arrived, or of the blocks that were put together
HttpBytes ==
    /\ TotalWireBytes(pcap) >= exchange * BlockLen
    /\ handler[turn] = "reading" => exchange < Last
    /\ handler[turn] \in {"body", "open", "written", "refused"} => exchange = Last
    /\ row[turn] = "ok" => exchange = Last
CoapBytes ==
    /\ TotalWireBytes(pcap) >= assembled * BlockLen
    /\ HasBegun(turn) => TotalWireBytes(pcap) >= FileSize

\* a complete capture has them
Bytes ==
    tally.dropped = 0 /\ turn \in Transfers =>
        /\ protocol = "http" => HttpBytes
        /\ protocol = "coap" => CoapBytes

----------------------------------------------------------------------------
(* What was captured of the client's messages *)

\* Message IDs come round after MidSpace messages.
LEMMA RoundTheIds ==
    ASSUME NEW n \in Nat
    PROVE  /\ (n + 1) % MidSpace \in Nat
           /\ n < MidSpace => \A i \in 1 .. n : (n + 1) % MidSpace # i % MidSpace
BY UploadPlan

\* One more of what the tally counts.
LEMMA Counted ==
    ASSUME TypeOK, NEW what \in DOMAIN NoTally, Count(what)
    PROVE  \A k \in DOMAIN NoTally : tally'[k] = IF k = what THEN tally[k] + 1 ELSE tally[k]
BY DEF TypeOK, Count

\* The counters are numbers.
LEMMA TallyNumbers ==
    ASSUME TypeOK
    PROVE  {tally.resent, tally.reused, tally.lost, tally.duplicated, tally.dropped} \subseteq Nat
BY TallyNames DEF TypeOK

\* The message IDs are finitely many, and no more than what was captured of
\* them and the copies under way.
LEMMA MidFacts ==
    ASSUME Base
    PROVE  /\ IsFiniteSet(SeenMids) /\ IsFiniteSet(Mids)
           /\ Cardinality(SeenMids) \in Nat /\ Cardinality(Mids) \in Nat
           /\ UnderWayCopies \in Nat
           /\ Cardinality(Mids) <= Cardinality(SeenMids) + UnderWayCopies
           /\ Retransmissions(pcap, "coap") \in Int
<1>1. IsABag(up) /\ IsABag(pcap) /\ IsFiniteSet(DOMAIN up) /\ IsFiniteSet(DOMAIN pcap)
  BY DEF Base, TypeOK, DataOK
<1> DEFINE g == [f \in Con(pcap) |-> f.mid]
           h == [m \in DOMAIN up |-> m.id % MidSpace]
           Under == {m.id % MidSpace : m \in DOMAIN up}
<1>2. SeenMids = {g[f] : f \in Con(pcap)} /\ Under = {h[m] : m \in DOMAIN up}
  BY DEF SeenMids
<1>3. IsFiniteSet(SeenMids)
  <2>1. IsFiniteSet(Con(pcap))
    BY <1>1, ConFinite
  <2> HIDE DEF g
  <2>2. IsFiniteSet({g[f] : f \in Con(pcap)})
    BY <2>1, ImageOf
  <2> QED BY <1>2, <2>2
<1>4. IsFiniteSet(Under) /\ Cardinality(Under) <= Cardinality(DOMAIN up)
  <2> HIDE DEF h
  <2>1. /\ IsFiniteSet({h[m] : m \in DOMAIN up})
        /\ Cardinality({h[m] : m \in DOMAIN up}) <= Cardinality(DOMAIN up)
    BY <1>1, ImageOf
  <2> QED BY <1>2, <2>1
<1>5. UnderWayCopies \in Nat /\ UnderWayCopies >= Cardinality(DOMAIN up)
  BY <1>1, CopyBound DEF UnderWayCopies
<1>6. Mids = SeenMids \cup Under
  BY DEF Mids
<1> HIDE DEF Under
<1>7. /\ IsFiniteSet(Mids)
      /\ Cardinality(Mids) = Cardinality(SeenMids) + Cardinality(Under) - Cardinality(SeenMids \cap Under)
  BY <1>3, <1>4, <1>6, FS_Union
<1>8. IsFiniteSet(SeenMids \cap Under)
  BY <1>3, FS_Subset
<1>9. /\ {Cardinality(SeenMids), Cardinality(Under), Cardinality(Mids)} \subseteq Nat
      /\ Cardinality(SeenMids \cap Under) \in Nat /\ Cardinality(DOMAIN up) \in Nat
  BY <1>1, <1>3, <1>4, <1>7, <1>8, FS_CardinalityType
<1>10. Retransmissions(pcap, "coap") \in Int
  BY <1>1, ExcessType
<1> QED BY <1>3, <1>4, <1>5, <1>7, <1>9, <1>10

\* A new message is another copy, with a message ID of its own or one that is
\* used again.
LEMMA NewMessage ==
    ASSUME Base, CoapRepeats, NEW k \in Nat, Request(k), alive' = alive,
           Con(pcap') = Con(pcap),
           Retransmissions(pcap', "coap") = Retransmissions(pcap, "coap")
    PROVE  CoapRepeats'
<1> DEFINE new == [id |-> sent + 1, block |-> k]
           id == (sent + 1) % MidSpace
<1>1. sent \in Nat /\ sent' = sent + 1 /\ MidSpace \in Nat \ {0}
  BY UploadPlan DEF Base, DataOK, Request
<1>2. UnderWayCopies' = UnderWayCopies + 1
  <2>1. IsABag(up) /\ IsFiniteSet(DOMAIN up)
    BY DEF Base, TypeOK, DataOK
  <2>2. up' = BagAdd(up, new) /\ DOMAIN up' = DOMAIN up \cup {new}
    BY RequestData DEF Request
  <2> HIDE DEF new
  <2>3. CountOf(BagAdd(up, new), DOMAIN up \cup {new}) = CountOf(up, DOMAIN up) + 1
    BY <2>1, CountAdd
  <2> QED BY <2>2, <2>3 DEF UnderWayCopies
<1>3. SeenMids' = SeenMids
  BY DEF SeenMids
<1>4. Mids' = Mids \cup {id}
  <2>1. DOMAIN up' = DOMAIN up \cup {new}
    BY RequestData
  <2>2. new.id % MidSpace = id
    OBVIOUS
  <2> HIDE DEF new, id
  <2>3. {m.id % MidSpace : m \in DOMAIN up'} = {m.id % MidSpace : m \in DOMAIN up} \cup {id}
    BY <2>1, <2>2
  <2> QED BY <1>3, <2>3 DEF Mids
<1>5. Mids' \subseteq UsedIds'
  <2>1. 1 .. sent \subseteq 1 .. sent' /\ sent + 1 \in 1 .. sent'
    BY <1>1
  <2> QED BY <1>4, <2>1 DEF CoapRepeats, UsedIds
<1>6. /\ Cardinality(Mids') = Cardinality(Mids) + (IF id \in Mids THEN 0 ELSE 1)
      /\ sent < MidSpace => id \notin Mids
  <2>1. sent < MidSpace => id \notin Mids
    BY <1>1, RoundTheIds DEF CoapRepeats, UsedIds
  <2>2. IsFiniteSet(Mids) /\ Cardinality(Mids) \in Nat
    BY MidFacts
  <2> HIDE DEF id
  <2> QED BY <1>4, <2>1, <2>2, FS_AddElement
<1>7. /\ tally.resent' = tally.resent /\ tally.duplicated' = tally.duplicated
      /\ tally.lost' = tally.lost /\ tally.dropped' = tally.dropped
      /\ tally.reused' = tally.reused + (IF sent < MidSpace THEN 0 ELSE 1)
  <2>1. CASE sent < MidSpace
    BY <1>1, <2>1, TallyNumbers DEF Base, Request
  <2>2. CASE ~(sent < MidSpace)
    <3>1. Count("reused")
      BY <1>1, <2>2 DEF Request
    <3> QED BY <2>2, <3>1, Counted, TallyNames DEF Base
  <2> QED BY <2>1, <2>2
<1> HIDE DEF id
<1>8. /\ Cardinality(SeenMids) \in Nat /\ Cardinality(Mids) \in Nat /\ UnderWayCopies \in Nat
      /\ Retransmissions(pcap, "coap") \in Int
      /\ {tally.resent, tally.reused, tally.lost, tally.duplicated, tally.dropped} \subseteq Nat
  BY MidFacts, TallyNumbers DEF Base
<1>9. Copies' = Copies + 1 /\ Copies \in Int
  BY <1>2, <1>3, <1>8 DEF Copies
<1>10. \A f \in Con(pcap') : f.src = "client"
  BY DEF CoapRepeats
<1>11. Copies' - Cardinality(Mids') <= Explained'
  BY <1>6, <1>7, <1>8, <1>9 DEF CoapRepeats, Explained
<1>12. alive' => CopiesBalance'
  BY <1>1, <1>7, <1>8, <1>9 DEF CoapRepeats, CopiesBalance
<1>13. ReusedIds'
  BY <1>1, <1>7 DEF CoapRepeats, ReusedIds
<1> QED BY <1>5, <1>10, <1>11, <1>12, <1>13 DEF CoapRepeats

\* One copy more of a message that was sent before, by the client or the network,
\* unless there is no server for it.
LEMMA AnotherCopy ==
    ASSUME Base, CoapRepeats, UNCHANGED <<sent, pcap, alive>>,
           NEW x, x.id \in 1 .. sent,
           up' = BagAdd(up, x) \/ (~alive /\ UNCHANGED up),
           NEW what \in {"resent", "duplicated"}, Count(what)
    PROVE  CoapRepeats'
<1>1. IsABag(up) /\ IsFiniteSet(DOMAIN up)
  BY DEF Base, TypeOK, DataOK
<1>2. SeenMids' = SeenMids
  BY DEF SeenMids
<1>3. \A k \in DOMAIN NoTally : tally'[k] = IF k = what THEN tally[k] + 1 ELSE tally[k]
  BY Counted, TallyNames DEF Base
<1>4. /\ tally.reused' = tally.reused /\ tally.lost' = tally.lost /\ tally.dropped' = tally.dropped
      /\ (tally.resent + tally.duplicated)' = tally.resent + tally.duplicated + 1
  BY <1>3, TallyNames, TallyNumbers DEF Base
<1>5. /\ IsFiniteSet(SeenMids) /\ IsFiniteSet(Mids)
      /\ Cardinality(SeenMids) \in Nat /\ Cardinality(Mids) \in Nat /\ UnderWayCopies \in Nat
      /\ Retransmissions(pcap, "coap") \in Int
      /\ {tally.resent, tally.reused, tally.lost, tally.duplicated, tally.dropped} \subseteq Nat
      /\ {tally.resent', tally.duplicated'} \subseteq Nat
  BY <1>3, MidFacts, TallyNames, TallyNumbers DEF Base
<1>8. ReusedIds' /\ UsedIds' = UsedIds
  BY <1>4 DEF CoapRepeats, ReusedIds, UsedIds
<1>6. CASE up' = BagAdd(up, x)
  <2>1. DOMAIN up' = DOMAIN up \cup {x}
    BY <1>1, <1>6, AddFacts
  <2>2. UnderWayCopies' = UnderWayCopies + 1
    <3>1. CountOf(BagAdd(up, x), DOMAIN up \cup {x}) = CountOf(up, DOMAIN up) + 1
      BY <1>1, CountAdd
    <3> QED BY <1>6, <2>1, <3>1 DEF UnderWayCopies
  <2>3. Mids' = Mids \cup {x.id % MidSpace}
    <3>1. {m.id % MidSpace : m \in DOMAIN up'} = {m.id % MidSpace : m \in DOMAIN up} \cup {x.id % MidSpace}
      BY <2>1
    <3> QED BY <1>2, <3>1 DEF Mids
  <2>4. Cardinality(Mids') >= Cardinality(Mids) /\ Cardinality(Mids') \in Nat
    <3> DEFINE id == x.id % MidSpace
    <3>1. Mids' = Mids \cup {id}
      BY <2>3
    <3>2. IsFiniteSet(Mids)
      BY <1>5
    <3> HIDE DEF id
    <3>3. Cardinality(Mids') = Cardinality(Mids) + (IF id \in Mids THEN 0 ELSE 1) /\ Cardinality(Mids') \in Nat
      BY <3>1, <3>2, WithElement
    <3> QED BY <1>5, <3>3
  <2>5. Mids' \subseteq UsedIds'
    BY <2>3 DEF CoapRepeats, UsedIds
  <2>6. Copies' = Copies + 1 /\ Copies \in Int
    BY <1>2, <1>5, <2>2 DEF Copies
  <2>7. Copies' - Cardinality(Mids') <= Explained'
    BY <1>4, <1>5, <2>4, <2>6 DEF CoapRepeats, Explained
  <2>8. sent \in Nat
    BY DEF Base, DataOK
  <2>9. alive' => CopiesBalance'
    BY <1>4, <1>5, <2>6, <2>8 DEF CoapRepeats, CopiesBalance
  <2> QED BY <1>8, <2>5, <2>7, <2>9 DEF CoapRepeats, Con
<1>7. CASE ~alive /\ UNCHANGED up
  <2>1. UNCHANGED <<Mids, Copies>>
    BY <1>2, <1>7 DEF Mids, Copies, UnderWayCopies
  <2>2. Copies \in Int
    BY <1>5 DEF Copies
  <2>3. Copies' - Cardinality(Mids') <= Explained'
    BY <1>4, <1>5, <2>1, <2>2 DEF CoapRepeats, Explained
  <2> QED BY <1>7, <1>8, <2>1, <2>3 DEF CoapRepeats, Con
<1> QED BY <1>6, <1>7

\* One copy less under way, that is lost or not captured.
LEMMA CopyGone ==
    ASSUME Base, CoapRepeats, UNCHANGED <<sent, pcap, alive>>,
           NEW m \in DOMAIN up, up' = BagRemove(up, m),
           NEW what \in {"lost", "dropped"}, Count(what)
    PROVE  CoapRepeats'
<1>1. IsABag(up) /\ IsFiniteSet(DOMAIN up)
  BY DEF Base, TypeOK, DataOK
<1>2. SeenMids' = SeenMids
  BY DEF SeenMids
<1>3. \A k \in DOMAIN NoTally : tally'[k] = IF k = what THEN tally[k] + 1 ELSE tally[k]
  BY Counted, TallyNames DEF Base
<1>4. /\ tally.reused' = tally.reused /\ tally.resent' = tally.resent
      /\ tally.duplicated' = tally.duplicated
      /\ (tally.lost + tally.dropped)' = tally.lost + tally.dropped + 1
  BY <1>3, TallyNames, TallyNumbers DEF Base
<1>5. /\ IsFiniteSet(SeenMids) /\ IsFiniteSet(Mids)
      /\ Cardinality(SeenMids) \in Nat /\ Cardinality(Mids) \in Nat /\ UnderWayCopies \in Nat
      /\ Retransmissions(pcap, "coap") \in Int
      /\ {tally.resent, tally.reused, tally.lost, tally.duplicated, tally.dropped} \subseteq Nat
      /\ {tally.lost', tally.dropped'} \subseteq Nat /\ sent \in Nat
  BY <1>3, MidFacts, TallyNames, TallyNumbers DEF Base, DataOK
<1>6. UnderWayCopies' = UnderWayCopies - 1
  BY <1>1, CountRemove DEF UnderWayCopies
<1>7. DOMAIN up' \subseteq DOMAIN up /\ DOMAIN up \subseteq DOMAIN up' \cup {m}
  BY UpData
<1>13. ReusedIds' /\ UsedIds' = UsedIds
  BY <1>4 DEF CoapRepeats, ReusedIds, UsedIds
<1>8. Mids' \subseteq Mids /\ Mids \subseteq Mids' \cup {m.id % MidSpace}
  BY <1>2, <1>7 DEF Mids
<1>9. Cardinality(Mids) <= Cardinality(Mids') + 1 /\ Cardinality(Mids') \in Nat
  <2>1. IsFiniteSet(Mids')
    BY <1>5, <1>8, FS_Subset
  <2> QED BY <1>8, <2>1, GrowsByOne
<1>10. Copies' = Copies - 1 /\ Copies \in Int
  BY <1>2, <1>5, <1>6 DEF Copies
<1>11. Copies' - Cardinality(Mids') <= Explained'
  BY <1>4, <1>5, <1>9, <1>10 DEF CoapRepeats, Explained
<1>12. alive' => CopiesBalance'
  <2>1. alive' => CopiesBalance
    BY DEF CoapRepeats
  <2> DEFINE gone == tally.lost + tally.dropped
             again == tally.resent + tally.duplicated
  <2>2. /\ CopiesBalance <=> Copies + gone = sent + again
        /\ CopiesBalance' <=> Copies' + gone' = sent' + again'
    BY DEF CopiesBalance
  <2>3. gone \in Nat /\ again \in Nat /\ gone' = gone + 1 /\ again' = again
    BY <1>4, <1>5
  <2> HIDE DEF gone, again
  <2> QED BY <1>5, <1>10, <2>1, <2>2, <2>3
<1> QED BY <1>8, <1>11, <1>12, <1>13 DEF CoapRepeats, Con

\* One copy less under way, and one more in the capture.
LEMMA CopyCaptured ==
    ASSUME Base, CoapRepeats, UNCHANGED <<sent, tally, alive>>,
           NEW m \in DOMAIN up, up' = BagRemove(up, m),
           NEW payload, pcap' = BagAdd(pcap, Frame("client", "con", m.id, payload, FALSE))
    PROVE  CoapRepeats'
<1> DEFINE x == Frame("client", "con", m.id, payload, FALSE)
<1>1. /\ IsABag(up) /\ IsFiniteSet(DOMAIN up) /\ IsABag(pcap) /\ IsFiniteSet(DOMAIN pcap)
  BY DEF Base, TypeOK, DataOK
<1>2. x.type = "con" /\ x.src = "client" /\ x.mid = m.id % MidSpace
  BY DEF Frame
<1> HIDE DEF x
<1>3. /\ Retransmissions(pcap', "coap") = Retransmissions(pcap, "coap")
            + (IF KeyOf(x) \in KeysOf(pcap) THEN 1 ELSE 0)
      /\ Con(pcap') = Con(pcap) \cup {x}
  BY <1>1, <1>2, RetransMessage DEF x
<1>4. SeenMids' = SeenMids \cup {x.mid}
  BY <1>3 DEF SeenMids
<1>5. KeyOf(x) \in KeysOf(pcap) <=> x.mid \in SeenMids
  BY <1>2 DEF KeysOf, KeyOf, Con, SeenMids, CoapRepeats
<1>6. /\ IsFiniteSet(SeenMids) /\ IsFiniteSet(Mids)
      /\ Cardinality(SeenMids) \in Nat /\ Cardinality(Mids) \in Nat /\ UnderWayCopies \in Nat
      /\ Retransmissions(pcap, "coap") \in Int
  BY MidFacts
<1>7. Cardinality(SeenMids') = Cardinality(SeenMids) + (IF x.mid \in SeenMids THEN 0 ELSE 1)
  <2> DEFINE id == x.mid
  <2>1. SeenMids' = SeenMids \cup {id}
    BY <1>4
  <2> HIDE DEF id
  <2>2. IsFiniteSet(SeenMids)
    BY <1>6
  <2>3. Cardinality(SeenMids') = Cardinality(SeenMids) + (IF id \in SeenMids THEN 0 ELSE 1)
    BY <2>1, <2>2, WithElement
  <2> QED BY <2>3 DEF id
<1>8. UnderWayCopies' = UnderWayCopies - 1
  BY <1>1, CountRemove DEF UnderWayCopies
<1>9. Copies' = Copies
  <2> DEFINE L == Retransmissions(pcap, "coap")
             S == Cardinality(SeenMids)
             again == x.mid \in SeenMids
  <2>1. L' = L + (IF again THEN 1 ELSE 0)
    BY <1>3, <1>5
  <2>2. S' = S + (IF again THEN 0 ELSE 1)
    BY <1>7
  <2>3. L \in Int /\ S \in Nat /\ UnderWayCopies \in Nat
    BY <1>6
  <2>4. Copies = L + S + UnderWayCopies /\ Copies' = L' + S' + UnderWayCopies'
    BY DEF Copies
  <2> HIDE DEF L, S, again
  <2>5. L' + S' = L + S + 1
    BY <2>1, <2>2, <2>3
  <2>6. L' + S' + UnderWayCopies' = L + S + UnderWayCopies
    BY <1>8, <2>3, <2>5
  <2> QED BY <2>4, <2>6
<1>10. DOMAIN up' \subseteq DOMAIN up /\ DOMAIN up \subseteq DOMAIN up' \cup {m}
  BY UpData
<1>11. Mids' = Mids
  BY <1>2, <1>4, <1>10 DEF Mids
<1>12. \A f \in Con(pcap') : f.src = "client"
  BY <1>2, <1>3 DEF CoapRepeats
<1> QED BY <1>9, <1>11, <1>12 DEF CoapRepeats, UsedIds, Explained, CopiesBalance, ReusedIds

\* Before the first message there are no copies.
LEMMA NoCopies ==
    ASSUME up = EmptyBag, pcap = EmptyBag, sent = 0, tally = NoTally
    PROVE  CoapRepeats /\ HttpRepeats
<1>1. DOMAIN up = {} /\ DOMAIN pcap = {}
  BY EmptyFacts
<1>2. SeenMids = {} /\ Mids = {}
  BY <1>1 DEF SeenMids, Mids, Con
<1>3. Cardinality(SeenMids) = 0 /\ Cardinality(Mids) = 0
  BY <1>2, FS_EmptySet
<1>4. UnderWayCopies = 0 /\ Retransmissions(pcap, "coap") = 0 /\ Retransmissions(pcap, "http") = 0
  BY CountNone, RetransNone DEF UnderWayCopies
<1>5. tally = [resent |-> 0, reused |-> 0, lost |-> 0, duplicated |-> 0, dropped |-> 0]
  BY DEF NoTally
<1>6. Copies = 0
  BY <1>3, <1>4 DEF Copies
<1> QED BY <1>1, <1>2, <1>3, <1>4, <1>5, <1>6, UploadPlan 
    DEF CoapRepeats, HttpRepeats, UsedIds, Explained, CopiesBalance, ReusedIds, Con

\* Nothing that the copies are counted from changes.
LEMMA CopiesSame ==
    ASSUME CoapRepeats, UNCHANGED <<sent, up, pcap, tally, alive>>
    PROVE  CoapRepeats'
BY DEF CoapRepeats, Copies, Mids, SeenMids, UsedIds, ReusedIds, Explained, CopiesBalance,
       UnderWayCopies

\* Every step of CoAP keeps the balance of copies (detect_retransmissions of
\* pcap_analyzer.py:328 counts what is captured of them).
LEMMA CoapRepeatsNext ==
    ASSUME Base, CoapRepeats, protocol = "coap", [Next]_vars
    PROVE  CoapRepeats'
<1>0. /\ IsABag(pcap) /\ IsFiniteSet(DOMAIN pcap) /\ exchange \in Nat /\ sent \in Nat
      /\ \A m \in DOMAIN up : m.id \in 1 .. sent
  BY DEF Base, TypeOK, DataOK
<1>1. CASE Probe
  BY <1>1, 0 \in Nat, NewMessage DEF Probe
<1>2. CASE Resend
  <2> DEFINE x == [id |-> sent, block |-> exchange]
  <2>1. x.id \in 1 .. sent
    BY <1>0, <1>2, ResendData
  <2>2. up' = BagAdd(up, x) \/ (~alive /\ UNCHANGED up)
    BY <1>2 DEF Resend
  <2>3. UNCHANGED <<sent, pcap, alive>> /\ Count("resent")
    BY <1>2 DEF Resend
  <2> HIDE DEF x
  <2> QED BY <2>1, <2>2, <2>3, AnotherCopy
<1>3. CASE RequestFails
  <2>1. CASE Request(1)
    BY <1>3, <2>1, 1 \in Nat, NewMessage DEF RequestFails
  <2>2. CASE UNCHANGED <<clientVars, up, tally>>
    BY <1>3, <2>2, CopiesSame DEF RequestFails
  <2> QED BY <1>3, <2>1, <2>2 DEF RequestFails
<1>4. CASE ServerDies
  <2>1. /\ DOMAIN up' = {} /\ up' = EmptyBag /\ alive' = FALSE
        /\ UNCHANGED <<sent, pcap, tally>>
    BY <1>4, EmptyFacts DEF ServerDies
  <2>2. SeenMids' = SeenMids /\ Mids' = SeenMids
    BY <2>1 DEF Mids, SeenMids
  <2>3. UnderWayCopies' = 0
    BY <2>1, CountNone DEF UnderWayCopies
  <2>4. /\ Cardinality(SeenMids) \in Nat /\ Cardinality(Mids) \in Nat
        /\ UnderWayCopies \in Nat /\ Retransmissions(pcap, "coap") \in Int
        /\ Cardinality(Mids) <= Cardinality(SeenMids) + UnderWayCopies
        /\ {tally.resent, tally.reused, tally.duplicated} \subseteq Nat
    BY MidFacts, TallyNumbers DEF Base
  <2>5. Explained' = Explained /\ Explained \in Nat /\ Copies - Cardinality(Mids) <= Explained
    BY <2>1, <2>4 DEF Explained, CoapRepeats
  <2>6. Copies' - Cardinality(Mids') <= Explained'
    BY <2>1, <2>2, <2>3, <2>4, <2>5 DEF Copies
  <2>7. Mids' \subseteq UsedIds' /\ ReusedIds'
    <3>1. SeenMids \subseteq Mids
      BY DEF Mids
    <3> QED BY <2>1, <2>2, <3>1 DEF CoapRepeats, UsedIds, ReusedIds
  <2>8. \A f \in Con(pcap') : f.src = "client"
    BY <2>1 DEF CoapRepeats
  <2> QED BY <2>1, <2>6, <2>7, <2>8 DEF CoapRepeats
<1>5. CASE EndTransfer
  <2>1. up' = EmptyBag /\ pcap' = EmptyBag /\ sent' = 0 /\ tally' = NoTally
    BY <1>5 DEF EndTransfer
  <2>2. (up = EmptyBag /\ pcap = EmptyBag /\ sent = 0 /\ tally = NoTally => CoapRepeats)'
    BY NoCopies, PTL
  <2> QED BY <2>1, <2>2 DEF NoTally
<1>6. CASE UNCHANGED vars
  BY <1>6, CopiesSame DEF vars
<1>7. ASSUME NEW t \in Transfers, FinishPut(t) PROVE CoapRepeats'
  BY <1>7, CopiesSame DEF FinishPut
<1>8. ASSUME NEW m \in DOMAIN up, Receive(m) PROVE CoapRepeats'
  <2> DEFINE payload == IF m.block = 0 THEN 0 ELSE BlockLen
  <2>1. /\ up' = BagRemove(up, m) /\ UNCHANGED <<sent, alive>>
        /\ Capture(Frame("client", "con", m.id, payload, FALSE))
    BY <1>8 DEF Receive
  <2> HIDE DEF payload
  <2>2. CASE pcap' = BagAdd(pcap, Frame("client", "con", m.id, payload, FALSE)) /\ UNCHANGED tally
    BY <2>1, <2>2, CopyCaptured
  <2>3. CASE Count("dropped") /\ UNCHANGED pcap
    BY <2>1, <2>3, CopyGone
  <2> QED BY <2>1, <2>2, <2>3 DEF Capture
<1>9. ASSUME NEW m \in DOMAIN up, Lose(m) PROVE CoapRepeats'
  BY <1>9, CopyGone DEF Lose
<1>10. ASSUME NEW m \in DOMAIN up, Duplicate(m) PROVE CoapRepeats'
  BY <1>0, <1>10, AnotherCopy DEF Duplicate
<1>11. ASSUME NEW a \in DOMAIN down, AnswerArrives(a) PROVE CoapRepeats'
  <2> DEFINE x == Frame("server", "ack", a.id, 0, FALSE)
  <2>1. pcap' = BagAdd(pcap, x) /\ UNCHANGED alive
    BY <1>11 DEF AnswerArrives
  <2>2. x.type # "con"
    BY DEF Frame
  <2> HIDE DEF x
  <2>3. /\ Retransmissions(pcap', "coap") = Retransmissions(pcap, "coap")
        /\ Con(pcap') = Con(pcap)
    BY <1>0, <2>1, <2>2, RetransAnswer
  <2>4. CASE Request(exchange + 1)
    <3>1. exchange + 1 \in Nat
      BY <1>0
    <3> QED BY <2>1, <2>3, <2>4, <3>1, NewMessage
  <2>5. CASE UNCHANGED <<clientVars, up, tally>>
    BY <2>1, <2>3, <2>5 DEF CoapRepeats, Copies, Mids, SeenMids, UsedIds, ReusedIds,
                            Explained, CopiesBalance, UnderWayCopies
  <2> QED BY <1>11, <2>4, <2>5 DEF AnswerArrives
<1>12. ASSUME NEW a \in DOMAIN down, LoseAnswer(a) PROVE CoapRepeats'
  BY <1>12, CopiesSame DEF LoseAnswer
<1> QED BY <1>1, <1>2, <1>3, <1>4, <1>5, <1>6, <1>7, <1>8, <1>9, <1>10, <1>11, <1>12,
           CoapSteps

\* HTTP: of the frames that are captured SegmentAgain's is flagged.
LEMMA HttpRepeatsNext ==
    ASSUME Base, HttpRepeats, protocol = "http", [Next]_vars
    PROVE  HttpRepeats'
<1>0. IsABag(pcap) /\ IsFiniteSet(DOMAIN pcap) /\ TypeOK /\ tally.resent \in Nat
  BY TallyNumbers DEF Base, TypeOK, DataOK
<1>1. ASSUME NEW payload,
             pcap' = BagAdd(pcap, Frame("client", "tcp", 0, payload, FALSE)) \/ UNCHANGED pcap,
             UNCHANGED tally \/ Count("dropped")
      PROVE  HttpRepeats'
  <2> DEFINE x == Frame("client", "tcp", 0, payload, FALSE)
  <2>1. x.flagged = FALSE
    BY DEF Frame
  <2> HIDE DEF x
  <2>2. Retransmissions(pcap', "http") = Retransmissions(pcap, "http")
    <3>1. CASE pcap' = BagAdd(pcap, x)
      BY <1>0, <2>1, <3>1, RetransTcpFirst
    <3> QED BY <1>1, <3>1 DEF x
  <2>3. tally'.resent = tally.resent
    BY <1>0, <1>1, Counted, TallyNames
  <2> QED BY <2>2, <2>3 DEF HttpRepeats
<1>2. CASE Connect
  BY <1>1, <1>2 DEF Connect
<1>3. CASE Segment
  BY <1>1, <1>3 DEF Segment, Capture
<1>4. CASE SegmentAgain
  <2> DEFINE x == Frame("client", "tcp", 0, BlockLen, TRUE)
  <2>1. pcap' = BagAdd(pcap, x) /\ Count("resent") /\ x.flagged = TRUE
    BY <1>4 DEF SegmentAgain, Frame
  <2> HIDE DEF x
  <2>2. Retransmissions(pcap', "http") = Retransmissions(pcap, "http") + 1
    BY <1>0, <2>1, RetransTcpAgain
  <2>3. tally'.resent = tally.resent + 1
    BY <1>0, <2>1, Counted, TallyNames
  <2> QED BY <2>2, <2>3 DEF HttpRepeats
<1>5. CASE EndTransfer
  <2>1. pcap' = EmptyBag /\ tally' = NoTally
    BY <1>5 DEF EndTransfer
  <2> QED BY <2>1, RetransNone DEF HttpRepeats, NoTally
<1>6. CASE UNCHANGED <<pcap, tally>>
  BY <1>6 DEF HttpRepeats
<1>7. UNCHANGED <<pcap, tally>> \/ Connect \/ Segment \/ SegmentAgain \/ EndTransfer
  BY HttpSteps DEF ConnectionLost, ServerDies, vars, Verify, Save, Respond
<1> QED BY <1>2, <1>3, <1>4, <1>5, <1>6, <1>7

\* How many numbers there are up to n.
LEMMA IntervalSize ==
    ASSUME NEW n \in Nat
    PROVE  /\ IsFiniteSet(1 .. n) /\ Cardinality(1 .. n) = n
           /\ IsFiniteSet(0 .. n - 1) /\ Cardinality(0 .. n - 1) = n
<1>1. /\ IsFiniteSet(1 .. n)
      /\ Cardinality(1 .. n) = IF 1 > n THEN 0 ELSE n - 1 + 1
  BY FS_Interval
<1>2. /\ IsFiniteSet(0 .. n - 1)
      /\ Cardinality(0 .. n - 1) = IF 0 > n - 1 THEN 0 ELSE (n - 1) - 0 + 1
  <2>1. 0 \in Int /\ n - 1 \in Int
    OBVIOUS
  <2> QED BY <2>1, FS_Interval
<1> QED BY <1>1, <1>2

\* What is logged as retransmissions is what was repeated, by the client or the
\* network, and what a message ID was used again for (pcap_analyzer.py).
LEMMA RepeatsExplain ==
    ASSUME Base, Repeats
    PROVE  RepeatsExplained
<1> SUFFICES ASSUME pc = "returned"
             PROVE  /\ Retransmissions(pcap, protocol) <= Explained
                    /\ protocol = "coap" /\ alive =>
                         Retransmissions(pcap, protocol) >=
                             Explained - (tally.lost + tally.dropped + UnderWayCopies)
  BY DEF RepeatsExplained, Logged, Analysis, Explained, UnderWayCopies
<1>1. /\ Cardinality(SeenMids) \in Nat /\ Cardinality(Mids) \in Nat
      /\ UnderWayCopies \in Nat /\ Retransmissions(pcap, "coap") \in Int
      /\ Cardinality(Mids) <= Cardinality(SeenMids) + UnderWayCopies
      /\ {tally.resent, tally.reused, tally.lost, tally.duplicated, tally.dropped} \subseteq Nat
      /\ sent \in Nat /\ protocol \in {"http", "coap"}
  BY MidFacts, TallyNumbers DEF Base, DataOK
<1>2. CASE protocol = "http"
  BY <1>1, <1>2 DEF Repeats, HttpRepeats, Explained
<1>3. CASE protocol = "coap"
  <2>1. CoapRepeats
    BY <1>3 DEF Repeats
  <2>2. Retransmissions(pcap, "coap") <= Explained
    BY <1>1, <2>1 DEF CoapRepeats, Copies, Explained
  <2>3. Cardinality(SeenMids) <= sent /\ Cardinality(SeenMids) <= MidSpace
    <3>1. SeenMids \subseteq UsedIds
      BY <2>1 DEF CoapRepeats, Mids
    <3> DEFINE g == [i \in 1 .. sent |-> i % MidSpace]
    <3>2. UsedIds = {g[i] : i \in 1 .. sent}
      BY DEF UsedIds
    <3>0. \A n \in Nat : /\ IsFiniteSet(1 .. n) /\ Cardinality(1 .. n) = n
                        /\ IsFiniteSet(0 .. n - 1) /\ Cardinality(0 .. n - 1) = n
      BY IntervalSize
    <3>3. IsFiniteSet(1 .. sent) /\ Cardinality(1 .. sent) = sent
      BY <1>1, <3>0
    <3> HIDE DEF g
    <3>4. IsFiniteSet({g[i] : i \in 1 .. sent}) /\ Cardinality({g[i] : i \in 1 .. sent}) <= sent
      BY <3>3, ImageOf
    <3>5. UsedIds \subseteq 0 .. MidSpace - 1
      BY <1>1, UploadPlan DEF UsedIds
    <3>6. IsFiniteSet(0 .. MidSpace - 1) /\ Cardinality(0 .. MidSpace - 1) = MidSpace
      BY UploadPlan, <3>0
    <3>7. Cardinality(SeenMids) <= Cardinality(UsedIds) /\ Cardinality(UsedIds) \in Nat
      BY <3>1, <3>2, <3>4, Shrinks
    <3>8. Cardinality(UsedIds) <= MidSpace
      BY <3>5, <3>6, Shrinks
    <3> QED BY <1>1, <3>2, <3>4, <3>7, <3>8, UploadPlan
  <2>4. sent - Cardinality(SeenMids) >= tally.reused
    BY <1>1, <2>1, <2>3, UploadPlan DEF CoapRepeats, ReusedIds
  <2>5. alive => Copies + (tally.lost + tally.dropped) = sent + (tally.resent + tally.duplicated)
    BY <2>1 DEF CoapRepeats, CopiesBalance
  <2>6. alive => Retransmissions(pcap, "coap") >=
                     Explained - (tally.lost + tally.dropped + UnderWayCopies)
    BY <1>1, <2>4, <2>5 DEF Copies, Explained
  <2> QED BY <1>3, <2>2, <2>6
<1> QED BY <1>1, <1>2, <1>3

\* Every step keeps the account of the repeats.
LEMMA RepeatsNext ==
    ASSUME Base, Repeats, [Next]_vars
    PROVE  Repeats'
BY OneProtocol, CoapRepeatsNext, HttpRepeatsNext DEF Repeats

\* RepeatsExplained: the retransmissions that are logged are at most what was sent
\* again or duplicated and the message IDs used again, and for CoAP all of these but
\* those lost, not captured or under way (pcap_analyzer.py:328).
THEOREM RetransmissionsExplained == Spec => []RepeatsExplained
<1>1. Init => Repeats
  BY NoCopies DEF Init, Repeats
<1>2. Base /\ Base' /\ Repeats /\ [Next]_vars => Repeats'
  BY RepeatsNext
<1>3. Base /\ Repeats => RepeatsExplained
  BY RepeatsExplain
<1> QED BY BaseInvariant, <1>1, <1>2, <1>3, PTL DEF Spec

----------------------------------------------------------------------------
(* The bytes that were captured *)

\* The bytes of a capture and of a file are numbers.
LEMMA WireFacts ==
    ASSUME Base
    PROVE  /\ TotalWireBytes(pcap) \in Int /\ HeaderLen \in Nat /\ BlockLen \in Nat
           /\ exchange \in Nat /\ assembled \in Nat
           /\ turn \in Transfers => Last \in Nat \ {0} /\ FileSize = Last * BlockLen
<1>1. IsABag(pcap) /\ IsFiniteSet(DOMAIN pcap) /\ Lengths(pcap)
  BY DEF Base, TypeOK, DataOK, Frames, Lengths
<1>2. TotalWireBytes(pcap) \in Int
  BY <1>1, TotalType
<1>3. turn \in Transfers => Last \in Nat \ {0}
  BY UploadPlan DEF Last
<1> QED BY <1>2, <1>3, UploadPlan DEF Base, DataOK, FileSize

\* A frame more is not a byte less.
LEMMA WireGrows ==
    ASSUME Base, NEW src, NEW type, NEW id, NEW payload \in Nat, NEW flagged,
           pcap' = BagAdd(pcap, Frame(src, type, id, payload, flagged))
    PROVE  /\ TotalWireBytes(pcap') >= TotalWireBytes(pcap) + payload
           /\ TotalWireBytes(pcap') \in Int
<1> DEFINE x == Frame(src, type, id, payload, flagged)
<1>1. IsABag(pcap) /\ IsFiniteSet(DOMAIN pcap) /\ Lengths(pcap)
  BY DEF Base, TypeOK, DataOK, Frames, Lengths
<1>2. x.len = HeaderLen + payload /\ HeaderLen \in Nat
  BY UploadPlan DEF Frame
<1> HIDE DEF x
<1>3. TotalWireBytes(BagAdd(pcap, x)) = TotalWireBytes(pcap) + x.len
  BY <1>1, <1>2, TotalAdd
<1> QED BY <1>2, <1>3, WireFacts DEF x

\* A block more is so many bytes more.
LEMMA BlockMore ==
    ASSUME NEW k \in Nat, NEW l \in Nat, NEW w \in Int, NEW z \in Int,
           w >= k * l, z >= w + l
    PROVE  z >= (k + 1) * l
BY OneMoreTimes

\* What was dropped stays so.
LEMMA DroppedOnce ==
    ASSUME TypeOK, Count("dropped")
    PROVE  tally'.dropped # 0
BY Counted, TallyNames, TallyNumbers

\* What else is counted leaves the dropped frames.
LEMMA NotDropped ==
    ASSUME TypeOK, NEW what \in DOMAIN NoTally \ {"dropped"}, Count(what)
    PROVE  tally'.dropped = tally.dropped
BY Counted, TallyNames

\* Every step of HTTP keeps that a complete capture has the bytes of the segments
\* that arrived, and the handler has the body only with the last one
\* (request.data of flask_server.py:9).
LEMMA HttpBytesNext ==
    ASSUME Base, Bytes, protocol = "http", [Next]_vars
    PROVE  Bytes'
<1> SUFFICES ASSUME (tally.dropped = 0 /\ turn \in Transfers)' PROVE HttpBytes'
  BY OneProtocol DEF Bytes
<1>0. /\ TypeOK /\ Progress /\ protocol' = protocol
      /\ \A t \in Transfers : t \in Nat
      /\ pc = "idle" => exchange = 0
  BY OneProtocol DEF Base, Fresh, Transfers
<1> USE WireFacts
<1>1. ASSUME tally.dropped = 0, turn \in Transfers PROVE HttpBytes
  BY <1>1 DEF Bytes
<1>2. CASE Connect
  <2>1. turn \in Transfers /\ pc = "idle" /\ UNCHANGED <<turn, exchange, row, tally>>
    BY <1>2 DEF Connect
  <2>2. TotalWireBytes(pcap') >= TotalWireBytes(pcap) /\ TotalWireBytes(pcap') \in Int
    <3>1. CASE pcap' = pcap
      BY <3>1
    <3>2. CASE pcap' = BagAdd(pcap, Frame("client", "tcp", 0, 0, FALSE))
      <4>1. /\ TotalWireBytes(pcap') >= TotalWireBytes(pcap) + 0
            /\ TotalWireBytes(pcap') \in Int
        BY <3>2, 0 \in Nat, WireGrows
      <4> QED BY <4>1
    <3> QED BY <1>2, <3>1, <3>2 DEF Connect
  <2>3. TotalWireBytes(pcap') >= exchange' * BlockLen
    <3>1. TotalWireBytes(pcap) >= exchange * BlockLen /\ exchange * BlockLen \in Nat
      BY <1>1, <2>1, OneMoreTimes DEF HttpBytes
    <3> QED BY <2>1, <2>2, <3>1
  <2>4. handler'[turn] \in {"reading", "none"} /\ row[turn] = "none"
    BY <1>0, <1>2, <2>1, HandleFacts DEF Connect, Progress, TypeOK
  <2>5. Last' = Last /\ exchange' < Last'
    BY <1>0, <2>1 DEF Last
  <2> QED BY <2>1, <2>3, <2>4, <2>5 DEF HttpBytes
<1>3. CASE Segment
  <2>1. /\ turn \in Transfers /\ pc = "put" /\ UNCHANGED <<turn, row>> /\ handler[turn] = "reading"
        /\ exchange' = exchange + 1
    BY <1>3 DEF Segment, Uploading, TypeOK
  <2>2. pcap' = BagAdd(pcap, Frame("client", "tcp", 0, BlockLen, FALSE)) /\ UNCHANGED tally
    BY <1>0, <1>3, DroppedOnce DEF Segment, Capture
  <2>3. /\ TotalWireBytes(pcap') >= TotalWireBytes(pcap) + BlockLen
        /\ TotalWireBytes(pcap') \in Int
    BY <2>2, WireGrows
  <2>4. TotalWireBytes(pcap) >= exchange * BlockLen /\ exchange < Last
    BY <1>1, <2>1, <2>2 DEF HttpBytes
  <2>5. TotalWireBytes(pcap') >= exchange' * BlockLen
    <3>1. TotalWireBytes(pcap') >= (exchange + 1) * BlockLen
      BY <2>3, <2>4, BlockMore
    <3> QED BY <2>1, <3>1
  <2>6. Last' = Last /\ row'[turn] = "none"
    BY <1>0, <2>1 DEF Last, Progress, TypeOK
  <2>7. IF exchange' = Last THEN handler'[turn] = "body" ELSE handler'[turn] = "reading"
    BY <1>0, <1>3, <2>1, HandleFacts DEF Segment
  <2>8. exchange' <= Last
    BY <2>1, <2>4
  <2> QED BY <2>1, <2>5, <2>6, <2>7, <2>8 DEF HttpBytes
<1>4. CASE SegmentAgain
  <2>1. /\ UNCHANGED <<turn, exchange, row, handler>>
        /\ pcap' = BagAdd(pcap, Frame("client", "tcp", 0, BlockLen, TRUE))
    BY <1>4 DEF SegmentAgain
  <2>2. tally'.dropped = tally.dropped
    BY <1>0, <1>4, NotDropped, TallyNames DEF SegmentAgain
  <2>3. /\ TotalWireBytes(pcap') >= TotalWireBytes(pcap) + BlockLen
        /\ TotalWireBytes(pcap') \in Int
    BY <2>1, WireGrows
  <2>4. HttpBytes
    BY <1>1, <2>1, <2>2
  <2>5. TotalWireBytes(pcap') >= exchange' * BlockLen
    <3>1. TotalWireBytes(pcap) >= exchange * BlockLen /\ exchange * BlockLen \in Nat
      BY <2>4, OneMoreTimes DEF HttpBytes
    <3>2. exchange' * BlockLen = exchange * BlockLen
      BY <2>1
    <3> QED BY <2>3, <3>1, <3>2
  <2> QED BY <2>1, <2>4, <2>5 DEF HttpBytes, Last
<1>5. CASE EndTransfer
  <2>1. turn' = turn + 1 /\ pcap' = EmptyBag /\ exchange' = 0 /\ UNCHANGED <<row, handler>>
    BY <1>5 DEF EndTransfer
  <2>2. turn' > turn /\ turn' \in Transfers
    BY <2>1, Begun
  <2>3. handler'[turn'] = "none" /\ row'[turn'] = "none"
    BY <1>0, <2>1, <2>2, Begun DEF Progress, TypeOK
  <2>4. TotalWireBytes(pcap') >= exchange' * BlockLen
    BY <2>1, TotalNone
  <2> QED BY <2>3, <2>4 DEF HttpBytes
<1>6. ASSUME UNCHANGED <<turn, exchange, pcap, tally>>,
             handler'[turn] = "reading" => handler[turn] = "reading",
             handler'[turn] \in {"body", "open", "written", "refused"} =>
                handler[turn] \in {"body", "open", "written", "refused"},
             row'[turn] = "ok" =>
                row[turn] = "ok" \/ handler[turn] \in {"body", "open", "written", "refused"}
      PROVE  HttpBytes'
  <2>1. HttpBytes
    BY <1>1, <1>6
  <2> QED BY <1>6, <2>1 DEF HttpBytes, Last
<1>7. ASSUME NEW t \in Transfers, Verify(t) PROVE HttpBytes'
  <2>1. UNCHANGED <<turn, exchange, pcap, tally, row>>
    BY <1>7 DEF Verify
  <2>2. handler[t] = "body" /\ handler'[t] \in {"refused", "open"}
        /\ \A s \in Transfers : s # t => handler'[s] = handler[s]
    BY <1>0, <1>7, HandleFacts DEF Verify
  <2> QED BY <1>6, <2>1, <2>2
<1>8. ASSUME NEW t \in Transfers, Save(t) PROVE HttpBytes'
  <2>1. UNCHANGED <<turn, exchange, pcap, tally, row>>
    BY <1>8 DEF Save
  <2>2. handler[t] = "open" /\ handler'[t] \in {"written", "refused"}
        /\ \A s \in Transfers : s # t => handler'[s] = handler[s]
    BY <1>0, <1>8, HandleFacts DEF Save
  <2> QED BY <1>6, <2>1, <2>2
<1>9. ASSUME NEW t \in Transfers, Respond(t) PROVE HttpBytes'
  <2>1. UNCHANGED <<turn, exchange, pcap, tally>>
    BY <1>9 DEF Respond
  <2>2. handler[t] \in {"written", "refused"} /\ handler'[t] = "ended"
        /\ \A s \in Transfers : s # t => handler'[s] = handler[s]
    BY <1>0, <1>9, HandleFacts DEF Respond, Answered
  <2>3. row' = row \/ t = turn
    BY <1>9 DEF Respond
  <2> QED BY <1>6, <2>1, <2>2, <2>3
<1>10. CASE ConnectionLost
  <2>1. UNCHANGED <<turn, exchange, pcap, tally, row>> /\ turn \in Transfers
    BY <1>0, <1>10 DEF ConnectionLost, Uploading, TypeOK
  <2>2. handler'[turn] \in {handler[turn], "ended"}
    BY <1>0, <1>10, <2>1, HandleFacts DEF ConnectionLost
  <2> QED BY <1>6, <2>1, <2>2
<1>11. CASE ServerDies
  <2>1. UNCHANGED <<turn, exchange, pcap, tally, row>> /\ turn \in Transfers
    BY <1>11 DEF ServerDies
  <2>2. handler'[turn] \in {"none", "ended"}
    BY <1>11, <2>1 DEF ServerDies
  <2> QED BY <1>6, <2>1, <2>2
<1>12. CASE UNCHANGED vars
  BY <1>6, <1>12 DEF vars
<1> QED BY <1>2, <1>3, <1>4, <1>5, <1>7, <1>8, <1>9, <1>10, <1>11, <1>12, HttpSteps

\* Every step of CoAP keeps that a complete capture has the bytes of the blocks that
\* were put together, and of the whole file once render_put has begun.
LEMMA CoapBytesNext ==
    ASSUME Base, Bytes, protocol = "coap", [Next]_vars
    PROVE  Bytes'
<1> SUFFICES ASSUME (tally.dropped = 0 /\ turn \in Transfers)' PROVE CoapBytes'
  BY OneProtocol DEF Bytes
<1>0. /\ TypeOK /\ Progress /\ protocol' = protocol
      /\ \A t \in Transfers : t \in Nat
      /\ \A m \in DOMAIN up : m.block \in Nat
  BY OneProtocol DEF Base, DataOK, Transfers
<1> USE WireFacts
<1>1. ASSUME tally.dropped = 0, turn \in Transfers PROVE CoapBytes
  BY <1>1 DEF Bytes
\* nothing is put together or begun
<1>2. ASSUME UNCHANGED <<turn, assembled>>, tally'.dropped = tally.dropped,
             HasBegun(turn)' => HasBegun(turn),
             TotalWireBytes(pcap') >= TotalWireBytes(pcap), TotalWireBytes(pcap') \in Int
      PROVE  CoapBytes'
  <2>1. CoapBytes /\ Last' = Last /\ FileSize' = FileSize
    BY <1>1, <1>2 DEF Last, FileSize
  <2>2. FileSize \in Nat /\ assembled * BlockLen \in Nat
    BY <1>2, OneMoreTimes
  <2> QED BY <1>2, <2>1, <2>2 DEF CoapBytes
<1>3. ASSUME UNCHANGED <<turn, assembled, pcap, handler, row, history>>,
             tally'.dropped = tally.dropped
      PROVE  CoapBytes'
  BY <1>2, <1>3 DEF HasBegun
<1>4. ASSUME NEW k \in Nat, Request(k) PROVE tally'.dropped = tally.dropped
  BY <1>0, <1>4, NotDropped, TallyNames DEF Request
<1>5. CASE Probe
  BY <1>3, <1>4, <1>5, 0 \in Nat DEF Probe
<1>6. CASE Resend
  BY <1>0, <1>3, <1>6, NotDropped, TallyNames DEF Resend
<1>7. CASE RequestFails
  BY <1>3, <1>4, <1>7, 1 \in Nat DEF RequestFails
<1>8. CASE ServerDies
  <2>1. UNCHANGED <<turn, pcap, row, tally>> /\ assembled' = 0 /\ history' = {}
    BY <1>8 DEF ServerDies
  <2>2. handler'[turn] \in {"none", "ended"}
    BY <1>8, <2>1 DEF ServerDies
  <2>3. HasBegun(turn)' => HasBegun(turn)
    BY <2>1, <2>2 DEF HasBegun
  <2>4. CoapBytes
    BY <1>1, <2>1
  <2>5. TotalWireBytes(pcap) >= assembled * BlockLen /\ assembled * BlockLen \in Nat
    BY <2>4, OneMoreTimes DEF CoapBytes
  <2>6. TotalWireBytes(pcap') >= assembled' * BlockLen
    BY <2>1, <2>5
  <2> QED BY <2>1, <2>3, <2>4, <2>6 DEF CoapBytes, FileSize, Last
<1>9. CASE EndTransfer
  <2>1. /\ turn' = turn + 1 /\ pcap' = EmptyBag /\ assembled' = 0 /\ history' = {}
        /\ UNCHANGED <<row, handler>>
    BY <1>9 DEF EndTransfer
  <2>2. turn' > turn /\ turn' \in Transfers
    BY <2>1, Begun
  <2>3. handler'[turn'] = "none" /\ row'[turn'] = "none"
    BY <1>0, <2>1, <2>2, Begun DEF Progress, TypeOK
  <2>4. TotalWireBytes(pcap') >= assembled' * BlockLen
    BY <2>1, TotalNone
  <2> QED BY <2>1, <2>3, <2>4 DEF CoapBytes, HasBegun
<1>10. CASE UNCHANGED vars
  BY <1>3, <1>10 DEF vars
<1>11. ASSUME NEW t \in Transfers, FinishPut(t) PROVE CoapBytes'
  <2>1. /\ UNCHANGED <<turn, pcap, assembled, row, tally>> /\ turn \in Transfers
        /\ handler[t] = "open" /\ (t # turn => history' = history)
    BY <1>11 DEF FinishPut
  <2>2. handler'[t] = "none" /\ \A s \in Transfers : s # t => handler'[s] = handler[s]
    BY <1>0, <1>11, HandleFacts DEF FinishPut
  <2>3. HasBegun(turn)' => HasBegun(turn)
    BY <2>1, <2>2 DEF HasBegun
  <2> QED BY <1>2, <2>1, <2>3
<1>12. ASSUME NEW m \in DOMAIN up, Receive(m) PROVE CoapBytes'
  <2> DEFINE payload == IF m.block = 0 THEN 0 ELSE BlockLen
  <2>1. pcap' = BagAdd(pcap, Frame("client", "con", m.id, payload, FALSE)) /\ UNCHANGED tally
    BY <1>0, <1>12, DroppedOnce DEF Receive, Capture
  <2>2. TotalWireBytes(pcap') >= TotalWireBytes(pcap) + payload /\ TotalWireBytes(pcap') \in Int
    <3>1. payload \in Nat
      OBVIOUS
    <3> HIDE DEF payload
    <3> QED BY <2>1, <3>1, WireGrows
  <2>3. UNCHANGED <<turn, row>> /\ turn \in Transfers
    BY <1>12 DEF Receive
  <2>4. CoapBytes
    BY <1>1, <2>1, <2>3
  <2>5. TotalWireBytes(pcap) >= assembled * BlockLen /\ assembled * BlockLen \in Nat
    BY <2>4, OneMoreTimes DEF CoapBytes
  <2>6. m.block > 0 /\ Continues(m) => TotalWireBytes(pcap') >= m.block * BlockLen
    <3> SUFFICES ASSUME m.block > 0, Continues(m)
                 PROVE  TotalWireBytes(pcap') >= m.block * BlockLen
      OBVIOUS
    <3> DEFINE k == m.block - 1
    <3>1. k \in Nat /\ m.block = k + 1
      BY <1>0
    <3>2. TotalWireBytes(pcap) >= k * BlockLen
      BY <1>0, <2>5, <3>1 DEF Continues
    <3>3. TotalWireBytes(pcap') >= TotalWireBytes(pcap) + BlockLen
      BY <1>0, <2>2
    <3> HIDE DEF k
    <3>4. TotalWireBytes(pcap') >= (k + 1) * BlockLen
      BY <2>2, <3>1, <3>2, <3>3, BlockMore
    <3> QED BY <3>1, <3>4
  <2>7. TotalWireBytes(pcap') >= TotalWireBytes(pcap)
    BY <2>2
  <2>8. Last' = Last /\ FileSize' = FileSize /\ FileSize \in Nat
    BY <2>3, OneMoreTimes DEF Last, FileSize
  <2>9. CASE Absorb(m)
    <3>1. assembled' = assembled \/ (assembled' = m.block /\ m.block > 0 /\ Continues(m))
      BY <2>9 DEF Absorb
    <3>2. TotalWireBytes(pcap') >= assembled' * BlockLen
      BY <2>2, <2>5, <2>6, <2>7, <3>1
    <3>3. PICK answer : /\ history' = history \cup {answer}
                        /\ answer \in Known(m) \/ answer.code # "changed"
      BY <2>9, Absorbed
    <3>4. HasBegun(turn)' => HasBegun(turn)
      BY <2>3, <2>9, <3>3 DEF HasBegun, Absorb, Known
    <3>5. HasBegun(turn)' => TotalWireBytes(pcap') >= FileSize'
      BY <2>2, <2>4, <2>7, <2>8, <3>4 DEF CoapBytes
    <3> QED BY <3>2, <3>5 DEF CoapBytes
  <2>10. CASE RenderPut(m)
    <3>1. m.block = Last /\ Continues(m) /\ assembled' = 0
      BY <2>10 DEF RenderPut
    <3>2. TotalWireBytes(pcap') >= FileSize
      BY <2>3, <2>6, <3>1
    <3>3. TotalWireBytes(pcap') >= assembled' * BlockLen
      BY <2>2, <2>8, <3>1, <3>2
    <3> QED BY <2>8, <3>2, <3>3 DEF CoapBytes
  <2> QED BY <1>12, <2>9, <2>10 DEF Receive
<1>13. ASSUME NEW m \in DOMAIN up, Lose(m) PROVE CoapBytes'
  BY <1>0, <1>3, <1>13, NotDropped, TallyNames DEF Lose
<1>14. ASSUME NEW m \in DOMAIN up, Duplicate(m) PROVE CoapBytes'
  BY <1>0, <1>3, <1>14, NotDropped, TallyNames DEF Duplicate
<1>15. ASSUME NEW a \in DOMAIN down, AnswerArrives(a) PROVE CoapBytes'
  <2>1. /\ UNCHANGED <<turn, assembled, handler, history>>
        /\ pcap' = BagAdd(pcap, Frame("server", "ack", a.id, 0, FALSE))
    BY <1>15 DEF AnswerArrives
  <2>2. TotalWireBytes(pcap') >= TotalWireBytes(pcap) /\ TotalWireBytes(pcap') \in Int
    <3>1. /\ TotalWireBytes(pcap') >= TotalWireBytes(pcap) + 0
          /\ TotalWireBytes(pcap') \in Int
      BY <2>1, 0 \in Nat, WireGrows
    <3> QED BY <3>1
  <2>3. tally'.dropped = tally.dropped
    BY <1>4, <1>15 DEF AnswerArrives
  <2>4. HasBegun(turn)' => HasBegun(turn)
    <3>1. a \in history
      BY DEF Base, DataOK
    <3>2. row'[turn] = "ok" => row[turn] = "ok" \/ a.code = "changed"
      BY <1>0, <1>15, <2>1 DEF AnswerArrives, TypeOK
    <3> QED BY <2>1, <3>1, <3>2 DEF HasBegun
  <2> QED BY <1>2, <2>1, <2>2, <2>3, <2>4
<1>16. ASSUME NEW a \in DOMAIN down, LoseAnswer(a) PROVE CoapBytes'
  BY <1>3, <1>16 DEF LoseAnswer
<1> QED BY <1>5, <1>6, <1>7, <1>8, <1>9, <1>10, <1>11, <1>12, <1>13, <1>14, <1>15, <1>16,
           CoapSteps

\* WarningMeansMissing: the WARNING of an incomplete capture is never printed of a
\* transfer that succeeded and of which no frame was dropped (pcap_analyzer.py:361).
THEOREM WarningIsOfMissingFrames == Spec => []WarningMeansMissing
<1>1. Init => Bytes
  <2> SUFFICES ASSUME Init, turn \in Transfers PROVE HttpBytes /\ CoapBytes
    BY DEF Bytes
  <2>1. TotalWireBytes(pcap) = 0 /\ 0 * BlockLen = 0
    BY TotalNone, UploadPlan DEF Init
  <2> QED BY <2>1 DEF Init, HttpBytes, CoapBytes, HasBegun
<1>2. Base /\ Bytes /\ [Next]_vars => Bytes'
  BY HttpBytesNext, CoapBytesNext, OneProtocol
<1>3. Base /\ Bytes => WarningMeansMissing
  <2> SUFFICES ASSUME Base, Bytes, pc = "returned", row[turn] = "ok", tally.dropped = 0
               PROVE  ~Logged.warned /\ Logged.overhead >= 0
    BY DEF WarningMeansMissing
  <2>1. turn \in Transfers /\ protocol \in {"http", "coap"}
    BY DEF Base, TypeOK, DataOK
  <2>2. TotalWireBytes(pcap) >= FileSize
    BY <2>1, WireFacts DEF Bytes, HttpBytes, CoapBytes, HasBegun
  <2>3. TotalWireBytes(pcap) \in Int /\ FileSize \in Int
    BY <2>1, WireFacts, OneMoreTimes
  <2>4. ~LooksIncomplete(pcap, FileSize)
    BY <2>2, <2>3 DEF LooksIncomplete
  <2>5. /\ Logged.overhead = TotalWireBytes(pcap) - FileSize
        /\ Logged.warned = LooksIncomplete(pcap, FileSize)
    BY DEF Logged, Analysis
  <2>6. Logged.overhead >= 0
    BY <2>2, <2>3, <2>5
  <2> QED BY <2>4, <2>5, <2>6, Zenon
<1> QED BY BaseInvariant, <1>1, <1>2, <1>3, PTL DEF Spec
=============================================================================
