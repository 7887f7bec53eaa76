---------------------------- MODULE DirectUpload ----------------------------
(***************************************************************************)
(* The HTTP and the CoAP transfer: one request carries the whole file, the  *)
(* server verifies its checksum and saves it in place (save_file), and the  *)
(* answer is the client's verdict.  The harness makes one transfer after    *)
(* another and analyses the capture of each whose client process exits      *)
(* with 0.                                                                  *)
(*                                                                         *)
(* HTTP: flask_server.py has a thread per request, http_client.py neither   *)
(* a timeout nor a retry.  CoAP: the file goes in blocks, each a            *)
(* confirmable message that aiocoap sends again until it is answered and    *)
(* whose repeats the server answers from its history; coap_client.py makes  *)
(* up to MAX_RETRIES attempts.  aiocoap, the network and tcpdump are        *)
(* external: messages are lost or duplicated before the capture sees them,  *)
(* as netem does it, and the capture may drop a frame.  The server is not   *)
(* started again when it dies, and the capture ends with its network.       *)
(***************************************************************************)
EXTENDS PcapAnalyzer

INSTANCE BagsExt

CONSTANTS
    NumTransfers,   \* transfers of the sweep, in order
    Files,          \* file names
    FileOf,         \* the file of each transfer
    Blocks,         \* blocks (CoAP) or segments (HTTP) of each file
    MaxAttempts,    \* MAX_RETRIES of coap_client.py
    MaxRetransmit,  \* times aiocoap sends a message again
    MidSpace,       \* number of message IDs
    BlockLen,       \* bytes of a block
    HeaderLen,      \* bytes a frame has beside
    MaxFaults,      \* bound on the faults
    None

Transfers == 1 .. NumTransfers

ASSUME UploadPlan ==
    /\ NumTransfers \in Nat
    /\ FileOf \in [Transfers -> Files]
    /\ Blocks \in [Files -> Nat \ {0}]
    /\ MaxAttempts \in Nat \ {0} /\ MidSpace \in Nat \ {0}
    /\ {MaxRetransmit, BlockLen, HeaderLen, MaxFaults} \subseteq Nat
    /\ None \notin Transfers

VARIABLES
    protocol,   \* the protocol of the sweep
    altered,    \* HTTP transfers whose file changes after it was hashed
    turn,       \* the transfer in progress, or the next one
    pc,         \* where its client is
    attempt,    \* attempts begun
    exchange,   \* the block asked about (CoAP, 0: the latency probe), or the
                \* segments that have arrived (HTTP)
    sent,       \* messages the client has sent, not counting repeats
    resends,    \* repeats of the last one
    up, down,   \* bags of messages under way to the server and to the client
    alive,      \* is the server alive
    handler,    \* the request handler of each transfer
    assembled,  \* blocks the server has put together
    history,    \* the server's answers so far, for repeated messages
    serving,    \* the message whose render_put is writing
    file,       \* what each name shows
    opener,     \* the transfer whose handler opened each file last
    row,        \* the client's row for each transfer
    measured,   \* transfers with a pcap row
    pcap,       \* the capture of the current transfer: a bag of frames
    tally,      \* what happened to the messages of the current transfer
    faults      \* faults so far

setting == <<protocol, altered>>
clientVars == <<attempt, exchange, sent, resends>>
coapVars == <<assembled, history, serving>>
fileVars == <<file, opener>>
serverVars == <<handler, coapVars, fileVars>>
resultVars == <<row, measured>>
vars == <<setting, turn, pc, clientVars, up, down, alive, serverVars, resultVars,
          pcap, tally, faults>>

NoTally == [resent |-> 0, reused |-> 0, lost |-> 0, duplicated |-> 0, dropped |-> 0]

TypeOK ==
    /\ turn \in 1 .. NumTransfers + 1
    /\ pc \in {"idle", "probe", "put", "returned", "raised"}
    /\ attempt \in 0 .. MaxAttempts /\ resends \in 0 .. MaxRetransmit
    /\ IsABag(up) /\ IsABag(down) /\ IsABag(pcap)
    /\ handler \in [Transfers -> {"none", "reading", "body", "open", "written",
                                  "refused", "ended"}]
    /\ file \in [Files -> {"none", "cut", "whole", "failed"}]
    /\ opener \in [Files -> Transfers \cup {None}]
    /\ row \in [Transfers -> {"none", "ok", "corrupt"}]
    /\ measured \subseteq Transfers
    /\ tally \in [DOMAIN NoTally -> Nat]
    /\ faults \in 0 .. MaxFaults
    /\ (pc # "idle" => turn \in Transfers)

Init ==
    /\ protocol \in {"http", "coap"}
    /\ altered \in IF protocol = "http" THEN SUBSET Transfers ELSE {{}}
    /\ turn = 1 /\ pc = "idle"
    /\ attempt = 0 /\ exchange = 0 /\ sent = 0 /\ resends = 0
    /\ up = EmptyBag /\ down = EmptyBag
    /\ alive = TRUE
    /\ handler = [t \in Transfers |-> "none"]
    /\ assembled = 0 /\ history = {} /\ serving = None
    /\ file = [f \in Files |-> "none"]
    /\ opener = [f \in Files |-> None]
    /\ row = [t \in Transfers |-> "none"]
    /\ measured = {} /\ pcap = EmptyBag /\ tally = NoTally /\ faults = 0

Fault == faults < MaxFaults /\ faults' = faults + 1
Last == Blocks[FileOf[turn]]
FileSize == Last * BlockLen
Count(what) == tally' = [tally EXCEPT ![what] = @ + 1]
Handle(t, state) == handler' = [handler EXCEPT ![t] = state]

\* frames: a CoAP message or answer, a TCP segment
Frame(src, type, id, payload, flagged) ==
    [src |-> src, type |-> type, mid |-> id % MidSpace,
     len |-> HeaderLen + payload, flagged |-> flagged]

\* tcpdump sees a frame of the client, or drops it
Capture(frame) ==
    \/ pcap' = BagAdd(pcap, frame) /\ UNCHANGED <<tally, faults>>
    \/ Fault /\ Count("dropped") /\ UNCHANGED pcap

----------------------------------------------------------------------------
(* The files *)

\* open(filepath, "wb"), at the head of save_file
OpenFile(t) ==
    /\ file' = [file EXCEPT ![FileOf[t]] = "cut"]
    /\ opener' = [opener EXCEPT ![FileOf[t]] = t]

\* f.write and close; the handle is at the start of the file
WriteFile(t) == file' = [file EXCEPT ![FileOf[t]] = "whole"] /\ UNCHANGED opener

\* f.write raises: what is there stays
WriteFails(t) ==
    /\ Fault
    /\ file' = [file EXCEPT ![FileOf[t]] = IF @ = "cut" THEN "failed" ELSE @]
    /\ UNCHANGED opener

----------------------------------------------------------------------------
(* The CoAP client *)

\* a new message about block k: the next message ID
Request(k) ==
    /\ exchange' = k /\ sent' = sent + 1 /\ resends' = 0
    /\ up' = BagAdd(up, [id |-> sent + 1, block |-> k])
    /\ IF sent >= MidSpace THEN Count("reused") ELSE UNCHANGED tally

\* get_latency, the first request of the process
Probe ==
    /\ protocol = "coap" /\ pc = "idle" /\ turn \in Transfers /\ alive
    /\ pc' = "probe"
    /\ Request(0)
    /\ UNCHANGED <<setting, turn, attempt, down, alive, serverVars, resultVars,
                   pcap, faults>>

\* the last message or its answer is under way
UnderWay ==
    \/ \E m \in DOMAIN up : m.id = sent
    \/ \E a \in DOMAIN down : a.id = sent
    \/ serving = sent

Waiting == protocol = "coap" /\ pc \in {"probe", "put"}

\* aiocoap's timer: early only if the answer is late
Resend ==
    /\ Waiting /\ resends < MaxRetransmit
    /\ IF UnderWay THEN Fault ELSE UNCHANGED faults
    /\ resends' = resends + 1
    /\ up' = IF alive THEN BagAdd(up, [id |-> sent, block |-> exchange]) ELSE up
    /\ Count("resent")
    /\ UNCHANGED <<setting, turn, pc, attempt, exchange, sent, down, alive,
                   serverVars, resultVars, pcap>>

\* Mutant of MayRetry: one attempt too many.
MayRetryOnceMore == attempt < MaxAttempts + 1

MayRetry == attempt < MaxAttempts

\* Mutant of TimedOut: aiocoap sends for ever, and waits after the last repeat.
NeverTimesOut == FALSE

\* aiocoap gives up on the last message
TimedOut == resends = MaxRetransmit /\ ~UnderWay

\* context.request raises: the probe is left out, an attempt is made again, and
\* after the last one there is no row and the process exits with 0
RequestFails ==
    /\ Waiting
    /\ IF TimedOut \/ ~alive THEN UNCHANGED faults ELSE Fault
    /\ \/ /\ pc = "probe" /\ pc' = "put"
          /\ attempt' = 1
          /\ Request(1)
       \/ /\ pc = "put" /\ MayRetry
          /\ attempt' = attempt + 1
          /\ Request(1)
          /\ UNCHANGED pc
       \/ /\ pc = "put" /\ ~MayRetry
          /\ pc' = "returned"
          /\ UNCHANGED <<clientVars, up, tally>>
    /\ UNCHANGED <<setting, turn, down, alive, serverVars, resultVars, pcap>>

\* an answer, captured when it leaves the server; one to an earlier message is
\* ignored
AnswerArrives(a) ==
    /\ down' = BagRemove(down, a)
    /\ pcap' = BagAdd(pcap, Frame("server", "ack", a.id, 0, FALSE))
    /\ \/ /\ ~Waiting \/ a.id # sent
          /\ UNCHANGED <<pc, clientVars, up, row, tally>>
       \/ /\ Waiting /\ a.id = sent
          /\ \/ /\ a.code \in {"content", "continue"}
                /\ pc' = "put"
                /\ attempt' = IF a.code = "content" THEN 1 ELSE attempt
                /\ Request(exchange + 1)
                /\ UNCHANGED row
             \/ /\ a.code \in {"changed", "error", "incomplete"}
                /\ row' = [row EXCEPT ![turn] = IF a.code = "changed" THEN "ok" ELSE "corrupt"]
                /\ pc' = "returned"
                /\ UNCHANGED <<clientVars, up, tally>>
    /\ UNCHANGED <<setting, turn, alive, serverVars, measured, faults>>

----------------------------------------------------------------------------
(* The CoAP server: one event loop, which render_put keeps busy *)

Answer(m, code) == [id |-> m.id, code |-> code]
Idle == \A t \in Transfers : handler[t] # "open"

\* The first block begins an assembly, another one must continue it: the blocks
\* are told apart by client and file, not by attempt.
Continues(m) == m.block = 1 \/ assembled = m.block - 1

\* A repeated message is answered from the history.  (When a message ID comes
\* round again, the history of its earlier use has expired.)
Known(m) == {a \in history : a.id = m.id}

\* what aiocoap answers itself: the probe, a repeated message, a block that is
\* not the last, and one that does not continue the assembly (4.08)
Absorb(m) ==
    /\ Known(m) # {} \/ m.block < Last \/ ~Continues(m)
    /\ LET answer == IF Known(m) # {} THEN CHOOSE a \in Known(m) : TRUE
                     ELSE Answer(m, CASE m.block = 0 -> "content"
                                      [] m.block > 0 /\ Continues(m) -> "continue"
                                      [] OTHER -> "incomplete")
       IN  /\ history' = history \cup {answer}
           /\ down' = BagAdd(down, answer)
    /\ assembled' = IF Known(m) = {} /\ m.block > 0 /\ Continues(m)
                    THEN m.block ELSE assembled
    /\ UNCHANGED <<handler, serving, fileVars>>

\* The last block: render_put, whose checksum is that of the payload in memory
RenderPut(m) ==
    /\ Known(m) = {} /\ m.block = Last /\ Continues(m)
    /\ assembled' = 0
    /\ Handle(turn, "open") /\ serving' = m.id
    /\ OpenFile(turn)
    /\ UNCHANGED <<down, history>>

Receive(m) ==
    /\ Idle /\ alive
    /\ up' = BagRemove(up, m)
    /\ Capture(Frame("client", "con", m.id, IF m.block = 0 THEN 0 ELSE BlockLen, FALSE))
    /\ Absorb(m) \/ RenderPut(m)
    /\ UNCHANGED <<setting, turn, pc, clientVars, alive, resultVars>>

\* save_file returns, or raises (5.00); the client may be gone by then
FinishPut(t) ==
    /\ protocol = "coap" /\ handler[t] = "open"
    /\ Handle(t, "none") /\ serving' = None
    /\ \E code \in {"changed", "error"} :
          LET answer == [id |-> serving, code |-> code]
          IN  /\ IF code = "changed" THEN WriteFile(t) /\ UNCHANGED faults
                 ELSE WriteFails(t)
              /\ IF t = turn
                 THEN /\ history' = history \cup {answer}
                      /\ down' = BagAdd(down, answer)
                 ELSE UNCHANGED <<history, down>>
    /\ UNCHANGED <<setting, turn, pc, clientVars, up, alive, assembled,
                   resultVars, pcap, tally>>

----------------------------------------------------------------------------
(* HTTP *)

\* measure_network_latency and the connection of the PUT; without a server it
\* raises, and so does the process: it exits with 1
Connect ==
    /\ protocol = "http" /\ pc = "idle" /\ turn \in Transfers /\ alive
    /\ \/ /\ pc' = "put" /\ Handle(turn, "reading")
          /\ pcap' = BagAdd(pcap, Frame("client", "tcp", 0, 0, FALSE))
          /\ UNCHANGED faults
       \/ Fault /\ pc' = "raised" /\ UNCHANGED <<handler, pcap>>
    /\ UNCHANGED <<setting, turn, clientVars, up, down, alive, coapVars, fileVars,
                   resultVars, tally>>

Uploading == protocol = "http" /\ pc = "put"

\* a segment of the body; with the last one the handler has request.data
Segment ==
    /\ Uploading /\ handler[turn] = "reading"
    /\ exchange' = exchange + 1
    /\ IF exchange' = Last THEN Handle(turn, "body") ELSE UNCHANGED handler
    /\ Capture(Frame("client", "tcp", 0, BlockLen, FALSE))
    /\ UNCHANGED <<setting, turn, pc, attempt, sent, resends, up, down, alive,
                   coapVars, fileVars, resultVars>>

\* a segment that TCP sends again although it has arrived
SegmentAgain ==
    /\ Uploading /\ exchange > 0 /\ alive
    /\ Fault /\ Count("resent")
    /\ pcap' = BagAdd(pcap, Frame("client", "tcp", 0, BlockLen, TRUE))
    /\ UNCHANGED <<setting, turn, pc, clientVars, up, down, alive, serverVars,
                   resultVars>>

\* the checksum of request.data, then save_file
Verify(t) ==
    /\ handler[t] = "body"
    /\ IF t \in altered THEN Handle(t, "refused") /\ UNCHANGED fileVars
       ELSE Handle(t, "open") /\ OpenFile(t)
    /\ UNCHANGED <<setting, turn, pc, clientVars, up, down, alive, coapVars,
                   resultVars, pcap, tally, faults>>

\* Mutant of Save: the thread of a client that has gone is stopped.
SaveForClient(t) ==
    /\ protocol = "http" /\ handler[t] = "open"
    /\ IF turn = t /\ pc = "put" THEN Handle(t, "written") /\ WriteFile(t)
       ELSE Handle(t, "ended") /\ UNCHANGED fileVars
    /\ UNCHANGED <<setting, turn, pc, clientVars, up, down, alive, coapVars,
                   resultVars, pcap, tally, faults>>

\* save_file returns, or raises (500)
Save(t) ==
    /\ protocol = "http" /\ handler[t] = "open"
    /\ \/ Handle(t, "written") /\ WriteFile(t) /\ UNCHANGED faults
       \/ Handle(t, "refused") /\ WriteFails(t)
    /\ UNCHANGED <<setting, turn, pc, clientVars, up, down, alive, coapVars,
                   resultVars, pcap, tally>>

\* Mutant of Answered: the answer does not wait for the file.
AnsweredEarly == {"written", "refused", "open"}

Answered == {"written", "refused"}

\* the answer, and the row of the client that waits for it
Respond(t) ==
    /\ protocol = "http" /\ handler[t] \in Answered
    /\ Handle(t, "ended")
    /\ IF turn = t /\ Uploading
       THEN /\ row' = [row EXCEPT ![t] = IF handler[t] = "refused" THEN "corrupt" ELSE "ok"]
            /\ pc' = "returned"
       ELSE UNCHANGED <<row, pc>>
    /\ UNCHANGED <<setting, turn, clientVars, up, down, alive, coapVars, fileVars,
                   measured, pcap, tally, faults>>

\* the connection breaks: requests.put raises, which is caught: no row, exit 0;
\* a handler without the whole body ends, one with it goes on
ConnectionLost ==
    /\ Uploading
    /\ IF alive THEN Fault ELSE UNCHANGED faults
    /\ pc' = "returned"
    /\ IF handler[turn] = "reading" THEN Handle(turn, "ended") ELSE UNCHANGED handler
    /\ UNCHANGED <<setting, turn, clientVars, up, down, alive, coapVars, fileVars,
                   resultVars, pcap, tally>>

----------------------------------------------------------------------------
(* The network, and the end of the server *)

Lose(m) ==
    /\ Fault /\ Count("lost")
    /\ up' = BagRemove(up, m)
    /\ UNCHANGED <<setting, turn, pc, clientVars, down, alive, serverVars,
                   resultVars, pcap>>

\* "duplicate" of netem
Duplicate(m) ==
    /\ Fault /\ Count("duplicated")
    /\ up' = BagAdd(up, m)
    /\ UNCHANGED <<setting, turn, pc, clientVars, down, alive, serverVars,
                   resultVars, pcap>>

LoseAnswer(a) ==
    /\ Fault
    /\ down' = BagRemove(down, a)
    /\ UNCHANGED <<setting, turn, pc, clientVars, up, alive, serverVars,
                   resultVars, pcap, tally>>

\* its handlers, its history and what it has not written go with it
ServerDies ==
    /\ alive /\ Fault /\ alive' = FALSE
    /\ up' = EmptyBag /\ down' = EmptyBag
    /\ handler' = [t \in Transfers |-> IF handler[t] = "none" THEN "none" ELSE "ended"]
    /\ assembled' = 0 /\ history' = {} /\ serving' = None
    /\ UNCHANGED <<setting, turn, pc, clientVars, fileVars, resultVars, pcap,
                   tally>>

----------------------------------------------------------------------------
(* The harness *)

\* the client process has ended; only after an exit with 0 the capture is
\* analysed; the next client has an address and a capture of its own
EndTransfer ==
    /\ pc \in {"returned", "raised"}
    /\ measured' = IF pc = "returned" /\ ~NothingCaptured(pcap)
                   THEN measured \cup {turn} ELSE measured
    /\ turn' = turn + 1 /\ pc' = "idle"
    /\ attempt' = 0 /\ exchange' = 0 /\ sent' = 0 /\ resends' = 0
    /\ up' = EmptyBag /\ down' = EmptyBag
    /\ assembled' = 0 /\ history' = {} /\ serving' = None
    /\ pcap' = EmptyBag /\ tally' = NoTally
    /\ UNCHANGED <<setting, alive, handler, fileVars, row, faults>>

\* without the server's network no capture starts, and the sweep is over
Over == pc = "idle" /\ (turn > NumTransfers \/ ~alive)

Client == Probe \/ Resend \/ RequestFails \/ Connect \/ Segment \/ ConnectionLost
Server == \E t \in Transfers : FinishPut(t) \/ Verify(t) \/ Save(t) \/ Respond(t)
Network ==
    \/ \E m \in DOMAIN up : Receive(m)
    \/ \E a \in DOMAIN down : AnswerArrives(a)
Faulty ==
    \/ \E m \in DOMAIN up : Lose(m) \/ Duplicate(m)
    \/ \E a \in DOMAIN down : LoseAnswer(a)
    \/ SegmentAgain \/ ServerDies

Next ==
    \/ Client \/ Server \/ Network \/ EndTransfer \/ Faulty
    \/ Over /\ UNCHANGED vars

Spec == Init /\ [][Next]_vars
\* timers fire, handlers go on, messages that are not lost arrive; a step that
\* would be a fault is never owed
FairSpec ==
    /\ Spec
    /\ WF_vars(UNCHANGED faults /\ Client) /\ WF_vars(UNCHANGED faults /\ Server)
    /\ WF_vars(UNCHANGED faults /\ Network) /\ WF_vars(EndTransfer)

----------------------------------------------------------------------------
\* What the service promises: the names that show a whole file, and what the
\* clients conclude (the end of a transfer without a row that says ok is a
\* failure).
Upload == INSTANCE UploadService WITH
    Uploads <- Transfers, Names <- Files, NameOf <- FileOf, InPlace <- TRUE,
    shown <- {f \in Files : file[f] = "whole"},
    saving <- {t \in Transfers : handler[t] = "open"},
    latest <- opener,
    told <- [t \in Transfers |->
                IF row[t] = "ok" THEN "ok"
                ELSE IF t < turn \/ (t = turn /\ pc \in {"returned", "raised"})
                     THEN "failed" ELSE "nothing"]

\* HTTP and CoAP, with retries, repeated messages, lost connections and a server
\* that dies, are an upload service that writes in place: a client is told ok
\* only if its file is shown whole or another transfer has begun to replace it.
ImplementsUpload == Upload!Spec

\* The file of a transfer whose row says ok is whole whenever nothing writes it,
\* also when handlers of its name overlapped or a retry saved it again; only a
\* write that raised and a dead server leave another one.
OkFileWholeAtRest ==
    \A t \in Transfers :
        /\ row[t] = "ok" /\ alive
        /\ \A s \in Transfers : FileOf[s] = FileOf[t] => handler[s] # "open"
        => file[FileOf[t]] \in {"whole", "failed"}

Logged == Analysis(pcap, FileSize, protocol)

\* The logged retransmissions (pcap_analyzer.py:328 "detect retransmissions as
\* repeated Message IDs") are at most the repeats the client sent, the duplicates
\* of the network and the message IDs used again; and they are all of these but
\* the ones lost before the capture, dropped by it or still under way.
RepeatsExplained ==
    pc = "returned" =>
        LET explained == tally.resent + tally.duplicated + tally.reused
            unseen == tally.lost + tally.dropped + CountOf(up, DOMAIN up)
        IN  /\ Logged.retransmissions <= explained
            /\ protocol = "coap" /\ alive => Logged.retransmissions >= explained - unseen

\* The WARNING of an incomplete capture (pcap_analyzer.py:361) is never printed of
\* a transfer that succeeded under a complete capture, whatever was sent again.
WarningMeansMissing ==
    pc = "returned" /\ row[turn] = "ok" /\ tally.dropped = 0 =>
        ~Logged.warned /\ Logged.overhead >= 0

\* The sweep comes to its end: no client waits for ever for an answer that was
\* lost, from a server that is busy, or from one that is gone.
SweepEnds == <>[]Over
=============================================================================
