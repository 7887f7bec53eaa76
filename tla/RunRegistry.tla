----------------------------- MODULE RunRegistry -----------------------------
(***************************************************************************)
(* Where measurement rows go.  A session is one experiment of runner.py     *)
(* ("auto") or one invocation of benchmark_manager.py ("manual"); sessions  *)
(* follow each other.  A session creates a run directory and publishes it   *)
(* to the containers through the .active_run marker; the client of each     *)
(* transfer and, for some protocols, a receiver in another container append *)
(* their rows to <protocol>_measurements.csv of whatever run they read from *)
(* the marker, and the harness appends the pcap row.                        *)
(*                                                                         *)
(* A writer reads the marker for the directory, then the file's header,     *)
(* then the marker again for the run_id column, and then appends: four      *)
(* steps between which the harness and the other writers take theirs.       *)
(* Docker is external: "up" and "down -v" stop what runs of a protocol.     *)
(***************************************************************************)
EXTENDS Naturals, Sequences, Functions

CONSTANTS
    NumSessions,    \* sessions, one after another
    KindOf,         \* "auto" or "manual"
    RunIdOf,        \* the id each session's run gets, by time or by --run-id
    ProtocolOf,     \* the protocol each session drives
    NumTransfers,   \* transfers of each session, one after another
    Late,           \* protocols whose receiver row is written by a message
                    \* consumer (MQTT, AMQP), whenever it comes to it
    Answering,      \* protocols whose receiver row precedes the answer to the
                    \* client (gRPC), unless the call failed by then; the
                    \* others have a client row only
    MaxFaults,      \* bound on the faults of a behaviour
    NoRun           \* no run is active; as a directory, the flat output

Sessions == 1 .. NumSessions
RunIds == {RunIdOf[s] : s \in Sessions}
Protocols == {ProtocolOf[s] : s \in Sessions}
Transfers(s) == 1 .. NumTransfers[s]
Writers == UNION {{s} \X Transfers(s) \X {"client", "receiver"} : s \in Sessions}

ASSUME SessionPlan ==
    /\ NumSessions \in Nat /\ MaxFaults \in Nat
    /\ NumTransfers \in [Sessions -> Nat]
    /\ KindOf \in [Sessions -> {"auto", "manual"}]
    /\ NoRun \notin RunIds
    /\ Late \cap Answering = {}

VARIABLES
    session,    \* the session in progress, or the next one
    pc,         \* where its harness is
    turn,       \* the transfer in progress
    env,        \* RUN_ID in the environment of the harness
    marker,     \* what .active_run names
    created,    \* run directories with a manifest
    failed,     \* transfers whose client or whose call failed
    stage,      \* how far each writer of a row is
    target,     \* the directory it found
    bare,       \* it found no header there
    label,      \* the run_id it found
    csv,        \* the lines of each protocol's CSV in each directory
    pcapRows,   \* the pcap rows: session, directory and run_id
    outlived,   \* sessions over while a writer of theirs was still at work
    faults      \* faults so far

harnessVars == <<session, pc, turn, env, created, pcapRows, failed>>
writerVars == <<stage, target, bare, label>>
vars == <<harnessVars, writerVars, marker, csv, outlived, faults>>

Header == <<"header">>
Row(w) == <<w, label[w]>>
Dirs == RunIds \cup {NoRun}
AtWork == {"arrived", "answered", "header", "run_id", "append"}

TypeOK ==
    /\ session \in 1 .. NumSessions + 1
    /\ pc \in {"start", "truncate", "mark", "up", "transfer", "client", "pcap",
               "down", "clear"}
    /\ turn \in Nat /\ (session \in Sessions => turn <= NumTransfers[session] + 1)
    /\ env \in Dirs /\ marker \in Dirs /\ created \subseteq RunIds
    /\ failed \subseteq Sessions \X Nat
    /\ stage \in [Writers -> {"none", "done", "lost"} \cup AtWork]
    /\ target \in [Writers -> Dirs] /\ label \in [Writers -> Dirs]
    /\ bare \in [Writers -> BOOLEAN]
    /\ csv \in [Dirs \X Protocols -> Seq({Header} \cup (Writers \X Dirs))]
    /\ pcapRows \subseteq Sessions \X Nat \X Dirs
    /\ outlived \subseteq Sessions
    /\ faults \in 0 .. MaxFaults

Init ==
    /\ session = 1 /\ pc = "start" /\ turn = 1
    /\ env = NoRun /\ marker = NoRun /\ created = {}
    /\ stage = [w \in Writers |-> "none"]
    /\ target = [w \in Writers |-> NoRun]
    /\ label = [w \in Writers |-> NoRun]
    /\ bare = [w \in Writers |-> FALSE]
    /\ csv = [f \in Dirs \X Protocols |-> <<>>]
    /\ pcapRows = {} /\ failed = {} /\ outlived = {} /\ faults = 0

Fault == faults < MaxFaults /\ faults' = faults + 1
NoFault == UNCHANGED faults
Goto(p) == pc' = p

Kind == KindOf[session]
RunId == RunIdOf[session]
Protocol == ProtocolOf[session]

\* active_run_id in the harness: RUN_ID, else the marker
ActiveRunId == IF env # NoRun THEN env ELSE marker

\* writers that are at work, and the receivers among them that "up" and
\* "down -v" of the current protocol stop
Working == {w \in Writers : stage[w] \in AtWork}
Stack == {w \in Working : ProtocolOf[w[1]] = Protocol /\ w[3] = "receiver"}
Stop(ws) == stage' = [w \in Writers |-> IF w \in ws THEN "lost" ELSE stage[w]]

----------------------------------------------------------------------------
(* The harness *)

NextSession ==
    /\ session' = session + 1 /\ turn' = 1 /\ Goto("start")
    /\ outlived' = outlived \cup {w[1] : w \in Working}

\* new_run refuses a directory that exists; main goes on to the next experiment
NewRun ==
    IF RunId \in created
    THEN NextSession /\ UNCHANGED created
    ELSE /\ created' = created \cup {RunId}
         /\ Goto("truncate")
         /\ UNCHANGED <<session, turn, outlived>>

\* run_experiment up to the marker
StartExperiment ==
    /\ pc = "start" /\ session <= NumSessions /\ Kind = "auto"
    /\ env' = RunId
    /\ NewRun
    /\ UNCHANGED <<failed, writerVars, marker, csv, pcapRows, faults>>

\* main of benchmark_manager, a process of its own: _ensure_run takes an active
\* run for its own
EnsureRun ==
    /\ pc = "start" /\ session <= NumSessions /\ Kind = "manual"
    /\ IF marker # NoRun
       THEN /\ env' = NoRun
            /\ Goto("transfer")
            /\ UNCHANGED <<session, turn, created, outlived>>
       ELSE env' = RunId /\ NewRun
    /\ UNCHANGED <<failed, writerVars, marker, csv, pcapRows, faults>>

\* write_marker truncates the file and then writes it
TruncateMarker ==
    /\ pc = "truncate" /\ Goto("mark")
    /\ marker' = NoRun
    /\ UNCHANGED <<session, turn, env, created, pcapRows, failed, writerVars, csv,
                   outlived, faults>>

WriteMarker ==
    /\ pc = "mark" /\ Goto(IF Kind = "auto" THEN "up" ELSE "transfer")
    /\ marker' = RunId
    /\ UNCHANGED <<session, turn, env, created, pcapRows, failed, writerVars, csv,
                   outlived, faults>>

\* docker compose up -d, which replaces a container or leaves it running, and
\* wait_for_service
ComposeUp ==
    /\ pc = "up"
    /\ \/ Goto("transfer") /\ NoFault
       \/ Goto("down") /\ Fault
    /\ Stop(Stack) \/ UNCHANGED stage
    /\ UNCHANGED <<session, turn, env, created, pcapRows, failed, target, bare, label,
                   marker, csv, outlived>>

\* the files are all sent, or an exception of the capture ends run_protocol
EndProtocol ==
    /\ pc = "transfer"
    /\ \/ turn \notin Transfers(session) /\ NoFault
       \/ turn \in Transfers(session) /\ Fault
    /\ IF Kind = "auto"
       THEN Goto("down") /\ UNCHANGED <<session, turn, outlived>>
       ELSE NextSession
    /\ UNCHANGED <<env, created, pcapRows, failed, writerVars, marker, csv>>

\* the client's process: its transfer, then its row, also when its call failed.
\* What a failing client sent may have reached the receiver all the same.
Client(t) == <<session, t, "client">>
Receiver(t) == <<session, t, "receiver">>
Success == IF Protocol \in Answering THEN "answered" ELSE "arrived"
LogsReceiver == Protocol \in Late \cup Answering

RunClient ==
    /\ pc = "transfer" /\ turn \in Transfers(session)
    /\ Goto("client")
    /\ \E outcome \in {"arrived", "answered", "lost"}, row \in {"arrived", "none"} :
          /\ stage' = [stage EXCEPT ![Client(turn)] = outcome, ![Receiver(turn)] = row]
          /\ row = "arrived" => LogsReceiver
          /\ outcome = "answered" => Protocol \in Answering /\ row = "arrived"
          /\ failed' = IF outcome = Success THEN failed
                        ELSE failed \cup {<<session, turn>>}
          /\ IF outcome = Success /\ (LogsReceiver => row = "arrived")
             THEN NoFault ELSE Fault
    /\ UNCHANGED <<session, turn, env, created, pcapRows, target, bare, label,
                   marker, csv, outlived>>

\* the client has ended: analyse, unless it failed
ClientEnded ==
    /\ pc = "client"
    /\ \/ stage[Client(turn)] = "done" /\ Goto("pcap") /\ UNCHANGED turn
       \/ stage[Client(turn)] = "lost" /\ Goto("transfer") /\ turn' = turn + 1
    /\ UNCHANGED <<session, env, created, pcapRows, failed, writerVars, marker, csv,
                   outlived, faults>>

\* Mutant of LogPcap: a transfer is left out.
LogPcapAndSkip ==
    /\ pc = "pcap" /\ Goto("transfer") /\ turn' = turn + 2
    /\ pcapRows' = pcapRows \cup {<<session, turn, ActiveRunId>>}
    /\ UNCHANGED <<session, env, created, failed, writerVars, marker, csv,
                   outlived, faults>>

\* the pcap row, unless the analysis failed with a warning
LogPcap ==
    /\ pc = "pcap" /\ Goto("transfer") /\ turn' = turn + 1
    /\ \/ pcapRows' = pcapRows \cup {<<session, turn, ActiveRunId>>} /\ NoFault
       \/ UNCHANGED pcapRows /\ Fault
    /\ UNCHANGED <<session, env, created, failed, writerVars, marker, csv, outlived>>

\* Mutant of ComposeDown: the marker is cleared before the stack is stopped.
ComposeDownAfterClear ==
    /\ pc = "down"
    /\ IF marker # NoRun
       THEN marker' = NoRun /\ UNCHANGED <<pc, stage, faults>>
       ELSE Goto("clear") /\ Stop(Stack) /\ UNCHANGED <<marker, faults>>
    /\ UNCHANGED <<session, turn, env, created, pcapRows, failed, target, bare, label,
                   csv, outlived>>

\* docker compose down -v, whose failure is not noticed
ComposeDown ==
    /\ pc = "down" /\ Goto("clear")
    /\ \/ Stop(Stack) /\ NoFault
       \/ UNCHANGED stage /\ Fault
    /\ UNCHANGED <<session, turn, env, created, pcapRows, failed, target, bare, label,
                   marker, csv, outlived>>

\* Mutant of ClearMarker: the marker stays.
ClearNothing ==
    /\ pc = "clear"
    /\ NextSession
    /\ UNCHANGED <<env, created, pcapRows, failed, writerVars, marker, csv, faults>>

ClearMarker ==
    /\ pc = "clear"
    /\ marker' = NoRun
    /\ NextSession
    /\ UNCHANGED <<env, created, pcapRows, failed, writerVars, csv, faults>>

----------------------------------------------------------------------------
(* The writers of the containers, which have no RUN_ID *)

\* v's row comes before w's: one thread consumes the messages, and the server
\* answers after its row
Earlier(v, w) ==
    \/ /\ v[3] = "receiver" /\ w[3] = "receiver"
       /\ ProtocolOf[v[1]] = ProtocolOf[w[1]] /\ ProtocolOf[w[1]] \in Late
       /\ v[1] < w[1] \/ (v[1] = w[1] /\ v[2] < w[2])
    \/ stage[w] = "answered" /\ v = <<w[1], w[2], "receiver">>

Step(w, from, to) ==
    /\ stage[w] \in from
    /\ stage' = [stage EXCEPT ![w] = to]
    /\ UNCHANGED <<harnessVars, marker, outlived, faults>>

\* _measurement_file
FindDirectory(w) ==
    /\ \A v \in Working : ~Earlier(v, w)
    /\ Step(w, {"arrived", "answered"}, "header")
    /\ target' = [target EXCEPT ![w] = marker]
    /\ UNCHANGED <<bare, label, csv>>

File(w) == <<target[w], ProtocolOf[w[1]]>>

\* Mutant of FindHeader: no header is ever found.
FindNoHeader(w) ==
    /\ Step(w, {"header"}, "run_id")
    /\ bare' = [bare EXCEPT ![w] = TRUE]
    /\ UNCHANGED <<target, label, csv>>

\* _existing_header
FindHeader(w) ==
    /\ Step(w, {"header"}, "run_id")
    /\ bare' = [bare EXCEPT ![w] = csv[File(w)] = <<>>]
    /\ UNCHANGED <<target, label, csv>>

\* _meta_row
FindRunId(w) ==
    /\ Step(w, {"run_id"}, "append")
    /\ label' = [label EXCEPT ![w] = marker]
    /\ UNCHANGED <<target, bare, csv>>

\* header and row fit in the buffer and are written as one; the writer's
\* variables go with the call
AppendRow(w) ==
    /\ Step(w, {"append"}, "done")
    /\ csv' = [csv EXCEPT ![File(w)] =
                   IF bare[w] THEN @ \o <<Header, Row(w)>> ELSE Append(@, Row(w))]
    /\ target' = [target EXCEPT ![w] = NoRun]
    /\ label' = [label EXCEPT ![w] = NoRun]
    /\ bare' = [bare EXCEPT ![w] = FALSE]

Harness ==
    \/ StartExperiment \/ EnsureRun \/ TruncateMarker \/ WriteMarker \/ ComposeUp
    \/ RunClient \/ ClientEnded \/ LogPcap \/ EndProtocol \/ ComposeDown \/ ClearMarker
Write(w) == FindDirectory(w) \/ FindHeader(w) \/ FindRunId(w) \/ AppendRow(w)

Finished == session > NumSessions /\ Working = {} /\ UNCHANGED vars

Next == Harness \/ (\E w \in Writers : Write(w)) \/ Finished
Spec == Init /\ [][Next]_vars

----------------------------------------------------------------------------
RowsIn(d) == (UNION {Range(csv[d, p]) : p \in Protocols}) \ {Header}

Automatic(s) == KindOf[s] = "auto"
Over(s) == s < session

\* Every row of an experiment whose stack was stopped is in the run directory
\* of that experiment and says so in its run_id column, although containers
\* learn of the run from a file that changes while they write and although
\* receivers may lag behind their transfer; so is every pcap row.
RowsStayHome ==
    /\ \A d \in Dirs : \A row \in RowsIn(d) :
          LET s == row[1][1]
          IN  Automatic(s) /\ s \notin outlived => d = RunIdOf[s] /\ row[2] = RunIdOf[s]
    /\ \A row \in pcapRows : Automatic(row[1]) => row[3] = RunIdOf[row[1]]

\* an experiment that is over, unless a manual invocation had its id first: then it
\* was refused, and later invocations may still add to that run
Closed(s) ==
    Automatic(s) /\ Over(s)
    /\ \A m \in 1 .. s - 1 : KindOf[m] = "manual" => RunIdOf[m] # RunIdOf[s]

\* "Runs are immutable" (runs.py:164): once an experiment is over nothing is
\* added to its run, neither by later sessions nor under a repeated id, unless
\* a container outlived its session.
ClosedRunsUnchanged ==
    [][outlived = {} =>
        \A s \in Sessions : Closed(s) =>
            /\ \A p \in Protocols : csv'[RunIdOf[s], p] = csv[RunIdOf[s], p]
            /\ \A row \in pcapRows' \ pcapRows : row[3] # RunIdOf[s]]_vars

\* A CSV begins with its header, and only there is one, unless its protocol lets
\* the client and the receiver of a transfer write at the same time, or a call or
\* client failed, which leaves them just as unordered.
CsvWellFormed ==
    \A d \in Dirs, p \in Protocols : csv[d, p] # <<>> =>
        /\ Head(csv[d, p]) = Header
        /\ p \notin Late /\ (\A x \in failed : ProtocolOf[x[1]] # p) =>
              Header \notin Range(Tail(csv[d, p]))
=============================================================================
