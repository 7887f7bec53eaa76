-------------------------- MODULE RunRegistryProofs --------------------------
(* Proofs about RunRegistry, for every plan of sessions, run ids and         *)
(* protocols: rows are written in four steps from a marker that changes, and *)
(* still those of an orderly experiment are in its run.                      *)
EXTENDS RunRegistry, SequenceTheorems, TLAPS

\* what each place in the harness says of the session, its marker and its id
Placed ==
    /\ pc # "start" => session \in Sessions
    /\ pc \in {"client", "pcap"} => turn \in Transfers(session)
    /\ pc # "start" /\ Kind = "auto" => env = RunId
    /\ pc \in {"truncate", "mark"} => env = RunId
    /\ pc \in {"up", "transfer", "client", "pcap", "down", "clear"} /\ Kind = "auto" =>
          marker = RunId
    /\ pc \in {"up", "down", "clear"} => Kind = "auto"

\* A writer of this session, or one that outlived its own; the first has read the
\* marker that is still there.
AtHome ==
    \A w \in Working :
        \/ w[1] \in outlived
        \/ /\ w[1] = session
           /\ pc \in {"transfer", "client", "pcap", "down", "clear"}
           /\ stage[w] \in {"header", "run_id", "append"} => target[w] = marker
           /\ stage[w] = "append" => label[w] = marker

\* who found a header found a file that has rows
HeaderFound ==
    \A w \in Writers :
        stage[w] \in {"run_id", "append"} /\ ~bare[w] => csv[File(w)] # <<>>

\* a protocol whose rows come one after another
Calm(p) == p \notin Late /\ \A x \in failed : ProtocolOf[x[1]] # p

\* Of such a protocol only the two writers of the current transfer are at work, the
\* client behind the receiver, and no header came between its look and its row.
OneAtATime ==
    \A w \in Working : Calm(ProtocolOf[w[1]]) =>
        /\ w[1] = session /\ w[2] = turn /\ pc = "client"
        /\ w[3] = "receiver" => stage[Client(turn)] = "answered"
        /\ stage[w] \in {"run_id", "append"} /\ bare[w] => csv[File(w)] = <<>>

\* The runs of experiments that are over exist, and are not the run of this session.
Separate ==
    /\ \A s \in Sessions : Automatic(s) /\ Over(s) => RunIdOf[s] \in created
    /\ pc # "start" => \A s \in Sessions : Closed(s) => RunIdOf[s] \notin {env, marker}
    /\ marker # NoRun /\ (pc = "start" \/ Kind = "manual") =>
          \E m \in Sessions : /\ KindOf[m] = "manual" /\ RunIdOf[m] = marker
                              /\ m < session \/ (m = session /\ pc # "start")
    /\ pc = "start" => \A s \in Sessions : Closed(s) => RunIdOf[s] # marker
    /\ pc # "start" /\ Kind = "auto" => RunId \in created

RegistryInv == TypeOK /\ Placed /\ AtHome /\ HeaderFound /\ OneAtATime /\ Separate
               /\ RowsStayHome /\ CsvWellFormed

----------------------------------------------------------------------------
\* The types the proofs below keep needing.
LEMMA RegistryTypes ==
    ASSUME TypeOK
    PROVE  /\ NumSessions \in Nat /\ Sessions = 1 .. NumSessions
           /\ session \in Nat /\ session \in 1 .. NumSessions + 1 /\ turn \in Nat
           /\ \A s \in Sessions : NumTransfers[s] \in Nat /\ RunIdOf[s] \in RunIds
                                 /\ ProtocolOf[s] \in Protocols /\ RunIdOf[s] # NoRun
                                 /\ KindOf[s] \in {"auto", "manual"}
           /\ RunIds \subseteq Dirs /\ NoRun \in Dirs
           /\ (Fault \/ NoFault => faults' \in 0 .. MaxFaults)
<1>1. NumSessions \in Nat /\ Sessions = 1 .. NumSessions /\ MaxFaults \in Nat
  BY SessionPlan DEF Sessions
<1>2. session \in 1 .. NumSessions + 1 /\ turn \in Nat /\ faults \in 0 .. MaxFaults
  BY DEF TypeOK
<1>3. Fault \/ NoFault => faults' \in 0 .. MaxFaults
  BY <1>1, <1>2 DEF Fault, NoFault
<1> QED BY <1>1, <1>2, <1>3, SessionPlan DEF RunIds, Protocols, Dirs

\* A writer belongs to a session and its transfer.
LEMMA WriterParts ==
    ASSUME NEW w \in Writers
    PROVE  /\ w = <<w[1], w[2], w[3]>> /\ w[1] \in Sessions /\ w[2] \in Transfers(w[1])
           /\ w[3] \in {"client", "receiver"}
BY DEF Writers

\* The next session begins at its start, with the first transfer.
LEMMA TypeNextSession ==
    ASSUME TypeOK, Placed, session \in Sessions, NextSession
    PROVE  /\ session' \in 1 .. NumSessions + 1 /\ turn' \in Nat /\ pc' = "start"
           /\ (session' \in Sessions => turn' <= NumTransfers[session'] + 1)
           /\ outlived' \subseteq Sessions
<1>1. session' = session + 1 /\ turn' = 1 /\ pc' = "start"
  BY DEF NextSession, Goto
<1>2. session' \in 1 .. NumSessions + 1
  BY <1>1, RegistryTypes
<1>3. session' \in Sessions => turn' <= NumTransfers[session'] + 1
  <2> SUFFICES ASSUME session' \in Sessions PROVE 1 <= NumTransfers[session'] + 1
    BY <1>1
  <2>1. NumTransfers[session'] \in Nat
    BY RegistryTypes
  <2> QED BY <2>1
<1>4. outlived' \subseteq Sessions
  BY WriterParts DEF NextSession, Working, TypeOK
<1> QED BY <1>1, <1>2, <1>3, <1>4

\* The places where the harness stands.
Places == {"start", "truncate", "mark", "up", "transfer", "client", "pcap", "down", "clear"}

HarnessTypeOK ==
    /\ session \in 1 .. NumSessions + 1 /\ pc \in Places
    /\ turn \in Nat /\ (session \in Sessions => turn <= NumTransfers[session] + 1)
    /\ env \in Dirs /\ marker \in Dirs /\ created \subseteq RunIds
    /\ failed \subseteq Sessions \X Nat
    /\ pcapRows \subseteq Sessions \X Nat \X Dirs
    /\ outlived \subseteq Sessions /\ faults \in 0 .. MaxFaults

WriterTypeOK ==
    /\ stage \in [Writers -> {"none", "done", "lost"} \cup AtWork]
    /\ target \in [Writers -> Dirs] /\ label \in [Writers -> Dirs]
    /\ bare \in [Writers -> BOOLEAN]
    /\ csv \in [Dirs \X Protocols -> Seq({Header} \cup (Writers \X Dirs))]

\* The harness keeps to its types.
LEMMA TypeHarness == ASSUME TypeOK, Placed, Harness PROVE HarnessTypeOK'
<1> USE DEF Places, Goto
<1>0. HarnessTypeOK
  BY DEF TypeOK, HarnessTypeOK
<1>a. /\ NumSessions \in Nat /\ Sessions = 1 .. NumSessions /\ session \in Nat
      /\ \A s \in Sessions : NumTransfers[s] \in Nat /\ RunIdOf[s] \in RunIds
      /\ RunIds \subseteq Dirs /\ NoRun \in Dirs
      /\ (Fault \/ NoFault => faults' \in 0 .. MaxFaults)
  BY RegistryTypes
<1>b. session \in Sessions => RunId \in RunIds
  BY <1>a DEF RunId
<1>c. pc # "start" => session \in Sessions
  BY DEF Placed
<1>1. ASSUME session \in Sessions, NewRun,
             UNCHANGED <<failed, marker, pcapRows, faults>>, env' \in Dirs
      PROVE  HarnessTypeOK'
  <2>1. CASE RunId \in created
    <3>1. NextSession /\ created' = created
      BY <1>1, <2>1 DEF NewRun
    <3> QED BY <1>0, <1>1, <3>1, TypeNextSession DEF HarnessTypeOK
  <2>2. CASE RunId \notin created
    <3>1. /\ created' = created \cup {RunId} /\ pc' = "truncate"
          /\ UNCHANGED <<session, turn, outlived>>
      BY <1>1, <2>2 DEF NewRun
    <3> QED BY <1>0, <1>1, <1>b, <3>1 DEF HarnessTypeOK
  <2> QED BY <2>1, <2>2
<1>2. ASSUME StartExperiment PROVE HarnessTypeOK'
  <2>1. session \in Sessions
    BY <1>0, <1>a, <1>2 DEF StartExperiment, HarnessTypeOK
  <2> QED BY <1>1, <1>2, <1>a, <1>b, <2>1 DEF StartExperiment
<1>3. ASSUME EnsureRun PROVE HarnessTypeOK'
  <2>1. session \in Sessions
    BY <1>0, <1>a, <1>3 DEF EnsureRun, HarnessTypeOK
  <2>2. CASE marker # NoRun
    BY <1>0, <1>3, <1>a, <2>2 DEF EnsureRun, HarnessTypeOK
  <2>3. CASE marker = NoRun
    BY <1>1, <1>3, <1>a, <1>b, <2>1, <2>3 DEF EnsureRun
  <2> QED BY <2>2, <2>3
<1>4. ASSUME TruncateMarker PROVE HarnessTypeOK'
  BY <1>0, <1>4, <1>a DEF TruncateMarker, HarnessTypeOK
<1>5. ASSUME WriteMarker PROVE HarnessTypeOK'
  <2>1. marker' \in Dirs /\ pc' \in Places
    BY <1>5, <1>a, <1>b, <1>c DEF WriteMarker
  <2> QED BY <1>0, <1>5, <2>1 DEF WriteMarker, HarnessTypeOK
<1>6. ASSUME ComposeUp \/ ComposeDown PROVE HarnessTypeOK'
  <2>1. pc' \in Places /\ faults' \in 0 .. MaxFaults
    BY <1>6, <1>a DEF ComposeUp, ComposeDown
  <2> QED BY <1>0, <1>6, <2>1 DEF ComposeUp, ComposeDown, HarnessTypeOK
<1>7. ASSUME EndProtocol PROVE HarnessTypeOK'
  <2>1. /\ faults' \in 0 .. MaxFaults /\ session \in Sessions
        /\ UNCHANGED <<env, created, pcapRows, failed, marker>>
    BY <1>7, <1>a, <1>c DEF EndProtocol
  <2>2. \/ pc' = "down" /\ UNCHANGED <<session, turn, outlived>>
        \/ NextSession
    BY <1>7 DEF EndProtocol
  <2> QED BY <1>0, <2>1, <2>2, TypeNextSession DEF HarnessTypeOK
<1>8. ASSUME RunClient PROVE HarnessTypeOK'
  <2>1. /\ session \in Sessions /\ turn \in Nat /\ pc' = "client"
        /\ UNCHANGED <<session, turn, env, created, pcapRows, marker, outlived>>
        /\ failed' = failed \/ failed' = failed \cup {<<session, turn>>}
        /\ Fault \/ NoFault
    BY <1>0, <1>8, <1>c DEF RunClient, HarnessTypeOK
  <2> QED BY <1>0, <1>a, <2>1 DEF HarnessTypeOK
<1>9. ASSUME ClientEnded \/ LogPcap PROVE HarnessTypeOK'
  <2>1. /\ turn \in Transfers(session) /\ session \in Sessions
        /\ turn' = turn \/ turn' = turn + 1
        /\ pc' \in Places
        /\ UNCHANGED <<session, env, created, failed, marker, outlived>>
    BY <1>9, <1>c DEF Placed, ClientEnded, LogPcap
  <2>2. turn' \in Nat /\ turn' <= NumTransfers[session] + 1
    BY <1>a, <2>1 DEF Transfers
  <2>3. pcapRows' \subseteq Sessions \X Nat \X Dirs /\ faults' \in 0 .. MaxFaults
    <3>1. ActiveRunId \in Dirs /\ turn \in Nat
      BY <1>0 DEF ActiveRunId, HarnessTypeOK
    <3>2. pcapRows' = pcapRows \/ pcapRows' = pcapRows \cup {<<session, turn, ActiveRunId>>}
      BY <1>9 DEF ClientEnded, LogPcap
    <3>3. Fault \/ NoFault
      BY <1>9 DEF ClientEnded, LogPcap, NoFault
    <3> QED BY <1>0, <1>a, <2>1, <3>1, <3>2, <3>3 DEF HarnessTypeOK
  <2> QED BY <1>0, <2>1, <2>2, <2>3 DEF HarnessTypeOK
<1>10. ASSUME ClearMarker PROVE HarnessTypeOK'
  <2>1. session \in Sessions /\ NextSession /\ marker' \in Dirs
        /\ UNCHANGED <<env, created, pcapRows, failed, faults>>
    BY <1>10, <1>a, <1>c DEF ClearMarker
  <2> QED BY <1>0, <2>1, TypeNextSession DEF HarnessTypeOK
<1> QED
  BY <1>2, <1>3, <1>4, <1>5, <1>6, <1>7, <1>8, <1>9, <1>10 DEF Harness

\* The writers and their files keep to their types.
LEMMA TypeWriters == ASSUME TypeOK, Placed, Next PROVE WriterTypeOK'
<1>0. WriterTypeOK
  BY DEF TypeOK, WriterTypeOK
<1>1. ASSUME UNCHANGED <<target, bare, label, csv>>,
             stage' \in [Writers -> {"none", "done", "lost"} \cup AtWork]
      PROVE  WriterTypeOK'
  BY <1>0, <1>1 DEF WriterTypeOK
<1>2. ASSUME NEW ws, Stop(ws) \/ UNCHANGED stage
      PROVE  stage' \in [Writers -> {"none", "done", "lost"} \cup AtWork]
  BY <1>0, <1>2 DEF Stop, WriterTypeOK
<1>3. ASSUME RunClient PROVE WriterTypeOK'
  <2>1. PICK outcome \in {"arrived", "answered", "lost"}, row \in {"arrived", "none"} :
            stage' = [stage EXCEPT ![Client(turn)] = outcome, ![Receiver(turn)] = row]
    BY <1>3 DEF RunClient
  <2>2. stage' \in [Writers -> {"none", "done", "lost"} \cup AtWork]
    BY <1>0, <2>1 DEF WriterTypeOK, AtWork
  <2> QED BY <1>1, <1>3, <2>2 DEF RunClient
<1>4. ASSUME ComposeUp \/ ComposeDown PROVE WriterTypeOK'
  <2>1. /\ Stop(Stack) \/ UNCHANGED stage
        /\ UNCHANGED <<target, bare, label, csv>>
    BY <1>4 DEF ComposeUp, ComposeDown
  <2> QED BY <1>1, <1>2, <2>1
<1>5. ASSUME StartExperiment \/ EnsureRun \/ TruncateMarker \/ WriteMarker
             \/ ClientEnded \/ LogPcap \/ EndProtocol \/ ClearMarker \/ Finished
      PROVE  WriterTypeOK'
  <2>1. UNCHANGED <<writerVars, csv>>
    BY <1>5 DEF StartExperiment, EnsureRun, TruncateMarker, WriteMarker, ClientEnded,
                LogPcap, EndProtocol, ClearMarker, Finished, vars
  <2> QED BY <1>0, <1>1, <2>1 DEF WriterTypeOK, writerVars
<1>6. ASSUME NEW w \in Writers, Write(w) PROVE WriterTypeOK'
  <2>1. /\ stage' \in [Writers -> {"none", "done", "lost"} \cup AtWork]
        /\ marker \in Dirs
    BY <1>0, <1>6 DEF Write, FindDirectory, FindHeader, FindRunId, AppendRow, Step,
                      AtWork, WriterTypeOK, TypeOK
  <2>2. CASE FindDirectory(w)
    BY <1>0, <2>1, <2>2 DEF FindDirectory, WriterTypeOK
  <2>3. CASE FindHeader(w)
    BY <1>0, <2>1, <2>3 DEF FindHeader, WriterTypeOK
  <2>4. CASE FindRunId(w)
    BY <1>0, <2>1, <2>4 DEF FindRunId, WriterTypeOK
  <2>5. CASE AppendRow(w)
    <3> DEFINE Line == {Header} \cup (Writers \X Dirs)
    <3>1. /\ target[w] \in Dirs /\ label[w] \in Dirs /\ NoRun \in Dirs
          /\ ProtocolOf[w[1]] \in Protocols
      BY <1>0, WriterParts DEF WriterTypeOK, Dirs, Protocols
    <3>2. File(w) \in Dirs \X Protocols /\ Row(w) \in Line
      BY <3>1 DEF File, Row
    <3>3. csv[File(w)] \in Seq(Line)
      BY <1>0, <3>2 DEF WriterTypeOK
    <3>4. /\ csv[File(w)] \o <<Header, Row(w)>> \in Seq(Line)
          /\ Append(csv[File(w)], Row(w)) \in Seq(Line)
      <4> HIDE DEF Line
      <4>1. Header \in Line
        BY DEF Line
      <4> QED BY <3>2, <3>3, <4>1
    <3>5. csv' \in [Dirs \X Protocols -> Seq(Line)]
      <4>1. csv' = [csv EXCEPT ![File(w)] =
                       IF bare[w] THEN csv[File(w)] \o <<Header, Row(w)>>
                       ELSE Append(csv[File(w)], Row(w))]
        BY <2>5 DEF AppendRow
      <4> QED BY <1>0, <3>4, <4>1 DEF WriterTypeOK
    <3>6. /\ target' \in [Writers -> Dirs] /\ label' \in [Writers -> Dirs]
          /\ bare' \in [Writers -> BOOLEAN]
      BY <1>0, <2>5, <3>1 DEF AppendRow, WriterTypeOK
    <3> QED BY <2>1, <3>5, <3>6 DEF WriterTypeOK
  <2> QED BY <1>6, <2>2, <2>3, <2>4, <2>5 DEF Write
<1> QED BY <1>3, <1>4, <1>5, <1>6 DEF Next, Harness

\* Type correctness is preserved.
LEMMA TypeNext == ASSUME TypeOK, Placed, Next PROVE TypeOK'
<1>1. HarnessTypeOK'
  <2>1. CASE Harness
    BY <2>1, TypeHarness
  <2>2. CASE (\E w \in Writers : Write(w)) \/ Finished
    <3>1. UNCHANGED <<harnessVars, marker, outlived, faults>>
      BY <2>2 DEF Write, FindDirectory, FindHeader, FindRunId, AppendRow, Step,
                  Finished, vars
    <3> QED BY <3>1 DEF harnessVars, HarnessTypeOK, TypeOK, Places
  <2> QED BY <2>1, <2>2 DEF Next
<1> QED BY <1>1, TypeWriters DEF TypeOK, HarnessTypeOK, WriterTypeOK, Places

----------------------------------------------------------------------------
\* The harness keeps to its places.
LEMMA PlacedNext == ASSUME TypeOK, Placed, Next PROVE Placed'
<1> USE DEF Goto, Kind, RunId, Transfers
<1>1. ASSUME NextSession PROVE Placed'
  BY <1>1 DEF NextSession, Placed
<1>2. ASSUME session \in Sessions, pc = "start", NewRun, env' = RunId, UNCHANGED marker
      PROVE  Placed'
  BY <1>1, <1>2 DEF NewRun, Placed
<1>3. CASE StartExperiment
  <2>1. session \in Sessions
    BY <1>3, RegistryTypes DEF StartExperiment
  <2> QED BY <1>2, <1>3, <2>1 DEF StartExperiment
<1>4. CASE EnsureRun
  <2>1. session \in Sessions
    BY <1>4, RegistryTypes DEF EnsureRun
  <2> QED BY <1>2, <1>4, <2>1 DEF EnsureRun, Placed
<1>5. CASE TruncateMarker \/ WriteMarker
  <2>1. KindOf[session] \in {"auto", "manual"}
    BY <1>5, RegistryTypes DEF TruncateMarker, WriteMarker, Placed
  <2> QED BY <1>5, <2>1 DEF TruncateMarker, WriteMarker, Placed
<1>6. CASE ComposeUp \/ ComposeDown
  BY <1>6 DEF ComposeUp, ComposeDown, Placed
<1>7. CASE RunClient
  BY <1>7 DEF RunClient, Placed
<1>8. CASE ClientEnded \/ LogPcap
  BY <1>8 DEF ClientEnded, LogPcap, Placed
<1>9. CASE EndProtocol
  BY <1>1, <1>9 DEF EndProtocol, Placed
<1>10. CASE ClearMarker
  BY <1>1, <1>10 DEF ClearMarker
<1>11. CASE (\E w \in Writers : Write(w)) \/ Finished
  <2>1. UNCHANGED <<session, pc, turn, env, marker>>
    BY <1>11 DEF Write, FindDirectory, FindHeader, FindRunId, AppendRow, Step,
                 Finished, vars, harnessVars
  <2> QED BY <2>1 DEF Placed
<1> QED
  BY <1>3, <1>4, <1>5, <1>6, <1>7, <1>8, <1>9, <1>10, <1>11 DEF Next, Harness

----------------------------------------------------------------------------
\* What a step of the harness other than RunClient does to the writers: some
\* receivers are stopped, the others are where they were.
Idle ==
    /\ UNCHANGED <<target, bare, label, csv>>
    /\ \A w \in Writers : stage'[w] = stage[w] \/ stage'[w] = "lost"

\* All steps of the harness but RunClient leave the writers where they are or stop them.
LEMMA HarnessIdle ==
    ASSUME TypeOK, Harness, ~RunClient
    PROVE  Idle /\ Working' \subseteq Working
<1>1. \A ws : Stop(ws) => \A w \in Writers : stage'[w] = stage[w] \/ stage'[w] = "lost"
  BY DEF Stop
<1>2. Idle
  <2>1. CASE ComposeUp \/ ComposeDown
    BY <1>1, <2>1 DEF ComposeUp, ComposeDown, Idle
  <2>2. CASE StartExperiment \/ EnsureRun \/ TruncateMarker \/ WriteMarker
             \/ ClientEnded \/ LogPcap \/ EndProtocol \/ ClearMarker
    <3>1. UNCHANGED writerVars /\ UNCHANGED csv
      BY <2>2 DEF StartExperiment, EnsureRun, TruncateMarker, WriteMarker, ClientEnded,
                  LogPcap, EndProtocol, ClearMarker
    <3> QED BY <3>1 DEF Idle, writerVars
  <2> QED BY <2>1, <2>2 DEF Harness
<1>3. Working' \subseteq Working
  BY <1>2 DEF Working, Idle, AtWork
<1> QED BY <1>2, <1>3

\* Where a session's own writers may be at work.
Open == {"transfer", "client", "pcap", "down", "clear"}

\* Writers stay at home while the session does, and outlive it otherwise.
LEMMA AtHomeKept ==
    ASSUME AtHome, Idle, Working' \subseteq Working, outlived \subseteq outlived',
           \/ NextSession
           \/ pc \notin Open
           \/ pc' \in Open /\ UNCHANGED <<session, marker>>
    PROVE  AtHome'
<1> SUFFICES ASSUME NEW w \in Working'
             PROVE  \/ w[1] \in outlived'
                    \/ /\ w[1] = session' /\ pc' \in Open
                       /\ stage'[w] \in {"header", "run_id", "append"} => target'[w] = marker'
                       /\ stage'[w] = "append" => label'[w] = marker'
  BY DEF AtHome, Open
<1>1. w \in Working /\ w \in Writers
  BY DEF Working
<1>2. CASE NextSession
  BY <1>1, <1>2 DEF NextSession
<1>3. CASE pc \notin Open
  BY <1>1, <1>3 DEF AtHome, Open
<1>4. CASE pc' \in Open /\ UNCHANGED <<session, marker>>
  <2>1. stage'[w] = stage[w]
    BY <1>1 DEF Idle, Working, AtWork
  <2> QED BY <1>1, <1>4, <2>1 DEF AtHome, Idle, Open
<1> QED BY <1>2, <1>3, <1>4

\* A writer not of an earlier session has the marker of this one.
LEMMA AtHomeNext == ASSUME TypeOK, Placed, AtHome, Next PROVE AtHome'
<1>1. ASSUME Harness, ~RunClient PROVE AtHome'
  <2>1. outlived \subseteq outlived'
    BY <1>1 DEF Harness, StartExperiment, EnsureRun, NewRun, NextSession, TruncateMarker,
                WriteMarker, ComposeUp, ClientEnded, LogPcap, EndProtocol, ComposeDown,
                ClearMarker
  <2>2. \/ NextSession
        \/ pc \notin Open
        \/ pc' \in Open /\ UNCHANGED <<session, marker>>
    BY <1>1 DEF Harness, StartExperiment, EnsureRun, TruncateMarker, WriteMarker,
                ComposeUp, ClientEnded, LogPcap, EndProtocol, ComposeDown, ClearMarker,
                Goto, Open
  <2> QED BY <1>1, <2>1, <2>2, HarnessIdle, AtHomeKept
<1>2. ASSUME RunClient PROVE AtHome'
  <2>1. PICK outcome \in {"arrived", "answered", "lost"}, row \in {"arrived", "none"} :
            stage' = [stage EXCEPT ![Client(turn)] = outcome, ![Receiver(turn)] = row]
    BY <1>2 DEF RunClient
  <2>2. /\ pc = "transfer" /\ pc' = "client"
        /\ UNCHANGED <<session, target, label, marker, outlived>>
    BY <1>2 DEF RunClient, Goto
  <2> SUFFICES ASSUME NEW w \in Working'
               PROVE  \/ w[1] \in outlived
                      \/ /\ w[1] = session
                         /\ stage'[w] \in {"header", "run_id", "append"} => target[w] = marker
                         /\ stage'[w] = "append" => label[w] = marker
    BY <2>2 DEF AtHome
  <2>3. w \in Writers /\ stage'[w] \in AtWork
    BY DEF Working
  <2>4. CASE w = Client(turn) \/ w = Receiver(turn)
    <3>1. w[1] = session
      BY <2>4 DEF Client, Receiver
    <3>2. stage'[w] \in {outcome, row}
      BY <2>1, <2>3, <2>4 DEF TypeOK
    <3> QED BY <3>1, <3>2
  <2>5. CASE w # Client(turn) /\ w # Receiver(turn)
    <3>1. stage'[w] = stage[w]
      BY <2>1, <2>3, <2>5 DEF TypeOK
    <3> QED BY <2>3, <3>1 DEF AtHome, Working
  <2> QED BY <2>4, <2>5
<1>3. ASSUME NEW v \in Writers, Write(v) PROVE AtHome'
  <2>1. UNCHANGED <<session, pc, marker, outlived>>
    BY <1>3 DEF Write, FindDirectory, FindHeader, FindRunId, AppendRow, Step, harnessVars
  <2> SUFFICES ASSUME NEW w \in Working'
               PROVE  \/ w[1] \in outlived
                      \/ /\ w[1] = session /\ pc \in Open
                         /\ stage'[w] \in {"header", "run_id", "append"} => target'[w] = marker
                         /\ stage'[w] = "append" => label'[w] = marker
    BY <2>1 DEF AtHome, Open
  <2>2. w \in Writers /\ stage'[w] \in AtWork
    BY DEF Working
  <2>3. CASE w # v
    <3>1. stage'[w] = stage[w] /\ target'[w] = target[w] /\ label'[w] = label[w]
      BY <1>3, <2>2, <2>3 DEF Write, FindDirectory, FindHeader, FindRunId, AppendRow,
                              Step, TypeOK
    <3> QED BY <2>2, <3>1 DEF AtHome, Working, Open
  <2>4. CASE w = v
    <3>1. v \in Working
      BY <1>3 DEF Write, FindDirectory, FindHeader, FindRunId, AppendRow, Step,
                  Working, AtWork
    <3>2. CASE FindDirectory(v)
      BY <2>2, <2>4, <3>1, <3>2 DEF FindDirectory, Step, AtHome, TypeOK, Open
    <3>3. CASE FindHeader(v)
      BY <2>2, <2>4, <3>1, <3>3 DEF FindHeader, Step, AtHome, TypeOK, Open
    <3>4. CASE FindRunId(v)
      BY <2>2, <2>4, <3>1, <3>4 DEF FindRunId, Step, AtHome, TypeOK, Open
    <3>5. CASE AppendRow(v)
      BY <2>2, <2>4, <3>5 DEF AppendRow, Step, TypeOK, AtWork
    <3> QED BY <1>3, <3>2, <3>3, <3>4, <3>5 DEF Write
  <2> QED BY <2>3, <2>4
<1>4. ASSUME Finished PROVE AtHome'
  BY <1>4 DEF Finished, vars, harnessVars, writerVars, AtHome, Working
<1> QED BY <1>1, <1>2, <1>3, <1>4 DEF Next

----------------------------------------------------------------------------
\* What the step of a writer changes: its own place and what it found; another
\* writer's are as they were.
LEMMA WriterAlone ==
    ASSUME TypeOK, NEW v \in Writers, Write(v)
    PROVE  /\ UNCHANGED <<harnessVars, marker, outlived, faults>>
           /\ v \in Working
           /\ \A w \in Writers \ {v} :
                 /\ stage'[w] = stage[w] /\ target'[w] = target[w]
                 /\ bare'[w] = bare[w] /\ label'[w] = label[w]
           /\ ~AppendRow(v) => csv' = csv
BY DEF Write, FindDirectory, FindHeader, FindRunId, AppendRow, Step, TypeOK, Working, AtWork

\* What RunClient changes: the two writers of the transfer in progress.
LEMMA RunClientAlone ==
    ASSUME TypeOK, Placed, RunClient
    PROVE  /\ \A w \in Writers \ {Client(turn), Receiver(turn)} : stage'[w] = stage[w]
           /\ Client(turn) \in Writers /\ Receiver(turn) \in Writers
           /\ Client(turn) # Receiver(turn)
           /\ stage'[Client(turn)] \in {"arrived", "answered", "lost"}
           /\ stage'[Receiver(turn)] \in {"arrived", "none"}
           /\ stage'[Receiver(turn)] = "arrived" => LogsReceiver
           /\ failed \subseteq failed'
           /\ stage'[Client(turn)] = Success \/ <<session, turn>> \in failed'
<1>1. PICK outcome \in {"arrived", "answered", "lost"}, row \in {"arrived", "none"} :
          /\ stage' = [stage EXCEPT ![Client(turn)] = outcome, ![Receiver(turn)] = row]
          /\ row = "arrived" => LogsReceiver
          /\ failed' = IF outcome = Success THEN failed
                        ELSE failed \cup {<<session, turn>>}
  BY DEF RunClient
<1>2. /\ Client(turn) \in Writers /\ Receiver(turn) \in Writers
      /\ Client(turn) # Receiver(turn)
  <2>1. session \in Sessions /\ turn \in Transfers(session)
    BY DEF RunClient, Placed
  <2> QED BY <2>1 DEF Client, Receiver, Writers
<1>3. stage'[Client(turn)] = outcome /\ stage'[Receiver(turn)] = row
  BY <1>1, <1>2 DEF TypeOK
<1> QED BY <1>1, <1>2, <1>3 DEF TypeOK

\* What is appended to a file: its head stays, and the new lines come at its end.
LEMMA Extended ==
    ASSUME NEW S, NEW s \in Seq(S), NEW x \in S, NEW y \in S
    PROVE  /\ Append(s, x) # <<>> /\ s \o <<x, y>> # <<>>
           /\ Range(Append(s, x)) \subseteq Range(s) \cup {x}
           /\ Range(s \o <<x, y>>) \subseteq Range(s) \cup {x, y}
           /\ s # <<>> => /\ Head(Append(s, x)) = Head(s) /\ Head(s \o <<x, y>>) = Head(s)
                          /\ Range(Tail(Append(s, x))) \subseteq Range(Tail(s)) \cup {x}
           /\ s = <<>> => /\ Head(s \o <<x, y>>) = x
                          /\ Range(Tail(s \o <<x, y>>)) \subseteq {y}
<1> DEFINE a == Append(s, x)
           c == s \o <<x, y>>
<1>1. /\ Len(s) \in Nat /\ Len(a) = Len(s) + 1 /\ Len(c) = Len(s) + 2
      /\ a \in Seq(S) /\ c \in Seq(S)
  OBVIOUS
<1>2. \A i \in 1 .. Len(a) : a[i] = IF i = Len(a) THEN x ELSE s[i]
  BY <1>1
<1>3. \A i \in 1 .. Len(c) :
          c[i] = IF i <= Len(s) THEN s[i] ELSE IF i = Len(s) + 1 THEN x ELSE y
  BY <1>1
<1>4. \A t \in Seq(S) : Range(t) = {t[i] : i \in 1 .. Len(t)}
  BY DEF Range
<1>5. \A t \in Seq(S) : t # <<>> =>
          /\ Head(t) = t[1]
          /\ Range(Tail(t)) = {t[i] : i \in 2 .. Len(t)}
  <2> SUFFICES ASSUME NEW t \in Seq(S), t # <<>>
               PROVE  Head(t) = t[1] /\ Range(Tail(t)) = {t[i] : i \in 2 .. Len(t)}
    OBVIOUS
  <2>1. /\ Len(t) \in Nat /\ Len(t) >= 1 /\ Head(t) = t[1] /\ Tail(t) \in Seq(S)
        /\ Len(Tail(t)) = Len(t) - 1
        /\ \A i \in 1 .. Len(t) - 1 : Tail(t)[i] = t[i + 1]
    OBVIOUS
  <2>2. Range(Tail(t)) = {Tail(t)[i] : i \in 1 .. Len(t) - 1}
    <3>1. Range(Tail(t)) = {Tail(t)[i] : i \in 1 .. Len(Tail(t))}
      BY <1>4, <2>1
    <3> QED BY <2>1, <3>1
  <2>3. ASSUME NEW e \in Range(Tail(t)) PROVE e \in {t[i] : i \in 2 .. Len(t)}
    <3>1. PICK i \in 1 .. Len(t) - 1 : e = Tail(t)[i]
      BY <2>2
    <3>2. i + 1 \in 2 .. Len(t)
      BY <2>1
    <3> QED BY <2>1, <3>1, <3>2
  <2>4. ASSUME NEW i \in 2 .. Len(t) PROVE t[i] \in Range(Tail(t))
    <3>1. i - 1 \in 1 .. Len(t) - 1 /\ (i - 1) + 1 = i
      BY <2>1
    <3>2. Tail(t)[i - 1] = t[i]
      BY <2>1, <3>1
    <3> QED BY <2>2, <3>1, <3>2
  <2> QED BY <2>1, <2>3, <2>4
<1>6. a # <<>> /\ c # <<>>
  BY <1>1
<1>7. Range(a) \subseteq Range(s) \cup {x} /\ Range(c) \subseteq Range(s) \cup {x, y}
  <2>1. /\ Range(a) = {a[i] : i \in 1 .. Len(a)} /\ Range(c) = {c[i] : i \in 1 .. Len(c)}
        /\ Range(s) = {s[i] : i \in 1 .. Len(s)}
    BY <1>1, <1>4
  <2>2. \A i \in 1 .. Len(a) : a[i] = x \/ (i \in 1 .. Len(s) /\ a[i] = s[i])
    BY <1>1, <1>2
  <2>3. \A i \in 1 .. Len(c) : c[i] \in {x, y} \/ (i \in 1 .. Len(s) /\ c[i] = s[i])
    BY <1>1, <1>3
  <2> QED BY <2>1, <2>2, <2>3
<1>8. ASSUME s # <<>>
      PROVE  /\ Head(a) = Head(s) /\ Head(c) = Head(s)
             /\ Range(Tail(a)) \subseteq Range(Tail(s)) \cup {x}
  <2>1. Len(s) >= 1
    BY <1>8
  <2>2. Head(a) = a[1] /\ Head(c) = c[1] /\ Head(s) = s[1]
    BY <1>1, <1>5, <1>6, <1>8
  <2>3. a[1] = s[1] /\ c[1] = s[1]
    BY <1>1, <1>2, <1>3, <2>1
  <2>4. Range(Tail(a)) = {a[i] : i \in 2 .. Len(a)}
    BY <1>1, <1>5, <1>6
  <2>5. Range(Tail(s)) = {s[i] : i \in 2 .. Len(s)}
    BY <1>5, <1>8
  <2>6. \A i \in 2 .. Len(a) : a[i] = x \/ (i \in 2 .. Len(s) /\ a[i] = s[i])
    BY <1>1, <1>2
  <2> QED BY <2>2, <2>3, <2>4, <2>5, <2>6
<1>9. ASSUME s = <<>> PROVE Head(c) = x /\ Range(Tail(c)) \subseteq {y}
  <2>1. Len(s) = 0
    BY <1>9
  <2>2. Head(c) = c[1] /\ Range(Tail(c)) = {c[i] : i \in 2 .. Len(c)}
    BY <1>1, <1>5, <1>6
  <2>3. c[1] = x /\ \A i \in 2 .. Len(c) : c[i] = y
    BY <1>1, <1>3, <2>1
  <2> QED BY <2>2, <2>3
<1> QED BY <1>6, <1>7, <1>8, <1>9

\* Who looks for a header finds one exactly if the file has rows.
LEMMA HeaderFoundNext == ASSUME TypeOK, Placed, HeaderFound, Next PROVE HeaderFound'
<1>1. ASSUME Idle PROVE HeaderFound'
  BY <1>1 DEF Idle, HeaderFound, File
<1>2. CASE RunClient
  <2>1. UNCHANGED <<target, bare, csv>>
    BY <1>2 DEF RunClient
  <2>2. \A w \in Writers : stage'[w] \in {"run_id", "append"} => stage'[w] = stage[w]
    BY <1>2, RunClientAlone
  <2> QED BY <2>1, <2>2 DEF HeaderFound, File
<1>3. ASSUME NEW v \in Writers, Write(v) PROVE HeaderFound'
  <2> SUFFICES ASSUME NEW w \in Writers, stage'[w] \in {"run_id", "append"}, ~bare'[w]
               PROVE  csv'[<<target'[w], ProtocolOf[w[1]]>>] # <<>>
    BY DEF HeaderFound, File
  <2> DEFINE f == <<target[w], ProtocolOf[w[1]]>>
  <2>1. target'[w] = target[w] /\ csv[f] # <<>>
    <3>1. CASE w # v
      BY <1>3, <3>1, WriterAlone DEF HeaderFound, File
    <3>2. CASE w = v /\ FindHeader(v)
      BY <3>2 DEF FindHeader, File, TypeOK
    <3>3. CASE w = v /\ FindRunId(v)
      BY <3>3 DEF FindRunId, Step, File, TypeOK, HeaderFound
    <3>4. CASE w = v /\ (FindDirectory(v) \/ AppendRow(v))
      BY <3>4 DEF FindDirectory, AppendRow, Step, TypeOK
    <3> QED BY <1>3, <3>1, <3>2, <3>3, <3>4 DEF Write
  <2>2. csv'[f] # <<>>
    <3>1. CASE ~AppendRow(v)
      BY <1>3, <2>1, <3>1, WriterAlone
    <3>2. CASE AppendRow(v) /\ f # File(v)
      BY <2>1, <3>2 DEF AppendRow, TypeOK
    <3>3. CASE AppendRow(v) /\ f = File(v)
      <4> DEFINE Line == {Header} \cup (Writers \X Dirs)
      <4>1. f \in Dirs \X Protocols
        <5>1. target[w] \in Dirs /\ w[1] \in Sessions
          BY WriterParts DEF TypeOK
        <5> QED BY <5>1 DEF Protocols
      <4>2. csv[f] \in Seq(Line)
        BY <4>1 DEF TypeOK
      <4>3. csv'[f] = IF bare[v] THEN csv[f] \o <<Header, Row(v)>> ELSE Append(csv[f], Row(v))
        BY <3>3, <4>1 DEF AppendRow, TypeOK
      <4>4. Header \in Line /\ Row(v) \in Line
        BY DEF Row, TypeOK
      <4>5. Append(csv[f], Row(v)) # <<>> /\ csv[f] \o <<Header, Row(v)>> # <<>>
        BY <4>2, <4>4, Extended
      <4> QED BY <4>3, <4>5
    <3> QED BY <3>1, <3>2, <3>3
  <2> QED BY <2>1, <2>2
<1>4. CASE Finished
  BY <1>1, <1>4 DEF Finished, vars, writerVars, Idle
<1> QED BY <1>1, <1>2, <1>3, <1>4, HarnessIdle DEF Next

----------------------------------------------------------------------------
\* Failures are never forgotten, so a protocol that is calm was calm before.
LEMMA CalmBefore ==
    ASSUME Next, NEW p
    PROVE  failed \subseteq failed' /\ (Calm(p)' => Calm(p))
<1>1. failed \subseteq failed'
  BY DEF Next, Harness, StartExperiment, EnsureRun, TruncateMarker, WriteMarker, ComposeUp,
         RunClient, ClientEnded, LogPcap, EndProtocol, ComposeDown, ClearMarker, Write,
         FindDirectory, FindHeader, FindRunId, AppendRow, Step, harnessVars, Finished, vars
<1> QED BY <1>1 DEF Calm

\* A step of the harness leaves no writer of a calm protocol outside its transfer.
LEMMA OneHarness ==
    ASSUME TypeOK, Placed, OneAtATime, Harness, Next PROVE OneAtATime'
<1>1. CASE RunClient
  <2> SUFFICES ASSUME NEW w \in Working', Calm(ProtocolOf[w[1]])'
               PROVE  /\ w[1] = session' /\ w[2] = turn' /\ pc' = "client"
                      /\ w[3] = "receiver" => stage'[Client(turn)'] = "answered"
                      /\ stage'[w] \notin {"run_id", "append"}
    BY DEF OneAtATime
  <2>1. /\ pc = "transfer" /\ pc' = "client" /\ UNCHANGED <<session, turn>>
        /\ Client(turn)' = Client(turn)
    BY <1>1 DEF RunClient, Goto, Client
  <2>2. w \in Writers /\ stage'[w] \in AtWork
    BY DEF Working
  <2>3. w \in {Client(turn), Receiver(turn)}
    <3>1. CASE w \notin {Client(turn), Receiver(turn)}
      <4>1. w \in Working
        BY <1>1, <2>2, <3>1, RunClientAlone DEF Working
      <4>2. pc = "client"
        BY <4>1, CalmBefore DEF OneAtATime
      <4> QED BY <2>1, <4>2
    <3> QED BY <3>1
  <2>4. w[1] = session /\ w[2] = turn
    BY <2>3 DEF Client, Receiver
  <2>5. stage'[w] \notin {"run_id", "append"}
    BY <1>1, <2>3, RunClientAlone
  <2>6. ASSUME w[3] = "receiver" PROVE stage'[Client(turn)] = "answered"
    <3>1. w = Receiver(turn)
      BY <2>3, <2>6 DEF Client
    <3>2. LogsReceiver /\ Protocol = ProtocolOf[w[1]]
      BY <1>1, <2>2, <2>4, <3>1, RunClientAlone DEF Protocol, AtWork
    <3>3. Protocol \in Answering
      BY <3>2 DEF LogsReceiver, Calm
    <3>4. <<session, turn>> \notin failed'
      BY <2>4 DEF Calm
    <3> QED BY <1>1, <3>3, <3>4, RunClientAlone DEF Success
  <2> QED BY <2>1, <2>4, <2>5, <2>6
<1>2. CASE ~RunClient
  <2> SUFFICES ASSUME NEW w \in Working', Calm(ProtocolOf[w[1]])' PROVE FALSE
    BY DEF OneAtATime
  <2>1. w \in Working /\ w \in Writers
    BY <1>2, HarnessIdle DEF Working
  <2>2. /\ w[1] = session /\ w[2] = turn /\ pc = "client"
        /\ w[3] = "receiver" => stage[Client(turn)] = "answered"
    BY <2>1, CalmBefore DEF OneAtATime
  <2>3. ClientEnded
    BY <1>2, <2>2 DEF Harness, StartExperiment, EnsureRun, TruncateMarker, WriteMarker,
                      ComposeUp, LogPcap, EndProtocol, ComposeDown, ClearMarker
  <2>4. stage[Client(turn)] \in {"done", "lost"}
    BY <2>3 DEF ClientEnded
  <2>5. w = Client(turn)
    BY <2>1, <2>2, <2>4, WriterParts DEF Client
  <2> QED BY <2>1, <2>4, <2>5 DEF Working, AtWork
<1> QED BY <1>1, <1>2

\* No step of a writer lets another write a second header.
LEMMA OneWriter ==
    ASSUME TypeOK, OneAtATime, NEW v \in Writers, Write(v), Next
    PROVE  OneAtATime'
<1> SUFFICES ASSUME NEW w \in Working', Calm(ProtocolOf[w[1]])'
             PROVE  /\ w[1] = session' /\ w[2] = turn' /\ pc' = "client"
                    /\ w[3] = "receiver" => stage'[Client(turn)'] = "answered"
                    /\ stage'[w] \in {"run_id", "append"} /\ bare'[w] =>
                          csv'[<<target'[w], ProtocolOf[w[1]]>>] = <<>>
  BY DEF OneAtATime, File
<1> DEFINE p == ProtocolOf[w[1]]
<1>1. UNCHANGED <<session, turn, pc>> /\ Client(turn)' = Client(turn)
  BY WriterAlone DEF harnessVars, Client
<1>2. w \in Writers /\ w \in Working /\ v \in Working
  BY WriterAlone DEF Working
<1>3. \A x \in Working : ProtocolOf[x[1]] = p =>
          /\ x[1] = session /\ x[2] = turn /\ pc = "client"
          /\ x[3] = "receiver" => stage[Client(turn)] = "answered"
          /\ stage[x] \in {"run_id", "append"} /\ bare[x] => csv[File(x)] = <<>>
  BY CalmBefore DEF OneAtATime
<1>4. /\ w[1] = session /\ w[2] = turn /\ pc = "client"
      /\ w[3] = "receiver" => stage[Client(turn)] = "answered"
      /\ stage[w] \in {"run_id", "append"} /\ bare[w] => csv[File(w)] = <<>>
  BY <1>2, <1>3
\* the client of an answered call takes no step while its receiver is at work
<1>5. ASSUME w[3] = "receiver" PROVE v # Client(turn) /\ Client(turn) \in Writers
  <2>1. w = <<session, turn, "receiver">> /\ Client(turn) \in Writers
    BY <1>2, <1>4, <1>5, WriterParts DEF Writers, Client
  <2>2. stage[Client(turn)] = "answered"
    BY <1>4, <1>5
  <2>3. ASSUME v = Client(turn) PROVE FALSE
    <3>1. FindDirectory(v)
      BY <2>2, <2>3 DEF Write, FindHeader, FindRunId, AppendRow, Step
    <3>2. Earlier(w, v)
      BY <2>1, <2>2, <2>3 DEF Earlier, Client
    <3> QED BY <1>2, <3>1, <3>2 DEF FindDirectory
  <2> QED BY <2>1, <2>3
<1>6. w[3] = "receiver" => stage'[Client(turn)] = "answered"
  BY <1>4, <1>5, WriterAlone
<1>7. ASSUME stage'[w] \in {"run_id", "append"}, bare'[w]
      PROVE  csv'[<<target'[w], p>>] = <<>>
  <2>1. CASE v = w
    <3>1. CASE FindHeader(v)
      <4>1. /\ target' = target /\ csv' = csv
            /\ bare' = [bare EXCEPT ![v] = csv[File(v)] = <<>>]
        BY <3>1 DEF FindHeader
      <4>2. bare'[v] = (csv[File(v)] = <<>>)
        BY <4>1 DEF TypeOK
      <4> QED BY <1>7, <2>1, <4>1, <4>2 DEF File
    <3>2. CASE FindRunId(v)
      <4>1. stage[v] = "run_id" /\ UNCHANGED <<target, bare, csv>>
        BY <3>2 DEF FindRunId, Step
      <4> QED BY <1>4, <1>7, <2>1, <4>1 DEF File
    <3>3. CASE FindDirectory(v) \/ AppendRow(v)
      BY <1>7, <2>1, <3>3 DEF FindDirectory, AppendRow, Step, TypeOK
    <3> QED BY <3>1, <3>2, <3>3 DEF Write
  <2>2. CASE v # w
    <3>1. /\ stage'[w] = stage[w] /\ target'[w] = target[w] /\ bare'[w] = bare[w]
      BY <1>2, <2>2, WriterAlone
    <3>2. csv[File(w)] = <<>>
      BY <1>4, <1>7, <3>1
    <3>3. CASE ~AppendRow(v)
      BY <3>1, <3>2, <3>3, WriterAlone DEF File
    <3>4. CASE AppendRow(v)
      <4>1. ProtocolOf[v[1]] # p
        <5> SUFFICES ASSUME ProtocolOf[v[1]] = p PROVE FALSE
          OBVIOUS
        <5>1. /\ v[1] = session /\ v[2] = turn
              /\ v[3] = "receiver" => stage[Client(turn)] = "answered"
          BY <1>2, <1>3
        <5>2. stage[v] = "append" /\ stage[w] \in {"run_id", "append"}
          BY <1>7, <3>1, <3>4 DEF AppendRow, Step
        <5>3. CASE v[3] = "client"
          <6>1. v = Client(turn)
            BY <5>1, <5>3, WriterParts DEF Client
          <6>2. w[3] = "receiver"
            BY <1>2, <1>4, <2>2, <6>1, WriterParts DEF Client
          <6> QED BY <1>5, <6>1, <6>2
        <5>4. CASE v[3] = "receiver"
          <6>1. w[3] = "client"
            BY <1>2, <1>4, <2>2, <5>1, <5>4, WriterParts
          <6>2. w = Client(turn)
            BY <1>2, <1>4, <6>1, WriterParts DEF Client
          <6> QED BY <5>1, <5>2, <5>4, <6>2
        <5> QED BY <5>3, <5>4, WriterParts
      <4>2. File(w) # File(v)
        BY <4>1 DEF File
      <4>3. csv'[File(w)] = csv[File(w)]
        BY <3>4, <4>2 DEF AppendRow, TypeOK
      <4> QED BY <3>1, <3>2, <4>3 DEF File
    <3> QED BY <3>3, <3>4
  <2> QED BY <2>1, <2>2
<1> QED BY <1>1, <1>4, <1>6, <1>7

\* Of a calm protocol one row is written at a time.
LEMMA OneAtATimeNext == ASSUME TypeOK, Placed, OneAtATime, Next PROVE OneAtATime'
<1>1. CASE Harness
  BY <1>1, OneHarness
<1>2. CASE \E v \in Writers : Write(v)
  BY <1>2, OneWriter
<1>3. CASE Finished
  BY <1>3 DEF Finished, vars, harnessVars, writerVars, OneAtATime, Working, Calm, File, Client
<1> QED BY <1>1, <1>2, <1>3 DEF Next

----------------------------------------------------------------------------
\* A session that ends leaves the runs of experiments apart from the marker.
LEMMA SeparateOver ==
    ASSUME TypeOK, Separate, session \in Sessions, NextSession, UNCHANGED created,
           marker' = NoRun \/ (marker' = marker /\ (pc = "start" \/ Kind = "manual")),
           KindOf[session] = "auto" => RunId \in created
    PROVE  Separate'
<1> USE RegistryTypes
<1>1. session' = session + 1 /\ pc' = "start"
  BY DEF NextSession, Goto
<1>2. \A s \in Sessions : s \in Nat /\ (s < session' <=> s < session \/ s = session)
  BY <1>1
<1>3. \A s \in Sessions : Automatic(s) /\ Over(s)' => RunIdOf[s] \in created
  BY <1>1, <1>2 DEF Over, Automatic, Separate, RunId
<1>4. ASSUME marker' # NoRun
      PROVE  \E m \in Sessions : /\ KindOf[m] = "manual" /\ RunIdOf[m] = marker'
                                 /\ m < session'
  <2>1. PICK m \in Sessions : /\ KindOf[m] = "manual" /\ RunIdOf[m] = marker
                              /\ m < session \/ (m = session /\ pc # "start")
    BY <1>4 DEF Separate
  <2> QED BY <1>2, <1>4, <2>1
<1>5. ASSUME NEW s \in Sessions, Closed(s)' PROVE RunIdOf[s] # marker'
  <2>1. Automatic(s) /\ (s < session \/ s = session)
    BY <1>2, <1>5 DEF Closed, Over
  <2>2. CASE marker' = NoRun
    BY <2>2
  <2>3. CASE marker' # NoRun /\ s < session
    <3>1. Closed(s)
      BY <1>5, <2>3 DEF Closed, Over, Automatic
    <3> QED BY <2>3, <3>1 DEF Separate
  <2>4. CASE marker' # NoRun /\ s = session
    <3>1. PICK m \in Sessions : KindOf[m] = "manual" /\ RunIdOf[m] = marker' /\ m < session'
      BY <1>4, <2>4
    <3>2. m # s
      BY <2>1, <3>1 DEF Automatic
    <3>3. m \in 1 .. s - 1
      BY <1>1, <2>4, <3>1, <3>2
    <3> QED BY <1>5, <3>1, <3>3 DEF Closed
  <2> QED BY <2>1, <2>2, <2>3, <2>4
<1> QED BY <1>1, <1>3, <1>4, <1>5 DEF Separate, Automatic

\* A session that goes on and keeps its marker leaves them apart as well.
LEMMA SeparateKept ==
    ASSUME Separate, UNCHANGED <<session, marker, env, created>>, pc # "start",
           pc' # "start"
    PROVE  Separate'
<1>1. /\ \A s \in Sessions : Over(s)' = Over(s) /\ Closed(s)' = Closed(s)
      /\ Kind' = Kind /\ RunId' = RunId
  BY DEF Over, Closed, Automatic, Kind, RunId
<1> QED BY <1>1 DEF Separate, Automatic

\* A session that begins takes an id of its own, or the run of a manual invocation.
LEMMA SeparateBegun ==
    ASSUME TypeOK, Separate, session \in Sessions, pc = "start", pc' # "start",
           UNCHANGED <<session, marker>>,
           \/ env' = RunId /\ RunId \notin created /\ created' = created \cup {RunId}
           \/ env' = NoRun /\ created' = created /\ Kind = "manual"
    PROVE  Separate'
<1>1. /\ \A s \in Sessions : Over(s)' = Over(s) /\ Closed(s)' = Closed(s)
      /\ Kind' = Kind /\ RunId' = RunId
  BY DEF Over, Closed, Automatic, Kind, RunId
<1>2. \A s \in Sessions : Automatic(s) /\ Over(s) => RunIdOf[s] \in created
  BY DEF Separate
<1>3. \A s \in Sessions : Closed(s) => RunIdOf[s] \notin {env', marker'}
  BY <1>2, RegistryTypes DEF Separate, Closed
<1>4. created \subseteq created'
  OBVIOUS
<1>5. Kind = "auto" => RunId \in created'
  OBVIOUS
<1>6. marker' # NoRun =>
          \E m \in Sessions : /\ KindOf[m] = "manual" /\ RunIdOf[m] = marker'
                              /\ m < session' \/ (m = session' /\ pc' # "start")
  BY DEF Separate
<1> QED BY <1>1, <1>2, <1>3, <1>4, <1>5, <1>6 DEF Separate, Automatic

\* The runs of experiments that are over stay apart from the run in progress.
LEMMA SeparateNext == ASSUME TypeOK, Placed, Separate, Next PROVE Separate'
<1> USE DEF Goto, Kind
<1>a. pc # "start" => session \in Sessions
  BY DEF Placed
<1>b. pc # "start" /\ KindOf[session] = "auto" => RunId \in created
  BY DEF Separate
<1>1. CASE StartExperiment \/ EnsureRun
  <2>1. session \in Sessions /\ pc = "start" /\ UNCHANGED marker
    BY <1>1, RegistryTypes DEF StartExperiment, EnsureRun
  <2>2. \/ RunId \in created /\ NextSession /\ UNCHANGED created
        \/ /\ UNCHANGED session /\ pc' # "start"
           /\ \/ env' = RunId /\ RunId \notin created /\ created' = created \cup {RunId}
              \/ env' = NoRun /\ created' = created /\ Kind = "manual"
    BY <1>1 DEF StartExperiment, EnsureRun, NewRun
  <2> QED BY <2>1, <2>2, SeparateOver, SeparateBegun
<1>2. CASE TruncateMarker \/ WriteMarker
  <2>1. /\ pc # "start" /\ pc' # "start" /\ env = RunId
        /\ UNCHANGED <<session, env, created>> /\ marker' \in {NoRun, RunId}
    BY <1>2 DEF TruncateMarker, WriteMarker, Placed
  <2>2. /\ \A s \in Sessions : Over(s)' = Over(s) /\ Closed(s)' = Closed(s)
        /\ Kind' = Kind /\ RunId' = RunId
    BY <2>1 DEF Over, Closed, Automatic, RunId
  <2>3. \A s \in Sessions : Closed(s) => RunIdOf[s] \notin {env', marker'}
    BY <2>1, RegistryTypes DEF Separate
  <2>4. marker' # NoRun /\ Kind = "manual" =>
            \E m \in Sessions : /\ KindOf[m] = "manual" /\ RunIdOf[m] = marker'
                                /\ m < session' \/ (m = session' /\ pc' # "start")
    BY <1>a, <2>1 DEF RunId
  <2> QED BY <2>1, <2>2, <2>3, <2>4 DEF Separate, Automatic
<1>3. CASE ComposeUp \/ RunClient \/ ClientEnded \/ LogPcap \/ ComposeDown
  <2>1. UNCHANGED <<session, marker, env, created>> /\ pc # "start" /\ pc' # "start"
    BY <1>3 DEF ComposeUp, RunClient, ClientEnded, LogPcap, ComposeDown
  <2> QED BY <2>1, SeparateKept
<1>4. CASE EndProtocol
  <2>1. CASE Kind = "auto"
    <3>1. UNCHANGED <<session, marker, env, created>> /\ pc # "start" /\ pc' # "start"
      BY <1>4, <2>1 DEF EndProtocol
    <3> QED BY <3>1, SeparateKept
  <2>2. CASE Kind # "auto"
    <3>1. session \in Sessions /\ KindOf[session] = "manual"
      BY <1>4, <1>a, <2>2, RegistryTypes DEF EndProtocol
    <3>2. NextSession /\ UNCHANGED <<created, marker>>
      BY <1>4, <2>2 DEF EndProtocol
    <3> QED BY <3>1, <3>2, SeparateOver
  <2> QED BY <2>1, <2>2
<1>5. CASE ClearMarker
  <2>1. pc = "clear" /\ NextSession /\ UNCHANGED created /\ marker' = NoRun
    BY <1>5 DEF ClearMarker
  <2> QED BY <1>a, <1>b, <2>1, SeparateOver
<1>6. CASE (\E v \in Writers : Write(v)) \/ Finished
  <2>1. UNCHANGED <<session, pc, env, created, marker>>
    BY <1>6, WriterAlone DEF Finished, vars, harnessVars
  <2>2. \A s \in Sessions : Over(s)' = Over(s) /\ Closed(s)' = Closed(s)
    BY <2>1 DEF Over, Closed, Automatic
  <2> QED BY <2>1, <2>2 DEF Separate, Automatic, RunId
<1> QED BY <1>1, <1>2, <1>3, <1>4, <1>5, <1>6 DEF Next, Harness

----------------------------------------------------------------------------
\* The row a writer appends: to the file it found, behind what is there; the other
\* files are as they were.
LEMMA Appended ==
    ASSUME TypeOK, NEW w \in Writers, AppendRow(w)
    PROVE  /\ File(w) \in Dirs \X Protocols
           /\ csv[File(w)] \in Seq({Header} \cup (Writers \X Dirs))
           /\ Header \in {Header} \cup (Writers \X Dirs)
           /\ Row(w) \in {Header} \cup (Writers \X Dirs)
           /\ csv'[File(w)] = IF bare[w] THEN csv[File(w)] \o <<Header, Row(w)>>
                              ELSE Append(csv[File(w)], Row(w))
           /\ \A f \in Dirs \X Protocols : f # File(w) => csv'[f] = csv[f]
           /\ stage[w] = "append" /\ w \in Working
           /\ UNCHANGED <<pcapRows, outlived, failed, session, pc>>
<1>1. target[w] \in Dirs /\ label[w] \in Dirs /\ w[1] \in Sessions
  BY WriterParts DEF TypeOK
<1>2. File(w) \in Dirs \X Protocols
  BY <1>1 DEF File, Protocols
<1>3. csv[File(w)] \in Seq({Header} \cup (Writers \X Dirs))
  BY <1>2 DEF TypeOK
<1>4. /\ csv'[File(w)] = IF bare[w] THEN csv[File(w)] \o <<Header, Row(w)>>
                         ELSE Append(csv[File(w)], Row(w))
      /\ \A f \in Dirs \X Protocols : f # File(w) => csv'[f] = csv[f]
  BY <1>2 DEF AppendRow, TypeOK
<1>5. /\ stage[w] = "append" /\ w \in Working
      /\ UNCHANGED <<pcapRows, outlived, failed, session, pc>>
  BY DEF AppendRow, Step, Working, AtWork, harnessVars
<1> QED BY <1>1, <1>2, <1>3, <1>4, <1>5 DEF Row

\* A row is no header.
LEMMA RowNoHeader == ASSUME NEW w PROVE Row(w) # Header
<1>1. Len(Row(w)) = 2 /\ Len(Header) = 1
  BY DEF Row, Header
<1> QED BY <1>1

\* Steps other than AppendRow leave every file alone, those other than LogPcap the
\* pcap rows, and an outlived session stays one.
LEMMA FilesAlone ==
    ASSUME Next
    PROVE  /\ UNCHANGED csv \/ \E w \in Writers : AppendRow(w)
           /\ UNCHANGED pcapRows \/ LogPcap
           /\ outlived \subseteq outlived'
BY DEF Next, Harness, StartExperiment, EnsureRun, NewRun, NextSession, TruncateMarker,
       WriteMarker, ComposeUp, RunClient, ClientEnded, LogPcap, EndProtocol, ComposeDown,
       ClearMarker, Write, FindDirectory, FindHeader, FindRunId, AppendRow, Step,
       harnessVars, Finished, vars

\* Rows of experiments reach their run, and none leaves it.
LEMMA RowsNext ==
    ASSUME TypeOK, Placed, AtHome, RowsStayHome, Next PROVE RowsStayHome'
<1>1. \A d \in Dirs : \A row \in RowsIn(d) :
          Automatic(row[1][1]) /\ row[1][1] \notin outlived =>
              d = RunIdOf[row[1][1]] /\ row[2] = RunIdOf[row[1][1]]
  BY DEF RowsStayHome
<1>2. ASSUME NEW d \in Dirs, NEW row \in RowsIn(d)', Automatic(row[1][1]),
             row[1][1] \notin outlived'
      PROVE  d = RunIdOf[row[1][1]] /\ row[2] = RunIdOf[row[1][1]]
  <2>1. row[1][1] \notin outlived
    BY <1>2, FilesAlone
  <2>2. CASE row \in RowsIn(d)
    BY <1>1, <1>2, <2>1, <2>2
  <2>3. CASE row \notin RowsIn(d)
    <3>1. PICK w \in Writers : AppendRow(w)
      <4>1. RowsIn(d)' # RowsIn(d)
        BY <1>2, <2>3
      <4>2. csv' # csv
        BY <4>1 DEF RowsIn
      <4> QED BY <4>2, FilesAlone
    <3>a. row \in UNION {Range(csv'[d, p]) : p \in Protocols} /\ row # Header
      BY <1>2, Zenon DEF RowsIn
    <3>2. PICK p \in Protocols : row \in Range(csv'[d, p]) /\ row # Header
      BY <3>a
    <3>b. row \notin UNION {Range(csv[d, q]) : q \in Protocols}
      BY <2>3, <3>2, Zenon DEF RowsIn
    <3>3. row \notin Range(csv[d, p])
      BY <3>b
    <3>4. <<d, p>> = File(w)
      BY <3>1, <3>2, <3>3, Appended
    <3>5. row \in Range(csv[File(w)]) \cup {Header, Row(w)}
      <4> DEFINE S == {Header} \cup (Writers \X Dirs)
      <4>1. csv[File(w)] \in Seq(S) /\ Header \in S /\ Row(w) \in S
        BY <3>1, Appended
      <4>2. csv'[File(w)] = IF bare[w] THEN csv[File(w)] \o <<Header, Row(w)>>
                            ELSE Append(csv[File(w)], Row(w))
        BY <3>1, Appended
      <4>3. /\ Range(Append(csv[File(w)], Row(w))) \subseteq Range(csv[File(w)]) \cup {Row(w)}
            /\ Range(csv[File(w)] \o <<Header, Row(w)>>)
                   \subseteq Range(csv[File(w)]) \cup {Header, Row(w)}
        <5> HIDE DEF S
        <5> QED BY <4>1, Extended, Zenon
      <4> QED BY <3>2, <3>4, <4>2, <4>3
    <3>6. row = Row(w)
      BY <3>2, <3>3, <3>4, <3>5
    <3>7. row[1][1] = w[1] /\ row[2] = label[w] /\ d = target[w]
      BY <3>4, <3>6 DEF Row, File
    <3>8. /\ w[1] = session /\ target[w] = marker /\ label[w] = marker
          /\ pc \in {"transfer", "client", "pcap", "down", "clear"}
      BY <2>1, <3>1, <3>7, Appended DEF AtHome
    <3>9. marker = RunIdOf[session]
      BY <1>2, <3>7, <3>8 DEF Placed, Automatic, Kind, RunId
    <3> QED BY <3>7, <3>8, <3>9
  <2> QED BY <2>2, <2>3
<1>3. ASSUME NEW row \in pcapRows', Automatic(row[1]) PROVE row[3] = RunIdOf[row[1]]
  <2>1. CASE row \in pcapRows
    BY <1>3, <2>1 DEF RowsStayHome
  <2>2. CASE row \notin pcapRows
    <3>1. LogPcap
      BY <1>3, <2>2, FilesAlone
    <3>2. pc = "pcap" /\ row = <<session, turn, ActiveRunId>>
      BY <1>3, <2>2, <3>1 DEF LogPcap
    <3>3. env = RunIdOf[session] /\ session \in Sessions
      BY <1>3, <3>2 DEF Placed, Automatic, Kind, RunId
    <3> QED BY <3>2, <3>3, RegistryTypes DEF ActiveRunId
  <2> QED BY <2>1, <2>2
<1> QED BY <1>2, <1>3 DEF RowsStayHome, Automatic

\* A file that begins with its header does so with one more row, and has no other
\* header if it had none and was not taken for new.
LEMMA FileGrows ==
    ASSUME NEW S, NEW s \in Seq(S), NEW h \in S, NEW r \in S, r # h,
           s # <<>> => Head(s) = h
    PROVE  /\ Head(s \o <<h, r>>) = h
           /\ s # <<>> => Head(Append(s, r)) = h
           /\ s = <<>> => h \notin Range(Tail(s \o <<h, r>>))
           /\ s # <<>> /\ h \notin Range(Tail(s)) => h \notin Range(Tail(Append(s, r)))
<1>1. Head(s \o <<h, r>>) = h
  BY Extended
<1>2. s # <<>> => Head(Append(s, r)) = h
  BY Extended
<1>3. ASSUME s = <<>> PROVE h \notin Range(Tail(s \o <<h, r>>))
  <2>1. Range(Tail(s \o <<h, r>>)) \subseteq {r}
    BY <1>3, Extended, Zenon
  <2> QED BY <2>1
<1>4. ASSUME s # <<>>, h \notin Range(Tail(s)) PROVE h \notin Range(Tail(Append(s, r)))
  <2>1. Range(Tail(Append(s, r))) \subseteq Range(Tail(s)) \cup {r}
    BY <1>4, Extended, Zenon
  <2> QED BY <1>4, <2>1
<1> QED BY <1>1, <1>2, <1>3, <1>4

\* A file gets one header, as its first line, while its protocol is calm.
LEMMA CsvNext ==
    ASSUME TypeOK, HeaderFound, OneAtATime, CsvWellFormed, Next PROVE CsvWellFormed'
<1> SUFFICES ASSUME NEW d \in Dirs, NEW p \in Protocols, csv'[d, p] # <<>>
             PROVE  /\ Head(csv'[d, p]) = Header
                    /\ Calm(p)' => Header \notin Range(Tail(csv'[d, p]))
  BY DEF CsvWellFormed, Calm
<1>1. csv[d, p] # <<>> => /\ Head(csv[d, p]) = Header
                          /\ Calm(p)' => Header \notin Range(Tail(csv[d, p]))
  BY CalmBefore DEF CsvWellFormed, Calm
<1>2. CASE csv'[d, p] = csv[d, p]
  BY <1>1, <1>2
<1>3. CASE csv'[d, p] # csv[d, p]
  <2>1. PICK w \in Writers : AppendRow(w)
    BY <1>3, FilesAlone
  <2>2. File(w) = <<d, p>> /\ ProtocolOf[w[1]] = p
    <3>1. File(w) = <<d, p>>
      BY <1>3, <2>1, Appended
    <3> QED BY <3>1 DEF File
  <2> DEFINE S == {Header} \cup (Writers \X Dirs)
             s == csv[d, p]
  <2>3. /\ s \in Seq(S) /\ Header \in S /\ Row(w) \in S
        /\ csv'[d, p] = IF bare[w] THEN s \o <<Header, Row(w)>> ELSE Append(s, Row(w))
    BY <2>1, <2>2, Appended
  <2>4. /\ ~bare[w] => s # <<>>
        /\ bare[w] /\ Calm(p)' => s = <<>>
    <3>1. stage[w] = "append" /\ w \in Working /\ csv[File(w)] = s
      BY <2>1, <2>2, Appended
    <3>2. ~bare[w] => s # <<>>
      BY <3>1 DEF HeaderFound
    <3>3. bare[w] /\ Calm(p)' => s = <<>>
      BY <2>2, <3>1, CalmBefore DEF OneAtATime
    <3> QED BY <3>2, <3>3
  <2>5. Row(w) # Header
    BY RowNoHeader
  <2> DEFINE r == Row(w)
             h == Header
  <2>6. s \in Seq(S) /\ h \in S /\ r \in S /\ r # h /\ (s # <<>> => Head(s) = h)
    BY <1>1, <2>3, <2>5
  <2>7. /\ Head(s \o <<h, r>>) = h
        /\ s # <<>> => Head(Append(s, r)) = h
        /\ s = <<>> => h \notin Range(Tail(s \o <<h, r>>))
        /\ s # <<>> /\ h \notin Range(Tail(s)) => h \notin Range(Tail(Append(s, r)))
    <3> HIDE DEF S, s, r, h
    <3> QED BY <2>6, FileGrows, Zenon
  <2>8. CASE bare[w]
    <3>1. csv'[d, p] = s \o <<h, r>> /\ (Calm(p)' => s = <<>>)
      BY <2>3, <2>4, <2>8
    <3> QED BY <2>7, <3>1, Zenon
  <2>9. CASE ~bare[w]
    <3>1. csv'[d, p] = Append(s, r) /\ s # <<>>
      BY <2>3, <2>4, <2>9
    <3> QED BY <1>1, <2>7, <3>1, Zenon
  <2> QED BY <2>8, <2>9
<1> QED BY <1>2, <1>3

----------------------------------------------------------------------------
\* Before the first session there is nothing.
LEMMA RegistryInit == Init => RegistryInv
<1> SUFFICES ASSUME Init PROVE RegistryInv
  OBVIOUS
<1>1. HarnessTypeOK
  <2>1. NumSessions \in Nat /\ MaxFaults \in Nat
    BY SessionPlan
  <2>2. session \in 1 .. NumSessions + 1 /\ faults \in 0 .. MaxFaults
    BY <2>1 DEF Init
  <2>3. session \in Sessions => turn <= NumTransfers[session] + 1
    <3> SUFFICES ASSUME session \in Sessions PROVE 1 <= NumTransfers[session] + 1
      BY DEF Init
    <3>1. NumTransfers[session] \in Nat
      BY SessionPlan
    <3> QED BY <3>1
  <2> QED BY <2>2, <2>3 DEF Init, HarnessTypeOK, Places, Dirs
<1>2. WriterTypeOK
  <2>1. <<>> \in Seq({Header} \cup (Writers \X Dirs))
    OBVIOUS
  <2> QED BY <2>1 DEF Init, WriterTypeOK, Dirs
<1>3. TypeOK
  BY <1>1, <1>2 DEF TypeOK, HarnessTypeOK, WriterTypeOK, Places
<1>4. Placed /\ AtHome /\ HeaderFound /\ OneAtATime
  <2>1. \A w \in Writers : stage[w] = "none"
    BY DEF Init
  <2>2. pc = "start"
    BY DEF Init
  <2> QED BY <2>1, <2>2 DEF Placed, AtHome, HeaderFound, OneAtATime, Working, AtWork
<1>5. Separate
  <2>1. \A s \in Sessions : ~Over(s)
    BY SessionPlan DEF Init, Over, Sessions
  <2> QED BY <2>1 DEF Init, Separate, Closed
<1>6. \A d \in Dirs, p \in Protocols : csv[d, p] = <<>>
  BY DEF Init
<1>7. RowsStayHome
  <2>1. \A d \in Dirs, p \in Protocols : Range(csv[d, p]) = {}
    <3>1. Range(<<>>) = {}
      BY DEF Range
    <3> QED BY <1>6, <3>1
  <2>2. ASSUME NEW d \in Dirs PROVE RowsIn(d) = {}
    BY <2>1 DEF RowsIn
  <2>3. pcapRows = {}
    BY DEF Init
  <2> QED BY <2>2, <2>3 DEF RowsStayHome
<1>8. CsvWellFormed
  BY <1>6 DEF CsvWellFormed
<1> QED BY <1>3, <1>4, <1>5, <1>7, <1>8 DEF RegistryInv

\* Every step of the sessions and of the writers preserves the invariant.
LEMMA RegistryNext == RegistryInv /\ [Next]_vars => RegistryInv'
<1> SUFFICES ASSUME RegistryInv, [Next]_vars PROVE RegistryInv'
  OBVIOUS
<1>1. CASE Next
  BY <1>1, TypeNext, PlacedNext, AtHomeNext, HeaderFoundNext, OneAtATimeNext,
     SeparateNext, RowsNext, CsvNext DEF RegistryInv
<1>2. CASE UNCHANGED vars
  <2> USE <1>2 DEF vars, harnessVars, writerVars
  <2>1. TypeOK'
    BY DEF RegistryInv, TypeOK
  <2>2. Placed' /\ Separate'
    BY DEF RegistryInv, Placed, Separate, Kind, RunId, Closed, Over, Automatic
  <2>3. AtHome' /\ HeaderFound' /\ OneAtATime'
    BY DEF RegistryInv, AtHome, HeaderFound, OneAtATime, Working, File, Calm, Client
  <2>4. RowsStayHome'
    <3>1. \A d \in Dirs : RowsIn(d)' = RowsIn(d)
      BY Zenon DEF RowsIn
    <3> QED BY <3>1 DEF RegistryInv, RowsStayHome, Automatic
  <2>5. CsvWellFormed'
    BY DEF RegistryInv, CsvWellFormed
  <2> QED BY <2>1, <2>2, <2>3, <2>4, <2>5 DEF RegistryInv
<1> QED BY <1>1, <1>2

\* The inductive invariant: where the marker stands while a writer is at work, and
\* which runs it may name.
THEOREM RegistryInvariant == Spec => []RegistryInv
<1>1. Init => RegistryInv
  BY RegistryInit
<1>2. RegistryInv /\ [Next]_vars => RegistryInv'
  BY RegistryNext
<1> QED BY <1>1, <1>2, PTL DEF Spec

\* Sessions, markers, writers and files keep to their types.
THEOREM RegistryTypeCorrect == Spec => []TypeOK
<1>1. RegistryInv => TypeOK
  BY DEF RegistryInv
<1> QED BY <1>1, RegistryInvariant, PTL

\* Every row of an experiment whose stack was stopped is in that experiment's run and
\* says so, for every sequence of sessions: runs.py reads the marker twice per row.
THEOREM RowsStayHomeHolds == Spec => []RowsStayHome
<1>1. RegistryInv => RowsStayHome
  BY DEF RegistryInv
<1> QED BY <1>1, RegistryInvariant, PTL

\* A measurement file begins with its header and, while its protocol writes one row
\* at a time, has no other, although write_csv.py looks for one long before it appends.
THEOREM CsvWellFormedHolds == Spec => []CsvWellFormed
<1>1. RegistryInv => CsvWellFormed
  BY DEF RegistryInv
<1> QED BY <1>1, RegistryInvariant, PTL

\* One step adds nothing to the run of an experiment that is over.
LEMMA ClosedStep ==
    ASSUME RegistryInv, Next, outlived = {}, NEW s \in Sessions, Closed(s)
    PROVE  /\ \A p \in Protocols : csv'[RunIdOf[s], p] = csv[RunIdOf[s], p]
           /\ \A row \in pcapRows' \ pcapRows : row[3] # RunIdOf[s]
<1>1. TypeOK /\ AtHome /\ Separate
  BY DEF RegistryInv
<1>2. pc # "start" => RunIdOf[s] \notin {env, marker}
  BY <1>1 DEF Separate
<1>3. ASSUME NEW p \in Protocols PROVE csv'[RunIdOf[s], p] = csv[RunIdOf[s], p]
  <2>1. CASE UNCHANGED csv
    BY <2>1
  <2>2. ASSUME NEW w \in Writers, AppendRow(w)
        PROVE  csv'[RunIdOf[s], p] = csv[RunIdOf[s], p]
    <3>1. stage[w] = "append" /\ w \in Working
      BY <1>1, <2>2, Appended
    <3>2. target[w] = marker /\ pc # "start"
      BY <1>1, <3>1 DEF AtHome
    <3>3. <<RunIdOf[s], p>> # File(w)
      BY <1>2, <3>2 DEF File
    <3>4. <<RunIdOf[s], p>> \in Dirs \X Protocols
      BY <1>1, RegistryTypes
    <3> QED BY <1>1, <2>2, <3>3, <3>4, Appended
  <2> QED BY <2>1, <2>2, FilesAlone
<1>4. ASSUME NEW row \in pcapRows' \ pcapRows PROVE row[3] # RunIdOf[s]
  <2>1. LogPcap
    BY <1>4, FilesAlone
  <2>2. pc = "pcap" /\ row = <<session, turn, ActiveRunId>>
    BY <1>4, <2>1 DEF LogPcap
  <2> QED BY <1>2, <2>2 DEF ActiveRunId
<1> QED BY <1>3, <1>4

\* "Runs are immutable": once an experiment is over, no later session, no repeated id
\* and no late writer adds a row to its run, unless a container outlived its session.
THEOREM ClosedRunsUnchangedHolds == Spec => ClosedRunsUnchanged
<1>1. RegistryInv /\ [Next]_vars =>
          [outlived = {} =>
              \A s \in Sessions : Closed(s) =>
                  /\ \A p \in Protocols : csv'[RunIdOf[s], p] = csv[RunIdOf[s], p]
                  /\ \A row \in pcapRows' \ pcapRows : row[3] # RunIdOf[s]]_vars
  BY ClosedStep
<1> QED BY <1>1, RegistryInvariant, PTL DEF Spec, ClosedRunsUnchanged
=============================================================================
