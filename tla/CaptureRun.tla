------------------------------ MODULE CaptureRun ------------------------------
(***************************************************************************)
(* The host harness: run_protocol makes one run_transfer after another, and *)
(* each wraps the client's process in a packet capture (start_capture_run,  *)
(* stop_capture_run), then analyses the pcap and appends the pcap row.      *)
(*                                                                         *)
(* The harness sees tcpdump only through pgrep and pkill, run in the capture *)
(* container by docker compose exec.  They go by the program's name: they   *)
(* see, and stop, the tcpdump of any transfer.  And the harness looks at    *)
(* the exit status alone, so a failed exec passes for a pgrep or pkill that *)
(* found none.  Every tcpdump is a process here, that takes its own time to *)
(* appear, to open the interface and to flush and exit.  Docker, tcpdump    *)
(* and the client process are external.                                     *)
(***************************************************************************)
EXTENDS Naturals, FiniteSets

CONSTANTS
    NumTransfers,   \* files (times QoS levels) of the protocol, in order
    MaxFaults       \* bound on the faults

Transfers == 1 .. NumTransfers

ASSUME SweepPlan == NumTransfers \in Nat /\ MaxFaults \in Nat

VARIABLES
    turn,       \* the transfer in progress, or the next one
    pc,         \* where run_transfer is
    transferFailed, \* transfer_failed of run_transfer
    tcpdump,    \* the tcpdump process of each transfer
    covers,     \* does the capture of each transfer reach the transfer's end
    host,       \* the pcap of each transfer in the run's pcap directory
    warned,     \* transfers during which the harness printed a WARNING
    execFailed, \* transfers at whose end the exec of pkill or pgrep failed
    measured,   \* transfers with a pcap row
    faults      \* faults so far

vars == <<turn, pc, transferFailed, tcpdump, covers, host, warned,
          execFailed, measured, faults>>

Stages == {"start", "ready", "transfer", "stop", "exit", "copy", "analyze"}

TypeOK ==
    /\ turn \in 1 .. NumTransfers + 1
    /\ pc \in Stages \cup {"aborted"}
    /\ transferFailed \in BOOLEAN
    /\ tcpdump \in [Transfers -> {"none", "spawned", "opening", "capturing",
                                  "exiting", "hung", "gone", "failed"}]
    /\ covers \in [Transfers -> BOOLEAN]
    /\ host \in [Transfers -> {"none", "cut", "complete"}]
    /\ warned \subseteq Transfers /\ execFailed \subseteq Transfers
    /\ measured \subseteq Transfers
    /\ faults \in 0 .. MaxFaults
    /\ (pc # "start" => turn \in Transfers)

Init ==
    /\ turn = 1 /\ pc = "start" /\ transferFailed = FALSE
    /\ tcpdump = [t \in Transfers |-> "none"]
    /\ covers = [t \in Transfers |-> FALSE]
    /\ host = [t \in Transfers |-> "none"]
    /\ warned = {} /\ execFailed = {} /\ measured = {} /\ faults = 0

Fault == faults < MaxFaults /\ faults' = faults + 1
Warn == warned' = warned \cup {turn}
ExecFails == Fault /\ execFailed' = execFailed \cup {turn}

\* what pgrep -x tcpdump finds
Visible == {t \in Transfers : tcpdump[t] \in {"opening", "capturing", "exiting", "hung"}}

----------------------------------------------------------------------------
(* run_transfer.  An exception outside its try, or raised by its finally,   *)
(* ends run_protocol: the remaining transfers are not made.                 *)

\* Mutant of StartCapture: one transfer too many.
StartCaptureOnceMore ==
    /\ pc = "start" /\ turn <= NumTransfers + 1
    /\ tcpdump' = [tcpdump EXCEPT ![turn] = "spawned"]
    /\ pc' = "ready" /\ transferFailed' = FALSE
    /\ UNCHANGED <<turn, covers, host, warned, execFailed, measured, faults>>

\* rm -f, the offloads, and docker exec -d tcpdump with check=True
StartCapture ==
    /\ pc = "start" /\ turn <= NumTransfers
    /\ \/ /\ tcpdump' = [tcpdump EXCEPT ![turn] = "spawned"]
          /\ pc' = "ready"
          /\ UNCHANGED faults
       \/ Fault /\ pc' = "aborted" /\ UNCHANGED tcpdump
    /\ transferFailed' = FALSE
    /\ UNCHANGED <<turn, covers, host, warned, execFailed, measured>>

\* _wait_until_ready: a tcpdump is there, or RuntimeError after the timeout, by when
\* a tcpdump that lives has appeared unless something fails
WaitUntilReady ==
    /\ pc = "ready"
    /\ \/ Visible # {} /\ pc' = "transfer" /\ UNCHANGED faults
       \/ /\ pc' = "aborted"
          /\ IF Visible = {} /\ tcpdump[turn] \in {"failed", "gone"}
             THEN UNCHANGED faults ELSE Fault
    /\ UNCHANGED <<turn, transferFailed, tcpdump, covers, host, warned, execFailed, measured>>

\* the client's process ends, by when a tcpdump that appeared has long opened
\* its interface; a failure is caught and warned about
Transfer ==
    /\ pc = "transfer" /\ tcpdump[turn] # "opening"
    /\ pc' = "stop"
    /\ \/ transferFailed' = FALSE /\ UNCHANGED <<warned, faults>>
       \/ transferFailed' = TRUE /\ Warn /\ Fault
    /\ covers' = [covers EXCEPT ![turn] = tcpdump[turn] = "capturing"]
    /\ UNCHANGED <<turn, tcpdump, host, execFailed, measured>>

\* what SIGTERM does to a tcpdump: before it has opened its pcap there is none
Terminated(t) ==
    CASE tcpdump[t] = "opening" -> "failed"
      [] tcpdump[t] = "capturing" -> "exiting"
      [] OTHER -> tcpdump[t]

\* Mutant of StopTcpdump: no SIGTERM is sent.
StopWithoutSignal ==
    /\ pc = "stop" /\ pc' = "copy"
    /\ UNCHANGED <<turn, transferFailed, tcpdump, covers, host, warned, execFailed,
                   measured, faults>>

SigTerm == tcpdump' = [t \in Transfers |-> Terminated(t)]

\* pkill -TERM tcpdump, with check=True: it raises when pkill finds none, and when
\* the exec fails, be it before or after the signal
StopTcpdump ==
    /\ pc = "stop"
    /\ \/ Visible # {} /\ SigTerm /\ pc' = "exit" /\ UNCHANGED <<execFailed, faults>>
       \/ Visible = {} /\ pc' = "aborted" /\ UNCHANGED <<tcpdump, execFailed, faults>>
       \/ ExecFails /\ pc' = "aborted" /\ (SigTerm \/ UNCHANGED tcpdump)
    /\ UNCHANGED <<turn, transferFailed, covers, host, warned, measured>>

\* Mutants of WaitForExit: it does not wait; it waits without a timeout.
CopyAtOnce ==
    /\ pc = "exit" /\ pc' = "copy"
    /\ UNCHANGED <<turn, transferFailed, tcpdump, covers, host, warned, execFailed,
                   measured, faults>>

WaitForExitForever ==
    /\ pc = "exit" /\ Visible = {} /\ pc' = "copy"
    /\ UNCHANGED <<turn, transferFailed, tcpdump, covers, host, warned, execFailed,
                   measured, faults>>

\* pgrep finds none any more, or its exec fails, which is taken for the same, or a
\* WARNING after the timeout; a tcpdump that appeared after the SIGTERM does not exit
WaitForExit ==
    /\ pc = "exit" /\ pc' = "copy"
    /\ \/ Visible = {} /\ UNCHANGED <<warned, execFailed, faults>>
       \/ ExecFails /\ UNCHANGED warned
       \/ /\ Visible # {} /\ Warn /\ UNCHANGED execFailed
          /\ IF \A t \in Visible : tcpdump[t] = "exiting" THEN Fault ELSE UNCHANGED faults
    /\ UNCHANGED <<turn, transferFailed, tcpdump, covers, host, measured>>

\* the pcap of a tcpdump that got as far as opening it
Pcap ==
    CASE tcpdump[turn] = "gone" -> "complete"
      [] tcpdump[turn] \in {"capturing", "exiting", "hung"} -> "cut"
      [] OTHER -> "none"

\* the next transfer
NextTransfer == turn' = turn + 1 /\ pc' = "start"

\* docker compose cp, whose failure is warned about
CopyPcap ==
    /\ pc = "copy"
    /\ \/ /\ Pcap # "none"
          /\ host' = [host EXCEPT ![turn] = Pcap]
          /\ UNCHANGED <<warned, faults>>
       \/ /\ UNCHANGED host /\ Warn
          /\ IF Pcap = "none" THEN UNCHANGED faults ELSE Fault
    /\ IF transferFailed THEN NextTransfer ELSE pc' = "analyze" /\ UNCHANGED turn
    /\ UNCHANGED <<transferFailed, tcpdump, covers, execFailed, measured>>

\* analyze_pcap and the pcap row; a missing pcap, and one cut inside a packet,
\* raise and are warned about
Analyze ==
    /\ pc = "analyze"
    /\ \/ host[turn] # "none" /\ measured' = measured \cup {turn} /\ UNCHANGED warned
       \/ host[turn] # "complete" /\ Warn /\ UNCHANGED measured
    /\ NextTransfer
    /\ UNCHANGED <<transferFailed, tcpdump, covers, host, execFailed, faults>>

----------------------------------------------------------------------------
(* tcpdump of transfer t *)

TcpdumpTo(t, state) ==
    /\ tcpdump' = [tcpdump EXCEPT ![t] = state]
    /\ UNCHANGED <<turn, pc, transferFailed, covers, host, warned, execFailed, measured>>

Appears(t) == tcpdump[t] = "spawned" /\ TcpdumpTo(t, "opening") /\ UNCHANGED faults
Opens(t) == tcpdump[t] = "opening" /\ TcpdumpTo(t, "capturing") /\ UNCHANGED faults
Exits(t) == tcpdump[t] = "exiting" /\ TcpdumpTo(t, "gone") /\ UNCHANGED faults

\* it fails to start, or the server it shares its network with goes away
Dies(t) ==
    /\ \/ tcpdump[t] \in {"spawned", "opening"} /\ TcpdumpTo(t, "failed")
       \/ tcpdump[t] = "capturing" /\ TcpdumpTo(t, "gone")
    /\ Fault

\* it has its SIGTERM and does not exit
Hangs(t) == tcpdump[t] = "exiting" /\ TcpdumpTo(t, "hung") /\ Fault

Over == pc = "aborted" \/ (pc = "start" /\ turn > NumTransfers)

\* what the harness does itself; its commands return, while the client's process has
\* no timeout and may run for ever (subprocess.run in run_transfer)
Command ==
    \/ StartCapture \/ WaitUntilReady \/ StopTcpdump
    \/ WaitForExit \/ CopyPcap \/ Analyze
Harness == Command \/ Transfer
Tcpdump(t) == Appears(t) \/ Opens(t) \/ Exits(t)

Next ==
    \/ Harness
    \/ \E t \in Transfers : Tcpdump(t) \/ Dies(t) \/ Hangs(t)
    \/ Over /\ UNCHANGED vars

Spec == Init /\ [][Next]_vars
FairSpec == Spec /\ WF_vars(Command) /\ \A t \in Transfers : WF_vars(Tcpdump(t))

----------------------------------------------------------------------------
\* transfers of which the harness knows, or would if it looked at more than the exit
\* status, that their capture did not go as it should
Doubtful == warned \cup execFailed

\* A pcap row can be trusted: as long as no WARNING was printed and no exec failed, it
\* was computed from a pcap whose tcpdump had flushed it, and that reaches the end of
\* its transfer, however slowly its tcpdump came and went.
TrustedMeasurement ==
    \A t \in measured :
        Doubtful \cap (1 .. t) = {} => host[t] = "complete" /\ covers[t]

\* Until then there is never more than one tcpdump: the one the harness waits for is
\* the one it started, and no capture holds the packets of two transfers.
OneCapture == Doubtful = {} => Cardinality(Visible) <= 1

\* A failed transfer cuts the sweep short only if its tcpdump had died as well, or the
\* exec of pkill failed, whose check=True raises out of the finally
\* (packet_capture.py:154): "one failed transfer must not abort the rest of the sweep"
\* (benchmark_manager.py:110) holds of all others.
CutShort ==
    pc = "aborted" /\ transferFailed /\ Doubtful \subseteq {turn} =>
        tcpdump[turn] \in {"failed", "gone"} \/ turn \in execFailed

\* run_protocol comes to its end unless a client's process never does: no tcpdump that
\* dies, hangs or comes late, and no failed command, keeps it waiting.
SweepEnds == <>[](pc = "transfer") \/ <>[](Over /\ CutShort)
=============================================================================
