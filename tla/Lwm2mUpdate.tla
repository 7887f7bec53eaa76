----------------------------- MODULE Lwm2mUpdate -----------------------------
(***************************************************************************)
(* The LwM2M firmware-update flow: the device process that the harness      *)
(* starts for every transfer (lwm2m_client.py), the update flows that its   *)
(* triggers start in the one server process (lwm2m_server.py), and the      *)
(* requests between them.                                                   *)
(*                                                                         *)
(* The server addresses a device by host and port only, and every device    *)
(* process binds the same ones: a request of an old flow that is still      *)
(* retransmitted reaches whichever process listens.  The requests are       *)
(* confirmable; aiocoap retransmits them and answers a duplicate from the   *)
(* exchange history of the process that handled it.                         *)
(*                                                                         *)
(* A package URI is kept as the transfer whose flow wrote it, a payload as  *)
(* its file.  A fault is a lost or late message or a server restart;        *)
(* everything else happens in time.                                         *)
(***************************************************************************)
EXTENDS Naturals

CONSTANTS
    Files,          \* firmware files
    NumTransfers,   \* transfers of the campaign, one after another
    FileOf,         \* the file of each transfer
    MaxFaults       \* bound on the faults

Transfers == 1 .. NumTransfers
NoTransfer == 0

ASSUME FlowPlan ==
    /\ NumTransfers \in Nat
    /\ FileOf \in [Transfers -> Files]
    /\ MaxFaults \in Nat

VARIABLES
    device,     \* the transfer of the last device process
    pc,         \* where that process is, "off" when it has ended
    reply,      \* the server's answer to the device's pending request
    uri,        \* package_uri; package_uri_event is set once it is a transfer
    package,    \* the package URI the process took from its wait and works with
    executed,   \* execute_event of the device
    seen,       \* requests in the exchange history of the device
    rows,       \* client row of each transfer
    flow,       \* the update flow of each transfer
    registered, \* registry["remote"] is known
    downloaded, \* downloaded_event
    updated,    \* updated_event
    faults,     \* faults so far
    clean       \* no fault since the device process started

deviceVars == <<device, uri, package, executed, seen>>
serverVars == <<flow, registered, downloaded, updated>>
faultVars == <<faults, clean>>
vars == <<deviceVars, pc, reply, rows, serverVars, faultVars>>

Requests == {"register", "trigger", "download", "report", "final"}
Waits == {"awaitUri", "awaitExecute"}
FlowStates == {"none", "put", "awaitDownloaded", "execute", "awaitUpdated", "done", "failed"}

TypeOK ==
    /\ device \in Transfers \cup {NoTransfer}
    /\ pc \in Requests \cup Waits \cup {"row", "off"}
    /\ reply \in {"none", "ok", "refused"}
    /\ uri \in Transfers \cup {NoTransfer}
    /\ package \in Transfers \cup {NoTransfer}
    /\ executed \in BOOLEAN
    /\ seen \subseteq Transfers \X {"put", "execute"}
    /\ rows \in [Transfers -> {"none", "ok", "corrupt"}]
    /\ flow \in [Transfers -> FlowStates]
    /\ registered \in BOOLEAN /\ downloaded \in BOOLEAN /\ updated \in BOOLEAN
    /\ faults \in 0 .. MaxFaults
    /\ clean \in BOOLEAN
    /\ pc # "off" => device # NoTransfer

Init ==
    /\ device = NoTransfer /\ pc = "off" /\ reply = "none"
    /\ uri = NoTransfer /\ package = NoTransfer /\ executed = FALSE /\ seen = {}
    /\ rows = [t \in Transfers |-> "none"]
    /\ flow = [t \in Transfers |-> "none"]
    /\ registered = FALSE /\ downloaded = FALSE /\ updated = FALSE
    /\ faults = 0 /\ clean = TRUE

Fault == faults < MaxFaults /\ faults' = faults + 1 /\ clean' = FALSE
NoFault == UNCHANGED faultVars

\* a timeout that is due because what it waits for cannot come any more, or
\* one that fires early
TimesOut(due) == Fault \/ (due /\ NoFault)

\* The payload is downloaded and hashed once, from the URI that was read then; a
\* write that arrives later changes nothing.
Intact == FileOf[package] = FileOf[device]

----------------------------------------------------------------------------
(* The device: one process per transfer *)

\* Mutants of StartDevice: the state of the last process is kept; one transfer
\* too many.
StartDeviceStale ==
    /\ pc = "off" /\ device < NumTransfers
    /\ device' = device + 1
    /\ pc' = "register" /\ reply' = "none"
    /\ clean' = TRUE
    /\ UNCHANGED <<uri, package, executed, seen, rows, serverVars, faults>>

StartDeviceOnceMore ==
    /\ pc = "off" /\ device <= NumTransfers
    /\ device' = device + 1
    /\ pc' = "register" /\ reply' = "none"
    /\ uri' = NoTransfer /\ package' = NoTransfer /\ executed' = FALSE /\ seen' = {}
    /\ clean' = TRUE
    /\ UNCHANGED <<rows, serverVars, faults>>

StartDevice ==
    /\ pc = "off" /\ device < NumTransfers
    /\ device' = device + 1
    /\ pc' = "register" /\ reply' = "none"
    /\ uri' = NoTransfer /\ package' = NoTransfer /\ executed' = FALSE /\ seen' = {}
    /\ clean' = TRUE
    /\ UNCHANGED <<rows, serverVars, faults>>

\* what follows the answer to each request
After == [register |-> "trigger", trigger |-> "awaitUri", download |-> "report",
          report |-> "awaitExecute", final |-> "row"]

Proceed ==
    /\ pc \in Requests /\ reply = "ok"
    /\ pc' = After[pc]
    /\ reply' = "none"
    /\ UNCHANGED <<deviceVars, rows, serverVars, faultVars>>

WaitForPackageUri ==
    /\ pc = "awaitUri" /\ uri # NoTransfer
    /\ package' = uri
    /\ pc' = "download"
    /\ UNCHANGED <<device, uri, executed, seen, reply, rows, serverVars, faultVars>>

WaitForExecute ==
    /\ pc = "awaitExecute" /\ executed
    /\ pc' = "final"
    /\ UNCHANGED <<deviceVars, reply, rows, serverVars, faultVars>>

WriteRow ==
    /\ pc = "row"
    /\ rows' = [rows EXCEPT ![device] = IF Intact THEN "ok" ELSE "corrupt"]
    /\ pc' = "off"
    /\ UNCHANGED <<deviceVars, reply, serverVars, faultVars>>

\* Mutant of NothingComes: the device waits without a timeout.
WaitsForever == FALSE

\* no flow that is still to serve this device
NothingComes == flow[device] \in {"none", "failed"}

\* an exception ends the process: the server refused, a request was not
\* answered, or one of the two waits ran out
DeviceFails ==
    /\ \/ pc \in Requests /\ reply = "refused" /\ NoFault
       \/ pc \in Requests /\ reply # "refused" /\ Fault
       \/ pc = "awaitUri" /\ uri = NoTransfer /\ TimesOut(NothingComes)
       \/ pc = "awaitExecute" /\ ~executed /\ TimesOut(NothingComes)
    /\ pc' = "off" /\ reply' = "none"
    /\ UNCHANGED <<deviceVars, rows, serverVars>>

----------------------------------------------------------------------------
(* The server's resources.  A handler answers the device's pending request. *)

Register ==
    /\ pc = "register" /\ reply = "none"
    /\ registered' = TRUE
    /\ reply' = "ok"
    /\ UNCHANGED <<deviceVars, pc, rows, flow, downloaded, updated, faultVars>>

\* Mutant of Trigger: one update flow at a time.
TriggerUnlessBusy ==
    /\ pc = "trigger" /\ reply = "none"
    /\ IF registered
       THEN /\ flow' = IF \E t \in Transfers : flow[t] = "awaitDownloaded"
                      THEN flow ELSE [flow EXCEPT ![device] = "put"]
            /\ reply' = "ok"
       ELSE reply' = "refused" /\ UNCHANGED flow
    /\ UNCHANGED <<deviceVars, pc, rows, registered, downloaded, updated, faultVars>>

Trigger ==
    /\ pc = "trigger" /\ reply = "none"
    /\ IF registered
       THEN flow' = [flow EXCEPT ![device] = "put"] /\ reply' = "ok"
       ELSE reply' = "refused" /\ UNCHANGED flow
    /\ UNCHANGED <<deviceVars, pc, rows, registered, downloaded, updated, faultVars>>

ServeFirmware ==
    /\ pc = "download" /\ reply = "none"
    /\ reply' = "ok"
    /\ UNCHANGED <<deviceVars, pc, rows, serverVars, faultVars>>

\* states 2 and 1 set their event, which nothing clears; state 5 sets none
ReportState ==
    /\ pc \in {"report", "final"} /\ reply = "none"
    /\ reply' = "ok"
    /\ downloaded' = (downloaded \/ pc = "report")
    /\ updated' = (updated \/ (pc = "final" /\ Intact))
    /\ UNCHANGED <<deviceVars, pc, rows, flow, registered, faultVars>>

----------------------------------------------------------------------------
(* The update flow of transfer t *)

FlowTo(t, state) == flow' = [flow EXCEPT ![t] = state]

\* the device that listens handles the Package URI write; when its answer is
\* lost the flow goes on retransmitting
PutPackageUri(t) ==
    /\ flow[t] = "put" /\ pc # "off"
    /\ IF <<t, "put">> \in seen THEN UNCHANGED <<uri, seen>>
       ELSE uri' = t /\ seen' = seen \cup {<<t, "put">>}
    /\ \/ FlowTo(t, "awaitDownloaded") /\ NoFault
       \/ <<t, "put">> \notin seen /\ UNCHANGED flow /\ Fault
    /\ UNCHANGED <<device, package, executed, pc, reply, rows, registered, downloaded, updated>>

WaitForDownloaded(t) ==
    /\ flow[t] = "awaitDownloaded" /\ downloaded
    /\ FlowTo(t, "execute")
    /\ UNCHANGED <<deviceVars, pc, reply, rows, registered, downloaded, updated, faultVars>>

PostExecute(t) ==
    /\ flow[t] = "execute" /\ pc # "off"
    /\ executed' = TRUE
    /\ seen' = seen \cup {<<t, "execute">>}
    /\ \/ FlowTo(t, "awaitUpdated") /\ NoFault
       \/ <<t, "execute">> \notin seen /\ UNCHANGED flow /\ Fault
    /\ UNCHANGED <<device, uri, package, pc, reply, rows, registered, downloaded, updated>>

WaitForUpdated(t) ==
    /\ flow[t] = "awaitUpdated" /\ updated
    /\ FlowTo(t, "done")
    /\ UNCHANGED <<deviceVars, pc, reply, rows, registered, downloaded, updated, faultVars>>

\* Mutant of Orphaned: the flow's waits have no timeout.
NeverOrphaned(t) == FALSE

\* the flow's device process has ended
Orphaned(t) == device # t \/ pc = "off"

\* a request is not answered, or finds the port closed, or a wait for an event
\* runs out
FlowFails(t) ==
    /\ \/ flow[t] \in {"put", "execute"} /\ TimesOut(pc = "off")
       \/ flow[t] = "awaitDownloaded" /\ ~downloaded /\ TimesOut(Orphaned(t))
       \/ flow[t] = "awaitUpdated" /\ ~updated /\ TimesOut(Orphaned(t))
    /\ FlowTo(t, "failed")
    /\ UNCHANGED <<deviceVars, pc, reply, rows, registered, downloaded, updated>>

\* the server process is restarted: its registry and its flows are gone
ServerRestarts ==
    /\ Fault
    /\ registered' = FALSE /\ downloaded' = FALSE /\ updated' = FALSE
    /\ flow' = [t \in Transfers |-> "none"]
    /\ UNCHANGED <<deviceVars, pc, reply, rows>>

DeviceStep ==
    StartDevice \/ Proceed \/ WaitForPackageUri \/ WaitForExecute \/ WriteRow \/ DeviceFails
Resource == Register \/ Trigger \/ ServeFirmware \/ ReportState
Flow(t) ==
    \/ PutPackageUri(t) \/ WaitForDownloaded(t) \/ PostExecute(t)
    \/ WaitForUpdated(t) \/ FlowFails(t)

Finished ==
    /\ pc = "off" /\ device = NumTransfers
    /\ \A t \in Transfers : flow[t] \in {"none", "done", "failed"}
    /\ UNCHANGED vars

Next ==
    \/ DeviceStep \/ Resource \/ ServerRestarts \/ Finished
    \/ \E t \in Transfers : Flow(t)

Spec == Init /\ [][Next]_vars

\* The event loops run every ready task.  Neither can be obliged to a fault.
FairSpec ==
    /\ Spec
    /\ WF_vars(NoFault /\ DeviceStep) /\ WF_vars(StartDevice) /\ WF_vars(Resource)
    /\ \A t \in Transfers : WF_vars(NoFault /\ Flow(t))

----------------------------------------------------------------------------
\* Without a fault every transfer of the campaign is logged, and as intact,
\* although all of them share the server's events and the device's address.
FaultFreeCampaign ==
    faults = 0 /\ pc = "off" => \A t \in 1 .. device : rows[t] = "ok"

\* The flow recovers: a transfer that itself meets no fault ends with a row,
\* whatever flows of earlier transfers are still running.  The row says that the
\* file is intact, unless the Package URI write of an earlier flow, still being
\* retransmitted, reached this device too.
CleanTransferLogsARow ==
    [][clean' /\ pc # "off" /\ pc' = "off" =>
          \/ rows'[device] = "ok"
          \/ /\ rows'[device] = "corrupt"
             /\ \E t \in Transfers : t < device /\ <<t, "put">> \in seen]_vars

\* No device process hangs: its waits end, by an event or by their timeout,
\* also when the server was restarted under it.
EveryTransferEnds ==
    \A t \in Transfers : (device = t /\ pc # "off") ~> (device = t /\ pc = "off")

\* No flow task stays in the server for good.
EveryFlowEnds ==
    \A t \in Transfers : flow[t] = "put" ~> flow[t] \in {"none", "done", "failed"}

\* lwm2m_server.py:12-14, the order the server promises to act in: it "waits
\* for the Downloaded state report (PUT /rd/1/5/0/3 = 2)" and then sends the
\* Update Execute, so a device is executed only after its own report.
ExecuteAfterDownload ==
    executed => \/ pc = "report" /\ reply = "ok"
                \/ pc \in {"awaitExecute", "final", "row", "off"}
=============================================================================
