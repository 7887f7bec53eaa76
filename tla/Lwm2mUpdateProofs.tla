-------------------------- MODULE Lwm2mUpdateProofs --------------------------
(* Proofs about Lwm2mUpdate, for every campaign: what a transfer that meets  *)
(* no fault gets, although its flow shares the server's events and the       *)
(* device's address with the flows of the transfers before it.               *)
EXTENDS Lwm2mUpdate, TLAPS

\* a transfer that has not begun has no flow
Unbegun == \A t \in Transfers : t > device => flow[t] = "none"

\* A device that has met no fault is registered when it triggers, and has a flow
\* from its trigger on, which does not fail under it.
Served ==
    clean /\ pc # "off" =>
        /\ reply # "refused" /\ flow[device] # "failed"
        /\ pc # "register" \/ reply = "ok" => registered
        /\ pc \notin {"register", "trigger"} \/ (pc = "trigger" /\ reply = "ok") =>
              flow[device] # "none"

Waiting == {"awaitUpdated", "done"}

\* Without faults the flows that are over can only wait for Updated, which was
\* reported; so the flow of this device alone writes its uri and executes it.
Orderly ==
    faults = 0 =>
        /\ clean
        /\ \A t \in Transfers : t < device => rows[t] = "ok" /\ flow[t] \in Waiting
        /\ device > 1 => updated
        /\ pc = "off" /\ device # NoTransfer =>
              rows[device] = "ok" /\ flow[device] \in Waiting /\ updated
        /\ pc # "off" =>
              /\ pc = "register" \/ (pc = "trigger" /\ reply = "none") => flow[device] = "none"
              /\ flow[device] \in {"none", "put"} => uri = NoTransfer /\ <<device, "put">> \notin seen
              /\ flow[device] \notin {"none", "put"} => uri = device
              /\ executed => flow[device] \in Waiting
              /\ pc \in {"register", "trigger", "awaitUri"} \/ (uri = device /\ package = device)
              /\ pc \in {"final", "row"} => executed
              /\ pc \in Waits => reply = "none"
              /\ (pc = "final" /\ reply = "ok") \/ pc = "row" => updated

\* A package URI the device has, and the one it works with, came with the write of
\* a flow that has begun.
Written(t) == t # NoTransfer /\ t <= device /\ <<t, "put">> \in seen

Named ==
    /\ uri # NoTransfer => Written(uri)
    /\ pc \in {"download", "report", "awaitExecute", "final", "row"} => Written(package)

FlowInv == TypeOK /\ Unbegun /\ Named /\ Served /\ Orderly

----------------------------------------------------------------------------
\* A fault of any kind is counted, and the transfer under way is not clean.
LEMMA FaultFacts ==
    ASSUME TypeOK
    PROVE  /\ Fault => faults' \in 0 .. MaxFaults /\ faults' # 0 /\ clean' = FALSE
           /\ NoFault => faults' = faults /\ clean' = clean
           /\ NumTransfers \in Nat /\ NoTransfer \notin Transfers
           /\ device \in Nat /\ device + 1 # NoTransfer
<1>1. faults \in Nat /\ MaxFaults \in Nat /\ faults \in 0 .. MaxFaults /\ NumTransfers \in Nat
  BY FlowPlan DEF TypeOK
<1>2. device \in Nat /\ NoTransfer \notin Transfers
  BY <1>1 DEF TypeOK, Transfers, NoTransfer
<1> QED BY <1>1, <1>2 DEF Fault, NoFault, faultVars, NoTransfer

\* The device's steps keep the types.
LEMMA TypeDevice == ASSUME TypeOK, DeviceStep PROVE TypeOK'
<1> USE DEF Requests, Waits, FlowStates
<1>0. faults \in 0 .. MaxFaults /\ NumTransfers \in Nat /\ NoTransfer = 0
  BY FlowPlan DEF TypeOK, NoTransfer
<1>1. ASSUME StartDevice PROVE TypeOK'
  <2>1. device' \in Transfers /\ device' # NoTransfer
    BY <1>0, <1>1 DEF TypeOK, StartDevice, Transfers
  <2> QED BY <1>1, <2>1 DEF TypeOK, StartDevice, serverVars
<1>2. ASSUME Proceed PROVE TypeOK'
  <2>1. After[pc] \in Requests \cup Waits \cup {"row", "off"} /\ pc # "off"
    BY <1>2 DEF Proceed, After
  <2> QED BY <1>2, <2>1 DEF TypeOK, Proceed, deviceVars, serverVars, faultVars
<1>3. ASSUME WaitForPackageUri \/ WaitForExecute PROVE TypeOK'
  BY <1>3 DEF TypeOK, WaitForPackageUri, WaitForExecute, deviceVars, serverVars, faultVars
<1>4. ASSUME WriteRow PROVE TypeOK'
  BY <1>4 DEF TypeOK, WriteRow, deviceVars, serverVars, faultVars
<1>5. ASSUME DeviceFails PROVE TypeOK'
  <2>1. faults' \in 0 .. MaxFaults /\ clean' \in BOOLEAN
    <3>1. Fault \/ NoFault
      BY <1>5 DEF DeviceFails, TimesOut
    <3> QED BY <3>1, FaultFacts DEF TypeOK
  <2> QED BY <1>5, <2>1 DEF TypeOK, DeviceFails, deviceVars, serverVars
<1> QED BY <1>1, <1>2, <1>3, <1>4, <1>5 DEF DeviceStep

\* So do the server's resources.
LEMMA TypeResource == ASSUME TypeOK, Resource PROVE TypeOK'
<1> USE DEF Requests, Waits, FlowStates
<1>1. ASSUME Register \/ ServeFirmware PROVE TypeOK'
  BY <1>1 DEF TypeOK, Register, ServeFirmware, deviceVars, serverVars, faultVars
<1>2. ASSUME Trigger PROVE TypeOK'
  BY <1>2 DEF TypeOK, Trigger, deviceVars, faultVars
<1>3. ASSUME ReportState PROVE TypeOK'
  <2>1. downloaded' \in BOOLEAN /\ updated' \in BOOLEAN
    BY <1>3, Zenon DEF ReportState
  <2> QED BY <1>3, <2>1 DEF TypeOK, ReportState, deviceVars, faultVars
<1> QED BY <1>1, <1>2, <1>3 DEF Resource

\* So do the update flows, and a restart of the server.
LEMMA TypeFlow ==
    ASSUME TypeOK, ServerRestarts \/ \E t \in Transfers : Flow(t)
    PROVE  TypeOK'
<1> USE DEF Requests, Waits, FlowStates
<1>1. ASSUME ServerRestarts PROVE TypeOK'
  <2>1. faults' \in 0 .. MaxFaults /\ clean' \in BOOLEAN
    BY <1>1, FaultFacts DEF ServerRestarts
  <2> QED BY <1>1, <2>1 DEF TypeOK, ServerRestarts, deviceVars
<1>2. ASSUME NEW t \in Transfers, Flow(t) PROVE TypeOK'
  <2>0. /\ flow \in [Transfers -> FlowStates] /\ \A s \in FlowStates : FlowTo(t, s) =>
              flow' \in [Transfers -> FlowStates]
    BY DEF TypeOK, FlowTo
  <2>1. (Fault \/ NoFault) => faults' \in 0 .. MaxFaults /\ clean' \in BOOLEAN
    BY FaultFacts DEF TypeOK
  <2>2. ASSUME PutPackageUri(t) PROVE TypeOK'
    <3>1. flow' \in [Transfers -> FlowStates] /\ (Fault \/ NoFault)
      BY <2>0, <2>2 DEF PutPackageUri
    <3>2. uri' \in Transfers \cup {NoTransfer} /\ seen' \subseteq Transfers \X {"put", "execute"}
      BY <2>2 DEF TypeOK, PutPackageUri
    <3> QED BY <2>1, <2>2, <3>1, <3>2 DEF TypeOK, PutPackageUri
  <2>3. ASSUME WaitForDownloaded(t) \/ WaitForUpdated(t) PROVE TypeOK'
    <3>1. flow' \in [Transfers -> FlowStates]
      BY <2>0, <2>3 DEF WaitForDownloaded, WaitForUpdated
    <3> QED BY <2>3, <3>1 DEF TypeOK, WaitForDownloaded, WaitForUpdated, deviceVars, faultVars
  <2>4. ASSUME PostExecute(t) PROVE TypeOK'
    <3>1. flow' \in [Transfers -> FlowStates] /\ (Fault \/ NoFault)
      BY <2>0, <2>4 DEF PostExecute
    <3>2. seen' \subseteq Transfers \X {"put", "execute"}
      BY <2>4 DEF TypeOK, PostExecute
    <3> QED BY <2>1, <2>4, <3>1, <3>2 DEF TypeOK, PostExecute
  <2>5. ASSUME FlowFails(t) PROVE TypeOK'
    <3>1. flow' \in [Transfers -> FlowStates] /\ (Fault \/ NoFault)
      BY <2>0, <2>5 DEF FlowFails, TimesOut
    <3> QED BY <2>1, <2>5, <3>1 DEF TypeOK, FlowFails, deviceVars
  <2> QED BY <1>2, <2>2, <2>3, <2>4, <2>5 DEF Flow
<1> QED BY <1>1, <1>2

\* Every step keeps the types.
LEMMA TypeNext == TypeOK /\ [Next]_vars => TypeOK'
<1> SUFFICES ASSUME TypeOK, [Next]_vars PROVE TypeOK'
  OBVIOUS
<1>1. ASSUME Finished \/ UNCHANGED vars PROVE TypeOK'
  <2>1. UNCHANGED vars
    BY <1>1 DEF Finished
  <2> QED BY <2>1 DEF TypeOK, vars, deviceVars, serverVars, faultVars
<1> QED BY <1>1, TypeDevice, TypeResource, TypeFlow DEF Next

\* Every step keeps the names: only a flow that has begun writes a package URI, and
\* the process takes the one that was written.
LEMMA NamedNext == ASSUME FlowInv, [Next]_vars PROVE Named'
<1>0. /\ TypeOK /\ Unbegun /\ Named /\ NoTransfer = 0 /\ device \in Nat
      /\ \A t \in Transfers : t \in Nat \ {0}
  BY FaultFacts, FlowPlan DEF FlowInv, NoTransfer, Transfers
<1>1. ASSUME StartDevice PROVE Named'
  BY <1>0, <1>1 DEF StartDevice, Named
<1>2. ASSUME Proceed PROVE Named'
  <2>1. /\ \/ pc' \in {"trigger", "awaitUri"}
           \/ pc \in {"download", "report", "final"}
        /\ UNCHANGED <<device, uri, package, seen>>
    <3>1. /\ After["register"] = "trigger" /\ After["trigger"] = "awaitUri"
      BY DEF After
    <3> QED BY <1>2, <3>1 DEF Proceed, Requests, deviceVars
  <2> QED BY <1>0, <2>1 DEF Named, Written
<1>3. ASSUME WaitForPackageUri PROVE Named'
  BY <1>0, <1>3 DEF WaitForPackageUri, Named, Written
<1>4. ASSUME WaitForExecute \/ WriteRow \/ DeviceFails PROVE Named'
  BY <1>0, <1>4 DEF WaitForExecute, WriteRow, DeviceFails, deviceVars, Named, Written
<1>5. ASSUME Resource \/ ServerRestarts PROVE Named'
  BY <1>0, <1>5 DEF Resource, Register, Trigger, ServeFirmware, ReportState, ServerRestarts,
                    deviceVars, Named, Written
<1>6. ASSUME Finished \/ UNCHANGED vars PROVE Named'
  BY <1>0, <1>6 DEF Finished, vars, deviceVars, Named, Written
<1>7. ASSUME NEW t \in Transfers, PutPackageUri(t) PROVE Named'
  <2>1. t # NoTransfer /\ t <= device
    BY <1>0, <1>7 DEF PutPackageUri, Unbegun
  <2>2. /\ UNCHANGED <<device, pc, package>> /\ seen \subseteq seen'
        /\ uri' = uri \/ (uri' = t /\ <<t, "put">> \in seen')
    BY <1>7 DEF PutPackageUri
  <2> QED BY <1>0, <2>1, <2>2 DEF Named, Written
<1>8. ASSUME NEW t \in Transfers,
             WaitForDownloaded(t) \/ PostExecute(t) \/ WaitForUpdated(t) \/ FlowFails(t)
      PROVE  Named'
  <2>1. UNCHANGED <<device, pc, uri, package>> /\ seen \subseteq seen'
    BY <1>8 DEF WaitForDownloaded, PostExecute, WaitForUpdated, FlowFails, deviceVars
  <2> QED BY <1>0, <2>1 DEF Named, Written
<1> QED BY <1>1, <1>2, <1>3, <1>4, <1>5, <1>6, <1>7, <1>8 DEF Next, DeviceStep, Flow

----------------------------------------------------------------------------
Kept == Unbegun /\ Served /\ Orderly

\* The device's steps keep what is kept: without a fault it only fails when it was
\* refused or nothing comes any more, and a clean device is served.
LEMMA KeptDevice == ASSUME FlowInv, DeviceStep PROVE Kept'
<1>0. /\ TypeOK /\ Unbegun /\ Served /\ Orderly
      /\ flow \in [Transfers -> FlowStates] /\ rows \in [Transfers -> {"none", "ok", "corrupt"}]
  BY DEF FlowInv, TypeOK
<1>a. /\ NumTransfers \in Nat /\ Transfers = 1 .. NumTransfers /\ NoTransfer = 0
      /\ device \in 0 .. NumTransfers /\ (pc # "off" => device \in Transfers)
  BY <1>0, FlowPlan DEF TypeOK, Transfers, NoTransfer
<1>1. ASSUME StartDevice PROVE Kept'
  <2>1. /\ pc = "off" /\ device' = device + 1 /\ device' \in Transfers /\ pc' = "register"
        /\ reply' = "none" /\ uri' = NoTransfer /\ package' = NoTransfer /\ executed' = FALSE /\ seen' = {}
        /\ clean' = TRUE /\ UNCHANGED <<rows, flow, registered, downloaded, updated, faults>>
    BY <1>1, <1>a DEF StartDevice, serverVars
  <2>2. flow[device'] = "none"
    BY <1>0, <1>a, <2>1 DEF Unbegun
  <2>3. Unbegun' /\ Served'
    BY <1>0, <1>a, <2>1, <2>2 DEF Unbegun, Served
  <2>4. ASSUME faults = 0 PROVE /\ \A t \in Transfers : t < device' => rows[t] = "ok" /\ flow[t] \in Waiting
                                /\ device' > 1 => updated
    <3>1. device # 0 => rows[device] = "ok" /\ flow[device] \in Waiting /\ updated
      BY <1>0, <1>a, <2>1, <2>4 DEF Orderly
    <3> QED BY <1>0, <1>a, <2>1, <2>4, <3>1 DEF Orderly
  <2>5. Orderly'
    BY <2>1, <2>2, <2>4 DEF Orderly, Waiting, Waits
  <2> QED BY <2>3, <2>5 DEF Kept
<1>2. ASSUME Proceed PROVE Kept'
  <2>1. /\ pc \in Requests /\ reply = "ok" /\ pc' = After[pc] /\ reply' = "none"
        /\ UNCHANGED <<device, uri, package, executed, seen, rows, flow, registered, downloaded,
                       updated, faults, clean>>
    BY <1>2 DEF Proceed, deviceVars, serverVars, faultVars
  <2>2. \/ pc = "register" /\ pc' = "trigger"
        \/ pc = "trigger" /\ pc' = "awaitUri"
        \/ pc = "download" /\ pc' = "report"
        \/ pc = "report" /\ pc' = "awaitExecute"
        \/ pc = "final" /\ pc' = "row"
    <3>1. /\ After["register"] = "trigger" /\ After["trigger"] = "awaitUri"
          /\ After["download"] = "report" /\ After["report"] = "awaitExecute"
          /\ After["final"] = "row"
      BY DEF After
    <3> QED BY <2>1, <3>1 DEF Requests
  <2>3. Unbegun' /\ Served'
    BY <1>0, <2>1, <2>2 DEF Unbegun, Served
  <2>4. Orderly'
    BY <1>0, <2>1, <2>2 DEF Orderly, Served, Waits
  <2> QED BY <2>3, <2>4 DEF Kept
<1>3. ASSUME WaitForPackageUri \/ WaitForExecute PROVE Kept'
  <2>1. /\ \/ pc = "awaitUri" /\ uri # NoTransfer /\ pc' = "download" /\ package' = uri
           \/ pc = "awaitExecute" /\ executed /\ pc' = "final" /\ package' = package
        /\ UNCHANGED <<device, uri, executed, seen, reply, rows, flow, registered, downloaded,
                       updated, faults, clean>>
    BY <1>3 DEF WaitForPackageUri, WaitForExecute, deviceVars, serverVars, faultVars
  <2>2. Unbegun' /\ Served'
    BY <1>0, <2>1 DEF Unbegun, Served
  <2>4. Orderly'
    BY <1>0, <2>1 DEF Orderly, Waits
  <2> QED BY <2>2, <2>4 DEF Kept
<1>4. ASSUME WriteRow PROVE Kept'
  <2>1. /\ pc = "row" /\ pc' = "off"
        /\ rows' = [rows EXCEPT ![device] = IF Intact THEN "ok" ELSE "corrupt"]
        /\ UNCHANGED <<device, uri, package, executed, seen, reply, flow, registered, downloaded,
                       updated, faults, clean>>
    BY <1>4 DEF WriteRow, deviceVars, serverVars, faultVars
  <2>2. Unbegun' /\ Served'
    BY <1>0, <2>1 DEF Unbegun, Served
  <2>3. ASSUME faults = 0 PROVE rows'[device] = "ok" /\ flow[device] \in Waiting /\ updated
    <3>1. package = device /\ executed /\ updated /\ flow[device] \in Waiting
      BY <1>0, <2>1, <2>3 DEF Orderly
    <3> QED BY <1>0, <1>a, <2>1, <3>1 DEF Intact
  <2>4. \A t \in Transfers : t < device => rows'[t] = rows[t]
    BY <1>0, <1>a, <2>1
  <2>5. Orderly'
    BY <1>0, <2>1, <2>3, <2>4 DEF Orderly
  <2> QED BY <2>2, <2>5 DEF Kept
<1>5. ASSUME DeviceFails PROVE Kept'
  <2>1. /\ pc # "off" /\ pc' = "off"
        /\ UNCHANGED <<device, uri, package, executed, seen, rows, flow>>
    BY <1>5 DEF DeviceFails, Requests, deviceVars, serverVars
  <2>2. faults' # 0
    <3>1. Fault => faults' # 0
      BY <1>0, FaultFacts
    <3>2. ASSUME NoFault, faults = 0 PROVE FALSE
      <4>1. clean
        BY <1>0, <3>2 DEF Orderly
      <4>2. reply # "refused" /\ flow[device] # "failed" /\ (pc \in Waits => flow[device] # "none")
        BY <1>0, <2>1, <4>1 DEF Served, Waits
      <4>3. ~Fault
        BY <1>0, <3>2, FaultFacts
      <4> QED BY <1>5, <4>2, <4>3 DEF DeviceFails, TimesOut, NothingComes, Waits
    <3>3. Fault \/ NoFault
      BY <1>5 DEF DeviceFails, TimesOut
    <3> QED BY <1>0, <3>1, <3>2, <3>3, FaultFacts
  <2> QED BY <1>0, <2>1, <2>2 DEF Kept, Unbegun, Served, Orderly
<1> QED BY <1>1, <1>2, <1>3, <1>4, <1>5 DEF DeviceStep

\* The server's resources keep what is kept: only a device that is registered
\* triggers a flow.
LEMMA KeptResource == ASSUME FlowInv, Resource PROVE Kept'
<1>0. /\ TypeOK /\ Unbegun /\ Served /\ Orderly
      /\ flow \in [Transfers -> FlowStates]
  BY DEF FlowInv, TypeOK
<1>a. Transfers = 1 .. NumTransfers /\ NumTransfers \in Nat /\ (pc # "off" => device \in Transfers)
  BY <1>0, FlowPlan DEF TypeOK, Transfers
<1>1. ASSUME Register PROVE Kept'
  <2>1. /\ pc = "register" /\ reply = "none" /\ reply' = "ok" /\ registered' = TRUE
        /\ UNCHANGED <<device, pc, uri, package, executed, seen, rows, flow, downloaded, updated,
                       faults, clean>>
    BY <1>1 DEF Register, deviceVars, faultVars
  <2> QED BY <1>0, <2>1 DEF Kept, Unbegun, Served, Orderly, Waits
<1>2. ASSUME Trigger PROVE Kept'
  <2>1. /\ pc = "trigger" /\ reply = "none"
        /\ UNCHANGED <<device, pc, uri, package, executed, seen, rows, registered, downloaded, updated,
                       faults, clean>>
    BY <1>2 DEF Trigger, deviceVars, faultVars
  <2>2. CASE registered
    <3>1. flow' = [flow EXCEPT ![device] = "put"] /\ reply' = "ok"
      BY <1>2, <2>2 DEF Trigger
    <3>2. /\ flow'[device] = "put" /\ device \in Transfers
          /\ \A t \in Transfers : t # device => flow'[t] = flow[t]
      BY <1>0, <1>a, <2>1, <3>1
    <3>3. Unbegun' /\ Served'
      BY <1>0, <1>a, <2>1, <2>2, <3>1, <3>2 DEF Unbegun, Served
    <3>4. ASSUME faults = 0
          PROVE  uri = NoTransfer /\ <<device, "put">> \notin seen /\ ~executed
      BY <1>0, <2>1, <3>4 DEF Orderly, Waiting
    <3>5. \A t \in Transfers : t < device => flow'[t] = flow[t]
      BY <1>a, <2>1, <3>2
    <3>6. Orderly'
      BY <1>0, <2>1, <3>1, <3>2, <3>4, <3>5 DEF Orderly, Waits
    <3> QED BY <3>3, <3>6 DEF Kept
  <2>3. CASE ~registered
    <3>1. reply' = "refused" /\ flow' = flow /\ ~clean
      BY <1>0, <1>2, <2>1, <2>3 DEF Trigger, Served
    <3> QED BY <1>0, <2>1, <3>1 DEF Kept, Unbegun, Served, Orderly
  <2> QED BY <2>2, <2>3
<1>3. ASSUME ServeFirmware PROVE Kept'
  <2>1. /\ pc = "download" /\ reply' = "ok"
        /\ UNCHANGED <<device, pc, uri, package, executed, seen, rows, flow, registered, downloaded,
                       updated, faults, clean>>
    BY <1>3 DEF ServeFirmware, deviceVars, serverVars, faultVars
  <2> QED BY <1>0, <2>1 DEF Kept, Unbegun, Served, Orderly, Waits
<1>4. ASSUME ReportState PROVE Kept'
  <2>1. /\ pc \in {"report", "final"} /\ reply' = "ok"
        /\ UNCHANGED <<device, pc, uri, package, executed, seen, rows, flow, registered, faults, clean>>
    BY <1>4 DEF ReportState, deviceVars, faultVars
  <2>2. (downloaded => downloaded') /\ (updated => updated') /\ (pc = "final" /\ Intact => updated')
    BY <1>4, Zenon DEF ReportState
  <2>3. Unbegun' /\ Served'
    BY <1>0, <2>1, <2>2 DEF Unbegun, Served
  <2>4. ASSUME faults = 0 PROVE pc = "final" => updated'
    BY <1>0, <2>1, <2>2, <2>4 DEF Orderly, Intact
  <2>5. Orderly'
    BY <1>0, <2>1, <2>2, <2>4 DEF Orderly, Waits
  <2> QED BY <2>3, <2>5 DEF Kept
<1> QED BY <1>1, <1>2, <1>3, <1>4 DEF Resource

\* While there was no fault, a flow that is about to send is the flow of the device
\* that runs, and no flow fails.
LEMMA FlowOfDevice ==
    ASSUME FlowInv, faults = 0, NEW t \in Transfers
    PROVE  /\ flow[t] \in {"put", "awaitDownloaded", "execute"} => t = device /\ pc # "off"
           /\ flow[t] \in Waiting => updated \/ (t = device /\ pc # "off")
<1>1. TypeOK /\ Unbegun /\ Orderly /\ device \in Nat /\ t \in Nat \ {0} /\ NoTransfer = 0
  BY FaultFacts, FlowPlan DEF FlowInv, Transfers, NoTransfer
<1>2. CASE t > device
  BY <1>1, <1>2 DEF Unbegun, Waiting
<1>3. CASE t < device
  BY <1>1, <1>3 DEF Orderly, Waiting
<1>4. CASE t = device /\ pc = "off"
  BY <1>1, <1>4 DEF Orderly, Waiting
<1> QED BY <1>1, <1>2, <1>3, <1>4

\* The update flows keep what is kept: an Execute waits for a download, and only a
\* fault makes the flow of the running device fail.
LEMMA KeptFlow == ASSUME FlowInv, NEW t \in Transfers, Flow(t) PROVE Kept'
<1>0. /\ TypeOK /\ Unbegun /\ Served /\ Orderly
      /\ flow \in [Transfers -> FlowStates] /\ (Fault => faults' # 0 /\ clean' = FALSE)
      /\ (NoFault => faults' = faults /\ clean' = clean)
  BY FaultFacts DEF FlowInv, TypeOK
<1>a. Transfers = 1 .. NumTransfers /\ NumTransfers \in Nat /\ (pc # "off" => device \in Transfers)
  BY <1>0, FlowPlan DEF TypeOK, Transfers
<1>b. UNCHANGED <<device, pc, reply, rows, registered, downloaded, updated>>
  BY DEF Flow, PutPackageUri, WaitForDownloaded, PostExecute, WaitForUpdated, FlowFails,
         deviceVars
<1>c. \A s : FlowTo(t, s) => flow'[t] = s /\ \A u \in Transfers : u # t => flow'[u] = flow[u]
  BY <1>0 DEF FlowTo
<1>d. ASSUME NEW s, FlowTo(t, s), flow[t] # "none", s # "none", NoFault, s # "failed" \/ t # device \/ pc = "off"
      PROVE  Served'
  <2> SUFFICES ASSUME clean, pc # "off"
               PROVE  /\ reply # "refused" /\ flow'[device] # "failed"
                      /\ pc # "register" \/ reply = "ok" => registered
                      /\ flow'[device] # "none" \/ flow'[device] = flow[device]
    BY <1>0, <1>b, <1>d DEF Served
  <2>1. /\ reply # "refused" /\ flow[device] # "failed"
        /\ pc # "register" \/ reply = "ok" => registered
    BY <1>0 DEF Served
  <2>2. CASE t = device
    BY <1>c, <1>d, <2>1, <2>2
  <2>3. CASE t # device
    BY <1>a, <1>c, <1>d, <2>1, <2>3
  <2> QED BY <2>2, <2>3
<1>e. ASSUME NEW s, FlowTo(t, s), flow[t] # "none"
      PROVE  Unbegun'
  BY <1>0, <1>b, <1>c, <1>e DEF Unbegun
<1>g. ASSUME Fault, UNCHANGED flow PROVE Kept'
  BY <1>0, <1>b, <1>g DEF Kept, Unbegun, Served, Orderly
<1>1. ASSUME PutPackageUri(t) PROVE Kept'
  <2>1. flow[t] = "put" /\ executed' = executed /\ package' = package
    BY <1>1 DEF PutPackageUri
  <2>2. ASSUME FlowTo(t, "awaitDownloaded"), NoFault PROVE Kept'
    <3>1. Unbegun' /\ Served'
      BY <1>d, <1>e, <2>1, <2>2
    <3>2. SUFFICES ASSUME faults = 0 PROVE Orderly'
      BY <1>0, <2>2, <3>1 DEF Kept, Orderly
    <3>3. t = device /\ pc # "off"
      BY <2>1, <3>2, FlowOfDevice
    <3>4. <<t, "put">> \notin seen /\ ~executed
      BY <1>0, <2>1, <3>2, <3>3 DEF Orderly, Waiting
    <3>5. uri' = t
      BY <1>1, <3>4 DEF PutPackageUri
    <3>6. flow'[t] = "awaitDownloaded" /\ \A u \in Transfers : u < device => flow'[u] = flow[u]
      BY <1>a, <1>c, <2>2, <3>3
    <3> QED BY <1>0, <1>b, <2>1, <2>2, <3>2, <3>3, <3>4, <3>5, <3>6 DEF Orderly, Waits
  <2> QED BY <1>1, <1>g, <2>2 DEF PutPackageUri
<1>2. ASSUME WaitForDownloaded(t) PROVE Kept'
  <2>1. /\ flow[t] = "awaitDownloaded" /\ downloaded /\ FlowTo(t, "execute") /\ NoFault
        /\ UNCHANGED <<uri, package, executed, seen>>
    BY <1>2 DEF WaitForDownloaded, NoFault, deviceVars
  <2>2. Unbegun' /\ Served'
    BY <1>d, <1>e, <2>1
  <2>3. SUFFICES ASSUME faults = 0 PROVE Orderly'
    BY <1>0, <2>1, <2>2 DEF Kept, Orderly
  <2>4. t = device /\ pc # "off"
    BY <2>1, <2>3, FlowOfDevice
  <2>5. flow'[t] = "execute" /\ \A u \in Transfers : u < device => flow'[u] = flow[u]
    BY <1>a, <1>c, <2>1, <2>4
  <2> QED BY <1>0, <1>b, <2>1, <2>3, <2>4, <2>5 DEF Orderly, Waits, Waiting
<1>3. ASSUME PostExecute(t) PROVE Kept'
  <2>1. flow[t] = "execute" /\ executed' = TRUE /\ uri' = uri /\ package' = package
    BY <1>3 DEF PostExecute
  <2>2. ASSUME FlowTo(t, "awaitUpdated"), NoFault PROVE Kept'
    <3>1. Unbegun' /\ Served'
      BY <1>d, <1>e, <2>1, <2>2
    <3>2. SUFFICES ASSUME faults = 0 PROVE Orderly'
      BY <1>0, <2>2, <3>1 DEF Kept, Orderly
    <3>3. t = device /\ pc # "off"
      BY <2>1, <3>2, FlowOfDevice
    <3>4. flow'[t] = "awaitUpdated" /\ \A u \in Transfers : u < device => flow'[u] = flow[u]
      BY <1>a, <1>c, <2>2, <3>3
    <3> QED BY <1>0, <1>b, <2>1, <2>2, <3>2, <3>3, <3>4 DEF Orderly, Waits, Waiting
  <2> QED BY <1>3, <1>g, <2>2 DEF PostExecute
<1>4. ASSUME WaitForUpdated(t) PROVE Kept'
  <2>1. /\ flow[t] = "awaitUpdated" /\ updated /\ FlowTo(t, "done") /\ NoFault
        /\ UNCHANGED <<uri, package, executed, seen>>
    BY <1>4 DEF WaitForUpdated, NoFault, deviceVars
  <2>2. Unbegun' /\ Served'
    BY <1>d, <1>e, <2>1
  <2>3. flow'[t] = "done" /\ \A u \in Transfers : u # t => flow'[u] = flow[u]
    BY <1>c, <2>1
  <2>4. Orderly'
    <3>1. ASSUME NEW u \in Transfers
          PROVE  flow'[u] = flow[u] \/ (flow[u] = "awaitUpdated" /\ flow'[u] = "done")
      <4>1. CASE u = t
        BY <2>1, <2>3, <4>1
      <4>2. CASE u # t
        BY <2>3, <4>2
      <4> QED BY <4>1, <4>2
    <3>2. \A u \in Transfers : u < device /\ faults = 0 =>
             rows[u] = "ok" /\ flow'[u] \in Waiting
      BY <1>0, <3>1 DEF Orderly, Waiting
    <3>3. device = NoTransfer \/ device \in Transfers
      BY <1>0 DEF TypeOK
    <3>4. CASE device = NoTransfer
      <4>1. pc = "off"
        BY <1>0, <3>4 DEF TypeOK
      <4> QED BY <1>0, <1>b, <2>1, <3>2, <3>4, <4>1 DEF Orderly
    <3>5. CASE device \in Transfers
      <4>1. flow'[device] = flow[device] \/ (flow[device] = "awaitUpdated" /\ flow'[device] = "done")
        BY <3>1, <3>5
      <4> QED BY <1>0, <1>b, <2>1, <3>2, <4>1 DEF Orderly, Waits, Waiting
    <3> QED BY <3>3, <3>4, <3>5
  <2> QED BY <2>2, <2>4 DEF Kept
<1>5. ASSUME FlowFails(t) PROVE Kept'
  <2>1. FlowTo(t, "failed") /\ UNCHANGED <<uri, package, executed, seen>>
    BY <1>5 DEF FlowFails, deviceVars
  <2>2. \/ Fault
        \/ NoFault /\ flow[t] \in {"put", "execute"} /\ pc = "off"
        \/ NoFault /\ flow[t] = "awaitDownloaded" /\ Orphaned(t)
        \/ NoFault /\ flow[t] = "awaitUpdated" /\ ~updated /\ Orphaned(t)
    BY <1>5, Zenon DEF FlowFails, TimesOut
  <2>3. flow[t] \in {"put", "execute", "awaitDownloaded", "awaitUpdated"}
    BY <1>5, SMT DEF FlowFails
  <2>4. Unbegun'
    BY <1>e, <2>1, <2>3
  <2>5. CASE Fault
    BY <1>0, <2>4, <2>5 DEF Kept, Served, Orderly
  <2>6. CASE NoFault /\ (t # device \/ pc = "off") /\ faults # 0
    BY <1>0, <1>d, <2>1, <2>3, <2>4, <2>6 DEF Kept, Orderly
  <2>7. ASSUME NoFault, faults = 0 PROVE /\ ~(flow[t] \in {"put", "execute"} /\ pc = "off")
                                         /\ ~(flow[t] = "awaitDownloaded" /\ Orphaned(t))
                                         /\ ~(flow[t] = "awaitUpdated" /\ ~updated /\ Orphaned(t))
    BY <2>7, FlowOfDevice DEF Orphaned, Waiting
  <2> QED BY <2>2, <2>5, <2>6, <2>7 DEF Orphaned
<1> QED BY <1>1, <1>2, <1>3, <1>4, <1>5 DEF Flow

----------------------------------------------------------------------------
\* The initial state satisfies the invariant.
LEMMA FlowInit == Init => FlowInv
<1> SUFFICES ASSUME Init PROVE FlowInv
  OBVIOUS
<1>1. NoTransfer = 0 /\ \A t \in Transfers : t \in Nat \ {0}
  BY FlowPlan DEF NoTransfer, Transfers
<1>2. TypeOK
  <2>1. faults \in 0 .. MaxFaults
    BY FlowPlan DEF Init
  <2> QED BY <2>1 DEF Init, TypeOK, FlowStates
<1>3. Unbegun /\ Named /\ Served
  BY DEF Init, Unbegun, Named, Served
<1>4. Orderly
  BY <1>1 DEF Init, Orderly
<1> QED BY <1>2, <1>3, <1>4 DEF FlowInv

\* Every step preserves the invariant.
LEMMA FlowNext == FlowInv /\ [Next]_vars => FlowInv'
<1> SUFFICES ASSUME FlowInv, [Next]_vars PROVE FlowInv'
  OBVIOUS
<1>1. TypeOK'
  BY TypeNext DEF FlowInv
<1>2. ASSUME ServerRestarts PROVE Kept'
  <2>1. faults' # 0 /\ clean' = FALSE
    BY <1>2, FaultFacts DEF ServerRestarts, FlowInv
  <2>2. \A t \in Transfers : flow'[t] = "none"
    BY <1>2 DEF ServerRestarts
  <2> QED BY <2>1, <2>2 DEF Kept, Unbegun, Served, Orderly
<1>3. ASSUME Finished \/ UNCHANGED vars PROVE Kept'
  <2>1. UNCHANGED vars
    BY <1>3 DEF Finished
  <2> QED BY <2>1 DEF vars, deviceVars, serverVars, faultVars, FlowInv, Kept, Unbegun,
                      Served, Orderly
<1>4. Kept'
  BY <1>2, <1>3, KeptDevice, KeptResource, KeptFlow DEF Next
<1> QED BY <1>1, <1>4, NamedNext DEF Kept, FlowInv

\* The invariant holds in every reachable state.
THEOREM FlowInvariant == Spec => []FlowInv
<1> QED BY FlowInit, FlowNext, PTL DEF Spec

\* The device, the server and its flows keep to their types; a process that runs
\* belongs to a transfer.
THEOREM FlowTypeCorrect == Spec => []TypeOK
<1>1. FlowInv => TypeOK
  BY DEF FlowInv
<1> QED BY <1>1, FlowInvariant, PTL

\* FaultFreeCampaign: in a campaign of any length without a fault every device logs an
\* intact row, although downloaded_event and updated_event are never cleared and the
\* flows of earlier transfers still wait beside it.
THEOREM FaultFreeCampaignHolds == Spec => []FaultFreeCampaign
<1>1. FlowInv => FaultFreeCampaign
  <2> SUFFICES ASSUME FlowInv, faults = 0, pc = "off", NEW t \in 1 .. device
               PROVE  rows[t] = "ok"
    BY DEF FaultFreeCampaign
  <2>1. device \in Nat /\ device \in Transfers \cup {NoTransfer} /\ Transfers = 1 .. NumTransfers
        /\ NumTransfers \in Nat /\ NoTransfer = 0
    BY FaultFacts DEF FlowInv, TypeOK, Transfers, NoTransfer
  <2>2. t \in Transfers /\ (t < device \/ t = device) /\ device # NoTransfer
    BY <2>1
  <2> QED BY <2>2 DEF FlowInv, Orderly
<1> QED BY <1>1, FlowInvariant, PTL

\* CleanTransferLogsARow: a device process that itself meets no fault never ends without
\* its row, whatever earlier faults, restarts and left-over flows came before it, and the
\* row is "ok" unless the Package URI write of an earlier flow reached the process.
THEOREM CleanTransferLogsARowHolds == Spec => CleanTransferLogsARow
<1> DEFINE Logged == \/ rows'[device] = "ok"
                     \/ /\ rows'[device] = "corrupt"
                        /\ \E t \in Transfers : t < device /\ <<t, "put">> \in seen
<1>1. FlowInv /\ [Next]_vars => [clean' /\ pc # "off" /\ pc' = "off" => Logged]_vars
  <2> SUFFICES ASSUME FlowInv, [Next]_vars, clean', pc # "off", pc' = "off"
               PROVE  Logged
    OBVIOUS
  <2>0. TypeOK /\ Served /\ (Fault => clean' = FALSE) /\ (NoFault => clean' = clean)
    BY FaultFacts DEF FlowInv
  <2>1. WriteRow \/ DeviceFails
    <3>1. ASSUME StartDevice \/ Resource \/ ServerRestarts \/ Finished \/ UNCHANGED vars
                 \/ \E t \in Transfers : Flow(t)
          PROVE  pc = "off" \/ pc' = pc
      BY <3>1 DEF StartDevice, Resource, Register, Trigger, ServeFirmware, ReportState,
                  ServerRestarts, Finished, vars, Flow, PutPackageUri, WaitForDownloaded,
                  PostExecute, WaitForUpdated, FlowFails
    <3>2. ASSUME Proceed PROVE pc' # "off"
      <4>1. pc \in Requests /\ pc' = After[pc]
        BY <3>2 DEF Proceed
      <4> QED BY <4>1 DEF Requests, After
    <3>3. ASSUME WaitForPackageUri \/ WaitForExecute PROVE pc' # "off"
      BY <3>3 DEF WaitForPackageUri, WaitForExecute
    <3> QED BY <3>1, <3>2, <3>3 DEF Next, DeviceStep
  <2>2. ASSUME DeviceFails PROVE FALSE
    <3>1. NoFault /\ clean
      BY <2>0, <2>2 DEF DeviceFails, TimesOut
    <3>2. reply # "refused" /\ flow[device] # "failed" /\ (pc \in Waits => flow[device] # "none")
      BY <2>0, <3>1 DEF Served, Waits
    <3> QED BY <2>0, <2>2, <3>2 DEF DeviceFails, TimesOut, NothingComes, Waits
  <2>3. ASSUME WriteRow PROVE Logged
    <3>1. /\ device \in Transfers /\ package \in Transfers
          /\ (package # device => package < device)
          /\ <<package, "put">> \in seen
      <4>1. /\ device \in Transfers /\ package \in Transfers \cup {NoTransfer} /\ Written(package)
            /\ Transfers = 1 .. NumTransfers /\ NumTransfers \in Nat
        BY <2>0, <2>3, FlowPlan DEF TypeOK, WriteRow, FlowInv, Named, Transfers
      <4> QED BY <4>1 DEF Written
    <3>2. rows'[device] = IF Intact THEN "ok" ELSE "corrupt"
      BY <2>0, <2>3, <3>1 DEF WriteRow, TypeOK
    <3>3. ~Intact => package # device
      BY DEF Intact
    <3>4. CASE Intact
      BY <3>2, <3>4
    <3>5. CASE ~Intact
      <4>1. rows'[device] = "corrupt"
        BY <3>2, <3>5
      <4>2. package < device
        BY <3>1, <3>3, <3>5
      <4> QED BY <3>1, <4>1, <4>2
    <3> QED BY <3>4, <3>5
  <2> QED BY <2>1, <2>2, <2>3
<1> QED BY <1>1, FlowInvariant, PTL DEF Spec, CleanTransferLogsARow
=============================================================================
