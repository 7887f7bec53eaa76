# Formal models of the AI model deployment protocol testbed

TLA+ models of the testbed that sends binary model files over MQTT, AMQP, HTTP,
CoAP, gRPC and LwM2M and measures every transfer; TLC checks them on small
instances, and TLAPS proves the main safety properties of eight of them for every
value of their constants. Line numbers are those of `src/`.

## 1. The system and its parts

| Part | State it keeps | Operations | Interacts with |
|---|---|---|---|
| Chunked file receiver (`client_b.py`, `amqp_receiver.py`) | module globals: file name, expected chunks and checksum, open handle, received count | metadata handler, chunk handler, completion handler | broker callbacks, output file, CSV |
| AMQP transfer (`amqp_client.py`, `amqp_receiver.py`) | two RabbitMQ queues, unacknowledged deliveries, sampler thread | publish with confirms, consume, acknowledge | broker, receiver |
| MQTT transfer (`client_a.py`, `client_b.py`) | paho outbox, `metadata_mid`, `metadata_ack_event`, subscriber queue | publish, wait with timeouts, `on_publish`, reconnect | network thread, broker, receiver |
| gRPC upload service (`grpc_server.py`, `grpc_client.py`) | worker pool, one handler per RPC, `.part` and final paths | stream in, verify, publish or discard, answer | clients with deadlines, file system |
| LwM2M update (`lwm2m_server.py`, `lwm2m_client.py`) | registry, three-state events that are set once, one update flow per trigger; the device's URI and execute events | register, trigger, Package URI, pull, report, execute | both ends send requests to each other |
| Capture and sweep (`benchmark_manager.py`, `packet_capture.py`) | one tcpdump at a time, transfer loop | start, wait until ready, transfer, stop, copy, analyse | Docker, client processes |
| Run registry (`runs.py`, `runner.py`, `write_csv.py`, `benchmark_manager.py`) | run directories, `.active_run` marker, `RUN_ID`, CSV files | new run, write and clear marker, up and down, append a row | harness and every container, through the bind mount |
| CoAP, HTTP (`coap_*.py`, `http_client.py`, `flask_server.py`, `file_manager.py`) | the saved files; a thread per HTTP request; aiocoap's exchanges, block assembly and answer history | PUT, verify, save in place, answer; CoAP attempts and repeats | network, file system, harness |
| Pcap analysis (`pcap_analyzer.py`) | none, computed from one capture | frame and byte counts, retransmissions, incomplete-capture warning | captures, pcap rows |
| Charts (`charts.py`) | none, computed from the CSV files | merge runs, select a side, filter, group, aggregate, error band | run registry, matplotlib |
| Network emulation (`network_chaos.sh`) | a queueing discipline per container | loses, duplicates, delays | everything above |
| Resource monitor, payload generator | a sampler thread; none | | |

What is hard in it, and what a right answer is:

* **Receivers** attribute a chunk to the metadata they saw last. A chunk lost,
  repeated, late or early must never produce a row that says "intact" of a file
  that is not; a file that arrived whole must be called intact.
* **AMQP**: two queues on one channel under a prefetch window, so that the
  control message of the next transfer may overtake chunks; refused publishes,
  lost connections, a receiver killed before its acknowledgement arrives.
* **MQTT**: the network thread runs `on_publish` against the main thread;
  waits time out silently; reconnects repeat messages; a clean session forgets.
* **gRPC**: handlers of one name share paths; cancelled RPCs, deadlines that
  pass while a file is published, fewer workers than uploads, a killed server.
* **LwM2M**: flows of dead devices live on beside the next device, which has the
  same address; events stay set; the server may restart under a waiting device.
* **HTTP, CoAP**: the file is written under its final name; a client may be gone
  while its server thread still saves; an attempt that timed out is still under
  way during the next; the server is not started again when it dies. A row that
  says ok must be true of the file.
* **Pcap analysis**: repeats are told by their message ID, which comes round again
  in a long transfer and which netem duplicates too; frames are missing that were
  lost before the capture or dropped by it. A counter must be explained by what
  happened on the wire.
* **Charts**: rows of several runs, sides and QoS levels are merged; values of two
  sides must never be averaged. (A band that is not around its aggregate is a negative
  error bar, which raises.)
* **Harness**: tcpdump is seen by its name only; it may appear late, die, or not
  exit; Docker commands fail; the sweep must go on and a measurement be whole.
* **Registry**: every row finds its file by reading a marker the host rewrites,
  in several steps, from several containers, some of which lag behind.

`PROJECT.json` lists each such hazard at its line with the properties that cover
it, or why none does.

## 2. Modules

| Module | Models | Used by |
|---|---|---|
| `FileReceiver` | the receiver shared by MQTT and AMQP, in an environment that hands it anything in any order, and restarts it | extended by the two transfers |
| `FileReceiverProofs` | theorems about it | |
| `AmqpTransfer`, `MCAmqpTransfer` | client, broker and receiver of AMQP | runs `amqp`, `amqp_tail` |
| `AmqpTransferProofs` | theorems about it | |
| `MqttTransfer`, `MCMqttTransfer` | both threads of the sender, broker and receiver of MQTT | `mqtt`, `mqtt_ack_race` |
| `MqttTransferProofs` | theorems about it | |
| `GrpcUpload`, `MCGrpcUpload` | upload handlers, their clients and the file names | `grpc`, `grpc_overlap` |
| `GrpcUploadProofs` | theorems about it | |
| `UploadService` | abstract: what the gRPC, HTTP and CoAP servers promise | instantiated by `GrpcUpload` and `DirectUpload` |
| `DirectUpload`, `MCDirectUpload` | HTTP and CoAP transfers: client, server, network, capture and harness | `upload` |
| `PcapAnalyzer` | the pcap analysis, as operators on a bag of frames | extended by `DirectUpload` |
| `DirectUploadProofs` | theorems about both | |
| `Charts`, `MCCharts` | how logged rows become the groups of a chart | `charts` |
| `Lwm2mUpdate`, `MCLwm2mUpdate` | device processes, server resources, update flows | `lwm2m`, `lwm2m_order` |
| `Lwm2mUpdateProofs` | theorems about it | |
| `CaptureRun` | the transfer loop of the harness and its tcpdump processes | `capture` |
| `CaptureRunProofs` | theorems about it | |
| `RunRegistry`, `MCRunRegistry` | experiments, manual invocations, the marker and the writers of rows | `registry` |
| `RunRegistryProofs` | theorems about it | |

`map` in `PROJECT.json` gives the lines of every definition. An operator whose
comment calls it a mutant of another is not part of the model: it is a plausible
bug, and each property is known to fail when it takes the other's place.

### How state and actions correspond to the code

**FileReceiver.** `current` stands for `current_filename`, `expected_chunks` and
`expected_checksum`, which are only overwritten together. `open` and `received`
are the handle and the count. A chunk is a pair of file and position, a checksum
the content it was taken of. The handle has Python's write buffer: a chunk that
fits in it (`SmallTail`) may not be on disk yet when the completion handler
hashes the file, because the code closes the handle after hashing
(`amqp_receiver.py:156`, `client_b.py:144`). `OnControl`, `StoreChunk`,
`DropChunk` and `CompleteTransfer` are the whole handlers, with the warning that
is composed after the globals changed. A handler runs to its end unless the process
is killed in it: `KilledInControl`, `KilledBeforeRow` and `KilledBeforeClose` are
what is left of one that was, the last of them with a row written and its buffer
lost.

**AmqpTransfer.** `ctrl` and `data` are the queues, `pushed` the order in which
their messages were pushed to the receiver's channel, `handled` how many of
those it has handled: a message leaves its queue when its acknowledgement
arrives, not when it is handled, so a killed receiver is handed it again. The
campaign (prefetch, whether the next client may start while the receiver is
busy, which faults may happen) is chosen in the initial state, so one run covers
several. RabbitMQ is external: it pushes as long as the window of that queue
allows. Neither the code nor a compose file starts a dead receiver again, so
`ReceiverComesBack` is a step that may be taken and is never owed. `samplers` counts the resource monitors that were started and not
stopped.

**MqttTransfer.** `pc` is the main thread of `client_a.py`; `BrokerTakes` and
`OnPublish` are its network thread. `assign` is the point between the return of
`publish` and the assignment of `metadata_mid`. Every wait may end with or
without its event. When a client ends (`SenderFinishes`), some of the messages that
paho has transmitted and the broker has not taken still get there: `loop_stop`
drains to the socket, and the kernel goes on after the process. They are in `late`
and come to the broker in their order, at any time, beside those of the later
clients (`BrokerTakesLate`); the rest is lost and the transfer `abandoned`. paho and
mosquitto are external: they retransmit after a reconnect, forget the queue of a
clean session, and drop what finds a full one. A receiver that lost its link
connects again (`OnConnect`); one that died comes back only if somebody starts it.
`disturbed` is set when messages to the receiver were lost or repeated, or when one
of an ended client comes behind one of a later client: what it may do then is not
claimed to be right, except that its rows are true of its files.

**GrpcUpload.** Paths and files are told apart: a handle writes to an inode, and
`os.replace` and `os.remove` act on whatever is at the path by then. An inode
holds the set of positions whose bytes are the ones the checksum was taken of.
`Discipline` says when a file may be sent again: after its last handler has
ended (`"handler"`) or after its last client has (`"client"`, which is all the
harness waits for).

**UploadService.** `shown` is the set of names that show a whole file, `told` what
each client concludes. `InPlace` tells the two kinds of service apart: one that
renames a finished file (gRPC) only ever adds to `shown`; one that opens the final
name (`save_file`) takes a name out of it in `Begin` and brings it back in
`Store`, and only promises a client that was told ok that its file is shown or
that another upload of the name has begun since. Both detailed modules state
`ImplementsUpload == Upload!Spec` under an `INSTANCE ... WITH` that computes these
variables from their own.

**DirectUpload.** The sweep's protocol is chosen in the initial state. `up` and
`down` are bags of CoAP messages under way; `exchange`, `sent` and `resends` are
aiocoap's current exchange, `attempt` the client's loop, `assembled` and `history`
what the server's aiocoap keeps. An HTTP transfer has its server thread in
`handler`, which lives on when the client's connection breaks. `file` is what a
name shows: nothing, a file that was opened and not yet written (`cut`), a whole
file, or what a failed write left. The server does not come back when it dies
(the compose file has no restart policy for it), and since the capture shares its
network, no further transfer starts. `pcap` is the bag of captured frames, taken
where tcpdump sits: after netem lost or duplicated what the client sent. `tally`
records what really happened to the messages of the transfer, for the properties
to compare with what the analysis finds.

**PcapAnalyzer.** `ConCounts` is `con_counts`, `Retransmissions` both branches of
the count, `Analysis` the part of the logged row the properties are about.

**Charts.** What was logged is a bag of rows, since order plays no part. `Charted`
is `_collect`; `SideValues` and `EffectiveSide` are the choice of `--side auto`;
`Groups` are the points of its series.
A second header, which `CsvWellFormed` of
`RunRegistry` says MQTT and AMQP files may have, is a row of its own.

**Lwm2mUpdate.** `device` is the transfer whose process listens at the one
client address; `flow[t]` the server task that the trigger of `t` started. A
Package URI write or an Execute is handled by whichever process listens, and
`seen` is that process's exchange history, which absorbs duplicates. `package` is the
Package URI the process took from its wait, which it downloads and verifies; a later
write changes `uri` only. A fault is
a lost or late message or a server restart; `TimesOut` lets a timeout fire
freely when what it waits for cannot come any more, and only as a fault
otherwise.

**CaptureRun.** Each transfer has its own tcpdump, in the states it passes
through; the harness sees them through `Visible` only, as `pgrep -x tcpdump`
does, and stops them all, as `pkill` does. It looks at the exit status of
`docker compose exec` alone, so an exec that fails (`execFailed`) raises in
`StopTcpdump`, whether or not the signal was sent, and passes for the exit of tcpdump
in `WaitForExit`. `Doubtful` are the transfers with a WARNING or such a failure.

**RunRegistry.** A session is an experiment of `runner.py` or an invocation of
`benchmark_manager.py`. A row is written in four steps: find the directory
(`_measurement_file`), look for a header, read the run id (`_meta_row`), append.
Client and receiver containers read the marker, the harness its `RUN_ID`.
`outlived` records sessions over while a writer of theirs was still at work.

## 3. Runs

| Run | Result | What it shows |
|---|---|---|
| `amqp` | holds, 86 514 states | Under refused publishes, lost connections and receivers killed between or inside their handlers: no row is wrong (`IntegritySound`, `IntactReported`), a row is written exactly when the file gets as many chunks as announced, if there are any and the receiver is not killed at it (`RowCountsTheFile`), an orderly campaign judges every confirmed transfer once (`ConfirmedTransferJudged`), puts no chunk in a foreign file and leaks no sampler (`OneTransferInFlight`), the queues drain unless the receiver stays dead (`EventuallyQuiet`); and the receiver of a campaign is `FileReceiver` (`ImplementsReceiver`). |
| `amqp_tail` | violated | An intact file whose last chunk is small is logged as corrupt. |
| `mqtt` | holds, 355 817 states | MQTT over one ordered connection, with timeouts, a full queue, clients that end with messages lost or still on their way, lost connections and a killed receiver: until messages to the receiver are lost, repeated or overtaken, each transfer the broker took is judged once (`TakenTransferJudged`) and no chunk goes into a foreign file (`NoForeignChunk`); the campaign ends and the queue drains, unless the receiver stays dead (`EventuallyQuiet`). That no row calls a file intact that is not, whatever happens, is the theorem `MqttRowsSound`. |
| `mqtt_ack_race` | violated | `on_publish` may come before `metadata_mid`: ten seconds are waited and a latency of 0 logged. |
| `grpc` | holds, 216 423 states | A final name only ever shows a whole file (`FinalComplete`), "ok" means published and logged (`OkMeansPublished`), no partial file leaks (`NoPartLeft`), every upload ends (`EveryUploadEnds`), and the handlers are an `UploadService` that does not write in place (`ImplementsUpload`). |
| `grpc_overlap` | violated | When a file is sent again while its cancelled handler still runs, an incomplete file is published. |
| `lwm2m` | holds, 87 451 states | An undisturbed campaign logs every transfer as intact (`FaultFreeCampaign`); an undisturbed transfer after faulty ones logs a row, which says intact unless an earlier flow's Package URI write reached its device (`CleanTransferLogsARow`); no device or flow hangs (`EveryTransferEnds`, `EveryFlowEnds`). |
| `lwm2m_order` | violated | From the second transfer on the device is executed before its own download. |
| `capture` | holds, 152 468 states | Before the first WARNING and the first failed exec every measurement is made of a complete capture (`TrustedMeasurement`) and captures do not overlap (`OneCapture`); the sweep ends unless a client never does, and a failed transfer cuts it short only if its tcpdump had died or the exec of pkill failed (`SweepEnds`). |
| `registry` | holds, 469 380 states | Rows of an experiment whose stack was stopped are in its run under its id (`RowsStayHome`), a finished run never changes unless a manual invocation had its id before (`ClosedRunsUnchanged`), a CSV starts with its header and has no second one unless writers may overlap (`CsvWellFormed`). |
| `upload` | holds, 660 871 states | HTTP and CoAP, with retries, repeats, late and lost messages, overlapping handlers, failing writes and a dead server, are an `UploadService` that writes in place (`ImplementsUpload`); the file of a row that says ok is whole when nothing writes it (`OkFileWholeAtRest`); the logged retransmissions lie between what the capture could see and what was repeated, duplicated or had its message ID used again (`RepeatsExplained`); the incomplete-capture WARNING is never printed of a successful transfer whose capture is complete (`WarningMeansMissing`); no client waits for ever (`SweepEnds`). |
| `charts` | holds, 17 550 states | Whatever runs are merged and however they are narrowed, a series has the rows of one side, and filters only remove groups (`SelectionNeverMixes`). |

The violated properties are what a comment or a document of the repository says;
`findings` in `PROJECT.json` quotes each.

Behaviours the models contain, met while writing them, that differ from what the
repository says and have no run of their own:

* An experiment whose `--run-id` is that of an earlier manual run is refused, and
  the manual invocations that follow go on adding to that run, since they still
  find it by its marker: a run directory with a manifest is not always closed
  (`Closed` of `RunRegistry` says which are).
* `_ensure_run` returns while a run is active, and nothing clears the marker of a
  manual invocation: the second one appends to the run of the first, where
  `TUTORIAL.md:163` promises a fresh directory (`EnsureRun` of `RunRegistry`).
* What "single in-flight transfer at a time" (`amqp_receiver.py:25`) needs is more
  than that each client waits for the one before. When clients do not wait for the
  receiver, the campaign's metadata must fit the prefetch window as well as its
  chunks, or a late metadata message is overtaken by chunks of its transfer; and
  the sampler that the metadata of a file without chunks starts is never stopped
  (`Orderly` and `OneTransferInFlight` of `AmqpTransfer` say what remains true; both
  conditions were found by an attempt at the proof).
* A failed transfer whose tcpdump has died too, or whose pkill could not be executed,
  does abort the sweep (`benchmark_manager.py:110`; `CutShort` of `CaptureRun` says
  exactly when).
* Messages of an ended MQTT client that come behind the next client's metadata go into
  that client's file; the log says nothing, but the row of a file that is not whole
  then says so (`MqttRowsSound`).
* A late block of an attempt that timed out breaks the assembly of the next: the
  server answers 4.08, and an intact file gets a row that says corrupt
  (`Continues` of `DirectUpload`). The reverse, an ok that is wrong when it is given,
  cannot happen.
* Late messages of a CoAP file with fewer blocks than attempts may be put together
  once more after the client was told ok: `render_put` then opens the name again, and
  the file is cut until it is written (TLC shows it with one block and two attempts;
  `ImplementsUpload` is false there). The testbed sends 250 KB and more
  (`README.md:6`) in blocks of 1 KB with three attempts (`coap_client.py:15`).
* The WARNING of an incomplete capture calls the file "verified intact"
  (`pcap_analyzer.py:364-366`), but a CoAP client whose attempts all failed and an HTTP
  client whose connection broke log no row and exit with 0, and it is printed of them.
* A CoAP transfer with more messages than message IDs (more than 64 MB) is logged with
  retransmissions when nothing was sent again; `network-chaos.md:133` says "repeated
  CON MIDs count retransmits". `RepeatsExplained` takes IDs used again into account.
* A failed exec of pgrep passes for the exit of tcpdump: a pcap that is still written is
  copied and measured, and nothing is printed, where `packet_capture.py:145-147` says
  that the wait "guarantees the file is complete" (`Doubtful` of `CaptureRun`).
* A receiver that survives a failed "down" may append its late row to the run of a later
  experiment, where `runs.py:4` calls a run a "self-contained experiment snapshot"
  (`outlived` of `RunRegistry`).
* "band around the aggregate" (`charts.py:239`) is not true of the mean under q90 from
  six values on (five equal values and a far one), nor of min and max under std from
  three; and the rounded mean of equal values may leave their minimum and maximum (three
  values 0.1, with the default options). The error bar is negative and matplotlib
  raises. Aggregation is outside the model.
* `--qos` raises `ValueError` of an MQTT CSV with two headers (`Raises`).

### Bounds, and why they are enough

* `amqp`: three transfers of two files, the first file sent twice, one of
  them with a small last chunk. Two chunks make order and count visible, the
  third transfer shows that the state left by two others does no harm, the
  repeated file that old content does not pass for new. Prefetch 1, 2 and 5: no
  window, a window that is exceeded, one that holds the campaign (the code uses
  32 with larger files; the run that exceeds it is a scaled-down one). Two faults
  in AMQP (one during the recovery from another).
* `mqtt`: two transfers, the first of two chunks, and two faults. Two messages in flight
  and a queue of three give a full queue, and an ended client whose messages come before,
  between and after those of the next. A third transfer would multiply the states by
  more than ten; the theorems on `TakenTransferJudged` and `NoForeignChunk` hold for any
  number.
* `grpc`: four uploads of three files for two workers, two of one file, an empty
  file, a file altered after it was hashed, one crash. Two handlers of a file are
  what can collide; a third worker adds interleavings of unrelated names only.
* `lwm2m`: three transfers and two faults: a flow that outlives its device, and
  the device after the next.
* `capture`: three transfers and three faults: a tcpdump left over from the first
  is still there in the third.
* `registry`: an experiment, a manual invocation, and two experiments with one
  `--run-id`; one transfer each, two faults: a container that outlives its
  session, and one more failure while it does.

* `upload`: two transfers of one file of three blocks, three faults. Three blocks
  are the least of which one is neither first nor last, so that a late block can
  restart an assembly or miss one; the second transfer of the name is what an
  abandoned handler of the first collides with. Two messages short of what an
  attempt with its probe and a retry may use, `MidSpace` = 5 makes message IDs
  come round. `MaxAttempts` is the code's 3; aiocoap's four repeats are scaled to
  one.
* `charts`: four rows of any of 23 kinds over two runs: two sides of two runs and a
  filter that tells them apart.

Every bound is a constant (`NumTransfers`, `NumSessions`, `MaxFaults`,
`MaxCrashes`, `MaxInflight`, `QueueLimit`, `MaxAttempts`, `MaxRetransmit`,
`MidSpace`; in `Charts` the size of a plan); deadlock is checked in every run, the
end of a campaign being an explicit stuttering step.

### Fairness

* AMQP: weak fairness of the client's next step and of the receiver with the
  broker's deliveries: each is a loop that is never blocked by the other.
  Faults, including lost connections, are never obliged, and neither is the return of
  a receiver that died: nothing in the code or the compose files starts it again.
* MQTT: of the main thread, of a living receiver, whose `loop_forever` connects again,
  and of what an ended client left on its way, which TCP delivers or gives up. The
  network thread needs none: every wait of the main thread has a timeout. The return of
  a dead receiver is not owed here either.
* gRPC: of each handler. Nothing is assumed of the clients; a client that keeps
  waiting is answered, one that does not is noticed through the cancelled RPC.
* LwM2M: of fault-free steps of the device, of each flow and of the resources,
  and of the start of the next device: an asyncio loop runs its ready tasks, and
  aiocoap delivers a message that is not lost.
* Capture: of the harness's own commands, whose waits have timeouts and whose Docker
  commands are assumed to return, and of each tcpdump that is not hung; that one hangs
  on its SIGTERM is a fault like any other. The client's process is owed no end:
  `subprocess.run` (`benchmark_manager.py:108`) has no timeout.
* Upload: of the client's timers and steps, the server's handlers, the delivery of
  messages that are not lost, and the harness, each only as far as the step is not
  a fault. The HTTP client has no timeout of its own: what ends its wait for a dead
  server is the connection the kernel closes. Losses are bounded; that a network
  which loses everything leads nowhere is not in question.
* Registry, charts: no liveness is claimed.

## 4. Proofs

All theorems hold for every value of the constants that satisfies the module's
named assumption.

**FileReceiverProofs.** The receiver is proved against an environment that may
deliver anything, so the results carry over to any broker, loss and repetition
included. `CountsContent` is the strengthening: while a file is open,
`received_chunks` is the number of chunks on disk and in the buffer together. The
properties about rows are action properties that say nothing of `received`, and
without it the count a row depends on is unrelated to the file it is about.
`ReceiverInvariant` proves it with the type invariant; `RowCountsTheFileHolds`,
`IntegritySoundHolds` and `IntactReportedHolds` follow. For `IntegritySound`:
when the hashed content is the whole source file it has as many chunks as the
count, so nothing can be left in the buffer that the later close adds, or that a kill
between row and close loses.
Two pairs of lemmas serve the transfers below. `OwnControl` and `OwnData` keep every
chunk in its own file. `ControlJudges` and `DataJudges` say what a receiver that is
handed a campaign in its order does: `Filling` (the open file holds the first chunks
of its source) and `Judged` (each transfer behind the receiver has exactly one row,
and a right one, unless it is among those given up) are kept, if a new transfer is
only announced when the ones it passes are done with.

**GrpcUploadProofs.** Two invariants. `Safe` (types; a handler in its stream has
a handle; while nothing has crashed, what is at a `.part` path is owned by a
handler of that name that is not over; an answer of "ok" comes from a positive
verdict and a published file) is inductive without any assumption on who overlaps
whom, and gives `TypeOKHolds`, `NoPartLeftHolds` and `OkMeansPublishedHolds`.
`FinalCompleteHolds` assumes `Discipline = "handler"`, and needs `IInv`: at most
one handler of a name is active, an inode is used under one name, a published
inode is no longer at a `.part` path or behind a handle, and a positive verdict
is still true of what is at the path when it is renamed. `grpc_overlap` shows the
theorem is false without the assumption.

`ImplementsUploadHolds` uses the same invariant: under that discipline every step of
the server and its clients is a step of `UploadService` or a stutter. `OkStaysShown`
says what that means to them: a client that is told ok always finds the whole file,
and a name that has shown one goes on showing it.

**DirectUploadProofs.** `Base` (types; `DataOK`, the messages and frames there can be;
`Fresh`, what is there before a transfer begins; `Progress`, how far each handler and
row can be) is inductive for both protocols. With `FilesKept` (only a file that is
being written is cut) it gives `OkFileIsWholeAtRest`.

`ImplementsUploadHolds` has to exclude that a file is opened again after its client
was told ok. For HTTP that is a handler's own doing, and `opener` tells it. For CoAP it
would take messages that earlier attempts left in the network, so `OkInv` counts them:
`FewLate` says that an attempt leaves at most one behind, since the client sends a
block only after the answer to the one before; `NotAgain` that, once the file was put
together from the client's last message (`Settled`), the late messages and the blocks
the server holds are together fewer than the blocks of the file. This needs files
with as many blocks as there are attempts (`LongFiles`), and with fewer the property
is false: see 3. `OkIsShown` is the consequence for clients; it is weaker than
gRPC's, as a service that writes in place can promise no more.

`RetransmissionsExplained` weighs what the analysis counts against what happened.
`CopiesBalance` is the account of every copy of the client's messages: captured or
under way, lost or dropped on one side, sent, sent again or duplicated on the other.
`ReusedIds` says how many message IDs have come round, and the upper bound is that the
copies exceed the distinct IDs by no more than is explained. The property alone says
nothing of what is under way, which is captured later. `WarningIsOfMissingFrames` goes
through `Bytes`: in a capture without drops there are at least as many bytes as the
blocks put together, or the segments that arrived, account for.
What the analysis adds up are folds over finite sets (`SumOver`). That a sum takes in
a new element, or a larger count, is proved by taking a smallest subset on which it
fails (`Minimal`, from the library's well-foundedness of inclusion), since the
induction theorems themselves cannot be instantiated here.

**AmqpTransferProofs.** The receiver is fed from two queues through one channel, and
its messages are named by their place in a queue; the missing fact is that such a
place exists. `Window` says that no more of a queue is on the channel than is in
the queue, and nothing without a connection. It counts the entries of `pushed` that
belong to a queue, so the lemmas `PlacesAppend` and `PlacesTail` say what a push
and an acknowledgement do to the count. With `Accompanied` (a sampler belongs to a
client that runs) it gives `AmqpTypeCorrect`, and `ImplementsReceiverHolds`: every
step is a step of `FileReceiver` or leaves it alone. `AmqpRowsSound` carries the three
theorems about rows over to RabbitMQ.

`CampaignInv` is about an orderly campaign. Its core, `OneStream`, says that the two
queues hold one sequence of messages: `Stream` that each message is in its queue at
the place its rank among the messages of its kind gives it (`Split`), and that
`pushed` is the beginning of that sequence and only chunks wait behind it
(`OnChannel`); `InTurn` that each message may follow the one before (`Follows`: the
next of its transfer, or the metadata of a later one when the transfers between are
complete or had a publish refused). The invariant asserts that such a sequence
exists, since no variable holds it. `Fits` counts what was published against the
window, which is what keeps metadata from overtaking a waiting chunk. A step of the
client appends to the sequence (`StreamGrows`), an acknowledgement takes its first
message (`StreamShrinks`), and the receiver handles the next one (`NextOfStream`),
where `ControlJudges` and `DataJudges` apply. `ConfirmedTransferJudgedHolds` and
`OneTransferInFlightHolds` follow.

**MqttTransferProofs.** `MqttInv` (types, the receiver's own invariant, and that a
client only has messages of its own transfer, running or ended) gives `MqttIsReceiver`
and `MqttRowsSound`, which do the same for MQTT, whatever is lost or late.

`NoForeignChunkHolds` and `TakenTransferJudgedHolds` follow from `JudgedInv`. The
properties alone say nothing about what is still under way, which is where a foreign
chunk would come from. As long as nothing was `disturbed`, the invariant says that
what lies between the clients and the receiver is a piece of the campaign in its order:
the queue follows what the receiver handled last (`InTurn`), the outbox is the
transfer's messages up to `sent` (`OutboxInTurn`), what an ended client left is a piece
of its transfer (`LateInTurn`), and what the broker takes next, of the running client
(`ClientNext`) or of an ended one that none has overtaken (`LateNext`), follows what it
queued last, with gaps only where messages were lost with their client or are still on
their way. With `Filling`, `Judged` and `OwnChunks` of the receiver it is inductive.

**Lwm2mUpdateProofs.** That a campaign without faults logs every transfer as intact is
not inductive: `Served` says that a device which met no fault is registered
when it triggers and has a flow from then on that does not fail under it, `Unbegun`
that later transfers have no flow yet, and `Orderly` relates the device's place, its
flow, its URI and its exchange history, and lets the flows of earlier transfers
only wait for an Updated that was reported.
`Named` says which Package URIs there can be: a device's are its own flow's, or those of
an earlier one whose write it has seen. `CleanTransferLogsARowHolds` is an action
property proved from the same invariant.

**CaptureRunProofs.** The harness sees a tcpdump only through `Visible`. `Settled`,
`Begun`, `Ended` and `Cleared` say what each of its stages lets it conclude as long as
no WARNING was printed and no exec failed, and `InOrder` that later transfers have no tcpdump yet;
`Trusted` and `NeverTwo` follow. `NotCutShort` is the safety half of `SweepEnds`.

**RunRegistryProofs.** A writer is between its steps while the host rewrites the
marker and its own session ends or a later one begins. `RegistryInv` says what each place
in the harness implies of its marker and run id (`Placed`), that a writer's directory
and id are those of its session unless it outlived it (`AtHome`), that a writer which
found a header looked into a file with rows (`HeaderFound`), that in a protocol no
failed call disturbs only the two writers of the current transfer are at work, so that
no header comes between a look and a row (`OneAtATime`), and which runs the marker no
longer names (`Separate`). From it follow `RowsStayHomeHolds`, `CsvWellFormedHolds`
and the action property `ClosedRunsUnchangedHolds`. The last one failed at first: see the refused
experiment under 3, which no plan of the run contains.

Only model-checked: `SelectionNeverMixes` of `Charts`, a first-order statement for which
no proof has been written, and liveness under fairness (`EventuallyQuiet`,
`EveryUploadEnds`, `SweepEnds` and the like), which with ENABLED is out of the
prover's reach.

## 5. Not modelled

* The values a resource monitor samples, throughput and latency figures, the
  breakdown of frames by type: measurements, with no property to relate them to.
  The life of the sampler threads is modelled for the AMQP receiver.
* Ping and capability requests, logging, command lines, manifests' content, the
  readers of runs (`find_runs`, `load_csv`).
* Delays and rates of the network emulation, beyond the order of steps they cause.
* Charts: aggregates and error bands, which depend on floating-point rounding, labels, scales, colours and the overview; the older flat CSV files.
* Payload generator: a one-shot script without state.

## 6. Plan

Done, in this order: receiver and its proofs, AMQP, MQTT, gRPC and its proofs,
LwM2M, captures, run registry; then the abstract upload service, the refinement of
gRPC, HTTP and CoAP, pcap analysis and charts; then the proofs of the message
transfers, LwM2M, captures and the registry, of both refinements, and of the pcap
analysis. What could come next:

1. `SelectionNeverMixes` of `Charts`, as a theorem.
2. The MQTT and AMQP receivers as writers in `RunRegistry` composed with their
   transfers: which receiver rows a "down" may lose.
