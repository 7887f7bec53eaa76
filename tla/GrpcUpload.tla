------------------------------ MODULE GrpcUpload ------------------------------
(***************************************************************************)
(* The gRPC upload service: FileTransferServicer.Upload, run by a pool of   *)
(* worker threads, and the clients that stream a file to it under a         *)
(* deadline.  A handler assembles the file under <name>.part and renames it *)
(* to its final name once its checksum matches.                             *)
(*                                                                         *)
(* The names are paths, not files: what a handle writes to is the inode it  *)
(* opened, and rename and remove act on whatever is at the path by then.    *)
(* An inode is named by the upload that created it; its content is the set  *)
(* of chunk positions that hold the bytes the checksum was taken of (a hole *)
(* reads as zeros).                                                         *)
(***************************************************************************)
EXTENDS Naturals, FiniteSets

CONSTANTS
    Uploads,        \* the uploads: one client process and one RPC each
    Files,          \* file names
    FileOf,         \* the file each upload streams
    NumChunks,      \* data chunks of each file
    SmallTail,      \* files whose last chunk stays in the write buffer
    Altered,        \* uploads whose file changed (not in size) after it was hashed
    Workers,        \* threads of the server's pool
    Discipline,     \* when a file may be uploaded again, see Call
    MaxCrashes,     \* bound on server crashes
    None

ASSUME UploadPlan ==
    /\ FileOf \in [Uploads -> Files]
    /\ NumChunks \in [Files -> Nat]
    /\ SmallTail \subseteq Files
    /\ Altered \subseteq Uploads
    /\ Workers \in Nat \ {0}
    /\ Discipline \in {"handler", "client"}
    /\ MaxCrashes \in Nat
    /\ None \notin Uploads

VARIABLES
    pc,         \* where each upload's handler is
    received,   \* received_chunks of each handler
    handle,     \* the inode behind each handler's file_handle
    verdict,    \* integrity_ok of each handler
    part,       \* the inode at <name>.part
    final,      \* the inode at <name>
    content,    \* the chunk positions each inode holds
    client,     \* what each client knows of its RPC
    row,        \* the receiver row of each upload
    crashes     \* server crashes so far

handlerVars == <<pc, received, handle, verdict>>
fileVars == <<part, final, content>>
vars == <<handlerVars, fileVars, client, row, crashes>>

Ended == {"idle", "done", "failed"}
Running == {"called", "stream", "closed", "verified", "moved"}

TypeOK ==
    /\ pc \in [Uploads -> Ended \cup Running \cup {"queued"}]
    /\ received \in [Uploads -> Nat]
    /\ handle \in [Uploads -> Uploads \cup {None}]
    /\ verdict \in [Uploads -> BOOLEAN]
    /\ part \in [Files -> Uploads \cup {None}]
    /\ final \in [Files -> Uploads \cup {None}]
    /\ content \in [Uploads -> SUBSET Nat]
    /\ client \in [Uploads -> {"none", "waiting", "ok", "corrupt", "error"}]
    /\ row \in [Uploads -> {"none", "ok", "corrupt"}]
    /\ crashes \in Nat

Init ==
    /\ pc = [u \in Uploads |-> "idle"]
    /\ received = [u \in Uploads |-> 0]
    /\ handle = [u \in Uploads |-> None]
    /\ verdict = [u \in Uploads |-> FALSE]
    /\ part = [f \in Files |-> None]
    /\ final = [f \in Files |-> None]
    /\ content = [u \in Uploads |-> {}]
    /\ client = [u \in Uploads |-> "none"]
    /\ row = [u \in Uploads |-> "none"]
    /\ crashes = 0

Whole(f) == 1 .. NumChunks[f]
Last(u) == NumChunks[FileOf[u]]
Deferred(u) == IF FileOf[u] \in SmallTail THEN {Last(u)} \ {0} ELSE {}

\* write of these chunks by u through its handle; an altered file differs in
\* its first chunk
Written(u, chunks) ==
    [content EXCEPT ![handle[u]] =
        (@ \ chunks) \cup (IF u \in Altered THEN chunks \ {1} ELSE chunks)]

Goto(u, label) == pc' = [pc EXCEPT ![u] = label]

\* an uncaught exception: the RPC ends with an error
Fails(u) == Goto(u, "failed") /\ client' = [client EXCEPT ![u] = "error"]

----------------------------------------------------------------------------
(* The clients *)

\* A client starts its RPC.  The harness waits for the client before it may
\* send the same file again ("client"); only that the handler, too, has ended
\* ("handler") keeps two handlers of one file apart.
Call(u) ==
    /\ client[u] = "none"
    /\ \A v \in Uploads : FileOf[v] = FileOf[u] =>
          /\ client[v] # "waiting"
          /\ Discipline = "handler" => pc[v] \in Ended
    /\ Goto(u, "queued")
    /\ client' = [client EXCEPT ![u] = "waiting"]
    /\ UNCHANGED <<received, handle, verdict, fileVars, row, crashes>>

\* the deadline passes or the client is stopped: a failure row, and the RPC is
\* cancelled
GiveUp(u) ==
    /\ client[u] = "waiting"
    /\ client' = [client EXCEPT ![u] = "error"]
    /\ UNCHANGED <<handlerVars, fileVars, row, crashes>>

----------------------------------------------------------------------------
(* The handler *)

\* a worker thread takes the RPC
Begin(u) ==
    /\ pc[u] = "queued"
    /\ Cardinality({v \in Uploads : pc[v] \in Running}) < Workers
    /\ Goto(u, "called")
    /\ UNCHANGED <<received, handle, verdict, fileVars, client, row, crashes>>

\* the metadata chunk: open(tmp_path, "wb") truncates what is there
ReceiveMetadata(u) ==
    /\ pc[u] = "called" /\ client[u] = "waiting"
    /\ LET inode == IF part[FileOf[u]] = None THEN u ELSE part[FileOf[u]]
       IN  /\ part' = [part EXCEPT ![FileOf[u]] = inode]
           /\ content' = [content EXCEPT ![inode] = {}]
           /\ handle' = [handle EXCEPT ![u] = inode]
    /\ Goto(u, "stream")
    /\ UNCHANGED <<received, verdict, final, client, row, crashes>>

\* a data chunk, written at the handle's own offset
ReceiveChunk(u) ==
    /\ pc[u] = "stream" /\ client[u] = "waiting"
    /\ received[u] < Last(u)
    /\ received' = [received EXCEPT ![u] = received[u] + 1]
    /\ content' = Written(u, {received[u] + 1} \ Deferred(u))
    /\ UNCHANGED <<pc, handle, verdict, part, final, client, row, crashes>>

\* the stream ends: close the handle, stop the monitor
EndOfStream(u) ==
    /\ pc[u] = "stream" /\ client[u] = "waiting"
    /\ received[u] = Last(u)
    /\ content' = Written(u, Deferred(u))
    /\ handle' = [handle EXCEPT ![u] = None]
    /\ Goto(u, "closed")
    /\ UNCHANGED <<received, verdict, part, final, client, row, crashes>>

\* Mutants of Aborted: the partial file stays; only a handler that has opened
\* its file notices.
AbortedKeepingPart(u) ==
    /\ client[u] = "error" /\ pc[u] \in {"called", "stream"}
    /\ handle' = [handle EXCEPT ![u] = None]
    /\ Goto(u, "failed")
    /\ UNCHANGED <<received, verdict, fileVars, client, row, crashes>>

AbortedWhenOpen(u) ==
    /\ client[u] = "error" /\ pc[u] = "stream"
    /\ part' = [part EXCEPT ![FileOf[u]] = None]
    /\ handle' = [handle EXCEPT ![u] = None]
    /\ Goto(u, "failed")
    /\ UNCHANGED <<received, verdict, final, content, client, row, crashes>>

\* the RPC was cancelled: the iterator raises; close, and remove the path the
\* handler opened
Aborted(u) ==
    /\ client[u] = "error"
    /\ \/ pc[u] = "called" /\ UNCHANGED <<part, content>>
       \/ /\ pc[u] = "stream"
          /\ part' = [part EXCEPT ![FileOf[u]] = None]
          /\ content' = IF received[u] = Last(u) THEN Written(u, Deferred(u))
                          ELSE content
    /\ handle' = [handle EXCEPT ![u] = None]
    /\ Goto(u, "failed")
    /\ UNCHANGED <<received, verdict, final, client, row, crashes>>

\* Mutant of Verify: the size alone decides.
VerifyBySize(u) ==
    /\ pc[u] = "closed"
    /\ verdict' = [verdict EXCEPT ![u] = TRUE]
    /\ Goto(u, "verified")
    /\ UNCHANGED <<received, handle, fileVars, client, row, crashes>>

\* the size always matches here; hash what is at the path
Verify(u) ==
    /\ pc[u] = "closed"
    /\ IF part[FileOf[u]] = None
       THEN Fails(u) /\ UNCHANGED verdict
       ELSE /\ verdict' = [verdict EXCEPT ![u] =
                              content[part[FileOf[u]]] = Whole(FileOf[u])]
            /\ Goto(u, "verified")
            /\ UNCHANGED client
    /\ UNCHANGED <<received, handle, fileVars, row, crashes>>

\* os.replace, which needs the path to exist
Publish(u) ==
    /\ pc[u] = "verified" /\ verdict[u]
    /\ IF part[FileOf[u]] = None
       THEN Fails(u) /\ UNCHANGED <<part, final>>
       ELSE /\ final' = [final EXCEPT ![FileOf[u]] = part[FileOf[u]]]
            /\ part' = [part EXCEPT ![FileOf[u]] = None]
            /\ Goto(u, "moved")
            /\ UNCHANGED client
    /\ UNCHANGED <<received, handle, verdict, content, row, crashes>>

\* os.remove of the corrupted file
Discard(u) ==
    /\ pc[u] = "verified" /\ ~verdict[u]
    /\ part' = [part EXCEPT ![FileOf[u]] = None]
    /\ Goto(u, "moved")
    /\ UNCHANGED <<received, handle, verdict, final, content, client, row, crashes>>

\* Mutants of Result: a corrupt upload is answered as an error; the answer says
\* that the upload ended, not that it is intact.
ResultAsError(u) == IF verdict[u] THEN "ok" ELSE "error"
ResultAlwaysOk(u) == "ok"

Result(u) == IF verdict[u] THEN "ok" ELSE "corrupt"

\* the receiver row, then the UploadResult for a client that still waits
Finish(u) ==
    /\ pc[u] = "moved"
    /\ row' = [row EXCEPT ![u] = Result(u)]
    /\ client' = [client EXCEPT ![u] = IF @ = "waiting" THEN Result(u) ELSE @]
    /\ Goto(u, "done")
    /\ UNCHANGED <<received, handle, verdict, fileVars, crashes>>

\* without a data chunk the duration the goodput divides by may be zero
RowDividesByZero(u) ==
    /\ pc[u] = "moved" /\ Last(u) = 0
    /\ Fails(u)
    /\ UNCHANGED <<received, handle, verdict, fileVars, row, crashes>>

\* the server process dies: its handlers and their buffers go, the files stay
ServerCrashes ==
    /\ crashes < MaxCrashes
    /\ crashes' = crashes + 1
    /\ pc' = [u \in Uploads |-> IF pc[u] \in Ended THEN pc[u] ELSE "failed"]
    /\ handle' = [u \in Uploads |-> None]
    /\ client' = [u \in Uploads |-> IF client[u] = "waiting" THEN "error" ELSE client[u]]
    /\ UNCHANGED <<received, verdict, fileVars, row>>

Handler(u) ==
    \/ Begin(u) \/ ReceiveMetadata(u) \/ ReceiveChunk(u) \/ EndOfStream(u)
    \/ Aborted(u) \/ Verify(u) \/ Publish(u) \/ Discard(u)
    \/ Finish(u) \/ RowDividesByZero(u)

AllOver == \A u \in Uploads : client[u] # "none" /\ pc[u] \in Ended

Next ==
    \/ \E u \in Uploads : Call(u) \/ GiveUp(u) \/ Handler(u)
    \/ ServerCrashes
    \/ AllOver /\ UNCHANGED vars

Spec == Init /\ [][Next]_vars
FairSpec == Spec /\ \A u \in Uploads : WF_vars(Handler(u))

----------------------------------------------------------------------------
\* "Only publish the final name once the checksum matches, so an aborted
\* transfer can never leave a truncated file that looks complete"
\* (grpc_server.py:63): what is at a final name is always the whole file.
FinalComplete ==
    \A f \in Files : final[f] # None => content[final[f]] = Whole(f)

\* A client that is told its file is intact finds it published and its receiver
\* row says so too.
OkMeansPublished ==
    \A u \in Uploads : client[u] = "ok" =>
        final[FileOf[u]] # None /\ row[u] = "ok"

\* No partial file outlives the handlers of its name, unless the server died.
NoPartLeft ==
    crashes = 0 => \A f \in Files :
        (\A u \in Uploads : FileOf[u] = f => pc[u] \in Ended) => part[f] = None

\* Every RPC a client starts ends, at the client and in the server, also when
\* there are more of them than workers and when clients give up.
EveryUploadEnds ==
    \A u \in Uploads :
        client[u] = "waiting" ~> (pc[u] \in Ended /\ client[u] # "waiting")

\* What the service promises, of the names that show a whole file and of what
\* the clients are told.
Upload == INSTANCE UploadService WITH
    Names <- Files, NameOf <- FileOf, InPlace <- FALSE,
    shown <- {f \in Files : final[f] # None /\ content[final[f]] = Whole(f)},
    saving <- {},
    latest <- [f \in Files |-> None],
    told <- [u \in Uploads |-> CASE client[u] = "ok" -> "ok"
                                 [] client[u] \in {"corrupt", "error"} -> "failed"
                                 [] OTHER -> "nothing"]

\* Through cancelled streams, late answers, full workers and crashes, the handlers
\* are an upload service that never takes back a file it has shown, and tells a
\* client ok only of a file that is shown.
ImplementsUpload == Upload!Spec
=============================================================================
