-------------------------- MODULE GrpcUploadProofs --------------------------
(* Proofs about GrpcUpload for any number of uploads, files and workers.    *)
(* As long as two handlers of one file never run at once, a handler owns    *)
(* the inode at its .part path; then a final name never shows a file that   *)
(* is not whole.                                                            *)
EXTENDS GrpcUpload, TLAPS

----------------------------------------------------------------------------
(* Facts that hold whenever uploads are repeated *)

\* a handler that reads its stream has its file open
Opened == \A u \in Uploads : pc[u] = "stream" => handle[u] # None

\* a partial file has a handler that has yet to remove or rename it
PartOwned ==
    crashes = 0 => \A f \in Files : part[f] # None =>
        \E u \in Uploads : FileOf[u] = f /\ pc[u] \in {"stream", "closed", "verified"}

\* a handler that found its file intact has published it; before a client
\* calls it has no handler, and once it heard of success its handler is done
Answered ==
    \A u \in Uploads :
        /\ client[u] = "none" => pc[u] = "idle"
        /\ pc[u] = "moved" /\ verdict[u] => final[FileOf[u]] # None
        /\ client[u] = "ok" => pc[u] = "done" /\ row[u] = "ok" /\ final[FileOf[u]] # None

\* The inductive strengthening of TypeOK, NoPartLeft and OkMeansPublished.
Safe == TypeOK /\ Opened /\ PartOwned /\ Answered

\* The initial state satisfies the types.
LEMMA TypeInit == Init => TypeOK
BY DEF Init, TypeOK, Ended, Running

\* Writing through an open handle keeps contents well typed and touches only
\* the inode behind the handle.
LEMMA WrittenFacts ==
    ASSUME TypeOK, NEW u \in Uploads, handle[u] # None,
           NEW chunks \in SUBSET Nat
    PROVE  /\ Written(u, chunks) \in [Uploads -> SUBSET Nat]
           /\ \A v \in Uploads : v # handle[u] => Written(u, chunks)[v] = content[v]
<1>1. handle[u] \in Uploads
  BY DEF TypeOK
<1> DEFINE new == (content[handle[u]] \ chunks)
                     \cup (IF u \in Altered THEN chunks \ {1} ELSE chunks)
<1>2. new \in SUBSET Nat
  BY <1>1 DEF TypeOK
<1>3. Written(u, chunks) = [content EXCEPT ![handle[u]] = new]
  BY DEF Written
<1>4. content \in [Uploads -> SUBSET Nat]
  BY DEF TypeOK
<1> HIDE DEF new
<1> QED BY <1>1, <1>2, <1>3, <1>4

\* The chunks a step writes are positions.
LEMMA ChunkTypes ==
    ASSUME TypeOK, NEW u \in Uploads
    PROVE  /\ Deferred(u) \in SUBSET Nat
           /\ {received[u] + 1} \ Deferred(u) \in SUBSET Nat
<1>1. Last(u) \in Nat /\ received[u] \in Nat
  BY UploadPlan DEF Last, TypeOK
<1> QED BY <1>1 DEF Deferred

\* Every step preserves the types.
LEMMA TypeNext == TypeOK /\ Opened /\ [Next]_vars => TypeOK'
<1> SUFFICES ASSUME TypeOK, Opened, [Next]_vars PROVE TypeOK'
  OBVIOUS
<1> USE UploadPlan
<1>1. ASSUME NEW u \in Uploads, Call(u) PROVE TypeOK'
  BY <1>1 DEF TypeOK, Call, Goto, fileVars, Ended, Running
<1>2. ASSUME NEW u \in Uploads, GiveUp(u) PROVE TypeOK'
  BY <1>2 DEF TypeOK, GiveUp, handlerVars, fileVars, Ended, Running
<1>3. ASSUME NEW u \in Uploads, Begin(u) PROVE TypeOK'
  BY <1>3 DEF TypeOK, Begin, Goto, fileVars, Ended, Running
<1>4. ASSUME NEW u \in Uploads, ReceiveMetadata(u) PROVE TypeOK'
  BY <1>4 DEF TypeOK, ReceiveMetadata, Goto, Ended, Running
<1>5. ASSUME NEW u \in Uploads, ReceiveChunk(u) PROVE TypeOK'
  <2>1. content' \in [Uploads -> SUBSET Nat]
    BY <1>5, ChunkTypes, WrittenFacts DEF ReceiveChunk, Opened
  <2>2. received' \in [Uploads -> Nat]
    BY <1>5 DEF TypeOK, ReceiveChunk
  <2> QED BY <1>5, <2>1, <2>2 DEF TypeOK, ReceiveChunk
<1>6. ASSUME NEW u \in Uploads, EndOfStream(u) PROVE TypeOK'
  <2>1. content' \in [Uploads -> SUBSET Nat]
    BY <1>6, ChunkTypes, WrittenFacts DEF EndOfStream, Opened
  <2> QED BY <1>6, <2>1 DEF TypeOK, EndOfStream, Goto, Ended, Running
<1>7. ASSUME NEW u \in Uploads, Aborted(u) PROVE TypeOK'
  <2>1. content' \in [Uploads -> SUBSET Nat]
    BY <1>7, ChunkTypes, WrittenFacts DEF Aborted, Opened, TypeOK
  <2>2. part' \in [Files -> Uploads \cup {None}]
    BY <1>7 DEF Aborted, TypeOK
  <2> QED BY <1>7, <2>1, <2>2 DEF TypeOK, Aborted, Goto, Ended, Running
<1>8. ASSUME NEW u \in Uploads, Verify(u) PROVE TypeOK'
  BY <1>8 DEF TypeOK, Verify, Goto, Fails, fileVars, Ended, Running
<1>9. ASSUME NEW u \in Uploads, Publish(u) PROVE TypeOK'
  BY <1>9 DEF TypeOK, Publish, Goto, Fails, Ended, Running
<1>10. ASSUME NEW u \in Uploads, Discard(u) PROVE TypeOK'
  BY <1>10 DEF TypeOK, Discard, Goto, Ended, Running
<1>11. ASSUME NEW u \in Uploads, Finish(u) PROVE TypeOK'
  BY <1>11 DEF TypeOK, Finish, Goto, Result, fileVars, Ended, Running
<1>12. ASSUME NEW u \in Uploads, RowDividesByZero(u) PROVE TypeOK'
  BY <1>12 DEF TypeOK, RowDividesByZero, Goto, Fails, fileVars, Ended, Running
<1>13. CASE ServerCrashes
  BY <1>13 DEF TypeOK, ServerCrashes, fileVars, Ended, Running
<1>14. CASE UNCHANGED vars
  BY <1>14 DEF TypeOK, vars, handlerVars, fileVars
<1> QED
  BY <1>1, <1>2, <1>3, <1>4, <1>5, <1>6, <1>7, <1>8, <1>9, <1>10, <1>11,
     <1>12, <1>13, <1>14 DEF Next, Handler

\* Every step preserves the other facts.
LEMMA SafeNext == Safe /\ [Next]_vars => Safe'
<1> SUFFICES ASSUME Safe, [Next]_vars PROVE Safe'
  OBVIOUS
<1> USE UploadPlan DEF Ended, Running
<1>0. TypeOK'
  BY TypeNext DEF Safe
<1>a. /\ pc \in [Uploads -> Ended \cup Running \cup {"queued"}]
      /\ part \in [Files -> Uploads \cup {None}]
      /\ final \in [Files -> Uploads \cup {None}]
      /\ handle \in [Uploads -> Uploads \cup {None}]
      /\ client \in [Uploads -> {"none", "waiting", "ok", "corrupt", "error"}]
      /\ row \in [Uploads -> {"none", "ok", "corrupt"}]
      /\ verdict \in [Uploads -> BOOLEAN]
      /\ crashes \in Nat
  BY DEF Safe, TypeOK
<1>b. Opened /\ PartOwned /\ Answered
  BY DEF Safe
<1>c. ASSUME Opened', PartOwned', Answered' PROVE Safe'
  BY <1>0, <1>c DEF Safe
<1>1. ASSUME NEW u \in Uploads, Call(u) PROVE Opened' /\ PartOwned' /\ Answered'
  BY <1>1, <1>a, <1>b DEF Call, Goto, fileVars, Opened, PartOwned, Answered
<1>2. ASSUME NEW u \in Uploads, GiveUp(u) PROVE Opened' /\ PartOwned' /\ Answered'
  BY <1>2, <1>a, <1>b DEF GiveUp, handlerVars, fileVars, Opened, PartOwned, Answered
<1>3. ASSUME NEW u \in Uploads, Begin(u) PROVE Opened' /\ PartOwned' /\ Answered'
  BY <1>3, <1>a, <1>b DEF Begin, Goto, fileVars, Opened, PartOwned, Answered
<1>4. ASSUME NEW u \in Uploads, ReceiveMetadata(u) PROVE Opened' /\ PartOwned' /\ Answered'
  BY <1>4, <1>a, <1>b DEF ReceiveMetadata, Goto, Opened, PartOwned, Answered
<1>5. ASSUME NEW u \in Uploads, ReceiveChunk(u) PROVE Opened' /\ PartOwned' /\ Answered'
  BY <1>5, <1>a, <1>b DEF ReceiveChunk, Opened, PartOwned, Answered
<1>6. ASSUME NEW u \in Uploads, EndOfStream(u) PROVE Opened' /\ PartOwned' /\ Answered'
  BY <1>6, <1>a, <1>b DEF EndOfStream, Goto, Opened, PartOwned, Answered
<1>7. ASSUME NEW u \in Uploads, Aborted(u) PROVE Opened' /\ PartOwned' /\ Answered'
  BY <1>7, <1>a, <1>b DEF Aborted, Goto, Opened, PartOwned, Answered
<1>8. ASSUME NEW u \in Uploads, Verify(u) PROVE Opened' /\ PartOwned' /\ Answered'
  BY <1>8, <1>a, <1>b DEF Verify, Goto, Fails, fileVars, Opened, PartOwned, Answered
<1>9. ASSUME NEW u \in Uploads, Publish(u) PROVE Opened' /\ PartOwned' /\ Answered'
  BY <1>9, <1>a, <1>b DEF Publish, Goto, Fails, Opened, PartOwned, Answered
<1>10. ASSUME NEW u \in Uploads, Discard(u) PROVE Opened' /\ PartOwned' /\ Answered'
  BY <1>10, <1>a, <1>b DEF Discard, Goto, Opened, PartOwned, Answered
<1>11. ASSUME NEW u \in Uploads, Finish(u) PROVE Opened' /\ PartOwned' /\ Answered'
  BY <1>11, <1>a, <1>b DEF Finish, Goto, Result, fileVars, Opened, PartOwned, Answered
<1>12. ASSUME NEW u \in Uploads, RowDividesByZero(u)
       PROVE  Opened' /\ PartOwned' /\ Answered'
  BY <1>12, <1>a, <1>b DEF RowDividesByZero, Goto, Fails, fileVars, Opened, PartOwned, Answered
<1>13. ASSUME ServerCrashes PROVE Opened' /\ PartOwned' /\ Answered'
  BY <1>13, <1>a, <1>b DEF ServerCrashes, fileVars, Opened, PartOwned, Answered
<1>14. ASSUME UNCHANGED vars PROVE Opened' /\ PartOwned' /\ Answered'
  BY <1>14, <1>b DEF vars, handlerVars, fileVars, Opened, PartOwned, Answered
<1> QED
  BY <1>c, <1>1, <1>2, <1>3, <1>4, <1>5, <1>6, <1>7, <1>8, <1>9, <1>10, <1>11,
     <1>12, <1>13, <1>14 DEF Next, Handler

\* Whatever the clients do, the facts above hold throughout.
THEOREM SafeHolds == Spec => []Safe
<1>1. Init => Safe
  BY TypeInit DEF Init, Safe, Opened, PartOwned, Answered
<1> QED
  BY <1>1, SafeNext, PTL DEF Spec

\* The state variables keep their types.
THEOREM TypeOKHolds == Spec => []TypeOK
<1>1. Safe => TypeOK
  BY DEF Safe
<1> QED
  BY <1>1, SafeHolds, PTL

\* grpc_server.py:96-103 and 121-130: while the server lives, a .part file
\* never outlives the handlers of its name, however the uploads of that name
\* overlap.
THEOREM NoPartLeftHolds == Spec => []NoPartLeft
<1>1. Safe => NoPartLeft
  BY DEF Safe, PartOwned, NoPartLeft, Ended
<1> QED
  BY <1>1, SafeHolds, PTL

\* grpc_server.py:121-154: a client that is told its file is intact finds it
\* published, and its receiver row says the same.
THEOREM OkMeansPublishedHolds == Spec => []OkMeansPublished
<1>1. Safe => OkMeansPublished
  BY DEF Safe, Answered, OkMeansPublished
<1> QED
  BY <1>1, SafeHolds, PTL

----------------------------------------------------------------------------
(* Facts that hold when two handlers of one file never run at once *)

\* no two handlers of one file
Exclusive ==
    \A u, v \in Uploads :
        FileOf[u] = FileOf[v] /\ pc[u] \notin Ended /\ pc[v] \notin Ended => u = v

\* the inode of a handler that has not opened its file is at no path
Fresh ==
    \A u \in Uploads : pc[u] \in {"idle", "queued", "called"} =>
        \A f \in Files : part[f] # u /\ final[f] # u

\* the inodes at the paths of different files, and at the two of one, differ
Apart ==
    \A f \in Files :
        /\ part[f] # None => FileOf[part[f]] = f
        /\ final[f] # None => FileOf[final[f]] = f
        /\ part[f] # None => part[f] # final[f]

\* a handler that writes, writes to the inode at its .part path
Writes ==
    \A u \in Uploads : pc[u] = "stream" => handle[u] = part[FileOf[u]]

\* a checksum that matched still describes what is at the .part path
Verified ==
    \A u \in Uploads : pc[u] = "verified" /\ verdict[u] /\ part[FileOf[u]] # None =>
        content[part[FileOf[u]]] = Whole(FileOf[u])

\* The paths and the handlers of a file, without what its inodes hold.
Paths == Exclusive /\ Fresh /\ Apart /\ Writes

\* The inductive strengthening of FinalComplete.
IInv == Safe /\ Paths /\ Verified /\ FinalComplete

\* Every step keeps the paths and the handlers of different files apart.
LEMMA PathsNext ==
    ASSUME Discipline = "handler", Safe, Paths, [Next]_vars
    PROVE  Paths'
<1> USE UploadPlan DEF Ended, Running
<1>a. /\ pc \in [Uploads -> Ended \cup Running \cup {"queued"}]
      /\ part \in [Files -> Uploads \cup {None}]
      /\ final \in [Files -> Uploads \cup {None}]
      /\ handle \in [Uploads -> Uploads \cup {None}]
  BY DEF Safe, TypeOK
<1>b. Exclusive /\ Fresh /\ Apart /\ Writes /\ Answered /\ Opened
  BY DEF Paths, Safe
<1>1. ASSUME NEW u \in Uploads, Call(u) PROVE Paths'
  BY <1>1, <1>a, <1>b DEF Call, Goto, fileVars, Paths, Exclusive, Fresh, Apart, Writes, Answered
<1>2. ASSUME NEW u \in Uploads, GiveUp(u) PROVE Paths'
  BY <1>2, <1>b DEF GiveUp, handlerVars, fileVars, Paths, Exclusive, Fresh, Apart, Writes
<1>3. ASSUME NEW u \in Uploads, Begin(u) PROVE Paths'
  BY <1>3, <1>a, <1>b DEF Begin, Goto, fileVars, Paths, Exclusive, Fresh, Apart, Writes
<1>4. ASSUME NEW u \in Uploads, ReceiveMetadata(u) PROVE Paths'
  BY <1>4, <1>a, <1>b DEF ReceiveMetadata, Goto, Paths, Exclusive, Fresh, Apart, Writes
<1>5. ASSUME NEW u \in Uploads, ReceiveChunk(u) PROVE Paths'
  BY <1>5, <1>b DEF ReceiveChunk, Paths, Exclusive, Fresh, Apart, Writes
<1>6. ASSUME NEW u \in Uploads, EndOfStream(u) PROVE Paths'
  BY <1>6, <1>a, <1>b DEF EndOfStream, Goto, Paths, Exclusive, Fresh, Apart, Writes
<1>7. ASSUME NEW u \in Uploads, Aborted(u) PROVE Paths'
  BY <1>7, <1>a, <1>b DEF Aborted, Goto, Paths, Exclusive, Fresh, Apart, Writes
<1>8. ASSUME NEW u \in Uploads, Verify(u) PROVE Paths'
  BY <1>8, <1>a, <1>b DEF Verify, Goto, Fails, fileVars, Paths, Exclusive, Fresh, Apart, Writes
<1>9. ASSUME NEW u \in Uploads, Publish(u) PROVE Paths'
  BY <1>9, <1>a, <1>b DEF Publish, Goto, Fails, Paths, Exclusive, Fresh, Apart, Writes
<1>10. ASSUME NEW u \in Uploads, Discard(u) PROVE Paths'
  BY <1>10, <1>a, <1>b DEF Discard, Goto, Paths, Exclusive, Fresh, Apart, Writes
<1>11. ASSUME NEW u \in Uploads, Finish(u) PROVE Paths'
  BY <1>11, <1>a, <1>b DEF Finish, Goto, fileVars, Paths, Exclusive, Fresh, Apart, Writes
<1>12. ASSUME NEW u \in Uploads, RowDividesByZero(u) PROVE Paths'
  BY <1>12, <1>a, <1>b DEF RowDividesByZero, Goto, Fails, fileVars, Paths, Exclusive, Fresh,
                           Apart, Writes
<1>13. CASE ServerCrashes
  BY <1>13, <1>a, <1>b DEF ServerCrashes, fileVars, Paths, Exclusive, Fresh, Apart, Writes
<1>14. CASE UNCHANGED vars
  BY <1>14, <1>b DEF vars, handlerVars, fileVars, Paths, Exclusive, Fresh, Apart, Writes
<1> QED
  BY <1>1, <1>2, <1>3, <1>4, <1>5, <1>6, <1>7, <1>8, <1>9, <1>10, <1>11,
     <1>12, <1>13, <1>14 DEF Next, Handler

\* A step of a handler that changes at most what one unpublished inode of its
\* file holds, and does not verify, disturbs no checksum taken before.
LEMMA ContentNext ==
    ASSUME Safe, Paths, Verified, FinalComplete,
           NEW u \in Uploads, pc[u] \notin Ended, pc'[u] # "verified",
           NEW inode \in Uploads, FileOf[inode] = FileOf[u],
           \A f \in Files : final[f] # inode,
           \A i \in Uploads : i # inode => content'[i] = content[i],
           \A v \in Uploads : v # u => pc'[v] = pc[v],
           \A f \in Files : f # FileOf[u] => part'[f] = part[f],
           UNCHANGED <<final, verdict>>
    PROVE  Verified' /\ FinalComplete'
<1> USE UploadPlan
<1>1. /\ part \in [Files -> Uploads \cup {None}]
      /\ final \in [Files -> Uploads \cup {None}]
  BY DEF Safe, TypeOK
<1>2. FinalComplete'
  BY <1>1 DEF FinalComplete, Whole
<1>3. ASSUME NEW v \in Uploads, pc'[v] = "verified", verdict'[v], part'[FileOf[v]] # None
      PROVE  content'[part'[FileOf[v]]] = Whole(FileOf[v])
  <2>1. v # u /\ FileOf[v] # FileOf[u]
    BY <1>3 DEF Paths, Exclusive, Ended
  <2>2. part'[FileOf[v]] = part[FileOf[v]] /\ part[FileOf[v]] \in Uploads
    BY <1>1, <1>3, <2>1
  <2>3. content'[part[FileOf[v]]] = content[part[FileOf[v]]]
    BY <1>1, <2>1, <2>2 DEF Paths, Apart
  <2> QED BY <1>3, <2>1, <2>2, <2>3 DEF Verified
<1> QED BY <1>2, <1>3 DEF Verified, Whole

\* A handler that reads its stream writes to an unpublished inode of its file.
LEMMA StreamInode ==
    ASSUME Safe, Paths, NEW u \in Uploads, pc[u] = "stream"
    PROVE  /\ handle[u] \in Uploads
           /\ FileOf[handle[u]] = FileOf[u]
           /\ \A f \in Files : final[f] # handle[u]
<1>1. /\ part \in [Files -> Uploads \cup {None}]
      /\ final \in [Files -> Uploads \cup {None}]
      /\ handle[u] \in Uploads \cup {None}
      /\ FileOf[u] \in Files
  BY UploadPlan DEF Safe, TypeOK
<1>2. handle[u] # None /\ handle[u] = part[FileOf[u]]
  BY DEF Safe, Opened, Paths, Writes
<1>3. FileOf[handle[u]] = FileOf[u]
  BY <1>1, <1>2 DEF Paths, Apart
<1>4. ASSUME NEW f \in Files, final[f] = handle[u] PROVE FALSE
  BY <1>1, <1>2, <1>3, <1>4 DEF Paths, Apart
<1> QED BY <1>1, <1>2, <1>3, <1>4

\* The inductive step of FinalComplete.
LEMMA IInvNext ==
    ASSUME Discipline = "handler", IInv, [Next]_vars
    PROVE  IInv'
<1> USE UploadPlan DEF Ended
<1>0. Safe' /\ Paths'
  BY SafeNext, PathsNext DEF IInv
<1>a. TypeOK /\ Safe /\ Paths /\ Verified /\ FinalComplete
  BY DEF IInv, Safe
<1>b. /\ pc \in [Uploads -> Ended \cup Running \cup {"queued"}]
      /\ part \in [Files -> Uploads \cup {None}]
      /\ final \in [Files -> Uploads \cup {None}]
      /\ verdict \in [Uploads -> BOOLEAN]
      /\ content \in [Uploads -> SUBSET Nat]
  BY <1>a DEF TypeOK
<1>c. Exclusive
  BY <1>a DEF Paths
<1>1. ASSUME NEW u \in Uploads, Call(u) PROVE Verified' /\ FinalComplete'
  BY <1>1, <1>a, <1>b DEF Call, Goto, fileVars, Verified, FinalComplete, Whole
<1>2. ASSUME NEW u \in Uploads, GiveUp(u) PROVE Verified' /\ FinalComplete'
  BY <1>2, <1>a DEF GiveUp, handlerVars, fileVars, Verified, FinalComplete, Whole
<1>3. ASSUME NEW u \in Uploads, Begin(u) PROVE Verified' /\ FinalComplete'
  BY <1>3, <1>a, <1>b DEF Begin, Goto, fileVars, Verified, FinalComplete, Whole
<1>4. ASSUME NEW u \in Uploads, ReceiveMetadata(u) PROVE Verified' /\ FinalComplete'
  <2> DEFINE inode == IF part[FileOf[u]] = None THEN u ELSE part[FileOf[u]]
  <2>1. inode \in Uploads /\ FileOf[inode] = FileOf[u]
    BY <1>4, <1>a, <1>b DEF Paths, Apart
  <2>2. ASSUME NEW f \in Files, final[f] = inode PROVE FALSE
    BY <1>4, <1>a, <1>b, <2>1, <2>2 DEF ReceiveMetadata, Paths, Apart, Fresh
  <2>3. /\ content' = [content EXCEPT ![inode] = {}]
        /\ part' = [part EXCEPT ![FileOf[u]] = inode]
        /\ pc' = [pc EXCEPT ![u] = "stream"] /\ pc[u] = "called"
        /\ UNCHANGED <<final, verdict>>
    BY <1>4 DEF ReceiveMetadata, Goto
  <2> HIDE DEF inode
  <2>4. /\ \A i \in Uploads : i # inode => content'[i] = content[i]
        /\ \A v \in Uploads : v # u => pc'[v] = pc[v]
        /\ \A f \in Files : f # FileOf[u] => part'[f] = part[f]
        /\ pc'[u] # "verified" /\ pc[u] \notin Ended
    BY <1>b, <2>3
  <2> QED BY <1>a, <2>1, <2>2, <2>3, <2>4, ContentNext
<1>5. ASSUME NEW u \in Uploads, ReceiveChunk(u) PROVE Verified' /\ FinalComplete'
  <2>1. pc[u] = "stream" /\ handle[u] # None
    BY <1>5, <1>a DEF ReceiveChunk, Safe, Opened
  <2>2. \A i \in Uploads : i # handle[u] => content'[i] = content[i]
    BY <1>5, <1>a, <2>1, ChunkTypes, WrittenFacts DEF ReceiveChunk
  <2> QED BY <1>5, <1>a, <2>1, <2>2, StreamInode, ContentNext DEF ReceiveChunk
<1>6. ASSUME NEW u \in Uploads, EndOfStream(u) PROVE Verified' /\ FinalComplete'
  <2>1. pc[u] = "stream" /\ handle[u] # None
    BY <1>6, <1>a DEF EndOfStream, Safe, Opened
  <2>2. \A i \in Uploads : i # handle[u] => content'[i] = content[i]
    BY <1>6, <1>a, <2>1, ChunkTypes, WrittenFacts DEF EndOfStream
  <2>3. /\ pc'[u] = "closed"
        /\ \A v \in Uploads : v # u => pc'[v] = pc[v]
        /\ UNCHANGED <<part, final, verdict>>
    BY <1>6, <1>b DEF EndOfStream, Goto
  <2> QED BY <1>a, <2>1, <2>2, <2>3, StreamInode, ContentNext
<1>7. ASSUME NEW u \in Uploads, Aborted(u) PROVE Verified' /\ FinalComplete'
  <2>1. /\ pc'[u] = "failed"
        /\ \A v \in Uploads : v # u => pc'[v] = pc[v]
        /\ UNCHANGED <<final, verdict>>
        /\ \A f \in Files : f # FileOf[u] => part'[f] = part[f]
    BY <1>7, <1>b DEF Aborted, Goto
  <2>2. CASE pc[u] = "called" /\ UNCHANGED <<part, content>>
    BY <1>a, <1>b, <2>1, <2>2 DEF Verified, FinalComplete, Whole
  <2>3. CASE pc[u] = "stream"
    <3>1. handle[u] # None
      BY <1>a, <2>3 DEF Safe, Opened
    <3>2. \A i \in Uploads : i # handle[u] => content'[i] = content[i]
      BY <1>7, <1>a, <2>3, <3>1, ChunkTypes, WrittenFacts DEF Aborted
    <3> QED BY <1>a, <2>1, <2>3, <3>2, StreamInode, ContentNext
  <2> QED BY <1>7, <2>2, <2>3 DEF Aborted
<1>8. ASSUME NEW u \in Uploads, Verify(u) PROVE Verified' /\ FinalComplete'
  BY <1>8, <1>a, <1>b DEF Verify, Goto, Fails, fileVars, Verified, FinalComplete, Whole
<1>9. ASSUME NEW u \in Uploads, Publish(u) PROVE Verified' /\ FinalComplete'
  <2>1. /\ content' = content /\ verdict' = verdict
        /\ pc'[u] # "verified" /\ pc[u] = "verified" /\ verdict[u]
        /\ \A v \in Uploads : v # u => pc'[v] = pc[v]
        /\ \A f \in Files : f # FileOf[u] => part'[f] = part[f]
    BY <1>9, <1>b DEF Publish, Goto, Fails
  <2>2. Verified'
    BY <1>a, <1>c, <2>1 DEF Exclusive, Verified, Whole
  <2>3. CASE part[FileOf[u]] = None
    BY <1>9, <1>a, <2>1, <2>2, <2>3 DEF Publish, FinalComplete, Whole
  <2>4. CASE part[FileOf[u]] # None
    <3>1. final' = [final EXCEPT ![FileOf[u]] = part[FileOf[u]]]
      BY <1>9, <2>4 DEF Publish
    <3>2. content[part[FileOf[u]]] = Whole(FileOf[u])
      BY <1>a, <2>1, <2>4 DEF Verified
    <3> QED BY <1>a, <1>b, <2>1, <2>2, <3>1, <3>2 DEF FinalComplete, Whole
  <2> QED BY <2>2, <2>3, <2>4
<1>10. ASSUME NEW u \in Uploads, Discard(u) PROVE Verified' /\ FinalComplete'
  BY <1>10, <1>a, <1>b, <1>c DEF Discard, Goto, Exclusive, Verified, FinalComplete, Whole
<1>11. ASSUME NEW u \in Uploads, Finish(u) PROVE Verified' /\ FinalComplete'
  BY <1>11, <1>a, <1>b DEF Finish, Goto, fileVars, Verified, FinalComplete, Whole
<1>12. ASSUME NEW u \in Uploads, RowDividesByZero(u) PROVE Verified' /\ FinalComplete'
  BY <1>12, <1>a, <1>b DEF RowDividesByZero, Goto, Fails, fileVars, Verified,
                           FinalComplete, Whole
<1>13. ASSUME ServerCrashes PROVE Verified' /\ FinalComplete'
  BY <1>13, <1>a, <1>b DEF ServerCrashes, fileVars, Verified, FinalComplete, Whole
<1>14. ASSUME UNCHANGED vars PROVE Verified' /\ FinalComplete'
  BY <1>14, <1>a DEF vars, handlerVars, fileVars, Verified, FinalComplete, Whole
<1>15. Verified' /\ FinalComplete'
  BY <1>1, <1>2, <1>3, <1>4, <1>5, <1>6, <1>7, <1>8, <1>9, <1>10, <1>11,
     <1>12, <1>13, <1>14 DEF IInv, Next, Handler
<1> QED BY <1>0, <1>15 DEF IInv

\* The initial state satisfies the invariant.
LEMMA InitIInv == Init => IInv
<1>1. Init => Safe
  BY TypeInit DEF Init, Safe, Opened, PartOwned, Answered
<1>2. Init => Paths /\ Verified /\ FinalComplete
  BY UploadPlan DEF Init, Paths, Exclusive, Fresh, Apart, Writes, Verified, FinalComplete, Ended
<1> QED BY <1>1, <1>2 DEF IInv

\* grpc_server.py:63-65: when a file is sent again only after the handler of
\* its last upload ended, what is at a final name is always the whole file,
\* through aborted uploads, altered files and server crashes.
THEOREM FinalCompleteHolds ==
    ASSUME Discipline = "handler"
    PROVE  Spec => []FinalComplete
<1>1. Init => IInv
  BY InitIInv
<1>2. IInv /\ [Next]_vars => IInv'
  BY IInvNext
<1>3. IInv => FinalComplete
  BY DEF IInv
<1> QED
  BY <1>1, <1>2, <1>3, PTL DEF Spec

----------------------------------------------------------------------------
(* The handlers implement UploadService.  FinalComplete makes a published   *)
(* name a name that shows a whole file, so only two steps are more than a   *)
(* stutter or a failure: the rename, and the answer that follows it.        *)

\* what the clients have been told, as Upload sees it
Told == [u \in Uploads |-> CASE client[u] = "ok" -> "ok"
                             [] client[u] \in {"corrupt", "error"} -> "failed"
                             [] OTHER -> "nothing"]

Published == {f \in Files : final[f] # None}

\* The mapped state, read with FinalComplete.
LEMMA Mapped ==
    ASSUME FinalComplete
    PROVE  Published = {f \in Files : final[f] # None /\ content[final[f]] = Whole(f)}
BY DEF FinalComplete, Published

\* What Upload sees of a client, by what the client knows.
LEMMA ToldOf ==
    ASSUME TypeOK, NEW u \in Uploads
    PROVE  /\ client[u] = "ok" => Told[u] = "ok"
           /\ client[u] \in {"corrupt", "error"} => Told[u] = "failed"
           /\ client[u] \in {"none", "waiting"} => Told[u] = "nothing"
BY DEF Told

\* A step that publishes nothing, and in which clients at most learn of failures,
\* is a failure step of the service, one of no client if none learns of any.
LEMMA FailStep ==
    ASSUME TypeOK, TypeOK', FinalComplete, FinalComplete', UNCHANGED final,
           \A u \in Uploads :
               \/ client'[u] = client[u]
               \/ client[u] = "none" /\ client'[u] = "waiting"
               \/ client[u] \notin {"ok"} /\ client'[u] \in {"corrupt", "error"}
    PROVE  Upload!Next
<1> DEFINE failed == {u \in Uploads : Told[u] = "nothing" /\ Told'[u] = "failed"}
<1>1. Published' = Published
  BY DEF Published
<1>2. ASSUME NEW u \in Uploads
      PROVE  Told'[u] = IF u \in failed THEN "failed" ELSE Told[u]
  <2>1. client[u] \in {"none", "waiting", "ok", "corrupt", "error"}
    BY DEF TypeOK
  <2>2. /\ client'[u] = "ok" => Told'[u] = "ok"
        /\ client'[u] \in {"corrupt", "error"} => Told'[u] = "failed"
        /\ client'[u] \in {"none", "waiting"} => Told'[u] = "nothing"
    BY DEF Told
  <2> QED BY <2>1, <2>2, ToldOf
<1>3. Told' = [u \in Uploads |-> IF u \in failed THEN "failed" ELSE Told[u]]
  BY <1>2 DEF Told
<1>4. failed \in SUBSET Uploads /\ \A u \in failed : Told[u] = "nothing"
  OBVIOUS
<1> HIDE DEF failed
<1>5. Upload!Fail(failed)
  <2>1. {f \in Files : final[f] # None /\ content[final[f]] = Whole(f)}'
           = {f \in Files : final[f] # None /\ content[final[f]] = Whole(f)}
    BY <1>1, Mapped DEF Published, FinalComplete
  <2>2. [f \in Files |-> None]' = [f \in Files |-> None] /\ {} \in SUBSET {}
    OBVIOUS
  <2> QED BY <1>3, <1>4, <2>1, <2>2, Zenon DEF Upload!Fail, Told
<1> QED BY <1>4, <1>5, Zenon DEF Upload!Next, Upload!Fail

\* The rename stores the file of an upload; without a .part file the handler fails.
LEMMA PublishStep ==
    ASSUME IInv, IInv', NEW u \in Uploads, Publish(u)
    PROVE  Upload!Next
<1>a. /\ TypeOK /\ TypeOK' /\ FinalComplete /\ FinalComplete' /\ Answered
      /\ final \in [Files -> Uploads \cup {None}]
      /\ part \in [Files -> Uploads \cup {None}]
      /\ client \in [Uploads -> {"none", "waiting", "ok", "corrupt", "error"}]
      /\ FileOf[u] \in Files
  BY UploadPlan DEF IInv, Safe, TypeOK
<1>1. CASE part[FileOf[u]] = None
  <2>1. final' = final /\ client' = [client EXCEPT ![u] = "error"] /\ pc[u] = "verified"
    BY <1>1, Zenon DEF Publish, Fails
  <2>2. client[u] # "ok"
    BY <1>a, <2>1 DEF Answered
  <2> QED BY <1>a, <2>1, <2>2, FailStep
<1>2. CASE part[FileOf[u]] # None
  <2>1. /\ final' = [final EXCEPT ![FileOf[u]] = part[FileOf[u]]]
        /\ UNCHANGED client
    BY <1>2, Zenon DEF Publish
  <2>2. Published' = Published \cup {FileOf[u]}
    BY <1>a, <1>2, <2>1 DEF Published
  <2>3. {f \in Files : final[f] # None /\ content[final[f]] = Whole(f)}'
           = {f \in Files : final[f] # None /\ content[final[f]] = Whole(f)} \cup {FileOf[u]}
    BY <1>a, <2>2, Mapped DEF Published, FinalComplete
  <2>4. Told' = Told
    BY <2>1 DEF Told
  <2>5. {}' = {} \ {u} /\ [f \in Files |-> None]' = [f \in Files |-> None]
    OBVIOUS
  <2>6. Upload!Store(u)
    BY <2>3, <2>4, <2>5, Zenon DEF Upload!Store, Told
  <2> QED BY <2>6, Zenon DEF Upload!Next, Upload!Store
<1> QED BY <1>1, <1>2

\* The answer tells a client that still waits of a published file, or fails it.
LEMMA FinishStep ==
    ASSUME IInv, IInv', NEW u \in Uploads, Finish(u)
    PROVE  Upload!Next
<1>a. /\ TypeOK /\ TypeOK' /\ FinalComplete /\ FinalComplete' /\ Answered
      /\ client \in [Uploads -> {"none", "waiting", "ok", "corrupt", "error"}]
      /\ FileOf[u] \in Files
  BY UploadPlan DEF IInv, Safe, TypeOK
<1>1. /\ UNCHANGED <<final, content>> /\ pc[u] = "moved"
      /\ client' = [client EXCEPT ![u] = IF @ = "waiting" THEN Result(u) ELSE @]
  BY DEF Finish, fileVars
<1>2. CASE client[u] = "waiting" /\ verdict[u]
  <2>1. client' = [client EXCEPT ![u] = "ok"]
    BY <1>1, <1>2, Zenon DEF Result
  <2>2. FileOf[u] \in {f \in Files : final[f] # None /\ content[final[f]] = Whole(f)}
    BY <1>1, <1>2, <1>a DEF Answered, FinalComplete
  <2>3. Told[u] = "nothing"
    BY <1>2 DEF Told
  <2>4. Told' = [Told EXCEPT ![u] = "ok"]
    BY <1>a, <2>1 DEF Told
  <2>5. {f \in Files : final[f] # None /\ content[final[f]] = Whole(f)}'
           = {f \in Files : final[f] # None /\ content[final[f]] = Whole(f)}
    BY <1>1 DEF Whole
  <2>6. Upload!TellOk(u)
    BY <2>2, <2>3, <2>4, <2>5, Zenon DEF Upload!TellOk, Told
  <2> QED BY <2>6, Zenon DEF Upload!Next, Upload!TellOk
<1>3. CASE client[u] = "waiting" /\ ~verdict[u]
  <2>1. client' = [client EXCEPT ![u] = "corrupt"]
    BY <1>1, <1>3, Zenon DEF Result
  <2> QED BY <1>1, <1>3, <1>a, <2>1, FailStep
<1>4. CASE client[u] # "waiting"
  <2>1. client' = client
    BY <1>1, <1>4, <1>a
  <2> QED BY <1>1, <1>a, <2>1, FailStep
<1> QED BY <1>2, <1>3, <1>4, Zenon

\* Every other step publishes nothing, and clients learn at most of failures.
LEMMA OtherStep ==
    ASSUME IInv, IInv', [Next]_vars,
           \A u \in Uploads : ~Publish(u) /\ ~Finish(u)
    PROVE  Upload!Next
<1> USE DEF Ended, Running
<1>a. /\ TypeOK /\ TypeOK' /\ FinalComplete /\ FinalComplete' /\ Answered
      /\ client \in [Uploads -> {"none", "waiting", "ok", "corrupt", "error"}]
  BY DEF IInv, Safe, TypeOK
<1> DEFINE Learns ==
      /\ final' = final
      /\ \A v \in Uploads :
            \/ client'[v] = client[v]
            \/ client[v] = "none" /\ client'[v] = "waiting"
            \/ client[v] \notin {"ok"} /\ client'[v] \in {"corrupt", "error"}
<1>1. ASSUME NEW u \in Uploads, Call(u) PROVE Learns
  BY <1>1, <1>a DEF Call, fileVars
<1>2. ASSUME NEW u \in Uploads, GiveUp(u) PROVE Learns
  BY <1>2, <1>a DEF GiveUp, fileVars
<1>3. ASSUME NEW u \in Uploads,
             \/ Begin(u) \/ ReceiveMetadata(u) \/ ReceiveChunk(u) \/ EndOfStream(u)
             \/ Aborted(u) \/ Discard(u)
      PROVE  Learns
  BY <1>3 DEF Begin, ReceiveMetadata, ReceiveChunk, EndOfStream, Aborted, Discard, fileVars
<1>4. ASSUME NEW u \in Uploads, Verify(u) PROVE Learns
  BY <1>4, <1>a DEF Verify, Fails, fileVars, Answered
<1>5. ASSUME NEW u \in Uploads, RowDividesByZero(u) PROVE Learns
  BY <1>5, <1>a DEF RowDividesByZero, Fails, fileVars, Answered
<1>6. ASSUME ServerCrashes PROVE Learns
  BY <1>6, <1>a DEF ServerCrashes, fileVars
<1>7. ASSUME UNCHANGED vars PROVE Learns
  BY <1>7 DEF vars, fileVars
<1>8. Learns
  BY <1>1, <1>2, <1>3, <1>4, <1>5, <1>6, <1>7 DEF Next, Handler
<1> QED BY <1>a, <1>8, FailStep

\* ImplementsUpload: as long as the handlers of one file do not overlap, the gRPC
\* service is an upload service, whatever its workers, its clients' deadlines and
\* its crashes do: a name that shows a whole file is never taken back, and a
\* client is told ok only of a file that is shown (grpc_server.py:60-154).
THEOREM ImplementsUploadHolds ==
    ASSUME Discipline = "handler"
    PROVE  Spec => ImplementsUpload
<1>1. Init => Upload!Init
  <2> SUFFICES ASSUME Init PROVE Upload!Init
    OBVIOUS
  <2>1. {f \in Files : final[f] # None /\ content[final[f]] = Whole(f)} = {}
    BY DEF Init
  <2>2. Told = [u \in Uploads |-> "nothing"]
    BY DEF Init, Told
  <2> QED BY <2>1, <2>2, Zenon DEF Upload!Init, Told
<1>2. IInv /\ IInv' /\ [Next]_vars => [Upload!Next]_(Upload!vars)
  BY PublishStep, FinishStep, OtherStep
<1>3. Init => IInv
  BY InitIInv
<1>4. IInv /\ [Next]_vars => IInv'
  BY IInvNext
<1> QED
  BY <1>1, <1>2, <1>3, <1>4, PTL DEF Spec, ImplementsUpload, Upload!Spec

\* What that means to the clients: one that is told ok finds its whole file under
\* its final name, and a name that has shown a whole file goes on showing it
\* (grpc_server.py:63 "Only publish the final name once the checksum matches").
THEOREM OkStaysShown ==
    ASSUME Discipline = "handler"
    PROVE  Spec => []Upload!ToldOkIsShown /\ Upload!ShownStays
<1> DEFINE Shown == {f \in Files : final[f] # None /\ content[final[f]] = Whole(f)}
<1>1. IInv => Upload!ToldOkIsShown
  <2> SUFFICES ASSUME IInv PROVE Upload!ToldOkIsShown
    OBVIOUS
  <2>1. ASSUME NEW u \in Uploads, Told[u] = "ok"
        PROVE  FileOf[u] \in Shown
    <3>1. client[u] = "ok"
      BY <2>1 DEF IInv, Safe, TypeOK, Told
    <3>2. FileOf[u] \in Published
      BY <3>1, UploadPlan DEF IInv, Safe, Answered, Published
    <3> QED BY <3>2, Mapped DEF IInv
  <2> QED BY <2>1, Zenon DEF Upload!ToldOkIsShown, Told
<1>2. ASSUME [Upload!Next]_(Upload!vars)
      PROVE  Shown \subseteq Shown'
  <2>1. ASSUME NEW u \in Uploads, Upload!Begin(u) PROVE FALSE
    BY <2>1, Zenon DEF Upload!Begin
  <2>2. ASSUME NEW u \in Uploads, Upload!Store(u)
        PROVE  Shown' \in {Shown, Shown \cup {FileOf[u]}}
    BY <2>2, Zenon DEF Upload!Store
  <2>3. ASSUME NEW u \in Uploads, Upload!TellOk(u)
        PROVE  Shown' = Shown
    BY <2>3, Zenon DEF Upload!TellOk
  <2>4. ASSUME NEW failed \in SUBSET Uploads, Upload!Fail(failed)
        PROVE  Shown' = Shown
    BY <2>4, Zenon DEF Upload!Fail
  <2>5. CASE UNCHANGED Upload!vars
    BY <2>5, Zenon DEF Upload!vars
  <2> QED BY <1>2, <2>1, <2>2, <2>3, <2>4, <2>5, Zenon DEF Upload!Next
<1>3. [Upload!Next]_(Upload!vars)
        => [~FALSE => Shown \subseteq Shown']_(Upload!vars)
  BY <1>2
<1>4. Upload!Spec => Upload!ShownStays
  BY <1>3, PTL DEF Upload!Spec, Upload!ShownStays
<1>5. Init => IInv
  BY InitIInv
<1>6. IInv /\ [Next]_vars => IInv'
  BY IInvNext
<1> QED
  BY <1>1, <1>4, <1>5, <1>6, ImplementsUploadHolds, PTL DEF Spec, ImplementsUpload
=============================================================================
