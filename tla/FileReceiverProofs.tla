------------------------- MODULE FileReceiverProofs -------------------------
(* Proofs about FileReceiver, for every campaign plan and every order in    *)
(* which metadata, chunks, kills and restarts reach the receiver.           *)
EXTENDS FileReceiver, SequenceTheorems, TLAPS

\* While a handle is open, received_chunks counts what was written to it:
\* the bytes on disk and the bytes still buffered.
CountsContent ==
    open => received = Len(disk[FileOf[current]]) + Len(buffered)

Inv == TypeOK /\ CountsContent

\* Writing a chunk keeps the disk and the buffer sequences of chunks, and adds
\* exactly one chunk to the two together.
LEMMA WriteAddsOne ==
    ASSUME TypeOK, open, NEW c \in Chunks, NEW fits \in MayFit(c)
    PROVE  /\ OnDisk(c, fits) \in Seq(Chunks)
           /\ BufferAfter(c, fits) \in Seq(Chunks)
           /\ Len(OnDisk(c, fits)) + Len(BufferAfter(c, fits))
                 = Len(disk[FileOf[current]]) + Len(buffered) + 1
<1> DEFINE before == disk[FileOf[current]]
<1>1. current \in Transfers /\ FileOf[current] \in Files
  BY FilePlan DEF TypeOK
<1>2. before \in Seq(Chunks) /\ buffered \in Seq(Chunks)
  BY <1>1 DEF TypeOK
<1>3. /\ before \o buffered \in Seq(Chunks)
      /\ Len(before \o buffered) = Len(before) + Len(buffered)
  BY <1>2, ConcatProperties
<1>4. /\ Append(before \o buffered, c) \in Seq(Chunks)
      /\ Len(Append(before \o buffered, c)) = Len(before) + Len(buffered) + 1
  BY <1>3, AppendProperties
<1>5. /\ Append(buffered, c) \in Seq(Chunks)
      /\ Len(Append(buffered, c)) = Len(buffered) + 1
  BY <1>2, AppendProperties
<1>6. <<c>> \in Seq(Chunks) /\ Len(<<c>>) = 1 /\ <<>> \in Seq(Chunks) /\ Len(<<>>) = 0
  OBVIOUS
<1>7. Len(before) + (Len(buffered) + 1) = Len(before) + Len(buffered) + 1
  <2>1. Len(before) \in Nat /\ Len(buffered) \in Nat
    BY <1>2, LenProperties
  <2>2. \A m, n \in Nat : m + (n + 1) = m + n + 1
    OBVIOUS
  <2> QED BY <2>1, <2>2, Zenon
<1>8. CASE fits
  <2>1. OnDisk(c, fits) = before /\ BufferAfter(c, fits) = Append(buffered, c)
    BY <1>8, Zenon DEF OnDisk, BufferAfter
  <2>2. /\ OnDisk(c, fits) \in Seq(Chunks)
        /\ BufferAfter(c, fits) \in Seq(Chunks)
    BY <2>1, <1>2, <1>5, Zenon
  <2>3. /\ Len(OnDisk(c, fits)) = Len(before)
        /\ Len(BufferAfter(c, fits)) = Len(buffered) + 1
    BY <2>1, <1>5, Zenon
  <2>4. Len(OnDisk(c, fits)) + Len(BufferAfter(c, fits))
           = Len(before) + (Len(buffered) + 1)
    BY <2>3, Zenon
  <2> QED BY <2>2, <2>4, <1>7, Zenon
<1>9. CASE ~fits
  BY <1>3, <1>4, <1>6, <1>7, <1>9 DEF OnDisk, BufferAfter
<1> QED BY <1>8, <1>9

\* The initial state satisfies the invariant.
LEMMA InvInit == ReceiverInit => Inv
<1> SUFFICES ASSUME ReceiverInit PROVE Inv
  OBVIOUS
<1>1. /\ <<>> \in Seq(Chunks)
      /\ <<>> \in Seq([transfer : Transfers, ok : BOOLEAN])
  OBVIOUS
<1>2. disk \in [Files -> Seq(Chunks)] /\ open = FALSE
  BY <1>1 DEF ReceiverInit
<1>3. TypeOK
  BY <1>1, <1>2 DEF ReceiverInit, TypeOK
<1> QED BY <1>2, <1>3 DEF Inv, CountsContent

\* Closing the held handle keeps the disk well typed.
LEMMA CloseType == TypeOK => DiskWhenClosed \in [Files -> Seq(Chunks)]
<1> SUFFICES ASSUME TypeOK PROVE DiskWhenClosed \in [Files -> Seq(Chunks)]
  OBVIOUS
<1>1. CASE open
  <2>1. FileOf[current] \in Files
    BY <1>1, FilePlan DEF TypeOK
  <2>2. disk[FileOf[current]] \o buffered \in Seq(Chunks)
    BY <2>1, ConcatProperties DEF TypeOK
  <2> QED BY <1>1, <2>1, <2>2 DEF TypeOK, DiskWhenClosed
<1>2. CASE ~open
  BY <1>2 DEF TypeOK, DiskWhenClosed
<1> QED BY <1>1, <1>2

\* A metadata message preserves the invariant.
LEMMA InvControl == ASSUME Inv, NEW t \in Transfers, OnControl(t) PROVE Inv'
<1>1. FileOf[t] \in Files /\ t # NoTransfer
  BY FilePlan DEF Transfers, NoTransfer
<1>2. DiskWhenClosed \in [Files -> Seq(Chunks)]
  BY CloseType DEF Inv
<1>3. disk' \in [Files -> Seq(Chunks)] /\ disk'[FileOf[t]] = <<>>
  BY <1>1, <1>2 DEF OnControl
<1>4. TypeOK'
  BY <1>1, <1>3 DEF Inv, TypeOK, OnControl
<1>5. CountsContent'
  BY <1>3 DEF OnControl, CountsContent
<1> QED BY <1>4, <1>5 DEF Inv

\* A chunk that does not complete the transfer preserves the invariant.
LEMMA InvStore == ASSUME Inv, NEW c \in Chunks, StoreChunk(c) PROVE Inv'
<1>1. PICK fits \in MayFit(c) :
        /\ disk' = [disk EXCEPT ![FileOf[current]] = OnDisk(c, fits)]
        /\ buffered' = BufferAfter(c, fits)
  BY DEF StoreChunk
<1>2. open /\ FileOf[current] \in Files
  BY FilePlan DEF StoreChunk, Inv, TypeOK
<1>3. /\ OnDisk(c, fits) \in Seq(Chunks)
      /\ BufferAfter(c, fits) \in Seq(Chunks)
      /\ Len(OnDisk(c, fits)) + Len(BufferAfter(c, fits))
            = Len(disk[FileOf[current]]) + Len(buffered) + 1
  BY <1>2, WriteAddsOne DEF Inv
<1>4. /\ disk' \in [Files -> Seq(Chunks)]
      /\ disk'[FileOf[current]] = OnDisk(c, fits)
  BY <1>1, <1>2, <1>3 DEF Inv, TypeOK
<1>5. TypeOK'
  BY <1>1, <1>3, <1>4 DEF Inv, TypeOK, StoreChunk
<1>6. CountsContent'
  BY <1>1, <1>2, <1>3, <1>4 DEF Inv, CountsContent, StoreChunk
<1> QED BY <1>5, <1>6 DEF Inv

\* What the step that writes a row does: it appends one row for the transfer
\* whose metadata is held and leaves the file with exactly the announced
\* number of chunks, all of which were on disk if the row reports integrity.
LEMMA CompletionFacts ==
    ASSUME Inv, NEW c \in Chunks, CompleteTransfer(c)
    PROVE  \E fits \in MayFit(c) :
              /\ current \in Transfers
              /\ rows' = Append(rows, [transfer |-> current,
                             ok |-> OnDisk(c, fits) = Source(FileOf[current])])
              /\ disk' \in [Files -> Seq(Chunks)]
              /\ disk'[FileOf[current]] = OnDisk(c, fits) \o BufferAfter(c, fits)
              /\ OnDisk(c, fits) \in Seq(Chunks)
              /\ BufferAfter(c, fits) \in Seq(Chunks)
              /\ Len(OnDisk(c, fits)) + Len(BufferAfter(c, fits)) = Expected
<1>1. PICK fits \in MayFit(c) :
        /\ rows' = Append(rows, [transfer |-> current,
                                 ok |-> OnDisk(c, fits) = Source(FileOf[current])])
        /\ disk' = [disk EXCEPT ![FileOf[current]] =
                       OnDisk(c, fits) \o BufferAfter(c, fits)]
  BY DEF CompleteTransfer
<1>2. open /\ current \in Transfers /\ FileOf[current] \in Files
  BY FilePlan DEF CompleteTransfer, Inv, TypeOK
<1>3. /\ OnDisk(c, fits) \in Seq(Chunks)
      /\ BufferAfter(c, fits) \in Seq(Chunks)
      /\ Len(OnDisk(c, fits)) + Len(BufferAfter(c, fits))
            = Len(disk[FileOf[current]]) + Len(buffered) + 1
  BY <1>2, WriteAddsOne DEF Inv
<1>4. OnDisk(c, fits) \o BufferAfter(c, fits) \in Seq(Chunks)
  BY <1>3, ConcatProperties
<1>5. /\ disk' \in [Files -> Seq(Chunks)]
      /\ disk'[FileOf[current]] = OnDisk(c, fits) \o BufferAfter(c, fits)
  BY <1>1, <1>2, <1>4 DEF Inv, TypeOK
<1>6. Len(OnDisk(c, fits)) + Len(BufferAfter(c, fits)) = Expected
  BY <1>2, <1>3 DEF Inv, CountsContent, CompleteTransfer
<1> QED BY <1>1, <1>2, <1>3, <1>5, <1>6

\* The chunk that completes a transfer preserves the invariant.
LEMMA InvComplete == ASSUME Inv, NEW c \in Chunks, CompleteTransfer(c) PROVE Inv'
<1>1. /\ current \in Transfers
      /\ disk' \in [Files -> Seq(Chunks)]
      /\ rows' \in Seq([transfer : Transfers, ok : BOOLEAN])
  <2>1. PICK fits \in MayFit(c) :
              /\ current \in Transfers
              /\ rows' = Append(rows, [transfer |-> current,
                             ok |-> OnDisk(c, fits) = Source(FileOf[current])])
              /\ disk' \in [Files -> Seq(Chunks)]
    BY CompletionFacts
  <2>2. [transfer |-> current, ok |-> OnDisk(c, fits) = Source(FileOf[current])]
          \in [transfer : Transfers, ok : BOOLEAN]
    BY <2>1
  <2> QED BY <2>1, <2>2, AppendProperties DEF Inv, TypeOK
<1>2. /\ received' = received + 1 /\ open' = FALSE /\ buffered' = <<>>
      /\ current' = current /\ warning' = warning
  BY DEF CompleteTransfer
<1>3. TypeOK'
  <2>1. open' \in BOOLEAN /\ (open' => current' # NoTransfer)
    BY <1>2
  <2>2. received' \in Nat
    BY <1>2 DEF Inv, TypeOK
  <2>3. buffered' \in Seq(Chunks)
    BY <1>2
  <2>4. warning' \in [transfer : Transfers \cup {NoTransfer}, count : Nat]
    BY <1>2 DEF Inv, TypeOK
  <2>5. current' \in Transfers \cup {NoTransfer}
    BY <1>1, <1>2
  <2> QED BY <1>1, <2>1, <2>2, <2>3, <2>4, <2>5 DEF TypeOK
<1> QED BY <1>2, <1>3 DEF Inv, CountsContent

\* A receiver that is killed has forgotten its state, and what it had on disk is
\* what a reader finds.
LEMMA InvKilled ==
    ASSUME Inv, Forgotten, disk' \in [Files -> Seq(Chunks)],
           rows' \in Seq([transfer : Transfers, ok : BOOLEAN]),
           warning' \in [transfer : Transfers \cup {NoTransfer}, count : Nat]
    PROVE  Inv'
<1>1. current' = NoTransfer /\ open' = FALSE /\ received' = 0 /\ buffered' = <<>>
  BY DEF Forgotten
<1>2. <<>> \in Seq(Chunks)
  OBVIOUS
<1>3. TypeOK'
  BY <1>1, <1>2 DEF TypeOK
<1> QED BY <1>1, <1>3 DEF Inv, CountsContent

\* What a receiver leaves that is killed between the row and the close.
LEMMA RowAtKill ==
    ASSUME Inv, NEW c \in Chunks, KilledBeforeClose(c)
    PROVE  \E fits \in MayFit(c) :
              /\ disk' \in [Files -> Seq(Chunks)]
              /\ rows' \in Seq([transfer : Transfers, ok : BOOLEAN])
              /\ NewRow.transfer = current
              /\ NewRow.ok = (OnDisk(c, fits) = Source(FileOf[current]))
              /\ disk'[FileOf[current]] = OnDisk(c, fits)
<1>1. PICK fits \in MayFit(c) :
        /\ rows' = Append(rows, [transfer |-> current,
                                 ok |-> OnDisk(c, fits) = Source(FileOf[current])])
        /\ disk' = [disk EXCEPT ![FileOf[current]] = OnDisk(c, fits)]
  BY DEF KilledBeforeClose
<1>2. open /\ current \in Transfers /\ FileOf[current] \in Files
  BY FilePlan DEF KilledBeforeClose, Inv, TypeOK
<1>3. OnDisk(c, fits) \in Seq(Chunks)
  BY <1>2, WriteAddsOne DEF Inv
<1>4. /\ disk' \in [Files -> Seq(Chunks)]
      /\ disk'[FileOf[current]] = OnDisk(c, fits)
  BY <1>1, <1>2, <1>3 DEF Inv, TypeOK
<1> DEFINE row == [transfer |-> current, ok |-> OnDisk(c, fits) = Source(FileOf[current])]
<1>5. row \in [transfer : Transfers, ok : BOOLEAN]
  BY <1>2
<1>6. /\ rows' \in Seq([transfer : Transfers, ok : BOOLEAN])
      /\ rows'[Len(rows')] = row
  BY <1>1, <1>5, AppendProperties DEF Inv, TypeOK
<1>7. /\ NewRow.transfer = current
      /\ NewRow.ok = (OnDisk(c, fits) = Source(FileOf[current]))
  <2>1. NewRow = row
    BY <1>6 DEF NewRow
  <2> QED BY <2>1, Zenon
<1> QED BY <1>4, <1>6, <1>7

\* A receiver killed in a handler leaves the invariant true.
LEMMA InvKilledInControl ==
    ASSUME Inv, NEW t \in Transfers, KilledInControl(t)
    PROVE  Inv'
<1>1. DiskWhenClosed \in [Files -> Seq(Chunks)] /\ FileOf[t] \in Files
  BY CloseType, FilePlan DEF Inv
<1>2. disk' \in [Files -> Seq(Chunks)]
  <2>1. [DiskWhenClosed EXCEPT ![FileOf[t]] = <<>>] \in [Files -> Seq(Chunks)]
    <3>1. <<>> \in Seq(Chunks)
      OBVIOUS
    <3> QED BY <1>1, <3>1
  <2> QED BY <1>1, <2>1 DEF KilledInControl
<1>3. /\ rows' \in Seq([transfer : Transfers, ok : BOOLEAN])
      /\ warning' \in [transfer : Transfers \cup {NoTransfer}, count : Nat]
  BY DEF KilledInControl, Inv, TypeOK
<1> QED BY <1>2, <1>3, InvKilled DEF KilledInControl

LEMMA InvKilledInData ==
    ASSUME Inv, NEW c \in Chunks, KilledInData(c)
    PROVE  Inv'
<1>1. Forgotten /\ warning' \in [transfer : Transfers \cup {NoTransfer}, count : Nat]
  BY DEF KilledInData, KilledBeforeRow, KilledBeforeClose, Inv, TypeOK
<1>2. /\ disk' \in [Files -> Seq(Chunks)]
      /\ rows' \in Seq([transfer : Transfers, ok : BOOLEAN])
  <2>1. CASE KilledBeforeRow(c)
    <3>1. PICK fits \in MayFit(c) : disk' = [disk EXCEPT ![FileOf[current]] = OnDisk(c, fits)]
      BY <2>1 DEF KilledBeforeRow
    <3>2. OnDisk(c, fits) \in Seq(Chunks)
      BY <2>1, WriteAddsOne DEF KilledBeforeRow, Inv
    <3> QED BY <2>1, <3>1, <3>2 DEF KilledBeforeRow, Inv, TypeOK
  <2>2. CASE KilledBeforeClose(c)
    BY <2>2, RowAtKill
  <2> QED BY <2>1, <2>2 DEF KilledInData
<1> QED BY <1>1, <1>2, InvKilled

\* Every step preserves the invariant.
LEMMA InvNext == Inv /\ [ReceiverNext]_receiverVars => Inv'
<1> SUFFICES ASSUME Inv, [ReceiverNext]_receiverVars PROVE Inv'
  OBVIOUS
<1>1. ASSUME NEW t \in Transfers, OnControl(t) \/ KilledInControl(t) PROVE Inv'
  BY <1>1, InvControl, InvKilledInControl
<1>2. ASSUME NEW c \in Chunks, OnData(c) \/ KilledInData(c) PROVE Inv'
  <2>1. CASE DropChunk
    BY <2>1 DEF DropChunk, receiverVars, Inv, TypeOK, CountsContent
  <2> QED BY <1>2, <2>1, InvStore, InvComplete, InvKilledInData DEF OnData
<1>3. CASE ReceiverRestarts
  BY <1>3, InvKilled DEF ReceiverRestarts, Inv, TypeOK
<1>4. CASE UNCHANGED receiverVars
  BY <1>4 DEF receiverVars, Inv, TypeOK, CountsContent
<1> QED BY <1>1, <1>2, <1>3, <1>4 DEF ReceiverNext

\* The receiver's state always has its type, and its counter always counts
\* the chunks written to the open handle.
THEOREM ReceiverInvariant == ReceiverSpec => []Inv
BY InvInit, InvNext, PTL DEF ReceiverSpec

\* Only the completing chunk has a row written, and then exactly one; the receiver
\* may be killed right after it.
LEMMA RowStep ==
    ASSUME Inv, [ReceiverNext]_receiverVars, RowWritten
    PROVE  \E c \in Chunks : CompleteTransfer(c) \/ KilledBeforeClose(c)
<1>1. rows' # rows
  BY DEF RowWritten, Inv, TypeOK
<1> QED BY <1>1 DEF ReceiverNext, OnControl, OnData, DropChunk, StoreChunk,
                    ReceiverRestarts, KilledInControl, KilledInData, KilledBeforeRow, receiverVars

\* The row a completing step appends, read back from the CSV.
LEMMA RowReadBack ==
    ASSUME Inv, NEW c \in Chunks, CompleteTransfer(c)
    PROVE  \E fits \in MayFit(c) :
              /\ NewRow.transfer = current
              /\ NewRow.ok = (OnDisk(c, fits) = Source(FileOf[current]))
              /\ disk'[FileOf[current]] = OnDisk(c, fits) \o BufferAfter(c, fits)
              /\ OnDisk(c, fits) \in Seq(Chunks)
              /\ BufferAfter(c, fits) \in Seq(Chunks)
              /\ Len(OnDisk(c, fits)) + Len(BufferAfter(c, fits)) = Expected
              /\ Expected \in Nat
<1>1. PICK fits \in MayFit(c) :
              /\ current \in Transfers
              /\ rows' = Append(rows, [transfer |-> current,
                             ok |-> OnDisk(c, fits) = Source(FileOf[current])])
              /\ disk'[FileOf[current]] = OnDisk(c, fits) \o BufferAfter(c, fits)
              /\ OnDisk(c, fits) \in Seq(Chunks)
              /\ BufferAfter(c, fits) \in Seq(Chunks)
              /\ Len(OnDisk(c, fits)) + Len(BufferAfter(c, fits)) = Expected
  BY CompletionFacts
<1> DEFINE row == [transfer |-> current, ok |-> OnDisk(c, fits) = Source(FileOf[current])]
<1>2. row \in [transfer : Transfers, ok : BOOLEAN]
  BY <1>1
<1>3. rows'[Len(rows')] = row
  BY <1>1, <1>2, AppendProperties DEF Inv, TypeOK
<1>4. Expected \in Nat
  BY <1>1, FilePlan DEF Expected
<1>5. /\ NewRow.transfer = current
      /\ NewRow.ok = (OnDisk(c, fits) = Source(FileOf[current]))
  <2>1. NewRow = row
    BY <1>3 DEF NewRow
  <2> QED BY <2>1, Zenon
<1> QED BY <1>1, <1>4, <1>5

\* Only the transfer with the open file ever gets a row, and it gets it at the very
\* chunk with which its file, bytes still in the buffer included, has as many chunks
\* as were announced, if any were: never earlier, and no chunk makes the file whole
\* without a row.
THEOREM RowCountsTheFileHolds == ReceiverSpec => RowCountsTheFile
<1> DEFINE Held == Len(disk'[FileOf[current]]) + Len(buffered')
           Own == RowWritten => open /\ NewRow.transfer = current
           Moment == open /\ current' = current /\ Expected > 0 => (RowWritten <=> Held = Expected)
<1>1. Inv /\ [ReceiverNext]_receiverVars => Own
  <2> SUFFICES ASSUME Inv, [ReceiverNext]_receiverVars, RowWritten
               PROVE  open /\ NewRow.transfer = current
    OBVIOUS
  <2>1. PICK c \in Chunks : CompleteTransfer(c) \/ KilledBeforeClose(c)
    BY RowStep
  <2>2. open
    BY <2>1 DEF CompleteTransfer, KilledBeforeClose
  <2> QED BY <2>1, <2>2, RowReadBack, RowAtKill
<1>2. Inv /\ ReceiverNext => Moment
  <2> SUFFICES ASSUME Inv, ReceiverNext, open, current' = current, Expected > 0
               PROVE  RowWritten <=> Held = Expected
    OBVIOUS
  <2>0. /\ current \in Transfers /\ current # NoTransfer /\ FileOf[current] \in Files
        /\ Expected \in Nat /\ received \in Nat /\ Len(rows) \in Nat
    BY FilePlan, LenProperties DEF Inv, TypeOK, Expected
  <2>1. ASSUME NEW t \in Transfers, OnControl(t) PROVE RowWritten <=> Held = Expected
    <3>1. t = current /\ rows' = rows /\ buffered' = <<>>
      BY <2>1 DEF OnControl
    <3>2. disk'[FileOf[current]] = <<>>
      <4>1. DiskWhenClosed \in [Files -> Seq(Chunks)]
        BY CloseType DEF Inv
      <4> QED BY <2>0, <2>1, <3>1, <4>1 DEF OnControl
    <3>3. Held = 0
      BY <3>1, <3>2
    <3> QED BY <2>0, <3>1, <3>3 DEF RowWritten
  <2>2. ASSUME NEW c \in Chunks, StoreChunk(c) PROVE RowWritten <=> Held = Expected
    <3>1. PICK fits \in MayFit(c) :
            /\ disk' = [disk EXCEPT ![FileOf[current]] = OnDisk(c, fits)]
            /\ buffered' = BufferAfter(c, fits)
      BY <2>2 DEF StoreChunk
    <3>2. disk'[FileOf[current]] = OnDisk(c, fits)
      BY <2>0, <3>1 DEF Inv, TypeOK
    <3>3. Held = received + 1
      BY <3>1, <3>2, WriteAddsOne DEF Inv, CountsContent
    <3>4. rows' = rows /\ received + 1 # Expected
      BY <2>2 DEF StoreChunk
    <3> QED BY <2>0, <3>3, <3>4 DEF RowWritten
  <2>3. ASSUME NEW c \in Chunks, CompleteTransfer(c) PROVE RowWritten <=> Held = Expected
    <3>1. PICK fits \in MayFit(c) :
              /\ disk'[FileOf[current]] = OnDisk(c, fits) \o BufferAfter(c, fits)
              /\ OnDisk(c, fits) \in Seq(Chunks)
              /\ BufferAfter(c, fits) \in Seq(Chunks)
              /\ Len(OnDisk(c, fits)) + Len(BufferAfter(c, fits)) = Expected
      BY <2>3, CompletionFacts
    <3>2. Len(disk'[FileOf[current]]) = Expected /\ buffered' = <<>>
      BY <2>3, <3>1, ConcatProperties DEF CompleteTransfer
    <3>3. Held = Expected
      BY <2>0, <3>2
    <3>4. RowWritten
      <4>1. PICK ok \in BOOLEAN : rows' = Append(rows, [transfer |-> current, ok |-> ok])
        BY <2>3 DEF CompleteTransfer
      <4>2. Len(rows') = Len(rows) + 1
        BY <2>0, <4>1, AppendProperties DEF Inv, TypeOK
      <4> QED BY <2>0, <4>2 DEF RowWritten
    <3> QED BY <3>3, <3>4
  <2>4. ASSUME NEW c \in Chunks, DropChunk PROVE FALSE
    BY <2>4 DEF DropChunk
  <2>5. ASSUME Forgotten PROVE FALSE
    BY <2>0, <2>5 DEF Forgotten
  <2> QED BY <2>1, <2>2, <2>3, <2>4, <2>5 DEF ReceiverNext, OnData, KilledInControl,
             KilledInData, KilledBeforeRow, KilledBeforeClose, ReceiverRestarts
<1>3. Inv /\ [ReceiverNext]_receiverVars => [Own /\ Moment]_receiverVars
  BY <1>1, <1>2
<1> QED BY <1>3, ReceiverInvariant, PTL DEF ReceiverSpec, RowCountsTheFile

\* A row reporting integrity_ok is never wrong: if the hash taken before the
\* close matched, the counter leaves no room for a byte still in the buffer.
THEOREM IntegritySoundHolds == ReceiverSpec => IntegritySound
<1>1. Inv /\ [ReceiverNext]_receiverVars
        => [RowWritten /\ NewRow.ok
              => ArrivedWhole(FileOf[NewRow.transfer])]_receiverVars
  <2> SUFFICES ASSUME Inv, [ReceiverNext]_receiverVars, RowWritten, NewRow.ok
               PROVE  disk'[FileOf[NewRow.transfer]] = Source(FileOf[NewRow.transfer])
    BY DEF ArrivedWhole
  <2>0. ASSUME NEW c \in Chunks, KilledBeforeClose(c)
        PROVE  disk'[FileOf[NewRow.transfer]] = Source(FileOf[NewRow.transfer])
    BY <2>0, RowAtKill
  <2>1. PICK c \in Chunks : CompleteTransfer(c) \/ KilledBeforeClose(c)
    BY RowStep
  <2> SUFFICES ASSUME CompleteTransfer(c)
               PROVE  disk'[FileOf[NewRow.transfer]] = Source(FileOf[NewRow.transfer])
    BY <2>0, <2>1
  <2>2. PICK fits \in MayFit(c) :
              /\ NewRow.transfer = current
              /\ NewRow.ok = (OnDisk(c, fits) = Source(FileOf[current]))
              /\ disk'[FileOf[current]] = OnDisk(c, fits) \o BufferAfter(c, fits)
              /\ OnDisk(c, fits) \in Seq(Chunks)
              /\ BufferAfter(c, fits) \in Seq(Chunks)
              /\ Len(OnDisk(c, fits)) + Len(BufferAfter(c, fits)) = Expected
              /\ Expected \in Nat
    BY <2>1, RowReadBack
  <2>3. OnDisk(c, fits) = Source(FileOf[current])
    BY <2>2
  <2>4. Len(OnDisk(c, fits)) = Expected
    BY <2>2, <2>3 DEF Source, Expected
  <2>5. Len(BufferAfter(c, fits)) = 0
    BY <2>2, <2>4, LenProperties
  <2>6. BufferAfter(c, fits) = <<>>
    BY <2>2, <2>5, EmptySeq
  <2>7. OnDisk(c, fits) \o <<>> = OnDisk(c, fits)
    BY <2>2, ConcatEmptySeq
  <2> QED BY <2>2, <2>3, <2>6, <2>7
<1> QED BY <1>1, ReceiverInvariant, PTL DEF ReceiverSpec, IntegritySound

\* A file whose last chunk does not fit the write buffer and that arrived whole
\* is reported intact: its last chunk flushed everything before the hash.
THEOREM IntactReportedHolds == ReceiverSpec => IntactReported
<1>1. Inv /\ [ReceiverNext]_receiverVars
        => [RowWritten /\ ArrivedWhole(FileOf[NewRow.transfer])
              /\ FileOf[NewRow.transfer] \notin SmallTail => NewRow.ok]_receiverVars
  <2> SUFFICES ASSUME Inv, [ReceiverNext]_receiverVars, RowWritten,
                      FileOf[NewRow.transfer] \notin SmallTail,
                      disk'[FileOf[NewRow.transfer]] = Source(FileOf[NewRow.transfer])
               PROVE  NewRow.ok
    BY DEF ArrivedWhole
  <2>0. ASSUME NEW c \in Chunks, KilledBeforeClose(c)
        PROVE  NewRow.ok
    BY <2>0, RowAtKill
  <2>1. PICK c \in Chunks : CompleteTransfer(c) \/ KilledBeforeClose(c)
    BY RowStep
  <2> SUFFICES ASSUME CompleteTransfer(c)
               PROVE  NewRow.ok
    BY <2>0, <2>1
  <2>2. PICK fits \in MayFit(c) :
              /\ NewRow.transfer = current
              /\ NewRow.ok = (OnDisk(c, fits) = Source(FileOf[current]))
              /\ disk'[FileOf[current]] = OnDisk(c, fits) \o BufferAfter(c, fits)
              /\ OnDisk(c, fits) \in Seq(Chunks)
              /\ BufferAfter(c, fits) \in Seq(Chunks)
              /\ Len(OnDisk(c, fits)) + Len(BufferAfter(c, fits)) = Expected
              /\ Expected \in Nat
    BY <2>1, RowReadBack
  <2>3. ~IsSmall(c)
    <3> SUFFICES ASSUME IsSmall(c) PROVE FALSE
      OBVIOUS
    <3>1. buffered \in Seq(Chunks)
      BY DEF Inv, TypeOK
    <3>2. \/ BufferAfter(c, fits) = Append(buffered, c)
          \/ BufferAfter(c, fits) = <<c>>
      BY Zenon DEF BufferAfter
    <3>3. /\ Len(BufferAfter(c, fits)) \in Nat \ {0}
          /\ BufferAfter(c, fits)[Len(BufferAfter(c, fits))] = c
      <4>1. /\ Len(Append(buffered, c)) \in Nat \ {0}
            /\ Append(buffered, c)[Len(Append(buffered, c))] = c
        BY <3>1, AppendProperties, LenProperties
      <4>2. Len(<<c>>) \in Nat \ {0} /\ <<c>>[Len(<<c>>)] = c
        OBVIOUS
      <4> QED BY <3>2, <4>1, <4>2, Zenon
    <3>4. (OnDisk(c, fits) \o BufferAfter(c, fits))[Expected] = c
      <4> DEFINE a == OnDisk(c, fits)
                 b == BufferAfter(c, fits)
      <4> HIDE DEF a, b
      <4>1. /\ a \in Seq(Chunks) /\ b \in Seq(Chunks)
            /\ Len(b) \in Nat \ {0} /\ b[Len(b)] = c /\ Len(a) + Len(b) = Expected
        BY <2>2, <3>3 DEF a, b
      <4>2. Len(a) \in Nat
        BY <4>1, LenProperties
      <4>3. (a \o b)[Expected] = b[Expected - Len(a)]
        BY <4>1, <4>2, ConcatProperties
      <4>4. Expected - Len(a) = Len(b)
        BY <4>1, <4>2
      <4> QED BY <4>1, <4>3, <4>4 DEF a, b
    <3>5. Expected \in 1 .. NumChunks[FileOf[current]]
      <4>1. Len(OnDisk(c, fits)) \in Nat
        BY <2>2, LenProperties
      <4> QED BY <2>2, <3>3, <4>1 DEF Expected
    <3>6. Source(FileOf[current])[Expected] = <<FileOf[current], Expected>>
      BY <3>5 DEF Source
    <3>7. c = <<FileOf[current], Expected>>
      BY <2>2, <3>4, <3>6
    <3> QED BY <2>2, <3>7 DEF IsSmall
  <2>4. fits = FALSE
    BY <2>3 DEF MayFit
  <2>5. BufferAfter(c, fits) = <<>>
    BY <2>3, <2>4 DEF BufferAfter
  <2>6. disk'[FileOf[current]] = OnDisk(c, fits)
    BY <2>2, <2>5, ConcatEmptySeq
  <2> QED BY <2>2, <2>6
<1> QED BY <1>1, ReceiverInvariant, PTL DEF ReceiverSpec, IntactReported

----------------------------------------------------------------------------
(* A receiver that is only handed chunks of the file it has open mixes no   *)
(* files; what AmqpTransfer and MqttTransfer need of their brokers.         *)

OfFile(s, f) == \A i \in DOMAIN s : s[i][1] = f

OwnChunks ==
    /\ \A f \in Files : OfFile(disk[f], f)
    /\ OfFile(buffered, FileOf[current])

\* Sequences of one file's chunks, joined, are a sequence of its chunks.
LEMMA OfFileConcat ==
    ASSUME NEW f, NEW s \in Seq(Chunks), NEW t \in Seq(Chunks), OfFile(s, f), OfFile(t, f)
    PROVE  OfFile(s \o t, f)
<1>1. /\ Len(s) \in Nat /\ Len(t) \in Nat /\ s \o t \in Seq(Chunks)
      /\ DOMAIN s = 1 .. Len(s) /\ DOMAIN t = 1 .. Len(t)
      /\ DOMAIN (s \o t) = 1 .. Len(s) + Len(t)
      /\ \A i \in 1 .. Len(s) + Len(t) :
            (s \o t)[i] = IF i <= Len(s) THEN s[i] ELSE t[i - Len(s)]
  BY ConcatProperties, LenProperties
<1>2. ASSUME NEW i \in DOMAIN (s \o t) PROVE (s \o t)[i][1] = f
  <2>1. CASE i <= Len(s)
    BY <1>1, <2>1 DEF OfFile
  <2>2. CASE ~(i <= Len(s))
    <3>1. i - Len(s) \in DOMAIN t
      BY <1>1, <2>2
    <3> QED BY <1>1, <2>2, <3>1 DEF OfFile
  <2> QED BY <2>1, <2>2
<1> QED BY <1>2 DEF OfFile

\* ... and so it is with one more chunk of the file.
LEMMA OfFileAppend ==
    ASSUME NEW f, NEW s \in Seq(Chunks), NEW c \in Chunks, OfFile(s, f), c[1] = f
    PROVE  OfFile(Append(s, c), f)
<1>1. /\ Len(s) \in Nat /\ DOMAIN s = 1 .. Len(s)
      /\ DOMAIN Append(s, c) = 1 .. Len(s) + 1
      /\ \A i \in 1 .. Len(s) : Append(s, c)[i] = s[i]
      /\ Append(s, c)[Len(s) + 1] = c
  BY AppendProperties, LenProperties
<1> QED BY <1>1 DEF OfFile

\* A metadata message closes one file and truncates another.
LEMMA OwnControl ==
    ASSUME Inv, OwnChunks, NEW t \in Transfers, OnControl(t)
    PROVE  OwnChunks'
<1>1. FileOf[t] \in Files /\ OfFile(<<>>, FileOf[t])
  BY FilePlan DEF OfFile
<1>2. DiskWhenClosed \in [Files -> Seq(Chunks)] /\ \A f \in Files : OfFile(DiskWhenClosed[f], f)
  <2>1. CASE open
    <3>1. FileOf[current] \in Files
      BY <2>1, FilePlan DEF Inv, TypeOK
    <3>2. OfFile(disk[FileOf[current]] \o buffered, FileOf[current])
      <4>1. /\ disk[FileOf[current]] \in Seq(Chunks) /\ buffered \in Seq(Chunks)
            /\ OfFile(disk[FileOf[current]], FileOf[current])
            /\ OfFile(buffered, FileOf[current])
        BY <3>1 DEF Inv, TypeOK, OwnChunks
      <4> QED BY <4>1, OfFileConcat
    <3>3. DiskWhenClosed = [disk EXCEPT ![FileOf[current]] = disk[FileOf[current]] \o buffered]
      BY <2>1 DEF DiskWhenClosed
    <3> QED BY <3>1, <3>2, <3>3, CloseType DEF Inv, TypeOK, OwnChunks
  <2>2. CASE ~open
    BY <2>2 DEF DiskWhenClosed, Inv, TypeOK, OwnChunks
  <2> QED BY <2>1, <2>2
<1>3. disk' = [DiskWhenClosed EXCEPT ![FileOf[t]] = <<>>] /\ buffered' = <<>>
  BY DEF OnControl
<1>4. \A f \in Files : OfFile(disk'[f], f)
  BY <1>1, <1>2, <1>3
<1>5. OfFile(buffered', FileOf[current'])
  BY <1>3 DEF OfFile
<1> QED BY <1>4, <1>5 DEF OwnChunks, OfFile

\* A chunk of the open file goes to that file, on disk or in the buffer.
LEMMA OwnData ==
    ASSUME Inv, OwnChunks, NEW c \in Chunks, OnData(c), open => c[1] = FileOf[current]
    PROVE  OwnChunks'
<1>1. CASE DropChunk
  BY <1>1 DEF DropChunk, receiverVars, OwnChunks, OfFile
<1>2. CASE open /\ ~DropChunk
  <2>0. /\ current \in Transfers /\ FileOf[current] \in Files /\ c[1] = FileOf[current]
        /\ disk \in [Files -> Seq(Chunks)] /\ buffered \in Seq(Chunks)
        /\ current' = current
    BY <1>2, FilePlan DEF Inv, TypeOK, OnData, StoreChunk, CompleteTransfer
  <2> DEFINE f == FileOf[current]
  <2>1. PICK fits \in MayFit(c) :
          \/ disk' = [disk EXCEPT ![f] = OnDisk(c, fits)] /\ buffered' = BufferAfter(c, fits)
          \/ disk' = [disk EXCEPT ![f] = OnDisk(c, fits) \o BufferAfter(c, fits)]
             /\ buffered' = <<>>
    BY <1>2 DEF OnData, StoreChunk, CompleteTransfer
  <2>2. OfFile(disk[f], f) /\ OfFile(buffered, f)
    BY <2>0 DEF OwnChunks
  <2>3. OfFile(disk[f] \o buffered, f) /\ disk[f] \o buffered \in Seq(Chunks)
    BY <2>0, <2>2, OfFileConcat, ConcatProperties
  <2>4. /\ OfFile(Append(disk[f] \o buffered, c), f) /\ OfFile(Append(buffered, c), f)
        /\ OfFile(<<c>>, f) /\ OfFile(<<>>, f)
    <3>1. OfFile(Append(disk[f] \o buffered, c), f) /\ OfFile(Append(buffered, c), f)
      BY <2>0, <2>2, <2>3, OfFileAppend
    <3>2. OfFile(<<c>>, f) /\ OfFile(<<>>, f)
      BY <2>0 DEF OfFile
    <3> QED BY <3>1, <3>2
  <2>5. OfFile(OnDisk(c, fits), f) /\ OfFile(BufferAfter(c, fits), f)
    <3>1. \/ OnDisk(c, fits) = disk[f] \/ OnDisk(c, fits) = disk[f] \o buffered
          \/ OnDisk(c, fits) = Append(disk[f] \o buffered, c)
      BY Zenon DEF OnDisk
    <3>2. \/ BufferAfter(c, fits) = Append(buffered, c)
          \/ BufferAfter(c, fits) = <<c>> \/ BufferAfter(c, fits) = <<>>
      BY Zenon DEF BufferAfter
    <3> QED BY <2>2, <2>3, <2>4, <3>1, <3>2, Zenon
  <2>6. OfFile(OnDisk(c, fits) \o BufferAfter(c, fits), f)
    BY <1>2, <2>0, <2>5, WriteAddsOne, OfFileConcat DEF Inv
  <2>7. \A g \in Files : OfFile(disk'[g], g)
    <3> SUFFICES ASSUME NEW g \in Files PROVE OfFile(disk'[g], g)
      OBVIOUS
    <3>1. CASE g = f
      <4>1. disk'[g] = OnDisk(c, fits) \/ disk'[g] = OnDisk(c, fits) \o BufferAfter(c, fits)
        BY <2>0, <2>1, <3>1
      <4> QED BY <2>5, <2>6, <3>1, <4>1, Zenon
    <3>2. CASE g # f
      <4>1. disk'[g] = disk[g]
        BY <2>0, <2>1, <3>2
      <4> QED BY <4>1, Zenon DEF OwnChunks
    <3> QED BY <3>1, <3>2
  <2>8. OfFile(buffered', FileOf[current'])
    BY <2>0, <2>1, <2>4, <2>5, Zenon
  <2> QED BY <2>7, <2>8 DEF OwnChunks, OfFile
<1> QED BY <1>1, <1>2 DEF OnData, StoreChunk, CompleteTransfer

----------------------------------------------------------------------------
(* A receiver that is handed the transfers of a campaign in their order      *)
(* judges each of them, once and rightly; what AmqpTransfer and MqttTransfer *)
(* need for theirs.  Nothing is claimed of the transfers in X, which were    *)
(* given up, nor of a transfer without chunks.                               *)

Announced(t) == NumChunks[FileOf[t]]

\* A file is closed when its last chunk was stored; the open file holds the first
\* chunks of its source, all of them on disk.
Filling(X) ==
    /\ current = NoTransfer => received = 0 /\ ~open
    /\ current # NoTransfer =>
          /\ received <= Announced(current) \/ Announced(current) = 0
          /\ open <=> received < Announced(current) \/ Announced(current) = 0
    /\ open /\ current \notin X /\ Announced(current) # 0 =>
          /\ buffered = <<>>
          /\ disk[FileOf[current]] = [i \in 1 .. received |-> <<FileOf[current], i>>]

\* the receiver has done with t
Behind(t) == t < current \/ (t = current /\ ~open)
JudgedRightly(t) ==
    \E i \in DOMAIN rows : RowsOf(t) = {i} /\ (rows[i].ok <=> FileOf[t] \notin SmallTail)

Judged(X) ==
    \A t \in Transfers :
        /\ ~Behind(t) => RowsOf(t) = {}
        /\ Behind(t) /\ t \notin X /\ Announced(t) # 0 => JudgedRightly(t)

\* nothing of transfer s is missing
Done(s, X) == s \in X \/ Announced(s) = 0 \/ (s = current /\ received = Announced(s))

\* Before the first message there is nothing to judge.
LEMMA NothingJudged ==
    ASSUME ReceiverInit, NEW X
    PROVE  Filling(X) /\ Judged(X)
<1>1. current = NoTransfer /\ open = FALSE /\ received = 0 /\ rows = <<>>
  BY DEF ReceiverInit
<1>2. \A s \in Transfers : RowsOf(s) = {} /\ ~Behind(s)
  BY <1>1, FilePlan DEF RowsOf, Behind, Transfers, NoTransfer
<1> QED BY <1>1, <1>2 DEF Filling, Judged

\* To give up more transfers, or to do nothing, leaves the others judged.
LEMMA StillJudged ==
    ASSUME NEW X, NEW Y, X \subseteq Y, Filling(X), Judged(X), UNCHANGED receiverVars
    PROVE  Filling(Y)' /\ Judged(Y)'
<1>1. UNCHANGED <<disk, current, open, received, buffered, rows>>
  BY DEF receiverVars
<1>2. Filling(Y)'
  BY <1>1 DEF Filling, Announced
<1>3. Judged(Y)'
  BY <1>1 DEF Judged, JudgedRightly, Behind, RowsOf, Announced
<1> QED BY <1>2, <1>3

\* A metadata message opens the next file; each transfer that it passes has been
\* given up, has no chunks, or has been judged.
LEMMA ControlJudges ==
    ASSUME Inv, NEW X, Filling(X), Judged(X), NEW t \in Transfers, OnControl(t), current < t,
           \A s \in Transfers : current <= s /\ s < t => Done(s, X)
    PROVE  Filling(X)' /\ Judged(X)'
<1>1. /\ current' = t /\ received' = 0 /\ open' = TRUE /\ buffered' = <<>> /\ rows' = rows
      /\ disk' = [DiskWhenClosed EXCEPT ![FileOf[t]] = <<>>]
  BY DEF OnControl
<1>2. current \in Nat /\ received \in Nat /\ t \in Nat /\ Transfers \subseteq Nat
      /\ NoTransfer \notin Transfers
  BY FilePlan DEF Inv, TypeOK, Transfers, NoTransfer
<1>3. FileOf[t] \in Files /\ Announced(t) \in Nat
  BY FilePlan DEF Announced
<1>4. Filling(X)'
  <2>1. disk'[FileOf[t]] = <<>>
    <3>1. DiskWhenClosed \in [Files -> Seq(Chunks)]
      BY CloseType DEF Inv
    <3> QED BY <1>1, <1>3, <3>1
  <2>2. <<>> = [i \in 1 .. 0 |-> <<FileOf[t], i>>]
    OBVIOUS
  <2>3. /\ current' # NoTransfer /\ 0 <= Announced(t)
        /\ 0 < Announced(t) \/ Announced(t) = 0
    BY <1>1, <1>2, <1>3
  <2> QED BY <1>1, <2>1, <2>2, <2>3 DEF Filling, Announced
<1>5. ASSUME NEW s \in Transfers, ~Behind(s)' PROVE RowsOf(s)' = {}
  <2>1. s >= t /\ ~Behind(s)
    BY <1>1, <1>2, <1>5 DEF Behind
  <2> QED BY <1>1, <2>1 DEF Judged, RowsOf
<1>6. ASSUME NEW s \in Transfers, Behind(s)', s \notin X, Announced(s) # 0
      PROVE  JudgedRightly(s)'
  <2>1. s < t /\ s \in Nat
    BY <1>1, <1>2, <1>6 DEF Behind
  <2>2. Behind(s)
    <3>1. CASE s < current
      BY <3>1 DEF Behind
    <3>2. CASE current <= s
      <4>1. s = current /\ received = Announced(s)
        BY <1>6, <2>1, <3>2 DEF Done
      <4>2. ~open
        BY <1>2, <1>6, <4>1 DEF Filling
      <4> QED BY <4>1, <4>2 DEF Behind
    <3> QED BY <1>2, <2>1, <3>1, <3>2
  <2> QED BY <1>1, <1>6, <2>2 DEF Judged, JudgedRightly, RowsOf
<1> QED BY <1>4, <1>5, <1>6 DEF Judged, Announced

\* The first chunks of a file, and the next.
LEMMA PrefixAppend ==
    ASSUME NEW f \in Files, NEW n \in Nat, n < NumChunks[f]
    PROVE  /\ [i \in 1 .. n |-> <<f, i>>] \in Seq(Chunks)
           /\ Append([i \in 1 .. n |-> <<f, i>>], <<f, n + 1>>) = [i \in 1 .. n + 1 |-> <<f, i>>]
<1>1. NumChunks[f] \in Nat
  BY FilePlan
<1>2. \A i \in 1 .. n + 1 : <<f, i>> \in Chunks
  BY <1>1 DEF Chunks
<1> DEFINE s == [i \in 1 .. n |-> <<f, i>>]
           t == [i \in 1 .. n + 1 |-> <<f, i>>]
<1>3. s \in Seq(Chunks) /\ Len(s) = n /\ t \in Seq(Chunks) /\ Len(t) = n + 1
  BY <1>2
<1>4. \A i \in 1 .. n + 1 : Append(s, <<f, n + 1>>)[i] = t[i]
  BY <1>3
<1>5. Append(s, <<f, n + 1>>) \in Seq(Chunks) /\ Len(Append(s, <<f, n + 1>>)) = n + 1
  BY <1>2, <1>3, AppendProperties
<1> QED BY <1>3, <1>4, <1>5, SeqEqual

\* The next chunk of a file is written through, unless it is the last and small.
LEMMA NextChunkWritten ==
    ASSUME Inv, open, received < Announced(current), buffered = <<>>,
           disk[FileOf[current]] = [i \in 1 .. received |-> <<FileOf[current], i>>],
           NEW c, c = <<FileOf[current], received + 1>>, NEW fits \in MayFit(c)
    PROVE  /\ received + 1 # Announced(current) \/ FileOf[current] \notin SmallTail =>
                 /\ OnDisk(c, fits) = [i \in 1 .. received + 1 |-> <<FileOf[current], i>>]
                 /\ BufferAfter(c, fits) = <<>>
           /\ received + 1 = Announced(current) /\ FileOf[current] \in SmallTail =>
                 OnDisk(c, fits) = [i \in 1 .. received |-> <<FileOf[current], i>>]
<1> DEFINE f == FileOf[current]
<1>1. f \in Files /\ received \in Nat
  BY FilePlan DEF Inv, TypeOK
<1>2. disk[f] \o buffered = disk[f] /\ Append(disk[f], c) = [i \in 1 .. received + 1 |-> <<f, i>>]
  <2>1. disk[f] \in Seq(Chunks) /\ Append(disk[f], c) = [i \in 1 .. received + 1 |-> <<f, i>>]
    BY <1>1, PrefixAppend DEF Announced
  <2> QED BY <1>1, <2>1, ConcatEmptySeq
<1>3. IsSmall(c) <=> received + 1 = Announced(current) /\ f \in SmallTail
  BY DEF IsSmall, Announced
<1>4. CASE IsSmall(c)
  <2>1. fits = TRUE
    BY <1>4 DEF MayFit
  <2> QED BY <1>1, <1>3, <1>4, <2>1 DEF OnDisk
<1>5. CASE ~IsSmall(c)
  <2>1. fits = FALSE
    BY <1>5 DEF MayFit
  <2>2. OnDisk(c, fits) = Append(disk[f] \o buffered, c) /\ BufferAfter(c, fits) = <<>>
    BY <1>5, <2>1 DEF OnDisk, BufferAfter
  <2> QED BY <1>2, <1>3, <1>5, <2>2
<1> QED BY <1>4, <1>5

\* What one more row adds to the rows of a transfer.
LEMMA RowAdded ==
    ASSUME Inv, NEW r \in [transfer : Transfers, ok : BOOLEAN], rows' = Append(rows, r)
    PROVE  /\ RowsOf(r.transfer)' = RowsOf(r.transfer) \cup {Len(rows) + 1}
           /\ Len(rows) + 1 \in DOMAIN rows' /\ rows'[Len(rows) + 1] = r
           /\ \A s \in Transfers : s # r.transfer => RowsOf(s)' = RowsOf(s)
           /\ \A i \in DOMAIN rows : i \in DOMAIN rows' /\ rows'[i] = rows[i]
<1>1. /\ Len(rows) \in Nat /\ DOMAIN rows = 1 .. Len(rows) /\ DOMAIN rows' = 1 .. Len(rows) + 1
      /\ \A i \in 1 .. Len(rows) : rows'[i] = rows[i]
      /\ rows'[Len(rows) + 1] = r
  <2>1. rows \in Seq([transfer : Transfers, ok : BOOLEAN])
    BY DEF Inv, TypeOK
  <2> QED BY <2>1, AppendProperties, LenProperties
<1>2. Len(rows) + 1 \in DOMAIN rows' /\ \A i \in DOMAIN rows : i \in DOMAIN rows' /\ rows'[i] = rows[i]
  BY <1>1
<1>3. DOMAIN rows' = DOMAIN rows \cup {Len(rows) + 1}
  BY <1>1
<1>4. RowsOf(r.transfer)' = RowsOf(r.transfer) \cup {Len(rows) + 1}
  BY <1>1, <1>2, <1>3 DEF RowsOf
<1>5. \A s \in Transfers : s # r.transfer => RowsOf(s)' = RowsOf(s)
  BY <1>1, <1>2, <1>3 DEF RowsOf
<1> QED BY <1>1, <1>2, <1>4, <1>5

\* A chunk is dropped, or counted; the last one of a transfer that was handed all its
\* chunks has it judged, once and rightly.
LEMMA DataJudges ==
    ASSUME Inv, NEW X, Filling(X), Judged(X), NEW c, OnData(c),
           open /\ current \notin X /\ Announced(current) # 0 =>
               c = <<FileOf[current], received + 1>>
    PROVE  /\ Filling(X)' /\ Judged(X)' /\ current' = current
           /\ received' = IF open THEN received + 1 ELSE received
<1> DEFINE f == FileOf[current]
           Goal == /\ Filling(X)' /\ Judged(X)' /\ current' = current
                   /\ received' = IF open THEN received + 1 ELSE received
<1>0. CASE DropChunk
  <2>1. UNCHANGED receiverVars /\ ~open
    BY <1>0 DEF DropChunk
  <2>2. Filling(X)' /\ Judged(X)'
    BY <2>1, StillJudged
  <2> QED BY <2>1, <2>2 DEF receiverVars
<1> SUFFICES ASSUME StoreChunk(c) \/ CompleteTransfer(c) PROVE Goal
  BY <1>0 DEF OnData
<1>1. /\ open /\ received \in Nat /\ current \in Transfers /\ Announced(current) \in Nat
      /\ f \in Files /\ Announced(current) = Expected /\ current # NoTransfer
      /\ disk \in [Files -> Seq(Chunks)] /\ Announced(current) = NumChunks[f]
      /\ received < Announced(current) \/ Announced(current) = 0
      /\ current \in Nat /\ Transfers \subseteq Nat
  <2>1. open
    BY DEF StoreChunk, CompleteTransfer
  <2>2. current \in Transfers /\ current # NoTransfer
    BY <2>1 DEF Inv, TypeOK
  <2> QED BY <2>1, <2>2, FilePlan DEF Filling, Announced, Expected, Inv, TypeOK, Transfers
<1>2. ASSUME StoreChunk(c) PROVE Goal
  <2>1. /\ received + 1 # Announced(current) /\ received' = received + 1
        /\ UNCHANGED <<current, open, rows>>
    BY <1>1, <1>2 DEF StoreChunk
  <2>2. PICK fits \in MayFit(c) : /\ disk' = [disk EXCEPT ![f] = OnDisk(c, fits)]
                                  /\ buffered' = BufferAfter(c, fits)
    BY <1>2 DEF StoreChunk
  <2>3. ASSUME current \notin X, Announced(current) # 0
        PROVE  disk'[f] = [i \in 1 .. received + 1 |-> <<f, i>>] /\ buffered' = <<>>
    <3>1. /\ OnDisk(c, fits) = [i \in 1 .. received + 1 |-> <<f, i>>]
          /\ BufferAfter(c, fits) = <<>>
      BY <1>1, <2>1, <2>3, NextChunkWritten DEF Filling
    <3> QED BY <1>1, <2>2, <3>1
  <2>4. received' < Announced(current) \/ Announced(current) = 0
    BY <1>1, <2>1
  <2>5. Filling(X)'
    BY <1>1, <2>1, <2>3, <2>4 DEF Filling, Announced
  <2>6. Judged(X)'
    BY <2>1 DEF Judged, JudgedRightly, Behind, RowsOf, Announced
  <2> QED BY <1>1, <2>1, <2>5, <2>6
<1>3. ASSUME CompleteTransfer(c) PROVE Goal
  <2>1. /\ received + 1 = Announced(current) /\ received' = received + 1
        /\ open' = FALSE /\ current' = current /\ Announced(current) # 0
    BY <1>1, <1>3 DEF CompleteTransfer
  <2>2. PICK fits \in MayFit(c) :
          rows' = Append(rows, [transfer |-> current, ok |-> OnDisk(c, fits) = Source(f)])
    BY <1>3 DEF CompleteTransfer
  <2> DEFINE r == [transfer |-> current, ok |-> OnDisk(c, fits) = Source(f)]
  <2>3. r \in [transfer : Transfers, ok : BOOLEAN] /\ r.transfer = current /\ rows' = Append(rows, r)
    BY <1>1, <2>2
  <2>4. current \notin X => (r.ok <=> f \notin SmallTail)
    <3> SUFFICES ASSUME current \notin X PROVE OnDisk(c, fits) = Source(f) <=> f \notin SmallTail
      OBVIOUS
    <3>1. Source(f) = [i \in 1 .. received + 1 |-> <<f, i>>]
      BY <1>1, <2>1 DEF Source
    <3>2. [i \in 1 .. received |-> <<f, i>>] # [i \in 1 .. received + 1 |-> <<f, i>>]
      BY <1>1
    <3>3. /\ buffered = <<>> /\ disk[f] = [i \in 1 .. received |-> <<f, i>>]
          /\ c = <<f, received + 1>> /\ received < Announced(current)
      BY <1>1, <2>1 DEF Filling
    <3> QED BY <1>1, <2>1, <3>1, <3>2, <3>3, NextChunkWritten
  <2> HIDE DEF r
  <2>5. Filling(X)'
    <3>1. received' = Announced(current) /\ Announced(current) # 0
      BY <1>1, <2>1
    <3> QED BY <1>1, <2>1, <3>1 DEF Filling, Announced
  <2>6. /\ RowsOf(current)' = RowsOf(current) \cup {Len(rows) + 1}
        /\ Len(rows) + 1 \in DOMAIN rows' /\ rows'[Len(rows) + 1] = r
        /\ \A s \in Transfers : s # current => RowsOf(s)' = RowsOf(s)
        /\ \A i \in DOMAIN rows : i \in DOMAIN rows' /\ rows'[i] = rows[i]
    BY <2>1, <2>3, RowAdded
  <2>7. ASSUME NEW s \in Transfers, ~Behind(s)' PROVE RowsOf(s)' = {}
    <3>1. s # current /\ ~Behind(s)
      BY <2>1, <2>7 DEF Behind
    <3> QED BY <2>6, <3>1 DEF Judged
  <2>8. ASSUME NEW s \in Transfers, Behind(s)', s \notin X, Announced(s) # 0
        PROVE  JudgedRightly(s)'
    <3>1. CASE s = current
      <4>1. RowsOf(s) = {}
        BY <1>1, <3>1 DEF Judged, Behind
      <4>2. RowsOf(s)' = {Len(rows) + 1}
        BY <2>1, <2>6, <3>1, <4>1
      <4>3. rows'[Len(rows) + 1].ok <=> FileOf[s] \notin SmallTail
        BY <2>4, <2>6, <2>8, <3>1, Zenon
      <4> QED BY <2>6, <4>2, <4>3 DEF JudgedRightly
    <3>2. CASE s # current
      <4>1. Behind(s)
        BY <2>1, <2>8, <3>2 DEF Behind
      <4>2. PICK i \in DOMAIN rows : RowsOf(s) = {i} /\ (rows[i].ok <=> FileOf[s] \notin SmallTail)
        BY <2>8, <4>1 DEF Judged, JudgedRightly
      <4>3. i \in DOMAIN rows' /\ rows'[i] = rows[i] /\ RowsOf(s)' = {i}
        BY <2>6, <3>2, <4>2
      <4> QED BY <4>2, <4>3 DEF JudgedRightly
    <3> QED BY <3>1, <3>2
  <2> QED BY <1>1, <2>1, <2>5, <2>7, <2>8 DEF Judged, Announced
<1> QED BY <1>2, <1>3
=============================================================================
