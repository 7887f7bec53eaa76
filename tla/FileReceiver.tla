---------------------------- MODULE FileReceiver ----------------------------
(***************************************************************************)
(* The receiving half of the two chunked-publish protocols: the module      *)
(* globals and message handlers of protocols/MQTT/clients/client_b.py and   *)
(* protocols/AMQP/receiver/amqp_receiver.py, which share this code almost   *)
(* line for line.  A transfer announces itself by one metadata message and  *)
(* is followed by its chunks; nothing in a chunk says which transfer it     *)
(* belongs to, so the receiver attributes it to the metadata it saw last.   *)
(*                                                                         *)
(* Here the environment hands over any metadata and any chunk in any order; *)
(* AmqpTransfer and MqttTransfer restrict it to what their brokers deliver. *)
(*                                                                         *)
(* A chunk is the pair <<file, position>>.  A checksum is the content it    *)
(* was taken of.  current_filename, expected_chunks and expected_checksum   *)
(* are only ever overwritten together, from one metadata message, so they   *)
(* are kept as the transfer that sent it.                                   *)
(***************************************************************************)
EXTENDS Naturals, Sequences

CONSTANTS
    Files,          \* names of the files of a campaign
    NumTransfers,   \* how many transfers the harness makes, one after another
    FileOf,         \* the file each transfer sends
    NumChunks,      \* chunks of each file: math.ceil(size / CHUNK_SIZE)
    SmallTail       \* files whose last chunk fits in Python's write buffer

Transfers == 1 .. NumTransfers
NoTransfer == 0

ASSUME FilePlan ==
    /\ NumTransfers \in Nat
    /\ FileOf \in [Transfers -> Files]
    /\ NumChunks \in [Files -> Nat]
    /\ SmallTail \subseteq Files

VARIABLES
    disk,       \* what each output file holds, as seen by a reader of the file
    current,    \* the transfer whose metadata is held
    open,       \* current_file_handle is an open file
    received,   \* received_chunks
    buffered,   \* chunks written to the handle but still in its buffer
    rows,       \* receiver rows appended to the results CSV
    warning     \* the last "Previous transfer ... was incomplete" warning

receiverVars == <<disk, current, open, received, buffered, rows, warning>>

Chunks == UNION {{f} \X (1 .. NumChunks[f]) : f \in Files}
Source(f) == [i \in 1 .. NumChunks[f] |-> <<f, i>>]
Expected == NumChunks[FileOf[current]]

TypeOK ==
    /\ disk \in [Files -> Seq(Chunks)]
    /\ current \in Transfers \cup {NoTransfer}
    /\ open \in BOOLEAN
    /\ open => current # NoTransfer
    /\ received \in Nat
    /\ buffered \in Seq(Chunks)
    /\ rows \in Seq([transfer : Transfers, ok : BOOLEAN])
    /\ warning \in [transfer : Transfers \cup {NoTransfer}, count : Nat]

ReceiverInit ==
    /\ disk = [f \in Files |-> <<>>]
    /\ current = NoTransfer
    /\ open = FALSE
    /\ received = 0
    /\ buffered = <<>>
    /\ rows = <<>>
    /\ warning = [transfer |-> NoTransfer, count |-> 0]

----------------------------------------------------------------------------
(* BufferedWriter: a chunk of a megabyte flushes the buffer and is written  *)
(* through; a chunk no larger than the buffer stays in it, after a flush    *)
(* when it does not fit beside what is already there.                       *)

IsSmall(c) == c[1] \in SmallTail /\ c[2] = NumChunks[c[1]]

MayFit(c) == IF ~IsSmall(c) THEN {FALSE}
             ELSE IF buffered = <<>> THEN {TRUE} ELSE BOOLEAN

OnDisk(c, fits) ==
    LET before == disk[FileOf[current]]
    IN  IF fits THEN before
        ELSE IF IsSmall(c) THEN before \o buffered
        ELSE Append(before \o buffered, c)

BufferAfter(c, fits) ==
    IF fits THEN Append(buffered, c)
    ELSE IF IsSmall(c) THEN <<c>> ELSE <<>>

\* close() of the held handle, if it is open, flushes its buffer
DiskWhenClosed ==
    IF open
    THEN [disk EXCEPT ![FileOf[current]] = disk[FileOf[current]] \o buffered]
    ELSE disk

----------------------------------------------------------------------------
\* Mutant of OnControl: received_chunks is not reset.
OnControlKeepsCount(t) ==
    /\ current' = t
    /\ warning' = IF open THEN [transfer |-> t, count |-> received] ELSE warning
    /\ disk' = [DiskWhenClosed EXCEPT ![FileOf[t]] = <<>>]
    /\ open' = TRUE
    /\ buffered' = <<>>
    /\ UNCHANGED <<received, rows>>

(* The control handler.  The warning is composed after the globals it       *)
(* prints have been overwritten by the new metadata.                        *)
OnControl(t) ==
    /\ current' = t
    /\ received' = 0
    /\ warning' = IF open THEN [transfer |-> t, count |-> 0] ELSE warning
    /\ disk' = [DiskWhenClosed EXCEPT ![FileOf[t]] = <<>>]
    /\ open' = TRUE
    /\ buffered' = <<>>
    /\ UNCHANGED rows

\* the data handler without a transfer: the chunk is discarded
DropChunk ==
    /\ ~open
    /\ UNCHANGED receiverVars

StoreChunk(c) ==
    /\ open
    /\ received + 1 # Expected
    /\ received' = received + 1
    /\ \E fits \in MayFit(c) :
          /\ disk' = [disk EXCEPT ![FileOf[current]] = OnDisk(c, fits)]
          /\ buffered' = BufferAfter(c, fits)
    /\ UNCHANGED <<current, open, rows, warning>>

\* Mutants of CompleteTransfer: the verdict is the count alone; the file is
\* hashed before the last chunk is written; the handle is not forgotten.
CompleteByCount(c) ==
    /\ open
    /\ received + 1 = Expected
    /\ received' = received + 1
    /\ \E fits \in MayFit(c) :
          disk' = [disk EXCEPT ![FileOf[current]] = OnDisk(c, fits) \o BufferAfter(c, fits)]
    /\ rows' = Append(rows, [transfer |-> current, ok |-> TRUE])
    /\ open' = FALSE /\ buffered' = <<>>
    /\ UNCHANGED <<current, warning>>

CompleteHashingEarly(c) ==
    /\ open
    /\ received + 1 = Expected
    /\ received' = received + 1
    /\ \E fits \in MayFit(c) :
          disk' = [disk EXCEPT ![FileOf[current]] = OnDisk(c, fits) \o BufferAfter(c, fits)]
    /\ rows' = Append(rows, [transfer |-> current,
                             ok |-> disk[FileOf[current]] = Source(FileOf[current])])
    /\ open' = FALSE /\ buffered' = <<>>
    /\ UNCHANGED <<current, warning>>

CompleteStaysOpen(c) ==
    /\ open
    /\ received + 1 = Expected
    /\ received' = received + 1
    /\ \E fits \in MayFit(c) :
          /\ rows' = Append(rows, [transfer |-> current,
                                   ok |-> OnDisk(c, fits) = Source(FileOf[current])])
          /\ disk' = [disk EXCEPT ![FileOf[current]] = OnDisk(c, fits)]
          /\ buffered' = BufferAfter(c, fits)
    /\ UNCHANGED <<current, open, warning>>

\* the chunk that brings the count to the expected one: hash the file, write
\* the row, and only then close the handle
CompleteTransfer(c) ==
    /\ open
    /\ received + 1 = Expected
    /\ received' = received + 1
    /\ \E fits \in MayFit(c) :
          /\ rows' = Append(rows, [transfer |-> current,
                                   ok |-> OnDisk(c, fits) = Source(FileOf[current])])
          /\ disk' = [disk EXCEPT ![FileOf[current]] =
                         OnDisk(c, fits) \o BufferAfter(c, fits)]
    /\ open' = FALSE
    /\ buffered' = <<>>
    /\ UNCHANGED <<current, warning>>

OnData(c) == DropChunk \/ StoreChunk(c) \/ CompleteTransfer(c)

(* The process is killed, between two handlers or anywhere in one, and, if   *)
(* it is started again, begins anew: unflushed bytes are lost.              *)
Forgotten ==
    /\ current' = NoTransfer
    /\ open' = FALSE
    /\ received' = 0
    /\ buffered' = <<>>

ReceiverRestarts == Forgotten /\ UNCHANGED <<disk, rows, warning>>

\* killed in the control handler, when the old handle has been closed
KilledInControl(t) ==
    /\ Forgotten
    /\ disk' \in {DiskWhenClosed, [DiskWhenClosed EXCEPT ![FileOf[t]] = <<>>]}
    /\ warning' = IF open THEN [transfer |-> t, count |-> 0] ELSE warning
    /\ UNCHANGED rows

\* killed in the data handler, when the chunk has been written
KilledBeforeRow(c) ==
    /\ open
    /\ \E fits \in MayFit(c) :
          disk' = [disk EXCEPT ![FileOf[current]] = OnDisk(c, fits)]
    /\ Forgotten
    /\ UNCHANGED <<rows, warning>>

\* killed between the row and the close
KilledBeforeClose(c) ==
    /\ open
    /\ received + 1 = Expected
    /\ \E fits \in MayFit(c) :
          /\ rows' = Append(rows, [transfer |-> current,
                                   ok |-> OnDisk(c, fits) = Source(FileOf[current])])
          /\ disk' = [disk EXCEPT ![FileOf[current]] = OnDisk(c, fits)]
    /\ Forgotten
    /\ UNCHANGED warning

KilledInData(c) == KilledBeforeRow(c) \/ KilledBeforeClose(c)

ReceiverNext ==
    \/ \E t \in Transfers : OnControl(t) \/ KilledInControl(t)
    \/ \E c \in Chunks : OnData(c) \/ KilledInData(c)
    \/ ReceiverRestarts

ReceiverSpec == ReceiverInit /\ [][ReceiverNext]_receiverVars

----------------------------------------------------------------------------
NewRow == rows'[Len(rows')]
RowWritten == Len(rows') > Len(rows)
ArrivedWhole(f) == disk'[f] = Source(f)     \* once its handle is closed
RowsOf(t) == {i \in DOMAIN rows : rows[i].transfer = t}

\* A row that reports integrity_ok is written only when the output file, once
\* its handle is closed, holds the whole source file and nothing else: the
\* hash is taken before the close, so bytes still buffered must not exist.
IntegritySound ==
    [][RowWritten /\ NewRow.ok => ArrivedWhole(FileOf[NewRow.transfer])]_receiverVars

\* The converse, for a file whose last chunk does not stay in the buffer: when
\* it arrived whole, the row reports it intact.
IntactReported ==
    [][RowWritten /\ ArrivedWhole(FileOf[NewRow.transfer])
         /\ FileOf[NewRow.transfer] \notin SmallTail => NewRow.ok]_receiverVars

\* A row is only ever written of the transfer whose file is open, and, unless the
\* receiver is killed at it, at the one moment at which that file has got as many
\* chunks as its metadata announced, the buffered ones included: neither is a file
\* with all its chunks left without a row, nor one judged with too few or too many
\* (client_b.py:143, amqp_receiver.py:155).  A file of no chunks never gets one.
RowCountsTheFile ==
    [][/\ RowWritten => open /\ NewRow.transfer = current
       /\ open /\ current' = current /\ Expected > 0 =>
             (RowWritten <=> Len(disk'[FileOf[current]]) + Len(buffered') = Expected)
      ]_receiverVars
=============================================================================
