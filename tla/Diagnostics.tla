---------------------------- MODULE Diagnostics ----------------------------
(***************************************************************************)
(* Typed events of one device: the queue in the RAM of the board, uploaded *)
(* two at a time from its head, and the rows the platform keeps of them.   *)
(* An event is frozen when it is queued, so a retried upload repeats it    *)
(* exactly; what its fields say is left out but for the operation of a     *)
(* boot event, which is the one the board was running when it went down.   *)
(*                                                                         *)
(* An upload the board stopped waiting for is served before its next one,  *)
(* or never: one that outlives a reset of the board is left out.           *)
(***************************************************************************)
EXTENDS Integers, Sequences, SequencesExt

CONSTANTS
    Operation,    \* what the board may be doing
    Idle,         \* the operation written at every boot
    QueueSize,    \* 16 in the code
    Batch,        \* events of an upload, 2 in the code
    KeepEvents,   \* rows the platform keeps, 128 in the code
    MaxSequence,  \* the last number of a boot, 65535 in the code
    MaxEvents,    \* bounds the events of all boots
    MaxBoots,     \* bounds the boots
    MaxFaults     \* bounds lost uploads and failed writes

ASSUME DiagnosticsAssumption ==
    /\ Idle \in Operation
    /\ QueueSize \in Nat \ {0}
    /\ Batch \in Nat \ {0}
    /\ KeepEvents \in Nat /\ KeepEvents >= Batch
    /\ MaxSequence \in Nat
    /\ MaxEvents \in Nat
    /\ MaxBoots \in Nat \ {0}
    /\ MaxFaults \in Nat

VARIABLES
    queue,      \* events waiting on the board
    sending,    \* events of the upload in flight
    board,      \* boot_id, next_sequence, last_operation and the copy in flash
    rows,       \* DeviceDiagnosticEvent rows, oldest first
    snapshot,   \* the snapshot command of the owner
    events,     \* events reported so far
    faults,
    received,   \* history: every row ever created
    ended       \* history: what the board was doing when each boot ended

boardVars == <<queue, sending, board>>
vars == <<boardVars, rows, snapshot, events, faults, received, ended>>

Event == [boot: 1..MaxBoots, sequence: Nat, kind: {"boot", "other"}, operation: Operation]

DiagnosticsTypeOK ==
    /\ queue \in Seq(Event)
    /\ Len(queue) <= QueueSize
    /\ sending \in Seq(Event)
    /\ Len(sending) <= Batch
    /\ board \in [boot: 1..MaxBoots, next: Nat, operation: Operation, stored: Operation,
                  last: BOOLEAN]
    /\ rows \in Seq(Event)
    /\ Len(rows) <= KeepEvents
    /\ snapshot \in {"none", "queued", "applied"}
    /\ events \in 0..MaxEvents
    /\ faults \in 0..MaxFaults
    /\ received \in Seq(Event)
    /\ ended \in Seq(SUBSET Operation)

\* Mutation of BootEvent: the operation is reset before the event is made.
BootEventLate(boot, operation) ==
    [boot |-> boot, sequence |-> 0, kind |-> "boot", operation |-> Idle]

BootEvent(boot, operation) ==
    [boot |-> boot, sequence |-> 0, kind |-> "boot", operation |-> operation]

\* diagnostic_boot: a new identity, the event of this boot, and nothing else.
Booted(boot, stored) == [boot |-> boot, next |-> 1, operation |-> Idle, stored |-> stored,
                         last |-> FALSE]

Init ==
    /\ queue = <<BootEvent(1, Idle)>>
    /\ sending = <<>>
    /\ board = Booted(1, Idle)
    /\ rows = <<>>
    /\ snapshot = "none"
    /\ events = 0
    /\ faults = 0
    /\ received = <<>>
    /\ ended = <<>>

Fault == faults < MaxFaults /\ faults' = faults + 1

----------------------------------------------------------------------------
(* The board.                                                              *)

\* Mutation of Appended: a full queue grows.
AppendedAlways(kind) ==
    Append(queue, [boot |-> board.boot, sequence |-> board.next, kind |-> kind,
                   operation |-> board.operation])

Room == Len(queue) < QueueSize /\ board.next <= MaxSequence

\* append: a full queue drops the event, and its number is not used; so does a
\* boot that has used every number.
Appended(kind) ==
    IF ~Room THEN queue
    ELSE Append(queue, [boot |-> board.boot, sequence |-> board.next, kind |-> kind,
                        operation |-> board.operation])

Numbered == IF Room THEN board.next + 1 ELSE board.next

Report ==
    /\ events < MaxEvents
    /\ events' = events + 1
    /\ queue' = Appended("other")
    /\ board' = [board EXCEPT !.next = Numbered]
    /\ UNCHANGED <<sending, rows, snapshot, faults, received, ended>>

\* diagnostic_operation: the flash copy follows, if it can be written.
ChangeOperation(o) ==
    /\ o # board.operation
    /\ \/ board' = [board EXCEPT !.operation = o, !.stored = o] /\ UNCHANGED faults
       \/ board' = [board EXCEPT !.operation = o] /\ Fault
    /\ UNCHANGED <<queue, sending, rows, snapshot, events, received, ended>>

\* A reset: RAM is lost, and the flash copy tells what the board was doing, if
\* it can be read, and is reset, if it can be written.
Restart ==
    /\ board.boot < MaxBoots
    /\ \E read, written \in BOOLEAN :
          /\ IF read /\ written THEN UNCHANGED faults ELSE Fault
          /\ board' = Booted(board.boot + 1, IF written THEN Idle ELSE board.stored)
          /\ queue' = <<BootEvent(board.boot + 1, IF read THEN board.stored ELSE Idle)>>
          /\ ended' = Append(ended, IF read /\ board.operation = board.stored
                                    THEN {board.operation} ELSE Operation)
    /\ sending' = <<>>
    /\ UNCHANGED <<rows, snapshot, events, received>>

----------------------------------------------------------------------------
(* Uploads.                                                                *)

\* diagnostic_batch
StartUpload ==
    /\ sending = <<>>
    /\ queue # <<>>
    /\ sending' = SubSeq(queue, 1, IF Len(queue) < Batch THEN Len(queue) ELSE Batch)
    /\ UNCHANGED <<queue, board, rows, snapshot, events, faults, received, ended>>

IsRow(e) == \E i \in DOMAIN rows : rows[i].boot = e.boot /\ rows[i].sequence = e.sequence

\* Mutation of Created: every event makes a row.
CreatedAgain(batch) == batch

\* An event that is already a row is not stored again.
Fresh(batch) == {i \in DOMAIN batch : ~IsRow(batch[i])}

\* upload: one row for each fresh event, in the order of the batch.  (SelectSeq
\* says the same, but is defined by recursion, of which nothing can be proved.)
Created(batch) ==
    [k \in 1..Cardinality(Fresh(batch)) |->
        batch[CHOOSE i \in Fresh(batch) : Cardinality({j \in Fresh(batch) : j < i}) = k - 1]]

\* Mutation of Newest: the oldest rows stay.
Oldest(s) == SubSeq(s, 1, IF Len(s) < KeepEvents THEN Len(s) ELSE KeepEvents)

Newest(s) == IF Len(s) <= KeepEvents THEN s
             ELSE SubSeq(s, Len(s) - KeepEvents + 1, Len(s))

\* After the new rows, those older than thirty days go, then all but the newest.
\* An upload is not retried for thirty days: its own rows are younger.
Stored(batch) ==
    /\ \E aged \in 0..Len(rows) :
          /\ \A i \in 1..aged : \A j \in DOMAIN batch : rows[i] # batch[j]
          /\ rows' = Newest(SubSeq(rows, aged + 1, Len(rows)) \o Created(batch))
    /\ received' = received \o Created(batch)

\* Mutation of Left: the acknowledgement clears the queue.
LeftNone(q, count) == <<>>

\* Mutation of Left: one fewer than were sent.
LeftOne(q, count) == SubSeq(q, count, Len(q))

\* diagnostic_ack: as many as were sent, from the head.
Left(q, count) == SubSeq(q, count + 1, Len(q))

Upload ==
    /\ sending # <<>>
    /\ Stored(sending)
    /\ queue' = Left(queue, Len(sending))
    /\ sending' = <<>>
    /\ UNCHANGED <<board, snapshot, events, faults, ended>>

\* The request is lost or refused, or it is served and the answer is lost.
UploadLost ==
    /\ sending # <<>>
    /\ Fault
    /\ Stored(sending) \/ UNCHANGED <<rows, received>>
    /\ sending' = <<>>
    /\ UNCHANGED <<queue, board, snapshot, events, ended>>

----------------------------------------------------------------------------
(* The snapshot command: an event, once a boot, and its acknowledgement.   *)

RequestSnapshot ==
    /\ snapshot = "none"
    /\ snapshot' = "queued"
    /\ UNCHANGED <<boardVars, rows, events, faults, received, ended>>

TakeSnapshot ==
    /\ snapshot = "queued"
    /\ sending = <<>>
    /\ queue' = IF board.last THEN queue ELSE Appended("other")
    /\ \/ /\ snapshot' = "applied"
          /\ board' = [board EXCEPT !.next = IF board.last THEN @ ELSE Numbered,
                                    !.last = FALSE]
          /\ UNCHANGED faults
       \/ /\ Fault
          /\ snapshot' \in {"queued", "applied"}
          /\ board' = [board EXCEPT !.next = IF board.last THEN @ ELSE Numbered,
                                    !.last = TRUE]
    /\ UNCHANGED <<sending, rows, events, received, ended>>

----------------------------------------------------------------------------
Next == \/ Report
        \/ \E o \in Operation : ChangeOperation(o)
        \/ Restart
        \/ StartUpload
        \/ Upload
        \/ UploadLost
        \/ RequestSnapshot
        \/ TakeSnapshot

Spec == Init /\ [][Next]_vars

\* The network task uploads every thirty seconds.
FairSpec == /\ Spec
            /\ WF_vars(StartUpload)
            /\ WF_vars(Upload)
            /\ WF_vars(TakeSnapshot)

----------------------------------------------------------------------------
(* What must hold.                                                         *)

\* How many events of the current boot the platform has.
Uploaded ==
    IF received # <<>> /\ received[Len(received)].boot = board.boot
    THEN received[Len(received)].sequence + 1
    ELSE 0

\* The rows of a boot begin with its first event and leave out none; those of
\* a later boot come after them.
InSequence ==
    /\ \A j \in DOMAIN received : \E i \in 1..j :
          received[i].boot = received[j].boot /\ received[i].sequence = 0
    /\ \A i, j \in DOMAIN received :
          i < j => \/ received[i].boot < received[j].boot
                   \/ /\ received[i].boot = received[j].boot
                      /\ received[j].sequence = received[i].sequence + (j - i)
    /\ queue # <<>> => queue[1].sequence <= Uploaded

NewestKept == IsSuffix(rows, received)

LastWordIsTrue ==
    \A i \in DOMAIN received :
       received[i].kind = "boot" /\ received[i].boot > 1
          => received[i].operation \in ended[received[i].boot - 1]

\* The platform's record of the board is exact.  No event of a boot is skipped,
\* stored twice or stored out of order, and what the board still has to upload
\* follows on it; the rows are the newest that came; and a boot event names the
\* operation during which the board went down, unless flash refused to record
\* it or to be read (diagnostic_batch, diagnostic_ack, upload, diagnostic_operation).
RecordIsExact == InSequence /\ NewestKept /\ LastWordIsTrue

\* Every queued event is uploaded, and every snapshot command is acknowledged.
Delivered == <>[](queue = <<>> /\ snapshot # "queued")
=============================================================================
