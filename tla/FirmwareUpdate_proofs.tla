----------------------- MODULE FirmwareUpdate_proofs -----------------------
(***************************************************************************)
(* Theorems about FirmwareUpdate, for any releases, images, deployments,   *)
(* bounds and number of faults.                                            *)
(***************************************************************************)
EXTENDS FirmwareUpdate, DeploymentService_proofs

Held == journal # None

\* The platform's row of the update in the journal.
JobRow == jobs[journal.job]

In(states) == journal.state \in states

Marked(what) == what \in history[journal.job]

\* Where a tick works on an update that no restart has interrupted.
Working == {"approve", "download", "stream", "verify", "select", "commit", "restart"}

\* What the place of the client in its tick says of its journal.
Control ==
    /\ engine.pc \in {"flush", "status"} => Held /\ journal.pending
    /\ engine.pc \in {"dispatch"} \cup Working => Held /\ ~journal.pending
    /\ engine.pc \in Working => ~engine.interrupted
    /\ engine.pc \notin {"idle", "stopped"} => board.confirmed
    /\ Held /\ engine.recovering /\ engine.pc # "stopped" => engine.interrupted
    /\ Held /\ journal.pending => journal.sequence > 0 /\ In(ReportStates)
    /\ engine.pc = "downloaded" =>
          /\ Held
          /\ ~In({"queued"})
          /\ ~engine.recovering
          /\ journal.pending => journal.bytes > 0 /\ engine.failure # ""
          /\ engine.failure = "" => ~engine.interrupted

\* The state in the journal at each step of an update.
Phases ==
    /\ engine.pc = "approve" => In({"downloading", "verifying", "rebooting"})
    /\ engine.pc \in {"download", "stream"} => In({"downloading"})
    /\ engine.pc = "verify" => In({"verifying", "rebooting"})
    /\ engine.pc \in {"select", "commit", "restart"} => In({"rebooting"})

\* The same of the step a flush returns to.
Returning ==
    engine.pc \in {"flush", "status"} =>
        /\ engine.then \in {"idle", "dispatch", "approve", "stream", "downloaded",
                            "verify", "select"}
        /\ engine.then \in {"approve", "stream", "verify", "select"} => ~engine.interrupted
        /\ engine.then \in {"approve", "stream"} => In({"downloading"})
        /\ engine.then = "stream" => journal.bytes > 0
        /\ engine.then = "downloaded" =>
              engine.failure # "" /\ journal.bytes > 0 /\ ~engine.recovering
        /\ engine.then = "verify" => In({"verifying"})
        /\ engine.then = "select" => In({"rebooting"})

\* The client is about to select the target that it has verified.
Selecting == \/ engine.pc = "select"
             \/ engine.pc \in {"flush", "status"} /\ engine.then = "select"

\* Without an update both otadata and the running image are settled.
Settled ==
    /\ board.boot = board.running
    /\ board.image[board.running] # None
    /\ board.state[board.running] = "valid"
    /\ board.state[Other(board.running)] \notin {"new", "pending"}

\* The four situations of the two slots during an update of slot s from slot o.
NotSelected(s, o) ==
    /\ board.boot = board.running
    /\ board.state[s] \notin {"new", "pending"}
    /\ board.running = s => /\ board.state[s] = "valid"
                            /\ board.state[o] = "invalid"
                            /\ board.image[s] # None

Chosen(s, o) ==
    /\ board.boot = s /\ board.running = o
    /\ board.state[s] = "new" /\ board.state[o] = "valid"
    /\ engine.pc \in {"commit", "restart", "stopped"}
    /\ board.confirmed

Tried(s) ==
    /\ board.boot = s /\ board.running = s
    /\ board.state[s] \in {"pending", "valid"}
    /\ engine.recovering \/ engine.pc = "stopped"

Returned(s, o) ==
    /\ board.boot = o /\ board.running = o
    /\ board.state[s] \in {"aborted", "invalid"}
    /\ Marked("failed")
    /\ engine.recovering \/ engine.pc = "stopped"

Updating(s, o) ==
    /\ board.image[o] = journal.previous
    /\ journal.previous # Target
    /\ board.state[o] \in {"valid", "invalid"}
    /\ board.running = s \/ Marked("proved") => engine.recovering \/ engine.pc = "stopped"
    /\ Selecting => board.image[s] = Target
    /\ journal.committed \/ engine.pc \in {"commit", "restart"} => Marked("selected")
    /\ board.running = s /\ board.confirmed /\ board.image[s] = Target => Marked("proved")
    /\ Marked("proved") =>
          /\ board.image[s] = Target
          /\ \/ board.running = s /\ board.state[s] = "valid"
             \/ board.running = o /\ board.state[s] = "invalid"
    /\ Marked("failed") => Marked("selected") /\ Returned(s, o)
    /\ ~Marked("selected") => NotSelected(s, o)
    /\ Marked("selected") => /\ board.image[s] = Target
                             /\ Chosen(s, o) \/ Tried(s) \/ Returned(s, o)

\* The slots, otadata and the marks of the update agree, whatever was cut short.
Slots ==
    /\ board.confirmed => board.state[board.running] = "valid"
    /\ board.image[1] # board.image[2]
    /\ ~Held => Settled
    /\ Held => Updating(journal.slot, Other(journal.slot))

\* Each attempt counted in flash but the last was cut short.
Counter ==
    /\ board.boots <= board.failed + 1
    /\ board.confirmed => board.boots = 0
    /\ HoldTakesThreeBadStarts

\* Row j agrees with its last report, and with the confirmed image.
RowFits(j) ==
    /\ IF jobs[j].last = None
       THEN /\ jobs[j].state \in {"queued", "cancelled"}
            /\ jobs[j].sequence = 0 /\ jobs[j].bytes = 0
       ELSE /\ jobs[j].state = jobs[j].last.state
            /\ jobs[j].sequence = jobs[j].last.sequence
    /\ jobs[j].state = "confirmed" =>
          firmware # None /\ Sequence[jobs[j].release] <= firmware.sequence

Rows == \A j \in JobId : jobs[j].state # "none" => RowFits(j)

Journaled(j) == Held /\ journal.job = j

\* The journal and the row of the platform are about the same update, at the
\* same report or one apart.
InStep ==
    Held =>
        /\ JobRow.state # "none"
        /\ SameUpdate(JobRow, journal)
        /\ JobRow.state \in {"queued", "cancelled"} => journal.bytes = 0
        /\ IF journal.pending
           THEN journal.sequence \in {JobRow.sequence, JobRow.sequence + 1}
           ELSE \/ /\ journal.sequence = JobRow.sequence
                   /\ \/ journal.state = JobRow.state
                      \/ journal.state = "queued" /\ JobRow.state = "cancelled"
                \/ /\ engine.interrupted
                   /\ journal.sequence + 1 = JobRow.sequence
                   /\ In(ActiveStates)

\* A delayed report of an active deployment is no newer than its journal, but
\* for the one that a reconciliation gave up.
LateFits ==
    \A m \in late :
        /\ jobs[m.job].state # "none"
        /\ Active(m.job) =>
              /\ Journaled(m.job)
              /\ \/ m.report.sequence <= journal.sequence
                 \/ /\ ~journal.pending /\ engine.interrupted
                    /\ m.report.sequence = journal.sequence + 1

\* Nothing has happened yet to the target of a deployment that was not adopted.
Untouched ==
    \A j \in JobId :
        /\ jobs[j].state = "none" => history[j] = {}
        /\ Active(j) /\ ~Journaled(j) => jobs[j].state = "queued" /\ history[j] = {}

\* The marks h of a target support a report of this state.
Supports(h, state) ==
    /\ state = "confirmed" => "proved" \in h
    /\ state = "rolled_back" => {"selected", "failed"} \subseteq h

AfterSelection == {"rebooting", "confirmed", "rolled_back"}

\* Rows, delayed reports and the journal say only what happened to the target.
Evidence ==
    /\ \A j \in JobId : /\ Supports(history[j], jobs[j].state)
                        /\ "selected" \in history[j] => jobs[j].state \in AfterSelection
    /\ \A m \in late : /\ Supports(history[m.job], m.report.state)
                       /\ "selected" \in history[m.job] =>
                             \/ m.report.sequence <= jobs[m.job].sequence
                             \/ m.report.state # "failed"
    /\ Held => /\ Supports(history[journal.job], journal.state)
               /\ Marked("selected") => In(AfterSelection)

\* During an update the record is the image it replaces, or its target once
\* confirmed.
RecordFits ==
    Held => /\ firmware # None
            /\ \/ Corrected
               \/ firmware.app = IF JobRow.state = "confirmed" THEN Target ELSE journal.previous

Device == TypeOK /\ Control /\ Phases /\ Returning /\ Slots /\ Counter

Tracking == InStep /\ LateFits /\ Untouched /\ Rows

Recorded == RecordFits /\ BoardMatchesRecord

\* The inductive invariant.
Inv == Device /\ Exclusive /\ Tracking /\ Evidence /\ Recorded

----------------------------------------------------------------------------
(* Facts about one state.                                                  *)

LEMMA SlotFacts ==
    /\ 1 \in Slot /\ 2 \in Slot
    /\ \A s \in Slot : Other(s) \in Slot /\ Other(s) # s /\ Other(Other(s)) = s
    /\ \A s, x \in Slot : x = s \/ x = Other(s)
  BY DEF Slot, Other

\* The journal is a journal, the engine an engine and the board a board.
LEMMA Fields ==
    ASSUME TypeOK
    PROVE  /\ Held => journal \in Journal
           /\ engine \in Engine
           /\ board \in Board
  BY DEF TypeOK, Held

\* The board always runs some image.
LEMMA RunningIsImage ==
    ASSUME TypeOK, Slots
    PROVE  Running \in Image
  <1>1. board.image[board.running] \in Image \cup {None} /\ board.running \in Slot
    BY DEF TypeOK, Board
  <1>2. CASE ~Held
    BY <1>1, <1>2 DEF Slots, Settled, Running
  <1>3. CASE Held
    <2>1. journal.slot \in Slot /\ journal.previous \in Image /\ journal.release \in Release
      BY <1>3 DEF TypeOK, Held, Journal
    <2>2. Target \in Image
      BY <2>1, ReleaseAssumption DEF Target
    <2>3. CASE board.running = Other(journal.slot)
      BY <1>3, <2>1, <2>3 DEF Slots, Updating, Running
    <2>4. CASE board.running = journal.slot
      BY <1>1, <1>3, <2>2, <2>4 DEF Slots, Updating, NotSelected, Running
    <2> QED
      BY <1>1, <2>1, <2>3, <2>4, SlotFacts
  <1> QED
    BY <1>2, <1>3

\* What the client sends is a report.
LEMMA PendingIsReport ==
    ASSUME TypeOK, Control, Held, journal.pending
    PROVE  PendingReport \in Report /\ journal.job \in JobId
  <1>1. journal \in Journal
    BY DEF TypeOK, Held
  <1>2. journal.sequence > 0 /\ journal.state \in ReportStates
    BY DEF Control, In
  <1>3. Target \in Image /\ journal.previous \in Image
    BY <1>1, ReleaseAssumption DEF Target, Journal
  <1> QED
    BY <1>1, <1>2, <1>3, BoundAssumption DEF PendingReport, Report, Journal

\* What each operation on the platform is, seen from the service.
LEMMA PlatformStep ==
    ASSUME TypeOK, Control, Slots, Next
    PROVE  [ServiceStep]_serviceVars
  <1>1. Running \in Image
    BY RunningIsImage
  <1>2. ServePoll => [ServiceStep]_serviceVars
    BY <1>1 DEF ServePoll, ServiceStep, AnyDeviceNext
  <1>3. ASSUME NEW j \in JobId, NEW r \in Report, ReportUpdate(j, r)
        PROVE  [ServiceStep]_serviceVars
    BY <1>3 DEF ServiceStep, AnyDeviceNext
  <1>4. CASE Poll \/ ApproveStart \/ VerifyTarget
    BY <1>2, <1>4 DEF Poll, ApproveStart, VerifyTarget, Approve
  <1>5. CASE Identify
    BY <1>1, <1>5 DEF Identify, ServiceStep, AnyDeviceNext
  <1>6. CASE FlushAnswered \/ FlushLost
    <2>1. PendingReport \in Report /\ journal.job \in JobId
      BY <1>6, PendingIsReport DEF FlushAnswered, FlushLost, At, Control
    <2> QED
      BY <1>3, <1>6, <2>1 DEF FlushAnswered, FlushLost
  <1>7. CASE LateReport
    BY <1>3, <1>7 DEF LateReport, TypeOK
  <1>8. CASE Reconcile
    <2>1. journal.job \in JobId
      BY <1>8, PendingIsReport DEF Reconcile, At, Control
    <2> QED
      BY <1>8, <2>1 DEF Reconcile, ServiceStep, AnyDeviceNext
  <1>9. CASE Elsewhere
    BY <1>9 DEF Elsewhere, Undisturbed, Disturbed, ServiceStep, OwnerNext, PlatformNext
  <1>10. CASE \/ Resume \/ HeartbeatRefused \/ Dispatch \/ BeginDownload \/ Stream
              \/ AfterDownload \/ SelectTarget \/ CommitSelection \/ BoardStep
    BY <1>10
    DEF Resume, HeartbeatRefused, Dispatch, BeginDownload, Stream, AfterDownload, SelectTarget,
        CommitSelection, BoardStep, Restart, PowerLoss, StartupConfirmed, StartupFailed,
        LocalRetry, CancelPressed
  <1> QED
    BY <1>4, <1>5, <1>6, <1>7, <1>8, <1>9, <1>10 DEF Next, TickStep

----------------------------------------------------------------------------
(* Journaling a report: what every action that submits one has in common.  *)

Entry(state, bytes, error) ==
    [journal EXCEPT !.state = state, !.sequence = @ + 1, !.bytes = bytes,
                    !.pending = TRUE, !.error = error]

\* The tick may go on to this step once this report is acknowledged.
ReturnFits(then, state, bytes) ==
    /\ then \in {"idle", "approve", "stream", "verify", "select"}
    /\ then # "idle" => ~engine.interrupted
    /\ then \in {"approve", "stream"} => state = "downloading"
    /\ then = "stream" => bytes > 0
    /\ then = "verify" => state = "verifying"
    /\ then = "select" => state = "rebooting" /\ TargetIntact

\* The report is true of the target, and a deployment not claimed has no bytes.
ReportFits(state, bytes) ==
    /\ JobRow.state \in {"queued", "cancelled"} => bytes = 0
    /\ Supports(history[journal.job], state)
    /\ Marked("selected") => state \in AfterSelection

\* A pending cancellation may be consumed on the way.
Engines == {engine, [engine EXCEPT !.cancel = FALSE]}

Journaling ==
    /\ Held /\ ~journal.pending /\ board.confirmed /\ ~At("stopped")
    /\ \E e \in Engines, state \in ReportStates, bytes \in 0..Size, error \in ErrorCode,
          then \in Steps :
          /\ ReturnFits(then, state, bytes)
          /\ ReportFits(state, bytes)
          /\ SubmitFrom(e, TRUE, state, bytes, error, then)

LEMMA EntryType ==
    ASSUME TypeOK, Held, journal.sequence < MaxSequence,
           NEW state \in ReportStates, NEW bytes \in 0..Size, NEW error \in ErrorCode
    PROVE  Entry(state, bytes, error) \in Journal
  <1>1. journal \in Journal
    BY DEF TypeOK, Held
  <1>2. journal.sequence + 1 \in 0..MaxSequence
    BY <1>1, BoundAssumption DEF Journal
  <1> QED
    BY <1>1, <1>2 DEF Entry, Journal

\* The journal and the engine after a submission.
SubmitEffect(e, state, bytes, error, then) ==
    \/ journal' = journal /\ engine' = [e EXCEPT !.pc = "idle"]
    \/ /\ journal' = journal
       /\ engine' = [e EXCEPT !.pc = "stopped", !.then = then]
    \/ /\ journal.sequence < MaxSequence
       /\ journal' = Entry(state, bytes, error)
       /\ \/ engine' = [e EXCEPT !.pc = "flush", !.then = then]
          \/ engine' = [e EXCEPT !.pc = "stopped", !.then = then]

LEMMA JournalingEffect ==
    ASSUME TypeOK, Journaling
    PROVE  \E e \in Engines, state \in ReportStates, bytes \in 0..Size, error \in ErrorCode,
              then \in Steps :
              /\ ReturnFits(then, state, bytes)
              /\ ReportFits(state, bytes)
              /\ SubmitEffect(e, state, bytes, error, then)
  <1>1. PICK e \in Engines, state \in ReportStates, bytes \in 0..Size, error \in ErrorCode,
             then \in Steps :
          /\ ReturnFits(then, state, bytes)
          /\ ReportFits(state, bytes)
          /\ SubmitFrom(e, TRUE, state, bytes, error, then)
    BY DEF Journaling
  <1>2. journal.sequence \in Int /\ MaxSequence \in Int
    BY BoundAssumption DEF Journaling, TypeOK, Held, Journal
  <1>3. e \in Engine
    BY DEF TypeOK, Engines, Engine
  <1>4. [[e EXCEPT !.pc = "flush", !.then = then] EXCEPT !.pc = "stopped"]
          = [e EXCEPT !.pc = "stopped", !.then = then]
    BY <1>3 DEF Engine
  <1>5. SubmitEffect(e, state, bytes, error, then)
    BY <1>1, <1>2, <1>4 DEF SubmitFrom, SaveAt, Entry, SubmitEffect
  <1> QED
    BY <1>1, <1>5

\* A submission keeps the client's part of the invariant.
LEMMA JournalingKeeps ==
    ASSUME TypeOK, Control, Journaling, board'.confirmed
    PROVE  /\ journal' \in Journal /\ engine' \in Engine
           /\ Control' /\ Phases' /\ Returning'
  <1>1. PICK e \in Engines, state \in ReportStates, bytes \in 0..Size, error \in ErrorCode,
             then \in Steps :
          /\ ReturnFits(then, state, bytes)
          /\ SubmitEffect(e, state, bytes, error, then)
    BY JournalingEffect
  <1>2. /\ journal \in Journal /\ journal # None /\ e \in Engine
        /\ e.interrupted = engine.interrupted /\ e.recovering = engine.recovering
    BY DEF TypeOK, Journaling, Held, Engines, Engine
  <1>3. /\ engine' \in Engine
        /\ engine'.interrupted = engine.interrupted /\ engine'.recovering = engine.recovering
        /\ engine'.pc \in {"idle", "stopped", "flush"}
        /\ engine'.pc = "flush" => engine'.then = then /\ journal' = Entry(state, bytes, error)
    BY <1>1, <1>2 DEF SubmitEffect, Engine, Steps
  <1>4. journal' \in Journal
    BY <1>1, <1>2, EntryType DEF SubmitEffect, Journaling
  <1>5. Held' /\ board'.confirmed
    BY <1>4, JournalAssumption DEF Held, Journaling
  <1>6. Held /\ engine.recovering => engine.interrupted
    BY DEF Control, Journaling, At
  <1>7. CASE journal' = journal
    <2>1. ~journal'.pending /\ engine'.pc # "flush"
      BY <1>2, <1>3, <1>7 DEF Journaling, Entry, Journal
    <2>2. Control'
      BY <1>3, <1>5, <1>6, <2>1 DEF Control, Working, Journaling
    <2> QED
      BY <1>3, <1>4, <2>1, <2>2 DEF Phases, Returning
  <1>8. CASE journal' = Entry(state, bytes, error)
    <2>1. /\ journal'.state = state /\ journal'.bytes = bytes /\ journal'.pending
          /\ journal'.sequence > 0
      BY <1>2, <1>8 DEF Entry, Journal
    <2>2. Control'
      BY <1>3, <1>5, <1>6, <2>1 DEF Control, Working, Journaling, In
    <2>3. Phases' /\ Returning'
      BY <1>1, <1>3, <2>1 DEF Phases, Returning, ReturnFits, In
    <2> QED
      BY <1>3, <1>4, <2>2, <2>3
  <1> QED
    BY <1>1, <1>7, <1>8 DEF SubmitEffect

\* Neither the fault it may cost nor a pending cancellation matters here.
LEMMA Submitting ==
    ASSUME Held, ~journal.pending, board.confirmed, ~At("stopped"),
           NEW e \in Engines, NEW state \in ReportStates, NEW bytes \in 0..Size,
           NEW error \in ErrorCode, NEW then \in Steps,
           ReturnFits(then, state, bytes), ReportFits(state, bytes),
           \/ SubmitFrom(e, Fine, state, bytes, error, then)
           \/ SubmitFrom(e, Fault, state, bytes, error, then)
    PROVE  Journaling
  <1>1. SubmitFrom(e, TRUE, state, bytes, error, then)
    BY DEF SubmitFrom, SaveAt
  <1> QED
    BY <1>1 DEF Journaling

\* A target is selected only at the end of a tick, or before a restart.
LEMMA NotYetSelected ==
    ASSUME Control, Slots, Held, engine.pc \notin {"idle", "commit", "restart", "stopped"},
           ~engine.recovering
    PROVE  /\ ~Marked("selected") /\ ~Marked("failed") /\ ~Marked("proved")
           /\ NotSelected(journal.slot, Other(journal.slot))
           /\ board.running # journal.slot
  BY DEF Slots, Updating, Chosen, Tried, Returned

\* The row of a journal past its adoption has been claimed.
LEMMA RowIsClaimed ==
    ASSUME TypeOK, InStep, Rows, Held, ~journal.pending, ~In({"queued"})
    PROVE  JobRow.state \notin {"queued", "cancelled"}
  <1>1. journal \in Journal /\ journal.job \in JobId
    BY DEF TypeOK, Held, Journal
  <1>2. JobRow \in Job
    BY <1>1, RowTypes, UsedRow DEF TypeOK, InStep, JobRow
  <1>3. CASE journal.sequence = JobRow.sequence
    <2>1. journal.state = JobRow.state
      BY <1>3, <1>1 DEF InStep, In, Journal
    <2> QED
      BY <1>1, <2>1 DEF In, Journal, ReportStates
  <1>4. CASE journal.sequence # JobRow.sequence
    <2>1. JobRow.sequence # 0
      BY <1>1, <1>2, <1>4, BoundAssumption DEF InStep, Journal, Job
    <2>2. JobRow.last # None /\ JobRow.state = JobRow.last.state
      BY <1>1, <1>2, <2>1 DEF Rows, RowFits, InStep, JobRow
    <2>3. JobRow.last \in Report
      BY <1>2, <2>2 DEF Job
    <2> QED
      BY <2>2, <2>3 DEF Report, ReportStates
  <1> QED
    BY <1>3, <1>4

\* Constants of the client that the submissions use.
LEMMA Literals ==
    /\ {"", "network", "local_cancelled", "storage", "boot_failed", "hash_mismatch",
        "image_rejected", "approval_unavailable"} \subseteq ErrorCode
    /\ Size \in 0..Size /\ 0 \in 0..Size /\ Size > 0
    /\ DownloadError \subseteq ErrorCode
  <1>1. DownloadError \subseteq ErrorCode
    BY ClientAssumption
  <1>2. Size \in 0..Size /\ 0 \in 0..Size /\ Size > 0
    BY BoundAssumption
  <1>3. {"", "network", "local_cancelled", "storage", "boot_failed", "hash_mismatch",
         "image_rejected", "approval_unavailable"} \subseteq ErrorCode
    BY ReportAssumption, ClientAssumption
  <1> QED
    BY <1>1, <1>2, <1>3

\* After a dispatch: an outcome, a report, a stop or an approval.
LEMMA DispatchStep ==
    ASSUME Inv, Dispatch
    PROVE  \/ Journaling
           \/ Finish
           \/ journal' = journal /\ engine' = Goto("stopped")
           \/ /\ journal' = journal /\ engine' = Goto("approve")
              /\ ~engine.interrupted
              /\ In({"downloading", "verifying", "rebooting"})
  <1> USE DEF Inv, Device, Tracking
  <1>1. /\ Held /\ ~journal.pending /\ board.confirmed /\ ~At("stopped")
        /\ journal \in Journal /\ engine \in Engines
        /\ At("dispatch")
    BY DEF Dispatch, At, Control, Held, TypeOK, Engines
  <1>2. Marked("selected") => Chosen(journal.slot, Other(journal.slot))
                              \/ Tried(journal.slot)
                              \/ Returned(journal.slot, Other(journal.slot))
    BY <1>1 DEF Slots, Updating
  <1>3. journal.slot \in Slot /\ journal.bytes \in 0..Size
    BY <1>1 DEF Journal
  <1>4. CASE Resolve
    <2>1. JobRow.state \notin {"queued", "cancelled"}
      BY <1>1, <1>4, RowIsClaimed DEF Resolve, In
    <2>2. ASSUME Running = Target
          PROVE  Marked("proved")
      <3>1. board.running = journal.slot
        BY <1>1, <1>3, <2>2, SlotFacts DEF Slots, Updating, Running, TypeOK, Board
      <3> QED
        BY <1>1, <2>2, <3>1 DEF Slots, Updating, Running
    <2>3. CASE Submit(Fine, "confirmed", Size, "", "idle") /\ Running = Target
      BY <1>1, <2>1, <2>2, <2>3, Submitting, Literals
      DEF Submit, ReturnFits, ReportFits, Supports, AfterSelection, Marked, ReportStates, Steps
    <2>4. CASE Submit(Fine, "rolled_back", Size, "boot_failed", "idle") /\ RollbackProved
      <3>1. Marked("selected") /\ Marked("failed")
        BY <1>1, <1>2, <1>3, <2>4, SlotFacts
        DEF RollbackProved, TargetFailed, Slots, Updating, Chosen, Tried, Returned
      <3> QED
        BY <1>1, <2>1, <2>4, <3>1, Submitting, Literals
        DEF Submit, ReturnFits, ReportFits, Supports, AfterSelection, Marked, ReportStates, Steps
    <2>5. ASSUME NEW error \in {"approval_unavailable", "storage"},
                 Fail(Fine, Size, error), ~Marked("selected")
          PROVE  Journaling
      BY <1>1, <2>1, <2>5, Submitting, Literals
      DEF Fail, Submit, ReturnFits, ReportFits, Supports, AfterSelection, ReportStates, Steps
    <2>6. ASSUME ~engine.recovering
          PROVE  ~Marked("selected")
      BY <1>1, <2>6, NotYetSelected DEF At
    <2>7. ASSUME PreviousSelected
          PROVE  ~Marked("selected")
      BY <1>1, <1>2, <2>7 DEF PreviousSelected, Chosen, Tried, Returned, At
    <2> QED
      BY <1>4, <2>3, <2>4, <2>5, <2>6, <2>7 DEF Resolve
  <1>5. CASE GiveUp
    <2>1. ~Marked("selected")
      BY <1>1, <1>5 DEF GiveUp, Evidence, In, AfterSelection
    <2> QED
      BY <1>1, <1>3, <1>5, <2>1, Submitting, Literals
      DEF GiveUp, Fail, Submit, ReturnFits, ReportFits, InStep, Supports, ReportStates, Steps
  <1>6. CASE Advance
    <2>1. CASE Submit(Fine, "downloading", 0, "", "approve") /\ journal.state = "queued"
      <3>1. ~Marked("selected")
        BY <1>1, <2>1 DEF Evidence, In, AfterSelection
      <3> QED
        BY <1>1, <1>6, <2>1, <3>1, Submitting, Literals
        DEF Advance, Submit, ReturnFits, ReportFits, Supports, ReportStates, Steps
    <2> QED
      BY <1>6, <2>1 DEF Advance, In
  <1> QED
    BY <1>4, <1>5, <1>6 DEF Dispatch

\* A tick that is not interrupted may give its update up as failed.
LEMMA GivingUp ==
    ASSUME Inv,
           \/ engine.pc \in {"approve", "stream", "verify", "select"}
           \/ At("downloaded") /\ ~journal.pending,
           NEW e \in Engines, NEW state \in ReportStates, NEW bytes \in 0..Size,
           NEW error \in ErrorCode, NEW then \in Steps,
           state \notin {"confirmed", "rolled_back"}, ReturnFits(then, state, bytes),
           \/ SubmitFrom(e, Fine, state, bytes, error, then)
           \/ SubmitFrom(e, Fault, state, bytes, error, then)
    PROVE  Journaling
  <1> USE DEF Inv, Device, Tracking
  <1>1. /\ Held /\ ~journal.pending /\ board.confirmed /\ ~At("stopped") /\ ~In({"queued"})
        /\ ~engine.recovering
    BY DEF Control, Phases, At, In, Working
  <1>2. ~Marked("selected")
    BY <1>1, NotYetSelected DEF At
  <1>3. JobRow.state \notin {"queued", "cancelled"}
    BY <1>1, RowIsClaimed
  <1>4. ReportFits(state, bytes)
    BY <1>2, <1>3 DEF ReportFits, Supports
  <1> QED
    BY <1>1, <1>4, Submitting

LEMMA RefuseStep ==
    ASSUME Inv, engine.pc \in {"approve", "verify"}, Refuse(Fine) \/ Refuse(Fault)
    PROVE  Journaling
  <1>1. journal.bytes \in 0..Size /\ engine \in Engines
    BY DEF Inv, Device, Control, Working, TypeOK, Held, Journal, Engines
  <1>2. ReturnFits("idle", "failed", journal.bytes)
    BY DEF ReturnFits
  <1>3. \/ SubmitFrom(engine, Fine, "failed", journal.bytes, "approval_unavailable", "idle")
        \/ SubmitFrom(engine, Fault, "failed", journal.bytes, "approval_unavailable", "idle")
    BY DEF Refuse, Fail, Submit
  <1> QED
    BY <1>1, <1>2, <1>3, GivingUp, Literals DEF Steps, ReportStates

\* After an approval, before the download or before the boot selection.
LEMMA ApproveStep ==
    ASSUME Inv, ApproveStart
    PROVE  Journaling \/ Proceed
  BY RefuseStep DEF ApproveStart, Approve, At

LEMMA VerifyStep ==
    ASSUME Inv, VerifyTarget
    PROVE  \/ Journaling
           \/ /\ journal' = journal /\ engine' = Goto("select")
              /\ In({"rebooting"}) /\ TargetIntact
  <1> USE DEF Inv, Device
  <1>1. /\ At("verify") /\ engine \in Engines /\ ~engine.interrupted
        /\ In({"verifying", "rebooting"})
    BY DEF VerifyTarget, Engines, Control, Phases, At, Working
  <1>2. ASSUME Reject(Fine) \/ Reject(Fault)
        PROVE  Journaling
    <2>1. ReturnFits("idle", "failed", Size)
      BY DEF ReturnFits
    <2> QED
      BY <1>1, <1>2, <2>1, GivingUp, Literals DEF Reject, Fail, Submit, Steps, ReportStates, At
  <1>3. ASSUME Accept, ~In({"rebooting"}), TargetIntact
        PROVE  Journaling
    <2>1. ReturnFits("select", "rebooting", Size)
      BY <1>1, <1>3 DEF ReturnFits
    <2> QED
      BY <1>1, <1>3, <2>1, GivingUp, Literals DEF Accept, Submit, Steps, ReportStates, At, In
  <1>4. ASSUME Accept, In({"rebooting"})
        PROVE  journal' = journal /\ engine' = Goto("select")
    BY <1>4 DEF Accept, In
  <1> QED
    BY <1>1, <1>2, <1>3, <1>4, RefuseStep DEF VerifyTarget, Approve, At

LEMMA StreamStep ==
    ASSUME Inv, Stream
    PROVE  \/ Journaling
           \/ /\ journal' = journal
              /\ engine' = Cancelled \/ \E code \in ErrorCode : engine' = Abort(code)
  <1> USE DEF Inv, Device
  <1>1. /\ At("stream") /\ engine \in Engines /\ ~engine.interrupted
        /\ journal.bytes \in 0..Size
    BY DEF Stream, Engines, Control, At, Working, TypeOK, Held, Journal
  <1>2. NextBytes \in 0..Size /\ NextBytes > 0
    BY <1>1, BoundAssumption, ClientAssumption DEF NextBytes
  <1>3. ReturnFits("stream", "downloading", NextBytes)
    BY <1>1, <1>2 DEF ReturnFits
  <1>4. Submit(Fine, "downloading", NextBytes, "", "stream") => Journaling
    BY <1>1, <1>2, <1>3, GivingUp, Literals DEF Submit, Steps, ReportStates, At
  <1> QED
    BY <1>4, Literals DEF Stream

LEMMA AfterDownloadStep ==
    ASSUME Inv, AfterDownload
    PROVE  \/ Journaling
           \/ /\ journal' = journal /\ journal.pending
              /\ engine' = [engine EXCEPT !.pc = "flush", !.then = "downloaded"]
  <1> USE DEF Inv, Device
  <1>1. /\ At("downloaded") /\ engine \in Engine /\ engine \in Engines
        /\ journal.bytes \in 0..Size
        /\ engine.failure = "" => ~engine.interrupted
    BY DEF AfterDownload, Engines, Control, At, TypeOK, Held, Journal
  <1>2. ReturnFits("verify", "verifying", Size) \/ engine.failure # ""
    BY <1>1 DEF ReturnFits
  <1>3. ReturnFits("idle", "failed", journal.bytes) /\ engine.failure \in ErrorCode
    BY <1>1 DEF ReturnFits, Engine
  <1>4. ~journal.pending => Journaling
    BY <1>1, <1>2, <1>3, GivingUp, Literals DEF AfterDownload, Fail, Submit, Steps, ReportStates
  <1> QED
    BY <1>4 DEF AfterDownload

LEMMA SelectStep ==
    ASSUME Inv, SelectTarget
    PROVE  \/ Journaling /\ UNCHANGED <<board, history>>
           \/ /\ journal' = journal
              /\ engine' \in {Goto("commit"), Goto("stopped")}
              /\ \/ board' = Selected(board) /\ Mark(journal.job, "selected")
                 \/ engine' = Goto("stopped") /\ UNCHANGED <<board, history>>
  <1> USE DEF Inv, Device
  <1>1. At("select") /\ engine \in Engines /\ [engine EXCEPT !.cancel = FALSE] \in Engines
    BY DEF SelectTarget, Engines
  <1>2. ReturnFits("idle", "failed", Size)
    BY DEF ReturnFits
  <1>3. \/ \E code \in {"approval_unavailable", "image_rejected"} : Fail(Fault, Size, code)
        \/ SubmitFrom([engine EXCEPT !.cancel = FALSE], Fine, "failed", Size,
                      "local_cancelled", "idle")
        => Journaling
    BY <1>1, <1>2, GivingUp, Literals DEF Fail, Submit, Steps, ReportStates, At
  <1> QED
    BY <1>3 DEF SelectTarget

----------------------------------------------------------------------------
(* The place of the client in its tick.                                    *)

\* At rest little is asked of the client.
LEMMA AtRest ==
    ASSUME engine'.pc \in {"idle", "stopped"},
           (Held /\ engine.recovering /\ engine.pc # "stopped" => engine.interrupted)',
           (Held /\ journal.pending => journal.sequence > 0 /\ In(ReportStates))'
    PROVE  Control' /\ Phases' /\ Returning'
  BY DEF Control, Phases, Returning, Working

LEMMA AdoptedJournal ==
    ASSUME TypeOK, Slots, ~Held, NEW j \in JobId, Active(j)
    PROVE  NewJournal(j) \in Journal
  <1>1. jobs[j] \in Job
    BY RowTypes, UsedRow DEF TypeOK, Active, ActiveStates
  <1>2. Running \in Image
    BY RunningIsImage
  <1>3. Other(board.running) \in Slot
    BY SlotFacts DEF TypeOK, Board
  <1>4. 0 \in 0..MaxSequence /\ 0 \in 0..Size
    BY BoundAssumption
  <1>5. "" \in ErrorCode
    BY Literals
  <1> QED
    BY <1>1, <1>2, <1>3, <1>4, <1>5 DEF NewJournal, Journal, Job

LEMMA PollClient ==
    ASSUME Inv, Poll
    PROVE  /\ journal' \in Journal \cup {None} /\ engine' \in Engine
           /\ Control' /\ Phases' /\ Returning'
  <1> USE DEF Inv, Device
  <1>1. journal = None /\ engine \in Engine /\ At("idle") /\ board'.confirmed
    BY DEF Poll, MayTick, At, TypeOK
  <1> DEFINE fresh == [engine EXCEPT !.interrupted = FALSE, !.recovering = FALSE]
  <1>2. fresh \in Engine /\ fresh.pc = "idle" /\ ~fresh.recovering
    BY <1>1 DEF Engine, At
  <1>3. CASE journal' = None /\ engine' = fresh
    BY <1>2, <1>3, AtRest DEF Held
  <1>4. ASSUME NEW j \in Offered, Save(NewJournal(j), [fresh EXCEPT !.pc = "dispatch"])
        PROVE  /\ journal' \in Journal \cup {None} /\ engine' \in Engine
               /\ Control' /\ Phases' /\ Returning'
    <2>1. NewJournal(j) \in Journal /\ ~NewJournal(j).pending
      BY <1>1, <1>4, AdoptedJournal DEF Offered, Held, NewJournal
    <2>2. CASE engine'.pc = "stopped"
      <3>1. engine' \in Engine /\ journal' \in {None, NewJournal(j)}
        BY <1>1, <1>2, <1>4 DEF Save, SaveAt, Engine, Steps
      <3> QED
        BY <2>1, <2>2, <3>1, AtRest DEF Held
    <2>3. CASE engine'.pc # "stopped"
      <3>1. /\ engine' \in Engine /\ journal' = NewJournal(j)
            /\ engine'.pc = "dispatch" /\ ~engine'.recovering
        BY <1>1, <1>2, <1>4, <2>3 DEF Save, SaveAt, Engine, Steps
      <3>2. Held'
        BY <2>1, <3>1, JournalAssumption DEF Held
      <3> QED
        BY <1>1, <2>1, <3>1, <3>2 DEF Control, Phases, Returning, Working
    <2> QED
      BY <2>2, <2>3
  <1> HIDE DEF fresh
  <1> QED
    BY <1>1, <1>3, <1>4 DEF Poll, fresh

\* What an unanswered flush leaves.
LEMMA UnflushedEffect ==
    ASSUME Inv, engine.pc \in {"flush", "status"}
    PROVE  /\ Unflushed(engine) \in Engine
           /\ Unflushed(engine).recovering = engine.recovering
           /\ Unflushed(engine).pc \in {"idle", "downloaded"}
           /\ engine.interrupted => Unflushed(engine).interrupted
           /\ Unflushed(engine).pc = "downloaded" =>
                 /\ engine.then = "stream"
                 /\ Unflushed(engine).failure # ""
  BY Literals DEF Inv, Device, TypeOK, Unflushed, Engine, Steps

\* The client after an exchange that keeps the journal.
LEMMA UnflushedClient ==
    ASSUME Inv, engine.pc \in {"flush", "status"}, board' = board, journal' = journal,
           engine' = Unflushed(engine)
    PROVE  /\ journal' \in Journal \cup {None} /\ engine' \in Engine
           /\ Control' /\ Phases' /\ Returning'
  <1> USE DEF Inv, Device
  <1>1. /\ Held /\ journal.pending /\ journal \in Journal
        /\ journal.sequence > 0 /\ In(ReportStates)
        /\ board.confirmed
    BY DEF Control, TypeOK, Held
  <1>2. engine.recovering => engine.interrupted
    BY <1>1 DEF Control
  <1>3. engine.then = "stream" => /\ ~engine.interrupted /\ ~engine.recovering
                                  /\ In({"downloading"}) /\ journal.bytes > 0
    BY <1>2 DEF Returning
  <1> HIDE DEF Inv, Device
  <1>4. CASE engine'.pc = "idle"
    BY <1>1, <1>2, <1>4, UnflushedEffect, AtRest DEF Held, In
  <1>5. CASE engine'.pc = "downloaded"
    <2>1. /\ engine.then = "stream" /\ engine'.failure # "" /\ engine' \in Engine
          /\ ~engine'.recovering
      BY <1>3, <1>5, UnflushedEffect
    <2>2. Control'
      BY <1>1, <1>3, <1>5, <2>1 DEF Control, Working, Held, In
    <2> QED
      BY <1>1, <1>5, <2>1, <2>2 DEF Phases, Returning
  <1> QED
    BY <1>4, <1>5, UnflushedEffect

LEMMA FlushClient ==
    ASSUME Inv, FlushAnswered \/ FlushLost
    PROVE  /\ journal' \in Journal \cup {None} /\ engine' \in Engine
           /\ Control' /\ Phases' /\ Returning'
  <1> USE DEF Inv, Device
  <1>1. /\ At("flush") /\ Held /\ journal.pending /\ journal \in Journal /\ engine \in Engine
        /\ journal.sequence > 0 /\ In(ReportStates)
        /\ board.confirmed /\ board' = board
    BY DEF FlushAnswered, FlushLost, Control, TypeOK, Held, At
  <1>2. /\ Held /\ engine.recovering => engine.interrupted
        /\ Returning
    BY <1>1 DEF Control, At
  <1> DEFINE acked == [journal EXCEPT !.pending = FALSE, !.error = ""]
  <1>3. /\ acked \in Journal /\ ~acked.pending /\ acked.state = journal.state
        /\ acked.bytes = journal.bytes
    BY <1>1, Literals DEF Journal
  <1>4. CASE Save(acked, Goto(engine.then))
    <2>1. engine'.pc \in {engine.then, "stopped"} /\ engine' \in Engine
          /\ engine'.interrupted = engine.interrupted
          /\ engine'.recovering = engine.recovering
          /\ engine'.failure = engine.failure
      BY <1>1, <1>4 DEF Save, SaveAt, Goto, Engine, Steps
    <2>2. journal' \in Journal /\ Held'
      BY <1>1, <1>3, <1>4, JournalAssumption DEF Save, SaveAt, Held
    <2>3. CASE engine'.pc = "stopped"
      <3>1. journal' \in {journal, acked}
        BY <1>4 DEF Save, SaveAt
      <3>2. journal'.pending => journal'.sequence > 0 /\ journal'.state \in ReportStates
        BY <1>1, <1>3, <3>1 DEF In
      <3> QED
        BY <2>1, <2>2, <2>3, <3>2, AtRest DEF In
    <2>4. CASE engine'.pc # "stopped"
      <3>1. journal' = acked /\ engine'.pc = engine.then
        BY <1>1, <1>4, <2>1, <2>4 DEF Save, SaveAt, Goto, Engine
      <3>2. Control'
        BY <1>1, <1>2, <1>3, <2>1, <2>2, <3>1 DEF Control, Returning, Working, In, At, ReportStates
      <3> QED
        BY <1>1, <1>2, <1>3, <2>1, <2>2, <3>1, <3>2 DEF Phases, Returning, In, At
    <2> QED
      BY <2>3, <2>4
  <1>5. CASE engine' = Goto("status") /\ journal' = journal
    <2>1. /\ engine' \in Engine /\ engine'.pc = "status" /\ engine'.then = engine.then
          /\ engine'.interrupted = engine.interrupted /\ engine'.failure = engine.failure
          /\ engine'.recovering = engine.recovering
      BY <1>1, <1>5 DEF Goto, Engine, Steps
    <2>2. Control'
      BY <1>1, <1>2, <1>5, <2>1 DEF Control, Working, Held, In
    <2> QED
      BY <1>1, <1>2, <1>5, <2>1, <2>2 DEF Phases, Returning, In, At
  <1> HIDE DEF acked
  <1>6. CASE engine' = Unflushed(engine) /\ journal' = journal
    BY <1>1, <1>6, UnflushedClient DEF At
  <1> QED
    BY <1>4, <1>5, <1>6 DEF FlushAnswered, FlushLost, acked

LEMMA ReconcileClient ==
    ASSUME Inv, Reconcile
    PROVE  /\ journal' \in Journal \cup {None} /\ engine' \in Engine
           /\ Control' /\ Phases' /\ Returning'
  <1> USE DEF Inv, Device, Tracking
  <1>1. /\ At("status") /\ Held /\ journal.pending /\ journal \in Journal /\ engine \in Engine
        /\ journal.sequence > 0 /\ In(ReportStates)
        /\ board.confirmed /\ board' = board
        /\ engine.recovering => engine.interrupted
    BY DEF Reconcile, Control, TypeOK, Held, At
  <1> DEFINE e      == Unflushed(engine)
             remote == ExpireQueued(journal.job)
             adopted == [journal EXCEPT !.state = remote.state, !.sequence = remote.sequence,
                                        !.bytes = remote.bytes, !.pending = FALSE,
                                        !.error = ""]
  <1>2. /\ e \in Engine /\ e.pc \in {"idle", "downloaded"} /\ e.recovering = engine.recovering
        /\ engine.interrupted => e.interrupted
        /\ e.pc = "downloaded" => engine.then = "stream" /\ e.failure # ""
    BY <1>1, UnflushedEffect DEF At
  <1>3. CASE journal' = journal /\ engine' = Unflushed(engine)
    BY <1>1, <1>3, UnflushedClient DEF At
  <1> HIDE DEF e, Inv, Device, Tracking
  <1>4. CASE Save(None, [e EXCEPT !.interrupted = FALSE]) /\ journal.bytes = 0
    <2>1. e.pc = "idle"
      <3>1. engine.then = "stream" => journal.bytes > 0
        BY <1>1 DEF Returning, At, Inv, Device
      <3>2. ~(journal.bytes > 0)
        BY <1>4
      <3> QED
        BY <1>2, <3>1, <3>2
    <2>2. /\ engine' \in Engine /\ engine'.pc \in {"idle", "stopped"}
          /\ journal' \in {None, journal}
          /\ journal' # None => engine'.pc = "stopped"
      <3>1. [e EXCEPT !.interrupted = FALSE] \in Engine
            /\ [e EXCEPT !.interrupted = FALSE].pc = "idle"
        BY <1>2, <2>1 DEF Engine
      <3>2. [[e EXCEPT !.interrupted = FALSE] EXCEPT !.pc = "stopped"] \in Engine
            /\ [[e EXCEPT !.interrupted = FALSE] EXCEPT !.pc = "stopped"].pc = "stopped"
        BY <3>1 DEF Engine, Steps
      <3> QED
        BY <1>4, <3>1, <3>2 DEF Save, SaveAt
    <2> QED
      BY <1>1, <2>2, AtRest DEF Held, In
  <1>5. CASE Save(adopted, [e EXCEPT !.interrupted = TRUE]) /\ remote.state \in ActiveStates
    <2>1. journal.job \in JobId /\ JobRow \in Job
      BY <1>1, RowTypes, UsedRow DEF Journal, TypeOK, InStep, JobRow, Inv, Device, Tracking
    <2>2. remote \in Job
      BY <1>5, <2>1, RowTypes, UsedRow DEF TypeOK, ActiveStates, Inv, Device
    <2>3. adopted \in Journal /\ ~adopted.pending /\ adopted.state = remote.state
      BY <1>1, <1>5, <2>2, Literals DEF Journal, Job, ActiveStates, ReportStates
    <2>4. /\ engine' \in Engine /\ engine'.interrupted
          /\ engine'.pc \in {e.pc, "stopped"} /\ engine'.failure = e.failure
          /\ engine'.recovering = engine.recovering
          /\ journal' \in {adopted, journal}
          /\ engine'.pc # "stopped" => journal' = adopted
      BY <1>2, <1>5 DEF Save, SaveAt, Engine, Steps
    <2>5. journal' \in Journal /\ Held'
      BY <1>1, <2>3, <2>4, JournalAssumption DEF Held
    <2>6. CASE engine'.pc \in {"idle", "stopped"}
      <3>1. journal'.pending => journal'.sequence > 0 /\ journal'.state \in ReportStates
        BY <1>1, <2>3, <2>4 DEF In
      <3> QED
        BY <2>4, <2>5, <2>6, <3>1, AtRest DEF In
    <2>7. CASE engine'.pc = "downloaded"
      <3>1. engine.then = "stream" /\ engine'.failure # "" /\ journal' = adopted
        BY <1>2, <2>4, <2>7
      <3>2. ~engine.recovering /\ journal.bytes > 0
        BY <1>1, <3>1 DEF Returning, At, Inv, Device
      <3>3. JobRow.state # "queued"
        BY <1>1, <2>1, <3>2 DEF InStep, Journal, Inv, Tracking
      <3>4. remote.state # "queued"
        BY <3>3 DEF ExpireQueued, JobRow
      <3>5. Control'
        BY <1>1, <2>3, <2>4, <2>5, <2>7, <3>1, <3>2, <3>4 DEF Control, Working, In
      <3> QED
        BY <2>4, <2>5, <2>7, <3>5 DEF Phases, Returning
    <2> QED
      BY <1>2, <2>4, <2>6, <2>7
  <1> HIDE DEF remote, adopted
  <1> QED
    BY <1>3, <1>4, <1>5 DEF Reconcile, Reconciled, e, remote, adopted

\* The rest of a tick.
LEMMA TickClient ==
    ASSUME Inv,
           \/ Resume \/ Dispatch \/ ApproveStart \/ BeginDownload \/ Stream
           \/ AfterDownload \/ VerifyTarget \/ SelectTarget \/ CommitSelection
    PROVE  /\ journal' \in Journal \cup {None} /\ engine' \in Engine
           /\ Control' /\ Phases' /\ Returning'
  <1> DEFINE Good == /\ journal' \in Journal \cup {None} /\ engine' \in Engine
                     /\ Control' /\ Phases' /\ Returning'
  <1> USE DEF Inv, Device
  <1>1. engine \in Engine /\ (Held => journal \in Journal) /\ Control /\ Phases
    BY DEF TypeOK, Held
  <1> HIDE DEF Inv, Device
  <1>2. ASSUME Journaling, board'.confirmed
        PROVE  Good
    BY <1>2, JournalingKeeps DEF Inv, Device
  <1>3. ASSUME NEW pc \in {"approve", "download", "stream", "verify", "select", "commit"},
               ~engine.interrupted,
               journal' = journal, engine' = Goto(pc), board'.confirmed,
               Held, ~journal.pending, engine.pc \notin {"idle", "stopped"},
               pc = "approve" => In({"downloading", "verifying", "rebooting"}),
               pc \in {"download", "stream"} => In({"downloading"}),
               pc = "verify" => In({"verifying", "rebooting"}),
               pc \in {"select", "commit"} => In({"rebooting"})
        PROVE  Good
    <2>1. /\ engine' \in Engine /\ engine'.pc = pc /\ engine'.interrupted = engine.interrupted
          /\ engine'.recovering = engine.recovering
      BY <1>1, <1>3 DEF Goto, Engine, Steps
    <2> QED
      BY <1>1, <1>3, <2>1 DEF Control, Phases, Returning, Working, Held, In
  <1>4. ASSUME journal' = journal, engine' = Goto("stopped")
        PROVE  Good
    <2>1. engine' \in Engine /\ engine'.pc = "stopped"
      BY <1>1, <1>4 DEF Goto, Engine, Steps
    <2>2. Held /\ journal.pending => journal.sequence > 0 /\ In(ReportStates)
      BY <1>1 DEF Control
    <2> QED
      BY <1>1, <1>4, <2>1, <2>2, AtRest DEF Held, In
  <1>5. CASE Resume
    <2>1. /\ Held /\ At("idle") /\ board'.confirmed /\ journal' = journal
          /\ engine.recovering => engine.interrupted
          /\ journal.pending => journal.sequence > 0 /\ In(ReportStates)
      BY <1>1, <1>5 DEF Resume, MayTick, Control, At, Held
    <2>2. CASE /\ engine' = [engine EXCEPT !.pc = "flush", !.then = "dispatch"]
               /\ journal.pending
      <3>1. /\ engine' \in Engine /\ engine'.pc = "flush" /\ engine'.then = "dispatch"
            /\ engine'.interrupted = engine.interrupted
            /\ engine'.recovering = engine.recovering
        BY <1>1, <2>2 DEF Engine, Steps
      <3> QED
        BY <1>1, <2>1, <2>2, <3>1 DEF Control, Phases, Returning, Working, Held, In
    <2>3. CASE engine' = Goto("dispatch") /\ ~journal.pending
      <3>1. /\ engine' \in Engine /\ engine'.pc = "dispatch"
            /\ engine'.interrupted = engine.interrupted
            /\ engine'.recovering = engine.recovering
        BY <1>1, <2>3 DEF Engine, Steps, Goto
      <3> QED
        BY <1>1, <2>1, <2>3, <3>1 DEF Control, Phases, Returning, Working, Held, In
    <2> QED
      BY <1>4, <1>5, <2>1, <2>2, <2>3 DEF Resume
  <1>6. CASE Dispatch
    <2>1. Held /\ ~journal.pending /\ board.confirmed /\ At("dispatch") /\ board' = board
      BY <1>1, <1>6 DEF Dispatch, Control, At
    <2>2. CASE Finish
      <3>1. CASE Save(None, [engine EXCEPT !.pc = "idle", !.interrupted = FALSE,
                                           !.recovering = FALSE])
        <4>1. /\ engine' \in Engine /\ engine'.pc \in {"idle", "stopped"}
              /\ ~engine'.recovering
              /\ journal' \in {None, journal}
          BY <1>1, <3>1 DEF Save, SaveAt, Engine, Steps
        <4> QED
          BY <1>1, <2>1, <4>1, AtRest DEF Held
      <3> QED
        BY <1>4, <2>2, <3>1 DEF Finish
    <2> QED
      BY <1>2, <1>3, <1>4, <1>6, <2>1, <2>2, DispatchStep DEF At
  <1>7. CASE ApproveStart
    <2>1. /\ Held /\ ~journal.pending /\ board.confirmed /\ At("approve") /\ board' = board
          /\ ~engine.interrupted /\ In({"downloading", "verifying", "rebooting"})
      BY <1>1, <1>7 DEF ApproveStart, Approve, Control, Phases, Working, At
    <2>2. CASE Proceed
      BY <1>3, <2>1, <2>2 DEF Proceed, In, At
    <2> QED
      BY <1>2, <1>7, <2>1, <2>2, ApproveStep
  <1>8. ASSUME NEW code \in ErrorCode, engine' = Abort(code) \/ engine' = Cancelled,
               engine.pc \in {"download", "stream"}, journal' = journal, board'.confirmed
        PROVE  Good
    <2>1. /\ Held /\ ~journal.pending /\ ~engine.interrupted /\ ~engine.recovering
          /\ ~In({"queued"})
      BY <1>1, <1>8 DEF Control, Phases, Working, In
    <2>2. /\ engine' \in Engine /\ engine'.pc = "downloaded"
          /\ engine'.interrupted = engine.interrupted
          /\ engine'.recovering = engine.recovering
      BY <1>1, <1>8, Literals DEF Abort, Cancelled, Engine, Steps
    <2> QED
      BY <1>1, <1>8, <2>1, <2>2 DEF Control, Phases, Returning, Working, Held, In
  <1>9. board.confirmed = board'.confirmed \/ ~(BeginDownload \/ Stream \/ SelectTarget)
    BY DEF Inv, Device, TypeOK, Board, BeginDownload, Stream, SelectTarget, Erased, Selected
  <1>10. CASE BeginDownload
    <2>1. /\ Held /\ ~journal.pending /\ board'.confirmed /\ At("download")
          /\ ~engine.interrupted /\ In({"downloading"}) /\ journal' = journal
      BY <1>1, <1>9, <1>10 DEF BeginDownload, Control, Phases, Working, At
    <2> QED
      BY <1>3, <1>8, <1>10, <2>1, Literals DEF BeginDownload, At
  <1>11. CASE Stream
    <2>1. At("stream") /\ board.confirmed
      BY <1>1, <1>11 DEF Stream, Control, At
    <2> QED
      BY <1>2, <1>8, <1>9, <1>11, <2>1, StreamStep, Literals DEF At
  <1>12. CASE AfterDownload
    <2>1. At("downloaded") /\ board.confirmed /\ board' = board /\ Held
      BY <1>1, <1>12 DEF AfterDownload, Control, At
    <2>2. CASE /\ journal' = journal /\ journal.pending
               /\ engine' = [engine EXCEPT !.pc = "flush", !.then = "downloaded"]
      <3>1. /\ engine' \in Engine /\ engine'.pc = "flush" /\ engine'.then = "downloaded"
            /\ engine'.interrupted = engine.interrupted /\ engine'.failure = engine.failure
            /\ engine'.recovering = engine.recovering
        BY <1>1, <2>2 DEF Engine, Steps
      <3> QED
        BY <1>1, <2>1, <2>2, <3>1 DEF Control, Phases, Returning, Working, Held, In, At
    <2> QED
      BY <1>2, <1>12, <2>1, <2>2, AfterDownloadStep
  <1>13. CASE VerifyTarget
    <2>1. /\ At("verify") /\ board.confirmed /\ board' = board
          /\ Held /\ ~journal.pending /\ ~engine.interrupted
      BY <1>1, <1>13 DEF VerifyTarget, Approve, Control, Working, At
    <2> QED
      BY <1>2, <1>3, <1>13, <2>1, VerifyStep DEF At
  <1>14. CASE SelectTarget
    <2>1. /\ At("select") /\ board.confirmed /\ board'.confirmed
          /\ Held /\ ~journal.pending /\ ~engine.interrupted /\ In({"rebooting"})
      BY <1>1, <1>9, <1>14 DEF SelectTarget, Control, Phases, Working, At
    <2> QED
      BY <1>2, <1>3, <1>4, <1>14, <2>1, SelectStep DEF At
  <1>15. CASE CommitSelection
    <2>1. /\ At("commit") /\ board.confirmed /\ board' = board
          /\ Held /\ ~journal.pending /\ ~engine.interrupted /\ In({"rebooting"})
          /\ journal \in Journal
          /\ engine.recovering => engine.interrupted
      BY <1>1, <1>15 DEF CommitSelection, Control, Phases, Working, At
    <2>2. /\ [journal EXCEPT !.committed = TRUE] \in Journal
          /\ [journal EXCEPT !.committed = TRUE].state = journal.state
          /\ [journal EXCEPT !.committed = TRUE].pending = journal.pending
      BY <2>1 DEF Journal
    <2>3. /\ engine' \in Engine /\ engine'.pc \in {"restart", "stopped"}
          /\ engine'.interrupted = engine.interrupted
          /\ engine'.recovering = engine.recovering
          /\ journal' \in {journal, [journal EXCEPT !.committed = TRUE]}
      BY <1>1, <1>15 DEF CommitSelection, Save, SaveAt, Goto, Engine, Steps
    <2>4. /\ journal' \in Journal /\ Held' /\ ~journal'.pending
          /\ journal'.state = journal.state
      BY <2>1, <2>2, <2>3, JournalAssumption DEF Held
    <2> QED
      BY <2>1, <2>3, <2>4 DEF Control, Phases, Returning, Working, In
  <1> QED
    BY <1>5, <1>6, <1>7, <1>10, <1>11, <1>12, <1>13, <1>14, <1>15

\* Steps that leave the client at its place.
LEMMA SamePlace ==
    ASSUME Control, Phases, Returning, journal' = journal,
           board.confirmed => board'.confirmed,
           engine'.pc = engine.pc, engine'.then = engine.then,
           engine'.interrupted = engine.interrupted, engine'.recovering = engine.recovering,
           engine'.failure = engine.failure
    PROVE  Control' /\ Phases' /\ Returning'
  BY DEF Control, Phases, Returning, Working, Held, In

LEMMA RestartedClient ==
    ASSUME Inv, engine' = BootedEngine, journal' = journal
    PROVE  /\ engine' \in Engine
           /\ Control' /\ Phases' /\ Returning'
  <1> DEFINE held == journal # None
  <1>1. held \in BOOLEAN
    OBVIOUS
  <1>2. BootedEngine = [Idle EXCEPT !.interrupted = held, !.recovering = held]
    BY DEF BootedEngine
  <1>3. "" \in ErrorCode
    BY Literals
  <1> HIDE DEF held
  <1>4. /\ engine' \in Engine /\ engine'.pc = "idle"
        /\ engine'.recovering => engine'.interrupted
    BY <1>1, <1>2, <1>3 DEF Idle, Engine, Steps
  <1>5. Held /\ journal.pending => journal.sequence > 0 /\ In(ReportStates)
    BY DEF Inv, Device, Control
  <1> QED
    BY <1>4, <1>5, AtRest DEF Held, In

\* The client's part of the invariant holds after every step.
LEMMA ClientStep ==
    ASSUME Inv, [Next]_vars
    PROVE  /\ journal' \in Journal \cup {None} /\ engine' \in Engine
           /\ Control' /\ Phases' /\ Returning'
  <1> DEFINE Good == /\ journal' \in Journal \cup {None} /\ engine' \in Engine
                     /\ Control' /\ Phases' /\ Returning'
  <1>1. /\ TypeOK /\ Control /\ Phases /\ Returning
        /\ journal \in Journal \cup {None} /\ engine \in Engine /\ board \in Board
    BY DEF Inv, Device, TypeOK
  <1>2. ASSUME journal' = journal, engine' = engine, board' = board
        PROVE  Good
    BY <1>1, <1>2, SamePlace
  <1>3. CASE HeartbeatRefused \/ LateReport \/ Elsewhere \/ UNCHANGED vars
    BY <1>2, <1>3 DEF HeartbeatRefused, LateReport, Elsewhere, vars, deviceVars
  <1>4. CASE Identify
    <2>1. /\ journal' = journal /\ board' = board
          /\ engine' \in {engine, [engine EXCEPT !.identified = (firmware'.app = Running)]}
      BY <1>4 DEF Identify
    <2>2. /\ engine' \in Engine
          /\ engine'.pc = engine.pc /\ engine'.then = engine.then
          /\ engine'.interrupted = engine.interrupted /\ engine'.recovering = engine.recovering
          /\ engine'.failure = engine.failure
      BY <1>1, <2>1 DEF Engine
    <2> QED
      BY <1>1, <2>1, <2>2, SamePlace
  <1>5. CASE CancelPressed
    <2>1. /\ engine' \in Engine
          /\ engine'.pc = engine.pc /\ engine'.then = engine.then
          /\ engine'.interrupted = engine.interrupted /\ engine'.recovering = engine.recovering
          /\ engine'.failure = engine.failure
      BY <1>1, <1>5 DEF CancelPressed, Engine
    <2> QED
      BY <1>1, <1>5, <2>1, SamePlace DEF CancelPressed
  <1>6. CASE StartupConfirmed
    <2>1. board'.confirmed
      BY <1>1, <1>6 DEF StartupConfirmed, Confirmed, Board
    <2> QED
      BY <1>1, <1>6, <2>1, SamePlace DEF StartupConfirmed
  <1>7. CASE Restart \/ PowerLoss \/ StartupFailed \/ LocalRetry
    BY <1>1, <1>7, RestartedClient
    DEF Restart, PowerLoss, StartupFailed, LocalRetry, Reboot, Start
  <1> QED
    BY <1>3, <1>4, <1>5, <1>6, <1>7, PollClient, FlushClient, ReconcileClient, TickClient
    DEF Next, TickStep, BoardStep

----------------------------------------------------------------------------
(* The board.                                                              *)

\* Entries of otadata change one at a time.
LEMMA OtadataType ==
    ASSUME NEW b \in Board, NEW s \in Slot, NEW v \in SlotStates
    PROVE  /\ [b.state EXCEPT ![s] = v] \in [Slot -> SlotStates]
           /\ [b.state EXCEPT ![s] = v][s] = v
           /\ [b.state EXCEPT ![s] = v][Other(s)] = b.state[Other(s)]
           /\ b.boot \in Slot /\ b.running \in Slot
  <1>1. b.state \in [Slot -> SlotStates] /\ b.boot \in Slot /\ b.running \in Slot
    BY DEF Board
  <1> QED
    BY <1>1, SlotFacts

LEMMA LoadedType ==
    ASSUME NEW b \in Board
    PROVE  /\ Loaded(b) \in Board
           /\ Loaded(b).image = b.image /\ ~Loaded(b).confirmed
           /\ Loaded(b).boots = b.boots /\ Loaded(b).guard = b.guard
           /\ Loaded(b).failed = b.failed
           /\ b.state[b.boot] = "new" =>
                 /\ Loaded(b).running = b.boot /\ Loaded(b).boot = b.boot
                 /\ Loaded(b).state = [b.state EXCEPT ![b.boot] = "pending"]
           /\ b.state[b.boot] = "pending" =>
                 /\ Loaded(b).running = Other(b.boot) /\ Loaded(b).boot = Other(b.boot)
                 /\ Loaded(b).state = [b.state EXCEPT ![b.boot] = "aborted"]
           /\ b.state[b.boot] \notin {"new", "pending"} =>
                 /\ Loaded(b).running = b.boot /\ Loaded(b).boot = b.boot
                 /\ Loaded(b).state = b.state
  <1>0. b.boot \in Slot /\ Other(b.boot) \in Slot /\ Other(b.boot) # b.boot
    BY SlotFacts DEF Board
  <1>1. CASE b.state[b.boot] = "new"
    <2> DEFINE st == [b.state EXCEPT ![b.boot] = "pending"]
    <2>1. Loaded(b) = [b EXCEPT !.running = b.boot, !.confirmed = FALSE, !.state = st]
      BY <1>1 DEF Loaded
    <2>2. st \in [Slot -> SlotStates]
      BY <1>0, OtadataType DEF SlotStates
    <2> HIDE DEF st
    <2>3. [b EXCEPT !.running = b.boot, !.confirmed = FALSE, !.state = st] \in Board
      BY <1>0, <2>2 DEF Board
    <2>4. /\ Loaded(b).image = b.image /\ ~Loaded(b).confirmed
          /\ Loaded(b).boots = b.boots /\ Loaded(b).guard = b.guard
          /\ Loaded(b).failed = b.failed
          /\ Loaded(b).running = b.boot /\ Loaded(b).boot = b.boot
          /\ Loaded(b).state = st
      BY <2>1 DEF Board
    <2> QED
      BY <1>1, <2>1, <2>3, <2>4 DEF st
  <1>2. CASE b.state[b.boot] = "pending"
    <2> DEFINE st == [b.state EXCEPT ![b.boot] = "aborted"]
    <2>1. Loaded(b) = [b EXCEPT !.running = Other(b.boot), !.confirmed = FALSE,
                                !.boot = Other(b.boot), !.state = st]
      BY <1>0, <1>2 DEF Loaded, Board
    <2>2. st \in [Slot -> SlotStates]
      BY <1>0, OtadataType DEF SlotStates
    <2> HIDE DEF st
    <2>3. [b EXCEPT !.running = Other(b.boot), !.confirmed = FALSE,
                    !.boot = Other(b.boot), !.state = st] \in Board
      BY <1>0, <2>2 DEF Board
    <2>4. /\ Loaded(b).image = b.image /\ ~Loaded(b).confirmed
          /\ Loaded(b).boots = b.boots /\ Loaded(b).guard = b.guard
          /\ Loaded(b).failed = b.failed
          /\ Loaded(b).running = Other(b.boot) /\ Loaded(b).boot = Other(b.boot)
          /\ Loaded(b).state = st
      BY <2>1 DEF Board
    <2> QED
      BY <1>2, <2>1, <2>3, <2>4 DEF st
  <1>3. CASE b.state[b.boot] \notin {"new", "pending"}
    <2>1. Loaded(b) = [b EXCEPT !.running = b.boot, !.confirmed = FALSE]
      BY <1>3 DEF Loaded
    <2> QED
      BY <1>3, <2>1 DEF Board
  <1> QED
    BY <1>1, <1>2, <1>3

\* Everything of a board but the attempts and the guard.
SameSlots(a, b) ==
    /\ a.image = b.image /\ a.state = b.state
    /\ a.running = b.running /\ a.boot = b.boot /\ a.confirmed = b.confirmed

\* Cutting a start short only counts it.
LEMMA CutType ==
    ASSUME NEW b \in Board
    PROVE  /\ CutShort(b) \in Board /\ SameSlots(b, CutShort(b))
           /\ CutShort(b).boots = b.boots /\ CutShort(b).guard = b.guard
           /\ CutShort(b).failed = IF b.confirmed THEN b.failed ELSE b.failed + 1
  <1>1. b.failed \in Nat /\ b.failed + 1 \in Nat
    BY DEF Board
  <1>2. CASE b.confirmed
    BY <1>2 DEF CutShort, SameSlots
  <1>3. CASE ~b.confirmed
    <2>1. CutShort(b) = [b EXCEPT !.failed = b.failed + 1]
      BY <1>3 DEF CutShort
    <2>2. [b EXCEPT !.failed = b.failed + 1] \in Board
      BY <1>1 DEF Board
    <2>3. /\ SameSlots(b, CutShort(b)) /\ CutShort(b).boots = b.boots
          /\ CutShort(b).guard = b.guard /\ CutShort(b).failed = b.failed + 1
      BY <2>1 DEF Board, SameSlots
    <2> QED
      BY <1>3, <2>1, <2>2, <2>3
  <1> QED
    BY <1>2, <1>3

\* A local retry clears the attempts.
LEMMA RetryType ==
    ASSUME NEW b \in Board
    PROVE  LET fresh == [b EXCEPT !.boots = 0, !.failed = 0]
           IN  /\ fresh \in Board /\ SameSlots(b, fresh)
               /\ fresh.boots = 0 /\ fresh.failed = 0
  <1>1. 0 \in 0..MaxBoots /\ 0 \in Nat
    BY DEF MaxBoots
  <1> QED
    BY <1>1 DEF Board, SameSlots

LEMMA CountedType ==
    ASSUME NEW b \in Board
    PROVE  /\ Counted(b) \in Board /\ SameSlots(b, Counted(b))
           /\ Counted(b).failed = b.failed
           /\ Counted(b).boots <= b.boots + 1
           /\ Counted(b).guard = "recovery" => b.boots >= MaxBoots
  <1>1. b.boots \in 0..MaxBoots /\ MaxBoots = 3
    BY DEF Board, MaxBoots
  <1>2. CASE b.boots >= MaxBoots
    <2>1. Counted(b) = [b EXCEPT !.guard = "recovery"]
      BY <1>2 DEF Counted
    <2>2. [b EXCEPT !.guard = "recovery"] \in Board
          /\ SameSlots(b, [b EXCEPT !.guard = "recovery"])
          /\ [b EXCEPT !.guard = "recovery"].boots = b.boots
          /\ [b EXCEPT !.guard = "recovery"].failed = b.failed
      BY DEF Board, SameSlots
    <2>3. b.boots <= b.boots + 1
      BY <1>1
    <2> QED
      BY <1>2, <2>1, <2>2, <2>3
  <1>3. CASE ~(b.boots >= MaxBoots)
    <2>1. Counted(b) = [b EXCEPT !.boots = @ + 1, !.guard = "ready"]
      BY <1>3 DEF Counted
    <2>2. b.boots + 1 \in 0..MaxBoots /\ b.boots + 1 <= b.boots + 1
      BY <1>1, <1>3
    <2>3. Counted(b) = [b EXCEPT !.boots = b.boots + 1, !.guard = "ready"]
      BY <2>1
    <2>4. /\ Counted(b) \in Board /\ SameSlots(b, Counted(b))
          /\ Counted(b).boots = b.boots + 1 /\ Counted(b).guard = "ready"
          /\ Counted(b).failed = b.failed
      BY <2>2, <2>3 DEF Board, SameSlots
    <2> QED
      BY <2>2, <2>4
  <1> QED
    BY <1>2, <1>3

\* A start loads what the boot loader chooses and counts at most one attempt.
LEMMA StartEffect ==
    ASSUME NEW b \in Board, faults \in 0..MaxFaults, Start(b, Fine) \/ Start(b, Fault)
    PROVE  /\ board' \in Board /\ SameSlots(Loaded(b), board') /\ engine' = BootedEngine
           /\ board'.failed = b.failed /\ board'.boots <= b.boots + 1
           /\ board'.guard = "recovery" => b.boots >= MaxBoots
           /\ faults' \in 0..MaxFaults /\ faults' >= faults
  <1> DEFINE l == Loaded(b)
  <1>1. l \in Board /\ l.boots = b.boots /\ l.failed = b.failed
    BY LoadedType
  <1>2. /\ Counted(l) \in Board /\ SameSlots(l, Counted(l)) /\ Counted(l).failed = b.failed
        /\ Counted(l).boots <= b.boots + 1
        /\ Counted(l).guard = "recovery" => b.boots >= MaxBoots
    BY <1>1, CountedType
  <1>3. faults' \in 0..MaxFaults /\ faults' >= faults
    BY ClientAssumption DEF Start, Fine, Fault
  <1> HIDE DEF l
  <1>5. CASE board' = Counted(l)
    BY <1>2, <1>3, <1>5 DEF Start, l
  <1>6. ASSUME NEW x \in {l, Counted(l)}, board' = [x EXCEPT !.guard = "storage"]
        PROVE  /\ board' \in Board /\ SameSlots(l, board')
               /\ board'.failed = b.failed /\ board'.boots <= b.boots + 1
               /\ board'.guard # "recovery"
    <2>1. x \in Board /\ SameSlots(l, x) /\ x.boots <= b.boots + 1 /\ x.failed = b.failed
      BY <1>1, <1>2 DEF SameSlots, Board
    <2> QED
      BY <1>6, <2>1 DEF Board, SameSlots
  <1>7. \/ board' = Counted(l)
        \/ \E x \in {l, Counted(l)} : board' = [x EXCEPT !.guard = "storage"]
    BY DEF Start, l
  <1>8. engine' = BootedEngine
    BY DEF Start
  <1> QED
    BY <1>3, <1>5, <1>6, <1>7, <1>8 DEF l

\* Every step is free or costs a fault.
LEMMA EveryStepPaid == Next => Fine \/ Fault
  <1>1. ASSUME NEW new, NEW next, Save(new, next)
        PROVE  Fine \/ Fault
    BY <1>1 DEF Save, SaveAt
  <1>2. ASSUME NEW e, NEW state, NEW bytes, NEW error, NEW then,
               \/ SubmitFrom(e, Fine, state, bytes, error, then)
               \/ SubmitFrom(e, Fault, state, bytes, error, then)
        PROVE  Fine \/ Fault
    BY <1>2 DEF SubmitFrom, SaveAt
  <1>3. Submit(Fine, "confirmed", Size, "", "idle") => Fine \/ Fault
    BY <1>2 DEF Submit
  <1>4. ASSUME NEW bytes, NEW error, Fail(Fine, bytes, error) \/ Fail(Fault, bytes, error)
        PROVE  Fine \/ Fault
    BY <1>2, <1>4 DEF Fail, Submit
  <1>5. ASSUME NEW b, Reboot(b, Fine) \/ Reboot(b, Fault) \/ Start(b, Fault)
        PROVE  Fine \/ Fault
    BY <1>5 DEF Reboot, Start
  <1>6. CASE Poll \/ Resume \/ HeartbeatRefused \/ Identify \/ LateReport \/ Elsewhere
    BY <1>1, <1>6 DEF Poll, Resume, HeartbeatRefused, Identify, LateReport, Elsewhere
  <1>7. CASE FlushAnswered \/ FlushLost \/ Reconcile \/ CommitSelection
    BY <1>1, <1>7 DEF FlushAnswered, FlushLost, Reconcile, Reconciled, CommitSelection
  <1>8. CASE Dispatch
    BY <1>1, <1>2, <1>4, <1>8 DEF Dispatch, Finish, Resolve, GiveUp, Advance, Submit
  <1>9. CASE ApproveStart
    BY <1>4, <1>9 DEF ApproveStart, Approve, Proceed, Refuse
  <1>10. CASE VerifyTarget
    BY <1>2, <1>4, <1>10 DEF VerifyTarget, Approve, Accept, Reject, Refuse, Submit
  <1>11. CASE BeginDownload \/ Stream \/ AfterDownload
    BY <1>2, <1>4, <1>11 DEF BeginDownload, Stream, AfterDownload, Submit
  <1>12. CASE SelectTarget
    BY <1>2, <1>4, <1>12 DEF SelectTarget
  <1>13. CASE BoardStep
    BY <1>5, <1>13
    DEF BoardStep, Restart, PowerLoss, StartupConfirmed, StartupFailed, LocalRetry, CancelPressed
  <1> QED
    BY <1>6, <1>7, <1>8, <1>9, <1>10, <1>11, <1>12, <1>13 DEF Next, TickStep

LEMMA FaultsGrow ==
    ASSUME TypeOK, [Next]_vars
    PROVE  faults' \in 0..MaxFaults /\ faults' >= faults
  <1>1. faults \in 0..MaxFaults /\ MaxFaults \in Nat
    BY ClientAssumption DEF TypeOK
  <1>2. Fine \/ Fault \/ faults' = faults
    BY EveryStepPaid DEF vars
  <1> QED
    BY <1>1, <1>2 DEF Fine, Fault

\* What the client and the startup check write on the board.
LEMMA ConfirmedType ==
    ASSUME board \in Board
    PROVE  /\ Confirmed \in Board
           /\ Confirmed.image = board.image
           /\ Confirmed.state = [board.state EXCEPT ![board.running] = "valid"]
           /\ Confirmed.running = board.running /\ Confirmed.boot = board.boot
           /\ Confirmed.confirmed /\ Confirmed.boots = 0 /\ Confirmed.guard = board.guard
           /\ Confirmed.failed = 0
  <1> DEFINE st == [board.state EXCEPT ![board.running] = "valid"]
  <1>0. board.running \in Slot /\ "valid" \in SlotStates
    BY DEF SlotStates, Board
  <1>1. st \in [Slot -> SlotStates]
    BY <1>0, OtadataType
  <1>2. Confirmed = [board EXCEPT !.confirmed = TRUE, !.state = st, !.boots = 0, !.failed = 0]
    BY DEF Confirmed
  <1> HIDE DEF st
  <1>3. 0 \in 0..MaxBoots /\ 0 \in Nat
    BY DEF MaxBoots
  <1>4. [board EXCEPT !.confirmed = TRUE, !.state = st, !.boots = 0, !.failed = 0] \in Board
    BY <1>1, <1>3 DEF Board
  <1>5. /\ Confirmed.image = board.image /\ Confirmed.state = st
        /\ Confirmed.running = board.running /\ Confirmed.boot = board.boot
        /\ Confirmed.confirmed /\ Confirmed.boots = 0 /\ Confirmed.guard = board.guard
        /\ Confirmed.failed = 0
    BY <1>2 DEF Board
  <1> QED
    BY <1>2, <1>4, <1>5 DEF st

\* Everything of a board but the slots and otadata.
SameStart(a, b) ==
    /\ a.running = b.running /\ a.confirmed = b.confirmed
    /\ a.boots = b.boots /\ a.guard = b.guard /\ a.failed = b.failed

LEMMA SelectedType ==
    ASSUME board \in Board, journal \in Journal
    PROVE  /\ Selected(board) \in Board /\ SameStart(board, Selected(board))
           /\ Selected(board).image = board.image
           /\ Selected(board).boot = journal.slot
           /\ Selected(board).state = [board.state EXCEPT ![journal.slot] = "new"]
  <1> DEFINE st == [board.state EXCEPT ![journal.slot] = "new"]
  <1>0. journal.slot \in Slot /\ "new" \in SlotStates
    BY DEF SlotStates, Journal
  <1>1. st \in [Slot -> SlotStates] /\ journal.slot \in Slot
    BY <1>0, OtadataType
  <1>2. Selected(board) = [board EXCEPT !.boot = journal.slot, !.state = st]
    BY DEF Selected
  <1> HIDE DEF st
  <1>3. [board EXCEPT !.boot = journal.slot, !.state = st] \in Board
    BY <1>1 DEF Board
  <1>4. /\ SameStart(board, Selected(board)) /\ Selected(board).image = board.image
        /\ Selected(board).boot = journal.slot /\ Selected(board).state = st
    BY <1>2 DEF Board, SameStart
  <1> QED
    BY <1>2, <1>3, <1>4 DEF st

\* The slot of the update is erased or written.
LEMMA WrittenType ==
    ASSUME board \in Board, journal \in Journal,
           \/ \E kept \in BOOLEAN : board' = Erased(kept)
           \/ board' = [board EXCEPT !.image[journal.slot] = Target]
    PROVE  /\ board' \in Board /\ SameStart(board, board') /\ board'.boot = board.boot
           /\ board'.image[Other(journal.slot)] = board.image[Other(journal.slot)]
           /\ board'.image[journal.slot] \in {None, Target}
           /\ board'.state[Other(journal.slot)] = board.state[Other(journal.slot)]
           /\ board'.state[journal.slot] \in {"absent", board.state[journal.slot]}
  <1> DEFINE s == journal.slot
             im(v) == [board.image EXCEPT ![s] = v]
             st(v) == [board.state EXCEPT ![s] = v]
  <1>1. s \in Slot /\ Other(s) \in Slot /\ Other(s) # s /\ Target \in Image
    BY SlotFacts, ReleaseAssumption DEF Journal, Target
  <1>2. /\ board.image \in [Slot -> Image \cup {None}] /\ board.state \in [Slot -> SlotStates]
        /\ board.state[s] \in SlotStates
    BY <1>1 DEF Board
  <1>3. \E i \in {None, Target}, v \in {"absent", board.state[s]} :
           board' = [board EXCEPT !.image = im(i), !.state = st(v)]
    <2>1. CASE \E kept \in BOOLEAN : board' = Erased(kept)
      <3>1. PICK kept \in BOOLEAN : board' = Erased(kept)
        BY <2>1
      <3>2. board' = [board EXCEPT !.image = im(None),
                                   !.state = st(IF kept THEN board.state[s] ELSE "absent")]
        BY <3>1 DEF Erased, Board
      <3> HIDE DEF im, st
      <3> QED
        BY <3>2
    <2>2. CASE board' = [board EXCEPT !.image[s] = Target]
      <3>1. st(board.state[s]) = board.state
        BY <1>1, <1>2
      <3>2. board' = [board EXCEPT !.image = im(Target), !.state = board.state]
        BY <2>2 DEF Board
      <3> HIDE DEF im, st, s
      <3> QED
        BY <3>1, <3>2
    <2> QED
      BY <2>1, <2>2
  <1>4. PICK i \in {None, Target}, v \in {"absent", board.state[s]} :
           board' = [board EXCEPT !.image = im(i), !.state = st(v)]
    BY <1>3
  <1>5. /\ im(i) \in [Slot -> Image \cup {None}] /\ st(v) \in [Slot -> SlotStates]
        /\ im(i)[s] = i /\ im(i)[Other(s)] = board.image[Other(s)]
        /\ st(v)[s] = v /\ st(v)[Other(s)] = board.state[Other(s)]
    BY <1>1, <1>2 DEF SlotStates
  <1> HIDE DEF im, st, s
  <1>6. board' \in Board
    BY <1>4, <1>5 DEF Board
  <1>7. SameStart(board, board') /\ board'.boot = board.boot
        /\ board'.image = im(i) /\ board'.state = st(v)
    BY <1>4 DEF Board, SameStart
  <1> QED
    BY <1>5, <1>6, <1>7 DEF s

\* The attempts and the guard are untouched unless the board starts or is
\* confirmed.
LEMMA CounterStep ==
    ASSUME Inv, [Next]_vars
    PROVE  Counter' /\ faults' \in 0..MaxFaults
  <1>1. /\ TypeOK /\ Counter /\ Control /\ board \in Board /\ faults \in 0..MaxFaults
        /\ board.boots \in 0..MaxBoots /\ board.boots \in Int /\ board.failed \in Nat
        /\ MaxBoots = 3
    BY DEF Inv, Device, TypeOK, Board, MaxBoots
  <1>2. faults' \in 0..MaxFaults
    BY <1>1, FaultsGrow
  <1> SUFFICES Counter'
    BY <1>2
  <1>4. ASSUME board'.boots = board.boots, board'.guard = board.guard,
               board'.confirmed = board.confirmed, board'.failed = board.failed
        PROVE  Counter'
    BY <1>1, <1>4 DEF Counter, HoldTakesThreeBadStarts
  <1>5. ASSUME NEW b \in Board, Start(b, Fine) \/ Start(b, Fault), b.boots <= b.failed
        PROVE  Counter'
    <2>1. /\ board' \in Board /\ ~board'.confirmed
          /\ board'.failed = b.failed /\ board'.boots <= b.boots + 1
          /\ board'.guard = "recovery" => b.boots >= MaxBoots
      BY <1>1, <1>5, StartEffect, LoadedType DEF SameSlots
    <2>2. /\ board'.boots \in Int /\ board'.failed \in Int
          /\ b.boots \in Int /\ b.failed \in Int
      BY <2>1 DEF Board, MaxBoots
    <2>3. board'.boots <= board'.failed + 1
      BY <1>5, <2>1, <2>2
    <2>4. board'.guard = "recovery" => board'.failed >= MaxBoots
      BY <1>1, <1>5, <2>1, <2>2
    <2> QED
      BY <2>1, <2>3, <2>4 DEF Counter, HoldTakesThreeBadStarts, MaxBoots
  <1>6. CASE Restart
    <2>1. board.boots = 0
      BY <1>1, <1>6 DEF Restart, Counter, Control, At
    <2> QED
      BY <1>1, <1>5, <1>6, <2>1 DEF Restart, Reboot
  <1> DEFINE ended == CutShort(board)
  <1>7. ended \in Board /\ ended.boots = board.boots /\ ended.boots <= ended.failed
        /\ ended.state = board.state
    BY <1>1, CutType DEF Counter, SameSlots
  <1>8. CASE PowerLoss
    BY <1>5, <1>7, <1>8 DEF PowerLoss, Reboot
  <1>9. CASE LocalRetry
    <2> DEFINE fresh == [board EXCEPT !.boots = 0, !.failed = 0]
    <2>0. fresh \in Board /\ fresh.boots = 0 /\ fresh.failed = 0
      BY <1>1, RetryType
    <2>1. fresh \in Board /\ fresh.boots <= fresh.failed
      <3> HIDE DEF fresh
      <3> QED
        BY <2>0
    <2>2. Start(fresh, Fine)
      BY <1>9 DEF LocalRetry, Reboot
    <2> HIDE DEF fresh
    <2> QED
      BY <1>5, <2>1, <2>2
  <1>10. CASE StartupFailed
    <2> DEFINE st(v) == [board.state EXCEPT ![board.running] = v]
               other == Other(board.running)
               marked == [ended EXCEPT !.state = st("valid")]
               back == [ended EXCEPT !.boot = other, !.state = st("invalid")]
    <2>1. st("valid") \in [Slot -> SlotStates] /\ st("invalid") \in [Slot -> SlotStates]
          /\ other \in Slot
      <3>1. board.running \in Slot /\ board.state \in [Slot -> SlotStates]
        BY <1>1 DEF Board
      <3> QED
        BY <3>1, OtadataType, SlotFacts DEF SlotStates
    <2>2. \/ Start(back, Fault)
          \/ Reboot(ended, Fault)
          \/ Reboot(marked, Fault)
      <3>1. ended.state = board.state
        BY <1>7
      <3> HIDE DEF ended
      <3> QED
        BY <1>10, <3>1 DEF StartupFailed, ended
    <2> HIDE DEF st, other, ended
    <2>3. marked \in Board /\ marked.boots = ended.boots /\ marked.failed = ended.failed
      BY <1>7, <2>1 DEF Board
    <2>4. back \in Board /\ back.boots = ended.boots /\ back.failed = ended.failed
      BY <1>7, <2>1 DEF Board
    <2> HIDE DEF marked, back
    <2> QED
      BY <1>5, <1>7, <2>2, <2>3, <2>4 DEF Reboot
  <1> HIDE DEF ended
  <1>11. CASE StartupConfirmed
    <2>1. board'.boots = 0 /\ board'.guard = "ready" /\ board'.failed = 0
      BY <1>1, <1>11, ConfirmedType DEF StartupConfirmed
    <2> QED
      BY <2>1 DEF Counter, HoldTakesThreeBadStarts
  <1>12. CASE BeginDownload \/ Stream \/ SelectTarget
    <2>1. journal \in Journal
      BY <1>1, <1>12
      DEF BeginDownload, Stream, SelectTarget, Control, At, Held, TypeOK, Working
    <2>2. board' = board \/ SameStart(board, board')
      BY <1>1, <1>12, <2>1, WrittenType, SelectedType DEF BeginDownload, Stream, SelectTarget
    <2> QED
      BY <1>4, <2>2 DEF SameStart
  <1>13. CASE board' = board
    BY <1>4, <1>13
  <1>14. CASE \/ Poll \/ Resume \/ HeartbeatRefused \/ FlushAnswered \/ FlushLost \/ Reconcile
              \/ Dispatch \/ ApproveStart \/ AfterDownload \/ VerifyTarget \/ CommitSelection
              \/ Identify \/ CancelPressed \/ LateReport \/ Elsewhere \/ UNCHANGED vars
    <2>1. board' = board
      BY <1>14
      DEF Poll, Resume, HeartbeatRefused, FlushAnswered, FlushLost, Reconcile, Dispatch,
          ApproveStart, AfterDownload, VerifyTarget, Approve, CommitSelection, Identify,
          CancelPressed, LateReport, Elsewhere, vars, deviceVars
    <2> QED
      BY <1>13, <2>1
  <1> QED
    BY <1>6, <1>8, <1>9, <1>10, <1>11, <1>12, <1>14 DEF Next, TickStep, BoardStep

----------------------------------------------------------------------------
(* The slots during an update.                                             *)

SameTarget == /\ journal'.job = journal.job /\ journal'.release = journal.release
              /\ journal'.slot = journal.slot /\ journal'.previous = journal.previous

\* The client goes on with the same update, and touches neither slot.
Onward ==
    /\ Held /\ Held' /\ SameTarget
    /\ board' = board /\ history' = history
    /\ journal'.committed => journal.committed \/ engine.pc = "commit"
    /\ engine.recovering => engine'.recovering \/ engine'.pc = "stopped"
    /\ engine.pc = "stopped" => engine'.pc = "stopped"
    /\ engine.pc \in {"commit", "restart"} => engine'.pc \in {"commit", "restart", "stopped"}
    /\ engine'.pc \in {"commit", "restart"} => engine.pc \in {"commit", "restart"}
    /\ Selecting' => Selecting \/ TargetIntact

LEMMA OnwardSlots ==
    ASSUME Slots, Onward
    PROVE  Slots'
  <1> DEFINE s == journal.slot
             o == Other(journal.slot)
  <1>1. journal'.slot = s /\ Other(journal'.slot) = o /\ Target' = Target
    BY DEF Onward, SameTarget, Target
  <1>2. \A what : Marked(what)' <=> Marked(what)
    BY DEF Onward, SameTarget, Marked
  <1>3. Updating(s, o)
    BY DEF Slots, Onward
  <1>4. /\ NotSelected(s, o) => NotSelected(s, o)'
        /\ Chosen(s, o) => Chosen(s, o)'
        /\ Tried(s) => Tried(s)'
        /\ Returned(s, o) => Returned(s, o)'
    BY <1>1, <1>2 DEF Onward, NotSelected, Chosen, Tried, Returned
  <1>5. engine'.recovering \/ engine'.pc = "stopped" \/ ~(engine.recovering \/ engine.pc = "stopped")
    BY DEF Onward
  <1>6. Selecting' => board.image[s] = Target
    BY <1>3 DEF Onward, Updating, TargetIntact
  <1>7. journal'.committed \/ engine'.pc \in {"commit", "restart"} => Marked("selected")
    BY <1>3 DEF Onward, Updating
  <1>8. /\ board' = board /\ journal'.previous = journal.previous
        /\ journal'.slot = journal.slot
    BY DEF Onward, SameTarget
  <1>9. Updating(s, o)'
    <2>1. /\ (board.running = s \/ Marked("proved") => engine.recovering \/ engine.pc = "stopped")'
          /\ (Selecting => board.image[s] = Target)'
          /\ (journal.committed \/ engine.pc \in {"commit", "restart"} => Marked("selected"))'
      BY <1>1, <1>2, <1>3, <1>5, <1>6, <1>7, <1>8 DEF Updating
    <2>2. /\ (Marked("failed") => Marked("selected") /\ Returned(s, o))'
          /\ (~Marked("selected") => NotSelected(s, o))'
          /\ (Marked("selected") => /\ board.image[s] = Target
                                    /\ Chosen(s, o) \/ Tried(s) \/ Returned(s, o))'
      BY <1>1, <1>2, <1>3, <1>4, <1>8 DEF Updating
    <2>3. /\ (board.image[o] = journal.previous)'
          /\ (journal.previous # Target)'
          /\ (board.state[o] \in {"valid", "invalid"})'
          /\ (board.running = s /\ board.confirmed /\ board.image[s] = Target => Marked("proved"))'
          /\ (Marked("proved") =>
                /\ board.image[s] = Target
                /\ \/ board.running = s /\ board.state[s] = "valid"
                   \/ board.running = o /\ board.state[s] = "invalid")'
      BY <1>1, <1>2, <1>3, <1>8 DEF Updating
    <2> QED
      BY <2>1, <2>2, <2>3 DEF Updating
  <1> QED
    BY <1>1, <1>8, <1>9 DEF Slots, Onward

LEMMA JournalingOnward ==
    ASSUME Inv, Journaling, board' = board, history' = history,
           engine.pc \notin {"commit", "restart"}
    PROVE  Onward
  <1>1. PICK e \in Engines, state \in ReportStates, bytes \in 0..Size, error \in ErrorCode,
             then \in Steps :
          /\ ReturnFits(then, state, bytes)
          /\ SubmitEffect(e, state, bytes, error, then)
    BY JournalingEffect DEF Inv, Device
  <1>2. /\ journal \in Journal /\ e \in Engine /\ Held /\ engine.pc # "stopped"
        /\ e.recovering = engine.recovering
    BY DEF Inv, Device, TypeOK, Journaling, Held, Engines, Engine, At
  <1>3. /\ engine'.recovering = engine.recovering
        /\ engine'.pc \in {"idle", "stopped", "flush"}
        /\ engine'.pc = "flush" => engine'.then = then
    BY <1>1, <1>2 DEF SubmitEffect, Engine, Steps
  <1>4. SameTarget /\ journal'.committed = journal.committed /\ journal' # None
    <2>1. CASE journal' = journal
      BY <1>2, <2>1 DEF SameTarget, Held
    <2>2. CASE journal' = Entry(state, bytes, error) /\ journal.sequence < MaxSequence
      <3>1. journal' \in Journal
        BY <1>2, <2>2, EntryType DEF Inv, Device
      <3> QED
        BY <1>2, <2>2, <3>1, JournalAssumption DEF SameTarget, Entry, Journal
    <2> QED
      BY <1>1, <2>1, <2>2 DEF SubmitEffect
  <1>5. Selecting' => TargetIntact
    BY <1>1, <1>3 DEF Selecting, ReturnFits
  <1> QED
    BY <1>2, <1>3, <1>4, <1>5 DEF Onward, Held

\* Moves that keep the journal.
LEMMA MoveOnward ==
    ASSUME Held, journal' = journal, board' = board, history' = history,
           engine'.recovering = engine.recovering,
           engine.pc = "stopped" => engine'.pc = "stopped",
           engine.pc \in {"commit", "restart"} => engine'.pc = engine.pc,
           engine'.pc \in {"commit", "restart"} => engine'.pc = engine.pc,
           Selecting' => Selecting \/ TargetIntact
    PROVE  Onward
  BY DEF Onward, SameTarget, Held

LEMMA FlushOnward ==
    ASSUME Inv, FlushAnswered \/ FlushLost
    PROVE  Onward
  <1>1. /\ engine.pc = "flush" /\ Held /\ journal \in Journal /\ engine \in Engine
        /\ engine.then \notin {"commit", "restart"}
        /\ board' = board /\ history' = history
    BY DEF Inv, Device, FlushAnswered, FlushLost, Control, Returning, TypeOK, Held, At
  <1> DEFINE acked == [journal EXCEPT !.pending = FALSE, !.error = ""]
  <1>2. /\ acked \in Journal /\ acked.job = journal.job /\ acked.release = journal.release
        /\ acked.slot = journal.slot /\ acked.previous = journal.previous
        /\ acked.committed = journal.committed
    BY <1>1, Literals DEF Journal
  <1>3. CASE Save(acked, Goto(engine.then))
    <2>1. journal' \in {journal, acked}
      BY <1>3 DEF Save, SaveAt
    <2>2. /\ engine'.pc \in {engine.then, "stopped"}
          /\ engine'.recovering = engine.recovering
      BY <1>1, <1>3 DEF Save, SaveAt, Goto, Engine, Steps
    <2>3. Held' /\ SameTarget /\ journal'.committed = journal.committed
      BY <1>1, <1>2, <2>1, JournalAssumption DEF Held, SameTarget
    <2>4. Selecting' => Selecting \/ engine.then = "flush" \/ engine.then = "status"
      BY <1>1, <2>2 DEF Selecting
    <2>5. engine.then \notin {"flush", "status"}
      BY <1>1 DEF Inv, Device, Returning
    <2> HIDE DEF acked
    <2> QED
      BY <1>1, <2>2, <2>3, <2>4, <2>5 DEF Onward
  <1>4. CASE engine' = Goto("status") /\ journal' = journal
    <2>1. /\ engine'.pc = "status" /\ engine'.then = engine.then
          /\ engine'.recovering = engine.recovering
      BY <1>1, <1>4 DEF Goto, Engine
    <2> QED
      BY <1>1, <1>4, <2>1, MoveOnward DEF Selecting
  <1>5. CASE engine' = Unflushed(engine) /\ journal' = journal
    <2>1. /\ engine'.pc \in {"idle", "downloaded"}
          /\ engine'.recovering = engine.recovering
      BY <1>1, <1>5, UnflushedEffect
    <2> QED
      BY <1>1, <1>5, <2>1, MoveOnward DEF Selecting
  <1> HIDE DEF acked
  <1> QED
    BY <1>3, <1>4, <1>5 DEF FlushAnswered, FlushLost, acked

LEMMA ReconcileOnward ==
    ASSUME Inv, Reconcile, journal' # None
    PROVE  Onward
  <1>1. /\ engine.pc = "status" /\ Held /\ journal \in Journal /\ engine \in Engine
        /\ board' = board /\ history' = history
    BY DEF Inv, Device, Reconcile, Control, TypeOK, Held, At
  <1> DEFINE e      == Unflushed(engine)
             remote == ExpireQueued(journal.job)
             adopted == [journal EXCEPT !.state = remote.state, !.sequence = remote.sequence,
                                        !.bytes = remote.bytes, !.pending = FALSE,
                                        !.error = ""]
  <1>2. /\ e \in Engine /\ e.recovering = engine.recovering
        /\ e.pc \in {"idle", "downloaded"}
    BY <1>1, UnflushedEffect
  <1> HIDE DEF e
  <1>3. CASE journal' = journal /\ engine' = e
    BY <1>1, <1>2, <1>3, MoveOnward DEF Selecting
  <1>4. CASE Save(None, [e EXCEPT !.interrupted = FALSE])
    <2>1. journal' = journal /\ engine'.pc = "stopped" /\ engine'.recovering = engine.recovering
      BY <1>1, <1>2, <1>4 DEF Save, SaveAt, Engine
    <2> QED
      BY <1>1, <2>1, MoveOnward DEF Selecting
  <1>5. CASE Save(adopted, [e EXCEPT !.interrupted = TRUE])
    <2>1. /\ journal' \in {journal, adopted}
          /\ engine'.pc \in {e.pc, "stopped"}
          /\ engine'.recovering = engine.recovering
      BY <1>1, <1>2, <1>5 DEF Save, SaveAt, Engine, Steps
    <2>2. SameTarget /\ journal'.committed = journal.committed
      BY <1>1, <2>1 DEF SameTarget, Journal
    <2> HIDE DEF remote, adopted
    <2> QED
      BY <1>1, <1>2, <2>1, <2>2 DEF Onward, Held, Selecting
  <1> HIDE DEF remote, adopted
  <1> QED
    BY <1>1, <1>3, <1>4, <1>5 DEF Reconcile, Reconciled, e, remote, adopted

\* The rest of a tick, but for what it writes in a slot or forgets.
LEMMA TickOnward ==
    ASSUME Inv, board' = board, history' = history, journal' # None,
           \/ Resume \/ Dispatch \/ ApproveStart \/ BeginDownload \/ Stream
           \/ AfterDownload \/ VerifyTarget \/ CommitSelection
    PROVE  Onward
  <1>1. /\ engine \in Engine /\ Control /\ Phases /\ (Held => journal \in Journal)
    BY DEF Inv, Device, TypeOK, Held
  <1>2. ASSUME NEW pc \in {"approve", "download", "stream", "verify", "select", "stopped"},
               journal' = journal, engine' = Goto(pc), Held,
               engine.pc \notin {"commit", "restart", "stopped"},
               pc = "select" => TargetIntact
        PROVE  Onward
    <2>1. engine'.pc = pc /\ engine'.recovering = engine.recovering
      BY <1>1, <1>2 DEF Goto, Engine
    <2> QED
      BY <1>2, <2>1, MoveOnward DEF Selecting
  <1>3. CASE Resume
    <2>1. /\ Held /\ engine.pc = "idle" /\ journal' = journal
          /\ engine'.pc \in {"stopped", "flush", "dispatch"}
          /\ engine'.recovering = engine.recovering
          /\ engine'.pc = "flush" => engine'.then = "dispatch"
      BY <1>1, <1>3 DEF Resume, MayTick, At, Held, Goto, Engine, Steps
    <2> QED
      BY <2>1, MoveOnward DEF Selecting
  <1>4. CASE Dispatch
    <2>1. Held /\ engine.pc = "dispatch"
      BY <1>1, <1>4 DEF Dispatch, Control, At
    <2>2. CASE Finish
      <3>1. CASE Save(None, [engine EXCEPT !.pc = "idle", !.interrupted = FALSE,
                                           !.recovering = FALSE])
        <4>1. journal' = journal /\ engine'.pc = "stopped" /\ ~engine'.recovering
          BY <1>1, <3>1 DEF Save, SaveAt, Engine
        <4> QED
          BY <2>1, <4>1 DEF Onward, SameTarget, Held, Selecting
      <3>2. CASE engine' = Goto("stopped") /\ journal' = journal
        BY <1>2, <2>1, <3>2
      <3> QED
        BY <2>2, <3>1, <3>2 DEF Finish
    <2> QED
      BY <1>2, <1>4, <2>1, <2>2, DispatchStep, JournalingOnward
  <1>5. CASE ApproveStart
    <2>1. Held /\ engine.pc = "approve"
      BY <1>1, <1>5 DEF ApproveStart, Control, Working, At
    <2> QED
      BY <1>2, <1>5, <2>1, ApproveStep, JournalingOnward DEF Proceed
  <1>6. ASSUME engine' = Cancelled \/ \E code \in ErrorCode : engine' = Abort(code),
               engine.pc \in {"download", "stream"}, journal' = journal
        PROVE  Onward
    <2>1. /\ Held /\ engine'.pc = "downloaded" /\ engine'.recovering = engine.recovering
      BY <1>1, <1>6 DEF Control, Working, Abort, Cancelled, Engine
    <2> QED
      BY <1>6, <2>1, MoveOnward DEF Selecting
  <1>7. CASE BeginDownload
    <2>1. Held /\ engine.pc = "download" /\ journal' = journal
      BY <1>1, <1>7 DEF BeginDownload, Control, Working, At
    <2> QED
      BY <1>2, <1>6, <1>7, <2>1, Literals DEF BeginDownload
  <1>8. CASE Stream
    <2>1. engine.pc = "stream"
      BY <1>8 DEF Stream, At
    <2> QED
      BY <1>6, <1>8, <2>1, StreamStep, JournalingOnward
  <1>9. CASE AfterDownload
    <2>1. engine.pc = "downloaded" /\ Held
      BY <1>1, <1>9 DEF AfterDownload, At, Control
    <2>2. CASE /\ journal' = journal
               /\ engine' = [engine EXCEPT !.pc = "flush", !.then = "downloaded"]
      <3>1. /\ engine'.pc = "flush" /\ engine'.then = "downloaded"
            /\ engine'.recovering = engine.recovering
        BY <1>1, <2>2 DEF Engine
      <3> QED
        BY <2>1, <2>2, <3>1, MoveOnward DEF Selecting
    <2> QED
      BY <1>9, <2>1, <2>2, AfterDownloadStep, JournalingOnward
  <1>10. CASE VerifyTarget
    <2>1. Held /\ engine.pc = "verify"
      BY <1>1, <1>10 DEF VerifyTarget, Control, Working, At
    <2> QED
      BY <1>2, <1>10, <2>1, VerifyStep, JournalingOnward
  <1>11. CASE CommitSelection
    <2>1. Held /\ engine.pc = "commit" /\ journal \in Journal
      BY <1>1, <1>11 DEF CommitSelection, Control, Working, At
    <2>2. /\ engine'.pc \in {"restart", "stopped"}
          /\ engine'.recovering = engine.recovering
          /\ journal' \in {journal, [journal EXCEPT !.committed = TRUE]}
      BY <1>1, <1>11 DEF CommitSelection, Save, SaveAt, Goto, Engine, Steps
    <2>3. SameTarget
      BY <2>1, <2>2 DEF SameTarget, Journal
    <2> QED
      BY <2>1, <2>2, <2>3 DEF Onward, Held, Selecting
  <1> QED
    BY <1>3, <1>4, <1>5, <1>7, <1>8, <1>9, <1>10, <1>11

\* Once no restart is due, otadata is settled whether or not the target was tried.
LEMMA SettledAfterUpdate ==
    ASSUME Inv, Held, engine.pc \in {"dispatch", "status"}
    PROVE  Settled
  <1>1. /\ TypeOK /\ Control /\ Slots /\ journal \in Journal /\ board.confirmed
        /\ board.state[board.running] = "valid"
    BY DEF Inv, Device, TypeOK, Held, Control, Slots
  <1>2. /\ journal.slot \in Slot /\ Other(Other(journal.slot)) = journal.slot
        /\ journal.previous # None /\ Target # None
    BY <1>1, SlotFacts, ReleaseAssumption, NoneAssumption DEF Journal, Target
  <1>3. Updating(journal.slot, Other(journal.slot))
    BY <1>1 DEF Slots
  <1>4. board.running \in Slot
    BY <1>1 DEF TypeOK, Board
  <1>5. board.running = journal.slot \/ board.running = Other(journal.slot)
    BY <1>2, <1>4, SlotFacts
  <1>6. ~Chosen(journal.slot, Other(journal.slot))
    BY DEF Chosen
  <1> QED
    BY <1>1, <1>2, <1>3, <1>5, <1>6 DEF Settled, Updating, NotSelected, Tried, Returned

\* An update ends.
LEMMA ForgetSlots ==
    ASSUME Inv, Held, journal' = None, Dispatch \/ Reconcile
    PROVE  Slots'
  <1>1. Settled /\ Slots /\ board' = board
    BY SettledAfterUpdate DEF Dispatch, Reconcile, At, Inv, Device
  <1> QED
    BY <1>1 DEF Slots, Settled, Held

\* A deployment is adopted on a board whose otadata is settled.
LEMMA PollSlots ==
    ASSUME Inv, Poll
    PROVE  Slots'
  <1>1. /\ TypeOK /\ Slots /\ Untouched /\ journal = None /\ board' = board /\ history' = history
        /\ board \in Board /\ engine \in Engine
    BY DEF Inv, Device, Tracking, TypeOK, Poll
  <1>2. Settled /\ board.running \in Slot
    BY <1>1 DEF Slots, Held, Board
  <1>3. CASE journal' = None
    BY <1>1, <1>2, <1>3 DEF Slots, Held, Settled
  <1>4. CASE journal' # None
    <2> DEFINE fresh == [engine EXCEPT !.interrupted = FALSE, !.recovering = FALSE]
               s == Other(board.running)
               o == board.running
    <2>1. PICK j \in Offered : /\ PolicyHolds(jobs[j].release)
                               /\ Save(NewJournal(j), [fresh EXCEPT !.pc = "dispatch"])
      BY <1>1, <1>4 DEF Poll
    <2>2. /\ j \in JobId /\ Active(j) /\ jobs[j] \in Job
      BY <1>1, <2>1, RowTypes, UsedRow DEF Offered, Active, ActiveStates, TypeOK
    <2>3. journal' = NewJournal(j) /\ engine'.pc \in {"dispatch", "stopped"}
      BY <1>1, <1>4, <2>1 DEF Save, SaveAt, Engine, Steps
    <2>4. /\ journal'.slot = s /\ journal'.previous = Running /\ journal'.release = jobs[j].release
          /\ ~journal'.committed /\ journal'.job = j
      BY <2>3 DEF NewJournal
    <2>5. s \in Slot /\ s # o /\ Other(s) = o
      BY <1>2, SlotFacts
    <2>6. Running # AppOf[jobs[j].release] /\ Running = board.image[o]
      BY <2>1, <2>2, ReleaseAssumption DEF PolicyHolds, Job, Running
    <2>7. history[j] = {}
      BY <1>1, <2>2 DEF Untouched, Journaled, Held
    <2>8. \A what : ~Marked(what)'
      BY <1>1, <2>4, <2>7 DEF Marked
    <2>9. ~Selecting' /\ engine'.pc \notin {"commit", "restart"}
      BY <2>3 DEF Selecting
    <2> HIDE DEF s, o, fresh
    <2>10. Updating(s, o)'
      <3>1. board.boot = o /\ board.running = o /\ board.state[o] = "valid"
            /\ board.state[s] \notin {"new", "pending"}
        BY <1>2 DEF Settled, s, o
      <3>2. s' = s /\ o' = o
        BY <1>1 DEF s, o
      <3>3. /\ (board.image[o] = journal.previous)' /\ (journal.previous # Target)'
            /\ (board.state[o] \in {"valid", "invalid"})'
            /\ (board.running # s)'
        BY <1>1, <2>4, <2>5, <2>6, <3>1, <3>2 DEF Target
      <3>4. NotSelected(s, o)'
        BY <1>1, <2>5, <3>1, <3>2 DEF NotSelected
      <3> QED
        BY <2>4, <2>8, <2>9, <3>3, <3>4 DEF Updating
    <2>11. Updating(journal.slot, Other(journal.slot))'
      <3>1. s' = s /\ o' = o
        BY <1>1 DEF s, o
      <3> QED
        BY <2>4, <2>5, <2>10, <3>1
    <2> QED
      BY <1>1, <1>4, <2>11 DEF Slots, Held
  <1> QED
    BY <1>3, <1>4

\* A tick that writes its slot has not selected it, and runs from the other one.
LEMMA Writing ==
    ASSUME Inv, engine.pc \in {"download", "stream", "select"}
    PROVE  /\ journal \in Journal /\ Held /\ board \in Board
           /\ journal.slot \in Slot /\ Other(journal.slot) \in Slot
           /\ Other(journal.slot) # journal.slot
           /\ ~Marked("selected") /\ ~Marked("failed") /\ ~Marked("proved")
           /\ NotSelected(journal.slot, Other(journal.slot))
           /\ board.running = Other(journal.slot) /\ board.boot = Other(journal.slot)
           /\ board.confirmed /\ board.state[board.running] = "valid"
           /\ Updating(journal.slot, Other(journal.slot))
           /\ board.image[board.running] \in Image
  <1>1. /\ TypeOK /\ Control /\ Slots /\ journal \in Journal /\ Held /\ board \in Board
        /\ ~engine.interrupted /\ board.confirmed /\ ~engine.recovering
    BY DEF Inv, Device, Control, Working, TypeOK, Held
  <1>2. /\ journal.slot \in Slot /\ board.running \in Slot
        /\ Other(journal.slot) # journal.slot /\ Other(journal.slot) \in Slot
        /\ board.running = journal.slot \/ board.running = Other(journal.slot)
    BY <1>1, SlotFacts DEF Journal, Board
  <1>3. /\ ~Marked("selected") /\ ~Marked("failed") /\ ~Marked("proved")
        /\ NotSelected(journal.slot, Other(journal.slot))
        /\ board.running # journal.slot
    BY <1>1, NotYetSelected
  <1>4. board.running = Other(journal.slot) /\ board.boot = Other(journal.slot)
    BY <1>2, <1>3 DEF NotSelected
  <1>5. Updating(journal.slot, Other(journal.slot)) /\ board.state[board.running] = "valid"
    BY <1>1 DEF Slots
  <1>6. board.image[board.running] \in Image
    BY <1>1, RunningIsImage DEF Running
  <1> QED
    BY <1>1, <1>2, <1>3, <1>4, <1>5, <1>6

\* The slot of the update is erased or written.
LEMMA WriteSlots ==
    ASSUME Inv, journal' = journal, history' = history, engine.pc \in {"download", "stream"},
           engine'.pc \in {"stream", "downloaded"},
           \/ \E kept \in BOOLEAN : board' = Erased(kept)
           \/ board' = [board EXCEPT !.image[journal.slot] = Target]
    PROVE  Slots'
  <1> DEFINE s == journal.slot
             o == Other(journal.slot)
  <1>1. /\ journal \in Journal /\ Held /\ board \in Board
        /\ s \in Slot /\ o \in Slot /\ o # s
        /\ ~Marked("selected") /\ ~Marked("failed") /\ ~Marked("proved")
        /\ NotSelected(s, o) /\ board.running = o /\ board.boot = o
        /\ board.state[o] = "valid" /\ Updating(s, o) /\ board.image[o] \in Image
        /\ board.state[board.running] = "valid"
    BY Writing
  <1>2. /\ board' \in Board /\ SameStart(board, board') /\ board'.boot = board.boot
        /\ board'.image[o] = board.image[o] /\ board'.image[s] \in {None, Target}
        /\ board'.state[o] = board.state[o]
        /\ board'.state[s] \in {"absent", board.state[s]}
    BY <1>1, WrittenType
  <1>3. board.image[o] # None /\ board.image[o] # Target
    BY <1>1, NoneAssumption DEF Updating
  <1>4. s' = s /\ o' = o /\ Target' = Target /\ Held' /\ \A what : Marked(what)' <=> Marked(what)
    BY <1>1 DEF Target, Held, Marked
  <1>5. board'.image[1] # board'.image[2]
    <2>1. (s = 1 /\ o = 2) \/ (s = 2 /\ o = 1)
      BY <1>1 DEF Slot
    <2> QED
      BY <1>2, <1>3, <2>1
  <1>6. ~Selecting' /\ engine'.pc \notin {"commit", "restart"}
    BY DEF Selecting
  <1> HIDE DEF s, o
  <1>7. NotSelected(s, o)'
    BY <1>1, <1>2, <1>4 DEF NotSelected, SameStart
  <1>8. ~journal.committed
    BY <1>1 DEF Updating
  <1>9. Updating(s, o)'
    <2>1. /\ (board.image[o] = journal.previous)' /\ (journal.previous # Target)'
          /\ (board.state[o] \in {"valid", "invalid"})' /\ (board.running # s)'
      BY <1>1, <1>2, <1>4 DEF Updating, SameStart
    <2> QED
      BY <1>1, <1>4, <1>6, <1>7, <1>8, <2>1 DEF Updating
  <1>10. (board.confirmed => board.state[board.running] = "valid")'
    BY <1>1, <1>2 DEF SameStart
  <1> QED
    BY <1>4, <1>5, <1>9, <1>10 DEF Slots, s, o

\* The boot slot is selected.
LEMMA SelectSlots ==
    ASSUME Inv, SelectTarget, board' = Selected(board), Mark(journal.job, "selected"),
           journal' = journal, engine' \in {Goto("commit"), Goto("stopped")}
    PROVE  Slots'
  <1> DEFINE s == journal.slot
             o == Other(journal.slot)
  <1>1. /\ journal \in Journal /\ Held /\ board \in Board
        /\ s \in Slot /\ o \in Slot /\ o # s
        /\ ~Marked("selected") /\ ~Marked("failed") /\ ~Marked("proved")
        /\ NotSelected(s, o) /\ board.running = o /\ board.boot = o
        /\ board.confirmed /\ board.state[o] = "valid" /\ Updating(s, o)
        /\ board.image[1] # board.image[2]
        /\ engine \in Engine /\ engine.pc = "select"
    BY Writing DEF SelectTarget, At, Inv, Device, Slots, TypeOK
  <1>2. /\ SameStart(board, board') /\ board'.image = board.image /\ board'.boot = s
        /\ board'.state = [board.state EXCEPT ![s] = "new"]
    BY <1>1, SelectedType
  <1>3. board'.state[s] = "new" /\ board'.state[o] = "valid"
    BY <1>1, <1>2 DEF Board
  <1>4. /\ s' = s /\ o' = o /\ Target' = Target /\ Held'
        /\ Marked("selected")' /\ ~Marked("proved")' /\ ~Marked("failed")'
    <2>1. history \in [JobId -> SUBSET {"selected", "proved", "failed"}] /\ journal.job \in JobId
      BY <1>1 DEF Inv, Device, TypeOK, Journal
    <2> QED
      BY <1>1, <2>1 DEF Target, Held, Marked, Mark
  <1>5. engine'.pc \in {"commit", "stopped"}
    BY <1>1 DEF Goto, Engine
  <1>6. board.image[s] = Target
    BY <1>1 DEF Updating, Selecting
  <1> HIDE DEF s, o
  <1>7. Chosen(s, o)'
    BY <1>1, <1>2, <1>3, <1>4, <1>5 DEF Chosen, SameStart
  <1>8. Updating(s, o)'
    <2>1. /\ (board.image[o] = journal.previous)' /\ (journal.previous # Target)'
          /\ (board.state[o] \in {"valid", "invalid"})' /\ (board.running # s)'
          /\ (board.image[s] = Target)'
      BY <1>1, <1>2, <1>3, <1>4, <1>6 DEF Updating, SameStart
    <2> QED
      BY <1>4, <1>7, <2>1 DEF Updating
  <1>9. (board.confirmed => board.state[board.running] = "valid")'
    BY <1>1, <1>2, <1>3 DEF SameStart
  <1> QED
    BY <1>1, <1>2, <1>4, <1>8, <1>9 DEF Slots, s, o

\* The engine of a board that has just booted with an update to recover.
LEMMA BootedState ==
    ASSUME engine' = BootedEngine, journal' = journal
    PROVE  /\ engine'.pc = "idle" /\ ~Selecting'
           /\ Held => engine'.recovering
  <1> DEFINE held == journal # None
  <1>1. held \in BOOLEAN
    OBVIOUS
  <1>2. BootedEngine = [Idle EXCEPT !.interrupted = held, !.recovering = held]
    BY DEF BootedEngine
  <1> HIDE DEF held
  <1>3. engine'.pc = "idle" /\ engine'.recovering = held
    BY <1>1, <1>2 DEF Idle
  <1> QED
    BY <1>3 DEF Selecting, Held, held

\* What is left to show of a boot during an update.
LEMMA BootedSlots ==
    ASSUME Inv, Held, journal' = journal, engine' = BootedEngine,
           board'.image = board.image, ~board'.confirmed,
           board'.state[Other(journal.slot)] \in {"valid", "invalid"},
           history' = history \/ Mark(journal.job, "failed"),
           ~Marked("selected") => NotSelected(journal.slot, Other(journal.slot))',
           Marked("selected") =>
              Tried(journal.slot)' \/ Returned(journal.slot, Other(journal.slot))',
           Marked("failed")' =>
              Marked("selected") /\ Returned(journal.slot, Other(journal.slot))',
           Marked("proved") =>
              \/ board'.running = journal.slot /\ board'.state[journal.slot] = "valid"
              \/ /\ board'.running = Other(journal.slot)
                 /\ board'.state[journal.slot] = "invalid"
    PROVE  Slots'
  <1> DEFINE s == journal.slot
             o == Other(journal.slot)
  <1>1. /\ Slots /\ Updating(s, o) /\ journal \in Journal
        /\ history \in [JobId -> SUBSET {"selected", "proved", "failed"}] /\ journal.job \in JobId
    BY DEF Inv, Device, Slots, TypeOK, Held, Journal
  <1>2. /\ s' = s /\ o' = o /\ Target' = Target /\ Held'
        /\ Marked("selected")' <=> Marked("selected")
        /\ Marked("proved")' <=> Marked("proved")
    BY <1>1 DEF Target, Held, Marked, Mark
  <1>3. engine'.pc = "idle" /\ engine'.recovering /\ ~Selecting'
    BY BootedState
  <1> HIDE DEF s, o
  <1>4. /\ (~Marked("selected") => NotSelected(s, o))'
        /\ (Marked("selected") => Chosen(s, o) \/ Tried(s) \/ Returned(s, o))'
        /\ (Marked("failed") => Marked("selected") /\ Returned(s, o))'
    BY <1>2 DEF s, o
  <1>5. Updating(s, o)'
    <2>1. /\ (board.image[o] = journal.previous)' /\ (journal.previous # Target)'
          /\ (board.state[o] \in {"valid", "invalid"})'
          /\ (Marked("selected") => board.image[s] = Target)'
      BY <1>1, <1>2 DEF Updating, o
    <2>2. (journal.committed => Marked("selected"))'
      BY <1>1, <1>2 DEF Updating
    <2>3. (Marked("proved") =>
             /\ board.image[s] = Target
             /\ \/ board.running = s /\ board.state[s] = "valid"
                \/ board.running = o /\ board.state[s] = "invalid")'
      BY <1>1, <1>2 DEF Updating, s, o
    <2> QED
      BY <1>3, <1>4, <2>1, <2>2, <2>3 DEF Updating
  <1> QED
    BY <1>1, <1>2, <1>5 DEF Slots, s, o

\* A start that the startup check did not redirect; it may have confirmed the
\* running image in otadata first.
LEMMA RebootSlots ==
    ASSUME Inv, NEW b \in Board, journal' = journal, engine' = BootedEngine,
           SameSlots(Loaded(b), board'),
           b.image = board.image, b.boot = board.boot,
           b.state[board.running] \in {board.state[board.running], "valid"},
           b.state[Other(board.running)] = board.state[Other(board.running)],
           IF b.state[b.boot] = "pending" THEN NoteFailure(b.boot) ELSE history' = history
    PROVE  Slots'
  <1>1. /\ TypeOK /\ Slots /\ board \in Board
        /\ board.running \in Slot /\ board.boot \in Slot
    BY DEF Inv, Device, TypeOK, Board
  <1>2. /\ board'.image = board.image /\ ~board'.confirmed
        /\ board'.running = Loaded(b).running /\ board'.boot = Loaded(b).boot
        /\ board'.state = Loaded(b).state
    BY LoadedType DEF SameSlots
  <1>3. ASSUME b.state[b.boot] \notin {"new", "pending"}
        PROVE  /\ board'.running = board.boot /\ board'.boot = board.boot
               /\ board'.state = b.state /\ history' = history
    BY <1>2, <1>3, LoadedType
  <1>4. CASE ~Held
    <2>1. Settled
      BY <1>1, <1>4 DEF Slots
    <2>2. b.state[b.boot] = "valid"
      BY <2>1 DEF Settled
    <2> QED
      BY <1>1, <1>2, <1>3, <1>4, <2>1, <2>2 DEF Slots, Settled, Held
  <1>5. CASE Held
    <2> DEFINE s == journal.slot
               o == Other(journal.slot)
    <2>1. /\ journal \in Journal /\ Updating(s, o) /\ s \in Slot /\ o \in Slot /\ o # s
          /\ Other(o) = s /\ Other(s) = o
      BY <1>1, <1>5, SlotFacts DEF Slots, TypeOK, Held, Journal
    <2>2. /\ s' = s /\ o' = o /\ (Marked("selected") => board.image[s] = Target)
      BY <2>1 DEF Updating
    <2>3. engine'.recovering
      BY <1>5, BootedState
    <2> HIDE DEF s, o
    <2>4. CASE ~Marked("selected")
      <3>1. NotSelected(s, o) /\ ~Marked("failed")
        BY <2>1, <2>4 DEF Updating
      <3>2. board.running = s \/ board.running = o
        BY <1>1, <2>1, SlotFacts DEF o
      <3>3. /\ b.state[s] = board.state[s]
            /\ b.state[o] \in {"valid", "invalid"} /\ (board.running = s => b.state[o] = "invalid")
        BY <2>1, <3>1, <3>2 DEF NotSelected, Updating
      <3>4. b.state[b.boot] \notin {"new", "pending"} /\ board.boot = board.running
        BY <3>1, <3>2, <3>3 DEF NotSelected
      <3>5. /\ board'.running = board.running /\ board'.boot = board.boot
            /\ board'.state = b.state /\ history' = history
        BY <1>3, <3>4
      <3>6. NotSelected(s, o)' /\ ~Marked("failed")'
        BY <1>2, <2>2, <3>1, <3>3, <3>5 DEF NotSelected, Marked
      <3>7. Marked("proved") => \/ board'.running = s /\ board'.state[s] = "valid"
                                \/ board'.running = o /\ board'.state[s] = "invalid"
        BY <2>1, <3>3, <3>5 DEF Updating
      <3> QED
        BY <1>2, <1>5, <2>4, <3>3, <3>5, <3>6, <3>7, BootedSlots DEF s, o
    <2>5. CASE Marked("selected") /\ Chosen(s, o)
      <3>1. /\ board.state[s] = "new" /\ board.state[o] = "valid"
            /\ board.boot = s /\ board.running = o /\ ~Marked("failed") /\ ~Marked("proved")
        BY <2>1, <2>5 DEF Chosen, Returned, Updating
      <3>2. /\ b.state[s] = "new" /\ b.state[o] = "valid" /\ b.boot = s
        BY <2>1, <3>1
      <3>3. /\ board'.running = s /\ board'.boot = s
            /\ board'.state = [b.state EXCEPT ![s] = "pending"] /\ history' = history
        BY <1>2, <3>2, LoadedType
      <3>4. board'.state[s] = "pending" /\ board'.state[o] = "valid"
        BY <2>1, <3>2, <3>3 DEF Board
      <3>5. Tried(s)' /\ ~Marked("failed")'
        BY <2>2, <2>3, <3>1, <3>3, <3>4 DEF Tried, Marked
      <3> QED
        BY <1>2, <1>5, <2>5, <3>1, <3>3, <3>4, <3>5, BootedSlots DEF s, o
    <2>6. CASE Marked("selected") /\ Tried(s)
      <3>1. /\ board.boot = s /\ board.running = s /\ ~Marked("failed")
            /\ board.state[s] \in {"pending", "valid"}
            /\ board.state[o] \in {"valid", "invalid"}
        BY <2>1, <2>6 DEF Tried, Returned, Updating
      <3>2. /\ b.state[s] \in {"pending", "valid"} /\ b.state[o] = board.state[o] /\ b.boot = s
        BY <2>1, <3>1
      <3>3. CASE b.state[s] = "valid"
        <4>1. /\ board'.running = s /\ board'.boot = s /\ board'.state = b.state
              /\ history' = history
          BY <1>3, <3>1, <3>2, <3>3
        <4>2. Tried(s)' /\ ~Marked("failed")'
          BY <2>2, <2>3, <3>1, <3>3, <4>1 DEF Tried, Marked
        <4> QED
          BY <1>2, <1>5, <2>6, <3>1, <3>2, <3>3, <4>1, <4>2, BootedSlots DEF s, o
      <3>4. CASE b.state[s] = "pending"
        <4>0. Other(b.boot) = o
          BY <2>1, <3>2
        <4>1. /\ board'.running = o /\ board'.boot = o
              /\ board'.state = [b.state EXCEPT ![s] = "aborted"]
          BY <1>2, <3>2, <3>4, <4>0, LoadedType
        <4>2. board'.state[s] = "aborted" /\ board'.state[o] = board.state[o]
          BY <2>1, <3>2, <4>1 DEF Board
        <4>3. Mark(journal.job, "failed")
          BY <1>5, <2>1, <2>2, <2>6, <3>2, <3>4 DEF NoteFailure, Boots, s, Held
        <4>4. Marked("failed")'
          BY <2>1, <1>1, <4>3 DEF Marked, Mark, TypeOK, Journal
        <4>5. Returned(s, o)'
          BY <2>2, <2>3, <4>1, <4>2, <4>4 DEF Returned
        <4>6. ~Marked("proved")
          BY <2>1, <3>1, <3>4 DEF Updating
        <4> QED
          BY <1>2, <1>5, <2>6, <3>1, <4>2, <4>3, <4>5, <4>6, BootedSlots DEF s, o
      <3> QED
        BY <3>2, <3>3, <3>4
    <2>7. CASE Marked("selected") /\ Returned(s, o)
      <3>1. /\ board.boot = o /\ board.running = o
            /\ board.state[s] \in {"aborted", "invalid"}
            /\ board.state[o] \in {"valid", "invalid"} /\ Marked("failed")
        BY <2>1, <2>7 DEF Returned, Updating
      <3>2. /\ b.state[s] = board.state[s] /\ b.state[o] \in {"valid", "invalid"} /\ b.boot = o
        BY <2>1, <3>1
      <3>3. /\ board'.running = o /\ board'.boot = o /\ board'.state = b.state
            /\ history' = history
        BY <1>3, <3>1, <3>2
      <3>4. Returned(s, o)'
        BY <2>2, <2>3, <3>1, <3>2, <3>3 DEF Returned, Marked
      <3>5. Marked("proved") => board'.state[s] = "invalid"
        BY <2>1, <3>1, <3>2, <3>3 DEF Updating
      <3> QED
        BY <1>2, <1>5, <2>7, <3>2, <3>3, <3>4, <3>5, BootedSlots DEF s, o
    <2> QED
      BY <2>1, <2>4, <2>5, <2>6, <2>7 DEF Updating
  <1> QED
    BY <1>4, <1>5

\* A failed startup check marks the running image and boots the other one.
LEMMA LeaveSlots ==
    ASSUME Inv, NEW b \in Board, journal' = journal, engine' = BootedEngine, ~board.confirmed,
           SameSlots(Loaded(b), board'),
           b.image = board.image, b.boot = Other(board.running),
           b.state[board.running] = "invalid",
           b.state[Other(board.running)] = board.state[Other(board.running)],
           board.state[Other(board.running)] = "valid",
           board.image[Other(board.running)] # None,
           NoteFailure(board.running)
    PROVE  Slots'
  <1> DEFINE r == board.running
             x == Other(board.running)
  <1>1. /\ TypeOK /\ Slots /\ board \in Board /\ r \in Slot /\ x \in Slot /\ x # r /\ Other(x) = r
    BY SlotFacts DEF Inv, Device, TypeOK, Board
  <1> HIDE DEF r
  <1>2. /\ board'.image = board.image /\ ~board'.confirmed
        /\ board'.running = x /\ board'.boot = x
        /\ board'.state[r] = "invalid" /\ board'.state[x] = "valid"
    BY LoadedType DEF SameSlots, r
  <1>3. CASE ~Held
    <2>1. history' = history
      BY <1>3 DEF NoteFailure, Boots, Held
    <2> QED
      BY <1>1, <1>2, <1>3 DEF Slots, Settled, Held, r
  <1>4. CASE Held
    <2> DEFINE s == journal.slot
               o == Other(journal.slot)
    <2>1. /\ journal \in Journal /\ Updating(s, o) /\ s \in Slot /\ o \in Slot /\ o # s
          /\ Other(o) = s /\ Other(s) = o
      BY <1>1, <1>4, SlotFacts DEF Slots, TypeOK, Held, Journal
    <2>2. s' = s /\ o' = o /\ ((r = s /\ x = o) \/ (r = o /\ x = s))
      BY <1>1, <2>1, SlotFacts DEF r
    <2>3. engine'.recovering
      BY <1>4, BootedState
    <2> HIDE DEF s, o, x
    <2>4. ~Chosen(s, o)
      BY DEF Chosen
    <2>5. CASE ~Marked("selected")
      <3>1. NotSelected(s, o) /\ ~Marked("failed")
        BY <2>1, <2>5 DEF Updating
      <3>2. r = o /\ x = s
        BY <2>1, <2>2, <3>1 DEF NotSelected, r, x
      <3>3. history' = history
        BY <2>1, <3>2 DEF NoteFailure, Boots, r, s
      <3>4. NotSelected(s, o)' /\ ~Marked("failed")'
        BY <1>2, <2>2, <3>1, <3>2, <3>3 DEF NotSelected, Marked, x, r
      <3>5. ~Marked("proved")
        BY <2>1, <3>2 DEF Updating, r, x
      <3> QED
        BY <1>2, <1>4, <2>5, <3>2, <3>3, <3>4, <3>5, BootedSlots DEF s, o
    <2>6. CASE Marked("selected")
      <3>1. Tried(s)
        BY <2>1, <2>2, <2>4, <2>6 DEF Updating, Returned, r, x
      <3>2. r = s /\ x = o /\ board.image[s] = Target
        BY <2>1, <2>2, <2>6, <3>1 DEF Tried, Updating, r
      <3>3. Mark(journal.job, "failed")
        BY <1>4, <3>2 DEF NoteFailure, Boots, Held, r, s
      <3>4. Marked("failed")'
        BY <1>1, <2>1, <3>3 DEF Marked, Mark, TypeOK, Journal
      <3>5. Returned(s, o)'
        BY <1>2, <2>2, <2>3, <3>2, <3>4 DEF Returned
      <3> QED
        BY <1>2, <1>4, <2>6, <3>2, <3>3, <3>5, BootedSlots DEF s, o
    <2> QED
      BY <2>5, <2>6
  <1> QED
    BY <1>3, <1>4

\* The startup check confirms the running image, and so the target it may be.
LEMMA ConfirmSlots ==
    ASSUME Inv, StartupConfirmed
    PROVE  Slots'
  <1>1. /\ TypeOK /\ Slots /\ board \in Board /\ board.running \in Slot
        /\ journal' = journal /\ engine' = engine /\ ~board.confirmed
        /\ history \in [JobId -> SUBSET {"selected", "proved", "failed"}]
        /\ board.state \in [Slot -> SlotStates]
    BY DEF Inv, Device, TypeOK, Board, StartupConfirmed
  <1>2. /\ board'.image = board.image /\ board'.running = board.running
        /\ board'.boot = board.boot
        /\ board'.state = [board.state EXCEPT ![board.running] = "valid"]
    BY <1>1, ConfirmedType DEF StartupConfirmed
  <1>3. /\ board'.state[board.running] = "valid"
        /\ \A x \in Slot : x # board.running => board'.state[x] = board.state[x]
    BY <1>1, <1>2
  <1>4. CASE ~Held
    <2>1. Other(board.running) \in Slot /\ Other(board.running) # board.running
      BY <1>1, SlotFacts
    <2> QED
      BY <1>1, <1>2, <1>3, <1>4, <2>1 DEF Slots, Settled, Held
  <1>5. CASE Held
    <2> DEFINE s == journal.slot
               o == Other(journal.slot)
    <2>1. /\ journal \in Journal /\ Updating(s, o) /\ s \in Slot /\ o \in Slot /\ o # s
          /\ journal.job \in JobId
      BY <1>1, <1>5, SlotFacts DEF Slots, TypeOK, Held, Journal
    <2>2. /\ s' = s /\ o' = o /\ Target' = Target /\ Held'
          /\ board.running = s \/ board.running = o
      BY <1>1, <1>5, <2>1, SlotFacts DEF Target, Held
    <2>3. /\ Marked("selected")' <=> Marked("selected")
          /\ Marked("failed")' <=> Marked("failed")
          /\ Marked("proved")' <=> \/ Marked("proved")
                                   \/ board.running = s /\ board.image[s] = Target
      BY <1>1, <1>5, <2>1 DEF StartupConfirmed, Boots, Mark, Marked, Held
    <2> HIDE DEF s, o
    <2>4. ~Chosen(s, o)
      BY <1>1 DEF Chosen
    <2>5. /\ NotSelected(s, o) => NotSelected(s, o)'
          /\ Tried(s) => Tried(s)'
          /\ Returned(s, o) => Returned(s, o)'
      BY <1>1, <1>2, <1>3, <2>1, <2>2, <2>3 DEF NotSelected, Tried, Returned
    <2>6. (Selecting' <=> Selecting) /\ engine'.pc = engine.pc
      BY <1>1 DEF Selecting
    <2>7. Updating(s, o)'
      <3>1. /\ (board.running = s \/ Marked("proved") => engine.recovering \/ engine.pc = "stopped")'
            /\ (Selecting => board.image[s] = Target)'
            /\ (journal.committed \/ engine.pc \in {"commit", "restart"} => Marked("selected"))'
            /\ (board.running = s /\ board.confirmed /\ board.image[s] = Target => Marked("proved"))'
        BY <1>1, <1>2, <2>1, <2>2, <2>3, <2>6 DEF Updating
      <3>2. /\ (Marked("failed") => Marked("selected") /\ Returned(s, o))'
            /\ (~Marked("selected") => NotSelected(s, o))'
            /\ (Marked("selected") => /\ board.image[s] = Target
                                      /\ Chosen(s, o) \/ Tried(s) \/ Returned(s, o))'
        BY <1>2, <2>1, <2>2, <2>3, <2>4, <2>5 DEF Updating
      <3>3. /\ (board.image[o] = journal.previous)' /\ (journal.previous # Target)'
            /\ (board.state[o] \in {"valid", "invalid"})'
        BY <1>1, <1>2, <1>3, <2>1, <2>2 DEF Updating
      <3>4. (Marked("proved") =>
               /\ board.image[s] = Target
               /\ \/ board.running = s /\ board.state[s] = "valid"
                  \/ board.running = o /\ board.state[s] = "invalid")'
        BY <1>1, <1>2, <1>3, <2>1, <2>2, <2>3 DEF Updating
      <3> QED
        BY <3>1, <3>2, <3>3, <3>4 DEF Updating
    <2> QED
      BY <1>1, <1>2, <1>3, <2>2, <2>7 DEF Slots, s, o
  <1> QED
    BY <1>4, <1>5

\* A failed startup check, whether or not the other image can be booted.
LEMMA FailSlots ==
    ASSUME Inv, StartupFailed
    PROVE  Slots' /\ board' \in Board
  <1>1. /\ TypeOK /\ board \in Board /\ board.running \in Slot /\ faults \in 0..MaxFaults
        /\ board.state \in [Slot -> SlotStates]
        /\ board.state[board.running] \in SlotStates
        /\ Other(board.running) \in Slot /\ Other(board.running) # board.running
    BY SlotFacts DEF Inv, Device, TypeOK, Board
  <1>2. journal' = journal /\ ~board.confirmed
    BY DEF StartupFailed
  <1> DEFINE st(v) == [board.state EXCEPT ![board.running] = v]
             x      == Other(board.running)
             ended  == CutShort(board)
             marked == [ended EXCEPT !.state = st("valid")]
             back   == [ended EXCEPT !.boot = x, !.state = st("invalid")]
  <1>3. /\ st("valid") \in [Slot -> SlotStates] /\ st("invalid") \in [Slot -> SlotStates]
        /\ st("valid")[board.running] = "valid" /\ st("valid")[x] = board.state[x]
        /\ st("invalid")[board.running] = "invalid" /\ st("invalid")[x] = board.state[x]
    BY <1>1 DEF SlotStates
  <1>0. ended \in Board /\ ended.image = board.image /\ ended.boot = board.boot
        /\ ended.state = board.state
    BY <1>1, CutType DEF SameSlots
  <1>4. \/ /\ Start(back, Fault) /\ NoteFailure(board.running)
           /\ board.state[x] = "valid" /\ board.image[x] # None
        \/ Reboot(ended, Fault)
        \/ Reboot(marked, Fault)
    <2>1. ended.state = board.state
      BY <1>0
    <2> HIDE DEF ended
    <2> QED
      BY <2>1 DEF StartupFailed, ended
  <1> HIDE DEF st, x, ended
  <1>5. /\ marked \in Board /\ marked.image = board.image /\ marked.boot = board.boot
        /\ marked.state = st("valid")
    BY <1>0, <1>1, <1>3 DEF Board
  <1>6. /\ back \in Board /\ back.image = board.image /\ back.boot = x
        /\ back.state = st("invalid")
    BY <1>0, <1>1, <1>3 DEF Board, x
  <1> HIDE DEF marked, back
  <1>7. CASE /\ Start(back, Fault) /\ NoteFailure(board.running)
             /\ board.state[x] = "valid" /\ board.image[x] # None
    <2>1. /\ board' \in Board /\ SameSlots(Loaded(back), board') /\ engine' = BootedEngine
      BY <1>1, <1>6, <1>7, StartEffect
    <2> QED
      BY <1>2, <1>3, <1>6, <1>7, <2>1, LeaveSlots DEF x
  <1>8. CASE Reboot(ended, Fault)
    <2>1. /\ board' \in Board /\ SameSlots(Loaded(ended), board') /\ engine' = BootedEngine
      BY <1>0, <1>1, <1>8, StartEffect DEF Reboot
    <2>2. IF ended.state[ended.boot] = "pending" THEN NoteFailure(ended.boot)
                                                 ELSE history' = history
      BY <1>8 DEF Reboot
    <2> QED
      BY <1>0, <1>1, <1>2, <2>1, <2>2, RebootSlots
  <1>9. CASE Reboot(marked, Fault)
    <2>1. /\ board' \in Board /\ SameSlots(Loaded(marked), board') /\ engine' = BootedEngine
      BY <1>1, <1>5, <1>9, StartEffect DEF Reboot
    <2>2. IF marked.state[marked.boot] = "pending" THEN NoteFailure(marked.boot)
                                                   ELSE history' = history
      BY <1>9 DEF Reboot
    <2> QED
      BY <1>2, <1>3, <1>5, <2>1, <2>2, RebootSlots DEF x
  <1> QED
    BY <1>4, <1>7, <1>8, <1>9

\* The other ways a board starts.
LEMMA StartSlots ==
    ASSUME Inv, Restart \/ PowerLoss \/ LocalRetry
    PROVE  Slots' /\ board' \in Board
  <1>1. TypeOK /\ board \in Board /\ faults \in 0..MaxFaults /\ journal' = journal
    BY DEF Inv, Device, TypeOK, Restart, PowerLoss, LocalRetry
  <1> DEFINE fresh == [board EXCEPT !.boots = 0, !.failed = 0]
             ended == CutShort(board)
  <1>2. Reboot(board, Fine) \/ Reboot(ended, Fault) \/ Reboot(fresh, Fine)
    BY DEF Restart, PowerLoss, LocalRetry
  <1>3. /\ fresh \in Board /\ fresh.image = board.image /\ fresh.boot = board.boot
        /\ fresh.state = board.state
        /\ ended \in Board /\ ended.image = board.image /\ ended.boot = board.boot
        /\ ended.state = board.state
    BY <1>1, RetryType, CutType DEF SameSlots
  <1> HIDE DEF fresh, ended
  <1>4. ASSUME NEW b \in {board, ended, fresh}, Reboot(b, Fine) \/ Reboot(b, Fault)
        PROVE  Slots' /\ board' \in Board
    <2>1. /\ b \in Board /\ b.image = board.image /\ b.boot = board.boot
          /\ b.state = board.state
      BY <1>1, <1>3
    <2>2. /\ board' \in Board /\ SameSlots(Loaded(b), board') /\ engine' = BootedEngine
      BY <1>1, <1>4, <2>1, StartEffect DEF Reboot
    <2>3. IF b.state[b.boot] = "pending" THEN NoteFailure(b.boot) ELSE history' = history
      BY <1>4 DEF Reboot
    <2> QED
      BY <1>1, <2>1, <2>2, <2>3, RebootSlots
  <1> QED
    BY <1>2, <1>4

\* Only an outcome, a reconciliation or an adoption changes which update is
\* journaled.
LEMMA TickKeepsJournal ==
    ASSUME Inv,
           \/ Resume \/ ApproveStart \/ BeginDownload \/ Stream \/ AfterDownload
           \/ VerifyTarget \/ SelectTarget \/ CommitSelection
    PROVE  Held /\ journal' # None
  <1>1. Held /\ journal \in Journal
    BY DEF Inv, Device, TypeOK, Control, Working, Resume, ApproveStart, BeginDownload, Stream,
           AfterDownload, VerifyTarget, SelectTarget, CommitSelection, At, Held
  <1>2. ASSUME Journaling
        PROVE  journal' # None
    <2>1. PICK e \in Engines, state \in ReportStates, bytes \in 0..Size, error \in ErrorCode,
               then \in Steps : SubmitEffect(e, state, bytes, error, then)
      BY <1>2, JournalingEffect DEF Inv, Device
    <2> QED
      BY <1>1, <2>1, EntryType, JournalAssumption DEF SubmitEffect, Held, Inv, Device
  <1>3. CASE CommitSelection
    <2>1. [journal EXCEPT !.committed = TRUE] \in Journal
      BY <1>1 DEF Journal
    <2> QED
      BY <1>1, <1>3, <2>1, JournalAssumption DEF CommitSelection, Save, SaveAt, Held
  <1>4. journal' = journal => journal' # None
    BY <1>1 DEF Held
  <1> QED
    BY <1>1, <1>2, <1>3, <1>4, ApproveStep, StreamStep, AfterDownloadStep, VerifyStep, SelectStep
    DEF Resume, BeginDownload, Proceed

\* The slots, otadata and the marks agree after every step.
LEMMA SlotsStep ==
    ASSUME Inv, [Next]_vars
    PROVE  Slots' /\ board' \in Board
  <1>1. TypeOK /\ Slots /\ Control /\ board \in Board /\ engine \in Engine
    BY DEF Inv, Device, TypeOK
  <1>2. CASE StartupFailed \/ Restart \/ PowerLoss \/ LocalRetry
    BY <1>2, FailSlots, StartSlots
  <1>3. CASE StartupConfirmed
    BY <1>1, <1>3, ConfirmSlots, ConfirmedType DEF StartupConfirmed
  <1>4. CASE Poll
    BY <1>1, <1>4, PollSlots DEF Poll
  <1>5. ASSUME board' = board, ~Held, journal' = journal
        PROVE  Slots' /\ board' \in Board
    BY <1>1, <1>5 DEF Slots, Settled, Held
  <1>6. ASSUME board' = board, Onward
        PROVE  Slots' /\ board' \in Board
    BY <1>1, <1>6, OnwardSlots
  <1>7. CASE HeartbeatRefused \/ LateReport \/ Elsewhere \/ Identify \/ CancelPressed
             \/ UNCHANGED vars
    <2>1. /\ journal' = journal /\ board' = board /\ history' = history
          /\ engine'.pc = engine.pc /\ engine'.then = engine.then
          /\ engine'.recovering = engine.recovering
      BY <1>1, <1>7
      DEF HeartbeatRefused, LateReport, Elsewhere, Identify, CancelPressed, Engine, vars,
          deviceVars
    <2>2. CASE Held
      BY <1>6, <2>1, <2>2, MoveOnward DEF Selecting
    <2> QED
      BY <1>5, <2>1, <2>2
  <1>8. CASE FlushAnswered \/ FlushLost
    BY <1>6, <1>8, FlushOnward DEF FlushAnswered, FlushLost
  <1>9. CASE Reconcile \/ Dispatch
    <2>1. board' = board /\ history' = history /\ Held /\ engine.pc \in {"status", "dispatch"}
      BY <1>1, <1>9 DEF Reconcile, Dispatch, Control, At
    <2> QED
      BY <1>1, <1>6, <1>9, <2>1, ReconcileOnward, TickOnward, ForgetSlots
  <1>10. ASSUME Held, board' = board, history' = history, journal' # None,
                \/ Resume \/ ApproveStart \/ BeginDownload \/ Stream \/ AfterDownload
                \/ VerifyTarget \/ CommitSelection
         PROVE  Slots' /\ board' \in Board
    BY <1>6, <1>10, TickOnward
  <1>11. CASE Resume \/ ApproveStart \/ AfterDownload \/ VerifyTarget \/ CommitSelection
    <2>1. Held /\ board' = board /\ history' = history
      BY <1>1, <1>11
      DEF Resume, ApproveStart, AfterDownload, VerifyTarget, CommitSelection, Approve, Control,
          Working, At, Held
    <2>2. CASE journal' = None
      BY <1>11, <2>2, TickKeepsJournal, <2>1
    <2> QED
      BY <1>10, <1>11, <2>1, <2>2
  <1>12. CASE BeginDownload \/ Stream
    <2>1. /\ engine.pc \in {"download", "stream"} /\ history' = history /\ Held
          /\ journal \in Journal
      BY <1>1, <1>12, Writing DEF BeginDownload, Stream, At
    <2>2. CASE \/ \E kept \in BOOLEAN : board' = Erased(kept) /\ BeginDownload
                                        /\ engine' = Goto("stream")
               \/ /\ board' = [board EXCEPT !.image[journal.slot] = Target] /\ Stream
                  /\ engine' = Abort("") /\ journal' = journal
      <3>1. engine'.pc \in {"stream", "downloaded"} /\ journal' = journal
        BY <1>1, <2>2 DEF BeginDownload, Goto, Abort, Engine
      <3> QED
        BY <1>1, <2>1, <2>2, <3>1, WriteSlots, WrittenType
    <2>3. CASE board' = board
      BY <1>10, <1>12, <2>1, <2>3, TickKeepsJournal
    <2> QED
      BY <1>12, <2>2, <2>3 DEF BeginDownload, Stream
  <1>13. CASE SelectTarget
    <2>1. engine.pc = "select" /\ Held /\ journal \in Journal
      BY <1>1, <1>13, Writing DEF SelectTarget, At
    <2>2. CASE Journaling /\ UNCHANGED <<board, history>>
      BY <1>6, <2>1, <2>2, JournalingOnward
    <2>3. CASE /\ journal' = journal /\ engine' \in {Goto("commit"), Goto("stopped")}
               /\ board' = Selected(board) /\ Mark(journal.job, "selected")
      BY <1>1, <1>13, <2>1, <2>3, SelectSlots, SelectedType
    <2>4. CASE journal' = journal /\ engine' = Goto("stopped") /\ UNCHANGED <<board, history>>
      <3>1. engine'.pc = "stopped" /\ engine'.recovering = engine.recovering
        BY <1>1, <2>4 DEF Goto, Engine
      <3> QED
        BY <1>6, <2>1, <2>4, <3>1, MoveOnward DEF Selecting
    <2> QED
      BY <1>13, <2>2, <2>3, <2>4, SelectStep
  <1> QED
    BY <1>2, <1>3, <1>4, <1>7, <1>8, <1>9, <1>11, <1>12, <1>13 DEF Next, TickStep, BoardStep

----------------------------------------------------------------------------
(* Types.                                                                  *)

LEMMA PlatformSteps ==
    ASSUME Inv, [Next]_vars
    PROVE  [ServiceStep]_serviceVars
  <1>1. CASE Next
    BY <1>1, PlatformStep DEF Inv, Device
  <1>2. CASE UNCHANGED vars
    BY <1>2 DEF vars
  <1> QED
    BY <1>1, <1>2

\* The marks only grow, and only those of the update in the journal.
LEMMA HistoryStep ==
    ASSUME Inv, [Next]_vars
    PROVE  \/ history' = history
           \/ /\ Held /\ journal' = journal /\ late' = late /\ jobs' = jobs /\ firmware' = firmware
              /\ \/ SelectTarget /\ Mark(journal.job, "selected")
                 \/ BoardStep /\ Mark(journal.job, "failed")
                 \/ StartupConfirmed /\ Mark(journal.job, "proved") /\ Boots(board.running)
  <1>1. ASSUME NEW s, NoteFailure(s)
        PROVE  history' = history \/ (Held /\ Mark(journal.job, "failed"))
    BY <1>1 DEF NoteFailure, Boots, Held
  <1>2. ASSUME NEW b, Reboot(b, Fine) \/ Reboot(b, Fault)
        PROVE  history' = history \/ (Held /\ Mark(journal.job, "failed"))
    BY <1>1, <1>2 DEF Reboot
  <1>3. CASE Restart \/ PowerLoss \/ LocalRetry \/ StartupFailed
    <2>1. journal' = journal /\ late' = late /\ jobs' = jobs /\ firmware' = firmware
      BY <1>3 DEF Restart, PowerLoss, LocalRetry, StartupFailed, serviceVars
    <2>2. history' = history \/ (Held /\ Mark(journal.job, "failed"))
      <3>1. CASE Restart \/ PowerLoss \/ LocalRetry
        BY <1>2, <3>1 DEF Restart, PowerLoss, LocalRetry
      <3>2. CASE StartupFailed
        BY <1>1, <1>2, <3>2 DEF StartupFailed
      <3> QED
        BY <1>3, <3>1, <3>2
    <2> QED
      BY <1>3, <2>1, <2>2 DEF BoardStep
  <1>4. CASE StartupConfirmed
    BY <1>4 DEF StartupConfirmed, Boots, Held, serviceVars
  <1>5. CASE SelectTarget
    <2>1. Held
      BY <1>5, TickKeepsJournal
    <2>2. \/ journal' = journal /\ Mark(journal.job, "selected")
          \/ history' = history
      BY <1>5, SelectStep
    <2>3. late' = late /\ jobs' = jobs /\ firmware' = firmware
      BY <1>5 DEF SelectTarget, serviceVars
    <2> QED
      BY <1>5, <2>1, <2>2, <2>3
  <1>6. CASE \/ Poll \/ Resume \/ HeartbeatRefused \/ FlushAnswered \/ FlushLost \/ Reconcile
             \/ Dispatch \/ ApproveStart \/ BeginDownload \/ Stream \/ AfterDownload
             \/ VerifyTarget \/ CommitSelection \/ Identify \/ CancelPressed \/ LateReport
             \/ Elsewhere \/ UNCHANGED vars
    BY <1>6
    DEF Poll, Resume, HeartbeatRefused, FlushAnswered, FlushLost, Reconcile, Dispatch,
        ApproveStart, BeginDownload, Stream, AfterDownload, VerifyTarget, Approve,
        CommitSelection, Identify, CancelPressed, LateReport, Elsewhere, vars, deviceVars
  <1> QED
    BY <1>3, <1>4, <1>5, <1>6 DEF Next, TickStep, BoardStep

\* A delayed report is the pending one.
LEMMA LateStep ==
    ASSUME [Next]_vars, NEW m \in late', m \notin late
    PROVE  /\ FlushLost /\ jobs' = jobs /\ firmware' = firmware
           /\ m = [job |-> journal.job, report |-> PendingReport]
  <1>1. \/ late' \subseteq late
        \/ FlushLost /\ UNCHANGED serviceVars
           /\ late' = late \cup {[job |-> journal.job, report |-> PendingReport]}
    <2>1. CASE FlushLost \/ LateReport
      BY <2>1 DEF FlushLost, LateReport
    <2>2. CASE ~(FlushLost \/ LateReport)
      BY <2>2
      DEF Next, TickStep, BoardStep, Poll, Resume, HeartbeatRefused, FlushAnswered, Reconcile,
          Dispatch, ApproveStart, BeginDownload, Stream, AfterDownload, VerifyTarget, Approve,
          SelectTarget, CommitSelection, Identify, CancelPressed, Elsewhere, Restart, PowerLoss,
          StartupConfirmed, StartupFailed, LocalRetry, vars, deviceVars
    <2> QED
      BY <2>1, <2>2
  <1> QED
    BY <1>1 DEF serviceVars

\* Only a finished update moves the floor.
LEMMA FloorStep ==
    ASSUME Inv, [Next]_vars
    PROVE  \/ floor' = floor
           \/ /\ Held /\ ~journal.pending /\ journal.state = "confirmed"
              /\ engine.pc = "dispatch" /\ jobs' = jobs /\ firmware' = firmware
              /\ floor' = Sequence[journal.release]
  <1>1. CASE Dispatch
    <2>1. Held /\ ~journal.pending /\ engine.pc = "dispatch" /\ jobs' = jobs
          /\ firmware' = firmware
      BY <1>1 DEF Dispatch, At, Inv, Device, Control, serviceVars
    <2> QED
      BY <1>1, <2>1 DEF Dispatch, Finish, NewFloor, Resolve, GiveUp, Advance
  <1>2. CASE ~Dispatch
    BY <1>2
    DEF Next, TickStep, BoardStep, Poll, Resume, HeartbeatRefused, FlushAnswered, FlushLost,
        LateReport, Reconcile, ApproveStart, BeginDownload, Stream, AfterDownload, VerifyTarget,
        Approve, SelectTarget, CommitSelection, Identify, CancelPressed, Elsewhere, Restart,
        PowerLoss, StartupConfirmed, StartupFailed, LocalRetry, vars, deviceVars
  <1> QED
    BY <1>1, <1>2

LEMMA TypeStep ==
    ASSUME Inv, [Next]_vars
    PROVE  TypeOK'
  <1>1. TypeOK
    BY DEF Inv, Device
  <1>2. ServiceTypeOK'
    BY <1>1, PlatformSteps, NextType DEF TypeOK
  <1>3. journal' \in Journal \cup {None} /\ engine' \in Engine
    BY ClientStep
  <1>4. board' \in Board /\ faults' \in 0..MaxFaults
    BY SlotsStep, CounterStep
  <1>5. floor' \in Nat
    <2>1. Held => Sequence[journal.release] \in Nat
      BY <1>1, ReleaseAssumption DEF TypeOK, Held, Journal
    <2> QED
      BY <1>1, <2>1, FloorStep DEF TypeOK
  <1>6. paired' \in BOOLEAN
    <2>1. paired' \in {paired, FALSE}
      BY DEF Next, TickStep, BoardStep, Poll, Resume, HeartbeatRefused, FlushAnswered, FlushLost,
             LateReport, Reconcile, Dispatch, ApproveStart, BeginDownload, Stream, AfterDownload,
             VerifyTarget, Approve, SelectTarget, CommitSelection, Identify, CancelPressed,
             Elsewhere, Restart, PowerLoss, StartupConfirmed, StartupFailed, LocalRetry, vars,
             deviceVars
    <2> QED
      BY <1>1, <2>1 DEF TypeOK
  <1>7. late' \subseteq [job: JobId, report: Report]
    <2> SUFFICES ASSUME NEW m \in late', m \notin late
                 PROVE  m \in [job: JobId, report: Report]
      BY <1>1 DEF TypeOK
    <2>1. FlushLost /\ m = [job |-> journal.job, report |-> PendingReport]
      BY LateStep
    <2>2. Held /\ journal.pending /\ Control
      BY <2>1 DEF FlushLost, At, Inv, Device, Control
    <2> QED
      BY <1>1, <2>1, <2>2, PendingIsReport
  <1>8. history' \in [JobId -> SUBSET {"selected", "proved", "failed"}]
    <2>1. Held => journal.job \in JobId
      BY <1>1 DEF TypeOK, Held, Journal
    <2>2. history' = history \/ (Held /\ \E what \in {"selected", "proved", "failed"} :
                                           Mark(journal.job, what))
      BY HistoryStep
    <2> QED
      BY <1>1, <2>1, <2>2 DEF TypeOK, Mark
  <1> QED
    BY <1>2, <1>3, <1>4, <1>5, <1>6, <1>7, <1>8 DEF TypeOK

LEMMA DeviceStep == Inv /\ [Next]_vars => Device'
  BY TypeStep, ClientStep, SlotsStep, CounterStep DEF Device

----------------------------------------------------------------------------
(* What the service does to its rows.                                      *)

\* Every step of the service but a report.
QuietNext ==
    \/ OwnerNext
    \/ PlatformNext
    \/ \E h \in Image : PollUpdate(h) \/ ReportIdentity(h)
    \/ \E j \in JobId : QueryStatus(j)

\* Row b is row a, cancelled perhaps if it was still queued.
Calm(a, b) ==
    /\ SameUpdate(a, b)
    /\ a.sequence = b.sequence /\ a.bytes = b.bytes /\ a.last = b.last
    /\ b.state # a.state => a.state = "queued" /\ b.state = "cancelled"

Fresh(row) ==
    row.state = "queued" /\ row.sequence = 0 /\ row.bytes = 0 /\ row.last = None

LEMMA CalmRow ==
    ASSUME ServiceTypeOK, NEW j \in JobId
    PROVE  /\ Calm(jobs[j], jobs[j]) /\ Calm(jobs[j], ExpireQueued(j))
           /\ Active(j) => Calm(jobs[j], Flagged(j))
           /\ Active(j) => Calm(jobs[j], [jobs[j] EXCEPT !.expired = TRUE])
           /\ jobs[j].state = "queued" =>
                 /\ Calm(jobs[j], [jobs[j] EXCEPT !.state = "cancelled",
                                                  !.error = "owner_cancelled"])
                 /\ Calm(jobs[j], [jobs[j] EXCEPT !.state = "cancelled",
                                                  !.error = "approval_unavailable"])
  <1>1. Calm(jobs[j], jobs[j])
    BY DEF Calm, SameUpdate
  <1>2. ASSUME jobs[j].state = "queued"
        PROVE  /\ Calm(jobs[j], [jobs[j] EXCEPT !.state = "cancelled",
                                                !.error = "owner_cancelled"])
               /\ Calm(jobs[j], [jobs[j] EXCEPT !.state = "cancelled",
                                                !.error = "approval_unavailable"])
    <2>1. jobs[j] \in Job
      BY <1>2, RowTypes, UsedRow
    <2> QED
      BY <1>2, <2>1 DEF Calm, SameUpdate, Job
  <1>3. Calm(jobs[j], ExpireQueued(j))
    BY <1>1, <1>2 DEF ExpireQueued
  <1>4. ASSUME Active(j)
        PROVE  /\ Calm(jobs[j], Flagged(j))
               /\ Calm(jobs[j], [jobs[j] EXCEPT !.expired = TRUE])
    <2>1. jobs[j] \in Job
      BY <1>4, RowTypes, UsedRow DEF Active, ActiveStates
    <2> QED
      BY <2>1 DEF Calm, SameUpdate, Flagged, Job
  <1> QED
    BY <1>1, <1>2, <1>3, <1>4

\* Without a report a row is calm, or it is a new one.
LEMMA CalmStep ==
    ASSUME ServiceTypeOK, [QuietNext]_serviceVars, NEW j \in JobId
    PROVE  Calm(jobs[j], jobs'[j]) \/ (jobs[j].state = "none" /\ Fresh(jobs'[j]))
  <1> DEFINE Good == Calm(jobs[j], jobs'[j]) \/ (jobs[j].state = "none" /\ Fresh(jobs'[j]))
  <1>1. jobs'[j] \in {jobs[j], ExpireQueued(j)} => Good
    BY CalmRow
  <1>2. ASSUME NEW r \in Release, NEW k \in RequestKey, RequestUpdate(r, k)
        PROVE  Good
    <2>1. PICK n \in JobId :
             /\ jobs[n] = Unused
             /\ jobs'[n] = NewJob(r, k)
             /\ \A i \in JobId : i # n =>
                   jobs'[i] = IF Active(i) THEN ExpireQueued(i) ELSE jobs[i]
      BY <1>2, RequestLeavesOne
    <2>2. CASE j = n
      <3>1. jobs[j].state = "none"
        <4>1. jobs[j] = Unused
          BY <2>1, <2>2
        <4>2. Unused.state = "none"
          BY DEF Unused
        <4> QED
          BY <4>1, <4>2
      <3>2. Fresh(NewJob(r, k))
        BY DEF Fresh, NewJob, Unused
      <3> QED
        BY <2>1, <2>2, <3>1, <3>2
    <2>3. CASE j # n
      BY <1>1, <2>1, <2>3
    <2> QED
      BY <2>2, <2>3
  <1>3. ASSUME NEW r \in Release, NEW k \in RequestKey, RepeatRequest(r, k)
        PROVE  Good
    <2>1. jobs'[j] \in {jobs[j], ExpireQueued(j)}
      BY <1>3 DEF RepeatRequest, ServiceTypeOK
    <2> QED
      BY <1>1, <2>1
  <1>4. ASSUME NEW i \in JobId, CancelUpdate(i)
        PROVE  Good
    <2>1. CASE i = j
      <3>1. jobs'[j] = [jobs[j] EXCEPT !.state = "cancelled", !.error = "owner_cancelled"]
        BY <1>4, <2>1 DEF CancelUpdate, ServiceTypeOK
      <3>2. jobs[j].state = "queued"
        BY <1>4, <2>1 DEF CancelUpdate
      <3> QED
        BY <3>1, <3>2, CalmRow
    <2>2. CASE i # j
      <3>1. jobs'[j] = jobs[j]
        BY <1>4, <2>2 DEF CancelUpdate, ServiceTypeOK
      <3> QED
        BY <1>1, <3>1
    <2> QED
      BY <2>1, <2>2
  <1>5. ASSUME RevokeDevice \/ \E silent \in BOOLEAN : ReconcileDeployments(silent)
        PROVE  Good
    <2>1. CASE ~Active(j)
      <3>1. jobs'[j] = jobs[j]
        BY <1>5, <2>1 DEF RevokeDevice, ReconcileDeployments
      <3> QED
        BY <1>1, <3>1
    <2>2. CASE Active(j)
      <3>1. \/ jobs'[j] \in {jobs[j], ExpireQueued(j), Flagged(j)}
            \/ /\ jobs[j].state = "queued"
               /\ jobs'[j] = [jobs[j] EXCEPT !.state = "cancelled",
                                             !.error = "approval_unavailable"]
        BY <1>5, <2>2 DEF RevokeDevice, ReconcileDeployments
      <3> QED
        BY <2>2, <3>1, CalmRow
    <2> QED
      BY <2>1, <2>2
  <1>6. ASSUME NEW h \in Image, PollUpdate(h)
        PROVE  Good
    <2>1. jobs'[j] \in {jobs[j], ExpireQueued(j)}
      BY <1>6 DEF PollUpdate
    <2> QED
      BY <1>1, <2>1
  <1>7. ASSUME NEW i \in JobId, QueryStatus(i)
        PROVE  Good
    <2>1. jobs'[j] \in {jobs[j], ExpireQueued(j)}
      BY <1>7 DEF QueryStatus, ServiceTypeOK
    <2> QED
      BY <1>1, <2>1
  <1>8. ASSUME NEW i \in JobId, ApprovalExpires(i)
        PROVE  Good
    <2>1. CASE i = j
      <3>1. jobs'[j] = [jobs[j] EXCEPT !.expired = TRUE] /\ Active(j)
        BY <1>8, <2>1 DEF ApprovalExpires, ServiceTypeOK
      <3> QED
        BY <3>1, CalmRow
    <2>2. CASE i # j
      <3>1. jobs'[j] = jobs[j]
        BY <1>8, <2>2 DEF ApprovalExpires, ServiceTypeOK
      <3> QED
        BY <1>1, <3>1
    <2> QED
      BY <2>1, <2>2
  <1>9. CASE jobs' = jobs
    BY <1>1, <1>9
  <1> HIDE DEF Good
  <1> QED
    BY <1>2, <1>3, <1>4, <1>5, <1>6, <1>7, <1>8, <1>9
    DEF QuietNext, OwnerNext, PlatformNext, ReconcileLocalRecovery, ReportIdentity,
        TrustChanges, DeviceChanges, TimePasses, serviceVars, Good

\* An image is recorded without a report only as an initial one or a correction.
LEMMA QuietRecord ==
    ASSUME ServiceTypeOK, [QuietNext]_serviceVars, firmware' # firmware
    PROVE  \/ firmware' # None /\ Corrected' /\ firmware # None
           \/ /\ \E h \in Image : ReportIdentity(h)
              /\ firmware = None
  <1>1. ASSUME NEW r \in Release, ReconcileLocalRecovery(r)
        PROVE  firmware' # None /\ Corrected' /\ firmware # None
    <2>1. firmware' = [release |-> r, app |-> observed, sequence |-> Sequence[r]]
          /\ Purpose[r] = "local-recovery" /\ firmware # None
      BY <1>1 DEF ReconcileLocalRecovery, RecoveryRelease, Verified
    <2>2. firmware' \in Firmware
      BY <1>1, <2>1, ReleaseAssumption DEF ReconcileLocalRecovery, RecoveryRelease, Firmware
    <2> QED
      BY <2>1, <2>2, NoneAssumption DEF Corrected
  <1>2. ASSUME NEW h \in Image, ReportIdentity(h)
        PROVE  firmware = None
    BY <1>2 DEF ReportIdentity, ConfirmInitial, ObserveImage
  <1> QED
    BY <1>1, <1>2
    DEF QuietNext, OwnerNext, PlatformNext, RequestUpdate, RepeatRequest, CancelUpdate,
        RevokeDevice, PollUpdate, QueryStatus, ReconcileDeployments, ApprovalExpires,
        TrustChanges, DeviceChanges, TimePasses, serviceVars

----------------------------------------------------------------------------
(* The kinds of steps, as the rows of the platform and the journal see     *)
(* them: a report is taken into account or none is, and the journal stays, *)
(* is adopted, submitted, acknowledged, adjusted, committed or forgotten.  *)

\* Report r of deployment j is taken into account, the pending or a delayed one.
Receives(j, r) ==
    /\ Active(j)
    /\ r.state \in Transitions[jobs[j].state]
    /\ r.sequence = jobs[j].sequence + 1
    /\ jobs'[j].state = r.state /\ jobs'[j].sequence = r.sequence /\ jobs'[j].last = r
    /\ SameUpdate(jobs[j], jobs'[j])
    /\ \A i \in JobId \ {j} : jobs'[i] = jobs[i]
    /\ firmware' = IF r.state = "confirmed" THEN ConfirmedRow(j) ELSE firmware
    /\ \/ Journaled(j) /\ journal.pending /\ r = PendingReport
       \/ [job |-> j, report |-> r] \in late

Reporting == \E j \in JobId, r \in Report : Receives(j, r)

Keeps ==
    /\ journal' = journal
    /\ Held /\ ~journal.pending /\ engine.interrupted /\ In(ActiveStates) => engine'.interrupted

Adopts ==
    /\ ~Held
    /\ \E j \in Offered : /\ jobs[j].state = "queued" /\ jobs'[j] = jobs[j]
                          /\ journal' = NewJournal(j)

Submits ==
    /\ Held /\ ~journal.pending /\ journal.sequence < MaxSequence
    /\ \E state \in ReportStates, bytes \in 0..Size, error \in ErrorCode :
          /\ ReportFits(state, bytes)
          /\ journal' = Entry(state, bytes, error)

Acked == [journal EXCEPT !.pending = FALSE, !.error = ""]

\* Either the report counts now, or it is the last one that did.
Acks ==
    /\ Held /\ journal.pending
    /\ journal' = Acked
    /\ \/ Receives(journal.job, PendingReport)
       \/ jobs' = jobs /\ JobRow.last = PendingReport

Adjusted(row) == [journal EXCEPT !.state = row.state, !.sequence = row.sequence,
                                 !.bytes = row.bytes, !.pending = FALSE, !.error = ""]

Adjusts ==
    /\ Held /\ journal.pending
    /\ engine'.interrupted
    /\ LET row == jobs'[journal.job]
       IN  /\ row.state \in ActiveStates
           /\ journal.sequence \in {row.sequence, row.sequence + 1}
           /\ journal' = Adjusted(row)

Forgets ==
    /\ Held /\ journal' = None
    /\ \/ ~journal.pending /\ In({"confirmed", "rolled_back", "failed"}) /\ jobs' = jobs
       \/ jobs'[journal.job].state = "cancelled"

Commits ==
    /\ Held /\ ~journal.pending /\ ~engine.interrupted
    /\ journal' = [journal EXCEPT !.committed = TRUE]

\* A report that reaches the platform counts, or it is a repetition.
LEMMA ReceiveStep ==
    ASSUME ServiceTypeOK, NEW j \in JobId, NEW r \in Report, ReportUpdate(j, r),
           \/ Journaled(j) /\ journal.pending /\ r = PendingReport
           \/ [job |-> j, report |-> r] \in late
    PROVE  \/ Receives(j, r)
           \/ UNCHANGED serviceVars /\ jobs[j].last = r
  <1>1. CASE RepeatAccepted(j, r)
    BY <1>1 DEF ReportUpdate, RepeatAccepted, serviceVars
  <1>2. CASE ~RepeatAccepted(j, r)
    <2>1. firmware' = IF r.state = "confirmed" THEN ConfirmedRow(j) ELSE firmware
      BY <1>2 DEF ReportUpdate
    <2> QED
      BY <1>2, <2>1, ReportStep DEF Receives
  <1> QED
    BY <1>1, <1>2

LEMMA JournalingKind ==
    ASSUME Inv, Journaling
    PROVE  Keeps \/ Submits
  <1>1. engine \in Engine /\ Held /\ ~journal.pending
    BY DEF Inv, Device, TypeOK, Journaling
  <1>2. PICK e \in Engines, state \in ReportStates, bytes \in 0..Size, error \in ErrorCode,
             then \in Steps :
          /\ ReturnFits(then, state, bytes)
          /\ ReportFits(state, bytes)
          /\ SubmitEffect(e, state, bytes, error, then)
    BY JournalingEffect DEF Inv, Device
  <1>3. e \in Engine /\ e.interrupted = engine.interrupted
    BY <1>1 DEF Engines, Engine
  <1>4. CASE journal' = journal /\ engine'.interrupted = e.interrupted
    BY <1>1, <1>3, <1>4 DEF Keeps
  <1>5. CASE journal' = Entry(state, bytes, error) /\ journal.sequence < MaxSequence
    BY <1>1, <1>2, <1>5 DEF Submits
  <1>6. \/ journal' = journal /\ engine'.interrupted = e.interrupted
        \/ journal' = Entry(state, bytes, error) /\ journal.sequence < MaxSequence
    BY <1>2, <1>3 DEF SubmitEffect, Engine
  <1> QED
    BY <1>4, <1>5, <1>6

LEMMA FlushKind ==
    ASSUME Inv, FlushAnswered \/ FlushLost
    PROVE  \/ [QuietNext]_serviceVars /\ (Keeps \/ Acks)
           \/ Reporting /\ (Keeps \/ Acks)
  <1>1. /\ Held /\ journal.pending /\ journal.job \in JobId /\ ServiceTypeOK
        /\ PendingReport \in Report /\ Journaled(journal.job)
    BY PendingIsReport DEF Inv, Device, Control, TypeOK, FlushAnswered, FlushLost, At, Journaled
  <1>2. CASE ReportUpdate(journal.job, PendingReport)
    <2>1. \/ Receives(journal.job, PendingReport)
          \/ UNCHANGED serviceVars /\ JobRow.last = PendingReport
      BY <1>1, <1>2, ReceiveStep DEF JobRow
    <2>2. journal' \in {journal, Acked}
      BY DEF FlushAnswered, FlushLost, Save, SaveAt, Acked
    <2>3. Keeps \/ Acks
      BY <1>1, <2>1, <2>2 DEF Keeps, Acks, serviceVars
    <2>4. Reporting \/ [QuietNext]_serviceVars
      BY <1>1, <2>1 DEF Reporting
    <2> QED
      BY <2>3, <2>4
  <1>3. CASE ~ReportUpdate(journal.job, PendingReport)
    <2>1. journal' = journal /\ UNCHANGED serviceVars
      BY <1>3 DEF FlushAnswered, FlushLost
    <2> QED
      BY <1>1, <2>1 DEF Keeps
  <1> QED
    BY <1>2, <1>3

LEMMA LateKind ==
    ASSUME Inv, LateReport
    PROVE  ([QuietNext]_serviceVars \/ Reporting) /\ Keeps
  <1>1. PICK m \in late : IF ReportAccepted(m.job, m.report)
                          THEN ReportUpdate(m.job, m.report)
                          ELSE UNCHANGED serviceVars
    BY DEF LateReport
  <1>2. /\ m.job \in JobId /\ m.report \in Report /\ ServiceTypeOK
        /\ [job |-> m.job, report |-> m.report] \in late
    BY DEF Inv, Device, TypeOK
  <1>3. ReportUpdate(m.job, m.report) => Receives(m.job, m.report) \/ UNCHANGED serviceVars
    BY <1>2, ReceiveStep
  <1>4. Keeps
    BY DEF LateReport, Keeps
  <1> QED
    BY <1>1, <1>2, <1>3, <1>4 DEF Reporting

LEMMA ReconcileKind ==
    ASSUME Inv, Reconcile
    PROVE  [QuietNext]_serviceVars /\ (Keeps \/ Adjusts \/ Forgets)
  <1>1. /\ Held /\ journal.pending /\ journal.job \in JobId /\ ServiceTypeOK
        /\ engine \in Engine
    BY PendingIsReport DEF Inv, Device, Control, TypeOK, Reconcile, At
  <1>2. CASE journal' = journal
    <2>1. [QuietNext]_serviceVars
      BY <1>1 DEF Reconcile, QuietNext
    <2> QED
      BY <1>1, <1>2, <2>1 DEF Keeps
  <1>3. CASE journal' # journal
    <2> DEFINE e   == Unflushed(engine)
               row == ExpireQueued(journal.job)
    <2>1. e \in Engine
      BY <1>1, UnflushedEffect DEF Reconcile, At
    <2>2. QueryStatus(journal.job) /\ Reconciled(row, e)
      BY <1>3 DEF Reconcile
    <2>3. jobs'[journal.job] = row
      BY <1>1, <2>2 DEF QueryStatus, ServiceTypeOK
    <2>4. \/ row.state = "cancelled" /\ journal' = None
          \/ /\ row.state \in ActiveStates
             /\ journal.sequence \in {row.sequence, row.sequence + 1}
             /\ journal' = Adjusted(row)
             /\ engine' \in {[e EXCEPT !.interrupted = TRUE],
                             [[e EXCEPT !.interrupted = TRUE] EXCEPT !.pc = "stopped"]}
      <3> HIDE DEF e, row
      <3> QED
        BY <1>3, <2>2 DEF Reconciled, Save, SaveAt, Adjusted
    <2>5. engine' \in {[e EXCEPT !.interrupted = TRUE],
                       [[e EXCEPT !.interrupted = TRUE] EXCEPT !.pc = "stopped"]}
          => engine'.interrupted
      <3> HIDE DEF e
      <3> QED
        BY <2>1 DEF Engine
    <2> HIDE DEF e, row
    <2>6. Adjusts \/ Forgets
      BY <1>1, <2>3, <2>4, <2>5 DEF Adjusts, Forgets
    <2> QED
      BY <1>1, <2>2, <2>6 DEF QuietNext
  <1> QED
    BY <1>2, <1>3

LEMMA PollKind ==
    ASSUME Inv, Poll
    PROVE  [QuietNext]_serviceVars /\ (Keeps \/ Adopts)
  <1>1. ~Held /\ Authenticated /\ ServePoll
    BY DEF Poll, Held
  <1>2. [QuietNext]_serviceVars
    BY <1>1, RunningIsImage DEF ServePoll, QuietNext, Inv, Device
  <1>3. ASSUME NEW j \in Offered, jobs[j].state = "queued", journal' = NewJournal(j)
        PROVE  Adopts
    <2>1. PollUpdate(Running) /\ Active(j) /\ Authorised(j) /\ j \in JobId
      BY <1>1, <1>3 DEF ServePoll, Offered
    <2>2. ExpireQueued(j) = jobs[j]
      BY <1>1, <2>1 DEF ExpireQueued, Lapsed, Authorised
    <2>3. jobs'[j] = jobs[j]
      BY <2>1, <2>2 DEF PollUpdate
    <2> QED
      BY <1>1, <1>3, <2>3 DEF Adopts
  <1>4. CASE journal' = journal
    BY <1>1, <1>2, <1>4 DEF Keeps
  <1> QED
    BY <1>2, <1>3, <1>4 DEF Poll, Save, SaveAt

LEMMA TickKind ==
    ASSUME Inv,
           \/ Resume \/ Dispatch \/ ApproveStart \/ BeginDownload \/ Stream
           \/ AfterDownload \/ VerifyTarget \/ SelectTarget \/ CommitSelection
    PROVE  [QuietNext]_serviceVars /\ (Keeps \/ Submits \/ Forgets \/ Commits)
  <1>1. [QuietNext]_serviceVars
    BY RunningIsImage
    DEF Resume, Dispatch, ApproveStart, BeginDownload, Stream, AfterDownload, VerifyTarget,
        SelectTarget, CommitSelection, Approve, ServePoll, QuietNext, Inv, Device
  <1>2. engine \in Engine
    BY DEF Inv, Device, TypeOK
  <1>3. Journaling => Keeps \/ Submits
    BY JournalingKind
  <1>4. ASSUME NEW pc, journal' = journal, engine' = Goto(pc)
        PROVE  Keeps
    BY <1>2, <1>4 DEF Keeps, Goto, Engine
  <1>5. ASSUME NEW code, journal' = journal, engine' = Abort(code) \/ engine' = Cancelled
        PROVE  Keeps
    BY <1>2, <1>5 DEF Keeps, Abort, Cancelled, Engine
  <1>6. ASSUME NEW next, journal' = journal,
               engine' = [engine EXCEPT !.pc = "flush", !.then = next]
        PROVE  Keeps
    BY <1>2, <1>6 DEF Keeps, Engine
  <1>7. CASE Resume
    BY <1>4, <1>6, <1>7 DEF Resume
  <1>8. CASE Finish /\ Dispatch
    <2>1. /\ Held /\ ~journal.pending /\ In({"confirmed", "rolled_back", "failed"})
          /\ jobs' = jobs
      BY <1>8 DEF Finish, Dispatch, Inv, Device, Control, At, In, serviceVars
    <2>2. ~In(ActiveStates)
      BY <2>1 DEF In, ActiveStates
    <2>3. journal' \in {journal, None}
      BY <1>8 DEF Finish, Save, SaveAt
    <2> QED
      BY <1>1, <2>1, <2>2, <2>3 DEF Keeps, Forgets
  <1>9. CASE Dispatch /\ ~Finish
    BY <1>1, <1>3, <1>4, <1>9, DispatchStep
  <1>10. CASE ApproveStart
    BY <1>1, <1>3, <1>4, <1>10, ApproveStep DEF Proceed
  <1>11. CASE BeginDownload
    BY <1>1, <1>4, <1>5, <1>11 DEF BeginDownload
  <1>12. CASE Stream
    BY <1>1, <1>3, <1>5, <1>12, StreamStep
  <1>13. CASE AfterDownload
    BY <1>1, <1>3, <1>6, <1>13, AfterDownloadStep
  <1>14. CASE VerifyTarget
    BY <1>1, <1>3, <1>4, <1>14, VerifyStep
  <1>15. CASE SelectTarget
    BY <1>1, <1>3, <1>4, <1>15, SelectStep
  <1>16. CASE CommitSelection
    <2>1. Held /\ ~journal.pending /\ ~engine.interrupted
      BY <1>16 DEF CommitSelection, Inv, Device, Control, Working, At
    <2> QED
      BY <1>1, <1>16, <2>1 DEF CommitSelection, Save, SaveAt, Keeps, Commits
  <1> QED
    BY <1>1, <1>7, <1>8, <1>9, <1>10, <1>11, <1>12, <1>13, <1>14, <1>15, <1>16

LEMMA StepKinds ==
    ASSUME Inv, [Next]_vars
    PROVE  \/ /\ [QuietNext]_serviceVars
              /\ Keeps \/ Adopts \/ Submits \/ Acks \/ Adjusts \/ Forgets \/ Commits
           \/ Reporting /\ (Keeps \/ Acks)
  <1>1. engine \in Engine
    BY DEF Inv, Device, TypeOK
  <1>2. ASSUME NEW b, Start(b, Fine) \/ Start(b, Fault), journal' = journal
        PROVE  Keeps
    <2>1. engine' = BootedEngine
      BY <1>2 DEF Start
    <2> QED
      BY <1>2, <2>1 DEF BootedEngine, Idle, Keeps, Held
  <1>3. CASE BoardStep
    <2>1. UNCHANGED serviceVars /\ journal' = journal
      BY <1>3 DEF BoardStep, Restart, PowerLoss, StartupConfirmed, StartupFailed, LocalRetry,
                  CancelPressed
    <2>2. CASE StartupConfirmed \/ CancelPressed
      BY <1>1, <2>1, <2>2 DEF StartupConfirmed, CancelPressed, Keeps, Engine
    <2>3. CASE Restart \/ PowerLoss \/ LocalRetry
      BY <1>2, <2>1, <2>3 DEF Restart, PowerLoss, LocalRetry, Reboot
    <2>4. CASE StartupFailed
      BY <1>2, <2>1, <2>4 DEF StartupFailed, Reboot
    <2> QED
      BY <1>3, <2>1, <2>2, <2>3, <2>4 DEF BoardStep
  <1>4. CASE Identify
    <2>1. Running \in Image
      BY RunningIsImage DEF Inv, Device
    <2>2. [QuietNext]_serviceVars /\ journal' = journal
      BY <1>4, <2>1 DEF Identify, QuietNext
    <2>3. engine'.interrupted = engine.interrupted
      BY <1>1, <1>4 DEF Identify, Engine
    <2> QED
      BY <2>2, <2>3 DEF Keeps
  <1>5. CASE Elsewhere
    <2>1. [QuietNext]_serviceVars
      BY <1>5 DEF Elsewhere, Undisturbed, Disturbed, QuietNext, OwnerNext, PlatformNext
    <2> QED
      BY <1>5, <2>1 DEF Elsewhere, deviceVars, Keeps
  <1>6. CASE HeartbeatRefused \/ UNCHANGED vars
    BY <1>6 DEF HeartbeatRefused, vars, deviceVars, Keeps
  <1> QED
    BY <1>3, <1>4, <1>5, <1>6, FlushKind, LateKind, ReconcileKind, PollKind, TickKind
    DEF Next, TickStep

----------------------------------------------------------------------------
(* The rows.                                                               *)

Calmly == \A j \in JobId :
    Calm(jobs[j], jobs'[j]) \/ (jobs[j].state = "none" /\ Fresh(jobs'[j]))

LEMMA Rowwise ==
    ASSUME Inv, [Next]_vars
    PROVE  \/ /\ [QuietNext]_serviceVars /\ Calmly
              /\ Keeps \/ Adopts \/ Submits \/ Acks \/ Adjusts \/ Forgets \/ Commits
           \/ Reporting /\ (Keeps \/ Acks)
  <1>1. ServiceTypeOK
    BY DEF Inv, Device, TypeOK
  <1>2. [QuietNext]_serviceVars => Calmly
    BY <1>1, CalmStep DEF Calmly
  <1> QED
    BY <1>2, StepKinds

\* The rest of the invariant in one place.
LEMMA Known ==
    ASSUME Inv
    PROVE  /\ TypeOK /\ ServiceTypeOK /\ Control /\ Exclusive
           /\ InStep /\ LateFits /\ Untouched /\ Rows /\ Evidence /\ RecordFits
           /\ BoardMatchesRecord
           /\ Held => /\ journal \in Journal /\ journal.job \in JobId
                      /\ journal.sequence \in 0..MaxSequence
                      /\ JobRow \in Job /\ JobRow.sequence \in 0..MaxSequence
           /\ \A j \in JobId : jobs[j].state # "none" => jobs[j] \in Job
           /\ \A m \in late : /\ m.job \in JobId /\ m.report \in Report
                              /\ m.report.sequence \in 1..MaxSequence
  <1>1. /\ TypeOK /\ ServiceTypeOK /\ Control /\ Exclusive
        /\ InStep /\ LateFits /\ Untouched /\ Rows /\ Evidence /\ RecordFits
        /\ BoardMatchesRecord
    BY DEF Inv, Device, Tracking, Recorded, TypeOK
  <1>2. ASSUME NEW j \in JobId, jobs[j].state # "none"
        PROVE  jobs[j] \in Job
    BY <1>1, <1>2, RowTypes, UsedRow
  <1>3. ASSUME Held
        PROVE  /\ journal \in Journal /\ journal.job \in JobId
               /\ journal.sequence \in 0..MaxSequence
               /\ JobRow \in Job /\ JobRow.sequence \in 0..MaxSequence
    <2>1. journal \in Journal
      BY <1>1, <1>3 DEF TypeOK, Held
    <2>2. journal.job \in JobId /\ journal.sequence \in 0..MaxSequence
      BY <2>1 DEF Journal
    <2>3. JobRow \in Job
      BY <1>1, <1>2, <1>3, <2>2 DEF InStep, JobRow
    <2> QED
      BY <2>1, <2>2, <2>3 DEF Job
  <1>4. ASSUME NEW m \in late
        PROVE  m.job \in JobId /\ m.report \in Report /\ m.report.sequence \in 1..MaxSequence
    <2>1. m.job \in JobId /\ m.report \in Report
      BY <1>1 DEF TypeOK
    <2> QED
      BY <2>1 DEF Report
  <1> QED
    BY <1>1, <1>2, <1>3, <1>4

LEMMA RowsStep ==
    ASSUME Inv, [Next]_vars
    PROVE  Rows'
  <1>1. ServiceTypeOK /\ Rows /\ [ServiceStep]_serviceVars /\ Exclusive
    BY Known, PlatformSteps
  <1>2. ServiceTypeOK'
    BY <1>1, NextType
  <1> SUFFICES ASSUME NEW j \in JobId, jobs'[j].state # "none"
               PROVE  RowFits(j)'
    BY DEF Rows, RowFits
  <1>3. ASSUME jobs'[j].last = jobs[j].last, jobs'[j].state = jobs[j].state,
               jobs'[j].sequence = jobs[j].sequence, jobs'[j].bytes = jobs[j].bytes,
               jobs'[j].release = jobs[j].release, jobs[j].state # "none"
        PROVE  RowFits(j)'
    <2>1. IF jobs'[j].last = None
          THEN /\ jobs'[j].state \in {"queued", "cancelled"}
               /\ jobs'[j].sequence = 0 /\ jobs'[j].bytes = 0
          ELSE /\ jobs'[j].state = jobs'[j].last.state
               /\ jobs'[j].sequence = jobs'[j].last.sequence
      BY <1>1, <1>3 DEF Rows, RowFits
    <2>2. ASSUME jobs'[j].state = "confirmed"
          PROVE  firmware' # None /\ Sequence[jobs'[j].release] <= firmware'.sequence
      <3>1. firmware # None /\ Sequence[jobs[j].release] <= firmware.sequence
        BY <1>1, <1>3, <2>2 DEF Rows, RowFits
      <3>2. firmware' # None /\ firmware'.sequence >= firmware.sequence
        BY <1>1, <3>1, SequenceStep
      <3>3. firmware \in Firmware /\ firmware' \in Firmware
        BY <1>1, <1>2, <3>1, <3>2 DEF ServiceTypeOK
      <3>4. firmware.sequence \in Nat /\ firmware'.sequence \in Nat
        BY <3>3 DEF Firmware
      <3>5. Sequence[jobs[j].release] \in Nat
        <4>1. jobs[j] \in Job
          BY <1>3, Known
        <4> QED
          BY <4>1, ReleaseAssumption DEF Job
      <3> QED
        BY <1>3, <3>1, <3>2, <3>4, <3>5
    <2> QED
      BY <2>1, <2>2 DEF RowFits
  <1>4. ASSUME Calm(jobs[j], jobs'[j])
        PROVE  RowFits(j)'
    <2>1. CASE jobs'[j].state = jobs[j].state
      BY <1>3, <1>4, <2>1 DEF Calm, SameUpdate
    <2>2. CASE jobs[j].state = "queued" /\ jobs'[j].state = "cancelled"
      <3>1. jobs[j] \in Job
        BY <2>2, Known
      <3>2. jobs[j].last = None
        <4>1. jobs[j].last # None => jobs[j].last.state = "queued"
          BY <1>1, <2>2 DEF Rows, RowFits
        <4>2. jobs[j].last \in Report => jobs[j].last.state # "queued"
          BY DEF Report, ReportStates
        <4> QED
          BY <3>1, <4>1, <4>2 DEF Job
      <3> QED
        BY <1>1, <1>4, <2>2, <3>2 DEF Rows, RowFits, Calm
    <2> QED
      BY <1>4, <2>1, <2>2 DEF Calm
  <1>5. ASSUME Fresh(jobs'[j])
        PROVE  RowFits(j)'
    BY <1>5 DEF Fresh, RowFits
  <1>6. ASSUME NEW i \in JobId, NEW r \in Report, Receives(i, r)
        PROVE  RowFits(j)'
    <2>1. CASE i # j
      <3>1. jobs'[j] = jobs[j]
        BY <1>6, <2>1 DEF Receives
      <3> QED
        BY <1>3, <3>1
    <2>2. CASE i = j
      <3>1. jobs'[j].last = r /\ jobs'[j].state = r.state /\ jobs'[j].sequence = r.sequence
            /\ r # None /\ jobs'[j].release = jobs[j].release /\ Active(j)
        BY <1>6, <2>2, NoneAssumption DEF Receives, SameUpdate
      <3>2. ASSUME r.state = "confirmed"
            PROVE  firmware' # None /\ Sequence[jobs'[j].release] <= firmware'.sequence
        <4>1. firmware' = ConfirmedRow(j)
          BY <1>6, <2>2, <3>2 DEF Receives
        <4>2. jobs[j] \in Job
          BY <3>1, Known DEF Active, ActiveStates
        <4>3. ConfirmedRow(j) \in Firmware
          <5>1. Unused.state = "none"
            BY DEF Unused
          <5>2. jobs[j] # Unused
            BY <3>1, <5>1 DEF Active, ActiveStates
          <5> QED
            BY <1>1, <5>2, NewRowTypes
        <4>4. firmware'.sequence = Sequence[jobs'[j].release]
              /\ Sequence[jobs'[j].release] \in Nat
          BY <3>1, <4>1, <4>2, ReleaseAssumption DEF ConfirmedRow, Job
        <4> QED
          BY <4>1, <4>3, <4>4, NoneAssumption
      <3> QED
        BY <3>1, <3>2 DEF RowFits
    <2> QED
      BY <2>1, <2>2
  <1> QED
    BY <1>4, <1>5, <1>6, Rowwise DEF Calmly, Reporting

\* Only the update in the journal has reports that count.
LEMMA ReceivesOwn ==
    ASSUME Inv, NEW j \in JobId, NEW r \in Report, Receives(j, r)
    PROVE  Journaled(j)
  BY Known DEF Receives, LateFits

\* What becomes of one row.
LEMMA RowMoves ==
    ASSUME Inv, [Next]_vars, NEW j \in JobId
    PROVE  \/ Calm(jobs[j], jobs'[j])
           \/ jobs[j].state = "none" /\ Fresh(jobs'[j])
           \/ Journaled(j) /\ \E r \in Report : Receives(j, r)
  <1>1. CASE Calmly
    BY <1>1 DEF Calmly
  <1>2. CASE Reporting
    <2>1. PICK i \in JobId, r \in Report : Receives(i, r)
      BY <1>2 DEF Reporting
    <2>2. CASE i = j
      BY <2>1, <2>2, ReceivesOwn
    <2>3. CASE i # j
      <3>1. jobs'[j] = jobs[j]
        BY <2>1, <2>3 DEF Receives
      <3> QED
        BY <3>1, Known, CalmRow
    <2> QED
      BY <2>2, <2>3
  <1> QED
    BY <1>1, <1>2, Rowwise

\* A row that nobody claimed has never been reported on.
LEMMA QueuedRow ==
    ASSUME Inv, NEW j \in JobId, jobs[j].state = "queued"
    PROVE  jobs[j].last = None /\ jobs[j].sequence = 0 /\ jobs[j].bytes = 0
  <1>1. jobs[j] \in Job /\ RowFits(j)
    BY Known DEF Rows
  <1>2. jobs[j].last \in Report => jobs[j].last.state # "queued"
    BY DEF Report, ReportStates
  <1>3. jobs[j].last # None => jobs[j].last.state = "queued"
    BY <1>1 DEF RowFits
  <1>4. jobs[j].last = None
    BY <1>1, <1>2, <1>3 DEF Job
  <1> QED
    BY <1>1, <1>4 DEF RowFits

\* The journal that each kind of step leaves.
LEMMA AckedFields ==
    ASSUME journal \in Journal
    PROVE  /\ Acked \in Journal /\ ~Acked.pending
           /\ Acked.job = journal.job /\ Acked.release = journal.release
           /\ Acked.previous = journal.previous /\ Acked.state = journal.state
           /\ Acked.sequence = journal.sequence /\ Acked.bytes = journal.bytes
  BY Literals DEF Acked, Journal

LEMMA AdjustedFields ==
    ASSUME journal \in Journal, NEW row \in Job, row.state \in ActiveStates
    PROVE  /\ Adjusted(row) \in Journal /\ ~Adjusted(row).pending
           /\ Adjusted(row).job = journal.job /\ Adjusted(row).release = journal.release
           /\ Adjusted(row).previous = journal.previous /\ Adjusted(row).state = row.state
           /\ Adjusted(row).sequence = row.sequence /\ Adjusted(row).bytes = row.bytes
  <1>1. row.state \in ReportStates \cup {"queued"} /\ row.bytes \in 0..Size
        /\ row.sequence \in 0..MaxSequence
    BY DEF Job, ActiveStates, ReportStates
  <1> QED
    BY <1>1, Literals DEF Adjusted, Journal

LEMMA EntryFields ==
    ASSUME journal \in Journal, NEW state, NEW bytes, NEW error
    PROVE  LET e == Entry(state, bytes, error)
           IN  /\ e.pending
               /\ e.job = journal.job /\ e.release = journal.release
               /\ e.previous = journal.previous /\ e.state = state
               /\ e.sequence = journal.sequence + 1 /\ e.bytes = bytes
  BY DEF Entry, Journal

LEMMA CommittedFields ==
    ASSUME journal \in Journal
    PROVE  LET c == [journal EXCEPT !.committed = TRUE]
           IN  /\ c \in Journal /\ c.pending = journal.pending
               /\ c.job = journal.job /\ c.release = journal.release
               /\ c.previous = journal.previous /\ c.state = journal.state
               /\ c.sequence = journal.sequence /\ c.bytes = journal.bytes
  BY DEF Journal

\* A row in use after a step has the type of a job.
LEMMA NewRow ==
    ASSUME Inv, [Next]_vars, NEW j \in JobId, jobs'[j].state # "none"
    PROVE  jobs'[j] \in Job
  <1>1. ServiceTypeOK'
    BY TypeStep DEF TypeOK
  <1>2. jobs'[j] \in Row
    BY <1>1 DEF ServiceTypeOK, Row
  <1> QED
    BY <1>2, UsedRow

LEMMA JournalMoves ==
    ASSUME Inv, [Next]_vars, Held
    PROVE  \/ /\ Held' /\ journal'.job = journal.job /\ journal'.release = journal.release
              /\ journal'.previous = journal.previous
           \/ Forgets
  <1>1. journal \in Journal /\ journal.job \in JobId
    BY Known
  <1>2. CASE Keeps
    BY <1>2 DEF Keeps, Held
  <1>3. CASE Submits
    <2>1. PICK state \in ReportStates, bytes \in 0..Size, error \in ErrorCode :
            journal' = Entry(state, bytes, error)
      BY <1>3 DEF Submits
    <2>2. Entry(state, bytes, error) \in Journal
      BY <1>3, EntryType, Known DEF Submits
    <2> QED
      BY <1>1, <2>1, <2>2, EntryFields, JournalAssumption DEF Held
  <1>4. CASE Acks
    BY <1>1, <1>4, AckedFields, JournalAssumption DEF Acks, Held
  <1>5. CASE Adjusts
    <2>1. jobs'[journal.job] \in Job
      BY <1>1, <1>5, NewRow DEF Adjusts, ActiveStates
    <2> QED
      BY <1>1, <1>5, <2>1, AdjustedFields, JournalAssumption DEF Adjusts, Held
  <1>6. CASE Commits
    BY <1>1, <1>6, CommittedFields, JournalAssumption DEF Commits, Held
  <1> QED
    BY <1>2, <1>3, <1>4, <1>5, <1>6, Rowwise DEF Adopts

\* A forgotten deployment has ended.
LEMMA ForgottenRow ==
    ASSUME Inv, Forgets
    PROVE  jobs'[journal.job].state \notin ActiveStates
  <1>1. CASE ~journal.pending /\ In({"confirmed", "rolled_back", "failed"}) /\ jobs' = jobs
    <2>1. JobRow.state = journal.state
      BY <1>1, Known DEF Forgets, InStep, In, ActiveStates
    <2> QED
      BY <1>1, <2>1 DEF In, JobRow, ActiveStates
  <1>2. CASE jobs'[journal.job].state = "cancelled"
    BY <1>2 DEF ActiveStates
  <1> QED
    BY <1>1, <1>2 DEF Forgets

\* The row of the update in the journal.
LEMMA OwnRow ==
    ASSUME Inv, [Next]_vars, Held
    PROVE  \/ Calm(JobRow, jobs'[journal.job])
           \/ \E r \in Report : Receives(journal.job, r)
  BY Known, RowMoves DEF InStep, JobRow

----------------------------------------------------------------------------
(* The journal stays in step with its row.                                 *)

\* InStep, of any row and journal.
Together(row, jn, interrupted) ==
    /\ row.state # "none"
    /\ SameUpdate(row, jn)
    /\ row.state \in {"queued", "cancelled"} => jn.bytes = 0
    /\ IF jn.pending
       THEN jn.sequence \in {row.sequence, row.sequence + 1}
       ELSE \/ /\ jn.sequence = row.sequence
               /\ jn.state = row.state \/ (jn.state = "queued" /\ row.state = "cancelled")
            \/ /\ interrupted
               /\ jn.sequence + 1 = row.sequence
               /\ jn.state \in ActiveStates

LEMMA InStepMeans ==
    /\ InStep <=> (Held => Together(JobRow, journal, engine.interrupted))
    /\ InStep' <=> (Held' => Together(jobs'[journal'.job], journal', engine'.interrupted))
  BY DEF InStep, Together, Held, JobRow, In

\* A calm row stays with a journal that stays, whatever happens to the client
\* but a new tick.
LEMMA CalmTogether ==
    ASSUME NEW a, NEW b, Calm(a, b), NEW jn, NEW i \in BOOLEAN, NEW k \in BOOLEAN,
           Together(a, jn, i),
           ~jn.pending /\ i /\ jn.state \in ActiveStates => k
    PROVE  Together(b, jn, k)
  <1>1. /\ SameUpdate(b, jn) /\ b.state # "none"
        /\ b.state \in {"queued", "cancelled"} => a.state \in {"queued", "cancelled"}
        /\ a.sequence = b.sequence
        /\ b.state # a.state => a.state = "queued" /\ b.state = "cancelled"
    BY DEF Calm, Together, SameUpdate
  <1> QED
    BY <1>1 DEF Together

LEMMA KeepsInStep ==
    ASSUME Inv, [Next]_vars, Held, Keeps
    PROVE  InStep'
  <1>1. /\ Together(JobRow, journal, engine.interrupted) /\ journal' = journal
        /\ journal \in Journal /\ engine.interrupted \in BOOLEAN /\ engine'.interrupted \in BOOLEAN
        /\ ~journal.pending /\ engine.interrupted /\ journal.state \in ActiveStates
              => engine'.interrupted
    <2>1. engine' \in Engine /\ engine \in Engine
      BY ClientStep, Known DEF TypeOK
    <2> QED
      BY <2>1, Known, InStepMeans DEF Keeps, Engine, In
  <1>2. CASE Calm(JobRow, jobs'[journal.job])
    BY <1>1, <1>2, CalmTogether, InStepMeans
  <1>3. ASSUME NEW r \in Report, Receives(journal.job, r)
        PROVE  Together(jobs'[journal.job], journal, engine'.interrupted)
    <2>1. /\ r.state \notin {"none", "queued", "cancelled"} /\ r.sequence = JobRow.sequence + 1
          /\ jobs'[journal.job].state = r.state /\ jobs'[journal.job].sequence = r.sequence
          /\ SameUpdate(jobs'[journal.job], journal)
          /\ JobRow.state \in ActiveStates
      BY <1>1, <1>3 DEF Receives, Report, ReportStates, SameUpdate, Together, JobRow, Active
    <2>2. journal.sequence \in Nat /\ JobRow.sequence \in Nat
      BY Known
    <2>3. CASE journal.pending /\ r = PendingReport
      <3>1. r.sequence = journal.sequence
        BY <2>3 DEF PendingReport
      <3> QED
        BY <2>1, <2>2, <2>3, <3>1 DEF Together
    <2>4. CASE [job |-> journal.job, report |-> r] \in late
      <3>1. \/ r.sequence <= journal.sequence
            \/ ~journal.pending /\ engine.interrupted /\ r.sequence = journal.sequence + 1
        <4> DEFINE m == [job |-> journal.job, report |-> r]
        <4>1. m \in late /\ m.job = journal.job /\ m.report = r
          BY <2>4
        <4>2. Active(m.job)
          BY <1>3, <4>1 DEF Receives
        <4> HIDE DEF m
        <4>3. \/ m.report.sequence <= journal.sequence
              \/ /\ ~journal.pending /\ engine.interrupted
                 /\ m.report.sequence = journal.sequence + 1
          BY <4>1, <4>2, Known DEF LateFits
        <4> QED
          BY <4>1, <4>3
      <3>2. CASE journal.pending
        <4>1. journal.sequence \in {JobRow.sequence, JobRow.sequence + 1}
          BY <1>1, <3>2 DEF Together
        <4>2. journal.sequence = jobs'[journal.job].sequence
          BY <2>1, <2>2, <3>1, <3>2, <4>1
        <4> QED
          BY <2>1, <3>2, <4>2 DEF Together
      <3>3. CASE ~journal.pending
        <4>1. \/ journal.sequence = JobRow.sequence
                 /\ (journal.state = JobRow.state
                     \/ (journal.state = "queued" /\ JobRow.state = "cancelled"))
              \/ journal.sequence + 1 = JobRow.sequence
          BY <1>1, <3>3 DEF Together
        <4>2. /\ engine.interrupted /\ journal.sequence + 1 = jobs'[journal.job].sequence
              /\ journal.state = JobRow.state
          BY <2>1, <2>2, <3>1, <4>1 DEF ActiveStates
        <4>3. journal.state \in ActiveStates /\ engine'.interrupted
          BY <1>1, <2>1, <3>3, <4>2
        <4> QED
          BY <2>1, <3>3, <4>2, <4>3 DEF Together
      <3> QED
        BY <3>2, <3>3
    <2> QED
      BY <1>3, <2>3, <2>4 DEF Receives
  <1> QED
    BY <1>1, <1>2, <1>3, OwnRow, InStepMeans

\* A report journaled is one ahead of the row, or the one it already has.
LEMMA SubmitsInStep ==
    ASSUME Inv, [Next]_vars, Submits, Calm(JobRow, jobs'[journal.job])
    PROVE  InStep'
  <1>1. Held /\ ~journal.pending /\ journal \in Journal /\ Together(JobRow, journal, engine.interrupted)
    BY Known, InStepMeans DEF Submits
  <1>2. PICK state \in ReportStates, bytes \in 0..Size, error \in ErrorCode :
          ReportFits(state, bytes) /\ journal' = Entry(state, bytes, error)
    BY DEF Submits
  <1>3. /\ journal'.pending /\ journal'.job = journal.job /\ journal'.release = journal.release
        /\ journal'.previous = journal.previous /\ journal'.sequence = journal.sequence + 1
        /\ journal'.bytes = bytes
    BY <1>1, <1>2, EntryFields
  <1>4. journal.sequence \in Nat /\ JobRow.sequence \in Nat
    BY <1>1, Known
  <1>5. journal'.sequence \in {JobRow.sequence, JobRow.sequence + 1}
    BY <1>1, <1>3, <1>4 DEF Together
  <1>6. /\ jobs'[journal.job].state # "none" /\ SameUpdate(jobs'[journal.job], journal')
        /\ jobs'[journal.job].state \in {"queued", "cancelled"}
              => JobRow.state \in {"queued", "cancelled"}
        /\ jobs'[journal.job].sequence = JobRow.sequence
    BY <1>1, <1>3 DEF Calm, SameUpdate, Together
  <1>7. jobs'[journal.job].state \in {"queued", "cancelled"} => journal'.bytes = 0
    BY <1>2, <1>3, <1>6 DEF ReportFits
  <1> QED
    BY <1>3, <1>5, <1>6, <1>7, InStepMeans DEF Together

LEMMA AcksInStep ==
    ASSUME Inv, [Next]_vars, Acks
    PROVE  InStep'
  <1>1. /\ Held /\ journal.pending /\ journal \in Journal /\ In(ReportStates)
        /\ Together(JobRow, journal, engine.interrupted)
        /\ journal' = Acked
    BY Known, InStepMeans DEF Acks, Control
  <1>2. /\ ~journal'.pending /\ journal'.job = journal.job /\ journal'.release = journal.release
        /\ journal'.previous = journal.previous /\ journal'.sequence = journal.sequence
        /\ journal'.state = journal.state
    BY <1>1, AckedFields
  <1>3. PendingReport.state = journal.state /\ PendingReport.sequence = journal.sequence
    BY DEF PendingReport
  <1>4. /\ jobs'[journal.job].state = journal.state
        /\ jobs'[journal.job].sequence = journal.sequence
        /\ SameUpdate(jobs'[journal.job], journal')
    <2>1. CASE Receives(journal.job, PendingReport)
      BY <1>1, <1>2, <1>3, <2>1 DEF Receives, SameUpdate, Together, JobRow
    <2>2. CASE jobs' = jobs /\ JobRow.last = PendingReport
      <3>1. RowFits(journal.job) /\ PendingReport # None
        <4>1. PendingReport \in Report
          BY <1>1, Known, PendingIsReport
        <4> QED
          BY <1>1, <4>1, Known, NoneAssumption DEF Rows, JobRow, Together
      <3>2. JobRow.state = journal.state /\ JobRow.sequence = journal.sequence
        BY <1>3, <2>2, <3>1 DEF RowFits, JobRow
      <3> QED
        BY <1>1, <1>2, <2>2, <3>2 DEF SameUpdate, Together, JobRow
    <2> QED
      BY <2>1, <2>2 DEF Acks
  <1>5. journal.state \notin {"none", "queued", "cancelled"}
    BY <1>1 DEF In, ReportStates
  <1> QED
    BY <1>2, <1>4, <1>5, InStepMeans DEF Together

LEMMA AdjustsInStep ==
    ASSUME Inv, [Next]_vars, Adjusts, Calm(JobRow, jobs'[journal.job])
    PROVE  InStep'
  <1> DEFINE row == jobs'[journal.job]
  <1>1. /\ Held /\ journal \in Journal /\ journal.job \in JobId
        /\ Together(JobRow, journal, engine.interrupted)
        /\ row.state \in ActiveStates /\ journal' = Adjusted(row)
    BY Known, InStepMeans DEF Adjusts
  <1>2. row \in Job
    BY <1>1, NewRow DEF ActiveStates
  <1> HIDE DEF row
  <1>3. /\ ~journal'.pending /\ journal'.job = journal.job /\ journal'.release = journal.release
        /\ journal'.previous = journal.previous /\ journal'.sequence = row.sequence
        /\ journal'.state = row.state /\ journal'.bytes = row.bytes
    BY <1>1, <1>2, AdjustedFields
  <1>4. SameUpdate(row, journal') /\ JobRow.bytes = row.bytes
        /\ (row.state = "queued" => JobRow.state = "queued")
    BY <1>1, <1>3 DEF Calm, SameUpdate, Together, row
  <1>5. row.state \in {"queued", "cancelled"} => row.bytes = 0
    BY <1>1, <1>4, QueuedRow DEF ActiveStates, JobRow
  <1>6. row.state # "none"
    BY <1>1 DEF ActiveStates
  <1>7. Together(row, journal', engine'.interrupted)
    BY <1>3, <1>4, <1>5, <1>6 DEF Together
  <1> QED
    BY <1>3, <1>7, InStepMeans DEF row

LEMMA CommitsInStep ==
    ASSUME Inv, [Next]_vars, Commits, Calm(JobRow, jobs'[journal.job])
    PROVE  InStep'
  <1> DEFINE c == [journal EXCEPT !.committed = TRUE]
  <1>1. /\ Held /\ journal \in Journal /\ ~journal.pending /\ ~engine.interrupted
        /\ Together(JobRow, journal, engine.interrupted) /\ journal' = c
    BY Known, InStepMeans DEF Commits
  <1>2. /\ ~c.pending /\ c.job = journal.job /\ c.release = journal.release
        /\ c.previous = journal.previous /\ c.sequence = journal.sequence
        /\ c.state = journal.state /\ c.bytes = journal.bytes
    BY <1>1, CommittedFields
  <1> HIDE DEF c
  <1>3. Together(JobRow, c, engine.interrupted)
    BY <1>1, <1>2 DEF Together, SameUpdate
  <1>4. engine.interrupted \in BOOLEAN /\ engine'.interrupted \in BOOLEAN
    BY ClientStep, Known DEF Engine, TypeOK
  <1>5. Together(jobs'[journal.job], c, engine'.interrupted)
    BY <1>1, <1>3, <1>4, CalmTogether
  <1> QED
    BY <1>1, <1>2, <1>5, InStepMeans

\* A deployment that can be adopted replaces the confirmed image, which runs.
LEMMA OfferedImage ==
    ASSUME Inv, NEW j \in Offered, jobs[j].state = "queued"
    PROVE  /\ j \in JobId /\ Active(j)
           /\ firmware # None /\ firmware.app = Running /\ jobs[j].previous = Running
  <1>1. j \in JobId /\ Active(j) /\ MayPoll(Running)
    BY DEF Offered
  <1>2. firmware.app = jobs[j].previous
    BY <1>1, Known DEF Exclusive, ActiveStillApplies
  <1>3. ASSUME NEW i \in JobId, jobs[i].state = "rebooting"
        PROVE  FALSE
    <2>1. i = j
      BY <1>1, <1>3, Known DEF Exclusive, OneActive, Active, ActiveStates
    <2> QED
      BY <1>3, <2>1
  <1> QED
    BY <1>1, <1>2, <1>3 DEF MayPoll

\* What is adopted is the approval that the service still holds.
LEMMA AdoptsInStep ==
    ASSUME Inv, [Next]_vars, Adopts
    PROVE  InStep'
  <1>1. PICK j \in Offered : /\ jobs[j].state = "queued" /\ jobs'[j] = jobs[j]
                             /\ journal' = NewJournal(j)
    BY DEF Adopts
  <1>2. j \in JobId /\ jobs[j].previous = Running
    BY <1>1, OfferedImage
  <1>3. jobs[j].sequence = 0
    BY <1>1, <1>2, QueuedRow
  <1>4. /\ journal'.job = j /\ journal'.release = jobs[j].release /\ journal'.previous = Running
        /\ journal'.sequence = 0 /\ ~journal'.pending /\ journal'.state = "queued"
        /\ journal'.bytes = 0
    BY <1>1 DEF NewJournal
  <1>5. SameUpdate(jobs'[j], journal')
    BY <1>1, <1>2, <1>4 DEF SameUpdate
  <1> QED
    BY <1>1, <1>3, <1>4, <1>5, InStepMeans DEF Together

LEMMA InStepStep ==
    ASSUME Inv, [Next]_vars
    PROVE  InStep'
  <1>1. CASE ~Held'
    BY <1>1, InStepMeans
  <1>2. CASE Keeps
    BY <1>1, <1>2, KeepsInStep DEF Keeps, Held
  <1>3. CASE Forgets
    BY <1>1, <1>3 DEF Forgets, Held
  <1>4. ASSUME Held, Calmly
        PROVE  Calm(JobRow, jobs'[journal.job])
    BY <1>4, Known DEF Calmly, InStep, JobRow
  <1>5. CASE Acks
    BY <1>5, AcksInStep
  <1>6. CASE Adopts
    BY <1>6, AdoptsInStep
  <1>7. CASE Calmly /\ (Submits \/ Adjusts \/ Commits)
    BY <1>4, <1>7, SubmitsInStep, AdjustsInStep, CommitsInStep DEF Submits, Adjusts, Commits
  <1> QED
    BY <1>2, <1>3, <1>5, <1>6, <1>7, Rowwise

----------------------------------------------------------------------------
(* Delayed reports, and deployments that were not adopted.                 *)

\* An active row was active before, or it is new.
LEMMA ActiveBefore ==
    ASSUME Inv, [Next]_vars, NEW j \in JobId, jobs'[j].state \in ActiveStates
    PROVE  \/ Active(j) /\ (Journaled(j) \/ jobs'[j].state = jobs[j].state)
           \/ jobs[j].state = "none" /\ jobs'[j].state = "queued"
  <1>1. CASE Calm(jobs[j], jobs'[j])
    BY <1>1 DEF Calm, Active, ActiveStates
  <1>2. CASE jobs[j].state = "none" /\ Fresh(jobs'[j])
    BY <1>2 DEF Fresh
  <1>3. CASE Journaled(j) /\ \E r \in Report : Receives(j, r)
    BY <1>3 DEF Receives
  <1> QED
    BY <1>1, <1>2, <1>3, RowMoves

\* An active deployment stays in the journal.
LEMMA StaysJournaled ==
    ASSUME Inv, [Next]_vars, NEW j \in JobId, jobs'[j].state \in ActiveStates, Journaled(j)
    PROVE  Journaled(j)'
  BY JournalMoves, ForgottenRow DEF Journaled

LEMMA UsedStays ==
    ASSUME Inv, [Next]_vars, NEW j \in JobId, jobs[j].state # "none"
    PROVE  jobs'[j].state # "none"
  <1>1. CASE Calm(jobs[j], jobs'[j])
    BY <1>1 DEF Calm
  <1>2. ASSUME NEW r \in Report, Receives(j, r)
        PROVE  jobs'[j].state # "none"
    BY <1>2 DEF Receives, Report, ReportStates
  <1> QED
    BY <1>1, <1>2, RowMoves

\* A report is no newer than journal jn, but for one that a reconciliation gave up.
NoNewer(sequence, jn, interrupted) ==
    \/ sequence <= jn.sequence
    \/ ~jn.pending /\ interrupted /\ sequence = jn.sequence + 1

LEMMA NoNewerStep ==
    ASSUME Inv, [Next]_vars, Held, JobRow.state \in ActiveStates,
           jobs'[journal.job].state \in ActiveStates,
           NEW n \in Nat, NoNewer(n, journal, engine.interrupted)
    PROVE  NoNewer(n, journal', engine'.interrupted)
  <1>1. journal \in Journal /\ journal.job \in JobId /\ journal.sequence \in Nat
    BY Known
  <1>2. CASE Keeps
    <2>1. ~journal.pending /\ engine.interrupted /\ n = journal.sequence + 1
          => journal.state \in ActiveStates \/ n <= journal.sequence
      <3>1. JobRow.state # "cancelled" /\ "queued" \in ActiveStates
        BY DEF ActiveStates
      <3> QED
        BY <3>1, Known DEF InStep, In
    <2> QED
      BY <1>2, <2>1 DEF Keeps, NoNewer, In
  <1>3. CASE Submits
    <2>1. journal'.sequence = journal.sequence + 1
      BY <1>1, <1>3, EntryFields DEF Submits
    <2> QED
      BY <1>1, <2>1 DEF NoNewer
  <1>4. CASE Acks
    <2>1. journal'.sequence = journal.sequence /\ journal.pending
      BY <1>1, <1>4, AckedFields DEF Acks
    <2> QED
      BY <2>1 DEF NoNewer
  <1>5. CASE Adjusts
    <2>1. jobs'[journal.job] \in Job
      BY <1>1, NewRow DEF ActiveStates
    <2>2. /\ journal.pending /\ engine'.interrupted /\ ~journal'.pending
          /\ journal.sequence \in {journal'.sequence, journal'.sequence + 1}
      BY <1>1, <1>5, <2>1, AdjustedFields DEF Adjusts
    <2>3. journal'.sequence \in Nat
      <3>1. jobs'[journal.job].sequence \in Nat
        BY <2>1 DEF Job
      <3> QED
        BY <1>1, <1>5, <2>1, <3>1, AdjustedFields DEF Adjusts
    <2>4. n <= journal.sequence
      BY <2>2 DEF NoNewer
    <2> QED
      BY <1>1, <2>2, <2>3, <2>4 DEF NoNewer
  <1>6. CASE Commits
    <2>1. journal'.sequence = journal.sequence /\ ~engine.interrupted
      BY <1>1, <1>6, CommittedFields DEF Commits
    <2> QED
      BY <2>1 DEF NoNewer
  <1>7. ~Forgets
    BY ForgottenRow
  <1> QED
    BY <1>2, <1>3, <1>4, <1>5, <1>6, <1>7, Rowwise DEF Adopts

LEMMA LateFitsStep ==
    ASSUME Inv, [Next]_vars
    PROVE  LateFits'
  <1> SUFFICES ASSUME NEW m \in late'
               PROVE  /\ jobs'[m.job].state # "none"
                      /\ jobs'[m.job].state \in ActiveStates =>
                            /\ Journaled(m.job)'
                            /\ NoNewer(m.report.sequence, journal', engine'.interrupted)
    BY DEF LateFits, NoNewer, Active
  <1>1. CASE m \in late
    <2>1. /\ m.job \in JobId /\ m.report.sequence \in Nat /\ jobs[m.job].state # "none"
          /\ Active(m.job) =>
                /\ Journaled(m.job)
                /\ NoNewer(m.report.sequence, journal, engine.interrupted)
      BY <1>1, Known DEF LateFits, NoNewer
    <2>2. ASSUME jobs'[m.job].state \in ActiveStates
          PROVE  /\ Journaled(m.job)'
                 /\ NoNewer(m.report.sequence, journal', engine'.interrupted)
      <3>1. Active(m.job)
        BY <2>1, <2>2, ActiveBefore
      <3>2. Journaled(m.job)'
        BY <2>1, <2>2, <3>1, StaysJournaled
      <3>3. Held /\ journal.job = m.job /\ JobRow.state \in ActiveStates
        BY <2>1, <3>1 DEF Journaled, JobRow, Active
      <3> QED
        BY <2>1, <2>2, <3>1, <3>2, <3>3, NoNewerStep
    <2> QED
      BY <2>1, <2>2, UsedStays
  <1>2. CASE m \notin late
    <2>1. FlushLost /\ jobs' = jobs /\ m = [job |-> journal.job, report |-> PendingReport]
      BY <1>2, LateStep
    <2>2. Held /\ journal' = journal
      BY <2>1, Known DEF FlushLost, Control, At
    <2>3. m.job = journal.job /\ m.report.sequence = journal.sequence
      BY <2>1 DEF PendingReport
    <2>4. JobRow.state # "none" /\ journal.sequence \in Nat
      BY <2>2, Known DEF InStep
    <2> QED
      BY <2>1, <2>2, <2>3, <2>4 DEF Journaled, Held, NoNewer, JobRow
  <1> QED
    BY <1>1, <1>2

\* The marks of one deployment change only while it is in the journal.
LEMMA MarksOf ==
    ASSUME Inv, [Next]_vars, NEW j \in JobId
    PROVE  \/ history'[j] = history[j]
           \/ /\ Journaled(j) /\ journal' = journal /\ late' = late /\ jobs' = jobs
              /\ firmware' = firmware
              /\ \/ SelectTarget /\ history'[j] = history[j] \cup {"selected"}
                 \/ history'[j] = history[j] \cup {"failed"}
                 \/ /\ history'[j] = history[j] \cup {"proved"}
                    /\ StartupConfirmed /\ Boots(board.running)
  <1>1. history \in [JobId -> SUBSET {"selected", "proved", "failed"}]
    BY Known DEF TypeOK
  <1>2. ASSUME Held, NEW what, Mark(journal.job, what)
        PROVE  \/ history'[j] = history[j]
               \/ Journaled(j) /\ history'[j] = history[j] \cup {what}
    BY <1>1, <1>2 DEF Mark, Journaled
  <1>3. CASE history' = history
    BY <1>3
  <1>4. CASE Held /\ SelectTarget /\ Mark(journal.job, "selected")
    BY <1>2, <1>3, <1>4, HistoryStep
  <1>5. CASE Held /\ Mark(journal.job, "failed")
    BY <1>2, <1>3, <1>5, HistoryStep
  <1>6. CASE Held /\ StartupConfirmed /\ Mark(journal.job, "proved") /\ Boots(board.running)
    BY <1>2, <1>3, <1>6, HistoryStep
  <1> QED
    BY <1>3, <1>4, <1>5, <1>6, HistoryStep

LEMMA UntouchedStep ==
    ASSUME Inv, [Next]_vars
    PROVE  Untouched'
  <1> SUFFICES ASSUME NEW j \in JobId
               PROVE  /\ jobs'[j].state = "none" => history'[j] = {}
                      /\ jobs'[j].state \in ActiveStates /\ ~Journaled(j)'
                            => jobs'[j].state = "queued" /\ history'[j] = {}
    BY DEF Untouched, Active
  <1>1. jobs[j].state = "none" => history'[j] = {}
    <2>1. jobs[j].state = "none" => ~Journaled(j) /\ history[j] = {}
      BY Known DEF Untouched, InStep, Journaled, JobRow
    <2> QED
      BY <2>1, MarksOf
  <1>2. ASSUME jobs'[j].state \in ActiveStates, ~Journaled(j)'
        PROVE  jobs'[j].state = "queued" /\ history'[j] = {}
    <2>1. ~Journaled(j)
      BY <1>2, StaysJournaled
    <2>2. CASE Active(j)
      <3>1. jobs[j].state = "queued" /\ history[j] = {}
        BY <2>1, <2>2, Known DEF Untouched
      <3> QED
        BY <1>2, <2>1, <2>2, <3>1, ActiveBefore, MarksOf DEF ActiveStates
    <2> QED
      BY <1>1, <1>2, <2>1, <2>2, ActiveBefore
  <1> QED
    BY <1>1, <1>2, UsedStays

----------------------------------------------------------------------------
(* The evidence for what is reported.                                      *)

\* Marks h are evidence enough for a state.
Backs(h, state) ==
    /\ Supports(h, state)
    /\ "selected" \in h => state \in AfterSelection

\* The target is selected while the row, the journal and every delayed report
\* are still at the boot selection.
LEMMA SelectingRow ==
    ASSUME Inv, SelectTarget
    PROVE  /\ Held /\ JobRow.state = "rebooting" /\ In({"rebooting"})
           /\ \A m \in late : m.job = journal.job => m.report.sequence <= JobRow.sequence
  <1>1. Held /\ ~journal.pending /\ ~engine.interrupted /\ In({"rebooting"})
    BY Known DEF SelectTarget, At, Control, Working, Inv, Device, Phases
  <1>2. JobRow.state = "rebooting" /\ journal.sequence = JobRow.sequence
    BY <1>1, Known DEF InStep, In
  <1>3. ASSUME NEW m \in late, m.job = journal.job
        PROVE  m.report.sequence <= JobRow.sequence
    <2>1. Active(m.job)
      BY <1>2, <1>3 DEF Active, JobRow, ActiveStates
    <2> QED
      BY <1>1, <1>2, <2>1, Known DEF LateFits
  <1> QED
    BY <1>1, <1>2, <1>3

\* More marks are evidence for at least as much.
LEMMA MoreMarks ==
    ASSUME NEW h, NEW g, NEW what \in {"selected", "proved", "failed"}, g = h \cup {what},
           NEW state, Supports(h, state)
    PROVE  Supports(g, state)
  BY DEF Supports

LEMMA RowEvidence ==
    ASSUME Inv, [Next]_vars, NEW j \in JobId
    PROVE  Backs(history'[j], jobs'[j].state)
  <1>1. Backs(history[j], jobs[j].state)
    BY Known DEF Evidence, Backs
  <1>2. CASE history'[j] = history[j]
    <2>1. CASE Calm(jobs[j], jobs'[j])
      BY <1>1, <1>2, <2>1 DEF Calm, Backs, Supports, AfterSelection
    <2>2. CASE jobs[j].state = "none" /\ Fresh(jobs'[j])
      <3>1. history[j] = {}
        BY <2>2, Known DEF Untouched
      <3> QED
        BY <1>2, <2>2, <3>1 DEF Fresh, Backs, Supports
    <2>3. ASSUME NEW r \in Report, Receives(j, r), Journaled(j)
          PROVE  Backs(history'[j], jobs'[j].state)
      <3>1. /\ jobs'[j].state = r.state /\ Active(j) /\ r.sequence = jobs[j].sequence + 1
            /\ r.state \in Transitions[jobs[j].state]
        BY <2>3 DEF Receives
      <3>2. CASE r = PendingReport
        <4>1. r.state = journal.state /\ Held /\ journal.job = j
          BY <2>3, <3>2 DEF PendingReport, Journaled
        <4>2. Backs(history[j], journal.state)
          BY <4>1, Known DEF Evidence, Backs, Marked, In
        <4> QED
          BY <1>2, <3>1, <4>1, <4>2
      <3>3. CASE [job |-> j, report |-> r] \in late
        <4> DEFINE m == [job |-> j, report |-> r]
        <4>1. m \in late /\ m.job = j /\ m.report = r
          BY <3>3
        <4> HIDE DEF m
        <4>2. /\ Supports(history[j], r.state)
              /\ "selected" \in history[j] => \/ r.sequence <= jobs[j].sequence
                                              \/ r.state # "failed"
          BY <4>1, Known DEF Evidence
        <4>3. jobs[j].sequence \in Nat
          BY <2>3, Known DEF Journaled, JobRow
        <4>4. ASSUME "selected" \in history[j]
              PROVE  r.state \in AfterSelection
          <5>1. jobs[j].state = "rebooting"
            BY <1>1, <3>1, <4>4 DEF Backs, AfterSelection, Active, ActiveStates
          <5>2. r.state \in {"confirmed", "rolled_back", "failed"}
            BY <3>1, <5>1 DEF Transitions, ActiveStates
          <5>3. r.state # "failed"
            BY <3>1, <4>2, <4>3, <4>4
          <5> QED
            BY <5>2, <5>3 DEF AfterSelection
        <4> QED
          BY <1>2, <3>1, <4>2, <4>4 DEF Backs
      <3> QED
        BY <2>3, <3>2, <3>3 DEF Receives
    <2> QED
      BY <2>1, <2>2, <2>3, RowMoves
  <1>3. ASSUME Journaled(j), jobs' = jobs, SelectTarget,
               history'[j] = history[j] \cup {"selected"}
        PROVE  Backs(history'[j], jobs'[j].state)
    <2>1. jobs[j].state = "rebooting"
      BY <1>3, SelectingRow DEF Journaled, JobRow
    <2> QED
      BY <1>3, <2>1 DEF Backs, Supports, AfterSelection
  <1>4. ASSUME jobs' = jobs, NEW what \in {"failed", "proved"},
               history'[j] = history[j] \cup {what}
        PROVE  Backs(history'[j], jobs'[j].state)
    BY <1>1, <1>4, MoreMarks DEF Backs
  <1> QED
    BY <1>2, <1>3, <1>4, MarksOf

LEMMA LateEvidence ==
    ASSUME Inv, [Next]_vars, NEW m \in late'
    PROVE  /\ Supports(history'[m.job], m.report.state)
           /\ "selected" \in history'[m.job] => \/ m.report.sequence <= jobs'[m.job].sequence
                                                \/ m.report.state # "failed"
  <1>1. CASE m \notin late
    <2>1. FlushLost /\ m = [job |-> journal.job, report |-> PendingReport]
      BY <1>1, LateStep
    <2>2. Held /\ history' = history /\ m.job = journal.job /\ m.report.state = journal.state
      BY <2>1, Known DEF FlushLost, Control, At, PendingReport
    <2>3. Backs(history[journal.job], journal.state)
      BY <2>2, Known DEF Evidence, Backs, Marked, In
    <2> QED
      BY <2>2, <2>3 DEF Backs, AfterSelection
  <1>2. CASE m \in late
    <2>1. /\ Supports(history[m.job], m.report.state)
          /\ "selected" \in history[m.job] => \/ m.report.sequence <= jobs[m.job].sequence
                                              \/ m.report.state # "failed"
          /\ m.job \in JobId /\ m.report.sequence \in Nat /\ jobs[m.job] \in Job
          /\ jobs[m.job].state # "none"
      BY <1>2, Known DEF Evidence, LateFits
    <2>2. jobs[m.job].sequence \in Nat
      BY <2>1 DEF Job
    <2>3. jobs'[m.job].sequence \in Nat /\ jobs[m.job].sequence <= jobs'[m.job].sequence
      <3>1. jobs'[m.job].sequence \in {jobs[m.job].sequence, jobs[m.job].sequence + 1}
        BY <2>1, RowMoves DEF Calm, Receives
      <3> QED
        BY <2>2, <3>1
    <2>4. m.report.sequence <= jobs[m.job].sequence
          => m.report.sequence <= jobs'[m.job].sequence
      BY <2>1, <2>2, <2>3
    <2>5. CASE history'[m.job] = history[m.job]
      BY <2>1, <2>4, <2>5
    <2>6. ASSUME Journaled(m.job), SelectTarget,
                 history'[m.job] = history[m.job] \cup {"selected"}
          PROVE  /\ Supports(history'[m.job], m.report.state)
                 /\ m.report.sequence <= jobs'[m.job].sequence
      <3>1. m.report.sequence <= jobs[m.job].sequence
        BY <1>2, <2>6, SelectingRow DEF Journaled, JobRow
      <3> QED
        BY <2>1, <2>4, <2>6, <3>1, MoreMarks
    <2>7. ASSUME NEW what \in {"failed", "proved"},
                 history'[m.job] = history[m.job] \cup {what}
          PROVE  /\ Supports(history'[m.job], m.report.state)
                 /\ "selected" \in history'[m.job] <=> "selected" \in history[m.job]
      BY <2>1, <2>7, MoreMarks
    <2> QED
      BY <2>1, <2>4, <2>5, <2>6, <2>7, MarksOf
  <1> QED
    BY <1>1, <1>2

LEMMA JournalEvidence ==
    ASSUME Inv, [Next]_vars, Held'
    PROVE  Backs(history'[journal'.job], journal'.state)
  <1>1. Held => /\ Backs(history[journal.job], journal.state)
                /\ journal.job \in JobId /\ journal \in Journal
    BY Known DEF Evidence, Backs, Marked, In
  <1>2. ASSUME Held, journal'.job = journal.job, journal'.state = journal.state
        PROVE  Backs(history'[journal'.job], journal'.state)
    <2>1. CASE history'[journal.job] = history[journal.job]
      BY <1>1, <1>2, <2>1
    <2>2. CASE SelectTarget /\ history'[journal.job] = history[journal.job] \cup {"selected"}
      <3>1. journal.state = "rebooting"
        BY <2>2, SelectingRow DEF In
      <3> QED
        BY <1>1, <1>2, <2>2, <3>1 DEF Backs, Supports, AfterSelection
    <2>3. ASSUME NEW what \in {"failed", "proved"},
                 history'[journal.job] = history[journal.job] \cup {what}
          PROVE  Backs(history'[journal'.job], journal'.state)
      BY <1>1, <1>2, <2>3, MoreMarks DEF Backs
    <2> QED
      BY <1>1, <1>2, <2>1, <2>2, <2>3, MarksOf
  <1>3. CASE Keeps
    BY <1>2, <1>3 DEF Keeps, Held
  <1>4. CASE Submits
    <2>1. PICK state \in ReportStates, bytes \in 0..Size, error \in ErrorCode :
            ReportFits(state, bytes) /\ journal' = Entry(state, bytes, error)
      BY <1>4 DEF Submits
    <2>2. journal'.job = journal.job /\ journal'.state = state /\ journal' # journal /\ Held
      <3>1. journal'.sequence = journal.sequence + 1 /\ journal.sequence \in Nat
        BY <1>1, <1>4, <2>1, EntryFields, Known DEF Submits
      <3> QED
        BY <1>1, <1>4, <2>1, <3>1, EntryFields DEF Submits
    <2>3. history'[journal.job] = history[journal.job]
      BY <1>1, <2>2, MarksOf
    <2> QED
      BY <2>1, <2>2, <2>3 DEF ReportFits, Backs, Marked
  <1>5. CASE Acks
    BY <1>1, <1>2, <1>5, AckedFields DEF Acks
  <1>6. CASE Adjusts
    <2>1. journal'.job = journal.job /\ journal'.state = jobs'[journal.job].state
      <3>1. jobs'[journal.job] \in Job
        BY <1>1, <1>6, NewRow DEF Adjusts, ActiveStates
      <3> QED
        BY <1>1, <1>6, <3>1, AdjustedFields DEF Adjusts
    <2> QED
      BY <1>1, <1>6, <2>1, RowEvidence DEF Adjusts
  <1>7. CASE Commits
    BY <1>1, <1>2, <1>7, CommittedFields DEF Commits
  <1>8. CASE Adopts
    <2>1. PICK j \in Offered : jobs[j].state = "queued" /\ journal' = NewJournal(j)
      BY <1>8 DEF Adopts
    <2>2. j \in JobId /\ Active(j) /\ ~Journaled(j)
      BY <1>8, <2>1 DEF Offered, Adopts, Journaled
    <2>3. history'[j] = {} /\ journal'.job = j /\ journal'.state = "queued"
      BY <2>1, <2>2, Known, MarksOf DEF Untouched, NewJournal
    <2> QED
      BY <2>3 DEF Backs, Supports
  <1> QED
    BY <1>3, <1>4, <1>5, <1>6, <1>7, <1>8, Rowwise DEF Forgets, Held

LEMMA EvidenceKept ==
    ASSUME Inv, [Next]_vars
    PROVE  Evidence'
  <1>1. \A j \in JobId : /\ Supports(history'[j], jobs'[j].state)
                         /\ "selected" \in history'[j] => jobs'[j].state \in AfterSelection
    BY RowEvidence DEF Backs
  <1>2. Held' => /\ Supports(history'[journal'.job], journal'.state)
                 /\ "selected" \in history'[journal'.job] => journal'.state \in AfterSelection
    BY JournalEvidence DEF Backs
  <1> QED
    BY <1>1, <1>2, LateEvidence DEF Evidence, Held, Marked, In, Supports, AfterSelection

----------------------------------------------------------------------------
(* The board, the confirmed image and the rollback floor.                  *)

\* Without a deployment under way the record changes only by an initial
\* identification or a correction.
LEMMA RecordMoves ==
    ASSUME Inv, [Next]_vars, firmware' # firmware, ~Reporting
    PROVE  \/ firmware' # None /\ Corrected' /\ firmware # None
           \/ firmware = None
  BY Known, Rowwise, QuietRecord

LEMMA RecordFitsStep ==
    ASSUME Inv, [Next]_vars
    PROVE  RecordFits'
  <1> SUFFICES ASSUME Held', ~Corrected'
               PROVE  /\ firmware' # None
                      /\ firmware'.app = IF jobs'[journal'.job].state = "confirmed"
                                         THEN Target' ELSE journal'.previous
    <2>1. Corrected' /\ Held' => firmware' # None
      <3>1. CASE firmware' = None
        <4>1. Held => firmware # None
          BY Known DEF RecordFits
        <4>2. firmware # None => firmware' # None
          BY Known, PlatformSteps, SequenceStep
        <4>3. ~Held /\ Held' => firmware # None
          BY StepKinds, OfferedImage
          DEF Adopts, Keeps, Submits, Acks, Adjusts, Forgets, Commits, Held
        <4> QED
          BY <3>1, <4>1, <4>2, <4>3
      <3> QED
        BY <3>1
    <2> QED
      BY <2>1 DEF RecordFits, JobRow
  <1>1. CASE Held
    <2>1. /\ journal'.job = journal.job /\ Target' = Target
          /\ journal'.previous = journal.previous
      BY <1>1, JournalMoves DEF Forgets, Held, Target
    <2>2. firmware # None /\ JobRow.state # "none" /\ SameUpdate(JobRow, journal)
          /\ journal.job \in JobId
      BY <1>1, Known DEF RecordFits, InStep
    <2>3. ASSUME NEW r \in Report, Receives(journal.job, r)
          PROVE  /\ firmware' # None
                 /\ firmware'.app = IF jobs'[journal.job].state = "confirmed"
                                    THEN Target ELSE journal.previous
      <3>1. /\ jobs'[journal.job].state = r.state /\ JobRow.state \in ActiveStates
            /\ firmware' = IF r.state = "confirmed" THEN ConfirmedRow(journal.job) ELSE firmware
        BY <2>3 DEF Receives, Active, JobRow
      <3>2. CASE r.state = "confirmed"
        <4>1. firmware' = ConfirmedRow(journal.job)
          BY <3>1, <3>2
        <4>2. ConfirmedRow(journal.job).app = Target
          BY <2>2 DEF ConfirmedRow, SameUpdate, JobRow, Target
        <4>3. firmware' # None
          BY <2>2, Known, PlatformSteps, SequenceStep
        <4> QED
          BY <3>1, <3>2, <4>1, <4>2, <4>3
      <3>3. CASE r.state # "confirmed"
        <4>1. firmware' = firmware /\ ~Corrected
          BY <3>1, <3>3 DEF Corrected
        <4>2. JobRow.state # "confirmed"
          BY <3>1 DEF ActiveStates
        <4> QED
          BY <1>1, <2>2, <3>1, <3>3, <4>1, <4>2, Known DEF RecordFits
      <3> QED
        BY <3>2, <3>3
    <2>4. CASE ~Reporting
      <3>1. firmware' = firmware /\ ~Corrected
        BY <2>2, <2>4, RecordMoves DEF Corrected
      <3>2. Calm(JobRow, jobs'[journal.job]) \/ \E r \in Report : Receives(journal.job, r)
        BY <1>1, OwnRow
      <3>3. ~\E r \in Report : Receives(journal.job, r)
        BY <2>2, <2>4 DEF Reporting
      <3>4. jobs'[journal.job].state = "confirmed" <=> JobRow.state = "confirmed"
        BY <3>2, <3>3 DEF Calm
      <3> QED
        BY <1>1, <2>1, <2>2, <3>1, <3>4, Known DEF RecordFits
    <2>5. CASE Reporting
      BY <2>1, <2>3, <2>5, ReceivesOwn DEF Reporting, Journaled
    <2> QED
      BY <2>4, <2>5
  <1>2. CASE ~Held
    <2>1. Adopts /\ ~Reporting
      BY <1>2, StepKinds, ReceivesOwn
      DEF Keeps, Submits, Acks, Adjusts, Forgets, Commits, Held, Reporting, Journaled
    <2>2. PICK j \in Offered : /\ jobs[j].state = "queued" /\ jobs'[j] = jobs[j]
                               /\ journal' = NewJournal(j)
      BY <2>1 DEF Adopts
    <2>3. firmware # None /\ firmware.app = Running
      BY <2>2, OfferedImage
    <2>4. firmware' = firmware
      BY <2>1, <2>3, RecordMoves
    <2>5. journal'.job = j /\ journal'.previous = Running
      BY <2>2 DEF NewJournal
    <2> QED
      BY <2>2, <2>3, <2>4, <2>5
  <1> QED
    BY <1>1, <1>2

\* The floor is raised to a confirmed sequence, which stays recorded.
LEMMA FloorNotAheadStep ==
    ASSUME Inv, [Next]_vars
    PROVE  FloorNotAhead'
  <1>1. ServiceTypeOK /\ ServiceTypeOK' /\ [ServiceStep]_serviceVars
    BY Known, PlatformSteps, TypeStep DEF TypeOK
  <1>2. CASE floor' = floor
    <2>1. ASSUME floor > 0
          PROVE  firmware' # None /\ floor <= firmware'.sequence
      <3>1. firmware # None /\ floor <= firmware.sequence /\ floor \in Nat
        BY <2>1, Known DEF BoardMatchesRecord, FloorNotAhead, TypeOK
      <3>2. firmware' # None /\ firmware'.sequence >= firmware.sequence
        BY <1>1, <3>1, SequenceStep
      <3>3. firmware.sequence \in Nat /\ firmware'.sequence \in Nat
        BY <1>1, <3>1, <3>2 DEF ServiceTypeOK, Firmware
      <3> QED
        BY <3>1, <3>2, <3>3
    <2> QED
      BY <1>2, <2>1 DEF FloorNotAhead
  <1>3. CASE /\ Held /\ ~journal.pending /\ journal.state = "confirmed"
             /\ jobs' = jobs /\ firmware' = firmware
             /\ floor' = Sequence[journal.release]
    <2>1. JobRow.state = "confirmed" /\ SameUpdate(JobRow, journal) /\ journal.job \in JobId
      BY <1>3, Known DEF InStep, In, ActiveStates
    <2>2. firmware # None /\ Sequence[JobRow.release] <= firmware.sequence
      BY <2>1, Known DEF Rows, RowFits, JobRow
    <2> QED
      BY <1>3, <2>1, <2>2 DEF FloorNotAhead, SameUpdate
  <1> QED
    BY <1>2, <1>3, FloorStep

\* An update leaves the journal when it is finished or reconciled, and the board
\* stays as it is.
LEMMA ForgetStep ==
    ASSUME Inv, [Next]_vars, Held, ~Held'
    PROVE  (Dispatch \/ Reconcile) /\ board' = board
  <1>1. CASE Dispatch \/ Reconcile
    BY <1>1 DEF Dispatch, Reconcile
  <1>2. CASE FlushAnswered \/ FlushLost
    <2>1. Keeps \/ Acks
      BY <1>2, FlushKind
    <2> QED
      BY <2>1, Known, AckedFields, JournalAssumption DEF Keeps, Acks, Held
  <1>3. CASE \/ Resume \/ ApproveStart \/ BeginDownload \/ Stream \/ AfterDownload
             \/ VerifyTarget \/ SelectTarget \/ CommitSelection
    BY <1>3, TickKeepsJournal DEF Held
  <1>4. CASE \/ Poll \/ HeartbeatRefused \/ Identify \/ BoardStep \/ LateReport \/ Elsewhere
             \/ UNCHANGED vars
    BY <1>4
    DEF Poll, HeartbeatRefused, Identify, BoardStep, Restart, PowerLoss, StartupConfirmed,
        StartupFailed, LocalRetry, CancelPressed, LateReport, Elsewhere, vars, deviceVars, Held
  <1> QED
    BY <1>1, <1>2, <1>3, <1>4 DEF Next, TickStep

\* The first image is recorded by the worker that reports what it runs.
LEMMA FirstRecord ==
    ASSUME Inv, [Next]_vars, firmware = None, firmware' # None
    PROVE  Identify /\ firmware'.app = Running
  <1>1. ~Held /\ ~MayPoll(Running)
    BY Known DEF RecordFits, MayPoll
  <1>2. ~Reporting
    BY <1>1, ReceivesOwn DEF Reporting, Journaled
  <1>3. CASE Identify
    BY <1>3 DEF Identify, ReportIdentity, ConfirmInitial, ObserveImage
  <1>4. CASE LateReport
    <2>1. PICK m \in late : IF ReportAccepted(m.job, m.report)
                            THEN ReportUpdate(m.job, m.report)
                            ELSE UNCHANGED serviceVars
      BY <1>4 DEF LateReport
    <2>2. /\ m.job \in JobId /\ m.report \in Report
          /\ [job |-> m.job, report |-> m.report] \in late
      BY Known DEF TypeOK
    <2>3. ReportUpdate(m.job, m.report) => firmware' = firmware
      BY <1>2, <2>2, Known, ReceiveStep DEF Reporting, serviceVars
    <2> QED
      BY <2>1, <2>3 DEF serviceVars
  <1>5. CASE Poll
    BY <1>1, <1>5 DEF Poll, ServePoll, serviceVars
  <1>6. CASE \/ Resume \/ FlushAnswered \/ FlushLost \/ Reconcile \/ Dispatch \/ ApproveStart
             \/ BeginDownload \/ Stream \/ AfterDownload \/ VerifyTarget \/ SelectTarget
             \/ CommitSelection
    BY <1>1, <1>6, Known
    DEF Resume, FlushAnswered, FlushLost, Reconcile, Dispatch, ApproveStart, BeginDownload,
        Stream, AfterDownload, VerifyTarget, SelectTarget, CommitSelection, Control, Working,
        At, Held
  <1>7. CASE Elsewhere
    BY <1>7
    DEF Elsewhere, Undisturbed, Disturbed, RequestUpdate, RepeatRequest, CancelUpdate,
        ApprovalExpires, ReconcileDeployments, ReconcileLocalRecovery, TimePasses,
        RevokeDevice, TrustChanges, DeviceChanges
  <1>8. CASE HeartbeatRefused \/ BoardStep \/ UNCHANGED vars
    BY <1>8
    DEF HeartbeatRefused, BoardStep, Restart, PowerLoss, StartupConfirmed, StartupFailed,
        LocalRetry, CancelPressed, vars, serviceVars
  <1> QED
    BY <1>3, <1>4, <1>5, <1>6, <1>7, <1>8 DEF Next, TickStep

\* A board without an update goes on with its image, or leaves it as invalid for
\* the other one.
GoesOn == board'.running = board.running /\ board'.state = board.state
Leaves == /\ board'.running = Other(board.running)
          /\ board.state[board'.running] = "valid"
          /\ board'.state[board.running] = "invalid"

LEMMA SettledStep ==
    ASSUME Inv, [Next]_vars, ~Held
    PROVE  board'.image = board.image /\ (GoesOn \/ Leaves)
  <1>1. /\ board \in Board /\ faults \in 0..MaxFaults
        /\ board.boot = board.running /\ board.state[board.running] = "valid"
        /\ board.running \in Slot /\ board.state \in [Slot -> SlotStates]
    BY Known DEF TypeOK, Inv, Device, Slots, Settled, Board
  <1>2. [board.state EXCEPT ![board.running] = "valid"] = board.state
    BY <1>1
  <1>3. ASSUME NEW b \in Board, Start(b, Fine) \/ Start(b, Fault),
               b.image = board.image, b.boot = board.running, b.state = board.state
        PROVE  board'.image = board.image /\ GoesOn
    <2>1. /\ Loaded(b).image = b.image /\ Loaded(b).running = b.boot
          /\ Loaded(b).state = b.state
      BY <1>1, <1>3, LoadedType
    <2> QED
      BY <1>1, <1>3, <2>1, StartEffect DEF SameSlots, GoesOn
  <1> DEFINE ended == CutShort(board)
  <1>0. ended \in Board /\ ended.image = board.image /\ ended.boot = board.running
        /\ ended.state = board.state
    BY <1>1, CutType DEF SameSlots
  <1>4. CASE PowerLoss
    BY <1>0, <1>3, <1>4 DEF PowerLoss, Reboot
  <1>5. CASE LocalRetry
    <2> DEFINE fresh == [board EXCEPT !.boots = 0, !.failed = 0]
    <2>1. /\ fresh \in Board /\ fresh.image = board.image /\ fresh.boot = board.running
          /\ fresh.state = board.state
      BY <1>1, RetryType DEF SameSlots
    <2>2. Start(fresh, Fine)
      BY <1>5 DEF LocalRetry, Reboot
    <2> HIDE DEF fresh
    <2> QED
      BY <1>3, <2>1, <2>2
  <1>6. CASE StartupConfirmed
    BY <1>1, <1>2, <1>6, ConfirmedType DEF StartupConfirmed, GoesOn
  <1>7. CASE StartupFailed
    <2> DEFINE o == Other(board.running)
               st == [board.state EXCEPT ![board.running] = "invalid"]
               b == [ended EXCEPT !.boot = o, !.state[board.running] = "invalid"]
               k == [ended EXCEPT !.state[board.running] = "valid"]
    <2>1. o \in Slot /\ o # board.running
      BY <1>1, SlotFacts
    <2> HIDE DEF ended
    <2>2. k = ended
      BY <1>0, <1>2 DEF Board
    <2>3. CASE Reboot(ended, Fault) \/ Reboot(k, Fault)
      <3> HIDE DEF k
      <3> QED
        BY <1>0, <1>3, <2>2, <2>3 DEF Reboot
    <2>4. CASE Start(b, Fault) /\ board.state[o] = "valid"
      <3>1. st \in [Slot -> SlotStates] /\ st[board.running] = "invalid" /\ st[o] = board.state[o]
        BY <1>1, <2>1, OtadataType DEF SlotStates
      <3>2. b.state = st /\ b.image = board.image /\ b.boot = o
        BY <1>0, <1>1 DEF Board
      <3>3. b \in Board
        <4>1. b = [ended EXCEPT !.boot = o, !.state = st]
          BY <1>0, <1>1 DEF Board
        <4> HIDE DEF b, st, o
        <4> QED
          BY <1>0, <2>1, <3>1, <4>1 DEF Board
      <3> HIDE DEF b, st
      <3>4. /\ Loaded(b).image = b.image /\ Loaded(b).running = b.boot
            /\ Loaded(b).state = b.state
        BY <2>4, <3>1, <3>2, <3>3, LoadedType
      <3>5. SameSlots(Loaded(b), board')
        BY <1>1, <2>4, <3>3, StartEffect
      <3> QED
        BY <2>4, <3>1, <3>2, <3>4, <3>5 DEF SameSlots, Leaves
    <2> HIDE DEF b, k
    <2> QED
      BY <1>7, <2>3, <2>4 DEF StartupFailed, b, k, ended
  <1>8. CASE board' = board
    BY <1>8 DEF GoesOn
  <1>9. CASE \/ Resume \/ FlushAnswered \/ FlushLost \/ Reconcile \/ Dispatch \/ ApproveStart
             \/ BeginDownload \/ Stream \/ AfterDownload \/ VerifyTarget \/ SelectTarget
             \/ CommitSelection \/ Restart
    BY <1>9, Known
    DEF Resume, FlushAnswered, FlushLost, Reconcile, Dispatch, ApproveStart, BeginDownload,
        Stream, AfterDownload, VerifyTarget, SelectTarget, CommitSelection, Restart, Control,
        Working, At, Held
  <1>10. CASE \/ Poll \/ HeartbeatRefused \/ Identify \/ CancelPressed \/ LateReport
              \/ Elsewhere \/ UNCHANGED vars
    BY <1>8, <1>10
    DEF Poll, HeartbeatRefused, Identify, CancelPressed, LateReport, Elsewhere, vars, deviceVars
  <1> QED
    BY <1>4, <1>5, <1>6, <1>7, <1>9, <1>10 DEF Next, TickStep, BoardStep

\* A forgotten update whose target was never selected left its predecessor, unless
\* the board had fallen back to the slot it was to write.
LEMMA UnselectedImage ==
    ASSUME Inv, Held, ~Marked("selected")
    PROVE  \/ Running = journal.previous
           \/ \E s \in Slot : board.image[s] = journal.previous /\ board.state[s] = "invalid"
  <1> DEFINE s == journal.slot
             o == Other(journal.slot)
  <1>1. /\ s \in Slot /\ o \in Slot /\ board.running \in Slot
        /\ board.running = s \/ board.running = o
    BY Known, SlotFacts DEF Journal, TypeOK, Board
  <1>2. board.image[o] = journal.previous /\ NotSelected(s, o)
    BY DEF Inv, Device, Slots, Updating
  <1> HIDE DEF s, o
  <1> QED
    BY <1>1, <1>2 DEF NotSelected, Running

LEMMA ProvedImage ==
    ASSUME Inv, Held, Marked("proved")
    PROVE  \/ Running = Target
           \/ \E s \in Slot : board.image[s] = Target /\ board.state[s] = "invalid"
  <1>1. journal.slot \in Slot
    BY Known DEF Journal
  <1>2. /\ board.image[journal.slot] = Target
        /\ board.running = journal.slot \/ board.state[journal.slot] = "invalid"
    BY DEF Inv, Device, Slots, Updating
  <1> QED
    BY <1>1, <1>2 DEF Running

\* A forgotten update leaves the record and the board in agreement.
LEMMA ForgottenImage ==
    ASSUME Inv, [Next]_vars, Held, ~Held', ~Corrected
    PROVE  \/ Running = firmware.app
           \/ \E s \in Slot : board.image[s] = firmware.app /\ board.state[s] = "invalid"
  <1>1. Forgets
    BY JournalMoves
  <1>2. firmware.app = IF JobRow.state = "confirmed" THEN Target ELSE journal.previous
    BY Known DEF RecordFits
  <1>3. Backs(history[journal.job], JobRow.state)
    BY Known DEF Evidence, Backs, JobRow
  <1>4. CASE JobRow.state = "confirmed"
    BY <1>2, <1>3, <1>4, ProvedImage DEF Backs, Supports, Marked
  <1>5. CASE JobRow.state \in {"rolled_back", "rebooting"}
    <2>1. JobRow.state = "rolled_back" /\ Marked("failed")
      <3>1. CASE ~journal.pending /\ In({"confirmed", "rolled_back", "failed"})
        <4>1. journal.state = JobRow.state
          BY <3>1, Known DEF InStep, In, ActiveStates
        <4> QED
          BY <1>3, <1>5, <3>1, <4>1 DEF In, Backs, Supports, Marked
      <3>2. CASE jobs'[journal.job].state = "cancelled"
        <4>1. \E r \in Report : Receives(journal.job, r)
          BY <1>5, <3>2, OwnRow DEF Calm
        <4> QED
          BY <3>2, <4>1 DEF Receives, Report, ReportStates
      <3> QED
        BY <1>1, <3>1, <3>2 DEF Forgets
    <2>2. board.running = Other(journal.slot)
          /\ board.image[Other(journal.slot)] = journal.previous
      BY <2>1 DEF Inv, Device, Slots, Updating, Returned
    <2> QED
      BY <1>2, <2>1, <2>2 DEF Running
  <1>6. CASE JobRow.state \notin {"confirmed", "rolled_back", "rebooting"}
    <2>1. ~Marked("selected")
      BY <1>3, <1>6 DEF Backs, AfterSelection, Marked
    <2> QED
      BY <1>2, <1>6, <2>1, UnselectedImage
  <1> QED
    BY <1>4, <1>5, <1>6

LEMMA RecordMatchesBoardStep ==
    ASSUME Inv, [Next]_vars
    PROVE  RecordMatchesBoard'
  <1> SUFFICES ASSUME ~Held', firmware' # None, ~Corrected'
               PROVE  \/ Running' = firmware'.app
                      \/ \E s \in Slot : /\ board'.image[s] = firmware'.app
                                         /\ board'.state[s] = "invalid"
    BY DEF RecordMatchesBoard, Held
  <1>1. CASE firmware = None
    <2>1. Identify /\ firmware'.app = Running
      BY <1>1, FirstRecord
    <2>2. board' = board
      BY <2>1 DEF Identify
    <2>3. Running' = Running
      BY <2>2 DEF Running
    <2> QED
      BY <2>1, <2>3
  <1>2. CASE firmware # None /\ firmware' # firmware
    <2>1. Reporting /\ (Keeps \/ Acks)
      BY <1>2, Known, StepKinds, QuietRecord
    <2>2. Held /\ (Keeps \/ Acks)
      BY <2>1, ReceivesOwn DEF Reporting, Journaled
    <2> QED
      BY <2>2, ForgetStep, Known, AckedFields, JournalAssumption DEF Keeps, Acks, Held
  <1>3. CASE firmware # None /\ firmware' = firmware
    <2>1. ~Corrected
      BY <1>3 DEF Corrected
    <2>2. CASE Held
      <3>1. board' = board
        BY <2>2, ForgetStep
      <3> QED
        BY <1>3, <2>1, <2>2, <3>1, ForgottenImage DEF Running
    <2>3. CASE ~Held
      <3>1. \/ Running = firmware.app
            \/ \E s \in Slot : board.image[s] = firmware.app /\ board.state[s] = "invalid"
        BY <1>3, <2>1, <2>3, Known DEF BoardMatchesRecord, RecordMatchesBoard, Held
      <3>2. board'.image = board.image /\ (GoesOn \/ Leaves)
        BY <2>3, SettledStep
      <3>3. CASE GoesOn
        BY <1>3, <3>1, <3>2, <3>3 DEF GoesOn, Running
      <3>4. CASE Leaves
        <4>1. board.running \in Slot /\ board.state[board.running] = "valid"
              /\ board.state[Other(board.running)] = "valid"
          BY <2>3, <3>4, Known DEF Leaves, TypeOK, Board, Inv, Device, Slots, Settled
        <4>2. \A s \in Slot : board.state[s] # "invalid"
          BY <4>1, SlotFacts
        <4>3. board'.image[board.running] = firmware'.app
              /\ board'.state[board.running] = "invalid"
          BY <1>3, <3>1, <3>2, <3>4, <4>2 DEF Leaves, Running
        <4> QED
          BY <4>1, <4>3
      <3> QED
        BY <3>2, <3>3, <3>4
    <2> QED
      BY <2>2, <2>3
  <1> QED
    BY <1>1, <1>2, <1>3

----------------------------------------------------------------------------
(* The inductive invariant.                                                *)

LEMMA InitialBoard ==
    LET image == <<FirstImage, None>>
        state == <<"valid", "absent">>
    IN  /\ image \in [Slot -> Image \cup {None}] /\ image[1] = FirstImage /\ image[2] = None
        /\ state \in [Slot -> SlotStates] /\ state[1] = "valid" /\ state[2] = "absent"
        /\ FirstImage # None
  BY ClientAssumption, NoneAssumption DEF Slot, SlotStates

LEMMA InvInit == Init => Inv
  <1> SUFFICES ASSUME Init
               PROVE  Inv
    OBVIOUS
  <1>1. ServiceTypeOK /\ Exclusive
    BY InitType, ExclusiveInit DEF Init
  <1>2. /\ board \in Board /\ board.boot = 1 /\ board.running = 1
        /\ board.state[1] = "valid" /\ board.state[2] = "absent"
        /\ board.image[1] = FirstImage /\ board.image[2] = None
        /\ ~board.confirmed /\ board.boots = 1 /\ board.guard = "ready" /\ board.failed = 0
    BY InitialBoard DEF Init, Board, Slot, MaxBoots
  <1>3. engine \in Engine /\ engine.pc = "idle" /\ ~engine.recovering /\ ~Held
    BY Literals DEF Init, Idle, Engine, Steps, Held
  <1>4. TypeOK
    <2>1. faults \in 0..MaxFaults
      BY ClientAssumption DEF Init
    <2> QED
      BY <1>1, <1>2, <1>3, <2>1 DEF Init, TypeOK
  <1>5. Control /\ Phases /\ Returning
    BY <1>3 DEF Control, Phases, Returning, Working
  <1>6. Slots
    <2>1. Other(1) = 2
      BY DEF Other
    <2> QED
      BY <1>2, <1>3, <2>1, InitialBoard, ClientAssumption DEF Slots, Settled
  <1>7. Counter
    BY <1>2 DEF Init, Counter, HoldTakesThreeBadStarts
  <1>8. \A j \in JobId : jobs[j].state = "none" /\ history[j] = {}
    BY DEF Init, ServiceInit, Unused
  <1>9. Tracking
    BY <1>3, <1>8 DEF Tracking, InStep, LateFits, Untouched, Rows, Active, ActiveStates, Init
  <1>10. Evidence
    BY <1>3, <1>8 DEF Evidence, Supports, Init
  <1>11. Recorded
    BY <1>3
    DEF Recorded, RecordFits, BoardMatchesRecord, RecordMatchesBoard, FloorNotAhead, Init,
        ServiceInit
  <1> QED
    BY <1>1, <1>4, <1>5, <1>6, <1>7, <1>9, <1>10, <1>11 DEF Inv, Device

LEMMA InvStep == Inv /\ [Next]_vars => Inv'
  <1> SUFFICES ASSUME Inv, [Next]_vars
               PROVE  Inv'
    OBVIOUS
  <1>1. Device'
    BY DeviceStep
  <1>2. Exclusive'
    BY Known, PlatformSteps, ExclusiveStep
  <1>3. Tracking'
    BY InStepStep, LateFitsStep, UntouchedStep, RowsStep DEF Tracking
  <1>4. Evidence'
    BY EvidenceKept
  <1>5. Recorded'
    BY RecordFitsStep, RecordMatchesBoardStep, FloorNotAheadStep
    DEF Recorded, BoardMatchesRecord
  <1> QED
    BY <1>1, <1>2, <1>3, <1>4, <1>5 DEF Inv

LEMMA InvAlways == Spec => []Inv
  BY InvInit, InvStep, PTL DEF Spec

----------------------------------------------------------------------------
(* The theorems.                                                           *)

\* The system's variables keep their types through every fault (persist, the
\* otadata entries, the boot counter).
THEOREM UpdateTypeCorrect == Spec => []TypeOK
  <1>1. Inv => TypeOK
    BY DEF Inv, Device
  <1> QED
    BY <1>1, InvAlways, PTL

\* Whatever is lost, delayed or cut short, the platform records an outcome only if
\* it happened on the board: a confirmation is of a target that survived its
\* startup check, a rollback of one that was selected and failed, and a selected
\* target is never recorded as failed or cancelled (tick, recovery, report_update).
THEOREM OutcomesAreTrue == Spec => []OutcomesHappened
  <1>1. Inv => OutcomesHappened
    BY DEF Inv, Evidence, Supports, OutcomesHappened, ConfirmedWasProved, RolledBackReally,
           SelectionIsRecorded, AfterSelection
  <1> QED
    BY <1>1, InvAlways, PTL

\* The journal in flash and the platform's row stay about the same update, at the
\* same report or one apart, and a cancelled one never goes on (flush,
\* report_update, cancel_update).
THEOREM JournalAlwaysTracks == Spec => []JournalTracksJob
  <1>1. ASSUME Inv
        PROVE  JournalTracksJob
    <2>1. ClaimIsJournaled
      BY <1>1, Known DEF ClaimIsJournaled, Untouched, Journaled, Held
    <2>2. JournalInStep
      BY <1>1, Known DEF JournalInStep, InStep, JobRow, Held
    <2>3. ASSUME Held, JobRow.state = "cancelled"
          PROVE  /\ journal.bytes = 0
                 /\ engine.pc \notin {"approve", "download", "stream", "downloaded",
                                        "verify", "select", "commit", "restart"}
      <3>1. journal.bytes = 0 /\ ~(journal.bytes > 0)
        BY <1>1, <2>3, Known DEF InStep
      <3>2. JobRow.sequence = 0
        <4>1. RowFits(journal.job) /\ JobRow \in Job
          BY <1>1, <2>3, Known DEF Rows, JobRow
        <4>2. JobRow.last \in Report => JobRow.last.state # "cancelled"
          BY DEF Report, ReportStates
        <4> QED
          BY <2>3, <4>1, <4>2 DEF RowFits, JobRow, Job
      <3>3. journal.pending \/ In({"queued"})
        <4>1. journal.sequence \in Nat /\ journal.state # "cancelled"
          BY <1>1, <2>3, Known DEF Journal, ReportStates
        <4> QED
          BY <1>1, <2>3, <3>2, <4>1, Known DEF InStep, In
      <3>4. engine.pc \notin Working
        BY <1>1, <3>3 DEF Inv, Device, Control, Phases, Working, In
      <3>5. engine.pc # "downloaded"
        BY <1>1, <3>1, <3>3, Known DEF Control
      <3> QED
        BY <3>1, <3>4, <3>5 DEF Working
    <2> QED
      BY <2>1, <2>2, <2>3 DEF JournalTracksJob, CancelledNeverDownloads, Held, JobRow
  <1> QED
    BY <1>1, InvAlways, PTL

\* The board is held for a local retry only after three starts that were cut short
\* by a power loss, a crash or a failed startup check, with no confirmed start or
\* local retry between them; lost replies and refusals do not count
\* (record_boot_attempt, startup_check).
THEOREM HoldNeedsThreeBadStarts == Spec => []HoldTakesThreeBadStarts
  <1>1. Inv => HoldTakesThreeBadStarts
    BY DEF Inv, Device, Counter
  <1> QED
    BY <1>1, InvAlways, PTL

\* With no update under way the board runs the confirmed image, has left it as
\* invalid, or the owner corrected the record; and the rollback floor never passes
\* the confirmed sequence (report_update, tick, advance_sequence).
THEOREM RecordAlwaysMatches == Spec => []BoardMatchesRecord
  <1>1. Inv => BoardMatchesRecord
    BY DEF Inv, Recorded
  <1> QED
    BY <1>1, InvAlways, PTL

\* Only a download writes a slot.
LEMMA ImagesStay ==
    ASSUME Inv, [Next]_vars, ~BeginDownload, ~Stream
    PROVE  board'.image = board.image
  <1>1. board \in Board /\ faults \in 0..MaxFaults /\ board.running \in Slot
    BY Known DEF TypeOK, Board
  <1>2. ASSUME NEW b \in Board, Start(b, Fine) \/ Start(b, Fault), b.image = board.image
        PROVE  board'.image = board.image
    BY <1>1, <1>2, StartEffect, LoadedType DEF SameSlots
  <1> DEFINE ended == CutShort(board)
  <1>0. ended \in Board /\ ended.image = board.image /\ ended.state = board.state
    BY <1>1, CutType DEF SameSlots
  <1> HIDE DEF ended
  <1>3. ASSUME NEW v \in SlotStates, NEW s \in Slot, NEW b,
               b = [ended EXCEPT !.boot = s, !.state[board.running] = v]
        PROVE  b \in Board /\ b.image = board.image
    <2> DEFINE st == [board.state EXCEPT ![board.running] = v]
    <2>1. st \in [Slot -> SlotStates]
      BY <1>1, OtadataType DEF Board
    <2>2. b = [ended EXCEPT !.boot = s, !.state = st]
      BY <1>0, <1>3 DEF Board
    <2> HIDE DEF st
    <2> QED
      BY <1>0, <2>1, <2>2 DEF Board
  <1>4. CASE Restart \/ PowerLoss
    BY <1>0, <1>1, <1>2, <1>4 DEF Restart, PowerLoss, Reboot, ended
  <1>5. CASE LocalRetry
    <2> DEFINE fresh == [board EXCEPT !.boots = 0, !.failed = 0]
    <2>1. fresh \in Board /\ fresh.image = board.image
      BY <1>1, RetryType DEF SameSlots
    <2>2. Start(fresh, Fine)
      BY <1>5 DEF LocalRetry, Reboot
    <2> HIDE DEF fresh
    <2> QED
      BY <1>2, <2>1, <2>2
  <1>6. CASE StartupConfirmed
    BY <1>1, <1>6, ConfirmedType DEF StartupConfirmed
  <1>7. CASE StartupFailed
    <2> DEFINE o == Other(board.running)
               b == [ended EXCEPT !.boot = o, !.state[board.running] = "invalid"]
               k == [ended EXCEPT !.state[board.running] = "valid"]
    <2>1. o \in Slot /\ "invalid" \in SlotStates /\ "valid" \in SlotStates
      BY <1>1, SlotFacts DEF SlotStates
    <2>2. b \in Board /\ b.image = board.image
      BY <1>3, <2>1
    <2>3. k \in Board /\ k.image = board.image
      <3>1. ended.boot \in Slot
        BY <1>0 DEF Board
      <3>2. k = [ended EXCEPT !.boot = ended.boot, !.state[board.running] = "valid"]
        BY <1>0 DEF Board
      <3> HIDE DEF k
      <3> QED
        BY <1>3, <2>1, <3>1, <3>2
    <2> HIDE DEF b, k
    <2>4. Start(b, Fault) \/ Reboot(ended, Fault) \/ Reboot(k, Fault)
      BY <1>7 DEF StartupFailed, b, k, ended
    <2> QED
      BY <1>0, <1>2, <2>2, <2>3, <2>4 DEF Reboot
  <1>8. CASE SelectTarget
    <2>1. journal \in Journal
      BY <1>8, Known DEF SelectTarget, Control, Working, At
    <2> QED
      BY <1>1, <1>8, <2>1, SelectedType DEF SelectTarget
  <1>9. CASE \/ Poll \/ Resume \/ HeartbeatRefused \/ FlushAnswered \/ FlushLost \/ Reconcile
             \/ Dispatch \/ ApproveStart \/ AfterDownload \/ VerifyTarget \/ CommitSelection
             \/ Identify \/ CancelPressed \/ LateReport \/ Elsewhere \/ UNCHANGED vars
    BY <1>9
    DEF Poll, Resume, HeartbeatRefused, FlushAnswered, FlushLost, Reconcile, Dispatch,
        ApproveStart, AfterDownload, VerifyTarget, Approve, CommitSelection, Identify,
        CancelPressed, LateReport, Elsewhere, vars, deviceVars
  <1> QED
    BY <1>4, <1>5, <1>6, <1>7, <1>8, <1>9 DEF Next, TickStep, BoardStep

\* No update ever writes the slot the board runs from, nor the one it will boot
\* (download, select, the boot loader).
THEOREM LiveSlotsAreSafe == Spec => LiveSlotsUntouched
  <1>1. ASSUME Inv, [Next]_vars
        PROVE  [\A s \in {board.running, board.boot} : board'.image[s] = board.image[s]]_vars
    <2>1. CASE BeginDownload \/ Stream
      <3>1. engine.pc \in {"download", "stream"}
        BY <2>1 DEF BeginDownload, Stream, At
      <3>2. /\ board.running = Other(journal.slot) /\ board.boot = Other(journal.slot)
            /\ board \in Board /\ journal \in Journal
        BY <1>1, <3>1, Writing
      <3>3. board'.image[Other(journal.slot)] = board.image[Other(journal.slot)]
        BY <2>1, <3>2, WrittenType DEF BeginDownload, Stream
      <3> QED
        BY <3>2, <3>3
    <2>2. CASE ~BeginDownload /\ ~Stream
      BY <1>1, <2>2, ImagesStay
    <2> QED
      BY <2>1, <2>2
  <1> QED
    BY <1>1, InvAlways, PTL DEF Spec, LiveSlotsUntouched

\* End to end, with a real client at the other side of a link that loses and
\* delays, a device still has at most one active deployment and it still upgrades
\* the confirmed image (request_update, report_update, poll).
THEOREM SystemActiveSound == Spec => []ActiveIsSound
  <1>1. Inv => ActiveIsSound
    BY DEF Inv, Exclusive, ActiveIsSound
  <1> QED
    BY <1>1, InvAlways, PTL

\* End to end, what the owner sees of the requests is what the service promises:
\* the device with its crashes and delayed reports makes no step that it would not
\* allow (request_update, report_update, expire_queued).
THEOREM SystemKeepsPromise == Spec => KeepsPromise
  <1>1. Init => Promise!Init
    BY PromiseInit DEF Init
  <1>2. Inv /\ [Next]_vars => [Promise!Next]_(Promise!vars)
    BY Known, PlatformSteps, PromiseStep
  <1> QED
    BY <1>1, <1>2, InvAlways, PTL DEF Spec, KeepsPromise, Promise!Spec
=============================================================================
