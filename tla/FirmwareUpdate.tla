-------------------------- MODULE FirmwareUpdate --------------------------
(***************************************************************************)
(* A firmware update end to end: the deployment service, the OTA client of *)
(* the device with its journal in flash, the two application slots and the *)
(* rollback boot loader, and an HTTP link that loses replies and delivers  *)
(* requests late.                                                          *)
(*                                                                         *)
(* A tick of the client is a sequence of steps, one per HTTP exchange or   *)
(* durable write; engine.pc names the next one.  An exchange is one step:  *)
(* the client blocks on it, and what it does with the reply is local.  A   *)
(* fault is anything the client cannot prevent (a lost or late exchange, a *)
(* power loss, a failed flash write, an unhealthy boot, a withdrawn        *)
(* release, a revoked device, ...); MaxFaults bounds them, in any mixture. *)
(***************************************************************************)
EXTENDS DeploymentService

CONSTANTS
    ProgressStep,   \* bytes between two progress reports of the client
    BuildSequence,  \* [Image -> sequence compiled into the image]
    FirstImage,     \* image installed over USB
    DownloadError,  \* what may break a download under way
    MaxFaults

ASSUME ClientAssumption ==
    /\ ProgressStep \in Nat \ {0}
    /\ BuildSequence \in [Image -> Nat]
    /\ FirstImage \in Image
    /\ DownloadError \subseteq ErrorCode
    /\ {"network", "local_cancelled", "storage", "boot_failed", "hash_mismatch",
        "image_rejected"} \subseteq ErrorCode
    /\ MaxFaults \in Nat

Slot == {1, 2}
Other(s) == 3 - s

VARIABLES
    journal,    \* the client's journal in flash, or None
    engine,     \* the client in memory
    board,      \* slots, otadata and what is running
    floor,      \* sequence persisted by advance_sequence
    paired,     \* the device holds the identity of this device row
    late,       \* report requests the platform has yet to receive
    faults,
    history     \* per deployment: what physically happened to its target

deviceVars == <<journal, engine, board, floor, paired, late, history>>
vars == <<serviceVars, deviceVars, faults>>

Journal == [job: JobId, release: Release, previous: Image, slot: Slot,
            state: ReportStates \cup {"queued"}, sequence: 0..MaxSequence,
            bytes: 0..Size, pending: BOOLEAN, error: ErrorCode, committed: BOOLEAN]

Steps == {"idle", "flush", "status", "dispatch", "approve", "download", "stream",
          "downloaded", "verify", "select", "commit", "restart", "stopped"}

ASSUME JournalAssumption == None \notin Journal

\* then: where a tick goes on once its pending report is acknowledged.
Engine == [pc: Steps, then: Steps, interrupted: BOOLEAN, recovering: BOOLEAN,
           failure: ErrorCode, cancel: BOOLEAN, identified: BOOLEAN]

SlotStates == {"absent", "new", "pending", "valid", "invalid", "aborted"}

\* Unconfirmed boots in a row that the guard allows.
MaxBoots == 3

\* guard: the boot counter let the start go on, holds the board for a local
\* retry, or could not be written.  failed (history): the starts that a power
\* loss, a crash or a failed startup check ended unconfirmed since the last
\* confirmed start or local retry.
Board == [image: [Slot -> Image \cup {None}], state: [Slot -> SlotStates],
          running: Slot, boot: Slot, confirmed: BOOLEAN,
          boots: 0..MaxBoots, guard: {"ready", "recovery", "storage"}, failed: Nat]

TypeOK ==
    /\ ServiceTypeOK
    /\ journal \in Journal \cup {None}
    /\ engine \in Engine
    /\ board \in Board
    /\ floor \in Nat
    /\ paired \in BOOLEAN
    /\ late \subseteq [job: JobId, report: Report]
    /\ faults \in 0..MaxFaults
    /\ history \in [JobId -> SUBSET {"selected", "proved", "failed"}]

Idle == [pc |-> "idle", then |-> "idle", interrupted |-> FALSE,
         recovering |-> FALSE, failure |-> "", cancel |-> FALSE,
         identified |-> FALSE]

Init ==
    /\ ServiceInit
    /\ journal = None
    /\ engine = Idle
    /\ board = [image |-> <<FirstImage, None>>, state |-> <<"valid", "absent">>,
                running |-> 1, boot |-> 1, confirmed |-> FALSE,
                boots |-> 1, guard |-> "ready", failed |-> 0]
    /\ floor = 0
    /\ paired = TRUE
    /\ late = {}
    /\ faults = 0
    /\ history = [j \in JobId |-> {}]

----------------------------------------------------------------------------

Fault == faults < MaxFaults /\ faults' = faults + 1
Fine  == UNCHANGED faults

At(pc) == engine.pc = pc
Goto(pc) == [engine EXCEPT !.pc = pc]

Running == board.image[board.running]
Target  == AppOf[journal.release]

\* The report that journal.pending stands for.
PendingReport ==
    [release |-> journal.release, sequence |-> journal.sequence,
     state |-> journal.state, bytes |-> journal.bytes,
     app |-> IF journal.state = "confirmed" THEN Target ELSE journal.previous,
     booted |-> TRUE, error |-> journal.error]

\* persist(): a failed write leaves the old or the new journal and stops the
\* client until the next boot.
SaveAt(cost, new, next) ==
    \/ journal' = new /\ engine' = next /\ cost
    \/ /\ journal' \in {journal, new}
       /\ engine' = [next EXCEPT !.pc = "stopped"]
       /\ Fault

Save(new, next) == SaveAt(Fine, new, next)

\* report(): journal the report, then flush it; at the sequence bound the
\* client can report nothing more.
SubmitFrom(e, cost, state, bytes, error, then) ==
    IF journal.sequence >= MaxSequence
    THEN engine' = [e EXCEPT !.pc = "idle"] /\ UNCHANGED journal /\ cost
    ELSE SaveAt(cost,
                [journal EXCEPT !.state = state, !.sequence = @ + 1, !.bytes = bytes,
                                !.pending = TRUE, !.error = error],
                [e EXCEPT !.pc = "flush", !.then = then])

Submit(cost, state, bytes, error, then) == SubmitFrom(engine, cost, state, bytes, error, then)

Fail(cost, bytes, error) == Submit(cost, "failed", bytes, error, "idle")

\* flush() returned false: a download aborts, anything else ends the tick.
Unflushed(e) ==
    CASE engine.then = "stream"     -> [e EXCEPT !.pc = "downloaded", !.failure = "network"]
      [] engine.then = "downloaded" -> [e EXCEPT !.pc = "idle", !.interrupted = TRUE]
      [] OTHER                      -> [e EXCEPT !.pc = "idle"]

----------------------------------------------------------------------------
(* The beginning of a tick.  The worker ticks only after a heartbeat was   *)
(* answered and the boot was confirmed.                                    *)

\* Mutation of MayTick: the client does not wait for the startup check.
MayTickEarly == At("idle") /\ paired

MayTick == At("idle") /\ board.confirmed /\ paired

\* The platform's side of updates/poll/ and the deployments it offers.
ServePoll == IF MayPoll(Running) THEN PollUpdate(Running) ELSE UNCHANGED serviceVars
Offered == {j \in JobId : MayPoll(Running) /\ Active(j) /\ Authorised(j)}

\* verify_ota_policy with the context of the running image.
PolicyHolds(r) == /\ Sequence[r] > floor
                  /\ Sequence[r] > BuildSequence[Running]
                  /\ Running \in FromApps[r]

\* Mutation of NewJournal: the slot is always the second one.
JournalOfSlotTwo(j) ==
    [job |-> j, release |-> jobs[j].release, previous |-> Running, slot |-> 2,
     state |-> "queued", sequence |-> 0, bytes |-> 0, pending |-> FALSE,
     error |-> "", committed |-> FALSE]

NewJournal(j) ==
    [job |-> j, release |-> jobs[j].release, previous |-> Running,
     slot |-> Other(board.running), state |-> "queued", sequence |-> 0,
     bytes |-> 0, pending |-> FALSE, error |-> "", committed |-> FALSE]

\* Without a journal a tick polls, and adopts a queued deployment.
Poll ==
    /\ MayTick
    /\ Authenticated
    /\ journal = None
    /\ ServePoll
    /\ LET fresh == [engine EXCEPT !.interrupted = FALSE, !.recovering = FALSE]
           adopted == {j \in Offered : jobs[j].state = "queued"
                                       /\ PolicyHolds(jobs[j].release)}
       IN \/ \E j \in adopted : Save(NewJournal(j), [fresh EXCEPT !.pc = "dispatch"])
          \/ adopted = {} /\ engine' = fresh /\ UNCHANGED journal /\ Fine
          \/ engine' = fresh /\ UNCHANGED journal /\ Fault
    /\ UNCHANGED <<board, floor, paired, late, history>>

\* With a journal a tick first checks the running image and flushes.  The
\* journal may also be unreadable.
Resume ==
    /\ MayTick
    /\ Authenticated
    /\ journal # None
    /\ \/ /\ engine' = IF Running \notin {journal.previous, Target} THEN Goto("stopped")
                       ELSE IF journal.pending
                       THEN [engine EXCEPT !.pc = "flush", !.then = "dispatch"]
                       ELSE Goto("dispatch")
          /\ Fine
       \/ engine' = Goto("stopped") /\ Fault
    /\ UNCHANGED <<serviceVars, journal, board, floor, paired, late, history>>

\* A heartbeat answered 401 makes the worker forget its device id.
HeartbeatRefused ==
    /\ MayTick
    /\ ~Authenticated
    /\ paired' = FALSE
    /\ Fine
    /\ UNCHANGED <<serviceVars, journal, engine, board, floor, late, history>>

\* The worker reports the identity of the running image until the platform
\* answers that it is the confirmed one.
Identify ==
    /\ MayTick
    /\ ~engine.identified
    /\ \/ ReportIdentity(Running)
       \/ Authenticated /\ firmware # None /\ firmware.app = Running /\ UNCHANGED serviceVars
    /\ \/ engine' = [engine EXCEPT !.identified = (firmware'.app = Running)] /\ Fine
       \/ UNCHANGED engine /\ Fault
    /\ UNCHANGED <<journal, board, floor, paired, late, history>>

----------------------------------------------------------------------------
(* flush().                                                                *)

FlushAnswered ==
    /\ At("flush")
    /\ IF ReportAccepted(journal.job, PendingReport)
       THEN /\ ReportUpdate(journal.job, PendingReport)
            /\ Save([journal EXCEPT !.pending = FALSE, !.error = ""], Goto(engine.then))
       ELSE /\ engine' = IF Authenticated THEN Goto("status") ELSE Unflushed(engine)
            /\ Fine
            /\ UNCHANGED <<serviceVars, journal>>
    /\ UNCHANGED <<board, floor, paired, late, history>>

\* The platform acted, or will when the request arrives; the client sees a
\* timeout either way.
FlushLost ==
    /\ At("flush")
    /\ Fault
    /\ engine' = Unflushed(engine)
    /\ \/ /\ IF ReportAccepted(journal.job, PendingReport)
             THEN ReportUpdate(journal.job, PendingReport)
             ELSE UNCHANGED serviceVars
          /\ UNCHANGED late
       \/ /\ late' = late \cup {[job |-> journal.job, report |-> PendingReport]}
          /\ UNCHANGED serviceVars
    /\ UNCHANGED <<journal, board, floor, paired, history>>

LateReport ==
    /\ \E m \in late :
          /\ late' = late \ {m}
          /\ IF ReportAccepted(m.job, m.report)
             THEN ReportUpdate(m.job, m.report)
             ELSE UNCHANGED serviceVars
    /\ Fine
    /\ UNCHANGED <<journal, engine, board, floor, paired, history>>

\* Mutations of Reconciled: any refusal drops the journal; the refused report's
\* sequence is kept; the state of the platform is not adopted.
ReconciledByForgetting(remote, e) == Save(None, [e EXCEPT !.interrupted = FALSE])

ReconciledKeepingSequence(remote, e) ==
    Save([journal EXCEPT !.state = remote.state, !.pending = FALSE, !.error = ""],
         [e EXCEPT !.interrupted = TRUE])

ReconciledNever(remote, e) == engine' = e /\ UNCHANGED journal /\ Fine

\* A refused report is reconciled with the state the platform holds.
Reconciled(remote, e) ==
    IF remote.state = "cancelled"
       /\ journal.state \in {"downloading", "failed"} /\ journal.bytes = 0
    THEN Save(None, [e EXCEPT !.interrupted = FALSE])
    ELSE IF remote.state \in ActiveStates
            /\ journal.sequence \in {remote.sequence, remote.sequence + 1}
    THEN Save([journal EXCEPT !.state = remote.state, !.sequence = remote.sequence,
                              !.bytes = remote.bytes, !.pending = FALSE,
                              !.error = ""],
              [e EXCEPT !.interrupted = TRUE])
    ELSE engine' = e /\ UNCHANGED journal /\ Fine

Reconcile ==
    /\ At("status")
    /\ IF Authenticated
       THEN /\ QueryStatus(journal.job)
            /\ \/ Reconciled(ExpireQueued(journal.job), Unflushed(engine))
               \/ engine' = Unflushed(engine) /\ UNCHANGED journal /\ Fault
       ELSE engine' = Unflushed(engine) /\ Fine /\ UNCHANGED <<serviceVars, journal>>
    /\ UNCHANGED <<board, floor, paired, late, history>>

----------------------------------------------------------------------------
(* tick() once the journal holds no pending report.                        *)

\* esp_ota state of the journal's slot, as recovery() reads it.
TargetFailed     == /\ board.boot = board.running
                    /\ journal.slot # board.running
                    /\ board.state[journal.slot] \in {"aborted", "invalid"}
PreviousSelected == /\ board.boot = board.running
                    /\ journal.slot # board.running
                    /\ board.state[journal.slot] \in {"new", "valid"}

\* Mutation of RollbackProved: the predecessor running again is enough.
PredecessorRuns == Running = journal.previous

\* A rollback is reported only on recorded evidence that the target was
\* selected and then failed.
RollbackProved == TargetFailed /\ journal.committed

\* Mutation of NewFloor: any acknowledged outcome raises the floor.
FloorOfAnyOutcome == Sequence[journal.release]

NewFloor == IF journal.state = "confirmed" THEN Sequence[journal.release] ELSE floor

\* An acknowledged outcome ends the update on the device.
Finish ==
    /\ journal.state \in {"confirmed", "rolled_back", "failed"}
    /\ \/ /\ floor' = NewFloor
          /\ Save(None, [engine EXCEPT !.pc = "idle", !.interrupted = FALSE,
                                       !.recovering = FALSE])
       \/ \* advance_sequence() failed
          /\ journal.state = "confirmed"
          /\ engine' = Goto("stopped")
          /\ floor' \in {floor, NewFloor}
          /\ Fault
          /\ UNCHANGED journal

\* What a boot selection came to.
Resolve ==
    /\ journal.state = "rebooting"
    /\ engine.interrupted \/ Running = Target
    /\ IF Running = Target THEN Submit(Fine, "confirmed", Size, "", "idle")
       ELSE IF ~engine.recovering /\ ~journal.committed
       THEN Fail(Fine, Size, "approval_unavailable")
       ELSE IF RollbackProved
       THEN Submit(Fine, "rolled_back", Size, "boot_failed", "idle")
       ELSE IF PreviousSelected
       THEN Fail(Fine, Size, "storage")
       ELSE engine' = Goto("stopped") /\ UNCHANGED journal /\ Fine
    /\ UNCHANGED floor

\* An update cut short before its boot selection is never resumed.
GiveUp ==
    /\ journal.state \in {"queued", "downloading", "verifying"}
    /\ engine.interrupted
    /\ Fail(Fine, journal.bytes, "network")
    /\ UNCHANGED floor

Advance ==
    /\ ~engine.interrupted
    /\ \/ /\ journal.state = "queued"
          /\ Submit(Fine, "downloading", 0, "", "approve")
       \/ /\ \/ journal.state \in {"downloading", "verifying"}
             \/ journal.state = "rebooting" /\ Running # Target
          /\ engine' = Goto("approve")
          /\ Fine
          /\ UNCHANGED journal
    /\ UNCHANGED floor

Dispatch ==
    /\ At("dispatch")
    /\ Finish \/ Resolve \/ GiveUp \/ Advance
    /\ UNCHANGED <<serviceVars, board, paired, late, history>>

\* approved(): the platform still offers this very deployment.
Approved == journal.job \in Offered /\ PolicyHolds(journal.release)

Refuse(cost) == Fail(cost, journal.bytes, "approval_unavailable")

Approve(next) ==
    /\ ServePoll
    /\ \/ Approved /\ next
       \/ ~Approved /\ Refuse(Fine)
       \/ Refuse(Fault)
    /\ UNCHANGED <<board, floor, paired, late, history>>

\* Only a claimed download goes on to download.
Proceed == /\ engine' = Goto(IF journal.state = "downloading" THEN "download" ELSE "verify")
           /\ Fine
           /\ UNCHANGED journal

\* The first approval of a tick.
ApproveStart == At("approve") /\ Approve(Proceed)

----------------------------------------------------------------------------
(* download(): artifact/ is served while the platform holds the deployment *)
(* as downloading; the slot is erased, then written with progress reports. *)

Abort(code) == [engine EXCEPT !.pc = "downloaded", !.failure = code]
Cancelled   == [Abort("local_cancelled") EXCEPT !.cancel = FALSE]

ArtifactServed == /\ Authenticated
                  /\ jobs[journal.job].state = "downloading"
                  /\ Authorised(journal.job)

\* Whether erasing a slot also drops its otadata entry is up to the SDK.
Erased(kept) == [board EXCEPT !.image[journal.slot] = None,
                              !.state[journal.slot] = IF kept THEN @ ELSE "absent"]

BeginDownload ==
    /\ At("download")
    /\ \/ /\ ~engine.cancel
          /\ ArtifactServed
          /\ \E kept \in BOOLEAN : board' = Erased(kept)
          /\ engine' = Goto("stream")
          /\ Fine
       \/ /\ engine' = IF engine.cancel THEN Cancelled ELSE Abort("network")
          /\ IF engine.cancel \/ ~ArtifactServed THEN Fine ELSE Fault
          /\ UNCHANGED board
    /\ UNCHANGED <<serviceVars, journal, floor, paired, late, history>>

\* Mutation of NextBytes: the last chunk counts as a full one.
NextBytesUncapped == journal.bytes + ProgressStep

NextBytes == IF journal.bytes + ProgressStep < Size THEN journal.bytes + ProgressStep ELSE Size

\* The last progress report was acknowledged; the stream goes on, ends or breaks.
Stream ==
    /\ At("stream")
    /\ \/ /\ journal.bytes < Size
          /\ \/ /\ ~engine.cancel
                /\ Submit(Fine, "downloading", NextBytes, "", "stream")
             \/ /\ engine.cancel
                /\ engine' = Cancelled
                /\ Fine
                /\ UNCHANGED journal
          /\ UNCHANGED board
       \/ /\ journal.bytes = Size
          /\ board' = [board EXCEPT !.image[journal.slot] = Target]
          /\ engine' = Abort("")
          /\ Fine
          /\ UNCHANGED journal
       \/ /\ \E code \in DownloadError : engine' = Abort(code)
          /\ Fault
          /\ UNCHANGED <<journal, board>>
    /\ UNCHANGED <<serviceVars, floor, paired, late, history>>

\* Back in tick(): a progress report left pending is flushed again first.
AfterDownload ==
    /\ At("downloaded")
    /\ IF journal.pending
       THEN /\ engine' = [engine EXCEPT !.pc = "flush", !.then = "downloaded"]
            /\ Fine
            /\ UNCHANGED journal
       ELSE IF engine.failure = ""
       THEN Submit(Fine, "verifying", Size, "", "verify")
       ELSE Fail(Fine, journal.bytes, engine.failure)
    /\ UNCHANGED <<serviceVars, board, floor, paired, late, history>>

----------------------------------------------------------------------------
(* Boot selection.                                                         *)

\* verify_target() re-reads the written slot.
TargetIntact == board.image[journal.slot] = Target

Reject(cost) == Fail(cost, Size, IF journal.state = "rebooting"
                                 THEN "image_rejected" ELSE "hash_mismatch")

\* Mutation of Accept: the boot slot is selected before the platform agreed.
AcceptUnreported == engine' = Goto("select") /\ UNCHANGED journal /\ Fine

Accept == IF journal.state = "rebooting"
          THEN engine' = Goto("select") /\ UNCHANGED journal /\ Fine
          ELSE Submit(Fine, "rebooting", Size, "", "select")

\* The second approval, then the verification of the slot.
VerifyTarget ==
    /\ At("verify")
    /\ Approve(\/ TargetIntact /\ Accept
               \/ ~TargetIntact /\ Reject(Fine)
               \/ Reject(Fault))

Mark(job, what) == history' = [history EXCEPT ![job] = @ \cup {what}]

Selected(b) == [b EXCEPT !.boot = journal.slot, !.state[journal.slot] = "new"]

\* select() is refused (a cancellation, an expired policy, otadata that was
\* not written), succeeds, or cannot be read back and stops the client.
SelectTarget ==
    /\ At("select")
    /\ \/ /\ ~engine.cancel
          /\ board' = Selected(board)
          /\ Mark(journal.job, "selected")
          /\ engine' = Goto("commit")
          /\ Fine
          /\ UNCHANGED journal
       \/ /\ engine.cancel
          /\ LET taken == [engine EXCEPT !.cancel = FALSE]
             IN  SubmitFrom(taken, Fine, "failed", Size, "local_cancelled", "idle")
          /\ UNCHANGED <<board, history>>
       \/ /\ \E code \in {"approval_unavailable", "image_rejected"} : Fail(Fault, Size, code)
          /\ UNCHANGED <<board, history>>
       \/ /\ engine' = Goto("stopped")
          /\ Fault
          /\ \/ UNCHANGED <<board, history>>
             \/ board' = Selected(board) /\ Mark(journal.job, "selected")
          /\ UNCHANGED journal
    /\ UNCHANGED <<serviceVars, floor, paired, late>>

CommitSelection ==
    /\ At("commit")
    /\ Save([journal EXCEPT !.committed = TRUE], Goto("restart"))
    /\ UNCHANGED <<serviceVars, board, floor, paired, late, history>>

----------------------------------------------------------------------------
(* Booting.  A new image is tried once; unless it is confirmed the next    *)
(* boot aborts it and returns to the other slot.                           *)

BootedEngine == [Idle EXCEPT !.interrupted = journal # None,
                             !.recovering  = journal # None]

\* What the boot loader starts.
Loaded(b) ==
    CASE b.state[b.boot] = "new" ->
           [b EXCEPT !.running = b.boot, !.confirmed = FALSE, !.state[b.boot] = "pending"]
      [] b.state[b.boot] = "pending" ->
           [b EXCEPT !.running = Other(b.boot), !.confirmed = FALSE,
                     !.boot = Other(b.boot), !.state[b.boot] = "aborted"]
      [] OTHER -> [b EXCEPT !.running = b.boot, !.confirmed = FALSE]

\* record_boot_attempt: the third unconfirmed boot in a row is the last.
Counted(b) == IF b.boots >= MaxBoots THEN [b EXCEPT !.guard = "recovery"]
              ELSE [b EXCEPT !.boots = @ + 1, !.guard = "ready"]

\* The deployment whose target is in slot s, by the journal.
Boots(s) == journal # None /\ journal.slot = s /\ board.image[s] = Target

NoteFailure(s) == IF Boots(s) THEN Mark(journal.job, "failed") ELSE UNCHANGED history

\* A counter that cannot be written leaves the board without drivers.
Start(b, cost) ==
    /\ \/ board' = Counted(Loaded(b)) /\ cost
       \/ board' \in {[x EXCEPT !.guard = "storage"] : x \in {Loaded(b), Counted(Loaded(b))}}
          /\ Fault
    /\ engine' = BootedEngine

Reboot(b, cost) ==
    /\ Start(b, cost)
    /\ IF b.state[b.boot] = "pending" THEN NoteFailure(b.boot) ELSE UNCHANGED history

Restart ==
    /\ At("restart")
    /\ Reboot(board, Fine)
    /\ UNCHANGED <<serviceVars, journal, floor, paired, late>>

\* A start that ends before its startup check confirmed it.
CutShort(b) == IF b.confirmed THEN b ELSE [b EXCEPT !.failed = @ + 1]

\* Power loss or a crash, at any step.
PowerLoss ==
    /\ Reboot(CutShort(board), Fault)
    /\ UNCHANGED <<serviceVars, journal, floor, paired, late>>

\* Mutation of Confirmed: the boot counter keeps the boots before.
ConfirmedCounting == [board EXCEPT !.confirmed = TRUE, !.state[board.running] = "valid",
                                   !.failed = 0]

Confirmed == [board EXCEPT !.confirmed = TRUE, !.state[board.running] = "valid",
                           !.boots = 0, !.failed = 0]

\* startup_check after sixty seconds.
StartupConfirmed ==
    /\ board.guard = "ready"
    /\ ~board.confirmed
    /\ board' = Confirmed
    /\ IF Boots(board.running) THEN Mark(journal.job, "proved") ELSE UNCHANGED history
    /\ Fine
    /\ UNCHANGED <<serviceVars, journal, engine, floor, paired, late>>

\* An unhealthy start, or one whose confirmation could not be stored, marks the
\* running image invalid and boots the other one if otadata holds it as valid
\* and complete; otherwise it only restarts, confirmed in otadata or not.
StartupFailed ==
    /\ board.guard = "ready"
    /\ ~board.confirmed
    /\ LET other == Other(board.running)
           ended == CutShort(board)
       IN IF board.state[other] = "valid" /\ board.image[other] # None
          THEN /\ Start([ended EXCEPT !.boot = other, !.state[board.running] = "invalid"], Fault)
               /\ NoteFailure(board.running)
          ELSE \/ Reboot(ended, Fault)
               \/ Reboot([ended EXCEPT !.state[board.running] = "valid"], Fault)
    /\ UNCHANGED <<serviceVars, journal, floor, paired, late>>

\* The owner holds BOOT for five seconds on a board held for recovery.
LocalRetry ==
    /\ board.guard = "recovery"
    /\ Reboot([board EXCEPT !.boots = 0, !.failed = 0], Fine)
    /\ UNCHANGED <<serviceVars, journal, floor, paired, late>>

\* The owner presses Cancel on the board; the request stays set until some
\* download or selection consumes it.
CancelPressed ==
    /\ board.guard = "ready"
    /\ ~engine.cancel
    /\ engine' = [engine EXCEPT !.cancel = TRUE]
    /\ Fault
    /\ UNCHANGED <<serviceVars, journal, board, floor, paired, late, history>>

----------------------------------------------------------------------------

\* What the owner and the platform do meanwhile; expiry and the timer are no
\* faults, the rest is.
Undisturbed ==
    \/ \E r \in Release, k \in RequestKey : RequestUpdate(r, k) \/ RepeatRequest(r, k)
    \/ \E j \in JobId : CancelUpdate(j) \/ ApprovalExpires(j)
    \/ \E silent \in BOOLEAN : ReconcileDeployments(silent)
    \/ \E r \in Release : ReconcileLocalRecovery(r)
    \/ TimePasses

Disturbed ==
    \/ RevokeDevice
    \/ \E r \in Withdrawable : TrustChanges(r)
    \/ DeviceChanges

Elsewhere == /\ (Undisturbed /\ Fine) \/ (Disturbed /\ Fault)
             /\ UNCHANGED deviceVars

TickStep ==
    \/ Poll \/ Resume \/ HeartbeatRefused
    \/ FlushAnswered \/ FlushLost \/ Reconcile
    \/ Dispatch \/ ApproveStart
    \/ BeginDownload \/ Stream \/ AfterDownload
    \/ VerifyTarget \/ SelectTarget \/ CommitSelection

BoardStep == Restart \/ PowerLoss \/ StartupConfirmed \/ StartupFailed
             \/ LocalRetry \/ CancelPressed

Next == TickStep \/ Identify \/ BoardStep \/ LateReport \/ Elsewhere

\* The worker loops, the board boots, and the maintenance timer runs; a fault is
\* never owed.  An approval expires in the end.
Fairness ==
    /\ WF_vars((TickStep \/ Restart \/ StartupConfirmed) /\ Fine)
    /\ WF_vars(ReconcileDeployments(FALSE) /\ Fine /\ UNCHANGED deviceVars)
    /\ \A j \in JobId : WF_vars(ApprovalExpires(j) /\ Fine /\ UNCHANGED deviceVars)

Spec     == Init /\ [][Next]_vars
FairSpec == Spec /\ Fairness

----------------------------------------------------------------------------
(* Properties.                                                             *)

ConfirmedWasProved ==
    \A j \in JobId : jobs[j].state = "confirmed" => "proved" \in history[j]

RolledBackReally ==
    \A j \in JobId : jobs[j].state = "rolled_back" => {"selected", "failed"} \subseteq history[j]

SelectionIsRecorded ==
    \A j \in JobId : "selected" \in history[j] =>
        jobs[j].state \in {"rebooting", "confirmed", "rolled_back"}

\* What the platform records of a deployment happened on this board, whatever was
\* lost, repeated or interrupted on the way.  Confirmed: its target booted and
\* survived its startup check.  Rolled back: the target was selected, and
\* failed.  And a selected target is never recorded as failed or cancelled
\* (startup_check, tick, recovery, report_update).
OutcomesHappened == ConfirmedWasProved /\ RolledBackReally /\ SelectionIsRecorded

ClaimIsJournaled ==
    \A j \in JobId : Active(j) /\ jobs[j].state # "queued" =>
        journal # None /\ journal.job = j

\* An update that is being given up may be a report behind: a delayed report can
\* still arrive after the device reconciled its refusal.
JournalInStep ==
    journal # None =>
        LET job == jobs[journal.job]
        IN  IF journal.pending
            THEN journal.sequence \in {job.sequence, job.sequence + 1}
            ELSE \/ /\ journal.sequence = job.sequence
                    /\ \/ journal.state = job.state
                       \/ journal.state = "queued" /\ job.state = "cancelled"
                 \/ engine.interrupted /\ journal.sequence + 1 = job.sequence

CancelledNeverDownloads ==
    journal # None /\ jobs[journal.job].state = "cancelled" =>
        /\ journal.bytes = 0
        /\ engine.pc \notin {"approve", "download", "stream", "downloaded",
                               "verify", "select", "commit", "restart"}

\* The journal in flash and the row of the platform are about the same update,
\* at the same step: no crash, lost reply or reconciliation makes the device
\* forget a deployment it claimed, which would block every later one, or go on
\* with one the owner cancelled (flush, report_update, cancel_update).
JournalTracksJob == ClaimIsJournaled /\ JournalInStep /\ CancelledNeverDownloads

\* No update writes the slot the board runs from, nor the slot it will boot
\* (download writes the journal's slot, chosen before any restart).
LiveSlotsUntouched ==
    [][\A s \in {board.running, board.boot} : board'.image[s] = board.image[s]]_vars

FloorNotAhead == floor > 0 => firmware # None /\ floor <= firmware.sequence

\* The owner corrected the record after a local USB flash.
Corrected == Purpose[firmware.release] = "local-recovery"

RecordMatchesBoard ==
    journal = None /\ firmware # None =>
        \/ Running = firmware.app
        \/ \E s \in Slot : board.image[s] = firmware.app /\ board.state[s] = "invalid"
        \/ Corrected

\* With no update under way the board runs the image the platform records as
\* confirmed, unless that image failed a later startup check and the boot loader
\* left it, or the owner corrected the record, which takes an observation up to
\* ten minutes old; and its rollback floor never passes the confirmed sequence,
\* or it would refuse what the platform offers (report_update, startup_check,
\* tick, advance_sequence, reconcile_local_recovery).
BoardMatchesRecord == RecordMatchesBoard /\ FloorNotAhead

\* Every claimed or queued deployment ends, unless the board waits for a local
\* recovery or lost its pairing: no exchange leaves both sides waiting
\* (flush, approved, expire_queued, reconcile_deployments).
Settles == \A j \in JobId :
    Active(j) ~> \/ ~Active(j)
                 \/ At("stopped") \/ board.guard # "ready"
                 \/ ~paired

\* The board is held for a local retry only after three starts that a power
\* loss, a crash or a failed startup check ended, with no confirmed start or
\* local retry between them: no restart of an update, lost reply or refusal uses
\* up an attempt, so a target that does not start still rolls back and is
\* reported (record_boot_attempt, startup_check).
HoldTakesThreeBadStarts == board.guard = "recovery" => board.failed >= MaxBoots
=============================================================================
