------------------------- MODULE DeploymentService -------------------------
(***************************************************************************)
(* The firmware deployment service of the platform, seen from the rows of  *)
(* one device: its deployments, its confirmed image and the image it was   *)
(* last observed to run.  Every operation of the code runs in a            *)
(* transaction that holds the device row lock, so each is one action.      *)
(*                                                                         *)
(* The device is an open environment here: it may send any report of       *)
(* Reports for any deployment at any time.  FirmwareUpdate closes the      *)
(* system with the real device client.                                     *)
(***************************************************************************)
EXTENDS Integers, FiniteSets

CONSTANTS
    Release,        \* signed releases imported into the platform
    Purpose,        \* [Release -> "initial-install" | "ota" | "local-recovery"]
    Sequence,       \* [Release -> the signed sequence number]
    AppOf,          \* [Release -> hash of the application image]
    FromApps,       \* [Release -> images an "ota" release may replace]
    Image,          \* application hashes a board may run
    JobId,          \* deployment identifiers
    RequestKey,     \* idempotency keys of owner requests
    Reports,        \* reports the device side may submit
    Withdrawable,   \* releases whose trust may change
    ErrorCode,      \* error codes a report may carry ("" is none)
    SelectionError, \* codes accepted when boot selection itself failed
    Size,           \* bytes of an application image
    MinProgress,    \* least progress between two download reports
    MaxSequence,    \* greatest report sequence (128 in the code)
    None            \* absent row, field or report

ActiveStates   == {"queued", "downloading", "verifying", "rebooting"}
TerminalStates == {"confirmed", "failed", "rolled_back", "cancelled"}
ReportStates   == {"downloading", "verifying", "rebooting",
                   "confirmed", "rolled_back", "failed"}

Report == [release: Release, sequence: 1..MaxSequence, state: ReportStates,
           bytes: 0..Size, app: Image, booted: BOOLEAN, error: ErrorCode]

Firmware == [release: Release, app: Image, sequence: Nat \ {0}]

ASSUME ReleaseAssumption ==
    /\ Purpose \in [Release -> {"initial-install", "ota", "local-recovery"}]
    /\ Sequence \in [Release -> Nat \ {0}]
    /\ AppOf \in [Release -> Image]
    /\ FromApps \in [Release -> SUBSET Image]
    /\ \A r \in Release : AppOf[r] \notin FromApps[r]

ASSUME BoundAssumption ==
    /\ Size \in Nat \ {0}
    /\ MinProgress \in Nat \ {0}
    /\ MaxSequence \in Nat \ {0}

ASSUME ReportAssumption ==
    /\ Reports \subseteq Report
    /\ Withdrawable \subseteq Release
    /\ {"", "approval_unavailable", "owner_cancelled"} \subseteq ErrorCode
    /\ SelectionError \subseteq ErrorCode \ {""}

ASSUME NoneAssumption ==
    None \notin Release \cup Image \cup RequestKey \cup Report \cup Firmware

VARIABLES
    jobs,        \* the FirmwareDeployment rows of the device
    firmware,    \* its DeviceFirmware row: the confirmed image
    device,      \* [revoked, ownerActive, compatible]
    verifiable,  \* releases whose signature, trust and artifact verify now
    observed,    \* image of a recent DeviceImageObservation, or None
    polled       \* the OTA client polled within the last 90 seconds

serviceVars == <<jobs, firmware, device, verifiable, observed, polled>>

Unused == [state |-> "none", release |-> None, previous |-> None, key |-> None,
           sequence |-> 0, bytes |-> 0, last |-> None, error |-> "",
           attention |-> FALSE, expired |-> FALSE]

Job == [state: ActiveStates \cup TerminalStates, release: Release,
        previous: Image, key: RequestKey, sequence: 0..MaxSequence,
        bytes: 0..Size, last: Report \cup {None}, error: ErrorCode,
        attention: BOOLEAN, expired: BOOLEAN]

ServiceTypeOK ==
    /\ jobs \in [JobId -> Job \cup {Unused}]
    /\ firmware \in Firmware \cup {None}
    /\ device \in [revoked: BOOLEAN, ownerActive: BOOLEAN, compatible: BOOLEAN]
    /\ verifiable \subseteq Release
    /\ observed \in Image \cup {None}
    /\ polled \in BOOLEAN

ServiceInit ==
    /\ jobs = [j \in JobId |-> Unused]
    /\ firmware = None
    /\ device = [revoked |-> FALSE, ownerActive |-> TRUE, compatible |-> TRUE]
    /\ verifiable = Release
    /\ observed = None
    /\ polled = FALSE

----------------------------------------------------------------------------
(* Queries shared by the operations.                                       *)

Verified(r, purpose) == r \in verifiable /\ Purpose[r] = purpose

Active(j) == jobs[j].state \in ActiveStates

\* firmware_api answers 401 unless this holds.
Authenticated == ~device.revoked /\ device.ownerActive

\* A queued approval that can no longer be used.
Lapsed(j) == \/ jobs[j].expired
             \/ ~Authenticated
             \/ ~Verified(jobs[j].release, "ota")

\* Mutation of ExpireQueued: a claimed deployment lapses too.
ExpireActive(j) ==
    IF Active(j) /\ Lapsed(j)
    THEN [jobs[j] EXCEPT !.state = "cancelled", !.error = "approval_unavailable"]
    ELSE jobs[j]

\* The row of j after expire_queued.
ExpireQueued(j) ==
    IF jobs[j].state = "queued" /\ Lapsed(j)
    THEN [jobs[j] EXCEPT !.state = "cancelled", !.error = "approval_unavailable"]
    ELSE jobs[j]

Eligible(r) == /\ Verified(r, "ota")
               /\ Sequence[r] > firmware.sequence
               /\ firmware.app \in FromApps[r]

\* The device may act on this approval now: checked when a download or a boot
\* selection is authorised, repeated or not.
Authorised(j) == /\ Verified(jobs[j].release, "ota")
                 /\ ~jobs[j].expired
                 /\ device.compatible

----------------------------------------------------------------------------
(* Owner operations.                                                       *)

\* Mutation of NewJob: the image it replaces is not recorded.
JobWithoutImage(r, k) == [Unused EXCEPT !.state = "queued", !.release = r, !.key = k]

NewJob(r, k) == [Unused EXCEPT !.state = "queued", !.release = r,
                               !.previous = firmware.app, !.key = k]

\* Mutation of Unblocked: any queued deployment gives way.
NoneClaimed == \A j \in JobId : Active(j) => jobs[j].state = "queued"

\* An active deployment blocks a request unless it has just lapsed.
Unblocked == \A j \in JobId : Active(j) => ExpireQueued(j).state \notin ActiveStates

\* A refused request rolls the whole transaction back.
RequestUpdate(r, k) ==
    /\ polled
    /\ Authenticated
    /\ \A j \in JobId : jobs[j].key # k
    /\ Unblocked
    /\ firmware # None
    /\ device.compatible
    /\ Eligible(r)
    /\ \E n \in JobId :
          /\ jobs[n] = Unused
          /\ jobs' = [j \in JobId |-> IF j = n THEN NewJob(r, k)
                                      ELSE IF Active(j) THEN ExpireQueued(j)
                                      ELSE jobs[j]]
    /\ UNCHANGED <<firmware, device, verifiable, observed, polled>>

\* The same key returns the earlier deployment, lapsed if it has to be.
RepeatRequest(r, k) ==
    /\ polled
    /\ Authenticated
    /\ \E j \in JobId :
          /\ jobs[j].key = k
          /\ jobs[j].release = r
          /\ jobs' = [jobs EXCEPT ![j] = ExpireQueued(j)]
    /\ UNCHANGED <<firmware, device, verifiable, observed, polled>>

\* Mutation of CancelUpdate: a claimed deployment can be cancelled as well.
CancelActive(j) ==
    /\ Active(j)
    /\ jobs' = [jobs EXCEPT ![j].state = "cancelled", ![j].error = "owner_cancelled"]
    /\ UNCHANGED <<firmware, device, verifiable, observed, polled>>

CancelUpdate(j) ==
    /\ jobs[j].state = "queued"
    /\ jobs' = [jobs EXCEPT ![j].state = "cancelled", ![j].error = "owner_cancelled"]
    /\ UNCHANGED <<firmware, device, verifiable, observed, polled>>

\* Mutation of RecoveryRelease: an older image may be recorded.
AnyRecoveryRelease(r) == observed = AppOf[r] /\ Verified(r, "local-recovery")

\* The reviewed release that explains the image the board was seen to run.
RecoveryRelease(r) == /\ observed = AppOf[r]
                      /\ Verified(r, "local-recovery")
                      /\ Sequence[r] > firmware.sequence

\* Mutation of NothingActive: a deployment still queued does not count.
NothingClaimed == \A j \in JobId : Active(j) => jobs[j].state = "queued"

NothingActive == \A j \in JobId : ~Active(j)

\* Owner-approved correction after a local USB flash of a signed image.
ReconcileLocalRecovery(r) ==
    /\ Authenticated
    /\ device.compatible
    /\ NothingActive
    /\ firmware # None
    /\ RecoveryRelease(r)
    /\ firmware' = [release |-> r, app |-> observed, sequence |-> Sequence[r]]
    /\ polled' = FALSE
    /\ UNCHANGED <<jobs, device, verifiable, observed>>

\* Mutation of Flagged: the platform guesses that the update failed.
GuessedFailed(j) == [jobs[j] EXCEPT !.state = "failed", !.error = "approval_unavailable"]

\* The owner is asked to look; the outcome stays for the device to report.
Flagged(j) == [jobs[j] EXCEPT !.attention = TRUE]

\* The revoke view clears the credential, then device_revoked looks at the
\* active deployment: a queued one lapses, a claimed one needs attention.
RevokeDevice ==
    /\ device' = [device EXCEPT !.revoked = TRUE]
    /\ jobs' = [j \in JobId |->
                 IF ~Active(j) THEN jobs[j]
                 ELSE IF jobs[j].state = "queued"
                 THEN [jobs[j] EXCEPT !.state = "cancelled",
                                      !.error = "approval_unavailable"]
                 ELSE Flagged(j)]
    /\ UNCHANGED <<firmware, verifiable, observed, polled>>

----------------------------------------------------------------------------
(* Device operations, all behind firmware_api.                             *)

\* The confirmed image, or the target of a deployment that is rebooting.
MayPoll(h) == /\ Authenticated
              /\ firmware # None
              /\ \/ firmware.app = h
                 \/ \E j \in JobId : /\ jobs[j].state = "rebooting"
                                     /\ AppOf[jobs[j].release] = h

PollUpdate(h) ==
    /\ MayPoll(h)
    /\ polled' = TRUE
    /\ jobs' = [j \in JobId |-> IF Active(j) THEN ExpireQueued(j) ELSE jobs[j]]
    /\ UNCHANGED <<firmware, device, verifiable, observed>>

\* status/ lapses a queued deployment before describing it.
QueryStatus(j) ==
    /\ Authenticated
    /\ jobs[j] # Unused
    /\ jobs' = [jobs EXCEPT ![j] = ExpireQueued(j)]
    /\ UNCHANGED <<firmware, device, verifiable, observed, polled>>

Transitions == [s \in ActiveStates |->
    CASE s = "queued"      -> {"downloading", "failed"}
      [] s = "downloading" -> {"downloading", "verifying", "failed"}
      [] s = "verifying"   -> {"rebooting", "failed"}
      [] s = "rebooting"   -> {"confirmed", "rolled_back", "failed"}]

\* A verbatim retry of the last report; an authorisation is checked again.
RepeatAccepted(j, r) ==
    /\ r = jobs[j].last
    /\ r.state \in {"downloading", "rebooting"} => Authorised(j)

InOrder(j, r) == /\ r.release = jobs[j].release
                 /\ Active(j)
                 /\ r.sequence = jobs[j].sequence + 1
                 /\ r.state \in Transitions[jobs[j].state]
                 /\ jobs[j].bytes <= r.bytes

ProgressOK(j, r) ==
    /\ jobs[j].state = "queued" => r.bytes = 0
    /\ jobs[j].state = "downloading" /\ r.state = "downloading" =>
          /\ r.bytes > jobs[j].bytes
          /\ r.bytes = Size \/ r.bytes - jobs[j].bytes >= MinProgress
    /\ r.state \in {"verifying", "rebooting", "confirmed", "rolled_back"} => r.bytes = Size

EvidenceOK(j, r) ==
    /\ r.app = IF r.state = "confirmed" THEN AppOf[jobs[j].release] ELSE jobs[j].previous
    /\ r.state \in {"confirmed", "rolled_back"} => r.booted
    /\ r.state \in {"failed", "rolled_back"} <=> r.error # ""
    /\ jobs[j].state = "rebooting" /\ r.state = "failed" =>
          r.booted /\ r.error \in SelectionError

NextAccepted(j, r) ==
    /\ InOrder(j, r)
    /\ ProgressOK(j, r)
    /\ EvidenceOK(j, r)
    /\ r.state \in {"downloading", "rebooting"} => Authorised(j)
    /\ r.state = "confirmed" => Sequence[jobs[j].release] > firmware.sequence

ReportAccepted(j, r) == /\ Authenticated
                        /\ jobs[j] # Unused
                        /\ RepeatAccepted(j, r) \/ NextAccepted(j, r)

Reported(j, r) ==
    [jobs[j] EXCEPT !.state = r.state, !.sequence = r.sequence, !.bytes = r.bytes,
                    !.last = r, !.error = r.error, !.attention = FALSE]

\* Mutation of ConfirmedRow: the previous image stays recorded.
ConfirmedPrevious(j) == [release  |-> jobs[j].release,
                         app      |-> jobs[j].previous,
                         sequence |-> Sequence[jobs[j].release]]

\* The DeviceFirmware row a confirmation of j leaves.
ConfirmedRow(j) == [release  |-> jobs[j].release,
                    app      |-> AppOf[jobs[j].release],
                    sequence |-> Sequence[jobs[j].release]]

\* A confirmation moves the confirmed image in the same transaction.
ReportUpdate(j, r) ==
    /\ ReportAccepted(j, r)
    /\ IF RepeatAccepted(j, r)
       THEN UNCHANGED <<jobs, firmware>>
       ELSE /\ jobs' = [jobs EXCEPT ![j] = Reported(j, r)]
            /\ firmware' = IF r.state = "confirmed" THEN ConfirmedRow(j) ELSE firmware
    /\ UNCHANGED <<device, verifiable, observed, polled>>

\* The newest verifiable initial-install release carrying image h.
InitialReleases(h) == {r \in Release : Verified(r, "initial-install") /\ AppOf[r] = h}

ConfirmInitial(h) ==
    /\ firmware = None
    /\ device.compatible
    /\ \E r \in InitialReleases(h) :
          /\ \A o \in InitialReleases(h) : Sequence[o] <= Sequence[r]
          /\ firmware' = [release |-> r, app |-> h, sequence |-> Sequence[r]]
    /\ UNCHANGED observed

\* A changed image is observed, never confirmed.
ObserveImage(h) ==
    /\ firmware # None
    /\ firmware.app # h
    /\ observed' = h
    /\ UNCHANGED firmware

ReportIdentity(h) ==
    /\ Authenticated
    /\ ConfirmInitial(h) \/ ObserveImage(h)
    /\ UNCHANGED <<jobs, device, verifiable, polled>>

----------------------------------------------------------------------------
(* The maintenance timer and the environment.                              *)

\* silent: the claimed deployment has had no report for 15 minutes.
ReconcileDeployments(silent) ==
    /\ \E j \in JobId : Active(j)
    /\ jobs' = [j \in JobId |->
          IF ~Active(j) THEN jobs[j]
          ELSE IF jobs[j].state = "queued" THEN ExpireQueued(j)
          ELSE IF silent \/ jobs[j].expired \/ ~Authenticated
          THEN Flagged(j)
          ELSE jobs[j]]
    /\ UNCHANGED <<firmware, device, verifiable, observed, polled>>

\* expires_at passes.
ApprovalExpires(j) ==
    /\ Active(j)
    /\ ~jobs[j].expired
    /\ jobs' = [jobs EXCEPT ![j].expired = TRUE]
    /\ UNCHANGED <<firmware, device, verifiable, observed, polled>>

\* A release is withdrawn, its key or artifact becomes untrusted, or the trust
\* registry is corrected.
TrustChanges(r) ==
    /\ verifiable' = IF r \in verifiable THEN verifiable \ {r} ELSE verifiable \cup {r}
    /\ UNCHANGED <<jobs, firmware, device, observed, polled>>

\* The account is disabled or enabled; a heartbeat changes the hardware report.
DeviceChanges ==
    /\ \/ device' = [device EXCEPT !.ownerActive = ~@]
       \/ Authenticated /\ device' = [device EXCEPT !.compatible = ~@]
    /\ UNCHANGED <<jobs, firmware, verifiable, observed, polled>>

\* Ninety seconds without a poll; ten minutes without an identity report.
TimePasses ==
    /\ polled \/ observed # None
    /\ polled' = FALSE
    /\ observed' \in {observed, None}
    /\ UNCHANGED <<jobs, firmware, device, verifiable>>

OwnerNext ==
    \/ \E r \in Release, k \in RequestKey : RequestUpdate(r, k) \/ RepeatRequest(r, k)
    \/ \E j \in JobId : CancelUpdate(j)
    \/ \E r \in Release : ReconcileLocalRecovery(r)
    \/ RevokeDevice

DeviceNext ==
    \/ \E h \in Image : PollUpdate(h) \/ ReportIdentity(h)
    \/ \E j \in JobId : QueryStatus(j)
    \/ \E j \in JobId, r \in Reports : ReportUpdate(j, r)

PlatformNext ==
    \/ \E silent \in BOOLEAN : ReconcileDeployments(silent)
    \/ \E j \in JobId : ApprovalExpires(j)
    \/ \E r \in Withdrawable : TrustChanges(r)
    \/ DeviceChanges
    \/ TimePasses

ServiceNext == OwnerNext \/ DeviceNext \/ PlatformNext

ServiceSpec == ServiceInit /\ [][ServiceNext]_serviceVars

----------------------------------------------------------------------------
(* Properties.                                                             *)

OneActive == \A i, j \in JobId : Active(i) /\ Active(j) => i = j

ActiveStillApplies ==
    \A j \in JobId : Active(j) =>
        /\ firmware # None
        /\ jobs[j].previous = firmware.app
        /\ Sequence[jobs[j].release] > firmware.sequence
        /\ firmware.app \in FromApps[jobs[j].release]

\* At most one deployment of a device is active, and it still upgrades the
\* confirmed image it was approved for: nothing moves that image under it, so
\* its confirmation can never be refused as a decrease, whatever requests,
\* expiries and reports interleave (request_update, reconcile_local_recovery,
\* report_update).
ActiveIsSound == OneActive /\ ActiveStillApplies

\* An ota release is the confirmed one only through a confirmed deployment
\* whose evidence named the target image as the one that booted.
ConfirmedByEvidence ==
    firmware # None /\ Purpose[firmware.release] = "ota" =>
        \E j \in JobId : /\ jobs[j].state = "confirmed"
                         /\ jobs[j].release = firmware.release
                         /\ jobs[j].last.app = firmware.app
                         /\ jobs[j].last.booted

\* The confirmed sequence never decreases, and a different image is confirmed
\* only with a greater sequence.
SequenceAdvances ==
    [][firmware # None => /\ firmware' # None
                          /\ firmware'.sequence >= firmware.sequence
                          /\ firmware'.app # firmware.app =>
                                firmware'.sequence > firmware.sequence]_serviceVars

----------------------------------------------------------------------------
(* The service implements UpdatePromise.                                   *)

PhaseOf(j) == CASE jobs[j].state = "none"      -> "none"
                [] jobs[j].state = "queued"    -> "waiting"
                [] jobs[j].state = "confirmed" -> "installed"
                [] jobs[j].state = "cancelled" -> "dropped"
                [] jobs[j].state \in {"failed", "rolled_back"} -> "failed"
                [] OTHER -> "claimed"

Promise == INSTANCE UpdatePromise WITH
    Request   <- JobId,
    phase     <- [j \in JobId |-> PhaseOf(j)],
    installed <- IF firmware = None THEN 0 ELSE firmware.sequence

\* Every step of the service is a step the owner was promised, or none at all.
KeepsPromise == Promise!Spec
=============================================================================
