---------------------- MODULE DeploymentService_proofs ----------------------
(***************************************************************************)
(* Theorems about DeploymentService, for any set of deployments, releases, *)
(* images and reports.                                                     *)
(***************************************************************************)
EXTENDS DeploymentService, TLAPS

Row == Job \cup {Unused}

\* A step of the service whatever well-formed report it is sent, so that the
\* lemmas also serve the systems that close the service with a real client.
AnyDeviceNext ==
    \/ \E h \in Image : PollUpdate(h) \/ ReportIdentity(h)
    \/ \E j \in JobId : QueryStatus(j)
    \/ \E j \in JobId, r \in Report : ReportUpdate(j, r)

ServiceStep == OwnerNext \/ AnyDeviceNext \/ PlatformNext

\* The reports of an instance are some of them.
LEMMA StepOfService == [ServiceNext]_serviceVars => [ServiceStep]_serviceVars
  BY ReportAssumption DEF ServiceNext, ServiceStep, DeviceNext, AnyDeviceNext

\* A row that is not unused is a deployment.
LEMMA UsedRow ==
    ASSUME NEW row \in Row, row.state # "none"
    PROVE  row \in Job
  <1>1. Unused.state = "none"
    BY DEF Unused
  <1>2. row # Unused
    BY <1>1
  <1> QED
    BY <1>2 DEF Row

\* Every change the service makes to one row leaves a row of the right type.
LEMMA RowTypes ==
    ASSUME ServiceTypeOK, NEW j \in JobId
    PROVE  /\ jobs[j] \in Row
           /\ ExpireQueued(j) \in Row
           /\ Active(j) => Flagged(j) \in Row
  <1>1. jobs[j] \in Row
    BY DEF ServiceTypeOK, Row
  <1>2. ExpireQueued(j) \in Row
    <2>1. CASE jobs[j].state = "queued"
      <3>1. jobs[j] \in Job
        BY <1>1, <2>1, UsedRow
      <3> QED
        BY <1>1, <3>1, ReportAssumption DEF ExpireQueued, Row, Job, TerminalStates
    <2>2. CASE jobs[j].state # "queued"
      BY <1>1, <2>2 DEF ExpireQueued
    <2> QED
      BY <2>1, <2>2
  <1>3. ASSUME Active(j) PROVE Flagged(j) \in Row
    <2>1. jobs[j] \in Job
      BY <1>1, <1>3, UsedRow DEF Active, ActiveStates
    <2> QED
      BY <2>1 DEF Flagged, Row, Job
  <1> QED
    BY <1>1, <1>2, <1>3

\* A new deployment and an accepted report give rows of the right type.
LEMMA NewRowTypes ==
    ASSUME ServiceTypeOK
    PROVE  /\ \A r \in Release, k \in RequestKey : firmware # None => NewJob(r, k) \in Row
           /\ \A j \in JobId, r \in Report : jobs[j] # Unused => Reported(j, r) \in Row
           /\ \A j \in JobId : jobs[j] # Unused => ConfirmedRow(j) \in Firmware
  <1>1. ASSUME NEW r \in Release, NEW k \in RequestKey, firmware # None
        PROVE  NewJob(r, k) \in Row
    <2>1. firmware.app \in Image
      BY <1>1 DEF ServiceTypeOK, Firmware
    <2>2. 0 \in 0..MaxSequence /\ 0 \in 0..Size
      BY BoundAssumption
    <2>3. "" \in ErrorCode
      BY ReportAssumption
    <2> QED
      BY <1>1, <2>1, <2>2, <2>3 DEF NewJob, Unused, Row, Job, ActiveStates
  <1>2. ASSUME NEW j \in JobId, jobs[j] # Unused
        PROVE  jobs[j] \in Job
    BY <1>2 DEF ServiceTypeOK
  <1>3. ASSUME NEW j \in JobId, NEW r \in Report, jobs[j] # Unused
        PROVE  Reported(j, r) \in Row
    <2>1. jobs[j] \in Job
      BY <1>2, <1>3
    <2>2. /\ r.state \in ActiveStates \cup TerminalStates
          /\ r.sequence \in 0..MaxSequence
          /\ r.bytes \in 0..Size
          /\ r.error \in ErrorCode
          /\ r \in Report \cup {None}
      BY <1>3, BoundAssumption DEF Report, ReportStates, ActiveStates, TerminalStates
    <2> QED
      BY <2>1, <2>2 DEF Reported, Row, Job
  <1>4. ASSUME NEW j \in JobId, jobs[j] # Unused
        PROVE  ConfirmedRow(j) \in Firmware
    <2>1. jobs[j].release \in Release
      BY <1>2, <1>4 DEF Job
    <2> QED
      BY <2>1, ReleaseAssumption DEF ConfirmedRow, Firmware
  <1> QED
    BY <1>1, <1>3, <1>4

\* The empty tables are well typed.
LEMMA InitType == ServiceInit => ServiceTypeOK
  <1> SUFFICES ASSUME ServiceInit PROVE ServiceTypeOK
    OBVIOUS
  <1>1. jobs \in [JobId -> Job \cup {Unused}]
    BY DEF ServiceInit
  <1>2. device \in [revoked: BOOLEAN, ownerActive: BOOLEAN, compatible: BOOLEAN]
    BY DEF ServiceInit
  <1> QED
    BY <1>1, <1>2 DEF ServiceInit, ServiceTypeOK

\* Actions that only rewrite rows keep the type as soon as every row they
\* write has it.
LEMMA NextType == ServiceTypeOK /\ [ServiceStep]_serviceVars => ServiceTypeOK'
  <1> SUFFICES ASSUME ServiceTypeOK, [ServiceStep]_serviceVars
               PROVE  ServiceTypeOK'
    OBVIOUS
  <1> USE DEF Row
  <1>1. ASSUME NEW r \in Release, NEW k \in RequestKey, RequestUpdate(r, k)
        PROVE  ServiceTypeOK'
    <2>1. NewJob(r, k) \in Row
      BY <1>1, NewRowTypes DEF RequestUpdate
    <2>2. \A j \in JobId : jobs[j] \in Row /\ ExpireQueued(j) \in Row
      BY RowTypes
    <2>3. jobs' \in [JobId -> Row]
      BY <1>1, <2>1, <2>2 DEF RequestUpdate
    <2> QED
      BY <1>1, <2>3 DEF RequestUpdate, ServiceTypeOK
  <1>2. ASSUME NEW r \in Release, NEW k \in RequestKey, RepeatRequest(r, k)
        PROVE  ServiceTypeOK'
    BY <1>2, RowTypes DEF RepeatRequest, ServiceTypeOK
  <1>3. ASSUME NEW j \in JobId, CancelUpdate(j)
        PROVE  ServiceTypeOK'
    <2>1. jobs[j] \in Job
      BY <1>3, RowTypes, UsedRow DEF CancelUpdate
    <2>2. [jobs[j] EXCEPT !.state = "cancelled", !.error = "owner_cancelled"] \in Row
      BY <2>1, ReportAssumption DEF Job, TerminalStates
    <2> QED
      BY <1>3, <2>2 DEF CancelUpdate, ServiceTypeOK
  <1>4. ASSUME NEW r \in Release, ReconcileLocalRecovery(r)
        PROVE  ServiceTypeOK'
    <2>1. [release |-> r, app |-> observed, sequence |-> Sequence[r]] \in Firmware
      BY <1>4, ReleaseAssumption DEF ReconcileLocalRecovery, RecoveryRelease, Firmware
    <2> QED
      BY <1>4, <2>1 DEF ReconcileLocalRecovery, ServiceTypeOK
  <1>5. ASSUME RevokeDevice
        PROVE  ServiceTypeOK'
    <2>1. ASSUME NEW j \in JobId, jobs[j].state = "queued"
          PROVE  [jobs[j] EXCEPT !.state = "cancelled", !.error = "approval_unavailable"] \in Row
      <3>1. jobs[j] \in Job
        BY <2>1, RowTypes, UsedRow
      <3> QED
        BY <3>1, ReportAssumption DEF Job, TerminalStates
    <2>2. \A j \in JobId : jobs[j] \in Row /\ (Active(j) => Flagged(j) \in Row)
      BY RowTypes
    <2>3. jobs' \in [JobId -> Row]
      BY <1>5, <2>1, <2>2 DEF RevokeDevice
    <2> QED
      BY <1>5, <2>3 DEF RevokeDevice, ServiceTypeOK
  <1>6. ASSUME NEW h \in Image, PollUpdate(h)
        PROVE  ServiceTypeOK'
    <2>1. jobs' \in [JobId -> Row]
      BY <1>6, RowTypes DEF PollUpdate
    <2> QED
      BY <1>6, <2>1 DEF PollUpdate, ServiceTypeOK
  <1>7. ASSUME NEW h \in Image, ReportIdentity(h)
        PROVE  ServiceTypeOK'
    <2>1. firmware' \in Firmware \cup {None}
      BY <1>7, ReleaseAssumption
      DEF ReportIdentity, ConfirmInitial, InitialReleases, ObserveImage, ServiceTypeOK, Firmware
    <2>2. observed' \in Image \cup {None}
      BY <1>7 DEF ReportIdentity, ConfirmInitial, ObserveImage, ServiceTypeOK
    <2> QED
      BY <1>7, <2>1, <2>2 DEF ReportIdentity, ServiceTypeOK
  <1>8. ASSUME NEW j \in JobId, QueryStatus(j)
        PROVE  ServiceTypeOK'
    BY <1>8, RowTypes DEF QueryStatus, ServiceTypeOK
  <1>9. ASSUME NEW j \in JobId, NEW r \in Report, ReportUpdate(j, r)
        PROVE  ServiceTypeOK'
    <2>1. jobs[j] # Unused /\ r \in Report
      BY <1>9, ReportAssumption DEF ReportUpdate, ReportAccepted
    <2>2. Reported(j, r) \in Row /\ ConfirmedRow(j) \in Firmware
      BY <2>1, NewRowTypes
    <2>3. jobs' \in [JobId -> Row] /\ firmware' \in Firmware \cup {None}
      BY <1>9, <2>2 DEF ReportUpdate, ServiceTypeOK
    <2> QED
      BY <1>9, <2>3 DEF ReportUpdate, ServiceTypeOK
  <1>10. ASSUME NEW silent \in BOOLEAN, ReconcileDeployments(silent)
         PROVE  ServiceTypeOK'
    <2>1. jobs' \in [JobId -> Row]
      BY <1>10, RowTypes DEF ReconcileDeployments
    <2> QED
      BY <1>10, <2>1 DEF ReconcileDeployments, ServiceTypeOK
  <1>11. ASSUME NEW j \in JobId, ApprovalExpires(j)
         PROVE  ServiceTypeOK'
    <2>1. jobs[j] \in Job
      BY <1>11, RowTypes, UsedRow DEF ApprovalExpires, Active, ActiveStates
    <2>2. [jobs[j] EXCEPT !.expired = TRUE] \in Row
      BY <2>1 DEF Job
    <2> QED
      BY <1>11, <2>2 DEF ApprovalExpires, ServiceTypeOK
  <1>12. ASSUME NEW r \in Withdrawable, TrustChanges(r)
         PROVE  ServiceTypeOK'
    BY <1>12, ReportAssumption DEF TrustChanges, ServiceTypeOK
  <1>13. ASSUME DeviceChanges
         PROVE  ServiceTypeOK'
    BY <1>13 DEF DeviceChanges, ServiceTypeOK
  <1>14. ASSUME TimePasses
         PROVE  ServiceTypeOK'
    BY <1>14 DEF TimePasses, ServiceTypeOK
  <1>15. ASSUME UNCHANGED serviceVars
         PROVE  ServiceTypeOK'
    BY <1>15 DEF serviceVars, ServiceTypeOK
  <1> QED
    BY <1>1, <1>2, <1>3, <1>4, <1>5, <1>6, <1>7, <1>8, <1>9, <1>10, <1>11, <1>12, <1>13,
       <1>14, <1>15
    DEF ServiceStep, OwnerNext, AnyDeviceNext, PlatformNext

\* Every row keeps its type: in particular a report accepted from the device
\* never leaves a field of a deployment outside its bounds (report_update).
THEOREM ServiceTypeCorrect == ServiceSpec => []ServiceTypeOK
  BY InitType, NextType, StepOfService, PTL DEF ServiceSpec

----------------------------------------------------------------------------
(* One active deployment, and it still applies.                            *)

Requesting == \E r \in Release, k \in RequestKey : RequestUpdate(r, k)

\* Row b is about the same update as row a.
SameUpdate(a, b) == a.release = b.release /\ a.previous = b.previous

\* Expiry cancels a queued row and leaves any other as it is.
LEMMA ExpiryCancels ==
    ASSUME ServiceTypeOK, NEW j \in JobId
    PROVE  /\ SameUpdate(jobs[j], ExpireQueued(j))
           /\ \/ ExpireQueued(j) = jobs[j]
              \/ jobs[j].state = "queued" /\ ExpireQueued(j).state = "cancelled"
  <1>1. CASE jobs[j].state = "queued" /\ Lapsed(j)
    <2>1. jobs[j] \in Job
      BY <1>1, RowTypes, UsedRow
    <2> QED
      BY <1>1, <2>1 DEF ExpireQueued, SameUpdate, Job
  <1>2. CASE ~(jobs[j].state = "queued" /\ Lapsed(j))
    BY <1>2 DEF ExpireQueued, SameUpdate
  <1> QED
    BY <1>1, <1>2

\* A request is the only step that makes a row active, and no step changes
\* what an active row is about.
LEMMA OnlyRequestActivates ==
    ASSUME ServiceTypeOK, [ServiceStep]_serviceVars, ~Requesting,
           NEW j \in JobId, Active(j)'
    PROVE  Active(j) /\ SameUpdate(jobs[j], jobs'[j])
  <1> DEFINE Kept == Active(j) /\ SameUpdate(jobs[j], jobs'[j])
  <1>1. \A e \in {jobs[j], ExpireQueued(j)} :
           e.state \in ActiveStates => Active(j) /\ SameUpdate(jobs[j], e)
    BY ExpiryCancels DEF Active, ActiveStates, SameUpdate
  <1>2. jobs'[j] = jobs[j] => Kept
    BY DEF Active, SameUpdate
  <1>3. ASSUME NEW r \in Release, NEW k \in RequestKey, RepeatRequest(r, k)
        PROVE  Kept
    <2>1. jobs'[j] \in {jobs[j], ExpireQueued(j)}
      BY <1>3 DEF RepeatRequest, ServiceTypeOK
    <2> QED
      BY <2>1, <1>1 DEF Active
  <1>4. ASSUME NEW i \in JobId, CancelUpdate(i)
        PROVE  Kept
    <2>1. CASE i = j
      <3>1. jobs[j] \in Job
        BY <1>4, <2>1, RowTypes, UsedRow DEF CancelUpdate
      <3>2. jobs'[j].state = "cancelled"
        BY <1>4, <2>1, <3>1 DEF CancelUpdate, ServiceTypeOK, Job
      <3> QED
        BY <3>2 DEF Active, ActiveStates
    <2>2. CASE i # j
      BY <1>2, <1>4, <2>2 DEF CancelUpdate, ServiceTypeOK
    <2> QED
      BY <2>1, <2>2
  <1>5. ASSUME RevokeDevice \/ \E silent \in BOOLEAN : ReconcileDeployments(silent)
        PROVE  Kept
    <2>1. CASE ~Active(j)
      BY <1>2, <1>5, <2>1 DEF RevokeDevice, ReconcileDeployments
    <2>2. CASE Active(j)
      <3>1. jobs[j] \in Job
        BY <2>2, RowTypes, UsedRow DEF Active, ActiveStates
      <3>2. SameUpdate(jobs[j], Flagged(j)) /\ Flagged(j).state = jobs[j].state
        BY <3>1 DEF Flagged, SameUpdate, Job
      <3>3. \/ jobs'[j] = jobs[j]
            \/ jobs'[j] = ExpireQueued(j)
            \/ jobs'[j] = Flagged(j)
            \/ jobs'[j] = [jobs[j] EXCEPT !.state = "cancelled",
                                          !.error = "approval_unavailable"]
        BY <1>5, <2>2 DEF RevokeDevice, ReconcileDeployments
      <3>4. CASE jobs'[j] = [jobs[j] EXCEPT !.state = "cancelled",
                                            !.error = "approval_unavailable"]
        <4>1. jobs'[j].state = "cancelled"
          BY <3>1, <3>4 DEF Job
        <4> QED
          BY <4>1 DEF Active, ActiveStates
      <3> QED
        BY <1>1, <2>2, <3>2, <3>3, <3>4 DEF Active
    <2> QED
      BY <2>1, <2>2
  <1>6. ASSUME NEW h \in Image, PollUpdate(h)
        PROVE  Kept
    BY <1>1, <1>6 DEF PollUpdate, Active
  <1>7. ASSUME NEW i \in JobId, QueryStatus(i)
        PROVE  Kept
    <2>1. jobs'[j] \in {jobs[j], ExpireQueued(j)}
      BY <1>7 DEF QueryStatus, ServiceTypeOK
    <2> QED
      BY <2>1, <1>1 DEF Active
  <1>8. ASSUME NEW i \in JobId, NEW r \in Report, ReportUpdate(i, r)
        PROVE  Kept
    <2>1. CASE i = j /\ ~RepeatAccepted(i, r)
      <3>1. Active(j)
        BY <1>8, <2>1 DEF ReportUpdate, ReportAccepted, NextAccepted, InOrder
      <3>2. jobs[j] \in Job
        BY <3>1, RowTypes, UsedRow DEF Active, ActiveStates
      <3>3. jobs'[j] = Reported(j, r)
        BY <1>8, <2>1 DEF ReportUpdate, ServiceTypeOK
      <3> QED
        BY <3>1, <3>2, <3>3 DEF Reported, SameUpdate, Job
    <2>2. CASE ~(i = j /\ ~RepeatAccepted(i, r))
      BY <1>2, <1>8, <2>2 DEF ReportUpdate, ServiceTypeOK
    <2> QED
      BY <2>1, <2>2
  <1>9. ASSUME NEW i \in JobId, ApprovalExpires(i)
        PROVE  Kept
    <2>1. CASE i = j
      <3>1. jobs[j] \in Job
        BY <1>9, <2>1, RowTypes, UsedRow DEF ApprovalExpires, Active, ActiveStates
      <3> QED
        BY <1>9, <2>1, <3>1 DEF ApprovalExpires, SameUpdate, ServiceTypeOK, Job, Active
    <2>2. CASE i # j
      BY <1>2, <1>9, <2>2 DEF ApprovalExpires, ServiceTypeOK
    <2> QED
      BY <2>1, <2>2
  <1>10. ASSUME UNCHANGED jobs
         PROVE  Kept
    BY <1>2, <1>10
  <1> QED
    BY <1>3, <1>4, <1>5, <1>6, <1>7, <1>8, <1>9, <1>10
    DEF ServiceStep, OwnerNext, AnyDeviceNext, PlatformNext, Requesting, ReconcileLocalRecovery,
        ReportIdentity, TrustChanges, DeviceChanges, TimePasses, serviceVars

\* A request leaves exactly the new deployment active, in a row that was unused.
LEMMA RequestLeavesOne ==
    ASSUME ServiceTypeOK, NEW r \in Release, NEW k \in RequestKey, RequestUpdate(r, k)
    PROVE  \E n \in JobId :
              /\ jobs[n] = Unused
              /\ jobs'[n] = NewJob(r, k)
              /\ \A j \in JobId : Active(j)' => j = n
              /\ \A j \in JobId : j # n =>
                    jobs'[j] = IF Active(j) THEN ExpireQueued(j) ELSE jobs[j]
  <1>1. PICK n \in JobId :
           /\ jobs[n] = Unused
           /\ jobs' = [j \in JobId |-> IF j = n THEN NewJob(r, k)
                                       ELSE IF Active(j) THEN ExpireQueued(j)
                                       ELSE jobs[j]]
    BY DEF RequestUpdate
  <1>2. ASSUME NEW j \in JobId, Active(j)', j # n
        PROVE  FALSE
    BY <1>1, <1>2 DEF RequestUpdate, Unblocked, Active
  <1> QED
    BY <1>1, <1>2

\* The two invariants that make updates exclusive and applicable.
Exclusive == ServiceTypeOK /\ OneActive /\ ActiveStillApplies

\* No step takes the confirmed image away from under an active deployment.
LEMMA ImageStays ==
    ASSUME Exclusive, [ServiceStep]_serviceVars, NEW j \in JobId, Active(j), Active(j)'
    PROVE  firmware' = firmware
  <1>1. ASSUME NEW r \in Release, ReconcileLocalRecovery(r)
        PROVE  FALSE
    BY <1>1 DEF ReconcileLocalRecovery, NothingActive
  <1>2. ASSUME NEW h \in Image, ReportIdentity(h)
        PROVE  firmware' = firmware
    BY <1>2 DEF ReportIdentity, ConfirmInitial, ObserveImage, Exclusive, ActiveStillApplies
  <1>3. ASSUME NEW i \in JobId, NEW r \in Report, ReportUpdate(i, r), firmware' # firmware
        PROVE  FALSE
    <2>1. ~RepeatAccepted(i, r) /\ r.state = "confirmed"
      BY <1>3 DEF ReportUpdate
    <2>2. Active(i)
      BY <1>3, <2>1 DEF ReportUpdate, ReportAccepted, NextAccepted, InOrder
    <2>3. i = j
      BY <2>2 DEF Exclusive, OneActive
    <2>4. jobs[j] \in Job
      BY RowTypes, UsedRow DEF Active, ActiveStates, Exclusive
    <2>5. jobs'[j].state = "confirmed"
      <3>1. jobs'[j] = Reported(j, r)
        BY <1>3, <2>1, <2>3 DEF ReportUpdate, Exclusive, ServiceTypeOK
      <3>2. Reported(j, r).state = r.state
        BY <2>4 DEF Reported, Job
      <3> QED
        BY <3>1, <3>2, <2>1
    <2> QED
      BY <2>5 DEF Active, ActiveStates
  <1> QED
    BY <1>1, <1>2, <1>3
    DEF ServiceStep, OwnerNext, AnyDeviceNext, PlatformNext, RequestUpdate, RepeatRequest,
        CancelUpdate, RevokeDevice, PollUpdate, QueryStatus, ReconcileDeployments,
        ApprovalExpires, TrustChanges, DeviceChanges, TimePasses, serviceVars

\* The empty tables hold the inductive invariant.
LEMMA ExclusiveInit == ServiceInit => Exclusive
  <1> SUFFICES ASSUME ServiceInit PROVE Exclusive
    OBVIOUS
  <1>1. \A j \in JobId : jobs[j].state = "none"
    BY DEF ServiceInit, Unused
  <1> QED
    BY <1>1, InitType
    DEF Exclusive, OneActive, ActiveStillApplies, Active, ActiveStates

\* Every operation preserves the inductive invariant.
LEMMA ExclusiveStep == Exclusive /\ [ServiceStep]_serviceVars => Exclusive'
  <1> SUFFICES ASSUME Exclusive, [ServiceStep]_serviceVars
               PROVE  Exclusive'
    OBVIOUS
  <1>1. ServiceTypeOK'
    BY NextType DEF Exclusive
  <1>2. CASE ~Requesting
    <2>1. OneActive'
      BY <1>2, OnlyRequestActivates DEF Exclusive, OneActive
    <2>2. ActiveStillApplies'
      <3> SUFFICES ASSUME NEW j \in JobId, Active(j)'
                   PROVE  /\ firmware' # None
                          /\ jobs'[j].previous = firmware'.app
                          /\ Sequence[jobs'[j].release] > firmware'.sequence
                          /\ firmware'.app \in FromApps[jobs'[j].release]
        BY DEF ActiveStillApplies
      <3>1. Active(j) /\ SameUpdate(jobs[j], jobs'[j])
        BY <1>2, OnlyRequestActivates DEF Exclusive
      <3>2. firmware' = firmware
        BY <3>1, ImageStays
      <3> QED
        BY <3>1, <3>2 DEF Exclusive, ActiveStillApplies, SameUpdate
    <2> QED
      BY <1>1, <2>1, <2>2 DEF Exclusive
  <1>3. CASE Requesting
    <2>1. PICK r \in Release, k \in RequestKey : RequestUpdate(r, k)
      BY <1>3 DEF Requesting
    <2>2. PICK n \in JobId : /\ jobs'[n] = NewJob(r, k)
                             /\ \A j \in JobId : Active(j)' => j = n
      BY <2>1, RequestLeavesOne DEF Exclusive
    <2>3. OneActive'
      BY <2>2 DEF OneActive
    <2>4. NewJob(r, k).release = r /\ NewJob(r, k).previous = firmware.app
      BY DEF NewJob, Unused
    <2>5. ActiveStillApplies'
      BY <2>1, <2>2, <2>4 DEF ActiveStillApplies, RequestUpdate, Eligible
    <2> QED
      BY <1>1, <2>3, <2>5 DEF Exclusive
  <1> QED
    BY <1>2, <1>3

\* The inductive invariant holds throughout every behaviour.
LEMMA ExclusiveAlways == ServiceSpec => []Exclusive
  BY ExclusiveInit, ExclusiveStep, StepOfService, PTL DEF ServiceSpec

\* At most one deployment of a device is ever active, and the confirmed image never
\* moves under it, so the decrease that report_update refuses at the last moment
\* cannot arise.
THEOREM ActiveSound == ServiceSpec => []ActiveIsSound
  <1>1. Exclusive => ActiveIsSound
    BY DEF Exclusive, ActiveIsSound
  <1> QED
    BY <1>1, ExclusiveAlways, PTL

----------------------------------------------------------------------------
(* The confirmed image.                                                    *)

\* What an accepted report does to its deployment.
LEMMA ReportStep ==
    ASSUME ServiceTypeOK, NEW j \in JobId, NEW r \in Report, ReportUpdate(j, r),
           ~RepeatAccepted(j, r)
    PROVE  /\ Active(j) /\ jobs[j] \in Job
           /\ r.state \in Transitions[jobs[j].state]
           /\ r.sequence = jobs[j].sequence + 1
           /\ jobs'[j].state = r.state
           /\ jobs'[j].sequence = r.sequence
           /\ jobs'[j].last = r
           /\ SameUpdate(jobs[j], jobs'[j])
           /\ \A i \in JobId \ {j} : jobs'[i] = jobs[i]
  <1>1. /\ Active(j)
        /\ r.state \in Transitions[jobs[j].state]
        /\ r.sequence = jobs[j].sequence + 1
    BY DEF ReportUpdate, ReportAccepted, NextAccepted, InOrder
  <1>2. jobs[j] \in Job
    BY <1>1, RowTypes, UsedRow DEF Active, ActiveStates
  <1>3. jobs' = [jobs EXCEPT ![j] = Reported(j, r)]
    BY DEF ReportUpdate
  <1>4. jobs'[j] = Reported(j, r) /\ \A i \in JobId \ {j} : jobs'[i] = jobs[i]
    BY <1>3 DEF ServiceTypeOK
  <1>5. /\ Reported(j, r).state = r.state
        /\ Reported(j, r).sequence = r.sequence
        /\ Reported(j, r).last = r
        /\ SameUpdate(jobs[j], Reported(j, r))
    BY <1>2 DEF Reported, SameUpdate, Job
  <1> QED
    BY <1>1, <1>2, <1>4, <1>5

\* A deployment that has ended stays as it is.
LEMMA OutcomeStays ==
    ASSUME ServiceTypeOK, [ServiceStep]_serviceVars, NEW j \in JobId,
           jobs[j].state \in TerminalStates
    PROVE  jobs'[j] = jobs[j]
  <1>1. ~Active(j) /\ jobs[j] # Unused /\ jobs[j].state # "queued" /\ ExpireQueued(j) = jobs[j]
    <2>1. Unused.state = "none"
      BY DEF Unused
    <2>2. jobs[j] # Unused
      BY <2>1 DEF TerminalStates
    <2> QED
      BY <2>2 DEF Active, ActiveStates, TerminalStates, ExpireQueued
  <1>2. ASSUME NEW r \in Release, NEW k \in RequestKey, RequestUpdate(r, k)
        PROVE  jobs'[j] = jobs[j]
    BY <1>1, <1>2, RequestLeavesOne
  <1>3. ASSUME NEW r \in Release, NEW k \in RequestKey, RepeatRequest(r, k)
        PROVE  jobs'[j] = jobs[j]
    BY <1>1, <1>3 DEF RepeatRequest, ServiceTypeOK
  <1>4. ASSUME NEW i \in JobId, CancelUpdate(i)
        PROVE  jobs'[j] = jobs[j]
    BY <1>1, <1>4 DEF CancelUpdate, ServiceTypeOK
  <1>5. ASSUME \/ RevokeDevice
               \/ \E silent \in BOOLEAN : ReconcileDeployments(silent)
               \/ \E h \in Image : PollUpdate(h)
        PROVE  jobs'[j] = jobs[j]
    BY <1>1, <1>5 DEF RevokeDevice, ReconcileDeployments, PollUpdate
  <1>6. ASSUME NEW i \in JobId, QueryStatus(i)
        PROVE  jobs'[j] = jobs[j]
    BY <1>1, <1>6 DEF QueryStatus, ServiceTypeOK
  <1>7. ASSUME NEW i \in JobId, NEW r \in Report, ReportUpdate(i, r)
        PROVE  jobs'[j] = jobs[j]
    <2>1. CASE RepeatAccepted(i, r)
      BY <1>7, <2>1 DEF ReportUpdate
    <2>2. CASE ~RepeatAccepted(i, r)
      BY <1>1, <1>7, <2>2, ReportStep
    <2> QED
      BY <2>1, <2>2
  <1>8. ASSUME NEW i \in JobId, ApprovalExpires(i)
        PROVE  jobs'[j] = jobs[j]
    BY <1>1, <1>8 DEF ApprovalExpires, ServiceTypeOK
  <1> QED
    BY <1>2, <1>3, <1>4, <1>5, <1>6, <1>7, <1>8
    DEF ServiceStep, OwnerNext, AnyDeviceNext, PlatformNext, ReconcileLocalRecovery,
        ReportIdentity, TrustChanges, DeviceChanges, TimePasses, serviceVars

\* Only three operations write the confirmed image.
LEMMA WhoConfirms ==
    ASSUME ServiceTypeOK, [ServiceStep]_serviceVars, firmware' # firmware
    PROVE  \/ \E r \in Release : ReconcileLocalRecovery(r)
           \/ \E h \in Image : ReportIdentity(h) /\ ConfirmInitial(h)
           \/ \E j \in JobId, r \in Report :
                 /\ ReportUpdate(j, r)
                 /\ NextAccepted(j, r)
                 /\ ~RepeatAccepted(j, r)
                 /\ r.state = "confirmed"
                 /\ firmware' = ConfirmedRow(j)
  BY DEF ServiceStep, OwnerNext, AnyDeviceNext, PlatformNext, RequestUpdate, RepeatRequest,
         CancelUpdate, RevokeDevice, PollUpdate, QueryStatus, ReconcileDeployments,
         ApprovalExpires, TrustChanges, DeviceChanges, TimePasses, serviceVars,
         ReportIdentity, ObserveImage, ReportUpdate, ReportAccepted

\* The confirmed sequence never decreases, and another image needs a greater one.
LEMMA SequenceStep ==
    ASSUME ServiceTypeOK, [ServiceStep]_serviceVars, firmware # None
    PROVE  /\ firmware' # None
           /\ firmware'.sequence >= firmware.sequence
           /\ firmware'.app # firmware.app => firmware'.sequence > firmware.sequence
  <1>1. firmware.sequence \in Nat
    BY DEF ServiceTypeOK, Firmware
  <1>2. CASE firmware' = firmware
    BY <1>1, <1>2
  <1>3. CASE firmware' # firmware
    <2>1. firmware' \in Firmware /\ firmware'.sequence > firmware.sequence
      <3>1. ASSUME NEW r \in Release, ReconcileLocalRecovery(r)
            PROVE  firmware' \in Firmware /\ firmware'.sequence > firmware.sequence
        BY <3>1, ReleaseAssumption
        DEF ReconcileLocalRecovery, RecoveryRelease, Firmware, ServiceTypeOK
      <3>2. ASSUME NEW h \in Image, ConfirmInitial(h)
            PROVE  FALSE
        BY <3>2 DEF ConfirmInitial
      <3>3. ASSUME NEW j \in JobId, NEW r \in Report, ReportUpdate(j, r),
                   NextAccepted(j, r), ~RepeatAccepted(j, r), r.state = "confirmed",
                   firmware' = ConfirmedRow(j)
            PROVE  firmware' \in Firmware /\ firmware'.sequence > firmware.sequence
        <4>1. jobs[j] # Unused
          BY <3>3 DEF ReportUpdate, ReportAccepted
        <4>2. ConfirmedRow(j) \in Firmware
          BY <4>1, NewRowTypes
        <4> QED
          BY <3>3, <4>2 DEF NextAccepted, ConfirmedRow
      <3> QED
        BY <1>3, <3>1, <3>2, <3>3, WhoConfirms
    <2>2. firmware'.sequence \in Nat /\ firmware' # None
      BY <2>1, NoneAssumption DEF Firmware
    <2> QED
      BY <1>1, <2>1, <2>2
  <1> QED
    BY <1>2, <1>3

\* No step lowers the confirmed sequence, and none replaces the confirmed image
\* without raising it (report_update, reconcile_local_recovery).
THEOREM SequenceOnlyAdvances == ServiceSpec => SequenceAdvances
  <1>1. ServiceTypeOK /\ [ServiceStep]_serviceVars =>
          [firmware # None => /\ firmware' # None
                              /\ firmware'.sequence >= firmware.sequence
                              /\ firmware'.app # firmware.app =>
                                    firmware'.sequence > firmware.sequence]_serviceVars
    BY SequenceStep
  <1> QED
    BY <1>1, ServiceTypeCorrect, StepOfService, PTL DEF ServiceSpec, SequenceAdvances

\* An evidence row stays, and a new one is written together with the image.
LEMMA EvidenceStep ==
    ServiceTypeOK /\ ConfirmedByEvidence /\ [ServiceStep]_serviceVars => ConfirmedByEvidence'
  <1> SUFFICES ASSUME ServiceTypeOK, ConfirmedByEvidence, [ServiceStep]_serviceVars,
                      firmware' # None, Purpose[firmware'.release] = "ota"
               PROVE  \E j \in JobId : /\ jobs'[j].state = "confirmed"
                                       /\ jobs'[j].release = firmware'.release
                                       /\ jobs'[j].last.app = firmware'.app
                                       /\ jobs'[j].last.booted
    BY DEF ConfirmedByEvidence
  <1>1. CASE firmware' = firmware
    <2>1. PICK j \in JobId : /\ jobs[j].state = "confirmed"
                            /\ jobs[j].release = firmware.release
                            /\ jobs[j].last.app = firmware.app
                            /\ jobs[j].last.booted
      BY <1>1 DEF ConfirmedByEvidence
    <2>2. jobs'[j] = jobs[j]
      BY <2>1, OutcomeStays DEF TerminalStates
    <2> QED
      BY <1>1, <2>1, <2>2
  <1>2. CASE firmware' # firmware
    <2>1. ASSUME NEW r \in Release, ReconcileLocalRecovery(r)
          PROVE  FALSE
      BY <2>1 DEF ReconcileLocalRecovery, RecoveryRelease, Verified
    <2>2. ASSUME NEW h \in Image, ConfirmInitial(h)
          PROVE  FALSE
      BY <2>2 DEF ConfirmInitial, InitialReleases, Verified
    <2>3. ASSUME NEW j \in JobId, NEW r \in Report, ReportUpdate(j, r), NextAccepted(j, r),
                 ~RepeatAccepted(j, r), r.state = "confirmed", firmware' = ConfirmedRow(j)
          PROVE  /\ jobs'[j].state = "confirmed"
                 /\ jobs'[j].release = firmware'.release
                 /\ jobs'[j].last.app = firmware'.app
                 /\ jobs'[j].last.booted
      <3>1. r.app = AppOf[jobs[j].release] /\ r.booted
        BY <2>3 DEF NextAccepted, EvidenceOK
      <3>2. jobs'[j].state = r.state /\ jobs'[j].last = r /\ SameUpdate(jobs[j], jobs'[j])
        BY <2>3, ReportStep
      <3> QED
        BY <2>3, <3>1, <3>2 DEF ConfirmedRow, SameUpdate
    <2> QED
      BY <1>2, <2>1, <2>2, <2>3, WhoConfirms
  <1> QED
    BY <1>1, <1>2

\* An ota image is recorded as confirmed only on the evidence of a confirmed
\* deployment that named it and its confirmed boot (report_update).
THEOREM ConfirmationHasEvidence == ServiceSpec => []ConfirmedByEvidence
  <1>1. ServiceInit => ConfirmedByEvidence
    BY DEF ServiceInit, ConfirmedByEvidence
  <1> QED
    BY <1>1, EvidenceStep, ServiceTypeCorrect, StepOfService, PTL DEF ServiceSpec

----------------------------------------------------------------------------
(* The service implements UpdatePromise.                                   *)

Phase     == [j \in JobId |-> PhaseOf(j)]
Installed == IF firmware = None THEN 0 ELSE firmware.sequence

\* Rows that keep their phase, or go from waiting to dropped, make no other
\* promise step.
LEMMA DropOrNothing ==
    ASSUME Exclusive, Installed' = Installed,
           \A j \in JobId : \/ PhaseOf(j)' = PhaseOf(j)
                            \/ PhaseOf(j) = "waiting" /\ PhaseOf(j)' = "dropped"
    PROVE  [Promise!Next]_(Promise!vars)
  <1>1. CASE \A j \in JobId : PhaseOf(j)' = PhaseOf(j)
    BY <1>1 DEF Promise!vars, Installed
  <1>2. CASE \E j \in JobId : PhaseOf(j)' # PhaseOf(j)
    <2>1. PICK q \in JobId : PhaseOf(q) = "waiting" /\ PhaseOf(q)' = "dropped"
      BY <1>2
    <2>2. ASSUME NEW p \in JobId, PhaseOf(p) = "waiting"
          PROVE  p = q
      BY <2>1, <2>2 DEF PhaseOf, Active, ActiveStates, Exclusive, OneActive
    <2>3. Phase' = [Phase EXCEPT ![q] = "dropped"]
      BY <2>1, <2>2 DEF Phase
    <2>4. Promise!Drop(q)
      BY <2>1, <2>3 DEF Promise!Drop, Phase, Installed
    <2> QED
      BY <2>4 DEF Promise!Next
  <1> QED
    BY <1>1, <1>2

\* A row that expires, is flagged or stays does not move its request further
\* than from waiting to dropped.
LEMMA QuietRow ==
    ASSUME ServiceTypeOK, NEW j \in JobId,
           \/ jobs'[j] = jobs[j]
           \/ jobs'[j] = ExpireQueued(j)
           \/ jobs'[j].state = jobs[j].state
           \/ jobs[j].state = "queued" /\ jobs'[j].state = "cancelled"
    PROVE  \/ PhaseOf(j)' = PhaseOf(j)
           \/ PhaseOf(j) = "waiting" /\ PhaseOf(j)' = "dropped"
  BY ExpiryCancels DEF PhaseOf

\* Every step that neither requests, confirms nor accepts a report is quiet.
LEMMA QuietStep ==
    ASSUME ServiceTypeOK, [ServiceStep]_serviceVars, ~Requesting, NEW j \in JobId,
           \A i \in JobId, r \in Report : ReportUpdate(i, r) => RepeatAccepted(i, r)
    PROVE  \/ PhaseOf(j)' = PhaseOf(j)
           \/ PhaseOf(j) = "waiting" /\ PhaseOf(j)' = "dropped"
  <1> DEFINE Quiet == \/ jobs'[j] = jobs[j]
                      \/ jobs'[j] = ExpireQueued(j)
                      \/ jobs'[j].state = jobs[j].state
                      \/ jobs[j].state = "queued" /\ jobs'[j].state = "cancelled"
  <1> SUFFICES Quiet
    BY QuietRow
  <1>1. ASSUME jobs[j].state = "queued"
        PROVE  jobs[j] \in Job
    BY <1>1, RowTypes, UsedRow
  <1>2. ASSUME NEW r \in Release, NEW k \in RequestKey, RepeatRequest(r, k)
        PROVE  Quiet
    BY <1>2 DEF RepeatRequest, ServiceTypeOK
  <1>3. ASSUME NEW i \in JobId, CancelUpdate(i)
        PROVE  Quiet
    <2>1. CASE i = j
      <3>1. [jobs[j] EXCEPT !.state = "cancelled", !.error = "owner_cancelled"].state = "cancelled"
        BY <1>1, <1>3, <2>1 DEF CancelUpdate, Job
      <3>2. jobs'[j] = [jobs[j] EXCEPT !.state = "cancelled", !.error = "owner_cancelled"]
        BY <1>3, <2>1 DEF CancelUpdate, ServiceTypeOK
      <3> QED
        BY <1>3, <2>1, <3>1, <3>2 DEF CancelUpdate
    <2>2. CASE i # j
      BY <1>3, <2>2 DEF CancelUpdate, ServiceTypeOK
    <2> QED
      BY <2>1, <2>2
  <1>4. ASSUME RevokeDevice \/ \E silent \in BOOLEAN : ReconcileDeployments(silent)
        PROVE  Quiet
    <2>1. CASE ~Active(j)
      BY <1>4, <2>1 DEF RevokeDevice, ReconcileDeployments
    <2>2. CASE Active(j) /\ jobs[j].state = "queued"
      <3>1. [jobs[j] EXCEPT !.state = "cancelled", !.error = "approval_unavailable"].state
              = "cancelled"
        BY <1>1, <2>2 DEF Job
      <3> QED
        BY <1>4, <2>2, <3>1 DEF RevokeDevice, ReconcileDeployments
    <2>3. CASE Active(j) /\ jobs[j].state # "queued"
      <3>1. jobs[j] \in Job
        BY <2>3, RowTypes, UsedRow DEF Active, ActiveStates
      <3>2. Flagged(j).state = jobs[j].state
        BY <3>1 DEF Flagged, Job
      <3> QED
        BY <1>4, <2>3, <3>2 DEF RevokeDevice, ReconcileDeployments
    <2> QED
      BY <2>1, <2>2, <2>3
  <1>5. ASSUME NEW h \in Image, PollUpdate(h)
        PROVE  Quiet
    BY <1>5 DEF PollUpdate
  <1>6. ASSUME NEW i \in JobId, QueryStatus(i)
        PROVE  Quiet
    BY <1>6 DEF QueryStatus, ServiceTypeOK
  <1>7. ASSUME NEW i \in JobId, NEW r \in Report, ReportUpdate(i, r)
        PROVE  Quiet
    BY <1>7 DEF ReportUpdate
  <1>8. ASSUME NEW i \in JobId, ApprovalExpires(i)
        PROVE  Quiet
    <2>1. CASE i = j
      <3>1. jobs[j] \in Job
        BY <1>8, <2>1, RowTypes, UsedRow DEF ApprovalExpires, Active, ActiveStates
      <3>2. [jobs[j] EXCEPT !.expired = TRUE].state = jobs[j].state
        BY <3>1 DEF Job
      <3>3. jobs'[j] = [jobs[j] EXCEPT !.expired = TRUE]
        BY <1>8, <2>1 DEF ApprovalExpires, ServiceTypeOK
      <3> QED
        BY <3>2, <3>3
    <2>2. CASE i # j
      BY <1>8, <2>2 DEF ApprovalExpires, ServiceTypeOK
    <2> QED
      BY <2>1, <2>2
  <1> QED
    BY <1>2, <1>3, <1>4, <1>5, <1>6, <1>7, <1>8
    DEF ServiceStep, OwnerNext, AnyDeviceNext, PlatformNext, Requesting, ReconcileLocalRecovery,
        ReportIdentity, TrustChanges, DeviceChanges, TimePasses, serviceVars

\* The empty tables promise nothing yet.
LEMMA PromiseInit == ServiceInit => Promise!Init
  <1> SUFFICES ASSUME ServiceInit PROVE Promise!Init
    OBVIOUS
  <1>1. \A j \in JobId : PhaseOf(j) = "none"
    BY DEF ServiceInit, PhaseOf, Unused
  <1> QED
    BY <1>1 DEF ServiceInit, Promise!Init

\* The active deployments are the pending requests.
LEMMA ActivePhase ==
    ASSUME ServiceTypeOK, NEW j \in JobId
    PROVE  Active(j) <=> PhaseOf(j) \in {"waiting", "claimed"}
  <1>1. jobs[j] \in Job \cup {Unused}
    BY DEF ServiceTypeOK
  <1>2. CASE jobs[j] \in Job
    BY <1>2 DEF Job, PhaseOf, Active, ActiveStates, TerminalStates
  <1>3. CASE jobs[j] = Unused
    <2>1. Unused.state = "none"
      BY DEF Unused
    <2>2. jobs[j].state = "none"
      BY <1>3, <2>1
    <2> QED
      BY <2>2 DEF PhaseOf, Active, ActiveStates
  <1> QED
    BY <1>1, <1>2, <1>3

\* Every step of the service is a step of the promise.
LEMMA PromiseStep ==
    Exclusive /\ [ServiceStep]_serviceVars => [Promise!Next]_(Promise!vars)
  <1> SUFFICES ASSUME Exclusive, [ServiceStep]_serviceVars
               PROVE  [Promise!Next]_(Promise!vars)
    OBVIOUS
  <1> USE DEF Exclusive
  <1>1. ASSUME NEW r \in Release, NEW k \in RequestKey, RequestUpdate(r, k)
        PROVE  [Promise!Next]_(Promise!vars)
    <2>1. PICK n \in JobId :
             /\ jobs[n] = Unused
             /\ jobs'[n] = NewJob(r, k)
             /\ \A j \in JobId : j # n =>
                   jobs'[j] = IF Active(j) THEN ExpireQueued(j) ELSE jobs[j]
      BY <1>1, RequestLeavesOne
    <2>2. PhaseOf(n) = "none" /\ PhaseOf(n)' = "waiting"
      <3>1. Unused.state = "none"
        BY DEF Unused
      <3>2. NewJob(r, k).state = "queued"
        BY DEF NewJob, Unused
      <3>3. jobs[n].state = "none" /\ jobs'[n].state = "queued"
        BY <2>1, <3>1, <3>2
      <3> QED
        BY <3>3 DEF PhaseOf
    <2>3. ASSUME NEW j \in JobId, Active(j)
          PROVE  jobs[j].state = "queued" /\ ExpireQueued(j).state = "cancelled"
      BY <1>1, <2>3, ExpiryCancels DEF RequestUpdate, Unblocked, Active
    <2>4. \A j \in JobId : Active(j) <=> PhaseOf(j) \in {"waiting", "claimed"}
      BY ActivePhase
    <2>5. \A p \in Promise!Pending : Phase[p] = "waiting"
      BY <2>3, <2>4 DEF Promise!Pending, Phase, PhaseOf
    <2>6. Phase' = [p \in JobId |-> IF p = n THEN "waiting"
                                   ELSE IF p \in Promise!Pending THEN "dropped"
                                   ELSE Phase[p]]
      <3>1. ASSUME NEW p \in JobId, p # n
            PROVE  PhaseOf(p)' = IF Active(p) THEN "dropped" ELSE PhaseOf(p)
        BY <2>1, <2>3, <3>1 DEF PhaseOf
      <3> QED
        BY <2>2, <2>4, <3>1 DEF Promise!Pending, Phase
    <2>7. Promise!Ask(n)
      BY <1>1, <2>2, <2>5, <2>6 DEF Promise!Ask, Phase, RequestUpdate
    <2> QED
      BY <2>7 DEF Promise!Next
  <1>2. ASSUME ~Requesting, firmware' = firmware,
               \A i \in JobId, r \in Report : ReportUpdate(i, r) => RepeatAccepted(i, r)
        PROVE  [Promise!Next]_(Promise!vars)
    BY <1>2, QuietStep, DropOrNothing DEF Installed
  <1>3. ASSUME firmware' # firmware,
               \/ \E r \in Release : ReconcileLocalRecovery(r)
               \/ \E h \in Image : ReportIdentity(h) /\ ConfirmInitial(h)
        PROVE  [Promise!Next]_(Promise!vars)
    <2>1. \A j \in JobId : ~Active(j)
      BY <1>3 DEF ReconcileLocalRecovery, NothingActive, ConfirmInitial, ActiveStillApplies
    <2>2. Promise!Pending = {}
      BY <2>1, ActivePhase DEF Promise!Pending
    <2>3. jobs' = jobs
      <3>1. ASSUME NEW r \in Release, ReconcileLocalRecovery(r)
            PROVE  jobs' = jobs
        BY <3>1 DEF ReconcileLocalRecovery
      <3>2. ASSUME NEW h \in Image, ReportIdentity(h)
            PROVE  jobs' = jobs
        BY <3>2 DEF ReportIdentity
      <3> QED
        BY <1>3, <3>1, <3>2
    <2>4. Installed' \in Nat /\ Installed' > Installed
      <3>1. ASSUME NEW r \in Release, ReconcileLocalRecovery(r)
            PROVE  firmware' # None /\ firmware'.sequence \in Nat
                   /\ firmware # None /\ firmware'.sequence > firmware.sequence
        <4>1. firmware' # None
          BY <3>1, SequenceStep DEF ReconcileLocalRecovery
        <4> QED
          BY <3>1, <4>1, ReleaseAssumption DEF ReconcileLocalRecovery, RecoveryRelease
      <3>2. ASSUME NEW h \in Image, ReportIdentity(h), ConfirmInitial(h)
            PROVE  firmware' # None /\ firmware'.sequence \in Nat
                   /\ firmware = None /\ firmware'.sequence > 0
        <4>1. firmware' \in Firmware
          BY <3>2, ReleaseAssumption DEF ConfirmInitial, InitialReleases, Firmware
        <4> QED
          BY <3>2, <4>1, NoneAssumption DEF ConfirmInitial, Firmware
      <3> QED
        BY <1>3, <3>1, <3>2 DEF Installed
    <2>5. Phase' = Phase
      BY <2>3 DEF Phase, PhaseOf
    <2>6. Promise!Record
      BY <2>2, <2>4, <2>5 DEF Promise!Record, Phase, Installed
    <2> QED
      BY <2>6 DEF Promise!Next
  <1>4. ASSUME NEW j \in JobId, NEW r \in Report, ReportUpdate(j, r), ~RepeatAccepted(j, r)
        PROVE  [Promise!Next]_(Promise!vars)
    <2>1. /\ Active(j)
          /\ r.state \in Transitions[jobs[j].state]
          /\ jobs'[j].state = r.state
          /\ \A i \in JobId \ {j} : jobs'[i] = jobs[i]
      BY <1>4, ReportStep
    <2>2. Phase' = [Phase EXCEPT ![j] = PhaseOf(j)']
      BY <2>1 DEF Phase, PhaseOf
    <2>3. CASE r.state = "confirmed"
      <3>1. PhaseOf(j) = "claimed" /\ PhaseOf(j)' = "installed"
        BY <2>1, <2>3 DEF PhaseOf, Transitions, Active, ActiveStates
      <3>2. firmware' = ConfirmedRow(j)
            /\ Sequence[jobs[j].release] > firmware.sequence /\ firmware # None
        BY <1>4, <2>1, <2>3
        DEF ReportUpdate, ReportAccepted, NextAccepted, ActiveStillApplies
      <3>3. firmware' # None /\ firmware'.sequence = Sequence[jobs[j].release]
        BY <3>2, SequenceStep DEF ConfirmedRow
      <3>4. Installed' \in Nat /\ Installed' > Installed
        <4>1. jobs[j].release \in Release
          BY <2>1, RowTypes, UsedRow DEF Active, ActiveStates, Job
        <4> QED
          BY <3>2, <3>3, <4>1, ReleaseAssumption DEF Installed
      <3>5. Promise!Install(j)
        BY <2>2, <3>1, <3>4 DEF Promise!Install, Phase, Installed
      <3> QED
        BY <3>5 DEF Promise!Next
    <2>4. CASE r.state # "confirmed"
      <3>1. firmware' = firmware
        BY <1>4, <2>4 DEF ReportUpdate
      <3>2. \/ PhaseOf(j) = "waiting" /\ PhaseOf(j)' \in {"claimed", "failed"}
            \/ PhaseOf(j) = "claimed" /\ PhaseOf(j)' \in {"claimed", "failed"}
        BY <2>1, <2>4 DEF PhaseOf, Transitions, Active, ActiveStates
      <3>3. CASE PhaseOf(j)' = PhaseOf(j)
        <4>1. Phase' = Phase
          BY <2>2, <3>3 DEF Phase
        <4> QED
          BY <3>1, <4>1 DEF Promise!vars, Phase
      <3>4. CASE PhaseOf(j)' = "failed" /\ PhaseOf(j)' # PhaseOf(j)
        <4>1. Promise!Fail(j)
          BY <2>2, <3>1, <3>2, <3>4 DEF Promise!Fail, Phase
        <4> QED
          BY <4>1 DEF Promise!Next
      <3>5. CASE PhaseOf(j)' = "claimed" /\ PhaseOf(j)' # PhaseOf(j)
        <4>1. Promise!Claim(j)
          BY <2>2, <3>1, <3>2, <3>5 DEF Promise!Claim, Phase
        <4> QED
          BY <4>1 DEF Promise!Next
      <3> QED
        BY <3>2, <3>3, <3>4, <3>5
    <2> QED
      BY <2>3, <2>4
  <1> QED
    BY <1>1, <1>2, <1>3, <1>4, WhoConfirms DEF Requesting

\* The service implements UpdatePromise: whatever the owner, the device, the
\* timer and the environment do, each step is a step promised to the owner.
THEOREM ServiceKeepsPromise == ServiceSpec => KeepsPromise
  BY PromiseInit, PromiseStep, ExclusiveAlways, StepOfService, PTL DEF ServiceSpec, KeepsPromise, Promise!Spec
=============================================================================
