# A TLA+ verification of AMPVE

AMPVE lets the owner of an ESP32 board manage it from a web platform: pairing,
settings, a visual console, small signed apps, a voice companion, and firmware
updates over the air. This directory holds a specification of the parts of the
system whose correctness depends on interleavings, failures and ordering. It is
translated from the source under `src/`; `PROJECT.json` maps every definition to
the lines it models.

## 1. Inventory

Paths are relative to `src/`. `W` is `apps/platform/workspace`, `A` is
`firmware/xiaozhi/overlay/main/ampve`.

| Component | Code | State | Operations | Hard behaviour |
|---|---|---|---|---|
| Deployment service | `W/deployment_services.py`, `W/deployment_views.py`, `W/release_contract.py` | rows `FirmwareDeployment`, `DeviceFirmware`, `DeviceImageObservation`; signed releases | request, cancel, poll, status, report, identity, local recovery, revocation, timer | duplicated, late and lost reports; withdrawal, expiry and cancellation racing a claim |
| OTA client | `A/ota_client.cc`, `A/ota_platform.cc`, `A/ota_policy.cc` | journal in flash, flags in memory, sequence floor | `tick`, `flush`, `report`, `progress`, `approved` | power loss between any two writes; lost replies; 409 reconciliation |
| Boot selection and start | `A/runtime.cc` (`startup_check`, `ampve_runtime_start`), `A/boot_guard.cc`, ESP-IDF boot loader (external) | two slots, otadata, boot counter | select, restart, confirm, roll back, hold for a local retry | trial boots, rollback, shared boot counter |
| Pairing and heartbeat | `W/device_services.py`, `W/device_views.py`, `A/runtime.cc` (`worker`) | `DeviceEnrollment`, `Device`; stored identity | enrol, claim, exchange, heartbeat, acknowledge, revoke | lost exchange reply, expiry, revocation, stale acknowledgement |
| Visual console | `W/console_views.py`, `A/runtime.cc` (`console_sync`), `static/workspace/device-console.js` | sessions, commands, reported state | start, command, stop, sync | dispatch once, lost dispatch, late sync, local stop |
| App rollout | `W/app_services.py`, `A/app_runtime.cc`, `A/runtime.cc` (`core_network_task`) | catalog, assignment, commands; package slots in RAM | assign, kill, roll back, revoke, sync, acknowledge | desired state read before it changes; retry of acknowledgements |
| Audio grants and gateway | `W/audio_auth.py`, `W/connection_views.py`, `apps/audio/server.py` | grants, sessions, provider key revision, slots in memory | issue, consume, run, check, finish, replace key | one use, concurrent sessions, key replaced during a session, restart |
| Companion tasks | `A/companion.cc`, `A/companion_audio_gate.h` | atomics, socket, queues | start, stop, callbacks, audio task, poll | threads racing over the session state, bounded queues |
| Diagnostics | `A/diagnostics.cc`, `W/diagnostic_services.py` | queue of 16, stored events | append, batch, acknowledge, ingest | overflow, lost reply, duplicate upload |
| Browser installer, Improv and Wi-Fi provisioning | `tools/browser`, `A/improv_*.cc`, `firmware/xiaozhi/wifi-overlay` | page state, serial session, credentials | probe, install, commission | serial timeouts, cancellation |
| Release publishing and build tools | `firmware/tools/prepare.py`, `release.py`, `publish_release.py`, `W/release_contract.py` | work trees, candidates, ledger, published directories, `FirmwareRelease` | prepare, build, package, publish, register, revoke | stale builds, racing publishers, interruption at any file |
| Operations, user interface | `infra`, templates, LVGL pages | backups, pages | sequential | none for a model checker |

How they interact: the device polls; nothing is pushed to it. `worker` sends a
heartbeat every 30 seconds and, when it was answered and the boot is confirmed,
reports the running image once and runs one `tick` of the OTA client. Every
device operation of the platform runs in one transaction that holds the lock of
the device row (`firmware_api`), and so does every owner operation, so each is
one atomic action. A revoked device is answered 401 and forgets its id. A
systemd timer runs `reconcile_deployments` every five minutes.

What makes each component correct, in one line each:

- deployment service: one active deployment, outcomes only as reported, the
  confirmed sequence only grows, each request ends once;
- OTA client and boot: what is recorded as confirmed or rolled back happened on
  the board, nothing is selected that is not recorded, no claim is forgotten,
  no live slot is written, every update settles;
- pairing: one credential per claimed device, an acknowledged configuration is
  the one stored, a revoked identity does not come back;
- console: a command executes at most once, only inside its session, never after
  a local stop was reported;
- apps: the acknowledged result is the result of that command, a revoked package
  does not stay active;
- audio: a grant starts at most one session, a session dies with its authority,
  a check result belongs to the key it checked;
- companion: the microphone is off unless a session listens, a stopped session
  does not touch the next one;
- diagnostics: no event is stored twice, none is dropped once queued, except by
  the bounds;
- publishing: a sequence is published once, the envelope comes last, and what is
  served was built for the sequence it is signed for and from the overlay on record.

## 2. Modules

| Module | What it is |
|---|---|
| `UpdatePromise` | the abstract specification of what the owner is promised about updates |
| `DeploymentService` | the platform's side: the rows of one device, one action per operation |
| `FirmwareUpdate` | extends it with the OTA client, the board and the link: the update end to end |
| `Pairing` | pairing, settings and revocation: platform, owner and board |
| `VisualConsole` | the console of one device: page, platform and board |
| `AudioGateway` | provider keys, one-use grants and the audio gateway |
| `AppRollout` | signed apps of one device: catalog, owner and network task of the board |
| `Diagnostics` | the event queue of the board, its uploads and the rows kept of them |
| `ReleasePublishing` | work trees, candidates, publishers and the platform's releases |
| `MC...` | the small instance of each module that TLC checks |
| `..._proofs` | theorems about each of the eight, and their proofs; `FirmwareUpdate_proofs` extends `DeploymentService_proofs` |

`FirmwareUpdate` extends `DeploymentService`, which implements `UpdatePromise`;
the others stand alone. Each of them has the platform rows it needs and an
action for what the others do to them (revocation, a disabled account). What
`DeploymentService` takes for granted of a release, that it is immutable, has a
sequence of its own and may stop to verify (`TrustChanges`), is what
`ReleasePublishing` is about.

### Updates

`DeploymentService` has the rows as variables: `jobs` (`FirmwareDeployment`),
`firmware` (`DeviceFirmware`), `observed` (a recent `DeviceImageObservation`),
`device` (revoked, owner active, hardware compatible), `verifiable` (the releases
`verified_release` accepts now) and `polled` (polled within 90 seconds). A job's
`last` is `last_report`, `attention` is `needs_attention`, `expired` says that
`expires_at` has passed. A refused operation raises, its transaction is rolled
back, and the action is simply not enabled. The device side is left open:
`ReportUpdate(j, r)` takes any report of `Reports` for any deployment. The view
tests that the device polled recently before the request takes its lock
(`deployment_views.py:122`); `Request` has the test as one of its guards.

`FirmwareUpdate` closes it. `journal` is the journal text in flash, `engine` the
`OtaClient` object and the place where its tick has got to, `board` the slots,
otadata, the running image, the boot counter and the boot guard, `floor` the
persisted sequence, `late` the report requests still under way, and `history`
records what physically happened to the target of each deployment, for the
properties only. A tick is a sequence of steps, one per HTTP exchange or durable
write, so power can be lost between any two:

| `engine.pc` | Code | Steps |
|---|---|---|
| `idle` | `tick` up to `flush()` | `Poll`, `Resume`, `Identify`, `HeartbeatRefused` |
| `flush`, `status` | `flush()` and its 409 branch | `FlushAnswered`, `FlushLost`, `Reconcile` |
| `dispatch` | `tick` after `flush()` | `Finish`, `Resolve`, `GiveUp`, `Advance` |
| `approve` | the first `approved()` | `ApproveStart` |
| `download`, `stream`, `downloaded` | `download()`, `progress()` | `BeginDownload`, `Stream`, `AfterDownload` |
| `verify`, `select`, `commit`, `restart` | boot selection | `VerifyTarget`, `SelectTarget`, `CommitSelection`, `Restart` |
| `stopped` | `stopped_` | none until the next boot |

The ESP-IDF boot loader and its otadata calls are not in the repository. They are
modelled from how `ota_platform.cc` and `runtime.cc` use them and marked external:
a selected image is tried once, a trial that was not confirmed is aborted at the
next boot, and whether erasing a slot keeps its otadata entry is left open.

Abstractions: hashes, policies and envelopes become members of small sets; time
becomes events (`ApprovalExpires`, `TimePasses`, `silent`); sizes are a few bytes;
texts, logs and rate limits are left out. A hazard in `PROJECT.json` says where
that hides something.

### Pairing

`enrollments`, `devices` and `active` are the platform's rows (a device's
`settings` is the sequence of saved configurations, `config_version` its length).
`flash` is the state text of `worker`, `board.state` the worker's copy,
`board.storage` its `storage_ok`, `link` the identity shared with the core task.
Codes and proofs are the enrolment itself, so a wrong code or proof is a request
that changes nothing. A round of the worker is one action (`StartPairing`,
`Enroll`, `Exchange`, `Heartbeat`): it has one request and one write, and both
outcomes of the write, and a request that is lost, processed without a reply or
delivered later (`late`, `Arrive`), are alternatives inside it. A failed write may
leave the old or the new text. `LocalVolume` is the other writer of that text: a
volume chosen at the board (`Local`) replaces the one the platform set and leaves
the acknowledged version alone, so `AcknowledgedIsStored` asks for the name of that
version and for its volume or a local one. `PowerLoss` loads what flash has, or
finds that it cannot be read (`Unread`), which pauses the worker like a text that
does not fit together.

### Visual console

Sessions and inputs are the rows in order of creation; a session's age is its
state (`new`, `joined`, `lapsed` after six seconds without a poll, `expired`,
`ended`), an input is `stale` after eight seconds. `screen` is `DeviceConsoleState`,
`browser` the page, `outbox` its requests under way, `local` the board's screen
and flags. `console_sync` loads the revision (`LoadRevision`), the page
(`LoadPage`) and `remote_allowed` (`SendPoll`) one by one, and the display's task
writes in the opposite order: the page or the control first (`LocalNavigation`,
`LocalStop`), then `remote_active` after the remote button (`Deactivate`), the
revision last (`CountRevision`). So one revision can stand for two screens. The
answer is read and applied in two more steps, since `remote_allowed` is loaded
before `remote_active` is exchanged. Which control an input hits is abstract: it
turns the page, under the display's lock and therefore at once, or changes
nothing. `version` counts the changes of the page and the control for the
properties only; the reported revision is separate, since it starts again with
every boot. The page that is shown before the board has answered a click
(`showPage(target)`, `device-console.js:187`, `:192`) is left out: the next state
replaces it, and no property is about it.

### Audio gateway

The gateway is one process of coroutines. A socket's `pc` is where it waits:

| `pc` | Code |
|---|---|
| `claimed` | after `consume_grant`, before the slot test |
| `checking`, `deciding` | the loop of `run_provider`, before and after `still_authorized` |
| `closing` | its `finally`, until `active_users.discard` |
| `recording`, `ending` | before `record_check` and `finish_session` |

`held` is the grant as it was read, `key` the key decrypted from the connection
read with it. Each database call is one transaction, and any owner request, and
`Restart`, may come between two of them. Time limits are outcomes that may come at
any moment; the handshake limit, rate limits, audio frames and the creation of
connections are left out.

### App rollout

`catalog`, `assignment` and `commands` are the platform's rows, `slots` is
`live_app` (active, previous, staged package), `last` the command and result the
board remembers, `late` the acknowledgements still under way. A round of
`core_app_tick` is split where it blocks or where another task can come between:

| `tick.at` | Code | Steps |
|---|---|---|
| `rest` | the sync request | `Sync`, `SyncLost` |
| `answered` | kill flag, sessions stopped | `Enforce` |
| `stopped` | `revoke`, then `disable` or `rollback` | `Disable`, `Decide` |
| `fetch` | the package request | `Fetch`, `FetchLost` |
| `activate` | `activate` | `Activate` |
| `report` | result and acknowledgement | `Acknowledge`, `AcknowledgeLost`, `NothingToReport` |

The worker starts and stops Companion sessions and the screen starts the timer
between any two of them, since both block the slots. Packages, the flag and the
last command are lost at a restart. A revoked device is refused like a lost
request and has no action of its own.

Behaviour of the code that the model shows and no property forbids, for whoever
changes it: a Companion whose kill flag is set while its session is being asked
for starts all the same and runs until the next round (`runtime.cc:765`, `:781`);
`revoke` switches a killed assignment on again when the package before it still
verifies (`app_services.py:187`); an older queued `assign_app` is acknowledged as
applied for the package desired now; the previous slot of the board may hold a
package revoked meanwhile and fall back to it until the next round; the message
"Assigned devices will disable it on their next authenticated check"
(`core_views.py:71`) does not hold while a session runs, which blocks `revoke` on
the board (`runtime.cc:246`).

### Diagnostics

An event is its boot, its sequence and, for a boot event, the operation that the
flash copy named. `queue` is the board's queue, `sending` the batch in flight,
`rows` the table, oldest first. `received` and `ended` are history. `Stored` is
`upload` with both retention rules: rows older than thirty days may go at any
upload (they were not part of this one: no upload is retried for thirty days),
then all but the newest. `Created` is what `get_or_create` adds, written without
recursion so that it can be reasoned about. Reading the flash copy at a restart and
resetting it may fail, each without the other, and a boot that has used its last
sequence number (`MaxSequence`, 65535) drops what follows. An upload the board gave
up on is served before its next one or never. One that reaches the platform after
the board was reset and uploaded again is left out; it would put rows of the older
boot after those of the newer one.

### Release publishing

A content stands for its hash: an app is what it was compiled from, versions of
three kinds of inputs and a trust header. The overlay is what `package` compares
with the repository and with the time of the build. The `rest` of `firmware/`
(wifi-overlay, patch tools, partitions, configuration), which `prepare` stages, and
the brand `images`, which the build converts, are recorded in the manifest
(`release.py:133`) and not compared. `Edit` changes any of the three. A work tree
has the staged overlay and rest, the two files of the trust, the app of the last
build, and which of overlay and trust are newer than that app, which is all the
time stamps are used for. A publisher process goes through
`publish` one durable step at a time: `validated`, `reserved` (ledger committed),
`made` (directory), `app`, `archived`, `marked` (envelope), `done`; it fails into
`removing`, which is `rmtree` file by file, or just stops, since nothing is fair.
Registration reads the directory and saves the row in two steps.

Abstractions: a build is one step, nobody prepares a tree while its compiler runs;
an interrupted staging copies all of the overlay, or of the rest, or nothing of it
(an older `sdkconfig` that a tree keeps, and the configuration and partitions being
copied after the trust, are not told apart within the rest); one profile, channel
and purpose, one review per candidate; the profile header, release notes and
signatures are left out; nobody edits candidates or published files by hand. Three
things it shows. A manifest records newer `rest` or `images` than the app was
compiled from whenever these change between the build and the package, and nothing
notices; two builds that agree do not either, since both are the older ones. This
is why `ServedAsBuilt` speaks of the overlay. A manifest may also record a newer
overlay when that changes while the package is written (`disturbed`), though its
sequence and trust are always the app's. And a publisher killed while it removes
a failed publication may leave an envelope without its artifacts, which
`MarkerIsLast` excepts and every reader refuses, because it compares hashes.

## 3. What the runs check

| Run | Instance | Properties |
|---|---|---|
| `deployment_service` | two deployments, two request keys, releases that upgrade, recover over USB and ship an older image again; any consistent report up to sequence 4 | `ServiceTypeOK`, `ActiveIsSound`, `SequenceAdvances`, `KeepsPromise` |
| `firmware_update` | one update, an image of three bytes reported in steps of two, three faults in any mixture, fair | `TypeOK`, `OutcomesHappened`, `JournalTracksJob`, `HoldTakesThreeBadStarts`, `Settles` |
| `firmware_update_twice` | two updates in succession over the same slots, two faults | `BoardMatchesRecord`, `LiveSlotsUntouched` |
| `pairing` | two enrolments and devices of one account, two settings and a volume chosen at the board, two faults | `PairingTypeOK`, `CredentialsAgree`, `AcknowledgementsAgree`, `RevokedIsFinal` |
| `pairing_completes` | one enrolment and device, three faults, fair | `PairingCompletes`, `SettingsReachBoard` |
| `console` | four mixtures of sessions, inputs, changes at the board and faults: two inputs, or two sessions with one, each with a fault; an input or a second session with a change and a fault; fair | `ConsoleTypeOK`, `InputsAreFaithful`, `StopIsHonoured`, `MirrorNeverGoesBack`, `MirrorCatchesUp` |
| `console_active` | one session, no fault, fair; violated | `ActiveEndsWithSession` |
| `console_ring` | two sessions; violated | `RingRunsOnce` |
| `audio_gateway` | two sockets and two grants for one slot, two keys, two browser sessions, one restart | `GatewayTypeOK`, `OneSessionPerGrant`, `SessionsAreAccounted`, `KeysAreTested` |
| `app_rollout` | a Companion and a timer package; two commands, a session and a fault, or three commands, or a command, a session and two faults; fair | `AppTypeOK`, `AssignmentSound`, `KillHolds`, `OnlyApprovedStarts`, `ResultIsFinal`, `Settles` |
| `diagnostics` | two boots, a queue of three, uploads of two, a table of two rows, two faults, fair | `DiagnosticsTypeOK`, `RecordIsExact`, `Delivered` |
| `release_publishing` | two trees, publishers and directories, three trust inputs of which two share a sequence, five mixtures of preparations, edits, packages and faults | `ReleaseTypeOK`, `SequenceIsUnique`, `MarkerIsLast`, `ServedAsBuilt`, `DoneStays` |

A property that is a conjunction names its parts where it is defined:
`OutcomesHappened` is `ConfirmedWasProved`, `RolledBackReally` and
`SelectionIsRecorded`; `JournalTracksJob` is `ClaimIsJournaled`, `JournalInStep`
and `CancelledNeverDownloads`; and so on for the others.

Each property is stated in words above its definition, with the functions it is
about. What the update runs show together: under any interleaving of owner, device,
timer and environment, the platform's row and the board agree. A confirmed
update really started and passed its startup check, a reported rollback really
failed on the board, a selected image is always known to the platform, and no
loss or crash makes the device forget an update it has claimed.
`KeepsPromise` says that the service implements `UpdatePromise` under the mapping
`PhaseOf`; it is checked as a refinement and proved below.

Pairing: whatever exchange is lost or late and whatever write fails, the identity
the board holds is the one the platform has, a board is never locked out by the
version it acknowledges, and an acknowledged version is in flash, with its name and
with its volume or one chosen at the board. Console: inputs are applied in order
and once, what the owner is told was applied was applied, nothing queued before a
gap executes, and a stop at the board holds even when it falls between the two
reads of a poll. A revision that the page showed binds it: `revision - 1` changes
of that boot are behind it, and it never shows a screen from before them, whichever
poll is late. It may show, of one revision, the screen before and the one after the
change that is being counted, in either order, and it catches up with the board in
the end (`MirrorCatchesUp`). Audio: a grant
starts one session, slots and rows match the sessions that hold them, and a
connection counts as tested only for the key that was tested. Apps: what the
platform assigns is never revoked, a kill that was acknowledged as applied holds
until the owner takes it back, whatever answer was on its way, and the board ends
up with what the platform last wanted. Diagnostics: the table is a suffix of
exactly what the board queued, and boot events name the operation that was cut
short. Publishing: whatever races, fails or is interrupted, no sequence is
published twice, no incomplete directory is registered, and a build is not
packaged under a newer sequence or with a newer overlay than it was made from.

Two runs are expected to fail, each a disagreement recorded under `findings`:

- `console_active`: a heartbeat that finds the session ended (`runtime.cc:898`)
  closes the polls, so no poll is left to clear `remote_active`, and the board
  goes on showing "Remote active · tap to stop".
- `console_ring`: `start()` forgets the acknowledgement it has shown
  (`device-console.js:120`), so the ring runs a second time for the last input of
  an earlier session; `images/ampve-brand-kit-v1/hud/README.md:22` says it runs
  once, after a new acknowledgement.

`MirrorCatchesUp` has an exception: the board counts its revisions from one at every
boot, so after a restart during a session the page refuses its present screen as
"Stale device revision" and keeps the older one (`device-console.js:52`), until the
board has counted past the old number or the session ends.

Two of the update properties have exceptions in their statement, because the
code has them. `RecordMatchesBoard`, in `BoardMatchesRecord`, allows the confirmed
image to be the invalid one: a valid image that fails a later startup check is
left by the boot loader, and the platform learns of it only as an observed image.
It also allows a record that the owner `Corrected` after a USB flash, since
`reconcile_local_recovery` believes an observation that may be ten minutes old.
(The code compares the firmware version of the observation with that of the last
heartbeat too, `deployment_services.py:118`, which tells apart only images of
different versions; the model leaves versions out.) The second exception was
found by the proof: the instance had no recovery release of the second image,
which it now has. `JournalInStep`, in `JournalTracksJob`, allows an update that is
being given up to be one report behind: after a 409 the journal takes over the
platform's sequence, and the delayed copy of the refused report can still be
accepted afterwards.

Two hazards of the updates have no property. The correction from a stale
observation is one: with it `BoardMatchesRecord` holds only as excepted, and no
property forbids it. The other is an approval withdrawn after the platform has
accepted the report of boot selection: the board goes on to select the image
(`SelectTarget`), which the code allows.

### Bounds

- `MaxFaults` bounds the faults of a run in any mixture; a fault is a lost or late
  exchange, a power loss, a failed or torn flash write, an unhealthy start, a
  withdrawn release, a revoked device, a disabled account, a changed hardware
  report, or a press of Cancel. Three are what the boot guard needs, and enough
  for a lost report, a crash and a failed trial boot in one update. The run with
  one update was also checked with four; with two updates it keeps to two.
- `Size`, `ProgressStep` and `MinProgress` give an image that takes two progress
  reports, the second a short one, which is the boundary case of `progress`.
- `MaxSequence` is exactly the number of reports an update needs, so the limit of
  `report` (128 in the code) is met as well.
- `JobId` and `RequestKey` bound the owner's requests; the rows never disappear.
- The releases of the update runs are an initial one, two that replace each other
  over the air, and a local recovery to each of the first two images.
- Pairing: two enrolments and two devices are what a second pairing of the same
  board needs; two faults combine a lost or late exchange with a failed write or a
  power loss; two versions are what an old acknowledgement needs.
- Console: two inputs are what overtaking needs, two sessions what replacing a
  session needs. `Mixtures` lists how many sessions, inputs, changes at the board and
  faults one behaviour may have together; a restart is a fault and a change. One
  change and one fault are a poll read across a change, a late poll of it and a newer
  one, which is what the mirror needs.
- Audio: two sockets and two grants make sessions compete for a slot, two keys and
  two browser sessions let authority go stale. One account is checked; that the
  slots are right for several accounts and any limit is proved (section 4).
- Apps: `Budgets` lists mixtures of commands, starts of an app and faults: two
  commands, a start and a fault; three commands; one command, a start and two
  faults. A kill, its acknowledgement and the command that takes it back need
  two; a third is what overtaking between them needs. One package of each kind
  meets every test of the kind.
- Diagnostics: the queue of three overflows with its fourth event, a batch of two
  leaves a remainder, the table of two forgets rows, and three events per boot and
  two boots reach all of it; with a last sequence number of three, a snapshot after
  three events finds none left; two faults are a lost answer and the retry's loss, or
  one of them with a failed flash write.
- Publishing: `Budgets` lists mixtures of preparations, edits of the repository,
  packages and faults, so that each race has the steps it needs: two publishers of
  one tree, two preparations around two publishers, an edit while a package is
  made, a failed or killed publisher followed by another. Trees start as fresh
  checkouts or all built. Three publishers, and a fault on top of two preparations
  and two packages, were also checked and pass, but take longer.
- Symmetry is used for deployments, request keys, grants, sockets, pairing's rows,
  trees, publishers and directories, all of which the code only compares for
  equality, and never in a run that checks liveness.

`CHECK_DEADLOCK FALSE` is set in every run: the rows of a revoked device never
change again, a stopped client waits for its owner, and a bounded history ends.

### Fairness

`FairSpec` of the updates assumes that the worker loop keeps running (`TickStep`,
`Restart` and `StartupConfirmed` together, never a fault), that the maintenance
timer fires, and that an approval expires in the end, at most seven days after the
request. It assumes nothing about the owner, about identity reports, about late
requests, or about faults. `Settles` therefore excludes what only a person can
resolve: a client that stopped for local recovery, a board held by its boot guard,
and a device that lost its pairing.

`Pairing` assumes that the worker keeps looping and that requests are answered in
the end: an `Exchange` or `Heartbeat` without a fault happens if it stays enabled.
The properties let a withdrawn device, an expired enrolment or a board whose
storage failed go. `VisualConsole` assumes that the worker takes its turns with
polls and heartbeats (strong fairness for the heartbeat, which is disabled while a
poll is under way), that the display's task ends a change it began, and that the
page polls every 0.8 seconds; nothing is owed by people or by delayed requests.

`AppRollout` assumes that the network task goes on with its round every thirty
seconds (`Round`, without a fault), that a session which was asked for starts or
fails and then ends (five minutes at most), and that a timer is over within an
hour. Owners, faults and late acknowledgements owe nothing. `Diagnostics` assumes
that the worker builds and sends its uploads and takes the snapshot of a finished
boot. `AudioGateway` and `ReleasePublishing` are checked for safety only: the
publisher is run by hand, and a process that was killed takes no step.

## 4. What is proved

Every invariant, action property and refinement of the passing runs is also a
theorem, for every value of the constants its assumptions allow. `ConfirmedByEvidence`
is proved only: `OutcomesHappened` checks the same evidence in the whole system. Each subsection
gives the theorems of one module and the inductive invariant they rest on.

### Deployment service

`DeploymentService_proofs` proves, for all values of the constants that satisfy
the named assumptions (`ReleaseAssumption`, `BoundAssumption`, `ReportAssumption`,
`NoneAssumption`) and for any set of reports:

| Theorem | Statement |
|---|---|
| `ServiceTypeCorrect` | `ServiceSpec => []ServiceTypeOK` |
| `ActiveSound` | `ServiceSpec => []ActiveIsSound` |
| `ConfirmationHasEvidence` | `ServiceSpec => []ConfirmedByEvidence` |
| `SequenceOnlyAdvances` | `ServiceSpec => SequenceAdvances` |
| `ServiceKeepsPromise` | `ServiceSpec => KeepsPromise` |

The argument rests on one inductive invariant, `Exclusive`, the conjunction of
the types and the two parts of `ActiveIsSound`: `OneActive` and
`ActiveStillApplies`. Neither of these is inductive alone: a confirmation moves the confirmed image, and only because the
confirmed deployment is the one active row is no other active row left behind
with the wrong predecessor; and that a confirmation is not refused needs the
sequence of the active row to be greater still. `OnlyRequestActivates` and
`RequestLeavesOne` carry the first, `ImageStays` the second. The evidence and
sequence theorems follow from `Exclusive` and from `WhoConfirms`, the three
operations that write the confirmed image. The refinement shows that every step
is a step of `UpdatePromise` or none: `DropOrNothing` and `QuietStep` handle the
operations that at most cancel one waiting row, the rest is one step per action.

### Firmware update, end to end

`FirmwareUpdate_proofs` adds `ClientAssumption` and `JournalAssumption` (no journal
is `None`) to the assumptions of the service. The theorems hold for any number of
deployments, images, releases, report sizes and faults:

| Theorem | Statement |
|---|---|
| `UpdateTypeCorrect` | `Spec => []TypeOK` |
| `OutcomesAreTrue` | `Spec => []OutcomesHappened` |
| `JournalAlwaysTracks` | `Spec => []JournalTracksJob` |
| `HoldNeedsThreeBadStarts` | `Spec => []HoldTakesThreeBadStarts` |
| `RecordAlwaysMatches` | `Spec => []BoardMatchesRecord` |
| `LiveSlotsAreSafe` | `Spec => LiveSlotsUntouched` |
| `SystemActiveSound` | `Spec => []ActiveIsSound` |
| `SystemKeepsPromise` | `Spec => KeepsPromise` |

The last two carry the results about the service over: every step of the system
is a step of the service or leaves its rows alone. None of the others is inductive
alone, because the outcome of an update is spread over the row, the journal, the
place of the client in its tick, the reports still under way, otadata and the two
slots. `Inv` ties them together in five parts:

- `Device`: what the place in the tick says of the journal (`Control`, `Phases`,
  `Returning`), the four situations the slots can be in during an update
  (`Slots`: not selected, chosen, tried, returned) and the boot counter (`Counter`,
  each attempt is paid for by a bad start, or is the present one);
- `Exclusive`, the invariant of the service;
- `Tracking`: journal and row are about the same update and at the same report or
  one apart (`InStep`), a delayed report of an active deployment is no newer than
  the journal except the one a reconciliation gave up (`LateFits`), nothing has
  happened to the target of a deployment that was not adopted (`Untouched`), and a
  row agrees with its last report (`Rows`);
- `Evidence`: a row, a delayed report or a journal that says "confirmed" or
  "rolled back" has the history that supports it;
- `Recorded`: during an update the platform's record is the image it replaces, or
  the target once confirmed; without one it matches the board.

Each part has its own chain of lemmas. The steps are first sorted by what they do
to the journal (`Keeps`, `Submits`, `Acks`, `Adjusts`, `Commits`, `Adopts`,
`Forgets`) and to the rows (`RowMoves`), so that a part is proved
preserved once per kind of move, and not once per action.

### Pairing

`Pairing_proofs` rests on `PairingAssumption` and `RowAssumption` (no row is `None`):

| Theorem | Statement |
|---|---|
| `PairingTypeCorrect` | `Spec => []PairingTypeOK` |
| `CredentialsAlwaysAgree` | `Spec => []CredentialsAgree` |
| `AcknowledgementsAlwaysAgree` | `Spec => []AcknowledgementsAgree` |
| `RevocationIsFinal` | `Spec => RevokedIsFinal` |

The invariant follows a credential from the moment the board generates it. By the
text in flash, the worker's copy and the requests under way it is offered for one
enrolment at most (`OneOffer`), and once a device record stores it, that device is
the one the enrolment was claimed as (`OfferOpens`); a credential that still waits
for its enrolment is stored nowhere (`Unused`). Without these, a delayed exchange
could open a second record. For the acknowledgements, nothing is acknowledged for
a device before the board is paired as it, and a heartbeat on its way
acknowledges no more than the board has (`HeartbeatsFit`). A local save of the volume is a kind of
write of its own (`WritesVolume`), and so is a boot that cannot read the text
(`LosesText`). A step of the system is
the step of the platform and that of the board, each of a few kinds, and the
lemmas are stated about the kinds.

### Visual console

`VisualConsole_proofs` rests on `ConsoleAssumption` alone, so it covers any number
of sessions, inputs, changes at the board and faults:

| Theorem | Statement |
|---|---|
| `ConsoleTypeCorrect` | `Spec => []ConsoleTypeOK` |
| `InputsAlwaysFaithful` | `Spec => []InputsAreFaithful` |
| `MirrorNeverReturns` | `Spec => MirrorNeverGoesBack` |

That an input executes in its place is true of the board because of the queue:
a dispatched input has nothing waiting before it and did not wait through a gap
(`SentInOrder`, `Gapped`), and the answer the board holds is later than all it
applied (`AnswerIsNext`). That the owner is told the truth needs every
acknowledgement on its way to be of something applied (`AcksAreTrue`), including
those of polls the platform may yet serve. The mirror needs that a revision, wherever
it is held, is at most one ahead of the changes the screen with it has (`ScreensFit`):
the revision is counted after a change and loaded before the page, so a screen may
be newer than its revision and never older. `Loads` and `LoadsEffect` carry this
through the three loads of a poll. The type invariant itself needs `Counts`, since
the revision is bounded only by what the board did.

### Audio gateway

`AudioGateway_proofs` proves every property of the gateway that is checked, from
`GatewayAssumption` alone, so for any number of owners, sockets, grants and slots:

| Theorem | Statement |
|---|---|
| `GatewayTypeCorrect` | `Spec => []GatewayTypeOK` |
| `GrantsWorkOnce` | `Spec => []OneSessionPerGrant` |
| `SessionsAccounted` | `Spec => []SessionsAreAccounted` |
| `KeysTested` | `Spec => []KeysAreTested` |

The steps inside a session are treated together: `InnerMoves` says that they move
one socket, which keeps its grant, key and row. Three invariants are strengthened.
`RowsUseGrants` (a grant with a row is used or deleted) makes `OneSessionPerGrant`
inductive. `Slots` adds that the set of slots is finite, so that its cardinality
can be followed. `HeldKeys` (a session runs with the key of its grant, a provider
that is ready accepted that key, a check ends as accepted only then) carries
`KeysAreTested`: a result is stored only if the key is still the one checked.

### Release publishing

`ReleasePublishing_proofs` proves every property of publishing that is checked,
from `ReleaseAssumption` and `ReleaseNone`, so for any trees, publishers,
directories and trust inputs, and any mixtures of steps:

| Theorem | Statement |
|---|---|
| `ReleaseTypeCorrect` | `Spec => []ReleaseTypeOK` |
| `SequencesAreUnique` | `Spec => []SequenceIsUnique` |
| `MarkersAreLast` | `Spec => []MarkerIsLast` |
| `PublicationsStay` | `Spec => DoneStays` |
| `BuildsAreServed` | `Spec => []ServedAsBuilt` |

`Sound` is the types, with what a complete candidate and a registered directory
look like. `Employment` says what a publisher knows at each step of `publish`,
`Reservations` that whoever is past the ledger has its release in it and that one
sequence in the ledger belongs to one publisher. `Holdings` says that a directory
which exists is held by the publisher that made it alone, filled as far as that
publisher has got. Together they are inductive, and the middle three theorems
follow: two directories with one sequence would have one maker, which has one
directory. `BuiltFromInputs` follows an app from the compiler through the
candidate to the archive and carries the last theorem.

### App rollout

`AppRollout_proofs` proves every safety property of the rollout that is checked,
from `AppRolloutAssumption`:

| Theorem | Statement |
|---|---|
| `AppTypeCorrect` | `Spec => []AppTypeOK` |
| `AssignmentsSound` | `Spec => []AssignmentSound` |
| `ResultsAreFinal` | `Spec => ResultIsFinal` |
| `StartsApproved` | `Spec => OnlyApprovedStarts` |
| `KillsHold` | `Spec => []KillHolds` |

`Typed` is the types and `Numbers`: every command number that an answer, the
board or a late acknowledgement carries is that of a row. That the command of an
answer is the oldest queued one is a minimum over the rows and needs the
well-foundedness of the numbers (`OldestIsQueued`). `KillHolds` is not inductive,
because an answer given before the kill may still be on its way when the kill is
acknowledged: `InForce` adds that the answer which carries the kill asks for no
package, and that as soon as the board, a late acknowledgement or the row says
"applied", no app is active and no answer in hand asks for one.

### Diagnostics

`Diagnostics_proofs` rests on `DiagnosticsAssumption`, of which the one that matters
is that the table keeps at least one batch:

| Theorem | Statement |
|---|---|
| `DiagnosticsTypeCorrect` | `Spec => []DiagnosticsTypeOK` |
| `RecordAlwaysExact` | `Spec => []RecordIsExact` |

An upload may be stored and its answer lost, so the head of the queue may be
stored already. `Overlap` counts these events. `OverlapFits` says that they are the
last ones received, that all of them are still rows, and that they are at most one
batch; `SendingFits` that an upload under way begins with them. So the rows the
next upload makes are exactly those of the events after the overlap
(`OverlapIsRow`, `CreatedRows`), and they follow on the last one received. Had the
table room for less than a batch, an event could lose its row before the retry and
be stored twice. `WordsFit` follows a boot event from flash to the table.

### Only model-checked

All liveness: `Settles` of the updates and of the apps, `PairingCompletes`,
`SettingsReachBoard`, `StopIsHonoured`, `MirrorCatchesUp` and `Delivered`. Liveness under fairness,
anything with ENABLED, and induction over data are out of the prover's reach, and
so are RECURSIVE operators, which no module declares.

## 5. What is not modelled, and the plan

Left out of the update model: the cryptography of verifying a release
(`verify_envelope`; what is registered is the subject of `ReleasePublishing`),
rate limits, schema 1 journals, builds without a build sequence, and a USB flash
of the board while an update is under way.

`Pairing` leaves out rate limits and the hardware report; `VisualConsole` the
coordinates of inputs and rate limits; `AudioGateway` liveness and what section 2
names; `ReleasePublishing` what section 2 names, and the audits, guards and
installation plans of `firmware/tools`, each of which reads one file and accepts
or refuses it.

Not modelled as components, with the reason in `PROJECT.json`:

- Companion device tasks: the audio task, the socket's callbacks and the worker
  share atomics, and which of them runs when a socket closes is decided by an
  external socket library that is not in the repository.
- Browser installer and recovery tools, Improv and Wi-Fi provisioning: dialogues
  over a serial port or a radio with a person, one side of which is external.
- User interface and LVGL pages: drawing; what a page may do to shared state is in
  the models of the components it calls.
- Operations: deployment scripts and backups, straight-line shell and Compose.

What would come next, most important first:

1. `LocalRecovery`: a USB flash during and after an update, which is also the
   hazard of a claimed deployment that stays active after a recovery.
2. Liveness of the gateway: a withdrawn session ends, a slot is freed.
3. The timing of the boot retry hold, and the Companion tasks against an assumed
   socket library.
