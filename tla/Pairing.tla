------------------------------ MODULE Pairing ------------------------------
(***************************************************************************)
(* Pairing a board with an account, and the heartbeat that carries its     *)
(* settings: the enrolment and device rows of the platform, and the worker *)
(* task of the board with its state text in flash.                         *)
(*                                                                         *)
(* A platform operation is one transaction.  A step of the worker is one   *)
(* HTTP exchange with what it does to flash afterwards; the exchange may   *)
(* be lost, or reach the platform after the worker stopped waiting, every  *)
(* save may fail, and so may reading the text after a restart.             *)
(***************************************************************************)
EXTENDS Integers, FiniteSets, Sequences

CONSTANTS
    Owner,
    DeviceId,
    Enrollment,   \* enrolment ids, each with its code and proof
    Credential,   \* random credentials a board generates
    Setting,      \* what an owner may set on a device: its name, its volume
    Local,        \* a volume chosen at the board
    MaxDevices,   \* device records an account may have (20 in the code)
    MaxVersion,   \* bounds the settings an owner saves
    MaxFaults,    \* bounds lost and late exchanges, failed saves, power losses
    None

ASSUME PairingAssumption ==
    /\ MaxDevices \in Nat \ {0}
    /\ MaxVersion \in Nat \ {0}
    /\ MaxFaults \in Nat
    /\ None \notin Owner \cup DeviceId \cup Enrollment \cup Credential \cup Setting \cup {Local}
    /\ Local \notin Setting

VARIABLES
    enrollments, \* DeviceEnrollment rows, or None
    devices,     \* Device rows, or None
    active,      \* accounts that are active
    flash,       \* the state text in flash
    board,       \* the worker's copy of it, and what it is doing
    link,        \* the identity shared with the core network task
    issued,      \* credentials generated so far
    late,        \* requests the platform has yet to receive
    faults

platformVars == <<enrollments, devices, active>>
boardVars    == <<flash, board, link, issued>>
vars         == <<platformVars, boardVars, late, faults>>

EnrollmentRow == [device: DeviceId \cup {None}, expired: BOOLEAN]

\* settings: every configuration saved so far; config_version is its length.
DeviceRow == [owner: Owner, credential: Credential \cup {None}, revoked: BOOLEAN,
              settings: Seq(Setting), acknowledged: 0..MaxVersion]

ASSUME RowAssumption == None \notin EnrollmentRow \cup DeviceRow

\* enrollment stands for the enrolment id with its proof, code and expiry; name
\* and volume are the ones of a setting, if not chosen at the board.
Stored == [credential: Credential \cup {None}, device: DeviceId \cup {None},
           enrollment: Enrollment \cup {None}, ack: 0..MaxVersion,
           name: Setting \cup {None}, volume: Setting \cup {None, Local}]

Request == [kind: {"exchange"}, enrollment: Enrollment, credential: Credential]
      \cup [kind: {"heartbeat"}, device: DeviceId, credential: Credential, ack: 0..MaxVersion]

PairingTypeOK ==
    /\ enrollments \in [Enrollment -> EnrollmentRow \cup {None}]
    /\ devices \in [DeviceId -> DeviceRow \cup {None}]
    /\ active \subseteq Owner
    /\ flash \in Stored
    /\ board \in [state: Stored, storage: BOOLEAN, enrolling: BOOLEAN]
    /\ link \in [device: DeviceId \cup {None}, credential: Credential \cup {None}]
    /\ issued \subseteq Credential
    /\ late \subseteq Request
    /\ faults \in 0..MaxFaults

Blank == [credential |-> None, device |-> None, enrollment |-> None,
          ack |-> 0, name |-> None, volume |-> None]

\* worker(), before its loop: a state text that does not fit together pauses
\* pairing and heartbeats.
Loads(s) == /\ s.device # None => s.credential # None
            /\ s.enrollment # None => s.credential # None

Booted(s) == [state |-> s, storage |-> Loads(s), enrolling |-> FALSE]

\* read_state(): a text that cannot be read pauses them as well.
Unread == [Booted(Blank) EXCEPT !.storage = FALSE]

LinkOf(s) == [device |-> s.device, credential |-> s.credential]

Init ==
    /\ enrollments = [e \in Enrollment |-> None]
    /\ devices = [d \in DeviceId |-> None]
    /\ active = Owner
    /\ flash = Blank
    /\ board = Booted(Blank)
    /\ link = LinkOf(Blank)
    /\ issued = {}
    /\ late = {}
    /\ faults = 0

Fault == faults < MaxFaults /\ faults' = faults + 1
Fine  == UNCHANGED faults

State == board.state

----------------------------------------------------------------------------
(* The owner and the administrator.                                        *)

Rows(o) == {d \in DeviceId : devices[d] # None /\ devices[d].owner = o}

\* Mutation of Unclaimed: the code works again after its first use.
StillValid(e) == enrollments[e] # None /\ ~enrollments[e].expired

Unclaimed(e) == /\ enrollments[e] # None
                /\ ~enrollments[e].expired
                /\ enrollments[e].device = None

\* The owner types the code shown on the board.
Claim(o, e, s) ==
    /\ o \in active
    /\ Unclaimed(e)
    /\ Cardinality(Rows(o)) < MaxDevices
    /\ \E d \in DeviceId :
          /\ devices[d] = None
          /\ devices' = [devices EXCEPT ![d] =
                [owner |-> o, credential |-> None, revoked |-> FALSE,
                 settings |-> <<s>>, acknowledged |-> 0]]
          /\ enrollments' = [enrollments EXCEPT ![e].device = d]
    /\ UNCHANGED <<active, boardVars, late, faults>>

\* Each save is a new configuration version.
SaveSettings(d, s) ==
    /\ devices[d] # None
    /\ devices[d].owner \in active
    /\ ~devices[d].revoked
    /\ Len(devices[d].settings) < MaxVersion
    /\ devices' = [devices EXCEPT ![d].settings = Append(@, s)]
    /\ UNCHANGED <<enrollments, active, boardVars, late, faults>>

Revoke(d) ==
    /\ devices[d] # None
    /\ devices[d].owner \in active
    /\ devices' = [devices EXCEPT ![d].revoked = TRUE, ![d].credential = None]
    /\ UNCHANGED <<enrollments, active, boardVars, late, faults>>

\* The administrator disables an account, or enables it again.
AccountChanges(o) ==
    /\ active' = IF o \in active THEN active \ {o} ELSE active \cup {o}
    /\ UNCHANGED <<enrollments, devices, boardVars, late, faults>>

EnrollmentExpires(e) ==
    /\ enrollments[e] # None
    /\ ~enrollments[e].expired
    /\ enrollments' = [enrollments EXCEPT ![e].expired = TRUE]
    /\ UNCHANGED <<devices, active, boardVars, late, faults>>

----------------------------------------------------------------------------
(* The platform's side of the device protocol.                             *)

Usable(d) == ~devices[d].revoked /\ devices[d].owner \in active

\* Mutations of MayExchange: a revoked device gets a credential again; a lost
\* reply cannot be repeated.
RevokedToo(e, c) == /\ enrollments[e].device # None
                    /\ ~enrollments[e].expired
                    /\ devices[enrollments[e].device].credential \in {None, c}

OnlyOnce(e, c) == /\ enrollments[e].device # None
                  /\ ~enrollments[e].expired
                  /\ Usable(enrollments[e].device)
                  /\ devices[enrollments[e].device].credential = None

\* exchange() with the right proof: only the credential that was stored first
\* may be repeated.
MayExchange(e, c) == /\ enrollments[e].device # None
                     /\ ~enrollments[e].expired
                     /\ Usable(enrollments[e].device)
                     /\ devices[enrollments[e].device].credential \in {None, c}

ServeExchange(e, c) ==
    devices' = IF MayExchange(e, c)
               THEN [devices EXCEPT ![enrollments[e].device].credential = c]
               ELSE devices

Authentic(d, c) == /\ devices[d] # None
                   /\ Usable(d)
                   /\ devices[d].credential = c

Version(d) == Len(devices[d].settings)

\* Mutation of AckInRange: the newest version is out of range.
AckBelow(d, ack) == devices[d].acknowledged <= ack /\ ack < Version(d)

\* An acknowledgement is of a version the platform has, and never goes back.
AckInRange(d, ack) == devices[d].acknowledged <= ack /\ ack <= Version(d)

ServeHeartbeat(d, c, ack) ==
    devices' = IF Authentic(d, c) /\ AckInRange(d, ack)
               THEN [devices EXCEPT ![d].acknowledged = ack]
               ELSE devices

----------------------------------------------------------------------------
(* The worker.                                                             *)

Remember(s) == board' = [board EXCEPT !.state = s]

\* save(): a failed write leaves the old or the new text in flash; the worker
\* has "kept" in memory then, and pauses until the next boot.
Save(new, kept) ==
    \/ flash' = new /\ Remember(new) /\ Fine
    \/ /\ flash' \in {flash, new}
       /\ board' = [board EXCEPT !.state = kept, !.storage = FALSE]
       /\ Fault

\* Mutation of FreshIdentity: the acknowledged version survives.
FreshCredential(c) == [State EXCEPT !.credential = c]

FreshIdentity(c) == [State EXCEPT !.credential = c, !.ack = 0]

\* Mutation of WithVolume: the name goes with the volume it came with.
VolumeAlone == [State EXCEPT !.name = None, !.volume = Local]

WithVolume == [State EXCEPT !.volume = Local]

\* Somebody moves the slider on the board; without storage nothing takes it.
LocalVolume ==
    /\ board.storage
    /\ ~board.enrolling
    /\ Save(WithVolume, State)
    /\ UNCHANGED <<platformVars, link, issued, late>>

\* The owner presses Pair.
StartPairing(c) ==
    /\ board.storage
    /\ ~board.enrolling
    /\ State.enrollment = None
    /\ State.device = None
    /\ c \notin issued
    /\ issued' = issued \cup {c}
    /\ LET fresh == FreshIdentity(c)
       IN \/ flash' = fresh /\ Fine
             /\ board' = [board EXCEPT !.state = fresh, !.enrolling = TRUE]
          \/ /\ flash' \in {flash, fresh}
             /\ board' = [board EXCEPT !.state = fresh, !.storage = FALSE]
             /\ Fault
    /\ UNCHANGED <<platformVars, link, late>>

\* enroll/: the platform creates an enrolment; its reply may be lost.
Enroll(e) ==
    /\ board.enrolling
    /\ enrollments[e] = None
    /\ enrollments' = [enrollments EXCEPT ![e] = [device |-> None, expired |-> FALSE]]
    /\ LET got == [State EXCEPT !.enrollment = e]
       IN \/ flash' = got /\ Fine
             /\ board' = [board EXCEPT !.state = got, !.enrolling = FALSE]
          \/ /\ flash' \in {flash, got}
             /\ board' = [state |-> got, storage |-> FALSE, enrolling |-> FALSE]
             /\ Fault
          \/ /\ board' = [board EXCEPT !.enrolling = FALSE]
             /\ Fault
             /\ UNCHANGED flash
    /\ UNCHANGED <<devices, active, link, issued, late>>

\* The platform cannot be reached: the owner has to press Pair again.
EnrollUnavailable ==
    /\ board.enrolling
    /\ board' = [board EXCEPT !.enrolling = FALSE]
    /\ Fault
    /\ UNCHANGED <<platformVars, flash, link, issued, late>>

\* Ten minutes by the board's clock.
PairingExpires ==
    /\ ~board.enrolling
    /\ State.enrollment # None
    /\ LET gone == [State EXCEPT !.enrollment = None]
       IN IF board.storage THEN Save(gone, gone)
          ELSE Remember(gone) /\ Fine /\ UNCHANGED flash
    /\ UNCHANGED <<platformVars, link, issued, late>>

Polling == board.storage /\ ~board.enrolling

Paired(d) == [State EXCEPT !.device = d, !.enrollment = None]

\* The exchange while pairing, every five seconds.
Exchange ==
    /\ Polling
    /\ State.enrollment # None
    /\ LET e == State.enrollment
           c == State.credential
       IN /\ ServeExchange(e, c)
          /\ \/ /\ MayExchange(e, c)
                /\ Save(Paired(enrollments[e].device), State)
                /\ link' = IF board'.storage THEN LinkOf(board'.state) ELSE link
             \/ ~MayExchange(e, c) /\ Fine /\ UNCHANGED <<flash, board, link>>
             \/ Fault /\ UNCHANGED <<flash, board, link>>
    /\ UNCHANGED <<enrollments, active, issued, late>>

\* A request that the worker gave up on, and that will still arrive.
SendLate ==
    /\ Polling
    /\ Fault
    /\ \/ /\ State.enrollment # None
          /\ late' = late \cup {[kind |-> "exchange", enrollment |-> State.enrollment,
                                 credential |-> State.credential]}
       \/ /\ State.enrollment = None
          /\ State.device # None
          /\ late' = late \cup {[kind |-> "heartbeat", device |-> State.device,
                                 credential |-> State.credential, ack |-> State.ack]}
    /\ UNCHANGED <<platformVars, boardVars>>

Arrive ==
    /\ \E m \in late :
          /\ late' = late \ {m}
          /\ IF m.kind = "exchange" THEN ServeExchange(m.enrollment, m.credential)
             ELSE ServeHeartbeat(m.device, m.credential, m.ack)
    /\ UNCHANGED <<enrollments, active, boardVars, faults>>

Set(s) == [State EXCEPT !.name = s, !.volume = s]

\* Mutations of Configured: the version is stored before its settings, or is one
\* too high.
VersionOnly(d) == [State EXCEPT !.ack = Version(d)]

VersionAhead(d) == [Set(devices[d].settings[Version(d)]) EXCEPT !.ack = Version(d) + 1]

Configured(d) == [Set(devices[d].settings[Version(d)]) EXCEPT !.ack = Version(d)]

\* Mutation of Forgotten: the credential goes, the device id stays.
ForgottenCredential == [State EXCEPT !.credential = None]

Forgotten == [State EXCEPT !.device = None]

\* The reply's configuration is taken if it is newer; a 401 makes the worker
\* forget its device id, whatever becomes of the write.
Heartbeat ==
    /\ Polling
    /\ State.enrollment = None
    /\ State.device # None
    /\ LET d == State.device
           c == State.credential
       IN /\ ServeHeartbeat(d, c, State.ack)
          /\ \/ /\ Authentic(d, c)
                /\ IF AckInRange(d, State.ack) /\ Version(d) > State.ack
                   THEN Save(Configured(d), State)
                   ELSE Fine /\ UNCHANGED <<flash, board>>
                /\ UNCHANGED link
             \/ /\ ~Authentic(d, c)
                /\ Save(Forgotten, Forgotten)
                /\ link' = [link EXCEPT !.device = None]
             \/ Fault /\ UNCHANGED <<flash, board, link>>
    /\ UNCHANGED <<enrollments, active, issued, late>>

\* At any step; memory is lost.
PowerLoss ==
    /\ Fault
    /\ board' \in {Booted(flash), Unread}
    /\ link' = LinkOf(board'.state)
    /\ UNCHANGED <<platformVars, flash, issued, late>>

OwnerStep ==
    \/ \E o \in Owner, e \in Enrollment, s \in Setting : Claim(o, e, s)
    \/ \E d \in DeviceId, s \in Setting : SaveSettings(d, s)
    \/ \E d \in DeviceId : Revoke(d)
    \/ \E o \in Owner : AccountChanges(o)
    \/ \E e \in Enrollment : EnrollmentExpires(e)

WorkerStep ==
    \/ \E c \in Credential : StartPairing(c)
    \/ \E e \in Enrollment : Enroll(e)
    \/ EnrollUnavailable \/ PairingExpires \/ Exchange \/ Heartbeat \/ SendLate \/ LocalVolume

Next == OwnerStep \/ WorkerStep \/ Arrive \/ PowerLoss

\* The worker loops and the network comes back; no fault is owed.
Fairness == WF_vars(Fine /\ (Exchange \/ Heartbeat))

Spec     == Init /\ [][Next]_vars
FairSpec == Spec /\ Fairness

----------------------------------------------------------------------------
(* Properties.                                                             *)

KnownToPlatform ==
    \A id \in {LinkOf(flash), LinkOf(State), link} :
        id.device # None =>
            /\ devices[id.device] # None
            /\ devices[id.device].revoked \/ devices[id.device].credential = id.credential

CredentialsDistinct ==
    \A d, f \in DeviceId :
        d # f /\ devices[d] # None /\ devices[f] # None =>
            devices[d].credential = None \/ devices[d].credential # devices[f].credential

\* A device id the board holds is one whose credential the platform stored from
\* this board, in flash, in memory and as the core task sees it, and no
\* credential opens two records: only a revocation or a disabled account can
\* ever refuse the board, whatever was lost or repeated while pairing (claim,
\* exchange, worker).
CredentialsAgree == KnownToPlatform /\ CredentialsDistinct

AcknowledgementFits ==
    \A s \in {flash, State} :
        s.device # None => AckInRange(s.device, s.ack) \/ devices[s.device].revoked

AcknowledgedIsStored ==
    flash.device # None /\ ~devices[flash.device].revoked =>
        /\ devices[flash.device].acknowledged <= flash.ack
        /\ flash.ack > 0 =>
              LET acknowledged == devices[flash.device].settings[flash.ack]
              IN  flash.name = acknowledged /\ flash.volume \in {acknowledged, Local}

\* A paired board is never refused for the version it acknowledges, so a failed
\* write, a reboot, a late heartbeat or a pairing as another device never locks
\* it out; and a version the platform holds as acknowledged is in flash, or a later
\* one is: with its name, and with its volume unless somebody chose another at the
\* board since (heartbeat, worker, save).
AcknowledgementsAgree == AcknowledgementFits /\ AcknowledgedIsStored

\* A revoked device record never changes again: it gets no credential back and
\* records no heartbeat, not even one sent before the revocation (revoke,
\* exchange, heartbeat).
RevokedIsFinal ==
    [][\A d \in DeviceId :
          devices[d] # None /\ devices[d].revoked => devices'[d] = devices[d]]_vars

\* The exchange the board waits for is one the platform grants.
Claimed(e) == /\ State.enrollment = e
              /\ board.storage
              /\ enrollments[e] # None
              /\ enrollments[e].device # None
              /\ ~enrollments[e].expired
              /\ Usable(enrollments[e].device)

\* A claimed enrolment that the board polls for ends: the board is paired, or the
\* enrolment expires, its device is withdrawn or storage fails (exchange).
PairingCompletes == \A e \in Enrollment : Claimed(e) ~> ~Claimed(e)

\* The board serves the identity of d and can save what it is sent.
Connected(d) == State.device = d /\ board.storage /\ devices[d] # None

\* Settings saved for a connected board are acknowledged, unless it is withdrawn
\* or its storage fails (heartbeat).
SettingsReachBoard ==
    \A d \in DeviceId, v \in 1..MaxVersion :
        (Connected(d) /\ Version(d) >= v)
        ~> (Connected(d) => devices[d].acknowledged >= v)
=============================================================================
