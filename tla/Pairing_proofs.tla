--------------------------- MODULE Pairing_proofs ---------------------------
(***************************************************************************)
(* Theorems about Pairing: the identity a board holds is one the platform  *)
(* stored for it, the version it acknowledges is never refused, and a      *)
(* revoked record is final.                                                *)
(*                                                                         *)
(* The invariant beside the two that matter follows a credential from the  *)
(* moment it is generated: it is offered for one enrolment at most, by     *)
(* the texts of the board and by the requests still on their way, and it   *)
(* opens at most the device that this enrolment was claimed as; until the  *)
(* first heartbeat, nothing is acknowledged for that device.               *)
(***************************************************************************)
EXTENDS Pairing, TLAPS

Texts == {flash, State}

RowFits(d) ==
    devices[d] # None =>
        /\ Len(devices[d].settings) \in 1..MaxVersion
        /\ devices[d].revoked => devices[d].credential = None
        /\ devices[d].credential # None => devices[d].credential \in issued

ClaimFits(e) ==
    enrollments[e] # None /\ enrollments[e].device # None =>
        devices[enrollments[e].device] # None

RowsFit == /\ \A d \in DeviceId : RowFits(d)
           /\ \A e \in Enrollment : ClaimFits(e)

\* A text with an enrolment is of a board that is not paired yet.
TextFits(s) ==
    /\ s.credential # None => s.credential \in issued
    /\ s.device # None => s.credential # None
    /\ s.enrollment # None =>
          /\ s.credential # None
          /\ enrollments[s.enrollment] # None
          /\ s.device = None
          /\ s.ack = 0

\* While the board asks for an enrolment, its text is saved and has none.
BoardFits ==
    /\ \A s \in Texts : TextFits(s)
    /\ link.device # None => link.credential # None
    /\ board.storage => flash = State
    /\ board.enrolling =>
          /\ board.storage
          /\ State.credential # None
          /\ State.enrollment = None
          /\ State.device = None
          /\ State.ack = 0

RequestFits(m) ==
    /\ m.credential \in issued
    /\ m.kind = "exchange" => enrollments[m.enrollment] # None
    /\ m.kind = "heartbeat" => devices[m.device] # None

RequestsFit == \A m \in late : RequestFits(m)

\* The credential c is, or will be, offered for the enrolment e.
Offered(e, c) ==
    \/ \E s \in Texts : s.enrollment = e /\ s.credential = c
    \/ \E m \in late : m.kind = "exchange" /\ m.enrollment = e /\ m.credential = c

OneOffer ==
    \A c \in Credential : \A e, f \in Enrollment :
        Offered(e, c) /\ Offered(f, c) => e = f

\* A device that already has an offered credential is the one claimed.
OfferOpens ==
    \A c \in Credential : \A e \in Enrollment, d \in DeviceId :
        Offered(e, c) /\ devices[d] # None /\ devices[d].credential = c
            => enrollments[e].device = d

\* A credential that waits for its enrolment is offered and stored nowhere.
Unused ==
    board.enrolling =>
        /\ \A e \in Enrollment : ~Offered(e, State.credential)
        /\ \A d \in DeviceId : devices[d] # None => devices[d].credential # State.credential

Offers == OneOffer /\ OfferOpens /\ Unused

\* Nothing is acknowledged, or on its way, for a device the board is not
\* paired as yet.
NothingSent(s) ==
    \A d \in DeviceId :
        s.enrollment # None /\ enrollments[s.enrollment].device = d =>
            /\ devices[d].acknowledged = 0
            /\ \A m \in late : m.kind = "heartbeat" => m.device # d

\* A heartbeat on its way acknowledges no more than the board has.
CoversLate(s) ==
    \A m \in late : m.kind = "heartbeat" /\ m.device = s.device => m.ack <= s.ack

HeartbeatsFit == \A s \in Texts : NothingSent(s) /\ CoversLate(s)

Inv ==
    /\ PairingTypeOK
    /\ RowsFit /\ BoardFits /\ RequestsFit
    /\ Offers
    /\ CredentialsAgree
    /\ HeartbeatsFit
    /\ AcknowledgementsAgree

----------------------------------------------------------------------------
(* The texts.                                                              *)

LEMMA TextType ==
    ASSUME PairingTypeOK
    PROVE  /\ flash \in Stored /\ State \in Stored
           /\ board \in [state: Stored, storage: BOOLEAN, enrolling: BOOLEAN]
           /\ board = [state |-> State, storage |-> board.storage, enrolling |-> board.enrolling]
           /\ board.storage \in BOOLEAN /\ board.enrolling \in BOOLEAN
  BY DEF PairingTypeOK, State

\* What the worker writes.
LEMMA NewTexts ==
    ASSUME NEW s \in Stored, NEW c \in Credential, NEW e \in Enrollment, NEW d \in DeviceId,
           NEW v \in 0..MaxVersion, NEW x \in Setting
    PROVE  /\ [s EXCEPT !.credential = c, !.ack = 0] \in Stored
           /\ [s EXCEPT !.enrollment = e] \in Stored
           /\ [s EXCEPT !.enrollment = None] \in Stored
           /\ [s EXCEPT !.device = d, !.enrollment = None] \in Stored
           /\ [s EXCEPT !.name = x, !.volume = x] \in Stored
           /\ [s EXCEPT !.ack = v] \in Stored
           /\ [s EXCEPT !.volume = Local] \in Stored
           /\ [s EXCEPT !.device = None] \in Stored
  <1>1. 0 \in 0..MaxVersion
    BY PairingAssumption
  <1>2. [s EXCEPT !.credential = c, !.ack = 0] \in Stored
    BY <1>1 DEF Stored
  <1>3. [s EXCEPT !.enrollment = e] \in Stored
    BY DEF Stored
  <1>4. [s EXCEPT !.enrollment = None] \in Stored
    BY DEF Stored
  <1>5. [s EXCEPT !.device = d, !.enrollment = None] \in Stored
    BY DEF Stored
  <1>6. /\ [s EXCEPT !.name = x, !.volume = x] \in Stored
        /\ [s EXCEPT !.ack = v] \in Stored
        /\ [s EXCEPT !.volume = Local] \in Stored
    BY DEF Stored
  <1>7. [s EXCEPT !.device = None] \in Stored
    BY DEF Stored
  <1> QED
    BY <1>2, <1>3, <1>4, <1>5, <1>6, <1>7

LEMMA FaultsCounted ==
    ASSUME PairingTypeOK, Fault \/ Fine
    PROVE  faults' \in 0..MaxFaults
  BY PairingAssumption DEF PairingTypeOK, Fault, Fine

\* The step leaves the old texts or new in flash and in memory, and a board that
\* still saves has them equal.
Writes(new) ==
    /\ flash' \in {flash, new}
    /\ board'.state \in {flash, board.state, new}
    /\ board'.storage => flash' = board'.state
    /\ board' \in [state: Stored, storage: BOOLEAN, enrolling: BOOLEAN]

LEMMA Written ==
    ASSUME NEW new, Writes(new)
    PROVE  \A s \in Texts' : s \in Texts \/ s = new
  BY DEF Writes, Texts, State

LEMMA SaveWrites ==
    ASSUME PairingTypeOK, BoardFits, NEW new \in Stored, NEW kept \in {State, new},
           Save(new, kept)
    PROVE  /\ Writes(new)
           /\ board'.enrolling = board.enrolling
           /\ board'.storage => board.storage /\ flash' = new /\ board'.state = new
  <1>0. /\ board \in [state: Stored, storage: BOOLEAN, enrolling: BOOLEAN]
        /\ board.state \in Stored
        /\ board.storage => flash = board.state
        /\ kept \in Stored
        /\ kept \in {board.state, new}
    BY TextType DEF BoardFits, State
  <1>1. CASE flash' = new /\ Remember(new) /\ Fine
    <2>1. board' = [board EXCEPT !.state = new]
      BY <1>1 DEF Remember
    <2> QED
      BY <1>0, <1>1, <2>1 DEF Writes
  <1>2. CASE /\ flash' \in {flash, new}
             /\ board' = [board EXCEPT !.state = kept, !.storage = FALSE]
    BY <1>0, <1>2 DEF Writes
  <1> QED
    BY <1>1, <1>2 DEF Save

LEMMA NothingWritten ==
    ASSUME PairingTypeOK, BoardFits, UNCHANGED <<flash, board>>
    PROVE  Writes(State)
  BY TextType DEF Writes, BoardFits, State

----------------------------------------------------------------------------
(* What a step does to the platform.                                       *)

Creates(d) ==
    /\ devices[d] = None
    /\ \E o \in Owner, s \in Setting :
          devices' = [devices EXCEPT ![d] =
              [owner |-> o, credential |-> None, revoked |-> FALSE,
               settings |-> <<s>>, acknowledged |-> 0]]

Claims(e, d) == /\ Unclaimed(e)
                /\ Creates(d)
                /\ enrollments' = [enrollments EXCEPT ![e].device = d]

Appends(d, s) == /\ devices[d] # None
                 /\ ~devices[d].revoked
                 /\ Len(devices[d].settings) < MaxVersion
                 /\ devices' = [devices EXCEPT ![d].settings = Append(@, s)]
                 /\ UNCHANGED enrollments

Revokes(d) == /\ devices[d] # None
              /\ devices' = [devices EXCEPT ![d].revoked = TRUE, ![d].credential = None]
              /\ UNCHANGED enrollments

Expires(e) == /\ enrollments[e] # None
              /\ enrollments' = [enrollments EXCEPT ![e].expired = TRUE]
              /\ UNCHANGED devices

Enrolls(e) == /\ enrollments[e] = None
              /\ enrollments' = [enrollments EXCEPT ![e] = [device |-> None, expired |-> FALSE]]
              /\ UNCHANGED devices

Stores(e, c) == /\ enrollments[e] # None
                /\ MayExchange(e, c)
                /\ devices' = [devices EXCEPT ![enrollments[e].device].credential = c]
                /\ UNCHANGED enrollments

Acknowledges(d, ack) == /\ devices[d] # None
                        /\ ~devices[d].revoked
                        /\ AckInRange(d, ack)
                        /\ devices' = [devices EXCEPT ![d].acknowledged = ack]
                        /\ UNCHANGED enrollments

\* A heartbeat of d that acknowledges ack is sent now, or is on its way.
Beats(d, ack) ==
    \/ /\ board.storage
       /\ State.enrollment = None
       /\ State.device = d
       /\ State.ack = ack
    \/ \E m \in late : m.kind = "heartbeat" /\ m.device = d /\ m.ack = ack

PlatformStep ==
    \/ UNCHANGED <<devices, enrollments>>
    \/ \E e \in Enrollment, d \in DeviceId : Claims(e, d)
    \/ \E d \in DeviceId, s \in Setting : Appends(d, s)
    \/ \E d \in DeviceId : Revokes(d)
    \/ \E e \in Enrollment : Expires(e)
    \/ \E e \in Enrollment : Enrolls(e)
    \/ \E e \in Enrollment, c \in Credential : c \in issued /\ Offered(e, c) /\ Stores(e, c)
    \/ \E d \in DeviceId, ack \in 0..MaxVersion : Beats(d, ack) /\ Acknowledges(d, ack)

LEMMA ExchangeServed ==
    ASSUME NEW e \in Enrollment, NEW c \in Credential, enrollments[e] # None,
           ServeExchange(e, c), UNCHANGED enrollments
    PROVE  Stores(e, c) \/ UNCHANGED <<devices, enrollments>>
  BY DEF ServeExchange, Stores

LEMMA HeartbeatServed ==
    ASSUME NEW d \in DeviceId, NEW c \in Credential, NEW ack \in 0..MaxVersion,
           ServeHeartbeat(d, c, ack), UNCHANGED enrollments
    PROVE  Acknowledges(d, ack) \/ UNCHANGED <<devices, enrollments>>
  BY DEF ServeHeartbeat, Acknowledges, Authentic, Usable

\* What the board sends is of types the platform understands.
LEMMA SentTypes ==
    ASSUME PairingTypeOK, BoardFits
    PROVE  /\ State.enrollment # None =>
                 /\ State.enrollment \in Enrollment
                 /\ State.credential \in Credential
                 /\ State.credential \in issued
                 /\ enrollments[State.enrollment] # None
           /\ State.device # None =>
                 /\ State.device \in DeviceId
                 /\ State.credential \in Credential
                 /\ State.credential \in issued
           /\ State.ack \in 0..MaxVersion
  <1>1. /\ State.enrollment \in Enrollment \cup {None}
        /\ State.credential \in Credential \cup {None}
        /\ State.device \in DeviceId \cup {None}
        /\ State.ack \in 0..MaxVersion
    BY TextType DEF Stored
  <1>2. TextFits(State)
    BY DEF BoardFits, Texts
  <1> QED
    BY <1>1, <1>2 DEF TextFits

LEMMA RequestTypes ==
    ASSUME PairingTypeOK, RequestsFit, NEW m \in late
    PROVE  /\ m.kind \in {"exchange", "heartbeat"}
           /\ m.credential \in Credential
           /\ m.credential \in issued
           /\ m.kind = "exchange" => m.enrollment \in Enrollment /\ enrollments[m.enrollment] # None
           /\ m.kind = "heartbeat" =>
                 /\ m.device \in DeviceId
                 /\ m.ack \in 0..MaxVersion
                 /\ devices[m.device] # None
  <1>1. m \in Request
    BY DEF PairingTypeOK
  <1>2. RequestFits(m)
    BY DEF RequestsFit
  <1> QED
    BY <1>1, <1>2 DEF Request, RequestFits

LEMMA StepOfPlatform ==
    ASSUME PairingTypeOK, BoardFits, RequestsFit, [Next]_vars
    PROVE  PlatformStep
  <1>1. ASSUME NEW o \in Owner, NEW e \in Enrollment, NEW s \in Setting, Claim(o, e, s)
        PROVE  PlatformStep
    <2>1. PICK d \in DeviceId :
              /\ devices[d] = None
              /\ devices' = [devices EXCEPT ![d] =
                    [owner |-> o, credential |-> None, revoked |-> FALSE,
                     settings |-> <<s>>, acknowledged |-> 0]]
              /\ enrollments' = [enrollments EXCEPT ![e].device = d]
      BY <1>1 DEF Claim
    <2>2. Unclaimed(e)
      BY <1>1 DEF Claim
    <2>3. Claims(e, d)
      BY <2>1, <2>2 DEF Claims, Creates
    <2> QED
      BY <2>3 DEF PlatformStep
  <1>2. ASSUME NEW d \in DeviceId, NEW s \in Setting, SaveSettings(d, s)
        PROVE  PlatformStep
    <2>1. Appends(d, s)
      BY <1>2 DEF SaveSettings, Appends
    <2> QED
      BY <2>1 DEF PlatformStep
  <1>3. ASSUME NEW d \in DeviceId, Revoke(d)
        PROVE  PlatformStep
    <2>1. Revokes(d)
      BY <1>3 DEF Revoke, Revokes
    <2> QED
      BY <2>1 DEF PlatformStep
  <1>4. ASSUME NEW o \in Owner, AccountChanges(o)
        PROVE  PlatformStep
    BY <1>4 DEF AccountChanges, PlatformStep
  <1>5. ASSUME NEW e \in Enrollment, EnrollmentExpires(e)
        PROVE  PlatformStep
    <2>1. Expires(e)
      BY <1>5 DEF EnrollmentExpires, Expires
    <2> QED
      BY <2>1 DEF PlatformStep
  <1>6. ASSUME NEW e \in Enrollment, Enroll(e)
        PROVE  PlatformStep
    <2>1. Enrolls(e)
      BY <1>6 DEF Enroll, Enrolls
    <2> QED
      BY <2>1 DEF PlatformStep
  <1>7. CASE Exchange
    <2>1. /\ State.enrollment # None
          /\ ServeExchange(State.enrollment, State.credential)
          /\ UNCHANGED enrollments
      BY <1>7 DEF Exchange
    <2>2. Offered(State.enrollment, State.credential)
      BY DEF Offered, Texts
    <2> QED
      BY <2>1, <2>2, SentTypes, ExchangeServed DEF PlatformStep
  <1>8. CASE Heartbeat
    <2>1. /\ State.device # None
          /\ ServeHeartbeat(State.device, State.credential, State.ack)
          /\ UNCHANGED enrollments
      BY <1>8 DEF Heartbeat
    <2>2. Beats(State.device, State.ack)
      BY <1>8 DEF Heartbeat, Polling, Beats
    <2> QED
      BY <2>1, <2>2, SentTypes, HeartbeatServed DEF PlatformStep
  <1>9. CASE Arrive
    <2>1. PICK m \in late :
              IF m.kind = "exchange" THEN ServeExchange(m.enrollment, m.credential)
              ELSE ServeHeartbeat(m.device, m.credential, m.ack)
      BY <1>9 DEF Arrive
    <2>2. UNCHANGED enrollments
      BY <1>9 DEF Arrive
    <2>3. CASE m.kind = "exchange"
      <3>1. Offered(m.enrollment, m.credential)
        BY <2>3 DEF Offered
      <3> QED
        BY <2>1, <2>2, <2>3, <3>1, RequestTypes, ExchangeServed DEF PlatformStep
    <2>4. CASE m.kind # "exchange"
      <3>1. m.kind = "heartbeat"
        BY <2>4, RequestTypes
      <3>2. Beats(m.device, m.ack)
        BY <3>1 DEF Beats
      <3> QED
        BY <2>1, <2>2, <2>4, <3>1, <3>2, RequestTypes, HeartbeatServed DEF PlatformStep
    <2> QED
      BY <2>3, <2>4
  <1>10. CASE \/ \E c \in Credential : StartPairing(c)
              \/ EnrollUnavailable \/ PairingExpires \/ SendLate \/ LocalVolume \/ PowerLoss
              \/ UNCHANGED vars
    BY <1>10 DEF StartPairing, EnrollUnavailable, PairingExpires, SendLate, LocalVolume, PowerLoss,
                 platformVars, vars, PlatformStep
  <1> QED
    BY <1>1, <1>2, <1>3, <1>4, <1>5, <1>6, <1>7, <1>8, <1>9, <1>10
       DEF Next, OwnerStep, WorkerStep

LEMMA IssuedGrows ==
    ASSUME PairingTypeOK, [Next]_vars
    PROVE  issued \subseteq issued' /\ issued' \subseteq Credential /\ active' \subseteq Owner
  BY DEF PairingTypeOK, Next, OwnerStep, WorkerStep, vars, platformVars, boardVars,
         Claim, SaveSettings, Revoke, AccountChanges, EnrollmentExpires, StartPairing, Enroll,
         EnrollUnavailable, PairingExpires, Exchange, Heartbeat, SendLate, LocalVolume, Arrive,
         PowerLoss

LEMMA RowType ==
    ASSUME PairingTypeOK, NEW d \in DeviceId, devices[d] # None
    PROVE  /\ devices[d] \in DeviceRow
           /\ devices[d].owner \in Owner
           /\ devices[d].credential \in Credential \cup {None}
           /\ devices[d].revoked \in BOOLEAN
           /\ devices[d].settings \in Seq(Setting)
           /\ Len(devices[d].settings) \in Nat
           /\ devices[d].acknowledged \in 0..MaxVersion
  BY DEF PairingTypeOK, DeviceRow

LEMMA EnrollmentType ==
    ASSUME PairingTypeOK, NEW e \in Enrollment, enrollments[e] # None
    PROVE  /\ enrollments[e] \in EnrollmentRow
           /\ enrollments[e].device \in DeviceId \cup {None}
           /\ enrollments[e].expired \in BOOLEAN
  BY DEF PairingTypeOK, EnrollmentRow

LEMMA RowUpdates ==
    ASSUME NEW r \in DeviceRow
    PROVE  /\ \A s \in Setting : [r EXCEPT !.settings = Append(r.settings, s)] \in DeviceRow
           /\ [r EXCEPT !.revoked = TRUE, !.credential = None] \in DeviceRow
           /\ \A c \in Credential : [r EXCEPT !.credential = c] \in DeviceRow
           /\ \A a \in 0..MaxVersion : [r EXCEPT !.acknowledged = a] \in DeviceRow
  <1>1. \A s \in Setting : Append(r.settings, s) \in Seq(Setting)
    BY DEF DeviceRow
  <1>2. \A s \in Setting : [r EXCEPT !.settings = Append(r.settings, s)] \in DeviceRow
    BY <1>1 DEF DeviceRow
  <1>3. [r EXCEPT !.revoked = TRUE, !.credential = None] \in DeviceRow
    BY DEF DeviceRow
  <1>4. \A c \in Credential : [r EXCEPT !.credential = c] \in DeviceRow
    BY DEF DeviceRow
  <1>5. \A a \in 0..MaxVersion : [r EXCEPT !.acknowledged = a] \in DeviceRow
    BY DEF DeviceRow
  <1> QED
    BY <1>2, <1>3, <1>4, <1>5

LEMMA NewRowType ==
    ASSUME NEW o \in Owner, NEW s \in Setting
    PROVE  [owner |-> o, credential |-> None, revoked |-> FALSE,
            settings |-> <<s>>, acknowledged |-> 0] \in DeviceRow
  BY PairingAssumption DEF DeviceRow

\* How one row may change.
RowChange(old, new) ==
    \/ new = old
    \/ /\ old = None
       /\ \E o \in Owner, s \in Setting :
             new = [owner |-> o, credential |-> None, revoked |-> FALSE,
                    settings |-> <<s>>, acknowledged |-> 0]
    \/ /\ old # None
       /\ \E s \in Setting :
             /\ ~old.revoked
             /\ Len(old.settings) < MaxVersion
             /\ new = [old EXCEPT !.settings = Append(@, s)]
    \/ old # None /\ new = [old EXCEPT !.revoked = TRUE, !.credential = None]
    \/ /\ old # None
       /\ ~old.revoked
       /\ \E c \in Credential : c \in issued /\ old.credential \in {None, c}
                                /\ new = [old EXCEPT !.credential = c]
    \/ /\ old # None
       /\ ~old.revoked
       /\ \E a \in 0..MaxVersion : /\ old.acknowledged <= a /\ a <= Len(old.settings)
                                   /\ new = [old EXCEPT !.acknowledged = a]

\* Of the other rows, a step leaves each as it is.
LEMMA RowChanges ==
    ASSUME PairingTypeOK, RowsFit, PlatformStep, NEW d \in DeviceId
    PROVE  RowChange(devices[d], devices'[d])
  <1>0. DOMAIN devices = DeviceId
    BY DEF PairingTypeOK
  <1>1. ASSUME NEW f \in DeviceId, Creates(f)
        PROVE  RowChange(devices[d], devices'[d])
    BY <1>0, <1>1 DEF Creates, RowChange
  <1>2. ASSUME NEW f \in DeviceId, NEW s \in Setting, Appends(f, s)
        PROVE  RowChange(devices[d], devices'[d])
    BY <1>0, <1>2 DEF Appends, RowChange
  <1>3. ASSUME NEW f \in DeviceId, Revokes(f)
        PROVE  RowChange(devices[d], devices'[d])
    BY <1>0, <1>3 DEF Revokes, RowChange
  <1>4. ASSUME NEW e \in Enrollment, NEW c \in Credential, c \in issued, Stores(e, c)
        PROVE  RowChange(devices[d], devices'[d])
    <2>1. devices[enrollments[e].device] # None
      BY <1>4 DEF RowsFit, ClaimFits, Stores, MayExchange
    <2> QED
      BY <1>0, <1>4, <2>1 DEF Stores, MayExchange, Usable, RowChange
  <1>5. ASSUME NEW f \in DeviceId, NEW a \in 0..MaxVersion, Acknowledges(f, a)
        PROVE  RowChange(devices[d], devices'[d])
    BY <1>0, <1>5 DEF Acknowledges, AckInRange, Version, RowChange
  <1>6. CASE UNCHANGED devices
    BY <1>6 DEF RowChange
  <1> QED
    BY <1>1, <1>2, <1>3, <1>4, <1>5, <1>6 DEF PlatformStep, Claims, Expires, Enrolls

LEMMA RowChangeType ==
    ASSUME NEW old \in DeviceRow \cup {None}, NEW new, RowChange(old, new)
    PROVE  new \in DeviceRow \cup {None}
  BY NewRowType, RowUpdates DEF RowChange

LEMMA AppendKeeps ==
    ASSUME NEW q \in Seq(Setting), NEW s \in Setting
    PROVE  /\ Len(Append(q, s)) = Len(q) + 1
           /\ \A v \in 1..Len(q) : Append(q, s)[v] = q[v]
  OBVIOUS

\* A record, once there, keeps its settings, and one revoked is final.
LEMMA RowKeeps ==
    ASSUME NEW old \in DeviceRow, NEW new, RowChange(old, new),
           old.revoked => old.credential = None
    PROVE  /\ new # None
           /\ old.revoked => new = old
           /\ Len(old.settings) <= Len(new.settings)
           /\ \A v \in 1..Len(old.settings) : new.settings[v] = old.settings[v]
  <1>0. old # None /\ \A x \in DeviceRow : x # None
    BY RowAssumption
  <1>1. CASE new = old
    BY <1>0, <1>1 DEF DeviceRow
  <1>2. ASSUME NEW s \in Setting, ~old.revoked, new = [old EXCEPT !.settings = Append(@, s)]
        PROVE  /\ new \in DeviceRow
               /\ Len(old.settings) <= Len(new.settings)
               /\ \A v \in 1..Len(old.settings) : new.settings[v] = old.settings[v]
    <2>1. new.settings = Append(old.settings, s) /\ new \in DeviceRow
      BY <1>2, RowUpdates DEF DeviceRow
    <2>2. old.settings \in Seq(Setting)
      BY DEF DeviceRow
    <2>3. /\ Len(new.settings) = Len(old.settings) + 1
          /\ \A v \in 1..Len(old.settings) : new.settings[v] = old.settings[v]
      BY <2>1, <2>2, AppendKeeps
    <2>4. Len(old.settings) <= Len(old.settings) + 1
      BY <2>2
    <2>5. Len(old.settings) <= Len(new.settings)
      BY <2>3, <2>4
    <2> QED
      BY <2>1, <2>3, <2>5
  <1>3. ASSUME new = [old EXCEPT !.revoked = TRUE, !.credential = None]
        PROVE  /\ new \in DeviceRow /\ new.settings = old.settings
               /\ old.revoked => new = old
    <2>1. new \in DeviceRow /\ new.settings = old.settings
      BY <1>3, RowUpdates DEF DeviceRow
    <2>2. old.revoked => new = old
      BY <1>3 DEF DeviceRow
    <2> QED
      BY <2>1, <2>2
  <1>4. ASSUME NEW c \in Credential, new = [old EXCEPT !.credential = c]
        PROVE  new \in DeviceRow /\ new.settings = old.settings
    BY <1>4, RowUpdates DEF DeviceRow
  <1>5. ASSUME NEW a \in 0..MaxVersion, new = [old EXCEPT !.acknowledged = a]
        PROVE  new \in DeviceRow /\ new.settings = old.settings
    BY <1>5, RowUpdates DEF DeviceRow
  <1>6. \A x \in DeviceRow : x.settings \in Seq(Setting) /\ Len(x.settings) \in Nat
    BY DEF DeviceRow
  <1> QED
    BY <1>0, <1>1, <1>2, <1>3, <1>4, <1>5, <1>6 DEF RowChange

\* What a step does to the records: none goes, none loses settings, and one
\* that is revoked stays as it is.
RowsGrow ==
    \A d \in DeviceId :
        devices[d] # None =>
            /\ devices'[d] # None
            /\ devices[d].revoked => devices'[d] = devices[d]
            /\ Len(devices[d].settings) <= Len(devices'[d].settings)
            /\ \A v \in 1..Len(devices[d].settings) :
                  devices'[d].settings[v] = devices[d].settings[v]

LEMMA DevicesStep ==
    ASSUME PairingTypeOK, RowsFit, PlatformStep
    PROVE  /\ devices' \in [DeviceId -> DeviceRow \cup {None}]
           /\ RowsGrow
  <1>1. \A d \in DeviceId : devices[d] \in DeviceRow \cup {None}
    BY DEF PairingTypeOK
  <1>2. \A d \in DeviceId : devices'[d] \in DeviceRow \cup {None}
    BY <1>1, RowChanges, RowChangeType
  <1>3. devices' = [d \in DeviceId |-> devices'[d]]
    BY DEF PairingTypeOK, PlatformStep, Claims, Creates, Appends, Revokes, Expires, Enrolls,
           Stores, Acknowledges
  <1>4. ASSUME NEW d \in DeviceId, devices[d] # None
        PROVE  /\ devices'[d] # None
               /\ devices[d].revoked => devices'[d] = devices[d]
               /\ Len(devices[d].settings) <= Len(devices'[d].settings)
               /\ \A v \in 1..Len(devices[d].settings) :
                     devices'[d].settings[v] = devices[d].settings[v]
    <2>1. devices[d] \in DeviceRow
      BY <1>1, <1>4
    <2>2. devices[d].revoked => devices[d].credential = None
      BY <1>4 DEF RowsFit, RowFits
    <2> QED
      BY <2>1, <2>2, RowChanges, RowKeeps
  <1> QED
    BY <1>2, <1>3, <1>4 DEF RowsGrow

LEMMA RowChangeFits ==
    ASSUME NEW old \in DeviceRow \cup {None}, NEW new, RowChange(old, new), new # None,
           old # None => /\ Len(old.settings) \in 1..MaxVersion
                         /\ old.revoked => old.credential = None
                         /\ old.credential # None => old.credential \in issued
    PROVE  /\ Len(new.settings) \in 1..MaxVersion
           /\ new.revoked => new.credential = None
           /\ new.credential # None => new.credential \in issued
  <1>1. CASE new = old
    BY <1>1
  <1>2. ASSUME NEW o \in Owner, NEW s \in Setting,
               new = [owner |-> o, credential |-> None, revoked |-> FALSE,
                      settings |-> <<s>>, acknowledged |-> 0]
        PROVE  /\ Len(new.settings) \in 1..MaxVersion
               /\ new.revoked => new.credential = None
               /\ new.credential # None => new.credential \in issued
    <2>1. Len(new.settings) = 1 /\ 1 \in 1..MaxVersion
      BY <1>2, PairingAssumption
    <2> QED
      BY <1>2, <2>1
  <1>3. ASSUME old # None, NEW s \in Setting, Len(old.settings) < MaxVersion,
               new = [old EXCEPT !.settings = Append(@, s)]
        PROVE  /\ Len(new.settings) \in 1..MaxVersion
               /\ new.revoked => new.credential = None
               /\ new.credential # None => new.credential \in issued
    <2>1. old.settings \in Seq(Setting) /\ new.settings = Append(old.settings, s)
      BY <1>3 DEF DeviceRow
    <2>2. new.revoked = old.revoked /\ new.credential = old.credential
      BY <1>3 DEF DeviceRow
    <2>3. Len(new.settings) = Len(old.settings) + 1
      BY <2>1
    <2> QED
      BY <1>3, <2>2, <2>3, PairingAssumption
  <1>4. ASSUME old # None, new = [old EXCEPT !.revoked = TRUE, !.credential = None]
        PROVE  new.settings = old.settings /\ new.credential = None
    BY <1>4 DEF DeviceRow
  <1>5. ASSUME old # None, ~old.revoked, NEW c \in issued, new = [old EXCEPT !.credential = c]
        PROVE  new.settings = old.settings /\ new.credential = c /\ ~new.revoked
    BY <1>5 DEF DeviceRow
  <1>6. ASSUME old # None, NEW a \in 0..MaxVersion, new = [old EXCEPT !.acknowledged = a]
        PROVE  /\ new.settings = old.settings
               /\ new.credential = old.credential
               /\ new.revoked = old.revoked
    BY <1>6 DEF DeviceRow
  <1> QED
    BY <1>1, <1>2, <1>3, <1>4, <1>5, <1>6 DEF RowChange

\* What a step does to the enrolments: none goes, and a claim is final.
EnrollmentsGrow ==
    \A e \in Enrollment :
        enrollments[e] # None =>
            /\ enrollments'[e] # None
            /\ enrollments[e].device # None => enrollments'[e].device = enrollments[e].device

\* A claim is of a record created with it.
ClaimsAreNew ==
    \A e \in Enrollment :
        enrollments'[e] # None /\ enrollments'[e].device # None =>
            \/ enrollments[e] # None /\ enrollments[e].device = enrollments'[e].device
            \/ /\ enrollments'[e].device \in DeviceId
               /\ devices[enrollments'[e].device] = None
               /\ devices'[enrollments'[e].device] # None
               /\ devices'[enrollments'[e].device].credential = None
               /\ devices'[enrollments'[e].device].acknowledged = 0

LEMMA EnrollmentsStep ==
    ASSUME PairingTypeOK, RowsFit, PlatformStep
    PROVE  /\ enrollments' \in [Enrollment -> EnrollmentRow \cup {None}]
           /\ EnrollmentsGrow
           /\ ClaimsAreNew
  <1>0. /\ enrollments \in [Enrollment -> EnrollmentRow \cup {None}]
        /\ \A x \in EnrollmentRow : x # None
        /\ DOMAIN devices = DeviceId
    BY RowAssumption DEF PairingTypeOK
  <1>1. ASSUME NEW e \in Enrollment, NEW d \in DeviceId, Claims(e, d)
        PROVE  /\ enrollments' \in [Enrollment -> EnrollmentRow \cup {None}]
               /\ EnrollmentsGrow
               /\ ClaimsAreNew
    <2>1. /\ enrollments[e] \in EnrollmentRow
          /\ enrollments[e].device = None
          /\ enrollments' = [enrollments EXCEPT ![e] = [enrollments[e] EXCEPT !.device = d]]
      BY <1>0, <1>1 DEF Claims, Unclaimed
    <2>2. [enrollments[e] EXCEPT !.device = d] \in EnrollmentRow
      BY <2>1 DEF EnrollmentRow
    <2>3. devices[d] = None
      BY <1>1 DEF Claims, Creates
    <2>4. devices'[d] \in DeviceRow /\ devices'[d].credential = None /\ devices'[d].acknowledged = 0
      BY <1>0, <1>1, NewRowType DEF Claims, Creates
    <2>5. [enrollments[e] EXCEPT !.device = d].device = d
      BY <2>1 DEF EnrollmentRow
    <2>6. devices'[d] # None
      BY <2>4, RowAssumption
    <2> QED
      BY <1>0, <2>1, <2>2, <2>3, <2>4, <2>5, <2>6 DEF EnrollmentsGrow, ClaimsAreNew
  <1>2. ASSUME NEW e \in Enrollment, Expires(e)
        PROVE  /\ enrollments' \in [Enrollment -> EnrollmentRow \cup {None}]
               /\ EnrollmentsGrow
               /\ ClaimsAreNew
    <2>1. /\ enrollments[e] \in EnrollmentRow
          /\ enrollments' = [enrollments EXCEPT ![e] = [enrollments[e] EXCEPT !.expired = TRUE]]
      BY <1>0, <1>2 DEF Expires
    <2>2. /\ [enrollments[e] EXCEPT !.expired = TRUE] \in EnrollmentRow
          /\ [enrollments[e] EXCEPT !.expired = TRUE].device = enrollments[e].device
      BY <2>1 DEF EnrollmentRow
    <2> QED
      BY <1>0, <2>1, <2>2 DEF EnrollmentsGrow, ClaimsAreNew
  <1>3. ASSUME NEW e \in Enrollment, Enrolls(e)
        PROVE  /\ enrollments' \in [Enrollment -> EnrollmentRow \cup {None}]
               /\ EnrollmentsGrow
               /\ ClaimsAreNew
    <2>1. [device |-> None, expired |-> FALSE] \in EnrollmentRow
      BY DEF EnrollmentRow
    <2> QED
      BY <1>0, <1>3, <2>1 DEF Enrolls, EnrollmentsGrow, ClaimsAreNew
  <1>4. CASE UNCHANGED enrollments
    BY <1>0, <1>4 DEF EnrollmentsGrow, ClaimsAreNew
  <1> QED
    BY <1>1, <1>2, <1>3, <1>4 DEF PlatformStep, Appends, Revokes, Stores, Acknowledges

LEMMA RowsFitStep ==
    ASSUME PairingTypeOK, RowsFit, BoardFits, RequestsFit, [Next]_vars
    PROVE  RowsFit'
  <1>0. PlatformStep /\ issued \subseteq issued'
    BY StepOfPlatform, IssuedGrows
  <1>1. ASSUME NEW d \in DeviceId
        PROVE  RowFits(d)'
    <2>1. /\ devices[d] \in DeviceRow \cup {None}
          /\ RowChange(devices[d], devices'[d])
          /\ RowFits(d)
      BY <1>0, RowChanges DEF PairingTypeOK, RowsFit
    <2> QED
      BY <1>0, <2>1, RowChangeFits DEF RowFits
  <1>2. ASSUME NEW e \in Enrollment
        PROVE  ClaimFits(e)'
    <2>1. enrollments[e] # None => enrollments[e].device \in DeviceId \cup {None}
      BY EnrollmentType
    <2> QED
      BY <1>0, <2>1, DevicesStep, EnrollmentsStep
         DEF RowsFit, ClaimFits, RowsGrow, ClaimsAreNew
  <1> QED
    BY <1>1, <1>2 DEF RowsFit

----------------------------------------------------------------------------
(* What a step does to the board.                                          *)

KeepsTexts ==
    /\ flash' = flash
    /\ board'.state \in {flash, board.state}
    /\ board'.storage => flash' = board'.state
    /\ board' \in [state: Stored, storage: BOOLEAN, enrolling: BOOLEAN]
    /\ board'.enrolling => board.enrolling /\ board'.state = board.state
                           /\ board'.storage = board.storage
    /\ link' \in {link, LinkOf(flash)}

WritesFresh(c) ==
    /\ c \notin issued
    /\ c \in issued'
    /\ State.enrollment = None
    /\ State.device = None
    /\ Writes(FreshIdentity(c))
    /\ board'.enrolling => board'.storage /\ board'.state = FreshIdentity(c)
    /\ UNCHANGED <<devices, enrollments, link, late>>

Offer(e) == [State EXCEPT !.enrollment = e]

WritesOffer(e) ==
    /\ board.enrolling
    /\ Enrolls(e)
    /\ Writes(Offer(e))
    /\ ~board'.enrolling
    /\ UNCHANGED <<link, late>>

Unpaired == [State EXCEPT !.enrollment = None]

WritesUnpaired ==
    /\ State.enrollment # None
    /\ Writes(Unpaired)
    /\ ~board'.enrolling
    /\ UNCHANGED <<devices, enrollments, link, late>>

WritesPaired ==
    /\ board.storage
    /\ State.enrollment # None
    /\ Stores(State.enrollment, State.credential)
    /\ Writes(Paired(enrollments[State.enrollment].device))
    /\ ~board'.enrolling
    /\ link' \in {link, LinkOf(Paired(enrollments[State.enrollment].device))}
    /\ UNCHANGED late

WritesSettings ==
    /\ board.storage
    /\ State.enrollment = None
    /\ State.device # None
    /\ Acknowledges(State.device, State.ack)
    /\ Writes(Configured(State.device))
    /\ ~board'.enrolling
    /\ UNCHANGED <<link, late>>

WritesForgotten ==
    /\ Writes(Forgotten)
    /\ ~board'.enrolling
    /\ link' = [link EXCEPT !.device = None]
    /\ UNCHANGED <<devices, enrollments, late>>

WritesVolume ==
    /\ board.storage
    /\ Writes(WithVolume)
    /\ ~board'.enrolling
    /\ UNCHANGED <<devices, enrollments, link, late>>

\* The board restarts and cannot read its text.
LosesText ==
    /\ flash' = flash
    /\ board' = Unread
    /\ link' = LinkOf(Blank)
    /\ UNCHANGED <<devices, enrollments, late>>

BoardStep ==
    \/ KeepsTexts
    \/ \E c \in Credential : WritesFresh(c)
    \/ \E e \in Enrollment : WritesOffer(e)
    \/ WritesUnpaired
    \/ WritesPaired
    \/ WritesSettings
    \/ WritesForgotten
    \/ WritesVolume
    \/ LosesText

LEMMA TextsNotWritten ==
    ASSUME PairingTypeOK, BoardFits, UNCHANGED <<flash, board, link>>
    PROVE  KeepsTexts
  BY TextType DEF KeepsTexts, BoardFits, State

LEMMA StartPairingStep ==
    ASSUME PairingTypeOK, BoardFits, NEW c \in Credential, StartPairing(c)
    PROVE  BoardStep /\ faults' \in 0..MaxFaults
  <1> DEFINE fresh == FreshIdentity(c)
  <1>1. fresh \in Stored
    <2>1. 0 \in 0..MaxVersion
      BY PairingAssumption
    <2> QED
      BY <2>1, TextType DEF FreshIdentity, Stored
  <1>2. /\ board \in [state: Stored, storage: BOOLEAN, enrolling: BOOLEAN]
        /\ board.storage
        /\ board.storage => flash = board.state
    BY TextType DEF BoardFits, State, StartPairing
  <1>3. /\ c \notin issued
        /\ issued' = issued \cup {c}
        /\ State.enrollment = None
        /\ State.device = None
        /\ UNCHANGED <<devices, enrollments, link, late>>
    BY DEF StartPairing, platformVars
  <1>4. \/ flash' = fresh /\ Fine
           /\ board' = [board EXCEPT !.state = fresh, !.enrolling = TRUE]
        \/ /\ flash' \in {flash, fresh}
           /\ board' = [board EXCEPT !.state = fresh, !.storage = FALSE]
           /\ Fault
    BY DEF StartPairing
  <1>5. faults' \in 0..MaxFaults
    BY <1>4, FaultsCounted
  <1>6. ~board.enrolling
    BY DEF StartPairing
  <1> HIDE DEF fresh
  <1>7. CASE flash' = fresh /\ board' = [board EXCEPT !.state = fresh, !.enrolling = TRUE]
    <2>1. /\ flash' \in {flash, fresh}
          /\ board'.state = fresh
          /\ board'.storage
          /\ board' \in [state: Stored, storage: BOOLEAN, enrolling: BOOLEAN]
      BY <1>1, <1>2, <1>7
    <2> QED
      BY <1>3, <1>5, <1>7, <2>1 DEF BoardStep, WritesFresh, Writes, fresh
  <1>8. CASE /\ flash' \in {flash, fresh}
             /\ board' = [board EXCEPT !.state = fresh, !.storage = FALSE]
    <2>1. /\ board'.state = fresh
          /\ ~board'.storage
          /\ ~board'.enrolling
          /\ board' \in [state: Stored, storage: BOOLEAN, enrolling: BOOLEAN]
      BY <1>1, <1>2, <1>6, <1>8
    <2> QED
      BY <1>3, <1>5, <1>8, <2>1 DEF BoardStep, WritesFresh, Writes, fresh
  <1> QED
    BY <1>4, <1>7, <1>8

LEMMA EnrollStep ==
    ASSUME PairingTypeOK, BoardFits, NEW e \in Enrollment, Enroll(e)
    PROVE  BoardStep /\ faults' \in 0..MaxFaults
  <1> DEFINE got == Offer(e)
  <1>1. got \in Stored
    BY TextType, NewTexts DEF Offer, Stored
  <1>2. /\ board \in [state: Stored, storage: BOOLEAN, enrolling: BOOLEAN]
        /\ board.enrolling
        /\ board.storage
        /\ flash = board.state
    BY TextType DEF BoardFits, State, Enroll
  <1>3. /\ Enrolls(e)
        /\ UNCHANGED <<link, late>>
    BY DEF Enroll, Enrolls
  <1>4. \/ flash' = got /\ Fine
           /\ board' = [board EXCEPT !.state = got, !.enrolling = FALSE]
        \/ /\ flash' \in {flash, got}
           /\ board' = [state |-> got, storage |-> FALSE, enrolling |-> FALSE]
           /\ Fault
        \/ /\ board' = [board EXCEPT !.enrolling = FALSE]
           /\ Fault
           /\ UNCHANGED flash
    BY DEF Enroll, Offer
  <1>5. faults' \in 0..MaxFaults
    BY <1>4, FaultsCounted
  <1> HIDE DEF got
  <1>6. CASE flash' = got /\ board' = [board EXCEPT !.state = got, !.enrolling = FALSE]
    <2>1. /\ board'.state = got
          /\ ~board'.enrolling
          /\ board' \in [state: Stored, storage: BOOLEAN, enrolling: BOOLEAN]
      BY <1>1, <1>2, <1>6
    <2> QED
      BY <1>2, <1>3, <1>5, <1>6, <2>1 DEF BoardStep, WritesOffer, Writes, got
  <1>7. CASE /\ flash' \in {flash, got}
             /\ board' = [state |-> got, storage |-> FALSE, enrolling |-> FALSE]
    <2>1. /\ board'.state = got
          /\ ~board'.storage
          /\ ~board'.enrolling
          /\ board' \in [state: Stored, storage: BOOLEAN, enrolling: BOOLEAN]
      BY <1>1, <1>7
    <2> QED
      BY <1>2, <1>3, <1>5, <1>7, <2>1 DEF BoardStep, WritesOffer, Writes, got
  <1>8. CASE board' = [board EXCEPT !.enrolling = FALSE] /\ UNCHANGED flash
    <2>1. /\ board'.state = board.state
          /\ board'.storage = board.storage
          /\ ~board'.enrolling
          /\ board' \in [state: Stored, storage: BOOLEAN, enrolling: BOOLEAN]
      BY <1>2, <1>8
    <2> QED
      BY <1>2, <1>3, <1>5, <1>8, <2>1 DEF BoardStep, KeepsTexts
  <1> QED
    BY <1>4, <1>6, <1>7, <1>8

LEMMA PairingExpiresStep ==
    ASSUME PairingTypeOK, BoardFits, PairingExpires
    PROVE  BoardStep /\ faults' \in 0..MaxFaults
  <1>1. Unpaired \in Stored
    BY TextType DEF Unpaired, Stored
  <1>2. /\ State.enrollment # None
        /\ ~board.enrolling
        /\ UNCHANGED <<devices, enrollments, link, late>>
    BY DEF PairingExpires, platformVars
  <1>3. CASE board.storage
    <2>1. Save(Unpaired, Unpaired)
      BY <1>3 DEF PairingExpires, Unpaired
    <2>2. /\ Writes(Unpaired)
          /\ board'.enrolling = board.enrolling
          /\ faults' \in 0..MaxFaults
      <3>1. Fault \/ Fine
        BY <2>1 DEF Save
      <3> QED
        BY <1>1, <2>1, <3>1, SaveWrites, FaultsCounted
    <2> QED
      BY <1>2, <2>2 DEF BoardStep, WritesUnpaired
  <1>4. CASE ~board.storage
    <2>1. /\ board' = [board EXCEPT !.state = Unpaired]
          /\ UNCHANGED flash
          /\ Fine
      BY <1>4 DEF PairingExpires, Unpaired, Remember
    <2>2. board \in [state: Stored, storage: BOOLEAN, enrolling: BOOLEAN]
      BY TextType
    <2>3. /\ board'.state = Unpaired
          /\ board'.storage = board.storage
          /\ board'.enrolling = board.enrolling
          /\ board' \in [state: Stored, storage: BOOLEAN, enrolling: BOOLEAN]
      BY <1>1, <2>1, <2>2
    <2> QED
      BY <1>2, <1>4, <2>1, <2>3, FaultsCounted DEF BoardStep, WritesUnpaired, Writes
  <1> QED
    BY <1>3, <1>4

LEMMA ExchangeStep ==
    ASSUME PairingTypeOK, RowsFit, BoardFits, Exchange
    PROVE  BoardStep /\ faults' \in 0..MaxFaults
  <1> DEFINE e == State.enrollment
             c == State.credential
             new == Paired(enrollments[e].device)
  <1>1. /\ e \in Enrollment
        /\ enrollments[e] # None
        /\ board.storage /\ ~board.enrolling
        /\ State.enrollment # None
        /\ UNCHANGED <<enrollments, late>>
        /\ ServeExchange(e, c)
    BY SentTypes DEF Exchange, Polling
  <1>2. CASE /\ MayExchange(e, c)
             /\ Save(new, State)
             /\ link' = IF board'.storage THEN LinkOf(board'.state) ELSE link
    <2>1. enrollments[e].device \in DeviceId
      BY <1>1, <1>2, EnrollmentType DEF MayExchange
    <2>2. new \in Stored
      BY <2>1, TextType DEF Paired, Stored
    <2>3. /\ Writes(new)
          /\ board'.enrolling = board.enrolling
          /\ board'.storage => board'.state = new
      BY <1>2, <2>2, SaveWrites
    <2>4. Stores(e, c)
      BY <1>1, <1>2 DEF ServeExchange, Stores
    <2>5. link' \in {link, LinkOf(new)}
      BY <1>2, <2>3
    <2>6. faults' \in 0..MaxFaults
      BY <1>2, FaultsCounted DEF Save
    <2> QED
      BY <1>1, <2>3, <2>4, <2>5, <2>6 DEF BoardStep, WritesPaired
  <1>3. CASE UNCHANGED <<flash, board, link>> /\ (Fine \/ Fault)
    BY <1>3, TextsNotWritten, FaultsCounted DEF BoardStep
  <1> QED
    BY <1>2, <1>3 DEF Exchange

\* The newest settings of a device, as the board stores them.
LEMMA NewestSetting ==
    ASSUME PairingTypeOK, RowsFit, NEW d \in DeviceId, devices[d] # None
    PROVE  /\ Version(d) \in 1..MaxVersion
           /\ devices[d].settings[Version(d)] \in Setting
  <1>1. devices[d].settings \in Seq(Setting) /\ Version(d) \in 1..MaxVersion
    BY RowType DEF RowsFit, RowFits, Version
  <1> QED
    BY <1>1 DEF Version

LEMMA HeartbeatStep ==
    ASSUME PairingTypeOK, RowsFit, BoardFits, Heartbeat
    PROVE  BoardStep /\ faults' \in 0..MaxFaults
  <1> DEFINE d == State.device
             c == State.credential
  <1>1. /\ d \in DeviceId
        /\ d # None
        /\ State.ack \in 0..MaxVersion
        /\ State.enrollment = None
        /\ board.storage /\ ~board.enrolling
        /\ UNCHANGED <<enrollments, late, issued>>
        /\ ServeHeartbeat(d, c, State.ack)
    BY SentTypes DEF Heartbeat, Polling
  <1>2. CASE /\ Authentic(d, c)
             /\ AckInRange(d, State.ack)
             /\ Save(Configured(d), State)
             /\ UNCHANGED link
    <2>1. devices[d] # None /\ ~devices[d].revoked
      BY <1>2 DEF Authentic, Usable
    <2>2. Configured(d) \in Stored
      <3>1. Version(d) \in 0..MaxVersion /\ devices[d].settings[Version(d)] \in Setting
        BY <1>1, <2>1, NewestSetting
      <3>2. State \in Stored
        BY TextType
      <3> QED
        BY <3>1, <3>2 DEF Configured, Set, Stored
    <2>3. /\ Writes(Configured(d))
          /\ board'.enrolling = board.enrolling
      BY <1>2, <2>2, SaveWrites
    <2>4. Acknowledges(d, State.ack)
      BY <1>1, <1>2, <2>1 DEF ServeHeartbeat, Acknowledges
    <2>5. faults' \in 0..MaxFaults
      BY <1>2, FaultsCounted DEF Save
    <2> QED
      BY <1>1, <1>2, <2>3, <2>4, <2>5 DEF BoardStep, WritesSettings
  <1>3. CASE /\ ~Authentic(d, c)
             /\ Save(Forgotten, Forgotten)
             /\ link' = [link EXCEPT !.device = None]
    <2>1. Forgotten \in Stored
      BY TextType DEF Forgotten, Stored
    <2>2. /\ Writes(Forgotten)
          /\ board'.enrolling = board.enrolling
      BY <1>3, <2>1, SaveWrites
    <2>3. UNCHANGED devices
      BY <1>1, <1>3 DEF ServeHeartbeat
    <2>4. faults' \in 0..MaxFaults
      BY <1>3, FaultsCounted DEF Save
    <2> QED
      BY <1>1, <1>3, <2>2, <2>3, <2>4 DEF BoardStep, WritesForgotten
  <1>4. CASE UNCHANGED <<flash, board, link>> /\ (Fine \/ Fault)
    BY <1>4, TextsNotWritten, FaultsCounted DEF BoardStep
  <1> QED
    BY <1>2, <1>3, <1>4 DEF Heartbeat

LEMMA LocalVolumeStep ==
    ASSUME PairingTypeOK, BoardFits, LocalVolume
    PROVE  BoardStep /\ faults' \in 0..MaxFaults
  <1>1. WithVolume \in Stored
    BY TextType DEF WithVolume, Stored
  <1>2. /\ board.storage /\ ~board.enrolling
        /\ Save(WithVolume, State)
        /\ UNCHANGED <<devices, enrollments, link, late>>
    BY DEF LocalVolume, platformVars
  <1>3. Writes(WithVolume) /\ board'.enrolling = board.enrolling
    BY <1>1, <1>2, SaveWrites
  <1>4. faults' \in 0..MaxFaults
    BY <1>2, FaultsCounted DEF Save
  <1> QED
    BY <1>2, <1>3, <1>4 DEF BoardStep, WritesVolume

LEMMA BlankFields ==
    /\ Blank \in Stored
    /\ Unread = [state |-> Blank, storage |-> FALSE, enrolling |-> FALSE]
    /\ Blank.device = None /\ Blank.enrollment = None /\ Blank.credential = None
    /\ Blank.ack = 0
  <1>1. Blank.device = None /\ Blank.enrollment = None /\ Blank.credential = None
        /\ Blank.ack = 0
    BY DEF Blank
  <1>2. 0 \in 0..MaxVersion
    BY PairingAssumption
  <1>3. Blank \in Stored
    BY <1>2 DEF Blank, Stored
  <1>4. Unread = [state |-> Blank, storage |-> FALSE, enrolling |-> FALSE]
    <2>1. PICK b : b = Blank
      OBVIOUS
    <2>2. Unread = [[state |-> b, storage |-> Loads(b), enrolling |-> FALSE]
                      EXCEPT !.storage = FALSE]
      BY <2>1 DEF Unread, Booted
    <2> QED
      BY <2>1, <2>2
  <1> QED
    BY <1>1, <1>3, <1>4

LEMMA PowerLossStep ==
    ASSUME PairingTypeOK, BoardFits, PowerLoss
    PROVE  BoardStep /\ faults' \in 0..MaxFaults
  <1>1. faults' \in 0..MaxFaults
    BY FaultsCounted DEF PowerLoss
  <1>2. CASE board' = Booted(flash)
    <2>1. /\ board' = [state |-> flash, storage |-> Loads(flash), enrolling |-> FALSE]
          /\ flash' = flash
          /\ flash \in Stored
          /\ Loads(flash) \in BOOLEAN
      BY <1>2, TextType DEF PowerLoss, Booted, Loads
    <2>2. /\ board'.state = flash
          /\ ~board'.enrolling
          /\ board' \in [state: Stored, storage: BOOLEAN, enrolling: BOOLEAN]
      BY <2>1
    <2>3. link' = LinkOf(flash)
      BY <2>2 DEF PowerLoss
    <2> QED
      BY <1>1, <2>1, <2>2, <2>3 DEF BoardStep, KeepsTexts
  <1>3. CASE board' = Unread
    <2>1. board'.state = Blank
      BY <1>3, BlankFields
    <2> QED
      BY <1>1, <1>3, <2>1 DEF PowerLoss, platformVars, BoardStep, LosesText
  <1> QED
    BY <1>2, <1>3 DEF PowerLoss

LEMMA StepOfBoard ==
    ASSUME PairingTypeOK, RowsFit, BoardFits, [Next]_vars
    PROVE  BoardStep /\ faults' \in 0..MaxFaults
  <1>0. faults \in 0..MaxFaults
    BY DEF PairingTypeOK
  <1>1. CASE \/ OwnerStep \/ SendLate \/ Arrive \/ UNCHANGED vars
    <2>1. UNCHANGED <<flash, board, link>> /\ (Fault \/ Fine)
      BY <1>1 DEF OwnerStep, Claim, SaveSettings, Revoke, AccountChanges, EnrollmentExpires,
                  SendLate, Arrive, boardVars, platformVars, vars, Fine
    <2> QED
      BY <2>1, TextsNotWritten, FaultsCounted DEF BoardStep
  <1>2. CASE EnrollUnavailable
    <2>1. /\ board' = [board EXCEPT !.enrolling = FALSE]
          /\ Fault
          /\ UNCHANGED <<flash, link>>
      BY <1>2 DEF EnrollUnavailable
    <2>2. /\ board \in [state: Stored, storage: BOOLEAN, enrolling: BOOLEAN]
          /\ board.storage => flash = board.state
      BY TextType DEF BoardFits, State
    <2>3. /\ board'.state = board.state
          /\ board'.storage = board.storage
          /\ ~board'.enrolling
          /\ board' \in [state: Stored, storage: BOOLEAN, enrolling: BOOLEAN]
      BY <2>1, <2>2
    <2> QED
      BY <2>1, <2>2, <2>3, FaultsCounted DEF BoardStep, KeepsTexts
  <1>3. CASE \/ \E c \in Credential : StartPairing(c)
             \/ \E e \in Enrollment : Enroll(e)
             \/ PairingExpires \/ Exchange \/ Heartbeat \/ LocalVolume \/ PowerLoss
    BY <1>3, StartPairingStep, EnrollStep, PairingExpiresStep, ExchangeStep, HeartbeatStep,
       LocalVolumeStep, PowerLossStep
  <1> QED
    BY <1>1, <1>2, <1>3 DEF Next, WorkerStep

----------------------------------------------------------------------------
(* The requests on their way.                                              *)

LateExchange == [kind |-> "exchange", enrollment |-> State.enrollment,
                 credential |-> State.credential]

LateHeartbeat == [kind |-> "heartbeat", device |-> State.device,
                  credential |-> State.credential, ack |-> State.ack]

Sends ==
    /\ board.storage
    /\ ~board.enrolling
    /\ UNCHANGED <<devices, enrollments, flash, board, link>>
    /\ \/ /\ State.enrollment # None
          /\ late' = late \cup {LateExchange}
       \/ /\ State.enrollment = None
          /\ State.device # None
          /\ late' = late \cup {LateHeartbeat}

LEMMA StepOfLate ==
    ASSUME [Next]_vars
    PROVE  late' \subseteq late \/ Sends
  <1>1. SendLate => Sends
    BY DEF SendLate, Sends, Polling, LateExchange, LateHeartbeat, platformVars, boardVars
  <1> QED
    BY <1>1 DEF Next, OwnerStep, WorkerStep, vars, Claim, SaveSettings, Revoke, AccountChanges,
                EnrollmentExpires, StartPairing, Enroll, EnrollUnavailable, PairingExpires,
                Exchange, Heartbeat, LocalVolume, Arrive, PowerLoss

LEMMA LateTypes ==
    ASSUME PairingTypeOK, BoardFits, Sends
    PROVE  /\ late' \subseteq Request
           /\ State.enrollment # None => LateExchange \in Request
           /\ State.enrollment = None => LateHeartbeat \in Request
  <1>1. CASE State.enrollment # None
    <2>1. LateExchange \in Request
      BY <1>1, SentTypes DEF LateExchange, Request
    <2> QED
      BY <1>1, <2>1 DEF Sends, PairingTypeOK
  <1>2. CASE State.enrollment = None
    <2>1. State.device # None
      BY <1>2 DEF Sends
    <2>2. LateHeartbeat \in Request
      BY <2>1, SentTypes DEF LateHeartbeat, Request
    <2> QED
      BY <1>2, <2>2 DEF Sends, PairingTypeOK
  <1> QED
    BY <1>1, <1>2

----------------------------------------------------------------------------
(* The types, the texts and the requests stay in shape.                    *)

\* The fields of what the worker writes.
LEMMA Fields ==
    ASSUME PairingTypeOK
    PROVE  /\ \A c \in Credential :
                 /\ FreshIdentity(c).credential = c
                 /\ FreshIdentity(c).ack = 0
                 /\ FreshIdentity(c).device = State.device
                 /\ FreshIdentity(c).enrollment = State.enrollment
           /\ \A e \in Enrollment :
                 /\ Offer(e).enrollment = e
                 /\ Offer(e).credential = State.credential
                 /\ Offer(e).device = State.device
                 /\ Offer(e).ack = State.ack
           /\ /\ Unpaired.enrollment = None
              /\ Unpaired.credential = State.credential
              /\ Unpaired.device = State.device
              /\ Unpaired.ack = State.ack
           /\ \A d \in DeviceId :
                 /\ Paired(d).enrollment = None
                 /\ Paired(d).device = d
                 /\ Paired(d).credential = State.credential
                 /\ Paired(d).ack = State.ack
           /\ \A d \in DeviceId :
                 /\ Configured(d).enrollment = State.enrollment
                 /\ Configured(d).device = State.device
                 /\ Configured(d).credential = State.credential
                 /\ Configured(d).ack = Version(d)
                 /\ Configured(d).name = devices[d].settings[Version(d)]
                 /\ Configured(d).volume = devices[d].settings[Version(d)]
           /\ /\ WithVolume.enrollment = State.enrollment
              /\ WithVolume.device = State.device
              /\ WithVolume.credential = State.credential
              /\ WithVolume.ack = State.ack
              /\ WithVolume.name = State.name
              /\ WithVolume.volume = Local
           /\ /\ Forgotten.device = None
              /\ Forgotten.enrollment = State.enrollment
              /\ Forgotten.credential = State.credential
              /\ Forgotten.ack = State.ack
  <1>1. State \in Stored
    BY TextType
  <1> QED
    BY <1>1 DEF FreshIdentity, Offer, Unpaired, Paired, Configured, Set, WithVolume, Forgotten,
                Stored

LEMMA TypeInit == Init => PairingTypeOK
  <1> SUFFICES ASSUME Init PROVE PairingTypeOK
    OBVIOUS
  <1>1. Blank \in Stored
    BY PairingAssumption DEF Blank, Stored
  <1>2. board = [state |-> Blank, storage |-> Loads(Blank), enrolling |-> FALSE]
    BY DEF Init, Booted
  <1>3. Loads(Blank) \in BOOLEAN
    BY DEF Loads
  <1>4. board \in [state: Stored, storage: BOOLEAN, enrolling: BOOLEAN]
    BY <1>1, <1>2, <1>3
  <1>5. link = [device |-> None, credential |-> None]
    BY DEF Init, LinkOf, Blank
  <1>6. 0 \in 0..MaxFaults
    BY PairingAssumption
  <1> QED
    BY <1>1, <1>4, <1>5, <1>6 DEF PairingTypeOK, Init

LEMMA BoardType ==
    ASSUME PairingTypeOK, RowsFit, BoardStep
    PROVE  /\ flash' \in Stored
           /\ board' \in [state: Stored, storage: BOOLEAN, enrolling: BOOLEAN]
           /\ link' \in [device: DeviceId \cup {None}, credential: Credential \cup {None}]
  <1> DEFINE Link == [device: DeviceId \cup {None}, credential: Credential \cup {None}]
  <1>1. /\ flash \in Stored
        /\ State \in Stored
        /\ link \in Link
    BY TextType DEF PairingTypeOK
  <1>2. \A s \in Stored : LinkOf(s) \in Link
    BY DEF LinkOf, Stored
  <1>3. [link EXCEPT !.device = None] \in Link
    BY <1>1
  <1> HIDE DEF Link
  <1>4. ASSUME NEW c \in Credential, WritesFresh(c)
        PROVE  flash' \in {flash, FreshIdentity(c)} /\ FreshIdentity(c) \in Stored
               /\ link' \in Link
    <2>1. 0 \in 0..MaxVersion
      BY PairingAssumption
    <2>2. FreshIdentity(c) \in Stored
      BY <1>1, <2>1 DEF FreshIdentity, Stored
    <2> QED
      BY <1>1, <1>4, <2>2 DEF WritesFresh, Writes
  <1>5. ASSUME NEW e \in Enrollment, WritesOffer(e)
        PROVE  flash' \in {flash, Offer(e)} /\ Offer(e) \in Stored /\ link' \in Link
    <2>1. Offer(e) \in Stored
      BY <1>1 DEF Offer, Stored
    <2> QED
      BY <1>1, <1>5, <2>1 DEF WritesOffer, Writes
  <1>6. CASE WritesUnpaired
    <2>1. Unpaired \in Stored
      BY <1>1 DEF Unpaired, Stored
    <2>2. flash' \in Stored /\ link' \in Link
      BY <1>1, <1>6, <2>1 DEF WritesUnpaired, Writes
    <2> QED
      BY <1>6, <2>2 DEF WritesUnpaired, Writes, Link
  <1>7. CASE WritesPaired
    <2>1. enrollments[State.enrollment].device \in DeviceId
      <3>1. /\ enrollments[State.enrollment] # None
            /\ State.enrollment \in Enrollment
            /\ enrollments[State.enrollment].device # None
        BY <1>1, <1>7 DEF WritesPaired, Stores, MayExchange, Stored
      <3> QED
        BY <3>1, EnrollmentType
    <2>2. Paired(enrollments[State.enrollment].device) \in Stored
      BY <1>1, <2>1 DEF Paired, Stored
    <2>3. flash' \in Stored /\ link' \in Link
      BY <1>1, <1>2, <1>7, <2>2 DEF WritesPaired, Writes
    <2> QED
      BY <1>7, <2>3 DEF WritesPaired, Writes, Link
  <1>8. CASE WritesSettings
    <2>1. State.device \in DeviceId /\ devices[State.device] # None
      BY <1>1, <1>8 DEF WritesSettings, Acknowledges, Stored
    <2>2. /\ Version(State.device) \in 0..MaxVersion
          /\ devices[State.device].settings[Version(State.device)] \in Setting
      BY <2>1, NewestSetting
    <2>3. Configured(State.device) \in Stored
      BY <1>1, <2>2 DEF Configured, Set, Stored
    <2>4. flash' \in Stored /\ link' \in Link
      BY <1>1, <1>8, <2>3 DEF WritesSettings, Writes
    <2> QED
      BY <1>8, <2>4 DEF WritesSettings, Writes, Link
  <1>9. CASE WritesForgotten
    <2>1. Forgotten \in Stored
      BY <1>1 DEF Forgotten, Stored
    <2>2. flash' \in Stored /\ link' \in Link
      BY <1>1, <1>3, <1>9, <2>1 DEF WritesForgotten, Writes
    <2> QED
      BY <1>9, <2>2 DEF WritesForgotten, Writes, Link
  <1>10. CASE KeepsTexts
    BY <1>1, <1>2, <1>10 DEF KeepsTexts, Link
  <1>12. CASE WritesVolume
    <2>1. WithVolume \in Stored
      BY <1>1 DEF WithVolume, Stored
    <2>2. flash' \in Stored /\ link' \in Link
      BY <1>1, <1>12, <2>1 DEF WritesVolume, Writes
    <2> QED
      BY <1>12, <2>2 DEF WritesVolume, Writes, Link
  <1>13. CASE LosesText
    <2>1. /\ flash' \in Stored /\ link' \in Link
          /\ board' = [state |-> Blank, storage |-> FALSE, enrolling |-> FALSE]
      BY <1>1, <1>2, <1>13, BlankFields DEF LosesText
    <2> QED
      BY <2>1, BlankFields DEF Link
  <1>11. (\E c \in Credential : WritesFresh(c)) \/ (\E e \in Enrollment : WritesOffer(e))
         => board' \in [state: Stored, storage: BOOLEAN, enrolling: BOOLEAN]
    BY DEF WritesFresh, WritesOffer, Writes
  <1> QED
    BY <1>1, <1>4, <1>5, <1>6, <1>7, <1>8, <1>9, <1>10, <1>11, <1>12, <1>13 DEF BoardStep, Link

LEMMA TypeStep ==
    ASSUME PairingTypeOK, RowsFit, BoardFits, RequestsFit, [Next]_vars
    PROVE  PairingTypeOK'
  <1>1. PlatformStep /\ BoardStep /\ faults' \in 0..MaxFaults
    BY StepOfPlatform, StepOfBoard
  <1>2. late' \subseteq Request
    BY StepOfLate, LateTypes DEF PairingTypeOK
  <1> QED
    BY <1>1, <1>2, DevicesStep, EnrollmentsStep, IssuedGrows, BoardType DEF PairingTypeOK

LEMMA TextFitsKept ==
    ASSUME PairingTypeOK, RowsFit, BoardFits, RequestsFit, [Next]_vars, NEW s \in Texts
    PROVE  TextFits(s)'
  <1>1. PlatformStep /\ issued \subseteq issued'
    BY StepOfPlatform, IssuedGrows
  <1>2. TextFits(s) /\ s.enrollment \in Enrollment \cup {None}
    BY TextType DEF BoardFits, Texts, Stored
  <1> QED
    BY <1>1, <1>2, EnrollmentsStep DEF TextFits, EnrollmentsGrow

LEMMA BoardFitsStep ==
    ASSUME PairingTypeOK, RowsFit, BoardFits, RequestsFit, [Next]_vars
    PROVE  BoardFits'
  <1>0. /\ BoardStep
        /\ PlatformStep
        /\ issued \subseteq issued'
        /\ EnrollmentsGrow
    BY StepOfBoard, StepOfPlatform, IssuedGrows, EnrollmentsStep
  <1>1. /\ \A s \in Texts : TextFits(s)'
        /\ TextFits(State) /\ TextFits(flash)
        /\ Texts' = {flash', board'.state}
        /\ flash \in Texts /\ State \in Texts
        /\ State = board.state
    BY TextFitsKept DEF BoardFits, Texts, State
  <1>2. /\ board.enrolling => /\ board.storage
                              /\ State.credential # None
                              /\ State.enrollment = None
                              /\ State.device = None
                              /\ State.ack = 0
        /\ link.device # None => link.credential # None
    BY DEF BoardFits
  <1>3. CASE KeepsTexts
    <2>1. \A s \in Texts' : s \in Texts
      BY <1>1, <1>3 DEF KeepsTexts, Texts, State
    <2>2. link'.device # None => link'.credential # None
      BY <1>1, <1>2, <1>3 DEF KeepsTexts, LinkOf, TextFits
    <2> QED
      BY <1>1, <1>2, <1>3, <2>1, <2>2 DEF KeepsTexts, BoardFits, State
  <1>4. ASSUME NEW c \in Credential, WritesFresh(c)
        PROVE  BoardFits'
    <2>1. \A s \in Texts' : s \in Texts \/ s = FreshIdentity(c)
      BY <1>4, Written DEF WritesFresh
    <2>2. c # None
      BY PairingAssumption
    <2>3. \A s : s = FreshIdentity(c) => TextFits(s)'
      BY <1>4, <2>2, Fields DEF TextFits, WritesFresh
    <2> QED
      BY <1>1, <1>2, <1>4, <2>1, <2>2, <2>3, Fields DEF WritesFresh, Writes, BoardFits, State
  <1>5. ASSUME NEW e \in Enrollment, WritesOffer(e)
        PROVE  BoardFits'
    <2>1. \A s \in Texts' : s \in Texts \/ s = Offer(e)
      BY <1>5, Written DEF WritesOffer
    <2>2. enrollments'[e] # None
      <3>1. [device |-> None, expired |-> FALSE] \in EnrollmentRow
        BY DEF EnrollmentRow
      <3> QED
        BY <1>5, <3>1, RowAssumption DEF WritesOffer, Enrolls, PairingTypeOK
    <2>3. \A s : s = Offer(e) => TextFits(s)'
      BY <1>0, <1>1, <1>2, <1>5, <2>2, Fields DEF TextFits, WritesOffer
    <2> QED
      BY <1>1, <1>2, <1>5, <2>1, <2>3 DEF WritesOffer, Writes, BoardFits, State
  <1>6. CASE WritesUnpaired
    <2>1. \A s \in Texts' : s \in Texts \/ s = Unpaired
      BY <1>6, Written DEF WritesUnpaired
    <2>2. \A s : s = Unpaired => TextFits(s)'
      BY <1>0, <1>1, Fields DEF TextFits
    <2> QED
      BY <1>1, <1>2, <1>6, <2>1, <2>2 DEF WritesUnpaired, Writes, BoardFits, State
  <1>7. CASE WritesPaired
    <2> DEFINE d == enrollments[State.enrollment].device
    <2>1. \A s \in Texts' : s \in Texts \/ s = Paired(d)
      BY <1>7, Written DEF WritesPaired
    <2>2. State.enrollment # None /\ State.enrollment \in Enrollment
          /\ enrollments[State.enrollment] # None
      BY <1>1, <1>7, TextType DEF WritesPaired, TextFits, Stored
    <2>3. d \in DeviceId
      BY <1>7, <2>2, EnrollmentType DEF WritesPaired, Stores, MayExchange
    <2>4. \A s : s = Paired(d) => TextFits(s)'
      BY <1>0, <1>1, <2>2, <2>3, Fields DEF TextFits
    <2>5. link'.device # None => link'.credential # None
      BY <1>1, <1>2, <1>7, <2>2, <2>3, Fields DEF WritesPaired, LinkOf, TextFits
    <2> QED
      BY <1>1, <1>7, <2>1, <2>4, <2>5 DEF WritesPaired, Writes, BoardFits, State
  <1>8. CASE WritesSettings
    <2>1. \A s \in Texts' : s \in Texts \/ s = Configured(State.device)
      BY <1>8, Written DEF WritesSettings
    <2>2. State.device \in DeviceId /\ State.enrollment = None
      BY <1>8, TextType DEF WritesSettings, Stored
    <2>3. \A s : s = Configured(State.device) => TextFits(s)'
      BY <1>0, <1>1, <2>2, Fields DEF TextFits
    <2> QED
      BY <1>1, <1>2, <1>8, <2>1, <2>3 DEF WritesSettings, Writes, BoardFits, State
  <1>9. CASE WritesForgotten
    <2>1. \A s \in Texts' : s \in Texts \/ s = Forgotten
      BY <1>9, Written DEF WritesForgotten
    <2>2. \A s : s = Forgotten => TextFits(s)'
      BY <1>0, <1>1, <1>9, Fields, TextType DEF TextFits, WritesForgotten, Stored
    <2>3. link'.device = None
      BY <1>9 DEF WritesForgotten, PairingTypeOK
    <2> QED
      BY <1>1, <1>9, <2>1, <2>2, <2>3 DEF WritesForgotten, Writes, BoardFits, State
  <1>10. CASE WritesVolume
    <2>1. \A s \in Texts' : s \in Texts \/ s = WithVolume
      BY <1>10, Written DEF WritesVolume
    <2>2. \A s : s = WithVolume => TextFits(s)'
      BY <1>0, <1>1, Fields DEF TextFits
    <2> QED
      BY <1>1, <1>2, <1>10, <2>1, <2>2 DEF WritesVolume, Writes, BoardFits, State
  <1>11. CASE LosesText
    <2>1. board'.state = Blank /\ ~board'.storage /\ ~board'.enrolling
      BY <1>11, BlankFields DEF LosesText
    <2>2. \A s : s = Blank => TextFits(s)'
      BY BlankFields DEF TextFits
    <2>3. link'.device = None
      BY <1>11, BlankFields DEF LosesText, LinkOf
    <2> QED
      BY <1>1, <1>11, <2>1, <2>2, <2>3 DEF LosesText, BoardFits, State
  <1> QED
    BY <1>0, <1>3, <1>4, <1>5, <1>6, <1>7, <1>8, <1>9, <1>10, <1>11 DEF BoardStep

LEMMA RequestsFitStep ==
    ASSUME PairingTypeOK, RowsFit, BoardFits, RequestsFit, KnownToPlatform, [Next]_vars
    PROVE  RequestsFit'
  <1>0. /\ PlatformStep
        /\ issued \subseteq issued'
        /\ EnrollmentsGrow
        /\ RowsGrow
    BY StepOfPlatform, IssuedGrows, EnrollmentsStep, DevicesStep
  <1>1. ASSUME NEW m \in late
        PROVE  RequestFits(m)'
    BY <1>0, RequestTypes DEF RequestFits, EnrollmentsGrow, RowsGrow
  <1>2. CASE Sends /\ State.enrollment # None
    <2>1. \A m : m = LateExchange => RequestFits(m)'
      BY <1>0, <1>2, SentTypes DEF Sends, RequestFits, LateExchange
    <2> QED
      BY <1>1, <1>2, <2>1 DEF Sends, RequestsFit
  <1>3. CASE Sends /\ State.enrollment = None
    <2>1. devices[State.device] # None
      BY <1>3 DEF Sends, KnownToPlatform, LinkOf
    <2>2. \A m : m = LateHeartbeat => RequestFits(m)'
      BY <1>0, <1>3, <2>1, SentTypes DEF Sends, RequestFits, LateHeartbeat
    <2> QED
      BY <1>1, <1>3, <2>2 DEF Sends, RequestsFit
  <1>4. CASE late' \subseteq late
    BY <1>1, <1>4 DEF RequestsFit
  <1> QED
    BY <1>2, <1>3, <1>4, StepOfLate

----------------------------------------------------------------------------
(* The offers.                                                             *)

LEMMA OfferedFits ==
    ASSUME PairingTypeOK, BoardFits, RequestsFit, NEW e \in Enrollment, NEW c \in Credential,
           Offered(e, c)
    PROVE  c \in issued /\ enrollments[e] # None
  <1>0. e # None /\ c # None
    BY PairingAssumption
  <1>1. CASE \E s \in Texts : s.enrollment = e /\ s.credential = c
    BY <1>0, <1>1 DEF BoardFits, TextFits
  <1>2. CASE \E m \in late : m.kind = "exchange" /\ m.enrollment = e /\ m.credential = c
    BY <1>2 DEF RequestsFit, RequestFits
  <1> QED
    BY <1>1, <1>2 DEF Offered

\* The only new offer is of an enrolment just created.
LEMMA OfferStep ==
    ASSUME PairingTypeOK, RowsFit, BoardFits, RequestsFit, [Next]_vars,
           NEW e \in Enrollment, NEW c \in Credential, Offered(e, c)'
    PROVE  \/ Offered(e, c)
           \/ WritesOffer(e) /\ c = State.credential
  <1>0. /\ BoardStep
        /\ e # None
        /\ Texts = {flash, State}
        /\ State = board.state
    BY StepOfBoard, PairingAssumption DEF Texts, State
  <1>1. CASE \E s \in Texts' : s.enrollment = e /\ s.credential = c
    <2>1. PICK s \in Texts' : s.enrollment = e /\ s.credential = c
      BY <1>1
    <2>2. CASE s \in Texts
      BY <2>1, <2>2 DEF Offered
    <2>3. CASE s \notin Texts
      <3>1. CASE KeepsTexts
        BY <1>0, <2>3, <3>1 DEF KeepsTexts, Texts, State
      <3>2. ASSUME NEW k \in Credential, WritesFresh(k)
            PROVE  FALSE
        BY <1>0, <2>1, <2>3, <3>2, Written, Fields DEF WritesFresh
      <3>3. ASSUME NEW f \in Enrollment, WritesOffer(f)
            PROVE  WritesOffer(e) /\ c = State.credential
        BY <2>1, <2>3, <3>3, Written, Fields DEF WritesOffer
      <3>4. CASE WritesUnpaired
        BY <1>0, <2>1, <2>3, <3>4, Written, Fields DEF WritesUnpaired
      <3>5. CASE WritesPaired
        <4>1. s = Paired(enrollments[State.enrollment].device)
          BY <2>3, <3>5, Written DEF WritesPaired
        <4>2. s.enrollment = None
          BY <4>1, TextType DEF Paired, Stored
        <4> QED
          BY <1>0, <2>1, <4>2
      <3>6. CASE WritesSettings
        <4>1. s = Configured(State.device) /\ State.enrollment = None
          BY <2>3, <3>6, Written DEF WritesSettings
        <4>2. s.enrollment = None
          BY <4>1, TextType DEF Configured, Set, Stored
        <4> QED
          BY <1>0, <2>1, <4>2
      <3>7. CASE WritesForgotten
        <4>1. s.enrollment = State.enrollment /\ s.credential = State.credential
          BY <2>3, <3>7, Written, Fields DEF WritesForgotten
        <4> QED
          BY <1>0, <2>1, <4>1 DEF Offered
      <3>8. CASE WritesVolume
        <4>1. s.enrollment = State.enrollment /\ s.credential = State.credential
          BY <2>3, <3>8, Written, Fields DEF WritesVolume
        <4> QED
          BY <1>0, <2>1, <4>1 DEF Offered
      <3>9. CASE LosesText
        <4>1. Texts' = {flash, Blank}
          BY <3>9, BlankFields DEF LosesText, Texts, State
        <4> QED
          BY <1>0, <2>1, <2>3, <4>1, BlankFields
      <3> QED
        BY <1>0, <3>1, <3>2, <3>3, <3>4, <3>5, <3>6, <3>7, <3>8, <3>9 DEF BoardStep
    <2> QED
      BY <2>2, <2>3
  <1>2. CASE \E m \in late' : m.kind = "exchange" /\ m.enrollment = e /\ m.credential = c
    <2>1. PICK m \in late' : m.kind = "exchange" /\ m.enrollment = e /\ m.credential = c
      BY <1>2
    <2>2. CASE m \in late
      BY <2>1, <2>2 DEF Offered
    <2>3. CASE m \notin late
      <3>1. m = LateExchange \/ m = LateHeartbeat
        BY <2>3, StepOfLate DEF Sends
      <3>2. m = LateExchange
        BY <2>1, <3>1 DEF LateHeartbeat
      <3>3. State.enrollment = e /\ State.credential = c
        BY <2>1, <3>2 DEF LateExchange
      <3> QED
        BY <1>0, <3>3 DEF Offered
    <2> QED
      BY <2>2, <2>3
  <1> QED
    BY <1>1, <1>2 DEF Offered

\* A credential a device has is one it had, or is stored for an offer.
LEMMA CredentialOrigin ==
    ASSUME PairingTypeOK, RowsFit, BoardFits, RequestsFit, [Next]_vars,
           NEW d \in DeviceId, NEW c \in Credential, devices'[d] # None,
           devices'[d].credential = c
    PROVE  \/ devices[d] # None /\ devices[d].credential = c
           \/ \E f \in Enrollment : /\ Offered(f, c)
                                    /\ enrollments[f] # None
                                    /\ enrollments[f].device = d
                                    /\ UNCHANGED enrollments
  <1>0. /\ PlatformStep
        /\ DOMAIN devices = DeviceId
        /\ c # None
        /\ devices[d] \in DeviceRow \cup {None}
        /\ RowChange(devices[d], devices'[d])
    BY StepOfPlatform, RowChanges, PairingAssumption DEF PairingTypeOK
  <1>1. ASSUME NEW f \in Enrollment, NEW k \in Credential, Offered(f, k), Stores(f, k)
        PROVE  \/ devices[d] # None /\ devices[d].credential = c
               \/ \E g \in Enrollment : /\ Offered(g, c)
                                        /\ enrollments[g] # None
                                        /\ enrollments[g].device = d
                                        /\ UNCHANGED enrollments
    <2>1. CASE enrollments[f].device = d
      <3>1. devices[d] # None
        BY <1>1, <2>1 DEF RowsFit, ClaimFits, Stores, MayExchange
      <3>2. devices[d] \in DeviceRow
        BY <1>0, <3>1
      <3>3. devices'[d] = [devices[d] EXCEPT !.credential = k]
        BY <1>0, <1>1, <2>1 DEF Stores
      <3>4. c = k
        BY <3>2, <3>3 DEF DeviceRow
      <3> QED
        BY <1>1, <2>1, <3>4 DEF Stores
    <2>2. CASE enrollments[f].device # d
      <3>1. devices'[d] = devices[d]
        BY <1>0, <1>1, <2>2 DEF Stores
      <3> QED
        BY <3>1
    <2> QED
      BY <2>1, <2>2
  <1>2. ASSUME NEW f \in DeviceId, Creates(f)
        PROVE  devices[d] # None /\ devices[d].credential = c
    BY <1>0, <1>2 DEF Creates
  <1>3. ASSUME NEW f \in DeviceId, NEW s \in Setting, Appends(f, s)
        PROVE  devices[d] # None /\ devices[d].credential = c
    BY <1>0, <1>3 DEF Appends, DeviceRow
  <1>4. ASSUME NEW f \in DeviceId, Revokes(f)
        PROVE  devices[d] # None /\ devices[d].credential = c
    BY <1>0, <1>4 DEF Revokes, DeviceRow
  <1>5. ASSUME NEW f \in DeviceId, NEW a \in 0..MaxVersion, Acknowledges(f, a)
        PROVE  devices[d] # None /\ devices[d].credential = c
    BY <1>0, <1>5 DEF Acknowledges, DeviceRow
  <1>6. CASE UNCHANGED devices
    BY <1>6
  <1> QED
    BY <1>0, <1>1, <1>2, <1>3, <1>4, <1>5, <1>6 DEF PlatformStep, Claims, Expires, Enrolls

LEMMA OneOfferStep ==
    ASSUME PairingTypeOK, RowsFit, BoardFits, RequestsFit, Offers, [Next]_vars
    PROVE  OneOffer'
  <1> SUFFICES ASSUME NEW c \in Credential, NEW e \in Enrollment, NEW f \in Enrollment,
                      Offered(e, c)', Offered(f, c)'
               PROVE  e = f
    BY DEF OneOffer
  <1>1. CASE Offered(e, c) /\ Offered(f, c)
    BY <1>1 DEF Offers, OneOffer
  <1>2. ASSUME NEW g \in Enrollment, WritesOffer(g), c = State.credential
        PROVE  ~Offered(e, c) /\ ~Offered(f, c)
    BY <1>2 DEF Offers, Unused, WritesOffer
  <1>3. CASE WritesOffer(e) /\ WritesOffer(f)
    <2>1. [device |-> None, expired |-> FALSE] # None
      <3>1. [device |-> None, expired |-> FALSE] \in EnrollmentRow
        BY DEF EnrollmentRow
      <3> QED
        BY <3>1, RowAssumption
    <2>2. enrollments'[f] # None
      BY <1>3, <2>1 DEF WritesOffer, Enrolls, PairingTypeOK
    <2>3. e # f => enrollments'[f] = enrollments[f]
      BY <1>3 DEF WritesOffer, Enrolls, PairingTypeOK
    <2> QED
      BY <1>3, <2>2, <2>3 DEF WritesOffer, Enrolls
  <1> QED
    BY <1>1, <1>2, <1>3, OfferStep

LEMMA OfferOpensStep ==
    ASSUME PairingTypeOK, RowsFit, BoardFits, RequestsFit, Offers, [Next]_vars
    PROVE  OfferOpens'
  <1> SUFFICES ASSUME NEW c \in Credential, NEW e \in Enrollment, NEW d \in DeviceId,
                      Offered(e, c)', devices'[d] # None, devices'[d].credential = c
               PROVE  enrollments'[e].device = d
    BY DEF OfferOpens
  <1>0. d # None /\ EnrollmentsGrow
    BY StepOfPlatform, EnrollmentsStep, PairingAssumption
  <1>1. CASE Offered(e, c) /\ devices[d] # None /\ devices[d].credential = c
    <2>1. enrollments[e].device = d /\ enrollments[e] # None
      BY <1>1, OfferedFits DEF Offers, OfferOpens
    <2> QED
      BY <1>0, <2>1 DEF EnrollmentsGrow
  <1>2. ASSUME NEW f \in Enrollment, Offered(e, c), Offered(f, c), enrollments[f].device = d,
               UNCHANGED enrollments
        PROVE  enrollments'[e].device = d
    BY <1>2 DEF Offers, OneOffer
  <1>3. CASE WritesOffer(e) /\ c = State.credential
    BY <1>3 DEF WritesOffer, Enrolls, Offers, Unused
  <1> QED
    BY <1>1, <1>2, <1>3, OfferStep, CredentialOrigin

LEMMA UnusedStep ==
    ASSUME PairingTypeOK, RowsFit, BoardFits, RequestsFit, Offers, [Next]_vars
    PROVE  Unused'
  <1> SUFFICES ASSUME board'.enrolling
               PROVE  /\ \A e \in Enrollment : ~Offered(e, State.credential)'
                      /\ \A d \in DeviceId :
                            devices'[d] # None => devices'[d].credential # board'.state.credential
    BY DEF Unused, State
  <1>0. BoardStep /\ State = board.state /\ State' = board'.state
    BY StepOfBoard DEF State
  <1>1. CASE KeepsTexts
    <2>1. /\ board.enrolling
          /\ State' = State
          /\ State.credential \in Credential
      BY <1>0, <1>1, TextType DEF KeepsTexts, BoardFits, Stored
    <2>2. \A e \in Enrollment : ~Offered(e, State.credential)
      BY <2>1 DEF Offers, Unused
    <2>3. ASSUME NEW e \in Enrollment, Offered(e, State.credential)'
          PROVE  FALSE
      <3>1. PICK c \in Credential : c = State.credential
        BY <2>1
      <3>2. Offered(e, c)'
        BY <2>1, <2>3, <3>1 DEF Offered
      <3>3. ~WritesOffer(e)
        BY DEF WritesOffer
      <3> QED
        BY <2>2, <3>1, <3>2, <3>3, OfferStep
    <2>4. ASSUME NEW d \in DeviceId, devices'[d] # None,
                 devices'[d].credential = State.credential
          PROVE  FALSE
      BY <2>1, <2>2, <2>4, CredentialOrigin DEF Offers, Unused
    <2> QED
      BY <1>0, <2>1, <2>3, <2>4
  <1>2. ASSUME NEW c \in Credential, WritesFresh(c)
        PROVE  /\ \A e \in Enrollment : ~Offered(e, State.credential)'
               /\ \A d \in DeviceId :
                     devices'[d] # None => devices'[d].credential # board'.state.credential
    <2>1. board'.state.credential = c
      BY <1>2, Fields DEF WritesFresh
    <2>2. ASSUME NEW e \in Enrollment, Offered(e, c)'
          PROVE  FALSE
      <3>1. ~WritesOffer(e)
        BY DEF WritesOffer
      <3> QED
        BY <1>2, <2>2, <3>1, OfferStep, OfferedFits DEF WritesFresh
    <2>3. \A d \in DeviceId : devices'[d] # None => devices'[d].credential # c
      BY <1>2, PairingAssumption DEF WritesFresh, RowsFit, RowFits
    <2>4. \A e \in Enrollment : ~Offered(e, State.credential)'
      BY <1>0, <2>1, <2>2 DEF Offered
    <2> QED
      BY <2>1, <2>3, <2>4
  <1> QED
    BY <1>0, <1>1, <1>2, BlankFields
       DEF BoardStep, WritesOffer, WritesUnpaired, WritesPaired, WritesSettings, WritesForgotten,
           WritesVolume, LosesText

LEMMA OffersStep ==
    ASSUME PairingTypeOK, RowsFit, BoardFits, RequestsFit, Offers, [Next]_vars
    PROVE  Offers'
  BY OneOfferStep, OfferOpensStep, UnusedStep DEF Offers

----------------------------------------------------------------------------
(* The identities the board holds.                                         *)

\* The platform stores the credential c for the device i, or revoked it.
Known(i, c) ==
    i # None =>
        /\ devices[i] # None
        /\ devices[i].revoked \/ devices[i].credential = c

LEMMA LinkFields ==
    \A s : LinkOf(s).device = s.device /\ LinkOf(s).credential = s.credential
  BY DEF LinkOf

LEMMA KnownIdentities ==
    KnownToPlatform <=> /\ \A s \in Texts : Known(s.device, s.credential)
                        /\ Known(link.device, link.credential)
  BY LinkFields DEF KnownToPlatform, Known, Texts

LEMMA KnownKept ==
    ASSUME PairingTypeOK, RowsFit, BoardFits, RequestsFit, [Next]_vars,
           NEW i \in DeviceId \cup {None}, NEW c \in Credential \cup {None},
           Known(i, c), i # None => c # None
    PROVE  Known(i, c)'
  <1> SUFFICES ASSUME i # None
               PROVE  /\ devices'[i] # None
                      /\ devices'[i].revoked \/ devices'[i].credential = c
    BY DEF Known
  <1>0. /\ PlatformStep
        /\ i \in DeviceId
        /\ devices[i] # None
        /\ devices[i].revoked \/ devices[i].credential = c
        /\ devices[i] \in DeviceRow
        /\ c # None
    BY StepOfPlatform DEF Known, PairingTypeOK
  <1>1. /\ RowChange(devices[i], devices'[i])
        /\ devices'[i] # None
        /\ devices[i].revoked => devices'[i] = devices[i]
    BY <1>0, RowChanges, DevicesStep DEF RowsGrow
  <1>2. ~devices[i].revoked => devices'[i].revoked \/ devices'[i].credential = c
    BY <1>0, <1>1 DEF RowChange, DeviceRow
  <1> QED
    BY <1>0, <1>1, <1>2

LEMMA KnownToPlatformStep ==
    ASSUME PairingTypeOK, RowsFit, BoardFits, RequestsFit, KnownToPlatform, [Next]_vars
    PROVE  KnownToPlatform'
  <1>0. /\ BoardStep
        /\ flash \in Stored
        /\ State \in Stored
        /\ flash \in Texts
        /\ State \in Texts
        /\ State' = board'.state
        /\ State = board.state
        /\ Texts' = {flash', board'.state}
    BY StepOfBoard, TextType DEF Texts, State
  <1>1. \A s \in Texts : Known(s.device, s.credential)'
    <2> TAKE s \in Texts
    <2>1. /\ s.device \in DeviceId \cup {None}
          /\ s.credential \in Credential \cup {None}
      BY TextType DEF Texts, Stored
    <2>2. s.device # None => s.credential # None
      BY DEF BoardFits, TextFits
    <2>3. Known(s.device, s.credential)
      BY KnownIdentities
    <2> QED
      BY <2>1, <2>2, <2>3, KnownKept
  <1>2. \A i \in DeviceId \cup {None}, c \in Credential \cup {None} :
            link.device = i /\ link.credential = c => Known(i, c)'
    <2> TAKE i \in DeviceId \cup {None}, c \in Credential \cup {None}
    <2>1. link.device = i /\ link.credential = c => Known(i, c)
      BY KnownIdentities
    <2>2. link.device # None => link.credential # None
      BY DEF BoardFits
    <2> QED
      BY <2>1, <2>2, KnownKept
  <1>3. link.device \in DeviceId \cup {None} /\ link.credential \in Credential \cup {None}
    BY DEF PairingTypeOK
  <1>4. \A c : Known(None, c)'
    BY DEF Known
  <1> SUFFICES /\ \A s \in Texts' : Known(s.device, s.credential)'
               /\ \A i, c : link'.device = i /\ link'.credential = c => Known(i, c)'
    <2>1. \A i, c : link'.device = i /\ link'.credential = c => Known(i, c)'
      OBVIOUS
    <2>2. Known(link.device, link.credential)'
      BY <2>1 DEF Known
    <2>3. \A s \in Texts' : Known(s.device, s.credential)'
      OBVIOUS
    <2> QED
      BY <2>2, <2>3, LinkFields DEF KnownToPlatform, Known, Texts
  <1>5. link' = link => \A i, c : link'.device = i /\ link'.credential = c => Known(i, c)'
    BY <1>2, <1>3
  <1>6. \A s \in Texts : \A i, c : link' = LinkOf(s) /\ link'.device = i /\ link'.credential = c
            => Known(i, c)'
    BY <1>1 DEF LinkOf
  <1>7. CASE KeepsTexts
    BY <1>0, <1>1, <1>5, <1>6, <1>7 DEF KeepsTexts
  <1>8. ASSUME NEW c \in Credential, WritesFresh(c)
        PROVE  /\ \A s \in Texts' : Known(s.device, s.credential)'
               /\ \A i, k : link'.device = i /\ link'.credential = k => Known(i, k)'
    <2>1. \A s \in Texts' : s \in Texts \/ s.device = None
      BY <1>8, Written, Fields DEF WritesFresh
    <2> QED
      BY <1>1, <1>4, <1>5, <1>8, <2>1 DEF WritesFresh
  <1>9. ASSUME NEW e \in Enrollment, WritesOffer(e)
        PROVE  /\ \A s \in Texts' : Known(s.device, s.credential)'
               /\ \A i, k : link'.device = i /\ link'.credential = k => Known(i, k)'
    <2>1. \A s \in Texts' : \/ s \in Texts
                            \/ s.device = State.device /\ s.credential = State.credential
      BY <1>9, Written, Fields DEF WritesOffer
    <2> QED
      BY <1>0, <1>1, <1>5, <1>9, <2>1 DEF WritesOffer
  <1>10. CASE WritesUnpaired
    <2>1. \A s \in Texts' : \/ s \in Texts
                            \/ s.device = State.device /\ s.credential = State.credential
      BY <1>10, Written, Fields DEF WritesUnpaired
    <2> QED
      BY <1>0, <1>1, <1>5, <1>10, <2>1 DEF WritesUnpaired
  <1>11. CASE WritesPaired
    <2> DEFINE d == enrollments[State.enrollment].device
    <2>1. /\ State.enrollment \in Enrollment
          /\ enrollments[State.enrollment] # None
          /\ State.credential \in Credential
      BY <1>11, SentTypes DEF WritesPaired
    <2>2. d \in DeviceId
      BY <1>11, <2>1, EnrollmentType DEF WritesPaired, Stores, MayExchange
    <2>3. devices[d] \in DeviceRow
      BY <1>11, <2>1, <2>2 DEF PairingTypeOK, RowsFit, ClaimFits, WritesPaired, Stores, MayExchange
    <2>4. devices'[d] = [devices[d] EXCEPT !.credential = State.credential]
      BY <1>11, <2>2 DEF PairingTypeOK, WritesPaired, Stores
    <2>5. devices'[d] # None /\ devices'[d].credential = State.credential
      <3>1. devices'[d] \in DeviceRow
        BY <2>1, <2>3, <2>4, RowUpdates
      <3>2. devices'[d].credential = State.credential
        BY <2>3, <2>4 DEF DeviceRow
      <3> QED
        BY <3>1, <3>2, RowAssumption
    <2>6. \A i, c : i = d /\ c = State.credential => Known(i, c)'
      BY <2>5 DEF Known
    <2>7. Paired(d).device = d /\ Paired(d).credential = State.credential
      BY <2>2, Fields
    <2>8. \A s \in Texts' : \/ s \in Texts
                            \/ s.device = d /\ s.credential = State.credential
      BY <1>11, <2>7, Written DEF WritesPaired
    <2>9. \/ link' = link
          \/ link'.device = d /\ link'.credential = State.credential
      BY <1>11, <2>7 DEF WritesPaired, LinkOf
    <2> QED
      BY <1>1, <1>5, <2>6, <2>8, <2>9
  <1>12. CASE WritesSettings
    <2>1. State.device \in DeviceId
      BY <1>12, SentTypes DEF WritesSettings
    <2>2. \A s \in Texts' : \/ s \in Texts
                            \/ s.device = State.device /\ s.credential = State.credential
      BY <1>12, <2>1, Written, Fields DEF WritesSettings
    <2> QED
      BY <1>0, <1>1, <1>5, <1>12, <2>2 DEF WritesSettings
  <1>13. CASE WritesForgotten
    <2>1. \A s \in Texts' : s \in Texts \/ s.device = None
      BY <1>13, Written, Fields DEF WritesForgotten
    <2>2. link'.device = None
      BY <1>13 DEF WritesForgotten, PairingTypeOK
    <2> QED
      BY <1>1, <1>4, <2>1, <2>2
  <1>14. CASE WritesVolume
    <2>1. \A s \in Texts' : \/ s \in Texts
                            \/ s.device = State.device /\ s.credential = State.credential
      BY <1>14, Written, Fields DEF WritesVolume
    <2> QED
      BY <1>0, <1>1, <1>5, <1>14, <2>1 DEF WritesVolume
  <1>15. CASE LosesText
    <2>1. Texts' = {flash, Blank} /\ link'.device = None
      BY <1>0, <1>15, BlankFields DEF LosesText, LinkOf
    <2> QED
      BY <1>0, <1>1, <1>4, <2>1, BlankFields
  <1> QED
    BY <1>0, <1>7, <1>8, <1>9, <1>10, <1>11, <1>12, <1>13, <1>14, <1>15 DEF BoardStep

LEMMA CredentialsDistinctStep ==
    ASSUME PairingTypeOK, RowsFit, BoardFits, RequestsFit, Offers, CredentialsDistinct,
           [Next]_vars
    PROVE  CredentialsDistinct'
  <1> SUFFICES ASSUME NEW d \in DeviceId, NEW f \in DeviceId, NEW c \in Credential, d # f,
                      devices'[d] # None, devices'[d].credential = c,
                      devices'[f] # None, devices'[f].credential = c
               PROVE  FALSE
    <2>1. \A d \in DeviceId : devices'[d] # None =>
              devices'[d].credential \in Credential \cup {None}
      BY StepOfPlatform, DevicesStep DEF DeviceRow
    <2> QED
      BY <2>1 DEF CredentialsDistinct
  <1>0. c # None
    BY PairingAssumption
  <1>1. \/ devices[d] # None /\ devices[d].credential = c
        \/ \E g \in Enrollment : Offered(g, c) /\ enrollments[g].device = d
    BY CredentialOrigin
  <1>2. \/ devices[f] # None /\ devices[f].credential = c
        \/ \E g \in Enrollment : Offered(g, c) /\ enrollments[g].device = f
    BY CredentialOrigin
  <1> QED
    BY <1>0, <1>1, <1>2 DEF CredentialsDistinct, Offers, OneOffer, OfferOpens

----------------------------------------------------------------------------
(* The versions the board acknowledges.                                    *)

\* What is acknowledged for a device was, or a heartbeat of this device says it.
LEMMA AckOrigin ==
    ASSUME PairingTypeOK, RowsFit, BoardFits, RequestsFit, [Next]_vars,
           NEW d \in DeviceId, devices[d] # None
    PROVE  \/ devices'[d].acknowledged = devices[d].acknowledged
           \/ Beats(d, devices'[d].acknowledged) /\ UNCHANGED enrollments
  <1>0. /\ PlatformStep
        /\ devices[d] \in DeviceRow
        /\ devices \in [DeviceId -> DeviceRow \cup {None}]
        /\ DOMAIN devices = DeviceId
    BY StepOfPlatform DEF PairingTypeOK
  <1>1. ASSUME NEW f \in DeviceId, NEW a \in 0..MaxVersion, Beats(f, a), Acknowledges(f, a)
        PROVE  \/ devices'[d].acknowledged = devices[d].acknowledged
               \/ Beats(d, devices'[d].acknowledged) /\ UNCHANGED enrollments
    <2>1. CASE f = d
      <3>1. devices'[d] = [devices[d] EXCEPT !.acknowledged = a]
        BY <1>0, <1>1, <2>1 DEF Acknowledges
      <3>2. devices'[d].acknowledged = a
        BY <1>0, <3>1 DEF DeviceRow
      <3> QED
        BY <1>1, <2>1, <3>2 DEF Acknowledges
    <2>2. CASE f # d
      BY <1>0, <1>1, <2>2 DEF Acknowledges
    <2> QED
      BY <2>1, <2>2
  <1>2. ASSUME NEW f \in DeviceId, Creates(f)
        PROVE  devices'[d].acknowledged = devices[d].acknowledged
    BY <1>0, <1>2 DEF Creates
  <1>3. ASSUME NEW f \in DeviceId, NEW s \in Setting, Appends(f, s)
        PROVE  devices'[d].acknowledged = devices[d].acknowledged
    BY <1>0, <1>3 DEF Appends, DeviceRow
  <1>4. ASSUME NEW f \in DeviceId, Revokes(f)
        PROVE  devices'[d].acknowledged = devices[d].acknowledged
    BY <1>0, <1>4 DEF Revokes, DeviceRow
  <1>5. ASSUME NEW e \in Enrollment, NEW c \in Credential, Stores(e, c)
        PROVE  devices'[d].acknowledged = devices[d].acknowledged
    BY <1>0, <1>5 DEF Stores, DeviceRow
  <1>6. CASE UNCHANGED devices
    BY <1>6
  <1> QED
    BY <1>0, <1>1, <1>2, <1>3, <1>4, <1>5, <1>6 DEF PlatformStep, Claims, Expires, Enrolls

\* Only a board without an enrolment, its text saved, sends a heartbeat.
LEMMA NewHeartbeat ==
    ASSUME PairingTypeOK, BoardFits, [Next]_vars, NEW m \in late', m.kind = "heartbeat",
           m \notin late
    PROVE  /\ m.device = State.device
           /\ m.ack = State.ack
           /\ \A s \in Texts : s = State /\ s.enrollment = None
           /\ UNCHANGED <<devices, enrollments>>
           /\ \A s \in Texts' : s \in Texts
  <1>1. Sends
    BY StepOfLate
  <1>2. /\ board.storage
        /\ late' = late \cup {LateHeartbeat}
        /\ State.enrollment = None
    BY <1>1 DEF Sends, LateExchange
  <1>3. m = LateHeartbeat
    BY <1>2
  <1>4. flash = State
    BY <1>2 DEF BoardFits
  <1> QED
    BY <1>1, <1>2, <1>3, <1>4 DEF LateHeartbeat, Texts, Sends, State

LEMMA NothingSentKept ==
    ASSUME PairingTypeOK, RowsFit, BoardFits, RequestsFit, HeartbeatsFit, [Next]_vars,
           NEW s \in Texts
    PROVE  NothingSent(s)'
  <1> SUFFICES ASSUME NEW d \in DeviceId, s.enrollment # None,
                      enrollments'[s.enrollment].device = d
               PROVE  /\ devices'[d].acknowledged = 0
                      /\ \A m \in late' : m.kind = "heartbeat" => m.device # d
    BY DEF NothingSent
  <1>0. /\ s.enrollment \in Enrollment
        /\ enrollments[s.enrollment] # None
        /\ d # None
        /\ EnrollmentsGrow
        /\ ClaimsAreNew
        /\ NothingSent(s)
    BY TextType, StepOfPlatform, EnrollmentsStep, PairingAssumption
       DEF Texts, Stored, BoardFits, TextFits, HeartbeatsFit
  <1>1. \A m \in late' : m.kind = "heartbeat" => m \in late
    BY NewHeartbeat
  <1>2. CASE enrollments[s.enrollment].device = d
    <2>1. /\ devices[d].acknowledged = 0
          /\ \A m \in late : m.kind = "heartbeat" => m.device # d
      BY <1>0, <1>2 DEF NothingSent
    <2>2. devices[d] # None
      BY <1>0, <1>2 DEF RowsFit, ClaimFits
    <2>3. ~Beats(d, devices'[d].acknowledged)
      <3>1. board.storage => State.enrollment # None
        BY DEF BoardFits, Texts
      <3> QED
        BY <2>1, <3>1 DEF Beats
    <2> QED
      BY <1>1, <2>1, <2>2, <2>3, AckOrigin
  <1>3. CASE enrollments[s.enrollment].device # d
    <2>1. /\ devices[d] = None
          /\ devices'[d].acknowledged = 0
      BY <1>0, <1>3 DEF EnrollmentsGrow, ClaimsAreNew
    <2>2. \A m \in late : m.kind = "heartbeat" => m.device # d
      BY <2>1, RequestTypes
    <2> QED
      BY <1>1, <2>1, <2>2
  <1> QED
    BY <1>2, <1>3

LEMMA CoversLateKept ==
    ASSUME PairingTypeOK, BoardFits, HeartbeatsFit, [Next]_vars, NEW s \in Texts
    PROVE  CoversLate(s)'
  <1> SUFFICES ASSUME NEW m \in late', m.kind = "heartbeat", m.device = s.device
               PROVE  m.ack <= s.ack
    BY DEF CoversLate
  <1>1. CASE m \in late
    BY <1>1 DEF HeartbeatsFit, CoversLate
  <1>2. CASE m \notin late
    <2>1. m.ack = s.ack /\ s.ack \in 0..MaxVersion
      BY <1>2, NewHeartbeat, TextType DEF Texts, Stored
    <2> QED
      BY <2>1
  <1> QED
    BY <1>1, <1>2

LEMMA HeartbeatsFitStep ==
    ASSUME PairingTypeOK, RowsFit, BoardFits, RequestsFit, HeartbeatsFit, [Next]_vars
    PROVE  HeartbeatsFit'
  <1>0. /\ BoardStep
        /\ State \in Texts
        /\ State \in Stored
        /\ Texts = {flash, State}
        /\ Texts' = {flash', board'.state}
        /\ State = board.state
    BY StepOfBoard, TextType DEF Texts, State
  <1>1. \A s \in Texts : NothingSent(s)' /\ CoversLate(s)'
    BY NothingSentKept, CoversLateKept
  <1>2. \A m \in late' : m.kind = "heartbeat" => m.device \in DeviceId
    <2>1. late' \subseteq Request
      BY StepOfLate, LateTypes DEF PairingTypeOK
    <2> QED
      BY <2>1 DEF Request
  <1>3. \A s : s.device = None /\ s.enrollment = None => NothingSent(s)' /\ CoversLate(s)'
    BY <1>2, PairingAssumption DEF NothingSent, CoversLate
  <1> SUFFICES \A s \in Texts' : NothingSent(s)' /\ CoversLate(s)'
    BY DEF HeartbeatsFit
  <1>4. CASE KeepsTexts
    BY <1>0, <1>1, <1>4 DEF KeepsTexts
  <1>5. ASSUME NEW c \in Credential, WritesFresh(c)
        PROVE  \A s \in Texts' : NothingSent(s)' /\ CoversLate(s)'
    <2>1. \A s \in Texts' : s \in Texts \/ (s.device = None /\ s.enrollment = None)
      BY <1>5, Written, Fields DEF WritesFresh
    <2> QED
      BY <1>1, <1>3, <2>1
  <1>6. ASSUME NEW e \in Enrollment, WritesOffer(e)
        PROVE  \A s \in Texts' : NothingSent(s)' /\ CoversLate(s)'
    <2>1. \A s \in Texts' : s \in Texts \/ (s.device = None /\ s.enrollment = e)
      BY <1>6, Written, Fields DEF WritesOffer, BoardFits
    <2>2. \A s : s.device = None /\ s.enrollment = e => NothingSent(s)' /\ CoversLate(s)'
      <3>1. enrollments'[e].device = None
        BY <1>6 DEF WritesOffer, Enrolls, PairingTypeOK
      <3> QED
        BY <1>2, <3>1, PairingAssumption DEF NothingSent, CoversLate
    <2> QED
      BY <1>1, <2>1, <2>2
  <1>7. CASE WritesUnpaired
    <2>1. \A s \in Texts' : s \in Texts \/ (s.device = None /\ s.enrollment = None)
      BY <1>0, <1>7, Written, Fields DEF WritesUnpaired, BoardFits, TextFits
    <2> QED
      BY <1>1, <1>3, <2>1
  <1>8. CASE WritesPaired
    <2> DEFINE d == enrollments[State.enrollment].device
    <2>1. /\ State.enrollment \in Enrollment
          /\ State.enrollment # None
          /\ enrollments[State.enrollment] # None
      BY <1>8, SentTypes DEF WritesPaired
    <2>2. d \in DeviceId
      BY <1>8, <2>1, EnrollmentType DEF WritesPaired, Stores, MayExchange
    <2>3. \A s \in Texts' : s \in Texts \/ (s.device = d /\ s.enrollment = None)
      BY <1>8, <2>2, Written, Fields DEF WritesPaired
    <2>4. \A m \in late : m.kind = "heartbeat" => m.device # d
      BY <1>0, <2>1, <2>2 DEF HeartbeatsFit, NothingSent
    <2>5. \A s : s.device = d /\ s.enrollment = None => NothingSent(s)' /\ CoversLate(s)'
      BY <1>8, <2>4 DEF WritesPaired, NothingSent, CoversLate
    <2> QED
      BY <1>1, <2>3, <2>5
  <1>9. CASE WritesSettings
    <2>1. State.device \in DeviceId /\ State.enrollment = None /\ State.ack \in 0..MaxVersion
      BY <1>9, SentTypes DEF WritesSettings
    <2>2. State.ack <= Version(State.device) /\ Version(State.device) \in Nat
      BY <1>9, <2>1, NewestSetting DEF WritesSettings, Acknowledges, AckInRange
    <2>3. \A s \in Texts' : \/ s \in Texts
                            \/ /\ s.device = State.device
                               /\ s.enrollment = None
                               /\ s.ack = Version(State.device)
      BY <1>9, <2>1, Written, Fields DEF WritesSettings
    <2>4. \A m \in late : m.kind = "heartbeat" => m.ack \in Nat
      BY RequestTypes
    <2>5. \A s : /\ s.device = State.device
                 /\ s.enrollment = None
                 /\ s.ack = Version(State.device)
              => NothingSent(s)' /\ CoversLate(s)'
      <3> TAKE s
      <3> HAVE /\ s.device = State.device
               /\ s.enrollment = None
               /\ s.ack = Version(State.device)
      <3>1. NothingSent(s)'
        BY DEF NothingSent
      <3>2. ASSUME NEW m \in late', m.kind = "heartbeat", m.device = s.device
            PROVE  m.ack <= s.ack
        <4>1. m \in late
          BY <1>9 DEF WritesSettings
        <4>2. m.ack <= State.ack
          BY <1>0, <3>2, <4>1 DEF HeartbeatsFit, CoversLate
        <4> QED
          BY <2>1, <2>2, <2>4, <3>2, <4>1, <4>2
      <3> QED
        BY <3>1, <3>2 DEF CoversLate
    <2> QED
      BY <1>1, <2>3, <2>5
  <1>10. CASE WritesForgotten
    <2>1. \A s \in Texts' : s \in Texts \/ (s.device = None /\ s.enrollment = State.enrollment)
      BY <1>10, Written, Fields DEF WritesForgotten
    <2>2. \A s : s.device = None /\ s.enrollment = State.enrollment
              => NothingSent(s)' /\ CoversLate(s)'
      <3>1. \A e : e = State.enrollment => \A s : s.enrollment = e => NothingSent(s)'
        <4> TAKE e
        <4> HAVE e = State.enrollment
        <4>1. PICK t \in Texts : t = State
          BY <1>0
        <4>2. NothingSent(t)' /\ t.enrollment = e
          BY <1>1, <4>1
        <4> QED
          BY <4>2 DEF NothingSent
      <3> QED
        BY <1>2, <3>1, PairingAssumption DEF CoversLate
    <2> QED
      BY <1>1, <2>1, <2>2
  <1>11. CASE WritesVolume
    <2>1. \A s \in Texts' : s \in Texts \/ s = WithVolume
      BY <1>11, Written DEF WritesVolume
    <2>2. PICK t \in Texts : t = State
      BY <1>0
    <2>3. NothingSent(t)' /\ CoversLate(t)'
      BY <1>1
    <2>4. \A s : s = WithVolume => s.device = t.device /\ s.enrollment = t.enrollment /\ s.ack = t.ack
      BY <2>2, Fields
    <2>5. \A s : s = WithVolume => NothingSent(s)' /\ CoversLate(s)'
      BY <2>3, <2>4 DEF NothingSent, CoversLate
    <2> QED
      BY <1>1, <2>1, <2>5
  <1>12. CASE LosesText
    <2>1. Texts' = {flash, Blank}
      BY <1>0, <1>12, BlankFields DEF LosesText
    <2> QED
      BY <1>0, <1>1, <1>3, <2>1, BlankFields
  <1> QED
    BY <1>0, <1>4, <1>5, <1>6, <1>7, <1>8, <1>9, <1>10, <1>11, <1>12 DEF BoardStep

\* The platform accepts the version that the text acknowledges.
Accepts(s) == s.device # None => AckInRange(s.device, s.ack) \/ devices[s.device].revoked

LEMMA AcceptsKept ==
    ASSUME PairingTypeOK, RowsFit, BoardFits, RequestsFit, HeartbeatsFit, KnownToPlatform,
           [Next]_vars, NEW s \in Texts, Accepts(s)
    PROVE  Accepts(s)'
  <1> SUFFICES ASSUME s.device # None
               PROVE  AckInRange(s.device, s.ack)' \/ devices'[s.device].revoked
    BY DEF Accepts
  <1> DEFINE d == s.device
  <1>0. /\ d \in DeviceId
        /\ s.ack \in 0..MaxVersion
        /\ devices[d] # None
        /\ PlatformStep
    BY KnownIdentities, TextType, StepOfPlatform DEF Texts, Stored, Known
  <1>1. /\ devices'[d] # None
        /\ devices[d].revoked => devices'[d] = devices[d]
        /\ Len(devices[d].settings) <= Len(devices'[d].settings)
        /\ devices'[d] \in DeviceRow \cup {None}
    BY <1>0, DevicesStep DEF RowsGrow
  <1>2. CASE devices[d].revoked
    BY <1>1, <1>2
  <1>3. CASE ~devices[d].revoked
    <2>1. devices[d].acknowledged <= s.ack /\ s.ack <= Len(devices[d].settings)
      BY <1>3 DEF Accepts, AckInRange, Version
    <2>2. /\ Len(devices[d].settings) \in Nat
          /\ Len(devices'[d].settings) \in Nat
          /\ devices'[d].acknowledged \in Nat
      BY <1>0, <1>1, RowType DEF DeviceRow
    <2>3. s.ack <= Len(devices'[d].settings)
      BY <1>0, <1>1, <2>1, <2>2
    <2>4. devices'[d].acknowledged <= s.ack
      <3>1. CASE devices'[d].acknowledged = devices[d].acknowledged
        BY <2>1, <3>1
      <3>2. CASE Beats(d, devices'[d].acknowledged)
        <4>1. CASE board.storage /\ State.ack = devices'[d].acknowledged
          <5>1. s = State
            BY <4>1 DEF Texts, BoardFits
          <5> QED
            BY <1>0, <4>1, <5>1
        <4>2. CASE \E m \in late : /\ m.kind = "heartbeat"
                                   /\ m.device = d
                                   /\ m.ack = devices'[d].acknowledged
          BY <4>2 DEF HeartbeatsFit, CoversLate
        <4> QED
          BY <3>2, <4>1, <4>2 DEF Beats
      <3> QED
        BY <1>0, <3>1, <3>2, AckOrigin
    <2> QED
      BY <2>3, <2>4 DEF AckInRange, Version
  <1> QED
    BY <1>2, <1>3

LEMMA AcknowledgementFitsStep ==
    ASSUME PairingTypeOK, RowsFit, BoardFits, RequestsFit, HeartbeatsFit, KnownToPlatform,
           AcknowledgementFits, [Next]_vars
    PROVE  AcknowledgementFits'
  <1>0. /\ BoardStep
        /\ Texts = {flash, State}
        /\ Texts' = {flash', board'.state}
        /\ State' = board'.state
        /\ State = board.state
        /\ State \in Stored
    BY StepOfBoard, TextType DEF Texts, State
  <1>1. \A s \in Texts : Accepts(s)'
    BY AcceptsKept DEF AcknowledgementFits, Accepts, Texts
  <1>2. \A s : s.device = None => Accepts(s)'
    BY DEF Accepts
  <1> SUFFICES \A s \in Texts' : Accepts(s)'
    BY <1>0 DEF AcknowledgementFits, Accepts
  <1>3. CASE KeepsTexts
    BY <1>0, <1>1, <1>3 DEF KeepsTexts
  <1>4. ASSUME NEW c \in Credential, WritesFresh(c)
        PROVE  \A s \in Texts' : Accepts(s)'
    BY <1>1, <1>2, <1>4, Written, Fields DEF WritesFresh
  <1>5. ASSUME NEW e \in Enrollment, WritesOffer(e)
        PROVE  \A s \in Texts' : Accepts(s)'
    <2>1. \A s \in Texts' : s \in Texts \/ s.device = None
      BY <1>5, Written, Fields DEF WritesOffer, BoardFits
    <2> QED
      BY <1>1, <1>2, <2>1
  <1>6. CASE WritesUnpaired
    <2>1. \A s \in Texts' : s \in Texts \/ s.device = None
      BY <1>0, <1>6, Written, Fields DEF WritesUnpaired, BoardFits, TextFits
    <2> QED
      BY <1>1, <1>2, <2>1
  <1>7. CASE WritesPaired
    <2> DEFINE d == enrollments[State.enrollment].device
    <2>1. /\ State.enrollment \in Enrollment
          /\ State.enrollment # None
          /\ enrollments[State.enrollment] # None
          /\ State.ack = 0
      BY <1>0, <1>7, SentTypes DEF WritesPaired, BoardFits, TextFits
    <2>2. d \in DeviceId
      BY <1>7, <2>1, EnrollmentType DEF WritesPaired, Stores, MayExchange
    <2>3. /\ devices[d] \in DeviceRow
          /\ devices'[d] = [devices[d] EXCEPT !.credential = State.credential]
          /\ devices[d].acknowledged = 0
      BY <1>0, <1>7, <2>1, <2>2
         DEF PairingTypeOK, RowsFit, ClaimFits, WritesPaired, Stores, MayExchange,
             HeartbeatsFit, NothingSent
    <2>4. /\ devices'[d].acknowledged = 0
          /\ Len(devices'[d].settings) \in Nat
      BY <2>3 DEF DeviceRow
    <2>5. \A s \in Texts' : s \in Texts \/ (s.device = d /\ s.ack = 0)
      BY <1>7, <2>1, <2>2, Written, Fields DEF WritesPaired
    <2>6. \A s : s.device = d /\ s.ack = 0 => Accepts(s)'
      BY <2>4 DEF Accepts, AckInRange, Version
    <2> QED
      BY <1>1, <2>5, <2>6
  <1>8. CASE WritesSettings
    <2> DEFINE d == State.device
    <2>1. /\ d \in DeviceId
          /\ State.ack \in 0..MaxVersion
          /\ devices[d] \in DeviceRow
          /\ State.ack <= Version(d)
          /\ devices'[d] = [devices[d] EXCEPT !.acknowledged = State.ack]
      BY <1>8, SentTypes DEF WritesSettings, Acknowledges, AckInRange, PairingTypeOK
    <2>2. /\ devices'[d].acknowledged = State.ack
          /\ Len(devices'[d].settings) = Version(d)
          /\ Version(d) \in Nat
      BY <2>1 DEF DeviceRow, Version
    <2>3. \A s \in Texts' : s \in Texts \/ (s.device = d /\ s.ack = Version(d))
      BY <1>8, <2>1, Written, Fields DEF WritesSettings
    <2>4. \A n : n = Version(d) =>
              devices'[d].acknowledged <= n /\ n <= Len(devices'[d].settings)
      BY <2>1, <2>2
    <2>5. \A s : s.device = d /\ s.ack = Version(d) => Accepts(s)'
      BY <2>4 DEF Accepts, AckInRange, Version
    <2> QED
      BY <1>1, <2>3, <2>5
  <1>9. CASE WritesForgotten
    BY <1>1, <1>2, <1>9, Written, Fields DEF WritesForgotten
  <1>10. CASE WritesVolume
    <2>1. \A s \in Texts' : s \in Texts \/ s = WithVolume
      BY <1>10, Written DEF WritesVolume
    <2>2. PICK t \in Texts : t = State
      BY <1>0
    <2>3. Accepts(t)'
      BY <1>1
    <2>4. \A s : s = WithVolume => s.device = t.device /\ s.ack = t.ack
      BY <2>2, Fields
    <2>5. \A s : s = WithVolume => Accepts(s)'
      BY <2>3, <2>4 DEF Accepts, AckInRange, Version
    <2> QED
      BY <1>1, <2>1, <2>5
  <1>11. CASE LosesText
    <2>1. Texts' = {flash, Blank}
      BY <1>0, <1>11, BlankFields DEF LosesText
    <2> QED
      BY <1>0, <1>1, <1>2, <2>1, BlankFields
  <1> QED
    BY <1>0, <1>3, <1>4, <1>5, <1>6, <1>7, <1>8, <1>9, <1>10, <1>11 DEF BoardStep

\* The name of the version in the text is with it, and its volume or one chosen at
\* the board.
Holds(s, setting) == s.name = setting /\ s.volume \in {setting, Local}

HoldsSettings(s) ==
    s.device # None /\ ~devices[s.device].revoked /\ s.ack > 0 =>
        Holds(s, devices[s.device].settings[s.ack])

LEMMA HoldsSettingsStep ==
    ASSUME PairingTypeOK, RowsFit, BoardFits, RequestsFit, HeartbeatsFit, KnownToPlatform,
           AcknowledgementFits, HoldsSettings(flash), [Next]_vars
    PROVE  HoldsSettings(flash)'
  <1>0. /\ BoardStep
        /\ PlatformStep
        /\ flash \in Texts
        /\ flash \in Stored
        /\ State \in Texts
    BY StepOfBoard, StepOfPlatform, TextType DEF Texts
  <1>1. CASE flash' = flash
    <2> SUFFICES ASSUME flash.device # None, ~devices'[flash.device].revoked, flash.ack > 0
                 PROVE  Holds(flash, devices'[flash.device].settings[flash.ack])
      BY <1>1 DEF HoldsSettings, Holds
    <2> DEFINE d == flash.device
    <2>1. d \in DeviceId /\ devices[d] # None
      BY <1>0, KnownIdentities DEF Known, Stored
    <2>2. /\ ~devices[d].revoked
          /\ \A v \in 1..Len(devices[d].settings) :
                devices'[d].settings[v] = devices[d].settings[v]
      BY <1>0, <2>1, DevicesStep DEF RowsGrow
    <2>3. flash.ack <= Len(devices[d].settings)
      BY <2>2 DEF AcknowledgementFits, AckInRange, Version
    <2>4. flash.ack \in 1..Len(devices[d].settings)
      BY <1>0, <2>1, <2>3, RowType DEF Stored
    <2> QED
      BY <2>2, <2>4 DEF HoldsSettings
  <1>2. \A s : s.device = None \/ s.ack = 0 => (flash' = s => HoldsSettings(flash)')
    BY DEF HoldsSettings
  <1>3. ASSUME NEW c \in Credential, WritesFresh(c)
        PROVE  HoldsSettings(flash)'
    BY <1>1, <1>2, <1>3, Fields DEF WritesFresh, Writes
  <1>4. ASSUME NEW e \in Enrollment, WritesOffer(e)
        PROVE  HoldsSettings(flash)'
    BY <1>1, <1>2, <1>4, Fields DEF WritesOffer, Writes, BoardFits
  <1>5. CASE WritesUnpaired
    <2>1. State.device = None
      BY <1>0, <1>5 DEF WritesUnpaired, BoardFits, TextFits
    <2> QED
      BY <1>1, <1>2, <1>5, <2>1, Fields DEF WritesUnpaired, Writes
  <1>6. CASE WritesPaired
    <2> DEFINE d == enrollments[State.enrollment].device
    <2>1. /\ State.enrollment \in Enrollment
          /\ enrollments[State.enrollment] # None
          /\ State.ack = 0
      BY <1>0, <1>6, SentTypes DEF WritesPaired, BoardFits, TextFits
    <2>2. d \in DeviceId
      BY <1>6, <2>1, EnrollmentType DEF WritesPaired, Stores, MayExchange
    <2>3. Paired(d).ack = 0
      BY <2>1, <2>2, Fields
    <2> QED
      BY <1>1, <1>2, <1>6, <2>3 DEF WritesPaired, Writes
  <1>7. CASE WritesSettings
    <2> DEFINE d == State.device
    <2>1. /\ d \in DeviceId
          /\ devices[d] \in DeviceRow
          /\ devices'[d] = [devices[d] EXCEPT !.acknowledged = State.ack]
      BY <1>7, SentTypes DEF WritesSettings, Acknowledges, PairingTypeOK
    <2>2. devices'[d].settings = devices[d].settings
      BY <2>1 DEF DeviceRow
    <2>3. /\ Configured(d).device = d
          /\ Configured(d).ack = Version(d)
          /\ Configured(d).name = devices[d].settings[Version(d)]
          /\ Configured(d).volume = devices[d].settings[Version(d)]
      BY <2>1, Fields
    <2>4. flash' \in {flash, Configured(d)}
      BY <1>7 DEF WritesSettings, Writes
    <2>5. CASE flash' = Configured(d)
      <3>1. /\ flash'.device = d
            /\ flash'.ack = Version(d)
            /\ flash'.name = devices[d].settings[Version(d)]
            /\ flash'.volume = devices[d].settings[Version(d)]
        BY <2>3, <2>5
      <3> QED
        BY <2>2, <3>1 DEF HoldsSettings, Holds
    <2> QED
      BY <1>1, <2>4, <2>5
  <1>8. CASE WritesForgotten
    BY <1>1, <1>2, <1>8, Fields DEF WritesForgotten, Writes
  <1>9. CASE WritesVolume
    <2>1. flash = State /\ devices' = devices /\ flash' \in {flash, WithVolume}
      BY <1>9 DEF WritesVolume, Writes, BoardFits
    <2>2. CASE flash' = WithVolume
      <3>1. /\ flash'.device = flash.device /\ flash'.ack = flash.ack
            /\ flash'.name = flash.name /\ flash'.volume = Local
        BY <2>1, <2>2, Fields
      <3> QED
        BY <2>1, <3>1 DEF HoldsSettings, Holds
    <2> QED
      BY <1>1, <2>1, <2>2
  <1>10. CASE LosesText
    BY <1>1, <1>10 DEF LosesText
  <1> QED
    BY <1>0, <1>1, <1>3, <1>4, <1>5, <1>6, <1>7, <1>8, <1>9, <1>10 DEF BoardStep, KeepsTexts

LEMMA StoredIsAccepted ==
    ASSUME AcknowledgementFits
    PROVE  AcknowledgedIsStored <=> HoldsSettings(flash)
  BY DEF AcknowledgementFits, AcknowledgedIsStored, HoldsSettings, Holds, AckInRange

LEMMA AcknowledgementsStep ==
    ASSUME PairingTypeOK, RowsFit, BoardFits, RequestsFit, HeartbeatsFit, KnownToPlatform,
           AcknowledgementsAgree, [Next]_vars
    PROVE  AcknowledgementsAgree'
  <1>1. AcknowledgementFits /\ HoldsSettings(flash)
    BY StoredIsAccepted DEF AcknowledgementsAgree
  <1>2. AcknowledgementFits' /\ HoldsSettings(flash)'
    BY <1>1, AcknowledgementFitsStep, HoldsSettingsStep
  <1>3. AcknowledgedIsStored'
    BY <1>2 DEF AcknowledgementFits, AcknowledgedIsStored, HoldsSettings, Holds, AckInRange
  <1> QED
    BY <1>2, <1>3 DEF AcknowledgementsAgree

----------------------------------------------------------------------------
(* The invariant, and what it shows.                                       *)

LEMMA InvInit == Init => Inv
  <1> SUFFICES ASSUME Init PROVE Inv
    OBVIOUS
  <1>1. PairingTypeOK
    BY TypeInit
  <1>2. /\ flash = Blank
        /\ State = Blank
        /\ ~board.enrolling
        /\ Texts = {Blank}
    BY DEF Init, Booted, State, Texts
  <1>3. /\ Blank.device = None
        /\ Blank.credential = None
        /\ Blank.enrollment = None
        /\ link.device = None
    BY DEF Blank, Init, LinkOf
  <1>4. RowsFit /\ RequestsFit
    BY DEF Init, RowsFit, RowFits, ClaimFits, RequestsFit
  <1>5. BoardFits
    BY <1>2, <1>3 DEF BoardFits, TextFits
  <1>6. Offers
    BY <1>2, <1>3, PairingAssumption
       DEF Init, Offers, OneOffer, OfferOpens, Unused, Offered
  <1>7. CredentialsAgree
    BY <1>2, <1>3, KnownIdentities DEF Init, CredentialsAgree, CredentialsDistinct, Known
  <1>8. HeartbeatsFit
    BY <1>2, <1>3 DEF Init, HeartbeatsFit, NothingSent, CoversLate
  <1>9. AcknowledgementsAgree
    BY <1>2, <1>3 DEF AcknowledgementsAgree, AcknowledgementFits, AcknowledgedIsStored
  <1> QED
    BY <1>1, <1>4, <1>5, <1>6, <1>7, <1>8, <1>9 DEF Inv

LEMMA InvStep == Inv /\ [Next]_vars => Inv'
  BY TypeStep, RowsFitStep, BoardFitsStep, RequestsFitStep, OffersStep, KnownToPlatformStep,
     CredentialsDistinctStep, HeartbeatsFitStep, AcknowledgementsStep
     DEF Inv, CredentialsAgree

LEMMA InvAlways == Spec => []Inv
  BY InvInit, InvStep, PTL DEF Spec

\* The platform's rows, the text in flash, the worker's copy and every request
\* on its way keep their types, whatever is lost, late or fails to be saved.
THEOREM PairingTypeCorrect == Spec => []PairingTypeOK
  BY InvAlways, PTL DEF Inv

\* A board is never left with a device id whose credential the platform does not
\* store or has not revoked, and no credential opens two records: not after a
\* failed save, a lost answer, a power loss or a request that arrives late.
THEOREM CredentialsAlwaysAgree == Spec => []CredentialsAgree
  BY InvAlways, PTL DEF Inv

\* The version a board acknowledges is always one the platform accepts, and what
\* the platform holds as acknowledged, or a later version, is in flash: with its
\* name, and with its volume unless somebody chose another at the board since.
THEOREM AcknowledgementsAlwaysAgree == Spec => []AcknowledgementsAgree
  BY InvAlways, PTL DEF Inv

\* No step changes the record of a revoked device.
THEOREM RevocationIsFinal == Spec => RevokedIsFinal
  <1>1. Inv /\ [Next]_vars =>
            [\A d \in DeviceId :
                devices[d] # None /\ devices[d].revoked => devices'[d] = devices[d]]_vars
    BY StepOfPlatform, DevicesStep DEF Inv, RowsGrow
  <1> QED
    BY <1>1, InvAlways, PTL DEF Spec, RevokedIsFinal
=============================================================================
