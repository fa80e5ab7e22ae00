---------------------------- MODULE AudioGateway ----------------------------
(***************************************************************************)
(* Provider connections, one-use audio grants, and the gateway that turns  *)
(* a grant into a session with the provider.                               *)
(*                                                                         *)
(* The gateway is one process of coroutines: a step of a socket is what it *)
(* does between two awaits, and every database operation it awaits is a    *)
(* transaction of its own.  The owner's requests come in at any moment, and *)
(* the gateway may be restarted.                                           *)
(***************************************************************************)
EXTENDS Integers, FiniteSets, Sequences

CONSTANTS
    Owner, Connection, Device,
    OwnerOf,      \* the owner of a connection and of a device
    Grant,        \* grant tokens
    Socket,       \* sockets open at a time
    MaxSlots,     \* concurrent sessions (2 in the code)
    MaxRevision,  \* bounds the keys of a connection
    MaxLogins,    \* bounds the browser sessions of an owner
    MaxRestarts,  \* bounds restarts of the gateway
    None

ASSUME GatewayAssumption ==
    /\ OwnerOf \in [Connection \cup Device -> Owner]
    /\ MaxSlots \in Nat \ {0}
    /\ MaxRevision \in Nat \ {0}
    /\ MaxLogins \in Nat \ {0}
    /\ MaxRestarts \in Nat
    /\ None \notin Connection \cup Device \cup Grant

VARIABLES
    connections, \* ProviderConnection rows, or None once deleted
    installed,   \* CompanionInstallation: the connection of a device
    withdrawn,   \* disabled accounts and revoked devices
    login,       \* the number of the owner's browser session
    grants,      \* AudioGrant rows, or None
    rows,        \* AudioSession rows in order of creation
    slots,       \* active_users
    sockets,     \* the sockets of the gateway
    accepted,    \* history: the keys a provider accepted
    restarts

ownerVars   == <<connections, installed, withdrawn, login>>
gatewayVars == <<rows, slots, sockets, accepted, restarts>>
vars        == <<ownerVars, grants, gatewayVars>>

Revision == 1..MaxRevision

ConnectionRow == [revision: Revision, validation: {"untested", "accepted", "failed"}]

GrantRow == [connection: Connection, revision: Revision, device: Device \cup {None},
             login: 1..MaxLogins, mode: {"check", "voice", "device"},
             expired: BOOLEAN, used: BOOLEAN]

SessionRow == [grant: Grant, ended: BOOLEAN]

\* A socket without a session; one that consumed a grant and holds a copy of it
\* has a session row and the key that the connection has then; it is ready once
\* the provider is.
Closed == [pc |-> "closed"]

Session ==
    [pc: {"claimed", "checking", "deciding", "closing", "recording", "ending"},
     held: GrantRow, key: Revision, row: Nat \ {0}, ready: BOOLEAN,
     code: {"", "busy", "revoked", "provider", "disconnected", "timeout", "limit", "accepted"}]

SocketState == {Closed} \cup Session

Open(s) == sockets[s] # Closed

GatewayTypeOK ==
    /\ connections \in [Connection -> ConnectionRow \cup {None}]
    /\ installed \in [Device -> Connection \cup {None}]
    /\ withdrawn \subseteq Owner \cup Device
    /\ login \in [Owner -> 1..MaxLogins]
    /\ grants \in [Grant -> GrantRow \cup {None}]
    /\ rows \in Seq(SessionRow)
    /\ slots \subseteq Owner
    /\ sockets \in [Socket -> SocketState]
    /\ \A s \in Socket : Open(s) => sockets[s].row \in DOMAIN rows
    /\ accepted \subseteq Connection \X Revision
    /\ restarts \in 0..MaxRestarts

Init ==
    /\ connections = [k \in Connection |-> [revision |-> 1, validation |-> "untested"]]
    /\ installed = [d \in Device |-> None]
    /\ withdrawn = {}
    /\ login = [o \in Owner |-> 1]
    /\ grants = [g \in Grant |-> None]
    /\ rows = <<>>
    /\ slots = {}
    /\ sockets = [s \in Socket |-> Closed]
    /\ accepted = {}
    /\ restarts = 0

Validated(k) == connections[k] # None /\ connections[k].validation = "accepted"

----------------------------------------------------------------------------
(* The owner and the administrator.                                        *)

NewKey(k) == [revision |-> connections[k].revision + 1, validation |-> "untested"]

ReplaceKey(k) ==
    /\ connections[k] # None
    /\ connections[k].revision < MaxRevision
    /\ connections' = [connections EXCEPT ![k] = NewKey(k)]
    /\ UNCHANGED <<installed, withdrawn, login, grants, gatewayVars>>

\* The grants of the connection go with it.
DeleteConnection(k) ==
    /\ connections[k] # None
    /\ \A d \in Device : installed[d] # k
    /\ connections' = [connections EXCEPT ![k] = None]
    /\ grants' = [g \in Grant |->
          IF grants[g] # None /\ grants[g].connection = k THEN None ELSE grants[g]]
    /\ UNCHANGED <<installed, withdrawn, login, gatewayVars>>

Activate(d, k) ==
    /\ d \notin withdrawn
    /\ OwnerOf[k] = OwnerOf[d]
    /\ Validated(k)
    /\ installed' = [installed EXCEPT ![d] = k]
    /\ UNCHANGED <<connections, withdrawn, login, grants, gatewayVars>>

Deactivate(d) ==
    /\ d \notin withdrawn
    /\ installed[d] # None
    /\ installed' = [installed EXCEPT ![d] = None]
    /\ UNCHANGED <<connections, withdrawn, login, grants, gatewayVars>>

\* A device is revoked for good; an account is disabled or enabled again.
Withdraw(x) ==
    /\ x \in withdrawn => x \in Owner
    /\ withdrawn' = IF x \in withdrawn THEN withdrawn \ {x} ELSE withdrawn \cup {x}
    /\ UNCHANGED <<connections, installed, login, grants, gatewayVars>>

\* The browser session ends, by a logout or a new password; another begins.
LoginAgain(o) ==
    /\ login[o] < MaxLogins
    /\ login' = [login EXCEPT ![o] = @ + 1]
    /\ UNCHANGED <<connections, installed, withdrawn, grants, gatewayVars>>

NewGrant(g, k, d, mode) ==
    /\ grants[g] = None
    /\ \A i \in DOMAIN rows : rows[i].grant # g
    /\ grants' = [grants EXCEPT ![g] =
          [connection |-> k, revision |-> connections[k].revision, device |-> d,
           login |-> login[OwnerOf[k]], mode |-> mode, expired |-> FALSE, used |-> FALSE]]
    /\ UNCHANGED <<ownerVars, gatewayVars>>

\* issue_grant, for the owner's browser.
IssueGrant(g, k, mode) ==
    /\ OwnerOf[k] \notin withdrawn
    /\ connections[k] # None
    /\ NewGrant(g, k, None, mode)

\* issue_device_grant, for a device whose Companion is on.
IssueDeviceGrant(g, d) ==
    /\ withdrawn \cap {d, OwnerOf[d]} = {}
    /\ installed[d] # None
    /\ Validated(installed[d])
    /\ NewGrant(g, installed[d], d, "device")

GrantExpires(g) ==
    /\ grants[g] # None
    /\ ~grants[g].expired
    /\ grants' = [grants EXCEPT ![g].expired = TRUE]
    /\ UNCHANGED <<ownerVars, gatewayVars>>

----------------------------------------------------------------------------
(* The authority of a grant.                                               *)

\* Mutation of CurrentKey: the connection exists, with whatever key.
StillThere(g) == connections[g.connection] # None

CurrentKey(g) == /\ connections[g.connection] # None
                 /\ connections[g.connection].revision = g.revision

BrowserValid(g) == /\ OwnerOf[g.connection] \notin withdrawn
                   /\ login[OwnerOf[g.connection]] = g.login

DeviceValid(g) == /\ withdrawn \cap {g.device, OwnerOf[g.connection]} = {}
                  /\ installed[g.device] = g.connection
                  /\ Validated(g.connection)

\* still_authorized, and what consume_grant asks as well.
Authorized(g) == /\ CurrentKey(g)
                 /\ IF g.mode = "device" THEN DeviceValid(g) ELSE BrowserValid(g)

Fits(g, endpoint) == (g.mode = "device") <=> (endpoint = "device")

\* Mutation of Consumable: the grant is not marked.
ConsumableAgain(g, endpoint) == ~g.expired /\ Fits(g, endpoint) /\ Authorized(g)

Consumable(g, endpoint) == ~g.used /\ ~g.expired /\ Fits(g, endpoint) /\ Authorized(g)

----------------------------------------------------------------------------
(* The gateway.                                                            *)

Stage(s, pc) == sockets' = [sockets EXCEPT ![s].pc = pc]

\* Mutation of NewSession: the session takes the row before its own.
RowBefore(g) == [pc |-> "claimed", held |-> grants[g],
                 key |-> connections[grants[g].connection].revision,
                 row |-> Len(rows), ready |-> FALSE, code |-> ""]

NewSession(g) == [pc |-> "claimed", held |-> grants[g],
                  key |-> connections[grants[g].connection].revision,
                  row |-> Len(rows) + 1, ready |-> FALSE, code |-> ""]

\* A socket sends a ticket it knows, at either endpoint.  consume_grant: the
\* grant is used up and the session row is created.
Consume(s, endpoint, g) ==
    /\ ~Open(s)
    /\ grants[g] # None
    /\ Consumable(grants[g], endpoint)
    /\ grants' = [grants EXCEPT ![g].used = TRUE]
    /\ rows' = Append(rows, [grant |-> g, ended |-> FALSE])
    /\ sockets' = [sockets EXCEPT ![s] = NewSession(g)]
    /\ UNCHANGED <<ownerVars, slots, accepted, restarts>>

HolderOf(s) == OwnerOf[sockets[s].held.connection]

Free(o) == o \notin slots /\ Cardinality(slots) < MaxSlots

\* Mutation of Busy: a refused session is taken down like any other.
BusyClosing(s) == [sockets[s] EXCEPT !.pc = "closing", !.code = "busy"]

Busy(s) == [sockets[s] EXCEPT !.pc = "ending", !.code = "busy"]

\* Take a slot, or end as busy.
Enter(s) ==
    /\ sockets[s].pc = "claimed"
    /\ IF Free(HolderOf(s))
       THEN /\ slots' = slots \cup {HolderOf(s)}
            /\ Stage(s, "checking")
       ELSE /\ sockets' = [sockets EXCEPT ![s] = Busy(s)]
            /\ UNCHANGED slots
    /\ UNCHANGED <<ownerVars, grants, rows, accepted, restarts>>

\* The loop of run_provider asks still_authorized every half second ...
Check(s) ==
    /\ sockets[s].pc = "checking"
    /\ IF Authorized(sockets[s].held) THEN Stage(s, "deciding")
       ELSE sockets' = [sockets EXCEPT ![s].pc = "closing", ![s].code = "revoked"]
    /\ UNCHANGED <<ownerVars, grants, rows, slots, accepted, restarts>>

Outcomes(s) ==
    {"", "provider", "disconnected"}
    \cup IF ~sockets[s].ready THEN {"timeout"}
         ELSE IF sockets[s].held.mode = "check" THEN {"accepted"} ELSE {"limit"}

\* ... and then looks at what happened meanwhile: the provider failed, the client
\* left, the time is over, or none of it.
Decide(s) ==
    /\ sockets[s].pc = "deciding"
    /\ \E code \in Outcomes(s) :
          sockets' = [sockets EXCEPT ![s].code = code,
                         ![s].pc = IF code = "" THEN "checking" ELSE "closing"]
    /\ UNCHANGED <<ownerVars, grants, rows, slots, accepted, restarts>>

\* An exception, on the socket or from the pipeline, before the first check or
\* between two.
Raise(s) ==
    /\ sockets[s].pc = "checking"
    /\ \E code \in {"provider", "disconnected"} :
          sockets' = [sockets EXCEPT ![s].pc = "closing", ![s].code = code]
    /\ UNCHANGED <<ownerVars, grants, rows, slots, accepted, restarts>>

Recorded(s) == /\ sockets[s].held.mode = "check"
               /\ sockets[s].code \notin {"revoked", "disconnected"}

\* The pipeline is taken down and the slot freed.
Close(s) ==
    /\ sockets[s].pc = "closing"
    /\ slots' = slots \ {HolderOf(s)}
    /\ Stage(s, IF Recorded(s) THEN "recording" ELSE "ending")
    /\ UNCHANGED <<ownerVars, grants, rows, accepted, restarts>>

\* Mutation of SameKey: the result is stored whatever the key is now.
AnyKey(g) == connections[g.connection] # None

SameKey(g) == CurrentKey(g)

\* record_check: a result belongs to the key that was checked.
Record(s) ==
    /\ sockets[s].pc = "recording"
    /\ connections' = IF SameKey(sockets[s].held)
                      THEN [connections EXCEPT ![sockets[s].held.connection].validation =
                               IF sockets[s].code = "accepted" THEN "accepted" ELSE "failed"]
                      ELSE connections
    /\ Stage(s, "ending")
    /\ UNCHANGED <<installed, withdrawn, login, grants, rows, slots, accepted, restarts>>

Finish(s) ==
    /\ sockets[s].pc = "ending"
    /\ rows' = [rows EXCEPT ![sockets[s].row].ended = TRUE]
    /\ sockets' = [sockets EXCEPT ![s] = Closed]
    /\ UNCHANGED <<ownerVars, grants, slots, accepted, restarts>>

InSession(s) == sockets[s].pc \in {"checking", "deciding"}

\* The provider accepts the key.
ProviderReady(s) ==
    /\ InSession(s)
    /\ ~sockets[s].ready
    /\ sockets' = [sockets EXCEPT ![s].ready = TRUE]
    /\ accepted' = accepted \cup {<<sockets[s].held.connection, sockets[s].key>>}
    /\ UNCHANGED <<ownerVars, grants, rows, slots, restarts>>

\* Mutation of Ended: the rows are left open.
LeftOpen == rows

\* lifespan(), before the gateway serves again.
Ended == [i \in DOMAIN rows |-> [rows[i] EXCEPT !.ended = TRUE]]

\* The process ends, with its coroutines and slots, and is started again.
Restart ==
    /\ restarts < MaxRestarts
    /\ restarts' = restarts + 1
    /\ sockets' = [s \in Socket |-> Closed]
    /\ slots' = {}
    /\ rows' = Ended
    /\ UNCHANGED <<ownerVars, grants, accepted>>

OwnerStep ==
    \/ \E k \in Connection : ReplaceKey(k) \/ DeleteConnection(k)
    \/ \E d \in Device, k \in Connection : Activate(d, k)
    \/ \E d \in Device : Deactivate(d)
    \/ \E x \in Owner \cup Device : Withdraw(x)
    \/ \E o \in Owner : LoginAgain(o)
    \/ \E g \in Grant, k \in Connection, mode \in {"check", "voice"} : IssueGrant(g, k, mode)
    \/ \E g \in Grant, d \in Device : IssueDeviceGrant(g, d)
    \/ \E g \in Grant : GrantExpires(g)

SocketStep(s) == \/ Enter(s) \/ Check(s) \/ Decide(s) \/ Raise(s) \/ Close(s) \/ Record(s) \/ Finish(s)
                 \/ ProviderReady(s)
                 \/ \E endpoint \in {"browser", "device"}, g \in Grant : Consume(s, endpoint, g)

Next == OwnerStep \/ (\E s \in Socket : SocketStep(s)) \/ Restart

Spec == Init /\ [][Next]_vars

----------------------------------------------------------------------------
(* Properties.                                                             *)

\* A grant starts at most one session, however many sockets present it and
\* whatever the gateway does in between (consume_grant).
OneSessionPerGrant ==
    \A i, j \in DOMAIN rows : rows[i].grant = rows[j].grant => i = j

Occupied == {s \in Socket : sockets[s].pc \in {"checking", "deciding", "closing"}}

SlotsAreSessions ==
    /\ slots = {HolderOf(s) : s \in Occupied}
    /\ \A s, t \in Occupied : HolderOf(s) = HolderOf(t) => s = t
    /\ Cardinality(slots) <= MaxSlots

OpenRowsAreServed ==
    \A i \in DOMAIN rows : ~rows[i].ended =>
        \E s \in Socket : Open(s) /\ sockets[s].row = i

\* Every slot is held by exactly one session of its owner and none is lost, and
\* every session row that is open has a socket that will end it: not even a
\* session that was refused as busy, or a restart, breaks the account
\* (audio_session, lifespan).
SessionsAreAccounted == SlotsAreSessions /\ OpenRowsAreServed

ResultBelongsToKey ==
    \A k \in Connection : Validated(k) => <<k, connections[k].revision>> \in accepted

DeviceUsesTestedKey ==
    \A s \in Socket :
        Open(s) /\ sockets[s].held.mode = "device" =>
            <<sockets[s].held.connection, sockets[s].key>> \in accepted

\* A connection counts as tested only if its provider accepted the key it has
\* now, though a check may end after the key was replaced; and a Companion
\* session of a device runs with a tested key, the same one from the grant to
\* the provider (record_check, issue_device_grant, consume_grant).
KeysAreTested == ResultBelongsToKey /\ DeviceUsesTestedKey
=============================================================================
