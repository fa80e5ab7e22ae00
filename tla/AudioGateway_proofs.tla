------------------------- MODULE AudioGateway_proofs -------------------------
(***************************************************************************)
(* Theorems about AudioGateway, for any number of owners, connections,     *)
(* devices, grants, sockets and slots.                                     *)
(***************************************************************************)
EXTENDS AudioGateway, FiniteSetTheorems, SequenceTheorems, TLAPS

\* A session is open.
LEMMA SessionIsOpen ==
    ASSUME NEW x \in Session
    PROVE  x # Closed /\ x.pc # "closed"
  <1>1. x.pc # "closed"
    BY DEF Session
  <1> QED
    BY <1>1 DEF Closed

\* A socket at any other stage than "closed" has a session.
LEMMA StageOfSession ==
    ASSUME GatewayTypeOK, NEW s \in Socket
    PROVE  /\ sockets[s] # Closed => sockets[s] \in Session
           /\ sockets[s].pc # "closed" => sockets[s] \in Session
           /\ sockets[s] \in Session => Open(s) /\ sockets[s].pc # "closed"
  <1>1. Closed.pc = "closed"
    BY DEF Closed
  <1>2. sockets[s] = Closed \/ sockets[s] \in Session
    BY DEF GatewayTypeOK, SocketState
  <1> QED
    BY <1>1, <1>2, SessionIsOpen DEF Open

\* What a session knows of its grant.
LEMMA HeldGrant ==
    ASSUME GatewayTypeOK, NEW s \in Socket, sockets[s] \in Session
    PROVE  /\ sockets[s].held \in GrantRow
           /\ sockets[s].held.connection \in Connection
           /\ HolderOf(s) \in Owner
           /\ sockets[s].row \in DOMAIN rows
  <1>1. sockets[s].held \in GrantRow
    BY DEF Session
  <1>2. sockets[s].held.connection \in Connection
    BY <1>1 DEF GrantRow
  <1>3. HolderOf(s) \in Owner
    BY <1>2, GatewayAssumption DEF HolderOf
  <1> QED
    BY <1>1, <1>2, <1>3, StageOfSession DEF GatewayTypeOK

\* The owner's requests touch nothing of the gateway, and change the grants only
\* by new, expired or deleted ones.
LEMMA OwnerLeavesGateway ==
    ASSUME GatewayTypeOK, OwnerStep
    PROVE  UNCHANGED gatewayVars
  BY DEF OwnerStep, ReplaceKey, DeleteConnection, Activate, Deactivate, Withdraw, LoginAgain,
         NewGrant, IssueGrant, IssueDeviceGrant, GrantExpires

LEMMA TypeInit == Init => GatewayTypeOK
  <1> SUFFICES ASSUME Init PROVE GatewayTypeOK
    OBVIOUS
  <1>1. connections \in [Connection -> ConnectionRow \cup {None}]
    BY GatewayAssumption DEF Init, ConnectionRow, Revision
  <1>2. login \in [Owner -> 1..MaxLogins]
    BY GatewayAssumption DEF Init
  <1>3. rows \in Seq(SessionRow)
    BY DEF Init
  <1>4. sockets \in [Socket -> SocketState]
    BY DEF Init, SocketState
  <1>5. \A s \in Socket : ~Open(s)
    BY DEF Init, Open
  <1>6. /\ installed \in [Device -> Connection \cup {None}]
        /\ withdrawn \subseteq Owner \cup Device
        /\ grants \in [Grant -> GrantRow \cup {None}]
        /\ slots \subseteq Owner
        /\ accepted \subseteq Connection \X Revision
        /\ restarts \in 0..MaxRestarts
    BY GatewayAssumption DEF Init
  <1> QED
    BY <1>1, <1>2, <1>3, <1>4, <1>5, <1>6 DEF GatewayTypeOK

\* The types of what the owner changes.
LEMMA OwnerTypes ==
    ASSUME GatewayTypeOK, OwnerStep
    PROVE  GatewayTypeOK'
  <1> DEFINE Rows == /\ connections \in [Connection -> ConnectionRow \cup {None}]
                     /\ installed \in [Device -> Connection \cup {None}]
                     /\ withdrawn \subseteq Owner \cup Device
                     /\ login \in [Owner -> 1..MaxLogins]
                     /\ grants \in [Grant -> GrantRow \cup {None}]
  <1>1. Rows
    BY DEF GatewayTypeOK
  <1>2. ASSUME NEW k \in Connection, ReplaceKey(k) PROVE Rows'
    <2>1. connections[k] \in ConnectionRow
      BY <1>1, <1>2 DEF ReplaceKey
    <2>2. NewKey(k) \in ConnectionRow
      BY <1>2, <2>1, GatewayAssumption DEF ReplaceKey, NewKey, ConnectionRow, Revision
    <2> QED
      BY <1>1, <1>2, <2>2 DEF ReplaceKey
  <1>3. ASSUME NEW k \in Connection, DeleteConnection(k) PROVE Rows'
    BY <1>1, <1>3 DEF DeleteConnection
  <1>4. ASSUME NEW d \in Device, NEW k \in Connection, Activate(d, k) PROVE Rows'
    BY <1>1, <1>4 DEF Activate
  <1>5. ASSUME NEW d \in Device, Deactivate(d) PROVE Rows'
    BY <1>1, <1>5 DEF Deactivate
  <1>6. ASSUME NEW x \in Owner \cup Device, Withdraw(x) PROVE Rows'
    BY <1>1, <1>6 DEF Withdraw
  <1>7. ASSUME NEW o \in Owner, LoginAgain(o) PROVE Rows'
    <2>1. login[o] + 1 \in 1..MaxLogins
      BY <1>1, <1>7, GatewayAssumption DEF LoginAgain
    <2> QED
      BY <1>1, <1>7, <2>1 DEF LoginAgain
  <1>8. ASSUME NEW g \in Grant, NEW k \in Connection, NEW d \in Device \cup {None},
               NEW mode \in {"check", "voice", "device"}, NewGrant(g, k, d, mode),
               connections[k] # None
        PROVE  Rows'
    <2>1. connections[k].revision \in Revision
      BY <1>1, <1>8 DEF ConnectionRow
    <2>2. login[OwnerOf[k]] \in 1..MaxLogins
      BY <1>1, GatewayAssumption
    <2> QED
      BY <1>1, <1>8, <2>1, <2>2 DEF NewGrant, GrantRow, ownerVars
  <1>9. ASSUME NEW g \in Grant, NEW k \in Connection, NEW mode \in {"check", "voice"},
               IssueGrant(g, k, mode)
        PROVE  Rows'
    BY <1>8, <1>9 DEF IssueGrant
  <1>10. ASSUME NEW g \in Grant, NEW d \in Device, IssueDeviceGrant(g, d) PROVE Rows'
    <2>1. installed[d] \in Connection
      BY <1>1, <1>10 DEF IssueDeviceGrant
    <2> QED
      BY <1>8, <1>10, <2>1 DEF IssueDeviceGrant, Validated
  <1>11. ASSUME NEW g \in Grant, GrantExpires(g) PROVE Rows'
    <2>1. grants[g] \in GrantRow
      BY <1>1, <1>11 DEF GrantExpires
    <2>2. [grants[g] EXCEPT !.expired = TRUE] \in GrantRow
      BY <2>1 DEF GrantRow
    <2> QED
      BY <1>1, <1>11, <2>2 DEF GrantExpires, ownerVars
  <1>12. Rows'
    BY <1>2, <1>3, <1>4, <1>5, <1>6, <1>7, <1>9, <1>10, <1>11 DEF OwnerStep
  <1> QED
    BY <1>12, OwnerLeavesGateway DEF GatewayTypeOK, gatewayVars, Open

\* A socket that stays in its session, at another stage, with another result or
\* with a provider that is ready.
Kept(s, new) == /\ new \in Session
                /\ new.held = sockets[s].held
                /\ new.key = sockets[s].key
                /\ new.row = sockets[s].row

\* A step of one socket leaves the others as they are.
Moves(s, new) == sockets' = [sockets EXCEPT ![s] = new]

LEMMA SocketTypes ==
    ASSUME GatewayTypeOK, NEW s \in Socket, NEW new \in SocketState, Moves(s, new),
           DOMAIN rows \subseteq DOMAIN rows',
           new # Closed => new.row \in DOMAIN rows'
    PROVE  /\ sockets' \in [Socket -> SocketState]
           /\ \A t \in Socket : Open(t)' => sockets'[t].row \in DOMAIN rows'
  BY DEF GatewayTypeOK, Moves, Open

\* How the steps inside a session change its socket.
LEMMA Staged ==
    ASSUME GatewayTypeOK, NEW s \in Socket, sockets[s] \in Session
    PROVE  /\ \A pc \in {"claimed", "checking", "deciding", "closing", "recording", "ending"} :
                Stage(s, pc) => LET new == [sockets[s] EXCEPT !.pc = pc]
                                IN  Moves(s, new) /\ Kept(s, new)
           /\ Kept(s, Busy(s))
  BY DEF Stage, Moves, Kept, Busy, Session, GatewayTypeOK

\* The steps inside a session.
Inner(s) == \/ Enter(s) \/ Check(s) \/ Decide(s) \/ Raise(s) \/ Close(s) \/ Record(s)
            \/ ProviderReady(s)

\* They move one socket, which keeps its grant, key and row; a key is accepted
\* only by ProviderReady, and a check only by a provider that is ready.
LEMMA InnerMoves ==
    ASSUME GatewayTypeOK, NEW s \in Socket, Inner(s)
    PROVE  /\ sockets[s] \in Session
           /\ UNCHANGED <<installed, withdrawn, login, grants, rows, restarts>>
           /\ \E new \in Session : /\ Moves(s, new) /\ Kept(s, new)
                                   /\ new.ready = sockets[s].ready \/ ProviderReady(s)
                                   /\ sockets[s].ready => new.ready
                                   /\ new.code = "accepted" => \/ sockets[s].code = "accepted"
                                                               \/ new.ready
  <1>1. sockets[s] \in Session
    BY StageOfSession DEF Inner, Enter, Check, Decide, Raise, Close, Record, ProviderReady, InSession
  <1>2. UNCHANGED <<installed, withdrawn, login, grants, rows, restarts>>
    BY DEF Inner, Enter, Check, Decide, Raise, Close, Record, ProviderReady, ownerVars
  <1> DEFINE Good(new) == /\ Moves(s, new) /\ Kept(s, new)
                          /\ new.ready = sockets[s].ready \/ ProviderReady(s)
                          /\ sockets[s].ready => new.ready
                          /\ new.code = "accepted" => \/ sockets[s].code = "accepted"
                                                      \/ new.ready
  <1>3. ASSUME NEW pc \in {"checking", "deciding", "closing", "recording", "ending"}, Stage(s, pc)
        PROVE  \E new \in Session : Good(new)
    <2> DEFINE new == [sockets[s] EXCEPT !.pc = pc]
    <2>1. Moves(s, new) /\ Kept(s, new)
      BY <1>1, <1>3, Staged
    <2>2. new.ready = sockets[s].ready /\ new.code = sockets[s].code
      BY <1>1 DEF Session
    <2> QED
      BY <2>1, <2>2 DEF Kept
  <1>4. ASSUME NEW pc \in {"checking", "closing"},
               NEW code \in {"", "revoked", "provider", "disconnected", "timeout", "limit", "accepted"},
               code = "accepted" => sockets[s].ready,
               sockets' = [sockets EXCEPT ![s].pc = pc, ![s].code = code]
        PROVE  \E new \in Session : Good(new)
    <2> DEFINE new == [sockets[s] EXCEPT !.pc = pc, !.code = code]
    <2>1. Moves(s, new)
      BY <1>4 DEF Moves, GatewayTypeOK
    <2>2. /\ new \in Session
          /\ Kept(s, new) /\ new.ready = sockets[s].ready /\ new.code = code
      BY <1>1 DEF Session, Kept
    <2> QED
      BY <1>4, <2>1, <2>2
  <1>5. ASSUME Enter(s) PROVE \E new \in Session : Good(new)
    <2>1. CASE Stage(s, "checking")
      BY <1>3, <2>1
    <2>2. CASE Moves(s, Busy(s))
      <3>1. Busy(s) \in Session /\ Kept(s, Busy(s))
        BY <1>1, Staged DEF Kept
      <3>2. Busy(s).ready = sockets[s].ready /\ Busy(s).code = "busy"
        BY <1>1 DEF Session, Busy
      <3> QED
        BY <2>2, <3>1, <3>2
    <2> QED
      BY <1>5, <2>1, <2>2 DEF Enter, Moves
  <1>6. ASSUME Check(s) PROVE \E new \in Session : Good(new)
    <2>1. CASE Stage(s, "deciding")
      BY <1>3, <2>1
    <2>2. CASE sockets' = [sockets EXCEPT ![s].pc = "closing", ![s].code = "revoked"]
      BY <1>4, <2>2
    <2> QED
      BY <1>6, <2>1, <2>2 DEF Check
  <1>7. ASSUME Decide(s) PROVE \E new \in Session : Good(new)
    <2>1. PICK code \in Outcomes(s) :
             sockets' = [sockets EXCEPT ![s].code = code,
                            ![s].pc = IF code = "" THEN "checking" ELSE "closing"]
      BY <1>7 DEF Decide
    <2>2. /\ code \in {"", "provider", "disconnected", "timeout", "limit", "accepted"}
          /\ code = "accepted" => sockets[s].ready
      BY DEF Outcomes
    <2>3. PICK pc \in {"checking", "closing"} :
             sockets' = [sockets EXCEPT ![s].pc = pc, ![s].code = code]
      BY <2>1
    <2> QED
      BY <1>4, <2>2, <2>3
  <1>8. ASSUME Raise(s) PROVE \E new \in Session : Good(new)
    BY <1>4, <1>8 DEF Raise
  <1>9. ASSUME Close(s) \/ Record(s) PROVE \E new \in Session : Good(new)
    BY <1>3, <1>9 DEF Close, Record
  <1>10. ASSUME ProviderReady(s) PROVE \E new \in Session : Good(new)
    <2> DEFINE new == [sockets[s] EXCEPT !.ready = TRUE]
    <2>1. Moves(s, new)
      BY <1>10 DEF ProviderReady, Moves, GatewayTypeOK
    <2>2. new \in Session /\ Kept(s, new) /\ new.ready
      BY <1>1 DEF Session, Kept
    <2> QED
      BY <1>10, <2>1, <2>2
  <1> QED
    BY <1>1, <1>2, <1>5, <1>6, <1>7, <1>8, <1>9, <1>10 DEF Inner

\* A grant is consumed: a new row, and a new session on a socket that had none.
LEMMA ConsumeMoves ==
    ASSUME GatewayTypeOK, NEW s \in Socket, NEW endpoint \in {"browser", "device"},
           NEW g \in Grant, Consume(s, endpoint, g)
    PROVE  /\ sockets[s] = Closed
           /\ grants[g] \in GrantRow /\ ~grants[g].used /\ Authorized(grants[g])
           /\ NewSession(g) \in Session /\ Moves(s, NewSession(g))
           /\ NewSession(g).row \in DOMAIN rows' /\ DOMAIN rows \subseteq DOMAIN rows'
           /\ NewSession(g).row = Len(rows) + 1 /\ rows' \in Seq(SessionRow)
           /\ grants' = [grants EXCEPT ![g].used = TRUE]
           /\ UNCHANGED <<connections, installed, withdrawn, login, slots, accepted, restarts>>
  <1>1. grants[g] \in GrantRow /\ ~grants[g].used /\ Authorized(grants[g])
    BY DEF Consume, Consumable, GatewayTypeOK
  <1>2. connections[grants[g].connection] \in ConnectionRow
    BY <1>1 DEF Authorized, CurrentKey, GatewayTypeOK, GrantRow
  <1>3. rows \in Seq(SessionRow) /\ Len(rows) \in Nat /\ DOMAIN rows = 1..Len(rows)
    BY DEF GatewayTypeOK
  <1>4. NewSession(g) \in Session
    BY <1>1, <1>2, <1>3 DEF NewSession, Session, ConnectionRow
  <1>5. [grant |-> g, ended |-> FALSE] \in SessionRow
    BY DEF SessionRow
  <1>6. rows' = Append(rows, [grant |-> g, ended |-> FALSE])
    BY DEF Consume
  <1>7. /\ rows' \in Seq(SessionRow) /\ Len(rows') = Len(rows) + 1
        /\ DOMAIN rows' = 1..Len(rows')
    BY <1>3, <1>5, <1>6
  <1>8. NewSession(g).row = Len(rows) + 1
    BY DEF NewSession
  <1>9. NewSession(g).row \in DOMAIN rows' /\ DOMAIN rows \subseteq DOMAIN rows'
    BY <1>3, <1>7, <1>8
  <1> QED
    BY <1>1, <1>4, <1>7, <1>8, <1>9 DEF Consume, Open, Moves, ownerVars

\* The rows keep their grants when some of them are ended.
LEMMA RowsEnded ==
    ASSUME GatewayTypeOK
    PROVE  /\ Ended \in Seq(SessionRow) /\ DOMAIN Ended = DOMAIN rows
           /\ \A i \in DOMAIN rows : Ended[i].grant = rows[i].grant /\ Ended[i].ended
           /\ \A k \in DOMAIN rows :
                 LET new == [rows EXCEPT ![k].ended = TRUE]
                 IN  /\ new \in Seq(SessionRow) /\ DOMAIN new = DOMAIN rows
                     /\ \A i \in DOMAIN rows : /\ new[i].grant = rows[i].grant
                                               /\ new[i].ended = (rows[i].ended \/ i = k)
  <1>1. /\ rows \in Seq(SessionRow) /\ Len(rows) \in Nat /\ DOMAIN rows = 1..Len(rows)
        /\ \A i \in DOMAIN rows : rows[i] \in SessionRow
    BY DEF GatewayTypeOK
  <1>2. ASSUME NEW r \in SessionRow
        PROVE  /\ [r EXCEPT !.ended = TRUE] \in SessionRow
               /\ [r EXCEPT !.ended = TRUE].grant = r.grant
               /\ [r EXCEPT !.ended = TRUE].ended = TRUE
               /\ r.ended \in BOOLEAN
    BY DEF SessionRow
  <1>3. /\ Ended \in [1..Len(rows) -> SessionRow]
        /\ \A i \in DOMAIN rows : Ended[i].grant = rows[i].grant /\ Ended[i].ended
    BY <1>1, <1>2 DEF Ended
  <1>4. Ended \in Seq(SessionRow)
    BY <1>1, <1>3, SeqDef
  <1>5. ASSUME NEW k \in DOMAIN rows
        PROVE  LET new == [rows EXCEPT ![k].ended = TRUE]
               IN  /\ new \in Seq(SessionRow) /\ DOMAIN new = DOMAIN rows
                   /\ \A i \in DOMAIN rows : /\ new[i].grant = rows[i].grant
                                             /\ new[i].ended = (rows[i].ended \/ i = k)
    <2> DEFINE row == [rows[k] EXCEPT !.ended = TRUE]
               new == [rows EXCEPT ![k] = row]
    <2>1. new = [rows EXCEPT ![k].ended = TRUE]
      BY <1>1
    <2>2. row \in SessionRow /\ row.grant = rows[k].grant /\ row.ended = TRUE
      BY <1>1, <1>2
    <2> HIDE DEF row
    <2>3. /\ new \in [1..Len(rows) -> SessionRow]
          /\ \A i \in DOMAIN rows : new[i] = IF i = k THEN row ELSE rows[i]
      BY <1>1, <2>2
    <2>4. new \in Seq(SessionRow)
      BY <1>1, <2>3, SeqDef
    <2>5. \A i \in DOMAIN rows : rows[i].ended \in BOOLEAN
      BY <1>1, <1>2
    <2>6. \A i \in DOMAIN rows : /\ new[i].grant = rows[i].grant
                                 /\ new[i].ended = (rows[i].ended \/ i = k)
      BY <2>2, <2>3, <2>5
    <2>7. DOMAIN new = DOMAIN rows
      OBVIOUS
    <2> HIDE DEF new
    <2> QED
      BY <2>1, <2>4, <2>6, <2>7
  <1> QED
    BY <1>1, <1>3, <1>4, <1>5

LEMMA FinishMoves ==
    ASSUME GatewayTypeOK, NEW s \in Socket, Finish(s)
    PROVE  /\ sockets[s] \in Session /\ sockets[s].row \in DOMAIN rows
           /\ Moves(s, Closed)
           /\ rows' = [rows EXCEPT ![sockets[s].row].ended = TRUE]
           /\ UNCHANGED <<ownerVars, grants, slots, accepted, restarts>>
  BY StageOfSession, HeldGrant DEF Finish, Moves

\* What a step of the gateway changes besides its sockets has the right type.
LEMMA InnerTypes ==
    ASSUME GatewayTypeOK, NEW s \in Socket, Inner(s)
    PROVE  /\ connections' \in [Connection -> ConnectionRow \cup {None}]
           /\ slots' \subseteq Owner
           /\ accepted' \subseteq Connection \X Revision
  <1>1. sockets[s] \in Session
    BY InnerMoves
  <1>2. /\ sockets[s].held.connection \in Connection /\ HolderOf(s) \in Owner
        /\ sockets[s].key \in Revision
    BY <1>1, HeldGrant DEF Session
  <1>3. connections' \in [Connection -> ConnectionRow \cup {None}]
    <2>1. CASE Record(s)
      <3> DEFINE k == sockets[s].held.connection
      <3>1. CASE SameKey(sockets[s].held)
        <4>1. connections[k] \in ConnectionRow
          BY <1>2, <3>1 DEF SameKey, CurrentKey, GatewayTypeOK
        <4>2. \A v \in {"accepted", "failed"} : [connections[k] EXCEPT !.validation = v] \in ConnectionRow
          BY <4>1 DEF ConnectionRow
        <4>3. PICK v \in {"accepted", "failed"} :
                 connections' = [connections EXCEPT ![k].validation = v]
          BY <2>1, <3>1 DEF Record
        <4>4. connections' = [connections EXCEPT ![k] = [connections[k] EXCEPT !.validation = v]]
          BY <4>3 DEF GatewayTypeOK
        <4> QED
          BY <1>2, <4>2, <4>4 DEF GatewayTypeOK
      <3>2. CASE ~SameKey(sockets[s].held)
        BY <2>1, <3>2 DEF Record, GatewayTypeOK
      <3> QED
        BY <3>1, <3>2
    <2>2. CASE ~Record(s)
      BY <2>2 DEF GatewayTypeOK, Inner, Enter, Check, Decide, Raise, Close, ProviderReady, ownerVars
    <2> QED
      BY <2>1, <2>2
  <1>4. slots' \subseteq Owner
    BY <1>2 DEF GatewayTypeOK, Inner, Enter, Check, Decide, Raise, Close, Record, ProviderReady
  <1>5. accepted' \subseteq Connection \X Revision
    <2>1. CASE ProviderReady(s)
      BY <1>2, <2>1 DEF GatewayTypeOK, ProviderReady
    <2>2. CASE ~ProviderReady(s)
      BY <2>2 DEF GatewayTypeOK, Inner, Enter, Check, Decide, Raise, Close, Record
    <2> QED
      BY <2>1, <2>2
  <1> QED
    BY <1>3, <1>4, <1>5

LEMMA TypeStep == GatewayTypeOK /\ [Next]_vars => GatewayTypeOK'
  <1> SUFFICES ASSUME GatewayTypeOK, [Next]_vars PROVE GatewayTypeOK'
    OBVIOUS
  <1>1. CASE OwnerStep
    BY <1>1, OwnerTypes
  <1>2. ASSUME NEW s \in Socket, Inner(s) PROVE GatewayTypeOK'
    <2>1. PICK new \in Session : Moves(s, new) /\ Kept(s, new)
      BY <1>2, InnerMoves
    <2>2. new.row \in DOMAIN rows'
      BY <1>2, <2>1, InnerMoves, HeldGrant DEF Kept
    <2>3. /\ sockets' \in [Socket -> SocketState]
          /\ \A t \in Socket : Open(t)' => sockets'[t].row \in DOMAIN rows'
      BY <1>2, <2>1, <2>2, InnerMoves, SocketTypes DEF SocketState
    <2> QED
      BY <1>2, <2>3, InnerMoves, InnerTypes DEF GatewayTypeOK
  <1>3. ASSUME NEW s \in Socket, NEW endpoint \in {"browser", "device"}, NEW g \in Grant,
               Consume(s, endpoint, g)
        PROVE  GatewayTypeOK'
    <2>1. /\ NewSession(g) \in Session /\ Moves(s, NewSession(g))
          /\ NewSession(g).row \in DOMAIN rows' /\ DOMAIN rows \subseteq DOMAIN rows'
      BY <1>3, ConsumeMoves
    <2>2. NewSession(g) \in SocketState
      BY <2>1 DEF SocketState
    <2>3. /\ sockets' \in [Socket -> SocketState]
          /\ \A t \in Socket : Open(t)' => sockets'[t].row \in DOMAIN rows'
      BY <2>1, <2>2, SocketTypes
    <2>4. grants' \in [Grant -> GrantRow \cup {None}]
      <3>1. grants[g] \in GrantRow
        BY <1>3 DEF Consume, GatewayTypeOK
      <3>2. [grants[g] EXCEPT !.used = TRUE] \in GrantRow
        BY <3>1 DEF GrantRow
      <3>3. grants' = [grants EXCEPT ![g] = [grants[g] EXCEPT !.used = TRUE]]
        BY <1>3 DEF Consume, GatewayTypeOK
      <3> QED
        BY <3>2, <3>3 DEF GatewayTypeOK
    <2> QED
      BY <1>3, <2>3, <2>4, ConsumeMoves DEF GatewayTypeOK
  <1>4. ASSUME NEW s \in Socket, Finish(s) PROVE GatewayTypeOK'
    <2>1. rows' \in Seq(SessionRow) /\ DOMAIN rows' = DOMAIN rows
      BY <1>4, FinishMoves, RowsEnded
    <2>2. /\ sockets' \in [Socket -> SocketState]
          /\ \A t \in Socket : Open(t)' => sockets'[t].row \in DOMAIN rows'
      BY <1>4, <2>1, FinishMoves, SocketTypes DEF SocketState
    <2> QED
      BY <1>4, <2>1, <2>2, FinishMoves DEF GatewayTypeOK, ownerVars
  <1>5. CASE Restart
    <2>1. rows' \in Seq(SessionRow)
      BY <1>5, RowsEnded DEF Restart
    <2>2. sockets' \in [Socket -> SocketState] /\ \A t \in Socket : ~Open(t)'
      BY <1>5 DEF Restart, SocketState, Open
    <2>3. restarts' \in 0..MaxRestarts
      BY <1>5, GatewayAssumption DEF Restart, GatewayTypeOK
    <2> QED
      BY <1>5, <2>1, <2>2, <2>3 DEF GatewayTypeOK, Restart, ownerVars
  <1>6. CASE UNCHANGED vars
    BY <1>6 DEF GatewayTypeOK, vars, ownerVars, gatewayVars, Open
  <1> QED
    BY <1>1, <1>2, <1>3, <1>4, <1>5, <1>6 DEF Next, SocketStep, Inner

\* Every state of the gateway has its types.
THEOREM GatewayTypeCorrect == Spec => []GatewayTypeOK
  BY TypeInit, TypeStep, PTL DEF Spec

----------------------------------------------------------------------------
(* One session per grant.                                                  *)

\* A grant with a session row is used, or deleted with its connection.
RowsUseGrants == \A i \in DOMAIN rows : grants[rows[i].grant] # None => grants[rows[i].grant].used

\* Every row names a grant.
LEMMA RowGrants ==
    ASSUME GatewayTypeOK, NEW i \in DOMAIN rows
    PROVE  rows[i] \in SessionRow /\ rows[i].grant \in Grant /\ rows[i].ended \in BOOLEAN
  <1>1. rows \in Seq(SessionRow)
    BY DEF GatewayTypeOK
  <1>2. rows[i] \in SessionRow
    BY <1>1
  <1> QED
    BY <1>2 DEF SessionRow

\* The row a consumed grant adds.
LEMMA ConsumeRows ==
    ASSUME GatewayTypeOK, NEW s \in Socket, NEW endpoint \in {"browser", "device"},
           NEW g \in Grant, Consume(s, endpoint, g)
    PROVE  /\ Len(rows) \in Nat
           /\ DOMAIN rows = 1..Len(rows) /\ DOMAIN rows' = 1..Len(rows) + 1
           /\ \A i \in DOMAIN rows : rows'[i] = rows[i]
           /\ rows'[Len(rows) + 1].grant = g /\ ~rows'[Len(rows) + 1].ended
  <1> DEFINE row == [grant |-> g, ended |-> FALSE]
  <1>1. row \in SessionRow /\ row.grant = g /\ ~row.ended
    BY DEF SessionRow
  <1>2. rows \in Seq(SessionRow) /\ rows' = Append(rows, row)
    BY DEF GatewayTypeOK, Consume
  <1> HIDE DEF row
  <1> QED
    BY <1>1, <1>2

LEMMA UseInit == Init => RowsUseGrants /\ OneSessionPerGrant
  BY DEF Init, RowsUseGrants, OneSessionPerGrant

LEMMA OwnerKeepsUses ==
    ASSUME GatewayTypeOK, RowsUseGrants, OwnerStep
    PROVE  RowsUseGrants'
  <1>1. rows' = rows /\ \A i \in DOMAIN rows : rows[i].grant \in Grant
    BY OwnerLeavesGateway, RowGrants DEF gatewayVars
  <1>2. ASSUME NEW g \in Grant, NEW k, NEW d, NEW mode, NewGrant(g, k, d, mode)
        PROVE  RowsUseGrants'
    BY <1>1, <1>2 DEF NewGrant, RowsUseGrants, GatewayTypeOK
  <1>3. ASSUME NEW k \in Connection, DeleteConnection(k) PROVE RowsUseGrants'
    BY <1>1, <1>3 DEF DeleteConnection, RowsUseGrants
  <1>4. ASSUME NEW g \in Grant, GrantExpires(g) PROVE RowsUseGrants'
    <2>1. grants[g] \in GrantRow
      BY <1>4 DEF GrantExpires, GatewayTypeOK
    <2> DEFINE row == [grants[g] EXCEPT !.expired = TRUE]
    <2>2. row.used = grants[g].used
      BY <2>1 DEF GrantRow
    <2>3. grants' = [grants EXCEPT ![g] = row]
      BY <1>4 DEF GrantExpires, GatewayTypeOK
    <2> HIDE DEF row
    <2>4. None \notin GrantRow \/ grants[g] # None
      BY <1>4 DEF GrantExpires
    <2> QED
      BY <1>1, <1>4, <2>1, <2>2, <2>3 DEF RowsUseGrants, GatewayTypeOK, GrantExpires
  <1>5. CASE grants' = grants
    BY <1>1, <1>5 DEF RowsUseGrants
  <1> QED
    BY <1>2, <1>3, <1>4, <1>5 DEF OwnerStep, ReplaceKey, Activate, Deactivate, Withdraw,
       LoginAgain, IssueGrant, IssueDeviceGrant

LEMMA UseStep ==
    ASSUME GatewayTypeOK, RowsUseGrants, OneSessionPerGrant, [Next]_vars
    PROVE  RowsUseGrants' /\ OneSessionPerGrant'
  <1>1. CASE OwnerStep
    BY <1>1, OwnerKeepsUses, OwnerLeavesGateway DEF gatewayVars, OneSessionPerGrant
  <1>2. ASSUME NEW s \in Socket, Inner(s) PROVE RowsUseGrants' /\ OneSessionPerGrant'
    BY <1>2, InnerMoves DEF RowsUseGrants, OneSessionPerGrant
  <1>3. ASSUME NEW s \in Socket, NEW endpoint \in {"browser", "device"}, NEW g \in Grant,
               Consume(s, endpoint, g)
        PROVE  RowsUseGrants' /\ OneSessionPerGrant'
    <2>1. /\ \A i \in DOMAIN rows : rows'[i] = rows[i]
          /\ Len(rows) \in Nat
          /\ DOMAIN rows = 1..Len(rows) /\ DOMAIN rows' = 1..Len(rows) + 1
          /\ rows'[Len(rows) + 1].grant = g
      BY <1>3, ConsumeRows
    <2>2. grants[g] \in GrantRow /\ grants[g] # None /\ ~grants[g].used
      BY <1>3 DEF Consume, Consumable, GatewayTypeOK
    <2>3. /\ grants' = [grants EXCEPT ![g] = [grants[g] EXCEPT !.used = TRUE]]
          /\ [grants[g] EXCEPT !.used = TRUE].used
      BY <1>3, <2>2 DEF Consume, GatewayTypeOK, GrantRow
    <2>4. \A i \in DOMAIN rows : rows[i].grant # g
      BY <2>2 DEF RowsUseGrants
    <2>5. \A i \in DOMAIN rows : rows[i].grant \in Grant
      BY RowGrants
    <2>6. \A i \in DOMAIN rows' : i \in DOMAIN rows \/ i = Len(rows) + 1
      BY <2>1
    <2>7. RowsUseGrants'
      BY <2>1, <2>3, <2>4, <2>5, <2>6 DEF RowsUseGrants, GatewayTypeOK
    <2>8. OneSessionPerGrant'
      BY <2>1, <2>4, <2>6 DEF OneSessionPerGrant
    <2> QED
      BY <2>7, <2>8
  <1>4. ASSUME NEW s \in Socket, Finish(s) PROVE RowsUseGrants' /\ OneSessionPerGrant'
    <2>1. /\ DOMAIN rows' = DOMAIN rows
          /\ \A i \in DOMAIN rows : rows'[i].grant = rows[i].grant
      <3>1. /\ sockets[s].row \in DOMAIN rows
            /\ rows' = [rows EXCEPT ![sockets[s].row].ended = TRUE]
        BY <1>4, FinishMoves
      <3> QED
        BY <3>1, RowsEnded
    <2> QED
      BY <1>4, <2>1 DEF Finish, RowsUseGrants, OneSessionPerGrant
  <1>5. CASE Restart
    <2>1. /\ DOMAIN rows' = DOMAIN rows
          /\ \A i \in DOMAIN rows : rows'[i].grant = rows[i].grant
      BY <1>5, RowsEnded DEF Restart
    <2> QED
      BY <1>5, <2>1 DEF Restart, RowsUseGrants, OneSessionPerGrant
  <1>6. CASE UNCHANGED vars
    BY <1>6 DEF vars, gatewayVars, RowsUseGrants, OneSessionPerGrant
  <1> QED
    BY <1>1, <1>2, <1>3, <1>4, <1>5, <1>6 DEF Next, SocketStep, Inner

\* A grant starts at most one session, whoever presents it, how often and when.
THEOREM GrantsWorkOnce == Spec => []OneSessionPerGrant
  BY UseInit, UseStep, GatewayTypeCorrect, PTL DEF Spec

----------------------------------------------------------------------------
(* A session row that is open has its socket.                              *)

\* A socket that keeps its session keeps its row served.
LEMMA KeptServes ==
    ASSUME GatewayTypeOK, OpenRowsAreServed, NEW s \in Socket, NEW new \in Session,
           Moves(s, new), Kept(s, new), sockets[s] \in Session, rows' = rows
    PROVE  OpenRowsAreServed'
  <1>1. \A t \in Socket : Open(t) => Open(t)' /\ sockets'[t].row = sockets[t].row
    <2>1. sockets' = [sockets EXCEPT ![s] = new] /\ sockets'[s] = new /\ new # Closed
      BY SessionIsOpen DEF Moves, GatewayTypeOK
    <2> QED
      BY <2>1 DEF Open, Kept, GatewayTypeOK
  <1> QED
    BY <1>1 DEF OpenRowsAreServed

LEMMA ServedStep ==
    ASSUME GatewayTypeOK, OpenRowsAreServed, [Next]_vars
    PROVE  OpenRowsAreServed'
  <1>1. CASE OwnerStep \/ UNCHANGED vars
    <2>1. rows' = rows /\ sockets' = sockets
      BY <1>1, OwnerLeavesGateway DEF vars, gatewayVars
    <2> QED
      BY <2>1 DEF OpenRowsAreServed, Open
  <1>2. ASSUME NEW s \in Socket, Inner(s) PROVE OpenRowsAreServed'
    <2>1. PICK new \in Session : Moves(s, new) /\ Kept(s, new)
      BY <1>2, InnerMoves
    <2>2. sockets[s] \in Session /\ rows' = rows
      BY <1>2, InnerMoves
    <2> QED
      BY <2>1, <2>2, KeptServes
  <1>3. ASSUME NEW s \in Socket, NEW endpoint \in {"browser", "device"}, NEW g \in Grant,
               Consume(s, endpoint, g)
        PROVE  OpenRowsAreServed'
    <2>1. /\ sockets[s] = Closed /\ NewSession(g) \in Session
          /\ Moves(s, NewSession(g)) /\ NewSession(g).row = Len(rows) + 1
      BY <1>3, ConsumeMoves
    <2>2. Open(s)' /\ sockets'[s].row = Len(rows) + 1
      BY <2>1, SessionIsOpen DEF Open, Moves, GatewayTypeOK
    <2>3. \A t \in Socket : Open(t) => Open(t)' /\ sockets'[t].row = sockets[t].row
      BY <2>1 DEF Open, Moves, GatewayTypeOK
    <2>4. \A i \in DOMAIN rows' : i = Len(rows) + 1 \/ (i \in DOMAIN rows /\ rows'[i] = rows[i])
      <3>1. /\ Len(rows) \in Nat
            /\ DOMAIN rows = 1..Len(rows) /\ DOMAIN rows' = 1..Len(rows) + 1
            /\ \A i \in DOMAIN rows : rows'[i] = rows[i]
        BY <1>3, ConsumeRows
      <3>2. \A i \in DOMAIN rows' : i = Len(rows) + 1 \/ i \in DOMAIN rows
        BY <3>1
      <3> QED
        BY <3>1, <3>2
    <2> QED
      BY <2>2, <2>3, <2>4 DEF OpenRowsAreServed
  <1>4. ASSUME NEW s \in Socket, Finish(s) PROVE OpenRowsAreServed'
    <2>1. /\ sockets[s].row \in DOMAIN rows /\ Moves(s, Closed)
          /\ rows' = [rows EXCEPT ![sockets[s].row].ended = TRUE]
      BY <1>4, FinishMoves
    <2>2. /\ DOMAIN rows' = DOMAIN rows
          /\ \A i \in DOMAIN rows : ~rows'[i].ended => ~rows[i].ended /\ i # sockets[s].row
      BY <2>1, RowsEnded
    <2>3. \A t \in Socket \ {s} : sockets'[t] = sockets[t]
      BY <2>1 DEF Moves, GatewayTypeOK
    <2> QED
      BY <2>2, <2>3 DEF OpenRowsAreServed, Open
  <1>5. CASE Restart
    <2>1. \A i \in DOMAIN rows' : rows'[i].ended
      BY <1>5, RowsEnded DEF Restart
    <2> QED
      BY <2>1 DEF OpenRowsAreServed
  <1> QED
    BY <1>1, <1>2, <1>3, <1>4, <1>5 DEF Next, SocketStep, Inner

LEMMA RowsAreServed == Spec => []OpenRowsAreServed
  <1>1. Init => OpenRowsAreServed
    BY DEF Init, OpenRowsAreServed
  <1> QED
    BY <1>1, ServedStep, GatewayTypeCorrect, PTL DEF Spec

----------------------------------------------------------------------------
(* Slots.                                                                  *)

Slots == SlotsAreSessions /\ IsFiniteSet(slots)

\* Sockets that enter or leave no slot keep them in order.
LEMMA SlotsKept ==
    ASSUME Slots, slots' = slots, Occupied' = Occupied,
           \A t \in Occupied : HolderOf(t)' = HolderOf(t)
    PROVE  Slots'
  BY DEF Slots, SlotsAreSessions

\* The effect of a step of one socket on the sockets that occupy a slot.
LEMMA OccupiedMoves ==
    ASSUME GatewayTypeOK, NEW s \in Socket, NEW new \in SocketState, Moves(s, new)
    PROVE  /\ Occupied' \ {s} = Occupied \ {s}
           /\ s \in Occupied' <=> new.pc \in {"checking", "deciding", "closing"}
           /\ s \in Occupied <=> sockets[s].pc \in {"checking", "deciding", "closing"}
           /\ \A t \in Socket \ {s} : HolderOf(t)' = HolderOf(t)
           /\ new \in Session /\ Kept(s, new) => HolderOf(s)' = HolderOf(s)
  <1>1. sockets'[s] = new /\ \A t \in Socket \ {s} : sockets'[t] = sockets[t]
    BY DEF Moves, GatewayTypeOK
  <1> QED
    BY <1>1 DEF Occupied, HolderOf, Kept

\* The stages a step inside a session leads to.
LEMMA InnerStages ==
    ASSUME GatewayTypeOK, NEW s \in Socket, Inner(s)
    PROVE  \E new \in Session :
              /\ Moves(s, new) /\ Kept(s, new)
              /\ Enter(s) => new.pc = IF Free(HolderOf(s)) THEN "checking" ELSE "ending"
              /\ Check(s) \/ Decide(s) \/ Raise(s) \/ ProviderReady(s)
                    => new.pc \in {"checking", "deciding", "closing"}
              /\ Close(s) \/ Record(s) => new.pc \in {"recording", "ending"}
  <1>1. PICK new \in Session : Moves(s, new) /\ Kept(s, new)
    BY InnerMoves
  <1>2. sockets[s] \in Session /\ sockets'[s] = new
    BY <1>1, InnerMoves DEF Moves, GatewayTypeOK
  <1>3. ASSUME NEW pc, Stage(s, pc) PROVE new.pc = pc
    BY <1>2, <1>3 DEF Stage, GatewayTypeOK, Session
  <1>4. ASSUME NEW pc, NEW code, sockets' = [sockets EXCEPT ![s].pc = pc, ![s].code = code]
        PROVE  new.pc = pc
    BY <1>2, <1>4 DEF GatewayTypeOK, Session
  <1>5. Enter(s) => new.pc = IF Free(HolderOf(s)) THEN "checking" ELSE "ending"
    <2>1. Busy(s).pc = "ending"
      BY <1>2 DEF Busy, Session
    <2>2. sockets' = [sockets EXCEPT ![s] = Busy(s)] => new = Busy(s)
      BY <1>2 DEF GatewayTypeOK
    <2> QED
      BY <1>3, <2>1, <2>2 DEF Enter
  <1>6. Check(s) => new.pc \in {"deciding", "closing"}
    BY <1>3, <1>4 DEF Check
  <1>7. Raise(s) => new.pc = "closing"
    BY <1>4 DEF Raise
  <1>8. Decide(s) => new.pc \in {"checking", "closing"}
    <2> SUFFICES ASSUME Decide(s) PROVE new.pc \in {"checking", "closing"}
      OBVIOUS
    <2>1. PICK code \in Outcomes(s) :
             sockets' = [sockets EXCEPT ![s].code = code,
                            ![s].pc = IF code = "" THEN "checking" ELSE "closing"]
      BY DEF Decide
    <2> QED
      BY <1>2, <2>1 DEF GatewayTypeOK, Session
  <1>9. ProviderReady(s) => new.pc \in {"checking", "deciding"}
    <2> SUFFICES ASSUME ProviderReady(s) PROVE new.pc \in {"checking", "deciding"}
      OBVIOUS
    <2>1. sockets' = [sockets EXCEPT ![s].ready = TRUE]
      BY DEF ProviderReady
    <2>2. new.pc = sockets[s].pc
      BY <1>2, <2>1 DEF GatewayTypeOK, Session
    <2> QED
      BY <2>2 DEF ProviderReady, InSession
  <1>10. Close(s) \/ Record(s) => new.pc \in {"recording", "ending"}
    BY <1>3 DEF Close, Record
  <1> QED
    BY <1>1, <1>5, <1>6, <1>7, <1>8, <1>9, <1>10

LEMMA SlotsInner ==
    ASSUME GatewayTypeOK, Slots, NEW s \in Socket, Inner(s)
    PROVE  Slots'
  <1>1. PICK new \in Session :
           /\ Moves(s, new) /\ Kept(s, new)
           /\ Enter(s) => new.pc = IF Free(HolderOf(s)) THEN "checking" ELSE "ending"
           /\ Check(s) \/ Decide(s) \/ Raise(s) \/ ProviderReady(s)
                 => new.pc \in {"checking", "deciding", "closing"}
           /\ Close(s) \/ Record(s) => new.pc \in {"recording", "ending"}
    BY InnerStages
  <1>2. /\ Occupied' \ {s} = Occupied \ {s}
        /\ s \in Occupied' <=> new.pc \in {"checking", "deciding", "closing"}
        /\ s \in Occupied <=> sockets[s].pc \in {"checking", "deciding", "closing"}
        /\ \A t \in Socket \ {s} : HolderOf(t)' = HolderOf(t)
        /\ HolderOf(s)' = HolderOf(s)
    BY <1>1, OccupiedMoves DEF SocketState
  <1>3. Occupied \subseteq Socket /\ \A t \in Socket : HolderOf(t)' = HolderOf(t)
    BY <1>2 DEF Occupied
  <1>4. CASE Enter(s) /\ Free(HolderOf(s))
    <2>1. /\ slots' = slots \cup {HolderOf(s)} /\ Occupied' = Occupied \cup {s}
          /\ s \notin Occupied
      BY <1>1, <1>2, <1>4 DEF Enter
    <2>2. HolderOf(s) \notin slots /\ Cardinality(slots) < MaxSlots
      BY <1>4 DEF Free
    <2>3. /\ slots' = {HolderOf(t)' : t \in Occupied'}
          /\ \A t, u \in Occupied' : HolderOf(t)' = HolderOf(u)' => t = u
      BY <1>3, <2>1, <2>2 DEF Slots, SlotsAreSessions
    <2>4. IsFiniteSet(slots') /\ Cardinality(slots') = Cardinality(slots) + 1
      BY <2>1, <2>2, FS_AddElement DEF Slots
    <2>5. Cardinality(slots) \in Nat
      BY FS_CardinalityType DEF Slots
    <2>6. Cardinality(slots') <= MaxSlots
      BY <2>2, <2>4, <2>5, GatewayAssumption
    <2> QED
      BY <2>3, <2>4, <2>6 DEF Slots, SlotsAreSessions
  <1>5. CASE Enter(s) /\ ~Free(HolderOf(s))
    <2>1. slots' = slots /\ Occupied' = Occupied
      BY <1>1, <1>2, <1>5 DEF Enter
    <2> QED
      BY <1>3, <2>1, SlotsKept
  <1>6. CASE Check(s) \/ Decide(s) \/ Raise(s) \/ ProviderReady(s)
    <2>1. slots' = slots /\ sockets[s].pc \in {"checking", "deciding"}
      BY <1>6 DEF Check, Decide, Raise, ProviderReady, InSession
    <2>2. s \in Occupied /\ s \in Occupied'
      BY <1>1, <1>2, <1>6, <2>1
    <2>3. Occupied' = Occupied
      BY <1>2, <2>2
    <2> QED
      BY <1>3, <2>1, <2>3, SlotsKept
  <1>7. CASE Close(s)
    <2>1. /\ slots' = slots \ {HolderOf(s)} /\ Occupied' = Occupied \ {s}
          /\ s \in Occupied
      BY <1>1, <1>2, <1>7 DEF Close
    <2>2. /\ slots' = {HolderOf(t)' : t \in Occupied'}
          /\ \A t, u \in Occupied' : HolderOf(t)' = HolderOf(u)' => t = u
      BY <1>3, <2>1 DEF Slots, SlotsAreSessions
    <2>3. IsFiniteSet(slots') /\ Cardinality(slots') <= Cardinality(slots)
      BY <2>1, FS_Subset DEF Slots
    <2>4. Cardinality(slots) \in Nat /\ Cardinality(slots') \in Nat
      BY <2>3, FS_CardinalityType DEF Slots
    <2>5. Cardinality(slots') <= MaxSlots
      BY <2>3, <2>4, GatewayAssumption DEF Slots, SlotsAreSessions
    <2> QED
      BY <2>2, <2>3, <2>5 DEF Slots, SlotsAreSessions
  <1>8. CASE Record(s)
    <2>1. slots' = slots /\ Occupied' = Occupied
      BY <1>1, <1>2, <1>8 DEF Record
    <2> QED
      BY <1>3, <2>1, SlotsKept
  <1> QED
    BY <1>4, <1>5, <1>6, <1>7, <1>8 DEF Inner

LEMMA SlotsStep ==
    ASSUME GatewayTypeOK, Slots, [Next]_vars
    PROVE  Slots'
  <1>1. CASE OwnerStep \/ UNCHANGED vars
    <2>1. slots' = slots /\ sockets' = sockets
      BY <1>1, OwnerLeavesGateway DEF vars, gatewayVars
    <2> QED
      BY <2>1, SlotsKept DEF Occupied, HolderOf
  <1>2. ASSUME NEW s \in Socket, Inner(s) PROVE Slots'
    BY <1>2, SlotsInner
  <1>3. ASSUME NEW s \in Socket, NEW new \in SocketState, Moves(s, new), slots' = slots,
               sockets[s].pc \in {"closed", "ending"}, new.pc \in {"closed", "claimed"}
        PROVE  Slots'
    <2>1. Occupied' = Occupied /\ \A t \in Occupied : HolderOf(t)' = HolderOf(t)
      BY <1>3, OccupiedMoves DEF Occupied
    <2> QED
      BY <1>3, <2>1, SlotsKept
  <1>4. ASSUME NEW s \in Socket, NEW endpoint \in {"browser", "device"}, NEW g \in Grant,
               Consume(s, endpoint, g)
        PROVE  Slots'
    <2>1. NewSession(g).pc = "claimed" /\ Closed.pc = "closed"
      BY DEF NewSession, Closed
    <2>2. /\ sockets[s] = Closed /\ NewSession(g) \in SocketState
          /\ Moves(s, NewSession(g)) /\ slots' = slots
      BY <1>4, ConsumeMoves DEF SocketState
    <2> QED
      BY <1>3, <2>1, <2>2
  <1>5. ASSUME NEW s \in Socket, Finish(s) PROVE Slots'
    <2>1. Closed.pc = "closed" /\ Closed \in SocketState
      BY DEF Closed, SocketState
    <2>2. Moves(s, Closed) /\ slots' = slots /\ sockets[s].pc = "ending"
      BY <1>5, FinishMoves DEF Finish
    <2> QED
      BY <1>3, <2>1, <2>2
  <1>6. CASE Restart
    <2>1. slots' = {} /\ Occupied' = {}
      BY <1>6 DEF Restart, Occupied, Closed
    <2> QED
      BY <2>1, FS_EmptySet, GatewayAssumption DEF Slots, SlotsAreSessions
  <1> QED
    BY <1>1, <1>2, <1>4, <1>5, <1>6 DEF Next, SocketStep, Inner

\* Slots are taken and freed by the sessions they belong to: no session shares
\* one, frees another's or leaves its own behind, and there are never more than
\* MaxSlots; and no row stays open without a socket that will end it, not even
\* over a restart of the gateway.
THEOREM SessionsAccounted == Spec => []SessionsAreAccounted
  <1>1. Init => Slots
    BY FS_EmptySet, GatewayAssumption DEF Init, Slots, SlotsAreSessions, Occupied, Closed
  <1>2. Slots => SlotsAreSessions
    BY DEF Slots
  <1>3. SlotsAreSessions /\ OpenRowsAreServed => SessionsAreAccounted
    BY DEF SessionsAreAccounted
  <1> QED
    BY <1>1, <1>2, <1>3, SlotsStep, GatewayTypeCorrect, RowsAreServed, PTL DEF Spec

----------------------------------------------------------------------------
(* Keys that were tested.                                                  *)

\* A session runs with the key of its grant; its provider is ready only once it
\* accepted that key, and a check ends as accepted only then.
HeldKeys ==
    \A s \in Socket : Open(s) =>
        /\ sockets[s].key = sockets[s].held.revision
        /\ sockets[s].ready => <<sockets[s].held.connection, sockets[s].key>> \in accepted
        /\ sockets[s].code = "accepted" => sockets[s].ready

Keys == HeldKeys /\ ResultBelongsToKey /\ DeviceUsesTestedKey

\* Sessions that keep their grants and keys keep them tested: nothing is
\* forgotten.
LEMMA SessionKeys ==
    ASSUME GatewayTypeOK, HeldKeys, DeviceUsesTestedKey,
           NEW s \in Socket, NEW new \in SocketState, Moves(s, new), accepted \subseteq accepted',
           new # Closed =>
              /\ new.key = new.held.revision
              /\ new.ready => <<new.held.connection, new.key>> \in accepted'
              /\ new.code = "accepted" => new.ready
              /\ new.held.mode = "device" => <<new.held.connection, new.key>> \in accepted'
    PROVE  HeldKeys' /\ DeviceUsesTestedKey'
  <1>1. sockets'[s] = new /\ \A t \in Socket \ {s} : sockets'[t] = sockets[t]
    BY DEF Moves, GatewayTypeOK
  <1> QED
    BY <1>1 DEF HeldKeys, DeviceUsesTestedKey, Open

\* Only a check of the key that a connection has makes it count as tested.
LEMMA ResultsKept ==
    ASSUME GatewayTypeOK, Keys, OwnerStep
    PROVE  ResultBelongsToKey'
  <1>1. accepted' = accepted
    BY OwnerLeavesGateway DEF gatewayVars
  <1>2. ASSUME NEW k \in Connection, ReplaceKey(k) PROVE ResultBelongsToKey'
    <2>1. connections' = [connections EXCEPT ![k] = NewKey(k)] /\ NewKey(k).validation = "untested"
      BY <1>2 DEF ReplaceKey, NewKey
    <2> QED
      BY <1>1, <2>1 DEF Keys, ResultBelongsToKey, Validated, GatewayTypeOK
  <1>3. ASSUME NEW k \in Connection, DeleteConnection(k) PROVE ResultBelongsToKey'
    BY <1>1, <1>3 DEF DeleteConnection, Keys, ResultBelongsToKey, Validated, GatewayTypeOK
  <1>4. CASE connections' = connections
    BY <1>1, <1>4 DEF Keys, ResultBelongsToKey, Validated
  <1> QED
    BY <1>2, <1>3, <1>4 DEF OwnerStep, Activate, Deactivate, Withdraw, LoginAgain,
       IssueGrant, IssueDeviceGrant, NewGrant, GrantExpires, ownerVars

LEMMA KeysInner ==
    ASSUME GatewayTypeOK, Keys, NEW s \in Socket, Inner(s)
    PROVE  Keys'
  <1> DEFINE g == sockets[s].held
  <1>1. PICK new \in Session :
           /\ Moves(s, new) /\ Kept(s, new)
           /\ new.ready = sockets[s].ready \/ ProviderReady(s)
           /\ new.code = "accepted" => sockets[s].code = "accepted" \/ new.ready
           /\ sockets[s].ready => new.ready
    BY InnerMoves
  <1>2. /\ sockets[s] \in Session /\ Open(s)
        /\ g.connection \in Connection
    BY InnerMoves, StageOfSession, HeldGrant
  <1>3. accepted \subseteq accepted'
    BY DEF Inner, Enter, Check, Decide, Raise, Close, Record, ProviderReady
  <1>4. ProviderReady(s) => <<g.connection, sockets[s].key>> \in accepted'
    BY DEF ProviderReady
  <1>5. /\ sockets[s].key = g.revision
        /\ sockets[s].ready => <<g.connection, sockets[s].key>> \in accepted
        /\ sockets[s].code = "accepted" => sockets[s].ready
        /\ g.mode = "device" => <<g.connection, sockets[s].key>> \in accepted
    BY <1>2 DEF Keys, HeldKeys, DeviceUsesTestedKey
  <1>6. /\ new.key = new.held.revision
        /\ new.ready => <<new.held.connection, new.key>> \in accepted'
        /\ new.code = "accepted" => new.ready
        /\ new.held.mode = "device" => <<new.held.connection, new.key>> \in accepted'
    BY <1>1, <1>3, <1>4, <1>5 DEF Kept
  <1>7. HeldKeys' /\ DeviceUsesTestedKey'
    BY <1>1, <1>3, <1>6, SessionKeys DEF Keys, SocketState
  <1>8. ResultBelongsToKey'
    <2>1. CASE connections' = connections
      BY <1>3, <2>1 DEF Keys, ResultBelongsToKey, Validated
    <2>2. CASE Record(s) /\ SameKey(g)
      <3> DEFINE v == IF sockets[s].code = "accepted" THEN "accepted" ELSE "failed"
      <3>1. connections[g.connection] # None /\ connections[g.connection].revision = g.revision
        BY <2>2 DEF SameKey, CurrentKey
      <3>2. connections[g.connection] \in ConnectionRow
        BY <1>2, <3>1 DEF GatewayTypeOK
      <3> DEFINE row == [connections[g.connection] EXCEPT !.validation = v]
      <3>3. connections' = [connections EXCEPT ![g.connection] = row]
        BY <1>2, <2>2, <3>2 DEF Record, GatewayTypeOK
      <3>4. row.revision = g.revision /\ (row.validation = "accepted" => sockets[s].code = "accepted")
        BY <3>1, <3>2 DEF ConnectionRow
      <3> HIDE DEF row, v
      <3>5. row.validation = "accepted" => <<g.connection, row.revision>> \in accepted'
        BY <1>3, <1>5, <3>4
      <3> QED
        BY <1>2, <1>3, <3>3, <3>5 DEF Keys, ResultBelongsToKey, Validated, GatewayTypeOK
    <2> QED
      BY <2>1, <2>2 DEF Inner, Enter, Check, Decide, Raise, Close, Record, ProviderReady, ownerVars
  <1> QED
    BY <1>7, <1>8 DEF Keys

LEMMA KeysConsume ==
    ASSUME GatewayTypeOK, Keys, NEW s \in Socket, NEW endpoint \in {"browser", "device"},
           NEW g \in Grant, Consume(s, endpoint, g)
    PROVE  Keys'
  <1> DEFINE k == grants[g].connection
             new == NewSession(g)
  <1>1. /\ new \in Session /\ Moves(s, new) /\ grants[g] \in GrantRow /\ Authorized(grants[g])
        /\ UNCHANGED <<connections, accepted>>
    BY ConsumeMoves
  <1>2. k \in Connection /\ connections[k] # None /\ connections[k].revision = grants[g].revision
    BY <1>1 DEF GrantRow, Authorized, CurrentKey
  <1>3. /\ new.held = grants[g] /\ new.key = connections[k].revision
        /\ ~new.ready /\ new.code # "accepted"
    BY DEF NewSession
  <1>4. grants[g].mode = "device" => <<k, connections[k].revision>> \in accepted
    BY <1>1, <1>2 DEF Authorized, DeviceValid, Keys, ResultBelongsToKey
  <1> HIDE DEF new
  <1>5. HeldKeys' /\ DeviceUsesTestedKey'
    BY <1>1, <1>2, <1>3, <1>4, SessionKeys DEF Keys, SocketState
  <1>6. ResultBelongsToKey'
    BY <1>1 DEF Keys, ResultBelongsToKey, Validated
  <1> QED
    BY <1>5, <1>6 DEF Keys

LEMMA KeysStep ==
    ASSUME GatewayTypeOK, Keys, [Next]_vars
    PROVE  Keys'
  <1>1. CASE OwnerStep
    <2>1. sockets' = sockets /\ accepted' = accepted
      BY <1>1, OwnerLeavesGateway DEF gatewayVars
    <2>2. HeldKeys' /\ DeviceUsesTestedKey'
      BY <2>1 DEF Keys, HeldKeys, DeviceUsesTestedKey, Open
    <2> QED
      BY <1>1, <2>2, ResultsKept DEF Keys
  <1>2. ASSUME NEW s \in Socket, Inner(s) PROVE Keys'
    BY <1>2, KeysInner
  <1>3. ASSUME NEW s \in Socket, NEW endpoint \in {"browser", "device"}, NEW g \in Grant,
               Consume(s, endpoint, g)
        PROVE  Keys'
    BY <1>3, KeysConsume
  <1>4. ASSUME NEW s \in Socket, Finish(s) PROVE Keys'
    <2>1. Moves(s, Closed) /\ Closed \in SocketState /\ UNCHANGED <<connections, accepted>>
      BY <1>4, FinishMoves DEF SocketState, ownerVars
    <2>2. HeldKeys' /\ DeviceUsesTestedKey'
      BY <2>1, SessionKeys DEF Keys
    <2> QED
      BY <2>1, <2>2 DEF Keys, ResultBelongsToKey, Validated
  <1>5. CASE Restart
    BY <1>5 DEF Restart, Keys, HeldKeys, DeviceUsesTestedKey, ResultBelongsToKey, Validated, Open,
       ownerVars
  <1>6. CASE UNCHANGED vars
    BY <1>6 DEF vars, ownerVars, gatewayVars, Keys, HeldKeys, DeviceUsesTestedKey,
       ResultBelongsToKey, Validated, Open
  <1> QED
    BY <1>1, <1>2, <1>3, <1>4, <1>5, <1>6 DEF Next, SocketStep, Inner

LEMMA KeysInit == Init => Keys
  BY DEF Init, Keys, HeldKeys, DeviceUsesTestedKey, ResultBelongsToKey, Validated, Open

LEMMA KeysAlways == Spec => []Keys
  BY KeysInit, KeysStep, GatewayTypeCorrect, PTL DEF Spec

\* A connection counts as tested only if its provider accepted the key it has,
\* however checks, key replacements and restarts fall together, and a Companion
\* session runs with such a key.
THEOREM KeysTested == Spec => []KeysAreTested
  <1>1. Keys => KeysAreTested
    BY DEF Keys, KeysAreTested
  <1> QED
    BY <1>1, KeysAlways, PTL

=============================================================================
