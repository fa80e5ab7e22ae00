------------------------ MODULE VisualConsole_proofs ------------------------
(***************************************************************************)
(* Theorems about VisualConsole, for any number of sessions and inputs: an *)
(* input executes at most once and in its place, nothing queued before a   *)
(* gap executes, and the page never shows a screen from before the changes *)
(* that a revision it has shown announces.                                 *)
(***************************************************************************)
EXTENDS VisualConsole, TLAPS, WellFoundedInduction

SessionOf(i) == inputs[i].session

\* Inputs, requests and the page refer to sessions that exist.
Referenced ==
    /\ \A i \in DOMAIN inputs : SessionOf(i) \in DOMAIN sessions
    /\ \A m \in outbox : m.session \in DOMAIN sessions
    /\ browser.session # None => browser.session \in DOMAIN sessions

\* Within a session, inputs are queued in the order the owner gave them.
Numbered ==
    \A i, k \in DOMAIN inputs :
        i < k /\ SessionOf(i) = SessionOf(k) => inputs[i].number < inputs[k].number

\* What waited through a gap is of a session the next poll drops it with.
Gapped ==
    \A i \in DOMAIN inputs :
        Pending(i) /\ inputs[i].waited => sessions[SessionOf(i)] \in {"lapsed", "expired", "ended"}

Sent(i) == inputs[i].state \in {"dispatched", "acknowledged"}

\* An input is dispatched after all those before it, if it did not wait.
SentInOrder ==
    \A i \in DOMAIN inputs :
        Sent(i) => /\ ~inputs[i].waited
                   /\ \A k \in DOMAIN inputs : k < i => ~Pending(k)

Queue == Referenced /\ Numbered /\ Gapped /\ SentInOrder

IsApplied(i) == \E j \in DOMAIN applied : applied[j] = i

\* What was applied had been dispatched, in this order.
AppliedWasSent ==
    /\ \A j \in DOMAIN applied :
          /\ applied[j] \in DOMAIN inputs
          /\ Sent(applied[j])
          /\ applied[j] >= j
    /\ \A j, k \in DOMAIN applied : j < k => applied[j] < applied[k]

\* The answer in hand brings an input later than all those applied.
AnswerIsNext ==
    poll.pc \in {"answered", "loaded"} /\ poll.input # None =>
        /\ poll.input \in DOMAIN inputs
        /\ Sent(poll.input)
        /\ \A j \in DOMAIN applied : applied[j] < poll.input

Acknowledges(ack) == ack # None => IsApplied(ack)

\* The polls the platform may yet serve, and the one being read.
Servable == late \cup (IF poll.pc = "sent" THEN {poll.request} ELSE {})
Requests == late \cup (IF poll.pc \in {"answered", "loaded"} THEN {} ELSE {poll.request})

\* What the board acknowledges, now or in a poll on its way, was applied; and so
\* was what the platform tells the owner.
AcksAreTrue ==
    /\ Acknowledges(local.ack)
    /\ \A request \in Requests : Acknowledges(request.ack)
    /\ Acknowledges(screen.last)

Execution == AppliedWasSent /\ AnswerIsNext /\ AcksAreTrue /\ ResultIsTrue

\* The screen is not from before the changes its revision announces.
Fits(revision, version) == revision <= version + 1

\* The board counts a change in its revision, at most once and only after it.
Bounded ==
    /\ local.screen.version <= MaxChanges + Len(applied)
    /\ Fits(local.screen.revision, local.screen.version)
    /\ local.writing # "nothing" => local.screen.revision <= local.screen.version

\* The poll's page is loaded after its revision, from a screen no older.
ScreensFit ==
    /\ \A request \in Servable : Fits(request.screen.revision, request.screen.version)
    /\ poll.pc = "revision" => Fits(poll.request.screen.revision, local.screen.version)
    /\ poll.pc = "page" => Fits(poll.request.screen.revision, poll.request.screen.version)
    /\ Fits(screen.seen.revision, screen.seen.version)
    /\ Fits(browser.revision, browser.version)

\* The poll loads a field of the screen.
Loads == LoadRevision \/ LoadPage \/ SendPoll

Inv == ConsoleTypeOK /\ Queue /\ Execution /\ Bounded /\ ScreensFit

----------------------------------------------------------------------------
(* Sequences and types.                                                    *)

LEMMA LeastNumber ==
    ASSUME NEW S \in SUBSET Nat, S # {}
    PROVE  \E m \in S : \A n \in S : m <= n
  <1>1. PICK m \in S : \A n \in S : ~(<<n, m>> \in OpToRel(<, Nat))
    BY NatLessThanWellFounded, WFMin
  <1>2. \A n \in S : ~(n < m)
    BY <1>1 DEF OpToRel
  <1> QED
    BY <1>2

LEMMA SequenceOf ==
    ASSUME NEW S, NEW n \in Nat, NEW f, f = [i \in 1..n |-> f[i]], \A i \in 1..n : f[i] \in S
    PROVE  f \in Seq(S) /\ Len(f) = n /\ DOMAIN f = 1..n
  <1>1. f \in [1..n -> S]
    BY Zenon
  <1> QED
    BY <1>1

LEMMA AppendedSequence ==
    ASSUME NEW S, NEW q \in Seq(S), NEW x \in S
    PROVE  /\ Append(q, x) \in Seq(S)
           /\ Len(Append(q, x)) = Len(q) + 1
           /\ DOMAIN Append(q, x) = 1..Len(q) + 1
           /\ \A i \in 1..Len(q) : Append(q, x)[i] = q[i]
           /\ Append(q, x)[Len(q) + 1] = x
  OBVIOUS

LEMMA Domains ==
    ASSUME ConsoleTypeOK
    PROVE  /\ DOMAIN inputs = 1..Len(inputs) /\ Len(inputs) \in 0..MaxInputs
           /\ DOMAIN sessions = 1..Len(sessions) /\ Len(sessions) \in 0..MaxSessions
           /\ DOMAIN applied = 1..Len(applied) /\ Len(applied) \in Nat
           /\ \A i \in DOMAIN inputs : inputs[i] \in Input /\ i \in InputNo /\ i \in Nat
           /\ \A n \in DOMAIN sessions : sessions[n] \in Session /\ n \in SessionNo
           /\ \A j \in DOMAIN applied : applied[j] \in InputNo /\ applied[j] \in Nat /\ j \in Nat
           /\ MaxInputs \in Nat /\ MaxSessions \in Nat
           /\ \A i \in DOMAIN inputs : i # None
  <1>1. MaxInputs \in Nat /\ MaxSessions \in Nat /\ None \notin Nat
    BY ConsoleAssumption
  <1>2. /\ inputs \in Seq(Input) /\ Len(inputs) <= MaxInputs
        /\ sessions \in Seq(Session) /\ Len(sessions) <= MaxSessions
        /\ applied \in Seq(InputNo)
    BY DEF ConsoleTypeOK
  <1>3. /\ DOMAIN inputs = 1..Len(inputs) /\ Len(inputs) \in 0..MaxInputs
        /\ \A i \in DOMAIN inputs : inputs[i] \in Input /\ i \in 1..MaxInputs /\ i \in Nat
    BY <1>1, <1>2
  <1>4. /\ DOMAIN sessions = 1..Len(sessions) /\ Len(sessions) \in 0..MaxSessions
        /\ \A n \in DOMAIN sessions : sessions[n] \in Session /\ n \in 1..MaxSessions
    BY <1>1, <1>2
  <1>5. /\ DOMAIN applied = 1..Len(applied) /\ Len(applied) \in Nat
        /\ \A j \in DOMAIN applied : applied[j] \in InputNo /\ j \in Nat
    BY <1>2
  <1>6. \A i \in InputNo : i \in Nat
    BY <1>1 DEF InputNo
  <1> QED
    BY <1>1, <1>3, <1>4, <1>5, <1>6 DEF InputNo, SessionNo

LEMMA InputType ==
    ASSUME NEW r \in Input
    PROVE  /\ r.session \in SessionNo
           /\ r.number \in InputNo
           /\ r.waited \in BOOLEAN
           /\ r.state \in {"pending", "stale", "dispatched", "acknowledged", "expired"}
           /\ \A s \in {"pending", "stale", "dispatched", "acknowledged", "expired"} :
                 /\ [r EXCEPT !.state = s] \in Input
                 /\ [r EXCEPT !.state = s].session = r.session
                 /\ [r EXCEPT !.state = s].number = r.number
                 /\ [r EXCEPT !.state = s].waited = r.waited
                 /\ [r EXCEPT !.state = s].state = s
           /\ /\ [r EXCEPT !.state = "expired", !.waited = FALSE] \in Input
              /\ [r EXCEPT !.state = "expired", !.waited = FALSE].session = r.session
              /\ [r EXCEPT !.state = "expired", !.waited = FALSE].number = r.number
              /\ [r EXCEPT !.state = "expired", !.waited = FALSE].state = "expired"
           /\ /\ [r EXCEPT !.waited = TRUE] \in Input
              /\ [r EXCEPT !.waited = TRUE].session = r.session
              /\ [r EXCEPT !.waited = TRUE].number = r.number
              /\ [r EXCEPT !.waited = TRUE].state = r.state
  BY DEF Input

----------------------------------------------------------------------------
(* How a step changes the inputs.                                          *)

IsPending(r) == r.state \in {"pending", "stale"}
IsSent(r)    == r.state \in {"dispatched", "acknowledged"}

\* How one input may change; sent says that it is dispatched.
Change(old, new, sent) ==
    \/ new = old
    \/ IsPending(old) /\ new = [old EXCEPT !.state = "expired", !.waited = FALSE]
    \/ IsPending(old) /\ new = [old EXCEPT !.state = "stale"]
    \/ IsPending(old) /\ new = [old EXCEPT !.waited = TRUE]
    \/ IsPending(old) /\ ~old.waited /\ sent /\ new = [old EXCEPT !.state = "dispatched"]
    \/ old.state = "dispatched" /\ new = [old EXCEPT !.state = "acknowledged"]

LEMMA Changed1 ==
    ASSUME NEW old \in Input, NEW new, NEW sent \in BOOLEAN, Change(old, new, sent)
    PROVE  /\ new \in Input
           /\ new.session = old.session
           /\ new.number = old.number
           /\ IsPending(new) => IsPending(old)
           /\ IsSent(old) => IsSent(new)
           /\ IsSent(old) => new.waited = old.waited
           /\ IsSent(new) => \/ IsSent(old)
                             \/ sent /\ ~new.waited /\ ~old.waited
  <1>1. CASE new = old
    BY <1>1 DEF IsSent
  <1>2. CASE IsPending(old) /\ new = [old EXCEPT !.state = "expired", !.waited = FALSE]
    BY <1>2, InputType DEF IsPending, IsSent
  <1>3. CASE IsPending(old) /\ new = [old EXCEPT !.state = "stale"]
    BY <1>3, InputType DEF IsPending, IsSent
  <1>4. CASE IsPending(old) /\ new = [old EXCEPT !.waited = TRUE]
    BY <1>4, InputType DEF IsPending, IsSent
  <1>5. CASE IsPending(old) /\ ~old.waited /\ sent /\ new = [old EXCEPT !.state = "dispatched"]
    BY <1>5, InputType DEF IsPending, IsSent
  <1>6. CASE old.state = "dispatched" /\ new = [old EXCEPT !.state = "acknowledged"]
    BY <1>6, InputType DEF IsPending, IsSent
  <1> QED
    BY <1>1, <1>2, <1>3, <1>4, <1>5, <1>6 DEF Change

\* Every input stays at its place, and one that is dispatched leaves none pending
\* before it.
Changes ==
    /\ DOMAIN inputs' = DOMAIN inputs
    /\ inputs' \in Seq(Input)
    /\ \E sent \in DOMAIN inputs \cup {None} :
          /\ \A i \in DOMAIN inputs : Change(inputs[i], inputs'[i], i = sent)
          /\ sent # None => \A k \in DOMAIN inputs : k < sent => ~IsPending(inputs'[k])

LEMMA ChangesOf ==
    ASSUME ConsoleTypeOK, NEW sent \in DOMAIN inputs \cup {None},
           inputs' = [i \in DOMAIN inputs |-> inputs'[i]],
           \A i \in DOMAIN inputs : Change(inputs[i], inputs'[i], i = sent),
           sent # None => \A k \in DOMAIN inputs : k < sent => ~IsPending(inputs'[k])
    PROVE  Changes
  <1>1. \A i \in DOMAIN inputs : inputs'[i] \in Input
    BY Domains, Changed1
  <1>2. inputs' \in Seq(Input) /\ DOMAIN inputs' = DOMAIN inputs
    BY <1>1, Domains, SequenceOf
  <1> QED
    BY <1>2 DEF Changes

LEMMA NothingChanges ==
    ASSUME ConsoleTypeOK, UNCHANGED inputs
    PROVE  Changes
  BY DEF Changes, Change, ConsoleTypeOK

LEMMA ExpiringChanges ==
    ASSUME ConsoleTypeOK, NEW set, inputs' = Expiring(set)
    PROVE  Changes
  <1>1. inputs' = [i \in DOMAIN inputs |-> inputs'[i]]
    BY DEF Expiring
  <1>2. ASSUME NEW i \in DOMAIN inputs
        PROVE  Change(inputs[i], inputs'[i], i = None)
    <2>1. CASE i \in set /\ Pending(i)
      BY <2>1 DEF Expiring, Pending, IsPending, Change
    <2>2. CASE ~(i \in set /\ Pending(i))
      BY <2>2 DEF Expiring, Change
    <2> QED
      BY <2>1, <2>2
  <1> QED
    BY <1>1, <1>2, ChangesOf

LEMMA StaleChanges ==
    ASSUME ConsoleTypeOK, NEW n \in DOMAIN inputs, inputs[n].state = "pending",
           inputs' = [inputs EXCEPT ![n].state = "stale"]
    PROVE  Changes
  <1>1. inputs' = [i \in DOMAIN inputs |-> inputs'[i]]
    OBVIOUS
  <1>2. ASSUME NEW i \in DOMAIN inputs
        PROVE  Change(inputs[i], inputs'[i], i = None)
    <2>1. CASE i = n
      BY <2>1 DEF IsPending, Change
    <2>2. CASE i # n
      BY <2>2 DEF Change
    <2> QED
      BY <2>1, <2>2
  <1> QED
    BY <1>1, <1>2, ChangesOf

LEMMA WaitedChanges ==
    ASSUME ConsoleTypeOK, NEW n,
           inputs' = [i \in DOMAIN inputs |->
                         IF inputs[i].session = n /\ Pending(i)
                         THEN [inputs[i] EXCEPT !.waited = TRUE] ELSE inputs[i]]
    PROVE  Changes
  <1>1. inputs' = [i \in DOMAIN inputs |-> inputs'[i]]
    OBVIOUS
  <1>2. ASSUME NEW i \in DOMAIN inputs
        PROVE  Change(inputs[i], inputs'[i], i = None)
    BY DEF Pending, IsPending, Change
  <1> QED
    BY <1>1, <1>2, ChangesOf

LEMMA NextOf ==
    ASSUME ConsoleTypeOK, NEW request, NextInput(request) # None
    PROVE  /\ NextInput(request) \in Dispatchable(request)
           /\ \A k \in Dispatchable(request) : NextInput(request) <= k
  <1> DEFINE able == Dispatchable(request)
  <1>1. able # {}
    BY DEF NextInput
  <1>2. able \subseteq DOMAIN inputs
    BY DEF Dispatchable
  <1>3. able \in SUBSET Nat
    BY <1>2, Domains
  <1>4. \E m \in able : \A n \in able : m <= n
    <2> HIDE DEF able
    <2> QED
      BY <1>1, <1>3, LeastNumber
  <1>5. NextInput(request) = CHOOSE i \in able : \A k \in able : i <= k
    BY <1>1 DEF NextInput
  <1> HIDE DEF able
  <1>6. NextInput(request) \in able /\ \A k \in able : NextInput(request) <= k
    BY <1>4, <1>5
  <1> QED
    BY <1>6 DEF able

LEMMA DispatchableIsPending ==
    ASSUME ConsoleTypeOK, Queue, NEW request, NEW i \in Dispatchable(request)
    PROVE  /\ i \in DOMAIN inputs /\ i # None
           /\ Pending(i) /\ ~inputs[i].waited
           /\ Live(SessionOf(i)) /\ sessions[SessionOf(i)] # "lapsed"
  <1>1. i \in DOMAIN inputs /\ i \notin Outdated /\ Pending(i)
    BY DEF Dispatchable
  <1>2. Live(SessionOf(i)) /\ sessions[SessionOf(i)] # "lapsed"
    BY <1>1 DEF Outdated, SessionOf
  <1>3. ~inputs[i].waited
    BY <1>1, <1>2 DEF Queue, Gapped, Live
  <1> QED
    BY <1>1, <1>2, <1>3, Domains

\* What serving a poll leaves pending.
LEMMA LeftPending ==
    ASSUME ConsoleTypeOK, Queue, NEW request, Served(request),
           NEW i \in DOMAIN inputs, IsPending(inputs'[i])
    PROVE  /\ i # NextInput(request)
           /\ inputs'[i] = inputs[i] /\ Pending(i)
           /\ i \notin Outdated
  <1>1. i # NextInput(request)
    BY DEF Served, Dispatched, IsPending
  <1>2. ~(i = request.ack /\ Confirms(i))
    BY <1>1 DEF Served, IsPending
  <1>3. inputs'[i] = Expiring(Outdated)[i]
    BY <1>1, <1>2 DEF Served
  <1> QED
    BY <1>1, <1>3 DEF Expiring, IsPending, Pending

LEMMA ServedChanges ==
    ASSUME ConsoleTypeOK, Queue, NEW request, Served(request)
    PROVE  Changes
  <1> DEFINE n == NextInput(request)
  <1>1. inputs' = [i \in DOMAIN inputs |-> inputs'[i]]
    BY DEF Served
  <1>2. n # None => n \in Dispatchable(request) /\ \A k \in Dispatchable(request) : n <= k
    BY NextOf
  <1>3. n # None => n \in DOMAIN inputs /\ Pending(n) /\ ~inputs[n].waited
    BY <1>2, DispatchableIsPending
  <1>4. ASSUME NEW i \in DOMAIN inputs
        PROVE  Change(inputs[i], inputs'[i], i = n)
    <2>1. CASE i = n
      BY <2>1, <1>3, Domains DEF Served, Dispatched, Change, Pending, IsPending
    <2>2. CASE i # n /\ i = request.ack /\ Confirms(i)
      BY <2>2 DEF Served, Confirms, Change
    <2>3. CASE i # n /\ ~(i = request.ack /\ Confirms(i))
      BY <2>3 DEF Served, Expiring, Change, Pending, IsPending
    <2> QED
      BY <2>1, <2>2, <2>3
  <1>5. ASSUME n # None, NEW k \in DOMAIN inputs, k < n, IsPending(inputs'[k])
        PROVE  FALSE
    <2>1. k \notin Outdated /\ Pending(k)
      BY <1>5, LeftPending
    <2>2. Current # {} /\ request.screen.allowed
      BY <1>5, <1>2 DEF Dispatchable
    <2>3. k \in Dispatchable(request)
      BY <2>1, <2>2 DEF Dispatchable
    <2>4. k \in Nat /\ n \in Nat
      BY <1>3, <1>5, Domains
    <2> QED
      BY <2>3, <2>4, <1>2, <1>5
  <1>6. n \in DOMAIN inputs \cup {None}
    BY <1>3
  <1> HIDE DEF n
  <1> QED
    BY <1>1, <1>4, <1>5, <1>6, ChangesOf

\* A new input comes last, is of a session the board polls for and is numbered
\* after those of its session.
Appends ==
    \E r \in Input :
        /\ inputs' = Append(inputs, r)
        /\ Len(inputs) < MaxInputs
        /\ r.state = "pending" /\ ~r.waited
        /\ r.session \in DOMAIN sessions
        /\ \A i \in DOMAIN inputs : SessionOf(i) = r.session => inputs[i].number < r.number

LEMMA CommandAppends ==
    ASSUME ConsoleTypeOK, Queue, Command
    PROVE  Changes \/ Appends
  <1>1. PICK m \in outbox :
          inputs' = IF Accepted(m) /\ Len(inputs) < MaxInputs
                    THEN Append(inputs, [session |-> m.session, number |-> m.number,
                                         waited |-> FALSE, state |-> "pending"])
                    ELSE inputs
    BY DEF Command
  <1>2. CASE ~(Accepted(m) /\ Len(inputs) < MaxInputs)
    BY <1>1, <1>2, NothingChanges
  <1>3. CASE Accepted(m) /\ Len(inputs) < MaxInputs
    <2> DEFINE r == [session |-> m.session, number |-> m.number,
                     waited |-> FALSE, state |-> "pending"]
    <2>1. m.session \in SessionNo /\ m.number \in InputNo
      BY DEF ConsoleTypeOK
    <2>2. r \in Input
      BY <2>1 DEF Input
    <2>3. m.session \in DOMAIN sessions
      BY DEF Queue, Referenced
    <2>4. \A i \in DOMAIN inputs : SessionOf(i) = r.session => inputs[i].number < r.number
      BY <1>3 DEF Accepted, InSequence, InputsOf, SessionOf
    <2> QED
      BY <1>1, <1>3, <2>2, <2>3, <2>4 DEF Appends
  <1> QED
    BY <1>2, <1>3

InputsAfter == Changes \/ Appends

LEMMA InputsStep ==
    ASSUME Inv, [Next]_vars
    PROVE  InputsAfter
  <1> USE DEF InputsAfter
  <1> ConsoleTypeOK /\ Queue
    BY DEF Inv
  <1>1. ASSUME UNCHANGED inputs PROVE InputsAfter
    BY <1>1, NothingChanges
  <1>2. ASSUME NEW request, Served(request) PROVE InputsAfter
    BY <1>2, ServedChanges
  <1>3. CASE StartConsole
    BY <1>3, ExpiringChanges DEF StartConsole
  <1>4. CASE StopConsole
    BY <1>4, ExpiringChanges DEF StopConsole
  <1>5. CASE Command
    BY <1>5, CommandAppends
  <1>6. CASE TimePasses
    BY <1>6, <1>1, StaleChanges, WaitedChanges DEF TimePasses
  <1>7. CASE ServePoll
    BY <1>7, <1>1, <1>2 DEF ServePoll, platformVars
  <1>8. CASE PollLost
    BY <1>8, <1>1, <1>2 DEF PollLost, platformVars
  <1>9. CASE LatePoll
    BY <1>9, <1>1, <1>2 DEF LatePoll, platformVars
  <1>10. CASE Revoke \/ SendInput \/ PollState
    BY <1>10, <1>1 DEF Revoke, SendInput, PollState, platformVars
  <1>11. CASE Loads \/ ReadReply \/ ApplyReply \/ Heartbeat \/ LocalStep \/ PowerLoss
    BY <1>11, <1>1 DEF Loads, LoadRevision, LoadPage, SendPoll, ReadReply, ApplyReply, Heartbeat,
                       LocalStep, LocalStop, DisplayStep, Deactivate, CountRevision,
                       LocalNavigation, PowerLoss, platformVars
  <1>12. CASE UNCHANGED vars
    BY <1>12, <1>1 DEF vars, platformVars
  <1> QED
    BY <1>3, <1>4, <1>5, <1>6, <1>7, <1>8, <1>9, <1>10, <1>11, <1>12
       DEF Next, OwnerStep, BrowserStep, WorkerStep, Polls, Loads

\* What every step leaves of an input that exists.
LEMMA InputKept ==
    ASSUME ConsoleTypeOK, InputsAfter, NEW i \in DOMAIN inputs
    PROVE  /\ i \in DOMAIN inputs'
           /\ inputs'[i] \in Input
           /\ inputs'[i].session = inputs[i].session
           /\ inputs'[i].number = inputs[i].number
           /\ IsPending(inputs'[i]) => IsPending(inputs[i])
           /\ IsSent(inputs[i]) => IsSent(inputs'[i])
           /\ IsSent(inputs[i]) => inputs'[i].waited = inputs[i].waited
  <1>1. inputs[i] \in Input
    BY Domains
  <1>2. CASE Changes
    <2>1. PICK sent : Change(inputs[i], inputs'[i], i = sent)
      BY <1>2 DEF Changes
    <2> QED
      BY <1>1, <1>2, <2>1, Changed1 DEF Changes
  <1>3. CASE Appends
    <2>1. PICK r \in Input : inputs' = Append(inputs, r)
      BY <1>3 DEF Appends
    <2>2. inputs \in Seq(Input)
      BY DEF ConsoleTypeOK
    <2>3. DOMAIN inputs = 1..Len(inputs) /\ Len(inputs) \in Nat
      BY <2>2
    <2>4. inputs'[i] = inputs[i] /\ i \in DOMAIN inputs'
      BY <2>1, <2>2, <2>3, AppendedSequence
    <2> QED
      BY <2>4, <1>1
  <1> QED
    BY <1>2, <1>3 DEF InputsAfter

\* An input that did not exist is pending and comes last.
LEMMA InputAdded ==
    ASSUME ConsoleTypeOK, InputsAfter, NEW i \in DOMAIN inputs', i \notin DOMAIN inputs
    PROVE  /\ Appends
           /\ i = Len(inputs) + 1
           /\ inputs'[i] \in Input
           /\ inputs'[i].state = "pending" /\ ~inputs'[i].waited
           /\ inputs'[i].session \in DOMAIN sessions
           /\ \A k \in DOMAIN inputs : SessionOf(k) = inputs'[i].session
                                          => inputs[k].number < inputs'[i].number
  <1>1. Appends
    BY DEF InputsAfter, Changes
  <1>2. PICK r \in Input :
           /\ inputs' = Append(inputs, r)
           /\ r.state = "pending" /\ ~r.waited
           /\ r.session \in DOMAIN sessions
           /\ \A k \in DOMAIN inputs : SessionOf(k) = r.session => inputs[k].number < r.number
    BY <1>1 DEF Appends
  <1>3. inputs \in Seq(Input)
    BY DEF ConsoleTypeOK
  <1>4. DOMAIN inputs' = 1..Len(inputs) + 1 /\ inputs'[Len(inputs) + 1] = r
    BY <1>2, <1>3, AppendedSequence
  <1>5. DOMAIN inputs = 1..Len(inputs) /\ Len(inputs) \in Nat
    BY <1>3
  <1>6. i = Len(inputs) + 1
    BY <1>4, <1>5
  <1> QED
    BY <1>1, <1>2, <1>4, <1>6

LEMMA InputsTyped ==
    ASSUME ConsoleTypeOK, InputsAfter
    PROVE  inputs' \in Seq(Input) /\ Len(inputs') <= MaxInputs /\ DOMAIN inputs \subseteq DOMAIN inputs'
  <1>1. inputs \in Seq(Input) /\ Len(inputs) <= MaxInputs /\ MaxInputs \in Nat /\ Len(inputs) \in Nat
    BY ConsoleAssumption DEF ConsoleTypeOK
  <1>2. CASE Changes
    <2>1. inputs' \in Seq(Input) /\ DOMAIN inputs' = DOMAIN inputs
      BY <1>2 DEF Changes
    <2>2. Len(inputs') = Len(inputs)
      BY <1>1, <2>1
    <2> QED
      BY <1>1, <2>1, <2>2
  <1>3. CASE Appends
    <2>1. PICK r \in Input : inputs' = Append(inputs, r) /\ Len(inputs) < MaxInputs
      BY <1>3 DEF Appends
    <2>2. inputs' \in Seq(Input) /\ Len(inputs') = Len(inputs) + 1
      BY <1>1, <2>1, AppendedSequence
    <2> QED
      BY <1>1, <2>1, <2>2, InputKept DEF InputsAfter
  <1> QED
    BY <1>2, <1>3 DEF InputsAfter

----------------------------------------------------------------------------
(* The queue.                                                              *)

\* Sessions are never removed.
LEMMA SessionsStep ==
    ASSUME ConsoleTypeOK, Referenced, [Next]_vars
    PROVE  /\ sessions' \in Seq(Session) /\ Len(sessions') <= MaxSessions
           /\ DOMAIN sessions \subseteq DOMAIN sessions'
  <1> DEFINE Goal == /\ sessions' \in Seq(Session) /\ Len(sessions') <= MaxSessions
                     /\ DOMAIN sessions \subseteq DOMAIN sessions'
  <1>1. /\ sessions \in Seq(Session) /\ Len(sessions) <= MaxSessions
        /\ Len(sessions) \in Nat /\ DOMAIN sessions = 1..Len(sessions) /\ MaxSessions \in Nat
    BY ConsoleAssumption DEF ConsoleTypeOK
  <1>2. ASSUME UNCHANGED sessions PROVE Goal
    BY <1>1, <1>2
  <1>3. ASSUME sessions' = [n \in DOMAIN sessions |-> sessions'[n]],
               \A n \in DOMAIN sessions : sessions'[n] \in Session
        PROVE  Goal
    <2>1. sessions' \in Seq(Session) /\ Len(sessions') = Len(sessions) /\ DOMAIN sessions' = DOMAIN sessions
      BY <1>1, <1>3, SequenceOf
    <2> QED
      BY <1>1, <2>1
  <1>4. ASSUME NEW request, Served(request) PROVE Goal
    <2>1. \A n \in DOMAIN sessions : sessions'[n] \in Session
      BY <1>4 DEF Served, Session
    <2> QED
      BY <1>3, <1>4, <2>1 DEF Served
  <1>5. CASE StartConsole
    <2> DEFINE q == [n \in DOMAIN sessions |-> "ended"]
    <2>1. q \in Seq(Session) /\ Len(q) = Len(sessions) /\ DOMAIN q = 1..Len(sessions)
      <3>1. q = [n \in 1..Len(sessions) |-> q[n]] /\ \A n \in 1..Len(sessions) : q[n] \in Session
        BY <1>1 DEF Session
      <3> HIDE DEF q
      <3> QED
        BY <1>1, <3>1, SequenceOf
    <2>2. sessions' = Append(q, "new") /\ Len(sessions) < MaxSessions /\ "new" \in Session
      BY <1>5 DEF StartConsole, Session
    <2> HIDE DEF q
    <2>3. sessions' \in Seq(Session) /\ Len(sessions') = Len(sessions) + 1
          /\ DOMAIN sessions' = 1..Len(sessions) + 1
      BY <2>1, <2>2, AppendedSequence
    <2> QED
      BY <1>1, <2>2, <2>3
  <1>6. CASE StopConsole
    <2>1. \A n \in DOMAIN sessions : sessions'[n] \in Session
      BY <1>1, <1>6 DEF StopConsole, Session
    <2> QED
      BY <1>3, <1>6, <2>1 DEF StopConsole
  <1>7. CASE TimePasses
    <2>1. \/ UNCHANGED sessions
          \/ \E n \in DOMAIN sessions : sessions' = [sessions EXCEPT ![n] = "expired"]
          \/ \E n \in DOMAIN sessions : sessions' = [sessions EXCEPT ![n] = "lapsed"]
      BY <1>7 DEF TimePasses
    <2>2. sessions' = [n \in DOMAIN sessions |-> sessions'[n]] \/ UNCHANGED sessions
      BY <2>1
    <2>3. \A n \in DOMAIN sessions : sessions'[n] \in Session
      BY <1>1, <2>1 DEF Session
    <2> QED
      BY <1>2, <1>3, <2>2, <2>3
  <1>8. CASE ServePoll
    BY <1>8, <1>2, <1>4 DEF ServePoll, platformVars
  <1>9. CASE PollLost
    BY <1>9, <1>2, <1>4 DEF PollLost, platformVars
  <1>10. CASE LatePoll
    BY <1>10, <1>2, <1>4 DEF LatePoll, platformVars
  <1>11. CASE Revoke \/ SendInput \/ PollState \/ Command
    BY <1>11, <1>2 DEF Revoke, SendInput, PollState, Command, platformVars
  <1>12. CASE Loads \/ ReadReply \/ ApplyReply \/ Heartbeat \/ LocalStep \/ PowerLoss
    BY <1>12, <1>2 DEF Loads, LoadRevision, LoadPage, SendPoll, ReadReply, ApplyReply, Heartbeat,
                       LocalStep, LocalStop, DisplayStep, Deactivate, CountRevision,
                       LocalNavigation, PowerLoss, platformVars
  <1>13. CASE UNCHANGED vars
    BY <1>13, <1>2 DEF vars, platformVars
  <1> QED
    BY <1>5, <1>6, <1>7, <1>8, <1>9, <1>10, <1>11, <1>12, <1>13
       DEF Next, OwnerStep, BrowserStep, WorkerStep, Polls, Loads

LEMMA NumberedStep ==
    ASSUME ConsoleTypeOK, Numbered, InputsAfter
    PROVE  Numbered'
  <1> SUFFICES ASSUME NEW i \in DOMAIN inputs', NEW k \in DOMAIN inputs', i < k,
                      inputs'[i].session = inputs'[k].session
               PROVE  inputs'[i].number < inputs'[k].number
    BY DEF Numbered, SessionOf
  <1>1. DOMAIN inputs = 1..Len(inputs) /\ Len(inputs) \in Nat
    BY Domains
  <1>2. CASE i \in DOMAIN inputs /\ k \in DOMAIN inputs
    BY <1>2, InputKept DEF Numbered, SessionOf
  <1>3. CASE k \notin DOMAIN inputs
    <2>1. k = Len(inputs) + 1
      BY <1>3, InputAdded
    <2>2. i \in DOMAIN inputs
      <3>1. i \notin DOMAIN inputs => i = Len(inputs) + 1
        BY InputAdded
      <3> QED
        BY <2>1, <3>1, <1>1
    <2> QED
      BY <1>3, <2>2, InputAdded, InputKept DEF SessionOf
  <1>4. CASE i \notin DOMAIN inputs
    <2>1. i = Len(inputs) + 1
      BY <1>4, InputAdded
    <2>2. k \notin DOMAIN inputs => k = Len(inputs) + 1
      BY InputAdded
    <2> QED
      BY <2>1, <2>2, <1>1
  <1> QED
    BY <1>2, <1>3, <1>4

LEMMA SentInOrderStep ==
    ASSUME ConsoleTypeOK, SentInOrder, InputsAfter
    PROVE  SentInOrder'
  <1> SUFFICES ASSUME NEW i \in DOMAIN inputs', IsSent(inputs'[i])
               PROVE  /\ ~inputs'[i].waited
                      /\ \A k \in DOMAIN inputs' : k < i => ~IsPending(inputs'[k])
    BY DEF SentInOrder, Sent, Pending, IsSent, IsPending
  <1>1. DOMAIN inputs = 1..Len(inputs) /\ Len(inputs) \in Nat
    BY Domains
  <1>2. i \in DOMAIN inputs
    BY InputAdded DEF IsSent
  <1>3. ASSUME NEW k \in DOMAIN inputs', k < i
        PROVE  k \in DOMAIN inputs
    <2>1. k \notin DOMAIN inputs => k = Len(inputs) + 1
      BY InputAdded
    <2> QED
      BY <2>1, <1>1, <1>2, <1>3
  <1>4. CASE IsSent(inputs[i])
    <2>1. ~inputs[i].waited /\ \A k \in DOMAIN inputs : k < i => ~IsPending(inputs[k])
      BY <1>2, <1>4 DEF SentInOrder, Sent, IsSent, Pending, IsPending
    <2> QED
      BY <1>2, <1>3, <1>4, <2>1, InputKept
  <1>5. CASE ~IsSent(inputs[i])
    <2>1. ~Appends
      <3>1. SUFFICES ASSUME Appends PROVE FALSE
        OBVIOUS
      <3>2. PICK r \in Input : inputs' = Append(inputs, r)
        BY <3>1 DEF Appends
      <3>3. inputs \in Seq(Input)
        BY DEF ConsoleTypeOK
      <3>4. inputs'[i] = inputs[i]
        BY <3>2, <3>3, <1>1, <1>2, AppendedSequence
      <3> QED
        BY <3>4, <1>5
    <2>2. Changes
      BY <2>1 DEF InputsAfter
    <2>3. PICK sent \in DOMAIN inputs \cup {None} :
            /\ Change(inputs[i], inputs'[i], i = sent)
            /\ sent # None => \A k \in DOMAIN inputs : k < sent => ~IsPending(inputs'[k])
      BY <2>2, <1>2 DEF Changes
    <2>4. inputs[i] \in Input /\ i # None
      BY <1>2, Domains
    <2>5. i = sent /\ ~inputs'[i].waited
      BY <2>3, <2>4, <1>5, Changed1
    <2> QED
      BY <2>3, <2>4, <2>5, <1>3
  <1> QED
    BY <1>4, <1>5

Page == [session: SessionNo \cup {None}, number: 0..MaxInputs,
         revision: -1..MaxChanges + MaxInputs + 1, version: Version,
         remembered: InputNo \cup {None}, rings: Seq(InputNo)]

LEMMA ShownPage ==
    ASSUME ConsoleTypeOK, NEW b \in Page
    PROVE  /\ Shown(b) \in Page
           /\ Shown(b).session = b.session
           /\ NewestRevision(b) => /\ Shown(b).revision = screen.seen.revision
                                  /\ Shown(b).version = screen.seen.version
           /\ ~NewestRevision(b) => Shown(b) = b
  <1>1. CASE ~NewestRevision(b)
    BY <1>1 DEF Shown
  <1>2. CASE NewestRevision(b)
    <2>1. /\ screen.last \in InputNo \cup {None}
          /\ screen.seen.revision \in 0..MaxChanges + MaxInputs + 1
          /\ screen.seen.version \in Version
      BY DEF ConsoleTypeOK, Screen
    <2>2. screen.seen.revision \in -1..MaxChanges + MaxInputs + 1
      BY <2>1, ConsoleAssumption
    <2>3. PICK r : r = IF screen.last = None THEN b.remembered ELSE screen.last
      OBVIOUS
    <2>4. PICK q : q = IF Ringing(b) THEN Append(b.rings, screen.last) ELSE b.rings
      OBVIOUS
    <2>5. r \in InputNo \cup {None}
      BY <2>1, <2>3 DEF Page
    <2>6. q \in Seq(InputNo)
      <3>1. b.rings \in Seq(InputNo)
        BY DEF Page
      <3>2. Ringing(b) => screen.last \in InputNo
        BY <2>1 DEF Ringing
      <3> QED
        BY <2>4, <3>1, <3>2, AppendedSequence
    <2>7. Shown(b) = [b EXCEPT !.revision = screen.seen.revision, !.version = screen.seen.version,
                               !.remembered = r, !.rings = q]
      BY <1>2, <2>3, <2>4 DEF Shown
    <2> QED
      BY <1>2, <2>1, <2>2, <2>5, <2>6, <2>7 DEF Page
  <1> QED
    BY <1>1, <1>2

LEMMA EndedPage ==
    ASSUME ConsoleTypeOK
    PROVE  /\ browser \in Page
           /\ Ended \in Page
           /\ Ended.session = None /\ Ended.revision = -1 /\ Ended.version = 0
           /\ \A n \in SessionNo : /\ [Ended EXCEPT !.session = n] \in Page
                                  /\ [Ended EXCEPT !.session = n].session = n
                                  /\ [Ended EXCEPT !.session = n].revision = -1
                                  /\ [Ended EXCEPT !.session = n].version = 0
  <1>1. browser \in Page
    BY DEF ConsoleTypeOK, Page
  <1>2. 0 \in 0..MaxInputs /\ -1 \in -1..MaxChanges + MaxInputs + 1 /\ 0 \in Version
    BY ConsoleAssumption DEF Version
  <1>3. /\ Ended \in Page
        /\ Ended.session = None /\ Ended.revision = -1 /\ Ended.version = 0
    BY <1>1, <1>2 DEF Page, Ended
  <1>4. PICK e : e = Ended
    OBVIOUS
  <1>5. \A n \in SessionNo : /\ [e EXCEPT !.session = n] \in Page
                            /\ [e EXCEPT !.session = n].session = n
                            /\ [e EXCEPT !.session = n].revision = -1
                            /\ [e EXCEPT !.session = n].version = 0
    BY <1>3, <1>4 DEF Page
  <1> QED
    BY <1>1, <1>3, <1>4, <1>5

LEMMA NextSession ==
    ASSUME ConsoleTypeOK, StartConsole
    PROVE  Len(sessions) + 1 \in SessionNo
  BY ConsoleAssumption DEF StartConsole, ConsoleTypeOK, SessionNo

LEMMA ReferencedStep ==
    ASSUME Inv, [Next]_vars
    PROVE  Referenced'
  <1>1. InputsAfter /\ ConsoleTypeOK /\ Referenced
    BY InputsStep DEF Inv, Queue
  <1>2. DOMAIN sessions \subseteq DOMAIN sessions'
    BY <1>1, SessionsStep
  <1>3. ASSUME NEW i \in DOMAIN inputs' PROVE inputs'[i].session \in DOMAIN sessions'
    <2>1. CASE i \in DOMAIN inputs
      BY <2>1, <1>1, <1>2, InputKept DEF Referenced, SessionOf
    <2>2. CASE i \notin DOMAIN inputs
      BY <2>2, <1>1, <1>2, InputAdded
    <2> QED
      BY <2>1, <2>2
  <1>4. /\ browser'.session # None => browser'.session \in DOMAIN sessions'
        /\ \A m \in outbox' : m.session \in DOMAIN sessions'
    <2> DEFINE Refers == /\ browser'.session # None => browser'.session \in DOMAIN sessions'
                        /\ \A m \in outbox' : m.session \in DOMAIN sessions'
    <2>0. ASSUME browser'.session \in {browser.session, None}, outbox' \subseteq outbox PROVE Refers
      BY <2>0, <1>1, <1>2 DEF Referenced
    <2>1. CASE StartConsole
      <3>1. browser'.session = Len(sessions) + 1
        <4> DEFINE b == [Ended EXCEPT !.session = Len(sessions) + 1]
        <4>1. b.session = Len(sessions) + 1 /\ DOMAIN b = DOMAIN browser
          BY <1>1 DEF Ended, ConsoleTypeOK
        <4>2. \A c : Shown(b) = c => c.session = b.session
          <5>1. b \in Page
            BY EndedPage, <1>1, NextSession, <2>1
          <5> HIDE DEF b
          <5> QED
            BY <5>1, ShownPage, <1>1
        <4> QED
          BY <2>1, <4>1, <4>2 DEF StartConsole
      <3>2. DOMAIN sessions' = 1..Len(sessions) + 1 /\ Len(sessions) \in Nat
        <4>1. sessions \in Seq(Session) /\ DOMAIN sessions = 1..Len(sessions) /\ Len(sessions) \in Nat
          BY <1>1 DEF ConsoleTypeOK
        <4> DEFINE q == [n \in DOMAIN sessions |-> "ended"]
        <4>2. q = [n \in 1..Len(sessions) |-> q[n]] /\ \A n \in 1..Len(sessions) : q[n] \in Session
          BY <4>1 DEF Session
        <4>3. sessions' = Append(q, "new")
          BY <2>1 DEF StartConsole
        <4> HIDE DEF q
        <4>4. q \in Seq(Session) /\ Len(q) = Len(sessions)
          BY <4>1, <4>2, SequenceOf
        <4>5. "new" \in Session
          BY DEF Session
        <4> QED
          BY <4>1, <4>3, <4>4, <4>5, AppendedSequence
      <3>3. outbox' = outbox
        BY <2>1 DEF StartConsole
      <3> QED
        BY <3>1, <3>2, <3>3, <1>1, <1>2 DEF Referenced
    <2>2. CASE StopConsole
      BY <2>2, <2>0, <1>1 DEF StopConsole, Ended, ConsoleTypeOK
    <2>3. CASE PollState
      <3>1. \A c : Shown(browser) = c => c.session = browser.session
        BY <1>1 DEF Shown, ConsoleTypeOK
      <3>2. Ended.session = None
        BY <1>1 DEF Ended, ConsoleTypeOK
      <3> QED
        BY <2>3, <2>0, <3>1, <3>2 DEF PollState
    <2>4. CASE SendInput
      <3>1. browser'.session = browser.session /\ browser.session # None
            /\ outbox' = outbox \cup {[session |-> browser.session, number |-> browser.number + 1]}
        BY <2>4, <1>1 DEF SendInput, ConsoleTypeOK
      <3> QED
        BY <3>1, <1>1, <1>2 DEF Referenced
    <2>5. CASE Command
      BY <2>5, <2>0 DEF Command
    <2>6. CASE Revoke \/ TimePasses \/ WorkerStep \/ LocalStep \/ PollLost \/ LatePoll \/ PowerLoss \/ UNCHANGED vars
      <3>1. UNCHANGED <<browser, outbox>>
        BY <2>6 DEF Revoke, TimePasses, WorkerStep, Polls, Loads, LoadRevision, LoadPage, SendPoll,
                    ServePoll, ReadReply, ApplyReply,
                    Heartbeat, LocalStep, LocalStop, DisplayStep, Deactivate, CountRevision,
                    LocalNavigation, PollLost, LatePoll,
                    PowerLoss, vars
      <3> QED
        BY <3>1, <2>0
    <2> QED
      BY <2>1, <2>2, <2>3, <2>4, <2>5, <2>6 DEF Next, OwnerStep, BrowserStep
  <1> QED
    BY <1>3, <1>4 DEF Referenced, SessionOf

\* A pending input that waited: it did before, or its session lapses now.
WaitedBefore(i) ==
    /\ i \in DOMAIN inputs
    /\ IsPending(inputs[i]) /\ inputs[i].waited

LEMMA WaitedStep ==
    ASSUME Inv, [Next]_vars,
           NEW i \in DOMAIN inputs', IsPending(inputs'[i]), inputs'[i].waited
    PROVE  \/ WaitedBefore(i)
           \/ /\ i \in DOMAIN inputs
              /\ sessions'[SessionOf(i)] = "lapsed"
  <1>1. InputsAfter /\ ConsoleTypeOK /\ Queue
    BY InputsStep DEF Inv
  <1>2. i \in DOMAIN inputs
    BY <1>1, InputAdded
  <1>3. IsPending(inputs[i]) /\ inputs[i] \in Input /\ SessionOf(i) \in DOMAIN sessions
    BY <1>1, <1>2, InputKept, Domains DEF Queue, Referenced
  <1> SUFFICES ASSUME ~inputs[i].waited
               PROVE  sessions'[SessionOf(i)] = "lapsed"
    BY <1>2, <1>3 DEF WaitedBefore
  <1>4. ~UNCHANGED inputs
    OBVIOUS
  <1>5. ASSUME NEW set, inputs' = Expiring(set) PROVE FALSE
    <2>1. inputs'[i] = inputs[i] \/ inputs'[i] = [inputs[i] EXCEPT !.state = "expired", !.waited = FALSE]
      BY <1>5, <1>2 DEF Expiring
    <2> QED
      BY <2>1, <1>3, InputType DEF IsPending
  <1>6. ASSUME NEW request, Served(request) PROVE FALSE
    BY <1>6, <1>1, <1>2, LeftPending
  <1>7. CASE TimePasses
    <2>1. ASSUME NEW n \in DOMAIN inputs, inputs' = [inputs EXCEPT ![n].state = "stale"]
          PROVE  FALSE
      <3>1. inputs'[i] = inputs[i] \/ inputs'[i] = [inputs[i] EXCEPT !.state = "stale"]
        BY <2>1, <1>2
      <3>2. [inputs[i] EXCEPT !.state = "stale"].waited = inputs[i].waited
        BY <1>3, InputType
      <3> QED
        BY <3>1, <3>2
    <2>2. PICK n \in DOMAIN sessions :
            /\ sessions' = [sessions EXCEPT ![n] = "lapsed"]
            /\ inputs' = [k \in DOMAIN inputs |->
                             IF inputs[k].session = n /\ Pending(k)
                             THEN [inputs[k] EXCEPT !.waited = TRUE] ELSE inputs[k]]
      BY <1>7, <1>4, <2>1 DEF TimePasses
    <2>3. SessionOf(i) = n
      BY <2>2, <1>2 DEF SessionOf
    <2> QED
      BY <2>2, <2>3
  <1>8. ~StartConsole /\ ~StopConsole
    BY <1>5 DEF StartConsole, StopConsole
  <1>9. ~Command
    <2>1. ASSUME Command PROVE FALSE
      <3>2. PICK r : inputs' = Append(inputs, r) /\ r \in Input
        BY <2>1, <1>4, <1>1 DEF Command, Accepted, Queue, Referenced, Input, ConsoleTypeOK
      <3>3. inputs \in Seq(Input) /\ DOMAIN inputs = 1..Len(inputs)
        BY <1>1 DEF ConsoleTypeOK
      <3>4. inputs'[i] = inputs[i]
        BY <3>2, <3>3, <1>2, AppendedSequence
      <3> QED
        BY <3>4
    <2> QED
      BY <2>1
  <1>10. ~ServePoll /\ ~PollLost /\ ~LatePoll
    BY <1>4, <1>6 DEF ServePoll, PollLost, LatePoll, platformVars
  <1>11. ~(Revoke \/ SendInput \/ PollState)
    BY <1>4 DEF Revoke, SendInput, PollState, platformVars
  <1>12. ~(Loads \/ ReadReply \/ ApplyReply \/ Heartbeat \/ LocalStep \/ PowerLoss)
    BY <1>4 DEF Loads, LoadRevision, LoadPage, SendPoll, ReadReply, ApplyReply, Heartbeat,
                LocalStep, LocalStop, DisplayStep, Deactivate, CountRevision,
                LocalNavigation, PowerLoss, platformVars
  <1>13. ~UNCHANGED vars
    BY <1>4 DEF vars, platformVars
  <1> QED
    BY <1>7, <1>8, <1>9, <1>10, <1>11, <1>12, <1>13
       DEF Next, OwnerStep, BrowserStep, WorkerStep, Polls, Loads

\* A session whose inputs are to be dropped stays so until they are.
LEMMA GapStep ==
    ASSUME Inv, [Next]_vars,
           NEW n \in DOMAIN sessions, sessions[n] \in {"lapsed", "expired", "ended"}
    PROVE  \/ sessions'[n] \in {"lapsed", "expired", "ended"}
           \/ \E request : Served(request)
  <1>1. ConsoleTypeOK
    BY DEF Inv
  <1>2. CASE UNCHANGED sessions
    BY <1>2
  <1>3. CASE StartConsole
    <2> DEFINE q == [k \in DOMAIN sessions |-> "ended"]
    <2>1. DOMAIN sessions = 1..Len(sessions) /\ Len(sessions) \in Nat
      BY <1>1, Domains
    <2>2. q \in Seq(Session) /\ Len(q) = Len(sessions) /\ q[n] = "ended"
      <3>1. q = [k \in 1..Len(sessions) |-> q[k]] /\ \A k \in 1..Len(sessions) : q[k] \in Session
        BY <2>1 DEF Session
      <3>2. q[n] = "ended"
        OBVIOUS
      <3> HIDE DEF q
      <3> QED
        BY <2>1, <3>1, <3>2, SequenceOf
    <2>3. sessions' = Append(q, "new") /\ "new" \in Session
      BY <1>3 DEF StartConsole, Session
    <2> HIDE DEF q
    <2>4. sessions'[n] = "ended"
      BY <2>1, <2>2, <2>3, AppendedSequence
    <2> QED
      BY <2>4
  <1>4. CASE StopConsole
    BY <1>4, <1>1 DEF StopConsole, ConsoleTypeOK
  <1>5. CASE TimePasses
    <2>1. \/ UNCHANGED sessions
          \/ \E k \in DOMAIN sessions : sessions' = [sessions EXCEPT ![k] = "expired"]
          \/ \E k \in DOMAIN sessions : sessions' = [sessions EXCEPT ![k] = "lapsed"]
      BY <1>5 DEF TimePasses
    <2> QED
      BY <2>1
  <1>6. CASE ServePoll \/ PollLost \/ LatePoll
    BY <1>6, <1>2 DEF ServePoll, PollLost, LatePoll, platformVars
  <1>7. CASE Revoke \/ SendInput \/ PollState \/ Command
    BY <1>7, <1>2 DEF Revoke, SendInput, PollState, Command, platformVars
  <1>8. CASE Loads \/ ReadReply \/ ApplyReply \/ Heartbeat \/ LocalStep \/ PowerLoss
    BY <1>8, <1>2 DEF Loads, LoadRevision, LoadPage, SendPoll, ReadReply, ApplyReply, Heartbeat,
                      LocalStep, LocalStop, DisplayStep, Deactivate, CountRevision,
                      LocalNavigation, PowerLoss, platformVars
  <1>9. CASE UNCHANGED vars
    BY <1>9, <1>2 DEF vars, platformVars
  <1> QED
    BY <1>3, <1>4, <1>5, <1>6, <1>7, <1>8, <1>9 DEF Next, OwnerStep, BrowserStep, WorkerStep,
                                                    Polls, Loads

LEMMA GappedStep ==
    ASSUME Inv, [Next]_vars
    PROVE  Gapped'
  <1>1. InputsAfter /\ ConsoleTypeOK /\ Queue
    BY InputsStep DEF Inv
  <1> SUFFICES ASSUME NEW i \in DOMAIN inputs', IsPending(inputs'[i]), inputs'[i].waited
               PROVE  sessions'[inputs'[i].session] \in {"lapsed", "expired", "ended"}
    BY DEF Gapped, Pending, IsPending, SessionOf
  <1>2. CASE WaitedBefore(i)
    <2>1. i \in DOMAIN inputs /\ Pending(i) /\ inputs[i].waited
      BY <1>2 DEF WaitedBefore, Pending, IsPending
    <2>2. SessionOf(i) \in DOMAIN sessions
          /\ sessions[SessionOf(i)] \in {"lapsed", "expired", "ended"}
      BY <1>1, <2>1 DEF Queue, Gapped, Referenced
    <2>3. inputs'[i].session = SessionOf(i)
      BY <1>1, <2>1, InputKept DEF SessionOf
    <2>4. ASSUME NEW request, Served(request) PROVE FALSE
      BY <2>4, <1>1, <2>1, <2>2, LeftPending DEF Outdated, Live, SessionOf
    <2> QED
      BY <2>2, <2>3, <2>4, GapStep
  <1>3. CASE i \in DOMAIN inputs /\ sessions'[SessionOf(i)] = "lapsed"
    BY <1>1, <1>3, InputKept DEF SessionOf
  <1> QED
    BY <1>2, <1>3, WaitedStep

LEMMA QueueStep ==
    ASSUME Inv, [Next]_vars
    PROVE  Queue'
  <1>1. Numbered' /\ SentInOrder'
    BY InputsStep, NumberedStep, SentInOrderStep DEF Inv, Queue
  <1> QED
    BY <1>1, ReferencedStep, GappedStep DEF Queue

----------------------------------------------------------------------------
(* The board and its polls.                                                *)

Given == poll.pc = "loaded" /\ poll.enable /\ poll.input # None

LEMMA BootScreen == Boot(0) \in Screen
  BY ConsoleAssumption DEF Boot, Screen, Version

PollAsked == [pc: {"idle", "revision", "page", "sent"}, request: Poll]

PollTold == [pc: {"answered"}, ack: InputNo \cup {None}, active: BOOLEAN,
             input: InputNo \cup {None}]

PollRead == [pc: {"loaded"}, active: BOOLEAN, enable: BOOLEAN, input: InputNo \cup {None}]

LEMMA PollType ==
    ASSUME ConsoleTypeOK
    PROVE  /\ poll.pc \in {"idle", "revision", "page", "sent", "answered", "loaded"}
           /\ poll.pc \notin {"answered", "loaded"} => poll \in PollAsked /\ poll.request \in Poll
           /\ poll.pc = "answered" => poll.ack \in InputNo \cup {None}
           /\ poll.pc \in {"answered", "loaded"} =>
                 poll.active \in BOOLEAN /\ poll.input \in InputNo \cup {None}
           /\ poll.pc = "loaded" => poll.enable \in BOOLEAN
  <1>1. poll \in PollAsked \/ poll \in PollTold \/ poll \in PollRead
    BY DEF ConsoleTypeOK, PollAsked, PollTold, PollRead
  <1>2. CASE poll \in PollAsked
    BY <1>2 DEF PollAsked
  <1>3. CASE poll \in PollTold
    BY <1>3 DEF PollTold
  <1>4. CASE poll \in PollRead
    BY <1>4 DEF PollRead
  <1> QED
    BY <1>1, <1>2, <1>3, <1>4

LEMMA RequestType ==
    ASSUME ConsoleTypeOK, NEW request \in Requests
    PROVE  /\ request.screen \in Screen
           /\ request.ack \in InputNo \cup {None}
  <1>1. request \in Poll
    BY PollType DEF Requests, ConsoleTypeOK
  <1> QED
    BY <1>1 DEF Poll

Board == [screen: Screen, open: BOOLEAN, active: BOOLEAN, ack: InputNo \cup {None},
          paired: BOOLEAN, rebooted: BOOLEAN, writing: Writing]

LEMMA BoardType ==
    ASSUME ConsoleTypeOK
    PROVE  /\ local \in Board
           /\ local.screen \in Screen
           /\ local.screen.revision \in Nat /\ local.screen.version \in Nat
           /\ local.screen.allowed \in BOOLEAN
           /\ local.ack \in InputNo \cup {None}
  <1>1. local \in Board
    BY DEF ConsoleTypeOK, Board
  <1>2. MaxChanges + MaxInputs + 1 \in Nat /\ MaxChanges + MaxInputs \in Nat
    BY ConsoleAssumption
  <1> QED
    BY <1>1, <1>2 DEF Board, Screen, Version

\* What a load takes, and what it keeps of the loads before it.
LEMMA LoadsEffect ==
    ASSUME ConsoleTypeOK, Loads
    PROVE  /\ UNCHANGED <<late, screen, local>>
           /\ poll.request \in Requests
           /\ poll' \in PollAsked /\ poll'.pc # "idle"
           /\ poll'.request.ack \in {None, local.ack, poll.request.ack}
           /\ \/ /\ poll'.pc = "revision"
                 /\ poll'.request.screen.revision = local.screen.revision
              \/ /\ poll.pc = "revision" /\ poll'.pc = "page"
                 /\ poll'.request.screen.revision = poll.request.screen.revision
                 /\ poll'.request.screen.version = local.screen.version
              \/ /\ poll.pc = "page" /\ poll'.pc = "sent"
                 /\ poll'.request.screen.revision = poll.request.screen.revision
                 /\ poll'.request.screen.version = poll.request.screen.version
  <1>1. /\ poll.pc \in {"idle", "revision", "page"}
        /\ UNCHANGED <<late, screen, local>>
    BY DEF Loads, LoadRevision, LoadPage, SendPoll, Polling, platformVars
  <1>2. poll \in PollAsked /\ poll.request \in Poll /\ poll.request \in Requests
    BY <1>1, PollType DEF Requests
  <1>3. PICK s \in Screen, a \in InputNo \cup {None} :
            poll.request = [screen |-> s, ack |-> a]
    BY <1>2 DEF Poll
  <1>4. PICK n \in Screen, m \in InputNo \cup {None} : n = local.screen /\ m = local.ack
    BY BoardType
  <1>5. CASE LoadRevision
    <2>1. PICK b \in Screen : b = Boot(0)
      BY BootScreen
    <2>2. PICK c \in Screen : c = [b EXCEPT !.revision = n.revision]
      BY DEF Screen
    <2>3. c.revision = n.revision
      BY <2>2 DEF Screen
    <2>4. poll' = [pc |-> "revision", request |-> [screen |-> c, ack |-> None]]
      BY <1>4, <1>5, <2>1, <2>2 DEF LoadRevision, Resting
    <2> QED
      BY <1>1, <1>2, <1>4, <2>3, <2>4 DEF PollAsked, Poll
  <1>6. CASE LoadPage
    <2>1. PICK c \in Screen : c = [s EXCEPT !.version = n.version]
      BY DEF Screen
    <2>2. c.revision = s.revision /\ c.version = n.version
      BY <2>1 DEF Screen
    <2>3. poll.pc = "revision" /\ poll' = [pc |-> "page", request |-> [screen |-> c, ack |-> a]]
      <3>1. poll = [pc |-> "revision", request |-> [screen |-> s, ack |-> a]]
        BY <1>2, <1>3, <1>6 DEF LoadPage, PollAsked
      <3>2. PICK p : p = [pc |-> "revision", request |-> [screen |-> s, ack |-> a]]
        OBVIOUS
      <3>3. poll' = [p EXCEPT !.pc = "page", !.request.screen.version = n.version]
        BY <1>4, <1>6, <3>1, <3>2 DEF LoadPage
      <3> QED
        BY <2>1, <3>1, <3>2, <3>3
    <2> QED
      BY <1>1, <1>2, <1>3, <1>4, <2>2, <2>3 DEF PollAsked, Poll
  <1>7. CASE SendPoll
    <2>1. PICK c \in Screen : c = [s EXCEPT !.allowed = n.allowed]
      BY DEF Screen
    <2>2. c.revision = s.revision /\ c.version = s.version
      BY <2>1 DEF Screen
    <2>3. poll.pc = "page" /\ poll' = [pc |-> "sent", request |-> [screen |-> c, ack |-> m]]
      <3>1. poll = [pc |-> "page", request |-> [screen |-> s, ack |-> a]]
        BY <1>2, <1>3, <1>7 DEF SendPoll, PollAsked
      <3>2. PICK p : p = [pc |-> "page", request |-> [screen |-> s, ack |-> a]]
        OBVIOUS
      <3>3. poll' = [p EXCEPT !.pc = "sent",
                              !.request = [@ EXCEPT !.screen.allowed = n.allowed, !.ack = m]]
        BY <1>4, <1>7, <3>1, <3>2 DEF SendPoll, Loaded
      <3> QED
        BY <2>1, <3>1, <3>2, <3>3
    <2> QED
      BY <1>1, <1>2, <1>3, <1>4, <2>2, <2>3 DEF PollAsked, Poll
  <1> QED
    BY <1>5, <1>6, <1>7 DEF Loads

\* The step that executes an input.
Executes ==
    /\ Given
    /\ applied' = Append(applied, poll.input)
    /\ local'.ack = poll.input
    /\ UNCHANGED local.writing
    /\ \/ UNCHANGED local.screen
       \/ /\ local.writing = "nothing"
          /\ local'.screen = Counted(Changed(local.screen.allowed))
    /\ poll' = Resting

\* Somebody begins a change at the board, or it boots.
Turns ==
    /\ local.screen.version < MaxChanges + Len(applied)
    /\ UNCHANGED applied
    /\ \/ /\ local.writing = "nothing" /\ local'.writing # "nothing"
          /\ \E allowed \in BOOLEAN : local'.screen = Changed(allowed)
          /\ UNCHANGED local.ack
       \/ /\ local'.writing = "nothing"
          /\ local'.screen = Boot(local.screen.version + 1)
          /\ local'.ack = None

\* The change ends.
Counts ==
    /\ UNCHANGED applied
    /\ local.writing # "nothing" /\ local'.writing = "nothing"
    /\ local'.screen = Counted(local.screen)
    /\ UNCHANGED local.ack

\* The board keeps its screen.
Stays ==
    /\ UNCHANGED applied
    /\ UNCHANGED local.screen
    /\ local'.writing = "nothing" <=> local.writing = "nothing"
    /\ local'.ack \in {local.ack, None}

LEMMA BoardStep ==
    ASSUME ConsoleTypeOK, [Next]_vars
    PROVE  /\ Executes \/ Turns \/ Counts \/ Stays
           /\ local' \in [open: BOOLEAN, active: BOOLEAN, paired: BOOLEAN, rebooted: BOOLEAN,
                          writing: Writing, screen: {local'.screen}, ack: {local'.ack}]
  <1> DEFINE Goal == /\ Executes \/ Turns \/ Counts \/ Stays
                     /\ local' \in [open: BOOLEAN, active: BOOLEAN, paired: BOOLEAN, rebooted: BOOLEAN,
                                    writing: Writing, screen: {local'.screen}, ack: {local'.ack}]
  <1>0. local \in Board
    BY BoardType
  <1>1. ASSUME UNCHANGED <<local, applied>> PROVE Goal
    BY <1>0, <1>1 DEF Stays, Board
  <1>2. ASSUME local' = Closed, UNCHANGED applied PROVE Goal
    BY <1>0, <1>2 DEF Closed, Stays, Board
  <1>3. CASE ServePoll
    BY <1>3, <1>1, <1>2 DEF ServePoll
  <1>4. CASE PollLost
    BY <1>4, <1>2 DEF PollLost
  <1>5. CASE ReadReply
    <2>1. UNCHANGED applied /\ local' \in {[local EXCEPT !.ack = None], local}
      BY <1>5 DEF ReadReply
    <2> QED
      BY <1>0, <2>1 DEF Stays, Board
  <1>6. CASE ApplyReply
    <2>1. poll.pc = "loaded" /\ poll.active \in BOOLEAN /\ poll.enable \in BOOLEAN
      BY <1>6, PollType DEF ApplyReply
    <2>2. CASE poll.input # None
      <3>1. PICK seen \in AfterInput :
              /\ local' = [[local EXCEPT !.active = poll.enable, !.open = poll.active]
                            EXCEPT !.ack = Result, !.screen = seen]
              /\ applied' = IF poll.enable THEN Append(applied, poll.input) ELSE applied
        BY <1>6, <2>2 DEF ApplyReply
      <3>2. /\ local' \in [open: BOOLEAN, active: BOOLEAN, paired: BOOLEAN, rebooted: BOOLEAN,
                          writing: Writing, screen: {local'.screen}, ack: {local'.ack}]
            /\ local'.ack = Result /\ local'.screen = seen /\ UNCHANGED local.writing
        BY <1>0, <2>1, <3>1 DEF Board
      <3>3. CASE poll.enable
        BY <1>6, <2>1, <2>2, <3>1, <3>2, <3>3 DEF Executes, Given, Result, AfterInput,
                                                               ApplyReply
      <3>4. CASE ~poll.enable
        BY <3>1, <3>2, <3>4 DEF Stays, Result, AfterInput
      <3> QED
        BY <3>2, <3>3, <3>4
    <2>3. CASE poll.input = None
      <3>1. UNCHANGED applied /\ local' = [local EXCEPT !.active = poll.enable, !.open = poll.active]
        BY <1>6, <2>3 DEF ApplyReply
      <3> QED
        BY <1>0, <2>1, <3>1 DEF Stays, Board
    <2> QED
      BY <2>2, <2>3
  <1>7. CASE Heartbeat
    <2>1. UNCHANGED applied /\ local' \in {[local EXCEPT !.paired = FALSE], [local EXCEPT !.open = Current # {}]}
      BY <1>7 DEF Heartbeat
    <2> QED
      BY <1>0, <2>1 DEF Stays, Board
  <1>8. CASE LocalNavigation
    <2>1. UNCHANGED applied /\ MayChange
          /\ local' = [local EXCEPT !.screen = Changed(local.screen.allowed), !.writing = "revision"]
      BY <1>8 DEF LocalNavigation
    <2> QED
      BY <1>0, <2>1, BoardType DEF Turns, MayChange, Board, Writing
  <1>9. CASE LocalStop
    <2>1. UNCHANGED applied /\ MayChange
          /\ local' = [local EXCEPT !.screen = Changed(~local.screen.allowed), !.writing = "control"]
      BY <1>9 DEF LocalStop
    <2>2. (~local.screen.allowed) \in BOOLEAN
      OBVIOUS
    <2> QED
      BY <1>0, <2>1, <2>2 DEF Turns, MayChange, Board, Writing
  <1>10. CASE PowerLoss
    <2>1. UNCHANGED applied /\ local.screen.version < MaxChanges + Len(applied)
          /\ local' = [local EXCEPT !.screen = Boot(local.screen.version + 1), !.open = FALSE,
                                    !.active = FALSE, !.ack = None, !.rebooted = TRUE,
                                    !.writing = "nothing"]
      BY <1>10 DEF PowerLoss
    <2> QED
      BY <1>0, <2>1 DEF Turns, Board, Writing
  <1>12. CASE Deactivate
    <2>1. UNCHANGED applied /\ local.writing = "control"
          /\ local' = [local EXCEPT !.active = FALSE, !.writing = "revision"]
      BY <1>12 DEF Deactivate
    <2> QED
      BY <1>0, <2>1 DEF Stays, Board, Writing
  <1>13. CASE CountRevision
    <2>1. UNCHANGED applied /\ local.writing = "revision"
          /\ local' = [local EXCEPT !.screen = Counted(local.screen), !.writing = "nothing"]
      BY <1>13 DEF CountRevision
    <2> QED
      BY <1>0, <2>1 DEF Counts, Board, Writing
  <1>11. CASE OwnerStep \/ BrowserStep \/ TimePasses \/ LatePoll \/ Loads \/ UNCHANGED vars
    <2>1. UNCHANGED <<local, applied>>
      BY <1>11 DEF OwnerStep, BrowserStep, StartConsole, StopConsole, Revoke, SendInput, PollState,
                   Command, TimePasses, LatePoll, Loads, LoadRevision, LoadPage, SendPoll, vars
    <2> QED
      BY <1>1, <2>1
  <1> QED
    BY <1>3, <1>4, <1>5, <1>6, <1>7, <1>8, <1>9, <1>10, <1>11, <1>12, <1>13
       DEF Next, WorkerStep, Polls, Loads, LocalStep, DisplayStep

\* What becomes of the poll: the answer brings what the platform dispatched.
PollAfter ==
    \/ UNCHANGED poll
    \/ poll' = Resting
    \/ Loads
    \/ /\ poll.pc = "sent"
       /\ Served(poll.request)
       /\ poll' = [pc |-> "answered", ack |-> poll.request.ack,
                   active |-> Current # {}, input |-> NextInput(poll.request)]
    \/ /\ poll.pc = "answered"
       /\ poll' = [pc |-> "loaded", active |-> poll.active, enable |-> Enabled, input |-> poll.input]

LEMMA PollStep ==
    ASSUME [Next]_vars
    PROVE  /\ PollAfter
           /\ \A request \in late' : request \in Servable
           /\ \/ UNCHANGED screen
              \/ \E request \in Servable : Served(request)
  <1> DEFINE Goal == /\ PollAfter
                               /\ \A request \in late' : request \in Servable
                     /\ \/ UNCHANGED screen
                        \/ \E request \in Servable : Served(request)
  <1>1. CASE ServePoll
    <2>1. UNCHANGED late /\ (UNCHANGED screen \/ Served(poll.request))
      <3>1. CASE revoked
        BY <1>1, <3>1 DEF ServePoll, platformVars
      <3>2. CASE ~revoked
        BY <1>1, <3>2 DEF ServePoll
      <3> QED
        BY <3>1, <3>2, <1>1 DEF ServePoll
    <2>2. PollAfter
      BY <1>1 DEF ServePoll, PollAfter
    <2>3. poll.request \in Servable
      BY <1>1 DEF ServePoll, Servable
    <2> QED
      BY <2>1, <2>2, <2>3 DEF Servable
  <1>2. CASE PollLost
    <2>1. poll.request \in Servable /\ poll' = Resting
      BY <1>2 DEF PollLost, Servable
    <2>2. UNCHANGED screen \/ Served(poll.request)
      BY <1>2 DEF PollLost, platformVars
    <2>3. late' \in {late, late \cup {poll.request}}
      BY <1>2 DEF PollLost
    <2> QED
      BY <2>1, <2>2, <2>3 DEF Servable, PollAfter
  <1>3. CASE LatePoll
    <2>1. PICK request \in late : late' = late \ {request}
                                  /\ IF revoked THEN UNCHANGED platformVars ELSE Served(request)
      BY <1>3 DEF LatePoll
    <2>2. UNCHANGED screen \/ Served(request)
      BY <2>1 DEF platformVars
    <2>3. UNCHANGED <<poll, applied>>
      BY <1>3 DEF LatePoll
    <2> QED
      BY <2>1, <2>2, <2>3 DEF Servable, PollAfter
  <1>4. CASE ApplyReply \/ PowerLoss
    BY <1>4 DEF ApplyReply, PowerLoss, PollAfter, Servable, platformVars
  <1>5. CASE Loads
    BY <1>5 DEF Loads, LoadRevision, LoadPage, SendPoll, PollAfter, Servable, platformVars
  <1>6. CASE ReadReply
    BY <1>6 DEF ReadReply, PollAfter, Servable, platformVars
  <1>7. CASE OwnerStep \/ BrowserStep \/ TimePasses \/ Heartbeat \/ LocalStep \/ UNCHANGED vars
    <2>1. UNCHANGED <<poll, late, screen>>
      BY <1>7 DEF OwnerStep, BrowserStep, StartConsole, StopConsole, Revoke, SendInput, PollState,
                  Command, TimePasses, Heartbeat, LocalStep, LocalStop, DisplayStep, Deactivate,
                  CountRevision, LocalNavigation, vars,
                  platformVars
    <2> QED
      BY <2>1 DEF PollAfter, Servable
  <1> QED
    BY <1>1, <1>2, <1>3, <1>4, <1>5, <1>6, <1>7 DEF Next, WorkerStep, Polls, Loads

----------------------------------------------------------------------------
(* Execution.                                                              *)

\* What has been applied stays so; an execution adds the input of the answer.
LEMMA AppliedStep ==
    ASSUME Inv, [Next]_vars
    PROVE  /\ DOMAIN applied \subseteq DOMAIN applied'
           /\ \A j \in DOMAIN applied : applied'[j] = applied[j]
           /\ \A j \in DOMAIN applied' \ DOMAIN applied :
                 Executes /\ j = Len(applied) + 1 /\ applied'[j] = poll.input
           /\ Executes => \E j \in DOMAIN applied' : applied'[j] = poll.input
           /\ applied' \in Seq(InputNo)
           /\ Executes => Len(applied') = Len(applied) + 1
           /\ ~Executes => applied' = applied
  <1>1. ConsoleTypeOK
    BY DEF Inv
  <1>2. applied \in Seq(InputNo) /\ DOMAIN applied = 1..Len(applied) /\ Len(applied) \in Nat
    BY <1>1 DEF ConsoleTypeOK
  <1>3. CASE Executes
    <2>1. poll.input \in InputNo /\ applied' = Append(applied, poll.input)
      BY <1>1, <1>3, PollType DEF Executes, Given
    <2>2. /\ applied' \in Seq(InputNo)
          /\ DOMAIN applied' = 1..Len(applied) + 1
          /\ Len(applied') = Len(applied) + 1
          /\ \A j \in 1..Len(applied) : applied'[j] = applied[j]
          /\ applied'[Len(applied) + 1] = poll.input
      BY <1>2, <2>1, AppendedSequence
    <2>3. \A j \in DOMAIN applied' \ DOMAIN applied : j = Len(applied) + 1
      BY <1>2, <2>2
    <2>4. Len(applied) + 1 \in DOMAIN applied' /\ DOMAIN applied \subseteq DOMAIN applied'
      BY <1>2, <2>2
    <2> QED
      BY <1>2, <1>3, <2>2, <2>3, <2>4
  <1>4. CASE ~Executes
    BY <1>1, <1>2, <1>4, BoardStep DEF Turns, Counts, Stays
  <1> QED
    BY <1>3, <1>4

LEMMA AcknowledgesKept ==
    ASSUME Inv, [Next]_vars, NEW a, Acknowledges(a)
    PROVE  a # None => \E j \in DOMAIN applied' : applied'[j] = a
  BY AppliedStep DEF Acknowledges, IsApplied

\* The answer brings an input that becomes dispatched, later than all applied.
LEMMA ServedInput ==
    ASSUME Inv, NEW request, Served(request), NextInput(request) # None
    PROVE  /\ NextInput(request) \in DOMAIN inputs
           /\ IsSent(inputs'[NextInput(request)])
           /\ \A j \in DOMAIN applied : applied[j] < NextInput(request)
  <1>1. ConsoleTypeOK /\ Queue /\ AppliedWasSent
    BY DEF Inv, Execution
  <1> DEFINE n == NextInput(request)
  <1>2. n \in DOMAIN inputs /\ Pending(n)
    BY <1>1, NextOf, DispatchableIsPending
  <1>3. inputs'[n] = Dispatched(n) /\ inputs[n] \in Input
    BY <1>1, <1>2, Domains DEF Served
  <1>4. IsSent(inputs'[n])
    <2>1. inputs'[n] = [inputs[n] EXCEPT !.state = "dispatched"]
      BY <1>3 DEF Dispatched
    <2>2. [inputs[n] EXCEPT !.state = "dispatched"].state = "dispatched"
      BY <1>3, InputType
    <2> QED
      BY <2>1, <2>2 DEF IsSent
  <1>5. ASSUME NEW j \in DOMAIN applied PROVE applied[j] < n
    <2>1. applied[j] \in DOMAIN inputs /\ Sent(applied[j])
      BY <1>1 DEF AppliedWasSent
    <2>2. ~(n < applied[j])
      BY <1>1, <1>2, <2>1 DEF Queue, SentInOrder
    <2>3. n # applied[j]
      BY <1>2, <2>1 DEF Pending, Sent
    <2>4. n \in Nat /\ applied[j] \in Nat
      BY <1>1, <1>2, Domains
    <2> QED
      BY <2>2, <2>3, <2>4
  <1> QED
    BY <1>2, <1>4, <1>5

LEMMA SentKept ==
    ASSUME Inv, [Next]_vars, NEW i \in DOMAIN inputs, Sent(i)
    PROVE  i \in DOMAIN inputs' /\ IsSent(inputs'[i])
  BY InputsStep, InputKept DEF Inv, Sent, IsSent

LEMMA AppliedWasSentStep ==
    ASSUME Inv, [Next]_vars
    PROVE  AppliedWasSent'
  <1>1. ConsoleTypeOK /\ AppliedWasSent /\ AnswerIsNext
    BY DEF Inv, Execution
  <1>2. Len(applied) \in Nat /\ DOMAIN applied = 1..Len(applied)
    BY <1>1, Domains
  <1>3. Executes => /\ poll.input \in DOMAIN inputs
                    /\ Sent(poll.input)
                    /\ \A j \in DOMAIN applied : applied[j] < poll.input
                    /\ poll.input \in Nat /\ poll.input >= 1
    BY <1>1, Domains DEF Executes, Given, AnswerIsNext
  <1>4. Executes => poll.input >= Len(applied) + 1
    <2> SUFFICES ASSUME Executes PROVE poll.input >= Len(applied) + 1
      OBVIOUS
    <2>1. CASE Len(applied) = 0
      BY <2>1, <1>3
    <2>2. CASE Len(applied) # 0
      <3>1. Len(applied) \in DOMAIN applied
        BY <1>2, <2>2
      <3>2. applied[Len(applied)] >= Len(applied) /\ applied[Len(applied)] \in Nat
        BY <1>1, <3>1, Domains DEF AppliedWasSent
      <3>3. applied[Len(applied)] < poll.input
        BY <3>1, <1>3
      <3> QED
        BY <3>2, <3>3, <1>2, <1>3
    <2> QED
      BY <2>1, <2>2
  <1>5. ASSUME NEW j \in DOMAIN applied'
        PROVE  applied'[j] \in DOMAIN inputs' /\ IsSent(inputs'[applied'[j]]) /\ applied'[j] >= j
    <2>1. CASE j \in DOMAIN applied
      <3>1. applied'[j] = applied[j]
        BY <2>1, AppliedStep
      <3>2. applied[j] \in DOMAIN inputs /\ Sent(applied[j]) /\ applied[j] >= j
        BY <1>1, <2>1 DEF AppliedWasSent
      <3> QED
        BY <3>1, <3>2, SentKept
    <2>2. CASE j \notin DOMAIN applied
      <3>1. Executes /\ j = Len(applied) + 1 /\ applied'[j] = poll.input
        BY <2>2, AppliedStep
      <3> QED
        BY <3>1, <1>3, <1>4, SentKept
    <2> QED
      BY <2>1, <2>2
  <1>6. ASSUME NEW j \in DOMAIN applied', NEW k \in DOMAIN applied', j < k
        PROVE  applied'[j] < applied'[k]
    <2>1. CASE j \in DOMAIN applied /\ k \in DOMAIN applied
      BY <1>1, <1>6, <2>1, AppliedStep DEF AppliedWasSent
    <2>2. CASE j \in DOMAIN applied /\ k \notin DOMAIN applied
      BY <2>2, <1>3, AppliedStep
    <2>3. CASE j \notin DOMAIN applied
      <3>1. j = Len(applied) + 1 /\ (k \notin DOMAIN applied => k = Len(applied) + 1)
        BY <2>3, AppliedStep
      <3> QED
        BY <3>1, <1>2, <1>6
    <2> QED
      BY <2>1, <2>2, <2>3
  <1> QED
    BY <1>5, <1>6 DEF AppliedWasSent, Sent, IsSent

LEMMA AnswerIsNextStep ==
    ASSUME Inv, [Next]_vars
    PROVE  AnswerIsNext'
  <1> SUFFICES ASSUME poll'.pc \in {"answered", "loaded"}, poll'.input # None
               PROVE  /\ poll'.input \in DOMAIN inputs'
                      /\ IsSent(inputs'[poll'.input])
                      /\ \A j \in DOMAIN applied' : applied'[j] < poll'.input
    BY DEF AnswerIsNext, Sent, IsSent
  <1>1. ConsoleTypeOK /\ AnswerIsNext
    BY DEF Inv, Execution
  <1>2. applied' = applied
    <2>1. ~Executes
      BY DEF Executes, Resting
    <2> QED
      BY <2>1, AppliedStep
  <1>3. CASE /\ poll'.input = poll.input /\ poll.pc \in {"answered", "loaded"}
    <2>1. /\ poll.input \in DOMAIN inputs /\ Sent(poll.input)
          /\ \A j \in DOMAIN applied : applied[j] < poll.input
      BY <1>1, <1>3 DEF AnswerIsNext
    <2> QED
      BY <1>2, <1>3, <2>1, SentKept
  <1>4. CASE poll'.input = NextInput(poll.request) /\ Served(poll.request)
    BY <1>1, <1>2, <1>4, ServedInput, InputsStep, InputKept DEF Inv
  <1>5. ~Loads
    BY <1>1, LoadsEffect DEF PollAsked
  <1> QED
    BY <1>3, <1>4, <1>5, PollStep DEF PollAfter, Resting

LEMMA ServableIsRequested == Servable \subseteq Requests
  BY DEF Servable, Requests

LEMMA RequestsStep ==
    ASSUME [Next]_vars, NEW request \in Requests'
    PROVE  \/ request \in Requests
           \/ Loads /\ request = poll'.request
           \/ request = Resting.request
  <1>1. CASE request \in late'
    BY <1>1, PollStep, ServableIsRequested
  <1>2. CASE poll'.pc \notin {"answered", "loaded"} /\ request = poll'.request
    BY <1>2, PollStep DEF PollAfter, Requests, Resting
  <1> QED
    BY <1>1, <1>2 DEF Requests

LEMMA AcksAreTrueStep ==
    ASSUME Inv, [Next]_vars
    PROVE  AcksAreTrue'
  <1>1. ConsoleTypeOK /\ AcksAreTrue
    BY DEF Inv, Execution
  <1> DEFINE Told(a) == a # None => \E j \in DOMAIN applied' : applied'[j] = a
  <1>2. \A a : Acknowledges(a) => Told(a)
    BY AcknowledgesKept
  <1>3. Told(local'.ack)
    <2>1. CASE Executes
      BY <2>1, AppliedStep DEF Executes
    <2>2. CASE local'.ack \in {local.ack, None}
      BY <2>2, <1>1, <1>2 DEF AcksAreTrue
    <2> QED
      BY <1>1, <2>1, <2>2, BoardStep DEF Turns, Counts, Stays
  <1>4. ASSUME NEW request \in Requests' PROVE Told(request.ack)
    <2>1. CASE request \in Requests
      BY <2>1, <1>1, <1>2 DEF AcksAreTrue
    <2>2. CASE Loads /\ request = poll'.request
      <3>1. request.ack \in {None, local.ack, poll.request.ack} /\ poll.request \in Requests
        BY <1>1, <2>2, LoadsEffect
      <3> QED
        BY <3>1, <1>1, <1>2 DEF AcksAreTrue
    <2>3. CASE request = Resting.request
      BY <2>3 DEF Resting
    <2> QED
      BY <2>1, <2>2, <2>3, RequestsStep
  <1>5. Told(screen'.last)
    <2>1. CASE UNCHANGED screen
      BY <2>1, <1>1, <1>2 DEF AcksAreTrue
    <2>2. CASE \E request \in Servable : Served(request)
      <3>1. PICK request \in Requests : Served(request)
        BY <2>2, ServableIsRequested
      <3>2. screen'.last \in {request.ack, screen.last}
        BY <3>1 DEF Served
      <3> QED
        BY <3>1, <3>2, <1>1, <1>2 DEF AcksAreTrue
    <2> QED
      BY <2>1, <2>2, PollStep
  <1> QED
    BY <1>3, <1>4, <1>5 DEF AcksAreTrue, Acknowledges, IsApplied

\* An input that becomes acknowledged is one a poll acknowledged.
LEMMA AcknowledgedStep ==
    ASSUME Inv, [Next]_vars,
           NEW i \in DOMAIN inputs', inputs'[i].state = "acknowledged"
    PROVE  \/ i \in DOMAIN inputs /\ inputs[i].state = "acknowledged"
           \/ i # None /\ \E request \in Requests : i = request.ack
  <1>1. ConsoleTypeOK /\ InputsAfter
    BY InputsStep DEF Inv
  <1>2. i \in DOMAIN inputs
    BY <1>1, InputAdded
  <1>3. inputs[i] \in Input /\ i # None
    BY <1>1, <1>2, Domains
  <1> SUFFICES ASSUME inputs[i].state # "acknowledged"
               PROVE  \E request \in Requests : i = request.ack
    BY <1>2, <1>3
  <1>4. ~UNCHANGED inputs
    OBVIOUS
  <1>5. ASSUME NEW set, inputs' = Expiring(set) PROVE FALSE
    <2>1. inputs'[i] = inputs[i] \/ inputs'[i] = [inputs[i] EXCEPT !.state = "expired", !.waited = FALSE]
      BY <1>5, <1>2 DEF Expiring
    <2> QED
      BY <2>1, <1>3, InputType
  <1>6. ASSUME NEW request \in Requests, Served(request) PROVE i = request.ack
    <2>1. CASE i = NextInput(request)
      <3>1. inputs'[i] = [inputs[i] EXCEPT !.state = "dispatched"]
        BY <1>2, <1>6, <2>1 DEF Served, Dispatched
      <3> QED
        BY <3>1, <1>3, InputType
    <2>2. CASE i # NextInput(request) /\ ~(i = request.ack /\ Confirms(i))
      <3>1. inputs'[i] = inputs[i] \/ inputs'[i] = [inputs[i] EXCEPT !.state = "expired", !.waited = FALSE]
        BY <1>2, <1>6, <2>2 DEF Served, Expiring
      <3> QED
        BY <3>1, <1>3, InputType
    <2> QED
      BY <2>1, <2>2
  <1>7. ~TimePasses
    <2>1. ASSUME NEW n \in DOMAIN inputs, inputs' = [inputs EXCEPT ![n].state = "stale"]
          PROVE  FALSE
      <3>1. inputs'[i] = inputs[i] \/ inputs'[i] = [inputs[i] EXCEPT !.state = "stale"]
        BY <2>1, <1>2
      <3>2. [inputs[i] EXCEPT !.state = "stale"].state = "stale"
        BY <1>3, InputType
      <3> QED
        BY <3>1, <3>2
    <2>2. ASSUME NEW n, inputs' = [k \in DOMAIN inputs |->
                                     IF inputs[k].session = n /\ Pending(k)
                                     THEN [inputs[k] EXCEPT !.waited = TRUE] ELSE inputs[k]]
          PROVE  FALSE
      <3>1. inputs'[i] = inputs[i] \/ inputs'[i] = [inputs[i] EXCEPT !.waited = TRUE]
        BY <2>2, <1>2
      <3>2. [inputs[i] EXCEPT !.waited = TRUE].state = inputs[i].state
        BY <1>3, InputType
      <3> QED
        BY <3>1, <3>2
    <2> QED
      BY <1>4, <2>1, <2>2 DEF TimePasses
  <1>8. ~StartConsole /\ ~StopConsole
    BY <1>5 DEF StartConsole, StopConsole
  <1>9. ~Command
    <2>1. ASSUME Command PROVE FALSE
      <3>1. PICK r : inputs' = Append(inputs, r) /\ r \in Input
        <4>1. PICK m \in outbox : inputs' = Append(inputs, [session |-> m.session, number |-> m.number,
                                                            waited |-> FALSE, state |-> "pending"])
          BY <2>1, <1>4 DEF Command
        <4> QED
          BY <4>1, <1>1 DEF Input, ConsoleTypeOK
      <3>2. inputs \in Seq(Input) /\ DOMAIN inputs = 1..Len(inputs)
        BY <1>1 DEF ConsoleTypeOK
      <3>3. inputs'[i] = inputs[i]
        BY <3>1, <3>2, <1>2, AppendedSequence
      <3> QED
        BY <3>3
    <2> QED
      BY <2>1
  <1>10. CASE ServePoll
    BY <1>10, <1>4, <1>6 DEF ServePoll, Requests, platformVars
  <1>11. CASE PollLost
    BY <1>11, <1>4, <1>6 DEF PollLost, Requests, platformVars
  <1>12. CASE LatePoll
    BY <1>12, <1>4, <1>6 DEF LatePoll, Requests, platformVars
  <1>13. ~(Revoke \/ SendInput \/ PollState)
    BY <1>4 DEF Revoke, SendInput, PollState, platformVars
  <1>14. ~(Loads \/ ReadReply \/ ApplyReply \/ Heartbeat \/ LocalStep \/ PowerLoss)
    BY <1>4 DEF Loads, LoadRevision, LoadPage, SendPoll, ReadReply, ApplyReply, Heartbeat,
                LocalStep, LocalStop, DisplayStep, Deactivate, CountRevision,
                LocalNavigation, PowerLoss, platformVars
  <1>15. ~UNCHANGED vars
    BY <1>4 DEF vars, platformVars
  <1> QED
    BY <1>7, <1>8, <1>9, <1>10, <1>11, <1>12, <1>13, <1>14, <1>15
       DEF Next, OwnerStep, BrowserStep, WorkerStep, Polls, Loads

LEMMA ResultIsTrueStep ==
    ASSUME Inv, [Next]_vars
    PROVE  ResultIsTrue'
  <1>1. ConsoleTypeOK /\ AcksAreTrue /\ ResultIsTrue
    BY DEF Inv, Execution
  <1>2. ASSUME NEW i \in DOMAIN inputs', inputs'[i].state = "acknowledged" \/ i = screen'.last
        PROVE  \E j \in DOMAIN applied' : applied'[j] = i
    <2>1. CASE inputs'[i].state = "acknowledged"
      <3>1. CASE i \in DOMAIN inputs /\ inputs[i].state = "acknowledged"
        <4>1. \E j \in 1..Len(applied) : applied[j] = i
          BY <1>1, <3>1 DEF ResultIsTrue, Contains
        <4>2. DOMAIN applied = 1..Len(applied)
          BY <1>1, Domains
        <4> QED
          BY <4>1, <4>2, AppliedStep
      <3>2. CASE i # None /\ \E request \in Requests : i = request.ack
        BY <1>1, <3>2, AcknowledgesKept DEF AcksAreTrue
      <3> QED
        BY <2>1, <3>1, <3>2, AcknowledgedStep
    <2>2. CASE i = screen'.last
      <3>1. i # None
        BY <1>1, InputsStep, InputsTyped, ConsoleAssumption DEF Inv
      <3>2. AcksAreTrue'
        BY AcksAreTrueStep
      <3> QED
        BY <2>2, <3>1, <3>2 DEF AcksAreTrue, Acknowledges, IsApplied
    <2> QED
      BY <1>2, <2>1, <2>2
  <1>3. DOMAIN applied' = 1..Len(applied')
    BY AppliedStep
  <1> QED
    BY <1>2, <1>3 DEF ResultIsTrue, Contains

----------------------------------------------------------------------------
(* The screen.                                                             *)

LEMMA AppliedBound ==
    ASSUME Inv, [Next]_vars
    PROVE  Len(applied') \in 0..MaxInputs
  <1>1. AppliedWasSent' /\ ConsoleTypeOK /\ InputsAfter
    BY AppliedWasSentStep, InputsStep DEF Inv
  <1>2. applied' \in Seq(InputNo) /\ Len(applied') \in Nat /\ DOMAIN applied' = 1..Len(applied')
    BY AppliedStep
  <1>3. inputs' \in Seq(Input) /\ Len(inputs') <= MaxInputs /\ DOMAIN inputs' = 1..Len(inputs')
        /\ Len(inputs') \in Nat /\ MaxInputs \in Nat
    BY <1>1, InputsTyped, ConsoleAssumption
  <1>4. CASE Len(applied') = 0
    BY <1>3, <1>4
  <1>5. CASE Len(applied') # 0
    <2>1. Len(applied') \in DOMAIN applied'
      BY <1>2, <1>5
    <2>2. PICK a : a = applied'[Len(applied')]
      OBVIOUS
    <2>3. a \in DOMAIN inputs' /\ a >= Len(applied')
      BY <1>1, <2>1, <2>2 DEF AppliedWasSent
    <2> QED
      BY <1>2, <1>3, <2>3
  <1> QED
    BY <1>4, <1>5

LEMMA CountedScreen ==
    ASSUME NEW c \in [allowed: BOOLEAN, revision: Nat, version: Nat]
    PROVE  /\ Counted(c) \in [allowed: BOOLEAN, revision: Nat, version: Nat]
           /\ Counted(c).revision = c.revision + 1
           /\ Counted(c).version = c.version
  <1>1. PICK r \in Nat : r = c.revision + 1
    OBVIOUS
  <1>2. Counted(c) = [c EXCEPT !.revision = r]
    BY <1>1 DEF Counted
  <1> QED
    BY <1>1, <1>2

LEMMA ChangedScreen ==
    ASSUME ConsoleTypeOK, NEW allowed \in BOOLEAN
    PROVE  /\ Changed(allowed) \in [allowed: BOOLEAN, revision: Nat, version: Nat]
           /\ Changed(allowed).revision = local.screen.revision
           /\ Changed(allowed).version = local.screen.version + 1
  <1>1. local.screen \in [allowed: BOOLEAN, revision: Nat, version: Nat]
    BY BoardType DEF Screen
  <1>2. PICK s \in [allowed: BOOLEAN, revision: Nat, version: Nat] : s = local.screen
    BY <1>1
  <1>3. PICK v \in Nat : v = s.version + 1
    OBVIOUS
  <1>4. Changed(allowed) = [s EXCEPT !.allowed = allowed, !.version = v]
    BY <1>2, <1>3 DEF Changed
  <1> QED
    BY <1>2, <1>3, <1>4

\* What a step does to the screen of the board.
LEMMA ScreenStep ==
    ASSUME Inv, [Next]_vars
    PROVE  /\ local'.screen \in Screen
           /\ Bounded'
           /\ local'.screen.version \in Nat
           /\ local'.screen.version >= local.screen.version
  <1>1. ConsoleTypeOK /\ Bounded
    BY DEF Inv
  <1>2. PICK o \in Screen : o = local.screen
    BY <1>1, BoardType
  <1>3. /\ o \in [allowed: BOOLEAN, revision: Nat, version: Nat]
        /\ o.version <= MaxChanges + Len(applied)
        /\ o.revision <= o.version + 1
        /\ local.writing # "nothing" => o.revision <= o.version
    BY <1>1, <1>2, BoardType DEF Bounded, Fits, Screen
  <1>4. MaxChanges \in Nat /\ MaxInputs \in Nat /\ Len(applied) \in Nat
    BY <1>1, Domains, ConsoleAssumption
  <1>5. PICK size \in 0..MaxInputs : size = Len(applied')
    BY AppliedBound
  <1>6. /\ Executes => size = Len(applied) + 1
        /\ ~Executes => size = Len(applied)
    BY <1>5, AppliedStep
  <1>7. PICK s : s = local'.screen
    OBVIOUS
  <1> DEFINE Grown == /\ s \in [allowed: BOOLEAN, revision: Nat, version: Nat]
                      /\ s.version <= MaxChanges + size /\ s.version >= o.version
                      /\ s.revision <= s.version + 1
                      /\ local'.writing # "nothing" => s.revision <= s.version
  <1>8. SUFFICES Grown
    <2>1. ASSUME Grown
          PROVE  s.version \in 0..MaxChanges + MaxInputs /\ s.revision \in 0..MaxChanges + MaxInputs + 1
      BY <1>4, <1>5, <2>1
    <2>2. ASSUME Grown PROVE s \in Screen
      BY <2>1, <2>2 DEF Screen, Version
    <2>3. ASSUME Grown PROVE Bounded'
      BY <1>5, <1>7, <2>3 DEF Bounded, Fits
    <2> QED
      BY <1>2, <1>7, <2>2, <2>3
  <1>9. ASSUME s = o, local'.writing = "nothing" <=> local.writing = "nothing"
        PROVE  Grown
    BY <1>3, <1>4, <1>6, <1>9
  <1>10. CASE Executes
    <2>1. CASE UNCHANGED local.screen
      BY <1>2, <1>7, <1>9, <1>10, <2>1 DEF Executes
    <2>2. CASE local.writing = "nothing" /\ local'.screen = Counted(Changed(local.screen.allowed))
      <3>1. PICK c \in [allowed: BOOLEAN, revision: Nat, version: Nat] :
                c = Changed(local.screen.allowed) /\ c.revision = o.revision /\ c.version = o.version + 1
        BY <1>1, <1>2, BoardType, ChangedScreen
      <3>2. /\ s \in [allowed: BOOLEAN, revision: Nat, version: Nat]
            /\ s.revision = o.revision + 1 /\ s.version = o.version + 1
        BY <1>7, <2>2, <3>1, CountedScreen
      <3>3. local'.writing = "nothing"
        BY <1>10, <2>2 DEF Executes
      <3> QED
        BY <1>3, <1>4, <1>6, <1>10, <3>2, <3>3
    <2> QED
      BY <1>10, <2>1, <2>2 DEF Executes
  <1>11. CASE Turns
    <2>1. o.version < MaxChanges + size
      <3>1. applied' = applied /\ o.version < MaxChanges + Len(applied)
        BY <1>2, <1>11 DEF Turns
      <3> QED
        BY <1>5, <3>1
    <2>2. CASE \E allowed \in BOOLEAN : local'.screen = Changed(allowed)
      <3>1. PICK allowed \in BOOLEAN : local'.screen = Changed(allowed)
        BY <2>2
      <3>2. /\ s \in [allowed: BOOLEAN, revision: Nat, version: Nat]
            /\ s.revision = o.revision /\ s.version = o.version + 1
        BY <1>1, <1>2, <1>7, <3>1, ChangedScreen
      <3> QED
        BY <1>3, <1>4, <2>1, <3>2
    <2>3. CASE local'.screen = Boot(local.screen.version + 1)
      <3>1. s = [allowed |-> TRUE, revision |-> 1, version |-> o.version + 1]
        BY <1>2, <1>7, <2>3 DEF Boot
      <3>2. s \in [allowed: BOOLEAN, revision: Nat, version: Nat]
            /\ s.version = o.version + 1 /\ s.revision = 1
        BY <1>3, <3>1
      <3> QED
        BY <1>3, <1>4, <2>1, <3>2
    <2> QED
      BY <1>11, <2>2, <2>3 DEF Turns
  <1>12. CASE Counts
    <2>1. local.writing # "nothing" /\ local'.writing = "nothing" /\ s = Counted(o)
      BY <1>2, <1>7, <1>12 DEF Counts
    <2>2. /\ s \in [allowed: BOOLEAN, revision: Nat, version: Nat]
          /\ s.revision = o.revision + 1 /\ s.version = o.version
      BY <1>3, <2>1, CountedScreen
    <2>3. applied' = applied
      BY <1>12 DEF Counts
    <2> QED
      BY <1>3, <1>4, <1>5, <2>1, <2>2, <2>3
  <1>13. CASE Stays
    BY <1>2, <1>7, <1>9, <1>13 DEF Stays
  <1> QED
    BY <1>1, <1>10, <1>11, <1>12, <1>13, BoardStep

LEMMA ServedScreen ==
    ASSUME ConsoleTypeOK, NEW request \in Servable, Served(request)
    PROVE  /\ screen' \in [seen: Screen, last: InputNo \cup {None}]
           /\ screen'.seen = request.screen
  <1>1. request.screen \in Screen /\ request.ack \in InputNo \cup {None}
    BY RequestType, ServableIsRequested
  <1>2. screen.last \in InputNo \cup {None}
    BY DEF ConsoleTypeOK
  <1> QED
    BY <1>1, <1>2 DEF Served

\* What the page shows is what it showed, what the platform holds, or nothing.
BrowserAfter ==
    \/ browser' = browser
    \/ browser' \in Page /\ browser'.session = None /\ browser'.revision = -1 /\ browser'.version = 0
    \/ /\ browser' \in Page /\ UNCHANGED <<browser.session, browser.revision, browser.version>>
    \/ /\ UNCHANGED screen
       /\ browser' \in Page /\ browser' = Shown(browser) /\ browser'.session = browser.session
    \/ /\ UNCHANGED screen
       /\ browser.session = None
       /\ browser' \in Page
       /\ \/ browser'.revision = -1 /\ browser'.version = 0
          \/ /\ browser'.revision = screen.seen.revision
             /\ browser'.version = screen.seen.version

LEMMA PageStep ==
    ASSUME ConsoleTypeOK, [Next]_vars
    PROVE  BrowserAfter
  <1>0. browser \in Page
    BY EndedPage
  <1>1. CASE StartConsole
    <2>1. Len(sessions) + 1 \in SessionNo
      BY <1>1, NextSession
    <2>2. PICK b : b = [Ended EXCEPT !.session = Len(sessions) + 1]
      OBVIOUS
    <2>3. b \in Page /\ b.revision = -1 /\ b.version = 0
      BY <2>1, <2>2, EndedPage
    <2>4. browser' = Shown(b) /\ browser.session = None /\ UNCHANGED screen
      BY <1>1, <2>2 DEF StartConsole
    <2> QED
      BY <2>3, <2>4, ShownPage DEF BrowserAfter
  <1>2. CASE StopConsole
    BY <1>2, EndedPage DEF StopConsole, BrowserAfter
  <1>3. CASE PollState
    <2>1. browser' = Shown(browser) \/ browser' = Ended
      BY <1>3 DEF PollState
    <2>2. UNCHANGED screen
      BY <1>3 DEF PollState, platformVars
    <2> QED
      BY <1>0, <2>1, <2>2, EndedPage, ShownPage DEF BrowserAfter
  <1>4. CASE SendInput
    <2>1. browser' = [browser EXCEPT !.number = browser.number + 1] /\ browser.number < MaxInputs
      BY <1>4 DEF SendInput
    <2>2. browser.number + 1 \in 0..MaxInputs
      BY <1>0, <2>1, ConsoleAssumption DEF Page
    <2> QED
      BY <1>0, <2>1, <2>2 DEF Page, BrowserAfter
  <1>5. CASE Command \/ Revoke \/ TimePasses \/ WorkerStep \/ LocalStep \/ PollLost \/ LatePoll
             \/ PowerLoss \/ UNCHANGED vars
    <2>1. UNCHANGED browser
      BY <1>5 DEF Command, Revoke, TimePasses, WorkerStep, Polls, Loads, LoadRevision, LoadPage,
                  SendPoll, ServePoll, ReadReply, ApplyReply,
                  Heartbeat, LocalStep, LocalStop, DisplayStep, Deactivate, CountRevision,
                  LocalNavigation, PollLost, LatePoll,
                  PowerLoss, vars
    <2> QED
      BY <2>1 DEF BrowserAfter
  <1> QED
    BY <1>1, <1>2, <1>3, <1>4, <1>5 DEF Next, OwnerStep, BrowserStep

LEMMA ScreensFitStep ==
    ASSUME Inv, [Next]_vars
    PROVE  ScreensFit'
  <1>1. ConsoleTypeOK /\ ScreensFit /\ Bounded
    BY DEF Inv
  <1>2. poll'.pc \in {"revision", "page", "sent"} => poll' = poll \/ Loads
    BY PollStep DEF PollAfter, Resting
  <1>3. Loads => UNCHANGED <<late, local>>
    BY <1>1, LoadsEffect
  <1>4. ASSUME NEW request \in Servable'
        PROVE  Fits(request.screen.revision, request.screen.version)
    <2>1. CASE request \in late'
      BY <1>1, <2>1, PollStep DEF ScreensFit
    <2>2. CASE poll'.pc = "sent" /\ request = poll'.request
      <3>1. CASE poll' = poll
        BY <1>1, <2>2, <3>1 DEF ScreensFit, Servable
      <3>2. CASE Loads
        BY <1>1, <2>2, <3>2, LoadsEffect DEF ScreensFit
      <3> QED
        BY <1>2, <2>2, <3>1, <3>2
    <2> QED
      BY <2>1, <2>2 DEF Servable
  <1>5. ASSUME poll'.pc = "revision"
        PROVE  Fits(poll'.request.screen.revision, local'.screen.version)
    <2>1. CASE poll' = poll
      <3>1. poll.request.screen.revision \in Nat /\ Fits(poll.request.screen.revision, local.screen.version)
        <4>1. poll.request \in Poll
          BY <1>1, <1>5, <2>1, PollType
        <4> QED
          BY <1>1, <1>5, <2>1, <4>1, ConsoleAssumption DEF ScreensFit, Poll, Screen
      <3>2. local.screen.version \in Nat /\ local'.screen.version \in Nat
            /\ local'.screen.version >= local.screen.version
        BY <1>1, BoardType, ScreenStep
      <3> QED
        BY <2>1, <3>1, <3>2 DEF Fits
    <2>2. CASE Loads
      BY <1>1, <1>3, <1>5, <2>2, LoadsEffect DEF Bounded
    <2> QED
      BY <1>2, <1>5, <2>1, <2>2
  <1>6. ASSUME poll'.pc = "page"
        PROVE  Fits(poll'.request.screen.revision, poll'.request.screen.version)
    BY <1>1, <1>2, <1>6, LoadsEffect DEF ScreensFit
  <1>7. Fits(screen'.seen.revision, screen'.seen.version)
    <2>1. CASE UNCHANGED screen
      BY <1>1, <2>1 DEF ScreensFit
    <2>2. CASE \E request \in Servable : Served(request)
      BY <1>1, <2>2, ServedScreen DEF ScreensFit
    <2> QED
      BY <2>1, <2>2, PollStep
  <1>8. Fits(browser'.revision, browser'.version)
    <2>1. Fits(-1, 0)
      BY DEF Fits
    <2>2. browser \in Page
      BY <1>1, EndedPage
    <2> QED
      BY <1>1, <2>1, <2>2, PageStep, ShownPage DEF BrowserAfter, ScreensFit
  <1> QED
    BY <1>4, <1>5, <1>6, <1>7, <1>8 DEF ScreensFit

----------------------------------------------------------------------------
(* Types.                                                                  *)

LEMMA PollTypeStep ==
    ASSUME ConsoleTypeOK, [Next]_vars
    PROVE  poll' \in PollAsked \cup PollTold \cup PollRead
  <1>1. CASE UNCHANGED poll
    BY <1>1 DEF ConsoleTypeOK, PollAsked, PollTold, PollRead
  <1>2. CASE poll' = Resting
    <2>1. Resting.request \in Poll
      BY BootScreen DEF Resting, Poll
    <2> QED
      BY <1>2, <2>1 DEF Resting, PollAsked
  <1>3. CASE Loads
    BY <1>3, LoadsEffect
  <1>4. CASE /\ poll.pc = "sent"
             /\ poll' = [pc |-> "answered", ack |-> poll.request.ack,
                         active |-> Current # {}, input |-> NextInput(poll.request)]
    <2>1. poll.request.ack \in InputNo \cup {None}
      BY <1>4, PollType DEF Poll
    <2>2. NextInput(poll.request) \in InputNo \cup {None}
      <3>1. NextInput(poll.request) # None => NextInput(poll.request) \in DOMAIN inputs
        BY NextOf DEF Dispatchable
      <3> QED
        BY <3>1, Domains
    <2>3. (Current # {}) \in BOOLEAN
      OBVIOUS
    <2> QED
      BY <1>4, <2>1, <2>2, <2>3 DEF PollTold
  <1>5. CASE /\ poll.pc = "answered"
             /\ poll' = [pc |-> "loaded", active |-> poll.active, enable |-> Enabled, input |-> poll.input]
    <2>1. poll.active \in BOOLEAN /\ poll.input \in InputNo \cup {None}
      BY <1>5, PollType
    <2>2. Enabled \in BOOLEAN
      BY DEF Enabled
    <2> QED
      BY <1>5, <2>1, <2>2 DEF PollRead
  <1> QED
    BY <1>1, <1>2, <1>3, <1>4, <1>5, PollStep DEF PollAfter

LEMMA TypeStep ==
    ASSUME Inv, [Next]_vars
    PROVE  ConsoleTypeOK'
  <1>1. ConsoleTypeOK /\ Queue
    BY DEF Inv
  <1>2. sessions' \in Seq(Session) /\ Len(sessions') <= MaxSessions
    BY <1>1, SessionsStep DEF Queue
  <1>3. inputs' \in Seq(Input) /\ Len(inputs') <= MaxInputs
    BY <1>1, InputsStep, InputsTyped
  <1>4. screen' \in [seen: Screen, last: InputNo \cup {None}]
    <2>1. screen \in [seen: Screen, last: InputNo \cup {None}]
      BY <1>1 DEF ConsoleTypeOK
    <2> QED
      BY <1>1, <2>1, PollStep, ServedScreen
  <1>5. revoked' \in BOOLEAN
    <2>1. revoked \in BOOLEAN
      BY <1>1 DEF ConsoleTypeOK
    <2>2. revoked' = revoked \/ revoked' = TRUE
      BY DEF Next, OwnerStep, BrowserStep, WorkerStep, Polls, Loads, LocalStep, StartConsole,
             StopConsole, Revoke,
             SendInput, PollState, Command, TimePasses, Loads, LoadRevision, LoadPage, SendPoll,
             ServePoll, ReadReply, ApplyReply,
             Heartbeat, LocalStop, DisplayStep, Deactivate, CountRevision, LocalNavigation,
             PollLost, LatePoll, PowerLoss, Served, vars,
             platformVars
    <2> QED
      BY <2>1, <2>2
  <1>6. browser' \in Page
    BY <1>1, PageStep, EndedPage DEF BrowserAfter
  <1>7. outbox' \subseteq [session: SessionNo, number: InputNo]
    <2>1. outbox \subseteq [session: SessionNo, number: InputNo]
      BY <1>1 DEF ConsoleTypeOK
    <2>2. CASE SendInput
      <3>1. browser \in Page
        BY <1>1, EndedPage
      <3>2. browser.session \in SessionNo /\ browser.number + 1 \in InputNo
        BY <2>2, <3>1, ConsoleAssumption DEF SendInput, Page, InputNo
      <3> QED
        BY <2>1, <2>2, <3>2 DEF SendInput
    <2>3. CASE Command
      BY <2>1, <2>3 DEF Command
    <2>4. CASE ~SendInput /\ ~Command
      <3>1. UNCHANGED outbox
        BY <2>4 DEF Next, OwnerStep, BrowserStep, WorkerStep, Polls, Loads, LocalStep,
                    StartConsole, StopConsole,
               Revoke, PollState, TimePasses, Loads, LoadRevision, LoadPage, SendPoll, ServePoll,
               ReadReply, ApplyReply,
               Heartbeat, LocalStop, DisplayStep, Deactivate, CountRevision, LocalNavigation,
               PollLost, LatePoll, PowerLoss, vars
      <3> QED
        BY <2>1, <3>1
    <2> QED
      BY <2>2, <2>3, <2>4
  <1>8. local' \in Board
    <2>1. local'.ack \in InputNo \cup {None}
      BY <1>1, BoardStep, BoardType, PollType DEF Executes, Given, Turns, Counts, Stays
    <2>2. local'.screen \in Screen
      BY ScreenStep
    <2>3. local' \in [open: BOOLEAN, active: BOOLEAN, paired: BOOLEAN, rebooted: BOOLEAN,
                      writing: Writing, screen: {local'.screen}, ack: {local'.ack}]
      BY <1>1, BoardStep
    <2> QED
      BY <2>1, <2>2, <2>3 DEF Board
  <1>9. late' \subseteq Poll
    <2>1. Servable \subseteq Poll
      BY <1>1, PollType DEF Servable, ConsoleTypeOK
    <2> QED
      BY <2>1, PollStep
  <1>10. applied' \in Seq(InputNo)
    BY AppliedStep
  <1>11. faults' \in 0..MaxFaults
    <2>1. faults \in 0..MaxFaults /\ MaxFaults \in Nat
      BY <1>1, ConsoleAssumption DEF ConsoleTypeOK
    <2>2. UNCHANGED faults \/ Fault
      BY DEF Next, OwnerStep, BrowserStep, WorkerStep, Polls, Loads, LocalStep, StartConsole,
             StopConsole, Revoke,
             SendInput, PollState, Command, TimePasses, Loads, LoadRevision, LoadPage, SendPoll,
             ServePoll, ReadReply, ApplyReply,
             Heartbeat, LocalStop, DisplayStep, Deactivate, CountRevision, LocalNavigation,
             PollLost, LatePoll, PowerLoss, vars
    <2> QED
      BY <2>1, <2>2 DEF Fault
  <1>12. poll' \in PollAsked \cup PollTold \cup PollRead
    BY <1>1, PollTypeStep
  <1> QED
    BY <1>2, <1>3, <1>4, <1>5, <1>6, <1>7, <1>8, <1>9, <1>10, <1>11, <1>12
       DEF ConsoleTypeOK, Page, Board, PollAsked, PollTold, PollRead

----------------------------------------------------------------------------
(* The theorems.                                                           *)

LEMMA Initially ==
    ASSUME Init
    PROVE  Inv
  <1>1. ConsoleTypeOK
    <2>1. Boot(0) \in Screen /\ [Boot(0) EXCEPT !.revision = 0] \in Screen
      <3>1. 0 \in 0..MaxChanges + MaxInputs + 1
        BY ConsoleAssumption
      <3>3. Boot(0) \in Screen
        BY BootScreen
      <3>4. PICK b : b = Boot(0)
        OBVIOUS
      <3>5. [b EXCEPT !.revision = 0] \in Screen
        BY <3>1, <3>3, <3>4 DEF Screen
      <3> QED
        BY <3>3, <3>4, <3>5
    <2>2. Resting \in [pc: {"idle", "revision", "page", "sent"}, request: Poll]
      BY <2>1 DEF Resting, Poll
    <2>3. 0 \in 0..MaxInputs /\ -1 \in -1..MaxChanges + MaxInputs + 1 /\ 0 \in Version
          /\ 0 \in 0..MaxFaults /\ 0 <= MaxSessions /\ 0 <= MaxInputs
      BY ConsoleAssumption DEF Version
    <2>4. /\ <<>> \in Seq(Session) /\ <<>> \in Seq(Input) /\ <<>> \in Seq(InputNo)
          /\ Len(sessions) = 0 /\ Len(inputs) = 0
      BY DEF Init
    <2> QED
      BY <2>1, <2>2, <2>3, <2>4 DEF Init, ConsoleTypeOK, Writing
  <1>2. DOMAIN inputs = {} /\ DOMAIN applied = {} /\ Len(applied) = 0
    BY DEF Init
  <1>3. Queue
    BY <1>2 DEF Init, Queue, Referenced, Numbered, Gapped, SentInOrder
  <1>4. Requests = {[screen |-> Boot(0), ack |-> None]}
    BY DEF Init, Requests, Resting
  <1>5. Execution
    BY <1>2, <1>4 DEF Init, Execution, AppliedWasSent, AnswerIsNext, AcksAreTrue, Acknowledges,
                      ResultIsTrue, Resting
  <1>6. /\ local.screen.revision = 1 /\ local.screen.version = 0 /\ local.writing = "nothing"
        /\ screen.seen.revision = 0 /\ screen.seen.version = 0
        /\ browser.revision = -1 /\ browser.version = 0
    BY DEF Init, Boot
  <1>7. Fits(1, 0) /\ Fits(0, 0) /\ Fits(-1, 0)
    BY DEF Fits
  <1>8. Bounded
    BY <1>2, <1>6, <1>7, ConsoleAssumption DEF Bounded
  <1>9. Servable = {} /\ poll.pc = "idle"
    BY DEF Init, Servable, Resting
  <1>10. ScreensFit
    BY <1>6, <1>7, <1>9 DEF ScreensFit
  <1> QED
    BY <1>1, <1>3, <1>5, <1>8, <1>10 DEF Inv

LEMMA Inductive ==
    ASSUME Inv, [Next]_vars
    PROVE  Inv'
  <1>1. Execution'
    BY AppliedWasSentStep, AnswerIsNextStep, AcksAreTrueStep, ResultIsTrueStep DEF Execution
  <1>2. Bounded'
    BY ScreenStep
  <1> QED
    BY <1>1, <1>2, TypeStep, QueueStep, ScreensFitStep DEF Inv

LEMMA InvAlways == Spec => []Inv
  <1> QED
    BY Initially, Inductive, PTL DEF Spec

\* The console's rows, the board, its polls and the page have their types; in
\* particular no more inputs are applied than the owner gave.
THEOREM ConsoleTypeCorrect == Spec => []ConsoleTypeOK
  <1>1. Inv => ConsoleTypeOK
    BY DEF Inv
  <1> QED
    BY <1>1, InvAlways, PTL

\* Inputs are applied in the order they were given and at most once, nothing
\* queued before a connection gap is, and what the owner is told was applied was
\* (command, sync, console_sync).
THEOREM InputsAlwaysFaithful == Spec => []InputsAreFaithful
  <1>1. ASSUME Inv PROVE InputsAreFaithful
    <2>1. ConsoleTypeOK /\ Queue /\ Execution
      BY <1>1 DEF Inv
    <2>2. AppliedInOrder
      <3> SUFFICES ASSUME NEW j \in DOMAIN applied, NEW k \in DOMAIN applied, j < k
                   PROVE  /\ applied[j] < applied[k]
                          /\ inputs[applied[j]].session = inputs[applied[k]].session
                                => inputs[applied[j]].number < inputs[applied[k]].number
        BY DEF AppliedInOrder
      <3>1. /\ applied[j] < applied[k]
            /\ applied[j] \in DOMAIN inputs /\ applied[k] \in DOMAIN inputs
        BY <2>1 DEF Execution, AppliedWasSent
      <3> QED
        BY <2>1, <3>1 DEF Queue, Numbered, SessionOf
    <2>3. NoInputAfterGap
      BY <2>1 DEF NoInputAfterGap, Execution, AppliedWasSent, Queue, SentInOrder
    <2>4. ResultIsTrue
      BY <2>1 DEF Execution
    <2> QED
      BY <2>2, <2>3, <2>4 DEF InputsAreFaithful
  <1> QED
    BY <1>1, InvAlways, PTL

LEMMA MirrorStep ==
    ASSUME Inv, [Next]_vars, browser'.session = browser.session, browser.session # None
    PROVE  browser'.version + 1 >= browser.revision
  <1>1. ConsoleTypeOK /\ ScreensFit
    BY DEF Inv
  <1>2. browser \in Page /\ browser.version \in Nat /\ browser.revision \in Int
    <2>1. browser \in Page
      BY <1>1, EndedPage
    <2> QED
      BY <2>1, ConsoleAssumption DEF Page, Version
  <1>3. CASE browser'.version = browser.version
    BY <1>1, <1>2, <1>3 DEF ScreensFit, Fits
  <1>4. CASE browser' = Shown(browser) /\ browser'.version # browser.version
    <2>1. NewestRevision(browser) /\ browser'.version = screen.seen.version
      BY <1>1, <1>2, <1>4, ShownPage
    <2>2. screen.seen.version \in Nat /\ screen.seen.revision \in Nat
      <3>1. screen.seen \in Screen
        BY <1>1 DEF ConsoleTypeOK
      <3> QED
        BY <3>1, ConsoleAssumption DEF Screen, Version
    <2>3. screen.seen.revision <= screen.seen.version + 1
      BY <1>1 DEF ScreensFit, Fits
    <2>4. screen.seen.revision >= browser.revision
      BY <2>1 DEF NewestRevision
    <2> QED
      BY <2>1, <2>2, <2>3, <2>4, <1>2
  <1> QED
    BY <1>1, <1>3, <1>4, PageStep DEF BrowserAfter

\* Once the page showed revision r in a session, it never shows a screen from
\* before the r - 1 changes that revision announces (page, console_sync, sync,
\* apply): the changes and the loads of their fields may interleave as they like.
THEOREM MirrorNeverReturns == Spec => MirrorNeverGoesBack
  <1>1. ASSUME Inv, [Next]_vars
        PROVE  [browser'.session = browser.session /\ browser.session # None
                   => browser'.version + 1 >= browser.revision]_vars
    BY <1>1, MirrorStep
  <1> QED
    BY <1>1, InvAlways, PTL DEF Spec, MirrorNeverGoesBack
=============================================================================
