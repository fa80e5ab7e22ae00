---------------------------- MODULE VisualConsole ----------------------------
(***************************************************************************)
(* The visual console of one device: the owner's browser sends inputs to a *)
(* session, the board fetches them by polling and reports its screen, and  *)
(* whoever stands at the board may stop remote control at any moment.      *)
(*                                                                         *)
(* The platform's operations lock the device row, so each is one action.   *)
(* Requests of the browser may overtake one another.  A poll of the board  *)
(* loads the revision, the page and the control one by one, while the      *)
(* display's task changes them one by one; it is then sent, answered and   *)
(* applied, and may be lost or reach the platform late.                    *)
(***************************************************************************)
EXTENDS Integers, Sequences, SequencesExt

CONSTANTS
    MaxSessions,
    MaxInputs,    \* inputs the owner gives
    MaxChanges,   \* changes of the board's screen other than by inputs, boots included
    MaxFaults,    \* lost or late polls and power losses
    Mixtures,     \* how much of each one behaviour may have, see Mixture
    None

Mixture == [sessions: Nat, inputs: Nat, changes: Nat, faults: Nat]

ASSUME ConsoleAssumption ==
    /\ MaxSessions \in Nat \ {0}
    /\ MaxInputs \in Nat \ {0}
    /\ MaxChanges \in Nat
    /\ MaxFaults \in Nat
    /\ Mixtures \subseteq Mixture
    /\ None \notin Nat

VARIABLES
    sessions,  \* DeviceConsoleSession rows in order of creation
    inputs,    \* DeviceConsoleCommand rows in order of creation
    screen,    \* the DeviceConsoleState row
    revoked,
    browser,   \* the page of the owner
    outbox,    \* command requests of the browser under way
    local,     \* the board: its screen and the console flags
    poll,      \* the poll of the board under way
    late,      \* polls the platform has yet to receive
    applied,   \* history: inputs applied on the board, in order
    faults

platformVars == <<sessions, inputs, screen, revoked>>
vars == <<platformVars, browser, outbox, local, poll, late, applied, faults>>

SessionNo == 1..MaxSessions
InputNo   == 1..MaxInputs
Version   == 0..MaxChanges + MaxInputs

\* A live session the board has not joined, or polls for, or has not polled for
\* six seconds; one past its ten minutes; one that was ended.
Session == {"new", "joined", "lapsed", "expired", "ended"}

\* stale: pending for more than eight seconds; waited: was pending when the
\* board had been away for six seconds (history).
Input == [session: SessionNo, number: InputNo, waited: BOOLEAN,
          state: {"pending", "stale", "dispatched", "acknowledged", "expired"}]

\* version counts the changes of the page and of the control (history); in a poll
\* it is the one the page was loaded from, and allowed is loaded after it.  The
\* revision the board reports starts again with every boot.
Screen == [allowed: BOOLEAN, revision: 0..MaxChanges + MaxInputs + 1, version: Version]

Poll == [screen: Screen, ack: InputNo \cup {None}]

\* What the display's task has yet to write of a change it began: remote_active
\* and the revision, or the revision alone.
Writing == {"nothing", "control", "revision"}

ConsoleTypeOK ==
    /\ sessions \in Seq(Session) /\ Len(sessions) <= MaxSessions
    /\ inputs \in Seq(Input) /\ Len(inputs) <= MaxInputs
    /\ screen \in [seen: Screen, last: InputNo \cup {None}]
    /\ revoked \in BOOLEAN
    /\ browser \in [session: SessionNo \cup {None}, number: 0..MaxInputs,
                    revision: -1..MaxChanges + MaxInputs + 1, version: Version,
                    remembered: InputNo \cup {None}, rings: Seq(InputNo)]
    /\ outbox \subseteq [session: SessionNo, number: InputNo]
    /\ local \in [screen: Screen, open: BOOLEAN, active: BOOLEAN, ack: InputNo \cup {None},
                  paired: BOOLEAN, rebooted: BOOLEAN, writing: Writing]
    /\ poll \in [pc: {"idle", "revision", "page", "sent"}, request: Poll]
             \cup [pc: {"answered"}, ack: InputNo \cup {None}, active: BOOLEAN,
                   input: InputNo \cup {None}]
             \cup [pc: {"loaded"}, active: BOOLEAN, enable: BOOLEAN, input: InputNo \cup {None}]
    /\ late \subseteq Poll
    /\ applied \in Seq(InputNo)
    /\ faults \in 0..MaxFaults

Boot(version) == [allowed |-> TRUE, revision |-> 1, version |-> version]

Resting == [pc |-> "idle", request |-> [screen |-> Boot(0), ack |-> None]]

Init ==
    /\ sessions = <<>>
    /\ inputs = <<>>
    /\ screen = [seen |-> [Boot(0) EXCEPT !.revision = 0], last |-> None]
    /\ revoked = FALSE
    /\ browser = [session |-> None, number |-> 0, revision |-> -1, version |-> 0,
                  remembered |-> None, rings |-> <<>>]
    /\ outbox = {}
    /\ local = [screen |-> Boot(0), open |-> FALSE, active |-> FALSE, ack |-> None,
                paired |-> TRUE, rebooted |-> FALSE, writing |-> "nothing"]
    /\ poll = Resting
    /\ late = {}
    /\ applied = <<>>
    /\ faults = 0

\* Requests that were refused count for the page that sent them.
Used == [sessions |-> Len(sessions),
         inputs   |-> Max({Len(inputs) + Cardinality(outbox), browser.number}),
         changes  |-> Max({local.screen.version - Len(applied), 0}),
         faults   |-> faults]

\* Some mixture has one more of each of these.
Within(more) ==
    \E m \in Mixtures : \A what \in DOMAIN Used :
        IF what \in more THEN Used[what] < m[what] ELSE Used[what] <= m[what]

Fault == faults < MaxFaults /\ Within({"faults"}) /\ faults' = faults + 1
Fine  == UNCHANGED faults

----------------------------------------------------------------------------
(* The platform.                                                           *)

Live(n) == sessions[n] \in {"new", "joined", "lapsed"}

IsLive(n) == Live(n) /\ ~revoked

Pending(i) == inputs[i].state \in {"pending", "stale"}

\* The inputs with those of the set dropped, if still pending.
Expiring(set) == [i \in DOMAIN inputs |->
    IF i \in set /\ Pending(i) THEN [inputs[i] EXCEPT !.state = "expired", !.waited = FALSE]
    ELSE inputs[i]]

InputsOf(ns) == {i \in DOMAIN inputs : inputs[i].session \in ns}

\* Mutation of NewestRevision: whatever the platform holds is shown.
AnyRevision(b) == TRUE

\* apply(): an older revision than the one shown is refused.
NewestRevision(b) == screen.seen.revision >= b.revision

\* The acknowledgement ring runs for an input the page does not remember as
\* acknowledged; rings are the inputs it ever ran for (history).
Ringing(b) == screen.last # None /\ screen.last # b.remembered

Shown(b) ==
    IF ~NewestRevision(b) THEN b
    ELSE [b EXCEPT !.revision = screen.seen.revision,
                   !.version = screen.seen.version,
                   !.remembered = IF screen.last = None THEN @ ELSE screen.last,
                   !.rings = IF Ringing(b) THEN Append(@, screen.last) ELSE @]

\* endUI(): what start() resets is reset here.
Ended == [browser EXCEPT !.session = None, !.number = 0, !.revision = -1, !.version = 0,
                         !.remembered = None]

\* start: the sessions before it end with their pending inputs.
StartConsole ==
    /\ browser.session = None
    /\ ~revoked
    /\ Len(sessions) < MaxSessions
    /\ Within({"sessions"})
    /\ sessions' = Append([n \in DOMAIN sessions |-> "ended"], "new")
    /\ inputs' = Expiring({i \in DOMAIN inputs : sessions[inputs[i].session] # "ended"})
    /\ browser' = Shown([Ended EXCEPT !.session = Len(sessions) + 1])
    /\ UNCHANGED <<screen, revoked, outbox, local, poll, late, applied, faults>>

\* state, every 0.8 seconds; a session that is over ends the page.
PollState ==
    /\ browser.session # None
    /\ browser' = IF IsLive(browser.session) THEN Shown(browser) ELSE Ended
    /\ UNCHANGED <<platformVars, outbox, local, poll, late, applied, faults>>

\* A click or a key; the request is under way.
SendInput ==
    /\ browser.session # None
    /\ browser.number < MaxInputs
    /\ Within({"inputs"})
    /\ browser' = [browser EXCEPT !.number = @ + 1]
    /\ outbox' = outbox \cup {[session |-> browser.session, number |-> browser.number + 1]}
    /\ UNCHANGED <<platformVars, local, poll, late, applied, faults>>

\* Mutation of InSequence: a command that was overtaken is taken as well.
AnySequence(m) == TRUE

InSequence(m) == \A i \in InputsOf({m.session}) : inputs[i].number < m.number

Accepted(m) == /\ IsLive(m.session)
               /\ sessions[m.session] = "joined"
               /\ screen.seen.allowed
               /\ InSequence(m)

\* command: the request arrives and is queued or refused.
Command ==
    /\ \E m \in outbox :
          /\ outbox' = outbox \ {m}
          /\ inputs' = IF Accepted(m) /\ Len(inputs) < MaxInputs
                       THEN Append(inputs, [session |-> m.session, number |-> m.number,
                                            waited |-> FALSE,
                                            state |-> "pending"])
                       ELSE inputs
    /\ UNCHANGED <<sessions, screen, revoked, browser, local, poll, late, applied, faults>>

StopConsole ==
    /\ browser.session # None
    /\ sessions' = [sessions EXCEPT ![browser.session] = "ended"]
    /\ inputs' = Expiring(InputsOf({browser.session}))
    /\ browser' = Ended
    /\ UNCHANGED <<screen, revoked, outbox, local, poll, late, applied, faults>>

Revoke ==
    /\ ~revoked
    /\ revoked' = TRUE
    /\ UNCHANGED <<sessions, inputs, screen, browser, outbox, local, poll, late, applied, faults>>

\* Ten minutes of a session; eight seconds of an input; six seconds without a
\* poll of the board.
TimePasses ==
    /\ \/ \E n \in DOMAIN sessions :
             /\ Live(n)
             /\ sessions' = [sessions EXCEPT ![n] = "expired"]
             /\ UNCHANGED inputs
       \/ \E i \in DOMAIN inputs :
             /\ inputs[i].state = "pending"
             /\ inputs' = [inputs EXCEPT ![i].state = "stale"]
             /\ UNCHANGED sessions
       \/ \E n \in DOMAIN sessions :
             /\ sessions[n] = "joined"
             /\ sessions' = [sessions EXCEPT ![n] = "lapsed"]
             /\ inputs' = [i \in DOMAIN inputs |->
                   IF inputs[i].session = n /\ Pending(i)
                   THEN [inputs[i] EXCEPT !.waited = TRUE] ELSE inputs[i]]
    /\ UNCHANGED <<screen, revoked, browser, outbox, local, poll, late, applied, faults>>

----------------------------------------------------------------------------
(* sync: the platform's side of a poll.                                    *)

\* Mutation of Current: only a session the board polls for.
CurrentlyJoined == {n \in DOMAIN sessions : sessions[n] = "joined"}

Current == {n \in DOMAIN sessions : Live(n)}

\* Mutation of Outdated: a connection gap drops nothing.
OnlyStale == {i \in DOMAIN inputs : ~Live(inputs[i].session) \/ inputs[i].state = "stale"}

\* Pending inputs the poll drops: of an expired session, past their time, or
\* queued before a connection gap.
Outdated == {i \in DOMAIN inputs : \/ ~Live(inputs[i].session)
                                   \/ inputs[i].state = "stale"
                                   \/ sessions[inputs[i].session] = "lapsed"}

Confirms(ack) == ack # None /\ inputs[ack].state = "dispatched"

Dispatchable(request) ==
    IF Current # {} /\ request.screen.allowed
    THEN {i \in DOMAIN inputs \ Outdated : Pending(i)}
    ELSE {}

\* Mutation of Dispatched: the input stays pending until it is acknowledged.
StillPending(i) == [inputs[i] EXCEPT !.state = "pending"]

\* Dispatched once: a lost reply drops the input.
Dispatched(i) == [inputs[i] EXCEPT !.state = "dispatched"]

\* The oldest input that may be dispatched, if any.
NextInput(request) ==
    LET able == Dispatchable(request)
    IN  IF able = {} THEN None ELSE CHOOSE i \in able : \A k \in able : i <= k

Served(request) ==
    /\ screen' = [seen |-> request.screen,
                  last |-> IF Confirms(request.ack) THEN request.ack ELSE screen.last]
    /\ sessions' = [n \in DOMAIN sessions |-> IF Live(n) THEN "joined" ELSE "ended"]
    /\ inputs' = [i \in DOMAIN inputs |->
          IF i = NextInput(request) THEN Dispatched(i)
          ELSE IF i = request.ack /\ Confirms(i) THEN [inputs[i] EXCEPT !.state = "acknowledged"]
          ELSE Expiring(Outdated)[i]]
    /\ UNCHANGED revoked

----------------------------------------------------------------------------
(* The board.                                                              *)

\* The worker may poll; a heartbeat found a live session.
Polling == poll.pc = "idle" /\ local.paired /\ local.open

\* console_sync() loads the revision, then the page, then remote_allowed.
LoadRevision ==
    /\ Polling
    /\ poll' = [Resting EXCEPT !.pc = "revision",
                               !.request.screen.revision = local.screen.revision]
    /\ UNCHANGED <<platformVars, browser, outbox, local, late, applied, faults>>

LoadPage ==
    /\ poll.pc = "revision"
    /\ poll' = [poll EXCEPT !.pc = "page", !.request.screen.version = local.screen.version]
    /\ UNCHANGED <<platformVars, browser, outbox, local, late, applied, faults>>

\* Mutation of Loaded: the revision is loaded last.
RevisionLoadedLast ==
    [poll.request EXCEPT !.screen.allowed = local.screen.allowed, !.ack = local.ack,
                         !.screen.revision = local.screen.revision]

Loaded == [poll.request EXCEPT !.screen.allowed = local.screen.allowed, !.ack = local.ack]

SendPoll ==
    /\ poll.pc = "page"
    /\ poll' = [poll EXCEPT !.pc = "sent", !.request = Loaded]
    /\ UNCHANGED <<platformVars, browser, outbox, local, late, applied, faults>>

\* A poll that failed keeps the console open only if it was active.
Closed == [local EXCEPT !.open = local.active]

ServePoll ==
    /\ poll.pc = "sent"
    /\ IF revoked
       THEN local' = Closed /\ poll' = Resting /\ UNCHANGED platformVars
       ELSE /\ Served(poll.request)
            /\ poll' = [pc |-> "answered", ack |-> poll.request.ack,
                        active |-> Current # {}, input |-> NextInput(poll.request)]
            /\ UNCHANGED local
    /\ UNCHANGED <<browser, outbox, late, applied, faults>>

\* The reply is lost, or the request will arrive when nobody waits for it.
PollLost ==
    /\ poll.pc = "sent"
    /\ Fault
    /\ \/ /\ IF revoked THEN UNCHANGED platformVars ELSE Served(poll.request)
          /\ UNCHANGED late
       \/ late' = late \cup {poll.request} /\ UNCHANGED platformVars
    /\ local' = Closed
    /\ poll' = Resting
    /\ UNCHANGED <<browser, outbox, applied>>

LatePoll ==
    /\ \E request \in late :
          /\ late' = late \ {request}
          /\ IF revoked THEN UNCHANGED platformVars ELSE Served(request)
    /\ UNCHANGED <<browser, outbox, local, poll, applied, faults>>

\* Mutation of Enabled: a local stop does not count.
EnabledByServer == poll.active

\* remote_allowed is loaded before remote_active is exchanged.
Enabled == poll.active /\ local.screen.allowed

ReadReply ==
    /\ poll.pc = "answered"
    /\ local' = IF poll.ack = local.ack THEN [local EXCEPT !.ack = None] ELSE local
    /\ poll' = [pc |-> "loaded", active |-> poll.active, enable |-> Enabled, input |-> poll.input]
    /\ UNCHANGED <<platformVars, browser, outbox, late, applied, faults>>

\* Mutation of Counted: a change counts twice.
CountedTwice(changed) == [changed EXCEPT !.revision = @ + 2]

\* console_revision++, after the change itself.
Counted(changed) == [changed EXCEPT !.revision = @ + 1]

Changed(allowed) == [local.screen EXCEPT !.allowed = allowed, !.version = @ + 1]

\* Mutation of Result: an input that was not applied is acknowledged too.
ResultAlways == poll.input

Result == IF poll.enable THEN poll.input ELSE local.ack

\* The screens an input may leave: it may change the page, which takes the
\* display's lock.
AfterInput == {local.screen} \cup
              (IF poll.enable /\ local.writing = "nothing"
               THEN {Counted(Changed(local.screen.allowed))} ELSE {})

ApplyReply ==
    /\ poll.pc = "loaded"
    /\ LET now == [local EXCEPT !.active = poll.enable, !.open = poll.active]
       IN IF poll.input # None
          THEN \E seen \in AfterInput :
                  /\ local' = [now EXCEPT !.ack = Result, !.screen = seen]
                  /\ applied' = IF poll.enable THEN Append(applied, poll.input) ELSE applied
          ELSE local' = now /\ UNCHANGED applied
    /\ poll' = Resting
    /\ UNCHANGED <<platformVars, browser, outbox, late, faults>>

\* The heartbeat tells the board whether a session is live; a 401 makes it
\* forget its device id.
Heartbeat ==
    /\ poll.pc = "idle"
    /\ local.paired
    /\ local' = IF revoked THEN [local EXCEPT !.paired = FALSE]
                ELSE [local EXCEPT !.open = Current # {}]
    /\ UNCHANGED <<platformVars, browser, outbox, poll, late, applied, faults>>

MayChange ==
    /\ local.writing = "nothing"
    /\ local.screen.version < MaxChanges + Len(applied)
    /\ Within({"changes"})

\* Somebody at the board turns a page, or stops or allows remote control: the
\* display's task writes current_page or remote_allowed first.
LocalNavigation ==
    /\ MayChange
    /\ local' = [local EXCEPT !.screen = Changed(@.allowed), !.writing = "revision"]
    /\ UNCHANGED <<platformVars, browser, outbox, poll, late, applied, faults>>

LocalStop ==
    /\ MayChange
    /\ local' = [local EXCEPT !.screen = Changed(~@.allowed), !.writing = "control"]
    /\ UNCHANGED <<platformVars, browser, outbox, poll, late, applied, faults>>

\* Then remote_active, after the remote button, and the revision.
Deactivate ==
    /\ local.writing = "control"
    /\ local' = [local EXCEPT !.active = FALSE, !.writing = "revision"]
    /\ UNCHANGED <<platformVars, browser, outbox, poll, late, applied, faults>>

CountRevision ==
    /\ local.writing = "revision"
    /\ local' = [local EXCEPT !.screen = Counted(@), !.writing = "nothing"]
    /\ UNCHANGED <<platformVars, browser, outbox, poll, late, applied, faults>>

PowerLoss ==
    /\ Fault
    /\ local.screen.version < MaxChanges + Len(applied)
    /\ Within({"changes", "faults"})
    /\ local' = [local EXCEPT !.screen = Boot(local.screen.version + 1), !.open = FALSE,
                              !.active = FALSE, !.ack = None, !.rebooted = TRUE,
                              !.writing = "nothing"]
    /\ poll' = Resting
    /\ UNCHANGED <<platformVars, browser, outbox, late, applied>>

OwnerStep == StartConsole \/ StopConsole \/ Revoke \/ SendInput
BrowserStep == PollState \/ Command
Polls == LoadRevision \/ LoadPage \/ SendPoll \/ ServePoll \/ ReadReply \/ ApplyReply
WorkerStep == Polls \/ Heartbeat
DisplayStep == Deactivate \/ CountRevision
LocalStep == LocalStop \/ LocalNavigation \/ DisplayStep

Next == OwnerStep \/ BrowserStep \/ WorkerStep \/ LocalStep
        \/ TimePasses \/ PollLost \/ LatePoll \/ PowerLoss

\* The worker takes its turns with polls and heartbeats, the display's task ends
\* what it began, the network comes back and the page polls every 0.8 seconds;
\* nothing is owed by people.
Fairness ==
    /\ WF_vars(Polls)
    /\ WF_vars(DisplayStep)
    /\ SF_vars(Heartbeat)
    /\ WF_vars(PollState)

Spec     == Init /\ [][Next]_vars
FairSpec == Spec /\ Fairness

----------------------------------------------------------------------------
(* Properties.                                                             *)

AppliedInOrder ==
    \A j, k \in DOMAIN applied :
        j < k => /\ applied[j] < applied[k]
                 /\ inputs[applied[j]].session = inputs[applied[k]].session
                       => inputs[applied[j]].number < inputs[applied[k]].number

ResultIsTrue ==
    \A i \in DOMAIN inputs :
        inputs[i].state = "acknowledged" \/ i = screen.last => Contains(applied, i)

NoInputAfterGap == \A k \in DOMAIN applied : ~inputs[applied[k]].waited

\* The board applies inputs in the order the owner gave them within a session,
\* and none twice; one that was still queued when the board had been away for
\* six seconds never executes; and what the owner is told was applied was: all
\* whatever was lost, overtaken or delayed (command, sync, console_sync).
InputsAreFaithful == AppliedInOrder /\ ResultIsTrue /\ NoInputAfterGap

\* A revision r is counted only after the change that made it, so it announces
\* the first r - 1 changes of its boot: once the page showed revision r in a
\* session, it never shows a screen from before those changes, though the board
\* writes and reads its screen one field at a time, and a late poll makes the
\* platform's copy go back (page, console_sync, sync, apply).
MirrorNeverGoesBack ==
    [][browser'.session = browser.session /\ browser.session # None
          => browser'.version + 1 >= browser.revision]_vars

Mirrored == browser.version = local.screen.version

\* A page in a live session that shows another screen than the board's, from a
\* late poll or from one read in the middle of a change, catches up with it,
\* unless the board boots again or loses its pairing (sync, worker, apply).
MirrorCatchesUp ==
    ~Mirrored ~> \/ Mirrored
                 \/ browser.session = None \/ ~IsLive(browser.session)
                 \/ local.rebooted \/ ~local.paired

\* Once somebody stopped remote control at the board, it does not stay able to
\* take inputs, even if the stop fell between the two reads of a poll that was
\* being answered (console_sync, the remote button).
StopIsHonoured ==
    ~local.screen.allowed
    ~> (local.screen.allowed \/ ~local.active \/ ~local.open \/ ~local.paired)

\* "Remote active" is shown on the board while an owner's session is, and ends
\* with it.  A heartbeat that finds the session ended stops the polls before
\* one of them could clear remote_active (worker).
ActiveEndsWithSession == (Current = {}) ~> (~local.active \/ Current # {})

\* "The sage acknowledgement ring runs once ... only after a new `applied`
\* device acknowledgement": it runs once for each.  The page forgets what it
\* remembered whenever a session starts (start).
RingRunsOnce == IsInjective(browser.rings)
=============================================================================
