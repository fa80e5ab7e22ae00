----------------------------- MODULE AppRollout -----------------------------
(***************************************************************************)
(* Apps of one device: the catalog and the owner's assignment on the       *)
(* platform, and the network task of the board, which asks every thirty    *)
(* seconds what it should run and keeps packages in RAM only.              *)
(*                                                                         *)
(* A platform operation is one transaction.  One round of the task is six  *)
(* steps, because its three POSTs block and the worker and the screen run  *)
(* between them.  A device that is revoked is refused as if every request  *)
(* were lost, and is left out.  The idle check and the change of slots it  *)
(* guards are one step: a session that starts between the two could as     *)
(* well start after.                                                       *)
(***************************************************************************)
EXTENDS Integers, FiniteSets, Sequences

CONSTANTS
    Package,
    Companion,    \* packages that configure the native companion
    Timer,        \* packages that run the local timer; the others show text
    Budgets,      \* the bounds, see Budget
    None

\* What may still happen: commands of the owner, sessions and timers started,
\* and faults, which are lost requests, restarts, lapses and changed hardware
\* reports.
Budget == [commands: Nat, starts: Nat, faults: Nat]

ASSUME AppRolloutAssumption ==
    /\ Companion \subseteq Package
    /\ Timer \subseteq Package \ Companion
    /\ Budgets \subseteq Budget
    /\ None \notin Package

VARIABLES
    catalog,    \* packages imported, revoked, and no longer accepted by verify
    fits,       \* the hardware the device last reported is compatible
    reported,   \* the device has reported its Core version
    assignment, \* the DeviceAppAssignment row
    commands,   \* DeviceAdminCommand rows in the order of their creation
    slots,      \* live_app: active, previous and staged package
    tick,       \* the round of the network task
    last,       \* last_admin_id and last_admin_result
    late,       \* acknowledgements the platform may yet receive
    companion,  \* the companion session
    timer,      \* the local timer
    killed,     \* companion_package_killed
    budget,     \* a member of Budgets, and what is left of it
    killing     \* history: the kill command still in force, 0 for none

platformVars == <<catalog, fits, reported, assignment, commands, killing>>
sessionVars  == <<companion, timer>>
deviceVars   == <<slots, tick, last, killed>>
vars         == <<platformVars, sessionVars, deviceVars, late, budget>>

Slot   == Package \cup {None}
Number == Nat

\* state stands for state, result_code and expires_at; a command keeps its
\* package only to compare a repeated request with it.
Command == [kind: {"assign_app", "kill_app", "rollback_app"},
            state: {"queued", "expired", "applied", "blocked", "failed"}]

\* withdrawn is history: the desired package was then revoked or lapsed.
Answer == [desired: Slot, disabled: BOOLEAN, stops: BOOLEAN, revoked_active: BOOLEAN,
           revoked_ids: SUBSET Package, command: Number, withdrawn: BOOLEAN]

AppTypeOK ==
    /\ catalog \in [imported: SUBSET Package, revoked: SUBSET Package,
                    lapsed: SUBSET Package]
    /\ fits \in BOOLEAN
    /\ reported \in BOOLEAN
    /\ assignment \in [package: Slot, previous: Slot, disabled: BOOLEAN]
    /\ commands \in Seq(Command)
    /\ slots \in [active: Slot, previous: Slot, staged: Slot]
    /\ tick \in [at: {"rest", "answered", "stopped", "fetch", "activate", "report"},
                 answer: Answer, failed: BOOLEAN, blocked: BOOLEAN]
    /\ last \in [id: Number, result: {"", "applied", "blocked", "failed"}]
    /\ late \subseteq [id: Number, result: {"applied", "blocked", "failed"}]
    /\ companion \in {"none", "asking", "running", "stopping"}
    /\ timer \in {"off", "tapped", "on"}
    /\ killed \in BOOLEAN
    /\ budget \in Budget
    /\ killing \in Number

Nothing == [desired |-> None, disabled |-> FALSE, stops |-> FALSE,
            revoked_active |-> FALSE, revoked_ids |-> {}, command |-> 0,
            withdrawn |-> FALSE]
Rest    == [at |-> "rest", answer |-> Nothing, failed |-> FALSE, blocked |-> FALSE]
Empty   == [active |-> None, previous |-> None, staged |-> None]
NoAdmin == [id |-> 0, result |-> ""]

Init ==
    /\ catalog = [imported |-> {}, revoked |-> {}, lapsed |-> {}]
    /\ fits = TRUE
    /\ reported = FALSE
    /\ assignment = [package |-> None, previous |-> None, disabled |-> FALSE]
    /\ commands = <<>>
    /\ slots = Empty
    /\ tick = Rest
    /\ last = NoAdmin
    /\ late = {}
    /\ companion = "none"
    /\ timer = "off"
    /\ killed = FALSE
    /\ budget \in Budgets
    /\ killing = 0

Spend(what) == budget[what] > 0 /\ budget' = [budget EXCEPT ![what] = @ - 1]
Fault       == Spend("faults")

----------------------------------------------------------------------------
(* The catalog, the account and the clock.                                 *)

\* What keeps verify from accepting a package, on the platform.
Withdrawn == catalog.revoked \cup catalog.lapsed

Verified(p) == p \in catalog.imported \ Withdrawn

Import(p) ==
    /\ p \notin catalog.lapsed
    /\ catalog' = [catalog EXCEPT !.imported = @ \cup {p}]
    /\ UNCHANGED <<fits, reported, assignment, commands, killing,
                   sessionVars, deviceVars, budget, late>>

\* The approval of a package expires, or its publisher key is withdrawn.
Lapse(p) ==
    /\ Fault
    /\ catalog' = [catalog EXCEPT !.lapsed = @ \cup {p}]
    /\ UNCHANGED <<fits, reported, assignment, commands, killing,
                   sessionVars, deviceVars, late>>

\* A heartbeat reports other hardware than before.
HardwareReported ==
    /\ Fault
    /\ fits' = ~fits
    /\ UNCHANGED <<catalog, reported, assignment, commands, killing,
                   sessionVars, deviceVars, late>>

----------------------------------------------------------------------------
(* request: a command of the owner.  A repeated request key returns the    *)
(* command it made before and changes nothing.  The snapshot command,      *)
(* which changes no assignment, belongs to Diagnostics.                    *)

Queue(kind) ==
    /\ Spend("commands")
    /\ commands' = Append(commands, [kind |-> kind, state |-> "queued"])

Assign(p) ==
    /\ Queue("assign_app")
    /\ reported
    /\ Verified(p)
    /\ fits
    /\ assignment' = [package |-> p, disabled |-> FALSE,
                      previous |-> IF assignment.package # p THEN assignment.package
                                   ELSE assignment.previous]
    /\ killing' = 0
    /\ UNCHANGED <<catalog, fits, reported, sessionVars, deviceVars, late>>

Kill ==
    /\ Queue("kill_app")
    /\ assignment' = [assignment EXCEPT !.disabled = TRUE]
    /\ killing' = Len(commands')
    /\ UNCHANGED <<catalog, fits, reported, sessionVars, deviceVars, late>>

RollBack ==
    /\ Queue("rollback_app")
    /\ Verified(assignment.previous)
    /\ assignment' = [package |-> assignment.previous, disabled |-> FALSE,
                      previous |-> assignment.package]
    /\ killing' = 0
    /\ UNCHANGED <<catalog, fits, reported, sessionVars, deviceVars, late>>

\* What revoke leaves of an assignment to the package it revokes.
Replacement == IF Verified(assignment.previous) THEN assignment.previous ELSE None

\* Mutation of Reassigned: only the package is marked.
MarkedOnly(p) == assignment

Reassigned(p) ==
    IF assignment.package = p
    THEN [package |-> Replacement, previous |-> p, disabled |-> Replacement = None]
    ELSE assignment

RevokePackage(p) ==
    /\ p \in catalog.imported \ catalog.revoked
    /\ catalog' = [catalog EXCEPT !.revoked = @ \cup {p}]
    /\ assignment' = Reassigned(p)
    /\ killing' = IF assignment.package = p /\ Replacement # None THEN 0 ELSE killing
    /\ UNCHANGED <<fits, reported, commands, sessionVars, deviceVars, budget, late>>

----------------------------------------------------------------------------
(* sync, and the steps of one round.                                       *)

Queued == {c \in DOMAIN commands : commands[c].state = "queued"}

Oldest == CHOOSE c \in Queued \cup {0} : \A d \in Queued : c # 0 /\ c <= d

\* The oldest queued command is ten minutes old.
Expire ==
    /\ Queued # {}
    /\ commands' = [commands EXCEPT ![Oldest].state = "expired"]
    /\ UNCHANGED <<catalog, fits, reported, assignment, killing,
                   sessionVars, deviceVars, budget, late>>

\* Mutation of Desired: the row is trusted.
AsAssigned == IF assignment.disabled THEN None ELSE assignment.package

Desired == IF ~assignment.disabled /\ Verified(assignment.package) /\ fits
           THEN assignment.package ELSE None

Synced ==
    [desired |-> Desired,
     disabled |-> assignment.disabled,
     stops |-> assignment.disabled /\ assignment.package \in Companion,
     revoked_active |-> slots.active \in catalog.revoked,
     revoked_ids |-> {slots.active, assignment.previous} \cap catalog.revoked,
     command |-> Oldest,
     withdrawn |-> Desired \in Withdrawn]

Answered == tick.answer

\* What a round still reads of the answer once its slots are settled.
Kept(answer) == [Nothing EXCEPT !.desired = answer.desired, !.command = answer.command,
                                   !.withdrawn = answer.withdrawn]

Sync ==
    /\ tick.at = "rest"
    /\ tick' = [Rest EXCEPT !.at = "answered", !.answer = Synced]
    /\ reported' = TRUE
    /\ UNCHANGED <<catalog, fits, assignment, commands, killing,
                   sessionVars, slots, last, killed, budget, late>>

\* The answer is lost, or the request too.
SyncLost ==
    /\ tick.at = "rest"
    /\ Fault
    /\ reported' \in {reported, TRUE}
    /\ UNCHANGED <<catalog, fits, assignment, commands, killing,
                   sessionVars, deviceVars, late>>

CompanionActive == companion \in {"running", "stopping"}
Idle            == ~CompanionActive /\ timer # "on"

Stopped == IF companion = "running" THEN "stopping" ELSE companion

Kills == \/ Answered.disabled /\ Answered.stops
         \/ Answered.revoked_active /\ slots.active \in Companion

\* The kill flag, and the sessions that must end.
Enforce ==
    /\ tick.at = "answered"
    /\ tick' = [tick EXCEPT !.at = "stopped"]
    /\ killed' = Kills
    /\ companion' = IF Kills THEN Stopped ELSE companion
    /\ timer' = IF (Answered.disabled \/ Answered.revoked_active) /\ timer = "on"
                THEN "off" ELSE timer
    /\ UNCHANGED <<platformVars, slots, last, budget, late>>

\* live_app.revoke, for each revoked id of the answer.
Dropped(s, ids) ==
    LET keep(x) == IF x \in ids THEN None ELSE x IN
    IF s.active \in ids
    THEN [active |-> keep(s.previous), previous |-> None, staged |-> keep(s.staged)]
    ELSE [active |-> s.active, previous |-> keep(s.previous), staged |-> keep(s.staged)]

\* Mutation of Disabled: only what is staged is dropped.
Unstaged(s) == [s EXCEPT !.staged = None]

Disabled(s)   == [active |-> None, previous |-> s.active, staged |-> None]
RolledBack(s) == [active |-> s.previous, previous |-> s.active, staged |-> None]
Activated(s)  == [active |-> s.staged, previous |-> s.active, staged |-> None]

Remaining == IF Idle THEN Dropped(slots, Answered.revoked_ids) ELSE slots

\* Nothing is desired: the active app, if any, makes way.
Disable ==
    /\ tick.at = "stopped"
    /\ Answered.disabled \/ Answered.desired = None
    /\ slots' = IF Idle /\ Remaining.active # None THEN Disabled(Remaining) ELSE Remaining
    /\ tick' = [tick EXCEPT !.at = "report", !.answer = Kept(@),
                            !.blocked = ~Idle /\ Remaining.active # None]
    /\ UNCHANGED <<platformVars, sessionVars, last, killed, budget, late>>

\* Something is desired: the previous slot may hold it, or it must be fetched.
Decide ==
    /\ tick.at = "stopped"
    /\ ~(Answered.disabled \/ Answered.desired = None)
    /\ slots' = IF Idle /\ Remaining.previous = Answered.desired
                THEN RolledBack(Remaining) ELSE Remaining
    /\ tick' = [tick EXCEPT !.answer = Kept(@), !.at =
          IF Answered.desired \in {slots'.active, slots'.staged, slots'.previous}
          THEN "activate" ELSE "fetch"]
    /\ UNCHANGED <<platformVars, sessionVars, last, killed, budget, late>>

\* package_for_device, then verify_app_package on the board.
Served == /\ ~assignment.disabled
          /\ Answered.desired \in {assignment.package, assignment.previous}
          /\ Verified(Answered.desired)
          /\ fits

Fetch ==
    /\ tick.at = "fetch"
    /\ slots' = IF Served THEN [slots EXCEPT !.staged = Answered.desired] ELSE slots
    /\ tick' = [tick EXCEPT !.at = "activate", !.failed = ~Served]
    /\ UNCHANGED <<platformVars, sessionVars, last, killed, budget, late>>

FetchLost ==
    /\ tick.at = "fetch"
    /\ Fault
    /\ tick' = [tick EXCEPT !.at = "activate", !.failed = TRUE]
    /\ UNCHANGED <<platformVars, sessionVars, slots, last, killed, late>>

Activate ==
    /\ tick.at = "activate"
    /\ LET staged == slots.staged = Answered.desired /\ ~tick.failed IN
       /\ slots' = IF staged /\ Idle THEN Activated(slots) ELSE slots
       /\ tick' = [tick EXCEPT !.at = "report",
                      !.blocked = ~tick.failed /\ slots'.active # Answered.desired]
    /\ UNCHANGED <<platformVars, sessionVars, last, killed, budget, late>>

----------------------------------------------------------------------------
(* The result of the command, and its acknowledgement.                     *)

Asked(kind) == IF kind = "kill_app" THEN None ELSE Answered.desired

\* Mutation of Result: what did not fail is applied.
ResultHopeful(kind) == IF tick.failed THEN "failed" ELSE "applied"

Result(kind) == CASE tick.failed -> "failed"
                  [] ~tick.failed /\ ~tick.blocked /\ slots.active = Asked(kind) -> "applied"
                  [] OTHER -> "blocked"

\* Mutation of Known: the identity is kept before the result is known.
KnownUncomputed == [id |-> Answered.command, result |-> ""]

\* The result is computed once for a command this boot.
Known == IF Answered.command = last.id THEN last
         ELSE [id |-> Answered.command, result |-> Result(commands[Answered.command].kind)]

\* Mutation of Acknowledges: the latest report stands.
AcknowledgesAny(c, r) == commands[c].state # "expired"

\* acknowledge refuses another result, and a command that has expired.
Acknowledges(c, r) == commands[c].state \in {"queued", r}

NothingToReport ==
    /\ tick.at = "report"
    /\ Answered.command = 0
    /\ tick' = Rest
    /\ UNCHANGED <<platformVars, sessionVars, slots, last, killed, budget, late>>

Acknowledge ==
    /\ tick.at = "report"
    /\ Answered.command # 0
    /\ tick' = Rest
    /\ IF Acknowledges(Known.id, Known.result)
       THEN /\ commands' = [commands EXCEPT ![Known.id].state = Known.result]
            /\ last' = NoAdmin
       ELSE last' = Known /\ UNCHANGED commands
    /\ UNCHANGED <<catalog, fits, reported, assignment, killing,
                   sessionVars, slots, killed, budget, late>>

\* The request is lost or late, or it arrives and the answer is lost.
AcknowledgeLost ==
    /\ tick.at = "report"
    /\ Answered.command # 0
    /\ Fault
    /\ tick' = Rest
    /\ last' = Known
    /\ late' = late \cup {Known}
    /\ UNCHANGED <<platformVars, sessionVars, slots, killed>>

Arrive(m) ==
    /\ late' = late \ {m}
    /\ commands' = IF Acknowledges(m.id, m.result)
                   THEN [commands EXCEPT ![m.id].state = m.result] ELSE commands
    /\ UNCHANGED <<catalog, fits, reported, assignment, killing,
                   sessionVars, deviceVars, budget>>

----------------------------------------------------------------------------
(* The user at the board, and restarts.                                    *)

\* The worker reads the kill flag, then asks the platform for a session.
AskSession ==
    /\ companion = "none"
    /\ ~killed
    /\ Spend("starts")
    /\ companion' = "asking"
    /\ UNCHANGED <<platformVars, deviceVars, timer, late>>

\* The session starts when the platform answers: the flag is not read again.
SessionStarts ==
    /\ companion = "asking"
    /\ companion' \in {"running", "none"}
    /\ UNCHANGED <<platformVars, deviceVars, timer, budget, late>>

\* A stop, an error, or the end of its five minutes; then the audio task ends.
SessionEnds ==
    /\ CompanionActive
    /\ companion' = IF companion = "running" THEN "stopping" ELSE "none"
    /\ UNCHANGED <<platformVars, deviceVars, timer, budget, late>>

\* The button reads the active app, then writes the deadline.
TapTimer ==
    /\ timer = "off"
    /\ slots.active \in Timer
    /\ Spend("starts")
    /\ timer' = "tapped"
    /\ UNCHANGED <<platformVars, deviceVars, companion, late>>

TimerStarts ==
    /\ timer = "tapped"
    /\ timer' = "on"
    /\ UNCHANGED <<platformVars, deviceVars, companion, budget, late>>

TimerEnds ==
    /\ timer = "on"
    /\ timer' = "off"
    /\ UNCHANGED <<platformVars, deviceVars, companion, budget, late>>

\* Packages, the flag and the last command are in RAM.
Restart ==
    /\ Fault
    /\ slots' = Empty
    /\ tick' = Rest
    /\ last' = NoAdmin
    /\ killed' = FALSE
    /\ companion' = "none"
    /\ timer' = "off"
    /\ UNCHANGED <<platformVars, late>>

----------------------------------------------------------------------------
Owner == \/ \E p \in Package : Assign(p)
         \/ Kill
         \/ RollBack

Administrator == \/ \E p \in Package : Import(p) \/ Lapse(p) \/ RevokePackage(p)
                 \/ HardwareReported

Round == \/ Sync
         \/ Enforce
         \/ Disable
         \/ Decide
         \/ Fetch
         \/ Activate
         \/ NothingToReport
         \/ Acknowledge

Losses == SyncLost \/ FetchLost \/ AcknowledgeLost \/ Restart

Sessions == AskSession \/ SessionStarts \/ SessionEnds \/ TapTimer \/ TimerStarts \/ TimerEnds

Next == \/ Owner
        \/ Administrator
        \/ Expire
        \/ Round
        \/ \E m \in late : Arrive(m)
        \/ Losses
        \/ Sessions

Spec == Init /\ [][Next]_vars

\* The task runs every thirty seconds; a session lasts at most five minutes
\* and a timer an hour.
Fairness == /\ WF_vars(Round)
            /\ WF_vars(SessionStarts \/ SessionEnds)
            /\ WF_vars(TimerStarts \/ TimerEnds)

FairSpec == Spec /\ Fairness
----------------------------------------------------------------------------
(* What must hold.                                                         *)

\* The platform never leaves a revoked package assigned, never lists one
\* package as both the assigned and the previous one, and an assignment that a
\* revocation emptied stays disabled (request, revoke).
AssignmentSound ==
    /\ assignment.package \notin catalog.revoked
    /\ assignment.package # None => assignment.package # assignment.previous
    /\ assignment.package = None /\ assignment.previous # None => assignment.disabled

\* As long as a kill command is in force, that is until the owner assigns or
\* rolls back or a revocation switches the device to another package, its
\* acknowledgement "applied" means that the device runs no app, across lost
\* and late requests, restarts and answers that were on their way.
KillHolds ==
    killing # 0 => (commands[killing].state = "applied" => slots.active = None)

\* A package that starts to run is the one the platform named in the answer
\* of this round, and it was then neither revoked nor lapsed: only the package
\* before a revoked one may run again unasked.
OnlyApprovedStarts ==
    [][\/ slots'.active \in {None, slots.active}
       \/ slots'.active = Answered.desired /\ ~Answered.withdrawn
       \/ slots.active \in Answered.revoked_ids]_slots

\* The result of a command, once recorded, is never replaced by that of a
\* late or repeated acknowledgement (acknowledge).
ResultIsFinal ==
    [][\A c \in DOMAIN commands :
          commands[c].state # "queued" => commands'[c] = commands[c]]_commands

\* The device ends up running what the platform last wanted, or nothing, and
\* every command is acknowledged or has expired.
Settles ==
    <>[](slots.active = Desired /\ Queued = {})
=============================================================================
