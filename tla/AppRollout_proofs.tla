-------------------------- MODULE AppRollout_proofs --------------------------
(***************************************************************************)
(* Proofs about AppRollout, for any packages and bounds: type correctness, *)
(* the platform's assignment, the finality of a command's result, what may *)
(* start to run on the board, and what an acknowledged kill command means. *)
(***************************************************************************)
EXTENDS AppRollout, TLAPS, WellFoundedInduction

----------------------------------------------------------------------------
(* The oldest of the queued commands.                                      *)

LEMMA LeastNumber ==
    ASSUME NEW S \in SUBSET Nat, S # {}
    PROVE  \E m \in S : \A n \in S : m <= n
  <1>1. PICK m \in S : \A n \in S : ~(<<n, m>> \in OpToRel(<, Nat))
    BY NatLessThanWellFounded, WFMin
  <1>2. \A n \in S : ~(n < m)
    BY <1>1 DEF OpToRel
  <1> QED
    BY <1>2

LEMMA Ranges ==
    ASSUME NEW n \in Nat
    PROVE  /\ 0 \in 0..n
           /\ \A c \in 0..n : c \in Nat /\ (c = 0 \/ c \in 1..n)
           /\ \A c \in 1..n : c \in Nat /\ c \in 0..n /\ c # 0
  OBVIOUS

LEMMA OldestIsQueued ==
    ASSUME commands \in Seq(Command)
    PROVE  /\ Oldest \in 0..Len(commands)
           /\ Queued # {} => Oldest \in Queued
           /\ Queued = {} => Oldest = 0
           /\ Queued \subseteq 1..Len(commands)
  <1>1. Queued \subseteq 1..Len(commands) /\ Len(commands) \in Nat
    BY DEF Queued
  <1>2. CASE Queued = {}
    BY <1>1, <1>2 DEF Oldest
  <1>3. CASE Queued # {}
    <2>1. PICK m \in Queued : \A n \in Queued : m <= n
      BY <1>1, <1>3, LeastNumber
    <2>2. m # 0 /\ \A d \in Queued : m # 0 /\ m <= d
      BY <1>1, <2>1
    <2>3. Oldest \in Queued \cup {0} /\ \A d \in Queued : Oldest # 0 /\ Oldest <= d
      BY <2>2 DEF Oldest
    <2> QED
      BY <1>1, <1>3, <2>3
  <1> QED
    BY <1>2, <1>3

----------------------------------------------------------------------------
(* Type correctness.  The numbers of commands that are on their way name   *)
(* commands that exist, and a number the board remembers has a result.     *)

Catalog    == [imported: SUBSET Package, revoked: SUBSET Package, lapsed: SUBSET Package]
Assignment == [package: Slot, previous: Slot, disabled: BOOLEAN]
Slots      == [active: Slot, previous: Slot, staged: Slot]
Ticks      == [at: {"rest", "answered", "stopped", "fetch", "activate", "report"},
               answer: Answer, failed: BOOLEAN, blocked: BOOLEAN]
Last       == [id: Number, result: {"", "applied", "blocked", "failed"}]
Late       == [id: Number, result: {"applied", "blocked", "failed"}]

PlatformTyped ==
    /\ catalog \in Catalog
    /\ assignment \in Assignment
    /\ commands \in Seq(Command)
    /\ fits \in BOOLEAN /\ reported \in BOOLEAN

BoardTyped == slots \in Slots /\ tick \in Ticks /\ last \in Last /\ killed \in BOOLEAN

SessionsTyped == /\ companion \in {"none", "asking", "running", "stopping"}
                 /\ timer \in {"off", "tapped", "on"}

Numbers ==
    /\ tick.answer.command \in 0..Len(commands)
    /\ last.id \in 0..Len(commands)
    /\ last.id # 0 => last.result # ""
    /\ \A m \in late : m.id \in 1..Len(commands)
    /\ killing \in 0..Len(commands)

Typed == /\ PlatformTyped /\ BoardTyped /\ SessionsTyped /\ Numbers
         /\ late \subseteq Late /\ budget \in Budget

LEMMA TypedImplies == Typed => AppTypeOK /\ killing \in Nat /\ Len(commands) \in Nat
  <1> SUFFICES ASSUME Typed PROVE AppTypeOK /\ killing \in Nat /\ Len(commands) \in Nat
    OBVIOUS
  <1>1. Len(commands) \in Nat
    BY DEF Typed, PlatformTyped
  <1>2. killing \in Nat
    <2>1. killing \in 0..Len(commands)
      BY DEF Typed, Numbers
    <2> QED
      BY <1>1, <2>1
  <1>3. /\ catalog \in [imported: SUBSET Package, revoked: SUBSET Package, lapsed: SUBSET Package]
        /\ assignment \in [package: Slot, previous: Slot, disabled: BOOLEAN]
        /\ commands \in Seq(Command) /\ fits \in BOOLEAN /\ reported \in BOOLEAN
    BY DEF Typed, PlatformTyped, Catalog, Assignment
  <1>4. /\ slots \in [active: Slot, previous: Slot, staged: Slot]
        /\ tick \in [at: {"rest", "answered", "stopped", "fetch", "activate", "report"},
                     answer: Answer, failed: BOOLEAN, blocked: BOOLEAN]
    BY DEF Typed, BoardTyped, Slots, Ticks
  <1>5. /\ last \in [id: Number, result: {"", "applied", "blocked", "failed"}]
        /\ late \subseteq [id: Number, result: {"applied", "blocked", "failed"}]
    BY DEF Typed, BoardTyped, Last, Late
  <1>6. /\ companion \in {"none", "asking", "running", "stopping"}
        /\ timer \in {"off", "tapped", "on"} /\ killed \in BOOLEAN /\ budget \in Budget
    BY DEF Typed, BoardTyped, SessionsTyped
  <1> QED
    BY <1>1, <1>2, <1>3, <1>4, <1>5, <1>6 DEF AppTypeOK, Number

LEMMA TypedInit == Init => Typed
  <1> SUFFICES ASSUME Init PROVE Typed
    OBVIOUS
  <1>1. Nothing \in Answer
    BY DEF Nothing, Answer, Slot, Number
  <1>2. Rest \in Ticks
    BY <1>1 DEF Rest, Ticks
  <1>3. Empty \in Slots /\ NoAdmin \in Last
    BY DEF Empty, Slots, Slot, NoAdmin, Last, Number
  <1>4. commands \in Seq(Command) /\ Len(commands) = 0
    <2>1. commands = <<>>
      BY DEF Init
    <2> QED
      BY <2>1
  <1>5. PlatformTyped
    <2>1. catalog \in Catalog /\ assignment \in Assignment
      BY DEF Init, Catalog, Assignment, Slot
    <2> QED
      BY <1>4, <2>1 DEF Init, PlatformTyped
  <1>6. BoardTyped /\ SessionsTyped
    BY <1>2, <1>3 DEF Init, BoardTyped, SessionsTyped
  <1>7. Numbers
    <2>1. tick.answer.command = 0 /\ last.id = 0 /\ killing = 0 /\ late = {}
      BY DEF Init, Rest, Nothing, NoAdmin
    <2> QED
      BY <1>4, <2>1 DEF Numbers
  <1> QED
    BY <1>5, <1>6, <1>7, AppRolloutAssumption DEF Init, Typed

LEMMA Paying ==
    ASSUME budget \in Budget, NEW what \in {"commands", "starts", "faults"}, Spend(what)
    PROVE  budget' \in Budget
  BY DEF Budget, Spend

LEMMA SlotOperations ==
    ASSUME NEW s \in Slots, NEW ids, NEW d \in Slot
    PROVE  /\ Dropped(s, ids) \in Slots /\ Disabled(s) \in Slots /\ RolledBack(s) \in Slots
           /\ Activated(s) \in Slots /\ [s EXCEPT !.staged = d] \in Slots
           /\ [s EXCEPT !.staged = d].active = s.active
           /\ Dropped(s, ids).active = s.active \/ s.active \in ids
  BY DEF Slots, Slot, Dropped, Disabled, RolledBack, Activated

LEMMA NumbersGrow ==
    ASSUME Typed, NEW kind \in {"assign_app", "kill_app", "rollback_app"}, Queue(kind)
    PROVE  /\ commands' \in Seq(Command) /\ Len(commands') = Len(commands) + 1
           /\ \A c \in 1..Len(commands) : commands'[c] = commands[c]
           /\ commands'[Len(commands')] = [kind |-> kind, state |-> "queued"]
           /\ budget' \in Budget
           /\ Len(commands) \in Nat
  <1>1. commands \in Seq(Command) /\ [kind |-> kind, state |-> "queued"] \in Command
    BY DEF Typed, PlatformTyped, Command
  <1>2. budget' \in Budget
    BY Paying DEF Queue, Typed
  <1> QED
    BY <1>1, <1>2 DEF Queue

LEMMA OwnerTyped ==
    ASSUME Typed, Owner
    PROVE  Typed'
  <1>1. PICK kind \in {"assign_app", "kill_app", "rollback_app"} : Queue(kind)
    BY DEF Owner, Assign, Kill, RollBack
  <1>2. commands' \in Seq(Command) /\ Len(commands') = Len(commands) + 1 /\ budget' \in Budget
        /\ Len(commands) \in Nat
    BY <1>1, NumbersGrow
  <1>3. UNCHANGED <<catalog, fits, reported, sessionVars, deviceVars, late>>
    BY DEF Owner, Assign, Kill, RollBack
  <1>4. assignment \in Assignment
    BY DEF Typed, PlatformTyped
  <1>5. assignment' \in Assignment /\ killing' \in 0..Len(commands')
    <2>1. ASSUME NEW p \in Package, Assign(p) PROVE assignment' \in Assignment /\ killing' = 0
      BY <1>4, <2>1 DEF Assign, Assignment, Slot
    <2>2. ASSUME Kill PROVE assignment' \in Assignment /\ killing' = Len(commands')
      BY <1>4, <2>2 DEF Kill, Assignment
    <2>3. ASSUME RollBack PROVE assignment' \in Assignment /\ killing' = 0
      BY <1>4, <2>3 DEF RollBack, Assignment
    <2> QED
      BY <1>2, <2>1, <2>2, <2>3 DEF Owner
  <1>6. PlatformTyped'
    BY <1>2, <1>3, <1>5 DEF Typed, PlatformTyped
  <1>7. BoardTyped' /\ SessionsTyped' /\ late' \subseteq Late
    BY <1>3 DEF Typed, BoardTyped, SessionsTyped, sessionVars, deviceVars
  <1>8. Numbers'
    <2>1. UNCHANGED <<tick, last, late>>
      BY <1>3 DEF deviceVars
    <2>2. 0..Len(commands) \subseteq 0..Len(commands') /\ 1..Len(commands) \subseteq 1..Len(commands')
      BY <1>2
    <2> QED
      BY <1>5, <2>1, <2>2 DEF Typed, Numbers
  <1> QED
    BY <1>2, <1>6, <1>7, <1>8 DEF Typed

LEMMA AdministratorTyped ==
    ASSUME Typed, Administrator
    PROVE  Typed'
  <1>1. UNCHANGED <<reported, commands, sessionVars, deviceVars, late>>
    BY DEF Administrator, Import, Lapse, HardwareReported, RevokePackage
  <1>2. catalog \in Catalog /\ assignment \in Assignment /\ fits \in BOOLEAN
    BY DEF Typed, PlatformTyped
  <1>3. budget' \in Budget
    BY Paying DEF Administrator, Import, Lapse, HardwareReported, RevokePackage, Fault, Typed
  <1>4. /\ catalog' \in Catalog /\ assignment' \in Assignment
        /\ fits' \in BOOLEAN /\ killing' \in {0, killing}
    <2>1. ASSUME NEW p \in Package, Import(p) \/ Lapse(p)
          PROVE  catalog' \in Catalog /\ UNCHANGED <<assignment, fits, killing>>
      BY <1>2, <2>1 DEF Import, Lapse, Catalog
    <2>2. ASSUME NEW p \in Package, RevokePackage(p)
          PROVE  /\ catalog' \in Catalog /\ assignment' \in Assignment
                 /\ fits' = fits /\ killing' \in {0, killing}
      <3>1. catalog' \in Catalog
        BY <1>2, <2>2 DEF RevokePackage, Catalog
      <3>2. Replacement \in Slot
        BY <1>2 DEF Replacement, Assignment, Slot
      <3>3. Reassigned(p) \in Assignment
        BY <1>2, <3>2 DEF Reassigned, Assignment, Slot
      <3> QED
        BY <2>2, <3>1, <3>3 DEF RevokePackage
    <2>3. CASE HardwareReported
      BY <1>2, <2>3 DEF HardwareReported
    <2> QED
      BY <1>2, <2>1, <2>2, <2>3 DEF Administrator
  <1>5. PlatformTyped'
    BY <1>1, <1>4 DEF Typed, PlatformTyped
  <1>6. BoardTyped' /\ SessionsTyped' /\ late' \subseteq Late
    BY <1>1 DEF Typed, BoardTyped, SessionsTyped, sessionVars, deviceVars
  <1>7. Numbers'
    <2>1. UNCHANGED <<tick, last, late, commands>>
      BY <1>1 DEF deviceVars
    <2>2. 0 \in 0..Len(commands)
      BY TypedImplies
    <2> QED
      BY <1>4, <2>1, <2>2 DEF Typed, Numbers
  <1> QED
    BY <1>3, <1>5, <1>6, <1>7 DEF Typed

LEMMA UsersTyped ==
    ASSUME Typed, Sessions
    PROVE  Typed'
  <1>1. UNCHANGED <<platformVars, deviceVars, late>>
    BY DEF Sessions, AskSession, SessionStarts, SessionEnds, TapTimer, TimerStarts, TimerEnds
  <1>2. budget' \in Budget
    BY Paying DEF Sessions, AskSession, SessionStarts, SessionEnds, TapTimer, TimerStarts,
                  TimerEnds, Typed
  <1>3. SessionsTyped'
    BY DEF Sessions, AskSession, SessionStarts, SessionEnds, TapTimer, TimerStarts, TimerEnds,
           Typed, SessionsTyped
  <1> QED
    BY <1>1, <1>2, <1>3 DEF Typed, PlatformTyped, BoardTyped, Numbers, platformVars, deviceVars

LEMMA AnswerOperations ==
    ASSUME Typed
    PROVE  /\ Nothing \in Answer /\ Rest \in Ticks /\ tick.answer \in Answer
           /\ Kept(tick.answer) \in Answer
           /\ Kept(tick.answer).desired = tick.answer.desired
           /\ Kept(tick.answer).command = tick.answer.command
           /\ Kept(tick.answer).withdrawn = tick.answer.withdrawn
           /\ Synced \in Answer /\ Synced.command \in 0..Len(commands)
           /\ Rest.answer.command = 0 /\ Rest.answer.desired = None
           /\ Rest.answer.withdrawn = FALSE
  <1>1. Nothing \in Answer /\ Nothing.command = 0 /\ Nothing.desired = None /\ ~Nothing.withdrawn
    BY DEF Nothing, Answer, Slot, Number
  <1>2. Rest \in Ticks /\ Rest.answer = Nothing
    BY <1>1 DEF Rest, Ticks
  <1>3. tick.answer \in Answer
    BY DEF Typed, BoardTyped, Ticks
  <1>4. /\ Kept(tick.answer) \in Answer
        /\ Kept(tick.answer).desired = tick.answer.desired
        /\ Kept(tick.answer).command = tick.answer.command
        /\ Kept(tick.answer).withdrawn = tick.answer.withdrawn
    BY <1>3 DEF Kept, Nothing, Answer, Number
  <1>5. Oldest \in 0..Len(commands)
    BY OldestIsQueued DEF Typed, PlatformTyped
  <1>6. Oldest \in Nat
    <2>1. Len(commands) \in Nat
      BY TypedImplies
    <2> QED
      BY <1>5, <2>1
  <1>7. Synced.command = Oldest
    BY DEF Synced
  <1>8. Synced \in Answer
    <2>1. Desired \in Slot /\ assignment.disabled \in BOOLEAN
      BY DEF Desired, Typed, PlatformTyped, Assignment, Slot
    <2>2. {slots.active, assignment.previous} \cap catalog.revoked \in SUBSET Package
      BY DEF Typed, PlatformTyped, Catalog
    <2> QED
      BY <1>6, <2>1, <2>2 DEF Synced, Answer, Number
  <1> QED
    BY <1>1, <1>2, <1>3, <1>4, <1>5, <1>7, <1>8

\* A step of a round that leaves the platform alone.
LEMMA BoardMoves ==
    ASSUME Typed, UNCHANGED <<platformVars, last, late>>, budget' \in Budget, SessionsTyped',
           slots' \in Slots, tick' \in Ticks, killed' \in BOOLEAN,
           tick'.answer.command \in {0, tick.answer.command}
    PROVE  Typed'
  <1>1. PlatformTyped'
    BY DEF Typed, PlatformTyped, platformVars
  <1>2. BoardTyped'
    BY DEF Typed, BoardTyped
  <1>3. 0 \in 0..Len(commands) /\ commands' = commands /\ killing' = killing
    BY TypedImplies DEF platformVars
  <1>4. Numbers'
    BY <1>3 DEF Typed, Numbers
  <1> QED
    BY <1>1, <1>2, <1>4 DEF Typed

LEMMA RoundTyped ==
    ASSUME Typed, Enforce \/ Disable \/ Decide \/ Fetch \/ FetchLost \/ Activate \/ NothingToReport
    PROVE  Typed'
  <1>0. /\ slots \in Slots /\ tick \in Ticks /\ killed \in BOOLEAN /\ budget \in Budget
        /\ SessionsTyped /\ tick.answer \in Answer /\ Answered.desired \in Slot
    BY AnswerOperations DEF Typed, BoardTyped, Answered, Answer
  <1>1. Remaining \in Slots /\ Disabled(Remaining) \in Slots /\ RolledBack(Remaining) \in Slots
    <2>1. Remaining \in Slots
      BY <1>0, SlotOperations DEF Remaining
    <2> QED
      BY <1>0, <2>1, SlotOperations
  <1>2. Kept(tick.answer) \in Answer /\ Kept(tick.answer).command = tick.answer.command
    BY AnswerOperations
  <1>3. CASE Enforce
    <2>1. tick' \in Ticks /\ tick'.answer = tick.answer
      BY <1>0, <1>3 DEF Enforce, Ticks
    <2>2. killed' \in BOOLEAN /\ SessionsTyped'
      <3>1. Kills \in BOOLEAN
        BY <1>0 DEF Kills, Answered, Answer
      <3>2. companion' \in {companion, Stopped} /\ timer' \in {timer, "off"}
        BY <1>3 DEF Enforce
      <3> QED
        BY <1>0, <1>3, <3>1, <3>2 DEF Enforce, SessionsTyped, Stopped
    <2>3. UNCHANGED <<platformVars, slots, last, budget, late>>
      BY <1>3 DEF Enforce
    <2> QED
      BY <1>0, <2>1, <2>2, <2>3, BoardMoves
  <1>4. CASE Disable
    <2>1. slots' \in Slots
      BY <1>1, <1>4 DEF Disable
    <2>2. (~Idle /\ Remaining.active # None) \in BOOLEAN
      OBVIOUS
    <2>3. tick' \in Ticks /\ tick'.answer = Kept(tick.answer)
      BY <1>0, <1>2, <1>4, <2>2 DEF Disable, Ticks
    <2>4. UNCHANGED <<platformVars, sessionVars, last, killed, budget, late>>
      BY <1>4 DEF Disable
    <2> QED
      BY <1>0, <1>2, <2>1, <2>3, <2>4, BoardMoves DEF sessionVars, SessionsTyped
  <1>5. CASE Decide
    <2>1. slots' \in Slots
      BY <1>1, <1>5 DEF Decide
    <2>2. tick' \in Ticks /\ tick'.answer = Kept(tick.answer)
      BY <1>0, <1>2, <1>5 DEF Decide, Ticks
    <2>3. UNCHANGED <<platformVars, sessionVars, last, killed, budget, late>>
      BY <1>5 DEF Decide
    <2> QED
      BY <1>0, <1>2, <2>1, <2>2, <2>3, BoardMoves DEF sessionVars, SessionsTyped
  <1>6. CASE Fetch
    <2>1. slots' \in Slots
      BY <1>0, <1>6, SlotOperations DEF Fetch
    <2>2. tick' \in Ticks /\ tick'.answer = tick.answer
      BY <1>0, <1>6 DEF Fetch, Ticks
    <2>3. UNCHANGED <<platformVars, sessionVars, last, killed, budget, late>>
      BY <1>6 DEF Fetch
    <2> QED
      BY <1>0, <2>1, <2>2, <2>3, BoardMoves DEF sessionVars, SessionsTyped
  <1>7. CASE FetchLost
    <2>1. tick' \in Ticks /\ tick'.answer = tick.answer
      BY <1>0, <1>7 DEF FetchLost, Ticks
    <2>2. UNCHANGED <<platformVars, sessionVars, slots, last, killed, late>> /\ budget' \in Budget
      BY <1>0, <1>7, Paying DEF FetchLost, Fault
    <2> QED
      BY <1>0, <2>1, <2>2, BoardMoves DEF sessionVars, SessionsTyped
  <1>8. CASE Activate
    <2>1. slots' \in Slots
      BY <1>0, <1>8, SlotOperations DEF Activate
    <2>2. tick' \in Ticks /\ tick'.answer = tick.answer
      BY <1>0, <1>8 DEF Activate, Ticks
    <2>3. UNCHANGED <<platformVars, sessionVars, last, killed, budget, late>>
      BY <1>8 DEF Activate
    <2> QED
      BY <1>0, <2>1, <2>2, <2>3, BoardMoves DEF sessionVars, SessionsTyped
  <1>9. CASE NothingToReport
    BY <1>0, <1>9, AnswerOperations, BoardMoves DEF NothingToReport, sessionVars, SessionsTyped
  <1> QED
    BY <1>3, <1>4, <1>5, <1>6, <1>7, <1>8, <1>9

\* What a change of state of one command leaves.
LEMMA CommandMarked ==
    ASSUME Typed, NEW c \in 1..Len(commands),
           NEW state \in {"queued", "expired", "applied", "blocked", "failed"},
           commands' = [commands EXCEPT ![c].state = state]
    PROVE  /\ commands' \in Seq(Command) /\ Len(commands') = Len(commands)
           /\ DOMAIN commands' = DOMAIN commands /\ c \in DOMAIN commands
           /\ commands'[c].state = state /\ commands'[c].kind = commands[c].kind
           /\ \A d \in DOMAIN commands \ {c} : commands'[d] = commands[d]
           /\ commands[c].state = state => commands'[c] = commands[c]
  <1>1. commands \in Seq(Command) /\ Len(commands) \in Nat
    BY DEF Typed, PlatformTyped
  <1>2. c \in DOMAIN commands /\ commands[c] \in Command
    BY <1>1
  <1>3. [commands[c] EXCEPT !.state = state] \in Command
    BY <1>2 DEF Command
  <1>4. commands' = [commands EXCEPT ![c] = [commands[c] EXCEPT !.state = state]]
    BY <1>2
  <1>5. commands[c].state = state => [commands[c] EXCEPT !.state = state] = commands[c]
    BY <1>2 DEF Command
  <1>6. /\ [commands[c] EXCEPT !.state = state].state = state
        /\ [commands[c] EXCEPT !.state = state].kind = commands[c].kind
    BY <1>2 DEF Command
  <1> DEFINE new == [commands[c] EXCEPT !.state = state]
  <1>7. new \in Command /\ commands' = [commands EXCEPT ![c] = new]
    BY <1>3, <1>4
  <1> HIDE DEF new
  <1>8. /\ commands' \in Seq(Command) /\ Len(commands') = Len(commands)
        /\ DOMAIN commands' = DOMAIN commands
        /\ commands'[c] = new
        /\ \A d \in DOMAIN commands \ {c} : commands'[d] = commands[d]
    BY <1>1, <1>2, <1>7
  <1> QED
    BY <1>2, <1>5, <1>6, <1>8 DEF new

LEMMA KnownResult ==
    ASSUME Typed, Answered.command # 0
    PROVE  /\ Known \in Late /\ Known \in Last
           /\ Known.id = Answered.command /\ Known.id \in 1..Len(commands)
           /\ Known.result # ""
  <1>1. /\ Answered.command \in 0..Len(commands) /\ last \in Last /\ Len(commands) \in Nat
        /\ last.id # 0 => last.result # ""
    BY TypedImplies DEF Typed, Numbers, BoardTyped, Answered
  <1>2. CASE Answered.command = last.id
    <2>1. last.id # 0 /\ last.result # "" /\ last.id \in 1..Len(commands)
      <3>1. last.id # 0 /\ last.id \in 0..Len(commands)
        BY <1>1, <1>2
      <3> QED
        BY <1>1, <3>1, Ranges
    <2>2. last \in Late
      BY <1>1, <2>1 DEF Late, Last
    <2> QED
      BY <1>1, <1>2, <2>1, <2>2 DEF Known
  <1>3. CASE Answered.command # last.id
    <2> DEFINE result == Result(commands[Answered.command].kind)
    <2>1. result \in {"applied", "blocked", "failed"}
      BY DEF Result
    <2>2. Answered.command \in Number /\ Answered.command \in 1..Len(commands)
      <3>1. \A c \in 0..Len(commands) : c \in Nat /\ (c = 0 \/ c \in 1..Len(commands))
        BY <1>1, Ranges
      <3> QED
        BY <1>1, <3>1 DEF Number
    <2> HIDE DEF result
    <2>3. /\ [id |-> Answered.command, result |-> result] \in Late
          /\ [id |-> Answered.command, result |-> result] \in Last
      BY <2>1, <2>2 DEF Late, Last
    <2>4. Known = [id |-> Answered.command, result |-> result]
      BY <1>3 DEF Known, result
    <2> QED
      BY <2>1, <2>2, <2>3, <2>4
  <1> QED
    BY <1>2, <1>3

\* What a report leaves of the numbers.
LEMMA NumbersStay ==
    ASSUME Typed, PlatformTyped', SessionsTyped', slots' \in Slots, tick' \in Ticks, last' \in Last,
           killed' \in BOOLEAN, budget' \in Budget, Len(commands') = Len(commands), killing' = killing,
           tick'.answer.command = 0 \/ tick'.answer.command \in 0..Len(commands),
           last'.id = 0 \/ (last'.id \in 0..Len(commands) /\ last'.result # ""),
           \A m \in late' : m \in late \/ (m \in Late /\ m.id \in 1..Len(commands))
    PROVE  Typed'
  <1>1. 0 \in 0..Len(commands)
    BY TypedImplies, Ranges
  <1>2. Numbers'
    BY <1>1 DEF Typed, Numbers
  <1> QED
    BY <1>2 DEF Typed, BoardTyped

LEMMA ReportsTyped ==
    ASSUME Typed, \/ Expire \/ Sync \/ SyncLost \/ Restart
                  \/ Acknowledge \/ AcknowledgeLost
                  \/ \E m \in late : Arrive(m)
    PROVE  Typed'
  <1>0. /\ slots \in Slots /\ tick \in Ticks /\ last \in Last /\ late \subseteq Late
        /\ PlatformTyped /\ SessionsTyped /\ Numbers /\ budget \in Budget /\ killed \in BOOLEAN
        /\ Len(commands) \in Nat
    BY TypedImplies DEF Typed, BoardTyped
  <1>1. ASSUME NEW c \in 1..Len(commands),
               NEW state \in {"expired", "applied", "blocked", "failed"},
               commands' = [commands EXCEPT ![c].state = state],
               UNCHANGED <<catalog, fits, reported, assignment>>
        PROVE  PlatformTyped' /\ Len(commands') = Len(commands)
    BY <1>0, <1>1, CommandMarked DEF PlatformTyped
  <1>2. CASE Expire
    <2>1. Oldest \in 1..Len(commands)
      BY <1>0, <1>2, OldestIsQueued DEF Expire, PlatformTyped
    <2>2. PlatformTyped' /\ Len(commands') = Len(commands)
      BY <1>1, <1>2, <2>1 DEF Expire
    <2> QED
      BY <1>0, <1>2, <2>2 DEF Expire, Typed, BoardTyped, SessionsTyped, Numbers, sessionVars, deviceVars
  <1>3. CASE Sync
    <2>1. tick' \in Ticks /\ tick'.answer = Synced
      BY <1>0, <1>3, AnswerOperations DEF Sync, Rest, Ticks
    <2>2. Synced.command \in 0..Len(commands)
      BY AnswerOperations
    <2> QED
      BY <1>0, <1>3, <2>1, <2>2 DEF Sync, Typed, PlatformTyped, BoardTyped, SessionsTyped, Numbers, sessionVars
  <1>4. CASE SyncLost
    <2>1. reported' \in BOOLEAN /\ budget' \in Budget
      BY <1>0, <1>4, Paying DEF SyncLost, Fault, PlatformTyped
    <2> QED
      BY <1>0, <1>4, <2>1 DEF SyncLost, Typed, PlatformTyped, BoardTyped, SessionsTyped, Numbers,
                              sessionVars, deviceVars
  <1>5. CASE Restart
    <2>1. /\ slots' \in Slots /\ tick' \in Ticks /\ last' \in Last /\ budget' \in Budget
          /\ tick'.answer.command = 0 /\ last'.id = 0
      BY <1>0, <1>5, AnswerOperations, Paying DEF Restart, Fault, Empty, Slots, Slot, NoAdmin, Last, Number
    <2>2. SessionsTyped' /\ killed' \in BOOLEAN /\ UNCHANGED <<platformVars, late>>
      BY <1>5 DEF Restart, SessionsTyped
    <2>3. PlatformTyped' /\ Len(commands') = Len(commands) /\ killing' = killing
      BY <1>0, <2>2 DEF PlatformTyped, platformVars
    <2> QED
      BY <2>1, <2>2, <2>3, NumbersStay
  <1>6. CASE Acknowledge
    <2>1. /\ Known \in Last /\ Known.id \in 1..Len(commands)
          /\ Known.result \in {"applied", "blocked", "failed"} /\ Known.result # ""
      BY <1>6, KnownResult DEF Acknowledge, Late
    <2>2. PlatformTyped' /\ Len(commands') = Len(commands)
      <3>1. CASE Acknowledges(Known.id, Known.result)
        BY <1>1, <1>6, <2>1, <3>1 DEF Acknowledge
      <3>2. CASE ~Acknowledges(Known.id, Known.result)
        BY <1>0, <1>6, <3>2 DEF Acknowledge, PlatformTyped
      <3> QED
        BY <3>1, <3>2
    <2>3. NoAdmin \in Last /\ NoAdmin.id = 0
      BY DEF NoAdmin, Last, Number
    <2>4. /\ last' \in Last
          /\ last'.id = 0 \/ (last'.id \in 0..Len(commands) /\ last'.result # "")
      <3>1. last' = NoAdmin \/ last' = Known
        BY <1>6 DEF Acknowledge
      <3>2. Known.id \in 0..Len(commands)
        BY <1>0, <2>1, Ranges
      <3> QED
        BY <2>1, <2>3, <3>1, <3>2
    <2>5. tick' \in Ticks /\ tick'.answer.command = 0
      BY <1>6, AnswerOperations DEF Acknowledge
    <2>6. UNCHANGED <<killing, sessionVars, slots, killed, budget, late>>
      BY <1>6 DEF Acknowledge
    <2> QED
      BY <1>0, <2>2, <2>4, <2>5, <2>6, NumbersStay DEF SessionsTyped, sessionVars
  <1>7. CASE AcknowledgeLost
    <2>1. Known \in Last /\ Known \in Late /\ Known.id \in 1..Len(commands) /\ Known.result # ""
      BY <1>7, KnownResult DEF AcknowledgeLost
    <2>2. tick' \in Ticks /\ tick'.answer.command = 0 /\ budget' \in Budget
      BY <1>0, <1>7, AnswerOperations, Paying DEF AcknowledgeLost, Fault
    <2>3. last' = Known /\ late' = late \cup {Known} /\ UNCHANGED <<platformVars, sessionVars, slots, killed>>
      BY <1>7 DEF AcknowledgeLost
    <2> QED
      <3>1. PlatformTyped' /\ SessionsTyped' /\ Len(commands') = Len(commands) /\ killing' = killing
        BY <1>0, <2>3 DEF PlatformTyped, SessionsTyped, platformVars, sessionVars
      <3>2. last'.id \in 0..Len(commands) /\ last' \in Last
        <4>1. Known.id \in 0..Len(commands)
          BY <1>0, <2>1, Ranges
        <4> QED
          BY <2>1, <2>3, <4>1
      <3> QED
        BY <1>0, <2>1, <2>2, <2>3, <3>1, <3>2, NumbersStay
  <1>8. ASSUME NEW m \in late, Arrive(m) PROVE Typed'
    <2>1. m.id \in 1..Len(commands) /\ m.result \in {"applied", "blocked", "failed"}
      BY <1>0 DEF Numbers, Late
    <2>2. PlatformTyped' /\ Len(commands') = Len(commands)
      <3>1. CASE Acknowledges(m.id, m.result)
        BY <1>1, <1>8, <2>1, <3>1 DEF Arrive
      <3>2. CASE ~Acknowledges(m.id, m.result)
        BY <1>0, <1>8, <3>2 DEF Arrive, PlatformTyped
      <3> QED
        BY <3>1, <3>2
    <2> QED
      BY <1>0, <1>8, <2>2 DEF Arrive, Typed, BoardTyped, SessionsTyped, Numbers, sessionVars, deviceVars
  <1> QED
    BY <1>2, <1>3, <1>4, <1>5, <1>6, <1>7, <1>8

LEMMA NextTyped ==
    ASSUME Typed, [Next]_vars
    PROVE  Typed'
  <1>1. CASE Owner
    BY <1>1, OwnerTyped
  <1>2. CASE Administrator
    BY <1>2, AdministratorTyped
  <1>3. CASE Expire \/ Sync \/ Losses \/ Acknowledge \/ \E m \in late : Arrive(m)
    <2>1. CASE FetchLost
      BY <2>1, RoundTyped
    <2> QED
      BY <1>3, <2>1, ReportsTyped DEF Losses
  <1>4. CASE Round
    BY <1>3, <1>4, RoundTyped DEF Round
  <1>5. CASE Sessions
    BY <1>5, UsersTyped
  <1>6. CASE UNCHANGED vars
    BY <1>6 DEF vars, platformVars, sessionVars, deviceVars, Typed, PlatformTyped, BoardTyped,
                SessionsTyped, Numbers
  <1> QED
    BY <1>1, <1>2, <1>3, <1>4, <1>5, <1>6 DEF Next

LEMMA TypedAlways == Spec => []Typed
  BY TypedInit, NextTyped, PTL DEF Spec

\* Every variable keeps its type, and a command that is asked for or reported
\* exists (sync, acknowledge, core_app_tick).
THEOREM AppTypeCorrect == Spec => []AppTypeOK
  BY TypedAlways, TypedImplies, PTL

----------------------------------------------------------------------------
(* The platform.                                                           *)

\* A revoked package is never left assigned, whichever of the commands and
\* revocations came before (request, revoke).
THEOREM AssignmentsSound == Spec => []AssignmentSound
  <1>1. Init => AssignmentSound
    BY DEF Init, AssignmentSound
  <1>2. Typed /\ AssignmentSound /\ [Next]_vars => AssignmentSound'
    <2> SUFFICES ASSUME Typed, AssignmentSound, [Next]_vars PROVE AssignmentSound'
      OBVIOUS
    <2> USE AppRolloutAssumption
    <2>0. /\ catalog \in Catalog /\ assignment \in Assignment /\ None \notin Package
          /\ catalog.imported \subseteq Package /\ catalog.revoked \subseteq Package
      BY DEF Typed, PlatformTyped, Catalog
    <2>1. \A p : Verified(p) => p \in Package /\ p \notin catalog.revoked
      BY <2>0 DEF Verified, Withdrawn
    <2>2. ASSUME UNCHANGED <<catalog, assignment>> PROVE AssignmentSound'
      BY <2>2 DEF AssignmentSound
    <2>3. CASE Owner
      <3>1. UNCHANGED catalog
        BY <2>3 DEF Owner, Assign, Kill, RollBack
      <3>2. ASSUME NEW p \in Package, Assign(p) PROVE AssignmentSound'
        BY <2>0, <2>1, <3>1, <3>2 DEF Assign, AssignmentSound
      <3>3. CASE Kill
        BY <2>0, <3>1, <3>3 DEF Kill, AssignmentSound, Assignment
      <3>4. CASE RollBack
        BY <2>0, <2>1, <3>1, <3>4 DEF RollBack, AssignmentSound
      <3> QED
        BY <2>3, <3>2, <3>3, <3>4 DEF Owner
    <2>4. CASE Administrator
      <3>1. ASSUME NEW p \in Package, Import(p) \/ Lapse(p) PROVE AssignmentSound'
        <4>1. catalog'.revoked = catalog.revoked /\ UNCHANGED assignment
          BY <2>0, <3>1 DEF Import, Lapse, Catalog
        <4> QED
          BY <4>1 DEF AssignmentSound
      <3>2. ASSUME NEW p \in Package, RevokePackage(p) PROVE AssignmentSound'
        <4>1. catalog'.revoked = catalog.revoked \cup {p} /\ assignment' = Reassigned(p)
          BY <2>0, <3>2 DEF RevokePackage, Catalog
        <4>2. Replacement # None => /\ Replacement = assignment.previous
                                    /\ Replacement \notin catalog.revoked
          BY <2>1 DEF Replacement
        <4>3. CASE assignment.package = p
          <5>1. assignment.previous # p /\ p # None
            BY <2>0, <4>3 DEF AssignmentSound
          <5>2. Replacement # p /\ Replacement \notin catalog.revoked
            <6>1. CASE Replacement = None
              BY <2>0, <5>1, <6>1
            <6>2. CASE Replacement # None
              BY <4>2, <5>1, <6>2
            <6> QED
              BY <6>1, <6>2
          <5>3. assignment' = [package |-> Replacement, previous |-> p,
                               disabled |-> Replacement = None]
            BY <4>1, <4>3 DEF Reassigned
          <5>4. assignment'.package = Replacement /\ assignment'.previous = p
            BY <5>3
          <5>5. Replacement = None => assignment'.disabled
            BY <5>3
          <5>6. assignment'.package \notin catalog'.revoked
            BY <4>1, <5>2, <5>4
          <5> QED
            BY <5>2, <5>4, <5>5, <5>6 DEF AssignmentSound
        <4>4. CASE assignment.package # p
          BY <4>1, <4>4 DEF Reassigned, AssignmentSound
        <4> QED
          BY <4>3, <4>4
      <3>3. CASE HardwareReported
        BY <2>2, <3>3 DEF HardwareReported
      <3> QED
        BY <2>4, <3>1, <3>2, <3>3 DEF Administrator
    <2>5. CASE Expire \/ Round \/ (\E m \in late : Arrive(m)) \/ Losses \/ Sessions
      BY <2>2, <2>5
      DEF Expire, Round, Sync, Enforce, Disable, Decide, Fetch, Activate, NothingToReport, Acknowledge,
          Arrive, Losses, SyncLost, FetchLost, AcknowledgeLost, Restart, Sessions, AskSession,
          SessionStarts, SessionEnds, TapTimer, TimerStarts, TimerEnds, platformVars
    <2> QED
      BY <2>2, <2>3, <2>4, <2>5 DEF Next, vars, platformVars
  <1> QED
    BY <1>1, <1>2, TypedAlways, PTL DEF Spec

\* A result that is recorded stays, though acknowledgements are repeated, late and
\* refused and commands expire (sync, acknowledge).
THEOREM ResultsAreFinal == Spec => ResultIsFinal
  <1>1. Typed /\ [Next]_vars =>
           [\A c \in DOMAIN commands :
               commands[c].state # "queued" => commands'[c] = commands[c]]_commands
    <2> SUFFICES ASSUME Typed, [Next]_vars, commands' # commands,
                        NEW c \in DOMAIN commands, commands[c].state # "queued"
                 PROVE  commands'[c] = commands[c]
      OBVIOUS
    <2>0. commands \in Seq(Command) /\ c \in 1..Len(commands)
      BY DEF Typed, PlatformTyped
    <2>1. ASSUME NEW d \in 1..Len(commands),
                 NEW state \in {"expired", "applied", "blocked", "failed"},
                 commands' = [commands EXCEPT ![d].state = state],
                 commands[d].state \in {"queued", state}
          PROVE  commands'[c] = commands[c]
      BY <2>0, <2>1, CommandMarked
    <2>2. CASE Owner
      <3>1. PICK kind \in {"assign_app", "kill_app", "rollback_app"} : Queue(kind)
        BY <2>2 DEF Owner, Assign, Kill, RollBack
      <3> QED
        BY <2>0, <3>1, NumbersGrow
    <2>3. CASE Expire
      <3>1. Oldest \in Queued /\ Oldest \in 1..Len(commands)
        BY <2>0, <2>3, OldestIsQueued DEF Expire
      <3>2. commands[Oldest].state = "queued"
        BY <3>1 DEF Queued
      <3>3. commands' = [commands EXCEPT ![Oldest].state = "expired"]
        BY <2>3 DEF Expire
      <3> QED
        BY <2>1, <3>1, <3>2, <3>3
    <2>4. CASE Acknowledge
      <3>1. /\ Acknowledges(Known.id, Known.result)
            /\ commands' = [commands EXCEPT ![Known.id].state = Known.result]
        BY <2>4 DEF Acknowledge
      <3>2. Known.id \in 1..Len(commands) /\ Known.result \in {"applied", "blocked", "failed"}
        BY <2>4, KnownResult DEF Acknowledge, Late
      <3>3. commands[Known.id].state \in {"queued", Known.result}
        BY <3>1 DEF Acknowledges
      <3> QED
        BY <2>1, <3>1, <3>2, <3>3
    <2>5. ASSUME NEW m \in late, Arrive(m) PROVE commands'[c] = commands[c]
      <3>1. /\ Acknowledges(m.id, m.result)
            /\ commands' = [commands EXCEPT ![m.id].state = m.result]
        BY <2>5 DEF Arrive
      <3>2. m.id \in 1..Len(commands) /\ m.result \in {"applied", "blocked", "failed"}
        BY DEF Typed, Numbers, Late
      <3>3. commands[m.id].state \in {"queued", m.result}
        BY <3>1 DEF Acknowledges
      <3> QED
        BY <2>1, <3>1, <3>2, <3>3
    <2>6. ~(Administrator \/ Losses \/ Sessions)
      BY DEF Administrator, Import, Lapse, HardwareReported, RevokePackage, Losses, SyncLost, FetchLost,
             AcknowledgeLost, Restart, Sessions, AskSession, SessionStarts, SessionEnds, TapTimer,
             TimerStarts, TimerEnds, platformVars
    <2>7. Round => Acknowledge
      BY DEF Round, Sync, Enforce, Disable, Decide, Fetch, Activate, NothingToReport, platformVars
    <2> QED
      BY <2>2, <2>3, <2>4, <2>5, <2>6, <2>7 DEF Next, vars, platformVars
  <1> QED
    BY <1>1, TypedAlways, PTL DEF Spec, ResultIsFinal

----------------------------------------------------------------------------
(* The board.                                                              *)

NotWithdrawn == tick.answer.withdrawn = FALSE

\* What a step does to the active app.
LEMMA ActiveChanges ==
    ASSUME Typed, [Next]_vars
    PROVE  \/ slots'.active \in {None, slots.active}
           \/ slots'.active = Answered.desired
           \/ slots.active \in Answered.revoked_ids
  <1>0. slots \in Slots /\ Answered.desired \in Slot
    BY AnswerOperations DEF Typed, BoardTyped, Answered, Answer
  <1>1. Remaining.active = slots.active \/ slots.active \in Answered.revoked_ids
    BY <1>0, SlotOperations DEF Remaining
  <1>2. CASE Disable
    BY <1>1, <1>2 DEF Disable, Disabled
  <1>3. CASE Decide
    BY <1>1, <1>3 DEF Decide, RolledBack
  <1>4. CASE Fetch
    BY <1>0, <1>4, SlotOperations DEF Fetch
  <1>5. CASE Activate
    BY <1>0, <1>5 DEF Activate, Activated
  <1>6. CASE Restart
    BY <1>6 DEF Restart, Empty
  <1>7. CASE UNCHANGED slots
    BY <1>7
  <1>8. Disable \/ Decide \/ Fetch \/ Activate \/ Restart \/ UNCHANGED slots
    BY DEF Next, Owner, Assign, Kill, RollBack, Administrator, Import, Lapse, HardwareReported,
           RevokePackage, Expire, Round, Sync, Enforce, NothingToReport, Acknowledge, Arrive, Losses,
           SyncLost, FetchLost, AcknowledgeLost, Sessions, AskSession, SessionStarts, SessionEnds,
           TapTimer, TimerStarts, TimerEnds, vars, deviceVars
  <1> QED
    BY <1>2, <1>3, <1>4, <1>5, <1>6, <1>7, <1>8

\* What a step does to the answer of the round.
LEMMA AnswerChanges ==
    ASSUME Typed, [Next]_vars
    PROVE  \/ tick'.answer = tick.answer
           \/ tick'.answer = Kept(tick.answer)
           \/ Sync /\ tick'.answer = Synced
           \/ tick'.answer = Nothing
  <1>0. tick \in Ticks /\ Rest.answer = Nothing
    BY DEF Typed, BoardTyped, Rest
  <1>1. CASE Sync
    <2>1. tick' = [Rest EXCEPT !.at = "answered", !.answer = Synced]
      BY <1>1 DEF Sync
    <2> QED
      BY <1>1, <2>1 DEF Rest
  <1>2. CASE Enforce \/ Fetch \/ FetchLost \/ Activate
    BY <1>0, <1>2 DEF Enforce, Fetch, FetchLost, Activate, Ticks
  <1>3. CASE Disable \/ Decide
    BY <1>0, <1>3 DEF Disable, Decide, Ticks
  <1>4. CASE NothingToReport \/ Acknowledge \/ AcknowledgeLost \/ Restart
    BY <1>0, <1>4 DEF NothingToReport, Acknowledge, AcknowledgeLost, Restart
  <1>5. CASE UNCHANGED tick
    BY <1>5
  <1>6. \/ Sync \/ Enforce \/ Fetch \/ FetchLost \/ Activate \/ Disable \/ Decide
        \/ NothingToReport \/ Acknowledge \/ AcknowledgeLost \/ Restart \/ UNCHANGED tick
    BY DEF Next, Owner, Assign, Kill, RollBack, Administrator, Import, Lapse, HardwareReported,
           RevokePackage, Expire, Round, Arrive, Losses, SyncLost, Sessions, AskSession, SessionStarts,
           SessionEnds, TapTimer, TimerStarts, TimerEnds, vars, deviceVars
  <1> QED
    BY <1>1, <1>2, <1>3, <1>4, <1>5, <1>6

\* What starts to run is what the platform named in this round, when it was neither
\* revoked nor lapsed, or what ran before a package that is revoked (sync,
\* core_app_tick, live_app).
THEOREM StartsApproved == Spec => OnlyApprovedStarts
  <1>1. Init => NotWithdrawn
    BY DEF Init, NotWithdrawn, Rest, Nothing
  <1>2. Typed /\ NotWithdrawn /\ [Next]_vars => NotWithdrawn'
    <2> SUFFICES ASSUME Typed, NotWithdrawn, [Next]_vars PROVE NotWithdrawn'
      OBVIOUS
    <2>1. Synced.withdrawn = FALSE
      <3>1. None \notin Withdrawn
        <4>1. catalog.revoked \subseteq Package /\ catalog.lapsed \subseteq Package
          <5>1. catalog \in Catalog
            BY DEF Typed, PlatformTyped
          <5> QED
            BY <5>1 DEF Catalog
        <4> QED
          BY <4>1, AppRolloutAssumption DEF Withdrawn
      <3>2. Desired \notin Withdrawn
        BY <3>1 DEF Desired, Verified
      <3> QED
        <4> DEFINE w == Desired \in Withdrawn
        <4>1. w = FALSE
          BY <3>2
        <4> HIDE DEF w
        <4>2. Synced.withdrawn = w
          BY DEF Synced, w
        <4> QED
          BY <4>1, <4>2
    <2>2. Kept(tick.answer).withdrawn = tick.answer.withdrawn /\ Nothing.withdrawn = FALSE
      BY AnswerOperations DEF Nothing
    <2> QED
      BY <2>1, <2>2, AnswerChanges DEF NotWithdrawn
  <1>3. Typed /\ NotWithdrawn /\ [Next]_vars =>
           [\/ slots'.active \in {None, slots.active}
            \/ slots'.active = Answered.desired /\ ~Answered.withdrawn
            \/ slots.active \in Answered.revoked_ids]_slots
    BY ActiveChanges DEF NotWithdrawn, Answered
  <1> QED
    BY <1>1, <1>2, <1>3, TypedAlways, PTL DEF Spec, OnlyApprovedStarts

----------------------------------------------------------------------------
(* A kill command.  While it is in force no answer desires an app, so once *)
(* the board has found that it runs none, it stays so.                     *)

Reported(k) == \/ commands[k].state = "applied"
               \/ last.id = k /\ last.result = "applied"
               \/ \E m \in late : m.id = k /\ m.result = "applied"

InForce ==
    /\ assignment.disabled
    /\ commands[killing].kind = "kill_app"
    /\ tick.answer.command = killing => tick.answer.desired = None
    /\ Reported(killing) => slots.active = None /\ tick.answer.desired = None

Killed == killing # 0 => InForce

LEMMA OwnerKills ==
    ASSUME Typed, Killed, Owner
    PROVE  Killed'
  <1>1. ASSUME Kill PROVE InForce'
    <2>1. /\ Queue("kill_app") /\ assignment' = [assignment EXCEPT !.disabled = TRUE]
          /\ killing' = Len(commands') /\ UNCHANGED <<tick, last, late>>
      BY <1>1 DEF Kill, deviceVars
    <2>2. assignment'.disabled
      BY <2>1 DEF Typed, PlatformTyped, Assignment
    <2>3. /\ Len(commands) \in Nat /\ killing' = Len(commands) + 1
          /\ commands'[killing'] = [kind |-> "kill_app", state |-> "queued"]
      BY <2>1, NumbersGrow
    <2>4. \A c \in 0..Len(commands) : c # killing'
      BY <2>3
    <2>5. tick'.answer.command # killing' /\ last'.id # killing'
      BY <2>1, <2>4 DEF Typed, Numbers
    <2>6. \A m \in late' : m.id # killing'
      <3>1. \A c \in 1..Len(commands) : c # killing'
        BY <2>3
      <3>2. late' = late /\ \A m \in late : m.id \in 1..Len(commands)
        BY <2>1 DEF Typed, Numbers
      <3> QED
        BY <3>1, <3>2
    <2>7. ~Reported(killing)'
      BY <2>3, <2>5, <2>6 DEF Reported
    <2> QED
      BY <2>2, <2>3, <2>5, <2>7 DEF InForce
  <1> QED
    BY <1>1 DEF Owner, Assign, RollBack, Killed

\* A step that neither marks a command nor reports a result.
LEMMA QuietKills ==
    ASSUME Typed, Killed, [Next]_vars,
           killing' \in {0, killing}, killing' # 0 => assignment'.disabled,
           UNCHANGED commands, last' = last \/ last'.id = 0, late' = late
    PROVE  Killed'
  <1>1. ASSUME killing # 0, Sync, tick'.answer = Synced, killing' # 0 PROVE tick'.answer.desired = None
    <2>1. InForce
      BY <1>1 DEF Killed
    <2>2. Desired = None
      BY <2>1 DEF Desired, InForce
    <2> QED
      BY <1>1, <2>2 DEF Synced
  <1>2. Kept(tick.answer).command = tick.answer.command
        /\ Kept(tick.answer).desired = tick.answer.desired /\ Nothing.desired = None
    BY AnswerOperations DEF Nothing
  <1>3. CASE killing' = 0
    BY <1>3 DEF Killed
  <1>4. CASE killing' # 0
    <2>1. InForce /\ killing' = killing /\ killing # 0
      BY <1>4 DEF Killed
    <2>2. \/ tick'.answer.desired = None
          \/ /\ tick'.answer.command = tick.answer.command
             /\ tick'.answer.desired = tick.answer.desired
      BY <1>1, <1>2, <1>4, <2>1, AnswerChanges
    <2>3. Reported(killing)' => Reported(killing)
      BY <2>1 DEF Reported
    <2>4. tick.answer.desired = None /\ slots.active = None => slots'.active \in {None, slots.active}
      <3>1. None \notin Answered.revoked_ids
        BY AnswerOperations, AppRolloutAssumption DEF Answered, Answer
      <3> QED
        BY <3>1, ActiveChanges DEF Answered
    <2>5. Reported(killing)' => slots'.active = None /\ tick'.answer.desired = None
      BY <2>1, <2>2, <2>3, <2>4 DEF InForce
    <2>6. tick'.answer.command = killing' => tick'.answer.desired = None
      BY <2>1, <2>2 DEF InForce
    <2>7. assignment'.disabled /\ commands'[killing'].kind = "kill_app"
      BY <1>4, <2>1 DEF InForce
    <2> QED
      BY <2>5, <2>6, <2>7 DEF InForce, Killed
  <1> QED
    BY <1>3, <1>4

\* A step that marks a command or reports a result, and leaves the slots alone.
LEMMA ReportKills ==
    ASSUME Typed, Killed, slots' = slots, killing' = killing, assignment' = assignment,
           tick' = tick \/ tick' = Rest,
           \A c \in DOMAIN commands : commands'[c].kind = commands[c].kind,
           Reported(killing)' /\ killing # 0 =>
              Reported(killing) \/ (tick.answer.command = killing /\ slots.active = None)
    PROVE  Killed'
  <1>1. CASE killing = 0
    BY <1>1 DEF Killed
  <1>2. CASE killing # 0
    <2>1. InForce
      BY <1>2 DEF Killed
    <2>2. killing \in DOMAIN commands
      <3>1. Len(commands) \in Nat /\ killing \in 0..Len(commands) /\ commands \in Seq(Command)
        BY TypedImplies DEF Typed, Numbers, PlatformTyped
      <3> QED
        BY <1>2, <3>1
    <2>3. Rest.answer.command = 0 /\ Rest.answer.desired = None
      BY AnswerOperations
    <2>4. tick'.answer.command = killing => tick'.answer.desired = None
      BY <1>2, <2>1, <2>3 DEF InForce
    <2>5. Reported(killing)' => slots'.active = None /\ tick'.answer.desired = None
      BY <1>2, <2>1, <2>3 DEF InForce
    <2>6. assignment'.disabled /\ commands'[killing'].kind = "kill_app"
      BY <2>1, <2>2 DEF InForce
    <2> QED
      BY <2>4, <2>5, <2>6 DEF InForce, Killed
  <1> QED
    BY <1>1, <1>2

\* What the board reports of the kill command in force.
LEMMA KnownKilled ==
    ASSUME Typed, Killed, killing # 0, Answered.command # 0, Known.id = killing,
           Known.result = "applied"
    PROVE  Reported(killing) \/ (tick.answer.command = killing /\ slots.active = None)
  <1>1. CASE Answered.command = last.id
    BY <1>1 DEF Known, Reported
  <1>2. CASE Answered.command # last.id
    <2>1. Answered.command = killing /\ Known.result = Result(commands[killing].kind)
      BY <1>2 DEF Known
    <2>2. commands[killing].kind = "kill_app"
      BY DEF Killed, InForce
    <2>3. slots.active = None
      BY <2>1, <2>2 DEF Result, Asked
    <2> QED
      BY <2>1, <2>3 DEF Answered
  <1> QED
    BY <1>1, <1>2

LEMMA MarkKills ==
    ASSUME Typed, Killed, NEW m \in Late, m.id \in 1..Len(commands), slots' = slots,
           UNCHANGED <<assignment, killing>>, tick' = tick \/ tick' = Rest,
           last' = last \/ last'.id = 0 \/ last' = m,
           late' \subseteq late \cup {m},
           commands' = commands \/ commands' = [commands EXCEPT ![m.id].state = m.result],
           killing # 0 /\ m.id = killing /\ m.result = "applied" =>
              Reported(killing) \/ (tick.answer.command = killing /\ slots.active = None)
    PROVE  Killed'
  <1>1. m.result \in {"applied", "blocked", "failed"}
    BY DEF Late
  <1>2. /\ \A c \in DOMAIN commands : commands'[c].kind = commands[c].kind
        /\ \A c \in DOMAIN commands :
              commands'[c].state = "applied" =>
                 commands[c].state = "applied" \/ (c = m.id /\ m.result = "applied")
    BY <1>1, CommandMarked
  <1>3. killing # 0 => killing \in DOMAIN commands
    <2>1. Len(commands) \in Nat /\ killing \in 0..Len(commands) /\ commands \in Seq(Command)
      BY TypedImplies DEF Typed, Numbers, PlatformTyped
    <2> QED
      BY <2>1
  <1>4. Reported(killing)' /\ killing # 0 =>
           Reported(killing) \/ (m.id = killing /\ m.result = "applied")
    BY <1>2, <1>3 DEF Reported
  <1> QED
    BY <1>2, <1>4, ReportKills

LEMMA NextKills ==
    ASSUME Typed, Killed, [Next]_vars
    PROVE  Killed'
  <1>1. CASE Owner
    BY <1>1, OwnerKills
  <1>2. CASE Administrator
    <2>1. UNCHANGED <<commands, last, late>>
      BY <1>2 DEF Administrator, Import, Lapse, HardwareReported, RevokePackage, deviceVars
    <2> DEFINE Disables == killing' \in {0, killing} /\ (killing' # 0 => assignment'.disabled)
    <2>2. Disables
      <3>1. ASSUME UNCHANGED <<killing, assignment>> PROVE Disables
        BY <3>1 DEF Killed, InForce
      <3>2. ASSUME NEW p \in Package, RevokePackage(p) PROVE Disables
        <4>1. CASE assignment.package = p /\ Replacement # None
          BY <3>2, <4>1 DEF RevokePackage
        <4>2. CASE assignment.package = p /\ Replacement = None
          BY <3>2, <4>2 DEF RevokePackage, Reassigned
        <4>3. CASE assignment.package # p
          BY <3>2, <4>3 DEF RevokePackage, Reassigned, Killed, InForce
        <4> QED
          BY <4>1, <4>2, <4>3
      <3> QED
        BY <1>2, <3>1, <3>2 DEF Administrator, Import, Lapse, HardwareReported
    <2> QED
      BY <2>1, <2>2, QuietKills
  <1>3. ASSUME UNCHANGED <<assignment, killing, commands, late>>, last' = last \/ last'.id = 0
        PROVE  Killed'
    BY <1>3, QuietKills DEF Killed, InForce
  <1>4. CASE Expire
    <2>1. Oldest \in 1..Len(commands)
      BY <1>4, OldestIsQueued DEF Expire, Typed, PlatformTyped
    <2>2. commands' = [commands EXCEPT ![Oldest].state = "expired"]
          /\ UNCHANGED <<assignment, killing, slots, tick, last, late>>
      BY <1>4 DEF Expire, deviceVars
    <2>3. /\ \A c \in DOMAIN commands : commands'[c].kind = commands[c].kind
          /\ \A c \in DOMAIN commands :
                commands'[c].state = "applied" => commands[c].state = "applied"
      BY <2>1, <2>2, CommandMarked
    <2>4. killing # 0 => killing \in DOMAIN commands
      <3>1. Len(commands) \in Nat /\ killing \in 0..Len(commands) /\ commands \in Seq(Command)
        BY TypedImplies DEF Typed, Numbers, PlatformTyped
      <3> QED
        BY <3>1
    <2>5. Reported(killing)' /\ killing # 0 => Reported(killing)
      BY <2>2, <2>3, <2>4 DEF Reported
    <2> QED
      BY <2>2, <2>3, <2>5, ReportKills
  <1>5. CASE Acknowledge
    <2>1. Known \in Late /\ Known.id \in 1..Len(commands)
      BY <1>5, KnownResult DEF Acknowledge
    <2>2. /\ UNCHANGED <<assignment, killing, slots, late>> /\ tick' = Rest
          /\ last' = Known \/ last' = NoAdmin
          /\ commands' = commands \/ commands' = [commands EXCEPT ![Known.id].state = Known.result]
      <3>1. UNCHANGED <<assignment, killing, slots, late>> /\ tick' = Rest
        BY <1>5 DEF Acknowledge
      <3>2. CASE Acknowledges(Known.id, Known.result)
        BY <1>5, <3>1, <3>2 DEF Acknowledge
      <3>3. CASE ~Acknowledges(Known.id, Known.result)
        BY <1>5, <3>1, <3>3 DEF Acknowledge
      <3> QED
        BY <3>2, <3>3
    <2>3. last' = last \/ last'.id = 0 \/ last' = Known
      <3>1. last' = Known \/ last' = NoAdmin
        BY <2>2
      <3>2. NoAdmin.id = 0
        BY DEF NoAdmin
      <3> QED
        BY <3>1, <3>2
    <2>4. killing # 0 /\ Known.id = killing /\ Known.result = "applied" =>
             Reported(killing) \/ (tick.answer.command = killing /\ slots.active = None)
      BY <1>5, KnownKilled DEF Acknowledge
    <2> QED
      BY <2>1, <2>2, <2>3, <2>4, MarkKills
  <1>6. CASE AcknowledgeLost
    <2>1. Known \in Late /\ Known.id \in 1..Len(commands)
      BY <1>6, KnownResult DEF AcknowledgeLost
    <2>2. /\ UNCHANGED <<assignment, killing, slots, commands>> /\ tick' = Rest
          /\ last' = Known /\ late' = late \cup {Known}
      BY <1>6 DEF AcknowledgeLost, platformVars
    <2>3. killing # 0 /\ Known.id = killing /\ Known.result = "applied" =>
             Reported(killing) \/ (tick.answer.command = killing /\ slots.active = None)
      BY <1>6, KnownKilled DEF AcknowledgeLost
    <2> QED
      BY <2>1, <2>2, <2>3, MarkKills
  <1>7. ASSUME NEW m \in late, Arrive(m) PROVE Killed'
    <2>1. m \in Late /\ m.id \in 1..Len(commands)
      BY DEF Typed, Numbers
    <2>2. /\ UNCHANGED <<assignment, killing, slots, tick, last>> /\ late' \subseteq late
          /\ commands' = commands \/ commands' = [commands EXCEPT ![m.id].state = m.result]
      BY <1>7 DEF Arrive, deviceVars
    <2>3. killing # 0 /\ m.id = killing /\ m.result = "applied" => Reported(killing)
      BY DEF Reported
    <2> QED
      BY <2>1, <2>2, <2>3, MarkKills
  <1>8. CASE Restart
    BY <1>3, <1>8 DEF Restart, platformVars, NoAdmin
  <1>9. CASE \/ Sync \/ Enforce \/ Disable \/ Decide \/ Fetch \/ Activate \/ NothingToReport
             \/ SyncLost \/ FetchLost \/ Sessions \/ UNCHANGED vars
    BY <1>3, <1>9 DEF Sync, Enforce, Disable, Decide, Fetch, Activate, NothingToReport, SyncLost,
                      FetchLost, Sessions, AskSession, SessionStarts, SessionEnds, TapTimer,
                      TimerStarts, TimerEnds, vars, platformVars, deviceVars
  <1> QED
    BY <1>1, <1>2, <1>4, <1>5, <1>6, <1>7, <1>8, <1>9 DEF Next, Round, Losses

\* A kill command that is acknowledged as applied holds: until the owner assigns or
\* rolls back, or a revocation switches the device, no lost or late request, no
\* answer on its way and no restart makes the device run an app (sync, acknowledge,
\* core_app_tick, live_app).
THEOREM KillsHold == Spec => []KillHolds
  <1>1. Init => Killed
    BY DEF Init, Killed
  <1>2. Killed => KillHolds
    BY DEF Killed, InForce, KillHolds, Reported
  <1> QED
    BY <1>1, <1>2, NextKills, TypedAlways, PTL DEF Spec
=============================================================================
