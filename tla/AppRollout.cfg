CONSTANTS
    Package = {voice, clock}
    Companion = {voice}
    Timer = {clock}
    Budgets <- SmallBudgets
    None = None
SPECIFICATION FairSpec
INVARIANTS
    AppTypeOK
    AssignmentSound
    KillHolds
PROPERTIES
    OnlyApprovedStarts
    ResultIsFinal
    Settles
CHECK_DEADLOCK FALSE
