CONSTANTS
    Tree = {w1, w2}
    Trust <- SomeTrust
    Publisher = {p1, p2}
    Output = {o1, o2}
    Budgets <- SmallBudgets
    None = None
SYMMETRY Interchangeable
SPECIFICATION Spec
INVARIANTS
    ReleaseTypeOK
    SequenceIsUnique
    MarkerIsLast
    ServedAsBuilt
PROPERTIES
    DoneStays
CHECK_DEADLOCK FALSE
