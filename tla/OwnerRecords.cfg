\* One asset, two overlapping callers, up to five events and three mandates.
SPECIFICATION Spec
CONSTANTS
    Assets      = {a1}
    Callers     = {c1, c2}
    Requests    <- Asked
    Noters      = {"system"}
    MaxEvents   = 5
    MaxMandates = 3
SYMMETRY Symmetry
INVARIANTS
    TypeOK
    NeverAutomatic
    ValidatedIsComplete
    DecisionIsLast
    HistoryAgrees
    DecidedOnce
    MandatesAreNumbered
\* The bounds end every behaviour.
CHECK_DEADLOCK FALSE
