\* Two threads inside complete(), up to two lost calls or crashes.
SPECIFICATION Spec
CONSTANTS
    t1         = t1
    t2         = t2
    Tasks      = {t1, t2}
    Callers    = {c1, c2}
    Seed       = 5
    Prices     = {1, 2}
    Overrun    = 0
    TaskBudget <- Limits
    NoLimit    = NoLimit
    NoTask     = NoTask
    MaxLosses  = 2
SYMMETRY Symmetry
INVARIANTS
    TypeOK
    NeverOverdrawn
    WithinTaskBudget
    BilledIsReserved
    TruedUp
\* The bill may exhaust the budget.
CHECK_DEADLOCK FALSE
