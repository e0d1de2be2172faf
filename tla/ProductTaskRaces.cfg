\* One task, two request threads that overlap each other and the worker, a crash.
SPECIFICATION Spec
CONSTANTS
    Tasks        = {t1}
    Proposals    = {p1}
    Requests     = {r1, r2}
    Specialists  = {writer}
    OwnerOps     = {"accept", "retry", "close", "approve", "reject"}
    Faults       = {"budget", "error", "skill", "upload"}
    MaxCrashes   = 1
    MaxRows      = 1
    MaxQueue     = 1
    NoTask       = NoTask
    NoProposal   = NoProposal
    NoSpecialist = NoSpecialist
SYMMETRY Symmetry
INVARIANTS
    TypeOK
    NoLostTask
    CompletedIsOut
\* The system rests once every task is settled and every crash is spent.
CHECK_DEADLOCK FALSE
