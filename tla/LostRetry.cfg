\* The Owner retries a draft; nothing fails.
SPECIFICATION Spec
CONSTANTS
    Tasks        = {t1}
    Proposals    = {p1}
    Requests     = {r1}
    Specialists  = {writer}
    OwnerOps     = {"retry"}
    Faults       = {}
    MaxCrashes   = 0
    MaxRows      = 1
    MaxQueue     = 1
    NoTask       = NoTask
    NoProposal   = NoProposal
    NoSpecialist = NoSpecialist
SYMMETRY Symmetry
INVARIANTS
    RevisionIsRun
\* The system rests once every task is settled and every crash is spent.
CHECK_DEADLOCK FALSE
