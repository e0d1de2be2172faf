\* The Owner accepts and closes the same draft in two overlapping requests.
SPECIFICATION Spec
CONSTANTS
    Tasks        = {t1}
    Proposals    = {p1}
    Requests     = {r1, r2}
    Specialists  = {writer}
    OwnerOps     = {"accept", "close"}
    Faults       = {}
    MaxCrashes   = 0
    MaxRows      = 1
    MaxQueue     = 1
    NoTask       = NoTask
    NoProposal   = NoProposal
    NoSpecialist = NoSpecialist
SYMMETRY Symmetry
PROPERTIES
    SettledIsFinal
\* The system rests once every task is settled and every crash is spent.
CHECK_DEADLOCK FALSE
