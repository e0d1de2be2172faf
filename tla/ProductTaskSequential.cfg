\* Two tasks share the worker, the Owner makes one request at a time, one crash.
\* No symmetry, for the liveness properties.
SPECIFICATION FairSpec
CONSTANTS
    Tasks        = {t1, t2}
    Proposals    = {p1, p2}
    Requests     = {r1}
    Specialists  = {writer}
    OwnerOps     = {"accept", "retry", "close", "approve", "reject"}
    Faults       = {"budget", "error", "skill", "upload"}
    MaxCrashes   = 1
    MaxRows      = 2
    MaxQueue     = 1
    NoTask       = NoTask
    NoProposal   = NoProposal
    NoSpecialist = NoSpecialist
INVARIANTS
    ReportIsTrue
    MemoryOfDelivered
    EmployeesReleased
    ProvisionedIsApproved
    RunningIsOwned
    WorkerSurvives
PROPERTIES
    ContractHolds
    QueuedIsTaken
    SubmittedIsAnswered
\* The system rests once every task is settled and every crash is spent.
CHECK_DEADLOCK FALSE
