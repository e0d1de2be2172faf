\* Two tasks, two employees, two versions of one Skill, two site names; one retry, one
\* change of the tree and one crash.
SPECIFICATION Spec
CONSTANTS
    Tasks      = {t1, t2}
    Employees  = {coder, designer}
    coder      = coder
    designer   = designer
    Definitions <- Files
    Builders   = {designer}
    Writers    = {coder}
    v1         = v1
    v2         = v2
    Refs       = {v1, v2}
    Sibling    <- Together
    Rosters    <- Lists
    Deployed   <- FirstRegistry
    Contents   = {c1, c2}
    Names      = {n1, n2}
    MaxRetries = 1
    MaxEdits   = 1
    MaxCrashes = 1
SYMMETRY Symmetry
INVARIANTS
    TypeOK
    PromptIsTrue
    AuditReplays
    LinkShowsItsDeck
\* The bounds end every behaviour.
CHECK_DEADLOCK FALSE
