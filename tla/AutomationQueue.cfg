SPECIFICATION Spec
CONSTANTS
    Tasks      = {t1}
    Agents     = {a1, a2}
    Server     = Server
    Code       = Code
    None       = None
    Barred     = {}
    MaxMishaps = 1
    MaxPushes  = 1
SYMMETRY Symmetry
INVARIANTS
    TypeOK
    OneRunner
    RunIsRecorded
PROPERTIES
    HandedOutIsOpen
    DoneIsSettled
