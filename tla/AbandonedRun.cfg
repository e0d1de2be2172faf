SPECIFICATION FairSpec
CONSTANTS
    Tasks      = {t1}
    Agents     = {a1}
    Server     = Server
    Code       = Code
    None       = None
    Barred     = {}
    MaxMishaps = 1
    MaxPushes  = 0
PROPERTIES
    RunIsReleased
