SPECIFICATION FairSpec
CONSTANTS
    Tasks      = {t1}
    Agents     = {a1}
    Server     = Server
    Code       = Code
    None       = None
    Barred     = {}
    MaxMishaps = 0
    MaxPushes  = 1
PROPERTIES
    QueueMoves
