SPECIFICATION FairSpec
CONSTANTS
    Tasks      = {t1, t2}
    Agents     = {a1}
    Server     = Server
    Code       = Code
    None       = None
    Barred     = {t2}
    MaxMishaps = 1
    MaxPushes  = 0
PROPERTIES
    QueueMoves
