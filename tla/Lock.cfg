CONSTANTS
    c1 = c1
    c2 = c2
    Clnt <- Clnt2
    Key = {l}
    lockName = l
    Value <- MCValue
    clientID <- MCClientID
    Empty = Empty
    NoValue = NoValue
    Unreliable = TRUE
    Disconnects = FALSE
    MaxAcquire = 3

SPECIFICATION FairSpec
INVARIANTS MutualExclusion HolderRecorded LockInv
PROPERTIES AcquireReturns IsMutex
CHECK_DEADLOCK FALSE
