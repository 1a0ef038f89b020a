CONSTANTS
    a = a
    b = b
    c = c
    NShards = 11
    Gid <- Gid3
    Servers <- Servers3
    MaxNum = 4
    MaxLeave = 2
SPECIFICATION FairSpec
INVARIANTS CheckConfig NoChurn
PROPERTY Terminates
CHECK_DEADLOCK FALSE
