CONSTANTS
    w1 = w1
    w2 = w2
    Worker <- Worker2
    nFiles = 1
    nReduce = 2
    Ticking = TRUE
    MaxTimeouts = 0
    MaxCrashes = 0
SPECIFICATION FairSpec
PROPERTY JobFinishes
CHECK_DEADLOCK FALSE
