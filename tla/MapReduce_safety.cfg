CONSTANTS
    w1 = w1
    w2 = w2
    Worker <- Worker2
    nFiles = 2
    nReduce = 4
    Ticking = TRUE
    MaxTimeouts = 2
    MaxCrashes = 2
SPECIFICATION Spec
SYMMETRY Symm
INVARIANTS InputsComplete NoTaskLost FinishedUnlessTimeout OneCopy NoSendBlocks MapInv
CHECK_DEADLOCK FALSE
