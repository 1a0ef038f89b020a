SPECIFICATION FairSpec
CONSTANTS
    c1 = c1
    a = a
    Clnt <- Clnt1
    Op <- Op1
    MaxInst = 3
INVARIANTS Durable RestartInv
PROPERTIES NothingLost CallReturns
