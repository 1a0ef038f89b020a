CONSTANTS
    NoKeyValue = NoKeyValue
    EmptyString = EmptyString
    Clnt <- MCClnt
    main <- MCMain
    Key <- MCKey
    testKey = "k"
    Value <- MCValue
    Empty = EmptyString
    NoValue = NoKeyValue
    Unreliable = TRUE
    Disconnects = FALSE
    MaxIter = 2
    MaxVer = 5
SPECIFICATION FairSpec
INVARIANTS AppendInv NoFatal OwnPut AppendsCounted
PROPERTIES AppendsKept TestEnds
CHECK_DEADLOCK FALSE
