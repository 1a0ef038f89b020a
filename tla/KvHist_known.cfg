CONSTANTS
    c1 = c1
    c2 = c2
    Clnt <- MCClnt
    Key = {k1}
    Value <- MCValue
    Empty <- MCEmpty
    NoValue = NoValue
    Unreliable = TRUE
    Disconnects = TRUE
    MaxOps = 3
    MaxVersion = 2
SYMMETRY Symm
SPECIFICATION SpecKnown
INVARIANTS AtMostOnce ExactAnswers HistInv
PROPERTIES NoLateEffect Linearizable
