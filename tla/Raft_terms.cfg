CONSTANTS
    s1 = s1
    s2 = s2
    s3 = s3
    Server <- Server2
    Nobody = Nobody
    MaxTerm = 3
    MaxElections = 3
SPECIFICATION Spec
SYMMETRY Symm2
INVARIANTS VoteOnce VoteInv TimersRun
PROPERTY TermsGrow
CHECK_DEADLOCK FALSE
