CONSTANTS
    s1 = s1
    s2 = s2
    s3 = s3
    Server <- Server3
    Nobody = Nobody
    MaxTerm = 1
    MaxElections = 3
SPECIFICATION Spec
SYMMETRY Symm
INVARIANT OneLeader
CHECK_DEADLOCK FALSE
