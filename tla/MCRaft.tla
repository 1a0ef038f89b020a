------------------------------- MODULE MCRaft -------------------------------
EXTENDS Raft, TLC

CONSTANTS s1, s2, s3

Server3 == {s1, s2, s3}
Symm == Permutations(Server3)

Server2 == {s1, s2}
Symm2 == Permutations(Server2)
=============================================================================
