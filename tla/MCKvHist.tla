------------------------------ MODULE MCKvHist ------------------------------
EXTENDS KvHist, TLC

CONSTANTS c1, c2

MCClnt  == {c1, c2}
Symm    == Permutations(MCClnt)
MCEmpty == 0                       \* any value that names no operation
MCValue == 0..MaxOps
=============================================================================
