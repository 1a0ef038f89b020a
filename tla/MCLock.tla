------------------------------- MODULE MCLock -------------------------------
EXTENDS Lock

CONSTANTS c1, c2

Clnt2 == {c1, c2}

\* A client's own name serves as its clientID.
MCValue    == Clnt \cup {Empty}
MCClientID == [c \in Clnt |-> c]
=============================================================================
