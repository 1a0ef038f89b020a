------------------------------ MODULE MCRestart ------------------------------
(* Small instances of Restart for TLC. *)
EXTENDS Restart

CONSTANTS c1, a

Clnt1 == {c1}
Op1   == {a}
=============================================================================
