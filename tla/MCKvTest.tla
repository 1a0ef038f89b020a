------------------------------ MODULE MCKvTest ------------------------------
(* KvTest for TLC: two clients besides the test's own clerk, one key.      *)
EXTENDS KvTest

CONSTANTS NoKeyValue, EmptyString

MCClnt  == {-1, 0, 1}
MCMain  == -1
MCKey   == {"k"}
MCValue == Seq([Id : Clnt, N : Nat]) \cup {EmptyString}
=============================================================================
