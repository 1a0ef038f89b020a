------------------------------- MODULE Mutex -------------------------------
(***************************************************************************)
(* What a lock promises its clients, whatever it is made of.  A client     *)
(* calls Acquire, is granted the lock while it waits, and learns of it     *)
(* when Acquire returns.  It calls Release, which returns when the client  *)
(* is the owner no more; the lock may be granted to another before that.   *)
(***************************************************************************)
CONSTANT Clnt

VARIABLES
    where,       \* per client: "out", "waiting", "held" or "releasing"
    owner        \* the client to which the lock is granted, if any, as a set

vars == <<where, owner>>

Init ==
    /\ where = [c \in Clnt |-> "out"]
    /\ owner = {}

Move(c, from, to) == where[c] = from /\ where' = [where EXCEPT ![c] = to]

CallAcquire(c) == Move(c, "out", "waiting") /\ UNCHANGED owner

Grant(c) ==
    /\ where[c] = "waiting" /\ owner = {}
    /\ owner' = {c}
    /\ UNCHANGED where

Enter(c) == Move(c, "waiting", "held") /\ owner = {c} /\ UNCHANGED owner

CallRelease(c) == Move(c, "held", "releasing") /\ UNCHANGED owner

Free(c) ==
    /\ where[c] = "releasing" /\ owner = {c}
    /\ owner' = {}
    /\ UNCHANGED where

Leave(c) == Move(c, "releasing", "out") /\ c \notin owner /\ UNCHANGED owner

Next ==
    \E c \in Clnt :
        \/ CallAcquire(c) \/ Grant(c) \/ Enter(c)
        \/ CallRelease(c) \/ Free(c) \/ Leave(c)

Spec == Init /\ [][Next]_vars
=============================================================================
