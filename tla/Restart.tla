------------------------------- MODULE Restart -------------------------------
(***************************************************************************)
(* Crash and restart of one server, as tester1 does it (group.go, srv.go,  *)
(* persister.go), while clients call the server over labrpc.  The tester   *)
(* replaces the server by a new instance that starts from the persisted    *)
(* state; handlers of the old instances keep running and keep saving.      *)
(***************************************************************************)
EXTENDS Naturals

CONSTANTS
    Clnt,        \* the clients, each with its own ClientEnd
    Op,          \* the updates that they send to the server
    MaxInst      \* bound: instances of the server, one more than the restarts

ASSUME RestartAssumption == MaxInst \in Nat \ {0}

Inst == 1..MaxInst

\* Persister objects: startServer makes one for the new instance n, and
\* shutdownServer another one to take the place of n's.
Persister   == 1..(2 * MaxInst)
persister(n) == 2 * n - 1
copyOf(n)    == 2 * n

VARIABLES
    servers,     \* Network.servers[name]: the instance, 0 for nil
    clntEnabled, \* Network.enabled, per client end
    inst,        \* ServerGrp.srvs[i]: the newest instance
    pc,          \* where the tester is in StartServer and ShutdownServer
    saved,       \* Server.saved, a reference to a persister
    disk,        \* the contents of each persister
    image,       \* rfsrv.Kill's local variables: what it has read, else {}
    state,       \* what each instance holds in memory
    call,        \* where the client's RPC is
    arg,         \* its argument
    server,      \* processReq's local variable: the instance it dispatched to,
                 \* 1 where there is no call
    late,        \* handlers that processReq has given up on
    acked        \* history: the updates for which Call returned true

testVars == <<servers, inst, pc, saved, image>>
callVars == <<call, arg, server, late, acked>>
rstVars     == <<testVars, clntEnabled, disk, state, callVars>>

CallState ==
    {"idle", "sent", "called", "applied", "returned", "replied", "failed"}

TestState == {"up", "deleted", "copied", "killing", "down", "made"}

RstTypeOK ==
    /\ servers \in Inst \cup {0}
    /\ clntEnabled \in [Clnt -> BOOLEAN]
    /\ inst \in Inst
    /\ pc \in TestState
    /\ saved \in Persister
    /\ disk \in [Persister -> SUBSET Op]
    /\ image \in SUBSET Op
    /\ state \in [Inst -> SUBSET Op]
    /\ call \in [Clnt -> CallState]
    /\ arg \in [Clnt -> Op]
    /\ server \in [Clnt -> Inst]
    /\ late \in SUBSET [op : Op, server : Inst, applied : BOOLEAN]
    /\ acked \in SUBSET Op

-----------------------------------------------------------------------------
(* The tester *)

\* ShutdownServer, first step: clients can no longer reach the instance.
DeleteServer ==
    /\ pc = "up"
    /\ servers' = 0
    /\ pc' = "deleted"
    /\ UNCHANGED <<inst, saved, image, clntEnabled, disk, state, callVars>>

\* Fault: the persister that replaces the old one starts out empty.
CopySavedEmpty ==
    /\ pc = "deleted"
    /\ saved' = copyOf(inst)
    /\ disk' = [disk EXCEPT ![copyOf(inst)] = {}]
    /\ pc' = "copied"
    /\ UNCHANGED <<servers, inst, image, clntEnabled, state, callVars>>

\* shutdownServer: a fresh persister "in case old instance continues to update
\* the Persister", with the old one's contents.
CopySaved ==
    /\ pc = "deleted"
    /\ saved' = copyOf(inst)
    /\ disk' = [disk EXCEPT ![copyOf(inst)] = disk[saved]]
    /\ pc' = "copied"
    /\ UNCHANGED <<servers, inst, image, clntEnabled, state, callVars>>

\* shutdownServer: the services are told to stop; their handlers may hang.  The
\* Raft tester's service, rfsrv, reads its persister then and writes it back,
\* while handlers of the instance may be saving.
Kill ==
    /\ pc = "copied"
    /\ image' = disk[persister(inst)]
    /\ pc' = "killing"
    /\ UNCHANGED <<servers, inst, saved, clntEnabled, disk, state, callVars>>

KillSave ==
    /\ pc = "killing"
    /\ disk' = [disk EXCEPT ![persister(inst)] = image]
    /\ image' = {}
    /\ pc' = "down"
    /\ UNCHANGED <<servers, inst, saved, clntEnabled, state, callVars>>

Killed(n) == n < inst \/ (n = inst /\ pc \in {"killing", "down"})

\* Fault: the service's constructor does not read the persisted state.
StartServerEmpty ==
    /\ pc = "down"
    /\ inst < MaxInst
    /\ inst' = inst + 1
    /\ saved' = persister(inst + 1)
    /\ disk' = [disk EXCEPT ![persister(inst + 1)] = disk[saved]]
    /\ state' = [state EXCEPT ![inst + 1] = {}]
    /\ pc' = "made"
    /\ UNCHANGED <<servers, image, clntEnabled, callVars>>

\* StartServer: startServer makes the new Server with a copy of the persister,
\* from which mks, the service's constructor, reads its state.
StartServer ==
    /\ pc = "down"
    /\ inst < MaxInst
    /\ inst' = inst + 1
    /\ saved' = persister(inst + 1)
    /\ disk' = [disk EXCEPT ![persister(inst + 1)] = disk[saved]]
    /\ state' = [state EXCEPT ![inst + 1] = disk[saved]]
    /\ pc' = "made"
    /\ UNCHANGED <<servers, image, clntEnabled, callVars>>

\* StartServer: the new instance is put on the network.
AddServer ==
    /\ pc = "made"
    /\ servers' = inst
    /\ pc' = "up"
    /\ UNCHANGED <<inst, saved, image, clntEnabled, disk, state, callVars>>

\* The tester disables a client's end, and enables it again.
Enable(c) ==
    /\ clntEnabled' = [clntEnabled EXCEPT ![c] = ~@]
    /\ UNCHANGED <<testVars, disk, state, callVars>>

-----------------------------------------------------------------------------
(* A handler of the service: it updates the state, then saves it *)

Apply(n, o) == state' = [state EXCEPT ![n] = @ \cup {o}]

Save(n) == disk' = [disk EXCEPT ![persister(n)] = state[n]]

Handler(c) ==
    \/ /\ call[c] = "called"
       /\ Apply(server[c], arg[c])
       /\ call' = [call EXCEPT ![c] = "applied"]
       /\ UNCHANGED <<testVars, clntEnabled, disk, arg, server, late, acked>>
    \/ /\ call[c] = "applied"
       /\ Save(server[c])
       /\ call' = [call EXCEPT ![c] = "returned"]
       /\ UNCHANGED <<testVars, clntEnabled, state, arg, server, late, acked>>

\* A handler that was left behind goes on; it may be one of several for the
\* same update.
LateHandler(h) ==
    \/ /\ ~h.applied
       /\ Apply(h.server, h.op)
       /\ \E rest \in {late, late \ {h}} :
            late' = rest \cup {[h EXCEPT !.applied = TRUE]}
       /\ UNCHANGED <<testVars, clntEnabled, disk, call, arg, server, acked>>
    \/ /\ h.applied
       /\ Save(h.server)
       /\ late' \in {late, late \ {h}}
       /\ UNCHANGED <<testVars, clntEnabled, state, call, arg, server, acked>>

-----------------------------------------------------------------------------
(* The network *)

\* ClientEnd.Call
Call(c, o) ==
    /\ call[c] = "idle"
    /\ call' = [call EXCEPT ![c] = "sent"]
    /\ arg' = [arg EXCEPT ![c] = o]
    /\ UNCHANGED <<testVars, clntEnabled, disk, state, server, late, acked>>

\* processReq reads the end's server, and calls the handler on that instance
\* even if it has been deleted in the meantime.
Dispatch(c) ==
    /\ call[c] = "sent"
    /\ clntEnabled[c] /\ servers # 0
    /\ call' = [call EXCEPT ![c] = "called"]
    /\ server' = [server EXCEPT ![c] = servers]
    /\ UNCHANGED <<testVars, clntEnabled, disk, state, arg, late, acked>>

Fail(c) ==
    /\ call' = [call EXCEPT ![c] = "failed"]
    /\ UNCHANGED <<testVars, clntEnabled, disk, state, arg, server, acked>>

\* The end is disabled, the server is down, or the request is dropped.
LoseRequest(c) ==
    /\ call[c] = "sent"
    /\ Fail(c)
    /\ UNCHANGED late

\* Fault: only the end is looked at, not the server behind it.
isServerDeadByEnd(c) == ~clntEnabled[c]

isServerDead(c) == ~clntEnabled[c] \/ servers # server[c]

\* processReq stops waiting for the handler.
Abandon(c) ==
    /\ call[c] \in {"called", "applied"}
    /\ isServerDead(c)
    /\ late' = late \cup
        {[op |-> arg[c], server |-> server[c], applied |-> call[c] = "applied"]}
    /\ Fail(c)

\* The server is dead by the time the handler returns, or the reply is dropped.
LoseReply(c) ==
    /\ call[c] = "returned"
    /\ Fail(c)
    /\ UNCHANGED late

\* The reply passes the last test; it reaches the client at any later time.
Reply(c) ==
    /\ call[c] = "returned"
    /\ ~isServerDead(c)
    /\ call' = [call EXCEPT ![c] = "replied"]
    /\ UNCHANGED <<testVars, clntEnabled, disk, state, arg, server, late, acked>>

\* Call returns to its caller, true or false.
Return(c) ==
    /\ call[c] \in {"replied", "failed"}
    /\ acked' = IF call[c] = "replied" THEN acked \cup {arg[c]} ELSE acked
    /\ call' = [call EXCEPT ![c] = "idle"]
    /\ server' = [server EXCEPT ![c] = 1]
    /\ UNCHANGED <<testVars, clntEnabled, disk, state, arg, late>>

-----------------------------------------------------------------------------
\* The first instance is up, with an empty persister.
RstInit ==
    /\ servers = 1 /\ inst = 1 /\ pc = "up" /\ saved = persister(1)
    /\ clntEnabled = [c \in Clnt |-> TRUE]
    /\ disk = [p \in Persister |-> {}] /\ image = {}
    /\ state = [n \in Inst |-> {}]
    /\ call = [c \in Clnt |-> "idle"]
    /\ arg \in {[c \in Clnt |-> o] : o \in Op}
    /\ server = [c \in Clnt |-> 1]
    /\ late = {}
    /\ acked = {}

Tester ==
    DeleteServer \/ CopySaved \/ Kill \/ KillSave \/ StartServer \/ AddServer

Transport(c) ==
    Dispatch(c) \/ LoseRequest(c) \/ Abandon(c) \/ LoseReply(c) \/ Reply(c) \/ Return(c)

RstNext ==
    \/ Tester
    \/ \E c \in Clnt :
        \/ Enable(c)
        \/ \E o \in Op : Call(c, o)
        \/ Transport(c)
        \/ Handler(c)
    \/ \E h \in late : LateHandler(h)

RstSpec == RstInit /\ [][RstNext]_rstVars

\* The network's goroutines run, and a handler returns unless its service has
\* been killed.  Nothing is assumed of the tester or of the callers.
Progress(c) == Transport(c) \/ (~Killed(server[c]) /\ Handler(c))

FairSpec == RstSpec /\ \A c \in Clnt : WF_rstVars(Progress(c))

-----------------------------------------------------------------------------
(* Properties *)

\* An update whose Call returned true is in the persister that the next instance
\* starts from, whenever the server is shut down and whatever handlers of old
\* instances still save: no "positive reply to an Append but persisting the
\* result in the superseded Persister" (group.go, ShutdownServer).
Durable == acked \subseteq disk[saved]

\* A restart hands on everything that was persisted, and an "old instance
\* doesn't overwrite new instance's persisted state" (srv.go, startServer).
NothingLost == [][disk[saved] \subseteq disk'[saved']]_rstVars

\* "Call() is guaranteed to return (perhaps after a delay) *except* if the
\* handler function on the server side does not return" (labrpc.go), and also
\* then if the server is deleted.
CallReturns == \A c \in Clnt : call[c] # "idle" ~> call[c] = "idle"

-----------------------------------------------------------------------------
(* Why acknowledged updates survive: the inductive invariant *)

\* Server.saved is the newest instance's persister until shutdownServer replaces
\* it; clients reach no other instance, and none from DeleteServer on.
TesterInv ==
    /\ saved = IF pc \in {"copied", "killing", "down"} THEN copyOf(inst) ELSE persister(inst)
    /\ servers = IF pc = "up" THEN inst ELSE 0

\* What an instance has saved it still holds in memory.
SaveInv ==
    /\ \A n \in 1..inst : disk[persister(n)] \subseteq state[n]
    /\ pc = "killing" => image \subseteq state[inst]

\* No handler runs on an instance that does not exist yet.
HandlerInv ==
    /\ \A c \in Clnt : server[c] \in 1..inst
    /\ \A h \in late : h.server \in 1..inst

\* What the state of a call says about its update: a handler has saved it, unless
\* its instance has been shut down.
CallInv ==
    \A c \in Clnt :
        /\ call[c] = "applied" => arg[c] \in state[server[c]]
        /\ call[c] = "returned" /\ server[c] = inst /\ pc # "down" =>
            arg[c] \in disk[persister(server[c])]
        /\ call[c] = "replied" => arg[c] \in disk[saved]

RestartInv == TesterInv /\ SaveInv /\ HandlerInv /\ CallInv /\ Durable
=============================================================================
