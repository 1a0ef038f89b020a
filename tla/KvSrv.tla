-------------------------------- MODULE KvSrv --------------------------------
(***************************************************************************)
(* The versioned key/value service of src/kvsrv1: the server (server.go),  *)
(* the clerks that call it (client.go) and the labrpc network between them *)
(* (labrpc.go).  A clerk has one operation at a time and retries its RPC   *)
(* until the network delivers a reply; the network may lose the request,   *)
(* lose the reply, or give up on a handler that is still going to run.     *)
(*                                                                         *)
(* The applications that use the clerks are in the modules that extend     *)
(* this one: KvHist (arbitrary test clients) and Lock (kvsrv1/lock).       *)
(***************************************************************************)
EXTENDS Naturals

CONSTANTS
    Clnt,        \* the clerks, one per client thread
    Key,
    Value,       \* the strings that clients store
    Empty,       \* Go's "", the zero value of a string
    NoValue,     \* marks a key that is not in the server's maps
    Unreliable,  \* Network.reliable == false: requests and replies get lost
    Disconnects  \* the tester disables client ends and enables them again

ASSUME KvAssumption ==
    /\ Empty \in Value
    /\ NoValue \notin Value
    /\ Unreliable \in BOOLEAN
    /\ Disconnects \in BOOLEAN

VARIABLES
    KV,            \* KVServer.KV; NoValue where the map has no entry
    VersionMap,    \* KVServer.VersionMap; 0 where the map has no entry, which
                   \* is no stored version since Put stores version + 1
    enabled,       \* Network.enabled, per client end
    call,          \* where the client's current RPC is, see CallState
    reply,         \* the reply in transit, then what the clerk returns
    late,          \* puts that labrpc has answered with failure while the
                   \* handler goroutine has yet to run (one or more copies);
                   \* a get left behind changes nothing when it runs
    op,            \* the arguments of the client's current operation
    firstAttempt   \* Clerk.Put's local variable

srvVars  == <<KV, VersionMap>>
netVars  == <<enabled, call, reply, late>>
clntVars == <<op, firstAttempt>>
kvVars   == <<KV, VersionMap, enabled, call, reply, late, op, firstAttempt>>

-----------------------------------------------------------------------------
(* Types *)

\* The errors of rpc.go; the clerk alone returns ErrMaybe.
OK         == "OK"
ErrNoKey   == "ErrNoKey"
ErrVersion == "ErrVersion"
ErrMaybe   == "ErrMaybe"
Err        == {OK, ErrNoKey, ErrVersion, ErrMaybe}

\* GetArgs and PutArgs; a get carries Empty and 0 where a put has its value and
\* version.
Request ==
    [type : {"get", "put"}, clnt : Clnt, key : Key, value : Value, version : Nat]

GetArgs(c, k) ==
    [type |-> "get", clnt |-> c, key |-> k, value |-> Empty, version |-> 0]

PutArgs(c, k, v, ver) ==
    [type |-> "put", clnt |-> c, key |-> k, value |-> v, version |-> ver]

\* GetReply and PutReply; a put's reply has only the Err field.
Reply == [Err : Err, Value : Value, Version : Nat]

PutReply(e) == [Err |-> e, Value |-> Empty, Version |-> 0]

\* "idle": the application runs, the clerk has no operation; "sent": the
\* request is on its way to the server; "running": processReq has started the
\* handler's goroutine; "done": the handler has returned; "replied": the reply
\* is on the client's replyCh; "failed": a failure is on the replyCh.
CallState == {"idle", "sent", "running", "done", "replied", "failed"}

KvTypeOK ==
    /\ KV \in [Key -> Value \cup {NoValue}]
    /\ VersionMap \in [Key -> Nat]
    /\ enabled \in [Clnt -> BOOLEAN]
    /\ call \in [Clnt -> CallState]
    /\ reply \in [Clnt -> Reply]
    /\ late \in SUBSET Request
    /\ op \in [Clnt -> Request]
    /\ firstAttempt \in [Clnt -> BOOLEAN]

-----------------------------------------------------------------------------
(* The server *)

\* MakeKVServer: both maps are empty.
SrvInit ==
    /\ KV = [k \in Key |-> NoValue]
    /\ VersionMap = [k \in Key |-> 0]

\* KVServer.Get, which only reads.
GetReply(k) ==
    IF KV[k] = NoValue
    THEN [Err |-> ErrNoKey, Value |-> Empty, Version |-> 0]
    ELSE [Err |-> OK, Value |-> KV[k], Version |-> VersionMap[k]]

\* Fault: Put accepts any version that the key has had.
InstallsOlder(r) == r.type = "put" /\ r.version <= VersionMap[r.key]

\* KVServer.Put stores the value when the version matches, or when the key is
\* absent and the version is 0: one test, as an absent key has version 0 here.
Installs(r) == r.type = "put" /\ r.version = VersionMap[r.key]

PutErr(r) ==
    IF Installs(r) THEN OK
    ELSE IF VersionMap[r.key] = 0 THEN ErrNoKey ELSE ErrVersion

HandlerReply(r) ==
    IF r.type = "get" THEN GetReply(r.key) ELSE PutReply(PutErr(r))

\* Fault: Put forgets to move an existing key's version on.
HandleNoBump(r) ==
    IF Installs(r)
    THEN /\ KV' = [KV EXCEPT ![r.key] = r.value]
         /\ VersionMap' = [VersionMap EXCEPT ![r.key] = IF @ = 0 THEN 1 ELSE @]
    ELSE UNCHANGED srvVars

\* The state change of one handler run, atomic under kv.mu.
Handle(r) ==
    IF Installs(r)
    THEN /\ KV' = [KV EXCEPT ![r.key] = r.value]
         /\ VersionMap' = [VersionMap EXCEPT ![r.key] = r.version + 1]
    ELSE UNCHANGED srvVars

-----------------------------------------------------------------------------
(* The network: one processReq goroutine per request *)

SetCall(c, s) == call' = [call EXCEPT ![c] = s]

\* A request for an enabled end is dispatched to the server ...
Dispatch(c) ==
    /\ call[c] = "sent"
    /\ enabled[c]
    /\ SetCall(c, "running")
    /\ UNCHANGED <<srvVars, enabled, reply, late, clntVars>>

\* ... one for a disabled end times out, and an unreliable network drops some.
LoseRequest(c) ==
    /\ call[c] = "sent"
    /\ Unreliable \/ ~enabled[c]
    /\ SetCall(c, "failed")
    /\ UNCHANGED <<srvVars, enabled, reply, late, clntVars>>

\* The handler runs and its reply reaches processReq.
Execute(c) ==
    /\ call[c] = "running"
    /\ Handle(op[c])
    /\ reply' = [reply EXCEPT ![c] = HandlerReply(op[c])]
    /\ SetCall(c, "done")
    /\ UNCHANGED <<enabled, late, clntVars>>

\* isServerDead finds the end disabled: processReq reports a failure and leaves
\* the handler's goroutine behind.
Abandon(c) ==
    /\ call[c] = "running"
    /\ ~enabled[c]
    /\ late' = late \cup {r \in {op[c]} : r.type = "put"}
    /\ SetCall(c, "failed")
    /\ UNCHANGED <<srvVars, enabled, reply, clntVars>>

\* An abandoned handler runs at last; its reply is drained.  Other copies of
\* the same request may still be waiting.
ExecuteLate(r) ==
    /\ r \in late
    /\ Handle(r)
    /\ late' \in {late, late \ {r}}
    /\ UNCHANGED <<enabled, call, reply, clntVars>>

\* The end is disabled by the time the handler returns, or the reply is dropped.
LoseReply(c) ==
    /\ call[c] = "done"
    /\ Unreliable \/ ~enabled[c]
    /\ reply' = [reply EXCEPT ![c] = PutReply(OK)]
    /\ SetCall(c, "failed")
    /\ UNCHANGED <<srvVars, enabled, late, clntVars>>

\* The reply is sent to the client, which gets it at once or, when it is
\* delayed, at any later time.
Deliver(c) ==
    /\ call[c] = "done"
    /\ enabled[c]
    /\ SetCall(c, "replied")
    /\ UNCHANGED <<srvVars, enabled, reply, late, clntVars>>

\* Network.Enable, which a tester that partitions clients calls at any time.
Enable(c) ==
    /\ Disconnects
    /\ enabled' = [enabled EXCEPT ![c] = ~@]
    /\ UNCHANGED <<srvVars, call, reply, late, clntVars>>

-----------------------------------------------------------------------------
(* The clerk *)

\* The application calls Clerk.Get or Clerk.Put, which makes its first Call.
Invoke(c, r) ==
    /\ call[c] = "idle"
    /\ op' = [op EXCEPT ![c] = r]
    /\ firstAttempt' = [firstAttempt EXCEPT ![c] = TRUE]
    /\ reply' = [reply EXCEPT ![c] = PutReply(OK)]
    /\ SetCall(c, "sent")
    /\ UNCHANGED <<srvVars, enabled, late>>

\* Fault: firstAttempt stays true.
ResendAsFirst(c) ==
    /\ call[c] = "failed"
    /\ SetCall(c, "sent")
    /\ UNCHANGED <<srvVars, enabled, reply, late, op, firstAttempt>>

\* Call returned false: the loop goes round, after a sleep.
Resend(c) ==
    /\ call[c] = "failed"
    /\ firstAttempt' = [firstAttempt EXCEPT ![c] = FALSE]
    /\ SetCall(c, "sent")
    /\ UNCHANGED <<srvVars, enabled, reply, late, op>>

\* Fault: the clerk passes the server's answer on.
ClerkErrRaw(c) == reply[c].Err

\* What the clerk makes of a reply: a put's ErrVersion on a resend is ErrMaybe.
ClerkErr(c) ==
    IF op[c].type = "put" /\ reply[c].Err = ErrVersion /\ ~firstAttempt[c]
    THEN ErrMaybe
    ELSE reply[c].Err

\* Call returned true: the clerk returns to the application.
Return(c) ==
    /\ call[c] = "replied"
    /\ reply' = [reply EXCEPT ![c].Err = ClerkErr(c)]
    /\ SetCall(c, "idle")
    /\ UNCHANGED <<srvVars, enabled, late, clntVars>>

-----------------------------------------------------------------------------
\* A clerk that has not been used yet holds some get.
KvInit ==
    /\ SrvInit
    /\ enabled = [c \in Clnt |-> TRUE]
    /\ call = [c \in Clnt |-> "idle"]
    /\ reply = [c \in Clnt |-> PutReply(OK)]
    /\ late = {}
    /\ \E k \in Key : op = [c \in Clnt |-> GetArgs(c, k)]
    /\ firstAttempt = [c \in Clnt |-> TRUE]

\* The steps of the network and the clerks that leave the server's maps alone.
Transport(c) ==
    \/ Dispatch(c)
    \/ LoseRequest(c)
    \/ Abandon(c)
    \/ LoseReply(c)
    \/ Deliver(c)
    \/ Enable(c)
    \/ Resend(c)
=============================================================================
