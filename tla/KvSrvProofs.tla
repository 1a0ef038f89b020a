---------------------------- MODULE KvSrvProofs ----------------------------
(***************************************************************************)
(* Type correctness of the key/value service, one lemma per kind of step,  *)
(* for the modules that put clients on top of it.                          *)
(***************************************************************************)
EXTENDS KvSrv, TLAPS

\* A run of the server's handler keeps the types of the two maps.
LEMMA HandleType ==
    ASSUME KvTypeOK, NEW r \in Request, Handle(r)
    PROVE  KV' \in [Key -> Value \cup {NoValue}] /\ VersionMap' \in [Key -> Nat]
<1>1. r.key \in Key /\ r.value \in Value /\ r.version + 1 \in Nat
  BY DEF Request
<1>2. CASE Installs(r)
  BY Zenon, <1>1, <1>2 DEF Handle, KvTypeOK
<1>3. CASE ~Installs(r)
  BY Zenon, <1>3 DEF Handle, KvTypeOK, srvVars
<1> QED
  BY Zenon, <1>2, <1>3

\* Replies to a put are replies.
LEMMA PutReplyType == \A e \in Err : PutReply(e) \in Reply
BY Zenon, KvAssumption DEF PutReply, Reply

\* The steps of the network and the retries of the clerks.
LEMMA TransportType ==
    ASSUME KvTypeOK, NEW c \in Clnt, Transport(c)
    PROVE  KvTypeOK'
<1> USE DEF KvTypeOK, srvVars, clntVars, CallState, SetCall
<1>1. CASE Dispatch(c) \/ LoseRequest(c) \/ Deliver(c) \/ Enable(c) \/ Resend(c)
  BY Zenon, <1>1 DEF Dispatch, LoseRequest, Deliver, Enable, Resend
<1>2. CASE Abandon(c)
  BY Zenon, <1>2 DEF Abandon
<1>3. CASE LoseReply(c)
  <2>1. PutReply(OK) \in Reply
    BY Zenon, PutReplyType DEF Err
  <2> QED
    BY Zenon, <1>3, <2>1 DEF LoseReply
<1> QED
  BY Zenon, <1>1, <1>2, <1>3 DEF Transport

\* The handler runs for the client's current RPC.
LEMMA ExecuteType ==
    ASSUME KvTypeOK, NEW c \in Clnt, Execute(c)
    PROVE  KvTypeOK'
<1>1. HandlerReply(op[c]) \in Reply
  BY Zenon, KvAssumption, PutReplyType
     DEF KvTypeOK, HandlerReply, GetReply, PutErr, Reply, Request, Err, OK, ErrNoKey, ErrVersion
<1>2. KV' \in [Key -> Value \cup {NoValue}] /\ VersionMap' \in [Key -> Nat]
  BY Zenon, HandleType DEF Execute, KvTypeOK
<1> QED
  BY Zenon, <1>1, <1>2 DEF Execute, KvTypeOK, clntVars, CallState, SetCall

\* A handler that labrpc left behind runs.
LEMMA LateType ==
    ASSUME KvTypeOK, NEW r \in late, ExecuteLate(r)
    PROVE  KvTypeOK'
<1>1. KV' \in [Key -> Value \cup {NoValue}] /\ VersionMap' \in [Key -> Nat]
  BY Zenon, HandleType DEF ExecuteLate, KvTypeOK
<1> QED
  BY Zenon, <1>1 DEF ExecuteLate, KvTypeOK, clntVars

\* The clerk returns to its caller.
LEMMA ReturnType ==
    ASSUME KvTypeOK, NEW c \in Clnt, Return(c)
    PROVE  KvTypeOK'
<1>1. [reply[c] EXCEPT !.Err = ClerkErr(c)] \in Reply
  BY Zenon DEF KvTypeOK, Reply, ClerkErr, Err
<1> QED
  BY Zenon, <1>1 DEF Return, KvTypeOK, srvVars, clntVars, CallState, SetCall

\* A caller invokes the clerk.
LEMMA InvokeType ==
    ASSUME KvTypeOK, NEW c \in Clnt, NEW q \in Request, Invoke(c, q)
    PROVE  KvTypeOK'
<1>1. PutReply(OK) \in Reply
  BY Zenon, PutReplyType DEF Err
<1> QED
  BY Zenon, <1>1 DEF Invoke, KvTypeOK, srvVars, CallState, SetCall

\* The arguments of the two operations are requests.
LEMMA ArgsType ==
    ASSUME NEW c \in Clnt, NEW k \in Key
    PROVE  /\ GetArgs(c, k) \in Request
           /\ \A v \in Value, n \in Nat : PutArgs(c, k, v, n) \in Request
BY Zenon, KvAssumption DEF GetArgs, PutArgs, Request

\* The initial state.
LEMMA InitType == KvInit => KvTypeOK
BY KvAssumption
   DEF KvInit, SrvInit, KvTypeOK, CallState, GetArgs, Request, PutReply, Reply, Err, OK
=============================================================================
