----------------------------- MODULE LockProofs -----------------------------
(***************************************************************************)
(* Proofs about the lock of kvsrv1/lock over the unreliable network, for   *)
(* any number of clients, any number of acquisitions and any schedule.     *)
(***************************************************************************)
EXTENDS Lock, KvSrvProofs

\* The types are kept by every step of the lock code, the clerks, the network
\* and the server.
LEMMA TypeStep == TypeOK /\ [Next]_vars => TypeOK'
<1> SUFFICES ASSUME TypeOK, [Next]_vars PROVE TypeOK'
  OBVIOUS
<1> USE DEF TypeOK, lockVars
<1>1. ASSUME NEW c \in Clnt, Transport(c) \/ Execute(c) \/ Return(c), UNCHANGED lockVars
      PROVE  TypeOK'
  BY Zenon, <1>1, TransportType, ExecuteType, ReturnType
<1>2. ASSUME NEW r \in late, ExecuteLate(r), UNCHANGED lockVars
      PROVE  TypeOK'
  BY Zenon, <1>2, LateType
<1>3. ASSUME NEW c \in Clnt, LockStep(c)
      PROVE  TypeOK'
  <2>i. ASSUME NEW q \in Request, NEW l \in PC, Invoke(c, q), Goto(c, l)
        PROVE  KvTypeOK' /\ pc' \in [Clnt -> PC]
    BY Zenon, <2>i, InvokeType DEF Goto
  <2>g. GetArgs(c, lockName) \in Request
    BY Zenon, ArgsType, LockAssumption
  <2>p. \A v \in Value, n \in Nat : PutArgs(c, lockName, v, n) \in Request
    BY Zenon, ArgsType, LockAssumption
  <2>v. clientID[c] \in Value /\ Empty \in Value /\ reply[c].Version \in Nat
    BY Zenon, KvAssumption, LockAssumption DEF KvTypeOK, Reply
  <2>l. ASSUME NEW l \in PC, Local(c, l)
        PROVE  KvTypeOK' /\ pc' \in [Clnt -> PC]
    BY Zenon, <2>l DEF Local, Goto, KvTypeOK, kvVars
  <2>1. KvTypeOK' /\ pc' \in [Clnt -> PC]
    <3> USE DEF GetAnd, PutAnd, PC
    <3>1. CASE Acquire(c) \/ Retry(c) \/ Release(c)
      BY Zenon, <3>1, <2>i, <2>g DEF Acquire, Retry, Release
    <3>2. CASE AcquireGot(c)
      BY Zenon, <3>2, <2>i, <2>p, <2>v, <2>l DEF AcquireGot
    <3>3. CASE AcquirePut(c) \/ AcquireChecked(c)
      BY Zenon, <3>3, <2>i, <2>g, <2>l DEF AcquirePut, AcquireChecked
    <3>4. CASE ReleaseGot(c) \/ ReleasePut(c)
      BY Zenon, <3>4, <2>i, <2>g, <2>p, <2>v, <2>l DEF ReleaseGot, ReleasePut
    <3> QED
      BY Zenon, <1>3, <3>1, <3>2, <3>3, <3>4 DEF LockStep
  <2>2. acquires' \in 0..MaxAcquire
    BY <1>3, LockAssumption
       DEF LockStep, Acquire, AcquireGot, AcquirePut, AcquireChecked, Retry,
           Release, ReleaseGot, ReleasePut
  <2> QED
    BY Zenon, <2>1, <2>2
<1>4. CASE UNCHANGED vars
  BY Zenon, <1>4 DEF vars, kvVars, KvTypeOK
<1> QED
  BY Zenon, <1>1, <1>2, <1>3, <1>4 DEF Next, Service

\* Type correctness of the composed system.
THEOREM TypeCorrect == Spec => []TypeOK
<1>1. Init => TypeOK
  BY InitType, LockAssumption DEF Init, TypeOK, PC
<1> QED
  BY <1>1, TypeStep, PTL DEF Spec

-----------------------------------------------------------------------------
(* The lock invariant *)

\* The fields of a get's arguments.
LEMMA GetArgsFields ==
    \A c : GetArgs(c, lockName).type = "get" /\ GetArgs(c, lockName).key = lockName
BY Zenon DEF GetArgs

\* A put that takes effect is the current, unanswered put of its client, and
\* either acquires a free lock or releases the client's own.
LEMMA Installed ==
    ASSUME TypeOK, LockInv, NEW r \in Request, Installs(r), Handle(r),
           op[r.clnt] = r, Unanswered(r.clnt)
    PROVE  /\ r.version = ver /\ ver' = ver + 1
           /\ \/ /\ pc[r.clnt] = "put"
                 /\ KV[lockName] \in {NoValue, Empty}
                 /\ KV'[lockName] = clientID[r.clnt]
              \/ /\ pc[r.clnt] = "relput"
                 /\ KV[lockName] = clientID[r.clnt]
                 /\ KV'[lockName] = Empty
<1> DEFINE c == r.clnt
<1>1. c \in Clnt /\ r.type = "put"
  BY Zenon DEF Request, Installs
<1>2. r.key = lockName /\ r.version = ver
  BY <1>1 DEF LockInv, OpsInv, Installs, ver
<1>3. pc[c] \in {"put", "relput"}
  <2>2. pc[c] \notin {"get", "check", "relget"}
    BY <1>1, GetArgsFields DEF LockInv, OpsInv
  <2>3. pc[c] \notin {"out", "backoff", "held"}
    BY Zenon, <1>1 DEF LockInv, OpsInv, Unanswered
  <2> QED
    BY Zenon, <1>1, <2>2, <2>3 DEF TypeOK, PC
<1>4. KV'[lockName] = r.value /\ ver' = ver + 1
  BY <1>2, LockAssumption DEF Handle, TypeOK, KvTypeOK, ver
<1> QED
  BY <1>1, <1>2, <1>3, <1>4 DEF LockInv, OpsInv, PutInv

\* A put that takes effect keeps the invariant, whether its own client's RPC or
\* a handler left behind executes it.
LEMMA InstallKeeps ==
    ASSUME TypeOK, TypeOK', LockInv, NEW r \in Request, Installs(r), Handle(r),
           op[r.clnt] = r, Unanswered(r.clnt),
           late' \in SUBSET late, UNCHANGED <<op, pc>>,
           \A d \in Clnt : d # r.clnt => call'[d] = call[d] /\ reply'[d] = reply[d],
           call'[r.clnt] # "idle"
    PROVE  LockInv'
<1> DEFINE c == r.clnt
<1>1. /\ c \in Clnt /\ r.version = ver /\ ver' = ver + 1 /\ ver \in Nat
      /\ \/ pc[c] = "put" /\ KV[lockName] \in {NoValue, Empty}
            /\ KV'[lockName] = clientID[c]
         \/ pc[c] = "relput" /\ KV[lockName] = clientID[c] /\ KV'[lockName] = Empty
  BY Zenon, Installed, LockAssumption DEF Request, TypeOK, KvTypeOK, ver
<1>2. /\ \A d \in Clnt : KV[lockName] = clientID[d] => d = c /\ pc[d] = "relput"
      /\ \A d \in Clnt : KV'[lockName] = clientID[d] => d = c /\ pc[d] = "put"
      /\ KV'[lockName] # NoValue
  BY <1>1, KvAssumption, LockAssumption
<1>3. \A d \in Clnt : op[d].type = "put" => op[d].version <= ver /\ op[d].version \in Nat
  BY Zenon DEF LockInv, OpsInv, TypeOK, KvTypeOK, Request
<1>4. OpsInv'
  <2>1. \A d \in Clnt : call'[d] = "idle" <=> call[d] = "idle"
    BY Zenon DEF Unanswered
  <2> QED
    BY <1>1, <1>3, <2>1 DEF LockInv, OpsInv
<1>5. LateInv'
  <2>1. \A q \in late : q.type = "put" /\ q.key = lockName /\ q.version <= ver /\ q.version \in Nat
    BY Zenon DEF LockInv, LateInv, TypeOK, KvTypeOK, Request
  <2> QED
    BY <1>1, <2>1 DEF LateInv
<1>6. PutInv'
  BY <1>1, <1>3 DEF LockInv, OpsInv, PutInv
<1>7. ReplyInv'
  <2> SUFFICES ASSUME NEW d \in Clnt, Answered(d)'
               PROVE  ReplyInv!(d)'
    BY Zenon DEF ReplyInv
  <2>1. CASE d = c
    BY <2>1, <1>1, <1>2, <1>3 DEF LockInv, OpsInv
  <2>2. CASE d # c
    <3>1. Answered(d) /\ reply'[d] = reply[d] /\ reply[d].Version \in Nat
      BY Zenon, <2>2 DEF Answered, TypeOK, KvTypeOK, Reply
    <3> QED
      BY <1>1, <1>2, <1>3, <2>2, <3>1 DEF LockInv, ReplyInv
  <2> QED
    BY Zenon, <2>1, <2>2
<1>8. HolderRecorded'
  BY Zenon, <1>2 DEF LockInv, HolderRecorded, Holds
<1> QED
  BY <1>1, <1>2, <1>4, <1>5, <1>6, <1>7, <1>8 DEF LockInv

\* Steps that change no operation, no reply and not the server, and leave every
\* RPC as answered or unanswered as it was, keep the invariant.
LEMMA QuietKeeps ==
    ASSUME LockInv, UNCHANGED <<KV, VersionMap, op, pc, reply>>,
           \A d \in Clnt : /\ Answered(d)' <=> Answered(d)
                           /\ Unanswered(d)' <=> Unanswered(d)
                           /\ call[d] = "idle" => call'[d] = "idle",
           LateInv'
    PROVE  LockInv'
<1>1. ver' = ver
  BY Zenon DEF ver
<1>2. OpsInv'
  BY Zenon, <1>1 DEF LockInv, OpsInv
<1>3. PutInv'
  BY Zenon, <1>1 DEF LockInv, PutInv
<1>4. ReplyInv'
  BY Zenon, <1>1 DEF LockInv, ReplyInv
<1>5. HolderRecorded'
  BY Zenon DEF LockInv, HolderRecorded, Holds
<1> QED
  BY Zenon, <1>1, <1>2, <1>3, <1>4, <1>5 DEF LockInv

\* The steps of the network and the retries of the clerks.
LEMMA TransportKeeps ==
    ASSUME TypeOK, LockInv, NEW c \in Clnt, Transport(c), UNCHANGED lockVars
    PROVE  LockInv'
<1> USE DEF lockVars, srvVars, clntVars, SetCall
<1>t. call \in [Clnt -> CallState] /\ op[c] \in Request
  BY Zenon DEF TypeOK, KvTypeOK
<1>1. CASE Dispatch(c) \/ LoseRequest(c) \/ Deliver(c) \/ Enable(c) \/ Resend(c)
  <2>1. /\ UNCHANGED <<KV, VersionMap, op, pc, reply, late>>
        /\ \A d \in Clnt : /\ Answered(d)' <=> Answered(d)
                           /\ Unanswered(d)' <=> Unanswered(d)
                           /\ call[d] = "idle" => call'[d] = "idle"
    BY Zenon, <1>1, <1>t DEF Dispatch, LoseRequest, Deliver, Enable, Resend, Answered, Unanswered
  <2>2. LateInv'
    <3>1. ver' = ver
      BY Zenon, <2>1 DEF ver
    <3> QED
      BY Zenon, <2>1, <3>1 DEF LockInv, LateInv, Request, TypeOK, KvTypeOK
  <2> QED
    BY Zenon, <2>1, <2>2, QuietKeeps
<1>2. CASE Abandon(c)
  <2>1. /\ UNCHANGED <<KV, VersionMap, op, pc, reply>>
        /\ late' = late \cup {r \in {op[c]} : r.type = "put"}
        /\ Unanswered(c)
        /\ \A d \in Clnt : /\ Answered(d)' <=> Answered(d)
                           /\ Unanswered(d)' <=> Unanswered(d)
                           /\ call[d] = "idle" => call'[d] = "idle"
    BY Zenon, <1>2, <1>t DEF Abandon, Answered, Unanswered
  <2>2. LateInv'
    <3>1. ver' = ver
      BY Zenon, <2>1 DEF ver
    <3>2. SUFFICES ASSUME NEW r \in late'
                   PROVE  LateInv!(r)'
      BY Zenon DEF LateInv
    <3>3. CASE r \in late
      BY Zenon, <2>1, <3>1, <3>3 DEF LockInv, LateInv, Request, TypeOK, KvTypeOK
    <3>4. CASE r = op[c] /\ r.type = "put"
      BY <2>1, <3>1, <3>4 DEF LockInv, OpsInv
    <3> QED
      BY Zenon, <2>1, <3>3, <3>4
  <2> QED
    BY Zenon, <2>1, <2>2, QuietKeeps
<1>3. CASE LoseReply(c)
  <2>1. /\ UNCHANGED <<KV, VersionMap, op, pc, late>>
        /\ call[c] = "done" /\ Unanswered(c)' /\ ~Answered(c)' /\ Answered(c)
        /\ \A d \in Clnt : d # c => call'[d] = call[d] /\ reply'[d] = reply[d]
    BY Zenon, <1>3, <1>t DEF LoseReply, TypeOK, KvTypeOK, Answered, Unanswered
  <2>2. ver' = ver /\ ver \in Nat
    BY Zenon, <2>1, LockAssumption DEF ver, TypeOK, KvTypeOK
  <2>3. \A d \in Clnt : d # c =>
            (Answered(d)' <=> Answered(d)) /\ (Unanswered(d)' <=> Unanswered(d))
    BY Zenon, <2>1 DEF Answered, Unanswered
  <2>4. OpsInv'
    BY <2>1, <2>2 DEF LockInv, OpsInv
  <2>5. LateInv'
    BY Zenon, <2>1, <2>2, <2>3 DEF LockInv, LateInv, Request, TypeOK, KvTypeOK
  <2>6. PutInv'
    <3>1. op[c].type = "put" => op[c].version # ver
      BY <2>1, <2>2, <1>t DEF LockInv, ReplyInv, Request
    <3> QED
      BY <2>1, <2>2, <2>3, <3>1 DEF LockInv, PutInv, OpsInv
  <2>7. ReplyInv'
    BY <2>1, <2>2, <2>3 DEF LockInv, ReplyInv
  <2>8. HolderRecorded'
    BY Zenon, <2>1 DEF LockInv, HolderRecorded, Holds
  <2> QED
    BY Zenon, <2>1, <2>2, <2>4, <2>5, <2>6, <2>7, <2>8 DEF LockInv
<1> QED
  BY Zenon, <1>1, <1>2, <1>3 DEF Transport

\* The handler runs for the client's current RPC.
LEMMA ExecuteKeeps ==
    ASSUME TypeOK, TypeOK', LockInv, NEW c \in Clnt, Execute(c), UNCHANGED lockVars
    PROVE  LockInv'
<1> USE DEF lockVars, srvVars, clntVars, SetCall
<1>1. /\ UNCHANGED <<op, pc, late>>
      /\ call[c] = "running" /\ call'[c] = "done" /\ Unanswered(c)
      /\ Handle(op[c]) /\ op[c] \in Request /\ op[c].clnt = c
      /\ reply'[c] = HandlerReply(op[c])
      /\ \A d \in Clnt : d # c => call'[d] = call[d] /\ reply'[d] = reply[d]
  BY DEF Execute, TypeOK, KvTypeOK, Unanswered, LockInv, OpsInv
<1>2. CASE Installs(op[c])
  BY Zenon, <1>1, <1>2, InstallKeeps
<1>3. CASE ~Installs(op[c])
  <2>1. UNCHANGED <<KV, VersionMap>> /\ ver' = ver /\ ver \in Nat
    BY Zenon, <1>1, <1>3, LockAssumption DEF Handle, ver, TypeOK, KvTypeOK
  <2>2. OpsInv'
    BY <1>1, <2>1 DEF LockInv, OpsInv
  <2>3. op[c].type = "put" => op[c].version < ver
    BY <1>1, <1>3, <2>1 DEF LockInv, OpsInv, Installs, ver, Request
  <2>4. LateInv'
    <3>1. \A r \in late : r.version = ver => r.clnt # c /\ r.clnt \in Clnt
      BY <1>1, <2>1, <2>3 DEF LockInv, LateInv, TypeOK, KvTypeOK, Request
    <3>2. \A d \in Clnt : d # c => (Unanswered(d)' <=> Unanswered(d))
      BY Zenon, <1>1 DEF Unanswered
    <3> QED
      BY Zenon, <1>1, <2>1, <3>1, <3>2 DEF LockInv, LateInv
  <2>5. PutInv'
    BY Zenon, <1>1, <2>1 DEF LockInv, PutInv, Unanswered
  <2>6. ReplyInv'
    <3> SUFFICES ASSUME NEW d \in Clnt, Answered(d)'
                 PROVE  ReplyInv!(d)'
      BY Zenon DEF ReplyInv
    <3>1. CASE d # c
      <4>1. Answered(d)
        BY Zenon, <1>1, <3>1 DEF Answered
      <4> QED
        BY Zenon, <1>1, <2>1, <3>1, <4>1 DEF LockInv, ReplyInv
    <3>2. CASE d = c /\ op[c].type = "put"
      <4>1. pc[c] \notin {"get", "check", "relget"}
        BY <3>2, GetArgsFields DEF LockInv, OpsInv
      <4>2. reply'[c].Err # OK
        <5>1. reply'[c] = PutReply(PutErr(op[c]))
          BY Zenon, <1>1, <3>2 DEF HandlerReply
        <5>2. PutErr(op[c]) # OK
          BY Zenon, <1>3 DEF PutErr, OK, ErrNoKey, ErrVersion
        <5> QED
          BY <5>1, <5>2 DEF PutReply
      <4> QED
        BY Zenon, <1>1, <2>1, <2>3, <3>2, <4>1, <4>2
    <3>3. CASE d = c /\ op[c].type = "get"
      <4>1. pc[c] \notin {"put", "relput"}
        BY Zenon, <3>3 DEF LockInv, OpsInv
      <4>2. pc[c] \in {"get", "check", "relget"} => op[c].key = lockName
        BY GetArgsFields DEF LockInv, OpsInv
      <4>3. reply'[c] = GetReply(op[c].key)
        BY Zenon, <1>1, <3>3 DEF HandlerReply
      <4>4. clientID[c] # Empty /\ clientID[c] # NoValue
        BY Zenon, KvAssumption, LockAssumption
      <4> QED
        <5>1. CASE pc[c] \in {"get", "check", "relget"}
          <6>1. reply'[c] = GetReply(lockName)
            BY Zenon, <4>2, <4>3, <5>1
          <6>2. IF KV[lockName] = NoValue
                THEN reply'[c].Err = ErrNoKey /\ reply'[c].Value = Empty
                ELSE /\ reply'[c].Err = OK /\ reply'[c].Value = KV[lockName]
                     /\ reply'[c].Version = ver
            BY <6>1 DEF GetReply, ver
          <6> QED
            BY <1>1, <2>1, <3>3, <4>1, <4>4, <5>1, <6>2 DEF OK, ErrNoKey
        <5>2. CASE pc[c] \notin {"get", "check", "relget"}
          BY Zenon, <1>1, <3>3, <4>1, <5>2
        <5> QED
          BY Zenon, <5>1, <5>2
    <3> QED
      BY Zenon, <1>1, <3>1, <3>2, <3>3 DEF Request
  <2>7. HolderRecorded'
    BY Zenon, <1>1, <2>1 DEF LockInv, HolderRecorded, Holds
  <2> QED
    BY Zenon, <2>1, <2>2, <2>4, <2>5, <2>6, <2>7 DEF LockInv
<1> QED
  BY Zenon, <1>2, <1>3

\* A handler that labrpc left behind runs.
LEMMA LateKeeps ==
    ASSUME TypeOK, TypeOK', LockInv, NEW r \in late, ExecuteLate(r), UNCHANGED lockVars
    PROVE  LockInv'
<1> USE DEF lockVars, srvVars, clntVars
<1>1. /\ UNCHANGED <<op, pc, call, reply>>
      /\ late' \in SUBSET late /\ r \in Request /\ Handle(r) /\ r.clnt \in Clnt
  BY Zenon DEF ExecuteLate, TypeOK, KvTypeOK, Request
<1>2. CASE Installs(r)
  <2>1. op[r.clnt] = r /\ Unanswered(r.clnt)
    BY Zenon, <1>2 DEF LockInv, LateInv, Installs, ver
  <2>2. call'[r.clnt] # "idle"
    BY Zenon, <1>1, <2>1 DEF Unanswered
  <2> QED
    BY Zenon, <1>1, <1>2, <2>1, <2>2, InstallKeeps
<1>3. CASE ~Installs(r)
  <2>1. UNCHANGED <<KV, VersionMap>> /\ ver' = ver
    BY Zenon, <1>1, <1>3 DEF Handle, ver
  <2>2. LateInv'
    BY Zenon, <1>1, <2>1 DEF LockInv, LateInv, Unanswered
  <2>3. \A d \in Clnt : /\ Answered(d)' <=> Answered(d)
                        /\ Unanswered(d)' <=> Unanswered(d)
    BY Zenon, <1>1 DEF Answered, Unanswered
  <2> QED
    BY Zenon, <1>1, <2>1, <2>2, <2>3, QuietKeeps
<1> QED
  BY Zenon, <1>2, <1>3

\* The clerk returns; only a put's ErrVersion may become ErrMaybe.
LEMMA ReturnKeeps ==
    ASSUME TypeOK, LockInv, NEW c \in Clnt, Return(c), UNCHANGED lockVars
    PROVE  LockInv'
<1> USE DEF lockVars, srvVars, clntVars, SetCall
<1>1. /\ UNCHANGED <<KV, VersionMap, op, pc, late>> /\ ver' = ver
      /\ call[c] = "replied" /\ call'[c] = "idle"
      /\ reply'[c] = [reply[c] EXCEPT !.Err = ClerkErr(c)] /\ reply[c] \in Reply
      /\ \A d \in Clnt : d # c => call'[d] = call[d] /\ reply'[d] = reply[d]
  BY Zenon DEF Return, TypeOK, KvTypeOK, ver
<1>2. \A d \in Clnt : /\ Answered(d)' <=> Answered(d)
                      /\ Unanswered(d)' <=> Unanswered(d)
  BY Zenon, <1>1 DEF Answered, Unanswered
<1>3. OpsInv'
  <2>1. \A d \in Clnt : call[d] = "idle" => call'[d] = "idle"
    BY Zenon, <1>1
  <2> QED
    BY <1>1, <2>1 DEF LockInv, OpsInv
<1>4. LateInv'
  <2>1. \A r \in late : r.clnt \in Clnt
    BY Zenon DEF TypeOK, KvTypeOK, Request
  <2> QED
    BY Zenon, <1>1, <1>2, <2>1 DEF LockInv, LateInv
<1>5. PutInv'
  BY Zenon, <1>1, <1>2 DEF LockInv, PutInv
<1>6. ReplyInv'
  <2> SUFFICES ASSUME NEW d \in Clnt, Answered(d)'
               PROVE  ReplyInv!(d)'
    BY Zenon DEF ReplyInv
  <2>1. Answered(d) /\ ReplyInv!(d)
    BY Zenon, <1>2 DEF LockInv, ReplyInv
  <2>2. CASE d # c
    BY Zenon, <1>1, <2>1, <2>2
  <2>3. CASE d = c
    <3>1. /\ reply'[c].Value = reply[c].Value /\ reply'[c].Version = reply[c].Version
          /\ reply'[c].Err = ClerkErr(c)
      BY Zenon, <1>1 DEF Reply
    <3>2. pc[c] \in {"get", "check", "relget"} => ClerkErr(c) = reply[c].Err
      BY Zenon, GetArgsFields DEF LockInv, OpsInv, ClerkErr
    <3>3. ClerkErr(c) = OK => reply[c].Err = OK
      BY Zenon DEF ClerkErr, OK, ErrMaybe
    <3> QED
      BY Zenon, <1>1, <2>1, <2>3, <3>1, <3>2, <3>3
  <2> QED
    BY Zenon, <2>2, <2>3
<1>7. HolderRecorded'
  BY Zenon, <1>1 DEF LockInv, HolderRecorded, Holds
<1> QED
  BY Zenon, <1>1, <1>3, <1>4, <1>5, <1>6, <1>7 DEF LockInv

\* What the lock code asks of the clerk: a get, or a put that is either dead
\* already or fits what the key holds.
Asks(c, q, l) ==
    /\ q.clnt = c
    /\ q.type = "put" => q.key = lockName /\ q.version <= ver
    /\ \/ l \in {"get", "check", "relget"} /\ q = GetArgs(c, lockName)
       \/ /\ l = "put" /\ q.type = "put" /\ q.value = clientID[c]
          /\ q.version = ver => KV[lockName] \in {NoValue, Empty}
       \/ /\ l = "relput" /\ q.type = "put" /\ q.value = Empty
          /\ q.version = ver => KV[lockName] = clientID[c]

\* A call of the clerk preserves the invariant.
LEMMA InvokeKeeps ==
    ASSUME TypeOK, LockInv, NEW c \in Clnt, NEW q \in Request, NEW l \in PC,
           Invoke(c, q), Goto(c, l), Asks(c, q, l)
    PROVE  LockInv'
<1>1. /\ UNCHANGED <<KV, VersionMap, late>> /\ ver' = ver
      /\ call[c] = "idle" /\ call'[c] = "sent"
      /\ op'[c] = q /\ pc'[c] = l
      /\ \A d \in Clnt : d # c => /\ call'[d] = call[d] /\ reply'[d] = reply[d]
                                  /\ op'[d] = op[d] /\ pc'[d] = pc[d]
  BY Zenon DEF Invoke, Goto, SetCall, srvVars, TypeOK, KvTypeOK, ver
<1>2. ~Answered(c)' /\ ~Unanswered(c)
  BY Zenon, <1>1 DEF Answered, Unanswered
<1>3. \A d \in Clnt : d # c =>
          (Answered(d)' <=> Answered(d)) /\ (Unanswered(d)' <=> Unanswered(d))
  BY Zenon, <1>1 DEF Answered, Unanswered
<1>4. OpsInv'
  <2> SUFFICES ASSUME NEW d \in Clnt PROVE OpsInv!(d)'
    BY Zenon DEF OpsInv
  <2>1. CASE d = c
    <3>1. GetArgs(c, lockName)' = GetArgs(c, lockName)
      BY Zenon DEF GetArgs
    <3> QED
      BY Zenon, <1>1, <2>1, <3>1 DEF Asks
  <2>2. CASE d # c
    <3>1. GetArgs(d, lockName)' = GetArgs(d, lockName)
      BY Zenon DEF GetArgs
    <3> QED
      BY <1>1, <2>2, <3>1 DEF LockInv, OpsInv
  <2> QED
    BY Zenon, <2>1, <2>2
<1>5. LateInv'
  <2>1. \A r \in late : r.clnt \in Clnt /\ (r.version = ver => r.clnt # c)
    BY <1>2 DEF LockInv, LateInv, TypeOK, KvTypeOK, Request
  <2> QED
    BY Zenon, <1>1, <1>3, <2>1 DEF LockInv, LateInv
<1>6. PutInv'
  BY <1>1, <1>3 DEF LockInv, PutInv, Asks
<1>7. ReplyInv'
  <2> SUFFICES ASSUME NEW d \in Clnt, Answered(d)' PROVE ReplyInv!(d)!2'
    BY Zenon DEF ReplyInv
  <2>1. d # c /\ Answered(d)
    BY Zenon, <1>2, <1>3
  <2>2. ReplyInv!(d)!2
    BY Zenon, <2>1 DEF LockInv, ReplyInv
  <2> QED
    BY Zenon, <1>1, <2>1, <2>2
<1>8. HolderRecorded'
  BY Zenon, <1>1 DEF LockInv, HolderRecorded, Holds, Asks
<1> QED
  BY Zenon, <1>1, <1>4, <1>5, <1>6, <1>7, <1>8 DEF LockInv

\* The lock code goes on without the clerk; it enters "held" only when the key
\* names the client.
LEMMA LocalKeeps ==
    ASSUME TypeOK, LockInv, NEW c \in Clnt, NEW l \in {"out", "backoff", "held"},
           call[c] = "idle", Local(c, l),
           l = "held" => KV[lockName] = clientID[c]
    PROVE  LockInv'
<1>1. /\ UNCHANGED <<KV, VersionMap, late, call, reply, op>> /\ ver' = ver
      /\ pc'[c] = l /\ \A d \in Clnt : d # c => pc'[d] = pc[d]
  BY Zenon DEF Local, Goto, kvVars, TypeOK, ver
<1>2. \A d \in Clnt : (Answered(d)' <=> Answered(d)) /\ (Unanswered(d)' <=> Unanswered(d))
  BY Zenon, <1>1 DEF Answered, Unanswered
<1>3. OpsInv'
  <2>1. \A d \in Clnt : GetArgs(d, lockName)' = GetArgs(d, lockName)
    BY Zenon DEF GetArgs
  <2> QED
    BY <1>1, <2>1 DEF LockInv, OpsInv
<1>4. LateInv'
  <2>1. \A r \in late : r.clnt \in Clnt
    BY Zenon DEF TypeOK, KvTypeOK, Request
  <2> QED
    BY Zenon, <1>1, <1>2, <2>1 DEF LockInv, LateInv
<1>5. PutInv'
  BY Zenon, <1>1, <1>2 DEF LockInv, PutInv
<1>6. ReplyInv'
  BY Zenon, <1>1, <1>2 DEF LockInv, ReplyInv
<1>7. HolderRecorded'
  BY Zenon, <1>1 DEF LockInv, HolderRecorded, Holds
<1> QED
  BY Zenon, <1>1, <1>3, <1>4, <1>5, <1>6, <1>7 DEF LockInv

\* The steps of Acquire and Release.
LEMMA LockStepKeeps ==
    ASSUME TypeOK, LockInv, NEW c \in Clnt, LockStep(c)
    PROVE  LockInv'
<1> USE DEF At, GetAnd, PutAnd
<1>g. GetArgs(c, lockName) \in Request /\ GetArgs(c, lockName).clnt = c
  BY Zenon, KvAssumption, LockAssumption DEF GetArgs, Request
<1>i. ASSUME NEW l \in {"get", "check", "relget"}, GetAnd(c, l)
      PROVE  LockInv'
  <2>1. Asks(c, GetArgs(c, lockName), l) /\ l \in PC
    BY Zenon, <1>g, GetArgsFields DEF Asks, PC
  <2> QED
    BY Zenon, <1>i, <1>g, <2>1, InvokeKeeps
<1>p. ASSUME NEW v \in Value, NEW n \in Nat
      PROVE  LET q == PutArgs(c, lockName, v, n)
             IN  /\ q \in Request /\ q.clnt = c /\ q.type = "put" /\ q.key = lockName
                 /\ q.value = v /\ q.version = n
  BY Zenon, LockAssumption DEF PutArgs, Request
<1>r. reply[c].Version \in Nat /\ ver \in Nat /\ clientID[c] \in Value /\ clientID[c] # Empty
  BY Zenon, KvAssumption, LockAssumption DEF TypeOK, KvTypeOK, Reply, ver
<1>a. call[c] = "idle" => Answered(c)
  BY Zenon DEF Answered
<1>1. CASE Acquire(c) \/ Retry(c) \/ Release(c)
  BY Zenon, <1>1, <1>i DEF Acquire, Retry, Release
<1>2. CASE AcquireGot(c)
  <2>1. CASE reply[c].Err = ErrNoKey /\ PutAnd(c, clientID[c], 0, "put")
    <3>1. 0 = ver => KV[lockName] \in {NoValue, Empty}
      BY Zenon DEF LockInv
    <3> QED
      <4> DEFINE q == PutArgs(c, lockName, clientID[c], 0)
      <4>1. q \in Request /\ Asks(c, q, "put")
        BY <3>1, <1>p, <1>r DEF Asks
      <4> QED
        BY Zenon, <2>1, <4>1, InvokeKeeps DEF PC
  <2>2. CASE reply[c].Value = clientID[c] /\ Local(c, "held")
    <3>1. KV[lockName] = clientID[c]
      BY Zenon, <1>2, <2>2, <1>a DEF AcquireGot, LockInv, ReplyInv
    <3> QED
      BY Zenon, <1>2, <2>2, <3>1, LocalKeeps DEF AcquireGot
  <2>3. CASE /\ reply[c].Err # ErrNoKey /\ reply[c].Value = Empty
             /\ PutAnd(c, clientID[c], reply[c].Version, "put")
    <3>1. /\ reply[c].Version <= ver
          /\ reply[c].Version = ver => KV[lockName] = Empty
      BY Zenon, <1>2, <2>3, <1>a DEF AcquireGot, LockInv, ReplyInv
    <3> QED
      <4> DEFINE q == PutArgs(c, lockName, clientID[c], reply[c].Version)
      <4>1. q \in Request /\ Asks(c, q, "put")
        BY <3>1, <1>p, <1>r DEF Asks
      <4> QED
        BY Zenon, <2>3, <4>1, InvokeKeeps DEF PC
  <2>4. CASE Local(c, "backoff")
    BY Zenon, <1>2, <2>4, LocalKeeps DEF AcquireGot
  <2> QED
    BY Zenon, <1>2, <2>1, <2>2, <2>3, <2>4 DEF AcquireGot
<1>3. CASE AcquirePut(c)
  <2>1. CASE reply[c].Err = OK /\ Local(c, "held")
    <3>1. KV[lockName] = clientID[c]
      BY Zenon, <1>3, <2>1, <1>a DEF AcquirePut, LockInv, ReplyInv
    <3> QED
      BY Zenon, <1>3, <2>1, <3>1, LocalKeeps DEF AcquirePut
  <2>2. CASE GetAnd(c, "check") \/ Local(c, "backoff")
    BY Zenon, <1>3, <2>2, <1>i, LocalKeeps DEF AcquirePut
  <2> QED
    BY Zenon, <1>3, <2>1, <2>2 DEF AcquirePut
<1>4. CASE AcquireChecked(c)
  <2>1. reply[c].Value = clientID[c] => KV[lockName] = clientID[c]
    BY Zenon, <1>4, <1>a DEF AcquireChecked, LockInv, ReplyInv
  <2> QED
    BY Zenon, <1>4, <2>1, LocalKeeps DEF AcquireChecked
<1>5. CASE ReleaseGot(c)
  <2>1. CASE Local(c, "out")
    BY Zenon, <1>5, <2>1, LocalKeeps DEF ReleaseGot
  <2>2. CASE /\ reply[c].Err # ErrNoKey /\ reply[c].Value = clientID[c]
             /\ PutAnd(c, Empty, reply[c].Version, "relput")
    <3>1. reply[c].Version <= ver /\ KV[lockName] = clientID[c]
      BY Zenon, <1>5, <2>2, <1>a DEF ReleaseGot, LockInv, ReplyInv
    <3> QED
      <4> DEFINE q == PutArgs(c, lockName, Empty, reply[c].Version)
      <4>1. q \in Request /\ Asks(c, q, "relput")
        BY <3>1, <1>p, <1>r, KvAssumption DEF Asks
      <4> QED
        BY Zenon, <2>2, <4>1, InvokeKeeps DEF PC
  <2> QED
    BY Zenon, <1>5, <2>1, <2>2 DEF ReleaseGot
<1>6. CASE ReleasePut(c)
  BY Zenon, <1>6, <1>i, LocalKeeps DEF ReleasePut
<1> QED
  BY Zenon, <1>1, <1>2, <1>3, <1>4, <1>5, <1>6 DEF LockStep

\* LockInv is inductive, relative to the types.
LEMMA InvStep == TypeOK /\ TypeOK' /\ LockInv /\ [Next]_vars => LockInv'
<1> SUFFICES ASSUME TypeOK, TypeOK', LockInv, [Next]_vars PROVE LockInv'
  OBVIOUS
<1>1. ASSUME NEW c \in Clnt, Transport(c) \/ Execute(c) \/ Return(c), UNCHANGED lockVars
      PROVE  LockInv'
  BY Zenon, <1>1, TransportKeeps, ExecuteKeeps, ReturnKeeps
<1>2. ASSUME NEW r \in late, ExecuteLate(r), UNCHANGED lockVars
      PROVE  LockInv'
  BY Zenon, <1>2, LateKeeps
<1>3. ASSUME NEW c \in Clnt, LockStep(c)
      PROVE  LockInv'
  BY Zenon, <1>3, LockStepKeeps
<1>4. CASE UNCHANGED vars
  <2>1. UNCHANGED <<KV, VersionMap, op, pc, reply, call, late>> /\ ver' = ver
    BY Zenon, <1>4 DEF vars, kvVars, lockVars, ver
  <2>2. \A d \in Clnt : /\ Answered(d)' <=> Answered(d)
                        /\ Unanswered(d)' <=> Unanswered(d)
    BY Zenon, <2>1 DEF Answered, Unanswered
  <2>3. LateInv'
    BY Zenon, <2>1, <2>2 DEF LockInv, LateInv, Unanswered
  <2> QED
    BY Zenon, <2>1, <2>2, <2>3, QuietKeeps
<1> QED
  BY Zenon, <1>1, <1>2, <1>3, <1>4 DEF Next, Service

\* LockInv holds in every state.
THEOREM LockInvariant == Spec => []LockInv
<1>1. Init => LockInv
  <2> SUFFICES ASSUME Init PROVE LockInv
    OBVIOUS
  <2>1. PICK k \in Key : op = [c \in Clnt |-> GetArgs(c, k)]
    BY Zenon DEF Init, KvInit
  <2>2. \A c \in Clnt : op[c].clnt = c /\ op[c].type = "get"
    BY Zenon, <2>1 DEF GetArgs
  <2> QED
    BY Zenon, <2>2, LockAssumption
       DEF Init, KvInit, SrvInit, LockInv, OpsInv, LateInv, PutInv, ReplyInv,
           HolderRecorded, Holds, ver, Unanswered, Answered
<1> QED
  BY <1>1, InvStep, TypeCorrect, PTL DEF Spec

\* While a client holds the lock, the key names it.
THEOREM HolderStaysRecorded == Spec => []HolderRecorded
<1>1. LockInv => HolderRecorded
  BY Zenon DEF LockInv
<1> QED
  BY <1>1, LockInvariant, PTL

\* No two clients hold the lock at once: the key can name only one of them.
THEOREM LockIsExclusive == Spec => []MutualExclusion
<1>1. LockInv => MutualExclusion
  BY Zenon, LockAssumption DEF LockInv, HolderRecorded, MutualExclusion
<1> QED
  BY <1>1, LockInvariant, PTL
-----------------------------------------------------------------------------
(* The lock is a mutex *)

\* The client that the key names is the owner, and the only one, before and after
\* a step.
LEMMA OwnerIs ==
    /\ \A c \in Clnt : KV[lockName] = clientID[c] => absOwner = {c}
    /\ KV[lockName] \in {NoValue, Empty} => absOwner = {}
    /\ \A c \in Clnt : KV'[lockName] = clientID[c] => absOwner' = {c}
    /\ KV'[lockName] \in {NoValue, Empty} => absOwner' = {}
<1>1. \A c \in Clnt : clientID[c] # NoValue /\ clientID[c] # Empty
  BY Zenon, KvAssumption, LockAssumption
<1>2. \A c, d \in Clnt : clientID[c] = clientID[d] => c = d
  BY Zenon, LockAssumption
<1> QED
  BY Zenon, <1>1, <1>2 DEF absOwner

\* Where the labels of Acquire and Release put a client.
LEMMA WhereIs ==
    /\ \A l \in {"get", "put", "check", "backoff"} : Where(l) = "waiting"
    /\ \A l \in {"relget", "relput"} : Where(l) = "releasing"
    /\ Where("out") = "out" /\ Where("held") = "held"
BY DEF Where

\* A put that takes effect, by whichever copy, grants the lock or frees it.
LEMMA InstallIsStep ==
    ASSUME TypeOK, LockInv, NEW r \in Request, Installs(r), Handle(r),
           op[r.clnt] = r, Unanswered(r.clnt), UNCHANGED pc
    PROVE  Mutex!Next
<1>c. PICK c \in Clnt : c = r.clnt
  BY Zenon DEF Request
<1>1. absWhere' = absWhere /\ absWhere[c] = Where(pc[c])
  BY Zenon DEF absWhere
<1>2. CASE pc[c] = "put" /\ KV[lockName] \in {NoValue, Empty} /\ KV'[lockName] = clientID[c]
  <2>1. absWhere[c] = "waiting" /\ absOwner = {} /\ absOwner' = {c}
    BY Zenon, <1>1, <1>2, WhereIs, OwnerIs
  <2> QED
    BY Zenon, <1>1, <2>1 DEF Mutex!Next, Mutex!Grant
<1>3. CASE pc[c] = "relput" /\ KV[lockName] = clientID[c] /\ KV'[lockName] = Empty
  <2>1. absWhere[c] = "releasing" /\ absOwner = {c} /\ absOwner' = {}
    BY Zenon, <1>1, <1>3, WhereIs, OwnerIs
  <2> QED
    BY Zenon, <1>1, <2>1 DEF Mutex!Next, Mutex!Free
<1> QED
  BY Zenon, <1>c, <1>2, <1>3, Installed

\* A step that leaves the key and the clients' places alone does not show.
LEMMA QuietIsStutter == ASSUME UNCHANGED <<KV, pc>> PROVE UNCHANGED Mutex!vars
BY Zenon DEF Mutex!vars, absWhere, absOwner

\* The server's handlers grant and free the lock; nothing else in the service shows.
LEMMA ServiceIsStep ==
    ASSUME TypeOK, LockInv, Service
    PROVE  [Mutex!Next]_(Mutex!vars)
<1>p. UNCHANGED pc
  BY Zenon DEF Service, lockVars
<1>1. ASSUME NEW c \in Clnt, Transport(c) \/ Return(c) PROVE UNCHANGED Mutex!vars
  <2>1. UNCHANGED KV
    BY Zenon, <1>1 DEF Transport, Dispatch, LoseRequest, Abandon, LoseReply, Deliver,
       Enable, Resend, Return, srvVars
  <2> QED
    BY Zenon, <1>p, <2>1, QuietIsStutter
<1>2. ASSUME NEW r \in Request, Handle(r), Installs(r) => op[r.clnt] = r /\ Unanswered(r.clnt)
      PROVE  [Mutex!Next]_(Mutex!vars)
  <2>1. CASE Installs(r)
    BY Zenon, <1>p, <1>2, <2>1, InstallIsStep
  <2>2. CASE ~Installs(r)
    <3>1. UNCHANGED KV
      BY Zenon, <1>2, <2>2 DEF Handle, srvVars
    <3> QED
      BY Zenon, <1>p, <3>1, QuietIsStutter
  <2> QED
    BY Zenon, <2>1, <2>2
<1>3. ASSUME NEW c \in Clnt, Execute(c) PROVE [Mutex!Next]_(Mutex!vars)
  <2>1. op[c] \in Request /\ Handle(op[c]) /\ op[c].clnt = c /\ Unanswered(c)
    BY Zenon, <1>3 DEF Execute, TypeOK, KvTypeOK, LockInv, OpsInv, Unanswered
  <2> QED
    BY Zenon, <1>2, <2>1
<1>4. ASSUME NEW r \in late, ExecuteLate(r) PROVE [Mutex!Next]_(Mutex!vars)
  <2>1. r \in Request /\ Handle(r)
    BY Zenon, <1>4 DEF ExecuteLate, TypeOK, KvTypeOK
  <2>2. Installs(r) => op[r.clnt] = r /\ Unanswered(r.clnt)
    BY Zenon DEF LockInv, LateInv, Installs, ver
  <2> QED
    BY Zenon, <1>2, <2>1, <2>2
<1> QED
  BY Zenon, <1>1, <1>3, <1>4 DEF Service

\* A step of the lock code moves its client and leaves the key alone.
LEMMA LockStepMoves ==
    ASSUME TypeOK, NEW c \in Clnt, NEW l, Goto(c, l), UNCHANGED KV
    PROVE  /\ absOwner' = absOwner
           /\ absWhere' = [absWhere EXCEPT ![c] = Where(l)]
           /\ absWhere[c] = Where(pc[c])
           /\ Where(l) = Where(pc[c]) => UNCHANGED Mutex!vars
<1>1. absOwner' = absOwner /\ absWhere[c] = Where(pc[c])
  BY Zenon DEF absOwner, absWhere
<1>2. pc' = [pc EXCEPT ![c] = l] /\ pc \in [Clnt -> PC]
  BY Zenon DEF Goto, TypeOK
<1>3. absWhere' = [absWhere EXCEPT ![c] = Where(l)]
  <2>1. \A d \in Clnt : pc'[d] = IF d = c THEN l ELSE pc[d]
    BY Zenon, <1>2
  <2>2. \A d \in Clnt : absWhere'[d] = [absWhere EXCEPT ![c] = Where(l)][d]
    BY Zenon, <2>1 DEF absWhere
  <2> QED
    BY Zenon, <2>2 DEF absWhere
<1>4. Where(l) = Where(pc[c]) => absWhere' = absWhere
  BY Zenon, <1>1, <1>3 DEF absWhere
<1> QED
  BY Zenon, <1>1, <1>3, <1>4 DEF Mutex!vars

\* Acquire and Release: their calls and returns are the mutex's, and the steps
\* between them do not show.
LEMMA LockStepIsStep ==
    ASSUME TypeOK, LockInv, NEW c \in Clnt, LockStep(c)
    PROVE  [Mutex!Next]_(Mutex!vars)
<1> USE DEF GetAnd, PutAnd, Local
<1>k. UNCHANGED KV
  BY Zenon DEF LockStep, Acquire, AcquireGot, AcquirePut, AcquireChecked, Retry,
     Release, ReleaseGot, ReleasePut, Invoke, kvVars, srvVars
<1>a. call[c] = "idle" => Answered(c)
  BY Zenon DEF Answered
<1>s. ASSUME NEW l, Goto(c, l), Where(l) = Where(pc[c]) PROVE UNCHANGED Mutex!vars
  BY Zenon, <1>k, <1>s, LockStepMoves
<1>m. ASSUME NEW l, Goto(c, l)
      PROVE  /\ Where(pc[c]) = "out" /\ Where(l) = "waiting" => Mutex!CallAcquire(c)
             /\ /\ Where(pc[c]) = "waiting" /\ Where(l) = "held"
                /\ KV[lockName] = clientID[c]
                => Mutex!Enter(c)
             /\ Where(pc[c]) = "held" /\ Where(l) = "releasing" => Mutex!CallRelease(c)
             /\ /\ Where(pc[c]) = "releasing" /\ Where(l) = "out"
                /\ KV[lockName] # clientID[c]
                => Mutex!Leave(c)
  <2>1. /\ absOwner' = absOwner
        /\ absWhere' = [absWhere EXCEPT ![c] = Where(l)] /\ absWhere[c] = Where(pc[c])
    BY Zenon, <1>k, <1>m, LockStepMoves
  <2>2. KV[lockName] = clientID[c] => absOwner = {c}
    BY Zenon, OwnerIs
  <2>3. KV[lockName] # clientID[c] => c \notin absOwner
    BY Zenon DEF absOwner
  <2> QED
    BY Zenon, <2>1, <2>2, <2>3
       DEF Mutex!CallAcquire, Mutex!Enter, Mutex!CallRelease, Mutex!Leave, Mutex!Move
<1>1. CASE Acquire(c) \/ Release(c)
  <2>1. Mutex!CallAcquire(c) \/ Mutex!CallRelease(c)
    BY Zenon, <1>1, <1>m, WhereIs DEF Acquire, Release, At
  <2> QED
    BY Zenon, <2>1 DEF Mutex!Next
<1>2. CASE AcquireGot(c) \/ AcquirePut(c) \/ AcquireChecked(c) \/ Retry(c)
  <2>1. pc[c] \in {"get", "put", "check", "backoff"}
    BY Zenon, <1>2 DEF AcquireGot, AcquirePut, AcquireChecked, Retry, At
  <2>2. CASE Goto(c, "held")
    <3>1. KV[lockName] = clientID[c]
      <4>1. \/ At(c, "get") /\ reply[c].Value = clientID[c]
            \/ At(c, "put") /\ reply[c].Err = OK
            \/ At(c, "check") /\ reply[c].Value = clientID[c]
        <5>1. \A l \in {"get", "put", "check", "backoff"} : ~Goto(c, l)
          <6>1. pc'[c] = "held"
            BY Zenon, <2>2 DEF Goto, TypeOK
          <6> QED
            BY Zenon, <6>1 DEF Goto, TypeOK
        <5> QED
          BY Zenon, <1>2, <5>1 DEF AcquireGot, AcquirePut, AcquireChecked, Retry
      <4> QED
        BY Zenon, <1>a, <4>1 DEF At, LockInv, ReplyInv
    <3>2. Mutex!Enter(c)
      BY Zenon, <1>m, <2>1, <2>2, <3>1, WhereIs
    <3> QED
      BY Zenon, <3>2 DEF Mutex!Next
  <2>3. CASE \E l \in {"get", "put", "check", "backoff"} : Goto(c, l)
    BY Zenon, <1>s, <2>1, <2>3, WhereIs
  <2> QED
    BY Zenon, <1>2, <2>2, <2>3 DEF AcquireGot, AcquirePut, AcquireChecked, Retry
<1>3. CASE ReleaseGot(c)
  <2>1. CASE Local(c, "out") /\ (reply[c].Err = ErrNoKey \/ reply[c].Value # clientID[c])
    <3>1. reply[c].Value # clientID[c]
      <4>1. clientID[c] # Empty
        BY Zenon, LockAssumption
      <4>2. reply[c].Err = ErrNoKey => reply[c].Value = Empty
        BY Zenon, <1>3, <1>a DEF ReleaseGot, At, LockInv, ReplyInv
      <4> QED
        BY Zenon, <2>1, <4>1, <4>2
    <3>2. KV[lockName] # clientID[c]
      BY Zenon, <1>3, <1>a, <3>1 DEF ReleaseGot, At, LockInv, ReplyInv
    <3>3. Mutex!Leave(c)
      BY Zenon, <1>3, <1>m, <2>1, <3>2, WhereIs DEF ReleaseGot, At
    <3> QED
      BY Zenon, <3>3 DEF Mutex!Next
  <2>2. CASE Goto(c, "relput")
    BY Zenon, <1>3, <1>s, <2>2, WhereIs DEF ReleaseGot, At
  <2> QED
    BY Zenon, <1>3, <2>1, <2>2 DEF ReleaseGot
<1>4. CASE ReleasePut(c)
  <2>1. CASE reply[c].Err = OK /\ Local(c, "out")
    <3>1. KV[lockName] # clientID[c]
      BY Zenon, <1>4, <1>a, <2>1 DEF ReleasePut, At, LockInv, ReplyInv
    <3>2. Mutex!Leave(c)
      BY Zenon, <1>4, <1>m, <2>1, <3>1, WhereIs DEF ReleasePut, At
    <3> QED
      BY Zenon, <3>2 DEF Mutex!Next
  <2>2. CASE Goto(c, "relget")
    BY Zenon, <1>4, <1>s, <2>2, WhereIs DEF ReleasePut, At
  <2> QED
    BY Zenon, <1>4, <2>1, <2>2 DEF ReleasePut
<1> QED
  BY Zenon, <1>1, <1>2, <1>3, <1>4 DEF LockStep

\* The lock implements the mutex: every step of the clients, the clerks, the
\* network and the server is a step of it or does not show.
THEOREM LockIsMutex == Spec => IsMutex
<1>1. Init => Mutex!Init
  <2> SUFFICES ASSUME Init PROVE Mutex!Init
    OBVIOUS
  <2>1. KV[lockName] = NoValue /\ pc = [c \in Clnt |-> "out"]
    BY Zenon, LockAssumption DEF Init, KvInit, SrvInit
  <2>2. absWhere = [c \in Clnt |-> "out"]
    BY Zenon, <2>1, WhereIs DEF absWhere
  <2> QED
    BY Zenon, <2>1, <2>2, OwnerIs DEF Mutex!Init
<1>2. TypeOK /\ LockInv /\ [Next]_vars => [Mutex!Next]_(Mutex!vars)
  <2> SUFFICES ASSUME TypeOK, LockInv, [Next]_vars PROVE [Mutex!Next]_(Mutex!vars)
    OBVIOUS
  <2>1. CASE UNCHANGED vars
    BY Zenon, <2>1, QuietIsStutter DEF vars, kvVars, lockVars
  <2> QED
    BY Zenon, <2>1, ServiceIsStep, LockStepIsStep DEF Next
<1> QED
  BY <1>1, <1>2, TypeCorrect, LockInvariant, PTL DEF Spec, IsMutex, Mutex!Spec
=============================================================================
