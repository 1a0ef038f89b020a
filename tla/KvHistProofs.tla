---------------------------- MODULE KvHistProofs ----------------------------
(***************************************************************************)
(* Proofs about the key/value service under clients that get and put as    *)
(* they like: for any number of clients, keys and operations, every put is *)
(* stored at most once and the clerk's answers are exact.                  *)
(***************************************************************************)
EXTENDS KvHist, KvSrvProofs

\* The types are kept by every step.
LEMMA TypeStep == TypeOK /\ [Next]_vars => TypeOK'
<1> SUFFICES ASSUME TypeOK, [Next]_vars PROVE TypeOK'
  OBVIOUS
<1> USE DEF TypeOK, histVars
<1>0. ASSUME NEW r \in Request, Record(r)
      PROVE  writes' \in [Key -> Seq(Value)]
  <2>1. r.key \in Key /\ r.value \in Value
    BY Zenon DEF Request
  <2>2. Append(writes[r.key], r.value) \in Seq(Value)
    BY <2>1
  <2> QED
    BY Zenon, <1>0, <2>1, <2>2 DEF Record
<1>1. ASSUME NEW c \in Clnt, Transport(c), UNCHANGED histVars
      PROVE  TypeOK'
  BY Zenon, <1>1, TransportType
<1>2. ASSUME NEW c \in Clnt, Execute(c), Record(op[c]), UNCHANGED <<opn, returns>>
      PROVE  TypeOK'
  BY Zenon, <1>2, <1>0, ExecuteType DEF KvTypeOK
<1>3. ASSUME NEW c \in Clnt, Finish(c)
      PROVE  TypeOK'
  <2>1. op[c].value \in Value /\ ClerkErr(c) \in Err
    BY Zenon DEF KvTypeOK, Request, Reply, ClerkErr, Err
  <2> QED
    BY <1>3, <2>1, ReturnType DEF Finish
<1>4. ASSUME NEW r \in late, ExecuteLate(r), Record(r), UNCHANGED <<opn, returns>>
      PROVE  TypeOK'
  BY Zenon, <1>4, <1>0, LateType DEF KvTypeOK
<1>5. ASSUME NEW c \in Clnt, Get(c) \/ Put(c)
      PROVE  TypeOK'
  <2>1. PICK q \in Request : Begin(c, q)
    <3>1. CASE Get(c)
      BY Zenon, <3>1, ArgsType DEF Get
    <3>2. CASE Put(c)
      <4>1. PICK k \in Key, n \in 0..MaxVersion : PutAt(c, k, n)
        BY Zenon, <3>2 DEF Put
      <4>2. opn + 1 \in Value /\ n \in Nat
        BY <4>1, HistAssumption DEF PutAt, Begin
      <4> QED
        BY Zenon, <4>1, <4>2, ArgsType DEF PutAt
    <3> QED
      BY Zenon, <1>5, <3>1, <3>2
  <2>2. KvTypeOK'
    BY Zenon, <2>1, InvokeType DEF Begin
  <2> QED
    BY <2>1, <2>2, HistAssumption DEF Begin
<1>6. CASE UNCHANGED vars
  BY Zenon, <1>6 DEF vars, kvVars, KvTypeOK
<1> QED
  BY Zenon, <1>1, <1>2, <1>3, <1>4, <1>5, <1>6 DEF Next, Service

\* Type correctness of the service and its history.
THEOREM TypeCorrect == Spec => []TypeOK
<1>1. Init => TypeOK
  <2>1. <<>> \in Seq(Value)
    OBVIOUS
  <2> QED
    BY <2>1, InitType, HistAssumption DEF Init, TypeOK
<1> QED
  BY <1>1, TypeStep, PTL DEF Spec

-----------------------------------------------------------------------------
(* The history invariant *)

\* The puts that may still reach the server are requests.
LEMMA PutsMember ==
    /\ \A r : r \in Puts <=> \/ r \in late
                             \/ \E c \in Clnt : r = op[c] /\ r.type = "put"
    /\ TypeOK => Puts \subseteq Request
BY Zenon DEF Puts, TypeOK, KvTypeOK

\* Two clients never have the same put.
LEMMA OwnPuts ==
    ASSUME HistInv, NEW c \in Clnt, NEW d \in Clnt,
           op[c].type = "put", op[d].type = "put", op[c].value = op[d].value
    PROVE  c = d
<1>1. op[c] \in Puts /\ op[d] \in Puts
  BY Zenon, PutsMember
<1> QED
  BY <1>1 DEF HistInv, PutsInv

\* What Append does.
LEMMA AppendFacts ==
    ASSUME NEW S, NEW s \in Seq(S), NEW e \in S
    PROVE  /\ Len(Append(s, e)) = Len(s) + 1
           /\ Append(s, e)[Len(s) + 1] = e
           /\ \A i \in 1..Len(s) : Append(s, e)[i] = s[i]
           /\ Append(s, e) # <<>>
<1>1. Len(Append(s, e)) = Len(s) + 1 /\ Len(s) \in Nat
  OBVIOUS
<1>2. Append(s, e)[Len(s) + 1] = e
  OBVIOUS
<1>3. \A i \in 1..Len(s) : Append(s, e)[i] = s[i]
  OBVIOUS
<1>4. Append(s, e) # <<>>
  BY <1>1
<1> QED
  BY Zenon, <1>1, <1>2, <1>3, <1>4

\* A put that the server stores had not been stored before, and it is the only
\* value that the step adds.
LEMMA StoreKeeps ==
    ASSUME TypeOK, HistInv, NEW r \in Puts, Installs(r), Handle(r), Record(r),
           UNCHANGED <<op, opn>>, late' \in SUBSET late
    PROVE  /\ VersionsCount' /\ PutsInv' /\ AtMostOnce'
           /\ \A v : Written(v)' <=> Written(v) \/ v = r.value
<1> DEFINE k == r.key
           n == Len(writes[k])
<1>1. r \in Request /\ k \in Key /\ r.value \in Value /\ r.version \in Nat
  BY Zenon, PutsMember DEF Request
<1>2. r.version = n /\ n \in Nat /\ VersionMap[k] = n
  BY Zenon, <1>1 DEF Installs, HistInv, VersionsCount, TypeOK
<1>3. /\ Len(writes'[k]) = n + 1 /\ writes'[k][n + 1] = r.value
      /\ \A i \in 1..n : writes'[k][i] = writes[k][i]
      /\ \A l \in Key : l # k => writes'[l] = writes[l]
      /\ writes'[k] # <<>>
  <2>1. writes' = [writes EXCEPT ![k] = Append(@, r.value)]
    BY Zenon DEF Record
  <2>2. writes \in [Key -> Seq(Value)] /\ writes[k] \in Seq(Value)
    BY Zenon, <1>1 DEF TypeOK
  <2>3. writes'[k] = Append(writes[k], r.value) /\ \A l \in Key : l # k => writes'[l] = writes[l]
    BY Zenon, <1>1, <2>1, <2>2
  <2> QED
    BY <1>1, <2>2, <2>3, AppendFacts
<1>4. /\ VersionMap'[k] = n + 1 /\ KV'[k] = r.value
      /\ \A l \in Key : l # k => VersionMap'[l] = VersionMap[l] /\ KV'[l] = KV[l]
  BY Zenon, <1>1, <1>2 DEF Handle, TypeOK, KvTypeOK
<1>5. VersionsCount'
  BY <1>1, <1>2, <1>3, <1>4 DEF HistInv, VersionsCount
<1>6. \A l \in Key : \A i \in 1..Len(writes[l]) : writes[l][i] # r.value
  <2> SUFFICES ASSUME NEW l \in Key, NEW i \in 1..Len(writes[l]), writes[l][i] = r.value
               PROVE  FALSE
    OBVIOUS
  <2>1. r.key = l /\ r.version + 1 = i
    BY Zenon DEF HistInv, PutsInv
  <2> QED
    BY <1>2, <2>1
<1>7. \A l \in Key : Len(writes[l]) \in Nat
  BY DEF TypeOK
<1>8. \A l \in Key : \A i \in 1..Len(writes'[l]) :
          \/ i \in 1..Len(writes[l]) /\ writes'[l][i] = writes[l][i]
          \/ l = k /\ i = n + 1 /\ writes'[l][i] = r.value
  <2> SUFFICES ASSUME NEW l \in Key, NEW i \in 1..Len(writes'[l])
               PROVE  \/ i \in 1..Len(writes[l]) /\ writes'[l][i] = writes[l][i]
                      \/ l = k /\ i = n + 1 /\ writes'[l][i] = r.value
    OBVIOUS
  <2>1. CASE l # k
    <3>1. writes'[l] = writes[l]
      BY Zenon, <1>3, <2>1
    <3> QED
      BY Zenon, <3>1
  <2>2. CASE l = k
    <3>1. i \in 1..(n + 1) /\ n = Len(writes[k])
      BY Zenon, <1>2, <1>3, <2>2
    <3>2. CASE i = n + 1
      BY Zenon, <1>3, <2>2, <3>2
    <3>3. CASE i \in 1..n
      BY Zenon, <1>3, <2>2, <3>1, <3>3
    <3> QED
      BY <1>2, <1>7, <3>1, <3>2, <3>3
  <2> QED
    BY Zenon, <2>1, <2>2
<1>9. AtMostOnce'
  BY <1>6, <1>8 DEF HistInv, AtMostOnce
<1>10. PutsInv'
  <2>1. Puts' \subseteq Puts
    BY Zenon DEF Puts
  <2>2. r.type = "put" /\ r.value \in 1..opn
    BY Zenon DEF HistInv, PutsInv
  <2>3. \A q \in Puts' : \A l \in Key : \A i \in 1..Len(writes'[l]) :
            writes'[l][i] = q.value => q.key = l /\ q.version + 1 = i
    BY <1>2, <1>8, <2>1 DEF HistInv, PutsInv
  <2>4. \A l \in Key : \A i \in 1..Len(writes'[l]) : writes'[l][i] \in 1..opn
    BY Zenon, <1>8, <2>2 DEF HistInv, PutsInv
  <2> QED
    BY Zenon, <2>1, <2>3, <2>4 DEF HistInv, PutsInv
<1>11. \A v : Written(v)' <=> Written(v) \/ v = r.value
  <2>1. ASSUME NEW v, Written(v)' PROVE Written(v) \/ v = r.value
    BY Zenon, <1>8, <2>1 DEF Written
  <2>2. ASSUME NEW v, Written(v) PROVE Written(v)'
    <3>0. PICK l \in Key : \E i \in 1..Len(writes[l]) : writes[l][i] = v
      BY Zenon, <2>2 DEF Written
    <3>1. PICK i \in 1..Len(writes[l]) : writes[l][i] = v
      BY Zenon, <3>0
    <3>2. i \in 1..Len(writes'[l]) /\ writes'[l][i] = v
      BY <1>2, <1>3, <3>1
    <3> QED
      BY Zenon, <3>2 DEF Written
  <2>3. Written(r.value)'
    <3>1. n + 1 \in 1..Len(writes'[k])
      BY <1>2, <1>3
    <3> QED
      BY Zenon, <1>1, <1>3, <3>1 DEF Written
  <2> QED
    BY Zenon, <2>1, <2>2, <2>3
<1> QED
  BY Zenon, <1>5, <1>9, <1>10, <1>11

\* Steps that leave the maps and the history alone keep the parts of the
\* invariant that are about them; the step may add an operation's put.
LEMMA QuietKeeps ==
    ASSUME HistInv, UNCHANGED <<KV, VersionMap, writes, opn, op>>, Puts' \in SUBSET Puts
    PROVE  /\ VersionsCount' /\ PutsInv' /\ AtMostOnce'
           /\ \A v : Written(v)' <=> Written(v)
<1>1. VersionsCount'
  BY Zenon DEF HistInv, VersionsCount
<1>2. AtMostOnce'
  BY DEF HistInv, AtMostOnce
<1>3. PutsInv'
  BY Zenon DEF HistInv, PutsInv
<1>4. \A v : Written(v)' <=> Written(v)
  BY Zenon DEF Written
<1> QED
  BY Zenon, <1>1, <1>2, <1>3, <1>4

\* The network's and the clerks' own steps.  A put that is left behind is still
\* its client's, so no other put is concerned.
LEMMA TransportKeeps ==
    ASSUME TypeOK, HistInv, NEW c \in Clnt, Transport(c), UNCHANGED histVars
    PROVE  HistInv'
<1> USE DEF srvVars, clntVars, histVars, SetCall
<1>1. /\ UNCHANGED <<KV, VersionMap, writes, opn, op, returns>>
      /\ \A d \in Clnt : /\ firstAttempt'[d] => firstAttempt[d]
                         /\ d # c => call'[d] = call[d] /\ reply'[d] = reply[d]
      /\ call'[c] = "idle" <=> call[c] = "idle"
  BY Zenon DEF Transport, Dispatch, LoseRequest, Abandon, LoseReply, Deliver, Enable, Resend,
         TypeOK, KvTypeOK
<1>2. \A r \in late' : \/ r \in late
                       \/ r = op[c] /\ r.type = "put" /\ call[c] = "running"
  <2>1. CASE Abandon(c)
    BY Zenon, <2>1 DEF Abandon
  <2>2. ASSUME ~Abandon(c) PROVE late' = late
    BY Zenon, <2>2 DEF Transport, Dispatch, LoseRequest, LoseReply, Deliver, Enable, Resend
  <2> QED
    BY Zenon, <2>1, <2>2
<1>3. Puts' \in SUBSET Puts
  <2>1. op[c].type = "put" => op[c] \in Puts
    BY Zenon, PutsMember
  <2> QED
    BY Zenon, <1>1, <1>2, <2>1 DEF Puts
<1>4. /\ VersionsCount' /\ PutsInv' /\ AtMostOnce'
      /\ \A v : Written(v)' <=> Written(v)
  BY Zenon, <1>1, <1>3, QuietKeeps
<1>5. \A v : Dead(v) /\ ~(call[c] = "running" /\ op[c].type = "put" /\ op[c].value = v) => Dead(v)'
  <2> SUFFICES ASSUME NEW v, Dead(v), ~(call[c] = "running" /\ op[c].type = "put" /\ op[c].value = v)
               PROVE  Dead(v)'
    OBVIOUS
  <2>1. \A r \in late' : r.value # v
    BY Zenon, <1>2 DEF Dead
  <2> QED
    BY Zenon, <1>4, <2>1 DEF Dead
<1>6. CallInv'
  <2> SUFFICES ASSUME NEW d \in Clnt, op[d].type = "put"
               PROVE  CallInv!(d)'
    BY Zenon, <1>1 DEF CallInv
  <2>1. CASE d # c
    <3>1. op[d].value # op[c].value \/ op[c].type # "put"
      BY Zenon, <2>1, OwnPuts
    <3>2. Dead(op[d].value) => Dead(op[d].value)'
      BY ZenonT(60), <1>1, <1>5, <3>1 DEF Dead, Written
    <3> QED
      BY Zenon, <1>1, <1>4, <2>1, <3>2 DEF HistInv, CallInv
  <2>2. CASE d = c
    <3>1. CASE Abandon(c) \/ LoseReply(c) \/ LoseRequest(c)
      <4>1. call'[c] = "failed"
        BY Zenon, <3>1 DEF Abandon, LoseReply, LoseRequest, TypeOK, KvTypeOK
      <4> QED
        BY Zenon, <2>2, <4>1
    <3>2. CASE Resend(c)
      BY Zenon, <2>2, <3>2 DEF Resend, TypeOK, KvTypeOK
    <3>3. CASE Dispatch(c) \/ Deliver(c) \/ Enable(c)
      <4>1. late' = late /\ reply' = reply /\ firstAttempt' = firstAttempt
        BY Zenon, <3>3 DEF Dispatch, Deliver, Enable
      <4>2. \/ call'[c] = call[c]
            \/ call[c] = "sent" /\ call'[c] = "running"
            \/ call[c] = "done" /\ call'[c] = "replied"
        BY Zenon, <3>3 DEF Dispatch, Deliver, Enable, TypeOK, KvTypeOK
      <4>3. \A v : Dead(v) => Dead(v)'
        BY Zenon, <1>4, <4>1 DEF Dead
      <4> QED
        BY Zenon, <1>1, <1>4, <2>2, <4>1, <4>2, <4>3 DEF HistInv, CallInv
    <3> QED
      BY Zenon, <3>1, <3>2, <3>3 DEF Transport
  <2> QED
    BY Zenon, <2>1, <2>2
<1>7. ReturnsInv'
  <2> SUFFICES ASSUME NEW ret \in returns PROVE ReturnsInv!(ret)'
    BY Zenon, <1>1 DEF ReturnsInv
  <2>1. ReturnsInv!(ret)
    BY Zenon DEF HistInv, ReturnsInv
  <2>2. ret[2] = ErrVersion => Dead(ret[1])'
    BY Zenon, <1>5, <2>1
  <2>3. \A d \in Clnt : call'[d] # "idle" => call[d] # "idle"
    BY Zenon, <1>1
  <2> QED
    BY Zenon, <1>1, <1>4, <2>1, <2>2, <2>3
<1> QED
  BY Zenon, <1>4, <1>6, <1>7 DEF HistInv

\* The handler runs for the client's current RPC.
LEMMA ExecuteKeeps ==
    ASSUME TypeOK, HistInv, NEW c \in Clnt, Execute(c), Record(op[c]),
           UNCHANGED <<opn, returns>>
    PROVE  HistInv'
<1> USE DEF srvVars, clntVars, SetCall
<1>1. /\ UNCHANGED <<op, firstAttempt, late, opn, returns>>
      /\ call[c] = "running" /\ call'[c] = "done"
      /\ Handle(op[c]) /\ op[c] \in Request
      /\ reply'[c] = HandlerReply(op[c])
      /\ \A d \in Clnt : d # c => call'[d] = call[d] /\ reply'[d] = reply[d]
  BY Zenon DEF Execute, TypeOK, KvTypeOK
<1>2. CASE Installs(op[c])
  <2>1. op[c].type = "put" /\ op[c] \in Puts
    BY Zenon, <1>2, PutsMember DEF Installs
  <2>2. /\ VersionsCount' /\ PutsInv' /\ AtMostOnce'
        /\ \A v : Written(v)' <=> Written(v) \/ v = op[c].value
    BY Zenon, <1>1, <1>2, <2>1, StoreKeeps
  <2>3. \A v : v # op[c].value /\ Dead(v) => Dead(v)'
    BY Zenon, <1>1, <2>2 DEF Dead
  <2>4. CallInv'
    <3> SUFFICES ASSUME NEW d \in Clnt, op[d].type = "put"
                 PROVE  CallInv!(d)'
      BY Zenon, <1>1 DEF CallInv
    <3>1. CASE d # c
      <4>1. op[d].value # op[c].value
        BY Zenon, <2>1, <3>1, OwnPuts
      <4>2. Dead(op[d].value) => Dead(op[d].value)'
        BY ZenonT(60), <1>1, <2>3, <4>1 DEF Dead, Written
      <4> QED
        BY Zenon, <1>1, <2>2, <3>1, <4>2 DEF HistInv, CallInv
    <3>2. CASE d = c
      <4>1. reply'[c].Err = OK
        BY <1>1, <1>2, <2>1 DEF HandlerReply, PutErr, PutReply
      <4> QED
        BY Zenon, <1>1, <2>2, <3>2, <4>1 DEF OK, ErrVersion, Written
    <3> QED
      BY Zenon, <3>1, <3>2
  <2>5. ReturnsInv'
    <3> SUFFICES ASSUME NEW ret \in returns PROVE ReturnsInv!(ret)'
      BY Zenon, <1>1 DEF ReturnsInv
    <3>1. ReturnsInv!(ret)
      BY Zenon DEF HistInv, ReturnsInv
    <3>2. ret[2] = ErrVersion => Dead(ret[1])'
      BY Zenon, <1>1, <2>1, <2>3, <3>1
    <3>3. \A d \in Clnt : call'[d] # "idle" => call[d] # "idle"
      BY Zenon, <1>1
    <3> QED
      BY Zenon, <1>1, <2>2, <3>1, <3>2, <3>3
  <2> QED
    BY Zenon, <2>2, <2>4, <2>5 DEF HistInv
<1>3. CASE ~Installs(op[c])
  <2>1. UNCHANGED <<KV, VersionMap, writes>>
    BY Zenon, <1>1, <1>3 DEF Handle, Record
  <2>2. /\ VersionsCount' /\ PutsInv' /\ AtMostOnce'
        /\ \A v : Written(v)' <=> Written(v)
    <3>1. Puts' \in SUBSET Puts
      BY Zenon, <1>1 DEF Puts
    <3> QED
      BY Zenon, <1>1, <2>1, <3>1, QuietKeeps
  <2>3. \A v : Dead(v) => Dead(v)'
    BY Zenon, <1>1, <2>2 DEF Dead
  <2>4. CallInv'
    <3> SUFFICES ASSUME NEW d \in Clnt, op[d].type = "put"
                 PROVE  CallInv!(d)'
      BY Zenon, <1>1 DEF CallInv
    <3>0. Dead(op[d].value) => Dead(op[d].value)'
      BY Zenon, <1>1, <2>3 DEF Dead, Written
    <3>1. CASE d # c
      BY Zenon, <1>1, <2>2, <3>0, <3>1 DEF HistInv, CallInv
    <3>2. CASE d = c
      <4>1. reply'[c].Err # OK
        BY <1>1, <1>3, <3>2 DEF HandlerReply, PutErr, PutReply, OK, ErrNoKey, ErrVersion
      <4>2. firstAttempt[c] => Dead(op[c].value)
        BY Zenon, <1>1, <3>2 DEF HistInv, CallInv
      <4> QED
        BY Zenon, <1>1, <3>0, <3>2, <4>1, <4>2
    <3> QED
      BY Zenon, <3>1, <3>2
  <2>5. ReturnsInv'
    <3> SUFFICES ASSUME NEW ret \in returns PROVE ReturnsInv!(ret)'
      BY Zenon, <1>1 DEF ReturnsInv
    <3>1. ReturnsInv!(ret)
      BY Zenon DEF HistInv, ReturnsInv
    <3>2. \A d \in Clnt : call'[d] # "idle" => call[d] # "idle"
      BY Zenon, <1>1
    <3> QED
      BY Zenon, <1>1, <2>2, <2>3, <3>1, <3>2
  <2> QED
    BY Zenon, <2>2, <2>4, <2>5 DEF HistInv
<1> QED
  BY Zenon, <1>2, <1>3

\* A handler left behind runs.  Its put is not dead, so the answers given for
\* dead puts are not touched.
LEMMA LateKeeps ==
    ASSUME TypeOK, HistInv, NEW r \in late, ExecuteLate(r), Record(r),
           UNCHANGED <<opn, returns>>
    PROVE  HistInv'
<1> USE DEF srvVars, clntVars
<1>1. /\ UNCHANGED <<op, firstAttempt, call, reply, opn, returns>>
      /\ late' \in SUBSET late /\ Handle(r) /\ r \in Puts
  BY Zenon, PutsMember DEF ExecuteLate
<1>2. /\ VersionsCount' /\ PutsInv' /\ AtMostOnce'
      /\ \A v : Written(v) => Written(v)'
      /\ \A v : v # r.value => (Written(v)' <=> Written(v))
  <2>1. CASE Installs(r)
    BY Zenon, <1>1, <2>1, StoreKeeps
  <2>2. CASE ~Installs(r)
    <3>1. UNCHANGED <<KV, VersionMap, writes>>
      BY Zenon, <1>1, <2>2 DEF Handle, Record
    <3>2. Puts' \in SUBSET Puts
      BY Zenon, <1>1 DEF Puts
    <3> QED
      BY Zenon, <1>1, <3>1, <3>2, QuietKeeps
  <2> QED
    BY Zenon, <2>1, <2>2
<1>3. \A v : Dead(v) => Dead(v)'
  BY Zenon, <1>1, <1>2 DEF Dead
<1>4. CallInv'
  <2> SUFFICES ASSUME NEW d \in Clnt, op[d].type = "put"
               PROVE  CallInv!(d)'
    BY Zenon, <1>1 DEF CallInv
  <2>1. Dead(op[d].value) => Dead(op[d].value)'
    BY Zenon, <1>1, <1>3 DEF Dead, Written
  <2> QED
    BY Zenon, <1>1, <1>2, <2>1 DEF HistInv, CallInv
<1>5. ReturnsInv'
  BY Zenon, <1>1, <1>2, <1>3 DEF HistInv, ReturnsInv
<1> QED
  BY Zenon, <1>2, <1>4, <1>5 DEF HistInv

\* The clerk returns.  It says ErrVersion for a first attempt only, whose put is
\* dead, and OK for a stored put only.
LEMMA FinishKeeps ==
    ASSUME TypeOK, HistInv, NEW c \in Clnt, Finish(c)
    PROVE  HistInv'
<1> USE DEF srvVars, clntVars, SetCall
<1>1. /\ UNCHANGED <<KV, VersionMap, op, firstAttempt, late, opn, writes>>
      /\ call[c] = "replied" /\ call'[c] = "idle"
      /\ \A d \in Clnt : d # c => call'[d] = call[d] /\ reply'[d] = reply[d]
      /\ op[c] \in Request
  BY Zenon DEF Finish, Return, TypeOK, KvTypeOK
<1>2. /\ VersionsCount' /\ PutsInv' /\ AtMostOnce'
      /\ \A v : Written(v)' <=> Written(v)
  <2>1. Puts' \in SUBSET Puts
    BY Zenon, <1>1 DEF Puts
  <2> QED
    BY Zenon, <1>1, <2>1, QuietKeeps
<1>3. \A v : Dead(v)' <=> Dead(v)
  BY Zenon, <1>1, <1>2 DEF Dead
<1>4. CallInv'
  <2> SUFFICES ASSUME NEW d \in Clnt, op[d].type = "put"
               PROVE  CallInv!(d)'
    BY Zenon, <1>1 DEF CallInv
  <2>1. Dead(op[d].value)' <=> Dead(op[d].value)
    BY <1>1, <1>3 DEF Dead, Written
  <2>2. CASE d # c
    BY Zenon, <1>1, <1>2, <2>1, <2>2 DEF HistInv, CallInv
  <2>3. CASE d = c
    BY Zenon, <1>1, <2>3
  <2> QED
    BY Zenon, <2>2, <2>3
<1>5. ReturnsInv'
  <2> SUFFICES ASSUME NEW ret \in returns' PROVE ReturnsInv!(ret)'
    BY Zenon DEF ReturnsInv
  <2>1. CASE ret \in returns
    <3>1. ReturnsInv!(ret)
      BY Zenon, <2>1 DEF HistInv, ReturnsInv
    <3>2. \A d \in Clnt : call'[d] # "idle" => call[d] # "idle"
      BY Zenon, <1>1
    <3> QED
      BY Zenon, <1>1, <1>2, <1>3, <3>1, <3>2
  <2>2. CASE op[c].type = "put" /\ ret = <<op[c].value, ClerkErr(c)>>
    <3>1. ret[1] = op[c].value /\ ret[2] = ClerkErr(c) /\ op[c] \in Puts
      BY Zenon, <2>2, PutsMember
    <3>2. ret[1] \in 1..opn
      BY Zenon, <3>1 DEF HistInv, PutsInv
    <3>3. ret[2] = OK => Written(ret[1])
      <4>1. ret[2] = OK => reply[c].Err = OK
        BY Zenon, <3>1 DEF ClerkErr, OK, ErrMaybe
      <4> QED
        BY Zenon, <1>1, <2>2, <3>1, <4>1 DEF HistInv, CallInv
    <3>4. ret[2] = ErrVersion => Dead(ret[1])
      <4>1. ret[2] = ErrVersion => reply[c].Err = ErrVersion /\ firstAttempt[c]
        BY Zenon, <2>2, <3>1 DEF ClerkErr, ErrVersion, ErrMaybe
      <4> QED
        BY Zenon, <1>1, <2>2, <3>1, <4>1 DEF HistInv, CallInv
    <3>5. \A d \in Clnt : call'[d] # "idle" /\ op[d].type = "put" => op[d].value # ret[1]
      BY Zenon, <1>1, <2>2, <3>1, OwnPuts
    <3> QED
      BY Zenon, <1>1, <1>2, <1>3, <3>2, <3>3, <3>4, <3>5
  <2> QED
    BY Zenon, <2>1, <2>2 DEF Finish
<1> QED
  BY Zenon, <1>2, <1>4, <1>5 DEF HistInv

\* A new operation: the value of its put is new.
LEMMA BeginKeeps ==
    ASSUME TypeOK, HistInv, NEW c \in Clnt, NEW q \in Request, Begin(c, q), q.clnt = c,
           q.type = "put" => q.value = opn + 1
    PROVE  HistInv'
<1> USE DEF srvVars, SetCall
<1>1. /\ UNCHANGED <<KV, VersionMap, late, writes, returns>>
      /\ opn \in Nat /\ opn' = opn + 1
      /\ call[c] = "idle" /\ call'[c] = "sent" /\ op'[c] = q
      /\ \A d \in Clnt : d # c => /\ call'[d] = call[d] /\ reply'[d] = reply[d]
                                  /\ op'[d] = op[d] /\ firstAttempt'[d] = firstAttempt[d]
  BY HistAssumption DEF Begin, Invoke, TypeOK, KvTypeOK
<1>2. VersionsCount' /\ AtMostOnce' /\ \A v : (Written(v)' <=> Written(v)) /\ (Dead(v)' <=> Dead(v))
  BY <1>1 DEF HistInv, VersionsCount, AtMostOnce, Written, Dead
<1>3. /\ \A k \in Key : \A i \in 1..Len(writes[k]) : writes[k][i] \in 1..opn
      /\ \A r \in Puts : r.type = "put" /\ r.value \in 1..opn
  BY Zenon DEF HistInv, PutsInv
<1>4. \A r \in Puts' : r \in Puts \/ (r = q /\ q.type = "put")
  BY <1>1 DEF Puts
<1>5. PutsInv'
  <2>1. \A k \in Key : \A i \in 1..Len(writes'[k]) : writes'[k][i] \in 1..opn'
    BY <1>1, <1>3
  <2>2. \A d \in Clnt : op'[d].clnt = d
    BY <1>1 DEF HistInv, PutsInv
  <2>3. \A r \in Puts' : r.type = "put" /\ r.value \in 1..opn'
    BY <1>1, <1>3, <1>4
  <2>4. \A r \in Puts' : \A k \in Key : \A i \in 1..Len(writes'[k]) :
            writes'[k][i] = r.value => r.key = k /\ r.version + 1 = i
    <3>1. q.type = "put" => \A k \in Key : \A i \in 1..Len(writes[k]) : writes[k][i] # q.value
      BY <1>1, <1>3
    <3> QED
      BY <1>1, <1>4, <3>1 DEF HistInv, PutsInv
  <2>5. \A p, r \in Puts' : p.value = r.value => p = r
    <3>1. q.type = "put" => \A r \in Puts : r.value # q.value
      BY <1>1, <1>3
    <3> QED
      BY Zenon, <1>4, <3>1 DEF HistInv, PutsInv
  <2> QED
    BY Zenon, <2>1, <2>2, <2>3, <2>4, <2>5 DEF PutsInv
<1>6. q.type = "put" => Dead(q.value)
  <2>1. \A r \in late : r \in Puts
    BY Zenon, PutsMember
  <2> QED
    BY <1>1, <1>3, <2>1 DEF Dead, Written
<1>7. CallInv'
  <2> SUFFICES ASSUME NEW d \in Clnt, op'[d].type = "put"
               PROVE  CallInv!(d)'
    BY Zenon DEF CallInv
  <2>1. CASE d # c
    <3>0. op'[d] = op[d] /\ late' = late /\ writes' = writes
      BY Zenon, <1>1, <2>1
    <3>1. Dead(op[d].value)' <=> Dead(op[d].value)
      BY Zenon, <3>0 DEF Dead, Written
    <3> QED
      BY Zenon, <1>1, <1>2, <2>1, <3>1 DEF HistInv, CallInv
  <2>2. CASE d = c
    <3>1. Dead(op[d].value)'
      BY Zenon, <1>1, <1>6, <2>2 DEF Dead, Written
    <3> QED
      BY Zenon, <1>1, <2>2, <3>1
  <2> QED
    BY Zenon, <2>1, <2>2
<1>8. ReturnsInv'
  <2> SUFFICES ASSUME NEW ret \in returns PROVE ReturnsInv!(ret)'
    BY Zenon, <1>1 DEF ReturnsInv
  <2>1. ReturnsInv!(ret)
    BY Zenon DEF HistInv, ReturnsInv
  <2>2. ret[1] \in 1..opn'
    BY <1>1, <2>1
  <2>3. q.type = "put" => q.value # ret[1]
    BY <1>1, <2>1
  <2> QED
    BY <1>1, <1>2, <2>1, <2>2, <2>3
<1> QED
  BY Zenon, <1>2, <1>5, <1>7, <1>8 DEF HistInv

\* HistInv is inductive, relative to the types.
LEMMA InvStep == TypeOK /\ HistInv /\ [Next]_vars => HistInv'
<1> SUFFICES ASSUME TypeOK, HistInv, [Next]_vars PROVE HistInv'
  OBVIOUS
<1>1. CASE Service
  BY Zenon, <1>1, TransportKeeps, ExecuteKeeps, LateKeeps, FinishKeeps DEF Service
<1>2. ASSUME NEW c \in Clnt, Get(c) PROVE HistInv'
  <2>1. PICK k \in Key : Begin(c, GetArgs(c, k))
    BY Zenon, <1>2 DEF Get
  <2>2. GetArgs(c, k) \in Request /\ GetArgs(c, k).clnt = c /\ GetArgs(c, k).type # "put"
    BY Zenon, ArgsType DEF GetArgs
  <2> QED
    BY Zenon, <2>1, <2>2, BeginKeeps
<1>3. ASSUME NEW c \in Clnt, Put(c) PROVE HistInv'
  <2>1. PICK k \in Key, n \in 0..MaxVersion : PutAt(c, k, n)
    BY Zenon, <1>3 DEF Put
  <2>2. opn + 1 \in Value /\ n \in Nat
    BY <2>1, HistAssumption DEF PutAt, Begin, TypeOK
  <2> DEFINE q == PutArgs(c, k, opn + 1, n)
  <2>3. q \in Request /\ q.clnt = c /\ q.value = opn + 1
    BY Zenon, <2>2, ArgsType DEF PutArgs
  <2> QED
    BY Zenon, <2>1, <2>3, BeginKeeps DEF PutAt
<1>4. CASE UNCHANGED vars
  <2>1. UNCHANGED <<KV, VersionMap, writes, opn, op, late, call, reply, firstAttempt, returns>>
    BY Zenon, <1>4 DEF vars, kvVars, histVars
  <2> QED
    <3>1. VersionsCount' /\ AtMostOnce'
      BY <2>1 DEF HistInv, VersionsCount, AtMostOnce
    <3>2. PutsInv'
      BY <2>1 DEF HistInv, PutsInv, Puts
    <3>3. CallInv'
      BY Zenon, <2>1 DEF HistInv, CallInv, Dead, Written
    <3>4. ReturnsInv'
      BY Zenon, <2>1 DEF HistInv, ReturnsInv, Dead, Written
    <3> QED
      BY Zenon, <3>1, <3>2, <3>3, <3>4 DEF HistInv
<1> QED
  BY Zenon, <1>1, <1>2, <1>3, <1>4 DEF Next

\* HistInv holds in every state.
THEOREM HistInvariant == Spec => []HistInv
<1>1. Init => HistInv
  <2> SUFFICES ASSUME Init PROVE HistInv
    OBVIOUS
  <2>1. PICK k \in Key : op = [c \in Clnt |-> GetArgs(c, k)]
    BY Zenon DEF Init, KvInit
  <2>2. \A c \in Clnt : op[c].clnt = c /\ op[c].type = "get"
    BY Zenon, <2>1 DEF GetArgs
  <2>3. Puts = {}
    BY Zenon, <2>2, PutsMember DEF Init, KvInit
  <2>4. \A l \in Key : writes[l] = <<>> /\ Len(writes[l]) = 0 /\ 1..Len(writes[l]) = {}
    BY DEF Init
  <2> QED
    BY Zenon, <2>2, <2>3, <2>4
       DEF Init, KvInit, SrvInit, HistInv, VersionsCount, PutsInv, CallInv, ReturnsInv, AtMostOnce
<1> QED
  BY <1>1, InvStep, TypeCorrect, PTL DEF Spec

\* No put is stored twice, whatever the network does to its RPCs.
THEOREM PutsAtMostOnce == Spec => []AtMostOnce
<1>1. HistInv => AtMostOnce
  BY Zenon DEF HistInv
<1> QED
  BY <1>1, HistInvariant, PTL

\* OK means stored, ErrVersion means never stored.
THEOREM AnswersAreExact == Spec => []ExactAnswers
<1>1. HistInv => ExactAnswers
  BY Zenon DEF HistInv, ReturnsInv, ExactAnswers, Dead
<1> QED
  BY <1>1, HistInvariant, PTL

\* The version of a key counts its stores and its value is the last one.
THEOREM VersionsCountStores == Spec => []VersionsCount
<1>1. HistInv => VersionsCount
  BY Zenon DEF HistInv
<1> QED
  BY <1>1, HistInvariant, PTL

-----------------------------------------------------------------------------
(* Clients that put with versions they have read *)

\* They are clients of the general kind.
LEMMA KnownIsNext == [NextKnown]_vars => [Next]_vars
<1>1. \A c \in Clnt : PutKnown(c) => Put(c)
  BY Zenon DEF PutKnown, Put
<1> QED
  BY Zenon, <1>1 DEF NextKnown, Next

\* A run of the handler leaves versions as they are or moves them on, past the
\* version of its own put.
LEMMA VersionsGrow ==
    ASSUME TypeOK, NEW q \in Request, Handle(q)
    PROVE  /\ \A r \in Request : Spent(r) => Spent(r)'
           /\ \A r \in Request : r.version <= VersionMap[r.key] => r.version <= VersionMap'[r.key]
           /\ q.type = "put" /\ q.version <= VersionMap[q.key] => Spent(q)'
<1>1. \A r \in Request : r.key \in Key /\ r.version \in Nat
  BY Zenon DEF Request
<1>2. VersionMap \in [Key -> Nat]
  BY Zenon DEF TypeOK, KvTypeOK
<1>3. CASE Installs(q)
  <2>1. /\ VersionMap'[q.key] = VersionMap[q.key] + 1 /\ q.version = VersionMap[q.key]
        /\ \A k \in Key : k # q.key => VersionMap'[k] = VersionMap[k]
    BY Zenon, <1>1, <1>2, <1>3 DEF Handle, Installs
  <2>2. \A k \in Key : VersionMap[k] \in Nat /\ VersionMap'[k] \in Nat /\ VersionMap[k] <= VersionMap'[k]
    BY <1>1, <1>2, <2>1
  <2> QED
    BY <1>1, <2>1, <2>2 DEF Spent
<1>4. CASE ~Installs(q)
  <2>1. VersionMap' = VersionMap
    BY Zenon, <1>4 DEF Handle, srvVars
  <2>2. q.type = "put" => q.version # VersionMap[q.key]
    BY Zenon, <1>4 DEF Installs
  <2> QED
    BY <1>1, <1>2, <2>1, <2>2 DEF Spent
<1> QED
  BY Zenon, <1>3, <1>4

\* The answer to a put with a version that the key has had.
LEMMA KnownReply ==
    ASSUME TypeOK, NEW r \in Request, r.type = "put", r.version <= VersionMap[r.key]
    PROVE  HandlerReply(r) \in {PutReply(OK), PutReply(ErrVersion)}
<1>1. r.version \in Nat /\ VersionMap[r.key] \in Nat
  BY Zenon DEF Request, TypeOK, KvTypeOK
<1>2. ~Installs(r) => VersionMap[r.key] # 0
  BY <1>1 DEF Installs
<1> QED
  BY Zenon, <1>2 DEF HandlerReply, PutErr

\* The network's and the clerks' own steps keep the invariant.
LEMMA TransportKnown ==
    ASSUME TypeOK, HistInv, KnownInv, NEW c \in Clnt, Transport(c), UNCHANGED histVars
    PROVE  KnownInv'
<1> USE DEF srvVars, clntVars, histVars, SetCall
<1>1. UNCHANGED <<VersionMap, op, returns>>
  BY Zenon DEF Transport, Dispatch, LoseRequest, Abandon, LoseReply, Deliver, Enable, Resend
<1>2. \A d \in Clnt :
        /\ call'[d] \in {"done", "replied", "idle"} => call[d] \in {"done", "replied", "idle"}
        /\ call'[d] \in {"done", "replied"} => call[d] \in {"done", "replied"} /\ reply'[d] = reply[d]
  BY Zenon DEF Transport, Dispatch, LoseRequest, Abandon, LoseReply, Deliver, Enable, Resend,
         TypeOK, KvTypeOK
<1>3. \A r \in late' : r \in late \/ (r = op[c] /\ r.type = "put")
  BY Zenon DEF Transport, Dispatch, LoseRequest, Abandon, LoseReply, Deliver, Enable, Resend
<1>4. Puts' \in SUBSET Puts
  BY Zenon, <1>1, <1>3 DEF Puts
<1>5. op[c].clnt = c
  BY Zenon DEF HistInv, PutsInv
<1>6. \A r : Spent(r)' <=> Spent(r)
  BY Zenon, <1>1 DEF Spent
<1>7. \A r \in late' : Spent(r)' \/ op'[r.clnt] = r
  BY Zenon, <1>1, <1>3, <1>5, <1>6 DEF KnownInv
<1>8. \A d \in Clnt : op'[d].type = "put" =>
        /\ call'[d] \in {"done", "replied", "idle"} => Spent(op[d])'
        /\ call'[d] \in {"done", "replied"} => reply'[d] \in {PutReply(OK), PutReply(ErrVersion)}
  <2>1. \A d \in Clnt : Spent(op[d])' <=> Spent(op[d])
    BY Zenon, <1>1 DEF Spent
  <2> QED
    BY Zenon, <1>1, <1>2, <2>1 DEF KnownInv
<1>9. \A ret \in returns' : \A r \in Puts' : r.value = ret[1] => Spent(r)'
  BY Zenon, <1>1, <1>4, <1>6 DEF KnownInv
<1> QED
  BY Zenon, <1>1, <1>4, <1>7, <1>8, <1>9 DEF KnownInv

\* So does a run of the handler, for the client's current RPC or left behind.
LEMMA RunKnown ==
    ASSUME TypeOK, HistInv, KnownInv, NEW q \in Request, Handle(q),
           UNCHANGED <<op, returns>>, late' \in SUBSET late,
           \A c \in Clnt :
              \/ call'[c] = call[c] /\ reply'[c] = reply[c]
              \/ op[c] = q /\ reply'[c] = HandlerReply(q)
    PROVE  KnownInv'
<1>1. Puts' \in SUBSET Puts /\ Puts \subseteq Request
  BY Zenon, PutsMember DEF Puts
<1>2. \A c \in Clnt : op[c] \in Request /\ (op[c].type = "put" => op[c] \in Puts)
  BY Zenon, PutsMember DEF TypeOK, KvTypeOK
<1>3. \A r \in Puts' : r.version <= VersionMap'[r.key]
  BY Zenon, <1>1, VersionsGrow DEF KnownInv
<1>4. \A r \in late' : r \in Puts /\ (Spent(r)' \/ op'[r.clnt] = r)
  BY Zenon, <1>1, PutsMember, VersionsGrow DEF KnownInv
<1>5. ASSUME NEW c \in Clnt, op'[c].type = "put"
      PROVE  /\ call'[c] \in {"done", "replied", "idle"} => Spent(op[c])'
             /\ call'[c] \in {"done", "replied"} => reply'[c] \in {PutReply(OK), PutReply(ErrVersion)}
  <2>1. op'[c] = op[c] /\ op[c].type = "put" /\ op[c].version <= VersionMap[op[c].key]
    BY Zenon, <1>2, <1>5 DEF KnownInv
  <2>2. \A r \in Request : r = op[c] /\ Spent(r)' => Spent(op[c])'
    BY Zenon, <2>1 DEF Spent
  <2>3. CASE call'[c] = call[c] /\ reply'[c] = reply[c]
    BY Zenon, <1>2, <2>1, <2>2, <2>3, VersionsGrow DEF KnownInv
  <2>4. CASE op[c] = q /\ reply'[c] = HandlerReply(q)
    <3>1. Spent(q)' /\ HandlerReply(q) \in {PutReply(OK), PutReply(ErrVersion)}
      BY Zenon, <2>1, <2>4, VersionsGrow, KnownReply
    <3> QED
      BY Zenon, <2>2, <2>4, <3>1
  <2> QED
    BY Zenon, <2>3, <2>4
<1>6. \A ret \in returns' : \A r \in Puts' : r.value = ret[1] => Spent(r)'
  BY Zenon, <1>1, VersionsGrow DEF KnownInv
<1> QED
  BY Zenon, <1>3, <1>4, <1>5, <1>6 DEF KnownInv

\* The clerk returns: its put is spent.
LEMMA FinishKnown ==
    ASSUME TypeOK, HistInv, KnownInv, NEW c \in Clnt, Finish(c)
    PROVE  KnownInv'
<1>1. /\ UNCHANGED <<VersionMap, op, late>>
      /\ call[c] = "replied" /\ call'[c] = "idle"
      /\ \A d \in Clnt : d # c => call'[d] = call[d] /\ reply'[d] = reply[d]
  BY Zenon DEF Finish, Return, SetCall, srvVars, clntVars, TypeOK, KvTypeOK
<1>2. Puts' = Puts
  BY Zenon, <1>1 DEF Puts
<1>3. \A r : Spent(r)' <=> Spent(r)
  BY Zenon, <1>1 DEF Spent
<1>4. ASSUME NEW d \in Clnt, op'[d].type = "put"
      PROVE  /\ call'[d] \in {"done", "replied", "idle"} => Spent(op[d])'
             /\ call'[d] \in {"done", "replied"} => reply'[d] \in {PutReply(OK), PutReply(ErrVersion)}
  <2>1. Spent(op[d])' <=> Spent(op[d])
    BY Zenon, <1>1 DEF Spent
  <2> QED
    BY Zenon, <1>1, <1>4, <2>1 DEF KnownInv
<1>5. ASSUME NEW ret \in returns', NEW r \in Puts, r.value = ret[1]
      PROVE  Spent(r)
  <2>1. CASE ret \in returns
    BY Zenon, <1>5, <2>1 DEF KnownInv
  <2>2. CASE op[c].type = "put" /\ ret = <<op[c].value, ClerkErr(c)>>
    <3>1. op[c] \in Puts /\ ret[1] = op[c].value
      BY Zenon, <2>2, PutsMember
    <3>2. r = op[c]
      <4>1. \A p, q \in Puts : p.value = q.value => p = q
        BY Zenon DEF HistInv, PutsInv
      <4> QED
        BY Zenon, <1>5, <3>1, <4>1
    <3> QED
      BY Zenon, <1>1, <2>2, <3>2 DEF KnownInv
  <2> QED
    BY Zenon, <2>1, <2>2 DEF Finish
<1> QED
  BY Zenon, <1>1, <1>2, <1>3, <1>4, <1>5 DEF KnownInv

\* A new operation: the client's last put is spent, and the new one is not
\* among those that returned.
LEMMA BeginKnown ==
    ASSUME TypeOK, HistInv, KnownInv, NEW c \in Clnt, NEW q \in Request, Begin(c, q),
           q.type = "put" => q.value = opn + 1 /\ q.version <= VersionMap[q.key]
    PROVE  KnownInv'
<1>1. /\ UNCHANGED <<VersionMap, late, returns>> /\ opn \in Nat
      /\ call[c] = "idle" /\ call'[c] = "sent" /\ op'[c] = q
      /\ \A d \in Clnt : d # c =>
            call'[d] = call[d] /\ reply'[d] = reply[d] /\ op'[d] = op[d]
  BY HistAssumption DEF Begin, Invoke, SetCall, srvVars, TypeOK, KvTypeOK
<1>2. \A r \in Puts' : r \in Puts \/ (r = q /\ q.type = "put")
  BY Zenon, <1>1 DEF Puts
<1>3. \A r : Spent(r)' <=> Spent(r)
  BY Zenon, <1>1 DEF Spent
<1>4. \A r \in late' : Spent(r)' \/ op'[r.clnt] = r
  <2> SUFFICES ASSUME NEW r \in late, ~Spent(r) PROVE op'[r.clnt] = r
    BY Zenon, <1>1, <1>3
  <2>0. r \in Puts /\ r \in Request /\ op[r.clnt] = r
    BY Zenon, PutsMember DEF KnownInv
  <2>1. r.type = "put" /\ op[r.clnt] = r /\ r.clnt \in Clnt
    BY Zenon, <2>0 DEF HistInv, PutsInv, Request
  <2>2. r.clnt # c
    BY Zenon, <1>1, <2>1 DEF KnownInv
  <2> QED
    BY Zenon, <1>1, <2>1, <2>2
<1>5. ASSUME NEW d \in Clnt, op'[d].type = "put"
      PROVE  /\ call'[d] \in {"done", "replied", "idle"} => Spent(op[d])'
             /\ call'[d] \in {"done", "replied"} => reply'[d] \in {PutReply(OK), PutReply(ErrVersion)}
  <2>1. CASE d = c
    BY Zenon, <1>1, <2>1
  <2>2. CASE d # c
    <3>1. Spent(op[d])' <=> Spent(op[d])
      BY Zenon, <1>1, <2>2 DEF Spent
    <3> QED
      BY Zenon, <1>1, <1>5, <2>2, <3>1 DEF KnownInv
  <2> QED
    BY Zenon, <2>1, <2>2
<1>6. ASSUME NEW ret \in returns, NEW r \in Puts', r.value = ret[1]
      PROVE  Spent(r)
  <2>1. ret[1] \in 1..opn
    BY Zenon DEF HistInv, ReturnsInv
  <2>2. ~(r = q /\ q.type = "put")
    BY <1>1, <1>6, <2>1
  <2> QED
    BY Zenon, <1>2, <1>6, <2>2 DEF KnownInv
<1>7. \A r \in Puts' : r.version <= VersionMap'[r.key]
  BY Zenon, <1>1, <1>2 DEF KnownInv
<1> QED
  BY Zenon, <1>1, <1>3, <1>4, <1>5, <1>6, <1>7 DEF KnownInv

\* What clients of this kind begin, in one form for gets and puts.
LEMMA KnownBegin ==
    ASSUME TypeOK, NEW c \in Clnt, Get(c) \/ PutKnown(c)
    PROVE  \E q \in Request :
              /\ Begin(c, q) /\ q.clnt = c /\ q.version \in 0..MaxVersion
              /\ q.type = "put" => q.value = opn + 1 /\ q.version <= VersionMap[q.key]
<1>1. CASE Get(c)
  <2>1. PICK k \in Key : Begin(c, GetArgs(c, k))
    BY Zenon, <1>1 DEF Get
  <2>2. 0 \in 0..MaxVersion
    BY HistAssumption
  <2>3. /\ GetArgs(c, k) \in Request /\ GetArgs(c, k).clnt = c /\ GetArgs(c, k).type # "put"
        /\ GetArgs(c, k).version = 0
    BY Zenon, ArgsType DEF GetArgs
  <2> QED
    BY Zenon, <2>1, <2>2, <2>3
<1>2. CASE PutKnown(c)
  <2>1. PICK k \in Key, n \in 0..MaxVersion : n <= VersionMap[k] /\ PutAt(c, k, n)
    BY Zenon, <1>2 DEF PutKnown
  <2>2. opn + 1 \in Value /\ n \in Nat
    BY <2>1, HistAssumption DEF PutAt, Begin, TypeOK
  <2> DEFINE q == PutArgs(c, k, opn + 1, n)
  <2>3. q \in Request /\ q.clnt = c /\ q.value = opn + 1 /\ q.version = n /\ q.key = k
    BY Zenon, <2>2, ArgsType DEF PutArgs
  <2> QED
    BY Zenon, <2>1, <2>3 DEF PutAt
<1> QED
  BY Zenon, <1>1, <1>2

\* KnownInv is inductive, relative to the types and HistInv.
LEMMA KnownStep == TypeOK /\ HistInv /\ KnownInv /\ [NextKnown]_vars => KnownInv'
<1> SUFFICES ASSUME TypeOK, HistInv, KnownInv, [NextKnown]_vars PROVE KnownInv'
  OBVIOUS
<1>1. ASSUME NEW c \in Clnt, Execute(c), UNCHANGED <<opn, returns>> PROVE KnownInv'
  <2>1. /\ op[c] \in Request /\ Handle(op[c]) /\ UNCHANGED <<op, late>>
        /\ reply'[c] = HandlerReply(op[c])
        /\ \A d \in Clnt : d # c => call'[d] = call[d] /\ reply'[d] = reply[d]
    BY Zenon, <1>1 DEF Execute, SetCall, clntVars, TypeOK, KvTypeOK
  <2> QED
    BY Zenon, <1>1, <2>1, RunKnown
<1>2. ASSUME NEW r \in late, ExecuteLate(r), UNCHANGED <<opn, returns>> PROVE KnownInv'
  <2>1. r \in Request /\ Handle(r) /\ UNCHANGED <<op, call, reply>> /\ late' \in SUBSET late
    BY Zenon, <1>2 DEF ExecuteLate, clntVars, TypeOK, KvTypeOK
  <2> QED
    BY Zenon, <1>2, <2>1, RunKnown
<1>3. ASSUME NEW c \in Clnt, Get(c) \/ PutKnown(c) PROVE KnownInv'
  BY Zenon, <1>3, KnownBegin, BeginKnown
<1>4. CASE UNCHANGED vars
  <2>1. UNCHANGED <<VersionMap, op, late, call, reply, returns>>
    BY Zenon, <1>4 DEF vars, kvVars, histVars
  <2> QED
    BY <2>1 DEF KnownInv, Puts, Spent
<1>5. CASE Service
  BY Zenon, <1>1, <1>2, <1>5, TransportKnown, FinishKnown DEF Service
<1> QED
  BY Zenon, <1>3, <1>4, <1>5 DEF NextKnown

\* An answered put is spent: the server is past its version.
THEOREM KnownInvariant == SpecKnown => [](TypeOK /\ HistInv /\ KnownInv)
<1>1. Init => KnownInv
  <2> SUFFICES ASSUME Init PROVE KnownInv
    OBVIOUS
  <2>0. PICK k \in Key : op = [c \in Clnt |-> GetArgs(c, k)]
    BY Zenon DEF Init, KvInit
  <2>1. \A c \in Clnt : op[c].type = "get"
    BY Zenon, <2>0 DEF GetArgs
  <2>2. Puts = {}
    BY Zenon, <2>1, PutsMember DEF Init, KvInit
  <2> QED
    BY Zenon, <2>1, <2>2 DEF Init, KvInit, KnownInv
<1>2. SpecKnown => Spec
  BY KnownIsNext, PTL DEF SpecKnown, Spec
<1> QED
  BY <1>1, <1>2, KnownStep, TypeCorrect, HistInvariant, PTL DEF SpecKnown

\* Only a put that is not spent adds to the history.
LEMMA StoreStep ==
    ASSUME TypeOK, HistInv, KnownInv, NextKnown, NEW k \in Key, writes'[k] # writes[k]
    PROVE  \E r \in Puts : ~Spent(r) /\ writes'[k][Len(writes'[k])] = r.value
<1>1. PICK r \in Request : r \in Puts /\ Installs(r) /\ Record(r)
  <2>1. ASSUME NEW c \in Clnt, Get(c) \/ PutKnown(c) PROVE writes' = writes
    BY Zenon, <2>1 DEF Get, PutKnown, PutAt, Begin
  <2>2. CASE Service
    <3>1. PICK r : Record(r) /\ (r \in late \/ \E c \in Clnt : r = op[c])
      BY Zenon, <2>2 DEF Service, Finish, histVars
    <3>2. Installs(r)
      BY Zenon, <3>1 DEF Record
    <3>3. r \in Puts
      BY Zenon, <3>1, <3>2, PutsMember DEF Installs
    <3> QED
      BY Zenon, <3>1, <3>2, <3>3, PutsMember
  <2> QED
    BY Zenon, <2>1, <2>2 DEF NextKnown
<1>2. r.key \in Key /\ r.value \in Value /\ r.version \in Nat /\ r.version = VersionMap[r.key]
  BY Zenon, <1>1 DEF Request, Installs
<1>3. ~Spent(r)
  BY <1>2 DEF Spent
<1>4. k = r.key /\ writes'[k] = Append(writes[k], r.value) /\ writes[k] \in Seq(Value)
  BY Zenon, <1>1, <1>2 DEF Record, TypeOK
<1>5. writes'[k][Len(writes'[k])] = r.value
  BY <1>2, <1>4, AppendFacts
<1> QED
  BY Zenon, <1>1, <1>3, <1>5

\* A put that returned is never stored any more, though the network may have left
\* any number of its handlers behind.
THEOREM ReturnedPutsRest == SpecKnown => NoLateEffect
<1> DEFINE Rests == \A k \in Key : writes'[k] # writes[k] =>
                        \A e \in Err : <<writes'[k][Len(writes'[k])], e>> \notin returns
<1>1. TypeOK /\ HistInv /\ KnownInv /\ [NextKnown]_vars => [Rests]_vars
  <2> SUFFICES ASSUME TypeOK, HistInv, KnownInv, NextKnown, NEW k \in Key,
                      writes'[k] # writes[k], NEW e \in Err,
                      <<writes'[k][Len(writes'[k])], e>> \in returns
               PROVE  FALSE
    BY Zenon
  <2>1. PICK r \in Puts : ~Spent(r) /\ writes'[k][Len(writes'[k])] = r.value
    BY Zenon, StoreStep
  <2>2. PICK ret \in returns : ret[1] = r.value
    BY Zenon, <2>1
  <2> QED
    BY Zenon, <2>1, <2>2 DEF KnownInv
<1> QED
  BY <1>1, KnownInvariant, PTL DEF SpecKnown, NoLateEffect

-----------------------------------------------------------------------------
(* Linearizability: every step is one of KvModel's, or changes nothing there *)

\* Two functions that differ in one place ...
LEMMA FunOnce ==
    ASSUME NEW S, NEW f, f = [x \in S |-> f[x]], NEW g, g = [x \in S |-> g[x]],
           NEW a \in S, \A x \in S : x # a => g[x] = f[x]
    PROVE  g = [f EXCEPT ![a] = g[a]]
<1>1. [f EXCEPT ![a] = g[a]] = [x \in S |-> IF x = a THEN g[a] ELSE f[x]]
  BY Zenon
<1>2. \A x \in S : g[x] = IF x = a THEN g[a] ELSE f[x]
  BY Zenon
<1> QED
  BY Zenon, <1>1, <1>2

\* ... or nowhere.
LEMMA FunSame ==
    ASSUME NEW S, NEW f, f = [x \in S |-> f[x]], NEW g, g = [x \in S |-> g[x]],
           \A x \in S : g[x] = f[x]
    PROVE  g = f
BY Zenon

\* The abstract variables are functions.
LEMMA AbsFun ==
    /\ absState = [k \in Key |-> absState[k]] /\ absState' = [k \in Key |-> absState'[k]]
    /\ absPending = [c \in Clnt |-> absPending[c]] /\ absPending' = [c \in Clnt |-> absPending'[c]]
    /\ absEffect = [c \in Clnt |-> absEffect[c]] /\ absEffect' = [c \in Clnt |-> absEffect'[c]]
    /\ absOutput = [c \in Clnt |-> absOutput[c]] /\ absOutput' = [c \in Clnt |-> absOutput'[c]]
<1>1. absState = [k \in Key |-> absState[k]] /\ absState' = [k \in Key |-> absState'[k]]
  BY Zenon DEF absState
<1>2. absPending = [c \in Clnt |-> absPending[c]] /\ absPending' = [c \in Clnt |-> absPending'[c]]
  BY Zenon DEF absPending
<1>3. absEffect = [c \in Clnt |-> absEffect[c]] /\ absEffect' = [c \in Clnt |-> absEffect'[c]]
  BY Zenon DEF absEffect
<1>4. absOutput = [c \in Clnt |-> absOutput[c]] /\ absOutput' = [c \in Clnt |-> absOutput'[c]]
  BY Zenon DEF absOutput
<1> QED
  BY Zenon, <1>1, <1>2, <1>3, <1>4

\* What a client sees of its operation.
Sees(c) == <<absPending[c], absEffect[c], absOutput[c]>>

\* A step that no client sees and that leaves the maps alone is a stutter.
LEMMA Unseen ==
    ASSUME UNCHANGED <<KV, VersionMap, op>>, \A c \in Clnt : Sees(c)' = Sees(c)
    PROVE  UNCHANGED KvModel!vars
<1>1. \A c \in Clnt : /\ absPending'[c] = absPending[c] /\ absEffect'[c] = absEffect[c]
                      /\ absOutput'[c] = absOutput[c]
  BY Zenon DEF Sees
<1>2. absState' = absState
  BY Zenon DEF absState
<1>3. absPending' = absPending /\ absEffect' = absEffect /\ absOutput' = absOutput
  BY Zenon, <1>1, AbsFun, FunSame
<1> QED
  BY Zenon, <1>2, <1>3 DEF KvModel!vars

\* A client whose RPC stays as it is sees nothing, if its put is not stored.
LEMMA SeesSame ==
    ASSUME NEW c \in Clnt, call'[c] = call[c], reply'[c] = reply[c], op'[c] = op[c],
           op[c].type = "put" => (Written(op[c].value)' <=> Written(op[c].value))
    PROVE  Sees(c)' = Sees(c)
<1>1. absPending'[c] = absPending[c]
  BY Zenon DEF absPending
<1>2. Read(c)' <=> Read(c)
  BY Zenon DEF Read
<1>3. absOutput'[c] = absOutput[c]
  BY Zenon, <1>2 DEF absOutput
<1>4. absEffect'[c] = absEffect[c]
  BY Zenon, <1>2 DEF absEffect
<1> QED
  BY Zenon, <1>1, <1>3, <1>4 DEF Sees

\* A step that only the client c sees, in KvModel's terms.
LEMMA SeenBy ==
    ASSUME NEW c \in Clnt, \A d \in Clnt : d # c => Sees(d)' = Sees(d)
    PROVE  /\ absPending' = [absPending EXCEPT ![c] = absPending'[c]]
           /\ absEffect' = [absEffect EXCEPT ![c] = absEffect'[c]]
           /\ absOutput' = [absOutput EXCEPT ![c] = absOutput'[c]]
           /\ absPending'[c] = absPending[c] => absPending' = absPending
           /\ absOutput'[c] = absOutput[c] => absOutput' = absOutput
<1>1. \A d \in Clnt : d # c =>
        /\ absPending'[d] = absPending[d] /\ absEffect'[d] = absEffect[d]
        /\ absOutput'[d] = absOutput[d]
  BY Zenon DEF Sees
<1>2. absPending' = [absPending EXCEPT ![c] = absPending'[c]]
  BY Zenon, <1>1, AbsFun, FunOnce
<1>3. absEffect' = [absEffect EXCEPT ![c] = absEffect'[c]]
  BY Zenon, <1>1, AbsFun, FunOnce
<1>4. absOutput' = [absOutput EXCEPT ![c] = absOutput'[c]]
  BY Zenon, <1>1, AbsFun, FunOnce
<1>5. absPending'[c] = absPending[c] => absPending' = absPending
  <2> SUFFICES ASSUME absPending'[c] = absPending[c] PROVE absPending' = absPending
    OBVIOUS
  <2>1. \A d \in Clnt : absPending'[d] = absPending[d]
    BY Zenon, <1>1
  <2> QED
    BY Zenon, <2>1, AbsFun, FunSame
<1>6. absOutput'[c] = absOutput[c] => absOutput' = absOutput
  <2> SUFFICES ASSUME absOutput'[c] = absOutput[c] PROVE absOutput' = absOutput
    OBVIOUS
  <2>1. \A d \in Clnt : absOutput'[d] = absOutput[d]
    BY Zenon, <1>1
  <2> QED
    BY Zenon, <2>1, AbsFun, FunSame
<1> QED
  BY Zenon, <1>2, <1>3, <1>4, <1>5, <1>6

\* The network's and the clerks' own steps: a get whose reply is lost will read
\* again, the others change nothing.
LEMMA TransportRefines ==
    ASSUME TypeOK, NEW c \in Clnt, Transport(c), UNCHANGED histVars
    PROVE  KvModel!Reread(c) \/ UNCHANGED KvModel!vars
<1>1. /\ UNCHANGED <<KV, VersionMap, op, writes>>
      /\ \A d \in Clnt : d # c => call'[d] = call[d] /\ reply'[d] = reply[d]
  BY Zenon DEF Transport, Dispatch, LoseRequest, Abandon, LoseReply, Deliver, Enable, Resend,
         SetCall, srvVars, clntVars, histVars, TypeOK, KvTypeOK
<1>2. \A d \in Clnt : Written(op[d].value)' <=> Written(op[d].value)
  BY Zenon, <1>1 DEF Written
<1>3. \A d \in Clnt : d # c => Sees(d)' = Sees(d)
  BY Zenon, <1>1, <1>2, SeesSame
<1>4. op[c].type \in {"get", "put"} /\ absState' = absState
  BY Zenon, <1>1 DEF TypeOK, KvTypeOK, Request, absState
<1>5. CASE LoseReply(c) /\ op[c].type = "get"
  <2>1. call[c] = "done" /\ call'[c] = "failed"
    BY Zenon, <1>5 DEF LoseReply, SetCall, TypeOK, KvTypeOK
  <2>2. Read(c) /\ ~Read(c)'
    BY Zenon, <1>5, <2>1 DEF Read
  <2>3. absPending[c] = TRUE /\ absPending'[c] = TRUE
    BY Zenon, <2>1 DEF absPending
  <2>4. absEffect[c] = TRUE /\ absEffect'[c] = FALSE
    BY Zenon, <1>1, <1>5, <2>2 DEF absEffect
  <2>5. absOutput'[c] = KvModel!NoOutput
    BY Zenon, <2>1, <2>2 DEF absOutput, PutReply, KvModel!NoOutput, OK
  <2> QED
    BY Zenon, <1>1, <1>3, <1>4, <1>5, <2>3, <2>4, <2>5, SeenBy DEF KvModel!Reread
<1>6. CASE ~(LoseReply(c) /\ op[c].type = "get")
  <2>1. /\ call'[c] = "idle" <=> call[c] = "idle"
        /\ call[c] = "idle" => reply'[c] = reply[c]
        /\ op[c].type = "get" =>
              /\ call'[c] \in {"done", "replied"} <=> call[c] \in {"done", "replied"}
              /\ reply'[c] = reply[c]
    BY Zenon, <1>6 DEF Transport, Dispatch, LoseRequest, Abandon, LoseReply, Deliver, Enable,
         Resend, SetCall, TypeOK, KvTypeOK
  <2>2. Read(c)' <=> Read(c)
    BY Zenon, <1>1, <2>1 DEF Read
  <2>3. absPending'[c] = absPending[c]
    BY Zenon, <2>1 DEF absPending
  <2>4. absOutput'[c] = absOutput[c]
    BY Zenon, <2>1, <2>2 DEF absOutput, Read
  <2>5. absEffect'[c] = absEffect[c]
    BY Zenon, <1>1, <1>2, <2>1, <2>2 DEF absEffect
  <2>6. \A d \in Clnt : Sees(d)' = Sees(d)
    BY Zenon, <1>3, <2>3, <2>4, <2>5 DEF Sees
  <2> QED
    BY Zenon, <1>1, <2>6, Unseen
<1> QED
  BY Zenon, <1>5, <1>6

\* A put that the server is about to store has not been stored.
LEMMA NotYetWritten ==
    ASSUME TypeOK, HistInv, NEW r \in Puts, Installs(r)
    PROVE  ~Written(r.value)
<1> SUFFICES ASSUME NEW k \in Key, NEW i \in 1..Len(writes[k]), writes[k][i] = r.value
             PROVE  FALSE
  BY Zenon DEF Written
<1>1. r.key = k /\ r.version + 1 = i
  BY Zenon DEF HistInv, PutsInv
<1>2. r.version = Len(writes[k])
  BY Zenon, <1>1 DEF Installs, HistInv, VersionsCount
<1>3. Len(writes[k]) \in Nat
  BY DEF TypeOK
<1> QED
  BY <1>1, <1>2, <1>3

\* A put is stored: it takes effect, once, and only its own client sees it.
LEMMA StoreRefines ==
    ASSUME TypeOK, HistInv, NEW c \in Clnt, op[c].type = "put", Installs(op[c]),
           Handle(op[c]), Record(op[c]), UNCHANGED <<op, opn>>, late' \in SUBSET late,
           call[c] # "idle", call'[c] # "idle",
           \A d \in Clnt : d # c => call'[d] = call[d] /\ reply'[d] = reply[d]
    PROVE  KvModel!StepPut(c)
<1> DEFINE k == op[c].key
<1>1. op[c] \in Puts /\ k \in Key /\ op[c].value \in Value
  BY Zenon, PutsMember DEF TypeOK, KvTypeOK, Request
<1>2. ~Written(op[c].value) /\ \A v : Written(v)' <=> Written(v) \/ v = op[c].value
  BY Zenon, <1>1, NotYetWritten, StoreKeeps
<1>3. \A d \in Clnt : d # c => Sees(d)' = Sees(d)
  <2> SUFFICES ASSUME NEW d \in Clnt, d # c PROVE Sees(d)' = Sees(d)
    OBVIOUS
  <2>1. op[d].type = "put" => op[d].value # op[c].value
    BY Zenon, OwnPuts
  <2>2. op[d].type = "put" => (Written(op[d].value)' <=> Written(op[d].value))
    <3>1. PICK v : v = op[d].value
      BY Zenon
    <3>2. op[d].type = "put" => (Written(v)' <=> Written(v))
      BY Zenon, <1>2, <2>1, <3>1
    <3>3. op'[d].value = v
      BY Zenon, <3>1
    <3>4. Written(op[d].value)' <=> Written(v)'
      BY Zenon, <3>3 DEF Written
    <3> QED
      BY Zenon, <3>1, <3>2, <3>4
  <2> QED
    BY Zenon, <2>2, SeesSame
<1>4. /\ KV'[k] = op[c].value /\ VersionMap'[k] = VersionMap[k] + 1 /\ op[c].version = VersionMap[k]
      /\ \A l \in Key : l # k => KV'[l] = KV[l] /\ VersionMap'[l] = VersionMap[l]
  <2>1. KV \in [Key -> Value \cup {NoValue}] /\ VersionMap \in [Key -> Nat]
    BY Zenon DEF TypeOK, KvTypeOK
  <2>2. op[c].version = VersionMap[k]
    BY Zenon DEF Installs
  <2>3. KV' = [KV EXCEPT ![k] = op[c].value] /\ VersionMap' = [VersionMap EXCEPT ![k] = op[c].version + 1]
    BY Zenon DEF Handle
  <2> QED
    BY Zenon, <1>1, <2>1, <2>2, <2>3
<1>5. absState[k].Version = VersionMap[k]
  BY Zenon, <1>1 DEF absState
<1>6. absState'[k] = [Value |-> op[c].value, Version |-> absState[k].Version + 1]
  <2>1. KV'[k] # NoValue
    BY Zenon, <1>1, <1>4, KvAssumption
  <2> QED
    BY Zenon, <1>1, <1>4, <1>5, <2>1 DEF absState
<1>7. absState' = [absState EXCEPT ![k] = [Value |-> op[c].value, Version |-> @.Version + 1]]
  <2>1. \A l \in Key : l # k => absState'[l] = absState[l]
    BY Zenon, <1>4 DEF absState
  <2>2. absState' = [absState EXCEPT ![k] = absState'[k]]
    BY Zenon, <1>1, <2>1, AbsFun, FunOnce
  <2> QED
    BY Zenon, <1>6, <2>2
<1>8. absPending[c] = TRUE /\ absPending'[c] = TRUE
  BY Zenon DEF absPending
<1>9. ~Read(c) /\ ~Read(c)'
  BY Zenon DEF Read
<1>10. absOutput'[c] = absOutput[c]
  BY Zenon, <1>9 DEF absOutput
<1>11. absEffect[c] = FALSE /\ absEffect'[c] = TRUE
  <2>1. Written(op[c].value)'
    BY Zenon, <1>2 DEF Written
  <2> QED
    BY Zenon, <1>2, <1>9, <2>1 DEF absEffect
<1>12. KvModel!Matches(op[c])
  BY Zenon, <1>4, <1>5 DEF KvModel!Matches
<1> QED
  BY Zenon, <1>3, <1>7, <1>8, <1>10, <1>11, <1>12, SeenBy DEF KvModel!StepPut

\* A handler left behind stores nothing, or its client's current put.
LEMMA LateRefines ==
    ASSUME TypeOK, HistInv, KnownInv, NEW r \in late, ExecuteLate(r), Record(r),
           UNCHANGED <<opn, returns>>
    PROVE  (\E c \in Clnt : KvModel!StepPut(c)) \/ UNCHANGED KvModel!vars
<1>1. /\ UNCHANGED <<op, call, reply>> /\ late' \in SUBSET late /\ Handle(r)
      /\ r \in Puts /\ r \in Request
  BY Zenon, PutsMember DEF ExecuteLate, clntVars
<1>2. CASE Installs(r)
  <2>1. r.clnt \in Clnt /\ r.version \in Nat /\ r.version = VersionMap[r.key] /\ r.type = "put"
    BY Zenon, <1>1, <1>2 DEF Request, Installs
  <2>2. ~Spent(r)
    BY <2>1 DEF Spent
  <2>3. op[r.clnt] = r
    BY Zenon, <2>2 DEF KnownInv
  <2>4. call[r.clnt] # "idle"
    BY Zenon, <2>1, <2>2, <2>3 DEF KnownInv
  <2> QED
    BY Zenon, <1>1, <1>2, <2>1, <2>3, <2>4, StoreRefines
<1>3. CASE ~Installs(r)
  <2>1. UNCHANGED <<KV, VersionMap, writes>>
    BY Zenon, <1>1, <1>3 DEF Handle, Record, srvVars
  <2>2. \A c \in Clnt : Written(op[c].value)' <=> Written(op[c].value)
    BY Zenon, <1>1, <2>1 DEF Written
  <2> QED
    BY Zenon, <1>1, <2>1, <2>2, SeesSame, Unseen
<1> QED
  BY Zenon, <1>2, <1>3

\* What Get answers, in KvModel's terms: an absent key has version 0.
LEMMA GetSees ==
    ASSUME TypeOK, HistInv, NEW k \in Key
    PROVE  \E e \in {"OK", "ErrNoKey"} : GetReply(k) =
              [Err |-> e, Value |-> absState[k].Value, Version |-> absState[k].Version]
<1>1. /\ absState[k].Value = (IF KV[k] = NoValue THEN Empty ELSE KV[k])
      /\ absState[k].Version = VersionMap[k]
  BY Zenon DEF absState
<1>2. CASE KV[k] = NoValue
  <2>1. writes[k] = <<>>
    <3> SUFFICES ASSUME writes[k] # <<>> PROVE FALSE
      OBVIOUS
    <3>1. writes[k] \in Seq(Value)
      BY Zenon DEF TypeOK
    <3>2. writes[k][Len(writes[k])] \in Value
      BY <3>1
    <3>3. KV[k] = writes[k][Len(writes[k])]
      BY Zenon DEF HistInv, VersionsCount
    <3> QED
      BY Zenon, <1>2, <3>2, <3>3, KvAssumption
  <2>2. Len(writes[k]) = 0
    BY <2>1
  <2>3. VersionMap[k] = 0
    BY Zenon, <2>2 DEF HistInv, VersionsCount
  <2> QED
    BY Zenon, <1>1, <1>2, <2>3 DEF GetReply, ErrNoKey
<1>3. CASE KV[k] # NoValue
  BY Zenon, <1>1, <1>3 DEF GetReply, OK
<1> QED
  BY Zenon, <1>2, <1>3

\* The handler runs for the client's current RPC.
LEMMA ExecuteRefines ==
    ASSUME TypeOK, HistInv, KnownInv, NEW c \in Clnt, Execute(c), Record(op[c]),
           UNCHANGED <<opn, returns>>
    PROVE  KvModel!StepPut(c) \/ KvModel!StepGet(c) \/ UNCHANGED KvModel!vars
<1>1. /\ UNCHANGED <<op, late>> /\ Handle(op[c]) /\ op[c] \in Request
      /\ call[c] = "running" /\ call'[c] = "done"
      /\ reply'[c] = HandlerReply(op[c])
      /\ \A d \in Clnt : d # c => call'[d] = call[d] /\ reply'[d] = reply[d]
  BY Zenon DEF Execute, SetCall, clntVars, TypeOK, KvTypeOK
<1>2. CASE Installs(op[c])
  BY Zenon, <1>1, <1>2, StoreRefines DEF Installs
<1>3. CASE ~Installs(op[c])
  <2>1. UNCHANGED <<KV, VersionMap, writes>>
    BY Zenon, <1>1, <1>3 DEF Handle, Record, srvVars
  <2>2. \A d \in Clnt : Written(op[d].value)' <=> Written(op[d].value)
    BY Zenon, <1>1, <2>1 DEF Written
  <2>3. \A d \in Clnt : d # c => Sees(d)' = Sees(d)
    BY Zenon, <1>1, <2>2, SeesSame
  <2>4. absPending[c] = TRUE /\ absPending'[c] = TRUE /\ absState' = absState
    BY Zenon, <1>1, <2>1 DEF absPending, absState
  <2>5. CASE op[c].type = "get"
    <3>1. op[c].key \in Key /\ reply'[c] = GetReply(op[c].key)
      BY Zenon, <1>1, <2>5 DEF Request, HandlerReply
    <3>2. Read(c)'
      BY Zenon, <1>1, <2>5 DEF Read
    <3>3. absEffect'[c] = TRUE
      BY Zenon, <3>2 DEF absEffect
    <3>4. absOutput'[c] = GetReply(op[c].key)
      BY Zenon, <3>1, <3>2 DEF absOutput
    <3>5. PICK e \in {"OK", "ErrNoKey"} : GetReply(op[c].key) =
              [Err |-> e, Value |-> absState[op[c].key].Value,
               Version |-> absState[op[c].key].Version]
      BY Zenon, <3>1, GetSees
    <3>6. /\ absPending' = absPending
          /\ absEffect' = [absEffect EXCEPT ![c] = TRUE]
          /\ absOutput' = [absOutput EXCEPT ![c] = GetReply(op[c].key)]
      BY Zenon, <2>3, <2>4, <3>3, <3>4, SeenBy
    <3> QED
      BY Zenon, <1>1, <2>4, <2>5, <3>5, <3>6 DEF KvModel!StepGet
  <2>6. CASE op[c].type = "put"
    <3>1. ~Read(c) /\ ~Read(c)'
      BY Zenon, <1>1, <2>6 DEF Read
    <3>2. absEffect'[c] = absEffect[c] /\ absOutput'[c] = absOutput[c]
      BY Zenon, <1>1, <2>2, <3>1 DEF absEffect, absOutput
    <3>3. \A d \in Clnt : Sees(d)' = Sees(d)
      BY Zenon, <2>3, <2>4, <3>2 DEF Sees
    <3> QED
      BY Zenon, <1>1, <2>1, <3>3, Unseen
  <2> QED
    BY Zenon, <1>1, <2>5, <2>6 DEF Request
<1> QED
  BY Zenon, <1>2, <1>3

\* The clerk returns.  A put's answer is one that KvModel.Step accepts: OK and
\* ErrMaybe for a put that is stored, ErrVersion and ErrMaybe for one that is not,
\* whose version is spent.
LEMMA FinishRefines ==
    ASSUME TypeOK, HistInv, KnownInv, NEW c \in Clnt, Finish(c)
    PROVE  KvModel!ReturnGet(c) \/ KvModel!ReturnPut(c)
<1>1. /\ UNCHANGED <<KV, VersionMap, op, writes>> /\ op[c] \in Request
      /\ call[c] = "replied" /\ call'[c] = "idle"
      /\ reply'[c] = [reply[c] EXCEPT !.Err = ClerkErr(c)]
      /\ \A d \in Clnt : d # c => call'[d] = call[d] /\ reply'[d] = reply[d]
  BY Zenon DEF Finish, Return, SetCall, srvVars, clntVars, TypeOK, KvTypeOK
<1>2. \A d \in Clnt : Written(op[d].value)' <=> Written(op[d].value)
  BY Zenon, <1>1 DEF Written
<1>3. \A d \in Clnt : d # c => Sees(d)' = Sees(d)
  BY Zenon, <1>1, <1>2, SeesSame
<1>4. absPending[c] = TRUE /\ absPending'[c] = FALSE /\ absState' = absState
  BY Zenon, <1>1 DEF absPending, absState
<1>5. absEffect'[c] = FALSE /\ absOutput'[c] = reply'[c]
  BY Zenon, <1>1 DEF absEffect, absOutput, Read
<1>6. /\ absPending' = [absPending EXCEPT ![c] = FALSE]
      /\ absEffect' = [absEffect EXCEPT ![c] = FALSE]
      /\ absOutput' = [absOutput EXCEPT ![c] = reply'[c]]
      /\ absOutput'[c] = absOutput[c] => absOutput' = absOutput
  BY Zenon, <1>3, <1>4, <1>5, SeenBy
<1>7. CASE op[c].type = "get"
  <2>1. Read(c)
    BY Zenon, <1>1, <1>7 DEF Read
  <2>2. absEffect[c] = TRUE /\ absOutput[c] = reply[c]
    BY Zenon, <2>1 DEF absEffect, absOutput
  <2>3. ClerkErr(c) = reply[c].Err
    BY Zenon, <1>7 DEF ClerkErr
  <2>4. reply[c] \in Reply
    BY Zenon DEF TypeOK, KvTypeOK
  <2>5. reply'[c] = reply[c]
    BY <1>1, <2>3, <2>4 DEF Reply
  <2> QED
    BY Zenon, <1>1, <1>4, <1>5, <1>6, <1>7, <2>2, <2>5 DEF KvModel!ReturnGet
<1>8. CASE op[c].type = "put"
  <2>1. ~Read(c)
    BY Zenon, <1>8 DEF Read
  <2>2. absOutput[c] = PutReply(OK) /\ (absEffect[c] <=> Written(op[c].value))
    BY Zenon, <1>1, <1>8, <2>1 DEF absOutput, absEffect
  <2>3. PICK e \in {OK, ErrVersion} : reply[c] = PutReply(e)
    BY Zenon, <1>1, <1>8 DEF KnownInv
  <2>4. reply'[c] = PutReply(ClerkErr(c)) /\ reply[c].Err = e
    BY <1>1, <2>3 DEF PutReply
  <2>5. [absOutput[c] EXCEPT !.Err = ClerkErr(c)] = PutReply(ClerkErr(c))
    BY <2>2 DEF PutReply
  <2>6. absOutput' = [absOutput EXCEPT ![c].Err = ClerkErr(c)]
    BY Zenon, <1>6, <2>4, <2>5
  <2>7. Spent(op[c]) /\ op[c].version \in Nat /\ op[c].key \in Key
    BY Zenon, <1>1, <1>8 DEF KnownInv, Request
  <2>8. ~KvModel!Matches(op[c])
    <3>1. absState[op[c].key].Version = VersionMap[op[c].key]
      BY Zenon, <2>7 DEF absState
    <3>2. VersionMap[op[c].key] \in Nat
      BY Zenon, <2>7 DEF TypeOK, KvTypeOK
    <3>3. VersionMap[op[c].key] # op[c].version
      BY <2>7, <3>2 DEF Spent
    <3> QED
      BY Zenon, <3>1, <3>3 DEF KvModel!Matches
  <2>9. ClerkErr(c) \in KvModel!AcceptedErr(c)
    <3>1. CASE e = OK
      <4>1. ClerkErr(c) = "OK"
        BY Zenon, <2>4, <3>1 DEF ClerkErr, OK, ErrVersion
      <4>2. Written(op[c].value)
        BY Zenon, <1>1, <1>8, <2>4, <3>1 DEF HistInv, CallInv
      <4> QED
        BY Zenon, <2>2, <4>1, <4>2 DEF KvModel!AcceptedErr
    <3>2. CASE e = ErrVersion /\ firstAttempt[c]
      <4>1. ClerkErr(c) = "ErrVersion"
        BY Zenon, <2>4, <3>2 DEF ClerkErr, ErrVersion
      <4>2. ~Written(op[c].value)
        BY Zenon, <1>1, <1>8, <2>4, <3>2 DEF HistInv, CallInv, Dead
      <4> QED
        BY Zenon, <2>2, <2>8, <4>1, <4>2 DEF KvModel!AcceptedErr
    <3>3. CASE e = ErrVersion /\ ~firstAttempt[c]
      <4>1. ClerkErr(c) = "ErrMaybe"
        BY Zenon, <1>8, <2>4, <3>3 DEF ClerkErr, ErrVersion, ErrMaybe
      <4> QED
        BY Zenon, <2>8, <4>1 DEF KvModel!AcceptedErr
    <3> QED
      BY Zenon, <2>3, <3>1, <3>2, <3>3
  <2> QED
    BY Zenon, <1>1, <1>4, <1>6, <1>8, <2>6, <2>9 DEF KvModel!ReturnPut
<1> QED
  BY Zenon, <1>1, <1>7, <1>8 DEF Request

\* A client begins an operation.
LEMMA BeginRefines ==
    ASSUME TypeOK, HistInv, NEW c \in Clnt, NEW q \in Request, Begin(c, q), q.clnt = c,
           q.version \in 0..MaxVersion, q.type = "put" => q.value = opn + 1
    PROVE  q \in KvModel!KvInput /\ KvModel!Call(c, q)
<1>1. /\ UNCHANGED <<KV, VersionMap, writes>>
      /\ opn \in Nat
      /\ call[c] = "idle" /\ call'[c] = "sent" /\ reply'[c] = PutReply(OK)
      /\ op' = [op EXCEPT ![c] = q] /\ op'[c] = q
      /\ \A d \in Clnt : d # c => call'[d] = call[d] /\ reply'[d] = reply[d] /\ op'[d] = op[d]
  BY HistAssumption DEF Begin, Invoke, SetCall, srvVars, TypeOK, KvTypeOK
<1>2. \A d \in Clnt : d # c => (Written(op[d].value)' <=> Written(op[d].value))
  BY <1>1 DEF Written
<1>3. \A d \in Clnt : d # c => Sees(d)' = Sees(d)
  BY Zenon, <1>1, <1>2, SeesSame
<1>4. absPending[c] = FALSE /\ absPending'[c] = TRUE /\ absState' = absState
  BY Zenon, <1>1 DEF absPending, absState
<1>5. q.type = "put" => ~Written(op[c].value)'
  <2> SUFFICES ASSUME q.type = "put", NEW k \in Key, NEW i \in 1..Len(writes[k]),
                      writes[k][i] = opn + 1
               PROVE  FALSE
    BY <1>1 DEF Written
  <2>1. writes[k][i] \in 1..opn
    BY Zenon DEF HistInv, PutsInv
  <2> QED
    BY <1>1, <2>1
<1>6. ~Read(c)'
  BY Zenon, <1>1 DEF Read
<1>7. absEffect'[c] = FALSE
  BY Zenon, <1>1, <1>5, <1>6 DEF absEffect
<1>8. absOutput'[c] = KvModel!NoOutput
  BY Zenon, <1>1, <1>6 DEF absOutput, PutReply, OK, KvModel!NoOutput
<1>9. q \in KvModel!KvInput
  BY Zenon DEF Request, KvModel!KvInput
<1>10. /\ absPending' = [absPending EXCEPT ![c] = TRUE]
       /\ absEffect' = [absEffect EXCEPT ![c] = FALSE]
       /\ absOutput' = [absOutput EXCEPT ![c] = KvModel!NoOutput]
  BY Zenon, <1>3, <1>4, <1>7, <1>8, SeenBy
<1> QED
  BY Zenon, <1>1, <1>4, <1>9, <1>10 DEF KvModel!Call

\* Every step of the service under such clients is a step of KvModel or a stutter.
LEMMA RefinesStep ==
    TypeOK /\ HistInv /\ KnownInv /\ [NextKnown]_vars => [KvModel!Next]_(KvModel!vars)
<1> SUFFICES ASSUME TypeOK, HistInv, KnownInv, [NextKnown]_vars
             PROVE  [KvModel!Next]_(KvModel!vars)
  OBVIOUS
<1>1. ASSUME NEW c \in Clnt, Get(c) \/ PutKnown(c) PROVE KvModel!Next
  <2>1. PICK q \in Request :
            /\ Begin(c, q) /\ q.clnt = c /\ q.version \in 0..MaxVersion
            /\ q.type = "put" => q.value = opn + 1
    BY Zenon, <1>1, KnownBegin
  <2> QED
    BY Zenon, <2>1, BeginRefines DEF KvModel!Next
<1>2. CASE Service
  BY Zenon, <1>2, TransportRefines, ExecuteRefines, LateRefines, FinishRefines
     DEF Service, KvModel!Next
<1>3. CASE UNCHANGED vars
  <2>1. UNCHANGED <<KV, VersionMap, op, writes, call, reply>>
    BY Zenon, <1>3 DEF vars, kvVars, histVars
  <2>2. \A c \in Clnt : Written(op[c].value)' <=> Written(op[c].value)
    BY Zenon, <2>1 DEF Written
  <2> QED
    BY Zenon, <2>1, <2>2, SeesSame, Unseen
<1> QED
  BY Zenon, <1>1, <1>2, <1>3 DEF NextKnown

\* Clients that put with versions they have read see one linearizable register
\* per key: server.go and client.go implement the model of models1/kv.go.
THEOREM IsLinearizable == SpecKnown => Linearizable
<1>1. Init => KvModel!Init
  <2> SUFFICES ASSUME Init PROVE KvModel!Init
    OBVIOUS
  <2>1. PICK k \in Key : op = [c \in Clnt |-> GetArgs(c, k)]
    BY Zenon DEF Init, KvInit
  <2>2. absState = [l \in Key |-> [Value |-> Empty, Version |-> 0]]
    BY Zenon DEF Init, KvInit, SrvInit, absState
  <2>3. \A c \in Clnt : call[c] = "idle" /\ reply[c] = PutReply(OK)
    BY Zenon DEF Init, KvInit
  <2>4. absPending = [c \in Clnt |-> FALSE]
    BY Zenon, <2>3 DEF absPending
  <2>5. absEffect = [c \in Clnt |-> FALSE]
    BY Zenon, <2>3 DEF absEffect, Read
  <2>6. absOutput = [c \in Clnt |-> KvModel!NoOutput]
    BY Zenon, <2>3 DEF absOutput, PutReply, OK, KvModel!NoOutput
  <2> QED
    BY Zenon, <2>1, <2>2, <2>4, <2>5, <2>6 DEF GetArgs, KvModel!Init
<1> QED
  BY <1>1, RefinesStep, KnownInvariant, PTL DEF SpecKnown, Linearizable, KvModel!Spec
=============================================================================
