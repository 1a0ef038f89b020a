---------------------------- MODULE KvTestProofs ----------------------------
(***************************************************************************)
(* Proofs about the key/value test harness, for any number of clients and  *)
(* any schedule, losses, disconnections and late executions included: what *)
(* OneClientAppend appends stays and is counted, OnePut reads its own put, *)
(* and no check of the harness fails a correct service.  The invariants    *)
(* say, in this order, what the texts are, which put may still change the  *)
(* list, what OnePut's put has stored, what the clerks know (ClerkInv),    *)
(* where the goroutines are and what they read (HarnessInv, RoundInv), and *)
(* how the list and the version stand to the clients' counts (LandInv,     *)
(* CountInv).                                                              *)
(***************************************************************************)
EXTENDS KvTest, KvSrvProofs

\* The texts of the harness.
Json == Seq([Id : Clnt, N : Nat])

\* A JSON text is a string, so it can be stored.
JsonValues == Json \subseteq Value

\* Only JSON texts are put and stored, and a client that appends gets one.
JsonInv ==
    /\ KV[testKey] \in Json \cup {NoValue}
    /\ \A c \in Clnt :
        /\ op[c].type = "put" => op[c].key = testKey /\ op[c].value \in Json
        /\ pc[c] = "aget" => op[c] = GetArgs(c, testKey)
        /\ pc[c] = "aget" /\ Answered(c) /\ reply[c].Err = OK => reply[c].Value \in Json
    /\ \A r \in late : r.key = testKey /\ r.value \in Json

\* The pairs of EntryV and of the appended lists make JSON texts.
LEMMA JsonFacts ==
    /\ <<>> \in Json
    /\ \A c \in Clnt, n \in Nat : <<Pair(c, n)>> \in Json
    /\ \A s \in Json, c \in Clnt, n \in Nat : Append(s, Pair(c, n)) \in Json
<1> DEFINE P == [Id : Clnt, N : Nat]
<1>1. \A c \in Clnt, n \in Nat : Pair(c, n) \in P
  BY Zenon DEF Pair
<1>2. <<>> \in Seq(P) /\ \A p \in P : <<p>> \in Seq(P)
  OBVIOUS
<1>3. \A s \in Seq(P), p \in P : Append(s, p) \in Seq(P)
  OBVIOUS
<1> HIDE DEF P
<1>4. Json = Seq(P)
  BY Zenon DEF Json, P
<1> QED
  BY Zenon, <1>1, <1>2, <1>3, <1>4

\* The counts of a client are numbers.
LEMMA IterType == ASSUME TypeOK, NEW c \in Clnt PROVE Iter(c) \in Nat
BY DEF TypeOK, Iter

\* The test's own goroutine and the key are a client and a key.
LEMMA MainType == main \in Clnt /\ testKey \in Key /\ Cli \subseteq Clnt
BY Zenon, TestAssumption DEF Cli

\* The arguments that the harness passes to the clerk.
LEMMA TestArgs ==
    ASSUME JsonValues, NEW c \in Clnt
    PROVE  /\ GetArgs(c, testKey) \in Request /\ GetArgs(c, testKey).type = "get"
           /\ GetArgs(c, testKey).clnt = c /\ GetArgs(c, testKey).key = testKey
           /\ \A v \in Json, n \in Nat :
                LET q == PutArgs(c, testKey, v, n)
                IN  /\ q \in Request /\ q.clnt = c /\ q.type = "put" /\ q.key = testKey
                    /\ q.value = v /\ q.version = n
<1>1. GetArgs(c, testKey) \in Request
  BY Zenon, ArgsType, MainType
<1>2. /\ GetArgs(c, testKey).type = "get" /\ GetArgs(c, testKey).key = testKey
      /\ GetArgs(c, testKey).clnt = c
  BY Zenon DEF GetArgs
<1>3. ASSUME NEW v \in Json, NEW n \in Nat
      PROVE  LET q == PutArgs(c, testKey, v, n)
             IN  /\ q \in Request /\ q.clnt = c /\ q.type = "put" /\ q.key = testKey
                 /\ q.value = v /\ q.version = n
  <2>1. PutArgs(c, testKey, v, n) \in Request
    BY Zenon, ArgsType, MainType DEF JsonValues
  <2> QED
    BY Zenon, <2>1 DEF PutArgs
<1> QED
  BY Zenon, <1>1, <1>2, <1>3

-----------------------------------------------------------------------------
(* Steps of the harness, by what they do to the clerk *)

\* c calls its clerk with q and goes on at l; a put is of a JSON text.
Calls(c, q, l) ==
    /\ q \in Request /\ l \in PC
    /\ Invoke(c, q) /\ Goto(c, l)
    /\ \/ q = GetArgs(c, testKey)
       \/ l # "aget" /\ \E v \in Json, n \in Nat : q = PutArgs(c, testKey, v, n)

\* Places at which no operation of the clerk is under way.
Quiet == {"select", "send", "gone", "test", "spawned", "signal", "collect", "passed", "fatal"}

\* c goes on without its clerk and forgets its last operation; other goroutines
\* may move to a quiet place with it.
Rests(c) ==
    /\ Forget(c)
    /\ pc' \in [Clnt -> PC]
    /\ \A d \in Clnt : pc'[d] = pc[d] \/ pc'[d] \in Quiet
    /\ pc'[c] \in Quiet

\* Every step of the harness is one of the two, or the meeting of a send and a
\* select, and its other variables keep their types.
HarnessStep ==
    /\ \/ \E c \in Clnt : Rests(c)
       \/ \E c \in Clnt, q \in Request, l \in PC : Calls(c, q, l)
       \/ \E c \in Cli : Done(c)
    /\ test' = test
    /\ ver' \in [Clnt -> Nat] /\ putErr' \in [Clnt -> Err]
    /\ res' \in [Clnt -> [Nok : Nat, Nmaybe : Nat]]

\* A get is such a call.
LEMMA GetCalls ==
    ASSUME JsonValues, NEW c \in Clnt, NEW l \in PC, GetAnd(c, l)
    PROVE  \E d \in Clnt, q \in Request, k \in PC : Calls(d, q, k)
BY Zenon, TestArgs DEF GetAnd, Calls

\* So is a put of a JSON text.
LEMMA PutCalls ==
    ASSUME JsonValues, NEW c \in Clnt, NEW l \in PC, l # "aget",
           NEW v \in Json, NEW n \in Nat, PutAnd(c, v, n, l)
    PROVE  \E d \in Clnt, q \in Request, k \in PC : Calls(d, q, k)
<1>1. PutArgs(c, testKey, v, n) \in Request
  BY Zenon, TestArgs
<1> QED
  BY Zenon, <1>1 DEF PutAnd, Calls

\* A goroutine that goes on at a quiet place rests.
LEMMA LocalRests ==
    ASSUME TypeOK, NEW c \in Clnt, NEW l \in Quiet, Local(c, l)
    PROVE  Rests(c)
<1>1. Quiet \subseteq PC
  BY Zenon DEF Quiet, PC
<1> QED
  BY Zenon, <1>1 DEF Local, Goto, Rests, TypeOK

\* So does the test when it starts the clients.
LEMMA SpawnRests == ASSUME TypeOK, Spawn PROVE Rests(main)
<1>1. main \in Clnt
  BY Zenon, MainType
<1>2. /\ pc' \in [Clnt -> PC] /\ \A d \in Clnt : pc'[d] \in Quiet
      /\ Forget(main)
  BY Zenon, <1>1 DEF Spawn, Quiet, PC
<1> QED
  BY Zenon, <1>1, <1>2 DEF Rests

\* What a client has been answered, for the types of what it does with it.
LEMMA ReplyFacts ==
    ASSUME TypeOK, NEW c \in Clnt
    PROVE  reply[c].Err \in Err /\ reply[c].Version \in Nat /\ ver[c] \in Nat
BY Zenon DEF TypeOK, KvTypeOK, Reply

\* The clients' steps.
LEMMA ClientSteps ==
    ASSUME JsonValues, TypeOK, JsonInv, NEW c \in Cli, Client(c)
    PROVE  HarnessStep
<1>c. c \in Clnt
  BY Zenon, MainType
<1>r. reply[c].Err \in Err /\ reply[c].Version \in Nat /\ ver[c] \in Nat /\ Iter(c) \in Nat
  BY Zenon, <1>c, ReplyFacts, IterType
<1>t. ver \in [Clnt -> Nat] /\ putErr \in [Clnt -> Err] /\ res \in [Clnt -> [Nok : Nat, Nmaybe : Nat]]
  BY Zenon DEF TypeOK
<1>k. \A ok : Counted(c, ok) => res' \in [Clnt -> [Nok : Nat, Nmaybe : Nat]]
  BY <1>c, <1>t DEF Counted
<1>p. \A n \in Nat : <<Pair(c, n)>> \in Json
  BY Zenon, <1>c, JsonFacts
<1>q. {"select", "fatal"} \subseteq Quiet /\ {"put", "get", "aget", "aput"} \subseteq PC
  BY Zenon DEF Quiet, PC
<1>e. OK \in Err
  BY Zenon DEF Err
<1> DEFINE Clerk == \/ \E d \in Clnt : Rests(d)
                    \/ \E d \in Clnt, q \in Request, l \in PC : Calls(d, q, l)
<1>l. ASSUME NEW l \in {"select", "fatal"}, Local(c, l) PROVE Clerk
  BY Zenon, <1>c, <1>q, <1>l, LocalRests
<1>g. ASSUME NEW l \in {"get", "aget"}, GetAnd(c, l) PROVE Clerk
  BY Zenon, <1>c, <1>q, <1>g, GetCalls
<1>u. ASSUME NEW l \in {"put", "aput"}, NEW v \in Json, NEW n \in Nat, PutAnd(c, v, n, l)
      PROVE  Clerk
  BY Zenon, <1>c, <1>q, <1>u, PutCalls
<1> HIDE DEF Clerk
<1>h. ASSUME Clerk, test' = test, ver' \in [Clnt -> Nat], putErr' \in [Clnt -> Err],
             res' \in [Clnt -> [Nok : Nat, Nmaybe : Nat]]
      PROVE  HarnessStep
  BY Zenon, <1>h DEF HarnessStep, Clerk
<1>1. CASE Done(c)
  BY Zenon, <1>1, <1>t DEF Done, HarnessStep
<1>2. CASE Begin(c)
  <2>1. Clerk
    BY Zenon, <1>2, <1>g, <1>u, <1>p, <1>r DEF Begin
  <2> QED
    BY Zenon, <1>2, <2>1, <1>t, <1>h DEF Begin
<1>3. CASE OnePutPut(c)
  <2>1. Clerk
    BY Zenon, <1>3, <1>g, <1>l DEF OnePutPut
  <2>2. test' = test /\ ver' = ver /\ res' = res /\ putErr' \in [Clnt -> Err]
    BY Zenon, <1>3, <1>t, <1>r DEF OnePutPut
  <2> QED
    BY Zenon, <2>1, <2>2, <1>t, <1>h
<1>4. CASE OnePutGet(c)
  <2>1. Clerk
    BY Zenon, <1>4, <1>u, <1>l, <1>p, <1>r DEF OnePutGet
  <2>2. test' = test /\ ver' \in [Clnt -> Nat] /\ putErr' \in [Clnt -> Err]
    BY Zenon, <1>4, <1>t, <1>r, <1>e DEF OnePutGet
  <2>3. res' = res \/ \E ok : Counted(c, ok)
    BY Zenon, <1>4 DEF OnePutGet
  <2>4. res' \in [Clnt -> [Nok : Nat, Nmaybe : Nat]]
    BY Zenon, <2>3, <1>t, <1>k
  <2> QED
    BY Zenon, <2>1, <2>2, <2>4, <1>h
<1>5. CASE AppendGot(c)
  <2>1. CASE GotJson(c)
    <3>1. reply[c].Value \in Json
      BY Zenon, <1>5, <2>1, <1>c DEF AppendGot, At, GotJson, JsonInv, Answered
    <3>2. Append(reply[c].Value, Pair(c, Iter(c))) \in Json
      BY Zenon, <3>1, <1>c, <1>r, JsonFacts
    <3> QED
      BY Zenon, <1>5, <2>1, <3>2, <1>u, <1>r, <1>t, <1>h DEF AppendGot
  <2>2. CASE ~GotJson(c)
    BY Zenon, <1>5, <2>2, <1>l, <1>t, <1>h DEF AppendGot
  <2> QED
    BY Zenon, <2>1, <2>2
<1>6. CASE AppendPut(c)
  <2>1. Clerk
    BY Zenon, <1>6, <1>g, <1>l DEF AppendPut
  <2>2. test' = test /\ ver' = ver /\ putErr' = putErr
    BY Zenon, <1>6 DEF AppendPut
  <2>3. res' = res \/ \E ok : Counted(c, ok)
    BY Zenon, <1>6 DEF AppendPut
  <2>4. res' \in [Clnt -> [Nok : Nat, Nmaybe : Nat]]
    BY <2>3, <1>t, <1>k
  <2> QED
    BY Zenon, <2>1, <2>2, <2>4, <1>t, <1>h
<1> QED
  BY Zenon, <1>1, <1>2, <1>3, <1>4, <1>5, <1>6 DEF Client

\* The steps of the test's own goroutine.
LEMMA MainSteps ==
    ASSUME JsonValues, TypeOK, JsonInv, Main
    PROVE  HarnessStep
<1>c. main \in Clnt /\ Cli \subseteq Clnt
  BY Zenon, MainType
<1>r. /\ ver[main] \in Nat /\ ver[main] + 1 \in Nat /\ Iter(main) \in Nat
      /\ Round \in Json /\ <<>> \in Json
  <2>1. ver[main] \in Nat /\ Iter(main) \in Nat
    BY Zenon, <1>c, ReplyFacts, IterType
  <2> QED
    BY <2>1, <1>c, JsonFacts DEF Round
<1>t. ver \in [Clnt -> Nat] /\ putErr \in [Clnt -> Err] /\ res \in [Clnt -> [Nok : Nat, Nmaybe : Nat]]
  BY Zenon DEF TypeOK
<1>k. Counted(main, TRUE) => res' \in [Clnt -> [Nok : Nat, Nmaybe : Nat]]
  BY <1>c, <1>t DEF Counted
<1>q. /\ {"gone", "signal", "collect", "test", "passed", "fatal"} \subseteq Quiet
      /\ {"create", "atleast", "checkget", "check"} \subseteq PC
  BY Zenon DEF Quiet, PC
<1> DEFINE Clerk == \/ \E d \in Clnt : Rests(d)
                    \/ \E d \in Clnt, q \in Request, l \in PC : Calls(d, q, l)
<1>l. ASSUME NEW d \in Clnt, NEW l \in {"gone", "signal", "collect", "test", "passed", "fatal"},
             Local(d, l)
      PROVE  Clerk
  BY Zenon, <1>q, <1>l, LocalRests
<1>g. ASSUME NEW l \in {"checkget", "check"}, GetAnd(main, l) PROVE Clerk
  BY Zenon, <1>c, <1>q, <1>g, GetCalls
<1>u. ASSUME NEW l \in {"create", "atleast"}, NEW v \in Json, NEW n \in Nat,
             PutAnd(main, v, n, l)
      PROVE  Clerk
  BY Zenon, <1>c, <1>q, <1>u, PutCalls
<1>s. Spawn => Clerk
  BY Zenon, SpawnRests, <1>c
<1> HIDE DEF Clerk
<1>h. ASSUME Clerk, test' = test, ver' \in [Clnt -> Nat], putErr' \in [Clnt -> Err],
             res' \in [Clnt -> [Nok : Nat, Nmaybe : Nat]]
      PROVE  HarnessStep
  BY Zenon, <1>h DEF HarnessStep, Clerk
<1>1. CASE StartTest \/ PutAtLeastOnceJson
  <2>1. Clerk
    BY Zenon, <1>1, <1>u, <1>s, <1>r DEF StartTest, PutAtLeastOnceJson
  <2> QED
    BY Zenon, <1>1, <2>1, <1>t, <1>h DEF StartTest, PutAtLeastOnceJson
<1>2. CASE PutAtLeastOnce
  <2>1. Clerk
    BY Zenon, <1>2, <1>g, <1>l, <1>u, <1>r, <1>c DEF PutAtLeastOnce
  <2>2. test' = test /\ ver' \in [Clnt -> Nat] /\ putErr' = putErr /\ res' = res
    BY Zenon, <1>2, <1>t, <1>r DEF PutAtLeastOnce
  <2> QED
    BY Zenon, <2>1, <2>2, <1>t, <1>h
<1>3. CASE CheckGet
  <2>1. Clerk
    BY Zenon, <1>3, <1>l, <1>c DEF CheckGet
  <2>2. test' = test /\ ver' = ver /\ putErr' = putErr /\ (res' = res \/ Counted(main, TRUE))
    BY Zenon, <1>3 DEF CheckGet
  <2> QED
    BY Zenon, <2>1, <2>2, <1>k, <1>t, <1>h
<1>4. CASE Signal \/ FinalCheck \/ \E c \in Cli : Collect(c)
  <2>1. Clerk
    BY Zenon, <1>4, <1>l, <1>c DEF Signal, FinalCheck, Collect
  <2> QED
    BY Zenon, <1>4, <2>1, <1>t, <1>h DEF Signal, FinalCheck, Collect
<1>5. CASE ReadBack
  BY Zenon, <1>5, <1>g, <1>t, <1>h DEF ReadBack
<1> QED
  BY Zenon, <1>1, <1>2, <1>3, <1>4, <1>5 DEF Main

\* Where the goroutines are after a step.
LEMMA PCStep == ASSUME TypeOK, HarnessStep PROVE pc' \in [Clnt -> PC]
<1>1. ASSUME NEW c \in Clnt, NEW q \in Request, NEW l \in PC, Calls(c, q, l)
      PROVE  pc' \in [Clnt -> PC]
  BY Zenon, <1>1 DEF Calls, Goto, TypeOK
<1>2. ASSUME NEW c \in Cli, Done(c) PROVE pc' \in [Clnt -> PC]
  BY Zenon, <1>2 DEF Done, TypeOK, PC
<1> QED
  BY Zenon, <1>1, <1>2 DEF HarnessStep, Rests

\* The types are kept by every step of the harness, the clerks, the network and
\* the server.
LEMMA TypeStep == JsonValues /\ TypeOK /\ JsonInv /\ [Next]_vars => TypeOK'
<1> SUFFICES ASSUME JsonValues, TypeOK, JsonInv, [Next]_vars PROVE TypeOK'
  OBVIOUS
<1>k. KvTypeOK
  BY Zenon DEF TypeOK
<1>1. CASE Service
  <2>1. KvTypeOK'
    BY Zenon, <1>1, <1>k, TransportType, ExecuteType, ReturnType, LateType DEF Service
  <2> QED
    BY Zenon, <1>1, <2>1 DEF Service, TypeOK, testVars
<1>2. CASE HarnessStep
  <2>1. ASSUME NEW c \in Clnt, Rests(c) PROVE KvTypeOK'
    <3>1. GetArgs(c, testKey) \in Request /\ PutReply(OK) \in Reply
      BY Zenon, ArgsType, MainType, PutReplyType DEF Err
    <3> QED
      BY Zenon, <2>1, <1>k, <3>1 DEF Rests, Forget, srvVars, KvTypeOK
  <2>2. ASSUME NEW c \in Clnt, NEW q \in Request, NEW l \in PC, Calls(c, q, l)
        PROVE  KvTypeOK'
    BY Zenon, <2>2, <1>k, InvokeType DEF Calls
  <2>3. ASSUME NEW c \in Cli, Done(c) PROVE KvTypeOK'
    BY Zenon, <2>3, <1>k DEF Done, kvVars, KvTypeOK
  <2>4. KvTypeOK'
    BY Zenon, <1>2, <2>1, <2>2, <2>3 DEF HarnessStep
  <2>5. pc' \in [Clnt -> PC]
    BY Zenon, <1>2, PCStep
  <2> QED
    BY Zenon, <1>2, <2>4, <2>5 DEF HarnessStep, TypeOK
<1>3. CASE UNCHANGED vars
  BY Zenon, <1>3 DEF vars, kvVars, testVars, TypeOK, KvTypeOK
<1> QED
  BY Zenon, <1>1, <1>2, <1>3, ClientSteps, MainSteps DEF Next

\* The steps of the network and the retries of the clerks, by what they do.
LEMMA TransportFacts ==
    ASSUME TypeOK, NEW c \in Clnt, Transport(c)
    PROVE  /\ UNCHANGED <<KV, VersionMap, op>>
           /\ late' = late \/ (Unanswered(c) /\ op[c].type = "put" /\ late' = late \cup {op[c]})
           /\ \A d \in Clnt :
                \/ /\ Answered(d)' <=> Answered(d)
                   /\ Unanswered(d)' <=> Unanswered(d)
                   /\ reply'[d] = reply[d]
                \/ Answered(d) /\ ~Answered(d)' /\ Unanswered(d)'
<1> USE DEF srvVars, clntVars, SetCall, Answered, Unanswered
<1>t. call \in [Clnt -> CallState] /\ op[c] \in Request /\ reply \in [Clnt -> Reply]
  BY Zenon DEF TypeOK, KvTypeOK
<1>1. CASE Dispatch(c) \/ LoseRequest(c) \/ Deliver(c) \/ Enable(c) \/ Resend(c)
  BY Zenon, <1>1, <1>t DEF Dispatch, LoseRequest, Deliver, Enable, Resend
<1>2. CASE Abandon(c)
  <2>1. late' = late \/ (op[c].type = "put" /\ late' = late \cup {op[c]})
    BY Zenon, <1>2 DEF Abandon
  <2> QED
    BY Zenon, <1>2, <1>t, <2>1 DEF Abandon
<1>3. CASE LoseReply(c)
  BY Zenon, <1>3, <1>t DEF LoseReply
<1> QED
  BY Zenon, <1>1, <1>2, <1>3 DEF Transport

\* A run of the handler for a JSON put stores a JSON text.
LEMMA HandleJson ==
    ASSUME TypeOK, JsonInv, NEW r \in Request, Handle(r),
           r.type = "put" => r.key = testKey /\ r.value \in Json
    PROVE  KV'[testKey] \in Json \cup {NoValue}
BY Zenon, MainType DEF Handle, Installs, srvVars, JsonInv, TypeOK, KvTypeOK

\* A get that succeeds returns a JSON text.
LEMMA GetJsonReply ==
    ASSUME TypeOK, JsonInv, NEW c \in Clnt, pc[c] = "aget",
           HandlerReply(op[c]).Err = OK
    PROVE  HandlerReply(op[c]).Value \in Json
<1>g. op[c] = GetArgs(c, testKey)
  BY Zenon DEF JsonInv
<1>1. op[c].type = "get" /\ op[c].key = testKey
  BY <1>g DEF GetArgs
<1>2. HandlerReply(op[c]) = GetReply(testKey)
  BY Zenon, <1>1 DEF HandlerReply
<1>3. KV[testKey] # NoValue /\ HandlerReply(op[c]).Value = KV[testKey]
  BY <1>2 DEF GetReply, OK, ErrNoKey
<1> QED
  BY Zenon, <1>3 DEF JsonInv

\* Only JSON texts are put, stored and read.
LEMMA JsonStep == JsonValues /\ TypeOK /\ JsonInv /\ [Next]_vars => JsonInv'
<1> SUFFICES ASSUME JsonValues, TypeOK, JsonInv, [Next]_vars PROVE JsonInv'
  OBVIOUS
<1> DEFINE OpJson(d) == /\ op[d].type = "put" => op[d].key = testKey /\ op[d].value \in Json
                        /\ pc[d] = "aget" => op[d] = GetArgs(d, testKey)
           GotText(d) == pc[d] = "aget" /\ Answered(d) /\ reply[d].Err = OK =>
                             reply[d].Value \in Json
           LateJson   == \A r \in late : r.key = testKey /\ r.value \in Json
<1>i. /\ KV[testKey] \in Json \cup {NoValue} /\ LateJson
      /\ \A d \in Clnt : OpJson(d) /\ GotText(d)
  BY Zenon DEF JsonInv
<1>j. ASSUME KV'[testKey] \in Json \cup {NoValue}, LateJson',
             \A d \in Clnt : OpJson(d)' /\ GotText(d)'
      PROVE  JsonInv'
  BY Zenon, <1>j DEF JsonInv
<1>a. \A d \in Clnt : GetArgs(d, testKey)' = GetArgs(d, testKey)
  BY Zenon DEF GetArgs
<1>r. \A d \in Clnt : op[d] \in Request
  BY Zenon DEF TypeOK, KvTypeOK
<1>1. ASSUME NEW c \in Clnt, Transport(c), UNCHANGED testVars PROVE JsonInv'
  <2>1. /\ UNCHANGED <<KV, VersionMap, op>> /\ pc' = pc
        /\ late' = late \/ (op[c].type = "put" /\ late' = late \cup {op[c]})
        /\ \A d \in Clnt : Answered(d)' => Answered(d) /\ reply'[d] = reply[d]
    BY Zenon, <1>1, TransportFacts DEF testVars
  <2>2. LateJson'
    BY Zenon, <2>1, <1>i
  <2> QED
    BY Zenon, <2>1, <2>2, <1>i, <1>j, <1>a
<1>2. ASSUME NEW c \in Clnt, Execute(c), UNCHANGED testVars PROVE JsonInv'
  <2>1. /\ UNCHANGED <<op, pc, late>> /\ Handle(op[c])
        /\ reply'[c] = HandlerReply(op[c])
        /\ \A d \in Clnt : d # c => call'[d] = call[d] /\ reply'[d] = reply[d]
    BY Zenon, <1>2 DEF Execute, SetCall, clntVars, testVars, TypeOK, KvTypeOK
  <2>2. KV'[testKey] \in Json \cup {NoValue}
    BY Zenon, <2>1, <1>i, <1>r, HandleJson
  <2>3. ASSUME NEW d \in Clnt PROVE GotText(d)'
    BY Zenon, <2>1, <1>i, GetJsonReply DEF Answered
  <2> QED
    BY Zenon, <2>1, <2>2, <2>3, <1>i, <1>j, <1>a
<1>3. ASSUME NEW c \in Clnt, Return(c), UNCHANGED testVars PROVE JsonInv'
  <2>1. /\ UNCHANGED <<KV, op, pc, late>> /\ call[c] = "replied"
        /\ reply'[c].Value = reply[c].Value /\ reply'[c].Err = ClerkErr(c)
        /\ \A d \in Clnt : d # c => call'[d] = call[d] /\ reply'[d] = reply[d]
    BY <1>3 DEF Return, SetCall, srvVars, clntVars, testVars, TypeOK, KvTypeOK, Reply
  <2>2. ClerkErr(c) = OK => reply[c].Err = OK
    BY Zenon DEF ClerkErr, OK, ErrMaybe
  <2>3. ASSUME NEW d \in Clnt PROVE GotText(d)'
    BY Zenon, <2>1, <2>2, <1>i DEF Answered
  <2> QED
    BY Zenon, <2>1, <2>3, <1>i, <1>j, <1>a
<1>4. ASSUME NEW r \in late, ExecuteLate(r), UNCHANGED testVars PROVE JsonInv'
  <2>1. /\ UNCHANGED <<op, pc, call, reply>> /\ late' \in SUBSET late
        /\ Handle(r) /\ r \in Request
    BY Zenon, <1>4 DEF ExecuteLate, clntVars, testVars, TypeOK, KvTypeOK
  <2>2. KV'[testKey] \in Json \cup {NoValue}
    BY Zenon, <2>1, <1>i, HandleJson
  <2> QED
    BY Zenon, <2>1, <2>2, <1>i, <1>j, <1>a DEF Answered
<1>5. ASSUME NEW c \in Clnt, Rests(c) PROVE JsonInv'
  <2>1. /\ UNCHANGED <<KV, call, late>> /\ op'[c] = GetArgs(c, testKey)
        /\ pc'[c] # "aget" /\ \A d \in Clnt : pc'[d] = "aget" => pc[d] = "aget"
        /\ \A d \in Clnt : d # c => op'[d] = op[d] /\ reply'[d] = reply[d]
    BY Zenon, <1>5 DEF Rests, Forget, srvVars, Quiet, TypeOK, KvTypeOK
  <2>2. op'[c].type # "put"
    BY <2>1 DEF GetArgs
  <2> QED
    BY Zenon, <2>1, <2>2, <1>i, <1>j, <1>a DEF Answered
<1>6. ASSUME NEW c \in Clnt, NEW q \in Request, NEW l \in PC, Calls(c, q, l) PROVE JsonInv'
  <2>1. /\ UNCHANGED <<KV, late>> /\ op'[c] = q /\ call'[c] = "sent" /\ pc'[c] = l
        /\ \A d \in Clnt : d # c => /\ op'[d] = op[d] /\ reply'[d] = reply[d]
                                    /\ call'[d] = call[d] /\ pc'[d] = pc[d]
    BY Zenon, <1>6 DEF Calls, Invoke, Goto, SetCall, srvVars, TypeOK, KvTypeOK
  <2>2. OpJson(c)'
    BY <1>6, <2>1, <1>a, TestArgs DEF Calls
  <2> QED
    BY Zenon, <2>1, <2>2, <1>i, <1>j, <1>a DEF Answered
<1>7. ASSUME NEW c \in Cli, Done(c) PROVE JsonInv'
  <2>1. /\ UNCHANGED kvVars /\ \A d \in Clnt : pc'[d] = "aget" => pc[d] = "aget"
    BY Zenon, <1>7 DEF Done, TypeOK
  <2> QED
    BY Zenon, <2>1, <1>i, <1>j, <1>a DEF kvVars, Answered
<1>8. CASE UNCHANGED vars
  BY Zenon, <1>8, <1>i, <1>j, <1>a DEF vars, kvVars, testVars, Answered
<1>9. HarnessStep => JsonInv'
  BY Zenon, <1>5, <1>6, <1>7 DEF HarnessStep
<1> QED
  BY Zenon, <1>1, <1>2, <1>3, <1>4, <1>8, <1>9, ClientSteps, MainSteps DEF Next, Service

\* In every state the variables have their types, and the texts are JSON.
THEOREM TypeCorrect ==
    ASSUME JsonValues
    PROVE  Spec => [](TypeOK /\ JsonInv)
<1>1. Init => TypeOK /\ JsonInv
  <2> SUFFICES ASSUME Init PROVE TypeOK /\ JsonInv
    OBVIOUS
  <2>1. TypeOK
    BY Zenon, InitType DEF Init, TypeOK, PC, Err
  <2>2. PICK k \in Key : op = [c \in Clnt |-> GetArgs(c, k)]
    BY Zenon DEF Init, KvInit
  <2>3. \A c \in Clnt : op[c].type = "get" /\ pc[c] # "aget"
    BY Zenon, <2>2 DEF GetArgs, Init
  <2>4. KV[testKey] = NoValue /\ late = {}
    BY Zenon, MainType DEF Init, KvInit, SrvInit
  <2> QED
    BY Zenon, <2>1, <2>3, <2>4 DEF JsonInv
<1> QED
  BY <1>1, TypeStep, JsonStep, PTL DEF Spec

-----------------------------------------------------------------------------
(* OneClientAppend *)

\* The conjuncts of AppendInv in that test.
Inv == StartInv /\ OpsInv /\ PutInv /\ ReplyInv /\ LateInv

\* The numbers that the invariant compares.
LEMMA Versions ==
    ASSUME TypeOK
    PROVE  /\ Version \in Nat
           /\ \A c \in Clnt : op[c] \in Request /\ op[c].version \in Nat /\ reply[c].Version \in Nat
           /\ \A r \in late : r \in Request /\ r.version \in Nat /\ r.clnt \in Clnt
<1>1. Version \in Nat
  BY Zenon, MainType DEF TypeOK, KvTypeOK, Version
<1>2. \A c \in Clnt : op[c] \in Request /\ reply[c] \in Reply
  BY Zenon DEF TypeOK, KvTypeOK
<1>3. \A r \in late : r \in Request
  BY Zenon DEF TypeOK, KvTypeOK
<1> QED
  BY Zenon, <1>1, <1>2, <1>3 DEF Request, Reply

\* A put that takes effect leaves every other put, late or not, and every list
\* that a client has read behind.
LEMMA InstallKeeps ==
    ASSUME TypeOK, Inv, NEW r \in Request, Installs(r), Handle(r), r.key = testKey,
           late' \in SUBSET late, UNCHANGED <<op, pc>>,
           \A d \in Clnt : Answered(d)' => \/ Answered(d) /\ reply'[d] = reply[d]
                                           \/ pc[d] # "aget"
    PROVE  Inv'
<1>v. Version \in Nat /\ Version' = Version + 1
  BY Zenon, Versions, MainType DEF Handle, Installs, Version, TypeOK, KvTypeOK
<1>p. \A c \in Clnt : op[c].type = "put" => op[c].version < Version'
  BY <1>v, Versions DEF Inv, OpsInv
<1>l. \A q \in late : q.type = "put" /\ q.version < Version'
  BY <1>v, Versions DEF Inv, LateInv
<1>1. StartInv'
  BY Zenon DEF Inv, StartInv
<1>2. OpsInv'
  BY <1>v, <1>p, Versions DEF Inv, OpsInv
<1>3. PutInv'
  BY <1>v, <1>p, Versions DEF PutInv
<1>4. ReplyInv'
  <2>1. \A d \in Clnt : pc[d] = "aget" /\ Answered(d) /\ reply[d].Err = OK =>
            reply[d].Version < Version'
    BY <1>v, Versions DEF Inv, ReplyInv
  <2> QED
    BY <1>v, <1>p, <2>1, Versions DEF ReplyInv
<1>5. LateInv'
  BY <1>v, <1>l, Versions DEF LateInv
<1> QED
  BY Zenon, <1>1, <1>2, <1>3, <1>4, <1>5 DEF Inv

\* A step of the service that does not change the key keeps the invariant, when
\* it keeps the waiting clients of current puts waiting, and what it answers or
\* leaves behind is right.
LEMMA ServiceKeeps ==
    ASSUME TypeOK, Inv, UNCHANGED <<KV, VersionMap, op, pc, res>>, ReplyInv', LateInv',
           \A d \in Clnt : Unanswered(d)' => \/ Unanswered(d)
                                             \/ op[d].type = "put" => op[d].version # Version
    PROVE  Inv'
<1>1. Version' = Version /\ List' = List /\ \A c \in Clnt : Iter(c)' = Iter(c)
  BY Zenon DEF Version, List, Iter
<1>2. StartInv' /\ OpsInv'
  BY Zenon, <1>1 DEF Inv, StartInv, OpsInv
<1>3. PutInv'
  BY Zenon, <1>1 DEF Inv, PutInv, Pair
<1> QED
  BY Zenon, <1>2, <1>3 DEF Inv

\* The steps of the network and the retries of the clerks.
LEMMA TransportKeeps ==
    ASSUME TypeOK, Inv, NEW c \in Clnt, Transport(c), UNCHANGED testVars
    PROVE  Inv'
<1>1. /\ UNCHANGED <<KV, VersionMap, op, pc, res>>
      /\ late' = late \/ (Unanswered(c) /\ op[c].type = "put" /\ late' = late \cup {op[c]})
      /\ \A d \in Clnt :
            \/ /\ Answered(d)' <=> Answered(d)
               /\ Unanswered(d)' <=> Unanswered(d)
               /\ reply'[d] = reply[d]
            \/ Answered(d) /\ ~Answered(d)' /\ Unanswered(d)'
  BY Zenon, TransportFacts DEF testVars
<1>2. Version' = Version /\ List' = List
  BY Zenon, <1>1 DEF Version, List
<1>3. ReplyInv'
  BY Zenon, <1>1, <1>2 DEF Inv, ReplyInv
<1>4. \A d \in Clnt : Unanswered(d) => Unanswered(d)'
  BY Zenon, <1>1 DEF Answered, Unanswered
<1>5. LateInv'
  <2> SUFFICES ASSUME NEW r \in late' PROVE LateInv!(r)'
    BY Zenon DEF LateInv
  <2>1. CASE r \in late
    BY Zenon, <1>1, <1>2, <1>4, <2>1, Versions DEF Inv, LateInv
  <2>2. CASE r = op[c] /\ r.type = "put" /\ Unanswered(c)
    BY Zenon, <1>1, <1>2, <1>4, <2>2 DEF Inv, OpsInv
  <2> QED
    BY Zenon, <1>1, <2>1, <2>2
<1>6. \A d \in Clnt : Unanswered(d)' => \/ Unanswered(d)
                                        \/ op[d].type = "put" => op[d].version # Version
  BY Zenon, <1>1 DEF Inv, ReplyInv
<1> QED
  BY Zenon, <1>1, <1>3, <1>5, <1>6, ServiceKeeps

\* The handler runs for the client's current RPC.
LEMMA ExecuteKeeps ==
    ASSUME TypeOK, JsonInv, Inv, NEW c \in Clnt, Execute(c), UNCHANGED testVars
    PROVE  Inv'
<1>1. /\ UNCHANGED <<op, pc, res, late>>
      /\ call[c] = "running" /\ call'[c] = "done"
      /\ Handle(op[c]) /\ op[c] \in Request
      /\ reply'[c] = HandlerReply(op[c])
      /\ \A d \in Clnt : d # c => call'[d] = call[d] /\ reply'[d] = reply[d]
  BY Zenon DEF Execute, SetCall, clntVars, testVars, TypeOK, KvTypeOK
<1>2. \A d \in Clnt : d # c => (Answered(d)' <=> Answered(d)) /\ (Unanswered(d)' <=> Unanswered(d))
  BY Zenon, <1>1 DEF Answered, Unanswered
<1>3. op[c].type = "put" => op[c].key = testKey /\ pc[c] # "aget"
  <2>1. op[c].type = "put" => op[c] # GetArgs(c, testKey)
    BY DEF GetArgs
  <2> QED
    BY Zenon, <2>1 DEF JsonInv
<1>4. CASE Installs(op[c])
  <2>1. op[c].type = "put"
    BY Zenon, <1>4 DEF Installs
  <2> QED
    BY Zenon, <1>1, <1>2, <1>3, <1>4, <2>1, InstallKeeps
<1>5. CASE ~Installs(op[c])
  <2>1. UNCHANGED <<KV, VersionMap>> /\ Version' = Version /\ List' = List
    BY Zenon, <1>1, <1>5 DEF Handle, srvVars, Version, List
  <2>2. op[c].type = "put" => op[c].version # Version
    BY Zenon, <1>3, <1>5 DEF Installs, Version
  <2>3. pc[c] = "aget" /\ reply'[c].Err = OK => reply'[c].Version = Version /\ reply'[c].Value = List
    <3>1. pc[c] = "aget" => op[c].type = "get" /\ op[c].key = testKey
      <4>1. pc[c] = "aget" => op[c] = GetArgs(c, testKey)
        BY Zenon DEF JsonInv
      <4> QED
        BY <4>1 DEF GetArgs
    <3>2. pc[c] = "aget" => reply'[c] = GetReply(testKey)
      BY Zenon, <1>1, <3>1 DEF HandlerReply
    <3> QED
      BY <3>2 DEF GetReply, OK, ErrNoKey, Version, List
  <2>4. ReplyInv'
    <3> SUFFICES ASSUME NEW d \in Clnt, Answered(d)' PROVE ReplyInv!(d)!2'
      BY Zenon DEF ReplyInv
    <3>1. CASE d = c
      BY <1>1, <2>1, <2>2, <2>3, <3>1, Versions
    <3>2. CASE d # c
      BY Zenon, <1>1, <1>2, <2>1, <3>2 DEF Inv, ReplyInv
    <3> QED
      BY Zenon, <3>1, <3>2
  <2>5. LateInv'
    <3>1. \A r \in late : r.version = Version /\ op[r.clnt] = r => r.clnt # c
      BY Zenon, <2>2 DEF Inv, LateInv
    <3> QED
      BY Zenon, <1>1, <1>2, <2>1, <3>1, Versions DEF Inv, LateInv
  <2>6. \A d \in Clnt : Unanswered(d)' => Unanswered(d)
    BY Zenon, <1>1, <1>2 DEF Unanswered
  <2> QED
    BY Zenon, <1>1, <2>1, <2>4, <2>5, <2>6, ServiceKeeps
<1> QED
  BY Zenon, <1>4, <1>5

\* A handler that labrpc left behind runs.
LEMMA LateKeeps ==
    ASSUME TypeOK, JsonInv, Inv, NEW r \in late, ExecuteLate(r), UNCHANGED testVars
    PROVE  Inv'
<1>1. /\ UNCHANGED <<op, pc, res, call, reply>>
      /\ late' \in SUBSET late /\ r \in Request /\ Handle(r)
  BY Zenon DEF ExecuteLate, clntVars, testVars, TypeOK, KvTypeOK
<1>2. \A d \in Clnt : (Answered(d)' <=> Answered(d)) /\ (Unanswered(d)' <=> Unanswered(d))
  BY Zenon, <1>1 DEF Answered, Unanswered
<1>3. CASE Installs(r)
  <2>1. r.key = testKey
    BY Zenon DEF JsonInv
  <2> QED
    BY Zenon, <1>1, <1>2, <1>3, <2>1, InstallKeeps
<1>4. CASE ~Installs(r)
  <2>1. UNCHANGED <<KV, VersionMap>> /\ Version' = Version /\ List' = List
    BY Zenon, <1>1, <1>4 DEF Handle, srvVars, Version, List
  <2>2. ReplyInv'
    BY Zenon, <1>1, <1>2, <2>1 DEF Inv, ReplyInv
  <2>3. LateInv'
    BY Zenon, <1>1, <1>2, <2>1, Versions DEF Inv, LateInv
  <2> QED
    BY Zenon, <1>1, <1>2, <2>1, <2>2, <2>3, ServiceKeeps
<1> QED
  BY Zenon, <1>3, <1>4

\* The clerk returns; only a put's ErrVersion becomes something else.
LEMMA ReturnKeeps ==
    ASSUME TypeOK, Inv, NEW c \in Clnt, Return(c), UNCHANGED testVars
    PROVE  Inv'
<1>1. /\ UNCHANGED <<KV, VersionMap, op, pc, res, late>>
      /\ call[c] = "replied" /\ call'[c] = "idle"
      /\ reply'[c].Value = reply[c].Value /\ reply'[c].Version = reply[c].Version
      /\ reply'[c].Err = ClerkErr(c)
      /\ \A d \in Clnt : d # c => call'[d] = call[d] /\ reply'[d] = reply[d]
  BY DEF Return, SetCall, srvVars, clntVars, testVars, TypeOK, KvTypeOK, Reply
<1>2. \A d \in Clnt : (Answered(d)' <=> Answered(d)) /\ (Unanswered(d)' <=> Unanswered(d))
  BY Zenon, <1>1 DEF Answered, Unanswered
<1>3. Version' = Version /\ List' = List
  BY Zenon, <1>1 DEF Version, List
<1>4. ClerkErr(c) = OK => reply[c].Err = OK
  BY Zenon DEF ClerkErr, OK, ErrMaybe
<1>5. ReplyInv'
  <2> SUFFICES ASSUME NEW d \in Clnt, Answered(d)' PROVE ReplyInv!(d)!2'
    BY Zenon DEF ReplyInv
  <2>1. ReplyInv!(d)!2
    BY Zenon, <1>2 DEF Inv, ReplyInv
  <2> QED
    BY Zenon, <1>1, <1>3, <1>4, <2>1
<1>6. LateInv'
  BY Zenon, <1>1, <1>2, <1>3, Versions DEF Inv, LateInv
<1> QED
  BY Zenon, <1>1, <1>2, <1>5, <1>6, ServiceKeeps

\* A goroutine that goes on without its clerk, and did not wait for an append.
LEMMA RestKeeps ==
    ASSUME TypeOK, Inv, NEW c \in Clnt, Rests(c), StartInv',
           ~(c \in Cli /\ pc[c] = "aput" /\ Unanswered(c)),
           \A d \in Clnt : d # c => res'[d] = res[d] /\ (pc'[d] = pc[d] \/ pc[d] = "start")
    PROVE  Inv'
<1>1. /\ UNCHANGED <<KV, VersionMap, call, late>>
      /\ op'[c] = GetArgs(c, testKey)
      /\ \A d \in Clnt : pc'[d] = pc[d] \/ pc'[d] \in Quiet
      /\ pc'[c] \in Quiet
      /\ \A d \in Clnt : d # c => op'[d] = op[d] /\ reply'[d] = reply[d]
  BY Zenon DEF Rests, Forget, srvVars, TypeOK, KvTypeOK
<1>2. op'[c].type = "get" /\ op'[c].clnt = c
  BY <1>1 DEF GetArgs
<1>3. /\ Version' = Version /\ List' = List
      /\ \A d \in Clnt : (Answered(d)' <=> Answered(d)) /\ (Unanswered(d)' <=> Unanswered(d))
      /\ \A d \in Clnt : d # c => Iter(d)' = Iter(d)
  BY Zenon, <1>1 DEF Version, List, Answered, Unanswered, Iter
<1>4. OpsInv'
  BY ZenonT(40), <1>1, <1>2, <1>3 DEF Inv, OpsInv, Quiet
<1>5. PutInv'
  <2> SUFFICES ASSUME NEW d \in Clnt, PutInv!(d)!1' PROVE PutInv!(d)!2'
    BY Zenon DEF PutInv
  <2>1. d # c
    BY Zenon, <1>2
  <2>2. d \in Cli /\ pc[d] = "aput" /\ op[d].value = Append(List, Pair(d, Iter(d)))
    BY Zenon, <1>1, <1>3, <2>1 DEF Inv, PutInv
  <2>3. pc'[d] = "aput" /\ Iter(d)' = Iter(d) /\ op'[d] = op[d]
    BY Zenon, <1>1, <1>3, <2>1, <2>2
  <2> QED
    BY Zenon, <1>3, <2>2, <2>3 DEF Pair
<1>6. ReplyInv'
  <2> SUFFICES ASSUME NEW d \in Clnt, Answered(d)' PROVE ReplyInv!(d)!2'
    BY Zenon DEF ReplyInv
  <2>1. CASE d = c
    BY Zenon, <1>1, <1>2, <2>1 DEF Quiet
  <2>2. CASE d # c
    <3>1. ReplyInv!(d)!2 /\ (pc'[d] = "aget" => pc[d] = "aget")
      BY Zenon, <1>1, <1>3 DEF Inv, ReplyInv, Quiet
    <3>2. op'[d] = op[d] /\ reply'[d] = reply[d] /\ Version' = Version /\ List' = List
      BY Zenon, <1>1, <1>3, <2>2
    <3> QED
      BY <3>1, <3>2
  <2> QED
    BY Zenon, <2>1, <2>2
<1>7. LateInv'
  <2>1. ASSUME NEW r \in late, r.version = Version, Version > 0 PROVE r.clnt # c
    <3>1. op[r.clnt] = r /\ Unanswered(r.clnt) /\ r.type = "put" /\ r.clnt \in Clnt
      BY Zenon, <2>1, Versions DEF Inv, LateInv
    <3> QED
      BY Zenon, <2>1, <3>1 DEF Inv, PutInv
  <2> QED
    BY Zenon, <1>1, <1>3, <2>1, Versions DEF Inv, LateInv
<1> QED
  BY Zenon, <1>4, <1>5, <1>6, <1>7 DEF Inv

\* What the test asks of the clerk: a get, or a put that is over already, creates
\* the key, or appends the client's pair to the list as it is.
Asks(c, q, l) ==
    /\ q.clnt = c
    /\ l \notin {"put", "get", "atleast", "checkget"}
    /\ q.type = "put" =>
         /\ q.version <= Version
         /\ q.version = Version /\ Version > 0 =>
               c \in Cli /\ l = "aput" /\ q.value = Append(List, Pair(c, Iter(c)))

\* A call of the clerk keeps the invariant.
LEMMA CallKeeps ==
    ASSUME TypeOK, Inv, NEW c \in Clnt, NEW q \in Request, NEW l \in PC,
           Invoke(c, q), Goto(c, l), Asks(c, q, l), StartInv', res' = res
    PROVE  Inv'
<1>1. /\ UNCHANGED <<KV, VersionMap, late>>
      /\ call[c] = "idle" /\ call'[c] = "sent" /\ op'[c] = q /\ pc'[c] = l
      /\ \A d \in Clnt : d # c => /\ call'[d] = call[d] /\ reply'[d] = reply[d]
                                  /\ op'[d] = op[d] /\ pc'[d] = pc[d]
  BY Zenon DEF Invoke, Goto, SetCall, srvVars, TypeOK, KvTypeOK
<1>2. /\ Version' = Version /\ List' = List
      /\ ~Answered(c)' /\ ~Unanswered(c)
      /\ \A d \in Clnt : d # c =>
            (Answered(d)' <=> Answered(d)) /\ (Unanswered(d)' <=> Unanswered(d))
      /\ \A d \in Clnt : Iter(d)' = Iter(d)
  BY Zenon, <1>1 DEF Version, List, Answered, Unanswered, Iter
<1>3. OpsInv'
  BY ZenonT(40), <1>1, <1>2 DEF Inv, OpsInv, Asks
<1>4. PutInv'
  <2> SUFFICES ASSUME NEW d \in Clnt, PutInv!(d)!1' PROVE PutInv!(d)!2'
    BY Zenon DEF PutInv
  <2>1. CASE d = c
    BY Zenon, <1>1, <1>2, <2>1 DEF Asks, Pair
  <2>2. CASE d # c
    BY Zenon, <1>1, <1>2, <2>2 DEF Inv, PutInv, Pair
  <2> QED
    BY Zenon, <2>1, <2>2
<1>5. ReplyInv'
  <2> SUFFICES ASSUME NEW d \in Clnt, Answered(d)' PROVE ReplyInv!(d)!2'
    BY Zenon DEF ReplyInv
  <2>1. d # c /\ Answered(d) /\ ReplyInv!(d)!2
    BY Zenon, <1>2 DEF Inv, ReplyInv
  <2> QED
    BY Zenon, <1>1, <1>2, <2>1
<1>6. LateInv'
  <2>1. \A r \in late : r.version = Version /\ Version > 0 => r.clnt # c
    BY Zenon, <1>2 DEF Inv, LateInv
  <2> QED
    BY Zenon, <1>1, <1>2, <2>1, Versions DEF Inv, LateInv
<1> QED
  BY Zenon, <1>3, <1>4, <1>5, <1>6 DEF Inv

\* A send on the done channel meets a client's select.
LEMMA DoneKeeps == ASSUME TypeOK, Inv, NEW c \in Cli, Done(c), StartInv' PROVE Inv'
<1>1. /\ UNCHANGED <<KV, VersionMap, op, call, reply, late, res>>
      /\ pc[c] = "select" /\ c # main
      /\ \A d \in Clnt : pc'[d] = pc[d] \/ (d \in {c, main} /\ pc'[d] \in {"send", "spawned"})
  BY Zenon DEF Done, kvVars, TypeOK, Cli
<1>2. /\ Version' = Version /\ List' = List
      /\ \A d \in Clnt : /\ Answered(d)' <=> Answered(d)
                         /\ Unanswered(d)' <=> Unanswered(d)
                         /\ Iter(d)' = Iter(d)
  BY Zenon, <1>1 DEF Version, List, Answered, Unanswered, Iter
<1>3. OpsInv'
  BY Zenon, <1>1, <1>2 DEF Inv, OpsInv
<1>4. PutInv'
  <2> SUFFICES ASSUME NEW d \in Clnt, PutInv!(d)!1' PROVE PutInv!(d)!2'
    BY Zenon DEF PutInv
  <2>1. d \in Cli /\ pc[d] = "aput" /\ op[d].value = Append(List, Pair(d, Iter(d)))
    BY Zenon, <1>1, <1>2 DEF Inv, PutInv
  <2>2. pc'[d] = "aput"
    BY Zenon, <1>1, <2>1 DEF Cli
  <2> QED
    BY Zenon, <1>1, <1>2, <2>1, <2>2 DEF Pair
<1>5. ReplyInv'
  BY Zenon, <1>1, <1>2 DEF Inv, ReplyInv
<1>6. LateInv'
  BY Zenon, <1>1, <1>2, Versions DEF Inv, LateInv
<1> QED
  BY Zenon, <1>3, <1>4, <1>5, <1>6 DEF Inv

\* A get of OneClientAppend or of its test.
LEMMA GetKeeps ==
    ASSUME JsonValues, TypeOK, Inv, NEW c \in Clnt, NEW l \in {"aget", "check"}, GetAnd(c, l),
           StartInv', res' = res
    PROVE  Inv'
<1>1. GetArgs(c, testKey) \in Request /\ l \in PC
  BY Zenon, TestArgs DEF PC
<1>2. Asks(c, GetArgs(c, testKey), l)
  BY Zenon, TestArgs DEF Asks
<1> QED
  BY Zenon, <1>1, <1>2, CallKeeps DEF GetAnd

\* A step of theirs without the clerk.
LEMMA LocalKeeps ==
    ASSUME TypeOK, Inv, NEW c \in Clnt, NEW l \in Quiet, Local(c, l), StartInv',
           \A d \in Clnt : d # c => res'[d] = res[d],
           ~(c \in Cli /\ pc[c] = "aput" /\ Unanswered(c))
    PROVE  Inv'
<1>1. Rests(c)
  BY Zenon, LocalRests
<1>2. \A d \in Clnt : d # c => pc'[d] = pc[d]
  BY Zenon DEF Local, Goto, TypeOK
<1> QED
  BY Zenon, <1>1, <1>2, RestKeeps

\* The steps of a client.
LEMMA ClientKeeps ==
    ASSUME JsonValues, TypeOK, JsonInv, Inv, test = "OneClientAppend", NEW c \in Cli, Client(c)
    PROVE  Inv'
<1>c. c \in Clnt /\ c # main
  BY Zenon, MainType DEF Cli
<1>s. StartInv'
  <2>1. pc[c] # "start"
    BY Zenon DEF Client, Done, Begin, OnePutPut, OnePutGet, AppendGot, AppendPut, At
  <2>2. ASSUME NEW l, Goto(c, l) PROVE pc'[main] = pc[main]
    BY <2>2, <1>c DEF Goto, TypeOK
  <2>3. Done(c) => pc'[main] = "spawned"
    BY Zenon, <1>c, MainType DEF Done, TypeOK
  <2>4. Done(c) \/ \E l : Goto(c, l)
    BY Zenon DEF Client, Begin, OnePutPut, OnePutGet, AppendGot, AppendPut, GetAnd, PutAnd, Local
  <2> QED
    BY Zenon, <2>1, <2>2, <2>3, <2>4 DEF Inv, StartInv
<1>q. {"select", "fatal"} \subseteq Quiet
  BY Zenon DEF Quiet
<1>n. ASSUME NEW l, At(c, l) PROVE ~Unanswered(c) /\ Answered(c)
  BY Zenon, <1>n DEF At, Unanswered, Answered
<1>1. CASE Done(c)
  BY Zenon, <1>1, <1>s, DoneKeeps
<1>2. CASE Begin(c)
  BY Zenon, <1>2, <1>c, <1>s, GetKeeps DEF Begin
<1>3. CASE OnePutPut(c) \/ OnePutGet(c)
  BY Zenon, <1>3, <1>c DEF OnePutPut, OnePutGet, At, Inv, OpsInv
<1>4. CASE AppendGot(c)
  <2>1. CASE GotJson(c)
    <3> DEFINE v == Append(reply[c].Value, Pair(c, Iter(c)))
               q == PutArgs(c, testKey, v, reply[c].Version)
    <3>1. reply[c].Value \in Json /\ Iter(c) \in Nat /\ reply[c].Version \in Nat
      BY Zenon, <1>4, <1>c, <2>1, IterType, Versions DEF AppendGot, At, GotJson, JsonInv, Answered
    <3>2. v \in Json
      BY Zenon, <1>c, <3>1, JsonFacts
    <3> HIDE DEF v
    <3>3. /\ q \in Request /\ q.clnt = c /\ q.type = "put"
          /\ q.value = v /\ q.version = reply[c].Version
      BY <1>c, <3>1, <3>2, TestArgs
    <3>4. /\ reply[c].Version <= Version
          /\ reply[c].Version = Version => reply[c].Value = List
      BY Zenon, <1>4, <1>c, <1>n, <2>1 DEF AppendGot, At, GotJson, Inv, ReplyInv
    <3>5. Asks(c, q, "aput")
      BY Zenon, <3>3, <3>4 DEF Asks, v
    <3>6. Invoke(c, q) /\ Goto(c, "aput") /\ res' = res
      BY Zenon, <1>4, <2>1 DEF AppendGot, PutAnd, v
    <3>7. "aput" \in PC
      BY Zenon DEF PC
    <3> HIDE DEF q
    <3> QED
      BY Zenon, <1>c, <1>s, <3>3, <3>5, <3>6, <3>7, CallKeeps
  <2>2. CASE ~GotJson(c)
    BY Zenon, <1>4, <1>c, <1>s, <1>q, <1>n, <2>2, LocalKeeps DEF AppendGot
  <2> QED
    BY Zenon, <2>1, <2>2
<1>5. CASE AppendPut(c)
  <2>1. CASE reply[c].Err \in {OK, ErrMaybe}
    <3>1. \A d \in Clnt : d # c => res'[d] = res[d]
      BY Zenon, <1>5, <2>1 DEF AppendPut, Counted, TypeOK
    <3>2. Local(c, "select") /\ ~Unanswered(c)
      BY Zenon, <1>5, <2>1, <1>n DEF AppendPut
    <3> QED
      BY Zenon, <1>c, <1>s, <1>q, <3>1, <3>2, LocalKeeps
  <2>2. CASE reply[c].Err \notin {OK, ErrMaybe}
    BY Zenon, <1>5, <1>c, <1>s, <2>2, GetKeeps DEF AppendPut
  <2> QED
    BY Zenon, <2>1, <2>2
<1> QED
  BY Zenon, <1>1, <1>2, <1>3, <1>4, <1>5 DEF Client

\* The steps of the test's own goroutine.
LEMMA MainKeeps ==
    ASSUME JsonValues, TypeOK, JsonInv, Inv, test = "OneClientAppend", Main
    PROVE  Inv'
<1>c. main \in Clnt /\ main \notin Cli /\ Cli \subseteq Clnt
  BY Zenon, MainType DEF Cli
<1>q. {"signal", "collect", "passed", "fatal", "gone"} \subseteq Quiet
  BY Zenon DEF Quiet
<1>p. ASSUME PutAnd(main, <<>>, 0, "create"), pc[main] \in {"test", "create"}, res' = res
      PROVE  Inv'
  <2> DEFINE q == PutArgs(main, testKey, <<>>, 0)
  <2>1. q \in Request /\ q.clnt = main /\ q.type = "put" /\ q.version = 0
    BY <1>c, JsonFacts, TestArgs
  <2>2. Asks(main, q, "create")
    BY <2>1, Versions DEF Asks
  <2>3. StartInv'
    BY Zenon, <1>p, <1>c DEF PutAnd, Goto, TypeOK, Inv, StartInv
  <2>4. "create" \in PC
    BY Zenon DEF PC
  <2>5. Invoke(main, q) /\ Goto(main, "create")
    BY Zenon, <1>p DEF PutAnd
  <2> HIDE DEF q
  <2> QED
    BY Zenon, <1>p, <1>c, <2>1, <2>2, <2>3, <2>4, <2>5, CallKeeps
<1>w. ASSUME Spawn, pc[main] \in {"test", "create"}, res' = res
      PROVE  Inv'
  <2>1. Rests(main)
    BY Zenon, <1>w, SpawnRests
  <2>2. \A d \in Clnt : d # main => pc[d] = "start"
    BY Zenon, <1>w DEF Inv, StartInv, Cli
  <2>3. StartInv'
    BY Zenon, <1>w, <1>c DEF Spawn, StartInv
  <2> QED
    BY Zenon, <1>w, <1>c, <2>1, <2>2, <2>3, RestKeeps
<1>1. CASE StartTest \/ PutAtLeastOnceJson
  BY Zenon, <1>1, <1>p, <1>w DEF StartTest, PutAtLeastOnceJson, At
<1>2. CASE PutAtLeastOnce \/ CheckGet
  BY Zenon, <1>2, <1>c DEF PutAtLeastOnce, CheckGet, At, Inv, OpsInv
<1>3. ASSUME NEW l \in {"signal", "collect", "passed", "fatal"}, Local(main, l), res' = res
      PROVE  Inv'
  <2>1. StartInv'
    BY Zenon, <1>3, <1>c DEF Local, Goto, TypeOK, StartInv
  <2> QED
    BY Zenon, <1>3, <1>c, <1>q, <2>1, LocalKeeps
<1>4. CASE Signal \/ FinalCheck
  BY Zenon, <1>4, <1>3 DEF Signal, FinalCheck
<1>5. ASSUME NEW c \in Cli, Collect(c) PROVE Inv'
  <2>1. StartInv' /\ pc[c] # "aput" /\ res' = res /\ Local(c, "gone")
    BY Zenon, <1>5, <1>c DEF Collect, Local, Goto, TypeOK, StartInv
  <2> QED
    BY Zenon, <1>c, <1>q, <2>1, LocalKeeps
<1>6. CASE ReadBack
  <2>1. StartInv' /\ res' = res /\ GetAnd(main, "check")
    BY Zenon, <1>6, <1>c DEF ReadBack, GetAnd, Goto, TypeOK, StartInv
  <2> QED
    BY Zenon, <1>c, <2>1, GetKeeps
<1> QED
  BY Zenon, <1>1, <1>2, <1>4, <1>5, <1>6 DEF Main

\* AppendInv is inductive, relative to the types.
LEMMA InvStep == JsonValues /\ TypeOK /\ JsonInv /\ AppendInv /\ [Next]_vars => AppendInv'
<1> SUFFICES ASSUME JsonValues, TypeOK, JsonInv, AppendInv, [Next]_vars,
                    test' = "OneClientAppend"
             PROVE  Inv'
  BY Zenon DEF AppendInv, Inv
<1>t. test = "OneClientAppend"
  BY Zenon, ClientSteps, MainSteps DEF Next, Service, HarnessStep, testVars, vars
<1>i. Inv
  BY Zenon, <1>t DEF AppendInv, Inv
<1>1. CASE Service
  BY Zenon, <1>1, <1>i, TransportKeeps, ExecuteKeeps, ReturnKeeps, LateKeeps DEF Service
<1>2. CASE Main \/ \E c \in Cli : Client(c)
  BY Zenon, <1>2, <1>t, <1>i, MainKeeps, ClientKeeps
<1>3. CASE UNCHANGED vars
  <2>1. UNCHANGED <<KV, VersionMap, op, pc, res, reply, call, late>>
    BY Zenon, <1>3 DEF vars, kvVars, testVars
  <2>2. /\ Version' = Version /\ List' = List
        /\ \A d \in Clnt : (Answered(d)' <=> Answered(d)) /\ (Unanswered(d)' <=> Unanswered(d))
    BY Zenon, <2>1 DEF Version, List, Answered, Unanswered
  <2>3. ReplyInv' /\ LateInv'
    BY Zenon, <1>i, <2>1, <2>2, Versions DEF Inv, ReplyInv, LateInv
  <2> QED
    BY Zenon, <1>i, <2>1, <2>2, <2>3, ServiceKeeps
<1> QED
  BY Zenon, <1>1, <1>2, <1>3 DEF Next

\* In OneClientAppend, the one put that can still change the list is an unanswered
\* append to the list as it is.
THEOREM AppendInvariant ==
    ASSUME JsonValues
    PROVE  Spec => []AppendInv
<1>1. Init => AppendInv
  <2> SUFFICES ASSUME Init PROVE Inv
    BY Zenon DEF AppendInv, Inv
  <2>1. PICK k \in Key : op = [c \in Clnt |-> GetArgs(c, k)]
    BY Zenon DEF Init, KvInit
  <2>2. \A c \in Clnt : op[c].clnt = c /\ op[c].type = "get"
    BY Zenon, <2>1 DEF GetArgs
  <2>3. \A c \in Clnt : pc[c] \in {"test", "start"} /\ (c \in Cli => pc[c] = "start")
    BY Zenon DEF Init, Cli
  <2>4. late = {}
    BY Zenon DEF Init, KvInit
  <2> QED
    BY Zenon, <2>2, <2>3, <2>4, MainType DEF Inv, StartInv, OpsInv, PutInv, ReplyInv, LateInv
<1> QED
  BY <1>1, InvStep, TypeCorrect, PTL DEF Spec

\* A step that changes the list is a run of the handler, for a put of it.
LEMMA ListStep ==
    ASSUME JsonValues, TypeOK, JsonInv, [Next]_vars, List' # List
    PROVE  \E r \in Request :
              /\ r.type = "put" /\ r.version = Version /\ List' = r.value
              /\ r \in late \/ \E c \in Clnt : r = op[c] /\ call[c] = "running"
<1>h. ASSUME NEW r \in Request, Handle(r), r.type = "put" => r.key = testKey
      PROVE  r.type = "put" /\ r.version = Version /\ List' = r.value
  <2>1. Installs(r)
    BY Zenon, <1>h DEF Handle, srvVars, List
  <2> QED
    BY Zenon, <1>h, <2>1, MainType DEF Handle, Installs, List, Version, TypeOK, KvTypeOK
<1>1. ~HarnessStep
  BY Zenon DEF HarnessStep, Rests, Calls, Done, Forget, Invoke, srvVars, kvVars, List
<1>2. Service
  BY Zenon, <1>1, ClientSteps, MainSteps DEF Next, vars, kvVars, List
<1>3. ASSUME NEW c \in Clnt, Transport(c) \/ Return(c) PROVE FALSE
  BY Zenon, <1>3, TransportFacts DEF Return, srvVars, List
<1>4. ASSUME NEW c \in Clnt, Execute(c)
      PROVE  /\ op[c] \in Request /\ call[c] = "running"
             /\ op[c].type = "put" /\ op[c].version = Version /\ List' = op[c].value
  BY Zenon, <1>4, <1>h, Versions DEF Execute, JsonInv
<1>5. ASSUME NEW r \in late, ExecuteLate(r)
      PROVE  r \in Request /\ r.type = "put" /\ r.version = Version /\ List' = r.value
  BY Zenon, <1>5, <1>h, Versions DEF ExecuteLate, JsonInv
<1> QED
  BY Zenon, <1>2, <1>3, <1>4, <1>5 DEF Service

\* No append is lost to another client's, comes late or comes twice.
THEOREM AppendsAreKept ==
    ASSUME JsonValues
    PROVE  Spec => AppendsKept
<1> DEFINE Kept == test = "OneClientAppend" /\ Version > 0 /\ List' # List =>
                       \E c \in Cli : List' = Append(List, Pair(c, Iter(c)))
<1>1. TypeOK /\ JsonInv /\ AppendInv /\ [Next]_vars => [Kept]_vars
  <2> SUFFICES ASSUME TypeOK, JsonInv, AppendInv, [Next]_vars,
                      test = "OneClientAppend", Version > 0, List' # List
               PROVE  \E c \in Cli : List' = Append(List, Pair(c, Iter(c)))
    OBVIOUS
  <2>1. PICK r \in Request :
              /\ r.type = "put" /\ r.version = Version /\ List' = r.value
              /\ r \in late \/ \E c \in Clnt : r = op[c] /\ call[c] = "running"
    BY Zenon, ListStep
  <2>2. PICK c \in Clnt : r = op[c] /\ Unanswered(c)
    BY Zenon, <2>1, Versions DEF AppendInv, LateInv, Unanswered
  <2> QED
    BY Zenon, <2>1, <2>2 DEF AppendInv, PutInv
<1> QED
  BY <1>1, TypeCorrect, AppendInvariant, PTL DEF Spec, AppendsKept

-----------------------------------------------------------------------------
(* OnePut *)

\* What OnePut puts.
Entry(c) == <<Pair(c, ver[c])>>

\* The put for version ver[c] has taken effect, and is the last one to do so
\* while the version is ver[c] + 1.
Stored(c) == Version > ver[c] /\ (Version = ver[c] + 1 => List = Entry(c))

\* Once the clerk has got OK for OnePut's put, it is stored, and the Get that
\* follows has not read anything else for the next version.
OwnInv ==
    \A c \in Cli :
        /\ pc[c] = "put" => op[c] = PutArgs(c, testKey, Entry(c), ver[c])
        /\ pc[c] = "put" /\ Answered(c) /\ reply[c].Err = OK => Stored(c)
        /\ pc[c] = "get" => op[c] = GetArgs(c, testKey)
        /\ pc[c] = "get" /\ putErr[c] = OK => Stored(c)
        /\ pc[c] = "get" /\ putErr[c] = OK /\ Answered(c) /\ reply[c].Version = ver[c] + 1 =>
               reply[c].Value = Entry(c)

\* The value changes only together with the version, which grows.
LEMMA VersionStep ==
    ASSUME JsonValues, TypeOK, JsonInv, [Next]_vars
    PROVE  Version' = Version + 1 \/ (Version' = Version /\ List' = List)
<1>h. ASSUME NEW r \in Request, Handle(r), r.type = "put" => r.key = testKey
      PROVE  Version' = Version + 1 \/ (Version' = Version /\ List' = List)
  <2>1. CASE Installs(r)
    BY <1>h, <2>1, MainType DEF Handle, Installs, Version, TypeOK, KvTypeOK
  <2>2. CASE ~Installs(r)
    BY Zenon, <1>h, <2>2 DEF Handle, srvVars, Version, List
  <2> QED
    BY Zenon, <2>1, <2>2
<1>1. HarnessStep => Version' = Version /\ List' = List
  BY Zenon DEF HarnessStep, Rests, Calls, Done, Forget, Invoke, srvVars, kvVars, Version, List
<1>2. CASE UNCHANGED vars
  BY Zenon, <1>2 DEF vars, kvVars, Version, List
<1>3. ASSUME NEW c \in Clnt, Transport(c) \/ Return(c) PROVE Version' = Version /\ List' = List
  BY Zenon, <1>3, TransportFacts DEF Return, srvVars, Version, List
<1>4. ASSUME NEW c \in Clnt, Execute(c)
      PROVE  Version' = Version + 1 \/ (Version' = Version /\ List' = List)
  BY Zenon, <1>4, <1>h, Versions DEF Execute, JsonInv
<1>5. ASSUME NEW r \in late, ExecuteLate(r)
      PROVE  Version' = Version + 1 \/ (Version' = Version /\ List' = List)
  BY Zenon, <1>5, <1>h, Versions DEF ExecuteLate, JsonInv
<1> QED
  BY Zenon, <1>1, <1>2, <1>3, <1>4, <1>5, ClientSteps, MainSteps DEF Next, Service

\* A put that is stored stays so, or its version is left behind.
LEMMA StoredKeeps ==
    ASSUME JsonValues, TypeOK, JsonInv, [Next]_vars, NEW c \in Clnt, ver'[c] = ver[c], Stored(c)
    PROVE  Stored(c)'
<1>1. Version \in Nat /\ ver[c] \in Nat
  BY Zenon, Versions, ReplyFacts
<1>2. Entry(c)' = Entry(c)
  BY Zenon DEF Entry, Pair
<1> QED
  BY <1>1, <1>2, VersionStep DEF Stored

\* What a step of the service does to a client's reply.
LEMMA ReplyStep ==
    ASSUME TypeOK, Service, NEW c \in Clnt, Answered(c)'
    PROVE  \/ /\ Answered(c)
              /\ reply'[c].Value = reply[c].Value /\ reply'[c].Version = reply[c].Version
              /\ reply'[c].Err = OK => reply[c].Err = OK
           \/ Execute(c)
<1>1. ASSUME NEW d \in Clnt, Transport(d)
      PROVE  Answered(c) /\ reply'[c] = reply[c]
  BY Zenon, <1>1, TransportFacts
<1>2. ASSUME NEW d \in Clnt, d # c, Execute(d) \/ Return(d)
      PROVE  Answered(c) /\ reply'[c] = reply[c]
  BY Zenon, <1>2 DEF Execute, Return, SetCall, Answered, TypeOK, KvTypeOK
<1>3. CASE Return(c)
  <2>1. ClerkErr(c) = OK => reply[c].Err = OK
    BY Zenon DEF ClerkErr, OK, ErrMaybe
  <2> QED
    BY <1>3, <2>1 DEF Return, Answered, TypeOK, KvTypeOK, Reply
<1>4. ASSUME NEW r \in late, ExecuteLate(r)
      PROVE  Answered(c) /\ reply'[c] = reply[c]
  BY Zenon, <1>4 DEF ExecuteLate, Answered
<1> QED
  BY Zenon, <1>1, <1>2, <1>3, <1>4 DEF Service

\* The service keeps OwnInv: OK is the answer of a run that stored the entry, and
\* a Get reads no other value for the version after it.
LEMMA ServiceOwn ==
    ASSUME JsonValues, TypeOK, JsonInv, OwnInv, Service
    PROVE  OwnInv'
<1> SUFFICES ASSUME NEW c \in Cli PROVE OwnInv!(c)'
  BY Zenon DEF OwnInv
<1>c. c \in Clnt
  BY Zenon, MainType
<1>n. [Next]_vars
  BY Zenon DEF Next
<1>1. /\ UNCHANGED <<pc, ver, putErr>> /\ op' = op
      /\ Version \in Nat /\ ver[c] \in Nat
      /\ Entry(c)' = Entry(c)
  <2>1. UNCHANGED <<pc, ver, putErr>>
    BY Zenon DEF Service, testVars
  <2>2. op' = op
    BY Zenon, TransportFacts DEF Service, Execute, Return, ExecuteLate, clntVars
  <2>3. Version \in Nat /\ ver[c] \in Nat
    BY Zenon, <1>c, Versions, ReplyFacts
  <2> QED
    BY Zenon, <2>1, <2>2, <2>3 DEF Entry, Pair
<1>2. /\ PutArgs(c, testKey, Entry(c), ver[c])' = PutArgs(c, testKey, Entry(c), ver[c])
      /\ GetArgs(c, testKey)' = GetArgs(c, testKey)
  BY Zenon, <1>1 DEF PutArgs, GetArgs
<1>3. Stored(c) => Stored(c)'
  BY Zenon, <1>c, <1>n, <1>1, StoredKeeps
<1>4. ASSUME pc[c] = "put", Answered(c)', reply'[c].Err = OK PROVE Stored(c)'
  <2>1. CASE Execute(c)
    <3>1. /\ op[c].type = "put" /\ op[c].key = testKey
          /\ op[c].version = ver[c] /\ op[c].value = Entry(c)
      <4>1. op[c] = PutArgs(c, testKey, Entry(c), ver[c])
        BY Zenon, <1>4 DEF OwnInv
      <4> QED
        BY <4>1 DEF PutArgs
    <3>2. PutErr(op[c]) = OK
      BY Zenon, <1>4, <1>c, <2>1, <3>1 DEF Execute, HandlerReply, PutReply, TypeOK, KvTypeOK
    <3>3. Installs(op[c])
      BY Zenon, <3>2 DEF PutErr, OK, ErrNoKey, ErrVersion
    <3>4. Version' = ver[c] + 1 /\ List' = Entry(c)
      BY Zenon, <2>1, <3>1, <3>3, MainType DEF Execute, Handle, Version, List, TypeOK, KvTypeOK
    <3> QED
      BY <1>1, <3>4 DEF Stored
  <2> QED
    BY Zenon, <1>3, <1>4, <1>c, <2>1, ReplyStep DEF OwnInv
<1>5. ASSUME pc[c] = "get", putErr[c] = OK, Answered(c)', reply'[c].Version = ver[c] + 1
      PROVE  reply'[c].Value = Entry(c)
  <2>1. CASE Execute(c)
    <3>1. op[c].type = "get" /\ op[c].key = testKey
      <4>1. op[c] = GetArgs(c, testKey)
        BY Zenon, <1>5 DEF OwnInv
      <4> QED
        BY <4>1 DEF GetArgs
    <3>2. reply'[c] = GetReply(testKey)
      BY Zenon, <1>c, <2>1, <3>1 DEF Execute, HandlerReply, TypeOK, KvTypeOK
    <3>3. reply'[c].Version = Version /\ reply'[c].Value = List
      BY <1>5, <1>1, <3>2 DEF GetReply, Version, List
    <3> QED
      BY Zenon, <1>5, <3>3 DEF OwnInv, Stored
  <2> QED
    BY Zenon, <1>5, <1>c, <2>1, ReplyStep DEF OwnInv
<1> QED
  BY Zenon, <1>1, <1>2, <1>3, <1>4, <1>5 DEF OwnInv

\* The step leaves a client that is in OnePut alone.
Alone(d) ==
    \/ pc'[d] \notin {"put", "get"}
    \/ /\ pc'[d] = pc[d] /\ op'[d] = op[d] /\ call'[d] = call[d] /\ reply'[d] = reply[d]
       /\ ver'[d] = ver[d] /\ putErr'[d] = putErr[d]

\* Such a client keeps its part of the invariant.
LEMMA AloneOwn ==
    ASSUME OwnInv, UNCHANGED <<KV, VersionMap>>, NEW d \in Cli, Alone(d)
    PROVE  OwnInv!(d)'
<1>1. CASE pc'[d] \notin {"put", "get"}
  BY Zenon, <1>1
<1>2. CASE /\ pc'[d] = pc[d] /\ op'[d] = op[d] /\ call'[d] = call[d] /\ reply'[d] = reply[d]
           /\ ver'[d] = ver[d] /\ putErr'[d] = putErr[d]
  <2>1. /\ Entry(d)' = Entry(d)
        /\ PutArgs(d, testKey, Entry(d), ver[d])' = PutArgs(d, testKey, Entry(d), ver[d])
        /\ GetArgs(d, testKey)' = GetArgs(d, testKey)
    BY Zenon, <1>2 DEF Entry, Pair, PutArgs, GetArgs
  <2>2. Stored(d)' <=> Stored(d)
    BY Zenon, <1>2, <2>1 DEF Stored, Version, List
  <2>3. Answered(d)' <=> Answered(d)
    BY Zenon, <1>2 DEF Answered
  <2> QED
    BY Zenon, <1>2, <2>1, <2>2, <2>3 DEF OwnInv
<1> QED
  BY Zenon, <1>1, <1>2 DEF Alone

\* The clerk of one client does not touch the others.
LEMMA OneClerk ==
    ASSUME TypeOK, NEW c \in Clnt,
           (\E l : GetAnd(c, l) \/ Local(c, l)) \/ \E v, n, l : PutAnd(c, v, n, l)
    PROVE  /\ UNCHANGED <<KV, VersionMap>>
           /\ \A d \in Clnt : d # c => /\ pc'[d] = pc[d] /\ op'[d] = op[d]
                                       /\ call'[d] = call[d] /\ reply'[d] = reply[d]
BY DEF GetAnd, PutAnd, Local, Goto, Forget, Invoke, SetCall, srvVars, TypeOK, KvTypeOK

\* The steps of the test's own goroutine.
LEMMA MainOwn == ASSUME TypeOK, OwnInv, Main PROVE OwnInv'
<1>c. main \in Clnt /\ main \notin Cli /\ Cli \subseteq Clnt
  BY Zenon, MainType DEF Cli
<1>v. putErr' = putErr /\ \A d \in Cli : ver'[d] = ver[d]
  BY Zenon, <1>c DEF Main, StartTest, PutAtLeastOnceJson, PutAtLeastOnce, CheckGet, Signal, Collect,
              ReadBack, FinalCheck, TypeOK
<1>1. CASE Spawn
  <2>1. UNCHANGED <<KV, VersionMap>> /\ \A d \in Cli : Alone(d)
    BY Zenon, <1>1, <1>c DEF Spawn, Forget, srvVars, Alone
  <2> QED
    BY Zenon, <2>1, AloneOwn DEF OwnInv
<1>2. CASE (\E l : GetAnd(main, l) \/ Local(main, l)) \/ \E v, n, l : PutAnd(main, v, n, l)
  <2>1. UNCHANGED <<KV, VersionMap>> /\ \A d \in Cli : Alone(d)
    BY Zenon, <1>2, <1>c, <1>v, OneClerk DEF Alone
  <2> QED
    BY <2>1, AloneOwn DEF OwnInv
<1>3. ASSUME NEW c \in Cli, Local(c, "gone") PROVE OwnInv'
  <2>1. pc'[c] = "gone"
    BY Zenon, <1>3, <1>c DEF Local, Goto, TypeOK
  <2>2. UNCHANGED <<KV, VersionMap>> /\ \A d \in Cli : Alone(d)
    BY <1>3, <1>c, <1>v, <2>1, OneClerk DEF Alone
  <2> QED
    BY Zenon, <2>2, AloneOwn DEF OwnInv
<1>4. CASE StartTest \/ PutAtLeastOnceJson \/ PutAtLeastOnce
  BY Zenon, <1>4, <1>1, <1>2 DEF StartTest, PutAtLeastOnceJson, PutAtLeastOnce
<1>5. CASE CheckGet \/ Signal \/ ReadBack \/ FinalCheck
  BY Zenon, <1>5, <1>2 DEF CheckGet, Signal, ReadBack, FinalCheck
<1> QED
  BY Zenon, <1>3, <1>4, <1>5 DEF Main, Collect

\* The steps of a client.
LEMMA ClientOwn ==
    ASSUME TypeOK, JsonInv, OwnInv, NEW c \in Cli, Client(c)
    PROVE  OwnInv'
<1>c. c \in Clnt /\ c # main /\ Cli \subseteq Clnt
  BY Zenon, MainType DEF Cli
<1>v. \A d \in Clnt : d # c => ver'[d] = ver[d] /\ putErr'[d] = putErr[d]
  BY Zenon DEF Client, Done, Begin, OnePutPut, OnePutGet, AppendGot, AppendPut, TypeOK
<1>1. CASE Done(c)
  <2>1. /\ UNCHANGED <<KV, VersionMap, op, call, reply, ver, putErr>>
        /\ \A d \in Clnt : pc'[d] = pc[d] \/ pc'[d] \in {"send", "spawned"}
    BY Zenon, <1>1 DEF Done, kvVars, TypeOK
  <2>2. \A d \in Cli : Alone(d)
    BY Zenon, <2>1, <1>c DEF Alone
  <2> QED
    BY Zenon, <2>1, <2>2, AloneOwn DEF OwnInv
<1>2. CASE ~Done(c)
  <2>1. (\E l : GetAnd(c, l) \/ Local(c, l)) \/ \E v, n, l : PutAnd(c, v, n, l)
    BY Zenon, <1>2 DEF Client, Begin, OnePutPut, OnePutGet, AppendGot, AppendPut
  <2>2. UNCHANGED <<KV, VersionMap>> /\ \A d \in Cli : d # c => Alone(d)
    BY Zenon, <2>1, <1>c, <1>v, OneClerk DEF Alone
  <2>3. SUFFICES OwnInv!(c)'
    BY Zenon, <2>2, AloneOwn DEF OwnInv
  <2>p. ASSUME NEW n \in Nat, ver'[c] = n, PutAnd(c, <<Pair(c, n)>>, n, "put")
        PROVE  OwnInv!(c)'
    <3>1. pc'[c] = "put" /\ op'[c] = PutArgs(c, testKey, <<Pair(c, n)>>, n) /\ ~Answered(c)'
      BY Zenon, <2>p, <1>c DEF PutAnd, Goto, Invoke, SetCall, Answered, TypeOK, KvTypeOK
    <3>2. PutArgs(c, testKey, Entry(c), ver[c])' = PutArgs(c, testKey, <<Pair(c, n)>>, n)
      BY Zenon, <2>p DEF PutArgs, Entry, Pair
    <3> QED
      BY Zenon, <3>1, <3>2
  <2>o. ASSUME NEW l \in {"aget", "aput", "select", "fatal"},
               GetAnd(c, l) \/ Local(c, l) \/ \E v, n : PutAnd(c, v, n, l)
        PROVE  OwnInv!(c)'
    <3>1. pc'[c] = l
      BY Zenon, <2>o, <1>c DEF GetAnd, PutAnd, Local, Goto, TypeOK
    <3> QED
      BY Zenon, <3>1
  <2>4. CASE Begin(c)
    <3>1. ver'[c] = ver[c] /\ ver[c] \in Nat
      BY Zenon, <2>4, <1>c, ReplyFacts DEF Begin
    <3> QED
      BY Zenon, <2>4, <3>1, <2>p, <2>o DEF Begin
  <2>5. CASE OnePutPut(c)
    <3>1. CASE Local(c, "fatal")
      BY Zenon, <3>1, <2>o
    <3>2. CASE GetAnd(c, "get")
      <4>1. /\ pc'[c] = "get" /\ op'[c] = GetArgs(c, testKey) /\ ~Answered(c)'
            /\ putErr'[c] = reply[c].Err /\ ver'[c] = ver[c]
        BY Zenon, <2>5, <3>2, <1>c
           DEF OnePutPut, GetAnd, Goto, Invoke, SetCall, Answered, TypeOK, KvTypeOK
      <4>2. reply[c].Err = OK => Stored(c)
        BY Zenon, <2>5 DEF OnePutPut, At, Answered, OwnInv
      <4>3. Stored(c)' <=> Stored(c)
        BY Zenon, <2>2, <4>1 DEF Stored, Version, List, Entry, Pair
      <4>4. GetArgs(c, testKey)' = GetArgs(c, testKey)
        BY Zenon DEF GetArgs
      <4> QED
        BY Zenon, <4>1, <4>2, <4>3, <4>4
    <3> QED
      BY Zenon, <2>5, <3>1, <3>2 DEF OnePutPut
  <2>6. CASE OnePutGet(c)
    <3>1. CASE Local(c, "fatal") \/ Local(c, "select")
      BY Zenon, <3>1, <2>o
    <3>2. CASE /\ PutAnd(c, <<Pair(c, reply[c].Version)>>, reply[c].Version, "put")
               /\ ver' = [ver EXCEPT ![c] = reply[c].Version]
      <4>1. reply[c].Version \in Nat /\ ver'[c] = reply[c].Version
        BY Zenon, <3>2, <1>c, ReplyFacts DEF TypeOK
      <4> QED
        BY Zenon, <3>2, <4>1, <2>p
    <3> QED
      BY Zenon, <2>6, <3>1, <3>2 DEF OnePutGet
  <2>7. CASE AppendGot(c) \/ AppendPut(c)
    BY Zenon, <2>7, <2>o DEF AppendGot, AppendPut
  <2> QED
    BY Zenon, <1>2, <2>4, <2>5, <2>6, <2>7 DEF Client
<1> QED
  BY Zenon, <1>1, <1>2

\* What a successful put of OnePut's has stored, in every state.
THEOREM OwnInvariant ==
    ASSUME JsonValues
    PROVE  Spec => []OwnInv
<1>1. Init => OwnInv
  BY Zenon, MainType DEF Init, OwnInv
<1>2. TypeOK /\ JsonInv /\ OwnInv /\ [Next]_vars => OwnInv'
  <2> SUFFICES ASSUME TypeOK, JsonInv, OwnInv, [Next]_vars PROVE OwnInv'
    OBVIOUS
  <2>1. CASE UNCHANGED vars
    <3>1. UNCHANGED <<KV, VersionMap>> /\ \A d \in Cli : Alone(d)
      BY Zenon, <2>1 DEF vars, kvVars, testVars, Alone
    <3> QED
      BY Zenon, <3>1, AloneOwn DEF OwnInv
  <2> QED
    BY Zenon, <2>1, ServiceOwn, MainOwn, ClientOwn DEF Next
<1> QED
  BY <1>1, <1>2, TypeCorrect, PTL DEF Spec

\* "my put?" has only one answer: whatever the network loses, the value that
\* OnePut reads for the version after its successful put is its own.
THEOREM OwnPutIsRead ==
    ASSUME JsonValues
    PROVE  Spec => []OwnPut
<1>1. OwnInv => OwnPut
  BY Zenon DEF OwnInv, OwnPut, At, Answered, Entry
<1> QED
  BY <1>1, OwnInvariant, PTL

-----------------------------------------------------------------------------
(* What the clerks know *)

\* The clerk has got OK for its put or ErrMaybe, or will not return anything else:
\* it has sent the put more than once, or is about to.
Sure(c) ==
    \/ call[c] = "failed" \/ ~firstAttempt[c]
    \/ Answered(c) /\ reply[c].Err \in {OK, ErrMaybe}

\* No put is ahead of the key's version.  The version is beyond that of a put that
\* has been answered, so that the server does not say ErrNoKey, and a clerk that
\* is sure returns OK or ErrMaybe.
ClerkOk(c) ==
    /\ op[c].clnt = c /\ ver[c] <= Version
    /\ op[c].type = "put" =>
         /\ op[c].version <= Version
         /\ Answered(c) => op[c].version # Version /\ reply[c].Err # ErrNoKey
         /\ call[c] = "idle" /\ Sure(c) => reply[c].Err \in {OK, ErrMaybe}

\* A put left behind can take effect only while its client waits for it, and then
\* the client's clerk sends it again.
LateOk ==
    \A r \in late :
        /\ r.type = "put" /\ r.version <= Version
        /\ r.version = Version =>
              /\ op[r.clnt] = r /\ Unanswered(r.clnt)
              /\ call[r.clnt] = "failed" \/ ~firstAttempt[r.clnt]

ClerkInv ==
    /\ List = NoValue <=> Version = 0
    /\ \A c \in Clnt : ClerkOk(c)
    /\ LateOk

\* The service leaves a client alone.
Untouched(d) ==
    call'[d] = call[d] /\ reply'[d] = reply[d] /\ firstAttempt'[d] = firstAttempt[d]

\* What the network does to a call, and the clerk when it sends again.
Transported(d) ==
    /\ call[d] # "idle" /\ call'[d] \in CallState \ {"idle"}
    /\ reply'[d] = reply[d] \/ (call'[d] = "failed" /\ reply'[d] = PutReply(OK))
    /\ IF call[d] = "failed"
       THEN call'[d] = "sent" /\ ~firstAttempt'[d]
       ELSE firstAttempt'[d] = firstAttempt[d]
    /\ Answered(d)' => Answered(d) /\ reply'[d] = reply[d]
    /\ Answered(d) => Answered(d)' \/ call'[d] = "failed"
    /\ call'[d] = "failed" => Unreliable \/ ~enabled[d]

\* What the service may do to a client.
LEMMA ServiceViews ==
    ASSUME TypeOK, Service, NEW d \in Clnt
    PROVE  Untouched(d) \/ Execute(d) \/ Return(d) \/ Transported(d)
<1>t. /\ call \in [Clnt -> CallState] /\ reply \in [Clnt -> Reply]
      /\ firstAttempt \in [Clnt -> BOOLEAN]
  BY Zenon DEF TypeOK, KvTypeOK
<1>1. ASSUME NEW c \in Clnt, c # d, Transport(c) \/ Execute(c) \/ Return(c)
      PROVE  Untouched(d)
  BY Zenon, <1>1, <1>t DEF Transport, Dispatch, LoseRequest, Abandon, LoseReply, Deliver, Enable, Resend,
     Execute, Return, SetCall, clntVars, Untouched
<1>2. ASSUME NEW r \in late, ExecuteLate(r) PROVE Untouched(d)
  BY Zenon, <1>2 DEF ExecuteLate, clntVars, Untouched
<1>3. CASE Enable(d)
  BY Zenon, <1>3 DEF Enable, clntVars, Untouched
<1>4. CASE Dispatch(d) \/ LoseRequest(d) \/ Abandon(d)
  BY Zenon, <1>4, <1>t DEF Dispatch, LoseRequest, Abandon, SetCall, clntVars, Transported, CallState, Answered
<1>5. CASE LoseReply(d) \/ Deliver(d)
  BY Zenon, <1>5, <1>t DEF LoseReply, Deliver, SetCall, clntVars, Transported, CallState, Answered
<1>6. CASE Resend(d)
  BY Zenon, <1>6, <1>t DEF Resend, SetCall, Transported, CallState, Answered
<1> QED
  BY Zenon, <1>1, <1>2, <1>3, <1>4, <1>5, <1>6 DEF Service, Transport

\* What the service leaves alone in any case.
LEMMA ServiceFrame ==
    ASSUME TypeOK, Service
    PROVE  op' = op /\ UNCHANGED <<test, pc, ver, putErr, res>>
<1>1. UNCHANGED <<test, pc, ver, putErr, res>>
  BY Zenon DEF Service, testVars
<1>2. op' = op
  BY Zenon, TransportFacts DEF Service, Execute, Return, ExecuteLate, clntVars
<1> QED
  BY Zenon, <1>1, <1>2

\* The handler answers a put.
LEMMA PutView ==
    ASSUME TypeOK, JsonInv, NEW c \in Clnt, Execute(c), op[c].type = "put"
    PROVE  /\ call[c] = "running" /\ call'[c] = "done" /\ firstAttempt' = firstAttempt
           /\ IF op[c].version = Version
              THEN reply'[c].Err = OK /\ Version' = Version + 1 /\ List' = op[c].value
              ELSE /\ reply'[c].Err = IF Version = 0 THEN ErrNoKey ELSE ErrVersion
                   /\ Version' = Version /\ List' = List
<1>1. /\ call[c] = "running" /\ call'[c] = "done" /\ firstAttempt' = firstAttempt
      /\ Handle(op[c]) /\ reply'[c] = PutReply(PutErr(op[c])) /\ op[c].key = testKey
  BY Zenon DEF Execute, HandlerReply, SetCall, clntVars, TypeOK, KvTypeOK, JsonInv
<1>2. Installs(op[c]) <=> op[c].version = Version
  BY Zenon, <1>1 DEF Installs, Version
<1>3. reply'[c].Err = PutErr(op[c])
  BY <1>1 DEF PutReply
<1>4. CASE op[c].version = Version
  BY Zenon, <1>1, <1>2, <1>3, <1>4, MainType DEF Handle, PutErr, Version, List, TypeOK, KvTypeOK
<1>5. CASE op[c].version # Version
  BY Zenon, <1>1, <1>2, <1>3, <1>5 DEF Handle, PutErr, Version, List, srvVars
<1> QED
  BY Zenon, <1>1, <1>4, <1>5

\* The handler answers a get.
LEMMA GetView ==
    ASSUME TypeOK, NEW c \in Clnt, Execute(c), op[c] = GetArgs(c, testKey)
    PROVE  /\ call[c] = "running" /\ call'[c] = "done" /\ firstAttempt' = firstAttempt
           /\ Version' = Version /\ List' = List
           /\ reply'[c].Err = IF List = NoValue THEN ErrNoKey ELSE OK
           /\ List # NoValue => reply'[c].Value = List /\ reply'[c].Version = Version
<1>g. op[c].type = "get" /\ op[c].key = testKey
  BY DEF GetArgs
<1>1. /\ call[c] = "running" /\ call'[c] = "done" /\ firstAttempt' = firstAttempt
      /\ Handle(op[c]) /\ reply'[c] = GetReply(testKey)
  BY Zenon, <1>g DEF Execute, HandlerReply, SetCall, clntVars, TypeOK, KvTypeOK
<1>2. Version' = Version /\ List' = List
  BY Zenon, <1>1, <1>g DEF Handle, Installs, srvVars, Version, List
<1> QED
  BY <1>1, <1>2 DEF GetReply, Version, List

\* The clerk returns.
LEMMA ReturnView ==
    ASSUME TypeOK, NEW c \in Clnt, Return(c)
    PROVE  /\ call[c] = "replied" /\ call'[c] = "idle" /\ firstAttempt' = firstAttempt
           /\ Version' = Version /\ List' = List
           /\ reply'[c].Value = reply[c].Value /\ reply'[c].Version = reply[c].Version
           /\ reply'[c].Err = ClerkErr(c)
BY DEF Return, SetCall, clntVars, srvVars, Version, List, TypeOK, KvTypeOK, Reply

\* A put of c's takes effect: c waits for it, and its clerk is sure of it from now on.
Installed(c) ==
    /\ op[c].type = "put" /\ op[c].version = Version /\ Unanswered(c)
    /\ Version' = Version + 1 /\ List' = op[c].value /\ List' # NoValue
    /\ Sure(c)' /\ (Answered(c)' => reply'[c].Err = OK)

\* The service changes the key only by such a put.
LEMMA ServerStep ==
    ASSUME JsonValues, TypeOK, JsonInv, ClerkInv, Service
    PROVE  \/ Version' = Version /\ List' = List
           \/ \E c \in Clnt : Installed(c)
<1>j. NoValue \notin Json
  BY Zenon, KvAssumption DEF JsonValues
<1>1. ASSUME NEW c \in Clnt, Transport(c) \/ Return(c) PROVE Version' = Version /\ List' = List
  BY Zenon, <1>1, TransportFacts, ReturnView DEF Version, List
<1>2. ASSUME NEW c \in Clnt, Execute(c)
      PROVE  (Version' = Version /\ List' = List) \/ Installed(c)
  <2>1. CASE op[c].type = "put" /\ op[c].version = Version
    <3>1. op[c].value \in Json
      BY Zenon, <2>1 DEF JsonInv
    <3>2. /\ call[c] = "running" /\ call'[c] = "done"
          /\ reply'[c].Err = OK /\ Version' = Version + 1 /\ List' = op[c].value
      BY Zenon, <1>2, <2>1, PutView
    <3> QED
      BY Zenon, <2>1, <3>1, <3>2, <1>j DEF Installed, Unanswered, Answered, Sure
  <2>2. CASE ~(op[c].type = "put" /\ op[c].version = Version)
    <3>1. ~Installs(op[c])
      BY Zenon, <2>2 DEF Installs, Version, JsonInv
    <3> QED
      BY Zenon, <1>2, <3>1 DEF Execute, Handle, srvVars, Version, List
  <2> QED
    BY Zenon, <2>1, <2>2
<1>3. ASSUME NEW r \in late, ExecuteLate(r)
      PROVE  (Version' = Version /\ List' = List) \/ \E c \in Clnt : Installed(c)
  <2>1. /\ Handle(r) /\ r.key = testKey /\ r.value \in Json /\ r.type = "put" /\ r.clnt \in Clnt
        /\ UNCHANGED <<call, reply, firstAttempt>>
    BY Zenon, <1>3, Versions DEF ExecuteLate, clntVars, JsonInv, ClerkInv, LateOk
  <2>2. CASE r.version = Version
    <3>1. Version' = Version + 1 /\ List' = r.value
      BY Zenon, <2>1, <2>2, MainType DEF Handle, Installs, Version, List, TypeOK, KvTypeOK
    <3>2. /\ op[r.clnt] = r /\ Unanswered(r.clnt)
          /\ call[r.clnt] = "failed" \/ ~firstAttempt[r.clnt]
      BY Zenon, <1>3, <2>2 DEF ClerkInv, LateOk
    <3>3. Sure(r.clnt)' /\ ~Answered(r.clnt)'
      BY Zenon, <2>1, <3>2 DEF Sure, Answered, Unanswered
    <3> QED
      BY Zenon, <1>j, <2>1, <2>2, <3>1, <3>2, <3>3 DEF Installed
  <2>3. CASE r.version # Version
    BY Zenon, <2>1, <2>3 DEF Handle, Installs, srvVars, Version, List
  <2> QED
    BY Zenon, <2>2, <2>3
<1> QED
  BY Zenon, <1>1, <1>2, <1>3 DEF Service

\* A clerk that is sure stays so.
LEMMA SureStays ==
    ASSUME JsonValues, TypeOK, JsonInv, ClerkInv, Service, NEW d \in Clnt, Sure(d)
    PROVE  Sure(d)'
<1>t. reply[d].Err \in Err
  BY Zenon, ReplyFacts
<1>1. CASE Untouched(d)
  BY Zenon, <1>1 DEF Untouched, Sure, Answered
<1>2. CASE Execute(d)
  BY Zenon, <1>2 DEF Execute, clntVars, Sure, Answered
<1>3. CASE Return(d)
  <2>1. /\ call[d] = "replied" /\ call'[d] = "idle" /\ firstAttempt' = firstAttempt
        /\ reply'[d].Err = ClerkErr(d)
    BY Zenon, <1>3, ReturnView
  <2> QED
    BY Zenon, <2>1 DEF ClerkErr, Sure, Answered, OK, ErrMaybe, ErrVersion
<1>4. CASE Transported(d)
  BY Zenon, <1>4 DEF Transported, Sure, Answered, CallState
<1> QED
  BY Zenon, <1>1, <1>2, <1>3, <1>4, ServiceViews

\* The service keeps what the clerks know.
LEMMA ServiceClerk ==
    ASSUME JsonValues, TypeOK, JsonInv, ClerkInv, Service
    PROVE  ClerkInv'
<1>v. Version \in Nat /\ \A c \in Clnt : op[c].version \in Nat /\ ver[c] \in Nat
  BY Zenon, Versions, ReplyFacts
<1>f. op' = op /\ ver' = ver
  BY Zenon, ServiceFrame
<1>s. Version' = Version \/ Version' = Version + 1
  BY Zenon, ServerStep DEF Installed
<1>k. (List = NoValue <=> Version = 0)'
  <2>1. CASE Version' = Version /\ List' = List
    BY Zenon, <2>1 DEF ClerkInv
  <2>2. ASSUME NEW c \in Clnt, Installed(c) PROVE List' # NoValue /\ Version' # 0
    BY <2>2, <1>v DEF Installed
  <2> QED
    BY Zenon, <2>1, <2>2, ServerStep
<1>c. ASSUME NEW c \in Clnt PROVE ClerkOk(c)'
  <2>i. ClerkOk(c)
    BY Zenon DEF ClerkInv
  <2>1. op[c].clnt = c /\ ver[c] <= Version' /\ (op[c].type = "put" => op[c].version <= Version')
    BY <2>i, <1>v, <1>s DEF ClerkOk
  <2>2. ASSUME op[c].type = "put", Answered(c)'
        PROVE  /\ op[c].version # Version' /\ reply'[c].Err # ErrNoKey
               /\ call'[c] = "idle" /\ Sure(c)' => reply'[c].Err \in {OK, ErrMaybe}
    <3>1. CASE Answered(c) /\ reply'[c] = reply[c] /\ (call'[c] = "idle" => Untouched(c))
      <4>1. op[c].version # Version /\ op[c].version <= Version /\ reply[c].Err # ErrNoKey
        BY Zenon, <2>i, <2>2, <3>1 DEF ClerkOk
      <4>2. op[c].version # Version'
        BY <4>1, <1>v, <1>s
      <4>3. call'[c] = "idle" /\ Sure(c)' => call[c] = "idle" /\ Sure(c)
        BY Zenon, <3>1 DEF Untouched, Sure, Answered
      <4> QED
        BY Zenon, <2>i, <2>2, <3>1, <4>1, <4>2, <4>3 DEF ClerkOk
    <3>2. CASE Execute(c)
      <4>1. call'[c] = "done" /\ op[c].version <= Version
        BY Zenon, <2>2, <3>2, <2>i, PutView DEF ClerkOk
      <4>2. CASE op[c].version = Version
        BY <2>2, <3>2, <4>1, <4>2, <1>v, PutView DEF OK, ErrNoKey
      <4>3. CASE op[c].version # Version
        <5>1. Version # 0
          BY <4>1, <4>3, <1>v
        <5> QED
          BY Zenon, <2>2, <3>2, <4>1, <4>3, <5>1, PutView DEF ErrVersion, ErrNoKey
      <4> QED
        BY Zenon, <4>2, <4>3
    <3>3. CASE Return(c)
      <4>1. /\ call[c] = "replied" /\ call'[c] = "idle" /\ firstAttempt' = firstAttempt
            /\ Version' = Version /\ reply'[c].Err = ClerkErr(c)
        BY Zenon, <3>3, ReturnView
      <4>2. op[c].version # Version /\ reply[c].Err \in Err /\ reply[c].Err # ErrNoKey
        BY Zenon, <2>i, <2>2, <4>1, ReplyFacts DEF ClerkOk, Answered
      <4>3. ClerkErr(c) # ErrNoKey
        BY Zenon, <4>2 DEF ClerkErr, ErrNoKey, ErrMaybe
      <4>4. ~firstAttempt[c] => ClerkErr(c) \in {OK, ErrMaybe}
        BY Zenon, <2>2, <4>2 DEF ClerkErr, Err
      <4>5. Sure(c)' => reply'[c].Err \in {OK, ErrMaybe}
        BY Zenon, <4>1, <4>4 DEF Sure
      <4> QED
        BY Zenon, <4>1, <4>2, <4>3, <4>5
    <3>4. CASE Untouched(c)
      BY Zenon, <2>2, <3>1, <3>4 DEF Untouched, Answered
    <3>5. CASE Transported(c)
      BY Zenon, <2>2, <3>1, <3>5 DEF Transported
    <3> QED
      BY Zenon, <3>2, <3>3, <3>4, <3>5, ServiceViews
  <2>3. call'[c] = "idle" => Answered(c)'
    BY Zenon DEF Answered
  <2> QED
    BY Zenon, <1>f, <2>1, <2>2, <2>3 DEF ClerkOk
<1>l. LateOk'
  <2> SUFFICES ASSUME NEW r \in late' PROVE LateOk!(r)'
    BY Zenon DEF LateOk
  <2>o. \/ r \in late
        \/ \E c \in Clnt : /\ r = op[c] /\ op[c].type = "put"
                           /\ call[c] = "running" /\ call'[c] = "failed" /\ Version' = Version
    <3>1. ASSUME NEW c \in Clnt, Abandon(c), r \notin late
          PROVE  /\ r = op[c] /\ op[c].type = "put"
                 /\ call[c] = "running" /\ call'[c] = "failed" /\ Version' = Version
      BY Zenon, <3>1 DEF Abandon, SetCall, srvVars, Version, TypeOK, KvTypeOK
    <3>2. ASSUME NEW c \in Clnt, Transport(c), ~Abandon(c) PROVE late' = late
      BY Zenon, <3>2 DEF Transport, Dispatch, LoseRequest, LoseReply, Deliver, Enable, Resend
    <3>3. ASSUME NEW c \in Clnt, Execute(c) \/ Return(c) PROVE late' = late
      BY Zenon, <3>3 DEF Execute, Return
    <3>4. ASSUME NEW q \in late, ExecuteLate(q) PROVE late' \in SUBSET late
      BY Zenon, <3>4 DEF ExecuteLate
    <3> QED
      BY Zenon, <3>1, <3>2, <3>3, <3>4 DEF Service
  <2>1. CASE r \in late
    <3>1. r.type = "put" /\ r.version <= Version /\ r.version \in Nat /\ r.clnt \in Clnt
      BY Zenon, <2>1, Versions DEF ClerkInv, LateOk
    <3>2. r.version <= Version' /\ (r.version = Version' => r.version = Version)
      BY <3>1, <1>v, <1>s
    <3>3. ASSUME r.version = Version'
          PROVE  /\ op[r.clnt] = r /\ Unanswered(r.clnt)'
                 /\ call'[r.clnt] = "failed" \/ ~firstAttempt'[r.clnt]
      <4>d. PICK d \in Clnt : d = r.clnt
        BY Zenon, <3>1
      <4> SUFFICES op[d] = r /\ Unanswered(d)' /\ (call'[d] = "failed" \/ ~firstAttempt'[d])
        BY Zenon, <4>d
      <4>1. /\ op[d] = r /\ Unanswered(d) /\ (call[d] = "failed" \/ ~firstAttempt[d])
            /\ Version' = Version
        BY Zenon, <4>d, <2>1, <3>1, <3>2, <3>3 DEF ClerkInv, LateOk
      <4>2. CASE Untouched(d)
        BY Zenon, <4>1, <4>2 DEF Untouched, Unanswered
      <4>3. CASE Transported(d)
        <5>1. ~Answered(d)'
          BY Zenon, <4>1, <4>3 DEF Transported, Unanswered, Answered
        <5>2. Unanswered(d)'
          BY Zenon, <4>3, <5>1 DEF Transported, Unanswered, Answered, CallState
        <5> QED
          BY Zenon, <4>1, <4>3, <5>2 DEF Transported
      <4>4. CASE Execute(d)
        <5>1. Version' = Version + 1
          BY Zenon, <4>1, <4>4, <3>1, <3>2, <3>3, PutView
        <5> QED
          BY <5>1, <4>1, <1>v
      <4>5. CASE Return(d)
        BY Zenon, <4>1, <4>5 DEF Return, Unanswered
      <4> QED
        BY Zenon, <4>2, <4>3, <4>4, <4>5, ServiceViews
    <3> QED
      BY Zenon, <3>1, <3>2, <3>3, <1>f
  <2>2. ASSUME NEW c \in Clnt, r = op[c], op[c].type = "put",
               call[c] = "running", call'[c] = "failed", Version' = Version
        PROVE  LateOk!(r)'
    BY Zenon, <2>2, <1>f DEF ClerkInv, ClerkOk, Unanswered
  <2> QED
    BY Zenon, <2>o, <2>1, <2>2
<1> QED
  BY Zenon, <1>k, <1>c, <1>l DEF ClerkInv

-----------------------------------------------------------------------------
(* Where the goroutines are *)

\* The places of a goroutine in each test.
Places(c) ==
    IF c = main
    THEN {"test", "passed", "fatal"} \cup
         IF test = "PutAtLeastOnce" THEN {"atleast", "checkget"}
         ELSE {"spawned", "signal", "collect", "check"} \cup
              IF test = "OneClientAppend" THEN {"create"} ELSE {}
    ELSE {"start"} \cup
         IF test = "PutAtLeastOnce" THEN {}
         ELSE {"select", "send", "gone", "fatal"} \cup
              IF test = "OneClientPut" THEN {"put", "get"} ELSE {"aget", "aput"}

\* The places from which the goroutine has called its clerk.
Putting == {"put", "aput", "create", "atleast"}
Getting == {"get", "aget", "checkget", "check"}

\* The clerk has a put exactly where the goroutine waits for one.
PlaceOk(c) ==
    /\ pc[c] \in Places(c)
    /\ op[c].type = IF pc[c] \in Putting THEN "put" ELSE "get"
    /\ pc[c] = "start" => Iter(c) = 0

\* The clients run between the test's own puts and its last Get.
PlaceInv ==
    /\ \A c \in Clnt : PlaceOk(c)
    /\ pc[main] \in {"test", "create", "atleast", "checkget"} => \A c \in Cli : pc[c] = "start"
    /\ pc[main] = "check" => \A c \in Cli : pc[c] = "gone"

\* A Get of the harness finds the key, the test's own ones what is there; only
\* the last Get of OneClientPut's test may come before the first put.
ReadOk(c) ==
    /\ pc[c] \in Getting =>
         /\ op[c] = GetArgs(c, testKey)
         /\ Answered(c) /\ Version > 0 =>
              /\ reply[c].Err = OK /\ reply[c].Version <= Version
              /\ c = main => reply[c].Version = Version /\ reply[c].Value = List
    /\ pc[c] \in Getting \ {"check"} => Version > 0
    /\ Iter(c) > 0 => Version > 0
    /\ test = "OneClientAppend" /\ pc[c] \notin {"start", "test", "create"} => Version > 0

ReadInv == \A c \in Clnt : ReadOk(c)

\* The network loses nothing.
Reliable == ~Unreliable /\ ~Disconnects

\* Then no clerk sends again, and none returns ErrMaybe.
ReliableOk(c) ==
    Reliable =>
        /\ enabled[c] /\ call[c] # "failed" /\ firstAttempt[c]
        /\ reply[c].Err # ErrMaybe /\ putErr[c] # ErrMaybe /\ Nmaybe(c) = 0

ReliableInv == \A c \in Clnt : ReliableOk(c)

HarnessInv == PlaceInv /\ ClerkInv /\ ReadInv /\ ReliableInv

\* A step of the harness is that of one goroutine, but for its clerk ...
ClerkFrame(c) ==
    /\ UNCHANGED <<KV, VersionMap, enabled, late>>
    /\ \A d \in Clnt : d # c => /\ op'[d] = op[d] /\ call'[d] = call[d]
                                /\ reply'[d] = reply[d] /\ firstAttempt'[d] = firstAttempt[d]

\* ... and for itself.
Others(c) ==
    /\ ClerkFrame(c) /\ test' = test
    /\ \A d \in Clnt : d # c => /\ pc'[d] = pc[d] /\ ver'[d] = ver[d]
                                /\ putErr'[d] = putErr[d] /\ res'[d] = res[d]

\* It calls its clerk with q and goes on at l, or goes on at l at once.
Asked(c, q, l) ==
    /\ call[c] = "idle" /\ call'[c] = "sent" /\ op'[c] = q /\ pc'[c] = l
    /\ firstAttempt'[c] /\ reply'[c] = PutReply(OK)

Quit(c, l) ==
    /\ call'[c] = call[c] /\ op'[c] = GetArgs(c, testKey) /\ pc'[c] = l
    /\ firstAttempt'[c] /\ reply'[c] = PutReply(OK)

\* The two, in terms of the actions.
LEMMA LocalView ==
    ASSUME TypeOK, NEW c \in Clnt, NEW l, Local(c, l)
    PROVE  /\ ClerkFrame(c) /\ Quit(c, l)
           /\ \A d \in Clnt : d # c => pc'[d] = pc[d]
BY Zenon DEF Local, Goto, Forget, srvVars, ClerkFrame, Quit, TypeOK, KvTypeOK

\* So for a call.
LEMMA CallView ==
    ASSUME TypeOK, NEW c \in Clnt, NEW q, NEW l, Invoke(c, q), Goto(c, l)
    PROVE  /\ ClerkFrame(c) /\ Asked(c, q, l)
           /\ \A d \in Clnt : d # c => pc'[d] = pc[d]
BY Zenon DEF Goto, Invoke, SetCall, srvVars, ClerkFrame, Asked, TypeOK, KvTypeOK

\* What the step does to the goroutine's own variables.
Tally(c) ==
    /\ ver'[c] <= Version
    /\ putErr'[c] \in {putErr[c], OK, reply[c].Err}
    /\ Nmaybe(c)' = Nmaybe(c) \/ reply[c].Err = ErrMaybe \/ putErr[c] = ErrMaybe
    /\ Iter(c)' > 0 => Version > 0

\* The part of the invariant that is about one goroutine, and about all clerks.
After(c) == PlaceOk(c) /\ ReadOk(c) /\ ReliableOk(c) /\ ClerkInv

\* A goroutine that the step is not of keeps its part.
LEMMA OthersKeep ==
    ASSUME HarnessInv, NEW c \in Clnt, Others(c), NEW d \in Clnt, d # c
    PROVE  PlaceOk(d)' /\ ReadOk(d)' /\ ReliableOk(d)'
<1>1. /\ Version' = Version /\ List' = List /\ enabled' = enabled /\ test' = test
      /\ op'[d] = op[d] /\ call'[d] = call[d] /\ reply'[d] = reply[d]
      /\ firstAttempt'[d] = firstAttempt[d] /\ pc'[d] = pc[d]
      /\ putErr'[d] = putErr[d] /\ res'[d] = res[d]
  BY Zenon DEF Others, ClerkFrame, Version, List
<1>2. /\ Iter(d)' = Iter(d) /\ Nmaybe(d)' = Nmaybe(d) /\ Answered(d)' = Answered(d)
      /\ Places(d)' = Places(d) /\ GetArgs(d, testKey)' = GetArgs(d, testKey)
  BY Zenon, <1>1 DEF Iter, Nmaybe, Answered, Places, GetArgs
<1>i. PlaceOk(d) /\ ReadOk(d) /\ ReliableOk(d)
  BY Zenon DEF HarnessInv, PlaceInv, ReadInv, ReliableInv
<1>3. PlaceOk(d)'
  BY Zenon, <1>i, <1>1, <1>2 DEF PlaceOk
<1>4. ReadOk(d)'
  BY Zenon, <1>i, <1>1, <1>2 DEF ReadOk
<1>5. ReliableOk(d)'
  BY Zenon, <1>i, <1>1, <1>2 DEF ReliableOk
<1> QED
  BY Zenon, <1>3, <1>4, <1>5

\* What a step of c's does to the clerks, when c does not wait for a put.
LEMMA FrameClerk ==
    ASSUME TypeOK, ClerkInv, NEW c \in Clnt, ClerkFrame(c), ClerkOk(c)',
           \A d \in Clnt : d # c => ver'[d] = ver[d],
           op[c].type = "get" \/ call[c] = "idle"
    PROVE  ClerkInv'
<1>1. Version' = Version /\ List' = List /\ late' = late
  BY Zenon DEF ClerkFrame, Version, List
<1>2. ASSUME NEW d \in Clnt, d # c PROVE ClerkOk(d)'
  <2>1. /\ op'[d] = op[d] /\ call'[d] = call[d] /\ reply'[d] = reply[d] /\ ver'[d] = ver[d]
        /\ firstAttempt'[d] = firstAttempt[d] /\ Answered(d)' = Answered(d) /\ Sure(d)' = Sure(d)
    BY Zenon, <1>2 DEF ClerkFrame, Answered, Sure
  <2>2. ClerkOk(d)
    BY Zenon DEF ClerkInv
  <2> QED
    BY Zenon, <1>1, <2>1, <2>2 DEF ClerkOk
<1>3. LateOk'
  <2> SUFFICES ASSUME NEW r \in late PROVE LateOk!(r)'
    BY Zenon, <1>1 DEF LateOk
  <2>1. r.clnt \in Clnt /\ r.type = "put"
    BY Zenon, Versions DEF ClerkInv, LateOk
  <2>2. ASSUME r.version = Version, r.clnt = c PROVE FALSE
    <3>1. op[c] = r /\ Unanswered(c)
      BY Zenon, <2>2 DEF ClerkInv, LateOk
    <3> QED
      BY <2>1, <3>1 DEF Unanswered
  <2> QED
    BY ZenonT(40), <1>1, <2>1, <2>2 DEF ClerkInv, LateOk, ClerkFrame, Unanswered
<1> QED
  BY Zenon, <1>1, <1>2, <1>3 DEF ClerkInv

\* The answers that a goroutine starts a call with.
LEMMA Fresh == PutReply(OK).Err = OK /\ OK # ErrMaybe /\ OK # ErrNoKey
BY DEF PutReply, OK, ErrMaybe, ErrNoKey

\* A goroutine that starts a call, or goes on without, has not been told ErrMaybe.
LEMMA FrameReliable ==
    ASSUME HarnessInv, NEW c \in Clnt, ClerkFrame(c), Tally(c),
           reply'[c] = PutReply(OK), firstAttempt'[c], call'[c] \in {call[c], "sent"}
    PROVE  ReliableOk(c)'
BY Zenon, Fresh DEF HarnessInv, ReliableInv, ReliableOk, ClerkFrame, Tally

\* A goroutine goes on without its clerk.
LEMMA QuitKeeps ==
    ASSUME JsonValues, TypeOK, HarnessInv, NEW c \in Clnt, NEW l,
           ClerkFrame(c), \A d \in Clnt : d # c => ver'[d] = ver[d], test' = test,
           Quit(c, l), Tally(c),
           l \in Places(c) \ (Putting \cup Getting \cup {"start"}),
           Version > 0 \/ test # "OneClientAppend",
           op[c].type = "get" \/ call[c] = "idle"
    PROVE  After(c)'
<1>1. Version' = Version /\ List' = List /\ Places(c)' = Places(c)
  BY Zenon DEF ClerkFrame, Version, List, Places
<1>2. op'[c].type = "get" /\ op'[c].clnt = c
  BY DEF Quit, GetArgs
<1>3. PlaceOk(c)'
  BY Zenon, <1>1, <1>2 DEF PlaceOk, Quit
<1>4. ReadOk(c)'
  BY Zenon, <1>1 DEF ReadOk, Quit, Tally
<1>5. ClerkOk(c)'
  BY Zenon, <1>1, <1>2 DEF ClerkOk, Tally
<1>6. ClerkInv' /\ ReliableOk(c)'
  BY Zenon, <1>5, FrameClerk, FrameReliable DEF Quit, HarnessInv
<1> QED
  BY Zenon, <1>3, <1>4, <1>6 DEF After

\* A goroutine calls Get.
LEMMA AskGetKeeps ==
    ASSUME JsonValues, TypeOK, HarnessInv, NEW c \in Clnt, NEW l, Others(c),
           Asked(c, GetArgs(c, testKey), l), Tally(c),
           l \in Places(c) \cap Getting, Version > 0 \/ (l = "check" /\ test # "OneClientAppend")
    PROVE  After(c)'
<1>1. Version' = Version /\ List' = List /\ Places(c)' = Places(c) /\ ~Answered(c)'
  BY Zenon DEF Others, ClerkFrame, Version, List, Places, Asked, Answered
<1>2. op'[c].type = "get" /\ op'[c].clnt = c /\ l \notin Putting \cup {"start"}
  BY DEF Asked, GetArgs, Getting, Putting
<1>3. PlaceOk(c)'
  BY Zenon, <1>1, <1>2 DEF PlaceOk, Asked
<1>g. GetArgs(c, testKey)' = GetArgs(c, testKey)
  BY Zenon DEF GetArgs
<1>4. ReadOk(c)'
  BY Zenon, <1>1, <1>g DEF ReadOk, Asked, Tally, Others
<1>5. ClerkOk(c)'
  BY Zenon, <1>1, <1>2 DEF ClerkOk, Tally
<1>6. ClerkInv' /\ ReliableOk(c)'
  BY Zenon, <1>5, FrameClerk, FrameReliable DEF Asked, Others, HarnessInv
<1> QED
  BY Zenon, <1>3, <1>4, <1>6 DEF After

\* A goroutine calls Put.
LEMMA AskPutKeeps ==
    ASSUME JsonValues, TypeOK, HarnessInv, NEW c \in Clnt, NEW l, NEW v, NEW n \in Nat, Others(c),
           Asked(c, PutArgs(c, testKey, v, n), l), Tally(c),
           l \in Places(c) \cap Putting, n <= Version,
           Version > 0 \/ test # "OneClientAppend" \/ l = "create"
    PROVE  After(c)'
<1>1. Version' = Version /\ List' = List /\ Places(c)' = Places(c) /\ ~Answered(c)' /\ call'[c] # "idle"
  BY Zenon DEF Others, ClerkFrame, Version, List, Places, Asked, Answered
<1>2. /\ op'[c].type = "put" /\ op'[c].clnt = c /\ op'[c].version = n
      /\ l \notin Getting \cup {"start", "signal", "collect"}
  BY DEF Asked, PutArgs, Getting, Putting
<1>3. PlaceOk(c)'
  BY Zenon, <1>1, <1>2 DEF PlaceOk, Asked
<1>4. ReadOk(c)'
  BY Zenon, <1>1, <1>2 DEF ReadOk, Asked, Tally, Others
<1>5. ClerkOk(c)'
  BY Zenon, <1>1, <1>2 DEF ClerkOk, Tally
<1>6. ClerkInv' /\ ReliableOk(c)'
  BY Zenon, <1>5, FrameClerk, FrameReliable DEF Asked, Others, HarnessInv
<1> QED
  BY Zenon, <1>3, <1>4, <1>6 DEF After

\* A step that leaves the counts alone.
LEMMA TallySame ==
    ASSUME HarnessInv, NEW c \in Clnt, UNCHANGED <<ver, putErr, res>>
    PROVE  Tally(c)
BY Zenon DEF Tally, Iter, Nmaybe, HarnessInv, ClerkInv, ClerkOk, ReadInv, ReadOk

\* A client's count.
LEMMA CountView ==
    ASSUME TypeOK, NEW c \in Clnt, NEW ok \in BOOLEAN, Counted(c, ok)
    PROVE  /\ Iter(c)' = Iter(c) + 1
           /\ IF ok THEN Nok(c)' = Nok(c) + 1 ELSE Nok(c)' = Nok(c)
           /\ IF ok THEN Nmaybe(c)' = Nmaybe(c) ELSE Nmaybe(c)' = Nmaybe(c) + 1
           /\ \A d \in Clnt : d # c => res'[d] = res[d]
<1>1. res \in [Clnt -> [Nok : Nat, Nmaybe : Nat]]
  BY Zenon DEF TypeOK
<1>2. CASE ok
  BY <1>1, <1>2 DEF Counted, Iter, Nok, Nmaybe
<1>3. CASE ~ok
  BY <1>1, <1>3 DEF Counted, Iter, Nok, Nmaybe
<1> QED
  BY Zenon, <1>2, <1>3

\* Every step of a client but "<-done" is its own.
LEMMA ClientOthers ==
    ASSUME TypeOK, NEW c \in Cli, Client(c), ~Done(c)
    PROVE  Others(c)
<1>c. c \in Clnt
  BY Zenon, MainType
<1>1. \/ \E l : GetAnd(c, l) \/ Local(c, l)
      \/ \E v, n, l : PutAnd(c, v, n, l)
  BY Zenon DEF Client, Begin, OnePutPut, OnePutGet, AppendGot, AppendPut
<1>2. ClerkFrame(c) /\ \A d \in Clnt : d # c => pc'[d] = pc[d]
  BY Zenon, <1>1, <1>c, LocalView, CallView DEF GetAnd, PutAnd
<1>3. /\ test' = test
      /\ \A d \in Clnt : d # c => ver'[d] = ver[d] /\ putErr'[d] = putErr[d]
  BY Zenon DEF Client, Begin, OnePutPut, OnePutGet, AppendGot, AppendPut, TypeOK
<1>4. res' = res \/ \E ok \in BOOLEAN : Counted(c, ok)
  BY Zenon DEF Client, Begin, OnePutPut, OnePutGet, AppendGot, AppendPut
<1>5. \A d \in Clnt : d # c => res'[d] = res[d]
  BY Zenon, <1>4, <1>c, CountView
<1> QED
  BY Zenon, <1>2, <1>3, <1>5 DEF Others

\* The key is there once a put has been answered.
LEMMA PutAnswered ==
    ASSUME TypeOK, HarnessInv, NEW c \in Clnt, pc[c] \in Putting, Answered(c)
    PROVE  op[c].type = "put" /\ op[c].version < Version /\ Version > 0
<1>1. op[c].type = "put"
  BY Zenon DEF HarnessInv, PlaceInv, PlaceOk
<1>2. op[c].version # Version /\ op[c].version <= Version
  BY Zenon, <1>1 DEF HarnessInv, ClerkInv, ClerkOk
<1> QED
  BY <1>1, <1>2, Versions

\* What a client does to its part of the invariant.
LEMMA ClientAfter ==
    ASSUME JsonValues, TypeOK, JsonInv, HarnessInv, NEW c \in Cli, Client(c), ~Done(c)
    PROVE  After(c)'
<1>c. c \in Clnt /\ c # main
  BY Zenon, MainType DEF Cli
<1>o. Others(c) /\ ClerkFrame(c) /\ (\A d \in Clnt : d # c => ver'[d] = ver[d]) /\ test' = test
  BY Zenon, ClientOthers DEF Others
<1>i. PlaceOk(c) /\ ReadOk(c) /\ ClerkOk(c)
  BY Zenon, <1>c DEF HarnessInv, PlaceInv, ReadInv, ClerkInv
<1>t. Version \in Nat /\ ver[c] \in Nat /\ reply[c].Version \in Nat /\ reply[c].Err \in Err /\ Iter(c) \in Nat
  BY Zenon, <1>c, Versions, ReplyFacts, IterType
<1>p. /\ Places(c) \subseteq {"start", "select", "send", "gone", "fatal", "put", "get", "aget", "aput"}
      /\ pc[c] \in {"put", "get"} => test = "OneClientPut"
      /\ pc[c] \in {"aget", "aput"} => test = "OneClientAppend"
      /\ test = "OneClientPut" => {"select", "fatal", "put", "get"} \subseteq Places(c)
      /\ test = "OneClientAppend" => {"select", "fatal", "aget", "aput"} \subseteq Places(c)
  BY Zenon, <1>c, <1>i DEF Places, PlaceOk, TypeOK, Test
<1>q. /\ {"put", "aput"} \subseteq Putting /\ {"get", "aget"} \subseteq Getting
      /\ {"select", "fatal"} \cap (Putting \cup Getting \cup {"start", "signal", "collect"}) = {}
  BY Zenon DEF Putting, Getting
<1>l. ASSUME NEW l \in {"select", "fatal"}, Local(c, l), Tally(c), call[c] = "idle",
             l \in Places(c), Version > 0 \/ test = "OneClientPut"
      PROVE  After(c)'
  <2>1. Quit(c, l)
    BY Zenon, <1>l, <1>c, LocalView
  <2>2. l \in Places(c) \ (Putting \cup Getting \cup {"start"}) /\ l \notin {"signal", "collect"}
    BY Zenon, <1>l, <1>q
  <2> QED
    BY Zenon, <1>l, <1>c, <1>o, <2>1, <2>2, QuitKeeps
<1>g. ASSUME NEW l \in {"get", "aget"}, GetAnd(c, l), Tally(c), l \in Places(c), Version > 0
      PROVE  After(c)'
  <2>1. Asked(c, GetArgs(c, testKey), l)
    BY Zenon, <1>g, <1>c, CallView DEF GetAnd
  <2> QED
    BY Zenon, <1>g, <1>c, <1>o, <1>q, <2>1, AskGetKeeps
<1>u. ASSUME NEW l \in {"put", "aput"}, NEW v, NEW n \in Nat, PutAnd(c, v, n, l), Tally(c),
             l \in Places(c), n <= Version, Version > 0 \/ test = "OneClientPut"
      PROVE  After(c)'
  <2>1. Asked(c, PutArgs(c, testKey, v, n), l)
    BY Zenon, <1>u, <1>c, CallView DEF PutAnd
  <2> QED
    BY Zenon, <1>u, <1>c, <1>o, <1>q, <2>1, AskPutKeeps
<1>1. CASE Begin(c)
  <2>1. Tally(c) /\ pc[c] = "select" /\ ver[c] <= Version
    BY Zenon, <1>1, <1>c, <1>i, TallySame DEF Begin, At, ClerkOk
  <2>2. test = "OneClientAppend" => Version > 0
    BY Zenon, <1>i, <2>1 DEF ReadOk
  <2> QED
    BY Zenon, <1>1, <2>1, <2>2, <1>u, <1>g, <1>p, <1>t DEF Begin
<1>2. CASE OnePutPut(c)
  <2>1. pc[c] = "put" /\ call[c] = "idle" /\ Version > 0
    BY Zenon, <1>2, <1>c, PutAnswered DEF OnePutPut, At, Answered, Putting
  <2>2. Tally(c)
    BY Zenon, <1>2, <1>c, <1>i, <2>1 DEF OnePutPut, Tally, TypeOK, Nmaybe, ClerkOk
  <2> QED
    BY Zenon, <1>2, <2>1, <2>2, <1>l, <1>g, <1>p DEF OnePutPut
<1>3. CASE OnePutGet(c)
  <2>1. pc[c] = "get" /\ call[c] = "idle" /\ Version > 0 /\ reply[c].Version <= Version
    BY Zenon, <1>3, <1>i DEF OnePutGet, At, Answered, Getting, ReadOk
  <2>2. ver'[c] <= Version /\ putErr'[c] = OK
    BY Zenon, <1>3, <1>c, <1>i, <2>1 DEF OnePutGet, TypeOK, ClerkOk
  <2>3. Nmaybe(c)' = Nmaybe(c) \/ putErr[c] = ErrMaybe
    <3>1. CASE res' = res
      BY Zenon, <3>1 DEF Nmaybe
    <3>2. CASE Counted(c, TRUE)
      BY Zenon, <3>2, <1>c, CountView
    <3>3. res' = res \/ Counted(c, TRUE) \/ putErr[c] = ErrMaybe
      BY Zenon, <1>3 DEF OnePutGet
    <3> QED
      BY Zenon, <3>1, <3>2, <3>3
  <2>4. Tally(c)
    BY Zenon, <2>1, <2>2, <2>3 DEF Tally
  <2> QED
    BY Zenon, <1>3, <2>1, <2>4, <1>l, <1>u, <1>p, <1>t DEF OnePutGet
<1>4. CASE AppendGot(c)
  <2>1. pc[c] = "aget" /\ call[c] = "idle" /\ Version > 0 /\ reply[c].Version <= Version
    BY Zenon, <1>4, <1>i DEF AppendGot, At, Answered, Getting, ReadOk
  <2>2. Tally(c)
    BY Zenon, <1>4, <1>c, TallySame DEF AppendGot
  <2> QED
    BY Zenon, <1>4, <2>1, <2>2, <1>l, <1>u, <1>p, <1>t DEF AppendGot
<1>5. CASE AppendPut(c)
  <2>1. pc[c] = "aput" /\ call[c] = "idle" /\ Version > 0
    BY Zenon, <1>5, <1>c, PutAnswered DEF AppendPut, At, Answered, Putting
  <2>3. Nmaybe(c)' = Nmaybe(c) \/ reply[c].Err = ErrMaybe
    <3>1. CASE res' = res
      BY Zenon, <3>1 DEF Nmaybe
    <3>2. CASE Counted(c, TRUE)
      BY Zenon, <3>2, <1>c, CountView
    <3>3. res' = res \/ Counted(c, TRUE) \/ reply[c].Err = ErrMaybe
      BY Zenon, <1>5 DEF AppendPut
    <3> QED
      BY Zenon, <3>1, <3>2, <3>3
  <2>4. Tally(c)
    BY Zenon, <1>5, <1>c, <1>i, <2>1, <2>3 DEF AppendPut, Tally, ClerkOk
  <2> QED
    BY Zenon, <1>5, <2>1, <2>4, <1>l, <1>g, <1>p DEF AppendPut
<1> QED
  BY Zenon, <1>1, <1>2, <1>3, <1>4, <1>5 DEF Client

\* The steps of a client keep the invariant.
LEMMA ClientHarness ==
    ASSUME JsonValues, TypeOK, JsonInv, HarnessInv, NEW c \in Cli, Client(c)
    PROVE  HarnessInv'
<1>c. c \in Clnt /\ c # main /\ main \in Clnt
  BY Zenon, MainType DEF Cli
<1>n. pc[c] \notin {"start", "gone"}
  BY Zenon DEF Client, Done, Begin, OnePutPut, OnePutGet, AppendGot, AppendPut, At
<1>m. pc[main] \notin {"test", "create", "atleast", "checkget", "check"}
  BY Zenon, <1>n DEF HarnessInv, PlaceInv
<1>1. CASE Done(c)
  <2>1. /\ UNCHANGED <<KV, VersionMap, enabled, late, op, call, reply, firstAttempt>>
        /\ UNCHANGED <<test, ver, putErr, res>>
        /\ pc[c] = "select" /\ pc[main] = "signal" /\ pc'[c] = "send" /\ pc'[main] = "spawned"
        /\ \A d \in Clnt : d \notin {c, main} => pc'[d] = pc[d]
    BY Zenon, <1>1, <1>c DEF Done, kvVars, TypeOK
  <2>2. /\ Version' = Version /\ List' = List
        /\ \A d \in Clnt : /\ Answered(d)' = Answered(d) /\ Sure(d)' = Sure(d)
                           /\ Unanswered(d)' = Unanswered(d)
                           /\ Iter(d)' = Iter(d) /\ Nmaybe(d)' = Nmaybe(d)
                           /\ Places(d)' = Places(d) /\ GetArgs(d, testKey)' = GetArgs(d, testKey)
    BY Zenon, <2>1 DEF Version, List, Answered, Unanswered, Sure, Iter, Nmaybe, Places, GetArgs
  <2>3. ClerkInv'
    BY Zenon, <2>1, <2>2, Versions DEF HarnessInv, ClerkInv, ClerkOk, LateOk
  <2>4. ReliableInv'
    BY Zenon, <2>1, <2>2 DEF HarnessInv, ReliableInv, ReliableOk
  <2>5. ASSUME NEW d \in Clnt PROVE PlaceOk(d)' /\ ReadOk(d)'
    <3>i. PlaceOk(d) /\ ReadOk(d)
      BY Zenon DEF HarnessInv, PlaceInv, ReadInv
    <3>1. CASE d \notin {c, main}
      <4>1. pc'[d] = pc[d] /\ op'[d] = op[d] /\ reply'[d] = reply[d] /\ test' = test
        BY Zenon, <2>1, <3>1
      <4>2. PlaceOk(d)'
        BY Zenon, <3>i, <2>2, <4>1 DEF PlaceOk
      <4>3. ReadOk(d)'
        BY Zenon, <3>i, <2>2, <4>1 DEF ReadOk
      <4> QED
        BY Zenon, <4>2, <4>3
    <3>2. CASE d \in {c, main}
      <4>1. /\ pc'[d] \in {"send", "spawned"} /\ pc'[d] \in Places(d) /\ op'[d] = op[d] /\ test' = test
            /\ pc[d] \in {"select", "signal"}
        BY Zenon, <2>1, <3>i, <3>2, <1>c DEF PlaceOk, Places
      <4>2. PlaceOk(d)'
        BY Zenon, <3>i, <2>2, <4>1 DEF PlaceOk, Putting
      <4>3. ReadOk(d)'
        BY Zenon, <3>i, <2>2, <4>1 DEF ReadOk, Getting
      <4> QED
        BY Zenon, <4>2, <4>3
    <3> QED
      BY Zenon, <3>1, <3>2
  <2> QED
    BY Zenon, <2>1, <2>3, <2>4, <2>5 DEF HarnessInv, PlaceInv, ReadInv
<1>2. CASE ~Done(c)
  <2>1. Others(c) /\ After(c)'
    BY Zenon, <1>2, ClientOthers, ClientAfter
  <2>2. \A d \in Clnt : PlaceOk(d)' /\ ReadOk(d)' /\ ReliableOk(d)'
    BY Zenon, <2>1, <1>c, OthersKeep DEF After
  <2>3. pc'[main] = pc[main]
    BY Zenon, <2>1, <1>c DEF Others
  <2> QED
    BY Zenon, <1>m, <2>1, <2>2, <2>3 DEF HarnessInv, PlaceInv, ReadInv, ReliableInv, After
<1> QED
  BY Zenon, <1>1, <1>2

\* PutAtLeastOnce: nobody else puts, so the version is that of the put under way
\* or the next one, and then the value is the round's.
RoundOk ==
    /\ pc[main] \in {"test", "checkget"} => Version = ver[main]
    /\ pc[main] = "checkget" => List = Round
    /\ pc[main] = "atleast" =>
          /\ op[main] = PutArgs(main, testKey, Round, ver[main])
          /\ Version \in {ver[main], ver[main] + 1}
          /\ Version = ver[main] + 1 => List = Round

RoundInv == test = "PutAtLeastOnce" => RoundOk

\* SpawnClientsAndWait starts the clients.
LEMMA SpawnHarness ==
    ASSUME JsonValues, TypeOK, HarnessInv, Spawn, pc[main] \in {"test", "create"},
           call[main] = "idle", UNCHANGED <<test, ver, putErr, res>>,
           test = "OneClientPut" \/ (test = "OneClientAppend" /\ Version > 0)
    PROVE  HarnessInv'
<1>c. main \in Clnt /\ Cli \subseteq Clnt /\ \A d \in Clnt : d # main => d \in Cli
  BY Zenon, MainType DEF Cli
<1>1. /\ ClerkFrame(main) /\ Quit(main, "spawned")
      /\ \A d \in Clnt : d # main => pc'[d] = "select"
  BY Zenon, <1>c DEF Spawn, Forget, srvVars, ClerkFrame, Quit, TypeOK, KvTypeOK
<1>2. Tally(main)
  BY Zenon, <1>c, TallySame
<1>3. "spawned" \in Places(main) \ (Putting \cup Getting \cup {"start"})
  BY Zenon DEF Places, Putting, Getting
<1>4. After(main)'
  BY Zenon, <1>c, <1>1, <1>2, <1>3, QuitKeeps
<1>5. ASSUME NEW d \in Clnt, d # main PROVE PlaceOk(d)' /\ ReadOk(d)' /\ ReliableOk(d)'
  <2>i. PlaceOk(d) /\ ReadOk(d) /\ ReliableOk(d) /\ pc[d] = "start"
    BY Zenon, <1>5, <1>c DEF HarnessInv, PlaceInv, ReadInv, ReliableInv
  <2>1. /\ pc'[d] = "select" /\ op'[d] = op[d] /\ call'[d] = call[d] /\ reply'[d] = reply[d]
        /\ firstAttempt'[d] = firstAttempt[d] /\ enabled' = enabled /\ Version' = Version
        /\ Iter(d)' = Iter(d) /\ Nmaybe(d)' = Nmaybe(d)
    BY Zenon, <1>5, <1>1 DEF ClerkFrame, Version, Iter, Nmaybe
  <2>2. "select" \in Places(d)'
    BY Zenon, <1>5 DEF Places
  <2>3. PlaceOk(d)'
    BY Zenon, <2>i, <2>1, <2>2 DEF PlaceOk, Putting
  <2>4. ReadOk(d)'
    BY Zenon, <2>i, <2>1 DEF ReadOk, Getting
  <2>5. ReliableOk(d)'
    BY Zenon, <2>i, <2>1 DEF ReliableOk
  <2> QED
    BY Zenon, <2>3, <2>4, <2>5
<1>6. pc'[main] = "spawned"
  BY Zenon, <1>1 DEF Quit
<1> QED
  BY Zenon, <1>4, <1>5, <1>6 DEF HarnessInv, PlaceInv, ReadInv, ReliableInv, After

\* A step of one goroutine, when the test and the clients stay in step.
LEMMA OneHarness ==
    ASSUME HarnessInv, NEW c \in Clnt, Others(c), After(c)',
           pc'[main] \in {"test", "create", "atleast", "checkget"} => \A d \in Cli : pc'[d] = "start",
           pc'[main] = "check" => \A d \in Cli : pc'[d] = "gone"
    PROVE  HarnessInv'
<1>1. \A d \in Clnt : PlaceOk(d)' /\ ReadOk(d)' /\ ReliableOk(d)'
  BY Zenon, OthersKeep DEF After
<1> QED
  BY Zenon, <1>1 DEF HarnessInv, PlaceInv, ReadInv, ReliableInv, After

\* What the put of PutAtLeastOnce has come to when it returns.
LEMMA RoundReturned ==
    ASSUME TypeOK, HarnessInv, RoundInv, At(main, "atleast")
    PROVE  /\ test = "PutAtLeastOnce" /\ ver[main] \in Nat
           /\ Version = ver[main] + 1 /\ List = Round /\ reply[main].Err # ErrNoKey
<1>c. main \in Clnt /\ Answered(main) /\ pc[main] = "atleast"
  BY Zenon, MainType DEF At, Answered
<1>1. test = "PutAtLeastOnce"
  BY Zenon, <1>c DEF HarnessInv, PlaceInv, PlaceOk, Places
<1>2. op[main].type = "put" /\ op[main].version < Version
  BY Zenon, <1>c, PutAnswered DEF Putting
<1>3. /\ op[main] = PutArgs(main, testKey, Round, ver[main])
      /\ Version \in {ver[main], ver[main] + 1}
      /\ Version = ver[main] + 1 => List = Round
  BY Zenon, <1>1, <1>c DEF RoundInv, RoundOk
<1>4. op[main].version = ver[main]
  BY <1>3 DEF PutArgs
<1>5. reply[main].Err # ErrNoKey
  BY Zenon, <1>2, <1>c DEF HarnessInv, ClerkInv, ClerkOk
<1> QED
  BY <1>c, <1>1, <1>2, <1>3, <1>4, <1>5, Versions, ReplyFacts

\* The steps of the test's own goroutine keep the invariant.
LEMMA MainHarness ==
    ASSUME JsonValues, TypeOK, JsonInv, HarnessInv, RoundInv, Main
    PROVE  HarnessInv'
<1>c. main \in Clnt /\ Cli \subseteq Clnt /\ main \notin Cli
  BY Zenon, MainType DEF Cli
<1>i. PlaceOk(main) /\ ReadOk(main) /\ ClerkOk(main)
  BY Zenon, <1>c DEF HarnessInv, PlaceInv, ReadInv, ClerkInv
<1>t. Version \in Nat /\ ver[main] \in Nat /\ ver[main] + 1 \in Nat /\ 0 \in Nat /\ 0 <= Version
  BY <1>c, Versions, ReplyFacts
<1>p. /\ pc[main] = "create" => test = "OneClientAppend"
      /\ test = "OneClientAppend" => "create" \in Places(main)
      /\ pc[main] \in {"atleast", "checkget"} => test = "PutAtLeastOnce"
      /\ test = "PutAtLeastOnce" => {"atleast", "checkget"} \subseteq Places(main)
      /\ pc[main] \in {"spawned", "signal", "collect", "check"} => test # "PutAtLeastOnce"
      /\ test # "PutAtLeastOnce" => {"spawned", "signal", "collect", "check"} \subseteq Places(main)
      /\ {"test", "passed", "fatal"} \subseteq Places(main)
  BY Zenon, <1>i DEF Places, PlaceOk
<1>q. /\ {"create", "atleast"} \subseteq Putting /\ {"checkget", "check"} \subseteq Getting
      /\ {"test", "passed", "fatal", "signal", "collect"} \cap (Putting \cup Getting \cup {"start"}) = {}
  BY Zenon DEF Putting, Getting
<1>s. ASSUME pc[main] \in {"test", "create", "atleast", "checkget"}, NEW d \in Cli PROVE pc[d] = "start"
  BY Zenon, <1>s DEF HarnessInv, PlaceInv
<1>o. ASSUME (\E l : GetAnd(main, l) \/ Local(main, l)) \/ \E v, n, l : PutAnd(main, v, n, l),
             test' = test, putErr' = putErr,
             \A d \in Clnt : d # main => ver'[d] = ver[d] /\ res'[d] = res[d]
      PROVE  Others(main)
  <2>1. ClerkFrame(main) /\ \A d \in Clnt : d # main => pc'[d] = pc[d]
    BY Zenon, <1>o, <1>c, LocalView, CallView DEF GetAnd, PutAnd
  <2> QED
    BY Zenon, <2>1, <1>o DEF Others
<1>m. ASSUME Others(main), NEW d \in Cli PROVE pc'[d] = pc[d]
  BY Zenon, <1>m, <1>c DEF Others
<1>l. ASSUME NEW l \in {"test", "passed", "fatal", "signal", "collect"}, Local(main, l), Others(main),
             Tally(main), l \in Places(main), op[main].type = "get" \/ call[main] = "idle",
             Version > 0 \/ test # "OneClientAppend", l = "test" => pc[main] = "checkget"
      PROVE  HarnessInv'
  <2>1. Quit(main, l) /\ ClerkFrame(main) /\ pc'[main] = l
    BY Zenon, <1>l, <1>c, LocalView DEF Quit
  <2>2. l \in Places(main) \ (Putting \cup Getting \cup {"start"})
    BY Zenon, <1>l, <1>q
  <2>3. test' = test /\ \A d \in Clnt : d # main => ver'[d] = ver[d]
    BY Zenon, <1>l DEF Others
  <2>4. After(main)'
    BY Zenon, <1>l, <1>c, <2>1, <2>2, <2>3, QuitKeeps
  <2> QED
    BY Zenon, <1>l, <1>c, <1>s, <1>m, <2>1, <2>4, OneHarness
<1>g. ASSUME NEW l \in {"checkget", "check"}, GetAnd(main, l), Others(main), Tally(main),
             l \in Places(main), Version > 0 \/ (l = "check" /\ test # "OneClientAppend"),
             IF l = "check" THEN \A d \in Cli : pc[d] = "gone" ELSE pc[main] = "atleast"
      PROVE  HarnessInv'
  <2>1. Asked(main, GetArgs(main, testKey), l) /\ pc'[main] = l
    BY Zenon, <1>g, <1>c, CallView DEF GetAnd, Asked
  <2>2. After(main)'
    BY Zenon, <1>g, <1>c, <1>q, <2>1, AskGetKeeps
  <2> QED
    BY Zenon, <1>g, <1>c, <1>s, <1>m, <2>1, <2>2, OneHarness
<1>u. ASSUME NEW l \in {"create", "atleast"}, NEW v, NEW n \in Nat, PutAnd(main, v, n, l), Others(main),
             Tally(main), l \in Places(main), n <= Version, test # "OneClientAppend" \/ l = "create",
             pc[main] \in {"test", "create", "atleast"}
      PROVE  HarnessInv'
  <2>1. Asked(main, PutArgs(main, testKey, v, n), l) /\ pc'[main] = l
    BY Zenon, <1>u, <1>c, CallView DEF PutAnd, Asked
  <2>2. After(main)'
    BY Zenon, <1>u, <1>c, <1>q, <2>1, AskPutKeeps
  <2> QED
    BY Zenon, <1>u, <1>c, <1>s, <1>m, <2>1, <2>2, OneHarness
<1>e. ASSUME UNCHANGED <<ver, putErr, res>> PROVE Tally(main)
  BY Zenon, <1>e, <1>c, TallySame
<1>1. CASE StartTest
  <2>1. /\ pc[main] = "test" /\ call[main] = "idle" /\ UNCHANGED <<test, ver, putErr, res>>
        /\ Tally(main) /\ ver[main] <= Version
    BY Zenon, <1>1, <1>i, <1>e DEF StartTest, At, ClerkOk
  <2>2. CASE test = "OneClientPut" /\ Spawn
    BY Zenon, <2>1, <2>2, SpawnHarness
  <2>3. CASE test = "OneClientAppend" /\ PutAnd(main, <<>>, 0, "create")
    <3>1. Others(main)
      BY Zenon, <2>1, <2>3, <1>o
    <3> QED
      BY Zenon, <2>1, <2>3, <3>1, <1>u, <1>t, <1>p
  <2>4. CASE test = "PutAtLeastOnce" /\ PutAnd(main, Round, ver[main], "atleast")
    <3>1. Others(main)
      BY Zenon, <2>1, <2>4, <1>o
    <3> QED
      BY Zenon, <2>1, <2>4, <3>1, <1>u, <1>t, <1>p
  <2> QED
    BY Zenon, <1>1, <2>2, <2>3, <2>4 DEF StartTest
<1>2. CASE PutAtLeastOnceJson
  <2>1. /\ pc[main] = "create" /\ call[main] = "idle" /\ UNCHANGED <<test, ver, putErr, res>>
        /\ Tally(main) /\ test = "OneClientAppend"
    BY Zenon, <1>2, <1>e, <1>p DEF PutAtLeastOnceJson, At
  <2>2. Version > 0
    BY Zenon, <1>c, <2>1, PutAnswered DEF Answered, Putting
  <2>3. CASE Spawn
    BY Zenon, <2>1, <2>2, <2>3, SpawnHarness
  <2>4. CASE PutAnd(main, <<>>, 0, "create")
    <3>1. Others(main)
      BY Zenon, <2>1, <2>4, <1>o
    <3> QED
      BY Zenon, <2>1, <2>4, <3>1, <1>u, <1>t, <1>p
  <2> QED
    BY Zenon, <1>2, <2>3, <2>4 DEF PutAtLeastOnceJson
<1>3. CASE PutAtLeastOnce
  <2>0. At(main, "atleast")
    BY Zenon, <1>3 DEF PutAtLeastOnce
  <2>1. /\ test = "PutAtLeastOnce" /\ Version = ver[main] + 1 /\ reply[main].Err # ErrNoKey
        /\ pc[main] = "atleast" /\ call[main] = "idle"
    BY Zenon, <2>0, RoundReturned DEF At
  <2>2. /\ test' = test /\ putErr' = putErr /\ res' = res
        /\ ver' = [ver EXCEPT ![main] = ver[main] + 1]
        /\ GetAnd(main, "checkget") \/ PutAnd(main, Round, ver[main] + 1, "atleast")
    BY Zenon, <1>3, <2>1 DEF PutAtLeastOnce
  <2>3. ver'[main] = ver[main] + 1 /\ \A d \in Clnt : d # main => ver'[d] = ver[d] /\ res'[d] = res[d]
    BY Zenon, <2>2, <1>c DEF TypeOK
  <2>4. ver[main] + 1 <= Version /\ Version > 0
    BY <2>1, <1>t
  <2>5. Tally(main)
    BY Zenon, <2>2, <2>3, <2>4 DEF Tally, Nmaybe
  <2>6. Others(main)
    BY Zenon, <2>2, <2>3, <1>o
  <2>7. CASE GetAnd(main, "checkget")
    BY Zenon, <2>1, <2>4, <2>5, <2>6, <2>7, <1>g, <1>p
  <2>8. CASE PutAnd(main, Round, ver[main] + 1, "atleast")
    BY Zenon, <2>1, <2>4, <2>5, <2>6, <2>8, <1>u, <1>t, <1>p
  <2> QED
    BY Zenon, <2>2, <2>7, <2>8
<1>4. CASE CheckGet
  <2>1. /\ pc[main] = "checkget" /\ call[main] = "idle" /\ UNCHANGED <<test, ver, putErr>>
        /\ Version > 0
    BY Zenon, <1>4, <1>i DEF CheckGet, At, ReadOk, Getting
  <2>2. res' = res \/ Counted(main, TRUE)
    BY Zenon, <1>4 DEF CheckGet
  <2>3. Nmaybe(main)' = Nmaybe(main) /\ \A d \in Clnt : d # main => res'[d] = res[d]
    BY Zenon, <2>2, <1>c, CountView DEF Nmaybe
  <2>4. Tally(main)
    BY Zenon, <2>1, <2>3, <1>i DEF Tally, ClerkOk
  <2>5. \E l \in {"test", "passed", "fatal"} : Local(main, l)
    BY Zenon, <1>4 DEF CheckGet
  <2>6. Others(main)
    BY Zenon, <2>1, <2>3, <2>5, <1>o
  <2> QED
    BY Zenon, <2>1, <2>4, <2>5, <2>6, <1>l, <1>p
<1>5. CASE Signal \/ FinalCheck
  <2>1. /\ UNCHANGED <<test, ver, putErr, res>> /\ Tally(main)
        /\ pc[main] = "spawned" \/ (pc[main] = "check" /\ call[main] = "idle")
    BY Zenon, <1>5, <1>e DEF Signal, FinalCheck, At
  <2>2. Version > 0 \/ test # "OneClientAppend"
    BY Zenon, <1>i, <2>1 DEF ReadOk
  <2>3. pc[main] = "spawned" => op[main].type = "get"
    BY Zenon, <1>i DEF PlaceOk, Putting
  <2>4. \E l \in {"signal", "collect", "passed", "fatal"} : Local(main, l)
    BY Zenon, <1>5 DEF Signal, FinalCheck
  <2>5. Others(main)
    BY Zenon, <2>1, <2>4, <1>o
  <2> QED
    BY Zenon, <2>1, <2>2, <2>3, <2>4, <2>5, <1>l, <1>p
<1>6. ASSUME NEW c \in Cli, Collect(c) PROVE HarnessInv'
  <2>1. /\ UNCHANGED <<test, ver, putErr, res>> /\ pc[main] = "collect" /\ pc[c] = "send"
        /\ Local(c, "gone") /\ c \in Clnt /\ c # main
    BY Zenon, <1>6, <1>c DEF Collect
  <2>2. ClerkFrame(c) /\ Quit(c, "gone") /\ \A d \in Clnt : d # c => pc'[d] = pc[d]
    BY Zenon, <2>1, LocalView
  <2>3. Others(c)
    BY Zenon, <2>1, <2>2 DEF Others
  <2>4. Version > 0 \/ test # "OneClientAppend"
    BY Zenon, <2>1, <1>i DEF ReadOk
  <2>5. op[c].type = "get"
    BY Zenon, <2>1 DEF HarnessInv, PlaceInv, PlaceOk, Putting
  <2>6. "gone" \in Places(c) \ (Putting \cup Getting \cup {"start"})
    BY Zenon, <2>1, <1>p DEF Places, Putting, Getting
  <2>7. Tally(c)
    BY Zenon, <2>1, TallySame
  <2>8. After(c)'
    BY Zenon, <2>1, <2>2, <2>4, <2>5, <2>6, <2>7, QuitKeeps
  <2>9. pc'[main] = "collect"
    BY Zenon, <2>1, <2>2, <1>c
  <2> QED
    BY Zenon, <2>1, <2>3, <2>8, <2>9, OneHarness
<1>7. CASE ReadBack
  <2>1. /\ UNCHANGED <<test, ver, putErr, res>> /\ Tally(main) /\ pc[main] = "collect"
        /\ GetAnd(main, "check") /\ \A d \in Cli : pc[d] = "gone"
    BY Zenon, <1>7, <1>e DEF ReadBack
  <2>2. Others(main)
    BY Zenon, <2>1, <1>o
  <2>3. Version > 0 \/ test # "OneClientAppend"
    BY Zenon, <2>1, <1>i DEF ReadOk
  <2> QED
    BY Zenon, <2>1, <2>2, <2>3, <1>g, <1>p
<1> QED
  BY Zenon, <1>1, <1>2, <1>3, <1>4, <1>5, <1>6, <1>7 DEF Main

\* Nothing changes the key while the test reads it back.
LEMMA Frozen ==
    ASSUME JsonValues, TypeOK, JsonInv, HarnessInv, Service, pc[main] \in {"checkget", "check"}
    PROVE  Version' = Version /\ List' = List
<1>1. ASSUME NEW c \in Clnt PROVE pc[c] \notin Putting
  <2>1. c = main \/ pc[c] \in {"start", "gone"}
    BY Zenon DEF HarnessInv, PlaceInv, Cli
  <2> QED
    BY Zenon, <2>1 DEF Putting
<1>2. \A c \in Clnt : op[c].type = "get"
  BY Zenon, <1>1 DEF HarnessInv, PlaceInv, PlaceOk
<1>3. ClerkInv /\ "get" # "put"
  BY Zenon DEF HarnessInv
<1> QED
  BY Zenon, <1>2, <1>3, ServerStep DEF Installed

\* The service keeps what the Gets of the harness return.
LEMMA ServiceRead ==
    ASSUME JsonValues, TypeOK, JsonInv, HarnessInv, Service
    PROVE  ReadInv'
<1> SUFFICES ASSUME NEW c \in Clnt PROVE ReadOk(c)'
  BY Zenon DEF ReadInv
<1>i. ReadOk(c) /\ PlaceOk(c)
  BY Zenon DEF HarnessInv, ReadInv, PlaceInv
<1>f. op' = op /\ pc' = pc /\ test' = test /\ Iter(c)' = Iter(c)
  BY Zenon, ServiceFrame DEF Iter
<1>g. GetArgs(c, testKey)' = GetArgs(c, testKey)
  BY Zenon DEF GetArgs
<1>s. Version' = Version \/ Version' = Version + 1
  BY Zenon, ServerStep DEF Installed, HarnessInv
<1>v. Version \in Nat /\ reply[c].Version \in Nat
  BY Zenon, Versions
<1>1. Version > 0 => Version' > 0
  BY <1>s, <1>v
<1>2. ASSUME pc[c] \in Getting, Answered(c)', Version' > 0
      PROVE  /\ reply'[c].Err = OK /\ reply'[c].Version <= Version'
             /\ c = main => reply'[c].Version = Version' /\ reply'[c].Value = List'
  <2>z. c = main => Version' = Version /\ List' = List
    BY Zenon, <1>2, <1>i, Frozen DEF PlaceOk, Places, Getting
  <2>1. op[c] = GetArgs(c, testKey) /\ Version > 0 /\ op[c].type # "put"
    <3>1. op[c].type = "get"
      BY Zenon, <1>2, <1>i DEF PlaceOk, Getting, Putting
    <3>2. pc[c] = "check" => c = main
      BY Zenon, <1>i DEF PlaceOk, Places
    <3>3. Version > 0
      BY Zenon, <1>2, <1>i, <2>z, <3>2 DEF ReadOk
    <3> QED
      BY Zenon, <1>2, <1>i, <3>1, <3>3 DEF ReadOk
  <2>2. CASE /\ Answered(c) /\ reply'[c].Err = reply[c].Err
             /\ reply'[c].Version = reply[c].Version /\ reply'[c].Value = reply[c].Value
    <3>1. /\ reply[c].Err = OK /\ reply[c].Version <= Version
          /\ c = main => reply[c].Version = Version /\ reply[c].Value = List
      BY Zenon, <1>2, <1>i, <2>1, <2>2 DEF ReadOk
    <3>2. reply[c].Version <= Version'
      BY <3>1, <1>s, <1>v
    <3> QED
      BY Zenon, <2>2, <2>z, <3>1, <3>2
  <2>3. CASE Execute(c)
    <3>1. List # NoValue
      BY <2>1, <1>v DEF HarnessInv, ClerkInv
    <3>2. /\ reply'[c].Err = OK /\ reply'[c].Value = List /\ reply'[c].Version = Version
          /\ Version' = Version /\ List' = List
      BY Zenon, <2>1, <2>3, <3>1, GetView
    <3> QED
      BY <3>2, <1>v
  <2>4. CASE Return(c)
    <3>1. ClerkErr(c) = reply[c].Err
      BY Zenon, <2>1 DEF ClerkErr
    <3> QED
      BY Zenon, <2>2, <2>4, <3>1, ReturnView DEF Answered
  <2>5. CASE Untouched(c) \/ Transported(c)
    BY Zenon, <1>2, <2>2, <2>5 DEF Untouched, Transported, Answered
  <2> QED
    BY Zenon, <2>3, <2>4, <2>5, ServiceViews
<1> QED
  BY Zenon, <1>i, <1>f, <1>g, <1>1, <1>2 DEF ReadOk

\* A reliable network stays so for the clerks.
LEMMA ServiceReliable ==
    ASSUME TypeOK, HarnessInv, Service
    PROVE  ReliableInv'
<1> SUFFICES ASSUME NEW c \in Clnt, Reliable PROVE ReliableOk(c)!2'
  BY Zenon DEF ReliableInv, ReliableOk
<1>i. ReliableOk(c)!2
  BY Zenon DEF HarnessInv, ReliableInv, ReliableOk
<1>f. putErr' = putErr /\ Nmaybe(c)' = Nmaybe(c)
  BY Zenon, ServiceFrame DEF Nmaybe
<1>e. enabled' = enabled
  BY Zenon DEF Reliable, Service, Transport, Dispatch, LoseRequest, Abandon, LoseReply, Deliver, Enable, Resend,
     Execute, Return, ExecuteLate
<1>1. CASE Untouched(c)
  BY Zenon, <1>1, <1>i, <1>f, <1>e DEF Untouched
<1>2. CASE Transported(c)
  BY Zenon, <1>2, <1>i, <1>f, <1>e, Fresh DEF Transported, Reliable
<1>3. CASE Execute(c)
  <2>1. \A r : HandlerReply(r).Err # ErrMaybe
    BY DEF HandlerReply, GetReply, PutReply, PutErr, OK, ErrNoKey, ErrVersion, ErrMaybe
  <2>2. /\ reply'[c] = HandlerReply(op[c]) /\ call'[c] = "done" /\ firstAttempt' = firstAttempt
    BY Zenon, <1>3 DEF Execute, SetCall, clntVars, TypeOK, KvTypeOK
  <2> QED
    BY Zenon, <1>i, <1>f, <1>e, <2>1, <2>2
<1>4. CASE Return(c)
  <2>1. reply'[c].Err = ClerkErr(c) /\ call'[c] = "idle" /\ firstAttempt' = firstAttempt
    BY Zenon, <1>4, ReturnView
  <2>2. ClerkErr(c) # ErrMaybe
    BY Zenon, <1>i DEF ClerkErr
  <2> QED
    BY Zenon, <1>i, <1>f, <1>e, <2>1, <2>2
<1> QED
  BY Zenon, <1>1, <1>2, <1>3, <1>4, ServiceViews

\* The service keeps the invariant.
LEMMA ServiceHarness ==
    ASSUME JsonValues, TypeOK, JsonInv, HarnessInv, Service
    PROVE  HarnessInv'
<1>1. op' = op /\ UNCHANGED <<test, pc, res>>
  BY Zenon, ServiceFrame
<1>2. \A c \in Clnt : Places(c)' = Places(c) /\ Iter(c)' = Iter(c)
  BY Zenon, <1>1 DEF Places, Iter
<1>3. PlaceInv'
  BY Zenon, <1>1, <1>2 DEF HarnessInv, PlaceInv, PlaceOk
<1>4. ClerkInv'
  BY Zenon, ServiceClerk DEF HarnessInv
<1> QED
  BY Zenon, <1>3, <1>4, ServiceRead, ServiceReliable DEF HarnessInv

\* The service keeps RoundInv: only the put under way moves the version on.
LEMMA ServiceRound ==
    ASSUME JsonValues, TypeOK, JsonInv, HarnessInv, RoundInv, Service
    PROVE  RoundInv'
<1> SUFFICES ASSUME test = "PutAtLeastOnce" PROVE RoundOk'
  BY Zenon, ServiceFrame DEF RoundInv
<1>c. main \in Clnt
  BY Zenon, MainType
<1>i. RoundOk
  BY Zenon DEF RoundInv
<1>f. op' = op /\ pc' = pc /\ ver' = ver /\ Round' = Round
  BY Zenon, ServiceFrame DEF Round, Iter, Pair
<1>p. PutArgs(main, testKey, Round, ver[main])' = PutArgs(main, testKey, Round, ver[main])
  BY Zenon, <1>f DEF PutArgs
<1>1. CASE Version' = Version /\ List' = List
  BY Zenon, <1>1, <1>i, <1>f, <1>p DEF RoundOk
<1>2. ASSUME NEW c \in Clnt, Installed(c) PROVE RoundOk'
  <2>1. op[c].type = "put" /\ op[c].version = Version /\ Version' = Version + 1 /\ List' = op[c].value
    BY Zenon, <1>2 DEF Installed
  <2>2. PlaceOk(c)
    BY Zenon DEF HarnessInv, PlaceInv
  <2>3. pc[c] \in Putting
    BY Zenon, <2>1, <2>2, "get" # "put" DEF PlaceOk
  <2>4. c = main /\ pc[main] = "atleast"
    BY Zenon, <2>2, <2>3 DEF PlaceOk, Places, Putting
  <2>5. op[main] = PutArgs(main, testKey, Round, ver[main])
    BY Zenon, <1>i, <2>4 DEF RoundOk
  <2>6. op[main].version = ver[main] /\ op[main].value = Round
    BY <2>5 DEF PutArgs
  <2>7. Version' = ver[main] + 1 /\ List' = Round
    BY Zenon, <2>1, <2>4, <2>6
  <2> QED
    BY Zenon, <1>f, <1>p, <2>4, <2>5, <2>7 DEF RoundOk
<1> QED
  BY Zenon, <1>1, <1>2, ServerStep DEF HarnessInv

\* So does the test.
LEMMA MainRound ==
    ASSUME JsonValues, TypeOK, JsonInv, HarnessInv, RoundInv, Main
    PROVE  RoundInv'
<1>c. main \in Clnt
  BY Zenon, MainType
<1>t. test' = test
  BY Zenon DEF Main, StartTest, PutAtLeastOnceJson, PutAtLeastOnce, CheckGet, Signal, Collect, ReadBack, FinalCheck
<1> SUFFICES ASSUME test = "PutAtLeastOnce" PROVE RoundOk'
  BY Zenon, <1>t DEF RoundInv
<1>i. RoundOk
  BY Zenon DEF RoundInv
<1>m. pc[main] \in {"test", "atleast", "checkget", "passed", "fatal"}
  BY Zenon, <1>c DEF HarnessInv, PlaceInv, PlaceOk, Places
<1>n. ver[main] \in Nat
  BY Zenon, <1>c, ReplyFacts
<1>p. ASSUME NEW n \in Nat, PutAnd(main, Round, n, "atleast"), ver'[main] = n, res' = res, Version = n
      PROVE  RoundOk'
  <2>1. pc'[main] = "atleast" /\ op'[main] = PutArgs(main, testKey, Round, n) /\ Version' = Version
    BY Zenon, <1>p, <1>c, CallView DEF PutAnd, Asked, ClerkFrame, Version
  <2>2. Round' = Round
    BY Zenon, <1>p DEF Round, Iter, Pair
  <2>3. PutArgs(main, testKey, Round, ver[main])' = PutArgs(main, testKey, Round, n)
    BY Zenon, <1>p, <2>2 DEF PutArgs
  <2>4. Version' # ver'[main] + 1
    BY <1>p, <2>1
  <2> QED
    BY Zenon, <1>p, <2>1, <2>3, <2>4 DEF RoundOk
<1>1. CASE StartTest
  <2>1. pc[main] = "test" /\ PutAnd(main, Round, ver[main], "atleast") /\ res' = res /\ ver' = ver
    BY Zenon, <1>1 DEF StartTest, At
  <2> QED
    BY Zenon, <2>1, <1>i, <1>n, <1>p DEF RoundOk
<1>2. CASE PutAtLeastOnce
  <2>1. Version = ver[main] + 1 /\ List = Round /\ reply[main].Err # ErrNoKey
    BY Zenon, <1>2, RoundReturned DEF PutAtLeastOnce
  <2>2. /\ res' = res /\ ver' = [ver EXCEPT ![main] = ver[main] + 1]
        /\ GetAnd(main, "checkget") \/ PutAnd(main, Round, ver[main] + 1, "atleast")
    BY Zenon, <1>2, <2>1 DEF PutAtLeastOnce
  <2>3. ver'[main] = ver[main] + 1
    BY Zenon, <2>2, <1>c DEF TypeOK
  <2>4. CASE GetAnd(main, "checkget")
    <3>1. pc'[main] = "checkget" /\ Version' = Version /\ List' = List
      BY Zenon, <2>4, <1>c, CallView DEF GetAnd, Asked, ClerkFrame, Version, List
    <3>2. Round' = Round
      BY Zenon, <2>2 DEF Round, Iter, Pair
    <3> QED
      BY Zenon, <2>1, <2>3, <3>1, <3>2 DEF RoundOk
  <2>5. CASE PutAnd(main, Round, ver[main] + 1, "atleast")
    <3>1. ver[main] + 1 \in Nat
      BY <1>n
    <3> QED
      BY Zenon, <2>1, <2>2, <2>3, <2>5, <3>1, <1>p
  <2> QED
    BY Zenon, <2>2, <2>4, <2>5
<1>3. CASE CheckGet
  <2>1. pc[main] = "checkget" /\ ver' = ver /\ \E l \in {"test", "passed", "fatal"} : Local(main, l)
    BY Zenon, <1>3 DEF CheckGet, At
  <2>2. pc'[main] \in {"test", "passed", "fatal"} /\ Version' = Version
    BY Zenon, <2>1, <1>c, LocalView DEF Quit, ClerkFrame, Version
  <2> QED
    BY Zenon, <1>i, <2>1, <2>2 DEF RoundOk
<1>4. ~(PutAtLeastOnceJson \/ Signal \/ ReadBack \/ FinalCheck \/ \E c \in Cli : Collect(c))
  BY Zenon, <1>m DEF PutAtLeastOnceJson, Signal, ReadBack, FinalCheck, Collect, At
<1> QED
  BY Zenon, <1>1, <1>2, <1>3, <1>4 DEF Main

\* There are no other clients in that test.
LEMMA ClientRound ==
    ASSUME TypeOK, HarnessInv, NEW c \in Cli, Client(c)
    PROVE  RoundInv'
<1>c. c \in Clnt /\ c # main
  BY Zenon, MainType DEF Cli
<1>1. pc[c] # "start"
  BY Zenon DEF Client, Done, Begin, OnePutPut, OnePutGet, AppendGot, AppendPut, At
<1>2. test # "PutAtLeastOnce"
  BY Zenon, <1>1, <1>c DEF HarnessInv, PlaceInv, PlaceOk, Places
<1>3. test' = test
  BY Zenon DEF Client, Done, Begin, OnePutPut, OnePutGet, AppendGot, AppendPut
<1> QED
  BY Zenon, <1>2, <1>3 DEF RoundInv

-----------------------------------------------------------------------------
(* Sums over the clients *)

\* What the lemmas below use of the library's facts about finite sets and numbers.
\* They assume it; it is proved at the end of the module, where the library comes
\* in, as its theorems slow down every obligation after them.
Counting ==
    /\ Cardinality({}) = 0
    /\ \A n \in Nat : IsFiniteSet(1..n)
    /\ \A S : IsFiniteSet(S) =>
          /\ Cardinality(S) \in Nat
          /\ \A T \in SUBSET S : IsFiniteSet(T)
          /\ \A x : x \notin S => Cardinality(S \cup {x}) = Cardinality(S) + 1
    /\ \A T \in SUBSET Nat : T # {} => \E x \in T : \A y \in T : x <= y

\* The sizes of finite sets are numbers; their subsets are finite.
LEMMA Sizes ==
    ASSUME Counting, NEW S, IsFiniteSet(S)
    PROVE  Cardinality(S) \in Nat /\ \A T \in SUBSET S : IsFiniteSet(T)
BY Zenon DEF Counting

\* One more element counts one more.
LEMMA OneMore ==
    ASSUME Counting, NEW S, NEW x, IsFiniteSet(S), x \notin S
    PROVE  Cardinality(S \cup {x}) = Cardinality(S) + 1
BY Zenon DEF Counting

\* A set of numbers that is not empty has a least one.
LEMMA Least ==
    ASSUME Counting, NEW T \in SUBSET Nat, T # {}
    PROVE  \E x \in T : \A y \in T : x <= y
BY Zenon DEF Counting

\* So what holds of 0, and of n + 1 when it holds of n, holds of every number.
LEMMA Induct ==
    ASSUME Counting, NEW T, 0 \in T, \A n \in Nat : n \in T => n + 1 \in T
    PROVE  Nat \subseteq T
<1> SUFFICES ASSUME Nat \ T # {} PROVE FALSE
  OBVIOUS
<1>1. PICK x \in Nat \ T : \A y \in Nat \ T : x <= y
  BY Zenon, Least
<1> QED
  BY <1>1, x - 1 \in T

\* How many clients there are.
LEMMA CliCount ==
    ASSUME Counting
    PROVE  /\ Cardinality(Cli) \in Nat /\ Cardinality(Cli) > 0
           /\ \A n : n \in Cli <=> n \in Nat /\ n < Cardinality(Cli)
<1>1. IsFiniteSet(Cli) /\ Cardinality(Cli) \in Nat
  BY TestAssumption, Sizes DEF Cli
<1> QED
  BY <1>1, TestAssumption

\* The partial sums of f, over the clients below n.
Partial(f, n, g) ==
    g = [i \in 0..n |-> IF i = 0 THEN 0 ELSE g[i - 1] + f[i - 1]]

\* There are such sums.
LEMMA PartialExists == ASSUME Counting, NEW f PROVE \A n \in Nat : \E g : Partial(f, n, g)
<1> DEFINE T == {n \in Nat : \E g : Partial(f, n, g)}
<1>1. 0 \in T
  <2> DEFINE g == [i \in 0..0 |-> 0]
  <2>1. Partial(f, 0, g)
    BY DEF Partial
  <2> QED
    BY <2>1
<1>2. ASSUME NEW n \in Nat, n \in T PROVE n + 1 \in T
  <2>1. PICK g : Partial(f, n, g)
    BY Zenon, <1>2
  <2> DEFINE h == [i \in 0..(n + 1) |-> IF i = n + 1 THEN g[n] + f[n] ELSE g[i]]
  <2>2. h = [i \in 0..(n + 1) |-> IF i = 0 THEN 0 ELSE h[i - 1] + f[i - 1]]
    <3> SUFFICES ASSUME NEW i \in 0..(n + 1)
                 PROVE  h[i] = IF i = 0 THEN 0 ELSE h[i - 1] + f[i - 1]
      OBVIOUS
    <3>1. CASE i = n + 1
      <4>1. h[i] = g[n] + f[n] /\ h[n] = g[n]
        BY <3>1
      <4> HIDE DEF h
      <4> QED
        BY <3>1, <4>1
    <3>2. CASE i # n + 1
      <4>1. i \in 0..n /\ h[i] = g[i] /\ (i # 0 => h[i - 1] = g[i - 1])
        BY <3>2
      <4>2. g[i] = IF i = 0 THEN 0 ELSE g[i - 1] + f[i - 1]
        BY <2>1, <4>1 DEF Partial
      <4> HIDE DEF h
      <4> QED
        BY <4>1, <4>2
    <3> QED
      BY <3>1, <3>2
  <2> HIDE DEF h
  <2>3. Partial(f, n + 1, h)
    BY Zenon, <2>2 DEF Partial
  <2> QED
    BY <2>3
<1> HIDE DEF T
<1>3. Nat \subseteq T
  BY <1>1, <1>2, Induct
<1> QED
  BY <1>3 DEF T

\* The loop adds the numbers up one by one.
LEMMA SumSteps ==
    ASSUME Counting, NEW f
    PROVE  \E g : /\ Sum(f) = g[Cardinality(Cli)] /\ g[0] = 0
                  /\ \A i \in Cli : g[i + 1] = g[i] + f[i]
<1> DEFINE K == Cardinality(Cli)
           g == CHOOSE h : Partial(f, K, h)
<1>k. K \in Nat /\ \A i : i \in Cli <=> i \in Nat /\ i < K
  BY CliCount
<1>1. Partial(f, K, g)
  BY <1>k, PartialExists
<1>2. Sum(f) = g[K]
  BY DEF Sum, Partial
<1> HIDE DEF g
<1>3. g[0] = 0
  BY <1>1, <1>k DEF Partial
<1>4. ASSUME NEW i \in Cli PROVE g[i + 1] = g[i] + f[i]
  <2>1. i + 1 \in 0..K /\ i + 1 # 0 /\ (i + 1) - 1 = i
    BY <1>k
  <2> HIDE DEF K
  <2> QED
    BY Zenon, <1>1, <2>1 DEF Partial
<1> QED
  BY <1>2, <1>3, <1>4

\* What holds of the sums before the loop and is kept by each turn holds after it.
LEMMA ForClients ==
    ASSUME Counting, NEW T, 0 \in T, \A i \in Cli : i \in T => i + 1 \in T
    PROVE  Cardinality(Cli) \in T
<1> DEFINE K == Cardinality(Cli)
           U == {n \in Nat : n <= K => n \in T}
<1>k. K \in Nat /\ \A i : i \in Cli <=> i \in Nat /\ i < K
  BY CliCount
<1> HIDE DEF K
<1>1. 0 \in U
  BY <1>k
<1>2. ASSUME NEW n \in Nat, n \in U PROVE n + 1 \in U
  <2>1. n < K => n \in Cli /\ n \in T
    BY <1>2, <1>k
  <2>2. n < K => n + 1 \in T
    BY Zenon, <2>1
  <2> QED
    BY <2>2, <1>k
<1> HIDE DEF U
<1>3. Nat \subseteq U
  BY <1>1, <1>2, Induct
<1> QED
  BY <1>3, <1>k DEF K, U

\* A sum of counts is a count.
LEMMA SumType == ASSUME Counting, NEW f \in [Cli -> Nat] PROVE Sum(f) \in Nat
<1>1. PICK g : /\ Sum(f) = g[Cardinality(Cli)] /\ g[0] = 0
               /\ \A i \in Cli : g[i + 1] = g[i] + f[i]
  BY SumSteps
<1> DEFINE T == {n \in Nat : g[n] \in Nat}
<1>2. 0 \in T
  BY <1>1, CliCount
<1>3. ASSUME NEW i \in Cli, i \in T PROVE i + 1 \in T
  BY <1>1, <1>3, CliCount
<1> HIDE DEF T
<1>4. Cardinality(Cli) \in T
  BY <1>2, <1>3, ForClients
<1> QED
  BY <1>1, <1>4 DEF T

\* Sums add up.
LEMMA SumAdd ==
    ASSUME Counting, NEW e \in [Cli -> Nat], NEW f \in [Cli -> Nat], NEW s,
           \A i \in Cli : s[i] = e[i] + f[i]
    PROVE  Sum(s) = Sum(e) + Sum(f)
<1>1. PICK g : /\ Sum(e) = g[Cardinality(Cli)] /\ g[0] = 0
               /\ \A i \in Cli : g[i + 1] = g[i] + e[i]
  BY SumSteps
<1>2. PICK h : /\ Sum(f) = h[Cardinality(Cli)] /\ h[0] = 0
               /\ \A i \in Cli : h[i + 1] = h[i] + f[i]
  BY SumSteps
<1>3. PICK k : /\ Sum(s) = k[Cardinality(Cli)] /\ k[0] = 0
               /\ \A i \in Cli : k[i + 1] = k[i] + s[i]
  BY SumSteps
<1> DEFINE T == {n \in Nat : g[n] \in Nat /\ h[n] \in Nat /\ k[n] = g[n] + h[n]}
<1>4. 0 \in T
  BY <1>1, <1>2, <1>3, CliCount
<1>5. ASSUME NEW i \in Cli, i \in T PROVE i + 1 \in T
  BY <1>1, <1>2, <1>3, <1>5, CliCount
<1> HIDE DEF T
<1>6. Cardinality(Cli) \in T
  BY <1>4, <1>5, ForClients
<1> QED
  BY <1>1, <1>2, <1>3, <1>6 DEF T

\* A larger count for some client makes a larger sum.
LEMMA SumLess ==
    ASSUME Counting, NEW e \in [Cli -> Nat], NEW f \in [Cli -> Nat], \A i \in Cli : e[i] <= f[i]
    PROVE  Sum(e) <= Sum(f)
<1> DEFINE d == [i \in Cli |-> f[i] - e[i]]
<1>1. d \in [Cli -> Nat]
  OBVIOUS
<1>2. Sum(f) = Sum(e) + Sum(d)
  BY <1>1, SumAdd
<1> QED
  BY <1>1, <1>2, SumType

\* Counting one more for one client adds one.
LEMMA SumBump ==
    ASSUME Counting, NEW e \in [Cli -> Nat], NEW f, NEW c \in Cli,
           \A i \in Cli : f[i] = e[i] + IF i = c THEN 1 ELSE 0
    PROVE  Sum(f) = Sum(e) + 1
<1> DEFINE b == [i \in Cli |-> IF i = c THEN 1 ELSE 0]
<1>1. Sum(f) = Sum(e) + Sum(b)
  BY SumAdd
<1>2. PICK g : /\ Sum(b) = g[Cardinality(Cli)] /\ g[0] = 0
               /\ \A i \in Cli : g[i + 1] = g[i] + b[i]
  BY Zenon, SumSteps
<1> DEFINE T == {n \in Nat : g[n] = IF c < n THEN 1 ELSE 0}
<1>3. 0 \in T
  BY <1>2, CliCount
<1>4. ASSUME NEW i \in Cli, i \in T PROVE i + 1 \in T
  BY <1>2, <1>4, CliCount
<1> HIDE DEF T
<1>5. Cardinality(Cli) \in T
  BY <1>3, <1>4, ForClients
<1> QED
  BY <1>1, <1>2, <1>5, CliCount DEF T

\* A sum that is not 0 has a number that is not 0.
LEMMA SumZero ==
    ASSUME Counting, NEW f \in [Cli -> Nat], Sum(f) > 0
    PROVE  \E c \in Cli : f[c] > 0
<1> SUFFICES ASSUME \A c \in Cli : f[c] = 0 PROVE FALSE
  OBVIOUS
<1>1. Sum(f) = Sum(f) + Sum(f)
  BY SumAdd
<1> QED
  BY <1>1, SumType

-----------------------------------------------------------------------------
(* The harness as a whole *)

\* It starts with no key and with all goroutines but the test's own to be spawned.
LEMMA InitHarness == ASSUME Init PROVE HarnessInv /\ RoundInv
<1>1. PICK k \in Key : op = [c \in Clnt |-> GetArgs(c, k)]
  BY Zenon DEF Init, KvInit
<1>2. ASSUME NEW c \in Clnt
      PROVE  /\ op[c].type = "get" /\ op[c].clnt = c /\ Iter(c) = 0 /\ Nmaybe(c) = 0 /\ ver[c] = 0
             /\ pc[c] = IF c = main THEN "test" ELSE "start"
             /\ enabled[c] /\ call[c] = "idle" /\ firstAttempt[c] /\ putErr[c] = OK
             /\ reply[c] = PutReply(OK)
  <2>1. op[c].type = "get" /\ op[c].clnt = c
    BY <1>1 DEF GetArgs
  <2>2. Iter(c) = 0 /\ Nmaybe(c) = 0
    BY DEF Init, Iter, Nmaybe
  <2> QED
    BY Zenon, <2>1, <2>2 DEF Init, KvInit
<1>3. Version = 0 /\ List = NoValue /\ late = {} /\ 0 <= 0 /\ ~(0 > 0)
  BY MainType DEF Init, KvInit, SrvInit, Version, List
<1>4. PlaceInv
  <2>1. \A c \in Clnt : PlaceOk(c)
    BY Zenon, <1>2 DEF PlaceOk, Places, Putting
  <2>2. pc[main] = "test" /\ \A c \in Cli : pc[c] = "start"
    BY Zenon, <1>2, MainType DEF Cli
  <2> QED
    BY Zenon, <2>1, <2>2 DEF PlaceInv
<1>5. ClerkInv
  BY Zenon, <1>2, <1>3 DEF ClerkInv, ClerkOk, LateOk
<1>6. ReadInv
  BY Zenon, <1>2, <1>3 DEF ReadInv, ReadOk, Getting
<1>7. ReliableInv
  <2> SUFFICES ASSUME NEW c \in Clnt PROVE ReliableOk(c)
    BY Zenon DEF ReliableInv
  <2>1. reply[c].Err # ErrMaybe /\ putErr[c] # ErrMaybe /\ call[c] # "failed"
    BY Zenon, <1>2, Fresh
  <2> QED
    BY Zenon, <1>2, <2>1 DEF ReliableOk
<1>8. RoundInv
  BY Zenon, <1>2, <1>3, MainType DEF RoundInv, RoundOk
<1> QED
  BY Zenon, <1>4, <1>5, <1>6, <1>7, <1>8 DEF HarnessInv

\* Every step keeps the invariant.
LEMMA HarnessKeeps ==
    ASSUME Counting, JsonValues, TypeOK, JsonInv, HarnessInv, RoundInv, [Next]_vars
    PROVE  HarnessInv' /\ RoundInv'
<1>1. CASE UNCHANGED vars
  <2> USE DEF vars, kvVars, testVars, Version, List
  <2>1. PlaceInv'
    <3>1. \A c \in Clnt : Places(c)' = Places(c) /\ Iter(c)' = Iter(c)
      BY Zenon, <1>1 DEF Places, Iter
    <3>2. UNCHANGED <<pc, op>>
      BY Zenon, <1>1
    <3> QED
      BY Zenon, <3>1, <3>2 DEF HarnessInv, PlaceInv, PlaceOk
  <2>2. ClerkInv'
    BY Zenon, <1>1 DEF HarnessInv, ClerkInv, ClerkOk, LateOk, Sure, Answered, Unanswered
  <2>3. ReadInv'
    BY Zenon, <1>1 DEF HarnessInv, ReadInv, ReadOk, Getting, Answered, Unanswered, Pair, Iter
  <2>4. ReliableInv'
    BY Zenon, <1>1 DEF HarnessInv, ReliableInv, ReliableOk, Nmaybe
  <2>5. RoundInv'
    BY Zenon, <1>1 DEF RoundInv, RoundOk, Round, Pair, Iter, PutArgs
  <2> QED
    BY Zenon, <2>1, <2>2, <2>3, <2>4, <2>5 DEF HarnessInv
<1>2. CASE Service
  BY Zenon, <1>2, ServiceHarness, ServiceRound
<1>3. CASE Main
  BY Zenon, <1>3, MainHarness, MainRound
<1>4. ASSUME NEW c \in Cli, Client(c) PROVE HarnessInv' /\ RoundInv'
  BY Zenon, <1>4, ClientHarness, ClientRound
<1> QED
  BY Zenon, <1>1, <1>2, <1>3, <1>4 DEF Next

-----------------------------------------------------------------------------
(* The appended list *)

\* A client's append may be in the list, and is there for sure.
Hit(c)    == pc[c] = "aput" /\ op[c].version < Version /\ Sure(c)
Landed(c) == pc[c] = "aput" /\ Answered(c) /\ reply[c].Err = OK

\* PutAtLeastOnceJson puts the empty list.
CreateOk == pc[main] = "create" => op[main] = PutArgs(main, testKey, <<>>, 0)

\* Every append makes the list longer by one pair, of a client.
ListOk ==
    /\ Len(List) + 1 = Version /\ NoOldPut(List)
    /\ \A i \in 1..Len(List) : List[i].Id \in Cli

\* The pair of a client's iteration is in the list only if the client is to go on
\* to the next one, and what it counts as OK is there.
LandOk(c) ==
    /\ \A i \in Of(List, c) : List[i].N <= Iter(c) /\ (List[i].N = Iter(c) => Hit(c))
    /\ Cardinality(Of(List, c)) >= Nok(c) + IF Landed(c) THEN 1 ELSE 0

LandInv ==
    test = "OneClientAppend" =>
        CreateOk /\ (Version > 0 => ListOk /\ \A c \in Cli : LandOk(c))

\* The places of a client's pairs in a list.
LEMMA OfFacts ==
    ASSUME Counting, NEW es \in Json, NEW c
    PROVE  /\ Of(es, c) \subseteq 1..Len(es)
           /\ IsFiniteSet(Of(es, c)) /\ Cardinality(Of(es, c)) \in Nat
<1>l. Len(es) \in Nat
  BY DEF Json
<1>1. Of(es, c) \subseteq 1..Len(es)
  BY Zenon DEF Of
<1>2. IsFiniteSet(1..Len(es))
  BY Zenon, <1>l DEF Counting
<1> QED
  BY <1>1, <1>2, Sizes

\* An append adds a place at the end.
LEMMA OfAppend ==
    ASSUME Counting, NEW es \in Json, NEW p \in [Id : Clnt, N : Nat], NEW c
    PROVE  /\ p.Id # c => Of(Append(es, p), c) = Of(es, c)
           /\ p.Id = c => /\ Of(Append(es, p), c) = Of(es, c) \cup {Len(es) + 1}
                          /\ Cardinality(Of(Append(es, p), c)) = Cardinality(Of(es, c)) + 1
<1>1. /\ Len(es) \in Nat /\ Len(Append(es, p)) = Len(es) + 1
      /\ Append(es, p)[Len(es) + 1] = p
      /\ \A i \in 1..Len(es) : Append(es, p)[i] = es[i]
  BY DEF Json
<1>2. \A i : i \in 1..(Len(es) + 1) <=> i \in 1..Len(es) \/ i = Len(es) + 1
  BY <1>1
<1>3. Len(es) + 1 \notin 1..Len(es)
  BY <1>1
<1>4. p.Id # c => Of(Append(es, p), c) = Of(es, c)
  BY Zenon, <1>1, <1>2, <1>3 DEF Of
<1>5. p.Id = c => Of(Append(es, p), c) = Of(es, c) \cup {Len(es) + 1}
  BY Zenon, <1>1, <1>2, <1>3 DEF Of
<1>6. Len(es) + 1 \notin Of(es, c)
  BY Zenon, <1>3, OfFacts
<1>7. Cardinality(Of(es, c) \cup {Len(es) + 1}) = Cardinality(Of(es, c)) + 1
  BY Zenon, <1>6, OfFacts, OneMore
<1> QED
  BY Zenon, <1>4, <1>5, <1>7

\* The counts and places used below are numbers.
LEMMA LandTypes ==
    ASSUME TypeOK, JsonInv, Version > 0, ClerkInv
    PROVE  /\ Version \in Nat /\ List \in Json /\ Len(List) \in Nat
           /\ \A i \in 1..Len(List) : List[i].N \in Nat /\ List[i].Id \in Clnt
           /\ \A c \in Cli : c \in Clnt /\ Iter(c) \in Nat /\ Nok(c) \in Nat /\ op[c].version \in Nat
<1>1. Version \in Nat /\ \A c \in Clnt : op[c].version \in Nat
  BY Zenon, Versions
<1>2. List # NoValue
  BY <1>1 DEF ClerkInv
<1>3. List \in Json
  BY Zenon, <1>2 DEF JsonInv, List
<1>4. Len(List) \in Nat /\ \A i \in 1..Len(List) : List[i].N \in Nat /\ List[i].Id \in Clnt
  <2> DEFINE P == [Id : Clnt, N : Nat]
  <2>1. \A p \in P : p.N \in Nat /\ p.Id \in Clnt
    OBVIOUS
  <2> HIDE DEF P
  <2>2. List \in Seq(P)
    BY Zenon, <1>3 DEF Json, P
  <2>3. Len(List) \in Nat /\ \A i \in 1..Len(List) : List[i] \in P
    BY <2>2
  <2> QED
    BY Zenon, <2>1, <2>3
<1>5. \A c \in Clnt : Nok(c) \in Nat
  BY DEF TypeOK, Nok
<1> QED
  BY Zenon, <1>1, <1>3, <1>4, <1>5, IterType, MainType

\* A client and its clerk are left alone, or it is between two iterations.
Stays(d) ==
    \/ /\ pc'[d] = pc[d] /\ op'[d] = op[d] /\ call'[d] = call[d]
       /\ reply'[d] = reply[d] /\ firstAttempt'[d] = firstAttempt[d]
    \/ {pc[d], pc'[d]} \subseteq {"start", "select", "send", "gone"}

\* Then its part of the invariant is kept.
LEMMA LandStays ==
    ASSUME NEW c \in Cli, LandOk(c), Version' = Version, List' = List, res'[c] = res[c], Stays(c)
    PROVE  LandOk(c)'
<1>1. Of(List, c)' = Of(List, c) /\ Iter(c)' = Iter(c) /\ Nok(c)' = Nok(c)
  BY Zenon DEF Of, Iter, Nok
<1>2. (Hit(c)' <=> Hit(c)) /\ (Landed(c)' <=> Landed(c))
  BY Zenon DEF Stays, Hit, Landed, Sure, Answered
<1> QED
  BY Zenon, <1>1, <1>2 DEF LandOk

\* A client is at a new place and does not wait for the answer to an append.
LEMMA LandCounts ==
    ASSUME Counting, TypeOK, JsonInv, ClerkInv, Version > 0, NEW c \in Cli, LandOk(c),
           Version' = Version, List' = List, ~Landed(c)',
           \/ Iter(c)' = Iter(c) /\ Nok(c)' = Nok(c) /\ ~Hit(c)
           \/ Iter(c)' = Iter(c) + 1 /\ Nok(c)' = Nok(c)
           \/ Iter(c)' = Iter(c) + 1 /\ Nok(c)' = Nok(c) + 1 /\ Landed(c)
    PROVE  LandOk(c)'
<1>t. /\ Iter(c) \in Nat /\ Nok(c) \in Nat /\ List \in Json
      /\ \A i \in 1..Len(List) : List[i].N \in Nat
  BY Zenon, LandTypes
<1>1. Of(List, c)' = Of(List, c)
  BY Zenon DEF Of
<1>2. Of(List, c) \subseteq 1..Len(List) /\ Cardinality(Of(List, c)) \in Nat
  BY Zenon, <1>t, OfFacts
<1>3. ASSUME NEW i \in Of(List, c)
      PROVE  List[i].N <= Iter(c)' /\ List[i].N # Iter(c)'
  <2>1. List[i].N \in Nat /\ List[i].N <= Iter(c) /\ (List[i].N = Iter(c) => Hit(c))
    BY Zenon, <1>t, <1>2 DEF LandOk
  <2> QED
    BY <2>1, <1>t
<1>4. Cardinality(Of(List, c)) >= Nok(c)'
  BY <1>t, <1>2 DEF LandOk
<1>5. Nok(c)' \in Nat
  BY <1>t
<1>6. Cardinality(Of(List, c)) >= Nok(c)' + 0
  BY <1>2, <1>4, <1>5
<1> QED
  BY Zenon, <1>1, <1>3, <1>6 DEF LandOk

\* Only the run of its handler that changes the list tells a clerk that its append
\* is there.
LEMMA LandedStep ==
    ASSUME JsonValues, TypeOK, JsonInv, HarnessInv, Service, NEW c \in Cli, Landed(c)', ~Landed(c)
    PROVE  /\ Unanswered(c) /\ op[c].type = "put" /\ op[c].version = Version
           /\ Version' = Version + 1 /\ List' = op[c].value
<1>c. c \in Clnt /\ pc[c] = "aput"
  BY Zenon, MainType, ServiceFrame DEF Landed
<1>1. op[c].type = "put"
  BY Zenon, <1>c DEF HarnessInv, PlaceInv, PlaceOk, Putting
<1>2. ASSUME Untouched(c) \/ Transported(c) PROVE FALSE
  BY Zenon, <1>2, <1>c DEF Untouched, Transported, Landed, Answered
<1>3. ASSUME Return(c) PROVE FALSE
  <2>1. ClerkErr(c) = OK /\ call[c] = "replied"
    BY Zenon, <1>3, <1>c, ReturnView DEF Landed
  <2>2. reply[c].Err = OK
    BY <2>1 DEF ClerkErr, OK, ErrMaybe
  <2> QED
    BY Zenon, <1>c, <2>1, <2>2 DEF Landed, Answered
<1>4. CASE Execute(c)
  <2>1. reply'[c].Err = OK
    BY Zenon DEF Landed
  <2>2. op[c].version = Version
    <3> SUFFICES ASSUME op[c].version # Version PROVE FALSE
      OBVIOUS
    <3>1. reply'[c].Err = IF Version = 0 THEN ErrNoKey ELSE ErrVersion
      BY Zenon, <1>4, <1>c, <1>1, PutView
    <3> QED
      BY <2>1, <3>1 DEF OK, ErrNoKey, ErrVersion
  <2> QED
    BY Zenon, <1>4, <1>c, <1>1, <2>2, PutView DEF Unanswered
<1> QED
  BY Zenon, <1>c, <1>2, <1>3, <1>4, ServiceViews

\* What may be in the list stays so.
LEMMA HitStays ==
    ASSUME JsonValues, TypeOK, JsonInv, HarnessInv, Service, NEW c \in Cli, Hit(c)
    PROVE  Hit(c)'
<1>1. c \in Clnt /\ op' = op /\ pc' = pc /\ ClerkInv
  BY Zenon, MainType, ServiceFrame DEF HarnessInv
<1>2. Version' = Version \/ Version' = Version + 1
  BY Zenon, <1>1, ServerStep DEF Installed
<1>3. op[c].version < Version'
  BY <1>1, <1>2, Versions DEF Hit
<1>4. Sure(c)'
  BY Zenon, <1>1, SureStays DEF Hit
<1> QED
  BY Zenon, <1>1, <1>3, <1>4 DEF Hit

\* The first put of all is the test's, of the empty list.
LEMMA CreateList ==
    ASSUME JsonValues, TypeOK, JsonInv, HarnessInv, CreateOk, test = "OneClientAppend",
           NEW c \in Clnt, Installed(c), Version = 0
    PROVE  List' = <<>> /\ Version' = 1 /\ \A d \in Cli : pc[d] = "start"
<1>1. PlaceOk(c) /\ ReadOk(c) /\ op[c].type = "put"
  BY Zenon DEF HarnessInv, PlaceInv, ReadInv, Installed
<1>2. pc[c] \in Putting \cap Places(c)
  BY Zenon, <1>1, "get" # "put" DEF PlaceOk
<1>3. pc[c] = "create" /\ c = main
  BY <1>1, <1>2 DEF Putting, Places, ReadOk
<1>4. op[c].value = <<>>
  BY <1>3 DEF CreateOk, PutArgs
<1>5. Version' = 1 /\ List' = <<>>
  BY <1>4 DEF Installed
<1> QED
  BY Zenon, <1>3, <1>5 DEF HarnessInv, PlaceInv

\* The service keeps the invariant when it leaves the list alone ...
LEMMA LandAlone ==
    ASSUME Counting, JsonValues, TypeOK, JsonInv, HarnessInv, Service, NEW c \in Cli, LandOk(c),
           Version' = Version, List' = List
    PROVE  LandOk(c)'
<1>1. Of(List, c)' = Of(List, c) /\ Iter(c)' = Iter(c) /\ Nok(c)' = Nok(c)
  BY Zenon, ServiceFrame DEF Of, Iter, Nok
<1>2. Hit(c) => Hit(c)'
  BY Zenon, HitStays
<1>3. Landed(c)' => Landed(c)
  <2> SUFFICES ASSUME Landed(c)', ~Landed(c) PROVE FALSE
    OBVIOUS
  <2>1. Version' = Version + 1
    BY Zenon, LandedStep
  <2> QED
    BY <2>1, Versions
<1>4. Nok(c) \in Nat /\ (List # NoValue => Cardinality(Of(List, c)) \in Nat)
  <2>1. Nok(c) \in Nat
    BY MainType DEF TypeOK, Nok
  <2> QED
    BY Zenon, <2>1, OfFacts DEF JsonInv, List
<1>5. CASE Landed(c)' <=> Landed(c)
  BY Zenon, <1>1, <1>2, <1>5 DEF LandOk
<1>6. CASE ~Landed(c)' /\ Landed(c)
  <2>1. List # NoValue
    <3>1. pc[c] \in Putting /\ c \in Clnt /\ Answered(c)
      BY Zenon, <1>6, MainType DEF Landed, Putting
    <3>2. Version > 0
      BY Zenon, <3>1, PutAnswered
    <3> QED
      BY <3>2 DEF HarnessInv, ClerkInv
  <2>2. Cardinality(Of(List, c)) >= Nok(c) + 0
    BY <1>4, <1>6, <2>1 DEF LandOk
  <2> QED
    BY Zenon, <1>1, <1>2, <1>6, <2>2 DEF LandOk
<1> QED
  BY Zenon, <1>3, <1>5, <1>6

\* ... and when it appends.
LEMMA LandAppend ==
    ASSUME Counting, JsonValues, TypeOK, JsonInv, HarnessInv, Service, Inv, Version > 0, ListOk,
           \A d \in Cli : LandOk(d), NEW c \in Clnt, Installed(c)
    PROVE  ListOk' /\ \A d \in Cli : LandOk(d)'
<1>f. UNCHANGED <<op, pc, res>> /\ ClerkInv
  BY Zenon, ServiceFrame DEF HarnessInv
<1>t. /\ Version \in Nat /\ List \in Json /\ Len(List) \in Nat
      /\ \A i \in 1..Len(List) : List[i].N \in Nat /\ List[i].Id \in Clnt
      /\ \A d \in Cli : d \in Clnt /\ Iter(d) \in Nat /\ Nok(d) \in Nat /\ op[d].version \in Nat
  BY Zenon, <1>f, LandTypes
<1>1. /\ c \in Cli /\ pc[c] = "aput" /\ op[c].version = Version /\ Version' = Version + 1 /\ Sure(c)'
      /\ List' = Append(List, Pair(c, Iter(c)))
  BY Zenon DEF Installed, Inv, PutInv
<1> DEFINE p == Pair(c, Iter(c))
<1>p. p \in [Id : Clnt, N : Nat] /\ p.Id = c /\ p.N = Iter(c)
  BY <1>t, <1>1 DEF Pair
<1>a. List' = Append(List, p)
  BY Zenon, <1>1
<1> HIDE DEF p
<1>2. /\ Len(List') = Len(List) + 1 /\ List'[Len(List) + 1] = p
      /\ \A i \in 1..Len(List) : List'[i] = List[i]
  <2>1. List \in Seq([Id : Clnt, N : Nat])
    BY Zenon, <1>t DEF Json
  <2> HIDE DEF Json
  <2> QED
    BY <1>a, <2>1, <1>p
<1>3. \A i : i \in 1..Len(List') <=> i \in 1..Len(List) \/ i = Len(List) + 1
  BY <1>2, <1>t
<1>4. ASSUME NEW i \in 1..Len(List), List[i].Id = c PROVE List[i].N < Iter(c)
  <2>1. i \in Of(List, c) /\ ~Hit(c)
    BY <1>1, <1>4, <1>t DEF Of, Hit
  <2>2. List[i].N <= Iter(c) /\ List[i].N # Iter(c)
    BY Zenon, <2>1, <1>1 DEF LandOk
  <2> QED
    BY <2>2, <1>t, <1>1
<1>5. ListOk'
  <2>1. Len(List') + 1 = Version'
    BY <1>1, <1>2, <1>t DEF ListOk
  <2>2. NoOldPut(List)'
    <3> SUFFICES ASSUME NEW i \in 1..Len(List'), NEW j \in 1..Len(List'), i < j, List'[i].Id = List'[j].Id
                 PROVE  List'[i].N < List'[j].N
      BY Zenon DEF NoOldPut
    <3>1. i \in 1..Len(List)
      BY <1>t, <1>2
    <3>2. CASE j \in 1..Len(List)
      BY Zenon, <3>1, <3>2, <1>2 DEF ListOk, NoOldPut
    <3>3. CASE j = Len(List) + 1
      BY Zenon, <3>1, <3>3, <1>2, <1>4, <1>p
    <3> QED
      BY Zenon, <3>2, <3>3, <1>3
  <2>3. \A i \in 1..Len(List') : List'[i].Id \in Cli
    BY Zenon, <1>2, <1>3, <1>p, <1>1 DEF ListOk
  <2> QED
    BY Zenon, <2>1, <2>2, <2>3 DEF ListOk
<1>6. ASSUME NEW d \in Cli PROVE LandOk(d)'
  <2>i. LandOk(d) /\ Iter(d)' = Iter(d) /\ Nok(d)' = Nok(d) /\ Of(List, d)' = Of(Append(List, p), d)
    BY Zenon, <1>f, <1>a DEF Iter, Nok, Of
  <2>o. Of(List, d) \subseteq 1..Len(List) /\ Cardinality(Of(List, d)) \in Nat
    BY Zenon, <1>t, OfFacts
  <2>1. CASE d = c
    <3>1. /\ Of(Append(List, p), d) = Of(List, d) \cup {Len(List) + 1}
          /\ Cardinality(Of(Append(List, p), d)) = Cardinality(Of(List, d)) + 1
      BY Zenon, <2>1, <1>p, <1>t, OfAppend
    <3>2. Hit(d)'
      <4>1. op[c].version < Version'
        BY <1>1, <1>t
      <4> QED
        BY Zenon, <4>1, <2>1, <1>1, <1>f DEF Hit
    <3>3. \A i \in Of(List, d) : List'[i].N <= Iter(d)
      BY Zenon, <2>i, <2>o, <1>2 DEF LandOk
    <3>4. List'[Len(List) + 1].N <= Iter(d)
      BY <2>1, <1>2, <1>p, <1>t
    <3>5. Cardinality(Of(List, d)) + 1 >= Nok(d) + IF Landed(d)' THEN 1 ELSE 0
      BY <2>i, <2>o, <1>t DEF LandOk
    <3> QED
      BY Zenon, <2>i, <3>1, <3>2, <3>3, <3>4, <3>5 DEF LandOk
  <2>2. CASE d # c
    <3>1. Of(Append(List, p), d) = Of(List, d)
      BY Zenon, <2>2, <1>p, <1>t, OfAppend
    <3>2. Hit(d) => Hit(d)'
      BY Zenon, HitStays
    <3>3. Landed(d)' => Landed(d)
      <4> SUFFICES ASSUME Landed(d)', ~Landed(d) PROVE FALSE
        OBVIOUS
      <4>1. /\ Unanswered(d) /\ op[d].type = "put" /\ op[d].version = Version
            /\ List' = op[d].value
        BY Zenon, LandedStep
      <4>2. List' = Append(List, Pair(d, Iter(d)))
        BY Zenon, <4>1, <1>t DEF Inv, PutInv
      <4>3. Pair(d, Iter(d)) = p
        <5>1. Append(List, Pair(d, Iter(d)))[Len(List) + 1] = Pair(d, Iter(d))
          <6>1. List \in Seq([Id : Clnt, N : Nat]) /\ Pair(d, Iter(d)) \in [Id : Clnt, N : Nat]
            BY <1>t DEF Json, Pair
          <6> QED
            BY <6>1
        <5> QED
          BY Zenon, <5>1, <4>2, <1>2
      <4> QED
        BY <4>3, <1>p, <2>2 DEF Pair
    <3>4. Cardinality(Of(List, d)) >= Nok(d) + IF Landed(d)' THEN 1 ELSE 0
      BY <2>i, <2>o, <3>3, <1>t DEF LandOk
    <3>5. \A i \in Of(List, d) : List'[i] = List[i]
      BY Zenon, <2>o, <1>2
    <3> QED
      BY Zenon, <2>i, <3>1, <3>2, <3>4, <3>5 DEF LandOk
  <2> QED
    BY Zenon, <2>1, <2>2
<1> QED
  BY Zenon, <1>5, <1>6

\* The key, the counts and the clients' calls are left alone.
Calm ==
    /\ test' = test /\ Version' = Version /\ List' = List
    /\ \A d \in Cli : res'[d] = res[d] /\ putErr'[d] = putErr[d] /\ Stays(d)

\* They are by the test's own goroutine.
LEMMA MainStays == ASSUME TypeOK, HarnessInv, Main PROVE Calm
<1>c. main \in Clnt /\ \A d \in Cli : d \in Clnt /\ d # main
  BY Zenon, MainType DEF Cli
<1>t. test' = test /\ putErr' = putErr
  BY Zenon DEF Main, StartTest, PutAtLeastOnceJson, PutAtLeastOnce, CheckGet, Signal, Collect, ReadBack, FinalCheck
<1>r. \A d \in Cli : res'[d] = res[d]
  <2>1. res' = res \/ Counted(main, TRUE)
    BY Zenon DEF Main, StartTest, PutAtLeastOnceJson, PutAtLeastOnce, CheckGet, Signal, Collect, ReadBack, FinalCheck
  <2> QED
    BY Zenon, <2>1, <1>c, CountView
<1>1. CASE \/ \E l : GetAnd(main, l) \/ Local(main, l)
           \/ \E v, n, l : PutAnd(main, v, n, l)
  <2>1. ClerkFrame(main) /\ \A d \in Clnt : d # main => pc'[d] = pc[d]
    BY Zenon, <1>1, <1>c, LocalView, CallView DEF GetAnd, PutAnd
  <2> QED
    BY Zenon, <2>1, <1>c, <1>t, <1>r DEF ClerkFrame, Stays, Version, List, Calm
<1>2. CASE Spawn /\ pc[main] \in {"test", "create"}
  <2>1. \A d \in Cli : pc[d] = "start" /\ pc'[d] = "select"
    BY Zenon, <1>2, <1>c DEF Spawn, HarnessInv, PlaceInv
  <2>2. UNCHANGED <<KV, VersionMap>>
    BY Zenon, <1>2 DEF Spawn, Forget, srvVars
  <2> QED
    BY Zenon, <2>1, <2>2, <1>t, <1>r DEF Stays, Version, List, Calm
<1>3. ASSUME NEW c \in Cli, Collect(c) PROVE Calm
  <2>1. pc[c] = "send" /\ Local(c, "gone")
    BY Zenon, <1>3 DEF Collect
  <2>2. ClerkFrame(c) /\ pc'[c] = "gone" /\ \A d \in Clnt : d # c => pc'[d] = pc[d]
    BY Zenon, <2>1, <1>c, LocalView DEF Quit
  <2>3. \A d \in Cli : Stays(d)
    BY Zenon, <2>1, <2>2, <1>c DEF ClerkFrame, Stays
  <2> QED
    BY Zenon, <2>2, <2>3, <1>t, <1>r DEF ClerkFrame, Version, List, Calm
<1>4. CASE StartTest \/ PutAtLeastOnceJson
  BY Zenon, <1>4, <1>1, <1>2 DEF StartTest, PutAtLeastOnceJson, At
<1>5. CASE PutAtLeastOnce \/ CheckGet \/ Signal \/ ReadBack \/ FinalCheck
  BY Zenon, <1>5, <1>1 DEF PutAtLeastOnce, CheckGet, Signal, ReadBack, FinalCheck
<1> QED
  BY Zenon, <1>3, <1>4, <1>5 DEF Main

\* The test keeps the invariant of the list.
LEMMA MainLand ==
    ASSUME TypeOK, JsonInv, HarnessInv, LandInv, Main
    PROVE  LandInv'
<1>s. /\ test' = test /\ Version' = Version /\ List' = List
      /\ \A d \in Cli : res'[d] = res[d] /\ Stays(d)
  BY Zenon, MainStays DEF Calm
<1> SUFFICES ASSUME test = "OneClientAppend" PROVE CreateOk' /\ (Version > 0 => ListOk' /\ \A c \in Cli : LandOk(c)')
  BY Zenon, <1>s DEF LandInv
<1>c. main \in Clnt
  BY Zenon, MainType
<1>1. CreateOk'
  <2>1. ASSUME PutAnd(main, <<>>, 0, "create") PROVE CreateOk'
    <3>1. op'[main] = PutArgs(main, testKey, <<>>, 0)
      BY Zenon, <2>1, <1>c, CallView DEF PutAnd, Asked
    <3>2. PutArgs(main, testKey, <<>>, 0)' = PutArgs(main, testKey, <<>>, 0)
      BY Zenon DEF PutArgs
    <3> QED
      BY Zenon, <3>1, <3>2 DEF CreateOk
  <2>2. ASSUME NEW l \in {"test", "passed", "fatal", "signal", "collect"}, Local(main, l) PROVE CreateOk'
    BY Zenon, <2>2, <1>c, LocalView DEF Quit, CreateOk
  <2>3. ASSUME GetAnd(main, "check") PROVE CreateOk'
    <3>1. pc'[main] = "check"
      BY Zenon, <2>3, <1>c, CallView DEF GetAnd, Asked
    <3> QED
      BY Zenon, <3>1 DEF CreateOk
  <2>4. ASSUME Spawn PROVE CreateOk'
    BY Zenon, <2>4, <1>c DEF Spawn, CreateOk
  <2>5. ASSUME NEW c \in Cli, Collect(c) PROVE CreateOk'
    <3>1. pc[main] = "collect" /\ Local(c, "gone") /\ c \in Clnt /\ c # main
      BY Zenon, <2>5, MainType DEF Collect, Cli
    <3>2. pc'[main] = "collect"
      BY Zenon, <3>1, <1>c, LocalView
    <3> QED
      BY Zenon, <3>2 DEF CreateOk
  <2>6. pc[main] \notin {"atleast", "checkget"}
    BY Zenon, <1>c DEF HarnessInv, PlaceInv, PlaceOk, Places
  <2>7. CASE StartTest \/ PutAtLeastOnceJson
    BY Zenon, <2>1, <2>4, <2>7 DEF StartTest, PutAtLeastOnceJson
  <2>8. CASE Signal \/ ReadBack \/ FinalCheck
    BY Zenon, <2>2, <2>3, <2>8 DEF Signal, ReadBack, FinalCheck
  <2>9. ~(PutAtLeastOnce \/ CheckGet)
    BY Zenon, <2>6 DEF PutAtLeastOnce, CheckGet, At
  <2> QED
    BY Zenon, <2>5, <2>7, <2>8, <2>9 DEF Main
<1>2. ASSUME Version > 0 PROVE ListOk' /\ \A c \in Cli : LandOk(c)'
  <2>1. ListOk'
    BY Zenon, <1>2, <1>s DEF LandInv, ListOk, NoOldPut
  <2> QED
    BY Zenon, <1>2, <1>s, <2>1, LandStays DEF LandInv
<1> QED
  BY Zenon, <1>1, <1>2

\* So do the clients, who count an append only when it may be in the list.
LEMMA ClientLand ==
    ASSUME Counting, JsonValues, TypeOK, JsonInv, HarnessInv, LandInv, NEW c \in Cli, Client(c)
    PROVE  LandInv'
<1>c. c \in Clnt /\ c # main /\ main \in Clnt
  BY Zenon, MainType DEF Cli
<1>t. test' = test
  BY Zenon DEF Client, Done, Begin, OnePutPut, OnePutGet, AppendGot, AppendPut
<1> SUFFICES ASSUME test = "OneClientAppend" PROVE CreateOk' /\ (Version' > 0 => ListOk' /\ \A d \in Cli : LandOk(d)')
  BY Zenon, <1>t DEF LandInv
<1>i. PlaceOk(c) /\ ReadOk(c) /\ ClerkOk(c) /\ ClerkInv
  BY Zenon, <1>c DEF HarnessInv, PlaceInv, ReadInv, ClerkInv
<1>n. pc[c] # "start" /\ pc[c] \notin {"put", "get"}
  BY Zenon, <1>c, <1>i DEF Client, Done, Begin, OnePutPut, OnePutGet, AppendGot, AppendPut, At, PlaceOk, Places
<1>v. Version > 0
  BY Zenon, <1>c, <1>i, <1>n DEF ReadOk, PlaceOk, Places
<1>m. pc[main] # "create"
  BY Zenon, <1>n DEF HarnessInv, PlaceInv
<1>l. ListOk /\ \A d \in Cli : LandOk(d)
  BY Zenon, <1>v DEF LandInv
<1>1. CASE Done(c)
  <2>1. /\ UNCHANGED <<KV, VersionMap, op, call, reply, firstAttempt, res>>
        /\ pc[c] = "select" /\ pc'[c] = "send" /\ pc'[main] = "spawned"
        /\ \A d \in Clnt : d \notin {c, main} => pc'[d] = pc[d]
    BY Zenon, <1>1, <1>c DEF Done, kvVars, TypeOK
  <2>2. Version' = Version /\ List' = List
    BY Zenon, <2>1 DEF Version, List
  <2>3. \A d \in Cli : Stays(d) /\ res'[d] = res[d]
    BY Zenon, <2>1 DEF Stays, Cli
  <2>4. CreateOk' /\ ListOk'
    BY Zenon, <1>l, <2>1, <2>2 DEF CreateOk, ListOk, NoOldPut
  <2> QED
    BY Zenon, <1>l, <2>2, <2>3, <2>4, LandStays
<1>2. CASE ~Done(c)
  <2>o. Others(c) /\ UNCHANGED <<KV, VersionMap>> /\ pc'[main] = pc[main]
    BY Zenon, <1>2, <1>c, ClientOthers DEF Others, ClerkFrame
  <2>s. Version' = Version /\ List' = List
    BY Zenon, <2>o DEF Version, List
  <2>1. \A d \in Cli : d # c => Stays(d) /\ res'[d] = res[d]
    BY Zenon, <2>o DEF Others, ClerkFrame, Stays, Cli
  <2>2. \A d \in Cli : d # c => LandOk(d)'
    BY Zenon, <1>l, <2>s, <2>1, LandStays
  <2>3. CreateOk' /\ ListOk'
    BY Zenon, <1>l, <1>m, <2>o, <2>s DEF CreateOk, ListOk, NoOldPut
  <2>q. ASSUME NEW l, Local(c, l), l # "aput" PROVE ~Landed(c)'
    BY Zenon, <2>q, <1>c, LocalView DEF Quit, Landed
  <2>a. ASSUME NEW q, NEW l, Invoke(c, q), Goto(c, l) PROVE ~Landed(c)'
    BY Zenon, <2>a, <1>c, CallView DEF Asked, Landed, Answered
  <2>k. ASSUME res' = res, ~Hit(c), ~Landed(c)' PROVE LandOk(c)'
    <3>1. Iter(c)' = Iter(c) /\ Nok(c)' = Nok(c)
      BY Zenon, <2>k DEF Iter, Nok
    <3> QED
      BY Zenon, <2>k, <2>s, <3>1, <1>i, <1>l, <1>v, LandCounts
  <2>4. CASE Begin(c) \/ AppendGot(c)
    <3>1. res' = res /\ ~Hit(c)
      BY Zenon, <2>4 DEF Begin, AppendGot, At, Hit
    <3>2. ~Landed(c)'
      BY Zenon, <2>4, <2>q, <2>a DEF Begin, AppendGot, GetAnd, PutAnd
    <3> QED
      BY Zenon, <2>2, <2>3, <2>k, <3>1, <3>2
  <2>5. CASE AppendPut(c)
    <3>1. pc[c] = "aput" /\ call[c] = "idle" /\ op[c].type = "put"
      BY Zenon, <2>5, <1>i DEF AppendPut, At, PlaceOk, Putting
    <3>2. CASE reply[c].Err \in {OK, ErrMaybe}
      <4>1. ~Landed(c)' /\ Counted(c, reply[c].Err = OK)
        BY Zenon, <2>5, <3>2, <2>q DEF AppendPut
      <4>2. \/ Iter(c)' = Iter(c) + 1 /\ Nok(c)' = Nok(c)
            \/ Iter(c)' = Iter(c) + 1 /\ Nok(c)' = Nok(c) + 1 /\ Landed(c)
        BY Zenon, <4>1, <3>1, <1>c, CountView DEF Landed, Answered
      <4>3. LandOk(c)'
        BY Zenon, <4>1, <4>2, <2>s, <1>i, <1>l, <1>v, LandCounts
      <4> QED
        BY Zenon, <2>2, <2>3, <4>3
    <3>3. CASE reply[c].Err \notin {OK, ErrMaybe}
      <4>1. ~Landed(c)' /\ res' = res
        BY Zenon, <2>5, <3>3, <2>a DEF AppendPut, GetAnd
      <4>2. ~Hit(c)
        BY Zenon, <3>1, <3>3, <1>i DEF Hit, ClerkOk
      <4> QED
        BY Zenon, <2>2, <2>3, <2>k, <4>1, <4>2
    <3> QED
      BY Zenon, <3>2, <3>3
  <2> QED
    BY Zenon, <1>2, <1>n, <2>4, <2>5 DEF Client, OnePutPut, OnePutGet, At
<1> QED
  BY Zenon, <1>1, <1>2

\* The service keeps the invariant of the list.
LEMMA ServiceLand ==
    ASSUME Counting, JsonValues, TypeOK, JsonInv, HarnessInv, AppendInv, LandInv, Service
    PROVE  LandInv'
<1>f. op' = op /\ UNCHANGED <<test, pc, res>> /\ ClerkInv
  BY Zenon, ServiceFrame DEF HarnessInv
<1> SUFFICES ASSUME test = "OneClientAppend" PROVE CreateOk' /\ (Version' > 0 => ListOk' /\ \A d \in Cli : LandOk(d)')
  BY Zenon, <1>f DEF LandInv
<1>1. CreateOk'
  BY Zenon, <1>f DEF LandInv, CreateOk, PutArgs
<1>2. CASE Version' = Version /\ List' = List
  <2>1. ASSUME Version' > 0 PROVE ListOk' /\ \A d \in Cli : LandOk(d)'
    <3>1. ListOk /\ \A d \in Cli : LandOk(d)
      BY Zenon, <1>2, <2>1 DEF LandInv
    <3>2. ListOk'
      BY Zenon, <1>2, <3>1 DEF ListOk, NoOldPut
    <3> QED
      BY Zenon, <1>2, <3>1, <3>2, LandAlone
  <2> QED
    BY Zenon, <1>1, <2>1
<1>3. ASSUME NEW c \in Clnt, Installed(c) PROVE ListOk' /\ \A d \in Cli : LandOk(d)'
  <2>1. CASE Version > 0
    BY Zenon, <1>3, <2>1, LandAppend DEF LandInv, AppendInv, Inv
  <2>2. CASE Version = 0
    <3>1. List' = <<>> /\ Version' = 1 /\ \A d \in Cli : pc[d] = "start"
      BY Zenon, <1>3, <2>2, CreateList DEF LandInv
    <3>2. ListOk'
      BY SMTT(30), <3>1 DEF ListOk, NoOldPut
    <3>3. ASSUME NEW d \in Cli PROVE LandOk(d)'
      <4>1. Of(List, d)' = {}
        BY <3>1 DEF Of
      <4>2. Cardinality({}) = 0
        BY Zenon DEF Counting
      <4>3. Iter(d) = 0 /\ d \in Clnt
        BY Zenon, <3>1, MainType DEF HarnessInv, PlaceInv, PlaceOk
      <4>4. Nok(d)' = 0
        BY <4>3, <1>f DEF TypeOK, Iter, Nok
      <4>5. ~Landed(d)'
        BY Zenon, <3>1, <1>f DEF Landed
      <4>6. Cardinality(Of(List, d))' >= Nok(d)' + 0
        BY <4>1, <4>2, <4>4
      <4> QED
        BY Zenon, <4>1, <4>5, <4>6 DEF LandOk
    <3> QED
      BY Zenon, <3>2, <3>3
  <2> QED
    BY <2>1, <2>2, Versions
<1> QED
  BY Zenon, <1>1, <1>2, <1>3, <1>f, ServerStep

\* Every step keeps the invariant of the list.
LEMMA LandKeeps ==
    ASSUME Counting, JsonValues, TypeOK, JsonInv, HarnessInv, AppendInv, LandInv, [Next]_vars
    PROVE  LandInv'
<1>1. CASE UNCHANGED vars
  BY ZenonT(40), <1>1 DEF vars, kvVars, testVars, LandInv, CreateOk, ListOk, LandOk, Hit, Landed, Sure, Answered, Of,
     NoOldPut, Iter, Nok, Version, List, PutArgs
<1> QED
  BY Zenon, <1>1, ServiceLand, MainLand, ClientLand DEF Next

\* There is no list at first.
LEMMA InitLand == ASSUME Init PROVE LandInv
<1>1. pc[main] = "test"
  BY Zenon, MainType DEF Init
<1>2. ~(Version > 0)
  BY MainType DEF Init, KvInit, SrvInit, Version
<1> QED
  BY Zenon, <1>1, <1>2 DEF LandInv, CreateOk

\* What AppendsCounted says follows.
LEMMA ListCounted ==
    ASSUME Counting, TypeOK, JsonInv, HarnessInv, LandInv
    PROVE  AppendsCounted
<1> SUFFICES ASSUME test = "OneClientAppend", Version > 0
             PROVE  NoOldPut(List) /\ \A c \in Cli : Cardinality(Of(List, c)) >= Nok(c)
  BY Zenon DEF AppendsCounted
<1>1. ListOk /\ \A c \in Cli : LandOk(c)
  BY Zenon DEF LandInv
<1>2. ASSUME NEW c \in Cli PROVE Cardinality(Of(List, c)) >= Nok(c)
  <2>1. List \in Json /\ Nok(c) \in Nat
    BY Zenon, LandTypes DEF HarnessInv
  <2>2. Cardinality(Of(List, c)) \in Nat
    BY Zenon, <2>1, OfFacts
  <2> QED
    BY SMTT(30), <1>1, <2>1, <2>2 DEF LandOk
<1> QED
  BY Zenon, <1>1, <1>2 DEF ListOk

-----------------------------------------------------------------------------
(* The counts of OneClientPut *)

\* A put of the client's iteration may be among those that the version counts.
Mid(c) ==
    \/ pc[c] = "put" /\ op[c].version < Version /\ Sure(c)
    \/ pc[c] = "get" /\ putErr[c] \in {OK, ErrMaybe}

\* The puts that the clients have counted or are going to.
Made == [c \in Cli |-> Iter(c) + IF Mid(c) THEN 1 ELSE 0]

\* The version is not ahead of the counts, and is just that on a reliable network.
CountInv ==
    test = "OneClientPut" => /\ Version <= Sum(Made)
                             /\ Reliable => Version = Sum(Made)

\* The counts are numbers.
LEMMA MadeType ==
    ASSUME TypeOK
    PROVE  Made \in [Cli -> Nat] /\ \A c \in Cli : Made[c] = Iter(c) + IF Mid(c) THEN 1 ELSE 0
<1>1. \A c \in Cli : Iter(c) \in Nat
  BY Zenon, IterType, MainType
<1> QED
  BY <1>1 DEF Made

\* They are after a step too.
LEMMA MadeLater ==
    ASSUME TypeOK'
    PROVE  /\ Made' \in [Cli -> Nat]
           /\ \A c \in Cli : Made'[c] = Iter(c)' + IF Mid(c)' THEN 1 ELSE 0
<1>1. \A c \in Cli : Iter(c)' \in Nat
  BY MainType DEF TypeOK, Iter
<1>2. Made' = [c \in Cli |-> Iter(c)' + IF Mid(c)' THEN 1 ELSE 0]
  BY Zenon DEF Made, Cli
<1> QED
  BY <1>1, <1>2

\* Counts that are the same for each client are the same.
LEMMA SameCounts ==
    ASSUME NEW f \in [Cli -> Nat], NEW g \in [Cli -> Nat], \A c \in Cli : f[c] = g[c]
    PROVE  f = g
OBVIOUS

\* The loop is over what the counts are then.
LEMMA SumLater == Sum(Made)' = Sum(Made')
BY Zenon DEF Sum, Cli

\* A step that leaves the version and what each client has made alone.
LEMMA CountSame ==
    ASSUME TypeOK, TypeOK', CountInv, test' = test, Version' = Version,
           \A c \in Cli : Made'[c] = Made[c]
    PROVE  CountInv'
<1>1. Made' = Made
  BY Zenon, MadeType, MadeLater, SameCounts
<1> QED
  BY Zenon, <1>1, SumLater DEF CountInv, Reliable

\* A client that has made its put has made it after a step of the service.
LEMMA MidStays ==
    ASSUME JsonValues, TypeOK, JsonInv, HarnessInv, Service, NEW c \in Cli, Mid(c)
    PROVE  Mid(c)'
<1>1. c \in Clnt /\ op' = op /\ pc' = pc /\ putErr' = putErr /\ ClerkInv
  BY Zenon, MainType, ServiceFrame DEF HarnessInv
<1>2. Version' = Version \/ Version' = Version + 1
  BY Zenon, <1>1, ServerStep DEF Installed
<1>3. op[c].version < Version => op[c].version < Version'
  BY <1>1, <1>2, Versions
<1>4. Sure(c) => Sure(c)'
  BY Zenon, <1>1, SureStays
<1> QED
  BY Zenon, <1>1, <1>3, <1>4 DEF Mid

\* On a reliable network it makes its put just when the handler runs for it.
LEMMA MidRuns ==
    ASSUME JsonValues, TypeOK, JsonInv, HarnessInv, HarnessInv', Service, Reliable,
           NEW c \in Cli, Mid(c)', ~Mid(c)
    PROVE  Execute(c) /\ op[c].type = "put" /\ op[c].version = Version
<1>c. c \in Clnt /\ op' = op /\ pc' = pc /\ putErr' = putErr
  BY Zenon, MainType, ServiceFrame
<1>1. pc[c] = "put" /\ Sure(c)'
  BY Zenon, <1>c DEF Mid
<1>2. op[c].type = "put"
  BY Zenon, <1>c, <1>1 DEF HarnessInv, PlaceInv, PlaceOk, Putting
<1>3. call'[c] # "failed" /\ firstAttempt'[c] /\ reply'[c].Err # ErrMaybe
  BY Zenon, <1>c DEF HarnessInv, ReliableInv, ReliableOk, Reliable
<1>4. Answered(c)' /\ reply'[c].Err = OK
  BY Zenon, <1>1, <1>3 DEF Sure
<1>5. ASSUME Answered(c), reply[c].Err = OK PROVE FALSE
  <2>1. op[c].version < Version
    BY Zenon, <1>5, <1>c, <1>1, PutAnswered DEF Putting
  <2> QED
    BY Zenon, <1>1, <1>5, <2>1 DEF Mid, Sure
<1>6. ASSUME Untouched(c) \/ Transported(c) PROVE FALSE
  BY Zenon, <1>4, <1>5, <1>6 DEF Untouched, Transported, Answered
<1>7. ASSUME Return(c) PROVE FALSE
  <2>1. ClerkErr(c) = OK /\ call[c] = "replied"
    BY Zenon, <1>4, <1>7, <1>c, ReturnView
  <2>2. reply[c].Err = OK
    BY <2>1 DEF ClerkErr, OK, ErrMaybe
  <2> QED
    BY Zenon, <1>5, <2>1, <2>2 DEF Answered
<1>8. CASE Execute(c)
  <2>1. op[c].version # Version => reply'[c].Err = IF Version = 0 THEN ErrNoKey ELSE ErrVersion
    BY Zenon, <1>8, <1>c, <1>2, PutView
  <2>2. op[c].version = Version
    BY <1>4, <2>1 DEF OK, ErrNoKey, ErrVersion
  <2> QED
    BY Zenon, <1>2, <1>8, <2>2
<1> QED
  BY Zenon, <1>c, <1>6, <1>7, <1>8, ServiceViews

\* So does a put that takes effect on a reliable network.
LEMMA InstalledRuns ==
    ASSUME TypeOK, HarnessInv', Service, Reliable, NEW c \in Clnt, Installed(c)
    PROVE  Execute(c)
<1>1. call'[c] # "failed" /\ firstAttempt'[c]
  BY Zenon DEF HarnessInv, ReliableInv, ReliableOk, Reliable
<1>2. Answered(c)' /\ ~Answered(c) /\ call[c] # "replied"
  BY Zenon, <1>1 DEF Installed, Sure, Answered, Unanswered
<1> QED
  BY Zenon, <1>2, ServiceViews DEF Untouched, Transported, Answered, Return

\* The service keeps the counts ahead of the version.
LEMMA ServiceCount ==
    ASSUME Counting, JsonValues, TypeOK, TypeOK', JsonInv, HarnessInv, HarnessInv', CountInv, Service
    PROVE  CountInv'
<1>f. op' = op /\ UNCHANGED <<test, pc, res>> /\ ClerkInv
  BY Zenon, ServiceFrame DEF HarnessInv
<1> SUFFICES ASSUME test = "OneClientPut"
             PROVE  Version' <= Sum(Made') /\ (Reliable => Version' = Sum(Made'))
  BY Zenon, <1>f, SumLater DEF CountInv, Reliable
<1>m. Made \in [Cli -> Nat] /\ Made' \in [Cli -> Nat]
  BY Zenon, MadeType, MadeLater
<1>n. Version \in Nat /\ Sum(Made) \in Nat /\ Sum(Made') \in Nat
  BY Zenon, <1>m, SumType, Versions
<1>v. Version <= Sum(Made) /\ (Reliable => Version = Sum(Made))
  BY Zenon DEF CountInv
<1>w. \A d \in Cli : /\ Made[d] = Iter(d) + IF Mid(d) THEN 1 ELSE 0
                     /\ Made'[d] = Iter(d) + IF Mid(d)' THEN 1 ELSE 0
                     /\ Iter(d) \in Nat /\ (Mid(d) => Mid(d)')
  <2>1. \A d \in Cli : Made'[d] = Iter(d)' + IF Mid(d)' THEN 1 ELSE 0
    BY Zenon, MadeLater
  <2>2. \A d \in Cli : Iter(d)' = Iter(d)
    BY Zenon, <1>f DEF Iter
  <2> QED
    BY Zenon, <2>1, <2>2, MadeType, MidStays, IterType, MainType
<1>1. CASE Version' = Version /\ List' = List
  <2>1. \A d \in Cli : Made[d] <= Made'[d]
    BY <1>w
  <2>2. Sum(Made) <= Sum(Made')
    BY Zenon, <1>m, <2>1, SumLess
  <2>3. ASSUME Reliable PROVE Sum(Made') = Sum(Made)
    <3>1. ASSUME NEW d \in Cli, Mid(d)', ~Mid(d) PROVE FALSE
      <4>1. Version' = Version + 1
        BY Zenon, <2>3, <3>1, MidRuns, PutView, MainType
      <4> QED
        BY <4>1, <1>1, <1>n
    <3>2. \A d \in Cli : Made'[d] = Made[d]
      BY Zenon, <3>1, <1>w
    <3>3. Made' = Made
      BY Zenon, <3>2, <1>m, SameCounts
    <3> QED
      BY Zenon, <3>3
  <2> QED
    BY <1>1, <1>n, <1>v, <2>2, <2>3
<1>2. ASSUME NEW c \in Clnt, Installed(c)
      PROVE  Version' <= Sum(Made') /\ (Reliable => Version' = Sum(Made'))
  <2>1. op[c].type = "put" /\ op[c].version = Version /\ Version' = Version + 1 /\ Sure(c)'
    BY Zenon, <1>2 DEF Installed
  <2>2. c \in Cli /\ pc[c] = "put"
    <3>1. pc[c] \in Putting \cap Places(c)
      BY Zenon, <2>1, "get" # "put" DEF HarnessInv, PlaceInv, PlaceOk
    <3>2. c # main
      BY Zenon, <3>1 DEF Places, Putting
    <3> QED
      BY Zenon, <3>1, <3>2 DEF Places, Putting, Cli
  <2>3. ~Mid(c) /\ Mid(c)'
    <3>1. ~(op[c].version < Version) /\ op[c].version < Version'
      BY <2>1, <1>n
    <3> QED
      BY Zenon, <2>1, <2>2, <3>1, <1>f DEF Mid
  <2> DEFINE more == [d \in Cli |-> Made[d] + IF d = c THEN 1 ELSE 0]
  <2>4. more \in [Cli -> Nat] /\ \A d \in Cli : more[d] = Made[d] + IF d = c THEN 1 ELSE 0
    BY <1>m
  <2> HIDE DEF more
  <2>5. Sum(more) = Sum(Made) + 1
    BY Zenon, <2>2, <2>4, <1>m, SumBump
  <2>6. \A d \in Cli : more[d] <= Made'[d]
    BY <2>3, <2>4, <1>w
  <2>7. Sum(more) <= Sum(Made')
    BY Zenon, <2>4, <2>6, <1>m, SumLess
  <2>8. ASSUME Reliable PROVE Sum(Made') = Sum(more)
    <3>1. ASSUME NEW d \in Cli, d # c, Mid(d)', ~Mid(d) PROVE FALSE
      <4>1. Execute(c) /\ Execute(d) /\ d \in Clnt
        BY Zenon, <1>2, <2>8, <3>1, MidRuns, InstalledRuns, MainType
      <4>2. call[d] = "running" /\ call'[d] = "done" /\ call'[d] = call[d]
        BY Zenon, <3>1, <4>1 DEF Execute, SetCall, TypeOK, KvTypeOK
      <4> QED
        BY Zenon, <4>2
    <3>2. \A d \in Cli : Made'[d] = more[d]
      BY <2>3, <2>4, <3>1, <1>w
    <3>3. Made' = more
      BY Zenon, <3>2, <2>4, <1>m, SameCounts
    <3> QED
      BY Zenon, <3>3
  <2> QED
    BY <2>1, <2>5, <2>7, <2>8, <1>n, <1>v
<1> QED
  BY Zenon, <1>1, <1>2, <1>f, ServerStep

\* A client that is left alone has made as much as before.
LEMMA MadeStays ==
    ASSUME TypeOK, TypeOK', NEW c \in Cli, Version' = Version,
           res'[c] = res[c], putErr'[c] = putErr[c], Stays(c)
    PROVE  Made'[c] = Made[c]
<1>1. Iter(c)' = Iter(c)
  BY Zenon DEF Iter
<1>2. Mid(c)' <=> Mid(c)
  BY Zenon DEF Stays, Mid, Sure, Answered
<1>3. Made'[c] = Iter(c)' + IF Mid(c)' THEN 1 ELSE 0
  BY Zenon, MadeLater
<1> QED
  BY Zenon, <1>1, <1>2, <1>3, MadeType

\* The test keeps the counts.
LEMMA MainCount ==
    ASSUME TypeOK, TypeOK', HarnessInv, CountInv, Main
    PROVE  CountInv'
<1>1. Calm
  BY Zenon, MainStays
<1>2. \A c \in Cli : Made'[c] = Made[c]
  BY Zenon, <1>1, MadeStays DEF Calm
<1> QED
  BY Zenon, <1>1, <1>2, CountSame DEF Calm

\* OnePut's put returns one of the answers that it expects, and its Get a value
\* that is not another client's.
LEMMA OnePutGood ==
    ASSUME TypeOK, HarnessInv, OwnInv, NEW c \in Cli
    PROVE  /\ At(c, "put") => reply[c].Err \in {OK, ErrVersion, ErrMaybe}
           /\ At(c, "get") => GotJson(c) /\ ~WrongValue(c)
<1>c. c \in Clnt
  BY Zenon, MainType
<1>1. ASSUME At(c, "put") PROVE reply[c].Err \in {OK, ErrVersion, ErrMaybe}
  <2>1. pc[c] \in Putting /\ Answered(c)
    BY Zenon, <1>1 DEF At, Answered, Putting
  <2>2. reply[c].Err # ErrNoKey
    BY Zenon, <1>c, <2>1, PutAnswered DEF HarnessInv, ClerkInv, ClerkOk
  <2> QED
    BY Zenon, <1>c, <2>2, ReplyFacts DEF Err
<1>2. ASSUME At(c, "get") PROVE GotJson(c) /\ ~WrongValue(c)
  <2>1. pc[c] = "get" /\ Answered(c) /\ pc[c] \in Getting
    BY Zenon, <1>2 DEF At, Answered, Getting
  <2>2. GotJson(c)
    BY Zenon, <1>c, <2>1 DEF HarnessInv, ReadInv, ReadOk, GotJson
  <2>3. ASSUME WrongValue(c) PROVE FALSE
    <3>1. reply[c].Value = <<Pair(c, ver[c])>>
      BY Zenon, <2>1, <2>3 DEF WrongValue, OwnInv, Entry
    <3>2. reply[c].Value[1].Id = c
      BY <3>1 DEF Pair
    <3> QED
      BY Zenon, <2>3, <3>2 DEF WrongValue
  <2> QED
    BY Zenon, <2>2, <2>3
<1> QED
  BY Zenon, <1>1, <1>2

\* The clients keep the counts: one that has made its put counts it.
LEMMA ClientCount ==
    ASSUME JsonValues, TypeOK, TypeOK', HarnessInv, OwnInv, CountInv, NEW c \in Cli, Client(c)
    PROVE  CountInv'
<1>c. c \in Clnt /\ c # main /\ main \in Clnt
  BY Zenon, MainType DEF Cli
<1>t. test' = test
  BY Zenon DEF Client, Done, Begin, OnePutPut, OnePutGet, AppendGot, AppendPut
<1> SUFFICES ASSUME test = "OneClientPut" PROVE CountInv'
  BY Zenon, <1>t DEF CountInv
<1>i. PlaceOk(c) /\ ClerkOk(c)
  BY Zenon, <1>c DEF HarnessInv, PlaceInv, ClerkInv
<1>n. pc[c] \notin {"aget", "aput"}
  BY Zenon, <1>c, <1>i DEF PlaceOk, Places
<1>w. /\ Made[c] = Iter(c) + IF Mid(c) THEN 1 ELSE 0
      /\ Made'[c] = Iter(c)' + IF Mid(c)' THEN 1 ELSE 0
      /\ Iter(c) \in Nat
  BY Zenon, <1>c, MadeType, MadeLater, IterType
<1>1. CASE Done(c)
  <2>1. /\ UNCHANGED <<KV, VersionMap, op, call, reply, firstAttempt, putErr, res>>
        /\ pc[c] = "select" /\ pc'[c] = "send"
        /\ \A d \in Clnt : d \notin {c, main} => pc'[d] = pc[d]
    BY Zenon, <1>1, <1>c DEF Done, kvVars, TypeOK
  <2>2. Version' = Version
    BY Zenon, <2>1 DEF Version
  <2>3. \A d \in Cli : Stays(d)
    BY Zenon, <2>1 DEF Stays, Cli
  <2>4. \A d \in Cli : Made'[d] = Made[d]
    BY Zenon, <2>1, <2>2, <2>3, MadeStays
  <2> QED
    BY Zenon, <1>t, <2>2, <2>4, CountSame
<1>2. CASE ~Done(c)
  <2>o. Others(c) /\ Version' = Version
    BY Zenon, <1>2, <1>c, ClientOthers DEF Others, ClerkFrame, Version
  <2>1. \A d \in Cli : d # c => Stays(d) /\ res'[d] = res[d] /\ putErr'[d] = putErr[d]
    BY Zenon, <2>o DEF Others, ClerkFrame, Stays, Cli
  <2>2. \A d \in Cli : d # c => Made'[d] = Made[d]
    BY Zenon, <2>o, <2>1, MadeStays
  <2> SUFFICES Made'[c] = Made[c]
    BY Zenon, <1>t, <2>o, <2>2, CountSame
  <2>s. res' = res => Iter(c)' = Iter(c)
    BY Zenon DEF Iter
  <2>a. ASSUME NEW v, NEW n, PutAnd(c, v, n, "put") PROVE ~Mid(c)'
    <3>1. pc'[c] = "put" /\ call'[c] = "sent" /\ firstAttempt'[c]
      BY Zenon, <2>a, <1>c, CallView DEF PutAnd, Asked
    <3> QED
      BY Zenon, <3>1 DEF Mid, Sure, Answered
  <2>3. CASE Begin(c)
    <3>1. res' = res /\ ~Mid(c) /\ ~Mid(c)'
      BY Zenon, <2>3, <2>a DEF Begin, At, Mid
    <3> QED
      BY Zenon, <1>w, <2>s, <3>1
  <2>4. CASE OnePutPut(c)
    <3>1. /\ pc[c] = "put" /\ call[c] = "idle" /\ res' = res
          /\ reply[c].Err \in {OK, ErrVersion, ErrMaybe}
          /\ putErr' = [putErr EXCEPT ![c] = reply[c].Err] /\ GetAnd(c, "get")
      BY Zenon, <2>4, OnePutGood DEF OnePutPut, At
    <3>2. pc'[c] = "get" /\ putErr'[c] = reply[c].Err
      BY ZenonT(40), <3>1, <1>c, CallView DEF GetAnd, Asked, TypeOK
    <3>3. op[c].type = "put" /\ op[c].version < Version
      BY Zenon, <3>1, <1>c, PutAnswered DEF Putting, Answered
    <3>4. Sure(c) <=> reply[c].Err \in {OK, ErrMaybe}
      BY Zenon, <3>1, <3>3, <1>i DEF ClerkOk, Sure, Answered
    <3>5. Mid(c)' <=> Mid(c)
      BY Zenon, <3>1, <3>2, <3>3, <3>4 DEF Mid
    <3> QED
      BY Zenon, <1>w, <2>s, <3>1, <3>5
  <2>5. CASE OnePutGet(c)
    <3>1. /\ pc[c] = "get"
          /\ IF putErr[c] \in {OK, ErrMaybe}
             THEN Local(c, "select") /\ Counted(c, putErr[c] = OK)
             ELSE /\ PutAnd(c, <<Pair(c, reply[c].Version)>>, reply[c].Version, "put")
                  /\ UNCHANGED res
      BY Zenon, <2>5, OnePutGood DEF OnePutGet, At
    <3>2. CASE putErr[c] \in {OK, ErrMaybe}
      <4>1. pc'[c] = "select"
        BY Zenon, <3>1, <3>2, <1>c, LocalView DEF Quit
      <4>2. Iter(c)' = Iter(c) + 1
        BY Zenon, <3>1, <3>2, <1>c, CountView
      <4>3. Mid(c) /\ ~Mid(c)'
        BY Zenon, <3>1, <3>2, <4>1 DEF Mid
      <4> QED
        BY <1>w, <4>2, <4>3
    <3>3. CASE putErr[c] \notin {OK, ErrMaybe}
      <4>1. res' = res /\ ~Mid(c) /\ ~Mid(c)'
        BY Zenon, <3>1, <3>3, <2>a DEF Mid
      <4> QED
        BY Zenon, <1>w, <2>s, <4>1
    <3> QED
      BY Zenon, <3>2, <3>3
  <2> QED
    BY Zenon, <1>2, <1>n, <2>3, <2>4, <2>5 DEF Client, AppendGot, AppendPut, At
<1> QED
  BY Zenon, <1>1, <1>2

\* Every step keeps them.
LEMMA CountKeeps ==
    ASSUME Counting, JsonValues, TypeOK, TypeOK', JsonInv, HarnessInv, HarnessInv', OwnInv, CountInv, [Next]_vars
    PROVE  CountInv'
<1>1. CASE UNCHANGED vars
  <2>1. /\ test' = test /\ Version' = Version
        /\ \A c \in Cli : Stays(c) /\ res'[c] = res[c] /\ putErr'[c] = putErr[c]
    BY Zenon, <1>1 DEF vars, kvVars, testVars, Version, Stays
  <2> QED
    BY Zenon, <2>1, MadeStays, CountSame
<1> QED
  BY Zenon, <1>1, ServiceCount, MainCount, ClientCount DEF Next

\* Nothing has been put or counted at first.
LEMMA InitCount == ASSUME Counting, Init, TypeOK PROVE CountInv
<1>1. Version = 0
  BY MainType DEF Init, KvInit, SrvInit, Version
<1>2. \A c \in Cli : Made[c] = 0
  <2> SUFFICES ASSUME NEW c \in Cli PROVE Made[c] = 0
    OBVIOUS
  <2>1. Iter(c) = 0
    BY MainType DEF Init, Iter
  <2>2. ~Mid(c)
    BY Zenon, MainType DEF Init, Mid, Cli
  <2> QED
    BY <2>1, <2>2, MadeType
<1>3. Sum(Made) \in Nat /\ (Sum(Made) > 0 => \E c \in Cli : Made[c] > 0)
  BY Zenon, MadeType, SumType, SumZero
<1>4. Sum(Made) = 0
  BY <1>2, <1>3
<1> QED
  BY <1>1, <1>4 DEF CountInv

-----------------------------------------------------------------------------
(* No Fatalf is reached but GetJson's in a test that is too short *)

\* CheckPutConcurrent takes a network that is called reliable for one that loses
\* nothing; kvsrv_test.go, which calls it, disconnects no client.
Losses == Disconnects => Unreliable

\* CheckPutConcurrent accepts the version, once the clients are gone.
LEMMA PutCheck ==
    ASSUME Counting, Losses, TypeOK, HarnessInv, CountInv, test = "OneClientPut", pc[main] = "check"
    PROVE  CheckPutConcurrent(Version)
<1> DEFINE f == [c \in Cli |-> Nok(c)]
           g == [c \in Cli |-> Nmaybe(c)]
<1>c. \A c \in Cli : c \in Clnt /\ pc[c] = "gone"
  BY Zenon, MainType DEF HarnessInv, PlaceInv
<1>1. \A c \in Cli : Nok(c) \in Nat /\ Nmaybe(c) \in Nat /\ Iter(c) = Nok(c) + Nmaybe(c)
  BY <1>c DEF TypeOK, Nok, Nmaybe, Iter
<1>2. f \in [Cli -> Nat] /\ g \in [Cli -> Nat]
  BY <1>1
<1>3. \A c \in Cli : Made[c] = f[c] + g[c]
  <2>1. \A c \in Cli : ~Mid(c)
    BY Zenon, <1>c DEF Mid
  <2> QED
    BY <1>1, <2>1, MadeType
<1>g. Reliable => \A c \in Cli : g[c] = 0
  BY Zenon, <1>c DEF HarnessInv, ReliableInv, ReliableOk
<1>u. Unreliable \in BOOLEAN /\ (~Unreliable => Reliable)
  BY Zenon, KvAssumption DEF Reliable, Losses
<1>d. CheckPutConcurrent(Version) =
        IF Unreliable THEN Version <= Sum(f) + Sum(g) ELSE Version = Sum(f)
  BY Zenon DEF CheckPutConcurrent
<1> HIDE DEF f, g
<1>4. Sum(Made) = Sum(f) + Sum(g)
  BY Zenon, <1>2, <1>3, SumAdd
<1>5. Sum(f) \in Nat /\ Sum(g) \in Nat /\ (Sum(g) > 0 => \E c \in Cli : g[c] > 0)
  BY Zenon, <1>2, SumType, SumZero
<1>6. Version <= Sum(f) + Sum(g) /\ (Reliable => Version = Sum(f) + Sum(g))
  BY Zenon, <1>4 DEF CountInv
<1>7. Reliable => Version = Sum(f)
  BY <1>5, <1>6, <1>g
<1> QED
  BY Zenon, <1>d, <1>6, <1>7, <1>u

\* The last place of a client's is one of its places.
LEMMA MaxIn ==
    ASSUME Counting, NEW n \in Nat, NEW S \in SUBSET (1..n), S # {}
    PROVE  Max(S) \in S
<1> DEFINE U == {m \in Nat : \A y \in S : y <= m}
<1>1. n \in U
  OBVIOUS
<1>2. PICK m \in U : \A k \in U : m <= k
  BY Zenon, <1>1, Least
<1>3. m \in S
  <2> SUFFICES ASSUME m \notin S PROVE FALSE
    OBVIOUS
  <2>0. PICK z \in S : z \in 1..n
    BY Zenon
  <2>1. m # 0
    BY <1>2, <2>0
  <2>2. \A y \in S : y <= m - 1
    BY <1>2
  <2>3. m - 1 \in U
    BY <1>2, <2>1, <2>2
  <2> QED
    BY <1>2, <2>3
<1>4. \E x \in S : \A y \in S : x >= y
  BY <1>2, <1>3
<1> QED
  BY Zenon, <1>4 DEF Max

\* CheckAppends accepts the list and the version then.
LEMMA AppendCheck ==
    ASSUME Counting, TypeOK, JsonInv, HarnessInv, LandInv, test = "OneClientAppend", pc[main] = "check"
    PROVE  CheckAppends(List, Version)
<1>v. Version > 0 /\ ClerkInv
  BY Zenon, MainType DEF HarnessInv, ReadInv, ReadOk, Getting
<1>l. ListOk /\ \A c \in Cli : LandOk(c)
  BY Zenon, <1>v DEF LandInv
<1>t. /\ List \in Json /\ Len(List) \in Nat /\ \A i \in 1..Len(List) : List[i].N \in Nat
      /\ \A c \in Cli : c \in Clnt /\ Iter(c) \in Nat /\ Nok(c) \in Nat
  BY Zenon, <1>v, LandTypes
<1>1. ASSUME NEW c \in Cli PROVE Skipped(List, c) <= Nmaybe(c) /\ Expect(List, c) <= Iter(c)
  <2>o. /\ Of(List, c) \subseteq 1..Len(List) /\ Cardinality(Of(List, c)) \in Nat
    BY Zenon, <1>t, OfFacts
  <2>1. ~Hit(c) /\ ~Landed(c)
    BY Zenon DEF HarnessInv, PlaceInv, Hit, Landed
  <2>2. Cardinality(Of(List, c)) >= Nok(c)
    BY <1>l, <1>t, <2>o, <2>1 DEF LandOk
  <2>3. Nmaybe(c) \in Nat /\ Iter(c) = Nok(c) + Nmaybe(c)
    BY <1>t DEF TypeOK, Nok, Nmaybe, Iter
  <2>4. Expect(List, c) \in Nat /\ Expect(List, c) <= Iter(c)
    <3>1. CASE Of(List, c) = {}
      BY <3>1, <1>t DEF Expect
    <3>2. CASE Of(List, c) # {}
      <4> DEFINE i == Max(Of(List, c))
      <4>1. i \in Of(List, c)
        BY Zenon, <3>2, <2>o, <1>t, MaxIn
      <4>2. Expect(List, c) = List[i].N + 1
        BY Zenon, <3>2 DEF Expect
      <4> HIDE DEF i
      <4>3. List[i].N \in Nat /\ List[i].N <= Iter(c) /\ List[i].N # Iter(c)
        BY Zenon, <1>l, <1>t, <2>o, <2>1, <4>1 DEF LandOk
      <4> QED
        BY <4>2, <4>3, <1>t
    <3> QED
      BY Zenon, <3>1, <3>2
  <2>5. Skipped(List, c) = Expect(List, c) - Cardinality(Of(List, c))
    BY Zenon DEF Skipped
  <2> QED
    BY <2>2, <2>3, <2>4, <2>5, <2>o, <1>t
<1> QED
  BY Zenon, <1>1, <1>l DEF CheckAppends, ListOk

\* No step of the test's own goroutine reaches another Fatalf ...
LEMMA MainNoFatal ==
    ASSUME Counting, Losses, TypeOK, JsonInv, HarnessInv, RoundInv, LandInv, CountInv, NoFatal, Main
    PROVE  NoFatal'
<1>c. main \in Clnt /\ \A c \in Cli : c \in Clnt /\ c # main
  BY Zenon, MainType DEF Cli
<1>i. PlaceOk(main) /\ ReadOk(main)
  BY Zenon, <1>c DEF HarnessInv, PlaceInv, ReadInv
<1>n. \A c \in Clnt : pc[c] # "fatal"
  BY Zenon DEF NoFatal, Main, StartTest, PutAtLeastOnceJson, PutAtLeastOnce, CheckGet, Signal, Collect,
     ReadBack, FinalCheck, At
<1>1. ASSUME NEW c \in Clnt, NEW l, l # "fatal",
             \/ GetAnd(c, l) \/ Local(c, l)
             \/ \E v, n : PutAnd(c, v, n, l)
      PROVE  NoFatal'
  <2>1. pc'[c] = l /\ \A d \in Clnt : d # c => pc'[d] = pc[d]
    BY Zenon, <1>1, LocalView, CallView DEF GetAnd, PutAnd, Quit, Asked
  <2> QED
    BY Zenon, <1>1, <1>n, <2>1 DEF NoFatal
<1>2. ASSUME Spawn PROVE NoFatal'
  BY Zenon, <1>2 DEF Spawn, NoFatal
<1>3. CASE StartTest \/ PutAtLeastOnceJson
  BY Zenon, <1>3, <1>1, <1>2, <1>c DEF StartTest, PutAtLeastOnceJson
<1>4. CASE PutAtLeastOnce
  <2>1. reply[main].Err # ErrNoKey
    BY Zenon, <1>4, RoundReturned DEF PutAtLeastOnce
  <2> QED
    BY Zenon, <1>4, <2>1, <1>1, <1>c DEF PutAtLeastOnce
<1>5. CASE CheckGet
  <2>1. /\ pc[main] = "checkget" /\ Answered(main) /\ pc[main] \in Getting
        /\ test = "PutAtLeastOnce"
    BY Zenon, <1>5, <1>i DEF CheckGet, At, Answered, Getting, PlaceOk, Places
  <2>2. reply[main].Err = OK /\ reply[main].Version = Version /\ reply[main].Value = List
    BY Zenon, <2>1, <1>i DEF ReadOk
  <2>3. List = Round /\ Version = ver[main]
    BY Zenon, <2>1 DEF RoundInv, RoundOk
  <2>4. Local(main, "test") \/ Local(main, "passed")
    BY Zenon, <1>5, <2>2, <2>3 DEF CheckGet, GotJson
  <2> QED
    BY Zenon, <2>4, <1>1, <1>c
<1>6. CASE Signal \/ ReadBack
  BY Zenon, <1>6, <1>1, <1>c DEF Signal, ReadBack
<1>7. ASSUME NEW c \in Cli, Collect(c) PROVE NoFatal'
  BY Zenon, <1>7, <1>1, <1>c DEF Collect
<1>8. CASE FinalCheck /\ Version > 0
  <2>1. pc[main] = "check" /\ Answered(main) /\ pc[main] \in Getting
    BY Zenon, <1>8 DEF FinalCheck, At, Answered, Getting
  <2>2. reply[main].Err = OK /\ reply[main].Version = Version /\ reply[main].Value = List
    BY Zenon, <1>8, <2>1, <1>i DEF ReadOk
  <2>3. test = "OneClientPut" => CheckPutConcurrent(reply[main].Version)
    BY Zenon, <2>1, <2>2, PutCheck
  <2>4. test = "OneClientAppend" => CheckAppends(reply[main].Value, reply[main].Version)
    BY Zenon, <2>1, <2>2, AppendCheck
  <2>5. Local(main, "passed")
    BY Zenon, <1>8, <2>2, <2>3, <2>4 DEF FinalCheck, GotJson
  <2> QED
    BY Zenon, <2>5, <1>1, <1>c
<1>9. CASE FinalCheck /\ ~(Version > 0)
  <2>1. pc[main] = "check" /\ test = "OneClientPut" /\ \A c \in Cli : pc[c] = "gone"
    BY Zenon, <1>9, <1>i DEF FinalCheck, At, HarnessInv, PlaceInv, PlaceOk, Places, ReadOk, TypeOK, Test
  <2>2. \A c \in Cli : Iter(c) = 0
    <3> TAKE c \in Cli
    <3>1. Iter(c) \in Nat /\ ~(Iter(c) > 0)
      BY Zenon, <1>9, <1>c, IterType DEF HarnessInv, ReadInv, ReadOk
    <3> QED
      BY <3>1
  <2>3. /\ \A c \in Clnt : c # main => pc'[c] = pc[c]
        /\ test' = test /\ \A c \in Cli : Iter(c)' = Iter(c)
    BY Zenon, <1>9, <1>c, LocalView DEF FinalCheck, Iter
  <2> QED
    BY Zenon, <1>c, <2>1, <2>2, <2>3 DEF NoFatal, TooEarly
<1> QED
  BY Zenon, <1>3, <1>4, <1>5, <1>6, <1>7, <1>8, <1>9 DEF Main

\* ... nor does one of a client.
LEMMA ClientNoFatal ==
    ASSUME TypeOK, HarnessInv, OwnInv, NoFatal, NEW c \in Cli, Client(c)
    PROVE  NoFatal'
<1>c. c \in Clnt /\ c # main /\ main \in Clnt
  BY Zenon, MainType DEF Cli
<1>n. \A d \in Clnt : pc[d] # "fatal"
  <2>1. pc[c] # "gone"
    BY Zenon DEF Client, Done, Begin, OnePutPut, OnePutGet, AppendGot, AppendPut, At
  <2> QED
    BY Zenon, <2>1 DEF NoFatal, TooEarly
<1>1. CASE Done(c)
  BY Zenon, <1>1, <1>n DEF Done, NoFatal, TypeOK
<1>2. ASSUME NEW l, l # "fatal",
             \/ GetAnd(c, l) \/ Local(c, l)
             \/ \E v, n : PutAnd(c, v, n, l)
      PROVE  NoFatal'
  <2>1. pc'[c] = l /\ \A d \in Clnt : d # c => pc'[d] = pc[d]
    BY Zenon, <1>2, <1>c, LocalView, CallView DEF GetAnd, PutAnd, Quit, Asked
  <2> QED
    BY Zenon, <1>2, <1>n, <2>1 DEF NoFatal
<1>3. CASE Begin(c) \/ AppendPut(c)
  BY Zenon, <1>2, <1>3 DEF Begin, AppendPut
<1>4. CASE OnePutPut(c) \/ OnePutGet(c)
  BY Zenon, <1>2, <1>4, OnePutGood DEF OnePutPut, OnePutGet
<1>5. CASE AppendGot(c)
  <2>1. GotJson(c)
    BY Zenon, <1>5, <1>c DEF AppendGot, At, Answered, Getting, GotJson, HarnessInv, ReadInv, ReadOk
  <2> QED
    BY Zenon, <1>2, <1>5, <2>1 DEF AppendGot
<1> QED
  BY Zenon, <1>1, <1>3, <1>4, <1>5 DEF Client

\* No step at all does.
LEMMA NoFatalKeeps ==
    ASSUME Counting, Losses, JsonValues, TypeOK, JsonInv, HarnessInv, RoundInv, LandInv, OwnInv, CountInv,
           NoFatal, [Next]_vars
    PROVE  NoFatal'
<1>1. CASE Service \/ UNCHANGED vars
  BY Zenon, <1>1, ServiceFrame DEF vars, testVars, NoFatal, TooEarly, Iter
<1> QED
  BY Zenon, <1>1, MainNoFatal, ClientNoFatal DEF Next

-----------------------------------------------------------------------------
(* What holds in every state *)

\* The library's facts about finite sets and numbers.
Lib == INSTANCE FiniteSetTheorems

\* Its finite sets and their sizes are the ones used here.
LEMMA LibSets == \A S : /\ Lib!IsFiniteSet(S) <=> IsFiniteSet(S)
                        /\ Lib!Cardinality(S) = Cardinality(S)
<1>1. \A S : Lib!IsFiniteSet(S) <=> IsFiniteSet(S)
  BY DEF Lib!IsFiniteSet, IsFiniteSet
<1>2. \A S : Lib!Cardinality(S) = Cardinality(S)
  BY DEF Lib!Cardinality, Cardinality
<1> QED
  BY Zenon, <1>1, <1>2

\* What the lemmas above assume of finite sets and numbers.
LEMMA Library == Counting
<1>1. Cardinality({}) = 0
  BY LibSets, Lib!FS_EmptySet
<1>2. \A n \in Nat : IsFiniteSet(1..n)
  BY LibSets, Lib!FS_Interval
<1>3. ASSUME NEW S, IsFiniteSet(S) PROVE Cardinality(S) \in Nat
  BY <1>3, LibSets, Lib!FS_CardinalityType
<1>4. ASSUME NEW S, IsFiniteSet(S), NEW T \in SUBSET S PROVE IsFiniteSet(T)
  BY <1>4, LibSets, Lib!FS_Subset
<1>5. ASSUME NEW S, IsFiniteSet(S), NEW x, x \notin S PROVE Cardinality(S \cup {x}) = Cardinality(S) + 1
  BY <1>5, LibSets, Lib!FS_AddElement
<1>6. ASSUME NEW T \in SUBSET Nat, T # {} PROVE \E x \in T : \A y \in T : x <= y
  <2> DEFINE R == Lib!OpToRel(<, Nat)
  <2>1. Lib!IsWellFoundedOn(R, Nat)
    BY Zenon, Lib!NatLessThanWellFounded
  <2>2. \A x, y \in Nat : <<x, y>> \in R <=> x < y
    BY DEF Lib!OpToRel
  <2> HIDE DEF R
  <2>3. PICK x \in T : \A y \in T : ~(<<y, x>> \in R)
    BY Zenon, <1>6, <2>1, Lib!WFMin
  <2>4. \A y \in T : ~(y < x)
    BY Zenon, <2>2, <2>3
  <2> QED
    BY <2>4
<1> QED
  BY Zenon, <1>1, <1>2, <1>3, <1>4, <1>5, <1>6 DEF Counting

\* In every state the goroutines are where the clerks' calls and the server's
\* version allow: the harness can take the clerk's answers at their word.
THEOREM HarnessInvariant ==
    ASSUME JsonValues
    PROVE  Spec => [](HarnessInv /\ RoundInv)
<1>1. Init => HarnessInv /\ RoundInv
  BY Zenon, InitHarness
<1>2. TypeOK /\ JsonInv /\ HarnessInv /\ RoundInv /\ [Next]_vars => HarnessInv' /\ RoundInv'
  BY Zenon, Library, HarnessKeeps
<1> QED
  BY <1>1, <1>2, TypeCorrect, PTL DEF Spec

\* OneClientAppend's pairs are in order, as many as the server's version says, and
\* each client's last one is of an iteration that it has ended or is about to end.
THEOREM LandInvariant ==
    ASSUME JsonValues
    PROVE  Spec => []LandInv
<1>1. Init => LandInv
  BY Zenon, InitLand
<1>2. TypeOK /\ JsonInv /\ HarnessInv /\ AppendInv /\ LandInv /\ [Next]_vars => LandInv'
  BY Zenon, Library, LandKeeps
<1> QED
  BY <1>1, <1>2, TypeCorrect, AppendInvariant, HarnessInvariant, PTL DEF Spec

\* "each client has entries with increasing N", at any time, and every append that
\* returned OK is in the list.
THEOREM AppendsAreCounted ==
    ASSUME JsonValues
    PROVE  Spec => []AppendsCounted
<1>1. TypeOK /\ JsonInv /\ HarnessInv /\ LandInv => AppendsCounted
  BY Zenon, Library, ListCounted
<1> QED
  BY <1>1, TypeCorrect, HarnessInvariant, LandInvariant, PTL

\* At any time the version of OneClientPut's key is covered by what its clients
\* have counted or are about to, exactly when the network is reliable.
THEOREM CountInvariant ==
    ASSUME JsonValues
    PROVE  Spec => []CountInv
<1>1. Init /\ TypeOK => CountInv
  BY Zenon, Library, InitCount
<1>2. TypeOK /\ TypeOK' /\ JsonInv /\ HarnessInv /\ HarnessInv' /\ OwnInv /\ CountInv /\ [Next]_vars
        => CountInv'
  BY Zenon, Library, CountKeeps
<1> QED
  BY <1>1, <1>2, TypeCorrect, HarnessInvariant, OwnInvariant, PTL DEF Spec

\* The harness does not fail a correct service, whatever the schedule and the
\* network do, for any number of clients and of operations, unless the test of
\* OneClientPut ends its clients before one of them has put.
THEOREM HarnessFailsOnlyEarly ==
    ASSUME JsonValues, Losses
    PROVE  Spec => []NoFatal
<1>1. Init => NoFatal
  BY Zenon DEF Init, NoFatal
<1>2. TypeOK /\ JsonInv /\ HarnessInv /\ RoundInv /\ LandInv /\ OwnInv /\ CountInv /\ NoFatal /\ [Next]_vars
        => NoFatal'
  BY Zenon, Library, NoFatalKeeps
<1> QED
  BY <1>1, <1>2, TypeCorrect, HarnessInvariant, LandInvariant, OwnInvariant, CountInvariant, PTL DEF Spec
=============================================================================
