------------------------------- MODULE KvTest -------------------------------
(***************************************************************************)
(* The key/value test harness of src/kvtest1/kvtest.go on top of the       *)
(* service of KvSrv: SpawnClientsAndWait starts clients that put or append *)
(* to one key until they are told to stop, collects their counts, and the  *)
(* test's own goroutine then checks the counts against what the server     *)
(* holds.  The checks are right only if the clerk's answers mean what the  *)
(* harness takes them to mean, whatever the network loses.                 *)
(*                                                                         *)
(* A JSON text is the sequence of the pairs in it: EntryV{me, ver} is a    *)
(* sequence of one pair, the list that OneClientAppend keeps one of any    *)
(* length.  ts.Get and ts.Put also record the operation for porcupine,     *)
(* which judges the history afterwards (see KvHist).                       *)
(***************************************************************************)
EXTENDS KvSrv, Integers, Sequences, FiniteSets, FiniteSetsExt

CONSTANTS
    main,      \* the clerk of the test's own goroutine, "me" being -1
    testKey,   \* the key, "k"
    MaxIter,   \* bound: the operations that the clients complete
    MaxVer     \* bound: the version up to which PutAtLeastOnce goes on

\* SpawnClientsAndWait's clients, numbered from 0.
Cli == Clnt \ {main}

\* The test functions: what runClient's fn is, or a test of one clerk.
Test == {"OneClientPut", "OneClientAppend", "PutAtLeastOnce"}

ASSUME TestAssumption ==
    /\ main = -1 /\ main \in Clnt
    /\ IsFiniteSet(Clnt) /\ Cli # {} /\ Cli = 0..(Cardinality(Cli) - 1)
    /\ testKey \in Key
    /\ MaxIter \in Nat \ {0} /\ MaxVer \in Nat

VARIABLES
    test,      \* which test runs
    pc,        \* where each goroutine is, see PC
    ver,       \* verm["k"] of OneClientPut, ver of PutAtLeastOnce
    putErr,    \* err of OnePut's put while its GetJson runs, OK otherwise
    res        \* ClntRes, the counts of each client

testVars == <<test, pc, ver, putErr, res>>
vars     == <<kvVars, testVars>>

\* A client: "start": not spawned yet; "select": at the select of its loop;
\* "put", "get": in OnePut's calls; "aget", "aput": in OneClientAppend's;
\* "send": at "ca <- v"; "gone": runClient is over.  The test: "test": at its
\* beginning; "create": in PutAtLeastOnceJson; "atleast", "checkget": in
\* PutAtLeastOnce and CheckGet; "spawned": asleep, or between two sends;
\* "signal": blocked in "done <- "; "collect": receives the counts; "check": in
\* the Get of the final check; "passed": the test is over.  Either: "fatal": the
\* goroutine has called Fatalf.
PC ==
    {"start", "select", "put", "get", "aget", "aput", "send", "gone",
     "test", "create", "atleast", "checkget", "spawned", "signal", "collect",
     "check", "passed", "fatal"}

Pair(c, n) == [Id |-> c, N |-> n]

\* OneClientAppend's loop variable, the iterations a client has completed.
Iter(c) == res[c].Nok + res[c].Nmaybe

\* The loop "for _, r := range rs" that adds up a number per client.
Sum(f) ==
    LET acc[n \in 0..Cardinality(Cli)] == IF n = 0 THEN 0 ELSE acc[n - 1] + f[n - 1]
    IN  acc[Cardinality(Cli)]

SumIter == Sum([c \in Cli |-> Iter(c)])

-----------------------------------------------------------------------------
Goto(c, l) == pc' = [pc EXCEPT ![c] = l]
At(c, l)   == pc[c] = l /\ call[c] = "idle"

\* The arguments and the results of the last call are out of scope.
Forget(c) ==
    /\ op' = [op EXCEPT ![c] = GetArgs(c, testKey)]
    /\ firstAttempt' = [firstAttempt EXCEPT ![c] = TRUE]
    /\ reply' = [reply EXCEPT ![c] = PutReply(OK)]
    /\ UNCHANGED <<srvVars, enabled, call, late>>

\* A goroutine calls the clerk and goes on at l, or goes on at l at once.
GetAnd(c, l)       == Invoke(c, GetArgs(c, testKey)) /\ Goto(c, l)
PutAnd(c, v, n, l) == Invoke(c, PutArgs(c, testKey, v, n)) /\ Goto(c, l)
Local(c, l)        == Goto(c, l) /\ Forget(c)

\* GetJson ends the test unless the key is there.
GotJson(c) == reply[c].Err = OK

Init ==
    /\ KvInit
    /\ test \in Test
    /\ pc = [c \in Clnt |-> IF c = main THEN "test" ELSE "start"]
    /\ ver = [c \in Clnt |-> 0]
    /\ putErr = [c \in Clnt |-> OK]
    /\ res = [c \in Clnt |-> [Nok |-> 0, Nmaybe |-> 0]]

Counted(c, ok) ==
    res' = IF ok THEN [res EXCEPT ![c].Nok = @ + 1] ELSE [res EXCEPT ![c].Nmaybe = @ + 1]

-----------------------------------------------------------------------------
(* The clients *)

\* The select takes "<-done" when the test is blocked in its send ...
Done(c) ==
    /\ pc[c] = "select" /\ pc[main] = "signal"
    /\ pc' = [pc EXCEPT ![c] = "send", ![main] = "spawned"]
    /\ UNCHANGED <<kvVars, test, ver, putErr, res>>

\* ... and its default otherwise, the next OnePut or append.
Begin(c) ==
    /\ At(c, "select") /\ pc[main] # "signal"
    /\ SumIter < MaxIter
    /\ \/ test = "OneClientPut" /\ PutAnd(c, <<Pair(c, ver[c])>>, ver[c], "put")
       \/ test = "OneClientAppend" /\ GetAnd(c, "aget")
    /\ UNCHANGED <<test, ver, putErr, res>>

\* OnePut's put has returned; a Get follows whatever the answer.
OnePutPut(c) ==
    /\ At(c, "put")
    /\ IF reply[c].Err \in {OK, ErrVersion, ErrMaybe}
       THEN GetAnd(c, "get") ELSE Local(c, "fatal")
    /\ putErr' = [putErr EXCEPT ![c] = reply[c].Err]
    /\ UNCHANGED <<test, ver, res>>

\* "my put?": what OnePut checks when nobody has put since.
WrongValue(c) ==
    /\ putErr[c] = OK /\ reply[c].Version = ver[c] + 1
    /\ reply[c].Value[1].Id # c /\ reply[c].Value[1].N # ver[c]

\* Fault: OnePut puts again after ErrMaybe, as after ErrVersion.
OnePutGetAgain(c) ==
    /\ At(c, "get")
    /\ IF ~GotJson(c) \/ WrongValue(c)
       THEN Local(c, "fatal") /\ UNCHANGED <<ver, res>>
       ELSE /\ ver' = [ver EXCEPT ![c] = reply[c].Version]
            /\ IF putErr[c] = OK
               THEN Local(c, "select") /\ Counted(c, TRUE)
               ELSE /\ PutAnd(c, <<Pair(c, reply[c].Version)>>, reply[c].Version, "put")
                    /\ UNCHANGED res
    /\ putErr' = [putErr EXCEPT ![c] = OK]
    /\ UNCHANGED test

\* OnePut's Get has returned: it returns to OneClientPut, which counts, or goes
\* round with the version read.
OnePutGet(c) ==
    /\ At(c, "get")
    /\ IF ~GotJson(c) \/ WrongValue(c)
       THEN Local(c, "fatal") /\ UNCHANGED <<ver, res>>
       ELSE /\ ver' = [ver EXCEPT ![c] = reply[c].Version]
            /\ IF putErr[c] \in {OK, ErrMaybe}
               THEN Local(c, "select") /\ Counted(c, putErr[c] = OK)
               ELSE /\ PutAnd(c, <<Pair(c, reply[c].Version)>>, reply[c].Version, "put")
                    /\ UNCHANGED res
    /\ putErr' = [putErr EXCEPT ![c] = OK]
    /\ UNCHANGED test

\* OneClientAppend puts the list it has read with its own pair at the end.
AppendGot(c) ==
    /\ At(c, "aget")
    /\ IF GotJson(c)
       THEN PutAnd(c, Append(reply[c].Value, Pair(c, Iter(c))), reply[c].Version, "aput")
       ELSE Local(c, "fatal")
    /\ UNCHANGED <<test, ver, putErr, res>>

\* Fault: the same pair is appended again after ErrMaybe.
AppendPutAgain(c) ==
    /\ At(c, "aput")
    /\ IF reply[c].Err = OK
       THEN Local(c, "select") /\ Counted(c, TRUE)
       ELSE GetAnd(c, "aget") /\ UNCHANGED res
    /\ UNCHANGED <<test, ver, putErr>>

\* OK and ErrMaybe end the iteration; ErrVersion starts again with a Get.
AppendPut(c) ==
    /\ At(c, "aput")
    /\ IF reply[c].Err \in {OK, ErrMaybe}
       THEN Local(c, "select") /\ Counted(c, reply[c].Err = OK)
       ELSE GetAnd(c, "aget") /\ UNCHANGED res
    /\ UNCHANGED <<test, ver, putErr>>

-----------------------------------------------------------------------------
(* The test's own goroutine *)

\* The value that PutAtLeastOnce puts, another one in each round.
Round == <<Pair(main, Iter(main))>>

\* SpawnClientsAndWait's go statements.
Spawn ==
    /\ pc' = [c \in Clnt |-> IF c = main THEN "spawned" ELSE "select"]
    /\ Forget(main)

StartTest ==
    /\ At(main, "test")
    /\ \/ test = "OneClientPut" /\ Spawn
       \/ test = "OneClientAppend" /\ PutAnd(main, <<>>, 0, "create")
       \/ test = "PutAtLeastOnce" /\ PutAnd(main, Round, ver[main], "atleast")
    /\ UNCHANGED <<test, ver, putErr, res>>

\* PutAtLeastOnceJson puts version 0 until the answer is not ErrMaybe.
PutAtLeastOnceJson ==
    /\ At(main, "create")
    /\ \/ reply[main].Err = ErrMaybe /\ PutAnd(main, <<>>, 0, "create")
       \/ reply[main].Err # ErrMaybe /\ Spawn
    /\ UNCHANGED <<test, ver, putErr, res>>

\* PutAtLeastOnce goes on with the next version after ErrMaybe or ErrVersion,
\* and returns, to CheckGet, after OK.
PutAtLeastOnce ==
    /\ At(main, "atleast")
    /\ LET err  == reply[main].Err
           next == IF err = ErrNoKey THEN ver[main] ELSE ver[main] + 1
       IN  /\ IF err = OK THEN GetAnd(main, "checkget")
              ELSE IF err = ErrNoKey /\ ver[main] # 0 THEN Local(main, "fatal")
              ELSE next <= MaxVer /\ PutAnd(main, Round, next, "atleast")
           /\ ver' = [ver EXCEPT ![main] = next]
    /\ UNCHANGED <<test, putErr, res>>

\* CheckGet expects the value of the last put and the version it returned.
CheckGet ==
    /\ At(main, "checkget")
    /\ IF GotJson(main) /\ reply[main].Value = Round /\ reply[main].Version = ver[main]
       THEN /\ Local(main, IF Iter(main) + 1 < MaxIter THEN "test" ELSE "passed")
            /\ Counted(main, TRUE)
       ELSE Local(main, "fatal") /\ UNCHANGED res
    /\ UNCHANGED <<test, ver, putErr>>

-----------------------------------------------------------------------------
(* SpawnClientsAndWait and the checks that follow it *)

\* Fault: one send for all clients.
SignalOnce ==
    /\ pc[main] = "spawned"
    /\ Local(main, IF \E c \in Cli : pc[c] = "send" THEN "collect" ELSE "signal")
    /\ UNCHANGED <<test, ver, putErr, res>>

\* The sleep ends, or another client is to be told; the done channel has no
\* buffer, so each send waits for a select.
Signal ==
    /\ pc[main] = "spawned"
    /\ Local(main, IF \A c \in Cli : pc[c] = "send" THEN "collect" ELSE "signal")
    /\ UNCHANGED <<test, ver, putErr, res>>

\* The counts are received in the order of the clients' numbers.
Collect(c) ==
    /\ pc[main] = "collect" /\ pc[c] = "send"
    /\ \A d \in Cli : d < c => pc[d] = "gone"
    /\ Local(c, "gone")
    /\ UNCHANGED <<test, ver, putErr, res>>

ReadBack ==
    /\ pc[main] = "collect" /\ \A c \in Cli : pc[c] = "gone"
    /\ GetAnd(main, "check")
    /\ UNCHANGED <<test, ver, putErr, res>>

Nok(c)    == res[c].Nok
Nmaybe(c) == res[c].Nmaybe

CheckPutConcurrent(ver0) ==
    LET nok    == Sum([c \in Cli |-> Nok(c)])
        nmaybe == Sum([c \in Cli |-> Nmaybe(c)])
    IN  IF Unreliable THEN ver0 <= nok + nmaybe ELSE ver0 = nok

\* Where a client's pairs are in the list; the N that CheckAppends expects next
\* of it, and how many it has skipped.
Of(es, c)      == {i \in 1..Len(es) : es[i].Id = c}
Expect(es, c)  == IF Of(es, c) = {} THEN 0 ELSE es[Max(Of(es, c))].N + 1
Skipped(es, c) == Expect(es, c) - Cardinality(Of(es, c))

\* No pair is older than one before it of the same client.
NoOldPut(es) ==
    \A i, j \in 1..Len(es) : i < j /\ es[i].Id = es[j].Id => es[i].N < es[j].N

CheckAppends(es, ver0) ==
    /\ NoOldPut(es)
    /\ Len(es) + 1 = ver0
    /\ \A c \in Cli : Skipped(es, c) <= Nmaybe(c) /\ Expect(es, c) <= Iter(c)

FinalCheck ==
    /\ At(main, "check")
    /\ Local(main,
             IF GotJson(main)
                /\ (test = "OneClientPut" => CheckPutConcurrent(reply[main].Version))
                /\ (test = "OneClientAppend" =>
                        CheckAppends(reply[main].Value, reply[main].Version))
             THEN "passed" ELSE "fatal")
    /\ UNCHANGED <<test, ver, putErr, res>>

-----------------------------------------------------------------------------
Client(c) ==
    \/ Done(c) \/ Begin(c)
    \/ OnePutPut(c) \/ OnePutGet(c)
    \/ AppendGot(c) \/ AppendPut(c)

Main ==
    \/ StartTest \/ PutAtLeastOnceJson \/ PutAtLeastOnce \/ CheckGet
    \/ Signal \/ (\E c \in Cli : Collect(c)) \/ ReadBack \/ FinalCheck

Service ==
    /\ \/ \E c \in Clnt : Transport(c) \/ Execute(c) \/ Return(c)
       \/ \E r \in late : ExecuteLate(r)
    /\ UNCHANGED testVars

Next == Service \/ Main \/ \E c \in Cli : Client(c)

Spec == Init /\ [][Next]_vars

\* Goroutines keep running.  The network loses one message in ten, so a request
\* that is sent again and again is dispatched, and replies that come again and
\* again are delivered.
Fairness ==
    \A c \in Clnt :
        /\ WF_vars(\/ Client(c)
                   \/ c = main /\ Main
                   \/ (Execute(c) \/ Resend(c) \/ Return(c)) /\ UNCHANGED testVars)
        /\ SF_vars(Dispatch(c) /\ UNCHANGED testVars)
        /\ SF_vars(Deliver(c) /\ UNCHANGED testVars)

FairSpec == Spec /\ Fairness

-----------------------------------------------------------------------------
(* Properties *)

TypeOK ==
    /\ KvTypeOK
    /\ test \in Test
    /\ pc \in [Clnt -> PC]
    /\ ver \in [Clnt -> Nat]
    /\ putErr \in [Clnt -> Err]
    /\ res \in [Clnt -> [Nok : Nat, Nmaybe : Nat]]

\* SpawnClientsAndWait's sleep was over before any client had begun a OnePut.
TooEarly == test = "OneClientPut" /\ \A c \in Cli : pc[c] = "gone" /\ Iter(c) = 0

\* The harness does not fail a correct service: no Fatalf of OnePut, GetJson,
\* PutAtLeastOnce, CheckGet, CheckPutConcurrent or CheckAppends is reached, with
\* requests and replies lost and puts sent again, but for one: the test's last
\* GetJson finds no key when no client has put anything in the time given.
NoFatal == \A c \in Clnt : pc[c] = "fatal" => c = main /\ TooEarly

\* OnePut's "my put?", in full: when the version has moved on by one since a put
\* that returned OK, the value read is the client's own.
OwnPut ==
    \A c \in Cli :
        At(c, "get") /\ putErr[c] = OK /\ reply[c].Version = ver[c] + 1 =>
            reply[c].Value = <<Pair(c, ver[c])>>

\* The client's RPC has, or has not, been answered by a run of its handler.
Answered(c)   == call[c] \in {"done", "replied", "idle"}
Unanswered(c) == call[c] \in {"sent", "running", "failed"}

\* What the server holds.
Version == VersionMap[testKey]
List    == KV[testKey]

\* The clients start when the test is done with its own puts.
StartInv == pc[main] \in {"test", "create"} => \A c \in Cli : pc[c] = "start"

\* No put is ahead of the key's version.
OpsInv ==
    \A c \in Clnt :
        /\ pc[c] \notin {"put", "get", "atleast", "checkget"}
        /\ op[c].clnt = c
        /\ op[c].type = "put" => op[c].version <= Version

\* A put that may still change the list appends its client's pair to it.
PutInv ==
    \A c \in Clnt :
        op[c].type = "put" /\ Unanswered(c) /\ op[c].version = Version /\ Version > 0 =>
            /\ c \in Cli /\ pc[c] = "aput"
            /\ op[c].value = Append(List, Pair(c, Iter(c)))

\* An answered put is over; what a client has read is old, or the list as it is.
ReplyInv ==
    \A c \in Clnt : Answered(c) =>
        /\ op[c].type = "put" => op[c].version # Version
        /\ pc[c] = "aget" /\ reply[c].Err = OK =>
              /\ reply[c].Version <= Version
              /\ reply[c].Version = Version => reply[c].Value = List

\* A put left behind is over too, unless its client still waits for it.
LateInv ==
    \A r \in late :
        /\ r.type = "put" /\ r.version <= Version
        /\ r.version = Version /\ Version > 0 => op[r.clnt] = r /\ Unanswered(r.clnt)

\* Why appends are kept: of all the puts under way, those that OneClientAppend
\* has left behind included, only one for the current version can change the
\* list, and that one is its client's unanswered append to the list as it is.
AppendInv ==
    test = "OneClientAppend" => StartInv /\ OpsInv /\ PutInv /\ ReplyInv /\ LateInv

\* "the client can retry" its append: the list only ever grows by one pair at
\* its end, of the iteration that its client is in: no append is lost to another
\* client's, and none comes late or twice.
AppendsKept ==
    [][test = "OneClientAppend" /\ Version > 0 /\ List' # List =>
           \E c \in Cli : List' = Append(List, Pair(c, Iter(c)))]_vars

\* "each client has entries with increasing N, but may some Ns may have been
\* skipped": at any time, and every append that returned OK is in the list.
AppendsCounted ==
    test = "OneClientAppend" /\ Version > 0 =>
        /\ NoOldPut(List)
        /\ \A c \in Cli : Cardinality(Of(List, c)) >= Nok(c)

\* The test passes, or was too short: SpawnClientsAndWait tells every client to
\* stop and gets its counts, however their sends and selects meet.  Only the
\* loops that put again after ErrMaybe may go on for ever, when every first
\* attempt is lost.
TestEnds ==
    \/ <>(pc[main] = "passed" \/ (pc[main] = "fatal" /\ TooEarly))
    \/ []<>(pc[main] \in {"create", "atleast"})
=============================================================================
