# Formal models of the 6.5840 labs

TLA+ models of the Go code (paths below are relative to its `src/` directory):
the versioned key/value server and its lock (lab 2), MapReduce (lab 1), Raft's
elections (lab 3A), the shard configurations of lab 5, and the parts of the test
framework on whose promises the labs rest (the network `labrpc`, the restart of
servers, partitions, the annotated timeline, the key/value test harness). TLC
checks them on small instances. TLAPS proves the main safety properties for every
value of the constants. `PROJECT.json` maps each definition to the lines it
translates and lists the runs, the hazards, the findings and the theorems.

    tlc -workers 2 -config Lock.cfg MCLock            # one run
    tlapm LockProofs.tla                              # one module's proofs

## The system

| Component | State | Operations | What makes it hard |
|---|---|---|---|
| `kvsrv1/server.go` | `KV`, `VersionMap` under `mu` | `Get`, `Put` | requests arrive twice, late, out of order |
| `kvsrv1/client.go` | `firstAttempt`, one RPC | `Get`, `Put`, retries | after a lost reply the clerk cannot know whether its put took place |
| `models1/kv.go` | one register with a version per key | `Step` | it must accept what the service does |
| `kvsrv1/lock` | one key; `clientID` | `Acquire`, `Release` | `ErrMaybe` on either put, races between read and put |
| `labrpc` | ends, servers, RPCs under way | `Call`, `processReq`, `Enable`, `AddServer`, `DeleteServer` | lost messages, handlers that run after their caller was told of a failure |
| `tester1/srv.go`, `persister.go` | the instance, its `Persister`, copies | start, shut down, `Copy`, `Save` | an old instance goes on beside the new one |
| `tester1/group.go` | `connected`, ends per pair of servers | connect, disconnect, partition, restart | ends are switched one by one, depending on flags |
| `tester1/annotation.go` | open and closed annotations, a copy of the group's state | annotate connections, partitions, shutdowns, restarts | the copy must follow the group through every change |
| `kvtest1/kvtest.go` | counts per client, channels | `SpawnClientsAndWait`, `OnePut`, appends, checks | checks must hold whatever `ErrMaybe` hides; unbuffered channels |
| `mr` coordinator | phase, three maps, bounded channel, two locks | main goroutine, `AllocateTask`, `MarkTaskDone`, `monitor` | lock order, blocking sends, timeouts and late reports |
| `mr` worker | current task, output files | ask, do, rename, report | crashes and restarts at any point |
| `raft1/raft.go` | term, vote, state, two timers | ticker, elections, heartbeats, RPC handlers | late replies, unlocked reads, dropped timer signals |
| `shardcfg` | `Num`, `Shards`, `Groups` | `Join`, `Leave`, `Rebalance` | loops that must end balanced, calls that fail half way |

`PROJECT.json` lists every other part with the reason it is left out.
`kvraft1`, its `rsm`, the shard controller and the shard groups are skeletons in
this repository. So are Raft's log, persistence and snapshots.

## Modules

    KvSrv ──┬── KvHist ── MCKvHist        KvModel (abstract) <── KvHist refines it
            ├── Lock ──── MCLock          Mutex (abstract)   <── Lock refines it
            └── KvTest ── MCKvTest        ServerGrp ── Annotation (both run directly)
    MapReduce ── MCMapReduce              Restart ── MCRestart
    Raft ─────── MCRaft                   KvSrvProofs, KvHistProofs, LockProofs, ...
    ShardCfg ─── MCShardCfg               TesterProofs: Annotation and Restart

A definition keeps the name of the function it models. A definition whose comment
begins with "Fault" is a changed form of the definition that follows it. No
specification uses it; it documents which mistake a property detects.

**KvSrv** holds the server, the clerks and the network between them. A handler is
one step, as it runs under `kv.mu`. `call[c]` follows one `processReq`:
`sent`, `running`, `done`, then `replied` or `failed`. `Abandon` is the branch in
which `isServerDead` ends the wait. The put is then in `late` and `ExecuteLate` may
run it at any time. `late` is a set; a copy may remain after it has run, which
stands for any number of identical copies. A map without an entry is version 0,
which is never stored.

**KvHist** adds clients that call what they like and records which puts were
stored and what was returned. Each put writes its own number, so a value names
its put. `Put` takes any version, and the theorems are about it. `PutKnown` takes
only a version that the key has had, as the puts do that the tests log for the
linearizability check; `NoLateEffect` and the refinement need that, since a put with a version yet to come may be answered and executed
later.

**KvModel** is `models1/kv.go` with invocation and return around its step. A put
takes effect between the two. `KvHist!Linearizable` maps the service to it.

**Lock** puts `Acquire` and `Release` on `KvSrv`, one label per RPC. Both places
where `Acquire` puts are the label `put`, both checks after `ErrMaybe` are `check`.

**Mutex** is what the callers of `Acquire` and `Release` may rely on: who waits, who
holds, and to whom the lock is granted. `Lock!IsMutex` maps the lock to it: the owner
is the client whose id is in the key, and the labels of a call are one place. The grant
is the moment when the server stores the put, which may be before `Acquire` knows of
it, and the lock may pass on before `Release` has returned.

**MapReduce** has the coordinator's main goroutine (`MakeCoordinator`), the
handlers, the monitor and the workers. `TaskLockFree` and `HeartbeatLockFree` derive
the locks from who is where, so `MarkLock` then `MarkTaskDone` against `Tick` then
`Fresh` or `Requeue` gives the two lock orders. Time is abstracted: the monitor may
find any watched task too old. The entries of the maps that are written
without a lock while handlers run are a race, which Go's runtime may answer by
ending the process; `MarkTaskDone` has that outcome.

**Raft** has the ticker in two steps (the signal is received, the state is
examined under the lock), elections, heartbeats and replies. The goroutines that
read `currTerm` when they come to run are actions of their own. A vote call is
removed when its reply is handled; that it may never be is the loss of a message.

**ShardCfg** takes the loops of `Rebalance` one iteration at a time. Map iteration
order in `Join` is a nondeterministic choice; among equally loaded groups the smallest
id is taken, as in the code. `Fail` is a call that returns false half way, `Fatal` one that ends
the process.

**Restart** shuts a server down and starts it again under clients that call it:
`DeleteServer`, `CopySaved`, `Kill`, `KillSave`, `StartServer`, `AddServer` in the
order of `ShutdownServer` and `StartServer`. The handler of the service is external:
it changes its state, then saves, then returns. Instance n saves in persister 2n-1,
and its shutdown copies that into 2n.

**ServerGrp** has the ends between the servers of a group and each operation on
them as the sequence of switches that the code makes. A loop of the code is a
function of the number of turns it has taken.

**Annotation** composes the fault timeline with `ServerGrp`: a step is a change of
the group by its own action there, followed by the annotating calls that the tests
make after it (`ConnectOneAnnotated` is `ConnectOne` with `AnnotateConnection`). `an` holds what `annotation.go` holds, its copy of `connected` and
`crashed` included; `was` records the network before each step, for the property.
The text of an annotation is what it says: the parts and the crashed servers.
`annotateContinuousEnd` is as written, without a return where its comment says
"Nothing to end": it then closes the zero value. `Heal`, the end of the partitions in
`kvraft_test.go`, gets there when the partitioner was stopped before its first one.

**KvTest** puts the test harness on `KvSrv`: the test's goroutine and the clients
it spawns, one label per RPC, channel operation or wait. The channels have no
buffer, so a send and its receive are one step (`Done`, `Collect`). A JSON value is
a sequence of pairs. `test` chooses one of three tests: `OneClientPut` with
`CheckPutConcurrent`; `OneClientAppend` with `CheckAppends`, after
`PutAtLeastOnceJson`; rounds of `PutAtLeastOnce` and `CheckGet` by one clerk.
`Forget` resets the locals of a call that has been dealt with.

## Runs

| Run | Bounds | Shows |
|---|---|---|
| `kvhist_known` | 2 clients, 1 key, 3 operations, versions to 2 | puts are stored once, answers are exact, no effect after return; refinement of `KvModel` |
| `lock` | 2 clients, 3 acquisitions, losses | mutual exclusion, the key names the holder, `Acquire` returns; refinement of `Mutex` |
| `mapreduce_safety` | 2 files, 4 reduces, 2 workers, 2 timeouts, 2 crashes | inputs complete; no unfinished task forgotten, but for a reduce task with a map task's id after a timeout; without timeouts one copy of each task and room for every send |
| `mapreduce_early` | 1 file, 2 reduces, 1 timeout | **fails**: a late map report finishes a reduce task, workers exit early |
| `mapreduce_stuck` | 1 file, 2 reduces, no crash, no timeout | **fails**: the two lock orders |
| `raft_terms` | 2 servers, 3 terms, 3 elections | one vote per term except a leader's, terms grow, timers run |
| `raft_leaders` | 3 servers, 1 term, 3 elections | **fails**: two leaders in a term |
| `shardcfg_balance` | 11 shards, 3 groups, 4 configurations | `Rebalance` ends, configurations are valid and balanced |
| `restart_durable` | 1 client, 1 update, 3 instances | acknowledged updates survive, every `Call` returns |
| `servergrp_partition` | 5 servers | symmetric links, exact partitions, `connected` precise without them |
| `kvtest` | 2 clients and the test, 2 operations, versions to 5, losses | the harness fails a correct service only if it is over before the first put, appends are kept, the test ends |
| `annotation` | 3 servers, 5 changes per test | the timeline shows the network as it was; only one step ends what has not begun; the inductive invariant of the proof |

The type invariants are proved (see below) and not checked again by the runs.
The failing runs state what a comment or a test of the repository says.
`PROJECT.json` quotes it and describes the counterexample. In Raft, a second line
has the effect of `raft_leaders`: `sendRequestVote` counts a granted vote of an
earlier election. With `becomeLeader` corrected in the model and two terms, TLC
again finds two leaders. In MapReduce, a second timeout has the monitor queue a
deleted task, nil, which `AllocateTask` dereferences. Four more observations have no
run of their own. The server answers a put to an absent key with a version other than 0
with `ErrNoKey`, which the sequential model does not accept; `kvsrv_test.go` makes such
puts (lines 40 and 89), but not through the functions that log operations for the
model. `Test.restart` of `raft1` marks servers that are down as connected.
`SpawnClientsAndWait` may stop its clients before any has put; the key that the test
then reads is absent, and the harness calls `Fatalf` (`TooEarly` in `KvTest`). And
`annotateContinuousEnd` adds an entry without text, from time 0, when `GenericTest` of
`kvraft1` ends the failures of a partitioner that made no partition (`FaultsBegin`
says that nothing else does).

**Why the bounds are enough for the cases of interest.** Three operations of two
clients suffice for a put that is retried, executed late and overtaken by another
client's put. Three acquisitions by two clients contain a hand-over to the other
client and back; late executions and disconnections, which `kvhist_known` has, are
in `LockProofs` for the lock. Four reduces and two files give reduce tasks that
share their id with a map task and reduce tasks that do not, and fill the channel of
four places. Two timeouts allow a task to be handed out twice and then once more.
Eleven shards (the code has 12) are divided evenly by neither two nor three groups,
so that the moves between them go through the uneven distributions. Three instances
contain an old handler that outlives two restarts. Two servers are a majority of each
other, and the third of `raft_leaders` adds split votes; the theorems have no such
limit. Five servers are the smallest group with a minority of two. Two operations of two clients are an append that meets another or
is repeated after `ErrMaybe`; five versions let `PutAtLeastOnce` put again after
`ErrMaybe` in each of its rounds. Five changes are a disconnection, a crash, a restart, a partition and its end.

The clients, workers or servers of `kvhist_known`, `mapreduce_safety` and the two Raft
runs are symmetric; these runs check no liveness. `CHECK_DEADLOCK FALSE` is set where the bounds or the code let everything stop: the job is over, the
coordinator is stuck, elections or configurations are used up.

**Fairness.** `lock` and `kvtest`: every goroutine runs (weak fairness), and a message
sent again and again gets through (strong fairness of `Dispatch` and `Deliver`, in `lock` also of
`Execute`, which a disconnection may interrupt), since `labrpc` drops each with a fixed probability. `mapreduce_stuck`: strong fairness of
the goroutines that compete for Go's mutexes, which do not starve waiters.
`restart_durable`: the network's goroutines run, and a handler returns unless its
server was killed. `shardcfg_balance`: the loop runs.

## Proofs

| Module | Proved |
|---|---|
| `KvSrvProofs` | lemmas: every step of the service keeps `KvTypeOK` |
| `KvHistProofs` | `TypeOK`, `HistInv`, `AtMostOnce`, `ExactAnswers`, `VersionsCount`; with `PutKnown` also `KnownInv`, `NoLateEffect` and `Linearizable`, the refinement of `KvModel` |
| `LockProofs` | `TypeOK`, `LockInv`, `HolderRecorded`, `MutualExclusion`; `IsMutex`, the refinement of `Mutex` |
| `MapReduceProofs` | `TypeOK`, `MapInv`, `InputsComplete`, `ReportInv`, `NoTaskLost`, `OneCopy`, `ReduceInv`, `FinishedUnlessTimeout`, `RoomInv`, `NoSendBlocks` |
| `RaftProofs` | `TypeOK`, `TermsGrow`, `TimersRun`, `VoteInv`, `VoteOnce` |
| `ShardCfgProofs` | `TypeOK`, `CheckConfig`, `NoChurn` |
| `TesterProofs` | `Restart`: `RstTypeOK`, `RestartInv`, `Durable`, `NothingLost`; `ServerGrp`: `GrpTypeOK`, `LinksMutual`, `PartitionExact`, `LeaderCutOff`, `StaysPrecise`; `Annotation`: `TypeOK`, `TimelineInv`, `TimelineTrue`, `FaultsBegin` |
| `KvTestProofs` | `TypeOK`, `AppendInv`, `AppendsKept`, `OwnInv`, `OwnPut`, `HarnessInv`, `LandInv`, `AppendsCounted`, `CountInv`, `NoFatal` |

The assumptions are the named `ASSUME`s of the modules: types of the constants,
distinct client ids (`Lock`), at least one file and one reduce task (`MapReduce`),
clients numbered from 0 (`KvTest`), a group of odd size above one (`ServerGrp`, as in
the tests: `MakePartition` splits no other size as its comment says). The theorems of
`KvTestProofs` also assume `JsonValues`, that JSON texts are among the strings that can be stored; `MCKvTest`
chooses `Value` so. `HarnessFailsOnlyEarly` assumes `Losses` as well: clients are
disconnected only where the network is called unreliable. `CheckPutConcurrent`
demands exact counts of a reliable network, and `kvsrv_test.go`, which calls it,
disconnects nobody.

*Exact answers.* `ExactAnswers` is not inductive: that a put answered with
`ErrVersion` is not stored says nothing about copies under way. `HistInv` adds that
a put has one version and can only be stored there, and that on a first attempt
no other copy exists, so the answer is about the only one.

*Linearizability.* With clients that put at versions they have read, a request is
never ahead of the key. `KnownInv` says that an answered put is spent, the key being
past its version, and that a put left behind is spent unless its client still waits
for it. `NoLateEffect` follows at once. In the refinement a put takes effect when the
server stores it, or when the clerk returns `ErrVersion` or `ErrMaybe`; a get when
the server has answered it. `KnownInv` shows that the register then allows the
answer. The proof has one lemma per action of `KvHist`, each of which is a step of
`KvModel` or a stutter.

*The lock.* Mutual exclusion follows from `HolderRecorded`: the key has one value.
To keep it, `LockInv` says which requests can still change the key. A request with
an older version is dead. One with the current version belongs to a call that is
still unanswered, and it acquires a free lock or releases its own client's lock.
So every put that takes effect is a grant or a release of `Mutex`. For the return of
`Release`, `LockInv` also says that a client that was told another value than its
own id, or `OK`, in `Release` no longer owns the lock.

*MapReduce.* `InputsComplete` needs `MapInv`: before the reduce phase there are
only map tasks and reports of them, so an entry that has gone from `TaskMapState`
means that its files exist. The first half of `NoTaskLost`, `RecordedKept`, is inductive
with `TypeOK`: what is recorded is queued, in a handler's hand or watched. The second
half says that an unfinished task is recorded. For map tasks it follows from `MapInv`,
for reduce tasks with an id of their own from `ReportInv`: only a worker that has
renamed its file reports it. A reduce task that shares its id with a map task is
recorded until the first timeout, by `ReduceInv` below; after that the map task's
late report may delete it, which is what `mapreduce_early` shows. `OneCopy` is
inductive with `CopyInv`: what is in the channel or with a worker has been sent by
the main goroutine, which sends each task once, and a worker that asks has no task.
So a map task is nowhere after the map phase, no late report of one deletes a reduce
task, and a reduce task is deleted only when its file exists (`ReduceInv`). That is
`FinishedUnlessTimeout`; `mapreduce_early` shows that it needs the absence of timeouts.
`NoSendBlocks` needs `RoomInv`: a reduce task in the channel is recorded, so the wait
for its phase ends with an empty channel, and each loop has put in no more than it has
counted. That the channel has room for every reduce task is a hypothesis of the
property. With fewer places, or when the monitor sends under both locks after
timeouts, sends do wait, and nothing is claimed.

*Raft.* `VoteOnce` needs `VoteInv`: `voteFor` is the vote of the current term until
`becomeLeader` clears it, and a candidate has voted for itself.

*Shard configurations.* `AssignInv` says how far `Rebalance` has come: which shards
are assigned to live groups. Balance is the exit condition of the loop. `ChurnInv`
says that a group that has received a shard is among the least loaded, up to one
shard, and one that has given a shard away among the most. The loop moves a shard
only over a difference of two, so it never takes from the first or gives to the
second.

*Restart.* `RestartInv` names the current persister for each stage of the tester
and says that what an instance has saved is in its memory. So the save of a stale
image or of an old handler removes nothing that matters, and a reply passes
`isServerDead` only while its persister is current.

*Server groups.* `Connects` and `Disconnects` say which flags and ends differ after
one `connect` or `disconnect`. What a loop of them leaves on is proved by induction over
its turns. `LinksMutual` is kept by each operation as a whole and not by its parts:
`Partition` first marks a server as disconnected while links to its own side are still on.
For `Partition` the second loop must not undo what the first has done: `Apart` says how
far the sides are linked within themselves and cut off from each other after some turns,
whatever was on before. `StaysPrecise` follows the flags through every operation
except `Partition`.

*The timeline.* `TimelineTrue` is about the whole past and says nothing of the copy
of the group's state from which later annotations are made. `TimelineInv` adds it.
While the group is partitioned, the open annotation shows the network. Otherwise the
copy says which servers are down and which of the others are connected, `connected` is
precise, and an annotation is open just when the copy shows a fault, with the fault as
its text. What is closed shows the moments from its start to its end as they were
recorded, except the zero value, which shows nothing (`Faults`). `FaultsBegin` comes from
the same lemmas: where something is open, as `TimelineInv` says it is whenever a fault
is to be ended, what closing adds has begun; `Heal` without a partition is the one step
where it need not be. The proof has one lemma per annotating function (`ConnectionKeeps`,
`CrashedKeeps`, `ClearKeeps` and others) and one per action that joins it with what the
group's operation does.

*Appends.* `AppendsKept` needs to know of every put that can still change the list
that it appends to the list as it is. `AppendInv` says so for the clients' unanswered
puts and for the handlers that `labrpc` has left behind: one with an older version
is dead, and one with the current version belongs to a client that still waits for
it, so that its iteration has not ended. `JsonInv` (in `KvTestProofs`) adds that
the harness puts, and therefore reads, JSON texts only. Unlike the run, the
theorems include disconnections and with them late executions.

*One put.* `OwnPut` speaks of the moment when a get has returned. `OwnInv` (in
`KvTestProofs`) follows the put from its execution: once answered with `OK` it is
what the key holds at the next version, or the key has a later version.

*The harness.* `NoFatal` says that no check of the harness fails, but for the reading
of a key that nobody has put yet (`TooEarly`), so each label needs what the code there relies on. `ClerkInv` says what a clerk's answer means: no put is
ahead of the version, an answered put is behind it, and a clerk that has sent a put
again returns only `OK` or `ErrMaybe`. `PlaceInv` says who may run while the test's
goroutine is at each of its labels, and `ReadInv` what a get has read. On these rest
the invariants of the three tests. `RoundInv`: while `PutAtLeastOnce` repeats its
put, the version is that of the put or the next, and then the value is the round's.
`LandInv`: the list has one pair less than the version, no pair is beyond its
client's iteration, and a client has at least as many pairs as it counts as `Nok`.
`CountInv`: the version is at most the sum of the puts that the clients have counted
or are about to count, and equal to it if nothing is lost. `CheckAppends` and
`CheckPutConcurrent` follow when all clients are gone.

`Sum` is a recursive function over the number of clients. The lemmas on it (a sum
changes with one of its terms, sums add up, a sum is 0 only if all terms are) are
proved by induction on that number. The library's induction schema takes an operator as
a parameter and cannot be used; `Least` and `Induct` obtain induction from the
well-foundedness of the numbers, with a set in place of the predicate. The facts about
finite sets and numbers that these lemmas use are collected in `Counting`, which the
lemmas assume and `Library` proves at the end of the module: the library's theorems
slow down every obligation after them. The theorems themselves assume nothing of it.

The loops of `ServerGrp` are treated in the same way: `Induct` of `TesterProofs` takes the
set of the turns after which a loop has done what it should.

Only model-checked: liveness (`CallReturns`, `TestEnds`, `Terminates`,
`AcquireReturns`), which needs fairness and `ENABLED`. Every invariant and every
action property that a passing run checks is proved.

## Not modelled

- Data without control: contents of files, encodings (`labgob`), reflection,
  statistics, the colours and files of the visualization, point annotations.
- Times, except that a timeout may happen. `labrpc`'s long delays before a failure
  change when a `Call` fails and not whether.
- The porcupine search, which is a library. `KvHist!Linearizable` stands for what it
  is asked.
- `tester1/clnts.go`: a clerk here has one end to one server; the table of ends to
  several servers is not modelled.
- The appliers and checks of `raft1/server.go` and `raft1/test.go`: they check a log,
  and `raft.go` has none yet. For the same reason there is no model of `kvraft1`,
  `rsm`, `shardctrler` and `shardgrp`.
- The renames of one MapReduce task are one step.
- In `KvTest`, `SpreadPuts` and the partitioner, which is in `ServerGrp` and
  `Annotation`. No test of this repository calls `OneClientAppend` or
  `PutAtLeastOnceJson` yet; they are modelled as written.

In every `Spec` a client may stop at any point. A holder of the lock that stops keeps
it for ever, as the lock has no lease; `FairSpec` of `Lock` is about holders that go on.

## Plan

1. `tester1/clnts.go`: the table of ends of a client, `ConnectTo` and `Disconnect`.
2. Raft: `Kill`, a restart with forgotten state, and the stale votes over two terms
   as a run of its own.
3. A refinement of `Restart` to a durable set.
