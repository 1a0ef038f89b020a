----------------------------- MODULE MapReduce ------------------------------
(***************************************************************************)
(* The MapReduce of src/mr: the coordinator (coordinator.go: MakeCoordi-   *)
(* nator's goroutine, the RPC handlers AllocateTask and MarkTaskDone, and  *)
(* the monitor) and the workers (worker.go), which crash and are started   *)
(* again as in test-mr.sh.                                                 *)
(*                                                                         *)
(* Time is abstracted: a task that the monitor watches may be found older  *)
(* than ten seconds at any tick, whether its worker is slow or dead.       *)
(***************************************************************************)
EXTENDS Integers, Sequences

CONSTANTS
    Worker,
    nFiles, nReduce,  \* how many input files and reduce tasks the job has
    Ticking,          \* is the job long enough for the monitor to run?
    MaxTimeouts,      \* bound: how often the monitor gives up on a worker
    MaxCrashes        \* bound: how often workers crash

ASSUME MapReduceAssumption ==
    /\ nFiles \in Nat \ {0} /\ nReduce \in Nat \ {0}
    /\ Ticking \in BOOLEAN
    /\ MaxTimeouts \in Nat /\ MaxCrashes \in Nat

VARIABLES
    TaskMapState,       \* per task id "map" or "reduce", or "none" when the map
                        \* has no entry; c.Tasks always has the same entries
    TaskAliveDetector,  \* the ids that have a time stamp
    TaskChan, Phase,
    main, next,         \* where MakeCoordinator is, and its loops' index i
    monitor, todo,      \* where the monitor is, and what its loop has left
    coord,              \* is the coordinator's process "up"?
    worker, task,       \* where each worker is (see WorkerState), its task
    alive,              \* has the process not crashed?
    mapOut, redOut,     \* the tasks whose output files have been renamed
    timeouts, crashes

mainVars   == <<main, next, Phase>>
monVars    == <<monitor, todo, timeouts>>
workerVars == <<worker, task, alive, crashes>>
files      == <<mapOut, redOut>>
vars == <<TaskMapState, TaskAliveDetector, TaskChan, mainVars, monVars, coord, workerVars, files>>

MapId    == 0..(nFiles - 1)
ReduceId == 0..(nReduce - 1)
TaskId   == MapId \cup ReduceId

Task == [type : {"map"}, id : MapId] \cup [type : {"reduce", "done"}, id : ReduceId]
Nil  == [type |-> "nil", id |-> 0]  \* what c.Tasks[taskid] is without an entry

\* In a handler: "asking", in AllocateTask's select; "granted", a task has been
\* received and not yet stamped; "reporting", MarkTaskDone has been called;
\* "marking", it holds TaskLock.
WorkerState ==
    {"idle", "asking", "granted", "working", "reporting", "marking", "exited", "dead"}

MainState ==
    {"feedMap", "waitMap", "enterReduce", "feedReduce", "waitReduce", "feedExit", "returned"}

Init ==
    /\ TaskMapState = [i \in TaskId |-> "none"]
    /\ TaskAliveDetector = {}
    /\ TaskChan = <<>>
    /\ Phase = "map" /\ main = "feedMap" /\ next = 0
    /\ monitor = "asleep" /\ todo = {} /\ timeouts = 0
    /\ coord = "up"
    /\ worker = [w \in Worker |-> "idle"]
    /\ task = [w \in Worker |-> Nil]
    /\ alive = [w \in Worker |-> TRUE]
    /\ crashes = 0
    /\ mapOut = {} /\ redOut = {}

-----------------------------------------------------------------------------
(* Locks and the channel *)

\* TaskLock is held where a goroutine may block with it: in MakeCoordinator's
\* send of the reduce tasks, in the monitor's send, and in MarkTaskDone while it
\* waits for HeartbeatLock.  HeartbeatLock is held during the monitor's loop.
TaskLockFree ==
    /\ main # "feedReduce"
    /\ monitor # "blocked"
    /\ \A w \in Worker : worker[w] # "marking"

HeartbeatLockFree == monitor = "asleep"

\* c.TaskChan <- t, which blocks when the channel is full.
Send(t) ==
    /\ Len(TaskChan) < 2 * nFiles
    /\ TaskChan' = Append(TaskChan, t)

-----------------------------------------------------------------------------
(* MakeCoordinator *)

\* One turn of a loop i := 0 .. n - 1 at the label here.
Loop(here, n, after) ==
    /\ main = here
    /\ next' = IF next + 1 < n THEN next + 1 ELSE 0
    /\ main' = IF next + 1 < n THEN here ELSE after

MakeMapTask ==
    /\ Loop("feedMap", nFiles, "waitMap")
    /\ Send([type |-> "map", id |-> next])
    /\ TaskMapState' = [TaskMapState EXCEPT ![next] = "map"]
    /\ UNCHANGED <<TaskAliveDetector, Phase>>

\* Fault: the scan of the map stops at an entry of another phase.
SomeNotIn(phase) == \E i \in TaskId : TaskMapState[i] # phase

NoneIn(phase) == \A i \in TaskId : TaskMapState[i] # phase

MapPhaseEnds ==
    /\ main = "waitMap" /\ TaskLockFree
    /\ NoneIn("map")
    /\ main' = "enterReduce"
    /\ UNCHANGED <<TaskMapState, TaskAliveDetector, TaskChan, next, Phase>>

EnterReduce ==
    /\ main = "enterReduce" /\ TaskLockFree
    /\ main' = "feedReduce"
    /\ Phase' = "reduce"
    /\ UNCHANGED <<TaskMapState, TaskAliveDetector, TaskChan, next>>

MakeReduceTask ==
    /\ Loop("feedReduce", nReduce, "waitReduce")
    /\ Send([type |-> "reduce", id |-> next])
    /\ TaskMapState' = [TaskMapState EXCEPT ![next] = "reduce"]
    /\ UNCHANGED <<TaskAliveDetector, Phase>>

ReducePhaseEnds ==
    /\ main = "waitReduce" /\ TaskLockFree
    /\ NoneIn("reduce")
    /\ main' = "feedExit"
    /\ Phase' = "done"
    /\ UNCHANGED <<TaskMapState, TaskAliveDetector, TaskChan, next>>

MakeExitTask ==
    /\ Loop("feedExit", nReduce, "returned")
    /\ Send([type |-> "done", id |-> next])
    /\ UNCHANGED <<TaskMapState, TaskAliveDetector, Phase>>

\* MakeCoordinator returns, Done is true and the process ends.
Exit ==
    /\ main = "returned"
    /\ coord' = "exited"
    /\ UNCHANGED <<TaskMapState, TaskAliveDetector, TaskChan, mainVars>>

MakeCoordinator ==
    /\ coord = "up"
    /\ \/ /\ \/ MakeMapTask \/ MapPhaseEnds \/ EnterReduce
             \/ MakeReduceTask \/ ReducePhaseEnds \/ MakeExitTask
          /\ UNCHANGED coord
       \/ Exit
    /\ UNCHANGED <<monVars, workerVars, files>>

-----------------------------------------------------------------------------
(* The RPC handlers.  A handler goes on when its worker has crashed. *)

\* The handler of w returns and w goes on at s, unless it has crashed.
Reply(w, s) == worker' = [worker EXCEPT ![w] = IF alive[w] THEN s ELSE "dead"]

\* AllocateTask's first case; the task is not yet stamped.
Receive(w) ==
    /\ worker[w] = "asking"
    /\ TaskChan # <<>>
    /\ task' = [task EXCEPT ![w] = Head(TaskChan)]
    /\ TaskChan' = Tail(TaskChan)
    /\ worker' = [worker EXCEPT ![w] = "granted"]
    /\ UNCHANGED <<TaskMapState, TaskAliveDetector, coord>>

\* A nil task is dereferenced under HeartbeatLock and ends the process.
AllocateTask(w) ==
    /\ worker[w] = "granted"
    /\ HeartbeatLockFree
    /\ \/ /\ task[w] = Nil
          /\ coord' = "crashed"
          /\ UNCHANGED <<TaskAliveDetector, worker>>
       \/ /\ task[w] # Nil
          /\ TaskAliveDetector' = TaskAliveDetector \cup {task[w].id}
          /\ Reply(w, IF task[w].type = "done" THEN "exited" ELSE "working")
          /\ UNCHANGED coord
    /\ UNCHANGED <<TaskMapState, TaskChan, task>>

\* AllocateTask's second case, after 800 ms without a task.
AllocateNothing(w) ==
    /\ worker[w] = "asking"
    /\ TaskChan = <<>>
    /\ Reply(w, IF Phase = "done" THEN "exited" ELSE "idle")
    /\ UNCHANGED <<TaskMapState, TaskAliveDetector, TaskChan, coord, task>>

MarkLock(w) ==
    /\ worker[w] = "reporting"
    /\ TaskLockFree
    /\ worker' = [worker EXCEPT ![w] = "marking"]
    /\ UNCHANGED <<TaskMapState, TaskAliveDetector, TaskChan, coord, task>>

\* MakeCoordinator fills the maps without a lock while it feeds the map tasks:
\* the runtime may end the process when it sees both write.
MarkTaskDone(w) ==
    /\ worker[w] = "marking"
    /\ HeartbeatLockFree
    /\ TaskAliveDetector' = TaskAliveDetector \ {task[w].id}
    /\ TaskMapState' = [TaskMapState EXCEPT ![task[w].id] = "none"]
    /\ task' = [task EXCEPT ![w] = Nil]
    /\ Reply(w, "idle")
    /\ coord' \in IF main = "feedMap" THEN {"up", "crashed"} ELSE {"up"}
    /\ UNCHANGED TaskChan

Handler(w) ==
    /\ coord = "up"
    /\ \/ Receive(w) \/ AllocateTask(w) \/ AllocateNothing(w)
       \/ MarkLock(w) \/ MarkTaskDone(w)
    /\ UNCHANGED <<mainVars, monVars, alive, crashes, files>>

-----------------------------------------------------------------------------
(* The monitor *)

\* c.Tasks[taskid]
TaskOf(i) == IF TaskMapState[i] = "none" THEN Nil ELSE [type |-> TaskMapState[i], id |-> i]

Tick ==
    /\ Ticking
    /\ main # "feedMap"
    /\ monitor = "asleep"
    /\ TaskAliveDetector # {}
    /\ monitor' = "scan"
    /\ todo' = TaskAliveDetector
    /\ UNCHANGED <<TaskChan, timeouts>>

\* Fault: the age is compared the wrong way round.
FreshIsSent(i) ==
    /\ monitor = "scan" /\ TaskLockFree
    /\ Send(TaskOf(i))
    /\ todo' = todo \ {i}
    /\ UNCHANGED <<monitor, timeouts>>

Fresh(i) ==
    /\ monitor = "scan" /\ TaskLockFree
    /\ todo' = todo \ {i}
    /\ UNCHANGED <<TaskChan, monitor, timeouts>>

\* The send happens under both locks, and blocks under both.
Requeue(i) ==
    /\ \/ monitor = "scan" /\ TaskLockFree
       \/ monitor = "blocked"
    /\ timeouts < MaxTimeouts
    /\ Send(TaskOf(i))
    /\ monitor' = "scan"
    /\ todo' = todo \ {i}
    /\ timeouts' = timeouts + 1

Block ==
    /\ monitor = "scan" /\ TaskLockFree
    /\ todo # {} /\ timeouts < MaxTimeouts
    /\ Len(TaskChan) >= 2 * nFiles
    /\ monitor' = "blocked"
    /\ UNCHANGED <<TaskChan, todo, timeouts>>

EndTick ==
    /\ monitor = "scan" /\ todo = {}
    /\ monitor' = "asleep"
    /\ UNCHANGED <<TaskChan, todo, timeouts>>

Monitor ==
    /\ coord = "up"
    /\ \/ Tick \/ Block \/ EndTick
       \/ \E i \in todo : Fresh(i) \/ Requeue(i)
    /\ UNCHANGED <<TaskMapState, TaskAliveDetector, mainVars, coord, workerVars, files>>

-----------------------------------------------------------------------------
(* Workers *)

GetTask(w) ==
    /\ worker[w] = "idle" /\ coord = "up"
    /\ worker' = [worker EXCEPT ![w] = "asking"]
    /\ UNCHANGED <<task, alive, files>>

\* Temporary files are renamed to their names.  A task that is done again gives
\* the same contents to the same names.
RenameMap(w) ==
    /\ worker[w] = "working" /\ task[w].type = "map"
    /\ mapOut' = mapOut \cup {task[w].id}
    /\ UNCHANGED redOut

RenameReduce(w) ==
    /\ worker[w] = "working" /\ task[w].type = "reduce"
    /\ mapOut = MapId
    /\ redOut' = redOut \cup {task[w].id}
    /\ UNCHANGED mapOut

\* Faults: the worker reports before it renames its temporary files.
doMapTaskUnrenamed(w) ==
    /\ worker[w] = "working" /\ task[w].type = "map"
    /\ worker' = [worker EXCEPT ![w] = "reporting"]
    /\ UNCHANGED <<task, alive, files>>

doReduceTaskUnrenamed(w) ==
    /\ worker[w] = "working" /\ task[w].type = "reduce"
    /\ worker' = [worker EXCEPT ![w] = "reporting"]
    /\ UNCHANGED <<task, alive, files>>

doMapTask(w) ==
    /\ RenameMap(w)
    /\ worker' = [worker EXCEPT ![w] = "reporting"]
    /\ UNCHANGED <<task, alive>>

\* A missing intermediate file ends the worker.
doReduceTask(w) ==
    /\ worker[w] = "working" /\ task[w].type = "reduce"
    /\ IF mapOut = MapId
       THEN RenameReduce(w) /\ UNCHANGED alive
       ELSE UNCHANGED files /\ alive' = [alive EXCEPT ![w] = FALSE]
    /\ worker' = [worker EXCEPT ![w] = IF mapOut = MapId THEN "reporting" ELSE "dead"]
    /\ UNCHANGED task

\* Without a coordinator the worker's call fails and it exits.
CallFails(w) ==
    /\ coord # "up"
    /\ worker[w] \notin {"working", "exited", "dead"}
    /\ worker' = [worker EXCEPT ![w] = "exited"]
    /\ UNCHANGED <<task, alive, files>>

WorkerStep(w) ==
    /\ alive[w]
    /\ GetTask(w) \/ doMapTask(w) \/ doReduceTask(w) \/ CallFails(w)
    /\ UNCHANGED <<TaskMapState, TaskAliveDetector, TaskChan, mainVars, monVars, coord, crashes>>

\* A worker crashes; its RPC, if it has one, is handled all the same, and the
\* output of its task may be complete.
Crash(w) ==
    /\ alive[w] /\ worker[w] # "exited"
    /\ crashes < MaxCrashes
    /\ crashes' = crashes + 1
    /\ alive' = [alive EXCEPT ![w] = FALSE]
    /\ worker' = [worker EXCEPT ![w] = IF @ \in {"idle", "working"} THEN "dead" ELSE @]
    /\ UNCHANGED <<TaskMapState, TaskAliveDetector, TaskChan, mainVars, monVars, coord, task>>
    /\ UNCHANGED files \/ RenameMap(w) \/ RenameReduce(w)

\* test-mr.sh starts workers as long as the coordinator is there.
Restart(w) ==
    /\ worker[w] = "dead" /\ coord = "up"
    /\ worker' = [worker EXCEPT ![w] = "idle"]
    /\ alive' = [alive EXCEPT ![w] = TRUE]
    /\ task' = [task EXCEPT ![w] = Nil]
    /\ UNCHANGED <<TaskMapState, TaskAliveDetector, TaskChan, mainVars, monVars, coord, crashes, files>>

Next ==
    \/ MakeCoordinator
    \/ Monitor
    \/ \E w \in Worker : Handler(w) \/ WorkerStep(w) \/ Crash(w) \/ Restart(w)

Spec == Init /\ [][Next]_vars

\* Every goroutine and process goes on, and Go's mutexes starve nobody.
Fairness ==
    /\ SF_vars(MakeCoordinator)
    /\ SF_vars(Monitor)
    /\ \A w \in Worker : SF_vars(Handler(w)) /\ WF_vars(WorkerStep(w)) /\ WF_vars(Restart(w))

FairSpec == Spec /\ Fairness

-----------------------------------------------------------------------------
(* Properties *)

TypeOK ==
    /\ TaskMapState \in [TaskId -> {"none", "map", "reduce"}]
    /\ \A i \in TaskId : TaskOf(i) \in Task \cup {Nil}
    /\ TaskAliveDetector \in SUBSET TaskId
    /\ TaskChan \in Seq(Task \cup {Nil}) /\ Len(TaskChan) <= 2 * nFiles
    /\ Phase \in {"map", "reduce", "done"}
    /\ main \in MainState /\ next \in IF main = "feedMap" THEN MapId ELSE ReduceId
    /\ monitor \in {"asleep", "scan", "blocked"} /\ todo \in SUBSET TaskId
    /\ coord \in {"up", "exited", "crashed"}
    /\ worker \in [Worker -> WorkerState]
    /\ task \in [Worker -> Task \cup {Nil}]
    /\ alive \in [Worker -> BOOLEAN]
    /\ mapOut \in SUBSET MapId /\ redOut \in SUBSET ReduceId
    /\ timeouts \in 0..MaxTimeouts /\ crashes \in 0..MaxCrashes

\* A worker that reduces finds every intermediate file: the reduce phase begins
\* after every map task is done, though workers crash, tasks are done twice and
\* reports come late.
InputsComplete ==
    \A w \in Worker : worker[w] = "working" /\ task[w].type = "reduce" => mapOut = MapId

\* Why: until the wait for the map phase is over, tasks and reports are of map
\* tasks only, and a task that was fed and is not recorded any more is done.
Mapping == main \in {"feedMap", "waitMap"}

MapInv ==
    /\ \A w \in Worker :
        /\ worker[w] \in {"working", "reporting", "marking"} => task[w].type \in {"map", "reduce"}
        /\ worker[w] \in {"reporting", "marking"} /\ task[w].type = "map" => task[w].id \in mapOut
    /\ Mapping =>
        /\ \A i \in TaskId : TaskMapState[i] # "reduce"
        /\ \A w \in Worker : task[w].type \in {"map", "nil"}
        /\ \A n \in 1..Len(TaskChan) : TaskChan[n].type \in {"map", "nil"}
        /\ \A i \in MapId :
            (main = "feedMap" => i < next) => TaskMapState[i] = "map" \/ i \in mapOut
    /\ ~Mapping => mapOut = MapId

\* MakeCoordinator has sent the task t.
Fed(t) ==
    \/ t.type = "map" /\ (main = "feedMap" => t.id < next)
    \/ /\ t.type = "reduce" /\ main \notin {"feedMap", "waitMap", "enterReduce"}
       /\ main = "feedReduce" => t.id < next
    \/ /\ t.type = "done" /\ main \in {"feedExit", "returned"}
       /\ main = "feedExit" => t.id < next

\* Its output files are there.
Finished(t) == t.id \in IF t.type = "map" THEN mapOut ELSE redOut

\* The task i is where a worker will get it, or in the monitor's care.
Queued(i) == \E n \in 1..Len(TaskChan) : TaskChan[n] = TaskOf(i)
InHand(i) == \E w \in Worker : worker[w] = "granted" /\ task[w] = TaskOf(i)

RecordedKept ==
    coord = "up" => \A i \in TaskId :
        TaskMapState[i] # "none" => i \in TaskAliveDetector \/ Queued(i) \/ InHand(i)

\* No task whose output is missing is forgotten, whoever crashes: it is recorded,
\* and what is recorded is in the channel, in a handler's hand or watched by the
\* monitor.  The exception is a reduce task with the id of a map task, after a
\* timeout: the map task's late report deletes it (see NoEarlyExit).
NoTaskLost ==
    /\ RecordedKept
    /\ \A t \in Task : t.type # "done" /\ Fed(t) /\ ~Finished(t) =>
          \/ TaskMapState[t.id] = t.type
          \/ t.type = "reduce" /\ t.id \in MapId /\ timeouts > 0

\* Why, for a reduce task with an id of its own: the only report that deletes it
\* comes from a worker that has renamed its file.
ReportInv ==
    /\ main \in {"waitMap", "enterReduce"} => next = 0
    /\ \A w \in Worker :
        worker[w] \in {"reporting", "marking"} /\ task[w].type = "reduce" => task[w].id \in redOut
    /\ \A i \in ReduceId \ MapId :
        Fed([type |-> "reduce", id |-> i]) => TaskMapState[i] = "reduce" \/ i \in redOut

\* Done() tells mrcoordinator.go that "the entire job has finished": every
\* mr-out file is there.
DoneMeansFinished == Phase = "done" => redOut = ReduceId

\* It does as long as no task has timed out, whatever the order of the reports.
FinishedUnlessTimeout == timeouts = 0 => DoneMeansFinished

\* No "worker or coordinator exits before the task has completed (i.e., all
\* output files have been finalized)" (test-mr.sh).
NoEarlyExit ==
    coord # "up" \/ (\E w \in Worker : worker[w] = "exited") => redOut = ReduceId

\* As long as no task times out, a task is in one place at most, so that "map
\* jobs ran" as often as there are files (test-mr.sh).
OneCopy ==
    timeouts = 0 =>
        \A t \in Task :
            /\ \A m, n \in 1..Len(TaskChan) : TaskChan[m] = t /\ TaskChan[n] = t => m = n
            /\ \A v, w \in Worker : task[v] = t /\ task[w] = t => v = w
            /\ \A n \in 1..Len(TaskChan), w \in Worker : ~(TaskChan[n] = t /\ task[w] = t)

\* Why both: MakeCoordinator has sent what is in the channel or in a worker's
\* hands, it sends nothing twice, and only a worker without a task asks for one.
Held(t) ==
    \/ \E n \in 1..Len(TaskChan) : TaskChan[n] = t
    \/ \E w \in Worker : task[w] = t

CopyInv ==
    timeouts = 0 =>
        /\ \A t \in Task : Held(t) => Fed(t)
        /\ \A n \in 1..Len(TaskChan) : TaskChan[n] # Nil
        /\ \A w \in Worker : worker[w] \in {"idle", "asking"} => task[w] = Nil

\* So no report of a map task comes after the map phase, where it would delete
\* the reduce task with its id, and a reduce task is deleted when it is done.
ReduceInv ==
    timeouts = 0 =>
        /\ \A i \in MapId :
            Held([type |-> "map", id |-> i]) => Mapping /\ TaskMapState[i] = "map"
        /\ \A i \in ReduceId :
            Fed([type |-> "reduce", id |-> i]) => TaskMapState[i] = "reduce" \/ i \in redOut
        /\ \A w \in Worker :
            worker[w] \in {"reporting", "marking"} /\ task[w].type = "reduce" => task[w].id \in redOut
        /\ main \in {"waitMap", "enterReduce"} => next = 0
        /\ Phase = "done" \/ main \in {"feedExit", "returned"} => redOut = ReduceId

\* MakeCoordinator's sends, those under TaskLock included, always find a place in
\* the channel, if it has one for each reduce task and no task has timed out: the
\* loop that sends the reduce tasks does not keep reports waiting, and the loop
\* that sends the exit tasks ends though the workers may be gone.
Feeding == main \in {"feedMap", "feedReduce", "feedExit"}

NoSendBlocks ==
    timeouts = 0 /\ nReduce <= 2 * nFiles /\ Feeding => Len(TaskChan) < 2 * nFiles

\* Why: each loop begins with an empty channel, as a reduce task that is queued
\* or in a worker's hands is recorded, and the wait for its phase goes on.
RoomInv ==
    timeouts = 0 =>
        /\ \A i \in ReduceId :
            Held([type |-> "reduce", id |-> i]) => TaskMapState[i] = "reduce"
        /\ Feeding => Len(TaskChan) <= next

\* The job ends: the coordinator's process exits.
JobFinishes == <>(coord = "exited")
=============================================================================
