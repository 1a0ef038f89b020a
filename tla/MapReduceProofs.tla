--------------------------- MODULE MapReduceProofs ---------------------------
(***************************************************************************)
(* Proofs about the MapReduce of src/mr, for any number of workers, files  *)
(* and reduce tasks, with any number of crashes and timeouts.              *)
(***************************************************************************)
EXTENDS MapReduce, TLAPS

USE MapReduceAssumption

\* Task ids and tasks.
LEMMA Ids ==
    /\ MapId \subseteq TaskId /\ ReduceId \subseteq TaskId /\ 0 \in TaskId /\ 0 \in ReduceId
    /\ \A t \in Task \cup {Nil} : t.id \in TaskId
    /\ \A i \in MapId : [type |-> "map", id |-> i] \in Task
    /\ \A i \in ReduceId : /\ [type |-> "reduce", id |-> i] \in Task
                           /\ [type |-> "done", id |-> i] \in Task
    /\ Nil \notin Task
<1> USE DEF MapId, ReduceId, TaskId, Task, Nil
<1>1. MapId \subseteq TaskId /\ ReduceId \subseteq TaskId /\ 0 \in TaskId /\ 0 \in ReduceId
  OBVIOUS
<1>2. \A t \in Task \cup {Nil} : t.id \in TaskId
  BY <1>1
<1>3. \A i \in MapId : [type |-> "map", id |-> i] \in Task
  OBVIOUS
<1>4. \A i \in ReduceId : /\ [type |-> "reduce", id |-> i] \in Task
                          /\ [type |-> "done", id |-> i] \in Task
  OBVIOUS
<1>5. Nil \notin Task
  OBVIOUS
<1> QED
  BY Zenon, <1>1, <1>2, <1>3, <1>4, <1>5

\* A send leaves the channel within its capacity.
LEMMA SendKeepsCapacity ==
    ASSUME TaskChan \in Seq(Task \cup {Nil}), NEW t \in Task \cup {Nil}, Send(t)
    PROVE  TaskChan' \in Seq(Task \cup {Nil}) /\ Len(TaskChan') <= 2 * nFiles
BY DEF Send

\* MakeCoordinator keeps the types.
LEMMA MainType == ASSUME TypeOK, MakeCoordinator PROVE TypeOK'
<1> USE DEF TypeOK, mainVars, monVars, workerVars, files
<1>t. \A i \in TaskId : TaskMapState'[i] = TaskMapState[i] => TaskOf(i)' = TaskOf(i)
  BY Zenon DEF TaskOf
<1>0. /\ UNCHANGED <<TaskAliveDetector, monitor, todo, timeouts, worker, task, alive, crashes, mapOut, redOut>>
      /\ coord' \in {"up", "exited"}
  BY Zenon DEF MakeCoordinator, MakeMapTask, MapPhaseEnds, EnterReduce, MakeReduceTask, ReducePhaseEnds,
         MakeExitTask, Exit
<1>1. CASE MakeMapTask
  <2>1. /\ next \in MapId /\ TaskChan' \in Seq(Task \cup {Nil}) /\ Len(TaskChan') <= 2 * nFiles
        /\ TaskMapState' = [TaskMapState EXCEPT ![next] = "map"]
    <3>1. next \in MapId
      BY Zenon, <1>1 DEF MakeMapTask, Loop
    <3>2. [type |-> "map", id |-> next] \in Task \cup {Nil}
      BY Zenon, <3>1, Ids
    <3> QED
      BY Zenon, <1>1, <3>1, <3>2, SendKeepsCapacity DEF MakeMapTask
  <2>2. TaskMapState' \in [TaskId -> {"none", "map", "reduce"}]
    BY Zenon, <2>1, Ids
  <2>3. \A i \in TaskId : (TaskOf(i) \in Task \cup {Nil})'
    <3> TAKE i \in TaskId
    <3>1. CASE i = next
      BY Zenon, <2>1, <3>1, Ids DEF TaskOf
    <3>2. CASE i # next
      BY Zenon, <2>1, <3>2, <1>t
    <3> QED
      BY Zenon, <3>1, <3>2
  <2>4. main' \in MainState /\ next' \in IF main' = "feedMap" THEN MapId ELSE ReduceId
    <3>1. CASE next + 1 < nFiles
      BY <1>1, <2>1, <3>1 DEF MakeMapTask, Loop, MainState, MapId
    <3>2. CASE ~(next + 1 < nFiles)
      BY Zenon, <1>1, <2>1, <3>2, Ids DEF MakeMapTask, Loop, MainState
    <3> QED
      BY Zenon, <3>1, <3>2
  <2> QED
    BY Zenon, <1>0, <1>1, <2>1, <2>2, <2>3, <2>4 DEF MakeMapTask
<1>2. CASE MakeReduceTask
  <2>1. /\ next \in ReduceId /\ TaskChan' \in Seq(Task \cup {Nil}) /\ Len(TaskChan') <= 2 * nFiles
        /\ TaskMapState' = [TaskMapState EXCEPT ![next] = "reduce"]
    <3>1. next \in ReduceId
      BY Zenon, <1>2 DEF MakeReduceTask, Loop
    <3>2. [type |-> "reduce", id |-> next] \in Task \cup {Nil}
      BY Zenon, <3>1, Ids
    <3> QED
      BY Zenon, <1>2, <3>1, <3>2, SendKeepsCapacity DEF MakeReduceTask
  <2>2. TaskMapState' \in [TaskId -> {"none", "map", "reduce"}]
    BY Zenon, <2>1, Ids
  <2>3. \A i \in TaskId : (TaskOf(i) \in Task \cup {Nil})'
    <3> TAKE i \in TaskId
    <3>1. CASE i = next
      BY Zenon, <2>1, <3>1, Ids DEF TaskOf
    <3>2. CASE i # next
      BY Zenon, <2>1, <3>2, <1>t
    <3> QED
      BY Zenon, <3>1, <3>2
  <2>4. main' \in MainState /\ next' \in IF main' = "feedMap" THEN MapId ELSE ReduceId
    <3>1. CASE next + 1 < nReduce
      BY <1>2, <2>1, <3>1 DEF MakeReduceTask, Loop, MainState, ReduceId
    <3>2. CASE ~(next + 1 < nReduce)
      BY Zenon, <1>2, <2>1, <3>2, Ids DEF MakeReduceTask, Loop, MainState
    <3> QED
      BY Zenon, <3>1, <3>2
  <2> QED
    BY Zenon, <1>0, <1>2, <2>1, <2>2, <2>3, <2>4 DEF MakeReduceTask
<1>3. CASE MakeExitTask
  <2>1. /\ next \in ReduceId /\ TaskChan' \in Seq(Task \cup {Nil}) /\ Len(TaskChan') <= 2 * nFiles
        /\ TaskMapState' = TaskMapState
    <3>1. next \in ReduceId
      BY Zenon, <1>3 DEF MakeExitTask, Loop
    <3>2. [type |-> "done", id |-> next] \in Task \cup {Nil}
      BY Zenon, <3>1, Ids
    <3> QED
      BY Zenon, <1>3, <3>1, <3>2, SendKeepsCapacity DEF MakeExitTask
  <2>2. main' \in MainState /\ next' \in IF main' = "feedMap" THEN MapId ELSE ReduceId
    <3>1. CASE next + 1 < nReduce
      BY <1>3, <2>1, <3>1 DEF MakeExitTask, Loop, MainState, ReduceId
    <3>2. CASE ~(next + 1 < nReduce)
      BY Zenon, <1>3, <2>1, <3>2, Ids DEF MakeExitTask, Loop, MainState
    <3> QED
      BY <3>1, <3>2
  <2> QED
    BY Zenon, <1>0, <1>3, <2>1, <2>2, <1>t DEF MakeExitTask
<1>4. CASE MapPhaseEnds \/ EnterReduce \/ ReducePhaseEnds
  <2>1. next' = next /\ main' \in MainState \ {"feedMap"} /\ main # "feedMap"
    BY Zenon, <1>4 DEF MapPhaseEnds, EnterReduce, ReducePhaseEnds, MainState
  <2> QED
    BY Zenon, <1>0, <1>4, <2>1, <1>t DEF MapPhaseEnds, EnterReduce, ReducePhaseEnds
<1>5. CASE Exit
  BY Zenon, <1>0, <1>5, <1>t DEF Exit
<1> QED
  BY Zenon, <1>1, <1>2, <1>3, <1>4, <1>5 DEF MakeCoordinator

\* So do the handlers,
LEMMA HandlerType == ASSUME TypeOK, NEW w \in Worker, Handler(w) PROVE TypeOK'
<1> USE DEF TypeOK, mainVars, monVars, workerVars, files
<1>t. ASSUME NEW i \in TaskId, TaskMapState'[i] = TaskMapState[i]
      PROVE  TaskOf(i)' = TaskOf(i)
  BY Zenon, <1>t DEF TaskOf
<1>r. ASSUME NEW s \in WorkerState, Reply(w, s)
      PROVE  worker' \in [Worker -> WorkerState]
  BY Zenon, <1>r DEF Reply, WorkerState
<1>1. CASE Receive(w)
  <2>1. /\ Head(TaskChan) \in Task \cup {Nil} /\ Tail(TaskChan) \in Seq(Task \cup {Nil})
        /\ Len(Tail(TaskChan)) <= 2 * nFiles
    BY <1>1 DEF Receive
  <2> QED
    BY Zenon, <1>1, <2>1, <1>t DEF Receive, Handler, WorkerState
<1>2. CASE AllocateTask(w)
  <2>1. task[w].id \in TaskId
    BY Zenon, Ids
  <2>2. worker' \in [Worker -> WorkerState]
    BY Zenon, <1>2, <1>r DEF AllocateTask, WorkerState
  <2> QED
    BY Zenon, <1>2, <2>1, <2>2, <1>t DEF AllocateTask, Handler
<1>3. CASE AllocateNothing(w)
  <2>1. worker' \in [Worker -> WorkerState]
    BY Zenon, <1>3, <1>r DEF AllocateNothing, WorkerState
  <2> QED
    BY Zenon, <1>3, <2>1, <1>t DEF AllocateNothing, Handler
<1>4. CASE MarkLock(w)
  BY Zenon, <1>4, <1>t DEF MarkLock, Handler, WorkerState
<1>5. CASE MarkTaskDone(w)
  <2>1. worker' \in [Worker -> WorkerState]
    BY Zenon, <1>5, <1>r DEF MarkTaskDone, WorkerState
  <2>2. TaskMapState' = [TaskMapState EXCEPT ![task[w].id] = "none"]
    BY Zenon, <1>5 DEF MarkTaskDone
  <2>3. \A i \in TaskId : (TaskOf(i) \in Task \cup {Nil})'
    <3> TAKE i \in TaskId
    <3>1. CASE i = task[w].id
      BY Zenon, <2>2, <3>1 DEF TaskOf
    <3>2. CASE i # task[w].id
      BY Zenon, <2>2, <3>2, <1>t
    <3> QED
      BY Zenon, <3>1, <3>2
  <2>4. coord' \in {"up", "exited", "crashed"}
    BY Zenon, <1>5 DEF MarkTaskDone
  <2> QED
    BY Zenon, <1>5, <2>1, <2>2, <2>3, <2>4 DEF MarkTaskDone, Handler
<1> QED
  BY Zenon, <1>1, <1>2, <1>3, <1>4, <1>5 DEF Handler

\* the monitor,
LEMMA MonitorType == ASSUME TypeOK, Monitor PROVE TypeOK'
<1> USE DEF TypeOK, mainVars, monVars, workerVars, files
<1>t. \A i \in TaskId : TaskOf(i)' = TaskOf(i)
  BY Zenon DEF TaskOf, Monitor
<1>1. CASE Tick \/ Block \/ EndTick
  BY Zenon, <1>1, <1>t DEF Tick, Block, EndTick, Monitor
<1>2. ASSUME NEW i \in todo, Fresh(i) PROVE TypeOK'
  BY Zenon, <1>2, <1>t DEF Fresh, Monitor
<1>3. ASSUME NEW i \in todo, Requeue(i) PROVE TypeOK'
  <2>1. TaskOf(i) \in Task \cup {Nil}
    OBVIOUS
  <2>2. TaskChan' \in Seq(Task \cup {Nil}) /\ Len(TaskChan') <= 2 * nFiles
    BY Zenon, <1>3, <2>1, SendKeepsCapacity DEF Requeue
  <2> QED
    BY <1>3, <2>2, <1>t DEF Requeue, Monitor
<1> QED
  BY Zenon, <1>1, <1>2, <1>3 DEF Monitor

\* and the workers.
LEMMA WorkerType ==
    ASSUME TypeOK, NEW w \in Worker, WorkerStep(w) \/ Crash(w) \/ Restart(w)
    PROVE  TypeOK'
<1> USE DEF TypeOK, mainVars, monVars, workerVars, files
<1>1. \A i \in TaskId : TaskOf(i)' = TaskOf(i)
  BY Zenon DEF TaskOf, WorkerStep, Crash, Restart
<1>2. worker' \in [Worker -> WorkerState] /\ alive' \in [Worker -> BOOLEAN]
  BY Zenon DEF WorkerStep, Crash, Restart, GetTask, doMapTask, doReduceTask, CallFails, WorkerState
<1>3. mapOut' \in SUBSET MapId /\ redOut' \in SUBSET ReduceId
  <2>1. CASE RenameMap(w)
    <3>1. task[w].id \in MapId
      BY <2>1 DEF RenameMap, Task, Nil
    <3> QED
      BY Zenon, <2>1, <3>1 DEF RenameMap
  <2>2. CASE RenameReduce(w)
    <3>1. task[w].id \in ReduceId
      BY <2>2 DEF RenameReduce, Task, Nil
    <3> QED
      BY Zenon, <2>2, <3>1 DEF RenameReduce
  <2> QED
    BY Zenon, <2>1, <2>2 DEF WorkerStep, Crash, Restart, GetTask, doMapTask, doReduceTask, CallFails
<1>4. task' \in [Worker -> Task \cup {Nil}]
  BY Zenon DEF WorkerStep, Crash, Restart, GetTask, doMapTask, doReduceTask, CallFails
<1>5. crashes' \in 0..MaxCrashes
  BY DEF WorkerStep, Crash, Restart
<1> QED
  BY Zenon, <1>1, <1>2, <1>3, <1>4, <1>5 DEF WorkerStep, Crash, Restart

LEMMA TypeStep == TypeOK /\ [Next]_vars => TypeOK'
<1>1. ASSUME TypeOK, UNCHANGED vars PROVE TypeOK'
  BY Zenon, <1>1 DEF TypeOK, vars, mainVars, monVars, workerVars, files, TaskOf
<1> QED
  BY Zenon, <1>1, MainType, HandlerType, MonitorType, WorkerType DEF Next

\* Type correctness of coordinator and workers.
THEOREM TypeCorrect == Spec => []TypeOK
<1>1. Init => TypeOK
  <2>1. Init => \A i \in TaskId : TaskOf(i) = Nil
    BY Zenon DEF Init, TaskOf
  <2>2. 0 \in MapId
    BY DEF MapId
  <2> QED
    BY <2>1, <2>2 DEF Init, TypeOK, MainState, WorkerState
<1> QED
  BY <1>1, TypeStep, PTL DEF Spec

-----------------------------------------------------------------------------
(* The reduce phase has its input *)

\* What sending and receiving do to the places of the channel.
LEMMA SendFacts ==
    ASSUME TypeOK, NEW t \in Task \cup {Nil}, Send(t)
    PROVE  \A n \in 1..Len(TaskChan') :
               \/ n \in 1..Len(TaskChan) /\ TaskChan'[n] = TaskChan[n]
               \/ n = Len(TaskChan) + 1 /\ TaskChan'[n] = t
BY DEF Send, TypeOK

LEMMA ReceiveFacts ==
    ASSUME TypeOK, TaskChan # <<>>, TaskChan' = Tail(TaskChan)
    PROVE  /\ 1 \in 1..Len(TaskChan) /\ Head(TaskChan) = TaskChan[1]
           /\ \A n \in 1..Len(TaskChan') :
                  n + 1 \in 1..Len(TaskChan) /\ TaskChan'[n] = TaskChan[n + 1]
           /\ \A n \in 1..Len(TaskChan) : n # 1 =>
                  n - 1 \in 1..Len(TaskChan') /\ TaskChan'[n - 1] = TaskChan[n]
<1>1. TaskChan \in Seq(Task \cup {Nil}) /\ Len(TaskChan) \in Nat /\ Len(TaskChan) # 0
  BY DEF TypeOK
<1>2. Len(TaskChan') = Len(TaskChan) - 1 /\ Len(TaskChan') \in Nat
  BY <1>1
<1>3. \A n \in 1..(Len(TaskChan) - 1) : TaskChan'[n] = TaskChan[n + 1]
  BY <1>1
<1>4. Head(TaskChan) = TaskChan[1]
  BY <1>1
<1> QED
  BY <1>1, <1>2, <1>3, <1>4

\* MakeCoordinator keeps MapInv.
LEMMA MainKeeps == ASSUME TypeOK, MapInv, MakeCoordinator PROVE MapInv'
<1> USE DEF MapInv, Mapping, mainVars, monVars, workerVars, files
<1>0. UNCHANGED <<worker, task, mapOut>>
  BY Zenon DEF MakeCoordinator
<1>1. CASE MakeMapTask
  <2>1. /\ main = "feedMap" /\ next \in MapId /\ TaskMapState' = [TaskMapState EXCEPT ![next] = "map"]
        /\ TaskMapState \in [TaskId -> {"none", "map", "reduce"}]
        /\ \/ next + 1 < nFiles /\ main' = "feedMap" /\ next' = next + 1
           \/ next + 1 >= nFiles /\ main' = "waitMap"
    BY <1>1 DEF MakeMapTask, Loop, TypeOK, MapId
  <2>2. \A n \in 1..Len(TaskChan') : TaskChan'[n].type \in {"map", "nil"}
    <3>1. [type |-> "map", id |-> next] \in Task \cup {Nil} /\ Send([type |-> "map", id |-> next])
      BY Zenon, <1>1, <2>1, Ids DEF MakeMapTask
    <3> QED
      BY <2>1, <3>1, SendFacts
  <2>3. \A i \in TaskId : TaskMapState'[i] # "reduce"
    BY Zenon, <2>1
  <2>4. \A i \in MapId : (main' = "feedMap" => i < next') => TaskMapState'[i] = "map" \/ i \in mapOut
    BY <2>1, Ids DEF MapId
  <2> QED
    BY Zenon, <1>0, <2>1, <2>2, <2>3, <2>4
<1>2. CASE MapPhaseEnds
  <2>1. /\ main = "waitMap" /\ main' = "enterReduce"
        /\ \A i \in TaskId : TaskMapState[i] # "map"
    BY Zenon, <1>2 DEF MapPhaseEnds, NoneIn
  <2>2. mapOut = MapId
    BY ZenonT(60), <2>1, Ids DEF TypeOK
  <2> QED
    BY Zenon, <1>0, <2>1, <2>2
<1>3. CASE EnterReduce \/ MakeReduceTask \/ ReducePhaseEnds \/ MakeExitTask \/ Exit
  <2>1. ~Mapping /\ ~Mapping'
    BY Zenon, <1>3 DEF EnterReduce, MakeReduceTask, ReducePhaseEnds, MakeExitTask, Exit, Loop
  <2> QED
    BY Zenon, <1>0, <2>1
<1> QED
  BY Zenon, <1>1, <1>2, <1>3 DEF MakeCoordinator

\* So do the handlers.
LEMMA HandlerKeeps == ASSUME TypeOK, MapInv, NEW w \in Worker, Handler(w) PROVE MapInv'
<1> USE DEF MapInv, Mapping, mainVars, monVars, workerVars, files
<1>0. UNCHANGED <<main, next, mapOut>>
  BY Zenon DEF Handler
<1>1. CASE Receive(w)
  <2>1. /\ worker[w] = "asking" /\ worker'[w] = "granted" /\ TaskMapState' = TaskMapState
        /\ task'[w] = Head(TaskChan)
        /\ \A v \in Worker : v # w => worker'[v] = worker[v] /\ task'[v] = task[v]
    BY Zenon, <1>1 DEF Receive, TypeOK
  <2>2. Mapping => /\ task'[w].type \in {"map", "nil"}
                   /\ \A n \in 1..Len(TaskChan') : TaskChan'[n].type \in {"map", "nil"}
    BY <1>1, <2>1, ReceiveFacts DEF Receive
  <2> QED
    BY Zenon, <1>0, <2>1, <2>2
<1>2. CASE AllocateTask(w)
  <2>1. /\ UNCHANGED <<TaskMapState, TaskChan, task>>
        /\ \A v \in Worker : v # w => worker'[v] = worker[v]
        /\ \/ worker'[w] \in {"granted", "exited", "dead"}
           \/ worker'[w] = "working" /\ task[w] # Nil /\ task[w].type # "done"
    BY Zenon, <1>2 DEF AllocateTask, Reply, TypeOK
  <2>2. task[w] # Nil /\ task[w].type # "done" => task[w].type \in {"map", "reduce"}
    BY Zenon DEF TypeOK, Task
  <2> QED
    BY Zenon, <1>0, <2>1, <2>2
<1>3. CASE AllocateNothing(w) \/ MarkLock(w)
  <2>1. /\ UNCHANGED <<TaskMapState, TaskChan, task>>
        /\ \A v \in Worker : v # w => worker'[v] = worker[v]
        /\ worker'[w] \in {"idle", "exited", "dead"} \/ (worker[w] = "reporting" /\ worker'[w] = "marking")
    BY Zenon, <1>3 DEF AllocateNothing, MarkLock, Reply, TypeOK
  <2> QED
    BY Zenon, <1>0, <2>1
<1>4. CASE MarkTaskDone(w)
  <2>1. /\ worker[w] = "marking" /\ worker'[w] \in {"idle", "dead"}
        /\ task'[w] = Nil /\ TaskChan' = TaskChan
        /\ TaskMapState' = [TaskMapState EXCEPT ![task[w].id] = "none"]
        /\ \A v \in Worker : v # w => worker'[v] = worker[v] /\ task'[v] = task[v]
    BY Zenon, <1>4 DEF MarkTaskDone, Reply, TypeOK
  <2>2. Mapping => task[w].id \in mapOut
    BY Zenon, <2>1
  <2>3. \A i \in TaskId : i # task[w].id => TaskMapState'[i] = TaskMapState[i]
    BY Zenon, <2>1 DEF TypeOK
  <2>4. \A i \in TaskId : TaskMapState'[i] = TaskMapState[i] \/ TaskMapState'[i] = "none"
    BY Zenon, <2>1 DEF TypeOK
  <2>5. Mapping => \A i \in MapId :
            (main = "feedMap" => i < next) => TaskMapState'[i] = "map" \/ i \in mapOut
    BY Zenon, <2>2, <2>3, Ids
  <2> QED
    BY <1>0, <2>1, <2>4, <2>5 DEF Nil
<1> QED
  BY Zenon, <1>1, <1>2, <1>3, <1>4 DEF Handler

\* A task sent again is one of c.Tasks.
LEMMA MonitorKeeps == ASSUME TypeOK, MapInv, Monitor PROVE MapInv'
<1> USE DEF MapInv, Mapping, mainVars, monVars, workerVars, files
<1>0. UNCHANGED <<main, next, mapOut, TaskMapState, worker, task>>
  BY Zenon DEF Monitor
<1>1. Mapping => \A n \in 1..Len(TaskChan') : TaskChan'[n].type \in {"map", "nil"}
  <2>1. CASE TaskChan' = TaskChan
    BY Zenon, <2>1
  <2>2. ASSUME NEW i \in todo, Send(TaskOf(i)), Mapping
        PROVE  \A n \in 1..Len(TaskChan') : TaskChan'[n].type \in {"map", "nil"}
    <3>1. i \in TaskId /\ TaskOf(i) \in Task \cup {Nil}
      BY Zenon DEF TypeOK
    <3>2. TaskOf(i).type \in {"map", "nil"}
      BY <2>2, <3>1 DEF TaskOf, Nil, TypeOK
    <3> QED
      BY Zenon, <2>2, <3>1, <3>2, SendFacts
  <2> QED
    BY Zenon, <2>1, <2>2 DEF Monitor, Tick, Block, EndTick, Fresh, Requeue
<1> QED
  BY Zenon, <1>0, <1>1

\* A worker reports a map task after it has renamed its files.
LEMMA WorkerKeeps ==
    ASSUME TypeOK, MapInv, NEW w \in Worker, WorkerStep(w) \/ Crash(w) \/ Restart(w)
    PROVE  MapInv'
<1> USE DEF MapInv, Mapping, mainVars, monVars, workerVars, files
<1>0. UNCHANGED <<main, next, TaskMapState, TaskChan>>
  BY Zenon DEF WorkerStep, Crash, Restart
<1>1. mapOut \subseteq mapOut' /\ mapOut' \subseteq MapId
  <2>1. TypeOK'
    BY Zenon, WorkerType
  <2> QED
    BY Zenon, <2>1 DEF WorkerStep, Crash, Restart, GetTask, doMapTask, doReduceTask, CallFails, RenameMap, RenameReduce, TypeOK
<1>2. \A v \in Worker : v # w => worker'[v] = worker[v] /\ task'[v] = task[v]
  BY Zenon DEF WorkerStep, Crash, Restart, GetTask, doMapTask, doReduceTask, CallFails, TypeOK
<1>3. \/ worker'[w] \notin {"working", "reporting", "marking"}
      \/ worker'[w] = worker[w] /\ task'[w] = task[w]
      \/ /\ worker'[w] = "reporting" /\ task'[w] = task[w] /\ task[w].type \in {"map", "reduce"}
         /\ task[w].type = "map" => task[w].id \in mapOut'
  BY DEF WorkerStep, Crash, Restart, GetTask, doMapTask, doReduceTask, CallFails, RenameMap, RenameReduce, TypeOK
<1>4. task'[w] = task[w] \/ task'[w] = Nil
  BY Zenon DEF WorkerStep, Crash, Restart, GetTask, doMapTask, doReduceTask, CallFails, TypeOK
<1>5. ~Mapping => mapOut' = MapId
  BY Zenon, <1>1
<1>6. \A v \in Worker :
        /\ worker'[v] \in {"working", "reporting", "marking"} => task'[v].type \in {"map", "reduce"}
        /\ worker'[v] \in {"reporting", "marking"} /\ task'[v].type = "map" => task'[v].id \in mapOut'
  BY <1>1, <1>2, <1>3
<1>7. Mapping => \A v \in Worker : task'[v].type \in {"map", "nil"}
  <2> SUFFICES ASSUME Mapping, NEW v \in Worker PROVE task'[v].type \in {"map", "nil"}
    OBVIOUS
  <2>1. task'[v] = task[v] \/ task'[v] = Nil
    BY Zenon, <1>2, <1>4
  <2>2. task[v].type \in {"map", "nil"}
    OBVIOUS
  <2>3. Nil.type \in {"map", "nil"}
    BY Zenon DEF Nil
  <2> HIDE DEF MapInv, Mapping
  <2> QED
    BY Zenon, <2>1, <2>2, <2>3
<1> QED
  BY Zenon, <1>0, <1>1, <1>5, <1>6, <1>7

\* MapInv holds in every state.
THEOREM MapInvariant == Spec => []MapInv
<1>1. Init => MapInv
  BY DEF Init, MapInv, Mapping, Nil, MapId
<1>2. TypeOK /\ MapInv /\ [Next]_vars => MapInv'
  <2>1. ASSUME MapInv, UNCHANGED vars PROVE MapInv'
    BY Zenon, <2>1 DEF MapInv, Mapping, vars, mainVars, monVars, workerVars, files
  <2> QED
    BY Zenon, <2>1, MainKeeps, HandlerKeeps, MonitorKeeps, WorkerKeeps DEF Next
<1> QED
  BY <1>1, <1>2, TypeCorrect, PTL DEF Spec

\* No reduce task misses an intermediate file.
THEOREM ReduceHasInputs == Spec => []InputsComplete
<1>1. MapInv => InputsComplete
  BY Zenon DEF MapInv, Mapping, InputsComplete
<1> QED
  BY <1>1, MapInvariant, PTL

-----------------------------------------------------------------------------
(* No task is forgotten *)

\* What keeps a recorded task in sight for one step.
LEMMA InSight ==
    ASSUME NEW i \in TaskId, TaskOf(i)' = TaskOf(i),
           i \in TaskAliveDetector \/ Queued(i) \/ InHand(i),
           TaskAliveDetector \subseteq TaskAliveDetector',
           \A n \in 1..Len(TaskChan) :
               n \in 1..Len(TaskChan') /\ TaskChan'[n] = TaskChan[n],
           \A w \in Worker : worker[w] = "granted" => worker'[w] = "granted" /\ task'[w] = task[w]
    PROVE  i \in TaskAliveDetector' \/ Queued(i)' \/ InHand(i)'
BY Zenon DEF Queued, InHand

LEMMA SendKeeps ==
    ASSUME TypeOK, NEW t \in Task \cup {Nil}, Send(t)
    PROVE  /\ \A n \in 1..Len(TaskChan) :
                  n \in 1..Len(TaskChan') /\ TaskChan'[n] = TaskChan[n]
           /\ \E n \in 1..Len(TaskChan') : TaskChan'[n] = t
<1>1. TaskChan \in Seq(Task \cup {Nil}) /\ TaskChan' = Append(TaskChan, t)
  BY Zenon DEF TypeOK, Send
<1>2. Len(TaskChan) \in Nat /\ Len(TaskChan') = Len(TaskChan) + 1 /\ TaskChan'[Len(TaskChan) + 1] = t
  BY <1>1
<1> QED
  BY <1>1, <1>2

\* A task is recorded and sent under one lock.
LEMMA MainLosesNone == ASSUME TypeOK, RecordedKept, MakeCoordinator PROVE RecordedKept'
<1> USE DEF mainVars, monVars, workerVars, files
<1>0. coord = "up" /\ UNCHANGED <<worker, task, TaskAliveDetector>>
  BY Zenon DEF MakeCoordinator, MakeMapTask, MapPhaseEnds, EnterReduce, MakeReduceTask,
         ReducePhaseEnds, MakeExitTask, Exit
<1>1. ASSUME NEW t \in Task \cup {Nil}, Send(t), UNCHANGED TaskMapState PROVE RecordedKept'
  BY Zenon, <1>0, <1>1, SendKeeps, InSight DEF RecordedKept, TaskOf
<1>2. ASSUME NEW ty \in {"map", "reduce"}, next \in TaskId,
             [type |-> ty, id |-> next] \in Task,
             TaskMapState' = [TaskMapState EXCEPT ![next] = ty],
             Send([type |-> ty, id |-> next])
      PROVE  RecordedKept'
  <2>1. ASSUME NEW i \in TaskId, TaskMapState'[i] # "none"
        PROVE  i \in TaskAliveDetector' \/ Queued(i)' \/ InHand(i)'
    <3>1. CASE i = next
      <4>1. TaskOf(i)' = [type |-> ty, id |-> next]
        BY Zenon, <1>2, <3>1 DEF TypeOK, TaskOf
      <4> QED
        BY Zenon, <1>2, <4>1, SendKeeps DEF Queued
    <3>2. CASE i # next
      <4>1. TaskMapState'[i] = TaskMapState[i] /\ TaskOf(i)' = TaskOf(i)
        BY Zenon, <1>2, <3>2 DEF TypeOK, TaskOf
      <4> QED
        BY Zenon, <1>0, <1>2, <2>1, <4>1, SendKeeps, InSight DEF RecordedKept
    <3> QED
      BY Zenon, <3>1, <3>2
  <2> QED
    BY Zenon, <2>1 DEF RecordedKept
<1>3. CASE MakeMapTask
  <2>1. next \in MapId
    BY Zenon, <1>3 DEF MakeMapTask, Loop, TypeOK
  <2> QED
    BY Zenon, <1>2, <1>3, <2>1, Ids DEF MakeMapTask
<1>4. CASE MakeReduceTask
  <2>1. next \in ReduceId
    BY Zenon, <1>4 DEF MakeReduceTask, Loop, TypeOK
  <2> QED
    BY Zenon, <1>2, <1>4, <2>1, Ids DEF MakeReduceTask
<1>5. CASE MakeExitTask
  <2>1. next \in ReduceId
    BY Zenon, <1>5 DEF MakeExitTask, Loop, TypeOK
  <2> QED
    BY Zenon, <1>1, <1>5, <2>1, Ids DEF MakeExitTask
<1>6. CASE MapPhaseEnds \/ EnterReduce \/ ReducePhaseEnds \/ Exit
  <2>1. UNCHANGED <<TaskMapState, TaskChan>>
    BY Zenon, <1>6 DEF MapPhaseEnds, EnterReduce, ReducePhaseEnds, Exit
  <2> QED
    BY Zenon, <1>0, <2>1 DEF RecordedKept, Queued, InHand, TaskOf
<1> QED
  BY Zenon, <1>3, <1>4, <1>5, <1>6 DEF MakeCoordinator

\* A handler passes a task from the channel to its worker and then to the
\* monitor, or deletes it everywhere.
LEMMA HandlerLosesNone ==
    ASSUME TypeOK, RecordedKept, NEW w \in Worker, Handler(w) PROVE RecordedKept'
<1> USE DEF mainVars, monVars, workerVars, files
<1>0. coord = "up"
  BY Zenon DEF Handler
<1>1. CASE Receive(w)
  <2>1. /\ UNCHANGED <<TaskMapState, TaskAliveDetector>> /\ TaskChan # <<>>
        /\ TaskChan' = Tail(TaskChan) /\ worker[w] = "asking" /\ worker'[w] = "granted"
        /\ task'[w] = Head(TaskChan)
        /\ \A v \in Worker : v # w => worker'[v] = worker[v] /\ task'[v] = task[v]
    BY Zenon, <1>1 DEF Receive, TypeOK
  <2>2. ASSUME NEW i \in TaskId, TaskMapState[i] # "none"
        PROVE  i \in TaskAliveDetector' \/ Queued(i)' \/ InHand(i)'
    <3>0. TaskOf(i)' = TaskOf(i)
      BY Zenon, <2>1 DEF TaskOf
    <3>1. CASE Queued(i)
      <4>1. PICK n \in 1..Len(TaskChan) : TaskChan[n] = TaskOf(i)
        BY Zenon, <3>1 DEF Queued
      <4>2. CASE n = 1
        BY Zenon, <2>1, <3>0, <4>1, <4>2, ReceiveFacts DEF InHand
      <4>3. CASE n # 1
        <5>1. n - 1 \in 1..Len(TaskChan') /\ TaskChan'[n - 1] = TaskOf(i)'
          BY Zenon, <2>1, <3>0, <4>1, <4>3, ReceiveFacts
        <5> QED
          BY Zenon, <5>1 DEF Queued
      <4> QED
        BY Zenon, <4>2, <4>3
    <3>2. CASE InHand(i)
      BY Zenon, <2>1, <3>0, <3>2 DEF InHand
    <3>3. CASE i \in TaskAliveDetector
      BY Zenon, <2>1, <3>3
    <3> QED
      BY Zenon, <1>0, <2>2, <3>1, <3>2, <3>3 DEF RecordedKept
  <2> QED
    BY Zenon, <2>1, <2>2 DEF RecordedKept
<1>2. CASE AllocateTask(w) /\ task[w] # Nil
  <2>1. /\ UNCHANGED <<TaskMapState, TaskChan, task>>
        /\ TaskAliveDetector' = TaskAliveDetector \cup {task[w].id}
        /\ \A v \in Worker : v # w => worker'[v] = worker[v]
    BY Zenon, <1>2 DEF AllocateTask, Reply, TypeOK
  <2>2. \A i \in TaskId : TaskMapState[i] # "none" => TaskOf(i).id = i /\ TaskOf(i)' = TaskOf(i)
    BY Zenon, <2>1 DEF TaskOf
  <2> QED
    BY <1>0, <2>1, <2>2 DEF RecordedKept, Queued, InHand
<1>3. CASE AllocateTask(w) /\ task[w] = Nil
  BY Zenon, <1>3 DEF AllocateTask, RecordedKept
<1>4. CASE AllocateNothing(w) \/ MarkLock(w)
  <2>1. /\ UNCHANGED <<TaskMapState, TaskAliveDetector, TaskChan, task>>
        /\ \A v \in Worker : worker[v] = "granted" => worker'[v] = worker[v]
    BY Zenon, <1>4 DEF AllocateNothing, MarkLock, Reply, TypeOK
  <2> QED
    BY <1>0, <2>1 DEF RecordedKept, Queued, InHand, TaskOf
<1>5. CASE MarkTaskDone(w)
  <2>1. /\ TaskChan' = TaskChan /\ worker[w] = "marking"
        /\ TaskAliveDetector' = TaskAliveDetector \ {task[w].id}
        /\ TaskMapState' = [TaskMapState EXCEPT ![task[w].id] = "none"]
        /\ \A v \in Worker : v # w => worker'[v] = worker[v] /\ task'[v] = task[v]
    BY Zenon, <1>5 DEF MarkTaskDone, Reply, TypeOK
  <2>2. \A i \in TaskId : TaskMapState'[i] # "none" =>
            i # task[w].id /\ TaskMapState'[i] = TaskMapState[i] /\ TaskOf(i)' = TaskOf(i)
    BY Zenon, <2>1 DEF TypeOK, TaskOf
  <2> QED
    BY <1>0, <2>1, <2>2 DEF RecordedKept, Queued, InHand
<1> QED
  BY Zenon, <1>1, <1>2, <1>3, <1>4, <1>5 DEF Handler

LEMMA OthersLoseNone ==
    ASSUME TypeOK, RecordedKept,
           Monitor \/ \E w \in Worker : WorkerStep(w) \/ Crash(w) \/ Restart(w)
    PROVE  RecordedKept'
<1> USE DEF mainVars, monVars, workerVars, files
<1>1. CASE Monitor
  <2>1. UNCHANGED <<TaskMapState, TaskAliveDetector, coord, worker, task>>
    BY Zenon, <1>1 DEF Monitor
  <2>2. CASE TaskChan' = TaskChan
    BY Zenon, <2>1, <2>2 DEF RecordedKept, Queued, InHand, TaskOf
  <2>3. ASSUME NEW t \in Task \cup {Nil}, Send(t) PROVE RecordedKept'
    BY Zenon, <2>1, <2>3, SendKeeps, InSight DEF RecordedKept, TaskOf
  <2> QED
    BY Zenon, <1>1, <2>2, <2>3 DEF Monitor, Tick, Block, EndTick, Fresh, Requeue, TypeOK
<1>2. ASSUME NEW w \in Worker, WorkerStep(w) \/ Crash(w) \/ Restart(w) PROVE RecordedKept'
  <2>1. UNCHANGED <<TaskMapState, TaskAliveDetector, TaskChan, coord>>
    BY Zenon, <1>2 DEF WorkerStep, Crash, Restart
  <2>2. coord = "up" => \A v \in Worker :
            worker[v] = "granted" => worker'[v] = "granted" /\ task'[v] = task[v]
    <3>1. CASE WorkerStep(w)
      <4>1. /\ coord = "up" => worker[w] # "granted"
            /\ UNCHANGED task
        BY Zenon, <3>1 DEF WorkerStep, GetTask, doMapTask, doReduceTask, CallFails, RenameMap, RenameReduce
      <4>2. \A v \in Worker : v # w => worker'[v] = worker[v]
        BY Zenon, <3>1 DEF WorkerStep, GetTask, doMapTask, doReduceTask, CallFails, TypeOK
      <4> QED
        BY Zenon, <4>1, <4>2
    <3>2. CASE Crash(w)
      BY Zenon, <3>2 DEF Crash, TypeOK
    <3>3. CASE Restart(w)
      BY Zenon, <3>3 DEF Restart, TypeOK
    <3> QED
      BY Zenon, <1>2, <3>1, <3>2, <3>3
  <2> QED
    BY <2>1, <2>2 DEF RecordedKept, Queued, InHand, TaskOf
<1> QED
  BY Zenon, <1>1, <1>2

\* Every recorded task stays in the channel, in a handler's hand or under the
\* monitor's watch.
LEMMA RecordedAreKept == Spec => []RecordedKept
<1>1. Init => RecordedKept
  BY Zenon DEF Init, RecordedKept
<1>2. TypeOK /\ RecordedKept /\ [Next]_vars => RecordedKept'
  <2>1. ASSUME RecordedKept, UNCHANGED vars PROVE RecordedKept'
    BY Zenon, <2>1 DEF RecordedKept, Queued, InHand, TaskOf, vars, mainVars, monVars, workerVars, files
  <2> QED
    BY Zenon, <2>1, MainLosesNone, HandlerLosesNone, OthersLoseNone DEF Next
<1> QED
  BY <1>1, <1>2, TypeCorrect, PTL DEF Spec

-----------------------------------------------------------------------------
(* Without a timeout every task has one copy *)

\* MakeCoordinator sends a task that it has not sent before.
LEMMA SendOnce ==
    ASSUME TypeOK, OneCopy, CopyInv, timeouts = 0, NEW t \in Task, Send(t), ~Fed(t), Fed(t)',
           \A u \in Task : Fed(u) => Fed(u)', UNCHANGED <<worker, task, timeouts>>
    PROVE  OneCopy' /\ CopyInv'
<1>0. ~Held(t) /\ t # Nil
  BY Zenon, Ids DEF CopyInv
<1>1. \A n \in 1..Len(TaskChan') :
          \/ n \in 1..Len(TaskChan) /\ TaskChan'[n] = TaskChan[n]
          \/ n = Len(TaskChan) + 1 /\ TaskChan'[n] = t
  BY Zenon, SendFacts
<1>2. \A u \in Task : Held(u)' => Held(u) \/ u = t
  BY <1>1 DEF Held
<1>3. ASSUME NEW u \in Task, NEW m \in 1..Len(TaskChan'), NEW n \in 1..Len(TaskChan'),
             TaskChan'[m] = u, TaskChan'[n] = u
      PROVE  m = n
  <2>1. CASE u = t
    BY Zenon, <1>0, <1>1, <1>3, <2>1 DEF Held
  <2>2. CASE u # t
    BY Zenon, <1>1, <1>3, <2>2 DEF OneCopy
  <2> QED
    BY Zenon, <2>1, <2>2
<1>4. ASSUME NEW u \in Task, NEW n \in 1..Len(TaskChan'), NEW w \in Worker, TaskChan'[n] = u
      PROVE  task[w] # u
  BY Zenon, <1>0, <1>1, <1>4 DEF Held, OneCopy
<1>5. OneCopy'
  BY Zenon, <1>3, <1>4 DEF OneCopy
<1>6. CopyInv'
  BY Zenon, <1>0, <1>1, <1>2 DEF CopyInv
<1> QED
  BY Zenon, <1>5, <1>6

\* A step that neither sends nor receives keeps the copies, or ends some.
LEMMA NoNewCopy ==
    ASSUME TypeOK, OneCopy, CopyInv, timeouts' = 0 => timeouts = 0, UNCHANGED TaskChan,
           \A w \in Worker : task'[w] = task[w] \/ task'[w] = Nil,
           \A w \in Worker : worker'[w] \in {"idle", "asking"} =>
               task'[w] = Nil \/ (task'[w] = task[w] /\ worker[w] \in {"idle", "asking"}),
           \A u \in Task : Fed(u) => Fed(u)'
    PROVE  OneCopy' /\ CopyInv'
<1>1. \A u \in Task : Held(u)' => Held(u)
  BY Zenon, Ids DEF Held
<1>2. CopyInv'
  BY Zenon, <1>1 DEF CopyInv
<1>3. OneCopy'
  BY ZenonT(40), Ids DEF OneCopy
<1> QED
  BY Zenon, <1>2, <1>3

\* MakeCoordinator's loops count up, so that nothing is sent twice.
LEMMA MainCopies == ASSUME TypeOK, OneCopy, CopyInv, MakeCoordinator PROVE OneCopy' /\ CopyInv'
<1> USE DEF mainVars, monVars, workerVars, files
<1>0. UNCHANGED <<worker, task, timeouts>>
  BY Zenon DEF MakeCoordinator
<1>z. CASE timeouts # 0
  BY Zenon, <1>0, <1>z DEF OneCopy, CopyInv
<1>k. \A u \in Task : Fed(u) => Fed(u)'
  <2> SUFFICES ASSUME NEW u \in Task, Fed(u) PROVE Fed(u)'
    OBVIOUS
  <2>0. u.id \in Int /\ next \in Int
    BY Ids DEF TypeOK, TaskId, MapId, ReduceId
  <2>1. CASE MakeMapTask
    BY <2>0, <2>1 DEF MakeMapTask, Loop, Fed
  <2>2. CASE MakeReduceTask
    BY <2>0, <2>2 DEF MakeReduceTask, Loop, Fed
  <2>3. CASE MakeExitTask
    BY <2>0, <2>3 DEF MakeExitTask, Loop, Fed
  <2>4. CASE MapPhaseEnds \/ EnterReduce \/ ReducePhaseEnds \/ Exit
    BY Zenon, <2>4 DEF MapPhaseEnds, EnterReduce, ReducePhaseEnds, Exit, Fed
  <2> QED
    BY Zenon, <2>1, <2>2, <2>3, <2>4 DEF MakeCoordinator
<1>1. CASE timeouts = 0 /\ MakeMapTask
  <2>0. next \in MapId /\ next \in Int
    BY <1>1 DEF MakeMapTask, Loop, TypeOK, MapId
  <2>1. PICK t \in Task : t = [type |-> "map", id |-> next]
    BY Zenon, <2>0, Ids
  <2>2. t.type = "map" /\ t.id = next
    BY <2>1
  <2>3. ~Fed(t)
    BY <1>1, <2>0, <2>2 DEF MakeMapTask, Loop, Fed
  <2>4. Fed(t)'
    BY <1>1, <2>0, <2>2 DEF MakeMapTask, Loop, Fed
  <2> QED
    BY Zenon, <1>0, <1>1, <1>k, <2>1, <2>3, <2>4, SendOnce DEF MakeMapTask
<1>2. CASE timeouts = 0 /\ MakeReduceTask
  <2>0. next \in ReduceId /\ next \in Int
    BY <1>2 DEF MakeReduceTask, Loop, TypeOK, ReduceId
  <2>1. PICK t \in Task : t = [type |-> "reduce", id |-> next]
    BY Zenon, <2>0, Ids
  <2>2. t.type = "reduce" /\ t.id = next
    BY <2>1
  <2>3. ~Fed(t)
    BY <1>2, <2>0, <2>2 DEF MakeReduceTask, Loop, Fed
  <2>4. Fed(t)'
    BY <1>2, <2>0, <2>2 DEF MakeReduceTask, Loop, Fed
  <2> QED
    BY Zenon, <1>0, <1>2, <1>k, <2>1, <2>3, <2>4, SendOnce DEF MakeReduceTask
<1>3. CASE timeouts = 0 /\ MakeExitTask
  <2>0. next \in ReduceId /\ next \in Int
    BY <1>3 DEF MakeExitTask, Loop, TypeOK, ReduceId
  <2>1. PICK t \in Task : t = [type |-> "done", id |-> next]
    BY Zenon, <2>0, Ids
  <2>2. t.type = "done" /\ t.id = next
    BY <2>1
  <2>3. ~Fed(t)
    BY <1>3, <2>0, <2>2 DEF MakeExitTask, Loop, Fed
  <2>4. Fed(t)'
    BY <1>3, <2>0, <2>2 DEF MakeExitTask, Loop, Fed
  <2> QED
    BY Zenon, <1>0, <1>3, <1>k, <2>1, <2>3, <2>4, SendOnce DEF MakeExitTask
<1>4. CASE timeouts = 0 /\ (MapPhaseEnds \/ EnterReduce \/ ReducePhaseEnds \/ Exit)
  <2>1. UNCHANGED TaskChan
    BY Zenon, <1>4 DEF MapPhaseEnds, EnterReduce, ReducePhaseEnds, Exit
  <2> QED
    BY Zenon, <1>0, <1>k, <2>1, NoNewCopy
<1> QED
  BY Zenon, <1>z, <1>1, <1>2, <1>3, <1>4 DEF MakeCoordinator

\* A worker that receives a task had none, and the channel has it no more.
LEMMA ReceiveCopies ==
    ASSUME TypeOK, OneCopy, CopyInv, NEW w \in Worker, Handler(w), Receive(w)
    PROVE  OneCopy' /\ CopyInv'
<1>0. /\ UNCHANGED <<main, next, timeouts>> /\ worker[w] = "asking" /\ worker'[w] = "granted"
      /\ task'[w] = Head(TaskChan)
      /\ \A v \in Worker : v # w => worker'[v] = worker[v] /\ task'[v] = task[v]
  BY Zenon DEF Handler, Receive, TypeOK, mainVars, monVars
<1>1. /\ 1 \in 1..Len(TaskChan) /\ Head(TaskChan) = TaskChan[1]
      /\ \A n \in 1..Len(TaskChan') : /\ n + 1 \in 1..Len(TaskChan)
                                      /\ TaskChan'[n] = TaskChan[n + 1]
  BY Zenon, ReceiveFacts DEF Receive
<1>2. \A n \in 1..Len(TaskChan') : n + 1 # 1
  BY DEF TypeOK
<1>c. \A m, n \in 1..Len(TaskChan') : m + 1 = n + 1 => m = n
  BY DEF TypeOK
<1>3. \A u \in Task : Held(u)' => Held(u)
  BY Zenon, <1>0, <1>1 DEF Held
<1>f. \A u \in Task : Fed(u)' <=> Fed(u)
  BY Zenon, <1>0 DEF Fed
<1>4. CopyInv'
  BY Zenon, <1>0, <1>1, <1>3, <1>f DEF CopyInv
<1>5. ASSUME timeouts = 0, NEW u \in Task
      PROVE  /\ \A m, n \in 1..Len(TaskChan') : TaskChan'[m] = u /\ TaskChan'[n] = u => m = n
             /\ \A v, x \in Worker : task'[v] = u /\ task'[x] = u => v = x
             /\ \A n \in 1..Len(TaskChan'), v \in Worker : ~(TaskChan'[n] = u /\ task'[v] = u)
  <2>1. /\ \A m, n \in 1..Len(TaskChan) : TaskChan[m] = u /\ TaskChan[n] = u => m = n
        /\ \A v, x \in Worker : task[v] = u /\ task[x] = u => v = x
        /\ \A n \in 1..Len(TaskChan), v \in Worker : ~(TaskChan[n] = u /\ task[v] = u)
    BY Zenon, <1>5 DEF OneCopy
  <2>2. \A m, n \in 1..Len(TaskChan') : TaskChan'[m] = u /\ TaskChan'[n] = u => m = n
    BY ZenonT(40), <1>1, <1>c, <2>1
  <2>w. ASSUME task'[w] = u PROVE TaskChan[1] = u /\ \A v \in Worker : task[v] # u
    <3>1. TaskChan[1] = u /\ 1 \in 1..Len(TaskChan)
      BY <1>0, <1>1, <2>w
    <3> QED
      BY Zenon, <2>1, <3>1
  <2>3. ASSUME NEW v \in Worker, NEW x \in Worker, task'[v] = u, task'[x] = u
        PROVE  v = x
    <3>1. CASE v = w \/ x = w
      BY Zenon, <1>0, <2>3, <2>w, <3>1
    <3>2. CASE v # w /\ x # w
      BY Zenon, <1>0, <2>1, <2>3, <3>2
    <3> QED
      BY Zenon, <3>1, <3>2
  <2>4. ASSUME NEW n \in 1..Len(TaskChan'), NEW v \in Worker, TaskChan'[n] = u, task'[v] = u
        PROVE  FALSE
    <3>1. n + 1 \in 1..Len(TaskChan) /\ TaskChan[n + 1] = u
      BY Zenon, <1>1, <2>4
    <3>2. v = w
      BY Zenon, <1>0, <2>1, <2>4, <3>1
    <3> QED
      BY Zenon, <1>1, <1>2, <2>1, <2>4, <2>w, <3>1, <3>2
  <2> QED
    BY Zenon, <2>2, <2>3, <2>4
<1>6. OneCopy'
  BY Zenon, <1>0, <1>5 DEF OneCopy
<1> QED
  BY Zenon, <1>4, <1>6

\* No other step of a handler, the monitor or a worker makes a copy; the
\* monitor's send is a timeout.
LEMMA OthersCopy ==
    ASSUME TypeOK, OneCopy, CopyInv,
           Monitor \/ \E w \in Worker : Handler(w) \/ WorkerStep(w) \/ Crash(w) \/ Restart(w)
    PROVE  OneCopy' /\ CopyInv'
<1> USE DEF mainVars, monVars, workerVars, files
<1>f. UNCHANGED <<main, next>> /\ \A u \in Task : Fed(u)' <=> Fed(u)
  <2>1. UNCHANGED <<main, next>>
    BY Zenon DEF Monitor, Handler, WorkerStep, Crash, Restart
  <2> QED
    BY Zenon, <2>1 DEF Fed
<1>1. CASE Monitor
  <2>0. UNCHANGED <<worker, task>>
    BY Zenon, <1>1 DEF Monitor
  <2>1. CASE UNCHANGED <<TaskChan, timeouts>>
    BY Zenon, <1>f, <2>0, <2>1, NoNewCopy
  <2>2. CASE timeouts' = timeouts + 1
    BY <2>2 DEF TypeOK, OneCopy, CopyInv
  <2> QED
    BY Zenon, <1>1, <2>1, <2>2 DEF Monitor, Tick, Block, EndTick, Fresh, Requeue
<1>2. ASSUME NEW w \in Worker, Handler(w), ~Receive(w) PROVE OneCopy' /\ CopyInv'
  <2>1. UNCHANGED <<TaskChan, timeouts>>
    BY Zenon, <1>2 DEF Handler, AllocateTask, AllocateNothing, MarkLock, MarkTaskDone
  <2>2. \A v \in Worker : v # w => worker'[v] = worker[v] /\ task'[v] = task[v]
    BY Zenon, <1>2 DEF Handler, AllocateTask, AllocateNothing, MarkLock, MarkTaskDone, Reply, TypeOK
  <2>3. task'[w] = task[w] \/ task'[w] = Nil
    BY Zenon, <1>2 DEF Handler, AllocateTask, AllocateNothing, MarkLock, MarkTaskDone, TypeOK
  <2>4. worker'[w] \in {"idle", "asking"} =>
            task'[w] = Nil \/ (task'[w] = task[w] /\ worker[w] \in {"idle", "asking"})
    BY Zenon, <1>2 DEF Handler, AllocateTask, AllocateNothing, MarkLock, MarkTaskDone, Reply, TypeOK
  <2> QED
    BY Zenon, <1>f, <2>1, <2>2, <2>3, <2>4, NoNewCopy
<1>3. ASSUME NEW w \in Worker, WorkerStep(w) \/ Crash(w) \/ Restart(w) PROVE OneCopy' /\ CopyInv'
  <2>1. UNCHANGED <<TaskChan, timeouts>>
    BY Zenon, <1>3 DEF WorkerStep, Crash, Restart
  <2>2. \A v \in Worker : v # w => worker'[v] = worker[v] /\ task'[v] = task[v]
    BY Zenon, <1>3 DEF WorkerStep, Crash, Restart, GetTask, doMapTask, doReduceTask, CallFails, TypeOK
  <2>3. task'[w] = task[w] \/ task'[w] = Nil
    BY Zenon, <1>3 DEF WorkerStep, Crash, Restart, GetTask, doMapTask, doReduceTask, CallFails, TypeOK
  <2>4. worker'[w] \in {"idle", "asking"} =>
            task'[w] = Nil \/ (task'[w] = task[w] /\ worker[w] \in {"idle", "asking"})
    BY Zenon, <1>3 DEF WorkerStep, Crash, Restart, GetTask, doMapTask, doReduceTask, CallFails, TypeOK
  <2> QED
    BY Zenon, <1>f, <2>1, <2>2, <2>3, <2>4, NoNewCopy
<1> QED
  BY Zenon, <1>1, <1>2, <1>3, ReceiveCopies

\* CopyInv holds in every state, and with it OneCopy.
THEOREM TasksAreSentOnce == Spec => [](OneCopy /\ CopyInv)
<1>1. Init => OneCopy /\ CopyInv
  <2> SUFFICES ASSUME Init PROVE OneCopy /\ CopyInv
    OBVIOUS
  <2>1. 1..Len(TaskChan) = {} /\ \A w \in Worker : task[w] = Nil
    BY DEF Init
  <2> QED
    BY ZenonT(40), <2>1, Ids DEF OneCopy, CopyInv, Held
<1>2. TypeOK /\ OneCopy /\ CopyInv /\ [Next]_vars => OneCopy' /\ CopyInv'
  <2>1. ASSUME OneCopy, CopyInv, UNCHANGED vars PROVE OneCopy' /\ CopyInv'
    BY ZenonT(40), <2>1 DEF OneCopy, CopyInv, Held, Fed, vars, mainVars, monVars, workerVars, files
  <2> QED
    BY Zenon, <2>1, MainCopies, OthersCopy DEF Next
<1> QED
  BY <1>1, <1>2, TypeCorrect, PTL DEF Spec

-----------------------------------------------------------------------------
(* Without a timeout, done means finished *)

\* What ReduceInv says of a fed task stays true when no task is fed or deleted.
LEMMA ReduceKept ==
    ASSUME TypeOK, ReduceInv, UNCHANGED <<main, next, Phase, TaskMapState>>,
           timeouts' = 0 => timeouts = 0 /\ \A t \in Task : Held(t)' => Held(t),
           redOut \subseteq redOut', redOut' \subseteq ReduceId,
           \A w \in Worker : worker'[w] \in {"reporting", "marking"} /\ task'[w].type = "reduce" =>
               \/ task'[w].id \in redOut'
               \/ worker[w] \in {"reporting", "marking"} /\ task'[w] = task[w]
    PROVE  ReduceInv'
<1> SUFFICES ASSUME timeouts = 0, timeouts' = 0 PROVE ReduceInv'
  BY Zenon DEF ReduceInv
<1>1. \A i \in MapId : Held([type |-> "map", id |-> i])' => Mapping' /\ TaskMapState'[i] = "map"
  BY Zenon, Ids DEF ReduceInv, Mapping
<1>2. \A i \in ReduceId : Fed([type |-> "reduce", id |-> i])' <=> Fed([type |-> "reduce", id |-> i])
  BY Zenon DEF Fed
<1>3. \A i \in ReduceId : Fed([type |-> "reduce", id |-> i])' => TaskMapState'[i] = "reduce" \/ i \in redOut'
  BY Zenon, <1>2 DEF ReduceInv
<1>4. \A w \in Worker : worker'[w] \in {"reporting", "marking"} /\ task'[w].type = "reduce" =>
          task'[w].id \in redOut'
  BY Zenon DEF ReduceInv
<1>5. /\ main' \in {"waitMap", "enterReduce"} => next' = 0
      /\ Phase' = "done" \/ main' \in {"feedExit", "returned"} => redOut' = ReduceId
  BY Zenon DEF ReduceInv
<1> QED
  BY Zenon, <1>1, <1>3, <1>4, <1>5 DEF ReduceInv

\* MakeCoordinator ends a phase when no task of it is recorded.
LEMMA MainReduces ==
    ASSUME TypeOK, CopyInv, ReduceInv, MakeCoordinator PROVE ReduceInv'
<1> USE DEF mainVars, monVars, workerVars, files
<1>0. UNCHANGED <<worker, task, timeouts, redOut>>
  BY Zenon DEF MakeCoordinator
<1> SUFFICES ASSUME timeouts = 0 PROVE ReduceInv'
  BY Zenon, <1>0 DEF ReduceInv
<1>w. \A w \in Worker : worker'[w] \in {"reporting", "marking"} /\ task'[w].type = "reduce" =>
          task'[w].id \in redOut'
  BY Zenon, <1>0 DEF ReduceInv
<1>n. TaskMapState \in [TaskId -> {"none", "map", "reduce"}] /\ next \in Int
  BY DEF TypeOK, MapId, ReduceId
<1>1. CASE MakeMapTask
  <2>0. next \in MapId /\ main = "feedMap" /\ main' \in {"feedMap", "waitMap"} /\ Phase' = Phase
    BY Zenon, <1>1 DEF MakeMapTask, Loop, TypeOK
  <2>1. PICK t \in Task : t = [type |-> "map", id |-> next]
    BY Zenon, <2>0, Ids
  <2>2. t.type = "map" /\ t.id = next /\ Send(t)
    BY <1>1, <2>1 DEF MakeMapTask
  <2>3. \A u \in Task : Held(u)' => Held(u) \/ u = t
    BY <1>0, <2>2, SendFacts DEF Held
  <2>4. ASSUME NEW i \in MapId, Held([type |-> "map", id |-> i])'
        PROVE  Mapping' /\ TaskMapState'[i] = "map"
    <3>1. TaskMapState[i] = "map" \/ i = next
      <4>1. [type |-> "map", id |-> i] \in Task /\ [type |-> "map", id |-> i].id = i
        BY Zenon, Ids
      <4> QED
        BY Zenon, <2>2, <2>3, <2>4, <4>1 DEF ReduceInv
    <3>2. TaskMapState'[i] = "map"
      BY Zenon, <1>1, <1>n, <3>1, Ids DEF MakeMapTask
    <3> QED
      BY Zenon, <2>0, <3>2 DEF Mapping
  <2>5. \A i \in ReduceId : ~Fed([type |-> "reduce", id |-> i])'
    BY <2>0 DEF Fed
  <2>6. main' \in {"waitMap", "enterReduce"} => next' = 0
    BY <1>1 DEF MakeMapTask, Loop
  <2>7. Phase' = "done" \/ main' \in {"feedExit", "returned"} => redOut' = ReduceId
    BY Zenon, <1>0, <2>0 DEF ReduceInv
  <2> QED
    BY Zenon, <1>w, <2>4, <2>5, <2>6, <2>7 DEF ReduceInv
<1>2. CASE MapPhaseEnds \/ EnterReduce
  <2>0. /\ main \in {"waitMap", "enterReduce"} /\ main' \in {"enterReduce", "feedReduce"}
        /\ next' = next /\ Phase' \in {Phase, "reduce"} /\ UNCHANGED <<TaskMapState, TaskChan>>
    BY Zenon, <1>2 DEF MapPhaseEnds, EnterReduce
  <2>1. next = 0
    BY Zenon, <2>0 DEF ReduceInv
  <2>2. \A i \in MapId : ~Held([type |-> "map", id |-> i])
    BY Zenon, <1>2, Ids DEF MapPhaseEnds, EnterReduce, NoneIn, ReduceInv, Mapping
  <2>3. \A i \in MapId : ~Held([type |-> "map", id |-> i])'
    BY Zenon, <1>0, <2>0, <2>2 DEF Held
  <2>4. \A i \in ReduceId : ~Fed([type |-> "reduce", id |-> i])'
    BY <2>0, <2>1 DEF Fed, ReduceId
  <2>5. Phase' = "done" \/ main' \in {"feedExit", "returned"} => redOut' = ReduceId
    BY Zenon, <1>0, <2>0 DEF ReduceInv
  <2> QED
    BY Zenon, <1>w, <2>0, <2>1, <2>3, <2>4, <2>5 DEF ReduceInv
<1>3. CASE MakeReduceTask
  <2>0. next \in ReduceId /\ main = "feedReduce" /\ main' \in {"feedReduce", "waitReduce"} /\ Phase' = Phase
    BY Zenon, <1>3 DEF MakeReduceTask, Loop, TypeOK
  <2>1. PICK t \in Task : t = [type |-> "reduce", id |-> next]
    BY Zenon, <2>0, Ids
  <2>2. t.type = "reduce" /\ t.id = next /\ Send(t)
    BY <1>3, <2>1 DEF MakeReduceTask
  <2>3. \A u \in Task : Held(u)' => Held(u) \/ u = t
    BY <1>0, <2>2, SendFacts DEF Held
  <2>4. \A i \in MapId : ~Held([type |-> "map", id |-> i])'
    <3> SUFFICES ASSUME NEW i \in MapId, Held([type |-> "map", id |-> i])' PROVE FALSE
      OBVIOUS
    <3>1. [type |-> "map", id |-> i] \in Task /\ [type |-> "map", id |-> i].type = "map"
      BY Zenon, Ids
    <3>2. Held([type |-> "map", id |-> i])
      BY Zenon, <2>2, <2>3, <3>1
    <3> QED
      BY Zenon, <2>0, <3>2 DEF ReduceInv, Mapping
  <2>5. ASSUME NEW i \in ReduceId, Fed([type |-> "reduce", id |-> i])'
        PROVE  TaskMapState'[i] = "reduce" \/ i \in redOut'
    <3>1. i = next \/ Fed([type |-> "reduce", id |-> i])
      BY <1>3, <1>n, <2>0, <2>5 DEF MakeReduceTask, Loop, Fed, ReduceId
    <3>2. TaskMapState'[i] = IF i = next THEN "reduce" ELSE TaskMapState[i]
      BY Zenon, <1>3, <1>n, Ids DEF MakeReduceTask
    <3> QED
      BY Zenon, <1>0, <3>1, <3>2 DEF ReduceInv
  <2>7. /\ Phase' = "done" \/ main' \in {"feedExit", "returned"} => redOut' = ReduceId
        /\ main' \notin {"waitMap", "enterReduce"}
    BY Zenon, <1>0, <2>0 DEF ReduceInv
  <2> QED
    BY Zenon, <1>w, <2>4, <2>5, <2>7 DEF ReduceInv
<1>4. CASE ReducePhaseEnds
  <2>0. /\ main = "waitReduce" /\ main' = "feedExit" /\ UNCHANGED <<TaskMapState, TaskChan, next>>
        /\ NoneIn("reduce")
    BY Zenon, <1>4 DEF ReducePhaseEnds
  <2>1. \A i \in ReduceId : Fed([type |-> "reduce", id |-> i])
    BY <2>0 DEF Fed
  <2>2. redOut = ReduceId
    BY Zenon, <2>0, <2>1, Ids DEF ReduceInv, NoneIn, TypeOK
  <2>3. \A i \in MapId : ~Held([type |-> "map", id |-> i])'
    BY Zenon, <1>0, <2>0 DEF ReduceInv, Mapping, Held
  <2> QED
    BY Zenon, <1>0, <1>w, <2>0, <2>2, <2>3 DEF ReduceInv
<1>5. CASE MakeExitTask \/ Exit
  <2>0. /\ main \in {"feedExit", "returned"} /\ main' \in {"feedExit", "returned"}
        /\ UNCHANGED <<TaskMapState, Phase>>
    BY Zenon, <1>5 DEF MakeExitTask, Exit, Loop
  <2>1. redOut = ReduceId
    BY Zenon, <2>0 DEF ReduceInv
  <2>2. \A i \in MapId : ~Held([type |-> "map", id |-> i])
    BY Zenon, <2>0 DEF ReduceInv, Mapping
  <2>3. \A i \in MapId : ~Held([type |-> "map", id |-> i])'
    <3>1. CASE Exit
      BY Zenon, <1>0, <2>2, <3>1 DEF Exit, Held
    <3>2. CASE MakeExitTask
      <4>1. next \in ReduceId
        BY Zenon, <3>2 DEF MakeExitTask, Loop, TypeOK
      <4>2. PICK t \in Task : t = [type |-> "done", id |-> next]
        BY Zenon, <4>1, Ids
      <4>3. t.type = "done" /\ Send(t)
        BY <3>2, <4>2 DEF MakeExitTask
      <4>4. \A u \in Task : Held(u)' => Held(u) \/ u = t
        BY <1>0, <4>3, SendFacts DEF Held
      <4>5. \A i \in MapId : [type |-> "map", id |-> i] \in Task /\ [type |-> "map", id |-> i] # t
        <5> TAKE i \in MapId
        <5>1. [type |-> "map", id |-> i].type # t.type
          BY <4>3
        <5> QED
          BY Zenon, <5>1, Ids
      <4> QED
        BY Zenon, <2>2, <4>4, <4>5
    <3> QED
      BY Zenon, <1>5, <3>1, <3>2
  <2> QED
    BY Zenon, <1>0, <1>w, <2>0, <2>1, <2>3 DEF ReduceInv
<1> QED
  BY Zenon, <1>1, <1>2, <1>3, <1>4, <1>5 DEF MakeCoordinator

\* A report deletes the one copy of its task.
LEMMA MarkReduces ==
    ASSUME TypeOK, MapInv, OneCopy, CopyInv, ReduceInv, NEW w \in Worker, Handler(w), MarkTaskDone(w)
    PROVE  ReduceInv'
<1>0. /\ UNCHANGED <<main, next, Phase, timeouts, redOut, TaskChan>>
      /\ worker[w] = "marking" /\ worker'[w] \in {"idle", "dead"} /\ task'[w] = Nil
      /\ \A v \in Worker : v # w => worker'[v] = worker[v] /\ task'[v] = task[v]
      /\ TaskMapState' = [TaskMapState EXCEPT ![task[w].id] = "none"]
  BY Zenon DEF Handler, MarkTaskDone, Reply, TypeOK, mainVars, monVars, files
<1> SUFFICES ASSUME timeouts = 0 PROVE ReduceInv'
  BY Zenon, <1>0 DEF ReduceInv
<1>1. PICK t \in Task : t = task[w] /\ t.type \in {"map", "reduce"}
  BY <1>0 DEF MapInv, TypeOK, Nil
<1>2. Held(t) /\ Fed(t)
  BY Zenon, <1>1 DEF Held, CopyInv
<1>3. \A u \in Task : Held(u)' => Held(u) /\ u # t
  <2>1. \A u \in Task : Held(u)' => Held(u)
    BY Zenon, <1>0, Ids DEF Held
  <2>2. /\ \A n \in 1..Len(TaskChan) : TaskChan[n] # t
        /\ \A v \in Worker : v # w => task[v] # t
    BY Zenon, <1>1 DEF OneCopy
  <2>3. ~Held(t)'
    BY Zenon, <1>0, <2>2, Ids DEF Held
  <2> QED
    BY Zenon, <2>1, <2>3
<1>4. TaskMapState \in [TaskId -> {"none", "map", "reduce"}]
  BY Zenon DEF TypeOK
<1>5. \A i \in TaskId : i # t.id => TaskMapState'[i] = TaskMapState[i]
  BY Zenon, <1>0, <1>1, <1>4
<1>6. \A i \in MapId : [type |-> "map", id |-> i] \in Task /\ i \in TaskId
  BY Zenon, Ids
<1>7. ASSUME NEW i \in MapId, Held([type |-> "map", id |-> i])'
      PROVE  Mapping' /\ TaskMapState'[i] = "map"
  <2>1. Mapping /\ TaskMapState[i] = "map"
    BY Zenon, <1>3, <1>6, <1>7 DEF ReduceInv
  <2>2. t.type = "map"
    BY <1>1, <1>2, <2>1 DEF Fed, Mapping
  <2>3. t = [type |-> "map", id |-> t.id]
    BY <2>2 DEF Task
  <2>4. i # t.id
    BY Zenon, <1>3, <1>6, <1>7, <2>3
  <2> QED
    BY Zenon, <1>0, <1>5, <1>6, <2>1, <2>4 DEF Mapping
<1>8. ASSUME NEW i \in ReduceId, Fed([type |-> "reduce", id |-> i])'
      PROVE  TaskMapState'[i] = "reduce" \/ i \in redOut'
  <2>1. Fed([type |-> "reduce", id |-> i]) /\ ~Mapping
    BY <1>0, <1>8 DEF Fed, Mapping
  <2>2. t.type = "reduce"
    <3>1. CASE t.type = "map"
      <4>1. t = [type |-> "map", id |-> t.id] /\ t.id \in MapId
        BY <3>1 DEF Task
      <4> QED
        BY Zenon, <1>2, <2>1, <4>1 DEF ReduceInv
    <3> QED
      BY Zenon, <1>1, <3>1
  <2>3. t.id \in redOut
    BY Zenon, <1>0, <1>1, <2>2 DEF ReduceInv
  <2> QED
    BY Zenon, <1>0, <1>5, <2>1, <2>3, Ids DEF ReduceInv
<1>9. \A v \in Worker : worker'[v] \in {"reporting", "marking"} /\ task'[v].type = "reduce" =>
          task'[v].id \in redOut'
  BY Zenon, <1>0 DEF ReduceInv
<1>10. /\ main' \in {"waitMap", "enterReduce"} => next' = 0
       /\ Phase' = "done" \/ main' \in {"feedExit", "returned"} => redOut' = ReduceId
  BY Zenon, <1>0 DEF ReduceInv
<1> QED
  BY Zenon, <1>7, <1>8, <1>9, <1>10 DEF ReduceInv

\* No other step of a handler, the monitor or a worker deletes a task, a worker
\* reports a reduce task after it has renamed its file, and only a timeout puts
\* something into the channel.
Other ==
    \/ Monitor
    \/ \E w \in Worker :
        (Handler(w) /\ ~MarkTaskDone(w)) \/ WorkerStep(w) \/ Crash(w) \/ Restart(w)

Kept ==
    /\ UNCHANGED <<main, next, Phase, TaskMapState>>
    /\ redOut \subseteq redOut' /\ redOut' \subseteq ReduceId
    /\ \A w \in Worker : worker'[w] \in {"reporting", "marking"} /\ task'[w].type = "reduce" =>
        \/ task'[w].id \in redOut'
        \/ worker[w] \in {"reporting", "marking"} /\ task'[w] = task[w]
    /\ timeouts' = 0 =>
        /\ timeouts = 0
        /\ \A t \in Task : Held(t)' => Held(t)
        /\ Len(TaskChan') <= Len(TaskChan)

LEMMA OtherSteps == ASSUME TypeOK, Other PROVE Kept
<1> USE DEF mainVars, monVars, workerVars, files
<1>r. redOut \subseteq ReduceId /\ Len(TaskChan) <= Len(TaskChan)
  BY DEF TypeOK
<1>1. CASE Monitor
  <2>0. UNCHANGED <<worker, task, redOut, main, next, Phase, TaskMapState>>
    BY Zenon, <1>1 DEF Monitor
  <2>1. CASE UNCHANGED <<TaskChan, timeouts>>
    <3>1. \A t \in Task : Held(t)' => Held(t)
      BY Zenon, <2>0, <2>1 DEF Held
    <3> QED
      BY Zenon, <1>r, <2>0, <2>1, <3>1 DEF Kept
  <2>2. CASE timeouts' = timeouts + 1
    <3>1. timeouts' # 0
      BY <2>2 DEF TypeOK
    <3> QED
      BY Zenon, <1>r, <2>0, <3>1 DEF Kept
  <2> QED
    BY Zenon, <1>1, <2>1, <2>2 DEF Monitor, Tick, Block, EndTick, Fresh, Requeue
<1>2. ASSUME NEW w \in Worker, Handler(w), ~MarkTaskDone(w) PROVE Kept
  <2>1. UNCHANGED <<timeouts, redOut, main, next, Phase, TaskMapState>>
    BY Zenon, <1>2 DEF Handler, Receive, AllocateTask, AllocateNothing, MarkLock
  <2>2. \A v \in Worker : v # w => worker'[v] = worker[v] /\ task'[v] = task[v]
    BY Zenon, <1>2 DEF Handler, Receive, AllocateTask, AllocateNothing, MarkLock, Reply, TypeOK
  <2>3. worker'[w] \in {"reporting", "marking"} =>
            worker[w] \in {"reporting", "marking"} /\ task'[w] = task[w]
    BY Zenon, <1>2 DEF Handler, Receive, AllocateTask, AllocateNothing, MarkLock, Reply, TypeOK
  <2>4. (\A t \in Task : Held(t)' => Held(t)) /\ Len(TaskChan') <= Len(TaskChan)
    <3>1. CASE Receive(w)
      <4>1. task'[w] = Head(TaskChan)
        BY Zenon, <3>1 DEF Receive, TypeOK
      <4>2. /\ 1 \in 1..Len(TaskChan) /\ Head(TaskChan) = TaskChan[1]
            /\ \A n \in 1..Len(TaskChan') :
                   n + 1 \in 1..Len(TaskChan) /\ TaskChan'[n] = TaskChan[n + 1]
        BY Zenon, <3>1, ReceiveFacts DEF Receive
      <4>3. \A t \in Task : Held(t)' => Held(t)
        BY ZenonT(40), <2>2, <4>1, <4>2 DEF Held
      <4>4. Len(TaskChan') <= Len(TaskChan)
        BY <3>1 DEF Receive, TypeOK
      <4> QED
        BY Zenon, <4>3, <4>4
    <3>2. CASE UNCHANGED <<TaskChan, task>>
      BY Zenon, <1>r, <3>2 DEF Held
    <3> QED
      BY Zenon, <1>2, <3>1, <3>2 DEF Handler, AllocateTask, AllocateNothing, MarkLock
  <2> QED
    BY Zenon, <1>r, <2>1, <2>2, <2>3, <2>4 DEF Kept
<1>3. ASSUME NEW w \in Worker, WorkerStep(w) \/ Crash(w) \/ Restart(w) PROVE Kept
  <2>1. UNCHANGED <<TaskChan, timeouts, main, next, Phase, TaskMapState>>
    BY Zenon, <1>3 DEF WorkerStep, Crash, Restart
  <2>2. \A v \in Worker : v # w => worker'[v] = worker[v] /\ task'[v] = task[v]
    BY Zenon, <1>3 DEF WorkerStep, Crash, Restart, GetTask, doMapTask, doReduceTask, CallFails, TypeOK
  <2>3. task'[w] = task[w] \/ task'[w] = Nil
    BY Zenon, <1>3 DEF WorkerStep, Crash, Restart, GetTask, doMapTask, doReduceTask, CallFails, TypeOK
  <2>4. \A t \in Task : Held(t)' => Held(t)
    BY Zenon, <2>1, <2>2, <2>3, Ids DEF Held
  <2>5. redOut \subseteq redOut' /\ redOut' \subseteq ReduceId
    <3>1. TypeOK'
      BY Zenon, <1>3, WorkerType
    <3> QED
      BY Zenon, <1>3, <3>1 DEF WorkerStep, Crash, Restart, GetTask, doMapTask, doReduceTask, CallFails,
         RenameMap, RenameReduce, TypeOK
  <2>6. worker'[w] \in {"reporting", "marking"} /\ task'[w].type = "reduce" =>
            \/ task'[w].id \in redOut'
            \/ worker[w] \in {"reporting", "marking"} /\ task'[w] = task[w]
    BY SMTT(30), <1>3 DEF WorkerStep, Crash, Restart, GetTask, doMapTask, doReduceTask, CallFails,
       RenameMap, RenameReduce, TypeOK
  <2> QED
    BY Zenon, <1>r, <2>1, <2>2, <2>4, <2>5, <2>6 DEF Kept
<1> QED
  BY Zenon, <1>1, <1>2, <1>3 DEF Other

\* ReduceInv holds in every state.
THEOREM ReduceInvariant == Spec => []ReduceInv
<1>1. Init => ReduceInv
  <2> SUFFICES ASSUME Init PROVE ReduceInv
    OBVIOUS
  <2>1. 1..Len(TaskChan) = {} /\ \A w \in Worker : task[w] = Nil /\ worker[w] = "idle"
    BY DEF Init
  <2>2. \A i \in MapId : ~Held([type |-> "map", id |-> i])
    BY Zenon, <2>1, Ids DEF Held
  <2>3. \A i \in ReduceId : ~Fed([type |-> "reduce", id |-> i])
    BY DEF Init, Fed
  <2>4. main = "feedMap" /\ Phase = "map"
    BY Zenon DEF Init
  <2> QED
    BY Zenon, <2>1, <2>2, <2>3, <2>4 DEF ReduceInv
<1>2. TypeOK /\ MapInv /\ OneCopy /\ CopyInv /\ ReduceInv /\ [Next]_vars => ReduceInv'
  <2>1. ASSUME ReduceInv, UNCHANGED vars PROVE ReduceInv'
    BY Zenon, <2>1 DEF ReduceInv, Mapping, Held, Fed, vars, mainVars, monVars, workerVars, files
  <2> QED
    <3>1. ASSUME TypeOK, ReduceInv, Other PROVE ReduceInv'
      BY Zenon, <3>1, OtherSteps, ReduceKept DEF Kept
    <3> QED
      BY Zenon, <2>1, <3>1, MainReduces, MarkReduces DEF Next, Other
<1> QED
  BY <1>1, <1>2, TypeCorrect, MapInvariant, TasksAreSentOnce, PTL DEF Spec

\* As long as no task times out, Done tells mrcoordinator.go the truth.
THEOREM DoneUnlessTimeout == Spec => []FinishedUnlessTimeout
<1>1. ReduceInv => FinishedUnlessTimeout
  BY Zenon DEF ReduceInv, FinishedUnlessTimeout, DoneMeansFinished
<1> QED
  BY <1>1, ReduceInvariant, PTL

-----------------------------------------------------------------------------
(* A task without output is forgotten only by a late report of a map task *)

\* MakeCoordinator records what it feeds.
LEMMA MainReports == ASSUME TypeOK, ReportInv, MakeCoordinator PROVE ReportInv'
<1> USE DEF mainVars, monVars, workerVars, files
<1>0. UNCHANGED <<worker, task, redOut>>
  BY Zenon DEF MakeCoordinator
<1>w. \A w \in Worker : worker'[w] \in {"reporting", "marking"} /\ task'[w].type = "reduce" =>
          task'[w].id \in redOut'
  BY Zenon, <1>0 DEF ReportInv
<1>n. TaskMapState \in [TaskId -> {"none", "map", "reduce"}] /\ next \in Int
  BY DEF TypeOK, MapId, ReduceId
<1>1. CASE MakeMapTask \/ MapPhaseEnds \/ EnterReduce
  <2>1. main' \in {"waitMap", "enterReduce", "feedReduce"} => next' = 0
    BY <1>1 DEF MakeMapTask, MapPhaseEnds, EnterReduce, Loop, ReportInv
  <2>2. main' \in {"feedMap", "waitMap", "enterReduce", "feedReduce"}
    BY Zenon, <1>1 DEF MakeMapTask, MapPhaseEnds, EnterReduce, Loop
  <2>3. \A i \in ReduceId : ~Fed([type |-> "reduce", id |-> i])'
    BY <2>1, <2>2 DEF Fed, ReduceId
  <2> QED
    BY Zenon, <1>w, <2>1, <2>3 DEF ReportInv
<1>2. CASE MakeReduceTask
  <2>0. next \in ReduceId /\ main = "feedReduce" /\ main' \in {"feedReduce", "waitReduce"}
    BY Zenon, <1>2 DEF MakeReduceTask, Loop, TypeOK
  <2>1. ASSUME NEW i \in ReduceId \ MapId, Fed([type |-> "reduce", id |-> i])'
        PROVE  TaskMapState'[i] = "reduce" \/ i \in redOut'
    <3>1. i = next \/ Fed([type |-> "reduce", id |-> i])
      BY <1>2, <1>n, <2>0, <2>1 DEF MakeReduceTask, Loop, Fed, ReduceId
    <3>2. TaskMapState'[i] = IF i = next THEN "reduce" ELSE TaskMapState[i]
      BY Zenon, <1>2, <1>n, Ids DEF MakeReduceTask
    <3> QED
      BY Zenon, <1>0, <3>1, <3>2 DEF ReportInv
  <2> QED
    BY Zenon, <1>w, <2>0, <2>1 DEF ReportInv
<1>3. CASE ReducePhaseEnds \/ MakeExitTask \/ Exit
  <2>1. /\ main \in {"waitReduce", "feedExit", "returned"} /\ main' \in {"feedExit", "returned"}
        /\ TaskMapState' = TaskMapState
    BY Zenon, <1>3 DEF ReducePhaseEnds, MakeExitTask, Exit, Loop
  <2>2. \A i \in ReduceId : Fed([type |-> "reduce", id |-> i])
    BY <2>1 DEF Fed
  <2> QED
    BY Zenon, <1>0, <1>w, <2>1, <2>2 DEF ReportInv
<1> QED
  BY Zenon, <1>1, <1>2, <1>3 DEF MakeCoordinator

\* A report of a map task does not have an id that only a reduce task has.
LEMMA MarkReports ==
    ASSUME TypeOK, MapInv, ReportInv, NEW w \in Worker, Handler(w), MarkTaskDone(w)
    PROVE  ReportInv'
<1>0. /\ UNCHANGED <<main, next, redOut>>
      /\ worker[w] = "marking" /\ worker'[w] \in {"idle", "dead"}
      /\ \A v \in Worker : v # w => worker'[v] = worker[v] /\ task'[v] = task[v]
      /\ TaskMapState' = [TaskMapState EXCEPT ![task[w].id] = "none"]
  BY Zenon DEF Handler, MarkTaskDone, Reply, TypeOK, mainVars, files
<1>1. task[w].id \in MapId \/ task[w].id \in redOut
  <2>1. CASE task[w].type = "map"
    <3>1. task[w] \in Task \cup {Nil}
      BY Zenon DEF TypeOK
    <3> QED
      BY <2>1, <3>1 DEF Task, Nil
  <2>2. CASE task[w].type = "reduce"
    BY Zenon, <1>0, <2>2 DEF ReportInv
  <2> QED
    BY Zenon, <1>0, <2>1, <2>2 DEF MapInv
<1>2. \A i \in ReduceId \ MapId : Fed([type |-> "reduce", id |-> i])' <=> Fed([type |-> "reduce", id |-> i])
  BY Zenon, <1>0 DEF Fed
<1>3. \A i \in TaskId : i # task[w].id => TaskMapState'[i] = TaskMapState[i]
  BY Zenon, <1>0 DEF TypeOK
<1>4. \A i \in ReduceId \ MapId :
          Fed([type |-> "reduce", id |-> i])' => TaskMapState'[i] = "reduce" \/ i \in redOut'
  BY Zenon, <1>0, <1>1, <1>2, <1>3, Ids DEF ReportInv
<1>5. \A v \in Worker : worker'[v] \in {"reporting", "marking"} /\ task'[v].type = "reduce" =>
          task'[v].id \in redOut'
  BY Zenon, <1>0 DEF ReportInv
<1> QED
  BY Zenon, <1>0, <1>4, <1>5 DEF ReportInv

\* ReportInv holds in every state.
THEOREM ReportInvariant == Spec => []ReportInv
<1>1. Init => ReportInv
  <2> SUFFICES ASSUME Init PROVE ReportInv
    OBVIOUS
  <2>1. \A i \in ReduceId : ~Fed([type |-> "reduce", id |-> i])
    BY DEF Init, Fed
  <2>2. main = "feedMap" /\ \A w \in Worker : worker[w] = "idle"
    BY DEF Init
  <2> QED
    BY Zenon, <2>1, <2>2 DEF ReportInv
<1>2. TypeOK /\ MapInv /\ ReportInv /\ [Next]_vars => ReportInv'
  <2>1. ASSUME TypeOK, ReportInv, Other PROVE ReportInv'
    <3>1. Kept
      BY Zenon, <2>1, OtherSteps
    <3>2. \A i \in ReduceId : Fed([type |-> "reduce", id |-> i])' <=> Fed([type |-> "reduce", id |-> i])
      BY Zenon, <3>1 DEF Kept, Fed
    <3> QED
      BY Zenon, <2>1, <3>1, <3>2 DEF ReportInv, Kept
  <2>2. ASSUME ReportInv, UNCHANGED vars PROVE ReportInv'
    BY Zenon, <2>2 DEF ReportInv, Fed, vars, mainVars, monVars, workerVars, files
  <2> QED
    BY Zenon, <2>1, <2>2, MainReports, MarkReports DEF Next, Other
<1> QED
  BY <1>1, <1>2, TypeCorrect, MapInvariant, PTL DEF Spec

\* Recorded tasks are where a worker gets them, and tasks without output are
\* recorded: the exception is a reduce task with the id of a map task that has
\* timed out.
THEOREM TasksAreKept == Spec => []NoTaskLost
<1>1. ASSUME TypeOK, RecordedKept, MapInv, ReduceInv, ReportInv PROVE NoTaskLost
  <2>1. ASSUME NEW t \in Task, t.type # "done", Fed(t), ~Finished(t)
        PROVE  TaskMapState[t.id] = t.type \/ (t.type = "reduce" /\ t.id \in MapId /\ timeouts > 0)
    <3>1. CASE t.type = "map"
      <4>1. t.id \in MapId /\ (main = "feedMap" => t.id < next) /\ t.id \notin mapOut
        BY <2>1, <3>1 DEF Task, Fed, Finished
      <4> QED
        BY Zenon, <1>1, <3>1, <4>1 DEF MapInv
    <3>2. CASE t.type = "reduce"
      <4>1. t.id \in ReduceId /\ t.id \notin redOut /\ t = [type |-> "reduce", id |-> t.id]
        BY <2>1, <3>2 DEF Task, Finished
      <4>2. CASE t.id \notin MapId
        BY Zenon, <1>1, <2>1, <3>2, <4>1, <4>2 DEF ReportInv
      <4>3. CASE timeouts = 0
        BY Zenon, <1>1, <2>1, <3>2, <4>1, <4>3 DEF ReduceInv
      <4>4. timeouts = 0 \/ timeouts > 0
        BY <1>1 DEF TypeOK
      <4> QED
        BY Zenon, <3>2, <4>2, <4>3, <4>4
    <3> QED
      BY <2>1, <3>1, <3>2 DEF Task
  <2> QED
    BY Zenon, <1>1, <2>1 DEF NoTaskLost
<1> QED
  BY <1>1, TypeCorrect, RecordedAreKept, MapInvariant, ReduceInvariant, ReportInvariant, PTL

-----------------------------------------------------------------------------
(* Without a timeout, MakeCoordinator's sends find room *)

\* A loop begins with an empty channel: a task in it would be of the phase that
\* is over, and recorded.
LEMMA EmptyBefore ==
    ASSUME TypeOK, CopyInv, ReduceInv, RoomInv, timeouts = 0, EnterReduce \/ ReducePhaseEnds
    PROVE  Len(TaskChan) = 0
<1> SUFFICES ASSUME Len(TaskChan) # 0 PROVE FALSE
  OBVIOUS
<1>1. 1 \in 1..Len(TaskChan) /\ TaskChan[1] \in Task \cup {Nil}
  BY DEF TypeOK
<1>2. PICK t \in Task : t = TaskChan[1] /\ Held(t) /\ Fed(t)
  BY Zenon, <1>1 DEF CopyInv, Held
<1>3. main \in {"enterReduce", "waitReduce"}
  BY Zenon DEF EnterReduce, ReducePhaseEnds
<1>4. CASE t.type = "map"
  <2>1. t.id \in MapId /\ t = [type |-> "map", id |-> t.id]
    BY <1>4 DEF Task
  <2> QED
    BY Zenon, <1>2, <1>3, <2>1 DEF ReduceInv, Mapping
<1>5. CASE t.type = "reduce"
  <2>1. t.id \in ReduceId /\ t = [type |-> "reduce", id |-> t.id] /\ main # "enterReduce"
    BY <1>2, <1>5 DEF Task, Fed
  <2>2. TaskMapState[t.id] = "reduce"
    BY Zenon, <1>2, <2>1 DEF RoomInv
  <2> QED
    BY Zenon, <2>1, <2>2, Ids DEF EnterReduce, ReducePhaseEnds, NoneIn
<1>6. CASE t.type = "done"
  BY <1>2, <1>3, <1>6 DEF Fed
<1> QED
  BY <1>4, <1>5, <1>6 DEF Task

\* What one turn of a loop does to the length of the channel.
LEMMA LoopRoom ==
    ASSUME TypeOK, NEW here, NEW after, NEW n, NEW t, Loop(here, n, after), Send(t), Len(TaskChan) <= next,
           after \notin {"feedMap", "feedReduce", "feedExit"}
    PROVE  Feeding' => Len(TaskChan') <= next'
<1>1. Len(TaskChan) \in Nat /\ next \in Int /\ Len(TaskChan') = Len(TaskChan) + 1
  BY DEF TypeOK, Send, MapId, ReduceId
<1>2. Feeding' => next' = next + 1
  BY Zenon DEF Loop, Feeding
<1> QED
  BY <1>1, <1>2

LEMMA MainRoom ==
    ASSUME TypeOK, OneCopy, CopyInv, ReduceInv, RoomInv, MakeCoordinator PROVE RoomInv'
<1> USE DEF mainVars, monVars, workerVars, files
<1>0. UNCHANGED <<worker, task, timeouts>>
  BY Zenon DEF MakeCoordinator
<1> SUFFICES ASSUME timeouts = 0 PROVE RoomInv'
  BY Zenon, <1>0 DEF RoomInv
<1>c. \A u \in Task : Held(u)' => Fed(u)'
  BY Zenon, <1>0, MainCopies DEF CopyInv
<1>t. \A i \in ReduceId : [type |-> "reduce", id |-> i] \in Task /\ i \in TaskId
  BY Zenon, Ids
<1>1. CASE MakeMapTask \/ MapPhaseEnds \/ EnterReduce
  <2>1. main' \in {"feedMap", "waitMap", "enterReduce", "feedReduce"} /\ (main' = "feedReduce" => next' = 0)
    BY Zenon, <1>1 DEF MakeMapTask, MapPhaseEnds, EnterReduce, Loop, ReduceInv
  <2>2. \A i \in ReduceId : ~Fed([type |-> "reduce", id |-> i])'
    BY <2>1 DEF Fed, ReduceId
  <2>3. Feeding' => Len(TaskChan') <= next'
    <3>1. CASE MakeMapTask
      <4>1. Len(TaskChan) <= next
        BY Zenon, <3>1 DEF MakeMapTask, Loop, Feeding, RoomInv
      <4> QED
        BY Zenon, <3>1, <4>1, LoopRoom DEF MakeMapTask
    <3>2. CASE MapPhaseEnds
      BY Zenon, <3>2 DEF MapPhaseEnds, Feeding
    <3>3. CASE EnterReduce
      <4>1. TaskChan' = TaskChan /\ next' = 0
        BY Zenon, <2>1, <3>3 DEF EnterReduce
      <4>2. Len(TaskChan) = 0
        BY Zenon, <3>3, EmptyBefore
      <4> QED
        BY <4>1, <4>2
    <3> QED
      BY Zenon, <1>1, <3>1, <3>2, <3>3
  <2> QED
    BY Zenon, <1>c, <1>t, <2>2, <2>3 DEF RoomInv
<1>2. CASE MakeReduceTask
  <2>0. next \in ReduceId /\ main = "feedReduce"
    BY Zenon, <1>2 DEF MakeReduceTask, Loop, TypeOK
  <2>1. PICK t \in Task : t = [type |-> "reduce", id |-> next]
    BY Zenon, <2>0, Ids
  <2>2. t.id = next /\ Send(t)
    BY <1>2, <2>1 DEF MakeReduceTask
  <2>3. \A u \in Task : Held(u)' => Held(u) \/ u = t
    BY <1>0, <2>2, SendFacts DEF Held
  <2>4. ASSUME NEW i \in ReduceId, Held([type |-> "reduce", id |-> i])'
        PROVE  TaskMapState'[i] = "reduce"
    <3>1. [type |-> "reduce", id |-> i].id = i
      OBVIOUS
    <3>2. TaskMapState[i] = "reduce" \/ i = next
      BY Zenon, <1>t, <2>2, <2>3, <2>4, <3>1 DEF RoomInv
    <3> QED
      BY Zenon, <1>2, <1>t, <3>2 DEF MakeReduceTask, TypeOK
  <2>5. Feeding' => Len(TaskChan') <= next'
    BY Zenon, <1>2, <2>0, LoopRoom DEF MakeReduceTask, Feeding, RoomInv
  <2> QED
    BY Zenon, <2>4, <2>5 DEF RoomInv
<1>3. CASE ReducePhaseEnds \/ Exit
  <2>1. UNCHANGED <<TaskChan, TaskMapState, next>>
    BY Zenon, <1>3 DEF ReducePhaseEnds, Exit
  <2>2. \A i \in ReduceId : Held([type |-> "reduce", id |-> i])' => TaskMapState'[i] = "reduce"
    BY Zenon, <1>0, <2>1 DEF RoomInv, Held
  <2>3. Feeding' => Len(TaskChan') <= next'
    <3>1. CASE ReducePhaseEnds
      <4>1. Len(TaskChan) = 0
        BY Zenon, <3>1, EmptyBefore
      <4>2. next \in ReduceId
        BY Zenon, <3>1 DEF ReducePhaseEnds, TypeOK
      <4> QED
        BY <2>1, <4>1, <4>2 DEF ReduceId
    <3>2. CASE Exit
      BY Zenon, <3>2 DEF Exit, Feeding
    <3> QED
      BY Zenon, <1>3, <3>1, <3>2
  <2> QED
    BY Zenon, <2>2, <2>3 DEF RoomInv
<1>4. CASE MakeExitTask
  <2>0. next \in ReduceId /\ main = "feedExit" /\ TaskMapState' = TaskMapState
    BY Zenon, <1>4 DEF MakeExitTask, Loop, TypeOK
  <2>1. PICK t \in Task : t = [type |-> "done", id |-> next]
    BY Zenon, <2>0, Ids
  <2>2. t.type = "done" /\ Send(t)
    BY <1>4, <2>1 DEF MakeExitTask
  <2>3. \A u \in Task : Held(u)' => Held(u) \/ u = t
    BY <1>0, <2>2, SendFacts DEF Held
  <2>4. ASSUME NEW i \in ReduceId, Held([type |-> "reduce", id |-> i])'
        PROVE  TaskMapState'[i] = "reduce"
    <3>1. [type |-> "reduce", id |-> i].type # t.type
      BY <2>2
    <3> QED
      BY Zenon, <1>t, <2>0, <2>3, <2>4, <3>1 DEF RoomInv
  <2>5. Feeding' => Len(TaskChan') <= next'
    BY Zenon, <1>4, <2>0, LoopRoom DEF MakeExitTask, Feeding, RoomInv
  <2> QED
    BY Zenon, <2>4, <2>5 DEF RoomInv
<1> QED
  BY Zenon, <1>1, <1>2, <1>3, <1>4 DEF MakeCoordinator

\* A report deletes its own task, and it is the last copy.
LEMMA MarkRoom ==
    ASSUME TypeOK, MapInv, OneCopy, CopyInv, ReduceInv, RoomInv, NEW w \in Worker, Handler(w), MarkTaskDone(w)
    PROVE  RoomInv'
<1>0. /\ UNCHANGED <<main, next, timeouts, TaskChan>> /\ worker[w] = "marking" /\ task'[w] = Nil
      /\ \A v \in Worker : v # w => task'[v] = task[v]
      /\ TaskMapState' = [TaskMapState EXCEPT ![task[w].id] = "none"]
  BY Zenon DEF Handler, MarkTaskDone, TypeOK, mainVars, monVars
<1> SUFFICES ASSUME timeouts = 0 PROVE RoomInv'
  BY Zenon, <1>0 DEF RoomInv
<1>1. PICK t \in Task : t = task[w] /\ t.type \in {"map", "reduce"}
  BY <1>0 DEF MapInv, TypeOK, Nil
<1>2. Held(t)
  BY Zenon, <1>1 DEF Held
<1>3. \A u \in Task : Held(u)' => Held(u) /\ u # t
  <2>1. \A u \in Task : Held(u)' => Held(u)
    BY Zenon, <1>0, Ids DEF Held
  <2>2. /\ \A n \in 1..Len(TaskChan) : TaskChan[n] # t
        /\ \A v \in Worker : v # w => task[v] # t
    BY Zenon, <1>1 DEF OneCopy
  <2>3. ~Held(t)'
    BY Zenon, <1>0, <2>2, Ids DEF Held
  <2> QED
    BY Zenon, <2>1, <2>3
<1>4. ASSUME NEW i \in ReduceId, Held([type |-> "reduce", id |-> i])'
      PROVE  TaskMapState'[i] = "reduce"
  <2>0. [type |-> "reduce", id |-> i] \in Task /\ i \in TaskId
    BY Zenon, Ids
  <2>1. Held([type |-> "reduce", id |-> i]) /\ [type |-> "reduce", id |-> i] # t
    BY Zenon, <1>3, <1>4, <2>0
  <2>2. TaskMapState[i] = "reduce"
    BY Zenon, <2>1 DEF RoomInv
  <2>3. ~Mapping
    <3>1. Fed([type |-> "reduce", id |-> i])
      BY Zenon, <2>0, <2>1 DEF CopyInv
    <3> QED
      BY <3>1 DEF Fed, Mapping
  <2>4. t.type = "reduce"
    <3>1. CASE t.type = "map"
      <4>1. t = [type |-> "map", id |-> t.id] /\ t.id \in MapId
        BY <3>1 DEF Task
      <4> QED
        BY Zenon, <1>2, <2>3, <4>1 DEF ReduceInv
    <3> QED
      BY Zenon, <1>1, <3>1
  <2>5. i # t.id
    BY <2>1, <2>4 DEF Task
  <2> QED
    BY Zenon, <1>0, <1>1, <2>0, <2>2, <2>5 DEF TypeOK
<1>5. Feeding' => Len(TaskChan') <= next'
  BY Zenon, <1>0 DEF RoomInv, Feeding
<1> QED
  BY Zenon, <1>4, <1>5 DEF RoomInv

\* RoomInv holds in every state.
THEOREM RoomInvariant == Spec => []RoomInv
<1>1. Init => RoomInv
  <2> SUFFICES ASSUME Init PROVE RoomInv
    OBVIOUS
  <2>1. 1..Len(TaskChan) = {} /\ Len(TaskChan) <= next /\ \A w \in Worker : task[w] = Nil
    BY DEF Init
  <2> QED
    BY Zenon, <2>1, Ids DEF RoomInv, Held
<1>2. TypeOK /\ MapInv /\ OneCopy /\ CopyInv /\ ReduceInv /\ RoomInv /\ [Next]_vars => RoomInv'
  <2>1. ASSUME TypeOK, RoomInv, Other PROVE RoomInv'
    <3>1. Kept
      BY Zenon, <2>1, OtherSteps
    <3> SUFFICES ASSUME timeouts' = 0 PROVE RoomInv'
      BY Zenon DEF RoomInv
    <3>2. \A i \in ReduceId : Held([type |-> "reduce", id |-> i])' => TaskMapState'[i] = "reduce"
      BY Zenon, <2>1, <3>1, Ids DEF RoomInv, Kept
    <3>3. Feeding' => Len(TaskChan') <= next'
      <4>1. Len(TaskChan) \in Nat /\ next \in Int
        BY <2>1 DEF TypeOK, MapId, ReduceId
      <4>2. TypeOK'
        BY Zenon, <2>1, TypeStep DEF Next, Other
      <4>3. Len(TaskChan') \in Nat
        BY <4>2 DEF TypeOK
      <4>4. /\ Feeding' <=> Feeding /\ next' = next
            /\ Len(TaskChan') <= Len(TaskChan) /\ (Feeding => Len(TaskChan) <= next)
        BY Zenon, <2>1, <3>1 DEF RoomInv, Kept, Feeding
      <4> QED
        BY <4>1, <4>3, <4>4
    <3> QED
      BY Zenon, <3>2, <3>3 DEF RoomInv
  <2>2. ASSUME RoomInv, UNCHANGED vars PROVE RoomInv'
    BY Zenon, <2>2 DEF RoomInv, Held, Feeding, vars, mainVars, monVars, workerVars, files
  <2> QED
    BY Zenon, <2>1, <2>2, MainRoom, MarkRoom DEF Next, Other
<1> QED
  BY <1>1, <1>2, TypeCorrect, MapInvariant, TasksAreSentOnce, ReduceInvariant, PTL DEF Spec

\* No send of MakeCoordinator blocks when no task has timed out and the channel
\* has a place for each reduce task.
THEOREM SendsFindRoom == Spec => []NoSendBlocks
<1>1. TypeOK /\ RoomInv => NoSendBlocks
  BY DEF TypeOK, RoomInv, NoSendBlocks, Feeding, MapId, ReduceId
<1> QED
  BY <1>1, TypeCorrect, RoomInvariant, PTL
=============================================================================
