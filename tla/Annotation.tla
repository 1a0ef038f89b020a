----------------------------- MODULE Annotation -----------------------------
(***************************************************************************)
(* The timeline of faults that tester1/annotation.go draws beside a        *)
(* history, composed with the group of servers that the faults happen to.  *)
(* Tests change the group and then call AnnotateConnection, AnnotateShut-  *)
(* down and the like, which keep a copy of the group's state of their own  *)
(* (FrameworkInfo) and open and close the annotation of the current fault. *)
(* "The current annotation API for failures is very hacky": what it shows  *)
(* is the state of the network only if the two never part.                 *)
(*                                                                         *)
(* Every step is a change that a test makes together with the calls that   *)
(* annotate it, and takes place at a time of its own.  There is one tag,   *)
(* TAG_PARTITION; a text is the parts and the crashed servers it lists.    *)
(***************************************************************************)
EXTENDS ServerGrp, Integers

CONSTANT MaxTime   \* bound: steps of one test

ASSUME TimeAssumption == MaxTime \in Nat

VARIABLES
    an,          \* the global annotation and finfo, see Info
    parted,      \* the test is using Partition
    was          \* the network before each step so far; Len(was) is the time

vars == <<grpVars, an, parted, was>>

now == Len(was)

\* timestamp() in the next step, which is later than all before.
t == now + 1

-----------------------------------------------------------------------------
(* The annotations *)

\* A text: servers in parts that cannot reach each other, and crashed servers.
Text(parts, crash) == [parts |-> parts \ {{}}, crash |-> crash]

NoText == Text({}, {})

Texts == [parts : SUBSET SUBSET Server, crash : SUBSET Server]

\* The network as it is, in the same terms: the running servers by who is
\* linked with whom, and the servers that are down.
Network ==
    LET running == {i \in Server : up[i]}
    IN  Text({{j \in running : i = j \/ enabled[i][j]} : i \in running}, Server \ running)

Healthy == Text({Server}, {})

\* annotations and continuous of Annotation, for the one tag: a set of closed
\* annotations, as their order does not matter, and a set of at most one open
\* one; and FrameworkInfo's copy of the state.
Info ==
    [annotations : SUBSET [Start : Nat, End : Nat, Description : Texts],
     continuous  : SUBSET [start : Nat, desp : Texts],
     connected   : [Server -> BOOLEAN],
     crashed     : [Server -> BOOLEAN]]

\* mkAnnotation, or clear, and mkFrameworkInfo.
NewInfo ==
    [annotations |-> {}, continuous |-> {},
     connected |-> [i \in Server |-> TRUE], crashed |-> [i \in Server |-> FALSE]]

\* What concretizing an open annotation adds.
Closed(c) == [Start |-> c.start, End |-> t, Description |-> c.desp]

\* Fault: the open annotation is replaced, not closed.
annotateContinuousColorOver(a, text) ==
    [a EXCEPT !.continuous = {[start |-> t, desp |-> text]}]

\* annotateContinuousColor closes what is open and opens the new text.
annotateContinuousColor(a, text) ==
    [a EXCEPT !.annotations = @ \cup {Closed(c) : c \in a.continuous},
              !.continuous = {[start |-> t, desp |-> text]}]

\* annotateContinuousEnd closes what is open; when nothing is, it closes the
\* zero value that the map returns all the same.
annotateContinuousEnd(a) ==
    LET open == IF a.continuous = {} THEN {[start |-> 0, desp |-> NoText]} ELSE a.continuous
    IN  [a EXCEPT !.annotations = @ \cup {Closed(c) : c \in open}, !.continuous = {}]

\* annotateFault shows the copy's fault, if it has one: each disconnected server
\* is a part of its own.
IsFault(a) == \E i \in Server : a.crashed[i] \/ ~a.connected[i]

FaultText(a) ==
    LET crash == {i \in Server : a.crashed[i]}
        conn  == {i \in Server \ crash : a.connected[i]}
        alone == {i \in Server \ crash : ~a.connected[i]}
    IN  Text({{i} : i \in alone} \cup {conn}, crash)

annotateFault(a) ==
    IF IsFault(a) THEN annotateContinuousColor(a, FaultText(a)) ELSE annotateContinuousEnd(a)

\* Fault: annotates also when nothing has changed.
AnnotateAlways(a, b) == annotateFault(b)

\* The calls that change the copy annotate when it is not what it was.
IfChanged(a, b) == IF a = b THEN a ELSE annotateFault(b)

AnnotateConnection(a, conn) == IfChanged(a, [a EXCEPT !.connected = conn])

SetCrashed(a, s, b) == [a EXCEPT !.crashed = [i \in Server |-> IF i \in s THEN b ELSE @[i]]]

AnnotateShutdown(a, s) == IfChanged(a, SetCrashed(a, s, TRUE))
AnnotateRestart(a, s)  == IfChanged(a, SetCrashed(a, s, FALSE))

AnnotateTwoPartitions(a, p1, p2) == annotateContinuousColor(a, Text({p1, p2}, {}))

\* Fault: the copy of the state stays as it is.
AnnotateClearFailureKept(a) == annotateContinuousEnd(a)

AnnotateClearFailure(a) ==
    annotateContinuousEnd([a EXCEPT !.connected = NewInfo.connected,
                                    !.crashed = NewInfo.crashed])

-----------------------------------------------------------------------------
(* What tests do *)

Init ==
    /\ GrpInit
    /\ an = NewInfo
    /\ parted = FALSE
    /\ was = <<>>

\* A step of the test that annotates with the result a.
Step(a) ==
    /\ now < MaxTime
    /\ was' = Append(was, Network)
    /\ an' = a

ConnectOneAnnotated(i) ==
    /\ ~parted /\ ConnectOne(i)
    /\ Step(AnnotateConnection(an, connected'))
    /\ UNCHANGED parted

DisconnectAllAnnotated(i) ==
    /\ ~parted /\ DisconnectAll(i)
    /\ Step(AnnotateConnection(an, connected'))
    /\ UNCHANGED parted

ShutdownServerAnnotated(i) ==
    /\ ~parted /\ ShutdownServer(i)
    /\ Step(AnnotateShutdown(an, {i}))
    /\ UNCHANGED parted

\* Tests that disconnect servers annotate the connections after a restart.
RestartAnnotated(i) ==
    /\ ~parted /\ Restart(i)
    /\ Step(AnnotateConnection(AnnotateRestart(an, {i}), connected'))
    /\ UNCHANGED parted

\* Shutdown of the whole group and AnnotateShutdownAll.
Shutdown ==
    /\ ~parted /\ \A i \in Server : up[i]
    /\ up' = [i \in Server |-> FALSE]
    /\ connected' = [i \in Server |-> FALSE]
    /\ enabled' = [i \in Server |-> [j \in Server |-> FALSE]]
    /\ Step(AnnotateShutdown(an, Server))
    /\ UNCHANGED parted

\* StartServers, with AnnotateRestartAll in tests that have not disconnected
\* servers, with AnnotateClearFailure in kvraft1's.
StartServersAnnotated ==
    /\ StartServers
    /\ \/ an.connected = NewInfo.connected /\ Step(AnnotateRestart(an, Server))
       \/ Step(AnnotateClearFailure(an))
    /\ UNCHANGED parted

\* Partition, among servers that are up and connected.
PartitionAnnotated(s) ==
    /\ parted \/ Network = Healthy
    /\ Partitioner(s)
    /\ Step(AnnotateTwoPartitions(an, s, Server \ s))
    /\ parted' = TRUE

\* ConnectAll and AnnotateClearFailure, once the partitioner has stopped.  It may
\* have been told to before its first partition.
Heal ==
    /\ parted \/ Network = Healthy
    /\ SetNet(connectAll(Net)) /\ UNCHANGED up
    /\ Step(AnnotateClearFailure(an))
    /\ parted' = FALSE

\* The next test: a new group, AnnotateTest.
AnnotateTest ==
    /\ was # <<>>
    /\ up' = [i \in Server |-> TRUE] /\ SetNet(NewNet)
    /\ parted' = FALSE /\ was' = <<>>
    /\ an' = NewInfo

Next ==
    \/ \E i \in Server :
        \/ ConnectOneAnnotated(i) \/ DisconnectAllAnnotated(i)
        \/ ShutdownServerAnnotated(i) \/ RestartAnnotated(i)
    \/ Shutdown \/ StartServersAnnotated
    \/ \E s \in SUBSET Server : PartitionAnnotated(s)
    \/ Heal
    \/ AnnotateTest

Spec == Init /\ [][Next]_vars

-----------------------------------------------------------------------------
(* Properties *)

TypeOK ==
    /\ an \in Info
    /\ parted \in BOOLEAN
    /\ was \in Seq(Texts) /\ now <= MaxTime

\* The annotations that show something: the zero value has neither time nor text.
Faults(a) == {d \in a.annotations : d.Start > 0 \/ d.Description # NoText}

\* The fault that the timeline shows for the time before step n.
Shown(n) ==
    {c.Description : c \in {d \in Faults(an) : d.Start < n /\ n <= d.End}}
    \cup {c.desp : c \in {d \in an.continuous : d.start < n}}

\* The timeline tells the truth: for every moment of the test, up to now, it
\* shows the network as it was, and shows something whenever the network was not
\* whole, whatever the test has disconnected, partitioned, crashed and restarted.
TimelineTrue ==
    \A n \in 1..t :
        LET net == IF n <= now THEN was[n] ELSE Network
        IN  Shown(n) \subseteq {net} /\ (net # Healthy => Shown(n) # {})

\* The annotations of a that were not there before are of faults that have begun.
Begun(a) == \A d \in a.annotations \ an.annotations : 0 < d.Start /\ d.Start <= d.End

\* "Nothing to end since there's no on-going continuous annotation for tag", says
\* annotateContinuousEnd, and adds the zero value to the timeline.  No other step
\* of a test gets there than ending the failures of a partitioner that was stopped
\* before its first partition: every other annotation has a beginning.
FaultsBegin == [][Begun(an') \/ (Heal /\ ~parted)]_vars

-----------------------------------------------------------------------------
(* Why the timeline is true: the inductive invariant *)

\* One annotation is open, and has this text.
Open(a, text) == \E c \in a.continuous : a.continuous = {c} /\ c.desp = text

\* What is open is the annotation of the copy's fault, if it has one.
Annotated(a) ==
    IF IsFault(a) THEN Open(a, FaultText(a)) ELSE a.continuous = {}

\* The annotations, closed and open, are of the times w, and leave no fault out.
Timeline(a, w) ==
    /\ \A d \in Faults(a) :
          /\ 0 < d.Start /\ d.Start <= d.End /\ d.End <= Len(w)
          /\ \A n \in 1..Len(w) : d.Start < n /\ n <= d.End => w[n] = d.Description
    /\ \A c \in a.continuous :
          /\ 0 < c.start /\ c.start <= Len(w)
          /\ \A n \in 1..Len(w) : c.start < n => w[n] = c.desp
    /\ \A n \in 1..Len(w) : w[n] # Healthy =>
          \/ \E d \in Faults(a) : d.Start < n /\ n <= d.End
          \/ \E c \in a.continuous : c.start < n

\* The copy is that of the group as far as running servers go.
CopyTrue ==
    \A i \in Server : (an.crashed[i] <=> ~up[i]) /\ (up[i] => (an.connected[i] <=> connected[i]))

\* The inductive invariant.  While the test partitions, the open annotation shows
\* the network; at other times it shows the copy, and the copy is true.
TimelineInv ==
    /\ Timeline(an, was)
    /\ IF parted
       THEN (\A i \in Server : up[i]) /\ Open(an, Network)
       ELSE Precise /\ CopyTrue /\ Annotated(an)
=============================================================================
