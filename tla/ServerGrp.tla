------------------------------ MODULE ServerGrp ------------------------------
(***************************************************************************)
(* Who can talk to whom in a group of servers: tester1/group.go and srv.go *)
(* switch the client ends between the servers on and off one by one, while *)
(* tests disconnect, partition, shut down and restart servers.             *)
(***************************************************************************)
EXTENDS Naturals, FiniteSets, Sequences, Functions

CONSTANT N       \* servers in the group

\* MakePartition repeats server 0 in a group of even size and indexes out of
\* range in a group of one; the tests use 3, 5 and 7 servers.
ASSUME GrpAssumption == N \in Nat /\ N > 1 /\ N % 2 = 1

Server == 0..(N - 1)

VARIABLES
    connected,   \* ServerGrp.connected
    enabled,     \* Network.enabled of srvs[i].endNames[j], the end from i to j
    up           \* is the server registered with the network?

grpVars == <<connected, enabled, up>>

\* What connect and disconnect change, as a value that loops can pass on.
Net == [connected |-> connected, enabled |-> enabled]

SetNet(net) == connected' = net.connected /\ enabled' = net.enabled

GrpTypeOK ==
    /\ connected \in [Server -> BOOLEAN]
    /\ enabled \in [Server -> [Server -> BOOLEAN]]
    /\ up \in [Server -> BOOLEAN]

-----------------------------------------------------------------------------
\* The ends between i and the servers of js, in both directions, get value b.
Switch(en, i, js, b) ==
    [k \in Server |-> [l \in Server |->
        IF (k = i /\ l \in js) \/ (l = i /\ k \in js) THEN b ELSE en[k][l]]]

\* ServerGrp.connect: i is on the net, and linked with those of to that are.
connect(net, i, to) ==
    LET conn == [net.connected EXCEPT ![i] = TRUE]
    IN  [connected |-> conn,
         enabled   |-> Switch(net.enabled, i, {j \in to : conn[j]}, TRUE)]

\* Fault: the server stays marked as connected.
disconnectUnmarked(net, i, from) ==
    [connected |-> net.connected,
     enabled   |-> Switch(net.enabled, i, from, FALSE)]

\* Fault: the incoming ends stay on.
disconnectOut(net, i, from) ==
    [connected |-> [net.connected EXCEPT ![i] = FALSE],
     enabled   |-> [net.enabled EXCEPT ![i] =
                       [l \in Server |-> l \notin from /\ net.enabled[i][l]]]]

\* ServerGrp.disconnect: i is off the net, and cut off from the servers of from.
disconnect(net, i, from) ==
    [connected |-> [net.connected EXCEPT ![i] = FALSE],
     enabled   |-> Switch(net.enabled, i, from, FALSE)]

\* The loops below are functions of the number of turns made so far.
\* ConnectAll connects server after server.
connectAll(net) ==
    LET turn[n \in 0..N] ==
            IF n = 0 THEN net ELSE connect(turn[n - 1], n - 1, Server)
    IN  turn[N]

\* Fault: the first half of the loop body is forgotten.
separateNot(net, p, q) ==
    LET turn[n \in 0..Len(p)] ==
            IF n = 0 THEN net ELSE connect(turn[n - 1], p[n], Range(p))
    IN  turn[Len(p)]

\* One of the two loops of Partition.
separate(net, p, q) ==
    LET turn[n \in 0..Len(p)] ==
            IF n = 0 THEN net
            ELSE connect(disconnect(turn[n - 1], p[n], Range(q)), p[n], Range(p))
    IN  turn[Len(p)]

\* The loops of Partitioner and MakePartition that add the servers of s to a slice.
InOrder(s) ==
    LET turn[n \in 0..N] ==
            IF n = 0 THEN <<>>
            ELSE IF n - 1 \in s THEN Append(turn[n - 1], n - 1) ELSE turn[n - 1]
    IN  turn[N]

\* Fault: the leader ends up among the servers of the majority.
MakePartitionMajority(l) ==
    LET others == InOrder(Server \ {l})
    IN  <<Append(SubSeq(others, 1, N \div 2), l),
          SubSeq(others, N \div 2 + 1, N - 1)>>

\* MakePartition: of the servers other than l, the first N/2 + 1 make up the
\* majority.
MakePartition(l) ==
    LET others == InOrder(Server \ {l})
    IN  <<SubSeq(others, 1, N \div 2 + 1),
          Append(SubSeq(others, N \div 2 + 2, N - 1), l)>>

-----------------------------------------------------------------------------
(* What tests do *)

ConnectOne(i) ==
    /\ SetNet(connect(Net, i, Server))
    /\ UNCHANGED up

\* Of any server, also of one that is down.
DisconnectAll(i) ==
    /\ SetNet(disconnect(Net, i, Server))
    /\ UNCHANGED up

ShutdownServer(i) ==
    /\ up[i]
    /\ SetNet(disconnect(Net, i, Server))
    /\ up' = [up EXCEPT ![i] = FALSE]

\* StartServer makes the server new ends, which are disabled.  Restart, in
\* raft1/test.go, then connects all servers; so does StartServers.
StartEnds(net, i) ==
    [net EXCEPT !.enabled[i] = [j \in Server |-> FALSE]]

\* The loop of start.
startAll(net) ==
    LET turn[n \in 0..N] ==
            IF n = 0 THEN net ELSE StartEnds(turn[n - 1], n - 1)
    IN  turn[N]

Restart(i) ==
    /\ ~up[i]
    /\ SetNet(connectAll(StartEnds(Net, i)))
    /\ up' = [up EXCEPT ![i] = TRUE]

\* Shutdown of the whole group, then StartServers.
StartServers ==
    /\ \A i \in Server : ~up[i]
    /\ SetNet(connectAll(startAll(Net)))
    /\ up' = [i \in Server |-> TRUE]

\* Partitions are made among running servers: at random by Partitioner of
\* kvtest1, or around the leader.
Partition(p1, p2) ==
    /\ \A i \in Server : up[i]
    /\ SetNet(separate(separate(Net, p1, p2), p2, p1))
    /\ UNCHANGED up

Partitioner(s) == Partition(InOrder(s), InOrder(Server \ s))

PartitionLeader(l) == Partition(MakePartition(l)[1], MakePartition(l)[2])

-----------------------------------------------------------------------------
\* makeSrvGrp, StartServers
NewNet ==
    LET off == [i \in Server |-> FALSE]
    IN  connectAll([connected |-> off, enabled |-> [i \in Server |-> off]])

GrpInit ==
    /\ up = [i \in Server |-> TRUE]
    /\ connected = NewNet.connected /\ enabled = NewNet.enabled

OneServer ==
    \/ \E i \in Server :
        ConnectOne(i) \/ DisconnectAll(i) \/ ShutdownServer(i) \/ Restart(i)
    \/ StartServers

GrpNext ==
    \/ OneServer
    \/ \E s \in SUBSET Server : Partitioner(s)
    \/ \E l \in Server : PartitionLeader(l)

GrpSpec == GrpInit /\ [][GrpNext]_grpVars

-----------------------------------------------------------------------------
(* Properties *)

\* Links work both ways or not at all, though each direction is an end of its
\* own that group.go switches separately, and only between servers that are on
\* the net: one that is off it has no working end in either direction.
LinksMutual ==
    \A i, j \in Server : enabled[i][j] => enabled[j][i] /\ connected[i]

\* Partition joins each side completely and cuts every link between the two,
\* whatever was connected before.
PartitionExact ==
    [][\A s \in SUBSET Server : Partitioner(s) =>
        \A i, j \in Server : enabled'[i][j] = (i \in s <=> j \in s)]_grpVars

\* MakePartition and Partition leave the leader with a minority and the others
\* of the majority with each other.
LeaderCutOff ==
    [][\A l \in Server : PartitionLeader(l) =>
        LET side == {j \in Server : enabled'[l][j]}
        IN  /\ 2 * Cardinality(side) < N
            /\ \A i, j \in Server \ side : enabled'[i][j]]_grpVars

\* Two servers are linked just when both are marked as connected.
Precise ==
    \A i, j \in Server : enabled[i][j] = (connected[i] /\ connected[j])

\* "The connected field of ServerGrp (in group.go) is precise if and only if the
\* ServerGrp.Partition is not used" (annotation.go): it is at the start, and all
\* the other operations keep it so.
StaysPrecise ==
    Precise /\ [][Precise /\ OneServer => Precise']_grpVars
=============================================================================
