------------------------------ MODULE ShardCfg ------------------------------
(***************************************************************************)
(* The configurations of the sharded store, shardkv1/shardcfg/shardcfg.go: *)
(* which group serves each shard.  A controller changes a configuration    *)
(* with JoinBalance and LeaveBalance; Rebalance runs one turn of its loops *)
(* in each step.                                                           *)
(***************************************************************************)
EXTENDS Integers, FiniteSets, Sequences

CONSTANTS
    NShards,
    Gid,        \* group identifiers, positive: 0 marks a shard without a group
    Servers,    \* the lists of servers that groups may have, as sets of names
    MaxNum,     \* bound: the changes of configuration
    MaxLeave    \* bound: the length of Leave's argument

ASSUME ShardAssumption ==
    /\ NShards \in Nat \ {0}
    /\ Gid \subseteq Nat \ {0}
    /\ MaxNum \in Nat /\ MaxLeave \in Nat

VARIABLES
    Num, Shards, Groups,  \* the ShardConfig
    pc,                   \* "idle", or where Rebalance is; "fatal" after log.Fatalf
    next,                 \* the index of the loop over the unassigned shards
    ok,                   \* what the last call returned
    old                   \* history: Shards when the last call began

cfgVars == <<Num, Shards, Groups>>
vars    == <<cfgVars, pc, next, ok, old>>

Shard == 0..(NShards - 1)
live  == DOMAIN Groups

\* Sets of groups with their servers.
GroupMap == UNION {[D -> Servers] : D \in SUBSET Gid}

MakeShardConfig ==
    /\ Num = 0
    /\ Shards = [s \in Shard |-> 0]
    /\ Groups = [g \in {} |-> {}]
    /\ pc = "idle" /\ next = 0 /\ ok = TRUE
    /\ old = Shards

-----------------------------------------------------------------------------
(* Rebalance *)

counts(g) == Cardinality({s \in Shard : Shards[s] = g})

\* analyze: the groups are compared in the order of their identifiers.
least(g) ==
    /\ g \in live
    /\ \A h \in live : counts(g) < counts(h) \/ (counts(g) = counts(h) /\ g <= h)
most(g) ==
    /\ g \in live
    /\ \A h \in live : counts(g) > counts(h) \/ (counts(g) = counts(h) /\ g <= h)

Assign(s, g) == Shards' = [Shards EXCEPT ![s] = g]

UnassignAll ==
    /\ pc = "assign" /\ live = {}
    /\ Shards' = [s \in Shard |-> 0]
    /\ pc' = "idle"
    /\ UNCHANGED <<Num, Groups, next, ok, old>>

\* Fault: an unassigned shard goes to the group with most shards.
AssignMost ==
    /\ pc = "assign" /\ live # {} /\ next < NShards
    /\ IF Shards[next] \in live
       THEN UNCHANGED Shards
       ELSE \E g \in live : most(g) /\ Assign(next, g)
    /\ next' = next + 1
    /\ UNCHANGED <<Num, Groups, pc, ok, old>>

\* -1 is what analyze's lg is set to before it compares.
AssignUnassigned ==
    /\ pc = "assign" /\ live # {} /\ next < NShards
    /\ IF Shards[next] \in live
       THEN UNCHANGED Shards
       ELSE \E g \in Gid \cup {-1} : least(g) /\ Assign(next, g)
    /\ next' = next + 1
    /\ UNCHANGED <<Num, Groups, pc, ok, old>>

EndAssign ==
    /\ pc = "assign" /\ live # {} /\ next = NShards
    /\ pc' = "move"
    /\ UNCHANGED <<cfgVars, next, ok, old>>

\* Faults: the bound on the difference is off by one.
BalancedTooStrict(mg, lg) == counts(mg) < counts(lg) + 1
BalancedTooLoose(mg, lg)  == counts(mg) < counts(lg) + 3

Balanced(mg, lg) == counts(mg) < counts(lg) + 2

\* The first shard of the group with most goes to the one with least.
Move ==
    /\ pc = "move"
    /\ \E mg, lg \in live :
        /\ most(mg) /\ least(lg)
        /\ ~Balanced(mg, lg)
        /\ \E s \in Shard :
            /\ Shards[s] = mg /\ \A r \in Shard : Shards[r] = mg => s <= r
            /\ Assign(s, lg)
    /\ UNCHANGED <<Num, Groups, pc, next, ok, old>>

EndMove ==
    /\ pc = "move"
    /\ \E mg, lg \in live : most(mg) /\ least(lg) /\ Balanced(mg, lg)
    /\ pc' = "idle"
    /\ UNCHANGED <<cfgVars, next, ok, old>>

Rebalance == UnassignAll \/ AssignUnassigned \/ EndAssign \/ Move \/ EndMove

-----------------------------------------------------------------------------
(* JoinBalance and LeaveBalance *)

Succeed ==
    /\ Num' = Num + 1 /\ ok' = TRUE
    /\ pc' = "assign" /\ next' = 0

\* The call returns false, with the groups as far as it has changed them.
Fail == pc' = "idle" /\ ok' = FALSE /\ UNCHANGED <<Num, next>>

Fatal == pc' = "fatal" /\ UNCHANGED <<Num, Groups, next, ok>>

\* Do two of these groups share a server?
Clash(groups) ==
    \E g, h \in DOMAIN groups : g # h /\ groups[g] \cap groups[h] # {}

With(groups) == [g \in live \cup DOMAIN groups |-> IF g \in live THEN Groups[g] ELSE groups[g]]

\* Go visits a map in any order: added are the groups that Join has put in when
\* it meets one that is there already, or shares a server.
Join(servers, added) ==
    /\ ~Clash(With(added))
    /\ \/ /\ DOMAIN servers \cap live # {}
          /\ Groups' = With(added) /\ Fail
       \/ /\ \E g \in DOMAIN servers \ (live \cup DOMAIN added) :
                \E h \in live \cup DOMAIN added : servers[g] \cap With(added)[h] # {}
          /\ Fatal
       \/ servers = <<>> /\ Fatal
       \/ /\ DOMAIN servers \cap live = {} /\ servers # <<>> /\ added = servers
          /\ Groups' = With(servers) /\ Succeed

JoinBalance(servers) ==
    /\ pc = "idle" /\ Num < MaxNum
    /\ \E D \in SUBSET (DOMAIN servers \ live) : Join(servers, [g \in D |-> servers[g]])
    /\ old' = Shards
    /\ UNCHANGED Shards

Without(gone) == [g \in live \ gone |-> Groups[g]]

\* Leave goes through a slice, up to a group that is not there (any more).
Leave(gids) ==
    LET Gone(n) == {gids[i] : i \in 1..n}
        There(n) == gids[n] \in live \ Gone(n - 1)
    IN
    \/ gids = <<>> /\ Fatal
    \/ /\ gids # <<>> /\ \A n \in DOMAIN gids : There(n)
       /\ Groups' = Without(Gone(Len(gids))) /\ Succeed
    \/ \E n \in DOMAIN gids :
        /\ ~There(n) /\ \A m \in 1..(n - 1) : There(m)
        /\ Groups' = Without(Gone(n - 1)) /\ Fail

LeaveBalance(gids) ==
    /\ pc = "idle" /\ Num < MaxNum
    /\ Leave(gids)
    /\ old' = Shards
    /\ UNCHANGED Shards

Next ==
    \/ \E servers \in GroupMap : JoinBalance(servers)
    \/ \E gids \in UNION {[1..n -> Gid] : n \in 0..MaxLeave} : LeaveBalance(gids)
    \/ Rebalance

Spec == MakeShardConfig /\ [][Next]_vars

\* The controller goes on with a call that it has begun.
FairSpec == Spec /\ WF_vars(Rebalance)

-----------------------------------------------------------------------------
(* Properties *)

TypeOK ==
    /\ Num \in 0..MaxNum
    /\ Shards \in [Shard -> Gid \cup {0}] /\ old \in [Shard -> Gid \cup {0}]
    /\ Groups \in GroupMap
    /\ pc \in {"idle", "assign", "move", "fatal"}
    /\ next \in 0..NShards
    /\ ok \in BOOLEAN

\* A call has just returned true, or none has been made.
Settled == pc = "idle" /\ ok

\* What the tests ask of a configuration in CheckConfig, after any calls, even
\* after calls that failed half way: no "invalid group", and no group has "too
\* much larger" a share than another.
CheckConfig ==
    Settled /\ live # {} =>
        /\ \A s \in Shard : Shards[s] \in live
        /\ \A g, h \in live : counts(g) <= counts(h) + 1

\* Why: how far Rebalance has come.
AssignInv ==
    /\ pc = "assign" => \A s \in Shard : s < next /\ live # {} => Shards[s] \in live
    /\ pc = "move" => live # {} /\ \A s \in Shard : Shards[s] \in live
    /\ CheckConfig

\* A group has given away a shard, or received one, since the call began.
Gave(g) == \E s \in Shard : old[s] = g /\ Shards[s] # g
Got(g)  == \E s \in Shard : old[s] # g /\ Shards[s] = g

\* Rebalance moves no shard that it need not: no group both gives shards away
\* and receives some in one call.
NoChurn == Settled => \A g \in live : ~(Gave(g) /\ Got(g))

\* Why: what a group receives leaves it among the least, what it gives among
\* the most, up to one shard, and it stays so until Rebalance is over.
ChurnInv ==
    /\ pc \in {"assign", "move"} =>
        /\ \A g \in live : ~(Gave(g) /\ Got(g))
        /\ \A g, h \in live : Got(g) => counts(g) <= counts(h) + 1
        /\ \A g, h \in live : Gave(g) => counts(h) <= counts(g) + 1
    /\ pc = "assign" => \A g \in live : ~Gave(g)
    /\ NoChurn

\* Rebalance's loop "move shards from most to least heavily loaded" ends.
Terminates == pc \in {"assign", "move"} ~> pc = "idle"
=============================================================================
