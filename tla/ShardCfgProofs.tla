--------------------------- MODULE ShardCfgProofs ---------------------------
(***************************************************************************)
(* Every configuration that JoinBalance and LeaveBalance produce passes    *)
(* CheckConfig, and none of them takes a shard from a group to which it    *)
(* gives another, for any number of shards, groups and servers.            *)
(***************************************************************************)
EXTENDS ShardCfg, FiniteSetTheorems, TLAPS

USE ShardAssumption DEF cfgVars

-----------------------------------------------------------------------------
(* Types *)

LEMMA GroupMapFacts ==
    ASSUME NEW G
    PROVE  G \in GroupMap <=> DOMAIN G \subseteq Gid /\ G \in [DOMAIN G -> Servers]
BY Zenon DEF GroupMap

LEMMA WithType ==
    ASSUME Groups \in GroupMap, NEW added \in GroupMap
    PROVE  With(added) \in GroupMap /\ DOMAIN With(added) = live \cup DOMAIN added
BY Zenon, GroupMapFacts DEF With, live

LEMMA WithoutType ==
    ASSUME Groups \in GroupMap, NEW gone
    PROVE  Without(gone) \in GroupMap
BY Zenon, GroupMapFacts DEF Without, live

\* How a call ends.
LEMMA CallType ==
    ASSUME TypeOK, Num < MaxNum, Succeed \/ Fail \/ Fatal
    PROVE  /\ Num' \in 0..MaxNum /\ pc' \in {"idle", "assign", "move", "fatal"}
           /\ next' \in 0..NShards /\ ok' \in BOOLEAN
<1>1. ok' \in BOOLEAN /\ pc' \in {"idle", "assign", "move", "fatal"}
  BY Zenon DEF TypeOK, Succeed, Fail, Fatal
<1>2. Num' \in 0..MaxNum /\ next' \in 0..NShards
  <2>1. Num \in 0..MaxNum /\ next \in 0..NShards
    BY Zenon DEF TypeOK
  <2>2. (Num' = Num /\ next' = next) \/ (Num' = Num + 1 /\ next' = 0)
    BY Zenon DEF Succeed, Fail, Fatal
  <2> QED
    BY <2>1, <2>2
<1> QED
  BY Zenon, <1>1, <1>2

LEMMA JoinType ==
    ASSUME TypeOK, NEW servers \in GroupMap, JoinBalance(servers) PROVE TypeOK'
<1>1. PICK D \in SUBSET (DOMAIN servers \ live) : Join(servers, [g \in D |-> servers[g]])
  BY Zenon DEF JoinBalance
<1> DEFINE added == [g \in D |-> servers[g]]
<1>2. added \in GroupMap
  BY Zenon, GroupMapFacts
<1>3. Groups' \in GroupMap
  <2> HIDE DEF added
  <2> QED
    BY Zenon, <1>1, <1>2, WithType DEF TypeOK, Join, Fail, Fatal, Succeed, added
<1>4. /\ Num' \in 0..MaxNum /\ pc' \in {"idle", "assign", "move", "fatal"}
      /\ next' \in 0..NShards /\ ok' \in BOOLEAN
  <2>1. Num < MaxNum /\ (Succeed \/ Fail \/ Fatal)
    BY Zenon, <1>1 DEF JoinBalance, Join
  <2> QED
    BY Zenon, <2>1, CallType
<1> QED
  BY Zenon, <1>3, <1>4 DEF TypeOK, JoinBalance

LEMMA LeaveType == ASSUME TypeOK, NEW gids, LeaveBalance(gids) PROVE TypeOK'
<1>1. Groups' \in GroupMap
  BY Zenon, WithoutType DEF TypeOK, LeaveBalance, Leave, Fail, Fatal, Succeed
<1>2. /\ Num' \in 0..MaxNum /\ pc' \in {"idle", "assign", "move", "fatal"}
      /\ next' \in 0..NShards /\ ok' \in BOOLEAN
  <2>1. Num < MaxNum /\ (Succeed \/ Fail \/ Fatal)
    BY Zenon DEF LeaveBalance, Leave
  <2> QED
    BY Zenon, <2>1, CallType
<1> QED
  BY Zenon, <1>1, <1>2 DEF TypeOK, LeaveBalance

LEMMA RebalanceType == ASSUME TypeOK, Rebalance PROVE TypeOK'
<1>0. live \subseteq Gid
  BY Zenon, GroupMapFacts DEF TypeOK, live
<1>1. CASE UnassignAll
  BY Zenon, <1>1 DEF TypeOK, UnassignAll
<1>2. CASE AssignUnassigned
  <2>1. next' \in 0..NShards
    BY <1>2 DEF TypeOK, AssignUnassigned
  <2>2. Shards' \in [Shard -> Gid \cup {0}]
    BY Zenon, <1>0, <1>2 DEF TypeOK, AssignUnassigned, Assign, least
  <2> QED
    BY Zenon, <1>2, <2>1, <2>2 DEF TypeOK, AssignUnassigned
<1>3. CASE EndAssign
  BY Zenon, <1>3 DEF TypeOK, EndAssign
<1>4. CASE Move
  <2>1. Shards' \in [Shard -> Gid \cup {0}]
    BY Zenon, <1>0, <1>4 DEF TypeOK, Move, Assign
  <2> QED
    BY Zenon, <1>4, <2>1 DEF TypeOK, Move
<1>5. CASE EndMove
  BY Zenon, <1>5 DEF TypeOK, EndMove
<1> QED
  BY Zenon, <1>1, <1>2, <1>3, <1>4, <1>5 DEF Rebalance

\* Every configuration is well formed.
THEOREM TypeCorrect == Spec => []TypeOK
<1>1. MakeShardConfig => TypeOK
  <2>1. [g \in {} |-> {}] \in GroupMap
    BY Zenon, GroupMapFacts
  <2> QED
    <3> SUFFICES ASSUME MakeShardConfig PROVE TypeOK
      OBVIOUS
    <3>1. ok \in BOOLEAN /\ pc \in {"idle", "assign", "move", "fatal"} /\ Groups \in GroupMap
      BY <2>1, Zenon DEF MakeShardConfig
    <3>2. Num \in 0..MaxNum /\ next \in 0..NShards
      BY Z3 DEF MakeShardConfig
    <3>3. Shards \in [Shard -> Gid \cup {0}] /\ old \in [Shard -> Gid \cup {0}]
      BY Zenon DEF MakeShardConfig
    <3> QED
      BY Zenon, <3>1, <3>2, <3>3 DEF TypeOK
<1>2. TypeOK /\ [Next]_vars => TypeOK'
  <2>1. ASSUME TypeOK, UNCHANGED vars PROVE TypeOK'
    BY Zenon, <2>1 DEF TypeOK, vars
  <2> QED
    BY Zenon, <2>1, JoinType, LeaveType, RebalanceType DEF Next
<1> QED
  BY <1>1, <1>2, PTL DEF Spec

-----------------------------------------------------------------------------
(* CheckConfig *)

\* A call starts Rebalance or returns false.
LEMMA CallStarts ==
    ASSUME AssignInv,
           \/ \E servers \in GroupMap : JoinBalance(servers)
           \/ \E gids \in UNION {[1..n -> Gid] : n \in 0..MaxLeave} : LeaveBalance(gids)
    PROVE  AssignInv'
<1>1. (pc' = "assign" /\ next' = 0) \/ pc' = "fatal" \/ (pc' = "idle" /\ ok' = FALSE)
  BY Zenon DEF JoinBalance, Join, LeaveBalance, Leave, Succeed, Fail, Fatal
<1> QED
  BY <1>1 DEF AssignInv, CheckConfig, Settled, Shard

LEMMA RebalanceKeeps == ASSUME TypeOK, AssignInv, Rebalance PROVE AssignInv'
<1>1. CASE UnassignAll
  BY Zenon, <1>1 DEF UnassignAll, AssignInv, CheckConfig, live
<1>2. CASE AssignUnassigned
  <2>1. /\ live' = live /\ pc' = pc /\ pc = "assign" /\ next' = next + 1 /\ next \in Shard
    BY <1>2 DEF AssignUnassigned, live, TypeOK, Shard
  <2>2. Shards'[next] \in live /\ \A s \in Shard : s # next => Shards'[s] = Shards[s]
    BY Zenon, <1>2, <2>1 DEF AssignUnassigned, Assign, TypeOK, least
  <2>3. \A s \in Shard : s < next' => s < next \/ s = next
    BY <2>1 DEF Shard
  <2> QED
    BY Zenon, <1>2, <2>1, <2>2, <2>3 DEF AssignUnassigned, AssignInv, CheckConfig, Settled
<1>3. CASE EndAssign
  <2>1. \A s \in Shard : s < next
    BY <1>3 DEF EndAssign, Shard
  <2> QED
    BY Zenon, <1>3, <2>1 DEF EndAssign, AssignInv, CheckConfig, Settled, live
<1>4. CASE Move
  <2>1. /\ live' = live /\ pc' = pc /\ pc = "move"
        /\ \A s \in Shard : Shards'[s] = Shards[s] \/ Shards'[s] \in live
    BY Zenon, <1>4 DEF Move, Assign, live, TypeOK
  <2> QED
    BY Zenon, <2>1 DEF AssignInv, CheckConfig, Settled
<1>5. CASE EndMove
  <2>1. PICK mg, lg \in live : most(mg) /\ least(lg) /\ counts(mg) < counts(lg) + 2
    BY Zenon, <1>5 DEF EndMove, Balanced
  <2>2. \A g \in live : counts(g) \in Nat
    <3>1. IsFiniteSet(Shard)
      BY FS_Interval DEF Shard
    <3>2. ASSUME NEW g \in live PROVE counts(g) \in Nat
      <4>1. IsFiniteSet({s \in Shard : Shards[s] = g})
        BY Zenon, <3>1, FS_Subset
      <4> QED
        BY Zenon, <4>1, FS_CardinalityType DEF counts
    <3> QED
      BY Zenon, <3>2
  <2>3. \A g \in live : counts(g) <= counts(mg) /\ counts(lg) <= counts(g)
    BY <2>1, <2>2 DEF most, least
  <2>4. \A g, h \in live : counts(g) <= counts(h) + 1
    BY <2>1, <2>2, <2>3
  <2>5. UNCHANGED <<Shards, Groups>> /\ pc = "move" /\ pc' = "idle"
    BY Zenon, <1>5 DEF EndMove
  <2> QED
    BY ZenonT(40), <2>4, <2>5 DEF AssignInv, CheckConfig, Settled, live, counts
<1> QED
  BY Zenon, <1>1, <1>2, <1>3, <1>4, <1>5 DEF Rebalance

\* A call that returns true leaves a balanced assignment to groups that exist.
THEOREM ConfigsCheck == Spec => []CheckConfig
<1>1. MakeShardConfig => AssignInv
  BY Zenon DEF MakeShardConfig, AssignInv, CheckConfig, live
<1>2. TypeOK /\ AssignInv /\ [Next]_vars => AssignInv'
  <2>1. ASSUME AssignInv, UNCHANGED vars PROVE AssignInv'
    BY Zenon, <2>1 DEF AssignInv, CheckConfig, Settled, counts, live, vars
  <2> QED
    BY Zenon, <2>1, CallStarts, RebalanceKeeps DEF Next
<1>3. AssignInv => CheckConfig
  BY Zenon DEF AssignInv
<1> QED
  BY <1>1, <1>2, <1>3, TypeCorrect, PTL DEF Spec

-----------------------------------------------------------------------------
(* NoChurn *)

LEMMA CountsNat == \A g : counts(g) \in Nat
<1>1. IsFiniteSet(Shard)
  BY FS_Interval DEF Shard
<1>2. ASSUME NEW g PROVE counts(g) \in Nat
  <2>1. IsFiniteSet({s \in Shard : Shards[s] = g})
    BY Zenon, <1>1, FS_Subset
  <2> QED
    BY Zenon, <2>1, FS_CardinalityType DEF counts
<1> QED
  BY Zenon, <1>2

\* What it does to the counts to assign a shard to another group.
LEMMA CountsAssign ==
    ASSUME TypeOK, NEW r \in Shard, NEW g, g # Shards[r], Assign(r, g)
    PROVE  /\ counts(g)' = counts(g) + 1
           /\ \A h : h = Shards[r] => counts(h)' = counts(h) - 1
           /\ \A h : h # g /\ h # Shards[r] => counts(h)' = counts(h)
<1>0. Shards'[r] = g /\ \A s \in Shard : s # r => Shards'[s] = Shards[s]
  BY Zenon DEF TypeOK, Assign
<1>f. IsFiniteSet(Shard)
  BY FS_Interval DEF Shard
<1>1. counts(g)' = counts(g) + 1
  <2> DEFINE S == {s \in Shard : Shards[s] = g}
  <2>1. {s \in Shard : Shards'[s] = g} = S \cup {r} /\ r \notin S
    BY Zenon, <1>0
  <2>2. IsFiniteSet(S)
    BY Zenon, <1>f, FS_Subset
  <2>3. Cardinality(S \cup {r}) = Cardinality(S) + 1
    <3> HIDE DEF S
    <3> QED
      BY Zenon, <2>1, <2>2, FS_AddElement
  <2> QED
    BY Zenon, <2>1, <2>3 DEF counts
<1>2. ASSUME NEW h, h = Shards[r] PROVE counts(h)' = counts(h) - 1
  <2> DEFINE S == {s \in Shard : Shards[s] = h}
  <2>1. {s \in Shard : Shards'[s] = h} = S \ {r} /\ r \in S
    <3>1. h # g /\ r \in S
      BY Zenon, <1>2
    <3>2. \A s \in Shard : Shards'[s] = h <=> s \in S \ {r}
      BY Zenon, <1>0, <3>1
    <3> QED
      BY Zenon, <3>1, <3>2
  <2>2. IsFiniteSet(S)
    BY Zenon, <1>f, FS_Subset
  <2>3. Cardinality(S \ {r}) = Cardinality(S) - 1
    <3> HIDE DEF S
    <3> QED
      BY Zenon, <2>1, <2>2, FS_RemoveElement
  <2> QED
    BY Zenon, <2>1, <2>3 DEF counts
<1>3. ASSUME NEW h, h # g, h # Shards[r] PROVE counts(h)' = counts(h)
  <2>1. {s \in Shard : Shards'[s] = h} = {s \in Shard : Shards[s] = h}
    BY Zenon, <1>0, <1>3
  <2> QED
    BY Zenon, <2>1 DEF counts
<1> QED
  BY Zenon, <1>1, <1>2, <1>3

\* What the invariant reads does not change with Shards, Groups and old.
LEMMA ChurnSame ==
    ASSUME UNCHANGED <<Shards, Groups, old>>
    PROVE  live' = live /\ \A g : (Gave(g)' <=> Gave(g)) /\ (Got(g)' <=> Got(g)) /\ counts(g)' = counts(g)
<1>1. live' = live
  BY Zenon DEF live
<1>2. ASSUME NEW g PROVE (Gave(g)' <=> Gave(g)) /\ (Got(g)' <=> Got(g)) /\ counts(g)' = counts(g)
  BY Zenon DEF Gave, Got, counts
<1> QED
  BY Zenon, <1>1, <1>2

\* A call begins with nothing given and nothing received.
LEMMA CallChurns ==
    ASSUME \/ \E servers \in GroupMap : JoinBalance(servers)
           \/ \E gids \in UNION {[1..n -> Gid] : n \in 0..MaxLeave} : LeaveBalance(gids)
    PROVE  ChurnInv'
<1>1. (pc' = "idle" => ok' = FALSE) /\ old' = Shards' /\ (pc' = "assign" \/ pc' = "fatal" \/ pc' = "idle")
  BY Zenon DEF JoinBalance, Join, LeaveBalance, Leave, Succeed, Fail, Fatal
<1>2. \A g : ~Gave(g)' /\ ~Got(g)'
  BY Zenon, <1>1 DEF Gave, Got
<1> QED
  BY Zenon, <1>1, <1>2 DEF ChurnInv, NoChurn, Settled

\* The group with least receives, and no group that is there has given.
LEMMA AssignChurns == ASSUME TypeOK, ChurnInv, AssignUnassigned PROVE ChurnInv'
<1>0. /\ live' = live /\ old' = old /\ pc' = pc /\ pc = "assign" /\ next \in Shard
      /\ Shards \in [Shard -> Gid \cup {0}]
  BY DEF AssignUnassigned, live, TypeOK, Shard
<1>1. CASE Shards[next] \in live
  <2>1. UNCHANGED <<Shards, Groups, old>>
    BY Zenon, <1>1 DEF AssignUnassigned
  <2> QED
    BY Zenon, <1>0, <2>1, ChurnSame DEF ChurnInv, NoChurn, Settled
<1>2. CASE Shards[next] \notin live
  <2>1. PICK lg : least(lg) /\ Assign(next, lg)
    BY Zenon, <1>2 DEF AssignUnassigned
  <2>2. lg \in live /\ lg # Shards[next]
    BY Zenon, <1>2, <2>1 DEF least
  <2>3. PICK r \in Shard : r = next
    BY Zenon, <1>0
  <2>4. Shards'[r] = lg /\ \A s \in Shard : s # r => Shards'[s] = Shards[s]
    BY Zenon, <1>0, <2>1, <2>3 DEF Assign
  <2>5. counts(lg)' = counts(lg) + 1 /\ \A h \in live : h # lg => counts(h)' = counts(h)
    <3>1. Assign(r, lg) /\ lg # Shards[r] /\ Shards[r] \notin live
      BY Zenon, <1>2, <2>1, <2>2, <2>3
    <3>2. /\ counts(lg)' = counts(lg) + 1
          /\ \A h : h # lg /\ h # Shards[r] => counts(h)' = counts(h)
      BY Zenon, <3>1, CountsAssign
    <3>3. \A h \in live : h # Shards[r]
      BY Zenon, <3>1
    <3> QED
      BY Zenon, <3>2, <3>3
  <2>6. \A g \in live : ~Gave(g)
    BY Zenon, <1>0 DEF ChurnInv
  <2>7. \A g \in live : ~Gave(g)'
    BY Zenon, <1>0, <1>2, <2>3, <2>4, <2>6 DEF Gave
  <2>8. \A g \in live : Got(g)' => g = lg \/ Got(g)
    BY Zenon, <1>0, <2>4 DEF Got
  <2>9. \A h \in live : counts(lg) <= counts(h)
    BY <2>1, CountsNat DEF least
  <2>10. ASSUME NEW g \in live, NEW h \in live, Got(g)'
         PROVE  counts(g)' <= counts(h)' + 1
    <3>1. counts(h)' = counts(h) \/ (h = lg /\ counts(h)' = counts(h) + 1)
      BY Zenon, <2>5
    <3>2. CASE g = lg
      BY <2>5, <2>9, <3>1, <3>2, CountsNat
    <3>3. CASE g # lg
      <4>1. counts(g)' = counts(g) /\ counts(g) <= counts(h) + 1
        BY Zenon, <1>0, <2>5, <2>8, <2>10, <3>3 DEF ChurnInv
      <4> QED
        BY <3>1, <4>1, CountsNat
    <3> QED
      BY Zenon, <3>2, <3>3
  <2> QED
    BY Zenon, <1>0, <2>7, <2>10 DEF ChurnInv, NoChurn, Settled
<1> QED
  BY Zenon, <1>1, <1>2

\* The group with most has received nothing, the one with least has given
\* nothing, and after the move no group is two shards above one that has given
\* or below one that has received.
LEMMA MoveChurns == ASSUME TypeOK, ChurnInv, Move PROVE ChurnInv'
<1>0. /\ live' = live /\ old' = old /\ pc' = pc /\ pc = "move"
      /\ Shards \in [Shard -> Gid \cup {0}]
  BY Zenon DEF Move, live, TypeOK
<1>1. PICK mg, lg \in live : /\ most(mg) /\ least(lg) /\ ~Balanced(mg, lg)
                            /\ \E s \in Shard : Shards[s] = mg /\ Assign(s, lg)
  BY Zenon DEF Move
<1>2. PICK r \in Shard : Shards[r] = mg /\ Assign(r, lg)
  BY Zenon, <1>1
<1>3. /\ counts(lg) + 2 <= counts(mg)
      /\ \A h \in live : counts(lg) <= counts(h) /\ counts(h) <= counts(mg)
  BY <1>1, CountsNat DEF most, least, Balanced
<1>4. mg # lg
  BY <1>3, CountsNat
<1>5. Shards'[r] = lg /\ \A s \in Shard : s # r => Shards'[s] = Shards[s]
  BY Zenon, <1>0, <1>2 DEF Assign
<1>6. /\ counts(lg)' = counts(lg) + 1 /\ counts(mg)' = counts(mg) - 1
      /\ \A h \in live : h # mg /\ h # lg => counts(h)' = counts(h)
  BY Zenon, <1>2, <1>4, CountsAssign
<1>7. ~Got(mg) /\ ~Gave(lg)
  <2>1. ~(counts(mg) <= counts(lg) + 1)
    BY <1>3, CountsNat
  <2> QED
    BY Zenon, <1>0, <2>1 DEF ChurnInv
<1>8. ~Got(mg)' /\ ~Gave(lg)'
  <2>1. ~Got(mg)'
    BY Zenon, <1>0, <1>4, <1>5, <1>7 DEF Got
  <2>2. ~Gave(lg)'
    BY Zenon, <1>0, <1>5, <1>7 DEF Gave
  <2> QED
    BY Zenon, <2>1, <2>2
<1>9. \A g \in live : /\ Got(g)' => g = lg \/ Got(g)
                      /\ Gave(g)' => g = mg \/ Gave(g)
  <2>1. \A g \in live : Got(g)' => g = lg \/ Got(g)
    BY Zenon, <1>0, <1>5 DEF Got
  <2>2. ASSUME NEW g \in live, Gave(g)', g # mg PROVE Gave(g)
    BY Zenon, <1>0, <1>2, <1>5, <2>2 DEF Gave
  <2> QED
    BY Zenon, <2>1, <2>2
<1>10. \A g \in live : ~(Gave(g)' /\ Got(g)')
  BY Zenon, <1>0, <1>8, <1>9 DEF ChurnInv
<1>11. \A h \in live : counts(h)' <= counts(mg) /\ counts(lg) <= counts(h)'
  BY <1>3, <1>6, CountsNat
<1>12. \A h \in live : counts(h)' \in Nat /\ counts(h) \in Nat
  BY <1>3, <1>6, CountsNat
<1>13. ASSUME NEW g \in live, NEW h \in live, Got(g)' PROVE counts(g)' <= counts(h)' + 1
  <2>1. CASE g = lg
    BY <1>6, <1>11, <1>12, <2>1
  <2>2. CASE g # lg
    <3>1. g # mg /\ Got(g) /\ counts(g)' = counts(g)
      BY Zenon, <1>6, <1>8, <1>9, <1>13, <2>2
    <3>2. counts(g) <= counts(h) + 1
      BY Zenon, <1>0, <3>1 DEF ChurnInv
    <3>3. counts(h)' = counts(h) \/ counts(h)' = counts(h) + 1 \/ (counts(h)' = counts(mg) - 1 /\ h = mg)
      BY Zenon, <1>6
    <3>4. counts(g) <= counts(mg)
      BY Zenon, <1>3
    <3> QED
      BY <1>1, <1>12, <3>1, <3>2, <3>3, <3>4
  <2> QED
    BY Zenon, <2>1, <2>2
<1>14. ASSUME NEW g \in live, NEW h \in live, Gave(g)' PROVE counts(h)' <= counts(g)' + 1
  <2>1. CASE g = mg
    BY <1>6, <1>11, <1>12, <2>1
  <2>2. CASE g # mg
    <3>1. g # lg /\ Gave(g) /\ counts(g)' = counts(g)
      BY Zenon, <1>6, <1>8, <1>9, <1>14, <2>2
    <3>2. counts(h) <= counts(g) + 1
      BY Zenon, <1>0, <3>1 DEF ChurnInv
    <3>3. counts(h)' = counts(h) \/ counts(h)' = counts(h) - 1 \/ (counts(h)' = counts(lg) + 1 /\ h = lg)
      BY Zenon, <1>6
    <3>4. counts(lg) <= counts(g)
      BY Zenon, <1>3
    <3> QED
      BY <1>1, <1>12, <3>1, <3>2, <3>3, <3>4
  <2> QED
    BY Zenon, <2>1, <2>2
<1> QED
  BY Zenon, <1>0, <1>10, <1>13, <1>14 DEF ChurnInv, NoChurn, Settled

\* No group both gives and receives in one call.
THEOREM NothingChurns == Spec => []NoChurn
<1>1. MakeShardConfig => ChurnInv
  BY Zenon DEF MakeShardConfig, ChurnInv, NoChurn, Gave
<1>2. TypeOK /\ ChurnInv /\ [Next]_vars => ChurnInv'
  <2>1. ASSUME ChurnInv, UNCHANGED vars PROVE ChurnInv'
    <3>1. UNCHANGED <<Shards, Groups, old, pc, ok>>
      BY Zenon, <2>1 DEF vars
    <3> QED
      BY Zenon, <2>1, <3>1, ChurnSame DEF ChurnInv, NoChurn, Settled
  <2>2. ASSUME UnassignAll PROVE ChurnInv'
    BY Zenon, <2>2 DEF UnassignAll, ChurnInv, NoChurn, live
  <2>3. ASSUME ChurnInv, EndAssign \/ EndMove PROVE ChurnInv'
    <3>1. /\ UNCHANGED <<Shards, Groups, old>> /\ pc \in {"assign", "move"}
          /\ pc' \in {"move", "idle"}
      BY Zenon, <2>3 DEF EndAssign, EndMove
    <3> QED
      BY Zenon, <2>3, <3>1, ChurnSame DEF ChurnInv, NoChurn, Settled
  <2> QED
    BY Zenon, <2>1, <2>2, <2>3, CallChurns, AssignChurns, MoveChurns DEF Next, Rebalance
<1>3. ChurnInv => NoChurn
  BY Zenon DEF ChurnInv
<1> QED
  BY <1>1, <1>2, <1>3, TypeCorrect, PTL DEF Spec
=============================================================================
