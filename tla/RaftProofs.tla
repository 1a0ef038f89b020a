----------------------------- MODULE RaftProofs -----------------------------
(***************************************************************************)
(* Raft's election, for any number of servers, elections and messages in   *)
(* transit: types, the timers, and one vote per term.                      *)
(***************************************************************************)
EXTENDS Raft, TLAPS

USE RaftAssumption DEF srvVars, timerVars, netVars

-----------------------------------------------------------------------------
(* Types *)

LEMMA FireType == ASSUME TypeOK, NEW s \in Server, Fire(s) PROVE TypeOK'
BY Zenon DEF TypeOK, Fire, VoteCall, Term

LEMMA ElectionType == ASSUME TypeOK, NEW s \in Server, ElectionTimeout(s) PROVE TypeOK'
<1>1. CASE state[s] # "Leader" /\ startElection(s)
  <2>1. currTerm[s] + 1 \in Term /\ 0 \in Term
    BY <1>1 DEF TypeOK, startElection, Term
  <2>2. votes' \subseteq VoteCall
    BY Zenon, <1>1, <2>1 DEF TypeOK, startElection, VoteCall
  <2>3. /\ currTerm' \in [Server -> Term]
        /\ granted' \subseteq Server \X Term \X Server
    BY <1>1, <2>1 DEF TypeOK, startElection
  <2>4. /\ voteFor' \in [Server -> Server \cup {Nobody}]
        /\ state' \in [Server -> {"Follower", "Candidate", "Leader"}]
        /\ voteCount' \in [Server -> Nat]
        /\ electionTimer' \in [Server -> BOOLEAN]
    BY Zenon, <1>1 DEF TypeOK, startElection, resetTimer
  <2>5. /\ ticker' \in [Server -> {"select", "election", "heartbeat"}]
        /\ UNCHANGED <<heartbeatTimer, beats, beatReplies, leaders>>
    BY Zenon DEF TypeOK, ElectionTimeout, Back
  <2> QED
    BY Zenon, <2>2, <2>3, <2>4, <2>5 DEF TypeOK
<1>2. CASE state[s] = "Leader"
  BY Zenon, <1>2 DEF TypeOK, ElectionTimeout, Back
<1> QED
  BY Zenon, <1>1, <1>2 DEF ElectionTimeout

LEMMA HeartbeatType == ASSUME TypeOK, NEW s \in Server, HeartbeatTimeout(s) PROVE TypeOK'
BY Zenon DEF TypeOK, HeartbeatTimeout, Back, resetTimer

\* What a reply with a newer term does to the types.
LEMMA StepDownType ==
    ASSUME TypeOK, NEW s \in Server, NEW t \in Term, stepDown(s, t)
    PROVE  /\ currTerm' \in [Server -> Term]
           /\ voteFor' \in [Server -> Server \cup {Nobody}]
           /\ state' \in [Server -> {"Follower", "Candidate", "Leader"}]
           /\ voteCount' \in [Server -> Nat]
           /\ electionTimer' \in [Server -> BOOLEAN]
           /\ heartbeatTimer' \in [Server -> BOOLEAN]
BY Zenon DEF TypeOK, stepDown, resetTimer

LEMMA VoteType ==
    ASSUME TypeOK, NEW m \in votes, SendVoteRequest(m) \/ RequestVote(m) \/ HandleVoteReply(m)
    PROVE  TypeOK'
<1>0. m \in VoteCall /\ m.from \in Server /\ m.to \in Server /\ m.Term \in Term
  BY Zenon DEF TypeOK, VoteCall
<1>1. CASE SendVoteRequest(m)
  <2>1. [m EXCEPT !.stage = "sent", !.Term = currTerm[m.from]] \in VoteCall
    BY Zenon, <1>0 DEF TypeOK, VoteCall
  <2> QED
    BY Zenon, <1>1, <2>1 DEF TypeOK, SendVoteRequest, Advance
<1>2. CASE RequestVote(m)
  <2> DEFINE s     == m.to
             newer == m.Term > currTerm[s]
             grant == m.Term >= currTerm[s] /\ (newer \/ voteFor[s] \in {Nobody, m.from})
             n     == [m EXCEPT !.stage = "replied", !.Term = currTerm'[s], !.VoteGranted = grant]
  <2>1. /\ currTerm' \in [Server -> Term]
        /\ state' \in [Server -> {"Follower", "Candidate", "Leader"}]
        /\ voteCount' \in [Server -> Nat]
        /\ voteFor' \in [Server -> Server \cup {Nobody}]
        /\ electionTimer' \in [Server -> BOOLEAN]
    BY Zenon, <1>0, <1>2 DEF TypeOK, RequestVote, resetTimer
  <2>2. granted' \subseteq Server \X Term \X Server
    BY <1>0, <1>2 DEF TypeOK, RequestVote
  <2>3. grant \in BOOLEAN
    OBVIOUS
  <2>4. n \in VoteCall
    <3> HIDE DEF grant
    <3> QED
      BY Zenon, <1>0, <2>1, <2>3 DEF VoteCall
  <2>5. votes' = (votes \ {m}) \cup {n}
    BY Zenon, <1>2 DEF RequestVote, Advance
  <2>6. UNCHANGED <<heartbeatTimer, ticker, beats, beatReplies, leaders>>
    BY Zenon, <1>2 DEF RequestVote
  <2> QED
    BY Zenon, <2>1, <2>2, <2>4, <2>5, <2>6 DEF TypeOK
<1>3. CASE HandleVoteReply(m)
  <2>0. votes' \subseteq votes /\ UNCHANGED <<ticker, beats, beatReplies, granted>>
    BY Zenon, <1>3 DEF HandleVoteReply
  <2>1. CASE becomeLeader(m.from)
    BY <1>0, <2>0, <2>1 DEF TypeOK, becomeLeader, resetTimer
  <2>2. CASE countVote(m.from)
    BY <1>0, <2>0, <2>2 DEF TypeOK, countVote
  <2>3. CASE stepDown(m.from, m.Term) /\ UNCHANGED leaders
    BY Zenon, <1>0, <2>0, <2>3, StepDownType DEF TypeOK
  <2>4. CASE UNCHANGED <<srvVars, electionTimer, heartbeatTimer, leaders>>
    BY Zenon, <2>0, <2>4 DEF TypeOK
  <2> QED
    BY Zenon, <1>3, <2>1, <2>2, <2>3, <2>4 DEF HandleVoteReply
<1> QED
  BY Zenon, <1>1, <1>2, <1>3

LEMMA BeatType ==
    ASSUME TypeOK, NEW s \in Server,
           \/ SendHeartbeat(s)
           \/ \E m \in beats : AppendEntries(s, m)
           \/ \E t \in Term : HandleBeatReply(s, t)
    PROVE  TypeOK'
<1>1. CASE SendHeartbeat(s)
  BY <1>1 DEF TypeOK, SendHeartbeat
<1>2. ASSUME NEW m \in beats, AppendEntries(s, m) PROVE TypeOK'
  <2>1. m.LeaderId \in Server /\ m.Term \in Term
    BY Zenon DEF TypeOK
  <2>2. CASE UNCHANGED <<srvVars, electionTimer>>
    <3>1. beatReplies' \subseteq Server \X Term
      BY <1>2, <2>1 DEF TypeOK, AppendEntries
    <3> QED
      BY Zenon, <1>2, <2>2, <3>1 DEF TypeOK, AppendEntries
  <2>3. CASE ~UNCHANGED <<srvVars, electionTimer>>
    <3>0. /\ currTerm' = [currTerm EXCEPT ![s] = m.Term]
          /\ state' = [state EXCEPT ![s] = "Follower"]
          /\ voteCount' = [voteCount EXCEPT ![s] = 0]
          /\ electionTimer' = [electionTimer EXCEPT ![s] = TRUE]
          /\ UNCHANGED <<voteFor, beatReplies>>
      BY Zenon, <1>2, <2>3 DEF AppendEntries, resetTimer
    <3>1. /\ currTerm' \in [Server -> Term]
          /\ beatReplies' \subseteq Server \X Term
      BY Zenon, <2>1, <3>0 DEF TypeOK
    <3>2. /\ state' \in [Server -> {"Follower", "Candidate", "Leader"}]
          /\ voteCount' \in [Server -> Nat]
          /\ electionTimer' \in [Server -> BOOLEAN]
          /\ UNCHANGED <<voteFor, heartbeatTimer, ticker, votes, beats, granted, leaders>>
      BY Zenon, <1>2, <3>0 DEF TypeOK, AppendEntries
    <3> QED
      BY Zenon, <3>1, <3>2 DEF TypeOK
  <2> QED
    BY Zenon, <1>2, <2>2, <2>3 DEF AppendEntries
<1>3. ASSUME NEW t \in Term, HandleBeatReply(s, t) PROVE TypeOK'
  BY Zenon, <1>3, StepDownType DEF TypeOK, HandleBeatReply
<1> QED
  BY Zenon, <1>1, <1>2, <1>3

LEMMA TypeStep == TypeOK /\ [Next]_vars => TypeOK'
<1>1. ASSUME TypeOK, UNCHANGED vars PROVE TypeOK'
  BY Zenon, <1>1 DEF TypeOK, vars
<1> QED
  BY Zenon, <1>1, FireType, ElectionType, HeartbeatType, VoteType, BeatType DEF Next

\* Every server and every message in transit is well formed.
THEOREM TypeCorrect == Spec => []TypeOK
<1>1. Make => TypeOK
  BY DEF Make, TypeOK, Term
<1> QED
  BY <1>1, TypeStep, PTL DEF Spec

-----------------------------------------------------------------------------
(* What a step does to the state of one server *)

\* No server's term decreases.
THEOREM TermsAreMonotone == Spec => TermsGrow
<1>1. ASSUME TypeOK, [Next]_vars, NEW s \in Server PROVE currTerm'[s] >= currTerm[s]
  <2>0. DOMAIN currTerm = Server /\ \A r \in Server : currTerm[r] \in Int
    BY <1>1 DEF TypeOK, Term
  <2>1. ASSUME NEW r \in Server, NEW t \in Term, stepDown(r, t) PROVE currTerm'[s] >= currTerm[s]
    BY <2>0, <2>1 DEF stepDown, Term
  <2>2. ASSUME NEW r \in Server, ElectionTimeout(r) PROVE currTerm'[s] >= currTerm[s]
    <3>1. currTerm' = currTerm \/ currTerm' = [currTerm EXCEPT ![r] = @ + 1]
      BY Zenon, <2>2 DEF ElectionTimeout, startElection
    <3> QED
      BY <2>0, <3>1
  <2>3. ASSUME NEW m \in votes, RequestVote(m) PROVE currTerm'[s] >= currTerm[s]
    <3>1. m.to \in Server /\ m.Term \in Int
      BY <1>1 DEF TypeOK, VoteCall, Term
    <3>2. currTerm' = [currTerm EXCEPT ![m.to] = IF m.Term > currTerm[m.to] THEN m.Term ELSE @]
      BY Zenon, <2>3 DEF RequestVote
    <3> QED
      BY <2>0, <3>1, <3>2
  <2>4. ASSUME NEW m \in votes, HandleVoteReply(m) PROVE currTerm'[s] >= currTerm[s]
    <3>1. m.from \in Server /\ m.Term \in Term
      BY Zenon, <1>1 DEF TypeOK, VoteCall
    <3> QED
      BY <2>0, <2>1, <2>4, <3>1 DEF HandleVoteReply, becomeLeader, countVote
  <2>5. ASSUME NEW r \in Server, NEW m \in beats, AppendEntries(r, m)
        PROVE  currTerm'[s] >= currTerm[s]
    <3>1. m.Term \in Int
      BY <1>1 DEF TypeOK, Term
    <3> QED
      BY <2>0, <2>5, <3>1 DEF AppendEntries
  <2>6. CASE currTerm' = currTerm
    BY <2>0, <2>6
  <2> QED
    BY Zenon, <1>1, <2>1, <2>2, <2>3, <2>4, <2>5, <2>6
       DEF Next, Fire, HeartbeatTimeout, SendHeartbeat, SendVoteRequest, HandleBeatReply, vars
<1>2. TypeOK /\ [Next]_vars => [\A s \in Server : currTerm'[s] >= currTerm[s]]_vars
  BY Zenon, <1>1
<1> QED
  BY <1>2, TypeCorrect, PTL DEF Spec, TermsGrow

\* A server whose state changes to or from Leader restarts the timer it needs.
LEMMA TimersStep == TypeOK /\ TimersRun /\ [Next]_vars => TimersRun'
<1> SUFFICES ASSUME TypeOK, TimersRun, [Next]_vars, NEW s \in Server
             PROVE  IF state'[s] = "Leader"
                    THEN heartbeatTimer'[s] \/ ticker'[s] = "heartbeat"
                    ELSE electionTimer'[s] \/ ticker'[s] = "election"
  BY Zenon DEF TimersRun
<1>0. /\ state \in [Server -> {"Follower", "Candidate", "Leader"}]
      /\ electionTimer \in [Server -> BOOLEAN] /\ heartbeatTimer \in [Server -> BOOLEAN]
      /\ ticker \in [Server -> {"select", "election", "heartbeat"}]
      /\ IF state[s] = "Leader"
         THEN heartbeatTimer[s] \/ ticker[s] = "heartbeat"
         ELSE electionTimer[s] \/ ticker[s] = "election"
  BY Zenon DEF TypeOK, TimersRun
<1> DEFINE Runs == IF state'[s] = "Leader"
                   THEN heartbeatTimer'[s] \/ ticker'[s] = "heartbeat"
                   ELSE electionTimer'[s] \/ ticker'[s] = "election"
<1>1. ASSUME NEW r \in Server, Fire(r) PROVE Runs
  <2>1. CASE r = s
    BY Zenon, <1>0, <1>1, <2>1 DEF Fire
  <2>2. CASE r # s
    BY Zenon, <1>0, <1>1, <2>2 DEF Fire
  <2> QED
    BY Zenon, <2>1, <2>2
<1>2. ASSUME NEW r \in Server, ElectionTimeout(r) PROVE Runs
  <2>1. CASE r = s
    BY Zenon, <1>0, <1>2, <2>1 DEF ElectionTimeout, startElection, Back, resetTimer
  <2>2. CASE r # s
    BY Zenon, <1>0, <1>2, <2>2 DEF ElectionTimeout, startElection, Back, resetTimer
  <2> QED
    BY <2>1, <2>2
<1>3. ASSUME NEW r \in Server, HeartbeatTimeout(r) PROVE Runs
  <2>1. CASE r = s
    BY Zenon, <1>0, <1>3, <2>1 DEF HeartbeatTimeout, Back, resetTimer
  <2>2. CASE r # s
    BY Zenon, <1>0, <1>3, <2>2 DEF HeartbeatTimeout, Back, resetTimer
  <2> QED
    BY <2>1, <2>2
<1>4. ASSUME NEW r \in Server, NEW t \in Term, stepDown(r, t), UNCHANGED ticker PROVE Runs
  BY Zenon, <1>0, <1>4 DEF stepDown, resetTimer
<1>5. ASSUME NEW m \in votes, RequestVote(m) PROVE Runs
  <2>1. m.to \in Server /\ UNCHANGED <<heartbeatTimer, ticker>>
    BY Zenon, <1>5 DEF TypeOK, VoteCall, RequestVote
  <2>2. CASE m.to # s
    <3>1. state'[s] = state[s] /\ electionTimer'[s] = electionTimer[s]
      BY Zenon, <1>0, <1>5, <2>1, <2>2 DEF RequestVote, resetTimer
    <3> QED
      BY Zenon, <1>0, <2>1, <3>1
  <2>3. CASE m.to = s /\ m.Term > currTerm[s]
    <3>1. m.Term >= currTerm[s]
      BY <2>3 DEF TypeOK, VoteCall, Term
    <3>2. state'[s] = "Follower" /\ electionTimer'[s] = TRUE
      BY Zenon, <1>0, <1>5, <2>3, <3>1 DEF RequestVote, resetTimer
    <3> QED
      BY Zenon, <3>2
  <2>4. CASE m.to = s /\ ~(m.Term > currTerm[s])
    <3>1. state'[s] = state[s] /\ (electionTimer'[s] = electionTimer[s] \/ electionTimer'[s] = TRUE)
      BY Zenon, <1>0, <1>5, <2>4 DEF RequestVote, resetTimer
    <3> QED
      BY Zenon, <1>0, <2>1, <3>1
  <2> QED
    BY Zenon, <2>2, <2>3, <2>4
<1>6. ASSUME NEW m \in votes, HandleVoteReply(m) PROVE Runs
  <2>1. m.from \in Server /\ m.Term \in Term /\ UNCHANGED ticker
    BY Zenon, <1>6 DEF TypeOK, VoteCall, HandleVoteReply
  <2>2. CASE becomeLeader(m.from)
    BY Zenon, <1>0, <2>1, <2>2 DEF becomeLeader, resetTimer
  <2>3. CASE UNCHANGED <<state, electionTimer, heartbeatTimer>>
    BY Zenon, <1>0, <2>1, <2>3
  <2> QED
    BY Zenon, <1>4, <1>6, <2>1, <2>2, <2>3 DEF HandleVoteReply, countVote
<1>7. ASSUME NEW r \in Server, NEW m \in beats, AppendEntries(r, m) PROVE Runs
  <2>1. UNCHANGED <<heartbeatTimer, ticker>>
    BY Zenon, <1>7 DEF AppendEntries
  <2>2. \/ UNCHANGED <<state, electionTimer>>
        \/ state' = [state EXCEPT ![r] = "Follower"] /\ electionTimer' = [electionTimer EXCEPT ![r] = TRUE]
    BY Zenon, <1>7 DEF AppendEntries, resetTimer
  <2> QED
    BY Zenon, <1>0, <2>1, <2>2
<1>8. CASE UNCHANGED <<state, timerVars>>
  BY Zenon, <1>0, <1>8
<1> QED
  BY Zenon, <1>1, <1>2, <1>3, <1>4, <1>5, <1>6, <1>7, <1>8
     DEF Next, SendHeartbeat, SendVoteRequest, HandleBeatReply, vars

\* A leader always has its heartbeat coming, and every other server its
\* election.
THEOREM TimersAlwaysRun == Spec => []TimersRun
<1>1. Make => TimersRun
  BY Zenon DEF Make, TimersRun
<1> QED
  BY <1>1, TimersStep, TypeCorrect, PTL DEF Spec

-----------------------------------------------------------------------------
(* One vote per term *)

\* A server that moves to a newer term has not voted in it.
LEMMA NewerTerm ==
    ASSUME TypeOK, VoteInv, NEW r \in Server, NEW T \in Term, T >= currTerm[r],
           currTerm' = [currTerm EXCEPT ![r] = T],
           state' = [state EXCEPT ![r] = "Follower"],
           \A v \in Server : v # r => voteFor'[v] = voteFor[v],
           T = currTerm[r] => voteFor'[r] = voteFor[r],
           UNCHANGED <<granted, leaders>>
    PROVE  VoteInv'
<1>0. /\ DOMAIN currTerm = Server /\ DOMAIN state = Server
      /\ \A v \in Server : currTerm[v] \in Int /\ T \in Int
      /\ \A t \in Term : t \in Int
  BY DEF TypeOK, Term
<1>1. \A v \in Server : currTerm'[v] = IF v = r THEN T ELSE currTerm[v]
  BY Zenon, <1>0
<1>2. VoteOnce'
  BY Zenon DEF VoteInv, VoteOnce
<1>3. \A v, c \in Server, t \in Term : <<v, t, c>> \in granted' =>
        /\ t <= currTerm'[v]
        /\ t = currTerm'[v] => voteFor'[v] = c \/ <<v, t>> \in leaders'
  BY <1>0, <1>1 DEF VoteInv
<1>4. \A v \in Server, t \in Term : <<v, t>> \in leaders' => t <= currTerm'[v]
  BY <1>0, <1>1 DEF VoteInv
<1>5. \A v \in Server : state'[v] = "Candidate" => voteFor'[v] = v
  BY Zenon, <1>0 DEF VoteInv
<1> QED
  BY Zenon, <1>2, <1>3, <1>4, <1>5 DEF VoteInv

\* The vote that a server gives away is the only one of the term.
LEMMA NewVote ==
    ASSUME TypeOK, VoteInv, NEW r \in Server, NEW c \in Server, NEW T \in Term,
           \/ T > currTerm[r]
           \/ T = currTerm[r] /\ voteFor[r] \in {Nobody, c},
           currTerm' = [currTerm EXCEPT ![r] = T],
           voteFor' = [voteFor EXCEPT ![r] = c],
           granted' = granted \cup {<<r, T, c>>},
           UNCHANGED leaders,
           \A v \in Server : v # r => state'[v] = state[v],
           state'[r] = "Candidate" => c = r
    PROVE  VoteInv'
<1>0. /\ DOMAIN currTerm = Server /\ DOMAIN voteFor = Server
      /\ \A v \in Server : currTerm[v] \in Int /\ T \in Int
      /\ \A t \in Term : t \in Int
  BY DEF TypeOK, Term
<1>1. \A v \in Server : /\ currTerm'[v] = IF v = r THEN T ELSE currTerm[v]
                        /\ voteFor'[v] = IF v = r THEN c ELSE voteFor[v]
  BY Zenon, <1>0
<1>2. \A d \in Server : <<r, T, d>> \in granted => d = c \/ <<r, T>> \in leaders
  BY <1>0 DEF VoteInv
<1>3. VoteOnce'
  BY Zenon, <1>2 DEF VoteInv, VoteOnce
<1>4. ASSUME NEW v \in Server, NEW d \in Server, NEW t \in Term, <<v, t, d>> \in granted'
      PROVE  /\ t <= currTerm'[v]
             /\ t = currTerm'[v] => voteFor'[v] = d \/ <<v, t>> \in leaders'
  <2>1. CASE <<v, t, d>> = <<r, T, c>>
    BY <1>0, <1>1, <2>1
  <2>2. CASE <<v, t, d>> \in granted
    <3>1. /\ t <= currTerm[v]
          /\ t = currTerm[v] => voteFor[v] = d \/ <<v, t>> \in leaders
      BY Zenon, <2>2 DEF VoteInv
    <3>2. CASE v = r
      BY <1>0, <1>1, <1>2, <2>2, <3>1, <3>2
    <3>3. CASE v # r
      BY Zenon, <1>1, <3>1, <3>3
    <3> QED
      BY Zenon, <3>2, <3>3
  <2> QED
    BY Zenon, <1>4, <2>1, <2>2
<1>5. \A v \in Server, t \in Term : <<v, t>> \in leaders' => t <= currTerm'[v]
  BY <1>0, <1>1 DEF VoteInv
<1>6. \A v \in Server : state'[v] = "Candidate" => voteFor'[v] = v
  BY Zenon, <1>1 DEF VoteInv
<1> QED
  BY Zenon, <1>3, <1>4, <1>5, <1>6 DEF VoteInv

LEMMA VoteStep == TypeOK /\ VoteInv /\ [Next]_vars => VoteInv'
<1> SUFFICES ASSUME TypeOK, VoteInv, [Next]_vars PROVE VoteInv'
  OBVIOUS
<1>0. /\ DOMAIN currTerm = Server /\ DOMAIN state = Server /\ DOMAIN voteFor = Server
      /\ \A v \in Server : currTerm[v] \in Term
      /\ \A t \in Term : t \in Int
  BY DEF TypeOK, Term
<1>1. ASSUME NEW r \in Server, NEW t \in Term, stepDown(r, t), UNCHANGED <<granted, leaders>>
      PROVE  VoteInv'
  <2>1. /\ t > currTerm[r] /\ t >= currTerm[r] /\ t # currTerm[r]
        /\ \A v \in Server : v # r => voteFor'[v] = voteFor[v]
    BY <1>0, <1>1 DEF stepDown
  <2> QED
    BY Zenon, <1>1, <2>1, NewerTerm DEF stepDown
<1>2. ASSUME NEW r \in Server, NEW m \in beats, AppendEntries(r, m) PROVE VoteInv'
  <2>1. m.Term \in Term /\ UNCHANGED <<voteFor, granted, leaders>>
    BY Zenon, <1>2 DEF TypeOK, AppendEntries
  <2>2. CASE UNCHANGED srvVars
    BY Zenon, <2>1, <2>2 DEF VoteInv, VoteOnce
  <2>3. CASE ~UNCHANGED srvVars
    BY Zenon, <1>2, <2>1, <2>3, NewerTerm DEF AppendEntries
  <2> QED
    BY Zenon, <2>2, <2>3
<1>3. ASSUME NEW r \in Server, startElection(r), UNCHANGED leaders PROVE VoteInv'
  <2>1. currTerm[r] + 1 \in Term /\ currTerm[r] + 1 > currTerm[r]
    BY <1>0, <1>3 DEF startElection, Term
  <2>2. /\ currTerm' = [currTerm EXCEPT ![r] = currTerm[r] + 1]
        /\ voteFor' = [voteFor EXCEPT ![r] = r]
        /\ granted' = granted \cup {<<r, currTerm[r] + 1, r>>}
        /\ \A v \in Server : v # r => state'[v] = state[v]
    BY Zenon, <1>0, <1>3 DEF startElection
  <2> QED
    BY Zenon, <1>3, <2>1, <2>2, NewVote
<1>4. ASSUME NEW m \in votes, RequestVote(m) PROVE VoteInv'
  <2> DEFINE s     == m.to
             newer == m.Term > currTerm[s]
             grant == m.Term >= currTerm[s] /\ (newer \/ voteFor[s] \in {Nobody, m.from})
  <2>0. s \in Server /\ m.from \in Server /\ m.Term \in Term /\ UNCHANGED leaders
    BY Zenon, <1>4 DEF TypeOK, VoteCall, RequestVote
  <2>1. /\ currTerm' = [currTerm EXCEPT ![s] = IF newer THEN m.Term ELSE @]
        /\ state' = [state EXCEPT ![s] = IF newer THEN "Follower" ELSE @]
        /\ voteFor' = [voteFor EXCEPT ![s] = IF grant THEN m.from ELSE @]
        /\ granted' = IF grant THEN granted \cup {<<s, m.Term, m.from>>} ELSE granted
    BY Zenon, <1>4 DEF RequestVote
  <2>2. CASE grant
    <3>1. currTerm' = [currTerm EXCEPT ![s] = m.Term]
      <4>1. newer \/ m.Term = currTerm[s]
        BY <1>0, <2>0, <2>2
      <4> QED
        BY Zenon, <1>0, <2>0, <2>1, <4>1
    <3>2. m.Term > currTerm[s] \/ (m.Term = currTerm[s] /\ voteFor[s] \in {Nobody, m.from})
      BY <1>0, <2>0, <2>2
    <3>3. \A v \in Server : v # s => state'[v] = state[v]
      BY Zenon, <1>0, <2>0, <2>1
    <3>4. state'[s] = "Candidate" => m.from = s
      <4>1. CASE newer
        BY Zenon, <1>0, <2>0, <2>1, <4>1
      <4>2. CASE ~newer
        <5>1. state'[s] = state[s] /\ voteFor[s] \in {Nobody, m.from}
          BY Zenon, <1>0, <2>0, <2>1, <2>2, <4>2
        <5> QED
          BY Zenon, <2>0, <5>1 DEF VoteInv
      <4> QED
        BY Zenon, <4>1, <4>2
    <3>5. voteFor' = [voteFor EXCEPT ![s] = m.from] /\ granted' = granted \cup {<<s, m.Term, m.from>>}
      BY Zenon, <2>1, <2>2
    <3> QED
      BY Zenon, <2>0, <3>1, <3>2, <3>3, <3>4, <3>5, NewVote
  <2>3. CASE ~grant
    <3>1. ~newer
      <4>1. m.Term \in Int /\ currTerm[s] \in Int
        BY Zenon, <1>0, <2>0
      <4> QED
        BY <2>3, <4>1
    <3>2. /\ currTerm' = [currTerm EXCEPT ![s] = @] /\ state' = [state EXCEPT ![s] = @]
          /\ voteFor' = [voteFor EXCEPT ![s] = @] /\ granted' = granted
      <4> HIDE DEF newer, grant
      <4> QED
        BY Zenon, <2>1, <2>3, <3>1
    <3>3. UNCHANGED <<currTerm, state, voteFor, granted>>
      BY Zenon, <2>0, <3>2 DEF TypeOK
    <3> QED
      BY Zenon, <2>0, <3>3 DEF VoteInv, VoteOnce
  <2> QED
    BY Zenon, <2>2, <2>3
<1>5. ASSUME NEW r \in Server, becomeLeader(r), UNCHANGED granted PROVE VoteInv'
  <2>1. \A v \in Server : v # r => voteFor'[v] = voteFor[v] /\ state'[v] = state[v]
    BY Zenon, <1>0, <1>5 DEF becomeLeader
  <2>2. /\ currTerm' = currTerm /\ leaders' = leaders \cup {<<r, currTerm[r]>>}
        /\ state'[r] = "Leader"
    BY Zenon, <1>0, <1>5 DEF becomeLeader
  <2>3. VoteOnce'
    BY Zenon, <1>5, <2>2 DEF VoteInv, VoteOnce
  <2>4. \A v, c \in Server, t \in Term : <<v, t, c>> \in granted' =>
          /\ t <= currTerm'[v]
          /\ t = currTerm'[v] => voteFor'[v] = c \/ <<v, t>> \in leaders'
    BY Zenon, <1>5, <2>1, <2>2 DEF VoteInv
  <2>5. \A v \in Server, t \in Term : <<v, t>> \in leaders' => t <= currTerm'[v]
    BY <1>0, <2>2 DEF VoteInv
  <2>6. \A v \in Server : state'[v] = "Candidate" => voteFor'[v] = v
    BY Zenon, <2>1, <2>2 DEF VoteInv
  <2> QED
    BY Zenon, <2>3, <2>4, <2>5, <2>6 DEF VoteInv
<1>6. CASE UNCHANGED <<currTerm, voteFor, state, granted, leaders>>
  BY Zenon, <1>6 DEF VoteInv, VoteOnce
<1>7. ASSUME NEW m \in votes, HandleVoteReply(m) PROVE VoteInv'
  <2>1. m.from \in Server /\ m.Term \in Term /\ UNCHANGED granted
    BY Zenon, <1>7 DEF TypeOK, VoteCall, HandleVoteReply
  <2> QED
    BY Zenon, <1>1, <1>5, <1>6, <1>7, <2>1 DEF HandleVoteReply, countVote
<1> QED
  BY Zenon, <1>1, <1>2, <1>3, <1>4, <1>6, <1>7
     DEF Next, Fire, ElectionTimeout, HeartbeatTimeout, SendHeartbeat, SendVoteRequest,
         HandleBeatReply, vars

\* voteFor is the vote of the current term, until its owner leads.
THEOREM VoteInvariant == Spec => []VoteInv
<1>1. Make => VoteInv
  BY Zenon DEF Make, VoteInv, VoteOnce
<1> QED
  BY <1>1, VoteStep, TypeCorrect, PTL DEF Spec

\* A server that has not led in a term voted for at most one candidate in it.
THEOREM VotesAreSingle == Spec => []VoteOnce
<1>1. VoteInv => VoteOnce
  BY Zenon DEF VoteInv
<1> QED
  BY <1>1, VoteInvariant, PTL
=============================================================================
