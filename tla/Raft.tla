-------------------------------- MODULE Raft --------------------------------
(***************************************************************************)
(* The leader election of src/raft1/raft.go (part 3A of the lab; the log,  *)
(* persistence and snapshots are not written yet).  A server has its two   *)
(* timers, the ticker goroutine, the RPC handlers, and one goroutine per   *)
(* RPC that it sends, which reads rf.currTerm only when it runs.           *)
(*                                                                         *)
(* labrpc delivers a call late, or never, and its reply likewise: a        *)
(* message that is lost is one that nobody takes.                          *)
(***************************************************************************)
EXTENDS Integers, FiniteSets

CONSTANTS
    Server,       \* rf.peers
    Nobody,       \* voteFor == -1
    MaxTerm,      \* bound: the terms for which servers start elections
    MaxElections  \* bound: how many elections all the servers start

ASSUME RaftAssumption ==
    /\ Nobody \notin Server
    /\ MaxTerm \in Nat /\ MaxElections \in Nat

VARIABLES
    currTerm, voteFor, state, voteCount,
    electionTimer,   \* is the timer running, or its signal in the channel?
    heartbeatTimer,
    ticker,          \* the ticker is in its select, or has received from the
                     \* "election" or the "heartbeat" timer and waits for rf.mu
    votes,           \* the goroutines of startElection, see VoteCall
    beats,           \* the AppendEntries that have been sent: any number of
                     \* copies, as a leader sends them every 100 ms
    beatReplies,     \* the terms of the replies that refuse one
    granted,         \* history: <<voter, term, candidate>>
    leaders          \* history: <<server, term>>

srvVars   == <<currTerm, voteFor, state, voteCount>>
timerVars == <<electionTimer, heartbeatTimer, ticker>>
netVars   == <<votes, beats, beatReplies>>
vars      == <<srvVars, timerVars, netVars, granted, leaders>>

Term == 0..MaxTerm

\* The call that the election of term e makes to a peer: "spawned" until it has
\* read rf.currTerm, "sent" until the handler has run, then "replied".
VoteCall ==
    [from : Server, to : Server, e : Term, stage : {"spawned", "sent", "replied"},
     Term : Term, VoteGranted : BOOLEAN]

Make ==
    /\ currTerm = [s \in Server |-> 0]
    /\ voteFor = [s \in Server |-> Nobody]
    /\ state = [s \in Server |-> "Follower"]
    /\ voteCount = [s \in Server |-> 0]
    /\ electionTimer = [s \in Server |-> TRUE]
    /\ heartbeatTimer = [s \in Server |-> TRUE]
    /\ ticker = [s \in Server |-> "select"]
    /\ votes = {} /\ beats = {} /\ beatReplies = {}
    /\ granted = {} /\ leaders = {}

-----------------------------------------------------------------------------
(* The ticker *)

\* The select receives from a timer's channel.
Fire(s) ==
    /\ ticker[s] = "select"
    /\ \/ /\ electionTimer[s]
          /\ electionTimer' = [electionTimer EXCEPT ![s] = FALSE]
          /\ ticker' = [ticker EXCEPT ![s] = "election"]
          /\ UNCHANGED heartbeatTimer
       \/ /\ heartbeatTimer[s]
          /\ heartbeatTimer' = [heartbeatTimer EXCEPT ![s] = FALSE]
          /\ ticker' = [ticker EXCEPT ![s] = "heartbeat"]
          /\ UNCHANGED electionTimer
    /\ UNCHANGED <<srvVars, netVars, granted, leaders>>

resetTimer(timer, s) == timer' = [timer EXCEPT ![s] = TRUE]

\* Fault: the candidate does not vote for itself.
startElectionUnvoted(s) ==
    /\ currTerm[s] < MaxTerm
    /\ Cardinality({g \in granted : g[1] = g[3]}) < MaxElections
    /\ currTerm' = [currTerm EXCEPT ![s] = @ + 1]
    /\ voteCount' = [voteCount EXCEPT ![s] = 1]
    /\ state' = [state EXCEPT ![s] = "Candidate"]
    /\ resetTimer(electionTimer, s)
    /\ votes' = votes \cup
        [from : {s}, to : Server \ {s}, e : {currTerm[s] + 1}, stage : {"spawned"},
         Term : {0}, VoteGranted : {FALSE}]
    /\ UNCHANGED voteFor
    /\ granted' = granted \cup {<<s, currTerm[s] + 1, s>>}

startElection(s) ==
    /\ currTerm[s] < MaxTerm
    /\ Cardinality({g \in granted : g[1] = g[3]}) < MaxElections
    /\ currTerm' = [currTerm EXCEPT ![s] = @ + 1]
    /\ voteFor' = [voteFor EXCEPT ![s] = s]
    /\ voteCount' = [voteCount EXCEPT ![s] = 1]
    /\ state' = [state EXCEPT ![s] = "Candidate"]
    /\ resetTimer(electionTimer, s)
    /\ votes' = votes \cup
        [from : {s}, to : Server \ {s}, e : {currTerm[s] + 1}, stage : {"spawned"},
         Term : {0}, VoteGranted : {FALSE}]
    /\ granted' = granted \cup {<<s, currTerm[s] + 1, s>>}

Back(s) == ticker' = [ticker EXCEPT ![s] = "select"]

ElectionTimeout(s) ==
    /\ ticker[s] = "election"
    /\ Back(s)
    /\ \/ state[s] # "Leader" /\ startElection(s)
       \/ state[s] = "Leader" /\ UNCHANGED <<srvVars, electionTimer, votes, granted>>
    /\ UNCHANGED <<heartbeatTimer, beats, beatReplies, leaders>>

\* A leader's broadcast makes more copies of what SendHeartbeat sends.
HeartbeatTimeout(s) ==
    /\ ticker[s] = "heartbeat"
    /\ Back(s)
    /\ IF state[s] = "Leader" THEN resetTimer(heartbeatTimer, s) ELSE UNCHANGED heartbeatTimer
    /\ UNCHANGED <<srvVars, electionTimer, netVars, granted, leaders>>

-----------------------------------------------------------------------------
(* Votes *)

Advance(m, n) == votes' = (votes \ {m}) \cup {n}

\* The goroutine reads the current term, whatever it is by now.
SendVoteRequest(m) ==
    /\ m.stage = "spawned"
    /\ Advance(m, [m EXCEPT !.stage = "sent", !.Term = currTerm[m.from]])
    /\ UNCHANGED <<srvVars, timerVars, beats, beatReplies, granted, leaders>>

\* Fault: voteFor is not tested.
RequestVoteAgain(m) ==
    LET s     == m.to
        newer == m.Term > currTerm[s]
        grant == m.Term >= currTerm[s]
    IN
    /\ m.stage = "sent"
    /\ currTerm' = [currTerm EXCEPT ![s] = IF newer THEN m.Term ELSE @]
    /\ state' = [state EXCEPT ![s] = IF newer THEN "Follower" ELSE @]
    /\ voteCount' = [voteCount EXCEPT ![s] = IF newer THEN 0 ELSE @]
    /\ voteFor' = [voteFor EXCEPT ![s] = IF grant THEN m.from ELSE @]
    /\ IF grant THEN resetTimer(electionTimer, s) ELSE UNCHANGED electionTimer
    /\ granted' = IF grant THEN granted \cup {<<s, m.Term, m.from>>} ELSE granted
    /\ Advance(m, [m EXCEPT !.stage = "replied", !.Term = currTerm'[s], !.VoteGranted = grant])
    /\ UNCHANGED <<heartbeatTimer, ticker, beats, beatReplies, leaders>>

RequestVote(m) ==
    LET s     == m.to
        newer == m.Term > currTerm[s]
        free  == newer \/ voteFor[s] \in {Nobody, m.from}
        grant == m.Term >= currTerm[s] /\ free
    IN
    /\ m.stage = "sent"
    /\ currTerm' = [currTerm EXCEPT ![s] = IF newer THEN m.Term ELSE @]
    /\ state' = [state EXCEPT ![s] = IF newer THEN "Follower" ELSE @]
    /\ voteCount' = [voteCount EXCEPT ![s] = IF newer THEN 0 ELSE @]
    /\ voteFor' = [voteFor EXCEPT ![s] = IF grant THEN m.from ELSE @]
    /\ IF grant THEN resetTimer(electionTimer, s) ELSE UNCHANGED electionTimer
    /\ granted' = IF grant THEN granted \cup {<<s, m.Term, m.from>>} ELSE granted
    /\ Advance(m, [m EXCEPT !.stage = "replied", !.Term = currTerm'[s], !.VoteGranted = grant])
    /\ UNCHANGED <<heartbeatTimer, ticker, beats, beatReplies, leaders>>

\* Fault: the heartbeat timer is not started.
becomeLeaderUntimed(s) ==
    /\ state' = [state EXCEPT ![s] = "Leader"]
    /\ voteCount' = [voteCount EXCEPT ![s] = 0]
    /\ voteFor' = [voteFor EXCEPT ![s] = Nobody]
    /\ leaders' = leaders \cup {<<s, currTerm[s]>>}
    /\ UNCHANGED <<currTerm, electionTimer, heartbeatTimer>>

\* The broadcast's goroutines are in SendHeartbeat.
becomeLeader(s) ==
    /\ state' = [state EXCEPT ![s] = "Leader"]
    /\ voteCount' = [voteCount EXCEPT ![s] = 0]
    /\ voteFor' = [voteFor EXCEPT ![s] = Nobody]
    /\ leaders' = leaders \cup {<<s, currTerm[s]>>}
    /\ resetTimer(heartbeatTimer, s)
    /\ UNCHANGED <<currTerm, electionTimer>>

countVote(s) ==
    /\ voteCount' = [voteCount EXCEPT ![s] = @ + 1]
    /\ UNCHANGED <<currTerm, voteFor, state, electionTimer, heartbeatTimer, leaders>>

\* A reply's term is newer: send this server back to Follower.
stepDown(s, term) ==
    /\ term > currTerm[s]
    /\ currTerm' = [currTerm EXCEPT ![s] = term]
    /\ state' = [state EXCEPT ![s] = "Follower"]
    /\ voteCount' = [voteCount EXCEPT ![s] = 0]
    /\ voteFor' = [voteFor EXCEPT ![s] = Nobody]
    /\ resetTimer(electionTimer, s)
    /\ UNCHANGED heartbeatTimer

\* sendRequestVote after its Call has returned true.
HandleVoteReply(m) ==
    LET s    == m.from
        wins == state[s] = "Candidate" /\ voteCount[s] + 1 > Cardinality(Server) \div 2
    IN
    /\ m.stage = "replied"
    /\ votes' = votes \ {m}
    /\ \/ m.VoteGranted /\ wins /\ becomeLeader(s)
       \/ m.VoteGranted /\ ~wins /\ countVote(s)
       \/ ~m.VoteGranted /\ stepDown(s, m.Term) /\ UNCHANGED leaders
       \/ /\ ~m.VoteGranted /\ m.Term <= currTerm[s]
          /\ UNCHANGED <<srvVars, electionTimer, heartbeatTimer, leaders>>
    /\ UNCHANGED <<ticker, beats, beatReplies, granted>>

-----------------------------------------------------------------------------
(* Heartbeats *)

\* A goroutine of broadcastHeartbeat reads the term; its server may have lost
\* the lead since the goroutine was spawned.
SendHeartbeat(s) ==
    /\ \E t \in Term : <<s, t>> \in leaders
    /\ beats' = beats \cup {[LeaderId |-> s, Term |-> currTerm[s]]}
    /\ UNCHANGED <<srvVars, timerVars, votes, beatReplies, granted, leaders>>

\* Fault: an old leader's term is taken over.
AppendEntriesAnyTerm(s, m) ==
    /\ s # m.LeaderId
    /\ currTerm' = [currTerm EXCEPT ![s] = m.Term]
    /\ state' = [state EXCEPT ![s] = "Follower"]
    /\ voteCount' = [voteCount EXCEPT ![s] = 0]
    /\ resetTimer(electionTimer, s)
    /\ UNCHANGED <<voteFor, heartbeatTimer, ticker, netVars, granted, leaders>>

AppendEntries(s, m) ==
    /\ s # m.LeaderId
    /\ \/ /\ m.Term < currTerm[s]
          /\ beatReplies' = beatReplies \cup {<<m.LeaderId, currTerm[s]>>}
          /\ UNCHANGED <<srvVars, electionTimer>>
       \/ /\ m.Term >= currTerm[s]
          /\ currTerm' = [currTerm EXCEPT ![s] = m.Term]
          /\ state' = [state EXCEPT ![s] = "Follower"]
          /\ voteCount' = [voteCount EXCEPT ![s] = 0]
          /\ resetTimer(electionTimer, s)
          /\ UNCHANGED <<voteFor, beatReplies>>
    /\ UNCHANGED <<heartbeatTimer, ticker, votes, beats, granted, leaders>>

\* sendAppendEntries after its Call has returned true, with Success false.
HandleBeatReply(s, term) ==
    /\ stepDown(s, term)
    /\ UNCHANGED <<ticker, netVars, granted, leaders>>

Next ==
    \/ \E s \in Server :
        \/ Fire(s) \/ ElectionTimeout(s) \/ HeartbeatTimeout(s) \/ SendHeartbeat(s)
        \/ \E m \in beats : AppendEntries(s, m)
        \/ \E t \in Term : <<s, t>> \in beatReplies /\ HandleBeatReply(s, t)
    \/ \E m \in votes : SendVoteRequest(m) \/ RequestVote(m) \/ HandleVoteReply(m)

Spec == Make /\ [][Next]_vars

-----------------------------------------------------------------------------
(* Properties *)

TypeOK ==
    /\ currTerm \in [Server -> Term]
    /\ voteFor \in [Server -> Server \cup {Nobody}]
    /\ state \in [Server -> {"Follower", "Candidate", "Leader"}]
    /\ voteCount \in [Server -> Nat]
    /\ electionTimer \in [Server -> BOOLEAN] /\ heartbeatTimer \in [Server -> BOOLEAN]
    /\ ticker \in [Server -> {"select", "election", "heartbeat"}]
    /\ votes \in SUBSET VoteCall
    /\ beats \in SUBSET [LeaderId : Server, Term : Term]
    /\ beatReplies \in SUBSET (Server \X Term)
    /\ granted \in SUBSET (Server \X Term \X Server)
    /\ leaders \in SUBSET (Server \X Term)

\* raft1/test.go counts it as an error that a "term %d has %d (>1) leaders".
OneLeader ==
    \A s, t \in Server :
        state[s] = "Leader" /\ state[t] = "Leader" /\ currTerm[s] = currTerm[t] => s = t

\* A server votes for one candidate in a term, whatever requests, heartbeats
\* and late replies it sees, with one exception: becomeLeader clears voteFor.
VoteOnce ==
    \A v, c, d \in Server, t \in Term :
        <<v, t, c>> \in granted /\ <<v, t, d>> \in granted =>
            c = d \/ <<v, t>> \in leaders

\* Why: voteFor holds the vote of the current term.
VoteInv ==
    /\ VoteOnce
    /\ \A v, c \in Server, t \in Term : <<v, t, c>> \in granted =>
        /\ t <= currTerm[v]
        /\ t = currTerm[v] => voteFor[v] = c \/ <<v, t>> \in leaders
    /\ \A v \in Server, t \in Term : <<v, t>> \in leaders => t <= currTerm[v]
    /\ \A s \in Server : state[s] = "Candidate" => voteFor[s] = s

\* A server that leads sends heartbeats and one that does not will start an
\* election if it hears nothing, though the select drops the signals that the
\* ticker finds itself in the wrong state for.
TimersRun ==
    \A s \in Server :
        IF state[s] = "Leader"
        THEN heartbeatTimer[s] \/ ticker[s] = "heartbeat"
        ELSE electionTimer[s] \/ ticker[s] = "election"

\* No handler or late reply takes a server back to an earlier term.
TermsGrow == [][\A s \in Server : currTerm'[s] >= currTerm[s]]_vars
=============================================================================
