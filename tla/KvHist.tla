------------------------------- MODULE KvHist -------------------------------
(***************************************************************************)
(* The key/value service under clients that call Get and Put as they like, *)
(* the clients of kvsrv_test.go.  Every put writes a value of its own, the *)
(* number of the operation, so that a value names the operation that wrote *)
(* it; writes and returns record the history the properties are about.     *)
(***************************************************************************)
EXTENDS KvSrv, Sequences

CONSTANTS
    MaxOps,      \* bound: operations of all the clients
    MaxVersion   \* bound: the versions that clients put

ASSUME HistAssumption ==
    /\ MaxOps \in Nat /\ MaxVersion \in Nat
    /\ 1..MaxOps \subseteq Value

VARIABLES
    opn,         \* how many operations have begun
    writes,      \* for each key, the values that the server stored, in order
    returns      \* the puts that returned, by value, and with which error

histVars == <<opn, writes, returns>>
vars     == <<kvVars, histVars>>

Init ==
    /\ KvInit
    /\ opn = 0
    /\ writes = [k \in Key |-> <<>>]
    /\ returns = {}

\* What one run of the handler adds to the history.
Record(r) ==
    writes' = IF Installs(r)
              THEN [writes EXCEPT ![r.key] = Append(@, r.value)]
              ELSE writes

Begin(c, r) ==
    /\ opn < MaxOps
    /\ Invoke(c, r)
    /\ opn' = opn + 1
    /\ UNCHANGED <<writes, returns>>

Get(c) == \E k \in Key : Begin(c, GetArgs(c, k))

PutAt(c, k, ver) == Begin(c, PutArgs(c, k, opn + 1, ver))

\* A client may put with any version, or only with a version that the key has
\* had, such as the one that a Get returned to it.
Put(c) == \E k \in Key, ver \in 0..MaxVersion : PutAt(c, k, ver)
PutKnown(c) ==
    \E k \in Key, ver \in 0..MaxVersion : ver <= VersionMap[k] /\ PutAt(c, k, ver)

Finish(c) ==
    /\ Return(c)
    /\ returns' = IF op[c].type = "put"
                  THEN returns \cup {<<op[c].value, ClerkErr(c)>>}
                  ELSE returns
    /\ UNCHANGED <<opn, writes>>

Service ==
    \/ \E c \in Clnt :
        \/ Transport(c) /\ UNCHANGED histVars
        \/ Execute(c) /\ Record(op[c]) /\ UNCHANGED <<opn, returns>>
        \/ Finish(c)
    \/ \E r \in late : ExecuteLate(r) /\ Record(r) /\ UNCHANGED <<opn, returns>>

Next      == Service \/ \E c \in Clnt : Get(c) \/ Put(c)
NextKnown == Service \/ \E c \in Clnt : Get(c) \/ PutKnown(c)

Spec      == Init /\ [][Next]_vars
SpecKnown == Init /\ [][NextKnown]_vars

-----------------------------------------------------------------------------
(* Properties *)

TypeOK ==
    /\ KvTypeOK
    /\ opn \in 0..MaxOps
    /\ writes \in [Key -> Seq(Value)]
    /\ returns \in SUBSET (Value \X Err)

Written(v) == \E k \in Key : \E i \in 1..Len(writes[k]) : writes[k][i] = v

\* No put is stored twice, however often its RPC is sent, lost, and executed
\* late: the version in the request makes server.go's Put idempotent.
AtMostOnce ==
    \A k, l \in Key : \A i \in 1..Len(writes[k]), j \in 1..Len(writes[l]) :
        writes[k][i] = writes[l][j] => k = l /\ i = j

\* Clerk.Put's answers are exact: after OK the value has been stored, after
\* ErrVersion "the Put was definitely not performed" (client.go), and it never
\* will be, though requests of other operations are still executed late.
ExactAnswers ==
    \A ret \in returns :
        /\ ret[2] = OK => Written(ret[1])
        /\ ret[2] = ErrVersion => ~Written(ret[1])

\* Versions count the stores, and the newest store is what a Get reads: the two
\* maps of server.go agree.
VersionsCount ==
    \A k \in Key :
        /\ VersionMap[k] = Len(writes[k])
        /\ KV[k] = IF writes[k] = <<>> THEN NoValue ELSE writes[k][Len(writes[k])]

\* A put that returned has no effect any more: no handler left behind by the
\* network stores its value later.
NoLateEffect ==
    [][\A k \in Key : writes'[k] # writes[k] =>
        \A e \in Err : <<writes'[k][Len(writes'[k])], e>> \notin returns]_vars

-----------------------------------------------------------------------------
(* Why the answers are exact: the inductive invariant *)

\* The puts that may still reach the server, and the last one of each client.
Puts == late \cup {r \in {op[c] : c \in Clnt} : r.type = "put"}

\* A put has one number and one version, and can only have been stored there.
PutsInv ==
    /\ \A k \in Key : \A i \in 1..Len(writes[k]) : writes[k][i] \in 1..opn
    /\ \A c \in Clnt : op[c].clnt = c
    /\ \A r \in Puts :
        /\ r.type = "put" /\ r.value \in 1..opn
        /\ \A k \in Key : \A i \in 1..Len(writes[k]) :
            writes[k][i] = r.value => r.key = k /\ r.version + 1 = i
    /\ \A q, r \in Puts : q.value = r.value => q = r

\* No copy of the put v is left to run and none has been stored.
Dead(v) == ~Written(v) /\ \A r \in late : r.value # v

\* What the state of the RPC says about the put.
CallInv ==
    \A c \in Clnt : op[c].type = "put" =>
        /\ call[c] \in {"sent", "running"} /\ firstAttempt[c] => Dead(op[c].value)
        /\ call[c] \in {"done", "replied"} =>
            /\ reply[c].Err = OK => Written(op[c].value)
            /\ reply[c].Err = ErrVersion /\ firstAttempt[c] => Dead(op[c].value)

ReturnsInv ==
    \A ret \in returns :
        /\ ret[1] \in 1..opn
        /\ ret[2] = OK => Written(ret[1])
        /\ ret[2] = ErrVersion =>
            /\ Dead(ret[1])
            /\ \A c \in Clnt :
                call[c] # "idle" /\ op[c].type = "put" => op[c].value # ret[1]

HistInv == VersionsCount /\ PutsInv /\ CallInv /\ ReturnsInv /\ AtMostOnce

-----------------------------------------------------------------------------
(* Why nothing happens late: clients that put with versions they have read *)

\* The server is past the version of the put r and will not store it any more.
Spent(r) == r.version < VersionMap[r.key]

\* A put that is answered is spent, and so is one that the network left behind,
\* unless it is its client's current one.
KnownInv ==
    /\ \A r \in Puts : r.version <= VersionMap[r.key]
    /\ \A r \in late : Spent(r) \/ op[r.clnt] = r
    /\ \A c \in Clnt : op[c].type = "put" =>
        /\ call[c] \in {"done", "replied", "idle"} => Spent(op[c])
        /\ call[c] \in {"done", "replied"} => reply[c] \in {PutReply(OK), PutReply(ErrVersion)}
    /\ \A ret \in returns : \A r \in Puts : r.value = ret[1] => Spent(r)

-----------------------------------------------------------------------------
(* Linearizability: the service implements KvModel *)

absState ==
    [k \in Key |-> [Value   |-> IF KV[k] = NoValue THEN Empty ELSE KV[k],
                    Version |-> VersionMap[k]]]

absPending == [c \in Clnt |-> call[c] # "idle"]

\* A get has read when its handler has run, unless the reply is lost; a put has
\* taken effect when it is stored, by whichever copy.
Read(c) == op[c].type = "get" /\ call[c] \in {"done", "replied"}

absEffect ==
    [c \in Clnt |-> Read(c) \/ (op[c].type = "put" /\ call[c] # "idle" /\ Written(op[c].value))]

absOutput == [c \in Clnt |-> IF call[c] = "idle" \/ Read(c) THEN reply[c] ELSE PutReply(OK)]

KvModel == INSTANCE KvModel WITH
    Version <- 0..MaxVersion,
    state   <- absState,
    input   <- op,
    pending <- absPending,
    effect  <- absEffect,
    output  <- absOutput

\* Clients that put with versions they have read see one linearizable register
\* per key, the sequential model of models1/kv.go.
Linearizable == KvModel!Spec
=============================================================================
