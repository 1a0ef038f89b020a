-------------------------------- MODULE Lock --------------------------------
(***************************************************************************)
(* The lock of src/kvsrv1/lock/lock.go, built on Clerk.Get and Clerk.Put,  *)
(* composed with the key/value service of KvSrv.  A client acquires,       *)
(* stays in its critical section, and releases, as oneClient does in       *)
(* lock_test.go.  The lock is one key: absent or Empty when it is free,    *)
(* the holder's clientID otherwise.                                        *)
(***************************************************************************)
EXTENDS KvSrv

CONSTANTS
    lockName,    \* the key that holds the lock
    clientID,    \* Lock.clientID, drawn by MakeLock from nrand
    MaxAcquire   \* bound: how often the clients call Acquire

\* nrand draws from a billion values around the current nanosecond; the lock
\* relies on the draws being different.
ASSUME LockAssumption ==
    /\ lockName \in Key
    /\ clientID \in [Clnt -> Value \ {Empty}]
    /\ \A c, d \in Clnt : clientID[c] = clientID[d] => c = d
    /\ MaxAcquire \in Nat

VARIABLES
    pc,          \* where the client is in Acquire or Release, see PC
    acquires     \* how often the clients have called Acquire

lockVars == <<pc, acquires>>
vars     == <<kvVars, lockVars>>

\* "out": neither waits for the lock nor holds it; "get", "put", "check": in
\* that call of Acquire, "check" being the Get after an ErrMaybe; "backoff":
\* asleep at the end of Acquire's loop; "held": Acquire has returned;
\* "relget", "relput": in that call of Release.
PC == {"out", "get", "put", "check", "backoff", "held", "relget", "relput"}

Init ==
    /\ KvInit
    /\ pc = [c \in Clnt |-> "out"]
    /\ acquires = 0

-----------------------------------------------------------------------------
Goto(c, l) == pc' = [pc EXCEPT ![c] = l]

\* The lock code calls the clerk and will go on at l, or goes on at l at once.
GetAnd(c, l)         == Invoke(c, GetArgs(c, lockName)) /\ Goto(c, l)
PutAnd(c, v, ver, l) == Invoke(c, PutArgs(c, lockName, v, ver)) /\ Goto(c, l)
Local(c, l)          == Goto(c, l) /\ UNCHANGED kvVars

\* The clerk has returned to the lock code at l.
At(c, l) == pc[c] = l /\ call[c] = "idle"

Acquire(c) ==
    /\ At(c, "out")
    /\ acquires < MaxAcquire
    /\ acquires' = acquires + 1
    /\ GetAnd(c, "get")

\* Acquire's switch on what the key holds.
AcquireGot(c) ==
    /\ At(c, "get")
    /\ LET locker == reply[c].Value
       IN  \/ /\ reply[c].Err = ErrNoKey
              /\ PutAnd(c, clientID[c], 0, "put")
           \/ /\ reply[c].Err # ErrNoKey
              /\ \/ locker = clientID[c] /\ Local(c, "held")
                 \/ locker = Empty /\ PutAnd(c, clientID[c], reply[c].Version, "put")
                 \/ locker \notin {clientID[c], Empty} /\ Local(c, "backoff")
    /\ UNCHANGED acquires

\* Fault: Acquire takes ErrMaybe for success.
AcquirePutHopeful(c) ==
    /\ At(c, "put")
    /\ Local(c, IF reply[c].Err \in {OK, ErrMaybe} THEN "held" ELSE "backoff")
    /\ UNCHANGED acquires

AcquirePut(c) ==
    /\ At(c, "put")
    /\ \/ reply[c].Err = OK /\ Local(c, "held")
       \/ reply[c].Err = ErrMaybe /\ GetAnd(c, "check")
       \/ reply[c].Err \notin {OK, ErrMaybe} /\ Local(c, "backoff")
    /\ UNCHANGED acquires

\* After ErrMaybe the key says whether the put took effect.
AcquireChecked(c) ==
    /\ At(c, "check")
    /\ Local(c, IF reply[c].Value = clientID[c] THEN "held" ELSE "backoff")
    /\ UNCHANGED acquires

Retry(c) ==
    /\ At(c, "backoff")
    /\ GetAnd(c, "get")
    /\ UNCHANGED acquires

Release(c) ==
    /\ At(c, "held")
    /\ GetAnd(c, "relget")
    /\ UNCHANGED acquires

\* Fault: Release's test of the holder is inverted.
ReleaseGotInverted(c) ==
    /\ At(c, "relget")
    /\ IF reply[c].Err = ErrNoKey \/ reply[c].Value = clientID[c]
       THEN Local(c, "out")
       ELSE PutAnd(c, Empty, reply[c].Version, "relput")
    /\ UNCHANGED acquires

ReleaseGot(c) ==
    /\ At(c, "relget")
    /\ IF reply[c].Err = ErrNoKey \/ reply[c].Value # clientID[c]
       THEN Local(c, "out")
       ELSE PutAnd(c, Empty, reply[c].Version, "relput")
    /\ UNCHANGED acquires

\* Anything but OK sends Release round its loop.
ReleasePut(c) ==
    /\ At(c, "relput")
    /\ \/ reply[c].Err = OK /\ Local(c, "out")
       \/ reply[c].Err # OK /\ GetAnd(c, "relget")
    /\ UNCHANGED acquires

-----------------------------------------------------------------------------
LockStep(c) ==
    \/ Acquire(c) \/ AcquireGot(c) \/ AcquirePut(c) \/ AcquireChecked(c)
    \/ Retry(c)
    \/ Release(c) \/ ReleaseGot(c) \/ ReleasePut(c)

Service ==
    /\ \/ \E c \in Clnt : Transport(c) \/ Execute(c) \/ Return(c)
       \/ \E r \in late : ExecuteLate(r)
    /\ UNCHANGED lockVars

Next == Service \/ \E c \in Clnt : LockStep(c)

Spec == Init /\ [][Next]_vars

\* Every goroutine keeps running.  The network loses one message in ten, so a
\* request that is sent again and again is dispatched, and replies that come
\* again and again are delivered.
Fairness ==
    \A c \in Clnt :
        /\ WF_vars(LockStep(c))
        /\ WF_vars((Execute(c) \/ Resend(c) \/ Return(c)) /\ UNCHANGED lockVars)
        /\ SF_vars(Dispatch(c) /\ UNCHANGED lockVars)
        /\ SF_vars(Execute(c) /\ UNCHANGED lockVars)
        /\ SF_vars(Deliver(c) /\ UNCHANGED lockVars)

FairSpec == Spec /\ Fairness

-----------------------------------------------------------------------------
(* Properties *)

TypeOK ==
    /\ KvTypeOK
    /\ pc \in [Clnt -> PC]
    /\ acquires \in 0..MaxAcquire

\* A client holds the lock from Acquire's return until Release has freed it.
Holds(c) == pc[c] = "held"

\* "two clients acquired lock" (lock_test.go) never happens, with requests and
\* replies lost and handlers run late.
MutualExclusion == \A c, d \in Clnt : Holds(c) /\ Holds(d) => c = d

\* While a client holds the lock the key says so: no put of another client, and
\* no late copy of the client's own earlier puts, overwrites it.
HolderRecorded == \A c \in Clnt : Holds(c) => KV[lockName] = clientID[c]

-----------------------------------------------------------------------------
(* Why it holds: the inductive invariant *)

\* The version of the lock's key; requests with an older one have no effect.
ver == VersionMap[lockName]

\* The current RPC has yet to be executed for the last time / has been.
Unanswered(c) == call[c] \in {"sent", "running", "failed"}
Answered(c)   == call[c] \in {"done", "replied", "idle"}

\* Each program counter has its operation.
OpsInv ==
    \A c \in Clnt :
        /\ op[c].clnt = c
        /\ op[c].type = "put" => op[c].key = lockName /\ op[c].version <= ver
        /\ pc[c] \in {"get", "check", "relget"} => op[c] = GetArgs(c, lockName)
        /\ pc[c] = "put" => op[c].type = "put" /\ op[c].value = clientID[c]
        /\ pc[c] = "relput" => op[c].type = "put" /\ op[c].value = Empty
        /\ pc[c] \in {"out", "backoff", "held"} => call[c] = "idle"

\* A put left behind that can still take effect is the put that its client is
\* still trying to make: an answer to a later attempt proves it dead.
LateInv ==
    \A r \in late :
        /\ r.type = "put" /\ r.key = lockName /\ r.version <= ver
        /\ r.version = ver => op[r.clnt] = r /\ Unanswered(r.clnt)

\* A put that can still take effect acquires a free lock or releases its own.
PutInv ==
    \A c \in Clnt : Unanswered(c) /\ op[c].version = ver =>
        /\ pc[c] = "put" => KV[lockName] \in {NoValue, Empty}
        /\ pc[c] = "relput" => KV[lockName] = clientID[c]

\* What a client has been told: a value read is current as long as the version
\* is, the client's own name stays in the key until the client removes it, and
\* so does a successful put of that name.  In Release, a client that reads another
\* value, or removes its own, is rid of the lock.  A put that was answered is dead.
ReplyInv ==
    \A c \in Clnt : Answered(c) =>
        /\ pc[c] \in {"get", "check", "relget"} =>
            /\ reply[c].Err = ErrNoKey => reply[c].Value = Empty
            /\ reply[c].Err # ErrNoKey =>
                /\ reply[c].Version <= ver
                /\ reply[c].Version = ver => KV[lockName] = reply[c].Value
            /\ reply[c].Value = clientID[c] => KV[lockName] = clientID[c]
        /\ pc[c] = "put" /\ reply[c].Err = OK => KV[lockName] = clientID[c]
        /\ pc[c] = "relget" /\ reply[c].Value # clientID[c] => KV[lockName] # clientID[c]
        /\ pc[c] = "relput" /\ reply[c].Err = OK => KV[lockName] # clientID[c]
        /\ op[c].type = "put" => op[c].version < ver

\* The reason for mutual exclusion: a put that can still change the key acquires
\* a free lock or releases its client's own, and a client that holds the lock
\* has no such put.
LockInv ==
    /\ KV[lockName] = NoValue <=> ver = 0
    /\ OpsInv
    /\ LateInv
    /\ PutInv
    /\ ReplyInv
    /\ HolderRecorded

-----------------------------------------------------------------------------
\* Acquire returns once the others' calls are over: no client is left looping in
\* Acquire because an answer of the network made it miss that the lock is its
\* own, or because Release gave up before the key was free.
AcquireReturns ==
    \A c \in Clnt : pc[c] \in {"get", "put", "check", "backoff"} ~> Holds(c)

-----------------------------------------------------------------------------
(* The lock as an abstract mutex *)

\* Where a client is, as its caller sees it: the calls of the clerk that Acquire
\* and Release make do not show.
Where(l) ==
    CASE l \in {"get", "put", "check", "backoff"} -> "waiting"
      [] l \in {"relget", "relput"}               -> "releasing"
      [] OTHER                                    -> l

absWhere == [c \in Clnt |-> Where(pc[c])]

\* The lock is granted to the client that the key names.
absOwner == {c \in Clnt : KV[lockName] = clientID[c]}

Mutex == INSTANCE Mutex WITH where <- absWhere, owner <- absOwner

\* The lock is a mutex, by whichever of its calls, attempts or late handlers the
\* key changes: it is granted only to a client that waits in Acquire and only when
\* it is nobody's, Acquire returns only to the client it is granted to, only the
\* owner's Release frees it, and Release does not return to one who still owns it.
IsMutex == Mutex!Spec
=============================================================================
