------------------------------- MODULE KvModel -------------------------------
(***************************************************************************)
(* What a key/value service promises its clients: models1/kv.go, the       *)
(* sequential model against which the tests check linearizability.  A      *)
(* client's operation takes effect at one instant between its invocation   *)
(* and its return, as KvModel.Step says.                                   *)
(***************************************************************************)
EXTENDS Naturals

CONSTANTS Clnt, Key, Value, Version, Empty

VARIABLES
    state,    \* KvState of each key (the model is partitioned by key)
    input,    \* KvInput of each client's current operation
    pending,  \* is the client inside an operation?
    effect,   \* has that operation taken effect?
    output    \* KvOutput: of a get once it has read, of a put once it returns

vars == <<state, input, pending, effect, output>>

NoOutput == [Err |-> "OK", Value |-> Empty, Version |-> 0]

KvInput ==
    [type : {"get", "put"}, clnt : Clnt, key : Key, value : Value, version : Version]

\* KvModel.Init
Init ==
    /\ state = [k \in Key |-> [Value |-> Empty, Version |-> 0]]
    /\ \E k \in Key : input = [c \in Clnt |->
            [type |-> "get", clnt |-> c, key |-> k, value |-> Empty, version |-> 0]]
    /\ pending = [c \in Clnt |-> FALSE]
    /\ effect = [c \in Clnt |-> FALSE]
    /\ output = [c \in Clnt |-> NoOutput]

Call(c, inp) ==
    /\ ~pending[c]
    /\ inp.clnt = c
    /\ pending' = [pending EXCEPT ![c] = TRUE]
    /\ input' = [input EXCEPT ![c] = inp]
    /\ effect' = [effect EXCEPT ![c] = FALSE]
    /\ output' = [output EXCEPT ![c] = NoOutput]
    /\ UNCHANGED state

Matches(inp) == state[inp.key].Version = inp.version

\* KvModel.Step, case 0: a get sees the current value; the version it sees is
\* that value's.  A get may read again before it returns.
StepGet(c) ==
    /\ pending[c] /\ input[c].type = "get"
    /\ effect' = [effect EXCEPT ![c] = TRUE]
    /\ \E e \in {"OK", "ErrNoKey"} : output' = [output EXCEPT ![c] =
            [Err |-> e, Value |-> state[input[c].key].Value,
             Version |-> state[input[c].key].Version]]
    /\ UNCHANGED <<state, input, pending>>

Reread(c) ==
    /\ pending[c] /\ input[c].type = "get" /\ effect[c]
    /\ effect' = [effect EXCEPT ![c] = FALSE]
    /\ output' = [output EXCEPT ![c] = NoOutput]
    /\ UNCHANGED <<state, input, pending>>

\* KvModel.Step, case 1, version equal: the put takes effect, once.
StepPut(c) ==
    /\ pending[c] /\ input[c].type = "put" /\ ~effect[c]
    /\ Matches(input[c])
    /\ state' = [state EXCEPT ![input[c].key] =
            [Value |-> input[c].value, Version |-> @.Version + 1]]
    /\ effect' = [effect EXCEPT ![c] = TRUE]
    /\ UNCHANGED <<input, pending, output>>

ReturnGet(c) ==
    /\ pending[c] /\ input[c].type = "get" /\ effect[c]
    /\ pending' = [pending EXCEPT ![c] = FALSE]
    /\ effect' = [effect EXCEPT ![c] = FALSE]
    /\ UNCHANGED <<state, input, output>>

\* The results KvModel.Step accepts for a put: the second line is the case of
\* a version that differs, which changes nothing and takes place here.
AcceptedErr(c) ==
    IF effect[c] THEN {"OK", "ErrMaybe"}
    ELSE IF ~Matches(input[c]) THEN {"ErrVersion", "ErrMaybe"} ELSE {}

ReturnPut(c) ==
    /\ pending[c] /\ input[c].type = "put"
    /\ \E e \in AcceptedErr(c) : output' = [output EXCEPT ![c].Err = e]
    /\ pending' = [pending EXCEPT ![c] = FALSE]
    /\ effect' = [effect EXCEPT ![c] = FALSE]
    /\ UNCHANGED <<state, input>>

Next ==
    \E c \in Clnt :
        \/ \E inp \in KvInput : Call(c, inp)
        \/ StepGet(c) \/ Reread(c) \/ StepPut(c)
        \/ ReturnGet(c) \/ ReturnPut(c)

Spec == Init /\ [][Next]_vars
=============================================================================
