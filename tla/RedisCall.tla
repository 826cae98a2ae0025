------------------------------ MODULE RedisCall ------------------------------
(***************************************************************************)
(* What execute_command of redis/client.py promises the threads that share *)
(* a client, whatever connections, timeouts and retries do underneath:     *)
(* during a call its command is carried out at most once per attempt, an   *)
(* attempt that was given up may still be carried out later, and a reply   *)
(* that is returned is the reply to the caller's own command.              *)
(*                                                                         *)
(* RedisPool is shown to implement this, and it is what the lock of        *)
(* RedisLock may rely on.                                                  *)
(***************************************************************************)
EXTENDS Integers

CONSTANTS
    Thread,
    Command,
    NoCall,         \* no command
    Error,          \* the outcome of a call that raises
    Store,          \* what the server may hold
    Empty,          \* what it holds at first
    Reply,
    Apply(_, _),    \* what a command does to a store: its reply, the new store
    Retries         \* the retries of a call

VARIABLES
    call,    \* the command a thread waits for
    due,     \* how often a command may still be carried out
    got,     \* the replies to the command a thread waits for
    result,  \* the outcome of a thread's last call
    store,   \* what the server holds
    spoiled  \* an exception that is no Exception has cut off a reading thread

vars == <<call, due, got, result, store, spoiled>>

Init ==
    /\ call = [t \in Thread |-> NoCall]
    /\ due = [cmd \in Command |-> 0]
    /\ got = [t \in Thread |-> {}]
    /\ result = [t \in Thread |-> Error]
    /\ store = Empty
    /\ spoiled = FALSE

\* Nothing new is carried out; attempts may be given up, commands may get lost.
Shrinks == \A cmd \in Command : due'[cmd] \in 0..due[cmd]

Start(t, cmd) ==
    /\ call[t] = NoCall
    /\ call' = [call EXCEPT ![t] = cmd]
    /\ due' = [due EXCEPT ![cmd] = @ + Retries + 1]
    /\ UNCHANGED <<got, result, store, spoiled>>

Execute(cmd) ==
    /\ due[cmd] > 0
    /\ due' = [due EXCEPT ![cmd] = @ - 1]
    /\ store' = Apply(cmd, store).store
    /\ got' = [t \in Thread |-> IF call[t] = cmd THEN got[t] \union {Apply(cmd, store).reply} ELSE got[t]]
    /\ UNCHANGED <<call, result, spoiled>>

Return(t) ==
    /\ call[t] # NoCall
    /\ call' = [call EXCEPT ![t] = NoCall]
    /\ \/ result' = [result EXCEPT ![t] = Error]
       \/ \E r \in IF spoiled THEN Reply ELSE got[t] : result' = [result EXCEPT ![t] = r]
    /\ spoiled' \in {spoiled, TRUE}
    /\ got' = [got EXCEPT ![t] = {}]
    /\ Shrinks
    /\ UNCHANGED store

GiveUp ==
    /\ Shrinks
    /\ UNCHANGED <<call, got, result, store, spoiled>>

\* The server's own doing: a key expires.
Lapse ==
    /\ store' = Empty
    /\ UNCHANGED <<call, due, got, result, spoiled>>

Next ==
    \/ \E t \in Thread : (\E cmd \in Command : Start(t, cmd)) \/ Return(t)
    \/ \E cmd \in Command : Execute(cmd)
    \/ GiveUp \/ Lapse

Spec == Init /\ [][Next]_vars

=============================================================================
