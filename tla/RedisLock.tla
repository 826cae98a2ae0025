------------------------------ MODULE RedisLock ------------------------------
(***************************************************************************)
(* The Lock of redis/lock.py, with a timeout: a key that is set if it is   *)
(* not there (SET NX PX) and deleted by a script that compares the token.  *)
(* The threads use one Lock over one client; each has its own token        *)
(* (thread_local), and draws a new one for each acquire.                   *)
(***************************************************************************)
EXTENDS RedisPool

CONSTANTS
    NoToken,
    MaxRounds  \* bound: the acquires of a thread

Token == Thread \X (1..MaxRounds)
Set(tok) == [op |-> "set", token |-> tok]
Del(tok) == [op |-> "del", token |-> tok]
LockCommand == {Set(tok) : tok \in Token} \union {Del(tok) : tok \in Token}
LockStore == Token \union {NoToken}

\* SET with NX, and LUA_RELEASE_SCRIPT.
LockApply(cmd, key) ==
    IF cmd.op = "set"
    THEN IF key = NoToken THEN [reply |-> "yes", store |-> cmd.token] ELSE [reply |-> "no", store |-> key]
    ELSE IF key = cmd.token THEN [reply |-> "yes", store |-> NoToken] ELSE [reply |-> "no", store |-> key]

ASSUME LockAssumption ==
    /\ MaxRounds \in Nat /\ NoToken \notin Token
    /\ Command = LockCommand /\ Store = LockStore /\ Empty = NoToken
    /\ Reply = {"yes", "no"}
    /\ \A cmd \in Command, key \in Store : Apply(cmd, key) = LockApply(cmd, key)

VARIABLES
    at,      \* where a thread is: outside, in acquire, holding the lock, in release
    round,   \* how many acquires it has begun
    token,   \* local.token
    lapsed   \* the tokens whose key has expired (a history)

lockVars == <<at, round, token, lapsed>>
vars == <<poolVars, lockVars>>

Init ==
    /\ PoolInit
    /\ at = [t \in Thread |-> "out"]
    /\ round = [t \in Thread |-> 0]
    /\ token = [t \in Thread |-> NoToken]
    /\ lapsed = {}

Mine(t) == <<t, round[t]>>

Acquire(t) ==
    /\ at[t] = "out" /\ round[t] < MaxRounds
    /\ at' = [at EXCEPT ![t] = "trying"]
    /\ round' = [round EXCEPT ![t] = @ + 1]
    /\ Execute(t, Set(<<t, round'[t]>>))
    /\ UNCHANGED <<token, lapsed>>

\* (mutant) acquire returns False when the time is up, whatever SET has said.
AcquiredLate(t) ==
    /\ at[t] = "trying" /\ result[t] = "yes" /\ Release(t)
    /\ at' = [at EXCEPT ![t] = "out"]
    /\ UNCHANGED <<round, token, lapsed>>

Acquired(t) ==
    /\ at[t] = "trying" /\ result[t] = "yes" /\ Release(t)
    /\ at' = [at EXCEPT ![t] = "in"]
    /\ token' = [token EXCEPT ![t] = Mine(t)]
    /\ UNCHANGED <<round, lapsed>>

\* acquire sleeps, or returns False: it does not block, or its time is up.
Refused(t) ==
    /\ at[t] = "trying" /\ result[t] = "no" /\ Release(t)
    /\ \E place \in {"asleep", "out"} : at' = [at EXCEPT ![t] = place]
    /\ UNCHANGED <<round, token, lapsed>>

TryAgain(t) ==
    /\ at[t] = "asleep"
    /\ at' = [at EXCEPT ![t] = "trying"]
    /\ Execute(t, Set(Mine(t)))
    /\ UNCHANGED <<round, token, lapsed>>

\* An error of the call is raised by acquire or release.
Raises(t) ==
    /\ at[t] \in {"trying", "leaving"} /\ result[t] = Error /\ Release(t)
    /\ at' = [at EXCEPT ![t] = "out"]
    /\ UNCHANGED <<round, token, lapsed>>

\* (mutant) thread_local is False: the token is the last one acquired.
LeaveShared(t) ==
    /\ at[t] = "in"
    /\ at' = [at EXCEPT ![t] = "leaving"]
    /\ \E u \in Thread : token[u] # NoToken /\ Execute(t, Del(token[u]))
    /\ token' = [token EXCEPT ![t] = NoToken]
    /\ UNCHANGED <<round, lapsed>>

\* release forgets the token before it runs the script.
Leave(t) ==
    /\ at[t] = "in"
    /\ at' = [at EXCEPT ![t] = "leaving"]
    /\ Execute(t, Del(token[t]))
    /\ token' = [token EXCEPT ![t] = NoToken]
    /\ UNCHANGED <<round, lapsed>>

\* release returns, or raises LockNotOwnedError.
Left(t) ==
    /\ at[t] = "leaving" /\ result[t] # Error /\ Release(t)
    /\ at' = [at EXCEPT ![t] = "out"]
    /\ UNCHANGED <<round, token, lapsed>>

\* (mutant) the timeout is not passed on to SET.
ExpireNever ==
    /\ FALSE
    /\ UNCHANGED vars

\* The timeout of the lock, passed to SET as PX.
Expire ==
    /\ store # NoToken
    /\ store' = NoToken
    /\ lapsed' = lapsed \union {store}
    /\ UNCHANGED <<limit, created, available, inuse, socket, flying, pc, command, conn, failures,
                   result, got, broken, spoiled, faults, at, round, token>>

-----------------------------------------------------------------------------
Locking(t) == Acquired(t) \/ Refused(t) \/ TryAgain(t) \/ Raises(t) \/ Left(t)

Pooling ==
    /\ \/ \E t \in Thread : Proceed(t) \/ Trouble(t)
       \/ Server \/ Disconnect
    /\ UNCHANGED lockVars

Next ==
    \/ \E t \in Thread : Acquire(t) \/ Leave(t) \/ Locking(t)
    \/ Pooling \/ Expire

\* Threads go on (one that holds the lock may keep it), the server serves what
\* it has received, and keys expire.
Fairness ==
    /\ \A t \in Thread :
          /\ WF_vars(Locking(t))
          /\ WF_vars(Proceed(t) /\ UNCHANGED lockVars)
    /\ \A c \in Connection : WF_vars(Serve(c) /\ UNCHANGED lockVars)
    /\ WF_vars(Expire)

Spec == Init /\ [][Next]_vars

-----------------------------------------------------------------------------
(***************************************************************************)
(* Properties.                                                             *)
(***************************************************************************)
\* Every connection that was made is available, or belongs to the one thread
\* that uses it, and there are not more than max_connections: whatever is
\* raised between get_connection and release, none is lost and none is in two
\* hands (connection.py, 1429-1497).
Leases ==
    /\ created =< limit
    /\ IsInjective(available)
    /\ ToSet(available) \intersect inuse = {}
    /\ ToSet(available) \union inuse = 1..created
    /\ inuse = {conn[t] : t \in {u \in Thread : conn[u] # NoConnection}}
    /\ \A t, u \in Thread : conn[t] = conn[u] /\ conn[t] # NoConnection => t = u
    /\ \A t \in Thread :
          /\ pc[t] \in {"check", "send", "read"} => conn[t] # NoConnection
          /\ pc[t] \in {"idle", "full"} => conn[t] = NoConnection

\* The executions a command may still have: those under way, and one for every
\* attempt that a caller may still make.
Used(t) == failures[t] + (IF pc[t] = "read" THEN 1 ELSE 0)
Attempts(cmd) == {p \in Thread \X (1..(Retries + 1)) : command[p[1]] = cmd /\ Used(p[1]) < p[2]}
Due(cmd) == flying[cmd] + Cardinality(Waiting(cmd, Connection)) + Cardinality(Attempts(cmd))

Calls == INSTANCE RedisCall WITH
    call <- command,
    due <- [cmd \in Command |-> Due(cmd)]

\* The pool and the retries keep the promise of RedisCall: a command is carried
\* out at most once per attempt, and a reply is one to the caller's own command,
\* until an exception that is no Exception interrupts a thread that reads
\* (client.py, 1230-1266).
CallsKept == Calls!Spec

\* A thread that has the lock finds its own token in the key unless the lock has
\* expired: no release, retried, late or of another thread, frees it, and no
\* late SET overwrites it (lock.py, 170-259).
HeldUntilLapsed ==
    \A t \in Thread :
        (at[t] = "in" /\ ~spoiled) => store = token[t] \/ token[t] \in lapsed

\* A key that nobody holds, is trying to get or to free comes from a call an attempt
\* of which has failed, the last one or an earlier one: the call has raised, or was
\* tried again and acquire was told that the lock is taken, by its own token.  Only
\* then the lock stays closed until it expires (lock.py, 205-215 and 245-259).
NoOrphans ==
    (store # NoToken /\ ~spoiled) =>
        \/ {Set(store), Del(store)} \intersect broken # {}
        \/ LET t == store[1] IN at[t] # "out" /\ store = Mine(t)

\* t does not stay in a call for ever.
ReleaseEnds(t) == []<>(at[t] # "leaving")
AcquireEnds(t) == []<>(at[t] \notin {"trying", "asleep"})

\* u gets the lock for ever anew.
ComesBack(u) == []<>(at[u] # "in") /\ []<>(at[u] = "in")

\* Every release comes to an end.  So does every acquire, though a holder may keep
\* the lock, or have lost it to an error: its key expires.  Only one thing keeps an
\* acquire waiting for ever: others that get the lock again and again, each time
\* while it sleeps, since polling (lock.py, 205-215) gives it no turn.
LockingEnds ==
    \A t \in Thread :
        /\ ReleaseEnds(t)
        /\ AcquireEnds(t) \/ \E u \in Thread \ {t} : ComesBack(u)

=============================================================================
