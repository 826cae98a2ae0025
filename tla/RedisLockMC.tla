---------------------------- MODULE RedisLockMC ----------------------------
(***************************************************************************)
(* RedisLock with two threads over a pool of one or two connections.  A    *)
(* thread may acquire as often as it likes: a token that is nowhere any    *)
(* more is used again in place of the next uuid.                           *)
(***************************************************************************)
EXTENDS RedisLock

MCReply == {"yes", "no"}
MCLimits == {1, 2}

TokensOf(t) == {tok \in Token : tok[1] = t}
CommandsOf(t) == {cmd \in Command : cmd.token \in TokensOf(t)}

\* No token of t is in the key, with t, or on the way to the server.
Forgotten(t) ==
    /\ at[t] = "out" /\ pc[t] = "idle" /\ token[t] = NoToken
    /\ store \notin TokensOf(t)
    /\ \A cmd \in CommandsOf(t) : flying[cmd] = 0 /\ Waiting(cmd, Connection) = {}

\* t may begin its acquires anew: its tokens are as good as new, so the histories
\* forget them, too.
Recycle(t) ==
    /\ round[t] = MaxRounds /\ Forgotten(t)
    /\ round' = [round EXCEPT ![t] = 0]
    /\ lapsed' = lapsed \ TokensOf(t)
    /\ broken' = broken \ CommandsOf(t)
    /\ UNCHANGED <<limit, created, available, inuse, socket, flying, pc, command, conn,
                   failures, result, store, got, spoiled, faults, at, token>>

EndlessNext == Next \/ \E t \in Thread : Recycle(t)
EndlessSpec == Init /\ [][EndlessNext]_vars /\ Fairness

=============================================================================
