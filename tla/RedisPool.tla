------------------------------ MODULE RedisPool ------------------------------
(***************************************************************************)
(* The threads of a process that share a client of the redis package:      *)
(* execute_command (client.py) takes a connection from the ConnectionPool  *)
(* (connection.py), sends the command, reads the reply, tries again as     *)
(* retry.py says, and gives the connection back.                           *)
(*                                                                         *)
(* A socket carries whole commands and whole replies.  What is on the way  *)
(* to the server when a socket is given up may still be carried out.       *)
(***************************************************************************)
EXTENDS Integers, SequencesExt

CONSTANTS Thread, Command, NoCall, Error, Store, Empty, Reply, Apply(_, _), Retries,
    Limits,     \* what max_connections may be
    NoSocket,   \* _sock is None
    NoConnection,
    MaxFaults   \* bound: refused and broken connections, timeouts, interrupts

ASSUME CallAssumption ==
    /\ IsFiniteSet(Thread) /\ Retries \in Nat
    /\ NoCall \notin Command /\ Error \notin Reply
    /\ Empty \in Store
    /\ \A cmd \in Command, s \in Store :
          Apply(cmd, s) \in [reply : Reply, store : Store]

ASSUME PoolAssumption ==
    /\ IsFiniteSet(Limits) /\ Limits \subseteq Nat \ {0} /\ MaxFaults \in Nat
    /\ NoConnection \notin Nat

Socket == [todo : Seq(Command), replies : Seq(Reply), closed : BOOLEAN]

ASSUME SocketAssumption == NoSocket \notin Socket

VARIABLES
    limit,      \* max_connections
    created,    \* _created_connections: connections are 1..created
    available,  \* _available_connections, the last of them next
    inuse,      \* _in_use_connections
    socket,     \* the socket of a connection
    flying,     \* how often a command is on its way on a socket that was given up
    pc,         \* where a thread is in execute_command
    command,    \* what it executes until it has the outcome
    conn,       \* the connection it has
    failures,   \* the attempts that have failed
    result, store,
    got,        \* the replies to a thread's command (a history, as in RedisCall)
    broken,     \* the commands of which an attempt has failed (a history)
    spoiled,    \* a reading thread was interrupted (a history)
    faults      \* the faults so far

poolVars == <<limit, created, available, inuse, socket, flying, pc, command, conn, failures,
              result, store, got, broken, spoiled, faults>>

Connection == UNION {1..n : n \in Limits}
Fresh == [todo |-> <<>>, replies |-> <<>>, closed |-> FALSE]
Open(c) == socket[c] # NoSocket

\* There is something for can_read to see: a reply, or the end of the stream.
Readable(c) == ~(socket[c].replies = <<>> /\ ~socket[c].closed)

PoolInit ==
    /\ limit \in Limits
    /\ created = 0 /\ available = <<>> /\ inuse = {}
    /\ socket = [c \in Connection |-> NoSocket]
    /\ flying = [cmd \in Command |-> 0]
    /\ pc = [t \in Thread |-> "idle"]
    /\ command = [t \in Thread |-> NoCall]
    /\ conn = [t \in Thread |-> NoConnection]
    /\ failures = [t \in Thread |-> 0]
    /\ result = [t \in Thread |-> Error]
    /\ store = Empty
    /\ got = [t \in Thread |-> {}]
    /\ broken = {} /\ spoiled = FALSE /\ faults = 0

Go(t, place) == pc' = [pc EXCEPT ![t] = place]

\* The call of t has the outcome r, and its locals are gone.
Outcome(t, r) ==
    /\ result' = [result EXCEPT ![t] = r]
    /\ command' = [command EXCEPT ![t] = NoCall]
    /\ failures' = [failures EXCEPT ![t] = 0]
    /\ got' = [got EXCEPT ![t] = {}]
Fault == faults < MaxFaults /\ faults' = faults + 1

Times(cmd, s) == Cardinality({k \in DOMAIN s : s[k] = cmd})

\* The commands s, which were on their way, may still be carried out.
Adrift(s) == flying' = [cmd \in Command |-> flying[cmd] + Times(cmd, s)]

Todo(c) == IF Open(c) THEN socket[c].todo ELSE <<>>

\* The places of the sockets of C where cmd waits for the server.
Waiting(cmd, C) ==
    {p \in UNION {{c} \X DOMAIN Todo(c) : c \in C} : Todo(p[1])[p[2]] = cmd}

-----------------------------------------------------------------------------
\* get_connection, under the lock of the pool.
Take(t) ==
    /\ available # <<>>
    /\ Go(t, "check")
    /\ conn' = [conn EXCEPT ![t] = Last(available)]
    /\ available' = Front(available)
    /\ inuse' = inuse \union {Last(available)}
    /\ UNCHANGED created

Make(t) ==
    /\ available = <<>> /\ created < limit
    /\ Go(t, "check")
    /\ created' = created + 1
    /\ conn' = [conn EXCEPT ![t] = created']
    /\ inuse' = inuse \union {created'}
    /\ UNCHANGED available

\* make_connection raises ConnectionError.
TooMany(t) ==
    /\ available = <<>> /\ created >= limit
    /\ Go(t, "full")
    /\ UNCHANGED <<created, available, inuse, conn>>

Execute(t, cmd) ==
    /\ pc[t] = "idle"
    /\ command' = [command EXCEPT ![t] = cmd]
    /\ Take(t) \/ Make(t) \/ TooMany(t)
    /\ UNCHANGED <<limit, socket, flying, failures, result, store, got, broken, spoiled, faults>>

Full(t) ==
    /\ pc[t] = "full"
    /\ Go(t, "release")
    /\ Outcome(t, Error)
    /\ broken' = broken \union {command[t]}
    /\ UNCHANGED <<limit, created, available, inuse, socket, flying, conn, store, spoiled, faults>>

\* The rest of get_connection: the connection is connected, and can_read sees
\* nothing.  What is still on its way to us it cannot see.
Ready(t) ==
    /\ pc[t] = "check"
    /\ Go(t, "send")
    /\ socket' = [socket EXCEPT ![conn[t]] = IF Open(conn[t]) THEN @ ELSE Fresh]
    /\ UNCHANGED <<limit, created, available, inuse, flying, command, conn, failures, result, store, got, broken, spoiled, faults>>

\* can_read sees a reply, or that the server has closed the connection.
Reconnect(t) ==
    /\ pc[t] = "check" /\ Open(conn[t]) /\ Readable(conn[t])
    /\ Go(t, "send")
    /\ Adrift(Todo(conn[t]))
    /\ socket' = [socket EXCEPT ![conn[t]] = Fresh]
    /\ UNCHANGED <<limit, created, available, inuse, command, conn, failures, result, store, got, broken, spoiled, faults>>

\* (mutant) get_connection does not give back the connection it cannot connect.
CheckLeaks(t) ==
    /\ pc[t] = "check" /\ Fault
    /\ Open(conn[t]) => Readable(conn[t])
    /\ Go(t, "release")
    /\ conn' = [conn EXCEPT ![t] = NoConnection]
    /\ Outcome(t, Error)
    /\ broken' = broken \union {command[t]}
    /\ Adrift(Todo(conn[t]))
    /\ socket' = [socket EXCEPT ![conn[t]] = NoSocket]
    /\ UNCHANGED <<limit, created, available, inuse, store, spoiled>>

\* Connecting fails.  get_connection is outside the retries of the call.
CheckFails(t) ==
    /\ pc[t] = "check" /\ Fault
    /\ Open(conn[t]) => Readable(conn[t])
    /\ Go(t, "release")
    /\ Outcome(t, Error)
    /\ broken' = broken \union {command[t]}
    /\ Adrift(Todo(conn[t]))
    /\ socket' = [socket EXCEPT ![conn[t]] = NoSocket]
    /\ UNCHANGED <<limit, created, available, inuse, conn, store, spoiled>>

-----------------------------------------------------------------------------
\* send_packed_command connects again after a failed attempt.
Send(t) ==
    /\ pc[t] = "send"
    /\ Go(t, "read")
    /\ LET s == IF Open(conn[t]) THEN socket[conn[t]] ELSE Fresh
       IN  socket' = [socket EXCEPT ![conn[t]] = [s EXCEPT !.todo = Append(@, command[t])]]
    /\ UNCHANGED <<limit, created, available, inuse, flying, command, conn, failures, result, store, got, broken, spoiled, faults>>

\* The attempt of t has failed; call_with_retry tries again, unless it was the
\* last attempt or retry_on_error does not list the error.
Failed(t) ==
    /\ broken' = broken \union {command[t]}
    /\ \/ /\ failures[t] < Retries
          /\ Go(t, "send")
          /\ failures' = [failures EXCEPT ![t] = @ + 1]
          /\ UNCHANGED <<command, result, got>>
       \/ /\ Go(t, "release")
          /\ Outcome(t, Error)

\* Connecting or sending fails, perhaps after everything was sent.
SendFails(t) ==
    /\ pc[t] = "send" /\ Fault
    /\ \E sent \in {<<>>, <<command[t]>>} : Adrift(Todo(conn[t]) \o sent)
    /\ socket' = [socket EXCEPT ![conn[t]] = NoSocket]
    /\ Failed(t)
    /\ UNCHANGED <<limit, created, available, inuse, conn, store, spoiled>>

Read(t) ==
    /\ pc[t] = "read" /\ Open(conn[t]) /\ socket[conn[t]].replies # <<>>
    /\ Go(t, "release")
    /\ Outcome(t, Head(socket[conn[t]].replies))
    /\ socket' = [socket EXCEPT ![conn[t]].replies = Tail(@)]
    /\ UNCHANGED <<limit, created, available, inuse, flying, conn, store, broken, spoiled, faults>>

\* Another thread has taken the socket away, or the server has closed it.
NoAnswer(t) == Open(conn[t]) => socket[conn[t]].closed /\ socket[conn[t]].replies = <<>>

\* (mutant) a timeout leaves the connection as it is.
ReadFailsOpen(t) ==
    /\ pc[t] = "read"
    /\ IF NoAnswer(t) THEN UNCHANGED faults ELSE Fault
    /\ UNCHANGED <<flying, socket>>
    /\ Failed(t)
    /\ UNCHANGED <<limit, created, available, inuse, conn, store, spoiled>>

\* There will be no answer, or it takes too long.
ReadFails(t) ==
    /\ pc[t] = "read"
    /\ IF NoAnswer(t) THEN UNCHANGED faults ELSE Fault
    /\ Adrift(Todo(conn[t]))
    /\ socket' = [socket EXCEPT ![conn[t]] = NoSocket]
    /\ Failed(t)
    /\ UNCHANGED <<limit, created, available, inuse, conn, store, spoiled>>

\* An exception that is no Exception, such as KeyboardInterrupt, inside the try of
\* get_connection or of execute_command: only they take notice.  There is no
\* action for one that comes between the two, or while release waits for the
\* lock of the pool: it would lose the connection.
Interrupt(t) ==
    /\ pc[t] \in {"check", "send", "read"} /\ Fault
    /\ Go(t, "release")
    /\ Outcome(t, Error)
    /\ broken' = broken \union {command[t]}
    /\ spoiled' = (spoiled \/ pc[t] = "read")
    /\ UNCHANGED <<limit, created, available, inuse, socket, flying, conn, store>>

\* pool.release, under the lock of the pool; the call is over.
Release(t) ==
    /\ pc[t] = "release"
    /\ Go(t, "idle")
    /\ inuse' = inuse \ {conn[t]}
    /\ available' = IF conn[t] = NoConnection THEN available ELSE Append(available, conn[t])
    /\ conn' = [conn EXCEPT ![t] = NoConnection]
    /\ UNCHANGED <<limit, created, socket, flying, command, failures, result, store, got, broken, spoiled, faults>>

\* pool.disconnect by anybody: every connection loses its socket.
Disconnect ==
    /\ Fault
    /\ flying' = [cmd \in Command |-> flying[cmd] + Cardinality(Waiting(cmd, Connection))]
    /\ socket' = [c \in Connection |-> NoSocket]
    /\ UNCHANGED <<limit, created, available, inuse, pc, command, conn, failures, result, store, got, broken, spoiled>>

-----------------------------------------------------------------------------
\* The server carries out a command.
Carry(cmd) ==
    /\ store' = Apply(cmd, store).store
    /\ got' = [t \in Thread |->
                IF command[t] = cmd THEN got[t] \union {Apply(cmd, store).reply} ELSE got[t]]

Serve(c) ==
    /\ Todo(c) # <<>> /\ ~socket[c].closed
    /\ Carry(Head(Todo(c)))
    /\ socket' = [socket EXCEPT ![c] =
          [socket[c] EXCEPT !.todo = Tail(@), !.replies = Append(@, Apply(Head(Todo(c)), store).reply)]]
    /\ UNCHANGED <<limit, created, available, inuse, flying, pc, command, conn, failures, result, broken, spoiled, faults>>

ServeLate(cmd) ==
    /\ flying[cmd] > 0
    /\ Carry(cmd)
    /\ flying' = [flying EXCEPT ![cmd] = @ - 1]
    /\ UNCHANGED <<limit, created, available, inuse, socket, pc, command, conn, failures, result, broken, spoiled, faults>>

\* The server closes a connection; what it has not read is lost.
Close(c) ==
    /\ Open(c) /\ ~socket[c].closed /\ Fault
    /\ socket' = [socket EXCEPT ![c] = [todo |-> <<>>, replies |-> socket[c].replies, closed |-> TRUE]]
    /\ UNCHANGED <<limit, created, available, inuse, flying, pc, command, conn, failures, result, store, got, broken, spoiled>>

-----------------------------------------------------------------------------
\* What t does next before its call is over, faults apart.
Proceed(t) ==
    \/ Full(t) \/ Ready(t) \/ Reconnect(t) \/ Send(t) \/ Read(t)
    \/ pc[t] = "read" /\ NoAnswer(t) /\ ReadFails(t)

Trouble(t) == CheckFails(t) \/ SendFails(t) \/ ReadFails(t) \/ Interrupt(t)

Server ==
    \/ \E c \in Connection : Serve(c) \/ Close(c)
    \/ \E cmd \in Command : ServeLate(cmd)

=============================================================================
