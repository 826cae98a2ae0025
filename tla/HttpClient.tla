----------------------------- MODULE HttpClient -----------------------------
(***************************************************************************)
(* The HTTP client of src/CS-435_MPs/Http Client/client.cpp: one run of    *)
(* main against a server that answers in pieces.                           *)
(*                                                                         *)
(* A symbol stands for a run of bytes that is looked for as a whole: the   *)
(* status line, the line with the length (which ends the header), the end  *)
(* of a header that has no such line, "404" inside a body, a zero byte, or *)
(* any other byte.  buf holds BufSize of them; main never clears it, and   *)
(* appends it as a C string, whatever recv has written to it.              *)
(***************************************************************************)
EXTENDS Integers, SequencesExt

CONSTANTS
    Byte,       \* the other bytes
    Responses,  \* what the server may answer
    Stack,      \* what buf may hold before the first recv
    Beyond,     \* what may lie behind buf, up to the next zero byte
    BufSize,    \* MAXDATASIZE
    MaxAddress  \* bound: the addresses of a host

Ok == "200 OK"
NotFound == "404 Not Found"
Length == "Content-Length"
End == "end of header"
Text404 == "404"
Nul == "zero"
Symbol == Byte \union {Ok, NotFound, Length, End, Text404, Nul}

(***************************************************************************)
(* A response is a status line, the rest of the header and a body; the     *)
(* length it declares is that of its body.                                 *)
(***************************************************************************)
ASSUME ResponsesAssumption ==
    \A r \in Responses :
        /\ r.head \in {<<s, e>> : s \in {Ok, NotFound}, e \in {Length, End}}
        /\ r.body \in Seq(Byte \union {Text404, Nul})
ASSUME BufferAssumption ==
    /\ BufSize \in Nat \ {0} /\ MaxAddress \in Nat
    /\ Stack \subseteq [1..BufSize -> Symbol]
    /\ Beyond \subseteq Seq(Symbol \ {Nul})

VARIABLES
    response,  \* what the server answers
    wire,      \* what of it has not been received yet
    closed,    \* the server has closed the connection
    got,       \* what has been received (a history of wire)
    place,     \* (a history) place[k]: where in outstring got[k] was put
    addrs,     \* the addresses left to try
    pc,        \* where main is
    buf,       \* the buffer
    outstring, \* what has been appended
    outfile,   \* what is in the file: a word or a body
    status     \* what main returns, or the end by an exception

vars == <<response, wire, closed, got, place, addrs, pc, buf, outstring, outfile, status>>

None == -1
Aborted == 134
Word(w) == <<w>>

Init ==
    /\ response \in Responses
    /\ wire = response.head \o response.body
    /\ closed = FALSE
    /\ got = <<>>
    /\ place = <<>>
    /\ addrs = 0
    /\ pc = "start"
    /\ buf \in Stack
    /\ outstring = <<>>
    /\ outfile = <<>>
    /\ status = None

Return(code, file) ==
    /\ pc' = "done"
    /\ status' = code
    /\ outfile' = file

\* The arguments, the protocol and the name of the host: the file is empty for
\* a wrong number of arguments and for an unknown host.
Refuse ==
    /\ pc = "start"
    /\ \E file \in {<<>>, Word("INVALIDPROTOCOL")} : Return(1, file)
    /\ UNCHANGED <<response, wire, closed, got, place, addrs, buf, outstring>>

Resolve ==
    /\ pc = "start"
    /\ pc' = "connect"
    /\ addrs' \in 0..MaxAddress
    /\ UNCHANGED <<response, wire, closed, got, place, buf, outstring, outfile, status>>

\* An address that gives no socket or no connection.
TryNext ==
    /\ pc = "connect" /\ addrs > 0
    /\ addrs' = addrs - 1
    /\ UNCHANGED <<response, wire, closed, got, place, pc, buf, outstring, outfile, status>>

\* The request is sent; if that fails, recv will tell.
Connect ==
    /\ pc = "connect" /\ addrs > 0
    /\ pc' = "recv"
    /\ UNCHANGED <<response, wire, closed, got, place, addrs, buf, outstring, outfile, status>>

NoConnection ==
    /\ pc = "connect" /\ addrs = 0
    /\ Return(1, Word("NOCONNECTION"))
    /\ UNCHANGED <<response, wire, closed, got, place, addrs, buf, outstring>>

-----------------------------------------------------------------------------
\* n symbols from the wire overwrite the start of buf.
Received(n) == [k \in 1..BufSize |-> IF k =< n THEN wire[k] ELSE buf[k]]

ZeroesIn(b) == {k \in DOMAIN b : b[k] = Nul}

\* What append(b) adds: b up to the first zero byte, and without one also what
\* lies behind it.
CString(b) ==
    IF ZeroesIn(b) = {} THEN {b \o junk : junk \in Beyond}
    ELSE {SubSeq(b, 1, k - 1) : k \in {z \in ZeroesIn(b) : \A y \in ZeroesIn(b) : z =< y}}

\* (mutant) outstring is assigned.
RecvLast(n) ==
    /\ pc = "recv" /\ n \in 1..BufSize /\ n =< Len(wire)
    /\ buf' = Received(n)
    /\ outstring' \in CString(buf')
    /\ got' = got \o SubSeq(wire, 1, n)
    /\ place' = place \o [k \in 1..n |-> Len(outstring) + k]
    /\ wire' = SubSeq(wire, n + 1, Len(wire))
    /\ UNCHANGED <<response, closed, addrs, pc, outfile, status>>

Recv(n) ==
    /\ pc = "recv" /\ n \in 1..BufSize /\ n =< Len(wire)
    /\ buf' = Received(n)
    /\ \E s \in CString(buf') : outstring' = outstring \o s
    /\ got' = got \o SubSeq(wire, 1, n)
    /\ place' = place \o [k \in 1..n |-> Len(outstring) + k]
    /\ wire' = SubSeq(wire, n + 1, Len(wire))
    /\ UNCHANGED <<response, closed, addrs, pc, outfile, status>>

\* recv returns -1: a reset.
RecvFails ==
    /\ pc = "recv"
    /\ Return(1, <<>>)
    /\ UNCHANGED <<response, wire, closed, got, place, addrs, buf, outstring>>

\* The server closes the connection, perhaps before it has sent everything.
Close ==
    /\ pc = "recv" /\ ~closed
    /\ closed' = TRUE
    /\ \E n \in 0..Len(wire) : wire' = SubSeq(wire, 1, n)
    /\ UNCHANGED <<response, got, place, addrs, pc, buf, outstring, outfile, status>>

-----------------------------------------------------------------------------
Holds(s, S) == \E k \in DOMAIN s : s[k] \in S

\* The body: what follows the first end of a header.
BodyIn(s) == SubSeq(s, SelectInSeq(s, LAMBDA e : e \in {Length, End}) + 1, Len(s))

\* (mutant) the lengths are not compared.
JudgeByHeader ==
    /\ Holds(outstring, {Length})
    /\ Return(0, BodyIn(outstring))

\* The body is written in either case.
Judge ==
    /\ Holds(outstring, {Length})
    /\ Return(IF Len(BodyIn(outstring)) = Len(response.body) THEN 0 ELSE 1, BodyIn(outstring))

\* find returns npos, the digits are looked for from the 14th byte, and stoi
\* throws when there are none; without a status line the loop runs beyond the
\* string, and anything may come of it.
JudgeWithoutLength ==
    /\ ~Holds(outstring, {Length})
    /\ \/ Return(Aborted, <<>>)
       \/ /\ ~Holds(outstring, {Ok})
          /\ \E code \in {0, 1}, k \in 0..Len(outstring) :
                Return(code, SubSeq(outstring, k + 1, Len(outstring)))

\* (mutant) recv is called again when it has returned 0 after some data.
FinishNever ==
    /\ pc = "recv" /\ closed /\ wire = <<>> /\ outstring = <<>>
    /\ JudgeWithoutLength
    /\ UNCHANGED <<response, wire, closed, got, place, addrs, buf, outstring>>

\* recv returns 0: everything is there.  "404" is looked for everywhere.
Finish ==
    /\ pc = "recv" /\ closed /\ wire = <<>>
    /\ IF Holds(outstring, {NotFound, Text404})
       THEN Return(1, Word("FILENOTFOUND"))
       ELSE Judge \/ JudgeWithoutLength
    /\ UNCHANGED <<response, wire, closed, got, place, addrs, buf, outstring>>

-----------------------------------------------------------------------------
\* main, unless the connection breaks.
Main ==
    \/ Refuse \/ Resolve \/ TryNext \/ Connect \/ NoConnection
    \/ (\E n \in 1..BufSize : Recv(n)) \/ Finish

Next == Main \/ RecvFails \/ Close

Spec == Init /\ [][Next]_vars

\* main goes on whenever the server lets it; nothing forces the server to
\* answer, to close or to reset the connection.
Fairness == WF_vars(Main)
FairSpec == Spec /\ Fairness

-----------------------------------------------------------------------------
(***************************************************************************)
(* Properties.                                                             *)
(***************************************************************************)
\* What main keeps has its type, it returns at the end and only there, and the
\* received part is what the server sent up to now.
TypeOK ==
    /\ response \in Responses
    /\ IsPrefix(got \o wire, response.head \o response.body)
    /\ outstring \in Seq(Symbol)
    /\ closed \in BOOLEAN /\ addrs \in 0..MaxAddress
    /\ pc \in {"start", "connect", "recv", "done"}
    /\ buf \in [1..BufSize -> Symbol]
    /\ status \in {None, 0, 1, Aborted}
    /\ pc = "done" <=> status # None

NoZeroes == ~Holds(response.head \o response.body, {Nul})

\* An answer without zero bytes loses nothing on its way through the reused
\* buffer: whatever the pieces, and whatever is left in the buffer from the
\* piece before, everything received is in outstring, in its order (lines
\* 139-142).
NothingLost ==
    NoZeroes =>
        /\ DOMAIN place = DOMAIN got
        /\ \A i, j \in DOMAIN place : i < j => place[i] < place[j]
        /\ \A k \in DOMAIN got : place[k] \in DOMAIN outstring /\ outstring[place[k]] = got[k]

\* Exit status 0 after the whole of an answer without zero bytes means that the
\* file holds its body, and nothing the buffer has added (lines 159-194).
ExitZeroExact ==
    (status = 0 /\ NoZeroes /\ got = response.head \o response.body)
        => outfile = response.body

\* When the server closes the connection main returns, or is ended (139-142).
EndsWhenClosed == closed ~> pc = "done"

\* Claimed by the comment of line 158, "check if received all the msg": once
\* the header is there, exit status 0 means that everything has been received.
ZeroMeansAll ==
    (status = 0 /\ Holds(got, {Length})) => got = response.head \o response.body

=============================================================================
