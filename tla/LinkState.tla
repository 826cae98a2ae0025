----------------------------- MODULE LinkState -----------------------------
(***************************************************************************)
(* The link-state half of the unicast router of                            *)
(* src/CS-435_MPs/Unicast Routing/monitor_neighbors.h: who has been heard, *)
(* what each router believes about every link, and the packets that carry  *)
(* those beliefs.                                                          *)
(*                                                                         *)
(* A router runs three threads.  heartBeat and announceLSA only send;      *)
(* listenForNeighbors handles one packet at a time, and every packet,      *)
(* whatever it holds, first refreshes the router's own links from the      *)
(* arrival times of the past packets.  A handler is one action.            *)
(*                                                                         *)
(* The program's main, which is not in the repository, is assumed to call  *)
(* initialize once and then to start the three threads.                    *)
(***************************************************************************)
EXTENDS Integers, FiniteSets

CONSTANTS
    Node,         \* the router ids
    CostFile,     \* CostFile[i]: neighbour -> cost, the lines of i's cost file
    Wire,         \* the physical links, as sets of two routers
    NoLSA,        \* no LSA is held for a link
    BootAsHeard,  \* main is external: may it start the clocks as just heard
                  \* (TRUE), as never heard (FALSE), or either
    TornReads,    \* does announceLSA ever read an LSA while it is rewritten?
    FaultKinds,   \* the faults of the environment that may happen
    MaxFaults,    \* bound: how many of them
    MaxInFlight   \* bound: LSA packets in flight when one more is announced

Link == {l \in Node \X Node : l[1] # l[2]}  \* <<o, n>>: what o says about n
LSA == [cost : Nat, seq : Int, up : BOOLEAN]

ASSUME NodeAssumption == IsFiniteSet(Node)
ASSUME CostFileAssumption ==
    \A i \in Node : /\ DOMAIN CostFile[i] \subseteq Node \ {i}
                    /\ \A n \in DOMAIN CostFile[i] : CostFile[i][n] \in Nat
ASSUME WireAssumption == Wire \subseteq {{l[1], l[2]} : l \in Link}
ASSUME NoLSAAssumption == NoLSA \notin LSA
ASSUME BoundAssumption == MaxFaults \in Nat /\ MaxInFlight \in Nat \ {0}
ASSUME TornReadsAssumption == TornReads \in BOOLEAN
ASSUME BootAsHeardAssumption == BootAsHeard \subseteq BOOLEAN /\ BootAsHeard # {}

VARIABLES
    lsdb,    \* lsdb[i][l]: the LSA for l in i's globalLSATicket, or NoLSA
    heard,   \* heard[i]: the routers heard within the last 700 ms
    net,     \* the LSA packets in flight
    cut,     \* the wires that are cut
    faults   \* the number of faults so far

vars == <<lsdb, heard, net, cut, faults>>

Table == [Link -> LSA \union {NoLSA}]
Packet == [from : Node, to : Node, link : Link, lsa : LSA]

Alive(i, j) == {i, j} \in Wire \ cut

(***************************************************************************)
(* The tables.                                                             *)
(***************************************************************************)
\* An own link as initialize reads it from the cost file.
Listed(i, n) == [cost |-> CostFile[i][n], seq |-> 0, up |-> TRUE]

\* (mutant) The cost of the new LSA is never assigned.
LearnedWithoutCost == [cost |-> NoLSA, seq |-> -1, up |-> TRUE]

\* An own link to a neighbour the cost file does not name.
Learned == [cost |-> 1, seq |-> -1, up |-> TRUE]

BootTable(i) == [l \in Link |-> IF l[1] = i /\ l[2] \in DOMAIN CostFile[i]
                                THEN Listed(i, l[2]) ELSE NoLSA]

\* globalLastHeartbeat at the start: as of now or zero.
BootHeard(i) == {IF b THEN Node \ {i} ELSE {} : b \in BootAsHeard}

\* (mutant) The link comes back up under the number it went down with.
FlipOnlyDownCounts(x) == [x EXCEPT !.up = ~x.up, !.seq = x.seq + (IF x.up THEN 1 ELSE 0)]

\* An own link changes sides.
Flip(x) == [cost |-> x.cost, seq |-> x.seq + 1, up |-> ~x.up]

\* (mutant) A link that comes back up starts counting again.
CheckedFromZero(x, isHeard) ==
    IF x.up = isHeard THEN x
    ELSE IF isHeard THEN [x EXCEPT !.up = TRUE, !.seq = 0] ELSE Flip(x)

\* (mutant) A link that is up stays up: nothing is made of 700 ms of silence.
CheckedNeverDown(x, isHeard) == IF isHeard /\ ~x.up THEN Flip(x) ELSE x

\* An own link after the check: up exactly when the neighbour was heard.
Checked(x, isHeard) == IF x.up = isHeard THEN x ELSE Flip(x)

\* The check of the own links at the arrival of any packet.
Refresh(i, table, h) ==
    [l \in Link |-> IF l[1] = i /\ table[l] # NoLSA
                    THEN Checked(table[l], l[2] \in h) ELSE table[l]]

\* (mutant) Whatever arrives last is installed.
NewerAlways(x, old) == TRUE

\* (mutant) Only LSAs that are held already are replaced.
NewerHeldOnly(x, old) == old # NoLSA /\ old.seq < x.seq

\* Does x replace what is held?
Newer(x, old) == old # NoLSA => old.seq < x.seq

Install(table, l, x) ==
    IF Newer(x, table[l]) THEN [table EXCEPT ![l] = x] ELSE table

\* A heartbeat from a router that has no LSA in the own ticket.
Learn(i, j, table) ==
    IF table[<<i, j>>] = NoLSA THEN [table EXCEPT ![<<i, j>>] = Learned] ELSE table

(***************************************************************************)
(* announceLSA takes no lock, so it may read an own link between the two   *)
(* assignments of a flip and send one field old and the other new.  It     *)
(* reads one LSA at a time: one packet at most comes out torn.             *)
(***************************************************************************)
Torn(x, y) == {[cost |-> x.cost, seq |-> y.seq, up |-> x.up],
               [cost |-> x.cost, seq |-> x.seq, up |-> y.up]}

TornPackets(i, j, n, old, new) ==
    IF /\ old[<<i, j>>] # NoLSA /\ Alive(i, j)
       /\ old[<<i, n>>] # NoLSA /\ old[<<i, n>>] # new[<<i, n>>]
    THEN [from : {i}, to : {j}, link : {<<i, n>>}, lsa : Torn(old[<<i, n>>], new[<<i, n>>])]
    ELSE {}

SentTorn(i, old, new, pool) ==
    IF TornReads /\ Cardinality(pool) < MaxInFlight
    THEN {pool \union {p} :
            p \in UNION {TornPackets(i, j, n, old, new) : j \in Node \ {i}, n \in Node \ {i}}}
    ELSE {}

-----------------------------------------------------------------------------
Init ==
    /\ lsdb = [i \in Node |-> BootTable(i)]
    /\ heard \in [Node -> UNION {BootHeard(i) : i \in Node}]
    /\ \A i \in Node : heard[i] \in BootHeard(i)
    /\ net = {}
    /\ cut = {}
    /\ faults = 0

Fault(kind) ==
    /\ kind \in FaultKinds
    /\ faults < MaxFaults
    /\ faults' = faults + 1

\* What every packet does before it is looked at: i heard from the routers in
\* from (nobody, when the sender is not on 10.1.1.x), then checks its links.
Arrival(i, from) == Refresh(i, lsdb[i], heard[i] \union from)

\* The rest of the handler of a packet at i: table is i's new table and
\* pool the packets left in flight.
Handled(i, from, table, pool) ==
    /\ heard' = [heard EXCEPT ![i] = @ \union from]
    /\ lsdb' = [lsdb EXCEPT ![i] = table]
    /\ net' \in {pool} \union SentTorn(i, lsdb[i], Arrival(i, from), pool)
    /\ UNCHANGED cut

\* A heartbeat: heartBeat sends one to every address, known or not.
ReceiveHeartbeat(i, j) ==
    /\ Alive(i, j)
    /\ Handled(i, {j}, Learn(i, j, Arrival(i, {j})), net)
    /\ UNCHANGED faults

Deliver(p, pool) ==
    Handled(p.to, {p.from}, Install(Arrival(p.to, {p.from}), p.link, p.lsa), pool)

ReceiveLSA(p) ==
    /\ Deliver(p, net \ {p})
    /\ UNCHANGED faults

\* A data packet changes the tables only by the check of the links: from a
\* neighbour ("mend"), or from the manager ("send").
ReceiveMend(i, j) ==
    /\ Alive(i, j)
    /\ Handled(i, {j}, Arrival(i, {j}), net)
    /\ UNCHANGED faults

ReceiveSend(i) ==
    /\ Handled(i, {}, Arrival(i, {}), net)
    /\ UNCHANGED faults

\* (mutant) A router announces its own ticket only.
HeldOwn(i) == {l \in Link : l[1] = i /\ lsdb[i][l] # NoLSA}

\* What i announces: every LSA of every ticket.
HeldLinks(i) == {l \in Link : lsdb[i][l] # NoLSA}

\* One sendto of announceLSA, to any neighbour of the own ticket, up or down.
\* Without a live wire the packet goes nowhere.
Announce(i, j, l) ==
    /\ lsdb[i][<<i, j>>] # NoLSA
    /\ l \in HeldLinks(i)
    /\ Alive(i, j)
    /\ Cardinality(net) < MaxInFlight
    /\ net' = net \union {[from |-> i, to |-> j, link |-> l, lsa |-> lsdb[i][l]]}
    /\ UNCHANGED <<lsdb, heard, cut, faults>>

-----------------------------------------------------------------------------
(***************************************************************************)
(* The environment: 700 ms pass without a packet, packets are lost or      *)
(* duplicated, wires are cut and mended, a listener whose recvfrom fails   *)
(* exits and its router is started again.                                  *)
(***************************************************************************)
Silence(i, j) ==
    /\ j \in heard[i]
    /\ lsdb[i][<<i, j>>] # NoLSA    \* a clock the check never reads is left alone
    /\ IF Alive(i, j) THEN Fault("silence") ELSE UNCHANGED faults
    /\ heard' = [heard EXCEPT ![i] = @ \ {j}]
    /\ UNCHANGED <<lsdb, net, cut>>

Lose(p) ==
    /\ Fault("loss")
    /\ net' = net \ {p}
    /\ UNCHANGED <<lsdb, heard, cut>>

Duplicate(p) ==
    /\ Fault("duplicate")
    /\ Deliver(p, net)

Cut(w) ==
    /\ w \notin cut
    /\ Fault("cut")
    /\ cut' = cut \union {w}
    /\ UNCHANGED <<lsdb, heard, net>>

Mend(w) ==
    /\ w \in cut
    /\ cut' = cut \ {w}
    /\ UNCHANGED <<lsdb, heard, net, faults>>

Restart(i) ==
    /\ Fault("restart")
    /\ lsdb' = [lsdb EXCEPT ![i] = BootTable(i)]
    /\ \E h \in BootHeard(i) : heard' = [heard EXCEPT ![i] = h]
    /\ \E gone \in SUBSET {p \in net : p.to = i} : net' = net \ gone
    /\ UNCHANGED cut

Next ==
    \/ \E l \in Link : ReceiveHeartbeat(l[1], l[2]) \/ ReceiveMend(l[1], l[2])
    \/ \E i \in Node : ReceiveSend(i)
    \/ \E p \in net : ReceiveLSA(p) \/ Lose(p) \/ Duplicate(p)
    \/ \E s, l \in Link : Announce(s[1], s[2], l)
    \/ \E l \in Link : Silence(l[1], l[2])
    \/ \E w \in Wire : Cut(w) \/ Mend(w)
    \/ \E i \in Node : Restart(i)

Spec == Init /\ [][Next]_vars

-----------------------------------------------------------------------------
(***************************************************************************)
(* Fairness.  heartBeat and announceLSA loop for ever with a sleep of      *)
(* 300 ms, so a heartbeat keeps arriving over a live wire, every LSA held  *)
(* is sent again and again, a packet in flight that is not lost arrives,   *)
(* and time passes, so a router that cannot be heard falls silent.         *)
(* Of announceLSA only this is assumed: a router with something its        *)
(* neighbour does not have sends some such thing in the end.  It is strong *)
(* fairness because the bound MaxInFlight, which the program does not      *)
(* have, disables the action now and then.  Nothing is assumed of the      *)
(* manager, or of the environment's faults and repairs.                    *)
(***************************************************************************)
Channel == {c \in Link : {c[1], c[2]} \in Wire}

Timeout(i, j) == ~Alive(i, j) /\ Silence(i, j)

Arrive(c, l) == \E p \in net : <<p.from, p.to>> = c /\ p.link = l /\ ReceiveLSA(p)

AnnounceNews(i, j) ==
    \E l \in Link : /\ Announce(i, j, l)
                    /\ lsdb[i][l] # NoLSA /\ Newer(lsdb[i][l], lsdb[j][l])

Fairness ==
    /\ \A l \in Link : WF_vars(Timeout(l[1], l[2]))
    /\ \A c \in Channel : /\ WF_vars(ReceiveHeartbeat(c[1], c[2]))
                          /\ \A l \in Link : WF_vars(Arrive(c, l))
                          /\ SF_vars(AnnounceNews(c[1], c[2]))

FairSpec == Spec /\ Fairness

-----------------------------------------------------------------------------
(***************************************************************************)
(* Properties.                                                             *)
(***************************************************************************)
TypeOK ==
    /\ lsdb \in [Node -> Table]
    /\ heard \in [Node -> SUBSET Node]
    /\ net \in SUBSET Packet
    /\ cut \in SUBSET Wire
    /\ faults \in 0..MaxFaults

Held(i, l) == lsdb[i][l] # NoLSA

(***************************************************************************)
(* The number alone fixes the rest: a link starts up with number 0, or -1  *)
(* when it was learned, and every change of side adds one.  Restarted      *)
(* routers count from the same start, so old and new LSAs with one number  *)
(* still say the same.                                                     *)
(***************************************************************************)
IsListed(l) == l[2] \in DOMAIN CostFile[l[1]]
FirstSeq(l) == IF IsListed(l) THEN 0 ELSE -1
CostOf(l) == IF IsListed(l) THEN CostFile[l[1]][l[2]] ELSE 1
UpAt(l, s) == (s - FirstSeq(l)) % 2 = 0
Content(l, s) == [cost |-> CostOf(l), seq |-> s, up |-> UpAt(l, s)]

\* Every LSA, held or in flight, is the one its owner publishes under its
\* number, across restarts; TornReads breaks it.
ContentBySeq ==
    /\ \A i \in Node, l \in Link : Held(i, l) => lsdb[i][l] = Content(l, lsdb[i][l].seq)
    /\ \A p \in net : p.lsa = Content(p.link, p.lsa.seq)

\* A listed link is never forgotten, so it is never learned under number -1.
ListedHeld == \A l \in Link : IsListed(l) => Held(l[1], l)

SeqFixesContent == ListedHeld /\ ContentBySeq

\* A copy is replaced only by a greater sequence number (line 650), so two
\* routers that hold the same number for a link must hold the same LSA, or one
\* of them stays wrong.  It has to survive restarts, which reset the numbers.
Agreement ==
    \A i, j \in Node, l \in Link :
        Held(i, l) /\ Held(j, l) /\ lsdb[i][l].seq = lsdb[j][l].seq
            => lsdb[i][l] = lsdb[j][l]

\* Nobody, and no packet, is ahead of the router that owns the link.  The
\* handler would overwrite a router's own ticket with such an LSA, because
\* lines 634-656 treat the own ticket like any other.
OwnerAhead ==
    /\ \A i \in Node, l \in Link :
          Held(i, l) => Held(l[1], l) /\ lsdb[i][l].seq =< lsdb[l[1]][l].seq
    /\ \A p \in net :
          Held(p.link[1], p.link) /\ p.lsa.seq =< lsdb[p.link[1]][p.link].seq

\* Late, reordered and duplicated packets never take a copy back: an LSA is
\* never dropped and what replaces it has a greater sequence number.
Advances(i, l) ==
    Held(i, l) => \/ lsdb'[i][l] = lsdb[i][l]
                  \/ (lsdb'[i][l] # NoLSA /\ lsdb[i][l].seq < lsdb'[i][l].seq)

CopiesAdvance == [][\A i \in Node, l \in Link : Advances(i, l)]_vars

\* An own link changes only as its owner's own hearing says, never because of
\* what another router sent.
FollowsHeard(l) ==
    Held(l[1], l) /\ lsdb'[l[1]][l] # lsdb[l[1]][l]
        => lsdb'[l[1]][l] = Checked(lsdb[l[1]][l], l[2] \in heard'[l[1]])

OwnLinkFollowsHeard == [][\A l \in Link : FollowsHeard(l)]_vars

FirstOf(l) == Content(l, FirstSeq(l))

Flood == INSTANCE Flooding WITH
    Nothing <- NoLSA,
    First <- [l \in Link |-> FirstOf(l)],
    copy <- lsdb

\* Lost, late, repeated and relayed packets do not break what the flooding is
\* for (lines 424-457 and 623-661): whatever a router holds, the owner of the
\* link has said, nothing is taken back, and no number is given twice.
FloodKept == Flood!Spec

\* i and j are joined by live wires.
Joined(i, j) ==
    \A S \in SUBSET Node :
        i \in S /\ (\A w \in Wire \ cut : w \subseteq S \/ w \intersect S = {}) => j \in S

\* Once the faults are over, the routers that can still reach each other come
\* to hold the same tables: what the flooding of lines 424-457 is for.
Converges == <>[](\A i, j \in Node : Joined(i, j) => lsdb[i] = lsdb[j])

Isolated(i) == \A j \in Node : ~Alive(i, j)

\* A router comes to describe its own links as they are, unless it is cut off
\* from everybody: a link without a live wire goes down though packets of others
\* keep coming, one that was taken down by mistake comes back up, and a restart
\* that lets old LSAs of its own flood back prevents neither (lines 555-582).
OwnLinksSettle ==
    <>[](\A l \in Link : ~Isolated(l[1]) /\ Held(l[1], l) =>
            (lsdb[l[1]][l].up <=> Alive(l[1], l[2])))
=============================================================================
