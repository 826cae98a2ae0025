----------------------------- MODULE Forwarding -----------------------------
(***************************************************************************)
(* The data packets of the router: the "send" and "mend" handlers of       *)
(* listenForNeighbors, on top of LinkState.                                *)
(*                                                                         *)
(* A handler refreshes the router's own links, computes the routes anew    *)
(* (globalUpdate is set at the start and never reset, so dijkstra() runs   *)
(* for every data packet) and hands the packet to the next hop, keeps it   *)
(* or drops it.  A packet has no hop count.                                *)
(*                                                                         *)
(* What dijkstra() computes is the parameter Routes: Dijkstra models the   *)
(* loop and DijkstraProofs proves RoutesAssumption of it.                  *)
(***************************************************************************)
EXTENDS LinkState, ShortestPaths

CONSTANTS
    Routes(_, _),  \* Routes(g, i): destMap after dijkstra() at i on graph g
    Limit,         \* the limit of dijkstra(), 2^30 in the code
    Flow,          \* the <<router, destination>> pairs the manager asks for
    MaxData        \* bound: data packets in flight when one more is sent

VARIABLE data  \* the data packets in flight that are followed

fvars == <<vars, data>>

\* What routes are computed on: an LSA's cost never changes, it is only up,
\* down or unknown.
RouteGraphs == {[l \in E |-> CostOf(l)] : E \in SUBSET Link}

ASSUME RoutesAssumption ==
    \A g \in RouteGraphs, i \in Node : IsRouting(Routes(g, i), Node, g, i, Limit)
ASSUME LimitAssumption == Limit \in Nat
ASSUME FlowAssumption == Flow \subseteq Node \X Node
ASSUME MaxDataAssumption == MaxData \in Nat \ {0}

DataPacket == [from : Node, to : Node, dest : Node]

\* The links of all tickets that dijkstra() does not pass over.
UpGraph(t) == [l \in {k \in Link : t[k] # NoLSA /\ t[k].up} |-> t[l].cost]

\* (mutant) Only the links of the own ticket are checked for being up.
RoutesByOwnLinks(i, t) ==
    Routes([l \in {k \in Link : t[k] # NoLSA /\ (k[1] = i => t[k].up)} |-> t[l].cost], i)

\* destMap of i after dijkstra() with table t.
RoutesAt(i, t) == Routes(UpGraph(t), i)

\* (mutant) The routes are those of the tables before the check of the links.
OnwardUnchecked(i, d, t) ==
    {[from |-> i, to |-> RoutesAt(i, lsdb[i])[d].next, dest |-> d] :
        k \in {d} \intersect (DOMAIN RoutesAt(i, lsdb[i]) \ {i})}

\* (mutant) A router hands a packet for itself on.
OnwardToSelf(i, d, t) ==
    IF d = i THEN {[from |-> i, to |-> j, dest |-> d] : j \in {n \in Node : Alive(i, n)}}
    ELSE {[from |-> i, to |-> RoutesAt(i, t)[d].next, dest |-> d] :
             k \in {d} \intersect DOMAIN RoutesAt(i, t)}

\* (mutant) The destination is sent on without its conversion to net order.
OnwardHostOrder(i, d, t) ==
    {[from |-> i, to |-> RoutesAt(i, t)[d].next, dest |-> 256 * d] :
        k \in {d} \intersect (DOMAIN RoutesAt(i, t) \ {i})}

\* (mutant) A packet for a router the own ticket does not name is unreachable.
OnwardToNeighbors(i, d, t) ==
    {[from |-> i, to |-> l[2], dest |-> d] : l \in {<<i, d>>} \intersect DOMAIN UpGraph(t)}

\* Where i hands on a packet for d: nowhere when it is for i itself, or when
\* there is no route and it is logged as unreachable.
Onward(i, d, t) ==
    {[from |-> i, to |-> RoutesAt(i, t)[d].next, dest |-> d] :
        k \in {d} \intersect (DOMAIN RoutesAt(i, t) \ {i})}

\* Without a live wire the packet goes nowhere.
Sent(i, d, t) == {p \in Onward(i, d, t) : Alive(i, p.to)}

-----------------------------------------------------------------------------
ForwardInit == Init /\ data = {}

\* "send": the manager gives i a packet for d.
Send(i, d) ==
    /\ Cardinality(data) < MaxData
    /\ ReceiveSend(i)
    /\ data' = data \union Sent(i, d, Arrival(i, {}))

\* "mend": the next hop gets the packet.
Handle(p) == Sent(p.to, p.dest, Arrival(p.to, {p.from}))

Forward(p) ==
    /\ ReceiveMend(p.to, p.from)
    /\ data' = (data \ {p}) \union Handle(p)

\* The environment duplicates and loses data packets; a wire that is cut loses
\* what is on it.
DuplicateData(p) ==
    /\ Cardinality(data) < MaxData
    /\ ReceiveMend(p.to, p.from)
    /\ data' = data \union Handle(p)

LoseData(p) ==
    /\ data' = data \ {p}
    /\ UNCHANGED vars

\* Next stands for everything else, the data packets that are not followed
\* among it.
ForwardNext ==
    \/ Next /\ UNCHANGED data
    \/ \E f \in Flow : Send(f[1], f[2])
    \/ \E p \in data : Forward(p) \/ DuplicateData(p) \/ LoseData(p)

ForwardSpec == ForwardInit /\ [][ForwardNext]_fvars

(***************************************************************************)
(* Fairness: that of LinkState, and a data packet in flight is received or *)
(* lost.  Nothing is assumed of the manager.                               *)
(***************************************************************************)
Gone(c) == \E p \in data : /\ <<p.from, p.to>> = c
                           /\ IF Alive(p.from, p.to) THEN Forward(p) ELSE LoseData(p)

ForwardFairness ==
    /\ \A l \in Link : WF_fvars(Timeout(l[1], l[2]) /\ UNCHANGED data)
    /\ \A c \in Channel : /\ WF_fvars(ReceiveHeartbeat(c[1], c[2]) /\ UNCHANGED data)
                          /\ \A l \in Link : WF_fvars(Arrive(c, l) /\ UNCHANGED data)
                          /\ SF_fvars(AnnounceNews(c[1], c[2]) /\ UNCHANGED data)
                          /\ WF_fvars(Gone(c))

ForwardFairSpec == ForwardSpec /\ ForwardFairness

-----------------------------------------------------------------------------
ForwardTypeOK == TypeOK /\ data \subseteq DataPacket

\* A packet is handed to a neighbour only if that neighbour was heard within
\* the last 700 ms: the check of the links and the computation of the routes
\* come before the lookup, so destMap is never stale when it is used.
NextHopHeard == [][\A p \in data' \ data : p.to \in heard'[p.from]]_fvars

\* When a router and its next hop believe in the same links, the next hop is
\* strictly nearer to the destination and knows a route there.  So no packet
\* goes in circles among routers that agree, whatever the ties: nothing else
\* takes a packet out of a loop.
RoutesDescend ==
    \A i, n, d \in Node :
        /\ UpGraph(lsdb[i]) = UpGraph(lsdb[n])
        /\ d \in DOMAIN RoutesAt(i, lsdb[i])
        /\ RoutesAt(i, lsdb[i])[d].next = n
        /\ n # d
        => /\ d \in DOMAIN RoutesAt(n, lsdb[n])
           /\ RoutesAt(n, lsdb[n])[d].cost < RoutesAt(i, lsdb[i])[d].cost

\* Duplication and loss stop.
Delivery(d) == \E p \in data : p.to = d /\ p.dest = d /\ Forward(p)
Quiet == <>[][~\E p \in data : DuplicateData(p) \/ (Alive(p.from, p.to) /\ LoseData(p))]_fvars

\* Once the faults are over no packet stays in the network for ever: loops among
\* routers that disagree end when the tables converge.
DataLeaves == Quiet => []<>(data = {})

\* When the manager asks again and again, and the routers can reach each other,
\* packets keep being delivered: the flooding, the routes and the handlers of the
\* relays work together.
Delivers ==
    \A f \in Flow :
        Quiet /\ <>[]Joined(f[1], f[2]) /\ WF_fvars(Send(f[1], f[2]))
            => []<><<Delivery(f[2])>>_fvars
=============================================================================
