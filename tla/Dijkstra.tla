------------------------------ MODULE Dijkstra ------------------------------
(***************************************************************************)
(* The route computation dijkstra() of monitor_neighbors.h: one step is    *)
(* one turn of its while loop, over the graph of the links that are held   *)
(* and up.  The listener calls it with the tables at rest, so the graph    *)
(* does not change meanwhile.                                              *)
(*                                                                         *)
(* The queue is a bag, because equal entries are queued more than once,    *)
(* and the entry it yields is any of the cheapest: dCompare looks at the   *)
(* cost alone.                                                             *)
(***************************************************************************)
EXTENDS ShortestPaths, Bags

CONSTANTS
    Node,     \* the router ids
    Me,       \* globalMyID
    Graphs,   \* the graphs to compute on: functions from links to costs
    Inf       \* the first value of visited, 2^30 in the code

ASSUME NodeAssumption == Node \subseteq Nat /\ IsFiniteSet(Node) /\ Me \in Node
ASSUME InfAssumption == Inf \in Nat
ASSUME GraphAssumption ==
    \A graph \in Graphs :
        /\ DOMAIN graph \subseteq {l \in Node \X Node : l[1] # l[2]}
        /\ \A l \in DOMAIN graph : graph[l] \in Nat

VARIABLES
    graph,    \* the links that are up, with their costs
    visited,  \* visited[v]: the least cost at which v was queued
    pq,       \* the priority queue
    destMap   \* for every node reached, the next hop and the cost

vars == <<graph, visited, pq, destMap>>

NoHop == -1
Entry == [cost : Nat, node : Node, next : Node \union {NoHop}]
Route == [next : Node, cost : Nat]

Start == [cost |-> 0, node |-> Me, next |-> NoHop]

Init ==
    /\ graph \in Graphs
    /\ visited = [v \in Node |-> Inf]
    /\ pq = SetToBag({Start})
    /\ destMap = <<>>

\* (mutant) The comparator is turned round.
DearestFirst(e) == e \in BagToSet(pq) /\ \A f \in BagToSet(pq) : f.cost =< e.cost

\* pq.top() may be e.
Top(e) == e \in BagToSet(pq) /\ \A f \in BagToSet(pq) : e.cost =< f.cost

\* (mutant) The hop is taken from the entry as it is.
HopAsQueued(e) == IF e.next = NoHop THEN e.node ELSE e.next

\* "get real first step"
Hop(e) == IF e.next = NoHop \/ e.next = Me THEN e.node ELSE e.next

\* (mutant) The first next hop found is kept.
RecordedFirst(e) ==
    IF e.node = Me \/ e.node \in DOMAIN destMap THEN destMap
    ELSE [v \in DOMAIN destMap \union {e.node} |->
            IF v = e.node THEN [next |-> Hop(e), cost |-> e.cost] ELSE destMap[v]]

\* destMap with e recorded: the least next hop of those with the least cost.
Recorded(e) ==
    IF e.node = Me THEN destMap
    ELSE IF e.node \notin DOMAIN destMap
         THEN [v \in DOMAIN destMap \union {e.node} |->
                 IF v = e.node THEN [next |-> Hop(e), cost |-> e.cost] ELSE destMap[v]]
    ELSE IF destMap[e.node].cost = e.cost /\ Hop(e) < destMap[e.node].next
         THEN [destMap EXCEPT ![e.node].next = Hop(e)]
    ELSE destMap

\* The neighbours that are queued: not dearer than they were before.
Pushed(e) ==
    {v \in Node : /\ <<e.node, v>> \in DOMAIN graph
                  /\ e.cost + graph[<<e.node, v>>] =< visited[v]}

NewEntries(e) ==
    {[cost |-> e.cost + graph[<<e.node, v>>], node |-> v, next |-> Hop(e)] : v \in Pushed(e)}

\* (mutant) A stale entry is skipped before it is popped.
RestAfterCheck(e) == IF visited[e.node] < e.cost THEN pq ELSE pq (-) SetToBag({e})

Rest(e) == pq (-) SetToBag({e})

\* "visited but not the best route"
Stale(e) == visited[e.node] < e.cost

Skip(e) ==
    /\ Top(e) /\ Stale(e)
    /\ pq' = Rest(e)
    /\ UNCHANGED <<graph, visited, destMap>>

Expand(e) ==
    /\ Top(e) /\ ~Stale(e)
    /\ destMap' = Recorded(e)
    /\ visited' = [v \in Node |-> IF v \in Pushed(e) THEN e.cost + graph[<<e.node, v>>]
                                  ELSE visited[v]]
    /\ pq' = Rest(e) (+) SetToBag(NewEntries(e))
    /\ UNCHANGED graph

Next == \E e \in BagToSet(pq) : Skip(e) \/ Expand(e)

Spec == Init /\ [][Next]_vars
FairSpec == Spec /\ WF_vars(Next)

-----------------------------------------------------------------------------
TypeOK ==
    /\ graph \in Graphs
    /\ visited \in [Node -> 0..Inf]
    /\ IsABag(pq) /\ BagToSet(pq) \subseteq Entry
    /\ DOMAIN destMap \subseteq Node \ {Me}
    /\ destMap \in [DOMAIN destMap -> Route]

Finished == BagToSet(pq) = {}

\* The cost of reaching u, as the loop knows it so far.
Reach(u) == IF u = Me THEN 0 ELSE visited[u]

\* The queue never holds an entry cheaper than a node that is already recorded,
\* and a recorded cost is final: what the order of the queue is for, since a
\* recorded cost is never replaced (lines 244-250).
Settled ==
    \A v \in DOMAIN destMap :
        /\ destMap[v].cost = visited[v]
        /\ \A e \in BagToSet(pq) : destMap[v].cost =< e.cost

\* A node is expanded for its present cost, or it is queued with it.
Pending ==
    \A u \in Node :
        \/ \A v \in Node : <<u, v>> \in DOMAIN graph => visited[v] =< Reach(u) + graph[<<u, v>>]
        \/ \E e \in BagToSet(pq) : e.node = u /\ e.cost = Reach(u)

\* No entry and no cost is less than the graph allows.
NeverTooCheap ==
    \A f \in Potentials(Node, graph, Me, Inf + 1) :
        /\ \A e \in BagToSet(pq) : f[e.node] =< e.cost
        /\ \A v \in Node : f[v] =< visited[v] \/ (visited[v] = Inf /\ v \notin DOMAIN destMap)

\* An entry's next hop is a neighbour, and there is a way through it at the
\* entry's cost.
OnTheWay(h, v, c) == BeginsWith(h, v, c, Node, graph, Me, Inf + 1)

HopsOnTheWay ==
    /\ \A e \in BagToSet(pq) :
          e = Start \/ (e.next # NoHop /\ OnTheWay(Hop(e), e.node, e.cost))
    /\ \A v \in DOMAIN destMap : OnTheWay(destMap[v].next, v, destMap[v].cost)

\* What is queued or reached below the limit is recorded in the end.
Reached ==
    \A v \in Node \ {Me} :
        /\ \A e \in BagToSet(pq) : e.node = v => visited[v] =< e.cost
        /\ visited[v] < Inf => \/ v \in DOMAIN destMap
                               \/ \E e \in BagToSet(pq) : e.node = v /\ e.cost = visited[v]

\* v is queued at cost c over the neighbour h.
Due(v, c, h) == \E e \in BagToSet(pq) : e.node = v /\ e.cost = c /\ Hop(e) = h

\* W are the nodes that were expanded over the neighbour h.  None of them has a
\* greater next hop, and the ways that go on from them are followed, unless they
\* are dearer than others.
Followed(h, W) ==
    /\ \A v \in DOMAIN destMap : /\ v \in W => destMap[v].next =< h
                                 /\ destMap[v].next = h => v \in W
    /\ graph[<<Me, h>>] =< Reach(h) => h \in W \/ Due(h, graph[<<Me, h>>], h)
    /\ \A u \in W, v \in Node :
          /\ <<u, v>> \in DOMAIN graph
          /\ Reach(u) + graph[<<u, v>>] =< Reach(v)
          => v \in W \/ Due(v, Reach(u) + graph[<<u, v>>], h)

\* Every neighbour's ways are followed, those with equal costs too: why the next
\* hops are the least.
EachHopFollowed ==
    \/ BagToSet(pq) = {Start} /\ DOMAIN destMap = {}
    \/ \A h \in Node : <<Me, h>> \in DOMAIN graph =>
          \E W \in SUBSET ({Me} \union DOMAIN destMap) : Followed(h, W)

\* The invariant of the loop: together these say why its end has the routes.
LoopInv == /\ TypeOK /\ Settled /\ Pending /\ NeverTooCheap /\ HopsOnTheWay /\ Reached
           /\ EachHopFollowed

\* The loop ends with the distances, a route to every node nearer than Inf and
\* next hops with which a cheapest way begins; popping a stale entry, meeting
\* an equal cost or coming back to Me does not spoil it (lines 231-280).
Routing == Finished => IsRouting(destMap, Node, graph, Me, Inf)

\* dijkstra() computes the routes of the graph, whatever the order of the ties:
\* the least costs, and the least next hop among the cheapest ways
\* (lines 244-257).
Result == Finished => destMap = RouteTable(Node, graph, Me, Inf)
=============================================================================
