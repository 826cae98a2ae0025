--------------------------- MODULE ShortestPaths ---------------------------
(***************************************************************************)
(* What the routes of a network are, said without the algorithm.  A graph  *)
(* is a function from its edges, pairs of nodes, to their costs.           *)
(***************************************************************************)
EXTENDS Integers, FiniteSetsExt

\* A cost that is over the limit counts as limit + 1.
Capped(c, limit) == IF c > limit THEN limit + 1 ELSE c

\* One edge more: the least cost of a way to every node when p has those of the
\* shorter ways.
OneMore(p, V, graph, limit) ==
    [v \in V |->
        Min({p[v]} \union
            {Capped(p[l[1]] + graph[l], limit) : l \in {k \in DOMAIN graph : k[2] = v}})]

\* The least cost of a way from s to every node of V, or limit + 1 when every way
\* costs more than limit: within[k] has the ways of at most k edges.
Ways(V, graph, s, limit) ==
    LET within[k \in 0..Cardinality(V)] ==
            IF k = 0 THEN [v \in V |-> IF v = s THEN 0 ELSE limit + 1]
            ELSE OneMore(within[k - 1], V, graph, limit)
    IN  within

Distance(V, graph, s, limit) == Ways(V, graph, s, limit)[Cardinality(V)]

\* The neighbours of s with which a cheapest way from s to v can begin.
FirstHops(V, graph, s, v, limit) ==
    {h \in V : /\ <<s, h>> \in DOMAIN graph
               /\ graph[<<s, h>>] + Distance(V, graph, h, limit)[v]
                    = Distance(V, graph, s, limit)[v]}

\* For every node within the limit the least of these neighbours and the cost.
RouteTable(V, graph, s, limit) ==
    [v \in {u \in V \ {s} : Distance(V, graph, s, limit)[u] =< limit} |->
        [next |-> Min(FirstHops(V, graph, s, v, limit)),
         cost |-> Distance(V, graph, s, limit)[v]]]

-----------------------------------------------------------------------------
(***************************************************************************)
(* The same without recursion, for the proofs.  A potential that is 0 at s *)
(* and rises along a link by no more than the cost of the link is nowhere  *)
(* greater than the cost of a way from s; the greatest one is the distance.*)
(***************************************************************************)
Potentials(V, graph, s, limit) ==
    {f \in [V -> 0..limit] : /\ f[s] = 0
                             /\ \A l \in DOMAIN graph : f[l[2]] =< f[l[1]] + graph[l]}

IsDistance(d, V, graph, s, limit) ==
    /\ d \in Potentials(V, graph, s, limit)
    /\ \A f \in Potentials(V, graph, s, limit) : \A v \in V : f[v] =< d[v]

\* A cheapest way from s to v may begin with h, and costs c.
BeginsWith(h, v, c, V, graph, s, limit) ==
    /\ <<s, h>> \in DOMAIN graph
    /\ \A f \in Potentials(V, graph, h, limit) : graph[<<s, h>>] + f[v] =< c

IsRouting(table, V, graph, s, limit) ==
    \E d \in [V -> 0..limit] :
        /\ IsDistance(d, V, graph, s, limit)
        /\ {v \in V \ {s} : d[v] < limit} \subseteq DOMAIN table
        /\ DOMAIN table \subseteq V \ {s}
        /\ \A v \in DOMAIN table :
              /\ table[v].cost = d[v]
              /\ BeginsWith(table[v].next, v, d[v], V, graph, s, limit)
=============================================================================
