----------------------------- MODULE DijkstraMC -----------------------------
(* Small graphs for Dijkstra. *)
EXTENDS Dijkstra

SmallNode == 1..4
Links(N) == {l \in N \X N : l[1] # l[2]}

\* Every graph on three of the nodes, whose links may have different costs in the
\* two directions or exist in one only.
OneWayGraphs == UNION {[E -> {1, 3}] : E \in SUBSET Links(1..3)}

\* Every network of the four nodes with equal costs in both directions: the ties
\* between ways of two and of three links.
SmallWire == {{l[1], l[2]} : l \in Links(SmallNode)}
BothWays(c) == [l \in {l \in Links(SmallNode) : {l[1], l[2]} \in DOMAIN c} |-> c[{l[1], l[2]}]]
Networks == {BothWays(c) : c \in UNION {[W -> {1, 2}] : W \in SUBSET SmallWire}}

SmallGraphs == OneWayGraphs \union Networks

\* The loop ends, although equal costs are queued again (line 266).
Ends == <>Finished
=============================================================================
