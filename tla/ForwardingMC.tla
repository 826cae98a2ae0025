---------------------------- MODULE ForwardingMC ----------------------------
(* A small network for Forwarding. *)
EXTENDS Forwarding, TLC

\* A line 1 - 2 - 3 with a link from 1 to 3 that is in the cost file only: 1 and
\* 2 may each take the other for the way to 3.
LineNode == 1..3
LineWire == {{1, 2}, {2, 3}}
LineCost == (1 :> ((2 :> 1) @@ (3 :> 1))) @@ (2 :> ((1 :> 1) @@ (3 :> 1))) @@ (3 :> (2 :> 1))
LineFlow == {<<1, 3>>}

\* The routes of every graph, computed once.
RouteTables == [g \in RouteGraphs |-> [i \in Node |-> RouteTable(Node, g, i, Limit)]]
TableOf(g, i) == RouteTables[g][i]

ListedTable == [l \in Link |-> IF IsListed(l) THEN Listed(l[1], l[2]) ELSE NoLSA]

\* The reachable state in which the flooding after the start is over, and no
\* clock has run out yet.
SettledInit ==
    /\ lsdb = [i \in Node |-> ListedTable]
    /\ heard = [i \in Node |-> Node \ {i}]
    /\ net = {}
    /\ cut = {}
    /\ faults = 0
    /\ data = {}

SettledSpec == SettledInit /\ [][ForwardNext]_fvars
SettledFairSpec == SettledSpec /\ ForwardFairness
=============================================================================
