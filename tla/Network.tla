------------------------------ MODULE Network ------------------------------
(***************************************************************************)
(* The networks that the profile pages of Keyworld draw                    *)
(* (src/CS-411_University Dashboard/Dash/utils/neo4j_utils.py): what is    *)
(* made of the rows of a query.  A network is a list of nodes and a list   *)
(* of edges, in the order in which they are put into `element'.            *)
(***************************************************************************)
EXTENDS SequencesExt

CONSTANTS
    Topic,  \* the keywords among the nodes of a path
    NoNode  \* the 0 that pid and kid start with

ASSUME NoNodeAssumption == NoNode \notin Topic

Alone(center) == [nodes |-> <<center>>, edges |-> <<>>]

AddNode(g, n) == [g EXCEPT !.nodes = Append(@, n)]
AddEdge(g, a, b) == [g EXCEPT !.edges = Append(@, <<a, b>>)]

(***************************************************************************)
(* relative_professor and collaborated_university: a row is a neighbour    *)
(* with its id and its label, and a label is drawn once.                   *)
(***************************************************************************)
Spoke(center, acc, row) ==
    IF row.label \in acc.labels THEN acc
    ELSE [graph |-> AddEdge(AddNode(acc.graph, row.id), center, row.id),
          labels |-> acc.labels \union {row.label}]

\* The loop over the rows: after[k] is what k of them have made.
Spokes(center, rows) ==
    LET after[k \in 0..Len(rows)] ==
            IF k = 0 THEN [graph |-> Alone(center), labels |-> {}]
            ELSE Spoke(center, after[k - 1], rows[k])
    IN  after

Star(center, rows) == Spokes(center, rows)[Len(rows)].graph

(***************************************************************************)
(* publication_network_finder: a row is a path of publications and         *)
(* keywords to the center.  pid and kid, the publication and the keyword   *)
(* that come before, are kept from one row to the next.                    *)
(***************************************************************************)
Start(center) ==
    [graph |-> Alone(center), topics |-> {}, pid |-> NoNode, kid |-> NoNode]

AtTopic(acc, n) ==
    LET g == AddEdge(acc.graph, acc.pid, n) IN
    [acc EXCEPT !.graph = IF n \in acc.topics THEN g ELSE AddNode(g, n),
                !.topics = @ \union {n},
                !.kid = n]

\* (mutant) the keyword is kept for the next path.
AtCenterKeepsTopic(acc, center) ==
    IF acc.kid = NoNode THEN acc
    ELSE [acc EXCEPT !.graph = AddEdge(@, center, acc.kid)]

AtCenter(acc, center) ==
    IF acc.kid = NoNode THEN acc
    ELSE [acc EXCEPT !.graph = AddEdge(@, center, acc.kid), !.kid = NoNode]

AtPublication(acc, n) ==
    LET g == AddNode(acc.graph, n) IN
    [acc EXCEPT !.graph = IF acc.kid = NoNode THEN g ELSE AddEdge(g, acc.kid, n),
                !.pid = n,
                !.kid = NoNode]

Along(center, acc, n) ==
    IF n \in Topic THEN AtTopic(acc, n)
    ELSE IF n = center THEN AtCenter(acc, center)
    ELSE AtPublication(acc, n)

\* The inner loop, over the nodes of a path, and the outer one over the paths.
Walk(center, acc, path) ==
    LET after[k \in 0..Len(path)] ==
            IF k = 0 THEN acc ELSE Along(center, after[k - 1], path[k])
    IN  after

Walks(center, paths) ==
    LET after[k \in 0..Len(paths)] ==
            IF k = 0 THEN Start(center)
            ELSE Walk(center, after[k - 1], paths[k])[Len(paths[k])]
    IN  after

Web(center, paths) == Walks(center, paths)[Len(paths)].graph

-----------------------------------------------------------------------------
(***************************************************************************)
(* What the queries give.  LABEL_BY joins publications and keywords, so a  *)
(* path alternates between them, and it begins and ends with publications. *)
(* Names and titles, by which the queries find the center, may belong to   *)
(* several nodes: a neighbour may be the center itself, and a path may end *)
(* at a namesake of the center, and begin at the center or lead through it.*)
(***************************************************************************)
IsRows(rows) == rows \in Seq(ToSet(rows))

IsPath(path) ==
    /\ path \in Seq(ToSet(path)) /\ Len(path) % 2 = 1
    /\ NoNode \notin ToSet(path)
    /\ \A k \in DOMAIN path : path[k] \in Topic <=> k % 2 = 0

IsPaths(center, paths) ==
    /\ center \notin Topic \union {NoNode}
    /\ paths \in Seq(ToSet(paths))
    /\ \A k \in DOMAIN paths : IsPath(paths[k])

-----------------------------------------------------------------------------
Ends(g) == {{g.edges[k][1], g.edges[k][2]} : k \in DOMAIN g.edges}
NodesOf(g) == ToSet(g.nodes)

\* The pairs of neighbours on a path; those without the steps away from the
\* center; and the keywords that these steps lead to.
Steps(path) == {{path[k], path[k + 1]} : k \in 1..(Len(path) - 1)}
SureSteps(center, path) ==
    {{path[k], path[k + 1]} : k \in {i \in 1..(Len(path) - 1) : path[i] # center}}
AfterCenter(center, path) ==
    {path[k + 1] : k \in {i \in 1..(Len(path) - 1) : path[i] = center}}

Lines(P, Q) == {{p, q} : p \in P, q \in Q}

\* The publications that pid may hold after k paths.
Passed(center, paths, k) ==
    ({NoNode} \union UNION {ToSet(paths[i]) : i \in 1..k}) \ (Topic \union {center})

\* The web has the nodes of its paths.  It joins the neighbours on its paths,
\* and nothing else, but for a keyword that comes after the center on a path:
\* pid is not set at the center, so this one is joined to a publication passed
\* before, or to none, which takes a first path that begins at the center.
WebTrue(g, center, paths) ==
    /\ NodesOf(g) = {center} \union UNION {ToSet(paths[k]) : k \in DOMAIN paths}
    /\ \A k \in DOMAIN paths : SureSteps(center, paths[k]) \subseteq Ends(g)
    /\ \A e \in Ends(g) : \E k \in DOMAIN paths :
          \/ e \in Steps(paths[k])
          \/ e \in Lines(Passed(center, paths, k), AfterCenter(center, paths[k]))
    /\ NoNode \in UNION Ends(g) => paths[1][1] = center

\* The star has one node, joined to the center, for each label of its rows.
StarTrue(g, center, rows) ==
    LET Around == ToSet(Tail(g.nodes))
        LabelsOf(J) == {rows[j].label : j \in J} IN
    /\ Head(g.nodes) = center
    /\ Ends(g) = Lines({center}, Around)
    /\ Len(g.nodes) = Cardinality(LabelsOf(DOMAIN rows)) + 1
    /\ LabelsOf(DOMAIN rows) = LabelsOf({j \in DOMAIN rows : rows[j].id \in Around})

=============================================================================
