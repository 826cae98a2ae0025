------------------------------ MODULE Keyworld ------------------------------
(***************************************************************************)
(* The pages of Keyworld (src/CS-411_University Dashboard/Dash): requests  *)
(* that run side by side in threads of one process, over a MySQL table of  *)
(* searches, a Neo4j graph of similar keywords and read-only data.         *)
(*                                                                         *)
(* A page is a function that makes its queries one after the other; each   *)
(* query is a step here, and an exception in any of them ends the request. *)
(* The databases are external: a query is atomic, and no transaction spans *)
(* two of them.  All requests share one Neo4j session (neo4j_utils.py:13), *)
(* which is not made for that: a query on it may raise when another        *)
(* request is at the graph too, before or after its effect.                *)
(***************************************************************************)
EXTENDS Integers, FiniteSets, Network

CONSTANTS
    Visitor,   \* the browsers
    Keyword,   \* the names in the table of keywords
    NoName,    \* a name that is not in it
    NameOf,    \* NameOf[k]: k after toNameSlug and toName, which lose a '+'
    Similar,   \* Similar[k]: the names that match a form of a word of k
    InGraph,   \* the keywords with a node in Neo4j
    Answers,   \* what a profile page may get from its queries
    NoAnswer,
    HotLimit,  \* LIMIT 10 of the home page
    RowLimit,  \* LIMIT 20 of get_similar_from_graph
    MaxNow,    \* bound: the seconds that pass
    MaxFaults  \* bound: the failures of a database

(***************************************************************************)
(* A name is in the table of keywords once, so the query finds it once.    *)
(***************************************************************************)
ASSUME KeywordAssumption ==
    /\ NoName \notin Keyword
    /\ NameOf \in [Keyword -> Keyword \union {NoName}]
    /\ Similar \in [Keyword -> Seq(Keyword)]
    /\ \A k \in Keyword : \A i, j \in DOMAIN Similar[k] :
           Similar[k][i] = Similar[k][j] => i = j
    /\ InGraph \subseteq Keyword
    /\ IsFiniteSet(Keyword)
ASSUME AnswerAssumption ==
    \A a \in Answers : IF a.kind = "publication" THEN IsPaths(a.center, a.rows)
                                               ELSE IsRows(a.rows)
ASSUME VisitorAssumption == IsFiniteSet(Visitor)
ASSUME LimitAssumption ==
    HotLimit \in Nat /\ RowLimit \in Nat /\ MaxNow \in Nat /\ MaxFaults \in Nat

VARIABLES
    searches,  \* keyword_search: the rows <<keyword, second>>
    rels,      \* rels[<<a, b>>]: the SIMILAR_KEYWORD relations from a to b
    now,       \* the second that now() gives
    faults,    \* the failures so far
    at,        \* at[v]: where the request of v is, or what v looks at
    key,       \* key[v]: keyword_name of v's page
    todo,      \* todo[v]: what update_all_keyword_in_graphdb has still to treat
    links,     \* links[v]: the keywords v can click on
    net        \* net[v]: the answer and the network of v's profile page

vars == <<searches, rels, now, faults, at, key, todo, links, net>>

Looking == {"nothing", "home", "refused", "shown", "profile", "failed"}
AtGraph == {"detect", "create"}
Busy == {"count", "widgets", "match"} \union AtGraph

Init ==
    /\ searches = {}
    /\ rels = [p \in Keyword \X Keyword |-> 0]
    /\ now = 0
    /\ faults = 0
    /\ at = [v \in Visitor |-> "nothing"]
    /\ key = [v \in Visitor |-> NoName]
    /\ todo = [v \in Visitor |-> <<>>]
    /\ links = [v \in Visitor |-> {}]
    /\ net = [v \in Visitor |-> NoAnswer]

Go(v, to) == at' = [at EXCEPT ![v] = to]

\* What the browser shows is replaced as a whole.
Show(v, what, shown) ==
    /\ Go(v, what)
    /\ links' = [links EXCEPT ![v] = shown]

-----------------------------------------------------------------------------
(***************************************************************************)
(* The home page: the most searched keywords, and the form.                *)
(***************************************************************************)
Count(k) == Cardinality({t \in 0..MaxNow : <<k, t>> \in searches})
Searched == {k \in Keyword : Count(k) > 0}

HotKeywords ==
    {S \in SUBSET Searched :
        /\ Cardinality(S) = (IF Cardinality(Searched) < HotLimit
                             THEN Cardinality(Searched) ELSE HotLimit)
        /\ \A k \in S, l \in Searched \ S : Count(k) >= Count(l)}

OpenHome(v) ==
    /\ at[v] \in Looking
    /\ \E S \in HotKeywords : Show(v, "home", S)
    /\ key' = [key EXCEPT ![v] = NoName]
    /\ net' = [net EXCEPT ![v] = NoAnswer]
    /\ UNCHANGED <<searches, rels, now, faults, todo>>

Request(v, k) ==
    /\ Show(v, "count", {})
    /\ key' = [key EXCEPT ![v] = NameOf[k]]
    /\ net' = [net EXCEPT ![v] = NoAnswer]
    /\ UNCHANGED <<searches, rels, now, faults, todo>>

\* update_output with a keyword that exists: the browser is sent to its page.
Submit(v, k) == at[v] \in {"home", "refused"} /\ Request(v, k)

\* update_output with nothing or an unknown keyword.
Refuse(v) ==
    /\ at[v] = "home"
    /\ Go(v, "refused")
    /\ UNCHANGED <<searches, rels, now, faults, key, todo, links, net>>

Follow(v, k) ==
    /\ at[v] \in {"home", "refused", "shown"}
    /\ k \in links[v]
    /\ Request(v, k)

\* A page that has failed is loaded again.
Reload(v) ==
    /\ at[v] = "failed" /\ key[v] \in Keyword
    /\ Show(v, "count", {})
    /\ UNCHANGED <<searches, rels, now, faults, key, todo, net>>

-----------------------------------------------------------------------------
(***************************************************************************)
(* The page of a keyword.                                                  *)
(***************************************************************************)
Raise(v) == Go(v, "failed") /\ todo' = [todo EXCEPT ![v] = <<>>]

\* (mutant) INSERT IGNORE.
InsertIgnores(v) ==
    /\ at[v] = "count"
    /\ key[v] \in Keyword
    /\ searches' = searches \union {<<key[v], now>>}
    /\ Go(v, "widgets")
    /\ UNCHANGED <<rels, now, faults, key, todo, links, net>>

\* insert_keyword_search: the row of the name, then the insert, whose key is
\* the keyword and the second.
InsertSearch(v) ==
    /\ at[v] = "count"
    /\ key[v] \in Keyword /\ <<key[v], now>> \notin searches
    /\ searches' = searches \union {<<key[v], now>>}
    /\ Go(v, "widgets")
    /\ UNCHANGED <<rels, now, faults, key, todo, links, net>>

InsertRaises(v) ==
    /\ at[v] = "count"
    /\ key[v] \in Keyword => <<key[v], now>> \in searches
    /\ Raise(v)
    /\ UNCHANGED <<searches, rels, now, faults, key, links, net>>

\* The six widgets only read.
Widgets(v) ==
    /\ at[v] = "widgets"
    /\ Go(v, "match")
    /\ UNCHANGED <<searches, rels, now, faults, key, todo, links, net>>

\* similar_list.remove raises if the query has not found the keyword itself.
Match(v) ==
    /\ at[v] = "match"
    /\ IF Contains(Similar[key[v]], key[v])
       THEN /\ todo' = [todo EXCEPT ![v] = RemoveFirst(Similar[key[v]], key[v])]
            /\ Go(v, "detect")
       ELSE Raise(v)
    /\ UNCHANGED <<searches, rels, now, faults, key, links, net>>

Related(a, b) == rels[<<a, b>>] + rels[<<b, a>>] > 0

\* (mutant) no check before the creation.
DetectNothing(v) ==
    /\ at[v] = "detect" /\ todo[v] # <<>>
    /\ Go(v, "create")
    /\ UNCHANGED <<searches, rels, now, faults, key, todo, links, net>>

\* (mutant) a relation of the keyword with anything is taken for this one.
DetectAny(v) ==
    /\ at[v] = "detect" /\ todo[v] # <<>>
    /\ IF \E k \in Keyword : Related(key[v], k)
       THEN todo' = [todo EXCEPT ![v] = Tail(@)] /\ UNCHANGED at
       ELSE Go(v, "create") /\ UNCHANGED todo
    /\ UNCHANGED <<searches, rels, now, faults, key, links, net>>

\* The relation is looked for in either direction.
Detect(v) ==
    /\ at[v] = "detect" /\ todo[v] # <<>>
    /\ IF Related(key[v], Head(todo[v]))
       THEN todo' = [todo EXCEPT ![v] = Tail(@)] /\ UNCHANGED at
       ELSE Go(v, "create") /\ UNCHANGED todo
    /\ UNCHANGED <<searches, rels, now, faults, key, links, net>>

\* One relation each way, if both nodes are there.
Relate(a, b) ==
    rels' = IF {a, b} \subseteq InGraph
            THEN [rels EXCEPT ![<<a, b>>] = @ + 1, ![<<b, a>>] = @ + 1]
            ELSE rels

\* (mutant) no way back to the check.
CreateOn(v) ==
    /\ at[v] = "create"
    /\ Relate(key[v], Head(todo[v]))
    /\ todo' = [todo EXCEPT ![v] = Tail(@)]
    /\ UNCHANGED <<searches, now, faults, at, key, links, net>>

Create(v) ==
    /\ at[v] = "create"
    /\ Relate(key[v], Head(todo[v]))
    /\ todo' = [todo EXCEPT ![v] = Tail(@)]
    /\ Go(v, "detect")
    /\ UNCHANGED <<searches, now, faults, key, links, net>>

\* get_similar_from_graph: one row for each relation of k, at most RowLimit of
\* them, and the names at their other ends.
Rows(k, S) == UNION {{n} \X (1..(rels[<<k, n>>] + rels[<<n, k>>])) : n \in S}
RowsTo(k, S) == Cardinality(Rows(k, S))
Neighbours(k) == {n \in Keyword : Related(k, n)}

Shown(k) ==
    LET rows == IF RowsTo(k, Neighbours(k)) < RowLimit
                THEN RowsTo(k, Neighbours(k)) ELSE RowLimit
    IN  {S \in SUBSET Neighbours(k) : Cardinality(S) =< rows /\ rows =< RowsTo(k, S)}

\* shortestpath refuses a path from a node to itself.
Read(v) ==
    /\ at[v] = "detect" /\ todo[v] = <<>>
    /\ IF Related(key[v], key[v])
       THEN Go(v, "failed") /\ UNCHANGED links
       ELSE \E S \in Shown(key[v]) : Show(v, "shown", S)
    /\ UNCHANGED <<searches, rels, now, faults, key, todo, net>>

-----------------------------------------------------------------------------
(***************************************************************************)
(* The profile pages.  An answer is the kind of the page, whether the      *)
(* profile was found, the center of the network and the rows of its query, *)
(* of which the database may give any, in any order.                       *)
(***************************************************************************)
Profile(v, a, drawn, graph) ==
    /\ at[v] \in {"nothing", "shown", "profile"}
    /\ IF drawn
       THEN Show(v, "profile", {}) /\ net' = [net EXCEPT ![v] = [answer |-> a, graph |-> graph]]
       ELSE Show(v, "failed", {}) /\ net' = [net EXCEPT ![v] = NoAnswer]
    /\ key' = [key EXCEPT ![v] = NoName]
    /\ UNCHANGED <<searches, rels, now, faults, todo>>

\* list(...)[0] of a profile that is not there raises, and so does result[0] of
\* a professor without a relative.
OpenFaculty(v) ==
    \E a \in Answers : /\ a.kind = "faculty"
                       /\ Profile(v, a, a.found /\ a.rows # <<>>, Star(a.center, a.rows))

OpenAffiliation(v) ==
    \E a \in Answers : /\ a.kind = "affiliation"
                       /\ Profile(v, a, a.found, Star(a.center, a.rows))

OpenPublication(v) ==
    \E a \in Answers : /\ a.kind = "publication"
                       /\ Profile(v, a, a.found, Web(a.center, a.rows))

-----------------------------------------------------------------------------
(***************************************************************************)
(* What goes wrong.                                                        *)
(***************************************************************************)
\* The effect of a query that raises may be there or not.
Effect(v) ==
    \/ UNCHANGED <<rels, searches>>
    \/ /\ at[v] = "create" /\ Relate(key[v], Head(todo[v]))
       /\ UNCHANGED searches
    \/ /\ at[v] = "count" /\ key[v] \in Keyword
       /\ searches' = searches \union {<<key[v], now>>}
       /\ UNCHANGED rels

DatabaseFails(v) ==
    /\ at[v] \in Busy /\ faults < MaxFaults
    /\ faults' = faults + 1
    /\ Effect(v) /\ Raise(v)
    /\ UNCHANGED <<now, key, links, net>>

SessionClashes(v) ==
    /\ at[v] \in AtGraph /\ \E w \in Visitor \ {v} : at[w] \in AtGraph
    /\ Effect(v) /\ Raise(v)
    /\ UNCHANGED <<now, faults, key, links, net>>

Tick ==
    /\ now < MaxNow
    /\ now' = now + 1
    /\ UNCHANGED <<searches, rels, faults, at, key, todo, links, net>>

-----------------------------------------------------------------------------
Serve(v) ==
    \/ InsertSearch(v) \/ InsertRaises(v) \/ Widgets(v) \/ Match(v)
    \/ Detect(v) \/ Create(v) \/ Read(v)

Browse(v) ==
    \/ OpenHome(v) \/ Refuse(v) \/ Reload(v)
    \/ OpenFaculty(v) \/ OpenAffiliation(v) \/ OpenPublication(v)
    \/ \E k \in Keyword : Submit(v, k) \/ Follow(v, k)

Next ==
    \/ \E v \in Visitor : Serve(v) \/ Browse(v) \/ DatabaseFails(v) \/ SessionClashes(v)
    \/ Tick

Spec == Init /\ [][Next]_vars

-----------------------------------------------------------------------------
(***************************************************************************)
(* Properties.                                                             *)
(***************************************************************************)
TypeOK ==
    /\ searches \subseteq Keyword \X (0..MaxNow)
    /\ rels \in [Keyword \X Keyword -> Nat]
    /\ now \in 0..MaxNow /\ faults \in 0..MaxFaults
    /\ at \in [Visitor -> Looking \union Busy]
    /\ key \in [Visitor -> Keyword \union {NoName}]
    /\ todo \in [Visitor -> Seq(Keyword)]
    /\ links \in [Visitor -> SUBSET Keyword]
    /\ DOMAIN net = Visitor
    /\ \A v \in Visitor :
          /\ at[v] \in Busy \ {"count"} => key[v] \in Keyword
          /\ at[v] = "create" => todo[v] # <<>>
          /\ at[v] \notin AtGraph => todo[v] = <<>>
          /\ net[v] # NoAnswer => net[v].answer \in Answers

\* When the page of a keyword is shown, every similar keyword is related to it
\* in the graph, whatever failed or clashed on earlier visits of anybody
\* (similar_keyword.py:100, README.md:71 of Keyworld).
ShownComplete ==
    \A v \in Visitor : at[v] = "shown" =>
        \A k \in (ToSet(Similar[key[v]]) \intersect InGraph) \ {key[v]} :
            key[v] \in InGraph => Related(key[v], k)

\* Requests that look for a relation at the same time may all create it, but
\* no more often than there are threads; no keyword is related to itself, which
\* would end its page for ever, nor to one that is not similar
\* (similar_keyword.py:108-119).
RelationsSound ==
    \A a, b \in Keyword :
        /\ rels[<<a, b>>] =< Cardinality(Visitor)
        /\ Related(a, b) => /\ a # b
                            /\ Contains(Similar[a], b) \/ Contains(Similar[b], a)

\* Every page that is made has a row of its own in the table of searches: two
\* visits within one second are never counted as one (mysql_utils.py:44).
EveryPageCounts ==
    \A k \in Keyword :
        Cardinality({v \in Visitor : key[v] = k /\ at[v] \in {"shown"} \union (Busy \ {"count"})})
            =< Count(k)

\* The network of a profile joins what the rows of its query join, although the
\* publication and the keyword that come before are carried from one row to
\* the next; what is wrong where a path leads away from the center, as paths to
\* a namesake of it may, goes no further (neo4j_utils.py:90-128).
NetworkTrue ==
    \A v \in Visitor : net[v] # NoAnswer =>
        LET answer == net[v].answer IN
        IF answer.kind = "publication"
        THEN WebTrue(net[v].graph, answer.center, answer.rows)
        ELSE StarTrue(net[v].graph, answer.center, answer.rows)

\* The list that is read back leaves out a neighbour only for want of rows, and
\* doubled relations use up no more rows than the threads can double them
\* (similar_keyword.py:128-136).
ListFull ==
    [][\A v \in Visitor : at[v] = "detect" /\ at'[v] = "shown" =>
          \/ links'[v] = Neighbours(key[v])
          \/ Cardinality(links'[v]) * 2 * Cardinality(Visitor) >= RowLimit]_vars
=============================================================================
