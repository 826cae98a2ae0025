--------------------------- MODULE DijkstraProofs ---------------------------
(***************************************************************************)
(* The route computation is right for every set of routers, every graph    *)
(* and every limit: its loop invariant is inductive, and at the end of the *)
(* loop it gives the routes.                                               *)
(***************************************************************************)
EXTENDS Dijkstra, FiniteSetTheorems, TLAPS

-----------------------------------------------------------------------------
(***************************************************************************)
(* The queue.                                                              *)
(***************************************************************************)
\* Popping takes away one copy of e.
LEMMA PopFacts ==
  ASSUME NEW B, IsABag(B), NEW e \in BagToSet(B)
  PROVE  /\ IsABag(B (-) SetToBag({e}))
         /\ BagToSet(B (-) SetToBag({e})) \subseteq BagToSet(B)
         /\ \A x \in BagToSet(B) : x = e \/ x \in BagToSet(B (-) SetToBag({e}))
<1> DEFINE S == SetToBag({e})
           D == [x \in DOMAIN B |-> IF x \in DOMAIN S THEN B[x] - S[x] ELSE B[x]]
           R == {x \in DOMAIN B : D[x] > 0}
<1>1. \A x \in DOMAIN B : B[x] \in Nat /\ B[x] > 0
  BY DEF IsABag
<1>2. DOMAIN S = {e} /\ S[e] = 1
  BY DEF SetToBag
<1>3. \A x \in DOMAIN B : D[x] \in Int /\ (x # e => D[x] = B[x])
  BY <1>1, <1>2
<1>4. B (-) S = [x \in R |-> D[x]]
  BY DEF (-)
<1> HIDE DEF S, D
<1>5. BagToSet(B (-) S) = R
  BY <1>4 DEF BagToSet
<1>6. IsABag(B (-) S)
  BY <1>3, <1>4 DEF IsABag
<1>7. \A x \in BagToSet(B) : x = e \/ x \in R
  BY <1>1, <1>3 DEF BagToSet
<1>8. QED
  BY <1>5, <1>6, <1>7 DEF BagToSet, S

\* Pushing a set of entries.
LEMMA PushFacts ==
  ASSUME NEW B, IsABag(B), NEW S
  PROVE  /\ IsABag(B (+) SetToBag(S))
         /\ BagToSet(B (+) SetToBag(S)) = BagToSet(B) \union S
<1> DEFINE T == SetToBag(S)
           C == B (+) T
<1>1. \A x \in DOMAIN B : B[x] \in Nat /\ B[x] > 0
  BY DEF IsABag
<1>2. DOMAIN T = S /\ \A x \in S : T[x] = 1
  BY DEF SetToBag
<1> HIDE DEF T
<1>3. C = [x \in DOMAIN B \union S |-> (IF x \in DOMAIN B THEN B[x] ELSE 0)
                                    + (IF x \in S THEN T[x] ELSE 0)]
  BY <1>2 DEF (+)
<1> HIDE DEF C
<1>4. \A x \in DOMAIN B \union S : C[x] \in Nat /\ C[x] > 0
  BY <1>1, <1>2, <1>3
<1>5. DOMAIN C = DOMAIN B \union S
  BY <1>3
<1>6. IsABag(C)
  BY <1>3, <1>4, <1>5 DEF IsABag
<1>7. QED
  BY <1>5, <1>6 DEF BagToSet, C, T

-----------------------------------------------------------------------------
(***************************************************************************)
(* One turn of the loop.                                                   *)
(***************************************************************************)
LEMMA GraphFacts ==
  ASSUME NEW g \in Graphs, NEW l \in DOMAIN g
  PROVE  /\ l[1] \in Node /\ l[2] \in Node /\ l[1] # l[2]
         /\ l = <<l[1], l[2]>>
         /\ g[l] \in Nat
  BY GraphAssumption

LEMMA EdgeFacts ==
  ASSUME NEW g \in Graphs, NEW u, NEW v, <<u, v>> \in DOMAIN g
  PROVE  u \in Node /\ v \in Node /\ u # v /\ g[<<u, v>>] \in Nat
  BY GraphAssumption

LEMMA PotentialFacts ==
  ASSUME NEW g, NEW s \in Node, NEW limit, NEW f \in Potentials(Node, g, s, limit)
  PROVE  /\ f \in [Node -> 0..limit]
         /\ f[s] = 0
         /\ \A u, v \in Node : <<u, v>> \in DOMAIN g => f[v] =< f[u] + g[<<u, v>>]
  BY DEF Potentials

\* A potential under a limit is one under the next limit.
LEMMA HigherLimit ==
  ASSUME NEW V, NEW g, NEW s, NEW limit \in Nat
  PROVE  Potentials(V, g, s, limit) \subseteq Potentials(V, g, s, limit + 1)
<1>1. 0..limit \subseteq 0..(limit + 1)
  OBVIOUS
<1>2. [V -> 0..limit] \subseteq [V -> 0..(limit + 1)]
  BY <1>1
<1>3. QED
  BY <1>2 DEF Potentials

LEMMA NoHopIsNoNode == NoHop \notin Node /\ Me \in Node
  BY NodeAssumption DEF NoHop

\* The popped entry, what is left in the queue and what is put into it.
LEMMA SkipQueue ==
  ASSUME TypeOK, NEW e \in BagToSet(pq), Skip(e)
  PROVE  /\ IsABag(pq')
         /\ BagToSet(pq') \subseteq BagToSet(pq)
         /\ \A x \in BagToSet(pq) : x = e \/ x \in BagToSet(pq')
<1>1. IsABag(pq)
  BY DEF TypeOK
<1>2. QED
  BY <1>1, PopFacts DEF Skip, Rest

LEMMA ExpandQueue ==
  ASSUME TypeOK, NEW e \in BagToSet(pq), Expand(e)
  PROVE  /\ IsABag(pq')
         /\ \A x \in BagToSet(pq') : x \in BagToSet(pq) \/ x \in NewEntries(e)
         /\ \A x \in BagToSet(pq) : x = e \/ x \in BagToSet(pq')
         /\ NewEntries(e) \subseteq BagToSet(pq')
<1>1. IsABag(pq)
  BY DEF TypeOK
<1>2. /\ IsABag(Rest(e))
      /\ BagToSet(Rest(e)) \subseteq BagToSet(pq)
      /\ \A x \in BagToSet(pq) : x = e \/ x \in BagToSet(Rest(e))
  BY <1>1, PopFacts DEF Rest
<1>3. pq' = Rest(e) (+) SetToBag(NewEntries(e))
  BY DEF Expand
<1>4. /\ IsABag(pq')
      /\ BagToSet(pq') = BagToSet(Rest(e)) \union NewEntries(e)
  BY <1>2, <1>3, PushFacts
<1>5. QED
  BY <1>2, <1>4

LEMMA EntryFacts ==
  ASSUME TypeOK, NEW e \in BagToSet(pq)
  PROVE  /\ e.cost \in Nat /\ e.node \in Node /\ e.next \in Node \union {NoHop}
         /\ Hop(e) \in Node
         /\ visited[e.node] \in Nat
         /\ graph \in Graphs
<1>1. e \in Entry
  BY DEF TypeOK
<1>2. e.cost \in Nat /\ e.node \in Node /\ e.next \in Node \union {NoHop}
  BY <1>1 DEF Entry
<1>3. visited[e.node] \in Nat
  BY <1>2, InfAssumption DEF TypeOK
<1>4. QED
  BY <1>2, <1>3 DEF TypeOK, Hop

\* A neighbour that is queued gets a cost that is not greater; the others keep
\* theirs, and so does the expanded node.
LEMMA VisitedFacts ==
  ASSUME TypeOK, NEW e \in BagToSet(pq), Expand(e)
  PROVE  /\ visited' \in [Node -> 0..Inf]
         /\ e.node \notin Pushed(e)
         /\ \A v \in Pushed(e) :
              /\ v \in Node /\ <<e.node, v>> \in DOMAIN graph
              /\ graph[<<e.node, v>>] \in Nat
              /\ visited'[v] = e.cost + graph[<<e.node, v>>]
         /\ \A v \in Node : /\ visited[v] \in Nat /\ visited'[v] \in Nat
                            /\ visited'[v] =< visited[v]
                            /\ v \notin Pushed(e) => visited'[v] = visited[v]
         /\ \A v \in Node : <<e.node, v>> \in DOMAIN graph
                               => visited'[v] =< e.cost + graph[<<e.node, v>>]
<1>1. e.cost \in Nat /\ e.node \in Node /\ graph \in Graphs
  BY EntryFacts
<1>2. \A v \in Node : <<e.node, v>> \in DOMAIN graph =>
         graph[<<e.node, v>>] \in Nat /\ e.node # v
  BY <1>1, EdgeFacts
<1>3. visited \in [Node -> 0..Inf] /\ \A v \in Node : visited[v] \in Nat /\ visited[v] =< Inf
  BY InfAssumption DEF TypeOK
<1>4. visited' = [v \in Node |-> IF v \in Pushed(e) THEN e.cost + graph[<<e.node, v>>]
                                 ELSE visited[v]]
  BY DEF Expand
<1>5. \A v \in Pushed(e) :
         /\ v \in Node /\ <<e.node, v>> \in DOMAIN graph
         /\ e.cost + graph[<<e.node, v>>] =< visited[v]
         /\ e.cost + graph[<<e.node, v>>] \in 0..Inf
  BY <1>1, <1>2, <1>3, InfAssumption DEF Pushed
<1>6. \A v \in Node : <<e.node, v>> \in DOMAIN graph /\ v \notin Pushed(e)
                        => visited[v] =< e.cost + graph[<<e.node, v>>]
  BY <1>1, <1>2, <1>3 DEF Pushed
<1>7. visited' \in [Node -> 0..Inf]
  BY <1>3, <1>4, <1>5
<1>8. \A v \in Node : visited'[v] \in Nat
  BY <1>7, InfAssumption
<1>9. e.node \notin Pushed(e)
  BY <1>2, <1>5
<1>10. QED
  BY <1>1, <1>2, <1>3, <1>4, <1>5, <1>6, <1>7, <1>8, <1>9

LEMMA NewEntryFacts ==
  ASSUME TypeOK, NEW e \in BagToSet(pq), Expand(e), NEW x \in NewEntries(e)
  PROVE  /\ x \in Entry
         /\ x.node \in Pushed(e)
         /\ x.cost = e.cost + graph[<<e.node, x.node>>]
         /\ x.cost = visited'[x.node]
         /\ e.cost =< x.cost
         /\ x.next = Hop(e)
<1>1. PICK v \in Pushed(e) :
         x = [cost |-> e.cost + graph[<<e.node, v>>], node |-> v, next |-> Hop(e)]
  BY DEF NewEntries
<1>2. e.cost \in Nat /\ Hop(e) \in Node
  BY EntryFacts
<1>3. v \in Node /\ graph[<<e.node, v>>] \in Nat /\ visited'[v] = e.cost + graph[<<e.node, v>>]
  BY VisitedFacts
<1>4. QED
  BY <1>1, <1>2, <1>3 DEF Entry

LEMMA PushedEntry ==
  ASSUME NEW e, NEW v \in Pushed(e)
  PROVE  \E x \in NewEntries(e) : x.node = v
<1> DEFINE y == [cost |-> e.cost + graph[<<e.node, v>>], node |-> v, next |-> Hop(e)]
<1>1. y \in NewEntries(e)
  BY DEF NewEntries
<1>2. y.node = v
  OBVIOUS
<1>3. QED
  BY <1>1, <1>2, Zenon

\* Who is recorded, and how.
LEMMA RecordedFacts ==
  ASSUME TypeOK, NEW e \in BagToSet(pq), Expand(e)
  PROVE  /\ DOMAIN destMap' = DOMAIN destMap \union ({e.node} \ {Me})
         /\ \A v \in DOMAIN destMap' :
              \/ /\ v \in DOMAIN destMap /\ destMap'[v] = destMap[v]
              \/ /\ v \in DOMAIN destMap /\ v = e.node
                 /\ destMap[v].cost = e.cost
                 /\ destMap'[v] = [next |-> Hop(e), cost |-> e.cost]
              \/ /\ v = e.node /\ v # Me
                 /\ destMap'[v] = [next |-> Hop(e), cost |-> e.cost]
<1>1. destMap' = Recorded(e)
  BY DEF Expand
<1>2. \A v \in DOMAIN destMap : destMap[v] \in Route
  BY DEF TypeOK
<1>3. Me \notin DOMAIN destMap
  BY DEF TypeOK
<1>4. CASE e.node = Me
  BY <1>1, <1>3, <1>4 DEF Recorded
<1>5. CASE e.node # Me /\ e.node \notin DOMAIN destMap
  BY <1>1, <1>5 DEF Recorded
<1>6. CASE e.node \in DOMAIN destMap /\ destMap[e.node].cost = e.cost /\ Hop(e) < destMap[e.node].next
  <2>1. destMap' = [destMap EXCEPT ![e.node].next = Hop(e)]
    BY <1>1, <1>3, <1>6 DEF Recorded
  <2>2. DOMAIN destMap' = DOMAIN destMap /\ \A v \in DOMAIN destMap \ {e.node} : destMap'[v] = destMap[v]
    BY <2>1
  <2>3. destMap'[e.node] = [next |-> Hop(e), cost |-> e.cost]
    BY <1>2, <1>6, <2>1 DEF Route
  <2>4. QED
    BY <1>3, <1>6, <2>2, <2>3
<1>7. CASE e.node \in DOMAIN destMap /\ ~(destMap[e.node].cost = e.cost /\ Hop(e) < destMap[e.node].next)
  BY <1>1, <1>3, <1>7 DEF Recorded
<1>8. QED
  BY <1>4, <1>5, <1>6, <1>7

-----------------------------------------------------------------------------
(***************************************************************************)
(* The parts of the invariant, each through one turn of the loop.          *)
(***************************************************************************)
LEMMA InitLoop == Init => LoopInv
<1> SUFFICES ASSUME Init PROVE LoopInv
  OBVIOUS
<1>1. Me \in Node /\ NoHop \notin Node /\ Inf \in Nat
  BY NoHopIsNoNode, InfAssumption
<1>2. IsABag(pq) /\ BagToSet(pq) = {Start}
  BY DEF Init, IsABag, BagToSet, SetToBag
<1>3. Start \in Entry /\ Start.node = Me /\ Start.cost = 0
  BY <1>1 DEF Start, Entry
<1>4. visited = [v \in Node |-> Inf] /\ DOMAIN destMap = {} /\ graph \in Graphs
  BY DEF Init
<1>5. TypeOK
  BY <1>1, <1>2, <1>3, <1>4 DEF TypeOK
<1>6. Settled
  BY <1>4 DEF Settled
<1>7. Pending
  <2> SUFFICES ASSUME NEW u \in Node
               PROVE  \/ \A v \in Node : <<u, v>> \in DOMAIN graph =>
                                visited[v] =< Reach(u) + graph[<<u, v>>]
                      \/ \E e \in BagToSet(pq) : e.node = u /\ e.cost = Reach(u)
    BY DEF Pending
  <2>1. CASE u = Me
    BY <1>2, <1>3, <2>1 DEF Reach
  <2>2. CASE u # Me
    <3>1. Reach(u) = Inf
      BY <1>4, <2>2 DEF Reach
    <3>2. \A v \in Node : <<u, v>> \in DOMAIN graph => graph[<<u, v>>] \in Nat
      BY <1>4, EdgeFacts
    <3>3. QED
      BY <1>1, <1>4, <3>1, <3>2
  <2>3. QED
    BY <2>1, <2>2
<1>8. NeverTooCheap
  <2>1. \A f \in Potentials(Node, graph, Me, Inf + 1) : f[Me] = 0
    BY <1>1, PotentialFacts
  <2>2. QED
    BY <1>2, <1>3, <1>4, <2>1 DEF NeverTooCheap
<1>9. HopsOnTheWay
  BY <1>2, <1>4 DEF HopsOnTheWay
<1>10. Reached
  BY <1>2, <1>3, <1>4, <1>1 DEF Reached
<1>11. EachHopFollowed
  BY <1>2, <1>4 DEF EachHopFollowed
<1>12. QED
  BY <1>5, <1>6, <1>7, <1>8, <1>9, <1>10, <1>11 DEF LoopInv

LEMMA SkipType == ASSUME LoopInv, NEW e \in BagToSet(pq), Skip(e) PROVE TypeOK'
<1>1. TypeOK
  BY DEF LoopInv
<1>2. UNCHANGED <<graph, visited, destMap>>
  BY DEF Skip
<1>3. QED
  BY <1>1, <1>2, SkipQueue DEF TypeOK

LEMMA ExpandType == ASSUME LoopInv, NEW e \in BagToSet(pq), Expand(e) PROVE TypeOK'
<1>1. TypeOK
  BY DEF LoopInv
<1>2. graph' = graph
  BY DEF Expand
<1>3. visited' \in [Node -> 0..Inf]
  BY <1>1, VisitedFacts
<1>4. IsABag(pq') /\ BagToSet(pq') \subseteq Entry
  BY <1>1, ExpandQueue, NewEntryFacts DEF TypeOK
<1>5. e.node \in Node /\ e.cost \in Nat /\ Hop(e) \in Node
  BY <1>1, EntryFacts
<1>6. DOMAIN destMap' \subseteq Node \ {Me}
  <2>1. DOMAIN destMap' = DOMAIN destMap \union ({e.node} \ {Me})
    BY <1>1, RecordedFacts
  <2>2. QED
    BY <1>1, <1>5, <2>1 DEF TypeOK
<1>7. destMap' \in [DOMAIN destMap' -> Route]
  <2>1. [next |-> Hop(e), cost |-> e.cost] \in Route
    BY <1>5 DEF Route
  <2>2. \A v \in DOMAIN destMap' : \/ v \in DOMAIN destMap /\ destMap'[v] = destMap[v]
                                   \/ destMap'[v] = [next |-> Hop(e), cost |-> e.cost]
    BY <1>1, RecordedFacts
  <2>3. \A v \in DOMAIN destMap' : destMap'[v] \in Route
    BY <1>1, <2>1, <2>2 DEF TypeOK
  <2>4. destMap' = [v \in DOMAIN destMap' |-> destMap'[v]]
    <3>1. destMap' = Recorded(e)
      BY DEF Expand
    <3>2. destMap = [v \in DOMAIN destMap |-> destMap[v]]
      BY <1>1 DEF TypeOK
    <3>3. QED
      BY <3>1, <3>2 DEF Recorded
  <2>5. QED
    BY <2>3, <2>4
<1>8. QED
  BY <1>1, <1>2, <1>3, <1>4, <1>6, <1>7 DEF TypeOK

\* What a turn that is not skipped knows of its entry: its cost is the cost of
\* its node.
LEMMA FreshCost ==
  ASSUME LoopInv, NEW e \in BagToSet(pq), ~Stale(e), e.node # Me
  PROVE  e.cost = visited[e.node]
<1>1. e.cost \in Nat /\ e.node \in Node /\ visited[e.node] \in Nat
  BY EntryFacts DEF LoopInv
<1>2. visited[e.node] =< e.cost
  BY <1>1 DEF LoopInv, Reached
<1>3. e.cost =< visited[e.node]
  BY <1>1 DEF Stale
<1>4. QED
  BY <1>1, <1>2, <1>3

LEMMA SettledKept ==
  ASSUME LoopInv, NEW e \in BagToSet(pq), Skip(e) \/ Expand(e)
  PROVE  Settled'
<1>1. TypeOK /\ Settled
  BY DEF LoopInv
<1>2. CASE Skip(e)
  BY <1>1, <1>2, SkipQueue DEF Skip, Settled
<1>3. CASE Expand(e)
  <2>1. e.cost \in Nat /\ e.node \in Node /\ Top(e) /\ ~Stale(e)
    BY <1>1, <1>3, EntryFacts DEF Expand
  <2>2. \A x \in BagToSet(pq') : x.cost \in Nat /\ e.cost =< x.cost
    BY <1>1, <1>3, <2>1, ExpandQueue, NewEntryFacts, EntryFacts DEF Top, Entry
  <2>3. \A v \in DOMAIN destMap :
           /\ v \in Node /\ visited[v] \in Nat
           /\ destMap[v].cost = visited[v] /\ destMap[v].cost =< e.cost
    BY <1>1, InfAssumption DEF Settled, TypeOK
  <2>4. \A v \in DOMAIN destMap : visited'[v] = visited[v]
    <3> SUFFICES ASSUME NEW v \in DOMAIN destMap, v \in Pushed(e)
                 PROVE  visited'[v] = visited[v]
      BY <1>1, <1>3, <2>3, VisitedFacts
    <3>1. /\ visited'[v] = e.cost + graph[<<e.node, v>>] /\ graph[<<e.node, v>>] \in Nat
          /\ visited'[v] \in Nat /\ visited'[v] =< visited[v]
      BY <1>1, <1>3, VisitedFacts
    <3>2. QED
      BY <2>1, <2>3, <3>1
  <2>5. \A v \in DOMAIN destMap' : destMap'[v].cost = visited'[v] /\ destMap'[v].cost =< e.cost
    <3> SUFFICES ASSUME NEW v \in DOMAIN destMap'
                 PROVE  destMap'[v].cost = visited'[v] /\ destMap'[v].cost =< e.cost
      OBVIOUS
    <3>1. CASE v \in DOMAIN destMap /\ destMap'[v].cost = destMap[v].cost
      BY <2>3, <2>4, <3>1
    <3>2. CASE v = e.node /\ v # Me /\ destMap'[v] = [next |-> Hop(e), cost |-> e.cost]
      <4>1. visited'[v] = visited[v]
        BY <1>1, <1>3, <2>1, <3>2, VisitedFacts
      <4>2. visited[v] = e.cost
        BY <2>1, <3>2, FreshCost
      <4>3. QED
        BY <2>1, <3>2, <4>1, <4>2
    <3>3. \/ v \in DOMAIN destMap /\ destMap'[v] = destMap[v]
          \/ /\ v \in DOMAIN destMap /\ destMap[v].cost = e.cost
             /\ destMap'[v] = [next |-> Hop(e), cost |-> e.cost]
          \/ /\ v = e.node /\ v # Me
             /\ destMap'[v] = [next |-> Hop(e), cost |-> e.cost]
      BY <1>1, <1>3, RecordedFacts
    <3>4. QED
      BY <3>1, <3>2, <3>3
  <2>6. \A v \in DOMAIN destMap' : destMap'[v].cost \in Nat
    BY <1>3, ExpandType DEF TypeOK, Route
  <2>7. QED
    BY <2>1, <2>2, <2>5, <2>6 DEF Settled
<1>4. QED
  BY <1>2, <1>3

LEMMA PendingKept ==
  ASSUME LoopInv, NEW e \in BagToSet(pq), Skip(e) \/ Expand(e)
  PROVE  Pending'
<1> DEFINE Relaxed(u) == \A v \in Node : <<u, v>> \in DOMAIN graph =>
                            visited[v] =< Reach(u) + graph[<<u, v>>]
           Queued(u) == \E x \in BagToSet(pq) : x.node = u /\ x.cost = Reach(u)
<1>1. TypeOK /\ \A u \in Node : Relaxed(u) \/ Queued(u)
  BY DEF LoopInv, Pending
<1>2. e.cost \in Nat /\ e.node \in Node /\ visited[e.node] \in Nat
  BY <1>1, EntryFacts
<1>3. \A u \in Node : Reach(u) \in Nat
  BY <1>1, InfAssumption DEF Reach, TypeOK
<1> SUFFICES ASSUME NEW u \in Node
             PROVE  Relaxed(u)' \/ Queued(u)'
  BY DEF Pending
<1>4. CASE Skip(e)
  <2>1. UNCHANGED <<graph, visited>> /\ visited[e.node] < e.cost
    BY <1>4 DEF Skip, Stale
  <2>2. Reach(u)' = Reach(u)
    BY <2>1 DEF Reach
  <2>3. Relaxed(u) => Relaxed(u)'
    BY <2>1, <2>2
  <2>4. e.node = u => e.cost # Reach(u)
    BY <1>2, <2>1 DEF Reach
  <2>5. Queued(u) => Queued(u)'
    BY <1>1, <1>4, <2>2, <2>4, SkipQueue
  <2>6. QED
    BY <1>1, <2>3, <2>5
<1>5. CASE Expand(e)
  <2>1. graph' = graph
    BY <1>5 DEF Expand
  <2>2. \A v \in Node : visited[v] \in Nat /\ visited'[v] \in Nat /\ visited'[v] =< visited[v]
    BY <1>1, <1>5, VisitedFacts
  <2>3. \A v \in Node : <<u, v>> \in DOMAIN graph => graph[<<u, v>>] \in Nat
    BY <1>1, EdgeFacts DEF TypeOK
  <2>4. CASE Reach(u)' # Reach(u)
    <3>1. u \in Pushed(e) /\ u # Me
      BY <1>1, <1>5, <2>4, VisitedFacts DEF Reach
    <3>2. PICK x \in NewEntries(e) : x.node = u
      BY <3>1, PushedEntry
    <3>3. x.cost = visited'[u] /\ x \in BagToSet(pq')
      BY <1>1, <1>5, <3>2, NewEntryFacts, ExpandQueue
    <3>4. QED
      BY <3>1, <3>2, <3>3 DEF Reach
  <2>5. CASE Reach(u)' = Reach(u)
    <3>1. Relaxed(u) => Relaxed(u)'
      <4> SUFFICES ASSUME Relaxed(u), NEW v \in Node, <<u, v>> \in DOMAIN graph
                   PROVE  visited'[v] =< Reach(u) + graph[<<u, v>>]
        BY <2>1, <2>5
      <4>1. visited[v] =< Reach(u) + graph[<<u, v>>]
        OBVIOUS
      <4>2. QED
        BY <1>3, <2>2, <2>3, <4>1
    <3>2. CASE e.node = u /\ e.cost = Reach(u)
      <4>1. \A v \in Node : <<u, v>> \in DOMAIN graph => visited'[v] =< e.cost + graph[<<u, v>>]
        BY <1>1, <1>5, <3>2, VisitedFacts
      <4>2. QED
        BY <2>1, <2>5, <3>2, <4>1
    <3>3. CASE ~(e.node = u /\ e.cost = Reach(u))
      <4>1. Queued(u) => Queued(u)'
        BY <1>1, <1>5, <2>5, <3>3, ExpandQueue
      <4>2. QED
        BY <1>1, <3>1, <4>1
    <3>4. QED
      BY <3>2, <3>3
  <2>6. QED
    BY <2>4, <2>5
<1>6. QED
  BY <1>4, <1>5

LEMMA NeverTooCheapKept ==
  ASSUME LoopInv, NEW e \in BagToSet(pq), Skip(e) \/ Expand(e)
  PROVE  NeverTooCheap'
<1>1. TypeOK /\ NeverTooCheap /\ graph' = graph
  BY DEF LoopInv, Skip, Expand
<1> SUFFICES ASSUME NEW f \in Potentials(Node, graph, Me, Inf + 1)
             PROVE  /\ \A x \in BagToSet(pq') : f[x.node] =< x.cost
                    /\ \A v \in Node : \/ f[v] =< visited'[v]
                                       \/ visited'[v] = Inf /\ v \notin DOMAIN destMap'
  BY <1>1 DEF NeverTooCheap
<1>2. /\ \A x \in BagToSet(pq) : f[x.node] =< x.cost
      /\ \A v \in Node : f[v] =< visited[v] \/ (visited[v] = Inf /\ v \notin DOMAIN destMap)
  BY <1>1 DEF NeverTooCheap
<1>3. CASE Skip(e)
  BY <1>1, <1>2, <1>3, SkipQueue DEF Skip
<1>4. CASE Expand(e)
  <2>1. e.cost \in Nat /\ e.node \in Node /\ f[e.node] =< e.cost /\ Me \in Node
    BY <1>1, <1>2, EntryFacts, NodeAssumption
  <2>2. ASSUME NEW v \in Pushed(e)
        PROVE  f[v] =< e.cost + graph[<<e.node, v>>]
    <3>1. v \in Node /\ <<e.node, v>> \in DOMAIN graph /\ graph[<<e.node, v>>] \in Nat
      BY <1>1, <1>4, VisitedFacts
    <3>2. f \in [Node -> 0..(Inf + 1)] /\ f[v] =< f[e.node] + graph[<<e.node, v>>]
      BY <2>1, <3>1, PotentialFacts
    <3>3. QED
      BY <2>1, <3>1, <3>2, InfAssumption
  <2>3. \A x \in BagToSet(pq') : f[x.node] =< x.cost
    <3>1. \A x \in NewEntries(e) : x.node \in Pushed(e) /\ x.cost = e.cost + graph[<<e.node, x.node>>]
      BY <1>1, <1>4, NewEntryFacts
    <3>2. \A x \in NewEntries(e) : f[x.node] =< x.cost
      BY <2>2, <3>1
    <3>3. \A x \in BagToSet(pq') : x \in BagToSet(pq) \/ x \in NewEntries(e)
      BY <1>1, <1>4, ExpandQueue
    <3>4. QED
      BY <1>2, <3>2, <3>3
  <2>4. ASSUME NEW v \in Node
        PROVE  f[v] =< visited'[v] \/ (visited'[v] = Inf /\ v \notin DOMAIN destMap')
    <3>1. CASE v \in Pushed(e)
      BY <1>1, <1>4, <2>2, <3>1, VisitedFacts
    <3>2. CASE v \notin Pushed(e) /\ v = e.node /\ v # Me
      <4>1. visited'[v] = visited[v]
        BY <1>1, <1>4, <3>2, VisitedFacts
      <4>2. visited[v] = e.cost
        BY <1>4, <3>2, FreshCost DEF Expand
      <4>3. QED
        BY <2>1, <3>2, <4>1, <4>2
    <3>3. CASE v \notin Pushed(e) /\ ~(v = e.node /\ v # Me)
      <4>1. visited'[v] = visited[v]
        BY <1>1, <1>4, <3>3, VisitedFacts
      <4>2. v \in DOMAIN destMap' => v \in DOMAIN destMap
        BY <1>1, <1>4, <3>3, RecordedFacts
      <4>3. QED
        BY <1>2, <4>1, <4>2
    <3>4. QED
      BY <3>1, <3>2, <3>3
  <2>5. QED
    BY <2>3, <2>4
<1>5. QED
  BY <1>3, <1>4

\* A way goes on over the expanded node's link to one of its neighbours.
LEMMA WayGoesOn ==
  ASSUME TypeOK, NEW h, NEW u \in Node, NEW v \in Node, NEW c \in Nat,
         OnTheWay(h, u, c), <<u, v>> \in DOMAIN graph
  PROVE  OnTheWay(h, v, c + graph[<<u, v>>])
<1>1. graph \in Graphs
  BY DEF TypeOK
<1>2. /\ <<Me, h>> \in DOMAIN graph
      /\ \A f \in Potentials(Node, graph, h, Inf + 1) : graph[<<Me, h>>] + f[u] =< c
  BY DEF OnTheWay, BeginsWith
<1>3. h \in Node /\ graph[<<Me, h>>] \in Nat /\ graph[<<u, v>>] \in Nat
  BY <1>1, <1>2, EdgeFacts
<1>4. ASSUME NEW f \in Potentials(Node, graph, h, Inf + 1)
      PROVE  graph[<<Me, h>>] + f[v] =< c + graph[<<u, v>>]
  <2>1. f \in [Node -> 0..(Inf + 1)] /\ f[v] =< f[u] + graph[<<u, v>>]
    BY <1>1, <1>3, PotentialFacts
  <2>2. graph[<<Me, h>>] + f[u] =< c
    BY <1>2
  <2>3. QED
    BY <1>3, <2>1, <2>2, InfAssumption
<1>5. QED
  BY <1>2, <1>4 DEF OnTheWay, BeginsWith

\* The first link of a way.
LEMMA WayBegins ==
  ASSUME TypeOK, NEW v, <<Me, v>> \in DOMAIN graph
  PROVE  OnTheWay(v, v, 0 + graph[<<Me, v>>])
<1>1. graph \in Graphs /\ v \in Node /\ graph[<<Me, v>>] \in Nat
  BY EdgeFacts DEF TypeOK
<1>2. \A f \in Potentials(Node, graph, v, Inf + 1) : f[v] = 0
  BY <1>1, PotentialFacts
<1>3. QED
  BY <1>1, <1>2 DEF OnTheWay, BeginsWith

LEMMA HopsKept ==
  ASSUME LoopInv, NEW e \in BagToSet(pq), Skip(e) \/ Expand(e)
  PROVE  HopsOnTheWay'
<1>1. TypeOK /\ HopsOnTheWay /\ graph' = graph
  BY DEF LoopInv, Skip, Expand
<1>2. \A h, v, c : OnTheWay(h, v, c)' <=> OnTheWay(h, v, c)
  BY <1>1 DEF OnTheWay
<1>3. CASE Skip(e)
  BY <1>1, <1>2, <1>3, SkipQueue DEF Skip, HopsOnTheWay, Hop
<1>4. CASE Expand(e)
  <2>1. e.cost \in Nat /\ e.node \in Node /\ Hop(e) \in Node /\ NoHop \notin Node
    BY <1>1, EntryFacts, NoHopIsNoNode
  <2>2. e = Start \/ (e.next # NoHop /\ OnTheWay(Hop(e), e.node, e.cost))
    BY <1>1 DEF HopsOnTheWay
  <2>3. e = Start => e.node = Me /\ e.cost = 0 /\ Hop(e) = Me
    BY DEF Start, Hop
  <2>4. e # Start => Hop(e) # Me
    <3> SUFFICES ASSUME e # Start PROVE Hop(e) # Me
      OBVIOUS
    <3>1. <<Me, Hop(e)>> \in DOMAIN graph
      BY <2>2 DEF OnTheWay, BeginsWith
    <3>2. QED
      BY <1>1, <3>1, EdgeFacts DEF TypeOK
  <2>5. ASSUME NEW x \in NewEntries(e)
        PROVE  x.next # NoHop /\ OnTheWay(Hop(x), x.node, x.cost)
    <3>1. /\ x.next = Hop(e) /\ x.cost = e.cost + graph[<<e.node, x.node>>]
          /\ x.node \in Node /\ <<e.node, x.node>> \in DOMAIN graph
      BY <1>1, <1>4, NewEntryFacts, VisitedFacts
    <3>2. CASE e = Start
      <4>1. Hop(x) = x.node
        BY <2>3, <3>1, <3>2 DEF Hop
      <4>2. QED
        BY <1>1, <2>1, <2>3, <3>1, <3>2, <4>1, WayBegins
    <3>3. CASE e # Start
      <4>1. Hop(x) = Hop(e)
        BY <2>1, <2>4, <3>1, <3>3 DEF Hop
      <4>2. OnTheWay(Hop(e), x.node, e.cost + graph[<<e.node, x.node>>])
        BY <1>1, <2>1, <2>2, <3>1, <3>3, WayGoesOn
      <4>3. QED
        BY <2>1, <3>1, <4>1, <4>2
    <3>4. QED
      BY <3>2, <3>3
  <2>6. \A x \in BagToSet(pq') : x = Start \/ (x.next # NoHop /\ OnTheWay(Hop(x), x.node, x.cost))
    BY <1>1, <1>4, <2>5, ExpandQueue DEF HopsOnTheWay
  <2>7. ASSUME NEW v \in DOMAIN destMap'
        PROVE  OnTheWay(destMap'[v].next, v, destMap'[v].cost)
    <3>1. CASE v \in DOMAIN destMap /\ destMap'[v] = destMap[v]
      BY <1>1, <3>1 DEF HopsOnTheWay
    <3>2. CASE v = e.node /\ v # Me /\ destMap'[v] = [next |-> Hop(e), cost |-> e.cost]
      BY <2>2, <2>3, <3>2
    <3>3. Me \notin DOMAIN destMap
      BY <1>1 DEF TypeOK
    <3>4. \/ v \in DOMAIN destMap /\ destMap'[v] = destMap[v]
          \/ /\ v \in DOMAIN destMap /\ v = e.node
             /\ destMap'[v] = [next |-> Hop(e), cost |-> e.cost]
          \/ /\ v = e.node /\ v # Me
             /\ destMap'[v] = [next |-> Hop(e), cost |-> e.cost]
      BY <1>1, <1>4, RecordedFacts
    <3>5. QED
      BY <3>1, <3>2, <3>3, <3>4
  <2>8. QED
    BY <1>2, <2>6, <2>7 DEF HopsOnTheWay, Hop
<1>5. QED
  BY <1>3, <1>4

LEMMA ReachedKept ==
  ASSUME LoopInv, NEW e \in BagToSet(pq), Skip(e) \/ Expand(e)
  PROVE  Reached'
<1>1. TypeOK /\ Reached
  BY DEF LoopInv
<1>2. e.cost \in Nat /\ e.node \in Node /\ visited[e.node] \in Nat
  BY <1>1, EntryFacts
<1> SUFFICES ASSUME NEW v \in Node \ {Me}
             PROVE  /\ \A x \in BagToSet(pq') : x.node = v => visited'[v] =< x.cost
                    /\ visited'[v] < Inf =>
                         \/ v \in DOMAIN destMap'
                         \/ \E x \in BagToSet(pq') : x.node = v /\ x.cost = visited'[v]
  BY DEF Reached
<1>3. /\ \A x \in BagToSet(pq) : x.node = v => visited[v] =< x.cost
      /\ visited[v] < Inf => \/ v \in DOMAIN destMap
                             \/ \E x \in BagToSet(pq) : x.node = v /\ x.cost = visited[v]
  BY <1>1 DEF Reached
<1>4. CASE Skip(e)
  <2>1. UNCHANGED <<visited, destMap>> /\ visited[e.node] < e.cost
    BY <1>4 DEF Skip, Stale
  <2>2. e.node = v => e.cost # visited[v]
    BY <1>2, <2>1
  <2>3. QED
    BY <1>1, <1>3, <1>4, <2>1, <2>2, SkipQueue
<1>5. CASE Expand(e)
  <2>1. visited[v] \in Nat /\ visited'[v] \in Nat /\ visited'[v] =< visited[v]
    BY <1>1, <1>5, VisitedFacts
  <2>2. ASSUME NEW x \in BagToSet(pq'), x.node = v
        PROVE  visited'[v] =< x.cost
    <3>1. CASE x \in BagToSet(pq)
      <4>1. x.cost \in Nat /\ visited[v] =< x.cost
        BY <1>1, <1>3, <2>2, <3>1, EntryFacts
      <4>2. QED
        BY <2>1, <4>1
    <3>2. CASE x \in NewEntries(e)
      <4>1. x.cost = visited'[x.node]
        BY <1>1, <1>5, <3>2, NewEntryFacts
      <4>2. QED
        BY <2>1, <2>2, <4>1
    <3>3. QED
      BY <1>1, <1>5, <3>1, <3>2, ExpandQueue
  <2>3. CASE v \in Pushed(e)
    <3>1. PICK x \in NewEntries(e) : x.node = v
      BY <2>3, PushedEntry
    <3>2. x.cost = visited'[v] /\ x \in BagToSet(pq')
      BY <1>1, <1>5, <3>1, NewEntryFacts, ExpandQueue
    <3>3. QED
      BY <2>2, <3>1, <3>2
  <2>4. CASE v \notin Pushed(e)
    <3>1. visited'[v] = visited[v]
      BY <1>1, <1>5, <2>4, VisitedFacts
    <3>2. DOMAIN destMap' = DOMAIN destMap \union ({e.node} \ {Me})
      BY <1>1, <1>5, RecordedFacts
    <3>3. \A x \in BagToSet(pq) : x = e \/ x \in BagToSet(pq')
      BY <1>1, <1>5, ExpandQueue
    <3>4. QED
      BY <1>3, <2>2, <3>1, <3>2, <3>3
  <2>5. QED
    BY <2>3, <2>4
<1>6. QED
  BY <1>4, <1>5

-----------------------------------------------------------------------------
(***************************************************************************)
(* The ways over one neighbour through one turn of the loop.               *)
(***************************************************************************)
\* A cost that is recorded is final.
LEMMA CostsFinal ==
  ASSUME LoopInv, NEW e \in BagToSet(pq), Skip(e) \/ Expand(e),
         NEW u \in {Me} \union DOMAIN destMap
  PROVE  Reach(u)' = Reach(u)
<1>1. TypeOK /\ Settled /\ Settled'
  BY SettledKept DEF LoopInv
<1>2. CASE u = Me
  BY <1>2 DEF Reach
<1>3. CASE u \in DOMAIN destMap /\ u # Me
  <2>1. CASE Skip(e)
    BY <1>3, <2>1 DEF Skip, Reach
  <2>2. CASE Expand(e)
    <3>1. u \in DOMAIN destMap'
      BY <1>1, <1>3, <2>2, RecordedFacts
    <3>2. destMap[u].cost = visited[u] /\ destMap'[u].cost = visited'[u]
      BY <1>1, <1>3, <3>1 DEF Settled
    <3>3. u = e.node => e.cost = visited[u]
      BY <1>3, <2>2, FreshCost DEF Expand
    <3>4. destMap'[u].cost = destMap[u].cost
      <4>1. CASE destMap'[u] = destMap[u]
        BY <4>1
      <4>2. CASE u = e.node /\ destMap'[u] = [next |-> Hop(e), cost |-> e.cost]
        BY <3>2, <3>3, <4>2
      <4>3. QED
        BY <1>1, <2>2, <3>1, <4>1, <4>2, RecordedFacts
    <3>5. QED
      BY <1>3, <3>2, <3>4 DEF Reach
  <2>3. QED
    BY <2>1, <2>2
<1>4. QED
  BY <1>2, <1>3

\* Reached costs never rise.
LEMMA ReachFalls ==
  ASSUME LoopInv, NEW e \in BagToSet(pq), Skip(e) \/ Expand(e), NEW v \in Node
  PROVE  Reach(v) \in Nat /\ Reach(v)' \in Nat /\ Reach(v)' =< Reach(v)
<1>1. TypeOK /\ TypeOK'
  BY SkipType, ExpandType DEF LoopInv
<1>2. visited[v] \in Nat /\ visited'[v] \in Nat
  BY <1>1, InfAssumption DEF TypeOK
<1>3. visited'[v] =< visited[v]
  BY <1>1, <1>2, VisitedFacts DEF Skip
<1>4. QED
  BY <1>2, <1>3 DEF Reach

\* Next hops never rise, and that of the expanded node is not above the entry's.
LEMMA NextFalls ==
  ASSUME LoopInv, NEW e \in BagToSet(pq), Expand(e)
  PROVE  /\ \A v \in DOMAIN destMap : /\ v \in DOMAIN destMap'
                                      /\ destMap[v].next \in Int /\ destMap'[v].next \in Int
                                      /\ destMap'[v].next =< destMap[v].next
         /\ e.node # Me => /\ e.node \in DOMAIN destMap'
                           /\ destMap'[e.node].next =< Hop(e)
         /\ \A v \in DOMAIN destMap' :
              \/ v \in DOMAIN destMap /\ destMap'[v].next = destMap[v].next
              \/ v = e.node /\ v # Me /\ destMap'[v].next = Hop(e)
<1>1. TypeOK /\ Settled /\ Node \subseteq Nat
  BY NodeAssumption DEF LoopInv
<1>2. Hop(e) \in Node /\ e.node \in Node
  BY <1>1, EntryFacts
<1>3. destMap' = Recorded(e)
  BY DEF Expand
<1>4. Me \notin DOMAIN destMap /\ \A v \in DOMAIN destMap : destMap[v] \in Route
  BY <1>1 DEF TypeOK
<1>4a. Hop(e) \in Int /\ \A v \in DOMAIN destMap : destMap[v].next \in Int
  <2>1. \A v \in DOMAIN destMap : destMap[v].next \in Node
    BY <1>4 DEF Route
  <2>2. \A n \in Node : n \in Int
    BY <1>1
  <2>3. QED
    BY <1>2, <2>1, <2>2
<1>5. CASE e.node = Me
  BY <1>3, <1>4a, <1>5 DEF Recorded
<1>6. CASE e.node # Me /\ e.node \notin DOMAIN destMap
  <2>1. /\ DOMAIN destMap' = DOMAIN destMap \union {e.node}
        /\ destMap'[e.node].next = Hop(e)
        /\ \A v \in DOMAIN destMap : destMap'[v] = destMap[v]
    BY <1>3, <1>6 DEF Recorded
  <2>2. QED
    BY <1>4a, <1>6, <2>1
<1>7. CASE e.node # Me /\ e.node \in DOMAIN destMap
  <2>1. destMap[e.node].cost = e.cost
    BY <1>1, <1>7, FreshCost DEF Expand, Settled
  <2>2. destMap' = IF Hop(e) < destMap[e.node].next
                   THEN [destMap EXCEPT ![e.node].next = Hop(e)] ELSE destMap
    BY <1>3, <1>7, <2>1 DEF Recorded
  <2>3. destMap[e.node].next \in Int /\ Hop(e) \in Int
    BY <1>4a, <1>7
  <2>4. CASE Hop(e) < destMap[e.node].next
    <3>1. /\ DOMAIN destMap' = DOMAIN destMap
          /\ \A v \in DOMAIN destMap : v # e.node => destMap'[v] = destMap[v]
      BY <2>2, <2>4
    <3>2. destMap'[e.node].next = Hop(e)
      BY <1>4, <1>7, <2>2, <2>4 DEF Route
    <3>3. QED
      BY <1>4a, <1>7, <2>3, <2>4, <3>1, <3>2
  <2>5. CASE ~(Hop(e) < destMap[e.node].next)
    BY <1>4a, <1>7, <2>2, <2>3, <2>5
  <2>6. QED
    BY <2>4, <2>5
<1>8. QED
  BY <1>5, <1>6, <1>7

\* e has its turn as the entry of its node over the neighbour h.
Turn(e, h) == Expand(e) /\ Hop(e) = h /\ e.cost = Reach(e.node)

\* What is queued stays so until its turn comes, unless a cheaper way is found.
LEMMA DueKept ==
  ASSUME LoopInv, NEW e \in BagToSet(pq), Skip(e) \/ Expand(e),
         NEW v \in Node, NEW c \in Nat, NEW h, Due(v, c, h), c =< Reach(v)
  PROVE  Due(v, c, h)' \/ (Turn(e, h) /\ e.node = v)
<1>1. TypeOK
  BY DEF LoopInv
<1>2. PICK x \in BagToSet(pq) : x.node = v /\ x.cost = c /\ Hop(x) = h
  BY DEF Due
<1>3. x \in BagToSet(pq') => Due(v, c, h)'
  BY <1>2 DEF Due, Hop
<1>4. x = e \/ x \in BagToSet(pq')
  BY <1>1, SkipQueue, ExpandQueue
<1>5. CASE x = e
  <2>1. visited[v] \in Nat
    BY <1>1, InfAssumption DEF TypeOK
  <2>2. ~Stale(e)
    BY <1>2, <1>5, <2>1 DEF Reach, Stale
  <2>3. Expand(e)
    BY <2>2 DEF Skip
  <2>4. e.cost = Reach(v)
    <3>1. CASE v = Me
      BY <1>2, <1>5, <3>1 DEF Reach
    <3>2. CASE v # Me
      BY <1>2, <1>5, <2>2, <3>2, FreshCost DEF Reach
    <3>3. QED
      BY <3>1, <3>2
  <2>5. QED
    BY <1>2, <1>5, <2>3, <2>4 DEF Turn
<1>6. QED
  BY <1>3, <1>4, <1>5

\* When e has its turn, its neighbours that it is on a cheapest way to are queued
\* over the same h.
LEMMA DueNext ==
  ASSUME LoopInv, NEW e \in BagToSet(pq), NEW h \in Node \ {Me}, Turn(e, h),
         NEW v \in Node, <<e.node, v>> \in DOMAIN graph,
         NEW c, c = e.cost + graph[<<e.node, v>>], c =< Reach(v)'
  PROVE  Due(v, c, h)'
<1> DEFINE y == [cost |-> c, node |-> v, next |-> Hop(e)]
<1>1. TypeOK /\ Expand(e) /\ Hop(e) = h
  BY DEF LoopInv, Turn
<1>2. /\ e.cost \in Nat /\ graph[<<e.node, v>>] \in Nat
      /\ visited[v] \in Nat /\ visited'[v] \in Nat /\ visited'[v] =< visited[v]
  <2>1. e.cost \in Nat /\ graph \in Graphs
    BY <1>1, EntryFacts
  <2>2. QED
    BY <1>1, <2>1, EdgeFacts, VisitedFacts
<1>3. c =< visited[v]
  BY <1>2 DEF Reach
<1>4. y \in NewEntries(e)
  BY <1>3 DEF NewEntries, Pushed
<1>5. y \in BagToSet(pq')
  BY <1>1, <1>4, ExpandQueue
<1>6. y.node = v /\ y.cost = c /\ Hop(y) = h
  BY <1>1, NoHopIsNoNode DEF Hop
<1> HIDE DEF y
<1>7. QED
  BY <1>5, <1>6 DEF Due, Hop

LEMMA FollowedKept ==
  ASSUME LoopInv, NEW e \in BagToSet(pq), Skip(e) \/ Expand(e),
         NEW h \in Node, <<Me, h>> \in DOMAIN graph,
         NEW W \in SUBSET ({Me} \union DOMAIN destMap), Followed(h, W)
  PROVE  \E X \in SUBSET ({Me} \union DOMAIN destMap') : Followed(h, X)'
<1> DEFINE g(u, v) == graph[<<u, v>>]
<1>a. PICK X : X = W \union {u \in {e.node} : Turn(e, h)}
  OBVIOUS
<1>1. TypeOK /\ graph' = graph /\ graph \in Graphs
  BY DEF LoopInv, TypeOK, Skip, Expand
<1>2. Me \in Node /\ h # Me /\ g(Me, h) \in Nat /\ e.node \in Node /\ e.cost \in Nat
  BY <1>1, EdgeFacts, EntryFacts
<1>3. DOMAIN destMap \subseteq Node \ {Me} /\ DOMAIN destMap' \subseteq Node \ {Me}
  BY <1>1, SkipType, ExpandType DEF TypeOK
<1>4. X \in SUBSET ({Me} \union DOMAIN destMap')
  <2>1. CASE Skip(e)
    BY <1>a, <2>1 DEF Turn, Skip, Expand
  <2>2. CASE Expand(e)
    <3>1. DOMAIN destMap' = DOMAIN destMap \union ({e.node} \ {Me})
      BY <1>1, <2>2, RecordedFacts
    <3>2. QED
      BY <1>a, <3>1
  <2>3. QED
    BY <2>1, <2>2
<1>b. \A v \in DOMAIN destMap : /\ v \in W => destMap[v].next =< h
                                /\ destMap[v].next = h => v \in W
  BY DEF Followed
<1>5. \A u \in W : u \in Node /\ Reach(u)' = Reach(u) /\ Reach(u) \in Nat
  BY <1>2, <1>3, CostsFinal, ReachFalls
<1>6. ASSUME NEW v \in DOMAIN destMap'
      PROVE  (v \in X => destMap'[v].next =< h) /\ (destMap'[v].next = h => v \in X)
  <2>1. CASE Skip(e)
    <3>1. destMap' = destMap /\ X = W
      <4>1. ~Expand(e)
        BY <2>1 DEF Skip, Expand
      <4>2. QED
        BY <1>a, <2>1, <4>1 DEF Skip, Turn
    <3>2. QED
      BY <1>b, <1>6, <3>1
  <2>2. CASE Expand(e)
    <3>1. ASSUME v \in W PROVE destMap'[v].next =< h
      <4>1. v \in DOMAIN destMap
        BY <1>3, <3>1
      <4>2. destMap[v].next =< h
        BY <1>b, <3>1, <4>1
      <4>3. h \in Int
        BY NodeAssumption
      <4>4. QED
        BY <2>2, <4>1, <4>2, <4>3, NextFalls
    <3>2. ASSUME v = e.node, Turn(e, h) PROVE destMap'[v].next =< h
      BY <1>3, <2>2, <3>2, NextFalls DEF Turn
    <3>3. ASSUME destMap'[v].next = h PROVE v \in X
      <4>1. CASE v \in DOMAIN destMap /\ destMap'[v].next = destMap[v].next
        BY <1>a, <1>b, <3>3, <4>1
      <4>2. CASE v = e.node /\ v # Me /\ destMap'[v].next = Hop(e)
        <5>1. e.cost = Reach(e.node)
          BY <2>2, <4>2, FreshCost DEF Expand, Reach
        <5>2. QED
          BY <1>a, <2>2, <3>3, <4>2, <5>1 DEF Turn
      <4>3. QED
        BY <2>2, <4>1, <4>2, NextFalls
    <3>4. QED
      BY <1>a, <3>1, <3>2, <3>3
  <2>3. QED
    BY <2>1, <2>2
<1>7. ASSUME NEW v \in Node, NEW c \in Nat, c =< Reach(v)', v \in W \/ Due(v, c, h)
      PROVE  v \in X \/ Due(v, c, h)'
  <2>1. c =< Reach(v)
    <3>1. Reach(v) \in Nat /\ Reach(v)' \in Nat /\ Reach(v)' =< Reach(v)
      BY ReachFalls
    <3>2. QED
      BY <1>7, <3>1
  <2>2. QED
    BY <1>a, <1>7, <2>1, DueKept
<1>8. ASSUME NEW c, c = g(Me, h), c =< Reach(h)'
      PROVE  h \in X \/ Due(h, c, h)'
  <2>1. c \in Nat /\ c =< Reach(h)
    <3>1. Reach(h) \in Nat /\ Reach(h)' \in Nat /\ Reach(h)' =< Reach(h)
      BY ReachFalls
    <3>2. QED
      BY <1>2, <1>8, <3>1
  <2>2. h \in W \/ Due(h, c, h)
    BY <1>8, <2>1 DEF Followed
  <2>3. QED
    BY <1>7, <1>8, <2>1, <2>2
<1>9. ASSUME NEW u \in X, NEW v \in Node, <<u, v>> \in DOMAIN graph,
             NEW c, c = Reach(u)' + g(u, v), c =< Reach(v)'
      PROVE  v \in X \/ Due(v, c, h)'
  <2>1. g(u, v) \in Nat
    BY <1>1, <1>9, EdgeFacts
  <2>2. CASE u \in W
    <3>1. c = Reach(u) + g(u, v) /\ c \in Nat
      BY <1>5, <1>9, <2>1, <2>2
    <3>2. c =< Reach(v)
      <4>1. Reach(v) \in Nat /\ Reach(v)' \in Nat /\ Reach(v)' =< Reach(v)
        BY ReachFalls
      <4>2. QED
        BY <1>9, <3>1, <4>1
    <3>3. v \in W \/ Due(v, c, h)
      BY <1>9, <2>2, <3>1, <3>2 DEF Followed
    <3>4. QED
      BY <1>7, <1>9, <3>1, <3>3
  <2>3. CASE u = e.node /\ Turn(e, h)
    <3>1. Reach(u)' = e.cost
      <4>1. visited'[e.node] = visited[e.node]
        BY <1>1, <1>2, <2>3, VisitedFacts DEF Turn
      <4>2. QED
        BY <2>3, <4>1 DEF Turn, Reach
    <3>2. Due(v, c, h)'
      BY <1>2, <1>9, <2>3, <3>1, DueNext
    <3>3. QED
      BY <3>2
  <2>4. QED
    BY <1>a, <2>2, <2>3
<1>10. Followed(h, X)'
  BY <1>1, <1>6, <1>8, <1>9 DEF Followed, Due
<1>11. QED
  BY <1>4, <1>10

\* The first turn queues every neighbour over itself.
LEMMA FirstTurn ==
  ASSUME LoopInv, NEW e \in BagToSet(pq), Skip(e) \/ Expand(e),
         BagToSet(pq) = {Start}, DOMAIN destMap = {},
         NEW h \in Node, <<Me, h>> \in DOMAIN graph
  PROVE  Followed(h, {})'
<1>1. TypeOK /\ graph' = graph /\ graph \in Graphs
  BY DEF LoopInv, TypeOK, Skip, Expand
<1>2. e = Start /\ e.node = Me /\ e.cost = 0 /\ Hop(e) = Me
  BY DEF Start, Hop
<1>3. visited[Me] \in Nat /\ h # Me /\ Me \in Node
  BY <1>1, EntryFacts, EdgeFacts, NodeAssumption, <1>2
<1>4. Expand(e)
  BY <1>2, <1>3 DEF Skip, Stale
<1>5. DOMAIN destMap' = {}
  BY <1>1, <1>2, <1>4, RecordedFacts
<1>6. ASSUME NEW c, c = graph[<<Me, h>>], c =< Reach(h)' PROVE Due(h, c, h)'
  <2> DEFINE y == [cost |-> e.cost + graph[<<e.node, h>>], node |-> h, next |-> Hop(e)]
  <2>1. graph[<<Me, h>>] \in Nat
    BY <1>1, EdgeFacts
  <2>2. visited[h] \in Nat /\ visited'[h] \in Nat /\ visited'[h] =< visited[h]
    BY <1>1, <1>4, VisitedFacts
  <2>3. graph[<<Me, h>>] =< visited[h]
    BY <1>3, <1>6, <2>1, <2>2 DEF Reach
  <2>4. h \in Pushed(e)
    BY <1>2, <2>1, <2>3 DEF Pushed
  <2>5. y \in NewEntries(e)
    BY <2>4 DEF NewEntries
  <2>6. y \in BagToSet(pq')
    BY <1>1, <1>4, <2>5, ExpandQueue
  <2>7. y.node = h /\ y.cost = c /\ Hop(y) = h
    BY <1>2, <1>6, <2>1 DEF Hop
  <2> HIDE DEF y
  <2>8. QED
    BY <2>6, <2>7 DEF Due, Hop
<1>7. QED
  BY <1>1, <1>5, <1>6 DEF Followed, Due

LEMMA EachHopKept ==
  ASSUME LoopInv, NEW e \in BagToSet(pq), Skip(e) \/ Expand(e)
  PROVE  EachHopFollowed'
<1>1. graph' = graph
  BY DEF Skip, Expand
<1>2. ASSUME NEW h \in Node, <<Me, h>> \in DOMAIN graph
      PROVE  \E X \in SUBSET ({Me} \union DOMAIN destMap') : Followed(h, X)'
  <2>1. CASE BagToSet(pq) = {Start} /\ DOMAIN destMap = {}
    BY <1>2, <2>1, FirstTurn
  <2>2. CASE \E W \in SUBSET ({Me} \union DOMAIN destMap) : Followed(h, W)
    BY <1>2, <2>2, FollowedKept
  <2>3. QED
    BY <1>2, <2>1, <2>2 DEF LoopInv, EachHopFollowed
<1>3. QED
  BY <1>1, <1>2 DEF EachHopFollowed

-----------------------------------------------------------------------------
\* The loop invariant of dijkstra() holds for every graph.
THEOREM LoopCorrect == Spec => []LoopInv
<1>1. Init => LoopInv
  BY InitLoop
<1>2. LoopInv /\ [Next]_vars => LoopInv'
  <2> SUFFICES ASSUME LoopInv, [Next]_vars PROVE LoopInv'
    OBVIOUS
  <2>1. CASE UNCHANGED vars
    <3>1. EachHopFollowed'
      <4>1. graph' = graph /\ visited' = visited /\ pq' = pq /\ destMap' = destMap
        BY <2>1 DEF vars
      <4>2. \A h, W : Followed(h, W) => Followed(h, W)'
        BY <4>1 DEF Followed, Due, Reach, Hop
      <4>3. QED
        BY <4>1, <4>2 DEF LoopInv, EachHopFollowed
    <3>2. QED
      BY <2>1, <3>1 DEF vars, LoopInv, TypeOK, Settled, Pending, Reach, NeverTooCheap,
                        HopsOnTheWay, OnTheWay, Hop, Reached
  <2>2. ASSUME NEW e \in BagToSet(pq), Skip(e) \/ Expand(e)
        PROVE  LoopInv'
    BY <2>2, SkipType, ExpandType, SettledKept, PendingKept, NeverTooCheapKept,
       HopsKept, ReachedKept, EachHopKept DEF LoopInv
  <2>3. QED
    BY <2>1, <2>2 DEF Next
<1>3. QED
  BY <1>1, <1>2, PTL DEF Spec

\* At the end of the loop destMap routes: the costs are the distances, every
\* node nearer than the limit has a route, and its next hop begins a cheapest
\* way.
THEOREM RoutesComputed == Spec => []Routing
<1>1. LoopInv => Routing
  <2> SUFFICES ASSUME LoopInv, Finished
               PROVE  IsRouting(destMap, Node, graph, Me, Inf)
    BY DEF Routing
  <2> DEFINE d == [v \in Node |-> Reach(v)]
  <2>1. TypeOK /\ graph \in Graphs /\ BagToSet(pq) = {}
    BY DEF LoopInv, TypeOK, Finished
  <2>2. d \in [Node -> 0..Inf]
    BY <2>1, InfAssumption DEF Reach, TypeOK
  <2>3. \A v \in DOMAIN destMap : v \in Node \ {Me} /\ destMap[v].cost = d[v]
    BY <2>1 DEF LoopInv, TypeOK, Settled, Reach
  <2>4. \A u, v \in Node : <<u, v>> \in DOMAIN graph =>
           visited[v] =< Reach(u) + graph[<<u, v>>]
    BY <2>1 DEF LoopInv, Pending
  <2>5. d \in Potentials(Node, graph, Me, Inf)
    <3>1. d[Me] = 0
      BY NodeAssumption DEF Reach
    <3>2. ASSUME NEW l \in DOMAIN graph
          PROVE  d[l[2]] =< d[l[1]] + graph[l]
      <4>1. l[1] \in Node /\ l[2] \in Node /\ l = <<l[1], l[2]>> /\ graph[l] \in Nat
        BY <2>1, GraphFacts
      <4>2. visited[l[2]] =< Reach(l[1]) + graph[l]
        BY <2>4, <4>1
      <4>3. Reach(l[1]) \in Nat
        BY <2>2, <4>1
      <4>4. QED
        BY <4>1, <4>2, <4>3 DEF Reach
    <3>3. QED
      BY <2>2, <3>1, <3>2 DEF Potentials
  <2>6. \A f \in Potentials(Node, graph, Me, Inf) : \A v \in Node : f[v] =< d[v]
    <3> SUFFICES ASSUME NEW f \in Potentials(Node, graph, Me, Inf), NEW v \in Node
                 PROVE  f[v] =< d[v]
      OBVIOUS
    <3>1. f[Me] = 0
      BY <2>1, NodeAssumption, PotentialFacts
    <3>2. f \in Potentials(Node, graph, Me, Inf + 1) /\ f[v] =< Inf
      <4>1. f \in [Node -> 0..Inf]
        BY DEF Potentials
      <4>2. QED
        BY <4>1, HigherLimit, InfAssumption
    <3>3. f[v] =< visited[v]
      BY <3>2 DEF LoopInv, NeverTooCheap
    <3>4. QED
      BY <3>1, <3>3 DEF Reach
  <2>7. {v \in Node \ {Me} : d[v] < Inf} \subseteq DOMAIN destMap
    BY <2>1 DEF LoopInv, Reached, Reach
  <2>8. \A v \in DOMAIN destMap : BeginsWith(destMap[v].next, v, d[v], Node, graph, Me, Inf)
    BY <2>3, HigherLimit, InfAssumption DEF LoopInv, HopsOnTheWay, OnTheWay, BeginsWith
  <2>9. DOMAIN destMap \subseteq Node \ {Me}
    BY <2>3
  <2> HIDE DEF d
  <2>10. QED
    BY <2>2, <2>3, <2>5, <2>6, <2>7, <2>8, <2>9 DEF IsRouting, IsDistance
<1>2. QED
  BY <1>1, LoopCorrect, PTL

-----------------------------------------------------------------------------
(***************************************************************************)
(* What Distance is: its recursion ends with the greatest potential.       *)
(***************************************************************************)
LEMMA LeastMember ==
  ASSUME NEW S \in SUBSET Nat, S # {}
  PROVE  \E x \in S : \A y \in S : x =< y
<1> DEFINE R == OpToRel(<, Nat)
<1>1. IsWellFoundedOn(R, Nat)
  BY NatLessThanWellFounded
<1> HIDE DEF R
<1>2. PICK x \in S : \A y \in S : ~(<<y, x>> \in R)
  BY <1>1, WFMin
<1>3. ASSUME NEW y \in S PROVE x =< y
  <2>1. x \in Nat /\ y \in Nat
    OBVIOUS
  <2>2. y < x => <<y, x>> \in R
    BY <2>1 DEF R, OpToRel
  <2>3. QED
    BY <1>2, <2>1, <2>2
<1>4. QED
  BY <1>3

LEMMA Climb ==
  ASSUME NEW n \in Nat, NEW T, 0 \in T, \A k \in 1..n : k - 1 \in T => k \in T
  PROVE  \A k \in 0..n : k \in T
<1> DEFINE Missing == {k \in 0..n : k \notin T}
<1> SUFFICES ASSUME Missing # {} PROVE FALSE
  OBVIOUS
<1>1. Missing \in SUBSET Nat
  OBVIOUS
<1>2. PICK k \in Missing : \A j \in Missing : k =< j
  <2> HIDE DEF Missing
  <2>1. QED
    BY <1>1, LeastMember
<1>3. k \in 1..n /\ k - 1 \in 0..n
  BY <1>2
<1>4. k - 1 \in Missing
  BY <1>2, <1>3
<1>5. QED
  BY <1>2, <1>3, <1>4

\* The least and the greatest of numbers.
LEMMA MinFacts ==
  ASSUME NEW S \in SUBSET Nat, S # {}
  PROVE  Min(S) \in S /\ \A y \in S : Min(S) =< y
  BY LeastMember DEF Min

LEMMA GreatestExists ==
  ASSUME NEW n \in Nat, NEW S \in SUBSET (0..n), S # {}
  PROVE  \E m \in S : \A y \in S : y =< m
<1> DEFINE T == {n - y : y \in S}
<1>1. T \in SUBSET Nat /\ T # {}
  OBVIOUS
<1>2. Min(T) \in T /\ \A y \in T : Min(T) =< y
  BY <1>1, MinFacts
<1>3. PICK m \in S : Min(T) = n - m
  BY <1>2
<1>4. \A y \in S : n - m =< n - y
  BY <1>2, <1>3
<1>5. QED
  BY <1>4

\* A graph on V, and the costs under a limit.
IsGraph(g, V) == DOMAIN g \subseteq V \X V /\ \A l \in DOMAIN g : g[l] \in Nat
Costs(V, limit) == [V -> 0..(limit + 1)]

LEMMA LinkFacts ==
  ASSUME NEW V, NEW g, IsGraph(g, V), NEW l \in DOMAIN g
  PROVE  l[1] \in V /\ l[2] \in V /\ l = <<l[1], l[2]>> /\ g[l] \in Nat
  BY DEF IsGraph

LEMMA OneMoreFacts ==
  ASSUME NEW V, NEW g, IsGraph(g, V), NEW limit \in Nat, NEW p \in Costs(V, limit)
  PROVE  /\ OneMore(p, V, g, limit) \in Costs(V, limit)
         /\ \A v \in V : OneMore(p, V, g, limit)[v] =< p[v]
         /\ \A l \in DOMAIN g : OneMore(p, V, g, limit)[l[2]] =< p[l[1]] + g[l]
         /\ \A v \in V : \/ OneMore(p, V, g, limit)[v] = p[v]
                         \/ \E l \in DOMAIN g :
                              /\ l[2] = v
                              /\ OneMore(p, V, g, limit)[v] = Capped(p[l[1]] + g[l], limit)
<1> DEFINE Over(v) == {Capped(p[l[1]] + g[l], limit) : l \in {k \in DOMAIN g : k[2] = v}}
           S(v) == {p[v]} \union Over(v)
           q == OneMore(p, V, g, limit)
<1>1. \A v \in V : p[v] \in 0..(limit + 1)
  BY DEF Costs
<1>2. \A l \in DOMAIN g : /\ Capped(p[l[1]] + g[l], limit) \in 0..(limit + 1)
                          /\ Capped(p[l[1]] + g[l], limit) =< p[l[1]] + g[l]
  <2> SUFFICES ASSUME NEW l \in DOMAIN g
               PROVE  /\ Capped(p[l[1]] + g[l], limit) \in 0..(limit + 1)
                      /\ Capped(p[l[1]] + g[l], limit) =< p[l[1]] + g[l]
    OBVIOUS
  <2>1. l[1] \in V /\ g[l] \in Nat
    BY LinkFacts
  <2>2. p[l[1]] \in Nat /\ p[l[1]] + g[l] \in Nat
    BY <1>1, <2>1
  <2>3. QED
    BY <2>2 DEF Capped
<1>3. \A v \in V : S(v) \in SUBSET (0..(limit + 1)) /\ S(v) # {}
  BY <1>1, <1>2
<1>4. \A v \in V : Min(S(v)) \in S(v) /\ \A y \in S(v) : Min(S(v)) =< y
  <2>1. 0..(limit + 1) \subseteq Nat
    OBVIOUS
  <2> HIDE DEF S
  <2>2. QED
    BY <1>3, <2>1, MinFacts
<1>5. q = [v \in V |-> Min(S(v))]
  BY DEF OneMore
<1>6. \A v \in V : q[v] \in S(v) /\ \A y \in S(v) : q[v] =< y
  BY <1>4, <1>5
<1>7. q \in Costs(V, limit)
  <2> HIDE DEF S
  <2>1. QED
    BY <1>3, <1>4, <1>5 DEF Costs
<1> HIDE DEF q
<1>8. \A v \in V : q[v] =< p[v]
  BY <1>6
<1>9. ASSUME NEW l \in DOMAIN g PROVE q[l[2]] =< p[l[1]] + g[l]
  <2>1. l[1] \in V /\ l[2] \in V /\ g[l] \in Nat
    BY LinkFacts
  <2>2. Capped(p[l[1]] + g[l], limit) \in S(l[2])
    OBVIOUS
  <2>3. q[l[2]] =< Capped(p[l[1]] + g[l], limit)
    BY <1>6, <2>1, <2>2
  <2>4. q[l[2]] \in Nat /\ p[l[1]] + g[l] \in Nat /\ Capped(p[l[1]] + g[l], limit) \in Nat
    BY <1>1, <1>2, <1>7, <2>1 DEF Costs
  <2>5. QED
    BY <1>2, <2>3, <2>4
<1>10. \A v \in V : q[v] = p[v] \/ \E l \in DOMAIN g : l[2] = v /\ q[v] = Capped(p[l[1]] + g[l], limit)
  BY <1>6
<1>11. QED
  BY <1>7, <1>8, <1>9, <1>10 DEF q

\* n rounds of step from base.
IsLoop(w, n, S, base, step) ==
    /\ w \in [0..n -> S]
    /\ w[0] = base
    /\ \A k \in 1..n : w[k] = step[w[k - 1]]

LEMMA LoopExists ==
  ASSUME NEW n \in Nat, NEW S, NEW base \in S, NEW step \in [S -> S]
  PROVE  \E w : IsLoop(w, n, S, base, step)
<1> DEFINE Upto(m, w) == w[0] = base /\ \A k \in 1..m : w[k] = step[w[k - 1]]
           T == {m \in 0..n : \E w \in [0..m -> S] : Upto(m, w)}
<1>1. 0 \in T
  <2> DEFINE w == [k \in 0..0 |-> base]
  <2>1. w \in [0..0 -> S] /\ w[0] = base
    OBVIOUS
  <2> HIDE DEF w
  <2>2. Upto(0, w)
    BY <2>1
  <2>3. QED
    BY <2>1, <2>2
<1>2. ASSUME NEW m \in 1..n, m - 1 \in T PROVE m \in T
  <2>1. PICK w \in [0..(m - 1) -> S] : Upto(m - 1, w)
    BY <1>2
  <2> DEFINE last == step[w[m - 1]]
             x == [k \in 0..m |-> IF k = m THEN last ELSE w[k]]
  <2>2. m - 1 \in 0..(m - 1) /\ last \in S
    OBVIOUS
  <2>3. \A k \in 0..m : k # m => k \in 0..(m - 1)
    OBVIOUS
  <2> HIDE DEF last
  <2>4. x \in [0..m -> S]
    BY <2>2, <2>3
  <2>5. x[m] = last /\ \A k \in 0..(m - 1) : x[k] = w[k]
    OBVIOUS
  <2> HIDE DEF x
  <2>6. x[0] = base
    BY <2>1, <2>5
  <2>7. ASSUME NEW k \in 1..m PROVE x[k] = step[x[k - 1]]
    <3>1. CASE k = m
      BY <2>2, <2>5, <3>1 DEF last
    <3>2. CASE k # m
      <4>1. k \in 1..(m - 1) /\ k \in 0..(m - 1) /\ k - 1 \in 0..(m - 1)
        BY <3>2
      <4>2. QED
        BY <2>1, <2>5, <4>1
    <3>3. QED
      BY <3>1, <3>2
  <2>8. Upto(m, x)
    BY <2>6, <2>7
  <2> HIDE DEF Upto
  <2>9. QED
    BY <2>4, <2>8
<1> HIDE DEF T
<1>3. n \in T
  BY <1>1, <1>2, Climb
<1>4. QED
  BY <1>3 DEF T, IsLoop

LEMMA WaysIs ==
  ASSUME NEW V, IsFiniteSet(V), NEW g, IsGraph(g, V), NEW s, NEW limit \in Nat
  PROVE  /\ Cardinality(V) \in Nat
         /\ \A k \in 0..Cardinality(V) : Ways(V, g, s, limit)[k] \in Costs(V, limit)
         /\ Ways(V, g, s, limit)[0] = [v \in V |-> IF v = s THEN 0 ELSE limit + 1]
         /\ \A k \in 1..Cardinality(V) :
              Ways(V, g, s, limit)[k] = OneMore(Ways(V, g, s, limit)[k - 1], V, g, limit)
<1> DEFINE n == Cardinality(V)
           S == Costs(V, limit)
           base == [v \in V |-> IF v = s THEN 0 ELSE limit + 1]
           step == [p \in S |-> OneMore(p, V, g, limit)]
           Body(w) == [k \in 0..n |-> IF k = 0 THEN base ELSE OneMore(w[k - 1], V, g, limit)]
           w == Ways(V, g, s, limit)
<1>1. n \in Nat
  BY FS_CardinalityType
<1>2. base \in S
  BY DEF Costs
<1>3. step \in [S -> S]
  <2> HIDE DEF S
  <2>1. \A p \in S : OneMore(p, V, g, limit) \in S
    BY OneMoreFacts DEF S
  <2>2. QED
    BY <2>1
<1>4. w = CHOOSE x : x = Body(x)
  BY DEF Ways
<1> HIDE DEF n, S, base, w
<1>4a. \E x : IsLoop(x, n, S, base, step)
  <2> HIDE DEF step
  <2>1. QED
    BY <1>1, <1>2, <1>3, LoopExists
<1>5. PICK x \in [0..n -> S] : x[0] = base /\ \A k \in 1..n : x[k] = step[x[k - 1]]
  <2> HIDE DEF step
  <2>1. QED
    BY <1>4a DEF IsLoop
<1>6. \A k \in 1..n : k - 1 \in 0..n /\ x[k - 1] \in S
  BY <1>1, <1>5
<1>7. \A k \in 1..n : x[k] = OneMore(x[k - 1], V, g, limit)
  BY <1>5, <1>6
<1>8. x = Body(x)
  <2>1. \A k \in 0..n : k = 0 \/ k \in 1..n
    BY <1>1
  <2>2. \A k \in 0..n : x[k] = Body(x)[k]
    BY <1>5, <1>7, <2>1
  <2>3. QED
    BY <1>5, <2>2
<1>9. w = Body(w)
  <2> HIDE DEF Body
  <2>1. QED
    BY <1>4, <1>8
<1>10. w[0] = base /\ \A k \in 1..n : w[k] = OneMore(w[k - 1], V, g, limit)
  <2>1. \A k \in 0..n : w[k] = Body(w)[k]
    BY <1>9
  <2>2. 0 \in 0..n /\ \A k \in 1..n : k \in 0..n /\ k # 0
    BY <1>1
  <2>3. QED
    BY <2>1, <2>2
<1>11. \A k \in 0..n : w[k] \in S
  <2> DEFINE T == {k \in 0..n : w[k] \in S}
  <2>1. 0 \in T
    BY <1>1, <1>2, <1>10
  <2>2. ASSUME NEW k \in 1..n, k - 1 \in T PROVE k \in T
    <3>1. w[k] = step[w[k - 1]] /\ k \in 0..n
      BY <1>1, <1>10, <2>2
    <3> HIDE DEF step
    <3>2. QED
      BY <1>3, <2>2, <3>1
  <2> HIDE DEF T
  <2>3. \A k \in 0..n : k \in T
    BY <1>1, <2>1, <2>2, Climb
  <2>4. QED
    BY <2>3 DEF T
<1>12. QED
  BY <1>1, <1>10, <1>11 DEF n, S, base, w

\* The greatest potential.
LEMMA DistanceExists ==
  ASSUME NEW V, NEW g, IsGraph(g, V), NEW s \in V, NEW top \in Nat
  PROVE  \E d : IsDistance(d, V, g, s, top)
<1> DEFINE P == Potentials(V, g, s, top)
           At(v) == {f[v] : f \in P}
           d == [v \in V |-> CHOOSE m \in At(v) : \A y \in At(v) : y =< m]
<1>1. \A f \in P : f \in [V -> 0..top] /\ f[s] = 0 /\ \A l \in DOMAIN g : f[l[2]] =< f[l[1]] + g[l]
  BY DEF Potentials
<1>2. [v \in V |-> 0] \in P
  BY LinkFacts DEF Potentials
<1>3. \A v \in V : At(v) \in SUBSET (0..top) /\ At(v) # {}
  BY <1>1, <1>2
<1>4. \A v \in V : d[v] \in At(v) /\ \A y \in At(v) : y =< d[v]
  <2> HIDE DEF At
  <2>1. QED
    BY <1>3, GreatestExists
<1>5. d \in [V -> 0..top]
  <2> HIDE DEF At
  <2>1. \A v \in V : d[v] \in 0..top
    BY <1>3, <1>4
  <2>2. QED
    BY <2>1
<1> HIDE DEF d
<1>6. \A f \in P : \A v \in V : f[v] =< d[v]
  BY <1>4
<1>7. d[s] = 0
  BY <1>1, <1>4
<1>8. ASSUME NEW l \in DOMAIN g PROVE d[l[2]] =< d[l[1]] + g[l]
  <2>1. l[1] \in V /\ l[2] \in V /\ g[l] \in Nat
    BY LinkFacts
  <2>2. PICK f \in P : d[l[2]] = f[l[2]]
    BY <1>4, <2>1
  <2>3. f[l[2]] =< f[l[1]] + g[l] /\ f[l[1]] =< d[l[1]]
    BY <1>1, <1>6, <2>1
  <2>4. f[l[1]] \in Nat /\ f[l[2]] \in Nat /\ d[l[1]] \in Nat
    BY <1>1, <1>5, <2>1
  <2>5. QED
    BY <2>1, <2>2, <2>3, <2>4
<1>9. QED
  BY <1>5, <1>6, <1>7, <1>8 DEF IsDistance, Potentials

LEMMA DistanceFacts ==
  ASSUME NEW V, NEW g, NEW s \in V, NEW top \in Nat, NEW d, IsDistance(d, V, g, s, top)
  PROVE  /\ d \in [V -> 0..top] /\ d[s] = 0
         /\ \A v \in V : d[v] \in Nat /\ d[v] =< top
         /\ \A l \in DOMAIN g : d[l[2]] =< d[l[1]] + g[l]
         /\ \A f \in Potentials(V, g, s, top) : \A v \in V : f[v] =< d[v]
<1>1. d \in [V -> 0..top]
  BY DEF IsDistance, Potentials
<1>2. \A v \in V : d[v] \in Nat /\ d[v] =< top
  BY <1>1
<1>3. QED
  BY <1>1, <1>2 DEF IsDistance, Potentials

LEMMA DistanceUnique ==
  ASSUME NEW V, NEW g, NEW s \in V, NEW top \in Nat,
         NEW d, IsDistance(d, V, g, s, top), NEW e, IsDistance(e, V, g, s, top)
  PROVE  d = e
<1>1. d \in [V -> 0..top] /\ e \in [V -> 0..top]
  BY DistanceFacts
<1>2. \A v \in V : d[v] \in Nat /\ e[v] \in Nat
  BY <1>1
<1>3. \A v \in V : d[v] =< e[v] /\ e[v] =< d[v]
  BY DEF IsDistance
<1>4. \A v \in V : d[v] = e[v]
  BY <1>2, <1>3
<1>5. QED
  BY <1>1, <1>4

\* A set of nodes that could all be farther away, but for the greatest potential,
\* is entered by an edge of a cheapest way.
LEMMA Entered ==
  ASSUME NEW V, NEW g, IsGraph(g, V), NEW s \in V, NEW top \in Nat,
         NEW d, IsDistance(d, V, g, s, top),
         NEW B \in SUBSET V, s \notin B, B # {}, \A v \in B : d[v] < top
  PROVE  \E l \in DOMAIN g : l[1] \notin B /\ l[2] \in B /\ d[l[2]] = d[l[1]] + g[l]
<1> DEFINE f == [v \in V |-> IF v \in B THEN d[v] + 1 ELSE d[v]]
<1>1. /\ \A v \in V : d[v] \in Nat /\ d[v] =< top
      /\ d[s] = 0
      /\ \A l \in DOMAIN g : d[l[2]] =< d[l[1]] + g[l]
      /\ \A h \in Potentials(V, g, s, top) : \A v \in V : h[v] =< d[v]
  BY DistanceFacts
<1>2. f \in [V -> 0..top]
  BY <1>1
<1>3. f[s] = 0
  BY <1>1
<1>4. f \notin Potentials(V, g, s, top)
  BY <1>1
<1>5. PICK l \in DOMAIN g : ~(f[l[2]] =< f[l[1]] + g[l])
  BY <1>2, <1>3, <1>4 DEF Potentials
<1>6. l[1] \in V /\ l[2] \in V /\ g[l] \in Nat
  BY LinkFacts
<1>7. l[1] \notin B /\ l[2] \in B
  BY <1>1, <1>5, <1>6
<1>8. QED
  BY <1>1, <1>5, <1>6, <1>7

\* No recorded way is shorter than a potential.
LEMMA WaysAbove ==
  ASSUME NEW V, IsFiniteSet(V), NEW g, IsGraph(g, V), NEW s \in V, NEW limit \in Nat,
         NEW f \in Potentials(V, g, s, limit + 1)
  PROVE  \A k \in 0..Cardinality(V) : \A v \in V : f[v] =< Ways(V, g, s, limit)[k][v]
<1> DEFINE n == Cardinality(V)
           w == Ways(V, g, s, limit)
           T == {k \in 0..n : \A v \in V : f[v] =< w[k][v]}
<1>1. /\ n \in Nat
      /\ \A k \in 0..n : w[k] \in Costs(V, limit)
      /\ w[0] = [v \in V |-> IF v = s THEN 0 ELSE limit + 1]
      /\ \A k \in 1..n : w[k] = OneMore(w[k - 1], V, g, limit)
  BY WaysIs
<1>2. /\ \A v \in V : f[v] \in Nat /\ f[v] =< limit + 1
      /\ f[s] = 0
      /\ \A l \in DOMAIN g : f[l[2]] =< f[l[1]] + g[l]
  BY DEF Potentials
<1> HIDE DEF w, n
<1>3. 0 \in T
  BY <1>1, <1>2
<1>4. ASSUME NEW k \in 1..n, k - 1 \in T PROVE k \in T
  <2> DEFINE p == w[k - 1]
  <2>1. k \in 0..n /\ k - 1 \in 0..n
    BY <1>1
  <2>2. p \in Costs(V, limit) /\ \A v \in V : f[v] =< p[v] /\ p[v] \in Nat
    BY <1>1, <1>4, <2>1 DEF Costs
  <2>3. w[k] = OneMore(p, V, g, limit)
    BY <1>1
  <2> HIDE DEF p
  <2>4. ASSUME NEW v \in V PROVE f[v] =< w[k][v]
    <3>1. CASE w[k][v] = p[v]
      BY <2>2, <3>1
    <3>2. CASE \E l \in DOMAIN g : l[2] = v /\ w[k][v] = Capped(p[l[1]] + g[l], limit)
      <4>1. PICK l \in DOMAIN g : l[2] = v /\ w[k][v] = Capped(p[l[1]] + g[l], limit)
        BY <3>2
      <4>2. l[1] \in V /\ g[l] \in Nat
        BY LinkFacts
      <4>3. f[v] =< f[l[1]] + g[l] /\ f[l[1]] =< p[l[1]] /\ p[l[1]] \in Nat
        BY <1>2, <2>2, <4>1, <4>2
      <4>4. f[v] \in Nat /\ f[l[1]] \in Nat /\ f[v] =< limit + 1
        BY <1>2, <4>2
      <4>5. f[v] =< p[l[1]] + g[l]
        BY <4>2, <4>3, <4>4
      <4>6. QED
        BY <4>1, <4>2, <4>3, <4>4, <4>5 DEF Capped
    <3>3. QED
      BY <2>2, <2>3, <3>1, <3>2, OneMoreFacts
  <2>5. QED
    BY <2>1, <2>4
<1> HIDE DEF T
<1>5. \A k \in 0..n : k \in T
  BY <1>1, <1>3, <1>4, Climb
<1>6. QED
  BY <1>5 DEF T, n, w

\* The nodes whose costs are right after k rounds.
Right(k, d, V, g, s, limit) == {v \in V : Ways(V, g, s, limit)[k][v] = d[v]}

\* After k rounds the costs of k + 1 nodes are right, or those of all.
LEMMA WaysGrow ==
  ASSUME NEW V, IsFiniteSet(V), NEW g, IsGraph(g, V), NEW s \in V, NEW limit \in Nat,
         NEW d, IsDistance(d, V, g, s, limit + 1)
  PROVE  \A k \in 0..Cardinality(V) : \/ Right(k, d, V, g, s, limit) = V
                                      \/ Cardinality(Right(k, d, V, g, s, limit)) >= k + 1
<1> DEFINE n == Cardinality(V)
           w == Ways(V, g, s, limit)
           K(k) == Right(k, d, V, g, s, limit)
           T == {k \in 0..n : s \in K(k) /\ (K(k) = V \/ Cardinality(K(k)) >= k + 1)}
<1>1. /\ n \in Nat
      /\ \A k \in 0..n : w[k] \in Costs(V, limit)
      /\ w[0] = [v \in V |-> IF v = s THEN 0 ELSE limit + 1]
      /\ \A k \in 1..n : w[k] = OneMore(w[k - 1], V, g, limit)
  BY WaysIs
<1>2. d \in Potentials(V, g, s, limit + 1)
  BY DEF IsDistance
<1>3. limit + 1 \in Nat /\ d[s] = 0 /\ \A v \in V : d[v] \in Nat /\ d[v] =< limit + 1
  <2>1. limit + 1 \in Nat
    OBVIOUS
  <2>2. QED
    BY <2>1, DistanceFacts
<1>4. \A k \in 0..n : \A v \in V : d[v] =< w[k][v]
  BY <1>2, WaysAbove
<1> HIDE DEF w, n
<1> HIDE DEF K
<1>5. /\ \A k \in 0..n : K(k) = {v \in V : w[k][v] = d[v]}
      /\ \A k \in 0..n : K(k) \in SUBSET V
      /\ \A k \in 0..n : IsFiniteSet(K(k)) /\ Cardinality(K(k)) \in Nat
  <2>1. \A k \in 0..n : K(k) = {v \in V : w[k][v] = d[v]}
    BY DEF K, Right, n, w
  <2>2. \A k \in 0..n : K(k) \in SUBSET V
    BY <2>1
  <2>3. \A k \in 0..n : IsFiniteSet(K(k)) /\ Cardinality(K(k)) \in Nat
    BY <2>2, FS_Subset, FS_CardinalityType
  <2>4. QED
    BY <2>1, <2>2, <2>3
<1>6. \A k \in 0..n : \A v \in V : w[k][v] \in Nat /\ w[k][v] =< limit + 1
  BY <1>1 DEF Costs
<1>7. 0 \in T
  <2>1. 0 \in 0..n /\ s \in K(0)
    BY <1>1, <1>3, <1>5
  <2>2. Cardinality(K(0)) # 0
    BY <1>5, <2>1, FS_EmptySet
  <2>3. QED
    BY <1>5, <2>1, <2>2
<1>8. ASSUME NEW k \in 1..n, k - 1 \in T PROVE k \in T
  <2> DEFINE j == k - 1
  <2>1. k \in 0..n /\ j \in 0..n /\ k = j + 1 /\ j \in T
    BY <1>1, <1>8
  <2>2. w[k] = OneMore(w[j], V, g, limit) /\ w[j] \in Costs(V, limit)
    BY <1>1, <2>1
  <2> HIDE DEF j
  <2>3. /\ \A v \in V : w[k][v] =< w[j][v]
        /\ \A l \in DOMAIN g : w[k][l[2]] =< w[j][l[1]] + g[l]
    BY <2>2, OneMoreFacts
  <2>4. K(j) \subseteq K(k)
    <3>1. \A v \in V : w[j][v] = d[v] => w[k][v] = d[v]
      BY <1>3, <1>4, <1>6, <2>1, <2>3
    <3>2. QED
      BY <1>5, <2>1, <3>1
  <2>5. CASE K(j) = V
    BY <1>5, <2>1, <2>4, <2>5
  <2>6. CASE K(j) # V
    <3> DEFINE B == V \ K(j)
    <3>1. B \in SUBSET V /\ B # {} /\ s \notin B
      BY <1>5, <2>1, <2>6
    <3>2. \A v \in B : d[v] < limit + 1
      BY <1>3, <1>4, <1>5, <1>6, <2>1
    <3>3. PICK l \in DOMAIN g : l[1] \notin B /\ l[2] \in B /\ d[l[2]] = d[l[1]] + g[l]
      <4> HIDE DEF B
      <4>1. QED
        BY <1>3, <3>1, <3>2, Entered
    <3>4. l[1] \in V /\ l[2] \in V /\ g[l] \in Nat
      BY LinkFacts
    <3>5. w[j][l[1]] = d[l[1]]
      BY <1>5, <2>1, <3>3, <3>4
    <3>6. w[k][l[2]] = d[l[2]]
      <4>1. w[k][l[2]] =< d[l[2]]
        BY <2>3, <3>3, <3>5
      <4>2. d[l[2]] =< w[k][l[2]] /\ d[l[2]] \in Nat /\ w[k][l[2]] \in Nat
        BY <1>3, <1>4, <1>6, <2>1, <3>4
      <4>3. QED
        BY <4>1, <4>2
    <3>7. l[2] \in K(k) /\ l[2] \notin K(j)
      BY <1>5, <2>1, <3>3, <3>4, <3>6
    <3>8. Cardinality(K(j) \union {l[2]}) = Cardinality(K(j)) + 1
      BY <1>5, <2>1, <3>7, FS_AddElement
    <3>9. K(j) \union {l[2]} \in SUBSET K(k)
      BY <2>4, <3>7
    <3>10. Cardinality(K(j) \union {l[2]}) =< Cardinality(K(k))
      BY <1>5, <2>1, <3>9, FS_Subset
    <3>11. Cardinality(K(j)) >= j + 1
      BY <2>1, <2>6
    <3>12. Cardinality(K(k)) >= k + 1
      BY <1>5, <2>1, <3>8, <3>10, <3>11
    <3>13. QED
      BY <2>1, <2>4, <3>12
  <2>7. QED
    BY <2>5, <2>6
<1> HIDE DEF T
<1>9. \A k \in 0..n : k \in T
  BY <1>1, <1>7, <1>8, Climb
<1>10. QED
  BY <1>9 DEF T, n, K

\* The recursion computes the greatest potential.
THEOREM DistanceIsGreatest ==
  ASSUME NEW V, IsFiniteSet(V), NEW g, IsGraph(g, V), NEW s \in V, NEW limit \in Nat
  PROVE  IsDistance(Distance(V, g, s, limit), V, g, s, limit + 1)
<1> DEFINE n == Cardinality(V)
           w == Ways(V, g, s, limit)
<1>1. limit + 1 \in Nat /\ n \in Nat /\ w[n] \in Costs(V, limit)
  <2>1. n \in Nat /\ \A k \in 0..n : w[k] \in Costs(V, limit)
    BY WaysIs
  <2> HIDE DEF n, w
  <2>2. QED
    BY <2>1
<1>2. PICK d : IsDistance(d, V, g, s, limit + 1)
  BY <1>1, DistanceExists
<1> DEFINE K == Right(n, d, V, g, s, limit)
<1>3. \A k \in 0..n : \/ Right(k, d, V, g, s, limit) = V
                      \/ Cardinality(Right(k, d, V, g, s, limit)) >= k + 1
  BY <1>2, WaysGrow
<1>4. K = V \/ Cardinality(K) >= n + 1
  <2> HIDE DEF n
  <2>1. QED
    BY <1>1, <1>3
<1>5. K = {v \in V : w[n][v] = d[v]}
  BY DEF Right
<1>6. Cardinality(K) \in Nat /\ Cardinality(K) =< n
  BY <1>5, FS_Subset, FS_CardinalityType
<1>7. K = V
  <2> HIDE DEF n, K
  <2>1. QED
    BY <1>1, <1>4, <1>6
<1>8. \A v \in V : w[n][v] = d[v]
  BY <1>5, <1>7
<1>9. d \in [V -> 0..(limit + 1)]
  BY <1>1, <1>2, DistanceFacts
<1>10. w[n] = d
  BY <1>1, <1>8, <1>9 DEF Costs
<1>11. QED
  BY <1>2, <1>10 DEF Distance

-----------------------------------------------------------------------------
(***************************************************************************)
(* First hops.                                                             *)
(***************************************************************************)
LEMMA Triangle ==
  ASSUME NEW V, NEW g, IsGraph(g, V), NEW s \in V, NEW h \in V, <<s, h>> \in DOMAIN g,
         NEW top \in Nat, NEW d, IsDistance(d, V, g, s, top),
         NEW e, IsDistance(e, V, g, h, top)
  PROVE  \A v \in V : d[v] =< g[<<s, h>>] + e[v]
<1> DEFINE c == g[<<s, h>>]
           f == [v \in V |-> IF d[v] < c THEN 0 ELSE d[v] - c]
<1>1. /\ \A v \in V : d[v] \in Nat /\ d[v] =< top
      /\ d[s] = 0
      /\ \A l \in DOMAIN g : d[l[2]] =< d[l[1]] + g[l]
  BY DistanceFacts
<1>2. \A v \in V : e[v] \in Nat
  BY DistanceFacts
<1>3. c \in Nat
  BY DEF IsGraph
<1> HIDE DEF c
<1>4. f \in [V -> 0..top]
  BY <1>1, <1>3
<1>5. f[h] = 0
  <2>1. d[<<s, h>>[2]] =< d[<<s, h>>[1]] + c
    BY <1>1 DEF c
  <2>2. d[h] =< c
    BY <1>1, <1>3, <2>1
  <2>3. QED
    BY <1>1, <1>3, <2>2
<1>6. ASSUME NEW l \in DOMAIN g PROVE f[l[2]] =< f[l[1]] + g[l]
  <2>1. l[1] \in V /\ l[2] \in V /\ g[l] \in Nat
    BY LinkFacts
  <2>2. d[l[2]] =< d[l[1]] + g[l]
    BY <1>1
  <2>3. QED
    BY <1>1, <1>3, <2>1, <2>2
<1>7. f \in Potentials(V, g, h, top)
  BY <1>4, <1>5, <1>6 DEF Potentials
<1>8. ASSUME NEW v \in V PROVE d[v] =< c + e[v]
  <2>1. f[v] =< e[v]
    BY <1>7 DEF IsDistance
  <2>2. QED
    BY <1>1, <1>2, <1>3, <2>1
<1>9. QED
  BY <1>8 DEF c

\* Every node within the limit has a first hop.
LEMMA HasFirstHop ==
  ASSUME NEW V, IsFiniteSet(V), NEW g, IsGraph(g, V), NEW s \in V, NEW limit \in Nat
  PROVE  \A v \in V \ {s} : Distance(V, g, s, limit)[v] =< limit =>
                              FirstHops(V, g, s, v, limit) # {}
<1> DEFINE d == Distance(V, g, s, limit)
           e(h) == Distance(V, g, h, limit)
           F(v) == FirstHops(V, g, s, v, limit)
           B == {v \in V \ {s} : d[v] =< limit /\ F(v) = {}}
<1>1. limit + 1 \in Nat
  OBVIOUS
<1>2. IsDistance(d, V, g, s, limit + 1)
  BY DistanceIsGreatest
<1>3. \A h \in V : IsDistance(e(h), V, g, h, limit + 1)
  BY DistanceIsGreatest
<1>4. \A v, h \in V : h \in F(v) <=> <<s, h>> \in DOMAIN g /\ g[<<s, h>>] + e(h)[v] = d[v]
  BY DEF FirstHops
<1> HIDE DEF d, e, F
<1> SUFFICES ASSUME B # {} PROVE FALSE
  BY DEF B, d, F
<1>5. \A v \in V : d[v] \in Nat /\ d[v] =< limit + 1
  BY <1>1, <1>2, DistanceFacts
<1>6. \A h \in V : /\ \A v \in V : e(h)[v] \in Nat
                   /\ e(h)[h] = 0
                   /\ \A l \in DOMAIN g : e(h)[l[2]] =< e(h)[l[1]] + g[l]
  BY <1>1, <1>3, DistanceFacts
<1>7. B \in SUBSET V /\ s \notin B /\ \A v \in B : d[v] < limit + 1
  BY <1>5
<1>8. PICK l \in DOMAIN g : l[1] \notin B /\ l[2] \in B /\ d[l[2]] = d[l[1]] + g[l]
  <2> HIDE DEF B
  <2>1. QED
    BY <1>1, <1>2, <1>7, Entered
<1>9. l[1] \in V /\ l[2] \in V /\ g[l] \in Nat /\ l = <<l[1], l[2]>>
  BY LinkFacts
<1>10. CASE l[1] = s
  <2>1. d[s] = 0
    BY <1>1, <1>2, DistanceFacts
  <2>2. <<s, l[2]>> \in DOMAIN g /\ g[<<s, l[2]>>] = g[l]
    BY <1>9, <1>10
  <2>3. g[<<s, l[2]>>] + e(l[2])[l[2]] = d[l[2]]
    BY <1>6, <1>8, <1>9, <1>10, <2>1, <2>2
  <2>4. l[2] \in F(l[2])
    BY <1>4, <1>9, <2>2, <2>3
  <2>5. QED
    BY <1>8, <2>4
<1>11. CASE l[1] # s
  <2>1. d[l[1]] =< limit /\ F(l[1]) # {}
    BY <1>5, <1>8, <1>9, <1>11
  <2>2. PICK h \in V : h \in F(l[1])
    BY <2>1 DEF F, FirstHops
  <2>3. <<s, h>> \in DOMAIN g /\ g[<<s, h>>] + e(h)[l[1]] = d[l[1]]
    BY <1>4, <1>9, <2>2
  <2>4. g[<<s, h>>] \in Nat
    BY <2>3 DEF IsGraph
  <2>5. d[l[2]] =< g[<<s, h>>] + e(h)[l[2]]
    BY <1>1, <1>2, <1>3, <1>9, <2>3, Triangle
  <2>6. e(h)[l[2]] =< e(h)[l[1]] + g[l] /\ e(h)[l[1]] \in Nat /\ e(h)[l[2]] \in Nat
    BY <1>6, <1>9
  <2>7. g[<<s, h>>] + e(h)[l[2]] = d[l[2]]
    BY <1>5, <1>8, <1>9, <2>3, <2>4, <2>5, <2>6
  <2>8. h \in F(l[2])
    BY <1>4, <1>9, <2>3, <2>7
  <2>9. QED
    BY <1>8, <2>8
<1>12. QED
  BY <1>10, <1>11

\* RouteTable is a routing: the assumption of Forwarding can be met.
THEOREM RouteTableRoutes ==
  ASSUME NEW V \in SUBSET Nat, IsFiniteSet(V), NEW g, IsGraph(g, V), NEW s \in V,
         NEW limit \in Nat
  PROVE  IsRouting(RouteTable(V, g, s, limit), V, g, s, limit)
<1> DEFINE D == Distance(V, g, s, limit)
           d == [v \in V |-> IF D[v] > limit THEN limit ELSE D[v]]
           F(v) == FirstHops(V, g, s, v, limit)
           table == RouteTable(V, g, s, limit)
<1>1. limit + 1 \in Nat
  OBVIOUS
<1>2. IsDistance(D, V, g, s, limit + 1)
  BY DistanceIsGreatest
<1>3. /\ DOMAIN table = {u \in V \ {s} : D[u] =< limit}
      /\ \A v \in DOMAIN table : table[v].next = Min(F(v)) /\ table[v].cost = D[v]
  BY DEF RouteTable
<1>4. \A v \in V \ {s} : D[v] =< limit => F(v) # {}
  BY HasFirstHop
<1>5. \A v, h \in V : h \in F(v) =>
         <<s, h>> \in DOMAIN g /\ g[<<s, h>>] + Distance(V, g, h, limit)[v] = D[v]
  BY DEF FirstHops
<1>6. \A v \in V : F(v) \in SUBSET V
  BY DEF FirstHops
<1> HIDE DEF D, F, table
<1>7. /\ \A v \in V : D[v] \in Nat /\ D[v] =< limit + 1
      /\ D[s] = 0
      /\ \A l \in DOMAIN g : D[l[2]] =< D[l[1]] + g[l]
      /\ \A f \in Potentials(V, g, s, limit + 1) : \A v \in V : f[v] =< D[v]
  BY <1>1, <1>2, DistanceFacts
<1>8. d \in [V -> 0..limit] /\ d[s] = 0
  BY <1>7
<1>8a. \A v \in V : /\ d[v] \in Nat /\ d[v] =< limit /\ d[v] =< D[v]
                    /\ d[v] = limit \/ d[v] = D[v]
                    /\ D[v] =< limit => d[v] = D[v]
  BY <1>7
<1> HIDE DEF d
<1>8b. \A v \in V : D[v] \in Nat /\ D[v] =< limit + 1
  BY <1>7
<1>9. ASSUME NEW l \in DOMAIN g PROVE d[l[2]] =< d[l[1]] + g[l]
  <2>1. l[1] \in V /\ l[2] \in V /\ g[l] \in Nat
    BY LinkFacts
  <2>2. D[l[2]] =< D[l[1]] + g[l]
    BY <1>7
  <2>3. /\ d[l[2]] \in Nat /\ d[l[2]] =< limit /\ d[l[2]] =< D[l[2]]
        /\ D[l[2]] \in Nat /\ D[l[1]] \in Nat
    BY <1>8a, <1>8b, <2>1
  <2>4. CASE d[l[1]] = limit
    BY <2>1, <2>3, <2>4
  <2>5. CASE d[l[1]] = D[l[1]]
    BY <2>1, <2>2, <2>3, <2>5
  <2>6. QED
    BY <1>8a, <2>1, <2>4, <2>5
<1>10. d \in Potentials(V, g, s, limit)
  BY <1>8, <1>9 DEF Potentials
<1>11. ASSUME NEW f \in Potentials(V, g, s, limit), NEW v \in V PROVE f[v] =< d[v]
  <2>1. f[v] \in 0..limit
    BY DEF Potentials
  <2>2. f[v] =< D[v]
    BY <1>7, HigherLimit
  <2>3. QED
    BY <1>8a, <1>8b, <2>1, <2>2
<1>12. ASSUME NEW v \in DOMAIN table
       PROVE  BeginsWith(table[v].next, v, d[v], V, g, s, limit)
  <2>1. v \in V \ {s} /\ D[v] =< limit /\ d[v] = D[v]
    BY <1>3, <1>8a, <1>8b
  <2>2. F(v) # {} /\ F(v) \in SUBSET Nat
    BY <1>4, <1>6, <2>1
  <2>3. Min(F(v)) \in F(v)
    BY <2>2, MinFacts
  <2>4. PICK h \in V : h = table[v].next /\ h \in F(v)
    BY <1>3, <1>6, <2>1, <2>3
  <2> DEFINE e == Distance(V, g, h, limit)
  <2>5. <<s, h>> \in DOMAIN g /\ g[<<s, h>>] + e[v] = D[v]
    BY <1>5, <2>1, <2>4
  <2>6. IsDistance(e, V, g, h, limit + 1)
    BY DistanceIsGreatest
  <2> HIDE DEF e
  <2>7. ASSUME NEW f \in Potentials(V, g, h, limit) PROVE g[<<s, h>>] + f[v] =< D[v]
    <3>1. f[v] =< e[v]
      BY <2>1, <2>6, HigherLimit DEF IsDistance
    <3>2. f[v] \in Nat /\ e[v] \in Nat /\ g[<<s, h>>] \in Nat
      <4>1. f[v] \in 0..limit
        BY <2>1 DEF Potentials
      <4>2. e[v] \in Nat
        BY <1>1, <2>1, <2>6, DistanceFacts
      <4>3. QED
        BY <2>5, <4>1, <4>2 DEF IsGraph
    <3>3. QED
      BY <2>5, <3>1, <3>2
  <2>8. QED
    BY <2>1, <2>4, <2>5, <2>7 DEF BeginsWith
<1>13. {v \in V \ {s} : d[v] < limit} \subseteq DOMAIN table
  <2>1. ASSUME NEW v \in V, d[v] < limit PROVE D[v] =< limit
    <3>1. d[v] # limit
      BY <1>8a, <2>1
    <3>2. d[v] = D[v] /\ d[v] \in Nat
      BY <1>8a, <3>1
    <3>3. QED
      BY <2>1, <3>2
  <2>2. QED
    BY <1>3, <2>1
<1>14. /\ DOMAIN table \subseteq V \ {s}
       /\ \A v \in DOMAIN table : table[v].cost = d[v]
  BY <1>3, <1>8a, <1>8b
<1>15. IsRouting(table, V, g, s, limit)
  BY <1>8, <1>10, <1>11, <1>12, <1>13, <1>14 DEF IsRouting, IsDistance
<1>16. QED
  BY <1>15 DEF table

-----------------------------------------------------------------------------
(***************************************************************************)
(* The end of the loop.                                                    *)
(***************************************************************************)
\* The cost of reaching every node, as destMap has it.
Found == [v \in Node |-> IF v = Me THEN 0 ELSE IF v \in DOMAIN destMap THEN visited[v] ELSE Inf + 1]

LEMMA AtEnd ==
  ASSUME LoopInv, Finished
  PROVE  /\ IsGraph(graph, Node) /\ IsFiniteSet(Node) /\ Node \in SUBSET Nat
         /\ Me \in Node /\ Inf \in Nat
         /\ DOMAIN destMap \subseteq Node \ {Me}
         /\ \A v \in Node : /\ visited[v] \in Nat /\ visited[v] =< Inf
                            /\ Reach(v) \in Nat /\ Reach(v) =< Inf
         /\ Found \in [Node -> 0..(Inf + 1)]
         /\ \A v \in Node : Found[v] =< Inf <=> v = Me \/ v \in DOMAIN destMap
         /\ \A v \in Node : Found[v] =< Inf => Found[v] = Reach(v)
<1>1. IsFiniteSet(Node) /\ Node \in SUBSET Nat /\ Me \in Node /\ Inf \in Nat
  BY NodeAssumption, InfAssumption
<1>2. DOMAIN destMap \subseteq Node \ {Me} /\ graph \in Graphs /\ visited \in [Node -> 0..Inf]
  BY DEF LoopInv, TypeOK
<1>3. IsGraph(graph, Node)
  BY <1>2, GraphAssumption DEF IsGraph
<1>4. \A v \in Node : /\ visited[v] \in Nat /\ visited[v] =< Inf
                      /\ Reach(v) \in Nat /\ Reach(v) =< Inf
  BY <1>1, <1>2 DEF Reach
<1>5. /\ Found \in [Node -> 0..(Inf + 1)]
      /\ \A v \in Node : Found[v] =< Inf <=> v = Me \/ v \in DOMAIN destMap
      /\ \A v \in Node : Found[v] =< Inf => Found[v] = Reach(v)
  BY <1>1, <1>4 DEF Found, Reach
<1>6. QED
  BY <1>1, <1>2, <1>3, <1>4, <1>5

\* At the end nothing is left to be followed.
LEMMA AllFollowed ==
  ASSUME LoopInv, Finished, NEW h \in Node, <<Me, h>> \in DOMAIN graph
  PROVE  \E W \in SUBSET ({Me} \union DOMAIN destMap) :
            /\ \A v \in DOMAIN destMap : v \in W => destMap[v].next =< h
            /\ \A v \in DOMAIN destMap : destMap[v].next = h => v \in W
            /\ graph[<<Me, h>>] =< Reach(h) => h \in W
            /\ \A u \in W, v \in Node :
                 <<u, v>> \in DOMAIN graph /\ Reach(u) + graph[<<u, v>>] =< Reach(v) => v \in W
<1>1. \A v, c : ~Due(v, c, h)
  BY DEF Finished, Due
<1>2. PICK W \in SUBSET ({Me} \union DOMAIN destMap) : Followed(h, W)
  BY DEF LoopInv, EachHopFollowed, Finished
<1>3. QED
  BY <1>1, <1>2 DEF Followed

LEMMA FoundIsDistance ==
  ASSUME LoopInv, Finished
  PROVE  IsDistance(Found, Node, graph, Me, Inf + 1)
<1>1. /\ IsGraph(graph, Node) /\ Me \in Node /\ Inf \in Nat
      /\ DOMAIN destMap \subseteq Node \ {Me}
      /\ \A v \in Node : /\ visited[v] \in Nat /\ visited[v] =< Inf
                         /\ Reach(v) \in Nat /\ Reach(v) =< Inf
      /\ Found \in [Node -> 0..(Inf + 1)]
      /\ \A v \in Node : Found[v] =< Inf <=> v = Me \/ v \in DOMAIN destMap
      /\ \A v \in Node : Found[v] =< Inf => Found[v] = Reach(v)
  BY AtEnd
<1>2. Found[Me] = 0
  BY <1>1 DEF Found
<1>3. \A v \in Node : Found[v] \in Nat /\ Found[v] =< Inf + 1
  BY <1>1
<1>4. BagToSet(pq) = {}
  BY DEF Finished
<1>5. ASSUME NEW u \in Node, NEW v \in Node, <<u, v>> \in DOMAIN graph,
             u = Me \/ u \in DOMAIN destMap, Reach(u) + graph[<<u, v>>] =< Inf
      PROVE  v = Me \/ v \in DOMAIN destMap
  <2>1. graph[<<u, v>>] \in Nat
    BY <1>1, <1>5 DEF IsGraph
  <2> SUFFICES ASSUME v # Me, v \notin DOMAIN destMap PROVE FALSE
    OBVIOUS
  <2>2. visited[v] = Inf /\ Reach(v) = Inf
    BY <1>1, <1>4 DEF LoopInv, Reached, Reach
  <2>3. CASE u = Me
    <3>1. Reach(u) = 0
      BY <2>3 DEF Reach
    <3>2. graph[<<Me, v>>] =< Reach(v) /\ <<Me, v>> \in DOMAIN graph
      BY <1>5, <2>1, <2>2, <2>3, <3>1
    <3>3. QED
      BY <3>2, AllFollowed
  <2>4. CASE u \in DOMAIN destMap
    <3> DEFINE h == destMap[u].next
    <3>1. h \in Node
      BY <2>4 DEF LoopInv, TypeOK, Route
    <3>2. <<Me, h>> \in DOMAIN graph
      BY <2>4 DEF LoopInv, HopsOnTheWay, OnTheWay, BeginsWith
    <3>3. Reach(u) + graph[<<u, v>>] =< Reach(v)
      BY <1>5, <2>2
    <3>4. PICK W \in SUBSET ({Me} \union DOMAIN destMap) :
             /\ \A x \in DOMAIN destMap : destMap[x].next = h => x \in W
             /\ \A x \in W, y \in Node :
                  <<x, y>> \in DOMAIN graph /\ Reach(x) + graph[<<x, y>>] =< Reach(y) => y \in W
      <4> HIDE DEF h
      <4>1. QED
        BY <3>1, <3>2, AllFollowed
    <3>5. u \in W
      BY <2>4, <3>4
    <3>6. v \in W
      BY <1>5, <3>3, <3>4, <3>5
    <3>7. QED
      BY <3>6
  <2>5. QED
    BY <1>5, <2>3, <2>4
<1>6. ASSUME NEW l \in DOMAIN graph PROVE Found[l[2]] =< Found[l[1]] + graph[l]
  <2> DEFINE u == l[1]
             v == l[2]
  <2>1. u \in Node /\ v \in Node /\ l = <<u, v>> /\ graph[l] \in Nat
    BY <1>1, LinkFacts
  <2>2. \/ \A x \in Node : <<u, x>> \in DOMAIN graph => visited[x] =< Reach(u) + graph[<<u, x>>]
        \/ \E e \in BagToSet(pq) : e.node = u /\ e.cost = Reach(u)
    BY <2>1 DEF LoopInv, Pending
  <2>3. visited[v] =< Reach(u) + graph[l]
    BY <1>4, <2>1, <2>2
  <2> HIDE DEF u, v
  <2>4. Found[u] \in Nat /\ Found[v] \in Nat /\ Found[u] =< Inf + 1 /\ Found[v] =< Inf + 1
    BY <1>3, <2>1
  <2>5. Reach(u) \in Nat /\ Reach(v) \in Nat /\ visited[v] \in Nat /\ Reach(v) =< visited[v]
    BY <1>1, <2>1 DEF Reach
  <2>6. CASE ~(Found[u] =< Inf)
    BY <1>1, <2>1, <2>4, <2>6 DEF u, v
  <2>7. CASE Found[u] =< Inf /\ Found[v] =< Inf
    <3>1. Found[u] = Reach(u) /\ Found[v] = Reach(v)
      BY <1>1, <2>1, <2>7
    <3>2. QED
      BY <2>1, <2>3, <2>5, <3>1 DEF u, v
  <2>8. CASE Found[u] =< Inf /\ ~(Found[v] =< Inf)
    <3>1. Found[u] = Reach(u) /\ (u = Me \/ u \in DOMAIN destMap) /\ ~(v = Me \/ v \in DOMAIN destMap)
      BY <1>1, <2>1, <2>8
    <3>2. ~(Reach(u) + graph[l] =< Inf)
      BY <1>5, <2>1, <3>1
    <3>3. QED
      BY <1>1, <2>1, <2>4, <2>5, <3>1, <3>2 DEF u, v
  <2>9. QED
    BY <2>6, <2>7, <2>8
<1>7. ASSUME NEW f \in Potentials(Node, graph, Me, Inf + 1), NEW v \in Node
      PROVE  f[v] =< Found[v]
  <2>1. f \in [Node -> 0..(Inf + 1)] /\ f[Me] = 0
    BY DEF Potentials
  <2>2. f[v] =< visited[v] \/ (visited[v] = Inf /\ v \notin DOMAIN destMap)
    BY DEF LoopInv, NeverTooCheap
  <2>3. QED
    BY <1>1, <2>1, <2>2 DEF Found
<1>8. QED
  BY <1>1, <1>2, <1>6, <1>7 DEF IsDistance, Potentials

\* The next hop of v begins a cheapest way.
LEMMA NextBegins ==
  ASSUME LoopInv, Finished, NEW v \in DOMAIN destMap, NEW h, h = destMap[v].next,
         NEW e, IsDistance(e, Node, graph, h, Inf + 1)
  PROVE  h \in Node /\ <<Me, h>> \in DOMAIN graph /\ graph[<<Me, h>>] + e[v] = Found[v]
<1>1. /\ IsGraph(graph, Node) /\ Me \in Node /\ Inf + 1 \in Nat /\ v \in Node /\ Inf \in Nat
      /\ Found \in [Node -> 0..(Inf + 1)] /\ Found[v] = visited[v]
  <2>1. DOMAIN destMap \subseteq Node \ {Me}
    BY AtEnd
  <2>2. QED
    BY <2>1, AtEnd DEF Found
<1>2. h \in Node
  BY DEF LoopInv, TypeOK, Route
<1>3. OnTheWay(h, v, visited[v])
  BY DEF LoopInv, HopsOnTheWay, Settled
<1>4. <<Me, h>> \in DOMAIN graph
  BY <1>3 DEF OnTheWay, BeginsWith
<1>5. graph[<<Me, h>>] + e[v] =< Found[v]
  BY <1>1, <1>3 DEF OnTheWay, BeginsWith, IsDistance
<1>6. Found[v] =< graph[<<Me, h>>] + e[v]
  BY <1>1, <1>2, <1>4, FoundIsDistance, Triangle
<1>7. graph[<<Me, h>>] \in Nat /\ e[v] \in Nat /\ Found[v] \in Nat
  <2>1. e[v] \in Nat
    BY <1>1, <1>2, DistanceFacts
  <2>2. QED
    BY <1>1, <1>4, <2>1 DEF IsGraph
<1>8. QED
  BY <1>2, <1>4, <1>5, <1>6, <1>7

\* It is not above any other neighbour that begins a cheapest way: the nodes that
\* are not expanded over h could all be farther from h.
LEMMA NextIsLeast ==
  ASSUME LoopInv, Finished, NEW v \in DOMAIN destMap,
         NEW h \in Node, <<Me, h>> \in DOMAIN graph,
         NEW e, IsDistance(e, Node, graph, h, Inf + 1),
         graph[<<Me, h>>] + e[v] = Found[v]
  PROVE  destMap[v].next =< h
<1> DEFINE c == graph[<<Me, h>>]
<1>1. /\ IsGraph(graph, Node) /\ Me \in Node /\ Inf \in Nat /\ Inf + 1 \in Nat
      /\ DOMAIN destMap \subseteq Node \ {Me} /\ v \in Node /\ v # Me
      /\ \A u \in Node : Reach(u) \in Nat /\ Reach(u) =< Inf
      /\ \A u \in Node : Found[u] =< Inf <=> u = Me \/ u \in DOMAIN destMap
      /\ \A u \in Node : Found[u] =< Inf => Found[u] = Reach(u)
  <2>1. DOMAIN destMap \subseteq Node \ {Me} /\ Inf \in Nat
    BY AtEnd
  <2>2. QED
    BY <2>1, AtEnd
<1>2. /\ \A u \in Node : Found[u] \in Nat /\ Found[u] =< Inf + 1
      /\ \A l \in DOMAIN graph : Found[l[2]] =< Found[l[1]] + graph[l]
  BY <1>1, FoundIsDistance, DistanceFacts
<1>3. e[h] = 0 /\ \A u \in Node : e[u] \in Nat
  BY <1>1, DistanceFacts
<1>4. c \in Nat
  BY <1>1 DEF IsGraph
<1>5. \A u \in Node : Found[u] =< c + e[u]
  BY <1>1, FoundIsDistance, Triangle
<1>6. PICK W \in SUBSET ({Me} \union DOMAIN destMap) :
         /\ \A u \in DOMAIN destMap : u \in W => destMap[u].next =< h
         /\ c =< Reach(h) => h \in W
         /\ \A u \in W, x \in Node :
              <<u, x>> \in DOMAIN graph /\ Reach(u) + graph[<<u, x>>] =< Reach(x) => x \in W
  BY AllFollowed
<1> DEFINE B == {u \in Node : c + e[u] = Found[u] /\ Found[u] =< Inf /\ u \notin W}
<1> HIDE DEF c
<1>7. h \notin B
  BY <1>1, <1>3, <1>4, <1>6
<1>8. B = {}
  <2> SUFFICES ASSUME B # {} PROVE FALSE
    OBVIOUS
  <2>1. B \in SUBSET Node /\ \A u \in B : e[u] < Inf + 1
    BY <1>1, <1>2, <1>3, <1>4
  <2>2. PICK l \in DOMAIN graph : l[1] \notin B /\ l[2] \in B /\ e[l[2]] = e[l[1]] + graph[l]
    <3> HIDE DEF B
    <3>1. QED
      BY <1>1, <1>7, <2>1, Entered
  <2>3. l[1] \in Node /\ l[2] \in Node /\ l = <<l[1], l[2]>> /\ graph[l] \in Nat
    BY <1>1, LinkFacts
  <2>4. c + e[l[2]] = Found[l[2]] /\ Found[l[2]] =< Inf /\ l[2] \notin W
    BY <2>2
  <2>5. Found[l[2]] =< Found[l[1]] + graph[l] /\ Found[l[1]] =< c + e[l[1]]
    BY <1>2, <1>5, <2>3
  <2>6. /\ e[l[1]] \in Nat /\ e[l[2]] \in Nat /\ Found[l[1]] \in Nat /\ Found[l[2]] \in Nat
    BY <1>2, <1>3, <2>3
  <2>7. c + e[l[1]] = Found[l[1]] /\ Found[l[1]] + graph[l] = Found[l[2]] /\ Found[l[1]] =< Inf
    BY <1>1, <1>4, <2>2, <2>3, <2>4, <2>5, <2>6
  <2>8. l[1] \in W
    BY <2>2, <2>3, <2>7
  <2>9. Found[l[1]] = Reach(l[1]) /\ Found[l[2]] = Reach(l[2])
    BY <1>1, <2>3, <2>4, <2>7
  <2>10. <<l[1], l[2]>> \in DOMAIN graph /\ Reach(l[1]) + graph[<<l[1], l[2]>>] =< Reach(l[2])
    BY <2>3, <2>6, <2>7, <2>9
  <2>11. QED
    BY <1>6, <2>3, <2>4, <2>8, <2>10
<1>9. Found[v] =< Inf /\ c + e[v] = Found[v]
  BY <1>1 DEF c
<1>10. v \in W
  BY <1>1, <1>8, <1>9
<1>11. QED
  BY <1>6, <1>10

\* When the queue is empty, destMap is the table of routes: the least costs, and
\* of the neighbours with which a cheapest way begins the least, in whatever order
\* equal costs left the queue.
THEOREM LeastRoutes == Spec => []Result
<1>1. LoopInv => Result
  <2> SUFFICES ASSUME LoopInv, Finished
               PROVE  destMap = RouteTable(Node, graph, Me, Inf)
    BY DEF Result
  <2> DEFINE D(s) == Distance(Node, graph, s, Inf)
             F(v) == FirstHops(Node, graph, Me, v, Inf)
  <2>1. /\ IsGraph(graph, Node) /\ IsFiniteSet(Node) /\ Node \in SUBSET Nat
        /\ Me \in Node /\ Inf \in Nat /\ Inf + 1 \in Nat
        /\ DOMAIN destMap \subseteq Node \ {Me}
        /\ \A v \in Node : Found[v] =< Inf <=> v = Me \/ v \in DOMAIN destMap
    <3>1. Inf \in Nat
      BY AtEnd
    <3>2. QED
      BY <3>1, AtEnd
  <2>2. \A s \in Node : IsDistance(D(s), Node, graph, s, Inf + 1)
    BY <2>1, DistanceIsGreatest
  <2>3. D(Me) = Found
    <3> HIDE DEF D
    <3>1. QED
      BY <2>1, <2>2, FoundIsDistance, DistanceUnique
  <2>4. \A v, h \in Node :
           h \in F(v) <=> <<Me, h>> \in DOMAIN graph /\ graph[<<Me, h>>] + D(h)[v] = Found[v]
    BY <2>3 DEF FirstHops
  <2>5. \A v \in Node : F(v) \in SUBSET Nat
    BY <2>1 DEF FirstHops
  <2>6. RouteTable(Node, graph, Me, Inf) =
           [v \in {u \in Node \ {Me} : Found[u] =< Inf} |-> [next |-> Min(F(v)), cost |-> Found[v]]]
    BY <2>3 DEF RouteTable
  <2>7. {u \in Node \ {Me} : Found[u] =< Inf} = DOMAIN destMap
    BY <2>1
  <2> HIDE DEF D, F
  <2>8. ASSUME NEW v \in DOMAIN destMap
        PROVE  destMap[v] = [next |-> Min(F(v)), cost |-> Found[v]]
    <3>1. v \in Node /\ v # Me
      BY <2>1
    <3>2. PICK h : h = destMap[v].next
      OBVIOUS
    <3>3. h \in Node
      BY <3>2 DEF LoopInv, TypeOK, Route
    <3>4. <<Me, h>> \in DOMAIN graph /\ graph[<<Me, h>>] + D(h)[v] = Found[v]
      BY <2>2, <3>2, <3>3, NextBegins
    <3>5. h \in F(v)
      BY <2>4, <3>1, <3>3, <3>4
    <3>6. ASSUME NEW k \in F(v), k \in Node PROVE h =< k
      <4>1. <<Me, k>> \in DOMAIN graph /\ graph[<<Me, k>>] + D(k)[v] = Found[v]
        BY <2>4, <3>1, <3>6
      <4>2. QED
        BY <2>2, <3>2, <3>6, <4>1, NextIsLeast
    <3>7. Min(F(v)) \in F(v) /\ Min(F(v)) =< h
      BY <2>5, <3>1, <3>5, MinFacts
    <3>8. F(v) \subseteq Node
      BY DEF F, FirstHops
    <3>9. h =< Min(F(v)) /\ Min(F(v)) \in Nat /\ h \in Nat
      BY <2>1, <3>3, <3>6, <3>7, <3>8
    <3>10. Min(F(v)) = h
      BY <3>7, <3>9
    <3>11. destMap[v].cost = Found[v]
      BY <3>1 DEF LoopInv, Settled, Found
    <3>12. destMap[v] \in Route
      BY DEF LoopInv, TypeOK
    <3>13. destMap[v] = [next |-> destMap[v].next, cost |-> destMap[v].cost]
      BY <3>12 DEF Route
    <3>14. QED
      BY <3>2, <3>10, <3>11, <3>13
  <2>9. destMap = [v \in DOMAIN destMap |-> destMap[v]]
    BY DEF LoopInv, TypeOK
  <2>10. QED
    BY <2>6, <2>7, <2>8, <2>9
<1>2. QED
  BY <1>1, LoopCorrect, PTL
=============================================================================
