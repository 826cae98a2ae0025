-------------------------- MODULE ForwardingProofs --------------------------
(***************************************************************************)
(* Theorems about Forwarding: the data packets do not disturb the          *)
(* link-state half, they go to neighbours that are heard, and they do not  *)
(* go in circles among routers that agree.                                 *)
(***************************************************************************)
EXTENDS Forwarding, LinkStateProofs

-----------------------------------------------------------------------------
(***************************************************************************)
(* Routings in general.                                                    *)
(***************************************************************************)
\* The next hop of a cheapest way is nearer to the destination, by the cost of
\* the link to it, and has a route of its own.
LEMMA NextHopIsNearer ==
  ASSUME NEW V, NEW g, NEW s \in V, NEW limit \in Nat,
         NEW table, IsRouting(table, V, g, s, limit),
         NEW d \in DOMAIN table,
         NEW h \in V \ {d}, table[d].next = h,
         NEW theirs, IsRouting(theirs, V, g, h, limit),
         g[<<s, h>>] \in Nat, g[<<s, h>>] > 0
  PROVE  d \in DOMAIN theirs /\ theirs[d].cost < table[d].cost
<1>1. PICK near \in [V -> 0..limit] :
         /\ DOMAIN table \subseteq V \ {s}
         /\ table[d].cost = near[d]
         /\ BeginsWith(h, d, near[d], V, g, s, limit)
  BY DEF IsRouting
<1>2. PICK far \in [V -> 0..limit] :
         /\ far \in Potentials(V, g, h, limit)
         /\ {v \in V \ {h} : far[v] < limit} \subseteq DOMAIN theirs
         /\ \A v \in DOMAIN theirs : theirs[v].cost = far[v]
  BY DEF IsRouting, IsDistance
<1>3. d \in V \ {h}
  BY <1>1
<1>4. g[<<s, h>>] + far[d] =< near[d]
  BY <1>1, <1>2 DEF BeginsWith
<1>5. near[d] \in 0..limit /\ far[d] \in 0..limit
  BY <1>3
<1>6. far[d] < near[d] /\ far[d] < limit
  BY <1>4, <1>5
<1>7. d \in DOMAIN theirs
  BY <1>2, <1>3, <1>6
<1>8. QED
  BY <1>1, <1>2, <1>6, <1>7

\* The first hop of a route is a link of the graph.
LEMMA FirstHopIsLink ==
  ASSUME NEW V, NEW g, NEW s, NEW limit,
         NEW table, IsRouting(table, V, g, s, limit), NEW d \in DOMAIN table
  PROVE  <<s, table[d].next>> \in DOMAIN g
  BY DEF IsRouting, BeginsWith

-----------------------------------------------------------------------------
(***************************************************************************)
(* The graphs of the routers' tables are those Routes is known for.        *)
(***************************************************************************)
LEMMA UpGraphType ==
  ASSUME NEW t \in Table, Fits(t)
  PROVE  /\ UpGraph(t) \in RouteGraphs
         /\ DOMAIN UpGraph(t) = {l \in Link : t[l] # NoLSA /\ t[l].up}
         /\ \A l \in DOMAIN UpGraph(t) : l \in Link /\ UpGraph(t)[l] = CostOf(l)
<1> DEFINE E == {l \in Link : t[l] # NoLSA /\ t[l].up}
<1>1. ASSUME NEW l \in E PROVE t[l].cost = CostOf(l)
  <2> DEFINE x == t[l]
  <2>1. x = Content(l, x.seq)
    BY DEF Fits
  <2>2. Content(l, x.seq).cost = CostOf(l)
    BY DEF Content
  <2> HIDE DEF x
  <2>3. x.cost = CostOf(l)
    BY <2>1, <2>2, Zenon
  <2>4. QED
    BY <2>3 DEF x
<1>2. UpGraph(t) = [l \in E |-> CostOf(l)]
  BY <1>1 DEF UpGraph
<1>3. E \in SUBSET Link
  OBVIOUS
<1> HIDE DEF E
<1>4. UpGraph(t) \in RouteGraphs
  BY <1>2, <1>3 DEF RouteGraphs
<1>5. DOMAIN UpGraph(t) = E /\ \A l \in E : UpGraph(t)[l] = CostOf(l)
  BY <1>2
<1>6. QED
  BY <1>3, <1>4, <1>5 DEF E

LEMMA RoutesAtFacts ==
  ASSUME NEW t \in Table, Fits(t), NEW i \in Node
  PROVE  IsRouting(RoutesAt(i, t), Node, UpGraph(t), i, Limit)
  BY UpGraphType, RoutesAssumption DEF RoutesAt

LEMMA AliveLinks == \A i, j : Alive(i, j) => <<i, j>> \in Link
<1> SUFFICES ASSUME NEW i, NEW j, Alive(i, j) PROVE <<i, j>> \in Link
  OBVIOUS
<1>1. PICK l \in Link : {i, j} = {l[1], l[2]}
  BY WireAssumption DEF Alive
<1>2. l[1] \in Node /\ l[2] \in Node /\ l[1] # l[2]
  BY LinkPairs DEF Link
<1>3. i \in Node /\ j \in Node /\ i # j
  BY <1>1, <1>2
<1>4. QED
  BY <1>3 DEF Link

-----------------------------------------------------------------------------
\* Data packets do to the tables only what LinkState lets them do, so all its
\* theorems hold of the whole router.
THEOREM ForwardingKeepsLinkState == ForwardSpec => Spec
<1>1. ForwardInit => Init
  BY DEF ForwardInit
<1>2. [ForwardNext]_fvars => [Next]_vars
  <2> SUFFICES ASSUME ForwardNext \/ UNCHANGED fvars
               PROVE  Next \/ UNCHANGED vars
    OBVIOUS
  <2>1. CASE UNCHANGED fvars
    BY <2>1 DEF fvars
  <2>2. CASE \E f \in Flow : Send(f[1], f[2])
    BY <2>2, FlowAssumption DEF Send, Next
  <2>3. ASSUME NEW p \in data, Forward(p) \/ DuplicateData(p)
        PROVE  Next
    <3>1. ReceiveMend(p.to, p.from)
      BY <2>3 DEF Forward, DuplicateData
    <3>2. <<p.to, p.from>> \in Link
      BY <3>1, AliveLinks DEF ReceiveMend
    <3>3. QED
      BY <3>1, <3>2 DEF Next
  <2>4. ASSUME NEW p \in data, LoseData(p)
        PROVE  UNCHANGED vars
    BY <2>4 DEF LoseData
  <2>5. QED
    BY <2>1, <2>2, <2>3, <2>4 DEF ForwardNext
<1>3. QED
  BY <1>1, <1>2, PTL DEF ForwardSpec, Spec

-----------------------------------------------------------------------------
LEMMA CostType == \A l \in Link : CostOf(l) \in Nat
  BY CostFileAssumption, LinkPairs DEF CostOf, IsListed

LEMMA TablesFit ==
  ASSUME TypeOK, SeqFixesContent
  PROVE  \A i \in Node : lsdb[i] \in Table /\ Fits(lsdb[i])
  BY DEF TypeOK, SeqFixesContent, ContentBySeq, Fits, Held

\* Routers that agree on the links never send a packet in a circle: with every
\* hop the destination gets nearer.  Costs of zero are excluded; they would
\* also keep dijkstra() from ending.
THEOREM NoLoopsInAgreement ==
  ASSUME ~TornReads, \A l \in Link : CostOf(l) > 0
  PROVE  ForwardSpec => []RoutesDescend
<1>1. TypeOK /\ SeqFixesContent => RoutesDescend
  <2> SUFFICES ASSUME TypeOK, SeqFixesContent, NEW i \in Node, NEW n \in Node, NEW d \in Node,
                      UpGraph(lsdb[i]) = UpGraph(lsdb[n]),
                      d \in DOMAIN RoutesAt(i, lsdb[i]),
                      RoutesAt(i, lsdb[i])[d].next = n,
                      n # d
               PROVE  /\ d \in DOMAIN RoutesAt(n, lsdb[n])
                      /\ RoutesAt(n, lsdb[n])[d].cost < RoutesAt(i, lsdb[i])[d].cost
    BY DEF RoutesDescend
  <2> DEFINE g == UpGraph(lsdb[i])
             mine == RoutesAt(i, lsdb[i])
             theirs == RoutesAt(n, lsdb[n])
  <2>1. /\ lsdb[i] \in Table /\ Fits(lsdb[i])
        /\ lsdb[n] \in Table /\ Fits(lsdb[n])
    BY TablesFit
  <2>2. IsRouting(mine, Node, g, i, Limit) /\ IsRouting(theirs, Node, g, n, Limit)
    BY <2>1, RoutesAtFacts
  <2>3. \A l \in DOMAIN g : l \in Link /\ g[l] = CostOf(l)
    BY <2>1, UpGraphType
  <2>4. d \in DOMAIN mine /\ mine[d].next = n
    OBVIOUS
  <2> HIDE DEF g, mine, theirs
  <2>5. <<i, n>> \in DOMAIN g
    BY <2>2, <2>4, FirstHopIsLink
  <2>6. <<i, n>> \in Link /\ CostOf(<<i, n>>) \in Nat
    BY <2>3, <2>5, CostType
  <2>7. g[<<i, n>>] \in Nat /\ g[<<i, n>>] > 0
    BY <2>3, <2>5, <2>6
  <2>8. d \in DOMAIN theirs /\ theirs[d].cost < mine[d].cost
    BY <2>2, <2>4, <2>7, LimitAssumption, NextHopIsNearer
  <2>9. QED
    BY <2>8 DEF mine, theirs
<1>2. QED
  BY <1>1, ForwardingKeepsLinkState, TypeCorrect, NumberFixesLSA, PTL

-----------------------------------------------------------------------------
\* What a handler sends goes over a link that the check has just left up.
LEMMA SentIsHeard ==
  ASSUME TypeOK, SeqFixesContent, NEW i \in Node, NEW from \in SUBSET Node, NEW d,
         NEW p \in Sent(i, d, Arrival(i, from))
  PROVE  p.from = i /\ p.to \in heard[i] \union from
<1> DEFINE t == Arrival(i, from)
<1>1. t \in Table /\ Fits(t)
  BY ArrivalFacts, ArrivalContent
<1>2. d \in DOMAIN RoutesAt(i, t) /\ p = [from |-> i, to |-> RoutesAt(i, t)[d].next, dest |-> d]
  BY DEF Sent, Onward
<1> HIDE DEF t
<1>3. p.from = i /\ p.to = RoutesAt(i, t)[d].next
  BY <1>2
<1>4. <<i, p.to>> \in DOMAIN UpGraph(t)
  BY <1>1, <1>2, <1>3, RoutesAtFacts, FirstHopIsLink
<1>5. <<i, p.to>> \in Link /\ t[<<i, p.to>>] # NoLSA /\ t[<<i, p.to>>].up
  BY <1>1, <1>4, UpGraphType
<1> DEFINE k == <<i, p.to>>
           isHeard == p.to \in heard[i] \union from
<1>6. lsdb[i][k] # NoLSA /\ t[k] = Checked(lsdb[i][k], isHeard)
  BY <1>5, ArrivalFacts DEF t
<1>7. lsdb[i][k] \in LSA /\ isHeard \in BOOLEAN
  BY <1>5, <1>6 DEF TypeOK, Table
<1>8. t[k].up
  BY <1>5
<1> HIDE DEF k, isHeard
<1>9. Checked(lsdb[i][k], isHeard).up = isHeard
  BY <1>7, CheckedFacts
<1>10. isHeard
  BY <1>6, <1>8, <1>9, Zenon
<1>11. QED
  BY <1>3, <1>10 DEF isHeard

StepHeard == \A p \in data' \ data : p.to \in heard'[p.from]

LEMMA HeardStep ==
  ASSUME TypeOK, SeqFixesContent, [ForwardNext]_fvars
  PROVE  StepHeard
<1>1. ASSUME NEW i \in Node, NEW from \in SUBSET Node, NEW d,
             data' \subseteq data \union Sent(i, d, Arrival(i, from)),
             heard' = [heard EXCEPT ![i] = @ \union from]
      PROVE  StepHeard
  <2> SUFFICES ASSUME NEW p \in data' \ data
               PROVE  p.to \in heard'[p.from]
    BY DEF StepHeard
  <2>1. p \in Sent(i, d, Arrival(i, from))
    BY <1>1
  <2>2. p.from = i /\ p.to \in heard[i] \union from
    BY <2>1, SentIsHeard
  <2>3. heard'[i] = heard[i] \union from
    BY <1>1 DEF TypeOK
  <2>4. QED
    BY <2>2, <2>3
<1>2. CASE UNCHANGED data
  BY <1>2 DEF StepHeard
<1>3. ASSUME NEW f \in Flow, Send(f[1], f[2])
      PROVE  StepHeard
  <2>1. f[1] \in Node
    BY FlowAssumption
  <2>2. /\ data' = data \union Sent(f[1], f[2], Arrival(f[1], {}))
        /\ heard' = [heard EXCEPT ![f[1]] = @ \union {}]
    BY <1>3 DEF Send, ReceiveSend, Handled
  <2>3. QED
    BY <1>1, <2>1, <2>2
<1>4. ASSUME NEW p \in data, Forward(p) \/ DuplicateData(p)
      PROVE  StepHeard
  <2>1. ReceiveMend(p.to, p.from)
    BY <1>4 DEF Forward, DuplicateData
  <2>2. p.to \in Node /\ p.from \in Node
    BY <2>1, AliveLinks DEF ReceiveMend, Link
  <2>3. heard' = [heard EXCEPT ![p.to] = @ \union {p.from}]
    BY <2>1 DEF ReceiveMend, Handled
  <2>4. data' \subseteq data \union Sent(p.to, p.dest, Arrival(p.to, {p.from}))
    BY <1>4 DEF Forward, DuplicateData, Handle
  <2>5. QED
    BY <1>1, <2>2, <2>3, <2>4
<1>5. ASSUME NEW p \in data, LoseData(p)
      PROVE  StepHeard
  BY <1>5 DEF LoseData, StepHeard
<1>6. QED
  BY <1>2, <1>3, <1>4, <1>5 DEF ForwardNext, fvars

\* No packet is handed to a neighbour that has been silent for 700 ms.
THEOREM NextHopsAreHeard == ASSUME ~TornReads PROVE ForwardSpec => NextHopHeard
<1>1. TypeOK /\ SeqFixesContent /\ [ForwardNext]_fvars => [StepHeard]_fvars
  BY HeardStep
<1>2. QED
  BY <1>1, ForwardingKeepsLinkState, TypeCorrect, NumberFixesLSA, PTL
     DEF ForwardSpec, NextHopHeard, StepHeard

-----------------------------------------------------------------------------
LEMMA SentTyped ==
  ASSUME NEW i, NEW d \in Node, NEW t
  PROVE  Sent(i, d, t) \subseteq DataPacket
<1> SUFFICES ASSUME NEW p \in Sent(i, d, t) PROVE p \in DataPacket
  OBVIOUS
<1> DEFINE h == RoutesAt(i, t)[d].next
<1>1. p = [from |-> i, to |-> h, dest |-> d] /\ Alive(i, p.to)
  BY DEF Sent, Onward
<1> HIDE DEF h
<1>2. i \in Node /\ h \in Node
  BY <1>1, AliveLinks DEF Link
<1>3. QED
  BY <1>1, <1>2 DEF DataPacket

LEMMA DataTyped ==
  ASSUME data \subseteq DataPacket, [ForwardNext]_fvars
  PROVE  data' \subseteq DataPacket
<1>1. CASE UNCHANGED data
  BY <1>1
<1>2. ASSUME NEW f \in Flow, Send(f[1], f[2])
      PROVE  data' \subseteq DataPacket
  <2>1. f[2] \in Node
    BY FlowAssumption
  <2>2. QED
    BY <1>2, <2>1, SentTyped DEF Send
<1>3. ASSUME NEW p \in data, Forward(p) \/ DuplicateData(p)
      PROVE  data' \subseteq DataPacket
  <2>1. p.dest \in Node
    BY DEF DataPacket
  <2>2. QED
    BY <1>3, <2>1, SentTyped DEF Forward, DuplicateData, Handle
<1>4. ASSUME NEW p \in data, LoseData(p)
      PROVE  data' \subseteq DataPacket
  BY <1>4 DEF LoseData
<1>5. QED
  BY <1>1, <1>2, <1>3, <1>4 DEF ForwardNext, fvars

\* The packets that handlers send go from router to router to a router, whatever
\* the routes were computed from, torn reads included.
THEOREM ForwardTypes == ForwardSpec => []ForwardTypeOK
<1>1. ForwardInit => data \subseteq DataPacket
  BY DEF ForwardInit
<1>2. data \subseteq DataPacket /\ [ForwardNext]_fvars => (data \subseteq DataPacket)'
  BY DataTyped
<1>3. ForwardSpec => [](data \subseteq DataPacket)
  BY <1>1, <1>2, PTL DEF ForwardSpec
<1>4. QED
  BY <1>3, ForwardingKeepsLinkState, TypeCorrect, PTL DEF ForwardTypeOK
=============================================================================
