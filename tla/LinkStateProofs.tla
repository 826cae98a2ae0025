-------------------------- MODULE LinkStateProofs --------------------------
(***************************************************************************)
(* Theorems about LinkState for every network, every cost file and every   *)
(* bound on the faults and on the packets in flight.                       *)
(***************************************************************************)
EXTENDS LinkState, TLAPS

-----------------------------------------------------------------------------
(***************************************************************************)
(* The operators on tables.                                                *)
(***************************************************************************)
LEMMA LinkPairs == \A l \in Link : l[1] \in Node /\ l[2] \in Node /\ l = <<l[1], l[2]>>
  BY DEF Link

\* A link listed in the cost file, or learned, starts with an LSA.
LEMMA BootTableType == \A i \in Node : BootTable(i) \in Table
<1>1. ASSUME NEW i \in Node, NEW l \in Link, l[1] = i, l[2] \in DOMAIN CostFile[i]
      PROVE  Listed(i, l[2]) \in LSA
  BY <1>1, CostFileAssumption DEF Listed, LSA
<1>2. QED
  BY <1>1 DEF BootTable, Table

LEMMA LearnedType == Learned \in LSA
  BY DEF Learned, LSA

\* A link that changes sides gets the next number.
LEMMA FlipFacts ==
  ASSUME NEW x \in LSA
  PROVE  /\ Flip(x) \in LSA
         /\ Flip(x).cost = x.cost
         /\ Flip(x).seq = x.seq + 1
         /\ Flip(x).up = ~x.up
<1>1. x.up \in BOOLEAN /\ x.seq + 1 \in Int /\ x.cost \in Nat
  BY DEF LSA
<1>2. (~x.up) \in BOOLEAN
  BY <1>1, Zenon
<1>3. QED
  BY <1>1, <1>2, Zenon DEF Flip, LSA

\* The check changes an LSA into an LSA, whose number is not smaller; the LSA
\* is the old one or has changed sides.
LEMMA CheckedFacts ==
  ASSUME NEW x \in LSA, NEW b \in BOOLEAN
  PROVE  /\ Checked(x, b) \in LSA
         /\ Checked(x, b).up = b
         /\ Checked(x, b) = x \/ Checked(x, b) = Flip(x)
         /\ x.seq =< Checked(x, b).seq
         /\ Checked(x, b).seq = x.seq => Checked(x, b) = x
<1>1. x.up \in BOOLEAN /\ x.seq \in Int
  BY DEF LSA
<1>2. CASE x.up = b
  BY <1>1, <1>2 DEF Checked
<1>3. CASE x.up # b
  <2>1. Checked(x, b) = Flip(x)
    BY <1>3 DEF Checked
  <2>2. Flip(x).up = b
    BY <1>1, <1>3, FlipFacts, Zenon
  <2>3. QED
    BY <1>1, <2>1, <2>2, FlipFacts
<1>4. QED
  BY <1>2, <1>3

\* The check of a table touches own links only.
LEMMA RefreshFacts ==
  ASSUME NEW i \in Node, NEW t \in Table, NEW h \in SUBSET Node
  PROVE  /\ Refresh(i, t, h) \in Table
         /\ \A l \in Link :
              /\ l[1] # i => Refresh(i, t, h)[l] = t[l]
              /\ t[l] = NoLSA <=> Refresh(i, t, h)[l] = NoLSA
              /\ l[1] = i /\ t[l] # NoLSA =>
                    Refresh(i, t, h)[l] = Checked(t[l], l[2] \in h)
<1>1. ASSUME NEW l \in Link, t[l] # NoLSA
      PROVE  Checked(t[l], l[2] \in h) \in LSA
  <2>1. t[l] \in LSA
    BY <1>1 DEF Table
  <2>2. (l[2] \in h) \in BOOLEAN
    OBVIOUS
  <2>3. QED
    BY <2>1, <2>2, CheckedFacts
<1>2. QED
  BY <1>1, NoLSAAssumption DEF Refresh, Table

LEMMA InstallType ==
  ASSUME NEW t \in Table, NEW l \in Link, NEW x \in LSA
  PROVE  Install(t, l, x) \in Table
  BY DEF Install, Table

LEMMA LearnType ==
  ASSUME NEW t \in Table, NEW i \in Node, NEW j \in Node, i # j
  PROVE  Learn(i, j, t) \in Table
<1>1. <<i, j>> \in Link
  BY DEF Link
<1>2. QED
  BY <1>1, LearnedType DEF Learn, Table

\* A torn LSA has an old or a new number.
LEMMA TornType ==
  ASSUME NEW x \in LSA, NEW y \in LSA, NEW z \in Torn(x, y)
  PROVE  z \in LSA /\ (z.seq = x.seq \/ z.seq = y.seq)
  BY DEF Torn, LSA

\* Apart from the packets that were in flight, a torn packet is about an own
\* link of its sender and carries the old number or the new one.
LEMMA TornFacts ==
  ASSUME NEW i \in Node, NEW t \in Table, NEW u \in Table,
         \A l \in Link : t[l] = NoLSA <=> u[l] = NoLSA,
         NEW pool \in SUBSET Packet,
         net' \in SentTorn(i, t, u, pool)
  PROVE  /\ TornReads
         /\ net' \in SUBSET Packet
         /\ \A p \in net' \ pool :
              /\ p.link[1] = i
              /\ t[p.link] # NoLSA /\ u[p.link] # NoLSA
              /\ p.lsa.seq = t[p.link].seq \/ p.lsa.seq = u[p.link].seq
<1> DEFINE Packets == UNION {TornPackets(i, j, n, t, u) : j \in Node \ {i}, n \in Node \ {i}}
<1>1. TornReads /\ net' \in {pool \union {p} : p \in Packets}
  BY DEF SentTorn
<1>2. PICK q \in Packets : net' = pool \union {q}
  BY <1>1
<1>3. PICK j \in Node \ {i}, n \in Node \ {i} :
         /\ t[<<i, n>>] # NoLSA
         /\ q \in [from : {i}, to : {j}, link : {<<i, n>>},
                   lsa : Torn(t[<<i, n>>], u[<<i, n>>])]
  <2>1. PICK j \in Node \ {i}, n \in Node \ {i} : q \in TornPackets(i, j, n, t, u)
    BY <1>2
  <2>2. QED
    BY <2>1 DEF TornPackets
<1>4. <<i, n>> \in Link
  BY DEF Link
<1>5. t[<<i, n>>] \in LSA /\ u[<<i, n>>] \in LSA /\ u[<<i, n>>] # NoLSA
  BY <1>3, <1>4 DEF Table
<1>6. /\ q.from = i /\ q.to = j /\ q.link = <<i, n>>
      /\ q.lsa \in Torn(t[<<i, n>>], u[<<i, n>>])
      /\ q = [from |-> i, to |-> j, link |-> <<i, n>>, lsa |-> q.lsa]
  BY <1>3
<1>7. q.lsa \in LSA /\ (q.lsa.seq = t[<<i, n>>].seq \/ q.lsa.seq = u[<<i, n>>].seq)
  BY <1>5, <1>6, TornType
<1>8. q \in Packet
  BY <1>4, <1>6, <1>7 DEF Packet
<1>9. QED
  BY <1>1, <1>2, <1>3, <1>5, <1>6, <1>7, <1>8

-----------------------------------------------------------------------------
(***************************************************************************)
(* Type correctness.                                                       *)
(***************************************************************************)
LEMMA BootHeardType == \A i \in Node : BootHeard(i) \subseteq SUBSET Node
  BY BootAsHeardAssumption DEF BootHeard

\* The table at the arrival of a packet.
LEMMA ArrivalFacts ==
  ASSUME TypeOK, NEW i \in Node, NEW from \in SUBSET Node
  PROVE  /\ Arrival(i, from) \in Table
         /\ \A l \in Link :
              /\ l[1] # i => Arrival(i, from)[l] = lsdb[i][l]
              /\ lsdb[i][l] = NoLSA <=> Arrival(i, from)[l] = NoLSA
              /\ l[1] = i /\ lsdb[i][l] # NoLSA =>
                    Arrival(i, from)[l] =
                      Checked(lsdb[i][l], l[2] \in (heard[i] \union from))
<1>1. lsdb[i] \in Table /\ (heard[i] \union from) \in SUBSET Node
  BY DEF TypeOK
<1>2. QED
  BY <1>1, RefreshFacts DEF Arrival

LEMMA HandledType ==
  ASSUME TypeOK, NEW i \in Node, NEW from \in SUBSET Node,
         NEW table \in Table, NEW pool \in SUBSET Packet,
         Handled(i, from, table, pool)
  PROVE  /\ lsdb' \in [Node -> Table]
         /\ heard' \in [Node -> SUBSET Node]
         /\ net' \in SUBSET Packet
         /\ cut' \in SUBSET Wire
<1>1. lsdb' \in [Node -> Table]
  BY DEF TypeOK, Handled
<1>2. heard' \in [Node -> SUBSET Node]
  BY DEF TypeOK, Handled
<1>3. net' \in SUBSET Packet
  <2>1. CASE net' = pool
    BY <2>1
  <2>2. CASE net' \in SentTorn(i, lsdb[i], Arrival(i, from), pool)
    <3>1. lsdb[i] \in Table
      BY DEF TypeOK
    <3>2. QED
      BY <2>2, <3>1, ArrivalFacts, TornFacts
  <2>3. QED
    BY <2>1, <2>2 DEF Handled
<1>4. cut' \in SUBSET Wire
  BY DEF TypeOK, Handled
<1>5. QED
  BY <1>1, <1>2, <1>3, <1>4

LEMMA DeliverType ==
  ASSUME TypeOK, NEW p \in net, NEW pool \in SUBSET Packet, Deliver(p, pool)
  PROVE  /\ lsdb' \in [Node -> Table]
         /\ heard' \in [Node -> SUBSET Node]
         /\ net' \in SUBSET Packet
         /\ cut' \in SUBSET Wire
<1>1. p.to \in Node /\ p.from \in Node /\ p.link \in Link /\ p.lsa \in LSA
  BY DEF TypeOK, Packet
<1>2. Install(Arrival(p.to, {p.from}), p.link, p.lsa) \in Table
  BY <1>1, ArrivalFacts, InstallType
<1>3. QED
  BY <1>1, <1>2, HandledType DEF Deliver

LEMMA FaultType ==
  ASSUME TypeOK, NEW kind, Fault(kind)
  PROVE  faults' \in 0..MaxFaults
  BY BoundAssumption DEF TypeOK, Fault

LEMMA TypeInit == Init => TypeOK
<1> SUFFICES ASSUME Init PROVE TypeOK
  OBVIOUS
<1>2. lsdb \in [Node -> Table]
  BY BootTableType DEF Init
<1>3. heard \in [Node -> SUBSET Node]
  BY BootHeardType DEF Init
<1>4. QED
  BY <1>2, <1>3, BoundAssumption DEF Init, TypeOK

LEMMA TypeStep == TypeOK /\ [Next]_vars => TypeOK'
<1> SUFFICES ASSUME TypeOK, [Next]_vars PROVE TypeOK'
  OBVIOUS
<1>1. ASSUME NEW l \in Link, ReceiveHeartbeat(l[1], l[2]) PROVE TypeOK'
  <2>1. l[1] \in Node /\ l[2] \in Node /\ l[1] # l[2]
    BY DEF Link
  <2>2. Learn(l[1], l[2], Arrival(l[1], {l[2]})) \in Table
    BY <2>1, ArrivalFacts, LearnType
  <2>3. QED
    BY <1>1, <2>1, <2>2, HandledType DEF ReceiveHeartbeat, TypeOK
<1>2. ASSUME NEW l \in Link, ReceiveMend(l[1], l[2]) PROVE TypeOK'
  <2>1. l[1] \in Node /\ l[2] \in Node
    BY DEF Link
  <2>2. QED
    BY <1>2, <2>1, ArrivalFacts, HandledType DEF ReceiveMend, TypeOK
<1>3. ASSUME NEW i \in Node, ReceiveSend(i) PROVE TypeOK'
  BY <1>3, ArrivalFacts, HandledType DEF ReceiveSend, TypeOK
<1>4. ASSUME NEW p \in net, ReceiveLSA(p) PROVE TypeOK'
  <2>1. net \ {p} \in SUBSET Packet
    BY DEF TypeOK
  <2>2. QED
    BY <1>4, <2>1, DeliverType DEF ReceiveLSA, TypeOK
<1>5. ASSUME NEW p \in net, Lose(p) PROVE TypeOK'
  BY <1>5, FaultType DEF Lose, TypeOK
<1>6. ASSUME NEW p \in net, Duplicate(p) PROVE TypeOK'
  <2>1. net \in SUBSET Packet
    BY DEF TypeOK
  <2>2. QED
    BY <1>6, <2>1, DeliverType, FaultType DEF Duplicate, TypeOK
<1>7. ASSUME NEW c \in Link, NEW l \in Link, Announce(c[1], c[2], l) PROVE TypeOK'
  <2>1. c[1] \in Node /\ c[2] \in Node
    BY DEF Link
  <2>2. lsdb[c[1]][l] \in LSA
    BY <1>7, <2>1 DEF Announce, HeldLinks, TypeOK, Table
  <2>3. [from |-> c[1], to |-> c[2], link |-> l, lsa |-> lsdb[c[1]][l]] \in Packet
    BY <2>1, <2>2 DEF Packet
  <2>4. QED
    BY <1>7, <2>3 DEF Announce, TypeOK
<1>8. ASSUME NEW l \in Link, Silence(l[1], l[2]) PROVE TypeOK'
  <2>1. faults' \in 0..MaxFaults
    BY <1>8, FaultType DEF Silence, TypeOK
  <2>2. heard' \in [Node -> SUBSET Node]
    BY <1>8 DEF Silence, TypeOK
  <2>3. QED
    BY <1>8, <2>1, <2>2 DEF Silence, TypeOK
<1>9. ASSUME NEW w \in Wire, Cut(w) PROVE TypeOK'
  BY <1>9, FaultType DEF Cut, TypeOK
<1>10. ASSUME NEW w \in Wire, Mend(w) PROVE TypeOK'
  BY <1>10 DEF Mend, TypeOK
<1>11. ASSUME NEW i \in Node, Restart(i) PROVE TypeOK'
  <2>1. lsdb' \in [Node -> Table]
    BY <1>11, BootTableType DEF Restart, TypeOK
  <2>2. heard' \in [Node -> SUBSET Node]
    BY <1>11, BootHeardType DEF Restart, TypeOK
  <2>3. QED
    BY <1>11, <2>1, <2>2, FaultType DEF Restart, TypeOK
<1>12. ASSUME UNCHANGED vars PROVE TypeOK'
  BY <1>12 DEF vars, TypeOK
<1>13. QED
  BY <1>1, <1>2, <1>3, <1>4, <1>5, <1>6, <1>7, <1>8, <1>9, <1>10, <1>11, <1>12 DEF Next

\* Every table holds LSAs about links of the network only, and so does every
\* packet, whatever the environment does.
THEOREM TypeCorrect == Spec => []TypeOK
  BY TypeInit, TypeStep, PTL DEF Spec

-----------------------------------------------------------------------------
(***************************************************************************)
(* Equal numbers, equal LSAs: ContentBySeq is inductive as long as no LSA  *)
(* is read while it is rewritten, and it implies Agreement.                *)
(***************************************************************************)
Fits(table) == \A l \in Link : table[l] # NoLSA => table[l] = Content(l, table[l].seq)

LEMMA FirstSeqType == \A l \in Link : FirstSeq(l) \in Int
  BY DEF FirstSeq

\* The first LSAs of a link have its first number.
LEMMA BootContent == \A i \in Node : Fits(BootTable(i))
<1> SUFFICES ASSUME NEW i \in Node, NEW l \in Link, BootTable(i)[l] # NoLSA
             PROVE  BootTable(i)[l] = Content(l, BootTable(i)[l].seq)
  BY DEF Fits
<1>1. l[1] = i /\ IsListed(l) /\ BootTable(i)[l] = Listed(i, l[2])
  BY DEF BootTable, IsListed
<1>2. UpAt(l, 0) = TRUE
  BY <1>1 DEF UpAt, FirstSeq
<1>3. CostOf(l) = CostFile[i][l[2]]
  BY <1>1 DEF CostOf
<1>4. Listed(i, l[2]) = Content(l, 0)
  BY <1>2, <1>3, Zenon DEF Listed, Content
<1>5. QED
  BY <1>1, <1>4 DEF Listed

LEMMA BootListed == \A l \in Link : IsListed(l) => BootTable(l[1])[l] # NoLSA
<1> SUFFICES ASSUME NEW l \in Link, IsListed(l) PROVE BootTable(l[1])[l] # NoLSA
  OBVIOUS
<1>1. BootTable(l[1])[l] = Listed(l[1], l[2])
  BY DEF BootTable, IsListed
<1>2. l[1] \in Node /\ CostFile[l[1]][l[2]] \in Nat
  BY CostFileAssumption DEF Link, IsListed
<1>3. Listed(l[1], l[2]) \in LSA
  BY <1>2 DEF Listed, LSA
<1>4. QED
  BY <1>1, <1>3, NoLSAAssumption

LEMMA LearnedContent ==
  ASSUME NEW l \in Link, ~IsListed(l)
  PROVE  Learned = Content(l, Learned.seq)
<1>1. UpAt(l, -1) = TRUE
  BY DEF UpAt, FirstSeq
<1>2. CostOf(l) = 1
  BY DEF CostOf
<1>3. Learned = Content(l, -1)
  BY <1>1, <1>2, Zenon DEF Learned, Content
<1>4. QED
  BY <1>3 DEF Learned

\* Changing sides and counting one go together.
LEMMA FlipContent ==
  ASSUME NEW l \in Link, NEW x \in LSA, x = Content(l, x.seq)
  PROVE  Flip(x) = Content(l, Flip(x).seq)
<1>1. x.seq \in Int /\ FirstSeq(l) \in Int
  BY FirstSeqType DEF LSA
<1>2. UpAt(l, x.seq + 1) = ~UpAt(l, x.seq)
  BY <1>1 DEF UpAt
<1>3. x.up = UpAt(l, x.seq) /\ x.cost = CostOf(l)
  BY DEF Content
<1>4. (~x.up) = UpAt(l, x.seq + 1)
  BY <1>2, <1>3, Zenon
<1>5. Flip(x) = Content(l, x.seq + 1)
  BY <1>3, <1>4, Zenon DEF Flip, Content
<1>6. QED
  BY <1>5, FlipFacts

LEMMA CheckedContent ==
  ASSUME NEW l \in Link, NEW x \in LSA, x = Content(l, x.seq), NEW b \in BOOLEAN
  PROVE  Checked(x, b) = Content(l, Checked(x, b).seq)
  BY FlipContent, CheckedFacts

LEMMA ArrivalContent ==
  ASSUME TypeOK, SeqFixesContent, NEW i \in Node, NEW from \in SUBSET Node
  PROVE  Fits(Arrival(i, from))
<1> SUFFICES ASSUME NEW l \in Link, Arrival(i, from)[l] # NoLSA
             PROVE  Arrival(i, from)[l] = Content(l, Arrival(i, from)[l].seq)
  BY DEF Fits
<1>1. lsdb[i][l] # NoLSA
  BY ArrivalFacts
<1>2. lsdb[i][l] \in LSA /\ lsdb[i][l] = Content(l, lsdb[i][l].seq)
  BY <1>1 DEF TypeOK, Table, SeqFixesContent, ContentBySeq, Held
<1>3. CASE l[1] # i
  BY <1>2, <1>3, ArrivalFacts
<1>4. CASE l[1] = i
  <2> DEFINE isHeard == l[2] \in (heard[i] \union from)
  <2>1. isHeard \in BOOLEAN
    OBVIOUS
  <2>2. Arrival(i, from)[l] = Checked(lsdb[i][l], isHeard)
    BY <1>1, <1>4, ArrivalFacts
  <2>3. QED
    BY <1>2, <2>1, <2>2, CheckedContent
<1>5. QED
  BY <1>3, <1>4

LEMMA InstallContent ==
  ASSUME NEW t \in Table, Fits(t), NEW k \in Link, NEW x \in LSA, x = Content(k, x.seq)
  PROVE  /\ Fits(Install(t, k, x))
         /\ \A l \in Link : t[l] # NoLSA => Install(t, k, x)[l] # NoLSA
<1>1. \A l \in Link : Install(t, k, x)[l] = t[l] \/ (l = k /\ Install(t, k, x)[l] = x)
  BY DEF Install, Table
<1>2. x # NoLSA
  BY NoLSAAssumption
<1>3. QED
  BY <1>1, <1>2, Zenon DEF Fits

LEMMA LearnContent ==
  ASSUME NEW t \in Table, Fits(t), NEW k \in Link, t[k] = NoLSA => ~IsListed(k)
  PROVE  /\ Fits(Learn(k[1], k[2], t))
         /\ \A l \in Link : t[l] # NoLSA => Learn(k[1], k[2], t)[l] # NoLSA
<1>1. <<k[1], k[2]>> = k
  BY DEF Link
<1>2. \A l \in Link : \/ Learn(k[1], k[2], t)[l] = t[l]
                      \/ l = k /\ t[k] = NoLSA /\ Learn(k[1], k[2], t)[l] = Learned
  BY <1>1 DEF Learn, Table
<1>3. Learned # NoLSA
  BY LearnedType, NoLSAAssumption
<1>4. ~IsListed(k) => Learned = Content(k, Learned.seq)
  BY LearnedContent
<1>5. QED
  BY <1>2, <1>3, <1>4, Zenon DEF Fits

LEMMA HandledContent ==
  ASSUME SeqFixesContent, TypeOK, ~TornReads, NEW i \in Node, NEW from \in SUBSET Node,
         NEW table \in Table, Fits(table),
         \A l \in Link : lsdb[i][l] # NoLSA => table[l] # NoLSA, NEW pool \in SUBSET net,
         Handled(i, from, table, pool)
  PROVE  SeqFixesContent'
<1>1. net' = pool
  BY DEF Handled, SentTorn
<1>2. \A j \in Node : lsdb'[j] = IF j = i THEN table ELSE lsdb[j]
  BY DEF Handled, TypeOK
<1>3. ListedHeld'
  <2>1. \A l \in Link : l[1] \in Node
    BY DEF Link
  <2>2. \A l \in Link : lsdb[l[1]][l] # NoLSA => lsdb'[l[1]][l] # NoLSA
    BY <1>2, <2>1
  <2>3. QED
    BY <2>2 DEF SeqFixesContent, ListedHeld, Held
<1>4. ContentBySeq'
  <2>1. ASSUME NEW j \in Node, NEW l \in Link, lsdb'[j][l] # NoLSA
        PROVE  lsdb'[j][l] = Content(l, lsdb'[j][l].seq)
    <3>1. CASE j = i
      BY <1>2, <2>1, <3>1 DEF Fits
    <3>2. CASE j # i
      BY <1>2, <2>1, <3>2 DEF SeqFixesContent, ContentBySeq, Held
    <3>3. QED
      BY <3>1, <3>2
  <2>2. \A p \in net' : p.lsa = Content(p.link, p.lsa.seq)
    BY <1>1 DEF SeqFixesContent, ContentBySeq
  <2>3. QED
    BY <2>1, <2>2 DEF ContentBySeq, Held
<1>5. QED
  BY <1>3, <1>4 DEF SeqFixesContent

LEMMA DeliverContent ==
  ASSUME SeqFixesContent, TypeOK, ~TornReads, NEW p \in net, NEW pool \in SUBSET net,
         Deliver(p, pool)
  PROVE  SeqFixesContent'
<1>1. p.to \in Node /\ p.from \in Node /\ p.link \in Link /\ p.lsa \in LSA
  BY DEF TypeOK, Packet
<1>2. Fits(Arrival(p.to, {p.from})) /\ Arrival(p.to, {p.from}) \in Table
  BY <1>1, ArrivalContent, ArrivalFacts
<1>3. p.lsa = Content(p.link, p.lsa.seq)
  BY DEF SeqFixesContent, ListedHeld, ContentBySeq
<1>4. /\ Fits(Install(Arrival(p.to, {p.from}), p.link, p.lsa))
      /\ \A l \in Link : Arrival(p.to, {p.from})[l] # NoLSA =>
            Install(Arrival(p.to, {p.from}), p.link, p.lsa)[l] # NoLSA
  BY <1>1, <1>2, <1>3, InstallContent
<1>5. Install(Arrival(p.to, {p.from}), p.link, p.lsa) \in Table
  BY <1>1, <1>2, InstallType
<1>6. \A l \in Link : lsdb[p.to][l] # NoLSA =>
         Install(Arrival(p.to, {p.from}), p.link, p.lsa)[l] # NoLSA
  BY <1>1, <1>4, ArrivalFacts
<1>7. QED
  BY <1>1, <1>4, <1>5, <1>6, HandledContent DEF Deliver

LEMMA ContentInit == Init => SeqFixesContent
<1> SUFFICES ASSUME Init PROVE SeqFixesContent
  OBVIOUS
<1>1. ListedHeld
  BY BootListed DEF Init, ListedHeld, Held, Link
<1>2. ContentBySeq
  BY BootContent DEF Init, ContentBySeq, Held, Fits
<1>3. QED
  BY <1>1, <1>2 DEF SeqFixesContent

LEMMA ContentStep ==
  ~TornReads /\ TypeOK /\ SeqFixesContent /\ [Next]_vars => SeqFixesContent'
<1> SUFFICES ASSUME ~TornReads, TypeOK, SeqFixesContent, [Next]_vars PROVE SeqFixesContent'
  OBVIOUS
<1>1. ASSUME NEW l \in Link, ReceiveHeartbeat(l[1], l[2]) PROVE SeqFixesContent'
  <2> DEFINE arrived == Arrival(l[1], {l[2]})
  <2>1. l[1] \in Node /\ l[2] \in Node /\ l[1] # l[2] /\ <<l[1], l[2]>> = l
    BY DEF Link
  <2>2. Fits(arrived) /\ arrived \in Table
    BY <2>1, ArrivalContent, ArrivalFacts
  <2>3. arrived[l] = NoLSA => ~IsListed(l)
    BY <2>1, ArrivalFacts DEF SeqFixesContent, ListedHeld, Held
  <2>4. /\ Fits(Learn(l[1], l[2], arrived))
        /\ \A k \in Link : lsdb[l[1]][k] # NoLSA => Learn(l[1], l[2], arrived)[k] # NoLSA
    <3>1. \A k \in Link : lsdb[l[1]][k] # NoLSA => arrived[k] # NoLSA
      BY <2>1, ArrivalFacts
    <3>2. QED
      BY <2>2, <2>3, <3>1, LearnContent
  <2>5. Learn(l[1], l[2], arrived) \in Table
    BY <2>1, <2>2, LearnType
  <2>6. QED
    BY <1>1, <2>1, <2>4, <2>5, HandledContent DEF ReceiveHeartbeat
<1>2. ASSUME NEW l \in Link, ReceiveMend(l[1], l[2]) PROVE SeqFixesContent'
  <2>1. l[1] \in Node /\ l[2] \in Node
    BY DEF Link
  <2>2. QED
    BY <1>2, <2>1, ArrivalContent, ArrivalFacts, HandledContent DEF ReceiveMend
<1>3. ASSUME NEW i \in Node, ReceiveSend(i) PROVE SeqFixesContent'
  BY <1>3, ArrivalContent, ArrivalFacts, HandledContent DEF ReceiveSend
<1>4. ASSUME NEW p \in net, ReceiveLSA(p) PROVE SeqFixesContent'
  BY <1>4, DeliverContent DEF ReceiveLSA
<1>5. ASSUME NEW p \in net, Lose(p) PROVE SeqFixesContent'
  BY <1>5 DEF Lose, SeqFixesContent, ListedHeld, ContentBySeq, Held
<1>6. ASSUME NEW p \in net, Duplicate(p) PROVE SeqFixesContent'
  BY <1>6, DeliverContent DEF Duplicate
<1>7. ASSUME NEW c \in Link, NEW l \in Link, Announce(c[1], c[2], l) PROVE SeqFixesContent'
  <2>1. c[1] \in Node
    BY DEF Link
  <2>2. lsdb[c[1]][l] = Content(l, lsdb[c[1]][l].seq)
    BY <1>7, <2>1 DEF Announce, HeldLinks, SeqFixesContent, ListedHeld, ContentBySeq, Held
  <2>3. QED
    BY <1>7, <2>2 DEF Announce, SeqFixesContent, ListedHeld, ContentBySeq, Held
<1>8. ASSUME NEW l \in Link, Silence(l[1], l[2]) PROVE SeqFixesContent'
  BY <1>8 DEF Silence, SeqFixesContent, ListedHeld, ContentBySeq, Held
<1>9. ASSUME NEW w \in Wire, Cut(w) PROVE SeqFixesContent'
  BY <1>9 DEF Cut, SeqFixesContent, ListedHeld, ContentBySeq, Held
<1>10. ASSUME NEW w \in Wire, Mend(w) PROVE SeqFixesContent'
  BY <1>10 DEF Mend, SeqFixesContent, ListedHeld, ContentBySeq, Held
<1>11. ASSUME NEW i \in Node, Restart(i) PROVE SeqFixesContent'
  <2>1. \A j \in Node : lsdb'[j] = IF j = i THEN BootTable(i) ELSE lsdb[j]
    BY <1>11 DEF Restart, TypeOK
  <2>2. net' \subseteq net
    BY <1>11 DEF Restart
  <2>3. ListedHeld'
    <3>1. ASSUME NEW l \in Link, IsListed(l) PROVE lsdb'[l[1]][l] # NoLSA
      <4>1. l[1] \in Node
        BY DEF Link
      <4>2. CASE l[1] = i
        BY <2>1, <3>1, <4>2, BootListed
      <4>3. CASE l[1] # i
        BY <2>1, <3>1, <4>1, <4>3 DEF SeqFixesContent, ListedHeld, Held
      <4>4. QED
        BY <4>2, <4>3
    <3>2. QED
      BY <3>1 DEF ListedHeld, Held
  <2>4. ContentBySeq'
    <3>1. ASSUME NEW j \in Node, NEW l \in Link, lsdb'[j][l] # NoLSA
          PROVE  lsdb'[j][l] = Content(l, lsdb'[j][l].seq)
      <4>1. CASE j = i
        BY <2>1, <3>1, <4>1, BootContent DEF Fits
      <4>2. CASE j # i
        BY <2>1, <3>1, <4>2 DEF SeqFixesContent, ContentBySeq, Held
      <4>3. QED
        BY <4>1, <4>2
    <3>2. \A p \in net' : p.lsa = Content(p.link, p.lsa.seq)
      BY <2>2 DEF SeqFixesContent, ContentBySeq
    <3>3. QED
      BY <3>1, <3>2 DEF ContentBySeq, Held
  <2>5. QED
    BY <2>3, <2>4 DEF SeqFixesContent
<1>12. ASSUME UNCHANGED vars PROVE SeqFixesContent'
  BY <1>12 DEF vars, SeqFixesContent, ListedHeld, ContentBySeq, Held
<1>13. QED
  BY <1>1, <1>2, <1>3, <1>4, <1>5, <1>6, <1>7, <1>8, <1>9, <1>10, <1>11, <1>12 DEF Next

LEMMA ContentImpliesAgreement == SeqFixesContent => Agreement
<1> SUFFICES ASSUME SeqFixesContent, NEW i \in Node, NEW j \in Node, NEW l \in Link,
                    Held(i, l), Held(j, l), lsdb[i][l].seq = lsdb[j][l].seq
             PROVE  lsdb[i][l] = lsdb[j][l]
  BY DEF Agreement
<1>1. lsdb[i][l] = Content(l, lsdb[i][l].seq) /\ lsdb[j][l] = Content(l, lsdb[j][l].seq)
  BY DEF SeqFixesContent, ContentBySeq
<1>2. QED
  BY <1>1

\* Unless an LSA is read while the listener rewrites it, the number of an LSA
\* fixes its cost and its side, in every table and every packet, across losses,
\* duplicates, cuts and restarts.
THEOREM NumberFixesLSA == ASSUME ~TornReads PROVE Spec => []SeqFixesContent
<1>1. TypeOK /\ SeqFixesContent /\ [Next]_vars => SeqFixesContent'
  BY ContentStep
<1>2. QED
  BY <1>1, ContentInit, TypeCorrect, PTL DEF Spec

\* So two routers that hold the same number for a link agree on it, and no
\* router is left with an LSA that the rule of line 650 cannot replace.
THEOREM SameNumberSameLSA == ASSUME ~TornReads PROVE Spec => []Agreement
  BY NumberFixesLSA, ContentImpliesAgreement, PTL

-----------------------------------------------------------------------------
(***************************************************************************)
(* A router that is not restarted is ahead of everybody on its own links,  *)
(* with or without torn reads, whatever happens to the other routers.      *)
(***************************************************************************)
NoRestart == "restart" \notin FaultKinds

\* The routers of S go on running.
Running(S) == \A i \in S : ~Restart(i)
KeepRunning(S) == [][Running(S)]_vars

\* Everybody but the owners outside S is behind the owner.
AheadFor(S) ==
    /\ \A i \in Node, l \in Link :
          l[1] \in S /\ Held(i, l) => Held(l[1], l) /\ lsdb[i][l].seq =< lsdb[l[1]][l].seq
    /\ \A p \in net :
          p.link[1] \in S => Held(p.link[1], p.link) /\ p.lsa.seq =< lsdb[p.link[1]][p.link].seq

\* Some packets of the pool.
IsSub(pool, packets) == pool \subseteq packets

\* The table leaves i's own links as the check left them, but for new ones, and
\* takes no number greater than the owner's for the others.
NotAhead(S, i, from, table) ==
    /\ \A l \in Link : l[1] \in S /\ l[1] = i /\ lsdb[i][l] # NoLSA =>
                         table[l] = Arrival(i, from)[l]
    /\ \A l \in Link : l[1] \in S /\ l[1] # i /\ table[l] # NoLSA =>
                         Held(l[1], l) /\ table[l].seq =< lsdb[l[1]][l].seq

LEMMA AheadForAll == TypeOK => (OwnerAhead <=> AheadFor(Node))
<1> SUFFICES ASSUME TypeOK PROVE OwnerAhead <=> AheadFor(Node)
  OBVIOUS
<1>1. \A l \in Link : l[1] \in Node
  BY DEF Link
<1>2. \A p \in net : p.link[1] \in Node
  BY <1>1 DEF TypeOK, Packet
<1> QED
  BY <1>1, <1>2 DEF OwnerAhead, AheadFor

\* What the check does to the numbers.
LEMMA ArrivalSeq ==
  ASSUME TypeOK, NEW i \in Node, NEW from \in SUBSET Node, NEW l \in Link,
         lsdb[i][l] # NoLSA
  PROVE  /\ lsdb[i][l] \in LSA
         /\ Arrival(i, from)[l] \in LSA
         /\ lsdb[i][l].seq =< Arrival(i, from)[l].seq
         /\ Arrival(i, from)[l].seq = lsdb[i][l].seq => Arrival(i, from)[l] = lsdb[i][l]
<1>1. lsdb[i][l] \in LSA
  BY DEF TypeOK, Table
<1>2. Arrival(i, from)[l] \in LSA
  BY ArrivalFacts DEF Table
<1>3. CASE l[1] # i
  <2>1. Arrival(i, from)[l] = lsdb[i][l] /\ lsdb[i][l].seq \in Int
    BY <1>1, <1>3, ArrivalFacts DEF LSA
  <2>2. QED
    BY <1>1, <2>1
<1>4. CASE l[1] = i
  <2> DEFINE isHeard == l[2] \in (heard[i] \union from)
  <2>1. isHeard \in BOOLEAN
    OBVIOUS
  <2>2. Arrival(i, from)[l] = Checked(lsdb[i][l], isHeard)
    BY <1>4, ArrivalFacts
  <2> HIDE DEF isHeard
  <2>3. /\ lsdb[i][l].seq =< Checked(lsdb[i][l], isHeard).seq
        /\ Checked(lsdb[i][l], isHeard).seq = lsdb[i][l].seq =>
              Checked(lsdb[i][l], isHeard) = lsdb[i][l]
    BY <1>1, <2>1, CheckedFacts
  <2>4. QED
    BY <1>1, <1>2, <2>2, <2>3
<1>5. QED
  BY <1>3, <1>4

\* A handler that leaves its router's own links as the check left them, but for
\* new ones, and takes no number greater than the owner's for the others.
LEMMA HandledOwner ==
  ASSUME NEW S \in SUBSET Node, TypeOK, AheadFor(S), NEW i \in Node, NEW from \in SUBSET Node,
         NEW table \in Table, NEW pool, IsSub(pool, net),
         Handled(i, from, table, pool), NotAhead(S, i, from, table)
  PROVE  AheadFor(S)'
<1>0. lsdb' \in [Node -> Table] /\ net' \in SUBSET Packet
  <2>1. pool \in SUBSET Packet
    BY DEF TypeOK, IsSub
  <2>2. QED
    BY <2>1, HandledType
<1>1. \A j \in Node : lsdb'[j] = IF j = i THEN table ELSE lsdb[j]
  BY DEF Handled, TypeOK
<1>2. \A l \in Link : l[1] \in Node
  BY DEF Link
<1>3. ASSUME NEW l \in Link, l[1] \in S, Held(l[1], l)
      PROVE  /\ lsdb'[l[1]][l] # NoLSA
             /\ lsdb[l[1]][l].seq =< lsdb'[l[1]][l].seq
             /\ lsdb[l[1]][l].seq \in Int /\ lsdb'[l[1]][l].seq \in Int
  <2>1. CASE l[1] = i
    <3>1. lsdb'[i][l] = Arrival(i, from)[l]
      BY <1>1, <1>3, <2>1 DEF Held, NotAhead
    <3>2. QED
      BY <1>3, <2>1, <3>1, ArrivalSeq, NoLSAAssumption DEF Held, LSA
  <2>2. CASE l[1] # i
    <3>1. lsdb'[l[1]][l] = lsdb[l[1]][l]
      BY <1>1, <1>2, <2>2
    <3>2. lsdb[l[1]][l] \in LSA
      BY <1>2, <1>3 DEF TypeOK, Table, Held
    <3>3. lsdb[l[1]][l].seq \in Int
      BY <3>2 DEF LSA
    <3>4. QED
      BY <1>3, <3>1, <3>3 DEF Held
  <2>3. QED
    BY <2>1, <2>2
<1>4. ASSUME NEW j \in Node, NEW l \in Link, l[1] \in S, lsdb'[j][l] # NoLSA
      PROVE  lsdb'[l[1]][l] # NoLSA /\ lsdb'[j][l].seq =< lsdb'[l[1]][l].seq
  <2>1. lsdb'[j][l] \in LSA
    BY <1>0, <1>4 DEF Table
  <2>2. lsdb'[j][l].seq \in Int
    BY <2>1 DEF LSA
  <2>3. CASE l[1] = j
    <3>1. lsdb'[l[1]][l] = lsdb'[j][l]
      BY <2>3
    <3>2. QED
      BY <1>4, <2>2, <3>1
  <2>4. CASE l[1] # j
    <3>1. Held(l[1], l) /\ lsdb'[j][l].seq =< lsdb[l[1]][l].seq
      BY <1>1, <1>4, <2>4 DEF AheadFor, Held, NotAhead
    <3>2. QED
      BY <1>3, <1>4, <2>2, <3>1
  <2>5. QED
    BY <2>3, <2>4
<1>5. ASSUME NEW p \in net', p.link[1] \in S
      PROVE  /\ lsdb'[p.link[1]][p.link] # NoLSA
             /\ p.lsa.seq =< lsdb'[p.link[1]][p.link].seq
  <2>1. p \in Packet
    BY <1>0
  <2>2. p.link \in Link /\ p.lsa.seq \in Int
    BY <2>1 DEF Packet, LSA
  <2>3. CASE p \in net
    <3>1. Held(p.link[1], p.link) /\ p.lsa.seq =< lsdb[p.link[1]][p.link].seq
      BY <1>5, <2>3 DEF AheadFor
    <3>2. QED
      BY <1>3, <1>5, <2>2, <3>1
  <2>4. CASE p \notin net
    <3> DEFINE k == p.link
    <3>1. net' \in SentTorn(i, lsdb[i], Arrival(i, from), pool) /\ p \notin pool
      BY <2>4 DEF Handled, IsSub
    <3>2. /\ k[1] = i /\ lsdb[i][k] # NoLSA
          /\ (p.lsa.seq = lsdb[i][k].seq \/ p.lsa.seq = Arrival(i, from)[k].seq)
      <4>1. lsdb[i] \in Table /\ pool \in SUBSET Packet
        BY DEF TypeOK, IsSub
      <4>2. QED
        BY <3>1, <4>1, ArrivalFacts, TornFacts
    <3>3. lsdb'[i][k] = Arrival(i, from)[k]
      BY <1>1, <1>5, <2>2, <3>2 DEF NotAhead
    <3>4. lsdb[i][k].seq =< Arrival(i, from)[k].seq /\ Arrival(i, from)[k] \in LSA
      BY <2>2, <3>2, ArrivalSeq
    <3>5. Arrival(i, from)[k].seq \in Int /\ Arrival(i, from)[k] # NoLSA
      BY <3>4, NoLSAAssumption DEF LSA
    <3>6. p.lsa.seq =< Arrival(i, from)[k].seq
      BY <3>2, <3>4, <3>5
    <3>7. lsdb'[k[1]][k] = Arrival(i, from)[k]
      BY <3>2, <3>3
    <3>8. QED
      BY <3>5, <3>6, <3>7
  <2>5. QED
    BY <2>3, <2>4
<1>6. QED
  BY <1>4, <1>5 DEF AheadFor, Held

\* What a packet leaves in the table of its receiver: an LSA of an own link is
\* not newer than what the check left, any other LSA is old or the packet's.
LEMMA InstallOwner ==
  ASSUME NEW S \in SUBSET Node, TypeOK, AheadFor(S), NEW p \in net,
         NEW l \in Link, l[1] \in S
  PROVE  LET t == Install(Arrival(p.to, {p.from}), p.link, p.lsa) IN
         /\ l[1] = p.to /\ lsdb[p.to][l] # NoLSA => t[l] = Arrival(p.to, {p.from})[l]
         /\ l[1] # p.to /\ t[l] # NoLSA =>
               Held(l[1], l) /\ t[l].seq =< lsdb[l[1]][l].seq
<1> DEFINE u == Arrival(p.to, {p.from})
           t == Install(u, p.link, p.lsa)
<1>1. p.to \in Node /\ p.from \in Node /\ p.link \in Link /\ p.lsa \in LSA
  BY DEF TypeOK, Packet
<1>2. u \in Table
  BY <1>1, ArrivalFacts
<1>3. l = p.link => Held(p.link[1], p.link) /\ p.lsa.seq =< lsdb[p.link[1]][p.link].seq
  BY DEF AheadFor
<1>4. t[l] = u[l] \/ (l = p.link /\ t[l] = p.lsa /\ Newer(p.lsa, u[l]))
  BY <1>1, <1>2 DEF Install, Table
<1>5. ASSUME l[1] = p.to, lsdb[p.to][l] # NoLSA PROVE t[l] = u[l]
  <2>1. lsdb[p.to][l].seq =< u[l].seq /\ u[l] \in LSA /\ lsdb[p.to][l] \in LSA
    BY <1>1, <1>5, ArrivalSeq
  <2>2. ASSUME l = p.link PROVE ~Newer(p.lsa, u[l])
    <3>1. p.lsa.seq =< lsdb[p.to][l].seq
      BY <1>3, <1>5, <2>2
    <3>2. p.lsa.seq \in Int /\ u[l].seq \in Int /\ lsdb[p.to][l].seq \in Int
      BY <1>1, <2>1 DEF LSA
    <3>3. QED
      BY <2>1, <3>1, <3>2, NoLSAAssumption DEF Newer
  <2>3. QED
    BY <1>4, <2>2
<1>6. ASSUME l[1] # p.to, t[l] # NoLSA
      PROVE  Held(l[1], l) /\ t[l].seq =< lsdb[l[1]][l].seq
  <2>1. CASE t[l] = u[l]
    <3>1. t[l] = lsdb[p.to][l]
      BY <1>1, <1>6, <2>1, ArrivalFacts
    <3>2. QED
      BY <1>1, <1>6, <3>1 DEF AheadFor, Held
  <2>2. CASE l = p.link /\ t[l] = p.lsa
    BY <1>3, <2>2
  <2>3. QED
    BY <1>4, <2>1, <2>2
<1>7. QED
  BY <1>5, <1>6

LEMMA DeliverOwner ==
  ASSUME NEW S \in SUBSET Node, TypeOK, AheadFor(S), NEW p \in net,
         NEW pool \in SUBSET net, Deliver(p, pool)
  PROVE  AheadFor(S)'
<1> DEFINE i == p.to
           h == {p.from}
           t == Install(Arrival(i, h), p.link, p.lsa)
<1>1. p.to \in Node /\ p.from \in Node /\ p.link \in Link /\ p.lsa \in LSA
  BY DEF TypeOK, Packet
<1>2. i \in Node /\ h \in SUBSET Node
  BY <1>1
<1>3. t \in Table
  BY <1>1, ArrivalFacts, InstallType
<1>4. Handled(i, h, t, pool)
  BY DEF Deliver
<1>5. NotAhead(S, i, h, t)
  BY InstallOwner DEF NotAhead
<1> HIDE DEF t, h, i
<1>6. IsSub(pool, net)
  BY DEF IsSub
<1>7. QED
  BY <1>2, <1>3, <1>4, <1>5, <1>6, HandledOwner

\* A packet that is no LSA.
LEMMA PlainOwner ==
  ASSUME NEW S \in SUBSET Node, TypeOK, AheadFor(S), NEW i \in Node, NEW from \in SUBSET Node,
         Handled(i, from, Arrival(i, from), net)
  PROVE  AheadFor(S)'
<1>1. NotAhead(S, i, from, Arrival(i, from))
  BY ArrivalFacts DEF NotAhead, AheadFor, Held
<1>2. QED
  BY <1>1, ArrivalFacts, HandledOwner DEF IsSub

LEMMA HeartbeatOwner ==
  ASSUME NEW S \in SUBSET Node, TypeOK, AheadFor(S), NEW i \in Node, NEW j \in Node, i # j,
         ReceiveHeartbeat(i, j)
  PROVE  AheadFor(S)'
<1> DEFINE h == {j}
           u == Arrival(i, h)
           t == Learn(i, j, u)
<1>1. u \in Table /\ t \in Table
  BY ArrivalFacts, LearnType
<1>2. \A l \in Link : t[l] = u[l] \/ (l[1] = i /\ u[l] = NoLSA)
  BY <1>1 DEF Learn, Table
<1>3. ASSUME NEW l \in Link, l[1] = i, lsdb[i][l] # NoLSA PROVE t[l] = Arrival(i, h)[l]
  <2>1. u[l] # NoLSA
    BY <1>3, ArrivalFacts
  <2>2. QED
    BY <1>2, <2>1
<1>4. ASSUME NEW l \in Link, l[1] \in S, l[1] # i, t[l] # NoLSA
      PROVE  Held(l[1], l) /\ t[l].seq =< lsdb[l[1]][l].seq
  <2>1. t[l] = u[l]
    BY <1>2, <1>4
  <2>2. u[l] = lsdb[i][l]
    BY <1>4, ArrivalFacts
  <2> HIDE DEF t, u
  <2>3. t[l] = lsdb[i][l]
    BY <2>1, <2>2
  <2>4. QED
    BY <1>4, <2>3 DEF AheadFor, Held
<1>5. Handled(i, h, t, net) /\ h \in SUBSET Node /\ IsSub(net, net)
  BY DEF ReceiveHeartbeat, IsSub
<1>6. NotAhead(S, i, h, t)
  BY <1>3, <1>4 DEF NotAhead
<1> HIDE DEF t, h
<1>7. QED
  BY <1>1, <1>5, <1>6, HandledOwner

LEMMA OwnerInit == ASSUME NEW S \in SUBSET Node PROVE Init => AheadFor(S)
<1> SUFFICES ASSUME Init PROVE AheadFor(S)
  OBVIOUS
<1>1. ASSUME NEW i \in Node, NEW l \in Link, lsdb[i][l] # NoLSA
      PROVE  lsdb[l[1]][l] # NoLSA /\ lsdb[i][l].seq =< lsdb[l[1]][l].seq
  <2>1. l[1] = i /\ lsdb[i][l] = Listed(i, l[2])
    BY <1>1 DEF Init, BootTable
  <2>2. lsdb[l[1]][l] = lsdb[i][l] /\ lsdb[i][l].seq = 0
    BY <2>1 DEF Listed
  <2>3. QED
    BY <1>1, <2>2
<1>2. net = {}
  BY DEF Init
<1>3. QED
  BY <1>1, <1>2 DEF AheadFor, Held

LEMMA OwnerStep ==
  ASSUME NEW S \in SUBSET Node, TypeOK, AheadFor(S), [Next]_vars, [Running(S)]_vars
  PROVE  AheadFor(S)'
<1>1. ASSUME NEW l \in Link, ReceiveHeartbeat(l[1], l[2]) PROVE AheadFor(S)'
  BY <1>1, HeartbeatOwner DEF Link
<1>2. ASSUME NEW l \in Link, ReceiveMend(l[1], l[2]) PROVE AheadFor(S)'
  <2>1. l[1] \in Node /\ l[2] \in Node
    BY DEF Link
  <2>2. QED
    BY <1>2, <2>1, PlainOwner DEF ReceiveMend
<1>3. ASSUME NEW i \in Node, ReceiveSend(i) PROVE AheadFor(S)'
  BY <1>3, PlainOwner DEF ReceiveSend
<1>4. ASSUME NEW p \in net, ReceiveLSA(p) PROVE AheadFor(S)'
  BY <1>4, DeliverOwner DEF ReceiveLSA
<1>5. ASSUME NEW p \in net, Lose(p) PROVE AheadFor(S)'
  BY <1>5 DEF Lose, AheadFor, Held
<1>6. ASSUME NEW p \in net, Duplicate(p) PROVE AheadFor(S)'
  BY <1>6, DeliverOwner DEF Duplicate
<1>7. ASSUME NEW c \in Link, NEW l \in Link, Announce(c[1], c[2], l) PROVE AheadFor(S)'
  <2>1. c[1] \in Node /\ lsdb[c[1]][l] # NoLSA
    BY <1>7 DEF Link, Announce, HeldLinks
  <2>2. l[1] \in S => Held(l[1], l) /\ lsdb[c[1]][l].seq =< lsdb[l[1]][l].seq
    BY <2>1 DEF AheadFor, Held
  <2>3. QED
    BY <1>7, <2>2 DEF Announce, AheadFor, Held
<1>8. ASSUME NEW l \in Link, Silence(l[1], l[2]) PROVE AheadFor(S)'
  BY <1>8 DEF Silence, AheadFor, Held
<1>9. ASSUME NEW w \in Wire, Cut(w) PROVE AheadFor(S)'
  BY <1>9 DEF Cut, AheadFor, Held
<1>10. ASSUME NEW w \in Wire, Mend(w) PROVE AheadFor(S)'
  BY <1>10 DEF Mend, AheadFor, Held
<1>11. ASSUME NEW i \in Node, Restart(i) PROVE AheadFor(S)'
  <2>1. CASE UNCHANGED vars
    BY <2>1 DEF vars, AheadFor, Held
  <2>2. CASE Running(S)
    <3>1. i \notin S
      BY <1>11, <2>2 DEF Running
    <3>2. /\ lsdb' = [lsdb EXCEPT ![i] = BootTable(i)] /\ net' \subseteq net
          /\ lsdb \in [Node -> Table]
      BY <1>11 DEF Restart, TypeOK
    <3>3. \A j \in Node : lsdb'[j] = IF j = i THEN BootTable(i) ELSE lsdb[j]
      BY <3>2
    <3>4. \A l \in Link : l[1] \in S => BootTable(i)[l] = NoLSA /\ lsdb'[l[1]] = lsdb[l[1]]
      BY <3>1, <3>3 DEF BootTable
    <3>5. ASSUME NEW j \in Node, NEW l \in Link, l[1] \in S, lsdb'[j][l] # NoLSA
          PROVE  Held(l[1], l)' /\ lsdb'[j][l].seq =< lsdb'[l[1]][l].seq
      <4>1. lsdb'[j] = lsdb[j]
        BY <3>3, <3>4, <3>5
      <4> QED
        BY <3>4, <3>5, <4>1 DEF AheadFor, Held
    <3>6. ASSUME NEW p \in net', p.link[1] \in S
          PROVE  Held(p.link[1], p.link)' /\ p.lsa.seq =< lsdb'[p.link[1]][p.link].seq
      <4>1. p \in net /\ p.link \in Link
        BY <3>2 DEF TypeOK, Packet
      <4> QED
        BY <3>4, <3>6, <4>1 DEF AheadFor, Held
    <3> QED
      BY <3>5, <3>6 DEF AheadFor, Held
  <2> QED
    BY <2>1, <2>2
<1>12. ASSUME UNCHANGED vars PROVE AheadFor(S)'
  BY <1>12 DEF vars, AheadFor, Held
<1>13. QED
  BY <1>1, <1>2, <1>3, <1>4, <1>5, <1>6, <1>7, <1>8, <1>9, <1>10, <1>11, <1>12 DEF Next

\* While some routers are not restarted, nobody and no packet carries a greater
\* number for their links than they do themselves, even if every other router
\* is restarted and old packets of its own come back to it.
THEOREM RunningOwnerAhead ==
  ASSUME NEW S \in SUBSET Node
  PROVE  Spec /\ KeepRunning(S) => []AheadFor(S)
<1>1. TypeOK /\ AheadFor(S) /\ [Next]_vars /\ [Running(S)]_vars => AheadFor(S)'
  BY OwnerStep
<1>2. Init => AheadFor(S)
  BY OwnerInit
<1>3. QED
  BY <1>1, <1>2, TypeCorrect, PTL DEF Spec, KeepRunning

\* As long as no router restarts, nobody and no packet carries a greater number
\* for a link than its owner, so a router's own ticket is never overwritten.
THEOREM OwnerIsAhead == ASSUME NoRestart PROVE Spec => []OwnerAhead
<1>1. [Next]_vars => [Running(Node)]_vars
  BY DEF Running, NoRestart, Restart, Fault
<1>2. TypeOK /\ AheadFor(Node) /\ [Next]_vars => AheadFor(Node)'
  BY <1>1, OwnerStep
<1>3. Init => AheadFor(Node)
  BY OwnerInit
<1>4. TypeOK /\ AheadFor(Node) => OwnerAhead
  BY AheadForAll
<1>5. QED
  BY <1>2, <1>3, <1>4, TypeCorrect, PTL DEF Spec

-----------------------------------------------------------------------------
(***************************************************************************)
(* The table of a router that is not restarted never goes back.            *)
(***************************************************************************)
StepAdvances == \A i \in Node, l \in Link : Advances(i, l)
AdvancesIn(S) == \A i \in S, l \in Link : Advances(i, l)

LEMMA HandledAdvances ==
  ASSUME TypeOK, NEW i \in Node, NEW from \in SUBSET Node, NEW table \in Table,
         NEW pool, Handled(i, from, table, pool),
         \A l \in Link : lsdb[i][l] # NoLSA =>
             \/ table[l] = Arrival(i, from)[l]
             \/ (table[l] \in LSA /\ Arrival(i, from)[l].seq < table[l].seq)
  PROVE  StepAdvances
<1> SUFFICES ASSUME NEW j \in Node, NEW l \in Link, lsdb[j][l] # NoLSA
             PROVE  \/ lsdb'[j][l] = lsdb[j][l]
                    \/ (lsdb'[j][l] # NoLSA /\ lsdb[j][l].seq < lsdb'[j][l].seq)
  BY DEF StepAdvances, Advances, Held
<1>1. lsdb'[j] = IF j = i THEN table ELSE lsdb[j]
  BY DEF Handled, TypeOK
<1>2. CASE j # i
  BY <1>1, <1>2
<1>3. CASE j = i
  <2>1. /\ Arrival(i, from)[l] \in LSA /\ lsdb[i][l] \in LSA
        /\ lsdb[i][l].seq =< Arrival(i, from)[l].seq
        /\ Arrival(i, from)[l].seq = lsdb[i][l].seq => Arrival(i, from)[l] = lsdb[i][l]
    BY <1>3, ArrivalSeq
  <2>2. Arrival(i, from)[l].seq \in Int /\ lsdb[i][l].seq \in Int
    BY <2>1 DEF LSA
  <2>3. table[l] \in LSA => table[l].seq \in Int
    BY DEF LSA
  <2>4. lsdb'[j][l] = table[l]
    BY <1>1, <1>3
  <2>5. CASE table[l] = Arrival(i, from)[l]
    BY <1>3, <2>1, <2>2, <2>4, <2>5, NoLSAAssumption
  <2>6. CASE table[l] \in LSA /\ Arrival(i, from)[l].seq < table[l].seq
    BY <1>3, <2>1, <2>2, <2>3, <2>4, <2>6, NoLSAAssumption
  <2>7. QED
    BY <1>3, <2>5, <2>6
<1>4. QED
  BY <1>2, <1>3

LEMMA DeliverAdvances ==
  ASSUME TypeOK, NEW p \in net, NEW pool, Deliver(p, pool)
  PROVE  StepAdvances
<1> DEFINE u == Arrival(p.to, {p.from})
           t == Install(u, p.link, p.lsa)
<1>1. p.to \in Node /\ p.from \in Node /\ p.link \in Link /\ p.lsa \in LSA
  BY DEF TypeOK, Packet
<1>2. u \in Table /\ t \in Table
  BY <1>1, ArrivalFacts, InstallType
<1>3. ASSUME NEW l \in Link, lsdb[p.to][l] # NoLSA
      PROVE  t[l] = u[l] \/ (t[l] \in LSA /\ u[l].seq < t[l].seq)
  <2>1. u[l] # NoLSA
    BY <1>1, <1>3, ArrivalFacts
  <2>2. t[l] = u[l] \/ (t[l] = p.lsa /\ Newer(p.lsa, u[l]))
    BY <1>1, <1>2 DEF Install, Table
  <2>3. QED
    BY <1>1, <2>1, <2>2 DEF Newer
<1>4. Handled(p.to, {p.from}, t, pool)
  BY DEF Deliver
<1> HIDE DEF t
<1>5. QED
  BY <1>1, <1>2, <1>3, <1>4, HandledAdvances

LEMMA UnchangedAdvances == lsdb' = lsdb => StepAdvances
  BY DEF StepAdvances, Advances, Held

LEMMA AdvanceStep ==
  ASSUME NEW S \in SUBSET Node, TypeOK, [Next]_vars, [Running(S)]_vars
  PROVE  AdvancesIn(S)
<1>1. ASSUME NEW l \in Link, ReceiveHeartbeat(l[1], l[2]) PROVE StepAdvances
  <2> DEFINE u == Arrival(l[1], {l[2]})
             t == Learn(l[1], l[2], u)
  <2>1. l[1] \in Node /\ l[2] \in Node /\ l[1] # l[2] /\ {l[2]} \in SUBSET Node
    BY DEF Link
  <2>2. u \in Table /\ t \in Table
    BY <2>1, ArrivalFacts, LearnType
  <2>3. \A k \in Link : t[k] = u[k] \/ u[k] = NoLSA
    BY <2>2 DEF Learn, Table
  <2>4. \A k \in Link : lsdb[l[1]][k] # NoLSA => t[k] = u[k]
    BY <2>1, <2>3, ArrivalFacts
  <2>5. Handled(l[1], {l[2]}, t, net)
    BY <1>1 DEF ReceiveHeartbeat
  <2> HIDE DEF t
  <2>6. QED
    BY <2>1, <2>2, <2>4, <2>5, HandledAdvances
<1>2. ASSUME NEW l \in Link, ReceiveMend(l[1], l[2]) PROVE StepAdvances
  <2>1. l[1] \in Node /\ l[2] \in Node
    BY DEF Link
  <2>2. QED
    BY <1>2, <2>1, ArrivalFacts, HandledAdvances DEF ReceiveMend
<1>3. ASSUME NEW i \in Node, ReceiveSend(i) PROVE StepAdvances
  BY <1>3, ArrivalFacts, HandledAdvances DEF ReceiveSend
<1>4. ASSUME NEW p \in net, ReceiveLSA(p) PROVE StepAdvances
  BY <1>4, DeliverAdvances DEF ReceiveLSA
<1>5. ASSUME NEW p \in net, Duplicate(p) PROVE StepAdvances
  BY <1>5, DeliverAdvances DEF Duplicate
<1>6. ASSUME \/ \E p \in net : Lose(p)
             \/ \E c, l \in Link : Announce(c[1], c[2], l)
             \/ \E l \in Link : Silence(l[1], l[2])
             \/ \E w \in Wire : Cut(w) \/ Mend(w)
             \/ UNCHANGED vars
      PROVE  StepAdvances
  BY <1>6, UnchangedAdvances DEF Lose, Announce, Silence, Cut, Mend, vars
<1>7. ASSUME NEW i \in Node, Restart(i) PROVE AdvancesIn(S)
  <2>1. CASE UNCHANGED vars
    BY <2>1, UnchangedAdvances DEF vars, StepAdvances, AdvancesIn
  <2>2. CASE Running(S)
    <3>1. i \notin S
      BY <1>7, <2>2 DEF Running
    <3>2. \A j \in S : lsdb'[j] = lsdb[j]
      BY <1>7, <3>1 DEF Restart, TypeOK
    <3> QED
      BY <3>2 DEF AdvancesIn, Advances, Held
  <2> QED
    BY <2>1, <2>2
<1>8. StepAdvances => AdvancesIn(S)
  BY DEF StepAdvances, AdvancesIn
<1>9. QED
  BY <1>1, <1>2, <1>3, <1>4, <1>5, <1>6, <1>7, <1>8 DEF Next

\* Nothing takes the table of a router back while it is not restarted itself,
\* not even LSAs of routers that are restarted and count from the start again.
THEOREM RunningTablesAdvance ==
  ASSUME NEW S \in SUBSET Node
  PROVE  Spec /\ KeepRunning(S) => [][AdvancesIn(S)]_vars
<1>1. TypeOK /\ [Next]_vars /\ [Running(S)]_vars => [AdvancesIn(S)]_vars
  BY AdvanceStep
<1>2. QED
  BY <1>1, TypeCorrect, PTL DEF Spec, KeepRunning

\* As long as no router restarts, no late, duplicated or torn packet takes any
\* table back to an older LSA, or makes it forget one.
THEOREM TablesAdvance == ASSUME NoRestart PROVE Spec => CopiesAdvance
<1>1. [Next]_vars => [Running(Node)]_vars
  BY DEF Running, NoRestart, Restart, Fault
<1>2. TypeOK /\ [Next]_vars => [AdvancesIn(Node)]_vars
  BY <1>1, AdvanceStep
<1>3. QED
  BY <1>2, TypeCorrect, PTL DEF Spec, CopiesAdvance, AdvancesIn

-----------------------------------------------------------------------------
(***************************************************************************)
(* Own links of a router that is not restarted follow its own hearing.     *)
(***************************************************************************)
StepFollows(S) == \A l \in Link : l[1] \in S => FollowsHeard(l)

\* In table, the own links i held are as the packets from the routers in from
\* leave them.
OwnAsArrived(S, i, from, table) == \A l \in Link :
    l[1] \in S /\ l[1] = i /\ lsdb[i][l] # NoLSA => table[l] = Arrival(i, from)[l]

LEMMA HandledFollows ==
  ASSUME NEW S, TypeOK, NEW i \in Node, NEW from \in SUBSET Node, NEW table \in Table,
         NEW pool, Handled(i, from, table, pool), OwnAsArrived(S, i, from, table)
  PROVE  StepFollows(S)
<1> SUFFICES ASSUME NEW l \in Link, l[1] \in S, lsdb[l[1]][l] # NoLSA, lsdb'[l[1]][l] # lsdb[l[1]][l]
             PROVE  lsdb'[l[1]][l] = Checked(lsdb[l[1]][l], l[2] \in heard'[l[1]])
  BY DEF StepFollows, FollowsHeard, Held
<1>1. l[1] \in Node
  BY DEF Link
<1>2. \A j \in Node : lsdb'[j] = IF j = i THEN table ELSE lsdb[j]
  BY DEF Handled, TypeOK
<1>3. l[1] = i
  BY <1>1, <1>2
<1>4. lsdb'[i][l] = Arrival(i, from)[l]
  BY <1>2, <1>3 DEF OwnAsArrived
<1>5. heard'[i] = heard[i] \union from
  BY DEF Handled, TypeOK
<1>6. QED
  BY <1>3, <1>4, <1>5, ArrivalFacts

LEMMA DeliverFollows ==
  ASSUME NEW S \in SUBSET Node, TypeOK, AheadFor(S), NEW p \in net, NEW pool, Deliver(p, pool)
  PROVE  StepFollows(S)
<1> DEFINE i == p.to
           h == {p.from}
           t == Install(Arrival(i, h), p.link, p.lsa)
<1>1. i \in Node /\ p.from \in Node /\ p.link \in Link /\ p.lsa \in LSA
  BY DEF TypeOK, Packet
<1>2. h \in SUBSET Node
  BY <1>1
<1>3. t \in Table
  BY <1>1, <1>2, ArrivalFacts, InstallType
<1>4. OwnAsArrived(S, i, h, t)
  BY InstallOwner DEF OwnAsArrived
<1>5. Handled(i, h, t, pool)
  BY DEF Deliver
<1> HIDE DEF t, h, i
<1>6. QED
  BY <1>1, <1>2, <1>3, <1>4, <1>5, HandledFollows

LEMMA UnchangedFollows == ASSUME NEW S, lsdb' = lsdb PROVE StepFollows(S)
  BY DEF StepFollows, FollowsHeard, Held

LEMMA FollowStep ==
  ASSUME NEW S \in SUBSET Node, TypeOK, AheadFor(S), [Next]_vars, [Running(S)]_vars
  PROVE  StepFollows(S)
<1>1. ASSUME NEW l \in Link, ReceiveHeartbeat(l[1], l[2]) PROVE StepFollows(S)
  <2> DEFINE i == l[1]
             h == {l[2]}
             u == Arrival(i, h)
             t == Learn(i, l[2], u)
  <2>1. i \in Node /\ l[2] \in Node /\ i # l[2]
    BY DEF Link
  <2>2. h \in SUBSET Node
    BY <2>1
  <2>3. u \in Table /\ t \in Table
    BY <2>1, <2>2, ArrivalFacts, LearnType
  <2>4. \A k \in Link : t[k] = u[k] \/ u[k] = NoLSA
    BY <2>3 DEF Learn, Table
  <2>5. OwnAsArrived(S, i, h, t)
    BY <2>1, <2>2, <2>4, ArrivalFacts DEF OwnAsArrived
  <2>6. Handled(i, h, t, net)
    BY <1>1 DEF ReceiveHeartbeat
  <2> HIDE DEF t, u, h, i
  <2>7. QED
    BY <2>1, <2>2, <2>3, <2>5, <2>6, HandledFollows
<1>2. ASSUME NEW i \in Node, NEW from \in SUBSET Node, NEW pool,
             Handled(i, from, Arrival(i, from), pool)
      PROVE  StepFollows(S)
  <2>1. OwnAsArrived(S, i, from, Arrival(i, from)) /\ Arrival(i, from) \in Table
    BY ArrivalFacts DEF OwnAsArrived
  <2>2. QED
    BY <1>2, <2>1, HandledFollows
<1>3. ASSUME \/ \E l \in Link : ReceiveMend(l[1], l[2])
             \/ \E i \in Node : ReceiveSend(i)
      PROVE  StepFollows(S)
  <2>1. ASSUME NEW l \in Link, ReceiveMend(l[1], l[2]) PROVE StepFollows(S)
    <3> DEFINE i == l[1]
               h == {l[2]}
    <3>1. i \in Node /\ h \in SUBSET Node
      BY DEF Link
    <3>2. \E pool : Handled(i, h, Arrival(i, h), pool)
      BY <2>1 DEF ReceiveMend
    <3> HIDE DEF h, i
    <3>3. QED
      BY <3>1, <3>2, <1>2
  <2>2. ASSUME NEW i \in Node, ReceiveSend(i) PROVE StepFollows(S)
    BY <2>2, <1>2 DEF ReceiveSend
  <2>3. QED
    BY <1>3, <2>1, <2>2
<1>4. ASSUME NEW p \in net, ReceiveLSA(p) PROVE StepFollows(S)
  BY <1>4, DeliverFollows DEF ReceiveLSA
<1>5. ASSUME NEW p \in net, Duplicate(p) PROVE StepFollows(S)
  BY <1>5, DeliverFollows DEF Duplicate
<1>6. ASSUME \/ \E p \in net : Lose(p)
             \/ \E c, l \in Link : Announce(c[1], c[2], l)
             \/ \E l \in Link : Silence(l[1], l[2])
             \/ \E w \in Wire : Cut(w) \/ Mend(w)
             \/ UNCHANGED vars
      PROVE  StepFollows(S)
  BY <1>6, UnchangedFollows DEF Lose, Announce, Silence, Cut, Mend, vars
<1>7. ASSUME NEW i \in Node, Restart(i) PROVE StepFollows(S)
  <2>1. CASE UNCHANGED vars
    BY <2>1, UnchangedFollows DEF vars
  <2>2. CASE Running(S)
    <3>1. i \notin S
      BY <1>7, <2>2 DEF Running
    <3>2. \A j \in S : lsdb'[j] = lsdb[j]
      BY <1>7, <3>1 DEF Restart, TypeOK
    <3> QED
      BY <3>2 DEF StepFollows, FollowsHeard, Held
  <2> QED
    BY <2>1, <2>2
<1>8. QED
  BY <1>1, <1>2, <1>3, <1>4, <1>5, <1>6, <1>7 DEF Next

\* While a router is not restarted its own links follow its own hearing, even
\* if the routers around it are restarted.
THEOREM RunningOwnHearing ==
  ASSUME NEW S \in SUBSET Node
  PROVE  Spec /\ KeepRunning(S) => [][StepFollows(S)]_vars
<1>1. TypeOK /\ AheadFor(S) /\ [Next]_vars /\ [Running(S)]_vars => [StepFollows(S)]_vars
  BY FollowStep
<1>2. QED
  BY <1>1, TypeCorrect, RunningOwnerAhead, PTL DEF Spec, KeepRunning

\* As long as no router restarts, a router's own link is changed only by the
\* check of its own clocks, whatever the others send.
THEOREM OwnHearingOnly == ASSUME NoRestart PROVE Spec => OwnLinkFollowsHeard
<1>1. [Next]_vars => [Running(Node)]_vars
  BY DEF Running, NoRestart, Restart, Fault
<1>2. \A l \in Link : l[1] \in Node
  BY DEF Link
<1>3. TypeOK /\ OwnerAhead /\ [Next]_vars => [\A l \in Link : FollowsHeard(l)]_vars
  BY <1>1, <1>2, AheadForAll, FollowStep DEF StepFollows
<1>4. QED
  BY <1>3, TypeCorrect, OwnerIsAhead, PTL DEF Spec, OwnLinkFollowsHeard
-----------------------------------------------------------------------------
(***************************************************************************)
(* LinkState implements Flooding among the routers that go on running.     *)
(***************************************************************************)
\* Numbers begin with the first one, in tables and packets.
NoEarlier(table) == \A l \in Link : table[l] # NoLSA => FirstSeq(l) =< table[l].seq
FromFirst ==
    /\ \A i \in Node : NoEarlier(lsdb[i])
    /\ \A p \in net : FirstSeq(p.link) =< p.lsa.seq

LEMMA BootFirst == \A i \in Node : NoEarlier(BootTable(i))
<1> SUFFICES ASSUME NEW i \in Node, NEW l \in Link, BootTable(i)[l] # NoLSA
             PROVE  FirstSeq(l) =< BootTable(i)[l].seq
  BY DEF NoEarlier
<1>1. l[1] = i /\ IsListed(l) /\ BootTable(i)[l] = Listed(i, l[2])
  BY DEF BootTable, IsListed
<1>2. FirstSeq(l) = 0 /\ BootTable(i)[l].seq = 0
  BY <1>1 DEF FirstSeq, Listed
<1>3. QED
  BY <1>2

LEMMA ArrivalFirst ==
  ASSUME TypeOK, FromFirst, NEW i \in Node, NEW from \in SUBSET Node
  PROVE  NoEarlier(Arrival(i, from))
<1> SUFFICES ASSUME NEW l \in Link, Arrival(i, from)[l] # NoLSA
             PROVE  FirstSeq(l) =< Arrival(i, from)[l].seq
  BY DEF NoEarlier
<1>1. lsdb[i][l] # NoLSA
  BY ArrivalFacts
<1>2. /\ lsdb[i][l] \in LSA /\ Arrival(i, from)[l] \in LSA
      /\ lsdb[i][l].seq =< Arrival(i, from)[l].seq
  BY <1>1, ArrivalSeq
<1>3. lsdb[i][l].seq \in Int /\ Arrival(i, from)[l].seq \in Int /\ FirstSeq(l) \in Int
  BY <1>2, FirstSeqType DEF LSA
<1>4. FirstSeq(l) =< lsdb[i][l].seq
  BY <1>1 DEF FromFirst, NoEarlier
<1>5. QED
  BY <1>2, <1>3, <1>4

\* A heartbeat's new LSA has the first number of a link that is not listed.
LEMMA LearnFirst ==
  ASSUME TypeOK, ListedHeld, FromFirst, NEW l \in Link, NEW from \in SUBSET Node
  PROVE  LET u == Arrival(l[1], from)
             t == Learn(l[1], l[2], u)
         IN  /\ NoEarlier(t)
             /\ \A k \in Link : lsdb[l[1]][k] = NoLSA /\ t[k] # NoLSA => t[k].seq = FirstSeq(k)
<1> DEFINE u == Arrival(l[1], from)
           t == Learn(l[1], l[2], u)
<1>1. l[1] \in Node /\ l = <<l[1], l[2]>>
  BY LinkPairs
<1>2. u \in Table /\ NoEarlier(u) /\ (\A k \in Link : lsdb[l[1]][k] = NoLSA <=> u[k] = NoLSA)
  BY <1>1, ArrivalFacts, ArrivalFirst
<1> HIDE DEF u
<1>3. \A k \in Link : t[k] = u[k] \/ (k = l /\ u[l] = NoLSA /\ t[k] = Learned)
  BY <1>1, <1>2 DEF Learn, Table
<1>4. u[l] = NoLSA => FirstSeq(l) = Learned.seq
  BY <1>1, <1>2 DEF ListedHeld, Held, FirstSeq, Learned
<1> HIDE DEF t
<1>5. ASSUME NEW k \in Link, t[k] # NoLSA
      PROVE  FirstSeq(k) =< t[k].seq /\ (u[k] = NoLSA => t[k].seq = FirstSeq(k))
  <2>1. CASE t[k] = u[k]
    BY <1>2, <1>5, <2>1 DEF NoEarlier
  <2>2. CASE k = l /\ u[l] = NoLSA /\ t[k] = Learned
    BY <1>4, <2>2, FirstSeqType
  <2>3. QED
    BY <1>3, <2>1, <2>2
<1>6. QED
  BY <1>2, <1>5 DEF NoEarlier, t, u

LEMMA HandledFirst ==
  ASSUME TypeOK, ~TornReads, FromFirst, NEW i \in Node, NEW from, NEW table,
         NEW pool, IsSub(pool, net), Handled(i, from, table, pool), NoEarlier(table)
  PROVE  FromFirst'
<1>1. net' = pool
  BY DEF Handled, SentTorn
<1>2. \A j \in Node : lsdb'[j] = IF j = i THEN table ELSE lsdb[j]
  BY DEF Handled, TypeOK
<1>3. \A j \in Node : NoEarlier(lsdb[j])
  BY DEF FromFirst
<1>4. \A j \in Node : NoEarlier(lsdb'[j])
  BY <1>2, <1>3
<1>5. \A p \in net' : FirstSeq(p.link) =< p.lsa.seq
  BY <1>1 DEF FromFirst, IsSub
<1>6. QED
  BY <1>4, <1>5 DEF FromFirst

LEMMA DeliverFirst ==
  ASSUME TypeOK, ~TornReads, FromFirst, NEW p \in net, NEW pool, IsSub(pool, net),
         Deliver(p, pool)
  PROVE  FromFirst'
<1> DEFINE i == p.to
           h == {p.from}
           u == Arrival(i, h)
           t == Install(u, p.link, p.lsa)
<1>1. i \in Node /\ h \in SUBSET Node
  BY DEF TypeOK, Packet
<1>2. u \in Table /\ NoEarlier(u)
  BY <1>1, ArrivalFacts, ArrivalFirst
<1>3. FirstSeq(p.link) =< p.lsa.seq
  BY DEF FromFirst
<1> HIDE DEF u
<1>4. NoEarlier(t)
  BY <1>2, <1>3 DEF Install, Table, NoEarlier
<1>5. Handled(i, h, t, pool)
  BY DEF Deliver, u
<1> HIDE DEF t, h, i
<1>6. QED
  BY <1>1, <1>4, <1>5, HandledFirst

LEMMA FirstInit == Init => FromFirst
  BY BootFirst DEF Init, FromFirst

LEMMA FirstStep ==
  ASSUME TypeOK, ~TornReads, ListedHeld, FromFirst, [Next]_vars
  PROVE  FromFirst'
<1>1. ASSUME NEW l \in Link, ReceiveHeartbeat(l[1], l[2]) PROVE FromFirst'
  <2> DEFINE h == {l[2]}
             t == Learn(l[1], l[2], Arrival(l[1], h))
  <2>1. l[1] \in Node /\ h \in SUBSET Node /\ IsSub(net, net)
    BY LinkPairs DEF IsSub
  <2>2. NoEarlier(t)
    BY <2>1, LearnFirst
  <2>3. Handled(l[1], h, t, net)
    BY <1>1 DEF ReceiveHeartbeat
  <2> HIDE DEF t, h
  <2>4. QED
    BY <2>1, <2>2, <2>3, HandledFirst
<1>2. ASSUME NEW l \in Link, ReceiveMend(l[1], l[2]) PROVE FromFirst'
  <2> DEFINE h == {l[2]}
  <2>1. l[1] \in Node /\ h \in SUBSET Node /\ IsSub(net, net)
    BY LinkPairs DEF IsSub
  <2>2. Handled(l[1], h, Arrival(l[1], h), net)
    BY <1>2 DEF ReceiveMend
  <2> HIDE DEF h
  <2>3. QED
    BY <2>1, <2>2, ArrivalFirst, HandledFirst
<1>3. ASSUME NEW i \in Node, ReceiveSend(i) PROVE FromFirst'
  <2> DEFINE h == {}
  <2>1. h \in SUBSET Node /\ IsSub(net, net)
    BY DEF IsSub
  <2>2. Handled(i, h, Arrival(i, h), net)
    BY <1>3 DEF ReceiveSend
  <2> HIDE DEF h
  <2>3. QED
    BY <2>1, <2>2, ArrivalFirst, HandledFirst
<1>4. ASSUME NEW p \in net, ReceiveLSA(p) PROVE FromFirst'
  <2> DEFINE pool == net \ {p}
  <2>1. IsSub(pool, net) /\ Deliver(p, pool)
    BY <1>4 DEF IsSub, ReceiveLSA
  <2> HIDE DEF pool
  <2>2. QED
    BY <2>1, DeliverFirst
<1>5. ASSUME NEW p \in net, Duplicate(p) PROVE FromFirst'
  BY <1>5, DeliverFirst DEF Duplicate, IsSub
<1>6. ASSUME NEW c \in Link, NEW l \in Link, Announce(c[1], c[2], l) PROVE FromFirst'
  <2>1. FirstSeq(l) =< lsdb[c[1]][l].seq
    BY <1>6, LinkPairs DEF Announce, HeldLinks, FromFirst, NoEarlier
  <2>2. QED
    BY <1>6, <2>1 DEF Announce, FromFirst
<1>7. ASSUME \/ \E p \in net : Lose(p)
             \/ \E l \in Link : Silence(l[1], l[2])
             \/ \E w \in Wire : Cut(w) \/ Mend(w)
             \/ UNCHANGED vars
      PROVE  FromFirst'
  <2>1. lsdb' = lsdb /\ net' \subseteq net
    BY <1>7 DEF Lose, Silence, Cut, Mend, vars
  <2>2. QED
    BY <2>1 DEF FromFirst
<1>8. ASSUME NEW i \in Node, Restart(i) PROVE FromFirst'
  <2>1. \A j \in Node : lsdb'[j] = IF j = i THEN BootTable(i) ELSE lsdb[j]
    BY <1>8 DEF Restart, TypeOK
  <2>2. net' \subseteq net
    BY <1>8 DEF Restart
  <2>3. \A j \in Node : NoEarlier(lsdb'[j])
    BY <2>1, BootFirst DEF FromFirst
  <2>4. QED
    BY <2>2, <2>3 DEF FromFirst
<1>9. QED
  BY <1>1, <1>2, <1>3, <1>4, <1>5, <1>6, <1>7, <1>8 DEF Next

\* An own link that is not held yet comes with its first number.
BeginsFirst(S) ==
    \A l \in Link : l[1] \in S /\ lsdb[l[1]][l] = NoLSA /\ lsdb'[l[1]][l] # NoLSA =>
                        lsdb'[l[1]][l].seq = FirstSeq(l)

Begins(S, i, table) ==
    \A l \in Link : l[1] \in S /\ l[1] = i /\ lsdb[i][l] = NoLSA /\ table[l] # NoLSA =>
                        table[l].seq = FirstSeq(l)

\* At most one table changes.
OneMoves == \E i \in Node : \A j \in Node \ {i} : lsdb'[j] = lsdb[j]

LEMMA HandledBegins ==
  ASSUME TypeOK, NEW S \in SUBSET Node, NEW i \in Node, NEW from, NEW table, NEW pool,
         Handled(i, from, table, pool), Begins(S, i, table)
  PROVE  BeginsFirst(S) /\ OneMoves
<1>1. \A j \in Node : lsdb'[j] = IF j = i THEN table ELSE lsdb[j]
  BY DEF Handled, TypeOK
<1>2. OneMoves
  BY <1>1 DEF OneMoves
<1>3. ASSUME NEW l \in Link, l[1] \in S, lsdb[l[1]][l] = NoLSA, lsdb'[l[1]][l] # NoLSA
      PROVE  lsdb'[l[1]][l].seq = FirstSeq(l)
  <2>1. l[1] = i
    BY <1>1, <1>3
  <2>2. lsdb'[l[1]][l] = table[l]
    BY <1>1, <2>1
  <2>3. QED
    BY <1>3, <2>1, <2>2 DEF Begins
<1>4. QED
  BY <1>2, <1>3 DEF BeginsFirst

LEMMA UnchangedBegins ==
  ASSUME NEW S, NEW i \in Node, lsdb' = lsdb
  PROVE  BeginsFirst(S) /\ OneMoves
  BY DEF BeginsFirst, OneMoves

\* A packet is never about a link that its owner does not hold yet.
LEMMA DeliverBegins ==
  ASSUME TypeOK, NEW S \in SUBSET Node, AheadFor(S), NEW p \in net, NEW pool, Deliver(p, pool)
  PROVE  BeginsFirst(S) /\ OneMoves
<1> DEFINE i == p.to
           h == {p.from}
           u == Arrival(i, h)
           t == Install(u, p.link, p.lsa)
<1>1. i \in Node /\ h \in SUBSET Node
  BY DEF TypeOK, Packet
<1>2. u \in Table /\ \A l \in Link : lsdb[i][l] = NoLSA <=> u[l] = NoLSA
  BY <1>1, ArrivalFacts
<1> HIDE DEF u
<1>3. \A l \in Link : t[l] = u[l] \/ l = p.link
  BY <1>2 DEF Install, Table
<1>4. \A l \in Link : l = p.link /\ l[1] \in S => lsdb[l[1]][l] # NoLSA
  BY DEF AheadFor, Held
<1>5. Begins(S, i, t)
  BY <1>2, <1>3, <1>4 DEF Begins
<1>6. Handled(i, h, t, pool)
  BY DEF Deliver, u
<1> HIDE DEF t, h, i
<1>7. QED
  BY <1>1, <1>5, <1>6, HandledBegins

LEMMA BeginStep ==
  ASSUME NEW S \in SUBSET Node, S # {}, TypeOK, ListedHeld, FromFirst, AheadFor(S),
         [Next]_vars, [Running(S)]_vars
  PROVE  BeginsFirst(S) /\ OneMoves
<1>1. ASSUME NEW l \in Link, ReceiveHeartbeat(l[1], l[2]) PROVE BeginsFirst(S) /\ OneMoves
  <2> DEFINE i == l[1]
             h == {l[2]}
             t == Learn(l[1], l[2], Arrival(i, h))
  <2>1. i \in Node /\ h \in SUBSET Node
    BY LinkPairs
  <2>2. Begins(S, i, t)
    BY <2>1, LearnFirst DEF Begins
  <2>3. Handled(i, h, t, net)
    BY <1>1 DEF ReceiveHeartbeat
  <2> HIDE DEF t, h, i
  <2>4. QED
    BY <2>1, <2>2, <2>3, HandledBegins
<1>2. \A i \in Node, h \in SUBSET Node : Begins(S, i, Arrival(i, h))
  BY ArrivalFacts DEF Begins
<1>3. ASSUME NEW l \in Link, ReceiveMend(l[1], l[2]) PROVE BeginsFirst(S) /\ OneMoves
  <2> DEFINE h == {l[2]}
  <2>1. l[1] \in Node /\ h \in SUBSET Node
    BY LinkPairs
  <2>2. Handled(l[1], h, Arrival(l[1], h), net)
    BY <1>3 DEF ReceiveMend
  <2> HIDE DEF h
  <2>3. QED
    BY <1>2, <2>1, <2>2, HandledBegins
<1>4. ASSUME NEW i \in Node, ReceiveSend(i) PROVE BeginsFirst(S) /\ OneMoves
  <2> DEFINE h == {}
  <2>1. h \in SUBSET Node /\ Handled(i, h, Arrival(i, h), net)
    BY <1>4 DEF ReceiveSend
  <2> HIDE DEF h
  <2>2. QED
    BY <1>2, <2>1, HandledBegins
<1>5. ASSUME NEW p \in net, ReceiveLSA(p) PROVE BeginsFirst(S) /\ OneMoves
  BY <1>5, DeliverBegins DEF ReceiveLSA
<1>6. ASSUME NEW p \in net, Duplicate(p) PROVE BeginsFirst(S) /\ OneMoves
  BY <1>6, DeliverBegins DEF Duplicate
<1>7. ASSUME \/ \E p \in net : Lose(p)
             \/ \E c, l \in Link : Announce(c[1], c[2], l)
             \/ \E l \in Link : Silence(l[1], l[2])
             \/ \E w \in Wire : Cut(w) \/ Mend(w)
             \/ UNCHANGED vars
      PROVE  BeginsFirst(S) /\ OneMoves
  <2>1. lsdb' = lsdb
    BY <1>7 DEF Lose, Announce, Silence, Cut, Mend, vars
  <2>2. QED
    BY <2>1, UnchangedBegins
<1>8. ASSUME NEW i \in Node, Restart(i) PROVE BeginsFirst(S) /\ OneMoves
  <2>1. CASE UNCHANGED vars
    BY <2>1, UnchangedBegins DEF vars
  <2>2. CASE Running(S)
    <3>1. i \notin S
      BY <1>8, <2>2 DEF Running
    <3>2. \A j \in Node \ {i} : lsdb'[j] = lsdb[j]
      BY <1>8 DEF Restart, TypeOK
    <3>3. QED
      BY <3>1, <3>2 DEF BeginsFirst, OneMoves
  <2>3. QED
    BY <2>1, <2>2
<1>9. QED
  BY <1>1, <1>3, <1>4, <1>5, <1>6, <1>7, <1>8 DEF Next

FloodInv(S) == TypeOK /\ SeqFixesContent /\ FromFirst /\ AheadFor(S)

LinksOf(S) == {l \in Link : l[1] \in S}

CopyIn(S) == [i \in S |-> [l \in LinksOf(S) |-> lsdb[i][l]]]

FloodIn(S) == INSTANCE Flooding WITH
    Node <- S,
    Link <- LinksOf(S),
    Nothing <- NoLSA,
    First <- [l \in LinksOf(S) |-> FirstOf(l)],
    copy <- CopyIn(S)

\* All that the owner of l has said about it so far, and the next thing.
After(x, n) == [cost |-> x.cost, seq |-> x.seq + n, up |-> IF n % 2 = 0 THEN x.up ELSE ~x.up]
SaidOf(l) == IF lsdb[l[1]][l] = NoLSA THEN {}
             ELSE {After(FirstOf(l), n) : n \in 0..(lsdb[l[1]][l].seq - FirstOf(l).seq)}

LEMMA HeldType == ASSUME TypeOK, NEW i \in Node, NEW l \in Link, Held(i, l)
                  PROVE  lsdb[i][l] \in LSA /\ lsdb[i][l].seq \in Int
  BY DEF TypeOK, Table, Held, LSA

\* The content of a number, counted from the first one.
LEMMA ContentAfter ==
  ASSUME NEW l \in Link, NEW n \in Nat
  PROVE  Content(l, FirstSeq(l) + n) = After(FirstOf(l), n)
<1>1. FirstSeq(l) \in Int
  BY FirstSeqType
<1>2. UpAt(l, FirstSeq(l)) = TRUE /\ UpAt(l, FirstSeq(l) + n) = (n % 2 = 0)
  BY <1>1 DEF UpAt
<1>3. QED
  BY <1>2 DEF Content, FirstOf, After

\* Whatever is held, its owner has said.
LEMMA HeldIsSaid ==
  ASSUME NEW S \in SUBSET Node, FloodInv(S), NEW i \in Node, NEW l \in LinksOf(S), Held(i, l)
  PROVE  lsdb[i][l] \in SaidOf(l)
<1> DEFINE n == lsdb[i][l].seq - FirstSeq(l)
           m == lsdb[l[1]][l].seq - FirstSeq(l)
<1>1. l \in Link /\ l[1] \in S /\ l[1] \in Node
  BY DEF LinksOf
<1>2. /\ Held(l[1], l) /\ lsdb[i][l].seq =< lsdb[l[1]][l].seq
      /\ lsdb[i][l] = Content(l, lsdb[i][l].seq)
      /\ FirstSeq(l) =< lsdb[i][l].seq
  BY <1>1 DEF FloodInv, AheadFor, SeqFixesContent, ContentBySeq, FromFirst, NoEarlier, Held
<1>3. lsdb[i][l].seq \in Int /\ lsdb[l[1]][l].seq \in Int /\ FirstSeq(l) \in Int
  BY <1>1, <1>2, HeldType, FirstSeqType DEF FloodInv
<1>4. n \in 0..m /\ n \in Nat /\ FirstSeq(l) + n = lsdb[i][l].seq
  BY <1>2, <1>3
<1>5. lsdb[i][l] = After(FirstOf(l), n)
  BY <1>1, <1>2, <1>4, ContentAfter
<1>6. FirstOf(l).seq = FirstSeq(l)
  BY DEF FirstOf, Content
<1>7. QED
  BY <1>2, <1>4, <1>5, <1>6 DEF SaidOf, Held

LEMMA HeldIsSaidNext ==
  ASSUME NEW S \in SUBSET Node, NEW i \in Node, NEW l \in LinksOf(S)
  PROVE  FloodInv(S)' /\ Held(i, l)' => (lsdb[i][l] \in SaidOf(l))'
<1>1. FloodInv(S) /\ Held(i, l) => lsdb[i][l] \in SaidOf(l)
  BY HeldIsSaid
<1>2. QED
  BY <1>1, PTL

\* What a step may do to i's own link, and to the link of another router.
Speaks(i, l) ==
    \/ lsdb'[i][l] = lsdb[i][l]
    \/ lsdb[i][l] = NoLSA /\ lsdb'[i][l] = FirstOf(l)
    \/ lsdb[i][l] # NoLSA /\ lsdb'[i][l] = After(lsdb[i][l], 1)

Hears(i, l) ==
    \/ lsdb'[i][l] = lsdb[i][l]
    \/ /\ lsdb'[i][l] \in SaidOf(l)
       /\ lsdb[i][l] # NoLSA => lsdb[i][l].seq < lsdb'[i][l].seq

LEMMA SpeakStep ==
  ASSUME NEW S \in SUBSET Node, FloodInv(S), FloodInv(S)', BeginsFirst(S), StepFollows(S),
         AdvancesIn(S), NEW l \in LinksOf(S)
  PROVE  Speaks(l[1], l)
<1> DEFINE i == l[1]
           x == lsdb[i][l]
           y == lsdb'[i][l]
<1>1. l \in Link /\ i \in S /\ i \in Node
  BY DEF LinksOf
<1>2. CASE y = x
  BY <1>2 DEF Speaks
<1>3. CASE x = NoLSA /\ y # NoLSA
  <2>1. y.seq = FirstSeq(l) /\ y = Content(l, y.seq)
    BY <1>1, <1>3 DEF BeginsFirst, FloodInv, SeqFixesContent, ContentBySeq, Held
  <2>2. QED
    BY <1>3, <2>1 DEF Speaks, FirstOf
<1>4. CASE x # NoLSA /\ y # x
  <2>1. y = Checked(x, l[2] \in heard'[i])
    BY <1>1, <1>4 DEF StepFollows, FollowsHeard, Held
  <2>2. y = Flip(x)
    BY <1>4, <2>1 DEF Checked
  <2>3. y = After(x, 1)
    BY <2>2 DEF Flip, After
  <2>4. QED
    BY <1>4, <2>3 DEF Speaks
<1>5. QED
  BY <1>2, <1>3, <1>4

LEMMA HearStep ==
  ASSUME NEW S \in SUBSET Node, FloodInv(S), FloodInv(S)', AdvancesIn(S),
         NEW i \in S, NEW l \in LinksOf(S), lsdb'[l[1]] = lsdb[l[1]]
  PROVE  Hears(i, l)
<1>1. l \in Link /\ i \in Node
  BY DEF LinksOf
<1>2. SaidOf(l)' = SaidOf(l)
  BY DEF SaidOf
<1>3. CASE lsdb'[i][l] = lsdb[i][l]
  BY <1>3 DEF Hears
<1>4. CASE lsdb'[i][l] # lsdb[i][l]
  <2>1. /\ lsdb'[i][l] # NoLSA
        /\ lsdb[i][l] # NoLSA => lsdb[i][l].seq < lsdb'[i][l].seq
    BY <1>1, <1>4 DEF AdvancesIn, Advances, Held
  <2>2. Held(i, l)'
    BY <2>1 DEF Held
  <2>3. (lsdb[i][l] \in SaidOf(l))'
    BY <1>1, <2>2, HeldIsSaidNext
  <2>4. QED
    BY <1>2, <2>1, <2>3 DEF Hears
<1>5. QED
  BY <1>3, <1>4

LEMMA FloodInit == ASSUME NEW S \in SUBSET Node, FloodInv(S) PROVE FloodIn(S)!Init
<1>1. ASSUME NEW i \in S, NEW l \in LinksOf(S) PROVE lsdb[i][l] \in SaidOf(l) \union {NoLSA}
  BY <1>1, HeldIsSaid DEF Held
<1>2. \A l \in LinksOf(S) : FloodIn(S)!Said(l) = SaidOf(l)
  BY DEF FloodIn!Said, FloodIn!Later, CopyIn, SaidOf, After, LinksOf
<1>3. QED
  BY <1>1, <1>2 DEF FloodIn!Init, CopyIn

LEMMA FloodStep ==
  ASSUME NEW S \in SUBSET Node, FloodInv(S), FloodInv(S)', BeginsFirst(S), OneMoves,
         StepFollows(S), AdvancesIn(S)
  PROVE  \/ \E i \in S : /\ \A l \in LinksOf(S) : IF l[1] = i THEN Speaks(i, l) ELSE Hears(i, l)
                         /\ \A j \in S \ {i} : lsdb'[j] = lsdb[j]
         \/ \A j \in S : lsdb'[j] = lsdb[j]
<1>1. PICK i \in Node : \A j \in Node \ {i} : lsdb'[j] = lsdb[j]
  BY DEF OneMoves
<1>2. CASE i \in S
  <2>1. ASSUME NEW l \in LinksOf(S) PROVE IF l[1] = i THEN Speaks(i, l) ELSE Hears(i, l)
    <3>1. CASE l[1] = i
      <4>1. Speaks(l[1], l)
        BY SpeakStep
      <4>2. QED
        BY <3>1, <4>1
    <3>2. CASE l[1] # i
      <4>1. lsdb'[l[1]] = lsdb[l[1]]
        BY <1>1, <3>2 DEF LinksOf
      <4>2. QED
        BY <1>2, <3>2, <4>1, HearStep
    <3>3. QED
      BY <3>1, <3>2
  <2>2. QED
    BY <1>1, <1>2, <2>1
<1>3. CASE i \notin S
  <2>1. \A j \in S : lsdb'[j] = lsdb[j]
    BY <1>1, <1>3
  <2>2. QED
    BY <2>1
<1>4. QED
  BY <1>2, <1>3

LEMMA FloodInStep ==
  ASSUME NEW S \in SUBSET Node, FloodInv(S), FloodInv(S)', BeginsFirst(S), OneMoves,
         StepFollows(S), AdvancesIn(S)
  PROVE  [FloodIn(S)!Next]_(CopyIn(S))
<1>1. CASE \E i \in S : /\ \A l \in LinksOf(S) : IF l[1] = i THEN Speaks(i, l) ELSE Hears(i, l)
                        /\ \A j \in S \ {i} : lsdb'[j] = lsdb[j]
  <2>1. PICK i \in S : /\ \A l \in LinksOf(S) : IF l[1] = i THEN Speaks(i, l) ELSE Hears(i, l)
                       /\ \A j \in S \ {i} : lsdb'[j] = lsdb[j]
    BY <1>1
  <2>2. \A l \in LinksOf(S) : FloodIn(S)!Said(l) = SaidOf(l)
    BY DEF FloodIn!Said, FloodIn!Later, CopyIn, SaidOf, After, LinksOf
  <2>3. ASSUME NEW l \in LinksOf(S), Speaks(i, l) PROVE FloodIn(S)!Speak(i, l)
    BY <2>3 DEF Speaks, After, FloodIn!Speak, FloodIn!Later, CopyIn
  <2>4. ASSUME NEW l \in LinksOf(S), Hears(i, l) PROVE FloodIn(S)!Listen(i, l)
    BY <2>2, <2>4 DEF Hears, FloodIn!Listen, CopyIn
  <2>5. FloodIn(S)!Handle(i)
    BY <2>1, <2>3, <2>4 DEF FloodIn!Handle, CopyIn
  <2>6. QED
    BY <2>5 DEF FloodIn!Next
<1>2. CASE \A j \in S : lsdb'[j] = lsdb[j]
  BY <1>2 DEF CopyIn
<1>3. QED
  BY <1>1, <1>2, FloodStep

\* The same among all routers.
LEMMA FloodAllStep ==
  ASSUME FloodInv(Node), FloodInv(Node)', BeginsFirst(Node), OneMoves,
         StepFollows(Node), AdvancesIn(Node)
  PROVE  [Flood!Next]_lsdb
<1>1. LinksOf(Node) = Link
  BY LinkPairs DEF LinksOf
<1>2. CASE \E i \in Node : /\ \A l \in LinksOf(Node) : IF l[1] = i THEN Speaks(i, l) ELSE Hears(i, l)
                           /\ \A j \in Node \ {i} : lsdb'[j] = lsdb[j]
  <2>1. PICK i \in Node : /\ \A l \in Link : IF l[1] = i THEN Speaks(i, l) ELSE Hears(i, l)
                          /\ \A j \in Node \ {i} : lsdb'[j] = lsdb[j]
    BY <1>1, <1>2
  <2>2. \A l \in Link : Flood!Said(l) = SaidOf(l)
    BY DEF Flood!Said, Flood!Later, SaidOf, After
  <2>3. ASSUME NEW l \in Link, Speaks(i, l) PROVE Flood!Speak(i, l)
    BY <2>3 DEF Speaks, After, Flood!Speak, Flood!Later
  <2>4. ASSUME NEW l \in Link, Hears(i, l) PROVE Flood!Listen(i, l)
    BY <2>2, <2>4 DEF Hears, Flood!Listen
  <2>5. Flood!Handle(i)
    BY <2>1, <2>3, <2>4 DEF Flood!Handle
  <2>6. QED
    BY <2>5 DEF Flood!Next
<1>3. CASE \A j \in Node : lsdb'[j] = lsdb[j]
  <2>1. lsdb' = lsdb
    BY <1>3 DEF FloodInv, TypeOK
  <2>2. QED
    BY <2>1
<1>4. QED
  BY <1>2, <1>3, FloodStep

LEMMA FirstAlways == ASSUME ~TornReads PROVE Spec => []FromFirst
<1>1. TypeOK /\ SeqFixesContent /\ FromFirst /\ [Next]_vars => FromFirst'
  BY FirstStep DEF SeqFixesContent
<1>2. QED
  BY <1>1, FirstInit, TypeCorrect, NumberFixesLSA, PTL DEF Spec

\* Unless an LSA is read while it is rewritten, the routers that go on running
\* flood their LSAs among themselves as Flooding says, whatever is lost,
\* repeated or cut, and however often the routers between them are restarted:
\* every LSA held is one its owner has published, in the order of the numbers.
THEOREM RunningRoutersFlood ==
  ASSUME ~TornReads, NEW S \in SUBSET Node, S # {}
  PROVE  Spec /\ KeepRunning(S) => FloodIn(S)!Spec
<1>1. FloodInv(S) => FloodIn(S)!Init
  BY FloodInit
<1>2. FloodInv(S) /\ FloodInv(S)' /\ [Next]_vars /\ [Running(S)]_vars
        => [FloodIn(S)!Next]_(CopyIn(S))
  <2> SUFFICES ASSUME FloodInv(S), FloodInv(S)', [Next]_vars, [Running(S)]_vars
               PROVE  [FloodIn(S)!Next]_(CopyIn(S))
    OBVIOUS
  <2>1. BeginsFirst(S) /\ OneMoves
    BY BeginStep DEF FloodInv, SeqFixesContent
  <2>2. StepFollows(S) /\ AdvancesIn(S)
    BY FollowStep, AdvanceStep DEF FloodInv
  <2>3. QED
    BY <2>1, <2>2, FloodInStep
<1>3. TypeOK /\ SeqFixesContent /\ FromFirst /\ AheadFor(S) => FloodInv(S)
  BY DEF FloodInv
<1>4. QED
  BY <1>1, <1>2, <1>3, TypeCorrect, NumberFixesLSA, FirstAlways, RunningOwnerAhead, PTL
     DEF Spec, KeepRunning, FloodIn!Spec, CopyIn

\* As long as no router restarts and no LSA is read while it is rewritten, all
\* routers together implement Flooding.
THEOREM LSAsFlood == ASSUME ~TornReads, NoRestart PROVE Spec => FloodKept
<1>1. FloodInv(Node) => Flood!Init
  <2> SUFFICES ASSUME FloodInv(Node) PROVE Flood!Init
    OBVIOUS
  <2>1. LinksOf(Node) = Link
    BY LinkPairs DEF LinksOf
  <2>2. \A i \in Node, l \in Link : lsdb[i][l] \in SaidOf(l) \union {NoLSA}
    BY <2>1, HeldIsSaid DEF Held
  <2>3. \A l \in Link : Flood!Said(l) = SaidOf(l)
    BY DEF Flood!Said, Flood!Later, SaidOf, After
  <2>4. QED
    BY <2>2, <2>3 DEF Flood!Init
<1>2. FloodInv(Node) /\ FloodInv(Node)' /\ [Next]_vars => [Flood!Next]_lsdb
  <2> SUFFICES ASSUME FloodInv(Node), FloodInv(Node)', [Next]_vars
               PROVE  [Flood!Next]_lsdb
    OBVIOUS
  <2>1. [Running(Node)]_vars
    BY DEF Running, NoRestart, Restart, Fault
  <2>2. CASE Node = {}
    <3>1. lsdb' = lsdb
      BY <2>2 DEF FloodInv, TypeOK
    <3>2. QED
      BY <3>1
  <2>3. CASE Node # {}
    <3>1. BeginsFirst(Node) /\ OneMoves
      BY <2>1, <2>3, BeginStep DEF FloodInv, SeqFixesContent
    <3>2. StepFollows(Node) /\ AdvancesIn(Node)
      BY <2>1, FollowStep, AdvanceStep DEF FloodInv
    <3>3. QED
      BY <3>1, <3>2, FloodAllStep
  <2>4. QED
    BY <2>2, <2>3
<1>3. TypeOK /\ SeqFixesContent /\ FromFirst /\ AheadFor(Node) => FloodInv(Node)
  BY DEF FloodInv
<1>4. TypeOK /\ OwnerAhead => AheadFor(Node)
  BY AheadForAll
<1>5. QED
  BY <1>1, <1>2, <1>3, <1>4, TypeCorrect, NumberFixesLSA, FirstAlways, OwnerIsAhead, PTL
     DEF Spec, FloodKept, Flood!Spec

-----------------------------------------------------------------------------
(***************************************************************************)
(* The end of the flooding.                                                *)
(***************************************************************************)
\* Nobody has anything to send that a router in reach would install.
NoNews ==
    \A i, j \in Node, l \in Link :
        Alive(i, j) /\ Held(i, l) => ~Newer(lsdb[i][l], lsdb[j][l])

\* The routers that can reach each other hold the same.
JoinedAgree == \A i, j \in Node : Joined(i, j) => lsdb[i] = lsdb[j]

LEMMA NeighborsAgree ==
  ASSUME TypeOK, Agreement, NoNews, NEW i \in Node, NEW j \in Node, Alive(i, j)
  PROVE  lsdb[i] = lsdb[j]
<1>1. Alive(j, i)
  BY DEF Alive
<1>2. ASSUME NEW l \in Link PROVE lsdb[i][l] = lsdb[j][l]
  <2>1. Held(i, l) => Held(j, l) /\ ~(lsdb[j][l].seq < lsdb[i][l].seq)
    BY DEF NoNews, Newer, Held
  <2>2. Held(j, l) => Held(i, l) /\ ~(lsdb[i][l].seq < lsdb[j][l].seq)
    BY <1>1 DEF NoNews, Newer, Held
  <2>3. CASE Held(i, l) /\ Held(j, l)
    <3>1. lsdb[i][l].seq \in Int /\ lsdb[j][l].seq \in Int
      BY <2>3, HeldType
    <3>2. lsdb[i][l].seq = lsdb[j][l].seq
      BY <2>1, <2>2, <2>3, <3>1
    <3>3. QED
      BY <2>3, <3>2 DEF Agreement
  <2>4. CASE ~Held(i, l) /\ ~Held(j, l)
    BY <2>4 DEF Held
  <2>5. QED
    BY <2>1, <2>2, <2>3, <2>4
<1>3. lsdb[i] \in Table /\ lsdb[j] \in Table
  BY DEF TypeOK
<1>4. QED
  BY <1>2, <1>3 DEF Table

\* The routers that hold what i holds are closed under the live wires.
LEMMA QuietAgree ==
  ASSUME TypeOK, Agreement, NoNews PROVE JoinedAgree
<1> SUFFICES ASSUME NEW i \in Node, NEW j \in Node, Joined(i, j) PROVE lsdb[j] = lsdb[i]
  BY DEF JoinedAgree
<1> DEFINE S == {k \in Node : lsdb[k] = lsdb[i]}
<1>1. ASSUME NEW w \in Wire \ cut, w \intersect S # {} PROVE w \subseteq S
  <2>1. PICK l \in Link : w = {l[1], l[2]}
    BY WireAssumption
  <2>2. l[1] \in Node /\ l[2] \in Node /\ Alive(l[1], l[2])
    BY <1>1, <2>1, LinkPairs DEF Alive
  <2>3. lsdb[l[1]] = lsdb[l[2]]
    BY <2>2, NeighborsAgree
  <2>4. QED
    BY <1>1, <2>1, <2>2, <2>3
<1>2. S \in SUBSET Node /\ i \in S
  OBVIOUS
<1>3. j \in S
  BY <1>1, <1>2 DEF Joined
<1>4. QED
  BY <1>3

\* The flooding cannot come to rest in disagreement: when no router in reach of
\* another has anything newer for it, all that can reach each other hold the same.
\* It is what a torn LSA breaks, whose number hides that it is wrong.
THEOREM RestIsAgreement == ASSUME ~TornReads PROVE Spec => [](NoNews => JoinedAgree)
<1>1. TypeOK /\ Agreement => (NoNews => JoinedAgree)
  BY QuietAgree
<1>2. QED
  BY <1>1, TypeCorrect, SameNumberSameLSA, PTL
=============================================================================
