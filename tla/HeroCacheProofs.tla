--------------------------- MODULE HeroCacheProofs ---------------------------
(***************************************************************************)
(* For any number of invocations with any events: the heroes counted as    *)
(* written are in the table under ids of their own, in the order of their  *)
(* lists, and what the cache and the answers show is in the table or was   *)
(* announced by the writer that put it there.                              *)
(***************************************************************************)
EXTENDS HeroCache, TLAPS

RowSets == {{}} \union {{d} : d \in Data}

Shape ==
    /\ left \in [Call -> Seq(Id \union Data)]
    /\ result \in [Call -> Seq(Value)]
    /\ found \in [Call -> RowSets]
    /\ snap = [c \in Call |-> snap[c]]

\* What holds of an invocation between its statements.
Position(c) ==
    /\ pc[c] \in {"query", "fill"} => left[c] # <<>> /\ ~req[c].write
    /\ pc[c] \in {"put", "insert"} => left[c] # <<>> /\ req[c].write /\ idx[c] \in Id
    /\ pc[c] = "put" => req[c].useCache

\* left is the end of the list of items.
Suffix(c) ==
    /\ Len(left[c]) =< Len(req[c].items)
    /\ \A k \in 1..Len(left[c]) :
          left[c][k] = req[c].items[Len(req[c].items) - Len(left[c]) + k]

\* Rows are never changed nor deleted, so what a query saw is still there.
Old(c) ==
    /\ snap[c] # None =>
          \A i \in DOMAIN snap[c] : i \in DOMAIN table /\ snap[c][i] = table[i]
    /\ pc[c] = "fill" =>
          \A d \in found[c] : Item(c) \in DOMAIN table /\ table[Item(c)] = d

\* The answer of a read has an item for every id it has treated.
Answered(c) == ~req[c].write => Len(left[c]) + Len(result[c]) = Len(req[c].items)

\* The id before the computed one is in use, and a greater id only if the
\* computed one has been taken: every id was once the one above the greatest.
Above(c) ==
    pc[c] \in {"put", "insert"} =>
        /\ idx[c] - 1 \in DOMAIN table
        /\ \A i \in DOMAIN table : i >= idx[c] => idx[c] \in DOMAIN table

Positions == \A c \in Call : Position(c)
Suffixes == \A c \in Call : Suffix(c)
Olds == \A c \in Call : Old(c)
Answereds == \A c \in Call : Answered(c)

Grown == DOMAIN Rows \subseteq DOMAIN table /\ \A c \in Call : Above(c)

EntriesHonest == \A i \in DOMAIN cache : \A d \in Shows(cache[i].value) : Backed(i, d)
AnswersHonest ==
    \A c \in Call : \A k \in DOMAIN result[c] :
        \A d \in Shows(result[c][k]) : Backed(req[c].items[k], d)

HeroInv ==
    /\ TypeOK /\ Shape /\ Positions /\ Suffixes /\ Olds /\ Answereds /\ Grown
    /\ WritesLand /\ EntriesHonest /\ AnswersHonest

-----------------------------------------------------------------------------
LEMMA RowsWithIs ==
    ASSUME NEW t, NEW i, NEW d
    PROVE  RowsWith(t, i) = {d} <=> i \in DOMAIN t /\ t[i] = d
<1>1. CASE i \in DOMAIN t
  <2>1. RowsWith(t, i) = {t[i]}
    BY <1>1 DEF RowsWith
  <2> QED
    BY <1>1, <2>1
<1>2. CASE i \notin DOMAIN t
  <2>1. RowsWith(t, i) = {}
    BY <1>2 DEF RowsWith
  <2> QED
    BY <1>2, <2>1
<1> QED
  BY <1>1, <1>2

\* A row set shows its row, and a hero itself.
LEMMA ShowsRows ==
    ASSUME NEW S \in RowSets
    PROVE  Shows(S) = S
BY DataAssumption DEF RowSets, Shows

LEMMA ItemsAre ==
    ASSUME NEW r \in Requests
    PROVE  /\ r.items \in Seq(Id \union Data)
           /\ \A k \in 1..Len(r.items) : IF r.write THEN r.items[k] \in Data ELSE r.items[k] \in Id
<1>1. r.items \in Seq(Id \union Data)
  BY RequestsAssumption DEF Request
<1>2. DOMAIN r.items = 1..Len(r.items)
  BY <1>1
<1> QED
  BY <1>1, <1>2, RequestsAssumption

\* The present item is a hero for a writer and an id for a reader.
LEMMA ItemIs ==
    ASSUME TypeOK, Shape, Suffixes, NEW c \in Call, left[c] # <<>>
    PROVE  /\ Item(c) = left[c][1] /\ Len(left[c]) \in Nat \ {0}
           /\ Len(req[c].items) \in Nat
           /\ Item(c) = req[c].items[Len(req[c].items) - Len(left[c]) + 1]
           /\ IF req[c].write THEN Item(c) \in Data ELSE Item(c) \in Id
<1>1. left[c] \in Seq(Id \union Data) /\ req[c] \in Requests
  BY DEF TypeOK, Shape
<1>2. Item(c) = left[c][1] /\ Len(left[c]) \in Nat \ {0}
  BY <1>1 DEF Item
<1>3. Len(req[c].items) \in Nat
  BY <1>1, ItemsAre
<1> DEFINE k == Len(req[c].items) - Len(left[c]) + 1
<1>4. Item(c) = req[c].items[k] /\ k \in 1..Len(req[c].items)
  <2>1. Suffix(c)
    BY DEF Suffixes
  <2>2. Len(left[c]) =< Len(req[c].items) /\ 1 \in 1..Len(left[c])
    BY <1>2, <2>1 DEF Suffix
  <2>3. left[c][1] = req[c].items[k]
    BY <2>1, <2>2 DEF Suffix
  <2>4. k \in 1..Len(req[c].items)
    <3>1. \A n, m \in Nat : 1 \in 1..m /\ m =< n => n - m + 1 \in 1..n
      OBVIOUS
    <3> QED
      BY <1>2, <1>3, <2>2, <3>1
  <2> QED
    BY <1>2, <2>3, <2>4
<1>5. IF req[c].write THEN req[c].items[k] \in Data ELSE req[c].items[k] \in Id
  <2> HIDE DEF k
  <2> QED
    BY <1>1, <1>4, ItemsAre
<1>6. IF req[c].write THEN Item(c) \in Data ELSE Item(c) \in Id
  BY <1>4, <1>5
<1> QED
  BY <1>2, <1>3, <1>4, <1>6

LEMMA TailIs ==
    ASSUME NEW S, NEW s \in Seq(S), s # <<>>
    PROVE  /\ Tail(s) \in Seq(S) /\ Len(Tail(s)) = Len(s) - 1
           /\ \A k \in 1..(Len(s) - 1) : Tail(s)[k] = s[k + 1]
OBVIOUS

\* A pair <<c, k>> is written when c is a writer and is past its k-th item.
LEMMA WritingsAre ==
    /\ \A b, k : <<b, k>> \in Writings <=> b \in Call /\ req[b].write /\ k \in WrittenBy(b)
    /\ \A w \in Writings : w = <<w[1], w[2]>>
BY DEF Writings

-----------------------------------------------------------------------------
LEMMA InitHolds == Init => HeroInv
<1> SUFFICES ASSUME Init PROVE HeroInv
  OBVIOUS
<1> USE DEF Init
<1>1. \A c \in Call : req[c] \in Requests /\ left[c] = req[c].items
  OBVIOUS
<1>2. \A c \in Call : left[c] \in Seq(Id \union Data) /\ Len(left[c]) \in Nat
  BY <1>1, ItemsAre
<1>3. TypeOK
  <2>1. \A c \in Call : /\ Len(left[c]) + Len(result[c]) =< Len(req[c].items)
                        /\ \A k \in DOMAIN result[c] : result[c][k] \in Value
    BY <1>1, <1>2
  <2> QED
    BY <2>1, RowsAssumption DEF TypeOK, Places
<1>4. Shape
  BY <1>2 DEF Shape, RowSets
<1>5. Positions /\ Suffixes /\ Olds
  BY <1>1, <1>2 DEF Positions, Position, Suffixes, Suffix, Olds, Old
<1>6. Answereds /\ Grown
  BY <1>1, <1>2 DEF Answereds, Answered, Grown, Above
<1>7. WritesLand
  <2>1. ASSUME NEW b \in Call PROVE WrittenBy(b) = {}
    BY <1>1, <1>2 DEF WrittenBy
  <2>2. Writings = {}
    BY <2>1, WritingsAre
  <2>3. [w \in {} |-> 0] \in [Writings -> DOMAIN table \ DOMAIN Rows]
    BY <2>2
  <2>4. IsPlacing([w \in {} |-> 0])
    BY <2>2, <2>3 DEF IsPlacing
  <2> QED
    BY <2>3, <2>4, Zenon DEF WritesLand
<1>8. EntriesHonest /\ AnswersHonest
  BY DEF EntriesHonest, AnswersHonest
<1> QED
  BY <1>3, <1>4, <1>5, <1>6, <1>7, <1>8 DEF HeroInv

-----------------------------------------------------------------------------
\* What stays as it is when only the place of one invocation changes.
stores == <<table, cache, req, left, snap, found, result>>

\* Heroes stay where they are as long as no writer goes on and no row is added.
LEMMA WritesStay ==
    ASSUME WritesLand, UNCHANGED table,
           \A b \in Call : /\ req'[b].write = req[b].write
                           /\ req[b].write => req'[b] = req[b] /\ left'[b] = left[b]
    PROVE  WritesLand'
<1>1. \A b \in Call : /\ req'[b].write <=> req[b].write
                      /\ req[b].write => /\ req'[b] = req[b]
                                         /\ WrittenBy(b)' = WrittenBy(b)
  BY DEF WrittenBy
<1>2. \A b, k : <<b, k>> \in Writings' <=> b \in Call /\ req'[b].write /\ k \in WrittenBy(b)'
  BY DEF Writings
<1>3. \A w \in Writings' : w = <<w[1], w[2]>>
  BY DEF Writings
<1>4. Writings' = Writings
  <2>1. ASSUME NEW w \in Writings' PROVE w \in Writings
    <3>1. PICK b, k : w = <<b, k>>
      BY <1>3
    <3>2. b \in Call /\ req'[b].write /\ k \in WrittenBy(b)'
      BY <1>2, <3>1
    <3>3. req[b].write /\ k \in WrittenBy(b)
      BY <1>1, <3>2
    <3> QED
      BY <3>1, <3>2, <3>3, WritingsAre
  <2>2. ASSUME NEW w \in Writings PROVE w \in Writings'
    <3>1. PICK b, k : w = <<b, k>>
      BY WritingsAre
    <3>2. b \in Call /\ req[b].write /\ k \in WrittenBy(b)
      BY <3>1, WritingsAre
    <3>3. req'[b].write /\ k \in WrittenBy(b)'
      BY <1>1, <3>2
    <3> QED
      BY <1>2, <3>1, <3>2, <3>3
  <2> QED
    BY <2>1, <2>2
<1>5. PICK place \in [Writings -> DOMAIN table \ DOMAIN Rows] : IsPlacing(place)
  BY Zenon DEF WritesLand
<1>6. ASSUME NEW w \in Writings PROVE req'[w[1]] = req[w[1]]
  <2>1. w = <<w[1], w[2]>>
    BY WritingsAre
  <2>2. w[1] \in Call /\ req[w[1]].write
    BY <2>1, WritingsAre
  <2>3. \A b \in Call : req[b].write => req'[b] = req[b]
    BY <1>1
  <2> QED
    BY <2>2, <2>3
<1>7. IsPlacing(place)'
  BY <1>4, <1>5, <1>6 DEF IsPlacing
<1> QED
  BY <1>4, <1>5, <1>7, Zenon DEF WritesLand

\* A computed id stays above as long as no row is added.
LEMMA GrownStays ==
    ASSUME Grown, UNCHANGED table,
           \A c \in Call : pc'[c] \in {"put", "insert"} =>
               pc[c] \in {"put", "insert"} /\ idx'[c] = idx[c]
    PROVE  Grown'
BY DEF Grown, Above

\* What the cache and the answers show stays honest if announcements are not
\* taken back.
LEMMA HonestStays ==
    ASSUME EntriesHonest, AnswersHonest, UNCHANGED <<table, cache, req, left, result>>,
           \A c \in Call : pc[c] \in {"insert", "failed"} =>
               pc'[c] \in {"insert", "failed"} /\ idx'[c] = idx[c]
    PROVE  EntriesHonest' /\ AnswersHonest'
<1>1. table' = table /\ cache' = cache /\ req' = req /\ left' = left /\ result' = result
  OBVIOUS
<1>2. ASSUME NEW i, NEW d, Backed(i, d)
      PROVE  Backed(i, d)'
  <2>1. CASE RowsWith(table, i) = {d}
    BY <1>1, <2>1, Zenon DEF Backed
  <2>2. CASE \E c \in Call : Announces(c, i, d)
    <3>1. PICK c \in Call : Announces(c, i, d)
      BY <2>2
    <3>2. Announces(c, i, d)'
      BY <1>1, <3>1, Zenon DEF Announces, Item
    <3> QED
      BY <3>2, Zenon DEF Backed
  <2> QED
    BY <1>2, <2>1, <2>2, Zenon DEF Backed
<1>3. EntriesHonest'
  BY <1>1, <1>2, Zenon DEF EntriesHonest, Shows
<1>4. AnswersHonest'
  BY <1>1, <1>2, Zenon DEF AnswersHonest, Shows
<1> QED
  BY <1>3, <1>4

\* A step of c that touches neither store, and leaves no announcement behind.
LEMMA MoveKeeps ==
    ASSUME HeroInv, NEW c \in Call, UNCHANGED <<stores, idx>>,
           NEW p \in {"query", "next", "done", "failed"}, pc' = [pc EXCEPT ![c] = p],
           p = "query" => left[c] # <<>> /\ ~req[c].write,
           pc[c] \in {"insert", "failed"} => p = "failed"
    PROVE  HeroInv'
<1> USE DEF HeroInv, stores
<1>1. pc \in [Call -> Places]
  BY DEF TypeOK
<1>2. TypeOK' /\ Shape'
  BY <1>1 DEF TypeOK, Shape, Places
<1>3. Positions'
  BY <1>1 DEF Positions, Position
<1>4. Suffixes'
  BY DEF Suffixes, Suffix
<1>5. Olds'
  BY <1>1 DEF Olds, Old, Item
<1>6. Answereds'
  BY DEF Answereds, Answered
<1>7. Grown'
  <2>1. \A b \in Call : pc'[b] \in {"put", "insert"} =>
           pc[b] \in {"put", "insert"} /\ idx'[b] = idx[b]
    BY <1>1
  <2> QED
    BY <2>1, GrownStays
<1>8. WritesLand'
  BY WritesStay
<1>9. EntriesHonest' /\ AnswersHonest'
  <2>1. \A b \in Call : pc[b] \in {"insert", "failed"} =>
           pc'[b] \in {"insert", "failed"} /\ idx'[b] = idx[b]
    BY <1>1
  <2> QED
    BY <2>1, HonestStays
<1> QED
  BY <1>2, <1>3, <1>4, <1>5, <1>6, <1>7, <1>8, <1>9

LEMMA GetIdxKeeps ==
    ASSUME HeroInv, NEW c \in Call, GetIdx(c)
    PROVE  HeroInv'
<1> USE DEF HeroInv, Step
<1>1. /\ UNCHANGED stores /\ pc[c] = "next" /\ req[c].write /\ left[c] # <<>>
      /\ pc' = [pc EXCEPT ![c] = IF req[c].useCache THEN "put" ELSE "insert"]
      /\ pc \in [Call -> Places] /\ idx \in [Call -> Id \union {None}]
  BY DEF GetIdx, stores, TypeOK
<1>2. PICK i \in Id : /\ \A k \in DOMAIN table : k =< i - 1
                      /\ i - 1 \in DOMAIN table
                      /\ idx' = [idx EXCEPT ![c] = i]
  BY DEF GetIdx
<1>3. TypeOK' /\ Shape'
  BY <1>1, <1>2 DEF TypeOK, Shape, Places, stores
<1>4. Positions'
  BY <1>1, <1>2 DEF Positions, Position, stores
<1>5. Suffixes'
  BY <1>1 DEF Suffixes, Suffix, stores
<1>6. Olds'
  BY <1>1 DEF Olds, Old, Item, stores
<1>7. Answereds'
  BY <1>1 DEF Answereds, Answered, stores
<1>8. Grown'
  <2> SUFFICES ASSUME NEW b \in Call PROVE Above(b)'
    BY <1>1 DEF Grown, stores
  <2>1. table' = table
    BY <1>1 DEF stores
  <2>2. CASE b = c
    <3>1. idx'[b] = i /\ i \in Nat /\ \A k \in DOMAIN table : k \in Nat
      BY <1>1, <1>2, <2>2, MaxIdAssumption DEF TypeOK, Id
    <3>2. ASSUME NEW k \in DOMAIN table, k >= i PROVE FALSE
      BY <1>2, <3>1, <3>2
    <3> QED
      BY <1>2, <2>1, <3>1, <3>2 DEF Above
  <2>3. CASE b # c
    <3>1. idx'[b] = idx[b] /\ pc'[b] = pc[b]
      BY <1>1, <1>2, <2>3
    <3> QED
      BY <2>1, <3>1 DEF Grown, Above
  <2> QED
    BY <2>2, <2>3
<1>9. WritesLand'
  BY <1>1, WritesStay DEF stores
<1>10. EntriesHonest' /\ AnswersHonest'
  <2>1. \A b \in Call : pc[b] \in {"insert", "failed"} =>
           pc'[b] \in {"insert", "failed"} /\ idx'[b] = idx[b]
    BY <1>1, <1>2
  <2> QED
    BY <1>1, <2>1, HonestStays DEF stores
<1> QED
  BY <1>3, <1>4, <1>5, <1>6, <1>7, <1>8, <1>9, <1>10

LEMMA QueryKeeps ==
    ASSUME HeroInv, NEW c \in Call, Query(c)
    PROVE  HeroInv'
<1> USE DEF HeroInv, Step
<1>1. /\ UNCHANGED <<table, cache, req, left, idx, result>> /\ pc[c] = "query"
      /\ pc' = [pc EXCEPT ![c] = "fill"] /\ pc \in [Call -> Places]
      /\ found' = [found EXCEPT ![c] = RowsWith(Seen(c), Item(c))]
      /\ snap' = [snap EXCEPT ![c] = Seen(c)]
      /\ left[c] # <<>> /\ ~req[c].write
  BY DEF Query, TypeOK, Positions, Position
<1>2. \A i \in DOMAIN Seen(c) : i \in DOMAIN table /\ Seen(c)[i] = table[i]
  BY DEF Seen, Olds, Old
<1>3. /\ RowsWith(Seen(c), Item(c)) \in RowSets
      /\ \A d \in RowsWith(Seen(c), Item(c)) : Item(c) \in DOMAIN table /\ table[Item(c)] = d
  <2>1. CASE Item(c) \in DOMAIN Seen(c)
    <3>1. RowsWith(Seen(c), Item(c)) = {Seen(c)[Item(c)]}
      BY <2>1 DEF RowsWith
    <3>2. Item(c) \in DOMAIN table /\ Seen(c)[Item(c)] = table[Item(c)] /\ table[Item(c)] \in Data
      BY <1>2, <2>1 DEF TypeOK
    <3> QED
      BY <3>1, <3>2 DEF RowSets
  <2>2. CASE Item(c) \notin DOMAIN Seen(c)
    <3>1. RowsWith(Seen(c), Item(c)) = {}
      BY <2>2 DEF RowsWith
    <3> QED
      BY <3>1 DEF RowSets
  <2> QED
    BY <2>1, <2>2
<1>4. TypeOK'
  BY <1>1 DEF TypeOK, Places
<1>5. Shape'
  BY <1>1, <1>3 DEF Shape
<1>6. Positions'
  BY <1>1 DEF Positions, Position
<1>7. Suffixes'
  BY <1>1 DEF Suffixes, Suffix
<1>8. Olds'
  <2> SUFFICES ASSUME NEW b \in Call PROVE Old(b)'
    BY DEF Olds
  <2>1. Item(b)' = Item(b) /\ table' = table
    BY <1>1 DEF Item
  <2>2. CASE b = c
    <3>1. snap'[c] = Seen(c) /\ found'[c] = RowsWith(Seen(c), Item(c))
      BY <1>1 DEF Shape
    <3> QED
      BY <1>2, <1>3, <2>1, <2>2, <3>1 DEF Old
  <2>3. CASE b # c
    <3>1. snap'[b] = snap[b] /\ found'[b] = found[b] /\ pc'[b] = pc[b]
      BY <1>1, <2>3 DEF Shape
    <3> QED
      BY <2>1, <3>1 DEF Olds, Old
  <2> QED
    BY <2>2, <2>3
<1>9. Answereds'
  BY <1>1 DEF Answereds, Answered
<1>10. Grown'
  <2>1. \A b \in Call : pc'[b] \in {"put", "insert"} =>
           pc[b] \in {"put", "insert"} /\ idx'[b] = idx[b]
    BY <1>1
  <2> QED
    BY <1>1, <2>1, GrownStays
<1>11. WritesLand'
  BY <1>1, WritesStay
<1>12. EntriesHonest' /\ AnswersHonest'
  <2>1. \A b \in Call : pc[b] \in {"insert", "failed"} =>
           pc'[b] \in {"insert", "failed"} /\ idx'[b] = idx[b]
    BY <1>1
  <2> QED
    BY <1>1, <2>1, HonestStays
<1> QED
  BY <1>4, <1>5, <1>6, <1>7, <1>8, <1>9, <1>10, <1>11, <1>12

-----------------------------------------------------------------------------
\* What happens to the lists when c has treated its present item.
LEMMA TakenOff ==
    ASSUME TypeOK, Shape, Suffixes, NEW c \in Call, left[c] # <<>>,
           left' = [left EXCEPT ![c] = Tail(@)], UNCHANGED req
    PROVE  /\ left' \in [Call -> Seq(Id \union Data)]
           /\ Len(left'[c]) = Len(left[c]) - 1 /\ Len(left[c]) \in Nat \ {0}
           /\ \A b \in Call \ {c} : left'[b] = left[b]
           /\ Suffixes'
<1>1. left[c] \in Seq(Id \union Data) /\ left \in [Call -> Seq(Id \union Data)]
  BY DEF Shape
<1>2. /\ Tail(left[c]) \in Seq(Id \union Data) /\ Len(Tail(left[c])) = Len(left[c]) - 1
      /\ \A k \in 1..(Len(left[c]) - 1) : Tail(left[c])[k] = left[c][k + 1]
  BY <1>1, TailIs
<1>3. Len(left[c]) \in Nat \ {0}
  BY <1>1
<1>4. /\ left' \in [Call -> Seq(Id \union Data)] /\ left'[c] = Tail(left[c])
      /\ \A b \in Call \ {c} : left'[b] = left[b]
  BY <1>1, <1>2
<1>5. ASSUME NEW b \in Call PROVE Suffix(b)'
  <2>1. CASE b # c
    BY <1>4, <2>1 DEF Suffixes, Suffix
  <2>2. CASE b = c
    <3> DEFINE n == Len(req[c].items)
    <3> DEFINE m == Len(left[c])
    <3>1. n \in Nat
      BY ItemIs
    <3>2. /\ m =< n
          /\ \A k \in 1..m : left[c][k] = req[c].items[n - m + k]
      BY DEF Suffixes, Suffix
    <3>3. ASSUME NEW k \in 1..(m - 1) PROVE Tail(left[c])[k] = req[c].items[n - (m - 1) + k]
      <4>1. Tail(left[c])[k] = left[c][k + 1]
        BY <1>2
      <4>2. k + 1 \in 1..m /\ n - m + (k + 1) = n - (m - 1) + k
        <5>1. m \in Nat
          BY <1>3
        <5> HIDE DEF m, n
        <5> QED
          BY <3>1, <5>1
      <4>3. left[c][k + 1] = req[c].items[n - m + (k + 1)]
        BY <3>2, <4>2
      <4> QED
        BY <4>1, <4>2, <4>3
    <3>4. Len(left'[c]) = m - 1 /\ left'[c] = Tail(left[c]) /\ req' = req /\ m - 1 =< n
      BY <1>2, <1>3, <1>4, <3>1, <3>2
    <3> HIDE DEF m, n
    <3>5. Len(left'[c]) =< n /\ \A k \in 1..Len(left'[c]) :
             left'[c][k] = req[c].items[n - Len(left'[c]) + k]
      BY <3>3, <3>4
    <3> QED
      BY <2>2, <3>4, <3>5 DEF Suffix, n
  <2> QED
    BY <2>1, <2>2
<1> QED
  BY <1>2, <1>3, <1>4, <1>5 DEF Suffixes

LEMMA BackedStays ==
    ASSUME NEW c \in Call, NEW i, NEW d, Backed(i, d), UNCHANGED <<table, req, idx>>,
           \A b \in Call \ {c} : left'[b] = left[b] /\ pc'[b] = pc[b],
           Announces(c, i, d) => Announces(c, i, d)'
    PROVE  Backed(i, d)'
<1>1. table' = table /\ req' = req /\ idx' = idx
  OBVIOUS
<1>2. CASE RowsWith(table, i) = {d}
  BY <1>1, <1>2, Zenon DEF Backed
<1>3. CASE \E b \in Call : Announces(b, i, d)
  <2>1. PICK b \in Call : Announces(b, i, d)
    BY <1>3
  <2>2. Announces(b, i, d)'
    <3>1. CASE b = c
      BY <2>1, <3>1
    <3>2. CASE b # c
      <4>1. left'[b] = left[b] /\ pc'[b] = pc[b]
        BY <3>2
      <4> QED
        BY <1>1, <2>1, <4>1, Zenon DEF Announces, Item
    <3> QED
      BY <3>1, <3>2
  <2> QED
    BY <2>2, Zenon DEF Backed
<1> QED
  BY <1>2, <1>3 DEF Backed

\* What a step keeps that gives a reader the value of its item.
Collected == Shape /\ Positions /\ Suffixes /\ Olds /\ Answereds /\ Grown /\ WritesLand

\* A reader has got the value v of its item; the item of the answer it fills is
\* the item asked for.
LEMMA CollectTypes ==
    ASSUME HeroInv, NEW c \in Call, left[c] # <<>>, ~req[c].write, NEW v \in Value, Collect(c, v),
           UNCHANGED <<table, req, idx, snap, found>>,
           pc' = [pc EXCEPT ![c] = "next"], pc[c] \notin {"put", "insert"}
    PROVE  Collected'
           /\ (\A b \in Call : \A k \in DOMAIN result'[b] :
                  \/ k \in DOMAIN result[b] /\ result'[b][k] = result[b][k]
                  \/ b = c /\ result'[b][k] = v /\ req[b].items[k] = Item(c))
           /\ \A b \in Call : /\ Len(left'[b]) + Len(result'[b]) =< Len(req'[b].items)
                              /\ \A k \in DOMAIN result'[b] : result'[b][k] \in Value
<1> USE DEF HeroInv
<1>1. /\ left' = [left EXCEPT ![c] = Tail(@)] /\ result' = [result EXCEPT ![c] = Append(@, v)]
      /\ table' = table /\ req' = req /\ idx' = idx /\ snap' = snap /\ found' = found
      /\ pc \in [Call -> Places]
  BY DEF Collect, TypeOK
<1>2. /\ left' \in [Call -> Seq(Id \union Data)]
      /\ Len(left'[c]) = Len(left[c]) - 1 /\ Len(left[c]) \in Nat \ {0}
      /\ \A b \in Call \ {c} : left'[b] = left[b]
      /\ Suffixes'
  BY <1>1, TakenOff
<1>3. /\ result' \in [Call -> Seq(Value)] /\ Len(result'[c]) = Len(result[c]) + 1
      /\ Len(result[c]) \in Nat /\ \A b \in Call \ {c} : result'[b] = result[b]
  BY <1>1 DEF Shape
<1>4. Shape'
  BY <1>1, <1>2, <1>3 DEF Shape
<1>5. Positions'
  BY <1>1, <1>2 DEF Positions, Position
<1>6. Olds'
  <2> SUFFICES ASSUME NEW b \in Call PROVE Old(b)'
    BY DEF Olds
  <2>1. CASE b = c
    BY <1>1, <2>1 DEF Olds, Old
  <2>2. CASE b # c
    <3>1. left'[b] = left[b] /\ pc'[b] = pc[b]
      BY <1>1, <1>2, <2>2
    <3> QED
      BY <1>1, <3>1 DEF Olds, Old, Item
  <2> QED
    BY <2>1, <2>2
<1>7. WritesLand'
  <2>1. \A b \in Call : req[b].write => left'[b] = left[b]
    BY <1>2
  <2> QED
    BY <1>1, <2>1, WritesStay
<1>9. Answereds'
  <2> SUFFICES ASSUME NEW b \in Call PROVE Answered(b)'
    BY DEF Answereds
  <2>1. Answered(b) /\ Len(req[b].items) \in Nat
    <3>1. req[b] \in Requests
      BY DEF TypeOK
    <3> QED
      BY <3>1, ItemsAre DEF Answereds
  <2>2. CASE b = c
    <3>1. Len(left[c]) + Len(result[c]) = Len(req[c].items)
      BY <2>1, <2>2 DEF Answered
    <3> DEFINE x == Len(left[c])
    <3> DEFINE y == Len(result[c])
    <3>2. x \in Nat /\ y \in Nat /\ Len(left'[c]) = x - 1 /\ Len(result'[c]) = y + 1
      BY <1>2, <1>3
    <3>3. \A p, q \in Nat : p - 1 + (q + 1) = p + q
      OBVIOUS
    <3> HIDE DEF x, y
    <3>4. Len(left'[c]) + Len(result'[c]) = x + y
      BY <3>2, <3>3
    <3> QED
      BY <1>1, <2>2, <3>1, <3>4 DEF Answered, x, y
  <2>3. CASE b # c
    BY <1>1, <1>2, <1>3, <2>1, <2>3 DEF Answered
  <2> QED
    BY <2>2, <2>3
<1>10. Grown'
  <2>1. \A b \in Call : pc'[b] \in {"put", "insert"} =>
           pc[b] \in {"put", "insert"} /\ idx'[b] = idx[b]
    BY <1>1
  <2> QED
    BY <1>1, <2>1, GrownStays
<1>11. ASSUME NEW b \in Call, NEW k \in DOMAIN result'[b]
       PROVE  \/ k \in DOMAIN result[b] /\ result'[b][k] = result[b][k]
              \/ b = c /\ result'[b][k] = v /\ req[b].items[k] = Item(c)
  <2>1. CASE b # c
    BY <1>3, <2>1
  <2>2. CASE b = c
    <3> DEFINE n == Len(result[c])
    <3>1. /\ result[c] \in Seq(Value) /\ result'[c] = Append(result[c], v)
          /\ DOMAIN result[c] = 1..n /\ n \in Nat
      BY <1>1 DEF Shape
    <3>2. DOMAIN result'[c] = 1..(n + 1)
      BY <3>1
    <3>3. /\ result'[c][n + 1] = v
          /\ \A j \in 1..n : result'[c][j] = result[c][j]
      BY <3>1
    <3>4. req[c].items[n + 1] = Item(c)
      <4>1. /\ Len(left[c]) \in Nat \ {0} /\ Len(req[c].items) \in Nat
            /\ Item(c) = req[c].items[Len(req[c].items) - Len(left[c]) + 1]
        BY ItemIs
      <4>2. Len(left[c]) + n = Len(req[c].items)
        BY DEF Answereds, Answered
      <4>3. Len(req[c].items) - Len(left[c]) + 1 = n + 1
        <5> DEFINE x == Len(left[c])
        <5> DEFINE y == Len(req[c].items)
        <5>1. x \in Nat /\ y \in Nat /\ n \in Nat /\ x + n = y
          BY <3>1, <4>1, <4>2
        <5> HIDE DEF x, y, n
        <5>2. y - x + 1 = n + 1
          BY <5>1
        <5> QED
          BY <5>2 DEF x, y
      <4> QED
        BY <4>1, <4>3
    <3> HIDE DEF n
    <3>5. k \in 1..n \/ k = n + 1
      BY <2>2, <3>1, <3>2
    <3> QED
      BY <2>2, <3>1, <3>3, <3>4, <3>5
  <2> QED
    BY <2>1, <2>2
<1>8. ASSUME NEW b \in Call
      PROVE  /\ Len(left'[b]) + Len(result'[b]) =< Len(req'[b].items)
             /\ \A k \in DOMAIN result'[b] : result'[b][k] \in Value
  <2>1. \A k \in DOMAIN result'[b] : result'[b][k] \in Value
    <3>1. result'[b] \in Seq(Value)
      BY <1>3
    <3> QED
      BY <3>1
  <2>2. Len(left[b]) + Len(result[b]) =< Len(req[b].items)
    BY DEF TypeOK
  <2>3. CASE b = c
    BY <1>1, <1>2, <1>3, <2>1, <2>2, <2>3
  <2>4. CASE b # c
    <3>1. left'[b] = left[b] /\ result'[b] = result[b]
      BY <1>2, <1>3, <2>4
    <3> QED
      BY <1>1, <2>1, <2>2, <3>1
  <2> QED
    BY <2>3, <2>4
<1>12. Collected'
  BY <1>2, <1>4, <1>5, <1>6, <1>7, <1>9, <1>10 DEF Collected
<1> QED
  BY <1>8, <1>11, <1>12

LEMMA HitKeeps ==
    ASSUME HeroInv, NEW c \in Call, Hit(c)
    PROVE  HeroInv'
<1> USE DEF HeroInv, Step
<1>1. /\ pc[c] = "next" /\ pc' = [pc EXCEPT ![c] = "next"] /\ ~req[c].write /\ left[c] # <<>>
      /\ table' = table /\ cache' = cache /\ req' = req /\ idx' = idx
      /\ UNCHANGED <<snap, found>> /\ pc \in [Call -> Places]
      /\ Collect(c, cache[Item(c)].value) /\ cache[Item(c)].value \in Value
  BY DEF Hit, TypeOK, Entry
<1>2. /\ Collected'
      /\ \A b \in Call : /\ Len(left'[b]) + Len(result'[b]) =< Len(req'[b].items)
                         /\ \A k \in DOMAIN result'[b] : result'[b][k] \in Value
      /\ \A b \in Call : \A k \in DOMAIN result'[b] :
            \/ k \in DOMAIN result[b] /\ result'[b][k] = result[b][k]
            \/ b = c /\ result'[b][k] = cache[Item(c)].value /\ req[b].items[k] = Item(c)
  BY <1>1, CollectTypes
<1>3. TypeOK'
  BY <1>1, <1>2 DEF TypeOK, Places
<1>4. EntriesHonest' /\ AnswersHonest'
  <2>1. \A b \in Call \ {c} : left'[b] = left[b] /\ pc'[b] = pc[b]
    BY <1>1, TakenOff DEF Collect
  <2>2. ASSUME NEW i, NEW d, Backed(i, d) PROVE Backed(i, d)'
    BY <1>1, <2>1, <2>2, BackedStays DEF Announces
  <2>3. EntriesHonest'
    BY <1>1, <2>2, Zenon DEF EntriesHonest, Shows
  <2>4. \A d \in Shows(cache[Item(c)].value) : Backed(Item(c), d)
    <3>1. Item(c) \in DOMAIN cache
      BY DEF Hit
    <3> QED
      BY <3>1 DEF EntriesHonest
  <2>5. ASSUME NEW b \in Call, NEW k \in DOMAIN result'[b], NEW d \in Shows(result'[b][k])
        PROVE  Backed(req[b].items[k], d)
    <3>1. CASE k \in DOMAIN result[b] /\ result'[b][k] = result[b][k]
      BY <2>5, <3>1 DEF AnswersHonest
    <3>2. CASE b = c /\ result'[b][k] = cache[Item(c)].value /\ req[b].items[k] = Item(c)
      BY <2>4, <3>2
    <3> QED
      BY <1>2, <3>1, <3>2
  <2>6. AnswersHonest'
    BY <1>1, <2>2, <2>5, Zenon DEF AnswersHonest, Shows
  <2> QED
    BY <2>3, <2>6
<1> QED
  BY <1>2, <1>3, <1>4 DEF Collected

LEMMA SetIs ==
    ASSUME NEW i, NEW v, Set(i, v), DOMAIN cache \subseteq Id
    PROVE  /\ DOMAIN cache' = DOMAIN cache \union {i}
           /\ cache'[i].value = v /\ cache'[i] = ForTTL(v)
           /\ \A k \in DOMAIN cache \ {i} : cache'[k] = cache[k]
BY DEF Set, ForTTL

LEMMA SetTypes ==
    ASSUME TypeOK, NEW i \in Id, NEW v \in Value, Set(i, v)
    PROVE  DOMAIN cache' \subseteq Id /\ \A k \in DOMAIN cache' : cache'[k] \in Entry
<1>1. ForTTL(v) \in Entry
  BY DEF ForTTL, Entry
<1>2. DOMAIN cache \subseteq Id /\ \A k \in DOMAIN cache : cache[k] \in Entry
  BY DEF TypeOK
<1>3. /\ DOMAIN cache' = DOMAIN cache \union {i} /\ cache'[i] = ForTTL(v)
      /\ \A k \in DOMAIN cache \ {i} : cache'[k] = cache[k]
  BY <1>2, SetIs
<1> HIDE DEF Entry
<1> QED
  BY <1>1, <1>2, <1>3

LEMMA FillKeeps ==
    ASSUME HeroInv, NEW c \in Call, Fill(c)
    PROVE  HeroInv'
<1> USE DEF HeroInv, Step
<1>1. /\ pc[c] = "fill" /\ pc' = [pc EXCEPT ![c] = "next"] /\ ~req[c].write /\ left[c] # <<>>
      /\ table' = table /\ req' = req /\ idx' = idx
      /\ UNCHANGED <<snap, found>> /\ pc \in [Call -> Places]
      /\ Collect(c, found[c]) /\ found[c] \in RowSets /\ found[c] \in Value
      /\ Set(Item(c), found[c])
  BY DEF Fill, TypeOK, Positions, Position, Shape, RowSets, Value
<1>2. /\ Collected'
      /\ \A b \in Call : /\ Len(left'[b]) + Len(result'[b]) =< Len(req'[b].items)
                         /\ \A k \in DOMAIN result'[b] : result'[b][k] \in Value
      /\ \A b \in Call : \A k \in DOMAIN result'[b] :
            \/ k \in DOMAIN result[b] /\ result'[b][k] = result[b][k]
            \/ b = c /\ result'[b][k] = found[c] /\ req[b].items[k] = Item(c)
  BY <1>1, CollectTypes
<1>3. Item(c) \in Id
  BY <1>1, ItemIs
<1>4. TypeOK'
  BY <1>1, <1>2, <1>3, SetTypes DEF TypeOK, Places
<1>5. EntriesHonest' /\ AnswersHonest'
  <2>1. \A b \in Call \ {c} : left'[b] = left[b] /\ pc'[b] = pc[b]
    BY <1>1, TakenOff DEF Collect
  <2>2. ASSUME NEW i, NEW d, Backed(i, d) PROVE Backed(i, d)'
    BY <1>1, <2>1, <2>2, BackedStays DEF Announces
  <2>3. ASSUME NEW d \in found[c] PROVE Backed(Item(c), d)
    <3>1. Item(c) \in DOMAIN table /\ table[Item(c)] = d
      BY <1>1 DEF Olds, Old
    <3> QED
      BY <3>1, RowsWithIs DEF Backed
  <2>4. Shows(found[c]) = found[c]
    BY <1>1, ShowsRows
  <2>5. /\ DOMAIN cache' = DOMAIN cache \union {Item(c)} /\ cache'[Item(c)].value = found[c]
        /\ \A k \in DOMAIN cache \ {Item(c)} : cache'[k] = cache[k]
    BY <1>1, SetIs DEF TypeOK
  <2>6. ASSUME NEW i \in DOMAIN cache', NEW d \in Shows(cache'[i].value) PROVE Backed(i, d)'
    <3>1. CASE i = Item(c)
      <4>1. d \in found[c]
        BY <2>4, <2>5, <3>1
      <4> QED
        BY <2>2, <2>3, <3>1, <4>1
    <3>2. CASE i # Item(c)
      <4>1. i \in DOMAIN cache /\ cache'[i] = cache[i]
        BY <2>5, <3>2
      <4>2. Backed(i, d)
        BY <4>1 DEF EntriesHonest
      <4> QED
        BY <2>2, <4>2
    <3> QED
      BY <3>1, <3>2
  <2>7. EntriesHonest'
    BY <2>6, Zenon DEF EntriesHonest, Shows
  <2>8. ASSUME NEW b \in Call, NEW k \in DOMAIN result'[b], NEW d \in Shows(result'[b][k])
        PROVE  Backed(req[b].items[k], d)
    <3>1. CASE k \in DOMAIN result[b] /\ result'[b][k] = result[b][k]
      BY <2>8, <3>1 DEF AnswersHonest
    <3>2. CASE b = c /\ result'[b][k] = found[c] /\ req[b].items[k] = Item(c)
      BY <2>3, <2>4, <3>2
    <3> QED
      BY <1>2, <3>1, <3>2
  <2>9. AnswersHonest'
    BY <1>1, <2>2, <2>8, Zenon DEF AnswersHonest, Shows
  <2> QED
    BY <2>7, <2>9
<1> QED
  BY <1>2, <1>4, <1>5 DEF Collected

LEMMA PutKeeps ==
    ASSUME HeroInv, NEW c \in Call, Put(c)
    PROVE  HeroInv'
<1> USE DEF HeroInv, Step
<1>1. /\ pc[c] = "put" /\ pc' = [pc EXCEPT ![c] = "insert"] /\ left[c] # <<>>
      /\ table' = table /\ req' = req /\ idx' = idx /\ left' = left
      /\ UNCHANGED <<snap, found, result>> /\ pc \in [Call -> Places]
      /\ Set(idx[c], Item(c)) /\ idx[c] \in Id
  BY DEF Put, TypeOK, Positions, Position
<1>2. req[c].write /\ req[c].useCache
  BY <1>1 DEF Positions, Position
<1>3. Item(c) \in Data /\ Item(c) \in Value
  BY <1>1, <1>2, ItemIs DEF Value
<1>4. TypeOK'
  BY <1>1, <1>3, SetTypes DEF TypeOK, Places
<1>5. Shape'
  BY <1>1 DEF Shape
<1>6. Positions'
  BY <1>1, <1>2 DEF Positions, Position
<1>7. Suffixes'
  BY <1>1 DEF Suffixes, Suffix
<1>8. Olds'
  BY <1>1 DEF Olds, Old, Item
<1>9. Answereds'
  BY <1>1 DEF Answereds, Answered
<1>10. Grown'
  <2>1. \A b \in Call : pc'[b] \in {"put", "insert"} =>
           pc[b] \in {"put", "insert"} /\ idx'[b] = idx[b]
    BY <1>1
  <2> QED
    BY <1>1, <2>1, GrownStays
<1>11. WritesLand'
  BY <1>1, WritesStay
<1>12. EntriesHonest' /\ AnswersHonest'
  <2>1. \A b \in Call \ {c} : left'[b] = left[b] /\ pc'[b] = pc[b]
    BY <1>1
  <2>2. ASSUME NEW i, NEW d, Backed(i, d) PROVE Backed(i, d)'
    BY <1>1, <2>1, <2>2, BackedStays DEF Announces
  <2>3. Backed(idx[c], Item(c))'
    <3>1. pc'[c] = "insert" /\ Item(c)' = Item(c)
      BY <1>1 DEF Item
    <3>2. Announces(c, idx[c], Item(c))'
      BY <1>1, <1>2, <3>1 DEF Announces
    <3> QED
      BY <3>2, Zenon DEF Backed
  <2>4. /\ DOMAIN cache' = DOMAIN cache \union {idx[c]} /\ cache'[idx[c]].value = Item(c)
        /\ \A k \in DOMAIN cache \ {idx[c]} : cache'[k] = cache[k]
    BY <1>1, SetIs DEF TypeOK
  <2>5. ASSUME NEW i \in DOMAIN cache', NEW d \in Shows(cache'[i].value) PROVE Backed(i, d)'
    <3>1. CASE i = idx[c]
      <4>1. d = Item(c) /\ Item(c)' = Item(c) /\ idx' = idx
        BY <1>1, <1>3, <2>4, <3>1 DEF Shows, Item
      <4> QED
        BY <2>3, <3>1, <4>1, Zenon
    <3>2. CASE i # idx[c]
      <4>1. i \in DOMAIN cache /\ cache'[i] = cache[i]
        BY <2>4, <3>2
      <4>2. Backed(i, d)
        BY <4>1 DEF EntriesHonest
      <4> QED
        BY <2>2, <4>2
    <3> QED
      BY <3>1, <3>2
  <2>6. EntriesHonest'
    BY <2>5, Zenon DEF EntriesHonest, Shows
  <2>7. AnswersHonest'
    <3>1. result' = result
      BY <1>1
    <3> QED
      BY <1>1, <2>2, <3>1, Zenon DEF AnswersHonest, Shows
  <2> QED
    BY <2>6, <2>7
<1> QED
  BY <1>4, <1>5, <1>6, <1>7, <1>8, <1>9, <1>10, <1>11, <1>12

LEMMA InsertKeeps ==
    ASSUME HeroInv, NEW c \in Call, Insert(c)
    PROVE  HeroInv'
<1> USE DEF HeroInv, Step
<1>1. /\ pc[c] = "insert" /\ pc' = [pc EXCEPT ![c] = "next"] /\ left[c] # <<>>
      /\ cache' = cache /\ req' = req /\ idx' = idx
      /\ UNCHANGED <<snap, found, result>> /\ pc \in [Call -> Places]
      /\ idx[c] \in Id /\ idx[c] \notin DOMAIN table
      /\ left' = [left EXCEPT ![c] = Tail(@)]
  BY DEF Insert, TypeOK, Positions, Position
<1>2. req[c].write
  BY <1>1 DEF Positions, Position
<1>3. /\ DOMAIN table' = DOMAIN table \union {idx[c]} /\ table'[idx[c]] = Item(c)
      /\ \A k \in DOMAIN table : table'[k] = table[k]
  BY <1>1 DEF Insert
<1>4. /\ Item(c) \in Data /\ Item(c) = req[c].items[Len(req[c].items) - Len(left[c]) + 1]
      /\ Len(req[c].items) \in Nat
  BY <1>1, <1>2, ItemIs
<1>5. /\ left' \in [Call -> Seq(Id \union Data)]
      /\ Len(left'[c]) = Len(left[c]) - 1 /\ Len(left[c]) \in Nat \ {0}
      /\ \A b \in Call \ {c} : left'[b] = left[b]
      /\ Suffixes'
  BY <1>1, TakenOff
<1>6. TypeOK'
  <2>1. DOMAIN table' \subseteq Id /\ \A i \in DOMAIN table' : table'[i] \in Data
    BY <1>1, <1>3, <1>4 DEF TypeOK
  <2>2. ASSUME NEW b \in Call PROVE Len(left'[b]) + Len(result[b]) =< Len(req[b].items)
    <3>1. Len(left[b]) + Len(result[b]) =< Len(req[b].items) /\ Len(result[b]) \in Nat
      BY DEF TypeOK, Shape
    <3>2. CASE b = c
      <4>1. /\ Len(left'[b]) = Len(left[b]) - 1
            /\ Len(left[b]) \in Nat /\ Len(req[b].items) \in Nat
        BY <1>4, <1>5, <3>2
      <4>2. \A x, y, n \in Nat : x + y =< n => x - 1 + y =< n
        OBVIOUS
      <4> QED
        BY <3>1, <4>1, <4>2
    <3>3. CASE b # c
      <4>1. left'[b] = left[b]
        BY <1>5, <3>3
      <4> QED
        BY <3>1, <4>1
    <3> QED
      BY <3>2, <3>3
  <2> QED
    BY <1>1, <2>1, <2>2 DEF TypeOK, Places
<1>7. Shape'
  BY <1>1, <1>5 DEF Shape
<1>8. Positions'
  BY <1>1, <1>5 DEF Positions, Position
<1>9. Olds'
  <2> SUFFICES ASSUME NEW b \in Call PROVE Old(b)'
    BY DEF Olds
  <2>1. snap' = snap /\ found' = found /\ (pc'[b] = "fill" => pc[b] = "fill" /\ b # c)
    BY <1>1
  <2>2. pc'[b] = "fill" => Item(b)' = Item(b)
    BY <1>5, <2>1 DEF Item
  <2>3. snap[b] # None => \A i \in DOMAIN snap[b] : i \in DOMAIN table' /\ snap[b][i] = table'[i]
    BY <1>3 DEF Olds, Old
  <2>4. pc'[b] = "fill" => \A d \in found[b] : Item(b) \in DOMAIN table' /\ table'[Item(b)] = d
    BY <1>3, <2>1 DEF Olds, Old
  <2> QED
    BY <2>1, <2>2, <2>3, <2>4 DEF Old
<1>10. Answereds'
  <2> SUFFICES ASSUME NEW b \in Call PROVE Answered(b)'
    BY DEF Answereds
  <2>1. CASE b = c
    BY <1>1, <1>2, <2>1 DEF Answered
  <2>2. CASE b # c
    BY <1>1, <1>5, <2>2 DEF Answereds, Answered
  <2> QED
    BY <2>1, <2>2
<1>11. \A i \in DOMAIN table : i < idx[c]
  <2>1. pc[c] = "insert" /\ idx[c] \notin DOMAIN table
    BY <1>1
  <2>2. \A i \in DOMAIN table : ~(i >= idx[c])
    BY <2>1 DEF Grown, Above
  <2>3. idx[c] \in Nat /\ \A i \in DOMAIN table : i \in Nat
    BY <1>1, MaxIdAssumption DEF TypeOK, Id
  <2> QED
    BY <2>2, <2>3
<1>12. Grown'
  <2>1. DOMAIN Rows \subseteq DOMAIN table'
    BY <1>3 DEF Grown
  <2>2. ASSUME NEW b \in Call PROVE Above(b)'
    <3> SUFFICES ASSUME pc'[b] \in {"put", "insert"}
                 PROVE  /\ idx[b] - 1 \in DOMAIN table'
                        /\ \A i \in DOMAIN table' : i >= idx[b] => idx[b] \in DOMAIN table'
      BY <1>1 DEF Above
    <3>1. pc[b] \in {"put", "insert"}
      BY <1>1
    <3>2. /\ idx[b] - 1 \in DOMAIN table
          /\ \A i \in DOMAIN table : i >= idx[b] => idx[b] \in DOMAIN table
      BY <3>1 DEF Grown, Above
    <3>3. idx[c] \in Nat /\ idx[b] \in Nat /\ idx[b] - 1 < idx[c]
      BY <1>1, <1>11, <3>1, <3>2, MaxIdAssumption DEF Positions, Position, Id
    <3>4. ASSUME NEW i \in DOMAIN table', i >= idx[b] PROVE idx[b] \in DOMAIN table'
      <4>1. CASE i \in DOMAIN table
        BY <1>3, <3>2, <3>4, <4>1
      <4>2. CASE i = idx[c]
        <5>1. CASE idx[b] = idx[c]
          BY <1>3, <5>1
        <5>2. CASE idx[b] < idx[c]
          <6>1. /\ idx[c] - 1 \in DOMAIN table /\ idx[c] - 1 >= idx[b]
            BY <1>1, <3>3, <5>2 DEF Grown, Above
          <6> QED
            BY <1>3, <3>2, <6>1
        <5> QED
          BY <3>3, <3>4, <4>2, <5>1, <5>2
      <4> QED
        BY <1>3, <4>1, <4>2
    <3> QED
      BY <1>3, <3>2, <3>4
  <2> QED
    BY <2>1, <2>2 DEF Grown
<1>13. WritesLand'
  <2> DEFINE n == Len(req[c].items)
  <2> DEFINE m == Len(left[c])
  <2> DEFINE new == <<c, n - m + 1>>
  <2>1. n \in Nat /\ m \in Nat \ {0} /\ Len(left'[c]) = m - 1 /\ req' = req /\ m =< n
    <3>1. Len(left[c]) =< Len(req[c].items)
      BY DEF Suffixes, Suffix
    <3> QED
      BY <1>1, <1>4, <1>5, <3>1
  <2>2. WrittenBy(c) = 1..(n - m) /\ WrittenBy(c)' = 1..(n - (m - 1))
    BY <2>1 DEF WrittenBy
  <2>3. \A b \in Call \ {c} : WrittenBy(b)' = WrittenBy(b)
    BY <1>1, <1>5 DEF WrittenBy
  <2>4. /\ \A b, k : <<b, k>> \in Writings' <=> b \in Call /\ req[b].write /\ k \in WrittenBy(b)'
        /\ \A w \in Writings' : w = <<w[1], w[2]>>
    BY <2>1 DEF Writings
  <2>5. Item(c) = req[c].items[n - m + 1]
    BY <1>4
  <2> HIDE DEF n, m
  <2>6. \A k : k \in 1..(n - (m - 1)) <=> k \in 1..(n - m) \/ k = n - m + 1
    BY <2>1
  <2>7. \A k \in 1..(n - m) : k < n - m + 1
    BY <2>1
  <2>8. ASSUME NEW w \in Writings' PROVE w \in Writings \/ w = new
    <3>1. w = <<w[1], w[2]>> /\ w[1] \in Call /\ req[w[1]].write /\ w[2] \in WrittenBy(w[1])'
      BY <2>4
    <3>2. CASE w[1] # c
      <4>1. w[2] \in WrittenBy(w[1])
        BY <2>3, <3>1, <3>2
      <4>2. <<w[1], w[2]>> \in Writings
        BY <3>1, <4>1, WritingsAre
      <4> QED
        BY <3>1, <4>2
    <3>3. CASE w[1] = c
      <4>1. w[2] \in WrittenBy(c) \/ w[2] = n - m + 1
        BY <2>2, <2>6, <3>1, <3>3
      <4>2. CASE w[2] \in WrittenBy(c)
        <5>1. <<w[1], w[2]>> \in Writings
          BY <3>1, <3>3, <4>2, WritingsAre
        <5> QED
          BY <3>1, <5>1
      <4> QED
        BY <3>1, <3>3, <4>1, <4>2
    <3> QED
      BY <3>2, <3>3
  <2>9. /\ \A w \in Writings : w \in Writings' /\ w[1] \in Call /\ (w[1] = c => w[2] < n - m + 1)
        /\ new \in Writings' /\ new \notin Writings
    <3>1. ASSUME NEW w \in Writings
          PROVE  w \in Writings' /\ w[1] \in Call /\ (w[1] = c => w[2] < n - m + 1)
      <4>1. w = <<w[1], w[2]>> /\ w[1] \in Call /\ req[w[1]].write /\ w[2] \in WrittenBy(w[1])
        BY WritingsAre
      <4>2. w[2] \in WrittenBy(w[1])'
        BY <2>2, <2>3, <2>6, <4>1
      <4>3. <<w[1], w[2]>> \in Writings'
        BY <2>4, <4>1, <4>2
      <4> QED
        BY <2>2, <2>7, <4>1, <4>3
    <3>2. new \in Writings'
      BY <1>2, <2>2, <2>4, <2>6
    <3>3. new \notin Writings
      <4>1. ~(n - m + 1 < n - m + 1)
        BY <2>1
      <4> QED
        BY <3>1, <4>1
    <3> QED
      BY <3>1, <3>2, <3>3
  <2>10. PICK place \in [Writings -> DOMAIN table \ DOMAIN Rows] : IsPlacing(place)
    BY Zenon DEF WritesLand
  <2> DEFINE placed == [w \in Writings' |-> IF w = new THEN idx[c] ELSE place[w]]
  <2>11. new[1] = c /\ new[2] = n - m + 1
    OBVIOUS
  <2> HIDE DEF new
  <2>12. /\ placed[new] = idx[c]
         /\ \A w \in Writings : /\ placed[w] = place[w] /\ place[w] \in DOMAIN table
                                /\ place[w] \notin DOMAIN Rows /\ place[w] < idx[c]
    BY <1>11, <2>9, <2>10
  <2>13. placed \in [Writings' -> DOMAIN table' \ DOMAIN Rows]
    BY <1>1, <1>3, <2>8, <2>10, <2>12 DEF Grown
  <2> HIDE DEF placed
  <2>14. ASSUME NEW w \in Writings' PROVE table'[placed[w]] = req'[w[1]].items[w[2]]
    <3>1. CASE w = new
      BY <1>3, <2>1, <2>5, <2>11, <2>12, <3>1
    <3>2. CASE w \in Writings
      <4>1. table[place[w]] = req[w[1]].items[w[2]]
        BY <2>10, <3>2 DEF IsPlacing
      <4> QED
        BY <1>3, <2>1, <2>12, <3>2, <4>1
    <3> QED
      BY <2>8, <3>1, <3>2
  <2>15. idx[c] \in Nat /\ \A i \in DOMAIN table : i \in Nat
    BY <1>1, MaxIdAssumption DEF TypeOK, Id
  <2>16. ASSUME NEW v \in Writings', NEW w \in Writings', placed[v] = placed[w] PROVE v = w
    <3>1. v \in Writings /\ w \in Writings => v = w
      BY <2>10, <2>12, <2>16 DEF IsPlacing
    <3>2. ASSUME NEW u \in Writings PROVE placed[u] # placed[new]
      <4>1. placed[u] \in Nat /\ placed[u] < idx[c]
        BY <2>12, <2>15
      <4> QED
        BY <2>12, <2>15, <4>1
    <3> QED
      BY <2>8, <2>16, <3>1, <3>2
  <2>17. ASSUME NEW v \in Writings', NEW w \in Writings', v[1] = w[1], v[2] < w[2]
         PROVE  placed[v] < placed[w]
    <3>1. CASE v \in Writings /\ w \in Writings
      <4>1. place[v] < place[w]
        BY <2>10, <2>17, <3>1 DEF IsPlacing
      <4> QED
        BY <2>12, <3>1, <4>1
    <3>2. CASE v \in Writings /\ w = new
      BY <2>12, <3>2
    <3>3. CASE v = new /\ w \in Writings
      <4>1. w[2] < n - m + 1 /\ n - m + 1 < w[2]
        BY <2>9, <2>11, <2>17, <3>3
      <4>2. w[2] \in 1..(n - m)
        <5>1. w[2] \in WrittenBy(c)
          <6>1. w = <<w[1], w[2]>> /\ w[1] = c
            BY <2>11, <2>17, <3>3, WritingsAre
          <6> QED
            BY <3>3, <6>1, WritingsAre
        <5> QED
          BY <2>2, <5>1
      <4>3. w[2] \in Int /\ n - m + 1 \in Int
        BY <2>1, <4>2
      <4> QED
        BY <4>1, <4>3
    <3>4. CASE v = new /\ w = new
      <4>1. n - m + 1 < n - m + 1
        BY <2>11, <2>17, <3>4
      <4> QED
        BY <2>1, <4>1
    <3> QED
      BY <2>8, <3>1, <3>2, <3>3, <3>4
  <2>18. PICK f : f = placed
    OBVIOUS
  <2>19. IsPlacing(f)'
    BY <2>13, <2>14, <2>16, <2>17, <2>18 DEF IsPlacing
  <2> QED
    BY <2>13, <2>18, <2>19, Zenon DEF WritesLand
<1>14. EntriesHonest' /\ AnswersHonest'
  <2>1. ASSUME NEW i, NEW d, Backed(i, d) PROVE Backed(i, d)'
    <3>1. CASE RowsWith(table, i) = {d}
      <4>1. i \in DOMAIN table /\ table[i] = d
        BY <3>1, RowsWithIs
      <4>2. i \in DOMAIN table' /\ table'[i] = d
        BY <1>3, <4>1
      <4>3. RowsWith(table', i) = {d}
        BY <4>2, RowsWithIs
      <4> QED
        BY <4>3, Zenon DEF Backed, RowsWith
    <3>2. CASE \E b \in Call : Announces(b, i, d)
      <4>1. PICK b \in Call : Announces(b, i, d)
        BY <3>2
      <4>2. CASE b = c
        <5>1. idx[c] = i /\ Item(c) = d
          BY <4>1, <4>2, Zenon DEF Announces
        <5>2. RowsWith(table', i) = {d}
          BY <1>3, <5>1, RowsWithIs
        <5> QED
          BY <5>2, Zenon DEF Backed, RowsWith
      <4>3. CASE b # c
        <5>1. left'[b] = left[b] /\ pc'[b] = pc[b]
          BY <1>1, <1>5, <4>3
        <5>2. Announces(b, i, d)'
          BY <1>1, <4>1, <5>1, Zenon DEF Announces, Item
        <5> QED
          BY <5>2, Zenon DEF Backed
      <4> QED
        BY <4>2, <4>3
    <3> QED
      BY <2>1, <3>1, <3>2 DEF Backed
  <2>2. result' = result
    BY <1>1
  <2>3. EntriesHonest'
    BY <1>1, <2>1, Zenon DEF EntriesHonest, Shows
  <2>4. AnswersHonest'
    BY <1>1, <2>1, <2>2, Zenon DEF AnswersHonest, Shows
  <2> QED
    BY <2>3, <2>4
<1> QED
  BY <1>5, <1>6, <1>7, <1>8, <1>9, <1>10, <1>12, <1>13, <1>14

LEMMA ExpireKeeps ==
    ASSUME HeroInv, NEW i \in Id, Expire(i)
    PROVE  HeroInv'
<1> USE DEF HeroInv
<1>1. /\ UNCHANGED <<table, req, pc, left, idx, snap, found, result>>
      /\ DOMAIN cache' \subseteq DOMAIN cache /\ \A k \in DOMAIN cache' : cache'[k] = cache[k]
  BY DEF Expire
<1>2. TypeOK' /\ Shape'
  BY <1>1 DEF TypeOK, Shape
<1>3. Positions' /\ Suffixes' /\ Olds'
  BY <1>1 DEF Positions, Position, Suffixes, Suffix, Olds, Old, Item
<1>4. Answereds' /\ Grown'
  BY <1>1 DEF Answereds, Answered, Grown, Above
<1>5. WritesLand'
  BY <1>1, WritesStay
<1>6. EntriesHonest' /\ AnswersHonest'
  <2>1. table' = table /\ req' = req /\ idx' = idx /\ left' = left /\ pc' = pc /\ result' = result
    BY <1>1
  <2>2. ASSUME NEW k, NEW d, Backed(k, d) PROVE Backed(k, d)'
    BY <2>1, <2>2, Zenon DEF Backed, Announces, Item, RowsWith
  <2>3. ASSUME NEW k \in DOMAIN cache', NEW d \in Shows(cache'[k].value) PROVE Backed(k, d)'
    BY <1>1, <2>2 DEF EntriesHonest
  <2>4. EntriesHonest'
    BY <2>3, Zenon DEF EntriesHonest, Shows
  <2>5. AnswersHonest'
    BY <2>1, <2>2, Zenon DEF AnswersHonest, Shows
  <2> QED
    BY <2>4, <2>5
<1> QED
  BY <1>2, <1>3, <1>4, <1>5, <1>6

\* A call that begins anew takes nothing along: its answer is empty and its
\* connection has seen nothing.  It was a read, so it has announced nothing.
LEMMA InvokeKeeps ==
    ASSUME HeroInv, NEW c \in Call, Invoke(c)
    PROVE  HeroInv'
<1> USE DEF HeroInv, Step
<1>1. /\ pc[c] \in {"done", "failed"} /\ pc' = [pc EXCEPT ![c] = "next"] /\ ~req[c].write
      /\ table' = table /\ cache' = cache /\ idx' = idx
      /\ snap' = [snap EXCEPT ![c] = None] /\ found' = [found EXCEPT ![c] = {}]
      /\ result' = [result EXCEPT ![c] = <<>>] /\ pc \in [Call -> Places]
      /\ req \in [Call -> Requests]
  BY DEF Invoke, TypeOK
<1>2. PICK r \in Requests : /\ ~r.write /\ req' = [req EXCEPT ![c] = r]
                            /\ left' = [left EXCEPT ![c] = r.items]
  BY DEF Invoke
<1>3. /\ req'[c] = r /\ left'[c] = r.items /\ result'[c] = <<>> /\ pc'[c] = "next"
      /\ \A b \in Call \ {c} : /\ req'[b] = req[b] /\ left'[b] = left[b] /\ pc'[b] = pc[b]
                               /\ result'[b] = result[b] /\ found'[b] = found[b]
  BY <1>1, <1>2 DEF Shape
<1>4. r.items \in Seq(Id \union Data) /\ Len(r.items) \in Nat
  BY ItemsAre
<1>5. TypeOK'
  <2>1. ASSUME NEW b \in Call
        PROVE  /\ Len(left'[b]) + Len(result'[b]) =< Len(req'[b].items)
               /\ \A k \in DOMAIN result'[b] : result'[b][k] \in Value
    <3>1. CASE b = c
      <4>1. Len(result'[c]) = 0 /\ Len(r.items) + 0 = Len(r.items) /\ DOMAIN result'[c] = {}
        BY <1>3, <1>4
      <4>2. Len(r.items) + Len(result'[c]) =< Len(r.items)
        <5>1. \A x \in Nat : x + 0 =< x
          OBVIOUS
        <5> QED
          BY <1>4, <4>1, <5>1
      <4> QED
        BY <1>3, <3>1, <4>1, <4>2
    <3>2. CASE b # c
      BY <1>3, <3>2 DEF TypeOK
    <3> QED
      BY <3>1, <3>2
  <2>2. req' \in [Call -> Requests] /\ pc' \in [Call -> Places]
    BY <1>1, <1>2 DEF Places
  <2> QED
    BY <1>1, <2>1, <2>2 DEF TypeOK
<1>6. Shape'
  <2>1. left' \in [Call -> Seq(Id \union Data)]
    BY <1>2, <1>4 DEF Shape
  <2>2. result' \in [Call -> Seq(Value)]
    BY <1>1 DEF Shape
  <2>3. found' \in [Call -> RowSets]
    BY <1>1 DEF Shape, RowSets
  <2>4. snap' = [b \in Call |-> snap'[b]]
    BY <1>1 DEF Shape
  <2> QED
    BY <2>1, <2>2, <2>3, <2>4 DEF Shape
<1>7. Positions'
  <2> SUFFICES ASSUME NEW b \in Call PROVE Position(b)'
    BY DEF Positions
  <2>1. CASE b = c
    BY <1>3, <2>1 DEF Position
  <2>2. CASE b # c
    BY <1>1, <1>3, <2>2 DEF Positions, Position
  <2> QED
    BY <2>1, <2>2
<1>8. Suffixes'
  <2> SUFFICES ASSUME NEW b \in Call PROVE Suffix(b)'
    BY DEF Suffixes
  <2>1. CASE b = c
    BY <1>3, <1>4, <2>1 DEF Suffix
  <2>2. CASE b # c
    <3>1. Suffix(b) /\ req'[b] = req[b] /\ left'[b] = left[b]
      BY <1>3, <2>2 DEF Suffixes
    <3> QED
      BY <3>1 DEF Suffix
  <2> QED
    BY <2>1, <2>2
<1>9. Olds'
  <2> SUFFICES ASSUME NEW b \in Call PROVE Old(b)'
    BY DEF Olds
  <2>1. CASE b = c
    BY <1>1, <1>3, <2>1 DEF Shape, Old
  <2>2. CASE b # c
    <3>1. snap'[b] = snap[b] /\ Item(b)' = Item(b)
      BY <1>1, <1>3, <2>2 DEF Shape, Item
    <3> QED
      BY <1>1, <1>3, <2>2, <3>1 DEF Olds, Old
  <2> QED
    BY <2>1, <2>2
<1>10. Answereds'
  <2> SUFFICES ASSUME NEW b \in Call PROVE Answered(b)'
    BY DEF Answereds
  <2>1. CASE b = c
    <3>1. Len(result'[c]) = 0 /\ Len(r.items) + 0 = Len(r.items)
      BY <1>3, <1>4
    <3> QED
      BY <1>3, <2>1, <3>1 DEF Answered
  <2>2. CASE b # c
    BY <1>3, <2>2 DEF Answereds, Answered
  <2> QED
    BY <2>1, <2>2
<1>11. Grown'
  <2>1. \A b \in Call : pc'[b] \in {"put", "insert"} =>
           pc[b] \in {"put", "insert"} /\ idx'[b] = idx[b]
    BY <1>1
  <2> QED
    BY <1>1, <2>1, GrownStays
<1>12. WritesLand'
  <2>1. \A b \in Call : /\ req'[b].write = req[b].write
                        /\ req[b].write => req'[b] = req[b] /\ left'[b] = left[b]
    <3>1. req[c].write \in BOOLEAN /\ r.write \in BOOLEAN
      BY <1>1, RequestsAssumption DEF Request
    <3> QED
      BY <1>1, <1>2, <1>3, <3>1
  <2> QED
    BY <1>1, <2>1, WritesStay
<1>13. EntriesHonest' /\ AnswersHonest'
  <2>1. ASSUME NEW i, NEW d, Backed(i, d) PROVE Backed(i, d)'
    <3>1. CASE RowsWith(table, i) = {d}
      BY <1>1, <3>1, Zenon DEF Backed
    <3>2. CASE \E b \in Call : Announces(b, i, d)
      <4>1. PICK b \in Call : Announces(b, i, d)
        BY <3>2
      <4>2. b # c
        BY <1>1, <4>1 DEF Announces
      <4>3. req'[b] = req[b] /\ left'[b] = left[b] /\ pc'[b] = pc[b]
        BY <1>3, <4>2
      <4>4. Announces(b, i, d)'
        BY <1>1, <4>1, <4>3, Zenon DEF Announces, Item
      <4> QED
        BY <4>4, Zenon DEF Backed
    <3> QED
      BY <2>1, <3>1, <3>2 DEF Backed
  <2>2. EntriesHonest'
    BY <1>1, <2>1, Zenon DEF EntriesHonest, Shows
  <2>3. ASSUME NEW b \in Call, NEW k \in DOMAIN result'[b]
        PROVE  result'[b] = result[b] /\ req'[b] = req[b]
    <3>1. b # c
      BY <1>3
    <3> QED
      BY <1>3, <3>1
  <2>4. AnswersHonest'
    <3>1. ASSUME NEW b \in Call, NEW k \in DOMAIN result'[b],
                 NEW d \in IF result'[b][k] \in Data THEN {result'[b][k]} ELSE result'[b][k],
                 NEW i, i = req'[b].items[k]
          PROVE  Backed(i, d)'
      <4>1. result'[b] = result[b] /\ req'[b] = req[b]
        BY <2>3
      <4>2. Backed(i, d)
        BY <3>1, <4>1, Zenon DEF AnswersHonest, Shows
      <4> QED
        BY <2>1, <4>2
    <3> QED
      BY <3>1, Zenon DEF AnswersHonest, Shows
  <2> QED
    BY <2>2, <2>4
<1> QED
  BY <1>5, <1>6, <1>7, <1>8, <1>9, <1>10, <1>11, <1>12, <1>13

LEMMA NextKeeps == HeroInv /\ [Next]_vars => HeroInv'
<1> SUFFICES ASSUME HeroInv, [Next]_vars PROVE HeroInv'
  OBVIOUS
<1>1. ASSUME NEW c \in Call, Work(c) \/ Crash(c) \/ Invoke(c) PROVE HeroInv'
  <2>1. pc[c] \in Places
    BY DEF HeroInv, TypeOK
  <2>2. CASE Miss(c) \/ Uncached(c)
    BY <2>2, MoveKeeps, Zenon DEF Miss, Uncached, Step, stores
  <2>3. CASE Duplicate(c)
    BY <2>3, MoveKeeps DEF Duplicate, Step, stores
  <2>4. CASE Return(c)
    BY <2>4, MoveKeeps DEF Return, Step, stores
  <2>5. CASE Crash(c)
    BY <2>5, MoveKeeps DEF Crash, stores
  <2> QED
    BY <1>1, <2>2, <2>3, <2>4, <2>5, HitKeeps, QueryKeeps, FillKeeps, GetIdxKeeps, PutKeeps,
       InsertKeeps, InvokeKeeps DEF Work
<1>2. CASE \E i \in Id : Expire(i)
  BY <1>2, ExpireKeeps
<1>3. CASE UNCHANGED vars
  <2>1. /\ UNCHANGED <<table, cache, req, left, result>>
        /\ pc' = pc /\ idx' = idx /\ snap' = snap /\ found' = found
    BY <1>3 DEF vars
  <2>2. TypeOK' /\ Shape' /\ Positions' /\ Suffixes' /\ Olds'
    BY <2>1 DEF HeroInv, TypeOK, Shape, Positions, Position, Suffixes, Suffix, Olds, Old, Item
  <2>3. Answereds' /\ Grown'
    BY <2>1 DEF HeroInv, Answereds, Answered, Grown, Above
  <2>4. WritesLand'
    BY <2>1, WritesStay DEF HeroInv
  <2>5. EntriesHonest' /\ AnswersHonest'
    BY <2>1, HonestStays DEF HeroInv
  <2> QED
    BY <2>2, <2>3, <2>4, <2>5 DEF HeroInv
<1> QED
  BY <1>1, <1>2, <1>3 DEF Next

-----------------------------------------------------------------------------
\* Whatever the events and however the invocations interleave, the stores and
\* the locals of the invocations are of their types.
THEOREM TypesHold == Spec => []TypeOK
<1>1. HeroInv => TypeOK
  BY DEF HeroInv
<1> QED
  BY <1>1, InitHolds, NextKeeps, PTL DEF Spec

\* The heroes written without an error are in the table, each under an id of its
\* own that no row of the start has, and later heroes of a list under greater ids,
\* however many invocations compute the same id between get_idx and insert
\* (lines 29-33 and 69-76).
THEOREM WritesAreKept == Spec => []WritesLand
<1>1. HeroInv => WritesLand
  BY DEF HeroInv
<1> QED
  BY <1>1, InitHolds, NextKeeps, PTL DEF Spec

\* Entries and answers show the hero of the table under that id, or what a writer
\* has announced there and not inserted (line 72): for any number of calls that
\* come again, crash and find what others have left in the cache.
THEOREM CacheIsHonest == Spec => []CacheHonest
<1>1. HeroInv => CacheHonest
  BY Zenon DEF HeroInv, CacheHonest, EntriesHonest, AnswersHonest
<1> QED
  BY <1>1, InitHolds, NextKeeps, PTL DEF Spec
=============================================================================
