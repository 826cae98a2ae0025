--------------------------- MODULE KeyworldProofs ---------------------------
(***************************************************************************)
(* For any visitors, keywords, limits, answers and failures: a page that   *)
(* is shown has all its relations in the graph, and relations are sound.   *)
(***************************************************************************)
EXTENDS Keyworld, FiniteSetTheorems, WellFoundedInduction, TLAPS

\* The keywords that the page of a must be related to when it is shown.
Wanted(a) == IF a \in InGraph THEN (ToSet(Similar[a]) \intersect InGraph) \ {a} ELSE {}

\* update_all_keyword_in_graphdb has still to treat what is not related yet.
Page(v) ==
    /\ at[v] \in AtGraph =>
          /\ ToSet(todo[v]) \subseteq ToSet(Similar[key[v]]) \ {key[v]}
          /\ \A k \in Wanted(key[v]) : k \in ToSet(todo[v]) \/ Related(key[v], k)
    /\ at[v] = "shown" => \A k \in Wanted(key[v]) : Related(key[v], k)

\* The visitors that have found no relation of a and b and will create one.
Creating(a, b) ==
    {v \in Visitor : at[v] = "create" /\ {key[v], Head(todo[v])} = {a, b}}

\* Once there is a relation nobody joins those who create it.
Counted(a, b) ==
    /\ rels[<<a, b>>] = rels[<<b, a>>]
    /\ rels[<<a, b>>] > 0 =>
          /\ a # b /\ (b \in ToSet(Similar[a]) \/ a \in ToSet(Similar[b]))
          /\ rels[<<a, b>>] + Cardinality(Creating(a, b)) =< Cardinality(Visitor)

Pages == \A v \in Visitor : Page(v)
Counts == \A a, b \in Keyword : Counted(a, b)
KeyInv == TypeOK /\ Pages /\ Counts

-----------------------------------------------------------------------------
LEMMA InSet ==
    ASSUME NEW S, NEW s \in Seq(S), NEW e
    PROVE  /\ Contains(s, e) <=> e \in ToSet(s)
           /\ ToSet(s) \subseteq S
BY DEF Contains, ToSet

\* What is left of a sequence without doubles when one element is removed.
LEMMA RemovedIs ==
    ASSUME NEW S, NEW s \in Seq(S), NEW e \in ToSet(s),
           \A i, j \in DOMAIN s : s[i] = s[j] => i = j
    PROVE  /\ RemoveFirst(s, e) \in Seq(S)
           /\ ToSet(RemoveFirst(s, e)) = ToSet(s) \ {e}
<1>1. PICK i \in 1..Len(s) : s[i] = e
  BY DEF ToSet
<1> DEFINE n == Len(s)
<1> DEFINE I == {k \in 1..n : s[k] = e}
<1>2. n \in Nat /\ DOMAIN s = 1..n
  OBVIOUS
<1>3. I = {i}
  BY <1>1
<1>4. SelectInSeq(s, LAMBDA v : v = e) = i
  <2>1. Min({i}) = i
    BY <1>1 DEF Min
  <2>2. SelectInSeq(s, LAMBDA v : v = e) = IF I # {} THEN Min(I) ELSE 0
    BY DEF SelectInSeq
  <2> QED
    BY <1>3, <2>1, <2>2
<1> DEFINE front == SubSeq(s, 1, i - 1)
<1> DEFINE back == SubSeq(s, i + 1, n)
<1>5. RemoveFirst(s, e) = front \o back
  BY <1>1, <1>4 DEF RemoveFirst, RemoveAt
<1>6. /\ front \in Seq(S) /\ Len(front) = i - 1
      /\ \A k \in 1..(i - 1) : front[k] = s[k]
  BY <1>1
<1>7. /\ back \in Seq(S) /\ Len(back) = n - i
      /\ \A k \in 1..(n - i) : back[k] = s[i + k]
  BY <1>1
<1> HIDE DEF front, back
<1> DEFINE r == front \o back
<1>8. /\ r \in Seq(S) /\ Len(r) = n - 1
      /\ \A k \in 1..(n - 1) : r[k] = IF k < i THEN s[k] ELSE s[k + 1]
  <2> DEFINE f == Len(front)
  <2> DEFINE g == Len(back)
  <2>0. /\ r \in Seq(S) /\ Len(r) = f + g
        /\ \A k \in 1..(f + g) : r[k] = IF k =< f THEN front[k] ELSE back[k - f]
    BY <1>6, <1>7
  <2>1. f = i - 1 /\ g = n - i /\ f + g = n - 1 /\ n \in Nat /\ i \in 1..n
    BY <1>1, <1>2, <1>6, <1>7
  <2> HIDE DEF f, g, r
  <2>2. ASSUME NEW k \in 1..(n - 1), ~(k < i) PROVE back[k - (i - 1)] = s[k + 1]
    <3>1. k - (i - 1) \in 1..(n - i) /\ i + (k - (i - 1)) = k + 1
      BY <1>1, <1>2, <2>2
    <3> QED
      BY <1>7, <3>1
  <2>3. \A k \in 1..(n - 1) : r[k] = IF k < i THEN front[k] ELSE back[k - (i - 1)]
    <3> HIDE DEF n
    <3> QED
      BY <2>0, <2>1
  <2>4. \A k \in 1..(n - 1) : k < i => k \in 1..(i - 1)
    <3> HIDE DEF n
    <3> QED
      BY <2>1
  <2> QED
    BY <1>6, <2>0, <2>1, <2>2, <2>3, <2>4
<1> HIDE DEF r
<1>9. ToSet(r) \subseteq ToSet(s) \ {e}
  <2>1. ASSUME NEW k \in 1..(n - 1) PROVE r[k] \in ToSet(s) \ {e}
    <3> DEFINE j == IF k < i THEN k ELSE k + 1
    <3>1. j \in 1..n /\ j # i /\ r[k] = s[j]
      BY <1>1, <1>2, <1>8
    <3> HIDE DEF j
    <3> QED
      BY <1>1, <1>2, <3>1 DEF ToSet
  <2> QED
    BY <1>8, <2>1 DEF ToSet
<1>10. ToSet(s) \ {e} \subseteq ToSet(r)
  <2> SUFFICES ASSUME NEW j \in 1..n, s[j] # e PROVE s[j] \in ToSet(r)
    BY <1>2 DEF ToSet
  <2> DEFINE k == IF j < i THEN j ELSE j - 1
  <2>1. k \in 1..(n - 1) /\ r[k] = s[j]
    BY <1>1, <1>2, <1>8
  <2> HIDE DEF k
  <2> QED
    BY <1>8, <2>1 DEF ToSet
<1> QED
  BY <1>5, <1>8, <1>9, <1>10 DEF r

LEMMA TailSet ==
    ASSUME NEW S, NEW s \in Seq(S), s # <<>>
    PROVE  /\ Tail(s) \in Seq(S) /\ Head(s) \in ToSet(s)
           /\ ToSet(s) = ToSet(Tail(s)) \union {Head(s)}
<1> DEFINE n == Len(s)
<1>1. /\ n \in Nat \ {0} /\ DOMAIN s = 1..n /\ Head(s) = s[1]
      /\ Tail(s) \in Seq(S) /\ Len(Tail(s)) = n - 1
      /\ \A k \in 1..(n - 1) : Tail(s)[k] = s[k + 1]
  OBVIOUS
<1> HIDE DEF n
<1>2. Head(s) \in ToSet(s)
  BY <1>1 DEF ToSet
<1>3. ToSet(Tail(s)) \subseteq ToSet(s)
  BY <1>1 DEF ToSet
<1>4. ToSet(s) \subseteq ToSet(Tail(s)) \union {Head(s)}
  <2> SUFFICES ASSUME NEW k \in 1..n PROVE s[k] \in ToSet(Tail(s)) \union {Head(s)}
    BY <1>1 DEF ToSet
  <2>1. CASE k = 1
    BY <1>1, <2>1
  <2>2. CASE k # 1
    <3>1. k - 1 \in 1..(n - 1) /\ Tail(s)[k - 1] = s[k]
      BY <1>1, <2>2
    <3>2. k - 1 \in DOMAIN Tail(s)
      BY <1>1, <3>1
    <3> QED
      BY <3>1, <3>2 DEF ToSet
  <2> QED
    BY <2>1, <2>2
<1> QED
  BY <1>1, <1>2, <1>3, <1>4

-----------------------------------------------------------------------------
LEMMA InitHolds == Init => KeyInv
<1> SUFFICES ASSUME Init PROVE KeyInv
  OBVIOUS
<1> USE DEF Init
<1>1. TypeOK
  BY LimitAssumption DEF TypeOK, Looking, Busy, AtGraph
<1>2. Pages
  BY DEF Pages, Page, AtGraph
<1>3. Counts
  BY DEF Counts, Counted
<1> QED
  BY <1>1, <1>2, <1>3 DEF KeyInv

LEMMA RelateTypes ==
    ASSUME TypeOK, NEW a \in Keyword, NEW b \in Keyword, Relate(a, b)
    PROVE  rels' \in [Keyword \X Keyword -> Nat]
<1>1. CASE {a, b} \subseteq InGraph
  <2>1. rels \in [Keyword \X Keyword -> Nat] /\ <<a, b>> \in Keyword \X Keyword
        /\ <<b, a>> \in Keyword \X Keyword
    BY DEF TypeOK
  <2>2. rels' = [rels EXCEPT ![<<a, b>>] = @ + 1, ![<<b, a>>] = @ + 1]
    BY <1>1, Zenon DEF Relate
  <2> QED
    BY <2>1, <2>2
<1>2. CASE ~({a, b} \subseteq InGraph)
  BY <1>2 DEF Relate, TypeOK
<1> QED
  BY <1>1, <1>2

\* Queries that may not take effect: those of InsertSearch and Create.
LEMMA EffectTypes ==
    ASSUME TypeOK, NEW v \in Visitor, Effect(v)
    PROVE  rels' \in [Keyword \X Keyword -> Nat] /\ searches' \subseteq Keyword \X (0..MaxNow)
<1>1. CASE UNCHANGED <<rels, searches>>
  BY <1>1 DEF TypeOK
<1>2. CASE at[v] = "create" /\ Relate(key[v], Head(todo[v])) /\ UNCHANGED searches
  <2>1. key[v] \in Keyword /\ Head(todo[v]) \in Keyword
    BY <1>2, TailSet, InSet DEF TypeOK, Busy, AtGraph
  <2> QED
    BY <1>2, <2>1, RelateTypes DEF TypeOK
<1>3. CASE /\ key[v] \in Keyword /\ searches' = searches \union {<<key[v], now>>}
           /\ UNCHANGED rels
  BY <1>3 DEF TypeOK
<1> QED
  BY <1>1, <1>2, <1>3 DEF Effect

LEMMA ServeTypes ==
    ASSUME TypeOK, NEW v \in Visitor, Serve(v)
    PROVE  TypeOK'
<1> USE DEF TypeOK, Go, Raise, Looking, Busy, AtGraph
<1>1. CASE InsertSearch(v)
  BY <1>1 DEF InsertSearch
<1>2. CASE InsertRaises(v)
  BY <1>2 DEF InsertRaises
<1>3. CASE Widgets(v)
  BY <1>3 DEF Widgets
<1>4. CASE Match(v)
  <2>1. key[v] \in Keyword /\ Similar[key[v]] \in Seq(Keyword)
    BY <1>4, KeywordAssumption DEF Match
  <2>2. CASE Contains(Similar[key[v]], key[v])
    <3>1. RemoveFirst(Similar[key[v]], key[v]) \in Seq(Keyword)
      BY <2>1, <2>2, InSet, RemovedIs, KeywordAssumption
    <3> QED
      BY <1>4, <2>1, <2>2, <3>1 DEF Match
  <2>3. CASE ~Contains(Similar[key[v]], key[v])
    BY <1>4, <2>3 DEF Match
  <2> QED
    BY <2>2, <2>3
<1>5. CASE Detect(v)
  <2>1. todo[v] \in Seq(Keyword) /\ Tail(todo[v]) \in Seq(Keyword) /\ todo[v] # <<>>
    BY <1>5, TailSet DEF Detect
  <2> QED
    BY <1>5, <2>1 DEF Detect
<1>6. CASE Create(v)
  <2>1. todo[v] # <<>> /\ key[v] \in Keyword /\ at[v] = "create"
    BY <1>6 DEF Create
  <2>2. Tail(todo[v]) \in Seq(Keyword) /\ Head(todo[v]) \in Keyword
    BY <2>1, TailSet, InSet
  <2>3. rels' \in [Keyword \X Keyword -> Nat]
    BY <1>6, <2>1, <2>2, RelateTypes DEF Create
  <2> QED
    BY <1>6, <2>1, <2>2, <2>3 DEF Create
<1>7. CASE Read(v)
  <2>1. \A S \in Shown(key[v]) : S \subseteq Keyword
    BY DEF Shown, Neighbours
  <2>2. CASE Related(key[v], key[v])
    BY <1>7, <2>2 DEF Read
  <2>3. CASE ~Related(key[v], key[v])
    <3>1. PICK S \in Shown(key[v]) : Show(v, "shown", S)
      BY <1>7, <2>3 DEF Read
    <3>2. /\ at' = [at EXCEPT ![v] = "shown"] /\ links' = [links EXCEPT ![v] = S]
          /\ S \in SUBSET Keyword /\ at[v] = "detect" /\ todo[v] = <<>>
      BY <1>7, <2>1, <3>1 DEF Read, Show
    <3>3. UNCHANGED <<searches, rels, now, faults, key, todo, net>>
      BY <1>7 DEF Read
    <3> QED
      BY <3>2, <3>3
  <2> QED
    BY <2>2, <2>3
<1> QED
  BY <1>1, <1>2, <1>3, <1>4, <1>5, <1>6, <1>7 DEF Serve

LEMMA BrowseTypes ==
    ASSUME TypeOK, NEW v \in Visitor, Browse(v)
    PROVE  TypeOK'
<1> USE DEF TypeOK, Go, Show, Looking, Busy, AtGraph
<1>1. CASE OpenHome(v)
  <2>1. \A S \in HotKeywords : S \subseteq Keyword
    BY DEF HotKeywords, Searched
  <2> QED
    BY <1>1, <2>1 DEF OpenHome
<1>2. CASE Refuse(v)
  BY <1>2 DEF Refuse
<1>3. CASE Reload(v)
  BY <1>3 DEF Reload
<1>4. ASSUME NEW k \in Keyword, at[v] \in Looking, Request(v, k) PROVE TypeOK'
  BY <1>4, KeywordAssumption DEF Request
<1>5. ASSUME NEW a \in Answers, NEW drawn, NEW graph, Profile(v, a, drawn, graph)
      PROVE  TypeOK'
  <2>1. /\ UNCHANGED <<searches, rels, now, faults, todo>>
        /\ at[v] \in {"nothing", "shown", "profile"} /\ key' = [key EXCEPT ![v] = NoName]
    BY <1>5 DEF Profile
  <2>2. CASE drawn
    <3>1. /\ at' = [at EXCEPT ![v] = "profile"] /\ links' = [links EXCEPT ![v] = {}]
          /\ net' = [net EXCEPT ![v] = [answer |-> a, graph |-> graph]]
      BY <1>5, <2>2 DEF Profile
    <3> QED
      BY <2>1, <3>1
  <2>3. CASE ~drawn
    <3>1. /\ at' = [at EXCEPT ![v] = "failed"] /\ links' = [links EXCEPT ![v] = {}]
          /\ net' = [net EXCEPT ![v] = NoAnswer]
      BY <1>5, <2>3 DEF Profile
    <3> QED
      BY <2>1, <3>1
  <2> QED
    BY <2>2, <2>3
<1>6. CASE OpenFaculty(v) \/ OpenAffiliation(v) \/ OpenPublication(v)
  BY <1>5, <1>6, Zenon DEF OpenFaculty, OpenAffiliation, OpenPublication
<1> QED
  BY <1>1, <1>2, <1>3, <1>4, <1>6 DEF Browse, Submit, Follow

LEMMA TypesKept == TypeOK /\ [Next]_vars => TypeOK'
<1> SUFFICES ASSUME TypeOK, [Next]_vars PROVE TypeOK'
  OBVIOUS
<1>1. ASSUME NEW v \in Visitor, DatabaseFails(v) \/ SessionClashes(v) PROVE TypeOK'
  <2>1. rels' \in [Keyword \X Keyword -> Nat] /\ searches' \subseteq Keyword \X (0..MaxNow)
    BY <1>1, EffectTypes DEF DatabaseFails, SessionClashes
  <2>2. /\ at' = [at EXCEPT ![v] = "failed"] /\ todo' = [todo EXCEPT ![v] = <<>>]
        /\ now' = now /\ key' = key /\ links' = links /\ net' = net
    BY <1>1 DEF DatabaseFails, SessionClashes, Raise, Go
  <2>3. faults' \in 0..MaxFaults
    BY <1>1, LimitAssumption DEF DatabaseFails, SessionClashes, TypeOK
  <2> QED
    BY <2>1, <2>2, <2>3 DEF TypeOK, Looking, Busy, AtGraph
<1>2. CASE Tick
  BY <1>2, LimitAssumption DEF Tick, TypeOK
<1>3. CASE UNCHANGED vars
  BY <1>3 DEF vars, TypeOK
<1> QED
  BY <1>1, <1>2, <1>3, ServeTypes, BrowseTypes DEF Next

-----------------------------------------------------------------------------
\* What a query of v that relates its keyword to the next one does.
LEMMA RelateIs ==
    ASSUME TypeOK, NEW a \in Keyword, NEW b \in Keyword, a # b, Relate(a, b)
    PROVE  /\ \A x, y \in Keyword :
                 rels'[<<x, y>>] = IF {x, y} = {a, b} /\ {a, b} \subseteq InGraph
                                   THEN rels[<<x, y>>] + 1 ELSE rels[<<x, y>>]
           /\ \A x, y \in Keyword : Related(x, y) => Related(x, y)'
           /\ {a, b} \subseteq InGraph => Related(a, b)'
<1>1. rels \in [Keyword \X Keyword -> Nat] /\ <<a, b>> # <<b, a>>
  BY DEF TypeOK
<1>2. ASSUME NEW x \in Keyword, NEW y \in Keyword
      PROVE  rels'[<<x, y>>] = IF {x, y} = {a, b} /\ {a, b} \subseteq InGraph
                               THEN rels[<<x, y>>] + 1 ELSE rels[<<x, y>>]
  <2>1. {x, y} = {a, b} <=> <<x, y>> \in {<<a, b>>, <<b, a>>}
    OBVIOUS
  <2>2. CASE {a, b} \subseteq InGraph
    <3>1. rels' = [rels EXCEPT ![<<a, b>>] = @ + 1, ![<<b, a>>] = @ + 1]
      BY <2>2, Zenon DEF Relate
    <3> QED
      BY <1>1, <2>1, <2>2, <3>1
  <2>3. CASE ~({a, b} \subseteq InGraph)
    BY <2>3 DEF Relate
  <2> QED
    BY <2>2, <2>3
<1>3. \A x, y \in Keyword : rels[<<x, y>>] \in Nat
  BY <1>1
<1>4. \A x, y \in Keyword : rels'[<<x, y>>] \in Nat /\ rels'[<<x, y>>] >= rels[<<x, y>>]
  <2> TAKE x, y \in Keyword
  <2>1. rels'[<<x, y>>] = rels[<<x, y>>] \/ rels'[<<x, y>>] = rels[<<x, y>>] + 1
    BY <1>2
  <2> QED
    BY <1>3, <2>1
<1>5. \A x, y \in Keyword : Related(x, y) => Related(x, y)'
  BY <1>3, <1>4 DEF Related
<1>6. {a, b} \subseteq InGraph => Related(a, b)'
  BY <1>2, <1>3 DEF Related
<1> QED
  BY <1>2, <1>5, <1>6

LEMMA CreatingFinite ==
    ASSUME NEW a, NEW b, NEW S, S \subseteq Creating(a, b)
    PROVE  /\ IsFiniteSet(S) /\ Cardinality(S) \in Nat /\ Cardinality(Visitor) \in Nat
           /\ Cardinality(S) =< Cardinality(Creating(a, b))
           /\ Cardinality(Creating(a, b)) =< Cardinality(Visitor)
<1>1. Creating(a, b) \subseteq Visitor
  BY DEF Creating
<1>2. IsFiniteSet(Creating(a, b))
  BY <1>1, VisitorAssumption, FS_Subset
<1> QED
  BY <1>1, <1>2, VisitorAssumption, FS_Subset, FS_CardinalityType

\* Where nobody joins, the count stays.
LEMMA CountedStays ==
    ASSUME NEW a \in Keyword, NEW b \in Keyword, Counted(a, b), rels' = rels, TypeOK,
           rels[<<a, b>>] > 0 => Creating(a, b)' \subseteq Creating(a, b)
    PROVE  Counted(a, b)'
<1>1. rels[<<a, b>>] \in Nat
  BY DEF TypeOK
<1>2. CASE rels[<<a, b>>] > 0
  <2> DEFINE old == Creating(a, b)
  <2> DEFINE new == Creating(a, b)'
  <2>1. new \subseteq old
    BY <1>2
  <2> HIDE DEF new
  <2>2. Cardinality(new) \in Nat /\ Cardinality(new) =< Cardinality(old) /\ Cardinality(Visitor) \in Nat
    BY <2>1, CreatingFinite
  <2>3. Cardinality(old) \in Nat
    BY CreatingFinite
  <2>4. rels[<<a, b>>] + Cardinality(old) =< Cardinality(Visitor)
    BY <1>2 DEF Counted
  <2>5. rels[<<a, b>>] + Cardinality(new) =< Cardinality(Visitor)
    BY <1>1, <2>2, <2>3, <2>4
  <2> QED
    BY <2>5, Zenon DEF Counted, new
<1>3. CASE ~(rels[<<a, b>>] > 0)
  BY <1>3 DEF Counted
<1> QED
  BY <1>2, <1>3

\* The steps of v that add no relation and lead to no place in the graph.
LEMMA AwayKeeps ==
    ASSUME KeyInv, NEW v \in Visitor, rels' = rels,
           NEW p, p \notin AtGraph \union {"shown"}, at' = [at EXCEPT ![v] = p],
           \A w \in Visitor \ {v} : key'[w] = key[w] /\ todo'[w] = todo[w]
    PROVE  Pages' /\ Counts'
<1> USE DEF KeyInv
<1>1. at \in [Visitor -> Looking \union Busy]
  BY DEF TypeOK
<1>2. Pages'
  <2> SUFFICES ASSUME NEW w \in Visitor PROVE Page(w)'
    BY DEF Pages
  <2>1. CASE w = v
    BY <1>1, <2>1 DEF Page
  <2>2. CASE w # v
    <3>1. at'[w] = at[w] /\ key'[w] = key[w] /\ todo'[w] = todo[w]
      BY <1>1, <2>2
    <3> QED
      BY <3>1 DEF Pages, Page, Related, Wanted
  <2> QED
    BY <2>1, <2>2
<1>3. Counts'
  <2> SUFFICES ASSUME NEW a \in Keyword, NEW b \in Keyword PROVE Counted(a, b)'
    BY DEF Counts
  <2>1. Creating(a, b)' \subseteq Creating(a, b)
    BY <1>1 DEF Creating, AtGraph
  <2> QED
    BY <2>1, CountedStays DEF Counts
<1> QED
  BY <1>2, <1>3

LEMMA MatchKeeps ==
    ASSUME KeyInv, NEW v \in Visitor, Match(v)
    PROVE  Pages' /\ Counts'
<1> USE DEF KeyInv
<1>1. /\ at \in [Visitor -> Looking \union Busy] /\ todo \in [Visitor -> Seq(Keyword)]
      /\ at[v] = "match" /\ rels' = rels /\ key' = key
      /\ key[v] \in Keyword
  BY DEF TypeOK, Match, Busy
<1>2. CASE ~Contains(Similar[key[v]], key[v])
  <2>1. at' = [at EXCEPT ![v] = "failed"] /\ todo' = [todo EXCEPT ![v] = <<>>]
    BY <1>2 DEF Match, Raise, Go
  <2> QED
    BY <1>1, <2>1, AwayKeeps DEF AtGraph
<1>3. CASE Contains(Similar[key[v]], key[v])
  <2> DEFINE rest == RemoveFirst(Similar[key[v]], key[v])
  <2>1. at' = [at EXCEPT ![v] = "detect"] /\ todo' = [todo EXCEPT ![v] = rest]
    BY <1>3 DEF Match, Go
  <2>2. rest \in Seq(Keyword) /\ ToSet(rest) = ToSet(Similar[key[v]]) \ {key[v]}
    BY <1>1, <1>3, InSet, RemovedIs, KeywordAssumption
  <2> HIDE DEF rest
  <2>3. Pages'
    <3> SUFFICES ASSUME NEW w \in Visitor PROVE Page(w)'
      BY DEF Pages
    <3>1. CASE w = v
      <4>1. at'[v] = "detect" /\ todo'[v] = rest /\ key'[v] = key[v]
        BY <1>1, <2>1
      <4>2. \A k \in Wanted(key[v]) : k \in ToSet(rest)
        BY <2>2 DEF Wanted
      <4> QED
        BY <2>2, <3>1, <4>1, <4>2 DEF Page, Wanted
    <3>2. CASE w # v
      <4>1. at'[w] = at[w] /\ key'[w] = key[w] /\ todo'[w] = todo[w]
        BY <1>1, <2>1, <3>2
      <4> QED
        BY <1>1, <4>1 DEF Pages, Page, Related, Wanted
    <3> QED
      BY <3>1, <3>2
  <2>4. Counts'
    <3> SUFFICES ASSUME NEW a \in Keyword, NEW b \in Keyword PROVE Counted(a, b)'
      BY DEF Counts
    <3>1. Creating(a, b)' \subseteq Creating(a, b)
      BY <1>1, <2>1 DEF Creating
    <3> QED
      BY <1>1, <3>1, CountedStays DEF Counts
  <2> QED
    BY <2>3, <2>4
<1> QED
  BY <1>2, <1>3

\* The check of v: a relation is there, or v is going to create it.
LEMMA DetectKeeps ==
    ASSUME KeyInv, NEW v \in Visitor, Detect(v)
    PROVE  Pages' /\ Counts'
<1> USE DEF KeyInv
<1> DEFINE n == Head(todo[v])
<1>1. /\ at \in [Visitor -> Looking \union Busy] /\ todo \in [Visitor -> Seq(Keyword)]
      /\ at[v] = "detect" /\ rels' = rels /\ key' = key /\ todo[v] # <<>> /\ key[v] \in Keyword
  BY DEF TypeOK, Detect, Busy, AtGraph
<1>2. /\ Tail(todo[v]) \in Seq(Keyword) /\ n \in ToSet(todo[v]) /\ n \in Keyword
      /\ ToSet(todo[v]) = ToSet(Tail(todo[v])) \union {n}
  BY <1>1, TailSet, InSet
<1> HIDE DEF n
<1>3. Page(v)
  BY DEF Pages
<1>4. CASE Related(key[v], n)
  <2>1. at' = at /\ todo' = [todo EXCEPT ![v] = Tail(@)]
    BY <1>4 DEF Detect, n
  <2>2. Pages'
    <3> SUFFICES ASSUME NEW w \in Visitor PROVE Page(w)'
      BY DEF Pages
    <3>1. CASE w = v
      <4>1. todo'[v] = Tail(todo[v])
        BY <1>1, <2>1
      <4>2. \A k \in Wanted(key[v]) : k \in ToSet(Tail(todo[v])) \/ Related(key[v], k)
        BY <1>1, <1>2, <1>3, <1>4 DEF Page, AtGraph
      <4>3. ToSet(Tail(todo[v])) \subseteq ToSet(Similar[key[v]]) \ {key[v]}
        BY <1>1, <1>2, <1>3 DEF Page, AtGraph
      <4> QED
        BY <1>1, <2>1, <3>1, <4>1, <4>2, <4>3 DEF Page, Wanted, Related
    <3>2. CASE w # v
      <4>1. at'[w] = at[w] /\ key'[w] = key[w] /\ todo'[w] = todo[w]
        BY <1>1, <2>1, <3>2
      <4> QED
        BY <1>1, <4>1 DEF Pages, Page, Related, Wanted
    <3> QED
      BY <3>1, <3>2
  <2>3. Counts'
    <3> SUFFICES ASSUME NEW a \in Keyword, NEW b \in Keyword PROVE Counted(a, b)'
      BY DEF Counts
    <3>1. Creating(a, b)' \subseteq Creating(a, b)
      BY <1>1, <2>1 DEF Creating
    <3> QED
      BY <1>1, <3>1, CountedStays DEF Counts
  <2> QED
    BY <2>2, <2>3
<1>5. CASE ~Related(key[v], n)
  <2>1. at' = [at EXCEPT ![v] = "create"] /\ todo' = todo
    BY <1>5 DEF Detect, Go, n
  <2>2. Pages'
    <3> SUFFICES ASSUME NEW w \in Visitor PROVE Page(w)'
      BY DEF Pages
    <3>1. /\ at'[w] \in AtGraph => at[w] \in AtGraph
          /\ at'[w] = "shown" => at[w] = "shown"
      BY <1>1, <2>1 DEF AtGraph
    <3> QED
      BY <1>1, <2>1, <3>1 DEF Pages, Page, Related, Wanted
  <2>3. Counts'
    <3> SUFFICES ASSUME NEW a \in Keyword, NEW b \in Keyword PROVE Counted(a, b)'
      BY DEF Counts
    <3>1. rels[<<a, b>>] > 0 => {key[v], n} # {a, b}
      <4>1. \A x, y \in Keyword : rels[<<x, y>>] \in Nat
        BY DEF TypeOK
      <4>2. rels[<<key[v], n>>] = 0 /\ rels[<<n, key[v]>>] = 0
        BY <1>1, <1>2, <1>5, <4>1 DEF Related
      <4> QED
        BY <4>2
    <3>2. rels[<<a, b>>] > 0 => Creating(a, b)' \subseteq Creating(a, b)
      BY <1>1, <2>1, <3>1 DEF Creating, n
    <3> QED
      BY <1>1, <3>2, CountedStays DEF Counts
  <2> QED
    BY <2>2, <2>3
<1> QED
  BY <1>4, <1>5

\* The creation by v, after which v checks the next keyword or has failed.
LEMMA CreateKeeps ==
    ASSUME KeyInv, NEW v \in Visitor, at[v] = "create", Relate(key[v], Head(todo[v])),
           key' = key, NEW p \in {"detect", "failed"}, at' = [at EXCEPT ![v] = p],
           NEW s, todo' = [todo EXCEPT ![v] = s], p = "detect" => s = Tail(todo[v])
    PROVE  Pages' /\ Counts'
<1> USE DEF KeyInv
<1>0. /\ at \in [Visitor -> Looking \union Busy] /\ todo \in [Visitor -> Seq(Keyword)]
      /\ todo[v] # <<>> /\ key[v] \in Keyword /\ rels \in [Keyword \X Keyword -> Nat]
  BY DEF TypeOK, Busy, AtGraph
<1>1. PICK k0 \in Keyword : k0 = key[v]
  BY <1>0
<1>2. PICK n : /\ n = Head(todo[v]) /\ n \in ToSet(todo[v]) /\ n \in Keyword
               /\ Tail(todo[v]) \in Seq(Keyword)
               /\ ToSet(todo[v]) = ToSet(Tail(todo[v])) \union {n}
  BY <1>0, TailSet, InSet
<1>3. Page(v) /\ k0 # n /\ n \in ToSet(Similar[k0])
  BY <1>1, <1>2 DEF Pages, Page, AtGraph
<1>4. /\ \A x, y \in Keyword :
             rels'[<<x, y>>] = IF {x, y} = {k0, n} /\ {k0, n} \subseteq InGraph
                               THEN rels[<<x, y>>] + 1 ELSE rels[<<x, y>>]
      /\ \A x, y \in Keyword : Related(x, y) => Related(x, y)'
      /\ {k0, n} \subseteq InGraph => Related(k0, n)'
  <2>1. Relate(k0, n)
    BY <1>1, <1>2
  <2> QED
    BY <1>2, <1>3, <2>1, RelateIs
<1>5. Pages'
  <2> SUFFICES ASSUME NEW w \in Visitor PROVE Page(w)'
    BY DEF Pages
  <2>0. \A a \in Keyword : Wanted(a) \subseteq Keyword
    BY KeywordAssumption DEF Wanted
  <2>1. CASE w = v
    <3>1. at'[v] = p /\ todo'[v] = s /\ key'[v] = k0
      BY <1>0, <1>1
    <3>2. CASE p = "failed"
      BY <2>1, <3>1, <3>2 DEF Page, AtGraph
    <3>3. CASE p = "detect"
      <4>1. s = Tail(todo[v])
        BY <3>3
      <4>2. \A k \in Wanted(k0) : k \in ToSet(Tail(todo[v])) \/ k = n \/ Related(k0, k)
        <5>1. \A k \in Wanted(k0) : k \in ToSet(todo[v]) \/ Related(k0, k)
          BY <1>1, <1>3 DEF Page, AtGraph
        <5> QED
          BY <1>2, <5>1
      <4>3. \A k \in Wanted(k0) : k \in ToSet(Tail(todo[v])) \/ Related(k0, k)'
        <5>1. ASSUME NEW k \in Wanted(k0) PROVE k \in Keyword /\ (k = n => {k0, n} \subseteq InGraph)
          BY <2>0 DEF Wanted
        <5> QED
          BY <1>4, <4>2, <5>1
      <4>4. ToSet(Tail(todo[v])) \subseteq ToSet(Similar[k0]) \ {k0}
        BY <1>1, <1>2, <1>3 DEF Page, AtGraph
      <4> QED
        BY <2>1, <3>1, <3>3, <4>1, <4>3, <4>4 DEF Page, Wanted, Related
    <3> QED
      BY <3>2, <3>3
  <2>2. CASE w # v
    <3>1. at'[w] = at[w] /\ key'[w] = key[w] /\ todo'[w] = todo[w]
      BY <1>0, <2>2
    <3>2. key[w] \in Keyword => \A k \in Wanted(key[w]) : Related(key[w], k) => Related(key[w], k)'
      BY <1>4, <2>0
    <3>3. Wanted(key[w]) # {} => key[w] \in Keyword
      BY KeywordAssumption DEF Wanted
    <3>4. Page(w)
      BY DEF Pages
    <3> QED
      BY <3>1, <3>2, <3>3, <3>4 DEF Page, Wanted, Related
  <2> QED
    BY <2>1, <2>2
<1>6. Counts'
  <2> SUFFICES ASSUME NEW a \in Keyword, NEW b \in Keyword PROVE Counted(a, b)'
    BY DEF Counts
  <2> DEFINE old == Creating(a, b)
  <2> DEFINE new == Creating(a, b)'
  <2>1. new \subseteq old /\ v \notin new /\ v \in Visitor /\ old \subseteq Visitor
    BY <1>0 DEF Creating
  <2>2. {k0, n} = {a, b} => v \in old
    BY <1>1, <1>2 DEF Creating
  <2> HIDE DEF old, new
  <2>3. /\ IsFiniteSet(new) /\ IsFiniteSet(old)
        /\ Cardinality(new) =< Cardinality(old) /\ Cardinality(new) \in Nat
        /\ Cardinality(old) \in Nat /\ Cardinality(Visitor) \in Nat
    BY <2>1, CreatingFinite DEF old
  <2>4. v \in old => Cardinality(new) =< Cardinality(old) - 1
    <3>1. new \subseteq old \ {v}
      BY <2>1
    <3>2. v \in old => Cardinality(old \ {v}) = Cardinality(old) - 1
      BY <2>3, FS_RemoveElement
    <3>3. IsFiniteSet(old \ {v})
      BY <2>3, FS_Subset
    <3>4. Cardinality(new) =< Cardinality(old \ {v})
      BY <3>1, <3>3, FS_Subset
    <3> QED
      BY <3>2, <3>4
  <2>5. Cardinality(new) =< Cardinality(Visitor) - 1
    <3>1. new \subseteq Visitor \ {v}
      BY <2>1
    <3>2. Cardinality(Visitor \ {v}) = Cardinality(Visitor) - 1 /\ IsFiniteSet(Visitor \ {v})
      BY VisitorAssumption, FS_RemoveElement, FS_Subset
    <3>3. Cardinality(new) =< Cardinality(Visitor \ {v})
      BY <3>1, <3>2, FS_Subset
    <3> QED
      BY <3>2, <3>3
  <2>6. rels'[<<a, b>>] = rels'[<<b, a>>]
    <3>1. rels[<<a, b>>] = rels[<<b, a>>]
      BY DEF Counts, Counted
    <3>2. {a, b} = {k0, n} <=> {b, a} = {k0, n}
      OBVIOUS
    <3> DEFINE more == {a, b} = {k0, n} /\ {k0, n} \subseteq InGraph
    <3>3. rels'[<<a, b>>] = IF more THEN rels[<<a, b>>] + 1 ELSE rels[<<a, b>>]
      BY <1>4
    <3>4. rels'[<<b, a>>] = IF more THEN rels[<<b, a>>] + 1 ELSE rels[<<b, a>>]
      BY <1>4, <3>2, Zenon
    <3> QED
      BY <3>1, <3>3, <3>4
  <2>7. CASE {a, b} = {k0, n} /\ {k0, n} \subseteq InGraph
    <3>1. rels'[<<a, b>>] = rels[<<a, b>>] + 1 /\ rels[<<a, b>>] \in Nat
      BY <1>0, <1>4, <2>7
    <3>2. a # b /\ (b \in ToSet(Similar[a]) \/ a \in ToSet(Similar[b]))
      <4>1. (a = k0 /\ b = n) \/ (a = n /\ b = k0)
        BY <2>7
      <4> QED
        BY <1>3, <4>1
    <3>3. rels[<<a, b>>] + 1 + Cardinality(new) =< Cardinality(Visitor)
      <4>1. CASE rels[<<a, b>>] = 0
        BY <2>3, <2>5, <4>1
      <4>2. CASE rels[<<a, b>>] # 0
        <5>1. rels[<<a, b>>] + Cardinality(old) =< Cardinality(Visitor)
          <6>1. rels[<<a, b>>] > 0 /\ Counted(a, b)
            BY <3>1, <4>2 DEF Counts
          <6> QED
            BY <6>1 DEF Counted, old
        <5>2. Cardinality(new) =< Cardinality(old) - 1
          BY <2>2, <2>4, <2>7
        <5> QED
          BY <2>3, <3>1, <5>1, <5>2
      <4> QED
        BY <4>1, <4>2
    <3>4. rels'[<<a, b>>] + Cardinality(new) =< Cardinality(Visitor)
      BY <3>1, <3>3
    <3> QED
      BY <2>6, <3>2, <3>4, Zenon DEF Counted, new
  <2>8. CASE ~({a, b} = {k0, n} /\ {k0, n} \subseteq InGraph)
    <3>1. rels'[<<a, b>>] = rels[<<a, b>>] /\ rels[<<a, b>>] \in Nat
      BY <1>0, <1>4, <2>8
    <3>2. Counted(a, b)
      BY DEF Counts
    <3>3. rels[<<a, b>>] > 0 => rels[<<a, b>>] + Cardinality(new) =< Cardinality(Visitor)
      BY <2>3, <3>1, <3>2 DEF Counted, old
    <3> QED
      BY <2>6, <3>1, <3>2, <3>3, Zenon DEF Counted, new
  <2> QED
    BY <2>7, <2>8
<1> QED
  BY <1>5, <1>6

\* A page that is made reads its relations when there is nothing left to treat.
LEMMA ReadKeeps ==
    ASSUME KeyInv, NEW v \in Visitor, Read(v)
    PROVE  Pages' /\ Counts'
<1> USE DEF KeyInv
<1>1. /\ at \in [Visitor -> Looking \union Busy] /\ rels' = rels /\ key' = key /\ todo' = todo
      /\ at[v] = "detect" /\ todo[v] = <<>>
  BY DEF TypeOK, Read
<1>2. CASE Related(key[v], key[v])
  <2>1. at' = [at EXCEPT ![v] = "failed"]
    BY <1>2 DEF Read, Go
  <2> QED
    BY <1>1, <2>1, AwayKeeps DEF AtGraph
<1>3. CASE ~Related(key[v], key[v])
  <2>1. at' = [at EXCEPT ![v] = "shown"]
    BY <1>3 DEF Read, Show, Go
  <2>2. \A k \in Wanted(key[v]) : Related(key[v], k)
    <3>1. Page(v) /\ ToSet(todo[v]) = {}
      BY <1>1 DEF Pages, ToSet
    <3> QED
      BY <1>1, <3>1 DEF Page, AtGraph
  <2>3. Pages'
    <3> SUFFICES ASSUME NEW w \in Visitor PROVE Page(w)'
      BY DEF Pages
    <3>1. CASE w = v
      BY <1>1, <2>1, <2>2, <3>1 DEF Page, AtGraph, Related, Wanted
    <3>2. CASE w # v
      <4>1. at'[w] = at[w]
        BY <1>1, <2>1, <3>2
      <4> QED
        BY <1>1, <4>1 DEF Pages, Page, Related, Wanted
    <3> QED
      BY <3>1, <3>2
  <2>4. Counts'
    <3> SUFFICES ASSUME NEW a \in Keyword, NEW b \in Keyword PROVE Counted(a, b)'
      BY DEF Counts
    <3>1. Creating(a, b)' \subseteq Creating(a, b)
      BY <1>1, <2>1 DEF Creating
    <3> QED
      BY <1>1, <3>1, CountedStays DEF Counts
  <2> QED
    BY <2>3, <2>4
<1> QED
  BY <1>2, <1>3

LEMMA FailureKeeps ==
    ASSUME KeyInv, NEW v \in Visitor, Effect(v), Raise(v), UNCHANGED key
    PROVE  Pages' /\ Counts'
<1>1. at' = [at EXCEPT ![v] = "failed"] /\ todo' = [todo EXCEPT ![v] = <<>>] /\ key' = key
  BY DEF Raise, Go
<1>2. CASE UNCHANGED rels
  <2>1. \A w \in Visitor \ {v} : key'[w] = key[w] /\ todo'[w] = todo[w]
    BY <1>1 DEF KeyInv, TypeOK
  <2> QED
    BY <1>1, <1>2, <2>1, AwayKeeps DEF AtGraph
<1>3. CASE at[v] = "create" /\ Relate(key[v], Head(todo[v]))
  BY <1>1, <1>3, CreateKeeps
<1> QED
  BY <1>2, <1>3 DEF Effect

LEMMA ServeKeeps ==
    ASSUME KeyInv, NEW v \in Visitor, Serve(v)
    PROVE  Pages' /\ Counts'
<1>1. CASE InsertSearch(v) \/ Widgets(v)
  <2>1. /\ rels' = rels /\ key' = key /\ todo' = todo
        /\ at' = [at EXCEPT ![v] = "widgets"] \/ at' = [at EXCEPT ![v] = "match"]
    BY <1>1 DEF InsertSearch, Widgets, Go
  <2> QED
    BY <2>1, AwayKeeps DEF AtGraph
<1>2. CASE InsertRaises(v)
  <2>1. /\ rels' = rels /\ key' = key /\ todo' = [todo EXCEPT ![v] = <<>>]
        /\ at' = [at EXCEPT ![v] = "failed"] /\ todo \in [Visitor -> Seq(Keyword)]
    BY <1>2 DEF InsertRaises, Raise, Go, KeyInv, TypeOK
  <2> QED
    BY <2>1, AwayKeeps DEF AtGraph
<1>3. CASE Create(v)
  BY <1>3, CreateKeeps DEF Create, Go
<1> QED
  BY <1>1, <1>2, <1>3, MatchKeeps, DetectKeeps, ReadKeeps DEF Serve

LEMMA BrowseKeeps ==
    ASSUME KeyInv, NEW v \in Visitor, Browse(v)
    PROVE  Pages' /\ Counts'
<1> DEFINE Away == /\ rels' = rels /\ todo' = todo
                   /\ \A w \in Visitor \ {v} : key'[w] = key[w]
                   /\ \E p \in {"home", "refused", "count", "profile", "failed"} :
                         at' = [at EXCEPT ![v] = p]
<1>1. key \in [Visitor -> Keyword \union {NoName}]
  BY DEF KeyInv, TypeOK
<1>2. CASE OpenHome(v) \/ Refuse(v) \/ Reload(v)
  <2>1. Away
    BY <1>1, <1>2 DEF OpenHome, Refuse, Reload, Show, Go
  <2> QED
    BY <2>1, AwayKeeps DEF AtGraph
<1>3. ASSUME NEW k \in Keyword, Request(v, k) PROVE Pages' /\ Counts'
  <2>1. Away
    BY <1>1, <1>3 DEF Request, Show, Go
  <2> QED
    BY <2>1, AwayKeeps DEF AtGraph
<1>4. ASSUME NEW a, NEW drawn, NEW graph, Profile(v, a, drawn, graph) PROVE Pages' /\ Counts'
  <2>1. rels' = rels /\ todo' = todo /\ key' = [key EXCEPT ![v] = NoName]
    BY <1>4 DEF Profile
  <2>2. at' = [at EXCEPT ![v] = "profile"] \/ at' = [at EXCEPT ![v] = "failed"]
    BY <1>4 DEF Profile, Show, Go
  <2> QED
    BY <1>1, <2>1, <2>2, AwayKeeps DEF AtGraph
<1>5. CASE OpenFaculty(v) \/ OpenAffiliation(v) \/ OpenPublication(v)
  BY <1>4, <1>5, Zenon DEF OpenFaculty, OpenAffiliation, OpenPublication
<1> QED
  BY <1>2, <1>3, <1>5 DEF Browse, Submit, Follow

LEMMA NextKeeps == KeyInv /\ [Next]_vars => KeyInv'
<1> SUFFICES ASSUME KeyInv, [Next]_vars PROVE Pages' /\ Counts'
  BY TypesKept DEF KeyInv
<1>1. CASE \E v \in Visitor : Serve(v) \/ Browse(v)
  BY <1>1, ServeKeeps, BrowseKeeps
<1>2. CASE \E v \in Visitor : DatabaseFails(v) \/ SessionClashes(v)
  BY <1>2, FailureKeeps DEF DatabaseFails, SessionClashes
<1>3. CASE Tick \/ UNCHANGED vars
  <2>1. rels' = rels /\ at' = at /\ key' = key /\ todo' = todo
    BY <1>3 DEF Tick, vars
  <2>2. Pages'
    BY <2>1 DEF KeyInv, Pages, Page, Wanted, Related
  <2>3. ASSUME NEW a \in Keyword, NEW b \in Keyword PROVE Counted(a, b)'
    <3>1. Creating(a, b)' \subseteq Creating(a, b)
      BY <2>1 DEF Creating
    <3> QED
      BY <2>1, <3>1, CountedStays DEF KeyInv, Counts
  <2> QED
    BY <2>2, <2>3 DEF Counts
<1> QED
  BY <1>1, <1>2, <1>3 DEF Next

-----------------------------------------------------------------------------
\* The tables, the requests and what the browsers show are of their types.
THEOREM TypesHold == Spec => []TypeOK
<1>1. KeyInv => TypeOK
  BY DEF KeyInv
<1> QED
  BY <1>1, InitHolds, NextKeeps, PTL DEF Spec

\* When the page of a keyword is shown, every similar keyword is related to it,
\* whatever failed or clashed before (similar_keyword.py:100).
THEOREM ShownIsComplete == Spec => []ShownComplete
<1>1. KeyInv => ShownComplete
  BY DEF KeyInv, Pages, Page, Wanted, ShownComplete
<1> QED
  BY <1>1, InitHolds, NextKeeps, PTL DEF Spec

LEMMA RelationsBounded ==
    ASSUME KeyInv, NEW a \in Keyword, NEW b \in Keyword
    PROVE  rels[<<a, b>>] =< Cardinality(Visitor)
<1>1. rels[<<a, b>>] \in Nat /\ Counted(a, b)
  BY DEF KeyInv, TypeOK, Counts
<1>2. Cardinality(Creating(a, b)) \in Nat /\ Cardinality(Visitor) \in Nat
  BY CreatingFinite
<1> QED
  BY <1>1, <1>2 DEF Counted

\* A relation is created at most once by each visitor, and only between similar
\* keywords that differ, with no transaction around check and creation
\* (similar_keyword.py:108-119).
THEOREM RelationsAreSound == Spec => []RelationsSound
<1>1. KeyInv => RelationsSound
  <2> SUFFICES ASSUME KeyInv, NEW a \in Keyword, NEW b \in Keyword
               PROVE  /\ rels[<<a, b>>] =< Cardinality(Visitor)
                      /\ Related(a, b) => /\ a # b
                                          /\ Contains(Similar[a], b) \/ Contains(Similar[b], a)
    BY DEF RelationsSound
  <2>1. rels[<<a, b>>] \in Nat /\ Counted(a, b)
    BY DEF KeyInv, TypeOK, Counts
  <2>3. rels[<<a, b>>] =< Cardinality(Visitor)
    BY RelationsBounded
  <2>4. Related(a, b) => rels[<<a, b>>] > 0
    BY <2>1 DEF Related, Counted
  <2>5. /\ Contains(Similar[a], b) <=> b \in ToSet(Similar[a])
        /\ Contains(Similar[b], a) <=> a \in ToSet(Similar[b])
    BY KeywordAssumption, InSet
  <2> QED
    BY <2>1, <2>3, <2>4, <2>5 DEF Counted
<1> QED
  BY <1>1, InitHolds, NextKeeps, PTL DEF Spec

-----------------------------------------------------------------------------
(***************************************************************************)
(* The pages that are made and the searches that are counted.              *)
(***************************************************************************)
Made(v) == at[v] \in {"shown"} \union (Busy \ {"count"})
Makers(k) == {v \in Visitor : key[v] = k /\ Made(v)}
Seconds(k) == {t \in 0..MaxNow : <<k, t>> \in searches}

\* A page starts to be made in InsertSearch only.
LEMMA NothingElseMakes ==
    ASSUME TypeOK, [Next]_vars
    PROVE  \/ \E v \in Visitor : InsertSearch(v)
           \/ \A v \in Visitor : Made(v)' => Made(v) /\ key'[v] = key[v]
<1> USE DEF TypeOK, Made, Busy, AtGraph, Go
<1>1. ASSUME NEW v \in Visitor, ~InsertSearch(v), Serve(v)
      PROVE  \A w \in Visitor : Made(w)' => Made(w) /\ key'[w] = key[w]
  <2>1. key' = key
    BY <1>1 DEF Serve, InsertRaises, Widgets, Match, Detect, Create, Read
  <2>2. CASE InsertRaises(v)
    BY <2>1, <2>2 DEF InsertRaises, Raise
  <2>3. CASE Widgets(v)
    BY <2>1, <2>3 DEF Widgets
  <2>4. CASE Match(v)
    BY <2>1, <2>4 DEF Match, Raise
  <2>5. CASE Detect(v) \/ Create(v)
    BY <2>1, <2>5 DEF Detect, Create
  <2>6. CASE Read(v)
    <3>1. at[v] = "detect"
      BY <2>6 DEF Read
    <3>2. at' = [at EXCEPT ![v] = "failed"] \/ at' = [at EXCEPT ![v] = "shown"]
      BY <2>6 DEF Read, Show
    <3> QED
      BY <2>1, <3>1, <3>2
  <2> QED
    BY <1>1, <2>2, <2>3, <2>4, <2>5, <2>6 DEF Serve
<1>2. ASSUME NEW v \in Visitor, Browse(v)
      PROVE  \A w \in Visitor : Made(w)' => Made(w) /\ key'[w] = key[w]
  <2> DEFINE Away == /\ \A w \in Visitor \ {v} : at'[w] = at[w] /\ key'[w] = key[w]
                     /\ at'[v] \in {"home", "refused", "count", "profile", "failed"}
  <2>1. ASSUME NEW k \in Keyword, Request(v, k) PROVE Away
    BY <2>1 DEF Request, Show
  <2>2. ASSUME NEW a, NEW drawn, NEW graph, Profile(v, a, drawn, graph) PROVE Away
    <3>1. at' = [at EXCEPT ![v] = "profile"] \/ at' = [at EXCEPT ![v] = "failed"]
      BY <2>2 DEF Profile, Show
    <3> QED
      BY <2>2, <3>1 DEF Profile
  <2>3. CASE OpenFaculty(v) \/ OpenAffiliation(v) \/ OpenPublication(v)
    BY <2>2, <2>3, Zenon DEF OpenFaculty, OpenAffiliation, OpenPublication
  <2>4. CASE OpenHome(v)
    BY <2>4 DEF OpenHome, Show
  <2>5. CASE Refuse(v) \/ Reload(v)
    BY <2>5 DEF Refuse, Reload, Show
  <2>6. CASE \E k \in Keyword : Request(v, k)
    BY <2>1, <2>6
  <2> HIDE DEF TypeOK, Made, Busy, AtGraph, Go
  <2> QED
    BY <1>2, <2>3, <2>4, <2>5, <2>6 DEF Browse, Submit, Follow
<1>3. ASSUME NEW v \in Visitor, DatabaseFails(v) \/ SessionClashes(v)
      PROVE  \A w \in Visitor : Made(w)' => Made(w) /\ key'[w] = key[w]
  BY <1>3 DEF DatabaseFails, SessionClashes, Raise
<1>4. CASE Tick \/ UNCHANGED vars
  BY <1>4 DEF Tick, vars
<1> QED
  BY <1>1, <1>2, <1>3, <1>4 DEF Next

LEMMA SearchesGrow ==
    ASSUME [Next]_vars
    PROVE  searches \subseteq searches'
<1>1. ASSUME NEW v \in Visitor, Serve(v) PROVE searches \subseteq searches'
  BY <1>1 DEF Serve, InsertSearch, InsertRaises, Widgets, Match, Detect, Create, Read
<1>2. ASSUME NEW v \in Visitor, Browse(v) PROVE searches \subseteq searches'
  BY <1>2 DEF Browse, OpenHome, Refuse, Reload, OpenFaculty, OpenAffiliation,
              OpenPublication, Profile, Submit, Follow, Request
<1>3. ASSUME NEW v \in Visitor, DatabaseFails(v) \/ SessionClashes(v)
      PROVE  searches \subseteq searches'
  BY <1>3 DEF DatabaseFails, SessionClashes, Effect
<1> QED
  BY <1>1, <1>2, <1>3 DEF Next, Tick, vars

LEMMA CountsKept == TypeOK /\ EveryPageCounts /\ [Next]_vars => EveryPageCounts'
<1> SUFFICES ASSUME TypeOK, EveryPageCounts, [Next]_vars, NEW k \in Keyword
             PROVE  (Cardinality(Makers(k)) =< Cardinality(Seconds(k)))'
  BY DEF EveryPageCounts, Makers, Made, Count, Seconds
<1>1. Cardinality(Makers(k)) =< Cardinality(Seconds(k))
  BY DEF EveryPageCounts, Makers, Made, Count, Seconds
<1>2. IsFiniteSet(0..MaxNow)
  BY FS_Interval, LimitAssumption
<1>3. Seconds(k) \subseteq Seconds(k)' /\ Seconds(k)' \subseteq 0..MaxNow
  BY SearchesGrow DEF Seconds
<1>4. /\ IsFiniteSet(Makers(k)) /\ Cardinality(Makers(k)) \in Nat
      /\ IsFiniteSet(Makers(k)') /\ Cardinality(Makers(k)') \in Nat
  <2>1. Makers(k) \subseteq Visitor /\ Makers(k)' \subseteq Visitor
    BY DEF Makers
  <2> QED
    BY <2>1, VisitorAssumption, FS_Subset, FS_CardinalityType
<1>5. /\ IsFiniteSet(Seconds(k)) /\ Cardinality(Seconds(k)) \in Nat
      /\ IsFiniteSet(Seconds(k)') /\ Cardinality(Seconds(k)') \in Nat
      /\ Cardinality(Seconds(k)) =< Cardinality(Seconds(k)')
  BY <1>2, <1>3, FS_Subset, FS_CardinalityType
<1>6. CASE \A v \in Visitor : Made(v)' => Made(v) /\ key'[v] = key[v]
  <2>1. Makers(k)' \subseteq Makers(k)
    BY <1>6 DEF Makers
  <2>2. Cardinality(Makers(k)') =< Cardinality(Makers(k))
    BY <1>4, <2>1, FS_Subset
  <2> QED
    BY <1>1, <1>4, <1>5, <2>2
<1>7. ASSUME NEW v \in Visitor, InsertSearch(v)
      PROVE  (Cardinality(Makers(k)) =< Cardinality(Seconds(k)))'
  <2>1. /\ key' = key /\ at' = [at EXCEPT ![v] = "widgets"]
        /\ at \in [Visitor -> Looking \union Busy]
        /\ searches' = searches \union {<<key[v], now>>}
        /\ <<key[v], now>> \notin searches /\ now \in 0..MaxNow
    BY <1>7 DEF InsertSearch, Go, TypeOK
  <2>2. CASE key[v] # k
    <3>1. Makers(k)' \subseteq Makers(k)
      BY <2>1, <2>2 DEF Makers, Made
    <3>2. Cardinality(Makers(k)') =< Cardinality(Makers(k))
      BY <1>4, <3>1, FS_Subset
    <3> QED
      BY <1>1, <1>4, <1>5, <3>2
  <2>3. CASE key[v] = k
    <3>1. Makers(k)' \subseteq Makers(k) \union {v}
      BY <2>1 DEF Makers, Made
    <3>2. Cardinality(Makers(k)') =< Cardinality(Makers(k)) + 1
      <4>1. /\ IsFiniteSet(Makers(k) \union {v})
            /\ Cardinality(Makers(k) \union {v}) =< Cardinality(Makers(k)) + 1
        <5> DEFINE M == Makers(k)
        <5>1. IsFiniteSet(M) /\ Cardinality(M) \in Nat
          BY <1>4
        <5> HIDE DEF M
        <5>2. /\ IsFiniteSet(M \union {v})
              /\ Cardinality(M \union {v}) = IF v \in M THEN Cardinality(M) ELSE Cardinality(M) + 1
          BY <5>1, FS_AddElement
        <5>3. IsFiniteSet(M \union {v}) /\ Cardinality(M \union {v}) =< Cardinality(M) + 1
          BY <5>1, <5>2
        <5> QED
          BY <5>3 DEF M
      <4>2. Cardinality(Makers(k)') =< Cardinality(Makers(k) \union {v})
        BY <3>1, <4>1, FS_Subset
      <4>3. Cardinality(Makers(k) \union {v}) \in Nat
        BY <4>1, FS_CardinalityType
      <4> QED
        BY <1>4, <4>1, <4>2, <4>3
    <3>3. Seconds(k)' = Seconds(k) \union {now} /\ now \notin Seconds(k)
      BY <2>1, <2>3 DEF Seconds
    <3>4. Cardinality(Seconds(k)') = Cardinality(Seconds(k)) + 1
      BY <1>5, <3>3, FS_AddElement
    <3> QED
      BY <1>1, <1>4, <1>5, <3>2, <3>4
  <2> QED
    BY <2>2, <2>3
<1> QED
  BY <1>6, <1>7, NothingElseMakes

\* No two pages share a row of the table of searches, whatever fails and however
\* many are loaded within a second (mysql_utils.py:44).
THEOREM EveryPageIsCounted == Spec => []EveryPageCounts
<1>1. Init => EveryPageCounts
  <2> SUFFICES ASSUME Init, NEW k \in Keyword PROVE Cardinality(Makers(k)) =< Count(k)
    BY DEF EveryPageCounts, Makers, Made
  <2>1. Makers(k) = {} /\ Seconds(k) = {}
    BY DEF Makers, Made, Seconds, Init, Busy, AtGraph
  <2>2. Count(k) = Cardinality(Seconds(k))
    BY DEF Count, Seconds
  <2>3. Cardinality(Makers(k)) = 0 /\ Cardinality(Seconds(k)) = 0
    BY <2>1, FS_EmptySet
  <2> QED
    BY <2>2, <2>3
<1> QED
  BY <1>1, TypesHold, CountsKept, PTL DEF Spec

-----------------------------------------------------------------------------
(***************************************************************************)
(* The list that is read back.                                             *)
(***************************************************************************)
LEMMA RowsFinite ==
    ASSUME KeyInv, NEW k \in Keyword, NEW S \in SUBSET Neighbours(k)
    PROVE  /\ IsFiniteSet(S) /\ Cardinality(S) \in Nat
           /\ IsFiniteSet(Rows(k, S))
           /\ Cardinality(Rows(k, S)) =< Cardinality(S) * (2 * Cardinality(Visitor))
<1> DEFINE V == Cardinality(Visitor)
<1> DEFINE I == 1..(2 * V)
<1>1. V \in Nat
  BY VisitorAssumption, FS_CardinalityType
<1>2. IsFiniteSet(S) /\ Cardinality(S) \in Nat
  BY KeywordAssumption, FS_Subset, FS_CardinalityType DEF Neighbours
<1> HIDE DEF V
<1>3. IsFiniteSet(I) /\ Cardinality(I) = 2 * V
  <2>1. 1 \in Int /\ 2 * V \in Int
    BY <1>1
  <2>2. IsFiniteSet(I) /\ Cardinality(I) = IF 1 > 2 * V THEN 0 ELSE 2 * V - 1 + 1
    BY <2>1, FS_Interval
  <2> QED
    BY <1>1, <2>2
<1>4. ASSUME NEW n \in S PROVE rels[<<k, n>>] + rels[<<n, k>>] \in 0..(2 * V)
  <2>1. n \in Keyword /\ rels[<<k, n>>] \in Nat /\ rels[<<n, k>>] \in Nat
    BY DEF KeyInv, TypeOK, Neighbours
  <2>2. rels[<<k, n>>] =< V /\ rels[<<n, k>>] =< V
    BY <2>1, RelationsBounded DEF V
  <2> QED
    BY <1>1, <2>1, <2>2
<1>5. Rows(k, S) \subseteq S \X I
  <2>1. ASSUME NEW n \in S PROVE {n} \X (1..(rels[<<k, n>>] + rels[<<n, k>>])) \subseteq S \X I
    <3> DEFINE d == rels[<<k, n>>] + rels[<<n, k>>]
    <3>1. d \in 0..(2 * V)
      BY <1>4
    <3> HIDE DEF d
    <3>2. 1..d \subseteq I
      BY <1>1, <3>1
    <3> QED
      BY <3>2 DEF d
  <2> QED
    BY <2>1 DEF Rows
<1>6. /\ IsFiniteSet(S \X I)
      /\ Cardinality(S \X I) = Cardinality(S) * Cardinality(I)
  BY <1>2, <1>3, FS_Product
<1>7. IsFiniteSet(Rows(k, S)) /\ Cardinality(Rows(k, S)) =< Cardinality(S \X I)
  BY <1>5, <1>6, FS_Subset
<1> QED
  BY <1>2, <1>3, <1>6, <1>7 DEF V

\* A neighbour that is left out takes its rows with it.
LEMMA FewerRows ==
    ASSUME KeyInv, NEW k \in Keyword,
           NEW S \in SUBSET Neighbours(k), S # Neighbours(k)
    PROVE  Cardinality(Rows(k, S)) < Cardinality(Rows(k, Neighbours(k)))
<1>1. PICK n \in Neighbours(k) : n \notin S
  OBVIOUS
<1>2. rels[<<k, n>>] + rels[<<n, k>>] \in Nat \ {0}
  BY DEF Neighbours, Related, KeyInv, TypeOK
<1>3. <<n, 1>> \in Rows(k, Neighbours(k)) /\ <<n, 1>> \notin Rows(k, S)
  <2>1. 1 \in 1..(rels[<<k, n>>] + rels[<<n, k>>])
    BY <1>2
  <2>2. <<n, 1>> \in {n} \X (1..(rels[<<k, n>>] + rels[<<n, k>>]))
    BY <2>1
  <2>3. <<n, 1>> \in Rows(k, Neighbours(k))
    BY <1>1, <2>2 DEF Rows
  <2>4. ASSUME <<n, 1>> \in Rows(k, S) PROVE FALSE
    <3>1. PICK m \in S : <<n, 1>> \in {m} \X (1..(rels[<<k, m>>] + rels[<<m, k>>]))
      BY <2>4 DEF Rows
    <3>2. n \in {m}
      BY <3>1
    <3> QED
      BY <1>1, <3>2
  <2> QED
    BY <2>3, <2>4
<1>4. Rows(k, S) \subseteq Rows(k, Neighbours(k))
  BY DEF Rows
<1>5. IsFiniteSet(Rows(k, Neighbours(k)))
  BY RowsFinite
<1>6. Cardinality(Rows(k, S)) # Cardinality(Rows(k, Neighbours(k)))
  BY <1>3, <1>4, <1>5, FS_Subset
<1>7. /\ Cardinality(Rows(k, S)) =< Cardinality(Rows(k, Neighbours(k)))
      /\ Cardinality(Rows(k, S)) \in Nat /\ Cardinality(Rows(k, Neighbours(k))) \in Nat
  BY <1>4, <1>5, FS_Subset, FS_CardinalityType
<1> QED
  BY <1>6, <1>7

\* What Read shows.
LEMMA ShownFull ==
    ASSUME KeyInv, NEW k \in Keyword, NEW S \in Shown(k)
    PROVE  S = Neighbours(k) \/ Cardinality(S) * 2 * Cardinality(Visitor) >= RowLimit
<1> SUFFICES ASSUME S # Neighbours(k)
             PROVE  Cardinality(S) * 2 * Cardinality(Visitor) >= RowLimit
  OBVIOUS
<1> DEFINE all == Cardinality(Rows(k, Neighbours(k)))
<1> DEFINE some == Cardinality(Rows(k, S))
<1> DEFINE rows == IF all < RowLimit THEN all ELSE RowLimit
<1>1. S \in SUBSET Neighbours(k) /\ rows =< some
  BY DEF Shown, RowsTo
<1>2. some < all /\ some \in Nat /\ all \in Nat
  BY <1>1, FewerRows, RowsFinite, FS_CardinalityType
<1>3. RowLimit =< some
  BY <1>1, <1>2, LimitAssumption
<1>4. some =< Cardinality(S) * (2 * Cardinality(Visitor)) /\ Cardinality(S) \in Nat
  BY <1>1, RowsFinite
<1>5. Cardinality(Visitor) \in Nat
  BY VisitorAssumption, FS_CardinalityType
<1> HIDE DEF some, all
<1> DEFINE c == Cardinality(S)
<1> DEFINE V == Cardinality(Visitor)
<1>6. c * (2 * V) = c * 2 * V /\ c * 2 * V \in Nat
  BY <1>4, <1>5
<1>7. RowLimit =< c * 2 * V
  BY <1>2, <1>3, <1>4, <1>6, LimitAssumption
<1> QED
  BY <1>6, <1>7, LimitAssumption

\* A page is shown by its own Read, whatever else happens.
LEMMA ShownByRead ==
    ASSUME TypeOK, [Next]_vars, NEW v \in Visitor, at[v] = "detect", at'[v] = "shown"
    PROVE  key[v] \in Keyword /\ links'[v] \in Shown(key[v])
<1>0. key[v] \in Keyword
  BY DEF TypeOK, Busy, AtGraph
<1> USE DEF TypeOK, Go, Show
<1>1. CASE Serve(v)
  <2>1. CASE Read(v)
    BY <1>0, <2>1 DEF Read
  <2>2. CASE ~Read(v)
    BY <1>1, <2>2 DEF Serve, InsertSearch, InsertRaises, Widgets, Match, Detect, Create, Raise
  <2> QED
    BY <2>1, <2>2
<1>2. CASE Browse(v)
  BY <1>2 DEF Browse, OpenHome, Refuse, Reload, Submit, Follow, Request, OpenFaculty,
     OpenAffiliation, OpenPublication, Profile, Looking
<1>3. CASE DatabaseFails(v) \/ SessionClashes(v)
  BY <1>3 DEF DatabaseFails, SessionClashes, Raise
<1>4. ASSUME NEW w \in Visitor \ {v},
             Serve(w) \/ Browse(w) \/ DatabaseFails(w) \/ SessionClashes(w)
      PROVE  at'[v] = at[v]
  <2>1. CASE Serve(w)
    BY <2>1 DEF Serve, InsertSearch, InsertRaises, Widgets, Match, Detect, Create, Read, Raise
  <2>2. CASE Browse(w)
    BY <2>2 DEF Browse, OpenHome, Refuse, Reload, Submit, Follow, Request, OpenFaculty,
       OpenAffiliation, OpenPublication, Profile
  <2>3. CASE DatabaseFails(w) \/ SessionClashes(w)
    BY <2>3 DEF DatabaseFails, SessionClashes, Raise
  <2> QED
    BY <1>4, <2>1, <2>2, <2>3
<1>5. CASE Tick \/ UNCHANGED vars
  BY <1>5 DEF Tick, vars
<1> QED
  BY <1>1, <1>2, <1>3, <1>4, <1>5 DEF Next

\* The list that is read back leaves out a neighbour only when the rows are
\* used up, and doubled relations use up no more of them than the threads can
\* double (similar_keyword.py:128-136).
THEOREM ListsAreFull == Spec => ListFull
<1>1. ASSUME KeyInv, [Next]_vars
      PROVE  [\A v \in Visitor : at[v] = "detect" /\ at'[v] = "shown" =>
                \/ links'[v] = Neighbours(key[v])
                \/ Cardinality(links'[v]) * 2 * Cardinality(Visitor) >= RowLimit]_vars
  BY <1>1, ShownByRead, ShownFull DEF KeyInv
<1> QED
  BY <1>1, InitHolds, NextKeeps, PTL DEF Spec, ListFull

-----------------------------------------------------------------------------
(***************************************************************************)
(* Loops: what a recursive function over 0..n is, and induction along it.  *)
(***************************************************************************)
LEMMA Climb ==
    ASSUME NEW n \in Nat, NEW T, 0 \in T, \A k \in 1..n : k - 1 \in T => k \in T
    PROVE  \A k \in 0..n : k \in T
<1> DEFINE R == OpToRel(<, Nat)
<1> DEFINE Missing == {k \in 0..n : k \notin T}
<1> SUFFICES ASSUME Missing # {} PROVE FALSE
  OBVIOUS
<1>1. IsWellFoundedOn(R, Nat)
  BY NatLessThanWellFounded
<1>2. Missing \subseteq Nat
  OBVIOUS
<1> HIDE DEF R
<1>3. PICK k \in Missing : \A j \in Missing : ~(<<j, k>> \in R)
  BY <1>1, <1>2, WFMin
<1>4. k \in 1..n /\ k - 1 \in 0..n /\ k - 1 < k
  BY <1>3
<1>5. k - 1 \in Missing
  BY <1>3, <1>4
<1>6. <<k - 1, k>> \in R
  BY <1>4 DEF R, OpToRel
<1> QED
  BY <1>3, <1>5, <1>6

\* A loop of n turns from base.
IsLoop(g, n, S, base, step) ==
    /\ g \in [0..n -> S]
    /\ g[0] = base
    /\ \A k \in 1..n : g[k] = step[k][g[k - 1]]

LEMMA LoopExists ==
    ASSUME NEW n \in Nat, NEW S, NEW base \in S, NEW step \in [1..n -> [S -> S]]
    PROVE  \E g : IsLoop(g, n, S, base, step)
<1> DEFINE Upto(m, g) == g[0] = base /\ \A k \in 1..m : g[k] = step[k][g[k - 1]]
<1> DEFINE T == {m \in 0..n : \E g \in [0..m -> S] : Upto(m, g)}
<1>1. 0 \in T
  <2> DEFINE h == [k \in 0..0 |-> base]
  <2>1. h \in [0..0 -> S] /\ h[0] = base
    OBVIOUS
  <2> HIDE DEF h
  <2>2. \A k \in 1..0 : h[k] = step[k][h[k - 1]]
    OBVIOUS
  <2> QED
    BY <2>1, <2>2
<1>2. ASSUME NEW m \in 1..n, m - 1 \in T PROVE m \in T
  <2>1. PICK g \in [0..(m - 1) -> S] : Upto(m - 1, g)
    BY <1>2
  <2> DEFINE last == step[m][g[m - 1]]
  <2> DEFINE h == [k \in 0..m |-> IF k = m THEN last ELSE g[k]]
  <2>2. last \in S
    OBVIOUS
  <2>3. h \in [0..m -> S]
    <3>1. ASSUME NEW k \in 0..m, k # m PROVE k \in 0..(m - 1)
      BY <3>1
    <3> HIDE DEF last
    <3> QED
      BY <2>2, <3>1
  <2>4. h[0] = base
    BY <2>1
  <2>5. ASSUME NEW k \in 1..m PROVE h[k] = step[k][h[k - 1]]
    <3>1. CASE k = m
      <4>1. m - 1 \in 0..m /\ m - 1 # m
        OBVIOUS
      <4>2. h[m] = last /\ h[m - 1] = g[m - 1]
        BY <4>1
      <4> HIDE DEF h
      <4> QED
        BY <3>1, <4>2
    <3>2. CASE k # m
      <4>1. k \in 1..(m - 1) /\ k - 1 # m /\ k - 1 \in 0..m
        BY <3>2
      <4>2. h[k] = g[k] /\ h[k - 1] = g[k - 1]
        BY <3>2, <4>1
      <4>3. g[k] = step[k][g[k - 1]]
        BY <2>1, <4>1
      <4> HIDE DEF h
      <4> QED
        BY <4>2, <4>3
    <3> QED
      BY <3>1, <3>2
  <2> HIDE DEF h
  <2>6. Upto(m, h)
    BY <2>4, <2>5
  <2> HIDE DEF Upto
  <2> QED
    BY <2>3, <2>6
<1> HIDE DEF T
<1>3. \A m \in 0..n : m \in T
  BY <1>1, <1>2, Climb
<1>4. n \in T
  BY <1>3
<1> QED
  BY <1>4 DEF T, IsLoop

-----------------------------------------------------------------------------
(***************************************************************************)
(* Networks, node by node and edge by edge.                                *)
(***************************************************************************)
Graphs(N) == [nodes : Seq(N), edges : Seq(N \X N)]

LEMMA Appended ==
    ASSUME NEW S, NEW s \in Seq(S), NEW e \in S
    PROVE  /\ Append(s, e) \in Seq(S)
           /\ Len(Append(s, e)) = Len(s) + 1
           /\ ToSet(Append(s, e)) = ToSet(s) \union {e}
<1> DEFINE t == Append(s, e)
<1> DEFINE n == Len(s)
<1>1. n \in Nat /\ t \in Seq(S) /\ Len(t) = n + 1 /\ DOMAIN s = 1..n /\ DOMAIN t = 1..(n + 1)
  OBVIOUS
<1>2. \A k \in 1..(n + 1) : t[k] = IF k =< n THEN s[k] ELSE e
  OBVIOUS
<1> HIDE DEF n, t
<1>3. ToSet(t) = {t[k] : k \in 1..(n + 1)} /\ ToSet(s) = {s[k] : k \in 1..n}
  BY <1>1 DEF ToSet
<1>4. ToSet(t) \subseteq ToSet(s) \union {e}
  BY <1>1, <1>2, <1>3
<1>5. ToSet(s) \subseteq ToSet(t)
  <2>1. \A k \in 1..n : k \in 1..(n + 1) /\ t[k] = s[k]
    BY <1>1, <1>2
  <2> QED
    BY <1>3, <2>1
<1>6. e \in ToSet(t)
  <2>1. n + 1 \in 1..(n + 1) /\ t[n + 1] = e
    BY <1>1, <1>2
  <2> QED
    BY <1>3, <2>1
<1> QED
  BY <1>1, <1>4, <1>5, <1>6 DEF t, n

LEMMA TailAppended ==
    ASSUME NEW S, NEW s \in Seq(S), s # <<>>, NEW e \in S
    PROVE  /\ Append(s, e) # <<>>
           /\ Head(Append(s, e)) = Head(s)
           /\ ToSet(Tail(Append(s, e))) = ToSet(Tail(s)) \union {e}
<1>1. Append(s, e) # <<>> /\ Head(Append(s, e)) = Head(s)
  OBVIOUS
<1> DEFINE t == Tail(s)
<1>2. t \in Seq(S) /\ Tail(Append(s, e)) = Append(t, e)
  OBVIOUS
<1> HIDE DEF t
<1>3. ToSet(Append(t, e)) = ToSet(t) \union {e}
  BY <1>2, Appended
<1> QED
  BY <1>1, <1>2, <1>3 DEF t

Undirected(e) == {e[1], e[2]}

LEMMA EndsOfEdges ==
    ASSUME NEW g
    PROVE  Ends(g) = {Undirected(e) : e \in ToSet(g.edges)}
BY DEF Ends, Undirected, ToSet

With(S, n) == S \union {n}

\* The nodes around the first one.
Around(g) == ToSet(Tail(g.nodes))

LEMMA NodeAdded ==
    ASSUME NEW N, NEW g \in Graphs(N), NEW n \in N
    PROVE  /\ AddNode(g, n) \in Graphs(N)
           /\ NodesOf(AddNode(g, n)) = With(NodesOf(g), n)
           /\ Len(AddNode(g, n).nodes) = Len(g.nodes) + 1
           /\ Ends(AddNode(g, n)) = Ends(g)
           /\ g.nodes # <<>> => /\ AddNode(g, n).nodes # <<>>
                                /\ Head(AddNode(g, n).nodes) = Head(g.nodes)
                                /\ Around(AddNode(g, n)) = With(Around(g), n)
<1> DEFINE h == AddNode(g, n)
<1>1. /\ g.nodes \in Seq(N) /\ g.edges \in Seq(N \X N)
      /\ h = [nodes |-> Append(g.nodes, n), edges |-> g.edges]
  <2>1. g.nodes \in Seq(N) /\ g.edges \in Seq(N \X N)
    BY DEF Graphs
  <2>2. ASSUME NEW x PROVE [g EXCEPT !.nodes = x] = [nodes |-> x, edges |-> g.edges]
    BY DEF Graphs
  <2>3. h = [g EXCEPT !.nodes = Append(g.nodes, n)]
    BY DEF AddNode
  <2> HIDE DEF h
  <2> QED
    BY <2>1, <2>2, <2>3
<1>2. h.nodes = Append(g.nodes, n) /\ h.edges = g.edges
  BY <1>1
<1>3. h \in Graphs(N)
  BY <1>1, Appended DEF Graphs
<1> HIDE DEF h
<1>4. ToSet(h.nodes) = ToSet(g.nodes) \union {n} /\ Len(h.nodes) = Len(g.nodes) + 1
  <2> DEFINE s == g.nodes
  <2>1. s \in Seq(N)
    BY <1>1
  <2> HIDE DEF s
  <2>2. ToSet(Append(s, n)) = ToSet(s) \union {n} /\ Len(Append(s, n)) = Len(s) + 1
    BY <2>1, Appended
  <2> QED
    BY <1>2, <2>2 DEF s
<1>5. Ends(h) = Ends(g)
  BY <1>2, EndsOfEdges
<1>6. g.nodes # <<>> => /\ h.nodes # <<>> /\ Head(h.nodes) = Head(g.nodes)
                        /\ ToSet(Tail(h.nodes)) = ToSet(Tail(g.nodes)) \union {n}
  <2> DEFINE s == g.nodes
  <2>1. s \in Seq(N)
    BY <1>1
  <2> HIDE DEF s
  <2>2. s # <<>> => /\ Append(s, n) # <<>> /\ Head(Append(s, n)) = Head(s)
                    /\ ToSet(Tail(Append(s, n))) = ToSet(Tail(s)) \union {n}
    BY <2>1, TailAppended
  <2> QED
    BY <1>2, <2>2 DEF s
<1> QED
  BY <1>3, <1>4, <1>5, <1>6 DEF NodesOf, With, Around, h

Joined(E, a, b) == E \union {{a, b}}

LEMMA EdgeAdded ==
    ASSUME NEW N, NEW g \in Graphs(N), NEW a \in N, NEW b \in N
    PROVE  /\ AddEdge(g, a, b) \in Graphs(N)
           /\ AddEdge(g, a, b).nodes = g.nodes
           /\ NodesOf(AddEdge(g, a, b)) = NodesOf(g)
           /\ Ends(AddEdge(g, a, b)) = Joined(Ends(g), a, b)
<1> DEFINE h == AddEdge(g, a, b)
<1>1. /\ g.nodes \in Seq(N) /\ g.edges \in Seq(N \X N)
      /\ h = [nodes |-> g.nodes, edges |-> Append(g.edges, <<a, b>>)]
  <2>1. g.nodes \in Seq(N) /\ g.edges \in Seq(N \X N)
    BY DEF Graphs
  <2>2. ASSUME NEW x PROVE [g EXCEPT !.edges = x] = [nodes |-> g.nodes, edges |-> x]
    BY DEF Graphs
  <2>3. h = [g EXCEPT !.edges = Append(g.edges, <<a, b>>)]
    BY DEF AddEdge
  <2> HIDE DEF h
  <2> QED
    BY <2>1, <2>2, <2>3
<1>2. h.nodes = g.nodes /\ h.edges = Append(g.edges, <<a, b>>)
  BY <1>1
<1>3. <<a, b>> \in N \X N
  OBVIOUS
<1>4. h \in Graphs(N)
  BY <1>1, <1>3, Appended DEF Graphs
<1> HIDE DEF h
<1>5. ToSet(h.edges) = ToSet(g.edges) \union {<<a, b>>}
  <2> DEFINE E == N \X N
  <2> DEFINE s == g.edges
  <2> DEFINE e == <<a, b>>
  <2>1. s \in Seq(E) /\ e \in E
    BY <1>1, <1>3
  <2> HIDE DEF E, s, e
  <2>2. ToSet(Append(s, e)) = ToSet(s) \union {e}
    BY <2>1, Appended
  <2> QED
    BY <1>2, <2>2 DEF s, e
<1>6. Undirected(<<a, b>>) = {a, b}
  BY DEF Undirected
<1>7. Ends(h) = Joined(Ends(g), a, b)
  <2>1. Ends(h) = {Undirected(e) : e \in ToSet(g.edges) \union {<<a, b>>}}
    BY <1>5, EndsOfEdges
  <2>2. Ends(g) = {Undirected(e) : e \in ToSet(g.edges)}
    BY EndsOfEdges
  <2> QED
    BY <1>6, <2>1, <2>2 DEF Joined
<1> QED
  BY <1>2, <1>4, <1>7 DEF NodesOf, h

LEMMA AloneIs ==
    ASSUME NEW N, NEW center \in N
    PROVE  /\ Alone(center) \in Graphs(N)
           /\ NodesOf(Alone(center)) = {center}
           /\ Alone(center).nodes = <<center>>
           /\ Ends(Alone(center)) = {}
<1>1. Alone(center).nodes = <<center>> /\ Alone(center).edges = <<>>
  BY DEF Alone
<1>2. ToSet(<<center>>) = {center} /\ ToSet(<<>>) = {}
  BY DEF ToSet
<1>3. Ends(Alone(center)) = {}
  BY <1>1, <1>2, EndsOfEdges
<1> QED
  BY <1>1, <1>2, <1>3 DEF Alone, Graphs, NodesOf

-----------------------------------------------------------------------------
(***************************************************************************)
(* Stars.                                                                  *)
(***************************************************************************)
Stars(N, L) == [graph : Graphs(N), labels : SUBSET L]

\* What a star is after some of its rows.
Fits(center, acc) ==
    /\ acc.graph.nodes # <<>> /\ Head(acc.graph.nodes) = center
    /\ IsFiniteSet(acc.labels)
    /\ Len(acc.graph.nodes) = Cardinality(acc.labels) + 1
    /\ Ends(acc.graph) = Lines({center}, Around(acc.graph))

LEMMA SpokeIs ==
    ASSUME NEW N, NEW L, NEW center \in N, NEW acc \in Stars(N, L),
           NEW row, row.id \in N, row.label \in L
    PROVE  LET new == Spoke(center, acc, row) IN
           /\ new \in Stars(N, L)
           /\ new.labels = acc.labels \union {row.label}
           /\ Fits(center, acc) => /\ Fits(center, new)
                                   /\ Around(acc.graph) \subseteq Around(new.graph)
                                   /\ \/ row.label \in acc.labels
                                      \/ row.id \in Around(new.graph)
<1> DEFINE new == Spoke(center, acc, row)
<1> DEFINE g == acc.graph
<1> DEFINE h == AddNode(g, row.id)
<1>1. g \in Graphs(N) /\ acc.labels \in SUBSET L
  BY DEF Stars
<1>2. CASE row.label \in acc.labels
  BY <1>2, new = acc DEF Spoke
<1>3. CASE row.label \notin acc.labels
  <2>1. /\ new.graph = AddEdge(h, center, row.id)
        /\ new.labels = acc.labels \union {row.label}
        /\ new = [graph |-> new.graph, labels |-> new.labels]
    BY <1>3 DEF Spoke
  <2>2. /\ h \in Graphs(N) /\ Len(h.nodes) = Len(g.nodes) + 1 /\ Ends(h) = Ends(g)
        /\ g.nodes # <<>> => /\ h.nodes # <<>> /\ Head(h.nodes) = Head(g.nodes)
                             /\ Around(h) = With(Around(g), row.id)
    BY <1>1, NodeAdded
  <2> HIDE DEF new, g, h
  <2>3. /\ new.graph \in Graphs(N) /\ new.graph.nodes = h.nodes
        /\ Ends(new.graph) = Joined(Ends(h), center, row.id)
    BY <2>1, <2>2, EdgeAdded
  <2>4. new \in Stars(N, L)
    BY <1>1, <2>1, <2>3 DEF Stars
  <2>5. ASSUME Fits(center, acc)
        PROVE  Fits(center, new) /\ Around(new.graph) = With(Around(g), row.id)
    <3>1. /\ new.graph.nodes # <<>> /\ Head(new.graph.nodes) = center
          /\ Around(new.graph) = With(Around(g), row.id)
      BY <2>2, <2>3, <2>5 DEF Fits, g, Around
    <3>2. IsFiniteSet(new.labels) /\ Cardinality(new.labels) = Cardinality(acc.labels) + 1
      <4>1. IsFiniteSet(acc.labels)
        BY <2>5 DEF Fits
      <4>2. /\ IsFiniteSet(acc.labels \union {row.label})
            /\ Cardinality(acc.labels \union {row.label}) = Cardinality(acc.labels) + 1
        BY <1>3, <4>1, FS_AddElement
      <4> QED
        BY <2>1, <4>2
    <3>3. Len(new.graph.nodes) = Cardinality(new.labels) + 1
      BY <2>2, <2>3, <2>5, <3>2 DEF Fits, g
    <3>4. Ends(new.graph) = Joined(Lines({center}, Around(g)), center, row.id)
      BY <2>2, <2>3, <2>5 DEF Fits, g
    <3>5. Ends(new.graph) = Lines({center}, Around(new.graph))
      <4>1. ASSUME NEW A
            PROVE  Lines({center}, With(A, row.id)) = Joined(Lines({center}, A), center, row.id)
        BY DEF Lines, Joined, With
      <4> QED
        BY <3>1, <3>4, <4>1
    <3> QED
      BY <3>1, <3>2, <3>3, <3>5 DEF Fits
  <2> QED
    BY <1>3, <2>1, <2>4, <2>5 DEF g, new, With
<1> QED
  BY <1>2, <1>3

\* The turns of the loop.
LEMMA SpokesAre ==
    ASSUME NEW center, NEW rows, IsRows(rows), NEW N, NEW L,
           center \in N, \A k \in DOMAIN rows : rows[k].id \in N /\ rows[k].label \in L
    PROVE  LET f == Spokes(center, rows)
               n == Len(rows) IN
           /\ f[0] = [graph |-> Alone(center), labels |-> {}]
           /\ \A k \in 1..n : f[k] = Spoke(center, f[k - 1], rows[k])
           /\ \A k \in 0..n : f[k] \in Stars(N, L)
<1> DEFINE n == Len(rows)
<1> DEFINE S == Stars(N, L)
<1> DEFINE base == [graph |-> Alone(center), labels |-> {}]
<1> DEFINE step == [k \in 1..n |-> [acc \in S |-> Spoke(center, acc, rows[k])]]
<1> DEFINE Body(g) == [k \in 0..n |-> IF k = 0 THEN base ELSE Spoke(center, g[k - 1], rows[k])]
<1> DEFINE f == Spokes(center, rows)
<1>1. n \in Nat /\ DOMAIN rows = 1..n
  BY DEF IsRows
<1>2. base \in S
  BY AloneIs DEF Stars
<1>3. ASSUME NEW k \in 1..n, NEW acc \in S
      PROVE  step[k][acc] = Spoke(center, acc, rows[k]) /\ Spoke(center, acc, rows[k]) \in S
  <2>1. Spoke(center, acc, rows[k]) \in S
    BY <1>1, SpokeIs
  <2> QED
    BY <2>1
<1>4. step \in [1..n -> [S -> S]]
  <2>1. ASSUME NEW k \in 1..n PROVE [acc \in S |-> Spoke(center, acc, rows[k])] \in [S -> S]
    BY <1>3
  <2> HIDE DEF S
  <2> QED
    BY <2>1
<1>5. f = CHOOSE g : g = Body(g)
  BY DEF Spokes
<1> HIDE DEF n, S, base, step, f
<1>5a. \E g : IsLoop(g, n, S, base, step)
  BY <1>1, <1>2, <1>4, LoopExists
<1>6. PICK g : /\ g \in [0..n -> S]
               /\ g[0] = base /\ \A k \in 1..n : g[k] = step[k][g[k - 1]]
  BY <1>5a DEF IsLoop
<1>7. g = Body(g)
  <2>1. ASSUME NEW k \in 1..n PROVE g[k] = Spoke(center, g[k - 1], rows[k])
    <3>1. k - 1 \in 0..n
      BY <1>1
    <3>2. g[k - 1] \in S
      BY <1>6, <3>1
    <3> QED
      BY <1>3, <1>6, <3>2
  <2>2. \A k \in 0..n : k = 0 \/ k \in 1..n
    BY <1>1
  <2>3. \A k \in 0..n : g[k] = Body(g)[k]
    BY <1>6, <2>1, <2>2
  <2> QED
    BY <1>6, <2>3
<1>8. f = Body(f)
  <2> HIDE DEF Body
  <2> QED
    BY <1>5, <1>7
<1>9. f[0] = base /\ \A k \in 1..n : f[k] = Spoke(center, f[k - 1], rows[k])
  <2>1. \A k \in 0..n : f[k] = Body(f)[k]
    BY <1>8
  <2>2. 0 \in 0..n /\ \A k \in 1..n : k \in 0..n /\ k # 0
    BY <1>1
  <2> QED
    BY <2>1, <2>2
<1>10. \A k \in 0..n : f[k] \in S
  <2> DEFINE T == {k \in 0..n : f[k] \in S}
  <2>1. 0 \in T
    BY <1>1, <1>2, <1>9
  <2>2. ASSUME NEW k \in 1..n, k - 1 \in T PROVE k \in T
    <3>1. f[k - 1] \in S
      BY <2>2
    <3>2. Spoke(center, f[k - 1], rows[k]) \in S
      BY <1>3, <3>1
    <3>3. f[k] \in S /\ k \in 0..n
      BY <1>1, <1>9, <3>2
    <3> QED
      BY <3>3
  <2> HIDE DEF T
  <2>3. \A k \in 0..n : k \in T
    BY <1>1, <2>1, <2>2, Climb
  <2> QED
    BY <2>3 DEF T
<1> QED
  BY <1>9, <1>10 DEF S, f, base, n

LEMMA StarIsTrue ==
    ASSUME NEW center, NEW rows, IsRows(rows)
    PROVE  StarTrue(Star(center, rows), center, rows)
<1> DEFINE n == Len(rows)
<1> DEFINE N == {center} \union {rows[k].id : k \in 1..n}
<1> DEFINE L == {rows[k].label : k \in 1..n}
<1> DEFINE f == Spokes(center, rows)
<1>1. n \in Nat /\ DOMAIN rows = 1..n
  BY DEF IsRows
<1>2. center \in N /\ \A k \in 1..n : rows[k].id \in N /\ rows[k].label \in L
  OBVIOUS
<1>3. /\ f[0] = [graph |-> Alone(center), labels |-> {}]
      /\ \A k \in 1..n : f[k] = Spoke(center, f[k - 1], rows[k])
      /\ \A k \in 0..n : f[k] \in Stars(N, L)
  <2> HIDE DEF N, L
  <2>1. \A k \in DOMAIN rows : rows[k].id \in N /\ rows[k].label \in L
    BY <1>1, <1>2
  <2> QED
    BY <1>2, <2>1, SpokesAre
<1>4. Star(center, rows) = f[n].graph
  BY DEF Star
<1> DEFINE Seen(k) == {rows[j].label : j \in 1..k}
<1> DEFINE Good(k) ==
      /\ Fits(center, f[k])
      /\ f[k].labels = Seen(k)
      /\ \A j \in 1..k : \E i \in 1..k : /\ rows[i].label = rows[j].label
                                         /\ rows[i].id \in Around(f[k].graph)
<1> DEFINE T == {k \in 0..n : Good(k)}
<1> HIDE DEF n, N, L, f
<1>5. 0 \in T
  <2>1. f[0].graph = Alone(center) /\ f[0].labels = {}
    BY <1>3
  <2>2. Fits(center, f[0])
    <3>1. IsFiniteSet({}) /\ Cardinality({}) = 0
      BY FS_EmptySet
    <3>2. Alone(center).nodes = <<center>> /\ Ends(Alone(center)) = {}
      BY <1>2, AloneIs
    <3>3. <<center>> # <<>> /\ Head(<<center>>) = center /\ Len(<<center>>) = 1
          /\ Tail(<<center>>) = <<>>
      OBVIOUS
    <3>4. Around(Alone(center)) = {}
      BY <3>2, <3>3 DEF Around, ToSet
    <3>5. Ends(Alone(center)) = Lines({center}, Around(Alone(center)))
      BY <3>2, <3>4 DEF Lines
    <3> QED
      BY <2>1, <3>1, <3>2, <3>3, <3>5 DEF Fits
  <2> QED
    BY <1>1, <2>1, <2>2
<1>6. ASSUME NEW k \in 1..n, k - 1 \in T PROVE k \in T
  <2> DEFINE old == f[k - 1]
  <2> DEFINE row == rows[k]
  <2>1. k - 1 \in 0..n /\ k \in 0..n /\ k \in Nat /\ Good(k - 1)
    <3>1. k - 1 \in 0..n /\ k \in 0..n /\ k \in Nat
      BY <1>1
    <3> HIDE DEF Good
    <3> QED
      BY <1>6, <3>1
  <2>2. old \in Stars(N, L) /\ row.id \in N /\ row.label \in L /\ center \in N
    BY <1>1, <1>2, <1>3, <2>1
  <2>3. f[k] = Spoke(center, old, row)
    BY <1>3
  <2>4. Fits(center, old)
    BY <2>1
  <2> HIDE DEF old, row
  <2>5. /\ f[k].labels = old.labels \union {row.label}
        /\ Fits(center, f[k])
        /\ Around(old.graph) \subseteq Around(f[k].graph)
        /\ row.label \in old.labels \/ row.id \in Around(f[k].graph)
    <3> DEFINE new == Spoke(center, old, row)
    <3>1. new.labels = old.labels \union {row.label}
      BY ONLY <2>2, SpokeIs
    <3>2. Fits(center, new)
      BY ONLY <2>2, <2>4, SpokeIs
    <3>3. Around(old.graph) \subseteq Around(new.graph)
      BY ONLY <2>2, <2>4, SpokeIs
    <3>4. row.label \in old.labels \/ row.id \in Around(new.graph)
      BY ONLY <2>2, <2>4, SpokeIs
    <3> QED
      BY <2>3, <3>1, <3>2, <3>3, <3>4
  <2>6. 1..k = (1..(k - 1)) \union {k}
    BY <2>1
  <2>7. f[k].labels = Seen(k)
    BY <2>1, <2>5, <2>6 DEF old, row
  <2>8. ASSUME NEW j \in 1..k
        PROVE  \E i \in 1..k : rows[i].label = rows[j].label /\ rows[i].id \in Around(f[k].graph)
    <3>1. CASE j \in 1..(k - 1)
      BY <2>1, <2>5, <2>6, <3>1 DEF old
    <3>2. CASE j = k /\ row.label \notin old.labels
      BY <2>5, <2>6, <3>2 DEF row
    <3>3. CASE j = k /\ row.label \in old.labels
      <4>1. PICK m \in 1..(k - 1) : rows[m].label = row.label
        BY <2>1, <3>3 DEF old
      <4>2. PICK i \in 1..(k - 1) : rows[i].label = rows[m].label /\ rows[i].id \in Around(old.graph)
        BY <2>1 DEF old
      <4> QED
        BY <2>5, <2>6, <3>3, <4>1, <4>2 DEF row
    <3> QED
      BY <2>6, <3>1, <3>2, <3>3
  <2> QED
    BY <2>1, <2>5, <2>7, <2>8
<1>7. Good(n)
  <2> HIDE DEF T
  <2>1. \A k \in 0..n : k \in T
    BY <1>1, <1>5, <1>6, Climb
  <2>2. n \in 0..n
    BY <1>1
  <2> QED
    BY <2>1, <2>2 DEF T
<1> DEFINE g == f[n].graph
<1> HIDE DEF g
<1>8. /\ Head(g.nodes) = center /\ Ends(g) = Lines({center}, Around(g))
      /\ Len(g.nodes) = Cardinality(Seen(n)) + 1
  BY <1>7 DEF Fits, g
<1>9. Seen(n) = {rows[k].label : k \in {j \in 1..n : rows[j].id \in Around(g)}}
  BY <1>7 DEF g
<1>10. Star(center, rows) = g
  BY <1>4 DEF g
<1> QED
  BY <1>1, <1>8, <1>9, <1>10 DEF StarTrue, Around

-----------------------------------------------------------------------------
(***************************************************************************)
(* Webs: what each kind of node does to what has been drawn.               *)
(***************************************************************************)
Webs(N) == [graph : Graphs(N), topics : SUBSET N, pid : N, kid : N]

LEMMA WebFields ==
    ASSUME NEW N, NEW acc \in Webs(N)
    PROVE  /\ acc.graph \in Graphs(N) /\ acc.topics \subseteq N
           /\ acc.pid \in N /\ acc.kid \in N
           /\ acc = [graph |-> acc.graph, topics |-> acc.topics, pid |-> acc.pid, kid |-> acc.kid]
BY DEF Webs

LEMMA WebMade ==
    ASSUME NEW N, NEW g \in Graphs(N), NEW t \in SUBSET N, NEW p \in N, NEW k \in N
    PROVE  [graph |-> g, topics |-> t, pid |-> p, kid |-> k] \in Webs(N)
BY DEF Webs

LEMMA TopicIs ==
    ASSUME NEW N, NEW acc \in Webs(N), NEW n \in N, acc.topics \subseteq NodesOf(acc.graph)
    PROVE  LET new == AtTopic(acc, n) IN
           /\ new \in Webs(N)
           /\ NodesOf(new.graph) = With(NodesOf(acc.graph), n)
           /\ Ends(new.graph) = Joined(Ends(acc.graph), acc.pid, n)
           /\ new.topics = acc.topics \union {n} /\ new.pid = acc.pid /\ new.kid = n
<1> DEFINE g == AddEdge(acc.graph, acc.pid, n)
<1> DEFINE h == IF n \in acc.topics THEN g ELSE AddNode(g, n)
<1> DEFINE new == AtTopic(acc, n)
<1>1. new = [acc EXCEPT !.graph = h, !.topics = acc.topics \union {n}, !.kid = n]
  BY DEF AtTopic
<1> HIDE DEF new
<1>2. /\ g \in Graphs(N) /\ NodesOf(g) = NodesOf(acc.graph)
      /\ Ends(g) = Joined(Ends(acc.graph), acc.pid, n)
  BY WebFields, EdgeAdded
<1> HIDE DEF g
<1>3. /\ h \in Graphs(N) /\ NodesOf(h) = With(NodesOf(acc.graph), n)
      /\ Ends(h) = Joined(Ends(acc.graph), acc.pid, n)
  <2>1. CASE n \in acc.topics
    BY <1>2, <2>1 DEF With
  <2>2. CASE n \notin acc.topics
    BY <1>2, <2>2, NodeAdded
  <2> QED
    BY <2>1, <2>2
<1> HIDE DEF h
<1>4. new = [graph |-> h, topics |-> acc.topics \union {n}, pid |-> acc.pid, kid |-> n]
  BY <1>1, WebFields DEF Webs
<1>5. new \in Webs(N)
  <2>1. acc.topics \union {n} \in SUBSET N /\ acc.pid \in N
    BY WebFields
  <2> QED
    BY <1>3, <1>4, <2>1, WebMade
<1>6. /\ new.graph = h /\ new.topics = acc.topics \union {n}
      /\ new.pid = acc.pid /\ new.kid = n
  BY <1>4
<1> QED
  BY <1>3, <1>5, <1>6 DEF new

LEMMA CenterIs ==
    ASSUME NEW N, NEW acc \in Webs(N), NEW center \in N, NoNode \in N
    PROVE  LET new == AtCenter(acc, center) IN
           /\ new \in Webs(N)
           /\ NodesOf(new.graph) = NodesOf(acc.graph)
           /\ Ends(new.graph) = IF acc.kid = NoNode THEN Ends(acc.graph)
                                ELSE Joined(Ends(acc.graph), center, acc.kid)
           /\ new.topics = acc.topics /\ new.pid = acc.pid /\ new.kid = NoNode
<1> DEFINE new == AtCenter(acc, center)
<1>1. CASE acc.kid = NoNode
  BY <1>1, new = acc DEF AtCenter
<1>2. CASE acc.kid # NoNode
  <2> DEFINE g == AddEdge(acc.graph, center, acc.kid)
  <2>1. new = [acc EXCEPT !.graph = g, !.kid = NoNode]
    BY <1>2 DEF AtCenter
  <2>2. /\ g \in Graphs(N) /\ NodesOf(g) = NodesOf(acc.graph)
        /\ Ends(g) = Joined(Ends(acc.graph), center, acc.kid)
    <3> DEFINE before == acc.graph
    <3> DEFINE topic == acc.kid
    <3>1. before \in Graphs(N) /\ topic \in N
      BY WebFields
    <3> HIDE DEF before, topic
    <3>2. /\ AddEdge(before, center, topic) \in Graphs(N)
          /\ NodesOf(AddEdge(before, center, topic)) = NodesOf(before)
          /\ Ends(AddEdge(before, center, topic)) = Joined(Ends(before), center, topic)
      BY <3>1, EdgeAdded
    <3> QED
      BY <3>2 DEF before, topic
  <2> HIDE DEF new, g
  <2>3. new = [graph |-> g, topics |-> acc.topics, pid |-> acc.pid, kid |-> NoNode]
    BY <2>1, WebFields DEF Webs
  <2>4. new \in Webs(N)
    BY <2>2, <2>3, WebFields, WebMade
  <2>5. /\ new.graph = g /\ new.topics = acc.topics
        /\ new.pid = acc.pid /\ new.kid = NoNode
    BY <2>3
  <2> QED
    BY <1>2, <2>2, <2>4, <2>5 DEF new
<1> QED
  BY <1>1, <1>2

LEMMA PublicationIs ==
    ASSUME NEW N, NEW acc \in Webs(N), NEW n \in N, NoNode \in N
    PROVE  LET new == AtPublication(acc, n) IN
           /\ new \in Webs(N)
           /\ NodesOf(new.graph) = With(NodesOf(acc.graph), n)
           /\ Ends(new.graph) = IF acc.kid = NoNode THEN Ends(acc.graph)
                                ELSE Joined(Ends(acc.graph), acc.kid, n)
           /\ new.topics = acc.topics /\ new.pid = n /\ new.kid = NoNode
<1> DEFINE g == AddNode(acc.graph, n)
<1> DEFINE h == IF acc.kid = NoNode THEN g ELSE AddEdge(g, acc.kid, n)
<1> DEFINE new == AtPublication(acc, n)
<1>1. new = [acc EXCEPT !.graph = h, !.pid = n, !.kid = NoNode]
  BY DEF AtPublication
<1> HIDE DEF new
<1>2. /\ g \in Graphs(N) /\ NodesOf(g) = With(NodesOf(acc.graph), n)
      /\ Ends(g) = Ends(acc.graph)
  BY WebFields, NodeAdded
<1> HIDE DEF g
<1>3. /\ h \in Graphs(N) /\ NodesOf(h) = With(NodesOf(acc.graph), n)
      /\ Ends(h) = IF acc.kid = NoNode THEN Ends(acc.graph)
                   ELSE Joined(Ends(acc.graph), acc.kid, n)
  <2>1. CASE acc.kid = NoNode
    BY <1>2, <2>1
  <2>2. CASE acc.kid # NoNode
    <3>1. acc.kid \in N
      BY WebFields
    <3>2. /\ AddEdge(g, acc.kid, n) \in Graphs(N)
          /\ NodesOf(AddEdge(g, acc.kid, n)) = NodesOf(g)
          /\ Ends(AddEdge(g, acc.kid, n)) = Joined(Ends(g), acc.kid, n)
      <4>1. g \in Graphs(N)
        BY <1>2
      <4> QED
        BY <3>1, <4>1, EdgeAdded
    <3> QED
      BY <1>2, <2>2, <3>2
  <2> QED
    BY <2>1, <2>2
<1> HIDE DEF h
<1>4. new = [graph |-> h, topics |-> acc.topics, pid |-> n, kid |-> NoNode]
  BY <1>1, WebFields DEF Webs
<1>5. new \in Webs(N)
  BY <1>3, <1>4, WebFields, WebMade
<1>6. new.graph = h /\ new.topics = acc.topics /\ new.pid = n /\ new.kid = NoNode
  BY <1>4
<1> QED
  BY <1>3, <1>5, <1>6 DEF new

\* Every keyword that has been met has a node.
Drawn(N) == {w \in Webs(N) : w.topics \subseteq NodesOf(w.graph)}

LEMMA AlongDraws ==
    ASSUME NEW N, NEW acc \in Drawn(N), NEW center \in N, NEW n \in N, NoNode \in N
    PROVE  Along(center, acc, n) \in Drawn(N)
<1>1. acc \in Webs(N) /\ acc.topics \subseteq NodesOf(acc.graph)
  BY DEF Drawn
<1>2. CASE n \in Topic
  <2> DEFINE new == AtTopic(acc, n)
  <2>1. /\ new \in Webs(N) /\ NodesOf(new.graph) = With(NodesOf(acc.graph), n)
        /\ new.topics = acc.topics \union {n}
    BY <1>1, TopicIs
  <2>2. Along(center, acc, n) = new
    BY <1>2 DEF Along
  <2> QED
    BY <1>1, <2>1, <2>2 DEF Drawn, With
<1>3. CASE n \notin Topic /\ n = center
  <2> DEFINE new == AtCenter(acc, center)
  <2>1. /\ new \in Webs(N) /\ NodesOf(new.graph) = NodesOf(acc.graph)
        /\ new.topics = acc.topics
    BY <1>1, CenterIs
  <2>2. Along(center, acc, n) = new
    BY <1>3 DEF Along
  <2> QED
    BY <1>1, <2>1, <2>2 DEF Drawn, With
<1>4. CASE n \notin Topic /\ n # center
  <2> DEFINE new == AtPublication(acc, n)
  <2>1. /\ new \in Webs(N) /\ NodesOf(new.graph) = With(NodesOf(acc.graph), n)
        /\ new.topics = acc.topics
    <3>1. new \in Webs(N)
      BY <1>1, PublicationIs
    <3>2. NodesOf(new.graph) = With(NodesOf(acc.graph), n)
      BY <1>1, PublicationIs
    <3>3. new.topics = acc.topics
      BY <1>1, PublicationIs
    <3> QED
      BY <3>1, <3>2, <3>3
  <2>2. Along(center, acc, n) = new
    BY <1>4 DEF Along
  <2> QED
    BY <1>1, <2>1, <2>2 DEF Drawn, With
<1> QED
  BY <1>2, <1>3, <1>4

\* The turns of the inner loop.
LEMMA WalkTurns ==
    ASSUME NEW center, NEW path, path \in Seq(ToSet(path)), NEW N, NoNode \in N,
           center \in N, \A k \in DOMAIN path : path[k] \in N, NEW acc \in Drawn(N)
    PROVE  LET f == Walk(center, acc, path)
               n == Len(path) IN
           /\ f[0] = acc
           /\ \A k \in 1..n : f[k] = Along(center, f[k - 1], path[k])
           /\ \A k \in 0..n : f[k] \in Drawn(N)
<1> DEFINE n == Len(path)
<1> DEFINE S == Drawn(N)
<1> DEFINE step == [k \in 1..n |-> [a \in S |-> Along(center, a, path[k])]]
<1> DEFINE Body(g) == [k \in 0..n |-> IF k = 0 THEN acc ELSE Along(center, g[k - 1], path[k])]
<1> DEFINE f == Walk(center, acc, path)
<1>1. n \in Nat /\ DOMAIN path = 1..n
  OBVIOUS
<1>3. ASSUME NEW k \in 1..n, NEW a \in S
      PROVE  step[k][a] = Along(center, a, path[k]) /\ Along(center, a, path[k]) \in S
  <2>1. Along(center, a, path[k]) \in S
    BY <1>1, AlongDraws
  <2> QED
    BY <2>1
<1>4. step \in [1..n -> [S -> S]]
  <2>1. ASSUME NEW k \in 1..n PROVE [a \in S |-> Along(center, a, path[k])] \in [S -> S]
    BY <1>3
  <2> HIDE DEF S
  <2> QED
    BY <2>1
<1>5. f = CHOOSE g : g = Body(g)
  BY DEF Walk
<1>5a. acc \in S
  OBVIOUS
<1> HIDE DEF n, S, step, f
<1>5b. \E g : IsLoop(g, n, S, acc, step)
  BY <1>1, <1>4, <1>5a, LoopExists
<1>6. PICK g : /\ g \in [0..n -> S]
               /\ g[0] = acc /\ \A k \in 1..n : g[k] = step[k][g[k - 1]]
  BY <1>5b DEF IsLoop
<1>7. g = Body(g)
  <2>1. ASSUME NEW k \in 1..n PROVE g[k] = Along(center, g[k - 1], path[k])
    <3>1. k - 1 \in 0..n
      BY <1>1
    <3>2. g[k - 1] \in S
      BY <1>6, <3>1
    <3> QED
      BY <1>3, <1>6, <3>2
  <2>2. \A k \in 0..n : k = 0 \/ k \in 1..n
    BY <1>1
  <2>3. \A k \in 0..n : g[k] = Body(g)[k]
    BY <1>6, <2>1, <2>2
  <2> QED
    BY <1>6, <2>3
<1>8. f = Body(f)
  <2> HIDE DEF Body
  <2> QED
    BY <1>5, <1>7
<1>9. f[0] = acc /\ \A k \in 1..n : f[k] = Along(center, f[k - 1], path[k])
  <2>1. \A k \in 0..n : f[k] = Body(f)[k]
    BY <1>8
  <2>2. 0 \in 0..n /\ \A k \in 1..n : k \in 0..n /\ k # 0
    BY <1>1
  <2> QED
    BY <2>1, <2>2
<1>10. \A k \in 0..n : f[k] \in S
  <2> DEFINE T == {k \in 0..n : f[k] \in S}
  <2>1. 0 \in T
    BY <1>1, <1>5a, <1>9
  <2>2. ASSUME NEW k \in 1..n, k - 1 \in T PROVE k \in T
    <3>1. f[k - 1] \in S
      BY <2>2
    <3>2. Along(center, f[k - 1], path[k]) \in S
      BY <1>3, <3>1
    <3>3. f[k] \in S /\ k \in 0..n
      BY <1>1, <1>9, <3>2
    <3> QED
      BY <3>3
  <2> HIDE DEF T
  <2>3. \A k \in 0..n : k \in T
    BY <1>1, <2>1, <2>2, Climb
  <2> QED
    BY <2>3 DEF T
<1> QED
  BY <1>9, <1>10 DEF S, f, n

\* Between two paths the keyword is forgotten.
Between(center, acc) == acc.kid = NoNode /\ center \in NodesOf(acc.graph)

\* The first j nodes of a path: the pairs of neighbours among them, those that
\* do not begin at the center, and the nodes that come after the center.
Joins(path, j) == {{path[k], path[k + 1]} : k \in 1..(j - 1)}
SureJoins(center, path, j) ==
    {{path[k], path[k + 1]} : k \in {i \in 1..(j - 1) : path[i] # center}}
After(center, path, j) ==
    {path[k + 1] : k \in {i \in 1..(j - 1) : path[i] = center}}

\* What is drawn after j nodes of a path, on top of old, if pid is in P.
Lined(center, P, old, path, j, E) ==
    /\ Ends(old.graph) \subseteq E
    /\ SureJoins(center, path, j) \subseteq E
    /\ E \subseteq Ends(old.graph) \union Joins(path, j) \union Lines(P, After(center, path, j))

\* pid is a publication once one was passed, and then no line begins nowhere.
Anchored(center, old, path, j, acc) ==
    NoNode \notin UNION Ends(old.graph) /\ (path[1] # center \/ old.pid # NoNode) =>
        /\ NoNode \notin UNION Ends(acc.graph)
        /\ j > 0 \/ old.pid # NoNode => acc.pid # NoNode

OnPath(center, P, old, path, j, acc) ==
    /\ acc.kid = IF j % 2 = 0 /\ j > 0 THEN path[j] ELSE NoNode
    /\ j % 2 = 1 => path[j] = center \/ acc.pid = path[j]
    /\ acc.pid \in P
    /\ NodesOf(acc.graph) = NodesOf(old.graph) \union {path[k] : k \in 1..j}
    /\ Lined(center, P, old, path, j, Ends(acc.graph))
    /\ Anchored(center, old, path, j, acc)

LEMMA Parity ==
    \A j \in Nat : /\ j % 2 \in {0, 1}
                   /\ j > 0 /\ j % 2 = 0 => j > 1 /\ (j - 1) % 2 = 1
                   /\ j > 0 /\ j % 2 = 1 => (j - 1) % 2 = 0
OBVIOUS

LEMMA JoinsStep ==
    ASSUME NEW path, NEW j \in Nat, j > 1
    PROVE  Joins(path, j) = Joined(Joins(path, j - 1), path[j - 1], path[j])
<1> DEFINE P(k) == {path[k], path[k + 1]}
<1>1. 1..(j - 1) = (1..(j - 1 - 1)) \union {j - 1} /\ (j - 1) + 1 = j
  OBVIOUS
<1>2. Joins(path, j) = {P(k) : k \in (1..(j - 1 - 1)) \union {j - 1}}
  BY <1>1 DEF Joins
<1>3. Joins(path, j - 1) = {P(k) : k \in 1..(j - 1 - 1)}
  BY DEF Joins
<1>4. P(j - 1) = {path[j - 1], path[j]}
  BY <1>1
<1> HIDE DEF P
<1>5. Joins(path, j) = Joins(path, j - 1) \union {P(j - 1)}
  BY <1>2, <1>3
<1> QED
  BY <1>4, <1>5 DEF Joined

LEMMA SureStep ==
    ASSUME NEW center, NEW path, NEW j \in Nat, j > 1
    PROVE  SureJoins(center, path, j) =
              IF path[j - 1] = center THEN SureJoins(center, path, j - 1)
              ELSE Joined(SureJoins(center, path, j - 1), path[j - 1], path[j])
<1> DEFINE P(k) == {path[k], path[k + 1]}
<1> DEFINE I(m) == {i \in 1..m : path[i] # center}
<1>1. 1..(j - 1) = (1..(j - 1 - 1)) \union {j - 1} /\ (j - 1) + 1 = j
  OBVIOUS
<1>2. I(j - 1) = IF path[j - 1] = center THEN I(j - 1 - 1) ELSE I(j - 1 - 1) \union {j - 1}
  BY <1>1
<1>3. P(j - 1) = {path[j - 1], path[j]}
  BY <1>1
<1>4. /\ SureJoins(center, path, j) = {P(k) : k \in I(j - 1)}
      /\ SureJoins(center, path, j - 1) = {P(k) : k \in I(j - 1 - 1)}
  BY DEF SureJoins
<1> HIDE DEF P, I
<1> QED
  BY <1>2, <1>3, <1>4 DEF Joined

LEMMA AfterStep ==
    ASSUME NEW center, NEW path, NEW j \in Nat, j > 1
    PROVE  After(center, path, j) =
              IF path[j - 1] = center THEN After(center, path, j - 1) \union {path[j]}
              ELSE After(center, path, j - 1)
<1> DEFINE I(m) == {i \in 1..m : path[i] = center}
<1>1. 1..(j - 1) = (1..(j - 1 - 1)) \union {j - 1} /\ (j - 1) + 1 = j
  OBVIOUS
<1>2. I(j - 1) = IF path[j - 1] = center THEN I(j - 1 - 1) \union {j - 1} ELSE I(j - 1 - 1)
  BY <1>1
<1>3. /\ After(center, path, j) = {path[k + 1] : k \in I(j - 1)}
      /\ After(center, path, j - 1) = {path[k + 1] : k \in I(j - 1 - 1)}
  BY DEF After
<1> HIDE DEF I
<1> QED
  BY <1>1, <1>2, <1>3

\* A line from the node before, or from one of P if that is the center.
LEMMA LinedOn ==
    ASSUME NEW center, NEW P, NEW old, NEW path, NEW j \in Nat, j > 1, NEW E, NEW p,
           p \in P \/ path[j - 1] # center,
           path[j - 1] = center \/ p = path[j - 1],
           Lined(center, P, old, path, j - 1, E)
    PROVE  Lined(center, P, old, path, j, Joined(E, p, path[j]))
<1> DEFINE F == Joined(E, p, path[j])
<1>1. E \subseteq F /\ {p, path[j]} \in F
  BY DEF Joined
<1>2. Joins(path, j) = Joined(Joins(path, j - 1), path[j - 1], path[j])
  BY JoinsStep
<1>3. CASE path[j - 1] = center
  <2>1. /\ SureJoins(center, path, j) = SureJoins(center, path, j - 1)
        /\ After(center, path, j) = After(center, path, j - 1) \union {path[j]}
    BY <1>3, SureStep, AfterStep
  <2>2. {p, path[j]} \in Lines(P, After(center, path, j))
    BY <1>3, <2>1 DEF Lines
  <2>3. Lines(P, After(center, path, j - 1)) \subseteq Lines(P, After(center, path, j))
    BY <2>1 DEF Lines
  <2> QED
    BY <1>1, <1>2, <2>1, <2>2, <2>3 DEF Lined, Joined
<1>4. CASE path[j - 1] # center
  <2>1. /\ SureJoins(center, path, j) = Joined(SureJoins(center, path, j - 1), path[j - 1], path[j])
        /\ After(center, path, j) = After(center, path, j - 1)
    BY <1>4, SureStep, AfterStep
  <2>2. p = path[j - 1]
    BY <1>4
  <2> QED
    BY <1>1, <1>2, <2>1, <2>2 DEF Lined, Joined
<1> QED
  BY <1>3, <1>4

LEMMA LinedFirst ==
    ASSUME NEW center, NEW P, NEW old, NEW path, NEW j \in {0, 1}
    PROVE  /\ Joins(path, j) = {} /\ SureJoins(center, path, j) = {} /\ After(center, path, j) = {}
           /\ \A E : Lined(center, P, old, path, j, E) <=> E = Ends(old.graph)
<1>1. 1..(j - 1) = {}
  OBVIOUS
<1>2. Joins(path, j) = {} /\ SureJoins(center, path, j) = {} /\ After(center, path, j) = {}
  BY <1>1 DEF Joins, SureJoins, After
<1>3. Lines(P, {}) = {}
  BY DEF Lines
<1> QED
  BY <1>2, <1>3 DEF Lined

LEMMA StepOn ==
    ASSUME NEW N, NEW center \in N, NoNode \in N, center \notin Topic, center # NoNode,
           NEW path, NEW n \in Nat,
           \A k \in 1..n : path[k] \in N /\ path[k] # NoNode,
           \A k \in 1..n : path[k] \in Topic <=> k % 2 = 0,
           NEW P, \A k \in 1..n : path[k] \in Topic \union {center} \union P,
           NEW old, center \in NodesOf(old.graph),
           NEW j \in 1..n, NEW acc \in Drawn(N), OnPath(center, P, old, path, j - 1, acc)
    PROVE  OnPath(center, P, old, path, j, Along(center, acc, path[j]))
<1> DEFINE new == Along(center, acc, path[j])
<1> DEFINE here == path[j]
<1> DEFINE last == path[j - 1]
<1> DEFINE E == Ends(acc.graph)
<1> DEFINE Far == NoNode \notin UNION Ends(old.graph) /\ (path[1] # center \/ old.pid # NoNode)
<1>1. j \in Nat /\ j > 0 /\ j - 1 \in Nat /\ 1..j = (1..(j - 1)) \union {j}
  OBVIOUS
<1>2. here \in N /\ here # NoNode
  OBVIOUS
<1>3. here \in Topic <=> j % 2 = 0
  OBVIOUS
<1>4. here \in Topic \union {center} \union P
  OBVIOUS
<1>5. j > 1 => last # NoNode /\ (last \in Topic <=> (j - 1) % 2 = 0)
  <2>1. j > 1 => j - 1 \in 1..n
    OBVIOUS
  <2> QED
    BY <2>1
<1>6. /\ acc.kid = IF (j - 1) % 2 = 0 /\ j - 1 > 0 THEN last ELSE NoNode
      /\ (j - 1) % 2 = 1 => last = center \/ acc.pid = last
      /\ acc.pid \in P
      /\ NodesOf(acc.graph) = NodesOf(old.graph) \union {path[k] : k \in 1..(j - 1)}
      /\ Lined(center, P, old, path, j - 1, E)
  BY DEF OnPath
<1>7. Far => NoNode \notin UNION E /\ (j > 1 \/ old.pid # NoNode => acc.pid # NoNode)
  BY <1>1 DEF OnPath, Anchored
<1>8. acc \in Webs(N) /\ acc.topics \subseteq NodesOf(acc.graph)
  BY DEF Drawn
<1>9. j = 1 => path[1] = here /\ E = Ends(old.graph) /\ Lined(center, P, old, path, j, E)
  <2>1. j = 1 => j - 1 \in {0, 1} /\ j \in {0, 1}
    OBVIOUS
  <2>2. j = 1 => E = Ends(old.graph)
    BY <1>6, <2>1, LinedFirst
  <2> QED
    BY <2>1, <2>2, LinedFirst
<1>10. ASSUME NEW p, j > 1, p = acc.pid \/ last # center, last = center \/ p = last
       PROVE  Lined(center, P, old, path, j, Joined(E, p, here))
  BY <1>1, <1>6, <1>10, LinedOn
<1>11. center \in NodesOf(acc.graph)
  BY <1>6
<1>12. {path[k] : k \in 1..j} = {path[k] : k \in 1..(j - 1)} \union {here}
  BY <1>1
<1>13. path[1] # center /\ j = 1 => here # center
  OBVIOUS
<1> HIDE DEF new, here, last, E, Far
<1>14. SUFFICES /\ new.kid = IF j % 2 = 0 THEN here ELSE NoNode
                /\ j % 2 = 1 => here = center \/ new.pid = here
                /\ new.pid \in P
                /\ NodesOf(new.graph) = With(NodesOf(acc.graph), here)
                /\ Lined(center, P, old, path, j, Ends(new.graph))
                /\ Far => NoNode \notin UNION Ends(new.graph) /\ new.pid # NoNode
  <2>1. NodesOf(new.graph) = NodesOf(old.graph) \union {path[k] : k \in 1..j}
    BY <1>6, <1>12, <1>14 DEF With
  <2>2. Anchored(center, old, path, j, new)
    BY <1>14 DEF Anchored, Far
  <2> QED
    BY <1>1, <1>14, <2>1, <2>2 DEF OnPath, new, here
<1>15. CASE j % 2 = 0
  <2>1. (j - 1) % 2 = 1 /\ j > 1
    BY <1>1, <1>15, Parity
  <2>2. new = AtTopic(acc, here)
    BY <1>3, <1>15 DEF Along, new, here
  <2>3. /\ NodesOf(new.graph) = With(NodesOf(acc.graph), here)
        /\ Ends(new.graph) = Joined(E, acc.pid, here)
        /\ new.kid = here /\ new.pid = acc.pid
    BY <1>2, <1>8, <2>2, TopicIs DEF E
  <2>4. last = center \/ acc.pid = last
    BY <1>6, <2>1
  <2>5. Lined(center, P, old, path, j, Ends(new.graph))
    BY <1>10, <2>1, <2>3, <2>4
  <2>6. Far => NoNode \notin UNION Ends(new.graph) /\ new.pid # NoNode
    BY <1>2, <1>7, <2>1, <2>3 DEF Joined
  <2> QED
    BY <1>6, <1>15, <2>3, <2>5, <2>6
<1>16. CASE j % 2 = 1 /\ here = center
  <2>1. (j - 1) % 2 = 0 /\ ~(j % 2 = 0)
    BY <1>1, <1>16, Parity
  <2>2. new = AtCenter(acc, center)
    BY <1>3, <1>16 DEF Along, new, here
  <2>3. /\ NodesOf(new.graph) = NodesOf(acc.graph)
        /\ Ends(new.graph) = IF acc.kid = NoNode THEN E ELSE Joined(E, center, acc.kid)
        /\ new.kid = NoNode /\ new.pid = acc.pid
    BY <1>8, <2>2, CenterIs DEF E
  <2>4. NodesOf(new.graph) = With(NodesOf(acc.graph), here)
    BY <1>11, <1>16, <2>3 DEF With
  <2>5. CASE j = 1
    <3>1. Ends(new.graph) = E
      BY <1>6, <2>3, <2>5
    <3>2. Far => old.pid # NoNode
      BY <1>13, <1>16, <2>5 DEF Far
    <3> QED
      BY <1>6, <1>7, <1>9, <1>16, <2>1, <2>3, <2>4, <2>5, <3>1, <3>2
  <2>6. CASE j > 1
    <3>1. acc.kid = last /\ last # NoNode /\ last # center
      BY <1>5, <1>6, <2>1, <2>6
    <3>2. Ends(new.graph) = Joined(E, last, here)
      BY <1>16, <2>3, <3>1 DEF Joined
    <3>3. Lined(center, P, old, path, j, Ends(new.graph))
      BY <1>10, <2>6, <3>1, <3>2
    <3>4. Far => NoNode \notin UNION Ends(new.graph) /\ new.pid # NoNode
      BY <1>2, <1>7, <2>3, <2>6, <3>1, <3>2 DEF Joined
    <3> QED
      BY <1>6, <1>16, <2>1, <2>3, <2>4, <3>3, <3>4
  <2> QED
    BY <1>1, <2>5, <2>6
<1>17. CASE j % 2 = 1 /\ here # center
  <2>1. (j - 1) % 2 = 0 /\ ~(j % 2 = 0)
    BY <1>1, <1>17, Parity
  <2>2. new = AtPublication(acc, here) /\ here \in P
    BY <1>3, <1>4, <1>17, <2>1 DEF Along, new, here
  <2>3. /\ NodesOf(new.graph) = With(NodesOf(acc.graph), here)
        /\ Ends(new.graph) = IF acc.kid = NoNode THEN E ELSE Joined(E, acc.kid, here)
        /\ new.kid = NoNode /\ new.pid = here
    BY <1>2, <1>8, <2>2, PublicationIs DEF E
  <2>4. CASE j = 1
    <3>1. Ends(new.graph) = E
      BY <1>6, <2>3, <2>4
    <3> QED
      BY <1>2, <1>7, <1>9, <1>17, <2>1, <2>2, <2>3, <2>4, <3>1
  <2>5. CASE j > 1
    <3>1. acc.kid = last /\ last # NoNode /\ last # center
      BY <1>5, <1>6, <2>1, <2>5
    <3>2. Ends(new.graph) = Joined(E, last, here)
      BY <2>3, <3>1
    <3>3. Lined(center, P, old, path, j, Ends(new.graph))
      BY <1>10, <2>5, <3>1, <3>2
    <3>4. Far => NoNode \notin UNION Ends(new.graph) /\ new.pid # NoNode
      BY <1>2, <1>7, <2>3, <3>1, <3>2 DEF Joined
    <3> QED
      BY <1>17, <2>1, <2>2, <2>3, <3>3, <3>4
  <2> QED
    BY <1>1, <2>4, <2>5
<1> QED
  BY <1>1, <1>15, <1>16, <1>17, Parity

\* What a path does to what was drawn before it.
Adds(center, P, path, old, new) ==
    /\ new.pid \in P
    /\ NodesOf(new.graph) = NodesOf(old.graph) \union ToSet(path)
    /\ Ends(old.graph) \subseteq Ends(new.graph)
    /\ SureSteps(center, path) \subseteq Ends(new.graph)
    /\ Ends(new.graph) \subseteq Ends(old.graph) \union Steps(path)
                                  \union Lines(P, AfterCenter(center, path))
    /\ NoNode \notin UNION Ends(old.graph) /\ (path[1] # center \/ old.pid # NoNode) =>
           NoNode \notin UNION Ends(new.graph) /\ new.pid # NoNode

LEMMA WalkIs ==
    ASSUME NEW N, NEW center \in N, NoNode \in N, center \notin Topic, center # NoNode,
           NEW path, IsPath(path), \A k \in DOMAIN path : path[k] \in N,
           NEW P, ToSet(path) \subseteq Topic \union {center} \union P,
           NEW acc \in Drawn(N), Between(center, acc), acc.pid \in P
    PROVE  LET new == Walk(center, acc, path)[Len(path)] IN
           new \in Drawn(N) /\ Between(center, new) /\ Adds(center, P, path, acc, new)
<1> DEFINE n == Len(path)
<1> DEFINE f == Walk(center, acc, path)
<1>1. n \in Nat /\ n % 2 = 1 /\ DOMAIN path = 1..n
  BY DEF IsPath
<1>2. \A k \in 1..n : path[k] \in N /\ path[k] # NoNode
  BY <1>1 DEF IsPath, ToSet
<1>3. \A k \in 1..n : path[k] \in Topic <=> k % 2 = 0
  BY <1>1 DEF IsPath
<1>4. \A k \in 1..n : path[k] \in Topic \union {center} \union P
  BY <1>1 DEF ToSet
<1>5. /\ f[0] = acc
      /\ \A k \in 1..n : f[k] = Along(center, f[k - 1], path[k])
      /\ \A k \in 0..n : f[k] \in Drawn(N)
  <2>1. path \in Seq(ToSet(path))
    BY DEF IsPath
  <2> QED
    BY <2>1, WalkTurns
<1>6. acc.kid = NoNode /\ center \in NodesOf(acc.graph)
  BY DEF Between
<1>7. /\ Steps(path) = Joins(path, n) /\ SureSteps(center, path) = SureJoins(center, path, n)
      /\ AfterCenter(center, path) = After(center, path, n)
  BY DEF Steps, Joins, SureSteps, SureJoins, AfterCenter, After
<1>8. ToSet(path) = {path[k] : k \in 1..n}
  BY <1>1 DEF ToSet
<1>9. Walk(center, acc, path)[Len(path)] = f[n]
  OBVIOUS
<1> HIDE DEF n, f
<1> DEFINE T == {j \in 0..n : OnPath(center, P, acc, path, j, f[j])}
<1>10. 0 \in T
  <2>1. 0 \in 0..n /\ ~(0 > 0) /\ 0 % 2 = 0 /\ {path[k] : k \in 1..0} = {}
    BY <1>1
  <2>2. Lined(center, P, acc, path, 0, Ends(acc.graph))
    BY LinedFirst
  <2>3. Anchored(center, acc, path, 0, acc)
    BY <2>1 DEF Anchored
  <2>4. OnPath(center, P, acc, path, 0, acc)
    BY <1>6, <2>1, <2>2, <2>3 DEF OnPath
  <2> QED
    BY <1>5, <2>1, <2>4
<1>11. ASSUME NEW j \in 1..n, j - 1 \in T PROVE j \in T
  <2>1. j - 1 \in 0..n /\ j \in 0..n
    BY <1>1
  <2>2. OnPath(center, P, acc, path, j - 1, f[j - 1]) /\ f[j - 1] \in Drawn(N)
    BY <1>5, <1>11, <2>1
  <2>3. OnPath(center, P, acc, path, j, Along(center, f[j - 1], path[j]))
    BY <1>1, <1>2, <1>3, <1>4, <1>6, <2>2, StepOn
  <2> QED
    BY <1>5, <2>1, <2>3
<1>12. OnPath(center, P, acc, path, n, f[n])
  <2> HIDE DEF T
  <2>1. \A j \in 0..n : j \in T
    BY <1>1, <1>10, <1>11, Climb
  <2>2. n \in 0..n
    BY <1>1
  <2> QED
    BY <2>1, <2>2 DEF T
<1> DEFINE new == f[n]
<1>13. new \in Drawn(N)
  BY <1>1, <1>5
<1> HIDE DEF new
<1>14. /\ new.kid = NoNode /\ new.pid \in P
       /\ NodesOf(new.graph) = NodesOf(acc.graph) \union ToSet(path)
       /\ Lined(center, P, acc, path, n, Ends(new.graph)) /\ Anchored(center, acc, path, n, new)
  BY <1>1, <1>8, <1>12 DEF OnPath, new
<1>15. n > 0
  BY <1>1
<1>16. Adds(center, P, path, acc, new)
  BY <1>7, <1>14, <1>15 DEF Adds, Lined, Anchored
<1> QED
  BY <1>6, <1>9, <1>13, <1>14, <1>16 DEF Between, new

\* The turns of the outer loop, and what the paths joined up to then.
LEMMA WalksTurns ==
    ASSUME NEW center, NEW paths, IsPaths(center, paths), NEW N, NoNode \in N, center \in N,
           \A k \in DOMAIN paths : \A i \in DOMAIN paths[k] : paths[k][i] \in N
    PROVE  LET f == Walks(center, paths)
               n == Len(paths) IN
           /\ f[0] = Start(center)
           /\ \A k \in 1..n : f[k] = Walk(center, f[k - 1], paths[k])[Len(paths[k])]
           /\ \A k \in 0..n : f[k] \in Drawn(N) /\ Between(center, f[k])
<1> DEFINE n == Len(paths)
<1> DEFINE S == {w \in Drawn(N) : Between(center, w)}
<1> DEFINE base == Start(center)
<1> DEFINE Turn(a, k) == Walk(center, a, paths[k])[Len(paths[k])]
<1> DEFINE step == [k \in 1..n |-> [a \in S |-> Turn(a, k)]]
<1> DEFINE Body(g) == [k \in 0..n |-> IF k = 0 THEN base ELSE Turn(g[k - 1], k)]
<1> DEFINE f == Walks(center, paths)
<1>1. n \in Nat /\ DOMAIN paths = 1..n
  BY DEF IsPaths
<1>2. base \in S
  <2>1. base = [graph |-> Alone(center), topics |-> {}, pid |-> NoNode, kid |-> NoNode]
    BY DEF Start
  <2>2. Alone(center) \in Graphs(N) /\ NodesOf(Alone(center)) = {center} /\ Ends(Alone(center)) = {}
    BY AloneIs
  <2>3. base \in Webs(N)
    BY <2>1, <2>2, WebMade
  <2>4. base.graph = Alone(center) /\ base.topics = {} /\ base.kid = NoNode
    BY <2>1
  <2> HIDE DEF base
  <2>5. base \in Drawn(N)
    BY <2>3, <2>4 DEF Drawn
  <2>6. Between(center, base)
    BY <2>2, <2>4 DEF Between
  <2> QED
    BY <2>5, <2>6
<1>3. ASSUME NEW k \in 1..n, NEW a \in S
      PROVE  step[k][a] = Turn(a, k) /\ Turn(a, k) \in S
  <2> DEFINE path == paths[k]
  <2>1. IsPath(path) /\ \A i \in DOMAIN path : path[i] \in N
    BY <1>1 DEF IsPaths
  <2>2. a \in Drawn(N) /\ Between(center, a) /\ a.pid \in N
    BY DEF Drawn, Webs
  <2>3. center \notin Topic /\ center # NoNode
    BY DEF IsPaths
  <2>4. ToSet(path) \subseteq Topic \union {center} \union N
    BY <2>1 DEF ToSet
  <2>5. Turn(a, k) = Walk(center, a, path)[Len(path)]
    OBVIOUS
  <2> HIDE DEF path, Turn
  <2>6. Turn(a, k) \in Drawn(N) /\ Between(center, Turn(a, k))
    BY <2>1, <2>2, <2>3, <2>4, <2>5, WalkIs
  <2> QED
    BY <2>6
<1> HIDE DEF Turn
<1>4. step \in [1..n -> [S -> S]]
  <2>1. ASSUME NEW k \in 1..n PROVE [a \in S |-> Turn(a, k)] \in [S -> S]
    BY <1>3
  <2> HIDE DEF S
  <2> QED
    BY <2>1
<1>5. f = CHOOSE g : g = Body(g)
  BY DEF Walks, Turn
<1> HIDE DEF n, S, step, base, f
<1>5b. \E g : IsLoop(g, n, S, base, step)
  BY <1>1, <1>2, <1>4, LoopExists
<1>6. PICK g : /\ g \in [0..n -> S]
               /\ g[0] = base /\ \A k \in 1..n : g[k] = step[k][g[k - 1]]
  BY <1>5b DEF IsLoop
<1>7. g = Body(g)
  <2>1. ASSUME NEW k \in 1..n PROVE g[k] = Turn(g[k - 1], k)
    <3>1. k - 1 \in 0..n
      BY <1>1
    <3>2. g[k - 1] \in S
      BY <1>6, <3>1
    <3> QED
      BY <1>3, <1>6, <3>2
  <2>2. \A k \in 0..n : k = 0 \/ k \in 1..n
    BY <1>1
  <2>3. \A k \in 0..n : g[k] = Body(g)[k]
    BY <1>6, <2>1, <2>2
  <2> QED
    BY <1>6, <2>3
<1>8. f = Body(f)
  <2> HIDE DEF Body
  <2> QED
    BY <1>5, <1>7
<1>9. f[0] = base /\ \A k \in 1..n : f[k] = Turn(f[k - 1], k)
  <2>1. \A k \in 0..n : f[k] = Body(f)[k]
    BY <1>8
  <2>2. 0 \in 0..n /\ \A k \in 1..n : k \in 0..n /\ k # 0
    BY <1>1
  <2> QED
    BY <2>1, <2>2
<1>10. \A k \in 0..n : f[k] \in S
  <2> DEFINE T == {k \in 0..n : f[k] \in S}
  <2>1. 0 \in T
    BY <1>1, <1>2, <1>9
  <2>2. ASSUME NEW k \in 1..n, k - 1 \in T PROVE k \in T
    <3>1. f[k - 1] \in S
      BY <2>2
    <3>2. Turn(f[k - 1], k) \in S
      BY <1>3, <3>1
    <3>3. f[k] \in S /\ k \in 0..n
      BY <1>1, <1>9, <3>2
    <3> QED
      BY <3>3
  <2> HIDE DEF T
  <2>3. \A k \in 0..n : k \in T
    BY <1>1, <2>1, <2>2, Climb
  <2> QED
    BY <2>3 DEF T
<1> QED
  BY <1>9, <1>10 DEF S, f, n, base, Turn

LEMMA WebIsTrue ==
    ASSUME NEW center, NEW paths, IsPaths(center, paths)
    PROVE  WebTrue(Web(center, paths), center, paths)
<1> DEFINE n == Len(paths)
<1> DEFINE N == {center, NoNode} \union UNION {ToSet(paths[k]) : k \in 1..n}
<1> DEFINE f == Walks(center, paths)
<1> DEFINE P(k) == Passed(center, paths, k)
<1> DEFINE Elsewhere == paths[1][1] # center
<1> DEFINE Nodes(k) == {center} \union UNION {ToSet(paths[i]) : i \in 1..k}
<1> DEFINE Sure(k, E) == \A i \in 1..k : SureSteps(center, paths[i]) \subseteq E
<1> DEFINE Only(k, E) == \A e \in E : \E i \in 1..k :
                            e \in Steps(paths[i]) \/ e \in Lines(P(i), AfterCenter(center, paths[i]))
<1> DEFINE Good(k) == /\ NodesOf(f[k].graph) = Nodes(k)
                      /\ Sure(k, Ends(f[k].graph))
                      /\ Only(k, Ends(f[k].graph))
                      /\ f[k].pid \in P(k)
                      /\ Elsewhere => /\ NoNode \notin UNION Ends(f[k].graph)
                                      /\ k > 0 => f[k].pid # NoNode
<1> DEFINE T == {k \in 0..n : Good(k)}
<1>1. n \in Nat /\ DOMAIN paths = 1..n
  BY DEF IsPaths
<1>2. center \in N /\ NoNode \in N
  OBVIOUS
<1>3. \A k \in DOMAIN paths : \A i \in DOMAIN paths[k] : paths[k][i] \in N
  BY <1>1 DEF ToSet
<1> HIDE DEF N
<1>4. /\ f[0] = Start(center)
      /\ \A k \in 1..n : f[k] = Walk(center, f[k - 1], paths[k])[Len(paths[k])]
      /\ \A k \in 0..n : f[k] \in Drawn(N) /\ Between(center, f[k])
  BY <1>2, <1>3, WalksTurns
<1>5. Web(center, paths) = f[n].graph
  BY DEF Web
<1>6. \A k \in 1..n : IsPath(paths[k])
  BY <1>1 DEF IsPaths
<1>7. center \notin Topic /\ center # NoNode
  BY DEF IsPaths
<1> HIDE DEF n, f
<1>8. 0 \in T
  <2>1. f[0].graph = Alone(center) /\ f[0].pid = NoNode
    BY <1>4 DEF Start
  <2>2. Ends(Alone(center)) = {} /\ NodesOf(Alone(center)) = {center}
    BY <1>2, AloneIs
  <2>3. 1..0 = {} /\ 0 \in 0..n /\ ~(0 > 0)
    BY <1>1
  <2>4. NoNode \in P(0)
    BY <1>7, NoNodeAssumption DEF Passed
  <2> QED
    BY <2>1, <2>2, <2>3, <2>4
<1>9. ASSUME NEW k \in 1..n, k - 1 \in T PROVE k \in T
  <2> DEFINE old == f[k - 1]
  <2> DEFINE path == paths[k]
  <2> DEFINE Q == P(k)
  <2> DEFINE E == Ends(f[k].graph)
  <2>1. /\ k - 1 \in 0..n /\ k \in 0..n /\ k \in Nat /\ k > 0 /\ k \in 1..k
        /\ 1..k = (1..(k - 1)) \union {k}
    BY <1>1
  <2>2. /\ old \in Drawn(N) /\ Between(center, old) /\ IsPath(path)
        /\ \A i \in DOMAIN path : path[i] \in N
    BY <1>1, <1>3, <1>4, <1>6, <2>1
  <2>3. Good(k - 1)
    BY <1>9
  <2>4. P(k - 1) \subseteq Q /\ ToSet(path) \subseteq Topic \union {center} \union Q
    BY <2>1 DEF Passed
  <2>5. old.pid \in Q
    BY <2>3, <2>4
  <2>6. f[k] = Walk(center, old, path)[Len(path)]
    BY <1>4
  <2> HIDE DEF old, path, Q, P
  <2>7. Adds(center, Q, path, old, f[k])
    BY <1>2, <1>7, <2>2, <2>4, <2>5, <2>6, WalkIs
  <2>8. Nodes(k) = Nodes(k - 1) \union ToSet(path)
    BY <2>1 DEF path
  <2>9. NodesOf(f[k].graph) = Nodes(k)
    BY <2>3, <2>7, <2>8 DEF Adds, old
  <2>10. Sure(k, E)
    <3>1. Sure(k - 1, Ends(old.graph)) /\ Ends(old.graph) \subseteq E
      BY <2>3, <2>7 DEF Adds, old
    <3>2. SureSteps(center, paths[k]) \subseteq E
      BY <2>7 DEF Adds, path
    <3> HIDE DEF E
    <3> QED
      BY <2>1, <3>1, <3>2
  <2>11. Only(k, E)
    <3> SUFFICES ASSUME NEW e \in E
                 PROVE  \E i \in 1..k : \/ e \in Steps(paths[i])
                                        \/ e \in Lines(P(i), AfterCenter(center, paths[i]))
      OBVIOUS
    <3>1. CASE e \in Ends(old.graph)
      <4>1. Only(k - 1, Ends(old.graph))
        BY <2>3 DEF old
      <4> QED
        BY <2>1, <3>1, <4>1
    <3>2. CASE e \in Steps(path) \/ e \in Lines(Q, AfterCenter(center, path))
      BY <2>1, <3>2 DEF path, Q
    <3>3. e \in Ends(old.graph) \union Steps(path) \union Lines(Q, AfterCenter(center, path))
      BY <2>7 DEF Adds
    <3> QED
      BY <3>1, <3>2, <3>3
  <2>12. f[k].pid \in P(k)
    BY <2>7 DEF Adds, Q
  <2>13. ASSUME Elsewhere
         PROVE  NoNode \notin UNION E /\ f[k].pid # NoNode
    <3>1. NoNode \notin UNION Ends(old.graph)
      BY <2>3, <2>13 DEF old
    <3>2. k = 1 => path[1] # center
      BY <2>13 DEF path
    <3>3. k # 1 => old.pid # NoNode
      BY <2>1, <2>3, <2>13 DEF old
    <3> QED
      BY <2>7, <3>1, <3>2, <3>3 DEF Adds
  <2> HIDE DEF Sure, Only, Nodes, Elsewhere
  <2> QED
    BY <2>1, <2>9, <2>10, <2>11, <2>12, <2>13
<1>10. Good(n)
  <2> HIDE DEF T
  <2>1. \A k \in 0..n : k \in T
    BY <1>1, <1>8, <1>9, Climb
  <2>2. n \in 0..n
    BY <1>1
  <2> QED
    BY <2>1, <2>2 DEF T
<1> DEFINE g == f[n].graph
<1>11. /\ NodesOf(g) = Nodes(n) /\ Sure(n, Ends(g)) /\ Only(n, Ends(g))
       /\ Elsewhere => NoNode \notin UNION Ends(g)
  BY <1>10
<1> HIDE DEF g
<1> QED
  BY <1>1, <1>5, <1>11 DEF WebTrue, g

\* The network of a profile joins what the rows of its query join, whatever
\* they are and in whatever order they come, although pid and kid are carried
\* from one row to the next (neo4j_utils.py:90-128).
THEOREM NetworksAreTrue == Spec => []NetworkTrue
<1> DEFINE True(x) == IF x.answer.kind = "publication"
                      THEN WebTrue(x.graph, x.answer.center, x.answer.rows)
                      ELSE StarTrue(x.graph, x.answer.center, x.answer.rows)
<1>1. ASSUME NEW a \in Answers, a.kind = "publication"
      PROVE  True([answer |-> a, graph |-> Web(a.center, a.rows)])
  BY <1>1, AnswerAssumption, WebIsTrue
<1>2. ASSUME NEW a \in Answers, a.kind # "publication"
      PROVE  True([answer |-> a, graph |-> Star(a.center, a.rows)])
  BY <1>2, AnswerAssumption, StarIsTrue
<1>3. NetworkTrue <=> \A v \in Visitor : net[v] # NoAnswer => True(net[v])
  BY DEF NetworkTrue
<1>4. NetworkTrue' <=> \A v \in Visitor : net'[v] # NoAnswer => True(net'[v])
  BY DEF NetworkTrue
<1> HIDE DEF True
<1>5. Init => NetworkTrue
  BY <1>3 DEF Init
<1>6. ASSUME TypeOK, NetworkTrue, [Next]_vars PROVE NetworkTrue'
  <2> SUFFICES ASSUME NEW v \in Visitor, net'[v] # NoAnswer PROVE True(net'[v])
    BY <1>4
  <2>1. DOMAIN net = Visitor /\ (net[v] # NoAnswer => True(net[v]))
    BY <1>3, <1>6 DEF TypeOK
  <2>2. ASSUME NEW w \in Visitor, OpenFaculty(w) \/ OpenAffiliation(w) PROVE True(net'[v])
    <3>1. PICK a \in Answers : /\ a.kind # "publication"
                               /\ \/ Profile(w, a, a.found /\ a.rows # <<>>,
                                             Star(a.center, a.rows))
                                  \/ Profile(w, a, a.found, Star(a.center, a.rows))
      BY <2>2 DEF OpenFaculty, OpenAffiliation
    <3> QED
      BY <1>2, <2>1, <3>1 DEF Profile
  <2>3. ASSUME NEW w \in Visitor, OpenPublication(w) PROVE True(net'[v])
    <3>1. PICK a \in Answers : /\ a.kind = "publication"
                               /\ Profile(w, a, a.found, Web(a.center, a.rows))
      BY <2>3 DEF OpenPublication
    <3> QED
      BY <1>1, <2>1, <3>1 DEF Profile
  <2>4. ASSUME NEW w \in Visitor, OpenHome(w) \/ \E k \in Keyword : Submit(w, k) \/ Follow(w, k)
        PROVE  True(net'[v])
    BY <2>1, <2>4 DEF OpenHome, Submit, Follow, Request
  <2>5. ASSUME NEW w \in Visitor, Refuse(w) \/ Reload(w) \/ Serve(w) PROVE net'[v] = net[v]
    BY <2>5 DEF Refuse, Reload, Serve, InsertSearch, InsertRaises, Widgets, Match, Detect,
       Create, Read
  <2>6. ASSUME NEW w \in Visitor, DatabaseFails(w) \/ SessionClashes(w) PROVE net'[v] = net[v]
    BY <2>6 DEF DatabaseFails, SessionClashes
  <2>7. CASE Tick \/ UNCHANGED vars
    BY <2>1, <2>7 DEF Tick, vars
  <2> QED
    BY <1>6, <2>1, <2>2, <2>3, <2>4, <2>5, <2>6, <2>7 DEF Next, Browse
<1> QED
  BY <1>5, <1>6, TypesHold, PTL DEF Spec
=============================================================================
