-------------------------- MODULE HttpClientProofs --------------------------
(***************************************************************************)
(* For any answers, any size of the buffer, and whatever lies in it at the *)
(* start and behind it: a text arrives whole and in its order, and exit    *)
(* status 0 after all of it means that the file is its body.               *)
(***************************************************************************)
EXTENDS HttpClient, WellFoundedInduction, TLAPS

-----------------------------------------------------------------------------
(***************************************************************************)
(* Sequences.                                                              *)
(***************************************************************************)
LEMMA Joined ==
    ASSUME NEW S, NEW p \in Seq(S), NEW q \in Seq(S)
    PROVE  /\ p \o q \in Seq(S) /\ Len(p \o q) = Len(p) + Len(q)
           /\ \A i \in 1..Len(p) : (p \o q)[i] = p[i]
           /\ \A i \in 1..Len(q) : (p \o q)[Len(p) + i] = q[i]
           /\ \A i \in 1..(Len(p) + Len(q)) : (p \o q)[i] = IF i =< Len(p) THEN p[i] ELSE q[i - Len(p)]
OBVIOUS

LEMMA Part ==
    ASSUME NEW S, NEW p \in Seq(S), NEW a \in Nat \ {0}, NEW b \in Nat, b =< Len(p), a =< b + 1
    PROVE  /\ SubSeq(p, a, b) \in Seq(S) /\ Len(SubSeq(p, a, b)) = b + 1 - a
           /\ \A i \in 1..(b + 1 - a) : SubSeq(p, a, b)[i] = p[a - 1 + i]
OBVIOUS

\* The first position of a kind.
LEMMA Least ==
    ASSUME NEW S \in SUBSET Nat, S # {}
    PROVE  Min(S) \in S /\ \A k \in S : Min(S) =< k
<1>1. PICK x \in S : \A y \in S : ~(<<y, x>> \in OpToRel(<, Nat))
  BY WFMin, NatLessThanWellFounded
<1>2. \A y \in S : x =< y
  <2>1. \A y \in S : ~(y < x)
    BY <1>1 DEF OpToRel
  <2> QED
    BY <2>1
<1>3. \E x1 \in S : \A y \in S : x1 =< y
  BY <1>2
<1> QED
  BY <1>3 DEF Min

-----------------------------------------------------------------------------
(***************************************************************************)
(* The answer, and what a receive puts where.                              *)
(***************************************************************************)
Full == response.head \o response.body

LEMMA FullIs ==
    ASSUME response \in Responses
    PROVE  /\ Full \in Seq(Symbol) /\ response.body \in Seq(Symbol)
           /\ Len(Full) = 2 + Len(response.body)
           /\ Full[1] \in {Ok, NotFound} /\ Full[2] \in {Length, End}
           /\ \A k \in 1..Len(response.body) : Full[2 + k] = response.body[k]
<1> DEFINE h == response.head
<1> DEFINE b == response.body
<1>1. /\ h \in {<<s, e>> : s \in {Ok, NotFound}, e \in {Length, End}}
      /\ b \in Seq(Byte \union {Text404, Nul})
  BY ResponsesAssumption
<1>2. h \in Seq(Symbol) /\ Len(h) = 2 /\ h[1] \in {Ok, NotFound} /\ h[2] \in {Length, End}
  <2>1. PICK s \in {Ok, NotFound}, e \in {Length, End} : h = <<s, e>>
    BY <1>1
  <2>2. s \in Symbol /\ e \in Symbol
    BY DEF Symbol
  <2> HIDE DEF h
  <2> QED
    BY <2>1, <2>2
<1>3. b \in Seq(Symbol)
  BY <1>1 DEF Symbol
<1>4. Full = h \o b
  BY DEF Full
<1> HIDE DEF h, b
<1>5. /\ Full \in Seq(Symbol) /\ Len(Full) = Len(h) + Len(b)
      /\ \A i \in 1..Len(h) : Full[i] = h[i]
      /\ \A i \in 1..Len(b) : Full[Len(h) + i] = b[i]
  <2>1. h \in Seq(Symbol) /\ b \in Seq(Symbol)
    BY <1>2, <1>3
  <2> QED
    BY <1>4, <2>1, Joined
<1>6. Full[1] = h[1] /\ Full[2] = h[2]
  BY <1>2, <1>5
<1>7. \A k \in 1..Len(b) : Full[2 + k] = b[k]
  BY <1>2, <1>5
<1> QED
  BY <1>2, <1>3, <1>5, <1>6, <1>7 DEF b

LEMMA ReceivedIs ==
    ASSUME wire \in Seq(Symbol), buf \in [1..BufSize -> Symbol], NEW n \in 1..BufSize, n =< Len(wire)
    PROVE  /\ Received(n) \in [1..BufSize -> Symbol] /\ Received(n) \in Seq(Symbol)
           /\ Len(Received(n)) = BufSize
           /\ \A k \in 1..n : Received(n)[k] = wire[k]
<1>1. Received(n) \in [1..BufSize -> Symbol] /\ \A k \in 1..n : Received(n)[k] = wire[k]
  BY BufferAssumption DEF Received
<1>2. BufSize \in Nat
  BY BufferAssumption
<1> QED
  BY <1>1, <1>2

\* What is appended: symbols, of which the first n are those received, if they
\* hold no zero byte.
LEMMA CStringIs ==
    ASSUME NEW b \in Seq(Symbol), Len(b) = BufSize, NEW s \in CString(b)
    PROVE  /\ s \in Seq(Symbol)
           /\ \A n \in 1..BufSize : (\A k \in 1..n : b[k] # Nul)
                 => n =< Len(s) /\ \A k \in 1..n : s[k] = b[k]
<1>0. BufSize \in Nat /\ DOMAIN b = 1..BufSize
  BY BufferAssumption
<1>1. CASE ZeroesIn(b) = {}
  <2>1. PICK junk \in Beyond : s = b \o junk
    BY <1>1 DEF CString
  <2>2. junk \in Seq(Symbol)
    BY BufferAssumption
  <2>3. s \in Seq(Symbol) /\ Len(s) = Len(b) + Len(junk) /\ \A i \in 1..Len(b) : s[i] = b[i]
    BY <2>1, <2>2, Joined
  <2> QED
    BY <1>0, <2>2, <2>3
<1>2. CASE ZeroesIn(b) # {}
  <2>1. PICK k \in ZeroesIn(b) : s = SubSeq(b, 1, k - 1)
    BY <1>2 DEF CString
  <2>2. k \in 1..BufSize /\ b[k] = Nul
    BY <1>0, <2>1 DEF ZeroesIn
  <2>3. s \in Seq(Symbol) /\ Len(s) = k - 1 /\ \A i \in 1..(k - 1) : s[i] = b[i]
    <3>1. 1 \in Nat \ {0} /\ k - 1 \in Nat /\ k - 1 =< Len(b) /\ 1 =< (k - 1) + 1
      BY <1>0, <2>2
    <3>2. /\ s \in Seq(Symbol) /\ Len(s) = (k - 1) + 1 - 1
          /\ \A i \in 1..((k - 1) + 1 - 1) : s[i] = b[1 - 1 + i]
      BY <2>1, <3>1, Part
    <3> QED
      BY <2>2, <3>2
  <2> QED
    BY <1>0, <2>2, <2>3
<1> QED
  BY <1>1, <1>2

-----------------------------------------------------------------------------
(***************************************************************************)
(* The invariant.  Kept strengthens NothingLost: two received symbols lie  *)
(* at least as far apart in outstring as they were received, so the last   *)
(* argument needs no induction over places.                                *)
(***************************************************************************)
\* What was received and what is on its way are the start of the answer.
Sent ==
    /\ got \in Seq(Symbol) /\ wire \in Seq(Symbol)
    /\ Len(got) + Len(wire) =< Len(Full)
    /\ \A k \in 1..Len(got) : got[k] = Full[k]
    /\ \A k \in 1..Len(wire) : wire[k] = Full[Len(got) + k]

Local ==
    /\ closed \in BOOLEAN /\ addrs \in 0..MaxAddress
    /\ pc \in {"start", "connect", "recv", "done"}
    /\ buf \in [1..BufSize -> Symbol]
    /\ outstring \in Seq(Symbol)
    /\ status \in {None, 0, 1, Aborted}
    /\ pc = "done" <=> status # None

Kept ==
    /\ place \in Seq(Nat) /\ Len(place) = Len(got)
    /\ \A i, j \in 1..Len(got) : i =< j => place[j] - place[i] >= j - i
    /\ \A k \in 1..Len(got) : /\ place[k] \in 1..Len(outstring)
                              /\ outstring[place[k]] = got[k]

HttpInv == response \in Responses /\ Sent /\ Local /\ (NoZeroes => Kept)

LEMMA KeptImplies == HttpInv => NothingLost
<1> SUFFICES ASSUME HttpInv, NoZeroes PROVE
       /\ DOMAIN place = DOMAIN got
       /\ \A i, j \in DOMAIN place : i < j => place[i] < place[j]
       /\ \A k \in DOMAIN got : place[k] \in DOMAIN outstring /\ outstring[place[k]] = got[k]
  BY DEF NothingLost
<1>1. /\ place \in Seq(Nat) /\ got \in Seq(Symbol) /\ outstring \in Seq(Symbol)
      /\ Len(place) = Len(got)
  BY DEF HttpInv, Kept, Sent, Local
<1>2. DOMAIN place = 1..Len(got) /\ DOMAIN got = 1..Len(got) /\ DOMAIN outstring = 1..Len(outstring)
  BY <1>1
<1>3. ASSUME NEW i \in 1..Len(got), NEW j \in 1..Len(got), i < j PROVE place[i] < place[j]
  <2>1. place[j] - place[i] >= j - i
    BY <1>3 DEF HttpInv, Kept
  <2>2. place[i] \in Nat /\ place[j] \in Nat
    BY <1>1
  <2> QED
    BY <1>3, <2>1, <2>2
<1> QED
  BY <1>2, <1>3 DEF HttpInv, Kept

LEMMA HttpInit == Init => HttpInv
<1> SUFFICES ASSUME Init PROVE HttpInv
  OBVIOUS
<1>1. response \in Responses
  BY DEF Init
<1>2. Sent
  <2>1. wire = Full /\ got = <<>> /\ Full \in Seq(Symbol)
    BY <1>1, FullIs DEF Init, Full
  <2> QED
    BY <2>1 DEF Sent
<1>3. Local
  <2>1. buf \in [1..BufSize -> Symbol] /\ addrs \in 0..MaxAddress /\ closed \in BOOLEAN
    <3>1. buf \in Stack /\ addrs = 0 /\ closed = FALSE
      BY DEF Init
    <3>2. Stack \subseteq [1..BufSize -> Symbol] /\ 0 \in 0..MaxAddress
      BY BufferAssumption
    <3> QED
      BY <3>1, <3>2
  <2>2. pc = "start" /\ status = None /\ outstring = <<>>
    BY DEF Init
  <2> QED
    BY <2>1, <2>2 DEF Local
<1>4. Kept
  BY DEF Init, Kept
<1> QED
  BY <1>1, <1>2, <1>3, <1>4 DEF HttpInv

\* A text has no zero byte on the wire.
LEMMA NoZeroOnWire ==
    ASSUME HttpInv, NoZeroes, NEW k \in 1..Len(wire)
    PROVE  wire[k] # Nul
<1>1. Full \in Seq(Symbol) /\ DOMAIN Full = 1..Len(Full)
  BY FullIs DEF HttpInv
<1>2. Len(got) + k \in 1..Len(Full) /\ wire[k] = Full[Len(got) + k]
  BY <1>1 DEF HttpInv, Sent
<1> QED
  BY <1>1, <1>2 DEF NoZeroes, Holds, Full

LEMMA RecvSent ==
    ASSUME HttpInv, NEW n \in 1..BufSize, Recv(n)
    PROVE  Sent'
<1>1. /\ got' = got \o SubSeq(wire, 1, n) /\ wire' = SubSeq(wire, n + 1, Len(wire))
      /\ n =< Len(wire) /\ Full' = Full /\ n \in Nat
  BY BufferAssumption DEF Recv, Full
<1>2. got \in Seq(Symbol) /\ wire \in Seq(Symbol) /\ Len(wire) \in Nat /\ Len(got) \in Nat
  BY DEF HttpInv, Sent
<1> DEFINE front == SubSeq(wire, 1, n)
<1>3. front \in Seq(Symbol) /\ Len(front) = n /\ \A i \in 1..n : front[i] = wire[i]
  <2>1. 1 \in Nat \ {0} /\ 1 =< n + 1
    BY <1>1
  <2>2. /\ front \in Seq(Symbol) /\ Len(front) = n + 1 - 1
        /\ \A i \in 1..(n + 1 - 1) : front[i] = wire[1 - 1 + i]
    BY <1>1, <1>2, <2>1, Part
  <2> HIDE DEF front
  <2> QED
    BY <1>1, <2>2
<1>4. /\ wire' \in Seq(Symbol) /\ Len(wire') = Len(wire) - n
      /\ \A i \in 1..(Len(wire) - n) : wire'[i] = wire[n + i]
  <2>1. n + 1 \in Nat \ {0} /\ n + 1 =< Len(wire) + 1
    BY <1>1, <1>2
  <2>2. /\ wire' \in Seq(Symbol) /\ Len(wire') = Len(wire) + 1 - (n + 1)
        /\ \A i \in 1..(Len(wire) + 1 - (n + 1)) : wire'[i] = wire[(n + 1) - 1 + i]
    BY <1>1, <1>2, <2>1, Part
  <2>3. Len(wire) + 1 - (n + 1) = Len(wire) - n /\ \A i \in Nat : (n + 1) - 1 + i = n + i
    BY <1>1, <1>2
  <2> QED
    BY <2>2, <2>3
<1> HIDE DEF front
<1>5. /\ got' \in Seq(Symbol) /\ Len(got') = Len(got) + n
      /\ \A i \in 1..(Len(got) + n) : got'[i] = IF i =< Len(got) THEN got[i] ELSE front[i - Len(got)]
  <2>1. got' = got \o front /\ got \in Seq(Symbol) /\ front \in Seq(Symbol)
    BY <1>1, <1>2, <1>3 DEF front
  <2>2. /\ got' \in Seq(Symbol) /\ Len(got') = Len(got) + Len(front)
        /\ \A i \in 1..(Len(got) + Len(front)) :
              got'[i] = IF i =< Len(got) THEN got[i] ELSE front[i - Len(got)]
    BY <2>1, Joined
  <2> QED
    BY <1>3, <2>2
<1>6. ASSUME NEW k \in 1..Len(got') PROVE got'[k] = Full[k]
  <2>1. CASE k =< Len(got)
    BY <1>2, <1>5, <2>1 DEF HttpInv, Sent
  <2>2. CASE k > Len(got)
    <3>1. k - Len(got) \in 1..n
      BY <1>1, <1>2, <1>5, <2>2
    <3>2. got'[k] = wire[k - Len(got)] /\ k - Len(got) \in 1..Len(wire)
      BY <1>1, <1>2, <1>3, <1>5, <2>2, <3>1
    <3>3. wire[k - Len(got)] = Full[Len(got) + (k - Len(got))]
      BY <3>2 DEF HttpInv, Sent
    <3>4. Len(got) + (k - Len(got)) = k
      BY <1>2, <1>5
    <3> QED
      BY <3>2, <3>3, <3>4
  <2> QED
    BY <1>2, <1>5, <2>1, <2>2
<1>7. ASSUME NEW k \in 1..Len(wire') PROVE wire'[k] = Full[Len(got') + k]
  <2>1. n + k \in 1..Len(wire) /\ wire'[k] = wire[n + k]
    BY <1>1, <1>2, <1>4
  <2>2. wire[n + k] = Full[Len(got) + (n + k)]
    BY <2>1 DEF HttpInv, Sent
  <2>3. Len(got) + (n + k) = Len(got') + k
    BY <1>1, <1>2, <1>4, <1>5
  <2> QED
    BY <2>1, <2>2, <2>3
<1>8. Len(got') + Len(wire') =< Len(Full)
  <2>1. Len(got) + Len(wire) =< Len(Full) /\ Len(Full) \in Nat
    BY FullIs DEF HttpInv, Sent
  <2>2. Len(got') = Len(got) + n /\ Len(wire') = Len(wire) - n
    BY <1>4, <1>5
  <2>3. \A g, w, f, m \in Int : g + w =< f => (g + m) + (w - m) =< f
    OBVIOUS
  <2>4. Len(got) \in Int /\ Len(wire) \in Int /\ n \in Int /\ Len(Full) \in Int
    BY <1>1, <1>2, <2>1
  <2>5. (Len(got) + n) + (Len(wire) - n) =< Len(Full)
    BY <2>1, <2>3, <2>4
  <2> QED
    BY <2>2, <2>5
<1> QED
  BY <1>1, <1>4, <1>5, <1>6, <1>7, <1>8 DEF Sent

\* What a receive appends begins, for a text, with what it received.
LEMMA RecvAppends ==
    ASSUME HttpInv, NEW n \in 1..BufSize, Recv(n)
    PROVE  \E s \in Seq(Symbol) :
              /\ outstring' = outstring \o s
              /\ NoZeroes => n =< Len(s) /\ \A k \in 1..n : s[k] = wire[k]
<1>1. buf' = Received(n) /\ n =< Len(wire)
  BY DEF Recv
<1>2. PICK s \in CString(buf') : outstring' = outstring \o s
  BY DEF Recv
<1>3. buf' \in Seq(Symbol) /\ Len(buf') = BufSize /\ \A k \in 1..n : buf'[k] = wire[k]
  BY <1>1, ReceivedIs DEF HttpInv, Sent, Local
<1>4. s \in Seq(Symbol)
  BY <1>2, <1>3, CStringIs
<1>5. ASSUME NoZeroes PROVE n =< Len(s) /\ \A k \in 1..n : s[k] = wire[k]
  <2>1. \A k \in 1..n : k \in 1..Len(wire)
    BY <1>1, BufferAssumption DEF HttpInv, Sent
  <2>2. \A k \in 1..n : buf'[k] # Nul
    BY <1>3, <1>5, <2>1, NoZeroOnWire
  <2> QED
    BY <1>2, <1>3, <2>2, CStringIs
<1> QED
  BY <1>2, <1>4, <1>5

LEMMA RecvKept ==
    ASSUME HttpInv, NoZeroes, NEW n \in 1..BufSize, Recv(n)
    PROVE  Kept'
<1> DEFINE new == [k \in 1..n |-> Len(outstring) + k]
<1> DEFINE front == SubSeq(wire, 1, n)
<1>1. /\ place' = place \o new /\ got' = got \o front /\ n =< Len(wire) /\ n \in Nat
  BY BufferAssumption DEF Recv
<1>2. /\ got \in Seq(Symbol) /\ place \in Seq(Nat) /\ Len(place) = Len(got)
      /\ outstring \in Seq(Symbol) /\ Len(outstring) \in Nat /\ Len(got) \in Nat
      /\ wire \in Seq(Symbol)
  BY DEF HttpInv, Kept, Sent, Local
<1>3. new \in Seq(Nat) /\ Len(new) = n /\ \A k \in 1..n : new[k] = Len(outstring) + k
  BY <1>1, <1>2
<1>4. front \in Seq(Symbol) /\ Len(front) = n /\ \A i \in 1..n : front[i] = wire[i]
  <2>1. 1 \in Nat \ {0} /\ 1 =< n + 1
    BY <1>1
  <2>2. /\ front \in Seq(Symbol) /\ Len(front) = n + 1 - 1
        /\ \A i \in 1..(n + 1 - 1) : front[i] = wire[1 - 1 + i]
    BY <1>1, <1>2, <2>1, Part
  <2> HIDE DEF front
  <2> QED
    BY <1>1, <2>2
<1> HIDE DEF new, front
<1>5. /\ place' \in Seq(Nat) /\ Len(place') = Len(got) + n
      /\ \A i \in 1..(Len(got) + n) : place'[i] = IF i =< Len(got) THEN place[i] ELSE new[i - Len(got)]
  <2>1. place \in Seq(Nat) /\ new \in Seq(Nat) /\ place' = place \o new
    BY <1>1, <1>2, <1>3
  <2>2. /\ place' \in Seq(Nat) /\ Len(place') = Len(place) + Len(new)
        /\ \A i \in 1..(Len(place) + Len(new)) :
              place'[i] = IF i =< Len(place) THEN place[i] ELSE new[i - Len(place)]
    BY <2>1, Joined
  <2> QED
    BY <1>2, <1>3, <2>2
<1>6. /\ Len(got') = Len(got) + n
      /\ \A i \in 1..(Len(got) + n) : got'[i] = IF i =< Len(got) THEN got[i] ELSE front[i - Len(got)]
  <2>1. got \in Seq(Symbol) /\ front \in Seq(Symbol) /\ got' = got \o front
    BY <1>1, <1>2, <1>4
  <2>2. /\ Len(got') = Len(got) + Len(front)
        /\ \A i \in 1..(Len(got) + Len(front)) :
              got'[i] = IF i =< Len(got) THEN got[i] ELSE front[i - Len(got)]
    BY <2>1, Joined
  <2> QED
    BY <1>4, <2>2
<1>7. PICK s \in Seq(Symbol) : /\ outstring' = outstring \o s
                               /\ n =< Len(s) /\ \A k \in 1..n : s[k] = wire[k]
  BY RecvAppends
<1>8. /\ Len(outstring') = Len(outstring) + Len(s) /\ Len(s) \in Nat
      /\ \A i \in 1..Len(outstring) : outstring'[i] = outstring[i]
      /\ \A i \in 1..Len(s) : outstring'[Len(outstring) + i] = s[i]
  BY <1>2, <1>7, Joined
<1>0. \A k \in 1..Len(got') : k \in Nat /\ (k =< Len(got) \/ k > Len(got))
  BY <1>1, <1>2, <1>6
<1>9. \A k \in 1..Len(got) : place'[k] = place[k] /\ got'[k] = got[k]
  BY <1>1, <1>2, <1>5, <1>6
<1>10. ASSUME NEW k \in 1..Len(got'), k > Len(got)
       PROVE  /\ k - Len(got) \in 1..n
              /\ place'[k] = Len(outstring) + (k - Len(got)) /\ got'[k] = wire[k - Len(got)]
  <2>1. k - Len(got) \in 1..n
    BY <1>1, <1>2, <1>6, <1>10
  <2>2. place'[k] = new[k - Len(got)] /\ got'[k] = front[k - Len(got)]
    BY <1>1, <1>2, <1>5, <1>6, <1>10
  <2> QED
    BY <1>3, <1>4, <2>1, <2>2
<1>11. ASSUME NEW k \in 1..Len(got')
       PROVE  place'[k] \in 1..Len(outstring') /\ outstring'[place'[k]] = got'[k]
  <2>1. CASE k =< Len(got)
    <3>1. k \in 1..Len(got)
      BY <1>2, <2>1
    <3>2. place[k] \in 1..Len(outstring) /\ outstring[place[k]] = got[k]
      BY <3>1 DEF HttpInv, Kept
    <3> QED
      BY <1>2, <1>8, <1>9, <3>1, <3>2
  <2>2. CASE k > Len(got)
    <3> DEFINE m == k - Len(got)
    <3>1. m \in 1..n /\ place'[k] = Len(outstring) + m /\ got'[k] = wire[m]
      BY <1>10, <2>2
    <3> HIDE DEF m
    <3>2. m \in 1..Len(s) /\ s[m] = wire[m]
      BY <1>1, <1>7, <1>8, <3>1
    <3> QED
      BY <1>2, <1>8, <3>1, <3>2
  <2> QED
    BY <1>0, <2>1, <2>2
<1>12. ASSUME NEW i \in 1..Len(got'), NEW j \in 1..Len(got'), i =< j
       PROVE  place'[j] - place'[i] >= j - i
  <2>1. CASE j =< Len(got)
    <3>1. i \in 1..Len(got) /\ j \in 1..Len(got)
      BY <1>2, <1>12, <2>1
    <3> QED
      BY <1>9, <1>12, <3>1 DEF HttpInv, Kept
  <2>2. CASE i > Len(got)
    <3>1. j > Len(got)
      BY <1>1, <1>2, <1>6, <1>12, <2>2
    <3>2. place'[i] = Len(outstring) + (i - Len(got)) /\ place'[j] = Len(outstring) + (j - Len(got))
      BY <1>10, <2>2, <3>1
    <3> QED
      BY <1>1, <1>2, <1>6, <3>2
  <2>3. CASE i =< Len(got) /\ j > Len(got)
    <3> DEFINE z == Len(got)
    <3>1. i \in 1..z /\ z \in 1..z /\ i =< z
      BY <1>2, <2>3
    <3>2. place[z] - place[i] >= z - i /\ place[z] \in 1..Len(outstring) /\ place[i] \in 1..Len(outstring)
      BY <3>1 DEF HttpInv, Kept
    <3>3. place'[i] = place[i] /\ place'[j] = Len(outstring) + (j - z)
      BY <1>9, <1>10, <2>3, <3>1
    <3> HIDE DEF z
    <3>4. z \in Nat /\ i \in Nat /\ j \in Nat /\ j > z
      BY <1>0, <1>2, <2>3 DEF z
    <3>5. \A l, a, b \in Nat : b - a >= z - i /\ b =< l => (l + (j - z)) - a >= j - i
      BY <3>4
    <3>6. Len(outstring) \in Nat /\ place[z] \in Nat /\ place[i] \in Nat /\ place[z] =< Len(outstring)
      <4>1. Len(outstring) \in Nat
        BY <1>2
      <4> QED
        BY <3>2, <4>1
    <3> QED
      BY <3>2, <3>3, <3>5, <3>6
  <2> QED
    BY <1>0, <2>1, <2>2, <2>3
<1> QED
  BY <1>5, <1>6, <1>11, <1>12 DEF Kept

LEMMA CloseSent ==
    ASSUME HttpInv, Close
    PROVE  Sent'
<1>1. PICK n \in 0..Len(wire) : wire' = SubSeq(wire, 1, n)
  BY DEF Close
<1>2. wire \in Seq(Symbol) /\ got \in Seq(Symbol) /\ got' = got /\ Full' = Full /\ n \in Nat /\ n =< Len(wire)
  BY DEF HttpInv, Sent, Close, Full
<1>3. wire' \in Seq(Symbol) /\ Len(wire') = n /\ \A i \in 1..n : wire'[i] = wire[i]
  <2>1. 1 \in Nat \ {0} /\ 1 =< n + 1
    BY <1>2
  <2>2. /\ wire' \in Seq(Symbol) /\ Len(wire') = n + 1 - 1
        /\ \A i \in 1..(n + 1 - 1) : wire'[i] = wire[1 - 1 + i]
    BY <1>1, <1>2, <2>1, Part
  <2> QED
    BY <1>2, <2>2
<1>4. Len(Full) \in Nat /\ Len(got) \in Nat /\ Len(wire) \in Nat
  BY <1>2, FullIs DEF HttpInv
<1> QED
  BY <1>2, <1>3, <1>4 DEF HttpInv, Sent

\* The other steps receive nothing, and place nothing.
LEMMA OtherSteps ==
    ASSUME HttpInv, Next \/ UNCHANGED vars, ~Close, \A n \in 1..BufSize : ~Recv(n)
    PROVE  Local' /\ UNCHANGED <<response, wire, got, place, outstring>>
<1>1. CASE Refuse
  BY <1>1 DEF Refuse, Return, HttpInv, Local, None
<1>2. CASE Resolve
  BY <1>2 DEF Resolve, HttpInv, Local
<1>3. CASE TryNext
  BY <1>3, BufferAssumption DEF TryNext, HttpInv, Local
<1>4. CASE Connect
  BY <1>4 DEF Connect, HttpInv, Local
<1>5. CASE NoConnection
  BY <1>5 DEF NoConnection, Return, HttpInv, Local, None
<1>6. CASE Finish
  <2>1. pc' = "done" /\ status' \in {0, 1, Aborted}
    BY <1>6 DEF Finish, Judge, JudgeWithoutLength, Return
  <2>2. UNCHANGED <<response, wire, closed, got, place, addrs, buf, outstring>>
    BY <1>6 DEF Finish
  <2> QED
    BY <2>1, <2>2 DEF HttpInv, Local, None, Aborted
<1>7. CASE RecvFails
  BY <1>7 DEF RecvFails, Return, HttpInv, Local, None
<1>8. CASE UNCHANGED vars
  BY <1>8 DEF vars, HttpInv, Local
<1> QED
  BY <1>1, <1>2, <1>3, <1>4, <1>5, <1>6, <1>7, <1>8 DEF Next, Main

LEMMA HttpNext == HttpInv /\ [Next]_vars => HttpInv'
<1> SUFFICES ASSUME HttpInv, [Next]_vars PROVE HttpInv'
  OBVIOUS
<1>1. ASSUME NEW n \in 1..BufSize, Recv(n) PROVE HttpInv'
  <2>1. Sent'
    BY <1>1, RecvSent
  <2>2. NoZeroes' => Kept'
    BY <1>1, RecvKept DEF Recv, NoZeroes
  <2>3. Local'
    <3>1. buf' \in [1..BufSize -> Symbol]
      BY <1>1, ReceivedIs DEF HttpInv, Sent, Local, Recv
    <3>2. outstring' \in Seq(Symbol)
      <4>1. PICK s \in Seq(Symbol) : outstring' = outstring \o s
        BY <1>1, RecvAppends
      <4>2. outstring \in Seq(Symbol)
        BY DEF HttpInv, Local
      <4> QED
        BY <4>1, <4>2, Joined
    <3> QED
      BY <1>1, <3>1, <3>2 DEF HttpInv, Local, Recv
  <2> QED
    BY <1>1, <2>1, <2>2, <2>3 DEF HttpInv, Recv
<1>2. CASE Close
  <2>1. Sent'
    BY <1>2, CloseSent
  <2>2. Local' /\ UNCHANGED <<response, got, place, outstring>>
    BY <1>2 DEF Close, HttpInv, Local
  <2> QED
    BY <2>1, <2>2 DEF HttpInv, Kept, NoZeroes
<1>3. CASE ~Close /\ \A n \in 1..BufSize : ~Recv(n)
  <2>1. Local' /\ UNCHANGED <<response, wire, got, place, outstring>>
    BY <1>3, OtherSteps
  <2> QED
    BY <2>1 DEF HttpInv, Sent, Kept, NoZeroes, Full
<1> QED
  BY <1>1, <1>2, <1>3

LEMMA HttpInvHolds == Spec => []HttpInv
BY HttpInit, HttpNext, PTL DEF Spec

-----------------------------------------------------------------------------
(***************************************************************************)
(* The end of the header, and what main makes of the rest.                 *)
(***************************************************************************)
HeaderEnds(s) == {k \in 1..Len(s) : s[k] \in {Length, End}}

LEMMA BodyIs ==
    ASSUME NEW s \in Seq(Symbol), HeaderEnds(s) # {}
    PROVE  \E p \in HeaderEnds(s) :
              /\ \A k \in HeaderEnds(s) : p =< k
              /\ Len(BodyIn(s)) = Len(s) - p
              /\ BodyIn(s) \in Seq(Symbol)
              /\ \A k \in 1..(Len(s) - p) : BodyIn(s)[k] = s[p + k]
<1> DEFINE p == Min(HeaderEnds(s))
<1>1. SelectInSeq(s, LAMBDA e : e \in {Length, End}) = p
  BY DEF SelectInSeq, HeaderEnds
<1>2. BodyIn(s) = SubSeq(s, p + 1, Len(s))
  BY <1>1 DEF BodyIn
<1>3. p \in HeaderEnds(s) /\ \A k \in HeaderEnds(s) : p =< k
  <2>1. HeaderEnds(s) \in SUBSET Nat
    BY DEF HeaderEnds
  <2> QED
    BY <2>1, Least
<1> HIDE DEF p
<1>4. p \in Nat /\ p =< Len(s) /\ Len(s) \in Nat
  BY <1>3 DEF HeaderEnds
<1>5. p + 1 \in Nat \ {0} /\ p + 1 =< Len(s) + 1 /\ Len(s) =< Len(s)
  BY <1>4
<1>6. /\ BodyIn(s) \in Seq(Symbol) /\ Len(BodyIn(s)) = Len(s) + 1 - (p + 1)
      /\ \A i \in 1..(Len(s) + 1 - (p + 1)) : BodyIn(s)[i] = s[(p + 1) - 1 + i]
  BY <1>2, <1>4, <1>5, Part
<1>7. Len(s) + 1 - (p + 1) = Len(s) - p /\ \A i \in Nat : (p + 1) - 1 + i = p + i
  BY <1>4
<1>8. ASSUME NEW k \in 1..(Len(s) - p) PROVE BodyIn(s)[k] = s[p + k]
  <2>1. k \in Nat /\ k \in 1..(Len(s) + 1 - (p + 1))
    BY <1>4, <1>7
  <2> QED
    BY <1>6, <1>7, <2>1
<1>9. Len(BodyIn(s)) = Len(s) - p /\ BodyIn(s) \in Seq(Symbol)
  BY <1>6, <1>7
<1> QED
  BY <1>3, <1>8, <1>9

LEMMA Squeezed ==
    \A p, z, m, k, a, b, c \in Int :
        /\ b - a >= (2 + k) - 2 /\ c - b >= (2 + m) - (2 + k)
        /\ p =< a /\ c =< z /\ z - p = m
        => b = p + k
OBVIOUS

\* Everything has been received, and what follows the first end of a header is
\* as long as the body: then it is the body.  The rest of the answer takes up at
\* least that much of outstring, behind the end of its own header.
LEMMA SameLengthSameBody ==
    ASSUME HttpInv, NoZeroes, got = Full, Len(BodyIn(outstring)) = Len(response.body)
    PROVE  BodyIn(outstring) = response.body
<1> DEFINE m == Len(response.body)
<1>1. /\ response.body \in Seq(Symbol) /\ m \in Nat /\ Len(got) = 2 + m
      /\ got[2] \in {Length, End}
      /\ \A k \in 1..m : got[2 + k] = response.body[k]
  BY FullIs DEF HttpInv
<1>2. outstring \in Seq(Symbol) /\ Len(outstring) \in Nat /\ place \in Seq(Nat)
  BY DEF HttpInv, Local, Kept
<1>3. Len(BodyIn(outstring)) = m
  OBVIOUS
<1> HIDE DEF m
<1>4. \A k \in 1..(2 + m) : /\ place[k] \in 1..Len(outstring)
                            /\ outstring[place[k]] = got[k]
  BY <1>1 DEF HttpInv, Kept
<1>5. \A i, j \in 1..(2 + m) : i =< j => place[j] - place[i] >= j - i
  BY <1>1 DEF HttpInv, Kept
<1>6. 2 \in 1..(2 + m) /\ 2 + m \in 1..(2 + m) /\ \A k \in 1..m : 2 + k \in 1..(2 + m)
  BY <1>1
<1>7. place[2] \in HeaderEnds(outstring)
  BY <1>1, <1>4, <1>6 DEF HeaderEnds
<1>8. PICK p \in HeaderEnds(outstring) :
         /\ \A k \in HeaderEnds(outstring) : p =< k
         /\ Len(BodyIn(outstring)) = Len(outstring) - p
         /\ BodyIn(outstring) \in Seq(Symbol)
         /\ \A k \in 1..(Len(outstring) - p) : BodyIn(outstring)[k] = outstring[p + k]
  BY <1>2, <1>7, BodyIs
<1> DEFINE z == Len(outstring)
<1>9. p \in Nat /\ z \in Nat /\ z - p = m /\ p =< place[2]
  BY <1>2, <1>3, <1>7, <1>8 DEF HeaderEnds
<1> HIDE DEF z
<1>10. ASSUME NEW k \in 1..m PROVE place[2 + k] = p + k
  <2>1. /\ place[2 + k] - place[2] >= (2 + k) - 2
        /\ place[2 + m] - place[2 + k] >= (2 + m) - (2 + k)
    BY <1>1, <1>5, <1>6
  <2>2. place[2] \in Nat /\ place[2 + k] \in Nat /\ place[2 + m] \in Nat /\ place[2 + m] =< z
    BY <1>2, <1>4, <1>6 DEF z
  <2>3. p \in Int /\ z \in Int /\ m \in Int /\ k \in Int
    BY <1>1, <1>9
  <2> QED
    BY <1>9, <2>1, <2>2, <2>3, Squeezed
<1>11. ASSUME NEW k \in 1..m PROVE BodyIn(outstring)[k] = response.body[k]
  <2>1. BodyIn(outstring)[k] = outstring[p + k]
    BY <1>8, <1>9 DEF z
  <2>2. outstring[place[2 + k]] = got[2 + k]
    BY <1>4, <1>6
  <2> QED
    BY <1>1, <1>10, <2>1, <2>2
<1>12. response.body \in Seq(Symbol) /\ Len(response.body) = m
  BY <1>1 DEF m
<1>13. BodyIn(outstring) \in Seq(Symbol) /\ Len(BodyIn(outstring)) = m
  BY <1>3, <1>8
<1> QED
  BY <1>11, <1>12, <1>13

\* After a whole text the status line is in outstring too.
LEMMA StatusFound ==
    ASSUME HttpInv, NoZeroes, got = Full
    PROVE  Holds(outstring, {Ok, NotFound})
<1>1. Len(got) >= 2 /\ got[1] \in {Ok, NotFound}
  BY FullIs DEF HttpInv
<1>2. 1 \in 1..Len(got)
  BY <1>1 DEF HttpInv, Sent
<1>3. place[1] \in 1..Len(outstring) /\ outstring[place[1]] = got[1]
  BY <1>2 DEF HttpInv, Kept
<1>4. DOMAIN outstring = 1..Len(outstring)
  BY DEF HttpInv, Local
<1> QED
  BY <1>1, <1>3, <1>4 DEF Holds

LEMMA ExactStep == HttpInv /\ ExitZeroExact /\ [Next]_vars => ExitZeroExact'
<1> SUFFICES ASSUME HttpInv, ExitZeroExact, [Next]_vars, status' = 0, NoZeroes',
                    got' = response'.head \o response'.body
             PROVE  outfile' = response'.body
  BY DEF ExitZeroExact
<1>1. CASE Finish
  <2>1. response' = response /\ got = Full /\ NoZeroes
    BY <1>1 DEF Finish, Full, NoZeroes
  <2>2. CASE Holds(outstring, {NotFound, Text404})
    BY <1>1, <2>2 DEF Finish, Return
  <2>3. CASE ~Holds(outstring, {NotFound, Text404}) /\ Judge
    <3>1. Len(BodyIn(outstring)) = Len(response.body) /\ outfile' = BodyIn(outstring)
      BY <2>3 DEF Judge, Return
    <3> QED
      BY <2>1, <3>1, SameLengthSameBody
  <2>4. CASE ~Holds(outstring, {NotFound, Text404}) /\ JudgeWithoutLength
    <3>1. ~Holds(outstring, {Ok})
      BY <2>4 DEF JudgeWithoutLength, Return, Aborted
    <3>2. Holds(outstring, {Ok, NotFound})
      BY <2>1, StatusFound
    <3> QED
      BY <2>4, <3>1, <3>2 DEF Holds
  <2> QED
    BY <1>1, <2>2, <2>3, <2>4 DEF Finish
<1>2. CASE ~Finish /\ UNCHANGED <<status, outfile, response, got>>
  BY <1>2 DEF ExitZeroExact, NoZeroes
<1>3. CASE ~Finish /\ ~UNCHANGED <<status, outfile, response, got>>
  <2>1. status' = 1 \/ (\E n \in 1..BufSize : Recv(n))
    BY <1>3 DEF Next, Main, Refuse, Resolve, TryNext, Connect, NoConnection, RecvFails, Close,
       Return, vars
  <2>2. ASSUME NEW n \in 1..BufSize, Recv(n) PROVE FALSE
    BY <2>2 DEF Recv, HttpInv, Local, None
  <2> QED
    BY <2>1, <2>2
<1> QED
  BY <1>1, <1>2, <1>3

-----------------------------------------------------------------------------
\* What main keeps has its type, it returns at the end and only there, and what
\* it has received is the start of the answer (lines 51-60, 139-148).
THEOREM TypesHold == Spec => []TypeOK
<1>1. HttpInv => TypeOK
  <2> SUFFICES ASSUME HttpInv PROVE TypeOK
    OBVIOUS
  <2> DEFINE there == got \o wire
  <2>1. got \in Seq(Symbol) /\ wire \in Seq(Symbol) /\ Full \in Seq(Symbol)
    BY FullIs DEF HttpInv, Sent
  <2>2. /\ there \in Seq(Symbol) /\ Len(there) = Len(got) + Len(wire)
        /\ \A i \in 1..(Len(got) + Len(wire)) :
              there[i] = IF i =< Len(got) THEN got[i] ELSE wire[i - Len(got)]
    BY <2>1, Joined
  <2>3. Len(got) \in Nat /\ Len(wire) \in Nat /\ Len(Full) \in Nat
    BY <2>1
  <2> HIDE DEF there
  <2>4. Len(there) =< Len(Full) /\ Len(there) \in Nat
    BY <2>2, <2>3 DEF HttpInv, Sent
  <2>5. ASSUME NEW i \in 1..Len(there) PROVE there[i] = Full[i]
    <3>1. CASE i =< Len(got)
      BY <2>2, <2>3, <3>1 DEF HttpInv, Sent
    <3>2. CASE ~(i =< Len(got))
      <4>1. i - Len(got) \in 1..Len(wire) /\ Len(got) + (i - Len(got)) = i
        BY <2>2, <2>3, <3>2
      <4>2. there[i] = wire[i - Len(got)]
        BY <2>2, <3>2
      <4>3. wire[i - Len(got)] = Full[Len(got) + (i - Len(got))]
        BY <4>1 DEF HttpInv, Sent
      <4> QED
        BY <4>1, <4>2, <4>3
    <3> QED
      BY <3>1, <3>2
  <2>6. SubSeq(there, 1, Len(there)) = SubSeq(Full, 1, Len(there))
    BY <2>1, <2>2, <2>4, <2>5
  <2>7. IsPrefix(got \o wire, response.head \o response.body)
    BY <2>4, <2>6 DEF IsPrefix, there, Full
  <2> QED
    BY <2>7 DEF HttpInv, Local, TypeOK
<1> QED
  BY <1>1, HttpInvHolds, PTL

\* However the server cuts a text into pieces, and whatever is left in the buffer
\* from one piece to the next, all of it reaches outstring in its order
\* (lines 139-142).
THEOREM NothingIsLost == Spec => []NothingLost
BY HttpInvHolds, KeptImplies, PTL

\* What the buffer adds cannot be taken for a part of the body once the whole
\* text is there: the lengths that main compares (line 177) agree only when the
\* file is exact.
THEOREM ZeroIsExact == Spec => []ExitZeroExact
<1>1. Init => ExitZeroExact
  BY DEF Init, ExitZeroExact, None
<1> QED
  BY <1>1, ExactStep, HttpInvHolds, PTL DEF Spec
=============================================================================
