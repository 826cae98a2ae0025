-------------------------- MODULE WeatherAppProofs --------------------------
(***************************************************************************)
(* For any users, cities, registrations and any depth of the back stack:   *)
(* a list has no doubles and is changed by its user's own screens only,    *)
(* users keep their themes, and every login click restores the test user.  *)
(***************************************************************************)
EXTENDS WeatherApp, FiniteSetTheorems, WellFoundedInduction, TLAPS

-----------------------------------------------------------------------------
(***************************************************************************)
(* buildDataBase.                                                          *)
(***************************************************************************)
LEMMA Joined ==
    ASSUME NEW S, NEW p \in Seq(S), NEW q \in Seq(S)
    PROVE  /\ p \o q \in Seq(S) /\ Len(p \o q) = Len(p) + Len(q) /\ DOMAIN (p \o q) = 1..Len(p \o q)
           /\ \A i \in 1..Len(q) : (p \o q)[Len(p) + i] = q[i]
<1>1. p \o q \in Seq(S) /\ Len(p \o q) = Len(p) + Len(q)
  OBVIOUS
<1>2. DOMAIN (p \o q) = 1..Len(p \o q)
  BY <1>1
<1>3. ASSUME NEW i \in 1..Len(q) PROVE (p \o q)[Len(p) + i] = q[i]
  OBVIOUS
<1> QED
  BY <1>1, <1>2, <1>3

\* Where each statement leaves the database, and where the last one does.
LEMMA StepOf ==
    ASSUME NEW db
    PROVE  /\ \A k \in DOMAIN BuildSteps(db) :
                 BuildSteps(db)[k] \in {Cleared(db)[j] : j \in 1..4}
                    \union {Added(e)[j] : e \in {db, Cleared(db)[4]}, j \in 1..2}
           /\ LET last == BuildSteps(db)[Len(BuildSteps(db))]
              IN  /\ Len(BuildSteps(db)) \in DOMAIN BuildSteps(db)
                  /\ last = IF Matches(db.users, Test, TestPassword) = {} THEN Added(db)[2]
                            ELSE Added(Cleared(db)[4])[2]
<1> DEFINE S == {Cleared(db)[j] : j \in 1..4}
                  \union {Added(e)[j] : e \in {db, Cleared(db)[4]}, j \in 1..2}
<1> DEFINE Last ==
       LET last == BuildSteps(db)[Len(BuildSteps(db))]
       IN  /\ Len(BuildSteps(db)) \in DOMAIN BuildSteps(db)
           /\ last = IF Matches(db.users, Test, TestPassword) = {} THEN Added(db)[2]
                     ELSE Added(Cleared(db)[4])[2]
<1>1. (\A e \in {db, Cleared(db)[4]}, j \in 1..2 : Added(e)[j] \in S) /\ \A j \in 1..4 : Cleared(db)[j] \in S
  OBVIOUS
<1> HIDE DEF S
<1>2. /\ \A e : Added(e) = <<Added(e)[1], Added(e)[2]>>
      /\ Cleared(db) = <<Cleared(db)[1], Cleared(db)[2], Cleared(db)[3], Cleared(db)[4]>>
  BY DEF Added, Cleared
<1>3. ASSUME NEW e \in {db, Cleared(db)[4]}
      PROVE  Added(e) \in Seq(S) /\ Len(Added(e)) = 2 /\ DOMAIN Added(e) = 1..2
  <2> DEFINE x == Added(e)[1]
  <2> DEFINE y == Added(e)[2]
  <2>1. Added(e) = <<x, y>> /\ x \in S /\ y \in S
    BY <1>1, <1>2
  <2> HIDE DEF x, y
  <2> QED
    BY <2>1
<1>4. Cleared(db) \in Seq(S) /\ Len(Cleared(db)) = 4
  <2> DEFINE w == Cleared(db)[1]
  <2> DEFINE x == Cleared(db)[2]
  <2> DEFINE y == Cleared(db)[3]
  <2> DEFINE z == Cleared(db)[4]
  <2>1. Cleared(db) = <<w, x, y, z>> /\ w \in S /\ x \in S /\ y \in S /\ z \in S
    BY <1>1, <1>2
  <2> HIDE DEF w, x, y, z
  <2> QED
    BY <2>1
<1>5. ASSUME Matches(db.users, Test, TestPassword) = {}
      PROVE  (\A k \in DOMAIN BuildSteps(db) : BuildSteps(db)[k] \in S) /\ Last
  <2>1. BuildSteps(db) = Added(db)
    BY <1>5 DEF BuildSteps
  <2>2. Len(Added(db)) = 2 /\ DOMAIN Added(db) = 1..2 /\ \A k \in 1..2 : Added(db)[k] \in S
    BY <1>1, <1>3
  <2> QED
    BY <1>5, <2>1, <2>2
<1>6. ASSUME Matches(db.users, Test, TestPassword) # {}
      PROVE  (\A k \in DOMAIN BuildSteps(db) : BuildSteps(db)[k] \in S) /\ Last
  <2> DEFINE more == Added(Cleared(db)[4])
  <2>1. BuildSteps(db) = Cleared(db) \o more
    BY <1>6 DEF BuildSteps
  <2>2. more \in Seq(S) /\ Len(more) = 2
    BY <1>3
  <2> HIDE DEF more
  <2> DEFINE all == Cleared(db) \o more
  <2>3. /\ all \in Seq(S) /\ Len(all) = Len(Cleared(db)) + Len(more) /\ DOMAIN all = 1..Len(all)
        /\ \A i \in 1..Len(more) : all[Len(Cleared(db)) + i] = more[i]
    <3>1. Cleared(db) \in Seq(S) /\ more \in Seq(S)
      BY <1>4, <2>2
    <3> QED
      BY <3>1, Joined
  <2> HIDE DEF all
  <2>4. Len(all) = 6 /\ DOMAIN all = 1..6
    BY <1>4, <2>2, <2>3
  <2>5. \A k \in DOMAIN all : all[k] \in S
    BY <2>3
  <2>6. all[6] = more[2]
    <3>1. 2 \in 1..Len(more) /\ Len(Cleared(db)) + 2 = 6
      BY <1>4, <2>2
    <3> QED
      BY <2>3, <3>1
  <2>7. BuildSteps(db) = all
    BY <2>1 DEF all
  <2>8. Len(all) \in DOMAIN all /\ all[Len(all)] = more[2]
    <3>1. Len(all) \in DOMAIN all
      BY <2>4
    <3> QED
      BY <2>4, <2>6, <3>1
  <2> HIDE DEF S
  <2> QED
    BY <1>6, <2>5, <2>7, <2>8, Zenon DEF more
<1>7. /\ \A k \in DOMAIN BuildSteps(db) : BuildSteps(db)[k] \in S
      /\ Last
  BY <1>5, <1>6
<1> QED
  BY <1>7 DEF S, Last

\* new is old without some of the rows of the test users.
Trimmed(new, old) ==
    /\ DOMAIN new \subseteq DOMAIN old
    /\ \A e \in DOMAIN new : new[e] = old[e]
    /\ \A e \in DOMAIN old : e[1] \notin TestUsers => e \in DOMAIN new

LEMMA ForgetTrims ==
    ASSUME NEW map, NEW old, Trimmed(map, old), NEW u \in TestUsers
    PROVE  Trimmed(Forget(map, u), old)
<1>1. /\ DOMAIN Forget(map, u) = {e \in DOMAIN map : e[1] # u}
      /\ \A e \in DOMAIN Forget(map, u) : Forget(map, u)[e] = map[e]
  BY DEF Forget
<1> HIDE DEF Forget
<1> QED
  BY <1>1 DEF Trimmed

\* Every statement of buildDataBase only takes rows of the test users away.
LEMMA StepsTrim ==
    ASSUME NEW t, NEW m, NEW k \in DOMAIN BuildSteps(DB(t, m))
    PROVE  Trimmed(BuildSteps(DB(t, m))[k].places, m)
<1> DEFINE db == DB(t, m)
<1>1. Trimmed(db.places, m)
  BY DEF Trimmed, DB
<1>2. ASSUME NEW e, Trimmed(e.places, m), NEW j \in 1..2
      PROVE  Trimmed(Added(e)[j].places, m)
  BY <1>2 DEF Added, WithRow, DB
<1>3. ASSUME NEW j \in 1..4 PROVE Trimmed(Cleared(db)[j].places, m)
  <2> HIDE DEF db
  <2> DEFINE a == NoPlaces(db, Test)
  <2> DEFINE b == NoRows(a, Test)
  <2> DEFINE c == NoPlaces(b, Test1)
  <2> DEFINE d == NoRows(c, Test1)
  <2>1. /\ a.places = Forget(db.places, Test) /\ b.places = a.places
        /\ c.places = Forget(b.places, Test1) /\ d.places = c.places
    BY DEF NoPlaces, NoRows, DB
  <2>2. Cleared(db) = <<a, b, c, d>>
    BY DEF Cleared
  <2> HIDE DEF a, b, c, d
  <2>3. Trimmed(a.places, m) /\ Trimmed(b.places, m)
    BY <1>1, <2>1, ForgetTrims DEF TestUsers
  <2>4. Trimmed(c.places, m) /\ Trimmed(d.places, m)
    BY <2>1, <2>3, ForgetTrims DEF TestUsers
  <2> QED
    BY <2>2, <2>3, <2>4
<1> HIDE DEF db
<1>4. ASSUME NEW e \in {db, Cleared(db)[4]}, NEW j \in 1..2 PROVE Trimmed(Added(e)[j].places, m)
  BY <1>1, <1>2, <1>3
<1>5. BuildSteps(db)[k] \in {Cleared(db)[j] : j \in 1..4}
         \union {Added(e)[j] : e \in {db, Cleared(db)[4]}, j \in 1..2}
  BY StepOf DEF db
<1> QED
  BY <1>3, <1>4, <1>5 DEF db

-----------------------------------------------------------------------------
(***************************************************************************)
(* The lists.                                                              *)
(***************************************************************************)
\* What a step does to the lists: a login trims them, and a save adds or
\* deletes one row of the user of the screen in front.
PlacesStep ==
    \/ Trimmed(places', places)
    \/ /\ Top.kind = "main"
       /\ \E c \in City : places' = addLocation(Top.user, c) \/ places' = deleteLocation(Top.user, c)

LEMMA PlacesMove == [Next]_vars => PlacesStep
<1> SUFFICES ASSUME [Next]_vars PROVE PlacesStep
  OBVIOUS
<1>1. ASSUME UNCHANGED places PROVE PlacesStep
  BY <1>1 DEF PlacesStep, Trimmed
<1>2. ASSUME NEW u \in User, NEW p \in Password, Login(u, p) PROVE PlacesStep
  <2> DEFINE steps == BuildSteps(DB(users, places))
  <2>1. places' = steps[Len(steps)].places
    BY <1>2 DEF Login, Become
  <2>2. Len(steps) \in DOMAIN steps
    BY StepOf
  <2> QED
    BY <2>1, <2>2, StepsTrim DEF PlacesStep
<1>3. CASE KilledInLogin
  BY <1>3, StepsTrim DEF KilledInLogin, Become, PlacesStep
<1>4. ASSUME NEW c \in City \union {None}, Save(c) PROVE PlacesStep
  <2>1. CASE c = None
    BY <1>1, <1>4, <2>1 DEF Save
  <2>2. CASE c # None
    BY <1>4, <2>2 DEF Save, OnTop, PlacesStep
  <2> QED
    BY <2>1, <2>2
<1>5. CASE SignUp \/ ToLogin \/ Logout \/ AddClick \/ RemoveClick \/ SaveNothing \/ OpenCity
           \/ Back \/ Recreate \/ UNCHANGED vars
  BY <1>1, <1>5 DEF SignUp, ToLogin, Logout, AddClick, RemoveClick, SaveNothing, OpenCity, Back,
     Recreate, vars
<1>6. ASSUME NEW row \in Registrations, Register(row) PROVE PlacesStep
  BY <1>1, <1>6 DEF Register, Become, WithRow, DB
<1> QED
  BY <1>2, <1>3, <1>4, <1>5, <1>6 DEF Next

LEMMA AddIs ==
    ASSUME NEW u, NEW c
    PROVE  /\ DOMAIN addLocation(u, c) = DOMAIN places \union {<<u, c>>}
           /\ PlacesOnce => \A e \in DOMAIN addLocation(u, c) : addLocation(u, c)[e] = 1
<1>1. CASE BagIn(<<u, c>>, places)
  <2>1. addLocation(u, c) = places /\ <<u, c>> \in DOMAIN places
    BY <1>1 DEF addLocation, BagIn, BagToSet
  <2> QED
    BY <2>1 DEF PlacesOnce
<1>2. CASE ~BagIn(<<u, c>>, places)
  <2> DEFINE e == <<u, c>>
  <2> DEFINE one == SetToBag({e})
  <2>1. e \notin DOMAIN places
    BY <1>2 DEF BagIn, BagToSet
  <2>2. DOMAIN one = {e} /\ one[e] = 1
    BY DEF SetToBag
  <2>3. addLocation(u, c) = places (+) one
    BY <1>2 DEF addLocation
  <2> HIDE DEF one
  <2>4. /\ DOMAIN (places (+) one) = DOMAIN places \union {e}
        /\ PlacesOnce => \A x \in DOMAIN (places (+) one) : (places (+) one)[x] = 1
    BY <2>1, <2>2 DEF (+), PlacesOnce
  <2> QED
    BY <2>3, <2>4
<1> QED
  BY <1>1, <1>2

LEMMA DeleteIs ==
    ASSUME NEW u, NEW c
    PROVE  /\ DOMAIN deleteLocation(u, c) = DOMAIN places \ {<<u, c>>}
           /\ \A e \in DOMAIN deleteLocation(u, c) : deleteLocation(u, c)[e] = places[e]
BY DEF deleteLocation

LEMMA OnceKept == PlacesOnce /\ [Next]_vars => PlacesOnce'
<1> SUFFICES ASSUME PlacesOnce, PlacesStep PROVE PlacesOnce'
  BY PlacesMove
<1>1. CASE Trimmed(places', places)
  BY <1>1 DEF Trimmed, PlacesOnce
<1>2. ASSUME NEW c \in City, places' = addLocation(Top.user, c) PROVE PlacesOnce'
  <2>1. \A e \in DOMAIN addLocation(Top.user, c) : addLocation(Top.user, c)[e] = 1
    BY AddIs
  <2> QED
    BY <1>2, <2>1 DEF PlacesOnce
<1>3. ASSUME NEW c \in City, places' = deleteLocation(Top.user, c) PROVE PlacesOnce'
  <2> DEFINE less == deleteLocation(Top.user, c)
  <2>1. DOMAIN less \subseteq DOMAIN places /\ \A e \in DOMAIN less : less[e] = places[e]
    BY DeleteIs
  <2>2. places' = less
    BY <1>3
  <2> HIDE DEF less
  <2> QED
    BY <2>1, <2>2 DEF PlacesOnce
<1> QED
  BY <1>1, <1>2, <1>3 DEF PlacesStep

\* The list of a user of the app changes only under the user's own screen.
LEMMA OwnStep ==
    ASSUME PlacesStep, NEW u \in User \ TestUsers,
           {e \in DOMAIN places' : e[1] = u} # {e \in DOMAIN places : e[1] = u}
    PROVE  Top.kind = "main" /\ Top.user = u
<1>1. ~Trimmed(places', places)
  BY DEF Trimmed
<1>2. Top.kind = "main"
  BY <1>1 DEF PlacesStep
<1>3. PICK c \in City : places' = addLocation(Top.user, c) \/ places' = deleteLocation(Top.user, c)
  BY <1>1 DEF PlacesStep
<1>4. \A e : e # <<Top.user, c>> => (e \in DOMAIN places' <=> e \in DOMAIN places)
  <2>1. CASE places' = addLocation(Top.user, c)
    <3>1. DOMAIN places' = DOMAIN places \union {<<Top.user, c>>}
      BY <2>1, AddIs
    <3> QED
      BY <3>1
  <2>2. CASE places' = deleteLocation(Top.user, c)
    <3>1. DOMAIN places' = DOMAIN places \ {<<Top.user, c>>}
      BY <2>2, DeleteIs
    <3> QED
      BY <3>1
  <2> QED
    BY <1>3, <2>1, <2>2
<1>5. <<Top.user, c>>[1] = Top.user
  OBVIOUS
<1> QED
  BY <1>2, <1>4, <1>5

-----------------------------------------------------------------------------
(***************************************************************************)
(* The accounts.                                                           *)
(***************************************************************************)
Table(t) == (\E n \in Nat : DOMAIN t \subseteq 1..n) /\ t \in [DOMAIN t -> UserBO]

LEMMA Greatest ==
    ASSUME NEW n \in Nat, NEW S, S \subseteq 0..n, S # {}
    PROVE  \E m \in S : \A k \in S : k =< m
<1> DEFINE T == {n - k : k \in S}
<1>1. T \subseteq Nat /\ T # {}
  <2>1. \A k \in S : k \in Nat /\ n - k \in Nat
    OBVIOUS
  <2>2. T \subseteq Nat
    BY <2>1
  <2>3. PICK k : k \in S
    OBVIOUS
  <2> QED
    BY <2>2, <2>3
<1>2. PICK x \in T : \A y \in T : ~(<<y, x>> \in OpToRel(<, Nat))
  <2> HIDE DEF T
  <2> QED
    BY <1>1, WFMin, NatLessThanWellFounded
<1>3. \A y \in T : ~(y < x)
  BY <1>1, <1>2 DEF OpToRel
<1>4. PICK m \in S : x = n - m
  OBVIOUS
<1>5. ASSUME NEW k \in S PROVE k =< m
  <2>1. ~(n - k < n - m)
    BY <1>3, <1>4
  <2>2. k \in Nat /\ m \in Nat
    OBVIOUS
  <2> QED
    BY <2>1, <2>2
<1> QED
  BY <1>5

LEMMA KeyIsNew ==
    ASSUME NEW t, NEW n \in Nat, DOMAIN t \subseteq 1..n
    PROVE  NextKey(t) \in 1..(n + 1) /\ NextKey(t) \notin DOMAIN t
<1> DEFINE S == {0} \union DOMAIN t
<1>1. S \subseteq 0..n /\ S # {}
  OBVIOUS
<1>2. \E m \in S : \A k \in S : k =< m
  <2> HIDE DEF S
  <2> QED
    BY <1>1, Greatest
<1>3. \E m \in S : \A k \in S : m >= k
  BY <1>1, <1>2
<1>4. Max(S) \in S /\ \A k \in S : Max(S) >= k
  <2> HIDE DEF S
  <2> QED
    BY <1>3 DEF Max
<1>5. NextKey(t) = 1 + Max(S)
  BY DEF NextKey
<1> HIDE DEF S
<1>6. Max(S) \in 0..n
  BY <1>1, <1>4
<1>7. NextKey(t) \notin S
  BY <1>4, <1>5, <1>6
<1> QED
  BY <1>5, <1>6, <1>7 DEF S

LEMMA RowAdded ==
    ASSUME NEW db, Table(db.users), NEW r \in UserBO
    PROVE  /\ Table(WithRow(db, r).users)
           /\ \E n : /\ n \notin DOMAIN db.users
                     /\ DOMAIN WithRow(db, r).users = DOMAIN db.users \union {n}
                     /\ WithRow(db, r).users[n] = r
                     /\ \A k \in DOMAIN db.users : WithRow(db, r).users[k] = db.users[k]
<1> DEFINE t == db.users
<1> DEFINE n == NextKey(t)
<1> DEFINE new == [k \in DOMAIN t \union {n} |-> IF k = n THEN r ELSE t[k]]
<1>1. WithRow(db, r).users = new
  BY DEF WithRow, DB
<1>2. PICK b \in Nat : DOMAIN t \subseteq 1..b
  BY DEF Table
<1>3. n \in 1..(b + 1) /\ n \notin DOMAIN t
  <2> HIDE DEF t
  <2> QED
    BY <1>2, KeyIsNew
<1>4. \A k \in DOMAIN t : t[k] \in UserBO
  BY DEF Table
<1> HIDE DEF t, n
<1>5. /\ DOMAIN new = DOMAIN t \union {n} /\ new[n] = r
      /\ \A k \in DOMAIN t : new[k] = t[k]
      /\ new \in [DOMAIN new -> UserBO]
  BY <1>3, <1>4
<1>6. DOMAIN new \subseteq 1..(b + 1) /\ b + 1 \in Nat
  BY <1>2, <1>3, <1>5
<1> HIDE DEF new
<1>7. Table(new)
  BY <1>5, <1>6 DEF Table
<1> QED
  BY <1>1, <1>3, <1>5, <1>7 DEF t

LEMMA RowsRemoved ==
    ASSUME NEW db, Table(db.users), NEW u
    PROVE  /\ Table(NoRows(db, u).users)
           /\ DOMAIN NoRows(db, u).users = {k \in DOMAIN db.users : db.users[k].id # u}
           /\ \A k \in DOMAIN NoRows(db, u).users : NoRows(db, u).users[k] = db.users[k]
<1>1. NoRows(db, u).users = [k \in {k \in DOMAIN db.users : db.users[k].id # u} |-> db.users[k]]
  BY DEF NoRows, Without, Restrict, DB
<1> QED
  BY <1>1 DEF Table

\* new has the rows of old, but perhaps not those of the test users.
Kept(new, old) == \A k \in DOMAIN old : old[k].id \notin TestUsers => k \in DOMAIN new /\ new[k] = old[k]

LEMMA AddedKeeps ==
    ASSUME NEW db, NEW t, Table(db.users), Kept(db.users, t), NEW j \in 1..2
    PROVE  Table(Added(db)[j].users) /\ Kept(Added(db)[j].users, t)
<1> DEFINE r == Row(Test, TestPassword, "Dark")
<1> DEFINE r1 == Row(Test1, TestPassword, "Light")
<1> DEFINE a == WithRow(db, r)
<1>1. r \in UserBO /\ r1 \in UserBO
  BY UsersAssumption, PasswordAssumption DEF Row, UserBO, Theme, TestUsers
<1>2. Added(db)[1] = a /\ Added(db)[2] = WithRow(a, r1)
  BY DEF Added
<1> HIDE DEF r, r1
<1>3. Table(a.users) /\ Kept(a.users, t)
  BY <1>1, RowAdded DEF Kept
<1> HIDE DEF a
<1>4. Table(WithRow(a, r1).users) /\ Kept(WithRow(a, r1).users, t)
  BY <1>1, <1>3, RowAdded DEF Kept
<1> QED
  BY <1>2, <1>3, <1>4

LEMMA ClearedKeeps ==
    ASSUME NEW db, Table(db.users), NEW j \in 1..4
    PROVE  /\ Table(Cleared(db)[j].users) /\ Kept(Cleared(db)[j].users, db.users)
           /\ \A k \in DOMAIN Cleared(db)[4].users : Cleared(db)[4].users[k].id \notin TestUsers
<1> DEFINE a == NoPlaces(db, Test)
<1> DEFINE b == NoRows(a, Test)
<1> DEFINE c == NoPlaces(b, Test1)
<1> DEFINE d == NoRows(c, Test1)
<1>1. a.users = db.users /\ c.users = b.users
  BY DEF NoPlaces, DB
<1>2. Cleared(db) = <<a, b, c, d>>
  BY DEF Cleared
<1>3. /\ Table(b.users) /\ DOMAIN b.users = {k \in DOMAIN a.users : a.users[k].id # Test}
      /\ \A k \in DOMAIN b.users : b.users[k] = a.users[k]
  <2> HIDE DEF a
  <2> QED
    BY <1>1, RowsRemoved
<1>4. /\ Table(d.users) /\ DOMAIN d.users = {k \in DOMAIN c.users : c.users[k].id # Test1}
      /\ \A k \in DOMAIN d.users : d.users[k] = c.users[k]
  <2> HIDE DEF a, b, c
  <2> QED
    BY <1>1, <1>3, RowsRemoved
<1> HIDE DEF a, b, c, d
<1>5. /\ Kept(a.users, db.users) /\ Kept(b.users, db.users) /\ Kept(d.users, db.users)
      /\ \A k \in DOMAIN d.users : d.users[k].id \notin TestUsers
  BY <1>1, <1>3, <1>4 DEF Kept, TestUsers
<1> QED
  BY <1>1, <1>2, <1>3, <1>4, <1>5

\* No statement of buildDataBase takes a row of another user away.
LEMMA StepsKeep ==
    ASSUME NEW t, Table(t), NEW m, NEW k \in DOMAIN BuildSteps(DB(t, m))
    PROVE  Table(BuildSteps(DB(t, m))[k].users) /\ Kept(BuildSteps(DB(t, m))[k].users, t)
<1> DEFINE db == DB(t, m)
<1>1. db.users = t /\ Kept(t, t)
  BY DEF DB, Kept
<1> HIDE DEF db
<1>2. ASSUME NEW j \in 1..4 PROVE Table(Cleared(db)[j].users) /\ Kept(Cleared(db)[j].users, t)
  BY <1>1, ClearedKeeps
<1>3. ASSUME NEW e \in {db, Cleared(db)[4]}, NEW j \in 1..2
      PROVE  Table(Added(e)[j].users) /\ Kept(Added(e)[j].users, t)
  BY <1>1, <1>2, AddedKeeps
<1>4. BuildSteps(db)[k] \in {Cleared(db)[j] : j \in 1..4}
         \union {Added(e)[j] : e \in {db, Cleared(db)[4]}, j \in 1..2}
  BY StepOf DEF db
<1> QED
  BY <1>2, <1>3, <1>4 DEF db

\* What buildDataBase leaves of the test user.
LEMMA ReadyAfter ==
    ASSUME NEW t, Table(t), NEW m
    PROVE  LET steps == BuildSteps(DB(t, m))
           IN  \E n : Matches(steps[Len(steps)].users, Test, TestPassword) = {n}
<1> DEFINE db == DB(t, m)
<1>1. db.users = t
  BY DEF DB
<1> HIDE DEF db
<1>2. ASSUME NEW e, Table(e.users), Matches(e.users, Test, TestPassword) = {}
      PROVE  \E n : Matches(Added(e)[2].users, Test, TestPassword) = {n}
  <2> DEFINE r == Row(Test, TestPassword, "Dark")
  <2> DEFINE r1 == Row(Test1, TestPassword, "Light")
  <2> DEFINE a == WithRow(e, r)
  <2>1. /\ r \in UserBO /\ r1 \in UserBO
        /\ r.id = Test /\ r.password = TestPassword /\ r1.id # Test
    BY UsersAssumption, PasswordAssumption DEF Row, UserBO, Theme, TestUsers
  <2>2. Added(e)[2] = WithRow(a, r1)
    BY DEF Added
  <2> HIDE DEF r, r1
  <2>3. Table(a.users) /\ \E n : Matches(a.users, Test, TestPassword) = {n}
    <3>1. PICK n : /\ n \notin DOMAIN e.users
                   /\ DOMAIN a.users = DOMAIN e.users \union {n}
                   /\ a.users[n] = r
                   /\ \A k \in DOMAIN e.users : a.users[k] = e.users[k]
      BY <1>2, <2>1, RowAdded
    <3>2. Table(a.users)
      BY <1>2, <2>1, RowAdded
    <3> HIDE DEF a
    <3>3. Matches(a.users, Test, TestPassword) = {n}
      BY <1>2, <2>1, <3>1 DEF Matches
    <3> QED
      BY <3>2, <3>3
  <2> HIDE DEF a
  <2>4. Matches(WithRow(a, r1).users, Test, TestPassword) = Matches(a.users, Test, TestPassword)
    <3> DEFINE b == WithRow(a, r1)
    <3>1. PICK n : /\ n \notin DOMAIN a.users
                   /\ DOMAIN b.users = DOMAIN a.users \union {n}
                   /\ b.users[n] = r1
                   /\ \A k \in DOMAIN a.users : b.users[k] = a.users[k]
      BY <2>1, <2>3, RowAdded
    <3> HIDE DEF b
    <3>2. Matches(b.users, Test, TestPassword) = Matches(a.users, Test, TestPassword)
      BY <2>1, <3>1 DEF Matches
    <3> QED
      BY <3>2 DEF b
  <2> QED
    BY <2>2, <2>3, <2>4
<1>3. Table(Cleared(db)[4].users) /\ Matches(Cleared(db)[4].users, Test, TestPassword) = {}
  <2>1. /\ Table(Cleared(db)[4].users)
        /\ \A k \in DOMAIN Cleared(db)[4].users : Cleared(db)[4].users[k].id \notin TestUsers
    <3>1. 4 \in 1..4
      OBVIOUS
    <3> QED
      BY <1>1, <3>1, ClearedKeeps
  <2> QED
    BY <2>1 DEF Matches, TestUsers
<1> DEFINE last == BuildSteps(db)[Len(BuildSteps(db))]
<1>4. last = IF Matches(db.users, Test, TestPassword) = {} THEN Added(db)[2]
             ELSE Added(Cleared(db)[4])[2]
  BY StepOf
<1> HIDE DEF last
<1>5. CASE Matches(db.users, Test, TestPassword) = {}
  BY <1>1, <1>2, <1>4, <1>5 DEF last, db
<1>6. CASE Matches(db.users, Test, TestPassword) # {}
  BY <1>2, <1>3, <1>4, <1>6 DEF last, db
<1> QED
  BY <1>5, <1>6

LEMMA LastMatches ==
    ASSUME NEW t, Table(t), NEW u, NEW p, Matches(t, u, p) # {}
    PROVE  \E k \in DOMAIN t : t[k] \in UserBO /\ t[k].id = u /\ LastMatch(t, u, p) = t[k]
<1>1. PICK n \in Nat : DOMAIN t \subseteq 1..n
  BY DEF Table
<1>2. Matches(t, u, p) \subseteq 0..n
  BY <1>1 DEF Matches
<1>3. \E k \in Matches(t, u, p) : \A j \in Matches(t, u, p) : j =< k
  BY <1>1, <1>2, Greatest
<1> DEFINE k == CHOOSE k \in Matches(t, u, p) : \A j \in Matches(t, u, p) : j =< k
<1>4. k \in Matches(t, u, p)
  BY <1>3
<1>5. LastMatch(t, u, p) = t[k]
  BY DEF LastMatch
<1> HIDE DEF k
<1> QED
  BY <1>4, <1>5 DEF Matches, Table

-----------------------------------------------------------------------------
(***************************************************************************)
(* The invariant: what is shown or kept in the session fits the table.     *)
(***************************************************************************)
\* th is a theme of user u, if u is neither nobody nor a test user.
Themed(u, th, t) == u # None /\ u \notin TestUsers => \E k \in DOMAIN t : t[k].id = u /\ t[k].theme = th

Fitting(t) == {s \in Screen : (s.kind = "main" => s.user \in User) /\ Themed(s.user, s.theme, t)}

Session == [login : User \union {None}, theme : Theme \union {None}]

WeatherInv ==
    /\ Table(users)
    /\ DOMAIN places \subseteq User \X City
    /\ prefs \in Session /\ Themed(prefs.login, prefs.theme, users)
    /\ stack \in Seq(Fitting(users)) /\ stack # <<>>
    /\ kills \in 0..MaxKills

LEMMA InvImplies == WeatherInv => TypeOK /\ ThemeOfUser
<1> SUFFICES ASSUME WeatherInv PROVE TypeOK /\ ThemeOfUser
  OBVIOUS
<1>1. \A k \in DOMAIN stack : stack[k] \in Fitting(users)
  BY DEF WeatherInv
<1>2. \A s \in Screens : s \in Screen /\ Themed(s.user, s.theme, users)
  BY <1>1 DEF Screens, Fitting
<1>3. TypeOK
  BY <1>2 DEF TypeOK, WeatherInv, Table, Session
<1>4. ThemeOfUser
  BY <1>2 DEF ThemeOfUser, Themed
<1> QED
  BY <1>3, <1>4

\* What a step does to the accounts.
LEMMA TableMoves ==
    ASSUME Table(users), [Next]_vars
    PROVE  Table(users') /\ Kept(users', users)
<1>1. ASSUME UNCHANGED users PROVE Table(users') /\ Kept(users', users)
  BY <1>1 DEF Kept
<1>2. ASSUME NEW u \in User, NEW p \in Password, Login(u, p)
      PROVE  Table(users') /\ Kept(users', users)
  <2> DEFINE steps == BuildSteps(DB(users, places))
  <2>1. users' = steps[Len(steps)].users
    BY <1>2 DEF Login, Become
  <2>2. Len(steps) \in DOMAIN steps
    BY StepOf
  <2> QED
    BY <2>1, <2>2, StepsKeep
<1>3. CASE KilledInLogin
  BY <1>3, StepsKeep DEF KilledInLogin, Become
<1>4. ASSUME NEW row \in Registrations, Register(row)
      PROVE  Table(users') /\ Kept(users', users)
  <2> DEFINE db == DB(users, places)
  <2>1. db.users = users /\ users' = WithRow(db, row).users
    BY <1>4 DEF Register, Become, DB
  <2> HIDE DEF db
  <2>2. row \in UserBO
    BY RegistrationsAssumption
  <2> QED
    BY <2>1, <2>2, RowAdded DEF Kept
<1>5. CASE \/ SignUp \/ ToLogin \/ Logout \/ AddClick \/ RemoveClick \/ SaveNothing \/ OpenCity
           \/ Back \/ Recreate \/ UNCHANGED vars \/ \E c \in City \union {None} : Save(c)
  BY <1>1, <1>5 DEF SignUp, ToLogin, Logout, AddClick, RemoveClick, SaveNothing, OpenCity, Back,
     Recreate, Save, vars
<1> QED
  BY <1>2, <1>3, <1>4, <1>5 DEF Next

LEMMA ThemedKept ==
    ASSUME NEW new, NEW old, Kept(new, old), NEW u, NEW th, Themed(u, th, old)
    PROVE  Themed(u, th, new)
BY DEF Kept, Themed

LEMMA FittingKept ==
    ASSUME NEW new, NEW old, Kept(new, old)
    PROVE  Fitting(old) \subseteq Fitting(new)
BY ThemedKept DEF Fitting

-----------------------------------------------------------------------------
(***************************************************************************)
(* The screens.                                                            *)
(***************************************************************************)
LEMMA PlainFits ==
    ASSUME NEW t, NEW k \in {"login", "registration"}
    PROVE  Plain(k) \in Fitting(t)
BY DEF Plain, Fitting, Screen, Themed

LEMMA CityFits ==
    ASSUME NEW t, NEW p \in Session, Themed(p.login, p.theme, t)
    PROVE  CityScreen(p) \in Fitting(t)
<1>1. /\ CityScreen(p).user = p.login /\ CityScreen(p).theme = p.theme
      /\ CityScreen(p).kind = "city" /\ CityScreen(p) \in Screen
  BY DEF CityScreen, Plain, Screen, Session
<1> QED
  BY <1>1 DEF Fitting

LEMMA MainFits ==
    ASSUME NEW t, NEW p \in Session, Themed(p.login, p.theme, t), p.login \in User,
           NEW title \in User \union {None}, NEW map
    PROVE  Main(title, p, map) \in Fitting(t)
<1> DEFINE cities == getUserLocations(map, p.login)
<1>1. cities \in SUBSET City /\ Offer(cities) \in SUBSET (City \union {None})
  BY DEF getUserLocations, Offer
<1>2. Main(title, p, map) =
        [kind |-> "main", title |-> title, user |-> p.login, theme |-> p.theme,
         cities |-> cities, open |-> FALSE, offered |-> Offer(cities), action |-> "add"]
  BY DEF Main
<1> HIDE DEF cities
<1>3. /\ Main(title, p, map).user = p.login /\ Main(title, p, map).theme = p.theme
      /\ Main(title, p, map) \in Screen
  BY <1>1, <1>2 DEF Screen, Session
<1> QED
  BY <1>3 DEF Fitting

\* A screen still fits when its list or its spinner changes.
LEMMA StillFits ==
    ASSUME NEW t, NEW s \in Fitting(t), NEW b \in BOOLEAN, NEW C \in SUBSET City
    PROVE  /\ [s EXCEPT !.open = b] \in Fitting(t)
           /\ [s EXCEPT !.open = b, !.cities = C] \in Fitting(t)
           /\ \A O \in SUBSET (City \union {None}), a \in {"add", "delete"} :
                 [s EXCEPT !.open = b, !.offered = O, !.action = a] \in Fitting(t)
<1>1. ASSUME NEW x \in Screen, x.kind = s.kind, x.user = s.user, x.theme = s.theme
      PROVE  x \in Fitting(t)
  BY <1>1 DEF Fitting
<1>2. s \in Screen
  BY DEF Fitting
<1>3. [s EXCEPT !.open = b] \in Fitting(t)
  BY <1>1, <1>2 DEF Screen
<1>4. [s EXCEPT !.open = b, !.cities = C] \in Fitting(t)
  BY <1>1, <1>2 DEF Screen
<1>5. ASSUME NEW O \in SUBSET (City \union {None}), NEW a \in {"add", "delete"}
      PROVE  [s EXCEPT !.open = b, !.offered = O, !.action = a] \in Fitting(t)
  BY <1>1, <1>2 DEF Screen
<1> QED
  BY <1>3, <1>4, <1>5

\* What the handlers do with a stack of screens from S.
LEMMA StackOf ==
    ASSUME NEW S, NEW p \in Seq(S), p # <<>>
    PROVE  /\ p[Len(p)] \in S
           /\ \A s \in S : /\ <<s>> \in Seq(S) /\ <<s>> # <<>>
                           /\ Append(p, s) \in Seq(S) /\ Append(p, s) # <<>>
                           /\ [p EXCEPT ![Len(p)] = s] \in Seq(S) /\ [p EXCEPT ![Len(p)] = s] # <<>>
           /\ Len(p) # 1 => SubSeq(p, 1, Len(p) - 1) \in Seq(S) /\ SubSeq(p, 1, Len(p) - 1) # <<>>
<1>1. Len(p) \in Nat \ {0} /\ DOMAIN p = 1..Len(p) /\ \A i \in 1..Len(p) : p[i] \in S
  OBVIOUS
<1>2. p[Len(p)] \in S
  BY <1>1
<1>3. ASSUME NEW s \in S
      PROVE  <<s>> \in Seq(S) /\ <<s>> # <<>> /\ Append(p, s) \in Seq(S) /\ Append(p, s) # <<>>
  OBVIOUS
<1>4. ASSUME NEW s \in S
      PROVE  [p EXCEPT ![Len(p)] = s] \in Seq(S) /\ [p EXCEPT ![Len(p)] = s] # <<>>
  <2> DEFINE q == [p EXCEPT ![Len(p)] = s]
  <2>1. q \in [1..Len(p) -> S] /\ DOMAIN q = 1..Len(p)
    BY <1>1
  <2>2. q \in Seq(S) /\ Len(q) = Len(p)
    BY <1>1, <2>1
  <2> QED
    BY <1>1, <2>2
<1>5. ASSUME Len(p) # 1
      PROVE  SubSeq(p, 1, Len(p) - 1) \in Seq(S) /\ SubSeq(p, 1, Len(p) - 1) # <<>>
  <2> DEFINE q == SubSeq(p, 1, Len(p) - 1)
  <2>1. q \in Seq(S) /\ Len(q) = Len(p) - 1
    BY <1>1
  <2>2. q # <<>>
    <3> HIDE DEF q
    <3>1. Len(q) # 0
      BY <1>1, <1>5, <2>1
    <3> QED
      BY <3>1
  <2> QED
    BY <2>1, <2>2
<1> QED
  BY <1>2, <1>3, <1>4, <1>5

LEMMA StackKept ==
    ASSUME NEW S, NEW T, S \subseteq T, NEW p \in Seq(S)
    PROVE  p \in Seq(T)
OBVIOUS

\* What a step does to the session and to the stack, when g are the screens that
\* fit the new table.
PrefsStep == prefs' \in Session /\ Themed(prefs'.login, prefs'.theme, users')

StackStep(g) ==
    \/ UNCHANGED stack
    \/ stack' = Pop /\ Len(stack) # 1
    \/ \E s \in g : stack' \in {Append(stack, s), <<s>>, [stack EXCEPT ![Len(stack)] = s]}

LEMMA ScreensMove ==
    ASSUME WeatherInv, Table(users'), Kept(users', users), [Next]_vars
    PROVE  PrefsStep /\ StackStep(Fitting(users'))
<1> DEFINE F == Fitting(users)
<1> DEFINE G == Fitting(users')
<1>1. /\ F \subseteq G /\ Top \in F
      /\ Top \in G /\ Plain("login") \in G /\ Plain("registration") \in G
  <2>1. Top \in F
    BY StackOf DEF WeatherInv, Top
  <2> QED
    BY <2>1, FittingKept, PlainFits
<1>2. prefs \in Session /\ Themed(prefs.login, prefs.theme, users')
  BY ThemedKept DEF WeatherInv
<1> SUFFICES PrefsStep /\ StackStep(G)
  OBVIOUS
<1> HIDE DEF F, G
<1>3. ASSUME UNCHANGED prefs PROVE PrefsStep
  BY <1>2, <1>3 DEF PrefsStep
<1>4. ASSUME NEW u \in User, NEW p \in Password, Login(u, p) PROVE PrefsStep /\ StackStep(G)
  <2> DEFINE t == users'
  <2>1. \/ UNCHANGED <<prefs, stack>>
        \/ /\ Matches(t, u, p) # {}
           /\ prefs' = [login |-> u, theme |-> LastMatch(t, u, p).theme]
           /\ stack' = Append(stack, Main(u, prefs', places'))
    BY <1>4 DEF Login, Become, Push
  <2>2. CASE UNCHANGED <<prefs, stack>>
    BY <1>3, <2>2 DEF StackStep
  <2>3. CASE /\ Matches(t, u, p) # {}
             /\ prefs' = [login |-> u, theme |-> LastMatch(t, u, p).theme]
             /\ stack' = Append(stack, Main(u, prefs', places'))
    <3>1. PICK k \in DOMAIN t : t[k] \in UserBO /\ t[k].id = u /\ LastMatch(t, u, p) = t[k]
      BY <2>3, LastMatches
    <3>2. prefs' = [login |-> u, theme |-> t[k].theme] /\ t[k].theme \in Theme
      BY <2>3, <3>1 DEF UserBO
    <3>3. prefs' \in Session /\ prefs'.login = u /\ Themed(prefs'.login, prefs'.theme, t)
      BY <3>1, <3>2 DEF Session, Themed
    <3>4. Main(u, prefs', places') \in G
      BY <3>3, MainFits DEF G
    <3> QED
      BY <2>3, <3>3, <3>4 DEF PrefsStep, StackStep
  <2> QED
    BY <2>1, <2>2, <2>3
<1>5. CASE KilledInLogin \/ SaveNothing
  BY <1>1, <1>3, <1>5 DEF KilledInLogin, SaveNothing, Afresh, StackStep
<1>6. CASE SignUp \/ ToLogin
  BY <1>1, <1>3, <1>6 DEF SignUp, ToLogin, Push, StackStep
<1>7. CASE Logout
  <2>1. prefs' \in Session /\ Themed(prefs'.login, prefs'.theme, users')
    BY <1>7 DEF Logout, NoPrefs, Session, Themed
  <2> QED
    BY <1>1, <1>7, <2>1 DEF Logout, Push, PrefsStep, StackStep
<1>8. ASSUME NEW row \in Registrations, Register(row) PROVE PrefsStep /\ StackStep(G)
  BY <1>3, <1>8 DEF Register, StackStep
<1>9. Top.cities \in SUBSET City
  BY <1>1 DEF F, Fitting, Screen
<1>10. CASE AddClick
  <2> DEFINE s == [Top EXCEPT !.open = TRUE, !.offered = Offer(Top.cities), !.action = "add"]
  <2>1. Offer(Top.cities) \in SUBSET (City \union {None})
    BY <1>9 DEF Offer
  <2>2. s \in G
    BY <1>1, <1>9, <2>1, StillFits DEF G
  <2>3. stack' = [stack EXCEPT ![Len(stack)] = s] /\ UNCHANGED prefs
    BY <1>10 DEF AddClick, SetTop
  <2> HIDE DEF s
  <2> QED
    BY <1>3, <2>2, <2>3 DEF StackStep
<1>11. CASE RemoveClick
  <2> DEFINE s == [Top EXCEPT !.open = TRUE, !.offered = Top.cities, !.action = "delete"]
  <2>1. Top.cities \in SUBSET (City \union {None})
    BY <1>9
  <2>2. s \in G
    BY <1>1, <1>9, <2>1, StillFits DEF G
  <2>3. stack' = [stack EXCEPT ![Len(stack)] = s] /\ UNCHANGED prefs
    BY <1>11 DEF RemoveClick, SetTop
  <2> HIDE DEF s
  <2> QED
    BY <1>3, <2>2, <2>3 DEF StackStep
<1>12. ASSUME NEW c \in City \union {None}, Save(c) PROVE PrefsStep /\ StackStep(G)
  <2> DEFINE C == getUserLocations(places', Top.user)
  <2> DEFINE closed == [Top EXCEPT !.open = FALSE]
  <2> DEFINE listed == [Top EXCEPT !.open = FALSE, !.cities = C]
  <2>1. C \in SUBSET City
    BY DEF getUserLocations
  <2>2. /\ stack' \in {[stack EXCEPT ![Len(stack)] = closed], [stack EXCEPT ![Len(stack)] = listed]}
        /\ UNCHANGED prefs
    BY <1>12 DEF Save, SetTop
  <2> HIDE DEF C
  <2>3. closed \in G /\ listed \in G
    BY <1>1, <2>1, StillFits DEF G
  <2> HIDE DEF closed, listed
  <2> QED
    BY <1>3, <2>2, <2>3 DEF StackStep
<1>13. CASE OpenCity
  <2>1. CityScreen(prefs) \in G
    BY <1>2, CityFits DEF G
  <2> QED
    BY <1>3, <1>13, <2>1 DEF OpenCity, Push, StackStep
<1>14. CASE Back
  BY <1>1, <1>3, <1>14 DEF Back, Afresh, StackStep
<1>15. CASE Recreate
  <2>1. CityScreen(prefs) \in G
    BY <1>2, CityFits DEF G
  <2>2. ASSUME prefs.login # None PROVE MainAnew \in G
    <3>1. Top.title \in User \union {None} /\ prefs.login \in User
      BY <1>1, <1>2, <2>2 DEF F, Fitting, Screen, Session
    <3> QED
      BY <1>2, <3>1, MainFits DEF MainAnew, G
  <2>3. /\ UNCHANGED prefs
        /\ \/ prefs.login # None /\ stack' = [stack EXCEPT ![Len(stack)] = MainAnew]
           \/ stack' = <<Plain("login")>>
           \/ stack' = [stack EXCEPT ![Len(stack)] = CityScreen(prefs)]
    BY <1>15 DEF Recreate, SetTop, Afresh
  <2> QED
    BY <1>1, <1>3, <2>1, <2>2, <2>3 DEF StackStep
<1>16. CASE UNCHANGED vars
  BY <1>3, <1>16 DEF vars, StackStep
<1> QED
  BY <1>4, <1>5, <1>6, <1>7, <1>8, <1>10, <1>11, <1>12, <1>13, <1>14, <1>15, <1>16 DEF Next, G

LEMMA PlacesTyped ==
    ASSUME WeatherInv, [Next]_vars
    PROVE  DOMAIN places' \subseteq User \X City
<1>1. CASE Trimmed(places', places)
  BY <1>1 DEF Trimmed, WeatherInv
<1>2. CASE Top.kind = "main" /\ \E c \in City : \/ places' = addLocation(Top.user, c)
                                                \/ places' = deleteLocation(Top.user, c)
  <2>1. Top.user \in User
    <3>1. Top \in Fitting(users)
      BY StackOf DEF WeatherInv, Top
    <3> QED
      BY <1>2, <3>1 DEF Fitting
  <2>2. PICK c \in City : \/ places' = addLocation(Top.user, c)
                          \/ places' = deleteLocation(Top.user, c)
    BY <1>2
  <2>3. DOMAIN places' \subseteq DOMAIN places \union {<<Top.user, c>>}
    <3>1. DOMAIN addLocation(Top.user, c) = DOMAIN places \union {<<Top.user, c>>}
      BY AddIs
    <3>2. DOMAIN deleteLocation(Top.user, c) = DOMAIN places \ {<<Top.user, c>>}
      BY DeleteIs
    <3> QED
      BY <2>2, <3>1, <3>2
  <2> QED
    BY <2>1, <2>3 DEF WeatherInv
<1> QED
  BY <1>1, <1>2, PlacesMove DEF PlacesStep

LEMMA WeatherInit == Init => WeatherInv
<1> SUFFICES ASSUME Init PROVE WeatherInv
  OBVIOUS
<1>1. Table(users)
  BY DEF Init, Table
<1>2. DOMAIN places \subseteq User \X City
  BY DEF Init, EmptyBag, SetToBag
<1>3. prefs \in Session /\ Themed(prefs.login, prefs.theme, users)
  BY DEF Init, NoPrefs, Session, Themed
<1>4. stack \in Seq(Fitting(users)) /\ stack # <<>>
  <2>1. Plain("login") \in Fitting(users)
    BY PlainFits
  <2> QED
    BY <2>1 DEF Init, Afresh
<1>5. kills \in 0..MaxKills
  BY BoundsAssumption DEF Init
<1> QED
  BY <1>1, <1>2, <1>3, <1>4, <1>5 DEF WeatherInv

LEMMA WeatherNext == WeatherInv /\ [Next]_vars => WeatherInv'
<1> SUFFICES ASSUME WeatherInv, [Next]_vars PROVE WeatherInv'
  OBVIOUS
<1>1. Table(users') /\ Kept(users', users)
  BY TableMoves DEF WeatherInv
<1>2. DOMAIN places' \subseteq User \X City
  BY PlacesTyped
<1>3. PrefsStep /\ StackStep(Fitting(users'))
  BY <1>1, ScreensMove
<1>4. stack' \in Seq(Fitting(users')) /\ stack' # <<>>
  <2> DEFINE G == Fitting(users')
  <2>1. stack \in Seq(G) /\ stack # <<>>
    BY <1>1, FittingKept, StackKept DEF WeatherInv
  <2> SUFFICES stack' \in Seq(G) /\ stack' # <<>>
    OBVIOUS
  <2> HIDE DEF G
  <2>2. CASE UNCHANGED stack
    BY <2>1, <2>2
  <2>3. CASE stack' = Pop /\ Len(stack) # 1
    BY <2>1, <2>3, StackOf DEF Pop
  <2>4. ASSUME NEW s \in G, stack' \in {Append(stack, s), <<s>>, [stack EXCEPT ![Len(stack)] = s]}
        PROVE  stack' \in Seq(G) /\ stack' # <<>>
    <3>1. /\ <<s>> \in Seq(G) /\ <<s>> # <<>>
          /\ Append(stack, s) \in Seq(G) /\ Append(stack, s) # <<>>
          /\ [stack EXCEPT ![Len(stack)] = s] \in Seq(G) /\ [stack EXCEPT ![Len(stack)] = s] # <<>>
      BY <2>1, StackOf, Zenon
    <3> QED
      BY <2>4, <3>1, Zenon
  <2> QED
    BY <1>3, <2>2, <2>3, <2>4 DEF StackStep, G
<1>5. kills' \in 0..MaxKills
  <2>1. kills' = kills \/ (kills < MaxKills /\ kills' = kills + 1)
    BY DEF Next, Login, KilledInLogin, SignUp, ToLogin, Logout, Register, AddClick, RemoveClick,
       SaveNothing, OpenCity, Save, Back, Recreate, vars
  <2> QED
    BY <2>1, BoundsAssumption DEF WeatherInv
<1> QED
  BY <1>1, <1>2, <1>3, <1>4, <1>5 DEF WeatherInv, PrefsStep

LEMMA InvHolds == Spec => []WeatherInv
BY WeatherInit, WeatherNext, PTL DEF Spec

-----------------------------------------------------------------------------
\* A city is in the list of a user once, although the table has no key and
\* several screens may offer it (DatabaseHelper 298).
THEOREM PlacesAreOnce == Spec => []PlacesOnce
<1>1. Init => PlacesOnce
  BY DEF Init, PlacesOnce, EmptyBag, SetToBag
<1> QED
  BY <1>1, OnceKept, PTL DEF Spec

\* No login, and no screen left over from another session, changes the list of
\* a registered user (LoginActivity 120-137, MainActivity 119).
THEOREM PlacesAreOwn == Spec => OwnPlaces
<1> DEFINE Own == \A u \in User \ TestUsers :
       {e \in DOMAIN places' : e[1] = u} # {e \in DOMAIN places : e[1] = u}
          => Top.kind = "main" /\ Top.user = u
<1>1. [Next]_vars => [Own]_vars
  <2> SUFFICES ASSUME [Next]_vars PROVE Own
    OBVIOUS
  <2> QED
    BY PlacesMove, OwnStep
<1>2. ([][Own]_vars) => OwnPlaces
  BY PTL DEF OwnPlaces
<1> HIDE DEF Own
<1> QED
  BY <1>1, <1>2, PTL DEF Spec

\* Only cities of users reach the table, never the message of the empty choice nor
\* a city of nobody, and there is always a screen (MainActivity 161-178).
THEOREM TypesHold == Spec => []TypeOK
BY InvHolds, InvImplies, PTL

\* A screen shows a user in a theme of that user: user and theme are written and
\* read one by one, and no login, logout, rotation or rebuilt table parts the two
\* (LoginActivity 82-87, MainActivity 56-69).
THEOREM ThemesAreKept == Spec => []ThemeOfUser
BY InvHolds, InvImplies, PTL

\* However many accounts were registered under its name, and whatever a killed
\* click left behind, a login click leaves one row of the test user
\* (LoginActivity 119-167).
THEOREM TestIsReady == Spec => TestReady
<1> DEFINE Ready == (\E u \in User, p \in Password : Login(u, p))
                       => Cardinality(Matches(users', Test, TestPassword)) = 1
<1>1. WeatherInv /\ [Next]_vars => [Ready]_vars
  <2> SUFFICES ASSUME WeatherInv, NEW u \in User, NEW p \in Password, Login(u, p)
               PROVE  Cardinality(Matches(users', Test, TestPassword)) = 1
    OBVIOUS
  <2> DEFINE steps == BuildSteps(DB(users, places))
  <2>1. users' = steps[Len(steps)].users
    BY DEF Login, Become
  <2>2. \E n : Matches(steps[Len(steps)].users, Test, TestPassword) = {n}
    BY ReadyAfter DEF WeatherInv
  <2> HIDE DEF steps
  <2> QED
    BY <2>1, <2>2, FS_Singleton
<1>2. ([][Ready]_vars) => TestReady
  BY PTL DEF TestReady
<1> HIDE DEF Ready
<1> QED
  BY <1>1, <1>2, InvHolds, PTL DEF Spec
=============================================================================
