----------------------------- MODULE WeatherApp -----------------------------
(***************************************************************************)
(* The weather app of src/CS-427_Weather_App: accounts and their lists of  *)
(* cities in an SQLite database (DatabaseHelper), the session in the       *)
(* shared preferences, and the screens (activities) on the back stack,     *)
(* each with the copies it took of both when it was created.               *)
(*                                                                         *)
(* All handlers run on the main thread, so a handler is one step.  Android *)
(* is external: no activity ever finishes itself, so a screen stays on the *)
(* stack until the user goes back; a change of configuration (a rotation)  *)
(* creates the top screen anew with its old intent; a process that is      *)
(* killed, or ends by an exception, starts again with the login screen and *)
(* may be killed between two statements of a handler.                      *)
(***************************************************************************)
EXTENDS Naturals, Sequences, Bags, FiniteSetsExt

CONSTANTS
    User, Password,              \* what can be typed into the text boxes
    City,                        \* CITY_LIST
    Test, Test1, TestPassword,   \* the accounts that every login click builds
    None,                        \* null, or the message of the empty choice
    Registrations,               \* the rows that are registered
    Depth, MaxRows, MaxKills     \* bounds: screens, rows of users, kills

TestUsers == {Test, Test1}
Theme == {"Dark", "Light"}
UserBO == [id : User, password : Password, theme : Theme]

VARIABLES
    users,   \* USER_TABLE: a function from keys, of which the order counts
    places,  \* USER_LOC_MAP: a bag of pairs of a user and a city
    prefs,   \* the shared preferences: LOGIN-ID and userTheme
    stack,   \* the screens, the one that is seen last
    kills    \* how often the process was killed

vars == <<users, places, prefs, stack, kills>>

ASSUME UsersAssumption == TestUsers \subseteq User /\ Test # Test1 /\ None \notin User
ASSUME PasswordAssumption == TestPassword \in Password
ASSUME CityAssumption == None \notin City
ASSUME RegistrationsAssumption == Registrations \subseteq UserBO
ASSUME BoundsAssumption == Depth \in Nat /\ MaxRows \in Nat /\ MaxKills \in Nat

Row(u, p, t) == [id |-> u, password |-> p, theme |-> t]

NoPrefs == [login |-> None, theme |-> None]

\* A screen: the login of its intent, what it read from the preferences when it
\* was created, userLocations, and the spinner with what a save will do.
Screen == [kind : {"login", "registration", "main", "city"},
           title : User \union {None}, user : User \union {None},
           theme : Theme \union {None}, cities : SUBSET City,
           open : BOOLEAN, offered : SUBSET (City \union {None}),
           action : {"add", "delete"}]

Plain(k) == [kind |-> k, title |-> None, user |-> None, theme |-> None, cities |-> {},
             open |-> FALSE, offered |-> {}, action |-> "add"]

Top == stack[Len(stack)]
OnTop(k) == stack # <<>> /\ Top.kind = k
Push(s) == stack' = Append(stack, s)
Pop == SubSeq(stack, 1, Len(stack) - 1)
Afresh == <<Plain("login")>>

getUserLocations(map, u) == {c \in City : BagIn(<<u, c>>, map)}

\* The spinner for adding: the message and the cities the screen does not list.
Offer(cities) == {None} \union (City \ cities)

\* MainActivity.onCreate, with the preferences p and the table map.
Main(title, p, map) ==
    LET cities == getUserLocations(map, p.login)
    IN  [kind |-> "main", title |-> title, user |-> p.login, theme |-> p.theme,
         cities |-> cities, open |-> FALSE, offered |-> Offer(cities), action |-> "add"]

\* WeatherActivity.onCreate, MapActivity.onCreate
CityScreen(p) == [Plain("city") EXCEPT !.user = p.login, !.theme = p.theme]

-----------------------------------------------------------------------------
(* The database, as a record of its two tables.                            *)

Without(table, u) == Restrict(table, {k \in DOMAIN table : table[k].id # u})
Forget(map, u) == [e \in {e \in DOMAIN map : e[1] # u} |-> map[e]]

Matches(table, u, p) == {k \in DOMAIN table : table[k].id = u /\ table[k].password = p}

\* getUSer walks over all rows that match and keeps the last one.
LastMatch(table, u, p) ==
    table[CHOOSE k \in Matches(table, u, p) : \A j \in Matches(table, u, p) : j =< k]

\* The next key is greater than those of all rows (AUTOINCREMENT).
NextKey(table) == 1 + Max({0} \union DOMAIN table)

DB(t, m) == [users |-> t, places |-> m]
NoPlaces(db, u) == DB(db.users, Forget(db.places, u))
NoRows(db, u) == DB(Without(db.users, u), db.places)
WithRow(db, r) ==
    LET n == NextKey(db.users)
    IN  DB([k \in DOMAIN db.users \union {n} |-> IF k = n THEN r ELSE db.users[k]], db.places)

\* buildDataBase: the database after each of the statements it makes.
Added(db) ==
    LET a == WithRow(db, Row(Test, TestPassword, "Dark"))
    IN  <<a, WithRow(a, Row(Test1, TestPassword, "Light"))>>

Cleared(db) ==
    LET a == NoPlaces(db, Test)
        b == NoRows(a, Test)
        c == NoPlaces(b, Test1)
    IN  <<a, b, c, NoRows(c, Test1)>>

\* (mutant) The test users are added without deleting the old ones.
BuildStepsAdding(db) == Added(db)

BuildSteps(db) ==
    IF Matches(db.users, Test, TestPassword) = {} THEN Added(db)
    ELSE Cleared(db) \o Added(Cleared(db)[4])

Become(db) == users' = db.users /\ places' = db.places

-----------------------------------------------------------------------------
Init ==
    /\ users = <<>>
    /\ places = EmptyBag
    /\ prefs = NoPrefs
    /\ stack = Afresh
    /\ kills = 0

\* LoginActivity.onClick, login button.  The new screen is created after the
\* handler has written the preferences, although startActivity comes first.
Login(u, p) ==
    LET steps == BuildSteps(DB(users, places))
        db == steps[Len(steps)]
    IN  /\ OnTop("login") /\ Len(stack) < Depth
        /\ Become(db)
        /\ \/ /\ Matches(db.users, u, p) = {}
              /\ UNCHANGED <<prefs, stack>>
           \/ /\ Matches(db.users, u, p) # {}
              /\ prefs' = [login |-> u, theme |-> LastMatch(db.users, u, p).theme]
              /\ Push(Main(u, prefs', places'))
        /\ UNCHANGED kills

KilledInLogin ==
    LET steps == BuildSteps(DB(users, places))
    IN  /\ OnTop("login") /\ kills < MaxKills
        /\ \E k \in DOMAIN steps : Become(steps[k])
        /\ stack' = Afresh
        /\ kills' = kills + 1
        /\ UNCHANGED prefs

SignUp ==
    /\ OnTop("login") /\ Len(stack) < Depth
    /\ Push(Plain("registration"))
    /\ UNCHANGED <<users, places, prefs, kills>>

\* RegistrationActivity.onClick; addUSer looks for no other row of the user.
Register(row) ==
    /\ OnTop("registration") /\ Cardinality(DOMAIN users) < MaxRows
    /\ Become(WithRow(DB(users, places), row))
    /\ UNCHANGED <<prefs, stack, kills>>

ToLogin ==
    /\ OnTop("registration") /\ Len(stack) < Depth
    /\ Push(Plain("login"))
    /\ UNCHANGED <<users, places, prefs, kills>>

Logout ==
    /\ OnTop("main") /\ Len(stack) < Depth
    /\ Push(Plain("login"))
    /\ prefs' = NoPrefs
    /\ UNCHANGED <<users, places, kills>>

SetTop(s) == stack' = [stack EXCEPT ![Len(stack)] = s]

AddClick ==
    /\ OnTop("main")
    /\ SetTop([Top EXCEPT !.open = TRUE, !.offered = Offer(Top.cities), !.action = "add"])
    /\ UNCHANGED <<users, places, prefs, kills>>

RemoveClick ==
    /\ OnTop("main")
    /\ SetTop([Top EXCEPT !.open = TRUE, !.offered = Top.cities, !.action = "delete"])
    /\ UNCHANGED <<users, places, prefs, kills>>

\* (mutant) addLocation without the query for the same row.
addLocationAgain(u, c) == places (+) SetToBag({<<u, c>>})

addLocation(u, c) ==
    IF BagIn(<<u, c>>, places) THEN places ELSE places (+) SetToBag({<<u, c>>})

\* (mutant) The row is deleted by its city alone.
deleteLocationOfAll(u, c) == [e \in {e \in DOMAIN places : e[2] # c} |-> places[e]]

deleteLocation(u, c) == [e \in DOMAIN places \ {<<u, c>>} |-> places[e]]

\* (mutant) The message of the empty choice is not told from a city.
SaveAnything(c) ==
    /\ OnTop("main") /\ Top.open /\ c \in Top.offered
    /\ places' = (IF Top.action = "add" THEN addLocation(Top.user, c)
                  ELSE deleteLocation(Top.user, c))
    /\ SetTop([Top EXCEPT !.open = FALSE,
                          !.cities = getUserLocations(places', Top.user)])
    /\ UNCHANGED <<users, prefs, kills>>

\* saveLocation with c chosen.
Save(c) ==
    /\ OnTop("main") /\ Top.open /\ c \in Top.offered
    /\ \/ /\ c = None
          /\ SetTop([Top EXCEPT !.open = FALSE])
          /\ UNCHANGED places
       \/ /\ c # None
          /\ places' = (IF Top.action = "add" THEN addLocation(Top.user, c)
                        ELSE deleteLocation(Top.user, c))
          /\ SetTop([Top EXCEPT !.open = FALSE,
                                !.cities = getUserLocations(places', Top.user)])
    /\ UNCHANGED <<users, prefs, kills>>

\* A save with an empty spinner: getSelectedItem() is null, and the app ends.
SaveNothing ==
    /\ OnTop("main") /\ Top.open /\ Top.offered = {}
    /\ stack' = Afresh
    /\ UNCHANGED <<users, places, prefs, kills>>

OpenCity ==
    /\ OnTop("main") /\ Top.cities # {} /\ Len(stack) < Depth
    /\ Push(CityScreen(prefs))
    /\ UNCHANGED <<users, places, prefs, kills>>

Back ==
    /\ stack' = IF Len(stack) = 1 THEN Afresh ELSE Pop
    /\ UNCHANGED <<users, places, prefs, kills>>

\* (mutant) The user is taken from the intent and the theme from the preferences.
MainAnewOfTitle == Main(Top.title, [prefs EXCEPT !.login = Top.title], places)

MainAnew == Main(Top.title, prefs, places)

\* onCreate of the same screen.  Without a session the query for the cities of
\* MainActivity is given null, and the app ends.
Recreate ==
    /\ \/ /\ OnTop("main") /\ prefs.login # None
          /\ SetTop(MainAnew)
       \/ /\ OnTop("main") /\ prefs.login = None
          /\ stack' = Afresh
       \/ /\ OnTop("city")
          /\ SetTop(CityScreen(prefs))
    /\ UNCHANGED <<users, places, prefs, kills>>

Next ==
    \/ \E u \in User, p \in Password : Login(u, p)
    \/ KilledInLogin
    \/ SignUp \/ ToLogin \/ Logout
    \/ \E row \in Registrations : Register(row)
    \/ AddClick \/ RemoveClick \/ SaveNothing \/ OpenCity
    \/ \E c \in City \union {None} : Save(c)
    \/ Back \/ Recreate

Spec == Init /\ [][Next]_vars

-----------------------------------------------------------------------------
Screens == {stack[k] : k \in DOMAIN stack}

\* The tables hold rows about users and cities, and there is always a screen.
TypeOK ==
    /\ DOMAIN users \subseteq Nat \ {0} /\ users \in [DOMAIN users -> UserBO]
    /\ DOMAIN places \subseteq User \X City
    /\ prefs \in [login : User \union {None}, theme : Theme \union {None}]
    /\ stack # <<>> /\ Screens \subseteq Screen
    /\ kills \in 0..MaxKills

\* DatabaseHelper 298: "adds a location for a given user id only if it doesn't
\* exist".  The table has no key, and two screens of one user may both offer the
\* city, since a screen that comes back into view keeps its old list.
PlacesOnce == \A e \in DOMAIN places : places[e] = 1

\* The list of a registered user changes by that user's own screen only: not by
\* another's login, which rebuilds the test users, nor by a screen that was left
\* on the stack under another session.
OwnPlaces ==
    [][\A u \in User \ TestUsers :
          {e \in DOMAIN places' : e[1] = u} # {e \in DOMAIN places : e[1] = u}
             => Top.kind = "main" /\ Top.user = u]_vars

\* A screen shows a user in a theme of that user, through logouts, other logins
\* and recreation (the two are read from the preferences one by one).
ThemeOfUser ==
    \A s \in Screens : s.user # None /\ s.user \notin TestUsers =>
        \E k \in DOMAIN users : users[k].id = s.user /\ users[k].theme = s.theme

\* A login click leaves one row for the test user and its password, whatever
\* was registered, and whatever a killed click has left behind.
TestReady ==
    [][(\E u \in User, p \in Password : Login(u, p))
          => Cardinality(Matches(users', Test, TestPassword)) = 1]_vars

\* MainActivity 75: "The list of locations should be customized per user".  The
\* user whose list a screen shows is the one its title names.
ListOfTitle == \A s \in Screens : s.kind = "main" => s.user = s.title
=============================================================================
