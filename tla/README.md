# A verification of UIUC_Projects

`src/` holds the projects of several courses. They are separate programs, so
the specifications are too, one family of modules per program. The paths below
are relative to `src/`.

## 1. The system

| part | source | state it keeps | operations | what is hard |
|---|---|---|---|---|
| Unicast router: link state | `CS-435_MPs/Unicast Routing/monitor_neighbors.h` | per router: the last time each node was heard, a table of LSAs (cost, sequence number, up or down) for every link of every node | `initialize`, `heartBeat`, `announceLSA`, and `listenForNeighbors` for heartbeats and LSAs | three threads, of which one sends without the lock; UDP that loses, repeats and reorders; restarts that reset the numbers; clocks that are only read when a packet comes |
| Unicast router: routes | the same, `dijkstra` | a priority queue, `visited`, `destMap` | one turn of the loop | ties decided by the queue's order, outdated entries, repair of the first hop |
| Unicast router: data packets | the same, `listenForNeighbors` for `send` and `mend` | packets in flight; no hop count | check the links, compute the routes, deliver, drop or hand on | routers that disagree form loops; routes used after a change |
| Heroes lambda | `CS-498_MPs/Aurora and ElastiCache/CODE/package/lambda_function.py`, `doc.txt` | a table with a primary key, a cache with entries that expire | `read`, `write`, with or without the cache | invocations side by side; two stores and no transaction over both |
| Weather app: accounts and screens | `CS-427_Weather_App/app/src/main/java/edu/uiuc/cs427app/` (`DatabaseHelper`, `LoginActivity`, `MainActivity`, `RegistrationActivity`) | tables of users and of their cities, the session, the back stack of screens with copies of both | login, register, log out, add and delete a city; back, rotation, kill | stale screens of an earlier session; a kill between statements; tables without keys |
| Weather app: weather and map | the same, `WeatherActivity`, `MapActivity`, `HttpUtils`, `JsonParser` | none but the screen | fetch in a thread, show through a `Handler` | answers after the screen is gone, or twice |
| HTTP client | `CS-435_MPs/Http Client/client.cpp` | a receive buffer, the text received, the output file | one request | a buffer that keeps old contents, connections that end early or never |
| Keyworld: searches, similar keywords | `CS-411_University Dashboard/Dash/` (`pages/keyword.py`, `pages/home.py`, `components/similar_keyword.py`, `utils/`) | `keyword_search` in MySQL, relations in Neo4j | a page request records a search and adds relations | check and create without a transaction, a session shared by threads |
| Keyworld: profile pages and networks | the same, `pages/faculty.py`, `affiliation.py`, `publication.py`, `utils/neo4j_utils.py` | none that lasts; variables carried from row to row | draw a network from the rows of a query | rows in any order, profiles that are not there |
| Keyworld: widgets, layout | the same, `components/graph.py`, `app.py` | none | queries and layout | |
| Redis client: calls and pool | `CS-498_MPs/Aurora and ElastiCache/CODE/package/redis/` (`client.py`, `connection.py`, `retry.py`), used by the lambda | connections that are available or in use, their sockets | `execute_command`: take a connection, send, read, try again, give it back | threads share the pool; time-outs, late replies, retries, interrupts |
| Redis client: lock | the same, `lock.py` | a key with a token and an expiry, each thread's token | `acquire`, `release` | keys that expire under their holder, replies that get lost |
| Seed service, chatbot, Flask and other exercises | `CS-498_MPs/...` | at most one variable | one request | |

The router's parts share tables: the link-state handlers write them, `dijkstra`
reads them, the data handlers call both. Routers meet only through UDP. The
lambda's invocations meet only in the table and the cache, the app's screens in
the database and the preferences, Keyworld's requests in two databases and one
Neo4j session. The lock calls the client, the client the pool, and the threads
meet in the pool and in the server's key.

What makes each part correct:

* link state: an LSA's number fixes what it says; nobody knows more about a link
  than its owner; copies never go back; the tables converge to the truth after
  the last fault;
* routes: the loop ends, with the distances, and with next hops that lie on
  cheapest ways; the result does not hang on the order of equal entries;
* data packets: only neighbours that are heard are used; routers that agree form
  no loop; packets leave the network, and arrive when they can;
* heroes: every written hero has an id of its own in the table; cache and answers
  show nothing under an id that nobody has announced there; what is wrong passes;
* weather app: a user's list changes by that user's screens only and has no
  doubles; the test accounts survive whatever happened before; a screen belongs
  to one user;
* HTTP client: nothing received is lost, the exit status tells whether the file is
  the body, and the client ends when the server does;
* Keyworld: a page that is shown is complete, relations are sound whatever
  runs at the same time, every page counts, networks join what their rows join;
* Redis client: a connection is in one hand and never lost, a reply answers
  the caller's own command, a command is carried out at most once per attempt; a
  lock is held until it expires, and is orphaned only by a failed attempt; calls
  end, except an acquire past which others get the lock again and again.

`PROJECT.json` lists every part under `components` and, under `hazards`, each
hard place at its line with the properties that watch over it.

## 2. The modules

| module | role |
|---|---|
| `Flooding` | what the exchange of LSAs promises, without clocks, packets or a network |
| `LinkState` | the link-state half of the router, with its faults, and that it implements `Flooding` |
| `LinkStateMC` | a network of two routers |
| `LinkStateProofs` | theorems on `LinkState` |
| `ShortestPaths` | what routes are, without the algorithm |
| `Dijkstra` | the loop of `dijkstra()` |
| `DijkstraMC` | small graphs |
| `DijkstraProofs` | the loop invariant, what `RouteTable` is, and that the loop computes it |
| `Forwarding` | data packets; EXTENDS `LinkState` and `ShortestPaths`, with the routes as a parameter |
| `ForwardingMC` | a line of three routers |
| `ForwardingProofs` | `Forwarding` implements `LinkState`; no loops in agreement |
| `HeroCache`, `HeroCacheMC`, `HeroCacheProofs` | the heroes lambda; a reader and two writers |
| `WeatherApp`, `WeatherAppMC`, `WeatherAppProofs` | the weather app's accounts and screens |
| `Network` | the builders of Keyworld's networks, as loops over the rows |
| `Keyworld`, `KeyworldMC`, `KeyworldProofs` | Keyworld's pages as requests side by side; EXTENDS `Network` |
| `HttpClient`, `HttpClientMC`, `HttpClientProofs` | one run of the HTTP client |
| `RedisCall` | what a call of the Redis client promises, without connections |
| `RedisPool` | the pool, the connections and the retries of `execute_command` |
| `RedisLock`, `RedisLockMC` | the lock; EXTENDS `RedisPool` and shows that it implements `RedisCall` |
| `RedisLockProofs` | the leases of the pool, the refinement, and the lock on top of it |

Definitions marked `(mutant)` are wrong on purpose: each is a likely bug in the
definition that follows it. Put in its place, it makes the property that
`PROJECT.json` names under `mutants` fail.

### LinkState

`lsdb[i]` is `globalLSATicket` of router `i`, one LSA per directed link.
`heard[i]` stands for `globalLastHeartbeat`: the nodes heard within the 700 ms of
line 558. Time itself is not modelled; `Silence` lets 700 ms pass without a
packet from a neighbour. `net` holds LSA packets.

`listenForNeighbors` is one action per kind of packet (`ReceiveHeartbeat`,
`ReceiveLSA`, `ReceiveMend`, `ReceiveSend`). Each first notes who was heard
and checks the own links (lines 533-583: `Arrival`, `Refresh`), then does its own
part (`Learn`, `Install`), because the code does so for every packet, of whatever
kind. The listener handles one packet at a time with `mtx` held, so a handler is
a step. `announceLSA` does not take `mtx`: with `TornReads` a step that rewrites
an LSA may also send one whose fields are half old, half new (`SentTorn`, `TornPackets`).

`heartBeat` sends to all 256 addresses, so a heartbeat may arrive over any wire
that works, and no packet is kept for it. External: `main` (not in the
repository; how it starts the clocks is `BootAsHeard`), UDP, the wires, and
restarts after the `exit(1)` of line 524.

### Flooding

`copy[i][l]` is what a router holds for a link. The owner's own copy is the last of
what it has said, `Said(l)`: it begins with `First[l]` and goes on one number at a
time, each time with the other side (`Later`). The others take over something
that was said and is newer than what they hold. `LinkState` implements this
(`Flood`, `FloodKept`) with `lsdb` for `copy`. A handler's step is one step of
`Flooding`, in which a router may speak about several of its own links and learn
about one other.

### ShortestPaths, Dijkstra

`Dijkstra` has a step per turn of the loop of lines 224-283: `Skip` for an
outdated entry, `Expand` for the rest. The queue is a bag; `Top` may yield any
entry of least cost, since `dCompare` looks at the cost alone. The graph is
fixed, because the listener computes with `mtx` held. `Inf` is the initial
`visited`, 2^30 in the code. The wrap-around of `int` is not modelled.

`ShortestPaths` says what a table of routes is in two ways. `RouteTable` is
recursive: `Distance` goes through the ways of at most `k` links, one link more at
a time, and of the neighbours with which a cheapest way begins the table takes the
least. `IsRouting` needs no recursion: a distance is the greatest value a potential
can have that rises along no link by more than its cost; the next hop may be any
that begins a cheapest way. `Routing` says that the loop ends with some such table,
which is what `Forwarding` asks for; `Result` says that it ends with `RouteTable`. Run
`routes` checks both and `DijkstraProofs` proves both.

### Forwarding

`data` holds data packets. `Send` and `Forward` are the handlers of `send` and
`mend`: `Arrival` as above, then `RoutesAt` on the table just checked, then
`Onward`. `globalUpdate` is never reset, so the routes are computed for every data
packet and are not state. `Routes` is a constant with the assumption that it is
a routing (`RoutesAssumption`), which `DijkstraProofs!RoutesComputed` establishes
of the loop and `RouteTableRoutes` of `RouteTable`, which TLC is given.

### HeroCache

An action per statement that is sent out: `Query`, `GetIdx`, `Insert` (with its
commit) to the database, `Hit` or `Miss` for `Cache.get`, `Fill` and `Put` for
`Cache.setex`. `snap` is what the invocation's queries see: pymysql leaves
autocommit off, so the first query opens a transaction that a reader never
ends. A writer's commit ends its own, so every `GetIdx` looks afresh. `Duplicate`
is the error that the primary key of `doc.txt` raises. It ends the invocation.
`Crash` covers time-outs and a database that cannot be reached. `Invoke` calls the
function again once it has ended, with a connection of its own (line 86 is in the
handler): only reads come again, but without end, so the cache never just empties
and `CacheHeals` is asked of entries that are put again and again. `Expire` is the
cache's TTL. An entry is a list of rows if a query has set it, and a bare hero if
a write has; the model keeps the two shapes.

### WeatherApp

A screen on `stack` is a record of what an activity's fields hold: the login of
its intent, the user and theme it read from the preferences, its list of cities,
and the spinner with what it offers and what Save will do. All handlers run on
the main thread, so each is a step. `BuildSteps` lists the states of the database
after each statement of `buildDataBase`; `Login` takes the last of them and
`KilledInLogin` any of them. Android is external: no activity calls `finish()`, so
screens stay until the user goes back, a rotation creates the top screen anew
with its old intent (`Recreate`), and after a crash or a kill the app starts with
the login screen alone. `users` is a function from the keys that SQLite gives the
rows, a new key being greater than those there are (`NextKey`); only their order is
used, by `getUSer`, which keeps the last row that matches.

Left out: the city table, which each login click refills with the same list, the
user's display name, and what the weather and map screens fetch.

### Network, Keyworld

A visitor of `Keyworld` is a browser with at most one request at a time. `at[v]`
is where its request is or what it looks at; each query of a page is an action
(`InsertSearch`, `Widgets`, `Match`, `Detect`, `Create`, `Read`), because no
transaction spans two of them. `Detect` and `Create` are the check and the
creation of `update_all_keyword_in_graphdb`, one pair of keywords after the
other; between them any other request may create the same relation. `rels` counts
relations, since Neo4j keeps doubles. `NameOf` is what a name becomes on its way
through the slug of the URL (a `+` is lost), `Similar` what the RLIKE query
matches: a name with brackets does not match itself, and its page fails.

`SessionClashes` is the shared session of `neo4j_utils.py:13`: when two requests
are at the graph, a query may raise, with or without its effect. `DatabaseFails`
is any query that raises. Both end the request with an error page, which the
visitor may load again.

`Network` has the loops of `neo4j_utils.py` as recursive functions on the number
of rows, `pid` and `kid` included, which outlive the row they come from.
`Keyworld` feeds them with answers of the databases, of which `AnswerAssumption`
says what the queries guarantee: a list of rows (`IsRows`), or of paths that go from
publication to keyword by turns and begin and end with a publication (`IsPath`).
Nothing makes names and titles unique, so no more is assumed: a neighbour may be the
center itself, and a path may end at a namesake of the center, begin at the center
or lead through it. `AtCenter` does not set `pid`, so `AtTopic` then joins the
keyword that follows to a publication passed before, perhaps in an earlier row, or
to the 0 that `pid` starts with. `WebTrue` says that this is all that goes wrong (see
the disagreements below). `OpenFaculty` fails for a professor without relatives, as
`result[0]` does.

### HttpClient

One action per system call of `main`: `Connect` (or `TryNext`, `NoConnection`),
`Recv`, `RecvFails`, `Finish`. A symbol stands for the bytes that `main` looks for
together: a status, a length line, the end of the header, "404" in a body, a zero
byte, or anything else. What matters is kept: `recv` writes over the front of
`buf` only, `append(buf)` goes up to the first zero byte (`CString`), wherever that
is, and what `buf` holds at first and what lies behind it are left open
(`Stack`, `Beyond`). `place` is a history: where in the text each symbol received
was put, so that "nothing is lost" can be said of every symbol at its place. `Judge` is lines 157 to 194. The server is external: it answers
in pieces, may close the connection early and may reset it.

### RedisCall, RedisPool, RedisLock

`RedisPool` has the threads of a process in `execute_command`. `pc[t]` goes through
`get_connection` (`Take`, `Make` or `TooMany`, then `Ready`, `Reconnect` or
`CheckFails`), `Send`, `Read` and `Release`; the pool's own steps hold its lock and
are atomic, the rest interleaves. A socket carries commands one way and replies
the other. A socket that is given up may still have commands on it, which the
server carries out later (`flying`, `ServeLate`). `Failed` is `Retry`: another
attempt or the end of the call. `Interrupt` stands for exceptions that are no
`Exception`: `read_response` does not disconnect for them and the `finally` of
`execute_command` gives the connection back as it is. They are modelled inside the
`try` blocks only: one between them (`connection.py` 1437-1439, `client.py`
1255-1257), or while `release` waits for the pool's lock, loses the connection in
the code, and `Leases` does not speak of it.

`RedisLock` puts `acquire` and `release` on top: `SET NX PX` and the script that
compares tokens, for one `Lock` object with `thread_local` tokens. `lapsed`, `got`,
`broken` and `spoiled` are histories: the tokens whose key has expired, the replies
to the command at hand, the commands of which an attempt has failed, and whether a
reading thread was interrupted.

`RedisCall` says what a caller may rely on: during a call its command is carried
out at most once per attempt, an attempt that was given up may be carried out
later, and what is returned is a reply to the caller's own command or an error.
The refinement (`Calls`, `CallsKept`) maps the call to `command` and the number of
executions that may still come to `Due`: what is flying, what is on open sockets
and the attempts that are left. After an interrupt of a reading thread the promise
about replies is given up (`spoiled`), because the next command on that connection
may be answered by the old reply: `can_read` sees only what has arrived. `CallsKept`,
`HeldUntilLapsed` and `NoOrphans` say nothing of what happens from then on.

## 3. The runs

| run | asks | bounds |
|---|---|---|
| `pair` | two routers from their start, every pair of faults (loss, duplicate, silence, cut, restart): `TypeOK`, `SeqFixesContent`, `Agreement`, `Converges` | 2 faults, 1 LSA packet in flight |
| `torn` | *violation* of `Converges` by a torn LSA | 2 routers |
| `routes` | `LoopInv`, `Result`, `Routing`, `Ends` | all directed graphs of 3 nodes with costs 1 and 3, all symmetric networks of 4 nodes with costs 1 and 2, limit 5 |
| `forward` | `RoutesDescend`, `NextHopHeard`, `OwnerAhead`, `OwnLinkFollowsHeard`, types, and `FloodKept`, the refinement | 3 routers in a line, a link 1-3 that only the cost files know, 1 fault, 1 LSA and 1 data packet |
| `forward_live` | `DataLeaves`, `Delivers`, `Converges`, `OwnLinksSettle` | the same line; loss, restart or silence |
| `hero` | `WritesLand`, `CacheHonest`, `CacheHeals` | a reader of two ids that is called again without a bound, writers of one and of two heroes, 4 ids |
| `weather` | `TypeOK`, `PlacesOnce`, `ThemeOfUser`, `OwnPlaces`, `TestReady` | 3 users, 1 city, 4 screens, 3 rows before a registration, 1 kill |
| `weather_title` | *violation* of `ListOfTitle` | the same |
| `keyworld` | `ShownComplete`, `RelationsSound`, `EveryPageCounts`, `NetworkTrue`, `ListFull`, types | 2 visitors, 4 keywords, 2 seconds, 1 failing query, lists of 6 rows, 1 or 2 of 3 paths |
| `client` | `NothingLost`, `ExitZeroExact`, `EndsWhenClosed` | a buffer of 2 symbols with 3 first contents, 9 answers with bodies of up to 3 symbols |
| `client_short` | *violation* of `ZeroMeansAll` | the same |
| `redis` | `Leases`, `HeldUntilLapsed`, `NoOrphans`, `LockingEnds`, and `CallsKept`, the refinement | 2 threads that acquire without a bound, a pool of 1 or 2 connections, 1 retry, 1 fault |

Why the bounds are enough to meet the hazards:

* **pair.** Two faults are a restart of each router, a restart while old LSAs are
  still about, or a cut of a wire and a late LSA. Numbers need no bound: each
  change of a link costs a fault or ends a cut. One cost file names the
  neighbour and the other does not, so both ways of learning a link occur. With two
  LSA packets in flight the same run has 934,140 states and no error, but takes
  about five minutes, so the configuration keeps one; `forward` has duplicates of
  data packets and relays.
* **forward.** Three in a line is the least network with a relay, and the phantom
  link is what makes routers 1 and 2 each take the other for the way to 3. These
  runs start when the flooding after the start is over, a state that is reachable
  from `Init` and from which the tables are all filled; `pair` starts from `Init`.
  `OwnLinksSettle` is asked here and not of two routers: the phantom link has to go
  down while router 1 keeps hearing router 2, and a link taken down by a silence or
  brought back by a restart has to come back up.
* **routes.** Ties between ways of one, two and three links need four nodes;
  limit 5 lets ways reach it, as 2^30 would in the code.
* **hero.** Two writers collide in an id, the second hero of the one falls on the
  first of the other, and the reader's query may lie on either side of them, or
  before both while it fills the cache after both. The reader comes again without
  a bound.
* **weather.** Four screens hold two sessions: login, main, login, main. Doubles
  and foreign deletions need one city only.
* **keyworld.** Two visitors suffice for a relation that is created twice. A keyword
  with three neighbours has them all on its list of six rows, as long as no
  relation is doubled; with two doubled ones the third is cut off, and with a
  relation made three times over a list could be one keyword long, which `ListFull`
  refuses. Two seconds let a keyword be searched twice and then count twice. The
  four keywords are two forms of a word, one with a `+` and one that does not match
  itself. One path or two, in any order, end at the center, begin at it, or lead
  through it to a namesake, so that `pid` is used after its row, and also before it
  was ever set. The visitors are alike, so the run takes them for symmetric; all six
  properties are about safety.
* **client.** Bodies of three symbols take two pieces through a buffer of two, so a
  short piece falls on a longer one, and a full one leaves no zero byte.
* **redis.** With a limit of one the second thread finds the pool full, with two it
  gets a connection of its own or the one just given back. One fault is enough for a
  lost reply, a retry, a late execution and an interrupt each; a second one takes
  the state space from 293,056 states into the millions. Tokens are uuids; when
  one is nowhere any more, in the key, with its thread or on the way to the server,
  the next acquire of that thread may as well draw it again (`Recycle`), so that a
  thread acquires as often as it likes with one token (`MaxRounds`). The theorems
  are on `Spec`, where every acquire draws a new one out of any number.

Deadlock is checked except where the program ends: `routes` (the loop ends) and the
`client` runs (`main` returns).

### Fairness

* **LinkState, Forwarding.** `heartBeat` and `announceLSA` loop for ever with a sleep
  of 300 ms, so heartbeats keep arriving over live wires, and a packet that is not
  lost arrives (weak fairness). Of `announceLSA` only this is assumed: a router
  that holds something its neighbour lacks sends some such thing in the end. It is
  strong fairness, because `MaxInFlight`, which the program does not have, disables
  the action now and then. A router that cannot be heard falls silent, as time
  passes. Nothing is assumed of faults, repairs or the manager. Faults are finite
  by `MaxFaults`, so "in the end" means after the last one. `DataLeaves` and
  `Delivers` have their further premises in their statement: losses and
  duplicates of data packets stop (`Quiet`), and for `Delivers` the manager keeps
  asking.
* **Dijkstra.** The loop goes on.
* **HeroCache.** An invocation goes on until it ends; entries that are due expire.
  Nothing obliges anybody to call again.
* **WeatherApp, Keyworld.** None. They have safety properties only: nothing obliges
  a user.
* **HttpClient.** `main` goes on whenever the server lets it. Nothing obliges the
  server to answer or to close, so `EndsWhenClosed` has the closing as its premise.
* **RedisLock.** Threads in a call go on (one that holds the lock may keep it), the
  server serves what it has received on open sockets, and keys expire. Commands of
  sockets that were given up may stay on their way for ever. The polling of `acquire`
  (`lock.py`, 205-215) is not fair: with a thread that comes back again and again
  "every acquire ends" is false, as the run shows when it is asked so. `LockingEnds`
  therefore says that every release ends, and an acquire unless some other thread
  gets the lock for ever anew.

### What the violations show

1. `torn`: a torn LSA carries the new number with the old side of the link. The true
   LSA has the same number and is refused (line 650), so the receiver stays wrong.
2. `weather_title`: A logs in and out, B logs in, the user goes back twice to A's
   screen and rotates the device. The title comes from the intent (A), the list
   and its edits from the preferences (B). Line 76 wants the list per user.
3. `client_short`: the buffer is appended up to its first zero byte, so old bytes
   are counted as body. When the server closes early and as many are added as are
   missing, the length check of line 177, "check if received all the msg" (line
   158), passes and `main` returns 0 with a wrong body.

Disagreements noticed on the way that no run is spent on:

* the clocks are read only when a packet arrives, so a router that hears nobody
  never takes a link down, against lines 26-28 of `monitor_neighbors.h`;
* the cost 1 of a link learned from a heartbeat is a placeholder (line 602) that
  nothing ever updates;
* `lambda_function.py:74` says "write through strategy", but the cache is written
  before the table and the table may refuse; a reader may put an earlier, empty
  result over what a writer has put;
* `acquire` of the Redis lock may return False, or wait, although an attempt whose
  reply was lost has set the key to its own token; the key then stays until it
  expires (`NoOrphans` names exactly this case);
* a connection whose reader was interrupted goes back to the pool with a reply
  under way;
* `neo4j_utils.py` finds nodes by their names and titles, which nothing keeps
  apart. Of two people with one name, the relatives of the one are drawn at the
  other. Of two publications with one title, the first is the center and a path may
  end at the second; if it begins at the center or leads through it, the keyword
  after the center is joined to another publication, or to a node 0 that is not
  there, for `pid`, the "Temp Storage of last node's id" (line 90), is not set at the
  center (lines 115-118) and line 123 draws from it.

## 4. What is proved

For every network, cost file, number of faults and of packets, and with no
assumption beyond the named ones of the modules:

| theorem | says |
|---|---|
| `LinkStateProofs!TypeCorrect` | `TypeOK`; inductive by itself |
| `NumberFixesLSA`, `SameNumberSameLSA` | without torn reads, `SeqFixesContent` and `Agreement` |
| `OwnerIsAhead` | without restarts, `OwnerAhead`, torn reads or not |
| `TablesAdvance`, `OwnHearingOnly` | without restarts, `CopiesAdvance` and `OwnLinkFollowsHeard` |
| `RunningOwnerAhead`, `RunningTablesAdvance`, `RunningOwnHearing` | the same three for any set of routers that go on running, while the others may be restarted at any time |
| `RunningRoutersFlood`, `LSAsFlood` | without torn reads, any routers that go on running implement `Flooding` among themselves; without restarts all do (`FloodKept`) |
| `RestIsAgreement` | without torn reads, when no router has news for another in reach, those that can reach each other agree |
| `DijkstraProofs!LoopCorrect` | `LoopInv` for every set of nodes, every graph with natural costs and every limit |
| `RoutesComputed` | `Routing`: when the queue is empty, `destMap` is a routing |
| `LeastRoutes` | `Result`: when the queue is empty, `destMap` is `RouteTable`, whatever the order of the ties |
| `DistanceIsGreatest` | the recursive `Distance` is the greatest potential |
| `RouteTableRoutes` | `RouteTable` is a routing: `RoutesAssumption` of `Forwarding` can be met for every graph |
| `ForwardingProofs!ForwardingKeepsLinkState` | `ForwardSpec` implements `LinkState!Spec`, so the theorems above hold of it |
| `NoLoopsInAgreement` | `RoutesDescend`, for positive costs and without torn reads |
| `NextHopsAreHeard` | `NextHopHeard`, without torn reads |
| `ForwardTypes` | `ForwardTypeOK`, torn reads or not |
| `HeroCacheProofs!WritesAreKept`, `CacheIsHonest`, `TypesHold` | `WritesLand`, `CacheHonest` and `TypeOK` for any invocations and requests |
| `WeatherAppProofs!PlacesAreOnce`, `PlacesAreOwn` | `PlacesOnce` and `OwnPlaces` for any users, cities and depth of the stack |
| `TypesHold`, `ThemesAreKept`, `TestIsReady` | `TypeOK`, `ThemeOfUser` and `TestReady` for any users, registrations, depth and number of kills |
| `KeyworldProofs!TypesHold`, `ShownIsComplete`, `RelationsAreSound`, `EveryPageIsCounted` | `TypeOK`, `ShownComplete`, `RelationsSound`, `EveryPageCounts` for any visitors, keywords, limits and failures |
| `ListsAreFull`, `NetworksAreTrue` | `ListFull` for any limits, and `NetworkTrue` for any rows and any paths between publications, unique titles or not |
| `HttpClientProofs!TypesHold`, `NothingIsLost`, `ZeroIsExact` | the types, `NothingLost` and `ExitZeroExact` for any answer of the server, cut into any pieces, and any size and first contents of the buffer |
| `RedisLockProofs!ConnectionsLeased` | `Leases` for any threads, limits, retries and faults |
| `CallsAreKept` | `CallsKept`: the pool implements `RedisCall`, under the lock or not |
| `LockIsHeld`, `NoKeyIsOrphaned` | `HeldUntilLapsed` and `NoOrphans` for any threads, rounds, limits, retries and faults |

The arguments:

* **Agreement is not inductive.** That two copies with one number agree says nothing
  of the next copy to be made. The strengthening `SeqFixesContent` says what the
  copy with a number *is*: a link starts up, with a number fixed by the cost file
  (0, or -1 when learned), and every flip adds one to the number and changes the
  side, so the parity of the number is the side. It needs that a listed link is
  never forgotten (`ListedHeld`), or it might be learned again as -1. Restarts are
  harmless because they go back to the same start.
* **OwnerAhead** speaks of tables and packets at once: a packet is a copy of a
  table, and an installed LSA a copy of a packet. The owner's own number only
  grows, except in a restart. From it follow the two action properties: an LSA
  about an own link can never be newer. A restart of one router harms only what is
  said of its own links, so `AheadFor(S)`, which speaks of the links that routers of
  `S` own, is inductive as long as those are not restarted (`KeepRunning(S)`).
* **RunningRoutersFlood** puts the others together. What a router holds is among what
  was said, because its number lies between the first (`FromFirst`) and its owner's
  (`AheadFor`) and fixes the rest (`SeqFixesContent`). An own link changes by a flip
  (`StepFollows`), which is the next thing to say, or begins with the first
  number (`BeginsFirst`), and at most one table changes in a step (`OneMoves`).
* **RestIsAgreement.** Two neighbours without news for each other hold the same numbers
  for every link, and by `Agreement` the same LSAs. The routers that hold what one
  holds are then closed under live wires. Where a torn LSA is about, `Agreement` fails,
  and this is how `torn` comes to rest in disagreement.
* **LoopInv** has seven parts: types; recorded costs are final and no dearer than
  what is queued (`Settled`); every node is relaxed or queued with its present cost
  (`Pending`); no cost is less than some potential allows (`NeverTooCheap`); every
  next hop begins a way of that cost (`HopsOnTheWay`); what is reached is recorded
  or queued (`Reached`); every neighbour's ways are followed (`EachHopFollowed`). With
  the queue empty, `Pending` makes `visited` itself a potential and `NeverTooCheap`
  bounds it by all others: it is the distance. No induction over paths is needed.
* **LeastRoutes** needs more, since nothing of the above keeps a next hop from being
  too great. `EachHopFollowed` names, for a neighbour `h`, the nodes `W` that were
  expanded over `h`: none of them has a greater next hop, and wherever a cheapest way
  goes on from `W` it leads into `W` or to an entry that is queued. That an equal cost
  is queued again (line 266) is what keeps it true. At the end, if a cheapest way to
  `v` began with `h` and `v` were not in `W`, the distances from `h` could be raised
  by one outside `W` and still be a potential (`Entered`), which is more than a
  greatest one can be. The argument looks one above the limit, so the potentials of
  the invariant go up to `Inf + 1`: nodes at exactly `Inf` are recorded too.
* **DistanceIsGreatest, RouteTableRoutes.** `Ways` is a recursive function, so facts
  about its rounds are shown by climbing from one to the next (`Climb`). No round is
  below a potential (`WaysAbove`). A round that changes anything has one node more for
  which the greatest potential is attained (`WaysGrow`), and after as many rounds as
  there are nodes it is attained everywhere. That a cheapest way has a first
  hop (`HasFirstHop`), also over links of cost 0, is again raised potentials: if no
  neighbour began one, a greater potential would exist.
* **NoLoopsInAgreement** combines `SeqFixesContent` (the costs routers compute with
  are the same constants) with a lemma on `IsRouting`: with positive costs a next
  hop is strictly nearer. Two routers with the same up links then descend.

* **WritesLand, CacheHonest.** `HeroInv` adds to the two where an invocation may be
  (`Position`: a writer at `insert` has an id and something left), that `left` is the
  end of the list of items (`Suffix`, from which the heroes written follow), that the
  answer has an item for each id treated (`Answered`), and that the rows a query saw
  are still in the table (`Old`), since rows are never changed nor deleted. Without
  `Old` a reader that fills the cache from an old query would break `CacheHonest`.
  `WritesLand` says that there is a placing of the written heroes, and an insert
  extends it by the new id. That the new id is free is the primary key's doing; that
  it lies above all the others, though it was computed some time ago, is `Above`: the
  id before a computed one is in use, and a greater one only when the computed one
  has been taken.
* **PlacesOnce, OwnPlaces.** The first is inductive: `addLocation` looks before it
  adds. Both rest on `StepsTrim`: every statement of `buildDataBase`, so also a
  login that is killed in the middle, only takes rows of the test users away.
* **ThemeOfUser, TestReady.** `WeatherInv` says of the session what `ThemeOfUser` says
  of screens, since a rotation copies the session to a screen; it types the table of
  users with a bound on its keys, so that a new key is new (`KeyIsNew`) and a last
  match exists (`LastMatches`). No step takes a row of a registered user away (`Kept`),
  so a screen that fits goes on fitting. `ReadyAfter` goes through `buildDataBase`: with
  no row of the test user, or after the deletes, the two rows that are added have
  new keys and different ids, and exactly one matches.
* **ShownComplete, RelationsSound.** `Page` says of a request at the graph that every
  keyword it wants is still to be treated or related, which others cannot undo since
  relations are never deleted. For the number of doubles, `Counted` adds the
  requests that have found nothing and are about to create (`Creating`): the sum is
  at most the number of visitors, and once there is a relation nobody joins them.
* **ListFull.** A neighbour is left out only if the neighbours shown have as many rows
  as the list (`Rows`, `ShownFull`), and `RelationsSound` bounds the rows of each.
* **NetworkTrue.** The loops are functions on the number of rows, so what holds of the
  graph after `k` rows is shown by climbing from row to row (`Climb`). On a path
  (`OnPath`) `kid` is the keyword just passed and `pid` the publication before it,
  unless that was the center, when `pid` is one of those passed so far; so a step
  away from the center may give a wrong line (`Lined`) and every other step gives
  its own. Once a publication was passed, no line begins at node 0 (`Anchored`).
* **EveryPageCounts** is inductive with the types: only `InsertSearch` begins a page,
  with a row that was not there.
* **NothingLost, ExitZeroExact.** What is received lies in the text in its order and
  at places at least as far apart as in the answer, since a piece is appended with
  what follows it in the buffer. The length check compares the text behind the
  header with the length announced: if they are equal no room is left for
  anything else, so the body is the answer's, symbol by symbol.
* **Leases** is inductive together with the types of the pool.
* **CallsKept.** `Due` is a sum of three counts: what is flying, what waits on open
  sockets (`Waiting`) and the attempts that are left (`Attempts`). The lemmas on
  counting say how each changes when one socket or one thread changes
  (`WaitingStep`, `AttemptsStep`); a step of a thread then never raises `Due`
  (`ThreadCounts`), the server takes one off (`ServeCounts`, `ServeLateCounts`). That
  the reply read is the caller's own rests on `Quiet`: unless a reader was
  interrupted, a connection carries nothing, or the one command of the thread that
  reads from it, or a reply that thread's command has had.
* **HeldUntilLapsed.** The key changes hands only by a DEL of the token or by its
  expiry, so `NotFreed` counts: no DEL is under way for the token of an acquire that
  has begun, nor for one that is still to come. This is where late executions
  matter, and why a token is drawn anew for each acquire.
* **NoOrphans.** `KeyInv` says that a command of which no attempt has failed is under
  way once, and only until its answer (`Once`); that what is under way is
  somebody's or has failed (`Awaited`); and that the token in the key is claimed by
  its thread (`Claimed`) or its SET or DEL has failed.

Only model-checked: liveness (`Converges`, `OwnLinksSettle`, `DataLeaves`, `Delivers`,
`Ends`, `CacheHeals`, `EndsWhenClosed`, `LockingEnds`), which needs fairness and
ENABLED. Every other property of a passing run is stated by a theorem.

## 5. Not modelled

* In the router: the movement of `aTicket`'s memory under `push_back` while
  `announceLSA` walks over it (line 605), whose outcomes have no bound; `int`
  overflow of costs; the log file; the cost-change message, commented out in the
  source (lines 777-783). A link of cost 0 makes `dijkstra` loop for ever (equal
  costs are queued again): runs take positive costs, `LoopCorrect` allows zeros, and
  `Ends` is claimed for positive costs only.
* The weather app's fetches (`WeatherActivity`, `MapActivity`): a thread's answer is
  posted to the views of the screen that asked for it and to nothing else, so it
  can disturb no state that a property here speaks of.
* In the Redis client: forks (`_checkpid`), health checks, authentication, TLS,
  `BlockingConnectionPool`, pipelines and transactions, publish and subscribe, the
  parsing of replies; of the lock `extend` and `reacquire`, which move an expiry
  that the model leaves open anyway, and `locked` and `owned`, which only read.
* Keyworld's widgets and layout (queries only), the seed service, the chatbot
  lambda, the Flask and analytics exercises (at most one assignment).
* The rest of the packed libraries: `pymysql`, `typing_extensions`, and of `redis` the
  cluster, sentinel and asyncio clients and the one-line wrappers of
  `commands/core.py`. They are vendored, the lambda calls none of it but `pymysql`'s
  cursor and two commands, and they are six of every seven lines in `src/`. This
  is why the share of lines that `map` covers is small although nearly all stateful
  code of the projects themselves is modelled.

## 6. Plan

Done, in this order: `LinkState`, `ShortestPaths` and `Dijkstra`, `Forwarding`,
`HeroCache`, `WeatherApp`; then `HttpClient`, `Network` and `Keyworld`, `RedisCall`,
`RedisPool` and `RedisLock`, and the proofs on `HeroCache`, `WeatherApp`, `Keyworld`,
`RedisLock` and the refinement of `RedisCall`; then the proofs on `HttpClient` and
`Network`, the routers that go on running beside others that are restarted,
`Flooding` with its refinement, and that `dijkstra()` computes `RouteTable`.

What is left: the pool that blocks (`BlockingConnectionPool`) and its time-out, in
the place of `ConnectionPool`.
