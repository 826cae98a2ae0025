----------------------------- MODULE HeroCache -----------------------------
(***************************************************************************)
(* The lambda function of                                                  *)
(* src/CS-498_MPs/Aurora and ElastiCache/CODE/package/lambda_function.py:  *)
(* invocations that read and write the table of heroes, with a cache in    *)
(* front of it.                                                            *)
(*                                                                         *)
(* Invocations run side by side, each with a connection of its own.  The   *)
(* database and the cache are external: a statement and a commit are       *)
(* atomic, id is the primary key (doc.txt), and the queries of one         *)
(* invocation see one snapshot, since pymysql opens a transaction with the *)
(* first of them (autocommit off, REPEATABLE READ).                        *)
(***************************************************************************)
EXTENDS Integers, Sequences, FiniteSets

CONSTANTS
    Call,      \* the invocations
    Data,      \* the heroes that are written
    Requests,  \* the events an invocation may be called with
    Rows,      \* the rows of the table at the start
    None,      \* no snapshot, no id
    MaxId      \* bound: the greatest id

Id == 1..MaxId
Request == [write : BOOLEAN, useCache : BOOLEAN, items : Seq(Id \union Data)]

\* A hero is not a list of rows.
ASSUME DataAssumption == \A d \in Data : d # {} /\ \A e \in Data : d # {e}
ASSUME RowsAssumption ==
    DOMAIN Rows \subseteq Id /\ DOMAIN Rows # {} /\ \A i \in DOMAIN Rows : Rows[i] \in Data
ASSUME RequestsAssumption ==
    \A r \in Requests :
        /\ r \in Request
        /\ \A k \in DOMAIN r.items : r.items[k] \in (IF r.write THEN Data ELSE Id)
ASSUME MaxIdAssumption == MaxId \in Nat

VARIABLES
    table,   \* herostb: id -> hero
    cache,   \* the cache: id -> entry
    req,     \* req[c]: the event of c
    pc,      \* pc[c]: where c is
    left,    \* left[c]: the items c has still to treat, the present one first
    idx,     \* idx[c]: the id computed for the present item
    snap,    \* snap[c]: the table as c's queries see it, or None
    found,   \* found[c]: what the last query of c returned
    result   \* result[c]: the list c has collected

vars == <<table, cache, req, pc, left, idx, snap, found, result>>

\* An entry is a list of rows, none or one of them, when a query put it there,
\* and the hero itself when a write did.  It expires after TTL or never.
Value == {{}} \union {{d} : d \in Data} \union Data
Entry == [value : Value, expires : BOOLEAN]

\* setex(..., TTL, ...)
ForTTL(v) == [value |-> v, expires |-> TRUE]

Set(i, v) == cache' = [k \in DOMAIN cache \union {i} |-> IF k = i THEN ForTTL(v) ELSE cache[k]]

RowsWith(t, i) == {t[k] : k \in DOMAIN t \intersect {i}}

Seen(c) == IF snap[c] = None THEN table ELSE snap[c]
Item(c) == Head(left[c])
Step(c, from, to) == pc[c] = from /\ pc' = [pc EXCEPT ![c] = to]

-----------------------------------------------------------------------------
Init ==
    /\ table = Rows
    /\ cache = <<>>
    /\ req \in [Call -> Requests]
    /\ pc = [c \in Call |-> "next"]
    /\ left = [c \in Call |-> req[c].items]
    /\ idx = [c \in Call |-> None]
    /\ snap = [c \in Call |-> None]
    /\ found = [c \in Call |-> {}]
    /\ result = [c \in Call |-> <<>>]

Collect(c, v) ==
    /\ result' = [result EXCEPT ![c] = Append(@, v)]
    /\ left' = [left EXCEPT ![c] = Tail(@)]

\* Cache.get(index): json.dumps never gives an empty text, so every entry is a hit.
Hit(c) ==
    /\ Step(c, "next", "next")
    /\ ~req[c].write /\ req[c].useCache /\ left[c] # <<>>
    /\ Item(c) \in DOMAIN cache
    /\ Collect(c, cache[Item(c)].value)
    /\ UNCHANGED <<table, cache, req, idx, snap, found>>

Miss(c) ==
    /\ Step(c, "next", "query")
    /\ ~req[c].write /\ req[c].useCache /\ left[c] # <<>>
    /\ Item(c) \notin DOMAIN cache
    /\ UNCHANGED <<table, cache, req, left, idx, snap, found, result>>

Uncached(c) ==
    /\ Step(c, "next", "query")
    /\ ~req[c].write /\ ~req[c].useCache /\ left[c] # <<>>
    /\ UNCHANGED <<table, cache, req, left, idx, snap, found, result>>

Query(c) ==
    /\ Step(c, "query", "fill")
    /\ found' = [found EXCEPT ![c] = RowsWith(Seen(c), Item(c))]
    /\ snap' = [snap EXCEPT ![c] = Seen(c)]
    /\ UNCHANGED <<table, cache, req, left, idx, result>>

Fill(c) ==
    /\ Step(c, "fill", "next")
    /\ Set(Item(c), found[c])
    /\ Collect(c, found[c])
    /\ UNCHANGED <<table, req, idx, snap, found>>

\* get_idx, in a transaction that the last commit has left fresh.
GetIdx(c) ==
    /\ Step(c, "next", IF req[c].useCache THEN "put" ELSE "insert")
    /\ req[c].write /\ left[c] # <<>>
    /\ \E i \in Id : /\ \A k \in DOMAIN table : k =< i - 1
                     /\ i - 1 \in DOMAIN table
                     /\ idx' = [idx EXCEPT ![c] = i]
    /\ UNCHANGED <<table, cache, req, left, snap, found, result>>

\* (mutant) The entry is put under the greatest id in use.
PutUnderMax(c) ==
    /\ Step(c, "put", "insert")
    /\ Set(idx[c] - 1, Item(c))
    /\ UNCHANGED <<table, req, left, idx, snap, found, result>>

Put(c) ==
    /\ Step(c, "put", "insert")
    /\ Set(idx[c], Item(c))
    /\ UNCHANGED <<table, req, left, idx, snap, found, result>>

\* (mutant) INSERT IGNORE: a row with the id keeps its place and the loop goes on.
InsertIgnored(c) ==
    /\ Step(c, "insert", "next")
    /\ table' = [k \in DOMAIN table \union {idx[c]} |->
                    IF k \in DOMAIN table THEN table[k] ELSE Item(c)]
    /\ left' = [left EXCEPT ![c] = Tail(@)]
    /\ UNCHANGED <<cache, req, idx, snap, found, result>>

Insert(c) ==
    /\ Step(c, "insert", "next")
    /\ idx[c] \notin DOMAIN table
    /\ table' = [k \in DOMAIN table \union {idx[c]} |->
                    IF k = idx[c] THEN Item(c) ELSE table[k]]
    /\ left' = [left EXCEPT ![c] = Tail(@)]
    /\ UNCHANGED <<cache, req, idx, snap, found, result>>

\* Another invocation took the id: the error ends this one.
Duplicate(c) ==
    /\ Step(c, "insert", "failed")
    /\ idx[c] \in DOMAIN table
    /\ UNCHANGED <<table, cache, req, left, idx, snap, found, result>>

Return(c) ==
    /\ Step(c, "next", "done")
    /\ left[c] = <<>>
    /\ UNCHANGED <<table, cache, req, left, idx, snap, found, result>>

\* The invocation times out, or the database cannot be reached.
Crash(c) ==
    /\ pc[c] \notin {"done", "failed"}
    /\ pc' = [pc EXCEPT ![c] = "failed"]
    /\ UNCHANGED <<table, cache, req, left, idx, snap, found, result>>

\* (mutant) One DB object for all the invocations of a process: the connection,
\* and with it the transaction a read has opened, stays.
InvokeOnSameConnection(c) ==
    /\ Step(c, "done", "next") \/ Step(c, "failed", "next")
    /\ ~req[c].write
    /\ \E r \in {q \in Requests : ~q.write} :
          /\ req' = [req EXCEPT ![c] = r]
          /\ left' = [left EXCEPT ![c] = r.items]
    /\ result' = [result EXCEPT ![c] = <<>>]
    /\ UNCHANGED <<table, cache, idx, snap, found>>

\* The function is called again once c has ended: a connection, an answer and
\* locals of its own.  Bound: only reads come again, there is no end to them.
Invoke(c) ==
    /\ Step(c, "done", "next") \/ Step(c, "failed", "next")
    /\ ~req[c].write
    /\ \E r \in {q \in Requests : ~q.write} :
          /\ req' = [req EXCEPT ![c] = r]
          /\ left' = [left EXCEPT ![c] = r.items]
    /\ snap' = [snap EXCEPT ![c] = None]
    /\ found' = [found EXCEPT ![c] = {}]
    /\ result' = [result EXCEPT ![c] = <<>>]
    /\ UNCHANGED <<table, cache, idx>>

Expire(i) ==
    /\ i \in DOMAIN cache /\ cache[i].expires
    /\ cache' = [k \in DOMAIN cache \ {i} |-> cache[k]]
    /\ UNCHANGED <<table, req, pc, left, idx, snap, found, result>>

Work(c) ==
    \/ Hit(c) \/ Miss(c) \/ Uncached(c) \/ Query(c) \/ Fill(c)
    \/ GetIdx(c) \/ Put(c) \/ Insert(c) \/ Duplicate(c) \/ Return(c)

Next ==
    \/ \E c \in Call : Work(c) \/ Crash(c) \/ Invoke(c)
    \/ \E i \in Id : Expire(i)

Spec == Init /\ [][Next]_vars

\* An invocation goes on until it ends, and the cache drops what is due.
Fairness ==
    /\ \A c \in Call : WF_vars(Work(c))
    /\ \A i \in Id : WF_vars(Expire(i))

-----------------------------------------------------------------------------
Places == {"next", "query", "fill", "put", "insert", "done", "failed"}

TypeOK ==
    /\ DOMAIN table \subseteq Id /\ \A i \in DOMAIN table : table[i] \in Data
    /\ DOMAIN cache \subseteq Id /\ \A i \in DOMAIN cache : cache[i] \in Entry
    /\ req \in [Call -> Requests]
    /\ pc \in [Call -> Places]
    /\ idx \in [Call -> Id \union {None}]
    /\ \A c \in Call : /\ Len(left[c]) + Len(result[c]) =< Len(req[c].items)
                       /\ \A k \in DOMAIN result[c] : result[c][k] \in Value

\* The heroes written so far: the k-th of the list of c.
WrittenBy(c) == 1..(Len(req[c].items) - Len(left[c]))
Writings == UNION {{c} \X WrittenBy(c) : c \in {b \in Call : req[b].write}}

\* place says under which id each of them is: an id of its own, not one of the
\* rows of the start, and greater ids for the later heroes of a list.
IsPlacing(place) ==
    /\ place \in [Writings -> DOMAIN table \ DOMAIN Rows]
    /\ \A w \in Writings : table[place[w]] = req[w[1]].items[w[2]]
    /\ \A v, w \in Writings : place[v] = place[w] => v = w
    /\ \A v, w \in Writings : v[1] = w[1] /\ v[2] < w[2] => place[v] < place[w]

\* A hero that is counted as written is in the table under an id of its own, in
\* the order of its list, and stays there: invocations that compute the same id
\* (lines 29-33) cannot both succeed with it, equal heroes or not, and one whose
\* id is old cannot come in below what others have written since.
WritesLand ==
    \E place \in [Writings -> DOMAIN table \ DOMAIN Rows] : IsPlacing(place)

\* The hero an entry shows, if any.
Shows(v) == IF v \in Data THEN {v} ELSE v

\* c has put d in the cache under i before the insert (line 72), and has not got
\* further or has failed.
Announces(c, i, d) ==
    /\ req[c].write /\ req[c].useCache
    /\ idx[c] = i /\ left[c] # <<>> /\ Item(c) = d
    /\ pc[c] \in {"insert", "failed"}

Backed(i, d) == RowsWith(table, i) = {d} \/ \E c \in Call : Announces(c, i, d)

\* A hero in the cache, or in an answer at the place of the id that was asked
\* for, is the one in the table under that id or one announced by a writer.  No
\* entry, and no read that hits it, hands a hero on under another id.
CacheHonest ==
    /\ \A i \in DOMAIN cache : \A d \in Shows(cache[i].value) : Backed(i, d)
    /\ \A c \in Call : \A k \in DOMAIN result[c] :
          \A d \in Shows(result[c][k]) : Backed(req[c].items[k], d)

\* What is wrong in the cache, a phantom or a hero that is missing, does not
\* outlive the writes, the reads that began before and one more TTL, although
\* reads fill the cache for ever (lines 15, 58, 63 and 72).
CacheHeals == <>[](\A i \in DOMAIN cache : Shows(cache[i].value) = RowsWith(table, i))
=============================================================================
