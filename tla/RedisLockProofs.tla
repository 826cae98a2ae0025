--------------------------- MODULE RedisLockProofs ---------------------------
(***************************************************************************)
(* For any number of threads, any limits of the pool, any number of        *)
(* retries and any faults: connections are neither lost nor shared, the    *)
(* pool implements RedisCall, the lock is held until it expires, and no    *)
(* key is left without its thread.                                         *)
(***************************************************************************)
EXTENDS RedisLock, FiniteSetTheorems, TLAPS

Place == {"idle", "full", "check", "send", "read", "release"}

PoolTypes ==
    /\ limit \in Nat /\ created \in Nat
    /\ available \in Seq(Nat)
    /\ conn \in [Thread -> Nat \union {NoConnection}]
    /\ pc \in [Thread -> Place]

PoolInv == PoolTypes /\ Leases

\* What the pool and the threads agree on.
pooled == <<limit, created, available, inuse, conn>>

LEMMA InitHolds == Init => PoolInv
<1> SUFFICES ASSUME Init PROVE PoolInv
  OBVIOUS
<1>1. PoolTypes
  BY PoolAssumption DEF Init, PoolInit, PoolTypes, Place
<1>2. Leases
  BY PoolAssumption DEF Init, PoolInit, Leases, IsInjective, ToSet
<1> QED
  BY <1>1, <1>2 DEF PoolInv

\* A step that leaves the pool as it is need only mind where threads are.
LEMMA PoolUntouched ==
    ASSUME PoolInv, UNCHANGED pooled, pc' \in [Thread -> Place],
           \A u \in Thread : /\ pc'[u] \in {"check", "send", "read"} => conn[u] # NoConnection
                             /\ pc'[u] \in {"idle", "full"} => conn[u] = NoConnection
    PROVE  PoolInv'
<1>1. /\ limit' = limit /\ created' = created /\ available' = available
      /\ inuse' = inuse /\ conn' = conn
  BY DEF pooled
<1>2. PoolTypes'
  BY <1>1 DEF PoolInv, PoolTypes
<1>3. /\ created' =< limit' /\ IsInjective(available')
      /\ ToSet(available') \intersect inuse' = {}
      /\ ToSet(available') \union inuse' = 1..created'
  BY <1>1 DEF PoolInv, Leases
<1>4. inuse' = {conn'[u] : u \in {v \in Thread : conn'[v] # NoConnection}}
  BY <1>1, Zenon DEF PoolInv, Leases
<1>5. \A u, v \in Thread : conn'[u] = conn'[v] /\ conn'[u] # NoConnection => u = v
  BY <1>1 DEF PoolInv, Leases
<1> QED
  BY <1>1, <1>2, <1>3, <1>4, <1>5 DEF PoolInv, Leases

\* A step of t within its call, or after one for which the pool was full.
LEMMA WalkKeeps ==
    ASSUME PoolInv, NEW t \in Thread, UNCHANGED pooled, NEW p \in {"send", "read", "release"},
           Go(t, p), p = "release" \/ conn[t] # NoConnection
    PROVE  PoolInv'
<1>1. pc' \in [Thread -> Place]
  BY DEF PoolInv, PoolTypes, Go, Place
<1>2. \A u \in Thread : /\ pc'[u] \in {"check", "send", "read"} => conn[u] # NoConnection
                        /\ pc'[u] \in {"idle", "full"} => conn[u] = NoConnection
  BY DEF PoolInv, PoolTypes, Leases, Go
<1> QED
  BY <1>1, <1>2, PoolUntouched

\* Steps of others leave the pool and the threads where they are.
LEMMA RestKeeps ==
    ASSUME PoolInv, UNCHANGED pooled, UNCHANGED pc
    PROVE  PoolInv'
BY PoolUntouched DEF PoolInv, PoolTypes, Leases

\* The last of a sequence without doubles is not in what is before it.
LEMMA LastTaken ==
    ASSUME NEW S, NEW s \in Seq(S), s # <<>>, IsInjective(s)
    PROVE  /\ Last(s) \in S /\ Front(s) \in Seq(S)
           /\ IsInjective(Front(s))
           /\ Last(s) \notin ToSet(Front(s))
           /\ ToSet(s) = ToSet(Front(s)) \union {Last(s)}
<1>1. Len(s) \in Nat \ {0} /\ DOMAIN s = 1..Len(s)
  OBVIOUS
<1>2. /\ Front(s) \in Seq(S) /\ Len(Front(s)) = Len(s) - 1
      /\ \A i \in 1..(Len(s) - 1) : Front(s)[i] = s[i]
  BY <1>1 DEF Front
<1>3. Last(s) = s[Len(s)] /\ Len(s) \in DOMAIN s
  BY <1>1 DEF Last
<1>4. Last(s) \in S
  BY <1>3
<1>5. DOMAIN Front(s) = 1..(Len(s) - 1)
  BY <1>2
<1>6. IsInjective(Front(s))
  BY <1>1, <1>2, <1>5 DEF IsInjective
<1>7. Last(s) \notin ToSet(Front(s))
  BY <1>1, <1>2, <1>3, <1>5 DEF IsInjective, ToSet
<1>8. ToSet(s) = ToSet(Front(s)) \union {Last(s)}
  <2>1. DOMAIN s = DOMAIN Front(s) \union {Len(s)}
    BY <1>1, <1>5
  <2> QED
    BY <2>1, <1>2, <1>3, <1>5 DEF ToSet
<1> QED
  BY <1>2, <1>4, <1>6, <1>7, <1>8

\* A sequence without doubles stays so when a new element is appended.
LEMMA FreshAppended ==
    ASSUME NEW S, NEW s \in Seq(S), IsInjective(s), NEW e \in S, e \notin ToSet(s)
    PROVE  /\ Append(s, e) \in Seq(S)
           /\ IsInjective(Append(s, e))
           /\ ToSet(Append(s, e)) = ToSet(s) \union {e}
<1>1. /\ Append(s, e) \in Seq(S) /\ Len(Append(s, e)) = Len(s) + 1 /\ Len(s) \in Nat
      /\ Append(s, e)[Len(s) + 1] = e
      /\ \A i \in 1..Len(s) : Append(s, e)[i] = s[i]
  OBVIOUS
<1>2. DOMAIN s = 1..Len(s) /\ DOMAIN Append(s, e) = DOMAIN s \union {Len(s) + 1}
  BY <1>1
<1>3. IsInjective(Append(s, e))
  BY <1>1, <1>2 DEF IsInjective, ToSet
<1>4. ToSet(Append(s, e)) = ToSet(s) \union {e}
  BY <1>1, <1>2 DEF ToSet
<1> QED
  BY <1>1, <1>3, <1>4

LEMMA ExecuteKeeps ==
    ASSUME PoolInv, NEW t \in Thread, NEW cmd, Execute(t, cmd)
    PROVE  PoolInv'
<1> USE DEF PoolInv, PoolTypes, Place, Go
<1>1. conn[t] = NoConnection /\ NoConnection \notin Nat /\ limit' = limit
  BY PoolAssumption DEF Execute, Leases
<1>2. CASE Take(t)
  <2> DEFINE c == Last(available)
  <2>1. /\ c \in Nat /\ Front(available) \in Seq(Nat)
        /\ IsInjective(Front(available)) /\ c \notin ToSet(Front(available))
        /\ ToSet(available) = ToSet(Front(available)) \union {c}
    <3> IsInjective(available) /\ available \in Seq(Nat) /\ available # <<>>
      BY <1>2 DEF Leases, Take
    <3> QED
      BY LastTaken
  <2>2. /\ pc' = [pc EXCEPT ![t] = "check"] /\ conn' = [conn EXCEPT ![t] = c]
        /\ available' = Front(available) /\ inuse' = inuse \union {c} /\ created' = created
    BY <1>2 DEF Take
  <2> HIDE DEF c
  <2>3. PoolTypes'
    BY <1>1, <2>1, <2>2
  <2>4. c \notin inuse /\ \A u \in Thread : conn[u] # c
    BY <1>1, <2>1 DEF Leases
  <2>5. /\ ToSet(available') \intersect inuse' = {}
        /\ ToSet(available') \union inuse' = 1..created'
    BY <2>1, <2>2, <2>4 DEF Leases
  <2>6. inuse' = {conn'[u] : u \in {v \in Thread : conn'[v] # NoConnection}}
    BY <1>1, <2>1, <2>2 DEF Leases
  <2>7. \A v, u \in Thread : conn'[v] = conn'[u] /\ conn'[v] # NoConnection => v = u
    BY <1>1, <2>1, <2>2, <2>4 DEF Leases
  <2>8. \A u \in Thread : /\ pc'[u] \in {"check", "send", "read"} => conn'[u] # NoConnection
                          /\ pc'[u] \in {"idle", "full"} => conn'[u] = NoConnection
    BY <1>1, <2>1, <2>2 DEF Leases
  <2> QED
    BY <1>1, <2>1, <2>2, <2>3, <2>5, <2>6, <2>7, <2>8 DEF Leases
<1>3. CASE Make(t)
  <2> DEFINE c == created + 1
  <2>1. /\ pc' = [pc EXCEPT ![t] = "check"] /\ conn' = [conn EXCEPT ![t] = c]
        /\ available' = available /\ inuse' = inuse \union {c} /\ created' = c /\ c =< limit
        /\ c \in Nat
    BY <1>3 DEF Make
  <2>2. c \notin inuse /\ c \notin ToSet(available) /\ 1..c = 1..created \union {c}
    BY DEF Leases
  <2> HIDE DEF c
  <2>3. PoolTypes'
    BY <1>1, <2>1
  <2>4. \A u \in Thread : conn[u] # c
    BY <1>1, <2>1, <2>2 DEF Leases
  <2>5. /\ ToSet(available') \intersect inuse' = {}
        /\ ToSet(available') \union inuse' = 1..created'
    BY <2>1, <2>2 DEF Leases
  <2>6. inuse' = {conn'[u] : u \in {v \in Thread : conn'[v] # NoConnection}}
    BY <1>1, <2>1 DEF Leases
  <2>7. \A v, u \in Thread : conn'[v] = conn'[u] /\ conn'[v] # NoConnection => v = u
    BY <1>1, <2>1, <2>4 DEF Leases
  <2>8. \A u \in Thread : /\ pc'[u] \in {"check", "send", "read"} => conn'[u] # NoConnection
                          /\ pc'[u] \in {"idle", "full"} => conn'[u] = NoConnection
    BY <1>1, <2>1 DEF Leases
  <2> QED
    BY <1>1, <2>1, <2>3, <2>5, <2>6, <2>7, <2>8 DEF Leases
<1>4. CASE TooMany(t)
  <2>1. UNCHANGED pooled /\ pc' = [pc EXCEPT ![t] = "full"]
    BY <1>1, <1>4 DEF TooMany, pooled
  <2>2. \A u \in Thread : /\ pc'[u] \in {"check", "send", "read"} => conn[u] # NoConnection
                          /\ pc'[u] \in {"idle", "full"} => conn[u] = NoConnection
    BY <1>1, <2>1 DEF Leases
  <2> QED
    BY <2>1, <2>2, PoolUntouched
<1> QED
  BY <1>2, <1>3, <1>4 DEF Execute

LEMMA ReleaseKeeps ==
    ASSUME PoolInv, NEW t \in Thread, Release(t)
    PROVE  PoolInv'
<1> USE DEF PoolInv, PoolTypes, Place, Go
<1> DEFINE c == conn[t]
<1>1. /\ pc' = [pc EXCEPT ![t] = "idle"] /\ conn' = [conn EXCEPT ![t] = NoConnection]
      /\ inuse' = inuse \ {c} /\ created' = created /\ limit' = limit
      /\ available' = IF c = NoConnection THEN available ELSE Append(available, c)
      /\ c \in Nat \union {NoConnection}
  BY DEF Release
<1>2. NoConnection \notin Nat
  BY PoolAssumption
<1>3. c # NoConnection => c \in inuse /\ c \notin ToSet(available)
  BY DEF Leases
<1>4. inuse' = {conn'[u] : u \in {v \in Thread : conn'[v] # NoConnection}}
  BY <1>1, <1>2 DEF Leases
<1>5. \A v, u \in Thread : conn'[v] = conn'[u] /\ conn'[v] # NoConnection => v = u
  BY <1>1, <1>2 DEF Leases
<1>6. \A u \in Thread : /\ pc'[u] \in {"check", "send", "read"} => conn'[u] # NoConnection
                        /\ pc'[u] \in {"idle", "full"} => conn'[u] = NoConnection
  BY <1>1, <1>2 DEF Leases
<1> HIDE DEF c
<1>7. CASE c = NoConnection
  <2>1. available' = available /\ NoConnection \notin inuse
    BY <1>1, <1>2, <1>7 DEF Leases
  <2>2. inuse' = inuse
    BY <1>1, <1>7, <2>1
  <2>3. PoolTypes'
    BY <1>1, <2>1
  <2>4. /\ created' =< limit' /\ IsInjective(available')
        /\ ToSet(available') \intersect inuse' = {}
        /\ ToSet(available') \union inuse' = 1..created'
    BY <1>1, <2>1, <2>2 DEF Leases
  <2> QED
    BY <1>4, <1>5, <1>6, <2>3, <2>4 DEF Leases
<1>8. CASE c # NoConnection
  <2>1. /\ available' \in Seq(Nat) /\ IsInjective(available')
        /\ ToSet(available') = ToSet(available) \union {c}
    <3>1. available' = Append(available, c) /\ c \in Nat
      BY <1>1, <1>8
    <3>2. available \in Seq(Nat) /\ IsInjective(available) /\ c \notin ToSet(available)
      BY <1>3, <1>8 DEF Leases
    <3> QED
      BY <3>1, <3>2, FreshAppended
  <2>2. PoolTypes'
    BY <1>1, <2>1
  <2>3. /\ ToSet(available') \intersect inuse' = {}
        /\ ToSet(available') \union inuse' = 1..created'
    BY <1>1, <1>3, <1>8, <2>1 DEF Leases
  <2> QED
    BY <1>1, <1>4, <1>5, <1>6, <2>1, <2>2, <2>3 DEF Leases
<1> QED
  BY <1>7, <1>8

LEMMA ThreadKeeps ==
    ASSUME PoolInv, NEW t \in Thread, Proceed(t) \/ Trouble(t)
    PROVE  PoolInv'
<1>1. conn[t] # NoConnection \/ pc[t] \notin {"check", "send", "read"}
  BY DEF PoolInv, Leases
<1>2. CASE Full(t)
  BY <1>2, WalkKeeps DEF Full, pooled
<1>3. CASE Ready(t)
  BY <1>1, <1>3, WalkKeeps DEF Ready, pooled
<1>4. CASE Reconnect(t)
  BY <1>1, <1>4, WalkKeeps DEF Reconnect, pooled
<1>5. CASE Send(t)
  BY <1>1, <1>5, WalkKeeps DEF Send, pooled
<1>6. CASE Read(t)
  BY <1>6, WalkKeeps DEF Read, pooled
<1>7. CASE ReadFails(t)
  <2>1. UNCHANGED pooled /\ (Go(t, "send") \/ Go(t, "release")) /\ conn[t] # NoConnection
    BY <1>1, <1>7 DEF ReadFails, Failed, pooled
  <2> QED
    BY <2>1, WalkKeeps
<1>8. CASE SendFails(t)
  <2>1. UNCHANGED pooled /\ (Go(t, "send") \/ Go(t, "release")) /\ conn[t] # NoConnection
    BY <1>1, <1>8 DEF SendFails, Failed, pooled
  <2> QED
    BY <2>1, WalkKeeps
<1>9. CASE CheckFails(t)
  BY <1>9, WalkKeeps DEF CheckFails, pooled
<1>10. CASE Interrupt(t)
  BY <1>10, WalkKeeps DEF Interrupt, pooled
<1> QED
  BY <1>2, <1>3, <1>4, <1>5, <1>6, <1>7, <1>8, <1>9, <1>10 DEF Proceed, Trouble

LEMMA NextKeeps == PoolInv /\ [Next]_vars => PoolInv'
<1> SUFFICES ASSUME PoolInv, [Next]_vars PROVE PoolInv'
  OBVIOUS
<1>1. CASE \E t \in Thread : Acquire(t) \/ Leave(t) \/ TryAgain(t)
  BY <1>1, ExecuteKeeps DEF Acquire, Leave, TryAgain
<1>2. CASE \E t \in Thread : Acquired(t) \/ Refused(t) \/ Raises(t) \/ Left(t)
  BY <1>2, ReleaseKeeps DEF Acquired, Refused, Raises, Left
<1>3. CASE \E t \in Thread : Proceed(t) \/ Trouble(t)
  BY <1>3, ThreadKeeps
<1>4. CASE Server \/ Disconnect \/ Expire
  <2>1. UNCHANGED pooled /\ UNCHANGED pc
    BY <1>4 DEF Server, Serve, Close, ServeLate, Disconnect, Expire, pooled
  <2> QED
    BY <2>1, RestKeeps
<1>5. CASE UNCHANGED vars
  <2>1. UNCHANGED pooled /\ UNCHANGED pc
    BY <1>5 DEF vars, poolVars, pooled
  <2> QED
    BY <2>1, RestKeeps
<1> QED
  BY <1>1, <1>2, <1>3, <1>4, <1>5 DEF Next, Locking, Pooling

\* Every connection that was made is available or in the hands of one thread,
\* and there are not more than max_connections (connection.py, 1429-1497).
THEOREM ConnectionsLeased == Spec => []Leases
<1>1. PoolInv => Leases
  BY DEF PoolInv
<1> QED
  BY <1>1, InitHolds, NextKeeps, PTL DEF Spec

-----------------------------------------------------------------------------
(***************************************************************************)
(* Counting.                                                               *)
(***************************************************************************)
LEMMA TimesOfNone == ASSUME NEW cmd PROVE Times(cmd, <<>>) = 0
<1>1. {k \in DOMAIN <<>> : <<>>[k] = cmd} = {}
  OBVIOUS
<1> QED
  BY <1>1, FS_EmptySet DEF Times

LEMMA TimesFinite ==
    ASSUME NEW S, NEW s \in Seq(S), NEW cmd
    PROVE  /\ IsFiniteSet({k \in DOMAIN s : s[k] = cmd}) /\ Times(cmd, s) \in Nat
           /\ IsFiniteSet(DOMAIN s)
<1>1. DOMAIN s = 1..Len(s) /\ Len(s) \in Nat
  OBVIOUS
<1>2. IsFiniteSet(1..Len(s))
  BY <1>1, FS_Interval
<1> QED
  BY <1>1, <1>2, FS_Subset, FS_CardinalityType DEF Times

LEMMA TimesOfMore ==
    ASSUME NEW S, NEW s \in Seq(S), NEW x \in S, NEW cmd
    PROVE  Times(cmd, Append(s, x)) = Times(cmd, s) + (IF x = cmd THEN 1 ELSE 0)
<1> DEFINE n == Len(s)
<1> DEFINE P == {k \in DOMAIN s : s[k] = cmd}
<1> DEFINE Q == {k \in DOMAIN Append(s, x) : Append(s, x)[k] = cmd}
<1>1. /\ n \in Nat /\ DOMAIN s = 1..n /\ DOMAIN Append(s, x) = 1..(n + 1)
      /\ Append(s, x)[n + 1] = x /\ \A k \in 1..n : Append(s, x)[k] = s[k]
  OBVIOUS
<1> HIDE DEF n
<1>2. IsFiniteSet(P) /\ n + 1 \notin P
  <2>1. IsFiniteSet(P)
    BY TimesFinite
  <2>2. n + 1 \notin P
    BY <1>1
  <2> QED
    BY <2>1, <2>2
<1>3. Q = IF x = cmd THEN P \union {n + 1} ELSE P
  BY <1>1
<1> HIDE DEF P, Q
<1>4. Cardinality(Q) = Cardinality(P) + (IF x = cmd THEN 1 ELSE 0)
  <2>1. CASE x = cmd
    BY <1>2, <1>3, <2>1, FS_AddElement
  <2>2. CASE x # cmd
    BY <1>2, <1>3, <2>2, FS_CardinalityType
  <2> QED
    BY <2>1, <2>2
<1>5. Times(cmd, s) = Cardinality(P) /\ Times(cmd, Append(s, x)) = Cardinality(Q)
  BY Zenon DEF Times, P, Q
<1> QED
  BY <1>4, <1>5

LEMMA TimesOfTail ==
    ASSUME NEW S, NEW s \in Seq(S), s # <<>>, NEW cmd
    PROVE  /\ Times(cmd, Tail(s)) = Times(cmd, s) - (IF Head(s) = cmd THEN 1 ELSE 0)
           /\ Head(s) = cmd => Times(cmd, s) > 0
<1> DEFINE n == Len(s)
<1> DEFINE P == {k \in DOMAIN s : s[k] = cmd}
<1> DEFINE Q == {k \in DOMAIN Tail(s) : Tail(s)[k] = cmd}
<1>1. /\ n \in Nat \ {0} /\ DOMAIN s = 1..n /\ DOMAIN Tail(s) = 1..(n - 1) /\ Head(s) = s[1]
      /\ Tail(s) \in Seq(S) /\ \A k \in 1..(n - 1) : Tail(s)[k] = s[k + 1]
  OBVIOUS
<1>2. IsFiniteSet(P) /\ IsFiniteSet(Q)
  BY <1>1, TimesFinite
<1> HIDE DEF n
<1>3. 1 \in P <=> Head(s) = cmd
  BY <1>1
<1>4. ExistsBijection(Q, P \ {1})
  <2> DEFINE f == [k \in Q |-> k + 1]
  <2>1. f \in [Q -> P \ {1}]
    BY <1>1
  <2>2. \A k \in P \ {1} : k - 1 \in Q /\ f[k - 1] = k
    <3> TAKE k \in P \ {1}
    <3>1. k - 1 \in 1..(n - 1) /\ Tail(s)[k - 1] = s[k]
      BY <1>1
    <3>2. k - 1 \in Q
      BY <1>1, <3>1
    <3>3. f[k - 1] = (k - 1) + 1 /\ k \in Int
      BY <1>1, <3>2
    <3> QED
      BY <3>2, <3>3
  <2>3. \A j, k \in Q : f[j] = f[k] => j = k
    BY <1>1
  <2> HIDE DEF f, P, Q
  <2>4. f \in Injection(Q, P \ {1})
    BY <2>1, <2>3 DEF Injection, IsInjective
  <2>5. f \in Surjection(Q, P \ {1})
    BY <2>1, <2>2 DEF Surjection
  <2> QED
    BY <2>4, <2>5 DEF ExistsBijection, Bijection
<1> HIDE DEF P, Q
<1>5. Cardinality(P \ {1}) = Cardinality(Q)
  BY <1>2, <1>4, FS_Bijection
<1>6. /\ Cardinality(P \ {1}) = (IF 1 \in P THEN Cardinality(P) - 1 ELSE Cardinality(P))
      /\ Cardinality(P) \in Nat /\ Cardinality(Q) \in Nat
  BY <1>2, FS_RemoveElement, FS_CardinalityType
<1>7. Times(cmd, s) = Cardinality(P) /\ Times(cmd, Tail(s)) = Cardinality(Q)
  BY Zenon DEF Times, P, Q
<1>8. 1 \in P => Cardinality(P) # 0
  BY <1>2, FS_EmptySet
<1> QED
  BY <1>3, <1>5, <1>6, <1>7, <1>8

\* Waiting as a function of what is on the sockets.
Spots(todo, cmd, C) ==
    {p \in UNION {{c} \X DOMAIN todo[c] : c \in C} : todo[p[1]][p[2]] = cmd}

LEMMA SpotsFinite ==
    ASSUME NEW S, NEW C, IsFiniteSet(C), NEW todo, \A c \in C : todo[c] \in Seq(S), NEW cmd
    PROVE  IsFiniteSet(Spots(todo, cmd, C))
<1> DEFINE All == {{c} \X DOMAIN todo[c] : c \in C}
<1>1. IsFiniteSet(All)
  <2> DEFINE f == [c \in C |-> {c} \X DOMAIN todo[c]]
  <2>1. f \in Surjection(C, All)
    BY DEF Surjection
  <2> HIDE DEF f, All
  <2> QED
    BY <2>1, FS_Surjection
<1>2. \A T \in All : IsFiniteSet(T)
  <2> TAKE T \in All
  <2>1. PICK c \in C : T = {c} \X DOMAIN todo[c]
    OBVIOUS
  <2>2. IsFiniteSet({c}) /\ IsFiniteSet(DOMAIN todo[c])
    BY FS_Singleton, TimesFinite
  <2> QED
    BY <2>1, <2>2, FS_Product
<1> HIDE DEF All
<1>3. IsFiniteSet(UNION All)
  BY <1>1, <1>2, FS_UNION
<1>4. Spots(todo, cmd, C) \subseteq UNION All
  BY DEF Spots, All
<1> QED
  BY <1>3, <1>4, FS_Subset

\* What waits on one socket is counted apart.
LEMMA SpotsApart ==
    ASSUME NEW S, NEW C, IsFiniteSet(C), NEW todo, \A c \in C : todo[c] \in Seq(S),
           NEW cmd, NEW c \in C
    PROVE  /\ Cardinality(Spots(todo, cmd, C)) =
                 Cardinality(Spots(todo, cmd, C \ {c})) + Times(cmd, todo[c])
           /\ Cardinality(Spots(todo, cmd, C)) \in Nat
           /\ Cardinality(Spots(todo, cmd, C \ {c})) \in Nat
<1> DEFINE Here == {c} \X {k \in DOMAIN todo[c] : todo[c][k] = cmd}
<1> DEFINE Rest == Spots(todo, cmd, C \ {c})
<1>1. Spots(todo, cmd, C) = Rest \union Here /\ Rest \intersect Here = {}
  BY DEF Spots
<1>2. IsFiniteSet(Rest)
  <2>1. IsFiniteSet(C \ {c})
    BY FS_Difference
  <2> QED
    BY <2>1, SpotsFinite
<1>3. IsFiniteSet(Here) /\ Cardinality(Here) = Times(cmd, todo[c])
  <2>1. IsFiniteSet({c}) /\ Cardinality({c}) = 1
    BY FS_Singleton
  <2>2. IsFiniteSet({k \in DOMAIN todo[c] : todo[c][k] = cmd}) /\ Times(cmd, todo[c]) \in Nat
    BY TimesFinite
  <2>3. IsFiniteSet(Here) /\ Cardinality(Here) = 1 * Times(cmd, todo[c])
    BY <2>1, <2>2, FS_Product DEF Times
  <2> QED
    BY <2>2, <2>3
<1> HIDE DEF Rest, Here
<1>4. Cardinality(Rest) \in Nat /\ Cardinality(Here) \in Nat
  BY <1>2, <1>3, FS_CardinalityType
<1>5. Cardinality(Rest \union Here) = Cardinality(Rest) + Cardinality(Here)
  <2>1. Cardinality(Rest \union Here) = Cardinality(Rest) + Cardinality(Here) - Cardinality(Rest \intersect Here)
    BY <1>2, <1>3, FS_Union
  <2>2. Cardinality(Rest \intersect Here) = 0
    BY <1>1, FS_EmptySet
  <2> QED
    BY <1>4, <2>1, <2>2
<1> QED
  BY <1>1, <1>3, <1>4, <1>5 DEF Rest

LEMMA SpotsOfNone ==
    ASSUME NEW C, NEW todo, \A c \in C : todo[c] = <<>>, NEW cmd
    PROVE  Cardinality(Spots(todo, cmd, C)) = 0
<1>1. Spots(todo, cmd, C) = {}
  BY DEF Spots
<1> QED
  BY <1>1, FS_EmptySet

\* The attempts that threads with their commands, and what they have used up,
\* have left.
Tries(cmds, used, cmd, T) ==
    {p \in T \X (1..(Retries + 1)) : cmds[p[1]] = cmd /\ used[p[1]] < p[2]}

LEMMA TriesApart ==
    ASSUME NEW T, IsFiniteSet(T), NEW cmds, NEW used, NEW cmd, NEW t \in T,
           used[t] \in 0..(Retries + 1)
    PROVE  /\ Cardinality(Tries(cmds, used, cmd, T)) =
                 Cardinality(Tries(cmds, used, cmd, T \ {t}))
                 + (IF cmds[t] = cmd THEN Retries + 1 - used[t] ELSE 0)
           /\ Cardinality(Tries(cmds, used, cmd, T)) \in Nat
           /\ Cardinality(Tries(cmds, used, cmd, T \ {t})) \in Nat
<1> DEFINE Own == IF cmds[t] = cmd THEN {t} \X ((used[t] + 1)..(Retries + 1)) ELSE {}
<1> DEFINE Rest == Tries(cmds, used, cmd, T \ {t})
<1>0. Retries \in Nat
  BY CallAssumption
<1>1. Tries(cmds, used, cmd, T) = Rest \union Own /\ Rest \intersect Own = {}
  BY <1>0 DEF Tries
<1>2. IsFiniteSet(Rest)
  <2> DEFINE I == 1..(Retries + 1)
  <2>0. IsFiniteSet(T \ {t}) /\ IsFiniteSet(I)
    <3>1. IsFiniteSet(T \ {t})
      BY FS_Difference
    <3>2. 1 \in Int /\ Retries + 1 \in Int
      BY <1>0
    <3> QED
      BY <3>1, <3>2, FS_Interval
  <2> HIDE DEF I
  <2>1. IsFiniteSet((T \ {t}) \X I)
    BY <2>0, FS_Product
  <2>2. Rest \subseteq (T \ {t}) \X I
    BY DEF Tries, I
  <2> QED
    BY <2>1, <2>2, FS_Subset
<1>3. IsFiniteSet(Own) /\ Cardinality(Own) = (IF cmds[t] = cmd THEN Retries + 1 - used[t] ELSE 0)
  <2> DEFINE I == (used[t] + 1)..(Retries + 1)
  <2>1. IsFiniteSet({t}) /\ Cardinality({t}) = 1
    BY FS_Singleton
  <2>2. IsFiniteSet(I) /\ Cardinality(I) = Retries + 1 - used[t]
    <3>1. /\ used[t] + 1 \in Int /\ Retries + 1 \in Int /\ used[t] + 1 =< Retries + 2
          /\ (Retries + 1) - (used[t] + 1) + 1 = Retries + 1 - used[t]
      BY <1>0
    <3>2. /\ IsFiniteSet(I)
          /\ Cardinality(I) = IF used[t] + 1 > Retries + 1 THEN 0 ELSE (Retries + 1) - (used[t] + 1) + 1
      BY <3>1, FS_Interval
    <3> QED
      BY <1>0, <3>1, <3>2
  <2> HIDE DEF I
  <2>3. IsFiniteSet({t} \X I) /\ Cardinality({t} \X I) = 1 * Cardinality(I)
    BY <2>1, <2>2, FS_Product
  <2>4. Cardinality({t} \X I) = Retries + 1 - used[t]
    BY <1>0, <2>2, <2>3
  <2> QED
    BY <2>3, <2>4, FS_EmptySet DEF I
<1> HIDE DEF Rest, Own
<1>4. Cardinality(Rest) \in Nat /\ Cardinality(Own) \in Nat
  BY <1>2, <1>3, FS_CardinalityType
<1>5. Cardinality(Rest \union Own) = Cardinality(Rest) + Cardinality(Own)
  <2>1. Cardinality(Rest \union Own) = Cardinality(Rest) + Cardinality(Own) - Cardinality(Rest \intersect Own)
    BY <1>2, <1>3, FS_Union
  <2>2. Cardinality(Rest \intersect Own) = 0
    BY <1>1, FS_EmptySet
  <2> QED
    BY <1>4, <2>1, <2>2
<1> QED
  BY <1>1, <1>3, <1>4, <1>5 DEF Rest

-----------------------------------------------------------------------------
(***************************************************************************)
(* What holds of the calls.                                                *)
(***************************************************************************)
CallTypes ==
    /\ limit \in Limits
    /\ socket \in [Connection -> Socket \union {NoSocket}]
    /\ flying \in [Command -> Nat]
    /\ command \in [Thread -> Command \union {NoCall}]
    /\ failures \in [Thread -> 0..Retries]
    /\ store \in Store
    /\ got \in [Thread -> SUBSET Reply]
    /\ result \in [Thread -> Reply \union {Error}]
    /\ spoiled \in BOOLEAN

\* A thread has a command from execute_command to its outcome, and counts the
\* failures of that call only.
Calling(t) ==
    /\ pc[t] \in {"full", "check", "send", "read"} <=> command[t] # NoCall
    /\ pc[t] \notin {"send", "read"} => failures[t] = 0

\* A connection carries only the command of the thread that reads from it, or
\* the reply to it.
Quiet(c) ==
    \/ ~Open(c)
    \/ socket[c].todo = <<>> /\ socket[c].replies = <<>>
    \/ \E t \in Thread :
          /\ pc[t] = "read" /\ conn[t] = c
          /\ \/ socket[c].todo = <<command[t]>> /\ socket[c].replies = <<>>
             \/ socket[c].todo = <<>> /\ \E r \in got[t] : socket[c].replies = <<r>>

CallInv ==
    /\ PoolInv
    /\ CallTypes
    /\ \A t \in Thread : Calling(t)
    /\ ~spoiled => \A c \in Connection : Quiet(c)

LEMMA Carried ==
    ASSUME CallTypes, NEW cmd \in Command
    PROVE  Apply(cmd, store).reply \in Reply /\ Apply(cmd, store).store \in Store
BY CallAssumption DEF CallTypes

LEMMA TodoTyped ==
    ASSUME CallTypes, NEW c \in Connection
    PROVE  /\ Todo(c) \in Seq(Command)
           /\ Open(c) => socket[c] \in Socket
BY DEF CallTypes, Todo, Open, Socket

\* The connection of a thread is one of the pool's.
LEMMA ConnTyped ==
    ASSUME PoolInv, CallTypes, NEW t \in Thread, conn[t] # NoConnection
    PROVE  conn[t] \in Connection
<1>1. conn[t] \in 1..created /\ created =< limit /\ created \in Nat /\ limit \in Nat
  BY DEF PoolInv, PoolTypes, Leases
<1>2. conn[t] \in 1..limit
  BY <1>1
<1> QED
  BY <1>2 DEF Connection, CallTypes

\* A replaced socket.
LEMMA SocketReplaced ==
    ASSUME CallTypes, NEW c \in Connection, NEW s \in Socket \union {NoSocket},
           socket' = [socket EXCEPT ![c] = s]
    PROVE  /\ socket' \in [Connection -> Socket \union {NoSocket}]
           /\ socket'[c] = s
           /\ \A d \in Connection \ {c} : socket'[d] = socket[d]
BY DEF CallTypes

LEMMA FreshTyped == Fresh \in Socket
BY DEF Fresh, Socket

\* Counts stay counts.
LEMMA AdriftTyped ==
    ASSUME CallTypes, NEW s \in Seq(Command), Adrift(s)
    PROVE  flying' \in [Command -> Nat] /\ \A cmd \in Command : flying'[cmd] = flying[cmd] + Times(cmd, s)
<1>1. \A cmd \in Command : Times(cmd, s) \in Nat
  BY TimesFinite
<1> QED
  BY <1>1 DEF CallTypes, Adrift

LEMMA OutcomeTyped ==
    ASSUME CallTypes, NEW t \in Thread, NEW r \in Reply \union {Error}, Outcome(t, r)
    PROVE  /\ result' \in [Thread -> Reply \union {Error}]
           /\ command' \in [Thread -> Command \union {NoCall}] /\ command'[t] = NoCall
           /\ failures' \in [Thread -> 0..Retries] /\ failures'[t] = 0
           /\ got' \in [Thread -> SUBSET Reply]
BY CallAssumption DEF CallTypes, Outcome

\* A step of a thread within its call.
LEMMA ThreadTypes ==
    ASSUME CallInv, NEW t \in Thread, Proceed(t) \/ Trouble(t)
    PROVE  CallTypes'
<1> DEFINE c == conn[t]
<1>1. pc[t] \in {"check", "send", "read"} => c \in Connection
  BY ConnTyped DEF CallInv, PoolInv, Leases
<1>2. pc[t] \in {"full", "check", "send", "read"} => command[t] \in Command
  BY DEF CallInv, CallTypes, Calling
<1>3. CallTypes /\ Error \in Reply \union {Error} /\ NoSocket \in Socket \union {NoSocket}
  BY DEF CallInv
<1>4. c \in Connection => Todo(c) \in Seq(Command)
  BY <1>3, TodoTyped
<1> HIDE DEF c
<1>5. CASE Full(t)
  BY <1>3, <1>5, OutcomeTyped DEF Full, CallTypes
<1>6. CASE Ready(t)
  <2>1. c \in Connection /\ Fresh \in Socket /\ socket[c] \in Socket \union {NoSocket}
    BY <1>1, <1>3, <1>6, FreshTyped DEF Ready, CallTypes
  <2>2. socket' \in [Connection -> Socket \union {NoSocket}]
    BY <1>3, <1>6, <2>1 DEF Ready, CallTypes, c
  <2> QED
    BY <1>3, <1>6, <2>2 DEF Ready, CallTypes
<1>7. CASE Reconnect(t)
  <2>1. c \in Connection /\ Fresh \in Socket /\ Adrift(Todo(c))
    BY <1>1, <1>7, FreshTyped DEF Reconnect, c
  <2>2. socket' \in [Connection -> Socket \union {NoSocket}] /\ flying' \in [Command -> Nat]
    BY <1>3, <1>4, <1>7, <2>1, AdriftTyped DEF Reconnect, CallTypes, c
  <2> QED
    BY <1>3, <1>7, <2>2 DEF Reconnect, CallTypes
<1>8. CASE Send(t)
  <2> DEFINE s == IF Open(c) THEN socket[c] ELSE Fresh
  <2>1. c \in Connection /\ s \in Socket /\ command[t] \in Command
    BY <1>1, <1>2, <1>3, <1>8, FreshTyped, TodoTyped DEF Send
  <2>2. socket' = [socket EXCEPT ![c] = [s EXCEPT !.todo = Append(@, command[t])]]
    BY <1>8 DEF Send, c
  <2> HIDE DEF s
  <2>3. [s EXCEPT !.todo = Append(@, command[t])] \in Socket
    BY <2>1 DEF Socket
  <2>4. socket' \in [Connection -> Socket \union {NoSocket}]
    BY <1>3, <2>1, <2>2, <2>3 DEF CallTypes
  <2> QED
    BY <1>3, <1>8, <2>4 DEF Send, CallTypes
<1>9. ASSUME SendFails(t) \/ ReadFails(t) \/ CheckFails(t)
      PROVE  CallTypes'
  <2>1. c \in Connection /\ command[t] \in Command
    BY <1>1, <1>2, <1>9 DEF SendFails, ReadFails, CheckFails
  <2>2. \E s \in Seq(Command) : Adrift(s)
    <3>1. /\ Todo(c) \in Seq(Command) /\ Todo(c) \o <<>> \in Seq(Command)
          /\ Todo(c) \o <<command[t]>> \in Seq(Command)
      BY <1>4, <2>1
    <3>2. Adrift(Todo(c)) \/ Adrift(Todo(c) \o <<>>) \/ Adrift(Todo(c) \o <<command[t]>>)
      BY <1>9 DEF SendFails, ReadFails, CheckFails, c
    <3> QED
      BY <3>1, <3>2
  <2>3. flying' \in [Command -> Nat]
    BY <1>3, <2>2, AdriftTyped
  <2>4. socket' = [socket EXCEPT ![c] = NoSocket] /\ (Failed(t) \/ Outcome(t, Error))
        /\ limit' = limit /\ store' = store /\ spoiled' = spoiled
    BY <1>9 DEF SendFails, ReadFails, CheckFails, c
  <2>5. socket' \in [Connection -> Socket \union {NoSocket}]
    BY <1>3, <2>4 DEF CallTypes
  <2>6. CASE Outcome(t, Error)
    <3>1. /\ result' \in [Thread -> Reply \union {Error}]
          /\ command' \in [Thread -> Command \union {NoCall}]
          /\ failures' \in [Thread -> 0..Retries]
          /\ got' \in [Thread -> SUBSET Reply]
      BY <1>3, <2>6, OutcomeTyped
    <3> QED
      BY <1>3, <2>3, <2>4, <2>5, <3>1 DEF CallTypes
  <2>7. CASE /\ failures[t] < Retries /\ failures' = [failures EXCEPT ![t] = @ + 1]
             /\ UNCHANGED <<command, result, got>>
    <3>1. failures' \in [Thread -> 0..Retries]
      BY <1>3, <2>7, CallAssumption DEF CallTypes
    <3> QED
      BY <1>3, <2>3, <2>4, <2>5, <2>7, <3>1 DEF CallTypes
  <2> QED
    BY <2>4, <2>6, <2>7 DEF Failed
<1>10. CASE Read(t)
  <2>1. /\ c \in Connection /\ socket[c] \in Socket /\ socket[c].replies # <<>>
        /\ Outcome(t, Head(socket[c].replies))
        /\ socket' = [socket EXCEPT ![c].replies = Tail(@)]
    BY <1>1, <1>3, <1>10, TodoTyped DEF Read, c
  <2>2. Head(socket[c].replies) \in Reply /\ Tail(socket[c].replies) \in Seq(Reply)
    BY <2>1 DEF Socket
  <2>3. [socket[c] EXCEPT !.replies = Tail(@)] \in Socket
    BY <2>1, <2>2 DEF Socket
  <2>4. socket' \in [Connection -> Socket \union {NoSocket}]
    BY <1>3, <2>1, <2>3 DEF CallTypes
  <2>5. /\ result' \in [Thread -> Reply \union {Error}]
        /\ command' \in [Thread -> Command \union {NoCall}]
        /\ failures' \in [Thread -> 0..Retries]
        /\ got' \in [Thread -> SUBSET Reply]
    BY <1>3, <2>1, <2>2, OutcomeTyped
  <2> QED
    BY <1>3, <1>10, <2>4, <2>5 DEF Read, CallTypes
<1>11. CASE Interrupt(t)
  BY <1>3, <1>11, OutcomeTyped DEF Interrupt, CallTypes
<1> QED
  BY <1>5, <1>6, <1>7, <1>8, <1>9, <1>10, <1>11 DEF Proceed, Trouble

LEMMA ExecuteTypes ==
    ASSUME CallInv, NEW t \in Thread, NEW cmd \in Command, Execute(t, cmd)
    PROVE  CallTypes'
BY DEF CallInv, CallTypes, Execute

LEMMA CarryTypes ==
    ASSUME CallTypes, NEW cmd \in Command, Carry(cmd)
    PROVE  store' \in Store /\ got' \in [Thread -> SUBSET Reply]
BY Carried DEF CallTypes, Carry

LEMMA ConnectionFinite == IsFiniteSet(Connection)
<1> DEFINE All == {1..n : n \in Limits}
<1>1. IsFiniteSet(All)
  <2> DEFINE f == [n \in Limits |-> 1..n]
  <2>1. f \in Surjection(Limits, All)
    BY DEF Surjection
  <2> HIDE DEF f, All
  <2> QED
    BY <2>1, FS_Surjection, PoolAssumption
<1>2. \A T \in All : IsFiniteSet(T)
  <2> TAKE T \in All
  <2>1. PICK n \in Limits : T = 1..n
    OBVIOUS
  <2>2. 1 \in Int /\ n \in Int
    BY PoolAssumption
  <2> QED
    BY <2>1, <2>2, FS_Interval
<1> HIDE DEF All
<1>3. IsFiniteSet(UNION All)
  BY <1>1, <1>2, FS_UNION
<1> QED
  BY <1>3 DEF Connection, All

Todos == [c \in Connection |-> Todo(c)]

LEMMA WaitingSpots ==
    ASSUME NEW cmd, NEW C \in SUBSET Connection
    PROVE  Waiting(cmd, C) = Spots(Todos, cmd, C)
<1>1. UNION {{c} \X DOMAIN Todo(c) : c \in C} = UNION {{c} \X DOMAIN Todos[c] : c \in C}
  BY DEF Todos
<1>2. \A p \in UNION {{c} \X DOMAIN Todo(c) : c \in C} : Todo(p[1])[p[2]] = Todos[p[1]][p[2]]
  BY DEF Todos
<1> QED
  BY <1>1, <1>2 DEF Waiting, Spots

LEMMA WaitingCounted ==
    ASSUME CallTypes, NEW cmd
    PROVE  Cardinality(Waiting(cmd, Connection)) \in Nat
<1>1. \A c \in Connection : Todos[c] \in Seq(Command)
  BY TodoTyped DEF Todos
<1>2. IsFiniteSet(Spots(Todos, cmd, Connection))
  BY <1>1, ConnectionFinite, SpotsFinite
<1> QED
  BY <1>2, WaitingSpots, FS_CardinalityType

LEMMA RestTypes ==
    ASSUME CallInv, Server \/ Disconnect
    PROVE  CallTypes'
<1>1. CallTypes
  BY DEF CallInv
<1>2. ASSUME NEW c \in Connection, Serve(c) PROVE CallTypes'
  <2> DEFINE cmd == Head(Todo(c))
  <2> DEFINE r == Apply(cmd, store).reply
  <2>1. Todo(c) \in Seq(Command) /\ Todo(c) # <<>> /\ Carry(cmd) /\ Open(c)
    BY <1>1, <1>2, TodoTyped DEF Serve, Todo
  <2>2. cmd \in Command /\ socket[c] \in Socket
    BY <1>1, <2>1, TodoTyped
  <2> HIDE DEF cmd
  <2>3. r \in Reply
    BY <1>1, <2>2, Carried
  <2>4. socket' = [socket EXCEPT ![c] = [socket[c] EXCEPT !.todo = Tail(@), !.replies = Append(@, r)]]
    BY <1>2 DEF Serve, cmd, r
  <2> HIDE DEF r
  <2>5. [socket[c] EXCEPT !.todo = Tail(@), !.replies = Append(@, r)] \in Socket
    <3> DEFINE s == socket[c]
    <3>1. s \in Socket /\ s.todo # <<>>
      BY <2>1, <2>2 DEF Todo
    <3>2. s.todo \in Seq(Command) /\ s.replies \in Seq(Reply)
      BY <3>1 DEF Socket
    <3>3. Tail(s.todo) \in Seq(Command) /\ Append(s.replies, r) \in Seq(Reply)
      BY <2>3, <3>1, <3>2
    <3> HIDE DEF s
    <3>4. [s EXCEPT !.todo = Tail(@), !.replies = Append(@, r)] \in Socket
      BY <3>1, <3>3 DEF Socket
    <3> QED
      BY <3>4 DEF s
  <2>6. socket' \in [Connection -> Socket \union {NoSocket}]
    <3> DEFINE new == [socket[c] EXCEPT !.todo = Tail(@), !.replies = Append(@, r)]
    <3>1. new \in Socket /\ socket' = [socket EXCEPT ![c] = new]
      BY <2>4, <2>5
    <3> HIDE DEF new
    <3> QED
      BY <1>1, <3>1 DEF CallTypes
  <2>7. store' \in Store /\ got' \in [Thread -> SUBSET Reply]
    BY <1>1, <2>1, <2>2, CarryTypes
  <2> QED
    BY <1>1, <1>2, <2>6, <2>7 DEF Serve, CallTypes
<1>3. ASSUME NEW c \in Connection, Close(c) PROVE CallTypes'
  <2> DEFINE s == socket[c]
  <2> DEFINE new == [todo |-> <<>>, replies |-> s.replies, closed |-> TRUE]
  <2>1. s \in Socket /\ socket' = [socket EXCEPT ![c] = new]
    BY <1>1, <1>3, TodoTyped DEF Close
  <2> HIDE DEF s
  <2>2. new \in Socket
    <3>1. <<>> \in Seq(Command) /\ s.replies \in Seq(Reply)
      BY <2>1 DEF Socket
    <3> QED
      BY <3>1 DEF Socket
  <2> HIDE DEF new
  <2>3. socket' \in [Connection -> Socket \union {NoSocket}]
    BY <1>1, <2>1, <2>2 DEF CallTypes
  <2> QED
    BY <1>1, <1>3, <2>3 DEF Close, CallTypes
<1>4. ASSUME NEW cmd \in Command, ServeLate(cmd) PROVE CallTypes'
  <2>1. store' \in Store /\ got' \in [Thread -> SUBSET Reply]
    BY <1>1, <1>4, CarryTypes DEF ServeLate
  <2>2. flying' \in [Command -> Nat]
    BY <1>1, <1>4 DEF ServeLate, CallTypes
  <2> QED
    BY <1>1, <1>4, <2>1, <2>2 DEF ServeLate, CallTypes
<1>5. CASE Disconnect
  <2>1. \A cmd \in Command : Cardinality(Waiting(cmd, Connection)) \in Nat
    BY <1>1, WaitingCounted
  <2>2. flying' \in [Command -> Nat]
    BY <1>1, <1>5, <2>1 DEF Disconnect, CallTypes
  <2> QED
    BY <1>1, <1>5, <2>2 DEF Disconnect, CallTypes
<1> QED
  BY <1>2, <1>3, <1>4, <1>5 DEF Server

-----------------------------------------------------------------------------
(***************************************************************************)
(* The invariant of the calls.                                             *)
(***************************************************************************)
LEMMA QuietKept ==
    ASSUME NEW d, Quiet(d), socket'[d] = socket[d],
           \A u \in Thread : (pc[u] = "read" /\ conn[u] = d) =>
              /\ pc'[u] = pc[u] /\ conn'[u] = conn[u] /\ command'[u] = command[u]
              /\ got[u] \subseteq got'[u]
    PROVE  Quiet(d)'
BY DEF Quiet, Open

\* t leaves the others, and connections other than its own, alone.
OthersKept(t) ==
    \A u \in Thread \ {t} :
       /\ pc'[u] = pc[u] /\ conn'[u] = conn[u] /\ command'[u] = command[u]
       /\ failures'[u] = failures[u] /\ got'[u] = got[u]

LEMMA OthersCall ==
    ASSUME CallInv, NEW t \in Thread, OthersKept(t), Calling(t)'
    PROVE  \A u \in Thread : Calling(u)'
BY DEF CallInv, OthersKept, Calling

LEMMA OthersQuiet ==
    ASSUME CallInv, NEW t \in Thread, OthersKept(t), NEW d \in Connection,
           ~spoiled, socket'[d] = socket[d], pc[t] = "read" => conn[t] # d
    PROVE  Quiet(d)'
BY QuietKept DEF CallInv, OthersKept

LEMMA ExecuteCalls ==
    ASSUME CallInv, NEW t \in Thread, NEW cmd \in Command, Execute(t, cmd)
    PROVE  CallInv'
<1>1. PoolInv' /\ CallTypes'
  BY ExecuteKeeps, ExecuteTypes DEF CallInv
<1>2. /\ pc[t] = "idle" /\ (Go(t, "check") \/ Go(t, "full"))
      /\ command' = [command EXCEPT ![t] = cmd]
      /\ \A u \in Thread \ {t} : conn'[u] = conn[u]
      /\ socket' = socket /\ failures' = failures /\ got' = got /\ spoiled' = spoiled
  BY DEF Execute, Take, Make, TooMany, CallInv, PoolInv, PoolTypes
<1>3. OthersKept(t) /\ Calling(t)'
  <2>1. /\ pc \in [Thread -> Place] /\ command \in [Thread -> Command \union {NoCall}]
        /\ cmd # NoCall /\ Calling(t)
    BY CallAssumption DEF CallInv, PoolInv, PoolTypes, CallTypes
  <2>2. /\ pc'[t] \in {"check", "full"} /\ command'[t] = cmd
        /\ \A u \in Thread \ {t} : pc'[u] = pc[u] /\ command'[u] = command[u]
    BY <1>2, <2>1 DEF Go
  <2> QED
    BY <1>2, <2>1, <2>2 DEF OthersKept, Calling
<1>4. ~spoiled' => \A d \in Connection : Quiet(d)'
  BY <1>2, <1>3, OthersQuiet
<1> QED
  BY <1>1, <1>3, <1>4, OthersCall DEF CallInv

LEMMA ReleaseCalls ==
    ASSUME CallInv, NEW t \in Thread, Release(t)
    PROVE  CallInv'
<1>1. PoolInv' /\ CallTypes'
  BY ReleaseKeeps DEF CallInv, CallTypes, Release
<1>2. /\ pc[t] = "release" /\ Go(t, "idle")
      /\ command' = command /\ socket' = socket /\ failures' = failures /\ got' = got
      /\ spoiled' = spoiled /\ \A u \in Thread \ {t} : conn'[u] = conn[u]
  BY DEF Release, CallInv, PoolInv, PoolTypes
<1>3. OthersKept(t) /\ Calling(t)'
  <2>1. pc \in [Thread -> Place] /\ Calling(t)
    BY DEF CallInv, PoolInv, PoolTypes
  <2>2. pc'[t] = "idle" /\ \A u \in Thread \ {t} : pc'[u] = pc[u]
    BY <1>2, <2>1 DEF Go
  <2> QED
    BY <1>2, <2>1, <2>2 DEF OthersKept, Calling
<1>4. ~spoiled' => \A d \in Connection : Quiet(d)'
  BY <1>2, <1>3, OthersQuiet
<1> QED
  BY <1>1, <1>3, <1>4, OthersCall DEF CallInv

\* An outcome, or the step to a place within the call.
LEMMA OutcomeCalls ==
    ASSUME CallInv, NEW t \in Thread, NEW r \in Reply \union {Error},
           Outcome(t, r), Go(t, "release"), conn' = conn
    PROVE  OthersKept(t) /\ Calling(t)'
<1>1. pc' = [pc EXCEPT ![t] = "release"] /\ pc \in [Thread -> Place]
  BY DEF CallInv, PoolInv, PoolTypes, Go
<1>2. /\ command' = [command EXCEPT ![t] = NoCall] /\ failures' = [failures EXCEPT ![t] = 0]
      /\ got' = [got EXCEPT ![t] = {}]
      /\ command \in [Thread -> Command \union {NoCall}] /\ failures \in [Thread -> 0..Retries]
      /\ got \in [Thread -> SUBSET Reply]
  BY DEF CallInv, CallTypes, Outcome
<1> QED
  BY <1>1, <1>2 DEF OthersKept, Calling

LEMMA WalkCalls ==
    ASSUME CallInv, NEW t \in Thread, NEW p \in {"send", "read"}, Go(t, p),
           pc[t] \in {"check", "send", "read"}, conn' = conn, command' = command, got' = got,
           failures' = failures \/ failures' = [failures EXCEPT ![t] = @ + 1]
    PROVE  OthersKept(t) /\ Calling(t)'
<1>1. pc' = [pc EXCEPT ![t] = p] /\ pc \in [Thread -> Place]
  BY DEF CallInv, PoolInv, PoolTypes, Go
<1>2. Calling(t) /\ failures \in [Thread -> 0..Retries]
  BY DEF CallInv, CallTypes
<1> QED
  BY <1>1, <1>2 DEF OthersKept, Calling

LEMMA FailedCalls ==
    ASSUME CallInv, NEW t \in Thread, Failed(t), pc[t] \in {"send", "read"}, conn' = conn
    PROVE  OthersKept(t) /\ Calling(t)'
<1>1. CASE Go(t, "release") /\ Outcome(t, Error)
  <2>1. Error \in Reply \union {Error}
    OBVIOUS
  <2> QED
    BY <1>1, <2>1, OutcomeCalls
<1>2. CASE /\ Go(t, "send") /\ failures' = [failures EXCEPT ![t] = @ + 1]
           /\ command' = command /\ got' = got
  BY <1>2, WalkCalls
<1> QED
  BY <1>1, <1>2 DEF Failed

\* What a thread finds on its own connection.
LEMMA OwnQuiet ==
    ASSUME CallInv, NEW t \in Thread, ~spoiled, conn[t] # NoConnection, Open(conn[t])
    PROVE  \/ socket[conn[t]].todo = <<>> /\ socket[conn[t]].replies = <<>>
           \/ /\ pc[t] = "read"
              /\ \/ socket[conn[t]].todo = <<command[t]>> /\ socket[conn[t]].replies = <<>>
                 \/ /\ socket[conn[t]].todo = <<>>
                    /\ \E r \in got[t] : socket[conn[t]].replies = <<r>>
<1>1. conn[t] \in Connection
  BY ConnTyped DEF CallInv
<1>2. Quiet(conn[t])
  BY <1>1 DEF CallInv
<1>3. \A u \in Thread : conn[u] = conn[t] => u = t
  BY DEF CallInv, PoolInv, Leases
<1> QED
  BY <1>2, <1>3 DEF Quiet

LEMMA ThreadCalls ==
    ASSUME CallInv, NEW t \in Thread, Proceed(t) \/ Trouble(t)
    PROVE  CallInv' /\ OthersKept(t)
<1> SUFFICES ASSUME NEW CONSTANT c, c = conn[t] PROVE CallInv' /\ OthersKept(t)
  OBVIOUS
<1>1. PoolInv' /\ CallTypes'
  BY ThreadKeeps, ThreadTypes DEF CallInv
<1>2. pc[t] \in {"check", "send", "read"} => c \in Connection /\ c # NoConnection
  BY ConnTyped DEF CallInv, PoolInv, Leases
<1>3. Error \in Reply \union {Error}
  OBVIOUS
<1>4. CASE Full(t)
  <2>1. OthersKept(t) /\ Calling(t)'
    BY <1>3, <1>4, OutcomeCalls DEF Full
  <2>2. ~spoiled' => \A d \in Connection : Quiet(d)'
    BY <1>4, <2>1, OthersQuiet DEF Full
  <2> QED
    BY <1>1, <2>1, <2>2, OthersCall DEF CallInv
<1>5. CASE Ready(t) \/ Reconnect(t)
  <2>1. /\ pc[t] = "check" /\ Go(t, "send") /\ c \in Connection /\ c # NoConnection
        /\ conn' = conn /\ command' = command /\ got' = got /\ failures' = failures
        /\ spoiled' = spoiled
    BY <1>2, <1>5 DEF Ready, Reconnect
  <2>2. OthersKept(t) /\ Calling(t)'
    BY <2>1, WalkCalls
  <2>3. /\ \A d \in Connection \ {c} : socket'[d] = socket[d]
        /\ socket'[c] = Fresh \/ (Open(c) /\ socket'[c] = socket[c])
    BY <1>5, <2>1 DEF Ready, Reconnect, CallInv, CallTypes
  <2>4. ASSUME ~spoiled PROVE Quiet(c)'
    <3>1. Open(c) => socket[c].todo = <<>> /\ socket[c].replies = <<>>
      BY <2>1, <2>4, OwnQuiet
    <3> QED
      BY <2>3, <3>1 DEF Quiet, Fresh
  <2>5. ~spoiled' => \A d \in Connection : Quiet(d)'
    BY <2>1, <2>2, <2>3, <2>4, OthersQuiet
  <2> QED
    BY <1>1, <2>2, <2>5, OthersCall DEF CallInv
<1>6. CASE Send(t)
  <2>1. /\ pc[t] = "send" /\ Go(t, "read") /\ c \in Connection /\ c # NoConnection
        /\ conn' = conn /\ command' = command /\ got' = got /\ failures' = failures
        /\ spoiled' = spoiled
    BY <1>2, <1>6 DEF Send
  <2>2. OthersKept(t) /\ Calling(t)'
    BY <2>1, WalkCalls
  <2> DEFINE s == IF Open(c) THEN socket[c] ELSE Fresh
  <2>3. socket' = [socket EXCEPT ![c] = [s EXCEPT !.todo = Append(@, command[t])]]
    BY <1>6 DEF Send
  <2>4. s \in Socket
    BY <2>1, FreshTyped, TodoTyped DEF CallInv
  <2>5. ASSUME ~spoiled PROVE Quiet(c)'
    <3>1. s.todo = <<>> /\ s.replies = <<>>
      BY <2>1, <2>5, OwnQuiet DEF Fresh
    <3>2. pc'[t] = "read" /\ conn'[t] = c /\ command'[t] = command[t]
      BY <2>1 DEF Go, CallInv, PoolInv, PoolTypes
    <3> HIDE DEF s
    <3>3. socket'[c] = [s EXCEPT !.todo = Append(@, command[t])]
      BY <2>1, <2>3 DEF CallInv, CallTypes
    <3>4. socket'[c].todo = <<command[t]>> /\ socket'[c].replies = <<>>
      BY <2>4, <3>1, <3>3 DEF Socket
    <3> QED
      BY <3>2, <3>4 DEF Quiet
  <2>6. \A d \in Connection \ {c} : socket'[d] = socket[d]
    BY <2>1, <2>3 DEF CallInv, CallTypes
  <2>7. ~spoiled' => \A d \in Connection : Quiet(d)'
    BY <2>1, <2>2, <2>5, <2>6, OthersQuiet
  <2> QED
    BY <1>1, <2>2, <2>7, OthersCall DEF CallInv
<1>7. CASE SendFails(t) \/ ReadFails(t) \/ CheckFails(t)
  <2>1. /\ c \in Connection /\ conn' = conn /\ spoiled' = spoiled
        /\ socket' = [socket EXCEPT ![c] = NoSocket]
    BY <1>2, <1>7 DEF SendFails, ReadFails, CheckFails
  <2>2. OthersKept(t) /\ Calling(t)'
    BY <1>3, <1>7, FailedCalls, OutcomeCalls DEF SendFails, ReadFails, CheckFails
  <2>3. /\ socket'[c] = NoSocket /\ \A d \in Connection \ {c} : socket'[d] = socket[d]
    BY <2>1 DEF CallInv, CallTypes
  <2>4. Quiet(c)'
    BY <2>3 DEF Quiet, Open
  <2>5. ~spoiled' => \A d \in Connection : Quiet(d)'
    BY <2>1, <2>2, <2>3, <2>4, OthersQuiet
  <2> QED
    BY <1>1, <2>2, <2>5, OthersCall DEF CallInv
<1>8. CASE Read(t)
  <2>1. /\ pc[t] = "read" /\ c \in Connection /\ c # NoConnection /\ Open(c)
        /\ conn' = conn /\ spoiled' = spoiled /\ Go(t, "release")
        /\ socket[c] \in Socket /\ socket[c].replies # <<>>
        /\ Outcome(t, Head(socket[c].replies))
        /\ socket' = [socket EXCEPT ![c].replies = Tail(@)]
    BY <1>2, <1>8, TodoTyped DEF Read, CallInv
  <2>2. Head(socket[c].replies) \in Reply \union {Error}
    BY <2>1 DEF Socket
  <2>3. OthersKept(t) /\ Calling(t)'
    BY <2>1, <2>2, OutcomeCalls
  <2>4. ASSUME ~spoiled PROVE Quiet(c)'
    <3>1. socket[c].todo = <<>> /\ \E r \in got[t] : socket[c].replies = <<r>>
      BY <2>1, <2>4, OwnQuiet
    <3>2. socket'[c] = [socket[c] EXCEPT !.replies = Tail(@)]
      BY <2>1 DEF CallInv, CallTypes
    <3>3. socket'[c].todo = <<>> /\ socket'[c].replies = <<>>
      BY <2>1, <3>1, <3>2 DEF Socket
    <3> QED
      BY <3>3 DEF Quiet
  <2>5. \A d \in Connection \ {c} : socket'[d] = socket[d]
    BY <2>1 DEF CallInv, CallTypes
  <2>6. ~spoiled' => \A d \in Connection : Quiet(d)'
    BY <2>1, <2>3, <2>4, <2>5, OthersQuiet
  <2> QED
    BY <1>1, <2>3, <2>6, OthersCall DEF CallInv
<1>9. CASE Interrupt(t)
  <2>1. OthersKept(t) /\ Calling(t)'
    BY <1>3, <1>9, OutcomeCalls DEF Interrupt
  <2>2. ~spoiled' => ~spoiled /\ pc[t] # "read"
    BY <1>9 DEF Interrupt
  <2>3. ~spoiled' => \A d \in Connection : Quiet(d)'
    BY <1>9, <2>1, <2>2, OthersQuiet DEF Interrupt
  <2> QED
    BY <1>1, <2>1, <2>3, OthersCall DEF CallInv
<1> QED
  BY <1>4, <1>5, <1>6, <1>7, <1>8, <1>9 DEF Proceed, Trouble

LEMMA RestCalls ==
    ASSUME CallInv, Server \/ Disconnect
    PROVE  CallInv'
<1>1. CallTypes' /\ CallTypes
  BY RestTypes DEF CallInv
<1>2. /\ UNCHANGED pooled /\ UNCHANGED pc
      /\ conn' = conn /\ command' = command /\ failures' = failures /\ spoiled' = spoiled
  BY DEF Server, Serve, Close, ServeLate, Disconnect, pooled
<1>3. PoolInv'
  BY <1>2, RestKeeps DEF CallInv
<1>4. \A u \in Thread : got[u] \subseteq got'[u]
  <2>1. got' = got \/ \E cmd : Carry(cmd)
    BY DEF Server, Serve, Close, ServeLate, Disconnect
  <2>2. ASSUME NEW cmd, Carry(cmd), NEW u \in Thread PROVE got[u] \subseteq got'[u]
    BY <2>2 DEF Carry
  <2> QED
    BY <2>1, <2>2
<1>5. \A u \in Thread : Calling(u)'
  BY <1>2 DEF CallInv, Calling
<1>6. ASSUME ~spoiled, NEW d \in Connection PROVE Quiet(d)'
  <2>1. Quiet(d)
    BY <1>6 DEF CallInv
  <2>2. CASE socket'[d] = socket[d]
    BY <1>2, <1>4, <2>1, <2>2, QuietKept
  <2>3. CASE socket'[d] # socket[d]
    <3>1. Serve(d) \/ Close(d) \/ Disconnect
      BY <1>1, <2>3 DEF Server, Serve, Close, ServeLate, CallTypes
    <3>2. CASE Disconnect
      BY <1>6, <3>2 DEF Disconnect, Quiet, Open
    <3>3. CASE Close(d)
      <4>1. socket'[d].todo = <<>> /\ socket'[d].replies = socket[d].replies /\ Open(d)
        BY <1>1, <3>3 DEF Close, CallTypes
      <4> QED
        BY <1>2, <1>4, <2>1, <4>1 DEF Quiet
    <3>4. CASE Serve(d)
      <4> DEFINE r == Apply(Head(Todo(d)), store).reply
      <4>1. /\ Todo(d) # <<>> /\ Open(d) /\ Todo(d) = socket[d].todo /\ socket[d] \in Socket
            /\ socket' = [socket EXCEPT ![d] = [socket[d] EXCEPT !.todo = Tail(@), !.replies = Append(@, r)]]
            /\ Carry(Head(Todo(d)))
        BY <1>1, <3>4, TodoTyped DEF Serve, Todo
      <4>2. PICK t \in Thread : /\ pc[t] = "read" /\ conn[t] = d
                                /\ socket[d].todo = <<command[t]>> /\ socket[d].replies = <<>>
        BY <2>1, <4>1 DEF Quiet
      <4>3. command[t] \in Command /\ Head(Todo(d)) = command[t]
        BY <1>1, <4>1, <4>2 DEF CallInv, Calling, CallTypes
      <4>4. r \in got'[t]
        BY <1>1, <4>1, <4>3 DEF Carry, CallTypes
      <4> HIDE DEF r
      <4>5. socket'[d] = [socket[d] EXCEPT !.todo = Tail(@), !.replies = Append(@, r)]
        BY <1>1, <4>1 DEF CallTypes
      <4>6. socket'[d].todo = <<>> /\ socket'[d].replies = <<r>>
        <5> DEFINE s == socket[d]
        <5>1. /\ s \in Socket /\ s.todo = <<command[t]>> /\ s.replies = <<>>
              /\ socket'[d] = [s EXCEPT !.todo = Tail(@), !.replies = Append(@, r)]
          BY <4>1, <4>2, <4>5
        <5> HIDE DEF s
        <5>2. socket'[d].todo = Tail(s.todo) /\ socket'[d].replies = Append(s.replies, r)
          BY <5>1 DEF Socket
        <5> QED
          BY <5>1, <5>2
      <4> QED
        BY <1>2, <4>2, <4>4, <4>6 DEF Quiet
    <3> QED
      BY <3>1, <3>2, <3>3, <3>4
  <2> QED
    BY <2>2, <2>3
<1> QED
  BY <1>1, <1>2, <1>3, <1>5, <1>6 DEF CallInv

-----------------------------------------------------------------------------
(***************************************************************************)
(* How often a command may still be carried out.                           *)
(***************************************************************************)
Useds == [t \in Thread |-> Used(t)]

\* What is on its way to the server, and what a caller may still send.
Loose(cmd) == flying[cmd] + Cardinality(Waiting(cmd, Connection))
Spare(t, cmd) == IF command[t] = cmd THEN Retries + 1 - Used(t) ELSE 0

LEMMA UsedTyped ==
    ASSUME CallTypes, NEW t \in Thread, NEW cmd
    PROVE  Used(t) \in 0..(Retries + 1) /\ Spare(t, cmd) \in Nat
BY CallAssumption DEF CallTypes, Used, Spare

LEMMA AttemptsTries ==
    ASSUME NEW cmd
    PROVE  Attempts(cmd) = Tries(command, Useds, cmd, Thread)
BY DEF Attempts, Tries, Useds

\* Attempts, t apart.
LEMMA AttemptsApart ==
    ASSUME CallTypes, NEW cmd, NEW t \in Thread
    PROVE  /\ Cardinality(Attempts(cmd)) =
                 Cardinality(Tries(command, Useds, cmd, Thread \ {t})) + Spare(t, cmd)
           /\ Cardinality(Attempts(cmd)) \in Nat
           /\ Cardinality(Tries(command, Useds, cmd, Thread \ {t})) \in Nat
<1>1. Useds[t] = Used(t) /\ Useds[t] \in 0..(Retries + 1) /\ IsFiniteSet(Thread)
  BY UsedTyped, CallAssumption DEF Useds
<1>2. /\ Cardinality(Tries(command, Useds, cmd, Thread)) =
            Cardinality(Tries(command, Useds, cmd, Thread \ {t}))
            + (IF command[t] = cmd THEN Retries + 1 - Useds[t] ELSE 0)
      /\ Cardinality(Tries(command, Useds, cmd, Thread)) \in Nat
      /\ Cardinality(Tries(command, Useds, cmd, Thread \ {t})) \in Nat
  BY <1>1, TriesApart
<1> QED
  BY <1>1, <1>2, AttemptsTries DEF Spare

\* What waits, c apart.
LEMMA WaitingApart ==
    ASSUME CallTypes, NEW cmd, NEW c \in Connection
    PROVE  /\ Cardinality(Waiting(cmd, Connection)) =
                 Cardinality(Spots(Todos, cmd, Connection \ {c})) + Times(cmd, Todo(c))
           /\ Cardinality(Waiting(cmd, Connection)) \in Nat
           /\ Cardinality(Spots(Todos, cmd, Connection \ {c})) \in Nat
           /\ Times(cmd, Todo(c)) \in Nat
<1>1. (\A d \in Connection : Todos[d] \in Seq(Command)) /\ Todos[c] = Todo(c)
  BY TodoTyped DEF Todos
<1>2. /\ Cardinality(Spots(Todos, cmd, Connection)) =
            Cardinality(Spots(Todos, cmd, Connection \ {c})) + Times(cmd, Todos[c])
      /\ Cardinality(Spots(Todos, cmd, Connection)) \in Nat
      /\ Cardinality(Spots(Todos, cmd, Connection \ {c})) \in Nat
  BY <1>1, ConnectionFinite, SpotsApart
<1>3. Times(cmd, Todo(c)) \in Nat
  BY <1>1, TimesFinite
<1> QED
  BY <1>1, <1>2, <1>3, WaitingSpots

LEMMA AttemptsCounted ==
    ASSUME CallTypes, NEW cmd
    PROVE  Cardinality(Attempts(cmd)) \in Nat
<1>1. CASE Thread = {}
  <2>1. Attempts(cmd) = {}
    BY <1>1 DEF Attempts
  <2> QED
    BY <2>1, FS_EmptySet
<1>2. ASSUME NEW t \in Thread PROVE Cardinality(Attempts(cmd)) \in Nat
  BY AttemptsApart
<1> QED
  BY <1>1, <1>2

Counts ==
    \A cmd \in Command :
       /\ Cardinality(Attempts(cmd)) \in Nat
       /\ Cardinality(Waiting(cmd, Connection)) \in Nat
       /\ \A t \in Thread :
             /\ Cardinality(Attempts(cmd)) =
                   Cardinality(Tries(command, Useds, cmd, Thread \ {t})) + Spare(t, cmd)
             /\ Cardinality(Tries(command, Useds, cmd, Thread \ {t})) \in Nat
             /\ Spare(t, cmd) \in Nat
       /\ \A c \in Connection :
             /\ Cardinality(Waiting(cmd, Connection)) =
                   Cardinality(Spots(Todos, cmd, Connection \ {c})) + Times(cmd, Todo(c))
             /\ Cardinality(Spots(Todos, cmd, Connection \ {c})) \in Nat
             /\ Times(cmd, Todo(c)) \in Nat

LEMMA Counting == CallTypes => Counts
BY AttemptsCounted, WaitingCounted, AttemptsApart, WaitingApart, UsedTyped DEF Counts

LEMMA CountingOn == CallTypes' => Counts'
BY Counting, PTL

LEMMA AttemptsStep ==
    ASSUME CallTypes, CallTypes', NEW cmd \in Command, NEW t \in Thread, OthersKept(t)
    PROVE  /\ Cardinality(Attempts(cmd))' =
                 Cardinality(Attempts(cmd)) + Spare(t, cmd)' - Spare(t, cmd)
           /\ Cardinality(Attempts(cmd)) \in Nat /\ Cardinality(Attempts(cmd))' \in Nat
           /\ Spare(t, cmd) \in Nat /\ Spare(t, cmd)' \in Nat
<1>1. Counts /\ Counts'
  BY Counting, CountingOn
<1>2. Tries(command, Useds, cmd, Thread \ {t})' = Tries(command, Useds, cmd, Thread \ {t})
  BY DEF Tries, Useds, Used, OthersKept
<1> QED
  BY <1>1, <1>2 DEF Counts

LEMMA WaitingStep ==
    ASSUME CallTypes, CallTypes', NEW cmd \in Command, NEW c \in Connection,
           \A d \in Connection \ {c} : socket'[d] = socket[d]
    PROVE  /\ Cardinality(Waiting(cmd, Connection))' =
                 Cardinality(Waiting(cmd, Connection)) + Times(cmd, Todo(c))' - Times(cmd, Todo(c))
           /\ Cardinality(Waiting(cmd, Connection)) \in Nat
           /\ Cardinality(Waiting(cmd, Connection))' \in Nat
           /\ Times(cmd, Todo(c)) \in Nat /\ Times(cmd, Todo(c))' \in Nat
<1>1. Counts /\ Counts'
  BY Counting, CountingOn
<1>2. Spots(Todos, cmd, Connection \ {c})' = Spots(Todos, cmd, Connection \ {c})
  <2>1. \A d \in Connection \ {c} : Todos'[d] = Todos[d]
    BY DEF Todos, Todo, Open
  <2>2. UNION {{d} \X DOMAIN Todos'[d] : d \in Connection \ {c}}
        = UNION {{d} \X DOMAIN Todos[d] : d \in Connection \ {c}}
    BY <2>1
  <2>3. \A p \in UNION {{d} \X DOMAIN Todos[d] : d \in Connection \ {c}} :
           Todos'[p[1]][p[2]] = Todos[p[1]][p[2]]
    BY <2>1
  <2> QED
    BY <2>2, <2>3 DEF Spots
<1> QED
  BY <1>1, <1>2 DEF Counts

LEMMA DueParts ==
    ASSUME CallTypes, CallTypes', NEW cmd \in Command
    PROVE  /\ Due(cmd) = Loose(cmd) + Cardinality(Attempts(cmd))
           /\ Due(cmd)' = Loose(cmd)' + Cardinality(Attempts(cmd))'
           /\ Due(cmd) \in Nat /\ Due(cmd)' \in Nat /\ Loose(cmd) \in Nat /\ Loose(cmd)' \in Nat
           /\ Cardinality(Attempts(cmd)) \in Nat /\ Cardinality(Attempts(cmd))' \in Nat
<1>1. Counts /\ Counts'
  BY Counting, CountingOn
<1>2. flying[cmd] \in Nat /\ flying'[cmd] \in Nat
  BY DEF CallTypes
<1>3. /\ Cardinality(Attempts(cmd)) \in Nat /\ Cardinality(Attempts(cmd))' \in Nat
      /\ Cardinality(Waiting(cmd, Connection)) \in Nat
      /\ Cardinality(Waiting(cmd, Connection))' \in Nat
  BY <1>1 DEF Counts
<1> QED
  BY <1>2, <1>3 DEF Due, Loose

LEMMA LooseStays ==
    ASSUME UNCHANGED <<flying, socket>>, NEW cmd
    PROVE  Loose(cmd)' = Loose(cmd)
BY DEF Loose, Waiting, Todo, Open

LEMMA LooseStep ==
    ASSUME CallTypes, CallTypes', NEW cmd \in Command, NEW c \in Connection,
           \A d \in Connection \ {c} : socket'[d] = socket[d]
    PROVE  /\ Loose(cmd)' - Loose(cmd) =
                 (flying'[cmd] + Times(cmd, Todo(c))') - (flying[cmd] + Times(cmd, Todo(c)))
           /\ Times(cmd, Todo(c)) \in Nat /\ Times(cmd, Todo(c))' \in Nat
           /\ flying[cmd] \in Nat /\ flying'[cmd] \in Nat
<1>1. flying[cmd] \in Nat /\ flying'[cmd] \in Nat
  BY DEF CallTypes
<1> QED
  BY <1>1, WaitingStep DEF Loose

LEMMA DueStep ==
    ASSUME CallTypes, CallTypes', NEW cmd \in Command, NEW t \in Thread, OthersKept(t)
    PROVE  /\ Due(cmd)' - Due(cmd) = (Loose(cmd)' - Loose(cmd)) + (Spare(t, cmd)' - Spare(t, cmd))
           /\ Spare(t, cmd) \in Nat /\ Spare(t, cmd)' \in Nat
BY DueParts, AttemptsStep

\* A call that is over has no attempt left.
LEMMA SpareGone ==
    ASSUME NEW cmd \in Command, NEW t \in Thread, command'[t] = NoCall
    PROVE  Spare(t, cmd)' = 0
BY CallAssumption DEF Spare

LEMMA ExecuteCounts ==
    ASSUME CallInv, NEW t \in Thread, NEW cmd \in Command, Execute(t, cmd), NEW x \in Command
    PROVE  /\ Loose(x)' = Loose(x)
           /\ Due(x)' = Due(x) + (IF x = cmd THEN Retries + 1 ELSE 0)
<1>1. CallTypes /\ CallTypes' /\ pc \in [Thread -> Place] /\ Calling(t)
  BY ExecuteTypes DEF CallInv, PoolInv, PoolTypes
<1>2. /\ pc[t] = "idle" /\ (Go(t, "check") \/ Go(t, "full"))
      /\ command' = [command EXCEPT ![t] = cmd]
      /\ \A u \in Thread \ {t} : conn'[u] = conn[u]
      /\ socket' = socket /\ flying' = flying /\ failures' = failures /\ got' = got
  BY DEF Execute, Take, Make, TooMany, CallInv, PoolInv, PoolTypes
<1>3. OthersKept(t) /\ pc'[t] # "read" /\ command'[t] = cmd /\ command[t] = NoCall /\ failures'[t] = 0
  BY <1>1, <1>2 DEF OthersKept, Go, CallTypes, Calling
<1>4. Spare(t, x) = 0 /\ Spare(t, x)' = (IF x = cmd THEN Retries + 1 ELSE 0)
  BY <1>3, CallAssumption DEF Spare, Used
<1>5. Loose(x)' = Loose(x)
  BY <1>2, LooseStays
<1> QED
  BY <1>1, <1>3, <1>4, <1>5, DueStep, DueParts, CallAssumption

LEMMA ReleaseCounts ==
    ASSUME CallInv, NEW t \in Thread, Release(t), NEW x \in Command
    PROVE  Loose(x)' = Loose(x) /\ Due(x)' = Due(x)
<1>1. /\ pc[t] = "release" /\ pc' = [pc EXCEPT ![t] = "idle"] /\ pc \in [Thread -> Place]
      /\ UNCHANGED <<command, socket, flying, failures>>
  BY DEF Release, Go, CallInv, PoolInv, PoolTypes
<1>2. \A u \in Thread : Used(u)' = Used(u)
  BY <1>1 DEF Used
<1>3. Attempts(x)' = Attempts(x)
  BY <1>1, <1>2 DEF Attempts
<1>4. Waiting(x, Connection)' = Waiting(x, Connection)
  BY <1>1 DEF Waiting, Todo, Open
<1> QED
  BY <1>1, <1>3, <1>4 DEF Loose, Due

\* A thread only uses up attempts; what it sends is its own command.
Sends(t, x) ==
    x = command[t] /\ (SendFails(t) \/ (Send(t) /\ Loose(x)' =< Loose(x) + 1))

LEMMA ThreadCounts ==
    ASSUME CallInv, NEW t \in Thread, Proceed(t) \/ Trouble(t), NEW x \in Command
    PROVE  Due(x)' =< Due(x) /\ (Loose(x)' =< Loose(x) \/ Sends(t, x))
<1> SUFFICES ASSUME NEW CONSTANT c, c = conn[t]
             PROVE  Due(x)' =< Due(x) /\ (Loose(x)' =< Loose(x) \/ Sends(t, x))
  OBVIOUS
<1>1. CallTypes /\ CallTypes' /\ OthersKept(t) /\ Calling(t) /\ pc \in [Thread -> Place]
  BY ThreadCalls DEF CallInv, PoolInv, PoolTypes
<1>2. pc[t] \in {"check", "send", "read"} => c \in Connection
  BY ConnTyped DEF CallInv, PoolInv, Leases
<1>3. /\ Due(x)' - Due(x) = (Loose(x)' - Loose(x)) + (Spare(t, x)' - Spare(t, x))
      /\ Spare(t, x) \in Nat /\ Spare(t, x)' \in Nat
      /\ Due(x) \in Nat /\ Due(x)' \in Nat /\ Loose(x) \in Nat /\ Loose(x)' \in Nat
  BY <1>1, DueStep, DueParts
<1> SUFFICES /\ Loose(x)' - Loose(x) =< Spare(t, x) - Spare(t, x)'
             /\ Loose(x)' =< Loose(x) \/ Sends(t, x)
  BY <1>3
<1>4. command'[t] = NoCall => Spare(t, x)' = 0
  BY SpareGone
<1>5. /\ command \in [Thread -> Command \union {NoCall}] /\ failures \in [Thread -> 0..Retries]
      /\ flying \in [Command -> Nat] /\ Retries \in Nat
      /\ socket \in [Connection -> Socket \union {NoSocket}]
  BY <1>1, CallAssumption DEF CallTypes
<1>6. ASSUME c \in Connection PROVE Todo(c) \in Seq(Command) /\ Times(x, Todo(c)) \in Nat
  BY <1>1, <1>6, TodoTyped, TimesFinite
<1>7. ASSUME c \in Connection, \A d \in Connection \ {c} : socket'[d] = socket[d]
      PROVE  /\ Loose(x)' - Loose(x) =
                   (flying'[x] + Times(x, Todo(c))') - (flying[x] + Times(x, Todo(c)))
             /\ Times(x, Todo(c)) \in Nat /\ Times(x, Todo(c))' \in Nat
             /\ flying[x] \in Nat /\ flying'[x] \in Nat
  BY <1>1, <1>7, LooseStep
<1>8. CASE Full(t) \/ Interrupt(t)
  <2>1. UNCHANGED <<flying, socket>> /\ Outcome(t, Error)
    BY <1>8 DEF Full, Interrupt
  <2>2. command'[t] = NoCall
    BY <1>5, <2>1 DEF Outcome
  <2>3. Loose(x)' = Loose(x)
    BY <2>1, LooseStays
  <2> QED
    BY <1>3, <1>4, <2>2, <2>3
<1>9. CASE Ready(t) \/ Reconnect(t)
  <2>1. /\ c \in Connection /\ pc[t] = "check" /\ Go(t, "send")
        /\ command' = command /\ failures' = failures
    BY <1>2, <1>9 DEF Ready, Reconnect
  <2>2. Spare(t, x)' = Spare(t, x)
    BY <1>1, <2>1 DEF Spare, Used, Go
  <2>3. \A d \in Connection \ {c} : socket'[d] = socket[d]
    BY <1>5, <1>9, <2>1 DEF Ready, Reconnect
  <2>4. flying'[x] + Times(x, Todo(c))' = flying[x] + Times(x, Todo(c))
    <3>1. CASE Ready(t)
      <4>1. Todo(c)' = Todo(c) /\ flying' = flying
        <5>1. socket'[c] = IF Open(c) THEN socket[c] ELSE Fresh
          BY <1>5, <2>1, <3>1 DEF Ready
        <5> QED
          BY <3>1, <5>1 DEF Ready, Todo, Open, Fresh
      <4> QED
        BY <4>1
    <3>2. CASE Reconnect(t)
      <4>1. socket'[c] = Fresh /\ Adrift(Todo(c))
        BY <1>5, <2>1, <3>2 DEF Reconnect
      <4>2. Todo(c)' = <<>>
        BY <4>1 DEF Todo, Open, Fresh
      <4>3. Times(x, Todo(c))' = 0
        BY <4>2, TimesOfNone
      <4>4. flying'[x] = flying[x] + Times(x, Todo(c))
        BY <1>1, <1>6, <2>1, <4>1, AdriftTyped
      <4> QED
        BY <1>5, <1>6, <2>1, <4>3, <4>4
    <3> QED
      BY <1>9, <3>1, <3>2
  <2>5. /\ Loose(x)' - Loose(x) =
              (flying'[x] + Times(x, Todo(c))') - (flying[x] + Times(x, Todo(c)))
        /\ Times(x, Todo(c)) \in Nat /\ Times(x, Todo(c))' \in Nat
        /\ flying[x] \in Nat /\ flying'[x] \in Nat
    BY <1>7, <2>1, <2>3
  <2>6. flying'[x] + Times(x, Todo(c))' \in Nat /\ flying[x] + Times(x, Todo(c)) \in Nat
    BY <2>5
  <2>7. Loose(x)' - Loose(x) = 0
    BY <2>4, <2>5, <2>6
  <2>8. Spare(t, x) - Spare(t, x)' = 0
    BY <1>3, <2>2
  <2>9. Loose(x)' =< Loose(x)
    BY <1>3, <2>7
  <2> QED
    BY <2>7, <2>8, <2>9
<1>10. CASE Send(t)
  <2> DEFINE s == IF Open(c) THEN socket[c] ELSE Fresh
  <2>1. /\ c \in Connection /\ pc[t] = "send" /\ Go(t, "read")
        /\ command' = command /\ failures' = failures /\ flying' = flying
        /\ socket' = [socket EXCEPT ![c] = [s EXCEPT !.todo = Append(@, command[t])]]
        /\ command[t] \in Command
    BY <1>1, <1>2, <1>5, <1>10 DEF Send, Calling
  <2>2. s \in Socket /\ s.todo = Todo(c)
    BY <1>1, <2>1, FreshTyped, TodoTyped DEF Todo, Fresh
  <2> HIDE DEF s
  <2>3. /\ socket'[c] = [s EXCEPT !.todo = Append(@, command[t])]
        /\ \A d \in Connection \ {c} : socket'[d] = socket[d]
    BY <1>5, <2>1
  <2>4. Todo(c)' = Append(Todo(c), command[t])
    <3>1. socket'[c] \in Socket
      <4>1. [s EXCEPT !.todo = Append(@, command[t])] \in Socket
        BY <2>1, <2>2 DEF Socket
      <4> QED
        BY <2>3, <4>1
    <3>2. socket'[c].todo = Append(Todo(c), command[t])
      BY <2>2, <2>3 DEF Socket
    <3> QED
      BY <3>1, <3>2, SocketAssumption DEF Todo, Open
  <2>5. Times(x, Todo(c))' = Times(x, Todo(c)) + (IF command[t] = x THEN 1 ELSE 0)
    BY <1>6, <2>1, <2>4, TimesOfMore
  <2>6. Spare(t, x)' = Spare(t, x) - (IF command[t] = x THEN 1 ELSE 0)
    BY <1>1, <1>5, <2>1 DEF Spare, Used, Go
  <2>7. /\ Loose(x)' - Loose(x) =
              (flying'[x] + Times(x, Todo(c))') - (flying[x] + Times(x, Todo(c)))
        /\ Times(x, Todo(c)) \in Nat /\ Times(x, Todo(c))' \in Nat
        /\ flying[x] \in Nat /\ flying'[x] \in Nat
    BY <1>7, <2>1, <2>3
  <2> DEFINE one == IF command[t] = x THEN 1 ELSE 0
  <2>8. one \in {0, 1} /\ (x # command[t] => one = 0)
    OBVIOUS
  <2>9. /\ Times(x, Todo(c))' = Times(x, Todo(c)) + one
        /\ Spare(t, x)' = Spare(t, x) - one
    BY <2>5, <2>6
  <2> HIDE DEF one
  <2>10. Loose(x)' - Loose(x) = one
    BY <2>1, <2>7, <2>8, <2>9
  <2>11. Spare(t, x) - Spare(t, x)' = one
    BY <1>3, <2>8, <2>9
  <2>12. Loose(x)' =< Loose(x) \/ Sends(t, x)
    BY <1>3, <1>10, <2>8, <2>10 DEF Sends
  <2> QED
    BY <2>8, <2>10, <2>11, <2>12
<1>11. CASE SendFails(t) \/ ReadFails(t) \/ CheckFails(t)
  <2>1. /\ c \in Connection /\ socket' = [socket EXCEPT ![c] = NoSocket]
        /\ command[t] \in Command
    BY <1>1, <1>2, <1>5, <1>11 DEF SendFails, ReadFails, CheckFails, Calling
  <2>2. /\ Todo(c)' = <<>> /\ \A d \in Connection \ {c} : socket'[d] = socket[d]
    BY <1>5, <2>1 DEF Todo, Open
  <2>3. Times(x, Todo(c))' = 0
    BY <2>2, TimesOfNone
  <2>0. /\ Loose(x)' - Loose(x) =
              (flying'[x] + Times(x, Todo(c))') - (flying[x] + Times(x, Todo(c)))
        /\ Times(x, Todo(c)) \in Nat /\ Times(x, Todo(c))' \in Nat
        /\ flying[x] \in Nat /\ flying'[x] \in Nat
    BY <1>7, <2>1, <2>2
  <2> DEFINE one == IF command[t] = x THEN 1 ELSE 0
  <2>4. CASE SendFails(t)
    <3>1. pc[t] = "send" /\ Failed(t) /\ \E sent \in {<<>>, <<command[t]>>} : Adrift(Todo(c) \o sent)
      BY <2>4 DEF SendFails
    <3>2. /\ Todo(c) \o <<>> = Todo(c) /\ Todo(c) \o <<command[t]>> = Append(Todo(c), command[t])
          /\ Append(Todo(c), command[t]) \in Seq(Command)
      BY <1>6, <2>1
    <3>3. Times(x, Append(Todo(c), command[t])) = Times(x, Todo(c)) + one
      BY <1>6, <2>1, TimesOfMore
    <3>4. flying'[x] = flying[x] + Times(x, Todo(c)) \/ flying'[x] = flying[x] + (Times(x, Todo(c)) + one)
      <4>1. Adrift(Todo(c)) \/ Adrift(Append(Todo(c), command[t]))
        BY <3>1, <3>2
      <4>2. flying'[x] = flying[x] + Times(x, Todo(c)) \/ flying'[x] = flying[x] + Times(x, Append(Todo(c), command[t]))
        BY <1>1, <1>6, <2>1, <3>2, <4>1, AdriftTyped
      <4> QED
        BY <3>3, <4>2
    <3>5. Spare(t, x)' =< Spare(t, x) - one
      <4>1. Spare(t, x) - one \in Nat
        BY <1>5, <3>1 DEF Spare, Used
      <4>2. CASE Outcome(t, Error)
        <5>1. command'[t] = NoCall
          BY <1>5, <4>2 DEF Outcome
        <5> QED
          BY <1>4, <4>1, <5>1
      <4>3. CASE Go(t, "send") /\ failures' = [failures EXCEPT ![t] = @ + 1] /\ command' = command
        BY <1>1, <1>5, <3>1, <4>3 DEF Spare, Used, Go
      <4> QED
        BY <3>1, <4>2, <4>3 DEF Failed
    <3> HIDE DEF one
    <3>6. one \in {0, 1} /\ (x # command[t] => one = 0)
      BY DEF one
    <3>7. Loose(x)' - Loose(x) = 0 \/ Loose(x)' - Loose(x) = one
      BY <2>0, <2>3, <3>4, <3>6
    <3>8. Loose(x)' - Loose(x) =< Spare(t, x) - Spare(t, x)'
      BY <1>3, <3>5, <3>6, <3>7
    <3>9. Loose(x)' =< Loose(x) \/ Sends(t, x)
      BY <1>3, <2>4, <3>6, <3>7 DEF Sends
    <3> QED
      BY <3>8, <3>9
  <2>5. CASE ReadFails(t) \/ CheckFails(t)
    <3>1. Adrift(Todo(c))
      BY <2>5 DEF ReadFails, CheckFails
    <3>2. flying'[x] = flying[x] + Times(x, Todo(c))
      BY <1>1, <1>6, <2>1, <3>1, AdriftTyped
    <3>3. Spare(t, x)' =< Spare(t, x)
      <4>1. CASE Outcome(t, Error)
        <5>1. command'[t] = NoCall
          BY <1>5, <4>1 DEF Outcome
        <5> QED
          BY <1>3, <1>4, <5>1
      <4>2. CASE /\ pc[t] = "read" /\ Go(t, "send") /\ command' = command
                 /\ failures' = [failures EXCEPT ![t] = @ + 1]
        BY <1>1, <1>5, <4>2 DEF Spare, Used, Go
      <4> QED
        BY <2>5, <4>1, <4>2 DEF ReadFails, CheckFails, Failed
    <3>4. Loose(x)' - Loose(x) = 0
      BY <2>0, <2>3, <3>2
    <3>5. Loose(x)' - Loose(x) =< Spare(t, x) - Spare(t, x)'
      BY <1>3, <3>3, <3>4
    <3>6. Loose(x)' =< Loose(x)
      BY <1>3, <3>4
    <3> QED
      BY <3>5, <3>6
  <2> QED
    BY <1>11, <2>4, <2>5
<1>12. CASE Read(t)
  <2>1. /\ c \in Connection /\ Open(c) /\ flying' = flying
        /\ Outcome(t, Head(socket[c].replies))
        /\ socket' = [socket EXCEPT ![c].replies = Tail(@)]
    BY <1>2, <1>12 DEF Read
  <2>2. command'[t] = NoCall
    BY <1>5, <2>1 DEF Outcome
  <2>3. /\ socket'[c] = [socket[c] EXCEPT !.replies = Tail(@)] /\ socket[c] \in Socket
        /\ \A d \in Connection \ {c} : socket'[d] = socket[d]
    BY <1>1, <1>5, <2>1, TodoTyped
  <2>4. Todo(c)' = Todo(c)
    <3>1. socket'[c].todo = socket[c].todo
      BY <2>3 DEF Socket
    <3>2. socket'[c] # NoSocket
      <4>1. socket[c].replies \in Seq(Reply) /\ socket[c].replies # <<>>
        BY <1>12, <2>3 DEF Read, Socket
      <4>2. Tail(socket[c].replies) \in Seq(Reply)
        BY <4>1
      <4>3. [socket[c] EXCEPT !.replies = Tail(@)] \in Socket
        BY <2>3, <4>2 DEF Socket
      <4> QED
        BY <2>3, <4>3, SocketAssumption
    <3> QED
      BY <2>1, <3>1, <3>2 DEF Todo, Open
  <2>5. Times(x, Todo(c))' = Times(x, Todo(c))
    BY <2>4
  <2>6. /\ Loose(x)' - Loose(x) =
              (flying'[x] + Times(x, Todo(c))') - (flying[x] + Times(x, Todo(c)))
        /\ Times(x, Todo(c)) \in Nat /\ Times(x, Todo(c))' \in Nat
        /\ flying[x] \in Nat /\ flying'[x] \in Nat
    BY <1>7, <2>1, <2>3
  <2>7. Loose(x)' - Loose(x) = 0
    BY <2>1, <2>5, <2>6
  <2>8. Loose(x)' - Loose(x) =< Spare(t, x) - Spare(t, x)'
    BY <1>3, <1>4, <2>2, <2>7
  <2>9. Loose(x)' =< Loose(x)
    BY <1>3, <2>7
  <2> QED
    BY <2>8, <2>9
<1> QED
  BY <1>8, <1>9, <1>10, <1>11, <1>12 DEF Proceed, Trouble

LEMMA AttemptsStay ==
    ASSUME UNCHANGED <<pc, command, failures>>, NEW x
    PROVE  Attempts(x)' = Attempts(x)
BY DEF Attempts, Used

\* What the server carries out was under way.
CarriedOut(cmd) ==
    \A x \in Command :
       /\ Loose(x)' = Loose(x) - (IF x = cmd THEN 1 ELSE 0)
       /\ Due(x)' = Due(x) - (IF x = cmd THEN 1 ELSE 0)
       /\ x = cmd => Loose(x) > 0 /\ Due(x) > 0

LEMMA CarriedOutWhen ==
    ASSUME CallTypes, CallTypes', UNCHANGED <<pc, command, failures>>, NEW cmd,
           \A x \in Command : /\ Loose(x)' = Loose(x) - (IF x = cmd THEN 1 ELSE 0)
                              /\ x = cmd => Loose(x) > 0
    PROVE  CarriedOut(cmd)
<1> SUFFICES ASSUME NEW x \in Command
             PROVE  /\ Due(x)' = Due(x) - (IF x = cmd THEN 1 ELSE 0)
                    /\ x = cmd => Due(x) > 0
  BY DEF CarriedOut
<1>1. /\ Due(x) = Loose(x) + Cardinality(Attempts(x))
      /\ Due(x)' = Loose(x)' + Cardinality(Attempts(x))'
      /\ Loose(x) \in Nat /\ Loose(x)' \in Nat /\ Cardinality(Attempts(x)) \in Nat
  BY DueParts
<1>2. Attempts(x)' = Attempts(x)
  BY AttemptsStay
<1>3. Due(x)' = Loose(x)' + Cardinality(Attempts(x))
  BY <1>1, <1>2
<1> QED
  BY <1>1, <1>3

LEMMA ServeCounts ==
    ASSUME CallInv, NEW c \in Connection, Serve(c)
    PROVE  /\ Head(Todo(c)) \in Command /\ CarriedOut(Head(Todo(c)))
           /\ CallTypes /\ CallTypes'
<1> SUFFICES ASSUME NEW CONSTANT cmd, cmd = Head(Todo(c))
             PROVE  cmd \in Command /\ CarriedOut(cmd) /\ CallTypes /\ CallTypes'
  OBVIOUS
<1>1. CallTypes /\ CallTypes' /\ UNCHANGED <<pc, command, failures, flying>>
  BY RestCalls DEF CallInv, Serve, Server
<1>2. /\ Todo(c) \in Seq(Command) /\ Todo(c) # <<>> /\ Open(c)
      /\ socket[c] \in Socket /\ Todo(c) = socket[c].todo
  BY <1>1, TodoTyped DEF Serve, Todo
<1>3. cmd \in Command
  BY <1>2
<1> DEFINE r == Apply(Head(Todo(c)), store).reply
<1>4. socket' = [socket EXCEPT ![c] = [socket[c] EXCEPT !.todo = Tail(@), !.replies = Append(@, r)]]
  BY DEF Serve
<1>5. r \in Reply
  BY <1>1, <1>2, Carried
<1> HIDE DEF r
<1>6. Todo(c)' = Tail(Todo(c)) /\ \A d \in Connection \ {c} : socket'[d] = socket[d]
  <2> DEFINE s == socket[c]
  <2>1. /\ socket'[c] = [s EXCEPT !.todo = Tail(@), !.replies = Append(@, r)]
        /\ \A d \in Connection \ {c} : socket'[d] = socket[d]
    BY <1>1, <1>4 DEF CallTypes
  <2>2. s \in Socket /\ s.todo # <<>> /\ s.todo \in Seq(Command) /\ s.replies \in Seq(Reply)
    BY <1>2 DEF Socket
  <2>3. Tail(s.todo) \in Seq(Command) /\ Append(s.replies, r) \in Seq(Reply)
    BY <1>5, <2>2
  <2> HIDE DEF s
  <2>4. socket'[c] \in Socket /\ socket'[c].todo = Tail(s.todo)
    BY <2>1, <2>2, <2>3 DEF Socket
  <2>5. Todo(c)' = Tail(s.todo)
    BY <2>4, SocketAssumption DEF Todo, Open
  <2> QED
    BY <1>2, <2>1, <2>5 DEF s
<1>7. ASSUME NEW x \in Command
      PROVE  /\ Loose(x)' = Loose(x) - (IF x = cmd THEN 1 ELSE 0)
             /\ x = cmd => Loose(x) > 0
  <2>1. /\ Loose(x)' - Loose(x) =
              (flying'[x] + Times(x, Todo(c))') - (flying[x] + Times(x, Todo(c)))
        /\ Times(x, Todo(c)) \in Nat /\ Times(x, Todo(c))' \in Nat
        /\ flying[x] \in Nat /\ flying'[x] \in Nat
    BY <1>1, <1>6, LooseStep
  <2>2. /\ Times(x, Tail(Todo(c))) = Times(x, Todo(c)) - (IF cmd = x THEN 1 ELSE 0)
        /\ cmd = x => Times(x, Todo(c)) > 0
    BY <1>2, TimesOfTail
  <2>3. /\ Cardinality(Waiting(x, Connection)) =
              Cardinality(Spots(Todos, x, Connection \ {c})) + Times(x, Todo(c))
        /\ Cardinality(Spots(Todos, x, Connection \ {c})) \in Nat
    BY <1>1, WaitingApart
  <2>4. Loose(x) \in Nat /\ Loose(x)' \in Nat
    BY <1>1, DueParts
  <2>5. Times(x, Todo(c))' = Times(x, Todo(c)) - (IF cmd = x THEN 1 ELSE 0)
    BY <1>6, <2>2
  <2>6. Loose(x)' - Loose(x) = Times(x, Todo(c))' - Times(x, Todo(c))
    BY <1>1, <2>1
  <2>7. x = cmd => Loose(x) > 0
    BY <2>1, <2>2, <2>3 DEF Loose
  <2>8. Loose(x)' = Loose(x) - (IF x = cmd THEN 1 ELSE 0)
    BY <2>1, <2>4, <2>5, <2>6
  <2> QED
    BY <2>7, <2>8
<1>8. CarriedOut(cmd)
  BY <1>1, <1>7, CarriedOutWhen
<1> QED
  BY <1>1, <1>3, <1>8

LEMMA ServeLateCounts ==
    ASSUME CallInv, NEW cmd \in Command, ServeLate(cmd)
    PROVE  CarriedOut(cmd) /\ CallTypes /\ CallTypes'
<1>1. CallTypes /\ CallTypes' /\ UNCHANGED <<pc, command, failures, socket>>
  BY RestCalls DEF CallInv, ServeLate, Server
<1>2. ASSUME NEW x \in Command
      PROVE  /\ Loose(x)' = Loose(x) - (IF x = cmd THEN 1 ELSE 0)
             /\ x = cmd => Loose(x) > 0
  <2>1. /\ flying[x] \in Nat /\ flying'[x] = flying[x] - (IF x = cmd THEN 1 ELSE 0)
        /\ x = cmd => flying[x] > 0
    BY <1>1 DEF ServeLate, CallTypes
  <2>2. /\ Waiting(x, Connection)' = Waiting(x, Connection)
        /\ Cardinality(Waiting(x, Connection)) \in Nat
    BY <1>1, WaitingCounted DEF Waiting, Todo, Open
  <2> QED
    BY <2>1, <2>2 DEF Loose
<1> QED
  BY <1>1, <1>2, CarriedOutWhen

\* What the server or pool.disconnect drops is not carried out.
LEMMA DropCounts ==
    ASSUME CallInv, Disconnect \/ (\E c \in Connection : Close(c)), NEW x \in Command
    PROVE  Due(x)' =< Due(x) /\ Loose(x)' =< Loose(x)
<1>1. CallTypes /\ CallTypes' /\ UNCHANGED <<pc, command, failures>>
  BY RestCalls DEF CallInv, Close, Disconnect, Server
<1>2. /\ Due(x) = Loose(x) + Cardinality(Attempts(x))
      /\ Due(x)' = Loose(x)' + Cardinality(Attempts(x))'
      /\ Loose(x) \in Nat /\ Loose(x)' \in Nat /\ Cardinality(Attempts(x)) \in Nat
      /\ Attempts(x)' = Attempts(x)
  BY <1>1, DueParts, AttemptsStay
<1>3. Loose(x)' =< Loose(x)
  <2>1. CASE Disconnect
    <3>1. flying'[x] = Loose(x)
      BY <2>1 DEF Disconnect, Loose
    <3>2. \A c \in Connection : Todo(c)' = <<>>
      BY <2>1 DEF Disconnect, Todo, Open
    <3>3. Waiting(x, Connection)' = {}
      BY <3>2 DEF Waiting
    <3>4. Cardinality(Waiting(x, Connection)') = 0
      BY <3>3, FS_EmptySet
    <3> QED
      BY <1>2, <3>1, <3>4 DEF Loose
  <2>2. ASSUME NEW c \in Connection, Close(c) PROVE Loose(x)' =< Loose(x)
    <3>1. /\ flying' = flying /\ \A d \in Connection \ {c} : socket'[d] = socket[d]
          /\ socket'[c] = [todo |-> <<>>, replies |-> socket[c].replies, closed |-> TRUE]
      BY <1>1, <2>2 DEF Close, CallTypes
    <3>2. Todo(c)' = <<>>
      BY <3>1 DEF Todo
    <3>3. Times(x, Todo(c))' = 0
      BY <3>2, TimesOfNone
    <3>4. /\ Loose(x)' - Loose(x) =
                (flying'[x] + Times(x, Todo(c))') - (flying[x] + Times(x, Todo(c)))
          /\ Times(x, Todo(c)) \in Nat /\ flying[x] \in Nat
      BY <1>1, <3>1, LooseStep
    <3>5. Loose(x)' - Loose(x) = 0 - Times(x, Todo(c))
      BY <3>1, <3>3, <3>4
    <3> QED
      BY <1>2, <3>4, <3>5
  <2> QED
    BY <2>1, <2>2
<1>4. Due(x)' = Loose(x)' + Cardinality(Attempts(x))
  BY <1>2
<1> QED
  BY <1>2, <1>3, <1>4

-----------------------------------------------------------------------------
(***************************************************************************)
(* The lock.                                                               *)
(***************************************************************************)
LockTypes ==
    /\ at \in [Thread -> {"out", "trying", "asleep", "in", "leaving"}]
    /\ round \in [Thread -> 0..MaxRounds]
    /\ token \in [Thread -> Token \union {NoToken}]

\* A thread executes only what acquire or release asks for.
Doing(t) ==
    /\ at[t] # "out" => round[t] > 0
    /\ at[t] = "in" => token[t] = Mine(t)
    /\ command[t] = NoCall => got[t] = {}
    /\ \/ command[t] = NoCall
       \/ at[t] = "trying" /\ command[t] = Set(Mine(t))
       \/ at[t] = "leaving" /\ command[t] = Del(Mine(t))

\* No DEL is under way for the token of an acquire that has begun, or not even
\* begun.
NotFreed(t) ==
    /\ at[t] \in {"trying", "asleep", "in"} => Loose(Del(Mine(t))) = 0
    /\ \A r \in 1..MaxRounds : r > round[t] => Loose(Del(<<t, r>>)) = 0

\* The lock of t, once SET has said yes.
Safe(t) == store = Mine(t) \/ Mine(t) \in lapsed
Keeps(t) ==
    /\ (at[t] = "trying" /\ "yes" \in got[t]) => Safe(t)
    /\ (at[t] = "trying" /\ pc[t] = "release" /\ result[t] = "yes" /\ ~spoiled) => Safe(t)
    /\ (at[t] = "in" /\ ~spoiled) => Safe(t)

LockInv ==
    /\ CallInv
    /\ LockTypes
    /\ \A t \in Thread : Doing(t) /\ NotFreed(t) /\ Keeps(t)

LEMMA Tokens ==
    ASSUME NEW tok \in Token
    PROVE  Set(tok) \in Command /\ Del(tok) \in Command /\ tok # NoToken
BY LockAssumption DEF LockCommand

\* DEL of one's own token is nobody else's command.
LEMMA DelApart ==
    ASSUME LockInv, NEW t \in Thread, NEW u \in Thread, NEW r \in 1..MaxRounds,
           r # round[u] \/ at[u] # "leaving"
    PROVE  command[t] # Del(<<u, r>>) /\ Del(<<u, r>>) \in Command
<1>1. <<u, r>> \in Token
  BY DEF Token
<1>2. Del(<<u, r>>) # NoCall /\ Del(<<u, r>>) \in Command
  BY <1>1, Tokens, CallAssumption
<1>3. Doing(t)
  BY DEF LockInv
<1> QED
  BY <1>2, <1>3 DEF Doing, Set, Del, Mine

\* What counts as under way only goes down, but for the command of t.
LEMMA NotFreedKept ==
    ASSUME LockInv, NEW u \in Thread, UNCHANGED <<at, round>>, CallTypes',
           \A r \in 1..MaxRounds : (r # round[u] \/ at[u] # "leaving") =>
              Loose(Del(<<u, r>>))' =< Loose(Del(<<u, r>>))
    PROVE  NotFreed(u)'
<1>1. NotFreed(u) /\ Doing(u) /\ CallTypes /\ round[u] \in 0..MaxRounds /\ MaxRounds \in Nat
  BY LockAssumption DEF LockInv, LockTypes, CallInv
<1>2. ASSUME NEW r \in 1..MaxRounds, Loose(Del(<<u, r>>)) = 0, r # round[u] \/ at[u] # "leaving"
      PROVE  Loose(Del(<<u, r>>))' = 0
  <2>1. Del(<<u, r>>) \in Command
    BY Tokens DEF Token
  <2>2. Loose(Del(<<u, r>>))' \in Nat
    BY <1>1, <2>1, DueParts
  <2> QED
    BY <1>2, <2>2
<1>3. at[u] \in {"trying", "asleep", "in"} => Loose(Del(Mine(u)))' = 0
  BY <1>1, <1>2 DEF NotFreed, Mine, Doing
<1>4. Mine(u)' = Mine(u) /\ at' = at /\ round' = round
  BY DEF Mine
<1>5. \A r \in 1..MaxRounds : r > round[u] => Loose(Del(<<u, r>>))' = 0
  BY <1>1, <1>2 DEF NotFreed
<1> QED
  BY <1>3, <1>4, <1>5 DEF NotFreed

LEMMA InitLocks == Init => LockInv
<1> SUFFICES ASSUME Init PROVE LockInv
  OBVIOUS
<1>1. PoolInv
  BY InitHolds
<1>2. CallTypes
  <2>1. limit \in Limits /\ store \in Store /\ spoiled \in BOOLEAN
    BY CallAssumption DEF Init, PoolInit
  <2>2. socket \in [Connection -> Socket \union {NoSocket}] /\ flying \in [Command -> Nat]
    BY DEF Init, PoolInit
  <2>3. /\ command \in [Thread -> Command \union {NoCall}] /\ failures \in [Thread -> 0..Retries]
        /\ result \in [Thread -> Reply \union {Error}]
    BY CallAssumption DEF Init, PoolInit
  <2>4. got \in [Thread -> SUBSET Reply]
    BY DEF Init, PoolInit
  <2> QED
    BY <2>1, <2>2, <2>3, <2>4 DEF CallTypes
<1>3. \A t \in Thread : Calling(t)
  BY DEF Init, PoolInit, Calling
<1>4. \A c \in Connection : Quiet(c)
  BY DEF Init, PoolInit, Quiet, Open
<1>5. LockTypes
  BY LockAssumption DEF Init, LockTypes
<1>6. \A x \in Command : Loose(x) = 0
  <2>1. \A c \in Connection : Todo(c) = <<>>
    BY DEF Init, PoolInit, Todo, Open
  <2>2. \A x : Waiting(x, Connection) = {}
    BY <2>1 DEF Waiting
  <2>3. Cardinality({}) = 0 /\ \A x \in Command : flying[x] = 0
    BY FS_EmptySet DEF Init, PoolInit
  <2> QED
    BY <2>2, <2>3 DEF Loose
<1>7. ASSUME NEW t \in Thread PROVE Doing(t) /\ NotFreed(t) /\ Keeps(t)
  <2>1. Doing(t) /\ Keeps(t)
    BY DEF Init, PoolInit, Doing, Keeps
  <2>2. \A r \in 1..MaxRounds : Del(<<t, r>>) \in Command
    BY Tokens DEF Token
  <2>3. NotFreed(t)
    BY <1>6, <2>2 DEF Init, NotFreed
  <2> QED
    BY <2>1, <2>3
<1> QED
  BY <1>1, <1>2, <1>3, <1>4, <1>5, <1>7 DEF LockInv, CallInv

LEMMA ThreadLocks ==
    ASSUME LockInv, NEW t \in Thread, Proceed(t) \/ Trouble(t), UNCHANGED lockVars
    PROVE  LockInv'
<1>1. CallInv /\ CallInv' /\ OthersKept(t) /\ CallTypes /\ CallTypes'
  BY ThreadCalls DEF LockInv, CallInv
<1>2. UNCHANGED <<at, round, token, lapsed, store>> /\ (spoiled => spoiled')
  <2>1. store' = store /\ (spoiled' = spoiled \/ Interrupt(t))
    BY DEF Proceed, Trouble, Full, Ready, Reconnect, Send, Read, ReadFails, SendFails, CheckFails, Interrupt
  <2>2. Interrupt(t) /\ spoiled => spoiled'
    BY DEF Interrupt
  <2>3. spoiled => spoiled'
    BY <2>1, <2>2
  <2> QED
    BY <2>1, <2>3 DEF lockVars
<1>3. LockTypes'
  BY <1>2 DEF LockInv, LockTypes
<1>4. ASSUME NEW u \in Thread PROVE NotFreed(u)'
  <2>1. \A r \in 1..MaxRounds : (r # round[u] \/ at[u] # "leaving") =>
           Loose(Del(<<u, r>>))' =< Loose(Del(<<u, r>>))
    BY <1>1, DelApart, ThreadCounts DEF Sends
  <2> QED
    BY <1>1, <1>2, <2>1, NotFreedKept
<1>5. \/ command'[t] = NoCall /\ got'[t] = {} /\ pc'[t] = "release"
      \/ command'[t] = command[t] /\ got'[t] = got[t] /\ pc'[t] # "release"
  BY <1>1 DEF CallInv, CallTypes, PoolInv, PoolTypes, Proceed, Trouble, Full, Ready, Reconnect, Send,
              Read, ReadFails, SendFails, CheckFails, Interrupt, Failed, Outcome, Go
<1>6. (pc'[t] = "release" /\ result'[t] = "yes" /\ ~spoiled) => "yes" \in got[t]
  <2>1. result' = [result EXCEPT ![t] = Error] => result'[t] # "yes"
    BY <1>1, CallAssumption, LockAssumption DEF CallTypes
  <2>2. ASSUME Read(t), ~spoiled PROVE result'[t] \in got[t]
    <3>1. conn[t] # NoConnection /\ Open(conn[t]) /\ socket[conn[t]].replies # <<>>
          /\ result' = [result EXCEPT ![t] = Head(socket[conn[t]].replies)]
      BY <1>1, <2>2 DEF Read, Outcome, CallInv, PoolInv, Leases
    <3>2. \E r \in got[t] : socket[conn[t]].replies = <<r>>
      BY <1>1, <2>2, <3>1, OwnQuiet
    <3>3. result'[t] = Head(socket[conn[t]].replies)
      BY <1>1, <3>1 DEF CallTypes
    <3> QED
      BY <3>2, <3>3
  <2>3. ASSUME ~Read(t), pc'[t] = "release" PROVE result' = [result EXCEPT ![t] = Error]
    BY <1>1, <2>3 DEF CallInv, PoolInv, PoolTypes, Proceed, Trouble, Full, Ready, Reconnect, Send,
                      ReadFails, SendFails, CheckFails, Interrupt, Failed, Outcome, Go
  <2> QED
    BY <2>1, <2>2, <2>3
<1>7. ASSUME NEW u \in Thread PROVE Doing(u)' /\ Keeps(u)'
  <2>1. Doing(u) /\ Keeps(u) /\ Mine(u)' = Mine(u) /\ Safe(u)' = Safe(u)
    BY <1>2 DEF LockInv, Mine, Safe
  <2>2. CASE u = t
    <3>1. Doing(t)'
      BY <1>2, <1>5, <2>1, <2>2 DEF Doing
    <3>2. Keeps(t)'
      <4>1. at[t] = "trying" /\ "yes" \in got[t] => Safe(t)
        BY <2>1, <2>2 DEF Keeps
      <4> QED
        BY <1>2, <1>5, <1>6, <2>1, <2>2, <4>1 DEF Keeps
    <3> QED
      BY <2>2, <3>1, <3>2
  <2>3. CASE u # t
    <3>1. /\ pc'[u] = pc[u] /\ command'[u] = command[u] /\ got'[u] = got[u]
      BY <1>1, <2>3 DEF OthersKept
    <3>2. result'[u] = result[u]
      BY <1>1, <2>3 DEF CallTypes, Proceed, Trouble, Full, Ready, Reconnect, Send, Read, ReadFails,
                        SendFails, CheckFails, Interrupt, Failed, Outcome
    <3> QED
      BY <1>2, <2>1, <3>1, <3>2 DEF Doing, Keeps
  <2> QED
    BY <2>2, <2>3
<1> QED
  BY <1>1, <1>3, <1>4, <1>7 DEF LockInv

\* What the server carries out keeps the locks.
LEMMA CarryLocks ==
    ASSUME LockInv, NEW cmd \in Command, Carry(cmd), CarriedOut(cmd), UNCHANGED lockVars,
           UNCHANGED <<pc, command, result, spoiled>>, CallInv'
    PROVE  LockInv'
<1>1. /\ CallTypes /\ CallTypes' /\ UNCHANGED <<at, round, token, lapsed>>
      /\ store' = LockApply(cmd, store).store
      /\ \A u \in Thread : got'[u] = IF command[u] = cmd THEN got[u] \union {LockApply(cmd, store).reply}
                                     ELSE got[u]
  BY LockAssumption DEF Carry, LockInv, CallInv, CallTypes, lockVars
<1>2. LockTypes'
  BY <1>1 DEF LockInv, LockTypes
<1>3. ASSUME NEW u \in Thread PROVE NotFreed(u)'
  <2>1. ASSUME NEW r \in 1..MaxRounds PROVE Loose(Del(<<u, r>>))' =< Loose(Del(<<u, r>>))
    <3>1. Del(<<u, r>>) \in Command
      BY Tokens DEF Token
    <3>2. Loose(Del(<<u, r>>)) \in Nat
      BY <1>1, <3>1, DueParts
    <3> QED
      BY <3>1, <3>2 DEF CarriedOut
  <2> QED
    BY <1>1, <2>1, NotFreedKept
<1>4. ASSUME NEW u \in Thread PROVE Doing(u)' /\ Keeps(u)'
  <2>1. Doing(u) /\ Keeps(u) /\ NotFreed(u) /\ Mine(u)' = Mine(u)
    BY <1>1 DEF LockInv, Mine
  <2>2. Doing(u)'
    BY <1>1, <2>1, CallAssumption DEF Doing
  <2>3. ASSUME at[u] \in {"trying", "in"} PROVE Mine(u) \in Token /\ cmd # Del(Mine(u))
    <3>1. Mine(u) \in Token
      BY <2>1, <2>3 DEF LockInv, LockTypes, Doing, Mine, Token
    <3>2. Del(Mine(u)) \in Command /\ Loose(Del(Mine(u))) = 0
      BY <2>1, <2>3, <3>1, Tokens DEF NotFreed
    <3> QED
      BY <3>1, <3>2 DEF CarriedOut
  <2>4. cmd \in LockCommand
    BY LockAssumption
  <2>5. ASSUME at[u] \in {"trying", "in"}, Safe(u) PROVE Safe(u)'
    <3>1. CASE store = Mine(u)
      <4>1. store # NoToken /\ cmd # Del(store)
        BY <2>3, <2>5, <3>1, Tokens
      <4>2. store' = store
        BY <1>1, <2>4, <4>1 DEF LockCommand, LockApply, Set, Del
      <4> QED
        BY <2>1, <3>1, <4>2 DEF Safe
    <3>2. CASE Mine(u) \in lapsed
      BY <1>1, <2>1, <3>2 DEF Safe
    <3> QED
      BY <2>5, <3>1, <3>2 DEF Safe
  <2>6. ASSUME at[u] = "trying", "yes" \in got'[u], "yes" \notin got[u] PROVE Safe(u)'
    <3>1. command[u] = cmd /\ LockApply(cmd, store).reply = "yes"
      BY <1>1, <2>6
    <3>2. cmd = Set(Mine(u))
      BY <2>1, <2>6, <3>1, CallAssumption DEF Doing
    <3>3. store' = Mine(u)
      BY <1>1, <3>1, <3>2 DEF LockApply, Set
    <3> QED
      BY <2>1, <3>3 DEF Safe
  <2>7. Keeps(u)'
    BY <1>1, <2>1, <2>5, <2>6 DEF Keeps
  <2> QED
    BY <2>2, <2>7
<1> QED
  BY <1>2, <1>3, <1>4 DEF LockInv

LEMMA RestLocks ==
    ASSUME LockInv, Server \/ Disconnect, UNCHANGED lockVars
    PROVE  LockInv'
<1>1. CallInv /\ CallInv'
  BY RestCalls DEF LockInv
<1>2. ASSUME NEW c \in Connection, Serve(c) PROVE LockInv'
  <2>1. Head(Todo(c)) \in Command /\ CarriedOut(Head(Todo(c)))
    BY <1>1, <1>2, ServeCounts
  <2>2. Carry(Head(Todo(c))) /\ UNCHANGED <<pc, command, result, spoiled>>
    BY <1>2 DEF Serve
  <2> QED
    BY <1>1, <2>1, <2>2, CarryLocks
<1>3. ASSUME NEW cmd \in Command, ServeLate(cmd) PROVE LockInv'
  <2>1. CarriedOut(cmd)
    BY <1>1, <1>3, ServeLateCounts
  <2>2. Carry(cmd) /\ UNCHANGED <<pc, command, result, spoiled>>
    BY <1>3 DEF ServeLate
  <2> QED
    BY <1>1, <2>1, <2>2, CarryLocks
<1>4. CASE Disconnect \/ \E c \in Connection : Close(c)
  <2>1. UNCHANGED <<pc, command, result, spoiled, store, got, at, round, token, lapsed>>
    BY <1>4 DEF Disconnect, Close, lockVars
  <2>2. CallTypes' /\ LockTypes'
    BY <1>1, <2>1 DEF CallInv, LockInv, LockTypes
  <2>3. ASSUME NEW u \in Thread PROVE Doing(u)' /\ Keeps(u)'
    <3>1. Doing(u) /\ Keeps(u)
      BY DEF LockInv
    <3> QED
      BY <2>1, <3>1 DEF Doing, Keeps, Safe, Mine
  <2>4. ASSUME NEW u \in Thread PROVE NotFreed(u)'
    <3>1. ASSUME NEW r \in 1..MaxRounds PROVE Loose(Del(<<u, r>>))' =< Loose(Del(<<u, r>>))
      <4>1. Del(<<u, r>>) \in Command
        BY Tokens DEF Token
      <4> QED
        BY <1>1, <1>4, <4>1, DropCounts
    <3> QED
      BY <2>1, <2>2, <3>1, NotFreedKept
  <2> QED
    BY <1>1, <2>2, <2>3, <2>4 DEF LockInv
<1> QED
  BY <1>2, <1>3, <1>4 DEF Server

LEMMA ExpireLocks ==
    ASSUME LockInv, Expire
    PROVE  LockInv'
<1>1. /\ UNCHANGED <<limit, created, available, inuse, socket, flying, pc, command, conn, failures,
                     result, got, spoiled, at, round, token>>
      /\ store' = NoToken /\ lapsed' = lapsed \union {store}
  BY DEF Expire
<1>2. CallTypes /\ CallTypes' /\ LockTypes'
  BY <1>1, LockAssumption DEF LockInv, CallInv, CallTypes, LockTypes, LockStore
<1>3. PoolInv'
  <2>1. UNCHANGED pooled /\ UNCHANGED pc
    BY <1>1 DEF pooled
  <2> QED
    BY <2>1, RestKeeps DEF LockInv, CallInv
<1>4. ~spoiled' => \A c \in Connection : Quiet(c)'
  BY <1>1, QuietKept DEF LockInv, CallInv
<1>5. ASSUME NEW u \in Thread PROVE Calling(u)' /\ Doing(u)' /\ NotFreed(u)' /\ Keeps(u)'
  <2>1. Calling(u) /\ Doing(u) /\ NotFreed(u) /\ Keeps(u) /\ Mine(u)' = Mine(u)
    BY <1>1 DEF LockInv, CallInv, Mine
  <2>2. Calling(u)' /\ Doing(u)'
    BY <1>1, <2>1 DEF Calling, Doing
  <2>3. Safe(u) => Safe(u)'
    BY <1>1, <2>1 DEF Safe
  <2>4. Keeps(u)'
    BY <1>1, <2>1, <2>3 DEF Keeps
  <2>5. \A x : Loose(x)' = Loose(x)
    BY <1>1, LooseStays
  <2>6. NotFreed(u)'
    BY <1>1, <2>1, <2>5 DEF NotFreed, Mine
  <2> QED
    BY <2>2, <2>4, <2>6
<1> QED
  BY <1>2, <1>3, <1>4, <1>5 DEF LockInv, CallInv

\* A call of acquire or release begins: nothing is under way that was not
\* before, and t has not had an answer yet.
LEMMA BeginLocks ==
    ASSUME LockInv, NEW t \in Thread, NEW cmd \in Command, Execute(t, cmd)
    PROVE  /\ CallInv' /\ \A x \in Command : Loose(x)' = Loose(x)
           /\ command'[t] = cmd /\ got'[t] = {} /\ pc'[t] # "release" /\ got[t] = {}
           /\ store' = store /\ spoiled' = spoiled
           /\ \A u \in Thread \ {t} :
                 /\ command'[u] = command[u] /\ got'[u] = got[u] /\ pc'[u] = pc[u]
                 /\ result'[u] = result[u]
<1>1. CallInv /\ CallInv' /\ \A x \in Command : Loose(x)' = Loose(x)
  BY ExecuteCalls, ExecuteCounts DEF LockInv
<1>2. /\ pc[t] = "idle" /\ (Go(t, "check") \/ Go(t, "full"))
      /\ command' = [command EXCEPT ![t] = cmd] /\ got' = got /\ store' = store
      /\ spoiled' = spoiled /\ result' = result
  BY DEF Execute, Take, Make, TooMany
<1>3. command[t] = NoCall /\ got[t] = {}
  BY <1>2 DEF LockInv, CallInv, Calling, Doing
<1> QED
  BY <1>1, <1>2, <1>3 DEF CallInv, PoolInv, PoolTypes, CallTypes, Go

\* acquire begins, or goes on after its sleep; release begins.
LEMMA EnterLocks ==
    ASSUME LockInv, NEW t \in Thread, Acquire(t) \/ TryAgain(t) \/ Leave(t)
    PROVE  /\ LockInv'
           /\ \E cmd \in Command : Execute(t, cmd)
<1>1. /\ CallTypes /\ LockTypes /\ MaxRounds \in Nat /\ round[t] \in 0..MaxRounds
      /\ \A u \in Thread : Doing(u) /\ NotFreed(u) /\ Keeps(u)
  BY LockAssumption DEF LockInv, CallInv, LockTypes
<1>2. PICK cmd \in Command :
         /\ Execute(t, cmd) /\ lapsed' = lapsed
         /\ \/ /\ at' = [at EXCEPT ![t] = "trying"] /\ cmd = Set(Mine(t))'
               /\ \/ round[t] < MaxRounds /\ round' = [round EXCEPT ![t] = @ + 1]
                  \/ at[t] = "asleep" /\ round' = round
               /\ token' = token
            \/ /\ at' = [at EXCEPT ![t] = "leaving"] /\ cmd = Del(Mine(t))'
               /\ at[t] = "in" /\ round' = round /\ token' = [token EXCEPT ![t] = NoToken]
  <2>1. CASE Acquire(t)
    <3>1. /\ round[t] < MaxRounds /\ round' = [round EXCEPT ![t] = @ + 1] /\ round'[t] = round[t] + 1
          /\ at' = [at EXCEPT ![t] = "trying"] /\ Execute(t, Set(<<t, round'[t]>>))
          /\ token' = token /\ lapsed' = lapsed
      BY <1>1, <2>1 DEF Acquire, LockTypes
    <3>2. <<t, round'[t]>> \in Token
      BY <1>1, <3>1 DEF Token
    <3> QED
      BY <3>1, <3>2, Tokens DEF Mine
  <2>2. CASE TryAgain(t)
    <3>1. Mine(t) \in Token /\ Mine(t)' = Mine(t)
      BY <1>1, <2>2 DEF TryAgain, Doing, Mine, Token
    <3> QED
      BY <2>2, <3>1, Tokens DEF TryAgain
  <2>3. CASE Leave(t)
    <3>1. Mine(t) \in Token /\ Mine(t)' = Mine(t) /\ token[t] = Mine(t)
      BY <1>1, <2>3 DEF Leave, Doing, Mine, Token
    <3> QED
      BY <2>3, <3>1, Tokens DEF Leave
  <2> QED
    BY <2>1, <2>2, <2>3
<1>3. /\ CallInv' /\ \A x \in Command : Loose(x)' = Loose(x)
      /\ command'[t] = cmd /\ got'[t] = {} /\ pc'[t] # "release"
      /\ store' = store /\ spoiled' = spoiled
      /\ \A u \in Thread \ {t} : /\ command'[u] = command[u] /\ got'[u] = got[u]
                                 /\ pc'[u] = pc[u] /\ result'[u] = result[u]
  BY <1>2, BeginLocks
<1>4. LockTypes'
  BY <1>1, <1>2 DEF LockTypes
<1>5. /\ at'[t] \in {"trying", "leaving"} /\ round'[t] > 0
      /\ \A u \in Thread \ {t} : at'[u] = at[u] /\ round'[u] = round[u] /\ token'[u] = token[u]
  BY <1>1, <1>2 DEF LockTypes, Doing
<1>6. Doing(t)' /\ Keeps(t)'
  <2>1. \/ at'[t] = "trying" /\ cmd = Set(Mine(t))'
        \/ at'[t] = "leaving" /\ cmd = Del(Mine(t))'
    BY <1>1, <1>2 DEF LockTypes
  <2>2. Doing(t)'
    <3>1. command'[t] = Set(Mine(t))' \/ command'[t] = Del(Mine(t))'
      BY <1>3, <2>1
    <3> QED
      BY <1>3, <1>5, <2>1 DEF Doing
  <2> QED
    BY <1>3, <1>5, <2>2 DEF Keeps
<1>7. \A r \in 1..MaxRounds : Loose(Del(<<t, r>>))' = Loose(Del(<<t, r>>))
  BY <1>3, Tokens DEF Token
<1>8. NotFreed(t)'
  <2>1. round'[t] \in 1..MaxRounds
    BY <1>4, <1>5 DEF LockTypes
  <2>2. \A r \in 1..MaxRounds : r > round'[t] => Loose(Del(<<t, r>>))' = 0
    <3>1. round'[t] >= round[t] /\ round[t] \in Int
      BY <1>1, <1>2 DEF LockTypes
    <3>2. \A r \in 1..MaxRounds : r > round[t] => Loose(Del(<<t, r>>)) = 0
      BY <1>1 DEF NotFreed
    <3> QED
      BY <1>7, <2>1, <3>1, <3>2
  <2>3. \A r \in 1..MaxRounds : r = round'[t] /\ at'[t] = "trying" => Loose(Del(<<t, r>>))' = 0
    <3>1. at'[t] = "trying" => round'[t] > round[t] \/ (at[t] = "asleep" /\ round'[t] = round[t])
      BY <1>1, <1>2 DEF LockTypes
    <3>2. /\ \A r \in 1..MaxRounds : r > round[t] => Loose(Del(<<t, r>>)) = 0
          /\ at[t] = "asleep" => Loose(Del(<<t, round[t]>>)) = 0
      BY <1>1 DEF NotFreed, Mine
    <3> QED
      BY <1>7, <3>1, <3>2
  <2>4. at'[t] \in {"trying", "asleep", "in"} => Loose(Del(Mine(t)))' = 0
    BY <1>5, <2>1, <2>3 DEF Mine
  <2> QED
    BY <2>2, <2>4 DEF NotFreed
<1>9. ASSUME NEW u \in Thread \ {t} PROVE Doing(u)' /\ Keeps(u)' /\ NotFreed(u)'
  <2>1. Mine(u)' = Mine(u) /\ Safe(u)' = Safe(u)
    BY <1>2, <1>3, <1>5 DEF Mine, Safe
  <2>2. Doing(u)' /\ Keeps(u)'
    BY <1>1, <1>3, <1>5, <2>1 DEF Doing, Keeps
  <2>3. \A r \in 1..MaxRounds : Loose(Del(<<u, r>>))' = Loose(Del(<<u, r>>))
    BY <1>3, Tokens DEF Token
  <2>4. round[u] \in 0..MaxRounds /\ Doing(u)
    BY <1>1 DEF LockTypes
  <2>5. NotFreed(u)'
    BY <1>1, <1>5, <2>3, <2>4 DEF NotFreed, Mine, Doing
  <2> QED
    BY <2>2, <2>5
<1> QED
  BY <1>2, <1>3, <1>4, <1>6, <1>8, <1>9 DEF LockInv

\* acquire or release has its answer.
LEMMA LeaveLocks ==
    ASSUME LockInv, NEW t \in Thread, Acquired(t) \/ Refused(t) \/ Raises(t) \/ Left(t)
    PROVE  LockInv' /\ Release(t)
<1>1. /\ CallInv /\ CallTypes /\ LockTypes
      /\ \A u \in Thread : Doing(u) /\ NotFreed(u) /\ Keeps(u)
  BY DEF LockInv, CallInv
<1>2. /\ Release(t) /\ round' = round /\ lapsed' = lapsed /\ at[t] # "out"
      /\ \/ /\ at' = [at EXCEPT ![t] = "in"] /\ token' = [token EXCEPT ![t] = Mine(t)]
            /\ at[t] = "trying" /\ result[t] = "yes"
         \/ token' = token /\ at[t] = "trying" /\ at' = [at EXCEPT ![t] = "asleep"]
         \/ token' = token /\ at' = [at EXCEPT ![t] = "out"]
  BY DEF Acquired, Refused, Raises, Left
<1>3. /\ pc[t] = "release" /\ pc' = [pc EXCEPT ![t] = "idle"] /\ pc \in [Thread -> Place]
      /\ UNCHANGED <<socket, flying, command, result, store, got, spoiled>>
  BY <1>1, <1>2 DEF Release, Go, CallInv, PoolInv, PoolTypes
<1>4. CallInv' /\ command[t] = NoCall
  BY <1>1, <1>2, <1>3, ReleaseCalls DEF CallInv, Calling
<1>5. \A x : Loose(x)' = Loose(x)
  BY <1>3, LooseStays
<1>6. Mine(t) \in Token
  BY <1>1, <1>2 DEF Doing, LockTypes, Mine, Token
<1>7. LockTypes'
  BY <1>1, <1>2, <1>6 DEF LockTypes
<1>8. ASSUME NEW u \in Thread PROVE Doing(u)' /\ Keeps(u)' /\ NotFreed(u)'
  <2>1. /\ Mine(u)' = Mine(u) /\ Safe(u)' = Safe(u)
        /\ Doing(u) /\ Keeps(u) /\ NotFreed(u)
    BY <1>1, <1>2, <1>3 DEF Mine, Safe
  <2>2. CASE u = t
    <3>1. at'[t] = "in" => token'[t] = Mine(t) /\ at[t] = "trying" /\ result[t] = "yes"
      BY <1>1, <1>2 DEF LockTypes
    <3>2. at'[t] \in {"in", "asleep", "out"} /\ (at'[t] = "asleep" => at[t] = "trying")
      BY <1>1, <1>2 DEF LockTypes
    <3>3. Doing(t)'
      BY <1>2, <1>3, <1>4, <2>1, <2>2, <3>1, <3>2 DEF Doing
    <3>4. Keeps(t)'
      BY <1>3, <2>1, <2>2, <3>1, <3>2 DEF Keeps
    <3>5. NotFreed(t)'
      BY <1>2, <1>5, <2>1, <2>2, <3>1, <3>2 DEF NotFreed, Mine
    <3> QED
      BY <2>2, <3>3, <3>4, <3>5
  <2>3. CASE u # t
    <3>1. at'[u] = at[u] /\ token'[u] = token[u] /\ pc'[u] = pc[u]
      BY <1>1, <1>2, <1>3, <2>3 DEF LockTypes
    <3>2. Doing(u)' /\ Keeps(u)'
      BY <1>2, <1>3, <2>1, <3>1 DEF Doing, Keeps
    <3>3. NotFreed(u)'
      BY <1>2, <1>5, <2>1, <3>1 DEF NotFreed, Mine
    <3> QED
      BY <3>2, <3>3
  <2> QED
    BY <2>2, <2>3
<1> QED
  BY <1>2, <1>4, <1>7, <1>8 DEF LockInv

LEMMA StayLocks ==
    ASSUME LockInv, UNCHANGED vars
    PROVE  LockInv'
<1>1. /\ UNCHANGED <<limit, created, available, inuse, socket, flying, pc, command, conn, failures,
                     result, store, got, spoiled, at, round, token, lapsed>>
      /\ UNCHANGED pooled
  BY DEF vars, poolVars, lockVars, pooled
<1>2. PoolInv' /\ CallTypes' /\ LockTypes'
  BY <1>1, RestKeeps DEF LockInv, CallInv, CallTypes, LockTypes
<1>3. ~spoiled' => \A c \in Connection : Quiet(c)'
  BY <1>1, QuietKept DEF LockInv, CallInv
<1>4. \A x : Loose(x)' = Loose(x)
  BY <1>1, LooseStays
<1>5. \A u \in Thread : Calling(u)' /\ Doing(u)' /\ Keeps(u)' /\ NotFreed(u)'
  BY <1>1, <1>4 DEF LockInv, CallInv, Calling, Doing, Keeps, NotFreed, Safe, Mine
<1> QED
  BY <1>2, <1>3, <1>5 DEF LockInv, CallInv

LEMMA NextLocks == LockInv /\ [Next]_vars => LockInv'
<1> SUFFICES ASSUME LockInv, [Next]_vars PROVE LockInv'
  OBVIOUS
<1>1. CASE \E t \in Thread : Acquire(t) \/ TryAgain(t) \/ Leave(t)
  BY <1>1, EnterLocks
<1>2. CASE \E t \in Thread : Acquired(t) \/ Refused(t) \/ Raises(t) \/ Left(t)
  BY <1>2, LeaveLocks
<1>3. CASE \E t \in Thread : (Proceed(t) \/ Trouble(t)) /\ UNCHANGED lockVars
  BY <1>3, ThreadLocks
<1>4. CASE (Server \/ Disconnect) /\ UNCHANGED lockVars
  BY <1>4, RestLocks
<1>5. CASE Expire
  BY <1>5, ExpireLocks
<1>6. CASE UNCHANGED vars
  BY <1>6, StayLocks
<1> QED
  BY <1>1, <1>2, <1>3, <1>4, <1>5, <1>6 DEF Next, Locking, Pooling

\* A thread that has the lock finds its own token in the key unless the lock has
\* expired, whatever fails, comes late or is tried again (lock.py, 170-259).
THEOREM LockIsHeld == Spec => []HeldUntilLapsed
<1>1. LockInv => HeldUntilLapsed
  BY DEF LockInv, HeldUntilLapsed, Doing, Keeps, Safe
<1> QED
  BY <1>1, InitLocks, NextLocks, PTL DEF Spec

-----------------------------------------------------------------------------
(***************************************************************************)
(* The key that nobody frees.                                              *)
(***************************************************************************)
\* A command of which no call has failed is under way once, until its answer.
Once(t) ==
    \/ command[t] = NoCall \/ command[t] \in broken
    \/ /\ pc[t] # "read" => Loose(command[t]) = 0 /\ got[t] = {}
       /\ Loose(command[t]) = 0 \/ (Loose(command[t]) = 1 /\ got[t] = {})

Awaited(cmd) ==
    cmd \in broken \/ Loose(cmd) = 0 \/ \E t \in Thread : command[t] = cmd

\* t has put its token into the key, and has not taken it out.
Claimed(t) ==
    \/ at[t] = "trying" /\ command[t] = Set(Mine(t)) /\ got[t] = {"yes"}
    \/ at[t] = "trying" /\ pc[t] = "release" /\ result[t] = "yes"
    \/ at[t] = "in"
    \/ at[t] = "leaving" /\ command[t] = Del(Mine(t)) /\ got[t] = {}

Owned ==
    \/ store = NoToken \/ {Set(store), Del(store)} \intersect broken # {}
    \/ \E t \in Thread : store = Mine(t) /\ Claimed(t)

KeyInv ==
    ~spoiled => /\ \A t \in Thread : Once(t)
                /\ \A cmd \in Command : Awaited(cmd)
                /\ Owned

\* No two threads have the same command.
Distinct == \A t, u \in Thread : command[t] = command[u] /\ command[t] # NoCall => t = u

LEMMA CommandsApart == LockInv => Distinct
<1> SUFFICES ASSUME LockInv, NEW t \in Thread, NEW u \in Thread,
                    command[t] = command[u], command[t] # NoCall
             PROVE  t = u
  BY DEF Distinct
<1>1. Doing(t) /\ Doing(u)
  BY DEF LockInv
<1>2. command[t].token = Mine(t) /\ command[u].token = Mine(u)
  BY <1>1 DEF Doing, Set, Del
<1> QED
  BY <1>2 DEF Mine

LEMMA CommandsApartOn == LockInv' => Distinct'
BY CommandsApart, PTL

LEMMA EnterKey ==
    ASSUME LockInv, KeyInv, NEW t \in Thread, Acquire(t) \/ TryAgain(t) \/ Leave(t)
    PROVE  KeyInv'
<1>1. LockInv' /\ \E cmd \in Command : Execute(t, cmd)
  BY EnterLocks
<1>2. PICK cmd \in Command : Execute(t, cmd)
  BY <1>1
<1>3. /\ \A x \in Command : Loose(x)' = Loose(x)
      /\ command'[t] = cmd /\ got'[t] = {} /\ store' = store /\ spoiled' = spoiled
      /\ \A u \in Thread \ {t} : /\ command'[u] = command[u] /\ got'[u] = got[u]
                                 /\ pc'[u] = pc[u] /\ result'[u] = result[u]
  BY <1>2, BeginLocks
<1>4. pc[t] = "idle" /\ command[t] = NoCall /\ broken' = broken
  BY <1>2 DEF Execute, LockInv, CallInv, Calling
<1>5. \A u \in Thread \ {t} : at'[u] = at[u] /\ round'[u] = round[u]
  BY DEF LockInv, LockTypes, Acquire, TryAgain, Leave
<1>6. \A u \in Thread \ {t} : command[u] # cmd
  <2>1. \A u, v \in Thread : command'[u] = command'[v] /\ command'[u] # NoCall => u = v
    BY <1>1, CommandsApartOn DEF Distinct
  <2>2. cmd # NoCall
    BY CallAssumption
  <2> QED
    BY <1>3, <2>1, <2>2
<1>7. ASSUME ~spoiled PROVE \A u \in Thread : Once(u)'
  <2>1. cmd \in broken \/ Loose(cmd) = 0
    BY <1>4, <1>6, <1>7, CallAssumption DEF KeyInv, Awaited
  <2>2. Once(t)'
    BY <1>3, <1>4, <2>1 DEF Once
  <2>3. ASSUME NEW u \in Thread \ {t} PROVE Once(u)'
    <3>1. Once(u) /\ (command[u] = NoCall \/ command[u] \in Command)
      BY <1>7 DEF KeyInv, LockInv, CallInv, CallTypes
    <3> QED
      BY <1>3, <1>4, <3>1 DEF Once
  <2> QED
    BY <2>2, <2>3
<1>8. ASSUME ~spoiled, NEW x \in Command PROVE Awaited(x)'
  <2>1. Awaited(x) /\ x # NoCall
    BY <1>8, CallAssumption DEF KeyInv
  <2> QED
    BY <1>3, <1>4, <2>1 DEF Awaited
<1>9. ASSUME ~spoiled PROVE Owned'
  <2>1. Owned
    BY <1>9 DEF KeyInv
  <2>2. ASSUME NEW u \in Thread, store = Mine(u), Claimed(u) PROVE Mine(u)' = Mine(u) /\ Claimed(u)'
    <3>1. CASE u # t
      BY <1>3, <1>5, <2>2, <3>1 DEF Claimed, Mine
    <3>2. CASE u = t
      <4>1. at[t] = "in"
        <5>0. at[t] # "out" => Mine(t) \in Token
          BY DEF LockInv, LockTypes, Doing, Mine, Token
        <5>1. at[t] # "out" => Set(Mine(t)) # NoCall /\ Del(Mine(t)) # NoCall
          BY <5>0, Tokens, CallAssumption
        <5> QED
          BY <1>4, <2>2, <3>2, <5>1 DEF Claimed
      <4>2. Leave(t)
        BY <4>1 DEF Acquire, TryAgain
      <4>3. round' = round /\ at'[t] = "leaving"
        BY <4>2 DEF Leave, LockInv, LockTypes
      <4>4. command'[t] = Del(Mine(t))
        BY <1>1, <1>3, <4>3, CallAssumption DEF LockInv, Doing, Mine
      <4> QED
        BY <1>3, <3>2, <4>3, <4>4 DEF Claimed, Mine
    <3> QED
      BY <3>1, <3>2
  <2> QED
    BY <1>3, <1>4, <2>1, <2>2 DEF Owned
<1> QED
  BY <1>3, <1>7, <1>8, <1>9 DEF KeyInv

LEMMA LeaveKey ==
    ASSUME LockInv, KeyInv, NEW t \in Thread, Acquired(t) \/ Refused(t) \/ Raises(t) \/ Left(t)
    PROVE  KeyInv'
<1>1. /\ Release(t) /\ LockTypes /\ round' = round
      /\ \A u \in Thread \ {t} : at'[u] = at[u]
  BY LeaveLocks DEF LockInv, LockTypes, Acquired, Refused, Raises, Left
<1>2. /\ pc[t] = "release" /\ pc' = [pc EXCEPT ![t] = "idle"] /\ pc \in [Thread -> Place]
      /\ UNCHANGED <<socket, flying, command, result, store, got, broken, spoiled>>
      /\ command[t] = NoCall
  BY <1>1 DEF Release, Go, LockInv, CallInv, PoolInv, PoolTypes, Calling
<1>3. \A x : Loose(x)' = Loose(x)
  BY <1>2, LooseStays
<1>4. \A u \in Thread : Once(u) => Once(u)'
  BY <1>2, <1>3 DEF Once
<1>5. \A x \in Command : Awaited(x) => Awaited(x)'
  BY <1>2, <1>3 DEF Awaited
<1>6. ASSUME NEW u \in Thread, store = Mine(u), Claimed(u) PROVE Mine(u)' = Mine(u) /\ Claimed(u)'
  <2>1. CASE u # t
    BY <1>1, <1>2, <1>6, <2>1 DEF Claimed, Mine
  <2>2. CASE u = t
    <3>1. Set(Mine(t)) # NoCall /\ Del(Mine(t)) # NoCall
      <4>1. Mine(t) \in Token
        BY DEF LockInv, LockTypes, Doing, Mine, Token, Acquired, Refused, Raises, Left
      <4> QED
        BY <4>1, Tokens, CallAssumption
    <3>2. at[t] = "trying" /\ result[t] = "yes"
      BY <1>2, <1>6, <2>2, <3>1 DEF Claimed, Acquired, Refused, Raises, Left
    <3>3. Acquired(t)
      BY <3>2, CallAssumption, LockAssumption DEF Refused, Raises, Left
    <3>4. at'[t] = "in"
      BY <1>1, <3>3 DEF Acquired, LockTypes
    <3> QED
      BY <1>1, <2>2, <3>4 DEF Claimed, Mine
  <2> QED
    BY <2>1, <2>2
<1>7. Owned => Owned'
  BY <1>2, <1>6 DEF Owned
<1> QED
  BY <1>2, <1>4, <1>5, <1>7 DEF KeyInv

LEMMA ThreadKey ==
    ASSUME LockInv, KeyInv, NEW t \in Thread, Proceed(t) \/ Trouble(t), UNCHANGED lockVars
    PROVE  KeyInv'
<1> SUFFICES ASSUME NEW CONSTANT cmd, cmd = command[t], ~spoiled' PROVE KeyInv'
  BY DEF KeyInv
<1>1. /\ CallInv /\ CallTypes /\ CallTypes' /\ OthersKept(t) /\ Calling(t)
      /\ Doing(t) /\ Distinct /\ pc \in [Thread -> Place]
  BY ThreadCalls, CommandsApart DEF LockInv, CallInv, PoolInv, PoolTypes
<1>2. ~spoiled /\ UNCHANGED <<at, round, store>> /\ (\A u : Mine(u)' = Mine(u))
  <2>1. store' = store /\ (spoiled' = spoiled \/ Interrupt(t))
    BY DEF Proceed, Trouble, Full, Ready, Reconnect, Send, Read, ReadFails, SendFails, CheckFails, Interrupt
  <2>2. Interrupt(t) => ~spoiled
    BY DEF Interrupt
  <2> QED
    BY <2>1, <2>2 DEF lockVars, Mine
<1>3. /\ broken' = broken \/ broken' = broken \union {cmd}
      /\ \A u \in Thread \ {t} : result'[u] = result[u]
      /\ pc[t] \in {"full", "check", "send", "read"}
  BY <1>1 DEF CallTypes, Proceed, Trouble, Full, Ready, Reconnect, Send, Read, ReadFails,
              SendFails, CheckFails, Interrupt, Failed, Outcome
<1>4. cmd \in Command /\ cmd # NoCall /\ Loose(cmd) \in Nat /\ Loose(cmd)' \in Nat
  <2>1. cmd \in Command /\ cmd # NoCall
    BY <1>1, <1>3 DEF Calling, CallTypes
  <2> QED
    BY <1>1, <2>1, DueParts
<1>5. ASSUME NEW x \in Command \ {cmd}
      PROVE  Loose(x) \in Nat /\ Loose(x)' \in Nat /\ Loose(x)' =< Loose(x)
  BY <1>1, DueParts, ThreadCounts DEF Sends
<1>6. /\ \A u \in Thread : Once(u)
      /\ \A x \in Command : Awaited(x)
      /\ Owned
  BY <1>2 DEF KeyInv
<1>7. ASSUME NEW u \in Thread \ {t} PROVE Once(u)'
  <2> SUFFICES ASSUME NEW CONSTANT x, x = command[u], x # NoCall, x \notin broken' PROVE Once(u)'
    BY <1>1 DEF Once, OthersKept
  <2>1. command'[u] = x /\ pc'[u] = pc[u] /\ got'[u] = got[u]
    BY <1>1 DEF OthersKept
  <2>2. x \in Command \ {cmd}
    BY <1>1 DEF Distinct, CallTypes
  <2>3. /\ pc[u] # "read" => Loose(x) = 0 /\ got[u] = {}
        /\ Loose(x) = 0 \/ (Loose(x) = 1 /\ got[u] = {})
    BY <1>3, <1>6 DEF Once
  <2>4. /\ pc[u] # "read" => Loose(x)' = 0 /\ got[u] = {}
        /\ Loose(x)' = 0 \/ (Loose(x)' = 1 /\ got[u] = {})
    BY <1>5, <2>2, <2>3
  <2> QED
    BY <2>1, <2>4 DEF Once
<1>8. ASSUME NEW x \in Command \ {cmd} PROVE Awaited(x)'
  <2>1. x \in broken \/ Loose(x) = 0 \/ \E u \in Thread : command[u] = x
    BY <1>6 DEF Awaited
  <2>2. Loose(x) = 0 => Loose(x)' = 0
    BY <1>5
  <2>3. (\E u \in Thread : command[u] = x) => \E u \in Thread : command'[u] = x
    BY <1>1 DEF OthersKept
  <2> QED
    BY <1>3, <2>1, <2>2, <2>3 DEF Awaited
<1>9. ASSUME NEW u \in Thread \ {t}, Claimed(u) PROVE Claimed(u)'
  BY <1>1, <1>2, <1>3, <1>9 DEF Claimed, OthersKept
<1>10. /\ Once(t)' /\ Awaited(cmd)'
       /\ store = Mine(t) /\ Claimed(t) => Claimed(t)' \/ {Set(store), Del(store)} \intersect broken' # {}
  <2>1. CASE broken' = broken \union {cmd} /\ command'[t] \in {cmd, NoCall}
    <3>1. Once(t)' /\ Awaited(cmd)'
      BY <2>1 DEF Once, Awaited
    <3>2. cmd \in {Set(Mine(t)), Del(Mine(t))}
      BY <1>1, <1>4 DEF Doing
    <3> QED
      BY <2>1, <3>1, <3>2
  <2>2. CASE Ready(t) \/ Reconnect(t) \/ Send(t)
    <3>1. /\ broken' = broken /\ command' = command /\ got' = got
          /\ \/ pc[t] = "check" /\ pc'[t] = "send" /\ ~Send(t)
             \/ pc[t] = "send" /\ pc'[t] = "read"
          /\ ~SendFails(t)
      BY <1>1, <2>2 DEF Ready, Reconnect, Send, SendFails, Failed, Go, CallTypes
    <3>2. /\ Loose(cmd)' =< Loose(cmd) \/ (pc[t] = "send" /\ Loose(cmd)' =< Loose(cmd) + 1)
      BY <1>1, <1>4, <3>1, ThreadCounts DEF Sends
    <3>3. cmd \in broken \/ (Loose(cmd) = 0 /\ got[t] = {})
      BY <1>4, <1>6, <3>1 DEF Once
    <3>4. \/ cmd \in broken
          \/ /\ pc'[t] # "read" => Loose(cmd)' = 0 /\ got'[t] = {}
             /\ Loose(cmd)' = 0 \/ (Loose(cmd)' = 1 /\ got'[t] = {})
      BY <1>4, <3>1, <3>2, <3>3
    <3>5. command'[t] = cmd
      BY <3>1
    <3>6. Once(t)'
      BY <3>1, <3>4, <3>5 DEF Once
    <3>7. Awaited(cmd)'
      BY <3>5 DEF Awaited
    <3>8. Claimed(t) => Claimed(t)'
      BY <1>2, <3>1, <3>5 DEF Claimed
    <3> QED
      BY <3>6, <3>7, <3>8
  <2>3. CASE Read(t)
    <3>1. /\ conn[t] # NoConnection /\ Open(conn[t]) /\ socket[conn[t]].replies # <<>>
          /\ pc[t] = "read" /\ Go(t, "release") /\ broken' = broken
          /\ Outcome(t, Head(socket[conn[t]].replies))
      BY <1>1, <2>3 DEF Read, CallInv, PoolInv, Leases
    <3>2. \E r \in got[t] : socket[conn[t]].replies = <<r>>
      BY <1>1, <1>2, <3>1, OwnQuiet
    <3>3. result'[t] \in got[t] /\ command'[t] = NoCall /\ pc'[t] = "release"
      BY <1>1, <3>1, <3>2 DEF Go, Outcome, CallTypes
    <3>4. cmd \in broken \/ Loose(cmd) = 0
      BY <1>4, <1>6, <3>3 DEF Once
    <3>5. Loose(cmd)' =< Loose(cmd)
      BY <1>1, <1>4, <2>3, <3>1, ThreadCounts DEF Sends, SendFails, Send
    <3>6. Once(t)' /\ Awaited(cmd)'
      BY <1>4, <3>1, <3>3, <3>4, <3>5 DEF Once, Awaited
    <3>7. Claimed(t) => at[t] = "trying" /\ got[t] = {"yes"}
      BY <1>1, <1>4, <3>1, <3>3 DEF Claimed, Doing
    <3>8. Claimed(t) => Claimed(t)'
      BY <1>2, <3>3, <3>7 DEF Claimed
    <3> QED
      BY <3>6, <3>8
  <2>4. CASE Full(t) \/ CheckFails(t) \/ SendFails(t) \/ ReadFails(t) \/ Interrupt(t)
    <3>1. broken' = broken \union {cmd} /\ command'[t] \in {cmd, NoCall}
      BY <1>1, <2>4 DEF Full, CheckFails, SendFails, ReadFails, Interrupt, Failed, Outcome, CallTypes
    <3> QED
      BY <2>1, <3>1
  <2> QED
    BY <2>2, <2>3, <2>4 DEF Proceed, Trouble
<1>11. Owned'
  BY <1>2, <1>3, <1>6, <1>9, <1>10 DEF Owned
<1> QED
  BY <1>7, <1>8, <1>10, <1>11 DEF KeyInv

LEMMA InitKey == Init => KeyInv
<1> SUFFICES ASSUME Init PROVE KeyInv
  OBVIOUS
<1>1. \A x \in Command : Loose(x) = 0
  <2>1. \A c \in Connection : Todo(c) = <<>>
    BY DEF Init, PoolInit, Todo, Open
  <2>2. \A x : Waiting(x, Connection) = {}
    BY <2>1 DEF Waiting
  <2>3. Cardinality({}) = 0 /\ \A x \in Command : flying[x] = 0
    BY FS_EmptySet DEF Init, PoolInit
  <2> QED
    BY <2>2, <2>3 DEF Loose
<1>2. store = NoToken /\ \A t \in Thread : command[t] = NoCall
  BY LockAssumption DEF Init, PoolInit
<1> QED
  BY <1>1, <1>2 DEF KeyInv, Once, Awaited, Owned

\* The server carries out cmd: a SET puts its own token into the key, and only
\* its own DEL takes it out.
LEMMA CarryKey ==
    ASSUME LockInv, KeyInv, NEW cmd \in Command, Carry(cmd), CarriedOut(cmd), UNCHANGED lockVars,
           UNCHANGED <<pc, command, result, broken, spoiled>>, CallTypes'
    PROVE  KeyInv'
<1> SUFFICES ASSUME ~spoiled PROVE KeyInv'
  BY DEF KeyInv
<1>1. /\ CallTypes /\ Distinct /\ cmd # NoCall
      /\ UNCHANGED <<at, round>> /\ (\A u : Mine(u)' = Mine(u))
      /\ store' = LockApply(cmd, store).store /\ cmd \in LockCommand
      /\ \A u \in Thread : got'[u] = IF command[u] = cmd THEN got[u] \union {LockApply(cmd, store).reply}
                                     ELSE got[u]
  BY CommandsApart, LockAssumption, CallAssumption
     DEF Carry, LockInv, CallInv, CallTypes, lockVars, Mine
<1>2. \A x \in Command : Loose(x) \in Nat /\ Loose(x)' \in Nat
  BY <1>1, DueParts
<1>3. /\ \A x \in Command \ {cmd} : Loose(x)' = Loose(x)
      /\ Loose(cmd)' = Loose(cmd) - 1 /\ Loose(cmd) > 0
  BY <1>2 DEF CarriedOut
<1>4. /\ \A u \in Thread : Once(u) /\ Doing(u)
      /\ \A x \in Command : Awaited(x)
      /\ Owned
  BY DEF KeyInv, LockInv
<1>5. ASSUME NEW u \in Thread PROVE Once(u)'
  <2> SUFFICES ASSUME NEW CONSTANT x, x = command[u], x # NoCall, x \notin broken PROVE Once(u)'
    BY DEF Once
  <2>1. x \in Command
    BY <1>1 DEF CallTypes
  <2>2. /\ pc[u] # "read" => Loose(x) = 0 /\ got[u] = {}
        /\ Loose(x) = 0 \/ (Loose(x) = 1 /\ got[u] = {})
    BY <1>4 DEF Once
  <2>3. CASE x = cmd
    <3>1. pc[u] = "read" /\ Loose(x)' = 0
      BY <1>2, <1>3, <2>2, <2>3
    <3> QED
      BY <3>1 DEF Once
  <2>4. CASE x # cmd
    <3>1. Loose(x)' = Loose(x) /\ got'[u] = got[u]
      BY <1>1, <1>3, <2>1, <2>4
    <3> QED
      BY <2>2, <3>1 DEF Once
  <2> QED
    BY <2>3, <2>4
<1>6. ASSUME NEW x \in Command PROVE Awaited(x)'
  <2>1. Loose(x) = 0 => Loose(x)' = 0
    BY <1>2, <1>3
  <2> QED
    BY <1>4, <2>1 DEF Awaited
<1>7. cmd \notin broken => \E u \in Thread : command[u] = cmd /\ got[u] = {}
  <2> SUFFICES ASSUME cmd \notin broken PROVE \E u \in Thread : command[u] = cmd /\ got[u] = {}
    OBVIOUS
  <2>1. PICK u \in Thread : command[u] = cmd
    BY <1>2, <1>3, <1>4 DEF Awaited
  <2>2. got[u] = {}
    BY <1>1, <1>3, <1>4, <2>1 DEF Once
  <2> QED
    BY <2>1, <2>2
<1>8. Owned'
  <2>1. CASE store = NoToken /\ cmd.op = "set"
    <3>1. store' = cmd.token /\ cmd = Set(store') /\ LockApply(cmd, store).reply = "yes"
      BY <1>1, <2>1 DEF LockApply, LockCommand, Set, Del
    <3>2. CASE cmd \in broken
      BY <3>1, <3>2 DEF Owned
    <3>3. CASE cmd \notin broken
      <4>1. PICK u \in Thread : command[u] = cmd /\ got[u] = {}
        BY <1>7, <3>3
      <4>2. command[u] # NoCall /\ Del(Mine(u)).op # "set"
        BY <1>1, <4>1 DEF Del
      <4>3. at[u] = "trying" /\ cmd = Set(Mine(u))
        BY <1>4, <2>1, <4>1, <4>2 DEF Doing
      <4>4. cmd.token = Mine(u)
        BY <4>3 DEF Set
      <4>5. store' = Mine(u) /\ got'[u] = {"yes"}
        BY <1>1, <3>1, <4>1, <4>4
      <4>6. Claimed(u)'
        BY <1>1, <4>1, <4>3, <4>5 DEF Claimed
      <4> QED
        BY <1>1, <4>5, <4>6 DEF Owned
    <3> QED
      BY <3>2, <3>3
  <2>2. CASE store # NoToken /\ cmd = Del(store)
    BY <1>1, <2>2 DEF LockApply, Del, Owned
  <2>3. CASE store = NoToken /\ cmd.op # "set"
    <3>1. store' = NoToken
      BY <1>1, <2>3 DEF LockApply
    <3> QED
      BY <3>1 DEF Owned
  <2>4. CASE store # NoToken /\ cmd # Del(store)
    <3>1. store' = store
      BY <1>1, <2>4 DEF LockApply, LockCommand, Set, Del
    <3>2. ASSUME NEW u \in Thread, store = Mine(u), Claimed(u)
          PROVE  Claimed(u)' \/ Set(store) \in broken
      <4>1. CASE command[u] # cmd
        BY <1>1, <3>2, <4>1 DEF Claimed
      <4>2. CASE command[u] = cmd
        <5>1. cmd = Set(Mine(u)) /\ at[u] = "trying"
          BY <1>1, <1>4, <2>4, <3>2, <4>2 DEF Doing
        <5>2. CASE got[u] = {"yes"}
          <6>1. cmd \in broken
            <7>1. cmd \notin broken => \E v \in Thread : command[v] = cmd /\ got[v] = {}
              BY <1>7
            <7> QED
              BY <1>1, <4>2, <5>2, <7>1 DEF Distinct
          <6> QED
            BY <3>2, <5>1, <6>1
        <5>3. CASE pc[u] = "release"
          BY <1>1, <4>2, <5>3 DEF LockInv, CallInv, Calling
        <5> QED
          BY <3>2, <5>1, <5>2, <5>3 DEF Claimed
      <4> QED
        BY <4>1, <4>2
    <3> QED
      BY <1>1, <1>4, <2>4, <3>1, <3>2 DEF Owned
  <2> QED
    BY <2>1, <2>2, <2>3, <2>4
<1> QED
  BY <1>5, <1>6, <1>8 DEF KeyInv

\* Nothing that counts changes, or less is under way.
LEMMA DropKey ==
    ASSUME KeyInv, CallTypes, CallTypes', UNCHANGED lockVars,
           UNCHANGED <<pc, command, result, store, got, broken, spoiled>>,
           \A x \in Command : Loose(x)' =< Loose(x)
    PROVE  KeyInv'
<1> SUFFICES ASSUME ~spoiled PROVE KeyInv'
  BY DEF KeyInv
<1>1. /\ \A u \in Thread : Once(u)
      /\ \A x \in Command : Awaited(x)
      /\ Owned
  BY DEF KeyInv
<1>2. \A x \in Command : Loose(x) \in Nat /\ Loose(x)' \in Nat /\ Loose(x)' =< Loose(x)
  BY DueParts
<1>3. ASSUME NEW u \in Thread PROVE Once(u)'
  <2> SUFFICES ASSUME NEW CONSTANT x, x = command[u], x # NoCall, x \notin broken PROVE Once(u)'
    BY DEF Once
  <2>1. /\ x \in Command
        /\ pc[u] # "read" => Loose(x) = 0 /\ got[u] = {}
        /\ Loose(x) = 0 \/ (Loose(x) = 1 /\ got[u] = {})
    BY <1>1 DEF Once, CallTypes
  <2>2. /\ pc[u] # "read" => Loose(x)' = 0 /\ got[u] = {}
        /\ Loose(x)' = 0 \/ (Loose(x)' = 1 /\ got[u] = {})
    BY <1>2, <2>1
  <2> QED
    BY <2>2 DEF Once
<1>4. ASSUME NEW x \in Command PROVE Awaited(x)'
  <2>1. Loose(x) = 0 => Loose(x)' = 0
    BY <1>2
  <2> QED
    BY <1>1, <2>1 DEF Awaited
<1>5. Owned'
  BY <1>1 DEF Owned, Claimed, Mine, lockVars
<1> QED
  BY <1>3, <1>4, <1>5 DEF KeyInv

LEMMA RestKey ==
    ASSUME LockInv, KeyInv, Server \/ Disconnect, UNCHANGED lockVars
    PROVE  KeyInv'
<1>1. CallInv /\ CallInv' /\ CallTypes /\ CallTypes'
  BY RestCalls DEF LockInv, CallInv
<1>2. ASSUME NEW c \in Connection, Serve(c) PROVE KeyInv'
  <2>1. Head(Todo(c)) \in Command /\ CarriedOut(Head(Todo(c)))
    BY <1>1, <1>2, ServeCounts
  <2>2. Carry(Head(Todo(c))) /\ UNCHANGED <<pc, command, result, broken, spoiled>>
    BY <1>2 DEF Serve
  <2> QED
    BY <1>1, <2>1, <2>2, CarryKey
<1>3. ASSUME NEW cmd \in Command, ServeLate(cmd) PROVE KeyInv'
  <2>1. CarriedOut(cmd)
    BY <1>1, <1>3, ServeLateCounts
  <2>2. Carry(cmd) /\ UNCHANGED <<pc, command, result, broken, spoiled>>
    BY <1>3 DEF ServeLate
  <2> QED
    BY <1>1, <2>1, <2>2, CarryKey
<1>4. CASE Disconnect \/ \E c \in Connection : Close(c)
  <2>1. UNCHANGED <<pc, command, result, store, got, broken, spoiled>>
    BY <1>4 DEF Disconnect, Close
  <2>2. \A x \in Command : Loose(x)' =< Loose(x)
    BY <1>1, <1>4, DropCounts
  <2> QED
    BY <1>1, <2>1, <2>2, DropKey
<1> QED
  BY <1>2, <1>3, <1>4 DEF Server

LEMMA NextKey == LockInv /\ KeyInv /\ [Next]_vars => KeyInv'
<1> SUFFICES ASSUME LockInv, KeyInv, [Next]_vars PROVE KeyInv'
  OBVIOUS
<1>1. CASE \E t \in Thread : Acquire(t) \/ TryAgain(t) \/ Leave(t)
  BY <1>1, EnterKey
<1>2. CASE \E t \in Thread : Acquired(t) \/ Refused(t) \/ Raises(t) \/ Left(t)
  BY <1>2, LeaveKey
<1>3. CASE \E t \in Thread : (Proceed(t) \/ Trouble(t)) /\ UNCHANGED lockVars
  BY <1>3, ThreadKey
<1>4. CASE (Server \/ Disconnect) /\ UNCHANGED lockVars
  BY <1>4, RestKey
<1>5. CASE Expire \/ UNCHANGED vars
  <2>1. /\ UNCHANGED <<flying, socket, pc, command, result, got, broken, spoiled, at, round>>
        /\ store' = store \/ store' = NoToken
    BY <1>5 DEF Expire, vars, poolVars, lockVars
  <2>2. \A x : Loose(x)' = Loose(x)
    BY <2>1, LooseStays
  <2> QED
    BY <2>1, <2>2 DEF KeyInv, Once, Awaited, Owned, Claimed, Mine
<1> QED
  BY <1>1, <1>2, <1>3, <1>4, <1>5 DEF Next, Locking, Pooling

\* A key that nobody holds, is trying to get or to free comes from a call an attempt
\* of which has failed (lock.py, 193-225 and 239-259), as long as no reading thread
\* was interrupted.
THEOREM NoKeyIsOrphaned == Spec => []NoOrphans
<1>1. LockInv /\ KeyInv => NoOrphans
  <2> SUFFICES ASSUME LockInv, KeyInv, store # NoToken, ~spoiled,
                      {Set(store), Del(store)} \intersect broken = {}
               PROVE  at[store[1]] # "out" /\ store = Mine(store[1])
    BY DEF NoOrphans
  <2>1. PICK u \in Thread : store = Mine(u) /\ Claimed(u)
    BY DEF KeyInv, Owned
  <2>2. store[1] = u
    BY <2>1 DEF Mine
  <2> QED
    BY <2>1, <2>2 DEF Claimed
<1>2. Init => LockInv /\ KeyInv
  BY InitLocks, InitKey
<1>3. LockInv /\ KeyInv /\ [Next]_vars => (LockInv /\ KeyInv)'
  BY NextLocks, NextKey
<1> QED
  BY <1>1, <1>2, <1>3, PTL DEF Spec

-----------------------------------------------------------------------------
(***************************************************************************)
(* The refinement: every step is one of RedisCall, or none.                *)
(***************************************************************************)
calls == <<command, [cmd \in Command |-> Due(cmd)], got, result, store, spoiled>>

LEMMA CallsInit == Init => Calls!Init
<1> SUFFICES ASSUME Init PROVE Calls!Init
  OBVIOUS
<1>1. ASSUME NEW x \in Command PROVE Due(x) = 0
  <2>1. \A c \in Connection : Todo(c) = <<>>
    BY DEF Init, PoolInit, Todo, Open
  <2>2. Waiting(x, Connection) = {}
    BY <2>1 DEF Waiting
  <2>3. Attempts(x) = {}
    BY CallAssumption DEF Attempts, Init, PoolInit
  <2>4. Cardinality({}) = 0 /\ flying[x] = 0
    BY FS_EmptySet DEF Init, PoolInit
  <2> QED
    BY <2>2, <2>3, <2>4 DEF Due
<1>2. [cmd \in Command |-> Due(cmd)] = [cmd \in Command |-> 0]
  BY <1>1
<1> QED
  BY <1>2 DEF Calls!Init, Init, PoolInit

LEMMA StartMaps ==
    ASSUME CallInv, NEW t \in Thread, NEW cmd \in Command, Execute(t, cmd)
    PROVE  Calls!Next
<1>1. \A x \in Command : Due(x)' = Due(x) + (IF x = cmd THEN Retries + 1 ELSE 0)
  BY ExecuteCounts
<1>2. \A x \in Command : Due(x) \in Nat
  BY ExecuteTypes, DueParts DEF CallInv
<1>3. [x \in Command |-> Due(x)]' = [[x \in Command |-> Due(x)] EXCEPT ![cmd] = @ + Retries + 1]
  <2>1. Retries \in Nat
    BY CallAssumption
  <2>2. /\ Due(cmd)' = Due(cmd) + Retries + 1
        /\ \A x \in Command \ {cmd} : Due(x)' = Due(x)
    BY <1>1, <1>2, <2>1
  <2> QED
    BY <2>2
<1>4. command[t] = NoCall
  BY DEF CallInv, Calling, Execute
<1>5. Calls!Start(t, cmd)
  BY <1>3, <1>4 DEF Calls!Start, Execute
<1> QED
  BY <1>5 DEF Calls!Next

\* Only the number of executions a command may still have goes down.
LEMMA ShrinksWhen ==
    ASSUME CallTypes, CallTypes', \A x \in Command : Due(x)' =< Due(x)
    PROVE  Calls!Shrinks
<1>1. \A x \in Command : Due(x) \in Nat /\ Due(x)' \in Nat
  BY DueParts
<1> QED
  BY <1>1 DEF Calls!Shrinks

LEMMA ThreadMaps ==
    ASSUME CallInv, NEW t \in Thread, Proceed(t) \/ Trouble(t)
    PROVE  Calls!Next
<1>1. CallTypes /\ CallTypes' /\ PoolInv /\ Calling(t)
  BY ThreadCalls DEF CallInv
<1>2. Calls!Shrinks
  BY <1>1, ThreadCounts, ShrinksWhen
<1>3. store' = store
  BY DEF Proceed, Trouble, Full, Ready, Reconnect, Send, Read, ReadFails, SendFails, CheckFails, Interrupt
<1>4. \/ UNCHANGED <<command, result, got, spoiled>>
      \/ Outcome(t, Error) /\ spoiled' \in {spoiled, TRUE} /\ pc[t] \in {"full", "check", "send", "read"}
      \/ Read(t)
  <2>1. CASE Full(t) \/ CheckFails(t)
    BY <2>1 DEF Full, CheckFails
  <2>2. CASE Ready(t) \/ Reconnect(t) \/ Send(t)
    BY <2>2 DEF Ready, Reconnect, Send
  <2>3. CASE SendFails(t) \/ ReadFails(t)
    BY <2>3 DEF SendFails, ReadFails, Failed
  <2>4. CASE Interrupt(t)
    <3>1. spoiled' \in {spoiled, TRUE}
      <4>1. spoiled' = (spoiled \/ pc[t] = "read") /\ spoiled \in BOOLEAN
        BY <1>1, <2>4 DEF Interrupt, CallTypes
      <4>2. CASE pc[t] = "read"
        BY <4>1, <4>2
      <4>3. CASE pc[t] # "read"
        BY <4>1, <4>3
      <4> QED
        BY <4>2, <4>3
    <3> QED
      BY <2>4, <3>1 DEF Interrupt
  <2> QED
    BY <2>1, <2>2, <2>3, <2>4 DEF Proceed, Trouble
<1>5. CASE UNCHANGED <<command, result, got, spoiled>>
  <2>1. Calls!GiveUp
    BY <1>2, <1>3, <1>5 DEF Calls!GiveUp
  <2> QED
    BY <2>1 DEF Calls!Next
<1>6. CASE Outcome(t, Error) /\ spoiled' \in {spoiled, TRUE} /\ pc[t] \in {"full", "check", "send", "read"}
  <2>1. command[t] # NoCall
    BY <1>1, <1>6 DEF Calling
  <2>2. Calls!Return(t)
    BY <1>2, <1>3, <1>6, <2>1 DEF Calls!Return, Outcome
  <2> QED
    BY <2>2 DEF Calls!Next
<1>7. CASE Read(t)
  <2>1. /\ command[t] # NoCall /\ conn[t] # NoConnection /\ conn[t] \in Connection
        /\ spoiled' = spoiled /\ Open(conn[t]) /\ socket[conn[t]].replies # <<>>
        /\ Outcome(t, Head(socket[conn[t]].replies)) /\ pc[t] = "read"
    BY <1>1, <1>7, ConnTyped DEF Read, Calling, PoolInv, Leases
  <2>2. Head(socket[conn[t]].replies) \in Reply
    BY <1>1, <2>1, TodoTyped DEF Socket
  <2>3. ~spoiled => Head(socket[conn[t]].replies) \in got[t]
    BY <2>1, OwnQuiet
  <2>4. \E r \in IF spoiled THEN Reply ELSE got[t] : result' = [result EXCEPT ![t] = r]
    BY <2>1, <2>2, <2>3 DEF Outcome
  <2>5. Calls!Return(t)
    BY <1>2, <1>3, <2>1, <2>4 DEF Calls!Return, Outcome
  <2> QED
    BY <2>5 DEF Calls!Next
<1> QED
  BY <1>4, <1>5, <1>6, <1>7

LEMMA CarryMaps ==
    ASSUME NEW cmd \in Command, Carry(cmd), CarriedOut(cmd), CallTypes, CallTypes',
           UNCHANGED <<command, result, spoiled>>
    PROVE  Calls!Next
<1>1. \A x \in Command : Due(x) \in Nat /\ Due(x)' = Due(x) - (IF x = cmd THEN 1 ELSE 0)
  BY DueParts DEF CarriedOut
<1>2. [x \in Command |-> Due(x)]' = [[x \in Command |-> Due(x)] EXCEPT ![cmd] = @ - 1]
  <2>1. Due(cmd)' = Due(cmd) - 1 /\ \A x \in Command \ {cmd} : Due(x)' = Due(x)
    BY <1>1
  <2> QED
    BY <2>1
<1>3. Due(cmd) > 0
  BY DEF CarriedOut
<1>4. Calls!Execute(cmd)
  BY <1>2, <1>3 DEF Calls!Execute, Carry
<1> QED
  BY <1>4 DEF Calls!Next

LEMMA RestMaps ==
    ASSUME CallInv, Server \/ Disconnect
    PROVE  Calls!Next
<1>1. CallTypes /\ CallTypes'
  BY RestCalls DEF CallInv
<1>2. ASSUME NEW c \in Connection, Serve(c) PROVE Calls!Next
  <2>1. Head(Todo(c)) \in Command /\ CarriedOut(Head(Todo(c)))
    BY <1>2, ServeCounts
  <2>2. Carry(Head(Todo(c))) /\ UNCHANGED <<command, result, spoiled>>
    BY <1>2 DEF Serve
  <2> QED
    BY <1>1, <2>1, <2>2, CarryMaps
<1>3. ASSUME NEW cmd \in Command, ServeLate(cmd) PROVE Calls!Next
  <2>1. CarriedOut(cmd)
    BY <1>3, ServeLateCounts
  <2>2. Carry(cmd) /\ UNCHANGED <<command, result, spoiled>>
    BY <1>3 DEF ServeLate
  <2> QED
    BY <1>1, <2>1, <2>2, CarryMaps
<1>4. CASE Disconnect \/ \E c \in Connection : Close(c)
  <2>1. UNCHANGED <<command, got, result, store, spoiled>>
    BY <1>4 DEF Disconnect, Close
  <2>2. Calls!Shrinks
    BY <1>1, <1>4, DropCounts, ShrinksWhen
  <2>3. Calls!GiveUp
    BY <2>1, <2>2 DEF Calls!GiveUp
  <2> QED
    BY <2>3 DEF Calls!Next
<1> QED
  BY <1>2, <1>3, <1>4 DEF Server

\* Due depends on nothing else.
LEMMA DueStays ==
    ASSUME UNCHANGED <<flying, socket, pc, command, failures>>, NEW x
    PROVE  Due(x)' = Due(x)
BY DEF Due, Waiting, Todo, Open, Attempts, Used

LEMMA NextMaps == LockInv /\ [Next]_vars => [Calls!Next]_(Calls!vars)
<1> SUFFICES ASSUME LockInv, [Next]_vars PROVE Calls!Next \/ UNCHANGED calls
  BY DEF Calls!vars, calls
<1>0. CallInv
  BY DEF LockInv
<1>1. CASE \E t \in Thread : Acquire(t) \/ TryAgain(t) \/ Leave(t)
  BY <1>0, <1>1, EnterLocks, StartMaps
<1>2. ASSUME NEW t \in Thread, Acquired(t) \/ Refused(t) \/ Raises(t) \/ Left(t)
      PROVE  UNCHANGED calls
  <2>1. Release(t)
    BY <1>2, LeaveLocks
  <2>2. \A x \in Command : Due(x)' = Due(x)
    BY <1>0, <2>1, ReleaseCounts
  <2>3. [x \in Command |-> Due(x)]' = [x \in Command |-> Due(x)]
    BY <2>2
  <2> QED
    BY <2>1, <2>3 DEF Release, calls
<1>3. CASE \E t \in Thread : Proceed(t) \/ Trouble(t)
  BY <1>0, <1>3, ThreadMaps
<1>4. CASE Server \/ Disconnect
  BY <1>0, <1>4, RestMaps
<1>5. CASE Expire
  <2>1. \A x \in Command : Due(x)' = Due(x)
    BY <1>5, DueStays DEF Expire
  <2>2. [x \in Command |-> Due(x)]' = [x \in Command |-> Due(x)]
    BY <2>1
  <2>3. Calls!Lapse
    BY <1>5, <2>2, LockAssumption DEF Expire, Calls!Lapse
  <2> QED
    BY <2>3 DEF Calls!Next
<1>6. CASE UNCHANGED vars
  <2>1. UNCHANGED <<flying, socket, pc, command, failures, got, result, store, spoiled>>
    BY <1>6 DEF vars, poolVars
  <2>2. \A x \in Command : Due(x)' = Due(x)
    BY <2>1, DueStays
  <2>3. [x \in Command |-> Due(x)]' = [x \in Command |-> Due(x)]
    BY <2>2
  <2> QED
    BY <2>1, <2>3 DEF calls
<1> QED
  BY <1>1, <1>2, <1>3, <1>4, <1>5, <1>6 DEF Next, Locking, Pooling

\* A command is carried out at most once per attempt, and a reply is one to the
\* caller's own command, until an exception that is no Exception interrupts a
\* thread that reads (client.py, 1230-1266).
THEOREM CallsAreKept == Spec => CallsKept
BY CallsInit, NextMaps, InitLocks, NextLocks, PTL DEF Spec, CallsKept, Calls!Spec

=============================================================================
