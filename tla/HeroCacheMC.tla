---------------------------- MODULE HeroCacheMC ----------------------------
(* Three invocations of HeroCache: a reader that comes again, and two writers. *)
EXTENDS HeroCache, TLC

CONSTANTS reader, one, two, old, new, other, third

\* Reads of the next row to be written and of the one that is there, a write of
\* one hero and a write of two.
Reads == {[write |-> FALSE, useCache |-> b, items |-> <<2, 1>>] : b \in BOOLEAN}
Writes(d) == {[write |-> TRUE, useCache |-> b, items |-> d] : b \in BOOLEAN}
SmallRequests == Reads \union Writes(<<new>>) \union Writes(<<other, third>>)
SmallData == {old, new, other, third}
SmallRows == 1 :> old

\* The writers write different heroes, so that the heroes tell them apart.
RolesInit ==
    /\ Init
    /\ req[reader] \in Reads
    /\ req[one] \in Writes(<<new>>)
    /\ req[two] \in Writes(<<other, third>>)
RolesSpec == RolesInit /\ [][Next]_vars /\ Fairness
=============================================================================
