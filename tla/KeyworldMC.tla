----------------------------- MODULE KeyworldMC -----------------------------
(***************************************************************************)
(* Two visitors.  a and b are forms of one word, plus and fx match a too,  *)
(* but plus has a '+' in its name, and fx has brackets: as RLIKE reads     *)
(* them, it matches nothing, itself included.  With a, a list that takes 6 *)
(* rows has room for its three neighbours only if they are not doubled.    *)
(* The answers hold neighbours of one name and the center itself as a      *)
(* neighbour; one or two, in any order, of three paths that end at the     *)
(* center, begin at it, and lead through it to a namesake; and profiles    *)
(* that are not there.                                                     *)
(***************************************************************************)
EXTENDS Keyworld

CONSTANTS a, b, plus, fx, one, two

SmallNames == [k \in Keyword |-> IF k = plus THEN NoName ELSE k]
SmallSimilar == [k \in Keyword |->
    CASE k = a -> <<a, b, plus, fx>> [] k = b -> <<a, b>> [] k = fx -> <<>> [] OTHER -> <<plus>>]

Neighbour(id, label) == [id |-> id, label |-> label]
Answer(kind, found, center, rows) ==
    [kind |-> kind, found |-> found, center |-> center, rows |-> rows]

OneOrTwo(S) == {<<x>> : x \in S} \union {<<x, y>> \in S \X S : x # y}

SmallRows == {<<Neighbour("f1", "kim"), Neighbour("f2", "kim"), Neighbour("f0", "lee")>>,
              <<Neighbour("f0", "kim"), Neighbour("f1", "kim")>>}
SmallPaths == {<<"p1", a, "p0">>, <<"p0", b, "p1">>, <<"p2", b, "p0", plus, "p1">>}

SmallAnswers ==
    {Answer("faculty", TRUE, "f0", <<>>), Answer("affiliation", TRUE, "f0", <<>>),
     Answer("publication", FALSE, "p0", <<>>)}
    \union {Answer("faculty", TRUE, "f0", rows) : rows \in SmallRows}
    \union {Answer("publication", TRUE, "p0", paths) : paths \in OneOrTwo(SmallPaths)}

\* Nothing tells the two visitors apart.
Alike == Permutations(Visitor)

=============================================================================
