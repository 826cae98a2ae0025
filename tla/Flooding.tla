------------------------------ MODULE Flooding ------------------------------
(***************************************************************************)
(* What the exchange of LSAs promises routers that go on running, without  *)
(* clocks, packets or the network: only the owner of a link says anything  *)
(* about it, it numbers what it says one by one, every change is a change  *)
(* of side, and what a router holds is something the owner has said, never *)
(* older than what it held before.                                         *)
(*                                                                         *)
(* LinkState is shown to implement this.                                   *)
(***************************************************************************)
EXTENDS Integers

CONSTANTS
    Node,     \* routers that go on running
    Link,     \* their links, <<o, n>>
    First,    \* First[l]: the first thing that its owner says about l
    Nothing   \* nothing is held for a link

VARIABLE copy    \* copy[i][l]: what i holds for l, or Nothing

\* What is said about a link n changes after x.
Later(x, n) ==
    [cost |-> x.cost, seq |-> x.seq + n, up |-> IF n % 2 = 0 THEN x.up ELSE ~x.up]

\* All that its owner has said about l.
Said(l) ==
    IF copy[l[1]][l] = Nothing THEN {}
    ELSE {Later(First[l], n) : n \in 0..(copy[l[1]][l].seq - First[l].seq)}

\* Whatever is held at first was said.
Init == \A i \in Node, l \in Link : copy[i][l] \in Said(l) \union {Nothing}

\* i may say the next thing about its link l.
Speak(i, l) ==
    \/ copy'[i][l] = copy[i][l]
    \/ copy[i][l] = Nothing /\ copy'[i][l] = First[l]
    \/ copy[i][l] # Nothing /\ copy'[i][l] = Later(copy[i][l], 1)

\* i may come to hold something newer about a link of another router.
Listen(i, l) ==
    \/ copy'[i][l] = copy[i][l]
    \/ /\ copy'[i][l] \in Said(l)
       /\ copy[i][l] # Nothing => copy[i][l].seq < copy'[i][l].seq

\* i handles a packet.
Handle(i) ==
    /\ \A j \in Node \ {i} : copy'[j] = copy[j]
    /\ \A l \in Link : IF l[1] = i THEN Speak(i, l) ELSE Listen(i, l)

Next == \E i \in Node : Handle(i)

Spec == Init /\ [][Next]_copy
=============================================================================
