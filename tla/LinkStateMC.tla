---------------------------- MODULE LinkStateMC ----------------------------
(* A small network for LinkState; ForwardingMC has one with a relay. *)
EXTENDS LinkState, TLC

\* Two routers.  The file of 1 lists 2 with cost 3; 2 learns 1 by heartbeat.
PairNode == 1..2
PairWire == {{1, 2}}
PairCost == (1 :> (2 :> 3)) @@ (2 :> <<>>)
=============================================================================
