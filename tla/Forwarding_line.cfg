SPECIFICATION SettledSpec
CONSTANTS
  Node <- LineNode
  CostFile <- LineCost
  Wire <- LineWire
  NoLSA = NoLSA
  BootAsHeard = {TRUE}
  TornReads = FALSE
  FaultKinds = {"cut", "silence"}
  MaxFaults = 1
  MaxInFlight = 1
  Routes <- TableOf
  Limit = 9
  Flow <- LineFlow
  MaxData = 1
INVARIANTS
  ForwardTypeOK
  RoutesDescend
  OwnerAhead
PROPERTIES
  NextHopHeard
  FloodKept
  OwnLinkFollowsHeard
