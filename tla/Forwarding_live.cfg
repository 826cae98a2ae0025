SPECIFICATION SettledFairSpec
CONSTANTS
  Node <- LineNode
  CostFile <- LineCost
  Wire <- LineWire
  NoLSA = NoLSA
  BootAsHeard = {TRUE}
  TornReads = FALSE
  FaultKinds = {"silence", "loss", "restart"}
  MaxFaults = 1
  MaxInFlight = 1
  Routes <- TableOf
  Limit = 9
  Flow <- LineFlow
  MaxData = 1
PROPERTIES
  DataLeaves
  Delivers
  Converges
  OwnLinksSettle
