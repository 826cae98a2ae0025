SPECIFICATION FairSpec
CONSTANTS
  Node <- PairNode
  CostFile <- PairCost
  Wire <- PairWire
  NoLSA = NoLSA
  BootAsHeard = {TRUE,FALSE}
  TornReads = FALSE
  FaultKinds = {"loss", "duplicate", "silence", "cut", "restart"}
  MaxFaults = 2
  MaxInFlight = 1
INVARIANTS
  TypeOK
  SeqFixesContent
  Agreement
PROPERTIES
  Converges
