SPECIFICATION Spec
CONSTANTS
  Words = 2
  NoData = NoData
  Instructions <- MCInstructions
  Contents <- MCContents
  Latencies <- MCLatencies
INVARIANTS
  BridgeInStep
PROPERTIES
  ImplementsBus
  AccessesFinish
