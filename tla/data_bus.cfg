SPECIFICATION Spec
CONSTANTS
  Words = 2
  NoData = NoData
  Instructions <- MCInstructions
  Contents <- MCContents
INVARIANTS
  IInv
PROPERTIES
  ImplementsDataMemory
  RequestStable
