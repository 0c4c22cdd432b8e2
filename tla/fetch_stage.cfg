SPECIFICATION FairSpec
CONSTANTS
  Words = 2
  DEPTH = 2
  NoWord = NoWord
  Programs <- MCPrograms
  Targets <- MCFewTargets
INVARIANTS
  FetchInv
  CanProceed
PROPERTIES
  ImplementsStream
  KeepsDelivering
