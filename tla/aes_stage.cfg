SPECIFICATION FairSpec
CONSTANTS
  ZeroWord  = 0
  KeyWord   <- ToyKeyWord
  RoundWord <- ToyRoundWord
  NextOps   <- ToyNextOps
  Keys      <- ToyKeys
  Texts     <- ToyTexts
  RoundKey    <- ToyRoundKey
  CipherState <- ToyCipherState
INVARIANTS
  IInv
  CanFinish
  BlockEncrypts
PROPERTIES
  ImplementsInOrder
  EverythingFinishes
