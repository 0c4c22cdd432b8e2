SPECIFICATION EncryptSpec
CONSTANTS
  ZeroWord    <- MCZeroWord
  KeyWord     <- MCKeyWord
  RoundWord   <- MCRoundWord
  Keys        <- MCKeys
  Texts       <- MCTexts
  MaxBlocks   = 2
  Garbage     <- MCZeroWord
  Lens        <- MCLens
  RoundKey    <- MCRoundKey
  CipherState <- MCCipherState
  round_keys     <- MCround_keys
  ReferenceState <- MCReferenceState
  BytewiseState  <- MCBytewiseState
INVARIANTS
  EncryptInv
  CiphertextOnReturn
  SchedulesAgree
  StatesAgree
  FieldArithmetic
  ExpectedOutput
PROPERTY ImplementsCipher
