SPECIFICATION Spec
CONSTANTS
  Bits = {"b0"}
  Buffer = 3
  RamSize = 7
  FrameSize = 3
  SavedSize = 1
INVARIANT IInv
PROPERTIES
  
  CallsEnd
  TrapRunsAway
