SPECIFICATION FairSpec
CONSTANTS
  Last = 3
  Boot = 0
  TrapVector = 1
  IrqVector = 2
  HaltVector = 3
  DebugVector = 1
  Instructions <- MCIrq
  MaxLatency = 2
  Irqs = {TRUE, FALSE}
  DebugReqs <- MCNever
INVARIANTS
  Drained
PROPERTIES
  ImplementsHart
  InterruptServed
