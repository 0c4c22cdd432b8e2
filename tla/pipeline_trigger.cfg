SPECIFICATION FairSpec
CONSTANTS
  Last = 2
  Boot = 0
  TrapVector = 1
  IrqVector = 1
  HaltVector = 2
  DebugVector = 0
  Instructions <- MCTrigger
  MaxLatency = 3
  Irqs <- MCNever
  DebugReqs = {TRUE, FALSE}
INVARIANTS
  IInv
  FlowInv
PROPERTIES
  ImplementsHart
  DebugRequestServed
