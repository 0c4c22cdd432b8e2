SPECIFICATION Spec
CONSTANTS
  Last = 2
  Boot = 0
  TrapVector = 1
  IrqVector = 1
  HaltVector = 2
  DebugVector = 0
  Instructions <- MCStep
  MaxLatency = 2
  Irqs <- MCAlways
  DebugReqs = {TRUE, FALSE}
PROPERTIES
  ImplementsHart
