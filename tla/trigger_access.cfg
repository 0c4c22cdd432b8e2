SPECIFICATION Spec
CONSTANTS
  Last = 2
  Boot = 0
  TrapVector = 1
  IrqVector = 1
  HaltVector = 2
  DebugVector = 0
  Instructions <- MCSlowLoad
  MaxLatency = 4
  Irqs <- MCNever
  DebugReqs = {TRUE, FALSE}
PROPERTIES
  TriggersFromDebugOnly
