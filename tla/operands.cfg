SPECIFICATION Spec
CONSTANTS
  Regs <- MCRegs
  MaxInstructions = 5
INVARIANTS
  IInv
  OperandsCurrent
  TargetsCurrent
