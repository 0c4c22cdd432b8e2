------------------------------ MODULE MCOperands ------------------------------
(* Operands for TLC: x0 and two more registers.                            *)
EXTENDS Operands

MCRegs == 0..2
==============================================================================
