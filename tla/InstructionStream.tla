--------------------------- MODULE InstructionStream ---------------------------
(***************************************************************************)
(* What the IF stage promises the ID stage: the instructions of the        *)
(* program in memory, one after the other, from the address that was set   *)
(* last, each with its own address, none missing and none twice, whatever  *)
(* their alignment and however long memory takes.                          *)
(*                                                                         *)
(* Memory is a sequence of half-words; a half-word of Wide begins a 32-bit *)
(* instruction.  Addresses count half-words.                               *)
(***************************************************************************)
EXTENDS Naturals, Sequences

CONSTANTS Words, NoWord

VARIABLES
  Wide,                                   \* memory: half-words that begin a 32-bit instruction
  pc,                                     \* address of the next instruction
  instr_valid_id, instr_rdata_id, pc_id   \* what ID sees

vars == <<Wide, pc, instr_valid_id, instr_rdata_id, pc_id>>

Half        == 0..(2 * Words - 1)
NextHalf(h) == IF h = 2 * Words - 1 THEN 0 ELSE h + 1

(* The instruction at h, as the half-words it is made of, and the address  *)
(* of the one after it.                                                    *)
InstrAt(h) == IF h \in Wide THEN <<h, NextHalf(h)>> ELSE <<h>>
After(h)   == IF h \in Wide THEN NextHalf(NextHalf(h)) ELSE NextHalf(h)

Init ==
  /\ Wide \subseteq Half
  /\ pc = 0
  /\ instr_valid_id = FALSE /\ instr_rdata_id = <<NoWord>> /\ pc_id = 0

Deliver ==
  /\ instr_valid_id' = TRUE /\ instr_rdata_id' = InstrAt(pc) /\ pc_id' = pc
  /\ pc' = After(pc)
  /\ UNCHANGED Wide

(* The pipeline moves on without a new instruction, or is flushed; a new   *)
(* path may begin in the same cycle.                                       *)
Consumed == instr_valid_id' \in {FALSE, instr_valid_id} /\ UNCHANGED <<instr_rdata_id, pc_id, Wide>>

Redirect(h) == pc' = h /\ Consumed
Wait        == pc' = pc /\ Consumed

Next == Deliver \/ Wait \/ \E h \in Half : Redirect(h)

Spec == Init /\ [][Next]_vars
==============================================================================
