------------------------------ MODULE DataBus ------------------------------
(***************************************************************************)
(* The load-store unit on any memory that keeps the protocol of the bus:   *)
(* it may accept a request in the cycle it sees it, performs it then (a    *)
(* write perhaps before, as soon as it sees it), and answers accepted      *)
(* requests in order, one per cycle, at the earliest in the next cycle.    *)
(* It is shown to implement DataMemory: programs cannot tell the pipeline, *)
(* the split accesses and the delays of the bus from accesses made one at  *)
(* a time.                                                                 *)
(***************************************************************************)
EXTENDS LoadStoreUnit, Sequences

CONSTANTS
  Instructions,   \* the instructions of interest
  Contents        \* the memory contents to start from

ASSUME InstructionsAssumption == NoInstr \in Instructions /\ Instructions \subseteq Instruction
ASSUME ContentsAssumption     == Contents \subseteq Memories

VARIABLES
  mem,         \* the memory
  pending      \* the answers it owes: the words that were asked for

vars == <<lsuVars, mem, pending>>

Init == LsuInit /\ mem \in Contents /\ pending = <<>>

(* The memory performs the request that the load-store unit shows.         *)
Written == [mem EXCEPT ![trans_word] = [l \in Lanes |-> IF l \in trans_be THEN trans_wdata[l] ELSE @[l]]]

Accept(gnt, resp_valid) ==
  LET rest == IF resp_valid THEN Tail(pending) ELSE pending
  IN  /\ \/ mem' = Written /\ trans_valid /\ trans_we
         \/ mem' = mem /\ ~(count_up(gnt) /\ trans_we)
      /\ pending' = IF count_up(gnt) THEN Append(rest, mem[trans_word]) ELSE rest

Answer(resp_valid) == IF resp_valid THEN Head(pending) ELSE Zeros

Cycle(gnt, resp_valid, next) ==
  /\ gnt => trans_valid
  /\ resp_valid => pending # <<>>
  /\ next # NoInstr => IdMoves(gnt, resp_valid)
  /\ LsuCycle(gnt, resp_valid, Answer(resp_valid), next)
  /\ Accept(gnt, resp_valid)

Next == \E gnt \in BOOLEAN, resp_valid \in BOOLEAN, next \in Instructions : Cycle(gnt, resp_valid, next)

Spec == Init /\ [][Next]_vars

-----------------------------------------------------------------------------
(* The state as a program sees it: a store in EX counts as done, and the   *)
(* load in WB has the bytes that its answer will give it.                  *)
InWb      == pending # <<>> /\ ~data_misaligned_ex
Committed == Stored(mem, ex)
Owed      ==
  (IF InWb THEN << IF regfile_we_lsu THEN data_rdata_ext(Head(pending)) ELSE NoData >> ELSE <<>>)
    \o (IF IsAccess(ex) THEN << Outcome(mem, ex) >> ELSE <<>>)

DataMemory == INSTANCE DataMemory WITH memory <- Committed, owed <- Owed
ImplementsDataMemory == DataMemory!Spec

-----------------------------------------------------------------------------
TypeOK ==
  /\ LsuTypeOK
  /\ mem \in Memories
  /\ pending \in Seq(Value)

(* The counter is exact, and nobody is answered who did not ask: with two  *)
(* answers due, the second is for the access in EX.  The register file is  *)
(* written for a load only.                                                *)
CounterExact ==
  /\ cnt_q = Len(pending)
  /\ cnt_q = 2 => IsAccess(ex)
  /\ IF cnt_q = 0 THEN ~regfile_we_lsu ELSE regfile_we_lsu <=> ~data_we_q

(* Behind a second half only the first half of the same access is in WB.   *)
HalvesTogether ==
  data_misaligned_ex =>
    /\ IsAccess(ex) /\ Splits(ex)
    /\ cnt_q > 0 => (data_we_q <=> ex.kind = "store")

(* What the memory has done for the access in EX: its first half, once the *)
(* second is under way, and the half under way when two answers are due.   *)
StorePerformed ==
  ex.kind = "store" =>
    /\ data_misaligned_ex => Performed(mem, ex, ex.word)
    /\ cnt_q = 2 => Performed(mem, ex, trans_word)

LoadAnswered ==
  ex.kind = "load" =>
    /\ data_misaligned_ex => mem[ex.word] = IF cnt_q = 0 THEN rdata_q ELSE pending[1]
    /\ cnt_q = 2 => mem[trans_word] = pending[2]

IInv == TypeOK /\ CounterExact /\ HalvesTogether /\ StorePerformed /\ LoadAnswered

(* The interface is told that requests are stable: one that the bus has    *)
(* not accepted is there again, unchanged, in the next cycle.              *)
RequestStable ==
  [][(\E resp_valid \in BOOLEAN, next \in Instructions : trans_valid /\ Cycle(FALSE, resp_valid, next))
       => /\ trans_valid'
          /\ UNCHANGED <<trans_word, trans_we, trans_be, trans_wdata>>]_vars
==============================================================================
