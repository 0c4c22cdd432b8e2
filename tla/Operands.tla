------------------------------- MODULE Operands -------------------------------
(***************************************************************************)
(* How an instruction comes to its operands: the register file, what is    *)
(* forwarded to ID from EX and from WB, and when ID waits for a result     *)
(* that neither has.  One step is one clock edge.                          *)
(*                                                                         *)
(* A value is the number, in program order, of the instruction whose       *)
(* result it is; 0 is what the registers hold at first.  In one cycle the  *)
(* rest of the core decides                                                *)
(*   ex_done    the unit in use in EX has its result, or has handed its    *)
(*              access to the bus                                          *)
(*   wb_ready   WB is free, or the answer that it waits for arrives        *)
(*   id_hold    ID is held for another reason                              *)
(* and which instruction ID offers: any one, in any cycle.                 *)
(***************************************************************************)
EXTENDS Integers

CONSTANTS
  Regs,               \* the numbers of the registers
  MaxInstructions     \* bound on the instructions of a program

ASSUME RegsAssumption == Regs \subseteq Nat /\ 0 \in Regs
ASSUME BoundAssumption == MaxInstructions \in Nat

VARIABLES
  mem,                \* register file
  ex,                 \* instruction in EX
  regfile_waddr_ex,   \* register of the last load handed to EX
  wb,                 \* access in WB
  last, n             \* history: the instruction that wrote each register last
                      \* in program order; the instructions handed to EX

vars == <<mem, ex, regfile_waddr_ex, wb, last, n>>

Junk == -1            \* what a port shows while the result is not there

(* ---- the instructions ---------------------------------------------------- *)
(* As the decoder describes them: the registers read, whether the ALU port *)
(* or the port of the LSU writes `rd`, and what else matters here.  A      *)
(* split access takes two transfers.                                       *)
Decoded(kind, srcs, rd) ==
  [ kind |-> kind, srcs |-> srcs, rd |-> rd,
    regfile_alu_we |-> kind \in {"op", "jalr", "csr"},
    regfile_we     |-> kind \in {"load", "split"} ]

Kinds == {"op", "jalr", "csr", "load", "split", "store", "branch"}

Instructions == {Decoded(kind, srcs, rd) : kind \in Kinds, srcs \in SUBSET Regs, rd \in Regs}

(* What disarmed instructions and bubbles are in EX.                       *)
Nothing == Decoded("none", {}, 0)

(* EX holds an instruction, its number, whether it may write the register  *)
(* file, and whether it has been there for a cycle; WB holds an access.    *)
InEx(d, s)        == [d |-> d, seq |-> s, alu_we |-> d.regfile_alu_we, again |-> FALSE, half |-> FALSE]
InWb(we, r, s, h) == [busy |-> TRUE, we |-> we, rd |-> r, seq |-> s, half |-> h]
Free(r)           == [busy |-> FALSE, we |-> FALSE, rd |-> r, seq |-> 0, half |-> FALSE]

Init ==
  /\ mem = [r \in Regs |-> 0]
  /\ ex = InEx(Nothing, 0) /\ regfile_waddr_ex = 0
  /\ wb = Free(0)
  /\ last = [r \in Regs |-> 0] /\ n = 0

Inputs ==
  { in \in [ex_done : BOOLEAN, wb_ready : BOOLEAN, id_hold : BOOLEAN] :
      /\ wb.busy \/ in.wb_ready
      /\ ex.d.kind \in {"none", "csr", "branch"} => in.ex_done }

(* ---- EX and WB ------------------------------------------------------------*)
memory_access   == ex.d.kind \in {"load", "split", "store"}
data_misaligned == ex.d.kind = "split" /\ ~ex.half

(* A branch does not wait for WB.                                          *)
all_ready(in) == in.ex_done /\ in.wb_ready
ex_ready(in)  == all_ready(in) \/ ex.d.kind = "branch"

(* A CSR access that waits in EX would read what it has written.           *)
alu_wdata(in) == IF in.ex_done /\ ~(ex.d.kind = "csr" /\ ex.again) THEN ex.seq ELSE Junk
wb_wdata(in)  == IF wb.busy /\ in.wb_ready /\ ~wb.half THEN wb.seq ELSE Junk

alu_writes(r) == ex.alu_we /\ ex.d.rd = r
lsu_writes(r) == wb.we /\ wb.rd = r

(* ---- ID ------------------------------------------------------------------ *)
(* What the forwarding multiplexers of ID deliver for a register.          *)
Operand(in, r) ==
  IF r # 0 /\ alu_writes(r) THEN alu_wdata(in)
  ELSE IF r # 0 /\ lsu_writes(r) THEN wb_wdata(in)
  ELSE mem[r]

reg_d_ex_is_used(d) == regfile_waddr_ex \in d.srcs \ {0}

(* Mutants: a load waits for nothing once it is in WB; two writers of one  *)
(* register are not kept in order.                                         *)
LoadStallEx(in, d) ==
  /\ ex.d.regfile_we
  /\ reg_d_ex_is_used(d) \/ (d.regfile_alu_we /\ regfile_waddr_ex = d.rd)
LoadStallReads(in, d) ==
  /\ ex.d.regfile_we \/ (~in.wb_ready /\ wb.we)
  /\ reg_d_ex_is_used(d)

load_stall(in, d) ==
  /\ ex.d.regfile_we \/ (~in.wb_ready /\ wb.we)
  /\ reg_d_ex_is_used(d) \/ (d.regfile_alu_we /\ regfile_waddr_ex = d.rd)

(* The target of a jump is not forwarded: it waits for the register file.  *)
jr_stall(d) ==
  /\ d.kind = "jalr"
  /\ \E r \in d.srcs \ {0} :
       lsu_writes(r) \/ (ex.d.regfile_we /\ regfile_waddr_ex = r) \/ alu_writes(r)

id_valid(in, d) ==
  ~data_misaligned /\ ~in.id_hold /\ ~load_stall(in, d) /\ ~jr_stall(d) /\ ex_ready(in)

(* ---- one clock edge ------------------------------------------------------ *)
(* Both ports write in every cycle; that of the ALU comes first.           *)
WriteRegisters(in) ==
  mem' = [r \in Regs |-> IF r = 0 THEN 0
                         ELSE IF alu_writes(r) THEN alu_wdata(in)
                         ELSE IF lsu_writes(r) THEN wb_wdata(in)
                         ELSE mem[r]]

WbEdge(in) ==
  wb' = IF all_ready(in)
        THEN IF memory_access
             THEN InWb(ex.d.regfile_we, IF ex.d.regfile_we THEN ex.d.rd ELSE wb.rd,
                       ex.seq, data_misaligned)
             ELSE Free(wb.rd)
        ELSE IF in.wb_ready THEN Free(wb.rd) ELSE wb

(* Between the two transfers of a split access only its address moves.     *)
SecondHalf(in) ==
  /\ data_misaligned
  /\ ex' = IF ex_ready(in) THEN [ex EXCEPT !.half = TRUE] ELSE ex
  /\ UNCHANGED <<regfile_waddr_ex, last, n>>

(* An instruction enters EX; a register number stays where it is not new.  *)
HandOver(in, d) ==
  /\ id_valid(in, d)
  /\ ex' = InEx(d, n + 1)
  /\ regfile_waddr_ex' = IF d.regfile_we THEN d.rd ELSE regfile_waddr_ex
  /\ last' = [r \in Regs |-> IF r # 0 /\ r = d.rd /\ (d.regfile_we \/ d.regfile_alu_we)
                             THEN n + 1 ELSE last[r]]
  /\ n' = n + 1

(* Nothing valid in ID, or nothing that can move: EX gets a bubble.        *)
InsertBubble(in) ==
  /\ ~data_misaligned /\ ex_ready(in)
  /\ ex' = InEx(Nothing, 0)
  /\ UNCHANGED <<regfile_waddr_ex, last, n>>

(* Mutant: a CSR access writes for as long as it is in EX.                 *)
StallKeepsWe(in) ==
  /\ ~data_misaligned /\ ~ex_ready(in)
  /\ ex' = [ex EXCEPT !.again = TRUE]
  /\ UNCHANGED <<regfile_waddr_ex, last, n>>

(* EX waits; a CSR access writes only once.                                *)
Stall(in) ==
  /\ ~data_misaligned /\ ~ex_ready(in)
  /\ ex' = [ex EXCEPT !.again = TRUE,
                      !.alu_we = ex.alu_we /\ ex.d.kind # "csr"]
  /\ UNCHANGED <<regfile_waddr_ex, last, n>>

Clock(in) ==
  /\ WriteRegisters(in) /\ WbEdge(in)
  /\ \/ SecondHalf(in)
     \/ n < MaxInstructions /\ \E d \in Instructions : HandOver(in, d)
     \/ InsertBubble(in)
     \/ Stall(in)

Next == \E in \in Inputs : Clock(in)

Spec == Init /\ [][Next]_vars

-----------------------------------------------------------------------------
TypeOK ==
  /\ mem = [r \in Regs |-> mem[r]] /\ \A r \in Regs : mem[r] \in Nat \cup {Junk}
  /\ last = [r \in Regs |-> last[r]] /\ \A r \in Regs : last[r] \in Nat
  /\ n \in Nat
  /\ ex.d \in Instructions \cup {Nothing} /\ ex.seq \in Nat
  /\ ex = [d |-> ex.d, seq |-> ex.seq, alu_we |-> ex.alu_we, again |-> ex.again, half |-> ex.half]
  /\ ex.alu_we \in BOOLEAN /\ ex.again \in BOOLEAN /\ ex.half \in BOOLEAN
  /\ regfile_waddr_ex \in Regs
  /\ wb \in [busy : BOOLEAN, we : BOOLEAN, rd : Regs, seq : Nat, half : BOOLEAN]

(* The result of EX or WB is what its register holds last in program       *)
(* order; otherwise the register file has it.                              *)
Settled(r) == ~alu_writes(r) /\ ~(ex.d.regfile_we /\ ex.d.rd = r) /\ ~lsu_writes(r)

ResultsInStep ==
  /\ mem[0] = 0 /\ last[0] = 0
  /\ \A r \in Regs \ {0} :
       /\ alu_writes(r) => last[r] = ex.seq
       /\ ex.d.regfile_we /\ ex.d.rd = r => last[r] = ex.seq
       /\ lsu_writes(r) /\ ~(ex.d.regfile_we /\ ex.d.rd = r)
            => last[r] = wb.seq /\ ~wb.half /\ ~alu_writes(r) /\ ~(ex.d.kind = "csr" /\ ex.d.rd = r)
       /\ Settled(r) => mem[r] = last[r]
  /\ ex.alu_we => ex.d.regfile_alu_we /\ ~(ex.d.kind = "csr" /\ ex.again)
  /\ ex.d.regfile_we => regfile_waddr_ex = ex.d.rd
  /\ wb.we => wb.busy
  /\ wb.we /\ ~ex.d.regfile_we => regfile_waddr_ex = wb.rd

IInv == TypeOK /\ ResultsInStep

(* An instruction that leaves ID takes from the multiplexers the result of *)
(* the latest earlier instruction that writes the register, however the    *)
(* stall compares with a register number that is only updated by loads.    *)
OperandsCurrent ==
  \A in \in Inputs, d \in Instructions :
    id_valid(in, d) /\ d.kind # "jalr" => \A r \in d.srcs : Operand(in, r) = last[r]

(* So does the target of a jump, which is read from the register file as   *)
(* soon as the jump does not wait, whether EX can take it or not.          *)
TargetsCurrent ==
  \A d \in Instructions :
    d.kind = "jalr" /\ ~jr_stall(d) => \A r \in d.srcs : mem[r] = last[r]
==============================================================================
