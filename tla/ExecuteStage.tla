----------------------------- MODULE ExecuteStage -----------------------------
(***************************************************************************)
(* The ID/EX pipeline register, the handshake of the execute stage and the *)
(* commit gating of the AES units, one action per clock edge.              *)
(*                                                                         *)
(* The decode stage offers a bundle of control signals each cycle.  The    *)
(* other units of the stage take part with what they can do to the         *)
(* handshake: the multi-cycle multiplication and the divider with their    *)
(* state machines, the load/store unit with its ready and its request for  *)
(* a second cycle, the write-back stage with its ready.  When those ready  *)
(* signals come, when decode stalls or is halted, and what it offers, is   *)
(* left entirely open: no controller can be worse.                         *)
(***************************************************************************)
EXTENDS AesUnits, Sequences

CONSTANT NextOps(_)   \* the AES instructions decode may offer after n others

VARIABLES
  alu_en_ex, alu_operator_ex,     \* ALU enable; operator with its operands
  mult_en_ex, mulh_ex,            \* multiplier enable; operator is MUL_H
  data_req_ex, split_ex,          \* memory access; it crosses a word boundary
  data_misaligned_ex,             \* its second half is in EX
  branch_in_ex,                   \* a conditional branch is in EX
  mulh_CS, div_CS,                \* state machines of multiplier and divider
  issued, done, results           \* history: see AesInOrder

idexVars == <<alu_en_ex, alu_operator_ex, mult_en_ex, mulh_ex, data_req_ex,
              split_ex, data_misaligned_ex, branch_in_ex>>
vars == <<unitVars, idexVars, mulh_CS, div_CS, issued, done, results>>

Plain(name) == [op |-> name, idx |-> 0, w |-> ZeroWord]
Nothing     == Plain("sltu")      \* the operator of a bubble

(* What decode can present to the ID/EX register: nothing (no valid        *)
(* instruction, or its enables deasserted) or one class of instruction.    *)
Bundle(kind, i) ==
  [ alu_en   |-> kind \in {"aes", "alu", "branch", "mem", "memsplit", "div"},
    operator |-> i,
    mult_en  |-> kind \in {"mul", "mulh"},
    mulh     |-> kind = "mulh",
    data_req |-> kind \in {"mem", "memsplit"},
    split    |-> kind = "memsplit",
    branch   |-> kind = "branch",
    aes      |-> kind = "aes" ]

Bundles(n) ==
  {Bundle(kind, Plain("add")) : kind \in {"none", "alu", "branch", "mem", "memsplit", "mul", "mulh"}}
    \cup {Bundle("div", Plain("div"))}
    \cup {Bundle("aes", i) : i \in {j \in NextOps(n) : j.op \in AesOperators}}

(* The signals the rest of the core drives in one cycle: the ready of the  *)
(* LSU (it is ready when not asked) and of write-back, the last cycle of a *)
(* division, and whether decode is held (a load, jump-register or CSR      *)
(* stall, or halt_id).                                                     *)
Inputs == { in \in [ lsu_ready_ex : BOOLEAN, wb_ready : BOOLEAN,
                     div_last : BOOLEAN, id_hold : BOOLEAN ] :
              /\ data_req_ex \/ in.lsu_ready_ex
              /\ in.div_last => div_CS = "DIVIDE" }

Init ==
  /\ UnitsInit
  /\ alu_en_ex = FALSE /\ alu_operator_ex = Nothing
  /\ mult_en_ex = FALSE /\ mulh_ex = FALSE
  /\ data_req_ex = FALSE /\ split_ex = FALSE /\ data_misaligned_ex = FALSE
  /\ branch_in_ex = FALSE
  /\ mulh_CS = "IDLE" /\ div_CS = "IDLE"
  /\ issued = <<>> /\ done = 0 /\ results = <<>>

(* ---- the handshake ---------------------------------------------------- *)
div_valid == alu_en_ex /\ alu_operator_ex.op = "div"
alu_ready == div_CS = "FINISH" \/ (div_CS = "IDLE" /\ ~div_valid)

(* Mutant: the multiplier forgets that its last step is the ready one.     *)
NeverFinishes == mulh_CS = "IDLE" /\ ~(mult_en_ex /\ mulh_ex)

start_mulh      == mult_en_ex /\ mulh_ex
mult_ready      == mulh_CS = "FINISH" \/ (mulh_CS = "IDLE" /\ ~start_mulh)
mult_multicycle == mulh_CS \in {"STEP0", "STEP1", "STEP2"}

(* The first half of an access that crosses a word asks for a second one.  *)
data_misaligned == data_req_ex /\ split_ex /\ ~data_misaligned_ex

(* A conditional branch leaves EX without waiting for write-back.          *)
ex_ready(in) == \/ alu_ready /\ mult_ready /\ in.lsu_ready_ex /\ in.wb_ready
                \/ branch_in_ex

(* Mutant: decode hands over without looking at EX.                        *)
ValidWithoutEx(in) == ~data_misaligned /\ ~in.id_hold

id_valid(in) == ~data_misaligned /\ ~in.id_hold /\ ex_ready(in)

(* ---- the units of the stage at the clock edge --------------------------*)
DivStep(in) ==
  div_CS' = CASE div_CS = "IDLE"   -> IF div_valid THEN "DIVIDE" ELSE "IDLE"
              [] div_CS = "DIVIDE" -> IF in.div_last THEN "FINISH" ELSE "DIVIDE"
              [] div_CS = "FINISH" -> IF ex_ready(in) THEN "IDLE" ELSE "FINISH"

MulhStep(in) ==
  mulh_CS' = CASE mulh_CS = "IDLE"   -> IF start_mulh THEN "STEP0" ELSE "IDLE"
               [] mulh_CS = "STEP0"  -> "STEP1"
               [] mulh_CS = "STEP1"  -> "STEP2"
               [] mulh_CS = "STEP2"  -> "FINISH"
               [] mulh_CS = "FINISH" -> IF ex_ready(in) THEN "IDLE" ELSE "FINISH"

(* The commit gate: enable_i & ex_ready_i.                                 *)
commit(in) == alu_en_ex /\ ex_ready(in)

AesStep(in) ==
  \/ /\ commit(in) /\ alu_operator_ex.op \in AesOperators
     /\ Commit(alu_operator_ex)
     /\ done' = done + 1
     /\ results' = IF alu_operator_ex.op \in {"ksrd", "strd"}
                   THEN Append(results, ReadPort(alu_operator_ex)) ELSE results
  \/ /\ ~(commit(in) /\ alu_operator_ex.op \in AesOperators)
     /\ UNCHANGED <<unitVars, done, results>>

(* ---- the ID/EX register at the clock edge, in the priority of the code -*)

(* First half of a split access: only the ALU operands are unstalled.      *)
SecondHalf(in) ==
  /\ data_misaligned
  /\ data_misaligned_ex' = IF ex_ready(in) THEN TRUE ELSE data_misaligned_ex
  /\ UNCHANGED <<alu_en_ex, alu_operator_ex, mult_en_ex, mulh_ex, data_req_ex,
                 split_ex, branch_in_ex, issued>>

(* Inside a multi-cycle multiplication only operand c moves.               *)
MultHold ==
  /\ ~data_misaligned /\ mult_multicycle
  /\ UNCHANGED <<idexVars, issued>>

(* The bundle of decode enters EX; a field whose enable is off keeps its   *)
(* old value.                                                              *)
Advance(in, b) ==
  /\ ~data_misaligned /\ ~mult_multicycle /\ id_valid(in)
  /\ alu_en_ex'       = b.alu_en
  /\ alu_operator_ex' = IF b.alu_en THEN b.operator ELSE alu_operator_ex
  /\ mult_en_ex'      = b.mult_en
  /\ mulh_ex'         = IF b.mult_en THEN b.mulh ELSE mulh_ex
  /\ data_req_ex'     = b.data_req
  /\ split_ex'        = IF b.data_req THEN b.split ELSE split_ex
  /\ data_misaligned_ex' = FALSE
  /\ branch_in_ex'    = b.branch
  /\ issued'          = IF b.aes THEN Append(issued, b.operator) ELSE issued

(* Mutant: a bubble keeps the old operator.                                *)
BubbleKeepsOperator(in) ==
  /\ ~data_misaligned /\ ~mult_multicycle /\ ~id_valid(in) /\ ex_ready(in)
  /\ alu_en_ex' = TRUE /\ mult_en_ex' = FALSE /\ data_req_ex' = FALSE
  /\ data_misaligned_ex' = FALSE /\ branch_in_ex' = FALSE
  /\ UNCHANGED <<alu_operator_ex, mulh_ex, split_ex, issued>>

(* EX is ready and decode has nothing for it.                              *)
InsertBubble(in) ==
  /\ ~data_misaligned /\ ~mult_multicycle /\ ~id_valid(in) /\ ex_ready(in)
  /\ alu_en_ex' = TRUE /\ alu_operator_ex' = Nothing
  /\ mult_en_ex' = FALSE /\ data_req_ex' = FALSE
  /\ data_misaligned_ex' = FALSE /\ branch_in_ex' = FALSE
  /\ UNCHANGED <<mulh_ex, split_ex, issued>>

Stall(in) ==
  /\ ~data_misaligned /\ ~mult_multicycle /\ ~ex_ready(in)
  /\ UNCHANGED <<idexVars, issued>>

Clock(in) ==
  /\ AesStep(in) /\ DivStep(in) /\ MulhStep(in)
  /\ \/ SecondHalf(in)
     \/ MultHold
     \/ \E b \in Bundles(Len(issued)) : Advance(in, b)
     \/ InsertBubble(in)
     \/ Stall(in)

Next == \E in \in Inputs : Clock(in)

Spec == Init /\ [][Next]_vars

(* The clock never stops, and write-back and the last divide cycle keep    *)
(* coming: every granted access gets its response, the divider counts down.*)
ReadyClock == \E in \in Inputs :
  /\ in.lsu_ready_ex /\ in.wb_ready
  /\ div_CS = "DIVIDE" => in.div_last
  /\ Clock(in)
FairSpec == Spec /\ SF_vars(ReadyClock)

-----------------------------------------------------------------------------
(* The registers keep their width and shape.                               *)
TypeOK ==
  /\ rcnt \in 0..15
  /\ Quad(krk) /\ Quad(st)
  /\ alu_en_ex \in BOOLEAN /\ branch_in_ex \in BOOLEAN
  /\ mult_en_ex \in BOOLEAN /\ mulh_ex \in BOOLEAN
  /\ data_req_ex \in BOOLEAN /\ split_ex \in BOOLEAN /\ data_misaligned_ex \in BOOLEAN
  /\ mulh_CS \in {"IDLE", "STEP0", "STEP1", "STEP2", "FINISH"}
  /\ div_CS \in {"IDLE", "DIVIDE", "FINISH"}
  /\ done \in Nat
  /\ Len(issued) \in Nat

(* An AES instruction is waiting in EX to commit.                          *)
AesInEx == alu_en_ex /\ alu_operator_ex.op \in AesOperators

(* EX holds exactly the AES instruction that was handed over last and not  *)
(* executed, or none is outstanding: no stall, bubble, branch, halt or     *)
(* multi-cycle neighbour can lose one, execute one twice or revive the     *)
(* stale operator left behind in the ID/EX register (alu_operator_ex_o is  *)
(* only rewritten when the ALU is enabled).                                *)
ExactlyOnce ==
  IF AesInEx THEN /\ done + 1 = Len(issued)
                  /\ alu_operator_ex = issued[Len(issued)]
             ELSE done = Len(issued)

(* The multiplier and the divider work only for the instruction that is in *)
(* EX: none of them is left running by an instruction that moved on, or    *)
(* holds back one that did not ask for it.                                 *)
BusyForInstructionInEx ==
  /\ mulh_CS # "IDLE" => mult_en_ex /\ mulh_ex
  /\ div_CS # "IDLE" => alu_en_ex /\ alu_operator_ex.op = "div"

(* The ID/EX register holds one instruction: what it does in the stage is  *)
(* consistent.                                                             *)
OneInstructionInEx ==
  /\ AesInEx \/ branch_in_ex => ~mult_en_ex /\ ~data_req_ex
  /\ AesInEx => ~branch_in_ex
  /\ div_valid => ~mult_en_ex /\ ~data_req_ex /\ ~branch_in_ex
  /\ mult_en_ex => ~alu_en_ex /\ ~data_req_ex
  /\ branch_in_ex => alu_en_ex /\ alu_operator_ex.op = "add"

(* Nothing waits for itself: an AES instruction that is in EX commits (if  *)
(* EX is never without one, they keep committing), and the multiplier and  *)
(* the divider, whose FINISH waits for an ex_ready that depends on their   *)
(* own ready, always come to rest.                                         *)
EverythingFinishes ==
  /\ <>[]AesInEx => []<><<done' = done + 1>>_done
  /\ (mulh_CS # "IDLE") ~> (mulh_CS = "IDLE")
  /\ (div_CS # "IDLE") ~> (div_CS = "IDLE")

(* While one of them is at work, a clock edge with everybody else ready    *)
(* changes the stage: id_stage.sv:1485-1620 has a branch for every case.   *)
CanFinish ==
  AesInEx \/ mulh_CS # "IDLE" \/ div_CS # "IDLE" => ENABLED <<ReadyClock>>_vars

IInv == TypeOK /\ OneInstructionInEx /\ BusyForInstructionInEx /\ ExactlyOnce

(* The stage implements the in-order execution of the instructions.        *)
InOrder == INSTANCE AesInOrder
ImplementsInOrder == InOrder!Spec
==============================================================================
