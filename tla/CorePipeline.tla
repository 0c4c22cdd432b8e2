----------------------------- MODULE CorePipeline -----------------------------
(***************************************************************************)
(* The controller of the core and the pipeline it steers, one step per     *)
(* clock edge: its FSM, the debug FSM, the registers IF/ID, ID/EX and the  *)
(* memory access in WB, the control and status registers, the registered   *)
(* interrupt line.                                                         *)
(*                                                                         *)
(* In one cycle the rest of the core and the outside drive a record `in`:  *)
(*   irq        irq_i, one line                                            *)
(*   debug_req  debug_req_i                                                *)
(*   fetch      the IF stage has an instruction: any one of Instructions   *)
(*   stall      "load" or "jr" when ID needs a result that is not there    *)
(*   ex_done    the unit in use in EX is ready; of a split access, the     *)
(*              second half                                                *)
(*   wb_ready   WB is free, or the answer that it waits for arrives        *)
(* Whatever else the stages do is in ExecuteStage, FetchStage and DataBus. *)
(***************************************************************************)
EXTENDS InstructionSet

CONSTANTS
  MaxLatency,   \* most cycles that a memory access spends in WB
  Irqs,         \* values of the interrupt line
  DebugReqs     \* values of the debug request

ASSUME InputAssumption ==
  MaxLatency \in Nat \ {0} /\ Irqs \subseteq BOOLEAN /\ DebugReqs \subseteq BOOLEAN

VARIABLES
  ctrl_fsm_cs, debug_fsm_cs,
  jump_done_q,              \* the jump in ID has already set the PC
  illegal_insn_q, debug_mode_q, debug_req_entry_q, debug_force_wakeup_q, debug_req_q,
  irq_q,
  pc_if,                    \* PC of the aligner: the next instruction from IF
  instr_valid_id, instr_id, pc_id,      \* IF/ID register
  ex,                       \* instruction in EX
  minstret,                 \* the event that counts a retired instruction
  wb_wait,                  \* cycles that the access in WB has taken; 0: none
  csr

ctrlVars  == <<ctrl_fsm_cs, debug_fsm_cs, jump_done_q, illegal_insn_q, debug_mode_q,
               debug_req_entry_q, debug_force_wakeup_q, debug_req_q, irq_q>>
stageVars == <<pc_if, instr_valid_id, instr_id, pc_id, ex, minstret, wb_wait, csr>>
vars      == <<ctrlVars, stageVars>>

CtrlStates == { "RESET", "BOOT_SET", "WAIT_SLEEP", "SLEEP", "FIRST_FETCH", "DECODE",
                "FLUSH_EX", "FLUSH_WB", "XRET_JUMP", "DBG_WAIT_BRANCH", "DBG_TAKEN_ID",
                "DBG_TAKEN_IF", "DBG_FLUSH" }

Init ==
  /\ ctrl_fsm_cs = "RESET" /\ debug_fsm_cs = "HAVERESET"
  /\ jump_done_q = FALSE /\ illegal_insn_q = FALSE /\ debug_mode_q = FALSE
  /\ debug_req_entry_q = FALSE /\ debug_force_wakeup_q = FALSE /\ debug_req_q = FALSE
  /\ irq_q = FALSE
  /\ pc_if = 0 /\ instr_valid_id = FALSE /\ instr_id = Bubble /\ pc_id = 0
  /\ ex = Bubble /\ minstret = FALSE /\ wb_wait = 0
  /\ csr = ResetRegisters

(* ---- what the outside can do in this cycle ----------------------------- *)
ExBusy == ex.kind \notin {"bubble", "killed"}

Inputs ==
  [ irq : Irqs, debug_req : DebugReqs, fetch : BOOLEAN,
    stall    : {"no"} \cup (IF ex.kind = "mem" \/ wb_wait > 0 THEN {"load"} ELSE {})
                      \cup (IF instr_id.kind = "jump" /\ (ExBusy \/ wb_wait > 0)
                            THEN {"jr"} ELSE {}),
    ex_done  : IF ex.kind \in {"op", "mem", "killed"} THEN BOOLEAN ELSE {TRUE},
    wb_ready : IF wb_wait \in 1..(MaxLatency - 1) THEN BOOLEAN ELSE {TRUE} ]

(* ---- handshake of the stages ------------------------------------------- *)
(* A branch does not wait in EX.  What was disarmed in ID leaves EX alone, *)
(* and may or may not count as valid there, by what is left of it.         *)
ex_ready(in) == (in.wb_ready /\ (in.ex_done \/ ex.kind = "killed"))
                \/ ex.kind \in {"branch", "not_taken"}
ex_valid(in) == in.wb_ready /\ in.ex_done
stalled(in)  == in.stall = "jr" \/ (in.stall = "load" /\ (ex.kind = "mem" \/ ~in.wb_ready))
id_ready(in) == ~stalled(in) /\ ex_ready(in)

branch_taken_ex == ex.kind = "branch"

(* ---- decoder, over whatever the IF/ID register holds ------------------- *)
single_step       == "step" \in csr.on
illegal_insn      == ~Legal(instr_id, debug_mode_q)
is(kind)          == instr_id.kind = kind /\ ~illegal_insn
ebrk_force        == "ebreakm" \in csr.on
trigger           == trigger_match(csr, pc_id)
debug_req_pending(in) == in.debug_req \/ debug_req_q
wfi_active(in)    == is("wfi") /\ ~(debug_mode_q \/ debug_req_pending(in)
                                    \/ single_step \/ trigger)

(* ---- control and status registers -------------------------------------- *)
(* A CSR instruction writes in every cycle that it spends in EX.           *)
csr_n == IF ex.kind = "csr" THEN WriteCsr(csr, ex, debug_mode_q) ELSE csr

irq_req == irq_q /\ "irq" \in csr_n.on /\ m_irq_enable(csr)

csr_save(a)            == csr' = SaveTrap(csr_n, csr, a)
csr_save_debug(a, why) == csr' = SaveDebug(csr_n, a, why)

(* ---- one clock edge of the stages -------------------------------------- *)
NoTarget == Last + 1

(* With IF and ID halted or not, `issued` the form in which ID hands over  *)
(* its instruction if it does, and target the address of a pc_set.         *)
Stages(in, halt_if, halt_id, issued, target) ==
  LET id_valid == ~halt_id /\ id_ready(in)
      if_valid == ~halt_if /\ id_ready(in) /\ in.fetch /\ target = NoTarget
  IN
  /\ ex' = IF id_valid THEN issued ELSE IF ex_ready(in) THEN Bubble ELSE ex
  /\ minstret' = (id_valid /\ issued.kind # "killed")
  /\ wb_wait' = IF ex.kind = "mem" /\ ex_valid(in) THEN 1
                ELSE IF in.wb_ready THEN 0 ELSE wb_wait + 1
  /\ instr_valid_id' =
       (if_valid \/ (instr_valid_id /\ ~(id_ready(in) \/ halt_id \/ branch_taken_ex)))
  /\ IF if_valid THEN pc_id' = pc_if /\ (\E i \in Instructions : instr_id' = i)
                 ELSE UNCHANGED <<pc_id, instr_id>>
  /\ pc_if' = IF target # NoTarget THEN target
              ELSE IF if_valid THEN After(pc_if) ELSE pc_if

(* Mutant: a debug request is remembered for one cycle.                    *)
NextStatePulse(in, ns, debug_mode_n) ==
  /\ ctrl_fsm_cs' = ns
  /\ debug_mode_q' = debug_mode_n
  /\ irq_q' = in.irq
  /\ debug_req_q' = in.debug_req
  /\ debug_fsm_cs' = IF debug_mode_n THEN "HALTED"
                     ELSE IF debug_fsm_cs = "HAVERESET" /\ ns # "FIRST_FETCH" THEN "HAVERESET"
                     ELSE "RUNNING"

(* The registers of the controller that follow from its next state.        *)
NextState(in, ns, debug_mode_n) ==
  /\ ctrl_fsm_cs' = ns
  /\ debug_mode_q' = debug_mode_n
  /\ irq_q' = in.irq
  /\ debug_req_q' = (in.debug_req \/ (debug_req_q /\ ~debug_mode_q))
  /\ debug_fsm_cs' = IF debug_mode_n THEN "HALTED"
                     ELSE IF debug_fsm_cs = "HAVERESET" /\ ns # "FIRST_FETCH" THEN "HAVERESET"
                     ELSE "RUNNING"

(* Mutant: the flag outlives the jump. *)
JumpDoneKept(in, jump_done) == jump_done_q' = jump_done

JumpDone(in, jump_done) == jump_done_q' = (jump_done /\ ~id_ready(in))

(* The part of a step that most steps share.                               *)
Goes(in, ns) == NextState(in, ns, debug_mode_q) /\ JumpDone(in, jump_done_q)
Keeps        == UNCHANGED <<illegal_insn_q, debug_req_entry_q, debug_force_wakeup_q>>

(* ---- reset, boot and sleep ---------------------------------------------- *)
Reset(in) ==
  /\ ctrl_fsm_cs = "RESET"
  /\ \E fetch_enable \in BOOLEAN : Goes(in, IF fetch_enable THEN "BOOT_SET" ELSE "RESET")
  /\ Stages([in EXCEPT !.fetch = FALSE], FALSE, FALSE, Killed, NoTarget)
  /\ csr' = csr_n /\ Keeps

(* Leaving BOOT_SET, SLEEP and FLUSH_WB: a debugger that waits comes first. *)
WakeUp(in, otherwise) ==
  /\ Goes(in, IF debug_req_pending(in) THEN "DBG_TAKEN_IF" ELSE otherwise)
  /\ debug_force_wakeup_q' = (debug_req_pending(in) \/ debug_force_wakeup_q)
  /\ UNCHANGED <<illegal_insn_q, debug_req_entry_q>>

BootSet(in) ==
  /\ ctrl_fsm_cs = "BOOT_SET"
  /\ WakeUp(in, "FIRST_FETCH")
  /\ Stages(in, FALSE, FALSE, Killed, Boot)
  /\ csr' = csr_n

WaitSleep(in) ==
  /\ ctrl_fsm_cs = "WAIT_SLEEP"
  /\ Goes(in, "SLEEP") /\ Keeps
  /\ Stages(in, TRUE, TRUE, Killed, NoTarget)
  /\ csr' = csr_n

(* Mutant: only an interrupt that can be taken wakes the core.             *)
wake_to_take(in) ==
  (in.irq /\ "irq" \in csr_n.on /\ m_irq_enable(csr)) \/ debug_req_pending(in) \/ debug_mode_q

(* The interrupt line wakes the core as it comes in, enabled or not in     *)
(* mstatus; the controller sees it registered, one cycle later.            *)
wake_from_sleep(in) ==
  (in.irq /\ "irq" \in csr_n.on) \/ debug_req_pending(in) \/ debug_mode_q

Sleep(in) ==
  /\ ctrl_fsm_cs = "SLEEP"
  /\ IF wake_from_sleep(in) THEN WakeUp(in, "FIRST_FETCH") ELSE Goes(in, "SLEEP") /\ Keeps
  /\ Stages(in, TRUE, TRUE, Killed, NoTarget)
  /\ csr' = csr_n

FirstFetch(in) ==
  /\ ctrl_fsm_cs = "FIRST_FETCH"
  /\ Goes(in, "DECODE") /\ Keeps
  /\ IF irq_req /\ ~debug_req_pending(in) /\ ~debug_mode_q
     THEN Stages(in, TRUE, TRUE, Killed, IrqVector) /\ csr_save(pc_if)
     ELSE Stages(in, FALSE, FALSE, Killed, NoTarget) /\ csr' = csr_n

(* ---- DECODE -------------------------------------------------------------- *)
(* A taken branch in EX: what came after it is dropped.                    *)
TakeBranch(in) ==
  /\ ctrl_fsm_cs = "DECODE" /\ branch_taken_ex
  /\ Goes(in, "DECODE") /\ Keeps
  /\ Stages(in, FALSE, FALSE, Killed, ex.addr)
  /\ csr' = csr_n

NothingToDecode(in) ==
  /\ ctrl_fsm_cs = "DECODE" /\ ~branch_taken_ex /\ ~instr_valid_id
  /\ Goes(in, "DECODE") /\ Keeps
  /\ Stages(in, FALSE, FALSE, Killed, NoTarget)
  /\ csr' = csr_n

Decoding       == ctrl_fsm_cs = "DECODE" /\ ~branch_taken_ex /\ instr_valid_id

(* Mutant: triggers are left to the debugger to find. *)
serve_requests(in) == debug_req_pending(in) /\ ~debug_mode_q

serve_debug(in) == (debug_req_pending(in) \/ trigger) /\ ~debug_mode_q

(* Mutant: the debugger is entered without a cycle to flush the pipeline.  *)
ServeDebugAtOnce(in) ==
  /\ Decoding /\ serve_debug(in)
  /\ Goes(in, "DBG_TAKEN_ID")
  /\ debug_req_entry_q' = TRUE /\ illegal_insn_q' = FALSE
  /\ Stages(in, TRUE, TRUE, Killed, NoTarget)
  /\ csr' = csr_n /\ UNCHANGED debug_force_wakeup_q

ServeDebug(in) ==
  /\ Decoding /\ serve_debug(in)
  /\ Goes(in, "DBG_FLUSH")
  /\ debug_req_entry_q' = TRUE /\ illegal_insn_q' = FALSE
  /\ Stages(in, TRUE, TRUE, Killed, NoTarget)
  /\ csr' = csr_n /\ UNCHANGED debug_force_wakeup_q

(* Mutant: a jump that waits in ID has moved the PC already; the interrupt *)
(* returns to where IF is.                                                 *)
TakeIrqAfterJump(in) ==
  /\ Decoding /\ ~serve_debug(in) /\ irq_req /\ ~debug_mode_q
  /\ Goes(in, "DECODE")
  /\ illegal_insn_q' = FALSE
  /\ Stages(in, TRUE, TRUE, Killed, IrqVector)
  /\ csr_save(IF jump_done_q THEN pc_if ELSE pc_id)
  /\ UNCHANGED <<debug_req_entry_q, debug_force_wakeup_q>>

TakeIrq(in) ==
  /\ Decoding /\ ~serve_debug(in) /\ irq_req /\ ~debug_mode_q
  /\ Goes(in, "DECODE")
  /\ illegal_insn_q' = FALSE
  /\ Stages(in, TRUE, TRUE, Killed, IrqVector)
  /\ csr_save(pc_id)
  /\ UNCHANGED <<debug_req_entry_q, debug_force_wakeup_q>>

(* ebreak that enters the debug program, from debug mode or by dcsr.       *)
ebreak_to_debug == is("ebreak") /\ (debug_mode_q \/ ebrk_force)

(* Instructions that pass through EX and WB alone before the next one.     *)
flushes(in) ==
  \/ illegal_insn \/ (is("ebreak") /\ ~ebreak_to_debug) \/ wfi_active(in)
  \/ is("ecall") \/ is("fencei") \/ is("mret") \/ is("dret")
  \/ StatusAccess(instr_id)

stepping == single_step /\ ~debug_mode_q

(* Mutant: the debugger does not wait for the target of a branch. *)
after_step_at_once ==
  IF illegal_insn \/ is("ecall") \/ is("mret") \/ (is("ebreak") /\ ~ebrk_force) THEN "FLUSH_EX"
  ELSE "DBG_FLUSH"

(* After the instruction of a single step: by way of its exception or      *)
(* return, of its branch, or straight to the debugger.                     *)
after_step ==
  IF illegal_insn \/ is("ecall") \/ is("mret") \/ (is("ebreak") /\ ~ebrk_force) THEN "FLUSH_EX"
  ELSE IF instr_id.kind \in {"branch", "not_taken"} THEN "DBG_WAIT_BRANCH"
  ELSE "DBG_FLUSH"

after_decode(in) ==
  IF stepping /\ id_ready(in) THEN after_step
  ELSE IF ebreak_to_debug THEN "DBG_FLUSH"
  ELSE IF flushes(in) /\ id_ready(in) THEN "FLUSH_EX"
  ELSE "DECODE"

(* Exceptions are handed to EX disarmed, and not counted as retired.       *)
issue == IF Traps(instr_id, debug_mode_q) THEN Killed ELSE instr_id

(* A jump sets the PC as soon as its target is known, and only once.       *)
jumps(in) == is("jump") /\ in.stall # "jr" /\ ~jump_done_q

Decode(in) ==
  /\ Decoding /\ ~serve_debug(in) /\ ~(irq_req /\ ~debug_mode_q)
  /\ NextState(in, after_decode(in), debug_mode_q)
  /\ JumpDone(in, jumps(in) \/ jump_done_q)
  /\ illegal_insn_q' = illegal_insn
  /\ Stages(in, stepping \/ ebreak_to_debug \/ flushes(in), FALSE, issue,
            IF jumps(in) THEN instr_id.addr ELSE NoTarget)
  /\ csr' = csr_n
  /\ UNCHANGED <<debug_req_entry_q, debug_force_wakeup_q>>

(* ---- flushing the pipeline ------------------------------------------------ *)
(* Exceptions of the debug program leave the registers alone.              *)
saves_pc ==
  \/ illegal_insn_q /\ ~debug_mode_q
  \/ ~illegal_insn_q /\ is("ebreak")
  \/ ~illegal_insn_q /\ is("ecall") /\ ~debug_mode_q

(* Mutant: FLUSH_EX lasts one cycle, whatever EX and WB do. *)
FlushExAtOnce(in) ==
  /\ ctrl_fsm_cs = "FLUSH_EX"
  /\ Goes(in, "FLUSH_WB") /\ Keeps
  /\ Stages(in, TRUE, TRUE, Killed, NoTarget)
  /\ IF saves_pc THEN csr_save(pc_id) ELSE csr' = csr_n

FlushEx(in) ==
  /\ ctrl_fsm_cs = "FLUSH_EX"
  /\ Goes(in, IF ex_valid(in) THEN "FLUSH_WB" ELSE "FLUSH_EX") /\ Keeps
  /\ Stages(in, TRUE, TRUE, Killed, NoTarget)
  /\ IF ex_valid(in) /\ saves_pc THEN csr_save(pc_id) ELSE csr' = csr_n

FlushWbTrap(in) ==
  /\ ctrl_fsm_cs = "FLUSH_WB" /\ (illegal_insn_q \/ is("ebreak") \/ is("ecall"))
  /\ Goes(in, IF stepping THEN "DBG_TAKEN_IF" ELSE "DECODE")
  /\ illegal_insn_q' = FALSE
  /\ Stages(in, TRUE, TRUE, Killed,
            IF debug_mode_q /\ (illegal_insn_q \/ is("ecall")) THEN DebugVector ELSE TrapVector)
  /\ csr' = csr_n
  /\ UNCHANGED <<debug_req_entry_q, debug_force_wakeup_q>>

FlushWbReturn(in) ==
  /\ ctrl_fsm_cs = "FLUSH_WB" /\ ~illegal_insn_q /\ (is("mret") \/ is("dret"))
  /\ Goes(in, "XRET_JUMP") /\ Keeps
  /\ Stages(in, TRUE, TRUE, Killed, NoTarget)
  /\ csr' = IF is("mret") /\ ~debug_mode_q THEN RestoreMret(csr_n, csr) ELSE csr_n

FlushWbSleep(in) ==
  /\ ctrl_fsm_cs = "FLUSH_WB" /\ ~illegal_insn_q /\ is("wfi")
  /\ WakeUp(in, "WAIT_SLEEP")
  /\ Stages(in, TRUE, TRUE, Killed, NoTarget)
  /\ csr' = csr_n

(* fence.i fetches again what follows it; a CSR access just goes on.       *)
FlushWbOther(in) ==
  /\ ctrl_fsm_cs = "FLUSH_WB" /\ ~illegal_insn_q
  /\ ~(is("ebreak") \/ is("ecall") \/ is("mret") \/ is("dret") \/ is("wfi"))
  /\ Goes(in, "DECODE") /\ Keeps
  /\ Stages(in, TRUE, TRUE, Killed, IF is("fencei") THEN After(pc_id) ELSE NoTarget)
  /\ csr' = csr_n

(* The target is read here, one cycle after the registers were restored.   *)
XretJump(in) ==
  /\ ctrl_fsm_cs = "XRET_JUMP"
  /\ NextState(in, IF stepping THEN "DBG_TAKEN_IF" ELSE "DECODE",
                   debug_mode_q /\ instr_id.kind # "dret")
  /\ JumpDone(in, jump_done_q) /\ Keeps
  /\ Stages(in, FALSE, FALSE, Killed,
            IF instr_id.kind = "dret" THEN csr.dpc
            ELSE IF debug_mode_q THEN DebugVector ELSE csr.mepc)
  /\ csr' = csr_n

(* ---- entering debug mode --------------------------------------------------- *)
DbgWaitBranch(in) ==
  /\ ctrl_fsm_cs = "DBG_WAIT_BRANCH"
  /\ Goes(in, "DBG_FLUSH") /\ Keeps
  /\ Stages(in, TRUE, FALSE, Killed, IF branch_taken_ex THEN ex.addr ELSE NoTarget)
  /\ csr' = csr_n

(* To the address of the instruction in ID, or of the one after it.        *)
enters_at_id ==
  debug_mode_q \/ trigger \/ (ebrk_force /\ is("ebreak")) \/ debug_req_entry_q

DbgFlush(in) ==
  /\ ctrl_fsm_cs = "DBG_FLUSH"
  /\ Goes(in, IF enters_at_id THEN "DBG_TAKEN_ID" ELSE "DBG_TAKEN_IF") /\ Keeps
  /\ Stages(in, TRUE, TRUE, Killed, NoTarget)
  /\ csr' = csr_n

cause_at_id ==
  IF trigger THEN "trigger"
  ELSE IF debug_req_entry_q /\ ~(ebrk_force /\ is("ebreak")) THEN "haltreq" ELSE "ebreak"

DbgTakenId(in) ==
  /\ ctrl_fsm_cs = "DBG_TAKEN_ID"
  /\ NextState(in, "DECODE", TRUE) /\ JumpDone(in, jump_done_q)
  /\ debug_req_entry_q' = FALSE
  /\ Stages(in, FALSE, FALSE, Killed, HaltVector)
  /\ IF debug_mode_q THEN csr' = csr_n
     ELSE csr_save_debug(pc_id, cause_at_id)
  /\ UNCHANGED <<illegal_insn_q, debug_force_wakeup_q>>

DbgTakenIf(in) ==
  /\ ctrl_fsm_cs = "DBG_TAKEN_IF"
  /\ NextState(in, "DECODE", TRUE) /\ JumpDone(in, jump_done_q)
  /\ debug_force_wakeup_q' = FALSE
  /\ Stages(in, FALSE, FALSE, Killed, HaltVector)
  /\ csr_save_debug(pc_if, IF debug_force_wakeup_q THEN "haltreq"
                           ELSE IF single_step THEN "step" ELSE "ebreak")
  /\ UNCHANGED <<illegal_insn_q, debug_req_entry_q>>

Step(in) ==
  \/ Reset(in) \/ BootSet(in) \/ WaitSleep(in) \/ Sleep(in) \/ FirstFetch(in)
  \/ TakeBranch(in) \/ NothingToDecode(in) \/ ServeDebug(in) \/ TakeIrq(in) \/ Decode(in)
  \/ FlushEx(in) \/ FlushWbTrap(in) \/ FlushWbReturn(in) \/ FlushWbSleep(in)
  \/ FlushWbOther(in) \/ XretJump(in)
  \/ DbgWaitBranch(in) \/ DbgFlush(in) \/ DbgTakenId(in) \/ DbgTakenIf(in)

Next == \E in \in Inputs : Step(in)

Spec == Init /\ [][Next]_vars

(* Every unit of EX finishes, every access is answered, and an instruction *)
(* that the IF stage has stays there until ID takes it; so in the end ID   *)
(* is ready and has one offered, in a cycle that leaves the interrupt line *)
(* as it is: what fairness brings about is never the end of an interrupt.  *)
Ready ==
  \E in \in [ irq : Irqs, debug_req : DebugReqs, fetch : {TRUE}, stall : {"no"},
             ex_done : {TRUE}, wb_ready : {TRUE} ] : Step(in) /\ UNCHANGED irq_q

FairSpec == Spec /\ WF_vars(Ready)

(* ---- what the program sees ---- *)
(* An instruction counts as executed when it leaves ID.  What it has still *)
(* to change then - its register in EX, the save or restore of a trap or   *)
(* return, the mode - is anticipated.                                      *)
Leaving == ctrl_fsm_cs \in {"FLUSH_EX", "FLUSH_WB", "XRET_JUMP"}

ArchDebug == debug_mode_q /\ ~(Leaving /\ instr_id.kind = "dret")

ArchCsr ==
  IF ctrl_fsm_cs = "FLUSH_EX" /\ Traps(instr_id, debug_mode_q) /\ ~debug_mode_q
    THEN SaveTrap(csr_n, csr_n, pc_id)
  ELSE IF ctrl_fsm_cs \in {"FLUSH_EX", "FLUSH_WB"} /\ is("mret") /\ ~debug_mode_q
    THEN RestoreMret(csr_n, csr_n)
  ELSE csr_n

PcAfterLeaving ==
  IF is("dret") THEN csr.dpc
  ELSE IF Traps(instr_id, debug_mode_q) \/ is("mret")
    THEN IF debug_mode_q THEN DebugVector
         ELSE IF is("mret") THEN csr.mepc ELSE TrapVector
  ELSE After(pc_id)

ArchPc ==
  IF ctrl_fsm_cs \in {"RESET", "BOOT_SET"} THEN Boot
  ELSE IF Leaving THEN PcAfterLeaving
  ELSE IF ctrl_fsm_cs = "DBG_TAKEN_ID" \/ (ctrl_fsm_cs = "DBG_FLUSH" /\ enters_at_id) THEN pc_id
  ELSE IF branch_taken_ex THEN ex.addr
  ELSE IF ctrl_fsm_cs = "DECODE" /\ instr_valid_id THEN pc_id
  ELSE pc_if

ArchStepped ==
  stepping /\ (\/ Leaving \/ ctrl_fsm_cs = "DBG_WAIT_BRANCH"
               \/ ctrl_fsm_cs = "DBG_FLUSH" /\ ~enters_at_id
               \/ ctrl_fsm_cs = "DBG_TAKEN_IF" /\ ~debug_force_wakeup_q)

ArchRetired == IF minstret THEN ex ELSE Bubble

Architecture == INSTANCE Hart WITH
  pc <- ArchPc, csr <- ArchCsr, debug <- ArchDebug, stepped <- ArchStepped,
  retired <- ArchRetired

(* ---- properties ---- *)
Slot == Instructions \cup {Bubble, Killed}

TypeOK ==
  /\ ctrl_fsm_cs \in CtrlStates /\ debug_fsm_cs \in {"HAVERESET", "RUNNING", "HALTED"}
  /\ jump_done_q \in BOOLEAN /\ illegal_insn_q \in BOOLEAN /\ debug_mode_q \in BOOLEAN
  /\ debug_req_entry_q \in BOOLEAN /\ debug_force_wakeup_q \in BOOLEAN
  /\ debug_req_q \in BOOLEAN /\ irq_q \in BOOLEAN
  /\ instr_valid_id \in BOOLEAN /\ minstret \in BOOLEAN
  /\ pc_if \in Addr /\ pc_id \in Addr
  /\ instr_id \in Slot /\ ex \in Slot
  /\ wb_wait \in 0..MaxLatency /\ csr \in Registers

(* A jump that waits in ID has been made: IF is at its target.  The flag   *)
(* never speaks of another instruction, though an interrupt may flush the  *)
(* jump and leave the flag (controller, jump_done_q).                      *)
JumpDoneIsForId ==
  jump_done_q /\ instr_valid_id => instr_id.kind = "jump" /\ pc_if = instr_id.addr

(* Where an exception, a return, a wake-up or an interrupt in FIRST_FETCH  *)
(* is carried out, nothing is left in the pipeline: no CSR write that      *)
(* would be missed (a_xret_csr), and ID is ready (a_first_fetch_id_ready). *)
Drained ==
  ctrl_fsm_cs \in {"RESET", "BOOT_SET", "FLUSH_WB", "XRET_JUMP", "WAIT_SLEEP", "SLEEP",
                   "FIRST_FETCH"}
    => ~ExBusy /\ wb_wait = 0 /\ ~instr_valid_id

(* A write of mstatus or mepc in EX cannot meet an interrupt (a_irq_csr):  *)
(* ID decodes no further until it is done, except in debug mode.  A write  *)
(* of the debugger's registers does not outlive debug mode.                *)
StatusWriteAlone ==
  /\ StatusAccess(ex)
       => debug_mode_q \/ ctrl_fsm_cs \in {"FLUSH_EX", "DBG_FLUSH", "DBG_TAKEN_ID", "DBG_TAKEN_IF"}
  /\ ex.reg \in {"dcsr", "dpc"} => debug_mode_q

(* A branch is decided while the controller looks: it is not lost in a     *)
(* flush, and none is in ID when one is taken (the assertion that taken    *)
(* branches are not back to back).                                         *)
BranchIsSeen ==
  ex.kind \in {"branch", "not_taken"}
    => ctrl_fsm_cs \in {"DECODE", "DBG_WAIT_BRANCH"}

(* While the pipeline is flushed the decoder still shows the instruction   *)
(* for which it is flushed, and in the same light.                         *)
FlushKnowsWhy ==
  /\ ctrl_fsm_cs \in {"FLUSH_EX", "FLUSH_WB"}
       => /\ illegal_insn_q <=> illegal_insn
          /\ ~instr_valid_id /\ ~ebreak_to_debug /\ (is("wfi") => ~debug_mode_q)
  /\ ctrl_fsm_cs = "FLUSH_EX"
       => ex \in {Bubble, Killed, instr_id} /\ ex.kind \notin {"op", "mem", "jump"}
  /\ ctrl_fsm_cs = "XRET_JUMP" => is("mret") \/ is("dret")

(* The debug program is entered for a reason, once: DBG_TAKEN_IF only for  *)
(* a single step or a wake-up (a_single_step_dbg_taken_if), never from     *)
(* debug mode; the debug FSM agrees (a_debug_halted_equals_debug_mode).    *)
DebugEntryHasReason ==
  /\ debug_fsm_cs = "HALTED" <=> debug_mode_q
  /\ ctrl_fsm_cs = "DBG_TAKEN_IF" => ~debug_mode_q /\ (single_step \/ debug_force_wakeup_q)
  /\ ctrl_fsm_cs = "DBG_TAKEN_ID" => enters_at_id /\ (debug_mode_q => is("ebreak"))
  /\ ctrl_fsm_cs = "DBG_FLUSH"
       => IF debug_mode_q THEN is("ebreak") ELSE enters_at_id \/ single_step
  /\ ctrl_fsm_cs = "DBG_WAIT_BRANCH" => stepping
  /\ debug_req_entry_q => ctrl_fsm_cs \in {"DBG_FLUSH", "DBG_TAKEN_ID"} /\ ~debug_mode_q
  /\ debug_force_wakeup_q => ctrl_fsm_cs = "DBG_TAKEN_IF"
  /\ ctrl_fsm_cs \in {"RESET", "BOOT_SET", "WAIT_SLEEP", "SLEEP", "FIRST_FETCH"} => ~debug_mode_q
  /\ ctrl_fsm_cs \in {"DBG_WAIT_BRANCH", "DBG_TAKEN_ID", "DBG_TAKEN_IF"} => ~instr_valid_id

IInv ==
  /\ TypeOK /\ JumpDoneIsForId /\ Drained /\ StatusWriteAlone /\ BranchIsSeen
  /\ FlushKnowsWhy /\ DebugEntryHasReason

(* The address that a trap, a wake-up or the debugger resumes at is always *)
(* at hand: IF stands right behind ID, unless a jump in ID has moved it,   *)
(* and so it does while the instruction of a flush leaves the pipeline.    *)
FetchInStep ==
  /\ instr_valid_id => instr_id \in Instructions
  /\ (instr_valid_id /\ ~jump_done_q) \/ ctrl_fsm_cs \in {"FLUSH_EX", "FLUSH_WB"}
       => pc_if = After(pc_id)

(* The instruction of a single step runs alone: none is before it in EX or *)
(* WB, it goes through a flush only to trap or to return, and what the     *)
(* debugger waits for is a branch, with no other reason to enter.          *)
StepAlone ==
  stepping =>
    /\ ctrl_fsm_cs = "DECODE" => ~ExBusy /\ wb_wait = 0
    /\ ctrl_fsm_cs \in {"FLUSH_EX", "FLUSH_WB"} => Traps(instr_id, debug_mode_q) \/ is("mret")
    /\ ctrl_fsm_cs = "DBG_WAIT_BRANCH" => ~enters_at_id /\ ex.kind \in {"branch", "not_taken"}

(* A CSR write that is still in EX when the debugger is entered waits for  *)
(* an access that has been in WB since before: two cycles when the         *)
(* pipeline flushes, three when the mode changes.                          *)
WriteBehindAccess ==
  ex.kind = "csr" /\ ~debug_mode_q =>
    /\ ctrl_fsm_cs = "DBG_FLUSH" => wb_wait # 1
    /\ ctrl_fsm_cs \in {"DBG_TAKEN_ID", "DBG_TAKEN_IF"} => wb_wait \notin {1, 2}

(* Instructions follow each other as the controller assumes where it looks *)
(* at ID, IF and EX to tell which comes next.                              *)
FlowInv == FetchInStep /\ StepAlone /\ WriteBehindAccess

(* Then the write is made before the mode changes, if an access takes no   *)
(* more than three cycles; or no program writes the trigger registers, to  *)
(* which alone the mode makes a difference.                                *)
TriggerWritesInTime ==
  MaxLatency <= 3 \/ \A i \in Instructions : i.reg \notin {"tdata1", "tdata2"}

(* Whatever the program, the interrupts, the debugger and the stalls: what *)
(* the program sees is one instruction after the other.                    *)
ImplementsHart == Architecture!Spec

(* A debug request is served however short it was: once the core is up,    *)
(* debug mode follows, from a sleeping core too.                           *)
DebugRequestServed == debug_req_q /\ ctrl_fsm_cs # "RESET" ~> debug_mode_q

(* No interrupt is missed.  One that stays on the line is taken in the     *)
(* end, which disables interrupts, from a sleeping core too; one that is   *)
(* not enabled in mstatus still wakes the core.                            *)
InterruptServed ==
  /\ (irq_q /\ "irq" \in csr.on /\ m_irq_enable(csr))
       ~> (~irq_q \/ "irq" \notin csr.on \/ ~m_irq_enable(csr) \/ debug_mode_q)
  /\ (ctrl_fsm_cs = "SLEEP" /\ irq_q /\ "irq" \in csr.on)
       ~> (ctrl_fsm_cs # "SLEEP" \/ ~irq_q)

(* The trigger registers are "access from D mode only" (cs_registers,      *)
(* tmatch_control_rdata): what the program sees of them changes in debug   *)
(* mode only.                                                              *)
TriggersFromDebugOnly ==
  [][ArchCsr.tdata2' # ArchCsr.tdata2 \/ ("execute" \in ArchCsr.on)' # ("execute" \in ArchCsr.on)
       => ArchDebug]_vars
==============================================================================
