--------------------------------- MODULE Hart ---------------------------------
(***************************************************************************)
(* What a program may rely on: instructions take effect one at a time, at  *)
(* the program counter, and between two of them the hart may take an       *)
(* interrupt that is enabled or enter debug mode.  The program is          *)
(* arbitrary: any instruction may stand at the program counter.            *)
(***************************************************************************)
EXTENDS InstructionSet

VARIABLES
  pc,        \* address of the next instruction
  csr,       \* the control and status registers
  debug,     \* the hart is in debug mode
  stepped,   \* one instruction was single-stepped: the debugger is next
  retired    \* the instruction that completed in this step, or Bubble

vars == <<pc, csr, debug, stepped, retired>>

Init ==
  pc = Boot /\ csr = ResetRegisters /\ ~debug /\ ~stepped /\ retired = Bubble

(* The instruction at pc may run: it was not the last one of a single      *)
(* step, and no trigger is set on it.                                      *)
MayRun == ~stepped /\ (debug \/ ~trigger_match(csr, pc))

Stepping == "step" \in csr.on /\ ~debug

Execute(i) ==
  /\ retired' = i
  /\ MayRun /\ ~Traps(i, debug) /\ i.kind \notin {"mret", "dret"}
  /\ pc' = NextPc(i, pc) /\ csr' = WriteCsr(csr, i, debug)
  /\ stepped' = Stepping
  /\ UNCHANGED debug

(* In debug mode mret is an error of the debug program.                    *)
Mret(i) ==
  /\ i.kind = "mret" /\ retired' = i /\ MayRun
  /\ IF debug THEN pc' = DebugVector /\ csr' = csr
              ELSE pc' = csr.mepc /\ csr' = RestoreMret(csr, csr)
  /\ stepped' = Stepping
  /\ UNCHANGED debug

Dret(i) ==
  /\ i.kind = "dret" /\ retired' = i /\ MayRun /\ debug
  /\ pc' = csr.dpc /\ debug' = FALSE /\ stepped' = FALSE
  /\ UNCHANGED csr

Exception(i) ==
  /\ Traps(i, debug) /\ retired' = Bubble /\ MayRun
  /\ i.kind = "ebreak" => ~debug /\ "ebreakm" \notin csr.on
  /\ IF debug THEN pc' = DebugVector /\ csr' = csr
              ELSE pc' = TrapVector /\ csr' = SaveTrap(csr, csr, pc)
  /\ stepped' = Stepping
  /\ UNCHANGED debug

(* ebreak in debug mode starts the debug program again.                    *)
Restart ==
  /\ MayRun /\ debug
  /\ pc' = HaltVector /\ retired' = Bubble
  /\ UNCHANGED <<csr, debug, stepped>>

Interrupt ==
  /\ ~debug /\ ~stepped /\ m_irq_enable(csr) /\ "irq" \in csr.on
  /\ pc' = IrqVector /\ csr' = SaveTrap(csr, csr, pc) /\ retired' = Bubble
  /\ UNCHANGED <<debug, stepped>>

(* dpc tells the debugger where to resume, cause why it was entered.       *)
EnterDebug(cause) ==
  /\ ~debug
  /\ cause = "step" <=> stepped
  /\ cause = "trigger" => trigger_match(csr, pc)
  /\ cause = "ebreak" => "ebreakm" \in csr.on
  /\ cause # "none"
  /\ pc' = HaltVector /\ csr' = SaveDebug(csr, pc, cause)
  /\ debug' = TRUE /\ stepped' = FALSE /\ retired' = Bubble

Wait == retired' = Bubble /\ UNCHANGED <<pc, csr, debug, stepped>>

Next ==
  \/ Wait \/ Restart \/ Interrupt
  \/ \E i \in Instructions : Execute(i) \/ Mret(i) \/ Dret(i) \/ Exception(i)
  \/ \E cause \in Causes : EnterDebug(cause)

Spec == Init /\ [][Next]_vars
==============================================================================
