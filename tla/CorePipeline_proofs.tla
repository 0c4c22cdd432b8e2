------------------------- MODULE CorePipeline_proofs -------------------------
(***************************************************************************)
(* Proofs about CorePipeline, for any set of instructions, any addresses   *)
(* and any latency of memory: first that IInv is an invariant, from the    *)
(* twenty steps of the controller; then that each of them is a step of     *)
(* Hart on what the program sees, or is not seen; and that the three       *)
(* invariants on which this rests, FetchInStep, StepAlone and              *)
(* WriteBehindAccess, are kept.                                            *)
(***************************************************************************)
EXTENDS CorePipeline, TLAPS

(* What may stand in EX.                                                   *)
LEMMA Slots ==
  /\ Bubble \in Slot /\ Killed \in Slot /\ Bubble \in Instruction /\ Killed \in Instruction
  /\ Bubble.kind = "bubble" /\ Killed.kind = "killed"
  /\ Bubble.reg = "none" /\ Killed.reg = "none"
  /\ \A i \in Slot : i \in Instruction
  /\ \A i \in Slot : i.kind = "csr" <=> i.reg # "none"
  /\ \A i \in Slot : i.kind \in {"bubble", "killed"} => i \in {Bubble, Killed}
<1>1. Boot \in Addr /\ 0 \in Addr
  BY AddressAssumption DEF Addr
<1>2. "none" \in DOMAIN BitsOf \cup {"mepc", "dpc", "tdata2", "none"} /\ {} \in SUBSET Bits
  OBVIOUS
<1>3. /\ Bubble = [kind |-> "bubble", reg |-> "none", addr |-> 0, bits |-> {}]
      /\ Killed = [kind |-> "killed", reg |-> "none", addr |-> 0, bits |-> {}]
  BY DEF Bubble, Killed, Plain
<1>4. Bubble \in Instruction /\ Killed \in Instruction
  BY <1>1, <1>2, <1>3 DEF Instruction, Kinds
<1>5. ASSUME NEW i \in Slot
      PROVE  /\ i \in Instruction /\ (i.kind = "csr" <=> i.reg # "none")
             /\ i.kind \in {"bubble", "killed"} => i \in {Bubble, Killed}
  <2>1. CASE i \in Instructions
    BY <2>1, InstructionsAssumption
  <2>2. CASE i \in {Bubble, Killed}
    <3>1. i \in Instruction
      BY <2>2, <1>4
    <3>2. i.kind \in {"bubble", "killed"} /\ i.reg = "none"
      BY <2>2, <1>3
    <3> QED BY <2>2, <3>1, <3>2
  <2> QED BY <2>1, <2>2 DEF Slot
<1>6. Bubble \in Slot /\ Killed \in Slot
  BY DEF Slot
<1>7. /\ Bubble.kind = "bubble" /\ Killed.kind = "killed"
      /\ Bubble.reg = "none" /\ Killed.reg = "none"
  BY <1>3
<1> QED BY <1>4, <1>5, <1>6, <1>7

(* What a cycle may bring.                                                 *)
LEMMA InputTypes ==
  ASSUME NEW in \in Inputs, TypeOK
  PROVE  /\ in.irq \in BOOLEAN /\ in.debug_req \in BOOLEAN /\ in.fetch \in BOOLEAN
         /\ in.ex_done \in BOOLEAN /\ in.wb_ready \in BOOLEAN
         /\ in.stall \in {"no", "load", "jr"}
         /\ ex.kind \notin {"op", "mem", "killed"} => in.ex_done
         /\ wb_wait = 0 => in.wb_ready
         /\ ~in.wb_ready => wb_wait \in 1..(MaxLatency - 1)
         /\ in.stall = "load" => ex.kind = "mem" \/ wb_wait > 0
         /\ in.stall = "jr" => instr_id.kind = "jump" /\ (ExBusy \/ wb_wait > 0)
<1>1. in.irq \in Irqs /\ in.debug_req \in DebugReqs
  BY DEF Inputs
<1>2. in.irq \in BOOLEAN /\ in.debug_req \in BOOLEAN
  BY <1>1, InputAssumption
<1>3. /\ in.fetch \in BOOLEAN
      /\ in.stall \in {"no"} \cup (IF ex.kind = "mem" \/ wb_wait > 0 THEN {"load"} ELSE {})
                      \cup (IF instr_id.kind = "jump" /\ (ExBusy \/ wb_wait > 0)
                            THEN {"jr"} ELSE {})
      /\ in.ex_done \in IF ex.kind \in {"op", "mem", "killed"} THEN BOOLEAN ELSE {TRUE}
      /\ in.wb_ready \in IF wb_wait \in 1..(MaxLatency - 1) THEN BOOLEAN ELSE {TRUE}
  BY DEF Inputs
<1>4. in.ex_done \in BOOLEAN /\ (ex.kind \notin {"op", "mem", "killed"} => in.ex_done)
  BY <1>3
<1>5. in.wb_ready \in BOOLEAN /\ (~in.wb_ready => wb_wait \in 1..(MaxLatency - 1))
  BY <1>3
<1>6. wb_wait = 0 => wb_wait \notin 1..(MaxLatency - 1)
  BY InputAssumption
<1>7. /\ in.stall \in {"no", "load", "jr"}
      /\ in.stall = "load" => ex.kind = "mem" \/ wb_wait > 0
      /\ in.stall = "jr" => instr_id.kind = "jump" /\ (ExBusy \/ wb_wait > 0)
  BY <1>3
<1> QED BY <1>2, <1>3, <1>4, <1>5, <1>6, <1>7

(* Addresses.                                                              *)
LEMMA Addresses ==
  /\ \A a \in Addr : After(a) \in Addr /\ a # NoTarget
  /\ \A i \in Slot : i.addr \in Addr
  /\ Boot \in Addr /\ TrapVector \in Addr /\ IrqVector \in Addr
  /\ HaltVector \in Addr /\ DebugVector \in Addr
<1>1. \A a \in Addr : After(a) \in Addr /\ a # NoTarget
  BY AddressAssumption DEF Addr, After, NoTarget
<1>2. \A i \in Slot : i.addr \in Addr
  BY Slots DEF Instruction
<1> QED BY <1>1, <1>2, AddressAssumption

(* One clock edge of the stages.                                           *)
LEMMA StagesStep ==
  ASSUME NEW in \in Inputs, TypeOK, NEW halt_if \in BOOLEAN, NEW halt_id \in BOOLEAN,
         NEW issued \in Slot, NEW target \in Addr \cup {NoTarget},
         Stages(in, halt_if, halt_id, issued, target)
  PROVE  /\ instr_valid_id' \in BOOLEAN /\ minstret' \in BOOLEAN
         /\ pc_if' \in Addr /\ pc_id' \in Addr
         /\ instr_id' \in Slot /\ ex' \in Slot /\ wb_wait' \in 0..MaxLatency
         /\ ex' \in {issued, Bubble, ex}
         /\ halt_id \/ ~id_ready(in) => ex' \in {Bubble, ex}
         /\ ~halt_id /\ id_ready(in) => ex' = issued
         /\ ex_ready(in) => ex' \in {issued, Bubble}
         /\ halt_id /\ ex_ready(in) => ex' = Bubble
         /\ halt_if \/ ~id_ready(in) \/ target # NoTarget \/ ~in.fetch
              => /\ instr_id' = instr_id /\ pc_id' = pc_id
                 /\ pc_if' = IF target # NoTarget THEN target ELSE pc_if
                 /\ instr_valid_id' => instr_valid_id /\ ~id_ready(in) /\ ~halt_id /\ ~branch_taken_ex
         /\ ex.kind # "mem" /\ in.wb_ready => wb_wait' = 0
<1> USE DEF Stages
<1>1. /\ ex' = IF ~halt_id /\ id_ready(in) THEN issued ELSE IF ex_ready(in) THEN Bubble ELSE ex
      /\ ex' \in Slot
  BY Slots DEF TypeOK
<1>2. wb_wait' \in 0..MaxLatency /\ (ex.kind # "mem" /\ in.wb_ready => wb_wait' = 0)
  <2>1. wb_wait \in 0..MaxLatency /\ MaxLatency \in Nat \ {0}
    BY InputAssumption DEF TypeOK
  <2>2. ~in.wb_ready => wb_wait + 1 \in 0..MaxLatency
    BY <2>1, InputTypes
  <2>3. wb_wait' = IF ex.kind = "mem" /\ ex_valid(in) THEN 1
                   ELSE IF in.wb_ready THEN 0 ELSE wb_wait + 1
    OBVIOUS
  <2> QED BY <2>1, <2>2, <2>3
<1>3. instr_valid_id' \in BOOLEAN /\ minstret' \in BOOLEAN
  OBVIOUS
<1> DEFINE if_valid == ~halt_if /\ id_ready(in) /\ in.fetch /\ target = NoTarget
<1>4. /\ if_valid => pc_id' = pc_if /\ instr_id' \in Instructions
      /\ ~if_valid => pc_id' = pc_id /\ instr_id' = instr_id
  OBVIOUS
<1>5. pc_if' = IF target # NoTarget THEN target ELSE IF if_valid THEN After(pc_if) ELSE pc_if
  OBVIOUS
<1>6. pc_if' \in Addr
  BY <1>5, Addresses DEF TypeOK
<1>7. pc_id' \in Addr /\ instr_id' \in Slot
  BY <1>4 DEF TypeOK, Slot
<1>8. instr_valid_id' <=> if_valid \/ (instr_valid_id /\ ~(id_ready(in) \/ halt_id \/ branch_taken_ex))
  OBVIOUS
<1>9. halt_if \/ ~id_ready(in) \/ target # NoTarget \/ ~in.fetch
        => /\ instr_id' = instr_id /\ pc_id' = pc_id
           /\ pc_if' = IF target # NoTarget THEN target ELSE pc_if
           /\ instr_valid_id' => instr_valid_id /\ ~id_ready(in) /\ ~halt_id /\ ~branch_taken_ex
  BY <1>4, <1>5, <1>8
<1> QED BY <1>1, <1>2, <1>3, <1>6, <1>7, <1>9

(* TypeOK of the registers of the stages.                                  *)
StageTypes ==
  /\ instr_valid_id \in BOOLEAN /\ minstret \in BOOLEAN
  /\ pc_if \in Addr /\ pc_id \in Addr
  /\ instr_id \in Slot /\ ex \in Slot /\ wb_wait \in 0..MaxLatency

(* The controller halts IF and ID.                                         *)
LEMMA HaltedStep ==
  ASSUME NEW in \in Inputs, TypeOK, NEW target \in Addr \cup {NoTarget},
         Stages(in, TRUE, TRUE, Killed, target)
  PROVE  /\ StageTypes' /\ ex' \in {Bubble, ex} /\ (ex_ready(in) => ex' = Bubble)
         /\ instr_id' = instr_id /\ pc_id' = pc_id /\ ~instr_valid_id'
         /\ pc_if' = IF target # NoTarget THEN target ELSE pc_if
         /\ ex.kind # "mem" /\ in.wb_ready => wb_wait' = 0
<1>1. PICK h \in BOOLEAN : h
  OBVIOUS
<1>2. Stages(in, h, h, Killed, target)
  <2>1. h = TRUE
    BY <1>1
  <2> QED BY <2>1
<1>3. Killed \in Slot
  BY Slots
<1>4. /\ instr_valid_id' \in BOOLEAN /\ minstret' \in BOOLEAN
      /\ pc_if' \in Addr /\ pc_id' \in Addr
      /\ instr_id' \in Slot /\ ex' \in Slot /\ wb_wait' \in 0..MaxLatency
      /\ h \/ ~id_ready(in) => ex' \in {Bubble, ex}
      /\ h /\ ex_ready(in) => ex' = Bubble
      /\ h \/ ~id_ready(in) \/ target # NoTarget \/ ~in.fetch
           => /\ instr_id' = instr_id /\ pc_id' = pc_id
              /\ pc_if' = IF target # NoTarget THEN target ELSE pc_if
              /\ instr_valid_id' => instr_valid_id /\ ~id_ready(in) /\ ~h /\ ~branch_taken_ex
      /\ ex.kind # "mem" /\ in.wb_ready => wb_wait' = 0
  BY <1>2, <1>3, StagesStep
<1> QED BY <1>1, <1>4, Zenon DEF StageTypes

(* IF and ID may move, but ID hands over nothing.                          *)
LEMMA OpenStep ==
  ASSUME NEW in \in Inputs, TypeOK, NEW target \in Addr \cup {NoTarget},
         Stages(in, FALSE, FALSE, Killed, target)
  PROVE  /\ StageTypes' /\ ex' \in {Bubble, Killed, ex}
         /\ ~id_ready(in) => ex' \in {Bubble, ex}
         /\ ex_ready(in) => ex' \in {Bubble, Killed}
         /\ target # NoTarget \/ ~id_ready(in) \/ ~in.fetch
              => /\ instr_id' = instr_id /\ pc_id' = pc_id
                 /\ pc_if' = IF target # NoTarget THEN target ELSE pc_if
                 /\ instr_valid_id' => instr_valid_id /\ ~id_ready(in) /\ ~branch_taken_ex
         /\ ex.kind # "mem" /\ in.wb_ready => wb_wait' = 0
<1>1. PICK h \in BOOLEAN : ~h
  OBVIOUS
<1>2. Stages(in, h, h, Killed, target)
  <2>1. h = FALSE
    BY <1>1
  <2> QED BY <2>1
<1>3. Killed \in Slot
  BY Slots
<1>4. /\ instr_valid_id' \in BOOLEAN /\ minstret' \in BOOLEAN
      /\ pc_if' \in Addr /\ pc_id' \in Addr
      /\ instr_id' \in Slot /\ ex' \in Slot /\ wb_wait' \in 0..MaxLatency
      /\ ex' \in {Killed, Bubble, ex}
      /\ h \/ ~id_ready(in) => ex' \in {Bubble, ex}
      /\ ex_ready(in) => ex' \in {Killed, Bubble}
      /\ h \/ ~id_ready(in) \/ target # NoTarget \/ ~in.fetch
           => /\ instr_id' = instr_id /\ pc_id' = pc_id
              /\ pc_if' = IF target # NoTarget THEN target ELSE pc_if
              /\ instr_valid_id' => instr_valid_id /\ ~id_ready(in) /\ ~h /\ ~branch_taken_ex
      /\ ex.kind # "mem" /\ in.wb_ready => wb_wait' = 0
  BY <1>2, <1>3, StagesStep
<1>5. {Killed, Bubble, ex} = {Bubble, Killed, ex} /\ {Killed, Bubble} = {Bubble, Killed}
  OBVIOUS
<1> QED BY <1>1, <1>4, <1>5, Zenon DEF StageTypes

(* The fields of the registers that the controller looks at.               *)
LEMMA RegisterTypes ==
  ASSUME NEW c \in Registers, NEW q \in Registers, NEW i \in Instruction, NEW d \in BOOLEAN,
         NEW a \in Addr, NEW why \in Causes
  PROVE  /\ WriteCsr(c, i, d) \in Registers /\ SaveTrap(c, q, a) \in Registers
         /\ SaveDebug(c, a, why) \in Registers /\ RestoreMret(c, q) \in Registers
         /\ \A b \in {"step", "ebreakm", "execute"} :
              /\ b \in SaveTrap(c, q, a).on <=> b \in c.on
              /\ b \in SaveDebug(c, a, why).on <=> b \in c.on
              /\ b \in RestoreMret(c, q).on <=> b \in c.on
         /\ SaveTrap(c, q, a).tdata2 = c.tdata2 /\ SaveDebug(c, a, why).tdata2 = c.tdata2
         /\ RestoreMret(c, q).tdata2 = c.tdata2
<1>1. /\ BitsOf["mstatus"] = {"mie", "mpie"} /\ BitsOf["mie"] = {"irq"}
      /\ BitsOf["dcsr"] = {"step", "stepie", "ebreakm"} /\ BitsOf["tdata1"] = {"execute"}
      /\ DOMAIN BitsOf = {"mstatus", "mie", "dcsr", "tdata1"}
  BY DEF BitsOf
<1>2. {"mie", "mpie"} \subseteq Bits
  BY <1>1 DEF Bits
<1>3. c.on \subseteq Bits /\ q.on \subseteq Bits /\ i.bits \subseteq Bits /\ i.addr \in Addr
  BY DEF Registers, Instruction
<1>4. WriteCsr(c, i, d) \in Registers
  BY <1>3 DEF WriteCsr, Registers
<1>5. SaveTrap(c, q, a) \in Registers /\ RestoreMret(c, q) \in Registers
  BY <1>1, <1>2, <1>3 DEF SaveTrap, RestoreMret, Registers
<1>6. SaveDebug(c, a, why) \in Registers
  BY DEF SaveDebug, Registers
<1>7. \A b \in {"step", "ebreakm", "execute"} :
        /\ b \in SaveTrap(c, q, a).on <=> b \in c.on
        /\ b \in SaveDebug(c, a, why).on <=> b \in c.on
        /\ b \in RestoreMret(c, q).on <=> b \in c.on
  BY <1>1 DEF SaveTrap, SaveDebug, RestoreMret, Registers
<1>8. /\ SaveTrap(c, q, a).tdata2 = c.tdata2 /\ SaveDebug(c, a, why).tdata2 = c.tdata2
      /\ RestoreMret(c, q).tdata2 = c.tdata2
  BY DEF SaveTrap, SaveDebug, RestoreMret, Registers
<1> QED BY <1>4, <1>5, <1>6, <1>7, <1>8

(* Outside debug mode the registers of debugger and triggers stand still.  *)
LEMMA WriteStep ==
  ASSUME TypeOK
  PROVE  /\ csr_n \in Registers
         /\ ~debug_mode_q /\ ex.reg \notin {"dcsr", "dpc"}
              => /\ \A b \in {"step", "ebreakm", "execute"} : b \in csr_n.on <=> b \in csr.on
                 /\ csr_n.tdata2 = csr.tdata2
         /\ ex.kind # "csr" => csr_n = csr
<1>1. ex \in Instruction /\ csr \in Registers /\ debug_mode_q \in BOOLEAN
  BY Slots DEF TypeOK
<1>2. 0 \in Addr /\ "none" \in Causes
  BY AddressAssumption DEF Addr, Causes
<1>3. WriteCsr(csr, ex, debug_mode_q) \in Registers
  BY <1>1, <1>2, RegisterTypes
<1>4. csr_n \in Registers /\ (ex.kind # "csr" => csr_n = csr)
  BY <1>1, <1>3 DEF csr_n
<1>5. ASSUME ~debug_mode_q, ex.reg \notin {"dcsr", "dpc"}
      PROVE  /\ \A b \in {"step", "ebreakm", "execute"} : b \in csr_n.on <=> b \in csr.on
             /\ csr_n.tdata2 = csr.tdata2
  <2>1. CASE ex.kind # "csr"
    BY <2>1, <1>4
  <2>2. CASE ex.kind = "csr"
    <3>1. ex.reg \in {"mstatus", "mie", "tdata1", "tdata2", "mepc"}
      <4>1. ex.reg # "none"
        BY <2>2, Slots DEF TypeOK
      <4>2. ex.reg \in DOMAIN BitsOf \cup {"mepc", "dpc", "tdata2", "none"}
        BY <1>1 DEF Instruction
      <4> QED BY <4>1, <4>2, <1>5 DEF BitsOf
    <3>2. csr_n = WriteCsr(csr, ex, debug_mode_q)
      BY <2>2 DEF csr_n
    <3>3. CASE ex.reg \in {"tdata1", "tdata2"}
      BY <3>2, <3>3, <1>5 DEF WriteCsr
    <3>4. CASE ex.reg \in {"mstatus", "mie"}
      <4>1. csr_n = [csr EXCEPT !.on = (csr.on \ BitsOf[ex.reg]) \cup ex.bits]
        BY <3>2, <3>4 DEF WriteCsr, BitsOf
      <4>2. ex \in Instructions
        BY <2>2, Slots DEF TypeOK, Slot
      <4>3. ex.bits \subseteq BitsOf[ex.reg]
        BY <3>4, <4>2, InstructionsAssumption DEF BitsOf
      <4>4. BitsOf[ex.reg] \in {{"mie", "mpie"}, {"irq"}}
        BY <3>4 DEF BitsOf
      <4>5. \A b \in {"step", "ebreakm", "execute"} : b \notin BitsOf[ex.reg] /\ b \notin ex.bits
        BY <4>3, <4>4
      <4> QED BY <4>1, <4>5, <1>1 DEF Registers
    <3>5. CASE ex.reg = "mepc"
      <4>1. csr_n = [csr EXCEPT !.mepc = ex.addr, !.dpc = csr.dpc, !.tdata2 = csr.tdata2]
        BY <3>2, <3>5 DEF WriteCsr, BitsOf
      <4> QED BY <4>1, <1>1 DEF Registers
    <3> QED BY <3>1, <3>3, <3>4, <3>5
  <2> QED BY <2>1, <2>2
<1> QED BY <1>4, <1>5

(* Whatever an action does to the registers, the debugger's and the        *)
(* triggers' change in debug mode only.                                    *)
LEMMA RegistersStep ==
  ASSUME TypeOK, NEW a \in Addr, NEW why \in Causes,
         \/ csr' = csr_n \/ csr' = SaveTrap(csr_n, csr, a)
         \/ csr' = SaveDebug(csr_n, a, why) \/ csr' = RestoreMret(csr_n, csr)
  PROVE  /\ csr' \in Registers
         /\ ~debug_mode_q /\ ex.reg \notin {"dcsr", "dpc"}
              => /\ single_step' <=> single_step
                 /\ ebrk_force' <=> ebrk_force
                 /\ pc_id' = pc_id => (trigger' <=> trigger)
<1>1. csr \in Registers /\ csr_n \in Registers
  BY WriteStep DEF TypeOK
<1>2. /\ csr' \in Registers /\ csr'.tdata2 = csr_n.tdata2
      /\ \A b \in {"step", "ebreakm", "execute"} : b \in csr'.on <=> b \in csr_n.on
  <2>1. CASE csr' = csr_n
    BY <2>1, <1>1
  <2>2. CASE csr' # csr_n
    <3>1. PICK i \in Instruction : TRUE
      BY Slots
    <3>2. PICK d \in BOOLEAN : TRUE
      OBVIOUS
    <3> QED BY <2>2, <3>1, <3>2, <1>1, RegisterTypes
  <2> QED BY <2>1, <2>2
<1>3. ASSUME ~debug_mode_q, ex.reg \notin {"dcsr", "dpc"}
      PROVE  /\ csr'.tdata2 = csr.tdata2
             /\ \A b \in {"step", "ebreakm", "execute"} : b \in csr'.on <=> b \in csr.on
  BY <1>2, <1>3, WriteStep
<1>4. ASSUME ~debug_mode_q, ex.reg \notin {"dcsr", "dpc"}
      PROVE  /\ single_step' <=> single_step
             /\ ebrk_force' <=> ebrk_force
             /\ pc_id' = pc_id => (trigger' <=> trigger)
  BY <1>3, <1>4 DEF single_step, ebrk_force, trigger, trigger_match
<1> QED BY <1>2, <1>4

(* With nothing in EX and WB, ID is ready and nothing comes of it.         *)
LEMMA EmptyStage ==
  ASSUME TypeOK, NEW in \in Inputs, ~ExBusy, wb_wait = 0
  PROVE  /\ in.wb_ready /\ ex_ready(in) /\ id_ready(in) /\ ~branch_taken_ex
         /\ ex \in {Bubble, Killed} /\ ex.kind # "mem"
<1>1. ex \in {Bubble, Killed} /\ ex.kind \in {"bubble", "killed"}
  BY Slots DEF ExBusy, TypeOK
<1>2. in.wb_ready /\ ~stalled(in)
  BY <1>1, InputTypes DEF stalled
<1>3. ex_ready(in)
  BY <1>1, <1>2, InputTypes DEF ex_ready
<1> QED BY <1>1, <1>2, <1>3 DEF id_ready, branch_taken_ex

(* A clock edge with an empty pipeline that ID does not fill.              *)
LEMMA EmptyStep ==
  ASSUME TypeOK, NEW in \in Inputs, ~ExBusy, wb_wait = 0, ~instr_valid_id,
         NEW target \in Addr \cup {NoTarget},
         \/ Stages(in, TRUE, TRUE, Killed, target)
         \/ Stages(in, FALSE, FALSE, Killed, target) /\ (target # NoTarget \/ ~in.fetch)
  PROVE  /\ StageTypes' /\ ex' \in {Bubble, Killed} /\ wb_wait' = 0 /\ ~instr_valid_id'
         /\ instr_id' = instr_id /\ pc_id' = pc_id
<1>1. /\ in.wb_ready /\ ex_ready(in) /\ id_ready(in) /\ ~branch_taken_ex
      /\ ex \in {Bubble, Killed} /\ ex.kind # "mem"
  BY EmptyStage
<1>2. CASE Stages(in, TRUE, TRUE, Killed, target)
  <2>1. /\ StageTypes' /\ (ex_ready(in) => ex' = Bubble) /\ ~instr_valid_id'
        /\ instr_id' = instr_id /\ pc_id' = pc_id
        /\ ex.kind # "mem" /\ in.wb_ready => wb_wait' = 0
    BY <1>2, HaltedStep
  <2> QED BY <1>1, <2>1
<1>3. CASE Stages(in, FALSE, FALSE, Killed, target) /\ (target # NoTarget \/ ~in.fetch)
  <2>1. /\ StageTypes' /\ (ex_ready(in) => ex' \in {Bubble, Killed})
        /\ target # NoTarget \/ ~id_ready(in) \/ ~in.fetch
             => /\ instr_id' = instr_id /\ pc_id' = pc_id
                /\ instr_valid_id' => instr_valid_id /\ ~id_ready(in) /\ ~branch_taken_ex
        /\ ex.kind # "mem" /\ in.wb_ready => wb_wait' = 0
    BY <1>3, OpenStep
  <2> QED BY <1>1, <1>3, <2>1
<1> QED BY <1>2, <1>3

(* Types, and what every action but Decode shares.                         *)
LEMMA CommonStep ==
  ASSUME IInv, NEW in \in Inputs, NEW ns \in CtrlStates, NEW dm \in BOOLEAN,
         NEW jump_done \in BOOLEAN,
         NextState(in, ns, dm), JumpDone(in, jump_done), StageTypes', csr' \in Registers,
         illegal_insn_q' \in BOOLEAN, debug_req_entry_q' \in BOOLEAN,
         debug_force_wakeup_q' \in BOOLEAN
  PROVE  /\ TypeOK' /\ ctrl_fsm_cs' = ns /\ (debug_mode_q' <=> dm)
         /\ debug_fsm_cs' = "HALTED" <=> debug_mode_q'
         /\ jump_done_q' => jump_done /\ ~id_ready(in)
<1>1. /\ ctrl_fsm_cs' = ns /\ debug_mode_q' = dm /\ irq_q' = in.irq
      /\ debug_fsm_cs' = IF dm THEN "HALTED"
                     ELSE IF debug_fsm_cs = "HAVERESET" /\ ns # "FIRST_FETCH" THEN "HAVERESET"
                     ELSE "RUNNING"
      /\ debug_req_q' = (in.debug_req \/ (debug_req_q /\ ~debug_mode_q))
  BY DEF NextState
<1>2. debug_req_q' \in BOOLEAN /\ irq_q' \in BOOLEAN
  BY <1>1, InputTypes DEF IInv
<1>3. debug_fsm_cs' \in {"HAVERESET", "RUNNING", "HALTED"} /\ (debug_fsm_cs' = "HALTED" <=> dm)
  BY <1>1
<1>4. jump_done_q' \in BOOLEAN /\ (jump_done_q' => jump_done /\ ~id_ready(in))
  BY DEF JumpDone
<1>5. TypeOK'
  BY <1>1, <1>2, <1>3, <1>4 DEF TypeOK, StageTypes
<1> QED BY <1>1, <1>3, <1>4, <1>5

(* A branch leaves EX at once.                                             *)
LEMMA BranchLeaves ==
  ASSUME TypeOK, NEW in \in Inputs, ex' \in {Bubble, Killed, ex},
         ex_ready(in) => ex' \in {Bubble, Killed}
  PROVE  ex'.kind \notin {"branch", "not_taken"}
BY Slots DEF ex_ready

(* A step that leaves nothing in the pipeline and does not flush.          *)
LEMMA QuietStep ==
  ASSUME IInv, TypeOK',
         ctrl_fsm_cs' \in {"RESET", "BOOT_SET", "WAIT_SLEEP", "SLEEP", "FIRST_FETCH",
                           "DECODE", "DBG_TAKEN_IF"},
         ex' \in {Bubble, Killed}, wb_wait' = 0, ~instr_valid_id',
         debug_fsm_cs' = "HALTED" <=> debug_mode_q',
         ctrl_fsm_cs' # "DECODE" => ~debug_mode_q',
         ctrl_fsm_cs' = "DBG_TAKEN_IF" => (single_step \/ debug_force_wakeup_q)',
         debug_force_wakeup_q' => ctrl_fsm_cs' = "DBG_TAKEN_IF",
         ~debug_req_entry_q'
  PROVE  IInv'
<1>1. JumpDoneIsForId'
  BY DEF JumpDoneIsForId
<1>2. ex'.kind \in {"bubble", "killed"} /\ ex'.reg = "none"
  BY Slots
<1>3. Drained' /\ StatusWriteAlone' /\ BranchIsSeen'
  BY <1>2 DEF Drained, ExBusy, StatusWriteAlone, StatusAccess, BranchIsSeen
<1>4. FlushKnowsWhy'
  BY DEF FlushKnowsWhy
<1>5. DebugEntryHasReason'
  BY DEF DebugEntryHasReason
<1> QED BY <1>1, <1>3, <1>4, <1>5 DEF IInv

(* A step into DECODE that hands over nothing.                             *)
LEMMA DecodeNext ==
  ASSUME IInv, TypeOK', ctrl_fsm_cs' = "DECODE", JumpDoneIsForId',
         StatusAccess(ex)' => debug_mode_q',
         ex'.reg \in {"dcsr", "dpc"} => debug_mode_q',
         debug_fsm_cs' = "HALTED" <=> debug_mode_q',
         ~debug_force_wakeup_q', ~debug_req_entry_q'
  PROVE  IInv'
<1>1. Drained' /\ StatusWriteAlone' /\ BranchIsSeen'
  BY DEF Drained, StatusWriteAlone, BranchIsSeen
<1>2. FlushKnowsWhy' /\ DebugEntryHasReason'
  BY DEF FlushKnowsWhy, DebugEntryHasReason
<1> QED BY <1>1, <1>2 DEF IInv

(* Reset: the pipeline is empty and nothing is fetched.                    *)
LEMMA ResetKeeps ==
  ASSUME IInv, NEW in \in Inputs, Reset(in)
  PROVE  IInv'
<1> DEFINE input == [in EXCEPT !.fetch = FALSE]
<1>1. /\ ctrl_fsm_cs = "RESET" /\ ~ExBusy /\ wb_wait = 0 /\ ~instr_valid_id
      /\ ~debug_mode_q /\ ~debug_req_entry_q /\ ~debug_force_wakeup_q
  BY DEF Reset, IInv, Drained, DebugEntryHasReason
<1>2. input \in Inputs /\ ~input.fetch
  BY DEF Inputs
<1>3. StageTypes' /\ ex' \in {Bubble, Killed} /\ wb_wait' = 0 /\ ~instr_valid_id'
  <2>1. TypeOK /\ ~ExBusy /\ wb_wait = 0 /\ ~instr_valid_id
        /\ Stages(input, FALSE, FALSE, Killed, NoTarget) /\ NoTarget \in Addr \cup {NoTarget}
    BY <1>1 DEF Reset, IInv
  <2> HIDE DEF input
  <2> QED BY <1>2, <2>1, EmptyStep
<1>4. csr' \in Registers
  BY <1>1, WriteStep DEF Reset, IInv
<1>5. PICK fetch_enable \in BOOLEAN : Goes(in, IF fetch_enable THEN "BOOT_SET" ELSE "RESET")
  BY DEF Reset
<1>6. illegal_insn_q' \in BOOLEAN /\ debug_req_entry_q' = debug_req_entry_q
      /\ debug_force_wakeup_q' = debug_force_wakeup_q
  BY DEF Reset, Keeps, IInv, TypeOK
<1>7. \E ns \in {"BOOT_SET", "RESET"} : Goes(in, ns)
  BY <1>5
<1>8. TypeOK' /\ ctrl_fsm_cs' \in {"BOOT_SET", "RESET"} /\ ~debug_mode_q'
      /\ (debug_fsm_cs' = "HALTED" <=> debug_mode_q')
  BY <1>1, <1>3, <1>4, <1>6, <1>7, CommonStep DEF Goes, IInv, TypeOK, CtrlStates
<1> QED BY <1>1, <1>3, <1>6, <1>8, QuietStep

(* The boot address; a debugger that waits comes before it.                *)
LEMMA BootSetKeeps ==
  ASSUME IInv, NEW in \in Inputs, BootSet(in)
  PROVE  IInv'
<1>1. /\ ctrl_fsm_cs = "BOOT_SET" /\ ~ExBusy /\ wb_wait = 0 /\ ~instr_valid_id
      /\ ~debug_mode_q /\ ~debug_req_entry_q /\ ~debug_force_wakeup_q
  BY DEF BootSet, IInv, Drained, DebugEntryHasReason
<1>2. StageTypes' /\ ex' \in {Bubble, Killed} /\ wb_wait' = 0 /\ ~instr_valid_id'
  <2>1. TypeOK /\ ~ExBusy /\ wb_wait = 0 /\ ~instr_valid_id
        /\ Stages(in, FALSE, FALSE, Killed, Boot) /\ Boot \in Addr \cup {NoTarget} /\ Boot # NoTarget
    BY <1>1, Addresses DEF BootSet, IInv
  <2> QED BY <2>1, EmptyStep
<1>3. csr' \in Registers
  BY <1>1, WriteStep DEF BootSet, IInv
<1>4. debug_req_pending(in) \in BOOLEAN
  BY DEF debug_req_pending
<1>5. illegal_insn_q' \in BOOLEAN /\ debug_req_entry_q' = debug_req_entry_q
      /\ debug_force_wakeup_q' \in BOOLEAN /\ (debug_force_wakeup_q' <=> debug_req_pending(in))
  BY <1>1, <1>4 DEF BootSet, WakeUp, IInv, TypeOK
<1>6. \E ns \in {"DBG_TAKEN_IF", "FIRST_FETCH"} :
        Goes(in, ns) /\ (ns = "DBG_TAKEN_IF" <=> debug_req_pending(in))
  BY DEF BootSet, WakeUp
<1>7. TypeOK' /\ ctrl_fsm_cs' \in {"DBG_TAKEN_IF", "FIRST_FETCH"} /\ ~debug_mode_q'
      /\ (debug_fsm_cs' = "HALTED" <=> debug_mode_q')
      /\ (ctrl_fsm_cs' = "DBG_TAKEN_IF" <=> debug_req_pending(in))
  BY <1>1, <1>2, <1>3, <1>5, <1>6, CommonStep DEF Goes, IInv, TypeOK, CtrlStates
<1> QED BY <1>1, <1>2, <1>5, <1>7, QuietStep

(* One cycle on the way to sleep, with everything halted.                  *)
LEMMA WaitSleepKeeps ==
  ASSUME IInv, NEW in \in Inputs, WaitSleep(in)
  PROVE  IInv'
<1>1. /\ ctrl_fsm_cs = "WAIT_SLEEP" /\ ~ExBusy /\ wb_wait = 0 /\ ~instr_valid_id
      /\ ~debug_mode_q /\ ~debug_req_entry_q /\ ~debug_force_wakeup_q
  BY DEF WaitSleep, IInv, Drained, DebugEntryHasReason
<1>2. StageTypes' /\ ex' \in {Bubble, Killed} /\ wb_wait' = 0 /\ ~instr_valid_id'
  <2>1. TypeOK /\ Stages(in, TRUE, TRUE, Killed, NoTarget) /\ NoTarget \in Addr \cup {NoTarget}
    BY DEF WaitSleep, IInv
  <2> QED BY <1>1, <2>1, EmptyStep
<1>3. csr' \in Registers /\ illegal_insn_q' \in BOOLEAN /\ ~debug_req_entry_q'
      /\ debug_force_wakeup_q' = debug_force_wakeup_q /\ debug_req_entry_q' = debug_req_entry_q
  BY <1>1, WriteStep DEF WaitSleep, Keeps, IInv, TypeOK
<1>4. TypeOK' /\ ctrl_fsm_cs' = "SLEEP" /\ ~debug_mode_q'
      /\ (debug_fsm_cs' = "HALTED" <=> debug_mode_q')
  BY <1>1, <1>2, <1>3, CommonStep DEF WaitSleep, Goes, IInv, TypeOK, CtrlStates
<1> QED BY <1>1, <1>2, <1>3, <1>4, QuietStep

(* Asleep, or woken: only by the debugger into debug mode.                 *)
LEMMA SleepKeeps ==
  ASSUME IInv, NEW in \in Inputs, Sleep(in)
  PROVE  IInv'
<1>1. /\ ctrl_fsm_cs = "SLEEP" /\ ~ExBusy /\ wb_wait = 0 /\ ~instr_valid_id
      /\ ~debug_mode_q /\ ~debug_req_entry_q /\ ~debug_force_wakeup_q
  BY DEF Sleep, IInv, Drained, DebugEntryHasReason
<1>2. StageTypes' /\ ex' \in {Bubble, Killed} /\ wb_wait' = 0 /\ ~instr_valid_id'
  <2>1. TypeOK /\ Stages(in, TRUE, TRUE, Killed, NoTarget) /\ NoTarget \in Addr \cup {NoTarget}
    BY DEF Sleep, IInv
  <2> QED BY <1>1, <2>1, EmptyStep
<1>3. debug_req_pending(in) \in BOOLEAN
  BY DEF debug_req_pending
<1>4. csr' \in Registers /\ illegal_insn_q' \in BOOLEAN
      /\ debug_req_entry_q' = debug_req_entry_q /\ debug_force_wakeup_q' \in BOOLEAN
  BY <1>1, <1>3, WriteStep DEF Sleep, Keeps, WakeUp, IInv, TypeOK
<1>5. \E ns \in {"DBG_TAKEN_IF", "FIRST_FETCH", "SLEEP"} :
        Goes(in, ns) /\ (debug_force_wakeup_q' <=> ns = "DBG_TAKEN_IF")
  <2>1. CASE wake_from_sleep(in)
    BY <2>1, <1>1, <1>3 DEF Sleep, WakeUp
  <2>2. CASE ~wake_from_sleep(in)
    BY <2>2, <1>1 DEF Sleep, Keeps
  <2> QED BY <2>1, <2>2
<1>6. TypeOK' /\ ctrl_fsm_cs' \in {"DBG_TAKEN_IF", "FIRST_FETCH", "SLEEP"} /\ ~debug_mode_q'
      /\ (debug_fsm_cs' = "HALTED" <=> debug_mode_q')
      /\ (debug_force_wakeup_q' <=> ctrl_fsm_cs' = "DBG_TAKEN_IF")
  BY <1>1, <1>2, <1>4, <1>5, CommonStep DEF Goes, IInv, TypeOK, CtrlStates
<1> QED BY <1>1, <1>2, <1>4, <1>6, QuietStep

(* FIRST_FETCH lets the first instruction through, or takes an interrupt.  *)
LEMMA FirstFetchKeeps ==
  ASSUME IInv, NEW in \in Inputs, FirstFetch(in)
  PROVE  IInv'
<1>1. /\ ctrl_fsm_cs = "FIRST_FETCH" /\ ~ExBusy /\ wb_wait = 0 /\ ~instr_valid_id
      /\ ~debug_mode_q /\ ~debug_req_entry_q /\ ~debug_force_wakeup_q
  BY DEF FirstFetch, IInv, Drained, DebugEntryHasReason
<1>2. /\ in.wb_ready /\ ex_ready(in) /\ id_ready(in)
  BY <1>1, EmptyStage DEF IInv
<1>3. StageTypes' /\ ex' \in {Bubble, Killed} /\ csr' \in Registers
  <2>1. TypeOK /\ IrqVector \in Addr \cup {NoTarget} /\ NoTarget \in Addr \cup {NoTarget}
        /\ pc_if \in Addr /\ "none" \in Causes
    BY Addresses DEF IInv, TypeOK, Causes
  <2>2. CASE Stages(in, TRUE, TRUE, Killed, IrqVector) /\ csr_save(pc_if)
    <3>1. StageTypes' /\ (ex_ready(in) => ex' = Bubble)
      BY <2>1, <2>2, HaltedStep
    <3>2. csr' \in Registers
      BY <2>1, <2>2, RegistersStep DEF csr_save
    <3> QED BY <1>2, <3>1, <3>2
  <2>3. CASE Stages(in, FALSE, FALSE, Killed, NoTarget) /\ csr' = csr_n
    <3>1. StageTypes' /\ (ex_ready(in) => ex' \in {Bubble, Killed})
      BY <2>1, <2>3, OpenStep
    <3>2. csr' \in Registers
      BY <2>1, <2>3, RegistersStep
    <3> QED BY <1>2, <3>1, <3>2
  <2> QED BY <2>2, <2>3 DEF FirstFetch
<1>4. illegal_insn_q' \in BOOLEAN /\ debug_force_wakeup_q' = debug_force_wakeup_q
      /\ debug_req_entry_q' = debug_req_entry_q
  BY DEF FirstFetch, Keeps, IInv, TypeOK
<1>5. TypeOK' /\ ctrl_fsm_cs' = "DECODE" /\ ~debug_mode_q' /\ ~jump_done_q'
      /\ (debug_fsm_cs' = "HALTED" <=> debug_mode_q')
  BY <1>1, <1>2, <1>3, <1>4, CommonStep DEF FirstFetch, Goes, IInv, TypeOK, CtrlStates
<1>6. ex'.reg = "none" /\ JumpDoneIsForId'
  BY <1>3, <1>5, Slots DEF JumpDoneIsForId
<1> QED BY <1>1, <1>4, <1>5, <1>6, DecodeNext DEF StatusAccess

(* In DECODE no entry into debug mode is under way, and a write of mstatus *)
(* or mepc in EX belongs to debug mode.                                    *)
LEMMA InDecode ==
  ASSUME IInv, ctrl_fsm_cs = "DECODE"
  PROVE  /\ TypeOK /\ ~debug_req_entry_q /\ ~debug_force_wakeup_q
         /\ StatusAccess(ex) => debug_mode_q
         /\ ex.reg \in {"dcsr", "dpc"} => debug_mode_q
BY DEF IInv, DebugEntryHasReason, StatusWriteAlone

(* A taken branch empties ID and leaves EX.                                *)
LEMMA TakeBranchKeeps ==
  ASSUME IInv, NEW in \in Inputs, TakeBranch(in)
  PROVE  IInv'
<1>1. ctrl_fsm_cs = "DECODE" /\ branch_taken_ex /\ TypeOK
  BY DEF TakeBranch, IInv
<1>2. ex.addr \in Addr /\ ex.addr # NoTarget
  BY <1>1, Addresses DEF TypeOK
<1>3. /\ StageTypes' /\ ~instr_valid_id' /\ (ex_ready(in) => ex' \in {Bubble, Killed})
  <2>1. Stages(in, FALSE, FALSE, Killed, ex.addr) /\ ex.addr \in Addr \cup {NoTarget}
    BY <1>2 DEF TakeBranch
  <2>2. /\ StageTypes' /\ (ex_ready(in) => ex' \in {Bubble, Killed})
        /\ ex.addr # NoTarget \/ ~id_ready(in) \/ ~in.fetch
              => (instr_valid_id' => instr_valid_id /\ ~id_ready(in) /\ ~branch_taken_ex)
    BY <1>1, <2>1, OpenStep
  <2> QED BY <1>1, <1>2, <2>2
<1>4. ex'.reg = "none" /\ JumpDoneIsForId'
  BY <1>1, <1>3, Slots DEF JumpDoneIsForId, ex_ready, branch_taken_ex
<1>5. csr' \in Registers /\ illegal_insn_q' \in BOOLEAN
      /\ debug_force_wakeup_q' = debug_force_wakeup_q /\ debug_req_entry_q' = debug_req_entry_q
  BY <1>1, WriteStep DEF TakeBranch, Keeps, TypeOK
<1>6. TypeOK' /\ ctrl_fsm_cs' = "DECODE" /\ (debug_fsm_cs' = "HALTED" <=> debug_mode_q')
  BY <1>1, <1>3, <1>5, CommonStep DEF TakeBranch, Goes, TypeOK, CtrlStates
<1> QED BY <1>1, <1>4, <1>5, <1>6, InDecode, DecodeNext DEF StatusAccess

(* Nothing in ID: EX and WB go on.                                         *)
LEMMA NothingToDecodeKeeps ==
  ASSUME IInv, NEW in \in Inputs, NothingToDecode(in)
  PROVE  IInv'
<1>1. ctrl_fsm_cs = "DECODE" /\ ~instr_valid_id /\ TypeOK
  BY DEF NothingToDecode, IInv
<1>2. /\ StageTypes' /\ ex' \in {Bubble, Killed, ex}
      /\ ~id_ready(in) => (instr_valid_id' => instr_valid_id)
  <2>1. Stages(in, FALSE, FALSE, Killed, NoTarget) /\ NoTarget \in Addr \cup {NoTarget}
    BY DEF NothingToDecode
  <2> QED BY <1>1, <2>1, OpenStep
<1>3. csr' \in Registers /\ illegal_insn_q' \in BOOLEAN
      /\ debug_force_wakeup_q' = debug_force_wakeup_q /\ debug_req_entry_q' = debug_req_entry_q
  BY <1>1, WriteStep DEF NothingToDecode, Keeps, TypeOK
<1>4. TypeOK' /\ ctrl_fsm_cs' = "DECODE" /\ (debug_fsm_cs' = "HALTED" <=> debug_mode_q')
      /\ (debug_mode_q' <=> debug_mode_q) /\ (jump_done_q' => ~id_ready(in))
  BY <1>1, <1>2, <1>3, CommonStep DEF NothingToDecode, Goes, TypeOK, CtrlStates
<1>5. JumpDoneIsForId'
  BY <1>1, <1>2, <1>4 DEF JumpDoneIsForId
<1>6. ex'.reg \in {ex.reg, "none"}
  BY <1>2, Slots
<1> QED BY <1>1, <1>3, <1>4, <1>5, <1>6, InDecode, DecodeNext DEF StatusAccess

(* A debug request or a trigger: ID is dropped and EX drains.              *)
LEMMA ServeDebugKeeps ==
  ASSUME IInv, NEW in \in Inputs, ServeDebug(in)
  PROVE  IInv'
<1>1. ctrl_fsm_cs = "DECODE" /\ ~debug_mode_q /\ ~branch_taken_ex /\ TypeOK
  BY DEF ServeDebug, Decoding, serve_debug, IInv
<1>2. /\ StageTypes' /\ ex' \in {Bubble, ex} /\ (ex_ready(in) => ex' = Bubble) /\ ~instr_valid_id'
  <2>1. Stages(in, TRUE, TRUE, Killed, NoTarget) /\ NoTarget \in Addr \cup {NoTarget}
    BY DEF ServeDebug
  <2> QED BY <1>1, <2>1, HaltedStep
<1>3. csr' \in Registers /\ illegal_insn_q' \in BOOLEAN
      /\ debug_force_wakeup_q' = debug_force_wakeup_q /\ debug_req_entry_q'
      /\ debug_req_entry_q' \in BOOLEAN
  BY <1>1, WriteStep DEF ServeDebug, TypeOK
<1>4. TypeOK' /\ ctrl_fsm_cs' = "DBG_FLUSH" /\ (debug_fsm_cs' = "HALTED" <=> debug_mode_q')
      /\ ~debug_mode_q'
  BY <1>1, <1>2, <1>3, CommonStep DEF ServeDebug, Goes, TypeOK, CtrlStates
<1>5. ex'.reg \in {ex.reg, "none"} /\ ex'.kind \notin {"branch", "not_taken"}
  BY <1>1, <1>2, Slots, BranchLeaves
<1>6. JumpDoneIsForId' /\ Drained' /\ StatusWriteAlone' /\ BranchIsSeen' /\ FlushKnowsWhy'
  BY <1>1, <1>2, <1>4, <1>5, InDecode
     DEF JumpDoneIsForId, Drained, StatusWriteAlone, StatusAccess, BranchIsSeen, FlushKnowsWhy
<1>7. DebugEntryHasReason'
  BY <1>1, <1>3, <1>4, InDecode DEF DebugEntryHasReason, enters_at_id
<1> QED BY <1>4, <1>6, <1>7 DEF IInv

(* An interrupt drops ID; no write of mstatus or mepc is in EX.            *)
LEMMA TakeIrqKeeps ==
  ASSUME IInv, NEW in \in Inputs, TakeIrq(in)
  PROVE  IInv'
<1>1. ctrl_fsm_cs = "DECODE" /\ ~debug_mode_q /\ TypeOK
  BY DEF TakeIrq, Decoding, IInv
<1>2. StageTypes' /\ ex' \in {Bubble, ex} /\ ~instr_valid_id'
  <2>1. Stages(in, TRUE, TRUE, Killed, IrqVector) /\ IrqVector \in Addr \cup {NoTarget}
    BY Addresses DEF TakeIrq
  <2> QED BY <1>1, <2>1, HaltedStep
<1>3. csr' \in Registers
  <2>1. csr' = SaveTrap(csr_n, csr, pc_id) /\ pc_id \in Addr /\ "none" \in Causes
    BY <1>1 DEF TakeIrq, csr_save, TypeOK, Causes
  <2> QED BY <1>1, <2>1, RegistersStep
<1>4. illegal_insn_q' \in BOOLEAN
      /\ debug_force_wakeup_q' = debug_force_wakeup_q /\ debug_req_entry_q' = debug_req_entry_q
  BY <1>1 DEF TakeIrq, TypeOK
<1>5. TypeOK' /\ ctrl_fsm_cs' = "DECODE" /\ (debug_fsm_cs' = "HALTED" <=> debug_mode_q')
      /\ (debug_mode_q' <=> debug_mode_q)
  BY <1>1, <1>2, <1>3, <1>4, CommonStep DEF TakeIrq, Goes, TypeOK, CtrlStates
<1>6. ex'.reg \in {ex.reg, "none"} /\ JumpDoneIsForId'
  BY <1>2, Slots DEF JumpDoneIsForId
<1> QED BY <1>1, <1>4, <1>5, <1>6, InDecode, DecodeNext DEF StatusAccess

(* The pipeline while an instruction is decoded.                           *)
LEMMA DecodeStages ==
  ASSUME IInv, NEW in \in Inputs, Decode(in)
  PROVE  /\ StageTypes'
         /\ ~id_ready(in) => ex' \in {Bubble, ex}
         /\ id_ready(in) => ex' = issue
         /\ ex_ready(in) => ex' \in {issue, Bubble}
         /\ jumps(in) => pc_if' = instr_id.addr
         /\ ~id_ready(in) \/ stepping \/ ebreak_to_debug \/ flushes(in) \/ jumps(in)
              => /\ instr_id' = instr_id /\ pc_id' = pc_id
                 /\ ~jumps(in) => pc_if' = pc_if
                 /\ instr_valid_id' => ~id_ready(in)
<1> DEFINE hold   == stepping \/ ebreak_to_debug \/ flushes(in)
           target == IF jumps(in) THEN instr_id.addr ELSE NoTarget
<1>1. PICK h \in BOOLEAN : ~h
  OBVIOUS
<1>2. TypeOK /\ Stages(in, hold, h, issue, target)
  <2>1. h = FALSE
    BY <1>1
  <2> QED BY <2>1 DEF Decode, IInv
<1>3. hold \in BOOLEAN
  BY DEF stepping, flushes
<1>4. target \in Addr \cup {NoTarget} /\ issue \in Slot
      /\ (jumps(in) => target # NoTarget /\ target = instr_id.addr)
      /\ (~jumps(in) => target = NoTarget)
  BY <1>2, Addresses, Slots DEF TypeOK, issue
<1> HIDE DEF hold, target
<1>5. /\ instr_valid_id' \in BOOLEAN /\ minstret' \in BOOLEAN
      /\ pc_if' \in Addr /\ pc_id' \in Addr
      /\ instr_id' \in Slot /\ ex' \in Slot /\ wb_wait' \in 0..MaxLatency
      /\ h \/ ~id_ready(in) => ex' \in {Bubble, ex}
      /\ ~h /\ id_ready(in) => ex' = issue
      /\ ex_ready(in) => ex' \in {issue, Bubble}
      /\ hold \/ ~id_ready(in) \/ target # NoTarget \/ ~in.fetch
           => /\ instr_id' = instr_id /\ pc_id' = pc_id
              /\ pc_if' = IF target # NoTarget THEN target ELSE pc_if
              /\ instr_valid_id' => instr_valid_id /\ ~id_ready(in) /\ ~h /\ ~branch_taken_ex
  BY <1>2, <1>3, <1>4, StagesStep
<1>6. StageTypes'
  BY <1>5 DEF StageTypes
<1>7. /\ ~id_ready(in) => ex' \in {Bubble, ex}
      /\ id_ready(in) => ex' = issue
      /\ ex_ready(in) => ex' \in {issue, Bubble}
  BY <1>1, <1>5
<1>8. hold \/ ~id_ready(in) \/ jumps(in)
           => /\ instr_id' = instr_id /\ pc_id' = pc_id
              /\ pc_if' = IF target # NoTarget THEN target ELSE pc_if
              /\ instr_valid_id' => ~id_ready(in)
  BY <1>4, <1>5
<1> QED BY <1>4, <1>6, <1>7, <1>8 DEF hold

(* What the decoder makes of the instructions that steer the pipeline.     *)
LEMMA Decoded ==
  ASSUME TypeOK
  PROVE  /\ instr_id.kind \in {"branch", "not_taken", "op", "mem", "jump"}
              => /\ ~illegal_insn /\ instr_id.reg = "none" /\ ~Traps(instr_id, debug_mode_q)
         /\ issue \in {Killed, instr_id}
         /\ instr_id.reg \in {"dcsr", "dpc"} /\ issue # Killed => debug_mode_q
         /\ illegal_insn \/ is("ecall") \/ is("ebreak") => issue = Killed
         /\ StatusAccess(instr_id) => instr_id.kind = "csr"
<1>1. instr_id \in Slot /\ (instr_id.kind = "csr" <=> instr_id.reg # "none")
  BY Slots DEF TypeOK
<1>2. instr_id.kind \in {"branch", "not_taken", "op", "mem", "jump"}
              => /\ ~illegal_insn /\ instr_id.reg = "none" /\ ~Traps(instr_id, debug_mode_q)
  BY <1>1 DEF illegal_insn, Legal, Traps
<1>3. /\ issue \in {Killed, instr_id}
      /\ instr_id.reg \in {"dcsr", "dpc"} /\ issue # Killed => debug_mode_q
      /\ illegal_insn \/ is("ecall") \/ is("ebreak") => issue = Killed
  BY DEF issue, Traps, Legal, illegal_insn, is
<1>4. StatusAccess(instr_id) => instr_id.kind = "csr"
  BY <1>1 DEF StatusAccess
<1> QED BY <1>2, <1>3, <1>4

(* Where DECODE goes, and why.                                             *)
LEMMA AfterDecode ==
  ASSUME TypeOK, NEW in \in Inputs, NEW ns, ns = after_decode(in)
  PROVE  \/ /\ ns = "DECODE"
            /\ ~ebreak_to_debug /\ (id_ready(in) => ~stepping /\ ~flushes(in))
         \/ /\ ns = "DBG_WAIT_BRANCH" /\ stepping /\ id_ready(in)
            /\ instr_id.kind \in {"branch", "not_taken"}
         \/ /\ ns = "DBG_FLUSH" /\ id_ready(in) /\ stepping
            /\ instr_id.kind \notin {"branch", "not_taken"}
         \/ ns = "DBG_FLUSH" /\ ebreak_to_debug
         \/ /\ ns = "FLUSH_EX" /\ id_ready(in) /\ (stepping \/ flushes(in)) /\ ~ebreak_to_debug
            /\ (is("wfi") => ~debug_mode_q)
            /\ issue.kind \notin {"op", "mem", "jump", "branch", "not_taken"}
<1>1. CASE stepping /\ id_ready(in)
  <2>1. ns = after_step
    BY <1>1 DEF after_decode
  <2>2. CASE illegal_insn \/ is("ecall") \/ is("mret") \/ (is("ebreak") /\ ~ebrk_force)
    <3>1. ns = "FLUSH_EX"
      BY <2>1, <2>2 DEF after_step
    <3>2. ~ebreak_to_debug /\ ~is("wfi")
      BY <1>1, <2>2 DEF is, ebreak_to_debug, stepping
    <3>3. issue.kind \notin {"op", "mem", "jump", "branch", "not_taken"}
      BY <2>2, Decoded, Slots DEF is
    <3> QED BY <1>1, <3>1, <3>2, <3>3
  <2>3. CASE /\ ~(illegal_insn \/ is("ecall") \/ is("mret") \/ (is("ebreak") /\ ~ebrk_force))
             /\ instr_id.kind \in {"branch", "not_taken"}
    BY <1>1, <2>1, <2>3 DEF after_step
  <2>4. CASE /\ ~(illegal_insn \/ is("ecall") \/ is("mret") \/ (is("ebreak") /\ ~ebrk_force))
             /\ instr_id.kind \notin {"branch", "not_taken"}
    BY <1>1, <2>1, <2>4 DEF after_step
  <2> QED BY <2>2, <2>3, <2>4
<1>2. CASE ~(stepping /\ id_ready(in)) /\ ebreak_to_debug
  BY <1>2 DEF after_decode
<1>3. CASE ~(stepping /\ id_ready(in)) /\ ~ebreak_to_debug /\ flushes(in) /\ id_ready(in)
  <2>1. ns = "FLUSH_EX"
    BY <1>3 DEF after_decode
  <2>2. is("wfi") => ~debug_mode_q
    BY <1>3, Decoded DEF flushes, wfi_active, is, StatusAccess
  <2>3. issue.kind \notin {"op", "mem", "jump", "branch", "not_taken"}
    BY <1>3, Decoded, Slots DEF flushes, wfi_active, is
  <2> QED BY <1>3, <2>1, <2>2, <2>3
<1>4. CASE ~(stepping /\ id_ready(in)) /\ ~ebreak_to_debug /\ ~(flushes(in) /\ id_ready(in))
  BY <1>4 DEF after_decode
<1> QED BY <1>1, <1>2, <1>3, <1>4

(* While ID and the mode stay, the decoder says the same.                  *)
LEMMA DecoderKept ==
  ASSUME IInv, TypeOK', NEW a \in Addr, NEW why \in Causes,
         \/ csr' = csr_n \/ csr' = SaveTrap(csr_n, csr, a)
         \/ csr' = SaveDebug(csr_n, a, why) \/ csr' = RestoreMret(csr_n, csr),
         instr_id' = instr_id, pc_id' = pc_id, debug_mode_q' <=> debug_mode_q
  PROVE  /\ illegal_insn' <=> illegal_insn
         /\ is("ebreak")' <=> is("ebreak")
         /\ is("wfi")' <=> is("wfi")
         /\ is("mret")' <=> is("mret")
         /\ is("dret")' <=> is("dret")
         /\ ~debug_mode_q => /\ single_step' <=> single_step
                             /\ ebrk_force' <=> ebrk_force
                             /\ trigger' <=> trigger
         /\ ebreak_to_debug' <=> ebreak_to_debug
<1>1. TypeOK /\ (ex.reg \in {"dcsr", "dpc"} => debug_mode_q)
  BY DEF IInv, StatusWriteAlone
<1>2. ~debug_mode_q => /\ single_step' <=> single_step
                       /\ ebrk_force' <=> ebrk_force
                       /\ trigger' <=> trigger
  BY <1>1, RegistersStep
<1>3. debug_mode_q' = debug_mode_q
  BY <1>1 DEF TypeOK
<1>4. illegal_insn' <=> illegal_insn
  BY <1>3 DEF illegal_insn
<1>5. /\ is("ebreak")' <=> is("ebreak")
      /\ is("wfi")' <=> is("wfi")
      /\ is("mret")' <=> is("mret")
      /\ is("dret")' <=> is("dret")
  BY <1>4 DEF is
<1>6. ebreak_to_debug' <=> ebreak_to_debug
  BY <1>2, <1>3, <1>5 DEF ebreak_to_debug
<1> QED BY <1>2, <1>4, <1>5, <1>6

(* DECODE, by the state it goes to.                                        *)
LEMMA DecodeKeeps ==
  ASSUME IInv, NEW in \in Inputs, Decode(in)
  PROVE  IInv'
<1>1. /\ ctrl_fsm_cs = "DECODE" /\ ~branch_taken_ex /\ instr_valid_id /\ TypeOK
      /\ ~debug_req_entry_q /\ ~debug_force_wakeup_q
      /\ StatusAccess(ex) => debug_mode_q
      /\ ex.reg \in {"dcsr", "dpc"} => debug_mode_q
  BY InDecode DEF Decode, Decoding
<1>2. PICK ns \in CtrlStates : ns = after_decode(in)
  <2>1. after_decode(in) \in CtrlStates
    BY AfterDecode, <1>1 DEF CtrlStates
  <2> QED BY <2>1
<1>3. TypeOK' /\ ctrl_fsm_cs' = ns /\ (debug_mode_q' <=> debug_mode_q)
      /\ (debug_fsm_cs' = "HALTED" <=> debug_mode_q')
      /\ (jump_done_q' => (jumps(in) \/ jump_done_q) /\ ~id_ready(in))
      /\ (illegal_insn_q' <=> illegal_insn)
      /\ ~debug_req_entry_q' /\ ~debug_force_wakeup_q'
  <2>1. StageTypes' /\ csr' \in Registers
    BY <1>1, DecodeStages, WriteStep DEF Decode
  <2>2. NextState(in, ns, debug_mode_q) /\ JumpDone(in, jumps(in) \/ jump_done_q)
    BY <1>2 DEF Decode
  <2>3. (jumps(in) \/ jump_done_q) \in BOOLEAN /\ debug_mode_q \in BOOLEAN
    BY <1>1 DEF TypeOK, jumps
  <2>4. illegal_insn_q' = illegal_insn /\ illegal_insn \in BOOLEAN
        /\ debug_req_entry_q' = debug_req_entry_q /\ debug_force_wakeup_q' = debug_force_wakeup_q
    BY DEF Decode, illegal_insn
  <2>5. debug_req_entry_q' \in BOOLEAN /\ debug_force_wakeup_q' \in BOOLEAN
    BY <1>1, <2>4 DEF TypeOK
  <2>6. TypeOK' /\ ctrl_fsm_cs' = ns /\ (debug_mode_q' <=> debug_mode_q)
        /\ (debug_fsm_cs' = "HALTED" <=> debug_mode_q')
        /\ (jump_done_q' => (jumps(in) \/ jump_done_q) /\ ~id_ready(in))
    BY <2>1, <2>2, <2>3, <2>4, <2>5, CommonStep
  <2> QED BY <1>1, <2>4, <2>6
<1>4. JumpDoneIsForId'
  <2>1. SUFFICES ASSUME jump_done_q', instr_valid_id'
                 PROVE  instr_id'.kind = "jump" /\ pc_if' = instr_id'.addr
    BY DEF JumpDoneIsForId
  <2>2. (jumps(in) \/ jump_done_q) /\ instr_id' = instr_id /\ (~jumps(in) => pc_if' = pc_if)
    BY <1>3, <2>1, DecodeStages
  <2>3. CASE jumps(in)
    BY <2>2, <2>3, DecodeStages DEF jumps, is
  <2>4. CASE ~jumps(in)
    BY <1>1, <2>2, <2>4 DEF IInv, JumpDoneIsForId
  <2> QED BY <2>3, <2>4
<1>5. ex' \in {Bubble, ex, issue} /\ (id_ready(in) => ex' = issue)
      /\ (~id_ready(in) => ex' \in {Bubble, ex})
  BY DecodeStages
<1>6. instr_id.reg \in {"dcsr", "dpc"} => StatusAccess(instr_id)
  BY DEF StatusAccess
<1>7. ex'.reg \in {"dcsr", "dpc"} => debug_mode_q'
  BY <1>1, <1>3, <1>5, Decoded, Slots
<1>8. CASE ns = "DECODE"
  <2>1. StatusAccess(ex)' => debug_mode_q'
    <3>1. CASE id_ready(in)
      <4>1. ~flushes(in)
        BY <1>2, <1>8, <3>1, <1>1, AfterDecode
      <4>2. ~StatusAccess(instr_id)
        BY <4>1 DEF flushes
      <4> QED BY <1>5, <3>1, <4>2, Decoded, <1>1, Slots DEF StatusAccess
    <3>2. CASE ~id_ready(in)
      BY <1>1, <1>3, <1>5, <3>2, Slots DEF StatusAccess
    <3> QED BY <3>1, <3>2
  <2> QED BY <1>3, <1>4, <1>7, <1>8, <2>1, DecodeNext
<1>9. CASE ns # "DECODE"
  <2>1. /\ instr_id' = instr_id /\ pc_id' = pc_id
        /\ instr_valid_id' => ~id_ready(in)
    BY <1>1, <1>2, <1>9, AfterDecode, DecodeStages
  <2>2. csr' = csr_n /\ 0 \in Addr /\ "none" \in Causes
    BY AddressAssumption DEF Decode, Addr, Causes
  <2>3. /\ illegal_insn' <=> illegal_insn
        /\ is("ebreak")' <=> is("ebreak")
        /\ is("wfi")' <=> is("wfi")
        /\ ~debug_mode_q => /\ single_step' <=> single_step
                            /\ ebrk_force' <=> ebrk_force
        /\ ebreak_to_debug' <=> ebreak_to_debug
    BY <1>3, <2>1, <2>2, DecoderKept
  <2>4. ex.kind \in {"branch", "not_taken"} => ex' \in {Bubble, issue}
    BY DecodeStages DEF ex_ready
  <2>5. CASE ns = "DBG_WAIT_BRANCH"
    <3>1. stepping /\ id_ready(in) /\ instr_id.kind \in {"branch", "not_taken"}
      BY <1>1, <1>2, <2>5, AfterDecode
    <3>2. stepping' /\ ~debug_mode_q'
      BY <1>3, <2>3, <3>1 DEF stepping
    <3>3. ex'.reg = "none" /\ ~instr_valid_id'
      BY <1>1, <1>5, <2>1, <3>1, Decoded, Slots
    <3>4. Drained' /\ StatusWriteAlone' /\ BranchIsSeen' /\ FlushKnowsWhy'
      BY <1>3, <2>5, <3>3 DEF Drained, StatusWriteAlone, StatusAccess, BranchIsSeen, FlushKnowsWhy
    <3>5. DebugEntryHasReason'
      BY <1>3, <2>5, <3>2, <3>3 DEF DebugEntryHasReason
    <3> QED BY <1>3, <1>4, <3>4, <3>5 DEF IInv
  <2>6. CASE ns = "DBG_FLUSH"
    <3>1. \/ id_ready(in) /\ stepping /\ instr_id.kind \notin {"branch", "not_taken"}
          \/ ebreak_to_debug
      BY <1>1, <1>2, <2>6, AfterDecode
    <3>2. issue.kind \notin {"branch", "not_taken"}
      BY <1>1, <3>1, Decoded, Slots DEF ebreak_to_debug, is
    <3>3. ex'.kind \notin {"branch", "not_taken"}
      BY <1>5, <2>4, <3>2, Slots
    <3>4. Drained' /\ StatusWriteAlone' /\ BranchIsSeen' /\ FlushKnowsWhy'
      BY <1>3, <1>7, <2>6, <3>3 DEF Drained, StatusWriteAlone, BranchIsSeen, FlushKnowsWhy
    <3>5. IF debug_mode_q' THEN is("ebreak")' ELSE enters_at_id' \/ single_step'
      BY <1>3, <2>3, <3>1 DEF stepping, ebreak_to_debug, enters_at_id
    <3>6. DebugEntryHasReason'
      BY <1>3, <2>6, <3>5 DEF DebugEntryHasReason
    <3> QED BY <1>3, <1>4, <3>4, <3>6 DEF IInv
  <2>7. CASE ns = "FLUSH_EX"
    <3>1. /\ id_ready(in) /\ ~ebreak_to_debug /\ (is("wfi") => ~debug_mode_q)
          /\ issue.kind \notin {"op", "mem", "jump", "branch", "not_taken"}
      BY <1>1, <1>2, <2>7, AfterDecode
    <3>2. ex' \in {Killed, instr_id} /\ ex'.kind \notin {"op", "mem", "jump", "branch", "not_taken"}
      BY <1>1, <1>5, <3>1, Decoded
    <3>3. Drained' /\ StatusWriteAlone' /\ BranchIsSeen'
      BY <1>3, <1>7, <2>7, <3>2 DEF Drained, StatusWriteAlone, BranchIsSeen
    <3>4. FlushKnowsWhy'
      BY <1>3, <2>1, <2>3, <2>7, <3>1, <3>2 DEF FlushKnowsWhy
    <3>5. DebugEntryHasReason'
      BY <1>3, <2>7 DEF DebugEntryHasReason
    <3> QED BY <1>3, <1>4, <3>3, <3>4, <3>5 DEF IInv
  <2> QED BY <1>1, <1>2, <1>9, <2>5, <2>6, <2>7, AfterDecode
<1> QED BY <1>8, <1>9

(* FLUSH_EX goes on until EX and WB are empty.                             *)
LEMMA FlushExKeeps ==
  ASSUME IInv, NEW in \in Inputs, FlushEx(in)
  PROVE  IInv'
<1>1. /\ ctrl_fsm_cs = "FLUSH_EX" /\ TypeOK /\ ~instr_valid_id
      /\ ~debug_req_entry_q /\ ~debug_force_wakeup_q
      /\ illegal_insn_q <=> illegal_insn
      /\ ~ebreak_to_debug /\ (is("wfi") => ~debug_mode_q)
      /\ ex \in {Bubble, Killed, instr_id} /\ ex.kind \notin {"op", "mem", "jump"}
      /\ ex.reg \in {"dcsr", "dpc"} => debug_mode_q
  BY DEF FlushEx, IInv, FlushKnowsWhy, DebugEntryHasReason, StatusWriteAlone
<1>2. /\ StageTypes' /\ ex' \in {Bubble, ex} /\ (ex_ready(in) => ex' = Bubble)
      /\ instr_id' = instr_id /\ pc_id' = pc_id /\ ~instr_valid_id'
      /\ in.wb_ready => wb_wait' = 0
  <2>1. Stages(in, TRUE, TRUE, Killed, NoTarget) /\ NoTarget \in Addr \cup {NoTarget}
    BY DEF FlushEx
  <2> QED BY <1>1, <2>1, HaltedStep
<1>3. /\ csr' = csr_n \/ csr' = SaveTrap(csr_n, csr, pc_id)
      /\ pc_id \in Addr /\ "none" \in Causes
  BY <1>1 DEF FlushEx, csr_save, TypeOK, Causes
<1>4. csr' \in Registers
  BY <1>1, <1>3, RegistersStep
<1>5. illegal_insn_q' = illegal_insn_q /\ illegal_insn_q' \in BOOLEAN
      /\ debug_force_wakeup_q' = debug_force_wakeup_q /\ debug_req_entry_q' = debug_req_entry_q
  BY <1>1 DEF FlushEx, Keeps, TypeOK
<1>6. \E ns \in CtrlStates : /\ ns = IF ex_valid(in) THEN "FLUSH_WB" ELSE "FLUSH_EX"
                             /\ Goes(in, ns)
  BY DEF FlushEx, CtrlStates
<1>7. /\ TypeOK' /\ (debug_mode_q' <=> debug_mode_q)
      /\ ctrl_fsm_cs' = IF ex_valid(in) THEN "FLUSH_WB" ELSE "FLUSH_EX"
      /\ debug_fsm_cs' = "HALTED" <=> debug_mode_q'
  BY <1>1, <1>2, <1>4, <1>5, <1>6, CommonStep DEF Goes, TypeOK
<1>8. /\ illegal_insn' <=> illegal_insn
      /\ is("wfi")' <=> is("wfi")
      /\ ebreak_to_debug' <=> ebreak_to_debug
  BY <1>2, <1>3, <1>7, DecoderKept
<1>9. ex' \in {Bubble, Killed, instr_id'} /\ ex'.kind \notin {"op", "mem", "jump", "branch", "not_taken"}
  <2>1. ex.kind \notin {"branch", "not_taken"}
    BY <1>1 DEF IInv, BranchIsSeen
  <2> QED BY <1>1, <1>2, <2>1, Slots
<1>10. ex_valid(in) => ex' = Bubble /\ wb_wait' = 0
  BY <1>1, <1>2, InputTypes DEF ex_valid, ex_ready
<1>11. JumpDoneIsForId' /\ StatusWriteAlone' /\ BranchIsSeen'
  <2>1. ex'.reg \in {"dcsr", "dpc"} => debug_mode_q'
    BY <1>1, <1>2, <1>7, Slots
  <2>2. ctrl_fsm_cs' # "FLUSH_EX" => ex'.reg = "none"
    BY <1>7, <1>10, Slots
  <2> QED BY <1>2, <1>9, <2>1, <2>2
          DEF JumpDoneIsForId, StatusWriteAlone, StatusAccess, BranchIsSeen
<1>12. Drained'
  BY <1>2, <1>7, <1>10, Slots DEF Drained, ExBusy
<1>13. FlushKnowsWhy'
  BY <1>1, <1>2, <1>5, <1>7, <1>8, <1>9 DEF FlushKnowsWhy
<1>14. DebugEntryHasReason'
  BY <1>1, <1>5, <1>7 DEF DebugEntryHasReason
<1> QED BY <1>7, <1>11, <1>12, <1>13, <1>14 DEF IInv

(* In FLUSH_WB the pipeline is empty.                                      *)
LEMMA InFlushWb ==
  ASSUME IInv, ctrl_fsm_cs = "FLUSH_WB"
  PROVE  /\ TypeOK /\ ~ExBusy /\ wb_wait = 0 /\ ~instr_valid_id
         /\ ~debug_req_entry_q /\ ~debug_force_wakeup_q
         /\ illegal_insn_q <=> illegal_insn
         /\ is("wfi") => ~debug_mode_q
         /\ NoTarget \in Addr \cup {NoTarget} /\ "none" \in Causes
BY DEF IInv, Drained, FlushKnowsWhy, DebugEntryHasReason, Causes

(* An exception is carried out.                                            *)
LEMMA FlushWbTrapKeeps ==
  ASSUME IInv, NEW in \in Inputs, FlushWbTrap(in)
  PROVE  IInv'
<1>1. ctrl_fsm_cs = "FLUSH_WB"
  BY DEF FlushWbTrap
<1>2. /\ StageTypes' /\ ex' \in {Bubble, Killed} /\ wb_wait' = 0 /\ ~instr_valid_id'
      /\ instr_id' = instr_id /\ pc_id' = pc_id
  <2>1. \E target \in Addr \cup {NoTarget} : Stages(in, TRUE, TRUE, Killed, target)
    BY Addresses DEF FlushWbTrap
  <2> QED BY <1>1, <2>1, InFlushWb, EmptyStep
<1>3. csr' = csr_n /\ csr' \in Registers /\ pc_id \in Addr
  BY <1>1, InFlushWb, WriteStep DEF FlushWbTrap, TypeOK
<1>4. illegal_insn_q' \in BOOLEAN /\ debug_force_wakeup_q' = debug_force_wakeup_q
      /\ debug_req_entry_q' = debug_req_entry_q
  BY DEF FlushWbTrap
<1>5. \E ns \in CtrlStates : ns = (IF stepping THEN "DBG_TAKEN_IF" ELSE "DECODE") /\ Goes(in, ns)
  BY DEF FlushWbTrap, CtrlStates
<1>6. /\ TypeOK' /\ (debug_mode_q' <=> debug_mode_q)
      /\ ctrl_fsm_cs' = IF stepping THEN "DBG_TAKEN_IF" ELSE "DECODE"
      /\ debug_fsm_cs' = "HALTED" <=> debug_mode_q'
  BY <1>1, <1>2, <1>3, <1>4, <1>5, InFlushWb, CommonStep DEF Goes, TypeOK
<1>7. ctrl_fsm_cs' = "DBG_TAKEN_IF" => single_step' /\ ~debug_mode_q'
  BY <1>1, <1>2, <1>3, <1>6, InFlushWb, DecoderKept DEF stepping
<1> QED BY <1>1, <1>2, <1>4, <1>6, <1>7, InFlushWb, QuietStep

(* A return restores the registers; its jump comes next.                   *)
LEMMA FlushWbReturnKeeps ==
  ASSUME IInv, NEW in \in Inputs, FlushWbReturn(in)
  PROVE  IInv'
<1>1. ctrl_fsm_cs = "FLUSH_WB" /\ (is("mret") \/ is("dret"))
  BY DEF FlushWbReturn
<1>2. /\ StageTypes' /\ ex' \in {Bubble, Killed} /\ wb_wait' = 0 /\ ~instr_valid_id'
      /\ instr_id' = instr_id /\ pc_id' = pc_id
  <2>1. Stages(in, TRUE, TRUE, Killed, NoTarget)
    BY DEF FlushWbReturn
  <2> QED BY <1>1, <2>1, InFlushWb, EmptyStep
<1>3. (csr' = csr_n \/ csr' = RestoreMret(csr_n, csr)) /\ pc_id \in Addr
  BY <1>1, InFlushWb DEF FlushWbReturn, TypeOK
<1>4. csr' \in Registers
  BY <1>1, <1>3, InFlushWb, RegistersStep
<1>5. illegal_insn_q' \in BOOLEAN /\ debug_force_wakeup_q' = debug_force_wakeup_q
      /\ debug_req_entry_q' = debug_req_entry_q
  BY <1>1, InFlushWb DEF FlushWbReturn, Keeps, TypeOK
<1>6. TypeOK' /\ (debug_mode_q' <=> debug_mode_q) /\ ctrl_fsm_cs' = "XRET_JUMP"
      /\ (debug_fsm_cs' = "HALTED" <=> debug_mode_q')
  <2>1. \E ns \in CtrlStates : ns = "XRET_JUMP" /\ Goes(in, ns)
    BY DEF FlushWbReturn, CtrlStates
  <2> QED BY <1>1, <1>2, <1>4, <1>5, <2>1, InFlushWb, CommonStep DEF Goes, TypeOK
<1>7. is("mret")' \/ is("dret")'
  BY <1>1, <1>2, <1>3, <1>6, InFlushWb, DecoderKept
<1>8. ex'.kind \in {"bubble", "killed"} /\ ex'.reg = "none"
  BY <1>2, Slots
<1>9. JumpDoneIsForId' /\ Drained' /\ StatusWriteAlone' /\ BranchIsSeen'
  BY <1>2, <1>8 DEF JumpDoneIsForId, Drained, ExBusy, StatusWriteAlone, StatusAccess, BranchIsSeen
<1>10. FlushKnowsWhy' /\ DebugEntryHasReason'
  BY <1>1, <1>5, <1>6, <1>7, InFlushWb DEF FlushKnowsWhy, DebugEntryHasReason
<1> QED BY <1>6, <1>9, <1>10 DEF IInv

(* A wfi, on the way to sleep or to the debugger.                          *)
LEMMA FlushWbSleepKeeps ==
  ASSUME IInv, NEW in \in Inputs, FlushWbSleep(in)
  PROVE  IInv'
<1>1. ctrl_fsm_cs = "FLUSH_WB" /\ ~debug_mode_q
  BY InFlushWb DEF FlushWbSleep
<1>2. StageTypes' /\ ex' \in {Bubble, Killed} /\ wb_wait' = 0 /\ ~instr_valid_id'
  <2>1. Stages(in, TRUE, TRUE, Killed, NoTarget)
    BY DEF FlushWbSleep
  <2> QED BY <1>1, <2>1, InFlushWb, EmptyStep
<1>3. csr' \in Registers
  BY <1>1, InFlushWb, WriteStep DEF FlushWbSleep
<1>4. debug_req_pending(in) \in BOOLEAN
  BY DEF debug_req_pending
<1>5. illegal_insn_q' \in BOOLEAN /\ debug_req_entry_q' = debug_req_entry_q
      /\ debug_force_wakeup_q' \in BOOLEAN /\ (debug_force_wakeup_q' <=> debug_req_pending(in))
  BY <1>1, <1>4, InFlushWb DEF FlushWbSleep, WakeUp, TypeOK
<1>6. \E ns \in {"DBG_TAKEN_IF", "WAIT_SLEEP"} :
        Goes(in, ns) /\ (ns = "DBG_TAKEN_IF" <=> debug_req_pending(in))
  BY DEF FlushWbSleep, WakeUp
<1>7. TypeOK' /\ ctrl_fsm_cs' \in {"DBG_TAKEN_IF", "WAIT_SLEEP"} /\ ~debug_mode_q'
      /\ (debug_fsm_cs' = "HALTED" <=> debug_mode_q')
      /\ (ctrl_fsm_cs' = "DBG_TAKEN_IF" <=> debug_req_pending(in))
  BY <1>1, <1>2, <1>3, <1>5, <1>6, InFlushWb, CommonStep DEF Goes, TypeOK, CtrlStates
<1> QED BY <1>1, <1>2, <1>5, <1>7, InFlushWb, QuietStep

(* After fence.i or the write of a register, decoding goes on.             *)
LEMMA FlushWbOtherKeeps ==
  ASSUME IInv, NEW in \in Inputs, FlushWbOther(in)
  PROVE  IInv'
<1>1. ctrl_fsm_cs = "FLUSH_WB"
  BY DEF FlushWbOther
<1>2. StageTypes' /\ ex' \in {Bubble, Killed} /\ wb_wait' = 0 /\ ~instr_valid_id'
  <2>1. \E target \in Addr \cup {NoTarget} : Stages(in, TRUE, TRUE, Killed, target)
    BY <1>1, Addresses, InFlushWb DEF FlushWbOther, TypeOK
  <2> QED BY <1>1, <2>1, InFlushWb, EmptyStep
<1>3. csr' \in Registers
  BY <1>1, InFlushWb, WriteStep DEF FlushWbOther
<1>4. illegal_insn_q' \in BOOLEAN /\ debug_force_wakeup_q' = debug_force_wakeup_q
      /\ debug_req_entry_q' = debug_req_entry_q
  BY <1>1, InFlushWb DEF FlushWbOther, Keeps, TypeOK
<1>5. TypeOK' /\ ctrl_fsm_cs' = "DECODE" /\ (debug_fsm_cs' = "HALTED" <=> debug_mode_q')
  BY <1>1, <1>2, <1>3, <1>4, InFlushWb, CommonStep DEF FlushWbOther, Goes, TypeOK, CtrlStates
<1> QED BY <1>1, <1>2, <1>4, <1>5, InFlushWb, QuietStep

(* The jump that ends a trap handler or the debug program.                 *)
LEMMA XretJumpKeeps ==
  ASSUME IInv, NEW in \in Inputs, XretJump(in)
  PROVE  IInv'
<1>1. /\ ctrl_fsm_cs = "XRET_JUMP" /\ TypeOK /\ ~ExBusy /\ wb_wait = 0 /\ ~instr_valid_id
      /\ ~debug_req_entry_q /\ ~debug_force_wakeup_q
  BY DEF XretJump, IInv, Drained, DebugEntryHasReason
<1>2. /\ StageTypes' /\ ex' \in {Bubble, Killed} /\ wb_wait' = 0 /\ ~instr_valid_id'
      /\ instr_id' = instr_id /\ pc_id' = pc_id
  <2>1. csr.dpc \in Addr /\ csr.mepc \in Addr
    BY <1>1 DEF TypeOK, Registers
  <2>2. \E target \in Addr \cup {NoTarget} :
          Stages(in, FALSE, FALSE, Killed, target) /\ target # NoTarget
    BY <2>1, Addresses DEF XretJump
  <2> QED BY <1>1, <2>2, EmptyStep
<1>3. csr' = csr_n /\ csr' \in Registers /\ 0 \in Addr /\ "none" \in Causes
  BY <1>1, WriteStep, AddressAssumption DEF XretJump, Addr, Causes
<1>4. illegal_insn_q' \in BOOLEAN /\ debug_force_wakeup_q' = debug_force_wakeup_q
      /\ debug_req_entry_q' = debug_req_entry_q
  BY <1>1 DEF XretJump, Keeps, TypeOK
<1>5. \E ns \in CtrlStates, dm \in BOOLEAN :
        /\ ns = IF stepping THEN "DBG_TAKEN_IF" ELSE "DECODE"
        /\ dm => debug_mode_q
        /\ NextState(in, ns, dm)
  <2>1. (IF stepping THEN "DBG_TAKEN_IF" ELSE "DECODE") \in CtrlStates
    BY DEF CtrlStates
  <2>2. (debug_mode_q /\ instr_id.kind # "dret") \in BOOLEAN
    OBVIOUS
  <2> QED BY <2>1, <2>2 DEF XretJump
<1>6. /\ TypeOK' /\ (debug_mode_q' => debug_mode_q)
      /\ ctrl_fsm_cs' = IF stepping THEN "DBG_TAKEN_IF" ELSE "DECODE"
      /\ debug_fsm_cs' = "HALTED" <=> debug_mode_q'
  BY <1>1, <1>2, <1>3, <1>4, <1>5, CommonStep DEF XretJump, TypeOK
<1>7. ctrl_fsm_cs' = "DBG_TAKEN_IF" => single_step' /\ ~debug_mode_q'
  <2>1. SUFFICES ASSUME stepping PROVE single_step' /\ ~debug_mode_q'
    BY <1>6
  <2>2. ~debug_mode_q /\ single_step /\ ~debug_mode_q'
    BY <1>6, <2>1 DEF stepping
  <2>3. debug_mode_q' <=> debug_mode_q
    BY <2>2
  <2>4. ~debug_mode_q => (single_step' <=> single_step)
    BY <1>2, <1>3, <1>6, <2>3, DecoderKept
  <2> QED BY <2>2, <2>4
<1> QED BY <1>1, <1>2, <1>4, <1>6, <1>7, QuietStep

(* The branch of a single step decides itself while the controller waits.  *)
LEMMA DbgWaitBranchKeeps ==
  ASSUME IInv, NEW in \in Inputs, DbgWaitBranch(in)
  PROVE  IInv'
<1>1. /\ ctrl_fsm_cs = "DBG_WAIT_BRANCH" /\ TypeOK /\ stepping /\ ~instr_valid_id
      /\ ~debug_req_entry_q /\ ~debug_force_wakeup_q /\ ~debug_mode_q
      /\ ex.reg \notin {"dcsr", "dpc"}
  BY DEF DbgWaitBranch, IInv, DebugEntryHasReason, stepping, StatusWriteAlone
<1>2. /\ StageTypes' /\ ex' \in {Bubble, Killed, ex} /\ ~instr_valid_id'
      /\ ex_ready(in) => ex' \in {Bubble, Killed}
      /\ instr_id' = instr_id /\ pc_id' = pc_id
  <2>1. PICK h \in BOOLEAN, g \in BOOLEAN : h /\ ~g
    OBVIOUS
  <2>2. h = TRUE /\ g = FALSE
    BY <2>1
  <2>3. PICK target \in Addr \cup {NoTarget} : Stages(in, h, g, Killed, target)
    <3>1. (IF branch_taken_ex THEN ex.addr ELSE NoTarget) \in Addr \cup {NoTarget}
      BY <1>1, Addresses DEF TypeOK
    <3> QED BY <2>2, <3>1 DEF DbgWaitBranch
  <2>4. Killed \in Slot
    BY Slots
  <2>5. /\ instr_valid_id' \in BOOLEAN /\ minstret' \in BOOLEAN
        /\ pc_if' \in Addr /\ pc_id' \in Addr
        /\ instr_id' \in Slot /\ ex' \in Slot /\ wb_wait' \in 0..MaxLatency
        /\ ex' \in {Killed, Bubble, ex}
        /\ ex_ready(in) => ex' \in {Killed, Bubble}
        /\ h \/ ~id_ready(in) \/ target # NoTarget \/ ~in.fetch
             => /\ instr_id' = instr_id /\ pc_id' = pc_id
                /\ instr_valid_id' => instr_valid_id /\ ~id_ready(in) /\ ~g /\ ~branch_taken_ex
    BY <1>1, <2>3, <2>4, StagesStep
  <2>6. StageTypes'
    BY <2>5 DEF StageTypes
  <2> QED BY <1>1, <2>1, <2>5, <2>6
<1>3. csr' = csr_n /\ csr' \in Registers /\ 0 \in Addr /\ "none" \in Causes
  BY <1>1, WriteStep, AddressAssumption DEF DbgWaitBranch, Addr, Causes
<1>4. illegal_insn_q' \in BOOLEAN /\ debug_force_wakeup_q' = debug_force_wakeup_q
      /\ debug_req_entry_q' = debug_req_entry_q
  BY <1>1 DEF DbgWaitBranch, Keeps, TypeOK
<1>5. TypeOK' /\ ctrl_fsm_cs' = "DBG_FLUSH" /\ (debug_mode_q' <=> debug_mode_q)
      /\ (debug_fsm_cs' = "HALTED" <=> debug_mode_q')
  <2>1. \E ns \in CtrlStates : ns = "DBG_FLUSH" /\ Goes(in, ns)
    BY DEF DbgWaitBranch, CtrlStates
  <2> QED BY <1>1, <1>2, <1>3, <1>4, <2>1, CommonStep DEF Goes, TypeOK
<1>6. single_step'
  BY <1>1, <1>2, <1>3, <1>5, DecoderKept DEF stepping
<1>7. ex'.reg \notin {"dcsr", "dpc"} /\ ex'.kind \notin {"branch", "not_taken"}
  BY <1>1, <1>2, Slots, BranchLeaves
<1>8. JumpDoneIsForId' /\ Drained' /\ StatusWriteAlone' /\ BranchIsSeen' /\ FlushKnowsWhy'
  BY <1>2, <1>5, <1>7
     DEF JumpDoneIsForId, Drained, StatusWriteAlone, BranchIsSeen, FlushKnowsWhy
<1>9. DebugEntryHasReason'
  BY <1>1, <1>4, <1>5, <1>6 DEF DebugEntryHasReason
<1> QED BY <1>5, <1>8, <1>9 DEF IInv

(* What asks for the entry at ID still asks in the next cycle.             *)
LEMMA DbgFlushKeeps ==
  ASSUME IInv, NEW in \in Inputs, DbgFlush(in)
  PROVE  IInv'
<1>1. /\ ctrl_fsm_cs = "DBG_FLUSH" /\ TypeOK /\ ~debug_force_wakeup_q
      /\ IF debug_mode_q THEN is("ebreak") ELSE enters_at_id \/ single_step
      /\ ex.reg \in {"dcsr", "dpc"} => debug_mode_q
      /\ ex.kind \notin {"branch", "not_taken"}
      /\ debug_req_entry_q => ~debug_mode_q
  BY DEF DbgFlush, IInv, DebugEntryHasReason, StatusWriteAlone, BranchIsSeen
<1>2. /\ StageTypes' /\ ex' \in {Bubble, ex} /\ ~instr_valid_id'
      /\ instr_id' = instr_id /\ pc_id' = pc_id
  <2>1. Stages(in, TRUE, TRUE, Killed, NoTarget) /\ NoTarget \in Addr \cup {NoTarget}
    BY DEF DbgFlush
  <2> QED BY <1>1, <2>1, HaltedStep
<1>3. csr' = csr_n /\ csr' \in Registers /\ 0 \in Addr /\ "none" \in Causes
  BY <1>1, WriteStep, AddressAssumption DEF DbgFlush, Addr, Causes
<1>4. illegal_insn_q' \in BOOLEAN /\ debug_force_wakeup_q' = debug_force_wakeup_q
      /\ debug_req_entry_q' = debug_req_entry_q
  BY <1>1 DEF DbgFlush, Keeps, TypeOK
<1>5. TypeOK' /\ (debug_mode_q' <=> debug_mode_q)
      /\ ctrl_fsm_cs' = (IF enters_at_id THEN "DBG_TAKEN_ID" ELSE "DBG_TAKEN_IF")
      /\ (debug_fsm_cs' = "HALTED" <=> debug_mode_q')
  <2>1. \E ns \in CtrlStates : /\ ns = IF enters_at_id THEN "DBG_TAKEN_ID" ELSE "DBG_TAKEN_IF"
                               /\ Goes(in, ns)
    BY DEF DbgFlush, CtrlStates
  <2> QED BY <1>1, <1>2, <1>3, <1>4, <2>1, CommonStep DEF Goes, TypeOK
<1>6. /\ is("ebreak")' <=> is("ebreak")
      /\ ~debug_mode_q => /\ single_step' <=> single_step
                          /\ ebrk_force' <=> ebrk_force
                          /\ trigger' <=> trigger
  BY <1>2, <1>3, <1>5, DecoderKept
<1>7. enters_at_id' <=> enters_at_id
  BY <1>4, <1>5, <1>6 DEF enters_at_id
<1>8. ex'.reg \in {ex.reg, "none"} /\ ex'.kind \notin {"branch", "not_taken"}
  BY <1>1, <1>2, Slots
<1>9. JumpDoneIsForId' /\ Drained' /\ StatusWriteAlone' /\ BranchIsSeen' /\ FlushKnowsWhy'
  BY <1>1, <1>2, <1>5, <1>8
     DEF JumpDoneIsForId, Drained, StatusWriteAlone, BranchIsSeen, FlushKnowsWhy
<1>10. enters_at_id => (debug_mode_q' => is("ebreak")')
  BY <1>1, <1>5, <1>6
<1>11. ~enters_at_id => ~debug_mode_q' /\ single_step' /\ ~debug_req_entry_q'
  BY <1>1, <1>4, <1>5, <1>6 DEF enters_at_id
<1>12. DebugEntryHasReason'
  BY <1>1, <1>2, <1>4, <1>5, <1>7, <1>10, <1>11 DEF DebugEntryHasReason
<1> QED BY <1>5, <1>9, <1>12 DEF IInv

(* The debug program begins: nothing is in ID, and debug mode covers what  *)
(* is in EX.                                                               *)
LEMMA DebugModeNext ==
  ASSUME IInv, NEW in \in Inputs, ~instr_valid_id,
         NextState(in, "DECODE", TRUE), JumpDone(in, jump_done_q),
         Stages(in, FALSE, FALSE, Killed, HaltVector), csr' \in Registers,
         illegal_insn_q' = illegal_insn_q, ~debug_req_entry_q', ~debug_force_wakeup_q',
         debug_req_entry_q' \in BOOLEAN, debug_force_wakeup_q' \in BOOLEAN
  PROVE  IInv'
<1>1. TypeOK /\ HaltVector \in Addr \cup {NoTarget} /\ HaltVector # NoTarget
  BY Addresses DEF IInv
<1>2. StageTypes' /\ ~instr_valid_id'
  <2>1. /\ StageTypes'
        /\ HaltVector # NoTarget \/ ~id_ready(in) \/ ~in.fetch
             => (instr_valid_id' => instr_valid_id /\ ~id_ready(in) /\ ~branch_taken_ex)
    BY <1>1, OpenStep
  <2> QED BY <1>1, <2>1
<1>3. \E ns \in CtrlStates, dm \in BOOLEAN : ns = "DECODE" /\ dm /\ NextState(in, ns, dm)
  BY DEF CtrlStates
<1>4. TypeOK' /\ ctrl_fsm_cs' = "DECODE" /\ debug_mode_q'
      /\ (debug_fsm_cs' = "HALTED" <=> debug_mode_q')
  BY <1>1, <1>2, <1>3, CommonStep DEF TypeOK
<1>5. JumpDoneIsForId'
  BY <1>2 DEF JumpDoneIsForId
<1> QED BY <1>4, <1>5, DecodeNext

(* Debug mode, for the instruction in ID.                                  *)
LEMMA DbgTakenIdKeeps ==
  ASSUME IInv, NEW in \in Inputs, DbgTakenId(in)
  PROVE  IInv'
<1>1. ctrl_fsm_cs = "DBG_TAKEN_ID" /\ TypeOK /\ ~instr_valid_id /\ ~debug_force_wakeup_q
  BY DEF DbgTakenId, IInv, DebugEntryHasReason
<1>2. csr' \in Registers
  <2>1. pc_id \in Addr /\ cause_at_id \in Causes
    BY <1>1 DEF TypeOK, cause_at_id, Causes
  <2>2. csr' = csr_n \/ csr' = SaveDebug(csr_n, pc_id, cause_at_id)
    BY DEF DbgTakenId, csr_save_debug
  <2> QED BY <1>1, <2>1, <2>2, RegistersStep
<1>3. /\ NextState(in, "DECODE", TRUE) /\ JumpDone(in, jump_done_q)
      /\ Stages(in, FALSE, FALSE, Killed, HaltVector)
      /\ illegal_insn_q' = illegal_insn_q /\ debug_force_wakeup_q' = debug_force_wakeup_q
      /\ debug_req_entry_q' = FALSE
  BY DEF DbgTakenId
<1>4. debug_force_wakeup_q' \in BOOLEAN /\ ~debug_force_wakeup_q'
      /\ debug_req_entry_q' \in BOOLEAN /\ ~debug_req_entry_q'
  BY <1>1, <1>3 DEF TypeOK
<1> QED BY <1>1, <1>2, <1>3, <1>4, DebugModeNext

(* Debug mode, for the next instruction from IF.                           *)
LEMMA DbgTakenIfKeeps ==
  ASSUME IInv, NEW in \in Inputs, DbgTakenIf(in)
  PROVE  IInv'
<1>1. ctrl_fsm_cs = "DBG_TAKEN_IF" /\ TypeOK /\ ~instr_valid_id /\ ~debug_req_entry_q
  BY DEF DbgTakenIf, IInv, DebugEntryHasReason
<1>2. csr' \in Registers
  <2>1. PICK why \in Causes : csr' = SaveDebug(csr_n, pc_if, why)
    BY DEF DbgTakenIf, csr_save_debug, Causes
  <2>2. pc_if \in Addr
    BY <1>1 DEF TypeOK
  <2> QED BY <1>1, <2>1, <2>2, RegistersStep
<1>3. /\ NextState(in, "DECODE", TRUE) /\ JumpDone(in, jump_done_q)
      /\ Stages(in, FALSE, FALSE, Killed, HaltVector)
      /\ illegal_insn_q' = illegal_insn_q /\ debug_force_wakeup_q' = FALSE
      /\ debug_req_entry_q' = debug_req_entry_q
  BY DEF DbgTakenIf
<1>4. debug_force_wakeup_q' \in BOOLEAN /\ ~debug_force_wakeup_q'
      /\ debug_req_entry_q' \in BOOLEAN /\ ~debug_req_entry_q'
  BY <1>1, <1>3 DEF TypeOK
<1> QED BY <1>1, <1>2, <1>3, <1>4, DebugModeNext

(* The flags agree with the stages after reset.                            *)
LEMMA Initial == Init => IInv
<1> SUFFICES ASSUME Init PROVE IInv
  OBVIOUS
<1> USE DEF Init
<1>1. 0 \in Addr /\ MaxLatency \in Nat \ {0} /\ "none" \in Causes
  BY AddressAssumption, InputAssumption DEF Addr, Causes
<1>2. csr \in Registers
  BY <1>1 DEF ResetRegisters, Registers
<1>3. ex \in Slot /\ instr_id \in Slot /\ ex.kind = "bubble" /\ ex.reg = "none"
  BY Slots
<1>4. TypeOK
  <2>1. /\ ctrl_fsm_cs \in CtrlStates /\ debug_fsm_cs \in {"HAVERESET", "RUNNING", "HALTED"}
        /\ pc_if \in Addr /\ pc_id \in Addr /\ wb_wait \in 0..MaxLatency
    BY <1>1 DEF CtrlStates
  <2>2. /\ jump_done_q \in BOOLEAN /\ illegal_insn_q \in BOOLEAN /\ debug_mode_q \in BOOLEAN
        /\ debug_req_entry_q \in BOOLEAN /\ debug_force_wakeup_q \in BOOLEAN
        /\ debug_req_q \in BOOLEAN /\ irq_q \in BOOLEAN
        /\ instr_valid_id \in BOOLEAN /\ minstret \in BOOLEAN
    OBVIOUS
  <2> QED BY <1>2, <1>3, <2>1, <2>2 DEF TypeOK
<1>5. JumpDoneIsForId /\ Drained /\ StatusWriteAlone /\ BranchIsSeen
  BY <1>3 DEF JumpDoneIsForId, Drained, ExBusy, StatusWriteAlone, StatusAccess, BranchIsSeen
<1>6. FlushKnowsWhy /\ DebugEntryHasReason
  BY DEF FlushKnowsWhy, DebugEntryHasReason
<1> QED BY <1>4, <1>5, <1>6 DEF IInv

(* IInv speaks of the variables alone.                                     *)
LEMMA Stuttering ==
  ASSUME IInv, UNCHANGED vars
  PROVE  IInv'
<1> USE DEF vars, ctrlVars, stageVars
<1>1. TypeOK' /\ JumpDoneIsForId' /\ Drained' /\ StatusWriteAlone' /\ BranchIsSeen'
  BY DEF IInv, TypeOK, JumpDoneIsForId, Drained, ExBusy, StatusWriteAlone, StatusAccess,
         BranchIsSeen
<1>2. FlushKnowsWhy'
  BY DEF IInv, FlushKnowsWhy, is, illegal_insn, ebreak_to_debug, ebrk_force
<1>3. DebugEntryHasReason'
  BY DEF IInv, DebugEntryHasReason, enters_at_id, trigger, ebrk_force, is, illegal_insn,
         single_step, stepping
<1> QED BY <1>1, <1>2, <1>3 DEF IInv

(* One clock edge, or none, keeps IInv.                                    *)
LEMMA StepKeeps ==
  ASSUME IInv, [Next]_vars
  PROVE  IInv'
<1>1. CASE UNCHANGED vars
  BY <1>1, Stuttering
<1>2. CASE Next
  <2>1. PICK in \in Inputs : Step(in)
    BY <1>2 DEF Next
  <2>2. CASE \/ Reset(in) \/ BootSet(in) \/ WaitSleep(in) \/ Sleep(in) \/ FirstFetch(in)
    BY <2>2, ResetKeeps, BootSetKeeps, WaitSleepKeeps, SleepKeeps, FirstFetchKeeps
  <2>3. CASE \/ TakeBranch(in) \/ NothingToDecode(in) \/ ServeDebug(in) \/ TakeIrq(in)
             \/ Decode(in)
    BY <2>3, TakeBranchKeeps, NothingToDecodeKeeps, ServeDebugKeeps, TakeIrqKeeps,
       DecodeKeeps
  <2>4. CASE \/ FlushEx(in) \/ FlushWbTrap(in) \/ FlushWbReturn(in) \/ FlushWbSleep(in)
             \/ FlushWbOther(in) \/ XretJump(in)
    BY <2>4, FlushExKeeps, FlushWbTrapKeeps, FlushWbReturnKeeps, FlushWbSleepKeeps,
       FlushWbOtherKeeps, XretJumpKeeps
  <2>5. CASE \/ DbgWaitBranch(in) \/ DbgFlush(in) \/ DbgTakenId(in) \/ DbgTakenIf(in)
    BY <2>5, DbgWaitBranchKeeps, DbgFlushKeeps, DbgTakenIdKeeps, DbgTakenIfKeeps
  <2> QED BY <2>1, <2>2, <2>3, <2>4, <2>5 DEF Step
<1> QED BY <1>1, <1>2

(* IInv is an invariant of the pipeline: after each of its twenty steps    *)
(* the controller's flags still agree with what stands in ID and EX.       *)
THEOREM Invariance == Spec => []IInv
<1> QED BY Initial, StepKeeps, PTL DEF Spec

(* Where an exception, a return, a wake-up or the first fetch is carried   *)
(* out, EX, WB and ID are empty (a_xret_csr, a_first_fetch_id_ready).      *)
THEOREM DrainedHolds == Spec => []Drained
<1>1. IInv => Drained
  BY DEF IInv
<1> QED BY <1>1, Invariance, PTL

(* A jump that has moved the PC and waits in ID finds IF at its target,    *)
(* and its flag speaks of no other instruction (jump_done_q).              *)
THEOREM JumpDoneIsForIdHolds == Spec => []JumpDoneIsForId
<1>1. IInv => JumpDoneIsForId
  BY DEF IInv
<1> QED BY <1>1, Invariance, PTL

(* Debug mode is entered for a reason that still stands                    *)
(* (a_single_step_dbg_taken_if), and the debug FSM agrees with the mode    *)
(* (a_debug_halted_equals_debug_mode).                                     *)
THEOREM DebugEntryHasReasonHolds == Spec => []DebugEntryHasReason
<1>1. IInv => DebugEntryHasReason
  BY DEF IInv
<1> QED BY <1>1, Invariance, PTL

(* ---- the steps of the hart -------------------------------------------- *)
(* The two flags of the view are Boolean, in this state and the next.      *)
LEMMA Flags ==
  /\ ArchDebug \in BOOLEAN /\ ArchStepped \in BOOLEAN
  /\ ArchDebug' \in BOOLEAN /\ ArchStepped' \in BOOLEAN
BY DEF ArchDebug, ArchStepped

(* The steps of Hart, over what the program sees of the pipeline.          *)
LEMMA AsWait ==
  ASSUME ArchRetired' = Bubble, ArchPc' = ArchPc, ArchCsr' = ArchCsr,
         ArchDebug' <=> ArchDebug, ArchStepped' <=> ArchStepped
  PROVE  Architecture!Next
BY Flags DEF Architecture!Next, Architecture!Wait, Architecture!Bubble, Architecture!Plain,
       Bubble, Plain

(* An instruction that neither traps nor returns.                          *)
LEMMA AsExecute ==
  ASSUME NEW i \in Instructions, ArchRetired' = i,
         ~ArchStepped, ArchDebug \/ ~trigger_match(ArchCsr, ArchPc),
         ~Traps(i, ArchDebug), i.kind \notin {"mret", "dret"},
         ArchPc' = NextPc(i, ArchPc), ArchCsr' = WriteCsr(ArchCsr, i, ArchDebug),
         ArchStepped' <=> ("step" \in ArchCsr.on /\ ~ArchDebug), ArchDebug' <=> ArchDebug
  PROVE  Architecture!Next
<1>1. Architecture!MayRun
  BY DEF Architecture!MayRun, Architecture!trigger_match, trigger_match
<1>2. ~Architecture!Traps(i, ArchDebug)
  BY DEF Architecture!Traps, Architecture!Legal, Traps, Legal
<1>3. ArchPc' = Architecture!NextPc(i, ArchPc)
  BY DEF Architecture!NextPc, Architecture!After, NextPc, After
<1>4. ArchCsr' = Architecture!WriteCsr(ArchCsr, i, ArchDebug)
  BY DEF Architecture!WriteCsr, Architecture!BitsOf, WriteCsr, BitsOf
<1>5. ArchStepped' = Architecture!Stepping
  BY DEF Architecture!Stepping
<1>6. Architecture!Execute(i)
  BY <1>1, <1>2, <1>3, <1>4, <1>5 DEF Architecture!Execute
<1> QED BY <1>6 DEF Architecture!Next

(* mret, to mepc, or to the exceptions of the debug program.               *)
LEMMA AsMret ==
  ASSUME NEW i \in Instructions, ArchRetired' = i, i.kind = "mret",
         ~ArchStepped, ArchDebug \/ ~trigger_match(ArchCsr, ArchPc),
         IF ArchDebug THEN ArchPc' = DebugVector /\ ArchCsr' = ArchCsr
         ELSE ArchPc' = ArchCsr.mepc /\ ArchCsr' = RestoreMret(ArchCsr, ArchCsr),
         ArchStepped' <=> ("step" \in ArchCsr.on /\ ~ArchDebug), ArchDebug' <=> ArchDebug
  PROVE  Architecture!Next
<1>1. Architecture!MayRun
  BY DEF Architecture!MayRun, Architecture!trigger_match, trigger_match
<1>2. ~ArchDebug => ArchCsr' = Architecture!RestoreMret(ArchCsr, ArchCsr)
  BY DEF Architecture!RestoreMret, Architecture!BitsOf, RestoreMret, BitsOf
<1>3. Architecture!Mret(i)
  BY <1>1, <1>2 DEF Architecture!Mret, Architecture!Stepping
<1> QED BY <1>3 DEF Architecture!Next

(* dret, which leaves debug mode.                                          *)
LEMMA AsDret ==
  ASSUME NEW i \in Instructions, ArchRetired' = i, i.kind = "dret",
         ~ArchStepped, ArchDebug,
         ArchPc' = ArchCsr.dpc, ArchCsr' = ArchCsr, ~ArchDebug', ~ArchStepped'
  PROVE  Architecture!Next
<1>1. Architecture!MayRun
  BY DEF Architecture!MayRun
<1>2. Architecture!Dret(i)
  BY <1>1 DEF Architecture!Dret
<1> QED BY <1>2 DEF Architecture!Next

(* An exception, in either mode.                                           *)
LEMMA AsException ==
  ASSUME NEW i \in Instructions, ArchRetired' = Bubble, Traps(i, ArchDebug),
         ~ArchStepped, ArchDebug \/ ~trigger_match(ArchCsr, ArchPc),
         i.kind = "ebreak" => ~ArchDebug /\ "ebreakm" \notin ArchCsr.on,
         IF ArchDebug THEN ArchPc' = DebugVector /\ ArchCsr' = ArchCsr
         ELSE ArchPc' = TrapVector /\ ArchCsr' = SaveTrap(ArchCsr, ArchCsr, ArchPc),
         ArchStepped' <=> ("step" \in ArchCsr.on /\ ~ArchDebug), ArchDebug' <=> ArchDebug
  PROVE  Architecture!Next
<1>1. Architecture!MayRun
  BY DEF Architecture!MayRun, Architecture!trigger_match, trigger_match
<1>2. ~ArchDebug => ArchCsr' = Architecture!SaveTrap(ArchCsr, ArchCsr, ArchPc)
  BY DEF Architecture!SaveTrap, Architecture!BitsOf, SaveTrap, BitsOf
<1>3. Architecture!Traps(i, ArchDebug)
  BY DEF Architecture!Traps, Architecture!Legal, Traps, Legal
<1>4. ArchRetired' = Architecture!Bubble
  BY DEF Architecture!Bubble, Architecture!Plain, Bubble, Plain
<1>5. Architecture!Exception(i)
  BY <1>1, <1>2, <1>3, <1>4 DEF Architecture!Exception, Architecture!Stepping
<1> QED BY <1>5 DEF Architecture!Next

(* ebreak in debug mode.                                                   *)
LEMMA AsRestart ==
  ASSUME ArchRetired' = Bubble, ~ArchStepped, ArchDebug, ArchPc' = HaltVector,
         ArchCsr' = ArchCsr, ArchDebug' <=> ArchDebug, ArchStepped' <=> ArchStepped
  PROVE  Architecture!Next
<1>1. ArchRetired' = Architecture!Bubble
  BY DEF Architecture!Bubble, Architecture!Plain, Bubble, Plain
<1>2. Architecture!Restart
  BY <1>1 DEF Architecture!Restart, Architecture!MayRun
<1> QED BY <1>2 DEF Architecture!Next

(* An interrupt.                                                           *)
LEMMA AsInterrupt ==
  ASSUME ArchRetired' = Bubble, ~ArchStepped, ~ArchDebug,
         m_irq_enable(ArchCsr), "irq" \in ArchCsr.on,
         ArchPc' = IrqVector, ArchCsr' = SaveTrap(ArchCsr, ArchCsr, ArchPc),
         ArchDebug' <=> ArchDebug, ArchStepped' <=> ArchStepped
  PROVE  Architecture!Next
<1>1. ArchRetired' = Architecture!Bubble
  BY DEF Architecture!Bubble, Architecture!Plain, Bubble, Plain
<1>2. ArchCsr' = Architecture!SaveTrap(ArchCsr, ArchCsr, ArchPc)
  BY DEF Architecture!SaveTrap, Architecture!BitsOf, SaveTrap, BitsOf
<1>3. Architecture!m_irq_enable(ArchCsr)
  BY DEF Architecture!m_irq_enable, m_irq_enable
<1>4. Architecture!Interrupt
  BY <1>1, <1>2, <1>3 DEF Architecture!Interrupt
<1> QED BY <1>4 DEF Architecture!Next

(* The entry of the debug program, for any cause.                          *)
LEMMA AsEnterDebug ==
  ASSUME NEW why \in Causes, ArchRetired' = Bubble, ~ArchDebug,
         why = "step" <=> ArchStepped,
         why = "trigger" => trigger_match(ArchCsr, ArchPc),
         why = "ebreak" => "ebreakm" \in ArchCsr.on, why # "none",
         ArchPc' = HaltVector, ArchCsr' = SaveDebug(ArchCsr, ArchPc, why),
         ArchDebug', ~ArchStepped'
  PROVE  Architecture!Next
<1>1. ArchRetired' = Architecture!Bubble
  BY DEF Architecture!Bubble, Architecture!Plain, Bubble, Plain
<1>2. ArchCsr' = Architecture!SaveDebug(ArchCsr, ArchPc, why)
  BY DEF Architecture!SaveDebug, SaveDebug
<1>3. why = "trigger" => Architecture!trigger_match(ArchCsr, ArchPc)
  BY DEF Architecture!trigger_match, trigger_match
<1>4. Architecture!EnterDebug(why) /\ why \in Architecture!Causes
  BY <1>1, <1>2, <1>3 DEF Architecture!EnterDebug, Architecture!Causes, Causes
<1> QED BY <1>4 DEF Architecture!Next

(* ---- writes, saves and restores --------------------------------------- *)
(* Writing a register again changes nothing more; an instruction without a *)
(* register writes none.                                                   *)
LEMMA WriteAgain ==
  ASSUME NEW c \in Registers, NEW i \in Slot, NEW d \in BOOLEAN
  PROVE  /\ WriteCsr(WriteCsr(c, i, d), i, d) = WriteCsr(c, i, d)
         /\ i.kind # "csr" => WriteCsr(c, i, d) = c
<1>1. i \in Instruction /\ (i.kind = "csr" <=> i.reg # "none")
  BY Slots
<1>2. c = [on |-> c.on, mepc |-> c.mepc, dpc |-> c.dpc, tdata2 |-> c.tdata2, cause |-> c.cause]
  BY DEF Registers
<1>3. i.reg = "none" => WriteCsr(c, i, d) = c
  BY <1>2 DEF WriteCsr, BitsOf
<1>4. CASE i.reg \in {"tdata1", "tdata2"} /\ ~d
  BY <1>1, <1>3, <1>4 DEF WriteCsr
<1>5. CASE i.reg \in DOMAIN BitsOf /\ ~(i.reg \in {"tdata1", "tdata2"} /\ ~d)
  <2> DEFINE b == BitsOf[i.reg]
  <2>1. \A e \in Registers : WriteCsr(e, i, d) = [e EXCEPT !.on = (e.on \ b) \cup i.bits]
    BY <1>5 DEF WriteCsr
  <2>2. WriteCsr(c, i, d) \in Registers
    <3>1. 0 \in Addr /\ "none" \in Causes
      BY AddressAssumption DEF Addr, Causes
    <3> QED BY <1>1, <3>1, RegisterTypes
  <2> HIDE DEF b
  <2>3. WriteCsr(c, i, d) = [c EXCEPT !.on = (c.on \ b) \cup i.bits]
    BY <2>1
  <2>4. WriteCsr(c, i, d).on = (c.on \ b) \cup i.bits
    BY <1>2, <2>3
  <2>5. (WriteCsr(c, i, d).on \ b) \cup i.bits = WriteCsr(c, i, d).on
    BY <2>4
  <2>6. WriteCsr(WriteCsr(c, i, d), i, d) = WriteCsr(c, i, d)
    BY <2>1, <2>2, <2>5 DEF Registers
  <2> QED BY <1>1, <1>3, <2>6
<1>6. CASE i.reg \notin DOMAIN BitsOf /\ ~(i.reg \in {"tdata1", "tdata2"} /\ ~d)
  BY <1>1, <1>2, <1>3, <1>6 DEF WriteCsr, BitsOf
<1> QED BY <1>4, <1>5, <1>6

(* A write that stays in EX while the registers move on by it alone has    *)
(* been made already.                                                      *)
LEMMA WriteKept ==
  ASSUME TypeOK, csr' = csr_n, ex' \in {Bubble, Killed, ex}, debug_mode_q' = debug_mode_q
  PROVE  csr_n' = csr_n
<1>1. csr \in Registers /\ ex \in Slot /\ debug_mode_q \in BOOLEAN
  BY DEF TypeOK
<1>2. csr_n' = IF ex'.kind = "csr" THEN WriteCsr(csr', ex', debug_mode_q') ELSE csr'
  BY DEF csr_n
<1>3. CASE ex'.kind = "csr"
  <2>1. ex' = ex
    BY <1>3, Slots
  <2>2. csr_n = WriteCsr(csr, ex, debug_mode_q)
    BY <1>3, <2>1 DEF csr_n
  <2>3. csr_n' = WriteCsr(WriteCsr(csr, ex, debug_mode_q), ex, debug_mode_q)
    BY <1>2, <1>3, <2>1, <2>2
  <2> QED BY <1>1, <2>2, <2>3, WriteAgain
<1> QED BY <1>2, <1>3

(* The write of mie that an interrupt meets in EX and the save of the trap *)
(* do not disturb each other.                                              *)
LEMMA WriteAndTrap ==
  ASSUME NEW c \in Registers, NEW i \in Slot, NEW a \in Addr, NEW d \in BOOLEAN, ~d,
         i.reg \notin {"mstatus", "mepc", "dcsr", "dpc"}, NEW w, w = WriteCsr(c, i, d)
  PROVE  /\ m_irq_enable(w) <=> m_irq_enable(c)
         /\ SaveTrap(w, c, a) = SaveTrap(w, w, a)
         /\ WriteCsr(SaveTrap(w, c, a), i, d) = SaveTrap(w, c, a)
<1>1. i \in Instruction /\ (i.kind = "csr" <=> i.reg # "none")
  BY Slots
<1>2. c = [on |-> c.on, mepc |-> c.mepc, dpc |-> c.dpc, tdata2 |-> c.tdata2, cause |-> c.cause]
  BY DEF Registers
<1>3. i.reg \in {"mie", "tdata1", "tdata2", "none"}
  BY <1>1 DEF Instruction, BitsOf
<1>4. 0 \in Addr /\ "none" \in Causes
  BY AddressAssumption DEF Addr, Causes
<1>5. CASE i.reg \in {"tdata1", "tdata2"}
  BY <1>5, <1>2 DEF WriteCsr
<1>6. CASE i.reg = "none"
  <2>1. w = c /\ i.kind # "csr" /\ SaveTrap(c, c, a) \in Registers
    BY <1>1, <1>4, <1>6, WriteAgain, RegisterTypes
  <2> QED BY <2>1, WriteAgain
<1>7. CASE i.reg = "mie"
  <2>1. i.bits \subseteq {"irq"}
    <3>1. i \in Instructions
      BY <1>1, <1>7, Slots DEF Slot
    <3> QED BY <1>7, <3>1, InstructionsAssumption DEF BitsOf
  <2>2. \A e \in Registers : WriteCsr(e, i, d) = [e EXCEPT !.on = (e.on \ {"irq"}) \cup i.bits]
    BY <1>7 DEF WriteCsr, BitsOf
  <2>3. w = [c EXCEPT !.on = (c.on \ {"irq"}) \cup i.bits] /\ w \in Registers
    BY <1>1, <1>4, <2>2, RegisterTypes
  <2>4. w.on = (c.on \ {"irq"}) \cup i.bits
    BY <1>2, <2>3
  <2>5. \A b \in {"mie", "step", "stepie"} : b \in w.on <=> b \in c.on
    BY <2>1, <2>4
  <2>6. m_irq_enable(w) <=> m_irq_enable(c)
    BY <2>5 DEF m_irq_enable
  <2> DEFINE flag == IF "mie" \in c.on THEN {"mpie"} ELSE {}
             on   == (w.on \ {"mie", "mpie"}) \cup flag
             s    == SaveTrap(w, c, a)
  <2>7. s = SaveTrap(w, w, a)
    BY <2>5 DEF SaveTrap
  <2>8. s = [w EXCEPT !.on = on, !.mepc = a] /\ s \in Registers
    <3>1. s \in Registers
      BY <1>1, <1>4, <2>3, RegisterTypes
    <3>2. s = [w EXCEPT !.on = on, !.mepc = a]
      BY DEF SaveTrap, BitsOf
    <3> QED BY <3>1, <3>2
  <2>9. (on \ {"irq"}) \cup i.bits = on
    BY <2>1, <2>4
  <2> HIDE DEF on, s
  <2>10. s.on = on
    BY <2>3, <2>8 DEF Registers
  <2>11. WriteCsr(s, i, d) = [s EXCEPT !.on = on]
    BY <2>2, <2>8, <2>9, <2>10
  <2>12. WriteCsr(s, i, d) = s
    BY <2>8, <2>10, <2>11 DEF Registers
  <2> QED BY <2>6, <2>7, <2>12 DEF s
<1> QED BY <1>3, <1>5, <1>6, <1>7

(* Nor do the save of the debugger and a write of another register, which  *)
(* is the same write in either mode but for the trigger registers.         *)
LEMMA WriteAndDebug ==
  ASSUME NEW c \in Registers, NEW i \in Slot, NEW a \in Addr, NEW why \in Causes,
         NEW d \in BOOLEAN, NEW e \in BOOLEAN, i.reg \notin {"dpc", "tdata1", "tdata2"},
         NEW w, w = WriteCsr(c, i, d)
  PROVE  WriteCsr(SaveDebug(w, a, why), i, e) = SaveDebug(w, a, why)
<1>1. i \in Instruction /\ (i.kind = "csr" <=> i.reg # "none")
  BY Slots
<1>2. w \in Registers /\ SaveDebug(w, a, why) \in Registers
  BY <1>1, RegisterTypes
<1>3. w = WriteCsr(w, i, e)
  <2>1. \A r \in Registers : WriteCsr(r, i, e) = WriteCsr(r, i, d)
    BY DEF WriteCsr
  <2>2. WriteCsr(w, i, e) = WriteCsr(w, i, d)
    BY <1>2, <2>1
  <2> QED BY <2>2, WriteAgain
<1> DEFINE s == SaveDebug(w, a, why)
<1>4. /\ s = [w EXCEPT !.dpc = a, !.cause = why] /\ s \in Registers
      /\ s.on = w.on /\ s.mepc = w.mepc /\ s.tdata2 = w.tdata2
  BY <1>2 DEF SaveDebug, Registers
<1>5. CASE i.reg \in DOMAIN BitsOf
  <2> DEFINE b == BitsOf[i.reg]
  <2>1. \A r \in Registers : WriteCsr(r, i, e) = [r EXCEPT !.on = (r.on \ b) \cup i.bits]
    BY <1>5 DEF WriteCsr
  <2> HIDE DEF b, s
  <2>2. w = [w EXCEPT !.on = (w.on \ b) \cup i.bits]
    BY <1>2, <1>3, <2>1
  <2>3. w.on = (w.on \ b) \cup i.bits
    BY <1>2, <2>2 DEF Registers
  <2>4. WriteCsr(s, i, e) = [s EXCEPT !.on = s.on]
    BY <1>4, <2>1, <2>3
  <2>5. WriteCsr(s, i, e) = s
    BY <1>4, <2>4 DEF Registers
  <2> QED BY <2>5 DEF s
<1>6. CASE i.reg \notin DOMAIN BitsOf
  <2> DEFINE mepc(r) == IF i.reg = "mepc" THEN i.addr ELSE r.mepc
  <2> HIDE DEF s
  <2>1. \A r \in Registers :
          /\ r = [on |-> r.on, mepc |-> r.mepc, dpc |-> r.dpc, tdata2 |-> r.tdata2, cause |-> r.cause]
          /\ WriteCsr(r, i, e) = [on |-> r.on, mepc |-> mepc(r), dpc |-> r.dpc,
                                  tdata2 |-> r.tdata2, cause |-> r.cause]
    <3>1. TAKE r \in Registers
    <3>2. r = [on |-> r.on, mepc |-> r.mepc, dpc |-> r.dpc, tdata2 |-> r.tdata2, cause |-> r.cause]
      BY DEF Registers
    <3>3. WriteCsr(r, i, e) = [r EXCEPT !.mepc = mepc(r), !.dpc = r.dpc, !.tdata2 = r.tdata2]
      BY <1>6 DEF WriteCsr
    <3> HIDE DEF mepc
    <3>4. WriteCsr(r, i, e) = [on |-> r.on, mepc |-> mepc(r), dpc |-> r.dpc,
                               tdata2 |-> r.tdata2, cause |-> r.cause]
      BY <3>2, <3>3
    <3> QED BY <3>2, <3>4 DEF mepc
  <2>2. w.mepc = mepc(w)
    <3>1. WriteCsr(w, i, e).mepc = mepc(w)
      BY <1>2, <2>1
    <3> QED BY <1>3, <3>1
  <2>3. s.mepc = mepc(s)
    BY <1>4, <2>2
  <2> HIDE DEF mepc
  <2>4. WriteCsr(s, i, e) = s
    <3>1. WriteCsr(s, i, e) = [on |-> s.on, mepc |-> mepc(s), dpc |-> s.dpc,
                               tdata2 |-> s.tdata2, cause |-> s.cause]
      BY <1>4, <2>1
    <3>2. s = [on |-> s.on, mepc |-> s.mepc, dpc |-> s.dpc, tdata2 |-> s.tdata2, cause |-> s.cause]
      BY <1>4, <2>1
    <3> QED BY <2>3, <3>1, <3>2
  <2> QED BY <2>4 DEF s
<1> QED BY <1>5, <1>6

(* ---- reset, boot and sleep -------------------------------------------- *)
(* Where the next instruction stands when nothing is being flushed.        *)
Front == IF instr_valid_id THEN pc_id ELSE pc_if

Steady == {"WAIT_SLEEP", "SLEEP", "FIRST_FETCH", "DECODE", "DBG_TAKEN_IF"}

SteadyView ==
  ctrl_fsm_cs \in Steady /\ ~branch_taken_ex =>
    /\ ctrl_fsm_cs = "DECODE" \/ ~instr_valid_id => ArchPc = Front
    /\ ArchCsr = csr_n
    /\ ArchDebug <=> debug_mode_q
    /\ ArchStepped <=> stepping /\ ctrl_fsm_cs = "DBG_TAKEN_IF" /\ ~debug_force_wakeup_q

(* The view has this simple form in both states of a step.                 *)
LEMMA SteadyViews == SteadyView /\ SteadyView'
<1>1. SteadyView
  BY DEF SteadyView, Steady, Front, ArchPc, ArchCsr, ArchDebug, ArchStepped, Leaving
<1>2. SteadyView'
  BY DEF SteadyView, Steady, Front, ArchPc, ArchCsr, ArchDebug, ArchStepped, Leaving
<1> QED BY <1>1, <1>2

(* One clock edge in which ID hands over nothing, halted or not.           *)
Halts(in, target) == Stages(in, TRUE, TRUE, Killed, target)
Flows(in, target) == Stages(in, FALSE, FALSE, Killed, target)

(* Then no instruction retires, ...                                        *)
LEMMA NothingRetires ==
  ASSUME NEW in \in Inputs, NEW target, Halts(in, target) \/ Flows(in, target)
  PROVE  ArchRetired' = Bubble
<1>1. Killed.kind = "killed"
  BY Slots
<1>2. ~minstret'
  BY <1>1 DEF Halts, Flows, Stages
<1> QED BY <1>2 DEF ArchRetired

(* ... the next instruction stays or is where the PC was set, ...          *)
LEMMA OpenFront ==
  ASSUME NEW in \in Inputs, TypeOK, NEW target \in Addr \cup {NoTarget}, Flows(in, target)
  PROVE  IF instr_valid_id /\ ~id_ready(in) /\ ~branch_taken_ex THEN Front' = pc_id
         ELSE Front' = IF target # NoTarget THEN target ELSE pc_if
BY DEF Flows, Stages, Front

(* ... and so it is when the stages are halted.                            *)
LEMMA HaltedFront ==
  ASSUME NEW in \in Inputs, TypeOK, NEW target \in Addr \cup {NoTarget}, Halts(in, target)
  PROVE  Front' = IF target # NoTarget THEN target ELSE pc_if
BY DEF Halts, Stages, Front

(* What the shared parts of the steps say of state and mode.               *)
LEMMA GoesTo ==
  ASSUME NEW in, NEW ns, Goes(in, ns)
  PROVE  ctrl_fsm_cs' = ns /\ debug_mode_q' = debug_mode_q
BY DEF Goes, NextState

(* A wake-up that finds a debugger says so.                                *)
LEMMA WakesTo ==
  ASSUME NEW in, NEW ns, WakeUp(in, ns)
  PROVE  /\ ctrl_fsm_cs' \in {"DBG_TAKEN_IF", ns} /\ debug_mode_q' = debug_mode_q
         /\ ctrl_fsm_cs' = "DBG_TAKEN_IF" /\ ns # "DBG_TAKEN_IF" => debug_force_wakeup_q'
BY DEF WakeUp, Goes, NextState

(* Between steady states with the same instruction to come nothing is seen.*)
LEMMA SteadyWait ==
  ASSUME TypeOK, ctrl_fsm_cs \in Steady, ctrl_fsm_cs' \in Steady,
         ~branch_taken_ex, ~branch_taken_ex',
         ctrl_fsm_cs = "DECODE" \/ ~instr_valid_id,
         ctrl_fsm_cs' = "DECODE" \/ ~instr_valid_id',
         ArchRetired' = Bubble, Front' = Front, csr_n' = csr_n, debug_mode_q' = debug_mode_q,
         ctrl_fsm_cs # "DBG_TAKEN_IF", ctrl_fsm_cs' = "DBG_TAKEN_IF" => debug_force_wakeup_q'
  PROVE  Architecture!Next
BY SteadyViews, AsWait DEF SteadyView

(* An empty pipeline that halts or goes on with nothing handed over.       *)
LEMMA EmptyView ==
  ASSUME IInv, NEW in \in Inputs, ~ExBusy, wb_wait = 0, ~instr_valid_id,
         NEW target \in Addr \cup {NoTarget},
         Halts(in, target) \/ Flows(in, target)
  PROVE  /\ ~branch_taken_ex /\ ~branch_taken_ex' /\ csr_n = csr
         /\ ArchRetired' = Bubble /\ Front = pc_if
         /\ Front' = IF target # NoTarget THEN target ELSE pc_if
         /\ csr' = csr_n /\ debug_mode_q' = debug_mode_q => csr_n' = csr_n
         /\ ex' \in {Bubble, Killed}
         /\ Halts(in, target) \/ target # NoTarget
              => pc_if' = Front' /\ ~instr_valid_id'
<1>1. TypeOK /\ ex_ready(in) /\ ~branch_taken_ex /\ ex.kind \notin {"csr", "branch"}
  BY EmptyStage DEF IInv, ExBusy
<1>2. ex' \in {Bubble, Killed}
  <2>1. CASE Halts(in, target)
    BY <1>1, <2>1, HaltedStep DEF Halts, Flows
  <2>2. CASE Flows(in, target)
    BY <1>1, <2>2, OpenStep DEF Halts, Flows
  <2> QED BY <2>1, <2>2
<1>3. ~branch_taken_ex' /\ csr_n = csr
  BY <1>1, <1>2, Slots DEF branch_taken_ex, csr_n
<1>4. ArchRetired' = Bubble /\ Front = pc_if
  BY NothingRetires DEF Front
<1>5. Front' = IF target # NoTarget THEN target ELSE pc_if
  BY <1>1, OpenFront, HaltedFront
<1>6. csr' = csr_n /\ debug_mode_q' = debug_mode_q => csr_n' = csr_n
  BY <1>1, <1>2, WriteKept
<1>7. Halts(in, target) \/ target # NoTarget
        => pc_if' = Front' /\ ~instr_valid_id'
  <2>1. CASE Halts(in, target)
    <3>1. ~instr_valid_id'
      BY <1>1, <2>1, HaltedStep DEF Halts, Flows
    <3> QED BY <3>1 DEF Front
  <2>2. CASE Flows(in, target) /\ target # NoTarget
    <3>1. ~instr_valid_id'
      BY <1>1, <2>2, OpenStep DEF Halts, Flows
    <3> QED BY <3>1 DEF Front
  <2> QED BY <2>1, <2>2
<1> QED BY <1>1, <1>2, <1>3, <1>4, <1>5, <1>6, <1>7

(* In reset nothing is seen: the hart is at the boot address.              *)
LEMMA ResetMaps ==
  ASSUME IInv, NEW in \in Inputs, Reset(in)
  PROVE  Architecture!Next
<1> DEFINE input == [in EXCEPT !.fetch = FALSE]
<1>1. /\ ctrl_fsm_cs = "RESET" /\ ~ExBusy /\ wb_wait = 0 /\ ~instr_valid_id /\ TypeOK
      /\ ~debug_mode_q /\ csr' = csr_n
  BY DEF Reset, IInv, Drained, DebugEntryHasReason
<1>2. ctrl_fsm_cs' \in {"RESET", "BOOT_SET"} /\ debug_mode_q' = debug_mode_q
  <2>1. PICK fetch_enable \in BOOLEAN : Goes(in, IF fetch_enable THEN "BOOT_SET" ELSE "RESET")
    BY DEF Reset, Halts, Flows
  <2> QED BY <2>1, GoesTo
<1>3. csr_n' = csr_n /\ ArchRetired' = Bubble
  <2>1. input \in Inputs
    BY DEF Inputs
  <2>2. Flows(input, NoTarget) /\ NoTarget \in Addr \cup {NoTarget}
    BY DEF Reset, Halts, Flows
  <2> HIDE DEF input
  <2> QED BY <1>1, <1>2, <2>1, <2>2, EmptyView
<1> QED BY <1>1, <1>2, <1>3, AsWait DEF ArchPc, ArchCsr, ArchDebug, ArchStepped, Leaving

(* The boot address is set; a debugger that waits comes before it.         *)
LEMMA BootSetMaps ==
  ASSUME IInv, NEW in \in Inputs, BootSet(in)
  PROVE  Architecture!Next
<1>1. /\ ctrl_fsm_cs = "BOOT_SET" /\ ~ExBusy /\ wb_wait = 0 /\ ~instr_valid_id /\ TypeOK
      /\ ~debug_mode_q /\ csr' = csr_n
  BY DEF BootSet, IInv, Drained, DebugEntryHasReason
<1>2. /\ ctrl_fsm_cs' \in {"DBG_TAKEN_IF", "FIRST_FETCH"} /\ debug_mode_q' = debug_mode_q
      /\ ctrl_fsm_cs' = "DBG_TAKEN_IF" => debug_force_wakeup_q'
  BY WakesTo DEF BootSet
<1>3. /\ csr_n' = csr_n /\ ArchRetired' = Bubble /\ Front' = Boot
      /\ ~branch_taken_ex' /\ ~instr_valid_id'
  <2>1. Flows(in, Boot) /\ Boot \in Addr \cup {NoTarget} /\ Boot # NoTarget
    BY Addresses DEF BootSet, Flows
  <2> QED BY <1>1, <1>2, <2>1, EmptyView
<1>4. /\ ArchPc = Boot /\ ArchCsr = csr_n /\ ~ArchDebug /\ ~ArchStepped
  BY <1>1 DEF ArchPc, ArchCsr, ArchDebug, ArchStepped, Leaving
<1>5. /\ ArchPc' = Boot /\ ArchCsr' = csr_n' /\ ~ArchDebug' /\ ~ArchStepped'
  BY <1>1, <1>2, <1>3, SteadyViews DEF SteadyView, Steady
<1> QED BY <1>3, <1>4, <1>5, AsWait

(* On the way to sleep.                                                    *)
LEMMA WaitSleepMaps ==
  ASSUME IInv, NEW in \in Inputs, WaitSleep(in)
  PROVE  Architecture!Next
<1>1. /\ ctrl_fsm_cs = "WAIT_SLEEP" /\ ~ExBusy /\ wb_wait = 0 /\ ~instr_valid_id
      /\ TypeOK /\ ctrl_fsm_cs' = "SLEEP" /\ debug_mode_q' = debug_mode_q
  BY GoesTo DEF WaitSleep, IInv, Drained
<1>2. Halts(in, NoTarget) /\ NoTarget \in Addr \cup {NoTarget} /\ csr' = csr_n
  BY DEF WaitSleep, Halts, Flows
<1> QED BY <1>1, <1>2, EmptyView, SteadyWait DEF Steady

(* Asleep, or woken.                                                       *)
LEMMA SleepMaps ==
  ASSUME IInv, NEW in \in Inputs, Sleep(in)
  PROVE  Architecture!Next
<1>1. /\ ctrl_fsm_cs = "SLEEP" /\ ~ExBusy /\ wb_wait = 0 /\ ~instr_valid_id /\ TypeOK
  BY DEF Sleep, IInv, Drained
<1>2. Halts(in, NoTarget) /\ NoTarget \in Addr \cup {NoTarget} /\ csr' = csr_n
  BY DEF Sleep, Halts, Flows
<1>3. /\ ctrl_fsm_cs' \in {"DBG_TAKEN_IF", "FIRST_FETCH", "SLEEP"} /\ debug_mode_q' = debug_mode_q
      /\ ctrl_fsm_cs' = "DBG_TAKEN_IF" => debug_force_wakeup_q'
  BY GoesTo, WakesTo DEF Sleep
<1> QED BY <1>1, <1>2, <1>3, EmptyView, SteadyWait DEF Steady

(* The first instruction is let through, or an interrupt taken.            *)
LEMMA FirstFetchMaps ==
  ASSUME IInv, NEW in \in Inputs, FirstFetch(in)
  PROVE  Architecture!Next
<1>1. /\ ctrl_fsm_cs = "FIRST_FETCH" /\ ~ExBusy /\ wb_wait = 0 /\ ~instr_valid_id /\ TypeOK
      /\ ~debug_mode_q /\ ctrl_fsm_cs' = "DECODE" /\ debug_mode_q' = debug_mode_q
      /\ pc_if \in Addr /\ IrqVector \in Addr /\ IrqVector # NoTarget
  BY GoesTo, Addresses DEF FirstFetch, IInv, Drained, DebugEntryHasReason, TypeOK
<1>2. CASE /\ irq_req /\ Halts(in, IrqVector) /\ csr_save(pc_if)
  <2>1. /\ ~branch_taken_ex /\ ~branch_taken_ex' /\ csr_n = csr /\ ArchRetired' = Bubble
        /\ Front = pc_if /\ Front' = IrqVector /\ ex' \in {Bubble, Killed}
    BY <1>1, <1>2, EmptyView
  <2>2. /\ ArchPc = pc_if /\ ArchCsr = csr_n /\ ~ArchDebug /\ ~ArchStepped
        /\ ArchPc' = IrqVector /\ ArchCsr' = csr_n' /\ ~ArchDebug' /\ ~ArchStepped'
    BY <1>1, <2>1, SteadyViews DEF SteadyView, Steady
  <2>3. csr_n' = SaveTrap(csr_n, csr_n, pc_if)
    BY <1>2, <2>1, Slots DEF csr_save, csr_n
  <2>4. m_irq_enable(csr_n) /\ "irq" \in csr_n.on
    BY <1>2, <2>1 DEF irq_req
  <2> QED BY <2>1, <2>2, <2>3, <2>4, AsInterrupt
<1>3. CASE Flows(in, NoTarget) /\ csr' = csr_n
  <2>1. NoTarget \in Addr \cup {NoTarget}
    OBVIOUS
  <2> QED BY <1>1, <1>3, <2>1, EmptyView, SteadyWait DEF Steady
<1> QED BY <1>2, <1>3 DEF FirstFetch, Halts, Flows

(* ---- DECODE without an instruction to issue --------------------------- *)
(* What came after a taken branch is dropped, and was never seen.          *)
LEMMA TakeBranchMaps ==
  ASSUME IInv, NEW in \in Inputs, TakeBranch(in)
  PROVE  Architecture!Next
<1>1. /\ ctrl_fsm_cs = "DECODE" /\ branch_taken_ex /\ TypeOK /\ csr' = csr_n
      /\ ctrl_fsm_cs' = "DECODE" /\ debug_mode_q' = debug_mode_q
  BY GoesTo DEF TakeBranch, IInv
<1>2. Flows(in, ex.addr) /\ ex.addr \in Addr \cup {NoTarget} /\ ex.addr # NoTarget
  BY <1>1, Addresses DEF TakeBranch, Flows, TypeOK
<1>3. ex' \in {Bubble, Killed}
  BY <1>1, <1>2, OpenStep DEF Flows, ex_ready, branch_taken_ex
<1>4. ~branch_taken_ex'
  BY <1>3, Slots DEF branch_taken_ex
<1>5. Front' = ex.addr /\ ArchRetired' = Bubble /\ csr_n' = csr_n
  BY <1>1, <1>2, <1>3, OpenFront, NothingRetires, WriteKept
<1>6. ArchPc = ex.addr /\ ArchCsr = csr_n /\ (ArchDebug <=> debug_mode_q) /\ ~ArchStepped
  BY <1>1 DEF ArchPc, ArchCsr, ArchDebug, ArchStepped, Leaving
<1>7. ArchPc' = ex.addr /\ ArchCsr' = csr_n' /\ (ArchDebug' <=> debug_mode_q') /\ ~ArchStepped'
  BY <1>1, <1>4, <1>5, SteadyViews DEF SteadyView, Steady
<1> QED BY <1>1, <1>5, <1>6, <1>7, AsWait

(* The next instruction comes, or not.                                     *)
LEMMA NothingToDecodeMaps ==
  ASSUME IInv, NEW in \in Inputs, NothingToDecode(in)
  PROVE  Architecture!Next
<1>1. /\ ctrl_fsm_cs = "DECODE" /\ ~branch_taken_ex /\ ~instr_valid_id /\ TypeOK
      /\ csr' = csr_n /\ ctrl_fsm_cs' = "DECODE" /\ debug_mode_q' = debug_mode_q
  BY GoesTo DEF NothingToDecode, IInv
<1>2. Flows(in, NoTarget) /\ NoTarget \in Addr \cup {NoTarget}
  BY DEF NothingToDecode, Flows
<1>3. ex' \in {Bubble, Killed, ex}
  BY <1>1, <1>2, OpenStep DEF Flows
<1>4. ~branch_taken_ex'
  BY <1>1, <1>3, Slots DEF branch_taken_ex
<1>5. Front' = Front /\ ArchRetired' = Bubble /\ csr_n' = csr_n
  BY <1>1, <1>2, <1>3, OpenFront, NothingRetires, WriteKept DEF Front
<1> QED BY <1>1, <1>4, <1>5, SteadyWait DEF Steady

(* The instruction in ID, for which debug mode will be entered, has not    *)
(* been seen.                                                              *)
LEMMA ServeDebugMaps ==
  ASSUME IInv, NEW in \in Inputs, ServeDebug(in)
  PROVE  Architecture!Next
<1>1. /\ ctrl_fsm_cs = "DECODE" /\ ~branch_taken_ex /\ instr_valid_id /\ TypeOK
      /\ csr' = csr_n /\ ctrl_fsm_cs' = "DBG_FLUSH" /\ debug_mode_q' = debug_mode_q
      /\ debug_req_entry_q'
  BY GoesTo DEF ServeDebug, Decoding, IInv
<1>2. Halts(in, NoTarget) /\ NoTarget \in Addr \cup {NoTarget}
  BY DEF ServeDebug, Halts
<1>3. ex' \in {Bubble, ex} /\ pc_id' = pc_id
  BY <1>1, <1>2, HaltedStep DEF Halts
<1>4. ArchRetired' = Bubble /\ csr_n' = csr_n
  BY <1>1, <1>2, <1>3, NothingRetires, WriteKept
<1>5. ArchPc = pc_id /\ ArchCsr = csr_n /\ (ArchDebug <=> debug_mode_q) /\ ~ArchStepped
  BY <1>1, SteadyViews DEF SteadyView, Steady, Front
<1>6. enters_at_id'
  BY <1>1 DEF enters_at_id
<1>7. ArchPc' = pc_id' /\ ArchCsr' = csr_n' /\ (ArchDebug' <=> debug_mode_q') /\ ~ArchStepped'
  BY <1>1, <1>6 DEF ArchPc, ArchCsr, ArchDebug, ArchStepped, Leaving
<1> QED BY <1>1, <1>3, <1>4, <1>5, <1>7, AsWait

(* The registers as the program sees them enable the interrupt, and the    *)
(* return address is the instruction in ID.                                *)
LEMMA TakeIrqMaps ==
  ASSUME IInv, NEW in \in Inputs, TakeIrq(in)
  PROVE  Architecture!Next
<1>1. /\ ctrl_fsm_cs = "DECODE" /\ ~branch_taken_ex /\ instr_valid_id /\ TypeOK
      /\ ~debug_mode_q /\ irq_req
      /\ ctrl_fsm_cs' = "DECODE" /\ debug_mode_q' = debug_mode_q
      /\ csr' = SaveTrap(csr_n, csr, pc_id)
      /\ pc_id \in Addr /\ IrqVector \in Addr \cup {NoTarget} /\ IrqVector # NoTarget
  BY GoesTo, Addresses DEF TakeIrq, Decoding, csr_save, IInv, TypeOK
<1>2. Halts(in, IrqVector)
  BY DEF TakeIrq, Halts
<1>3. ex' \in {Bubble, ex}
  BY <1>1, <1>2, HaltedStep DEF Halts
<1>4. ~branch_taken_ex' /\ Front' = IrqVector /\ ArchRetired' = Bubble
  BY <1>1, <1>2, <1>3, Slots, HaltedFront, NothingRetires DEF branch_taken_ex
<1>5. ArchPc = pc_id /\ ArchCsr = csr_n /\ ~ArchDebug /\ ~ArchStepped
  BY <1>1, SteadyViews DEF SteadyView, Steady, Front
<1>6. ArchPc' = IrqVector /\ ArchCsr' = csr_n' /\ ~ArchDebug' /\ ~ArchStepped'
  BY <1>1, <1>4, SteadyViews DEF SteadyView, Steady
<1>7. /\ m_irq_enable(csr_n) <=> m_irq_enable(csr)
      /\ csr_n' = SaveTrap(csr_n, csr_n, pc_id)
  <2>1. csr \in Registers /\ ex \in Slot /\ debug_mode_q \in BOOLEAN
        /\ ex.reg \notin {"mstatus", "mepc", "dcsr", "dpc"}
    BY <1>1, InDecode DEF StatusAccess, TypeOK
  <2>2. csr_n' = IF ex'.kind = "csr" THEN WriteCsr(csr', ex', debug_mode_q') ELSE csr'
    BY DEF csr_n
  <2>3. csr_n = WriteCsr(csr, ex, debug_mode_q)
    BY <2>1, WriteAgain DEF csr_n
  <2>4. /\ m_irq_enable(csr_n) <=> m_irq_enable(csr)
        /\ SaveTrap(csr_n, csr, pc_id) = SaveTrap(csr_n, csr_n, pc_id)
        /\ WriteCsr(SaveTrap(csr_n, csr, pc_id), ex, debug_mode_q) = SaveTrap(csr_n, csr, pc_id)
    BY <1>1, <2>1, <2>3, WriteAndTrap
  <2>5. csr_n' = SaveTrap(csr_n, csr, pc_id)
    <3>1. CASE ex'.kind = "csr"
      <4>1. ex' = ex
        BY <1>3, <3>1, Slots
      <4> QED BY <1>1, <2>2, <2>4, <3>1, <4>1
    <3> QED BY <1>1, <2>2, <3>1
  <2> QED BY <2>4, <2>5
<1>8. m_irq_enable(csr_n) /\ "irq" \in csr_n.on
  BY <1>1, <1>7 DEF irq_req
<1> QED BY <1>4, <1>5, <1>6, <1>7, <1>8, AsInterrupt

(* ---- DECODE ----------------------------------------------------------- *)
(* What the program sees while an instruction is in ID, and what of it the *)
(* decoder looks at.                                                       *)
LEMMA DecodingView ==
  ASSUME IInv, NEW in \in Inputs, Decode(in)
  PROVE  /\ TypeOK /\ ctrl_fsm_cs = "DECODE" /\ ~branch_taken_ex /\ instr_valid_id
         /\ ctrl_fsm_cs' = after_decode(in) /\ debug_mode_q' = debug_mode_q /\ csr' = csr_n
         /\ ArchPc = pc_id /\ ArchCsr = csr_n /\ (ArchDebug <=> debug_mode_q) /\ ~ArchStepped
         /\ debug_mode_q \/ ~trigger
         /\ debug_mode_q \/ ~trigger_match(csr_n, pc_id)
         /\ ~debug_mode_q => /\ "step" \in csr_n.on <=> single_step
                             /\ "ebreakm" \in csr_n.on <=> ebrk_force
<1>1. /\ TypeOK /\ ctrl_fsm_cs = "DECODE" /\ ~branch_taken_ex /\ instr_valid_id /\ csr' = csr_n
      /\ ctrl_fsm_cs' = after_decode(in) /\ debug_mode_q' = debug_mode_q
  BY DEF Decode, Decoding, NextState, IInv
<1>2. ArchPc = pc_id /\ ArchCsr = csr_n /\ (ArchDebug <=> debug_mode_q) /\ ~ArchStepped
  BY <1>1, SteadyViews DEF SteadyView, Steady, Front
<1>3. debug_mode_q \/ ~trigger
  BY DEF Decode, serve_debug
<1>4. ~debug_mode_q => /\ \A b \in {"step", "ebreakm", "execute"} : b \in csr_n.on <=> b \in csr.on
                       /\ csr_n.tdata2 = csr.tdata2
  BY <1>1, InDecode, WriteStep
<1>5. debug_mode_q \/ ~trigger_match(csr_n, pc_id)
  BY <1>3, <1>4 DEF trigger, trigger_match
<1> QED BY <1>1, <1>2, <1>3, <1>4, <1>5 DEF single_step, ebrk_force

(* What ID hands over, and where the next instruction then stands.         *)
LEMMA DecodeView ==
  ASSUME IInv, FetchInStep, NEW in \in Inputs, Decode(in)
  PROVE  /\ ~id_ready(in) => /\ ArchRetired' = Bubble /\ Front' = pc_id /\ instr_valid_id'
                             /\ ex' \in {Bubble, ex} /\ csr_n' = csr_n
         /\ id_ready(in) => Front' = IF instr_id.kind = "jump" THEN instr_id.addr ELSE After(pc_id)
         /\ id_ready(in) /\ Traps(instr_id, debug_mode_q)
              => ArchRetired' = Bubble /\ csr_n' = csr_n /\ ex' = Killed
         /\ id_ready(in) /\ ~Traps(instr_id, debug_mode_q)
              => /\ ArchRetired' = instr_id /\ ex' = instr_id
                 /\ csr_n' = WriteCsr(csr_n, instr_id, debug_mode_q)
<1> DEFINE hold   == stepping \/ ebreak_to_debug \/ flushes(in)
           target == IF jumps(in) THEN instr_id.addr ELSE NoTarget
<1>1. /\ TypeOK /\ ~branch_taken_ex /\ instr_valid_id /\ csr' = csr_n
      /\ debug_mode_q' = debug_mode_q /\ csr_n \in Registers /\ debug_mode_q \in BOOLEAN
      /\ instr_id \in Instructions /\ instr_id \in Slot /\ instr_id.addr # NoTarget
  BY DecodingView, WriteStep, Addresses DEF FetchInStep, TypeOK
<1>2. Stages(in, hold, FALSE, issue, target)
  BY DEF Decode
<1>3. Killed.kind = "killed" /\ instr_id.kind \notin {"killed", "bubble"}
  BY <1>1, Slots, InstructionsAssumption
<1>4. csr_n' = IF ex'.kind = "csr" THEN WriteCsr(csr_n, ex', debug_mode_q) ELSE csr_n
  BY <1>1 DEF csr_n
<1>5. ASSUME ~id_ready(in)
      PROVE  /\ ArchRetired' = Bubble /\ Front' = pc_id /\ instr_valid_id'
             /\ ex' \in {Bubble, ex} /\ csr_n' = csr_n
  <2>1. ~minstret' /\ instr_valid_id' /\ pc_id' = pc_id /\ ex' \in {Bubble, ex}
    BY <1>1, <1>2, <1>5 DEF Stages
  <2>2. csr_n' = csr_n
    BY <1>1, <2>1, WriteKept
  <2> QED BY <2>1, <2>2 DEF ArchRetired, Front
<1>6. ASSUME id_ready(in)
      PROVE  Front' = IF instr_id.kind = "jump" THEN instr_id.addr ELSE After(pc_id)
  <2>1. Front' = IF jumps(in) THEN instr_id.addr ELSE pc_if
    BY <1>1, <1>2, <1>6 DEF Stages, Front
  <2>2. CASE instr_id.kind = "jump"
    <3>1. ~illegal_insn
      BY <1>1, <2>2, Decoded
    <3>2. in.stall # "jr"
      BY <1>6 DEF id_ready, stalled
    <3>3. jumps(in) \/ jump_done_q
      BY <2>2, <3>1, <3>2 DEF jumps, is
    <3> QED BY <1>1, <2>1, <2>2, <3>3 DEF IInv, JumpDoneIsForId
  <2>3. CASE instr_id.kind # "jump"
    <3>1. ~jump_done_q /\ ~jumps(in)
      BY <1>1, <2>3 DEF IInv, JumpDoneIsForId, jumps, is
    <3> QED BY <1>1, <2>1, <2>3, <3>1 DEF FetchInStep
  <2> QED BY <2>2, <2>3
<1>7. ASSUME id_ready(in)
      PROVE  ex' = issue /\ (minstret' <=> issue.kind # "killed")
  BY <1>2, <1>7 DEF Stages
<1>8. ASSUME id_ready(in), Traps(instr_id, debug_mode_q)
      PROVE  ArchRetired' = Bubble /\ csr_n' = csr_n /\ ex' = Killed
  <2>1. issue = Killed
    BY <1>8 DEF issue
  <2> QED BY <1>3, <1>4, <1>7, <1>8, <2>1 DEF ArchRetired
<1>9. ASSUME id_ready(in), ~Traps(instr_id, debug_mode_q)
      PROVE  /\ ArchRetired' = instr_id /\ ex' = instr_id
             /\ csr_n' = WriteCsr(csr_n, instr_id, debug_mode_q)
  <2>1. issue = instr_id
    BY <1>9 DEF issue
  <2>2. instr_id.kind # "csr" => WriteCsr(csr_n, instr_id, debug_mode_q) = csr_n
    BY <1>1, WriteAgain
  <2> QED BY <1>3, <1>4, <1>7, <1>9, <2>1, <2>2 DEF ArchRetired
<1> QED BY <1>5, <1>6, <1>8, <1>9

(* The decoder in the next cycle, with the same instruction in ID.         *)
LEMMA DecodeKept ==
  ASSUME IInv, NEW in \in Inputs, Decode(in), ctrl_fsm_cs' # "DECODE" \/ ~id_ready(in)
  PROVE  /\ instr_id' = instr_id /\ pc_id' = pc_id /\ TypeOK'
         /\ illegal_insn' <=> illegal_insn
         /\ is("ebreak")' <=> is("ebreak")
         /\ is("mret")' <=> is("mret")
         /\ is("dret")' <=> is("dret")
         /\ stepping' <=> stepping
         /\ ~debug_mode_q => (ebrk_force' <=> ebrk_force) /\ (trigger' <=> trigger)
         /\ ~debug_req_entry_q' /\ ~debug_force_wakeup_q'
<1>1. TypeOK /\ ctrl_fsm_cs' = after_decode(in) /\ debug_mode_q' = debug_mode_q /\ csr' = csr_n
  BY DecodingView
<1>2. instr_id' = instr_id /\ pc_id' = pc_id
  <2>1. ~id_ready(in) \/ stepping \/ ebreak_to_debug \/ flushes(in)
    BY <1>1, AfterDecode
  <2> QED BY <2>1, DecodeStages
<1>3. TypeOK'
  BY DecodeKeeps DEF IInv
<1>4. 0 \in Addr /\ "none" \in Causes
  BY AddressAssumption DEF Addr, Causes
<1>5. /\ illegal_insn' <=> illegal_insn
      /\ is("ebreak")' <=> is("ebreak")
      /\ is("mret")' <=> is("mret")
      /\ is("dret")' <=> is("dret")
      /\ ~debug_mode_q => /\ single_step' <=> single_step
                          /\ ebrk_force' <=> ebrk_force
                          /\ trigger' <=> trigger
  BY <1>1, <1>2, <1>3, <1>4, DecoderKept
<1>6. stepping' <=> stepping
  BY <1>1, <1>5 DEF stepping
<1>7. ~debug_req_entry_q' /\ ~debug_force_wakeup_q'
  BY DecodingView, InDecode DEF Decode
<1> QED BY <1>2, <1>3, <1>5, <1>6, <1>7

(* ID waits, for a unit or for the debug program that it will enter.       *)
LEMMA DecodeWaits ==
  ASSUME IInv, FetchInStep, NEW in \in Inputs, Decode(in),
         ~id_ready(in) \/ ebreak_to_debug
  PROVE  Architecture!Next
<1>1. /\ TypeOK /\ ctrl_fsm_cs = "DECODE" /\ ~branch_taken_ex /\ instr_valid_id
      /\ debug_mode_q' = debug_mode_q
      /\ ArchPc = pc_id /\ ArchCsr = csr_n /\ (ArchDebug <=> debug_mode_q) /\ ~ArchStepped
  BY DecodingView
<1>2. ArchRetired' = Bubble /\ csr_n' = csr_n
  <2>1. ebreak_to_debug => Traps(instr_id, debug_mode_q)
    BY DEF ebreak_to_debug, is, Traps
  <2> QED BY <2>1, DecodeView
<1>3. \/ ctrl_fsm_cs' = "DECODE" /\ ~id_ready(in)
      \/ ctrl_fsm_cs' = "DBG_FLUSH" /\ ebreak_to_debug
  <2>1. ctrl_fsm_cs' = after_decode(in)
    BY DecodingView
  <2>2. ebreak_to_debug => instr_id.kind = "ebreak"
    BY DEF ebreak_to_debug, is
  <2> QED BY <1>1, <2>1, <2>2, AfterDecode
<1>4. CASE ctrl_fsm_cs' = "DECODE" /\ ~id_ready(in)
  <2>1. Front' = Front /\ ex' \in {Bubble, ex}
    BY <1>1, <1>4, DecodeView DEF Front
  <2>2. ~branch_taken_ex'
    BY <1>1, <2>1, Slots DEF branch_taken_ex
  <2> QED BY <1>1, <1>2, <1>4, <2>1, <2>2, SteadyWait DEF Steady
<1>5. CASE ctrl_fsm_cs' = "DBG_FLUSH" /\ ebreak_to_debug
  <2>1. pc_id' = pc_id /\ enters_at_id'
    <3>1. /\ pc_id' = pc_id /\ (is("ebreak")' <=> is("ebreak"))
          /\ ~debug_mode_q => (ebrk_force' <=> ebrk_force)
      BY <1>5, DecodeKept
    <3> QED BY <1>1, <1>5, <3>1 DEF ebreak_to_debug, enters_at_id
  <2>2. ArchPc' = pc_id /\ ArchCsr' = csr_n' /\ (ArchDebug' <=> debug_mode_q') /\ ~ArchStepped'
    BY <1>5, <2>1 DEF ArchPc, ArchCsr, ArchDebug, ArchStepped, Leaving
  <2> QED BY <1>1, <1>2, <2>2, AsWait
<1> QED BY <1>3, <1>4, <1>5

(* An instruction leaves ID without a flush: the address of the next one   *)
(* is at the front, or the target of the branch that goes to EX.           *)
LEMMA DecodeIssues ==
  ASSUME IInv, FetchInStep, NEW in \in Inputs, Decode(in), id_ready(in), ~ebreak_to_debug,
         ctrl_fsm_cs' # "FLUSH_EX"
  PROVE  Architecture!Next
<1>1. /\ TypeOK /\ ctrl_fsm_cs = "DECODE" /\ ~branch_taken_ex /\ instr_valid_id
      /\ debug_mode_q' = debug_mode_q
      /\ ArchPc = pc_id /\ ArchCsr = csr_n /\ (ArchDebug <=> debug_mode_q) /\ ~ArchStepped
      /\ debug_mode_q \/ ~trigger_match(csr_n, pc_id)
      /\ ~debug_mode_q => ("step" \in csr_n.on <=> single_step)
      /\ debug_mode_q \/ ~trigger
  BY DecodingView
<1>2. instr_id \in Instructions
  BY <1>1 DEF FetchInStep
<1>3. /\ ~Traps(instr_id, debug_mode_q) /\ instr_id.kind \notin {"mret", "dret"}
      /\ \/ ctrl_fsm_cs' = "DECODE" /\ ~stepping
         \/ ctrl_fsm_cs' = "DBG_WAIT_BRANCH" /\ stepping /\ instr_id.kind \in {"branch", "not_taken"}
         \/ ctrl_fsm_cs' = "DBG_FLUSH" /\ stepping /\ instr_id.kind \notin {"branch", "not_taken"}
  <2>1. ctrl_fsm_cs' = after_decode(in)
    BY DecodingView
  <2>2. CASE stepping
    <3>1. ctrl_fsm_cs' = after_step
      BY <2>1, <2>2 DEF after_decode
    <3>2. ~illegal_insn /\ ~is("ecall") /\ ~is("mret") /\ ~is("ebreak")
      BY <2>2, <3>1 DEF after_step, ebreak_to_debug
    <3>3. ~is("dret")
      BY <2>2 DEF stepping, is, illegal_insn, Legal
    <3>4. \/ ctrl_fsm_cs' = "DBG_WAIT_BRANCH" /\ instr_id.kind \in {"branch", "not_taken"}
          \/ ctrl_fsm_cs' = "DBG_FLUSH" /\ instr_id.kind \notin {"branch", "not_taken"}
      BY <3>1, <3>2 DEF after_step
    <3> QED BY <2>2, <3>2, <3>3, <3>4 DEF Traps, is, illegal_insn
  <2>3. CASE ~stepping
    <3>1. ctrl_fsm_cs' = "DECODE" /\ ~flushes(in)
      BY <2>1, <2>3 DEF after_decode
    <3>2. ~illegal_insn /\ ~is("ecall") /\ ~is("mret") /\ ~is("dret") /\ ~is("ebreak")
      BY <3>1 DEF flushes
    <3> QED BY <2>3, <3>1, <3>2 DEF Traps, is, illegal_insn
  <2> QED BY <2>2, <2>3
<1>4. /\ ArchRetired' = instr_id /\ ex' = instr_id
      /\ csr_n' = WriteCsr(csr_n, instr_id, debug_mode_q)
      /\ Front' = IF instr_id.kind = "jump" THEN instr_id.addr ELSE After(pc_id)
  BY <1>3, DecodeView
<1>5. /\ ArchPc' = NextPc(instr_id, pc_id) /\ ArchCsr' = csr_n'
      /\ (ArchDebug' <=> debug_mode_q') /\ (ArchStepped' <=> stepping)
  <2>1. ctrl_fsm_cs' # "DECODE" => /\ Front' = pc_if' /\ ~enters_at_id'
                                   /\ stepping' <=> stepping
    <3>1. SUFFICES ASSUME ctrl_fsm_cs' # "DECODE"
                   PROVE  Front' = pc_if' /\ ~enters_at_id' /\ (stepping' <=> stepping)
      OBVIOUS
    <3>2. /\ is("ebreak")' <=> is("ebreak")
          /\ stepping' <=> stepping
          /\ ~debug_mode_q => (ebrk_force' <=> ebrk_force) /\ (trigger' <=> trigger)
          /\ ~debug_req_entry_q'
      BY <3>1, DecodeKept
    <3>3. ~debug_mode_q /\ stepping
      BY <1>3, <3>1 DEF stepping
    <3>4. ~instr_valid_id'
      BY <3>3, DecodeStages
    <3>5. ~enters_at_id'
      BY <1>1, <1>3, <3>2, <3>3 DEF enters_at_id, is, Traps
    <3> QED BY <3>2, <3>4, <3>5 DEF Front
  <2>2. branch_taken_ex' <=> instr_id.kind = "branch"
    BY <1>4 DEF branch_taken_ex
  <2>3. ArchPc' = IF instr_id.kind = "branch" THEN instr_id.addr ELSE Front'
    BY <1>3, <1>4, <2>1, <2>2 DEF ArchPc, Leaving, Front
  <2>4. ArchPc' = NextPc(instr_id, pc_id)
    BY <1>4, <2>3 DEF NextPc
  <2>5. /\ ArchCsr' = csr_n' /\ (ArchDebug' <=> debug_mode_q')
        /\ ArchStepped' <=> stepping
    BY <1>3, <2>1 DEF ArchCsr, ArchDebug, ArchStepped, Leaving
  <2> QED BY <2>4, <2>5
<1>6. stepping <=> "step" \in ArchCsr.on /\ ~ArchDebug
  BY <1>1 DEF stepping
<1>7. ~Traps(instr_id, ArchDebug) /\ ArchCsr' = WriteCsr(ArchCsr, instr_id, ArchDebug)
  BY <1>1, <1>3, <1>4, <1>5, Flags DEF TypeOK
<1>8. /\ ArchRetired' = instr_id /\ ~ArchStepped
      /\ ArchDebug \/ ~trigger_match(ArchCsr, ArchPc)
      /\ ArchPc' = NextPc(instr_id, ArchPc)
      /\ ArchStepped' <=> "step" \in ArchCsr.on /\ ~ArchDebug
      /\ ArchDebug' <=> ArchDebug
  BY <1>1, <1>4, <1>5, <1>6
<1> QED BY <1>2, <1>3, <1>7, <1>8, AsExecute

(* An instruction that leaves ID through a flush: what the flush has still *)
(* to do is seen at once.                                                  *)
LEMMA DecodeFlushes ==
  ASSUME IInv, FetchInStep, NEW in \in Inputs, Decode(in), ctrl_fsm_cs' = "FLUSH_EX"
  PROVE  Architecture!Next
<1>1. /\ TypeOK /\ instr_valid_id /\ debug_mode_q' = debug_mode_q /\ csr' = csr_n
      /\ ArchPc = pc_id /\ ArchCsr = csr_n /\ (ArchDebug <=> debug_mode_q) /\ ~ArchStepped
      /\ ArchDebug \/ ~trigger_match(ArchCsr, ArchPc)
      /\ ~debug_mode_q => /\ "step" \in csr_n.on <=> single_step
                          /\ "ebreakm" \in csr_n.on <=> ebrk_force
  BY DecodingView
<1>2. instr_id \in Instructions
  BY <1>1 DEF FetchInStep
<1>3. /\ id_ready(in) /\ ~ebreak_to_debug
      /\ issue.kind \notin {"op", "mem", "jump", "branch", "not_taken"}
  <2>1. ctrl_fsm_cs' = after_decode(in)
    BY DecodingView
  <2> QED BY <1>1, <2>1, AfterDecode
<1>4. /\ instr_id' = instr_id /\ pc_id' = pc_id
      /\ illegal_insn' <=> illegal_insn
      /\ is("mret")' <=> is("mret")
      /\ is("dret")' <=> is("dret")
      /\ stepping' <=> stepping
  BY DecodeKept
<1>5. stepping' <=> "step" \in ArchCsr.on /\ ~ArchDebug
  BY <1>1, <1>4 DEF stepping
<1>6. ArchStepped' <=> "step" \in ArchCsr.on /\ ~ArchDebug
  BY <1>5 DEF ArchStepped, Leaving
<1>7. /\ Traps(instr_id, debug_mode_q) => ~is("mret") /\ ~is("dret")
      /\ ~Traps(instr_id, debug_mode_q) => (instr_id.kind = "mret" <=> is("mret"))
                                           /\ (instr_id.kind = "dret" <=> is("dret"))
  BY DEF Traps, is, illegal_insn
<1>8. ArchPc' = IF is("dret") THEN csr_n.dpc
                ELSE IF Traps(instr_id, debug_mode_q) \/ is("mret")
                  THEN IF debug_mode_q THEN DebugVector
                       ELSE IF is("mret") THEN csr_n.mepc ELSE TrapVector
                ELSE After(pc_id)
  BY <1>1, <1>4 DEF ArchPc, PcAfterLeaving, Leaving
<1>9. ArchCsr' = IF Traps(instr_id, debug_mode_q) /\ ~debug_mode_q
                   THEN SaveTrap(csr_n', csr_n', pc_id)
                 ELSE IF is("mret") /\ ~debug_mode_q THEN RestoreMret(csr_n', csr_n')
                 ELSE csr_n'
  BY <1>1, <1>4 DEF ArchCsr
<1>10. ArchDebug' <=> debug_mode_q /\ instr_id.kind # "dret"
  BY <1>1, <1>4 DEF ArchDebug, Leaving
<1>11. CASE Traps(instr_id, debug_mode_q)
  <2>1. ArchRetired' = Bubble /\ csr_n' = csr_n
    BY <1>3, <1>11, DecodeView
  <2>2. Traps(instr_id, ArchDebug)
    BY <1>1, <1>11, Flags DEF TypeOK
  <2>3. instr_id.kind = "dret" => ~debug_mode_q
    BY <1>11 DEF Traps, Legal, illegal_insn, is
  <2>4. instr_id.kind = "ebreak" => ~ArchDebug /\ "ebreakm" \notin ArchCsr.on
    <3>1. SUFFICES ASSUME instr_id.kind = "ebreak" PROVE ~ArchDebug /\ "ebreakm" \notin ArchCsr.on
      OBVIOUS
    <3>2. is("ebreak")
      <4>1. instr_id.reg = "none"
        BY <1>2, <3>1, InstructionsAssumption
      <4> QED BY <3>1, <4>1 DEF is, illegal_insn, Legal
    <3> QED BY <1>1, <1>3, <3>2 DEF ebreak_to_debug
  <2>5. IF ArchDebug THEN ArchPc' = DebugVector /\ ArchCsr' = ArchCsr
        ELSE ArchPc' = TrapVector /\ ArchCsr' = SaveTrap(ArchCsr, ArchCsr, ArchPc)
    BY <1>1, <1>7, <1>8, <1>9, <1>11, <2>1
  <2>6. ArchDebug' <=> ArchDebug
    BY <1>1, <1>10, <2>3
  <2> QED BY <1>1, <1>2, <1>6, <2>1, <2>2, <2>4, <2>5, <2>6, AsException
<1>12. CASE ~Traps(instr_id, debug_mode_q)
  <2>1. /\ ArchRetired' = instr_id /\ csr_n' = WriteCsr(csr_n, instr_id, debug_mode_q)
    BY <1>3, <1>12, DecodeView
  <2>2. instr_id.kind # "csr" => csr_n' = csr_n
    BY <1>1, <1>2, <2>1, WriteAgain, WriteStep DEF TypeOK
  <2>3. CASE instr_id.kind = "mret"
    <3>1. is("mret") /\ ~is("dret")
      BY <1>7, <1>12, <2>3
    <3>2. IF ArchDebug THEN ArchPc' = DebugVector /\ ArchCsr' = ArchCsr
          ELSE ArchPc' = ArchCsr.mepc /\ ArchCsr' = RestoreMret(ArchCsr, ArchCsr)
      BY <1>1, <1>8, <1>9, <1>12, <2>2, <2>3, <3>1
    <3>3. ArchDebug' <=> ArchDebug
      BY <1>1, <1>10, <2>3
    <3> QED BY <1>1, <1>2, <1>6, <2>1, <2>3, <3>2, <3>3, AsMret
  <2>4. CASE instr_id.kind = "dret"
    <3>1. is("dret") /\ ~is("mret") /\ debug_mode_q
      BY <1>7, <1>12, <2>4 DEF Traps, Legal
    <3>2. /\ ArchDebug /\ ArchPc' = ArchCsr.dpc /\ ArchCsr' = ArchCsr /\ ~ArchDebug' /\ ~ArchStepped'
      BY <1>1, <1>6, <1>8, <1>9, <1>10, <1>12, <2>2, <2>4, <3>1
    <3> QED BY <1>1, <1>2, <2>1, <2>4, <3>2, AsDret
  <2>5. CASE instr_id.kind \notin {"mret", "dret"}
    <3>1. ~is("mret") /\ ~is("dret")
      BY <1>7, <1>12, <2>5
    <3>2. instr_id.kind \notin {"branch", "jump"}
      BY <1>3, <1>12 DEF issue
    <3>3. ArchPc' = NextPc(instr_id, ArchPc)
      BY <1>1, <1>8, <1>12, <3>1, <3>2 DEF NextPc
    <3>4. ~Traps(instr_id, ArchDebug) /\ ArchCsr' = WriteCsr(ArchCsr, instr_id, ArchDebug)
      BY <1>1, <1>9, <1>12, <2>1, <3>1, Flags DEF TypeOK
    <3>5. ArchDebug' <=> ArchDebug
      BY <1>1, <1>10, <2>5
    <3> QED BY <1>1, <1>2, <1>6, <2>1, <2>5, <3>3, <3>4, <3>5, AsExecute
  <2> QED BY <2>3, <2>4, <2>5
<1> QED BY <1>11, <1>12

(* Every step of ID with an instruction is a step of the hart.             *)
LEMMA DecodeMaps ==
  ASSUME IInv, FetchInStep, NEW in \in Inputs, Decode(in)
  PROVE  Architecture!Next
BY DecodeWaits, DecodeIssues, DecodeFlushes, DecodeKept

(* ---- flushing the pipeline -------------------------------------------- *)
(* In a flush the registers are saved for what traps outside debug mode,   *)
(* and nothing in EX is about to write them when they are read.            *)
LEMMA FlushReads ==
  ASSUME IInv, ctrl_fsm_cs \in {"FLUSH_EX", "FLUSH_WB"}
  PROVE  /\ TypeOK /\ ~instr_valid_id
         /\ saves_pc <=> Traps(instr_id, debug_mode_q) /\ ~debug_mode_q
         /\ Traps(instr_id, debug_mode_q) \/ is("mret") \/ is("dret") => csr_n = csr
         /\ Traps(instr_id, debug_mode_q) <=> illegal_insn_q \/ is("ebreak") \/ is("ecall")
         /\ Traps(instr_id, debug_mode_q) => ~is("mret") /\ ~is("dret")
         /\ is("ebreak") => ~debug_mode_q
         /\ ~debug_force_wakeup_q
<1>1. /\ TypeOK /\ ~instr_valid_id /\ (illegal_insn_q <=> illegal_insn) /\ ~ebreak_to_debug
      /\ ~debug_force_wakeup_q /\ (ex.reg \in {"dcsr", "dpc"} => debug_mode_q)
      /\ ctrl_fsm_cs = "FLUSH_EX" => ex \in {Bubble, Killed, instr_id}
      /\ ctrl_fsm_cs = "FLUSH_WB" => ~ExBusy
  BY DEF IInv, FlushKnowsWhy, DebugEntryHasReason, StatusWriteAlone, Drained
<1>2. is("ebreak") => ~debug_mode_q
  BY <1>1 DEF ebreak_to_debug
<1>3. Traps(instr_id, debug_mode_q) <=> illegal_insn_q \/ is("ebreak") \/ is("ecall")
  BY <1>1 DEF Traps, is, illegal_insn
<1>4. Traps(instr_id, debug_mode_q) => ~is("mret") /\ ~is("dret")
  BY DEF Traps, is, illegal_insn
<1>5. saves_pc <=> Traps(instr_id, debug_mode_q) /\ ~debug_mode_q
  BY <1>1, <1>2, <1>3 DEF saves_pc, is
<1>6. ASSUME Traps(instr_id, debug_mode_q) \/ is("mret") \/ is("dret")
      PROVE  csr_n = csr
  <2>1. SUFFICES ASSUME ex.kind = "csr" PROVE FALSE
    BY DEF csr_n
  <2>2. ctrl_fsm_cs = "FLUSH_EX" /\ ex = instr_id
    BY <1>1, <2>1, Slots DEF ExBusy
  <2>3. ~Legal(instr_id, debug_mode_q)
    BY <1>6, <2>1, <2>2 DEF Traps, is
  <2> QED BY <1>1, <2>1, <2>2, <2>3 DEF Legal
<1> QED BY <1>1, <1>2, <1>3, <1>4, <1>5, <1>6

(* The decoder in the next cycle of a flush.                               *)
LEMMA FlushKept ==
  ASSUME IInv, IInv', NEW in \in Inputs, Halts(in, NoTarget),
         ~instr_valid_id, debug_mode_q' = debug_mode_q,
         csr' = csr_n \/ csr' = SaveTrap(csr_n, csr, pc_id) \/ csr' = RestoreMret(csr_n, csr)
  PROVE  /\ instr_id' = instr_id /\ pc_id' = pc_id /\ ex' \in {Bubble, ex}
         /\ ex_ready(in) => ex' = Bubble
         /\ illegal_insn' <=> illegal_insn
         /\ is("mret")' <=> is("mret")
         /\ is("dret")' <=> is("dret")
         /\ stepping' <=> stepping
         /\ ArchRetired' = Bubble
<1>1. TypeOK /\ TypeOK' /\ pc_id \in Addr /\ "none" \in Causes /\ NoTarget \in Addr \cup {NoTarget}
  BY DEF IInv, TypeOK, Causes
<1>2. instr_id' = instr_id /\ pc_id' = pc_id /\ ex' \in {Bubble, ex} /\ (ex_ready(in) => ex' = Bubble)
  BY <1>1, HaltedStep DEF Halts
<1>3. /\ illegal_insn' <=> illegal_insn
      /\ is("mret")' <=> is("mret")
      /\ is("dret")' <=> is("dret")
      /\ ~debug_mode_q => (single_step' <=> single_step)
  BY <1>1, <1>2, DecoderKept
<1>4. stepping' <=> stepping
  BY <1>3 DEF stepping
<1> QED BY <1>2, <1>3, <1>4, NothingRetires

(* The save of an exception has been seen since it left ID.                *)
LEMMA FlushExMaps ==
  ASSUME IInv, IInv', NEW in \in Inputs, FlushEx(in)
  PROVE  Architecture!Next
<1>1. /\ ctrl_fsm_cs = "FLUSH_EX" /\ debug_mode_q' = debug_mode_q
      /\ ctrl_fsm_cs' = IF ex_valid(in) THEN "FLUSH_WB" ELSE "FLUSH_EX"
      /\ Halts(in, NoTarget)
      /\ IF ex_valid(in) /\ saves_pc THEN csr' = SaveTrap(csr_n, csr, pc_id) ELSE csr' = csr_n
  BY DEF FlushEx, Halts, csr_save, Goes, NextState
<1>2. /\ TypeOK /\ ~instr_valid_id
      /\ saves_pc <=> Traps(instr_id, debug_mode_q) /\ ~debug_mode_q
      /\ Traps(instr_id, debug_mode_q) \/ is("mret") \/ is("dret") => csr_n = csr
      /\ Traps(instr_id, debug_mode_q) => ~is("mret") /\ ~is("dret")
  BY <1>1, FlushReads
<1>3. /\ instr_id' = instr_id /\ pc_id' = pc_id /\ ex' \in {Bubble, ex}
      /\ ex_ready(in) => ex' = Bubble
      /\ is("mret")' <=> is("mret")
      /\ is("dret")' <=> is("dret")
      /\ stepping' <=> stepping
      /\ ArchRetired' = Bubble
  BY <1>1, <1>2, FlushKept
<1>4. ArchDebug' <=> ArchDebug
  BY <1>1, <1>3 DEF ArchDebug, Leaving
<1>5. ArchStepped' <=> ArchStepped
  BY <1>1, <1>3 DEF ArchStepped, Leaving
<1>6. CASE ex_valid(in) /\ saves_pc
  <2>1. csr' = SaveTrap(csr_n, csr_n, pc_id) /\ csr_n' = csr'
    <3>1. ex' = Bubble
      BY <1>3, <1>6 DEF ex_valid, ex_ready
    <3> QED BY <1>1, <1>2, <1>6, <3>1, Slots DEF csr_n
  <2>2. ArchCsr' = ArchCsr
    BY <1>1, <1>2, <1>3, <1>6, <2>1 DEF ArchCsr
  <2>3. ArchPc' = ArchPc
    BY <1>1, <1>2, <1>3, <1>6 DEF ArchPc, PcAfterLeaving, Leaving
  <2> QED BY <1>3, <1>4, <1>5, <2>2, <2>3, AsWait
<1>7. CASE ~(ex_valid(in) /\ saves_pc)
  <2>1. csr' = csr_n /\ csr_n' = csr_n
    BY <1>1, <1>2, <1>3, <1>7, WriteKept
  <2>2. ArchCsr' = ArchCsr
    BY <1>1, <1>2, <1>3, <1>7, <2>1 DEF ArchCsr
  <2>3. ArchPc' = ArchPc
    BY <1>1, <1>2, <1>3, <2>1 DEF ArchPc, PcAfterLeaving, Leaving
  <2> QED BY <1>3, <1>4, <1>5, <2>2, <2>3, AsWait
<1> QED BY <1>6, <1>7

(* The jump to the handler has been seen as well.                          *)
LEMMA FlushWbTrapMaps ==
  ASSUME IInv, IInv', NEW in \in Inputs, FlushWbTrap(in)
  PROVE  Architecture!Next
<1> DEFINE target == IF debug_mode_q /\ (illegal_insn_q \/ is("ecall"))
                     THEN DebugVector ELSE TrapVector
<1>1. /\ ctrl_fsm_cs = "FLUSH_WB" /\ debug_mode_q' = debug_mode_q /\ csr' = csr_n
      /\ ctrl_fsm_cs' = IF stepping THEN "DBG_TAKEN_IF" ELSE "DECODE"
      /\ Halts(in, target) /\ debug_force_wakeup_q' = debug_force_wakeup_q
      /\ Traps(instr_id, debug_mode_q)
      /\ ~ExBusy /\ wb_wait = 0 /\ ~instr_valid_id
  <2>1. ctrl_fsm_cs = "FLUSH_WB" /\ (illegal_insn_q \/ is("ebreak") \/ is("ecall"))
    BY DEF FlushWbTrap
  <2>2. /\ Traps(instr_id, debug_mode_q) /\ ~ExBusy /\ wb_wait = 0 /\ ~instr_valid_id
    BY <2>1, FlushReads DEF IInv, Drained
  <2>3. /\ debug_mode_q' = debug_mode_q /\ csr' = csr_n
        /\ ctrl_fsm_cs' = IF stepping THEN "DBG_TAKEN_IF" ELSE "DECODE"
        /\ Halts(in, target) /\ debug_force_wakeup_q' = debug_force_wakeup_q
    BY DEF FlushWbTrap, Halts, Goes, NextState
  <2> QED BY <2>1, <2>2, <2>3
<1>2. /\ saves_pc <=> Traps(instr_id, debug_mode_q) /\ ~debug_mode_q
      /\ Traps(instr_id, debug_mode_q) <=> illegal_insn_q \/ is("ebreak") \/ is("ecall")
      /\ ~is("mret") /\ ~is("dret") /\ (is("ebreak") => ~debug_mode_q)
      /\ ~debug_force_wakeup_q
  BY <1>1, FlushReads
<1>3. target \in Addr \cup {NoTarget} /\ target # NoTarget
      /\ target = IF debug_mode_q THEN DebugVector ELSE TrapVector
  BY <1>1, <1>2, Addresses
<1> HIDE DEF target
<1>4. /\ ~branch_taken_ex' /\ csr_n = csr /\ ArchRetired' = Bubble /\ csr_n' = csr_n
      /\ Front' = target /\ ~instr_valid_id'
  BY <1>1, <1>3, EmptyView
<1>5. instr_id.kind = "dret" => ~debug_mode_q
  BY <1>1 DEF Traps, Legal
<1>6. /\ ArchPc = target /\ ArchCsr = csr_n /\ (ArchDebug <=> debug_mode_q)
      /\ (ArchStepped <=> stepping)
  BY <1>1, <1>2, <1>3, <1>5 DEF ArchPc, PcAfterLeaving, ArchCsr, ArchDebug, ArchStepped, Leaving
<1>7. stepping' <=> stepping
  BY <1>1, <1>4 DEF stepping, single_step
<1>8. /\ ArchPc' = target /\ ArchCsr' = csr_n' /\ (ArchDebug' <=> debug_mode_q')
      /\ (ArchStepped' <=> stepping)
  BY <1>1, <1>2, <1>4, <1>7, SteadyViews DEF SteadyView, Steady
<1> QED BY <1>1, <1>4, <1>6, <1>8, AsWait

(* The restored mstatus has been seen since the return left ID.            *)
LEMMA FlushWbReturnMaps ==
  ASSUME IInv, IInv', NEW in \in Inputs, FlushWbReturn(in)
  PROVE  Architecture!Next
<1>1. /\ ctrl_fsm_cs = "FLUSH_WB" /\ debug_mode_q' = debug_mode_q /\ ctrl_fsm_cs' = "XRET_JUMP"
      /\ Halts(in, NoTarget) /\ (is("mret") \/ is("dret"))
      /\ csr' = IF is("mret") /\ ~debug_mode_q THEN RestoreMret(csr_n, csr) ELSE csr_n
      /\ ~ExBusy /\ wb_wait = 0 /\ ~instr_valid_id
  BY GoesTo DEF FlushWbReturn, Halts, IInv, Drained
<1>2. csr_n = csr /\ ~Traps(instr_id, debug_mode_q) /\ csr \in Registers
  BY <1>1, FlushReads DEF TypeOK
<1>3. /\ instr_id' = instr_id /\ pc_id' = pc_id /\ ex' \in {Bubble, ex}
      /\ is("mret")' <=> is("mret")
      /\ is("dret")' <=> is("dret")
      /\ stepping' <=> stepping
      /\ ArchRetired' = Bubble
  BY <1>1, FlushKept
<1>4. csr_n' = csr' /\ csr'.mepc = csr.mepc /\ csr'.dpc = csr.dpc
  <2>1. ex'.kind # "csr"
    BY <1>1, <1>3, Slots DEF ExBusy
  <2>2. RestoreMret(csr, csr).mepc = csr.mepc /\ RestoreMret(csr, csr).dpc = csr.dpc
    BY <1>2 DEF RestoreMret, Registers
  <2> QED BY <1>1, <1>2, <2>1, <2>2 DEF csr_n
<1>5. ArchCsr' = ArchCsr
  BY <1>1, <1>2, <1>3, <1>4 DEF ArchCsr
<1>6. ArchPc' = ArchPc
  BY <1>1, <1>2, <1>3, <1>4 DEF ArchPc, PcAfterLeaving, Leaving
<1>7. (ArchDebug' <=> ArchDebug) /\ (ArchStepped' <=> ArchStepped)
  BY <1>1, <1>3 DEF ArchDebug, ArchStepped, Leaving
<1> QED BY <1>3, <1>5, <1>6, <1>7, AsWait

(* What leaves through FLUSH_WB without a trap or a return goes on behind  *)
(* itself; it is not the instruction of a single step.                     *)
LEMMA FlushWbRest ==
  ASSUME IInv, FetchInStep, StepAlone, NEW in \in Inputs, ctrl_fsm_cs = "FLUSH_WB",
         ~illegal_insn_q, ~(is("ebreak") \/ is("ecall") \/ is("mret") \/ is("dret")),
         NEW target \in {NoTarget, After(pc_id)}, Halts(in, target),
         csr' = csr_n, debug_mode_q' = debug_mode_q,
         ctrl_fsm_cs' \in {"DECODE", "WAIT_SLEEP", "DBG_TAKEN_IF"},
         ctrl_fsm_cs' = "DBG_TAKEN_IF" => debug_force_wakeup_q'
  PROVE  Architecture!Next
<1>1. /\ TypeOK /\ ~ExBusy /\ wb_wait = 0 /\ ~instr_valid_id
      /\ pc_if = After(pc_id) /\ ~Traps(instr_id, debug_mode_q)
  BY FlushReads DEF IInv, Drained, FetchInStep
<1>2. target \in Addr \cup {NoTarget}
  BY <1>1, Addresses DEF TypeOK
<1>3. /\ ~branch_taken_ex' /\ ArchRetired' = Bubble /\ csr_n' = csr_n
      /\ Front' = After(pc_id) /\ ~instr_valid_id'
  BY <1>1, <1>2, EmptyView
<1>4. ~stepping
  BY <1>1 DEF StepAlone
<1>5. instr_id.kind # "dret"
  BY <1>1 DEF Traps, is, illegal_insn
<1>6. /\ ArchPc = After(pc_id) /\ ArchCsr = csr_n /\ (ArchDebug <=> debug_mode_q) /\ ~ArchStepped
  BY <1>1, <1>4, <1>5 DEF ArchPc, PcAfterLeaving, ArchCsr, ArchDebug, ArchStepped, Leaving
<1>7. /\ ArchPc' = After(pc_id) /\ ArchCsr' = csr_n' /\ (ArchDebug' <=> debug_mode_q')
      /\ ~ArchStepped'
  BY <1>3, SteadyViews DEF SteadyView, Steady
<1> QED BY <1>3, <1>6, <1>7, AsWait

(* wfi goes to sleep, or meets a debugger at once.                         *)
LEMMA FlushWbSleepMaps ==
  ASSUME IInv, FetchInStep, StepAlone, NEW in \in Inputs, FlushWbSleep(in)
  PROVE  Architecture!Next
<1>1. /\ ctrl_fsm_cs = "FLUSH_WB" /\ ~illegal_insn_q
      /\ ~(is("ebreak") \/ is("ecall") \/ is("mret") \/ is("dret"))
  BY DEF FlushWbSleep, is
<1>2. Halts(in, NoTarget) /\ csr' = csr_n
  BY DEF FlushWbSleep, Halts
<1>3. /\ ctrl_fsm_cs' \in {"WAIT_SLEEP", "DBG_TAKEN_IF"} /\ debug_mode_q' = debug_mode_q
      /\ ctrl_fsm_cs' = "DBG_TAKEN_IF" => debug_force_wakeup_q'
  BY WakesTo DEF FlushWbSleep
<1> QED BY <1>1, <1>2, <1>3, FlushWbRest

(* fence.i, and CSR accesses that run alone.                               *)
LEMMA FlushWbOtherMaps ==
  ASSUME IInv, FetchInStep, StepAlone, NEW in \in Inputs, FlushWbOther(in)
  PROVE  Architecture!Next
<1>1. /\ ctrl_fsm_cs = "FLUSH_WB" /\ ~illegal_insn_q
      /\ ~(is("ebreak") \/ is("ecall") \/ is("mret") \/ is("dret"))
      /\ csr' = csr_n /\ ctrl_fsm_cs' = "DECODE" /\ debug_mode_q' = debug_mode_q
  BY GoesTo DEF FlushWbOther
<1>2. PICK target \in {NoTarget, After(pc_id)} : Halts(in, target)
  BY DEF FlushWbOther, Halts
<1> QED BY <1>1, <1>2, FlushWbRest

(* The target of a return was read from the same registers when it left.   *)
LEMMA XretJumpMaps ==
  ASSUME IInv, NEW in \in Inputs, XretJump(in)
  PROVE  Architecture!Next
<1> DEFINE target == IF instr_id.kind = "dret" THEN csr.dpc
                     ELSE IF debug_mode_q THEN DebugVector ELSE csr.mepc
<1>1. /\ ctrl_fsm_cs = "XRET_JUMP" /\ TypeOK /\ ~ExBusy /\ wb_wait = 0 /\ ~instr_valid_id
      /\ (is("mret") \/ is("dret")) /\ ~debug_force_wakeup_q
  BY DEF XretJump, IInv, Drained, FlushKnowsWhy, DebugEntryHasReason
<1>2. /\ ctrl_fsm_cs' = IF stepping THEN "DBG_TAKEN_IF" ELSE "DECODE"
      /\ debug_mode_q' = (debug_mode_q /\ instr_id.kind # "dret")
      /\ csr' = csr_n /\ debug_force_wakeup_q' = debug_force_wakeup_q /\ Flows(in, target)
  BY DEF XretJump, NextState, Keeps, Flows
<1>3. target \in Addr \cup {NoTarget} /\ target # NoTarget
  <2>1. csr.dpc \in Addr /\ csr.mepc \in Addr
    BY <1>1 DEF TypeOK, Registers
  <2> QED BY <2>1, Addresses
<1>4. ArchPc = target
  <2>1. ~(is("mret") /\ is("dret")) /\ ~Traps(instr_id, debug_mode_q)
        /\ (is("dret") <=> instr_id.kind = "dret")
    BY <1>1 DEF is, Traps, illegal_insn
  <2> QED BY <1>1, <2>1 DEF ArchPc, PcAfterLeaving, Leaving
<1> HIDE DEF target
<1>5. /\ ~branch_taken_ex' /\ csr_n = csr /\ ArchRetired' = Bubble /\ ex' \in {Bubble, Killed}
      /\ Front' = target /\ ~instr_valid_id'
  BY <1>1, <1>2, <1>3, EmptyView
<1>6. csr_n' = csr_n
  BY <1>2, <1>5, Slots DEF csr_n
<1>7. /\ ArchCsr = csr_n /\ (ArchStepped <=> stepping)
      /\ ArchDebug <=> debug_mode_q /\ instr_id.kind # "dret"
  BY <1>1 DEF ArchCsr, ArchDebug, ArchStepped, Leaving
<1>8. stepping => stepping'
  BY <1>2, <1>5 DEF stepping, single_step
<1>9. /\ ArchPc' = target /\ ArchCsr' = csr_n' /\ (ArchDebug' <=> debug_mode_q')
      /\ ArchStepped' <=> stepping
  BY <1>1, <1>2, <1>5, <1>8, SteadyViews DEF SteadyView, Steady
<1> QED BY <1>2, <1>4, <1>5, <1>6, <1>7, <1>9, AsWait

(* ---- entering debug mode ---------------------------------------------- *)
(* The target of a branch that was stepped reaches IF.                     *)
LEMMA DbgWaitBranchMaps ==
  ASSUME IInv, IInv', StepAlone, NEW in \in Inputs, DbgWaitBranch(in)
  PROVE  Architecture!Next
<1>1. /\ ctrl_fsm_cs = "DBG_WAIT_BRANCH" /\ TypeOK /\ TypeOK' /\ stepping /\ ~debug_mode_q
      /\ ~instr_valid_id /\ ~enters_at_id /\ csr' = csr_n
      /\ ctrl_fsm_cs' = "DBG_FLUSH" /\ debug_mode_q' = debug_mode_q
      /\ debug_req_entry_q' = debug_req_entry_q
  BY GoesTo DEF DbgWaitBranch, Keeps, IInv, DebugEntryHasReason, StepAlone, stepping
<1>2. Stages(in, TRUE, FALSE, Killed, IF branch_taken_ex THEN ex.addr ELSE NoTarget)
  BY DEF DbgWaitBranch
<1>3. /\ ex' \in {Bubble, Killed, ex} /\ ~minstret' /\ instr_id' = instr_id /\ pc_id' = pc_id
      /\ pc_if' = IF branch_taken_ex THEN ex.addr ELSE pc_if
      /\ ex_ready(in) => ex' \in {Bubble, Killed}
  <2>1. Killed.kind = "killed" /\ ex.addr # NoTarget
    BY <1>1, Slots, Addresses DEF TypeOK
  <2> QED BY <1>2, <2>1 DEF Stages
<1>4. ~branch_taken_ex' /\ csr_n' = csr_n /\ ArchRetired' = Bubble
  BY <1>1, <1>3, BranchLeaves, WriteKept DEF branch_taken_ex, ArchRetired
<1>5. ~enters_at_id' /\ stepping'
  <2>1. 0 \in Addr /\ "none" \in Causes
    BY AddressAssumption DEF Addr, Causes
  <2>2. /\ is("ebreak")' <=> is("ebreak")
        /\ single_step' <=> single_step
        /\ ebrk_force' <=> ebrk_force
        /\ trigger' <=> trigger
    BY <1>1, <1>3, <2>1, DecoderKept
  <2> QED BY <1>1, <2>2 DEF enters_at_id, stepping
<1>6. /\ ArchPc = (IF branch_taken_ex THEN ex.addr ELSE pc_if) /\ ArchCsr = csr_n
      /\ (ArchDebug <=> debug_mode_q) /\ ArchStepped
  BY <1>1 DEF ArchPc, ArchCsr, ArchDebug, ArchStepped, Leaving
<1>7. /\ ArchPc' = pc_if' /\ ArchCsr' = csr_n' /\ (ArchDebug' <=> debug_mode_q') /\ ArchStepped'
  BY <1>1, <1>4, <1>5 DEF ArchPc, ArchCsr, ArchDebug, ArchStepped, Leaving
<1> QED BY <1>1, <1>3, <1>4, <1>6, <1>7, AsWait

(* The pipeline is flushed for the debugger, to the same address.          *)
LEMMA DbgFlushMaps ==
  ASSUME IInv, IInv', NEW in \in Inputs, DbgFlush(in)
  PROVE  Architecture!Next
<1>1. /\ ctrl_fsm_cs = "DBG_FLUSH" /\ TypeOK /\ TypeOK' /\ csr' = csr_n
      /\ ctrl_fsm_cs' = IF enters_at_id THEN "DBG_TAKEN_ID" ELSE "DBG_TAKEN_IF"
      /\ debug_mode_q' = debug_mode_q /\ debug_force_wakeup_q' = debug_force_wakeup_q
      /\ ~debug_force_wakeup_q /\ ~branch_taken_ex /\ Halts(in, NoTarget)
      /\ NoTarget \in Addr \cup {NoTarget}
  BY DEF DbgFlush, Goes, NextState, Keeps, IInv, DebugEntryHasReason, BranchIsSeen,
         branch_taken_ex, Halts
<1>2. /\ ex' \in {Bubble, ex} /\ instr_id' = instr_id /\ pc_id' = pc_id /\ pc_if' = pc_if
      /\ ~instr_valid_id'
  BY <1>1, HaltedStep DEF Halts
<1>3. ~branch_taken_ex' /\ csr_n' = csr_n /\ ArchRetired' = Bubble
  BY <1>1, <1>2, Slots, WriteKept, NothingRetires DEF branch_taken_ex
<1>4. ~debug_mode_q => (single_step' <=> single_step)
  <2>1. 0 \in Addr /\ "none" \in Causes
    BY AddressAssumption DEF Addr, Causes
  <2> QED BY <1>1, <1>2, <2>1, DecoderKept
<1>5. stepping' <=> stepping
  BY <1>1, <1>4 DEF stepping
<1>6. /\ ArchPc = (IF enters_at_id THEN pc_id ELSE pc_if) /\ ArchCsr = csr_n
      /\ (ArchDebug <=> debug_mode_q) /\ (ArchStepped <=> stepping /\ ~enters_at_id)
  BY <1>1 DEF ArchPc, ArchCsr, ArchDebug, ArchStepped, Leaving
<1>7. /\ ArchPc' = (IF enters_at_id THEN pc_id' ELSE pc_if') /\ ArchCsr' = csr_n'
      /\ (ArchDebug' <=> debug_mode_q') /\ (ArchStepped' <=> stepping /\ ~enters_at_id)
  BY <1>1, <1>2, <1>3, <1>5 DEF ArchPc, ArchCsr, ArchDebug, ArchStepped, Leaving
<1> QED BY <1>1, <1>2, <1>3, <1>6, <1>7, AsWait

(* A write that is in EX when the mode changes finds dpc and cause saved,  *)
(* and is the same write in debug mode as before.                          *)
LEMMA SaveIsSeen ==
  ASSUME IInv, WriteBehindAccess, TriggerWritesInTime, NEW in \in Inputs,
         ctrl_fsm_cs \in {"DBG_TAKEN_ID", "DBG_TAKEN_IF"}, ~debug_mode_q,
         Flows(in, HaltVector), NEW a \in Addr, NEW why \in Causes,
         csr' = SaveDebug(csr_n, a, why), debug_mode_q' \in BOOLEAN
  PROVE  csr_n' = SaveDebug(csr_n, a, why)
<1>1. /\ TypeOK /\ ex.reg \notin {"dcsr", "dpc"} /\ HaltVector \in Addr \cup {NoTarget}
      /\ csr \in Registers /\ ex \in Slot /\ debug_mode_q \in BOOLEAN /\ wb_wait \in 0..MaxLatency
  BY Addresses DEF IInv, StatusWriteAlone, TypeOK
<1>2. csr_n' = IF ex'.kind = "csr" THEN WriteCsr(csr', ex', debug_mode_q') ELSE csr'
  BY DEF csr_n
<1>3. ex' \in {Bubble, Killed, ex} /\ (ex_ready(in) => ex' \in {Bubble, Killed})
  BY <1>1, OpenStep DEF Flows
<1>4. CASE ex'.kind # "csr"
  BY <1>2, <1>4
<1>5. CASE ex'.kind = "csr"
  <2>1. ex' = ex /\ ex.kind = "csr" /\ ~ex_ready(in)
    BY <1>3, <1>5, Slots
  <2>2. ~in.wb_ready /\ wb_wait \in 1..(MaxLatency - 1)
    BY <1>1, <2>1, InputTypes DEF ex_ready
  <2>3. MaxLatency > 3
    <3>1. wb_wait \notin {1, 2}
      BY <2>1 DEF WriteBehindAccess
    <3> QED BY <2>2, <3>1, InputAssumption
  <2>4. \A i \in Instructions : i.reg \notin {"tdata1", "tdata2"}
    BY <2>3, InputAssumption DEF TriggerWritesInTime
  <2>5. ex.reg \notin {"dpc", "tdata1", "tdata2"}
    <3>1. ex \in Instructions
      BY <1>1, <2>1, Slots DEF Slot
    <3> QED BY <1>1, <2>4, <3>1
  <2>6. csr_n = WriteCsr(csr, ex, debug_mode_q)
    BY <2>1 DEF csr_n
  <2>7. WriteCsr(SaveDebug(csr_n, a, why), ex, debug_mode_q') = SaveDebug(csr_n, a, why)
    BY <1>1, <2>5, <2>6, WriteAndDebug
  <2> QED BY <1>2, <1>5, <2>1, <2>7
<1> QED BY <1>4, <1>5

(* The debug program begins, with nothing in ID or taken in EX.            *)
LEMMA DebugView ==
  ASSUME IInv, NEW in \in Inputs, ctrl_fsm_cs \in {"DBG_TAKEN_ID", "DBG_TAKEN_IF"},
         NextState(in, "DECODE", TRUE), Flows(in, HaltVector)
  PROVE  /\ TypeOK /\ ~branch_taken_ex /\ debug_mode_q' = TRUE
         /\ ArchRetired' = Bubble /\ ex' \in {Bubble, Killed, ex}
         /\ ArchPc' = HaltVector /\ ArchCsr' = csr_n' /\ ArchDebug' /\ ~ArchStepped'
<1>1. /\ TypeOK /\ ~instr_valid_id /\ ~branch_taken_ex
      /\ HaltVector \in Addr \cup {NoTarget} /\ HaltVector # NoTarget
  BY Addresses DEF IInv, DebugEntryHasReason, BranchIsSeen, branch_taken_ex
<1>2. ctrl_fsm_cs' = "DECODE" /\ debug_mode_q' = TRUE
  BY DEF NextState
<1>3. ex' \in {Bubble, Killed, ex}
  BY <1>1, OpenStep DEF Flows
<1>4. ~branch_taken_ex'
  BY <1>1, <1>3, Slots DEF branch_taken_ex
<1>5. Front' = HaltVector /\ ArchRetired' = Bubble
  BY <1>1, OpenFront, NothingRetires
<1> QED BY <1>1, <1>2, <1>3, <1>4, <1>5, SteadyViews DEF SteadyView, Steady

(* To the instruction in ID: dpc is its address, and the cause stands.     *)
LEMMA DbgTakenIdMaps ==
  ASSUME IInv, WriteBehindAccess, TriggerWritesInTime, NEW in \in Inputs, DbgTakenId(in)
  PROVE  Architecture!Next
<1>1. /\ ctrl_fsm_cs = "DBG_TAKEN_ID" /\ enters_at_id /\ pc_id \in Addr /\ debug_mode_q \in BOOLEAN
      /\ ex.reg \notin {"dcsr", "dpc"} \/ debug_mode_q
  BY DEF DbgTakenId, IInv, DebugEntryHasReason, StatusWriteAlone, TypeOK
<1>2. /\ NextState(in, "DECODE", TRUE) /\ Flows(in, HaltVector)
      /\ IF debug_mode_q THEN csr' = csr_n ELSE csr' = SaveDebug(csr_n, pc_id, cause_at_id)
  BY DEF DbgTakenId, Flows, csr_save_debug
<1>3. /\ TypeOK /\ ~branch_taken_ex /\ debug_mode_q' = TRUE
      /\ ArchRetired' = Bubble /\ ex' \in {Bubble, Killed, ex}
      /\ ArchPc' = HaltVector /\ ArchCsr' = csr_n' /\ ArchDebug' /\ ~ArchStepped'
  BY <1>1, <1>2, DebugView
<1>4. /\ ArchPc = pc_id /\ ArchCsr = csr_n /\ (ArchDebug <=> debug_mode_q) /\ ~ArchStepped
  BY <1>1 DEF ArchPc, ArchCsr, ArchDebug, ArchStepped, Leaving
<1>5. CASE debug_mode_q
  <2>1. csr_n' = csr_n
    BY <1>1, <1>2, <1>3, <1>5, WriteKept
  <2> QED BY <1>3, <1>4, <1>5, <2>1, AsRestart
<1>6. CASE ~debug_mode_q
  <2>1. cause_at_id \in Causes /\ cause_at_id \notin {"step", "none"}
    BY DEF cause_at_id, Causes
  <2>2. csr_n' = SaveDebug(csr_n, pc_id, cause_at_id)
    BY <1>1, <1>2, <1>3, <1>6, <2>1, SaveIsSeen
  <2>3. /\ \A b \in {"step", "ebreakm", "execute"} : b \in csr_n.on <=> b \in csr.on
        /\ csr_n.tdata2 = csr.tdata2
    BY <1>1, <1>3, <1>6, WriteStep
  <2>4. cause_at_id = "trigger" => trigger_match(csr_n, pc_id)
    BY <2>3 DEF cause_at_id, trigger, trigger_match
  <2>5. cause_at_id = "ebreak" => "ebreakm" \in csr_n.on
    BY <1>1, <1>6, <2>3 DEF cause_at_id, enters_at_id, ebrk_force
  <2> QED BY <1>3, <1>4, <1>6, <2>1, <2>2, <2>4, <2>5, AsEnterDebug
<1> QED BY <1>5, <1>6

(* To the next instruction from IF: the step that was seen, or a wake-up.  *)
LEMMA DbgTakenIfMaps ==
  ASSUME IInv, WriteBehindAccess, TriggerWritesInTime, NEW in \in Inputs, DbgTakenIf(in)
  PROVE  Architecture!Next
<1> DEFINE why == IF debug_force_wakeup_q THEN "haltreq"
                  ELSE IF single_step THEN "step" ELSE "ebreak"
<1>1. /\ ctrl_fsm_cs = "DBG_TAKEN_IF" /\ ~debug_mode_q /\ (single_step \/ debug_force_wakeup_q)
      /\ pc_if \in Addr /\ ~instr_valid_id
  BY DEF DbgTakenIf, IInv, DebugEntryHasReason, TypeOK
<1>2. /\ NextState(in, "DECODE", TRUE) /\ Flows(in, HaltVector)
      /\ csr' = SaveDebug(csr_n, pc_if, why)
  BY DEF DbgTakenIf, Flows, csr_save_debug
<1>3. /\ TypeOK /\ ~branch_taken_ex /\ debug_mode_q' = TRUE
      /\ ArchRetired' = Bubble
      /\ ArchPc' = HaltVector /\ ArchCsr' = csr_n' /\ ArchDebug' /\ ~ArchStepped'
  BY <1>1, <1>2, DebugView
<1>4. /\ why \in Causes /\ why \notin {"trigger", "ebreak", "none"}
      /\ why = "step" <=> stepping /\ ~debug_force_wakeup_q
  BY <1>1 DEF Causes, stepping
<1> HIDE DEF why
<1>5. csr_n' = SaveDebug(csr_n, pc_if, why)
  BY <1>1, <1>2, <1>3, <1>4, SaveIsSeen
<1>6. /\ ArchPc = pc_if /\ ArchCsr = csr_n /\ ~ArchDebug
      /\ ArchStepped <=> stepping /\ ~debug_force_wakeup_q
  BY <1>1, <1>3, SteadyViews DEF SteadyView, Steady, Front
<1> QED BY <1>3, <1>4, <1>5, <1>6, AsEnterDebug

(* ---- IF in step with ID ----------------------------------------------- *)
(* IF stays behind ID when the stages are halted, ...                      *)
LEMMA FetchHalted ==
  ASSUME FetchInStep, TypeOK, NEW in \in Inputs, NEW target \in Addr \cup {NoTarget},
         Halts(in, target),
         ctrl_fsm_cs' \in {"FLUSH_EX", "FLUSH_WB"}
           => ctrl_fsm_cs = "FLUSH_EX" /\ target = NoTarget
  PROVE  FetchInStep'
<1>1. /\ pc_id' = pc_id /\ ~instr_valid_id'
      /\ pc_if' = IF target # NoTarget THEN target ELSE pc_if
  BY HaltedStep DEF Halts
<1> QED BY <1>1 DEF FetchInStep, After

(* ... and when they move: the PC is set only with nothing left in ID.     *)
LEMMA FetchFlows ==
  ASSUME FetchInStep, TypeOK, NEW in \in Inputs, NEW target \in Addr \cup {NoTarget},
         Flows(in, target), target = NoTarget \/ ~instr_valid_id \/ branch_taken_ex,
         JumpDone(in, jump_done_q), ctrl_fsm_cs' \notin {"FLUSH_EX", "FLUSH_WB"}
  PROVE  FetchInStep'
<1> DEFINE if_valid == id_ready(in) /\ in.fetch /\ target = NoTarget
<1>1. CASE if_valid
  <2>1. pc_id' = pc_if /\ instr_id' \in Instructions /\ pc_if' = After(pc_if)
    BY <1>1 DEF Flows, Stages
  <2> QED BY <2>1 DEF FetchInStep, After
<1>2. CASE ~if_valid
  <2>1. /\ pc_id' = pc_id /\ instr_id' = instr_id
        /\ instr_valid_id' => instr_valid_id /\ ~id_ready(in) /\ ~branch_taken_ex
        /\ pc_if' = IF target # NoTarget THEN target ELSE pc_if
    BY <1>2 DEF Flows, Stages
  <2>2. instr_valid_id' => pc_if' = pc_if /\ (jump_done_q' <=> jump_done_q)
    BY <2>1 DEF JumpDone
  <2> QED BY <2>1, <2>2 DEF FetchInStep, After
<1> QED BY <1>1, <1>2

(* With an instruction in ID: a jump has moved IF, or is no jump.          *)
LEMMA FetchDecode ==
  ASSUME IInv, FetchInStep, NEW in \in Inputs, Decode(in)
  PROVE  FetchInStep'
<1> DEFINE hold   == stepping \/ ebreak_to_debug \/ flushes(in)
           target == IF jumps(in) THEN instr_id.addr ELSE NoTarget
<1>1. /\ TypeOK /\ instr_valid_id /\ ~branch_taken_ex
      /\ Stages(in, hold, FALSE, issue, target) /\ JumpDone(in, jumps(in) \/ jump_done_q)
      /\ ctrl_fsm_cs' = after_decode(in) /\ instr_id \in Instructions
  BY DecodingView DEF Decode, FetchInStep
<1>2. instr_id.addr # NoTarget
  BY <1>1, Addresses DEF TypeOK
<1>3. instr_valid_id' => instr_id' \in Instructions
  BY <1>1 DEF Stages
<1>4. ASSUME instr_valid_id', ~jump_done_q'
      PROVE  pc_if' = After(pc_id')
  <2>1. CASE id_ready(in)
    <3>1. pc_id' = pc_if /\ pc_if' = After(pc_if)
      BY <1>1, <1>4, <2>1 DEF Stages
    <3> QED BY <3>1
  <2>2. CASE ~id_ready(in)
    <3>1. ~jumps(in) /\ ~jump_done_q
      BY <1>1, <1>4, <2>2 DEF JumpDone
    <3>2. pc_id' = pc_id /\ pc_if' = pc_if
      BY <1>1, <2>2, <3>1 DEF Stages
    <3> QED BY <1>1, <3>1, <3>2 DEF FetchInStep
  <2> QED BY <2>1, <2>2
<1>5. ASSUME ctrl_fsm_cs' \in {"FLUSH_EX", "FLUSH_WB"}
      PROVE  pc_if' = After(pc_id')
  <2>1. /\ ctrl_fsm_cs' = "FLUSH_EX" /\ id_ready(in) /\ (stepping \/ flushes(in))
        /\ issue.kind \notin {"op", "mem", "jump", "branch", "not_taken"}
    BY <1>1, <1>5, AfterDecode
  <2>2. instr_id.kind # "jump"
    BY <1>1, <2>1, Decoded DEF issue
  <2>3. Front' = After(pc_id)
    BY <2>1, <2>2, DecodeView
  <2>4. ~instr_valid_id' /\ pc_id' = pc_id
    BY <2>1, DecodeStages
  <2> QED BY <2>3, <2>4 DEF Front
<1> QED BY <1>3, <1>4, <1>5 DEF FetchInStep, After

(* The nineteen other steps.                                               *)
LEMMA FetchInStepNext ==
  ASSUME IInv, FetchInStep, NEW in \in Inputs, Step(in)
  PROVE  FetchInStep'
<1>1. /\ TypeOK /\ NoTarget \in Addr \cup {NoTarget}
      /\ {Boot, TrapVector, IrqVector, HaltVector, DebugVector} \subseteq Addr
      /\ ex.addr \in Addr /\ After(pc_id) \in Addr /\ csr.dpc \in Addr /\ csr.mepc \in Addr
  BY Addresses, AddressAssumption DEF IInv, TypeOK, Registers
<1>2. CASE Reset(in)
  <2> DEFINE input == [in EXCEPT !.fetch = FALSE]
  <2>1. input \in Inputs /\ ~input.fetch
    BY DEF Inputs
  <2>2. Flows(input, NoTarget) /\ ~ExBusy /\ wb_wait = 0 /\ ~instr_valid_id
        /\ ctrl_fsm_cs' \in {"RESET", "BOOT_SET"}
    BY <1>2 DEF Reset, Flows, IInv, Drained, Goes, NextState
  <2> HIDE DEF input
  <2>3. ~instr_valid_id'
    BY <1>1, <2>1, <2>2, EmptyStep DEF Flows
  <2> QED BY <2>2, <2>3 DEF FetchInStep
<1>3. CASE BootSet(in) \/ FirstFetch(in) \/ NothingToDecode(in) \/ TakeBranch(in)
  <2>1. /\ ctrl_fsm_cs' \in {"DBG_TAKEN_IF", "FIRST_FETCH", "DECODE"}
        /\ JumpDone(in, jump_done_q) /\ (~instr_valid_id \/ branch_taken_ex)
    BY <1>3 DEF BootSet, FirstFetch, NothingToDecode, TakeBranch, WakeUp, Goes, NextState,
                IInv, Drained
  <2>2. \E target \in Addr \cup {NoTarget} : Flows(in, target) \/ Halts(in, target)
    BY <1>1, <1>3 DEF BootSet, FirstFetch, NothingToDecode, TakeBranch, Flows, Halts
  <2> QED BY <1>1, <2>1, <2>2, FetchHalted, FetchFlows
<1>4. CASE \/ WaitSleep(in) \/ Sleep(in) \/ ServeDebug(in) \/ TakeIrq(in) \/ FlushWbTrap(in)
           \/ FlushWbReturn(in) \/ FlushWbSleep(in) \/ FlushWbOther(in) \/ DbgFlush(in)
  <2>1. ctrl_fsm_cs' \notin {"FLUSH_EX", "FLUSH_WB"}
    BY <1>4 DEF WaitSleep, Sleep, ServeDebug, TakeIrq, FlushWbTrap, FlushWbReturn, FlushWbSleep,
                FlushWbOther, DbgFlush, WakeUp, Goes, NextState
  <2>2. \E target \in Addr \cup {NoTarget} : Halts(in, target)
    BY <1>1, <1>4 DEF WaitSleep, Sleep, ServeDebug, TakeIrq, FlushWbTrap, FlushWbReturn,
                      FlushWbSleep, FlushWbOther, DbgFlush, Halts
  <2> QED BY <1>1, <2>1, <2>2, FetchHalted
<1>5. CASE FlushEx(in)
  BY <1>1, <1>5, FetchHalted DEF FlushEx, Halts
<1>6. CASE XretJump(in) \/ DbgTakenId(in) \/ DbgTakenIf(in)
  <2>1. /\ ctrl_fsm_cs' \in {"DBG_TAKEN_IF", "DECODE"}
        /\ JumpDone(in, jump_done_q) /\ ~instr_valid_id
    BY <1>6 DEF XretJump, DbgTakenId, DbgTakenIf, NextState, IInv, Drained, DebugEntryHasReason
  <2>2. \E target \in Addr \cup {NoTarget} : Flows(in, target)
    BY <1>1, <1>6 DEF XretJump, DbgTakenId, DbgTakenIf, Flows
  <2> QED BY <1>1, <2>1, <2>2, FetchFlows
<1>7. CASE DbgWaitBranch(in)
  <2>1. ctrl_fsm_cs' = "DBG_FLUSH" /\ ~instr_valid_id
    BY <1>7, GoesTo DEF DbgWaitBranch, IInv, DebugEntryHasReason
  <2>2. ~instr_valid_id'
    BY <1>7, <2>1 DEF DbgWaitBranch, Stages
  <2> QED BY <2>1, <2>2 DEF FetchInStep
<1>8. CASE Decode(in)
  BY <1>8, FetchDecode
<1> QED BY <1>2, <1>3, <1>4, <1>5, <1>6, <1>7, <1>8 DEF Step

(* ---- a single step ---------------------------------------------------- *)
(* What an empty EX and WB leave behind: nothing.                          *)
LEMMA StaysEmpty ==
  ASSUME TypeOK, NEW in \in Inputs, ~ExBusy, wb_wait = 0,
         NEW target \in Addr \cup {NoTarget},
         Halts(in, target) \/ Flows(in, target)
  PROVE  ~ExBusy' /\ wb_wait' = 0 /\ ex' \in {Bubble, Killed}
<1>1. in.wb_ready /\ ex_ready(in) /\ ex.kind # "mem"
  BY EmptyStage
<1>2. ex' \in {Bubble, Killed} /\ wb_wait' = 0
  BY <1>1, HaltedStep, OpenStep DEF Halts, Flows
<1> QED BY <1>2, Slots DEF ExBusy

(* In DECODE a step is not single because of what is in EX or is done.     *)
LEMMA StillStepping ==
  ASSUME IInv, ctrl_fsm_cs = "DECODE", NEW a \in Addr,
         csr' = csr_n \/ csr' = SaveTrap(csr_n, csr, a),
         debug_mode_q' = debug_mode_q, stepping'
  PROVE  stepping
<1>1. TypeOK /\ ~debug_mode_q /\ ex.reg \notin {"dcsr", "dpc"} /\ "none" \in Causes
  BY InDecode DEF stepping, Causes
<1>2. single_step' <=> single_step
  BY <1>1, RegistersStep
<1> QED BY <1>1, <1>2 DEF stepping

(* The instruction of a single step leaves ID at once, ...                 *)
LEMMA StepAloneDecode ==
  ASSUME IInv, StepAlone, NEW in \in Inputs, Decode(in)
  PROVE  StepAlone'
<1> SUFFICES ASSUME stepping' PROVE StepAlone'
  BY DEF StepAlone
<1>1. /\ TypeOK /\ ctrl_fsm_cs = "DECODE" /\ ~branch_taken_ex /\ csr' = csr_n
      /\ debug_mode_q' = debug_mode_q /\ ctrl_fsm_cs' = after_decode(in)
      /\ (debug_mode_q \/ ~trigger) /\ pc_id \in Addr
  BY DecodingView DEF TypeOK
<1>2. stepping /\ ~ExBusy /\ wb_wait = 0 /\ ~debug_mode_q
  BY <1>1, StillStepping DEF StepAlone, stepping
<1>3. id_ready(in)
  BY <1>1, <1>2, EmptyStage
<1>4. ctrl_fsm_cs' = after_step /\ ctrl_fsm_cs' # "DECODE" /\ ctrl_fsm_cs' # "FLUSH_WB"
  BY <1>1, <1>2, <1>3 DEF after_decode, after_step
<1>5. /\ instr_id' = instr_id /\ (is("mret")' <=> is("mret"))
      /\ (trigger' <=> trigger) /\ ~debug_req_entry_q'
  BY <1>2, <1>4, DecodeKept
<1>6. ASSUME ctrl_fsm_cs' = "FLUSH_EX"
      PROVE  (Traps(instr_id, debug_mode_q) \/ is("mret"))'
  <2>1. Traps(instr_id, debug_mode_q) \/ is("mret")
    BY <1>4, <1>6 DEF after_step, Traps, illegal_insn, is
  <2> QED BY <1>1, <1>5, <2>1
<1>7. ASSUME ctrl_fsm_cs' = "DBG_WAIT_BRANCH"
      PROVE  ~enters_at_id' /\ ex'.kind \in {"branch", "not_taken"}
  <2>1. instr_id.kind \in {"branch", "not_taken"}
    BY <1>4, <1>7 DEF after_step
  <2>2. issue = instr_id
    BY <1>1, <2>1, Decoded DEF issue
  <2>3. ex' = instr_id
    BY <1>3, <2>2, DecodeStages
  <2>4. ~is("ebreak")' /\ ~trigger' /\ ~debug_mode_q'
    BY <1>1, <1>2, <1>5, <2>1 DEF is
  <2> QED BY <1>5, <2>1, <2>3, <2>4 DEF enters_at_id
<1> QED BY <1>4, <1>6, <1>7 DEF StepAlone

(* ... and no other step puts one before the next.                         *)
LEMMA StepAloneNext ==
  ASSUME IInv, IInv', StepAlone, NEW in \in Inputs, Step(in)
  PROVE  StepAlone'
<1>1. /\ TypeOK /\ NoTarget \in Addr \cup {NoTarget} /\ pc_id \in Addr /\ pc_if \in Addr
      /\ {Boot, TrapVector, IrqVector, HaltVector, DebugVector} \subseteq Addr
      /\ ex.addr \in Addr /\ After(pc_id) \in Addr /\ csr.dpc \in Addr /\ csr.mepc \in Addr
  BY Addresses, AddressAssumption DEF IInv, TypeOK, Registers
<1>2. CASE \/ Reset(in) \/ BootSet(in) \/ WaitSleep(in) \/ Sleep(in) \/ ServeDebug(in)
           \/ FlushWbReturn(in) \/ FlushWbSleep(in) \/ DbgWaitBranch(in) \/ DbgFlush(in)
  <2>1. ctrl_fsm_cs' \notin {"DECODE", "FLUSH_EX", "FLUSH_WB", "DBG_WAIT_BRANCH"}
    BY <1>2 DEF Reset, BootSet, WaitSleep, Sleep, ServeDebug, FlushWbReturn, FlushWbSleep,
                DbgWaitBranch, DbgFlush, WakeUp, Goes, NextState
  <2> QED BY <2>1 DEF StepAlone
<1>3. CASE DbgTakenId(in) \/ DbgTakenIf(in)
  BY <1>3 DEF DbgTakenId, DbgTakenIf, NextState, StepAlone, stepping
<1>4. CASE FirstFetch(in) \/ FlushWbTrap(in) \/ FlushWbOther(in) \/ XretJump(in)
  <2>1. /\ ctrl_fsm_cs \in {"FIRST_FETCH", "FLUSH_WB", "XRET_JUMP"}
        /\ ctrl_fsm_cs' \in {"DECODE", "DBG_TAKEN_IF"}
    BY <1>4 DEF FirstFetch, FlushWbTrap, FlushWbOther, XretJump, Goes, NextState
  <2>2. \E target \in Addr \cup {NoTarget} : Halts(in, target) \/ Flows(in, target)
    BY <1>1, <1>4 DEF FirstFetch, FlushWbTrap, FlushWbOther, XretJump, Halts, Flows
  <2>3. ~ExBusy' /\ wb_wait' = 0
    BY <1>1, <2>1, <2>2, StaysEmpty DEF IInv, Drained
  <2> QED BY <2>1, <2>3 DEF StepAlone
<1>5. CASE TakeBranch(in) \/ NothingToDecode(in) \/ TakeIrq(in)
  <2>1. /\ ctrl_fsm_cs = "DECODE" /\ ctrl_fsm_cs' = "DECODE"
        /\ debug_mode_q' = debug_mode_q
    BY <1>5 DEF TakeBranch, NothingToDecode, TakeIrq, Decoding, Goes, NextState
  <2>2. csr' = csr_n \/ csr' = SaveTrap(csr_n, csr, pc_id)
    BY <1>5 DEF TakeBranch, NothingToDecode, TakeIrq, csr_save
  <2>3. \E target \in Addr \cup {NoTarget} : Halts(in, target) \/ Flows(in, target)
    BY <1>1, <1>5 DEF TakeBranch, NothingToDecode, TakeIrq, Halts, Flows
  <2>4. stepping' => stepping
    BY <1>1, <2>1, <2>2, StillStepping
  <2>5. stepping' => ~ExBusy' /\ wb_wait' = 0
    BY <1>1, <2>1, <2>3, <2>4, StaysEmpty DEF StepAlone
  <2> QED BY <2>1, <2>5 DEF StepAlone
<1>6. CASE Decode(in)
  BY <1>6, StepAloneDecode
<1>7. CASE FlushEx(in)
  <2>1. /\ ctrl_fsm_cs = "FLUSH_EX" /\ ctrl_fsm_cs' \in {"FLUSH_EX", "FLUSH_WB"}
        /\ debug_mode_q' = debug_mode_q /\ Halts(in, NoTarget)
        /\ csr' = csr_n \/ csr' = SaveTrap(csr_n, csr, pc_id)
    BY <1>7 DEF FlushEx, Goes, NextState, Halts, csr_save
  <2>2. ~instr_valid_id
    BY <2>1, FlushReads
  <2>3. instr_id' = instr_id /\ (is("mret")' <=> is("mret")) /\ (stepping' <=> stepping)
    BY <2>1, <2>2, FlushKept
  <2> QED BY <2>1, <2>3 DEF StepAlone
<1> QED BY <1>2, <1>3, <1>4, <1>5, <1>6, <1>7 DEF Step

(* ---- a write that the debugger meets ---------------------------------- *)
(* A CSR instruction that does not leave EX waits for an access in WB.     *)
LEMMA WriteWaits ==
  ASSUME TypeOK, NEW in \in Inputs, NEW halt_if \in BOOLEAN, NEW halt_id \in BOOLEAN,
         NEW issued \in Slot, NEW target \in Addr \cup {NoTarget},
         Stages(in, halt_if, halt_id, issued, target),
         halt_id \/ ~id_ready(in), ex'.kind = "csr"
  PROVE  ex' = ex /\ wb_wait \in Nat /\ wb_wait >= 1 /\ wb_wait' = wb_wait + 1
<1>1. ex' = ex /\ ~ex_ready(in)
  BY Slots DEF Stages
<1>2. ~in.wb_ready
  BY <1>1, InputTypes DEF ex_ready
<1>3. wb_wait' = wb_wait + 1
  BY <1>1, <1>2 DEF Stages, ex_valid
<1> QED BY <1>1, <1>2, <1>3, InputTypes, InputAssumption DEF TypeOK

(* What is written while the debugger comes in was behind an access before.*)
LEMMA WriteBehindAccessNext ==
  ASSUME IInv, StepAlone, WriteBehindAccess, NEW in \in Inputs, Step(in)
  PROVE  WriteBehindAccess'
<1> SUFFICES ASSUME ex'.kind = "csr", ~debug_mode_q',
                    ctrl_fsm_cs' \in {"DBG_FLUSH", "DBG_TAKEN_ID", "DBG_TAKEN_IF"}
             PROVE  WriteBehindAccess'
  BY DEF WriteBehindAccess
<1>1. /\ TypeOK /\ NoTarget \in Addr \cup {NoTarget} /\ pc_id \in Addr /\ pc_if \in Addr
      /\ {Boot, TrapVector, IrqVector, HaltVector, DebugVector} \subseteq Addr
      /\ ex.addr \in Addr /\ After(pc_id) \in Addr /\ csr.dpc \in Addr /\ csr.mepc \in Addr
  BY Addresses, AddressAssumption DEF IInv, TypeOK, Registers
<1>2. CASE \/ Reset(in) \/ WaitSleep(in) \/ FirstFetch(in) \/ TakeBranch(in)
           \/ NothingToDecode(in) \/ TakeIrq(in) \/ FlushEx(in) \/ FlushWbReturn(in)
           \/ FlushWbOther(in) \/ DbgTakenId(in) \/ DbgTakenIf(in)
  BY <1>2 DEF Reset, WaitSleep, FirstFetch, TakeBranch, NothingToDecode, TakeIrq, FlushEx,
              FlushWbReturn, FlushWbOther, DbgTakenId, DbgTakenIf, Goes, NextState
<1>3. CASE BootSet(in) \/ Sleep(in) \/ FlushWbTrap(in) \/ FlushWbSleep(in) \/ XretJump(in)
  <2>1. ctrl_fsm_cs \in {"BOOT_SET", "SLEEP", "FLUSH_WB", "XRET_JUMP"}
    BY <1>3 DEF BootSet, Sleep, FlushWbTrap, FlushWbSleep, XretJump
  <2>2. \E target \in Addr \cup {NoTarget} : Halts(in, target) \/ Flows(in, target)
    BY <1>1, <1>3 DEF BootSet, Sleep, FlushWbTrap, FlushWbSleep, XretJump, Halts, Flows
  <2>3. ex' \in {Bubble, Killed}
    BY <1>1, <2>1, <2>2, StaysEmpty DEF IInv, Drained
  <2> QED BY <2>3, Slots
<1>4. CASE ServeDebug(in)
  <2>1. ctrl_fsm_cs' = "DBG_FLUSH" /\ Stages(in, TRUE, TRUE, Killed, NoTarget)
    BY <1>4, GoesTo DEF ServeDebug
  <2>2. wb_wait \in Nat /\ wb_wait >= 1 /\ wb_wait' = wb_wait + 1
    BY <1>1, <2>1, WriteWaits, Slots
  <2>3. wb_wait' # 1
    BY <2>2
  <2> QED BY <2>1, <2>3 DEF WriteBehindAccess
<1>5. CASE Decode(in)
  <2> DEFINE hold   == stepping \/ ebreak_to_debug \/ flushes(in)
             target == IF jumps(in) THEN instr_id.addr ELSE NoTarget
  <2>1. /\ ctrl_fsm_cs = "DECODE" /\ ctrl_fsm_cs' = after_decode(in)
        /\ Stages(in, hold, FALSE, issue, target) /\ hold \in BOOLEAN
        /\ issue \in Slot /\ target \in Addr \cup {NoTarget}
    BY <1>1, <1>5, Addresses, Slots
       DEF Decode, Decoding, NextState, TypeOK, issue, stepping, ebreak_to_debug, flushes, is,
           illegal_insn, wfi_active, StatusAccess
  <2>2. ctrl_fsm_cs' = "DBG_FLUSH"
    BY <1>1, <2>1, AfterDecode
  <2>3. CASE ~id_ready(in)
    <3> HIDE DEF hold, target
    <3>1. wb_wait \in Nat /\ wb_wait >= 1 /\ wb_wait' = wb_wait + 1
      BY <1>1, <2>1, <2>3, WriteWaits
    <3>2. wb_wait' # 1
      BY <3>1
    <3> QED BY <2>2, <3>2 DEF WriteBehindAccess
  <2>4. CASE id_ready(in)
    <3>1. ex' = issue
      BY <1>5, <2>4, DecodeStages
    <3>2. ~ebreak_to_debug
      <4>1. ~is("ebreak")
        BY <1>1, <3>1, Decoded, Slots
      <4> QED BY <4>1 DEF ebreak_to_debug
    <3>3. stepping
      BY <1>1, <2>1, <2>2, <3>2, AfterDecode
    <3>4. ~ExBusy /\ wb_wait = 0
      BY <2>1, <3>3 DEF StepAlone
    <3>5. in.wb_ready /\ ex.kind # "mem"
      BY <1>1, <3>4, EmptyStage
    <3>6. wb_wait' = 0
      BY <2>1, <3>5 DEF Stages
    <3> QED BY <2>2, <3>6 DEF WriteBehindAccess
  <2> QED BY <2>3, <2>4
<1>6. CASE DbgWaitBranch(in)
  <2>1. ex.kind \in {"branch", "not_taken"}
    BY <1>6 DEF DbgWaitBranch, IInv, DebugEntryHasReason, StepAlone
  <2>2. ex' \in {Killed, Bubble, ex}
    BY <1>6 DEF DbgWaitBranch, Stages
  <2> QED BY <2>1, <2>2, Slots
<1>7. CASE DbgFlush(in)
  <2>1. /\ ctrl_fsm_cs = "DBG_FLUSH" /\ ctrl_fsm_cs' \in {"DBG_TAKEN_ID", "DBG_TAKEN_IF"}
        /\ debug_mode_q' = debug_mode_q /\ Stages(in, TRUE, TRUE, Killed, NoTarget)
    BY <1>7, GoesTo DEF DbgFlush
  <2>2. ex' = ex /\ wb_wait \in Nat /\ wb_wait >= 1 /\ wb_wait' = wb_wait + 1
    BY <1>1, <2>1, WriteWaits, Slots
  <2>3. wb_wait # 1
    BY <2>1, <2>2 DEF WriteBehindAccess
  <2> QED BY <2>1, <2>2, <2>3 DEF WriteBehindAccess
<1> QED BY <1>2, <1>3, <1>4, <1>5, <1>6, <1>7 DEF Step

(* ---- the pipeline implements the hart --------------------------------- *)
(* One clock edge keeps the three together.                                *)
LEMMA FlowStep ==
  ASSUME IInv, IInv', FlowInv, [Next]_vars
  PROVE  FlowInv'
<1>1. CASE UNCHANGED vars
  BY <1>1 DEF FlowInv, FetchInStep, StepAlone, WriteBehindAccess, vars, ctrlVars, stageVars,
              stepping, single_step, ExBusy, Traps, Legal, is, illegal_insn, enters_at_id,
              trigger, ebrk_force
<1>2. CASE Next
  <2>1. PICK in \in Inputs : Step(in)
    BY <1>2 DEF Next
  <2> QED BY <2>1, FetchInStepNext, StepAloneNext, WriteBehindAccessNext DEF FlowInv
<1> QED BY <1>1, <1>2

(* In reset nothing flows.                                                 *)
LEMMA FlowInitial == Init => FlowInv
<1> SUFFICES ASSUME Init PROVE FlowInv
  OBVIOUS
<1>1. ctrl_fsm_cs = "RESET" /\ ~instr_valid_id /\ ex = Bubble
  BY DEF Init
<1> QED BY <1>1, Slots DEF FlowInv, FetchInStep, StepAlone, WriteBehindAccess

(* The flow of instructions: IF stands right behind ID, an instruction of  *)
(* a single step runs alone, and a CSR write that meets the entry of the   *)
(* debugger waits for an access that is in WB already.                     *)
THEOREM FlowInvariance == Spec => [](IInv /\ FlowInv)
<1>1. Init => IInv /\ FlowInv
  BY Initial, FlowInitial
<1>2. IInv /\ FlowInv /\ [Next]_vars => (IInv /\ FlowInv)'
  BY StepKeeps, FlowStep
<1> QED BY <1>1, <1>2, PTL DEF Spec

(* IF stands right behind ID, so that the address a trap, a wake-up or     *)
(* the debugger resumes at is at hand.                                     *)
THEOREM FetchInStepHolds == Spec => []FetchInStep
<1>1. FlowInv => FetchInStep
  BY DEF FlowInv
<1> QED BY <1>1, FlowInvariance, PTL

(* An instruction of a single step runs alone.                             *)
THEOREM StepAloneHolds == Spec => []StepAlone
<1>1. FlowInv => StepAlone
  BY DEF FlowInv
<1> QED BY <1>1, FlowInvariance, PTL

(* A CSR write that is in EX when the debugger is entered has waited for   *)
(* an access in WB since before.                                           *)
THEOREM WriteBehindAccessHolds == Spec => []WriteBehindAccess
<1>1. FlowInv => WriteBehindAccess
  BY DEF FlowInv
<1> QED BY <1>1, FlowInvariance, PTL

(* In reset the program sees the hart as it starts.                        *)
LEMMA HartInitial == Init => Architecture!Init
<1> SUFFICES ASSUME Init PROVE Architecture!Init
  OBVIOUS
<1>1. /\ ctrl_fsm_cs = "RESET" /\ ~debug_mode_q /\ ex = Bubble /\ ~minstret
      /\ csr = ResetRegisters
  BY DEF Init
<1>2. csr_n = ResetRegisters
  BY <1>1, Slots DEF csr_n
<1>3. ArchPc = Boot /\ ArchCsr = ResetRegisters /\ ~ArchDebug /\ ArchRetired = Bubble
  BY <1>1, <1>2 DEF ArchPc, ArchCsr, ArchDebug, ArchRetired, Leaving
<1>4. ~ArchStepped
  BY <1>1 DEF ArchStepped, Leaving
<1> QED BY <1>3, <1>4 DEF Architecture!Init, Architecture!ResetRegisters, ResetRegisters,
           Architecture!Bubble, Bubble, Architecture!Plain, Plain

(* One clock edge is one step of the hart, or none.                        *)
LEMMA HartStep ==
  ASSUME TriggerWritesInTime, IInv, IInv', FlowInv, [Next]_vars
  PROVE  [Architecture!Next]_(Architecture!vars)
<1>1. CASE UNCHANGED vars
  <2>1. UNCHANGED <<ArchPc, ArchCsr, ArchDebug, ArchStepped, ArchRetired>>
    BY <1>1 DEF vars, ctrlVars, stageVars, ArchPc, ArchCsr, ArchDebug, ArchStepped, ArchRetired,
                Leaving, PcAfterLeaving, csr_n, Traps, Legal, is, illegal_insn, enters_at_id,
                trigger, ebrk_force, stepping, single_step, branch_taken_ex
  <2> QED BY <2>1 DEF Architecture!vars
<1>2. CASE Next
  <2>1. PICK in \in Inputs : Step(in)
    BY <1>2 DEF Next
  <2>2. FetchInStep /\ StepAlone /\ WriteBehindAccess
    BY DEF FlowInv
  <2>3. CASE \/ Reset(in) \/ BootSet(in) \/ WaitSleep(in) \/ Sleep(in) \/ FirstFetch(in)
    BY <2>3, ResetMaps, BootSetMaps, WaitSleepMaps, SleepMaps, FirstFetchMaps
  <2>4. CASE \/ TakeBranch(in) \/ NothingToDecode(in) \/ ServeDebug(in) \/ TakeIrq(in)
             \/ Decode(in)
    BY <2>2, <2>4, TakeBranchMaps, NothingToDecodeMaps, ServeDebugMaps, TakeIrqMaps, DecodeMaps
  <2>5. CASE \/ FlushEx(in) \/ FlushWbTrap(in) \/ FlushWbReturn(in) \/ FlushWbSleep(in)
             \/ FlushWbOther(in) \/ XretJump(in)
    BY <2>2, <2>5, FlushExMaps, FlushWbTrapMaps, FlushWbReturnMaps, FlushWbSleepMaps,
       FlushWbOtherMaps, XretJumpMaps
  <2>6. CASE \/ DbgWaitBranch(in) \/ DbgFlush(in) \/ DbgTakenId(in) \/ DbgTakenIf(in)
    BY <2>2, <2>6, DbgWaitBranchMaps, DbgFlushMaps, DbgTakenIdMaps, DbgTakenIfMaps
  <2> QED BY <2>1, <2>3, <2>4, <2>5, <2>6 DEF Step
<1> QED BY <1>1, <1>2

(* What the program sees of the pipeline is one instruction after the      *)
(* other, whatever the program, the interrupts, the debugger and the       *)
(* stalls: every clock edge is one step of Hart, or none of it is seen.    *)
THEOREM Implementation == TriggerWritesInTime => (Spec => ImplementsHart)
<1> SUFFICES ASSUME TriggerWritesInTime PROVE Spec => ImplementsHart
  OBVIOUS
<1>1. IInv /\ FlowInv /\ IInv' /\ [Next]_vars => [Architecture!Next]_(Architecture!vars)
  BY HartStep
<1> QED BY <1>1, FlowInvariance, HartInitial, PTL DEF Spec, ImplementsHart, Architecture!Spec

(* A step of the hart outside debug mode leaves the trigger registers.     *)
LEMMA HartKeepsTriggers ==
  ASSUME ArchCsr \in Registers, ~ArchDebug, Architecture!Next
  PROVE  /\ ArchCsr.tdata2' = ArchCsr.tdata2
         /\ ("execute" \in ArchCsr.on)' <=> "execute" \in ArchCsr.on
<1> DEFINE c == ArchCsr
           Same == c'.tdata2 = c.tdata2 /\ ("execute" \in c'.on <=> "execute" \in c.on)
<1>1. /\ BitsOf["mstatus"] = {"mie", "mpie"} /\ BitsOf["mie"] = {"irq"}
      /\ BitsOf["dcsr"] = {"step", "stepie", "ebreakm"} /\ BitsOf["tdata1"] = {"execute"}
      /\ DOMAIN BitsOf = {"mstatus", "mie", "dcsr", "tdata1"}
  BY DEF BitsOf
<1>2. ASSUME c' = c PROVE Same
  BY <1>2
<1>3. ASSUME NEW q, NEW a, c' = SaveTrap(c, q, a) PROVE Same
  BY <1>1, <1>3 DEF SaveTrap, Registers
<1>4. ASSUME NEW a, NEW why, c' = SaveDebug(c, a, why) PROVE Same
  BY <1>4 DEF SaveDebug, Registers
<1>5. ASSUME NEW q, c' = RestoreMret(c, q) PROVE Same
  BY <1>1, <1>5 DEF RestoreMret, Registers
<1>6. ASSUME NEW i \in Instructions, c' = WriteCsr(c, i, FALSE) PROVE Same
  <2>1. i.reg \in DOMAIN BitsOf => i.bits \subseteq BitsOf[i.reg]
    BY InstructionsAssumption
  <2>2. CASE i.reg \in {"tdata1", "tdata2"}
    BY <1>6, <2>2 DEF WriteCsr
  <2>3. CASE i.reg \in {"mstatus", "mie", "dcsr"}
    <3>1. c' = [c EXCEPT !.on = (c.on \ BitsOf[i.reg]) \cup i.bits]
      BY <1>1, <1>6, <2>3 DEF WriteCsr
    <3>2. "execute" \notin BitsOf[i.reg] /\ "execute" \notin i.bits
      BY <1>1, <2>1, <2>3
    <3> QED BY <3>1, <3>2 DEF Registers
  <2>4. CASE i.reg \notin {"mstatus", "mie", "dcsr", "tdata1", "tdata2"}
    BY <1>1, <1>6, <2>4 DEF WriteCsr, Registers
  <2> QED BY <2>2, <2>3, <2>4
<1>7. Same
  BY <1>2, <1>3, <1>4, <1>5, <1>6
     DEF Architecture!Next, Architecture!Wait, Architecture!Restart, Architecture!Interrupt,
         Architecture!Execute, Architecture!Mret, Architecture!Dret, Architecture!Exception,
         Architecture!EnterDebug, Architecture!WriteCsr, WriteCsr, Architecture!SaveTrap,
         SaveTrap, Architecture!SaveDebug, SaveDebug, Architecture!RestoreMret, RestoreMret,
         Architecture!BitsOf, BitsOf
<1> QED BY <1>7

(* The registers that the program sees are registers.                      *)
LEMMA SeenRegisters ==
  ASSUME IInv
  PROVE  ArchCsr \in Registers
<1>1. /\ csr_n \in Registers /\ pc_id \in Addr /\ Bubble \in Instruction
      /\ "none" \in Causes
  BY WriteStep, Slots DEF IInv, TypeOK, Causes
<1>2. SaveTrap(csr_n, csr_n, pc_id) \in Registers /\ RestoreMret(csr_n, csr_n) \in Registers
  BY <1>1, RegisterTypes
<1> QED BY <1>1, <1>2 DEF ArchCsr

(* The program cannot change the trigger registers: they are "access from  *)
(* D mode only" (cs_registers, tmatch_control_rdata).                      *)
THEOREM TriggersFromDebugOnlyHolds == TriggerWritesInTime => (Spec => TriggersFromDebugOnly)
<1> SUFFICES ASSUME TriggerWritesInTime PROVE Spec => TriggersFromDebugOnly
  OBVIOUS
<1> DEFINE Kept == ArchCsr.tdata2' # ArchCsr.tdata2
                   \/ ("execute" \in ArchCsr.on)' # ("execute" \in ArchCsr.on)
                     => ArchDebug
<1>1. ASSUME IInv, IInv', FlowInv, [Next]_vars
      PROVE  [Kept]_vars
  <2>1. CASE Architecture!Next
    BY <1>1, <2>1, SeenRegisters, HartKeepsTriggers
  <2>2. CASE UNCHANGED Architecture!vars
    <3>1. ArchCsr' = ArchCsr
      BY <2>2 DEF Architecture!vars
    <3> QED BY <3>1
  <2> QED BY <1>1, <2>1, <2>2, HartStep
<1> QED BY <1>1, FlowInvariance, PTL DEF Spec, TriggersFromDebugOnly

=============================================================================
