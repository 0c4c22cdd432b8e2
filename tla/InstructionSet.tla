---------------------------- MODULE InstructionSet ----------------------------
(***************************************************************************)
(* What an instruction does to the program counter and to the control and  *)
(* status registers, as far as the controller of the core tells            *)
(* instructions apart.  Arithmetic, AES and loads are "op" and "mem":      *)
(* nothing here depends on what they compute.  A jump or a taken branch    *)
(* carries its target, a CSR instruction the value it leaves behind.       *)
(*                                                                         *)
(* Addresses count instructions and wrap around.                           *)
(***************************************************************************)
EXTENDS Naturals

CONSTANTS
  Last,           \* addresses are 0 .. Last
  Boot,           \* boot_addr_i
  TrapVector,     \* mtvec: exceptions
  IrqVector,      \* mtvec: the interrupt
  HaltVector,     \* dm_halt_addr_i: entry of the debug program
  DebugVector,    \* dm_exception_addr_i: exceptions of the debug program
  Instructions    \* the instructions of interest

Addr     == 0..Last
After(a) == IF a = Last THEN 0 ELSE a + 1

ASSUME AddressAssumption ==
  Last \in Nat /\ {Boot, TrapVector, IrqVector, HaltVector, DebugVector} \subseteq Addr

(* ---- control and status registers ------------------------------------- *)
(* The one-bit fields in use: mstatus.mie and mpie, the enable of the      *)
(* interrupt line in the mie register ("irq"), dcsr.step, stepie and       *)
(* ebreakm, and the execute bit of tdata1.                                 *)
BitsOf == [ mstatus |-> {"mie", "mpie"}, mie |-> {"irq"},
            dcsr |-> {"step", "stepie", "ebreakm"}, tdata1 |-> {"execute"} ]

Bits      == UNION { BitsOf[r] : r \in DOMAIN BitsOf }
Causes    == {"none", "ebreak", "trigger", "haltreq", "step"}
Registers == [on : SUBSET Bits, mepc : Addr, dpc : Addr, tdata2 : Addr, cause : Causes]

ResetRegisters == [on |-> {}, mepc |-> 0, dpc |-> 0, tdata2 |-> 0, cause |-> "none"]

m_irq_enable(c)     == "mie" \in c.on /\ ~("step" \in c.on /\ "stepie" \notin c.on)
trigger_match(c, a) == "execute" \in c.on /\ c.tdata2 = a

(* ---- instructions ------------------------------------------------------ *)
Kinds == { "op", "mem", "branch", "not_taken", "jump", "csr", "ecall", "ebreak",
           "illegal", "mret", "dret", "wfi", "fencei", "bubble", "killed" }

Instruction == [kind : Kinds, reg : DOMAIN BitsOf \cup {"mepc", "dpc", "tdata2", "none"},
                addr : Addr, bits : SUBSET Bits]

Plain(kind)     == [kind |-> kind, reg |-> "none", addr |-> 0, bits |-> {}]
Goto(kind, a)   == [Plain(kind) EXCEPT !.addr = a]
SetBits(reg, b) == [Plain("csr") EXCEPT !.reg = reg, !.bits = b]
SetAddr(reg, a) == [Plain("csr") EXCEPT !.reg = reg, !.addr = a]

(* EX without an instruction: nothing came, or what came was disarmed.     *)
Bubble == Plain("bubble")
Killed == Plain("killed")

ASSUME InstructionsAssumption ==
  /\ Instructions \subseteq Instruction
  /\ \A i \in Instructions :
       /\ i.kind \notin {"bubble", "killed"}
       /\ i.kind = "csr" <=> i.reg # "none"
       /\ i.reg \in DOMAIN BitsOf => i.bits \subseteq BitsOf[i.reg]

(* dret and the registers of the debugger exist in debug mode only; the    *)
(* trigger registers are open to all, but only debug mode changes them.    *)
Legal(i, debug) ==
  /\ i.kind # "illegal"
  /\ i.kind = "dret" => debug
  /\ i.reg \in {"dcsr", "dpc"} => debug

(* CSR instructions that must not overlap their neighbours (csr_status).   *)
StatusAccess(i) == i.reg \in {"mstatus", "mepc", "dcsr", "dpc"}

Traps(i, debug) == i.kind \in {"ecall", "ebreak"} \/ ~Legal(i, debug)

NextPc(i, a) == IF i.kind \in {"branch", "jump"} THEN i.addr ELSE After(a)

(* The registers after instruction i wrote its register.                   *)
WriteCsr(c, i, debug) ==
  IF i.reg \in {"tdata1", "tdata2"} /\ ~debug THEN c
  ELSE IF i.reg \in DOMAIN BitsOf THEN [c EXCEPT !.on = (c.on \ BitsOf[i.reg]) \cup i.bits]
  ELSE [c EXCEPT !.mepc   = IF i.reg = "mepc" THEN i.addr ELSE c.mepc,
                 !.dpc    = IF i.reg = "dpc" THEN i.addr ELSE c.dpc,
                 !.tdata2 = IF i.reg = "tdata2" THEN i.addr ELSE c.tdata2]

(* A trap at address a over registers c, whose mstatus was that of q.      *)
SaveTrap(c, q, a) ==
  [c EXCEPT !.on   = (c.on \ BitsOf["mstatus"]) \cup (IF "mie" \in q.on THEN {"mpie"} ELSE {}),
            !.mepc = a]

SaveDebug(c, a, cause) == [c EXCEPT !.dpc = a, !.cause = cause]

RestoreMret(c, q) ==
  [c EXCEPT !.on = (c.on \ BitsOf["mstatus"]) \cup {"mpie"}
                   \cup (IF "mpie" \in q.on THEN {"mie"} ELSE {})]
==============================================================================
