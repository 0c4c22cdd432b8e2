-------------------------------- MODULE Library --------------------------------
(***************************************************************************)
(* A hart that runs the functions of include/ for a caller, one after the  *)
(* other and in any order: tcutils, the macros and inline functions of     *)
(* utils.h, event.h and int.h, and, when it is interrupted, the vectors    *)
(* and the stubs of crt0.  One step is one pass of a loop, or one access   *)
(* to memory or to a CSR.                                                  *)
(*                                                                         *)
(* A stub saves the registers from its frame's low end up, and then reads  *)
(* the CSRs of the hardware loops of an older core.  This core has debug   *)
(* registers there: outside debug mode the access is illegal.  Exceptions  *)
(* go to the first vector, which no one uses, and from there down to the   *)
(* first stub.                                                             *)
(***************************************************************************)
EXTENDS LibraryInterface

CONSTANTS
  FrameSize,     \* the bytes of a stub's frame (96, of RAM words that are told apart)
  SavedSize      \* those of them that are saved before the illegal access, and the
                 \* highest, where x1 is

ASSUME FrameAssumption == FrameSize \in Nat \ {0} /\ SavedSize \in 0..FrameSize

VARIABLES
  mem,                  \* the RAM
  mie, mstatus,         \* CSRs: the line is enabled; the set of interrupt bits that are set
  at,                   \* where the hart is
  call,                 \* the arguments of the call
  i, acc,               \* the loop counter, and what has been read or accumulated
  ret,                  \* a0 after the last return
  sp,                   \* x2 in the stubs
  irq,                  \* the interrupt line
  before, unmasked      \* history: the RAM, and mstatus.MIE, when the caller was last in charge

history == <<before, unmasked>>
vars    == <<mem, mie, mstatus, at, call, i, acc, ret, sp, irq, history>>

Registers == {"reg"}    \* what a stub saves, whatever it is
Trapped   == at \in {"stub", "store_regs", "csrr 0x7B0"}

Init ==
  /\ mem = [a \in Addresses |-> {}] /\ before = mem
  /\ mie = FALSE /\ mstatus = {}
  /\ at = "caller" /\ call = Nowhere /\ i = 0 /\ acc = {} /\ ret = Void
  /\ sp = 0 /\ irq = FALSE /\ unmasked = FALSE

(* ---- calls and returns ---------------------------------------------------*)
Entry(c) ==
  CASE c.f \in {"memcpy", "_copy"} -> IF c.f = "_copy" /\ c.len > c.to_len THEN "fail" ELSE "copy"
    [] c.f \in {"memset", "_set", "_set_secure"} -> "set"
    [] c.f = "_compare" -> "compare"
    [] c.f \in {"int_periph_enable", "int_periph_disable", "int_periph_clear"} -> "load"
    [] c.f = "sleep" -> "SCR = 1"
    [] c.f = "sleep_busy" -> "nop"
    [] c.f \in {"int_enable", "int_disable"} -> "csrr mstatus"
    [] c.f = "csrw" -> "csrw"
    [] c.f \in {"get_core_id", "get_core_num"} -> "return 0"

Call ==
  /\ at = "caller"
  /\ \E c \in Calls : call' = c /\ at' = Entry(c)
  /\ ret' = Void
  /\ UNCHANGED <<mem, mie, mstatus, i, acc, sp, irq, history>>

Return(v) ==
  /\ at' = "caller" /\ call' = Nowhere /\ i' = 0 /\ acc' = {} /\ ret' = v
  /\ before' = mem' /\ unmasked' = ("MIE" \in mstatus')
  /\ UNCHANGED <<sp, irq>>

Pass == i' = i + 1 /\ UNCHANGED <<mie, mstatus, at, call, ret, sp, irq, history>>

(* ---- tcutils.c -----------------------------------------------------------*)
(* Mutant: the copy begins with the last byte.                             *)
CopyByteFromTheEnd ==
  /\ at = "copy" /\ i < call.len
  /\ mem' = [mem EXCEPT ![call.to + call.len - 1 - i] = mem[call.from + call.len - 1 - i]]
  /\ Pass /\ UNCHANGED acc

CopyByte ==
  /\ at = "copy" /\ i < call.len
  /\ mem' = [mem EXCEPT ![call.to + i] = mem[call.from + i]]
  /\ Pass /\ UNCHANGED acc

CopyEnds ==
  /\ at = "copy" /\ i = call.len
  /\ UNCHANGED <<mem, mie, mstatus>>
  /\ Return(IF call.f = "_copy" THEN call.len ELSE call.to)

CopyFails == at = "fail" /\ UNCHANGED <<mem, mie, mstatus>> /\ Return(TC_CRYPTO_FAIL)

SetByte ==
  /\ at = "set" /\ i < call.len
  /\ mem' = [mem EXCEPT ![call.to + i] = call.val]
  /\ Pass /\ UNCHANGED acc

SetEnds ==
  /\ at = "set" /\ i = call.len
  /\ UNCHANGED <<mem, mie, mstatus>>
  /\ Return(IF call.f = "memset" THEN call.to ELSE Void)

Xor(x, y) == (x \ y) \cup (y \ x)

(* Mutant: the difference of the last byte decides.                        *)
CompareLastByte ==
  /\ at = "compare" /\ i < call.len
  /\ acc' = Xor(mem[call.a + i], mem[call.b + i])
  /\ Pass /\ UNCHANGED mem

CompareByte ==
  /\ at = "compare" /\ i < call.len
  /\ acc' = acc \cup Xor(mem[call.a + i], mem[call.b + i])
  /\ Pass /\ UNCHANGED mem

(* The result is a byte; only whether it is zero matters.                  *)
CompareEnds ==
  /\ at = "compare" /\ i = call.len
  /\ UNCHANGED <<mem, mie, mstatus>>
  /\ Return(IF acc = {} THEN 0 ELSE 1)

(* ---- event.h: a read, and a write of what was read -----------------------*)
register == IF call.f = "int_periph_clear" THEN ICP ELSE IER

LoadRegister ==
  /\ at = "load" /\ acc' = mem[register] /\ at' = "store"
  /\ UNCHANGED <<mem, mie, mstatus, call, i, ret, sp, irq, history>>

StoreRegister ==
  /\ at = "store"
  /\ mem' = [mem EXCEPT ![register] = IF call.f = "int_periph_disable" THEN acc \ {call.periph}
                                      ELSE acc \cup {call.periph}]
  /\ UNCHANGED <<mie, mstatus>> /\ Return(Void)

(* ---- utils.h, utils.c ----------------------------------------------------*)
StoreScr ==
  /\ at = "SCR = 1" /\ mem' = [mem EXCEPT ![SCR] = {"b0"}] /\ at' = "wfi"
  /\ UNCHANGED <<mie, mstatus, call, i, acc, ret, sp, irq, history>>

(* Mutant: the core wakes only for an interrupt that it will take.         *)
WakeToTake ==
  /\ at = "wfi" /\ irq /\ mie /\ "MIE" \in mstatus
  /\ UNCHANGED <<mem, mie, mstatus>> /\ Return(Void)

(* The core wakes for an enabled interrupt, masked or not.                 *)
Wake == at = "wfi" /\ irq /\ mie /\ UNCHANGED <<mem, mie, mstatus>> /\ Return(Void)

Nop     == at = "nop" /\ i < call.len /\ Pass /\ UNCHANGED <<mem, acc>>
NopEnds == at = "nop" /\ i = call.len /\ UNCHANGED <<mem, mie, mstatus>> /\ Return(Void)

CoreNumber == at = "return 0" /\ UNCHANGED <<mem, mie, mstatus>> /\ Return(0)

csrw == at = "csrw" /\ mie' = call.value /\ UNCHANGED <<mem, mstatus>> /\ Return(Void)

(* ---- int.h ---------------------------------------------------------------*)
ReadMstatus ==
  /\ at = "csrr mstatus" /\ acc' = mstatus /\ at' = "csrw mstatus"
  /\ UNCHANGED <<mem, mie, mstatus, call, i, ret, sp, irq, history>>

WriteMstatus ==
  /\ at = "csrw mstatus"
  /\ IF call.f = "int_enable"
     THEN mstatus' = acc \cup {"MIE"} /\ UNCHANGED <<mem, mie>> /\ Return(Void)
     ELSE /\ mstatus' = acc \ {"MIE"} /\ at' = "csrw 0x300"
          /\ UNCHANGED <<mem, mie, call, i, acc, ret, sp, irq, history>>

(* int_disable() clears the whole register besides.                        *)
ClearMstatus == at = "csrw 0x300" /\ mstatus' = {} /\ UNCHANGED <<mem, mie>> /\ Return(Void)

(* ---- interrupts ----------------------------------------------------------*)
(* Nothing of the caller and its call matters any more.                    *)
Interrupt ==
  /\ ~Trapped /\ irq /\ mie /\ "MIE" \in mstatus
  /\ mstatus' = {"MPIE"} /\ at' = "stub"
  /\ call' = Nowhere /\ i' = 0 /\ acc' = {} /\ ret' = Void
  /\ before' = [a \in Addresses |-> {}] /\ unmasked' = FALSE
  /\ UNCHANGED <<mem, mie, sp, irq>>

(* Mutant: the stubs share one frame.                                      *)
StubKeepsSp ==
  /\ at = "stub"
  /\ sp' = sp
  /\ mem' = [mem EXCEPT ![(sp' + FrameSize - 1) % RamSize] = Registers]
  /\ at' = "store_regs"
  /\ UNCHANGED <<mie, mstatus, call, i, acc, ret, irq, history>>

(* addi x2, x2, -96; sw x1, 0x5C(x2); jal x1, store_regs.                  *)
Stub ==
  /\ at = "stub"
  /\ sp' = (sp - FrameSize) % RamSize
  /\ mem' = [mem EXCEPT ![(sp' + FrameSize - 1) % RamSize] = Registers]
  /\ at' = "store_regs"
  /\ UNCHANGED <<mie, mstatus, call, i, acc, ret, irq, history>>

store_regs ==
  /\ at = "store_regs"
  /\ mem' = [a \in Addresses |-> IF \E k \in 0..(SavedSize - 1) : a = (sp + k) % RamSize
                                 THEN Registers ELSE mem[a]]
  /\ at' = "csrr 0x7B0"
  /\ UNCHANGED <<mie, mstatus, call, i, acc, ret, sp, irq, history>>

(* An illegal instruction: to the first vector, and so to the first stub.  *)
ReadLoopCsr ==
  /\ at = "csrr 0x7B0"
  /\ at' = "stub" /\ mstatus' = {}
  /\ UNCHANGED <<mem, mie, call, i, acc, ret, sp, irq, history>>

(* ---- the whole -----------------------------------------------------------*)
(* An interrupt line may rise and fall at any time; in a stub interrupts   *)
(* are masked, and the line is of no account.                              *)
Line == ~Trapped /\ irq' = ~irq /\ UNCHANGED <<mem, mie, mstatus, at, call, i, acc, ret, sp, history>>

Step ==
  \/ CopyByte \/ CopyEnds \/ CopyFails \/ SetByte \/ SetEnds \/ CompareByte \/ CompareEnds
  \/ LoadRegister \/ StoreRegister \/ StoreScr \/ Wake \/ Nop \/ NopEnds \/ CoreNumber
  \/ csrw \/ ReadMstatus \/ WriteMstatus \/ ClearMstatus
  \/ Stub \/ store_regs \/ ReadLoopCsr

Next == Call \/ Step \/ Interrupt \/ Line

(* The hart goes on, whatever the line does.                               *)
Spec == Init /\ [][Next]_vars /\ WF_vars(Step)
-----------------------------------------------------------------------------
TypeOK ==
  /\ mem \in [Addresses -> (SUBSET Bits) \cup {Registers}] /\ before \in [Addresses -> SUBSET Bits]
  /\ mie \in BOOLEAN /\ unmasked \in BOOLEAN /\ mstatus \subseteq {"MIE", "MPIE"} /\ irq \in BOOLEAN
  /\ call \in Calls \cup {Nowhere} /\ (call = Nowhere <=> Trapped \/ at = "caller")
  /\ i \in Nat /\ acc \in (SUBSET Bits) \cup SUBSET {"MIE", "MPIE"} /\ sp \in Addresses
  /\ ret \in Nat \cup {Void}

(* A call is at one of the places of its function, no further than its     *)
(* length, and starts with nothing counted or accumulated.                 *)
ControlInStep ==
  /\ \/ Trapped \/ at = "caller" \/ at = Entry(call)
     \/ at = "store" /\ Entry(call) = "load"
     \/ at = "wfi" /\ Entry(call) = "SCR = 1"
     \/ at = "csrw mstatus" /\ Entry(call) = "csrr mstatus"
     \/ at = "csrw 0x300" /\ call.f = "int_disable"
  /\ IF at \in {"copy", "set", "compare", "nop"} THEN i <= call.len ELSE i = 0
  /\ at = "compare" => acc \subseteq Bits
  /\ at = "caller" => acc = {}

(* What the loops have done by pass i, and that nothing else has moved.    *)
LoopsInStep ==
  /\ at = "copy" => IF Overruns(call) THEN \A a \in Addresses : In(a, call.to, i) \/ mem[a] = before[a]
                    ELSE mem = Copied(before, call, i)
  /\ at = "set" => mem = Filled(before, call, i)
  /\ at = "compare" => mem = before /\ (acc = {} <=> Equal(mem, [call EXCEPT !.len = i]))
  /\ at = "store" => mem = before /\ acc = mem[register]
  /\ at = "wfi" => mem = [before EXCEPT ![SCR] = {"b0"}]
  /\ at \in {"fail", "load", "SCR = 1", "nop", "csrw", "csrr mstatus", "csrw mstatus", "csrw 0x300",
             "return 0", "caller"} => mem = before
  /\ ~Trapped => \A a \in Addresses : mem[a] \subseteq Bits

(* The caller knows whether interrupts are masked: only int_enable() and   *)
(* int_disable() change that, in the step in which they take effect.       *)
MaskKnown ==
  /\ at = "csrw mstatus" => acc = mstatus
  /\ IF at = "csrw 0x300" THEN "MIE" \notin mstatus
     ELSE ~Trapped => (unmasked <=> "MIE" \in mstatus)

(* The invariant of the run.                                               *)
IInv == TypeOK /\ ControlInStep /\ LoopsInStep /\ MaskKnown

(* Every call of every function ends in what it promises: the caller's RAM *)
(* is what the one step says, whatever the hart did byte by byte, and the  *)
(* program is lost only to an interrupt that is enabled and not masked:    *)
(* none is taken from the return of int_disable() to a call of             *)
(* int_enable().                                                           *)
Promised ==
  INSTANCE LibraryCalls WITH memory <- before, result <- ret, pending <- call, enabled <- mie,
                             lost <- Trapped
ImplementsLibrary == Promised!CallsSpec

(* Every call returns, unless an interrupt takes the hart for good, or it  *)
(* sleeps and no enabled interrupt is there.                               *)
CallsEnd == at # "caller" ~> at = "caller" \/ Trapped \/ (at = "wfi" /\ ~(irq /\ mie))

(* No interrupt is survived: the stub comes back to itself through the     *)
(* exception that it causes, one frame deeper every time, until the whole  *)
(* RAM holds registers.                                                    *)
TrapRunsAway == Trapped ~> \A a \in Addresses : mem[a] = Registers
==============================================================================
