---------------------------- MODULE Library_proofs ----------------------------
(***************************************************************************)
(* Proofs about Library, for any byte, any buffer, any RAM and any frame   *)
(* of the stubs: whatever is called and whatever the interrupt line does,  *)
(* every call leaves and answers what it promises, and the program is lost *)
(* only to an interrupt that it enabled and did not mask.                  *)
(***************************************************************************)
EXTENDS Library, TLAPS

(* ---- calls and addresses ------------------------------------------------*)
Functions ==
  {"memcpy", "_copy", "memset", "_set", "_set_secure", "_compare",
   "int_periph_enable", "int_periph_disable", "int_periph_clear",
   "sleep_busy", "sleep", "int_enable", "int_disable", "get_core_id", "get_core_num", "csrw"}

(* What the arguments of a call are, by its function.                      *)
LEMMA CallShape ==
  ASSUME NEW c \in Calls
  PROVE  /\ c.f \in Functions /\ c # Nowhere
         /\ c.f \in {"memcpy", "_copy"} =>
              /\ c.to \in 0..Buffer /\ c.from \in 0..Buffer /\ c.len \in 0..Buffer
              /\ c.to + c.len <= Buffer /\ c.from + c.len <= Buffer
         /\ c.f \in {"memset", "_set", "_set_secure"} =>
              /\ c.to \in 0..Buffer /\ c.len \in 0..Buffer /\ c.to + c.len <= Buffer
              /\ c.val \subseteq Bits
         /\ c.f = "_compare" =>
              /\ c.a \in 0..Buffer /\ c.b \in 0..Buffer /\ c.len \in 0..Buffer
              /\ c.a + c.len <= Buffer /\ c.b + c.len <= Buffer
              /\ \A k \in 0..c.len : [c EXCEPT !.len = k].a = c.a /\ [c EXCEPT !.len = k].b = c.b
                                     /\ [c EXCEPT !.len = k].len = k
              /\ [c EXCEPT !.len = c.len] = c
         /\ c.f \in {"int_periph_enable", "int_periph_disable", "int_periph_clear"} => c.periph \in Bits
         /\ c.f = "sleep_busy" => c.len \in 0..Buffer
         /\ c.f = "csrw" => c.value \in BOOLEAN
<1>1. \/ c \in Copies \/ c \in Fills \/ c \in Comparisons
      \/ c \in Periphs \/ c \in Waits \/ c \in Simple \/ c \in CsrWrites
  BY DEF Calls
<1>2. CASE c \in Copies
  BY <1>2 DEF Copies, Fits, Functions, Nowhere
<1>3. CASE c \in Fills
  BY <1>3 DEF Fills, Fits, Functions, Nowhere
<1>4. CASE c \in Comparisons
  BY <1>4 DEF Comparisons, Fits, Functions, Nowhere
<1>5. CASE c \in Periphs
  BY <1>5 DEF Periphs, Functions, Nowhere
<1>6. CASE c \in Waits
  BY <1>6 DEF Waits, Functions, Nowhere
<1>7. CASE c \in Simple
  BY <1>7 DEF Simple, Functions, Nowhere
<1>8. CASE c \in CsrWrites
  BY <1>8 DEF CsrWrites, Functions, Nowhere
<1> QED BY <1>1, <1>2, <1>3, <1>4, <1>5, <1>6, <1>7, <1>8

(* Where a call starts.                                                    *)
LEMMA EntryIs ==
  ASSUME NEW c \in Calls
  PROVE  /\ Entry(c) \in {"copy", "fail", "set", "compare", "load", "SCR = 1", "nop", "csrr mstatus",
                          "csrw", "return 0"}
         /\ Entry(c) = "copy" <=> c.f \in {"memcpy", "_copy"} /\ ~Refused(c)
         /\ Entry(c) = "fail" <=> Refused(c)
         /\ Entry(c) = "set" <=> c.f \in {"memset", "_set", "_set_secure"}
         /\ Entry(c) = "compare" <=> c.f = "_compare"
         /\ Entry(c) = "load" <=> c.f \in {"int_periph_enable", "int_periph_disable", "int_periph_clear"}
         /\ Entry(c) = "SCR = 1" <=> c.f = "sleep"
         /\ Entry(c) = "nop" <=> c.f = "sleep_busy"
         /\ Entry(c) = "csrr mstatus" <=> c.f \in {"int_enable", "int_disable"}
         /\ Entry(c) = "csrw" <=> c.f = "csrw"
         /\ Entry(c) = "return 0" <=> c.f \in {"get_core_id", "get_core_num"}
<1>1. c.f \in Functions
  BY CallShape
<1>2. CASE c.f \in {"memcpy", "_copy"}
  BY <1>2 DEF Entry, Refused
<1>3. CASE c.f \in Functions \ {"memcpy", "_copy"}
  BY <1>3 DEF Entry, Refused, Functions
<1> QED BY <1>1, <1>2, <1>3

LEMMA AddressFacts ==
  /\ Buffer \in Nat /\ RamSize \in Nat /\ RamSize > 0
  /\ IER \in Addresses /\ ICP \in Addresses /\ SCR \in Addresses /\ IER # ICP
  /\ 0 \in Addresses
  /\ \A a \in 0..(Buffer - 1) : a \in Addresses
  /\ \A a \in Int : a % RamSize \in Addresses
<1>1. Buffer \in Nat /\ RamSize \in Nat /\ RamSize > 0
  BY RamAssumption DEF SCR
<1>2. /\ IER \in Addresses /\ ICP \in Addresses /\ SCR \in Addresses /\ IER # ICP /\ 0 \in Addresses
      /\ \A a \in 0..(Buffer - 1) : a \in Addresses
  BY <1>1, RamAssumption DEF IER, ICP, SCR, Addresses
<1>3. \A a \in Int : a % RamSize \in Addresses
  BY <1>1 DEF Addresses
<1> QED BY <1>1, <1>2, <1>3

-----------------------------------------------------------------------------
(* ---- the invariant ------------------------------------------------------*)
LEMMA Initial == Init => IInv
<1> SUFFICES ASSUME Init PROVE IInv
  OBVIOUS
<1>1. TypeOK
  BY AddressFacts DEF Init, TypeOK, Trapped
<1>2. ControlInStep
  BY DEF Init, ControlInStep
<1>3. LoopsInStep
  BY DEF Init, LoopsInStep
<1>4. MaskKnown
  BY DEF Init, MaskKnown
<1> QED BY <1>1, <1>2, <1>3, <1>4 DEF IInv

(* The caller's bytes are bytes while the program is there.                *)
LEMMA Untrapped ==
  ASSUME IInv, ~Trapped
  PROVE  mem \in [Addresses -> SUBSET Bits]
<1>1. mem \in [Addresses -> (SUBSET Bits) \cup {Registers}] /\ \A a \in Addresses : mem[a] \subseteq Bits
  BY DEF IInv, TypeOK, LoopsInStep
<1>2. \A a \in Addresses : mem[a] \in SUBSET Bits
  BY <1>1
<1> QED BY <1>1, <1>2

(* A call begins with everything as the caller left it.                    *)
LEMMA CallInv ==
  ASSUME IInv, Call
  PROVE  IInv'
<1>1. PICK c \in Calls : call' = c /\ at' = Entry(c)
  BY DEF Call
<1>2. /\ at = "caller" /\ ret' = Void
      /\ UNCHANGED <<mem, mie, mstatus, i, acc, sp, irq, before, unmasked>>
  BY DEF Call, history
<1>3. /\ mem = before /\ i = 0 /\ acc = {} /\ (unmasked <=> "MIE" \in mstatus)
      /\ mem \in [Addresses -> SUBSET Bits]
  BY <1>2, Untrapped DEF IInv, ControlInStep, LoopsInStep, MaskKnown, Trapped
<1>4. /\ at' \in {"copy", "fail", "set", "compare", "load", "SCR = 1", "nop", "csrr mstatus", "csrw", "return 0"}
      /\ at' = "copy" \/ at' = "set" \/ at' = "nop" => c.len \in Nat
      /\ at' = "compare" => c.f = "_compare" /\ c.len \in Nat
      /\ c # Nowhere
      /\ at' = "copy" \/ at' = "set" => c.to \in Nat
  <2>1. /\ at' = "copy" => c.f \in {"memcpy", "_copy"}
        /\ at' = "set" => c.f \in {"memset", "_set", "_set_secure"}
        /\ at' = "nop" => c.f = "sleep_busy"
        /\ at' = "compare" => c.f = "_compare"
        /\ at' \in {"copy", "fail", "set", "compare", "load", "SCR = 1", "nop", "csrr mstatus", "csrw", "return 0"}
    BY <1>1, EntryIs
  <2>2. c \in Calls /\ c # Nowhere
    BY <1>1, CallShape
  <2>3. c.f \in {"memcpy", "_copy"} \/ c.f \in {"memset", "_set", "_set_secure"} => c.to \in Nat /\ c.len \in Nat
    BY <2>2, AddressFacts, CallShape
  <2>4. c.f = "sleep_busy" \/ c.f = "_compare" => c.len \in Nat
    BY <2>2, AddressFacts, CallShape
  <2> QED BY <2>1, <2>2, <2>3, <2>4
<1>5. TypeOK'
  BY <1>1, <1>2, <1>4 DEF IInv, TypeOK, Trapped
<1>6. ControlInStep'
  <2>1. at' = Entry(call') /\ acc' = {} /\ i' = 0
    BY <1>1, <1>2, <1>3
  <2>2. at' \in {"copy", "set", "compare", "nop"} => i' <= call'.len
    <3>1. 0 <= call'.len \/ call'.len \notin Nat
      OBVIOUS
    <3> QED BY <1>1, <1>4, <2>1, <3>1
  <2> QED BY <2>1, <2>2 DEF ControlInStep, Entry
<1>7. LoopsInStep'
  <2>1. at' = "copy" \/ at' = "set" => Copied(before, c, 0) = before /\ Filled(before, c, 0) = before
    <3>1. ASSUME c.to \in Nat PROVE \A a \in Addresses : ~In(a, c.to, 0)
      BY <3>1, AddressFacts DEF In, Addresses
    <3> QED BY <1>4, <3>1 DEF IInv, TypeOK, Copied, Filled
  <2>2. at' = "compare" => Equal(mem, [c EXCEPT !.len = 0])
    <3>1. at' = "compare" => [c EXCEPT !.len = 0].len = 0
      BY <1>4, AddressFacts, CallShape
    <3> QED BY <3>1 DEF Equal
  <2>3. at' = "copy" /\ Overruns(c) => \A a \in Addresses : mem[a] = before[a]
    BY <1>3
  <2>4. at' = "copy" => IF Overruns(c) THEN \A a \in Addresses : In(a, c.to, 0) \/ mem[a] = before[a]
                        ELSE mem = Copied(before, c, 0)
    BY <1>3, <2>1
  <2> QED BY <1>1, <1>2, <1>3, <1>4, <2>1, <2>2, <2>4 DEF LoopsInStep
<1>8. MaskKnown'
  BY <1>2, <1>3, <1>4 DEF MaskKnown, Trapped
<1> QED BY <1>5, <1>6, <1>7, <1>8 DEF IInv

(* A return leaves the caller in charge of what is there.                  *)
LEMMA ReturnInv ==
  ASSUME IInv, ~Trapped, NEW v \in Nat \cup {Void}, Return(v),
         mem' \in [Addresses -> SUBSET Bits], mie' \in BOOLEAN, mstatus' \subseteq {"MIE", "MPIE"}
  PROVE  IInv'
<1>1. /\ at' = "caller" /\ call' = Nowhere /\ i' = 0 /\ acc' = {} /\ ret' = v
      /\ before' = mem' /\ unmasked' = ("MIE" \in mstatus') /\ UNCHANGED <<sp, irq>>
  BY DEF Return
<1>2. TypeOK'
  <2>1. mem' \in [Addresses -> (SUBSET Bits) \cup {Registers}] /\ before' \in [Addresses -> SUBSET Bits]
    BY <1>1
  <2>2. unmasked' \in BOOLEAN /\ irq' \in BOOLEAN /\ sp' \in Addresses /\ ret' \in Nat \cup {Void}
    BY <1>1 DEF IInv, TypeOK
  <2>3. call' = Nowhere /\ at' = "caller" /\ i' \in Nat /\ acc' = {}
    BY <1>1
  <2> QED BY <2>1, <2>2, <2>3 DEF TypeOK, Trapped
<1>3. ControlInStep'
  BY <1>1 DEF ControlInStep
<1>4. LoopsInStep'
  BY <1>1 DEF LoopsInStep
<1>5. MaskKnown'
  BY <1>1 DEF MaskKnown
<1> QED BY <1>2, <1>3, <1>4, <1>5 DEF IInv

(* The call whose code the hart is in.                                     *)
LEMMA InCall ==
  ASSUME IInv, ~Trapped, at # "caller"
  PROVE  /\ call \in Calls /\ call # Nowhere
         /\ \/ at = Entry(call)
            \/ at = "store" /\ Entry(call) = "load"
            \/ at = "wfi" /\ Entry(call) = "SCR = 1"
            \/ at = "csrw mstatus" /\ Entry(call) = "csrr mstatus"
            \/ at = "csrw 0x300" /\ call.f = "int_disable"
  BY DEF IInv, TypeOK, ControlInStep

LEMMA CopyByteInv ==
  ASSUME IInv, CopyByte
  PROVE  IInv'
<1>1. /\ at = "copy" /\ i < call.len /\ i' = i + 1
      /\ mem' = [mem EXCEPT ![call.to + i] = mem[call.from + i]]
      /\ UNCHANGED <<mie, mstatus, at, call, ret, sp, irq, before, unmasked, acc>>
  BY DEF CopyByte, Pass, history
<1>2. /\ call \in Calls /\ i \in Nat /\ ~Trapped
      /\ call.to \in 0..Buffer /\ call.from \in 0..Buffer /\ call.len \in 0..Buffer
      /\ call.to + call.len <= Buffer /\ call.from + call.len <= Buffer
  <2>1. call \in Calls /\ Entry(call) = "copy" /\ ~Trapped
    BY <1>1, InCall DEF Trapped
  <2> QED BY <2>1, CallShape, EntryIs DEF IInv, TypeOK
<1>3. mem \in [Addresses -> SUBSET Bits] /\ before \in [Addresses -> SUBSET Bits]
  BY <1>2, Untrapped DEF IInv, TypeOK
<1>4. call.to + i \in Addresses /\ call.from + i \in Addresses
  BY <1>1, <1>2, AddressFacts
<1>5. mem' \in [Addresses -> SUBSET Bits]
  BY <1>1, <1>3, <1>4
<1>6. TypeOK'
  BY <1>1, <1>2, <1>5 DEF IInv, TypeOK, Trapped
<1>7. ControlInStep'
  <2>1. i + 1 <= call.len
    BY <1>1, <1>2
  <2> QED BY <1>1, <2>1 DEF IInv, ControlInStep, Entry, Trapped
<1>8. \A a \in Addresses : In(a, call.to, i + 1) <=> In(a, call.to, i) \/ a = call.to + i
  BY <1>2 DEF In, Addresses
<1>9. CASE Overruns(call)
  <2>1. \A a \in Addresses : In(a, call.to, i) \/ mem[a] = before[a]
    BY <1>1, <1>9 DEF IInv, LoopsInStep
  <2>2. \A a \in Addresses : In(a, call.to, i + 1) \/ mem'[a] = before[a]
    BY <1>1, <1>3, <1>8, <2>1
  <2>3. LoopsInStep'
    BY <1>1, <1>5, <1>9, <2>2 DEF LoopsInStep, Overruns
  <2> QED BY <1>1, <1>6, <1>7, <2>3 DEF IInv, MaskKnown, Trapped
<1>10. CASE ~Overruns(call)
  <2>1. mem = Copied(before, call, i)
    BY <1>1, <1>10 DEF IInv, LoopsInStep
  <2>2. ~In(call.from + i, call.to, i)
    BY <1>1, <1>2, <1>10 DEF Overruns, In
  <2>3. mem[call.from + i] = before[call.from + i]
    BY <1>4, <2>1, <2>2 DEF Copied
  <2>4. mem' = Copied(before, call, i + 1)
    <3>1. \A a \in Addresses : mem'[a] = IF In(a, call.to, i + 1) THEN before[call.from + a - call.to] ELSE before[a]
      <4> SUFFICES ASSUME NEW a \in Addresses
                   PROVE  mem'[a] = IF In(a, call.to, i + 1) THEN before[call.from + a - call.to] ELSE before[a]
        OBVIOUS
      <4>1. CASE a = call.to + i
        <5>1. mem'[a] = before[call.from + i] /\ In(a, call.to, i + 1)
          BY <1>1, <1>3, <1>4, <1>8, <2>3, <4>1
        <5>2. call.from + a - call.to = call.from + i
          BY <1>2, <4>1
        <5> QED BY <5>1, <5>2
      <4>2. CASE a # call.to + i
        BY <1>1, <1>3, <1>8, <2>1, <4>2 DEF Copied
      <4> QED BY <4>1, <4>2
    <3> QED BY <1>5, <3>1 DEF Copied
  <2>5. LoopsInStep'
    BY <1>1, <1>5, <1>10, <2>4 DEF LoopsInStep, Overruns
  <2> QED BY <1>1, <1>6, <1>7, <2>5 DEF IInv, MaskKnown, Trapped
<1> QED BY <1>9, <1>10

LEMMA SetByteInv ==
  ASSUME IInv, SetByte
  PROVE  IInv'
<1>1. /\ at = "set" /\ i < call.len /\ i' = i + 1
      /\ mem' = [mem EXCEPT ![call.to + i] = call.val]
      /\ UNCHANGED <<mie, mstatus, at, call, ret, sp, irq, before, unmasked, acc>>
  BY DEF SetByte, Pass, history
<1>2. /\ call \in Calls /\ i \in Nat /\ ~Trapped
      /\ call.to \in 0..Buffer /\ call.len \in 0..Buffer /\ call.to + call.len <= Buffer
      /\ call.val \subseteq Bits
  <2>1. call \in Calls /\ Entry(call) = "set" /\ ~Trapped
    BY <1>1, InCall DEF Trapped
  <2> QED BY <2>1, CallShape, EntryIs DEF IInv, TypeOK
<1>3. mem \in [Addresses -> SUBSET Bits] /\ before \in [Addresses -> SUBSET Bits]
  BY <1>2, Untrapped DEF IInv, TypeOK
<1>4. call.to + i \in Addresses
  BY <1>1, <1>2, AddressFacts
<1>5. mem' \in [Addresses -> SUBSET Bits]
  BY <1>1, <1>2, <1>3, <1>4
<1>6. TypeOK'
  BY <1>1, <1>2, <1>5 DEF IInv, TypeOK, Trapped
<1>7. ControlInStep'
  <2>1. i + 1 <= call.len
    BY <1>1, <1>2
  <2> QED BY <1>1, <2>1 DEF IInv, ControlInStep, Entry, Trapped
<1>8. \A a \in Addresses : In(a, call.to, i + 1) <=> In(a, call.to, i) \/ a = call.to + i
  BY <1>2 DEF In, Addresses
<1>9. mem' = Filled(before, call, i + 1)
  <2>1. mem = Filled(before, call, i)
    BY <1>1 DEF IInv, LoopsInStep
  <2>2. \A a \in Addresses : mem'[a] = IF In(a, call.to, i + 1) THEN call.val ELSE before[a]
    BY <1>1, <1>3, <1>4, <1>8, <2>1 DEF Filled
  <2> QED BY <1>5, <2>2 DEF Filled
<1>10. LoopsInStep'
  BY <1>1, <1>5, <1>9 DEF LoopsInStep
<1> QED BY <1>1, <1>6, <1>7, <1>10 DEF IInv, MaskKnown, Trapped

(* Equal so far, and equal here: equal so far and here.                    *)
LEMMA CompareByteInv ==
  ASSUME IInv, CompareByte
  PROVE  IInv'
<1>1. /\ at = "compare" /\ i < call.len /\ i' = i + 1
      /\ acc' = acc \cup Xor(mem[call.a + i], mem[call.b + i])
      /\ UNCHANGED <<mem, mie, mstatus, at, call, ret, sp, irq, before, unmasked>>
  BY DEF CompareByte, Pass, history
<1>2. call \in Calls /\ call.f = "_compare" /\ i \in Nat /\ ~Trapped
  <2>1. call \in Calls /\ Entry(call) = "compare" /\ ~Trapped
    BY <1>1, InCall DEF Trapped
  <2> QED BY <2>1, EntryIs DEF IInv, TypeOK
<1>3. /\ call.a \in 0..Buffer /\ call.b \in 0..Buffer /\ call.len \in 0..Buffer
      /\ call.a + call.len <= Buffer /\ call.b + call.len <= Buffer
      /\ \A k \in 0..call.len : [call EXCEPT !.len = k].a = call.a /\ [call EXCEPT !.len = k].b = call.b
                                /\ [call EXCEPT !.len = k].len = k
  BY <1>2, CallShape
<1>4. /\ mem \in [Addresses -> SUBSET Bits] /\ call.a + i \in Addresses /\ call.b + i \in Addresses
  BY <1>1, <1>2, <1>3, Untrapped, AddressFacts
<1>5. acc \subseteq Bits /\ acc' \subseteq Bits
  BY <1>1, <1>4 DEF IInv, ControlInStep, Xor
<1>6. TypeOK'
  BY <1>1, <1>2, <1>5 DEF IInv, TypeOK, Trapped
<1>7. ControlInStep'
  <2>1. i + 1 <= call.len
    BY <1>1, <1>2, <1>3, AddressFacts
  <2> QED BY <1>1, <1>5, <2>1 DEF IInv, ControlInStep, Entry, Trapped
<1>8. acc' = {} <=> Equal(mem, [call EXCEPT !.len = i + 1])
  <2>1. acc = {} <=> Equal(mem, [call EXCEPT !.len = i])
    BY <1>1 DEF IInv, LoopsInStep
  <2>2. i \in 0..call.len /\ i + 1 \in 0..call.len
    BY <1>1, <1>2, <1>3, AddressFacts
  <2>3. Equal(mem, [call EXCEPT !.len = i]) <=> \A k \in 0..(i - 1) : mem[call.a + k] = mem[call.b + k]
    BY <1>3, <2>2 DEF Equal
  <2>4. Equal(mem, [call EXCEPT !.len = i + 1]) <=> \A k \in 0..i : mem[call.a + k] = mem[call.b + k]
    <3>1. (i + 1) - 1 = i
      BY <1>2
    <3> QED BY <1>3, <2>2, <3>1 DEF Equal
  <2>5. \A k : k \in 0..i <=> k \in 0..(i - 1) \/ k = i
    BY <1>2
  <2>6. (Xor(mem[call.a + i], mem[call.b + i]) = {}) <=> mem[call.a + i] = mem[call.b + i]
    BY DEF Xor
  <2>7. acc' = {} <=> acc = {} /\ Xor(mem[call.a + i], mem[call.b + i]) = {}
    BY <1>1
  <2> QED BY <2>1, <2>3, <2>4, <2>5, <2>6, <2>7
<1>9. LoopsInStep'
  <2>1. mem = before
    BY <1>1 DEF IInv, LoopsInStep
  <2> QED BY <1>1, <1>4, <1>8, <2>1 DEF LoopsInStep
<1> QED BY <1>1, <1>6, <1>7, <1>9 DEF IInv, MaskKnown, Trapped

LEMMA NopInv ==
  ASSUME IInv, Nop
  PROVE  IInv'
<1>1. /\ at = "nop" /\ i < call.len /\ i' = i + 1
      /\ UNCHANGED <<mem, mie, mstatus, at, call, ret, sp, irq, before, unmasked, acc>>
  BY DEF Nop, Pass, history
<1>2. call \in Calls /\ i \in Nat /\ call.len \in Nat /\ ~Trapped
  <2>1. call \in Calls /\ Entry(call) = "nop" /\ ~Trapped
    BY <1>1, InCall DEF Trapped
  <2>2. call.f = "sleep_busy"
    BY <2>1, EntryIs
  <2> QED BY <2>1, <2>2, CallShape, AddressFacts DEF IInv, TypeOK
<1>3. TypeOK'
  BY <1>1, <1>2 DEF IInv, TypeOK, Trapped
<1>4. ControlInStep'
  <2>1. i + 1 <= call.len
    BY <1>1, <1>2
  <2> QED BY <1>1, <2>1 DEF IInv, ControlInStep, Entry, Trapped
<1>5. LoopsInStep'
  BY <1>1 DEF IInv, LoopsInStep, Trapped
<1> QED BY <1>1, <1>3, <1>4, <1>5 DEF IInv, MaskKnown, Trapped

(* The first steps of the calls that read, and then write.                 *)
LEMMA FirstStepInv ==
  ASSUME IInv, LoadRegister \/ StoreScr \/ ReadMstatus
  PROVE  IInv'
<1>1. CASE LoadRegister
  <2>1. /\ at = "load" /\ acc' = mem[register] /\ at' = "store"
        /\ UNCHANGED <<mem, mie, mstatus, call, i, ret, sp, irq, before, unmasked>>
    BY <1>1 DEF LoadRegister, history
  <2>2. call \in Calls /\ Entry(call) = "load" /\ mem \in [Addresses -> SUBSET Bits]
    BY <2>1, InCall, Untrapped DEF Trapped
  <2>3. register \in Addresses
    BY AddressFacts DEF register
  <2>4. TypeOK'
    BY <2>1, <2>2, <2>3 DEF IInv, TypeOK, Trapped
  <2>5. ControlInStep'
    BY <2>1, <2>2 DEF IInv, ControlInStep, Entry
  <2>6. LoopsInStep'
    BY <2>1 DEF IInv, LoopsInStep, Trapped, register
  <2>7. MaskKnown'
    BY <2>1 DEF IInv, MaskKnown, Trapped
  <2> QED BY <2>4, <2>5, <2>6, <2>7 DEF IInv
<1>2. CASE StoreScr
  <2>1. /\ at = "SCR = 1" /\ mem' = [mem EXCEPT ![SCR] = {"b0"}] /\ at' = "wfi"
        /\ UNCHANGED <<mie, mstatus, call, i, acc, ret, sp, irq, before, unmasked>>
    BY <1>2 DEF StoreScr, history
  <2>2. call \in Calls /\ Entry(call) = "SCR = 1" /\ mem \in [Addresses -> SUBSET Bits]
    BY <2>1, InCall, Untrapped DEF Trapped
  <2>3. mem' \in [Addresses -> SUBSET Bits]
    BY <2>1, <2>2, AddressFacts, BitsAssumption
  <2>4. TypeOK'
    BY <2>1, <2>2, <2>3 DEF IInv, TypeOK, Trapped
  <2>5. ControlInStep'
    BY <2>1, <2>2 DEF IInv, ControlInStep, Entry
  <2>6. LoopsInStep'
    BY <2>1, <2>3 DEF IInv, LoopsInStep, Trapped
  <2>7. MaskKnown'
    BY <2>1 DEF IInv, MaskKnown, Trapped
  <2> QED BY <2>4, <2>5, <2>6, <2>7 DEF IInv
<1>3. CASE ReadMstatus
  <2>1. /\ at = "csrr mstatus" /\ acc' = mstatus /\ at' = "csrw mstatus"
        /\ UNCHANGED <<mem, mie, mstatus, call, i, ret, sp, irq, before, unmasked>>
    BY <1>3 DEF ReadMstatus, history
  <2>2. call \in Calls /\ Entry(call) = "csrr mstatus"
    BY <2>1, InCall DEF Trapped
  <2>3. TypeOK'
    BY <2>1, <2>2 DEF IInv, TypeOK, Trapped
  <2>4. ControlInStep'
    BY <2>1, <2>2 DEF IInv, ControlInStep, Entry
  <2>5. LoopsInStep'
    BY <2>1 DEF IInv, LoopsInStep, Trapped
  <2>6. MaskKnown'
    BY <2>1 DEF IInv, MaskKnown, Trapped
  <2> QED BY <2>3, <2>4, <2>5, <2>6 DEF IInv
<1> QED BY <1>1, <1>2, <1>3

(* int_disable() has masked interrupts before it clears the register.      *)
LEMMA MaskInv ==
  ASSUME IInv, WriteMstatus, call.f = "int_disable"
  PROVE  IInv'
<1>1. /\ at = "csrw mstatus" /\ mstatus' = acc \ {"MIE"} /\ at' = "csrw 0x300"
      /\ UNCHANGED <<mem, mie, call, i, acc, ret, sp, irq, before, unmasked>>
  BY DEF WriteMstatus, history
<1>2. call \in Calls /\ acc = mstatus
  BY <1>1, InCall DEF Trapped, IInv, MaskKnown
<1>3. TypeOK'
  BY <1>1, <1>2 DEF IInv, TypeOK, Trapped
<1>4. ControlInStep'
  BY <1>1 DEF IInv, ControlInStep
<1>5. LoopsInStep'
  BY <1>1 DEF IInv, LoopsInStep, Trapped
<1>6. MaskKnown'
  BY <1>1 DEF MaskKnown
<1> QED BY <1>3, <1>4, <1>5, <1>6 DEF IInv

(* ---- what the returns leave ----------------------------------------------*)
(* The actions with which a call ends.                                     *)
Ends ==
  \/ CopyEnds \/ CopyFails \/ SetEnds \/ CompareEnds \/ StoreRegister \/ Wake \/ NopEnds \/ CoreNumber
  \/ csrw \/ (WriteMstatus /\ call.f = "int_enable") \/ ClearMstatus

(* What a call leaves and answers is what it promises, and it masks,       *)
(* unmasks and enables what it is there for.                               *)
Kept(v) ==
  /\ Return(v) /\ v \in Nat \cup {Void}
  /\ mem' \in [Addresses -> SUBSET Bits]
  /\ mie' \in BOOLEAN /\ mie' = (IF call.f = "csrw" THEN call.value ELSE mie)
  /\ mstatus' \subseteq {"MIE", "MPIE"}
  /\ "MIE" \in mstatus' <=> IF call.f = "int_enable" THEN TRUE
                            ELSE IF call.f = "int_disable" THEN FALSE ELSE unmasked
  /\ Leaves(call, before, mem') /\ Answers(call, before, v)

(* Where a call ends it is under way, and, unless it is about masking, the *)
(* CSRs are as they were.                                                  *)
LEMMA EndFacts ==
  ASSUME IInv, ~Trapped, at # "caller"
  PROVE  /\ mem \in [Addresses -> SUBSET Bits] /\ before \in [Addresses -> SUBSET Bits]
         /\ mie \in BOOLEAN /\ mstatus \subseteq {"MIE", "MPIE"}
         /\ at # "csrw 0x300" => (unmasked <=> "MIE" \in mstatus)
  BY Untrapped DEF IInv, TypeOK, MaskKnown

(* The loops: a copy, a fill, a comparison and a wait that are through.    *)
LEMMA LoopsKept ==
  ASSUME IInv, CopyEnds \/ CopyFails \/ SetEnds \/ CompareEnds \/ NopEnds
  PROVE  ~Trapped /\ call \in Calls /\ \E v : Kept(v)
<1>1. /\ at \in {"copy", "fail", "set", "compare", "nop"}
      /\ UNCHANGED <<mem, mie, mstatus>>
  BY DEF CopyEnds, CopyFails, SetEnds, CompareEnds, NopEnds
<1>2. ~Trapped /\ at # "caller" /\ call \in Calls /\ at = Entry(call)
  BY <1>1, InCall DEF Trapped
<1>3. /\ mem' \in [Addresses -> SUBSET Bits] /\ mie' \in BOOLEAN /\ mie' = mie
      /\ mstatus' \subseteq {"MIE", "MPIE"} /\ ("MIE" \in mstatus' <=> unmasked)
  BY <1>1, <1>2, EndFacts
<1>4. CASE CopyEnds
  <2>1. at = "copy" /\ i = call.len /\ Return(IF call.f = "_copy" THEN call.len ELSE call.to)
    BY <1>4 DEF CopyEnds
  <2>2. call.f \in {"memcpy", "_copy"} /\ ~Refused(call) /\ call.to \in Nat /\ call.len \in Nat
    <3>1. call.f \in {"memcpy", "_copy"} /\ ~Refused(call)
      BY <1>2, <2>1, EntryIs
    <3> QED BY <1>2, <3>1, CallShape, AddressFacts
  <2>3. Leaves(call, before, mem')
    <3>1. IF Overruns(call) THEN \A a \in Addresses : In(a, call.to, call.len) \/ mem[a] = before[a]
          ELSE mem = Copied(before, call, call.len)
      BY <2>1 DEF IInv, LoopsInStep
    <3> QED BY <1>1, <2>2, <3>1 DEF Leaves
  <2>4. Answers(call, before, IF call.f = "_copy" THEN call.len ELSE call.to)
    BY <2>2 DEF Answers
  <2>5. Kept(IF call.f = "_copy" THEN call.len ELSE call.to)
    BY <1>3, <2>1, <2>2, <2>3, <2>4 DEF Kept
  <2> QED BY <1>2, <2>5
<1>5. CASE CopyFails
  <2>1. at = "fail" /\ Return(TC_CRYPTO_FAIL)
    BY <1>5 DEF CopyFails
  <2>2. Refused(call) /\ call.f = "_copy"
    BY <1>2, <2>1, EntryIs DEF Refused
  <2>3. Leaves(call, before, mem')
    BY <1>1, <2>1, <2>2 DEF Leaves, IInv, LoopsInStep
  <2>4. Answers(call, before, TC_CRYPTO_FAIL)
    BY <2>2 DEF Answers
  <2>5. Kept(TC_CRYPTO_FAIL)
    BY <1>3, <2>1, <2>2, <2>3, <2>4 DEF Kept, TC_CRYPTO_FAIL
  <2> QED BY <1>2, <2>5
<1>6. CASE SetEnds
  <2>1. at = "set" /\ i = call.len /\ Return(IF call.f = "memset" THEN call.to ELSE Void)
    BY <1>6 DEF SetEnds
  <2>2. call.f \in {"memset", "_set", "_set_secure"} /\ call.to \in Nat
    <3>1. call.f \in {"memset", "_set", "_set_secure"}
      BY <1>2, <2>1, EntryIs
    <3> QED BY <1>2, <3>1, CallShape, AddressFacts
  <2>3. mem = Filled(before, call, call.len)
    BY <2>1 DEF IInv, LoopsInStep
  <2>4. Leaves(call, before, mem')
    BY <1>1, <2>2, <2>3 DEF Leaves, Refused
  <2>5. Answers(call, before, IF call.f = "memset" THEN call.to ELSE Void)
    BY <2>2 DEF Answers
  <2>6. Kept(IF call.f = "memset" THEN call.to ELSE Void)
    BY <1>3, <2>1, <2>2, <2>4, <2>5 DEF Kept
  <2> QED BY <1>2, <2>6
<1>7. CASE CompareEnds
  <2>1. at = "compare" /\ i = call.len /\ Return(IF acc = {} THEN 0 ELSE 1)
    BY <1>7 DEF CompareEnds
  <2>2. call.f = "_compare" /\ [call EXCEPT !.len = call.len] = call
    BY <1>2, <2>1, EntryIs, CallShape
  <2>3. mem = before /\ (acc = {} <=> Equal(mem, call))
    BY <2>1, <2>2 DEF IInv, LoopsInStep
  <2>4. Leaves(call, before, mem')
    BY <1>1, <2>2, <2>3 DEF Leaves, Refused
  <2>5. Answers(call, before, IF acc = {} THEN 0 ELSE 1)
    BY <2>2, <2>3 DEF Answers
  <2>6. Kept(IF acc = {} THEN 0 ELSE 1)
    BY <1>3, <2>1, <2>2, <2>4, <2>5 DEF Kept
  <2> QED BY <1>2, <2>6
<1>8. CASE NopEnds
  <2>1. at = "nop" /\ Return(Void)
    BY <1>8 DEF NopEnds
  <2>2. call.f = "sleep_busy"
    BY <1>2, <2>1, EntryIs
  <2>3. Leaves(call, before, mem') /\ Answers(call, before, Void)
    BY <1>1, <2>1, <2>2 DEF Leaves, Refused, Answers, IInv, LoopsInStep
  <2>4. Kept(Void)
    BY <1>3, <2>1, <2>2, <2>3 DEF Kept
  <2> QED BY <1>2, <2>4
<1> QED BY <1>4, <1>5, <1>6, <1>7, <1>8

(* The rest: the event unit, sleep, the CSRs, and the core's number.       *)
LEMMA AccessesKept ==
  ASSUME IInv, \/ StoreRegister \/ Wake \/ CoreNumber \/ csrw
               \/ (WriteMstatus /\ call.f = "int_enable") \/ ClearMstatus
  PROVE  ~Trapped /\ call \in Calls /\ \E v : Kept(v)
<1>1. at \in {"store", "wfi", "return 0", "csrw", "csrw mstatus", "csrw 0x300"} /\ Return(ret')
  BY DEF StoreRegister, Wake, CoreNumber, csrw, WriteMstatus, ClearMstatus, Return
<1>2. /\ ~Trapped /\ at # "caller" /\ call \in Calls
      /\ \/ at = Entry(call)
         \/ at = "store" /\ Entry(call) = "load"
         \/ at = "wfi" /\ Entry(call) = "SCR = 1"
         \/ at = "csrw mstatus" /\ Entry(call) = "csrr mstatus"
         \/ at = "csrw 0x300" /\ call.f = "int_disable"
  BY <1>1, InCall DEF Trapped
<1>3. /\ mem \in [Addresses -> SUBSET Bits] /\ before \in [Addresses -> SUBSET Bits]
      /\ mie \in BOOLEAN /\ mstatus \subseteq {"MIE", "MPIE"}
      /\ at # "csrw 0x300" => (unmasked <=> "MIE" \in mstatus)
  BY <1>2, EndFacts
<1>4. CASE StoreRegister
  <2>1. /\ at = "store" /\ Return(Void) /\ UNCHANGED <<mie, mstatus>>
        /\ mem' = [mem EXCEPT ![register] = IF call.f = "int_periph_disable" THEN acc \ {call.periph}
                                            ELSE acc \cup {call.periph}]
    BY <1>4 DEF StoreRegister
  <2>2. call.f \in {"int_periph_enable", "int_periph_disable", "int_periph_clear"} /\ call.periph \in Bits
    BY <1>2, <2>1, EntryIs, CallShape
  <2>3. mem = before /\ acc = before[register] /\ register \in Addresses
    BY <2>1, AddressFacts DEF IInv, LoopsInStep, register
  <2>4. mem' \in [Addresses -> SUBSET Bits]
    BY <1>3, <2>1, <2>2, <2>3
  <2>5. Leaves(call, before, mem') /\ Answers(call, before, Void)
    BY <2>1, <2>2, <2>3 DEF Leaves, Refused, Answers, register
  <2>6. Kept(Void)
    BY <1>3, <2>1, <2>2, <2>4, <2>5 DEF Kept
  <2> QED BY <1>2, <2>6
<1>5. CASE Wake
  <2>1. at = "wfi" /\ Return(Void) /\ UNCHANGED <<mem, mie, mstatus>>
    BY <1>5 DEF Wake
  <2>2. call.f = "sleep" /\ mem = [before EXCEPT ![SCR] = {"b0"}]
    BY <1>2, <2>1, EntryIs DEF IInv, LoopsInStep
  <2>3. Leaves(call, before, mem') /\ Answers(call, before, Void)
    BY <2>1, <2>2 DEF Leaves, Refused, Answers
  <2>4. Kept(Void)
    BY <1>3, <2>1, <2>2, <2>3 DEF Kept
  <2> QED BY <1>2, <2>4
<1>6. CASE CoreNumber
  <2>1. at = "return 0" /\ Return(0) /\ UNCHANGED <<mem, mie, mstatus>>
    BY <1>6 DEF CoreNumber
  <2>2. call.f \in {"get_core_id", "get_core_num"} /\ mem = before
    BY <1>2, <2>1, EntryIs DEF IInv, LoopsInStep
  <2>3. Leaves(call, before, mem') /\ Answers(call, before, 0)
    BY <2>1, <2>2 DEF Leaves, Refused, Answers
  <2>4. Kept(0)
    BY <1>3, <2>1, <2>2, <2>3 DEF Kept
  <2> QED BY <1>2, <2>4
<1>7. CASE csrw
  <2>1. at = "csrw" /\ mie' = call.value /\ Return(Void) /\ UNCHANGED <<mem, mstatus>>
    BY <1>7 DEF csrw
  <2>2. call.f = "csrw" /\ call.value \in BOOLEAN /\ mem = before
    BY <1>2, <2>1, EntryIs, CallShape DEF IInv, LoopsInStep
  <2>3. Leaves(call, before, mem') /\ Answers(call, before, Void)
    BY <2>1, <2>2 DEF Leaves, Refused, Answers
  <2>4. Kept(Void)
    BY <1>3, <2>1, <2>2, <2>3 DEF Kept
  <2> QED BY <1>2, <2>4
<1>8. CASE WriteMstatus /\ call.f = "int_enable"
  <2>1. at = "csrw mstatus" /\ mstatus' = acc \cup {"MIE"} /\ Return(Void) /\ UNCHANGED <<mem, mie>>
    BY <1>8 DEF WriteMstatus
  <2>2. mem = before /\ acc = mstatus
    BY <2>1 DEF IInv, LoopsInStep, MaskKnown
  <2>3. Leaves(call, before, mem') /\ Answers(call, before, Void)
    BY <1>8, <2>1, <2>2 DEF Leaves, Refused, Answers
  <2>4. Kept(Void)
    BY <1>3, <1>8, <2>1, <2>2, <2>3 DEF Kept
  <2> QED BY <1>2, <2>4
<1>9. CASE ClearMstatus
  <2>1. at = "csrw 0x300" /\ mstatus' = {} /\ Return(Void) /\ UNCHANGED <<mem, mie>>
    BY <1>9 DEF ClearMstatus
  <2>2. call.f = "int_disable" /\ mem = before
    BY <1>2, <2>1, EntryIs DEF IInv, LoopsInStep
  <2>3. Leaves(call, before, mem') /\ Answers(call, before, Void)
    BY <2>1, <2>2 DEF Leaves, Refused, Answers
  <2>4. Kept(Void)
    BY <1>3, <2>1, <2>2, <2>3 DEF Kept
  <2> QED BY <1>2, <2>4
<1> QED BY <1>4, <1>5, <1>6, <1>7, <1>8, <1>9

LEMMA EndsKept ==
  ASSUME IInv, Ends
  PROVE  ~Trapped /\ call \in Calls /\ \E v : Kept(v)
  BY LoopsKept, AccessesKept DEF Ends

LEMMA EndsInv ==
  ASSUME IInv, Ends
  PROVE  IInv'
<1>1. PICK v : Kept(v)
  BY EndsKept
<1> QED BY <1>1, EndsKept, ReturnInv DEF Kept

(* ---- interrupts ----------------------------------------------------------*)
(* In the stubs only the stack pointer and the RAM matter.                 *)
LEMMA StubsInv ==
  ASSUME IInv, Interrupt \/ Stub \/ store_regs \/ ReadLoopCsr
  PROVE  IInv'
<1>1. /\ at' \in {"stub", "store_regs", "csrr 0x7B0"}
      /\ call' = Nowhere /\ i' = 0 /\ acc' \in (SUBSET Bits) \cup SUBSET {"MIE", "MPIE"}
  <2>1. CASE Interrupt
    BY <2>1 DEF Interrupt
  <2>2. CASE Stub \/ store_regs \/ ReadLoopCsr
    <3>1. Trapped
      BY <2>2 DEF Stub, store_regs, ReadLoopCsr, Trapped
    <3>2. call = Nowhere /\ i = 0 /\ acc \in (SUBSET Bits) \cup SUBSET {"MIE", "MPIE"}
      BY <3>1 DEF IInv, TypeOK, ControlInStep, Trapped
    <3> QED BY <2>2, <3>2 DEF Stub, store_regs, ReadLoopCsr
  <2> QED BY <2>1, <2>2
<1>2. /\ mem' \in [Addresses -> (SUBSET Bits) \cup {Registers}] /\ sp' \in Addresses
  <2>1. mem \in [Addresses -> (SUBSET Bits) \cup {Registers}] /\ sp \in Addresses /\ sp \in Int /\ FrameSize \in Int
    BY FrameAssumption DEF IInv, TypeOK, Addresses
  <2>2. CASE Interrupt \/ ReadLoopCsr
    BY <2>1, <2>2 DEF Interrupt, ReadLoopCsr
  <2>3. CASE Stub
    <3>1. (sp - FrameSize) % RamSize \in Addresses
      BY <2>1, AddressFacts
    <3> QED BY <2>1, <2>3, <3>1 DEF Stub
  <2>4. CASE store_regs
    BY <2>1, <2>4 DEF store_regs
  <2> QED BY <2>2, <2>3, <2>4
<1>3. /\ before' \in [Addresses -> SUBSET Bits] /\ ret' \in Nat \cup {Void}
      /\ mie' \in BOOLEAN /\ unmasked' \in BOOLEAN /\ irq' \in BOOLEAN /\ mstatus' \subseteq {"MIE", "MPIE"}
  <2>1. CASE Interrupt
    BY <2>1 DEF Interrupt, IInv, TypeOK
  <2>2. CASE Stub \/ store_regs \/ ReadLoopCsr
    BY <2>2 DEF Stub, store_regs, ReadLoopCsr, history, IInv, TypeOK
  <2> QED BY <2>1, <2>2
<1>4. TypeOK'
  BY <1>1, <1>2, <1>3 DEF TypeOK, Trapped
<1>5. ControlInStep' /\ LoopsInStep' /\ MaskKnown'
  BY <1>1 DEF ControlInStep, LoopsInStep, MaskKnown, Trapped
<1> QED BY <1>4, <1>5 DEF IInv

LEMMA LineInv ==
  ASSUME IInv, Line
  PROVE  IInv'
<1>1. /\ irq' \in BOOLEAN
      /\ UNCHANGED <<mem, mie, mstatus, at, call, i, acc, ret, sp, before, unmasked>>
  BY DEF Line, history, IInv, TypeOK
<1> QED BY <1>1 DEF IInv, TypeOK, Trapped, ControlInStep, Entry, LoopsInStep, MaskKnown, register

(* How a step of a call goes on, if it does not end it.                    *)
Goes ==
  \/ CopyByte \/ SetByte \/ CompareByte \/ Nop
  \/ LoadRegister \/ StoreScr \/ ReadMstatus \/ (WriteMstatus /\ call.f = "int_disable")

LEMMA NextSplits ==
  ASSUME IInv, Next
  PROVE  Call \/ Goes \/ Ends \/ Interrupt \/ Stub \/ store_regs \/ ReadLoopCsr \/ Line
<1>1. WriteMstatus => call.f \in {"int_enable", "int_disable"}
  <2> SUFFICES ASSUME WriteMstatus PROVE call.f \in {"int_enable", "int_disable"}
    OBVIOUS
  <2>1. at = "csrw mstatus"
    BY DEF WriteMstatus
  <2>2. call \in Calls /\ (at = Entry(call) \/ Entry(call) = "csrr mstatus")
    BY <2>1, InCall DEF Trapped
  <2> QED BY <2>1, <2>2, EntryIs
<1> QED BY <1>1 DEF Next, Step, Goes, Ends

LEMMA GoesInv ==
  ASSUME IInv, Goes
  PROVE  IInv'
  BY CopyByteInv, SetByteInv, CompareByteInv, NopInv, FirstStepInv, MaskInv DEF Goes

(* Whatever is called, in whatever order and state of the line: the loops  *)
(* are where their counters say, nothing else has moved, and the caller    *)
(* knows whether interrupts are masked (tcutils.c, event.h, int.h).        *)
THEOREM Invariance == Spec => []IInv
<1>1. Init => IInv
  BY Initial
<1>2. IInv /\ [Next]_vars => IInv'
  <2> SUFFICES ASSUME IInv, [Next]_vars PROVE IInv'
    OBVIOUS
  <2>1. CASE Next
    BY <2>1, NextSplits, CallInv, GoesInv, EndsInv, StubsInv, LineInv
  <2>2. CASE UNCHANGED vars
    <3>1. UNCHANGED <<mem, mie, mstatus, at, call, i, acc, ret, sp, irq, before, unmasked>>
      BY <2>2 DEF vars, history
    <3> QED BY <3>1 DEF IInv, TypeOK, Trapped, ControlInStep, Entry, LoopsInStep, MaskKnown, register
  <2> QED BY <2>1, <2>2
<1> QED BY <1>1, <1>2, PTL DEF Spec

-----------------------------------------------------------------------------
(* ---- the refinement ------------------------------------------------------*)
LEMMA SameInterface ==
  /\ Promised!Nowhere = Nowhere /\ Promised!Void = Void /\ Promised!Addresses = Addresses
  /\ Promised!Calls = Calls
  /\ \A c, m, m2 : Promised!Leaves(c, m, m2) <=> Leaves(c, m, m2)
  /\ \A c, m, r : Promised!Answers(c, m, r) <=> Answers(c, m, r)
<1>1. Promised!Nowhere = Nowhere /\ Promised!Void = Void /\ Promised!Addresses = Addresses
  BY DEF Promised!Nowhere, Nowhere, Promised!Void, Void, Promised!Addresses, Addresses
<1>2. Promised!Calls = Calls
  BY DEF Promised!Calls, Calls, Promised!Copies, Copies, Promised!Fills, Fills, Promised!Comparisons, Comparisons,
         Promised!Periphs, Periphs, Promised!Waits, Waits, Promised!Simple, Simple,
         Promised!CsrWrites, CsrWrites, Promised!Fits, Fits
<1>3. \A c, m, m2 : Promised!Leaves(c, m, m2) <=> Leaves(c, m, m2)
  BY DEF Promised!Leaves, Leaves, Promised!Refused, Refused, Promised!Overruns, Overruns,
         Promised!Copied, Copied, Promised!Filled, Filled, Promised!In, In,
         Promised!Addresses, Addresses, Promised!IER, IER, Promised!ICP, ICP, Promised!SCR, SCR
<1>4. \A c, m, r : Promised!Answers(c, m, r) <=> Answers(c, m, r)
  BY DEF Promised!Answers, Answers, Promised!Refused, Refused, Promised!TC_CRYPTO_FAIL, TC_CRYPTO_FAIL,
         Promised!Equal, Equal, Promised!Void, Void
<1> QED BY <1>1, <1>2, <1>3, <1>4

LEMMA SameTrap == (Trapped /\ Trapped') \/ (~Trapped /\ ~Trapped') => Trapped' = Trapped
<1>1. Trapped \in BOOLEAN /\ Trapped' \in BOOLEAN
  BY DEF Trapped
<1> QED BY <1>1

(* The end of a call is the one step of what it promises.                  *)
LEMMA EndsAnswer ==
  ASSUME IInv, Ends
  PROVE  Promised!Answer
<1>1. PICK v : Kept(v)
  BY EndsKept
<1>2. ~Trapped /\ call \in Calls /\ call # Nowhere
  BY EndsKept, CallShape
<1>3. /\ at' = "caller" /\ call' = Nowhere /\ ret' = v
      /\ before' = mem' /\ unmasked' = ("MIE" \in mstatus')
  BY <1>1 DEF Kept, Return
<1>4. ~Trapped'
  BY <1>3 DEF Trapped
<1>5. Leaves(call, before, before') /\ Answers(call, before, ret')
  BY <1>1, <1>3 DEF Kept
<1>6. mie' = Promised!Enabled(call, mie)
  BY <1>1 DEF Kept, Promised!Enabled
<1>7. unmasked' = Promised!Unmasked(call, unmasked)
  <2>1. unmasked \in BOOLEAN
    BY DEF IInv, TypeOK
  <2>2. /\ call.f = "int_enable" => unmasked' = TRUE
        /\ call.f = "int_disable" => unmasked' = FALSE
        /\ call.f # "int_enable" /\ call.f # "int_disable" => unmasked' = unmasked
    <3>1. /\ "MIE" \in mstatus' <=> IF call.f = "int_enable" THEN TRUE
                                    ELSE IF call.f = "int_disable" THEN FALSE ELSE unmasked
          /\ unmasked' = ("MIE" \in mstatus')
      BY <1>1, <1>3 DEF Kept
    <3>2. CASE call.f = "int_enable"
      BY <3>1, <3>2
    <3>3. CASE call.f = "int_disable"
      <4>1. call.f # "int_enable"
        BY <3>3
      <4>2. "MIE" \notin mstatus'
        BY <3>1, <3>3, <4>1
      <4>3. ("MIE" \in mstatus') = FALSE
        BY <4>2
      <4>4. unmasked' = FALSE
        BY <3>1, <4>3
      <4> QED BY <3>3, <4>1, <4>4
    <3>4. CASE call.f # "int_enable" /\ call.f # "int_disable"
      BY <2>1, <3>1, <3>4
    <3> QED BY <3>2, <3>3, <3>4
  <2> QED BY <2>2 DEF Promised!Unmasked
<1>8. Trapped' = Trapped
  BY <1>2, <1>4, SameTrap
<1> QED BY <1>2, <1>3, <1>5, <1>6, <1>7, <1>8, SameInterface DEF Promised!Answer

(* Interrupts are taken from a program that enabled them and did not mask  *)
(* them, as far as it knows.                                               *)
LEMMA InterruptLoses ==
  ASSUME IInv, Interrupt
  PROVE  Promised!Lose
<1>1. /\ ~Trapped /\ mie /\ "MIE" \in mstatus /\ at' = "stub"
  BY DEF Interrupt
<1>2. unmasked
  BY <1>1 DEF IInv, MaskKnown
<1>3. Trapped'
  BY <1>1 DEF Trapped
<1> QED BY <1>1, <1>2, <1>3 DEF Promised!Lose

(* What goes on within a call, and within the stubs, is not seen.          *)
LEMMA Unseen ==
  ASSUME IInv, Goes \/ Stub \/ store_regs \/ ReadLoopCsr \/ Line
  PROVE  UNCHANGED Promised!callVars
<1>1. UNCHANGED <<before, ret, call, mie, unmasked>>
  BY DEF Goes, CopyByte, SetByte, CompareByte, Nop, Pass, LoadRegister, StoreScr, ReadMstatus, WriteMstatus,
         Stub, store_regs, ReadLoopCsr, Line, history
<1>2. Trapped' = Trapped
  <2>1. CASE Goes
    <3>1. ~Trapped /\ ~Trapped'
      BY <2>1 DEF Goes, CopyByte, SetByte, CompareByte, Nop, Pass, LoadRegister, StoreScr, ReadMstatus,
                  WriteMstatus, Trapped
    <3> QED BY <3>1, SameTrap
  <2>2. CASE Stub \/ store_regs \/ ReadLoopCsr
    <3>1. Trapped /\ Trapped'
      BY <2>2 DEF Stub, store_regs, ReadLoopCsr, Trapped
    <3> QED BY <3>1, SameTrap
  <2>3. CASE Line
    BY <2>3 DEF Line, Trapped
  <2> QED BY <2>1, <2>2, <2>3
<1> QED BY <1>1, <1>2 DEF Promised!callVars

LEMMA RefinementStep == IInv /\ [Next]_vars => [Promised!CallsNext]_(Promised!callVars)
<1> SUFFICES ASSUME IInv, [Next]_vars PROVE [Promised!CallsNext]_(Promised!callVars)
  OBVIOUS
<1>1. CASE UNCHANGED vars
  BY <1>1 DEF vars, history, Promised!callVars, Trapped
<1>2. CASE Call
  <2>1. PICK c \in Calls : call' = c /\ at' = Entry(c)
    BY <1>2 DEF Call
  <2>2. /\ at = "caller" /\ ret' = Void /\ UNCHANGED <<mie, before, unmasked>>
    BY <1>2 DEF Call, history
  <2>3. ~Trapped /\ call = Nowhere
    BY <2>2 DEF IInv, TypeOK, Trapped
  <2>4. ~Trapped'
    BY <2>1, EntryIs DEF Trapped
  <2>5. Promised!Ask(c)
    BY <2>1, <2>2, <2>3, <2>4, SameInterface, SameTrap DEF Promised!Ask
  <2> QED BY <2>1, <2>5, SameInterface DEF Promised!CallsNext
<1>3. CASE Next /\ ~Call
  BY <1>3, NextSplits, EndsAnswer, InterruptLoses, Unseen DEF Promised!CallsNext
<1> QED BY <1>1, <1>2, <1>3

(* Byte by byte, pass by pass and whatever the line does, a call leaves    *)
(* and answers what it promises in one step; the program is lost only to   *)
(* an interrupt that is enabled and not masked, so to none between         *)
(* int_disable() and int_enable() (tcutils.c, event.h, utils.h, int.h,     *)
(* crt0.riscv.S).                                                          *)
THEOREM Refinement == Spec => ImplementsLibrary
<1>1. Init => Promised!CallsInit
  BY SameInterface DEF Init, Promised!CallsInit, Trapped
<1> QED BY <1>1, Invariance, RefinementStep, PTL DEF Spec, ImplementsLibrary, Promised!CallsSpec
===============================================================================
