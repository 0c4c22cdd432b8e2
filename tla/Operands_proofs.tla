---------------------------- MODULE Operands_proofs ----------------------------
(***************************************************************************)
(* Proofs about Operands, for every register file and every program.       *)
(***************************************************************************)
EXTENDS Operands, TLAPS

(* What the decoder says of an instruction.                                *)
LEMMA Described ==
  ASSUME NEW kind, NEW srcs, NEW rd
  PROVE  LET d == Decoded(kind, srcs, rd)
         IN /\ d.kind = kind /\ d.srcs = srcs /\ d.rd = rd
            /\ d.regfile_alu_we = (kind \in {"op", "jalr", "csr"})
            /\ d.regfile_we = (kind \in {"load", "split"})
BY DEF Decoded

(* So for any instruction, and for what a bubble holds.                    *)
LEMMA Fields ==
  ASSUME NEW d \in Instructions \cup {Nothing}
  PROVE  /\ d.srcs \subseteq Regs /\ d.rd \in Regs
         /\ d.regfile_alu_we <=> d.kind \in {"op", "jalr", "csr"}
         /\ d.regfile_we <=> d.kind \in {"load", "split"}
         /\ d.regfile_we \in BOOLEAN /\ d.regfile_alu_we \in BOOLEAN
<1>1. PICK kind \in Kinds \cup {"none"}, srcs \in SUBSET Regs, rd \in Regs :
        d = Decoded(kind, srcs, rd)
  <2>1. CASE d \in Instructions
    BY <2>1 DEF Instructions
  <2>2. CASE d = Decoded("none", {}, 0)
    BY <2>2, RegsAssumption
  <2> QED BY <2>1, <2>2 DEF Nothing
<1>2. /\ d.kind = kind /\ d.srcs = srcs /\ d.rd = rd
      /\ d.regfile_alu_we = (kind \in {"op", "jalr", "csr"})
      /\ d.regfile_we = (kind \in {"load", "split"})
  BY <1>1, Described
<1>3. d.regfile_we \in BOOLEAN /\ d.regfile_alu_we \in BOOLEAN
  BY <1>2
<1>4. /\ d.regfile_alu_we <=> d.kind \in {"op", "jalr", "csr"}
      /\ d.regfile_we <=> d.kind \in {"load", "split"}
  BY <1>2
<1> QED BY <1>1, <1>2, <1>3, <1>4

(* An instruction that has just entered EX, and a bubble.                  *)
LEMMA Entered ==
  /\ \A d, s :
       /\ InEx(d, s).d = d /\ InEx(d, s).seq = s /\ InEx(d, s).alu_we = d.regfile_alu_we
       /\ InEx(d, s).again = FALSE /\ InEx(d, s).half = FALSE
       /\ InEx(d, s) = [d |-> InEx(d, s).d, seq |-> InEx(d, s).seq, alu_we |-> InEx(d, s).alu_we,
                        again |-> InEx(d, s).again, half |-> InEx(d, s).half]
  /\ Nothing.regfile_we = FALSE /\ Nothing.regfile_alu_we = FALSE /\ Nothing.kind = "none"
  /\ Nothing.rd = 0
<1>1. Nothing.kind = "none" /\ Nothing.rd = 0
  BY DEF Nothing, Decoded
<1>2. ~Nothing.regfile_we /\ ~Nothing.regfile_alu_we
  BY DEF Nothing, Decoded
<1>3. Nothing.regfile_we \in BOOLEAN /\ Nothing.regfile_alu_we \in BOOLEAN
  BY DEF Nothing, Decoded
<1>4. Nothing.regfile_we = FALSE /\ Nothing.regfile_alu_we = FALSE
  BY <1>2, <1>3
<1> QED BY <1>1, <1>4 DEF InEx

(* What is free or holds an access, and what is in EX.                     *)
LEMMA Stages ==
  /\ \A r \in Regs : Free(r) \in [busy : BOOLEAN, we : BOOLEAN, rd : Regs, seq : Nat, half : BOOLEAN]
  /\ \A we \in BOOLEAN, r \in Regs, s \in Nat, h \in BOOLEAN :
       InWb(we, r, s, h) \in [busy : BOOLEAN, we : BOOLEAN, rd : Regs, seq : Nat, half : BOOLEAN]
BY DEF Free, InWb

(* The invariant holds at reset.                                           *)
LEMMA InitInvariant == Init => IInv
<1> SUFFICES ASSUME Init PROVE IInv
  OBVIOUS
<1>1. /\ ex.d = Nothing /\ ex.seq = 0 /\ ex.alu_we = FALSE /\ ex.again = FALSE /\ ex.half = FALSE
      /\ ex = [d |-> ex.d, seq |-> ex.seq, alu_we |-> ex.alu_we, again |-> ex.again, half |-> ex.half]
      /\ Nothing.regfile_we = FALSE /\ Nothing.regfile_alu_we = FALSE
  BY Entered DEF Init
<1>2. wb.we = FALSE /\ wb \in [busy : BOOLEAN, we : BOOLEAN, rd : Regs, seq : Nat, half : BOOLEAN]
  BY RegsAssumption DEF Init, Free
<1>3. mem = [r \in Regs |-> 0] /\ last = [r \in Regs |-> 0] /\ n = 0 /\ regfile_waddr_ex = 0
  BY DEF Init
<1>4. TypeOK
  BY <1>1, <1>2, <1>3, RegsAssumption DEF TypeOK
<1>5. ResultsInStep
  BY <1>1, <1>2, <1>3, RegsAssumption DEF ResultsInStep, alu_writes, lsu_writes
<1> QED BY <1>4, <1>5 DEF IInv

(* The results that EX and WB show when they have them.                    *)
LEMMA Results ==
  ASSUME IInv, NEW in \in Inputs
  PROVE  /\ in.ex_done /\ ex.alu_we => alu_wdata(in) = ex.seq
         /\ wb.we /\ in.wb_ready /\ ~wb.half => wb_wdata(in) = wb.seq
         /\ alu_wdata(in) \in Nat \cup {Junk} /\ wb_wdata(in) \in Nat \cup {Junk}
         /\ in.ex_done \in BOOLEAN /\ in.wb_ready \in BOOLEAN
         /\ ex.d.kind \in {"none", "csr", "branch"} => in.ex_done
BY DEF IInv, TypeOK, ResultsInStep, alu_wdata, wb_wdata, Inputs

(* The registers after a clock edge.                                       *)
LEMMA Written ==
  ASSUME IInv, NEW in \in Inputs, Clock(in)
  PROVE  /\ mem' = [r \in Regs |-> mem'[r]] /\ \A r \in Regs : mem'[r] \in Nat \cup {Junk}
         /\ mem'[0] = 0
         /\ \A r \in Regs \ {0} : mem'[r] = IF alu_writes(r) THEN alu_wdata(in)
                                            ELSE IF lsu_writes(r) THEN wb_wdata(in)
                                            ELSE mem[r]
BY Results, RegsAssumption DEF Clock, WriteRegisters, IInv, TypeOK

(* WB after a clock edge: the access of EX, nothing, or what it held.      *)
LEMMA WbAfter ==
  ASSUME IInv, NEW in \in Inputs, Clock(in)
  PROVE  /\ wb' \in [busy : BOOLEAN, we : BOOLEAN, rd : Regs, seq : Nat, half : BOOLEAN]
         /\ wb'.we => wb'.busy
         /\ wb'.we => \/ /\ all_ready(in) /\ ex.d.regfile_we
                         /\ wb'.rd = ex.d.rd /\ wb'.seq = ex.seq /\ wb'.half = data_misaligned
                      \/ ~in.wb_ready /\ wb' = wb
         /\ all_ready(in) /\ ex.d.regfile_we => wb'.we /\ wb'.rd = ex.d.rd
         /\ ~in.wb_ready => wb' = wb
<1>1. ex.d \in Instructions \cup {Nothing} /\ ex.seq \in Nat
      /\ wb \in [busy : BOOLEAN, we : BOOLEAN, rd : Regs, seq : Nat, half : BOOLEAN]
      /\ (wb.we => wb.busy)
  BY DEF IInv, TypeOK, ResultsInStep
<1>2. ex.d.rd \in Regs /\ ex.d.regfile_we \in BOOLEAN /\ (ex.d.regfile_we => memory_access)
  BY <1>1, Fields DEF memory_access
<1>3. wb' = IF all_ready(in)
            THEN IF memory_access
                 THEN InWb(ex.d.regfile_we, IF ex.d.regfile_we THEN ex.d.rd ELSE wb.rd,
                           ex.seq, data_misaligned)
                 ELSE Free(wb.rd)
            ELSE IF in.wb_ready THEN Free(wb.rd) ELSE wb
  BY DEF Clock, WbEdge
<1>4. data_misaligned \in BOOLEAN
  BY <1>1 DEF data_misaligned, IInv, TypeOK
<1>5. CASE all_ready(in) /\ memory_access
  BY <1>1, <1>2, <1>3, <1>4, <1>5, Stages DEF InWb, all_ready
<1>6. CASE all_ready(in) /\ ~memory_access
  BY <1>1, <1>2, <1>3, <1>6, Stages DEF Free, all_ready
<1>7. CASE ~all_ready(in) /\ in.wb_ready
  BY <1>1, <1>2, <1>3, <1>7, Stages DEF Free
<1>8. CASE ~all_ready(in) /\ ~in.wb_ready
  BY <1>1, <1>2, <1>3, <1>8
<1> QED BY <1>5, <1>6, <1>7, <1>8

(* What does not wait for EX or WB, does not read or overtake their loads. *)
LEMMA NoStall ==
  ASSUME IInv, NEW in \in Inputs, NEW d \in Instructions, id_valid(in, d)
  PROVE  /\ ~data_misaligned /\ ex_ready(in)
         /\ ex.alu_we => in.ex_done
         /\ ex.d.regfile_we => all_ready(in)
         /\ \A r \in Regs \ {0} :
              (ex.d.regfile_we /\ ex.d.rd = r) \/ (lsu_writes(r) /\ ~in.wb_ready)
                => r \notin d.srcs /\ ~(d.regfile_alu_we /\ d.rd = r)
<1>1. /\ ~data_misaligned /\ ex_ready(in) /\ ~load_stall(in, d)
      /\ ex.d \in Instructions \cup {Nothing}
  BY DEF id_valid, IInv, TypeOK
<1>2. ex.alu_we => in.ex_done
  BY <1>1, Results, Fields DEF ex_ready, all_ready, IInv, ResultsInStep
<1>3. ex.d.regfile_we => all_ready(in)
  BY <1>1, Fields DEF ex_ready
<1>4. ASSUME NEW r \in Regs \ {0}, ex.d.regfile_we, ex.d.rd = r
      PROVE  r \notin d.srcs /\ ~(d.regfile_alu_we /\ d.rd = r)
  BY <1>1, <1>4 DEF load_stall, reg_d_ex_is_used, IInv, ResultsInStep
<1>5. ASSUME NEW r \in Regs \ {0}, lsu_writes(r), ~in.wb_ready
      PROVE  r \notin d.srcs /\ ~(d.regfile_alu_we /\ d.rd = r)
  <2>1. ~ex.d.regfile_we
    BY <1>3, <1>5 DEF all_ready
  <2>2. regfile_waddr_ex = r /\ wb.we
    BY <1>5, <2>1 DEF lsu_writes, IInv, ResultsInStep
  <2> QED BY <1>1, <1>5, <2>2 DEF load_stall, reg_d_ex_is_used
<1> QED BY <1>1, <1>2, <1>3, <1>4, <1>5

(* A register is settled after a clock edge that lets its result through.  *)
LEMMA Settles ==
  ASSUME IInv, NEW in \in Inputs, Clock(in), NEW r \in Regs \ {0},
         alu_writes(r) => in.ex_done, ~lsu_writes(r)', ~(ex.d.regfile_we /\ ex.d.rd = r)
  PROVE  mem'[r] = last[r]
<1>1. mem'[r] = IF alu_writes(r) THEN alu_wdata(in) ELSE IF lsu_writes(r) THEN wb_wdata(in) ELSE mem[r]
  BY Written
<1>2. CASE alu_writes(r)
  BY <1>1, <1>2, Results DEF alu_writes, IInv, ResultsInStep
<1>3. CASE ~alu_writes(r) /\ lsu_writes(r)
  <2>1. in.wb_ready
    BY <1>3, WbAfter DEF lsu_writes
  <2>2. last[r] = wb.seq /\ ~wb.half /\ wb.we
    BY <1>3 DEF lsu_writes, IInv, ResultsInStep
  <2> QED BY <1>1, <1>3, <2>1, <2>2, Results
<1>4. CASE ~alu_writes(r) /\ ~lsu_writes(r)
  BY <1>1, <1>4 DEF Settled, IInv, ResultsInStep
<1> QED BY <1>2, <1>3, <1>4

(* Each way in which ID/EX moves keeps the invariant.                      *)
LEMMA HandOverKeeps ==
  ASSUME IInv, NEW in \in Inputs, Clock(in), NEW d \in Instructions, HandOver(in, d)
  PROVE  IInv'
<1>1. /\ ex'.d = d /\ ex'.seq = n + 1 /\ ex'.alu_we = d.regfile_alu_we
      /\ ex'.again = FALSE /\ ex'.half = FALSE
      /\ ex' = [d |-> ex'.d, seq |-> ex'.seq, alu_we |-> ex'.alu_we, again |-> ex'.again,
                half |-> ex'.half]
      /\ n' = n + 1 /\ n \in Nat
      /\ regfile_waddr_ex' = IF d.regfile_we THEN d.rd ELSE regfile_waddr_ex
      /\ last' = [r \in Regs |-> IF r # 0 /\ r = d.rd /\ (d.regfile_we \/ d.regfile_alu_we)
                                 THEN n + 1 ELSE last[r]]
      /\ id_valid(in, d)
  BY DEF HandOver, InEx, IInv, TypeOK
<1>2. /\ d.srcs \subseteq Regs /\ d.rd \in Regs /\ d.regfile_we \in BOOLEAN
      /\ d.regfile_alu_we \in BOOLEAN /\ ~(d.regfile_we /\ d.regfile_alu_we)
      /\ d.kind = "csr" => d.regfile_alu_we
  BY Fields
<1>3. TypeOK'
  <2>1. /\ regfile_waddr_ex' \in Regs /\ n' \in Nat
        /\ last' = [r \in Regs |-> last'[r]] /\ \A r \in Regs : last'[r] \in Nat
    BY <1>1, <1>2 DEF IInv, TypeOK
  <2>2. /\ ex'.d \in Instructions \cup {Nothing} /\ ex'.seq \in Nat
    BY <1>1
  <2>4. ex'.alu_we \in BOOLEAN /\ ex'.again \in BOOLEAN /\ ex'.half \in BOOLEAN
    BY Zenon, <1>1, <1>2
  <2>3. /\ mem' = [r \in Regs |-> mem'[r]] /\ \A r \in Regs : mem'[r] \in Nat \cup {Junk}
        /\ wb' \in [busy : BOOLEAN, we : BOOLEAN, rd : Regs, seq : Nat, half : BOOLEAN]
    BY Written, WbAfter
  <2> QED BY <1>1, <2>1, <2>2, <2>3, <2>4 DEF TypeOK
<1>4. last'[0] = 0 /\ mem'[0] = 0
  BY <1>1, Written, RegsAssumption DEF IInv, ResultsInStep
<1>5. ASSUME NEW r \in Regs \ {0}
      PROVE  /\ alu_writes(r)' => last'[r] = ex'.seq
             /\ ex'.d.regfile_we /\ ex'.d.rd = r => last'[r] = ex'.seq
  BY <1>1, <1>5 DEF alu_writes
<1>6. ASSUME NEW r \in Regs \ {0}, lsu_writes(r)', ~(d.regfile_we /\ d.rd = r)
      PROVE  last'[r] = wb'.seq /\ ~wb'.half /\ ~(d.regfile_alu_we /\ d.rd = r)
  <2>1. ~(d.regfile_alu_we /\ d.rd = r) /\ last[r] = wb'.seq /\ ~wb'.half
    <3>1. CASE all_ready(in) /\ ex.d.regfile_we /\ wb'.rd = ex.d.rd /\ wb'.seq = ex.seq
               /\ wb'.half = data_misaligned
      BY <1>1, <1>6, <3>1, NoStall DEF lsu_writes, IInv, ResultsInStep
    <3>2. CASE ~in.wb_ready /\ wb' = wb
      <4>1. lsu_writes(r)
        BY <1>6, <3>2 DEF lsu_writes
      <4>2. ~ex.d.regfile_we
        BY <1>1, <3>2, NoStall DEF all_ready
      <4> QED BY <1>1, <3>2, <4>1, <4>2, NoStall DEF IInv, ResultsInStep
    <3> QED BY <1>6, <3>1, <3>2, WbAfter DEF lsu_writes
  <2>2. last'[r] = last[r]
    BY <1>1, <1>6, <2>1
  <2> QED BY <2>1, <2>2
<1>7. ASSUME NEW r \in Regs \ {0}, Settled(r)' PROVE mem'[r] = last'[r]
  <2>1. ~lsu_writes(r)' /\ last'[r] = last[r]
    BY <1>1, <1>7 DEF Settled, alu_writes
  <2>2. ~(ex.d.regfile_we /\ ex.d.rd = r)
    BY <1>1, <2>1, NoStall, WbAfter DEF lsu_writes
  <2>3. alu_writes(r) => in.ex_done
    BY <1>1, NoStall DEF alu_writes
  <2> QED BY <2>1, <2>2, <2>3, Settles
<1>8. /\ d.regfile_we => regfile_waddr_ex' = d.rd
      /\ wb'.we => wb'.busy
      /\ wb'.we /\ ~d.regfile_we => regfile_waddr_ex' = wb'.rd
  <2>1. wb'.we /\ ~d.regfile_we => regfile_waddr_ex = wb'.rd
    BY <1>1, WbAfter, NoStall DEF IInv, ResultsInStep, all_ready
  <2> QED BY <1>1, <2>1, WbAfter
<1>9. ResultsInStep'
  BY <1>1, <1>2, <1>4, <1>5, <1>6, <1>7, <1>8 DEF ResultsInStep, alu_writes
<1> QED BY <1>3, <1>9 DEF IInv

(* A bubble in EX leaves the results of its predecessors in step.          *)
LEMMA BubbleKeeps ==
  ASSUME IInv, NEW in \in Inputs, Clock(in), InsertBubble(in)
  PROVE  IInv'
<1>1. /\ ex'.d = Nothing /\ ex'.seq = 0 /\ ex'.alu_we = FALSE
      /\ ex'.again = FALSE /\ ex'.half = FALSE
      /\ ex' = [d |-> ex'.d, seq |-> ex'.seq, alu_we |-> ex'.alu_we, again |-> ex'.again,
                half |-> ex'.half]
      /\ UNCHANGED <<regfile_waddr_ex, last, n>> /\ ~data_misaligned /\ ex_ready(in)
      /\ ~Nothing.regfile_we /\ ~Nothing.regfile_alu_we /\ Nothing.kind = "none"
  BY Entered DEF InsertBubble
<1>2. /\ ex.d.regfile_we => all_ready(in)
      /\ ex.alu_we => in.ex_done
  BY <1>1, Fields, Results DEF ex_ready, all_ready, IInv, TypeOK, ResultsInStep
<1>3. TypeOK'
  <2>1. /\ mem' = [r \in Regs |-> mem'[r]] /\ \A r \in Regs : mem'[r] \in Nat \cup {Junk}
        /\ wb' \in [busy : BOOLEAN, we : BOOLEAN, rd : Regs, seq : Nat, half : BOOLEAN]
    BY Written, WbAfter
  <2>2. ex'.alu_we \in BOOLEAN /\ ex'.again \in BOOLEAN /\ ex'.half \in BOOLEAN
    BY Zenon, <1>1
  <2> QED BY <1>1, <2>1, <2>2 DEF TypeOK, IInv
<1>4. ASSUME NEW r \in Regs \ {0}, lsu_writes(r)'
      PROVE  last'[r] = wb'.seq /\ ~wb'.half
  <2>1. CASE ex.d.regfile_we /\ wb'.rd = ex.d.rd /\ wb'.seq = ex.seq /\ wb'.half = data_misaligned
    BY <1>1, <1>4, <2>1 DEF lsu_writes, IInv, ResultsInStep
  <2>2. CASE ~in.wb_ready /\ wb' = wb
    <3>1. lsu_writes(r) /\ ~ex.d.regfile_we
      BY <1>2, <1>4, <2>2 DEF lsu_writes, all_ready
    <3> QED BY <1>1, <2>2, <3>1 DEF IInv, ResultsInStep
  <2> QED BY <1>4, <2>1, <2>2, WbAfter DEF lsu_writes
<1>5. ASSUME NEW r \in Regs \ {0}, Settled(r)' PROVE mem'[r] = last'[r]
  <2>1. ~lsu_writes(r)' /\ last'[r] = last[r]
    BY <1>1, <1>5 DEF Settled
  <2>2. ~(ex.d.regfile_we /\ ex.d.rd = r)
    BY <1>2, <2>1, WbAfter DEF lsu_writes
  <2> QED BY <1>2, <2>1, <2>2, Settles DEF alu_writes
<1>6. wb'.we => wb'.busy /\ regfile_waddr_ex' = wb'.rd
  BY <1>1, <1>2, WbAfter DEF IInv, ResultsInStep, all_ready
<1>7. mem'[0] = 0 /\ last'[0] = 0
  BY <1>1, Written DEF IInv, ResultsInStep
<1>8. ResultsInStep'
  BY <1>1, <1>4, <1>5, <1>6, <1>7 DEF ResultsInStep, alu_writes
<1> QED BY <1>3, <1>8 DEF IInv

(* EX keeps its instruction: it waits, or a split access goes on.          *)
LEMMA WaitKeeps ==
  ASSUME IInv, NEW in \in Inputs, Clock(in), SecondHalf(in) \/ Stall(in)
  PROVE  IInv'
<1>1. /\ ex'.d = ex.d /\ ex'.seq = ex.seq
      /\ ex'.alu_we \in BOOLEAN /\ ex'.again \in BOOLEAN /\ ex'.half \in BOOLEAN
      /\ ex' = [d |-> ex'.d, seq |-> ex'.seq, alu_we |-> ex'.alu_we, again |-> ex'.again,
                half |-> ex'.half]
      /\ UNCHANGED <<regfile_waddr_ex, last, n>>
  BY DEF SecondHalf, Stall, IInv, TypeOK
<1>2. /\ ex'.alu_we => ex.alu_we
      /\ ex.alu_we /\ ~ex'.alu_we => ex.d.kind = "csr"
      /\ ex'.alu_we => ~(ex.d.kind = "csr" /\ ex'.again)
  <2>1. CASE SecondHalf(in)
    BY <2>1 DEF SecondHalf, IInv, TypeOK, ResultsInStep
  <2>2. CASE Stall(in)
    BY <2>2 DEF Stall, IInv, TypeOK, ResultsInStep
  <2> QED BY <2>1, <2>2
<1>3. all_ready(in) => data_misaligned
  BY DEF SecondHalf, Stall, ex_ready
<1>4. TypeOK'
  BY <1>1, Written, WbAfter DEF TypeOK, IInv
<1>5. ex.d.regfile_we <=> ex.d.kind \in {"load", "split"}
  BY Fields DEF IInv, TypeOK
<1>6. ASSUME NEW r \in Regs \ {0}, lsu_writes(r)', ~(ex.d.regfile_we /\ ex.d.rd = r)
      PROVE  last'[r] = wb'.seq /\ ~wb'.half /\ ~alu_writes(r)' /\ ~(ex.d.kind = "csr" /\ ex.d.rd = r)
  <2>1. wb' = wb
    BY <1>6, WbAfter DEF lsu_writes
  <2>2. lsu_writes(r)
    BY <1>6, <2>1 DEF lsu_writes
  <2> QED BY <1>1, <1>2, <1>6, <2>1, <2>2 DEF IInv, ResultsInStep, alu_writes
<1>7. ASSUME NEW r \in Regs \ {0}, Settled(r)' PROVE mem'[r] = last'[r]
  <2>1. ~lsu_writes(r)' /\ last'[r] = last[r] /\ ~(ex.d.regfile_we /\ ex.d.rd = r)
    BY <1>1, <1>7 DEF Settled
  <2>2. alu_writes(r) => in.ex_done
    BY <1>1, <1>2, <1>7, Results DEF Settled, alu_writes
  <2> QED BY <2>1, <2>2, Settles
<1>8. /\ wb'.we => wb'.busy
      /\ wb'.we /\ ~ex.d.regfile_we => regfile_waddr_ex' = wb'.rd
  BY <1>1, WbAfter DEF IInv, ResultsInStep
<1>9. mem'[0] = 0 /\ last'[0] = 0
  BY <1>1, Written DEF IInv, ResultsInStep
<1>10. ASSUME NEW r \in Regs \ {0}
       PROVE  /\ alu_writes(r)' => last'[r] = ex'.seq
              /\ ex'.d.regfile_we /\ ex'.d.rd = r => last'[r] = ex'.seq
  BY <1>1, <1>2 DEF alu_writes, IInv, ResultsInStep
<1>11. /\ ex'.alu_we => ex'.d.regfile_alu_we /\ ~(ex'.d.kind = "csr" /\ ex'.again)
       /\ ex'.d.regfile_we => regfile_waddr_ex' = ex'.d.rd
  BY <1>1, <1>2 DEF IInv, ResultsInStep
<1>12. ResultsInStep'
  BY <1>1, <1>6, <1>7, <1>8, <1>9, <1>10, <1>11 DEF ResultsInStep
<1> QED BY <1>4, <1>12 DEF IInv

(* The results of EX and WB and the register file are in step with the     *)
(* program, in every run.                                                  *)
THEOREM Invariance == Spec => []IInv
<1>1. Init => IInv
  BY InitInvariant
<1>2. IInv /\ [Next]_vars => IInv'
  <2>1. ASSUME IInv, NEW in \in Inputs, Clock(in) PROVE IInv'
    BY <2>1, HandOverKeeps, BubbleKeeps, WaitKeeps DEF Clock
  <2>2. ASSUME IInv, UNCHANGED vars PROVE IInv'
    BY <2>2 DEF IInv, TypeOK, ResultsInStep, Settled, alu_writes, lsu_writes, vars
  <2> QED BY <2>1, <2>2 DEF Next
<1> QED BY <1>1, <1>2, PTL DEF Spec

(* Every instruction that leaves ID has the results of the latest earlier  *)
(* writers, in every run.                                                  *)
THEOREM Currency == Spec => []OperandsCurrent
<1>1. IInv => OperandsCurrent
  <2> SUFFICES ASSUME IInv, NEW in \in Inputs, NEW d \in Instructions, id_valid(in, d),
                      NEW r \in d.srcs
               PROVE  Operand(in, r) = last[r]
    BY DEF OperandsCurrent
  <2>1. r \in Regs
    BY Fields
  <2>2. CASE r = 0
    BY <2>2 DEF Operand, IInv, ResultsInStep
  <2>3. CASE r # 0 /\ alu_writes(r)
    BY <2>1, <2>3, NoStall, Results DEF Operand, alu_writes, IInv, ResultsInStep
  <2>4. CASE r # 0 /\ ~alu_writes(r) /\ lsu_writes(r)
    <3>1. in.wb_ready /\ ~(ex.d.regfile_we /\ ex.d.rd = r)
      BY <2>1, <2>4, NoStall DEF Inputs
    <3>2. last[r] = wb.seq /\ ~wb.half /\ wb.we
      BY <2>1, <2>4, <3>1 DEF IInv, ResultsInStep, lsu_writes
    <3> QED BY <2>4, <3>1, <3>2, Results DEF Operand
  <2>5. CASE r # 0 /\ ~alu_writes(r) /\ ~lsu_writes(r)
    <3>1. Settled(r)
      BY <2>1, <2>5, NoStall DEF Settled
    <3> QED BY <2>1, <2>5, <3>1 DEF Operand, IInv, ResultsInStep
  <2> QED BY <2>2, <2>3, <2>4, <2>5
<1> QED BY <1>1, Invariance, PTL

(* Every jump that does not wait reads its target from an up-to-date       *)
(* register file, in every run.                                            *)
THEOREM Targets == Spec => []TargetsCurrent
<1>1. IInv => TargetsCurrent
  <2> SUFFICES ASSUME IInv, NEW d \in Instructions, d.kind = "jalr", ~jr_stall(d), NEW r \in d.srcs
               PROVE  mem[r] = last[r]
    BY DEF TargetsCurrent
  <2>1. r \in Regs
    BY Fields
  <2>2. CASE r = 0
    BY <2>2 DEF IInv, ResultsInStep
  <2>3. CASE r # 0
    <3>1. Settled(r)
      BY <2>1, <2>3 DEF jr_stall, Settled, IInv, ResultsInStep
    <3> QED BY <2>1, <2>3, <3>1 DEF IInv, ResultsInStep
  <2> QED BY <2>2, <2>3
<1> QED BY <1>1, Invariance, PTL
================================================================================
