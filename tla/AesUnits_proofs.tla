--------------------------- MODULE AesUnits_proofs ---------------------------
(***************************************************************************)
(* Proofs about the modules on AesUnits.  ExecuteStage, for every          *)
(* datapath, every stream of AES instructions and every behaviour of the   *)
(* rest of the core: the inductive invariant IInv, the refinement of       *)
(* AesInOrder, and that everything finishes as long as its cycles stay     *)
(* possible.  AesBlock, on top: a block that the pipelined stage performs  *)
(* is encrypted, whatever went before it.  AesEncrypt, for any number of   *)
(* blocks, any keys and texts and any 128-bit arithmetic: the program that *)
(* re-seeds the key unit for each block and expands on the fly executes    *)
(* such blocks, and computes the cipher made of the same steps, in place   *)
(* or not, across calls and resets.  AesAgreement, for any keys and texts: *)
(* with the data path of the units, that cipher is the one of the          *)
(* byte-array functions and of the byte instructions of main.c.            *)
(***************************************************************************)
EXTENDS AesBlock, AesAgreement, SequenceTheorems, TLAPS

(* ---- the execute stage ------------------------------------------------ *)
(* IInv with the history as a sequence: what Len and Append need.          *)
AnyOp  == UNION {NextOps(n) : n \in Nat}
HInv   == IInv /\ issued \in Seq(AnyOp)

(* What a bundle of decode looks like, whatever the instruction.           *)
LEMMA BundleShape ==
  ASSUME NEW n \in Nat, NEW b \in Bundles(n)
  PROVE  /\ b.alu_en \in BOOLEAN /\ b.branch \in BOOLEAN /\ b.aes \in BOOLEAN
         /\ b.mult_en \in BOOLEAN /\ b.mulh \in BOOLEAN
         /\ b.data_req \in BOOLEAN /\ b.split \in BOOLEAN
         /\ b.aes => /\ b.operator \in NextOps(n) /\ b.operator.op \in AesOperators
                     /\ b.alu_en /\ ~b.mult_en /\ ~b.data_req /\ ~b.branch
         /\ ~b.aes => b.operator.op \in {"add", "div"}
         /\ b.mult_en => ~b.alu_en /\ ~b.data_req
         /\ b.branch => b.alu_en /\ ~b.mult_en /\ ~b.data_req /\ b.operator.op = "add"
         /\ b.operator.op = "div" => ~b.mult_en /\ ~b.data_req /\ ~b.branch
         /\ b.data_req => b.alu_en
<1>1. PICK kind, i : /\ b = Bundle(kind, i)
                     /\ \/ kind \in {"none", "alu", "branch", "mem", "memsplit", "mul", "mulh"} /\ i.op = "add"
                        \/ kind = "div" /\ i.op = "div"
                        \/ kind = "aes" /\ i \in NextOps(n) /\ i.op \in AesOperators
  BY DEF Bundles, Plain
<1>2. /\ b.alu_en = (kind \in {"aes", "alu", "branch", "mem", "memsplit", "div"})
      /\ b.operator = i
      /\ b.mult_en = (kind \in {"mul", "mulh"}) /\ b.mulh = (kind = "mulh")
      /\ b.data_req = (kind \in {"mem", "memsplit"}) /\ b.split = (kind = "memsplit")
      /\ b.branch = (kind = "branch") /\ b.aes = (kind = "aes")
  BY <1>1, Zenon DEF Bundle
<1>3. /\ b.alu_en \in BOOLEAN /\ b.branch \in BOOLEAN /\ b.aes \in BOOLEAN
      /\ b.mult_en \in BOOLEAN /\ b.mulh \in BOOLEAN
      /\ b.data_req \in BOOLEAN /\ b.split \in BOOLEAN
  BY <1>2
<1>4. CASE kind = "aes" /\ i \in NextOps(n) /\ i.op \in AesOperators
  BY <1>2, <1>3, <1>4 DEF AesOperators
<1>5. CASE kind = "div" /\ i.op = "div"
  BY <1>2, <1>3, <1>5
<1>6. CASE kind \in {"none", "alu", "branch", "mem", "memsplit", "mul", "mulh"} /\ i.op = "add"
  BY <1>2, <1>3, <1>6
<1> QED BY <1>1, <1>4, <1>5, <1>6

(* The classes of operators are disjoint.                                  *)
LEMMA OperatorClasses ==
  /\ "add" \notin AesOperators /\ "div" \notin AesOperators /\ "sltu" \notin AesOperators
BY DEF AesOperators

(* Committing keeps the shape of the registers.                            *)
LEMMA CommitShape ==
  ASSUME NEW i, Commit(i), rcnt \in 0..15, Quad(krk), Quad(st)
  PROVE  rcnt' \in 0..15 /\ Quad(krk)' /\ Quad(st)'
<1>1. CASE KeyLoad(i)
  BY <1>1 DEF KeyLoad, Quad
<1>2. CASE KeyExpand(i)
  BY <1>2 DEF KeyExpand, ExpandKey, Quad, Idx
<1>3. CASE StateLoad(i)
  BY <1>3 DEF StateLoad, Quad, Idx
<1>4. CASE Round(i)
  BY <1>4 DEF Round, RoundStep, Quad, Idx
<1>5. CASE NoUnitChange(i)
  BY <1>5 DEF NoUnitChange, unitVars, Quad
<1> QED BY <1>1, <1>2, <1>3, <1>4, <1>5 DEF Commit

(* The units move on exactly when an AES instruction in EX commits.        *)
LEMMA AesStepEffect ==
  ASSUME HInv, NEW in \in Inputs, AesStep(in)
  PROVE  /\ done' = IF AesInEx /\ ex_ready(in) THEN done + 1 ELSE done
         /\ done' \in Nat
         /\ rcnt' \in 0..15 /\ Quad(krk)' /\ Quad(st)'
<1>1. CASE commit(in) /\ alu_operator_ex.op \in AesOperators
  <2>1. Commit(alu_operator_ex) /\ done' = done + 1
    BY <1>1 DEF AesStep
  <2> QED BY <1>1, <2>1, CommitShape DEF HInv, IInv, TypeOK, AesInEx, commit
<1>2. CASE ~(commit(in) /\ alu_operator_ex.op \in AesOperators)
  BY <1>2 DEF AesStep, HInv, IInv, TypeOK, AesInEx, commit, unitVars, Quad
<1> QED BY <1>1, <1>2

(* When EX is ready, the multiplier and the divider are at rest afterwards.*)
LEMMA ReadyMeansRest ==
  ASSUME HInv, NEW in \in Inputs, ex_ready(in), MulhStep(in), DivStep(in)
  PROVE  mulh_CS' = "IDLE" /\ div_CS' = "IDLE"
<1>1. CASE branch_in_ex
  <2>1. mulh_CS = "IDLE" /\ ~start_mulh
    BY <1>1 DEF HInv, IInv, TypeOK, OneInstructionInEx, BusyForInstructionInEx, start_mulh
  <2>2. div_CS = "IDLE" /\ ~div_valid
    BY <1>1 DEF HInv, IInv, TypeOK, OneInstructionInEx, BusyForInstructionInEx
  <2> QED BY <2>1, <2>2 DEF MulhStep, DivStep
<1>2. CASE alu_ready /\ mult_ready
  BY <1>2 DEF alu_ready, mult_ready, MulhStep, DivStep
<1> QED BY <1>1, <1>2 DEF ex_ready

-----------------------------------------------------------------------------
(* Initially EX is empty and nothing is handed over.                       *)
LEMMA InitHInv == Init => HInv
BY DEF Init, HInv, IInv, TypeOK, UnitsInit, Quad, Idx, OneInstructionInEx, BusyForInstructionInEx,
       ExactlyOnce, AesInEx, AesOperators, Nothing, Plain, div_valid

(* Every clock edge preserves the invariant.                               *)
LEMMA NextHInv == HInv /\ [Next]_vars => HInv'
<1> SUFFICES ASSUME HInv, [Next]_vars PROVE HInv'
  OBVIOUS
<1> USE DEF HInv, IInv, TypeOK
<1>1. ASSUME NEW in \in Inputs, Clock(in) PROVE HInv'
  <2>0. AesStep(in) /\ MulhStep(in) /\ DivStep(in)
    BY <1>1 DEF Clock
  <2>1. /\ done' = IF AesInEx /\ ex_ready(in) THEN done + 1 ELSE done
        /\ done' \in Nat
        /\ rcnt' \in 0..15 /\ Quad(krk)' /\ Quad(st)'
    BY <1>1, <2>0, AesStepEffect
  <2>2. /\ mulh_CS' \in {"IDLE", "STEP0", "STEP1", "STEP2", "FINISH"}
        /\ div_CS' \in {"IDLE", "DIVIDE", "FINISH"}
    BY <2>0 DEF MulhStep, DivStep
  <2>3. CASE SecondHalf(in)
    <3>1. ~AesInEx /\ ~mult_en_ex /\ ~div_valid
      BY <2>3 DEF SecondHalf, data_misaligned, OneInstructionInEx
    <3>2. mulh_CS' = "IDLE" /\ div_CS' = "IDLE"
      BY <2>0, <3>1 DEF BusyForInstructionInEx, MulhStep, DivStep, start_mulh, div_valid
    <3> QED BY <2>1, <2>3, <3>1, <3>2 DEF SecondHalf, OneInstructionInEx, BusyForInstructionInEx,
                                         ExactlyOnce, AesInEx, div_valid
  <2>4. CASE MultHold
    <3>1. mult_en_ex /\ mulh_ex /\ ~AesInEx /\ ~div_valid
      BY <2>4 DEF MultHold, mult_multicycle, BusyForInstructionInEx, OneInstructionInEx, div_valid
    <3>2. div_CS' = "IDLE"
      BY <2>0, <3>1 DEF BusyForInstructionInEx, DivStep, div_valid
    <3> QED BY <2>1, <2>2, <2>4, <3>1, <3>2 DEF MultHold, idexVars, OneInstructionInEx, BusyForInstructionInEx,
                                         ExactlyOnce, AesInEx, div_valid
  <2>5. CASE \E b \in Bundles(Len(issued)) : Advance(in, b)
    <3> PICK b \in Bundles(Len(issued)) : Advance(in, b)
      BY <2>5
    <3>0. Len(issued) \in Nat
      OBVIOUS
    <3>1. ex_ready(in)
      BY DEF Advance, id_valid
    <3>2. mulh_CS' = "IDLE" /\ div_CS' = "IDLE"
      BY <1>1, <2>0, <3>1, ReadyMeansRest
    <3>3. done' = Len(issued)
      BY <2>1, <3>1 DEF ExactlyOnce
    <3>4. /\ alu_en_ex' \in BOOLEAN /\ branch_in_ex' \in BOOLEAN
          /\ mult_en_ex' \in BOOLEAN /\ mulh_ex' \in BOOLEAN
          /\ data_req_ex' \in BOOLEAN /\ split_ex' \in BOOLEAN /\ data_misaligned_ex' \in BOOLEAN
      BY <3>0, BundleShape DEF Advance
    <3>5. OneInstructionInEx'
      BY <3>0, BundleShape, OperatorClasses DEF Advance, OneInstructionInEx, AesInEx, div_valid
    <3>6. BusyForInstructionInEx'
      BY <3>2 DEF BusyForInstructionInEx
    <3>7. CASE b.aes
      <4>1. b.operator \in AnyOp /\ b.operator.op \in AesOperators /\ b.alu_en
        BY <3>0, <3>7, BundleShape DEF AnyOp
      <4>2. issued' = Append(issued, b.operator)
        BY <3>7 DEF Advance
      <4>3. issued' \in Seq(AnyOp) /\ Len(issued') = Len(issued) + 1 /\ issued'[Len(issued) + 1] = b.operator
        BY <4>1, <4>2
      <4>4. AesInEx' /\ alu_operator_ex' = b.operator
        BY <4>1 DEF Advance, AesInEx
      <4>5. ExactlyOnce'
        BY <3>0, <3>3, <4>3, <4>4 DEF ExactlyOnce
      <4> QED BY <2>1, <2>2, <3>4, <3>5, <3>6, <4>3, <4>5
    <3>8. CASE ~b.aes
      <4>1. issued' = issued
        BY <3>8 DEF Advance
      <4>2. ~AesInEx'
        BY <3>0, <3>8, BundleShape, OperatorClasses DEF Advance, AesInEx
      <4>3. ExactlyOnce'
        BY <3>3, <4>1, <4>2 DEF ExactlyOnce
      <4> QED BY <2>1, <2>2, <3>4, <3>5, <3>6, <4>1, <4>3
    <3> QED BY <3>7, <3>8
  <2>6. CASE InsertBubble(in)
    <3>1. mulh_CS' = "IDLE" /\ div_CS' = "IDLE"
      BY <1>1, <2>0, <2>6, ReadyMeansRest DEF InsertBubble
    <3>2. alu_operator_ex'.op = "sltu"
      BY <2>6 DEF InsertBubble, Nothing, Plain
    <3>3. ~AesInEx' /\ done' = Len(issued)
      BY <2>1, <2>6, <3>2, OperatorClasses DEF InsertBubble, AesInEx, ExactlyOnce
    <3> QED BY <2>1, <2>6, <3>1, <3>2, <3>3, OperatorClasses
            DEF InsertBubble, OneInstructionInEx, BusyForInstructionInEx, ExactlyOnce, div_valid
  <2>7. CASE Stall(in)
    <3>1. ~ex_ready(in) /\ UNCHANGED <<idexVars, issued>>
      BY <2>7 DEF Stall
    <3>2. BusyForInstructionInEx'
      BY <2>0, <3>1 DEF BusyForInstructionInEx, MulhStep, DivStep, start_mulh, div_valid, idexVars
    <3> QED BY <2>1, <2>2, <3>1, <3>2 DEF idexVars, OneInstructionInEx, ExactlyOnce, AesInEx, div_valid
  <2> QED BY <1>1, <2>3, <2>4, <2>5, <2>6, <2>7 DEF Clock
<1>2. CASE UNCHANGED vars
  BY <1>2 DEF vars, unitVars, idexVars, Quad, OneInstructionInEx, BusyForInstructionInEx, ExactlyOnce, AesInEx, div_valid
<1> QED BY <1>1, <1>2 DEF Next

(* The registers keep their shape, EX holds one instruction and only works *)
(* for it, and no AES instruction is lost, repeated or revived.            *)
THEOREM Invariance == Spec => []IInv
<1>1. HInv => IInv
  BY DEF HInv
<1> QED BY <1>1, InitHInv, NextHInv, PTL DEF Spec

(* No AES instruction is lost, repeated or revived: id_stage.sv:1485-1620  *)
(* with the commit gate of alu.sv:115.                                     *)
THEOREM ExactlyOnceHolds == Spec => []ExactlyOnce
<1>1. IInv => ExactlyOnce
  BY DEF IInv
<1> QED BY <1>1, Invariance, PTL

(* The state machines of multiplier and divider run only for the           *)
(* instruction that is in EX.                                              *)
THEOREM BusyForInstructionInExHolds == Spec => []BusyForInstructionInEx
<1>1. IInv => BusyForInstructionInEx
  BY DEF IInv
<1> QED BY <1>1, Invariance, PTL

-----------------------------------------------------------------------------
(* ---- nothing waits for itself ------------------------------------------ *)
(* A clock edge with everybody else ready: an AES instruction in EX        *)
(* commits, the multiplier leaves FINISH, the divider moves on.            *)
LEMMA ReadyEdge ==
  ASSUME HInv, ReadyClock
  PROVE  /\ AesInEx => done' = done + 1
         /\ mulh_CS = "STEP0" => mulh_CS' = "STEP1"
         /\ mulh_CS = "STEP1" => mulh_CS' = "STEP2"
         /\ mulh_CS = "STEP2" => mulh_CS' = "FINISH"
         /\ mulh_CS = "FINISH" => mulh_CS' = "IDLE"
         /\ div_CS = "DIVIDE" => div_CS' = "FINISH"
         /\ div_CS = "FINISH" => div_CS' = "IDLE"
<1>1. PICK in \in Inputs : /\ in.lsu_ready_ex /\ in.wb_ready /\ Clock(in)
                           /\ div_CS = "DIVIDE" => in.div_last
  BY DEF ReadyClock
<1>2. AesStep(in) /\ MulhStep(in) /\ DivStep(in)
  BY <1>1 DEF Clock
<1>3. alu_ready /\ mult_ready => ex_ready(in)
  BY <1>1 DEF ex_ready
<1>4. BusyForInstructionInEx /\ OneInstructionInEx
  BY DEF HInv, IInv
<1>5. AesInEx => alu_ready /\ mult_ready
  BY <1>4, OperatorClasses DEF BusyForInstructionInEx, OneInstructionInEx, AesInEx, alu_ready, mult_ready,
                               div_valid, start_mulh
<1>6. mulh_CS = "FINISH" \/ div_CS = "FINISH" => alu_ready /\ mult_ready
  BY <1>4 DEF BusyForInstructionInEx, OneInstructionInEx, alu_ready, mult_ready, div_valid, start_mulh
<1>7. AesInEx => done' = done + 1
  BY <1>2, <1>3, <1>5 DEF AesStep, commit, AesInEx
<1> QED BY <1>1, <1>2, <1>3, <1>6, <1>7 DEF MulhStep, DivStep

(* Until then each of them stays where it is or moves forward.             *)
LEMMA OnlyForward ==
  ASSUME [Next]_vars
  PROVE  /\ mulh_CS = "STEP0" => mulh_CS' \in {"STEP0", "STEP1"}
         /\ mulh_CS = "STEP1" => mulh_CS' \in {"STEP1", "STEP2"}
         /\ mulh_CS = "STEP2" => mulh_CS' \in {"STEP2", "FINISH"}
         /\ mulh_CS = "FINISH" => mulh_CS' \in {"FINISH", "IDLE"}
         /\ div_CS = "DIVIDE" => div_CS' \in {"DIVIDE", "FINISH"}
         /\ div_CS = "FINISH" => div_CS' \in {"FINISH", "IDLE"}
<1>1. CASE UNCHANGED vars
  BY <1>1 DEF vars
<1>2. ASSUME NEW in \in Inputs, Clock(in) PROVE MulhStep(in) /\ DivStep(in)
  BY <1>2 DEF Clock
<1> QED BY <1>1, <1>2 DEF Next, MulhStep, DivStep

(* No wait in EX lasts, at any latency of the units it waits for: since a  *)
(* clock edge with everybody ready is possible while one of them is at     *)
(* work (CanFinish), AES instructions commit, and the multiplier and the   *)
(* divider, whose FINISH waits for an ex_ready that depends on their own   *)
(* ready (ex_stage.sv:408-413), come to rest.                              *)
THEOREM EverythingFinishesHolds == FairSpec /\ []CanFinish => EverythingFinishes
<1>1. FairSpec => []HInv /\ [][Next]_vars
  BY InitHInv, NextHInv, PTL DEF FairSpec, Spec
<1>2. FairSpec /\ []CanFinish => (<>[]AesInEx => []<><<done' = done + 1>>_done)
  <2>1. HInv /\ AesInEx /\ <<ReadyClock>>_vars => <<done' = done + 1>>_done
    BY ReadyEdge DEF HInv, IInv, TypeOK
  <2> QED BY <1>1, <2>1, PTL DEF FairSpec, CanFinish
<1>3. FairSpec /\ []CanFinish => ((mulh_CS # "IDLE") ~> (mulh_CS = "IDLE"))
  <2>1. HInv => (mulh_CS # "IDLE" <=> \/ mulh_CS = "STEP0" \/ mulh_CS = "STEP1" \/ mulh_CS = "STEP2"
                                      \/ mulh_CS = "FINISH")
    BY DEF HInv, IInv, TypeOK
  <2>2. /\ HInv /\ mulh_CS = "STEP0" /\ <<ReadyClock>>_vars => (mulh_CS = "STEP1")'
        /\ HInv /\ mulh_CS = "STEP1" /\ <<ReadyClock>>_vars => (mulh_CS = "STEP2")'
        /\ HInv /\ mulh_CS = "STEP2" /\ <<ReadyClock>>_vars => (mulh_CS = "FINISH")'
        /\ HInv /\ mulh_CS = "FINISH" /\ <<ReadyClock>>_vars => (mulh_CS = "IDLE")'
    BY ReadyEdge
  <2>3. /\ mulh_CS = "STEP0" /\ [Next]_vars => (mulh_CS = "STEP0")' \/ (mulh_CS = "STEP1")'
        /\ mulh_CS = "STEP1" /\ [Next]_vars => (mulh_CS = "STEP1")' \/ (mulh_CS = "STEP2")'
        /\ mulh_CS = "STEP2" /\ [Next]_vars => (mulh_CS = "STEP2")' \/ (mulh_CS = "FINISH")'
        /\ mulh_CS = "FINISH" /\ [Next]_vars => (mulh_CS = "FINISH")' \/ (mulh_CS = "IDLE")'
    BY OnlyForward
  <2> QED BY <1>1, <2>1, <2>2, <2>3, PTL DEF FairSpec, CanFinish
<1>4. FairSpec /\ []CanFinish => ((div_CS # "IDLE") ~> (div_CS = "IDLE"))
  <2>1. HInv => (div_CS # "IDLE" <=> div_CS = "DIVIDE" \/ div_CS = "FINISH")
    BY DEF HInv, IInv, TypeOK
  <2>2. /\ HInv /\ div_CS = "DIVIDE" /\ <<ReadyClock>>_vars => (div_CS = "FINISH")'
        /\ HInv /\ div_CS = "FINISH" /\ <<ReadyClock>>_vars => (div_CS = "IDLE")'
    BY ReadyEdge
  <2>3. /\ div_CS = "DIVIDE" /\ [Next]_vars => (div_CS = "DIVIDE")' \/ (div_CS = "FINISH")'
        /\ div_CS = "FINISH" /\ [Next]_vars => (div_CS = "FINISH")' \/ (div_CS = "IDLE")'
    BY OnlyForward
  <2> QED BY <1>1, <2>1, <2>2, <2>3, PTL DEF FairSpec, CanFinish
<1> QED BY <1>2, <1>3, <1>4, PTL DEF EverythingFinishes

-----------------------------------------------------------------------------
(* Committing is the same operation in the abstract specification.         *)
LEMMA SameUnits ==
  /\ UnitsInit <=> InOrder!UnitsInit
  /\ \A i : Commit(i) => InOrder!Commit(i)
<1>1. \A i : KeyExpand(i) => InOrder!KeyExpand(i)
  BY DEF KeyExpand, InOrder!KeyExpand, ExpandKey, InOrder!ExpandKey, Idx, InOrder!Idx
<1>2. \A i : Round(i) => InOrder!Round(i)
  BY DEF Round, InOrder!Round, RoundStep, InOrder!RoundStep, Idx, InOrder!Idx
<1>3. \A i : (KeyLoad(i) \/ StateLoad(i) \/ NoUnitChange(i))
             => (InOrder!KeyLoad(i) \/ InOrder!StateLoad(i) \/ InOrder!NoUnitChange(i))
  BY DEF KeyLoad, InOrder!KeyLoad, StateLoad, InOrder!StateLoad, NoUnitChange, InOrder!NoUnitChange,
         unitVars, InOrder!unitVars
<1> QED BY <1>1, <1>2, <1>3 DEF Commit, InOrder!Commit, UnitsInit, InOrder!UnitsInit, Idx, InOrder!Idx

(* A clock edge is an abstract step or leaves the abstract state alone.    *)
LEMMA RefinementStep ==
  HInv /\ [Next]_vars => [InOrder!Next]_(InOrder!vars)
<1> SUFFICES ASSUME HInv, [Next]_vars PROVE [InOrder!Next]_(InOrder!vars)
  OBVIOUS
<1>1. CASE UNCHANGED vars
  BY <1>1 DEF vars, unitVars, InOrder!vars
<1>2. ASSUME NEW in \in Inputs, Clock(in) PROVE [InOrder!Next]_(InOrder!vars)
  <2>0. done \in Nat /\ Len(issued) \in Nat
    BY DEF HInv, IInv, TypeOK
  <2>1. \/ UNCHANGED issued
        \/ ex_ready(in) /\ \E i \in NextOps(Len(issued)) : issued' = Append(issued, i)
    <3>1. CASE \E b \in Bundles(Len(issued)) : Advance(in, b)
      <4> PICK b \in Bundles(Len(issued)) : Advance(in, b)
        BY <3>1
      <4> QED BY <2>0, BundleShape DEF Advance, id_valid
    <3>2. CASE SecondHalf(in) \/ MultHold \/ InsertBubble(in) \/ Stall(in)
      BY <3>2 DEF SecondHalf, MultHold, InsertBubble, Stall
    <3> QED BY <1>2, <3>1, <3>2 DEF Clock
  <2>2. CASE AesInEx /\ ex_ready(in)
    <3>1. ~InOrder!Idle /\ alu_operator_ex = issued[done + 1]
      BY <2>0, <2>2 DEF HInv, IInv, ExactlyOnce, InOrder!Idle
    <3>2. InOrder!Perform(alu_operator_ex)
      <4>1. /\ Commit(alu_operator_ex) /\ done' = done + 1
            /\ results' = IF alu_operator_ex.op \in {"ksrd", "strd"}
                          THEN Append(results, ReadPort(alu_operator_ex)) ELSE results
        BY <1>2, <2>2 DEF Clock, AesStep, AesInEx, commit
      <4> QED BY <4>1, SameUnits DEF InOrder!Perform, ReadPort, InOrder!ReadPort
    <3> QED BY <2>1, <3>1, <3>2 DEF InOrder!Next, InOrder!Execute, InOrder!ExecuteAndHandOver
  <2>3. CASE ~(AesInEx /\ ex_ready(in))
    <3>1. UNCHANGED <<unitVars, done, results>>
      BY <1>2, <2>3 DEF Clock, AesStep, AesInEx, commit
    <3>2. ex_ready(in) => InOrder!Idle
      BY <2>3 DEF HInv, IInv, ExactlyOnce, InOrder!Idle
    <3> QED BY <2>1, <3>1, <3>2 DEF InOrder!Next, InOrder!HandOver, InOrder!vars, unitVars
  <2> QED BY <2>2, <2>3
<1> QED BY <1>1, <1>2 DEF Next

(* The pipelined stage executes the AES instructions in order, each        *)
(* exactly once: every behaviour of it is a behaviour of AesInOrder.       *)
THEOREM Refinement == Spec => ImplementsInOrder
<1>1. Init => InOrder!Init
  BY SameUnits DEF Init, InOrder!Init
<1> QED BY <1>1, InitHInv, NextHInv, RefinementStep, PTL DEF Spec, ImplementsInOrder, InOrder!Spec

-----------------------------------------------------------------------------
(* ---- aes128_ecb_encrypt ----------------------------------------------- *)
(* Two 128-bit registers with equal words are equal.                       *)
LEMMA QuadEq ==
  ASSUME NEW p, NEW q, Quad(p), Quad(q), \A c \in Idx : p[c] = q[c]
  PROVE  p = q
BY DEF Quad

(* The block in progress is one of the buffer's, and so is its successor   *)
(* until the length is reached.                                            *)
LEMMA LoopBound ==
  ASSUME NEW len \in 0..(16 * MaxBlocks), NEW b \in Nat, 16 * b < len, len % 16 = 0
  PROVE  b \in Blocks /\ 16 * (b + 1) <= len
BY LensAssumption DEF Blocks

(* What the invariant says of the block that an instruction works on.      *)
LEMMA RunningBlock ==
  ASSUME EncryptInv, NEW p, Running(p)
  PROVE  /\ block \in Blocks /\ 16 * (block + 1) <= call.len /\ block \in Nat
         /\ call.key \in Keys /\ call.out \in Buffers /\ asked[block] \in Texts
         /\ status = "running" /\ 16 * block < call.len /\ pc = p /\ call.len \in Nat
<1>1. call.len \in 0..(16 * MaxBlocks) /\ call.key \in Keys /\ call.out \in Buffers
  BY DEF EncryptInv, EncryptTypeOK
<1>2. call.len % 16 = 0
  BY DEF EncryptInv, LoopInStep, Running
<1>3. block \in Nat /\ 16 * block < call.len
  BY LensAssumption DEF EncryptInv, EncryptTypeOK, Running
<1> QED BY <1>1, <1>2, <1>3, LoopBound, LensAssumption DEF EncryptInv, EncryptTypeOK, Running

-----------------------------------------------------------------------------
(* The invariant holds after reset.                                        *)
LEMMA EncryptInitInv == EncryptInit => EncryptInv
<1> SUFFICES ASSUME EncryptInit PROVE EncryptInv
  OBVIOUS
<1>1. EncryptTypeOK
  BY LensAssumption DEF EncryptInit, EncryptTypeOK, UnitsInit, Quad, Idx, Phases
<1>2. LoopInStep /\ KeyInStep /\ StateInStep /\ BuffersInStep
  BY DEF EncryptInit, LoopInStep, KeyInStep, StateInStep, BuffersInStep
<1> QED BY <1>1, <1>2 DEF EncryptInv

(* A call starts a block from whatever the units hold.                     *)
LEMMA CallInv ==
  ASSUME EncryptInv, NEW texts \in [Blocks -> Texts], Accept(texts) \/ Refuse(texts)
  PROVE  EncryptInv'
<1>1. PICK k \in Keys, out \in Buffers, len \in Lens : call' = [key |-> k, out |-> out, len |-> len]
  BY DEF Accept, Refuse, Call
<1>2. /\ mem' = Filled(texts) /\ asked' = texts
      /\ block' = 0 /\ pc' = "stld" /\ step' = 0 /\ UNCHANGED unitVars
      /\ \/ call'.len % 16 = 0 /\ status' = "running"
         \/ status' = "idle"
  BY DEF Accept, Refuse, Call, Goto
<1>3. EncryptTypeOK'
  <2>1. call' \in [key : Keys, out : Buffers, len : 0..(16 * MaxBlocks)]
    BY <1>1, LensAssumption
  <2>2. mem' = [a \in Addr |-> mem'[a]]
    BY <1>2 DEF Filled
  <2> QED BY <1>2, <2>1, <2>2, LensAssumption DEF EncryptInv, EncryptTypeOK, unitVars, Phases, Idx, Quad
<1>4. LoopInStep'
  <2>1. call'.len \in Nat
    BY <1>1, LensAssumption
  <2> QED BY <1>2, <2>1 DEF LoopInStep
<1>5. KeyInStep' /\ StateInStep'
  BY <1>2 DEF KeyInStep, StateInStep, Idx
<1>6. BuffersInStep'
  <2> SUFFICES ASSUME NEW b \in Blocks, NEW c \in Idx
               PROVE  mem'[<<"plaintext", b, c>>] = texts[b][c] /\ ~(b < 0)
    BY <1>2 DEF BuffersInStep
  <2>1. <<"plaintext", b, c>> \in Addr
    BY DEF Addr, Buffers
  <2> QED BY <1>2, <2>1 DEF Filled, Blocks
<1> QED BY <1>3, <1>4, <1>5, <1>6 DEF EncryptInv

(* aesstld fills the state word by word; word 3 completes the block.       *)
LEMMA LoadTextInv == EncryptInv /\ LoadText => EncryptInv'
<1> SUFFICES ASSUME EncryptInv, LoadText PROVE EncryptInv'
  OBVIOUS
<1>0. /\ st' = [st EXCEPT ![step] = mem[<<"plaintext", block, step>>]]
      /\ UNCHANGED <<krk, rcnt, mem, status, call, asked, block>>
      /\ IF step < 3 THEN pc' = "stld" /\ step' = step + 1 ELSE pc' = "ksld" /\ step' = 0
  BY DEF LoadText, StateLoad, Insn, Goto, Quiet
<1>1. /\ block \in Blocks /\ block \in Nat /\ call.len \in Nat /\ asked[block] \in Texts /\ call.key \in Keys
      /\ status = "running" /\ 16 * block < call.len /\ pc = "stld" /\ step \in Idx
  BY RunningBlock DEF LoadText, EncryptInv, EncryptTypeOK
<1>2. EncryptTypeOK'
  <2>1. Quad(st)'
    BY <1>0, <1>1 DEF EncryptInv, EncryptTypeOK, Quad
  <2> QED BY <1>0, <1>1, <2>1 DEF EncryptInv, EncryptTypeOK, Phases, Idx, Quad
<1>3. \A c \in Idx : c <= step => st'[c] = asked[block][c]
  <2>1. mem[<<"plaintext", block, step>>] = asked[block][step]
    BY <1>1 DEF EncryptInv, BuffersInStep
  <2> QED BY <1>0, <1>1, <2>1 DEF EncryptInv, EncryptTypeOK, StateInStep, Quad, Idx
<1>4. StateInStep'
  <2>1. CASE step < 3
    BY <1>0, <1>1, <1>3, <2>1 DEF StateInStep, Idx
  <2>2. CASE ~(step < 3)
    <3>1. st' = asked[block]
      BY <1>1, <1>2, <1>3, <2>2, QuadEq, CipherAssumption DEF EncryptTypeOK, Idx
    <3> QED BY <1>0, <1>1, <2>2, <3>1 DEF StateInStep
  <2> QED BY <2>1, <2>2
<1>5. LoopInStep'
  BY <1>0, <1>1 DEF EncryptInv, LoopInStep
<1>6. KeyInStep'
  BY <1>0, <1>1 DEF KeyInStep, Idx
<1>7. BuffersInStep'
  BY <1>0, <1>1 DEF EncryptInv, BuffersInStep
<1> QED BY <1>2, <1>4, <1>5, <1>6, <1>7 DEF EncryptInv

(* aesksld fills the key word by word and restarts the counter.            *)
LEMMA SeedKeyInv == EncryptInv /\ SeedKey => EncryptInv'
<1> SUFFICES ASSUME EncryptInv, SeedKey PROVE EncryptInv'
  OBVIOUS
<1>0. /\ krk' = [krk EXCEPT ![step] = call.key[step]] /\ rcnt' = 0
      /\ UNCHANGED <<st, mem, status, call, asked, block>>
      /\ IF step < 3 THEN pc' = "ksld" /\ step' = step + 1 ELSE pc' = "rnd2" /\ step' = 0
  BY DEF SeedKey, KeyLoad, Insn, Goto, Quiet
<1>1. /\ block \in Blocks /\ block \in Nat /\ call.len \in Nat /\ asked[block] \in Texts /\ call.key \in Keys
      /\ status = "running" /\ 16 * block < call.len /\ pc = "ksld" /\ step \in Idx
  BY RunningBlock DEF SeedKey, EncryptInv, EncryptTypeOK
<1>2. EncryptTypeOK'
  <2>1. Quad(krk)'
    BY <1>0, <1>1 DEF EncryptInv, EncryptTypeOK, Quad
  <2> QED BY <1>0, <1>1, <2>1 DEF EncryptInv, EncryptTypeOK, Phases, Idx, Quad
<1>3. \A c \in Idx : c <= step => krk'[c] = call.key[c]
  BY <1>0, <1>1 DEF EncryptInv, EncryptTypeOK, KeyInStep, Quad, Idx
<1>4. KeyInStep'
  <2>1. CASE step < 3
    BY <1>0, <1>1, <1>3, <2>1 DEF KeyInStep, Idx
  <2>2. CASE ~(step < 3)
    <3>1. krk' = call.key
      BY <1>1, <1>2, <1>3, <2>2, QuadEq, CipherAssumption DEF EncryptTypeOK, Idx
    <3> QED BY <1>0, <1>1, <2>2, <3>1 DEF KeyInStep
  <2> QED BY <2>1, <2>2
<1>5. LoopInStep' /\ StateInStep' /\ BuffersInStep'
  BY <1>0, <1>1 DEF EncryptInv, LoopInStep, StateInStep, BuffersInStep, Idx
<1> QED BY <1>2, <1>4, <1>5 DEF EncryptInv

(* aesrnd(2) is state 0 of the cipher.                                     *)
LEMMA InitialRoundInv == EncryptInv /\ InitialRound => EncryptInv'
<1> SUFFICES ASSUME EncryptInv, InitialRound PROVE EncryptInv'
  OBVIOUS
<1>0. /\ st' = RoundStep(2, st, krk) /\ UNCHANGED <<krk, rcnt, mem, status, call, asked, block>>
      /\ pc' = "kse" /\ step' = 1
  BY DEF InitialRound, Round, Insn, Goto, Quiet
<1>1. /\ block \in Blocks /\ block \in Nat /\ call.len \in Nat /\ asked[block] \in Texts /\ call.key \in Keys
      /\ status = "running" /\ 16 * block < call.len /\ pc = "rnd2"
  BY RunningBlock DEF InitialRound
<1>2. EncryptTypeOK'
  BY <1>0, <1>1 DEF EncryptInv, EncryptTypeOK, Quad, Phases, Idx, RoundStep
<1>3. krk = call.key /\ rcnt = 0 /\ st = asked[block]
  BY <1>1 DEF EncryptInv, KeyInStep, StateInStep
<1>4. KeyInStep' /\ StateInStep'
  BY <1>0, <1>1, <1>3, CipherAssumption DEF KeyInStep, StateInStep
<1>5. LoopInStep' /\ BuffersInStep'
  BY <1>0, <1>1 DEF EncryptInv, LoopInStep, BuffersInStep
<1> QED BY <1>2, <1>4, <1>5 DEF EncryptInv

(* aeskse takes the key of round step - 1 to the key of round step.        *)
LEMMA NextRoundKeyInv == EncryptInv /\ NextRoundKey => EncryptInv'
<1> SUFFICES ASSUME EncryptInv, NextRoundKey PROVE EncryptInv'
  OBVIOUS
<1>0. /\ krk' = ExpandKey(krk, rcnt) /\ rcnt' = (rcnt + 1) % 16
      /\ UNCHANGED <<st, mem, status, call, asked, block, step>> /\ pc' = "rnd"
  BY DEF NextRoundKey, KeyExpand, Insn, Goto, Quiet
<1>1. /\ block \in Blocks /\ block \in Nat /\ call.len \in Nat /\ asked[block] \in Texts /\ call.key \in Keys
      /\ status = "running" /\ 16 * block < call.len /\ pc = "kse" /\ step \in 1..10
  BY RunningBlock DEF NextRoundKey, EncryptInv, EncryptTypeOK
<1>2. EncryptTypeOK'
  BY <1>0, <1>1 DEF EncryptInv, EncryptTypeOK, Quad, Phases, Idx, ExpandKey
<1>3. krk = RoundKey(call.key, step - 1) /\ rcnt = step - 1
  BY <1>1 DEF EncryptInv, KeyInStep
<1>4. krk' = RoundKey(call.key, step) /\ rcnt' = step
  BY <1>0, <1>1, <1>3, CipherAssumption
<1>5. LoopInStep' /\ KeyInStep' /\ StateInStep' /\ BuffersInStep'
  BY <1>0, <1>1, <1>4 DEF EncryptInv, LoopInStep, KeyInStep, StateInStep, BuffersInStep
<1> QED BY <1>2, <1>5 DEF EncryptInv

(* aesrnd(0) and aesrnd(1) take the state of round step - 1 to step.       *)
LEMMA CipherRoundInv == EncryptInv /\ CipherRound => EncryptInv'
<1> SUFFICES ASSUME EncryptInv, CipherRound PROVE EncryptInv'
  OBVIOUS
<1>0. /\ st' = RoundStep(IF step < 10 THEN 0 ELSE 1, st, krk)
      /\ UNCHANGED <<krk, rcnt, mem, status, call, asked, block>>
      /\ IF step < 10 THEN pc' = "kse" /\ step' = step + 1 ELSE pc' = "strd" /\ step' = 0
  BY DEF CipherRound, Round, Insn, Goto, Quiet
<1>1. /\ block \in Blocks /\ block \in Nat /\ call.len \in Nat /\ asked[block] \in Texts /\ call.key \in Keys
      /\ status = "running" /\ 16 * block < call.len /\ pc = "rnd" /\ step \in 1..10
  BY RunningBlock DEF CipherRound, EncryptInv, EncryptTypeOK
<1>2. EncryptTypeOK'
  BY <1>0, <1>1 DEF EncryptInv, EncryptTypeOK, Quad, Phases, Idx, RoundStep
<1>3. /\ krk = RoundKey(call.key, step) /\ rcnt = step
      /\ st = CipherState(call.key, asked[block], step - 1)
  BY <1>1 DEF EncryptInv, KeyInStep, StateInStep
<1>4. st' = CipherState(call.key, asked[block], step)
  <2>1. CASE step \in 1..9
    BY <1>0, <1>1, <1>3, <2>1, CipherAssumption
  <2>2. CASE step = 10
    BY <1>0, <1>1, <1>3, <2>2, CipherAssumption
  <2> QED BY <1>1, <2>1, <2>2
<1>5. KeyInStep' /\ StateInStep'
  BY <1>0, <1>1, <1>3, <1>4 DEF KeyInStep, StateInStep, Cipher
<1>6. LoopInStep'
  BY <1>0, <1>1 DEF EncryptInv, LoopInStep
<1>7. BuffersInStep'
  <2>1. \A c \in Idx : ~(pc' = "strd" /\ c < step')
    BY <1>0, <1>1 DEF Idx
  <2>2. \A b \in Blocks, c \in Idx :
          /\ b > block \/ b = block \/ call.out # "plaintext"
               => mem[<<"plaintext", b, c>>] = asked[b][c]
          /\ b < block => mem[<<call.out, b, c>>] = Cipher(call.key, asked[b])[c]
    BY <1>1 DEF EncryptInv, BuffersInStep
  <2> QED BY <1>0, <2>1, <2>2 DEF BuffersInStep
<1> QED BY <1>2, <1>5, <1>6, <1>7 DEF EncryptInv

(* A store writes a word of ciphertext and, in place, only words of the    *)
(* block in progress, which the program has already read.                  *)
LEMMA StoreTextInv == EncryptInv /\ StoreText => EncryptInv'
<1> SUFFICES ASSUME EncryptInv, StoreText PROVE EncryptInv'
  OBVIOUS
<1>0. /\ mem' = [mem EXCEPT ![<<call.out, block, step>>] = st[step]]
      /\ UNCHANGED <<krk, rcnt, st, status, call, asked>>
      /\ IF step < 3 THEN pc' = "strd" /\ step' = step + 1 /\ block' = block
                     ELSE pc' = "stld" /\ step' = 0 /\ block' = block + 1
  BY DEF StoreText, NoUnitChange, unitVars, ReadPort, Insn, Goto
<1>1. /\ block \in Blocks /\ block \in Nat /\ call.len \in Nat /\ 16 * (block + 1) <= call.len
      /\ asked[block] \in Texts /\ call.key \in Keys /\ call.out \in Buffers
      /\ status = "running" /\ 16 * block < call.len /\ pc = "strd" /\ step \in Idx
  BY RunningBlock DEF StoreText, EncryptInv, EncryptTypeOK
<1>2. EncryptTypeOK'
  <2>1. mem' = [a \in Addr |-> mem'[a]]
    BY <1>0 DEF EncryptInv, EncryptTypeOK
  <2>2. block' \in 0..MaxBlocks
    BY <1>0, <1>1, LensAssumption DEF Blocks
  <2>3. Quad(krk)' /\ Quad(st)' /\ rcnt' \in 0..15
    BY <1>0 DEF EncryptInv, EncryptTypeOK, Quad
  <2> QED BY <1>0, <1>1, <2>1, <2>2, <2>3 DEF EncryptInv, EncryptTypeOK, Phases, Idx
<1>3. LoopInStep' /\ KeyInStep' /\ StateInStep'
  BY <1>0, <1>1 DEF EncryptInv, LoopInStep, KeyInStep, StateInStep, Idx
<1>4. BuffersInStep'
  <2>1. st[step] = Cipher(call.key, asked[block])[step]
    BY <1>1 DEF EncryptInv, StateInStep
  <2>2. \A a \in Addr : mem'[a] = IF a = <<call.out, block, step>> THEN st[step] ELSE mem[a]
    BY <1>0 DEF EncryptInv, EncryptTypeOK
  <2> SUFFICES ASSUME NEW b \in Blocks, NEW c \in Idx
               PROVE  /\ (b > block' \/ (b = block' /\ pc' # "strd") \/ call.out # "plaintext")
                            => mem'[<<"plaintext", b, c>>] = asked[b][c]
                      /\ (b < block' \/ (b = block' /\ pc' = "strd" /\ c < step'))
                            => mem'[<<call.out, b, c>>] = Cipher(call.key, asked[b])[c]
    BY <1>0 DEF BuffersInStep
  <2>3. b \in Nat /\ c \in 0..3 /\ step \in 0..3
    BY <1>1 DEF Blocks, Idx
  <2>4. <<"plaintext", b, c>> \in Addr /\ <<call.out, b, c>> \in Addr
    BY <1>1 DEF Addr, Buffers
  <2>5. ASSUME b > block' \/ (b = block' /\ pc' # "strd") \/ call.out # "plaintext"
        PROVE  mem'[<<"plaintext", b, c>>] = asked[b][c]
    <3>1. b > block \/ call.out # "plaintext"
      BY <1>0, <1>1, <2>3, <2>5
    <3>2. mem[<<"plaintext", b, c>>] = asked[b][c]
      BY <1>1, <3>1 DEF EncryptInv, BuffersInStep
    <3>3. <<"plaintext", b, c>> # <<call.out, block, step>>
      BY <1>1, <2>3, <3>1
    <3> QED BY <2>2, <2>4, <3>2, <3>3
  <2>6. ASSUME b < block' \/ (b = block' /\ pc' = "strd" /\ c < step')
        PROVE  mem'[<<call.out, b, c>>] = Cipher(call.key, asked[b])[c]
    <3>1. CASE b = block /\ c = step
      BY <2>1, <2>2, <2>4, <3>1
    <3>2. CASE ~(b = block /\ c = step)
      <4>1. b < block \/ (b = block /\ c < step)
        BY <1>0, <1>1, <2>3, <2>6, <3>2
      <4>2. mem[<<call.out, b, c>>] = Cipher(call.key, asked[b])[c]
        BY <1>1, <4>1 DEF EncryptInv, BuffersInStep
      <4>3. <<call.out, b, c>> # <<call.out, block, step>>
        BY <3>2
      <4> QED BY <2>2, <2>4, <4>2, <4>3
    <3> QED BY <3>1, <3>2
  <2> QED BY <2>5, <2>6
<1> QED BY <1>2, <1>3, <1>4 DEF EncryptInv

(* Returning and resetting: nothing of the buffers changes.                *)
LEMMA ReturnResetInv == EncryptInv /\ (Return \/ Reset) => EncryptInv'
<1> SUFFICES ASSUME EncryptInv, Return \/ Reset PROVE EncryptInv'
  OBVIOUS
<1>1. CASE Return
  BY <1>1 DEF Return, unitVars, EncryptInv, EncryptTypeOK, LoopInStep, KeyInStep, StateInStep, BuffersInStep, Quad
<1>2. CASE Reset
  BY <1>2 DEF Reset, Goto, EncryptInv, EncryptTypeOK, LoopInStep, KeyInStep, StateInStep, BuffersInStep, Quad, Idx, Phases
<1> QED BY <1>1, <1>2

(* Each instruction of the program preserves the invariant.                *)
LEMMA EncryptNextInv == EncryptInv /\ [EncryptNext]_encryptVars => EncryptInv'
<1> SUFFICES ASSUME EncryptInv, [EncryptNext]_encryptVars PROVE EncryptInv'
  OBVIOUS
<1>1. CASE UNCHANGED encryptVars
  BY <1>1 DEF encryptVars, unitVars, EncryptInv, EncryptTypeOK, LoopInStep, KeyInStep, StateInStep, BuffersInStep, Quad
<1>2. CASE EncryptNext
  BY <1>2, CallInv, LoadTextInv, SeedKeyInv, InitialRoundInv, NextRoundKeyInv, CipherRoundInv,
     StoreTextInv, ReturnResetInv DEF EncryptNext
<1> QED BY <1>1, <1>2

(* The key unit, the state unit and the buffers stay in step with the      *)
(* cipher, for every key, text, number of blocks, call and reset.          *)
THEOREM EncryptInvariance == EncryptSpec => []EncryptInv
BY EncryptInitInv, EncryptNextInv, PTL DEF EncryptSpec

(* What the caller relies on: the output it finds on return is the cipher  *)
(* of the blocks it asked for, in place or not.                            *)
THEOREM CiphertextOnReturnHolds == EncryptSpec => []CiphertextOnReturn
<1>1. EncryptInv => CiphertextOnReturn
  <2> SUFFICES ASSUME EncryptInv, status = "returned", NEW b \in Blocks, NEW c \in Idx, 16 * b < call.len
               PROVE  mem[<<call.out, b, c>>] = Cipher(call.key, asked[b])[c]
    BY DEF CiphertextOnReturn
  <2>1. b < block
    BY LensAssumption DEF EncryptInv, EncryptTypeOK, LoopInStep, Blocks
  <2> QED BY <2>1 DEF EncryptInv, BuffersInStep
<1> QED BY <1>1, EncryptInvariance, PTL

-----------------------------------------------------------------------------
(* The abstract specification speaks of the same buffers and contents.     *)
LEMMA SameBuffers ==
  /\ Blocks = CipherSpec!Blocks /\ Buffers = CipherSpec!Buffers /\ Addr = CipherSpec!Addr
  /\ \A texts : Filled(texts) = CipherSpec!Filled(texts)
BY DEF Blocks, CipherSpec!Blocks, Buffers, CipherSpec!Buffers, Addr, CipherSpec!Addr, Idx,
       Filled, CipherSpec!Filled

(* Only storing a word of the result is a step of the cipher; loading,     *)
(* seeding, expanding and the rounds are invisible to the caller.          *)
LEMMA EncryptRefinementStep == EncryptInv /\ [EncryptNext]_encryptVars => [CipherSpec!Next]_(CipherSpec!vars)
<1> SUFFICES ASSUME EncryptInv, [EncryptNext]_encryptVars PROVE [CipherSpec!Next]_(CipherSpec!vars)
  OBVIOUS
<1>1. CASE UNCHANGED encryptVars
  BY <1>1 DEF encryptVars, CipherSpec!vars, stored
<1>2. ASSUME NEW texts \in [Blocks -> Texts], Accept(texts) \/ Refuse(texts)
      PROVE  CipherSpec!Next
  <2>1. CipherSpec!Call(texts)
    BY <1>2, SameBuffers DEF Accept, Refuse, Call, CipherSpec!Call, stored, Goto
  <2> QED BY <1>2, <2>1, SameBuffers
          DEF Accept, Refuse, CipherSpec!Accept, CipherSpec!Refuse, CipherSpec!Next
<1>3. CASE LoadText \/ SeedKey \/ InitialRound \/ NextRoundKey
  BY <1>3 DEF LoadText, SeedKey, InitialRound, NextRoundKey, Running, Goto, Quiet, CipherSpec!vars, stored
<1>4. CASE CipherRound
  BY <1>4 DEF CipherRound, Running, Goto, Quiet, CipherSpec!vars, stored
<1>5. CASE StoreText
  <2>1. st[step] = Cipher(call.key, asked[block])[step] /\ step \in 0..3
    BY <1>5 DEF StoreText, EncryptInv, StateInStep, Running, EncryptTypeOK, Idx
  <2>2. mem' = [mem EXCEPT ![<<call.out, block, stored>>] = Cipher(call.key, asked[block])[stored]]
    BY <1>5, <2>1 DEF StoreText, ReadPort, Insn, stored, Running
  <2>3. IF stored < 3 THEN stored' = stored + 1 /\ block' = block
                      ELSE stored' = 0 /\ block' = block + 1
    BY <1>5, <2>1 DEF StoreText, stored, Running, Goto
  <2>4. CipherSpec!StoreWord
    BY <1>5, <2>2, <2>3 DEF StoreText, Running, CipherSpec!StoreWord
  <2> QED BY <2>4 DEF CipherSpec!Next
<1>6. CASE Return
  BY <1>6 DEF Return, CipherSpec!Return, CipherSpec!Next, stored
<1>7. CASE Reset
  BY <1>7 DEF Reset, Goto, CipherSpec!Reset, CipherSpec!Next, stored
<1> QED BY <1>1, <1>2, <1>3, <1>4, <1>5, <1>6, <1>7 DEF EncryptNext

(* The program on the accelerator implements the cipher its caller sees.   *)
THEOREM EncryptRefinement == EncryptSpec => ImplementsCipher
<1>1. EncryptInit => CipherSpec!Init
  BY SameBuffers DEF EncryptInit, CipherSpec!Init, stored
<1> QED BY <1>1, EncryptInitInv, EncryptNextInv, EncryptRefinementStep, PTL DEF EncryptSpec, ImplementsCipher, CipherSpec!Spec
-----------------------------------------------------------------------------
(* ---- the program and its instructions ---------------------------------- *)
(* The instructions of a block, by their number.                           *)
LEMMA BlockInstruction ==
  ASSUME NEW k, NEW t, NEW j \in 1..33
  PROVE  LET i == EncryptBlock(k, t)[j]
         IN  /\ j \in 1..4   => i = Insn("stld", j - 1, t[j - 1])
             /\ j \in 5..8   => i = Insn("ksld", j - 5, k[j - 5])
             /\ j = 9        => i = Insn("rnd", 2, ZeroWord)
             /\ j \in 10..29 => i = IF j % 2 = 0 THEN Insn("kse", 0, ZeroWord)
                                    ELSE Insn("rnd", IF j < 29 THEN 0 ELSE 1, ZeroWord)
             /\ j \in 30..33 => i = Insn("strd", j - 30, ZeroWord)
BY DEF EncryptBlock

(* A program step performs the instruction of its place in the block.      *)
LEMMA ProgramStep ==
  ASSUME EncryptInv, EncryptNext, status = "running", status' = "running"
  PROVE  LET i == EncryptBlock(call.key, asked[block])[place]
         IN  /\ Commit(i)
             /\ place' = (place % 33) + 1
             /\ block' = IF place = 33 THEN block + 1 ELSE block
             /\ i.op = "strd" => mem' = [mem EXCEPT ![<<call.out, block, i.idx>>] = ReadPort(i)]
<1> DEFINE i == EncryptBlock(call.key, asked[block])[place]
           Stores == i.op = "strd" => mem' = [mem EXCEPT ![<<call.out, block, i.idx>>] = ReadPort(i)]
<1>0. /\ pc \in {"stld", "ksld", "strd"} => step \in Idx
      /\ pc \in {"kse", "rnd"} => step \in 1..10
  BY DEF EncryptInv, EncryptTypeOK
<1>1. CASE LoadText
  <2>1. pc = "stld" /\ place = step + 1 /\ place \in 1..4
    BY <1>0, <1>1 DEF LoadText, Running, place, Idx
  <2>2. i = Insn("stld", step, asked[block][step])
    BY <1>0, <2>1, BlockInstruction DEF Idx
  <2>3. mem[<<"plaintext", block, step>>] = asked[block][step]
    <3>1. block \in Blocks /\ status = "running" /\ pc = "stld"
      BY <1>1, RunningBlock DEF LoadText
    <3> QED BY <1>0, <3>1 DEF EncryptInv, BuffersInStep
  <2>4. Commit(i) /\ Stores
    BY <1>1, <2>2, <2>3 DEF LoadText, Commit, Insn
  <2>5. block' = block /\ place' = place + 1
    BY <1>0, <1>1, <2>1 DEF LoadText, Goto, Quiet, place, Idx
  <2> QED BY <2>1, <2>4, <2>5
<1>2. CASE SeedKey
  <2>1. pc = "ksld" /\ place = step + 5 /\ place \in 5..8
    BY <1>0, <1>2 DEF SeedKey, Running, place, Idx
  <2>2. i = Insn("ksld", step, call.key[step])
    BY <1>0, <2>1, BlockInstruction DEF Idx
  <2>3. Commit(i) /\ Stores
    BY <1>2, <2>2 DEF SeedKey, Commit, Insn
  <2>4. block' = block /\ place' = place + 1
    BY <1>0, <1>2, <2>1 DEF SeedKey, Goto, Quiet, place, Idx
  <2> QED BY <2>1, <2>3, <2>4
<1>3. CASE InitialRound
  <2>1. pc = "rnd2" /\ place = 9
    BY <1>3 DEF InitialRound, Running, place
  <2>2. i = Insn("rnd", 2, ZeroWord)
    BY <2>1, BlockInstruction
  <2>3. Commit(i) /\ Stores
    BY <1>3, <2>2 DEF InitialRound, Commit, Insn
  <2>4. block' = block /\ place' = 10
    BY <1>3 DEF InitialRound, Goto, Quiet, place
  <2> QED BY <2>1, <2>3, <2>4
<1>4. CASE NextRoundKey
  <2>1. pc = "kse" /\ place = 2 * step + 8 /\ place \in 10..29 /\ place % 2 = 0
    BY <1>0, <1>4 DEF NextRoundKey, Running, place
  <2>2. i = Insn("kse", 0, ZeroWord)
    BY <2>1, BlockInstruction
  <2>3. Commit(i) /\ Stores
    BY <1>4, <2>2 DEF NextRoundKey, Commit, Insn
  <2>4. block' = block /\ place' = place + 1
    BY <1>0, <1>4, <2>1 DEF NextRoundKey, Goto, Quiet, place
  <2> QED BY <2>1, <2>3, <2>4
<1>5. CASE CipherRound
  <2>1. pc = "rnd" /\ place = 2 * step + 9 /\ place \in 10..29 /\ place % 2 # 0 /\ (place < 29 <=> step < 10)
    BY <1>0, <1>5 DEF CipherRound, Running, place
  <2>2. i = Insn("rnd", IF step < 10 THEN 0 ELSE 1, ZeroWord)
    BY <2>1, BlockInstruction
  <2>3. Commit(i) /\ Stores
    BY <1>5, <2>2 DEF CipherRound, Commit, Insn
  <2>4. block' = block /\ place' = place + 1
    BY <1>0, <1>5, <2>1 DEF CipherRound, Goto, Quiet, place
  <2> QED BY <2>1, <2>3, <2>4
<1>6. CASE StoreText
  <2>1. pc = "strd" /\ place = step + 30 /\ place \in 30..33
    BY <1>0, <1>6 DEF StoreText, Running, place, Idx
  <2>2. i = Insn("strd", step, ZeroWord)
    BY <1>0, <2>1, BlockInstruction DEF Idx
  <2>3. Commit(i) /\ Stores
    BY <1>6, <2>2 DEF StoreText, Commit, Insn
  <2>4. /\ block' = IF place = 33 THEN block + 1 ELSE block
        /\ place' = (place % 33) + 1
    BY <1>0, <1>6, <2>1 DEF StoreText, Goto, place, Idx
  <2> QED BY <2>3, <2>4
<1>7. CASE Return \/ Reset \/ \E texts \in [Blocks -> Texts] : Accept(texts) \/ Refuse(texts)
  BY <1>7 DEF Return, Reset, Accept, Refuse, Call
<1> QED BY <1>1, <1>2, <1>3, <1>4, <1>5, <1>6, <1>7 DEF EncryptNext

(* aes128_ecb_encrypt hands the 33 instructions of aes128_encrypt_block to *)
(* the units for every block, with the key and the text it was asked for,  *)
(* in place or not (main.c:213-267).                                       *)
THEOREM ExecutesBlockHolds == EncryptSpec => ExecutesBlock
<1>1. EncryptInv /\ [EncryptNext]_encryptVars =>
        [status = "running" /\ status' = "running" =>
           LET i == EncryptBlock(call.key, asked[block])[place]
           IN  /\ Commit(i)
               /\ place' = (place % 33) + 1
               /\ block' = IF place = 33 THEN block + 1 ELSE block
               /\ i.op = "strd" => mem' = [mem EXCEPT ![<<call.out, block, i.idx>>] = ReadPort(i)]
        ]_encryptVars
  BY ProgramStep
<1> QED BY <1>1, EncryptInvariance, PTL DEF EncryptSpec, ExecutesBlock

-----------------------------------------------------------------------------
(* ---- the bytes -------------------------------------------------------- *)
(* Exclusive or, on sets.                                                  *)
LEMMA XorFacts ==
  /\ \A a, b : a ^^ b = b ^^ a
  /\ \A a, b, c : (a ^^ b) ^^ c = a ^^ (b ^^ c)
  /\ \A a : a ^^ {} = a
  /\ \A a, b \in Byte : a ^^ b \in Byte
<1>1. \A a, b : a ^^ b = b ^^ a
  BY DEF ^^
<1>2. \A a, b, c : (a ^^ b) ^^ c = a ^^ (b ^^ c)
  BY DEF ^^
<1>3. \A a : a ^^ {} = a
  BY DEF ^^
<1>4. \A a, b \in Byte : a ^^ b \in Byte
  BY DEF ^^, Byte
<1> QED BY <1>1, <1>2, <1>3, <1>4

(* What stays a byte.                                                      *)
LEMMA ByteFacts ==
  /\ {} \in Byte
  /\ \A n : Bits(n) \in Byte
  /\ \A x \in Byte : aes_sbox(x) \in Byte
  /\ \A x : Shl(x) \in Byte
  /\ \A x \in Byte : aes_xtime(x) \in Byte
<1>1. {} \in Byte /\ h1b \in Byte
  BY DEF Byte, h1b
<1>2. \A n : Bits(n) \in Byte
  BY DEF Bits, Byte
<1>3. \A x \in Byte : aes_sbox(x) \in Byte
  BY <1>2 DEF aes_sbox, Sbox
<1>4. \A x : Shl(x) \in Byte
  BY DEF Shl, Byte
<1>5. \A x \in Byte : aes_xtime(x) \in Byte
  BY <1>1, <1>4, XorFacts DEF aes_xtime
<1> QED BY <1>1, <1>2, <1>3, <1>4, <1>5

(* xtime is linear, and moves a single bit up.                             *)
LEMMA XtimeFacts ==
  /\ \A a, b : aes_xtime(a ^^ b) = aes_xtime(a) ^^ aes_xtime(b)
  /\ \A i \in 0..6 : aes_xtime({i}) = {i + 1}
  /\ aes_xtime({}) = {}
<1>1. ASSUME NEW a, NEW b
      PROVE  aes_xtime(a ^^ b) = aes_xtime(a) ^^ aes_xtime(b)
  <2> DEFINE high(x) == IF 7 \in x THEN h1b ELSE {}
  <2>1. Shl(a ^^ b) = Shl(a) ^^ Shl(b)
    BY DEF Shl, ^^
  <2>2. high(a ^^ b) = high(a) ^^ high(b)
    BY DEF ^^
  <2>3. \A u, v, w, z : (u ^^ v) ^^ (w ^^ z) = (u ^^ w) ^^ (v ^^ z)
    BY DEF ^^
  <2>4. \A x : aes_xtime(x) = Shl(x) ^^ high(x)
    BY DEF aes_xtime
  <2> HIDE DEF high
  <2> QED BY <2>1, <2>2, <2>3, <2>4
<1>2. ASSUME NEW i \in 0..6
      PROVE  aes_xtime({i}) = {i + 1}
  <2>1. Shl({i}) = {i + 1} /\ 7 \notin {i}
    BY DEF Shl
  <2> QED BY <2>1, XorFacts DEF aes_xtime
<1>3. aes_xtime({}) = {}
  <2>1. Shl({}) = {}
    BY DEF Shl
  <2> QED BY <2>1, XorFacts DEF aes_xtime
<1> QED BY <1>1, <1>2, <1>3

(* Twice or three times a byte, and the registers of gf_mult after i       *)
(* passes.                                                                 *)
Multiple(m, x) == IF m = 2 THEN aes_xtime(x) ELSE aes_xtime(x) ^^ x
Passed(m, x, i) ==
  [ p |-> Multiple(m, {j \in x : j < i}),
    a |-> IF i < 8 THEN Multiple(m, {i}) ELSE aes_xtime(Multiple(m, {7})),
    b |-> {j \in 0..7 : j + i \in x} ]

(* Both multiples are linear, and shift with a single bit.                 *)
LEMMA MultipleFacts ==
  ASSUME NEW m
  PROVE  /\ \A a, b : Multiple(m, a ^^ b) = Multiple(m, a) ^^ Multiple(m, b)
         /\ \A x \in Byte : Multiple(m, x) \in Byte
         /\ \A i \in 0..6 : aes_xtime(Multiple(m, {i})) = Multiple(m, {i + 1})
         /\ Multiple(m, {}) = {}
<1>1. \A u, v, w, z : (u ^^ v) ^^ (w ^^ z) = (u ^^ w) ^^ (v ^^ z)
  BY DEF ^^
<1>2. ASSUME NEW a, NEW b
      PROVE  Multiple(m, a ^^ b) = Multiple(m, a) ^^ Multiple(m, b)
  <2>1. aes_xtime(a ^^ b) = aes_xtime(a) ^^ aes_xtime(b)
    BY XtimeFacts
  <2>2. aes_xtime(a ^^ b) ^^ (a ^^ b) = (aes_xtime(a) ^^ a) ^^ (aes_xtime(b) ^^ b)
    BY <1>1, <2>1
  <2> QED BY <2>1, <2>2 DEF Multiple
<1>3. \A x \in Byte : Multiple(m, x) \in Byte
  BY ByteFacts, XorFacts DEF Multiple
<1>4. ASSUME NEW i \in 0..6
      PROVE  aes_xtime(Multiple(m, {i})) = Multiple(m, {i + 1})
  <2>1. aes_xtime({i}) = {i + 1}
    BY XtimeFacts
  <2>2. aes_xtime(aes_xtime({i}) ^^ {i}) = aes_xtime({i + 1}) ^^ {i + 1}
    BY <2>1, XtimeFacts
  <2> QED BY <2>1, <2>2 DEF Multiple
<1>5. Multiple(m, {}) = {}
  BY XtimeFacts, XorFacts DEF Multiple
<1> QED BY <1>2, <1>3, <1>4, <1>5

(* What a pass of the loop does to the registers.                          *)
LEMMA GfFields ==
  ASSUME NEW q \in [p : Byte, a : Byte, b : Byte], NEW r,
         r = [p |-> r.p, a |-> r.a, b |-> r.b],
         r.p = IF 0 \in q.b THEN q.p ^^ q.a ELSE q.p,
         r.a = aes_xtime(q.a),
         r.b = Shr(q.b)
  PROVE  GfStep[q] = r
<1>1. aes_xtime(q.a) = IF 7 \in q.a THEN Shl(q.a) ^^ h1b ELSE Shl(q.a)
  BY XorFacts DEF aes_xtime
<1>2. GfStep[q] = [p |-> r.p, a |-> r.a, b |-> r.b]
  BY <1>1 DEF GfStep
<1> QED BY <1>2

(* One pass of the loop takes the registers after i passes to those after  *)
(* i + 1.                                                                  *)
LEMMA Pass ==
  ASSUME NEW m, NEW x \in Byte, NEW i \in 0..7
  PROVE  GfStep[Passed(m, x, i)] = Passed(m, x, i + 1)
<1> DEFINE q == Passed(m, x, i)
           r == Passed(m, x, i + 1)
           low(n) == {j \in x : j < n}
<1>0. \A j \in x : j \in 0..7
  BY DEF Byte
<1>1. /\ q = [p |-> q.p, a |-> q.a, b |-> q.b]
      /\ q.p = Multiple(m, low(i)) /\ q.a = Multiple(m, {i}) /\ q.b = {j \in 0..7 : j + i \in x}
  BY DEF Passed
<1>2. /\ r = [p |-> r.p, a |-> r.a, b |-> r.b]
      /\ r.p = Multiple(m, low(i + 1)) /\ r.b = {j \in 0..7 : j + (i + 1) \in x}
      /\ r.a = IF i + 1 < 8 THEN Multiple(m, {i + 1}) ELSE aes_xtime(Multiple(m, {7}))
  BY DEF Passed
<1> HIDE DEF q, r
<1>3. q \in [p : Byte, a : Byte, b : Byte]
  <2>1. low(i) \in Byte /\ {i} \in Byte /\ {j \in 0..7 : j + i \in x} \in Byte
    BY DEF Byte
  <2>2. q.p \in Byte /\ q.a \in Byte /\ q.b \in Byte
    <3> HIDE DEF low
    <3>1. \A y \in Byte : Multiple(m, y) \in Byte
      BY MultipleFacts
    <3> QED BY <1>1, <2>1, <3>1
  <2> QED BY <1>1, <2>2
<1>4. 0 \in q.b <=> i \in x
  BY <1>1
<1>5. r.p = IF 0 \in q.b THEN q.p ^^ q.a ELSE q.p
  <2>1. CASE i \in x
    <3>1. low(i + 1) = low(i) ^^ {i}
      <4>1. \A j \in x : j < i + 1 <=> j < i \/ j = i
        BY <1>0
      <4>2. \A j : j \in low(i + 1) <=> j \in low(i) \/ j = i
        BY <2>1, <4>1
      <4>3. i \notin low(i)
        OBVIOUS
      <4> HIDE DEF low
      <4> QED BY <4>2, <4>3 DEF ^^
    <3>2. Multiple(m, low(i) ^^ {i}) = Multiple(m, low(i)) ^^ Multiple(m, {i})
      BY MultipleFacts
    <3> HIDE DEF low
    <3> QED BY <1>1, <1>2, <1>4, <2>1, <3>1, <3>2
  <2>2. CASE i \notin x
    <3>1. low(i + 1) = low(i)
      <4>1. \A j \in x : j < i + 1 <=> j < i \/ j = i
        BY <1>0
      <4> QED BY <2>2, <4>1
    <3> HIDE DEF low
    <3> QED BY <1>1, <1>2, <1>4, <2>2, <3>1
  <2> QED BY <2>1, <2>2
<1>6. r.a = aes_xtime(q.a)
  <2>1. CASE i = 7
    BY <1>1, <1>2, <2>1
  <2>2. CASE i < 7
    <3>1. i \in 0..6 /\ i + 1 < 8
      BY <2>2
    <3>2. aes_xtime(Multiple(m, {i})) = Multiple(m, {i + 1})
      BY <3>1, MultipleFacts
    <3> QED BY <1>1, <1>2, <3>1, <3>2
  <2> QED BY <2>1, <2>2
<1>7. r.b = Shr(q.b)
  BY <1>1, <1>2 DEF Shr, Byte
<1>8. GfStep[q] = r
  BY <1>2, <1>3, <1>5, <1>6, <1>7, GfFields
<1> QED BY <1>8 DEF q, r

(* gf_mult by 2 and by 3 is xtime, and xtime with the byte itself added.   *)
LEMMA GfMultiples ==
  ASSUME NEW x \in Byte
  PROVE  gf_mult({1}, x) = aes_xtime(x) /\ gf_mult({0, 1}, x) = aes_xtime(x) ^^ x
<1>0. \A j \in x : j \in 0..7
  BY DEF Byte
<1>1. ASSUME NEW m, NEW n, n = Multiple(m, {0})
      PROVE  gf_mult(n, x) = Multiple(m, x)
  <2> DEFINE q(i) == Passed(m, x, i)
  <2>1. [p |-> {}, a |-> n, b |-> x] = q(0)
    <3>1. {j \in x : j < 0} = {} /\ {j \in 0..7 : j + 0 \in x} = x
      BY <1>0
    <3>2. Multiple(m, {}) = {}
      BY MultipleFacts
    <3>3. q(0) = [ p |-> Multiple(m, {j \in x : j < 0}), a |-> Multiple(m, {0}),
                   b |-> {j \in 0..7 : j + 0 \in x} ]
      BY DEF Passed
    <3> HIDE DEF q
    <3> QED BY <1>1, <3>1, <3>2, <3>3
  <2>2. q(8).p = Multiple(m, x)
    <3>1. {j \in x : j < 8} = x
      BY <1>0
    <3> QED BY <3>1 DEF Passed
  <2>3. \A i \in 0..7 : GfStep[q(i)] = q(i + 1)
    BY Pass
  <2> HIDE DEF q
  <2>4. /\ GfStep[q(0)] = q(1) /\ GfStep[q(1)] = q(2) /\ GfStep[q(2)] = q(3) /\ GfStep[q(3)] = q(4)
        /\ GfStep[q(4)] = q(5) /\ GfStep[q(5)] = q(6) /\ GfStep[q(6)] = q(7) /\ GfStep[q(7)] = q(8)
    BY <2>3
  <2> QED BY <2>1, <2>2, <2>4 DEF gf_mult
<1>2. Multiple(2, {0}) = {1} /\ Multiple(3, {0}) = {0, 1}
  <2>1. aes_xtime({0}) = {1}
    BY XtimeFacts
  <2>2. {1} ^^ {0} = {0, 1}
    BY DEF ^^
  <2> QED BY <2>1, <2>2 DEF Multiple
<1>3. Multiple(2, x) = aes_xtime(x) /\ Multiple(3, x) = aes_xtime(x) ^^ x
  BY DEF Multiple
<1> QED BY <1>1, <1>2, <1>3
-----------------------------------------------------------------------------
(* Words and their bytes.                                                  *)
LEMMA FourBytes ==
  ASSUME NEW b0, NEW b1, NEW b2, NEW b3
  PROVE  /\ <<b0, b1, b2, b3>>[1] = b0 /\ <<b0, b1, b2, b3>>[2] = b1
         /\ <<b0, b1, b2, b3>>[3] = b2 /\ <<b0, b1, b2, b3>>[4] = b3
         /\ b0 \in Byte /\ b1 \in Byte /\ b2 \in Byte /\ b3 \in Byte => <<b0, b1, b2, b3>> \in Word
  BY DEF Word

(* Exclusive or of words, byte by byte.                                    *)
LEMMA WordXor ==
  ASSUME NEW v \in Word, NEW w \in Word
  PROVE  /\ XorW(v, w) \in Word
         /\ \A r \in 1..4 : XorW(v, w)[r] = v[r] ^^ w[r]
<1>1. \A r \in 1..4 : v[r] \in Byte /\ w[r] \in Byte /\ v[r] ^^ w[r] \in Byte
  BY XorFacts DEF Word
<1>2. XorW(v, w) = <<v[1] ^^ w[1], v[2] ^^ w[2], v[3] ^^ w[3], v[4] ^^ w[4]>>
  BY DEF XorW, WordOf
<1> QED BY <1>1, <1>2, FourBytes

(* Byte r of column c is byte 4c + r of the array.                         *)
LEMMA Arrays ==
  ASSUME NEW c \in Column, NEW r \in 0..3
  PROVE  /\ 4 * c + r + 1 \in Bytes16
         /\ \A q : AsBytes(q)[4 * c + r + 1] = q[c][r + 1]
         /\ \A b : AsQuad(b)[c] = <<b[4 * c + 1], b[4 * c + 2], b[4 * c + 3], b[4 * c + 4]>>
<1>1. 4 * c + r + 1 \in Bytes16 /\ (4 * c + r + 1 - 1) \div 4 = c /\ (4 * c + r + 1 - 1) % 4 = r
  BY DEF Column, Bytes16
<1>2. ASSUME NEW q
      PROVE  AsBytes(q)[4 * c + r + 1] = q[c][r + 1]
  <2> DEFINE i == 4 * c + r + 1
  <2>1. i \in Bytes16 /\ (i - 1) \div 4 = c /\ (i - 1) % 4 = r
    BY DEF Column, Bytes16
  <2> HIDE DEF i
  <2>2. AsBytes(q)[i] = q[c][r + 1]
    BY <2>1 DEF AsBytes
  <2> QED BY <2>2 DEF i
<1>3. ASSUME NEW b
      PROVE  AsQuad(b)[c] = <<b[4 * c + 1], b[4 * c + 2], b[4 * c + 3], b[4 * c + 4]>>
  <2>1. /\ 4 * c + 0 + 1 = 4 * c + 1 /\ 4 * c + 1 + 1 = 4 * c + 2
        /\ 4 * c + 2 + 1 = 4 * c + 3 /\ 4 * c + 3 + 1 = 4 * c + 4
    BY DEF Column
  <2> QED BY <2>1 DEF AsQuad, WordOf
<1> QED BY <1>1, <1>2, <1>3
-----------------------------------------------------------------------------
(* ---- the rounds ------------------------------------------------------- *)
(* Column c after SubBytes and ShiftRows.                                  *)
Shifted(s, c) ==
  << aes_sbox(s[c][1]), aes_sbox(s[(c + 1) % 4][2]),
     aes_sbox(s[(c + 2) % 4][3]), aes_sbox(s[(c + 3) % 4][4]) >>

(* MixColumns of a column <<a, b, c, d>>.                                  *)
Mixed(a, b, c, d) ==
  << (aes_xtime(a) ^^ (aes_xtime(b) ^^ b)) ^^ (c ^^ d),
     (aes_xtime(b) ^^ (aes_xtime(c) ^^ c)) ^^ (d ^^ a),
     (aes_xtime(c) ^^ (aes_xtime(d) ^^ d)) ^^ (a ^^ b),
     (aes_xtime(d) ^^ (aes_xtime(a) ^^ a)) ^^ (b ^^ c) >>

(* What a round in mode m makes of column c, before the round key.         *)
RoundColumn(m, s, c) ==
  LET w == Shifted(s, c) IN IF m = 1 THEN w ELSE Mixed(w[1], w[2], w[3], w[4])

(* ShiftRows reads columns of the state.                                   *)
LEMMA Wiring ==
  ASSUME NEW c \in Column
  PROVE  (c + 0) % 4 = c /\ \A j \in 0..3 : (c + j) % 4 \in Column
BY DEF Column

(* What SubBytes makes of the wires of ShiftRows.                          *)
LEMMA ShiftedWord ==
  ASSUME NEW s \in Quads, NEW c \in Column
  PROVE  /\ Shifted(s, c) \in Word
         /\ SubWord(ShiftRow(s)[c]) = Shifted(s, c)
<1>1. /\ s[c] \in Word /\ s[(c + 1) % 4] \in Word
      /\ s[(c + 2) % 4] \in Word /\ s[(c + 3) % 4] \in Word
  BY Wiring DEF Quads
<1>2. /\ s[c][1] \in Byte /\ s[(c + 1) % 4][2] \in Byte
      /\ s[(c + 2) % 4][3] \in Byte /\ s[(c + 3) % 4][4] \in Byte
  BY <1>1 DEF Word
<1>3. Shifted(s, c) \in Word
  BY <1>2, ByteFacts, FourBytes DEF Shifted
<1>4. ShiftRow(s)[c] = <<s[c][1], s[(c + 1) % 4][2], s[(c + 2) % 4][3], s[(c + 3) % 4][4]>>
  BY Wiring DEF ShiftRow, WordOf
<1>5. SubWord(ShiftRow(s)[c]) = Shifted(s, c)
  BY <1>4 DEF SubWord, WordOf, Shifted
<1> QED BY <1>3, <1>5

(* The column mixer, written out.                                          *)
LEMMA MixColumnWord ==
  ASSUME NEW t \in Word
  PROVE  MixColumn(t) = Mixed(t[1], t[2], t[3], t[4])
BY DEF MixColumn, WordOf, Mixed

(* It makes four bytes of four.                                            *)
LEMMA MixedWord ==
  ASSUME NEW t \in Word
  PROVE  Mixed(t[1], t[2], t[3], t[4]) \in Word
<1>1. t[1] \in Byte /\ t[2] \in Byte /\ t[3] \in Byte /\ t[4] \in Byte
  BY DEF Word
<1>0. \A x, y \in Byte : x ^^ y \in Byte
  BY XorFacts
<1>2. ASSUME NEW a \in Byte, NEW b \in Byte, NEW c \in Byte, NEW d \in Byte
      PROVE  (aes_xtime(a) ^^ (aes_xtime(b) ^^ b)) ^^ (c ^^ d) \in Byte
  <2>1. aes_xtime(a) \in Byte /\ aes_xtime(b) \in Byte
    BY ByteFacts
  <2> QED BY <1>0, <2>1
<1> DEFINE e(a, b, c, d) == (aes_xtime(a) ^^ (aes_xtime(b) ^^ b)) ^^ (c ^^ d)
<1>3. /\ e(t[1], t[2], t[3], t[4]) \in Byte /\ e(t[2], t[3], t[4], t[1]) \in Byte
      /\ e(t[3], t[4], t[1], t[2]) \in Byte /\ e(t[4], t[1], t[2], t[3]) \in Byte
  BY <1>1, <1>2
<1>4. Mixed(t[1], t[2], t[3], t[4]) =
        << e(t[1], t[2], t[3], t[4]), e(t[2], t[3], t[4], t[1]),
           e(t[3], t[4], t[1], t[2]), e(t[4], t[1], t[2], t[3]) >>
  BY DEF Mixed
<1> HIDE DEF e
<1> QED BY <1>3, <1>4, FourBytes

(* A round of the state unit, column by column.                            *)
LEMMA UnitRound ==
  ASSUME NEW s \in Quads, NEW k \in Quads, NEW m \in {0, 1}
  PROVE  /\ next_state(m, s, k) = [c \in Column |-> XorW(RoundColumn(m, s, c), k[c])]
         /\ \A c \in Column : RoundColumn(m, s, c) \in Word
         /\ next_state(m, s, k) \in Quads
<1>1. \A c \in Column : RoundColumn(m, s, c) \in Word
  BY ShiftedWord, MixedWord DEF RoundColumn
<1>2. ASSUME NEW c \in Column
      PROVE  PostRound(m, s)[c] = RoundColumn(m, s, c)
  <2>1. SubWord(ShiftRow(s)[c]) = Shifted(s, c) /\ Shifted(s, c) \in Word
    BY ShiftedWord
  <2>2. CASE m = 1
    BY <2>1, <2>2 DEF PostRound, RoundColumn
  <2>3. CASE m = 0
    BY <2>1, <2>3, MixColumnWord DEF PostRound, RoundColumn
  <2> QED BY <2>2, <2>3
<1>3. next_state(m, s, k) = [c \in Column |-> XorW(RoundColumn(m, s, c), k[c])]
  BY <1>2 DEF next_state
<1>4. \A c \in Column : XorW(RoundColumn(m, s, c), k[c]) \in Word
  BY <1>1, WordXor DEF Quads
<1> QED BY <1>1, <1>3, <1>4 DEF Quads

(* The sources of shift_rows are the wires of ShiftRow.                    *)
LEMMA ShiftRowsWiring ==
  ASSUME NEW c \in Column, NEW r \in 0..3
  PROVE  ShiftSource[4 * c + r + 1] = 4 * ((c + r) % 4) + r
<1>1. CASE c = 0
  BY <1>1 DEF ShiftSource
<1>2. CASE c = 1
  BY <1>2 DEF ShiftSource
<1>3. CASE c = 2
  BY <1>3 DEF ShiftSource
<1>4. CASE c = 3
  BY <1>4 DEF ShiftSource
<1> QED BY <1>1, <1>2, <1>3, <1>4 DEF Column

(* The three chains of assignments of shift_rows read the same bytes.      *)
LEMMA ShiftedArray ==
  ASSUME NEW s, NEW c \in Column, NEW r \in 0..3
  PROVE  shift_rows(sub_bytes(AsBytes(s)))[4 * c + r + 1] = aes_sbox(s[(c + r) % 4][r + 1])
<1> DEFINE i == 4 * c + r + 1
           j == 4 * ((c + r) % 4) + r + 1
<1>1. (c + r) % 4 \in Column
  BY Wiring
<1>2. i \in Bytes16 /\ j \in Bytes16 /\ AsBytes(s)[j] = s[(c + r) % 4][r + 1]
  BY <1>1, Arrays
<1>3. ShiftSource[i] + 1 = j
  BY ShiftRowsWiring
<1> HIDE DEF i, j
<1>4. sub_bytes(AsBytes(s))[j] = aes_sbox(AsBytes(s)[j])
  BY <1>2 DEF sub_bytes
<1>5. shift_rows(sub_bytes(AsBytes(s)))[i] = sub_bytes(AsBytes(s))[j]
  BY <1>2, <1>3 DEF shift_rows
<1> QED BY <1>2, <1>4, <1>5 DEF i

(* The bytes of a column that mix_columns makes.                           *)
LEMMA MixedArray ==
  ASSUME NEW b, NEW c \in Column, NEW w \in Word,
         \A r \in 0..3 : b[4 * c + r + 1] = w[r + 1],
         NEW r \in 0..3
  PROVE  mix_columns(b)[4 * c + r + 1] = Mixed(w[1], w[2], w[3], w[4])[r + 1]
<1> DEFINE i == 4 * c + r + 1
<1>1. i \in Bytes16 /\ (i - 1) % 4 = r /\ i - 1 - r = 4 * c
  BY DEF Column, Bytes16
<1>2. b[4 * c + 1] = w[1] /\ b[4 * c + 2] = w[2] /\ b[4 * c + 3] = w[3] /\ b[4 * c + 4] = w[4]
  BY DEF Column
<1>3. \A n \in 1..4 : times(1, w[n]) = w[n] /\ times(2, w[n]) = aes_xtime(w[n])
                      /\ times(3, w[n]) = aes_xtime(w[n]) ^^ w[n]
  BY GfMultiples DEF times, Word
<1> HIDE DEF i
<1>4. mix_columns(b)[i] =
        LET m == MixCoef[r + 1]
        IN  (times(m[1], w[1]) ^^ times(m[2], w[2])) ^^ (times(m[3], w[3]) ^^ times(m[4], w[4]))
  BY <1>1, <1>2 DEF mix_columns
<1>5. \A x, y, z, v : (x ^^ y) ^^ (z ^^ v) = (y ^^ z) ^^ (v ^^ x)
                      /\ (x ^^ y) ^^ (z ^^ v) = (z ^^ v) ^^ (x ^^ y)
                      /\ (x ^^ y) ^^ (z ^^ v) = (v ^^ x) ^^ (y ^^ z)
  BY DEF ^^
<1>6. CASE r = 0
  BY <1>3, <1>4, <1>6 DEF MixCoef, Mixed, i
<1>7. CASE r = 1
  BY <1>3, <1>4, <1>5, <1>7 DEF MixCoef, Mixed, i
<1>8. CASE r = 2
  BY <1>3, <1>4, <1>5, <1>8 DEF MixCoef, Mixed, i
<1>9. CASE r = 3
  BY <1>3, <1>4, <1>5, <1>9 DEF MixCoef, Mixed, i
<1> QED BY <1>6, <1>7, <1>8, <1>9

(* The array b holds the bytes of the register p.                          *)
SameBytes(b, p) == \A c \in Column, r \in 0..3 : b[4 * c + r + 1] = p[c][r + 1]

(* AddRoundKey on the arrays, read back as words.                          *)
LEMMA KeyedArray ==
  ASSUME NEW k \in Quads, NEW b, NEW p \in Quads, SameBytes(b, p)
  PROVE  AsQuad(add_round_key(b, AsBytes(k))) = [c \in Column |-> XorW(p[c], k[c])]
<1> DEFINE sum == add_round_key(b, AsBytes(k))
<1>1. ASSUME NEW c \in Column, NEW r \in 0..3
      PROVE  sum[4 * c + r + 1] = XorW(p[c], k[c])[r + 1]
  <2>1. /\ 4 * c + r + 1 \in Bytes16 /\ AsBytes(k)[4 * c + r + 1] = k[c][r + 1]
    BY Arrays
  <2>2. sum[4 * c + r + 1] = p[c][r + 1] ^^ k[c][r + 1]
    BY <2>1 DEF add_round_key, SameBytes
  <2>3. p[c] \in Word /\ k[c] \in Word /\ r + 1 \in 1..4
    BY DEF Quads
  <2>4. XorW(p[c], k[c])[r + 1] = p[c][r + 1] ^^ k[c][r + 1]
    BY <2>3, WordXor
  <2> QED BY <2>2, <2>4
<1> HIDE DEF sum
<1>2. ASSUME NEW c \in Column
      PROVE  AsQuad(sum)[c] = XorW(p[c], k[c])
  <2> DEFINE v == XorW(p[c], k[c])
  <2>1. v \in Word
    BY WordXor DEF Quads
  <2>2. AsQuad(sum)[c] = <<sum[4 * c + 1], sum[4 * c + 2], sum[4 * c + 3], sum[4 * c + 4]>>
    BY Arrays
  <2>3. sum[4 * c + 1] = v[1] /\ sum[4 * c + 2] = v[2] /\ sum[4 * c + 3] = v[3] /\ sum[4 * c + 4] = v[4]
    <3>1. /\ 4 * c + 0 + 1 = 4 * c + 1 /\ 4 * c + 1 + 1 = 4 * c + 2
          /\ 4 * c + 2 + 1 = 4 * c + 3 /\ 4 * c + 3 + 1 = 4 * c + 4
      BY DEF Column
    <3> QED BY <1>1, <3>1
  <2> HIDE DEF v
  <2>4. <<v[1], v[2], v[3], v[4]>> = v
    BY <2>1 DEF Word
  <2> QED BY <2>2, <2>3, <2>4 DEF v
<1>3. AsQuad(sum) = [c \in Column |-> AsQuad(sum)[c]]
  BY DEF AsQuad
<1> QED BY <1>2, <1>3 DEF sum

(* A round of the reference is a round of the state unit.                  *)
LEMMA ReferenceRound ==
  ASSUME NEW s \in Quads, NEW k \in Quads, NEW n \in 1..10
  PROVE  SoftwareRound(s, k, n) = next_state(IF n < 10 THEN 0 ELSE 1, s, k)
<1> DEFINE m == IF n < 10 THEN 0 ELSE 1
           shifted == shift_rows(sub_bytes(AsBytes(s)))
           mixed   == IF n < 10 THEN mix_columns(shifted) ELSE shifted
           p       == [c \in Column |-> RoundColumn(m, s, c)]
<1>1. ASSUME NEW c \in Column, NEW r \in 0..3
      PROVE  mixed[4 * c + r + 1] = RoundColumn(m, s, c)[r + 1]
  <2> DEFINE w == Shifted(s, c)
  <2>1. \A j \in 0..3 : shifted[4 * c + j + 1] = w[j + 1]
    <3> SUFFICES ASSUME NEW j \in 0..3 PROVE shifted[4 * c + j + 1] = w[j + 1]
      OBVIOUS
    <3>1. shifted[4 * c + j + 1] = aes_sbox(s[(c + j) % 4][j + 1])
      BY ShiftedArray
    <3>2. w[j + 1] = aes_sbox(s[(c + j) % 4][j + 1])
      BY Wiring DEF Shifted
    <3> HIDE DEF shifted, w
    <3> QED BY <3>1, <3>2
  <2>2. w \in Word
    BY ShiftedWord
  <2> HIDE DEF shifted
  <2>3. CASE n < 10
    <3>1. mix_columns(shifted)[4 * c + r + 1] = Mixed(w[1], w[2], w[3], w[4])[r + 1]
      <4> HIDE DEF w
      <4> QED BY <2>1, <2>2, MixedArray
    <3> QED BY <2>3, <3>1 DEF RoundColumn
  <2>4. CASE ~(n < 10)
    BY <2>1, <2>4 DEF RoundColumn
  <2> QED BY <2>3, <2>4
<1> HIDE DEF mixed, m
<1>2. p \in Quads /\ \A c \in Column : p[c] = RoundColumn(m, s, c)
  BY UnitRound DEF Quads, m
<1>3. AsQuad(add_round_key(mixed, AsBytes(k))) = [c \in Column |-> XorW(p[c], k[c])]
  <2>1. SameBytes(mixed, p)
    BY <1>1, <1>2 DEF SameBytes
  <2> HIDE DEF p
  <2> QED BY <1>2, <2>1, KeyedArray
<1>4. SoftwareRound(s, k, n) = AsQuad(add_round_key(mixed, AsBytes(k)))
  BY DEF SoftwareRound, mixed
<1>5. next_state(m, s, k) = [c \in Column |-> XorW(RoundColumn(m, s, c), k[c])]
  BY UnitRound DEF m
<1> QED BY <1>2, <1>3, <1>4, <1>5 DEF m

(* The whitening, on the arrays and on the words.                          *)
LEMMA InitialRoundAgrees ==
  ASSUME NEW t \in Quads, NEW k \in Quads
  PROVE  /\ next_state(2, t, k) = AsQuad(add_round_key(AsBytes(t), AsBytes(k)))
         /\ next_state(2, t, k) = add_round_key_words(t, k)
         /\ next_state(2, t, k) \in Quads
<1>1. next_state(2, t, k) = [c \in Column |-> XorW(t[c], k[c])]
  BY DEF next_state, PostRound
<1>2. SameBytes(AsBytes(t), t)
  BY Arrays DEF SameBytes
<1>3. AsQuad(add_round_key(AsBytes(t), AsBytes(k))) = [c \in Column |-> XorW(t[c], k[c])]
  BY <1>2, KeyedArray
<1>4. [c \in Column |-> XorW(t[c], k[c])] \in Quads
  BY WordXor DEF Quads
<1> QED BY <1>1, <1>3, <1>4 DEF add_round_key_words

(* A round of the byte instructions: the word that one of them adds.       *)
Spread(m, x) == IF m = 1 THEN <<x, {}, {}, {}>> ELSE <<aes_xtime(x), x, x, aes_xtime(x) ^^ x>>

(* The rotations of the byte instructions.                                 *)
LEMMA RotLeftWords ==
  ASSUME NEW a, NEW b, NEW c, NEW d
  PROVE  /\ RotLeft(<<a, b, c, d>>, 0) = <<a, b, c, d>>
         /\ RotLeft(<<a, b, c, d>>, 1) = <<d, a, b, c>>
         /\ RotLeft(<<a, b, c, d>>, 2) = <<c, d, a, b>>
         /\ RotLeft(<<a, b, c, d>>, 3) = <<b, c, d, a>>
BY DEF RotLeft, WordOf

(* A byte instruction adds its spread byte, rotated into place.            *)
LEMMA Spreading ==
  ASSUME NEW u, NEW v, NEW j \in 0..3
  PROVE  /\ aes32esmi(u, v, j) = XorW(u, RotLeft(Spread(0, aes_sbox(v[j + 1])), j))
         /\ aes32esi(u, v, j) = XorW(u, RotLeft(Spread(1, aes_sbox(v[j + 1])), j))
<1>1. [Zero32 EXCEPT ![1] = aes_sbox(v[j + 1])] = <<aes_sbox(v[j + 1]), {}, {}, {}>>
  BY DEF Zero32, WordOf
<1>2. aes32esmi(u, v, j) = XorW(u, RotLeft(Spread(0, aes_sbox(v[j + 1])), j))
  BY DEF aes32esmi, Spread
<1>3. aes32esi(u, v, j) = XorW(u, RotLeft(Spread(1, aes_sbox(v[j + 1])), j))
  <2>1. Spread(1, aes_sbox(v[j + 1])) = <<aes_sbox(v[j + 1]), {}, {}, {}>>
    BY DEF Spread
  <2> QED BY <1>1, <2>1 DEF aes32esi
<1> QED BY <1>2, <1>3

(* Four instructions leave a column of the round.                          *)
LEMMA FourSpreads ==
  ASSUME NEW k \in Word, NEW w \in Word, NEW m \in {0, 1}
  PROVE  XorW(XorW(XorW(XorW(k, RotLeft(Spread(m, w[1]), 0)), RotLeft(Spread(m, w[2]), 1)),
                   RotLeft(Spread(m, w[3]), 2)), RotLeft(Spread(m, w[4]), 3))
         = XorW(IF m = 1 THEN w ELSE Mixed(w[1], w[2], w[3], w[4]), k)
<1>1. ASSUME NEW a0, NEW a1, NEW a2, NEW a3, NEW b0, NEW b1, NEW b2, NEW b3
      PROVE  XorW(<<a0, a1, a2, a3>>, <<b0, b1, b2, b3>>)
             = <<a0 ^^ b0, a1 ^^ b1, a2 ^^ b2, a3 ^^ b3>>
  BY DEF XorW, WordOf
<1>2. k = <<k[1], k[2], k[3], k[4]>> /\ w = <<w[1], w[2], w[3], w[4]>>
  BY DEF Word
<1>3. CASE m = 0
  <2>1. \A x : Spread(m, x) = <<aes_xtime(x), x, x, aes_xtime(x) ^^ x>>
    BY <1>3 DEF Spread
  <2>2. ASSUME NEW z, NEW a, NEW b, NEW x, NEW y
        PROVE  /\ (((z ^^ x) ^^ y) ^^ a) ^^ b = ((x ^^ y) ^^ (a ^^ b)) ^^ z
               /\ (((z ^^ a) ^^ x) ^^ y) ^^ b = ((x ^^ y) ^^ (b ^^ a)) ^^ z
               /\ (((z ^^ a) ^^ b) ^^ x) ^^ y = ((x ^^ y) ^^ (a ^^ b)) ^^ z
               /\ (((z ^^ y) ^^ a) ^^ b) ^^ x = ((x ^^ y) ^^ (a ^^ b)) ^^ z
    BY DEF ^^
  <2> DEFINE d(i) == aes_xtime(w[i])
             t(i) == aes_xtime(w[i]) ^^ w[i]
  <2>3. /\ RotLeft(Spread(m, w[1]), 0) = <<d(1), w[1], w[1], t(1)>>
        /\ RotLeft(Spread(m, w[2]), 1) = <<t(2), d(2), w[2], w[2]>>
        /\ RotLeft(Spread(m, w[3]), 2) = <<w[3], t(3), d(3), w[3]>>
        /\ RotLeft(Spread(m, w[4]), 3) = <<w[4], w[4], t(4), d(4)>>
    BY <2>1, RotLeftWords
  <2>4. Mixed(w[1], w[2], w[3], w[4]) =
          << (d(1) ^^ t(2)) ^^ (w[3] ^^ w[4]), (d(2) ^^ t(3)) ^^ (w[4] ^^ w[1]),
             (d(3) ^^ t(4)) ^^ (w[1] ^^ w[2]), (d(4) ^^ t(1)) ^^ (w[2] ^^ w[3]) >>
    BY DEF Mixed
  <2> HIDE DEF d, t
  <2>5. XorW(k, RotLeft(Spread(m, w[1]), 0)) = <<k[1] ^^ d(1), k[2] ^^ w[1], k[3] ^^ w[1], k[4] ^^ t(1)>>
    BY <1>1, <1>2, <2>3
  <2>6. XorW(XorW(k, RotLeft(Spread(m, w[1]), 0)), RotLeft(Spread(m, w[2]), 1))
        = << (k[1] ^^ d(1)) ^^ t(2), (k[2] ^^ w[1]) ^^ d(2),
             (k[3] ^^ w[1]) ^^ w[2], (k[4] ^^ t(1)) ^^ w[2] >>
    BY <1>1, <2>3, <2>5
  <2>7. XorW(XorW(XorW(k, RotLeft(Spread(m, w[1]), 0)), RotLeft(Spread(m, w[2]), 1)),
             RotLeft(Spread(m, w[3]), 2))
        = << ((k[1] ^^ d(1)) ^^ t(2)) ^^ w[3], ((k[2] ^^ w[1]) ^^ d(2)) ^^ t(3),
             ((k[3] ^^ w[1]) ^^ w[2]) ^^ d(3), ((k[4] ^^ t(1)) ^^ w[2]) ^^ w[3] >>
    BY <1>1, <2>3, <2>6
  <2>8. XorW(XorW(XorW(XorW(k, RotLeft(Spread(m, w[1]), 0)), RotLeft(Spread(m, w[2]), 1)),
                  RotLeft(Spread(m, w[3]), 2)), RotLeft(Spread(m, w[4]), 3))
        = << (((k[1] ^^ d(1)) ^^ t(2)) ^^ w[3]) ^^ w[4], (((k[2] ^^ w[1]) ^^ d(2)) ^^ t(3)) ^^ w[4],
             (((k[3] ^^ w[1]) ^^ w[2]) ^^ d(3)) ^^ t(4), (((k[4] ^^ t(1)) ^^ w[2]) ^^ w[3]) ^^ d(4) >>
    BY <1>1, <2>3, <2>7
  <2>9. XorW(Mixed(w[1], w[2], w[3], w[4]), k)
        = << ((d(1) ^^ t(2)) ^^ (w[3] ^^ w[4])) ^^ k[1], ((d(2) ^^ t(3)) ^^ (w[4] ^^ w[1])) ^^ k[2],
             ((d(3) ^^ t(4)) ^^ (w[1] ^^ w[2])) ^^ k[3], ((d(4) ^^ t(1)) ^^ (w[2] ^^ w[3])) ^^ k[4] >>
    BY <1>1, <1>2, <2>4
  <2> QED BY <1>3, <2>2, <2>8, <2>9
<1>4. CASE m = 1
  <2> DEFINE o == {}
  <2>1. \A x : Spread(m, x) = <<x, o, o, o>>
    BY <1>4 DEF Spread
  <2>2. \A z, x : (((z ^^ x) ^^ o) ^^ o) ^^ o = x ^^ z
                  /\ (((z ^^ o) ^^ x) ^^ o) ^^ o = x ^^ z
                  /\ (((z ^^ o) ^^ o) ^^ x) ^^ o = x ^^ z
                  /\ (((z ^^ o) ^^ o) ^^ o) ^^ x = x ^^ z
    BY DEF ^^
  <2>3. /\ RotLeft(Spread(m, w[1]), 0) = <<w[1], o, o, o>>
        /\ RotLeft(Spread(m, w[2]), 1) = <<o, w[2], o, o>>
        /\ RotLeft(Spread(m, w[3]), 2) = <<o, o, w[3], o>>
        /\ RotLeft(Spread(m, w[4]), 3) = <<o, o, o, w[4]>>
    BY <2>1, RotLeftWords
  <2> HIDE DEF o
  <2>4. XorW(k, RotLeft(Spread(m, w[1]), 0)) = <<k[1] ^^ w[1], k[2] ^^ o, k[3] ^^ o, k[4] ^^ o>>
    BY <1>1, <1>2, <2>3
  <2>5. XorW(XorW(k, RotLeft(Spread(m, w[1]), 0)), RotLeft(Spread(m, w[2]), 1))
        = << (k[1] ^^ w[1]) ^^ o, (k[2] ^^ o) ^^ w[2], (k[3] ^^ o) ^^ o, (k[4] ^^ o) ^^ o >>
    BY <1>1, <2>3, <2>4
  <2>6. XorW(XorW(XorW(k, RotLeft(Spread(m, w[1]), 0)), RotLeft(Spread(m, w[2]), 1)),
             RotLeft(Spread(m, w[3]), 2))
        = << ((k[1] ^^ w[1]) ^^ o) ^^ o, ((k[2] ^^ o) ^^ w[2]) ^^ o,
             ((k[3] ^^ o) ^^ o) ^^ w[3], ((k[4] ^^ o) ^^ o) ^^ o >>
    BY <1>1, <2>3, <2>5
  <2>7. XorW(XorW(XorW(XorW(k, RotLeft(Spread(m, w[1]), 0)), RotLeft(Spread(m, w[2]), 1)),
                  RotLeft(Spread(m, w[3]), 2)), RotLeft(Spread(m, w[4]), 3))
        = << (((k[1] ^^ w[1]) ^^ o) ^^ o) ^^ o, (((k[2] ^^ o) ^^ w[2]) ^^ o) ^^ o,
             (((k[3] ^^ o) ^^ o) ^^ w[3]) ^^ o, (((k[4] ^^ o) ^^ o) ^^ o) ^^ w[4] >>
    BY <1>1, <2>3, <2>6
  <2>8. XorW(w, k) = <<w[1] ^^ k[1], w[2] ^^ k[2], w[3] ^^ k[3], w[4] ^^ k[4]>>
    BY <1>1, <1>2
  <2> QED BY <1>4, <2>2, <2>7, <2>8
<1> QED BY <1>3, <1>4

(* A round of the byte instructions is a round of the state unit.          *)
LEMMA InstructionRound ==
  ASSUME NEW s \in Quads, NEW k \in Quads, NEW n \in 1..10
  PROVE  BytewiseRound(s, k, n) = next_state(IF n < 10 THEN 0 ELSE 1, s, k)
<1> DEFINE m == IF n < 10 THEN 0 ELSE 1
           insn(u, v, j) == IF n < 10 THEN aes32esmi(u, v, j) ELSE aes32esi(u, v, j)
           four(c) == XorW(XorW(XorW(XorW(k[c], RotLeft(Spread(m, Shifted(s, c)[1]), 0)),
                                     RotLeft(Spread(m, Shifted(s, c)[2]), 1)),
                                RotLeft(Spread(m, Shifted(s, c)[3]), 2)),
                           RotLeft(Spread(m, Shifted(s, c)[4]), 3))
<1>1. ASSUME NEW c \in Column
      PROVE  four(c) = XorW(RoundColumn(m, s, c), k[c])
  <2>1. k[c] \in Word /\ Shifted(s, c) \in Word /\ m \in {0, 1}
    BY ShiftedWord DEF Quads
  <2> QED BY <2>1, FourSpreads DEF RoundColumn
<1>2. ASSUME NEW c \in Column
      PROVE  /\ n < 10 => Chain(aes32esmi, k[c], s, c) = four(c)
             /\ ~(n < 10) => Chain(aes32esi, k[c], s, c) = four(c)
  <2>1. /\ Shifted(s, c)[1] = aes_sbox(s[c][0 + 1]) /\ Shifted(s, c)[2] = aes_sbox(s[(c + 1) % 4][1 + 1])
        /\ Shifted(s, c)[3] = aes_sbox(s[(c + 2) % 4][2 + 1])
        /\ Shifted(s, c)[4] = aes_sbox(s[(c + 3) % 4][3 + 1])
    BY DEF Shifted
  <2>2. CASE n < 10
    BY <2>1, <2>2, Spreading DEF Chain
  <2>3. CASE ~(n < 10)
    BY <2>1, <2>3, Spreading DEF Chain
  <2> QED BY <2>2, <2>3
<1> HIDE DEF four
<1>3. BytewiseRound(s, k, n) = [c \in Column |-> four(c)]
  BY <1>2 DEF BytewiseRound, aes_inner_round, aes_final_round
<1>4. next_state(m, s, k) = [c \in Column |-> XorW(RoundColumn(m, s, c), k[c])]
  BY UnitRound
<1> QED BY <1>1, <1>3, <1>4

(* ---- the key schedule ------------------------------------------------- *)
LEMMA UnitExpansion ==
  ASSUME NEW k \in Quads, NEW w, NEW n \in 0..9,
         \A i \in 5..44 : w[i] = ExpandWord(w, i), KeyWords(w, n) = k
  PROVE  KeyWords(w, n + 1) = next_krk(k, n) /\ next_krk(k, n) \in Quads
<1> DEFINE i == 4 * n + 5
<1>1. w[i - 4] = k[0] /\ w[i - 3] = k[1] /\ w[i - 2] = k[2] /\ w[i - 1] = k[3]
  BY DEF KeyWords, Column
<1>2. /\ i \in 5..44 /\ i + 1 \in 5..44 /\ i + 2 \in 5..44 /\ i + 3 \in 5..44
      /\ i % 4 = 1 /\ (i + 1) % 4 # 1 /\ (i + 2) % 4 # 1 /\ (i + 3) % 4 # 1 /\ i \div 4 = n + 1
  OBVIOUS
<1>3. rcon[n + 1] = RconTable[n + 1]
  BY DEF rcon, RconTable
<1> DEFINE temp == << aes_sbox(k[3][2]) ^^ aes_rcon(n), aes_sbox(k[3][3]),
                      aes_sbox(k[3][4]), aes_sbox(k[3][1]) >>
           n0 == XorW(k[0], temp)
           n1 == XorW(k[1], n0)
           n2 == XorW(k[2], n1)
           n3 == XorW(k[3], n2)
<1>4. next_krk(k, n) = [c \in Column |-> <<n0, n1, n2, n3>>[c + 1]]
  <2> DEFINE sub == <<aes_sbox(k[3][2]), aes_sbox(k[3][3]), aes_sbox(k[3][4]), aes_sbox(k[3][1])>>
  <2>1. WordOf(LAMBDA r : aes_sbox(k[3][((r + 1) % 4) + 1])) = sub
    BY DEF WordOf
  <2>2. [sub EXCEPT ![1] = @ ^^ aes_rcon(n)] = temp
    OBVIOUS
  <2> HIDE DEF sub, temp
  <2> QED BY <2>1, <2>2 DEF next_krk
<1>5. n0 \in Word /\ n1 \in Word /\ n2 \in Word /\ n3 \in Word
  <2>1. k[0] \in Word /\ k[1] \in Word /\ k[2] \in Word /\ k[3] \in Word
    BY DEF Quads, Column
  <2>2. aes_rcon(n) \in Byte
    BY ByteFacts DEF aes_rcon
  <2>3. temp \in Word
    <3>1. k[3][1] \in Byte /\ k[3][2] \in Byte /\ k[3][3] \in Byte /\ k[3][4] \in Byte
      BY <2>1 DEF Word
    <3> QED BY <2>2, <3>1, ByteFacts, XorFacts, FourBytes
  <2> HIDE DEF temp
  <2> QED BY <2>1, <2>3, WordXor
<1>6. w[i] = n0
  <2>1. w[i] = XorW(w[i - 4], << aes_sbox(w[i - 1][2]) ^^ Bits(rcon[i \div 4]), aes_sbox(w[i - 1][3]),
                                 aes_sbox(w[i - 1][4]), aes_sbox(w[i - 1][1]) >>)
    <3> HIDE DEF i
    <3> QED BY <1>2 DEF ExpandWord
  <2> HIDE DEF i
  <2> QED BY <1>1, <1>2, <1>3, <2>1 DEF aes_rcon
<1> HIDE DEF n0
<1>7. w[i + 1] = n1 /\ w[i + 2] = n2 /\ w[i + 3] = n3
  <2>1. /\ w[i + 1] = XorW(w[i + 1 - 4], w[i + 1 - 1]) /\ w[i + 2] = XorW(w[i + 2 - 4], w[i + 2 - 1])
        /\ w[i + 3] = XorW(w[i + 3 - 4], w[i + 3 - 1])
    <3> HIDE DEF i
    <3> QED BY <1>2 DEF ExpandWord
  <2>2. i + 1 - 4 = i - 3 /\ i + 2 - 4 = i - 2 /\ i + 3 - 4 = i - 1
        /\ i + 1 - 1 = i /\ i + 2 - 1 = i + 1 /\ i + 3 - 1 = i + 2
    OBVIOUS
  <2> HIDE DEF i
  <2> QED BY <1>1, <1>6, <2>1, <2>2
<1>8. KeyWords(w, n + 1) = [c \in Column |-> <<n0, n1, n2, n3>>[c + 1]]
  <2>1. \A c \in Column : w[4 * (n + 1) + c + 1] = <<n0, n1, n2, n3>>[c + 1]
    <3>1. /\ 4 * (n + 1) + 0 + 1 = i /\ 4 * (n + 1) + 1 + 1 = i + 1
          /\ 4 * (n + 1) + 2 + 1 = i + 2 /\ 4 * (n + 1) + 3 + 1 = i + 3
      OBVIOUS
    <3> HIDE DEF i, n1, n2, n3
    <3> QED BY <1>6, <1>7, <3>1 DEF Column
  <2> HIDE DEF i, n1, n2, n3
  <2> QED BY <2>1 DEF KeyWords
<1>9. \A c \in Column : <<n0, n1, n2, n3>>[c + 1] \in Word
  <2> HIDE DEF n1, n2, n3
  <2> QED BY <1>5 DEF Column
<1> QED BY <1>4, <1>8, <1>9 DEF Quads
-----------------------------------------------------------------------------
(* ---- the accelerator and the software --------------------------------- *)
(* The ten expansions of the key, on the fly and in advance.               *)
LEMMA ScheduleOf ==
  ASSUME NEW k \in Keys, NEW n \in 0..10
  PROVE  RoundKey(k, n) = KeyWords(round_keys(k), n) /\ RoundKey(k, n) \in Quads
<1> DEFINE P(i) == RoundKey(k, i) = KeyWords(round_keys(k), i) /\ RoundKey(k, i) \in Quads
<1>1. P(0)
  <2>1. RoundKey(k, 0) = k /\ k \in Quads
    BY CipherAssumption, DatapathAssumption
  <2>2. \A c \in Column : round_keys(k)[c + 1] = k[c]
    BY SoftwareAssumption DEF IsExpansion
  <2>3. KeyWords(round_keys(k), 0) = [c \in Column |-> k[c]]
    BY <2>2 DEF KeyWords, Column
  <2> QED BY <2>1, <2>3 DEF Quads
<1>2. ASSUME NEW i \in 0..9, P(i)
      PROVE  P(i + 1)
  <2>1. RoundKey(k, i + 1) = ExpandKey(RoundKey(k, i), i)
    <3>1. i + 1 \in 1..10 /\ i + 1 - 1 = i
      OBVIOUS
    <3> QED BY <3>1, CipherAssumption
  <2>2. ExpandKey(RoundKey(k, i), i) = next_krk(RoundKey(k, i), i)
    BY DatapathAssumption
  <2>3. \A j \in 5..44 : round_keys(k)[j] = ExpandWord(round_keys(k), j)
    BY SoftwareAssumption DEF IsExpansion
  <2>4. /\ KeyWords(round_keys(k), i + 1) = next_krk(RoundKey(k, i), i)
        /\ next_krk(RoundKey(k, i), i) \in Quads
    BY <1>2, <2>3, UnitExpansion
  <2> QED BY <2>1, <2>2, <2>4
<1>3. \A i \in 0..9 : P(i) => P(i + 1)
  BY <1>2
<1> HIDE DEF P
<1>4. P(1) /\ P(2) /\ P(3) /\ P(4) /\ P(5)
  <2>1. (P(0) => P(1)) /\ (P(1) => P(2)) /\ (P(2) => P(3)) /\ (P(3) => P(4)) /\ (P(4) => P(5))
    BY <1>3
  <2> QED BY <1>1, <2>1
<1>5. P(6) /\ P(7) /\ P(8) /\ P(9) /\ P(10)
  <2>1. (P(5) => P(6)) /\ (P(6) => P(7)) /\ (P(7) => P(8)) /\ (P(8) => P(9)) /\ (P(9) => P(10))
    BY <1>3
  <2> QED BY <1>4, <2>1
<1>6. P(n)
  BY <1>1, <1>4, <1>5
<1> QED BY <1>6 DEF P

(* The ten rounds of the three implementations, and the whitening.         *)
LEMMA StateOf ==
  ASSUME NEW k \in Keys, NEW t \in Texts, NEW n \in 0..10
  PROVE  /\ CipherState(k, t, n) = ReferenceState(k, t, n)
         /\ CipherState(k, t, n) = BytewiseState(k, t, n)
<1> DEFINE P(i) == /\ CipherState(k, t, i) = ReferenceState(k, t, i)
                   /\ CipherState(k, t, i) = BytewiseState(k, t, i)
                   /\ CipherState(k, t, i) \in Quads
<1>1. P(0)
  <2>1. k \in Quads /\ t \in Quads /\ CipherState(k, t, 0) = next_state(2, t, k)
    BY CipherAssumption, DatapathAssumption
  <2>2. /\ ReferenceState(k, t, 0) = AsQuad(add_round_key(AsBytes(t), AsBytes(k)))
        /\ BytewiseState(k, t, 0) = add_round_key_words(t, k)
    BY SoftwareAssumption
  <2> QED BY <2>1, <2>2, InitialRoundAgrees
<1>2. ASSUME NEW i \in 0..9, P(i)
      PROVE  P(i + 1)
  <2> DEFINE j == i + 1
             m == IF j < 10 THEN 0 ELSE 1
             s == CipherState(k, t, i)
             rk == RoundKey(k, j)
  <2>1. j \in 1..10 /\ j - 1 = i /\ m \in {0, 1} /\ (j \in 1..9 => m = 0) /\ (j = 10 => m = 1)
    OBVIOUS
  <2>2. rk = KeyWords(round_keys(k), j) /\ rk \in Quads
    <3>1. j \in 0..10
      OBVIOUS
    <3> HIDE DEF j
    <3> QED BY <3>1, ScheduleOf
  <2> HIDE DEF j
  <2>3. CipherState(k, t, j) = RoundStep(m, s, rk)
    <3>1. CASE j \in 1..9
      BY <2>1, <3>1, CipherAssumption
    <3>2. CASE j = 10
      BY <2>1, <3>2, CipherAssumption
    <3> QED BY <2>1, <3>1, <3>2
  <2>4. RoundStep(m, s, rk) = next_state(m, s, rk)
    BY <2>1, DatapathAssumption
  <2>5. /\ ReferenceState(k, t, j) = SoftwareRound(s, rk, j)
        /\ BytewiseState(k, t, j) = BytewiseRound(s, rk, j)
    BY <1>2, <2>1, <2>2, SoftwareAssumption
  <2>6. s \in Quads
    BY <1>2
  <2>7. SoftwareRound(s, rk, j) = next_state(m, s, rk) /\ BytewiseRound(s, rk, j) = next_state(m, s, rk)
    <3> HIDE DEF s, rk
    <3> QED BY <2>1, <2>2, <2>6, ReferenceRound, InstructionRound DEF m
  <2>8. next_state(m, s, rk) \in Quads
    <3> HIDE DEF s, rk, m
    <3> QED BY <2>1, <2>2, <2>6, UnitRound
  <2>9. P(j)
    BY <2>3, <2>4, <2>5, <2>7, <2>8
  <2> QED BY <2>9 DEF j
<1>3. \A i \in 0..9 : P(i) => P(i + 1)
  BY <1>2
<1> HIDE DEF P
<1>4. P(1) /\ P(2) /\ P(3) /\ P(4) /\ P(5)
  <2>1. (P(0) => P(1)) /\ (P(1) => P(2)) /\ (P(2) => P(3)) /\ (P(3) => P(4)) /\ (P(4) => P(5))
    BY <1>3
  <2> QED BY <1>1, <2>1
<1>5. P(6) /\ P(7) /\ P(8) /\ P(9) /\ P(10)
  <2>1. (P(5) => P(6)) /\ (P(6) => P(7)) /\ (P(7) => P(8)) /\ (P(8) => P(9)) /\ (P(9) => P(10))
    BY <1>3
  <2> QED BY <1>4, <2>1
<1>6. P(n)
  BY <1>1, <1>4, <1>5
<1> QED BY <1>6 DEF P

(* The key unit, in terms of main.c.                                       *)
LEMMA InvSchedules == EncryptInv => SchedulesAgree
<1> SUFFICES ASSUME EncryptInv, status = "running"
             PROVE  /\ pc = "kse" => krk = KeyWords(round_keys(call.key), step - 1)
                    /\ pc = "rnd" => krk = KeyWords(round_keys(call.key), step)
  BY DEF SchedulesAgree
<1>1. call.key \in Keys /\ (pc \in {"kse", "rnd"} => step \in 1..10)
  BY DEF EncryptInv, EncryptTypeOK
<1>2. \A n \in 0..10 : RoundKey(call.key, n) = KeyWords(round_keys(call.key), n)
  BY <1>1, ScheduleOf
<1>3. pc = "kse" => step - 1 \in 0..10 /\ krk = RoundKey(call.key, step - 1)
  BY <1>1 DEF EncryptInv, KeyInStep
<1>4. pc = "rnd" => step \in 0..10 /\ krk = RoundKey(call.key, step)
  BY <1>1 DEF EncryptInv, KeyInStep
<1> QED BY <1>2, <1>3, <1>4

(* The state unit, in terms of main.c.                                     *)
LEMMA InvStates == EncryptInv => StatesAgree
<1> SUFFICES ASSUME EncryptInv, status = "running", 16 * block < call.len, pc \in {"kse", "rnd", "strd"}
             PROVE  /\ st = ReferenceState(call.key, asked[block], rounds)
                    /\ st = BytewiseState(call.key, asked[block], rounds)
  BY DEF StatesAgree
<1>1. call.key \in Keys /\ asked[block] \in Texts
  BY RunningBlock DEF Running
<1>2. rounds \in 0..10 /\ st = CipherState(call.key, asked[block], rounds)
  BY DEF EncryptInv, EncryptTypeOK, StateInStep, Cipher, rounds
<1> QED BY <1>1, <1>2, StateOf

(* The schedule that the key unit makes on the fly is the one that         *)
(* expand_key (main.c:36) makes in advance, for every key, in whatever     *)
(* block or call, after whatever reset: ks.sv:142-171 with its Rcon        *)
(* counter.                                                                *)
THEOREM SchedulesAgreeHolds == EncryptSpec => []SchedulesAgree
<1> QED BY EncryptInvariance, InvSchedules, PTL

(* After every round the state unit holds what the byte-array functions    *)
(* and the byte instructions of main.c make of the same key and text, for  *)
(* every key and every text.                                               *)
THEOREM StatesAgreeHolds == EncryptSpec => []StatesAgree
<1> QED BY EncryptInvariance, InvStates, PTL

(* What the caller finds on return is what the byte-array reference would  *)
(* have written, in place or not.                                          *)
THEOREM ReferenceOnReturn ==
  EncryptSpec => [](status = "returned" =>
    \A b \in Blocks, c \in Idx : 16 * b < call.len =>
      mem[<<call.out, b, c>>] = ReferenceState(call.key, asked[b], 10)[c])
<1> DEFINE Written == status = "returned" =>
      \A b \in Blocks, c \in Idx : 16 * b < call.len =>
        mem[<<call.out, b, c>>] = ReferenceState(call.key, asked[b], 10)[c]
<1>1. EncryptInv /\ CiphertextOnReturn => Written
  <2> SUFFICES ASSUME EncryptInv, CiphertextOnReturn, status = "returned",
                      NEW b \in Blocks, NEW c \in Idx, 16 * b < call.len
               PROVE  mem[<<call.out, b, c>>] = ReferenceState(call.key, asked[b], 10)[c]
    OBVIOUS
  <2>1. call.key \in Keys /\ asked[b] \in Texts
    BY DEF EncryptInv, EncryptTypeOK
  <2>2. CipherState(call.key, asked[b], 10) = ReferenceState(call.key, asked[b], 10)
    BY <2>1, StateOf
  <2> QED BY <2>2 DEF CiphertextOnReturn, Cipher
<1> HIDE DEF Written
<1>2. EncryptSpec => []Written
  BY <1>1, EncryptInvariance, CiphertextOnReturnHolds, PTL
<1> QED BY <1>2 DEF Written

(* The shift of the state unit (state.sv), the one of tcutils.c and        *)
(* gf_mult by two are the same function of a byte, and gf_mult by three    *)
(* adds the byte to it.                                                    *)
THEOREM TimesTwo ==
  \A x \in Byte : /\ gf_mult({1}, x) = aes_xtime(x) /\ double_byte(x) = aes_xtime(x)
                  /\ gf_mult({0, 1}, x) = aes_xtime(x) ^^ x
<1>1. \A x \in Byte : double_byte(x) = aes_xtime(x)
  <2> SUFFICES ASSUME NEW x \in Byte PROVE double_byte(x) = aes_xtime(x)
    OBVIOUS
  <2>1. {i \in h1b : 7 \in x} = IF 7 \in x THEN h1b ELSE {}
    OBVIOUS
  <2> QED BY <2>1 DEF double_byte, aes_xtime
<1> QED BY <1>1, GfMultiples

-----------------------------------------------------------------------------
(* ---- a block on the pipelined stage ------------------------------------ *)
(* The results are a sequence, of words that nothing else is known of.     *)
ResultsSeq == \E W : results \in Seq(W)
BInv == HInv /\ ResultsSeq /\ BlockInStep

LEMMA AppendResult ==
  ASSUME ResultsSeq, NEW x
  PROVE  LET r == Append(results, x)
         IN  /\ \E W : r \in Seq(W)
             /\ Len(r) = Len(results) + 1 /\ Len(results) \in Nat
             /\ r[Len(results) + 1] = x
             /\ \A i \in 1..Len(results) : r[i] = results[i]
<1>1. PICK W : results \in Seq(W)
  BY DEF ResultsSeq
<1>2. results \in Seq(W \cup {x}) /\ x \in W \cup {x}
  BY <1>1
<1> QED BY <1>2

(* What a clock edge does to the history: an instruction of it is          *)
(* performed, or none is; what was handed over stays.                      *)
LEMMA HistoryStep ==
  ASSUME HInv, [Next]_vars
  PROVE  /\ done \in Nat /\ \A m \in 1..done : issued'[m] = issued[m]
         /\ \/ UNCHANGED <<krk, rcnt, st, done, results>>
            \/ /\ done' = done + 1
               /\ issued'[done + 1] = issued[done + 1]
               /\ InOrder!Perform(issued[done + 1])
<1>0. done \in Nat /\ issued \in Seq(AnyOp) /\ done <= Len(issued)
  BY DEF HInv, IInv, TypeOK, ExactlyOnce
<1>1. [InOrder!Next]_(InOrder!vars)
  BY RefinementStep
<1>2. issued' = issued \/ \E i : issued' = Append(issued, i)
  BY <1>1 DEF InOrder!Next, InOrder!vars, InOrder!HandOver, InOrder!Execute, InOrder!ExecuteAndHandOver
<1>3. \A m \in 1..Len(issued) : issued'[m] = issued[m]
  BY <1>0, <1>2
<1>4. CASE ~InOrder!Idle /\ InOrder!Perform(issued[done + 1])
  <2>1. done + 1 \in 1..Len(issued)
    BY <1>0, <1>4 DEF InOrder!Idle
  <2> QED BY <1>0, <1>3, <1>4, <2>1 DEF InOrder!Perform
<1>5. CASE UNCHANGED <<krk, rcnt, st, done, results>>
  BY <1>0, <1>3, <1>5
<1> QED BY <1>1, <1>4, <1>5
    DEF InOrder!Next, InOrder!vars, InOrder!HandOver, InOrder!Execute, InOrder!ExecuteAndHandOver

(* The j-th instruction of a block follows the j - 1 before it.            *)
LEMMA PerformedStep ==
  ASSUME HInv, [Next]_vars, NEW k, NEW t, NEW j \in 1..33, Performed(k, t, j)'
  PROVE  \/ Performed(k, t, j) /\ UNCHANGED <<krk, rcnt, st, results>>
         \/ Performed(k, t, j - 1) /\ InOrder!Perform(EncryptBlock(k, t)[j])
<1>1. /\ j <= done'
      /\ \A i \in 1..j : issued'[done' - j + i] = EncryptBlock(k, t)[i]
  BY DEF Performed
<1>2. /\ done \in Nat /\ \A m \in 1..done : issued'[m] = issued[m]
  BY HistoryStep
<1>3. CASE UNCHANGED <<krk, rcnt, st, done, results>>
  <2>1. \A i \in 1..j : done - j + i \in 1..done
    BY <1>1, <1>2, <1>3
  <2>2. Performed(k, t, j)
    BY <1>1, <1>2, <1>3, <2>1 DEF Performed
  <2> QED BY <1>3, <2>2
<1>4. CASE /\ done' = done + 1
           /\ issued'[done + 1] = issued[done + 1]
           /\ InOrder!Perform(issued[done + 1])
  <2>1. \A i \in 1..(j - 1) : /\ done - (j - 1) + i \in 1..done
                              /\ done - (j - 1) + i = done' - j + i /\ i \in 1..j
    BY <1>1, <1>2, <1>4
  <2>2. Performed(k, t, j - 1)
    <3>1. j - 1 <= done
      BY <1>1, <1>2, <1>4
    <3>2. ASSUME NEW i \in 1..(j - 1) 
          PROVE issued[done - (j - 1) + i] = EncryptBlock(k, t)[i]
      BY <1>1, <1>2, <2>1
    <3> QED BY <3>1, <3>2 DEF Performed
  <2>3. issued'[done' - j + j] = EncryptBlock(k, t)[j] /\ done' - j + j = done + 1
    BY <1>1, <1>2, <1>4
  <2> QED BY <1>4, <2>2, <2>3
<1> QED BY <1>3, <1>4, HistoryStep

(* The abstract specification performs an instruction as the units do.     *)
LEMMA SamePerform ==
  ASSUME NEW i, InOrder!Perform(i)
  PROVE  /\ Commit(i)
         /\ results' = IF i.op \in {"ksrd", "strd"} THEN Append(results, ReadPort(i)) ELSE results
<1>1. InOrder!KeyExpand(i) => KeyExpand(i)
  BY DEF KeyExpand, InOrder!KeyExpand, ExpandKey, InOrder!ExpandKey, Idx, InOrder!Idx
<1>2. InOrder!Round(i) => Round(i)
  BY DEF Round, InOrder!Round, RoundStep, InOrder!RoundStep, Idx, InOrder!Idx
<1>3. (InOrder!KeyLoad(i) \/ InOrder!StateLoad(i) \/ InOrder!NoUnitChange(i))
         => (KeyLoad(i) \/ StateLoad(i) \/ NoUnitChange(i))
  BY DEF KeyLoad, InOrder!KeyLoad, StateLoad, InOrder!StateLoad, NoUnitChange, InOrder!NoUnitChange,
         unitVars, InOrder!unitVars
<1> QED BY <1>1, <1>2, <1>3 DEF InOrder!Perform, Commit, InOrder!Commit, ReadPort, InOrder!ReadPort

(* What the units do for the instruction of each class.                    *)
LEMMA CommitByOp ==
  ASSUME NEW i, Commit(i)
  PROVE  /\ i.op = "ksld" => KeyLoad(i)
         /\ i.op = "kse"  => KeyExpand(i)
         /\ i.op = "stld" => StateLoad(i)
         /\ i.op = "rnd"  => Round(i)
         /\ i.op \in {"ksrd", "strd"} => UNCHANGED <<krk, rcnt, st>>
BY DEF Commit, KeyLoad, KeyExpand, StateLoad, Round, NoUnitChange, unitVars

(* One more instruction of a block takes the units one step further.       *)
LEMMA UnitsStep ==
  ASSUME HInv, ResultsSeq, NEW k \in Keys, NEW t \in Texts, NEW j \in 1..33,
         UnitsAfter(k, t, j - 1), InOrder!Perform(EncryptBlock(k, t)[j])
  PROVE  UnitsAfter(k, t, j)'
<1> DEFINE i == EncryptBlock(k, t)[j]
<1>0. Quad(krk) /\ Quad(st) /\ Quad(k) /\ Quad(t) /\ rcnt \in 0..15
  BY CipherAssumption DEF HInv, IInv, TypeOK
<1>1. /\ Commit(i)
      /\ results' = IF i.op \in {"ksrd", "strd"} THEN Append(results, ReadPort(i)) ELSE results
  BY SamePerform
<1>2. /\ j \in 1..4   => i.op = "stld" /\ i.idx = j - 1 /\ i.w = t[j - 1]
      /\ j \in 5..8   => i.op = "ksld" /\ i.idx = j - 5 /\ i.w = k[j - 5]
      /\ j = 9        => i.op = "rnd" /\ i.idx = 2
      /\ j \in 10..29 => IF j % 2 = 0 THEN i.op = "kse"
                         ELSE i.op = "rnd" /\ i.idx = IF j < 29 THEN 0 ELSE 1
      /\ j \in 30..33 => i.op = "strd" /\ i.idx = j - 30
  <2>1. /\ j \in 1..4   => i = Insn("stld", j - 1, t[j - 1])
        /\ j \in 5..8   => i = Insn("ksld", j - 5, k[j - 5])
        /\ j = 9        => i = Insn("rnd", 2, ZeroWord)
        /\ j \in 10..29 => i = IF j % 2 = 0 THEN Insn("kse", 0, ZeroWord)
                               ELSE Insn("rnd", IF j < 29 THEN 0 ELSE 1, ZeroWord)
        /\ j \in 30..33 => i = Insn("strd", j - 30, ZeroWord)
    BY BlockInstruction
  <2> HIDE DEF i
  <2> QED BY <2>1 DEF Insn
<1>3. /\ i.op = "ksld" => KeyLoad(i)
      /\ i.op = "kse"  => KeyExpand(i)
      /\ i.op = "stld" => StateLoad(i)
      /\ i.op = "rnd"  => Round(i)
      /\ i.op \in {"ksrd", "strd"} => UNCHANGED <<krk, rcnt, st>>
  BY <1>1, CommitByOp
<1> HIDE DEF i
<1>4. CASE j \in 1..4
  <2>1. st' = [st EXCEPT ![j - 1] = t[j - 1]]
    BY <1>2, <1>3, <1>4 DEF StateLoad
  <2>2. TextLoaded(t, j - 1)
    BY <1>4 DEF UnitsAfter
  <2>3. TextLoaded(t, j)'
    BY <1>0, <1>4, <2>1, <2>2 DEF TextLoaded, Quad, Idx
  <2> QED BY <1>4, <2>3 DEF UnitsAfter
<1>5. CASE j \in 5..8
  <2>1. krk' = [krk EXCEPT ![j - 5] = k[j - 5]] /\ rcnt' = 0 /\ st' = st
    BY <1>2, <1>3, <1>5 DEF KeyLoad
  <2>2. TextLoaded(t, j - 1) /\ (j > 5 => KeySeeded(k, j - 5))
    BY <1>5 DEF UnitsAfter
  <2>3. TextLoaded(t, j)'
    BY <1>5, <2>1, <2>2 DEF TextLoaded, Idx
  <2>4. KeySeeded(k, j - 4)'
    BY <1>0, <1>5, <2>1, <2>2 DEF KeySeeded, Quad, Idx
  <2> QED BY <1>5, <2>3, <2>4 DEF UnitsAfter
<1>6. CASE j = 9
  <2>1. st' = RoundStep(2, st, krk) /\ UNCHANGED <<krk, rcnt>>
    BY <1>2, <1>3, <1>6 DEF Round
  <2>2. TextLoaded(t, 8) /\ KeySeeded(k, 4)
    BY <1>6 DEF UnitsAfter
  <2>3. st = t /\ krk = k /\ rcnt = 0
    BY <1>0, <2>2, QuadEq DEF TextLoaded, KeySeeded, Idx
  <2>4. KeyAt(k, 0)' /\ st' = CipherState(k, t, 0)
    BY <2>1, <2>3, CipherAssumption DEF KeyAt
  <2> QED BY <1>6, <2>4 DEF UnitsAfter
<1>7. CASE j \in 10..29 /\ j % 2 = 0
  <2>0. PICK n \in 1..10 : j = 2 * n + 8
    <3>1. (j - 8) \div 2 \in 1..10 /\ j = 2 * ((j - 8) \div 2) + 8
      BY <1>7
    <3> QED BY <3>1
  <2>1. krk' = ExpandKey(krk, rcnt) /\ rcnt' = (rcnt + 1) % 16 /\ st' = st
    BY <1>2, <1>3, <1>7 DEF KeyExpand
  <2>2. KeyAt(k, n - 1) /\ st = CipherState(k, t, n - 1)
    <3>1. j - 1 \in 9..29 /\ (j - 1 - 8) \div 2 = n - 1 /\ (j - 1 - 9) \div 2 = n - 1
      BY <2>0
    <3> QED BY <3>1 DEF UnitsAfter
  <2>3. KeyAt(k, n)' /\ st' = CipherState(k, t, n - 1)
    BY <2>1, <2>2, CipherAssumption DEF KeyAt
  <2>4. (j - 8) \div 2 = n /\ (j - 9) \div 2 = n - 1
    BY <2>0
  <2> QED BY <1>7, <2>3, <2>4 DEF UnitsAfter
<1>8. CASE j \in 10..29 /\ j % 2 # 0
  <2>0. PICK n \in 1..10 : j = 2 * n + 9
    <3>1. (j - 9) \div 2 \in 1..10 /\ j = 2 * ((j - 9) \div 2) + 9
      BY <1>8
    <3> QED BY <3>1
  <2>1. st' = RoundStep(IF n < 10 THEN 0 ELSE 1, st, krk) /\ UNCHANGED <<krk, rcnt>>
    BY <1>2, <1>3, <1>8, <2>0 DEF Round
  <2>2. KeyAt(k, n) /\ st = CipherState(k, t, n - 1)
    <3>1. j - 1 \in 9..29 /\ (j - 1 - 8) \div 2 = n /\ (j - 1 - 9) \div 2 = n - 1
      BY <2>0
    <3> QED BY <3>1 DEF UnitsAfter
  <2>3. KeyAt(k, n)' /\ st' = CipherState(k, t, n)
    BY <2>1, <2>2, CipherAssumption DEF KeyAt
  <2>4. (j - 8) \div 2 = n /\ (j - 9) \div 2 = n /\ (j >= 29 => n = 10)
    BY <1>8, <2>0
  <2>5. j >= 29 => st' = Cipher(k, t)
    BY <2>3, <2>4 DEF Cipher
  <2>6. j \notin 5..8 /\ ~(j <= 8) /\ ~(j >= 30)
    BY <1>8
  <2> QED BY <2>3, <2>4, <2>5, <2>6 DEF UnitsAfter
<1>9. CASE j \in 30..33
  <2>1. st = Cipher(k, t) /\ (j > 30 => CipherRead(k, t, j - 30))
    BY <1>9 DEF UnitsAfter
  <2>2. st' = st /\ results' = Append(results, Cipher(k, t)[j - 30])
    BY <1>1, <1>2, <1>3, <1>9, <2>1 DEF ReadPort
  <2>3. /\ Len(results') = Len(results) + 1 /\ Len(results) \in Nat
        /\ results'[Len(results) + 1] = Cipher(k, t)[j - 30]
        /\ \A m \in 1..Len(results) : results'[m] = results[m]
    BY <2>2, AppendResult
  <2>4. /\ Len(results) >= j - 30
        /\ \A m \in 1..(j - 30) : results[Len(results) - (j - 30) + m] = Cipher(k, t)[m - 1]
    BY <1>9, <2>1, <2>3 DEF CipherRead, LastResults
  <2>5. ASSUME NEW m \in 1..(j - 29)
        PROVE  results'[Len(results') - (j - 29) + m] = Cipher(k, t)[m - 1]
    <3>1. CASE m = j - 29
      BY <1>9, <2>3, <3>1
    <3>2. CASE m \in 1..(j - 30)
      <4>1. Len(results') - (j - 29) + m = Len(results) - (j - 30) + m
        BY <1>9, <2>3, <3>2
      <4>2. Len(results) - (j - 30) + m \in 1..Len(results)
        BY <1>9, <2>3, <2>4, <3>2
      <4> QED BY <2>3, <2>4, <3>2, <4>1, <4>2
    <3> QED BY <1>9, <3>1, <3>2
  <2>6. Len(results') >= j - 29
    BY <1>9, <2>3, <2>4
  <2>7. CipherRead(k, t, j - 29)'
    BY <1>9, <2>5, <2>6 DEF CipherRead, LastResults
  <2> QED BY <1>9, <2>1, <2>2, <2>7 DEF UnitsAfter
<1> QED BY <1>4, <1>5, <1>6, <1>7, <1>8, <1>9

(* Nothing is known before the first instruction of a block.               *)
LEMMA BlockStep == BInv /\ [Next]_vars => BInv'
<1> SUFFICES ASSUME BInv, [Next]_vars PROVE BInv'
  OBVIOUS
<1>1. HInv'
  BY NextHInv DEF BInv
<1>2. ResultsSeq'
  <2>1. UNCHANGED results \/ \E x : results' = Append(results, x)
    BY HistoryStep DEF BInv, InOrder!Perform
  <2> QED BY <2>1, AppendResult DEF BInv, ResultsSeq
<1>3. ASSUME NEW k \in Keys, NEW t \in Texts, NEW j \in 0..33, Performed(k, t, j)'
      PROVE  UnitsAfter(k, t, j)'
  <2>1. CASE j = 0
    BY <2>1 DEF UnitsAfter, TextLoaded, Idx
  <2>2. CASE j \in 1..33 /\ Performed(k, t, j) /\ UNCHANGED <<krk, rcnt, st, results>>
    <3>1. UnitsAfter(k, t, j)
      BY <1>3, <2>2 DEF BInv, BlockInStep
    <3> QED BY <2>2, <3>1 DEF UnitsAfter, TextLoaded, KeySeeded, KeyAt, CipherRead, LastResults
  <2>3. CASE j \in 1..33 /\ Performed(k, t, j - 1) /\ InOrder!Perform(EncryptBlock(k, t)[j])
    <3>1. UnitsAfter(k, t, j - 1)
      BY <1>3, <2>3 DEF BInv, BlockInStep
    <3> QED BY <2>3, <3>1, UnitsStep DEF BInv
  <2> QED BY <1>3, <2>1, <2>2, <2>3, PerformedStep DEF BInv
<1> QED BY <1>1, <1>2, <1>3 DEF BInv, BlockInStep

LEMMA InitBlock == Init => BInv
<1> SUFFICES ASSUME Init PROVE BInv
  OBVIOUS
<1>1. results \in Seq({}) /\ done = 0
  BY DEF Init
<1>2. ASSUME NEW k \in Keys, NEW t \in Texts, NEW j \in 0..33, Performed(k, t, j)
      PROVE  UnitsAfter(k, t, j)
  <2>1. j = 0
    BY <1>1, <1>2 DEF Performed
  <2> QED BY <2>1 DEF UnitsAfter, TextLoaded, Idx
<1> QED BY <1>1, <1>2, InitHInv DEF BInv, ResultsSeq, BlockInStep

(* The pipelined stage computes the blocks that it is given: the 33        *)
(* instructions of aes128_encrypt_block (main.c:213-254), handed over      *)
(* after any others and performed between any stalls, bubbles and other    *)
(* instructions, read the ciphertext out of the units.                     *)
THEOREM BlockEncryptsHolds == Spec => []BlockEncrypts
<1>1. BInv => BlockEncrypts
  <2> SUFFICES ASSUME BInv, NEW k \in Keys, NEW t \in Texts, Performed(k, t, 33)
               PROVE  LastResults(4) = [i \in 1..4 |-> Cipher(k, t)[i - 1]]
    BY DEF BlockEncrypts
  <2>1. UnitsAfter(k, t, 33)
    BY DEF BInv, BlockInStep
  <2>2. CipherRead(k, t, 4)
    BY <2>1 DEF UnitsAfter
  <2> QED BY <2>2 DEF CipherRead, LastResults
<1> QED BY <1>1, InitBlock, BlockStep, PTL DEF Spec

(* Four words of ciphertext as the byte-array functions would write them.  *)
ReadsReference ==
  \A k \in Keys, t \in Texts :
    Performed(k, t, 33) => LastResults(4) = [i \in 1..4 |-> ReferenceState(k, t, 10)[i - 1]]

(* With the data path of the units, what the stage reads is the result of  *)
(* the byte-array functions of main.c.                                     *)
THEOREM StageComputesReference == Spec => []ReadsReference
<1>1. ASSUME NEW k \in Keys, NEW t \in Texts PROVE Cipher(k, t) = ReferenceState(k, t, 10)
  BY StateOf DEF Cipher
<1>2. BlockEncrypts => ReadsReference
  BY <1>1 DEF BlockEncrypts, ReadsReference
<1> QED BY <1>2, BlockEncryptsHolds, PTL
==============================================================================
