-------------------------- MODULE DataBram_proofs --------------------------
(***************************************************************************)
(* Proofs about DataBram, for any memory size, any contents, any mix of    *)
(* accesses and any read latencies: the bridge and the RAM behind it are a *)
(* memory that keeps the protocol of the bus, so that the accesses of the  *)
(* load-store unit are in order and undivided on them too.                 *)
(***************************************************************************)
EXTENDS DataBram, TLAPS

(* What is known of the load-store unit on any memory that keeps the       *)
(* protocol, for the answers that this bridge owes.                        *)
Lsu == INSTANCE DataBus_proofs WITH pending <- Pending

(* ---- the unit, here and there ------------------------------------------ *)
LEMMA LsuAssumptions ==
  /\ Words \in Nat \ {0} /\ NoData \notin Lsu!Value
  /\ Lsu!NoInstr \in Instructions /\ Instructions \subseteq Lsu!Instruction
  /\ Contents \subseteq Lsu!Memories
<1>1. Words \in Nat \ {0} /\ NoData \notin Lsu!Value
  BY DataWordsAssumption, NoDataAssumption DEF Lsu!Value, Value, Lsu!Lanes, Lanes, Lsu!Bytes, Bytes
<1>2. Lsu!NoInstr \in Instructions /\ Instructions \subseteq Lsu!Instruction
  BY InstructionsAssumption
  DEF Lsu!NoInstr, NoInstr, Lsu!Zeros, Zeros, Lsu!Instruction, Instruction, Lsu!Word, Word,
      Lsu!Lanes, Lanes, Lsu!Value, Value, Lsu!Bytes, Bytes, Lsu!Splits, Splits
<1>3. Contents \subseteq Lsu!Memories
  BY ContentsAssumption
  DEF Lsu!Memories, Memories, Lsu!Word, Word, Lsu!Value, Value, Lsu!Lanes, Lanes, Lsu!Bytes, Bytes
<1> QED BY <1>1, <1>2, <1>3

LEMMA SameSets ==
  /\ Lsu!Lanes = Lanes /\ Lsu!Value = Value /\ Lsu!Word = Word /\ Lsu!Memories = Memories
  /\ Lsu!Instruction = Instruction /\ Lsu!Zeros = Zeros /\ Lsu!NoInstr = NoInstr
  /\ Lsu!DEPTH = DEPTH
<1>1. Lsu!Lanes = Lanes /\ Lsu!Value = Value /\ Lsu!Word = Word
  BY DEF Lsu!Lanes, Lanes, Lsu!Value, Value, Lsu!Bytes, Bytes, Lsu!Word, Word
<1>2. Lsu!Memories = Memories /\ Lsu!Zeros = Zeros
  BY <1>1 DEF Lsu!Memories, Memories, Lsu!Zeros, Zeros
<1>3. Lsu!Instruction = Instruction
  BY <1>1 DEF Lsu!Instruction, Instruction, Lsu!Splits, Splits
<1>4. Lsu!NoInstr = NoInstr /\ Lsu!DEPTH = DEPTH
  BY <1>2 DEF Lsu!NoInstr, NoInstr, Lsu!DEPTH, DEPTH
<1> QED BY <1>1, <1>2, <1>3, <1>4

LEMMA SameRequest ==
  /\ Lsu!IsAccess(ex) <=> IsAccess(ex)
  /\ Lsu!trans_valid <=> trans_valid
  /\ Lsu!trans_we <=> trans_we
  /\ Lsu!trans_word = trans_word /\ Lsu!trans_be = trans_be /\ Lsu!trans_wdata = trans_wdata
  /\ Lsu!data_misaligned_o <=> data_misaligned_o
<1>1. (Lsu!IsAccess(ex) <=> IsAccess(ex)) /\ (Lsu!trans_we <=> trans_we)
  BY DEF Lsu!IsAccess, IsAccess, Lsu!trans_we, trans_we
<1>2. Lsu!trans_valid <=> trans_valid
  BY <1>1, SameSets DEF Lsu!trans_valid, trans_valid
<1>3. Lsu!trans_word = trans_word /\ Lsu!trans_be = trans_be /\ Lsu!trans_wdata = trans_wdata
  BY SameSets DEF Lsu!trans_word, trans_word, Lsu!trans_be, trans_be, Lsu!trans_wdata, trans_wdata
<1>4. Lsu!data_misaligned_o <=> data_misaligned_o
  BY <1>1 DEF Lsu!data_misaligned_o, data_misaligned_o
<1> QED BY <1>1, <1>2, <1>3, <1>4

LEMMA SameHandshakes ==
  ASSUME NEW g, NEW r
  PROVE  /\ Lsu!count_up(g) <=> count_up(g)
         /\ Lsu!lsu_ready_wb(r) <=> lsu_ready_wb(r)
         /\ Lsu!lsu_ready_ex(g, r) <=> lsu_ready_ex(g, r)
         /\ Lsu!ex_valid(g, r) <=> ex_valid(g, r)
         /\ Lsu!ex_ready(g, r) <=> ex_ready(g, r)
         /\ Lsu!IdMoves(g, r) <=> IdMoves(g, r)
         /\ Lsu!Finishes(r) <=> Finishes(r)
         /\ Lsu!next_cnt(g, r) = next_cnt(g, r)
<1>1. Lsu!count_up(g) <=> count_up(g)
  BY SameRequest DEF Lsu!count_up, count_up
<1>2. /\ Lsu!lsu_ready_wb(r) <=> lsu_ready_wb(r)
      /\ Lsu!lsu_ready_ex(g, r) <=> lsu_ready_ex(g, r)
  BY <1>1, SameRequest DEF Lsu!lsu_ready_wb, lsu_ready_wb, Lsu!lsu_ready_ex, lsu_ready_ex
<1>3. Lsu!ex_valid(g, r) <=> ex_valid(g, r)
  BY <1>2 DEF Lsu!ex_valid, ex_valid
<1>4. Lsu!ex_ready(g, r) <=> ex_ready(g, r)
  BY <1>3 DEF Lsu!ex_ready, ex_ready
<1>5. Lsu!IdMoves(g, r) <=> IdMoves(g, r)
  BY <1>4, SameRequest DEF Lsu!IdMoves, IdMoves
<1>6. (Lsu!Finishes(r) <=> Finishes(r)) /\ Lsu!next_cnt(g, r) = next_cnt(g, r)
  BY <1>1 DEF Lsu!Finishes, Finishes, Lsu!next_cnt, next_cnt
<1> QED BY <1>1, <1>2, <1>3, <1>4, <1>5, <1>6

LEMMA SameData == \A d : Lsu!data_rdata_ext(d) = data_rdata_ext(d)
  BY DEF Lsu!data_rdata_ext, data_rdata_ext, Lsu!Extended, Extended, Lsu!Gathered, Gathered,
         Lsu!Fill, Fill, Lsu!Lanes, Lanes

(* One cycle of the unit, whatever it is told of the word that answers a   *)
(* write, or of the word there is when nothing is answered.                *)
LEMMA SameCycle ==
  ASSUME NEW g, NEW r \in BOOLEAN, NEW d, NEW e, NEW next,
         data_we_q \in BOOLEAN, regfile_we_lsu \in BOOLEAN,
         LsuCycle(g, r, d, next),
         r => d = e \/ (data_we_q /\ ~regfile_we_lsu)
  PROVE  Lsu!LsuCycle(g, r, e, next)
<1>1. Lsu!IdExStep(g, r, next)
  <2>1. IdExStep(g, r, next)
    BY DEF LsuCycle
  <2> QED BY <2>1, SameHandshakes, SameRequest DEF Lsu!IdExStep, IdExStep
<1>2. Lsu!ExWbStep(g, r)
  <2>1. ExWbStep(g, r)
    BY DEF LsuCycle
  <2> QED BY <2>1, SameHandshakes, SameRequest DEF Lsu!ExWbStep, ExWbStep
<1>3. Lsu!RdataStep(r, e)
  <2>1. RdataStep(r, d)
    BY DEF LsuCycle
  <2> QED BY <2>1, SameData, SameRequest DEF Lsu!RdataStep, RdataStep
<1>4. cnt_q' = Lsu!next_cnt(g, r)
  BY SameHandshakes DEF LsuCycle
<1>5. delivered' = IF Lsu!Finishes(r) /\ regfile_we_lsu THEN Lsu!data_rdata_ext(e) ELSE NoData
  <2>1. delivered' = IF Finishes(r) /\ regfile_we_lsu THEN data_rdata_ext(d) ELSE NoData
    BY DEF LsuCycle
  <2>2. (Lsu!Finishes(r) <=> Finishes(r)) /\ (Finishes(r) => r)
    BY SameHandshakes DEF Finishes
  <2> QED BY <2>1, <2>2, SameData
<1> QED BY <1>1, <1>2, <1>3, <1>4, <1>5 DEF Lsu!LsuCycle

-----------------------------------------------------------------------------
(* ---- the bridge --------------------------------------------------------- *)
(* What the invariant says of the two sides of the bridge: it owes one     *)
(* answer when it is not idle and none when it is.                         *)
LEMMA BridgeFacts ==
  ASSUME BridgeInStep
  PROVE  /\ state \in {"IDLE", "READ_WAIT", "WRITE_WAIT"}
         /\ latency \in Nat \ {0} /\ latency \in Latencies /\ lat_cnt \in 0..(latency - 1)
         /\ mem \in Memories /\ reads \in [1..latency -> Value]
         /\ ex \in Instruction /\ data_misaligned_ex \in BOOLEAN
         /\ data_we_q \in BOOLEAN /\ regfile_we_lsu \in BOOLEAN
         /\ state = "IDLE" => Pending = <<>> /\ cnt_q = 0
         /\ state # "IDLE" =>
              /\ cnt_q = 1 /\ Pending # <<>>
              /\ state = "WRITE_WAIT" <=> data_we_q
              /\ regfile_we_lsu <=> ~data_we_q
         /\ state = "READ_WAIT" => Pending = << reads[latency - lat_cnt] >>
         /\ state = "WRITE_WAIT" => Pending = << reads[1] >>
<1>1. TypeOK /\ Bus!IInv /\ (state # "IDLE" => (state = "WRITE_WAIT" <=> data_we_q))
  BY DEF BridgeInStep
<1>2. /\ state \in {"IDLE", "READ_WAIT", "WRITE_WAIT"}
      /\ latency \in Nat \ {0} /\ latency \in Latencies /\ lat_cnt \in 0..(latency - 1)
      /\ mem \in Memories /\ reads \in [1..latency -> Value]
  BY <1>1, LatenciesAssumption DEF TypeOK
<1>3. /\ ex \in Instruction /\ data_misaligned_ex \in BOOLEAN
      /\ data_we_q \in BOOLEAN /\ regfile_we_lsu \in BOOLEAN
  BY <1>1 DEF TypeOK, LsuTypeOK
<1>4. /\ cnt_q = Len(Pending)
      /\ cnt_q # 0 => (regfile_we_lsu <=> ~data_we_q)
  BY <1>1 DEF Bus!IInv, Bus!CounterExact
<1>5. /\ state = "IDLE" => Pending = <<>>
      /\ state = "READ_WAIT" => Pending = << reads[latency - lat_cnt] >>
      /\ state = "WRITE_WAIT" => Pending = << reads[1] >>
  BY DEF Pending
<1>6. Len(<<>>) = 0 /\ \A x : Len(<< x >>) = 1 /\ << x >> # <<>>
  OBVIOUS
<1>7. state = "IDLE" => cnt_q = 0
  BY <1>4, <1>5, <1>6
<1>8. state # "IDLE" => cnt_q = 1 /\ Pending # <<>>
  BY <1>2, <1>4, <1>5, <1>6
<1> QED BY <1>1, <1>2, <1>3, <1>4, <1>5, <1>7, <1>8

(* A request is granted when the bridge leaves the state for another one,  *)
(* and an answer comes when it is not idle, a read after its latency.      *)
LEMMA BridgeSignals ==
  ASSUME BridgeInStep
  PROVE  /\ gnt \in BOOLEAN /\ rvalid_o \in BOOLEAN
         /\ gnt => trans_valid
         /\ gnt <=> trans_valid /\ (state = "IDLE" \/ rvalid_o)
         /\ count_up(gnt) <=> gnt
         /\ rvalid_o <=> state = "WRITE_WAIT" \/ (state = "READ_WAIT" /\ lat_cnt = 0)
         /\ next_state = IF state # "IDLE" /\ ~rvalid_o THEN "READ_WAIT"
                         ELSE IF ~gnt THEN "IDLE"
                         ELSE IF trans_we THEN "WRITE_WAIT" ELSE "READ_WAIT"
<1>1. /\ state \in {"IDLE", "READ_WAIT", "WRITE_WAIT"}
      /\ latency \in Nat \ {0} /\ lat_cnt \in 0..(latency - 1)
  BY BridgeFacts
<1>2. state = "READ_WAIT" => (rvalid <=> lat_cnt = 0)
  BY <1>1 DEF rvalid
<1>3. rvalid_o <=> state = "WRITE_WAIT" \/ (state = "READ_WAIT" /\ lat_cnt = 0)
  BY <1>1, <1>2 DEF rvalid_o
<1>4. gnt <=> trans_valid /\ (state = "IDLE" \/ rvalid_o)
  BY <1>1, <1>2, <1>3 DEF gnt, req
<1>5. rvalid_o \in BOOLEAN /\ gnt \in BOOLEAN /\ (count_up(gnt) <=> gnt)
  <2>1. trans_valid \in BOOLEAN
    BY DEF trans_valid
  <2>2. rvalid_o \in BOOLEAN
    BY <1>1 DEF rvalid_o, rvalid
  <2>3. gnt \in BOOLEAN
    BY DEF gnt, req, trans_valid
  <2> QED BY <1>4, <2>2, <2>3 DEF count_up
<1>6. CASE state # "IDLE" /\ ~rvalid_o
  BY <1>1, <1>2, <1>3, <1>4, <1>5, <1>6 DEF next_state, req
<1>7. CASE ~(state # "IDLE" /\ ~rvalid_o)
  BY <1>1, <1>2, <1>3, <1>4, <1>5, <1>7 DEF next_state, req
<1> QED BY <1>3, <1>4, <1>5, <1>6, <1>7

(* The RAM is written when the request is seen, and shows what it read.    *)
LEMMA RamStep ==
  ASSUME BridgeInStep, NEW next \in Instructions, Cycle(next)
  PROVE  /\ trans_word \in Word
         /\ trans_valid /\ trans_we =>
              mem' = [mem EXCEPT ![trans_word] =
                        [l \in Lanes |-> IF l \in trans_be THEN trans_wdata[l] ELSE @[l]]]
         /\ ~(trans_valid /\ trans_we) => mem' = mem
         /\ mem' \in Memories /\ mem[trans_word] \in Value
         /\ latency' = latency /\ reads' \in [1..latency -> Value]
         /\ reads'[1] = mem[trans_word]
         /\ \A i \in 1..(latency - 1) : reads'[i + 1] = reads[i]
<1>1. /\ latency \in Nat \ {0} /\ mem \in Memories /\ reads \in [1..latency -> Value]
      /\ ex \in Instruction /\ data_misaligned_ex \in BOOLEAN
  BY BridgeFacts
<1>2. trans_word \in Word /\ trans_be \subseteq Lanes /\ trans_wdata \in Value
  <2>1. data_misaligned_ex => Lsu!Splits(ex)
    BY DEF BridgeInStep, Bus!IInv, Bus!HalvesTogether, Bus!Splits, Lsu!Splits
  <2> QED BY <1>1, <2>1, Lsu!HalfOfAccess, LsuAssumptions, SameSets, SameRequest
<1>3. mem' = [w \in Word |-> [l \in Lanes |->
                IF w = trans_word /\ l \in weout THEN trans_wdata[l] ELSE mem[w][l]]]
  BY DEF Cycle, BramStep
<1>4. mem[trans_word] \in Value /\ \A w \in Word : mem[w] = [l \in Lanes |-> mem[w][l]]
  BY <1>1, <1>2 DEF Memories, Value
<1>5. mem = [w \in Word |-> mem[w]]
  BY <1>1 DEF Memories
<1>6. ASSUME trans_valid /\ trans_we
      PROVE  mem' = [mem EXCEPT ![trans_word] =
                       [l \in Lanes |-> IF l \in trans_be THEN trans_wdata[l] ELSE @[l]]]
  <2>1. weout = trans_be
    BY <1>6 DEF weout, req
  <2> QED BY <1>2, <1>3, <1>4, <1>5, <2>1
<1>7. ASSUME ~(trans_valid /\ trans_we)
      PROVE  mem' = mem
  <2>1. weout = {}
    BY <1>7 DEF weout, req
  <2> QED BY <1>3, <1>4, <1>5, <2>1
<1>8. mem' \in Memories
  BY <1>1, <1>2, <1>3 DEF Memories, Value
<1>9. latency' = latency /\ reads' = << mem[trans_word] >> \o SubSeq(reads, 1, latency - 1)
  BY <1>2 DEF Cycle, BramStep
<1>10. /\ reads \in Seq(Value) /\ Len(reads) = latency
  BY <1>1
<1> DEFINE older == SubSeq(reads, 1, latency - 1)
<1>11. /\ older \in Seq(Value) /\ Len(older) = latency - 1
       /\ \A i \in 1..(latency - 1) : older[i] = reads[i]
  BY <1>1, <1>10
<1>12. << mem[trans_word] >> \in Seq(Value) /\ Len(<< mem[trans_word] >>) = 1
  BY <1>4
<1>13. /\ reads' \in Seq(Value) /\ Len(reads') = latency
       /\ reads'[1] = mem[trans_word]
       /\ \A i \in 1..(latency - 1) : reads'[i + 1] = reads[i]
  <2> HIDE DEF older
  <2>1. reads' = << mem[trans_word] >> \o older
    BY <1>9 DEF older
  <2> QED BY <1>1, <1>4, <1>11, <1>12, <2>1
<1>14. reads' \in [1..latency -> Value]
  BY <1>1, <1>13
<1> QED BY <1>2, <1>4, <1>6, <1>7, <1>8, <1>9, <1>13, <1>14

(* ---- the invariant, here and there -------------------------------------- *)
LEMMA SameInvariant == Bus!IInv <=> Lsu!IInv
<1>1. Bus!TypeOK <=> Lsu!TypeOK
  BY DEF Bus!TypeOK, Lsu!TypeOK, Bus!LsuTypeOK, Lsu!LsuTypeOK, Bus!Instruction, Lsu!Instruction,
         Bus!Splits, Lsu!Splits, Bus!Memories, Lsu!Memories, Bus!Word, Lsu!Word, Bus!Value, Lsu!Value,
         Bus!Lanes, Lsu!Lanes, Bus!Bytes, Lsu!Bytes, Bus!DEPTH, Lsu!DEPTH
<1>2. Bus!IsAccess(ex) <=> Lsu!IsAccess(ex)
  BY DEF Bus!IsAccess, Lsu!IsAccess
<1>3. Bus!CounterExact <=> Lsu!CounterExact
  BY <1>2 DEF Bus!CounterExact, Lsu!CounterExact
<1>4. Bus!HalvesTogether <=> Lsu!HalvesTogether
  BY <1>2 DEF Bus!HalvesTogether, Lsu!HalvesTogether, Bus!Splits, Lsu!Splits
<1>5. Bus!trans_word = Lsu!trans_word
  BY DEF Bus!trans_word, Lsu!trans_word
<1>6. \A w : Bus!Performed(mem, ex, w) <=> Lsu!Performed(mem, ex, w)
  BY DEF Bus!Performed, Lsu!Performed, Bus!Touches, Lsu!Touches, Bus!Index, Lsu!Index, Bus!Lanes, Lsu!Lanes
<1>7. Bus!StorePerformed <=> Lsu!StorePerformed
  BY <1>5, <1>6 DEF Bus!StorePerformed, Lsu!StorePerformed
<1>8. Bus!LoadAnswered <=> Lsu!LoadAnswered
  BY <1>5 DEF Bus!LoadAnswered, Lsu!LoadAnswered
<1> QED BY <1>1, <1>3, <1>4, <1>7, <1>8 DEF Bus!IInv, Lsu!IInv

LEMMA SameInvariantNext == (Bus!IInv <=> Lsu!IInv)'
  BY SameInvariant, PTL

(* ---- one cycle ----------------------------------------------------------- *)
(* The answers that the bridge owes after a cycle.                          *)
LEMMA PendingStep ==
  ASSUME BridgeInStep, NEW next \in Instructions, Cycle(next)
  PROVE  /\ Pending' = IF gnt THEN << mem[trans_word] >> ELSE IF rvalid_o THEN <<>> ELSE Pending
         /\ state' \in {"IDLE", "READ_WAIT", "WRITE_WAIT"}
         /\ lat_cnt' \in 0..(latency' - 1)
<1>1. /\ state \in {"IDLE", "READ_WAIT", "WRITE_WAIT"}
      /\ latency \in Nat \ {0} /\ lat_cnt \in 0..(latency - 1)
      /\ state = "READ_WAIT" => Pending = << reads[latency - lat_cnt] >>
      /\ state = "IDLE" => Pending = <<>>
  BY BridgeFacts
<1>2. /\ latency' = latency /\ reads'[1] = mem[trans_word]
      /\ \A i \in 1..(latency - 1) : reads'[i + 1] = reads[i]
  BY RamStep
<1>3. /\ gnt <=> trans_valid /\ (state = "IDLE" \/ rvalid_o)
      /\ rvalid_o <=> state = "WRITE_WAIT" \/ (state = "READ_WAIT" /\ lat_cnt = 0)
      /\ next_state = IF state # "IDLE" /\ ~rvalid_o THEN "READ_WAIT"
                      ELSE IF ~gnt THEN "IDLE"
                      ELSE IF trans_we THEN "WRITE_WAIT" ELSE "READ_WAIT"
  BY BridgeSignals
<1>4. state' = next_state /\ lat_cnt' = next_lat_cnt
  BY DEF Cycle
<1>5. /\ state' \in {"IDLE", "READ_WAIT", "WRITE_WAIT"}
      /\ Pending' = CASE state' = "IDLE" -> <<>>
                      [] state' = "READ_WAIT" -> << reads'[latency' - lat_cnt'] >>
                      [] state' = "WRITE_WAIT" -> << reads'[1] >>
  BY <1>3, <1>4 DEF Pending
<1>6. state = "READ_WAIT" => (rvalid <=> lat_cnt = 0)
  BY <1>1 DEF rvalid
<1>7. CASE state # "IDLE" /\ ~rvalid_o
  <2>1. state = "READ_WAIT" /\ lat_cnt > 0 /\ ~rvalid /\ ~gnt /\ state' = "READ_WAIT" /\ next_state = "READ_WAIT"
    BY <1>1, <1>3, <1>4, <1>6, <1>7
  <2>2. ~entering_read /\ ~restarting_read /\ latency > 1
    BY <1>1, <2>1 DEF entering_read, restarting_read
  <2>3. lat_cnt' = lat_cnt - 1
    BY <1>1, <1>4, <2>1, <2>2 DEF next_lat_cnt
  <2>4. /\ latency' - lat_cnt' = (latency - lat_cnt) + 1
        /\ latency - lat_cnt \in 1..(latency - 1)
        /\ lat_cnt' \in 0..(latency' - 1)
    BY <1>1, <1>2, <2>1, <2>3
  <2>5. reads'[latency' - lat_cnt'] = reads[latency - lat_cnt]
    BY <1>2, <2>4
  <2> QED BY <1>1, <1>5, <1>7, <2>1, <2>4, <2>5
<1>8. CASE ~(state # "IDLE" /\ ~rvalid_o) /\ gnt /\ ~trans_we
  <2>1. state' = "READ_WAIT" /\ next_state = "READ_WAIT"
    BY <1>3, <1>4, <1>8
  <2>2. entering_read \/ restarting_read
    BY <1>1, <1>3, <1>6, <1>8, <2>1 DEF entering_read, restarting_read
  <2>3. lat_cnt' = latency - 1
    BY <1>1, <1>4, <2>2 DEF next_lat_cnt
  <2>4. latency' - lat_cnt' = 1 /\ lat_cnt' \in 0..(latency' - 1)
    BY <1>1, <1>2, <2>3
  <2> QED BY <1>2, <1>5, <1>8, <2>1, <2>4
<1>9. CASE ~(state # "IDLE" /\ ~rvalid_o) /\ ~(gnt /\ ~trans_we)
  <2>1. next_state # "READ_WAIT" /\ state' = (IF gnt THEN "WRITE_WAIT" ELSE "IDLE")
    BY <1>3, <1>4, <1>9
  <2>2. ~entering_read /\ ~restarting_read
    BY <2>1 DEF entering_read, restarting_read
  <2>3. lat_cnt' \in 0..(latency - 1)
    BY <1>1, <1>4, <2>2 DEF next_lat_cnt
  <2>4. ~gnt /\ ~rvalid_o => Pending = <<>>
    BY <1>1, <1>9
  <2> QED BY <1>2, <1>5, <2>1, <2>3, <2>4
<1> QED BY <1>7, <1>8, <1>9

(* A cycle of the bridge and the RAM is one of a memory that keeps the      *)
(* protocol.                                                                *)
LEMMA BridgeCycle ==
  ASSUME BridgeInStep, NEW next \in Instructions, Cycle(next)
  PROVE  Lsu!Cycle(gnt, rvalid_o, next)
<1>1. /\ state = "IDLE" => Pending = <<>>
      /\ state # "IDLE" =>
           /\ cnt_q = 1 /\ Pending # <<>>
           /\ state = "WRITE_WAIT" <=> data_we_q
           /\ regfile_we_lsu <=> ~data_we_q
      /\ state = "READ_WAIT" => Pending = << reads[latency - lat_cnt] >>
      /\ state = "WRITE_WAIT" => Pending = << reads[1] >>
      /\ latency \in Nat \ {0} /\ data_we_q \in BOOLEAN /\ regfile_we_lsu \in BOOLEAN
  BY BridgeFacts
<1>2. /\ gnt \in BOOLEAN /\ rvalid_o \in BOOLEAN
      /\ gnt => trans_valid
      /\ count_up(gnt) <=> gnt
      /\ gnt <=> trans_valid /\ (state = "IDLE" \/ rvalid_o)
      /\ rvalid_o <=> state = "WRITE_WAIT" \/ (state = "READ_WAIT" /\ lat_cnt = 0)
  BY BridgeSignals
<1>3. rvalid_o => Pending # <<>>
  BY <1>1, <1>2
<1>4. next # Lsu!NoInstr => Lsu!IdMoves(gnt, rvalid_o)
  BY SameSets, SameHandshakes DEF Cycle
<1>5. Lsu!LsuCycle(gnt, rvalid_o, Lsu!Answer(rvalid_o), next)
  <2>1. LsuCycle(gnt, rvalid_o, reads[latency], next)
    BY DEF Cycle
  <2>2. rvalid_o => \/ reads[latency] = Lsu!Answer(rvalid_o)
                    \/ data_we_q /\ ~regfile_we_lsu
    <3>1. CASE state = "WRITE_WAIT"
      BY <1>1, <3>1
    <3>2. CASE state = "READ_WAIT" /\ lat_cnt = 0
      <4>1. Pending = << reads[latency] >>
        BY <1>1, <3>2
      <4> QED BY <4>1 DEF Lsu!Answer
    <3> QED BY <1>2, <3>1, <3>2
  <2> QED BY <1>1, <1>2, <2>1, <2>2, SameCycle
<1>6. Lsu!Accept(gnt, rvalid_o)
  <2>1. \/ mem' = Lsu!Written /\ Lsu!trans_valid /\ Lsu!trans_we
        \/ mem' = mem /\ ~(Lsu!count_up(gnt) /\ Lsu!trans_we)
    <3>1. Lsu!Written = [mem EXCEPT ![trans_word] =
                           [l \in Lanes |-> IF l \in trans_be THEN trans_wdata[l] ELSE @[l]]]
      BY SameSets, SameRequest DEF Lsu!Written
    <3>2. Lsu!count_up(gnt) => trans_valid
      BY SameRequest DEF Lsu!count_up
    <3> QED BY <3>1, <3>2, RamStep, SameRequest
  <2>2. Lsu!count_up(gnt) <=> gnt
    BY <1>2, SameHandshakes
  <2>3. Pending' = IF gnt THEN << mem[trans_word] >> ELSE IF rvalid_o THEN <<>> ELSE Pending
    BY PendingStep
  <2>4. (IF rvalid_o THEN Tail(Pending) ELSE Pending) = IF rvalid_o THEN <<>> ELSE Pending
    <3>1. \A x : Tail(<< x >>) = <<>>
      OBVIOUS
    <3>2. rvalid_o => Pending = << reads[1] >> \/ Pending = << reads[latency - lat_cnt] >>
      BY <1>1, <1>2
    <3>3. rvalid_o => Tail(Pending) = <<>>
      BY <3>1, <3>2
    <3> QED BY <3>3
  <2>5. gnt /\ ~rvalid_o => Pending = <<>>
    BY <1>1, <1>2
  <2>6. \A x : Append(<<>>, x) = << x >>
    OBVIOUS
  <2>7. Pending' = IF Lsu!count_up(gnt)
                   THEN Append(IF rvalid_o THEN Tail(Pending) ELSE Pending, mem[Lsu!trans_word])
                   ELSE IF rvalid_o THEN Tail(Pending) ELSE Pending
    BY <2>2, <2>3, <2>4, <2>5, <2>6, SameRequest
  <2> QED BY <2>1, <2>7 DEF Lsu!Accept
<1> QED BY <1>2, <1>3, <1>4, <1>5, <1>6, SameRequest DEF Lsu!Cycle

(* ---- the invariant -------------------------------------------------------- *)
LEMMA Initial == Init => BridgeInStep
<1> SUFFICES ASSUME Init PROVE BridgeInStep
  OBVIOUS
<1>1. Pending = <<>>
  BY DEF Init, Pending
<1>2. Lsu!Init
  BY <1>1, SameSets DEF Init, Lsu!Init, LsuInit, Lsu!LsuInit
<1>3. Lsu!IInv
  BY <1>2, Lsu!Initial, LsuAssumptions
<1>4. TypeOK
  <2>1. LsuTypeOK
    BY <1>3, SameSets DEF Lsu!IInv, Lsu!TypeOK, Lsu!LsuTypeOK, LsuTypeOK
  <2>2. latency \in Latencies /\ latency \in Nat \ {0} /\ lat_cnt = 0 /\ state = "IDLE" /\ mem \in Memories
    BY ContentsAssumption, LatenciesAssumption DEF Init
  <2>3. Zeros \in Value
    BY DEF Zeros, Value, Bytes
  <2>4. reads \in [1..latency -> Value]
    BY <2>3 DEF Init
  <2> QED BY <2>1, <2>2, <2>4 DEF TypeOK
<1> QED BY <1>3, <1>4, SameInvariant DEF BridgeInStep, Init

LEMMA CycleStep ==
  ASSUME BridgeInStep, NEW next \in Instructions, Cycle(next)
  PROVE  BridgeInStep'
<1>1. gnt \in BOOLEAN /\ rvalid_o \in BOOLEAN /\ Lsu!Cycle(gnt, rvalid_o, next) /\ Lsu!IInv
  BY BridgeSignals, BridgeCycle, SameInvariant DEF BridgeInStep
<1>2. Lsu!IInv'
  <2>1. Lsu!TypeOK'
    BY <1>1, Lsu!TypeStep, LsuAssumptions
  <2>2. Lsu!CounterExact' /\ Lsu!HalvesTogether'
    BY <1>1, Lsu!CounterStep, LsuAssumptions
  <2>3. Lsu!StorePerformed' /\ Lsu!LoadAnswered'
    BY <1>1, Lsu!PartsStep, LsuAssumptions
  <2> QED BY <2>1, <2>2, <2>3 DEF Lsu!IInv
<1>3. TypeOK'
  <2>1. LsuTypeOK'
    BY <1>2, SameSets DEF Lsu!IInv, Lsu!TypeOK, Lsu!LsuTypeOK, LsuTypeOK
  <2>2. /\ state' \in {"IDLE", "READ_WAIT", "WRITE_WAIT"} /\ lat_cnt' \in 0..(latency' - 1)
        /\ latency' \in Latencies /\ mem' \in Memories /\ reads' \in [1..latency' -> Value]
    BY PendingStep, RamStep, BridgeFacts
  <2> QED BY <2>1, <2>2 DEF TypeOK
<1>4. state' # "IDLE" => (state' = "WRITE_WAIT" <=> data_we_q')
  <2>1. /\ state \in {"IDLE", "READ_WAIT", "WRITE_WAIT"}
        /\ state = "IDLE" => cnt_q = 0
        /\ state # "IDLE" => cnt_q = 1 /\ (state = "WRITE_WAIT" <=> data_we_q)
    BY BridgeFacts
  <2>2. /\ gnt <=> trans_valid /\ (state = "IDLE" \/ rvalid_o)
        /\ count_up(gnt) <=> gnt
        /\ rvalid_o <=> state = "WRITE_WAIT" \/ (state = "READ_WAIT" /\ lat_cnt = 0)
        /\ next_state = IF state # "IDLE" /\ ~rvalid_o THEN "READ_WAIT"
                        ELSE IF ~gnt THEN "IDLE"
                        ELSE IF trans_we THEN "WRITE_WAIT" ELSE "READ_WAIT"
    BY BridgeSignals
  <2>3. /\ state' = next_state
        /\ data_we_q' = IF lsu_ready_ex(gnt, rvalid_o) /\ IsAccess(ex) THEN ex.kind = "store" ELSE data_we_q
    BY DEF Cycle, LsuCycle, ExWbStep
  <2>4. CASE state # "IDLE" /\ ~rvalid_o
    <3>1. ~(lsu_ready_ex(gnt, rvalid_o) /\ IsAccess(ex))
      BY <2>1, <2>4 DEF lsu_ready_ex
    <3> QED BY <2>1, <2>2, <2>3, <2>4, <3>1
  <2>5. CASE ~(state # "IDLE" /\ ~rvalid_o) /\ gnt
    <3>1. lsu_ready_ex(gnt, rvalid_o) /\ IsAccess(ex)
      BY <2>1, <2>2, <2>5 DEF lsu_ready_ex, trans_valid
    <3> QED BY <2>2, <2>3, <2>5, <3>1 DEF trans_we
  <2>6. CASE ~(state # "IDLE" /\ ~rvalid_o) /\ ~gnt
    BY <2>2, <2>3, <2>6
  <2> QED BY <2>4, <2>5, <2>6
<1> QED BY <1>2, <1>3, <1>4, SameInvariantNext DEF BridgeInStep

(* The bridge owes the load-store unit exactly the answers that the unit    *)
(* waits for, and the RAM is about to show the words it asked for, whatever *)
(* the read latency (core_2_bram.sv:46-106, cv32e40p_obi_interface.sv).     *)
THEOREM Invariance == Spec => []BridgeInStep
<1>1. Init => BridgeInStep
  BY Initial
<1>2. BridgeInStep /\ [Next]_vars => BridgeInStep'
  <2> SUFFICES ASSUME BridgeInStep, [Next]_vars PROVE BridgeInStep'
    OBVIOUS
  <2>1. CASE Next
    BY <2>1, CycleStep DEF Next
  <2>2. CASE UNCHANGED vars
    <3>1. Pending' = Pending
      BY <2>2 DEF vars, Pending
    <3>2. Lsu!IInv'
      BY <2>2, <3>1, SameInvariant
      DEF BridgeInStep, vars, lsuVars, Lsu!IInv, Lsu!TypeOK, Lsu!LsuTypeOK, Lsu!CounterExact,
          Lsu!HalvesTogether, Lsu!StorePerformed, Lsu!LoadAnswered, Lsu!trans_word
    <3>3. TypeOK' /\ (state' # "IDLE" => (state' = "WRITE_WAIT" <=> data_we_q'))
      BY <2>2 DEF BridgeInStep, vars, lsuVars, TypeOK, LsuTypeOK
    <3> QED BY <3>2, <3>3, SameInvariantNext DEF BridgeInStep
  <2> QED BY <2>1, <2>2
<1> QED BY <1>1, <1>2, PTL DEF Spec

-----------------------------------------------------------------------------
(* ---- the refinements ------------------------------------------------------ *)
LEMMA InitialIsBus == Init => Lsu!Init
<1> SUFFICES ASSUME Init PROVE Lsu!Init
  OBVIOUS
<1>1. Pending = <<>>
  BY DEF Init, Pending
<1> QED BY <1>1, SameSets DEF Init, Lsu!Init, LsuInit, Lsu!LsuInit

LEMMA StepIsBus == BridgeInStep /\ [Next]_vars => [Lsu!Next]_Lsu!vars
<1> SUFFICES ASSUME BridgeInStep, [Next]_vars PROVE [Lsu!Next]_Lsu!vars
  OBVIOUS
<1>1. CASE Next
  BY <1>1, BridgeSignals, BridgeCycle DEF Next, Lsu!Next
<1>2. CASE UNCHANGED vars
  BY <1>2 DEF vars, lsuVars, Lsu!vars, Lsu!lsuVars, Pending
<1> QED BY <1>1, <1>2

LEMMA LsuHolds == Spec => Lsu!Spec
  BY InitialIsBus, StepIsBus, Invariance, PTL DEF Spec, Lsu!Spec

LEMMA SameBusCycle ==
  ASSUME NEW g, NEW r, NEW next
  PROVE  Bus!Cycle(g, r, next) <=> Lsu!Cycle(g, r, next)
  BY DEF Bus!Instruction, Lsu!Instruction, Bus!Splits, Lsu!Splits, Bus!Memories, Lsu!Memories, Bus!Word,
         Lsu!Word, Bus!Value, Lsu!Value, Bus!Lanes, Lsu!Lanes, Bus!Bytes, Lsu!Bytes, Bus!Zeros,
         Lsu!Zeros, Bus!NoInstr, Lsu!NoInstr, Bus!DEPTH, Lsu!DEPTH, Bus!IsAccess, Lsu!IsAccess,
         Bus!trans_we, Lsu!trans_we, Bus!trans_valid, Lsu!trans_valid, Bus!trans_word,
         Lsu!trans_word, Bus!trans_be, Lsu!trans_be, Bus!trans_wdata, Lsu!trans_wdata,
         Bus!data_misaligned_o, Lsu!data_misaligned_o, Bus!count_up, Lsu!count_up, Bus!lsu_ready_wb,
         Lsu!lsu_ready_wb, Bus!lsu_ready_ex, Lsu!lsu_ready_ex, Bus!ex_valid, Lsu!ex_valid,
         Bus!ex_ready, Lsu!ex_ready, Bus!IdMoves, Lsu!IdMoves, Bus!Finishes, Lsu!Finishes,
         Bus!next_cnt, Lsu!next_cnt, Bus!data_rdata_ext, Lsu!data_rdata_ext, Bus!Extended,
         Lsu!Extended, Bus!Gathered, Lsu!Gathered, Bus!Fill, Lsu!Fill, Bus!IdExStep, Lsu!IdExStep,
         Bus!ExWbStep, Lsu!ExWbStep, Bus!RdataStep, Lsu!RdataStep, Bus!LsuCycle, Lsu!LsuCycle,
         Bus!Written, Lsu!Written, Bus!Accept, Lsu!Accept, Bus!Answer, Lsu!Answer, Bus!Cycle,
         Lsu!Cycle

LEMMA SameSpec == Bus!Spec <=> Lsu!Spec
<1>1. Bus!Init <=> Lsu!Init
  BY DEF Bus!Init, Lsu!Init, Bus!LsuInit, Lsu!LsuInit, Bus!Zeros, Lsu!Zeros, Bus!Lanes, Lsu!Lanes,
         Bus!NoInstr, Lsu!NoInstr
<1>2. [Bus!Next]_Bus!vars <=> [Lsu!Next]_Lsu!vars
  BY SameBusCycle DEF Bus!Next, Lsu!Next, Bus!vars, Lsu!vars, Bus!lsuVars, Lsu!lsuVars
<1> QED BY <1>1, <1>2, PTL DEF Bus!Spec, Lsu!Spec

LEMMA SameProgramView == Bus!Committed = Lsu!Committed /\ Bus!Owed = Lsu!Owed
  BY DEF Bus!Instruction, Lsu!Instruction, Bus!Splits, Lsu!Splits, Bus!Memories, Lsu!Memories, Bus!Word,
         Lsu!Word, Bus!Value, Lsu!Value, Bus!Lanes, Lsu!Lanes, Bus!Bytes, Lsu!Bytes, Bus!Zeros,
         Lsu!Zeros, Bus!NoInstr, Lsu!NoInstr, Bus!IsAccess, Lsu!IsAccess, Bus!Outcome, Lsu!Outcome,
         Bus!Stored, Lsu!Stored, Bus!Loaded, Lsu!Loaded, Bus!ByteAt, Lsu!ByteAt, Bus!Fill, Lsu!Fill,
         Bus!Touches, Lsu!Touches, Bus!Index, Lsu!Index, Bus!Committed, Lsu!Committed, Bus!Owed,
         Lsu!Owed, Bus!InWb, Lsu!InWb, Bus!data_rdata_ext, Lsu!data_rdata_ext, Bus!Extended,
         Lsu!Extended, Bus!Gathered, Lsu!Gathered

LEMMA SameMemoryStep ==
  ASSUME NEW finish, NEW a
  PROVE  Bus!DataMemory!Step(finish, a) <=> Lsu!DataMemory!Step(finish, a)
  BY DEF Bus!Instruction, Lsu!Instruction, Bus!Splits, Lsu!Splits, Bus!Memories, Lsu!Memories, Bus!Word,
         Lsu!Word, Bus!Value, Lsu!Value, Bus!Lanes, Lsu!Lanes, Bus!Bytes, Lsu!Bytes, Bus!Zeros,
         Lsu!Zeros, Bus!NoInstr, Lsu!NoInstr, Bus!IsAccess, Lsu!IsAccess, Bus!Outcome, Lsu!Outcome,
         Bus!Stored, Lsu!Stored, Bus!Loaded, Lsu!Loaded, Bus!ByteAt, Lsu!ByteAt, Bus!Fill, Lsu!Fill,
         Bus!Touches, Lsu!Touches, Bus!Index, Lsu!Index, Bus!Committed, Lsu!Committed, Bus!Owed,
         Lsu!Owed, Bus!InWb, Lsu!InWb, Bus!data_rdata_ext, Lsu!data_rdata_ext, Bus!Extended,
         Lsu!Extended, Bus!Gathered, Lsu!Gathered, Bus!DataMemory!Step, Lsu!DataMemory!Step,
         Bus!DataMemory!IsAccess, Lsu!DataMemory!IsAccess, Bus!DataMemory!Outcome,
         Lsu!DataMemory!Outcome, Bus!DataMemory!Stored, Lsu!DataMemory!Stored,
         Bus!DataMemory!Loaded, Lsu!DataMemory!Loaded, Bus!DataMemory!ByteAt, Lsu!DataMemory!ByteAt,
         Bus!DataMemory!Fill, Lsu!DataMemory!Fill, Bus!DataMemory!Touches, Lsu!DataMemory!Touches,
         Bus!DataMemory!Index, Lsu!DataMemory!Index, Bus!DataMemory!Word, Lsu!DataMemory!Word,
         Bus!DataMemory!Lanes, Lsu!DataMemory!Lanes

LEMMA SameDataMemory == Bus!ImplementsDataMemory <=> Lsu!ImplementsDataMemory
<1>1. Bus!DataMemory!Init <=> Lsu!DataMemory!Init
  BY SameProgramView DEF Bus!DataMemory!Init, Lsu!DataMemory!Init
<1>2. [Bus!DataMemory!Next]_Bus!DataMemory!vars <=> [Lsu!DataMemory!Next]_Lsu!DataMemory!vars
  <2>1. Bus!DataMemory!Next <=> Lsu!DataMemory!Next
    BY SameMemoryStep DEF Bus!DataMemory!Next, Lsu!DataMemory!Next
  <2>2. UNCHANGED Bus!DataMemory!vars <=> UNCHANGED Lsu!DataMemory!vars
    BY DEF Bus!DataMemory!vars, Lsu!DataMemory!vars, Bus!Instruction, Lsu!Instruction, Bus!Splits, Lsu!Splits, Bus!Memories, Lsu!Memories, Bus!Word,
         Lsu!Word, Bus!Value, Lsu!Value, Bus!Lanes, Lsu!Lanes, Bus!Bytes, Lsu!Bytes, Bus!Zeros,
         Lsu!Zeros, Bus!NoInstr, Lsu!NoInstr, Bus!IsAccess, Lsu!IsAccess, Bus!Outcome, Lsu!Outcome,
         Bus!Stored, Lsu!Stored, Bus!Loaded, Lsu!Loaded, Bus!ByteAt, Lsu!ByteAt, Bus!Fill, Lsu!Fill,
         Bus!Touches, Lsu!Touches, Bus!Index, Lsu!Index, Bus!Committed, Lsu!Committed, Bus!Owed,
         Lsu!Owed, Bus!InWb, Lsu!InWb, Bus!data_rdata_ext, Lsu!data_rdata_ext, Bus!Extended,
         Lsu!Extended, Bus!Gathered, Lsu!Gathered
  <2> QED BY <2>1, <2>2
<1> QED BY <1>1, <1>2, PTL
        DEF Bus!ImplementsDataMemory, Lsu!ImplementsDataMemory, Bus!DataMemory!Spec, Lsu!DataMemory!Spec

(* The bridge with the RAM is a memory that keeps the protocol of the bus  *)
(* at every read latency, although it writes the RAM without waiting for   *)
(* the grant (core_2_bram.sv:46-106).                                      *)
THEOREM ImplementsBusHolds == Spec => ImplementsBus
  BY LsuHolds, SameSpec DEF ImplementsBus

(* On this bridge too, loads and stores behave as if each was made at      *)
(* once, one at a time and in program order (load_store_unit.sv and        *)
(* id_stage.sv:1485-1612 with core_2_bram.sv:46-106).                      *)
THEOREM Refinement == Spec => ImplementsDataMemory
<1>1. Lsu!Spec => Lsu!ImplementsDataMemory
  BY Lsu!Refinement, LsuAssumptions
<1> QED BY <1>1, LsuHolds, SameDataMemory DEF ImplementsDataMemory
=============================================================================
