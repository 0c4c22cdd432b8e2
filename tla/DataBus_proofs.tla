--------------------------- MODULE DataBus_proofs ---------------------------
(***************************************************************************)
(* Proofs about DataBus, for any memory size, any contents and any mix of  *)
(* accesses: the load-store unit implements in-order, undivided accesses.  *)
(***************************************************************************)
EXTENDS DataBus, TLAPS

(* ---- data --------------------------------------------------------------- *)
(* The word that the half under way is about exists, and its lanes are     *)
(* those of the access in that word, with the bytes of the access.         *)
LEMMA HalfOfAccess ==
  ASSUME ex \in Instruction, data_misaligned_ex \in BOOLEAN,
         data_misaligned_ex => Splits(ex)
  PROVE  /\ trans_word \in Word /\ trans_be \subseteq Lanes /\ trans_wdata \in Value
         /\ \A l \in Lanes : l \in trans_be <=> Touches(ex, trans_word, l)
         /\ \A l \in trans_be : trans_wdata[l] = ex.data[Index(ex, trans_word, l)]
<1>1. /\ ex.word \in Word /\ ex.off \in Lanes /\ ex.size \in {1, 2, 4} /\ ex.data \in Value
      /\ Splits(ex) => ex.word + 1 \in Word
  BY DEF Instruction
<1>2. ex.word \in Int /\ ex.off \in 0..3 /\ \A l \in Lanes : l \in 0..3
  BY <1>1 DEF Word, Lanes
<1>3. trans_word \in Word /\ trans_word = (IF data_misaligned_ex THEN ex.word + 1 ELSE ex.word)
  BY <1>1 DEF trans_word
<1>4. trans_wdata \in Value
  BY <1>1, <1>2 DEF trans_wdata, Value, Lanes
<1>5. trans_be \subseteq Lanes
  BY <1>2 DEF trans_be, Lanes
<1>6. ASSUME NEW l \in Lanes
      PROVE  l \in trans_be <=> Touches(ex, trans_word, l)
  <2>1. CASE ~data_misaligned_ex
    BY <1>1, <1>2, <1>3, <2>1 DEF trans_be, Touches, Index, Lanes
  <2>2. CASE data_misaligned_ex
    BY <1>1, <1>2, <1>3, <2>2 DEF trans_be, Touches, Index, Lanes, Splits
  <2> QED BY <2>1, <2>2
<1>7. ASSUME NEW l \in trans_be
      PROVE  trans_wdata[l] = ex.data[Index(ex, trans_word, l)]
  <2>1. l \in Lanes /\ Touches(ex, trans_word, l)
    BY <1>5, <1>6
  <2>2. CASE ~data_misaligned_ex
    BY <1>1, <1>2, <1>3, <2>1, <2>2 DEF trans_wdata, Touches, Index, Lanes
  <2>3. CASE data_misaligned_ex
    BY <1>1, <1>2, <1>3, <2>1, <2>3 DEF trans_wdata, Touches, Index, Lanes
  <2> QED BY <2>2, <2>3
<1> QED BY <1>3, <1>4, <1>5, <1>6, <1>7

(* The answers to the halves of an access give the bytes of the access.    *)
LEMMA ExtendedIsLoaded ==
  ASSUME NEW a \in Instruction, NEW m \in Memories, NEW first, NEW last,
         last = m[IF Splits(a) THEN a.word + 1 ELSE a.word],
         Splits(a) => first = m[a.word]
  PROVE  Extended(a.size, a.off, a.signed, first, last) = Loaded(m, a)
<1>1. a.word \in Int /\ a.off \in 0..3 /\ a.size \in {1, 2, 4}
  BY DEF Instruction, Word, Lanes
<1>2. \A i \in 0..(a.size - 1) : Gathered(a.size, a.off, first, last, i) = ByteAt(m, a, i)
  BY <1>1 DEF Gathered, ByteAt, Splits
<1>3. a.size - 1 \in 0..(a.size - 1)
  BY <1>1
<1>4. \A i \in Lanes : i < a.size => i \in 0..(a.size - 1)
  BY <1>1 DEF Lanes
<1> QED BY <1>2, <1>3, <1>4 DEF Extended, Loaded

(* Extended values are values.                                             *)
LEMMA ExtendedType ==
  ASSUME NEW size \in {1, 2, 4}, NEW off \in Lanes, NEW signed \in BOOLEAN,
         NEW first \in Value, NEW last \in Value
  PROVE  Extended(size, off, signed, first, last) \in Value
<1>1. \A i \in 0..(size - 1) : Gathered(size, off, first, last, i) \in Bytes
  BY DEF Gathered, Value, Lanes
<1>2. Fill(signed, Gathered(size, off, first, last, size - 1)) \in Bytes
  BY DEF Fill, Bytes
<1> QED BY <1>1, <1>2 DEF Extended, Value, Lanes

(* One more answer at the end of those that are owed.                      *)
LEMMA Appended ==
  ASSUME NEW s \in Seq(Value), NEW v \in Value
  PROVE  /\ Append(s, v) \in Seq(Value) /\ Len(Append(s, v)) = Len(s) + 1
         /\ Append(s, v)[Len(s) + 1] = v
         /\ Len(s) # 0 => Append(s, v)[1] = s[1]
  OBVIOUS

(* ---- one cycle ---------------------------------------------------------- *)
(* The answers owed after a cycle, and what the handshakes come to.        *)
LEMMA PendingStep ==
  ASSUME IInv, NEW gnt \in BOOLEAN, NEW resp_valid \in BOOLEAN, NEW next, Cycle(gnt, resp_valid, next)
  PROVE  /\ cnt_q \in {0, 1, 2} /\ cnt_q' \in {0, 1, 2} /\ cnt_q = Len(pending)
         /\ pending' \in Seq(Value) /\ cnt_q' = Len(pending')
         /\ resp_valid => cnt_q # 0 /\ Answer(resp_valid) = pending[1]
         /\ Answer(resp_valid) \in Value
         /\ count_up(gnt) <=> gnt /\ IsAccess(ex) /\ cnt_q < 2
         /\ cnt_q' = cnt_q + (IF count_up(gnt) THEN 1 ELSE 0) - (IF resp_valid THEN 1 ELSE 0)
         /\ ~resp_valid /\ cnt_q # 0 => pending'[1] = pending[1]
         /\ resp_valid /\ cnt_q = 2 => pending'[1] = pending[2]
         /\ count_up(gnt) => pending'[cnt_q'] = mem[trans_word]
         /\ ~count_up(gnt) /\ ~resp_valid => pending' = pending
<1>1. /\ cnt_q \in {0, 1, 2} /\ cnt_q = Len(pending) /\ pending \in Seq(Value)
      /\ ex \in Instruction /\ data_misaligned_ex \in BOOLEAN
      /\ data_misaligned_ex => Splits(ex)
      /\ mem \in Memories
  BY DEF IInv, TypeOK, LsuTypeOK, CounterExact, HalvesTogether, DEPTH
<1>2. count_up(gnt) <=> gnt /\ IsAccess(ex) /\ cnt_q < 2
  BY DEF count_up, trans_valid, DEPTH
<1>3. mem[trans_word] \in Value
  BY <1>1, HalfOfAccess DEF Memories
<1>4. /\ resp_valid => pending # <<>>
      /\ cnt_q' = next_cnt(gnt, resp_valid)
      /\ pending' = IF count_up(gnt) THEN Append(IF resp_valid THEN Tail(pending) ELSE pending, mem[trans_word])
                    ELSE IF resp_valid THEN Tail(pending) ELSE pending
  BY DEF Cycle, LsuCycle, Accept
<1>5. resp_valid => cnt_q # 0
  BY <1>1, <1>4
<1>6. resp_valid => Answer(resp_valid) = pending[1] /\ pending[1] \in Value
  BY <1>1, <1>5 DEF Answer
<1>7. Zeros \in Value
  BY DEF Zeros, Value, Bytes
<1>8. Answer(resp_valid) \in Value
  BY <1>6, <1>7 DEF Answer
<1>9. cnt_q' = cnt_q + (IF count_up(gnt) THEN 1 ELSE 0) - (IF resp_valid THEN 1 ELSE 0)
  <2>1. cnt_q' = next_cnt(gnt, resp_valid) /\ cnt_q \in Int
    BY <1>1, <1>4
  <2>2. CASE count_up(gnt) /\ resp_valid
    BY <2>1, <2>2 DEF next_cnt
  <2>3. CASE count_up(gnt) /\ ~resp_valid
    BY <2>1, <2>3 DEF next_cnt
  <2>4. CASE ~count_up(gnt) /\ resp_valid
    BY <2>1, <2>4 DEF next_cnt
  <2>5. CASE ~count_up(gnt) /\ ~resp_valid
    BY <2>1, <2>5 DEF next_cnt
  <2> QED BY <2>2, <2>3, <2>4, <2>5
<1> DEFINE rest == IF resp_valid THEN Tail(pending) ELSE pending
<1>a. /\ rest \in Seq(Value)
      /\ Len(rest) = cnt_q - (IF resp_valid THEN 1 ELSE 0)
      /\ ~resp_valid /\ cnt_q # 0 => rest[1] = pending[1]
      /\ resp_valid /\ cnt_q = 2 => rest[1] = pending[2]
  BY <1>1, <1>5
<1> HIDE DEF rest
<1>10. CASE count_up(gnt)
  <2>1. pending' = Append(rest, mem[trans_word]) /\ cnt_q < 2
    BY <1>2, <1>4, <1>10 DEF rest
  <2>2. /\ pending' \in Seq(Value) /\ Len(pending') = Len(rest) + 1
        /\ pending'[Len(rest) + 1] = mem[trans_word]
        /\ Len(rest) # 0 => pending'[1] = rest[1]
    BY <1>3, <1>a, <2>1, Appended
  <2>3. cnt_q' = Len(rest) + 1
    BY <1>1, <1>9, <1>10, <1>a
  <2> QED BY <1>1, <1>2, <1>5, <1>6, <1>8, <1>9, <1>a, <1>10, <2>1, <2>2, <2>3
<1>11. CASE ~count_up(gnt)
  <2>1. pending' = rest
    BY <1>4, <1>11 DEF rest
  <2>2. cnt_q' = Len(rest)
    BY <1>1, <1>9, <1>11, <1>a
  <2>3. ~resp_valid => pending' = pending
    BY <2>1 DEF rest
  <2> QED BY <1>1, <1>2, <1>5, <1>6, <1>8, <1>9, <1>a, <1>11, <2>1, <2>2, <2>3
<1> QED BY <1>10, <1>11

(* When the access in EX, or its first half, may move on.                  *)
LEMMA Handshake ==
  ASSUME IInv, NEW gnt \in BOOLEAN, NEW resp_valid \in BOOLEAN, NEW next, Cycle(gnt, resp_valid, next)
  PROVE  /\ lsu_ready_ex(gnt, resp_valid) \in BOOLEAN /\ lsu_ready_wb(resp_valid) \in BOOLEAN
         /\ lsu_ready_wb(resp_valid) <=> cnt_q = 0 \/ resp_valid
         /\ IsAccess(ex) =>
              /\ ex_ready(gnt, resp_valid) <=> ex_valid(gnt, resp_valid)
              /\ lsu_ready_ex(gnt, resp_valid) <=> ex_valid(gnt, resp_valid)
              /\ ex_valid(gnt, resp_valid) <=> \/ count_up(gnt) /\ (cnt_q = 0 \/ resp_valid)
                                               \/ cnt_q = 2 /\ resp_valid
         /\ ~IsAccess(ex) =>
              /\ ex_valid(gnt, resp_valid) <=> cnt_q = 0 \/ resp_valid
              /\ ~ex_ready(gnt, resp_valid) => cnt_q # 0 /\ ~resp_valid
         /\ data_misaligned_o <=> IsAccess(ex) /\ Splits(ex) /\ ~data_misaligned_ex
<1>1. /\ cnt_q \in {0, 1, 2} /\ (resp_valid => cnt_q # 0)
      /\ count_up(gnt) <=> gnt /\ IsAccess(ex) /\ cnt_q < 2
  BY PendingStep
<1>2. ex.off \in 0..3 /\ ex.size \in {1, 2, 4}
  BY DEF IInv, TypeOK, LsuTypeOK, Instruction, Lanes
<1>3. data_misaligned_o <=> IsAccess(ex) /\ Splits(ex) /\ ~data_misaligned_ex
  BY <1>2 DEF data_misaligned_o, Splits
<1>4. IsAccess(ex) => ex.kind # "branch"
  BY DEF IsAccess
<1>5. lsu_ready_ex(gnt, resp_valid) \in BOOLEAN /\ lsu_ready_wb(resp_valid) \in BOOLEAN
  BY DEF lsu_ready_ex, lsu_ready_wb
<1>6. lsu_ready_wb(resp_valid) <=> cnt_q = 0 \/ resp_valid
  BY DEF lsu_ready_wb
<1>7. IsAccess(ex) => (lsu_ready_ex(gnt, resp_valid) <=> \/ count_up(gnt) /\ (cnt_q = 0 \/ resp_valid)
                                                         \/ cnt_q = 2 /\ resp_valid)
  BY <1>1 DEF lsu_ready_ex
<1>8. ~IsAccess(ex) => lsu_ready_ex(gnt, resp_valid)
  BY DEF lsu_ready_ex
<1> QED BY <1>1, <1>3, <1>4, <1>5, <1>6, <1>7, <1>8 DEF ex_valid, ex_ready

(* The memory after a cycle: the half that was accepted, or perhaps one    *)
(* that was not yet, and nothing else.                                     *)
LEMMA MemoryStep ==
  ASSUME IInv, NEW gnt \in BOOLEAN, NEW resp_valid \in BOOLEAN, NEW next, Cycle(gnt, resp_valid, next)
  PROVE  /\ mem' \in Memories
         /\ mem' # mem => ex.kind = "store"
         /\ mem' # mem \/ (count_up(gnt) /\ ex.kind = "store") =>
              /\ \A l \in trans_be : mem'[trans_word][l] = ex.data[Index(ex, trans_word, l)]
              /\ \A w \in Word, l \in Lanes :
                   ~(w = trans_word /\ l \in trans_be) => mem'[w][l] = mem[w][l]
<1>1. mem \in Memories /\ ex \in Instruction /\ data_misaligned_ex \in BOOLEAN
  BY DEF IInv, TypeOK, LsuTypeOK
<1>2. /\ trans_word \in Word /\ trans_be \subseteq Lanes /\ trans_wdata \in Value
      /\ \A l \in trans_be : trans_wdata[l] = ex.data[Index(ex, trans_word, l)]
  BY <1>1, HalfOfAccess DEF IInv, HalvesTogether
<1>3. \/ mem' = Written /\ trans_we
      \/ mem' = mem /\ ~(count_up(gnt) /\ trans_we)
  <2>1. Accept(gnt, resp_valid)
    BY DEF Cycle
  <2> QED BY <2>1 DEF Accept
<1>4. Written \in Memories
  BY <1>1, <1>2 DEF Written, Memories, Value
<1>5. /\ \A l \in Lanes : Written[trans_word][l] = IF l \in trans_be THEN trans_wdata[l] ELSE mem[trans_word][l]
      /\ \A w \in Word : w # trans_word => Written[w] = mem[w]
  BY <1>1, <1>2 DEF Written, Memories
<1>6. trans_we <=> ex.kind = "store"
  BY DEF trans_we
<1>7. CASE mem' = Written /\ trans_we
  BY <1>2, <1>4, <1>5, <1>6, <1>7
<1>8. CASE mem' = mem /\ ~(count_up(gnt) /\ trans_we)
  BY <1>1, <1>6, <1>8
<1> QED BY <1>3, <1>7, <1>8

-----------------------------------------------------------------------------
LEMMA Initial == Init => IInv
<1> SUFFICES ASSUME Init PROVE IInv
  OBVIOUS
<1>1. Zeros \in Value
  BY DEF Zeros, Value, Bytes
<1>2. NoInstr \in Instruction
  BY <1>1, DataWordsAssumption DEF NoInstr, Instruction, Word, Lanes, Splits
<1>3. TypeOK
  <2>1. LsuTypeOK
    <3>1. ex \in Instruction /\ rdata_q \in Value /\ delivered \in Value \cup {NoData}
      BY <1>1, <1>2 DEF Init, LsuInit
    <3>2. cnt_q \in 0..DEPTH /\ data_type_q \in {1, 2, 4} /\ rdata_offset_q \in Lanes
      BY DEF Init, LsuInit, DEPTH, Lanes
    <3>3. /\ data_misaligned_ex \in BOOLEAN /\ data_sign_ext_q \in BOOLEAN
          /\ data_we_q \in BOOLEAN /\ regfile_we_lsu \in BOOLEAN
      BY DEF Init, LsuInit
    <3> QED BY <3>1, <3>2, <3>3 DEF LsuTypeOK
  <2>2. mem \in Memories /\ pending \in Seq(Value)
    BY ContentsAssumption DEF Init
  <2> QED BY <2>1, <2>2 DEF TypeOK
<1>4. CounterExact /\ HalvesTogether
  BY DEF Init, LsuInit, CounterExact, HalvesTogether
<1>5. StorePerformed /\ LoadAnswered
  BY DEF Init, LsuInit, StorePerformed, LoadAnswered, NoInstr
<1> QED BY <1>3, <1>4, <1>5 DEF IInv

LEMMA TypeStep ==
  ASSUME IInv, NEW gnt \in BOOLEAN, NEW resp_valid \in BOOLEAN, NEW next \in Instructions,
         Cycle(gnt, resp_valid, next)
  PROVE  TypeOK'
<1>1. /\ ex \in Instruction /\ data_misaligned_ex \in BOOLEAN
      /\ data_type_q \in {1, 2, 4} /\ rdata_offset_q \in Lanes /\ data_sign_ext_q \in BOOLEAN
      /\ data_we_q \in BOOLEAN /\ regfile_we_lsu \in BOOLEAN /\ rdata_q \in Value
  BY DEF IInv, TypeOK, LsuTypeOK
<1>2. cnt_q' \in {0, 1, 2} /\ pending' \in Seq(Value) /\ mem' \in Memories /\ Answer(resp_valid) \in Value
  BY PendingStep, MemoryStep
<1>3. lsu_ready_ex(gnt, resp_valid) \in BOOLEAN /\ lsu_ready_wb(resp_valid) \in BOOLEAN
  BY Handshake
<1>4. data_rdata_ext(Answer(resp_valid)) \in Value
  BY <1>1, <1>2, ExtendedType DEF data_rdata_ext
<1>5. ex' \in Instruction /\ data_misaligned_ex' \in BOOLEAN
  BY <1>1, InstructionsAssumption DEF Cycle, LsuCycle, IdExStep
<1>6. /\ data_type_q' \in {1, 2, 4} /\ rdata_offset_q' \in Lanes
      /\ data_sign_ext_q' \in BOOLEAN /\ data_we_q' \in BOOLEAN
  BY <1>1 DEF Cycle, LsuCycle, ExWbStep, Instruction
<1>7. regfile_we_lsu' \in BOOLEAN
  BY <1>1 DEF Cycle, LsuCycle, ExWbStep
<1>8. rdata_q' \in Value
  BY <1>1, <1>2, <1>4 DEF Cycle, LsuCycle, RdataStep
<1>9. delivered' \in Value \cup {NoData}
  BY <1>4 DEF Cycle, LsuCycle
<1> QED BY <1>2, <1>5, <1>6, <1>7, <1>8, <1>9 DEF TypeOK, LsuTypeOK, DEPTH

(* What EX and WB hold after a cycle, by what the access in EX did.        *)
LEMMA Moves ==
  ASSUME IInv, NEW gnt \in BOOLEAN, NEW resp_valid \in BOOLEAN, NEW next \in Instructions,
         Cycle(gnt, resp_valid, next)
  PROVE  \/ /\ ~ex_ready(gnt, resp_valid)
            /\ ex' = ex /\ data_misaligned_ex' = data_misaligned_ex
         \/ /\ IsAccess(ex) /\ ex_valid(gnt, resp_valid) /\ Splits(ex) /\ ~data_misaligned_ex
            /\ ex' = ex /\ data_misaligned_ex' = TRUE
         \/ /\ ex_ready(gnt, resp_valid) /\ (Splits(ex) /\ IsAccess(ex) => data_misaligned_ex)
            /\ ex' = next /\ data_misaligned_ex' = FALSE
<1>1. /\ data_misaligned_o <=> IsAccess(ex) /\ Splits(ex) /\ ~data_misaligned_ex
      /\ IsAccess(ex) => (ex_ready(gnt, resp_valid) <=> ex_valid(gnt, resp_valid))
  BY Handshake
<1> QED BY <1>1 DEF Cycle, LsuCycle, IdExStep

LEMMA CounterStep ==
  ASSUME IInv, NEW gnt \in BOOLEAN, NEW resp_valid \in BOOLEAN, NEW next \in Instructions,
         Cycle(gnt, resp_valid, next)
  PROVE  CounterExact' /\ HalvesTogether'
<1>1. /\ cnt_q \in {0, 1, 2} /\ cnt_q' \in {0, 1, 2} /\ cnt_q' = Len(pending')
      /\ resp_valid => cnt_q # 0
      /\ count_up(gnt) <=> gnt /\ IsAccess(ex) /\ cnt_q < 2
      /\ cnt_q' = cnt_q + (IF count_up(gnt) THEN 1 ELSE 0) - (IF resp_valid THEN 1 ELSE 0)
  BY PendingStep
<1>2. /\ cnt_q = 2 => IsAccess(ex)
      /\ cnt_q = 0 => ~regfile_we_lsu
      /\ cnt_q # 0 => (regfile_we_lsu <=> ~data_we_q)
      /\ data_misaligned_ex => IsAccess(ex) /\ Splits(ex) /\ (cnt_q > 0 => (data_we_q <=> ex.kind = "store"))
      /\ data_we_q \in BOOLEAN /\ regfile_we_lsu \in BOOLEAN
  BY DEF IInv, CounterExact, HalvesTogether, TypeOK, LsuTypeOK
<1>3. /\ regfile_we_lsu' <=> IF ex_valid(gnt, resp_valid) THEN ex.kind = "load"
                             ELSE regfile_we_lsu /\ ~(cnt_q = 0 \/ resp_valid)
      /\ data_we_q' <=> IF lsu_ready_ex(gnt, resp_valid) /\ IsAccess(ex) THEN ex.kind = "store" ELSE data_we_q
  BY <1>2, Handshake DEF Cycle, LsuCycle, ExWbStep
<1>4. IsAccess(ex) => (ex.kind = "load" <=> ex.kind # "store")
  BY DEF IsAccess
<1>5. CASE ~IsAccess(ex)
  <2>1. /\ ex_valid(gnt, resp_valid) <=> cnt_q = 0 \/ resp_valid
        /\ ~data_misaligned_ex /\ cnt_q' = cnt_q - (IF resp_valid THEN 1 ELSE 0) /\ cnt_q < 2
        /\ data_misaligned_ex' = FALSE /\ ex.kind # "load"
    <3>1. ex_valid(gnt, resp_valid) <=> cnt_q = 0 \/ resp_valid
      BY <1>5, Handshake
    <3>2. ~data_misaligned_ex /\ cnt_q' = cnt_q - (IF resp_valid THEN 1 ELSE 0) /\ cnt_q < 2
      BY <1>1, <1>2, <1>5
    <3>3. data_misaligned_ex \in BOOLEAN
      BY DEF IInv, TypeOK, LsuTypeOK
    <3>4. data_misaligned_ex' = FALSE
      BY <1>5, <3>2, <3>3, Moves
    <3> QED BY <1>5, <3>1, <3>2, <3>4 DEF IsAccess
  <2>2. data_we_q' <=> data_we_q
    BY <1>3, <1>5
  <2> QED BY <1>1, <1>2, <1>3, <2>1, <2>2 DEF CounterExact, HalvesTogether
<1>6. CASE IsAccess(ex) /\ ~ex_valid(gnt, resp_valid)
  <2>1. /\ ~lsu_ready_ex(gnt, resp_valid) /\ ~ex_ready(gnt, resp_valid)
        /\ ex' = ex /\ data_misaligned_ex' = data_misaligned_ex
        /\ ~(count_up(gnt) /\ (cnt_q = 0 \/ resp_valid)) /\ ~(cnt_q = 2 /\ resp_valid)
    BY <1>6, Handshake, Moves
  <2>2. /\ data_we_q' <=> data_we_q
        /\ regfile_we_lsu' <=> regfile_we_lsu /\ ~(cnt_q = 0 \/ resp_valid)
    BY <1>3, <1>6, <2>1
  <2>3. cnt_q' = 0 => cnt_q = 0 \/ resp_valid
    BY <1>1
  <2>4. cnt_q' # 0 => cnt_q # 0 /\ ~resp_valid
    BY <1>1, <2>1
  <2>5. IsAccess(ex)' /\ (Splits(ex)' <=> Splits(ex)) /\ (ex.kind)' = ex.kind
    BY <1>6, <2>1 DEF IsAccess, Splits
  <2>6. CounterExact'
    BY <1>1, <1>2, <2>2, <2>3, <2>4, <2>5 DEF CounterExact
  <2>7. HalvesTogether'
    BY <1>1, <1>2, <2>1, <2>2, <2>4, <2>5 DEF HalvesTogether
  <2> QED BY <2>6, <2>7
<1>7. CASE IsAccess(ex) /\ ex_valid(gnt, resp_valid)
  <2>1. /\ lsu_ready_ex(gnt, resp_valid) /\ ex_ready(gnt, resp_valid)
        /\ \/ count_up(gnt) /\ (cnt_q = 0 \/ resp_valid)
           \/ cnt_q = 2 /\ resp_valid
    BY <1>7, Handshake
  <2>2. cnt_q' = 1
    BY <1>1, <2>1
  <2>3. (regfile_we_lsu' <=> ex.kind = "load") /\ (data_we_q' <=> ex.kind = "store")
    BY <1>3, <1>7, <2>1
  <2>4. CounterExact'
    BY <1>1, <1>4, <1>7, <2>2, <2>3 DEF CounterExact
  <2>5. CASE ex' = ex /\ Splits(ex)
    <3>1. IsAccess(ex)' /\ Splits(ex)' /\ (ex.kind)' = ex.kind
      BY <1>7, <2>5 DEF IsAccess, Splits
    <3> QED BY <2>3, <2>4, <3>1 DEF HalvesTogether
  <2>6. CASE data_misaligned_ex' = FALSE
    BY <2>4, <2>6 DEF HalvesTogether
  <2> QED BY <1>7, <2>1, <2>5, <2>6, Moves
<1> QED BY <1>5, <1>6, <1>7

(* Bytes of the store in EX that the memory has, it keeps; the half that   *)
(* it accepts, it has then.                                                *)
LEMMA PerformStep ==
  ASSUME IInv, NEW gnt \in BOOLEAN, NEW resp_valid \in BOOLEAN, NEW next \in Instructions,
         Cycle(gnt, resp_valid, next), ex.kind = "store"
  PROVE  /\ \A w \in Word : Performed(mem, ex, w) => Performed(mem', ex, w)
         /\ count_up(gnt) => Performed(mem', ex, trans_word)
<1>1. /\ trans_word \in Word
      /\ \A l \in Lanes : l \in trans_be <=> Touches(ex, trans_word, l)
  BY HalfOfAccess DEF IInv, TypeOK, LsuTypeOK, HalvesTogether
<1>2. CASE ~count_up(gnt) /\ mem' = mem
  BY <1>2
<1>3. CASE count_up(gnt) \/ mem' # mem
  <2>1. \A l \in trans_be : mem'[trans_word][l] = ex.data[Index(ex, trans_word, l)]
    BY <1>3, MemoryStep
  <2>2. \A w \in Word, l \in Lanes : ~(w = trans_word /\ l \in trans_be) => mem'[w][l] = mem[w][l]
    BY <1>3, MemoryStep
  <2>3. Performed(mem', ex, trans_word)
    BY <1>1, <2>1 DEF Performed
  <2>4. ASSUME NEW w \in Word, Performed(mem, ex, w), w # trans_word
        PROVE  Performed(mem', ex, w)
    BY <2>2, <2>4 DEF Performed
  <2> QED BY <2>3, <2>4
<1> QED BY <1>2, <1>3

LEMMA PartsStep ==
  ASSUME IInv, NEW gnt \in BOOLEAN, NEW resp_valid \in BOOLEAN, NEW next \in Instructions,
         Cycle(gnt, resp_valid, next)
  PROVE  StorePerformed' /\ LoadAnswered'
<1>1. /\ cnt_q \in {0, 1, 2} /\ cnt_q' \in {0, 1, 2}
      /\ resp_valid => cnt_q # 0 /\ Answer(resp_valid) = pending[1]
      /\ count_up(gnt) <=> gnt /\ IsAccess(ex) /\ cnt_q < 2
      /\ cnt_q' = cnt_q + (IF count_up(gnt) THEN 1 ELSE 0) - (IF resp_valid THEN 1 ELSE 0)
  BY PendingStep
<1>2. /\ ex.word \in Word /\ trans_word \in Word
      /\ data_misaligned_ex \in BOOLEAN /\ data_we_q \in BOOLEAN
      /\ ~data_misaligned_ex => trans_word = ex.word
      /\ cnt_q = 2 => IsAccess(ex)
      /\ data_misaligned_ex => IsAccess(ex) /\ (cnt_q > 0 => (data_we_q <=> ex.kind = "store"))
  BY HalfOfAccess DEF IInv, TypeOK, LsuTypeOK, HalvesTogether, CounterExact, Instruction, trans_word
<1>3. CASE ~ex_ready(gnt, resp_valid) /\ ex' = ex /\ data_misaligned_ex' = data_misaligned_ex
  <2>1. trans_word' = trans_word
    BY <1>3 DEF trans_word
  <2>2. /\ count_up(gnt) => cnt_q # 0 /\ ~resp_valid
        /\ cnt_q = 2 => ~resp_valid
    BY <1>1, <1>2, <1>3, Handshake
  <2>3. StorePerformed'
    <3> SUFFICES ASSUME ex.kind = "store"
                 PROVE  /\ data_misaligned_ex => Performed(mem', ex, ex.word)
                        /\ cnt_q' = 2 => Performed(mem', ex, trans_word)
      BY <1>3, <2>1 DEF StorePerformed
    <3>1. data_misaligned_ex => Performed(mem', ex, ex.word)
      BY <1>2, PerformStep DEF IInv, StorePerformed
    <3>2. CASE count_up(gnt)
      BY <3>1, <3>2, PerformStep
    <3>3. CASE ~count_up(gnt)
      <4>1. cnt_q' = 2 => cnt_q = 2
        BY <1>1, <3>3
      <4> QED BY <1>2, <3>1, <4>1, PerformStep DEF IInv, StorePerformed
    <3> QED BY <3>2, <3>3
  <2>4. LoadAnswered'
    <3> SUFFICES ASSUME ex.kind = "load"
                 PROVE  /\ data_misaligned_ex => mem'[ex.word] = IF cnt_q' = 0 THEN rdata_q' ELSE pending'[1]
                        /\ cnt_q' = 2 => mem'[trans_word] = pending'[2]
      BY <1>3, <2>1 DEF LoadAnswered
    <3>1. mem' = mem
      BY MemoryStep
    <3>2. /\ data_misaligned_ex => mem[ex.word] = IF cnt_q = 0 THEN rdata_q ELSE pending[1]
          /\ cnt_q = 2 => mem[trans_word] = pending[2]
      BY DEF IInv, LoadAnswered
    <3>3. data_misaligned_ex => rdata_q' = IF resp_valid THEN pending[1] ELSE rdata_q
      BY <1>1, <1>2 DEF Cycle, LsuCycle, RdataStep
    <3>4. CASE resp_valid
      <4>1. cnt_q' = 0 /\ cnt_q # 0
        BY <1>1, <2>2, <3>4
      <4> QED BY <3>1, <3>2, <3>3, <3>4, <4>1
    <3>5. CASE ~resp_valid /\ count_up(gnt)
      <4>1. cnt_q # 0 /\ cnt_q' = 2
        BY <1>1, <2>2, <3>5
      <4>2. pending'[1] = pending[1] /\ pending'[2] = mem[trans_word]
        BY <3>5, <4>1, PendingStep
      <4> QED BY <3>1, <3>2, <4>1, <4>2
    <3>6. CASE ~resp_valid /\ ~count_up(gnt)
      <4>1. pending' = pending /\ cnt_q' = cnt_q
        BY <1>1, <3>6, PendingStep
      <4> QED BY <3>1, <3>2, <3>3, <3>6, <4>1
    <3> QED BY <3>4, <3>5, <3>6
  <2> QED BY <2>3, <2>4
<1>4. CASE /\ IsAccess(ex) /\ ex_valid(gnt, resp_valid) /\ ~data_misaligned_ex
           /\ ex' = ex /\ data_misaligned_ex' = TRUE
  <2>1. (count_up(gnt) /\ (cnt_q = 0 \/ resp_valid)) \/ (cnt_q = 2 /\ resp_valid)
    BY <1>4, Handshake
  <2>2. cnt_q' = 1
    BY <1>1, <2>1
  <2>3. trans_word = ex.word
    BY <1>2, <1>4
  <2>4. ex.kind = "store" => Performed(mem', ex, ex.word)
    BY <1>2, <2>1, <2>3, PerformStep DEF IInv, StorePerformed
  <2>5. ex.kind = "load" => mem'[ex.word] = pending'[1]
    <3>1. ex.kind = "load" => mem' = mem /\ (cnt_q = 2 => mem[ex.word] = pending[2])
      BY <2>3, MemoryStep DEF IInv, LoadAnswered
    <3>2. CASE count_up(gnt)
      BY <2>2, <2>3, <3>1, <3>2, PendingStep
    <3>3. CASE cnt_q = 2 /\ resp_valid
      BY <3>1, <3>3, PendingStep
    <3> QED BY <2>1, <3>2, <3>3
  <2> QED BY <1>4, <2>2, <2>4, <2>5 DEF StorePerformed, LoadAnswered
<1>5. CASE ex_ready(gnt, resp_valid) /\ data_misaligned_ex' = FALSE
  <2>1. cnt_q' # 2
    <3>1. CASE IsAccess(ex)
      BY <1>1, <1>5, <3>1, Handshake
    <3>2. CASE ~IsAccess(ex)
      BY <1>1, <1>2, <3>2
    <3> QED BY <3>1, <3>2
  <2> QED BY <1>5, <2>1 DEF StorePerformed, LoadAnswered
<1> QED BY <1>3, <1>4, <1>5, Moves

(* The inductive invariant of the load-store unit on its bus, for any      *)
(* memory size, contents and mix of accesses (assertions of                *)
(* load_store_unit.sv:517-545).                                            *)
THEOREM Invariance == Spec => []IInv
<1>1. Init => IInv
  BY Initial
<1>2. IInv /\ [Next]_vars => IInv'
  <2> SUFFICES ASSUME IInv, [Next]_vars
               PROVE  IInv'
    OBVIOUS
  <2>1. ASSUME NEW gnt \in BOOLEAN, NEW resp_valid \in BOOLEAN, NEW next \in Instructions,
               Cycle(gnt, resp_valid, next)
        PROVE  IInv'
    BY <2>1, TypeStep, CounterStep, PartsStep DEF IInv
  <2>2. CASE UNCHANGED vars
    BY <2>2 DEF vars, lsuVars, IInv, TypeOK, LsuTypeOK, CounterExact, HalvesTogether,
                StorePerformed, LoadAnswered, trans_word
  <2> QED BY <2>1, <2>2 DEF Next
<1> QED BY <1>1, <1>2, PTL DEF Spec

(* The load-store unit keeps a request that was not accepted, as the       *)
(* TRANS_STABLE = 1 of its bus interface promises.                         *)
THEOREM RequestStableHolds == Spec => RequestStable
<1>1. ASSUME IInv, NEW gnt \in BOOLEAN, NEW resp_valid \in BOOLEAN, NEW next \in Instructions,
             ~gnt, trans_valid, Cycle(gnt, resp_valid, next)
      PROVE  trans_valid' /\ UNCHANGED <<trans_word, trans_we, trans_be, trans_wdata>>
  <2>1. /\ cnt_q \in {0, 1, 2} /\ cnt_q' \in {0, 1, 2} /\ (resp_valid => cnt_q # 0)
        /\ ~count_up(gnt)
        /\ cnt_q' = cnt_q + (IF count_up(gnt) THEN 1 ELSE 0) - (IF resp_valid THEN 1 ELSE 0)
    BY <1>1, PendingStep
  <2>2. IsAccess(ex) /\ cnt_q < 2
    BY <1>1 DEF trans_valid, DEPTH
  <2>3. ~ex_ready(gnt, resp_valid) /\ ~ex_valid(gnt, resp_valid)
    BY <1>1, <2>1, <2>2, Handshake
  <2>4. ex' = ex /\ data_misaligned_ex' = data_misaligned_ex
    BY <1>1, <2>3, Moves
  <2>5. cnt_q' < 2
    BY <2>1, <2>2
  <2> QED BY <2>2, <2>4, <2>5 DEF trans_valid, DEPTH, IsAccess, trans_word, trans_we, trans_be, trans_wdata
<1>2. Spec => []IInv
  BY Invariance
<1>3. IInv /\ [Next]_vars =>
        [(\E resp_valid \in BOOLEAN, next \in Instructions : trans_valid /\ Cycle(FALSE, resp_valid, next))
           => /\ trans_valid'
              /\ UNCHANGED <<trans_word, trans_we, trans_be, trans_wdata>>]_vars
  <2>1. FALSE \in BOOLEAN /\ ~FALSE
    OBVIOUS
  <2> QED BY <1>1, <2>1, Zenon
<1> QED BY <1>2, <1>3, PTL DEF Spec, RequestStable

-----------------------------------------------------------------------------
(* ---- the refinement ----------------------------------------------------- *)
LEMMA AbstractOperators ==
  /\ \A m, a : DataMemory!Stored(m, a) = Stored(m, a)
  /\ \A m, a : DataMemory!Outcome(m, a) = Outcome(m, a)
  /\ \A a : DataMemory!IsAccess(a) <=> IsAccess(a)
<1>1. \A m, a : DataMemory!Stored(m, a) = Stored(m, a)
  BY DEF DataMemory!Stored, Stored, DataMemory!Touches, Touches, DataMemory!Index, Index,
         DataMemory!Word, Word, DataMemory!Lanes, Lanes
<1>2. \A m, a : DataMemory!Outcome(m, a) = Outcome(m, a)
  BY DEF DataMemory!Outcome, Outcome, DataMemory!Loaded, Loaded, DataMemory!ByteAt, ByteAt,
         DataMemory!Fill, Fill, DataMemory!Lanes, Lanes
<1>3. \A a : DataMemory!IsAccess(a) <=> IsAccess(a)
  BY DEF DataMemory!IsAccess, IsAccess
<1> QED BY <1>1, <1>2, <1>3

(* A store that the memory has in full is no longer to be seen in it.      *)
LEMMA StoredPerformed ==
  ASSUME NEW a \in Instruction, NEW m \in Memories, NEW n \in Memories, a.kind = "store",
         \A w \in Word : w \in {a.word, a.word + 1} => Performed(n, a, w),
         \A w \in Word, l \in Lanes : ~Touches(a, w, l) => n[w][l] = m[w][l]
  PROVE  Stored(m, a) = n
<1>1. Stored(m, a) = [w \in Word |-> [l \in Lanes |-> IF Touches(a, w, l) THEN a.data[Index(a, w, l)] ELSE m[w][l]]]
  BY DEF Stored
<1>2. \A w \in Word, l \in Lanes : Touches(a, w, l) => w \in {a.word, a.word + 1}
  BY DEF Touches
<1>3. \A w \in Word, l \in Lanes : n[w][l] = IF Touches(a, w, l) THEN a.data[Index(a, w, l)] ELSE m[w][l]
  BY <1>2 DEF Performed
<1>4. n = [w \in Word |-> n[w]] /\ \A w \in Word : n[w] = [l \in Lanes |-> n[w][l]]
  BY DEF Memories, Value
<1>5. \A w \in Word : n[w] = [l \in Lanes |-> IF Touches(a, w, l) THEN a.data[Index(a, w, l)] ELSE m[w][l]]
  BY <1>3, <1>4
<1> QED BY <1>1, <1>4, <1>5

(* The memory that programs see changes when an instruction enters EX.     *)
LEMMA CommittedStep ==
  ASSUME IInv, NEW gnt \in BOOLEAN, NEW resp_valid \in BOOLEAN, NEW next \in Instructions,
         Cycle(gnt, resp_valid, next)
  PROVE  /\ ex' = ex => Stored(mem', ex) = Stored(mem, ex)
         /\ ex_ready(gnt, resp_valid) /\ (Splits(ex) /\ IsAccess(ex) => data_misaligned_ex)
              => mem' = Stored(mem, ex)
<1>1. /\ ex \in Instruction /\ mem \in Memories /\ mem' \in Memories
      /\ data_misaligned_ex \in BOOLEAN
      /\ data_misaligned_ex => Splits(ex)
  BY MemoryStep DEF IInv, TypeOK, LsuTypeOK, HalvesTogether
<1>2. CASE ex.kind # "store"
  <2>1. mem' = mem
    BY <1>2, MemoryStep
  <2> QED BY <1>2, <2>1 DEF Stored
<1>3. CASE ex.kind = "store"
  <2>1. /\ trans_word \in Word /\ ex.word \in Int
        /\ trans_word = (IF data_misaligned_ex THEN ex.word + 1 ELSE ex.word)
        /\ \A l \in Lanes : l \in trans_be <=> Touches(ex, trans_word, l)
    BY <1>1, HalfOfAccess DEF trans_word, Instruction, Word
  <2>2. \A w \in Word, l \in Lanes : ~(w = trans_word /\ l \in trans_be) => mem'[w][l] = mem[w][l]
    BY <1>1, <1>3, MemoryStep
  <2>3. mem' # mem => \A l \in trans_be : mem'[trans_word][l] = ex.data[Index(ex, trans_word, l)]
    BY <1>3, MemoryStep
  <2>4. \A w \in Word, l \in Lanes : ~Touches(ex, w, l) => mem'[w][l] = mem[w][l]
    BY <2>1, <2>2
  <2>5. \A w \in Word, l \in Lanes :
           mem'[w][l] = mem[w][l] \/ (Touches(ex, w, l) /\ mem'[w][l] = ex.data[Index(ex, w, l)])
    <3>1. CASE mem' # mem
      BY <2>1, <2>2, <2>3, <3>1
    <3>2. CASE mem' = mem
      BY <3>2
    <3> QED BY <3>1, <3>2
  <2>6. Stored(mem', ex) = Stored(mem, ex)
    BY <1>3, <2>5 DEF Stored
  <2>7. ASSUME ex_ready(gnt, resp_valid), Splits(ex) => data_misaligned_ex
        PROVE  mem' = Stored(mem, ex)
    <3>1. IsAccess(ex)
      BY <1>3 DEF IsAccess
    <3>2. count_up(gnt) \/ cnt_q = 2
      BY <2>7, <3>1, Handshake
    <3>3. Performed(mem', ex, trans_word)
      BY <1>3, <2>1, <3>2, PerformStep DEF IInv, StorePerformed
    <3>4. data_misaligned_ex => Performed(mem', ex, ex.word)
      BY <1>1, <1>3, PerformStep DEF IInv, StorePerformed, Instruction
    <3>5. ASSUME NEW w \in Word, w \in {ex.word, ex.word + 1}
          PROVE  Performed(mem', ex, w)
      <4>1. CASE w = trans_word
        BY <3>3, <4>1
      <4>2. CASE w # trans_word /\ data_misaligned_ex
        BY <2>1, <3>4, <3>5, <4>2
      <4>3. CASE w # trans_word /\ ~data_misaligned_ex
        <5>1. ~Splits(ex) /\ w = ex.word + 1
          BY <2>1, <2>7, <3>5, <4>3
        <5>2. \A l \in Lanes : ~Touches(ex, w, l)
          BY <1>1, <2>1, <5>1 DEF Touches, Index, Splits, Lanes, Instruction
        <5> QED BY <5>2 DEF Performed
      <4> QED BY <4>1, <4>2, <4>3
    <3> QED BY <1>1, <1>3, <2>4, <3>5, StoredPerformed
  <2>8. IsAccess(ex)
    BY <1>3 DEF IsAccess
  <2> QED BY <2>6, <2>7, <2>8
<1> QED BY <1>2, <1>3

(* The load that leaves EX takes with it the bytes that it is owed.        *)
LEMMA LeavingStep ==
  ASSUME IInv, NEW gnt \in BOOLEAN, NEW resp_valid \in BOOLEAN, NEW next \in Instructions,
         Cycle(gnt, resp_valid, next),
         IsAccess(ex), ex_ready(gnt, resp_valid), Splits(ex) => data_misaligned_ex
  PROVE  /\ cnt_q' = 1
         /\ regfile_we_lsu' <=> ex.kind = "load"
         /\ ex.kind = "load" => (data_rdata_ext(Head(pending)))' = Loaded(mem, ex)
<1>1. /\ cnt_q \in {0, 1, 2} /\ cnt_q' \in {0, 1, 2}
      /\ resp_valid => cnt_q # 0 /\ Answer(resp_valid) = pending[1]
      /\ cnt_q' = Len(pending') /\ pending' \in Seq(Value)
      /\ cnt_q' = cnt_q + (IF count_up(gnt) THEN 1 ELSE 0) - (IF resp_valid THEN 1 ELSE 0)
      /\ count_up(gnt) => cnt_q < 2
  BY PendingStep
<1>2. /\ lsu_ready_ex(gnt, resp_valid) /\ ex_valid(gnt, resp_valid)
      /\ (count_up(gnt) /\ (cnt_q = 0 \/ resp_valid)) \/ (cnt_q = 2 /\ resp_valid)
  BY Handshake
<1>3. cnt_q' = 1
  BY <1>1, <1>2
<1>4. regfile_we_lsu' <=> ex.kind = "load"
  BY <1>2 DEF Cycle, LsuCycle, ExWbStep
<1>5. ASSUME ex.kind = "load"
      PROVE  (data_rdata_ext(Head(pending)))' = Loaded(mem, ex)
  <2>1. data_type_q' = ex.size /\ rdata_offset_q' = ex.off /\ data_sign_ext_q' = ex.signed
    BY <1>2 DEF Cycle, LsuCycle, ExWbStep
  <2>2. Head(pending') = pending'[1]
    BY <1>1, <1>3
  <2>3. pending'[1] = mem[trans_word]
    <3>1. CASE count_up(gnt)
      BY <1>3, <3>1, PendingStep
    <3>2. CASE cnt_q = 2 /\ resp_valid
      BY <1>5, <3>2, PendingStep DEF IInv, LoadAnswered
    <3> QED BY <1>2, <3>1, <3>2
  <2>4. /\ ex \in Instruction /\ mem \in Memories
        /\ data_misaligned_ex \in BOOLEAN /\ data_we_q \in BOOLEAN
        /\ data_misaligned_ex <=> Splits(ex)
        /\ data_misaligned_ex /\ cnt_q > 0 => ~data_we_q
    BY <1>5 DEF IInv, TypeOK, LsuTypeOK, HalvesTogether, Splits
  <2>5. Splits(ex) => rdata_q' = mem[ex.word]
    <3>1. Splits(ex) => mem[ex.word] = IF cnt_q = 0 THEN rdata_q ELSE pending[1]
      BY <1>5, <2>4 DEF IInv, LoadAnswered
    <3>2. Splits(ex) => rdata_q' = IF ~resp_valid \/ data_we_q THEN rdata_q ELSE Answer(resp_valid)
      BY <2>4 DEF Cycle, LsuCycle, RdataStep
    <3> QED BY <1>1, <1>2, <2>4, <3>1, <3>2
  <2>6. trans_word = IF Splits(ex) THEN ex.word + 1 ELSE ex.word
    BY <2>4 DEF trans_word
  <2>7. Extended(ex.size, ex.off, ex.signed, rdata_q', pending'[1]) = Loaded(mem, ex)
    BY <2>3, <2>4, <2>5, <2>6, ExtendedIsLoaded
  <2> QED BY <2>1, <2>2, <2>7 DEF data_rdata_ext
<1> QED BY <1>3, <1>4, <1>5

(* A load that still waits in WB will get what it was owed.                *)
LEMMA WaitingStep ==
  ASSUME IInv, NEW gnt \in BOOLEAN, NEW resp_valid \in BOOLEAN, NEW next \in Instructions,
         Cycle(gnt, resp_valid, next),
         cnt_q # 0, ~resp_valid
  PROVE  /\ regfile_we_lsu' <=> regfile_we_lsu
         /\ (data_rdata_ext(Head(pending)))' = data_rdata_ext(Head(pending))
         /\ cnt_q' # 0
<1>1. /\ cnt_q \in {0, 1, 2} /\ cnt_q' \in {0, 1, 2} /\ cnt_q = Len(pending) /\ cnt_q' = Len(pending')
      /\ pending \in Seq(Value) /\ pending' \in Seq(Value)
      /\ cnt_q' = cnt_q + (IF count_up(gnt) THEN 1 ELSE 0) - (IF resp_valid THEN 1 ELSE 0)
      /\ pending'[1] = pending[1]
  BY PendingStep DEF IInv, TypeOK
<1>2. cnt_q' # 0
  BY <1>1
<1>3. Head(pending') = Head(pending)
  BY <1>1, <1>2
<1>4. ~ex_valid(gnt, resp_valid) /\ ~(lsu_ready_ex(gnt, resp_valid) /\ IsAccess(ex))
  BY Handshake
<1>5. regfile_we_lsu \in BOOLEAN /\ ~lsu_ready_wb(resp_valid)
  BY Handshake DEF IInv, TypeOK, LsuTypeOK
<1>6. /\ regfile_we_lsu' <=> regfile_we_lsu
      /\ data_type_q' = data_type_q /\ rdata_offset_q' = rdata_offset_q
      /\ data_sign_ext_q' = data_sign_ext_q /\ rdata_q' = rdata_q
  BY <1>4, <1>5 DEF Cycle, LsuCycle, ExWbStep, RdataStep
<1> QED BY <1>2, <1>3, <1>6 DEF data_rdata_ext

LEMMA ShortSequences ==
  /\ \A s \in Seq(Value) : s # <<>> <=> Len(s) # 0
  /\ \A x : <<>> \o << x >> = << x >> /\ << x >> \o <<>> = << x >> /\ Append(<<>>, x) = << x >>
  /\ <<>> \o <<>> = <<>>
  /\ \A x, y : << x >> \o << y >> = Append(<< x >>, y) /\ Len(Append(<< x >>, y)) = 2
  /\ \A x : Len(Append(<<>>, x)) = 1 /\ Len(<< x >>) = 1
  /\ Len(<<>>) = 0
<1>1. \A s \in Seq(Value) : s # <<>> <=> Len(s) # 0
  OBVIOUS
<1>2. \A x : <<>> \o << x >> = << x >> /\ << x >> \o <<>> = << x >> /\ Append(<<>>, x) = << x >>
  OBVIOUS
<1>3. <<>> \o <<>> = <<>>
  OBVIOUS
<1>4. \A x, y : << x >> \o << y >> = Append(<< x >>, y) /\ Len(Append(<< x >>, y)) = 2
  OBVIOUS
<1>5. \A x : Len(Append(<<>>, x)) = 1 /\ Len(<< x >>) = 1
  OBVIOUS
<1>6. Len(<<>>) = 0
  OBVIOUS
<1> QED BY <1>1, <1>2, <1>3, <1>4, <1>5, <1>6

(* What the accesses under way are owed after a cycle.                     *)
LEMMA OwedStep ==
  ASSUME IInv, NEW gnt \in BOOLEAN, NEW resp_valid \in BOOLEAN, NEW next \in Instructions,
         Cycle(gnt, resp_valid, next),
         NEW a, a = IF ex_ready(gnt, resp_valid) /\ ~data_misaligned_o THEN next ELSE NoInstr
  PROVE  DataMemory!Step(Finishes(resp_valid), a)
<1> DEFINE wb == IF regfile_we_lsu THEN data_rdata_ext(Head(pending)) ELSE NoData
           wbPart == IF InWb THEN << wb >> ELSE <<>>
           exPart == IF IsAccess(ex) THEN << Outcome(mem, ex) >> ELSE <<>>
           newPart == IF IsAccess(a) THEN << Outcome(Committed, a) >> ELSE <<>>
           rest == IF Finishes(resp_valid) THEN Tail(Owed) ELSE Owed
<1>1. /\ cnt_q \in {0, 1, 2} /\ cnt_q' \in {0, 1, 2} /\ cnt_q = Len(pending) /\ cnt_q' = Len(pending')
      /\ pending \in Seq(Value) /\ pending' \in Seq(Value)
      /\ resp_valid => cnt_q # 0 /\ Answer(resp_valid) = pending[1]
      /\ count_up(gnt) <=> gnt /\ IsAccess(ex) /\ cnt_q < 2
      /\ cnt_q' = cnt_q + (IF count_up(gnt) THEN 1 ELSE 0) - (IF resp_valid THEN 1 ELSE 0)
  BY PendingStep DEF IInv, TypeOK
<1>2. /\ data_misaligned_ex \in BOOLEAN
      /\ data_misaligned_ex => IsAccess(ex) /\ Splits(ex)
      /\ cnt_q = 2 => IsAccess(ex)
  BY DEF IInv, TypeOK, LsuTypeOK, HalvesTogether, CounterExact
<1>3. data_misaligned_o <=> IsAccess(ex) /\ Splits(ex) /\ ~data_misaligned_ex
  BY Handshake
<1>4. Finishes(resp_valid) <=> resp_valid /\ ~data_misaligned_ex
  BY DEF Finishes
<1>5. InWb <=> cnt_q # 0 /\ ~data_misaligned_ex
  BY <1>1 DEF InWb
<1>6. InWb' <=> cnt_q' # 0 /\ ~data_misaligned_ex'
  <2>1. (pending' # <<>>) <=> cnt_q' # 0
    BY <1>1, ShortSequences
  <2> QED BY <2>1, Zenon DEF InWb
<1>7. Owed = wbPart \o exPart
  BY DEF Owed
<1>8. delivered' = IF Finishes(resp_valid) THEN Head(Owed) ELSE NoData
  <2>1. CASE Finishes(resp_valid)
    <3>1. InWb /\ resp_valid
      BY <1>1, <1>4, <1>5, <2>1
    <3>2. Head(Owed) = wb
      BY <1>7, <3>1
    <3>3. Answer(resp_valid) = Head(pending)
      BY <3>1 DEF Answer
    <3>4. delivered' = IF regfile_we_lsu THEN data_rdata_ext(Answer(resp_valid)) ELSE NoData
      BY <2>1 DEF Cycle, LsuCycle
    <3> QED BY <2>1, <3>2, <3>3, <3>4
  <2>2. CASE ~Finishes(resp_valid)
    BY <2>2 DEF Cycle, LsuCycle
  <2> QED BY <2>1, <2>2
<1>9. rest = (IF InWb /\ ~resp_valid THEN << wb >> ELSE <<>>) \o exPart
  BY <1>1, <1>4, <1>5, <1>7
<1>10. Finishes(resp_valid) => Owed # <<>>
  BY <1>1, <1>4, <1>5, <1>7
<1>11. IsAccess(ex) => (ex_ready(gnt, resp_valid) <=>
                         (count_up(gnt) /\ (cnt_q = 0 \/ resp_valid)) \/ (cnt_q = 2 /\ resp_valid))
  BY Handshake
(* After a cycle in which EX takes nothing new: what is left of before.    *)
<1>13. CASE /\ a = NoInstr /\ ex' = ex
            /\ InWb' <=> InWb /\ ~resp_valid
  <2>1. Committed' = Committed
    BY <1>13, CommittedStep DEF Committed
  <2>2. IsAccess(ex)' <=> IsAccess(ex)
    BY <1>13 DEF IsAccess
  <2>3. Outcome(mem', ex) = Outcome(mem, ex)
    BY MemoryStep DEF Outcome
  <2>4. InWb' => wb' = wb
    BY <1>5, <1>13, WaitingStep
  <2>5. Owed' = rest
    BY <1>9, <1>13, <2>2, <2>3, <2>4 DEF Owed
  <2>6. ~IsAccess(a) /\ Stored(Committed, a) = Committed
    BY <1>13 DEF IsAccess, Stored, NoInstr
  <2>7. Len(rest) <= 2
    BY <1>9
  <2> QED BY <1>8, <1>10, <2>1, <2>5, <2>6, <2>7, AbstractOperators DEF DataMemory!Step
<1>14. CASE /\ a = next /\ ex' = next /\ data_misaligned_ex' = FALSE
            /\ ex_ready(gnt, resp_valid) /\ (Splits(ex) /\ IsAccess(ex) => data_misaligned_ex)
  <2>1. mem' = Committed /\ Committed' = Stored(Committed, a)
    BY <1>14, CommittedStep DEF Committed
  <2>2. Owed' = rest \o newPart
    <3>1. Owed' = (IF InWb' THEN << wb' >> ELSE <<>>) \o newPart
      BY <1>14, <2>1 DEF Owed, IsAccess
    <3>2. CASE IsAccess(ex)
      <4>1. /\ InWb' /\ wb' = Outcome(mem, ex)
        BY <1>6, <1>14, <3>2, LeavingStep DEF Outcome
      <4>2. ~(InWb /\ ~resp_valid)
        BY <1>1, <1>5, <1>11, <1>14, <3>2
      <4>3. rest = << Outcome(mem, ex) >>
        BY <1>9, <3>2, <4>2, ShortSequences
      <4> HIDE DEF rest, newPart
      <4> QED BY <3>1, <4>1, <4>3
    <3>3. CASE ~IsAccess(ex)
      <4>1. InWb' <=> InWb /\ ~resp_valid
        BY <1>1, <1>2, <1>5, <1>6, <1>14, <3>3
      <4>2. InWb' => wb' = wb
        BY <1>5, <4>1, WaitingStep
      <4>3. rest = IF InWb /\ ~resp_valid THEN << wb >> ELSE <<>>
        BY <1>9, <3>3, ShortSequences
      <4>4. rest = IF InWb' THEN << wb' >> ELSE <<>>
        BY <4>1, <4>2, <4>3
      <4> HIDE DEF rest, newPart
      <4> QED BY <3>1, <4>4
    <3> QED BY <3>2, <3>3
  <2>3. \/ rest = <<>>
        \/ rest = << wb >>
        \/ rest = << Outcome(mem, ex) >>
    <3>1. ~(InWb /\ ~resp_valid) \/ ~IsAccess(ex)
      BY <1>1, <1>2, <1>5, <1>11, <1>14
    <3> QED BY <1>9, <3>1, ShortSequences
  <2>4. Owed' = IF IsAccess(a) THEN Append(rest, Outcome(Committed, a)) ELSE rest
    <3> HIDE DEF rest, wb
    <3> QED BY <2>2, <2>3, ShortSequences
  <2>5. Len(Owed') <= 2
    <3> HIDE DEF rest, wb
    <3> QED BY <2>3, <2>4, ShortSequences
  <2> QED BY <1>8, <1>10, <2>1, <2>4, <2>5, AbstractOperators DEF DataMemory!Step
<1>15. CASE ~ex_ready(gnt, resp_valid) /\ ex' = ex /\ data_misaligned_ex' = data_misaligned_ex
  <2>1. InWb' <=> InWb /\ ~resp_valid
    <3>1. CASE IsAccess(ex)
      BY <1>1, <1>5, <1>6, <1>11, <1>15, <3>1
    <3>2. CASE ~IsAccess(ex)
      BY <1>1, <1>2, <1>5, <1>6, <1>15, <3>2, Handshake
    <3> QED BY <3>1, <3>2
  <2> QED BY <1>13, <1>15, <2>1
<1>16. CASE /\ IsAccess(ex) /\ ex_valid(gnt, resp_valid) /\ Splits(ex) /\ ~data_misaligned_ex
            /\ ex' = ex /\ data_misaligned_ex' = TRUE
  <2>1. ex_ready(gnt, resp_valid) /\ data_misaligned_o
    BY <1>3, <1>16, Handshake
  <2>2. ~InWb' /\ ~(InWb /\ ~resp_valid)
    BY <1>1, <1>5, <1>6, <1>11, <1>16, <2>1
  <2> QED BY <1>13, <1>16, <2>1, <2>2
<1>17. CASE /\ ex_ready(gnt, resp_valid) /\ (Splits(ex) /\ IsAccess(ex) => data_misaligned_ex)
            /\ ex' = next /\ data_misaligned_ex' = FALSE
  <2>1. ~data_misaligned_o
    BY <1>3, <1>17
  <2> QED BY <1>14, <1>17, <2>1
<1> QED BY <1>15, <1>16, <1>17, Moves

(* Loads and stores behave as if each was made at once, one at a time and  *)
(* in program order, whatever their size and alignment and whatever the    *)
(* bus delays (load_store_unit.sv with id_stage.sv:1485-1612).             *)
THEOREM Refinement == Spec => ImplementsDataMemory
<1>1. Init => DataMemory!Init
  <2> SUFFICES ASSUME Init PROVE DataMemory!Init
    OBVIOUS
  <2>1. Committed = mem /\ ~IsAccess(ex)
    BY DEF Init, LsuInit, Committed, Stored, NoInstr, IsAccess
  <2>2. Owed = <<>>
    BY <2>1 DEF Init, Owed, InWb
  <2> QED BY <2>1, <2>2 DEF Init, LsuInit, DataMemory!Init
<1>2. IInv /\ [Next]_vars => [DataMemory!Next]_DataMemory!vars
  <2> SUFFICES ASSUME IInv, [Next]_vars PROVE [DataMemory!Next]_DataMemory!vars
    OBVIOUS
  <2>1. ASSUME NEW gnt \in BOOLEAN, NEW resp_valid \in BOOLEAN, NEW next \in Instructions,
               Cycle(gnt, resp_valid, next)
        PROVE  DataMemory!Next
    <3> DEFINE a == IF ex_ready(gnt, resp_valid) /\ ~data_misaligned_o THEN next ELSE NoInstr
    <3>1. a \in Instructions
      BY InstructionsAssumption
    <3>2. Finishes(resp_valid) \in BOOLEAN
      BY DEF Finishes
    <3>3. DataMemory!Step(Finishes(resp_valid), a)
      BY <2>1, OwedStep
    <3> QED BY <3>1, <3>2, <3>3 DEF DataMemory!Next
  <2>2. CASE UNCHANGED vars
    BY <2>2 DEF vars, lsuVars, DataMemory!vars, Committed, Owed, InWb, data_rdata_ext
  <2> QED BY <2>1, <2>2 DEF Next
<1> QED BY <1>1, <1>2, Invariance, PTL DEF Spec, ImplementsDataMemory, DataMemory!Spec
=============================================================================
