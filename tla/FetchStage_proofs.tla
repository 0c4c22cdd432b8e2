-------------------------- MODULE FetchStage_proofs --------------------------
(***************************************************************************)
(* Proofs about FetchStage and the prefetch buffer in it, for any program, *)
(* any memory size and any FIFO depth: a clock edge preserves BufferInv,   *)
(* the word that the buffer offers is the one that is owed, and the IF     *)
(* stage delivers the instruction stream, whatever branches, stalls and    *)
(* bus delays come together.  With the FIFO of this core it also delivers  *)
(* every instruction in the end, as long as its cycles stay possible.      *)
(***************************************************************************)
EXTENDS FetchStage, TLAPS

(* ---- the prefetch buffer ---------------------------------------------- *)
(* A cycle of the bus, in which the IF stage takes at most what it sees.   *)
Driven(in, ready) ==
  /\ in.req \in BOOLEAN /\ in.branch \in BOOLEAN /\ in.gnt \in BOOLEAN /\ in.rvalid \in BOOLEAN
  /\ in.pc \in Half
  /\ ready \in BOOLEAN /\ (ready => fetch_valid(in))
  /\ LegalBus(in)

(* One answered, one accepted, one taken in this cycle.                    *)
Answers(in) == IF in.rvalid THEN 1 ELSE 0
Accepts(in) == IF count_up(in) THEN 1 ELSE 0
Takes(ready) == IF ready THEN 1 ELSE 0

(* Word addresses stay in memory.                                          *)
LEMMA AddressTypes ==
  /\ \A a \in Word : Succ(a) \in Word
  /\ \A h \in Half : WordOf(h) \in Word
<1>1. \A a \in Word : Succ(a) \in Word
  BY WordsAssumption DEF Word, Succ
<1>2. \A h \in Half : WordOf(h) \in Word
  BY WordsAssumption DEF Word, Half, WordOf
<1> QED BY <1>1, <1>2

(* The pointer arithmetic of the FIFO: slots wrap, one slot after another, *)
(* and different entries have different slots.                             *)
LEMMA SlotArithmetic ==
  ASSUME read_pointer_q \in Slots
  PROVE  /\ \A i \in 0..(DEPTH - 1) : Slot(i) \in Slots
         /\ \A i, j \in 0..(DEPTH - 1) : i # j => Slot(i) # Slot(j)
         /\ \A i \in 0..(DEPTH - 2) : Slot(i + 1) = NextSlot(Slot(i))
         /\ NextSlot(Slot(DEPTH - 1)) = read_pointer_q
         /\ Slot(0) = read_pointer_q
BY DepthAssumption DEF Slots, Slot, NextSlot

(* Taking an entry moves every other one forward by one.                   *)
LEMMA SlotAfterPop ==
  ASSUME read_pointer_q \in Slots, read_pointer_q' = NextSlot(read_pointer_q)
  PROVE  /\ read_pointer_q' \in Slots
         /\ \A i \in 0..(DEPTH - 2) : Slot(i)' = Slot(i + 1)
         /\ Slot(DEPTH - 1)' = Slot(0)
BY DepthAssumption DEF Slots, Slot, NextSlot

(* The address of a request is a word address.                             *)
LEMMA RequestAddress ==
  ASSUME BufferInv, NEW in, NEW ready, Driven(in, ready)
  PROVE  trans_addr(in) \in Word /\ obi_addr(in) \in Word
BY AddressTypes DEF BufferInv, BufferTypeOK, Driven, trans_addr, obi_addr

(* The requests in flight: the oldest leaves with an answer, the new one   *)
(* is the last, whether the bus grants it at once, later, or both kinds    *)
(* meet.                                                                   *)
LEMMA RequestsShift ==
  ASSUME BufferInv, NEW in, NEW ready, Driven(in, ready), ObiStep(in), MemoryStep(in)
  PROVE  /\ granted' \in Seq(Word) /\ obi_addr_q' \in Word
         /\ obi_state_q' \in {"TRANSPARENT", "REGISTERED"}
         /\ InFlight \in Nat
         /\ InFlight' = (InFlight - Answers(in)) + Accepts(in)
         /\ in.rvalid => InFlight > 0 /\ Head(granted) = Request(1)
         /\ \A j \in 1..InFlight' :
              Request(j)' = IF j + Answers(in) <= InFlight THEN Request(j + Answers(in))
                                                           ELSE trans_addr(in)
<1> DEFINE rest == IF in.rvalid THEN Tail(granted) ELSE granted
           s == Answers(in)
<1>1. /\ granted \in Seq(Word) /\ obi_addr_q \in Word /\ Len(granted) \in Nat
      /\ obi_state_q \in {"TRANSPARENT", "REGISTERED"}
      /\ trans_addr(in) \in Word /\ obi_addr(in) \in Word
  BY RequestAddress DEF BufferInv, BufferTypeOK
<1>2. in.rvalid => granted # <<>> /\ Head(granted) = granted[1] /\ Len(granted) > 0
  BY <1>1 DEF Driven, LegalBus
<1>3. /\ rest \in Seq(Word) /\ Len(rest) = Len(granted) - s
      /\ \A j \in 1..Len(rest) : rest[j] = granted[j + s]
  <2>1. CASE in.rvalid
    BY <1>1, <1>2, <2>1 DEF Answers
  <2>2. CASE ~in.rvalid
    BY <1>1, <2>2 DEF Answers
  <2> QED BY <2>1, <2>2 DEF Driven
<1>4. obi_state_q' \in {"TRANSPARENT", "REGISTERED"} /\ obi_addr_q' \in Word
  BY <1>1 DEF ObiStep
<1> HIDE DEF rest
<1>5. CASE in.gnt
  <2>1. obi_req(in) /\ granted' = Append(rest, obi_addr(in))
    BY <1>5 DEF MemoryStep, rest, Driven, LegalBus
  <2>2. /\ granted' \in Seq(Word) /\ Len(granted') = Len(rest) + 1
        /\ granted'[Len(rest) + 1] = obi_addr(in)
        /\ \A j \in 1..Len(rest) : granted'[j] = rest[j]
    BY <1>1, <1>3, <2>1
  <2>3. obi_state_q' = "TRANSPARENT"
    BY <1>5 DEF ObiStep
  <2>4. CASE obi_state_q = "REGISTERED"
    BY <1>1, <1>2, <1>3, <1>4, <2>2, <2>3, <2>4 DEF InFlight, Request, Accepts, Answers, count_up, trans_ready, obi_addr
  <2>5. CASE obi_state_q = "TRANSPARENT"
    BY <1>1, <1>2, <1>3, <1>4, <2>1, <2>2, <2>3, <2>5
       DEF InFlight, Request, Accepts, Answers, count_up, trans_ready, obi_addr, obi_req
  <2> QED BY <1>1, <2>4, <2>5
<1>6. CASE ~in.gnt
  <2>1. granted' = rest
    BY <1>6 DEF MemoryStep, rest
  <2>2. CASE obi_state_q = "REGISTERED"
    <3>1. obi_state_q' = "REGISTERED" /\ obi_addr_q' = obi_addr_q
      BY <1>6, <2>2 DEF ObiStep, obi_req, trans_ready
    <3> QED BY <1>1, <1>2, <1>3, <1>4, <2>1, <2>2, <3>1 DEF InFlight, Request, Accepts, Answers, count_up, trans_ready
  <2>3. CASE obi_state_q = "TRANSPARENT" /\ trans_valid(in)
    <3>1. obi_state_q' = "REGISTERED" /\ obi_addr_q' = trans_addr(in)
      BY <1>6, <2>3 DEF ObiStep, obi_req, trans_ready, obi_addr
    <3> QED BY <1>1, <1>2, <1>3, <1>4, <2>1, <2>3, <3>1 DEF InFlight, Request, Accepts, Answers, count_up, trans_ready
  <2>4. CASE obi_state_q = "TRANSPARENT" /\ ~trans_valid(in)
    <3>1. obi_state_q' = "TRANSPARENT"
      BY <1>6, <2>4 DEF ObiStep, obi_req, trans_ready
    <3> QED BY <1>1, <1>2, <1>3, <1>4, <2>1, <2>4, <3>1 DEF InFlight, Request, Accepts, Answers, count_up, trans_ready
  <2> QED BY <1>1, <2>2, <2>3, <2>4
<1> QED BY <1>5, <1>6 DEF Driven

Pushes(in, ready) == IF fifo_push(in, ready) THEN 1 ELSE 0
Pops(ready)       == IF fifo_pop(ready) THEN 1 ELSE 0

(* A live answer always finds room: it is pushed whenever it is not taken. *)
LEMMA NeverFull ==
  ASSUME BufferInv, NEW in, NEW ready, Driven(in, ready), in.rvalid, ~flushing
  PROVE  ~fifo_full /\ status_cnt_q \in 0..(DEPTH - 1) /\ cnt_q > 0
<1>1. granted \in Seq(Word) /\ granted # <<>>
  BY DEF BufferInv, BufferTypeOK, Driven, LegalBus
<1>2. Len(granted) \in Nat /\ Len(granted) > 0
  BY <1>1
<1> QED BY <1>2, DepthAssumption
        DEF BufferInv, BufferTypeOK, CountersExact, RoomForAnswers, InFlight, LiveWords, flushing, fifo_full

(* The entries of the FIFO: the taken one leaves, the pushed one is last.  *)
LEMMA EntriesShift ==
  ASSUME BufferInv, NEW in, NEW ready, Driven(in, ready), ~in.branch, FifoStep(in, ready)
  PROVE  /\ read_pointer_q' \in Slots /\ write_pointer_q' \in Slots
         /\ mem_q' \in [Slots -> Word \cup {NoWord}]
         /\ status_cnt_q' = (status_cnt_q + Pushes(in, ready)) - Pops(ready)
         /\ status_cnt_q' \in 0..DEPTH
         /\ (write_pointer_q = Slot(IF status_cnt_q = DEPTH THEN 0 ELSE status_cnt_q))'
         /\ \A i \in 0..(DEPTH - 1) : i < status_cnt_q' =>
              mem_q'[Slot(i)'] = IF i + Pops(ready) < status_cnt_q THEN mem_q[Slot(i + Pops(ready))]
                                                                  ELSE Head(granted)
<1> DEFINE push == fifo_push(in, ready)
           pop  == fifo_pop(ready)
<1>1. /\ read_pointer_q \in Slots /\ write_pointer_q \in Slots /\ status_cnt_q \in 0..DEPTH
      /\ mem_q \in [Slots -> Word \cup {NoWord}] /\ granted \in Seq(Word)
      /\ write_pointer_q = Slot(IF status_cnt_q = DEPTH THEN 0 ELSE status_cnt_q)
      /\ DEPTH \in Nat /\ DEPTH > 1
  BY DepthAssumption DEF BufferInv, BufferTypeOK, RoomForAnswers
<1>2. push => status_cnt_q < DEPTH /\ ~fifo_full /\ Head(granted) \in Word
  <2>1. push => in.rvalid /\ ~flushing
    BY DEF fifo_push
  <2>2. push => granted # <<>>
    BY <2>1 DEF Driven, LegalBus
  <2> QED BY <1>1, <2>1, <2>2, NeverFull
<1>3. pop => status_cnt_q > 0
  BY <1>1 DEF fifo_pop, fifo_empty
<1>4. /\ mem_q' = IF push THEN [mem_q EXCEPT ![write_pointer_q] = Head(granted)] ELSE mem_q
      /\ write_pointer_q' = IF push THEN NextSlot(write_pointer_q) ELSE write_pointer_q
      /\ read_pointer_q'  = IF pop THEN NextSlot(read_pointer_q) ELSE read_pointer_q
      /\ status_cnt_q' = (status_cnt_q + Pushes(in, ready)) - Pops(ready)
  BY <1>2 DEF FifoStep, Pushes, Pops
<1>5. status_cnt_q' \in 0..DEPTH
  BY <1>1, <1>2, <1>3, <1>4 DEF Pushes, Pops
<1>6. mem_q' \in [Slots -> Word \cup {NoWord}]
  BY <1>1, <1>2, <1>4
<1>7. read_pointer_q' \in Slots /\ write_pointer_q' \in Slots
  BY <1>1, <1>4, DepthAssumption DEF Slots, NextSlot
<1>8. \A i \in 0..(DEPTH - 1) : i < status_cnt_q => mem_q'[Slot(i)] = mem_q[Slot(i)]
  BY <1>1, <1>2, <1>4, SlotArithmetic
<1>9. push => mem_q'[Slot(status_cnt_q)] = Head(granted)
  BY <1>1, <1>2, <1>4, SlotArithmetic
<1>10. CASE pop
  <2>1. Pops(ready) = 1 /\ status_cnt_q > 0 /\ read_pointer_q' = NextSlot(read_pointer_q)
    BY <1>3, <1>4, <1>10 DEF Pops
  <2>2. /\ \A i \in 0..(DEPTH - 2) : Slot(i)' = Slot(i + 1)
        /\ Slot(DEPTH - 1)' = Slot(0)
    BY <1>1, <2>1, SlotAfterPop
  <2>3. \A i \in 0..(DEPTH - 1) : i < status_cnt_q' =>
          mem_q'[Slot(i)'] = IF i + 1 < status_cnt_q THEN mem_q[Slot(i + 1)] ELSE Head(granted)
    BY <1>1, <1>2, <1>4, <1>5, <1>8, <1>9, <2>1, <2>2 DEF Pushes
  <2>4. (write_pointer_q = Slot(IF status_cnt_q = DEPTH THEN 0 ELSE status_cnt_q))'
    BY <1>1, <1>2, <1>4, <1>5, <1>7, <2>1 DEF Pushes, Slot, Slots, NextSlot
  <2> QED BY <1>4, <1>5, <1>6, <1>7, <2>1, <2>3, <2>4
<1>11. CASE ~pop
  <2>1. Pops(ready) = 0 /\ read_pointer_q' = read_pointer_q
    BY <1>4, <1>11 DEF Pops
  <2>2. \A i \in 0..(DEPTH - 1) : Slot(i)' = Slot(i)
    BY <2>1 DEF Slot
  <2>3. \A i \in 0..(DEPTH - 1) : i < status_cnt_q' =>
          mem_q'[Slot(i)'] = IF i < status_cnt_q THEN mem_q[Slot(i)] ELSE Head(granted)
    BY <1>1, <1>2, <1>4, <1>5, <1>8, <1>9, <2>1, <2>2 DEF Pushes
  <2>4. (write_pointer_q = Slot(IF status_cnt_q = DEPTH THEN 0 ELSE status_cnt_q))'
    BY <1>1, <1>2, <1>4, <1>5, <1>7, <2>1 DEF Pushes, Slot, Slots, NextSlot
  <2> QED BY <1>1, <1>4, <1>5, <1>6, <1>7, <2>1, <2>3, <2>4
<1> QED BY <1>10, <1>11

(* The word that the buffer offers is the one that is owed.                *)
LEMMA FetchedIsOwed ==
  ASSUME BufferInv, NEW in, NEW ready, Driven(in, ready), fetch_valid(in)
  PROVE  fetch_rdata(in) = owed /\ owed \in Word /\ LiveWords > 0
<1>1. /\ granted \in Seq(Word) /\ status_cnt_q \in 0..DEPTH /\ cnt_q \in 0..DEPTH
      /\ flush_cnt_q = 0 /\ read_pointer_q \in Slots /\ DEPTH \in Nat /\ DEPTH > 1
      /\ owed \in Word /\ cnt_q = InFlight
      /\ LiveWords > 0 => Live(0) = owed
  BY DepthAssumption DEF BufferInv, BufferTypeOK, CountersExact, PathInOrder, fetch_valid, flushing
<1>2. CASE ~fifo_empty
  BY <1>1, <1>2, SlotArithmetic DEF fetch_rdata, fifo_empty, LiveWords, Live
<1>3. CASE fifo_empty
  <2>1. in.rvalid /\ granted # <<>>
    BY <1>3 DEF fetch_valid, Driven, LegalBus
  <2>2. Len(granted) > 0 /\ Head(granted) = granted[1] /\ Len(granted) \in Nat
    BY <1>1, <2>1
  <2> QED BY <1>1, <1>3, <2>1, <2>2 DEF fetch_rdata, fifo_empty, LiveWords, Live, Request, InFlight
<1> QED BY <1>2, <1>3

(* On the same path, the live words move on by the one that is taken and   *)
(* grow by the one that is requested.                                      *)
LEMMA LiveShift ==
  ASSUME BufferInv, NEW in, NEW ready, Driven(in, ready), ~in.branch,
         ControllerStep(in), FifoStep(in, ready), ObiStep(in), MemoryStep(in)
  PROVE  /\ LiveWords' = (LiveWords - Takes(ready)) + Accepts(in)
         /\ cnt_q' \in 0..DEPTH /\ flush_cnt_q' \in 0..DEPTH /\ flush_cnt_q' <= cnt_q'
         /\ LiveWords' <= DEPTH
         /\ \A i \in 0..(DEPTH - 1) : i < LiveWords' =>
              Live(i)' = IF i + Takes(ready) < LiveWords THEN Live(i + Takes(ready)) ELSE trans_addr(in)
<1> DEFINE Entry(i) == mem_q'[Slot(i)']
           Flight(j) == IF j <= Len(granted') THEN granted'[j] ELSE obi_addr_q'
<1>1. /\ status_cnt_q \in 0..DEPTH /\ cnt_q \in 0..DEPTH /\ flush_cnt_q \in 0..DEPTH
      /\ flush_cnt_q <= cnt_q /\ DEPTH \in Nat /\ DEPTH > 1
      /\ cnt_q = InFlight /\ LiveWords = (status_cnt_q + cnt_q) - flush_cnt_q /\ LiveWords <= DEPTH
  BY DepthAssumption DEF BufferInv, BufferTypeOK, CountersExact, RoomForAnswers, LiveWords
<1>2. /\ InFlight' = (InFlight - Answers(in)) + Accepts(in)
      /\ in.rvalid => InFlight > 0 /\ Head(granted) = Request(1)
      /\ \A j \in 1..InFlight' :
           Flight(j) = IF j + Answers(in) <= InFlight THEN Request(j + Answers(in)) ELSE trans_addr(in)
  BY RequestsShift DEF Request
<1>3. /\ status_cnt_q' = (status_cnt_q + Pushes(in, ready)) - Pops(ready)
      /\ status_cnt_q' \in 0..DEPTH
      /\ \A i \in 0..(DEPTH - 1) : i < status_cnt_q' =>
           Entry(i) = IF i + Pops(ready) < status_cnt_q THEN mem_q[Slot(i + Pops(ready))] ELSE Head(granted)
  BY EntriesShift
<1>4. /\ cnt_q' = (cnt_q + Accepts(in)) - Answers(in)
      /\ flush_cnt_q' = IF in.rvalid /\ flush_cnt_q > 0 THEN flush_cnt_q - 1 ELSE flush_cnt_q
  BY DEF ControllerStep, next_cnt, next_flush_cnt, flushing, Accepts, Answers
<1>5. /\ count_up(in) => status_cnt_q + cnt_q < DEPTH
      /\ ready => flush_cnt_q = 0 /\ (status_cnt_q > 0 \/ in.rvalid)
      /\ fifo_push(in, ready) <=> in.rvalid /\ flush_cnt_q = 0 /\ (status_cnt_q > 0 \/ ~ready)
      /\ fifo_pop(ready) <=> status_cnt_q > 0 /\ ready
  BY <1>1 DEF count_up, trans_valid, fifo_cnt_masked, Driven, fetch_valid, fifo_push, fifo_pop, fifo_empty, flushing
<1>6. /\ cnt_q' \in 0..DEPTH /\ flush_cnt_q' \in 0..DEPTH /\ flush_cnt_q' <= cnt_q'
      /\ cnt_q' = InFlight'
      /\ LiveWords' = (LiveWords - Takes(ready)) + Accepts(in) /\ LiveWords' <= DEPTH
  BY <1>1, <1>2, <1>3, <1>4, <1>5 DEF LiveWords, Takes, Accepts, Answers, Pushes, Pops
<1>7. ASSUME NEW i \in 0..(DEPTH - 1), i < LiveWords'
      PROVE  Live(i)' = IF i + Takes(ready) < LiveWords THEN Live(i + Takes(ready)) ELSE trans_addr(in)
  <2>1. Live(i)' = IF i < status_cnt_q' THEN Entry(i) ELSE Flight((flush_cnt_q' + i + 1) - status_cnt_q')
    BY DEF Live, Request
  <2>2. LiveWords' = (status_cnt_q' + cnt_q') - flush_cnt_q'
    BY DEF LiveWords
  <2>3. i >= status_cnt_q' => (flush_cnt_q' + i + 1) - status_cnt_q' \in 1..InFlight'
    BY <1>3, <1>6, <1>7, <2>2
  <2> HIDE DEF Entry, Flight
  <2>4. CASE flush_cnt_q > 0
    BY <1>1, <1>2, <1>3, <1>4, <1>5, <1>7, <2>1, <2>2, <2>3, <2>4 DEF Live, Takes, Answers, Pushes, Pops
  <2>5. CASE flush_cnt_q = 0 /\ ~in.rvalid
    BY <1>1, <1>2, <1>3, <1>4, <1>5, <1>7, <2>1, <2>2, <2>3, <2>5 DEF Live, Takes, Answers, Pushes, Pops
  <2>6. CASE flush_cnt_q = 0 /\ in.rvalid
    BY <1>1, <1>2, <1>3, <1>4, <1>5, <1>7, <2>1, <2>2, <2>3, <2>6 DEF Live, Takes, Answers, Pushes, Pops
  <2> QED BY <1>1, <2>4, <2>5, <2>6
<1> QED BY <1>6, <1>7

(* At a branch everything turns stale but the request for the target.      *)
LEMMA BranchStart ==
  ASSUME BufferInv, NEW in, NEW ready, Driven(in, ready), in.branch,
         ControllerStep(in), FifoStep(in, ready), ObiStep(in), MemoryStep(in)
  PROVE  /\ LiveWords' = Accepts(in)
         /\ cnt_q' \in 0..DEPTH /\ flush_cnt_q' \in 0..DEPTH /\ flush_cnt_q' <= cnt_q'
         /\ status_cnt_q' = 0 /\ read_pointer_q' = 0 /\ write_pointer_q' = 0
         /\ mem_q' = mem_q
         /\ count_up(in) => Live(0)' = trans_addr(in)
<1> DEFINE Flight(j) == IF j <= Len(granted') THEN granted'[j] ELSE obi_addr_q'
<1>1. /\ cnt_q \in 0..DEPTH /\ flush_cnt_q \in 0..DEPTH /\ DEPTH \in Nat /\ DEPTH > 1
      /\ cnt_q = InFlight
  BY DepthAssumption DEF BufferInv, BufferTypeOK, CountersExact
<1>2. /\ InFlight' = (InFlight - Answers(in)) + Accepts(in)
      /\ in.rvalid => InFlight > 0
      /\ \A j \in 1..InFlight' :
           Flight(j) = IF j + Answers(in) <= InFlight THEN Request(j + Answers(in)) ELSE trans_addr(in)
  BY RequestsShift DEF Request
<1>3. status_cnt_q' = 0 /\ read_pointer_q' = 0 /\ write_pointer_q' = 0 /\ mem_q' = mem_q
  BY DEF FifoStep, fifo_push
<1>4. /\ cnt_q' = (cnt_q + Accepts(in)) - Answers(in)
      /\ flush_cnt_q' = cnt_q - Answers(in)
  BY <1>1, <1>2 DEF ControllerStep, next_cnt, next_flush_cnt, Accepts, Answers
<1>5. count_up(in) => cnt_q < DEPTH
  BY <1>1 DEF count_up, trans_valid, fifo_cnt_masked
<1>6. LiveWords' = Accepts(in) /\ flush_cnt_q' <= cnt_q' /\ cnt_q' \in 0..DEPTH /\ flush_cnt_q' \in 0..DEPTH
  BY <1>1, <1>2, <1>3, <1>4, <1>5 DEF LiveWords, Accepts, Answers
<1>7. ASSUME count_up(in) PROVE Live(0)' = trans_addr(in)
  <2>1. Live(0)' = Flight((flush_cnt_q' + 0 + 1) - status_cnt_q')
    BY <1>3 DEF Live, Request
  <2> HIDE DEF Flight
  <2> QED BY <1>1, <1>2, <1>3, <1>4, <1>7, <2>1 DEF Accepts, Answers
<1> QED BY <1>3, <1>6, <1>7

(* The invariant of the buffer holds after reset.                          *)
LEMMA BufferInitInv == BufferInit => BufferInv
<1> SUFFICES ASSUME BufferInit PROVE BufferInv
  OBVIOUS
<1>1. 0 \in Word /\ 0 \in Slots /\ Succ(0) \in Word
  BY WordsAssumption, DepthAssumption DEF Word, Slots, Succ
<1>2. BufferTypeOK
  BY <1>1, DepthAssumption DEF BufferInit, BufferTypeOK
<1>3. CountersExact /\ LiveWords = 0
  BY DEF BufferInit, CountersExact, InFlight, LiveWords
<1>4. RoomForAnswers
  BY <1>3, DepthAssumption DEF BufferInit, RoomForAnswers, Slot
<1>5. PathInOrder
  BY <1>3, DepthAssumption DEF BufferInit, PathInOrder
<1> QED BY <1>2, <1>3, <1>4, <1>5 DEF BufferInv

(* A clock edge of the buffer, with whatever branch, grant, answer and     *)
(* fetch it brings, preserves the invariant: no overflow, no stale word,   *)
(* no word lost or doubled (prefetch_controller.sv:120-361).               *)
THEOREM BufferStep ==
  ASSUME BufferInv, NEW in, NEW ready, Driven(in, ready), BufferClock(in, ready)
  PROVE  BufferInv'
<1>1. /\ ControllerStep(in) /\ FifoStep(in, ready) /\ ObiStep(in) /\ MemoryStep(in)
      /\ owed' = IF in.branch THEN WordOf(in.pc) ELSE IF ready THEN Succ(owed) ELSE owed
  BY DEF BufferClock
<1>2. /\ trans_addr(in) \in Word /\ WordOf(in.pc) \in Word
      /\ owed \in Word /\ Succ(owed) \in Word /\ trans_addr_q \in Word
      /\ state_q \in {"IDLE", "BRANCH_WAIT"}
      /\ DEPTH \in Nat /\ DEPTH > 1 /\ LiveWords \in Nat /\ LiveWords <= DEPTH
  <2>1. /\ LiveWords \in Nat /\ LiveWords <= DEPTH /\ DEPTH \in Nat /\ DEPTH > 1
        /\ owed \in Word /\ trans_addr_q \in Word /\ state_q \in {"IDLE", "BRANCH_WAIT"}
    BY DepthAssumption DEF BufferInv, BufferTypeOK, CountersExact, RoomForAnswers, LiveWords
  <2>2. trans_addr(in) \in Word /\ in.pc \in Half
    BY RequestAddress DEF Driven
  <2>3. WordOf(in.pc) \in Word /\ Succ(owed) \in Word
    BY <2>1, <2>2, AddressTypes
  <2> QED BY <2>1, <2>2, <2>3
<1>3. /\ trans_addr_q' = IF in.branch \/ count_up(in) THEN trans_addr(in) ELSE trans_addr_q
      /\ count_up(in) => state_q' = "IDLE"
      /\ ~count_up(in) /\ in.branch => state_q' = "BRANCH_WAIT"
      /\ ~count_up(in) /\ ~in.branch => state_q' = state_q
  BY <1>1 DEF ControllerStep
<1>4. /\ granted' \in Seq(Word) /\ obi_addr_q' \in Word
      /\ obi_state_q' \in {"TRANSPARENT", "REGISTERED"}
      /\ InFlight' = (InFlight - Answers(in)) + Accepts(in)
  BY <1>1, RequestsShift
<1>5. cnt_q' = InFlight'
  BY <1>1, <1>4 DEF ControllerStep, next_cnt, BufferInv, BufferTypeOK, CountersExact, Answers, Accepts
<1>6. owed' \in Word /\ trans_addr_q' \in Word /\ state_q' \in {"IDLE", "BRANCH_WAIT"}
  <2>1. owed' \in Word /\ trans_addr_q' \in Word
    BY <1>1, <1>2, <1>3
  <2>2. state_q' \in {"IDLE", "BRANCH_WAIT"}
    BY <1>2, <1>3 DEF Driven
  <2> QED BY <2>1, <2>2
<1>7. CASE in.branch
  <2>1. /\ LiveWords' = Accepts(in)
        /\ cnt_q' \in 0..DEPTH /\ flush_cnt_q' \in 0..DEPTH /\ flush_cnt_q' <= cnt_q'
        /\ status_cnt_q' = 0 /\ read_pointer_q' = 0 /\ write_pointer_q' = 0
        /\ mem_q' = mem_q
        /\ count_up(in) => Live(0)' = trans_addr(in)
    BY <1>1, <1>7, BranchStart
  <2>2. trans_addr(in) = WordOf(in.pc)
    BY <1>7 DEF trans_addr
  <2>3. BufferTypeOK'
    <3>1. 0 \in Slots /\ mem_q' \in [Slots -> Word \cup {NoWord}]
      BY <1>2, <2>1 DEF BufferInv, BufferTypeOK, Slots
    <3> QED BY <1>2, <1>4, <1>6, <2>1, <3>1 DEF BufferTypeOK
  <2>4. RoomForAnswers'
    BY <1>2, <2>1 DEF RoomForAnswers, Slot, Accepts
  <2>5. PathInOrder'
    BY <1>1, <1>2, <1>3, <1>7, <2>1, <2>2 DEF PathInOrder, Accepts
  <2> QED BY <1>5, <2>1, <2>3, <2>4, <2>5 DEF BufferInv, CountersExact
<1>8. CASE ~in.branch
  <2>1. /\ LiveWords' = (LiveWords - Takes(ready)) + Accepts(in)
        /\ cnt_q' \in 0..DEPTH /\ flush_cnt_q' \in 0..DEPTH /\ flush_cnt_q' <= cnt_q'
        /\ LiveWords' <= DEPTH
        /\ \A i \in 0..(DEPTH - 1) : i < LiveWords' =>
             Live(i)' = IF i + Takes(ready) < LiveWords THEN Live(i + Takes(ready)) ELSE trans_addr(in)
    BY <1>1, <1>8, LiveShift
  <2>2. /\ read_pointer_q' \in Slots /\ write_pointer_q' \in Slots
        /\ mem_q' \in [Slots -> Word \cup {NoWord}]
        /\ status_cnt_q' \in 0..DEPTH
        /\ (write_pointer_q = Slot(IF status_cnt_q = DEPTH THEN 0 ELSE status_cnt_q))'
    BY <1>1, <1>8, EntriesShift
  <2>3. BufferTypeOK'
    BY <1>4, <1>6, <2>1, <2>2 DEF BufferTypeOK
  <2>4. RoomForAnswers'
    BY <2>1, <2>2 DEF RoomForAnswers
  <2>5. PathInOrder'
    <3>1. ready => LiveWords > 0
      BY FetchedIsOwed DEF Driven
    <3>2. trans_addr(in) = IF state_q = "IDLE" THEN Succ(trans_addr_q) ELSE trans_addr_q
      BY <1>8 DEF trans_addr
    <3>3. /\ LiveWords > 0 => Live(0) = owed /\ state_q = "IDLE" /\ trans_addr_q = Live(LiveWords - 1)
          /\ LiveWords = 0 => owed = IF state_q = "IDLE" THEN Succ(trans_addr_q) ELSE trans_addr_q
          /\ \A i \in 0..(DEPTH - 1) : i + 1 < LiveWords => Live(i + 1) = Succ(Live(i))
          /\ LiveWords \in Nat
      BY DEF BufferInv, BufferTypeOK, CountersExact, LiveWords, PathInOrder
    <3>4. LiveWords' = 0 =>
            owed' = IF state_q' = "IDLE" THEN Succ(trans_addr_q') ELSE trans_addr_q'
      BY <1>1, <1>2, <1>3, <1>8, <2>1, <3>1, <3>3 DEF Takes, Accepts
    <3>5. LiveWords' > 0 => Live(0)' = owed'
      BY <1>1, <1>2, <1>8, <2>1, <3>1, <3>2, <3>3 DEF Takes, Accepts
    <3>6. LiveWords' > 0 => state_q' = "IDLE"
      BY <1>2, <1>3, <1>8, <2>1, <3>1, <3>3 DEF Takes, Accepts
    <3>7. LiveWords' > 0 => trans_addr_q' = (Live(LiveWords - 1))'
      <4>1. CASE LiveWords' > 0
        <5>1. PICK i \in 0..(DEPTH - 1) : i = LiveWords' - 1
          BY <1>2, <2>1, <3>1, <3>3, <4>1 DEF Takes, Accepts
        <5>2. (Live(LiveWords - 1))' = Live(i)'
          BY <5>1 DEF Live, Slot, Request
        <5>3. trans_addr_q' = Live(i)'
          BY <1>2, <1>3, <1>8, <2>1, <3>1, <3>2, <3>3, <4>1, <5>1 DEF Takes, Accepts
        <5> QED BY <5>2, <5>3
      <4> QED BY <4>1
    <3>8. \A i \in 0..(DEPTH - 1) : i + 1 < LiveWords' => Live(i + 1)' = Succ(Live(i)')
      BY <1>2, <2>1, <3>1, <3>2, <3>3 DEF Takes, Accepts
    <3> QED BY <3>4, <3>5, <3>6, <3>7, <3>8 DEF PathInOrder, Succ
  <2> QED BY <1>5, <2>1, <2>3, <2>4, <2>5 DEF BufferInv, CountersExact
<1> QED BY <1>7, <1>8 DEF Driven

-----------------------------------------------------------------------------
(* ---- the IF stage ----------------------------------------------------- *)
(* The inputs of a cycle are a legal cycle of the buffer.                  *)
LEMMA InputsDriven ==
  ASSUME NEW in \in Inputs
  PROVE  /\ Driven(in, fetch_ready(in))
         /\ in.branch => ~if_valid(in) /\ ~fetch_ready(in)
         /\ if_valid(in) => fetch_valid(in) /\ in.req
         /\ fetch_ready(in) <=> if_valid(in) /\ aligner_ready(in)
         /\ in.req => booted \/ in.branch
         /\ in.branch \in BOOLEAN /\ in.pc \in Half
<1>1. /\ in.req \in BOOLEAN /\ in.branch \in BOOLEAN /\ in.gnt \in BOOLEAN /\ in.rvalid \in BOOLEAN
      /\ in.go \in BOOLEAN /\ in.pc \in Half
  <2>1. in \in Branches \/ in \in Cycles
    BY DEF Inputs
  <2>2. CASE in \in Branches
    BY <2>2, TargetsAssumption DEF Branches
  <2>3. CASE in \in Cycles
    <3>1. in.pc = 0 /\ in.branch = FALSE
      BY <2>3 DEF Cycles
    <3>2. in.pc \in Half
      BY <3>1, WordsAssumption DEF Half
    <3> QED BY <2>3, <3>1, <3>2 DEF Cycles
  <2> QED BY <2>1, <2>2, <2>3
<1>2. LegalBus(in) /\ (in.req => booted \/ in.branch) /\ (in.go => in.req /\ fetch_valid(in))
  BY DEF Inputs
<1>3. in.branch => ~fetch_valid(in)
  BY DEF fetch_valid
<1>4. fetch_ready(in) \in BOOLEAN
  BY DEF fetch_ready
<1>5. fetch_ready(in) => fetch_valid(in)
  BY DEF fetch_ready
<1>6. Driven(in, fetch_ready(in))
  BY <1>1, <1>2, <1>4, <1>5 DEF Driven
<1>7. if_valid(in) => fetch_valid(in) /\ in.req
  BY <1>2 DEF if_valid
<1>8. fetch_ready(in) <=> if_valid(in) /\ aligner_ready(in)
  BY <1>3, <1>7 DEF fetch_ready
<1> QED BY <1>1, <1>2, <1>3, <1>6, <1>7, <1>8

(* Half-words and words: an odd half-word is the second of its word and    *)
(* the next one is the first of the next word.                             *)
LEMMA HalfWords ==
  ASSUME NEW h \in Half
  PROVE  /\ WordOf(h) \in Word /\ NextHalf(h) \in Half
         /\ ~Odd(h) => /\ h = 2 * WordOf(h) /\ NextHalf(h) = 2 * WordOf(h) + 1
                       /\ Odd(NextHalf(h)) /\ WordOf(NextHalf(h)) = WordOf(h)
         /\ Odd(h) => /\ h = 2 * WordOf(h) + 1 /\ NextHalf(h) = 2 * Succ(WordOf(h))
                      /\ ~Odd(NextHalf(h)) /\ WordOf(NextHalf(h)) = Succ(WordOf(h))
<1>1. Words \in Nat /\ Words > 0 /\ h \in Nat /\ h < 2 * Words
  BY WordsAssumption DEF Half
<1>2. h = 2 * (h \div 2) + (h % 2) /\ h % 2 \in {0, 1} /\ h \div 2 \in Nat
  BY <1>1
<1>3. CASE h % 2 = 0
  <2>1. PICK w \in Nat : h = 2 * w /\ w = h \div 2
    BY <1>2, <1>3
  <2>2. w < Words /\ NextHalf(h) = 2 * w + 1
    BY <1>1, <2>1 DEF NextHalf
  <2>3. (2 * w + 1) \div 2 = w /\ (2 * w + 1) % 2 = 1
    BY <2>1
  <2> QED BY <1>1, <1>3, <2>1, <2>2, <2>3 DEF WordOf, Odd, Word, Half
<1>4. CASE h % 2 = 1
  <2>1. PICK w \in Nat : h = 2 * w + 1 /\ w = h \div 2
    BY <1>2, <1>4
  <2>2. w < Words /\ Succ(w) \in Nat /\ Succ(w) < Words /\ NextHalf(h) = 2 * Succ(w)
    BY <1>1, <2>1 DEF NextHalf, Succ
  <2>3. (2 * Succ(w)) \div 2 = Succ(w) /\ (2 * Succ(w)) % 2 = 0
    BY <2>2
  <2> QED BY <1>1, <1>4, <2>1, <2>2, <2>3 DEF WordOf, Odd, Word, Half
<1> QED BY <1>2, <1>3, <1>4

-----------------------------------------------------------------------------
(* In a cycle that takes or uses a word, the word is the one the aligner   *)
(* needs: what it presents is the instruction at pc_q.                     *)
LEMMA AlignedInstruction ==
  ASSUME IInv, NEW in \in Inputs, if_valid(in)
  PROVE  /\ booted /\ pc_q \in Half
         /\ fetch_rdata(in) = owed /\ owed \in Word
         /\ low(in) = 2 * owed /\ high(in) = 2 * owed + 1
         /\ state = "ALIGNED32" \/ state = "MISALIGNED16" =>
               ~Odd(pc_q) /\ low(in) = pc_q /\ high(in) = NextHalf(pc_q)
         /\ state = "MISALIGNED32" => Odd(pc_q) /\ r_instr_h = pc_q /\ low(in) = NextHalf(pc_q)
         /\ state = "BRANCH_MISALIGNED" => Odd(pc_q) /\ high(in) = pc_q
         /\ ~HalfOnly(in) => instr_aligned(in) = IF pc_q \in Wide THEN <<pc_q, NextHalf(pc_q)>> ELSE <<pc_q>>
<1>1. /\ Driven(in, fetch_ready(in)) /\ fetch_valid(in) /\ in.req /\ ~in.branch
      /\ in.branch \in BOOLEAN /\ booted
  BY InputsDriven
<1>2. BufferInv
  BY DEF IInv, TypeOK, BufferInv
<1>3. fetch_rdata(in) = owed /\ owed \in Word
  BY <1>1, <1>2, FetchedIsOwed
<1>4. /\ pc_q \in Half
      /\ state \in {"ALIGNED32", "MISALIGNED32", "MISALIGNED16", "BRANCH_MISALIGNED"}
      /\ state = "BRANCH_MISALIGNED" => Odd(pc_q) /\ owed = WordOf(pc_q)
      /\ state = "MISALIGNED32" => Odd(pc_q) /\ owed = Succ(WordOf(pc_q)) /\ r_instr_h = pc_q
      /\ state = "ALIGNED32" \/ state = "MISALIGNED16" => ~Odd(pc_q) /\ owed = WordOf(pc_q)
  BY <1>1 DEF IInv, TypeOK, AlignerInStep
<1>5. low(in) = 2 * owed /\ high(in) = 2 * owed + 1
  BY <1>3 DEF low, high
<1>6. /\ state = "ALIGNED32" \/ state = "MISALIGNED16" => low(in) = pc_q /\ high(in) = NextHalf(pc_q)
      /\ state = "MISALIGNED32" => low(in) = NextHalf(pc_q)
      /\ state = "BRANCH_MISALIGNED" => high(in) = pc_q
  BY <1>4, <1>5, HalfWords
<1>7. ~HalfOnly(in) => instr_aligned(in) = IF pc_q \in Wide THEN <<pc_q, NextHalf(pc_q)>> ELSE <<pc_q>>
  BY <1>4, <1>6 DEF HalfOnly, instr_aligned, Cut
<1> QED BY <1>1, <1>3, <1>4, <1>5, <1>6, <1>7

(* The invariant holds after reset.                                        *)
LEMMA InitIInv == Init => IInv
<1> SUFFICES ASSUME Init PROVE IInv
  OBVIOUS
<1>1. BufferInv
  BY BufferInitInv DEF Init
<1>2. 0 \in Half /\ Wide \subseteq Half
  BY WordsAssumption, ProgramsAssumption DEF Init, Half
<1>3. TypeOK
  BY <1>1, <1>2 DEF Init, TypeOK, BufferInv
<1>4. AlignerInStep /\ NothingBeforeBoot
  BY DEF Init, AlignerInStep, NothingBeforeBoot, BufferInit
<1> QED BY <1>1, <1>3, <1>4 DEF IInv, BufferInv

(* Whatever the aligner does in a cycle, it stays in step with the buffer. *)
LEMMA AlignerStaysInStep ==
  ASSUME IInv, NEW in \in Inputs, Clock(in)
  PROVE  /\ state' \in {"ALIGNED32", "MISALIGNED32", "MISALIGNED16", "BRANCH_MISALIGNED"}
         /\ pc_q' \in Half /\ aligner_ready_q' \in BOOLEAN
         /\ AlignerInStep'
<1>1. /\ AlignerStep(in) /\ booted' = (booted \/ in.branch)
      /\ owed' = IF in.branch THEN WordOf(in.pc) ELSE IF fetch_ready(in) THEN Succ(owed) ELSE owed
  BY DEF Clock, BufferClock
<1>2. /\ state \in {"ALIGNED32", "MISALIGNED32", "MISALIGNED16", "BRANCH_MISALIGNED"}
      /\ pc_q \in Half /\ aligner_ready_q \in BOOLEAN /\ booted \in BOOLEAN
  BY DEF IInv, TypeOK
<1>3. /\ in.branch => ~if_valid(in)
      /\ fetch_ready(in) <=> if_valid(in) /\ aligner_ready(in)
      /\ in.branch \in BOOLEAN /\ in.pc \in Half
      /\ if_valid(in) => fetch_valid(in)
  BY InputsDriven
<1>4. aligner_ready(in) \in BOOLEAN
  BY DEF aligner_ready
<1>5. CASE in.branch
  BY <1>1, <1>3, <1>4, <1>5, HalfWords DEF AlignerStep, AlignerInStep
<1>6. CASE if_valid(in)
  <2>1. /\ state' = next_state(in) /\ r_instr_h' = high(in) /\ aligner_ready_q' = aligner_ready(in)
        /\ pc_q' = pc_n(in) /\ booted' /\ ~in.branch
        /\ owed' = IF aligner_ready(in) THEN Succ(owed) ELSE owed
    BY <1>1, <1>3, <1>6, AlignedInstruction DEF AlignerStep
  <2>2. /\ fetch_valid(in) /\ pc_q \in Half /\ owed \in Word
        /\ aligner_ready(in) <=> ~(state = "MISALIGNED32" /\ r_instr_h \notin Wide)
        /\ high(in) = 2 * owed + 1 /\ low(in) = 2 * owed
    BY <1>3, <1>6, AlignedInstruction DEF aligner_ready, NarrowStored
  <2>3. pc_n(in) = IF HalfOnly(in) THEN pc_q
                   ELSE IF pc_q \in Wide THEN NextHalf(NextHalf(pc_q)) ELSE NextHalf(pc_q)
    BY <1>6, AlignedInstruction DEF pc_n
  <2>4. /\ NextHalf(pc_q) \in Half /\ NextHalf(NextHalf(pc_q)) \in Half
        /\ WordOf(pc_q) \in Word
        /\ ~Odd(pc_q) => /\ pc_q = 2 * WordOf(pc_q) /\ NextHalf(pc_q) = 2 * WordOf(pc_q) + 1
                         /\ Odd(NextHalf(pc_q)) /\ WordOf(NextHalf(pc_q)) = WordOf(pc_q)
                         /\ ~Odd(NextHalf(NextHalf(pc_q)))
                         /\ WordOf(NextHalf(NextHalf(pc_q))) = Succ(WordOf(pc_q))
        /\ Odd(pc_q) => /\ pc_q = 2 * WordOf(pc_q) + 1 /\ NextHalf(pc_q) = 2 * Succ(WordOf(pc_q))
                        /\ ~Odd(NextHalf(pc_q)) /\ WordOf(NextHalf(pc_q)) = Succ(WordOf(pc_q))
                        /\ Odd(NextHalf(NextHalf(pc_q)))
                        /\ WordOf(NextHalf(NextHalf(pc_q))) = Succ(WordOf(pc_q))
                        /\ NextHalf(NextHalf(pc_q)) = 2 * Succ(WordOf(pc_q)) + 1
    BY <2>2, HalfWords
  <2>5. pc_q' \in Half /\ aligner_ready_q' \in BOOLEAN
    BY <1>4, <2>1, <2>2, <2>3, <2>4
  <2>6. CASE state = "ALIGNED32" \/ state = "MISALIGNED16"
    <3>1. ~Odd(pc_q) /\ low(in) = pc_q /\ owed = WordOf(pc_q) /\ ~HalfOnly(in)
      BY <1>6, <2>6, AlignedInstruction, <2>1 DEF HalfOnly, IInv, AlignerInStep
    <3>2. state' = IF pc_q \in Wide THEN "ALIGNED32" ELSE "MISALIGNED32"
      BY <2>1, <2>6, <3>1 DEF next_state
    <3> QED BY <2>1, <2>2, <2>3, <2>4, <2>5, <2>6, <3>1, <3>2 DEF AlignerInStep
  <2>7. CASE state = "MISALIGNED32"
    <3>1. Odd(pc_q) /\ r_instr_h = pc_q /\ owed = Succ(WordOf(pc_q)) /\ ~HalfOnly(in)
      BY <1>6, <2>7, AlignedInstruction DEF HalfOnly, IInv, AlignerInStep
    <3>2. state' = IF pc_q \in Wide THEN "MISALIGNED32" ELSE "MISALIGNED16"
      BY <2>1, <2>7, <3>1 DEF next_state
    <3> QED BY <2>1, <2>2, <2>3, <2>4, <2>5, <2>7, <3>1, <3>2 DEF AlignerInStep
  <2>8. CASE state = "BRANCH_MISALIGNED"
    <3>1. Odd(pc_q) /\ high(in) = pc_q /\ owed = WordOf(pc_q) /\ (HalfOnly(in) <=> pc_q \in Wide)
      BY <1>6, <2>8, AlignedInstruction DEF HalfOnly, IInv, AlignerInStep
    <3>2. state' = IF pc_q \in Wide THEN "MISALIGNED32" ELSE "ALIGNED32"
      BY <2>1, <2>8, <3>1 DEF next_state
    <3> QED BY <2>1, <2>2, <2>3, <2>4, <2>5, <2>8, <3>1, <3>2 DEF AlignerInStep
  <2> QED BY <1>2, <2>6, <2>7, <2>8
<1>7. CASE ~in.branch /\ ~if_valid(in)
  BY <1>1, <1>2, <1>3, <1>7 DEF AlignerStep, AlignerInStep, alignerVars, IInv
<1> QED BY <1>3, <1>5, <1>6, <1>7

(* Every clock edge preserves the invariant.                               *)
LEMMA NextIInv == IInv /\ [Next]_vars => IInv'
<1> SUFFICES ASSUME IInv, [Next]_vars PROVE IInv'
  OBVIOUS
<1>1. ASSUME NEW in \in Inputs, Clock(in) PROVE IInv'
  <2>1. BufferInv'
    <3>1. BufferInv
      BY DEF IInv, TypeOK, BufferInv
    <3>2. Driven(in, fetch_ready(in)) /\ BufferClock(in, fetch_ready(in))
      BY <1>1, InputsDriven DEF Clock
    <3> QED BY <3>1, <3>2, BufferStep
  <2>2. /\ state' \in {"ALIGNED32", "MISALIGNED32", "MISALIGNED16", "BRANCH_MISALIGNED"}
        /\ pc_q' \in Half /\ aligner_ready_q' \in BOOLEAN /\ AlignerInStep'
    BY <1>1, AlignerStaysInStep
  <2>3. /\ in.branch \in BOOLEAN /\ booted' = (booted \/ in.branch) /\ branched' = in.branch
        /\ Wide' = Wide /\ Wide \subseteq Half /\ booted \in BOOLEAN /\ instr_valid_id \in BOOLEAN
    BY <1>1, InputsDriven DEF Clock, IInv, TypeOK
  <2>4. booted' \in BOOLEAN /\ branched' \in BOOLEAN
    BY <2>3
  <2>5. instr_valid_id' \in BOOLEAN
    <3>1. IfIdStep(in)
      BY <1>1 DEF Clock
    <3> QED BY <3>1 DEF IfIdStep
  <2>6. TypeOK'
    BY <2>1, <2>2, <2>3, <2>4, <2>5 DEF TypeOK, BufferInv
  <2>7. NothingBeforeBoot'
    <3>1. SUFFICES ASSUME ~booted' PROVE cnt_q' = 0 /\ status_cnt_q' = 0
      BY DEF NothingBeforeBoot
    <3>2. ~booted /\ ~in.branch /\ ~in.req
      BY <2>3, <3>1, InputsDriven
    <3>3. cnt_q = 0 /\ status_cnt_q = 0
      BY <3>2 DEF IInv, NothingBeforeBoot
    <3>4. granted = <<>>
      BY <3>3 DEF IInv, TypeOK, BufferTypeOK, CountersExact, InFlight
    <3>5. ~in.rvalid /\ ~count_up(in)
      BY <3>2, <3>4, InputsDriven DEF Driven, LegalBus, count_up, trans_valid
    <3>6. ~fifo_push(in, fetch_ready(in)) /\ ~fifo_pop(fetch_ready(in))
      BY <3>3, <3>5 DEF fifo_push, fifo_pop, fifo_empty
    <3>7. ControllerStep(in) /\ FifoStep(in, fetch_ready(in))
      BY <1>1 DEF Clock, BufferClock
    <3> QED BY <3>2, <3>3, <3>5, <3>6, <3>7 DEF ControllerStep, next_cnt, FifoStep
  <2> QED BY <2>1, <2>2, <2>6, <2>7 DEF IInv, BufferInv
<1>2. CASE UNCHANGED vars
  <2>1. UNCHANGED <<bufferVars, Wide, booted, branched, alignerVars, instr_valid_id>>
    BY <1>2 DEF vars
  <2>2. BufferInv'
    BY <2>1 DEF IInv, TypeOK, BufferInv, bufferVars, BufferTypeOK, CountersExact, RoomForAnswers,
                PathInOrder, InFlight, LiveWords, Live, Slot, Request
  <2> QED BY <2>1, <2>2 DEF IInv, TypeOK, BufferInv, bufferVars, alignerVars, AlignerInStep, NothingBeforeBoot
<1> QED BY <1>1, <1>2 DEF Next

(* Counters, FIFO, order of the words and aligner stay consistent for any  *)
(* program, branches, stalls and bus delays (prefetch_controller.sv,       *)
(* fifo.sv, obi_interface.sv, aligner.sv).                                 *)
THEOREM Invariance == Spec => []IInv
BY InitIInv, NextIInv, PTL DEF Spec

(* The word that comes with a stored 16-bit instruction is kept: it is in  *)
(* the FIFO for as long as the aligner waits to use it (aligner.sv:149).   *)
THEOREM HeldWordKeptHolds == Spec => []HeldWordKept
<1>1. Init => HeldWordKept
  BY DEF Init, HeldWordKept
<1>2. IInv /\ HeldWordKept /\ [Next]_vars => HeldWordKept'
  <2> SUFFICES ASSUME IInv, HeldWordKept, [Next]_vars, state' = "MISALIGNED16"
               PROVE  status_cnt_q' # 0 /\ ~aligner_ready_q'
    BY DEF HeldWordKept, fifo_empty
  <2>1. ASSUME NEW in \in Inputs, Clock(in) PROVE status_cnt_q' # 0 /\ ~aligner_ready_q'
    <3>1. /\ AlignerStep(in) /\ FifoStep(in, fetch_ready(in)) /\ BufferInv
          /\ Driven(in, fetch_ready(in)) /\ in.branch \in BOOLEAN
          /\ fetch_ready(in) <=> if_valid(in) /\ aligner_ready(in)
          /\ if_valid(in) => fetch_valid(in)
      BY <2>1, InputsDriven DEF Clock, BufferClock, IInv, TypeOK, BufferInv
    <3>2. ~in.branch
      BY <3>1 DEF AlignerStep, if_valid, fetch_valid
    <3>3. /\ status_cnt_q' = (status_cnt_q + Pushes(in, fetch_ready(in))) - Pops(fetch_ready(in))
          /\ status_cnt_q \in Nat
      BY <3>1, <3>2, EntriesShift DEF BufferInv, BufferTypeOK
    <3>4. CASE if_valid(in)
      <4>1. state' = next_state(in) /\ aligner_ready_q' = aligner_ready(in)
        BY <3>1, <3>2, <3>4 DEF AlignerStep
      <4>2. state = "MISALIGNED32" /\ r_instr_h \notin Wide
        BY <4>1 DEF next_state, IInv, TypeOK
      <4>3. ~aligner_ready(in) /\ ~fetch_ready(in) /\ fetch_valid(in)
        BY <3>1, <3>4, <4>2 DEF aligner_ready, NarrowStored
      <4>4. status_cnt_q > 0 \/ fifo_push(in, fetch_ready(in))
        BY <3>2, <3>3, <4>3 DEF fetch_valid, fifo_push, fifo_empty
      <4> QED BY <3>3, <4>1, <4>3, <4>4 DEF Pushes, Pops, fifo_pop
    <3>5. CASE ~if_valid(in)
      <4>1. UNCHANGED alignerVars /\ ~fetch_ready(in)
        BY <3>1, <3>2, <3>5 DEF AlignerStep
      <4>2. status_cnt_q # 0 /\ ~aligner_ready_q
        BY <4>1 DEF alignerVars, HeldWordKept, fifo_empty
      <4> QED BY <3>3, <4>1, <4>2 DEF Pushes, Pops, fifo_pop, alignerVars
    <3> QED BY <3>4, <3>5
  <2>2. CASE UNCHANGED vars
    BY <2>2 DEF vars, bufferVars, alignerVars, HeldWordKept, fifo_empty
  <2> QED BY <2>1, <2>2 DEF Next
<1> QED BY <1>1, <1>2, Invariance, PTL DEF Spec

(* Both together: what the runs check of the fetch side in every state     *)
(* (prefetch_controller.sv, fifo.sv, obi_interface.sv, aligner.sv).        *)
THEOREM FetchInvariance == Spec => []FetchInv
BY Invariance, HeldWordKeptHolds, PTL DEF FetchInv

(* The IF stage implements the instruction stream: every instruction of    *)
(* the current path reaches ID with its own address, once, in order        *)
(* (if_stage.sv:210-280).                                                  *)
THEOREM Refinement == Spec => ImplementsStream
<1>1. Init => Stream!Init
  BY ProgramsAssumption DEF Init, Stream!Init, Stream!Half, Half
<1>2. IInv /\ [Next]_vars => [Stream!Next]_Stream!vars
  <2> SUFFICES ASSUME IInv, [Next]_vars PROVE [Stream!Next]_Stream!vars
    OBVIOUS
  <2>1. ASSUME NEW in \in Inputs, Clock(in) PROVE Stream!Next
    <3>1. /\ AlignerStep(in) /\ IfIdStep(in) /\ Wide' = Wide
          /\ in.branch \in BOOLEAN /\ in.pc \in Stream!Half
          /\ in.branch => ~if_valid(in)
      BY <2>1, InputsDriven DEF Clock, Stream!Half, Half
    <3>2. CASE instr_valid(in)
      <4>1. if_valid(in) /\ ~HalfOnly(in)
        BY <3>2 DEF instr_valid
      <4>2. instr_aligned(in) = Stream!InstrAt(pc_q)
        BY <4>1, AlignedInstruction DEF Stream!InstrAt, Stream!NextHalf, NextHalf
      <4>3. pc_q' = pc_n(in)
        BY <3>1, <4>1 DEF AlignerStep
      <4>4. pc_n(in) = Stream!After(pc_q)
        BY <4>1, <4>2 DEF pc_n, Stream!InstrAt, Stream!After, Stream!NextHalf, NextHalf
      <4>5. Stream!Deliver
        BY <3>1, <3>2, <4>2, <4>3, <4>4 DEF IfIdStep, Stream!Deliver
      <4> QED BY <4>5 DEF Stream!Next
    <3>3. CASE ~instr_valid(in)
      <4>1. Stream!Consumed
        <5>1. instr_valid_id \in BOOLEAN
          BY DEF IInv, TypeOK
        <5>2. instr_valid_id' = (instr_valid_id /\ ~in.clear) /\ UNCHANGED <<instr_rdata_id, pc_id>>
          BY <3>1, <3>3 DEF IfIdStep
        <5>3. instr_valid_id' \in {FALSE, instr_valid_id}
          BY <5>1, <5>2
        <5> QED BY <3>1, <5>2, <5>3 DEF Stream!Consumed
      <4>2. in.branch => pc_q' = in.pc
        BY <3>1 DEF AlignerStep
      <4>3. ~in.branch => pc_q' = pc_q
        BY <3>1, <3>3 DEF AlignerStep, instr_valid, pc_n, alignerVars
      <4> QED BY <3>1, <4>1, <4>2, <4>3 DEF Stream!Next, Stream!Redirect, Stream!Wait
    <3> QED BY <3>2, <3>3 DEF instr_valid
  <2>2. CASE UNCHANGED vars
    BY <2>2 DEF vars, alignerVars, Stream!vars
  <2> QED BY <2>1, <2>2 DEF Next
<1> QED BY <1>1, <1>2, Invariance, PTL DEF Spec, ImplementsStream, Stream!Spec

-----------------------------------------------------------------------------
(* ---- delivery --------------------------------------------------------- *)
(* The instruction at h is wanted, and neither delivered nor given up.     *)
Waits(h)     == booted /\ pc_q = h /\ ~branched
Over(h)      == pc_q # h \/ branched
Current(h)   == Waits(h) /\ flush_cnt_q = 0
HalfWanted   == state = "BRANCH_MISALIGNED"

(* What a cycle does to a wanted instruction: it is delivered or given up, *)
(* or the first half of it is taken, or the cycle takes nothing.           *)
LEMMA WaitStep ==
  ASSUME IInv, Words > 1, NEW h \in Half, Waits(h), NEW in \in Inputs, Clock(in), ~Over(h)'
  PROVE  /\ ~in.branch /\ booted' /\ pc_q' = h /\ ~branched'
         /\ \/ if_valid(in) /\ HalfWanted /\ ~HalfWanted' /\ flush_cnt_q = 0
            \/ ~if_valid(in) /\ ~fetch_ready(in) /\ UNCHANGED alignerVars
<1>1. /\ AlignerStep(in) /\ booted' = (booted \/ in.branch) /\ branched' = in.branch
      /\ booted /\ pc_q = h /\ pc_q' = h /\ ~branched'
  BY DEF Clock, Waits, Over
<1>2. /\ ~in.branch
      /\ fetch_ready(in) => if_valid(in)
      /\ if_valid(in) => fetch_valid(in)
  BY <1>1, InputsDriven
<1>3. CASE if_valid(in)
  <2>1. state' = next_state(in) /\ pc_q' = pc_n(in)
    BY <1>1, <1>2, <1>3 DEF AlignerStep
  <2>2. flush_cnt_q = 0
    BY <1>2, <1>3 DEF fetch_valid, flushing, IInv, TypeOK, BufferTypeOK
  <2>3. HalfOnly(in)
    <3>1. SUFFICES ASSUME ~HalfOnly(in) PROVE FALSE
      OBVIOUS
    <3>2. pc_n(in) = NextHalf(NextHalf(h)) \/ pc_n(in) = NextHalf(h)
      BY <1>1, <3>1 DEF pc_n
    <3>3. NextHalf(NextHalf(h)) # h /\ NextHalf(h) # h
      BY WordsAssumption DEF Half, NextHalf
    <3> QED BY <1>1, <2>1, <3>2, <3>3
  <2>4. HalfWanted /\ state' = "MISALIGNED32"
    BY <2>1, <2>3 DEF HalfOnly, HalfWanted, next_state
  <2> QED BY <1>1, <1>2, <1>3, <2>2, <2>4 DEF HalfWanted
<1>4. CASE ~if_valid(in)
  BY <1>1, <1>2, <1>4 DEF AlignerStep
<1> QED BY <1>1, <1>2, <1>3, <1>4

(* The answers to come, and the stale ones among them, in such a cycle.    *)
LEMMA WaitBus ==
  ASSUME IInv, NEW in \in Inputs, Clock(in), ~in.branch
  PROVE  /\ flush_cnt_q' = IF in.rvalid /\ flush_cnt_q > 0 THEN flush_cnt_q - 1 ELSE flush_cnt_q
         /\ granted = <<>> => ~in.rvalid
         /\ ~in.rvalid /\ granted # <<>> => granted' # <<>>
         /\ in.gnt => granted' # <<>>
         /\ obi_state_q = "REGISTERED" /\ ~in.gnt => obi_state_q' = "REGISTERED"
<1>1. /\ ControllerStep(in) /\ ObiStep(in) /\ MemoryStep(in)
      /\ Driven(in, fetch_ready(in)) /\ granted \in Seq(Word)
  BY InputsDriven DEF Clock, BufferClock, IInv, TypeOK, BufferTypeOK
<1>2. flush_cnt_q' = IF in.rvalid /\ flush_cnt_q > 0 THEN flush_cnt_q - 1 ELSE flush_cnt_q
  BY <1>1 DEF ControllerStep, next_flush_cnt, flushing
<1>3. obi_addr(in) \in Word
  <2> BufferInv
    BY DEF IInv, TypeOK, BufferInv
  <2> QED BY <1>1, RequestAddress
<1>4. in.gnt => granted' # <<>>
  <2> SUFFICES ASSUME in.gnt PROVE granted' # <<>>
    OBVIOUS
  <2> DEFINE rest == IF in.rvalid THEN Tail(granted) ELSE granted
  <2>1. granted' = Append(rest, obi_addr(in))
    BY <1>1 DEF MemoryStep, Driven, LegalBus
  <2>2. rest \in Seq(Word)
    BY <1>1 DEF Driven, LegalBus
  <2> QED BY <1>3, <2>1, <2>2
<1>5. ~in.rvalid /\ granted # <<>> => granted' # <<>>
  BY <1>1, <1>3, <1>4 DEF MemoryStep, Driven
<1>6. obi_state_q = "REGISTERED" /\ ~in.gnt => obi_state_q' = "REGISTERED"
  BY <1>1 DEF ObiStep, obi_req
<1> QED BY <1>1, <1>2, <1>4, <1>5, <1>6 DEF Driven, LegalBus

(* Stale answers are counted down and never up; then what is fetched for   *)
(* the wanted instruction is kept until it is used.                        *)
LEMMA Phases ==
  ASSUME IInv, DEPTH = 2, Words > 1, NEW h \in Half, Waits(h), NEW in \in Inputs, Clock(in), ~Over(h)'
  PROVE  /\ Waits(h)' /\ flush_cnt_q \in 0..2
         /\ flush_cnt_q = 2 => flush_cnt_q' = IF in.rvalid THEN 1 ELSE 2
         /\ flush_cnt_q = 1 => flush_cnt_q' = IF in.rvalid THEN 0 ELSE 1
         /\ ~in.rvalid /\ granted # <<>> => granted' # <<>>
         /\ in.gnt => granted' # <<>>
         /\ flush_cnt_q = 0 =>
              /\ flush_cnt_q' = 0
              /\ \/ HalfWanted /\ ~HalfWanted'
                 \/ /\ ~if_valid(in) /\ HalfWanted' = HalfWanted
                    /\ ~fifo_empty \/ in.rvalid => ~fifo_empty'
<1>1. /\ ~in.branch /\ booted' /\ pc_q' = h /\ ~branched'
      /\ \/ if_valid(in) /\ HalfWanted /\ ~HalfWanted' /\ flush_cnt_q = 0
         \/ ~if_valid(in) /\ ~fetch_ready(in) /\ UNCHANGED alignerVars
  BY WaitStep
<1>2. /\ flush_cnt_q' = IF in.rvalid /\ flush_cnt_q > 0 THEN flush_cnt_q - 1 ELSE flush_cnt_q
      /\ ~in.rvalid /\ granted # <<>> => granted' # <<>>
      /\ in.gnt => granted' # <<>>
  BY <1>1, WaitBus
<1>3. flush_cnt_q \in 0..2
  BY DEF IInv, TypeOK, BufferTypeOK
<1>4. Waits(h)'
  BY <1>1 DEF Waits
<1>5. ASSUME flush_cnt_q = 0, ~if_valid(in), ~fetch_ready(in), UNCHANGED alignerVars
      PROVE  HalfWanted' = HalfWanted /\ (~fifo_empty \/ in.rvalid => ~fifo_empty')
  <2>1. /\ BufferInv /\ Driven(in, fetch_ready(in)) /\ FifoStep(in, fetch_ready(in))
        /\ status_cnt_q \in Nat
    BY InputsDriven DEF Clock, BufferClock, IInv, TypeOK, BufferInv, BufferTypeOK
  <2>2. status_cnt_q' = (status_cnt_q + Pushes(in, fetch_ready(in))) - Pops(fetch_ready(in))
    BY <1>1, <2>1, EntriesShift
  <2>3. Pops(fetch_ready(in)) = 0
    BY <1>5 DEF Pops, fifo_pop
  <2>4. in.rvalid => Pushes(in, fetch_ready(in)) = 1
    BY <1>1, <1>5 DEF Pushes, fifo_push, flushing
  <2>5. Pushes(in, fetch_ready(in)) \in {0, 1}
    BY DEF Pushes
  <2>6. ~fifo_empty \/ in.rvalid => ~fifo_empty'
    BY <2>1, <2>2, <2>3, <2>4, <2>5 DEF fifo_empty
  <2>7. HalfWanted' = HalfWanted
    BY <1>5 DEF HalfWanted, alignerVars
  <2> QED BY <2>6, <2>7
<1>6. flush_cnt_q = 0 => flush_cnt_q' = 0
  BY <1>2
<1>7. /\ flush_cnt_q = 2 => flush_cnt_q' = IF in.rvalid THEN 1 ELSE 2
      /\ flush_cnt_q = 1 => flush_cnt_q' = IF in.rvalid THEN 0 ELSE 1
  BY <1>2
<1> QED BY <1>1, <1>2, <1>3, <1>4, <1>5, <1>6, <1>7

Stale(h, n)  == Waits(h) /\ flush_cnt_q = n
Asked        == granted # <<>>

(* With the FIFO as built (prefetch_buffer.sv:60), in any memory of at     *)
(* least two words, every instruction is delivered in the end unless a new *)
(* path is set: the bus grants, it answers, the stale answers run out, and *)
(* the one or two words that the instruction lies in arrive.               *)
THEOREM KeepsDeliveringHolds ==
  ASSUME DEPTH = 2, Words > 1
  PROVE  FairSpec /\ []CanProceed => KeepsDelivering
<1> SUFFICES ASSUME NEW h \in Half
             PROVE  FairSpec /\ []CanProceed => (booted /\ pc_q = h ~> Over(h))
  BY DEF KeepsDelivering, Over
<1>1. IInv /\ Waits(h) => Stale(h, 0) \/ Stale(h, 1) \/ Stale(h, 2)
  BY DEF IInv, TypeOK, BufferTypeOK, Stale
<1>2. /\ IInv /\ Stale(h, 2) => Asked
      /\ IInv /\ Stale(h, 1) /\ ~Asked => obi_state_q = "REGISTERED"
  <2> SUFFICES ASSUME IInv, granted = <<>> PROVE flush_cnt_q # 2 /\ (flush_cnt_q = 1 => obi_state_q = "REGISTERED")
    BY DEF Stale, Asked
  <2>1. InFlight = IF obi_state_q = "REGISTERED" THEN 1 ELSE 0
    BY DEF InFlight
  <2> QED BY <2>1 DEF IInv, CountersExact, TypeOK, BufferTypeOK
<1>3. ASSUME IInv, Waits(h), UNCHANGED vars
      PROVE  /\ Waits(h)' /\ flush_cnt_q' = flush_cnt_q /\ granted' = granted
             /\ state' = state /\ status_cnt_q' = status_cnt_q
  BY <1>3 DEF vars, bufferVars, alignerVars, Waits
<1>4. IInv /\ Stale(h, 2) /\ [Next]_vars => Over(h)' \/ Stale(h, 2)' \/ Stale(h, 1)'
  BY <1>3, Phases DEF Next, Stale
<1>5. IInv /\ Stale(h, 1) /\ [Next]_vars =>
        Over(h)' \/ (Stale(h, 1)' /\ (Asked => Asked')) \/ Stale(h, 0)'
  BY <1>3, Phases DEF Next, Stale, Asked
<1>6. IInv /\ Stale(h, 0) /\ [Next]_vars =>
        \/ Over(h)'
        \/ Stale(h, 0)' /\ HalfWanted /\ ~HalfWanted'
        \/ /\ Stale(h, 0)' /\ (HalfWanted <=> HalfWanted')
           /\ ~fifo_empty => ~fifo_empty'
           /\ Asked => Asked' \/ ~fifo_empty'
  <2> SUFFICES ASSUME IInv, Stale(h, 0), [Next]_vars, ~Over(h)'
               PROVE  /\ Stale(h, 0)'
                      /\ \/ HalfWanted /\ ~HalfWanted'
                         \/ /\ HalfWanted <=> HalfWanted'
                            /\ ~fifo_empty => ~fifo_empty'
                            /\ Asked => Asked' \/ ~fifo_empty'
    OBVIOUS
  <2>1. CASE UNCHANGED vars
    BY <1>3, <2>1 DEF Stale, HalfWanted, fifo_empty, Asked
  <2>2. ASSUME NEW in \in Inputs, Clock(in)
        PROVE  /\ Stale(h, 0)'
               /\ \/ HalfWanted /\ ~HalfWanted'
                  \/ /\ HalfWanted <=> HalfWanted'
                     /\ ~fifo_empty => ~fifo_empty'
                     /\ Asked => Asked' \/ ~fifo_empty'
    BY <2>2, Phases DEF Stale, Asked
  <2> QED BY <2>1, <2>2 DEF Next
<1>7. /\ IInv /\ Stale(h, 1) /\ <<Granting>>_vars => Over(h)' \/ Asked'
      /\ IInv /\ Stale(h, 0) /\ <<Granting>>_vars => Over(h)' \/ Asked'
  BY Phases DEF Granting, Asked, Stale
<1>8. /\ IInv /\ Stale(h, 2) /\ <<Answering>>_vars => Over(h)' \/ Stale(h, 1)'
      /\ IInv /\ Stale(h, 1) /\ <<Answering>>_vars => Over(h)' \/ Stale(h, 0)'
      /\ IInv /\ Stale(h, 0) /\ <<Answering>>_vars =>
           Over(h)' \/ (HalfWanted /\ ~HalfWanted') \/ ~fifo_empty'
  <2> SUFFICES ASSUME IInv, Waits(h), NEW in \in Inputs, in.rvalid, Clock(in), ~Over(h)'
               PROVE  /\ flush_cnt_q = 2 => Stale(h, 1)'
                      /\ flush_cnt_q = 1 => Stale(h, 0)'
                      /\ flush_cnt_q = 0 => (HalfWanted /\ ~HalfWanted') \/ ~fifo_empty'
    BY DEF Answering, Stale
  <2> QED BY Phases DEF Stale
<1>9. IInv /\ Stale(h, 0) /\ <<Accepting>>_vars => Over(h)' \/ (HalfWanted /\ ~HalfWanted')
  <2> SUFFICES ASSUME IInv, Stale(h, 0), NEW in \in Inputs, if_valid(in), Clock(in), ~Over(h)'
               PROVE  HalfWanted /\ ~HalfWanted'
    BY DEF Accepting
  <2> QED BY Phases DEF Stale
<1>10. FairSpec => []IInv /\ [][Next]_vars
  BY InitIInv, NextIInv, PTL DEF FairSpec, Spec
<1>11. booted /\ pc_q = h => Over(h) \/ Waits(h)
  BY DEF Over, Waits
<1>12. CanProceed => /\ Stale(h, 0) /\ ~fifo_empty => ENABLED <<Accepting>>_vars
                     /\ Asked => ENABLED <<Answering>>_vars
                     /\ ~Asked /\ obi_state_q = "REGISTERED" => ENABLED <<Granting>>_vars
                     /\ ~Asked /\ Stale(h, 0) /\ fifo_empty => ENABLED <<Granting>>_vars
  BY DEF CanProceed, Stale, Waits, Asked, flushing
<1>13. FairSpec /\ []CanProceed => (Stale(h, 2) ~> Over(h) \/ Stale(h, 1))
  BY <1>2, <1>4, <1>8, <1>10, <1>12, PTL DEF FairSpec
<1>14. FairSpec /\ []CanProceed => (Stale(h, 1) ~> Over(h) \/ Stale(h, 0))
  BY <1>2, <1>5, <1>7, <1>8, <1>10, <1>12, PTL DEF FairSpec
<1>15. FairSpec /\ []CanProceed => (Stale(h, 0) /\ HalfWanted ~> Over(h) \/ (Stale(h, 0) /\ ~HalfWanted))
  BY <1>6, <1>7, <1>8, <1>9, <1>10, <1>12, PTL DEF FairSpec
<1>16. FairSpec /\ []CanProceed => (Stale(h, 0) /\ ~HalfWanted ~> Over(h))
  BY <1>6, <1>7, <1>8, <1>9, <1>10, <1>12, PTL DEF FairSpec
<1> QED BY <1>1, <1>10, <1>11, <1>13, <1>14, <1>15, <1>16, PTL
==============================================================================
