---------------------------- MODULE PrefetchBuffer ----------------------------
(***************************************************************************)
(* The prefetch buffer of the IF stage: prefetch controller, fetch FIFO    *)
(* and the OBI interface of the instruction bus, one step per clock edge,  *)
(* with the memory behind the bus.                                         *)
(*                                                                         *)
(* An instruction word is represented by the word address it was read      *)
(* from: instruction memory is not written while the program runs, and     *)
(* what matters is which word is delivered when.  Addresses wrap.          *)
(*                                                                         *)
(* In one cycle the rest of the system drives a record `in`:               *)
(*   req     fetching is wanted (off in reset and while asleep)            *)
(*   branch  a new path starts at the half-word `pc` (any pc_set)          *)
(*   gnt     the bus grants the request it sees                            *)
(*   rvalid  the bus answers the oldest granted request                    *)
(* and `ready`: the IF stage takes the word that it sees.                  *)
(***************************************************************************)
EXTENDS Naturals, Sequences

CONSTANTS
  Words,    \* word addresses are 0 .. Words - 1
  DEPTH,    \* entries of the fetch FIFO, and most requests in flight
  NoWord    \* data that was never read from memory

ASSUME WordsAssumption == Words \in Nat \ {0}
ASSUME DepthAssumption == DEPTH \in Nat \ {0, 1}

VARIABLES
  state_q,                \* prefetch controller: "IDLE" or "BRANCH_WAIT"
  cnt_q, flush_cnt_q,     \* requests in flight; how many of them are stale
  trans_addr_q,           \* last address accepted, or branch target waiting
  read_pointer_q, write_pointer_q, status_cnt_q, mem_q,   \* fetch FIFO
  obi_state_q, obi_addr_q,    \* OBI interface: "TRANSPARENT" or "REGISTERED"
  granted,                \* memory: addresses it has yet to answer, in order
  owed                    \* history: the next word of the current path

bufferVars == <<state_q, cnt_q, flush_cnt_q, trans_addr_q, read_pointer_q, write_pointer_q,
                status_cnt_q, mem_q, obi_state_q, obi_addr_q, granted, owed>>

Word    == 0..(Words - 1)
Half    == 0..(2 * Words - 1)
Slots   == 0..(DEPTH - 1)
Succ(a) == IF a = Words - 1 THEN 0 ELSE a + 1

(* Word w holds the half-words 2w and 2w + 1; only words are fetched.      *)
WordOf(h) == h \div 2

(* A pointer of the FIFO has as many bits as its slots need: it wraps.     *)
NextSlot(p) == IF p = DEPTH - 1 THEN 0 ELSE p + 1

BufferInit ==
  /\ state_q = "IDLE" /\ cnt_q = 0 /\ flush_cnt_q = 0 /\ trans_addr_q = 0
  /\ read_pointer_q = 0 /\ write_pointer_q = 0 /\ status_cnt_q = 0
  /\ mem_q = [s \in Slots |-> NoWord]
  /\ obi_state_q = "TRANSPARENT" /\ obi_addr_q = 0
  /\ granted = <<>>
  /\ owed = Succ(0)

(* ---- combinational signals -------------------------------------------- *)
fifo_empty == status_cnt_q = 0
fifo_full  == status_cnt_q = DEPTH
flushing   == flush_cnt_q > 0

fetch_valid(in) == (~fifo_empty \/ in.rvalid) /\ ~in.branch /\ ~flushing
fetch_rdata(in) == IF ~fifo_empty THEN mem_q[read_pointer_q]
                   ELSE IF in.rvalid THEN Head(granted) ELSE NoWord

(* A request needs an entry for its answer; a branch empties the FIFO.     *)
fifo_cnt_masked(in) == IF in.branch THEN 0 ELSE status_cnt_q
trans_valid(in)     == in.req /\ fifo_cnt_masked(in) + cnt_q < DEPTH
trans_ready         == obi_state_q = "TRANSPARENT"
count_up(in)        == trans_valid(in) /\ trans_ready

(* Mutant: a target that could not be requested at once is stepped over. *)
trans_addr_stepped(in) == IF in.branch THEN WordOf(in.pc) ELSE Succ(trans_addr_q)

trans_addr(in) == IF in.branch THEN WordOf(in.pc)
                  ELSE IF state_q = "IDLE" THEN Succ(trans_addr_q) ELSE trans_addr_q

fifo_push(in, ready) == in.rvalid /\ (~fifo_empty \/ ~ready) /\ ~in.branch /\ ~flushing
fifo_pop(ready)      == ~fifo_empty /\ ready

obi_req(in)  == obi_state_q = "REGISTERED" \/ trans_valid(in)
obi_addr(in) == IF obi_state_q = "REGISTERED" THEN obi_addr_q ELSE trans_addr(in)

(* ---- registers -------------------------------------------------------- *)
(* Mutant: an answer that is flushed is still counted as outstanding. *)
next_cnt_leaking(in) == (cnt_q + (IF count_up(in) THEN 1 ELSE 0))
                        - (IF in.rvalid /\ ~flushing THEN 1 ELSE 0)

next_cnt(in) == (cnt_q + (IF count_up(in) THEN 1 ELSE 0)) - (IF in.rvalid THEN 1 ELSE 0)

(* Mutant: the answer that comes with the branch is counted as stale twice. *)
next_flush_cnt_twice(in) ==
  IF in.branch THEN cnt_q
  ELSE IF in.rvalid /\ flushing THEN flush_cnt_q - 1 ELSE flush_cnt_q

(* At a branch every request in flight turns stale.                        *)
next_flush_cnt(in) ==
  IF in.branch THEN IF in.rvalid /\ cnt_q > 0 THEN cnt_q - 1 ELSE cnt_q
  ELSE IF in.rvalid /\ flushing THEN flush_cnt_q - 1 ELSE flush_cnt_q

ControllerStep(in) ==
  /\ state_q' = IF count_up(in) THEN "IDLE" ELSE IF in.branch THEN "BRANCH_WAIT" ELSE state_q
  /\ cnt_q' = next_cnt(in) /\ flush_cnt_q' = next_flush_cnt(in)
  /\ trans_addr_q' = IF in.branch \/ count_up(in) THEN trans_addr(in) ELSE trans_addr_q

FifoStep(in, ready) ==
  LET push == fifo_push(in, ready) /\ ~fifo_full
      pop  == fifo_pop(ready)
  IN  /\ mem_q' = IF push THEN [mem_q EXCEPT ![write_pointer_q] = Head(granted)] ELSE mem_q
      /\ IF in.branch
         THEN read_pointer_q' = 0 /\ write_pointer_q' = 0 /\ status_cnt_q' = 0
         ELSE /\ write_pointer_q' = IF push THEN NextSlot(write_pointer_q) ELSE write_pointer_q
              /\ read_pointer_q'  = IF pop THEN NextSlot(read_pointer_q) ELSE read_pointer_q
              /\ status_cnt_q' = (status_cnt_q + (IF push THEN 1 ELSE 0)) - (IF pop THEN 1 ELSE 0)

(* A request that is not granted at once is held, whatever the controller  *)
(* asks for next.                                                          *)
ObiStep(in) ==
  /\ obi_state_q' = IF obi_req(in) /\ ~in.gnt THEN "REGISTERED" ELSE "TRANSPARENT"
  /\ obi_addr_q'  = IF trans_ready /\ obi_state_q' = "REGISTERED" THEN obi_addr(in) ELSE obi_addr_q

(* The memory answers in order, in a later cycle than the grant.           *)
MemoryStep(in) ==
  LET rest == IF in.rvalid THEN Tail(granted) ELSE granted
  IN  granted' = IF obi_req(in) /\ in.gnt THEN Append(rest, obi_addr(in)) ELSE rest

BufferClock(in, ready) ==
  /\ ControllerStep(in)
  /\ FifoStep(in, ready)
  /\ ObiStep(in)
  /\ MemoryStep(in)
  /\ owed' = IF in.branch THEN WordOf(in.pc) ELSE IF ready THEN Succ(owed) ELSE owed

(* What a cycle may bring: a branch only while fetching, an answer only to *)
(* a granted request.  Inputs that nothing looks at are pinned.            *)
LegalBus(in) ==
  /\ in.branch => in.req
  /\ in.rvalid => granted # <<>>
  /\ in.gnt => obi_req(in)

-----------------------------------------------------------------------------
(* The words the buffer has or will get on the current path, in order: the *)
(* entries of the FIFO, then the requests in flight that are not stale.    *)
InFlight    == Len(granted) + (IF obi_state_q = "REGISTERED" THEN 1 ELSE 0)
Request(j)  == IF j <= Len(granted) THEN granted[j] ELSE obi_addr_q
Slot(i)     == IF read_pointer_q + i < DEPTH THEN read_pointer_q + i
                                             ELSE (read_pointer_q + i) - DEPTH
LiveWords   == (status_cnt_q + cnt_q) - flush_cnt_q
Live(i)     == IF i < status_cnt_q THEN mem_q[Slot(i)]
                                   ELSE Request((flush_cnt_q + i + 1) - status_cnt_q)

BufferTypeOK ==
  /\ state_q \in {"IDLE", "BRANCH_WAIT"}
  /\ cnt_q \in 0..DEPTH /\ flush_cnt_q \in 0..DEPTH /\ status_cnt_q \in 0..DEPTH
  /\ trans_addr_q \in Word /\ owed \in Word /\ obi_addr_q \in Word
  /\ read_pointer_q \in Slots /\ write_pointer_q \in Slots
  /\ mem_q \in [Slots -> Word \cup {NoWord}]
  /\ obi_state_q \in {"TRANSPARENT", "REGISTERED"}
  /\ granted \in Seq(Word)

(* The counters are what they stand for: the requests in flight, stale     *)
(* ones included, whether the bus has granted them or not.                 *)
CountersExact == cnt_q = InFlight /\ flush_cnt_q <= cnt_q

(* Every answer to come has an entry in the FIFO, so that it is never full *)
(* when it is pushed (assertion full_write of cv32e40p_fifo), and its      *)
(* pointers are as far apart as it has entries.                            *)
RoomForAnswers ==
  /\ LiveWords <= DEPTH
  /\ write_pointer_q = Slot(IF status_cnt_q = DEPTH THEN 0 ELSE status_cnt_q)

(* No word of an abandoned path, no word twice, none left out: the live    *)
(* words continue the path from the word that is owed, and the next        *)
(* request will continue them.                                             *)
PathInOrder ==
  /\ LiveWords > 0 => Live(0) = owed /\ state_q = "IDLE" /\ trans_addr_q = Live(LiveWords - 1)
  /\ LiveWords = 0 => owed = IF state_q = "IDLE" THEN Succ(trans_addr_q) ELSE trans_addr_q
  /\ \A i \in 0..(DEPTH - 1) : i + 1 < LiveWords => Live(i + 1) = Succ(Live(i))

BufferInv == BufferTypeOK /\ CountersExact /\ RoomForAnswers /\ PathInOrder
==============================================================================
