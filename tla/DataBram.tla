----------------------------- MODULE DataBram -----------------------------
(***************************************************************************)
(* The data side of the system: the load-store unit, the bridge            *)
(* core_2_bram and the block RAM behind it.  The bridge is generic in the  *)
(* read latency of the RAM (1 here): a behaviour starts by choosing one.   *)
(*                                                                         *)
(* External: the block RAM.  Every cycle it reads the word it is addressed *)
(* with, and shows it `latency` cycles later; it writes the lanes enabled  *)
(* by weout at the end of the cycle.                                       *)
(***************************************************************************)
EXTENDS LoadStoreUnit, Sequences

CONSTANTS
  Instructions,   \* the instructions of interest
  Contents,       \* the memory contents to start from
  Latencies       \* the read latencies (R_LATENCY_IN_CYCLES) of interest

ASSUME InstructionsAssumption == NoInstr \in Instructions /\ Instructions \subseteq Instruction
ASSUME ContentsAssumption     == Contents \subseteq Memories
ASSUME LatenciesAssumption    == Latencies \subseteq Nat \ {0}

VARIABLES
  state, lat_cnt,       \* core_2_bram
  latency, mem, reads   \* the RAM: its contents, and the words read, newest first

vars == <<lsuVars, state, lat_cnt, latency, mem, reads>>

Init ==
  /\ LsuInit
  /\ state = "IDLE" /\ lat_cnt = 0
  /\ latency \in Latencies /\ mem \in Contents /\ reads = [i \in 1..latency |-> Zeros]

(* ---- core_2_bram: combinational signals -------------------------------- *)
req == trans_valid

rvalid == latency <= 1 \/ (state = "READ_WAIT" /\ lat_cnt = 0)

(* Mutant: a request is granted while the RAM still works on a read.       *)
gnt_at_once == req

gnt == req /\ (state # "READ_WAIT" \/ rvalid)

rvalid_o == CASE state = "IDLE"       -> FALSE
              [] state = "READ_WAIT"  -> rvalid
              [] state = "WRITE_WAIT" -> TRUE

(* Mutant: the request granted with the answer to a read is forgotten.     *)
next_state_read_to_idle ==
  IF state = "READ_WAIT" THEN (IF rvalid THEN "IDLE" ELSE "READ_WAIT")
  ELSE IF ~req THEN "IDLE"
  ELSE IF trans_we THEN "WRITE_WAIT" ELSE "READ_WAIT"

next_state ==
  IF state = "READ_WAIT" /\ ~rvalid THEN "READ_WAIT"
  ELSE IF ~req THEN "IDLE"
  ELSE IF trans_we THEN "WRITE_WAIT" ELSE "READ_WAIT"

(* The lanes written do not wait for the grant.                            *)
weout == IF req /\ trans_we THEN trans_be ELSE {}

entering_read   == state # "READ_WAIT" /\ next_state = "READ_WAIT"
restarting_read == state = "READ_WAIT" /\ rvalid /\ next_state = "READ_WAIT"

(* Mutant: a read that waits is taken for a read that starts.              *)
next_lat_cnt_restarting ==
  IF latency <= 1 THEN 0
  ELSE IF next_state = "READ_WAIT" THEN latency - 1
  ELSE lat_cnt

next_lat_cnt ==
  IF latency <= 1 THEN 0
  ELSE IF entering_read \/ restarting_read THEN latency - 1
  ELSE IF state = "READ_WAIT" /\ lat_cnt > 0 THEN lat_cnt - 1
  ELSE lat_cnt

(* ---- one clock edge ----------------------------------------------------- *)
BramStep ==
  /\ mem' = [w \in Word |-> [l \in Lanes |->
              IF w = trans_word /\ l \in weout THEN trans_wdata[l] ELSE mem[w][l]]]
  /\ reads' = <<IF trans_word \in Word THEN mem[trans_word] ELSE Zeros>>
                \o SubSeq(reads, 1, latency - 1)
  /\ UNCHANGED latency

Cycle(next) ==
  /\ next # NoInstr => IdMoves(gnt, rvalid_o)
  /\ LsuCycle(gnt, rvalid_o, reads[latency], next)
  /\ state' = next_state /\ lat_cnt' = next_lat_cnt
  /\ BramStep

Next == \E next \in Instructions : Cycle(next)

(* The clock ticks.                                                        *)
Spec == Init /\ [][Next]_vars /\ WF_vars(Next)

-----------------------------------------------------------------------------
(* The answers that the bridge still has to give.                          *)
Pending == CASE state = "IDLE"       -> <<>>
             [] state = "READ_WAIT"  -> << reads[latency - lat_cnt] >>
             [] state = "WRITE_WAIT" -> << reads[1] >>

Bus == INSTANCE DataBus WITH pending <- Pending

TypeOK ==
  /\ LsuTypeOK
  /\ state \in {"IDLE", "READ_WAIT", "WRITE_WAIT"}
  /\ latency \in Latencies /\ lat_cnt \in 0..(latency - 1)
  /\ mem \in Memories /\ reads \in [1..latency -> Value]

(* The bridge keeps the protocol that the load-store unit relies on (its   *)
(* assertions on outstanding transactions and spurious answers): what the  *)
(* bridge has yet to answer is what the unit waits for, a word read or the *)
(* end of a write, and the words that the RAM is about to show are the     *)
(* ones that were asked for.                                               *)
BridgeInStep ==
  /\ TypeOK /\ Bus!IInv
  /\ state # "IDLE" => (state = "WRITE_WAIT" <=> data_we_q)

(* At any read latency the bridge and the RAM are a memory that keeps the  *)
(* protocol, although the RAM is written while a request still waits for   *)
(* its grant.                                                              *)
ImplementsBus == Bus!Spec

(* Programs see accesses made one at a time.                               *)
ImplementsDataMemory == Bus!ImplementsDataMemory

(* No access waits for ever, in EX for its requests or in WB for answers.  *)
AccessesFinish ==
  /\ IsAccess(ex) ~> IdMoves(gnt, rvalid_o)
  /\ cnt_q > 0 ~> Finishes(rvalid_o)
==============================================================================
