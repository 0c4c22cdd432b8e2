------------------------------ MODULE FetchStage ------------------------------
(***************************************************************************)
(* The IF stage: the prefetch buffer, the aligner that cuts its words into *)
(* 16- and 32-bit instructions, and the IF/ID register; one step per clock *)
(* edge.  A half-word is represented by its address (see PrefetchBuffer).  *)
(*                                                                         *)
(* `in` adds to the inputs of the buffer:                                  *)
(*   go       ID is ready and the controller does not halt IF              *)
(*   clear    the ID stage has used or dropped its instruction             *)
(***************************************************************************)
EXTENDS PrefetchBuffer

VARIABLES
  Wide,                 \* memory: the half-words that begin a 32-bit instruction
  booted, branched,     \* history: a path was ever set; one was set last cycle
  state, r_instr_h, pc_q, aligner_ready_q,   \* aligner
  instr_valid_id, instr_rdata_id, pc_id      \* IF/ID register

alignerVars == <<state, r_instr_h, pc_q, aligner_ready_q>>
vars == <<bufferVars, Wide, booted, branched, alignerVars, instr_valid_id, instr_rdata_id, pc_id>>

NextHalf(h) == IF h = 2 * Words - 1 THEN 0 ELSE h + 1
Odd(h)      == h % 2 = 1

CONSTANTS
  Programs,       \* the memory contents of interest
  Targets         \* where branches go
ASSUME ProgramsAssumption == Programs \subseteq SUBSET Half
ASSUME TargetsAssumption  == Targets \subseteq Half

Init ==
  /\ BufferInit
  /\ Wide \in Programs
  /\ booted = FALSE /\ branched = FALSE
  /\ state = "ALIGNED32" /\ r_instr_h = NoWord /\ pc_q = 0 /\ aligner_ready_q = FALSE
  /\ instr_valid_id = FALSE /\ instr_rdata_id = <<NoWord>> /\ pc_id = 0

(* ---- combinational signals -------------------------------------------- *)
if_valid(in) == fetch_valid(in) /\ in.go

(* The half-words of the word that the buffer offers.                      *)
low(in)  == 2 * fetch_rdata(in)
high(in) == 2 * fetch_rdata(in) + 1

(* Only the first half-word of a 16-bit instruction is looked at.          *)
Cut(first, second) == IF first \in Wide THEN <<first, second>> ELSE <<first>>

(* The instruction that the aligner presents, from a valid word.           *)
instr_aligned(in) == CASE state = "MISALIGNED32"      -> Cut(r_instr_h, low(in))
                       [] state = "BRANCH_MISALIGNED" -> Cut(high(in), high(in))
                       [] OTHER                       -> Cut(low(in), high(in))

(* After a branch to an upper half-word that begins a 32-bit instruction,  *)
(* this word has only half of it.                                          *)
HalfOnly(in)    == state = "BRANCH_MISALIGNED" /\ high(in) \in Wide
instr_valid(in) == if_valid(in) /\ ~HalfOnly(in)

(* The stored half-word is an instruction of its own: the word that comes  *)
(* with it is not used yet.                                                *)
NarrowStored      == state = "MISALIGNED32" /\ r_instr_h \notin Wide
(* Mutant: the word that comes with the stored instruction is taken. *)
aligner_ready_always(in) == TRUE

aligner_ready(in) == ~(NarrowStored /\ fetch_valid(in))

fetch_ready(in) == ~in.branch /\ fetch_valid(in) /\ in.req /\ if_valid(in) /\ aligner_ready(in)

next_state(in) ==
  CASE state = "ALIGNED32"         -> IF low(in) \in Wide THEN "ALIGNED32" ELSE "MISALIGNED32"
    [] state = "MISALIGNED32"      -> IF r_instr_h \in Wide THEN "MISALIGNED32" ELSE "MISALIGNED16"
    [] state = "MISALIGNED16"      -> IF low(in) \in Wide THEN "ALIGNED32" ELSE "MISALIGNED32"
    [] state = "BRANCH_MISALIGNED" -> IF high(in) \in Wide THEN "MISALIGNED32" ELSE "ALIGNED32"

pc_n(in) == IF HalfOnly(in) THEN pc_q
            ELSE IF instr_aligned(in)[1] \in Wide THEN NextHalf(NextHalf(pc_q)) ELSE NextHalf(pc_q)

(* ---- registers -------------------------------------------------------- *)
AlignerStep(in) ==
  \/ /\ in.branch
     /\ state' = (IF Odd(in.pc) THEN "BRANCH_MISALIGNED" ELSE "ALIGNED32") /\ pc_q' = in.pc
     /\ r_instr_h' = NoWord /\ aligner_ready_q' = aligner_ready(in)
  \/ /\ if_valid(in)
     /\ state' = next_state(in)
     /\ pc_q' = pc_n(in)
     /\ r_instr_h' = high(in) /\ aligner_ready_q' = aligner_ready(in)
  \/ /\ ~in.branch /\ ~if_valid(in)
     /\ UNCHANGED alignerVars

IfIdStep(in) ==
  IF instr_valid(in)
  THEN instr_valid_id' = TRUE /\ instr_rdata_id' = instr_aligned(in) /\ pc_id' = pc_q
  ELSE /\ instr_valid_id' = (instr_valid_id /\ ~in.clear)
       /\ UNCHANGED <<instr_rdata_id, pc_id>>

(* The inputs of a cycle: the core starts with a branch to the boot        *)
(* address, and the controller halts IF whenever it does not fetch.        *)
(* Inputs that nothing looks at in this cycle are pinned.                  *)
Branches == [ branch : {TRUE}, pc : Targets, req : {TRUE}, gnt : BOOLEAN, rvalid : BOOLEAN,
              go : {FALSE}, clear : BOOLEAN ]
Cycles   == [ branch : {FALSE}, pc : {0}, req : BOOLEAN, gnt : BOOLEAN, rvalid : BOOLEAN,
              go : BOOLEAN, clear : BOOLEAN ]

Inputs ==
  { in \in Branches \cup Cycles :
      /\ LegalBus(in)
      /\ in.req => booted \/ in.branch
      /\ in.go => in.req /\ fetch_valid(in)
      /\ in.clear => instr_valid_id /\ ~instr_valid(in) }

Clock(in) ==
  /\ BufferClock(in, fetch_ready(in))
  /\ AlignerStep(in)
  /\ IfIdStep(in)
  /\ booted' = (booted \/ in.branch) /\ branched' = in.branch
  /\ UNCHANGED Wide

Next == \E in \in Inputs : Clock(in)

Spec == Init /\ [][Next]_vars

(* The bus grants a request in the end and answers what it has granted; ID *)
(* does not leave a word waiting for ever.                                 *)
Granting   == \E in \in Inputs : in.gnt /\ Clock(in)
Answering  == \E in \in Inputs : in.rvalid /\ Clock(in)
Accepting  == \E in \in Inputs : if_valid(in) /\ Clock(in)
FairSpec   == Spec /\ WF_vars(Granting) /\ WF_vars(Answering) /\ WF_vars(Accepting)

-----------------------------------------------------------------------------
TypeOK ==
  /\ BufferTypeOK
  /\ Wide \subseteq Half /\ booted \in BOOLEAN /\ branched \in BOOLEAN
  /\ state \in {"ALIGNED32", "MISALIGNED32", "MISALIGNED16", "BRANCH_MISALIGNED"}
  /\ pc_q \in Half /\ aligner_ready_q \in BOOLEAN
  /\ instr_valid_id \in BOOLEAN

(* The aligner and the buffer agree on where they are: the word the buffer *)
(* owes is the one that the aligner needs for the instruction at pc_q.     *)
AlignerInStep ==
  booted =>
    /\ state = "BRANCH_MISALIGNED" => Odd(pc_q)  /\ owed = WordOf(pc_q)
    /\ state = "MISALIGNED32"      => Odd(pc_q)  /\ owed = Succ(WordOf(pc_q)) /\ r_instr_h = pc_q
    /\ state \in {"ALIGNED32", "MISALIGNED16"} => ~Odd(pc_q) /\ owed = WordOf(pc_q)

(* The word held for a second instruction is still there.                  *)
HeldWordKept == state = "MISALIGNED16" => ~fifo_empty /\ ~aligner_ready_q

(* Before the branch to the boot address nothing is fetched.               *)
NothingBeforeBoot == ~booted => cnt_q = 0 /\ status_cnt_q = 0

IInv == TypeOK /\ CountersExact /\ RoomForAnswers /\ PathInOrder /\ AlignerInStep /\ NothingBeforeBoot

(* All that is invariant of the fetch side: no overflow, no stale word, no *)
(* word lost or doubled, and the one that the aligner needs is there.      *)
FetchInv == IInv /\ HeldWordKept

Stream == INSTANCE InstructionStream WITH pc <- pc_q
ImplementsStream == Stream!Spec

(* Nothing waits for itself: a word in the FIFO can always be taken, a     *)
(* request that was granted answered, and with none granted one is there   *)
(* or can be made, held back by no counter and no full FIFO.               *)
CanProceed ==
  /\ booted /\ ~fifo_empty /\ ~flushing => ENABLED <<Accepting>>_vars
  /\ granted # <<>> => ENABLED <<Answering>>_vars
  /\ granted = <<>> /\ (obi_state_q = "REGISTERED" \/ (booted /\ fifo_empty)) => ENABLED <<Granting>>_vars

(* No instruction keeps ID waiting for ever: in the end it is delivered,   *)
(* or a new path is set.                                                   *)
KeepsDelivering == \A h \in Half : booted /\ pc_q = h ~> pc_q # h \/ branched
==============================================================================
