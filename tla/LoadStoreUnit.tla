--------------------------- MODULE LoadStoreUnit ---------------------------
(***************************************************************************)
(* The load-store unit with the pipeline registers on either side of it:   *)
(* the access in EX, moved on by the ID stage, and the one in WB.  One     *)
(* step per clock edge.  In one cycle the data bus drives                  *)
(*   gnt          the request it sees is accepted                          *)
(*   resp_valid   the oldest accepted request is answered, resp_rdata      *)
(* and the ID stage offers the instruction `next` (NoInstr: none; what the *)
(* controller stalls or kills never gets here).  A write answers too.      *)
(***************************************************************************)
EXTENDS MemoryAccess

DEPTH == 2      \* most transactions outstanding

VARIABLES
  ex, data_misaligned_ex,     \* EX: the instruction; its second half is under way
  cnt_q,                      \* transactions outstanding
  data_type_q, rdata_offset_q, data_sign_ext_q, data_we_q,   \* WB: the access
  regfile_we_lsu,             \* WB: it writes the register file
  rdata_q,                    \* the last answer to a load
  delivered                   \* what a finished access gave the register file

lsuVars == <<ex, data_misaligned_ex, cnt_q, data_type_q, rdata_offset_q, data_sign_ext_q,
             data_we_q, regfile_we_lsu, rdata_q, delivered>>

LsuInit ==
  /\ ex = NoInstr /\ data_misaligned_ex = FALSE
  /\ cnt_q = 0
  /\ data_type_q = 4 /\ rdata_offset_q = 0 /\ data_sign_ext_q = FALSE /\ data_we_q = FALSE
  /\ regfile_we_lsu = FALSE
  /\ rdata_q = Zeros
  /\ delivered = NoData

(* ---- the request ------------------------------------------------------ *)
trans_valid == IsAccess(ex) /\ cnt_q < DEPTH
trans_we    == ex.kind = "store"
trans_word  == IF data_misaligned_ex THEN ex.word + 1 ELSE ex.word

(* The lanes of the word that this half of the access is about.            *)
trans_be ==
  IF ~data_misaligned_ex THEN { l \in Lanes : ex.off <= l /\ l < ex.off + ex.size }
  ELSE IF ex.size = 4 THEN { l \in Lanes : l < ex.off }
  ELSE {0}

(* The register is rotated so that its first byte is in lane `off`.        *)
trans_wdata ==
  [l \in Lanes |-> IF l >= ex.off THEN ex.data[l - ex.off] ELSE ex.data[l + 4 - ex.off]]

(* The access reaches into the next word: it needs a second half.          *)
data_misaligned_o ==
  /\ IsAccess(ex) /\ ~data_misaligned_ex
  /\ \/ ex.size = 4 /\ ex.off # 0
     \/ ex.size = 2 /\ ex.off = 3

(* ---- stage handshakes -------------------------------------------------- *)
count_up(gnt) == trans_valid /\ gnt

lsu_ready_wb(resp_valid) == cnt_q = 0 \/ resp_valid

(* Mutant: an accepted access leaves EX although WB still waits for an      *)
(* answer.                                                                 *)
lsu_ready_ex_early(gnt, resp_valid) ==
  ~IsAccess(ex) \/ count_up(gnt) \/ (cnt_q > 1 /\ resp_valid)

lsu_ready_ex(gnt, resp_valid) ==
  \/ ~IsAccess(ex)
  \/ cnt_q = 0 /\ count_up(gnt)
  \/ cnt_q = 1 /\ resp_valid /\ count_up(gnt)
  \/ cnt_q > 1 /\ resp_valid

ex_valid(gnt, resp_valid) == lsu_ready_ex(gnt, resp_valid) /\ lsu_ready_wb(resp_valid)

(* A branch leaves EX without going to WB.                                 *)
ex_ready(gnt, resp_valid) == ex_valid(gnt, resp_valid) \/ ex.kind = "branch"

(* Mutant: a request accepted in the cycle of an answer still counts up.   *)
next_cnt_up_first(gnt, resp_valid) ==
  IF count_up(gnt) THEN cnt_q + 1 ELSE IF resp_valid THEN cnt_q - 1 ELSE cnt_q

next_cnt(gnt, resp_valid) ==
  IF count_up(gnt) /\ ~resp_valid THEN cnt_q + 1
  ELSE IF ~count_up(gnt) /\ resp_valid THEN cnt_q - 1
  ELSE cnt_q

(* ---- the answer -------------------------------------------------------- *)
(* The bytes of an access from the last answer to it and, when it was      *)
(* split, the one before.                                                  *)
Gathered(size, off, first, last, i) ==
  IF off + i >= 4 THEN last[off + i - 4]
  ELSE IF off + size > 4 THEN first[off + i]
  ELSE last[off + i]

Extended(size, off, signed, first, last) ==
  [i \in Lanes |-> IF i < size THEN Gathered(size, off, first, last, i)
                   ELSE Fill(signed, Gathered(size, off, first, last, size - 1))]

data_rdata_ext(resp_rdata) ==
  Extended(data_type_q, rdata_offset_q, data_sign_ext_q, rdata_q, resp_rdata)

(* ---- registers --------------------------------------------------------- *)
(* Mutant: the second half replaces the first before it is accepted.       *)
IdExStep_second_at_once(gnt, resp_valid, next) ==
  \/ /\ ~ex_ready(gnt, resp_valid) /\ ~data_misaligned_o
     /\ UNCHANGED <<ex, data_misaligned_ex>>
  \/ /\ data_misaligned_o
     /\ data_misaligned_ex' = TRUE /\ UNCHANGED ex
  \/ /\ ex_ready(gnt, resp_valid) /\ ~data_misaligned_o
     /\ ex' = next /\ data_misaligned_ex' = FALSE

(* ID to EX: the second half of a split access comes before anything else. *)
IdExStep(gnt, resp_valid, next) ==
  \/ /\ ~ex_ready(gnt, resp_valid)
     /\ UNCHANGED <<ex, data_misaligned_ex>>
  \/ /\ ex_ready(gnt, resp_valid) /\ data_misaligned_o
     /\ data_misaligned_ex' = TRUE /\ UNCHANGED ex
  \/ /\ ex_ready(gnt, resp_valid) /\ ~data_misaligned_o
     /\ ex' = next /\ data_misaligned_ex' = FALSE

ExWbStep(gnt, resp_valid) ==
  /\ regfile_we_lsu' = IF ex_valid(gnt, resp_valid) THEN ex.kind = "load"
                       ELSE regfile_we_lsu /\ ~lsu_ready_wb(resp_valid)
  /\ IF lsu_ready_ex(gnt, resp_valid) /\ IsAccess(ex)
     THEN /\ data_type_q' = ex.size /\ rdata_offset_q' = ex.off /\ data_sign_ext_q' = ex.signed
          /\ data_we_q' = (ex.kind = "store")
     ELSE UNCHANGED <<data_type_q, rdata_offset_q, data_sign_ext_q, data_we_q>>

(* What comes back for the first half is kept as it is.                    *)
RdataStep(resp_valid, resp_rdata) ==
  rdata_q' = IF ~resp_valid \/ data_we_q THEN rdata_q
             ELSE IF data_misaligned_ex \/ data_misaligned_o THEN resp_rdata
             ELSE data_rdata_ext(resp_rdata)

(* The access in WB is over with its last answer.                          *)
Finishes(resp_valid) == resp_valid /\ ~data_misaligned_ex

LsuCycle(gnt, resp_valid, resp_rdata, next) ==
  /\ IdExStep(gnt, resp_valid, next)
  /\ ExWbStep(gnt, resp_valid)
  /\ RdataStep(resp_valid, resp_rdata)
  /\ cnt_q' = next_cnt(gnt, resp_valid)
  /\ delivered' = IF Finishes(resp_valid) /\ regfile_we_lsu
                  THEN data_rdata_ext(resp_rdata) ELSE NoData

(* ID has an instruction to offer only when EX takes one.                  *)
IdMoves(gnt, resp_valid) == ex_ready(gnt, resp_valid) /\ ~data_misaligned_o

LsuTypeOK ==
  /\ ex \in Instruction /\ data_misaligned_ex \in BOOLEAN
  /\ cnt_q \in 0..DEPTH
  /\ data_type_q \in {1, 2, 4} /\ rdata_offset_q \in Lanes /\ data_sign_ext_q \in BOOLEAN
  /\ data_we_q \in BOOLEAN /\ regfile_we_lsu \in BOOLEAN
  /\ rdata_q \in Value
  /\ delivered \in Value \cup {NoData}
==============================================================================
