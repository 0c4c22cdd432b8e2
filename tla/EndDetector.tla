----------------------------- MODULE EndDetector -----------------------------
(***************************************************************************)
(* The end-of-program detector mem_snoop_match, which watches the stores   *)
(* of the core for the end word and counts clock cycles until it passes,   *)
(* and the register bank through which the host reads it: register 0 is    *)
(* the match, register 1 the count.  Both move on every clock edge.        *)
(***************************************************************************)
EXTENDS Naturals

CONSTANT CountRange     \* the counter wraps around: 2^32

ASSUME CountAssumption == CountRange \in Nat \ {0}

VARIABLES
  clk_counter, match_found,   \* mem_snoop_match
  registers, rstate, rdata    \* axi_reg_bank_controller

detectorVars == <<clk_counter, match_found, registers, rstate, rdata>>

C_SNOOP_ADDR == 8192
C_SNOOP_DATA == <<239, 190, 173, 222>>      \* deadbeef

(* What the core puts on the write port of the RAM: nothing, or a word.    *)
NoStore        == [wen |-> FALSE]
StoreOf(a, d)  == [wen |-> TRUE, addr |-> a, data |-> d]
is_match(s)    == s.wen /\ s.addr = C_SNOOP_ADDR /\ s.data = C_SNOOP_DATA

DetectorInit ==
  /\ clk_counter = 0 /\ match_found = FALSE
  /\ registers = [i \in 0..1 |-> 0] /\ rstate = "RDRESET" /\ rdata = 0

(* Mutant: the counter runs on after the match.                            *)
SnoopEdgeRunsOn(clk_en, store) ==
  /\ clk_counter' = IF clk_en THEN (clk_counter + 1) % CountRange ELSE clk_counter
  /\ match_found' = (is_match(store) \/ match_found)

SnoopEdge(clk_en, store) ==
  /\ clk_counter' = IF clk_en /\ ~match_found THEN (clk_counter + 1) % CountRange
                    ELSE clk_counter
  /\ match_found' = (is_match(store) \/ match_found)

(* The bank holds what the detector showed one cycle ago.  A read of a     *)
(* register is accepted when idle, with `beat` a beat of the host's        *)
(* transfer, and answered from what was captured then.                     *)
read_accepted(beat) == rstate = "RDIDLE" /\ beat
read_answered(beat) == rstate = "RDDATA" /\ beat

BankEdge(beat, reg) ==
  /\ registers' = [i \in 0..1 |-> IF i = 1 THEN clk_counter ELSE IF match_found THEN 1 ELSE 0]
  /\ rdata' = IF read_accepted(beat) THEN registers[reg] ELSE rdata
  /\ rstate' = IF read_accepted(beat) THEN "RDDATA"
               ELSE IF rstate = "RDRESET" \/ read_answered(beat) THEN "RDIDLE"
               ELSE rstate
==============================================================================
