----------------------------- MODULE RebootBlock -----------------------------
(***************************************************************************)
(* The control register that the host writes to start the core, behind its *)
(* AXI slave (reboot_riscv, reboot_riscv_control_s_axi), and the start of  *)
(* the core (cv32e40p_sleep_unit).  Of the 32 bits of input_signal two are *)
(* connected: fetch_enable, and restart, which ends at the unused input    *)
(* REBOOT of riscv_top_bram.  The host writes no other register of the     *)
(* slave.                                                                  *)
(***************************************************************************)
VARIABLES wstate, input_signal, fetch_enable_q

rebootVars == <<wstate, input_signal, fetch_enable_q>>

Signals == {"fetch_enable", "restart"}

fetch_enable == "fetch_enable" \in input_signal

RebootInit == wstate = "WRRESET" /\ input_signal = {} /\ fetch_enable_q = FALSE

w_hs(beat)     == wstate = "WRDATA" /\ beat
written(beat)  == wstate = "WRRESP" /\ beat

(* Address, data and answer pass one after the other, each when the host   *)
(* has its `beat` of a write of `signals` ready.                           *)
WriteEdge(beat, signals) ==
  /\ wstate' = CASE wstate = "WRRESET" -> "WRIDLE"
                 [] wstate = "WRIDLE"  -> IF beat THEN "WRDATA" ELSE "WRIDLE"
                 [] wstate = "WRDATA"  -> IF beat THEN "WRRESP" ELSE "WRDATA"
                 [] wstate = "WRRESP"  -> IF beat THEN "WRIDLE" ELSE "WRRESP"
  /\ input_signal' = IF w_hs(beat) THEN signals ELSE input_signal

(* Mutant: the core runs while its input says so.                          *)
StartEdgeLevel == fetch_enable_q' = fetch_enable

(* Once started, the core stays started until the next reset; its clock is *)
(* not gated.                                                              *)
StartEdge == fetch_enable_q' = (fetch_enable \/ fetch_enable_q)
==============================================================================
