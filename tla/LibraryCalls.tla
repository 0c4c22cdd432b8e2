----------------------------- MODULE LibraryCalls -----------------------------
(***************************************************************************)
(* What the functions of include/ promise to a caller, without any         *)
(* machinery: a call is answered in one step.  An interrupt that is taken  *)
(* loses the program for good.                                             *)
(***************************************************************************)
EXTENDS LibraryInterface

VARIABLES
  memory, result,       \* the RAM and the last result
  pending,              \* the call that is not answered yet
  enabled, unmasked,    \* mie and mstatus.MIE
  lost                  \* an interrupt has been taken

callVars == <<memory, result, pending, enabled, unmasked, lost>>

(* Whether interrupts are taken after a call, and with what enabled.       *)
Enabled(c, e)  == IF c.f = "csrw" THEN c.value ELSE e
Unmasked(c, u) == CASE c.f = "int_enable"  -> TRUE
                    [] c.f = "int_disable" -> FALSE
                    [] OTHER               -> u

CallsInit ==
  /\ memory = [a \in Addresses |-> {}] /\ result = Void
  /\ pending = Nowhere
  /\ enabled = FALSE /\ unmasked = FALSE /\ lost = FALSE

Ask(c) ==
  /\ ~lost /\ pending = Nowhere /\ pending' = c /\ result' = Void
  /\ UNCHANGED <<memory, enabled, unmasked, lost>>

Answer ==
  /\ ~lost /\ pending # Nowhere /\ pending' = Nowhere
  /\ Leaves(pending, memory, memory') /\ Answers(pending, memory, result')
  /\ enabled' = Enabled(pending, enabled) /\ unmasked' = Unmasked(pending, unmasked)
  /\ UNCHANGED lost

(* Only an interrupt that is enabled, and not masked when the call began.  *)
Lose == ~lost /\ enabled /\ unmasked /\ lost'

CallsNext == (\E c \in Calls : Ask(c)) \/ Answer \/ Lose

CallsSpec == CallsInit /\ [][CallsNext]_callVars
==============================================================================
