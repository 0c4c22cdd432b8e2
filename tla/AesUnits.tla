------------------------------- MODULE AesUnits -------------------------------
(***************************************************************************)
(* The two stateful AES units of the execute stage: the key-schedule unit  *)
(* (cv32e40p_aes_ks: round key krk, round counter rcnt) and the state unit *)
(* (cv32e40p_aes_state: cipher state st), as the AES instructions drive    *)
(* them.  An instruction is a record [op, idx, w]: idx is the two-bit      *)
(* field instr[31:30] (word index or round mode), w the rs1 operand.       *)
(*                                                                         *)
(* The 128-bit arithmetic is a parameter, word by word: KeyWord(c, k, n)   *)
(* is word c of the round key after k when the counter is n, and           *)
(* RoundWord(c, m, s, k) word c of the cipher state after a round of mode  *)
(* m.  AesDatapath gives both their bits; nothing here depends on them.    *)
(***************************************************************************)
EXTENDS Naturals

CONSTANTS
  ZeroWord,              \* the reset value of a register word
  KeyWord(_, _, _),      \* n0 .. n3 of one key-expand step
  RoundWord(_, _, _, _)  \* next_state[0] .. next_state[3] of one round

VARIABLES
  krk,    \* krk_q[0:3], the live round key
  rcnt,   \* rcnt_q, the 4-bit counter that selects Rcon
  st      \* st_q[0:3], the cipher state, one word per column

unitVars == <<krk, rcnt, st>>

Idx == 0..3

(* The eight AES operators of the ALU.  The last four change no register   *)
(* of the units: two read them, two are combinational.                     *)
AesOperators == {"ksld", "kse", "stld", "rnd", "ksrd", "strd", "esmi", "esi"}

(* Registers with one word per index, and nothing else.                    *)
Quad(q) == DOMAIN q = Idx /\ q = [c \in Idx |-> q[c]]

(* Mutant: the fourth word is left out of the register.                    *)
ThreeWords(k, n)      == [c \in 0..2 |-> KeyWord(c, k, n)]

(* One key-expand step and one round, all four words at once.              *)
ExpandKey(k, n)       == [c \in Idx |-> KeyWord(c, k, n)]
RoundStep(m, s, k)    == [c \in Idx |-> RoundWord(c, m, s, k)]

UnitsInit ==
  /\ krk  = [c \in Idx |-> ZeroWord]
  /\ rcnt = 0
  /\ st   = [c \in Idx |-> ZeroWord]

(* Mutant: a load leaves the counter where the last key stopped.           *)
KeyLoadKeepsCounter(i) ==
  /\ i.op = "ksld"
  /\ krk' = [krk EXCEPT ![i.idx] = i.w]
  /\ UNCHANGED <<rcnt, st>>

(* xaesksld: seed one word of the key; any load restarts the Rcon counter. *)
KeyLoad(i) ==
  /\ i.op = "ksld"
  /\ krk'  = [krk EXCEPT ![i.idx] = i.w]
  /\ rcnt' = 0
  /\ st'   = st

(* xaeskse: the next round key; the counter is four bits wide.             *)
KeyExpand(i) ==
  /\ i.op = "kse"
  /\ krk'  = ExpandKey(krk, rcnt)
  /\ rcnt' = (rcnt + 1) % 16
  /\ st'   = st

(* xaesstld: load one column of the cipher state.                          *)
StateLoad(i) ==
  /\ i.op = "stld"
  /\ st' = [st EXCEPT ![i.idx] = i.w]
  /\ UNCHANGED <<krk, rcnt>>

(* xaesrnd: one round, on the round key that is live now.                  *)
Round(i) ==
  /\ i.op = "rnd"
  /\ st' = RoundStep(i.idx, st, krk)
  /\ UNCHANGED <<krk, rcnt>>

(* The operators that leave the units as they are.                         *)
NoUnitChange(i) ==
  /\ i.op \notin {"ksld", "kse", "stld", "rnd"}
  /\ UNCHANGED unitVars

(* What one committed instruction does to the units.                       *)
Commit(i) == KeyLoad(i) \/ KeyExpand(i) \/ StateLoad(i) \/ Round(i) \/ NoUnitChange(i)

(* The combinational read ports behind xaesksrd and xaesstrd.              *)
ReadPort(i) == CASE i.op = "ksrd" -> krk[i.idx]
                 [] i.op = "strd" -> st[i.idx]
==============================================================================
