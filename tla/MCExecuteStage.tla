--------------------------- MODULE MCExecuteStage ---------------------------
(***************************************************************************)
(* AesBlock for TLC: AES instructions of every class in any order, Before  *)
(* of them, and then those of a block, on a datapath of three-valued words *)
(* that tells its arguments apart.                                         *)
(***************************************************************************)
EXTENDS AesBlock

Before == 2
ToyKeyWord(c, k, n)      == (k[c] + k[(c + 3) % 4] + n + 1) % 3
ToyRoundWord(c, m, s, k) == (s[c] + k[c] + m + 1) % 3

key  == <<0, 1, 2, 0>>
text == <<2, 1, 0, 0>>
ToyQuad(w) == [c \in Idx |-> w[c + 1]]
ToyKeys  == {ToyQuad(key)}
ToyTexts == {ToyQuad(text)}

ToySchedule[n \in 0..10] ==
  IF n = 0 THEN ToyQuad(key) ELSE ExpandKey(ToySchedule[n - 1], n - 1)
ToyStates[n \in 0..10] ==
  IF n = 0 THEN RoundStep(2, ToyQuad(text), ToyQuad(key))
  ELSE RoundStep(IF n < 10 THEN 0 ELSE 1, ToyStates[n - 1], ToySchedule[n])
ToyRoundKey(k, n)       == ToySchedule[n]
ToyCipherState(k, t, n) == ToyStates[n]

AnyInsn == {Insn("ksld", 1, 1), Insn("kse", 0, 0), Insn("rnd", 2, 0), Insn("strd", 1, 0), Insn("esmi", 3, 1)}
ToyNextOps(n) ==
  IF n < Before THEN AnyInsn
  ELSE IF n < Before + 33 THEN {EncryptBlock(ToyQuad(key), ToyQuad(text))[n - Before + 1]}
  ELSE {}
=============================================================================
