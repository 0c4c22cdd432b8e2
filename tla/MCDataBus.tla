----------------------------- MODULE MCDataBus -----------------------------
(* DataBus for TLC: two words of distinct bytes, half of them negative,    *)
(* and accesses of every size, whole, at the end of a word and split.      *)
EXTENDS DataBus

MCContents == { [w \in Word |-> [l \in Lanes |-> 17 * (4 * w + l) + 128 * (l % 2)]] }

Load(size, off, word, signed) ==
  [NoInstr EXCEPT !.kind = "load", !.size = size, !.off = off, !.word = word, !.signed = signed]
Store(size, off, word) ==
  [NoInstr EXCEPT !.kind = "store", !.size = size, !.off = off, !.word = word,
                  !.data = [l \in Lanes |-> 201 + l]]

MCInstructions ==
  { NoInstr, [NoInstr EXCEPT !.kind = "branch"],
    Load(4, 0, 0, FALSE), Load(4, 1, 0, FALSE), Load(4, 2, 0, FALSE), Load(4, 3, 0, FALSE),
    Load(2, 1, 0, FALSE), Load(2, 3, 0, TRUE), Load(1, 0, 1, TRUE),
    Store(4, 2, 0), Store(2, 3, 0), Store(1, 0, 1) }
=============================================================================
