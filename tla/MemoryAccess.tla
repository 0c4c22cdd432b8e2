---------------------------- MODULE MemoryAccess ----------------------------
(***************************************************************************)
(* What loads and stores mean, without any machinery: the data memory, the *)
(* instructions that reach the EX stage as far as the load-store unit can  *)
(* tell them apart, and the effect of one access as a whole.               *)
(***************************************************************************)
EXTENDS Integers

CONSTANTS
  Words,    \* the data memory has the words 0 .. Words - 1
  NoData    \* nothing is written to the register file

ASSUME DataWordsAssumption == Words \in Nat \ {0}

Lanes    == 0..3
Bytes    == 0..255
Value    == [Lanes -> Bytes]
Word     == 0..(Words - 1)
Memories == [Word -> Value]

ASSUME NoDataAssumption == NoData \notin Value

(* An access begins at lane `off` of `word` and has `size` bytes; the last *)
(* of them may be in the next word.  Accesses past the last word, which    *)
(* wrap around in hardware, are left out.                                  *)
Splits(a)   == a.off + a.size > 4
IsAccess(a) == a.kind \in {"load", "store"}

Instruction ==
  { a \in [ kind : {"none", "branch", "load", "store"}, word : Word, off : Lanes, size : {1, 2, 4},
            signed : BOOLEAN, data : Value ] :
      Splits(a) => a.word + 1 \in Word }

Zeros   == [l \in Lanes |-> 0]
NoInstr == [kind |-> "none", word |-> 0, off |-> 0, size |-> 1, signed |-> FALSE, data |-> Zeros]

(* Lane l of word w holds byte Index(a, w, l) of the access, if any.       *)
Index(a, w, l)   == IF w = a.word THEN l - a.off ELSE l + 4 - a.off
Touches(a, w, l) == w \in {a.word, a.word + 1} /\ Index(a, w, l) \in 0..(a.size - 1)

ByteAt(m, a, i) == IF a.off + i < 4 THEN m[a.word][a.off + i] ELSE m[a.word + 1][a.off + i - 4]

(* `size` bytes, and zeros or copies of the sign above them.               *)
Fill(signed, top) == IF signed /\ top >= 128 THEN 255 ELSE 0

Loaded(m, a) ==
  [i \in Lanes |-> IF i < a.size THEN ByteAt(m, a, i) ELSE Fill(a.signed, ByteAt(m, a, a.size - 1))]

Stored(m, a) ==
  IF a.kind = "store"
  THEN [w \in Word |-> [l \in Lanes |-> IF Touches(a, w, l) THEN a.data[Index(a, w, l)] ELSE m[w][l]]]
  ELSE m

(* The bytes that a store has for word w are in memory m.                  *)
Performed(m, a, w) == \A l \in Lanes : Touches(a, w, l) => m[w][l] = a.data[Index(a, w, l)]

(* What the register file gets from an access.                             *)
Outcome(m, a) == IF a.kind = "load" THEN Loaded(m, a) ELSE NoData
==============================================================================
