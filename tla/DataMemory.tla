----------------------------- MODULE DataMemory -----------------------------
(***************************************************************************)
(* What the program relies on: loads and stores take effect one at a time, *)
(* in program order and in one piece, and every load delivers the bytes it *)
(* found, once and in order.  At most two accesses are under way.          *)
(***************************************************************************)
EXTENDS MemoryAccess, Sequences

CONSTANTS
  Instructions,   \* the instructions of interest
  Contents        \* the memory contents to start from

VARIABLES
  memory,      \* with every access that was started
  owed,        \* what the accesses under way will deliver, in program order
  delivered    \* what the register file got in the last step

vars == <<memory, owed, delivered>>

Init == memory \in Contents /\ owed = <<>> /\ delivered = NoData

(* In one step the oldest access may finish and the next one may start.    *)
Step(finish, a) ==
  LET rest == IF finish THEN Tail(owed) ELSE owed
  IN  /\ finish => owed # <<>>
      /\ delivered' = IF finish THEN Head(owed) ELSE NoData
      /\ memory' = Stored(memory, a)
      /\ owed' = IF IsAccess(a) THEN Append(rest, Outcome(memory, a)) ELSE rest
      /\ Len(owed') <= 2

Next == \E finish \in BOOLEAN, a \in Instructions : Step(finish, a)

Spec == Init /\ [][Next]_vars
==============================================================================
