------------------------------ MODULE AesInOrder ------------------------------
(***************************************************************************)
(* What software may rely on: the AES instructions that the decode stage   *)
(* hands over are executed by the AES units one at a time, each exactly    *)
(* once, in the order they were handed over.                               *)
(*                                                                         *)
(* This is the abstract specification of the execute stage.  `issued` is   *)
(* the history of AES instructions handed over, `done` how many of them    *)
(* the units have executed, `results` the words they read.  At most one is *)
(* outstanding; a new one may be handed over in the step that executes the *)
(* previous one.                                                           *)
(***************************************************************************)
EXTENDS AesUnits, Sequences

CONSTANT NextOps(_)   \* the AES instructions software may hand over after n others

VARIABLES issued, done, results

vars == <<krk, rcnt, st, issued, done, results>>

Init == UnitsInit /\ issued = <<>> /\ done = 0 /\ results = <<>>

Idle == done = Len(issued)

HandOver(i) ==
  /\ Idle
  /\ issued' = Append(issued, i)
  /\ UNCHANGED <<krk, rcnt, st, done, results>>

(* The instruction takes effect on the units and, if it reads one of them, *)
(* delivers the word it reads.                                             *)
Perform(i) ==
  /\ Commit(i)
  /\ done' = done + 1
  /\ results' = IF i.op \in {"ksrd", "strd"} THEN Append(results, ReadPort(i)) ELSE results

Execute ==
  /\ ~Idle
  /\ Perform(issued[done + 1])
  /\ UNCHANGED issued

ExecuteAndHandOver(i) ==
  /\ ~Idle
  /\ Perform(issued[done + 1])
  /\ issued' = Append(issued, i)

Next ==
  \/ Execute
  \/ \E i \in NextOps(Len(issued)) : HandOver(i) \/ ExecuteAndHandOver(i)

Spec == Init /\ [][Next]_vars
==============================================================================
