----------------------------- MODULE MCFetchStage -----------------------------
(* FetchStage for TLC: two words of memory, with 32-bit instructions either *)
(* at any half-word or only at the second, across the two words, so that    *)
(* every sort of neighbours occurs, and branches into the first word.       *)
EXTENDS FetchStage

MCPrograms   == { Half, {1} }
MCFewTargets == {0, 1}
==============================================================================
