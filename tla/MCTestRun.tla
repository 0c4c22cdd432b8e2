------------------------------ MODULE MCTestRun ------------------------------
(* TestRun for TLC: the expected ciphertext of main(), and runs that       *)
(* compute it, or get its first byte wrong.                                *)
EXTENDS TestRun

MCExpected == <<20, 9, 165, 251, 31, 244, 75, 113, 190, 170, 37, 46, 15, 8, 249, 170>>
MCResults  == { MCExpected, [MCExpected EXCEPT ![1] = 0] }
=============================================================================
