------------------------------- MODULE AesRounds -------------------------------
(***************************************************************************)
(* AES-128 in the steps of the units: the key schedule and the rounds made *)
(* of ExpandKey and RoundStep, and the instructions with which             *)
(* aes128_encrypt_block of main.c goes through them.                       *)
(***************************************************************************)
EXTENDS AesUnits

CONSTANTS
  Keys, Texts,           \* 128-bit values, as quads of words
  RoundKey(_, _),        \* round key n of a key, by the schedule of AES-128
  CipherState(_, _, _)   \* the cipher state of (key, text) after round n

(* RoundKey and CipherState are the key schedule and the rounds of         *)
(* AES-128, made of the steps that the units can do.                       *)
ASSUME CipherAssumption ==
  \A k \in Keys :
    /\ Quad(k)
    /\ RoundKey(k, 0) = k
    /\ \A n \in 1..10 : RoundKey(k, n) = ExpandKey(RoundKey(k, n - 1), n - 1)
    /\ \A t \in Texts :
         /\ Quad(t)
         /\ CipherState(k, t, 0) = RoundStep(2, t, k)
         /\ \A n \in 1..9 : CipherState(k, t, n) =
              RoundStep(0, CipherState(k, t, n - 1), RoundKey(k, n))
         /\ CipherState(k, t, 10) = RoundStep(1, CipherState(k, t, 9), RoundKey(k, 10))

Cipher(k, t) == CipherState(k, t, 10)

Insn(op, idx, w) == [op |-> op, idx |-> idx, w |-> w]

(* The instructions of one block, in program order.                        *)
EncryptBlock(k, t) ==
  [j \in 1..33 |->
     CASE j \in 1..4   -> Insn("stld", j - 1, t[j - 1])
       [] j \in 5..8   -> Insn("ksld", j - 5, k[j - 5])
       [] j = 9        -> Insn("rnd", 2, ZeroWord)
       [] j \in 10..29 -> IF j % 2 = 0 THEN Insn("kse", 0, ZeroWord)
                          ELSE Insn("rnd", IF j < 29 THEN 0 ELSE 1, ZeroWord)
       [] j \in 30..33 -> Insn("strd", j - 30, ZeroWord)]
================================================================================
