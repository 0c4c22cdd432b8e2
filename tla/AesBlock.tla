------------------------------- MODULE AesBlock -------------------------------
(***************************************************************************)
(* aes128_encrypt_block on the pipelined stage: what the instructions of a *)
(* block compute when the execute stage performs them between its stalls,  *)
(* bubbles and other instructions, after whatever AES instructions went    *)
(* before them.                                                            *)
(***************************************************************************)
EXTENDS ExecuteStage, AesRounds

(* The last j AES instructions that the units performed are the first j of *)
(* the block.                                                              *)
Performed(k, t, j) ==
  /\ j <= done
  /\ \A i \in 1..j : issued[done - j + i] = EncryptBlock(k, t)[i]

LastResults(n) == [i \in 1..n |-> results[Len(results) - n + i]]

(* What the units hold in the course of a block, and what has been read    *)
(* from them.                                                              *)
TextLoaded(t, n)   == \A c \in Idx : c < n => st[c] = t[c]
KeySeeded(k, n)    == rcnt = 0 /\ \A c \in Idx : c < n => krk[c] = k[c]
KeyAt(k, n)        == krk = RoundKey(k, n) /\ rcnt = n
CipherRead(k, t, n) ==
  Len(results) >= n /\ \A i \in 1..n : LastResults(n)[i] = Cipher(k, t)[i - 1]

UnitsAfter(k, t, j) ==
  /\ j <= 8       => TextLoaded(t, j)
  /\ j \in 5..8   => KeySeeded(k, j - 4)
  /\ j \in 9..29  => KeyAt(k, (j - 8) \div 2) /\ st = CipherState(k, t, (j - 9) \div 2)
  /\ j >= 29      => st = Cipher(k, t)
  /\ j >= 30      => CipherRead(k, t, j - 29)

(* Whatever the units held before, the instructions of a block take them   *)
(* through the steps of its cipher.                                        *)
BlockInStep ==
  \A k \in Keys, t \in Texts, j \in 0..33 : Performed(k, t, j) => UnitsAfter(k, t, j)

(* The last four words read are the ciphertext of the block that was       *)
(* performed, however the pipeline was stalled on the way and whatever     *)
(* state, round key and Rcon counter earlier instructions left behind.     *)
BlockEncrypts ==
  \A k \in Keys, t \in Texts :
    Performed(k, t, 33) => LastResults(4) = [i \in 1..4 |-> Cipher(k, t)[i - 1]]
===============================================================================
