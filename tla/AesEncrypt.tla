------------------------------ MODULE AesEncrypt ------------------------------
(***************************************************************************)
(* aes128_ecb_encrypt of main.c as the core executes it: one action per    *)
(* AES instruction, on the units of the execute stage, which AesInOrder    *)
(* lets us step one instruction at a time.                                 *)
(*                                                                         *)
(* The round keys live only in the key unit: each block seeds it again and *)
(* expands one step per round.  Calls follow each other with whatever the  *)
(* previous one left in the units; the Zynq side may reset the core        *)
(* between any two instructions, and main() then starts again.             *)
(***************************************************************************)
EXTENDS AesRounds

CONSTANTS
  MaxBlocks, Lens, Garbage    \* as in AesCipher

ASSUME LensAssumption == MaxBlocks \in Nat /\ Lens \subseteq 0..(16 * MaxBlocks)

VARIABLES
  mem, status, call, asked,   \* as in AesCipher
  block,                      \* i / 16, the loop counter of aes128_ecb_encrypt
  pc, step                       \* the next instruction: which, and its word index or round

encryptVars == <<unitVars, mem, status, call, asked, block, pc, step>>

Blocks  == 0..(MaxBlocks - 1)
Buffers == {"plaintext", "ciphertext"}
Addr    == Buffers \X Blocks \X Idx

Goto(p, i)       == pc' = p /\ step' = i

Filled(texts) ==
  [a \in Addr |-> IF a[1] = "plaintext" THEN texts[a[2]][a[3]] ELSE Garbage]

EncryptInit ==
  /\ UnitsInit
  /\ mem = [a \in Addr |-> Garbage]
  /\ status = "idle"
  /\ call \in [key : Keys, out : Buffers, len : {0}]
  /\ asked \in [Blocks -> Texts]
  /\ block = 0 /\ pc = "stld" /\ step = 0

Call(texts) ==
  /\ status # "running"
  /\ mem' = Filled(texts) /\ asked' = texts
  /\ \E k \in Keys, out \in Buffers, len \in Lens : call' = [key |-> k, out |-> out, len |-> len]
  /\ block' = 0 /\ Goto("stld", 0)
  /\ UNCHANGED unitVars

Accept(texts) == Call(texts) /\ call'.len % 16 = 0 /\ status' = "running"
Refuse(texts) == Call(texts) /\ call'.len % 16 # 0 /\ status' = "idle"

(* ---- aes128_encrypt_block, one instruction per action ------------------*)
Running(p) == status = "running" /\ 16 * block < call.len /\ pc = p

Quiet == UNCHANGED <<mem, status, call, asked, block>>

(* aesstld(pin[step], step)                                                *)
LoadText ==
  /\ Running("stld")
  /\ StateLoad(Insn("stld", step, mem[<<"plaintext", block, step>>]))
  /\ IF step < 3 THEN Goto("stld", step + 1) ELSE Goto("ksld", 0)
  /\ Quiet

(* aesksld(kin[step], step)                                                *)
SeedKey ==
  /\ Running("ksld")
  /\ KeyLoad(Insn("ksld", step, call.key[step]))
  /\ IF step < 3 THEN Goto("ksld", step + 1) ELSE Goto("rnd2", 0)
  /\ Quiet

(* Mutant: the whitening uses the middle-round mode.                       *)
InitialRoundMode0 ==
  /\ Running("rnd2") /\ Round(Insn("rnd", 0, ZeroWord)) /\ Goto("kse", 1) /\ Quiet

(* aesrnd(2): AddRoundKey with the cipher key                              *)
InitialRound ==
  /\ Running("rnd2")
  /\ Round(Insn("rnd", 2, ZeroWord))
  /\ Goto("kse", 1)
  /\ Quiet

(* aeskse()                                                                *)
NextRoundKey ==
  /\ Running("kse")
  /\ KeyExpand(Insn("kse", 0, ZeroWord))
  /\ Goto("rnd", step)
  /\ Quiet

(* aesrnd(0) in rounds 1 to 9, aesrnd(1) in round 10                       *)
CipherRound ==
  /\ Running("rnd")
  /\ Round(Insn("rnd", IF step < 10 THEN 0 ELSE 1, ZeroWord))
  /\ IF step < 10 THEN Goto("kse", step + 1) ELSE Goto("strd", 0)
  /\ Quiet

(* cout[step] = aesstrd(step); after the last word, the next block         *)
StoreText ==
  /\ Running("strd")
  /\ NoUnitChange(Insn("strd", step, ZeroWord))
  /\ mem' = [mem EXCEPT ![<<call.out, block, step>>] = ReadPort(Insn("strd", step, ZeroWord))]
  /\ IF step < 3 THEN Goto("strd", step + 1) /\ block' = block
              ELSE Goto("stld", 0) /\ block' = block + 1
  /\ UNCHANGED <<status, call, asked>>

(* Mutant: the loop stops one block early.                                 *)
ReturnEarly ==
  /\ status = "running" /\ 16 * (block + 1) >= call.len
  /\ status' = "returned"
  /\ UNCHANGED <<unitVars, mem, call, asked, block, pc, step>>

(* The loop condition i < length fails.                                    *)
Return ==
  /\ status = "running" /\ 16 * block >= call.len
  /\ status' = "returned"
  /\ UNCHANGED <<unitVars, mem, call, asked, block, pc, step>>

(* Mutant: the units are reset and the program goes on.                    *)
ResetUnitsOnly ==
  /\ krk' = [c \in Idx |-> ZeroWord] /\ rcnt' = 0 /\ st' = [c \in Idx |-> ZeroWord]
  /\ UNCHANGED <<mem, status, call, asked, block, pc, step>>

(* The core is reset: the units lose their contents, memory keeps its.     *)
Reset ==
  /\ krk' = [c \in Idx |-> ZeroWord] /\ rcnt' = 0 /\ st' = [c \in Idx |-> ZeroWord]
  /\ status' = "idle" /\ Goto("stld", 0)
  /\ UNCHANGED <<mem, call, asked, block>>

EncryptNext ==
  \/ \E texts \in [Blocks -> Texts] : Accept(texts) \/ Refuse(texts)
  \/ LoadText \/ SeedKey \/ InitialRound \/ NextRoundKey \/ CipherRound \/ StoreText
  \/ Return
  \/ Reset

EncryptSpec == EncryptInit /\ [][EncryptNext]_encryptVars

-----------------------------------------------------------------------------
Phases == {"stld", "ksld", "rnd2", "kse", "rnd", "strd"}

EncryptTypeOK ==
  /\ rcnt \in 0..15 /\ Quad(krk) /\ Quad(st)
  /\ mem = [a \in Addr |-> mem[a]]
  /\ status \in {"idle", "running", "returned"}
  /\ call \in [key : Keys, out : Buffers, len : 0..(16 * MaxBlocks)]
  /\ asked \in [Blocks -> Texts]
  /\ block \in 0..MaxBlocks
  /\ pc \in Phases
  /\ step \in 0..10
  /\ pc \in {"stld", "ksld", "strd"} => step \in Idx
  /\ pc \in {"kse", "rnd"} => step \in 1..10

(* The key unit holds the round key of the round in progress, and its      *)
(* counter selects the Rcon of the next expansion, whatever an earlier     *)
(* block, call or reset left in it.                                        *)
KeyInStep ==
  status = "running" =>
    /\ pc = "ksld" => (\A c \in Idx : c < step => krk[c] = call.key[c]) /\ (step > 0 => rcnt = 0)
    /\ pc = "rnd2" => krk = call.key /\ rcnt = 0
    /\ pc = "kse"  => krk = RoundKey(call.key, step - 1) /\ rcnt = step - 1
    /\ pc = "rnd"  => krk = RoundKey(call.key, step) /\ rcnt = step

(* The state unit holds the cipher state of the block in progress.         *)
StateInStep ==
  status = "running" /\ 16 * block < call.len =>
    /\ pc = "stld" => \A c \in Idx : c < step => st[c] = asked[block][c]
    /\ pc \in {"ksld", "rnd2"} => st = asked[block]
    /\ pc \in {"kse", "rnd"}   => st = CipherState(call.key, asked[block], step - 1)
    /\ pc = "strd" => st = Cipher(call.key, asked[block])

(* The blocks not yet read are still what the caller put there, even when  *)
(* the output is written over the input; the words already written are the *)
(* cipher text.                                                            *)
BuffersInStep ==
  status # "idle" =>
    \A b \in Blocks, c \in Idx :
      /\ (b > block \/ (b = block /\ pc # "strd") \/ call.out # "plaintext")
            => mem[<<"plaintext", b, c>>] = asked[b][c]
      /\ (b < block \/ (b = block /\ pc = "strd" /\ c < step))
            => mem[<<call.out, b, c>>] = Cipher(call.key, asked[b])[c]

(* What the caller relies on: once the call has returned, every block of   *)
(* the output is the encryption of the block it asked for.                 *)
CiphertextOnReturn ==
  status = "returned" =>
    \A b \in Blocks, c \in Idx :
      16 * b < call.len => mem[<<call.out, b, c>>] = Cipher(call.key, asked[b])[c]

(* The loop counter stays in step with the length that was accepted.       *)
LoopInStep ==
  /\ status # "idle" => call.len % 16 = 0 /\ 16 * block <= call.len
  /\ status = "running" /\ 16 * block >= call.len => pc = "stld" /\ step = 0
  /\ status = "returned" => 16 * block >= call.len /\ pc = "stld"

EncryptInv == EncryptTypeOK /\ LoopInStep /\ KeyInStep /\ StateInStep /\ BuffersInStep

(* Which instruction of the block comes next.                              *)
place == CASE pc = "stld" -> step + 1
           [] pc = "ksld" -> step + 5
           [] pc = "rnd2" -> 9
           [] pc = "kse"  -> 2 * step + 8
           [] pc = "rnd"  -> 2 * step + 9
           [] pc = "strd" -> step + 30

(* What the program hands to the units while a call runs is EncryptBlock   *)
(* of the key and the text that it was asked for, from end to end and      *)
(* block after block, even when earlier blocks were written over the       *)
(* input; and what it stores is what the last four of them read.           *)
ExecutesBlock ==
  [][status = "running" /\ status' = "running" =>
       LET i == EncryptBlock(call.key, asked[block])[place]
       IN  /\ Commit(i)
           /\ place' = (place % 33) + 1
           /\ block' = IF place = 33 THEN block + 1 ELSE block
           /\ i.op = "strd" => mem' = [mem EXCEPT ![<<call.out, block, i.idx>>] = ReadPort(i)]
    ]_encryptVars

(* The program implements the cipher.                                      *)
stored == IF pc = "strd" THEN step ELSE 0
CipherSpec == INSTANCE AesCipher
ImplementsCipher == CipherSpec!Spec
==============================================================================
