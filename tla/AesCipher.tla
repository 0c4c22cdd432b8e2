------------------------------ MODULE AesCipher ------------------------------
(***************************************************************************)
(* What aes128_ecb_encrypt promises its caller: when it returns, every     *)
(* 16-byte block of the output buffer is the AES-128 encryption of the     *)
(* block the caller put in the input buffer, whether or not the two are    *)
(* the same buffer.  The output appears word by word, block after block; a *)
(* reset of the core may cut a call short between any two words.           *)
(***************************************************************************)
EXTENDS Naturals

CONSTANTS
  Keys, Texts,      \* 128-bit values, as quads of words
  MaxBlocks,        \* the buffers hold this many blocks
  Lens,             \* lengths in bytes that callers ask for
  Garbage,          \* a word of an output buffer nobody has initialised
  Cipher(_, _)      \* AES-128 of a text under a key

VARIABLES
  mem,              \* memory: word c of block b of a buffer is mem[<<buffer, b, c>>]
  status,           \* of the call: "idle", "running" or "returned"
  call,             \* its arguments [key, out, len]
  asked,            \* history: the plaintext blocks at the time of the call
  block, stored     \* the block in progress and its words already written

vars == <<mem, status, call, asked, block, stored>>

Blocks  == 0..(MaxBlocks - 1)
Buffers == {"plaintext", "ciphertext"}
Addr    == Buffers \X Blocks \X (0..3)

(* The caller fills the input buffer; the output buffer is uninitialised   *)
(* (main() declares it as a local array).                                  *)
Filled(texts) ==
  [a \in Addr |-> IF a[1] = "plaintext" THEN texts[a[2]][a[3]] ELSE Garbage]

Init ==
  /\ mem = [a \in Addr |-> Garbage]
  /\ status = "idle"
  /\ call \in [key : Keys, out : Buffers, len : {0}]
  /\ asked \in [Blocks -> Texts]
  /\ block = 0 /\ stored = 0

Call(texts) ==
  /\ status # "running"
  /\ mem' = Filled(texts) /\ asked' = texts
  /\ \E k \in Keys, out \in Buffers, len \in Lens : call' = [key |-> k, out |-> out, len |-> len]
  /\ block' = 0 /\ stored' = 0

(* A length that is no multiple of 16 is refused: nothing is written.      *)
Accept(texts) == Call(texts) /\ call'.len % 16 = 0 /\ status' = "running"
Refuse(texts) == Call(texts) /\ call'.len % 16 # 0 /\ status' = "idle"

StoreWord ==
  /\ status = "running" /\ 16 * block < call.len
  /\ mem' = [mem EXCEPT ![<<call.out, block, stored>>] = Cipher(call.key, asked[block])[stored]]
  /\ IF stored < 3 THEN stored' = stored + 1 /\ block' = block
                   ELSE stored' = 0 /\ block' = block + 1
  /\ UNCHANGED <<status, call, asked>>

Return ==
  /\ status = "running" /\ 16 * block >= call.len
  /\ status' = "returned"
  /\ UNCHANGED <<mem, call, asked, block, stored>>

Reset ==
  /\ status' = "idle" /\ stored' = 0
  /\ UNCHANGED <<mem, call, asked, block>>

Next ==
  \/ \E texts \in [Blocks -> Texts] : Accept(texts) \/ Refuse(texts)
  \/ StoreWord
  \/ Return
  \/ Reset

Spec == Init /\ [][Next]_vars
==============================================================================
