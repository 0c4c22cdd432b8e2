----------------------------- MODULE TestProgram -----------------------------
(***************************************************************************)
(* main() of main.c, up to the loop of eoc() where it stays: it encrypts,  *)
(* writes the expected and the computed ciphertext to the result words of  *)
(* the data RAM, compares the two byte by byte, writes the verdict, and    *)
(* last of all the end word.  One step is one store or one comparison.     *)
(*                                                                         *)
(* A byte array of C is a sequence: its byte i is element i + 1.  A word   *)
(* is the tuple of its four bytes, the least significant first.            *)
(***************************************************************************)
EXTENDS EndDetector, Sequences

CONSTANTS
  expected_output,    \* the ciphertext that main() expects
  Results             \* what aes128_ecb_encrypt may leave, right or wrong

Block == [1..16 -> 0..255]

ASSUME BlockAssumption ==
  expected_output \in Block /\ \A r \in Results : r \in Block

VARIABLES
  pc, n,            \* where main() is, and the loop counter there
  value,            \* main: the verdict so far
  result,           \* the ciphertext that the AES instructions deliver in this run
  ram               \* the data RAM: the words that matter here

programVars == <<pc, n, value, result, ram>>

(* ---- addresses ----------------------------------------------------------*)
(* The RAM takes the low 15 address bits of the core and of the host.      *)
Offset(a) == a % 32768
WordAt(a) == Offset(a) \div 4

Sram       == 1048576            \* 0x100000
END        == Sram + 8192
CHECK      == Sram + 8192 + 4
EXPECTED   == Sram + 8192 + 48
CIPHER     == Sram + 8192 + 64
CIPHERTEXT == Sram + 32704       \* the local array, on the stack under 0x108000

RamWords ==
  {WordAt(END), WordAt(CHECK)}
    \cup {WordAt(a + 4 * k) : a \in {EXPECTED, CIPHER, CIPHERTEXT}, k \in 0..3}

Zero     == <<0, 0, 0, 0>>
Erased   == [w \in RamWords |-> Zero]
CAFEBABE == <<190, 186, 254, 202>>
BAAAAAAD == <<173, 170, 170, 186>>
DEADBEEF == <<239, 190, 173, 222>>

(* Word k of a byte array, as uint32_t access reads it, and byte i of the  *)
(* array ciphertext.                                                       *)
vector_word(v, k) == << v[4 * k + 1], v[4 * k + 2], v[4 * k + 3], v[4 * k + 4] >>
ciphertext(i)     == ram[WordAt(CIPHERTEXT + i)][(i % 4) + 1]

ProgramInit ==
  /\ pc = "wait" /\ n = 0 /\ value = CAFEBABE
  /\ result \in Results /\ ram = Erased

(* ---- main() ------------------------------------------------------------ *)
write_to_address(addr, v) == StoreOf(Offset(addr), v)

(* The store of the program's next step, if that is a store.               *)
Written ==
  CASE pc = "encrypt"  -> write_to_address(CIPHERTEXT + 4 * n, vector_word(result, n))
    [] pc = "expected" -> write_to_address(EXPECTED + 4 * n, vector_word(expected_output, n))
    [] pc = "cipher"   -> write_to_address(CIPHER + 4 * n, ram[WordAt(CIPHERTEXT + 4 * n)])
    [] pc = "check"    -> write_to_address(CHECK, value)
    [] pc = "end"      -> write_to_address(END, DEADBEEF)
    [] OTHER           -> NoStore

(* The write port of the RAM, when the program makes its next step or not. *)
Port(go) == IF go THEN Written ELSE NoStore

Goto(p, i) == pc' = p /\ n' = i

(* Mutant: the loop stops one word short.                                  *)
NextWordShort(p) == IF n < 2 THEN Goto(pc, n + 1) ELSE Goto(p, 0)

(* The loop of write_v_to_address: four words, then on.                    *)
NextWord(p) == IF n < 3 THEN Goto(pc, n + 1) ELSE Goto(p, 0)

Boot(started) == pc = "wait" /\ started /\ Goto("encrypt", 0) /\ UNCHANGED value

Encrypt     == pc = "encrypt" /\ NextWord("expected") /\ UNCHANGED value
PutExpected == pc = "expected" /\ NextWord("cipher") /\ UNCHANGED value
PutCipher   == pc = "cipher" /\ NextWord("compare") /\ value' = CAFEBABE

Compare ==
  /\ pc = "compare"
  /\ IF ciphertext(n) # expected_output[n + 1] THEN value' = BAAAAAAD /\ Goto("check", 0)
     ELSE /\ value' = value
          /\ IF n < 15 THEN Goto("compare", n + 1) ELSE Goto("check", 0)

PutCheck == pc = "check" /\ Goto("end", 0) /\ UNCHANGED value
PutEnd   == pc = "end" /\ Goto("eoc", 0) /\ UNCHANGED value

ProgramStep(started) ==
  \/ Boot(started) \/ Encrypt \/ PutExpected \/ PutCipher \/ Compare \/ PutCheck \/ PutEnd

Halted(started) == pc = "eoc" \/ (pc = "wait" /\ ~started)

ProgramEdge(go, started) ==
  IF go /\ ~Halted(started) THEN ProgramStep(started) ELSE UNCHANGED <<pc, n, value>>

(* The RAM at a clock edge, over what the host puts into it.               *)
RamEdge(go, contents) ==
  ram' = IF Port(go).wen THEN [contents EXCEPT ![Port(go).addr \div 4] = Port(go).data]
         ELSE contents
==============================================================================
