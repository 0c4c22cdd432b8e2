----------------------------- MODULE AesSoftware -----------------------------
(***************************************************************************)
(* The software AES of main.c: the byte-array reference functions that the *)
(* accelerator replaces (gf_mult ... add_round_key, expand_key) and the    *)
(* byte-instruction path (aes_inner_round, aes_final_round).  A byte array *)
(* of C is a sequence: its byte i is element i + 1.                        *)
(***************************************************************************)
EXTENDS AesDatapath

Bytes16 == 1..16

(* uint32_t access to a byte array: word c is its bytes 4c .. 4c+3.        *)
AsQuad(b)  == [c \in Column |-> WordOf(LAMBDA r : b[4 * c + r + 1])]
AsBytes(q) == [i \in Bytes16 |-> q[(i - 1) \div 4][((i - 1) % 4) + 1]]

(* gf_mult: eight iterations of the shift-and-add loop body.               *)
GfStep ==
  [q \in [p : Byte, a : Byte, b : Byte] |->
     [ p |-> IF 0 \in q.b THEN q.p ^^ q.a ELSE q.p,
       a |-> IF 7 \in q.a THEN Shl(q.a) ^^ h1b ELSE Shl(q.a),
       b |-> Shr(q.b) ]]
gf_mult(a, b) ==
  GfStep[GfStep[GfStep[GfStep[GfStep[GfStep[GfStep[GfStep[
    [p |-> {}, a |-> a, b |-> b]]]]]]]]].p

(* _double_byte of tcutils.c, which nothing calls: the carry is the top    *)
(* bit times 1b.                                                           *)
double_byte(a) == Shl(a) ^^ {i \in h1b : 7 \in a}

sub_bytes(s) == [i \in Bytes16 |-> aes_sbox(s[i])]

(* shift_rows: the three chains of assignments, as the source of each      *)
(* byte.                                                                   *)
ShiftSource == <<0, 5, 10, 15,  4, 9, 14, 3,  8, 13, 2, 7,  12, 1, 6, 11>>
shift_rows(s) == [i \in Bytes16 |-> s[ShiftSource[i] + 1]]

(* mix_columns: the coefficient of byte j of a column in its new byte i.   *)
MixCoef == << <<2, 3, 1, 1>>, <<1, 2, 3, 1>>, <<1, 1, 2, 3>>, <<3, 1, 1, 2>> >>
times(m, a) == IF m = 1 THEN a ELSE gf_mult(IF m = 2 THEN {1} ELSE {0, 1}, a)
mix_columns(s) ==
  [i \in Bytes16 |->
     LET row == (i - 1) % 4
         col == i - 1 - row
         m   == MixCoef[row + 1]
     IN  (times(m[1], s[col + 1]) ^^ times(m[2], s[col + 2]))
           ^^ (times(m[3], s[col + 3]) ^^ times(m[4], s[col + 4]))]

add_round_key(s, rk) == [i \in Bytes16 |-> s[i] ^^ rk[i]]

rcon == <<1, 2, 4, 8, 16, 32, 64, 128, 27, 54>>

(* The loop body of expand_key: word i of round_keys, made of the word     *)
(* before it and the word 16 bytes back; RotWord, SubWord and Rcon once in *)
(* every 16 bytes.                                                         *)
ExpandWord(w, i) ==
  LET last == w[i - 1]
      temp == IF i % 4 # 1 THEN last
              ELSE << aes_sbox(last[2]) ^^ Bits(rcon[i \div 4]), aes_sbox(last[3]),
                      aes_sbox(last[4]), aes_sbox(last[1]) >>
  IN  XorW(w[i - 4], temp)

(* round_keys, the 44 words that expand_key leaves of a key.               *)
IsExpansion(w, k) ==
  /\ \A c \in Column : w[c + 1] = k[c]
  /\ \A i \in 5..44 : w[i] = ExpandWord(w, i)

(* Round key r, &round_keys[16 * r].                                       *)
KeyWords(w, r) == [c \in Column |-> w[4 * r + c + 1]]

(* A round with the reference functions on the byte array of the state.    *)
SoftwareRound(s, k, r) ==
  LET shifted == shift_rows(sub_bytes(AsBytes(s)))
      mixed   == IF r < 10 THEN mix_columns(shifted) ELSE shifted
  IN  AsQuad(add_round_key(mixed, AsBytes(k)))

(* aes_inner_round / aes_final_round: four chained byte instructions per   *)
(* column c, seeded with the round-key word, reading input columns         *)
(* c, c+1, c+2, c+3 modulo 4.                                              *)
Chain(insn(_, _, _), seed, in, c) ==
  insn(insn(insn(insn(seed, in[c], 0), in[(c + 1) % 4], 1),
            in[(c + 2) % 4], 2), in[(c + 3) % 4], 3)

aes_inner_round(in, k) == [c \in Column |-> Chain(aes32esmi, k[c], in, c)]
aes_final_round(in, k) == [c \in Column |-> Chain(aes32esi, k[c], in, c)]
BytewiseRound(s, k, r) == IF r < 10 THEN aes_inner_round(s, k) ELSE aes_final_round(s, k)

(* The whitening of the byte-instruction path, word by word.               *)
add_round_key_words(s, k) == [c \in Column |-> XorW(s[c], k[c])]
==============================================================================
