----------------------------- MODULE AesDatapath -----------------------------
(***************************************************************************)
(* The combinational AES-128 datapath of the accelerator: the key-expand   *)
(* step of cv32e40p_aes_ks, the round of cv32e40p_aes_state and the byte   *)
(* instructions of cv32e40p_aes and cv32e40p_aes_fi.                       *)
(*                                                                         *)
(* A byte is the set of its one bits.  A 32-bit word is a tuple of four    *)
(* bytes, the least significant first: Byte r of the code, w[8*r +: 8], is *)
(* w[r + 1].  A 128-bit register is a function from the column c in 0..3   *)
(* to words.                                                               *)
(***************************************************************************)
EXTENDS Naturals, Sequences

Byte    == SUBSET (0..7)
Bits(n) == {i \in 0..7 : (n \div 2^i) % 2 = 1}    \* of the number n
a ^^ b  == (a \ b) \union (b \ a)
Shl(a)  == {i \in 1..7 : i - 1 \in a}            \* a << 1, in 8 bits
Shr(a)  == {i \in 0..6 : i + 1 \in a}            \* a >> 1

Column == 0..3
Word   == [1..4 -> Byte]
Quads  == [Column -> Word]

(* The word whose byte r is b(r).                                          *)
WordOf(b(_)) == <<b(0), b(1), b(2), b(3)>>

Zero32     == WordOf(LAMBDA r : {})
XorW(a, b) == WordOf(LAMBDA r : a[r + 1] ^^ b[r + 1])

(* The forward S-box: one look-up table, repeated verbatim in the four     *)
(* units and in main.c.                                                    *)
SboxTable == <<
   99, 124, 119, 123, 242, 107, 111, 197,  48,   1, 103,  43, 254, 215, 171, 118,
  202, 130, 201, 125, 250,  89,  71, 240, 173, 212, 162, 175, 156, 164, 114, 192,
  183, 253, 147,  38,  54,  63, 247, 204,  52, 165, 229, 241, 113, 216,  49,  21,
    4, 199,  35, 195,  24, 150,   5, 154,   7,  18, 128, 226, 235,  39, 178, 117,
    9, 131,  44,  26,  27, 110,  90, 160,  82,  59, 214, 179,  41, 227,  47, 132,
   83, 209,   0, 237,  32, 252, 177,  91, 106, 203, 190,  57,  74,  76,  88, 207,
  208, 239, 170, 251,  67,  77,  51, 133,  69, 249,   2, 127,  80,  60, 159, 168,
   81, 163,  64, 143, 146, 157,  56, 245, 188, 182, 218,  33,  16, 255, 243, 210,
  205,  12,  19, 236,  95, 151,  68,  23, 196, 167, 126,  61, 100,  93,  25, 115,
   96, 129,  79, 220,  34,  42, 144, 136,  70, 238, 184,  20, 222,  94,  11, 219,
  224,  50,  58,  10,  73,   6,  36,  92, 194, 211, 172,  98, 145, 149, 228, 121,
  231, 200,  55, 109, 141, 213,  78, 169, 108,  86, 244, 234, 101, 122, 174,   8,
  186, 120,  37,  46,  28, 166, 180, 198, 232, 221, 116,  31,  75, 189, 139, 138,
  112,  62, 181, 102,  72,   3, 246,  14,  97,  53,  87, 185, 134, 193,  29, 158,
  225, 248, 152,  17, 105, 217, 142, 148, 155,  30, 135, 233, 206,  85,  40, 223,
  140, 161, 137,  13, 191, 230,  66, 104,  65, 153,  45,  15, 176,  84, 187,  22 >>

Sbox == [x \in Byte |-> Bits(SboxTable[(CHOOSE n \in 0..255 : Bits(n) = x) + 1])]
aes_sbox(x) == Sbox[x]

(* Mutant: no reduction.                                                   *)
xtime_unreduced(a) == Shl(a)

(* Multiplication by x in GF(2^8): shift left in 8 bits, reduce by 1b.     *)
h1b == {0, 1, 3, 4}
aes_xtime(a) == Shl(a) ^^ (IF 7 \in a THEN h1b ELSE {})

(* The Rcon table has ten entries; the counter that selects it has 4 bits  *)
(* and every other index reads zero.                                       *)
RconTable == <<1, 2, 4, 8, 16, 32, 64, 128, 27, 54>>

(* Mutant: the last entry is missing.                                      *)
rcon_short(i) == IF i \in 0..8 THEN Bits(RconTable[i + 1]) ELSE {}

aes_rcon(i) == IF i \in 0..9 THEN Bits(RconTable[i + 1]) ELSE {}

(* One key-expand step: the next 128-bit round key of key k when the round *)
(* counter is n.                                                           *)
next_krk(k, n) ==
  LET sub == WordOf(LAMBDA r : aes_sbox(k[3][((r + 1) % 4) + 1]))
      n0  == XorW(k[0], [sub EXCEPT ![1] = @ ^^ aes_rcon(n)])
      n1  == XorW(k[1], n0)
      n2  == XorW(k[2], n1)
      n3  == XorW(k[3], n2)
  IN  [c \in Column |-> <<n0, n1, n2, n3>>[c + 1]]

(* ShiftRows is wiring: row r of column c comes from column c + r.         *)
ShiftRow(s) == [c \in Column |-> WordOf(LAMBDA r : s[(c + r) % 4][r + 1])]

SubWord(w) == WordOf(LAMBDA r : aes_sbox(w[r + 1]))

MixColumn(t) ==
  LET two(r)   == aes_xtime(t[(r % 4) + 1])
      one(r)   == t[(r % 4) + 1]
      three(r) == two(r) ^^ one(r)
  IN  WordOf(LAMBDA r : (two(r) ^^ three(r + 1)) ^^ (one(r + 2) ^^ one(r + 3)))

(* What feeds AddRoundKey: mode 0 (and the unused 3) a middle round,       *)
(* mode 1 the final round, mode 2 the state as it is.                      *)
PostRound(mode, s) ==
  LET t == [c \in Column |-> SubWord(ShiftRow(s)[c])]
  IN  CASE mode = 1 -> t
        [] mode = 2 -> s
        [] OTHER    -> [c \in Column |-> MixColumn(t[c])]

(* One xaesrnd: all four columns at once, from the old state and the live  *)
(* round key.                                                              *)
next_state(mode, s, k) ==
  LET p == PostRound(mode, s) IN [c \in Column |-> XorW(p[c], k[c])]

(* Mutant: the substituted byte is rotated the other way.                  *)
RotRight(w, bs) == WordOf(LAMBDA r : w[((r + bs) % 4) + 1])

(* Rotation to the left by bs bytes.                                       *)
RotLeft(w, bs) == WordOf(LAMBDA r : w[((r + 4 - bs) % 4) + 1])

(* The byte instructions: substitute byte bs of rs2, spread it over a word *)
(* (with MixColumns for esmi, zero-extended for esi), rotate it into place *)
(* and accumulate into rs1.                                                *)
aes32esmi(rs1, rs2, bs) ==
  LET s  == aes_sbox(rs2[bs + 1])
      x2 == aes_xtime(s)
  IN  XorW(rs1, RotLeft(<<x2, s, s, x2 ^^ s>>, bs))

aes32esi(rs1, rs2, bs) ==
  XorW(rs1, RotLeft([Zero32 EXCEPT ![1] = aes_sbox(rs2[bs + 1])], bs))
==============================================================================
