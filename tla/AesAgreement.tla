---------------------------- MODULE AesAgreement ----------------------------
(***************************************************************************)
(* AesEncrypt on the real datapath beside the two implementations of       *)
(* AES-128 in main.c that the accelerator replaces: the byte-array         *)
(* reference (expand_key, sub_bytes ... add_round_key), which has all      *)
(* round keys before it starts, and the byte-instruction path              *)
(* (aes_inner_round, aes_final_round) over the same round keys.            *)
(***************************************************************************)
EXTENDS AesEncrypt, AesSoftware

CONSTANTS
  round_keys(_),             \* what expand_key makes of a key
  ReferenceState(_, _, _),   \* of (key, text) after round n, by the byte-array reference
  BytewiseState(_, _, _)     \* the same by the byte instructions

(* Keys and texts are 128 bits, and the units compute with the datapath.   *)
ASSUME DatapathAssumption ==
  \A k \in Keys :
    /\ k \in Quads
    /\ \A n \in 0..9 : ExpandKey(RoundKey(k, n), n) = next_krk(RoundKey(k, n), n)
    /\ \A t \in Texts :
         /\ t \in Quads
         /\ RoundStep(2, t, k) = next_state(2, t, k)
         /\ \A n \in 1..10 :
              LET mode == IF n < 10 THEN 0 ELSE 1
              IN  RoundStep(mode, CipherState(k, t, n - 1), RoundKey(k, n))
                    = next_state(mode, CipherState(k, t, n - 1), RoundKey(k, n))

(* The two implementations in software are runs of their functions.        *)
ASSUME SoftwareAssumption ==
  \A k \in Keys :
    /\ IsExpansion(round_keys(k), k)
    /\ \A t \in Texts :
         /\ ReferenceState(k, t, 0) = AsQuad(add_round_key(AsBytes(t), AsBytes(k)))
         /\ BytewiseState(k, t, 0) = add_round_key_words(t, k)
         /\ \A n \in 1..10 :
              LET rk == KeyWords(round_keys(k), n)
              IN  /\ ReferenceState(k, t, n) = SoftwareRound(ReferenceState(k, t, n - 1), rk, n)
                  /\ BytewiseState(k, t, n) = BytewiseRound(BytewiseState(k, t, n - 1), rk, n)

-----------------------------------------------------------------------------
(* The live key register holds the 16 bytes that expand_key puts at        *)
(* round_keys[16 * round], in whatever block, call or rerun: on-the-fly    *)
(* and precomputed schedules agree, Rcon included.                         *)
SchedulesAgree ==
  status = "running" =>
    /\ pc = "kse" => krk = KeyWords(round_keys(call.key), step - 1)
    /\ pc = "rnd" => krk = KeyWords(round_keys(call.key), step)

(* After every round the three states are the same 16 bytes: four parallel *)
(* columns, byte loops with gf_mult, and 16 chained byte instructions.     *)
rounds == IF pc = "strd" THEN 10 ELSE step - 1
StatesAgree ==
  status = "running" /\ 16 * block < call.len /\ pc \in {"kse", "rnd", "strd"} =>
    /\ st = ReferenceState(call.key, asked[block], rounds)
    /\ st = BytewiseState(call.key, asked[block], rounds)

(* The look-up table is the S-box of AES on every byte that the state unit *)
(* meets: undoing the affine step of the entry gives the inverse of the    *)
(* byte in GF(2^8), by gf_mult; and xtime and _double_byte multiply by two.*)
RotByte(x, d) == {(i + d) % 8 : i \in x}
FieldArithmetic ==
  \A c \in Column, r \in 1..4 :
    LET byte == st[c][r]
        y    == aes_sbox(byte)
        inv  == (RotByte(y, 1) ^^ RotByte(y, 3)) ^^ (RotByte(y, 6) ^^ Bits(5))
    IN  /\ IF byte = {} THEN inv = {} ELSE gf_mult(byte, inv) = {0}
        /\ aes_xtime(byte) = gf_mult({1}, byte) /\ double_byte(byte) = gf_mult({1}, byte)
==============================================================================
