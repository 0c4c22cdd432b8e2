---------------------------- MODULE MCAesEncrypt ----------------------------
(***************************************************************************)
(* AesAgreement for TLC, on real data.  The round keys and states of the   *)
(* units, of the reference and of the byte instructions are tables, each   *)
(* made by the steps of its own implementation; that this is AES-128 is    *)
(* what the properties of AesAgreement and ExpectedOutput say.             *)
(***************************************************************************)
EXTENDS AesAgreement

(* main(): "cese4040password", "Hello, World!000" and expected_output; the *)
(* other keys and texts are zero, counting and falling bytes.              *)
Data(b(_)) == [c \in Idx |-> WordOf(LAMBDA r : Bits(b(4 * c + r + 1)))]
Bytes(b)   == Data(LAMBDA i : b[i])
key1  == Bytes(<<99, 101, 115, 101, 52, 48, 52, 48, 112, 97, 115, 115, 119, 111, 114, 100>>)
key2  == [c \in Idx |-> Zero32]
key3  == Data(LAMBDA i : 271 - 16 * (((i - 1) % 4) + 1) - ((i - 1) \div 4))
text1 == Bytes(<<72, 101, 108, 108, 111, 44, 32, 87, 111, 114, 108, 100, 33, 48, 48, 48>>)
text2 == Data(LAMBDA i : 16 * ((i - 1) % 4) + ((i - 1) \div 4))
expected_output ==
  Bytes(<<20, 9, 165, 251, 31, 244, 75, 113, 190, 170, 37, 46, 15, 8, 249, 170>>)

MCKeys  == {key1, key2, key3}
MCTexts == {text1, text2}
MCLens  == {8, 16, 32}

MCZeroWord              == Zero32
MCKeyWord(c, k, i)      == next_krk(k, i)[c]
MCRoundWord(c, m, s, k) == next_state(m, s, k)[c]

(* The eleven values that Next(before, n) makes of a first one.            *)
Flat(q) == <<q[0], q[1], q[2], q[3]>>
Quad4(w) == [c \in Idx |-> w[c + 1]]
Eleven(first, Next(_, _)) ==
  LET S[i \in 0..10] == IF i = 0 THEN << Flat(first) >>
                        ELSE LET before == S[i - 1]
                             IN  Append(before, Flat(Next(Quad4(before[i]), i)))
      all == S[10]
  IN  [i \in 0..10 |-> Quad4(all[i + 1])]

Expansion ==
  [k \in MCKeys |->
     LET words[i \in 4..44] == IF i = 4 THEN Flat(k)
                               ELSE LET w == words[i - 1] IN Append(w, ExpandWord(w, i))
     IN  words[44]]
UnitKeys == [k \in MCKeys |-> Eleven(k, LAMBDA q, i : next_krk(q, i - 1))]
UnitStates ==
  [k \in MCKeys, t \in MCTexts |->
     Eleven(next_state(2, t, k),
            LAMBDA q, i : next_state(IF i < 10 THEN 0 ELSE 1, q, UnitKeys[k][i]))]
ReferenceStates ==
  [k \in MCKeys, t \in MCTexts |->
     Eleven(AsQuad(add_round_key(AsBytes(t), AsBytes(k))),
            LAMBDA q, i : SoftwareRound(q, KeyWords(Expansion[k], i), i))]
BytewiseStates ==
  [k \in MCKeys, t \in MCTexts |->
     Eleven(add_round_key_words(t, k),
            LAMBDA q, i : BytewiseRound(q, KeyWords(Expansion[k], i), i))]

MCRoundKey(k, i)          == UnitKeys[k][i]
MCCipherState(k, t, i)    == UnitStates[k, t][i]
MCround_keys(k)           == Expansion[k]
MCReferenceState(k, t, i) == ReferenceStates[k, t][i]
MCBytewiseState(k, t, i)  == BytewiseStates[k, t][i]

(* The test of main(): the ciphertext of its plaintext is expected_output. *)
ExpectedOutput ==
  status = "returned" /\ call.key = key1 =>
    \A b \in Blocks, c \in Idx :
      16 * b < call.len /\ asked[b] = text1 => mem[<<call.out, b, c>>] = expected_output[c]
=============================================================================
