------------------------------- MODULE AesInv -------------------------------
(***************************************************************************)
(* The inductive invariant behind the properties of the cipher: where the  *)
(* rounds of a block stand between its plaintext and its ciphertext, in    *)
(* either direction, and which blocks are behind.                          *)
(***************************************************************************)
EXTENDS AesProps

\* b, whose bytes TLC evaluates to compare it.
Evaluated(b) == CHOOSE c \in {b} : c = b

BeforeLastKey(b) == ShiftRows(SubBytes(b))
RoundOf(keys, b, r) == AddRoundKey(MixColumns(BeforeLastKey(b)), r, keys)

\* The states of a block in the rounds of Cipher, and what Cipher makes of it.
Rounds(keys, x) ==
  LET T[r \in 0..(Nr - 1)] ==
        IF r = 0 THEN AddRoundKey(x, 0, keys) ELSE RoundOf(keys, Evaluated(T[r - 1]), r)
  IN  T

CipherOf(keys, x) == AddRoundKey(BeforeLastKey(Rounds(keys, x)[Nr - 1]), Nr, keys)

\* The blocks of an array up to index m.
Starts(m) == {j \in 0..(m - 1) : j % KEYLEN = 0}

\* The input of Cipher for the block of a frame at j, where c is the ciphertext
\* of the blocks before it.
Chained(c, j) == IF j = 0 THEN iv ELSE BlockAt(c, j - KEYLEN)
InputOf(words, c, j) == XorBlock(BlockAt(CharData(words), j), Chained(c, j))

\* In its blocks up to index m, c is the ciphertext of a frame.
IsCiphertext(keys, words, c, m) ==
  \A j \in Starts(m) : BlockAt(c, j) = CipherOf(keys, InputOf(words, c, j))

-----------------------------------------------------------------------------
Total == Padded(LengthOf(frame))
Plain == CharData(frame)

\* How many bytes of the output are written when the one at m - 1 is.
Written(m) == IF m < KEYLEN THEN KEYLEN ELSE m
Bytes(m) == [0..(m - 1) -> Byte]

\* The words that are expanded, all of them when a frame is sent: expanding
\* them once more changes nothing.
Expanded == IF pc \in {"decrypt", "InvCipher", "aesDecrypt", "done"} THEN Words ELSE word

KeysMade ==
  /\ \A n \in KeyBytes : n \div 4 < Expanded => RoundKey[n] = KeyByte(key, RoundKey, n)
  /\ (pc \in {"Cipher", "InvCipher"} \/ i > 0) => word = Words

Position ==
  /\ i \in 0..Total /\ i % KEYLEN = 0
  /\ pc = "aesEncrypt" => i = 0
  /\ pc \in {"Cipher", "InvCipher"} => i < Total
  /\ pc \in {"aesDecrypt", "done"} => i = Total

\* The block in work is in round round: its state, and that of the arrays.
Encrypting ==
  LET m == IF pc = "Cipher" THEN i + KEYLEN ELSE i
  IN  /\ charData \in Bytes(Total) /\ \A n \in m..(Total - 1) : charData[n] = Plain[n]
      /\ buffer \in Bytes(Written(m)) /\ IsCiphertext(RoundKey, frame, buffer, i)
      /\ Iv = IF i = 0 THEN <<"iv", 0>> ELSE <<"buffer", i - KEYLEN>>
      /\ pc = "Cipher" =>
           round \in 1..Nr /\ Work = Rounds(RoundKey, InputOf(frame, buffer, i))[round - 1]

Sent == sent \in Bytes(Total) /\ IsCiphertext(RoundKey, frame, sent, Total)

Decrypting ==
  LET m == IF pc = "InvCipher" THEN i + KEYLEN ELSE i
  IN  /\ charData = sent
      /\ buffer \in Bytes(Written(m)) /\ \A n \in 0..(i - 1) : buffer[n] = Plain[n]
      /\ Iv = IF i = 0 THEN <<"iv", 0>> ELSE <<"charData", i - KEYLEN>>
      /\ pc = "InvCipher" =>
           round \in 0..(Nr - 1)
             /\ Work = BeforeLastKey(Rounds(RoundKey, InputOf(frame, sent, i))[round])

\* The round keys are those of the key, the blocks behind are ciphertext or
\* plaintext, and the block in work is what Cipher has in that round: InvCipher
\* passes the states of Cipher in the reverse order.
CipherInvariant ==
  /\ TypeOK /\ KeysMade /\ Position
  /\ pc \in {"encrypt", "Cipher"} => Encrypting
  /\ pc \in {"aesDecrypt", "decrypt", "InvCipher", "done"} => Sent
  /\ pc \in {"decrypt", "InvCipher", "done"} => Decrypting

=============================================================================
