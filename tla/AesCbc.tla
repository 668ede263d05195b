------------------------------- MODULE AesCbc -------------------------------
(***************************************************************************)
(* One frame on its way through the crypto units: aesEncrypt of the sender *)
(* pads and encrypts it with AES128_CBC_encrypt_buffer, aesDecrypt of the  *)
(* receiver decrypts it with AES128_CBC_decrypt_buffer.  One step is one   *)
(* round of the cipher; arrays are functions on their indices.             *)
(***************************************************************************)
EXTENDS Aes, FiniteSets

CONSTANTS
  Frames,   \* the frames, words on 0..(length - 1)
  key, iv   \* of crypto::crypto

ASSUME KeyAssumption == key \in [Block -> Byte] /\ iv \in [Block -> Byte]

LengthOf(array) == Cardinality(DOMAIN array)

\* A frame has at least one word.
ASSUME FramesAssumption ==
  \A f \in Frames : LengthOf(f) \in Nat \ {0} /\ f \in [0..(LengthOf(f) - 1) -> Int]

VARIABLES
  frame,      \* the words that the encrypting unit reads
  charData,   \* input of the function running
  buffer,     \* output of it, as far as written
  RoundKey,   \* static, like the other variables of aes.cpp
  word,       \* how many words KeyExpansion has written
  Iv,         \* a pointer: the array and the index it points to
  i,          \* the index of the block in work
  round,
  sent,       \* the encrypted frame
  pc
vars == <<frame, charData, buffer, RoundKey, word, Iv, i, round, sent, pc>>

-----------------------------------------------------------------------------
(* Arrays. *)

\* length16: what is missing from the last block is added.
Padded(len) == IF len % KEYLEN # 0 THEN len + (KEYLEN - (len % KEYLEN)) ELSE len

\* Mutant: the words are not converted to char.
CharDataWide(words) ==
  [n \in 0..(Padded(LengthOf(words)) - 1) |->
     IF n < LengthOf(words) THEN words[n] ELSE 0]

\* The low bytes of the words, and zeros up to a whole number of blocks.
CharData(words) ==
  [n \in 0..(Padded(LengthOf(words)) - 1) |->
     IF n < LengthOf(words) THEN words[n] % 256 ELSE 0]

BlockAt(array, at) == [n \in Block |-> array[at + n]]
Put(array, at, block) ==
  [n \in DOMAIN array \cup at..(at + KEYLEN - 1) |->
     IF n \in at..(at + KEYLEN - 1) THEN block[n - at] ELSE array[n]]

IvBlock ==
  CASE Iv[1] = "iv" -> BlockAt(iv, Iv[2])
    [] Iv[1] = "buffer" -> BlockAt(buffer, Iv[2])
    [] Iv[1] = "charData" -> BlockAt(charData, Iv[2])

length == LengthOf(charData)
Work == BlockAt(buffer, i)

-----------------------------------------------------------------------------
Init ==
  /\ frame \in Frames
  /\ charData = <<>> /\ buffer = <<>> /\ sent = <<>>
  /\ RoundKey = [n \in KeyBytes |-> 0] /\ word = 0
  /\ Iv = <<"iv", 0>> /\ i = 0 /\ round = 0
  /\ pc = "aesEncrypt"

\* What both functions begin with; buffer is another array in each unit.
Begin(words, loop) ==
  /\ charData' = CharData(words)
  /\ buffer' = BlockAt(charData', 0)
  /\ word' = 0
  /\ Iv' = <<"iv", 0>>
  /\ i' = 0
  /\ pc' = loop
  /\ UNCHANGED <<frame, RoundKey, round>>

AesEncrypt == pc = "aesEncrypt" /\ Begin(frame, "encrypt") /\ UNCHANGED sent

\* KeyExpansion, in front of both loops: one word of the round keys.
KeyExpansion ==
  /\ pc \in {"encrypt", "decrypt"} /\ word < Words
  /\ RoundKey' = [n \in KeyBytes |-> IF n \div 4 = word THEN KeyByte(key, RoundKey, n) ELSE RoundKey[n]]
  /\ word' = word + 1
  /\ UNCHANGED <<frame, charData, buffer, Iv, i, round, sent, pc>>

\* XorWithIv changes the input; the output is then worked on in place.
EncryptBlock ==
  /\ pc = "encrypt" /\ word = Words /\ i < length
  /\ LET input == XorBlock(BlockAt(charData, i), IvBlock)
     IN  /\ charData' = Put(charData, i, input)
         /\ buffer' = Put(buffer, i, AddRoundKey(input, 0, RoundKey))
  /\ round' = 1
  /\ pc' = "Cipher"
  /\ UNCHANGED <<frame, RoundKey, word, Iv, i, sent>>

CipherRound ==
  /\ pc = "Cipher" /\ round < Nr
  /\ buffer' = Put(buffer, i, AddRoundKey(MixColumns(ShiftRows(SubBytes(Work))), round, RoundKey))
  /\ round' = round + 1
  /\ UNCHANGED <<frame, charData, RoundKey, word, Iv, i, sent, pc>>

\* The next block is chained to this one's ciphertext.
LastRound ==
  /\ pc = "Cipher" /\ round = Nr
  /\ buffer' = Put(buffer, i, AddRoundKey(ShiftRows(SubBytes(Work)), Nr, RoundKey))
  /\ Iv' = <<"buffer", i>>
  /\ i' = i + KEYLEN
  /\ pc' = "encrypt"
  /\ UNCHANGED <<frame, charData, RoundKey, word, round, sent>>

\* No bytes are left over (remainders is 0), as length is that of CharData.
Encrypted ==
  /\ pc = "encrypt" /\ word = Words /\ i >= length
  /\ sent' = [n \in 0..(length - 1) |-> buffer[n]]
  /\ pc' = "aesDecrypt"
  /\ UNCHANGED <<frame, charData, buffer, RoundKey, word, Iv, i, round>>

AesDecrypt == pc = "aesDecrypt" /\ Begin(sent, "decrypt") /\ UNCHANGED sent

DecryptBlock ==
  /\ pc = "decrypt" /\ word = Words /\ i < length
  /\ buffer' = Put(buffer, i, AddRoundKey(BlockAt(charData, i), Nr, RoundKey))
  /\ round' = Nr - 1
  /\ pc' = "InvCipher"
  /\ UNCHANGED <<frame, charData, RoundKey, word, Iv, i, sent>>

InvRound ==
  /\ pc = "InvCipher" /\ round > 0
  /\ buffer' = Put(buffer, i,
       InvMixColumns(AddRoundKey(InvSubBytes(InvShiftRows(Work)), round, RoundKey)))
  /\ round' = round - 1
  /\ UNCHANGED <<frame, charData, RoundKey, word, Iv, i, sent, pc>>

\* Mutant: as in LastRound, the next block is chained to the output.
InvLastRoundOutput ==
  /\ pc = "InvCipher" /\ round = 0
  /\ buffer' = Put(buffer, i,
       XorBlock(AddRoundKey(InvSubBytes(InvShiftRows(Work)), 0, RoundKey), IvBlock))
  /\ Iv' = <<"buffer", i>>
  /\ i' = i + KEYLEN
  /\ pc' = "decrypt"
  /\ UNCHANGED <<frame, charData, RoundKey, word, round, sent>>

\* The input, which is not changed, is what the next block is chained to.
InvLastRound ==
  /\ pc = "InvCipher" /\ round = 0
  /\ buffer' = Put(buffer, i,
       XorBlock(AddRoundKey(InvSubBytes(InvShiftRows(Work)), 0, RoundKey), IvBlock))
  /\ Iv' = <<"charData", i>>
  /\ i' = i + KEYLEN
  /\ pc' = "decrypt"
  /\ UNCHANGED <<frame, charData, RoundKey, word, round, sent>>

Decrypted ==
  /\ pc = "decrypt" /\ word = Words /\ i >= length
  /\ pc' = "done"
  /\ UNCHANGED <<frame, charData, buffer, RoundKey, word, Iv, i, round, sent>>

Next ==
  \/ AesEncrypt \/ KeyExpansion \/ EncryptBlock \/ CipherRound \/ LastRound \/ Encrypted
  \/ AesDecrypt \/ DecryptBlock \/ InvRound \/ InvLastRound \/ Decrypted

Spec == Init /\ [][Next]_vars

=============================================================================
