------------------------------ MODULE AesProps ------------------------------
(***************************************************************************)
(* What the encryption of a frame is for, and what the standards say of    *)
(* its parts.                                                              *)
(***************************************************************************)
EXTENDS AesCbc

TypeOK ==
  /\ frame \in Frames
  /\ \A array \in {charData, buffer, sent} : \A n \in DOMAIN array : array[n] \in Byte
  /\ RoundKey \in [KeyBytes -> Byte] /\ word \in 0..Words
  /\ Iv[1] \in {"iv", "buffer", "charData"} /\ Iv[2] \in Nat
  /\ i \in Nat /\ round \in 0..Nr
  /\ pc \in {"aesEncrypt", "encrypt", "Cipher", "aesDecrypt", "decrypt", "InvCipher", "done"}

\* What aesEncrypt makes of a frame, aesDecrypt turns back into it, padded
\* with zeros to whole blocks.
RoundTrip == pc = "done" => buffer = CharData(frame)

-----------------------------------------------------------------------------
(* FIPS 197: the field of bytes, as polynomials modulo x^8+x^4+x^3+x+1. *)

TimesX(b) == IF b < 128 THEN 2 * b ELSE (2 * b - 256) ^^ 27

Product(a, b) ==
  LET x1 == TimesX(b)   x2 == TimesX(x1)  x3 == TimesX(x2)  x4 == TimesX(x3)
      x5 == TimesX(x4)  x6 == TimesX(x5)  x7 == TimesX(x6)
  IN  XorOf4(Bit(a, 1) * b, Bit(a, 2) * x1, Bit(a, 4) * x2, Bit(a, 8) * x3)
        ^^ XorOf4(Bit(a, 16) * x4, Bit(a, 32) * x5, Bit(a, 64) * x6, Bit(a, 128) * x7)

\* The affine map of the S-box, undone: sums of rotations of the byte.
RotatedBy(c, k) == ((c * 2^k) % 256) + (c \div 2^(8 - k))
Unmapped(c) == XorOf4(RotatedBy(c, 1), RotatedBy(c, 3), RotatedBy(c, 6), 5)

\* The tables of aes.cpp are the S-box, multiplicative inverse and affine map,
\* and its inverse.
TablesStandard ==
  pc = "aesEncrypt" =>
    \A a \in Byte :
      /\ IF a = 0 THEN Unmapped(getSBoxValue(a)) = 0
                  ELSE Product(a, Unmapped(getSBoxValue(a))) = 1
      /\ getSBoxInvert(getSBoxValue(a)) = a

\* A column times {03}x^3 + {01}x^2 + {01}x + {02}.
StandardMix(b) ==
  [n \in Block |->
     XorOf4(Product(2, InColumn(b, n, 0)), Product(3, InColumn(b, n, 1)),
            Product(1, InColumn(b, n, 2)), Product(1, InColumn(b, n, 3)))]

\* In every round, MixColumns and InvMixColumns, with their xtime and Multiply,
\* are the multiplication of the standard and its inverse.
MixesAsStandard ==
  [][/\ CipherRound =>
          AddRoundKey(BlockAt(buffer', i), round, RoundKey) = StandardMix(ShiftRows(SubBytes(Work)))
     /\ InvRound =>
          StandardMix(BlockAt(buffer', i))
            = AddRoundKey(InvSubBytes(InvShiftRows(Work)), round, RoundKey)]_vars

-----------------------------------------------------------------------------
(* The vectors of NIST SP 800-38A that aes.cpp names. *)

BlockOf(bytes) == [n \in Block |-> bytes[n + 1]]

PlainBlocks ==
  <<<<107, 193, 190, 226, 46, 64, 159, 150, 233, 61, 126, 17, 115, 147, 23, 42>>,
    <<174, 45, 138, 87, 30, 3, 172, 156, 158, 183, 111, 172, 69, 175, 142, 81>>,
    <<48, 200, 28, 70, 163, 92, 228, 17, 229, 251, 193, 25, 26, 10, 82, 239>>,
    <<246, 159, 36, 69, 223, 79, 155, 23, 173, 43, 65, 123, 230, 108, 55, 16>>>>
EcbBlocks ==
  <<<<58, 215, 123, 180, 13, 122, 54, 96, 168, 158, 202, 243, 36, 102, 239, 151>>,
    <<245, 211, 213, 133, 3, 185, 105, 157, 231, 133, 137, 90, 150, 253, 186, 175>>,
    <<67, 177, 205, 127, 89, 142, 206, 35, 136, 27, 0, 227, 237, 3, 6, 136>>,
    <<123, 12, 120, 94, 39, 232, 173, 63, 130, 35, 32, 113, 4, 114, 93, 212>>>>
CbcBlocks ==
  <<<<118, 73, 171, 172, 129, 25, 178, 70, 206, 233, 142, 155, 18, 233, 25, 125>>,
    <<80, 134, 203, 155, 80, 114, 25, 238, 149, 219, 17, 58, 145, 118, 120, 178>>,
    <<115, 190, 214, 184, 227, 193, 116, 59, 113, 22, 230, 158, 34, 34, 149, 22>>,
    <<63, 241, 202, 161, 104, 31, 172, 9, 18, 14, 202, 48, 117, 134, 225, 167>>>>

\* The four blocks as one frame; each block as a frame that makes up for iv.
CbcFrame == [n \in 0..63 |-> PlainBlocks[(n \div 16) + 1][(n % 16) + 1]]
EcbFrame(k) == XorBlock(BlockOf(PlainBlocks[k]), iv)

\* The ciphertext is what the document that aes.cpp refers to gives for it.
MeetsVectors ==
  pc = "aesDecrypt" =>
    /\ \A k \in 1..4 : frame = EcbFrame(k) => sent = BlockOf(EcbBlocks[k])
    /\ frame = CbcFrame => \A k \in 1..4 : BlockAt(sent, 16 * (k - 1)) = BlockOf(CbcBlocks[k])

=============================================================================
