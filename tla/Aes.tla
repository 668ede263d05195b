-------------------------------- MODULE Aes --------------------------------
(***************************************************************************)
(* The AES-128 block functions of aes.cpp.  A block is a function on 0..15 *)
(* (state[c][r] of the code is byte 4 * c + r) and the round keys are one  *)
(* on 0..175, as the arrays of the code are.                               *)
(***************************************************************************)
EXTENDS Integers, Sequences

Nk == 4
Nb == 4
Nr == 10
KEYLEN == 16

Byte == 0..255
Block == 0..(KEYLEN - 1)

\* The bit of x whose weight is w, a power of 2.
Bit(x, w) == (x \div w) % 2

\* The operator ^ on two bytes.
Xor(x, y) ==
  LET Differ(w) == (Bit(x, w) + Bit(y, w)) % 2
  IN  Differ(1) + 2 * Differ(2) + 4 * Differ(4) + 8 * Differ(8)
        + 16 * Differ(16) + 32 * Differ(32) + 64 * Differ(64) + 128 * Differ(128)
x ^^ y == Xor(x, y)

XorOf4(a, b, c, d) == (a ^^ b) ^^ (c ^^ d)

\* The tables, of which Rcon is read up to index 10 only.
sbox == <<
   99, 124, 119, 123, 242, 107, 111, 197,  48,   1, 103,  43, 254, 215, 171, 118,
  202, 130, 201, 125, 250,  89,  71, 240, 173, 212, 162, 175, 156, 164, 114, 192,
  183, 253, 147,  38,  54,  63, 247, 204,  52, 165, 229, 241, 113, 216,  49,  21,
    4, 199,  35, 195,  24, 150,   5, 154,   7,  18, 128, 226, 235,  39, 178, 117,
    9, 131,  44,  26,  27, 110,  90, 160,  82,  59, 214, 179,  41, 227,  47, 132,
   83, 209,   0, 237,  32, 252, 177,  91, 106, 203, 190,  57,  74,  76,  88, 207,
  208, 239, 170, 251,  67,  77,  51, 133,  69, 249,   2, 127,  80,  60, 159, 168,
   81, 163,  64, 143, 146, 157,  56, 245, 188, 182, 218,  33,  16, 255, 243, 210,
  205,  12,  19, 236,  95, 151,  68,  23, 196, 167, 126,  61, 100,  93,  25, 115,
   96, 129,  79, 220,  34,  42, 144, 136,  70, 238, 184,  20, 222,  94,  11, 219,
  224,  50,  58,  10,  73,   6,  36,  92, 194, 211, 172,  98, 145, 149, 228, 121,
  231, 200,  55, 109, 141, 213,  78, 169, 108,  86, 244, 234, 101, 122, 174,   8,
  186, 120,  37,  46,  28, 166, 180, 198, 232, 221, 116,  31,  75, 189, 139, 138,
  112,  62, 181, 102,  72,   3, 246,  14,  97,  53,  87, 185, 134, 193,  29, 158,
  225, 248, 152,  17, 105, 217, 142, 148, 155,  30, 135, 233, 206,  85,  40, 223,
  140, 161, 137,  13, 191, 230,  66, 104,  65, 153,  45,  15, 176,  84, 187,  22 >>

rsbox == <<
   82,   9, 106, 213,  48,  54, 165,  56, 191,  64, 163, 158, 129, 243, 215, 251,
  124, 227,  57, 130, 155,  47, 255, 135,  52, 142,  67,  68, 196, 222, 233, 203,
   84, 123, 148,  50, 166, 194,  35,  61, 238,  76, 149,  11,  66, 250, 195,  78,
    8,  46, 161, 102,  40, 217,  36, 178, 118,  91, 162,  73, 109, 139, 209,  37,
  114, 248, 246, 100, 134, 104, 152,  22, 212, 164,  92, 204,  93, 101, 182, 146,
  108, 112,  72,  80, 253, 237, 185, 218,  94,  21,  70,  87, 167, 141, 157, 132,
  144, 216, 171,   0, 140, 188, 211,  10, 247, 228,  88,   5, 184, 179,  69,   6,
  208,  44,  30, 143, 202,  63,  15,   2, 193, 175, 189,   3,   1,  19, 138, 107,
   58, 145,  17,  65,  79, 103, 220, 234, 151, 242, 207, 206, 240, 180, 230, 115,
  150, 172, 116,  34, 231, 173,  53, 133, 226, 249,  55, 232,  28, 117, 223, 110,
   71, 241,  26, 113,  29,  41, 197, 137, 111, 183,  98,  14, 170,  24, 190,  27,
  252,  86,  62,  75, 198, 210, 121,  32, 154, 219, 192, 254, 120, 205,  90, 244,
   31, 221, 168,  51, 136,   7, 199,  49, 177,  18,  16,  89,  39, 128, 236,  95,
   96,  81, 127, 169,  25, 181,  74,  13,  45, 229, 122, 159, 147, 201, 156, 239,
  160, 224,  59,  77, 174,  42, 245, 176, 200, 235, 187,  60, 131,  83, 153,  97,
   23,  43,   4, 126, 186, 119, 214,  38, 225, 105,  20,  99,  85,  33,  12, 125 >>

Rcon == <<141, 1, 2, 4, 8, 16, 32, 64, 128, 27, 54>>

\* Mutant: the table of the other direction.
ForwardInvert(num) == sbox[num + 1]

getSBoxValue(num) == sbox[num + 1]
getSBoxInvert(num) == rsbox[num + 1]

-----------------------------------------------------------------------------
(* Round keys: words of four bytes, the first four of which are the key. *)

\* Mutant: the round constants are taken from Rcon[0] on.
RotatedEarly(RoundKey, word, n) ==
  getSBoxValue(RoundKey[4 * (word - 1) + ((n + 1) % 4)]) ^^ (IF n = 0 THEN Rcon[word \div Nk] ELSE 0)

\* RotWord, SubWord and the round constant, for byte n of a word.
Rotated(RoundKey, word, n) ==
  getSBoxValue(RoundKey[4 * (word - 1) + ((n + 1) % 4)])
    ^^ (IF n = 0 THEN Rcon[(word \div Nk) + 1] ELSE 0)

\* How many words and bytes there are.
Words == Nb * (Nr + 1)
KeyBytes == 0..(4 * Words - 1)

\* Byte n of the round keys, from those of the words before.
KeyByte(key, RoundKey, n) ==
  LET word == n \div 4
  IN  IF word < Nk THEN key[n]
      ELSE RoundKey[n - Nk * 4]
             ^^ (IF word % Nk = 0 THEN Rotated(RoundKey, word, n % 4) ELSE RoundKey[n - 4])

-----------------------------------------------------------------------------
(* The steps of a round. *)

XorBlock(b, c) == [n \in Block |-> b[n] ^^ c[n]]

AddRoundKey(b, round, RoundKey) ==
  [n \in Block |-> b[n] ^^ RoundKey[round * Nb * 4 + n]]

SubBytes(b) == [n \in Block |-> getSBoxValue(b[n])]
InvSubBytes(b) == [n \in Block |-> getSBoxInvert(b[n])]

\* Row r of the state, the bytes of index 4 * c + r, is rotated by r.
ShiftRows(b) == [n \in Block |-> b[(n + 4 * (n % 4)) % 16]]
InvShiftRows(b) == [n \in Block |-> b[(n + 12 * (n % 4)) % 16]]

\* Mutant: the byte is not reduced when it leaves eight bits.
ShiftOnly(x) == (2 * x) % 256

\* uint8_t keeps eight bits.
xtime(x) == ((2 * x) % 256) ^^ (27 * (x \div 128))

\* Byte r + k of the column that byte n is in.
InColumn(b, n, k) == b[4 * (n \div 4) + ((n + k) % 4)]

MixColumns(b) ==
  [n \in Block |->
     LET Tmp == XorOf4(InColumn(b, n, 0), InColumn(b, n, 1), InColumn(b, n, 2), InColumn(b, n, 3))
         Tm == InColumn(b, n, 0) ^^ InColumn(b, n, 1)
     IN  b[n] ^^ (xtime(Tm) ^^ Tmp)]

\* The macro looks at five bits of y.
Multiply(x, y) ==
  LET x2 == xtime(x)
      x4 == xtime(x2)
      x8 == xtime(x4)
      x16 == xtime(x8)
  IN  XorOf4(Bit(y, 1) * x, Bit(y, 2) * x2, Bit(y, 4) * x4, Bit(y, 8) * x8) ^^ (Bit(y, 16) * x16)

InvMixColumns(b) ==
  [n \in Block |->
     XorOf4(Multiply(InColumn(b, n, 0), 14), Multiply(InColumn(b, n, 1), 11),
            Multiply(InColumn(b, n, 2), 13), Multiply(InColumn(b, n, 3), 9))]

=============================================================================
