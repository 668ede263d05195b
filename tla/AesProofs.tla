----------------------------- MODULE AesProofs -----------------------------
(***************************************************************************)
(* Proofs about the cipher, for every key, initial vector and set of       *)
(* frames.  Bytes are looked at bit by bit: XOR adds bits modulo 2, and    *)
(* xtime moves them, so that both are linear and InvMixColumns undoes      *)
(* MixColumns.  Then the steps of a round, the rounds of a block, the      *)
(* arrays of blocks and the round keys, and at last the invariant.         *)
(***************************************************************************)
EXTENDS AesInv, FiniteSetTheorems, TLAPS

-----------------------------------------------------------------------------
(* The bits of a byte. *)

Weights == {1, 2, 4, 8, 16, 32, 64, 128}

LEMMA BitValues ==
  ASSUME NEW x \in Byte, NEW w \in Weights
  PROVE  Bit(x, w) \in {0, 1}
<1>1. w \in Nat \ {0}
  BY DEF Weights
<1>2. x \div w \in Int
  BY <1>1 DEF Byte, Weights
<1> QED
  BY <1>2 DEF Bit

LEMMA SumOfBits ==
  ASSUME NEW a \in {0, 1}, NEW b \in {0, 1}, NEW c \in {0, 1}, NEW d \in {0, 1},
         NEW e \in {0, 1}, NEW f \in {0, 1}, NEW g \in {0, 1}, NEW h \in {0, 1},
         NEW x, x = a + 2 * b + 4 * c + 8 * d + 16 * e + 32 * f + 64 * g + 128 * h
  PROVE  /\ x \in Byte
         /\ Bit(x, 1) = a /\ Bit(x, 2) = b /\ Bit(x, 4) = c /\ Bit(x, 8) = d
         /\ Bit(x, 16) = e /\ Bit(x, 32) = f /\ Bit(x, 64) = g /\ Bit(x, 128) = h
BY DEF Byte, Bit

LEMMA ByteOfBits ==
  ASSUME NEW x \in Byte
  PROVE  x = Bit(x, 1) + 2 * Bit(x, 2) + 4 * Bit(x, 4) + 8 * Bit(x, 8)
           + 16 * Bit(x, 16) + 32 * Bit(x, 32) + 64 * Bit(x, 64) + 128 * Bit(x, 128)
BY DEF Byte, Bit

LEMMA XorBits ==
  ASSUME NEW x \in Byte, NEW y \in Byte
  PROVE  /\ x ^^ y \in Byte
         /\ \A w \in Weights : Bit(x ^^ y, w) = (Bit(x, w) + Bit(y, w)) % 2
<1> DEFINE D(w) == (Bit(x, w) + Bit(y, w)) % 2
<1>1. \A w \in Weights : D(w) \in {0, 1}
  BY BitValues
<1>2. x ^^ y = D(1) + 2 * D(2) + 4 * D(4) + 8 * D(8) + 16 * D(16) + 32 * D(32) + 64 * D(64) + 128 * D(128)
  BY DEF ^^, Xor
<1>3. /\ D(1) \in {0, 1} /\ D(2) \in {0, 1} /\ D(4) \in {0, 1} /\ D(8) \in {0, 1}
      /\ D(16) \in {0, 1} /\ D(32) \in {0, 1} /\ D(64) \in {0, 1} /\ D(128) \in {0, 1}
  BY <1>1 DEF Weights
<1> HIDE DEF D
<1>4. /\ x ^^ y \in Byte
      /\ Bit(x ^^ y, 1) = D(1) /\ Bit(x ^^ y, 2) = D(2) /\ Bit(x ^^ y, 4) = D(4)
      /\ Bit(x ^^ y, 8) = D(8) /\ Bit(x ^^ y, 16) = D(16) /\ Bit(x ^^ y, 32) = D(32)
      /\ Bit(x ^^ y, 64) = D(64) /\ Bit(x ^^ y, 128) = D(128)
  BY <1>2, <1>3, SumOfBits
<1>5. \A w \in Weights : Bit(x ^^ y, w) = D(w)
  BY <1>4 DEF Weights
<1> QED
  BY <1>4, <1>5 DEF D

\* The bit of weight w is set.
On(x, w) == Bit(x, w) = 1

LEMMA XorByte ==
  \A x, y \in Byte : x ^^ y \in Byte
BY XorBits

LEMMA XorOn ==
  \A x, y \in Byte : \A w \in Weights : On(x ^^ y, w) <=> ~(On(x, w) <=> On(y, w))
<1> SUFFICES ASSUME NEW x \in Byte, NEW y \in Byte, NEW w \in Weights
             PROVE  On(x ^^ y, w) <=> ~(On(x, w) <=> On(y, w))
  OBVIOUS
<1>1. Bit(x, w) \in {0, 1} /\ Bit(y, w) \in {0, 1}
  BY BitValues
<1>2. Bit(x ^^ y, w) = (Bit(x, w) + Bit(y, w)) % 2
  BY XorBits
<1> QED
  BY <1>1, <1>2 DEF On

LEMMA SameBits ==
  ASSUME NEW x \in Byte, NEW y \in Byte,
         \A w \in Weights : On(x, w) <=> On(y, w)
  PROVE  x = y
<1>1. \A w \in Weights : Bit(x, w) = Bit(y, w)
  BY BitValues DEF On
<1>2. /\ Bit(x, 1) = Bit(y, 1) /\ Bit(x, 2) = Bit(y, 2) /\ Bit(x, 4) = Bit(y, 4)
      /\ Bit(x, 8) = Bit(y, 8) /\ Bit(x, 16) = Bit(y, 16) /\ Bit(x, 32) = Bit(y, 32)
      /\ Bit(x, 64) = Bit(y, 64) /\ Bit(x, 128) = Bit(y, 128)
  BY <1>1 DEF Weights
<1> QED
  BY <1>2, ByteOfBits

LEMMA ZeroOff ==
  0 \in Byte /\ \A w \in Weights : ~On(0, w)
BY DEF Byte, Weights, On, Bit

LEMMA XorAssoc ==
  \A x, y, z \in Byte : (x ^^ y) ^^ z = x ^^ (y ^^ z)
<1> SUFFICES ASSUME NEW x \in Byte, NEW y \in Byte, NEW z \in Byte
             PROVE  (x ^^ y) ^^ z = x ^^ (y ^^ z)
  OBVIOUS
<1>1. x ^^ y \in Byte /\ y ^^ z \in Byte /\ (x ^^ y) ^^ z \in Byte /\ x ^^ (y ^^ z) \in Byte
  BY XorByte
<1>2. \A w \in Weights : On((x ^^ y) ^^ z, w) <=> On(x ^^ (y ^^ z), w)
  BY <1>1, XorOn
<1> QED
  BY <1>1, <1>2, SameBits

LEMMA XorComm ==
  \A x, y \in Byte : x ^^ y = y ^^ x
<1> SUFFICES ASSUME NEW x \in Byte, NEW y \in Byte
             PROVE  x ^^ y = y ^^ x
  OBVIOUS
<1>1. x ^^ y \in Byte /\ y ^^ x \in Byte
  BY XorByte
<1>2. \A w \in Weights : On(x ^^ y, w) <=> On(y ^^ x, w)
  BY XorOn
<1> QED
  BY <1>1, <1>2, SameBits

\* What is added twice is gone.
LEMMA XorTwice ==
  \A x, y \in Byte : (x ^^ y) ^^ y = x
<1> SUFFICES ASSUME NEW x \in Byte, NEW y \in Byte
             PROVE  (x ^^ y) ^^ y = x
  OBVIOUS
<1>1. x ^^ y \in Byte /\ (x ^^ y) ^^ y \in Byte
  BY XorByte
<1>2. \A w \in Weights : On((x ^^ y) ^^ y, w) <=> On(x, w)
  BY <1>1, XorOn
<1> QED
  BY <1>1, <1>2, SameBits

LEMMA XorSelf ==
  \A x \in Byte : x ^^ x = 0 /\ x ^^ 0 = x
BY DEF ^^, Xor, Bit, Byte

LEMMA XtimeBits ==
  ASSUME NEW x \in Byte
  PROVE  /\ xtime(x) \in Byte
         /\ Bit(xtime(x), 1) = Bit(x, 128)
         /\ Bit(xtime(x), 2) = (Bit(x, 1) + Bit(x, 128)) % 2
         /\ Bit(xtime(x), 4) = Bit(x, 2)
         /\ Bit(xtime(x), 8) = (Bit(x, 4) + Bit(x, 128)) % 2
         /\ Bit(xtime(x), 16) = (Bit(x, 8) + Bit(x, 128)) % 2
         /\ Bit(xtime(x), 32) = Bit(x, 16)
         /\ Bit(xtime(x), 64) = Bit(x, 32)
         /\ Bit(xtime(x), 128) = Bit(x, 64)
<1> DEFINE u == (2 * x) % 256
           v == 27 * (x \div 128)
<1>1. u \in Byte /\ v \in Byte
  BY DEF Byte
<1>2. \A w \in Weights : Bit(xtime(x), w) = (Bit(u, w) + Bit(v, w)) % 2
  BY <1>1, XorBits DEF xtime
<1>3. x \div 128 \in {0, 1} /\ Bit(x, 128) = x \div 128
  BY DEF Byte, Bit
<1>4. /\ Bit(u, 1) = 0 /\ Bit(u, 2) = Bit(x, 1) /\ Bit(u, 4) = Bit(x, 2)
      /\ Bit(u, 8) = Bit(x, 4) /\ Bit(u, 16) = Bit(x, 8)
      /\ Bit(u, 32) = Bit(x, 16) /\ Bit(u, 64) = Bit(x, 32)
      /\ Bit(u, 128) = Bit(x, 64)
  BY DEF Byte, Bit
<1>5. /\ Bit(v, 1) = x \div 128 /\ Bit(v, 2) = x \div 128 /\ Bit(v, 4) = 0
      /\ Bit(v, 8) = x \div 128 /\ Bit(v, 16) = x \div 128
      /\ Bit(v, 32) = 0 /\ Bit(v, 64) = 0
      /\ Bit(v, 128) = 0
  BY <1>3 DEF Bit
<1>6. /\ Bit(xtime(x), 1) = (Bit(u, 1) + Bit(v, 1)) % 2
      /\ Bit(xtime(x), 2) = (Bit(u, 2) + Bit(v, 2)) % 2
      /\ Bit(xtime(x), 4) = (Bit(u, 4) + Bit(v, 4)) % 2
      /\ Bit(xtime(x), 8) = (Bit(u, 8) + Bit(v, 8)) % 2
      /\ Bit(xtime(x), 16) = (Bit(u, 16) + Bit(v, 16)) % 2
      /\ Bit(xtime(x), 32) = (Bit(u, 32) + Bit(v, 32)) % 2
      /\ Bit(xtime(x), 64) = (Bit(u, 64) + Bit(v, 64)) % 2
      /\ Bit(xtime(x), 128) = (Bit(u, 128) + Bit(v, 128)) % 2
  BY <1>2 DEF Weights
<1>7. xtime(x) \in Byte
  BY <1>1, XorBits DEF xtime
<1>8. \A w \in Weights : Bit(x, w) \in {0, 1}
  BY BitValues
<1>9. /\ Bit(x, 1) \in {0, 1} /\ Bit(x, 2) \in {0, 1} /\ Bit(x, 4) \in {0, 1} /\ Bit(x, 8) \in {0, 1}
      /\ Bit(x, 16) \in {0, 1} /\ Bit(x, 32) \in {0, 1} /\ Bit(x, 64) \in {0, 1}
  BY <1>8 DEF Weights
<1> HIDE DEF u, v
<1> QED
  BY <1>3, <1>4, <1>5, <1>6, <1>7, <1>9

LEMMA XtimeOn ==
  \A x \in Byte :
    /\ xtime(x) \in Byte
    /\ On(xtime(x), 1) <=> On(x, 128)
    /\ On(xtime(x), 2) <=> ~(On(x, 1) <=> On(x, 128))
    /\ On(xtime(x), 4) <=> On(x, 2)
    /\ On(xtime(x), 8) <=> ~(On(x, 4) <=> On(x, 128))
    /\ On(xtime(x), 16) <=> ~(On(x, 8) <=> On(x, 128))
    /\ On(xtime(x), 32) <=> On(x, 16)
    /\ On(xtime(x), 64) <=> On(x, 32)
    /\ On(xtime(x), 128) <=> On(x, 64)
<1> TAKE x \in Byte
<1>1. /\ Bit(x, 1) \in {0, 1} /\ Bit(x, 4) \in {0, 1} /\ Bit(x, 8) \in {0, 1}
      /\ Bit(x, 128) \in {0, 1}
  BY BitValues DEF Weights
<1> QED
  BY <1>1, XtimeBits DEF On

LEMMA XtimeXor ==
  \A x, y \in Byte : xtime(x ^^ y) = xtime(x) ^^ xtime(y)
<1> SUFFICES ASSUME NEW x \in Byte, NEW y \in Byte
             PROVE  xtime(x ^^ y) = xtime(x) ^^ xtime(y)
  OBVIOUS
<1>1. /\ x ^^ y \in Byte /\ xtime(x) \in Byte /\ xtime(y) \in Byte
      /\ xtime(x ^^ y) \in Byte /\ xtime(x) ^^ xtime(y) \in Byte
  BY XorByte, XtimeOn
<1>2. 1 \in Weights /\ 2 \in Weights /\ 4 \in Weights /\ 8 \in Weights
      /\ 16 \in Weights /\ 32 \in Weights /\ 64 \in Weights /\ 128 \in Weights
  BY DEF Weights
<1>3. \A w \in Weights : On(xtime(x ^^ y), w) <=> On(xtime(x) ^^ xtime(y), w)
  <2>1. \A w \in Weights :
          /\ On(x ^^ y, w) <=> ~(On(x, w) <=> On(y, w))
          /\ On(xtime(x) ^^ xtime(y), w) <=> ~(On(xtime(x), w) <=> On(xtime(y), w))
    BY <1>1, XorOn
  <2>2. \A w \in {1, 4, 32, 64, 128} : On(xtime(x ^^ y), w) <=> On(xtime(x) ^^ xtime(y), w)
    BY <1>1, <1>2, <2>1, XtimeOn
  <2>3. \A w \in {2, 8, 16} : On(xtime(x ^^ y), w) <=> On(xtime(x) ^^ xtime(y), w)
    BY <1>1, <1>2, <2>1, XtimeOn
  <2> QED
    BY <2>2, <2>3 DEF Weights
<1> QED
  BY <1>1, <1>3, SameBits

-----------------------------------------------------------------------------
(* Columns. *)

\* The first byte of a column that MixColumns and InvMixColumns make.
Mixed(a, b, c, d) == a ^^ (xtime(a ^^ b) ^^ XorOf4(a, b, c, d))
Unmixed(a, b, c, d) ==
  XorOf4(Multiply(a, 14), Multiply(b, 11), Multiply(c, 13), Multiply(d, 9))

x2(x) == xtime(xtime(x))
x3(x) == xtime(x2(x))

LEMMA TimesBytes ==
  \A x \in Byte : xtime(x) \in Byte /\ x2(x) \in Byte /\ x3(x) \in Byte
BY XtimeOn DEF x2, x3

LEMMA TimesXor ==
  \A x, y \in Byte :
    /\ xtime(x ^^ y) = xtime(x) ^^ xtime(y)
    /\ x2(x ^^ y) = x2(x) ^^ x2(y)
    /\ x3(x ^^ y) = x3(x) ^^ x3(y)
<1> TAKE x, y \in Byte
<1>1. xtime(x ^^ y) = xtime(x) ^^ xtime(y)
  BY XtimeXor
<1>2. x2(x ^^ y) = x2(x) ^^ x2(y)
  BY <1>1, XtimeXor, TimesBytes DEF x2
<1>3. x3(x ^^ y) = x3(x) ^^ x3(y)
  BY <1>2, XtimeXor, TimesBytes DEF x3
<1> QED
  BY <1>1, <1>2, <1>3

LEMMA Multiples ==
  \A x \in Byte :
    /\ Multiply(x, 14) = (xtime(x) ^^ x2(x)) ^^ x3(x)
    /\ Multiply(x, 11) = (x ^^ xtime(x)) ^^ x3(x)
    /\ Multiply(x, 13) = (x ^^ x2(x)) ^^ x3(x)
    /\ Multiply(x, 9) = x ^^ x3(x)
<1> TAKE x \in Byte
<1> DEFINE x4 == xtime(x3(x))
<1>1. xtime(x) \in Byte /\ x2(x) \in Byte /\ x3(x) \in Byte /\ x4 \in Byte
  BY TimesBytes, XtimeOn
<1>2. \A y \in {9, 11, 13, 14} :
        Multiply(x, y) = XorOf4(Bit(y, 1) * x, Bit(y, 2) * xtime(x), Bit(y, 4) * x2(x), Bit(y, 8) * x3(x))
                           ^^ (Bit(y, 16) * x4)
  BY DEF Multiply, x2, x3
<1> HIDE DEF x4
<1>3. /\ Bit(14, 1) = 0 /\ Bit(14, 2) = 1 /\ Bit(14, 4) = 1 /\ Bit(14, 8) = 1 /\ Bit(14, 16) = 0
      /\ Bit(11, 1) = 1 /\ Bit(11, 2) = 1 /\ Bit(11, 4) = 0 /\ Bit(11, 8) = 1 /\ Bit(11, 16) = 0
      /\ Bit(13, 1) = 1 /\ Bit(13, 2) = 0 /\ Bit(13, 4) = 1 /\ Bit(13, 8) = 1 /\ Bit(13, 16) = 0
      /\ Bit(9, 1) = 1 /\ Bit(9, 2) = 0 /\ Bit(9, 4) = 0 /\ Bit(9, 8) = 1 /\ Bit(9, 16) = 0
  BY DEF Bit
<1>4. \A y \in Byte : y \in Int /\ 0 * y = 0 /\ 1 * y = y
  BY DEF Byte
<1>5. /\ Multiply(x, 14) = XorOf4(0, xtime(x), x2(x), x3(x)) ^^ 0
      /\ Multiply(x, 11) = XorOf4(x, xtime(x), 0, x3(x)) ^^ 0
      /\ Multiply(x, 13) = XorOf4(x, 0, x2(x), x3(x)) ^^ 0
      /\ Multiply(x, 9) = XorOf4(x, 0, 0, x3(x)) ^^ 0
  BY <1>1, <1>2, <1>3, <1>4
<1>6. \A y \in Byte : y ^^ 0 = y /\ 0 ^^ y = y
  BY XorSelf, XorComm, ZeroOff
<1>7. \A p, q, r \in Byte : p ^^ (q ^^ r) = (p ^^ q) ^^ r /\ p ^^ q \in Byte
  BY XorAssoc, XorByte
<1> QED
  BY <1>1, <1>5, <1>6, <1>7, ZeroOff DEF XorOf4

\* InvMixColumns with fewer multiplications.
LEMMA UnmixedSum ==
  \A a, b, c, d \in Byte :
    /\ Unmixed(a, b, c, d) \in Byte
    /\ Unmixed(a, b, c, d)
         = ((x3(XorOf4(a, b, c, d)) ^^ x2(a ^^ c)) ^^ xtime(a ^^ b)) ^^ (XorOf4(a, b, c, d) ^^ a)
<1> TAKE a, b, c, d \in Byte
<1> DEFINE s == XorOf4(a, b, c, d)
           l == Unmixed(a, b, c, d)
           r == ((x3(s) ^^ x2(a ^^ c)) ^^ xtime(a ^^ b)) ^^ (s ^^ a)
<1>1. /\ \A x \in {a, b, c, d} : xtime(x) \in Byte /\ x2(x) \in Byte /\ x3(x) \in Byte
      /\ a ^^ b \in Byte /\ c ^^ d \in Byte /\ a ^^ c \in Byte
  BY TimesBytes, XorByte
<1>2. /\ x3(s) = (x3(a) ^^ x3(b)) ^^ (x3(c) ^^ x3(d))
      /\ x2(a ^^ c) = x2(a) ^^ x2(c)
      /\ xtime(a ^^ b) = xtime(a) ^^ xtime(b)
  BY <1>1, TimesXor DEF XorOf4
<1>3. l = (((xtime(a) ^^ x2(a)) ^^ x3(a)) ^^ ((b ^^ xtime(b)) ^^ x3(b)))
             ^^ (((c ^^ x2(c)) ^^ x3(c)) ^^ (d ^^ x3(d)))
  BY Multiples DEF Unmixed, XorOf4
<1>4. r = ((((x3(a) ^^ x3(b)) ^^ (x3(c) ^^ x3(d))) ^^ (x2(a) ^^ x2(c))) ^^ (xtime(a) ^^ xtime(b)))
            ^^ (((a ^^ b) ^^ (c ^^ d)) ^^ a)
  BY <1>2 DEF XorOf4
<1> HIDE DEF l, r, s
<1>5. l \in Byte /\ r \in Byte
  BY <1>1, <1>3, <1>4, XorByte
<1>6. ASSUME NEW w \in Weights
      PROVE  On(l, w) <=> On(r, w)
  <2>1. \A p, q \in Byte : p ^^ q \in Byte /\ (On(p ^^ q, w) <=> ~(On(p, w) <=> On(q, w)))
    BY XorOn, XorByte
  <2>2. /\ a \in Byte /\ xtime(a) \in Byte /\ x2(a) \in Byte /\ x3(a) \in Byte
        /\ b \in Byte /\ xtime(b) \in Byte /\ x2(b) \in Byte /\ x3(b) \in Byte
        /\ c \in Byte /\ xtime(c) \in Byte /\ x2(c) \in Byte /\ x3(c) \in Byte
        /\ d \in Byte /\ xtime(d) \in Byte /\ x2(d) \in Byte /\ x3(d) \in Byte
    BY <1>1
  <2> QED
    BY <1>3, <1>4, <2>1, <2>2
<1>7. l = r
  BY <1>5, <1>6, SameBits
<1> QED
  BY <1>5, <1>7 DEF l, r, s

\* The sums of the bytes of a column that MixColumns makes.
LEMMA MixedSums ==
  \A a, b, c, d \in Byte :
    LET m0 == Mixed(a, b, c, d)  m1 == Mixed(b, c, d, a)
        m2 == Mixed(c, d, a, b)  m3 == Mixed(d, a, b, c)
        s == XorOf4(a, b, c, d)
    IN  /\ m0 \in Byte /\ m1 \in Byte /\ m2 \in Byte /\ m3 \in Byte /\ s \in Byte
        /\ XorOf4(m0, m1, m2, m3) = s
        /\ m0 ^^ m2 = (a ^^ c) ^^ xtime(s)
        /\ m0 ^^ m1 = (a ^^ b) ^^ xtime(a ^^ c)
<1> TAKE a, b, c, d \in Byte
<1> DEFINE m0 == Mixed(a, b, c, d)  m1 == Mixed(b, c, d, a)
           m2 == Mixed(c, d, a, b)  m3 == Mixed(d, a, b, c)
           s == XorOf4(a, b, c, d)
<1> DEFINE xa == xtime(a)  xb == xtime(b)  xc == xtime(c)  xd == xtime(d)
<1>1. xa \in Byte /\ xb \in Byte /\ xc \in Byte /\ xd \in Byte
  BY TimesBytes
<1>2. /\ m0 = a ^^ ((xa ^^ xb) ^^ ((a ^^ b) ^^ (c ^^ d)))
      /\ m1 = b ^^ ((xb ^^ xc) ^^ ((b ^^ c) ^^ (d ^^ a)))
      /\ m2 = c ^^ ((xc ^^ xd) ^^ ((c ^^ d) ^^ (a ^^ b)))
      /\ m3 = d ^^ ((xd ^^ xa) ^^ ((d ^^ a) ^^ (b ^^ c)))
  BY TimesXor DEF Mixed, XorOf4
<1>3. xtime(s) = (xa ^^ xb) ^^ (xc ^^ xd) /\ xtime(a ^^ c) = xa ^^ xc
  BY TimesXor, XorByte DEF XorOf4
<1>4. s = (a ^^ b) ^^ (c ^^ d) /\ XorOf4(m0, m1, m2, m3) = (m0 ^^ m1) ^^ (m2 ^^ m3)
  BY DEF XorOf4
<1> HIDE DEF m0, m1, m2, m3, s, xa, xb, xc, xd
<1>5. m0 \in Byte /\ m1 \in Byte /\ m2 \in Byte /\ m3 \in Byte /\ s \in Byte
  BY <1>1, <1>2, <1>4, XorByte
<1>6. /\ m0 ^^ m1 \in Byte /\ m2 ^^ m3 \in Byte /\ (m0 ^^ m1) ^^ (m2 ^^ m3) \in Byte
      /\ m0 ^^ m2 \in Byte /\ (a ^^ c) ^^ ((xa ^^ xb) ^^ (xc ^^ xd)) \in Byte
      /\ (a ^^ b) ^^ (xa ^^ xc) \in Byte
  BY <1>1, <1>5, XorByte
<1>7. ASSUME NEW w \in Weights
      PROVE  /\ On((m0 ^^ m1) ^^ (m2 ^^ m3), w) <=> On(s, w)
             /\ On(m0 ^^ m2, w) <=> On((a ^^ c) ^^ ((xa ^^ xb) ^^ (xc ^^ xd)), w)
             /\ On(m0 ^^ m1, w) <=> On((a ^^ b) ^^ (xa ^^ xc), w)
  <2>1. \A p, q \in Byte : p ^^ q \in Byte /\ (On(p ^^ q, w) <=> ~(On(p, w) <=> On(q, w)))
    BY XorOn, XorByte
  <2>2. On((m0 ^^ m1) ^^ (m2 ^^ m3), w) <=> On(s, w)
    BY <1>1, <1>2, <1>4, <2>1
  <2>3. On(m0 ^^ m2, w) <=> On((a ^^ c) ^^ ((xa ^^ xb) ^^ (xc ^^ xd)), w)
    BY <1>1, <1>2, <2>1
  <2>4. On(m0 ^^ m1, w) <=> On((a ^^ b) ^^ (xa ^^ xc), w)
    BY <1>1, <1>2, <2>1
  <2> QED
    BY <2>2, <2>3, <2>4
<1>8. (m0 ^^ m1) ^^ (m2 ^^ m3) = s
  BY <1>5, <1>6, <1>7, SameBits
<1>9. m0 ^^ m2 = (a ^^ c) ^^ ((xa ^^ xb) ^^ (xc ^^ xd))
  BY <1>6, <1>7, SameBits
<1>10. m0 ^^ m1 = (a ^^ b) ^^ (xa ^^ xc)
  BY <1>6, <1>7, SameBits
<1> QED
  BY <1>3, <1>4, <1>5, <1>8, <1>9, <1>10 DEF m0, m1, m2, m3, s

LEMMA UnmixedMixed ==
  \A a, b, c, d \in Byte :
    Unmixed(Mixed(a, b, c, d), Mixed(b, c, d, a), Mixed(c, d, a, b), Mixed(d, a, b, c)) = a
<1> TAKE a, b, c, d \in Byte
<1> DEFINE m0 == Mixed(a, b, c, d)  m1 == Mixed(b, c, d, a)
           m2 == Mixed(c, d, a, b)  m3 == Mixed(d, a, b, c)
           s == XorOf4(a, b, c, d)
           l == Unmixed(m0, m1, m2, m3)
           p == x3(s)  q == x2(a ^^ c)  r == xtime(a ^^ b)
<1>1. /\ m0 \in Byte /\ m1 \in Byte /\ m2 \in Byte /\ m3 \in Byte /\ s \in Byte
      /\ XorOf4(m0, m1, m2, m3) = s
      /\ m0 ^^ m2 = (a ^^ c) ^^ xtime(s)
      /\ m0 ^^ m1 = (a ^^ b) ^^ xtime(a ^^ c)
  BY MixedSums
<1>2. m0 = a ^^ (r ^^ s)
  BY DEF Mixed
<1>3. a ^^ b \in Byte /\ a ^^ c \in Byte
  BY XorByte
<1> HIDE DEF m0, m1, m2, m3, s
<1>4. p \in Byte /\ q \in Byte /\ r \in Byte /\ xtime(s) \in Byte /\ xtime(a ^^ c) \in Byte
  BY <1>1, <1>3, TimesBytes
<1>5. x2(m0 ^^ m2) = q ^^ p
  BY <1>1, <1>3, <1>4, TimesXor DEF x2, x3
<1>6. xtime(m0 ^^ m1) = r ^^ q
  BY <1>1, <1>3, <1>4, TimesXor DEF x2
<1>7. l \in Byte /\ l = ((p ^^ (q ^^ p)) ^^ (r ^^ q)) ^^ (s ^^ (a ^^ (r ^^ s)))
  BY <1>1, <1>2, <1>5, <1>6, UnmixedSum
<1> HIDE DEF l, p, q, r
<1>8. ASSUME NEW w \in Weights
      PROVE  On(l, w) <=> On(a, w)
  <2>1. \A y, z \in Byte : y ^^ z \in Byte /\ (On(y ^^ z, w) <=> ~(On(y, w) <=> On(z, w)))
    BY XorOn, XorByte
  <2> QED
    BY <1>1, <1>4, <1>7, <2>1
<1> QED
  BY <1>7, <1>8, SameBits DEF l, m0, m1, m2, m3

-----------------------------------------------------------------------------
(* The steps of a round on blocks of bytes, and their inverses. *)

Bytes16 == [Block -> Byte]
Keys == [KeyBytes -> Byte]

LEMMA Substituted ==
  \A x \in Byte : getSBoxValue(x) \in Byte /\ getSBoxInvert(getSBoxValue(x)) = x
<1>1. \A x \in Byte : getSBoxValue(x) \in Byte
  BY DEF Byte, getSBoxValue, sbox
<1>2. \A x \in Byte : getSBoxInvert(getSBoxValue(x)) = x
  BY DEF Byte, getSBoxValue, sbox, getSBoxInvert, rsbox
<1> QED
  BY <1>1, <1>2

LEMMA ColumnIndices ==
  \A n \in Block : \A k, j \in 0..3 :
    LET m == 4 * (n \div 4) + ((n + k) % 4)
    IN  /\ m \in Block
        /\ 4 * (m \div 4) + ((m + j) % 4) = 4 * (n \div 4) + ((n + ((k + j) % 4)) % 4)
        /\ 4 * (n \div 4) + ((n + 0) % 4) = n
BY DEF Block, KEYLEN

LEMMA FirstOfColumn ==
  ASSUME NEW b, NEW n \in Block
  PROVE  InColumn(b, n, 0) = b[n]
BY DEF InColumn, Block, KEYLEN

LEMMA ColumnBytes ==
  ASSUME NEW b \in Bytes16, NEW n \in Block
  PROVE  /\ InColumn(b, n, 0) \in Byte /\ InColumn(b, n, 1) \in Byte
         /\ InColumn(b, n, 2) \in Byte /\ InColumn(b, n, 3) \in Byte
<1>1. \A k \in 0..3 : 4 * (n \div 4) + ((n + k) % 4) \in Block
  BY ColumnIndices
<1> QED
  BY <1>1 DEF InColumn, Bytes16

LEMMA MixedColumn ==
  ASSUME NEW b \in Bytes16, NEW n \in Block
  PROVE  /\ MixColumns(b)[n]
              = Mixed(InColumn(b, n, 0), InColumn(b, n, 1), InColumn(b, n, 2), InColumn(b, n, 3))
         /\ MixColumns(b)[n] \in Byte
<1>1. InColumn(b, n, 0) = b[n]
  BY FirstOfColumn
<1>2. MixColumns(b)[n]
        = Mixed(InColumn(b, n, 0), InColumn(b, n, 1), InColumn(b, n, 2), InColumn(b, n, 3))
  BY <1>1 DEF MixColumns, Mixed
<1> QED
  BY <1>2, ColumnBytes, MixedSums

LEMMA StepBytes ==
  ASSUME NEW b \in Bytes16
  PROVE  /\ SubBytes(b) \in Bytes16 /\ ShiftRows(b) \in Bytes16 /\ MixColumns(b) \in Bytes16
         /\ BeforeLastKey(b) \in Bytes16
<1>1. \A c \in Bytes16 : SubBytes(c) \in Bytes16
  BY Substituted DEF SubBytes, Bytes16
<1>2. \A n \in Block : (n + 4 * (n % 4)) % 16 \in Block
  BY DEF Block, KEYLEN
<1>3. \A c \in Bytes16 : ShiftRows(c) \in Bytes16
  BY <1>2 DEF ShiftRows, Bytes16
<1>4. MixColumns(b) = [n \in Block |-> MixColumns(b)[n]]
  BY DEF MixColumns
<1>5. MixColumns(b) \in Bytes16
  BY <1>4, MixedColumn DEF Bytes16
<1> QED
  BY <1>1, <1>3, <1>5 DEF BeforeLastKey

LEMMA KeyIndices ==
  \A r \in 0..Nr : \A n \in Block : r * Nb * 4 + n \in KeyBytes
BY DEF Block, KEYLEN, KeyBytes, Words, Nb, Nr

\* Adding a round key twice changes nothing.
LEMMA KeyTwice ==
  ASSUME NEW b \in Bytes16, NEW keys \in Keys, NEW r \in 0..Nr
  PROVE  /\ AddRoundKey(b, r, keys) \in Bytes16
         /\ AddRoundKey(AddRoundKey(b, r, keys), r, keys) = b
<1>1. \A n \in Block : b[n] \in Byte /\ keys[r * Nb * 4 + n] \in Byte
  BY KeyIndices DEF Bytes16, Keys
<1>2. \A n \in Block : AddRoundKey(b, r, keys)[n] = b[n] ^^ keys[r * Nb * 4 + n]
  BY DEF AddRoundKey
<1>3. AddRoundKey(b, r, keys) \in Bytes16
  BY <1>1, XorByte DEF AddRoundKey, Bytes16
<1>4. \A n \in Block : AddRoundKey(AddRoundKey(b, r, keys), r, keys)[n] = b[n]
  BY <1>1, <1>2, XorTwice DEF AddRoundKey
<1>5. AddRoundKey(AddRoundKey(b, r, keys), r, keys)
        = [n \in Block |-> AddRoundKey(AddRoundKey(b, r, keys), r, keys)[n]]
  BY DEF AddRoundKey
<1>6. b = [n \in Block |-> b[n]]
  BY DEF Bytes16
<1> QED
  BY <1>3, <1>4, <1>5, <1>6

\* InvShiftRows and InvSubBytes undo ShiftRows and SubBytes.
LEMMA BeforeLastKeyUndone ==
  ASSUME NEW b \in Bytes16
  PROVE  InvSubBytes(InvShiftRows(BeforeLastKey(b))) = b
<1>1. \A n \in Block :
        LET m == (n + 12 * (n % 4)) % 16
        IN  m \in Block /\ (m + 4 * (m % 4)) % 16 = n
  BY DEF Block, KEYLEN
<1>2. \A c : InvShiftRows(ShiftRows(c)) = [n \in Block |-> c[n]]
  BY <1>1 DEF ShiftRows, InvShiftRows
<1>3. InvShiftRows(BeforeLastKey(b)) = [n \in Block |-> getSBoxValue(b[n])]
  BY <1>2 DEF BeforeLastKey, SubBytes
<1>4. \A n \in Block : getSBoxInvert(getSBoxValue(b[n])) = b[n]
  BY Substituted DEF Bytes16
<1>5. b = [n \in Block |-> b[n]]
  BY DEF Bytes16
<1> QED
  BY <1>3, <1>4, <1>5 DEF InvSubBytes

LEMMA MixUndone ==
  ASSUME NEW b \in Bytes16
  PROVE  InvMixColumns(MixColumns(b)) = b
<1> DEFINE m == MixColumns(b)
<1>1. ASSUME NEW n \in Block
      PROVE  InvMixColumns(m)[n] = b[n]
  <2> DEFINE c0 == InColumn(b, n, 0)  c1 == InColumn(b, n, 1)
             c2 == InColumn(b, n, 2)  c3 == InColumn(b, n, 3)
             At(k) == 4 * (n \div 4) + ((n + k) % 4)
  <2>1. /\ c0 \in Byte /\ c1 \in Byte /\ c2 \in Byte /\ c3 \in Byte
        /\ c0 = b[n]
    BY ColumnBytes, FirstOfColumn
  <2>2. \A k \in 0..3 :
          /\ At(k) \in Block
          /\ InColumn(m, n, k) = m[At(k)]
          /\ InColumn(b, At(k), 0) = InColumn(b, n, k % 4)
          /\ InColumn(b, At(k), 1) = InColumn(b, n, (k + 1) % 4)
          /\ InColumn(b, At(k), 2) = InColumn(b, n, (k + 2) % 4)
          /\ InColumn(b, At(k), 3) = InColumn(b, n, (k + 3) % 4)
    <3> TAKE k \in 0..3
    <3>1. At(k) \in Block
      BY ColumnIndices
    <3>2. \A j \in 0..3 : InColumn(b, At(k), j) = InColumn(b, n, (k + j) % 4)
      BY ColumnIndices DEF InColumn
    <3>3. InColumn(m, n, k) = m[At(k)]
      BY DEF InColumn
    <3>4. k + 0 = k
      OBVIOUS
    <3> QED
      BY <3>1, <3>2, <3>3, <3>4
  <2> HIDE DEF At, m
  <2>3. \A k \in 0..3 :
          InColumn(m, n, k)
            = Mixed(InColumn(b, n, k % 4), InColumn(b, n, (k + 1) % 4),
                    InColumn(b, n, (k + 2) % 4), InColumn(b, n, (k + 3) % 4))
    BY <2>2, MixedColumn DEF m
  <2>4. /\ InColumn(m, n, 0) = Mixed(c0, c1, c2, c3)
        /\ InColumn(m, n, 1) = Mixed(c1, c2, c3, c0)
        /\ InColumn(m, n, 2) = Mixed(c2, c3, c0, c1)
        /\ InColumn(m, n, 3) = Mixed(c3, c0, c1, c2)
    <3> HIDE DEF c0, c1, c2, c3
    <3>1. /\ 0 % 4 = 0 /\ (0 + 1) % 4 = 1 /\ (0 + 2) % 4 = 2 /\ (0 + 3) % 4 = 3
          /\ 1 % 4 = 1 /\ (1 + 1) % 4 = 2 /\ (1 + 2) % 4 = 3 /\ (1 + 3) % 4 = 0
          /\ 2 % 4 = 2 /\ (2 + 1) % 4 = 3 /\ (2 + 2) % 4 = 0 /\ (2 + 3) % 4 = 1
          /\ 3 % 4 = 3 /\ (3 + 1) % 4 = 0 /\ (3 + 2) % 4 = 1 /\ (3 + 3) % 4 = 2
      OBVIOUS
    <3> QED
      BY <2>3, <3>1 DEF c0, c1, c2, c3
  <2>5. InvMixColumns(m)[n]
          = Unmixed(InColumn(m, n, 0), InColumn(m, n, 1), InColumn(m, n, 2), InColumn(m, n, 3))
    BY DEF InvMixColumns, Unmixed
  <2> HIDE DEF c0, c1, c2, c3
  <2> QED
    BY <2>1, <2>4, <2>5, UnmixedMixed
<1>2. InvMixColumns(m) = [n \in Block |-> InvMixColumns(m)[n]]
  BY DEF InvMixColumns
<1>3. b = [n \in Block |-> b[n]]
  BY DEF Bytes16
<1> QED
  BY <1>1, <1>2, <1>3

\* The field of the standard.
LEMMA StandardProducts ==
  \A x \in Byte :
    Product(1, x) = x /\ Product(2, x) = xtime(x) /\ Product(3, x) = x ^^ xtime(x)
<1> TAKE x \in Byte
<1>1. \A y \in Byte : TimesX(y) = xtime(y)
  <2> TAKE y \in Byte
  <2>1. CASE y < 128
    <3>1. (2 * y) % 256 = 2 * y /\ 2 * y \in Byte /\ 27 * (y \div 128) = 0
      BY <2>1 DEF Byte
    <3> QED
      BY <2>1, <3>1, XorSelf DEF TimesX, xtime
  <2>2. CASE y >= 128
    <3>1. (2 * y) % 256 = 2 * y - 256 /\ 27 * (y \div 128) = 27 /\ ~(y < 128)
      BY <2>2 DEF Byte
    <3> QED
      BY <3>1 DEF TimesX, xtime
  <2> QED
    BY <2>1, <2>2 DEF Byte
<1> DEFINE p1 == TimesX(x)   p2 == TimesX(p1)  p3 == TimesX(p2)  p4 == TimesX(p3)
           p5 == TimesX(p4)  p6 == TimesX(p5)  p7 == TimesX(p6)
<1>2. /\ p1 \in Byte /\ p2 \in Byte /\ p3 \in Byte /\ p4 \in Byte
      /\ p5 \in Byte /\ p6 \in Byte /\ p7 \in Byte
  BY <1>1, XtimeOn
<1>3. \A a \in {1, 2, 3} :
        Product(a, x) = XorOf4(Bit(a, 1) * x, Bit(a, 2) * p1, Bit(a, 4) * p2, Bit(a, 8) * p3)
          ^^ XorOf4(Bit(a, 16) * p4, Bit(a, 32) * p5, Bit(a, 64) * p6, Bit(a, 128) * p7)
  BY DEF Product
<1>4. p1 = xtime(x)
  BY <1>1
<1> HIDE DEF p1, p2, p3, p4, p5, p6, p7
<1>5. /\ Bit(1, 1) = 1 /\ Bit(1, 2) = 0 /\ Bit(2, 1) = 0 /\ Bit(2, 2) = 1
      /\ Bit(3, 1) = 1 /\ Bit(3, 2) = 1
      /\ \A a \in {1, 2, 3} : \A w \in {4, 8, 16, 32, 64, 128} : Bit(a, w) = 0
  BY DEF Bit
<1>6. \A y \in Byte : 0 * y = 0 /\ 1 * y = y
  BY DEF Byte
<1>7. /\ Product(1, x) = XorOf4(x, 0, 0, 0) ^^ XorOf4(0, 0, 0, 0)
      /\ Product(2, x) = XorOf4(0, p1, 0, 0) ^^ XorOf4(0, 0, 0, 0)
      /\ Product(3, x) = XorOf4(x, p1, 0, 0) ^^ XorOf4(0, 0, 0, 0)
  BY <1>2, <1>3, <1>5, <1>6
<1>8. \A y \in Byte : y ^^ 0 = y /\ 0 ^^ y = y
  BY XorSelf, XorComm, ZeroOff
<1> QED
  BY <1>2, <1>4, <1>7, <1>8, ZeroOff, XorByte DEF XorOf4

LEMMA MixIsStandard ==
  ASSUME NEW b \in Bytes16
  PROVE  StandardMix(b) = MixColumns(b)
<1>1. \A x, y, z, t \in Byte :
        XorOf4(xtime(x), y ^^ xtime(y), z, t) = Mixed(x, y, z, t)
  <2> TAKE x, y, z, t \in Byte
  <2> DEFINE l == XorOf4(xtime(x), y ^^ xtime(y), z, t)
             r == Mixed(x, y, z, t)
             p == xtime(x)  q == xtime(y)
  <2>1. p \in Byte /\ q \in Byte
    BY TimesBytes
  <2>2. /\ l = (p ^^ (y ^^ q)) ^^ (z ^^ t)
        /\ r = x ^^ ((p ^^ q) ^^ ((x ^^ y) ^^ (z ^^ t)))
    BY TimesXor DEF XorOf4, Mixed
  <2> HIDE DEF l, r, p, q
  <2>3. l \in Byte /\ r \in Byte
    BY <2>1, <2>2, XorByte
  <2>4. ASSUME NEW w \in Weights
        PROVE  On(l, w) <=> On(r, w)
    <3>1. \A u, v \in Byte : u ^^ v \in Byte /\ (On(u ^^ v, w) <=> ~(On(u, w) <=> On(v, w)))
      BY XorOn, XorByte
    <3> QED
      BY <2>1, <2>2, <3>1
  <2>5. l = r
    BY <2>3, <2>4, SameBits
  <2> QED
    BY <2>5 DEF l, r
<1>2. \A n \in Block : StandardMix(b)[n] = MixColumns(b)[n]
  BY <1>1, ColumnBytes, MixedColumn, StandardProducts DEF StandardMix
<1> QED
  BY <1>2 DEF StandardMix, MixColumns

-----------------------------------------------------------------------------
(* The rounds of a block. *)

LEMMA RoundBytes ==
  ASSUME NEW keys \in Keys, NEW b \in Bytes16, NEW r \in 0..Nr
  PROVE  RoundOf(keys, b, r) \in Bytes16
<1>1. MixColumns(BeforeLastKey(b)) \in Bytes16
  BY StepBytes
<1> QED
  BY <1>1, KeyTwice DEF RoundOf

LEMMA EvaluatedIsSame ==
  ASSUME NEW b
  PROVE  Evaluated(b) = b
BY DEF Evaluated

\* The function that Rounds defines exists: its ten values, one from the other.
LEMMA RoundsExist ==
  ASSUME NEW keys, NEW x
  PROVE  \E T : T = [r \in 0..(Nr - 1) |->
                   IF r = 0 THEN AddRoundKey(x, 0, keys)
                   ELSE RoundOf(keys, Evaluated(T[r - 1]), r)]
<1> DEFINE After(b, r) == RoundOf(keys, Evaluated(b), r)
           t0 == AddRoundKey(x, 0, keys)
           t1 == After(t0, 1)  t2 == After(t1, 2)  t3 == After(t2, 3)
           t4 == After(t3, 4)  t5 == After(t4, 5)  t6 == After(t5, 6)
           t7 == After(t6, 7)  t8 == After(t7, 8)  t9 == After(t8, 9)
           T == [r \in 0..(Nr - 1) |-> <<t0, t1, t2, t3, t4, t5, t6, t7, t8, t9>>[r + 1]]
<1> HIDE DEF After, t0
<1>1. /\ t1 = After(t0, 1) /\ t2 = After(t1, 2) /\ t3 = After(t2, 3)
      /\ t4 = After(t3, 4) /\ t5 = After(t4, 5) /\ t6 = After(t5, 6)
      /\ t7 = After(t6, 7) /\ t8 = After(t7, 8) /\ t9 = After(t8, 9)
  OBVIOUS
<1> HIDE DEF t1, t2, t3, t4, t5, t6, t7, t8, t9
<1>2. /\ T[0] = t0 /\ T[1] = t1 /\ T[2] = t2 /\ T[3] = t3 /\ T[4] = t4
      /\ T[5] = t5 /\ T[6] = t6 /\ T[7] = t7 /\ T[8] = t8 /\ T[9] = t9
  BY DEF Nr
<1>3. T = [r \in 0..(Nr - 1) |-> T[r]]
  OBVIOUS
<1> HIDE DEF T
<1>4. \A r \in 0..(Nr - 1) : T[r] = IF r = 0 THEN t0 ELSE After(T[r - 1], r)
  BY <1>1, <1>2 DEF Nr
<1>5. T = [r \in 0..(Nr - 1) |-> IF r = 0 THEN t0 ELSE After(T[r - 1], r)]
  BY <1>3, <1>4
<1> QED
  BY <1>5 DEF t0, After

LEMMA RoundsValues ==
  ASSUME NEW keys, NEW x
  PROVE  /\ Rounds(keys, x)[0] = AddRoundKey(x, 0, keys)
         /\ \A r \in 1..(Nr - 1) : Rounds(keys, x)[r] = RoundOf(keys, Rounds(keys, x)[r - 1], r)
<1> DEFINE Value(T) == [r \in 0..(Nr - 1) |->
                   IF r = 0 THEN AddRoundKey(x, 0, keys)
                   ELSE RoundOf(keys, Evaluated(T[r - 1]), r)]
<1>1. \E T : T = Value(T)
  BY RoundsExist
<1>2. Rounds(keys, x) = CHOOSE T : T = Value(T)
  BY DEF Rounds
<1> HIDE DEF Value
<1>3. Rounds(keys, x) = Value(Rounds(keys, x))
  BY <1>1, <1>2
<1>4. \A r \in 0..(Nr - 1) :
        Rounds(keys, x)[r] = IF r = 0 THEN AddRoundKey(x, 0, keys)
                             ELSE RoundOf(keys, Evaluated(Rounds(keys, x)[r - 1]), r)
  BY <1>3 DEF Value
<1> QED
  BY <1>4, EvaluatedIsSame DEF Nr

LEMMA RoundsBytes ==
  ASSUME NEW keys \in Keys, NEW x \in Bytes16
  PROVE  /\ \A r \in 0..(Nr - 1) : Rounds(keys, x)[r] \in Bytes16
         /\ CipherOf(keys, x) \in Bytes16
<1> DEFINE T == Rounds(keys, x)
<1>1. T[0] \in Bytes16
  <2>1. 0 \in 0..Nr
    BY DEF Nr
  <2>2. AddRoundKey(x, 0, keys) \in Bytes16
    BY <2>1, KeyTwice
  <2> QED
    BY <2>2, RoundsValues
<1>2. ASSUME NEW r \in 1..(Nr - 1), T[r - 1] \in Bytes16
      PROVE  T[r] \in Bytes16
  BY <1>2, RoundsValues, RoundBytes DEF Nr
<1> HIDE DEF T
<1>3. T[1] \in Bytes16 /\ T[2] \in Bytes16 /\ T[3] \in Bytes16
  BY <1>1, <1>2 DEF Nr
<1>4. T[4] \in Bytes16 /\ T[5] \in Bytes16 /\ T[6] \in Bytes16
  BY <1>3, <1>2 DEF Nr
<1>5. T[7] \in Bytes16 /\ T[8] \in Bytes16 /\ T[9] \in Bytes16
  BY <1>4, <1>2 DEF Nr
<1>6. \A r \in 0..(Nr - 1) : T[r] \in Bytes16
  BY <1>1, <1>3, <1>4, <1>5 DEF Nr
<1>7. BeforeLastKey(T[Nr - 1]) \in Bytes16
  BY <1>6, StepBytes DEF Nr
<1> QED
  BY <1>6, <1>7, KeyTwice DEF CipherOf, T, Nr

\* What InvCipher does in a round, from the state that Cipher had in it.
LEMMA RoundUndone ==
  ASSUME NEW keys \in Keys, NEW b \in Bytes16, NEW r \in 0..Nr
  PROVE  /\ InvSubBytes(InvShiftRows(BeforeLastKey(RoundOf(keys, b, r)))) = RoundOf(keys, b, r)
         /\ AddRoundKey(RoundOf(keys, b, r), r, keys) = MixColumns(BeforeLastKey(b))
         /\ InvMixColumns(MixColumns(BeforeLastKey(b))) = BeforeLastKey(b)
<1>1. BeforeLastKey(b) \in Bytes16 /\ MixColumns(BeforeLastKey(b)) \in Bytes16
  BY StepBytes
<1> QED
  BY <1>1, RoundBytes, BeforeLastKeyUndone, KeyTwice, MixUndone DEF RoundOf

-----------------------------------------------------------------------------
(* Arrays. *)

LEMMA LengthOfBytes ==
  ASSUME NEW m \in Nat, NEW S, NEW array \in [0..(m - 1) -> S]
  PROVE  LengthOf(array) = m
<1>1. DOMAIN array = 0..(m - 1)
  OBVIOUS
<1>2. Cardinality(0..(m - 1)) = m
  BY FS_Interval
<1> QED
  BY <1>1, <1>2 DEF LengthOf

LEMMA PaddedLength ==
  ASSUME NEW len \in Nat \ {0}
  PROVE  /\ Padded(len) \in Nat /\ Padded(len) % KEYLEN = 0
         /\ Padded(len) >= len /\ Padded(len) >= KEYLEN
BY DEF Padded, KEYLEN

\* What CharData makes of a frame, and that it leaves whole blocks of bytes alone.
LEMMA CharDataOfFrame ==
  ASSUME NEW f \in Frames
  PROVE  /\ Padded(LengthOf(f)) \in Nat /\ Padded(LengthOf(f)) % KEYLEN = 0
         /\ Padded(LengthOf(f)) >= KEYLEN
         /\ CharData(f) \in Bytes(Padded(LengthOf(f)))
<1>1. LengthOf(f) \in Nat \ {0} /\ f \in [0..(LengthOf(f) - 1) -> Int]
  BY FramesAssumption
<1>2. /\ Padded(LengthOf(f)) \in Nat /\ Padded(LengthOf(f)) % KEYLEN = 0
      /\ Padded(LengthOf(f)) >= KEYLEN
  BY <1>1, PaddedLength
<1> DEFINE len == LengthOf(f)
           t == Padded(len)
<1> HIDE DEF len, t
<1>3. \A n \in 0..(t - 1) : (IF n < len THEN f[n] % 256 ELSE 0) \in Byte
  <2> TAKE n \in 0..(t - 1)
  <2>1. ASSUME n < len
        PROVE  f[n] % 256 \in Byte
    <3>1. n \in 0..(len - 1)
      BY <1>1, <1>2, <2>1 DEF len, t
    <3>2. f[n] \in Int
      BY <1>1, <3>1 DEF len
    <3> QED
      BY <3>2 DEF Byte
  <2> QED
    BY <2>1 DEF Byte
<1>4. CharData(f) = [n \in 0..(t - 1) |-> IF n < len THEN f[n] % 256 ELSE 0]
  BY DEF CharData, len, t
<1>5. CharData(f) \in Bytes(t)
  BY <1>3, <1>4 DEF Bytes
<1> QED
  BY <1>2, <1>5 DEF len, t

LEMMA CharDataOfBytes ==
  ASSUME NEW m \in Nat, m % KEYLEN = 0, NEW array \in Bytes(m)
  PROVE  CharData(array) = array
<1>1. LengthOf(array) = m
  BY LengthOfBytes DEF Bytes
<1>2. Padded(m) = m
  BY DEF Padded
<1>3. \A n \in 0..(m - 1) : n < m /\ array[n] % 256 = array[n]
  <2> TAKE n \in 0..(m - 1)
  <2>1. array[n] \in 0..255
    BY DEF Bytes, Byte
  <2> QED
    BY <2>1
<1>4. CharData(array) = [n \in 0..(m - 1) |-> IF n < m THEN array[n] % 256 ELSE 0]
  BY <1>1, <1>2 DEF CharData
<1>5. array = [n \in 0..(m - 1) |-> array[n]]
  BY DEF Bytes
<1> QED
  BY <1>3, <1>4, <1>5

LEMMA BlockOfBytes ==
  ASSUME NEW m \in Nat, NEW array \in Bytes(m), NEW j \in Nat, j + KEYLEN <= m
  PROVE  BlockAt(array, j) \in Bytes16
<1>1. \A n \in Block : j + n \in 0..(m - 1)
  BY DEF Block, KEYLEN
<1>2. \A n \in Block : array[j + n] \in Byte
  BY <1>1 DEF Bytes
<1> QED
  BY <1>2 DEF BlockAt, Bytes16

\* Writing a block, at the end of an array or in it.
LEMMA PutBytes ==
  ASSUME NEW m \in Nat, NEW array \in Bytes(m), NEW j \in 0..m, NEW b \in Bytes16,
         NEW k \in Nat, k = IF j + KEYLEN <= m THEN m ELSE j + KEYLEN
  PROVE  /\ Put(array, j, b) \in Bytes(k)
         /\ BlockAt(Put(array, j, b), j) = b
         /\ \A n \in 0..(m - 1) : n < j \/ n >= j + KEYLEN => Put(array, j, b)[n] = array[n]
         /\ \A n \in Nat : n + KEYLEN <= j => BlockAt(Put(array, j, b), n) = BlockAt(array, n)
<1> DEFINE P == Put(array, j, b)
           W == j..(j + KEYLEN - 1)
<1>1. DOMAIN array = 0..(m - 1)
  BY DEF Bytes
<1>2. (0..(m - 1)) \cup W = 0..(k - 1)
  BY DEF KEYLEN
<1>3. P = [n \in 0..(k - 1) |-> IF n \in W THEN b[n - j] ELSE array[n]]
  BY <1>1, <1>2 DEF Put
<1>4. \A n \in W : n - j \in Block /\ b[n - j] \in Byte
  BY DEF Block, Bytes16, KEYLEN
<1>5. \A n \in 0..(k - 1) : n \notin W => n \in 0..(m - 1) /\ array[n] \in Byte
  BY <1>2 DEF Bytes
<1> HIDE DEF P
<1>6. P \in Bytes(k)
  BY <1>3, <1>4, <1>5 DEF Bytes
<1>7. BlockAt(P, j) = b
  <2>1. \A n \in Block : j + n \in W /\ j + n \in 0..(k - 1) /\ (j + n) - j = n
    BY <1>2 DEF Block, KEYLEN
  <2>2. \A n \in Block : P[j + n] = b[n]
    BY <1>3, <2>1
  <2>3. b = [n \in Block |-> b[n]]
    BY DEF Bytes16
  <2> QED
    BY <2>2, <2>3 DEF BlockAt
<1>8. \A n \in 0..(m - 1) : n < j \/ n >= j + KEYLEN => P[n] = array[n]
  <2>1. \A n \in 0..(m - 1) : n < j \/ n >= j + KEYLEN => n \notin W /\ n \in 0..(k - 1)
    BY <1>2 DEF KEYLEN
  <2> QED
    BY <1>3, <2>1
<1>9. ASSUME NEW n \in Nat, n + KEYLEN <= j
      PROVE  BlockAt(P, n) = BlockAt(array, n)
  <2>1. \A c \in Block : n + c \in 0..(m - 1) /\ n + c < j
    BY <1>9 DEF Block, KEYLEN
  <2>2. \A c \in Block : P[n + c] = array[n + c]
    BY <1>8, <2>1
  <2> QED
    BY <2>2 DEF BlockAt
<1> QED
  BY <1>6, <1>7, <1>8, <1>9 DEF P

LEMMA NextStart ==
  ASSUME NEW m \in Nat, m % KEYLEN = 0
  PROVE  /\ Starts(m + KEYLEN) = Starts(m) \cup {m}
         /\ (m + KEYLEN) % KEYLEN = 0
         /\ \A j \in Starts(m) : j \in Nat /\ j % KEYLEN = 0 /\ j + KEYLEN <= m
                                /\ (j # 0 => j - KEYLEN \in Nat)
         /\ m # 0 => m - KEYLEN \in Nat
         /\ \A t \in Nat : t % KEYLEN = 0 /\ m < t => m + KEYLEN <= t
BY DEF Starts, KEYLEN

\* What is a ciphertext stays one when the blocks after it are written.
LEMMA CiphertextKept ==
  ASSUME NEW keys, NEW f, NEW m \in Nat, m % KEYLEN = 0, NEW c, NEW d,
         \A j \in Nat : j + KEYLEN <= m => BlockAt(d, j) = BlockAt(c, j),
         IsCiphertext(keys, f, c, m)
  PROVE  /\ IsCiphertext(keys, f, d, m)
         /\ InputOf(f, d, m) = InputOf(f, c, m)
<1>1. \A j \in Starts(m) \cup {m} : Chained(d, j) = Chained(c, j)
  <2> TAKE j \in Starts(m) \cup {m}
  <2>1. j \in Nat /\ j <= m /\ (j # 0 => j - KEYLEN \in Nat)
    BY NextStart DEF KEYLEN
  <2>2. j # 0 => (j - KEYLEN) + KEYLEN <= m
    BY <2>1 DEF KEYLEN
  <2> QED
    BY <2>1, <2>2 DEF Chained
<1>2. \A j \in Starts(m) : BlockAt(d, j) = BlockAt(c, j)
  BY NextStart
<1> QED
  BY <1>1, <1>2 DEF IsCiphertext, InputOf

LEMMA InputBytes ==
  ASSUME NEW f \in Frames, NEW m \in Nat, NEW c \in Bytes(m), NEW j \in Nat,
         j <= m, j % KEYLEN = 0, j < Padded(LengthOf(f))
  PROVE  /\ BlockAt(CharData(f), j) \in Bytes16 /\ Chained(c, j) \in Bytes16
         /\ InputOf(f, c, j) \in Bytes16
         /\ XorBlock(InputOf(f, c, j), Chained(c, j)) = BlockAt(CharData(f), j)
<1> DEFINE p == BlockAt(CharData(f), j)
           q == Chained(c, j)
<1>1. p \in Bytes16
  BY CharDataOfFrame, NextStart, BlockOfBytes
<1>2. q \in Bytes16
  <2>1. CASE j = 0
    BY <2>1, KeyAssumption DEF Chained, Bytes16
  <2>2. CASE j # 0
    <3>1. j - KEYLEN \in Nat /\ (j - KEYLEN) + KEYLEN <= m
      BY <2>2, NextStart DEF KEYLEN
    <3> QED
      BY <2>2, <3>1, BlockOfBytes DEF Chained
  <2> QED
    BY <2>1, <2>2
<1>3. InputOf(f, c, j) = XorBlock(p, q)
  BY DEF InputOf
<1> HIDE DEF p, q
<1>4. \A n \in Block : p[n] \in Byte /\ q[n] \in Byte
  BY <1>1, <1>2 DEF Bytes16
<1>5. XorBlock(p, q) \in Bytes16
  BY <1>4, XorByte DEF XorBlock, Bytes16
<1>6. XorBlock(XorBlock(p, q), q) = [n \in Block |-> p[n]]
  BY <1>4, XorTwice DEF XorBlock
<1>7. p = [n \in Block |-> p[n]]
  BY <1>1 DEF Bytes16
<1> QED
  BY <1>1, <1>2, <1>3, <1>5, <1>6, <1>7 DEF p, q

-----------------------------------------------------------------------------
(* Round keys. *)

LEMMA RconBytes ==
  \A r \in 1..11 : Rcon[r] \in Byte
BY DEF Rcon, Byte

LEMMA KeyWords ==
  \A n \in KeyBytes :
    /\ n \div 4 \in 0..(Words - 1)
    /\ n \div 4 < Nk => n \in Block
    /\ ~(n \div 4 < Nk) =>
         /\ n - Nk * 4 \in KeyBytes /\ (n - Nk * 4) \div 4 < n \div 4
         /\ n - 4 \in KeyBytes /\ (n - 4) \div 4 < n \div 4
         /\ LET m == 4 * ((n \div 4) - 1) + (((n % 4) + 1) % 4)
            IN  m \in KeyBytes /\ m \div 4 < n \div 4
         /\ ((n \div 4) \div Nk) + 1 \in 1..11
BY DEF KeyBytes, Words, Nb, Nr, Nk, Block, KEYLEN

LEMMA KeyByteTyped ==
  ASSUME NEW keys \in Keys, NEW n \in KeyBytes
  PROVE  KeyByte(key, keys, n) \in Byte
<1> DEFINE w == n \div 4
<1>1. CASE w < Nk
  BY <1>1, KeyWords, KeyAssumption DEF KeyByte
<1>2. CASE ~(w < Nk)
  <2>1. Rotated(keys, w, n % 4) \in Byte
    <3> DEFINE m == 4 * (w - 1) + (((n % 4) + 1) % 4)
    <3>1. m \in KeyBytes /\ (w \div Nk) + 1 \in 1..11
      BY <1>2, KeyWords
    <3>2. getSBoxValue(keys[m]) \in Byte
      BY <3>1, Substituted DEF Keys
    <3>3. (IF n % 4 = 0 THEN Rcon[(w \div Nk) + 1] ELSE 0) \in Byte
      BY <3>1, RconBytes, ZeroOff
    <3> QED
      BY <3>2, <3>3, XorByte DEF Rotated
  <2>2. keys[n - Nk * 4] \in Byte /\ keys[n - 4] \in Byte
    BY <1>2, KeyWords DEF Keys
  <2> QED
    BY <1>2, <2>1, <2>2, XorByte DEF KeyByte
<1> QED
  BY <1>1, <1>2

\* A byte is made of those of the words before.
LEMMA KeyByteFromBefore ==
  ASSUME NEW keys, NEW keys2, NEW n \in KeyBytes,
         \A m \in KeyBytes : m \div 4 < n \div 4 => keys2[m] = keys[m]
  PROVE  KeyByte(key, keys2, n) = KeyByte(key, keys, n)
<1>1. CASE n \div 4 < Nk
  BY <1>1 DEF KeyByte
<1>2. CASE ~(n \div 4 < Nk)
  <2>1. keys2[n - Nk * 4] = keys[n - Nk * 4] /\ keys2[n - 4] = keys[n - 4]
    BY <1>2, KeyWords
  <2>2. Rotated(keys2, n \div 4, n % 4) = Rotated(keys, n \div 4, n % 4)
    BY <1>2, KeyWords DEF Rotated
  <2> QED
    BY <1>2, <2>1, <2>2 DEF KeyByte
<1> QED
  BY <1>1, <1>2

-----------------------------------------------------------------------------
(* The invariant. *)

LEMMA EmptyBytes ==
  /\ <<>> \in Bytes(0)
  /\ \A n \in DOMAIN <<>> : <<>>[n] \in Byte
BY DEF Bytes

\* The length of a frame in whole blocks.
LEMMA TotalFacts ==
  ASSUME frame \in Frames
  PROVE  /\ Total \in Nat /\ Total % KEYLEN = 0 /\ Total >= KEYLEN
         /\ Plain \in Bytes(Total)
         /\ Starts(0) = {}
BY CharDataOfFrame DEF Total, Plain, Starts

LEMMA WordNumbers ==
  Words \in Nat /\ \A n \in KeyBytes : n \div 4 \in 0..(Words - 1) /\ ~(n \div 4 < 0)
<1>1. Words \in Nat
  BY DEF Words, Nb, Nr
<1>2. \A n \in KeyBytes : n \div 4 \in 0..(Words - 1)
  BY KeyWords
<1> QED
  BY <1>1, <1>2

LEMMA InitInvariant ==
  Init => CipherInvariant
<1> SUFFICES ASSUME Init PROVE CipherInvariant
  OBVIOUS
<1> USE DEF Init
<1>1. [n \in KeyBytes |-> 0] \in [KeyBytes -> Byte]
  BY DEF Byte
<1>2. TypeOK
  BY <1>1, EmptyBytes DEF TypeOK, Words, Nb, Nr
<1>3. KeysMade
  BY WordNumbers DEF KeysMade, Expanded
<1>4. Position
  BY TotalFacts DEF Position, KEYLEN
<1> QED
  BY <1>2, <1>3, <1>4 DEF CipherInvariant

\* The arrays are bytes in any state of the invariant, and the program counter
\* says the rest of the types.
LEMMA TypeOfArrays ==
  ASSUME TypeOK
  PROVE  /\ \A n \in DOMAIN charData : charData[n] \in Byte
         /\ \A n \in DOMAIN buffer : buffer[n] \in Byte
         /\ \A n \in DOMAIN sent : sent[n] \in Byte
BY DEF TypeOK

LEMMA AesEncryptStep ==
  ASSUME CipherInvariant, AesEncrypt
  PROVE  CipherInvariant'
<1>1. /\ pc = "aesEncrypt" /\ pc' = "encrypt" /\ i' = 0 /\ word' = 0 /\ Iv' = <<"iv", 0>>
      /\ charData' = CharData(frame) /\ buffer' = BlockAt(charData', 0)
      /\ UNCHANGED <<frame, RoundKey, round, sent>>
  BY DEF AesEncrypt, Begin
<1>2. TypeOK
  BY DEF CipherInvariant
<1>3. frame \in Frames /\ RoundKey \in [KeyBytes -> Byte]
  BY <1>2 DEF TypeOK
<1>4. /\ Total \in Nat /\ Total % KEYLEN = 0 /\ Total >= KEYLEN
      /\ Plain \in Bytes(Total) /\ Starts(0) = {} /\ Total' = Total /\ Plain' = Plain
  BY <1>1, <1>3, TotalFacts DEF Total, Plain
<1>5. charData' \in Bytes(Total) /\ charData' = Plain
  BY <1>1, <1>4 DEF Plain
<1>6. buffer' \in Bytes16 /\ buffer' \in Bytes(Written(0))
  <2>1. 0 + KEYLEN <= Total
    BY <1>4 DEF KEYLEN
  <2>2. buffer' \in Bytes16
    BY <1>1, <1>4, <1>5, <2>1, BlockOfBytes
  <2> QED
    BY <2>2 DEF Bytes16, Bytes, Written, Block, KEYLEN
<1>7. TypeOK'
  <2>1. \A array \in {charData', buffer', sent'} : \A n \in DOMAIN array : array[n] \in Byte
    BY <1>1, <1>2, <1>4, <1>5, <1>6, TypeOfArrays DEF Bytes, Bytes16
  <2> QED
    BY <1>1, <1>2, <2>1 DEF TypeOK, Words, Nb, Nr
<1>8. KeysMade'
  BY <1>1, WordNumbers DEF KeysMade, Expanded
<1>9. Position'
  BY <1>1, <1>4 DEF Position, KEYLEN
<1>10. Encrypting'
  <2>1. IsCiphertext(RoundKey', frame', buffer', i')
    BY <1>1, <1>4 DEF IsCiphertext
  <2> QED
    BY <1>1, <1>4, <1>5, <1>6, <2>1 DEF Encrypting
<1> QED
  BY <1>1, <1>7, <1>8, <1>9, <1>10 DEF CipherInvariant

LEMMA KeyExpansionStep ==
  ASSUME CipherInvariant, KeyExpansion
  PROVE  CipherInvariant'
<1>1. /\ pc \in {"encrypt", "decrypt"} /\ word < Words /\ word' = word + 1
      /\ RoundKey' = [n \in KeyBytes |-> IF n \div 4 = word THEN KeyByte(key, RoundKey, n) ELSE RoundKey[n]]
      /\ UNCHANGED <<frame, charData, buffer, Iv, i, round, sent, pc>>
  BY DEF KeyExpansion
<1>2. TypeOK /\ KeysMade /\ Position
  BY DEF CipherInvariant
<1>3. frame \in Frames /\ RoundKey \in Keys /\ word \in 0..Words /\ Words \in Nat
  BY <1>2 DEF TypeOK, Keys, Words, Nb, Nr
<1>4. Total' = Total /\ Plain' = Plain
  BY <1>1 DEF Total, Plain
<1>5. \A n \in KeyBytes : n \div 4 \in 0..(Words - 1)
  BY WordNumbers
<1>6. i = 0
  BY <1>1, <1>2, <1>3 DEF KeysMade, Position
<1>7. RoundKey' \in Keys
  BY <1>1, <1>3, KeyByteTyped DEF Keys
<1>8. TypeOK'
  BY <1>1, <1>2, <1>3, <1>7 DEF TypeOK, Keys
<1>9. Position'
  BY <1>1, <1>2, <1>4 DEF Position
<1>10. CASE pc = "encrypt"
  <2>1. KeysMade'
    <3>1. Expanded = word /\ Expanded' = word + 1
      BY <1>1, <1>10 DEF Expanded
    <3>2. ASSUME NEW n \in KeyBytes, n \div 4 < word + 1
          PROVE  RoundKey'[n] = KeyByte(key, RoundKey', n)
      <4>1. n \div 4 <= word
        BY <1>3, <1>5, <3>2
      <4>2. \A m \in KeyBytes : m \div 4 < n \div 4 => RoundKey'[m] = RoundKey[m]
        BY <1>1, <1>3, <1>5, <4>1
      <4>3. KeyByte(key, RoundKey', n) = KeyByte(key, RoundKey, n)
        BY <4>2, KeyByteFromBefore
      <4>4. CASE n \div 4 = word
        BY <1>1, <4>3, <4>4
      <4>5. CASE n \div 4 # word
        <5>1. n \div 4 < Expanded
          BY <1>3, <1>5, <3>1, <4>1, <4>5
        <5>2. RoundKey[n] = KeyByte(key, RoundKey, n)
          BY <1>2, <5>1 DEF KeysMade
        <5> QED
          BY <1>1, <4>3, <4>5, <5>2
      <4> QED
        BY <4>4, <4>5
    <3> QED
      BY <1>1, <1>6, <1>10, <3>1, <3>2 DEF KeysMade
  <2>2. Encrypting'
    <3>1. Encrypting
      BY <1>10 DEF CipherInvariant
    <3>2. IsCiphertext(RoundKey', frame', buffer', i')
      BY <1>1, <1>6 DEF IsCiphertext, Starts
    <3> QED
      BY <1>1, <1>4, <1>10, <3>1, <3>2 DEF Encrypting
  <2> QED
    BY <1>1, <1>8, <1>9, <1>10, <2>1, <2>2 DEF CipherInvariant
<1>11. CASE pc = "decrypt"
  <2>1. RoundKey' = RoundKey
    <3>1. \A n \in KeyBytes : RoundKey[n] = KeyByte(key, RoundKey, n)
      BY <1>2, <1>5, <1>11, <1>3 DEF KeysMade, Expanded
    <3>2. RoundKey = [n \in KeyBytes |-> RoundKey[n]]
      BY <1>3 DEF Keys
    <3> QED
      BY <1>1, <3>1, <3>2
  <2>2. KeysMade'
    BY <1>1, <1>2, <1>6, <1>11, <2>1 DEF KeysMade, Expanded
  <2>3. Sent /\ Decrypting
    BY <1>11 DEF CipherInvariant
  <2>4. Sent'
    BY <1>1, <1>4, <2>1, <2>3 DEF Sent
  <2>5. Decrypting'
    BY <1>1, <1>4, <1>11, <2>1, <2>3 DEF Decrypting
  <2> QED
    BY <1>1, <1>8, <1>9, <1>11, <2>2, <2>4, <2>5 DEF CipherInvariant
<1> QED
  BY <1>1, <1>10, <1>11

\* What holds of the arrays in the middle of the encryption.
LEMMA EncryptingFacts ==
  ASSUME CipherInvariant, pc \in {"encrypt", "Cipher"}
  PROVE  /\ TypeOK /\ KeysMade /\ Position /\ Encrypting
         /\ frame \in Frames /\ RoundKey \in Keys
         /\ Total \in Nat /\ Total % KEYLEN = 0 /\ Total >= KEYLEN /\ Plain \in Bytes(Total)
         /\ i \in Nat /\ i % KEYLEN = 0 /\ i <= Total /\ (i # 0 => i - KEYLEN \in Nat)
         /\ (i < Total => i + KEYLEN <= Total)
         /\ Written(i) \in Nat /\ Written(i + KEYLEN) = i + KEYLEN
         /\ (IF i + KEYLEN <= Written(i) THEN Written(i) ELSE i + KEYLEN) = i + KEYLEN
         /\ i <= Written(i)
         /\ length = Total
<1>1. TypeOK /\ KeysMade /\ Position /\ Encrypting
  BY DEF CipherInvariant
<1>2. frame \in Frames /\ RoundKey \in Keys
  BY <1>1 DEF TypeOK, Keys
<1>3. Total \in Nat /\ Total % KEYLEN = 0 /\ Total >= KEYLEN /\ Plain \in Bytes(Total)
  BY <1>2, TotalFacts
<1>4. i \in Nat /\ i % KEYLEN = 0 /\ i <= Total
  BY <1>1, <1>3 DEF Position
<1>5. (i # 0 => i - KEYLEN \in Nat) /\ (i < Total => i + KEYLEN <= Total)
  BY <1>3, <1>4, NextStart
<1>6. /\ Written(i) \in Nat /\ Written(i + KEYLEN) = i + KEYLEN
      /\ (IF i + KEYLEN <= Written(i) THEN Written(i) ELSE i + KEYLEN) = i + KEYLEN
      /\ i <= Written(i)
  BY <1>4 DEF Written, KEYLEN
<1>7. length = Total
  BY <1>1, <1>3, LengthOfBytes DEF length, Encrypting, Bytes
<1> QED
  BY <1>1, <1>2, <1>3, <1>4, <1>5, <1>6, <1>7

LEMMA EncryptBlockStep ==
  ASSUME CipherInvariant, EncryptBlock
  PROVE  CipherInvariant'
<1> DEFINE x == InputOf(frame, buffer, i)
           first == AddRoundKey(x, 0, RoundKey)
<1>1. /\ pc = "encrypt" /\ word = Words /\ i < length /\ round' = 1 /\ pc' = "Cipher"
      /\ charData' = Put(charData, i, XorBlock(BlockAt(charData, i), IvBlock))
      /\ buffer' = Put(buffer, i, AddRoundKey(XorBlock(BlockAt(charData, i), IvBlock), 0, RoundKey))
      /\ UNCHANGED <<frame, RoundKey, word, Iv, i, sent>>
  BY DEF EncryptBlock
<1>2. /\ TypeOK /\ KeysMade /\ Position /\ Encrypting
      /\ frame \in Frames /\ RoundKey \in Keys
      /\ Total \in Nat /\ Plain \in Bytes(Total)
      /\ i \in Nat /\ i % KEYLEN = 0 /\ i < Total /\ (i # 0 => i - KEYLEN \in Nat)
      /\ i + KEYLEN <= Total
      /\ Written(i) \in Nat /\ Written(i + KEYLEN) = i + KEYLEN
      /\ (IF i + KEYLEN <= Written(i) THEN Written(i) ELSE i + KEYLEN) = i + KEYLEN
      /\ i <= Written(i)
  BY <1>1, EncryptingFacts
<1>3. Total' = Total /\ Plain' = Plain
  BY <1>1 DEF Total, Plain
<1>4. /\ charData \in Bytes(Total) /\ \A n \in i..(Total - 1) : charData[n] = Plain[n]
      /\ buffer \in Bytes(Written(i)) /\ IsCiphertext(RoundKey, frame, buffer, i)
      /\ Iv = IF i = 0 THEN <<"iv", 0>> ELSE <<"buffer", i - KEYLEN>>
  BY <1>1, <1>2 DEF Encrypting
<1>5. IvBlock = Chained(buffer, i)
  <2>1. CASE i = 0
    <3>1. BlockAt(iv, 0) = iv
      <4>1. \A n \in Block : 0 + n = n
        BY DEF Block
      <4>2. iv = [n \in Block |-> iv[n]]
        BY KeyAssumption
      <4> QED
        BY <4>1, <4>2 DEF BlockAt
    <3> QED
      BY <1>4, <2>1, <3>1 DEF IvBlock, Chained
  <2>2. CASE i # 0
    BY <1>4, <2>2 DEF IvBlock, Chained
  <2> QED
    BY <2>1, <2>2
<1>6. BlockAt(charData, i) = BlockAt(CharData(frame), i)
  <2>1. \A n \in Block : i + n \in i..(Total - 1)
    BY <1>2 DEF Block, KEYLEN
  <2> QED
    BY <1>4, <2>1 DEF BlockAt, Plain
<1>7. XorBlock(BlockAt(charData, i), IvBlock) = x
  BY <1>5, <1>6 DEF InputOf
<1>8. x \in Bytes16 /\ first \in Bytes16
  <2>1. x \in Bytes16
    BY <1>2, <1>4, InputBytes DEF Total
  <2>2. 0 \in 0..Nr
    BY DEF Nr
  <2> QED
    BY <1>2, <2>1, <2>2, KeyTwice
<1>9. charData' = Put(charData, i, x) /\ buffer' = Put(buffer, i, first)
  BY <1>1, <1>7
<1> HIDE DEF x, first
<1>10. /\ charData' \in Bytes(Total)
       /\ \A n \in (i + KEYLEN)..(Total - 1) : charData'[n] = Plain[n]
  <2>1. /\ charData' \in Bytes(Total)
        /\ \A n \in 0..(Total - 1) : n < i \/ n >= i + KEYLEN => charData'[n] = charData[n]
    BY <1>2, <1>4, <1>8, <1>9, PutBytes
  <2>2. \A n \in (i + KEYLEN)..(Total - 1) :
          n \in 0..(Total - 1) /\ n >= i + KEYLEN /\ n \in i..(Total - 1)
    BY <1>2 DEF KEYLEN
  <2> QED
    BY <1>4, <2>1, <2>2
<1>11. /\ buffer' \in Bytes(i + KEYLEN) /\ BlockAt(buffer', i) = first
       /\ \A n \in Nat : n + KEYLEN <= i => BlockAt(buffer', n) = BlockAt(buffer, n)
  <2>1. i \in 0..Written(i) /\ i + KEYLEN \in Nat
    BY <1>2 DEF KEYLEN
  <2> QED
    BY <1>2, <1>4, <1>8, <1>9, <2>1, PutBytes
<1>12. IsCiphertext(RoundKey, frame, buffer', i) /\ InputOf(frame, buffer', i) = x
  BY <1>2, <1>4, <1>11, CiphertextKept DEF x
<1>13. TypeOK'
  <2>1. \A array \in {charData', buffer', sent'} : \A n \in DOMAIN array : array[n] \in Byte
    BY <1>1, <1>2, <1>10, <1>11, TypeOfArrays DEF Bytes
  <2> QED
    BY <1>1, <1>2, <2>1 DEF TypeOK, Nr
<1>14. KeysMade'
  BY <1>1, <1>2 DEF KeysMade, Expanded
<1>15. Position'
  BY <1>1, <1>2, <1>3 DEF Position
<1>16. Encrypting'
  <2>1. Work' = Rounds(RoundKey, x)[0]
    BY <1>1, <1>11, RoundsValues DEF Work, first
  <2>2. round' \in 1..Nr /\ round' - 1 = 0
    BY <1>1 DEF Nr
  <2>3. Work' = Rounds(RoundKey', InputOf(frame', buffer', i'))[round' - 1]
    BY <1>1, <1>12, <2>1, <2>2
  <2> QED
    BY <1>1, <1>2, <1>3, <1>4, <1>10, <1>11, <1>12, <2>2, <2>3 DEF Encrypting
<1> QED
  BY <1>1, <1>13, <1>14, <1>15, <1>16 DEF CipherInvariant

LEMMA CipherRoundStep ==
  ASSUME CipherInvariant, CipherRound
  PROVE  CipherInvariant'
<1> DEFINE x == InputOf(frame, buffer, i)
           b == RoundOf(RoundKey, Work, round)
<1>1. /\ pc = "Cipher" /\ round < Nr /\ round' = round + 1
      /\ buffer' = Put(buffer, i, b)
      /\ UNCHANGED <<frame, charData, RoundKey, word, Iv, i, sent, pc>>
  BY DEF CipherRound, RoundOf, BeforeLastKey
<1>2. /\ TypeOK /\ KeysMade /\ Position /\ Encrypting
      /\ frame \in Frames /\ RoundKey \in Keys
      /\ Total \in Nat /\ i \in Nat /\ i % KEYLEN = 0 /\ i < Total
      /\ Written(i + KEYLEN) = i + KEYLEN
  BY <1>1, EncryptingFacts DEF Position
<1>3. Total' = Total /\ Plain' = Plain
  BY <1>1 DEF Total, Plain
<1>4. /\ charData \in Bytes(Total) /\ \A n \in (i + KEYLEN)..(Total - 1) : charData[n] = Plain[n]
      /\ buffer \in Bytes(i + KEYLEN) /\ IsCiphertext(RoundKey, frame, buffer, i)
      /\ Iv = IF i = 0 THEN <<"iv", 0>> ELSE <<"buffer", i - KEYLEN>>
      /\ round \in 1..Nr /\ Work = Rounds(RoundKey, x)[round - 1]
  BY <1>1, <1>2 DEF Encrypting
<1>5. x \in Bytes16
  <2>1. i + KEYLEN \in Nat /\ i <= i + KEYLEN
    BY <1>2 DEF KEYLEN
  <2> QED
    BY <1>2, <1>4, <2>1, InputBytes DEF Total
<1> HIDE DEF x
<1>6. round \in 1..(Nr - 1) /\ round - 1 \in 0..(Nr - 1) /\ round \in 0..Nr
  BY <1>1, <1>4 DEF Nr
<1>7. Work \in Bytes16 /\ b \in Bytes16
  BY <1>2, <1>4, <1>5, <1>6, RoundsBytes, RoundBytes
<1>8. b = Rounds(RoundKey, x)[round]
  BY <1>4, <1>6, RoundsValues
<1> HIDE DEF b
<1>9. /\ buffer' \in Bytes(i + KEYLEN) /\ BlockAt(buffer', i) = b
      /\ \A n \in Nat : n + KEYLEN <= i => BlockAt(buffer', n) = BlockAt(buffer, n)
  <2>1. i \in 0..(i + KEYLEN) /\ i + KEYLEN \in Nat
    BY <1>2 DEF KEYLEN
  <2> QED
    BY <1>1, <1>4, <1>7, <2>1, PutBytes
<1>10. IsCiphertext(RoundKey, frame, buffer', i) /\ InputOf(frame, buffer', i) = x
  BY <1>2, <1>4, <1>9, CiphertextKept DEF x
<1>11. TypeOK'
  <2>1. \A array \in {charData', buffer', sent'} : \A n \in DOMAIN array : array[n] \in Byte
    BY <1>1, <1>2, <1>9, TypeOfArrays DEF Bytes
  <2>2. round' \in 0..Nr
    BY <1>1, <1>6 DEF Nr
  <2> QED
    BY <1>1, <1>2, <2>1, <2>2 DEF TypeOK
<1>12. KeysMade' /\ Position'
  BY <1>1, <1>2, <1>3 DEF KeysMade, Expanded, Position
<1>13. Encrypting'
  <2>1. round' \in 1..Nr /\ round' - 1 = round
    BY <1>1, <1>6 DEF Nr
  <2>2. Work' = Rounds(RoundKey', InputOf(frame', buffer', i'))[round' - 1]
    BY <1>1, <1>8, <1>9, <1>10, <2>1 DEF Work
  <2> QED
    BY <1>1, <1>2, <1>3, <1>4, <1>9, <1>10, <2>1, <2>2 DEF Encrypting
<1> QED
  BY <1>1, <1>11, <1>12, <1>13 DEF CipherInvariant

LEMMA LastRoundStep ==
  ASSUME CipherInvariant, LastRound
  PROVE  CipherInvariant'
<1> DEFINE x == InputOf(frame, buffer, i)
           b == AddRoundKey(BeforeLastKey(Work), Nr, RoundKey)
<1>1. /\ pc = "Cipher" /\ round = Nr /\ pc' = "encrypt"
      /\ buffer' = Put(buffer, i, b) /\ Iv' = <<"buffer", i>> /\ i' = i + KEYLEN
      /\ UNCHANGED <<frame, charData, RoundKey, word, round, sent>>
  BY DEF LastRound, BeforeLastKey
<1>2. /\ TypeOK /\ KeysMade /\ Position /\ Encrypting
      /\ frame \in Frames /\ RoundKey \in Keys
      /\ Total \in Nat /\ i \in Nat /\ i % KEYLEN = 0 /\ i < Total /\ i + KEYLEN <= Total
      /\ Written(i + KEYLEN) = i + KEYLEN
  BY <1>1, EncryptingFacts DEF Position
<1>3. Total' = Total /\ Plain' = Plain
  BY <1>1 DEF Total, Plain
<1>4. /\ charData \in Bytes(Total) /\ \A n \in (i + KEYLEN)..(Total - 1) : charData[n] = Plain[n]
      /\ buffer \in Bytes(i + KEYLEN) /\ IsCiphertext(RoundKey, frame, buffer, i)
      /\ Work = Rounds(RoundKey, x)[Nr - 1]
  BY <1>1, <1>2 DEF Encrypting
<1>5. x \in Bytes16
  <2>1. i + KEYLEN \in Nat /\ i <= i + KEYLEN
    BY <1>2 DEF KEYLEN
  <2> QED
    BY <1>2, <1>4, <2>1, InputBytes DEF Total
<1> HIDE DEF x
<1>6. b = CipherOf(RoundKey, x) /\ b \in Bytes16
  BY <1>2, <1>4, <1>5, RoundsBytes DEF CipherOf
<1> HIDE DEF b
<1>7. /\ buffer' \in Bytes(i + KEYLEN) /\ BlockAt(buffer', i) = b
      /\ \A n \in Nat : n + KEYLEN <= i => BlockAt(buffer', n) = BlockAt(buffer, n)
  <2>1. i \in 0..(i + KEYLEN) /\ i + KEYLEN \in Nat
    BY <1>2 DEF KEYLEN
  <2> QED
    BY <1>1, <1>4, <1>6, <2>1, PutBytes
<1>8. IsCiphertext(RoundKey, frame, buffer', i) /\ InputOf(frame, buffer', i) = x
  BY <1>2, <1>4, <1>7, CiphertextKept DEF x
<1>9. IsCiphertext(RoundKey, frame, buffer', i + KEYLEN)
  BY <1>2, <1>6, <1>7, <1>8, NextStart DEF IsCiphertext
<1>10. TypeOK'
  <2>1. \A array \in {charData', buffer', sent'} : \A n \in DOMAIN array : array[n] \in Byte
    BY <1>1, <1>2, <1>7, TypeOfArrays DEF Bytes
  <2>2. i' \in Nat
    BY <1>1, <1>2 DEF KEYLEN
  <2> QED
    BY <1>1, <1>2, <2>1, <2>2 DEF TypeOK
<1>11. KeysMade'
  BY <1>1, <1>2 DEF KeysMade, Expanded
<1>12. Position'
  <2>1. i' \in 0..Total /\ i' % KEYLEN = 0
    BY <1>1, <1>2, NextStart DEF KEYLEN
  <2> QED
    BY <1>1, <1>3, <2>1 DEF Position
<1>13. Encrypting'
  <2>1. Iv' = IF i' = 0 THEN <<"iv", 0>> ELSE <<"buffer", i' - KEYLEN>>
    BY <1>1, <1>2 DEF KEYLEN
  <2> QED
    BY <1>1, <1>2, <1>3, <1>4, <1>7, <1>9, <2>1 DEF Encrypting
<1> QED
  BY <1>1, <1>10, <1>11, <1>12, <1>13 DEF CipherInvariant

LEMMA EncryptedStep ==
  ASSUME CipherInvariant, Encrypted
  PROVE  CipherInvariant'
<1>1. /\ pc = "encrypt" /\ word = Words /\ i >= length /\ pc' = "aesDecrypt"
      /\ sent' = [n \in 0..(length - 1) |-> buffer[n]]
      /\ UNCHANGED <<frame, charData, buffer, RoundKey, word, Iv, i, round>>
  BY DEF Encrypted
<1>2. /\ TypeOK /\ KeysMade /\ Position /\ Encrypting
      /\ Total \in Nat /\ Total >= KEYLEN /\ i = Total /\ length = Total
      /\ Total % KEYLEN = 0
  BY <1>1, EncryptingFacts
<1>3. Total' = Total
  BY <1>1 DEF Total
<1>4. buffer \in Bytes(Total) /\ IsCiphertext(RoundKey, frame, buffer, Total)
  <2>1. Written(Total) = Total
    BY <1>2 DEF Written, KEYLEN
  <2> QED
    BY <1>1, <1>2, <2>1 DEF Encrypting
<1>5. sent' = buffer
  BY <1>1, <1>2, <1>4 DEF Bytes
<1>6. TypeOK'
  BY <1>1, <1>2, <1>5, TypeOfArrays DEF TypeOK
<1>7. KeysMade'
  BY <1>1, <1>2 DEF KeysMade, Expanded
<1>8. Position'
  BY <1>1, <1>2, <1>3 DEF Position
<1>9. Sent'
  BY <1>1, <1>3, <1>4, <1>5 DEF Sent
<1> QED
  BY <1>1, <1>6, <1>7, <1>8, <1>9 DEF CipherInvariant

\* What holds while the frame is sent and decrypted.
LEMMA SentFacts ==
  ASSUME CipherInvariant, pc \in {"aesDecrypt", "decrypt", "InvCipher", "done"}
  PROVE  /\ TypeOK /\ KeysMade /\ Position /\ Sent
         /\ frame \in Frames /\ RoundKey \in Keys
         /\ Total \in Nat /\ Total % KEYLEN = 0 /\ Total >= KEYLEN /\ Plain \in Bytes(Total)
         /\ i \in Nat /\ i % KEYLEN = 0 /\ i <= Total /\ (i # 0 => i - KEYLEN \in Nat)
         /\ (i < Total => i + KEYLEN <= Total)
         /\ Written(i) \in Nat /\ Written(i + KEYLEN) = i + KEYLEN
         /\ (IF i + KEYLEN <= Written(i) THEN Written(i) ELSE i + KEYLEN) = i + KEYLEN
         /\ i <= Written(i)
         /\ sent \in Bytes(Total) /\ IsCiphertext(RoundKey, frame, sent, Total)
<1>1. TypeOK /\ KeysMade /\ Position /\ Sent
  BY DEF CipherInvariant
<1>2. frame \in Frames /\ RoundKey \in Keys
  BY <1>1 DEF TypeOK, Keys
<1>3. Total \in Nat /\ Total % KEYLEN = 0 /\ Total >= KEYLEN /\ Plain \in Bytes(Total)
  BY <1>2, TotalFacts
<1>4. i \in Nat /\ i % KEYLEN = 0 /\ i <= Total
  BY <1>1, <1>3 DEF Position
<1>5. (i # 0 => i - KEYLEN \in Nat) /\ (i < Total => i + KEYLEN <= Total)
  BY <1>3, <1>4, NextStart
<1>6. /\ Written(i) \in Nat /\ Written(i + KEYLEN) = i + KEYLEN
      /\ (IF i + KEYLEN <= Written(i) THEN Written(i) ELSE i + KEYLEN) = i + KEYLEN
      /\ i <= Written(i)
  BY <1>4 DEF Written, KEYLEN
<1> QED
  BY <1>1, <1>2, <1>3, <1>4, <1>5, <1>6 DEF Sent

\* The block that InvCipher gets at i: made by Cipher of its input.
LEMMA SentBlock ==
  ASSUME CipherInvariant, pc \in {"decrypt", "InvCipher"}, i < Total
  PROVE  /\ BlockAt(sent, i) = CipherOf(RoundKey, InputOf(frame, sent, i))
         /\ InputOf(frame, sent, i) \in Bytes16
         /\ XorBlock(InputOf(frame, sent, i), Chained(sent, i)) = BlockAt(Plain, i)
         /\ \A r \in 0..(Nr - 1) : Rounds(RoundKey, InputOf(frame, sent, i))[r] \in Bytes16
         /\ length = Total
<1>1. /\ frame \in Frames /\ RoundKey \in Keys /\ Total \in Nat /\ i \in Nat /\ i % KEYLEN = 0
      /\ sent \in Bytes(Total) /\ IsCiphertext(RoundKey, frame, sent, Total)
  BY SentFacts
<1>2. i \in Starts(Total)
  BY <1>1 DEF Starts
<1>3. /\ InputOf(frame, sent, i) \in Bytes16
      /\ XorBlock(InputOf(frame, sent, i), Chained(sent, i)) = BlockAt(Plain, i)
  <2>1. i <= Total
    BY <1>1
  <2> QED
    BY <1>1, <2>1, InputBytes DEF Total, Plain
<1>4. length = Total
  <2>1. charData \in Bytes(Total)
    BY <1>1 DEF CipherInvariant, Decrypting
  <2> QED
    BY <1>1, <2>1, LengthOfBytes DEF Bytes, length
<1> QED
  BY <1>1, <1>2, <1>3, <1>4, RoundsBytes DEF IsCiphertext

LEMMA AesDecryptStep ==
  ASSUME CipherInvariant, AesDecrypt
  PROVE  CipherInvariant'
<1>1. /\ pc = "aesDecrypt" /\ pc' = "decrypt" /\ i' = 0 /\ word' = 0 /\ Iv' = <<"iv", 0>>
      /\ charData' = CharData(sent) /\ buffer' = BlockAt(charData', 0)
      /\ UNCHANGED <<frame, RoundKey, round, sent>>
  BY DEF AesDecrypt, Begin
<1>2. /\ TypeOK /\ KeysMade /\ Position /\ Sent
      /\ Total \in Nat /\ Total % KEYLEN = 0 /\ Total >= KEYLEN
      /\ sent \in Bytes(Total)
  BY <1>1, SentFacts
<1>3. Total' = Total /\ Plain' = Plain
  BY <1>1 DEF Total, Plain
<1>4. charData' = sent
  BY <1>1, <1>2, CharDataOfBytes
<1>5. buffer' \in Bytes16 /\ buffer' \in Bytes(Written(0))
  <2>1. 0 + KEYLEN <= Total
    BY <1>2 DEF KEYLEN
  <2>2. buffer' \in Bytes16
    BY <1>1, <1>2, <1>4, <2>1, BlockOfBytes
  <2> QED
    BY <2>2 DEF Bytes16, Bytes, Written, Block, KEYLEN
<1>6. TypeOK'
  <2>1. \A array \in {charData', buffer', sent'} : \A n \in DOMAIN array : array[n] \in Byte
    BY <1>1, <1>2, <1>4, <1>5, TypeOfArrays DEF Bytes16
  <2> QED
    BY <1>1, <1>2, <2>1 DEF TypeOK, Words, Nb, Nr
<1>7. KeysMade'
  BY <1>1, <1>2 DEF KeysMade, Expanded
<1>8. Position'
  BY <1>1, <1>2, <1>3 DEF Position, KEYLEN
<1>9. Sent'
  BY <1>1, <1>2, <1>3 DEF Sent
<1>10. Decrypting'
  BY <1>1, <1>3, <1>4, <1>5 DEF Decrypting
<1> QED
  BY <1>1, <1>6, <1>7, <1>8, <1>9, <1>10 DEF CipherInvariant

LEMMA DecryptBlockStep ==
  ASSUME CipherInvariant, DecryptBlock
  PROVE  CipherInvariant'
<1> DEFINE x == InputOf(frame, sent, i)
           b == AddRoundKey(BlockAt(charData, i), Nr, RoundKey)
<1>1. /\ pc = "decrypt" /\ word = Words /\ i < length /\ round' = Nr - 1 /\ pc' = "InvCipher"
      /\ buffer' = Put(buffer, i, b)
      /\ UNCHANGED <<frame, charData, RoundKey, word, Iv, i, sent>>
  BY DEF DecryptBlock
<1>2. /\ TypeOK /\ KeysMade /\ Position /\ Sent
      /\ frame \in Frames /\ RoundKey \in Keys
      /\ Total \in Nat /\ i \in Nat /\ i % KEYLEN = 0 /\ i <= Total
      /\ Written(i) \in Nat /\ Written(i + KEYLEN) = i + KEYLEN
      /\ (IF i + KEYLEN <= Written(i) THEN Written(i) ELSE i + KEYLEN) = i + KEYLEN
      /\ i <= Written(i) /\ sent \in Bytes(Total)
  BY <1>1, SentFacts
<1>3. Total' = Total /\ Plain' = Plain
  BY <1>1 DEF Total, Plain
<1>4. /\ charData = sent /\ buffer \in Bytes(Written(i))
      /\ \A n \in 0..(i - 1) : buffer[n] = Plain[n]
      /\ Iv = IF i = 0 THEN <<"iv", 0>> ELSE <<"charData", i - KEYLEN>>
  BY <1>1 DEF CipherInvariant, Decrypting
<1>5. i < Total
  BY <1>1, <1>2, <1>4, LengthOfBytes DEF length, Bytes
<1>6. /\ BlockAt(sent, i) = CipherOf(RoundKey, x)
      /\ Rounds(RoundKey, x)[Nr - 1] \in Bytes16
  BY <1>1, <1>5, SentBlock DEF Nr
<1>7. b = BeforeLastKey(Rounds(RoundKey, x)[Nr - 1]) /\ b \in Bytes16
  <2>1. BeforeLastKey(Rounds(RoundKey, x)[Nr - 1]) \in Bytes16
    BY <1>6, StepBytes
  <2>2. Nr \in 0..Nr
    BY DEF Nr
  <2> QED
    BY <1>2, <1>4, <1>6, <2>1, <2>2, KeyTwice DEF CipherOf
<1> HIDE DEF x, b
<1>8. /\ buffer' \in Bytes(i + KEYLEN) /\ BlockAt(buffer', i) = b
      /\ \A n \in 0..(i - 1) : buffer'[n] = Plain[n]
  <2>1. i \in 0..Written(i) /\ i + KEYLEN \in Nat
    BY <1>2 DEF KEYLEN
  <2>2. /\ buffer' \in Bytes(i + KEYLEN) /\ BlockAt(buffer', i) = b
        /\ \A n \in 0..(Written(i) - 1) : n < i => buffer'[n] = buffer[n]
    BY <1>1, <1>2, <1>4, <1>7, <2>1, PutBytes
  <2>3. \A n \in 0..(i - 1) : n \in 0..(Written(i) - 1) /\ n < i
    BY <1>2
  <2> QED
    BY <1>4, <2>2, <2>3
<1>9. TypeOK'
  <2>1. \A array \in {charData', buffer', sent'} : \A n \in DOMAIN array : array[n] \in Byte
    BY <1>1, <1>2, <1>8, TypeOfArrays DEF Bytes
  <2> QED
    BY <1>1, <1>2, <2>1 DEF TypeOK, Nr
<1>10. KeysMade'
  BY <1>1, <1>2 DEF KeysMade, Expanded
<1>11. Position' /\ Sent'
  BY <1>1, <1>2, <1>3, <1>5 DEF Position, Sent
<1>12. Decrypting'
  <2>1. round' \in 0..(Nr - 1)
    BY <1>1 DEF Nr
  <2>2. Work' = BeforeLastKey(Rounds(RoundKey', InputOf(frame', sent', i'))[round'])
    BY <1>1, <1>7, <1>8 DEF Work, x
  <2> QED
    BY <1>1, <1>2, <1>3, <1>4, <1>8, <2>1, <2>2 DEF Decrypting
<1> QED
  BY <1>1, <1>9, <1>10, <1>11, <1>12 DEF CipherInvariant

\* What holds of the block in work in InvCipher.
LEMMA InvCipherFacts ==
  ASSUME CipherInvariant, pc = "InvCipher"
  PROVE  /\ i < Total /\ charData = sent /\ buffer \in Bytes(i + KEYLEN)
         /\ \A n \in 0..(i - 1) : buffer[n] = Plain[n]
         /\ Iv = IF i = 0 THEN <<"iv", 0>> ELSE <<"charData", i - KEYLEN>>
         /\ round \in 0..(Nr - 1)
         /\ Rounds(RoundKey, InputOf(frame, sent, i))[round] \in Bytes16
         /\ InvSubBytes(InvShiftRows(Work)) = Rounds(RoundKey, InputOf(frame, sent, i))[round]
<1>1. i < Total /\ Decrypting /\ Written(i + KEYLEN) = i + KEYLEN
  BY SentFacts DEF CipherInvariant, Position
<1>2. /\ charData = sent /\ buffer \in Bytes(i + KEYLEN)
      /\ \A n \in 0..(i - 1) : buffer[n] = Plain[n]
      /\ Iv = IF i = 0 THEN <<"iv", 0>> ELSE <<"charData", i - KEYLEN>>
      /\ round \in 0..(Nr - 1)
      /\ Work = BeforeLastKey(Rounds(RoundKey, InputOf(frame, sent, i))[round])
  BY <1>1 DEF Decrypting
<1>3. Rounds(RoundKey, InputOf(frame, sent, i))[round] \in Bytes16
  BY <1>1, <1>2, SentBlock
<1> QED
  BY <1>1, <1>2, <1>3, BeforeLastKeyUndone

\* Writing the block in work leaves the plaintext before it.
LEMMA WorkWritten ==
  ASSUME NEW m \in Nat, NEW array \in Bytes(m + KEYLEN), NEW b \in Bytes16
  PROVE  /\ Put(array, m, b) \in Bytes(m + KEYLEN) /\ BlockAt(Put(array, m, b), m) = b
         /\ \A n \in 0..(m - 1) : Put(array, m, b)[n] = array[n]
<1>1. m \in 0..(m + KEYLEN) /\ m + KEYLEN \in Nat
  BY DEF KEYLEN
<1>2. /\ Put(array, m, b) \in Bytes(m + KEYLEN) /\ BlockAt(Put(array, m, b), m) = b
      /\ \A n \in 0..(m + KEYLEN - 1) : n < m => Put(array, m, b)[n] = array[n]
  BY <1>1, PutBytes
<1>3. \A n \in 0..(m - 1) : n \in 0..(m + KEYLEN - 1) /\ n < m
  BY DEF KEYLEN
<1> QED
  BY <1>2, <1>3

LEMMA InvRoundStep ==
  ASSUME CipherInvariant, InvRound
  PROVE  CipherInvariant'
<1> DEFINE x == InputOf(frame, sent, i)
           b == InvMixColumns(AddRoundKey(InvSubBytes(InvShiftRows(Work)), round, RoundKey))
<1>1. /\ pc = "InvCipher" /\ round > 0 /\ round' = round - 1
      /\ buffer' = Put(buffer, i, b)
      /\ UNCHANGED <<frame, charData, RoundKey, word, Iv, i, sent, pc>>
  BY DEF InvRound
<1>2. /\ TypeOK /\ KeysMade /\ Position /\ Sent
      /\ frame \in Frames /\ RoundKey \in Keys /\ Total \in Nat /\ i \in Nat
      /\ Written(i + KEYLEN) = i + KEYLEN
  BY <1>1, SentFacts
<1>3. Total' = Total /\ Plain' = Plain
  BY <1>1 DEF Total, Plain
<1>4. /\ i < Total /\ charData = sent /\ buffer \in Bytes(i + KEYLEN)
      /\ \A n \in 0..(i - 1) : buffer[n] = Plain[n]
      /\ Iv = IF i = 0 THEN <<"iv", 0>> ELSE <<"charData", i - KEYLEN>>
      /\ round \in 0..(Nr - 1)
      /\ InvSubBytes(InvShiftRows(Work)) = Rounds(RoundKey, x)[round]
  BY <1>1, InvCipherFacts
<1>5. round \in 1..(Nr - 1) /\ round \in 0..Nr /\ round - 1 \in 0..(Nr - 1)
  BY <1>1, <1>4 DEF Nr
<1>6. Rounds(RoundKey, x)[round - 1] \in Bytes16
  BY <1>1, <1>4, <1>5, SentBlock
<1>7. b = BeforeLastKey(Rounds(RoundKey, x)[round - 1]) /\ b \in Bytes16
  <2>1. Rounds(RoundKey, x)[round] = RoundOf(RoundKey, Rounds(RoundKey, x)[round - 1], round)
    BY <1>5, RoundsValues
  <2>2. b = BeforeLastKey(Rounds(RoundKey, x)[round - 1])
    BY <1>2, <1>4, <1>5, <1>6, <2>1, RoundUndone
  <2> QED
    BY <1>6, <2>2, StepBytes
<1> HIDE DEF x, b
<1>8. /\ buffer' \in Bytes(i + KEYLEN) /\ BlockAt(buffer', i) = b
      /\ \A n \in 0..(i - 1) : buffer'[n] = Plain[n]
  BY <1>1, <1>2, <1>4, <1>7, WorkWritten
<1>9. TypeOK'
  <2>1. \A array \in {charData', buffer', sent'} : \A n \in DOMAIN array : array[n] \in Byte
    BY <1>1, <1>2, <1>8, TypeOfArrays DEF Bytes
  <2>2. round' \in 0..Nr
    BY <1>1, <1>5 DEF Nr
  <2> QED
    BY <1>1, <1>2, <2>1, <2>2 DEF TypeOK
<1>10. KeysMade' /\ Position' /\ Sent'
  BY <1>1, <1>2, <1>3 DEF KeysMade, Expanded, Position, Sent
<1>11. Decrypting'
  <2>1. Work' = BeforeLastKey(Rounds(RoundKey', InputOf(frame', sent', i'))[round'])
    BY <1>1, <1>7, <1>8 DEF Work, x
  <2> QED
    BY <1>1, <1>2, <1>3, <1>4, <1>5, <1>8, <2>1 DEF Decrypting
<1> QED
  BY <1>1, <1>9, <1>10, <1>11 DEF CipherInvariant

LEMMA InvLastRoundStep ==
  ASSUME CipherInvariant, InvLastRound
  PROVE  CipherInvariant'
<1> DEFINE x == InputOf(frame, sent, i)
           b == XorBlock(AddRoundKey(InvSubBytes(InvShiftRows(Work)), 0, RoundKey), IvBlock)
<1>1. /\ pc = "InvCipher" /\ round = 0 /\ pc' = "decrypt"
      /\ buffer' = Put(buffer, i, b) /\ Iv' = <<"charData", i>> /\ i' = i + KEYLEN
      /\ UNCHANGED <<frame, charData, RoundKey, word, round, sent>>
  BY DEF InvLastRound
<1>2. /\ TypeOK /\ KeysMade /\ Position /\ Sent
      /\ frame \in Frames /\ RoundKey \in Keys /\ Total \in Nat /\ Total % KEYLEN = 0
      /\ Plain \in Bytes(Total)
      /\ i \in Nat /\ i % KEYLEN = 0 /\ (i < Total => i + KEYLEN <= Total)
      /\ Written(i + KEYLEN) = i + KEYLEN
  BY <1>1, SentFacts
<1>3. Total' = Total /\ Plain' = Plain
  BY <1>1 DEF Total, Plain
<1>4. /\ i < Total /\ charData = sent /\ buffer \in Bytes(i + KEYLEN)
      /\ \A n \in 0..(i - 1) : buffer[n] = Plain[n]
      /\ Iv = IF i = 0 THEN <<"iv", 0>> ELSE <<"charData", i - KEYLEN>>
      /\ InvSubBytes(InvShiftRows(Work)) = Rounds(RoundKey, x)[0]
  BY <1>1, InvCipherFacts
<1>5. x \in Bytes16 /\ XorBlock(x, Chained(sent, i)) = BlockAt(Plain, i)
  BY <1>1, <1>4, SentBlock
<1>6. IvBlock = Chained(sent, i)
  <2>1. CASE i = 0
    <3>1. \A n \in Block : 0 + n = n
      BY DEF Block
    <3>2. iv = [n \in Block |-> iv[n]]
      BY KeyAssumption
    <3>3. BlockAt(iv, 0) = iv
      BY <3>1, <3>2 DEF BlockAt
    <3> QED
      BY <1>4, <2>1, <3>3 DEF IvBlock, Chained
  <2>2. CASE i # 0
    BY <1>4, <2>2 DEF IvBlock, Chained
  <2> QED
    BY <2>1, <2>2
<1>7. b = BlockAt(Plain, i) /\ b \in Bytes16
  <2>1. 0 \in 0..Nr
    BY DEF Nr
  <2>2. AddRoundKey(Rounds(RoundKey, x)[0], 0, RoundKey) = x
    BY <1>2, <1>5, <2>1, RoundsValues, KeyTwice
  <2> QED
    BY <1>2, <1>4, <1>5, <1>6, <2>2, BlockOfBytes
<1> HIDE DEF x, b
<1>8. /\ buffer' \in Bytes(i + KEYLEN) /\ BlockAt(buffer', i) = b
      /\ \A n \in 0..(i - 1) : buffer'[n] = Plain[n]
  BY <1>1, <1>2, <1>4, <1>7, WorkWritten
<1>9. \A n \in 0..(i + KEYLEN - 1) : buffer'[n] = Plain[n]
  <2>1. \A n \in i..(i + KEYLEN - 1) : n - i \in Block /\ i + (n - i) = n
    BY <1>2 DEF Block, KEYLEN
  <2>2. \A c \in Block : buffer'[i + c] = Plain[i + c]
    BY <1>7, <1>8 DEF BlockAt
  <2>3. \A n \in i..(i + KEYLEN - 1) : buffer'[n] = Plain[n]
    BY <2>1, <2>2
  <2>4. \A n \in 0..(i + KEYLEN - 1) : n \in 0..(i - 1) \/ n \in i..(i + KEYLEN - 1)
    BY <1>2 DEF KEYLEN
  <2> QED
    BY <1>8, <2>3, <2>4
<1>10. i' \in 0..Total /\ i' % KEYLEN = 0 /\ i' \in Nat
  BY <1>1, <1>2, <1>4, NextStart DEF KEYLEN
<1>11. TypeOK'
  <2>1. \A array \in {charData', buffer', sent'} : \A n \in DOMAIN array : array[n] \in Byte
    BY <1>1, <1>2, <1>8, TypeOfArrays DEF Bytes
  <2> QED
    BY <1>1, <1>2, <1>10, <2>1 DEF TypeOK
<1>12. KeysMade'
  BY <1>1, <1>2 DEF KeysMade, Expanded
<1>13. Position' /\ Sent'
  BY <1>1, <1>2, <1>3, <1>10 DEF Position, Sent
<1>14. Decrypting'
  <2>1. i' # 0 /\ i' - KEYLEN = i
    BY <1>1, <1>2 DEF KEYLEN
  <2>2. Iv' = IF i' = 0 THEN <<"iv", 0>> ELSE <<"charData", i' - KEYLEN>>
    BY <1>1, <2>1
  <2> QED
    <3>1. buffer' \in Bytes(Written(i'))
      BY <1>1, <1>2, <1>8
    <3>2. \A n \in 0..(i' - 1) : buffer'[n] = Plain'[n]
      <4>1. i' = i + KEYLEN /\ Plain' = Plain
        BY <1>1, <1>3
      <4> QED
        <5>1. \A n \in 0..(i' - 1) : n \in 0..(i + KEYLEN - 1)
          <6>1. i \in Nat
            BY <1>2
          <6> QED
            BY <4>1, <6>1 DEF KEYLEN
        <5> QED
          BY <1>9, <4>1, <5>1
    <3>3. charData' = sent' /\ pc' = "decrypt"
      BY <1>1, <1>4
    <3> QED
      BY <2>2, <3>1, <3>2, <3>3 DEF Decrypting
<1> QED
  BY <1>1, <1>11, <1>12, <1>13, <1>14 DEF CipherInvariant

LEMMA DecryptedStep ==
  ASSUME CipherInvariant, Decrypted
  PROVE  CipherInvariant'
<1>1. /\ pc = "decrypt" /\ word = Words /\ i >= length /\ pc' = "done"
      /\ UNCHANGED <<frame, charData, buffer, RoundKey, word, Iv, i, round, sent>>
  BY DEF Decrypted
<1>2. TypeOK /\ KeysMade /\ Position /\ Sent /\ Total \in Nat /\ i \in Nat /\ i <= Total
      /\ sent \in Bytes(Total)
  BY <1>1, SentFacts
<1>3. Decrypting
  BY <1>1 DEF CipherInvariant
<1>4. i = Total
  <2>1. length = Total
    BY <1>2, <1>3, LengthOfBytes DEF Decrypting, Bytes, length
  <2> QED
    BY <1>1, <1>2, <2>1
<1>5. Total' = Total /\ Plain' = Plain
  BY <1>1 DEF Total, Plain
<1>6. TypeOK' /\ KeysMade'
  BY <1>1, <1>2 DEF TypeOK, KeysMade, Expanded
<1>7. Position' /\ Sent' /\ Decrypting'
  BY <1>1, <1>2, <1>3, <1>4, <1>5 DEF Position, Sent, Decrypting
<1> QED
  BY <1>1, <1>6, <1>7 DEF CipherInvariant

LEMMA StutterStep ==
  ASSUME CipherInvariant, UNCHANGED vars
  PROVE  CipherInvariant'
<1> USE DEF vars
<1>1. TypeOK' <=> TypeOK
  BY DEF TypeOK
<1>2. (KeysMade' <=> KeysMade) /\ (Position' <=> Position) /\ (Sent' <=> Sent)
  BY DEF KeysMade, Expanded, Position, Sent, Total
<1>3. (Encrypting' <=> Encrypting) /\ (Decrypting' <=> Decrypting)
  BY DEF Encrypting, Decrypting, Total, Plain, Work
<1> QED
  BY <1>1, <1>2, <1>3 DEF CipherInvariant

-----------------------------------------------------------------------------
(* The theorems. *)

\* For every key, initial vector and frame: in both crypto units the round keys
\* are those of the key, the blocks behind are the ciphertext, then the plaintext,
\* and InvCipher passes the states of Cipher in the reverse order.
THEOREM CipherInvariantHolds ==
  Spec => []CipherInvariant
<1>1. Init => CipherInvariant
  BY InitInvariant
<1>2. CipherInvariant /\ [Next]_vars => CipherInvariant'
  <2> SUFFICES ASSUME CipherInvariant, [Next]_vars
               PROVE  CipherInvariant'
    OBVIOUS
  <2>1. CASE AesEncrypt
    BY <2>1, AesEncryptStep
  <2>2. CASE KeyExpansion
    BY <2>2, KeyExpansionStep
  <2>3. CASE EncryptBlock
    BY <2>3, EncryptBlockStep
  <2>4. CASE CipherRound
    BY <2>4, CipherRoundStep
  <2>5. CASE LastRound
    BY <2>5, LastRoundStep
  <2>6. CASE Encrypted
    BY <2>6, EncryptedStep
  <2>7. CASE AesDecrypt
    BY <2>7, AesDecryptStep
  <2>8. CASE DecryptBlock
    BY <2>8, DecryptBlockStep
  <2>9. CASE InvRound
    BY <2>9, InvRoundStep
  <2>10. CASE InvLastRound
    BY <2>10, InvLastRoundStep
  <2>11. CASE Decrypted
    BY <2>11, DecryptedStep
  <2>12. CASE UNCHANGED vars
    BY <2>12, StutterStep
  <2> QED
    BY <2>1, <2>2, <2>3, <2>4, <2>5, <2>6, <2>7, <2>8, <2>9, <2>10, <2>11, <2>12 DEF Next
<1> QED
  BY <1>1, <1>2, PTL DEF Spec

\* The variables of aes.cpp keep their types, and no array ever holds more than
\* a byte in an element.
THEOREM CipherTypesCorrect ==
  Spec => []TypeOK
<1>1. CipherInvariant => TypeOK
  BY DEF CipherInvariant
<1> QED
  BY <1>1, CipherInvariantHolds, PTL

\* What aesEncrypt makes of a frame, aesDecrypt turns back into it, padded with
\* zeros, whatever the key, the initial vector, the frame and its length.
THEOREM FramesComeBack ==
  Spec => []RoundTrip
<1>1. ASSUME CipherInvariant, pc = "done"
      PROVE  buffer = CharData(frame)
  <2>1. /\ Total \in Nat /\ Total >= KEYLEN /\ Plain \in Bytes(Total) /\ i = Total
    BY <1>1, SentFacts DEF Position
  <2>2. buffer \in Bytes(Written(i)) /\ \A n \in 0..(i - 1) : buffer[n] = Plain[n]
    BY <1>1 DEF CipherInvariant, Decrypting
  <2>3. Written(i) = Total
    BY <2>1 DEF Written, KEYLEN
  <2> QED
    BY <2>1, <2>2, <2>3 DEF Bytes, Plain
<1>2. CipherInvariant => RoundTrip
  BY <1>1 DEF RoundTrip
<1> QED
  BY <1>2, CipherInvariantHolds, PTL

LEMMA CipherRoundMixes ==
  ASSUME CipherInvariant, CipherRound
  PROVE  AddRoundKey(BlockAt(buffer', i), round, RoundKey) = StandardMix(ShiftRows(SubBytes(Work)))
<1>1. /\ pc = "Cipher" /\ round < Nr
      /\ buffer' = Put(buffer, i, RoundOf(RoundKey, Work, round))
  BY DEF CipherRound, RoundOf, BeforeLastKey
<1>2. /\ frame \in Frames /\ RoundKey \in Keys /\ i \in Nat /\ i % KEYLEN = 0 /\ i < Total
      /\ Written(i + KEYLEN) = i + KEYLEN /\ Encrypting
  BY <1>1, EncryptingFacts DEF Position
<1>3. /\ buffer \in Bytes(i + KEYLEN) /\ round \in 1..Nr
      /\ Work = Rounds(RoundKey, InputOf(frame, buffer, i))[round - 1]
  BY <1>1, <1>2 DEF Encrypting
<1>4. round \in 0..Nr /\ round - 1 \in 0..(Nr - 1)
  BY <1>1, <1>3 DEF Nr
<1>5. Work \in Bytes16
  <2>1. i + KEYLEN \in Nat /\ i <= i + KEYLEN
    BY <1>2 DEF KEYLEN
  <2>2. InputOf(frame, buffer, i) \in Bytes16
    BY <1>2, <1>3, <2>1, InputBytes DEF Total
  <2> QED
    BY <1>2, <1>3, <1>4, <2>2, RoundsBytes
<1>6. BlockAt(buffer', i) = RoundOf(RoundKey, Work, round)
  BY <1>1, <1>2, <1>3, <1>4, <1>5, RoundBytes, WorkWritten
<1>7. AddRoundKey(BlockAt(buffer', i), round, RoundKey) = MixColumns(BeforeLastKey(Work))
  BY <1>2, <1>4, <1>5, <1>6, RoundUndone
<1> QED
  BY <1>5, <1>7, StepBytes, MixIsStandard DEF BeforeLastKey

LEMMA InvRoundMixes ==
  ASSUME CipherInvariant, InvRound
  PROVE  StandardMix(BlockAt(buffer', i))
           = AddRoundKey(InvSubBytes(InvShiftRows(Work)), round, RoundKey)
<1> DEFINE T == Rounds(RoundKey, InputOf(frame, sent, i))
           mixed == AddRoundKey(InvSubBytes(InvShiftRows(Work)), round, RoundKey)
<1>1. pc = "InvCipher" /\ round > 0 /\ buffer' = Put(buffer, i, InvMixColumns(mixed))
  BY DEF InvRound
<1>2. RoundKey \in Keys /\ i \in Nat
  BY <1>1, SentFacts
<1>3. /\ buffer \in Bytes(i + KEYLEN) /\ round \in 0..(Nr - 1) /\ i < Total
      /\ InvSubBytes(InvShiftRows(Work)) = T[round]
  BY <1>1, InvCipherFacts
<1>4. round \in 1..(Nr - 1) /\ round \in 0..Nr /\ round - 1 \in 0..(Nr - 1)
  BY <1>1, <1>3 DEF Nr
<1>5. T[round] = RoundOf(RoundKey, T[round - 1], round)
  BY <1>4, RoundsValues
<1>6. T[round - 1] \in Bytes16
  BY <1>1, <1>3, <1>4, SentBlock
<1> HIDE DEF T
<1>7. mixed = MixColumns(BeforeLastKey(T[round - 1]))
  BY <1>2, <1>3, <1>4, <1>5, <1>6, RoundUndone
<1> HIDE DEF mixed
<1>8. BeforeLastKey(T[round - 1]) \in Bytes16
  BY <1>6, StepBytes
<1>9. InvMixColumns(mixed) = BeforeLastKey(T[round - 1])
  BY <1>7, <1>8, MixUndone
<1>10. BlockAt(buffer', i) = BeforeLastKey(T[round - 1])
  BY <1>1, <1>2, <1>3, <1>8, <1>9, WorkWritten
<1> QED
  BY <1>7, <1>8, <1>10, MixIsStandard DEF mixed

\* In every round of both directions, MixColumns and InvMixColumns are the
\* multiplication of the standard and its inverse, with every key and block.
THEOREM MixesCorrect ==
  Spec => MixesAsStandard
<1>1. ASSUME CipherInvariant, [Next]_vars
      PROVE  [/\ CipherRound =>
                   AddRoundKey(BlockAt(buffer', i), round, RoundKey) = StandardMix(ShiftRows(SubBytes(Work)))
              /\ InvRound =>
                   StandardMix(BlockAt(buffer', i))
                     = AddRoundKey(InvSubBytes(InvShiftRows(Work)), round, RoundKey)]_vars
  BY <1>1, CipherRoundMixes, InvRoundMixes
<1> QED
  BY <1>1, CipherInvariantHolds, PTL DEF Spec, MixesAsStandard

=============================================================================
