------------------------------ MODULE NalProofs ------------------------------
(***************************************************************************)
(* Proofs about the scanner: for every set of plain videos, whatever their *)
(* bytes and their lengths, and for a buffer of any length, its invariant  *)
(* holds, it implements the abstract reader, and it leaves its buffer just *)
(* where a frame of the video is too long for it.                          *)
(***************************************************************************)
EXTENDS NalProps, SequenceTheorems, FiniteSetTheorems, TLAPS

PlainFiles == \A f \in Files : Plain(f)

-----------------------------------------------------------------------------
(* Start codes. *)

LEMMA CodesApart ==
  ASSUME NEW f, NEW p \in Int, NEW q \in Int, CodeAt(f, p), CodeAt(f, q), p < q
  PROVE  p + 4 =< q
<1>1. q = p + 1 \/ q = p + 2 \/ q = p + 3 => FALSE
  BY DEF CodeAt
<1>. QED  BY <1>1

LEMMA LastUnique ==
  ASSUME NEW f, Len(f) \in Nat, NEW n \in Nat, NEW u \in Int, NEW v \in Int,
         LastCode(f, n, u), LastCode(f, n, v)
  PROVE  u = v
<1>1. u - 4 \in Codes(f) /\ v - 4 \in Codes(f)
  BY DEF LastCode, Codes
<1>2. \A a, b \in Int : LastCode(f, n, a) /\ LastCode(f, n, b) /\ a - 4 \in Codes(f)
                         /\ b - 4 \in Codes(f) => a =< b
  BY DEF LastCode
<1>. QED  BY <1>1, <1>2

\* What one more byte does to the last start code.
LEMMA LastAdvances ==
  ASSUME NEW f, Len(f) \in Nat, NEW n \in 0..(Len(f) - 1), NEW u \in Int, LastCode(f, n, u)
  PROVE  /\ n >= 3 /\ CodeAt(f, n - 3) => LastCode(f, n + 1, n + 1)
         /\ ~(n >= 3 /\ CodeAt(f, n - 3)) => LastCode(f, n + 1, u)
BY DEF LastCode, Codes

\* With the zeros in front of it counted, a byte completes a separation just
\* when it completes a start code.
LEMMA SeparationIsCode ==
  ASSUME NEW f, Len(f) \in Nat, Plain(f), NEW n \in 0..(Len(f) - 1), NEW z \in 0..n,
         \A p \in (n - z + 1)..n : f[p] = 0,
         z < n => f[n - z] # 0
  PROVE  f[n + 1] # 0 /\ IsSeparation(f[n + 1], z + 1) <=> n >= 3 /\ CodeAt(f, n - 3)
<1>1. ASSUME IsSeparation(f[n + 1], z + 1) PROVE n >= 3 /\ CodeAt(f, n - 3)
  <2>1. f[n] = 0 /\ f[n - 1] = 0 /\ f[n + 1] \in {1, 2, 3} /\ n >= 2
    BY <1>1 DEF IsSeparation
  <2>2. LooksLikeCode(f, n - 2) /\ n - 2 \in 0..Len(f)
    BY <2>1 DEF LooksLikeCode
  <2>. QED  BY <2>2 DEF Plain
<1>2. ASSUME n >= 3, CodeAt(f, n - 3) PROVE f[n + 1] # 0 /\ IsSeparation(f[n + 1], z + 1)
  <2>1. f[n + 1] = 1 /\ f[n] = 0 /\ f[n - 1] = 0 /\ f[n - 2] = 0
    BY <1>2 DEF CodeAt
  <2>2. z # 0 /\ z # 1
    BY <1>2, <2>1
  <2>. QED  BY <2>1, <2>2 DEF IsSeparation
<1>. QED  BY <1>1, <1>2

LEMMA UnitOfIs ==
  ASSUME NEW f, Len(f) \in Nat, NEW n \in Nat, NEW u \in Int, LastCode(f, n, u)
  PROVE  UnitOf(f, n) = u
<1>1. u \in 4..Len(f)
  BY DEF LastCode
<1>2. UnitOf(f, n) \in 4..Len(f) /\ LastCode(f, n, UnitOf(f, n))
  BY <1>1 DEF UnitOf
<1>. QED  BY <1>1, <1>2, LastUnique

-----------------------------------------------------------------------------
(* How much of the video is in the buffer. *)

LEMMA FrameUnique ==
  ASSUME NEW f, Len(f) \in Nat, NEW n \in Nat, NEW v \in Int, NEW w \in Int,
         LastFrame(f, n, v), LastFrame(f, n, w)
  PROVE  v = w
<1>1. \A a, b \in Int : LastFrame(f, n, a) /\ LastFrame(f, n, b) => ~(a < b)
  BY DEF LastFrame, FrameAt
<1>. QED  BY <1>1

LEMMA FrameOfIs ==
  ASSUME NEW f, Len(f) \in Nat, NEW n \in Nat, NEW w \in Int, LastFrame(f, n, w)
  PROVE  FrameOf(f, n) = w
<1>1. w \in 4..Len(f)
  BY DEF LastFrame, FrameAt
<1>2. FrameOf(f, n) \in 4..Len(f) /\ LastFrame(f, n, FrameOf(f, n))
  BY <1>1 DEF FrameOf
<1>. QED  BY <1>1, <1>2, FrameUnique

\* The first frame begins behind the first start code.
LEMMA FirstFrame ==
  ASSUME NEW f, Len(f) \in Nat, CodeAt(f, 0), NEW n \in 0..4
  PROVE  LastFrame(f, n, 4)
BY DEF LastFrame, FrameAt, CodeAt

\* What one more byte does to the last frame.
LEMMA FrameAdvances ==
  ASSUME NEW f, Len(f) \in Nat, NEW n \in 4..(Len(f) - 1), NEW u \in Int, NEW w \in Int,
         LastCode(f, n, u), LastFrame(f, n, w)
  PROVE  /\ CodeAt(f, n - 3) /\ f[u + 1] % 32 \in 1..6 => LastFrame(f, n + 1, n + 1)
         /\ ~(CodeAt(f, n - 3) /\ f[u + 1] % 32 \in 1..6) => LastFrame(f, n + 1, w)
<1>1. UnitOf(f, n) = u
  BY UnitOfIs
<1>2. FrameAt(f, n + 1) <=> CodeAt(f, n - 3) /\ f[u + 1] % 32 \in 1..6
  BY <1>1 DEF FrameAt
<1>3. /\ FrameAt(f, w) /\ w \in 4..n
      /\ \A v \in (w + 1)..(n + 1) : v # n + 1 => ~FrameAt(f, v)
  BY DEF LastFrame, FrameAt
<1>4. ASSUME FrameAt(f, n + 1) PROVE LastFrame(f, n + 1, n + 1)
  BY <1>4 DEF LastFrame
<1>5. ASSUME ~FrameAt(f, n + 1) PROVE LastFrame(f, n + 1, w)
  BY <1>3, <1>5 DEF LastFrame
<1>. QED  BY <1>2, <1>4, <1>5

LEMMA CodesInFinite ==
  ASSUME NEW f, Len(f) \in Nat, NEW w \in Int, NEW n \in Int
  PROVE  IsFiniteSet(CodesIn(f, w, n)) /\ Cardinality(CodesIn(f, w, n)) \in Nat
<1>1. CodesIn(f, w, n) \subseteq 0..Len(f) /\ IsFiniteSet(0..Len(f))
  BY FS_Interval DEF CodesIn, Codes
<1>2. IsFiniteSet(CodesIn(f, w, n))
  BY <1>1, FS_Subset
<1>. QED  BY <1>2, FS_CardinalityType

\* What one more byte does to the start codes inside the frame.
LEMMA CodesAdvance ==
  ASSUME NEW f, Len(f) \in Nat, NEW n \in 4..(Len(f) - 1), NEW w \in 4..n
  PROVE  /\ ~CodeAt(f, n - 3) => CodesIn(f, w, n + 1) = CodesIn(f, w, n)
         /\ CodeAt(f, n - 3) /\ w =< n - 3
              => Cardinality(CodesIn(f, w, n + 1)) = Cardinality(CodesIn(f, w, n)) + 1
         /\ Cardinality(CodesIn(f, n + 1, n + 1)) = 0
<1>1. ASSUME ~CodeAt(f, n - 3) PROVE CodesIn(f, w, n + 1) = CodesIn(f, w, n)
  BY <1>1 DEF CodesIn, Codes
<1>2. ASSUME CodeAt(f, n - 3), w =< n - 3
      PROVE  Cardinality(CodesIn(f, w, n + 1)) = Cardinality(CodesIn(f, w, n)) + 1
  <2>1. CodesIn(f, w, n + 1) = CodesIn(f, w, n) \cup {n - 3} /\ n - 3 \notin CodesIn(f, w, n)
    BY <1>2 DEF CodesIn, Codes
  <2>. QED  BY <2>1, CodesInFinite, FS_AddElement
<1>3. CodesIn(f, n + 1, n + 1) = {}
  BY DEF CodesIn, Codes
<1>. QED  BY <1>1, <1>2, <1>3, FS_EmptySet

\* What one more byte does to the buffer: it is stored, or the four bytes of a
\* start code go, or a frame is complete.
LEMMA StoredAdvances ==
  ASSUME NEW f, Len(f) \in Nat, NEW n \in 4..(Len(f) - 1), NEW u \in Int, NEW w \in Int,
         LastCode(f, n, u), LastFrame(f, n, w)
  PROVE  /\ StoredAt(f, n) \in Int
         /\ ~CodeAt(f, n - 3) => StoredAt(f, n + 1) = StoredAt(f, n) + 1
         /\ CodeAt(f, n - 3) => StoredAt(f, n + 1) = IF f[u + 1] % 32 \in 1..6 THEN 0
                                                     ELSE StoredAt(f, n) - 3
<1>1. w \in 4..n /\ CodeAt(f, w - 4)
  BY DEF LastFrame, FrameAt
<1>2. Cardinality(CodesIn(f, w, n)) \in Nat
  BY <1>1, CodesInFinite
<1>. DEFINE Within(v, m) == m - v - 4 * Cardinality(CodesIn(f, v, m))
<1>3. /\ StoredAt(f, n) = Within(FrameOf(f, n), n)
      /\ StoredAt(f, n + 1) = Within(FrameOf(f, n + 1), n + 1)
  BY DEF StoredAt
<1>4. StoredAt(f, n) = n - w - 4 * Cardinality(CodesIn(f, w, n))
  BY <1>3, FrameOfIs
<1>5. CASE ~CodeAt(f, n - 3)
  <2>1. FrameOf(f, n + 1) = w
    BY <1>5, FrameAdvances, FrameOfIs
  <2>2. StoredAt(f, n + 1) = (n + 1) - w - 4 * Cardinality(CodesIn(f, w, n))
    BY <1>1, <1>3, <1>5, <2>1, CodesAdvance
  <2>. QED  BY <1>1, <1>2, <1>4, <1>5, <2>2
<1>6. CASE CodeAt(f, n - 3) /\ f[u + 1] % 32 \in 1..6
  <2>1. FrameOf(f, n + 1) = n + 1
    BY <1>6, FrameAdvances, FrameOfIs
  <2>2. StoredAt(f, n + 1) = (n + 1) - (n + 1) - 4 * 0
    BY <1>1, <1>3, <2>1, CodesAdvance
  <2>. QED  BY <1>1, <1>2, <1>4, <1>6, <2>2
<1>7. CASE CodeAt(f, n - 3) /\ ~(f[u + 1] % 32 \in 1..6)
  <2>1. FrameOf(f, n + 1) = w
    BY <1>7, FrameAdvances, FrameOfIs
  <2>2. w =< n - 3
    <3>1. w - 4 \in Int /\ n - 3 \in Int /\ w - 4 < n - 3
      BY <1>1
    <3>. QED  BY <1>1, <1>7, <3>1, CodesApart
  <2>3. Cardinality(CodesIn(f, w, n + 1)) = Cardinality(CodesIn(f, w, n)) + 1
    BY <1>1, <1>7, <2>2, CodesAdvance
  <2>4. StoredAt(f, n + 1) = (n + 1) - w - 4 * (Cardinality(CodesIn(f, w, n)) + 1)
    BY <1>1, <1>2, <1>3, <2>1, <2>3
  <2>5. StoredAt(f, n + 1) = StoredAt(f, n) - 3 /\ StoredAt(f, n) \in Int
    BY <1>1, <1>2, <1>4, <2>4
  <2>. QED  BY <1>7, <2>5
<1>. QED  BY <1>5, <1>6, <1>7

-----------------------------------------------------------------------------
(* One byte of the file: at its end, at the end of a start code, or not.   *)

LEMMA FileOK ==
  ASSUME PlainFiles, TypeOK, file \in Files
  PROVE  Len(file) \in Nat /\ 4 =< Len(file) /\ Plain(file)
BY DEF PlainFiles, TypeOK, Plain, CodeAt

LEMMA HeaderRange == \A b \in Byte : b % 32 \in 0..31 /\ b % 32 # NoHeader
BY DEF Byte, NoHeader

LEMMA UnitStartIs ==
  ASSUME TypeOK, NEW u \in Int, LastCode(file, pos, u), ~AllRead, pc # "overrun"
  PROVE  UnitStart = u
BY UnitOfIs DEF UnitStart, Passed, TypeOK

\* The byte read has no place in the buffer.
ReadOverrun ==
  /\ Len(buffer) = BufferSize
  /\ \/ pos < Len(file) /\ pos' = pos + 1 /\ feof' = FALSE /\ cur_byte' = file[pos + 1]
     \/ pos = Len(file) /\ pos' = pos /\ feof' = TRUE /\ cur_byte' = file[pos]
  /\ nal_header' = Header /\ zeros' = zeros + 1
  /\ buffer' = buffer
  /\ pc' = "overrun"
  /\ UNCHANGED <<file, frames>>

ReadAtEnd ==
  /\ Len(buffer) # BufferSize
  /\ pos = Len(file) /\ pos' = pos /\ feof' = TRUE
  /\ cur_byte' = file[pos]
  /\ buffer' = Append(buffer, cur_byte')
  /\ zeros' = IF cur_byte' = 0 THEN zeros + 1 ELSE 0
  /\ pc' = "new_frame"
  /\ nal_header' = nal_header /\ nal_header # NoHeader
  /\ UNCHANGED <<file, frames>>

ReadPlain ==
  /\ Len(buffer) # BufferSize
  /\ pos < Len(file) /\ pos' = pos + 1 /\ feof' = FALSE
  /\ cur_byte' = file[pos + 1]
  /\ ~(pos >= 3 /\ CodeAt(file, pos - 3))
  /\ buffer' = Append(buffer, cur_byte')
  /\ zeros' = IF cur_byte' = 0 THEN zeros + 1 ELSE 0
  /\ nal_header' = Header
  /\ pc' = "new_frame"
  /\ UNCHANGED <<file, frames>>

ReadCode ==
  /\ Len(buffer) # BufferSize
  /\ pos < Len(file) /\ pos' = pos + 1 /\ feof' = FALSE
  /\ cur_byte' = file[pos + 1]
  /\ pos >= 3 /\ CodeAt(file, pos - 3)
  /\ Len(buffer) >= 3 /\ buffer' = SubSeq(buffer, 1, Len(buffer) - 3)
  /\ zeros' = 0
  /\ IF IsFrame(Header)
     THEN pc' = "write" /\ nal_header' = Header
     ELSE pc' = "new_frame" /\ nal_header' = NoHeader
  /\ UNCHANGED <<file, frames>>

LEMMA ReadCases ==
  ASSUME PlainFiles, file \in Files, ScanInv, ReadByte
  PROVE  ReadOverrun \/ ReadAtEnd \/ ReadPlain \/ ReadCode
<1>1. /\ Len(file) \in Nat /\ 4 =< Len(file) /\ Plain(file)
      /\ TypeOK /\ ~feof /\ pc = "new_frame" /\ Len(buffer) =< pos /\ pos =< Len(file)
  BY FileOK DEF ScanInv, ReadByte, TypeOK, BetweenOK
<1>2. PICK u \in 4..Len(file) : LastCode(file, pos, u)
  BY DEF ScanInv, Passed, ReadByte
<1>3. UnitStart = u
  BY <1>1, <1>2, UnitStartIs DEF AllRead
<1>4. ASSUME pos = Len(file)
      PROVE  /\ pos' = pos /\ feof' = TRUE /\ cur_byte' = cur_byte /\ cur_byte' = file[pos]
             /\ nal_header # NoHeader
  <2>1. pos # u
    BY <1>1, <1>2, <1>4 DEF LastCode, Plain
  <2>2. cur_byte # NoByte /\ cur_byte = file[pos] /\ nal_header # NoHeader
    <3>1. pos >= 4 /\ file[u + 1] \in Byte
      BY <1>1, <1>4, <2>1 DEF TypeOK
    <3>2. cur_byte # NoByte /\ cur_byte = file[pos]
      BY <1>1, <1>3, <2>1, <3>1 DEF ScanInv, UnitOK, ByteOK
    <3>3. nal_header = file[u + 1] % 32
      BY <1>1, <1>3, <1>4, <2>1, <3>1 DEF ScanInv, UnitOK
    <3>. QED  BY <3>1, <3>2, <3>3, HeaderRange
  <2>. QED  BY <1>4, <2>2 DEF ReadByte, Fread
<1>5. ASSUME pos < Len(file)
      PROVE  pos' = pos + 1 /\ feof' = FALSE /\ cur_byte' = file[pos + 1]
  BY <1>1, <1>5 DEF ReadByte, Fread, TypeOK
<1>6. CASE Len(buffer) = BufferSize
  <2>1. pos = Len(file) \/ pos < Len(file)
    BY <1>1 DEF TypeOK
  <2>. QED  BY <1>4, <1>5, <1>6, <2>1 DEF ReadByte, ReadOverrun
<1>7. CASE Len(buffer) # BufferSize /\ pos = Len(file)
  <2>1. ~(cur_byte' # 0 /\ IsSeparation(cur_byte', zeros + 1))
    BY <1>1, <1>4, <1>7 DEF ScanInv, ByteOK, TypeOK, IsSeparation
  <2>. QED  BY <1>1, <1>4, <1>7, <2>1 DEF ReadByte, ReadAtEnd, Header
<1>8. CASE Len(buffer) # BufferSize /\ pos < Len(file)
  <2>1. pos' = pos + 1 /\ feof' = FALSE /\ cur_byte' = file[pos + 1]
    BY <1>5, <1>8
  <2>2. cur_byte' # 0 /\ IsSeparation(cur_byte', zeros + 1) <=> pos >= 3 /\ CodeAt(file, pos - 3)
    <3>1. /\ pos \in 0..(Len(file) - 1) /\ zeros \in 0..pos
          /\ \A p \in (pos - zeros + 1)..pos : file[p] = 0
          /\ zeros < pos => file[pos - zeros] # 0
      BY <1>1, <1>8 DEF ScanInv, TypeOK, ZerosOK
    <3>. QED  BY <1>1, <2>1, <3>1, SeparationIsCode
  <2>3. CASE ~(pos >= 3 /\ CodeAt(file, pos - 3))
    BY <1>1, <1>8, <2>1, <2>2, <2>3 DEF ReadByte, ReadPlain
  <2>4. CASE pos >= 3 /\ CodeAt(file, pos - 3)
    <3>1. Len(buffer) >= 3
      <4>1. CASE pos < 4
        BY <1>1, <2>4, <4>1 DEF ScanInv, FirstCodeOK, TypeOK
      <4>2. CASE pos >= 4
        <5>1. u =< pos - 3
          <6>1. u - 4 \in Int /\ pos - 3 \in Int /\ u - 4 < pos - 3 /\ CodeAt(file, u - 4)
            BY <1>1, <1>2, <4>2 DEF LastCode, TypeOK
          <6>. QED  BY <2>4, <6>1, CodesApart
        <5>2. HeldLength >= 0 /\ HeldLength = Len(buffer) - (pos - u)
          BY <1>1, <1>3, <4>2 DEF ScanInv, UnitOK, HeldLength, Passed, TypeOK
        <5>. QED  BY <1>1, <5>1, <5>2 DEF TypeOK
      <4>. QED  BY <1>1, <4>1, <4>2 DEF TypeOK
    <3>2. SubSeq(Append(buffer, cur_byte'), 1, Len(Append(buffer, cur_byte')) - 4)
            = SubSeq(buffer, 1, Len(buffer) - 3)
      BY <1>1, <3>1 DEF TypeOK
    <3>3. Len(Append(buffer, cur_byte')) >= 4
      BY <1>1, <3>1 DEF TypeOK
    <3>. QED  BY <1>1, <1>8, <2>1, <2>2, <2>4, <3>1, <3>2, <3>3 DEF ReadByte, ReadCode, Separate
  <2>. QED  BY <2>3, <2>4
<1>. QED  BY <1>1, <1>6, <1>7, <1>8 DEF TypeOK

-----------------------------------------------------------------------------
(* The invariant.  u stands for the end of the last start code.            *)

LEMMA WordsOK ==
  ASSUME NEW b \in Seq(Byte)
  PROVE  /\ Words(b) \in Seq(-128..127) /\ Len(Words(b)) = Len(b)
         /\ \A i \in 1..Len(b) : AsByte(Words(b)[i]) = b[i]
<1>1. \A x \in Byte : Word(x) \in -128..127 /\ AsByte(Word(x)) = x
  BY DEF Byte, Word, AsByte
<1>2. Len(b) \in Nat /\ DOMAIN b = 1..Len(b) /\ \A i \in 1..Len(b) : b[i] \in Byte
  OBVIOUS
<1>3. Words(b) = [i \in 1..Len(b) |-> Word(b[i])]
  BY <1>2 DEF Words
<1>4. \A i \in 1..Len(b) : Word(b[i]) \in -128..127 /\ AsByte(Word(b[i])) = b[i]
  BY <1>1, <1>2
<1>5. Words(b) \in Seq(-128..127) /\ Len(Words(b)) = Len(b)
  BY <1>2, <1>3, <1>4
<1>. QED  BY <1>2, <1>3, <1>4, <1>5

LEMMA UnitStartThen ==
  ASSUME TypeOK', NEW u \in Int, LastCode(file', pos', u), ~AllRead', pc' # "overrun"
  PROVE  UnitStart' = u
BY UnitOfIs DEF UnitStart, Passed, TypeOK

LEMMA InitInv ==
  ASSUME PlainFiles, Init
  PROVE  ScanInv
<1>1. TypeOK
  <2>1. file \in Seq(Byte) /\ Len(file) \in Nat
    BY FilesAssumption DEF Init
  <2>2. buffer \in Seq(Byte) /\ Len(buffer) = 0 /\ frames \in Seq(Seq(-128..127)) /\ Len(frames) = 0
    BY DEF Init
  <2>3. Len(buffer) =< BufferSize /\ Len(frames) =< FrameLimit
    BY <2>2, BufferAssumption, LimitAssumption
  <2>4. pos \in 0..Len(file) /\ zeros \in 0..(Len(file) + 1)
    BY <2>1 DEF Init
  <2>5. feof \in BOOLEAN /\ nal_header \in 0..31 \cup {NoHeader} /\ cur_byte \in Byte \cup {NoByte}
    BY DEF Init
  <2>6. pc \in {"read_file", "new_frame", "write", "done", "overrun", "underrun"}
    BY DEF Init
  <2>. QED  BY <2>1, <2>2, <2>3, <2>4, <2>5, <2>6 DEF TypeOK
<1>2. 4 =< Len(file) /\ Len(file) \in Nat /\ CodeAt(file, 0)
  BY <1>1, FileOK DEF Init, Plain
<1>3. LastCode(file, pos, 4)
  BY <1>2 DEF Init, LastCode, Codes
<1>4. 4 \in 4..Len(file)
  BY <1>2
<1>5. LastFrame(file, pos, 4) /\ StoredAt(file, pos) = 0
  BY <1>2, FirstFrame DEF Init, StoredAt
<1>6. StoredOK /\ InBuffer
  BY <1>4, <1>5 DEF Init, StoredOK, InBuffer, Passed, Reads
<1>. QED
  BY <1>1, <1>3, <1>4, <1>6, LimitAssumption
  DEF Init, Passed, ScanInv, ZerosOK, ByteOK, BetweenOK, UnitOK, FirstCodeOK, FramesNotEmpty

\* What happens between the reads leaves alone how much of the video is stored.
LEMMA StoredStays ==
  ASSUME ScanInv, NewFrame \/ EndOfFile \/ WriteFrame \/ EndOfVideo
  PROVE  StoredOK' /\ InBuffer'
<1>1. /\ file' = file /\ pos' = pos /\ feof' = feof
      /\ pc \in {"read_file", "new_frame", "write"}
      /\ pc' \in {"read_file", "new_frame", "write", "done"}
  BY DEF NewFrame, EndOfFile, WriteFrame, EndOfVideo
<1>2. Reads' = Reads /\ Passed' = Passed
  BY <1>1 DEF Reads, Passed
<1>3. InBuffer'
  BY <1>1, <1>2 DEF ScanInv, InBuffer
<1>4. pc' = "new_frame" => Len(buffer') = 0 /\ ~feof /\ pc = "read_file"
  BY DEF NewFrame, EndOfFile, WriteFrame, EndOfVideo
<1>5. pc' \in {"read_file", "write"} /\ ~feof' => pc = "write"
  BY DEF NewFrame, EndOfFile, WriteFrame, EndOfVideo
<1>6. StoredOK'
  BY <1>1, <1>2, <1>4, <1>5 DEF ScanInv, StoredOK
<1>. QED  BY <1>3, <1>6

LEMMA NewFrameInv ==
  ASSUME PlainFiles, file \in Files, ScanInv, NewFrame
  PROVE  ScanInv'
<1>1. TypeOK /\ TypeOK' /\ Len(file) \in Nat
  BY BufferAssumption DEF ScanInv, NewFrame, TypeOK
<1>2. PICK u \in 4..Len(file) : LastCode(file, pos, u)
  BY DEF ScanInv, Passed, NewFrame
<1>3. UnitStart' = u
  BY <1>1, <1>2, UnitStartThen DEF AllRead, NewFrame
<1>4. UnitStart = u
  BY <1>1, <1>2, UnitStartIs DEF AllRead, NewFrame
<1>5. ZerosOK' /\ ByteOK'
  BY DEF ScanInv, NewFrame, ZerosOK, ByteOK, BetweenOK
<1>6. BetweenOK' /\ FramesNotEmpty'
  BY <1>1 DEF ScanInv, NewFrame, BetweenOK, TypeOK, FramesNotEmpty
<1>7. FirstCodeOK'
  BY <1>1, <1>2, <1>4 DEF ScanInv, NewFrame, BetweenOK, TypeOK, FirstCodeOK
<1>8. UnitOK'
  <2>1. pos >= 4 => pos = u
    BY <1>1, <1>4 DEF ScanInv, NewFrame, BetweenOK
  <2>. QED  BY <1>1, <1>3, <2>1 DEF NewFrame, UnitOK, HeldLength, Passed, TypeOK
<1>. QED  BY <1>1, <1>2, <1>5, <1>6, <1>7, <1>8, StoredStays DEF ScanInv, Passed, NewFrame

LEMMA EndOfFileInv ==
  ASSUME PlainFiles, file \in Files, ScanInv, EndOfFile
  PROVE  ScanInv'
<1>1. TypeOK /\ TypeOK' /\ feof' /\ pos = Len(file) /\ pos >= 4
  BY FileOK DEF ScanInv, EndOfFile, TypeOK, BetweenOK
<1>2. PICK u \in 4..Len(file) : LastCode(file, pos, u)
  BY DEF ScanInv, Passed, EndOfFile
<1>3. UnitStart = u
  BY <1>1, <1>2, UnitStartIs DEF AllRead, EndOfFile
<1>4. buffer # <<>>
  BY <1>1, <1>2, <1>3 DEF ScanInv, EndOfFile, UnitOK, HeldLength, Passed, TypeOK
<1>. QED
  BY <1>1, <1>4, StoredStays
  DEF ScanInv, EndOfFile, Passed, ZerosOK, ByteOK, BetweenOK, UnitOK, FirstCodeOK, FramesNotEmpty

LEMMA WriteFrameInv ==
  ASSUME PlainFiles, file \in Files, ScanInv, WriteFrame
  PROVE  ScanInv'
<1>1. TypeOK /\ Len(frames) < FrameLimit /\ buffer # <<>>
  BY DEF ScanInv, WriteFrame, BetweenOK
<1>2. /\ Words(buffer) \in Seq(-128..127) /\ Len(Words(buffer)) = Len(buffer)
      /\ Words(buffer) # <<>>
  BY <1>1, WordsOK DEF TypeOK
<1>3. frames' = Append(frames, Words(buffer)) /\ Len(frames) \in Nat
  BY <1>1 DEF WriteFrame, TypeOK
<1>4. frames' \in Seq(Seq(-128..127)) /\ Len(frames') = Len(frames) + 1
  BY <1>1, <1>2, <1>3 DEF TypeOK
<1>5. TypeOK'
  BY <1>1, <1>3, <1>4, LimitAssumption DEF WriteFrame, TypeOK
<1>6. FramesNotEmpty'
  BY <1>1, <1>2, <1>3 DEF ScanInv, FramesNotEmpty, TypeOK
<1>7. ~feof => UnitStart' = UnitStart
  BY DEF WriteFrame, UnitStart, Passed, AllRead
<1>8. BetweenOK'
  BY <1>1, <1>3, <1>4, <1>7, LimitAssumption DEF ScanInv, WriteFrame, BetweenOK
<1>9. ZerosOK' /\ ByteOK' /\ UnitOK' /\ FirstCodeOK'
  BY DEF ScanInv, WriteFrame, ZerosOK, ByteOK, UnitOK, FirstCodeOK
<1>. QED  BY <1>5, <1>6, <1>8, <1>9, StoredStays DEF ScanInv, Passed, WriteFrame

LEMMA EndOfVideoInv ==
  ASSUME ScanInv, EndOfVideo
  PROVE  ScanInv'
BY StoredStays
DEF ScanInv, EndOfVideo, Passed, TypeOK, ZerosOK, ByteOK, BetweenOK, UnitOK, FirstCodeOK,
    FramesNotEmpty

LEMMA StutterInv ==
  ASSUME ScanInv, UNCHANGED vars
  PROVE  ScanInv'
BY DEF vars, ScanInv, TypeOK, ZerosOK, ByteOK, BetweenOK, UnitOK, FirstCodeOK,
       FramesNotEmpty, UnitStart, Passed, AllRead, HeldLength, StoredOK, InBuffer, Reads

\* zeros and the place in the file have their types after every read.
LEMMA ReadTypes ==
  ASSUME PlainFiles, file \in Files, ScanInv, ReadByte,
         ReadOverrun \/ ReadAtEnd \/ ReadPlain \/ ReadCode
  PROVE  TypeOK'
<1>1. TypeOK /\ ~feof /\ Len(buffer) =< pos /\ zeros =< pos
  BY DEF ScanInv, ReadByte, BetweenOK, ZerosOK, TypeOK
<1>2. Len(file) \in Nat /\ 4 =< Len(file)
  BY <1>1, FileOK
<1>3. pos' \in 0..Len(file) /\ feof' \in BOOLEAN /\ cur_byte' \in Byte
  <2>1. \A p \in 1..Len(file) : file[p] \in Byte
    BY <1>1 DEF TypeOK
  <2>2. feof' \in BOOLEAN
    BY DEF ReadOverrun, ReadAtEnd, ReadPlain, ReadCode
  <2>3. pos' \in 0..Len(file) /\ pos' \in 1..Len(file) /\ cur_byte' = file[pos']
    BY <1>1, <1>2 DEF ReadOverrun, ReadAtEnd, ReadPlain, ReadCode, TypeOK
  <2>. QED  BY <2>1, <2>2, <2>3
<1>4. buffer' \in Seq(Byte) /\ Len(buffer') =< BufferSize
  <2>1. Append(buffer, cur_byte') \in Seq(Byte)
        /\ (Len(buffer) # BufferSize => Len(Append(buffer, cur_byte')) =< BufferSize)
    BY <1>1, <1>2, <1>3, BufferAssumption DEF TypeOK
  <2>2. SubSeq(buffer, 1, Len(buffer) - 3) \in Seq(Byte)
        /\ (Len(buffer) >= 3 => Len(SubSeq(buffer, 1, Len(buffer) - 3)) =< BufferSize)
    BY <1>1, <1>2, BufferAssumption DEF TypeOK
  <2>. QED  BY <1>1, <2>1, <2>2 DEF TypeOK, ReadOverrun, ReadAtEnd, ReadPlain, ReadCode
<1>5. nal_header' \in 0..31 \cup {NoHeader}
  BY <1>1, <1>3, HeaderRange DEF ReadOverrun, ReadAtEnd, ReadPlain, ReadCode, TypeOK, Header
<1>6. zeros' \in 0..(Len(file) + 1)
  BY <1>1, <1>2 DEF ReadOverrun, ReadAtEnd, ReadPlain, ReadCode, TypeOK
<1>7. pc' \in {"read_file", "new_frame", "write", "done", "overrun", "underrun"}
  BY DEF ReadOverrun, ReadAtEnd, ReadPlain, ReadCode
<1>8. file' = file /\ frames' = frames
  BY DEF ReadByte
<1>. QED  BY <1>1, <1>3, <1>4, <1>5, <1>6, <1>7, <1>8 DEF TypeOK

\* What the reads have in common.
LEMMA Reading ==
  ASSUME PlainFiles, file \in Files, ScanInv, ReadByte
  PROVE  /\ TypeOK /\ Len(file) \in Nat /\ pos \in 0..Len(file) /\ Plain(file)
         /\ buffer \in Seq(Byte) /\ zeros \in 0..pos
         /\ ~feof /\ pc = "new_frame" /\ Len(buffer) =< pos /\ Len(frames) < FrameLimit
<1>1. TypeOK /\ ~feof /\ pc = "new_frame"
  BY DEF ScanInv, ReadByte, TypeOK
<1>2. Len(file) \in Nat /\ pos \in 0..Len(file) /\ Plain(file) /\ buffer \in Seq(Byte)
  BY <1>1, FileOK DEF TypeOK
<1>3. zeros \in 0..pos /\ Len(buffer) =< pos /\ Len(frames) < FrameLimit
  BY <1>1, <1>2 DEF ScanInv, ZerosOK, BetweenOK, TypeOK
<1>. QED  BY <1>1, <1>2, <1>3

LEMMA ReadingUnit ==
  ASSUME PlainFiles, file \in Files, ScanInv, ReadByte, pos >= 4, NEW u \in 4..Len(file),
         LastCode(file, pos, u)
  PROVE  /\ u =< pos /\ UnitStart = u
         /\ HeldLength = Len(buffer) - (pos - u) /\ HeldLength \in Nat
         /\ \A k \in 1..(pos - u) : buffer[HeldLength + k] = file[u + k]
         /\ nal_header = IF pos = u THEN NoHeader ELSE file[u + 1] % 32
<1>1. TypeOK /\ pos \in 0..Len(file) /\ Len(file) \in Nat /\ Len(buffer) \in Nat /\ ~feof
      /\ pc = "new_frame"
  BY Reading
<1>2. UnitStart = u /\ u =< pos
  BY <1>1, UnitStartIs DEF AllRead, LastCode
<1>3. HeldLength = Len(buffer) - (pos - u)
  BY <1>1, <1>2 DEF HeldLength, Passed
<1>4. HeldLength >= 0
  BY <1>1 DEF ScanInv, UnitOK
<1>. QED  BY <1>1, <1>2, <1>3, <1>4 DEF ScanInv, UnitOK

LEMMA FrameTypes == \A x \in 0..31 : IsFrame(x) <=> x \in 1..6
BY DEF IsFrame

\* At the end of a start code, the header is that of the unit in front of it.
LEMMA HeaderAtCode ==
  ASSUME PlainFiles, file \in Files, ScanInv, ReadByte, ReadCode, pos >= 4,
         NEW u \in 4..Len(file), LastCode(file, pos, u)
  PROVE  /\ u =< pos - 3 /\ Header = file[u + 1] % 32
         /\ IsFrame(Header) <=> file[u + 1] % 32 \in 1..6
<1>1. TypeOK /\ Len(file) \in Nat /\ pos \in 0..Len(file) /\ pos < Len(file) /\ CodeAt(file, pos - 3)
  BY Reading DEF ReadCode
<1>2. u =< pos /\ nal_header = IF pos = u THEN NoHeader ELSE file[u + 1] % 32
  BY ReadingUnit
<1>3. u =< pos - 3
  <2>1. u - 4 \in Int /\ pos - 3 \in Int /\ u - 4 < pos - 3 /\ CodeAt(file, u - 4)
    BY <1>1, <1>2 DEF LastCode
  <2>. QED  BY <1>1, <2>1, CodesApart
<1>4. u + 1 \in 1..Len(file) /\ file[u + 1] \in Byte
  BY <1>1, <1>3 DEF TypeOK
<1>5. file[u + 1] % 32 \in 0..31 /\ file[u + 1] % 32 # NoHeader
  BY <1>4, HeaderRange
<1>6. Header = file[u + 1] % 32
  BY <1>1, <1>2, <1>3, <1>5 DEF Header
<1>. QED  BY <1>3, <1>5, <1>6, FrameTypes

LEMMA FrontOK ==
  ASSUME NEW s \in Seq(Byte), NEW n \in 0..Len(s)
  PROVE  /\ SubSeq(s, 1, n) \in Seq(Byte) /\ Len(SubSeq(s, 1, n)) = n
         /\ \A k \in 1..n : SubSeq(s, 1, n)[k] = s[k]
         /\ n > 0 => SubSeq(s, 1, n) # <<>>
<1>1. \A i \in 1..n : s[i] \in Byte
  OBVIOUS
<1>2. SubSeq(s, 1, n) \in Seq(Byte) /\ Len(SubSeq(s, 1, n)) = n
  BY <1>1, SubSeqProperties
<1>3. \A k \in 1..n : SubSeq(s, 1, n)[k] = s[k]
  BY <1>1, SubSeqProperties
<1>. QED  BY <1>2, <1>3

\* The buffer is full just when the video says so, and a byte read then is the
\* only one without a place in it.
LEMMA StoredRead ==
  ASSUME PlainFiles, file \in Files, ScanInv, ReadByte,
         ReadOverrun \/ ReadAtEnd \/ ReadPlain \/ ReadCode
  PROVE  StoredOK' /\ InBuffer'
<1>1. /\ TypeOK /\ Len(file) \in Nat /\ pos \in 0..Len(file) /\ Plain(file) /\ CodeAt(file, 0)
      /\ buffer \in Seq(Byte) /\ ~feof /\ pc = "new_frame" /\ 4 =< Len(file)
  BY Reading, FileOK DEF Plain
<1>2. PICK u \in 4..Len(file) : LastCode(file, pos, u)
  BY DEF ScanInv, Passed, ReadByte
<1>3. PICK w \in 4..Len(file) : LastFrame(file, pos, w)
  BY <1>1 DEF ScanInv, StoredOK, Passed
<1>4. Len(buffer) = StoredAt(file, pos) /\ Len(buffer) \in Nat /\ Len(buffer) =< BufferSize
  BY <1>1 DEF ScanInv, StoredOK, TypeOK
<1>5. /\ file' = file
      /\ \/ pos' = pos /\ feof' = TRUE
         \/ pos' = pos + 1 /\ feof' = FALSE
  BY DEF ReadOverrun, ReadAtEnd, ReadPlain, ReadCode
<1>6. InBuffer'
  <2>1. Reads' > 0 /\ Reads' - 1 = pos
    BY <1>1, <1>5 DEF Reads
  <2>2. pc' # "underrun" /\ (pc' = "overrun" <=> Len(buffer) = BufferSize)
    BY DEF ReadOverrun, ReadAtEnd, ReadPlain, ReadCode
  <2>. QED  BY <1>4, <1>5, <2>1, <2>2, BufferAssumption DEF InBuffer
<1>7. CASE ReadOverrun
  <2>1. Passed' = pos /\ pc' = "overrun"
    BY <1>1, <1>5, <1>7 DEF Passed, ReadOverrun
  <2>. QED  BY <1>3, <1>5, <1>6, <2>1 DEF StoredOK
<1>8. CASE ReadAtEnd
  <2>1. Passed' = pos /\ pc' = "new_frame" /\ pos' = pos /\ feof' = TRUE
        /\ Len(buffer') = Len(buffer) + 1
    BY <1>1, <1>8 DEF Passed, ReadAtEnd, TypeOK
  <2>. QED  BY <1>3, <1>4, <1>5, <1>6, <2>1 DEF StoredOK
<1>9. CASE ReadPlain
  <2>1. Passed' = pos + 1 /\ pc' = "new_frame" /\ pos' = pos + 1 /\ feof' = FALSE
        /\ Len(buffer') = Len(buffer) + 1 /\ pos < Len(file) /\ ~(pos >= 3 /\ CodeAt(file, pos - 3))
    BY <1>1, <1>9 DEF Passed, ReadPlain, TypeOK
  <2>2. CASE pos < 4
    <3>1. pos + 1 \in 0..3
      BY <1>1, <2>1, <2>2
    <3>2. LastFrame(file, pos + 1, 4) /\ StoredAt(file, pos + 1) = pos + 1 /\ StoredAt(file, pos) = pos
      BY <1>1, <2>2, <3>1, FirstFrame DEF StoredAt
    <3>3. 4 \in 4..Len(file)
      BY <1>1
    <3>. QED  BY <1>4, <1>5, <1>6, <2>1, <3>2, <3>3 DEF StoredOK
  <2>3. CASE pos >= 4
    <3>1. pos \in 4..(Len(file) - 1) /\ ~CodeAt(file, pos - 3)
      BY <1>1, <2>1, <2>3
    <3>2. LastFrame(file, pos + 1, w) /\ StoredAt(file, pos + 1) = StoredAt(file, pos) + 1
      BY <1>1, <1>2, <1>3, <3>1, FrameAdvances, StoredAdvances
    <3>. QED  BY <1>3, <1>4, <1>5, <1>6, <2>1, <3>2 DEF StoredOK
  <2>. QED  BY <1>1, <2>2, <2>3
<1>10. CASE ReadCode
  <2>1. /\ Passed' = pos + 1 /\ pos' = pos + 1 /\ feof' = FALSE /\ pc' \in {"new_frame", "write"}
        /\ pc' = "write" <=> IsFrame(Header)
        /\ pos \in 3..(Len(file) - 1) /\ CodeAt(file, pos - 3)
    BY <1>1, <1>10 DEF Passed, ReadCode
  <2>2. Len(buffer') = Len(buffer) - 3
    <3>1. Len(buffer) - 3 \in 0..Len(buffer) /\ buffer' = SubSeq(buffer, 1, Len(buffer) - 3)
      BY <1>1, <1>10 DEF ReadCode
    <3>. QED  BY <1>1, <3>1, FrontOK
  <2>3. CASE pos < 4
    <3>1. pos = 3 /\ Len(buffer) = 3 /\ nal_header = 0
      BY <1>1, <2>1, <2>3 DEF ScanInv, FirstCodeOK
    <3>2. pc' = "new_frame"
      BY <2>1, <3>1 DEF Header, IsFrame, NoHeader
    <3>3. LastFrame(file, 4, 4) /\ 4 \in 4..Len(file)
      BY <1>1, FirstFrame
    <3>4. StoredAt(file, 4) = 0
      <4>1. FrameOf(file, 4) = 4
        BY <1>1, <3>3, FrameOfIs
      <4>2. CodesIn(file, 4, 4) = {}
        BY DEF CodesIn, Codes
      <4>. QED  BY <4>1, <4>2, FS_EmptySet DEF StoredAt
    <3>. QED  BY <1>5, <1>6, <2>1, <2>2, <3>1, <3>2, <3>3, <3>4 DEF StoredOK
  <2>4. CASE pos >= 4
    <3>1. pos \in 4..(Len(file) - 1) /\ pos + 1 \in 4..Len(file)
      BY <1>1, <2>1, <2>4
    <3>2. pc' = "write" <=> file[u + 1] % 32 \in 1..6
      BY <1>2, <1>10, <2>1, <2>4, HeaderAtCode
    <3>3. \E v \in 4..Len(file) : LastFrame(file, pos + 1, v)
      BY <1>1, <1>2, <1>3, <3>1, FrameAdvances
    <3>4. StoredAt(file, pos + 1) = IF pc' = "write" THEN 0 ELSE StoredAt(file, pos) - 3
      BY <1>1, <1>2, <1>3, <2>1, <3>1, <3>2, StoredAdvances
    <3>. QED  BY <1>4, <1>5, <1>6, <2>1, <2>2, <3>3, <3>4 DEF StoredOK
  <2>. QED  BY <1>1, <2>3, <2>4
<1>. QED  BY <1>7, <1>8, <1>9, <1>10

LEMMA ReadOverrunInv ==
  ASSUME PlainFiles, file \in Files, ScanInv, ReadByte, ReadOverrun
  PROVE  ScanInv'
<1>1. TypeOK' /\ StoredOK' /\ InBuffer'
  BY ReadTypes, StoredRead
<1>2. PICK u \in 4..Len(file) : LastCode(file, pos, u)
  BY DEF ScanInv, Passed, ReadByte
<1>3. /\ TypeOK /\ Len(file) \in Nat /\ pos \in 0..Len(file) /\ Len(buffer) =< pos
      /\ ~feof /\ pc = "new_frame" /\ buffer \in Seq(Byte)
  BY Reading
<1>4. Passed' = pos /\ file' = file
  BY <1>3 DEF ReadOverrun, Passed
<1>5. BetweenOK'
  BY <1>3 DEF BetweenOK, ReadOverrun
<1>6. ZerosOK' /\ ByteOK' /\ UnitOK' /\ FirstCodeOK' /\ FramesNotEmpty'
  BY DEF ZerosOK, ByteOK, UnitOK, FirstCodeOK, FramesNotEmpty, ScanInv, ReadOverrun
<1>. QED  BY <1>1, <1>2, <1>4, <1>5, <1>6 DEF ScanInv

LEMMA ReadAtEndInv ==
  ASSUME PlainFiles, file \in Files, ScanInv, ReadByte, ReadAtEnd
  PROVE  ScanInv'
<1>1. TypeOK'
  BY ReadTypes
<1>2. PICK u \in 4..Len(file) : LastCode(file, pos, u)
  BY DEF ScanInv, Passed, ReadByte
<1>3. /\ TypeOK /\ Len(file) \in Nat /\ pos \in 0..Len(file) /\ Plain(file)
      /\ buffer \in Seq(Byte) /\ zeros \in 0..pos
      /\ ~feof /\ pc = "new_frame" /\ Len(buffer) =< pos /\ Len(frames) < FrameLimit
  BY Reading
<1>4. /\ pos = Len(file) /\ pos' = pos /\ pos >= 4 /\ u =< pos /\ feof' = TRUE /\ file' = file
      /\ pc' = "new_frame"
  BY <1>2, <1>3 DEF ReadAtEnd
<1>5. UnitStart' = u
  BY <1>1, <1>2, <1>4, UnitStartThen DEF ReadAtEnd, AllRead
<1>6. Len(buffer') = Len(buffer) + 1 /\ buffer'[Len(buffer) + 1] = cur_byte'
      /\ \A k \in 1..Len(buffer) : buffer'[k] = buffer[k]
  BY <1>1, <1>3 DEF ReadAtEnd, TypeOK
<1>7. ZerosOK' /\ FirstCodeOK' /\ FramesNotEmpty'
  BY <1>4 DEF ZerosOK, FirstCodeOK, FramesNotEmpty, ScanInv, ReadAtEnd
<1>8. ByteOK'
  BY <1>3, <1>4 DEF ByteOK, ReadAtEnd
<1>9. BetweenOK'
  BY <1>3, <1>4, <1>6 DEF BetweenOK, ReadAtEnd
<1>10. UnitOK'
  <2>1. /\ HeldLength = Len(buffer) - (pos - u) /\ HeldLength \in Nat
        /\ \A k \in 1..(pos - u) : buffer[HeldLength + k] = file[u + k]
        /\ nal_header = IF pos = u THEN NoHeader ELSE file[u + 1] % 32
    BY <1>2, <1>4, ReadingUnit
  <2>2. HeldLength' = HeldLength
    BY <1>3, <1>4, <1>5, <1>6, <2>1 DEF HeldLength, Passed
  <2>3. \A k \in 1..(pos - u) : buffer'[HeldLength' + k] = file[u + k]
    <3>1. TAKE k \in 1..(pos - u)
    <3>2. HeldLength + k \in 1..Len(buffer)
      BY <1>3, <1>4, <2>1
    <3>3. buffer[HeldLength + k] = file[u + k]
      BY <2>1
    <3>. QED  BY <1>6, <2>2, <3>2, <3>3
  <2>4. buffer'[Len(buffer')] = file[pos]
    BY <1>3, <1>6 DEF ReadAtEnd
  <2>5. u # pos /\ cur_byte' # NoByte
    <3>1. u # pos
      BY <1>2, <1>3, <1>4 DEF LastCode, Plain
    <3>2. cur_byte' \in Byte
      BY <1>3, <1>4 DEF ReadAtEnd, TypeOK
    <3>. QED  BY <3>1, <3>2 DEF Byte, NoByte
  <2>6. nal_header' = file[u + 1] % 32
    BY <2>1, <2>5 DEF ReadAtEnd
  <2>. QED  BY <1>4, <1>5, <2>1, <2>2, <2>3, <2>4, <2>5, <2>6 DEF UnitOK
<1>. QED  BY <1>1, <1>2, <1>4, <1>7, <1>8, <1>9, <1>10, StoredRead DEF ScanInv, Passed, ReadAtEnd

LEMMA ReadPlainInv ==
  ASSUME PlainFiles, file \in Files, ScanInv, ReadByte, ReadPlain
  PROVE  ScanInv'
<1>1. TypeOK'
  BY ReadTypes
<1>2. PICK u \in 4..Len(file) : LastCode(file, pos, u)
  BY DEF ScanInv, Passed, ReadByte
<1>3. /\ TypeOK /\ Len(file) \in Nat /\ pos \in 0..Len(file) /\ Plain(file)
      /\ buffer \in Seq(Byte) /\ zeros \in 0..pos
      /\ ~feof /\ pc = "new_frame" /\ Len(buffer) =< pos /\ Len(frames) < FrameLimit
  BY Reading
<1>4. /\ pos \in 0..(Len(file) - 1) /\ pos' = pos + 1 /\ feof' = FALSE /\ file' = file
      /\ cur_byte' = file[pos + 1] /\ cur_byte' \in Byte /\ pc' = "new_frame"
  BY <1>3 DEF ReadPlain, TypeOK
<1>5. LastCode(file, pos + 1, u)
  BY <1>2, <1>3, <1>4, LastAdvances DEF ReadPlain
<1>6. UnitStart' = u
  BY <1>1, <1>4, <1>5, UnitStartThen DEF ReadPlain, AllRead
<1>7. /\ Len(buffer') = Len(buffer) + 1 /\ buffer'[Len(buffer) + 1] = cur_byte'
      /\ \A k \in 1..Len(buffer) : buffer'[k] = buffer[k]
  BY <1>1, <1>3 DEF ReadPlain, TypeOK
<1>8. ZerosOK'
  <2>1. CASE cur_byte' = 0
    <3>1. zeros' = zeros + 1 /\ file[pos + 1] = 0
      BY <1>4, <2>1 DEF ReadPlain
    <3>2. /\ \A p \in (pos - zeros + 1)..pos : file[p] = 0
          /\ zeros < pos => file[pos - zeros] # 0
      BY <1>3 DEF ScanInv, ZerosOK
    <3>3. \A p \in (pos - zeros + 1)..(pos + 1) : file[p] = 0
      BY <1>3, <3>1, <3>2
    <3>4. /\ pos' - zeros' + 1 = pos - zeros + 1 /\ pos' - zeros' = pos - zeros
          /\ zeros' =< pos' /\ (zeros' < pos' => zeros < pos)
      BY <1>3, <1>4, <3>1
    <3>5. \A p \in (pos' - zeros' + 1)..pos' : file'[p] = 0
      BY <1>4, <3>3, <3>4
    <3>6. zeros' < pos' => file'[pos' - zeros'] # 0
      BY <1>4, <3>2, <3>4
    <3>. QED  BY <3>4, <3>5, <3>6 DEF ZerosOK
  <2>2. CASE cur_byte' # 0
    BY <1>3, <1>4, <2>2 DEF ZerosOK, ReadPlain
  <2>. QED  BY <2>1, <2>2
<1>9. ByteOK' /\ FramesNotEmpty'
  BY <1>3, <1>4 DEF ByteOK, FramesNotEmpty, ScanInv, ReadPlain
<1>10. BetweenOK'
  BY <1>3, <1>4, <1>7 DEF BetweenOK, ReadPlain
<1>11. pos' < 4 => pos < 4 /\ (pos = 0 => cur_byte' = 0)
  BY <1>3, <1>4 DEF Plain, CodeAt
<1>12. pos >= 4 \/ pos' < 4
  BY <1>3, <1>4 DEF Plain, ReadPlain
<1>13. FirstCodeOK'
  <2>1. ASSUME pos' < 4 PROVE Len(buffer') = pos' /\ nal_header' = 0 /\ frames' = <<>>
    <3>1. Len(buffer) = pos /\ nal_header = (IF pos = 0 THEN NoHeader ELSE 0) /\ frames = <<>>
      BY <1>3, <1>11, <2>1 DEF ScanInv, FirstCodeOK
    <3>2. nal_header' = 0
      BY <1>4, <1>11, <2>1, <3>1 DEF ReadPlain, Header, NoHeader
    <3>. QED  BY <1>4, <1>7, <3>1, <3>2 DEF ReadPlain
  <2>. QED  BY <1>3, <1>4, <2>1 DEF FirstCodeOK
<1>14. UnitOK'
  <2>1. CASE pos' < 4
    BY <1>3, <1>4, <2>1 DEF UnitOK
  <2>2. CASE pos >= 4
    <3>1. /\ u =< pos /\ HeldLength = Len(buffer) - (pos - u) /\ HeldLength \in Nat
          /\ \A k \in 1..(pos - u) : buffer[HeldLength + k] = file[u + k]
          /\ nal_header = IF pos = u THEN NoHeader ELSE file[u + 1] % 32
      BY <1>2, <2>2, ReadingUnit
    <3>2. HeldLength' = HeldLength
      BY <1>3, <1>4, <1>6, <1>7, <3>1 DEF HeldLength, Passed
    <3>3. \A k \in 1..(pos + 1 - u) : buffer'[HeldLength' + k] = file[u + k]
      <4>1. TAKE k \in 1..(pos + 1 - u)
      <4>2. CASE k = pos + 1 - u
        <5>1. HeldLength + k = Len(buffer) + 1 /\ u + k = pos + 1
          BY <1>3, <3>1, <4>2
        <5>. QED  BY <1>4, <1>7, <3>2, <5>1
      <4>3. CASE k # pos + 1 - u
        <5>1. k \in 1..(pos - u)
          BY <1>3, <3>1, <4>3
        <5>2. HeldLength + k \in 1..Len(buffer)
          BY <1>3, <3>1, <5>1
        <5>. QED  BY <1>7, <3>1, <3>2, <5>1, <5>2
      <4>. QED  BY <4>2, <4>3
    <3>4. nal_header' = file[u + 1] % 32
      <4>1. u + 1 \in 1..Len(file) /\ file[u + 1] \in Byte
        BY <1>3, <1>4, <3>1 DEF TypeOK
      <4>. QED  BY <1>4, <3>1, <4>1, HeaderRange DEF ReadPlain, Header
    <3>5. cur_byte' # NoByte
      <4>1. \A b \in Byte : b # NoByte
        BY DEF Byte, NoByte
      <4>. QED  BY <1>4, <4>1
    <3>. QED  BY <1>3, <1>4, <1>6, <3>1, <3>2, <3>3, <3>4, <3>5 DEF UnitOK
  <2>. QED  BY <1>12, <2>1, <2>2
<1>. QED  BY <1>1, <1>4, <1>5, <1>8, <1>9, <1>10, <1>13, <1>14, StoredRead DEF ScanInv, Passed, ReadPlain

LEMMA ReadCodeInv ==
  ASSUME PlainFiles, file \in Files, ScanInv, ReadByte, ReadCode
  PROVE  ScanInv'
<1>1. TypeOK'
  BY ReadTypes
<1>2. PICK u \in 4..Len(file) : LastCode(file, pos, u)
  BY DEF ScanInv, Passed, ReadByte
<1>3. /\ TypeOK /\ Len(file) \in Nat /\ pos \in 0..Len(file) /\ Plain(file)
      /\ buffer \in Seq(Byte) /\ zeros \in 0..pos
      /\ ~feof /\ pc = "new_frame" /\ Len(buffer) =< pos /\ Len(frames) < FrameLimit
  BY Reading
<1>4. /\ pos \in 3..(Len(file) - 1) /\ pos' = pos + 1 /\ feof' = FALSE /\ file' = file
      /\ pos + 1 \in 4..Len(file) /\ pc' \in {"new_frame", "write"}
  BY <1>3 DEF ReadCode
<1>5. cur_byte' = file[pos + 1] /\ file[pos + 1] = 1 /\ file[pos - 2] = 0
  BY <1>4 DEF ReadCode, CodeAt
<1>6. LastCode(file, pos + 1, pos + 1)
  BY <1>2, <1>3, <1>4, LastAdvances DEF ReadCode
<1>7. UnitStart' = pos + 1
  BY <1>1, <1>4, <1>6, UnitStartThen DEF ReadCode, AllRead
<1>8. Len(buffer) >= 3 /\ buffer' = SubSeq(buffer, 1, Len(buffer) - 3)
  BY DEF ReadCode
<1>9. Len(buffer') = Len(buffer) - 3 /\ buffer' \in Seq(Byte)
      /\ (Len(buffer) > 3 => buffer' # <<>>)
  <2>1. Len(buffer) - 3 \in 0..Len(buffer)
    BY <1>3, <1>8
  <2>2. Len(buffer) > 3 => Len(buffer) - 3 > 0
    BY <1>3
  <2>. QED  BY <1>3, <1>8, <2>1, <2>2, FrontOK
<1>10. ZerosOK' /\ FirstCodeOK' /\ FramesNotEmpty'
  BY <1>3, <1>4, <1>5 DEF ZerosOK, FramesNotEmpty, FirstCodeOK, ScanInv, ReadCode
<1>11. ByteOK'
  BY <1>3, <1>4, <1>5 DEF ByteOK, ReadCode
<1>12. ASSUME IsFrame(Header) PROVE Len(buffer) > 3
  <2>1. CASE pos < 4
    BY <1>3, <1>4, <1>12, <2>1 DEF ScanInv, FirstCodeOK, IsFrame, Header, NoHeader
  <2>2. CASE pos >= 4
    <3>1. /\ u =< pos /\ HeldLength = Len(buffer) - (pos - u) /\ HeldLength \in Nat
          /\ nal_header = IF pos = u THEN NoHeader ELSE file[u + 1] % 32
      BY <1>2, <2>2, ReadingUnit
    <3>2. u =< pos - 3
      <4>1. u - 4 \in Int /\ pos - 3 \in Int /\ u - 4 < pos - 3 /\ CodeAt(file, u - 4)
        BY <1>2, <1>4, <3>1 DEF LastCode
      <4>. QED  BY <1>2, <1>4, <4>1, CodesApart DEF ReadCode
    <3>3. file[u + 1] # 0
      <4>1. u + 1 \in 1..Len(file) /\ file[u + 1] \in Byte
        BY <1>3, <1>4, <3>2 DEF TypeOK
      <4>2. nal_header = file[u + 1] % 32 /\ nal_header # NoHeader
        BY <1>4, <3>1, <3>2, <4>1, HeaderRange
      <4>3. nal_header # 0
        BY <1>12, <4>2 DEF IsFrame, Header
      <4>. QED  BY <4>2, <4>3
    <3>4. u # pos - 3
      BY <1>4, <1>5, <3>3
    <3>. QED  BY <1>3, <1>4, <3>1, <3>2, <3>4
  <2>. QED  BY <1>4, <2>1, <2>2
<1>13. ASSUME pc' = "write" PROVE buffer' # <<>>
  <2>1. IsFrame(Header)
    BY <1>13 DEF ReadCode
  <2>2. Len(buffer) > 3
    BY <1>12, <2>1
  <2>. QED  BY <1>3, <1>9, <2>2
<1>14. BetweenOK'
  BY <1>3, <1>4, <1>7, <1>9, <1>13 DEF BetweenOK, ReadCode
<1>15. UnitOK'
  <2>1. ASSUME pc' = "new_frame" PROVE nal_header' = NoHeader
    BY <2>1 DEF ReadCode
  <2>2. HeldLength' = Len(buffer')
    BY <1>4, <1>7, <1>9 DEF HeldLength, Passed
  <2>. QED  BY <1>3, <1>4, <1>7, <1>9, <2>1, <2>2 DEF UnitOK
<1>. QED  BY <1>1, <1>4, <1>6, <1>10, <1>11, <1>14, <1>15, StoredRead DEF ScanInv, Passed, ReadCode

LEMMA StepInv ==
  ASSUME PlainFiles, file \in Files, ScanInv, [Next]_vars
  PROVE  ScanInv' /\ file' \in Files
<1>1. CASE NewFrame
  BY <1>1, NewFrameInv DEF NewFrame
<1>2. CASE EndOfFile
  BY <1>2, EndOfFileInv DEF EndOfFile
<1>3. CASE ReadByte
  <2>1. file' = file
    BY <1>3 DEF ReadByte
  <2>2. CASE ReadOverrun
    BY <1>3, <2>1, <2>2, ReadOverrunInv
  <2>3. CASE ReadAtEnd
    BY <1>3, <2>1, <2>3, ReadAtEndInv
  <2>4. CASE ReadPlain
    BY <1>3, <2>1, <2>4, ReadPlainInv
  <2>5. CASE ReadCode
    BY <1>3, <2>1, <2>5, ReadCodeInv
  <2>. QED  BY <1>3, <2>2, <2>3, <2>4, <2>5, ReadCases
<1>4. CASE WriteFrame
  BY <1>4, WriteFrameInv DEF WriteFrame
<1>5. CASE EndOfVideo
  BY <1>5, EndOfVideoInv DEF EndOfVideo
<1>6. CASE UNCHANGED vars
  BY <1>6, StutterInv DEF vars
<1>. QED  BY <1>1, <1>2, <1>3, <1>4, <1>5, <1>6 DEF Next

\* The scanner knows at every byte where it is in the video: how many zeros
\* it has passed, where the unit in its buffer begins and of what type it is
\* (the counters of new_frame, encoder.h).
THEOREM ScannerInvariant ==
  ASSUME PlainFiles
  PROVE  Spec => [](ScanInv /\ file \in Files)
<1>1. Init => ScanInv /\ file \in Files
  BY InitInv DEF Init
<1>2. ScanInv /\ file \in Files /\ [Next]_vars => (ScanInv /\ file \in Files)'
  BY StepInv
<1>. QED  BY <1>1, <1>2, PTL DEF Spec

\* The buffer of new_frame, of any length, against every plain video: it is
\* left behind its end, at the byte for which the frame, by what the video
\* says of it, leaves no place, and only there; before its beginning, never.
THEOREM InBufferUntilFull ==
  ASSUME PlainFiles
  PROVE  Spec => []InBuffer
<1>1. ScanInv => InBuffer
  BY DEF ScanInv, InBuffer
<1>. QED  BY <1>1, ScannerInvariant, PTL

\* read_file never asks the bus for a transfer of no words, with plain videos.
THEOREM FramesHaveWords ==
  ASSUME PlainFiles
  PROVE  Spec => []FramesNotEmpty
<1>1. ScanInv => FramesNotEmpty
  BY DEF ScanInv
<1>. QED  BY <1>1, ScannerInvariant, PTL

-----------------------------------------------------------------------------
(* The refinement: at the end of each start code, and at the end of the    *)
(* video, the scanner takes a step of the reader, and between them it      *)
(* stutters.  First, the sequences.                                        *)

\* The bytes of a unit stand behind the units held.
LEMMA UnitBehind ==
  ASSUME NEW b \in Seq(Byte), NEW f \in Seq(Byte), NEW h \in Nat,
         NEW u \in Nat, NEW q \in u..Len(f), h + (q - u) =< Len(b),
         \A k \in 1..(q - u) : b[h + k] = f[u + k]
  PROVE  SubSeq(b, 1, h + (q - u)) = SubSeq(b, 1, h) \o SubSeq(f, u + 1, q)
<1>. DEFINE n == q - u
            s == SubSeq(b, 1, h)
            t == SubSeq(f, u + 1, q)
            c == SubSeq(b, 1, h + n)
<1>1. n \in Nat /\ h + n \in 0..Len(b) /\ h \in 0..Len(b)
  OBVIOUS
<1>2. s \in Seq(Byte) /\ Len(s) = h /\ \A k \in 1..h : s[k] = b[k]
  BY <1>1, FrontOK
<1>3. c \in Seq(Byte) /\ Len(c) = h + n /\ \A k \in 1..(h + n) : c[k] = b[k]
  BY <1>1, FrontOK
<1>4. t \in Seq(Byte) /\ Len(t) = n /\ \A k \in 1..n : t[k] = f[u + k]
  <2>1. \A i \in (u + 1)..q : f[i] \in Byte
    OBVIOUS
  <2>. QED  BY <2>1, SubSeqProperties
<1>. HIDE DEF n, s, t, c
<1>5. s \o t \in Seq(Byte) /\ Len(s \o t) = h + n
        /\ \A k \in 1..(h + n) : (s \o t)[k] = IF k =< h THEN s[k] ELSE t[k - h]
  BY <1>1, <1>2, <1>4, ConcatProperties
<1>6. ASSUME NEW k \in 1..(h + n) PROVE c[k] = (s \o t)[k]
  <2>1. CASE k =< h
    <3>1. k \in 1..h
      BY <1>1, <2>1
    <3>. QED  BY <1>2, <1>3, <1>5, <2>1, <3>1
  <2>2. CASE ~(k =< h)
    <3>1. k - h \in 1..n /\ h + (k - h) = k
      BY <1>1, <2>2
    <3>2. (s \o t)[k] = t[k - h]
      BY <1>5, <2>2
    <3>3. b[h + (k - h)] = f[u + (k - h)]
      BY <3>1 DEF n
    <3>. QED  BY <1>3, <1>4, <3>1, <3>2, <3>3
  <2>. QED  BY <2>1, <2>2
<1>7. c = s \o t
  BY <1>3, <1>5, <1>6, SeqEqual
<1>. QED  BY <1>7 DEF n, s, t, c

LEMMA WithoutLast ==
  ASSUME NEW b \in Seq(Byte), NEW n \in Nat, Len(b) = n + 1
  PROVE  b = SubSeq(b, 1, n) \o <<b[n + 1]>>
<1>. DEFINE s == SubSeq(b, 1, n)
<1>1. s \in Seq(Byte) /\ Len(s) = n /\ \A k \in 1..n : s[k] = b[k]
  BY FrontOK
<1>2. b[n + 1] \in Byte
  OBVIOUS
<1>. HIDE DEF s
<1>3. b = s \o <<b[n + 1]>>
  BY <1>1, <1>2
<1>. QED  BY <1>3 DEF s

LEMMA FrontOfAppend ==
  ASSUME NEW b \in Seq(Byte), NEW c \in Byte, NEW n \in 0..Len(b)
  PROVE  SubSeq(Append(b, c), 1, n) = SubSeq(b, 1, n)
<1>1. Append(b, c) \in Seq(Byte) /\ Len(Append(b, c)) = Len(b) + 1
      /\ \A k \in 1..n : Append(b, c)[k] = b[k]
  OBVIOUS
<1>2. n \in 0..Len(Append(b, c))
  BY <1>1
<1>3. /\ SubSeq(Append(b, c), 1, n) \in Seq(Byte) /\ Len(SubSeq(Append(b, c), 1, n)) = n
      /\ \A k \in 1..n : SubSeq(Append(b, c), 1, n)[k] = b[k]
  BY <1>1, <1>2, FrontOK
<1>4. /\ SubSeq(b, 1, n) \in Seq(Byte) /\ Len(SubSeq(b, 1, n)) = n
      /\ \A k \in 1..n : SubSeq(b, 1, n)[k] = b[k]
  BY FrontOK
<1>. QED  BY <1>3, <1>4, SeqEqual

\* The bytes of the words written are the bytes of the frames.
LEMMA BytesOK ==
  ASSUME NEW w \in Seq(Seq(-128..127))
  PROVE  Bytes(w) \in Seq(Seq(Byte)) /\ Len(Bytes(w)) = Len(w)
<1>1. \A x \in -128..127 : AsByte(x) \in Byte
  BY DEF AsByte, Byte
<1>2. ASSUME NEW s \in Seq(-128..127) PROVE [j \in DOMAIN s |-> AsByte(s[j])] \in Seq(Byte)
  <2>1. Len(s) \in Nat /\ DOMAIN s = 1..Len(s) /\ \A j \in 1..Len(s) : s[j] \in -128..127
    BY LenProperties, ElementOfSeq
  <2>2. \A j \in 1..Len(s) : AsByte(s[j]) \in Byte
    BY <1>1, <2>1
  <2>3. [j \in 1..Len(s) |-> AsByte(s[j])] \in Seq(Byte)
    BY <2>1, <2>2
  <2>. QED  BY <2>1, <2>3
<1>3. Len(w) \in Nat /\ DOMAIN w = 1..Len(w) /\ \A i \in 1..Len(w) : w[i] \in Seq(-128..127)
  OBVIOUS
<1>. DEFINE e(i) == [j \in DOMAIN w[i] |-> AsByte(w[i][j])]
<1>4. \A i \in 1..Len(w) : e(i) \in Seq(Byte)
  BY <1>2, <1>3
<1>5. Bytes(w) = [i \in 1..Len(w) |-> e(i)]
  BY <1>3 DEF Bytes
<1>. HIDE DEF e
<1>. QED  BY <1>3, <1>4, <1>5

LEMMA BytesAppend ==
  ASSUME NEW w \in Seq(Seq(-128..127)), NEW b \in Seq(Byte)
  PROVE  Bytes(Append(w, Words(b))) = Append(Bytes(w), b)
<1>1. Words(b) \in Seq(-128..127) /\ Len(Words(b)) = Len(b)
      /\ \A i \in 1..Len(b) : AsByte(Words(b)[i]) = b[i]
  BY WordsOK
<1>2. [j \in DOMAIN Words(b) |-> AsByte(Words(b)[j])] = b
  <2>1. DOMAIN Words(b) = 1..Len(b) /\ b = [i \in 1..Len(b) |-> b[i]]
    BY <1>1
  <2>. QED  BY <1>1, <2>1
<1>. DEFINE v == Words(b)
<1>. HIDE DEF v
<1>3. Append(w, v) \in Seq(Seq(-128..127)) /\ Len(Append(w, v)) = Len(w) + 1
      /\ Append(w, v)[Len(w) + 1] = v /\ \A i \in 1..Len(w) : Append(w, v)[i] = w[i]
  BY <1>1 DEF v
<1>4. Bytes(w) \in Seq(Seq(Byte)) /\ Len(Bytes(w)) = Len(w)
      /\ Bytes(Append(w, v)) \in Seq(Seq(Byte)) /\ Len(Bytes(Append(w, v))) = Len(w) + 1
  BY <1>3, BytesOK
<1>5. Append(Bytes(w), b) \in Seq(Seq(Byte)) /\ Len(Append(Bytes(w), b)) = Len(w) + 1
  BY <1>4
<1>6. ASSUME NEW i \in 1..(Len(w) + 1) PROVE Bytes(Append(w, v))[i] = Append(Bytes(w), b)[i]
  <2>1. CASE i = Len(w) + 1
    BY <1>2, <1>3, <1>4, <2>1 DEF Bytes, v
  <2>2. CASE i # Len(w) + 1
    BY <1>3, <1>4, <2>2 DEF Bytes
  <2>. QED  BY <2>1, <2>2
<1>7. Bytes(Append(w, v)) = Append(Bytes(w), b)
  BY <1>4, <1>5, <1>6, SeqEqual
<1>. QED  BY <1>7 DEF v

-----------------------------------------------------------------------------
(* Stuttering. *)

LEMMA FramesBetween ==
  ASSUME TypeOK, pc # "write"
  PROVE  FramesRead = Bytes(frames)
<1>1. Bytes(frames) \in Seq(Seq(Byte))
  BY BytesOK DEF TypeOK
<1>. QED  BY <1>1 DEF FramesRead

LEMMA FramesAtWrite ==
  ASSUME TypeOK, pc = "write"
  PROVE  FramesRead = Append(Bytes(frames), buffer)
<1>1. Bytes(frames) \in Seq(Seq(Byte)) /\ buffer \in Seq(Byte)
  BY BytesOK DEF TypeOK
<1>. QED  BY <1>1 DEF FramesRead

\* The same of the next state.
LEMMA FramesThen ==
  ASSUME TypeOK'
  PROVE  FramesRead' = IF pc' = "write" THEN Append(Bytes(frames'), buffer') ELSE Bytes(frames')
<1>1. Bytes(frames') \in Seq(Seq(Byte)) /\ buffer' \in Seq(Byte)
  BY BytesOK DEF TypeOK
<1>. QED  BY <1>1 DEF FramesRead

LEMMA InitReader ==
  ASSUME PlainFiles, Init
  PROVE  Reader!Init
<1>1. TypeOK /\ file \in Seq(Byte) /\ Len(file) \in Nat /\ 4 =< Len(file) /\ CodeAt(file, 0)
  BY InitInv, FileOK DEF ScanInv, TypeOK, Init, Plain
<1>2. LastCode(file, pos, 4)
  BY <1>1 DEF Init, LastCode, Codes
<1>3. UnitStart = 4
  BY <1>1, <1>2, UnitStartIs DEF AllRead, Init
<1>4. FramesRead = <<>>
  <2>1. frames \in Seq(Seq(-128..127)) /\ Len(frames) = 0 /\ pc # "write"
    BY <1>1 DEF TypeOK, Init
  <2>2. Bytes(frames) \in Seq(Seq(Byte)) /\ Len(Bytes(frames)) = 0
    BY <2>1, BytesOK
  <2>. QED  BY <1>1, <2>1, <2>2, FramesBetween
<1>. QED  BY <1>1, <1>3, <1>4 DEF Reader!Init, UnitsHeld, Passed, Init, Byte

LEMMA NewFrameStutters ==
  ASSUME PlainFiles, file \in Files, ScanInv, ScanInv', NewFrame
  PROVE  UNCHANGED Reader!vars
<1>1. TypeOK /\ TypeOK' /\ file' = file /\ pos' = pos /\ feof' = feof /\ ~feof
      /\ frames' = frames /\ pc = "read_file" /\ pc' = "new_frame" /\ buffer' = <<>>
      /\ Len(file) \in Nat /\ pos \in 0..Len(file)
  BY DEF ScanInv, NewFrame, TypeOK
<1>2. UnitStart' = UnitStart
  BY <1>1 DEF UnitStart, Passed, AllRead
<1>3. FramesRead' = FramesRead
  BY <1>1, FramesBetween, FramesThen
<1>4. UnitsHeld' = <<>>
  <2>1. CASE pos < 4
    BY <1>1, <2>1 DEF UnitsHeld, Passed
  <2>2. CASE pos >= 4
    <3>1. pos = UnitStart
      BY <1>1, <2>2 DEF ScanInv, BetweenOK
    <3>2. HeldLength' = 0
      BY <1>1, <1>2, <3>1 DEF HeldLength, Passed
    <3>. QED  BY <1>1, <3>2, SubSeqEmpty DEF UnitsHeld, Passed
  <2>. QED  BY <1>1, <2>1, <2>2
<1>5. UnitsHeld = <<>>
  BY <1>1 DEF UnitsHeld, Passed
<1>. QED  BY <1>1, <1>2, <1>3, <1>4, <1>5 DEF Reader!vars

LEMMA WriteFrameStutters ==
  ASSUME ScanInv, ScanInv', WriteFrame
  PROVE  UNCHANGED Reader!vars
<1>1. TypeOK /\ TypeOK' /\ file' = file /\ pos' = pos /\ feof' = feof
      /\ frames' = Append(frames, Words(buffer)) /\ pc = "write" /\ pc' \in {"done", "read_file"}
  BY DEF ScanInv, WriteFrame
<1>2. UnitStart' = UnitStart /\ UnitsHeld' = UnitsHeld
  BY <1>1 DEF UnitStart, Passed, AllRead, UnitsHeld
<1>3. Bytes(frames') = Append(Bytes(frames), buffer)
  BY <1>1, BytesAppend DEF TypeOK
<1>4. FramesRead' = FramesRead
  BY <1>1, <1>3, FramesAtWrite, FramesThen
<1>. QED  BY <1>1, <1>2, <1>4 DEF Reader!vars

LEMMA EndOfVideoStutters ==
  ASSUME EndOfVideo
  PROVE  UNCHANGED Reader!vars
BY DEF EndOfVideo, Reader!vars, UnitStart, Passed, AllRead, UnitsHeld, FramesRead

LEMMA UnchangedStutters ==
  ASSUME UNCHANGED vars
  PROVE  UNCHANGED Reader!vars
BY DEF vars, Reader!vars, UnitStart, Passed, AllRead, UnitsHeld, HeldLength, FramesRead

\* A byte that completes no start code.
LEMMA ReadStutters ==
  ASSUME PlainFiles, file \in Files, ScanInv, ScanInv', ReadByte, ReadAtEnd \/ ReadPlain
  PROVE  UNCHANGED Reader!vars
<1>1. PICK u \in 4..Len(file) : LastCode(file, pos, u)
  BY DEF ScanInv, Passed, ReadByte
<1>2. /\ TypeOK /\ TypeOK' /\ Len(file) \in Nat /\ pos \in 0..Len(file) /\ Plain(file)
      /\ buffer \in Seq(Byte) /\ ~feof /\ pc = "new_frame"
  BY Reading DEF ScanInv
<1>3. /\ file' = file /\ frames' = frames /\ pc' = "new_frame" /\ cur_byte' \in Byte
      /\ buffer' = Append(buffer, cur_byte') /\ Len(buffer') = Len(buffer) + 1
  <2>1. cur_byte' \in Byte
    <3>1. pos = Len(file) => pos \in 1..Len(file)
      BY <1>2 DEF Plain, CodeAt
    <3>2. pos < Len(file) => pos + 1 \in 1..Len(file)
      BY <1>2
    <3>. QED  BY <1>2, <3>1, <3>2 DEF ReadAtEnd, ReadPlain, TypeOK
  <2>. QED  BY <1>2, <2>1 DEF ReadAtEnd, ReadPlain
<1>4. \/ pos' = pos /\ feof' = TRUE
      \/ pos < Len(file) /\ pos' = pos + 1 /\ feof' = FALSE /\ ~(pos >= 3 /\ CodeAt(file, pos - 3))
  BY DEF ReadAtEnd, ReadPlain
<1>5. LastCode(file', pos', u)
  <2>1. CASE pos' = pos
    BY <1>1, <1>3, <2>1
  <2>2. CASE pos < Len(file) /\ pos' = pos + 1 /\ ~(pos >= 3 /\ CodeAt(file, pos - 3))
    <3>1. pos \in 0..(Len(file) - 1)
      BY <1>2, <2>2
    <3>. QED  BY <1>1, <1>2, <1>3, <2>2, <3>1, LastAdvances
  <2>. QED  BY <1>4, <2>1, <2>2
<1>6. UnitStart = u /\ UnitStart' = u
  BY <1>1, <1>2, <1>3, <1>5, UnitStartIs, UnitStartThen DEF AllRead
<1>7. FramesRead' = FramesRead
  BY <1>2, <1>3, FramesBetween, FramesThen
<1>8. pos >= 4 <=> pos' >= 4
  <2>1. pos = Len(file) => pos >= 4
    BY <1>2 DEF Plain, CodeAt
  <2>. QED  BY <1>2, <1>4, <2>1 DEF Plain
<1>9. UnitsHeld' = UnitsHeld
  <2>1. CASE ~(pos >= 4)
    BY <1>2, <1>3, <1>8, <2>1 DEF UnitsHeld, Passed
  <2>2. CASE pos >= 4
    <3>1. u =< pos /\ HeldLength = Len(buffer) - (pos - u) /\ HeldLength \in Nat
      BY <1>1, <2>2, ReadingUnit
    <3>2. HeldLength' = HeldLength
      <4>1. CASE pos' = pos /\ feof' = TRUE
        BY <1>2, <1>3, <1>6, <3>1, <4>1 DEF HeldLength, Passed
      <4>2. CASE pos' = pos + 1 /\ feof' = FALSE
        BY <1>2, <1>3, <1>6, <3>1, <4>2 DEF HeldLength, Passed
      <4>. QED  BY <1>4, <4>1, <4>2
    <3>3. HeldLength \in 0..Len(buffer)
      BY <1>2, <3>1
    <3>. QED  BY <1>2, <1>3, <1>8, <2>2, <3>2, <3>3, FrontOfAppend DEF UnitsHeld, Passed
  <2>. QED  BY <2>1, <2>2
<1>. QED  BY <1>3, <1>6, <1>7, <1>9 DEF Reader!vars

\* A byte without a place in the buffer.
LEMMA OverrunStutters ==
  ASSUME PlainFiles, file \in Files, ScanInv, ScanInv', ReadByte, ReadOverrun
  PROVE  UNCHANGED Reader!vars
<1>1. /\ TypeOK /\ TypeOK' /\ pos \in 0..Len(file) /\ Len(file) \in Nat /\ ~feof /\ pc = "new_frame"
  BY Reading DEF ScanInv
<1>2. file' = file /\ frames' = frames /\ buffer' = buffer /\ pc' = "overrun"
  BY DEF ReadOverrun
<1>3. Passed' = pos /\ Passed = pos
  BY <1>1 DEF ReadOverrun, Passed
<1>4. UnitStart' = UnitStart
  BY <1>1, <1>2, <1>3 DEF UnitStart, AllRead
<1>5. HeldLength' = HeldLength
  BY <1>1, <1>2, <1>3, <1>4 DEF HeldLength
<1>6. UnitsHeld' = UnitsHeld
  BY <1>1, <1>2, <1>3, <1>5 DEF UnitsHeld
<1>7. FramesRead' = FramesRead
  BY <1>1, <1>2, FramesBetween, FramesThen
<1>. QED  BY <1>2, <1>4, <1>6, <1>7 DEF Reader!vars

-----------------------------------------------------------------------------
(* The reader's steps.                                                     *)

\* The unit that begins behind the last start code ends at the next one, or at
\* the end of the video.
LEMMA UnitEnds ==
  ASSUME file \in Seq(Byte), NEW u \in 4..Len(file), NEW n \in 0..Len(file),
         LastCode(file, n, u), NEW q \in u..Len(file), q =< n,
         Reader!CodeAt(q) \/ q = Len(file), q =< n - 3 \/ n = Len(file)
  PROVE  Reader!EndsAt(u, q)
<1>1. Len(file) \in Nat
  OBVIOUS
<1>2. ASSUME NEW r \in u..(q - 1) PROVE ~Reader!CodeAt(r)
  <2>1. SUFFICES ASSUME CodeAt(file, r) PROVE FALSE
    BY DEF CodeAt, Reader!CodeAt
  <2>2. r \in Codes(file)
    BY <1>1, <2>1 DEF Codes
  <2>3. r + 4 =< n
    <3>1. CASE q =< n - 3
      BY <1>1, <3>1
    <3>2. CASE n = Len(file)
      BY <1>1, <2>1, <3>2 DEF CodeAt
    <3>. QED  BY <3>1, <3>2
  <2>4. r + 4 =< u
    BY <2>2, <2>3 DEF LastCode
  <2>. QED  BY <1>1, <2>4
<1>. QED  BY <1>2 DEF Reader!EndsAt

LEMMA EndOfFileDelivers ==
  ASSUME PlainFiles, file \in Files, ScanInv, ScanInv', EndOfFile
  PROVE  Reader!Next
<1>1. PICK u \in 4..Len(file) : LastCode(file, pos, u)
  BY DEF ScanInv, Passed, EndOfFile
<1>2. /\ TypeOK /\ TypeOK' /\ Len(file) \in Nat /\ 4 =< Len(file) /\ Plain(file)
      /\ feof /\ feof' = feof /\ pos = Len(file) /\ pos' = pos /\ file' = file
      /\ buffer' = buffer /\ frames' = frames /\ pc = "new_frame" /\ pc' = "write"
      /\ Len(frames) < FrameLimit /\ buffer \in Seq(Byte)
  BY FileOK DEF ScanInv, EndOfFile, BetweenOK, TypeOK
<1>3. UnitStart = u /\ UnitStart' = Len(file)
  BY <1>1, <1>2, UnitStartIs DEF AllRead, UnitStart, Passed
<1>4. u < Len(file)
  BY <1>1, <1>2 DEF LastCode, Plain
<1>. DEFINE h == HeldLength
            n == Len(file)
<1>5. /\ h \in Nat /\ Len(buffer) = h + (n - u) + 1
      /\ \A k \in 1..(n - u) : buffer[h + k] = file[u + k]
      /\ buffer[Len(buffer)] = file[n]
  <2>1. HeldLength = Len(buffer) - (pos - u) - 1
    BY <1>2, <1>3 DEF HeldLength, Passed
  <2>2. /\ HeldLength >= 0 /\ buffer[Len(buffer)] = file[pos]
        /\ \A k \in 1..(pos - u) : buffer[HeldLength + k] = file[u + k]
    BY <1>2, <1>3 DEF ScanInv, UnitOK
  <2>. QED  BY <1>2, <2>1, <2>2
<1>6. UnitsHeld = SubSeq(buffer, 1, h) /\ UnitsHeld' = <<>>
  BY <1>2 DEF UnitsHeld, Passed
<1>. HIDE DEF h
<1>7. SubSeq(buffer, 1, h + (n - u)) = SubSeq(buffer, 1, h) \o SubSeq(file, u + 1, n)
  <2>1. h + (n - u) =< Len(buffer) /\ u \in Nat /\ n \in u..Len(file) /\ file \in Seq(Byte)
    BY <1>2, <1>5 DEF TypeOK
  <2>. QED  BY <1>2, <1>5, <2>1, UnitBehind
<1>8. buffer = SubSeq(buffer, 1, h) \o SubSeq(file, u + 1, n) \o <<file[n]>>
  <2>1. h + (n - u) \in Nat
    BY <1>2, <1>5
  <2>2. buffer = SubSeq(buffer, 1, h + (n - u)) \o <<buffer[h + (n - u) + 1]>>
    BY <1>2, <1>5, <2>1, WithoutLast
  <2>. QED  BY <1>5, <1>7, <2>2
<1>9. FramesRead = Bytes(frames) /\ FramesRead' = Append(FramesRead, buffer)
  BY <1>2, FramesBetween, FramesThen
<1>10. Len(FramesRead) < FrameLimit
  BY <1>2, <1>9, BytesOK DEF TypeOK
<1>11. Reader!EndsAt(u, n)
  <2>1. file \in Seq(Byte) /\ n \in 0..Len(file) /\ n \in u..Len(file) /\ n =< n
    BY <1>2, <1>4 DEF TypeOK
  <2>. QED  BY <1>1, <1>2, <2>1, UnitEnds
<1>12. Reader!DeliverLast(n)
  <2>1. FramesRead' = Append(FramesRead, UnitsHeld \o SubSeq(file, UnitStart + 1, n) \o <<file[n]>>)
    BY <1>3, <1>6, <1>8, <1>9
  <2>. QED  BY <1>2, <1>3, <1>6, <2>1 DEF Reader!DeliverLast
<1>13. n \in u..Len(file)
  BY <1>2, <1>4
<1>. QED  BY <1>3, <1>4, <1>10, <1>11, <1>12, <1>13 DEF Reader!Next

LEMMA ReadCodeDelivers ==
  ASSUME PlainFiles, file \in Files, ScanInv, ScanInv', ReadByte, ReadCode
  PROVE  Reader!Next \/ UNCHANGED Reader!vars
<1>1. PICK u \in 4..Len(file) : LastCode(file, pos, u)
  BY DEF ScanInv, Passed, ReadByte
<1>2. /\ TypeOK /\ TypeOK' /\ Len(file) \in Nat /\ pos \in 0..Len(file) /\ Plain(file)
      /\ buffer \in Seq(Byte) /\ ~feof /\ pc = "new_frame" /\ Len(frames) < FrameLimit
      /\ Len(buffer) =< pos
  BY Reading DEF ScanInv
<1>3. /\ pos \in 3..(Len(file) - 1) /\ pos' = pos + 1 /\ feof' = FALSE /\ file' = file
      /\ frames' = frames /\ Len(buffer) >= 3 /\ buffer' = SubSeq(buffer, 1, Len(buffer) - 3)
      /\ pos + 1 \in 4..Len(file) /\ CodeAt(file, pos - 3) /\ pc' \in {"new_frame", "write"}
  BY <1>2 DEF ReadCode
<1>4. LastCode(file, pos + 1, pos + 1)
  BY <1>1, <1>2, <1>3, LastAdvances
<1>5. UnitStart' = pos + 1
  BY <1>2, <1>3, <1>4, UnitStartThen DEF ReadCode, AllRead
<1>6. FramesRead = Bytes(frames)
      /\ FramesRead' = IF pc' = "write" THEN Append(Bytes(frames), buffer') ELSE Bytes(frames)
  BY <1>2, <1>3, FramesBetween, FramesThen
<1>7. Len(buffer) - 3 \in 0..Len(buffer)
  BY <1>2, <1>3
<1>8. buffer' \in Seq(Byte) /\ Len(buffer') = Len(buffer) - 3
  BY <1>2, <1>3, <1>7, FrontOK
<1>9. UnitsHeld' = IF pc' = "new_frame" THEN buffer' ELSE <<>>
  <2>1. Passed' = pos + 1 /\ pos + 1 >= 4
    BY <1>3 DEF Passed
  <2>2. HeldLength' = Len(buffer')
    BY <1>2, <1>3, <1>5, <1>8, <2>1 DEF HeldLength
  <2>3. SubSeq(buffer', 1, Len(buffer')) = buffer'
    BY <1>8, SubSeqFull
  <2>. QED  BY <1>3, <2>1, <2>2, <2>3 DEF UnitsHeld
<1>10. CASE pos < 4
  <2>1. pos = 3 /\ Len(buffer) = 3 /\ nal_header = 0
    BY <1>2, <1>3, <1>10 DEF ScanInv, FirstCodeOK
  <2>2. pc' = "new_frame"
    BY <2>1 DEF ReadCode, Header, IsFrame, NoHeader
  <2>3. u = 4
    BY <1>1, <1>2, <2>1 DEF LastCode
  <2>4. UnitStart' = UnitStart
    BY <1>1, <1>2, <1>5, <2>1, <2>3, UnitStartIs DEF AllRead
  <2>5. UnitsHeld = <<>> /\ UnitsHeld' = <<>>
    BY <1>8, <1>9, <1>10, <2>1, <2>2 DEF UnitsHeld, Passed
  <2>. QED  BY <1>3, <1>6, <2>2, <2>4, <2>5 DEF Reader!vars
<1>11. CASE pos >= 4
  <2>. DEFINE h == HeldLength
              q == pos - 3
  <2>1. /\ u =< pos /\ UnitStart = u
        /\ h = Len(buffer) - (pos - u) /\ h \in Nat
        /\ \A k \in 1..(pos - u) : buffer[h + k] = file[u + k]
        /\ nal_header = IF pos = u THEN NoHeader ELSE file[u + 1] % 32
    BY <1>1, <1>11, ReadingUnit
  <2>2. u =< q
    <3>1. u - 4 \in Int /\ pos - 3 \in Int /\ u - 4 < pos - 3 /\ CodeAt(file, u - 4)
      BY <1>1, <1>3, <2>1 DEF LastCode
    <3>. QED  BY <1>1, <1>3, <3>1, CodesApart
  <2>3. Header = file[u + 1] % 32
    <3>1. u + 1 \in 1..Len(file) /\ file[u + 1] \in Byte
      BY <1>2, <1>3, <2>2 DEF TypeOK
    <3>. QED  BY <1>3, <2>1, <2>2, <3>1, HeaderRange DEF Header
  <2>4. UnitsHeld = SubSeq(buffer, 1, h)
    BY <1>2, <1>11 DEF UnitsHeld, Passed
  <2>5. q \in u..Len(file) /\ q \in Nat /\ q + 4 = pos + 1 /\ q + 3 = pos /\ q = pos - 3
    BY <1>3, <2>2
  <2>. HIDE DEF h, q
  <2>6. buffer' = SubSeq(buffer, 1, h) \o SubSeq(file, u + 1, q)
    <3>1. h + (q - u) = Len(buffer) - 3
      BY <1>2, <1>3, <2>1, <2>5
    <3>2. \A k \in 1..(q - u) : buffer[h + k] = file[u + k]
      <4>1. \A k \in 1..(q - u) : k \in 1..(pos - u)
        BY <1>2, <2>1, <2>5
      <4>. QED  BY <2>1, <4>1
    <3>3. file \in Seq(Byte) /\ u \in Nat /\ buffer \in Seq(Byte) /\ h \in Nat
          /\ q \in u..Len(file) /\ h + (q - u) =< Len(buffer)
      BY <1>2, <2>1, <2>5, <3>1 DEF TypeOK
    <3>4. SubSeq(buffer, 1, h + (q - u)) = SubSeq(buffer, 1, h) \o SubSeq(file, u + 1, q)
      BY <3>2, <3>3, UnitBehind
    <3>. QED  BY <1>3, <3>1, <3>4
  <2>7. Reader!CodeAt(q)
    BY <1>3, <2>5 DEF CodeAt, Reader!CodeAt
  <2>8. Reader!EndsAt(u, q)
    <3>1. file \in Seq(Byte) /\ q =< pos /\ q =< pos - 3
      BY <1>2, <1>3, <2>5 DEF TypeOK
    <3>. QED  BY <1>1, <1>2, <2>5, <2>7, <3>1, UnitEnds
  <2>9. Len(FramesRead) < FrameLimit
    BY <1>2, <1>6, BytesOK DEF TypeOK
  <2>10. UnitStart' = q + 4 /\ UnitStart < Len(file)
    BY <1>3, <1>5, <2>1, <2>2, <2>5 DEF q
  <2>11. CASE IsFrame(Header)
    <3>1. Reader!OfPicture(u)
      <4>1. u + 1 \in 1..Len(file) /\ file[u + 1] \in Byte
        BY <1>2, <1>3, <2>5 DEF TypeOK
      <4>2. file[u + 1] % 32 \in 0..31
        BY <4>1, HeaderRange
      <4>3. Header \in 1..6
        BY <2>3, <2>11, <4>2, FrameTypes
      <4>. QED  BY <2>3, <4>3 DEF Reader!OfPicture
    <3>2. pc' = "write"
      BY <2>11 DEF ReadCode
    <3>3. Reader!Deliver(q)
      BY <1>3, <1>6, <1>9, <2>1, <2>4, <2>6, <2>7, <2>10, <3>1, <3>2 DEF Reader!Deliver
    <3>. QED  BY <2>1, <2>5, <2>8, <2>9, <2>10, <3>3 DEF Reader!Next
  <2>12. CASE ~IsFrame(Header)
    <3>1. ~Reader!OfPicture(u)
      <4>1. file[u + 1] % 32 \in 1..6 => IsFrame(Header)
        BY <2>3 DEF IsFrame
      <4>. QED  BY <2>12, <4>1 DEF Reader!OfPicture
    <3>2. pc' = "new_frame"
      BY <2>12 DEF ReadCode
    <3>3. Reader!Hold(q)
      BY <1>3, <1>6, <1>9, <2>1, <2>4, <2>6, <2>7, <2>10, <3>1, <3>2 DEF Reader!Hold
    <3>. QED  BY <2>1, <2>5, <2>8, <2>9, <2>10, <3>3 DEF Reader!Next
  <2>. QED  BY <2>11, <2>12
<1>. QED  BY <1>3, <1>10, <1>11

-----------------------------------------------------------------------------
\* new_frame, byte by byte, delivers the units of the video in order, cut into
\* frames behind each unit of a picture, and nothing is missing: whatever the
\* video, as long as only its start codes look like start codes.
THEOREM ScannerImplementsReader ==
  ASSUME PlainFiles
  PROVE  Spec => ReadsUnits
<1>1. Init => Reader!Init
  BY InitReader
<1>2. ScanInv /\ file \in Files /\ ScanInv' /\ [Next]_vars => [Reader!Next]_(Reader!vars)
  <2>. SUFFICES ASSUME ScanInv, file \in Files, ScanInv', [Next]_vars
                PROVE  Reader!Next \/ UNCHANGED Reader!vars
    OBVIOUS
  <2>1. CASE NewFrame
    BY <2>1, NewFrameStutters
  <2>2. CASE EndOfFile
    BY <2>2, EndOfFileDelivers
  <2>3. CASE ReadByte
    BY <2>3, ReadCases, OverrunStutters, ReadStutters, ReadCodeDelivers
  <2>4. CASE WriteFrame
    BY <2>4, WriteFrameStutters
  <2>5. CASE EndOfVideo
    BY <2>5, EndOfVideoStutters
  <2>6. CASE UNCHANGED vars
    BY <2>6, UnchangedStutters
  <2>. QED  BY <2>1, <2>2, <2>3, <2>4, <2>5, <2>6 DEF Next
<1>. QED  BY <1>1, <1>2, ScannerInvariant, PTL DEF Spec, ReadsUnits, Reader!Spec

=============================================================================
