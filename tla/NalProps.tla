------------------------------ MODULE NalProps ------------------------------
(***************************************************************************)
(* What the reading of frames promises, for videos of the kind its         *)
(* comments speak of: NAL units behind the message 0x00000001.             *)
(***************************************************************************)
EXTENDS NalScanner, FiniteSets, SequencesExt

-----------------------------------------------------------------------------
(* Videos. *)

CodeAt(f, p) ==
  p + 4 =< Len(f) /\ f[p + 1] = 0 /\ f[p + 2] = 0 /\ f[p + 3] = 0 /\ f[p + 4] = 1

\* Two zeros and a small byte, which new_frame takes for a separation.
LooksLikeCode(f, p) ==
  p + 3 =< Len(f) /\ f[p + 1] = 0 /\ f[p + 2] = 0 /\ f[p + 3] \in {1, 2, 3}

\* The video begins with a start code, does not end with one, and nothing
\* else in it looks like one.
Plain(f) ==
  /\ CodeAt(f, 0)
  /\ ~CodeAt(f, Len(f) - 4)
  /\ \A p \in 0..Len(f) : LooksLikeCode(f, p) => p > 0 /\ CodeAt(f, p - 1)

Codes(f) == {p \in 0..Len(f) : CodeAt(f, p)}

\* The last start code in the first n bytes of f ends at u.  The first one
\* counts even if it does not end there.
LastCode(f, n, u) ==
  /\ u \in 4..Len(f) /\ CodeAt(f, u - 4)
  /\ u =< n \/ u = 4
  /\ \A p \in Codes(f) : p + 4 =< n => p + 4 =< u

UnitOf(f, n) == CHOOSE u \in 4..Len(f) : LastCode(f, n, u)

\* A frame begins behind the first start code, and behind one that ends a unit
\* of a picture.
FrameAt(f, w) ==
  /\ w \in 4..Len(f) /\ CodeAt(f, w - 4)
  /\ w = 4 \/ f[UnitOf(f, w - 1) + 1] % 32 \in 1..6

\* The last frame begun in the first n bytes of f begins behind w.
LastFrame(f, n, w) ==
  /\ FrameAt(f, w)
  /\ w =< n \/ w = 4
  /\ \A v \in (w + 1)..n : ~FrameAt(f, v)

FrameOf(f, n) == CHOOSE w \in 4..Len(f) : LastFrame(f, n, w)

CodesIn(f, w, n) == {p \in Codes(f) : w =< p /\ p + 4 =< n}

\* How much of the video is in the buffer behind its first n bytes: what there
\* is of the last frame, without the start codes inside it.
StoredAt(f, n) ==
  LET w == FrameOf(f, n)
  IN  IF n < 4 THEN n ELSE n - w - 4 * Cardinality(CodesIn(f, w, n))

\* There is a place in the buffer where it is fullest: for the last byte of each
\* start code, and for the one stored at the end of the file.
FramesFit(f) ==
  \A n \in {p + 3 : p \in Codes(f)} \cup {Len(f)} : StoredAt(f, n) < BufferSize

-----------------------------------------------------------------------------
(* The abstract reader. *)

AllRead == feof /\ pc \notin {"new_frame", "overrun"}

\* How far the video is in the buffer: without a byte that has no place in it.
Passed == IF pc = "overrun" /\ ~feof THEN pos - 1 ELSE pos

\* Where the unit begins that is being read.
UnitStart == IF AllRead THEN Len(file) ELSE UnitOf(file, Passed)

\* The buffer without the bytes of that unit, and without the one stored at
\* the end of the file.
HeldLength ==
  Len(buffer) - (Passed - UnitStart) - (IF feof /\ pc # "overrun" THEN 1 ELSE 0)

UnitsHeld ==
  IF pc \in {"new_frame", "overrun"} /\ Passed >= 4 THEN SubSeq(buffer, 1, HeldLength) ELSE <<>>

AsByte(word) == word % 256

Bytes(written) == [i \in DOMAIN written |-> [j \in DOMAIN written[i] |-> AsByte(written[i][j])]]

FramesRead == Bytes(frames) \o (IF pc = "write" THEN <<buffer>> ELSE <<>>)

Reader == INSTANCE NalReader WITH at <- UnitStart, held <- UnitsHeld, frames <- FramesRead

-----------------------------------------------------------------------------
(* Properties. *)

TypeOK ==
  /\ file \in Seq(Byte)
  /\ pos \in 0..Len(file)
  /\ feof \in BOOLEAN
  /\ buffer \in Seq(Byte) /\ Len(buffer) =< BufferSize
  /\ nal_header \in 0..31 \cup {NoHeader}
  /\ zeros \in 0..(Len(file) + 1)
  /\ cur_byte \in Byte \cup {NoByte}
  /\ frames \in Seq(Seq(-128..127)) /\ Len(frames) =< FrameLimit
  /\ pc \in {"read_file", "new_frame", "write", "done", "overrun", "underrun"}

-----------------------------------------------------------------------------
(* The inductive invariant: where the scanner is in the video. *)

\* zeros counts the zeros in front of pos, all of them.
ZerosOK ==
  ~feof /\ pc # "overrun" =>
    /\ zeros =< pos
    /\ \A p \in (pos - zeros + 1)..pos : file[p] = 0
    /\ zeros < pos => file[pos - zeros] # 0

\* What cur_byte is when the next read may leave it alone.
ByteOK ==
  pc = "new_frame" =>
    /\ zeros > 0 => cur_byte = 0
    /\ cur_byte # NoByte => pos > 0 /\ cur_byte = file[pos]

\* What new_frame knows of the unit it reads, which is behind the units held.
UnitOK ==
  pc = "new_frame" /\ pos >= 4 =>
    /\ HeldLength >= 0
    /\ \A k \in 1..(pos - UnitStart) : buffer[HeldLength + k] = file[UnitStart + k]
    /\ feof => buffer[Len(buffer)] = file[pos]
    /\ nal_header = IF pos = UnitStart THEN NoHeader ELSE file[UnitStart + 1] % 32
    /\ cur_byte = NoByte => pos = UnitStart

\* The first unit has only the start code in front of it.
FirstCodeOK ==
  pc = "new_frame" /\ pos < 4 =>
    /\ Len(buffer) = pos
    /\ nal_header = IF pos = 0 THEN NoHeader ELSE 0
    /\ frames = <<>> /\ ~feof

BetweenOK ==
  /\ feof => pos = Len(file)
  /\ Len(buffer) =< pos + (IF feof THEN 1 ELSE 0)
  /\ pc \in {"read_file", "write"} /\ ~feof =>
       /\ zeros = 0
       /\ pos = UnitStart \/ (pos = 0 /\ pc = "read_file" /\ frames = <<>>)
  /\ pc = "write" => buffer # <<>>
  /\ pc \in {"new_frame", "write"} \/ (pc = "read_file" /\ ~feof) => Len(frames) < FrameLimit

\* The reads of fread, the one that met the end of the file with them.
Reads == pos + (IF feof THEN 1 ELSE 0)

\* buffer_ptr leaves the buffer of a plain video at one place only: behind its
\* end, at the first byte that comes when the frame, as the video has it,
\* already fills it (encoder.cpp:130 compares the unsigned buffer_ptr with
\* nothing).  It never goes below zero: new_frame takes four bytes back
\* only when it has stored four.
InBuffer ==
  /\ pc # "underrun"
  /\ pc = "overrun" <=> Reads > 0 /\ StoredAt(file, Reads - 1) >= BufferSize

\* The buffer holds what the video says, and nothing between two frames.
StoredOK ==
  /\ \E w \in 4..Len(file) : LastFrame(file, Passed, w)
  /\ pc = "new_frame" => StoredAt(file, pos) = IF feof THEN Len(buffer) - 1 ELSE Len(buffer)
  /\ pc \in {"read_file", "write"} /\ ~feof => StoredAt(file, pos) = 0

\* Every frame of a plain video has a word to write: the bus would never end a
\* transfer of none.
FramesNotEmpty == \A i \in DOMAIN frames : frames[i] # <<>>

\* The scanner knows at every byte where it is in the video: how many zeros it
\* has passed, where the unit begins that is last in its buffer, and of what
\* type that unit is (the counters of new_frame).
ScanInv ==
  /\ TypeOK
  /\ ZerosOK /\ ByteOK /\ BetweenOK /\ UnitOK /\ FirstCodeOK
  /\ FramesNotEmpty
  /\ \E u \in 4..Len(file) : LastCode(file, Passed, u)
  /\ StoredOK /\ InBuffer

\* new_frame, byte by byte, delivers the units of the video in order, cut
\* into frames behind each unit of a picture; nothing is missing.
ReadsUnits == Reader!Spec

\* read_file comes to the end of every video whose frames fit in the buffer,
\* or to its limit of frames, and the loops of new_frame to the end of the
\* file.
VideoRead ==
  FramesFit(file) => <>(pc = "done" /\ (Len(frames) = FrameLimit \/ UnitStart = Len(file)))

Stored == FoldLeft(LAMBDA n, frame : n + Len(frame), 0, frames)
Content == Len(file) - 4 * Cardinality(Codes(file))

\* The four bytes that new_frame takes back are a start code each time, so
\* that all that is between the start codes is stored.
NothingLost == AllRead /\ pc = "done" => Stored >= Content

=============================================================================
