----------------------------- MODULE NalScanner -----------------------------
(***************************************************************************)
(* The encoder's reading of a compressed video from its file: read_file    *)
(* takes one frame after another from new_frame, which reads the file byte *)
(* by byte, looks for the start codes between the NAL units and returns at *)
(* the first one behind a unit that is part of a picture.  One step is one *)
(* iteration of a loop.                                                    *)
(***************************************************************************)
EXTENDS Integers, Sequences

CONSTANTS
  Files,        \* the files to read, sequences of bytes
  BufferSize,   \* the length of encoder::buffer
  FrameLimit    \* the frames after which read_file returns

Byte == 0..255

ASSUME FilesAssumption == Files \subseteq Seq(Byte)
ASSUME BufferAssumption == BufferSize \in Nat
ASSUME LimitAssumption == FrameLimit \in Nat \ {0}

VARIABLES
  file,         \* the bytes of the file
  pos,          \* how many of them are read
  feof,         \* whether a read met the end of the file
  buffer,       \* buffer[0 .. buffer_ptr - 1]
  nal_header,   \* the type of the NAL unit being read, or NoHeader
  zeros,        \* the iterations of the inner loop
  cur_byte,     \* the last byte read, or NoByte
  frames,       \* the frames written to memory, words of the bus
  pc            \* where read_file is.  At "overrun" it would store behind the
                \* end of buffer, at "underrun" buffer_ptr is below zero
vars == <<file, pos, feof, buffer, nal_header, zeros, cur_byte, frames, pc>>

NoHeader == -1
NoByte == -1

\* Mutant: type 7, a sequence parameter set, counts as a picture.
IsFrameOrParameters(header) == header =< 7 /\ header >= 1

\* Mutant: everything below 7 counts as a picture, nothing read as well.
IsFrameOrNone(header) == header < 7

\* The types of NAL units that are part of a picture.
IsFrame(header) == header < 7 /\ header >= 1

\* Three or four bytes that separate NAL units, as new_frame tells them.
IsSeparation(byte, n) == byte \in {1, 2, 3} /\ n >= 3

\* buffer is an array of signed char and bufferInt one of unsigned: the words
\* are sign-extended (here without the addition of 2^32).
Word(byte) == IF byte >= 128 THEN byte - 256 ELSE byte

Words(bytes) == [i \in DOMAIN bytes |-> Word(bytes[i])]

-----------------------------------------------------------------------------
Init ==
  /\ file \in Files
  /\ pos = 0 /\ feof = FALSE
  /\ buffer = <<>> /\ nal_header = NoHeader /\ zeros = 0
  /\ cur_byte = NoByte
  /\ frames = <<>>
  /\ pc = "read_file"

\* Mutant: buffer_ptr goes on behind the last frame.
NewFrameBehind ==
  /\ pc = "read_file" /\ ~feof
  /\ buffer' = buffer /\ nal_header' = NoHeader /\ zeros' = 0
  /\ cur_byte' = NoByte
  /\ pc' = "new_frame"
  /\ UNCHANGED <<file, pos, feof, frames>>

\* The head of read_file's loop and the beginning of new_frame.  Its cur_byte
\* has no value yet.
NewFrame ==
  /\ pc = "read_file" /\ ~feof
  /\ buffer' = <<>> /\ nal_header' = NoHeader /\ zeros' = 0
  /\ cur_byte' = NoByte
  /\ pc' = "new_frame"
  /\ UNCHANGED <<file, pos, feof, frames>>

\* Mutant: the end of the file is looked for in the outer loop only.
EndOfFileOutside ==
  /\ pc = "new_frame" /\ feof /\ cur_byte # 0
  /\ pc' = "write"
  /\ UNCHANGED <<file, pos, feof, buffer, nal_header, zeros, cur_byte, frames>>

\* The test of both loops of new_frame.
EndOfFile ==
  /\ pc = "new_frame" /\ feof
  /\ pc' = "write"
  /\ UNCHANGED <<file, pos, feof, buffer, nal_header, zeros, cur_byte, frames>>

\* At the end of the file fread leaves cur_byte alone, and if it was not
\* initialised, it can be any byte.
Fread ==
  \/ /\ pos < Len(file)
     /\ cur_byte' = file[pos + 1] /\ pos' = pos + 1 /\ feof' = FALSE
  \/ /\ pos = Len(file)
     /\ cur_byte' \in IF cur_byte = NoByte THEN Byte ELSE {cur_byte}
     /\ pos' = pos /\ feof' = TRUE

\* The type of the unit is in its first byte.
Header == IF nal_header = NoHeader THEN cur_byte' % 32 ELSE nal_header

\* Behind a separation, which loses the last four bytes of the buffer even if
\* it holds only three: the frame is complete, or the next unit belongs to it
\* as well.
Separate(bytes) ==
  IF Len(bytes) < 4
  THEN pc' = "underrun" /\ UNCHANGED <<buffer, nal_header>>
  ELSE /\ buffer' = SubSeq(bytes, 1, Len(bytes) - 4)
       /\ IF IsFrame(Header)
          THEN pc' = "write" /\ nal_header' = Header
          ELSE pc' = "new_frame" /\ nal_header' = NoHeader

\* One byte goes to the buffer; if it is not zero, the inner loop ends.
ReadByte ==
  /\ pc = "new_frame" /\ ~feof
  /\ Fread
  /\ IF Len(buffer) = BufferSize
     THEN pc' = "overrun" /\ nal_header' = Header /\ zeros' = zeros + 1 /\ UNCHANGED buffer
     ELSE LET bytes == Append(buffer, cur_byte')
          IN  IF cur_byte' # 0 /\ IsSeparation(cur_byte', zeros + 1)
              THEN Separate(bytes) /\ zeros' = 0
              ELSE /\ buffer' = bytes /\ nal_header' = Header
                   /\ zeros' = IF cur_byte' = 0 THEN zeros + 1 ELSE 0
                   /\ pc' = "new_frame"
  /\ UNCHANGED <<file, frames>>

\* Mutant: one frame more than the limit.
WriteFrameMore ==
  /\ pc = "write"
  /\ frames' = Append(frames, Words(buffer))
  /\ pc' = IF Len(frames') > FrameLimit THEN "done" ELSE "read_file"
  /\ UNCHANGED <<file, pos, feof, buffer, nal_header, zeros, cur_byte>>

\* read_file writes the frame to memory and waits for the next one's time.
WriteFrame ==
  /\ pc = "write"
  /\ frames' = Append(frames, Words(buffer))
  /\ pc' = IF Len(frames') >= FrameLimit THEN "done" ELSE "read_file"
  /\ UNCHANGED <<file, pos, feof, buffer, nal_header, zeros, cur_byte>>

EndOfVideo ==
  /\ pc = "read_file" /\ feof
  /\ pc' = "done"
  /\ UNCHANGED <<file, pos, feof, buffer, nal_header, zeros, cur_byte, frames>>

Next == NewFrame \/ EndOfFile \/ ReadByte \/ WriteFrame \/ EndOfVideo

Spec == Init /\ [][Next]_vars

\* read_file is a thread of its own and waits only for times and for the bus.
FairSpec == Spec /\ WF_vars(Next)

=============================================================================
