------------------------------ MODULE NalReader ------------------------------
(***************************************************************************)
(* What the encoder's reader promises of a video in which every NAL unit   *)
(* has a start code of four bytes in front of it: the units one after      *)
(* another, without their start codes, as many together as it takes to     *)
(* complete a picture.  Of the last one, nothing is missing.               *)
(***************************************************************************)
EXTENDS Integers, Sequences

CONSTANT FrameLimit

VARIABLES
  file,     \* the bytes of the video
  at,       \* how many of them are dealt with
  held,     \* the units since the last frame
  frames    \* the frames delivered
vars == <<file, at, held, frames>>

\* A start code in front of the byte of index p + 5.
CodeAt(p) ==
  /\ p + 4 =< Len(file)
  /\ file[p + 1] = 0 /\ file[p + 2] = 0 /\ file[p + 3] = 0 /\ file[p + 4] = 1

\* The unit that begins behind p ends at q.
EndsAt(p, q) ==
  /\ q \in p..Len(file)
  /\ CodeAt(q) \/ q = Len(file)
  /\ \A r \in p..(q - 1) : ~CodeAt(r)

OfPicture(p) == file[p + 1] % 32 \in 1..6

Init ==
  /\ file \in Seq(0..255)
  /\ at = 4
  /\ held = <<>> /\ frames = <<>>

\* Parameter sets and the like stay with the picture that follows.
Hold(q) ==
  /\ CodeAt(q) /\ ~OfPicture(at)
  /\ held' = held \o SubSeq(file, at + 1, q)
  /\ at' = q + 4
  /\ UNCHANGED <<file, frames>>

Deliver(q) ==
  /\ CodeAt(q) /\ OfPicture(at)
  /\ frames' = Append(frames, held \o SubSeq(file, at + 1, q))
  /\ held' = <<>>
  /\ at' = q + 4
  /\ UNCHANGED file

\* The last frame may have one byte too many.
DeliverLast(q) ==
  /\ q = Len(file)
  /\ \E rest \in {<<>>, <<file[q]>>} :
       frames' = Append(frames, held \o SubSeq(file, at + 1, q) \o rest)
  /\ held' = <<>>
  /\ at' = q
  /\ UNCHANGED file

Next ==
  /\ at < Len(file) /\ Len(frames) < FrameLimit
  /\ \E q \in at..Len(file) : EndsAt(at, q) /\ (Hold(q) \/ Deliver(q) \/ DeliverLast(q))

Spec == Init /\ [][Next]_vars

=============================================================================
