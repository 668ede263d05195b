------------------------------- MODULE MCNal -------------------------------
(***************************************************************************)
(* Small videos for TLC: a parameter set or a picture, as the first byte   *)
(* of a NAL unit says, with a few bytes behind it.  A frame of them can be *)
(* longer than the buffer of MCNal_plain.cfg (9 bytes), as long, or        *)
(* shorter: read_file must meet all three.                                 *)
(***************************************************************************)
EXTENDS NalProps

CONSTANTS
  Units,      \* the most units of a video
  Escapes     \* whether 0x000003 may stand inside a unit

Headers == {37, 39}             \* types 5 and 7 with the bits above them
Ends == {<<>>, <<1>>, <<255>>, <<0, 3>>, <<0, 0, 255>>, <<1, 0>>, <<255, 0, 0>>}
Escaped == {<<255, 0, 0, 3, 1>>, <<0, 0, 3, 0>>}

MCUnits == {<<h>> \o e : h \in Headers, e \in Ends \cup IF Escapes THEN Escaped ELSE {}}

StartCode == <<0, 0, 0, 1>>
Video(units) == FlattenSeq([i \in DOMAIN units |-> StartCode \o units[i]])

MCFiles ==
  LET all == {Video(units) : units \in UNION {[1..n -> MCUnits] : n \in 1..Units}}
  IN  IF Escapes THEN all ELSE {f \in all : Plain(f)}

=============================================================================
