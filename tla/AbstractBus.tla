---------------------------- MODULE AbstractBus ----------------------------
(***************************************************************************)
(* What the bus promises: one line in which transactions wait their turn.  *)
(* They are served in the order in which they were asked for, one at a     *)
(* time, and each leaves the line when exactly its words have been moved.  *)
(***************************************************************************)
EXTENDS Naturals, Sequences

CONSTANT Transaction  \* records with a field len: the number of words

VARIABLES
  line,   \* the transactions asked for and not yet over, oldest first
  words   \* how many words of the oldest have been moved

Init == line = <<>> /\ words = 0

Ask ==
  /\ \E r \in Transaction : line' = Append(line, r)
  /\ UNCHANGED words

MoveWord ==
  /\ line # <<>>
  /\ words < Head(line).len
  /\ words' = words + 1
  /\ UNCHANGED line

Complete ==
  /\ line # <<>>
  /\ words = Head(line).len
  /\ line' = Tail(line)
  /\ words' = 0

Next == Ask \/ MoveWord \/ Complete

Safe == Init /\ [][Next]_<<line, words>>

\* The line never stops while somebody waits in it.
Live == WF_<<line, words>>(MoveWord \/ Complete)

Spec == Safe /\ Live

=============================================================================
