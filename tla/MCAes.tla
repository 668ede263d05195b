------------------------------- MODULE MCAes -------------------------------
(***************************************************************************)
(* The key and the initial vector of crypto.cpp, and frames for TLC: those *)
(* of the published vectors and some of lengths between whole blocks, with *)
(* sign-extended words as the encoder writes them.                         *)
(***************************************************************************)
EXTENDS AesInv

MCKey ==
  BlockOf(<<43, 126, 21, 22, 40, 174, 210, 166, 171, 247, 21, 136, 9, 207, 79, 60>>)
MCIv == [n \in Block |-> n]

ShortFrame(len) == [n \in 0..(len - 1) |-> ((37 * n) % 256) - 128]

\* As EcbFrame, which takes iv from the constants of the module.
MCFrames ==
  {ShortFrame(len) : len \in {1, 15, 16, 17, 31}}
    \cup {CbcFrame} \cup {XorBlock(BlockOf(PlainBlocks[k]), MCIv) : k \in 1..4}

=============================================================================
