------------------------------- MODULE EccInv -------------------------------
(***************************************************************************)
(* An inductive invariant of the two programs that encrypt with ECIES,     *)
(* whatever the frames' lengths: unless the program has ended, it is the   *)
(* pipeline's own, and the encoder keeps pace for the same reason.         *)
(***************************************************************************)
EXTENDS EccBuilds, PipelineInv

\* A null pointer was used, and no thread goes on.
Ended == build = "software" /\ \A t \in Threads : wait[t] = On("nothing")

\* What decrypt_packet of cpu.cpp has decrypted is no longer than a block.
DecryptedFits == Fits(bufferInt.len)

\* The inductive invariant.
EccInvariant ==
  /\ EccTypeOK
  /\ \/ Ended
     \/ IInv /\ PaceInv /\ DecryptedFits

=============================================================================
