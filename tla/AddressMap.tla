----------------------------- MODULE AddressMap -----------------------------
(***************************************************************************)
(* The address map of Project.h and how each bus slave decodes it.  Every  *)
(* slave listens to every request and decides on its own whether the       *)
(* request is addressed to it, so exactly one of them has to.              *)
(***************************************************************************)
EXTENDS Naturals

NIC_START_ADDR == 0
NIC_END_ADDR == 2
CRYPTO_START_ADDR == 3
CRYPTO_END_ADDR == 7
ENCODER_START_ADDR == 8
ENCODER_END_ADDR == 10
MEM_START_ADDR == 11
MEM_SIZE == 3000000
MAX_FRAME_SIZE == 300000

Slaves == {"nic", "crypto", "encoder", "mem"}

StartAddr ==
  [nic |-> NIC_START_ADDR, crypto |-> CRYPTO_START_ADDR,
   encoder |-> ENCODER_START_ADDR, mem |-> MEM_START_ADDR]

EndAddr ==
  [nic |-> NIC_END_ADDR, crypto |-> CRYPTO_END_ADDR,
   encoder |-> ENCODER_END_ADDR, mem |-> MEM_START_ADDR + MEM_SIZE]

\* The test each slave applies to what SlvListen returned.  The sum does not
\* wrap: every address and length the program uses is far below 2^32.
Claims(s, addr, len) == addr >= StartAddr[s] /\ addr + len <= EndAddr[s]

\* How many words the slave moves once it has acknowledged.  Only the memory
\* and the network card look at len.
Words(s, rdnwr, len) ==
  CASE s = "mem" -> len
    [] s = "nic" -> IF rdnwr \/ len < 2 THEN 1 ELSE 2
    [] s = "crypto" -> IF rdnwr THEN 0 ELSE 4
    [] s = "encoder" -> IF rdnwr THEN 1 ELSE 2

\* A request that one slave claims and serves word for word.
Served(addr, rdnwr, len) ==
  \E s \in Slaves : Claims(s, addr, len) /\ Words(s, rdnwr, len) = len

=============================================================================
