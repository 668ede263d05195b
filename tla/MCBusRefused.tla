---------------------------- MODULE MCBusRefused ----------------------------
(***************************************************************************)
(* The bus with transfers that no slave acknowledges.  No program of       *)
(* Project.cpp makes one; MasterDataTransfer and the arbiter's time-out    *)
(* provide for it.                                                         *)
(***************************************************************************)
EXTENDS BusProps

MCId == [m \in Masters |-> IF m = "aesEncrypt" THEN 2 ELSE 3]

\* Beyond the memory, across the border of two slaves, and a served transfer.
MCProgram ==
  [m \in Masters |->
     {[rdnwr |-> TRUE, addr |-> MEM_START_ADDR + MEM_SIZE, len |-> 1],
      [rdnwr |-> FALSE, addr |-> NIC_END_ADDR, len |-> 2],
      [rdnwr |-> FALSE, addr |-> MEM_START_ADDR, len |-> 2]}]

=============================================================================
