------------------------------- MODULE MCBus -------------------------------
(***************************************************************************)
(* Constants for the bus of the sending system (bus1 of Project.cpp), which*)
(* has masters of all the kinds there are, and the card that connects.     *)
(***************************************************************************)
EXTENDS BusInv

CONSTANT FrameWords   \* the length of a transfer with the memory

Mem(rdnwr) == [rdnwr |-> rdnwr, addr |-> MEM_START_ADDR, len |-> FrameWords]
To(addr, len) == [rdnwr |-> FALSE, addr |-> addr, len |-> len]
From(addr, len) == [rdnwr |-> TRUE, addr |-> addr, len |-> len]

SenderId == [send_packet |-> 0, read_packet |-> 1, aesEncrypt |-> 2, read_file |-> 3]
SenderProgram ==
  [send_packet |-> {To(NIC_START_ADDR, 1), To(ENCODER_START_ADDR, 2),
                    From(ENCODER_START_ADDR, 1), To(CRYPTO_START_ADDR, 4),
                    To(NIC_START_ADDR, 2)},
   read_packet |-> {Mem(TRUE)},
   aesEncrypt |-> {Mem(TRUE), Mem(FALSE)},
   read_file |-> {Mem(FALSE)}]

MCId == [m \in Masters |-> SenderId[m]]
MCProgram == [m \in Masters |-> SenderProgram[m]]

=============================================================================
