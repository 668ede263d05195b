------------------------------ MODULE Software ------------------------------
(***************************************************************************)
(* The program of cpu.cpp: the processors encrypt and decrypt in software, *)
(* with ECIES, what they read from the memories themselves; the crypto     *)
(* units get no commands.  The bus, the encoder, the network cards and the *)
(* head of send_packet are those of Project.cpp.  The envelope is in the   *)
(* global cipher, which both processors use.                               *)
(***************************************************************************)
EXTENDS EccThreads

VARIABLES
  cipher,     \* the last envelope, as in cipherText
  bufferInt   \* the local bufferInt of decrypt_packet

\* A null pointer is used: the program ends, and no thread goes on.
Crash(t) ==
  /\ pc' = [pc EXCEPT ![t] = "crashed"]
  /\ wait' = [p \in DOMAIN wait |-> On("nothing")]
  /\ UNCHANGED <<queue, result, mem, enc, up, crypto, nic, network_frame, mem_num,
                 cipher, bufferInt>>

-----------------------------------------------------------------------------
(* send_packet *)

\* Mutant: the wait that is commented out, for AES.
ThroughputOfAES == 772

ECC_ENCRYPT_THROUGHPUT == 519
ECC_DECRYPT_THROUGHPUT == 187

ReadFrame ==
  /\ Resumes("send_packet", "length")
  /\ up' = [up EXCEPT !.frameLength = result["send_packet"].len]
  /\ Transfer("send_packet", "bus1",
       Read("mem", EncodeBlock(up.frame_num), result["send_packet"].len), "frame", {})
  /\ UNCHANGED <<result, mem, enc, crypto, nic, network_frame, mem_num, cipher, bufferInt>>

\* A failed encryption is not noticed here.
EncryptFrame ==
  /\ Resumes("send_packet", "frame")
  /\ \/ cipher' = [plain |-> result["send_packet"], no |-> up.frame_num]
     \/ cipher' = NULL
  /\ Suspend("send_packet", "encrypted", For(ECC_ENCRYPT_THROUGHPUT * up.frameLength), {})
  /\ UNCHANGED <<queue, result, mem, enc, up, crypto, nic, network_frame, mem_num, bufferInt>>

\* With a null pointer for the data as well.
WriteEnvelope ==
  /\ Resumes("send_packet", "encrypted")
  /\ Transfer("send_packet", "bus1",
       Write("mem", CipherBlock(up.frame_num), up.frameLength,
             EnvelopeWords(cipher.plain, up.frameLength)),
       "stored", {})
  /\ UNCHANGED <<result, mem, enc, up, crypto, nic, network_frame, mem_num, cipher, bufferInt>>

\* The block that the network card is told to send.
DescriptorBlock(n) == IF n % 2 = 0 THEN 3 ELSE 4

SendEnvelope ==
  /\ Resumes("send_packet", "stored")
  /\ Transfer("send_packet", "bus1",
       Write("nic", 0, 2, [addr |-> DescriptorBlock(up.frame_num), length |-> up.frameLength]),
       "idle", {})
  /\ up' = [up EXCEPT !.frame_num = @ + 1]
  /\ UNCHANGED <<result, mem, enc, crypto, nic, network_frame, mem_num, cipher, bufferInt>>

\* MasterDataTransfer has the bus and drives the words of a null pointer.
DrivesNull(b) ==
  /\ b = "bus1" /\ pc[b] = "moving" /\ Head(queue[b]).by = "send_packet"
  /\ pc["send_packet"] = "stored" /\ wait["send_packet"] = On("send_packet")
  /\ cipher = NULL

SendPacketInSoftware ==
  \/ ReadFrame \/ EncryptFrame \/ WriteEnvelope \/ SendEnvelope
  \/ DrivesNull("bus1") /\ Crash("send_packet")

-----------------------------------------------------------------------------
(* decrypt_packet *)

ReadEnvelope ==
  /\ Resumes("decrypt_packet", "length")
  /\ Transfer("decrypt_packet", "bus2",
       Read("mem", ReceivedBlock(mem_num["decrypt_packet"]), result["decrypt_packet"].len),
       "envelope", {})
  /\ mem_num' = [mem_num EXCEPT !["decrypt_packet"] = 1 - @]
  /\ UNCHANGED <<result, mem, enc, up, crypto, nic, network_frame, cipher, bufferInt>>

\* Mutant: what is decrypted is the data that was read.
DecryptWhatWasRead ==
  /\ Resumes("decrypt_packet", "envelope")
  /\ bufferInt' = Crypted(result["decrypt_packet"], "cipher", "raw", result["decrypt_packet"].len)
  /\ Suspend("decrypt_packet", "decrypted",
       For(ECC_DECRYPT_THROUGHPUT * result["decrypt_packet"].len), {})
  /\ UNCHANGED <<queue, result, mem, enc, up, crypto, nic, network_frame, mem_num, cipher>>

\* The data that was read is not looked at.
DecryptEnvelope ==
  /\ Resumes("decrypt_packet", "envelope")
  /\ cipher # NULL
  /\ bufferInt' = Prefix(cipher.plain, result["decrypt_packet"].len)
  /\ Suspend("decrypt_packet", "decrypted",
       For(ECC_DECRYPT_THROUGHPUT * result["decrypt_packet"].len), {})
  /\ UNCHANGED <<queue, result, mem, enc, up, crypto, nic, network_frame, mem_num, cipher>>

WriteFrame ==
  /\ Resumes("decrypt_packet", "decrypted")
  /\ Transfer("decrypt_packet", "bus2",
       Write("mem", ClearBlock(1 - mem_num["decrypt_packet"]), bufferInt.len, bufferInt),
       "written", {})
  /\ UNCHANGED <<result, mem, enc, up, crypto, nic, network_frame, mem_num, cipher, bufferInt>>

AwaitPacket ==
  /\ Resumes("decrypt_packet", "written")
  /\ Suspend("decrypt_packet", "packet", On("packet_received"), {})
  /\ UNCHANGED <<queue, result, mem, enc, up, crypto, nic, network_frame, mem_num,
                 cipher, bufferInt>>

\* If ecies_decrypt fails, its null pointer is used.
DecryptPacketInSoftware ==
  \/ ReadEnvelope \/ DecryptEnvelope \/ WriteFrame \/ AwaitPacket
  \/ Resumes("decrypt_packet", "envelope") /\ Crash("decrypt_packet")

SoftwarePipeline ==
  \/ SendPacketInSoftware \/ DecryptPacketInSoftware
  \/ /\ \/ \E b \in Buses : Bus(b) /\ ~DrivesNull(b)
        \/ Encoder \/ AwaitFrame \/ NetworkInterfaceCards \/ GetPacketLength \/ Tick
     /\ UNCHANGED <<cipher, bufferInt>>

=============================================================================
