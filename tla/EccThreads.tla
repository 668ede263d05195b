----------------------------- MODULE EccThreads -----------------------------
(***************************************************************************)
(* The pipeline of Project.cpp built with ECC instead of AES: the crypto   *)
(* units run eccEncrypt and eccDecrypt in the place of the AES threads     *)
(* (whose names they have here).  The envelope that ecies_encrypt makes is *)
(* not in the memories but in the global cipherText, which both units use; *)
(* what is written to memory is its first words.                           *)
(***************************************************************************)
EXTENDS PipelineProps

VARIABLE cipherText   \* the last envelope: what is in it, and of which frame_num

NULL == [plain |-> Blank, no |-> 0]

\* ECC_THROUGHPUT
EccThroughput == 4315

\* The first len words of an envelope that holds c.
EnvelopeWords(c, len) ==
  [frame |-> IF c.form = "raw" THEN c.frame ELSE 0, form |-> "cipher", len |-> len]

\* ecies_encrypt and ecies_decrypt may fail: the thread returns.
EccReturns(b) == Suspend(Aes[b], "returned", On("nothing"), {})

EccEncrypt ==
  /\ Resumes("aesEncrypt", "read")
  /\ \/ /\ cipherText' = [plain |-> result["aesEncrypt"], no |-> up.frame_num]
        /\ crypto' = [crypto EXCEPT !["bus1"].bufferInt =
             EnvelopeWords(result["aesEncrypt"], crypto["bus1"].length)]
        /\ Suspend("aesEncrypt", "crypted", For(EccThroughput * crypto["bus1"].length), {})
     \/ /\ cipherText' = NULL
        /\ EccReturns("bus1")
        /\ UNCHANGED crypto
  /\ UNCHANGED <<queue, result, mem, enc, up, nic, network_frame, mem_num>>

\* The data that was read from the memory is not looked at.
EccDecrypt ==
  /\ Resumes("aesDecrypt", "read")
  /\ \/ /\ cipherText # NULL
        /\ crypto' = [crypto EXCEPT !["bus2"].bufferInt =
             Prefix(cipherText.plain, crypto["bus2"].length)]
        /\ Suspend("aesDecrypt", "crypted", For(EccThroughput * crypto["bus2"].length), {})
     \/ /\ EccReturns("bus2")
        /\ UNCHANGED crypto
  /\ UNCHANGED <<queue, result, mem, enc, up, nic, network_frame, mem_num, cipherText>>

EccWriteData(b) ==
  /\ Resumes(Aes[b], "crypted")
  /\ Transfer(Aes[b], b,
       Write("mem", crypto[b].mem_address_dst, crypto[b].length,
             Prefix(crypto[b].bufferInt, crypto[b].length)),
       "written", {})
  /\ UNCHANGED <<result, mem, enc, up, crypto, nic, network_frame, mem_num>>

\* read_data and the end of the loop are those of the AES threads.
EccUnit ==
  \/ EccEncrypt \/ EccDecrypt
  \/ /\ \E b \in Buses : AesReadData(b) \/ EccWriteData(b) \/ AesDone(b)
     /\ UNCHANGED cipherText

\* The program: the descriptor has the length of the frame, because it is only
\* rounded up if AES is set.
EccPipeline ==
  \/ EccUnit
  \/ /\ \/ \E b \in Buses : Bus(b)
        \/ Encoder \/ AwaitFrame \/ StartEncryption \/ AwaitEncryption \/ SendPacketUnpadded
        \/ NetworkInterfaceCards \/ Microprocessor2 \/ Tick
     /\ UNCHANGED cipherText

=============================================================================
