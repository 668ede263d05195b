------------------------------ MODULE EccProofs ------------------------------
(***************************************************************************)
(* Theorems about the two programs that encrypt with ECIES, for all        *)
(* lengths of frames.  The steps that they share with the pipeline are     *)
(* those of its proofs; what is new are the ECC threads, the two           *)
(* processors of cpu.cpp, and the end of a program that uses a null        *)
(* pointer.                                                                *)
(***************************************************************************)
EXTENDS EccInv, PipelineProofs

-----------------------------------------------------------------------------
(* Data. *)

LEMMA EnvelopesMade ==
  /\ Blank \in Content /\ NULL \in Envelope
  /\ \A c \in Content, n \in 0..Frames : [plain |-> c, no |-> n] \in Envelope
  /\ \A x \in Envelope : x.plain \in Content
  /\ \A c \in Content, n \in Nat :
       /\ EnvelopeWords(c, n) \in Content /\ EnvelopeWords(c, n).len = n
       /\ Prefix(c, n) \in Content /\ Prefix(c, n).len = n
<1>1. Blank \in Content /\ 0 \in 0..Frames
  BY Contents, FramesAssumption DEF FramesAssumption
<1>2. NULL \in Envelope
  BY <1>1 DEF NULL, Envelope
<1>3. /\ \A c \in Content, n \in 0..Frames : [plain |-> c, no |-> n] \in Envelope
      /\ \A x \in Envelope : x.plain \in Content
  BY DEF Envelope
<1>4. ASSUME NEW c \in Content, NEW n \in Nat
      PROVE  EnvelopeWords(c, n) \in Content /\ EnvelopeWords(c, n).len = n
  <2>1. c.frame \in 0..Frames
    BY DEF Content
  <2> QED
    BY <1>1, <2>1 DEF EnvelopeWords, Content
<1>5. ASSUME NEW c \in Content, NEW n \in Nat
      PROVE  Prefix(c, n) \in Content /\ Prefix(c, n).len = n
  BY Contents DEF Prefix
<1> QED
  BY <1>1, <1>2, <1>3, <1>4, <1>5

\* What is used of the types.
EnvelopesOK == cipherText \in Envelope /\ cipher \in Envelope /\ bufferInt \in Content

LEMMA EccTypes ==
  TypeOK /\ EnvelopesOK <=> EccTypeOK
  BY DEF EccTypeOK, EnvelopesOK

-----------------------------------------------------------------------------
(* The ECC threads. *)

LEMMA EccWorks ==
  ASSUME IInv, NEW b \in Buses, NEW c \in Content, NEW w \in Pauses,
         Resumes(Aes[b], "read"), Suspend(Aes[b], "crypted", w, {}),
         crypto' = [crypto EXCEPT ![b].bufferInt = c],
         UNCHANGED <<queue, result, mem, enc, up, nic, network_frame, mem_num>>
  PROVE  IInv'
<1>1. crypto' \in [Buses -> [mem_address_src : Blocks, mem_address_dst : Blocks,
                             length : Nat, bufferInt : Content]]
  BY DEF IInv, DataOK, RegistersOK
<1>2. AesWaits(b, "crypted", w)
  BY DEF AesWaits
<1>3. {} \subseteq {AesDoneEvent[b]} /\ "read" # "written"
  OBVIOUS
<1> QED
  BY <1>1, <1>2, <1>3, CryptoAwaits

LEMMA EccFails ==
  ASSUME IInv, NEW b \in Buses, Resumes(Aes[b], "read"), EccReturns(b),
         UNCHANGED <<queue, result, mem, enc, up, crypto, nic, network_frame, mem_num>>
  PROVE  IInv'
<1>1. crypto' \in [Buses -> [mem_address_src : Blocks, mem_address_dst : Blocks,
                             length : Nat, bufferInt : Content]]
  BY DEF IInv, DataOK, RegistersOK
<1>2. AesWaits(b, "returned", On("nothing"))
  BY DEF AesWaits
<1>3. {} \subseteq {AesDoneEvent[b]} /\ "read" # "written"
  OBVIOUS
<1>4. Suspend(Aes[b], "returned", On("nothing"), {})
  BY DEF EccReturns
<1> QED
  BY <1>1, <1>2, <1>3, <1>4, CryptoAwaits

LEMMA EccPauses ==
  ASSUME NEW n \in Nat
  PROVE  For(EccThroughput * n) \in Pauses
<1>1. EccThroughput * n \in Nat
  BY SMT DEF EccThroughput
<1> QED
  BY <1>1 DEF For, Pauses

LEMMA EccEncryptStep ==
  ASSUME IInv, EccEncrypt, EnvelopesOK
  PROVE  IInv' /\ cipherText' \in Envelope
<1>1. /\ crypto["bus1"].length \in Nat /\ "bus1" \in Buses /\ result["aesEncrypt"] \in Content
      /\ up.frame_num \in 0..Frames
  BY Registers, InvariantTypes DEF IInv, Buses, Sender, TypeOK
<1>2. Resumes(Aes["bus1"], "read")
  BY DEF EccEncrypt, Aes
<1>3. UNCHANGED <<queue, result, mem, enc, up, nic, network_frame, mem_num>>
  BY DEF EccEncrypt
<1>4. CASE /\ cipherText' = [plain |-> result["aesEncrypt"], no |-> up.frame_num]
           /\ crypto' = [crypto EXCEPT !["bus1"].bufferInt =
                EnvelopeWords(result["aesEncrypt"], crypto["bus1"].length)]
           /\ Suspend("aesEncrypt", "crypted", For(EccThroughput * crypto["bus1"].length), {})
  <2> DEFINE c == EnvelopeWords(result["aesEncrypt"], crypto["bus1"].length)
             w == For(EccThroughput * crypto["bus1"].length)
  <2>1. c \in Content /\ w \in Pauses
    BY <1>1, EnvelopesMade, EccPauses
  <2>2. crypto' = [crypto EXCEPT !["bus1"].bufferInt = c] /\ Suspend(Aes["bus1"], "crypted", w, {})
    BY <1>4 DEF Aes
  <2> HIDE DEF c, w
  <2>3. IInv'
    BY <1>1, <1>2, <1>3, <2>1, <2>2, EccWorks
  <2> QED
    BY <1>1, <1>4, <2>3, EnvelopesMade
<1>5. CASE cipherText' = NULL /\ EccReturns("bus1") /\ UNCHANGED crypto
  <2>1. IInv'
    BY <1>1, <1>2, <1>3, <1>5, EccFails
  <2> QED
    BY <1>5, <2>1, EnvelopesMade
<1> QED
  BY <1>4, <1>5 DEF EccEncrypt

LEMMA EccDecryptStep ==
  ASSUME IInv, EccDecrypt, EnvelopesOK
  PROVE  IInv'
<1>1. crypto["bus2"].length \in Nat /\ "bus2" \in Buses
  BY Registers DEF IInv, Buses
<1>2. Resumes(Aes["bus2"], "read")
  BY DEF EccDecrypt, Aes
<1>3. UNCHANGED <<queue, result, mem, enc, up, nic, network_frame, mem_num>>
  BY DEF EccDecrypt
<1>4. CASE /\ crypto' = [crypto EXCEPT !["bus2"].bufferInt =
                Prefix(cipherText.plain, crypto["bus2"].length)]
           /\ Suspend("aesDecrypt", "crypted", For(EccThroughput * crypto["bus2"].length), {})
  <2> DEFINE c == Prefix(cipherText.plain, crypto["bus2"].length)
             w == For(EccThroughput * crypto["bus2"].length)
  <2>1. c \in Content /\ w \in Pauses
    BY <1>1, EnvelopesMade, EccPauses DEF EnvelopesOK
  <2>2. crypto' = [crypto EXCEPT !["bus2"].bufferInt = c] /\ Suspend(Aes["bus2"], "crypted", w, {})
    BY <1>4 DEF Aes
  <2> HIDE DEF c, w
  <2> QED
    BY <1>1, <1>2, <1>3, <2>1, <2>2, EccWorks
<1>5. CASE EccReturns("bus2") /\ UNCHANGED crypto
  BY <1>1, <1>2, <1>3, <1>5, EccFails
<1> QED
  BY <1>4, <1>5 DEF EccDecrypt

LEMMA EccWriteStep ==
  ASSUME IInv, NEW b \in Buses, EccWriteData(b)
  PROVE  IInv'
<1> DEFINE t == Aes[b]
           r == Write("mem", crypto[b].mem_address_dst, crypto[b].length,
                      Prefix(crypto[b].bufferInt, crypto[b].length))
<1>1. r \in Requests /\ r.slave = "mem"
  <2>1. /\ crypto[b].mem_address_dst \in Blocks /\ crypto[b].length \in Nat
        /\ Prefix(crypto[b].bufferInt, crypto[b].length) \in Content
    BY Registers, Contents DEF IInv
  <2> QED
    BY <2>1, RequestsMade DEF Write
<1>2. /\ Resumes(t, "crypted") /\ Transfer(t, b, r, "written", {})
      /\ UNCHANGED <<result, mem, enc, up, crypto, nic, network_frame, mem_num>>
  BY DEF EccWriteData
<1> HIDE DEF r, t
<1> QED
  BY <1>1, <1>2, CryptoCalls DEF t

\* The shared steps, and the descriptor with the length of the frame.
LEMMA HardwareStep ==
  ASSUME IInv, EnvelopesOK, EccPipeline
  PROVE  IInv' /\ cipherText' \in Envelope
<1>1. CASE EccUnit
  <2>1. CASE EccEncrypt
    BY <2>1, EccEncryptStep
  <2>2. CASE EccDecrypt
    <3>1. cipherText' = cipherText
      BY <2>2 DEF EccDecrypt
    <3> QED
      BY <2>2, <3>1, EccDecryptStep DEF EnvelopesOK
  <2>3. CASE /\ \E b \in Buses : AesReadData(b) \/ EccWriteData(b) \/ AesDone(b)
             /\ UNCHANGED cipherText
    BY <2>3, CryptoLoopStep, EccWriteStep DEF EnvelopesOK
  <2> QED
    BY <1>1, <2>1, <2>2, <2>3 DEF EccUnit
<1>2. CASE SendPacketUnpadded /\ UNCHANGED cipherText
  <2>1. CipherBlock(up.frame_num) \in Blocks /\ up.frameLength \in Nat
    BY SenderRegisters, BlockNumbers
  <2>2. IInv'
    BY <1>2, <2>1, DescriptorStep DEF SendPacketUnpadded
  <2> QED
    BY <1>2, <2>2 DEF EnvelopesOK
<1>3. CASE /\ \/ \E b \in Buses : Bus(b)
              \/ Encoder \/ AwaitFrame \/ StartEncryption \/ AwaitEncryption
              \/ NetworkInterfaceCards \/ Microprocessor2 \/ Tick
           /\ UNCHANGED cipherText
  BY <1>3, BusStep, EncoderStep, AwaitFrameStep, EncryptionStep, NetworkStep, Microprocessor2Step,
     TickStep DEF EnvelopesOK
<1> QED
  BY <1>1, <1>2, <1>3 DEF EccPipeline

-----------------------------------------------------------------------------
(* The processors of cpu.cpp. *)

LEMMA SoftwarePauses ==
  ASSUME NEW n \in Nat
  PROVE  For(ECC_ENCRYPT_THROUGHPUT * n) \in Pauses /\ For(ECC_DECRYPT_THROUGHPUT * n) \in Pauses
<1>1. ECC_ENCRYPT_THROUGHPUT * n \in Nat /\ ECC_DECRYPT_THROUGHPUT * n \in Nat
  BY SMT DEF ECC_ENCRYPT_THROUGHPUT, ECC_DECRYPT_THROUGHPUT
<1> QED
  BY <1>1 DEF For, Pauses

LEMMA ReadFrameStep ==
  ASSUME IInv, ReadFrame
  PROVE  IInv'
<1> DEFINE r == Read("mem", EncodeBlock(up.frame_num), result["send_packet"].len)
<1>1. /\ up \in [frame_num : Nat, frameLength : Nat]
      /\ up.frame_num \in Nat /\ result["send_packet"].len \in Nat
  BY SenderRegisters
<1>2. r \in Requests /\ MayAsk("bus1", "send_packet", "frame", r)
  <2>1. r \in Requests
    BY <1>1, BlockNumbers, RequestsMade, Contents
  <2> QED
    BY <2>1 DEF MayAsk, Read, Users
<1>3. /\ Resumes("send_packet", "length") /\ Transfer("send_packet", "bus1", r, "frame", {})
      /\ up' = [up EXCEPT !.frameLength = result["send_packet"].len]
      /\ UNCHANGED <<result, mem, enc, crypto, nic, network_frame, mem_num>>
  BY DEF ReadFrame
<1>4. up' \in [frame_num : Nat, frameLength : Nat] /\ up'.frame_num = up.frame_num + 0
  BY <1>1, <1>3
<1>5. <<"length", "frame">> \in SendPacketMoves /\ ~Counts("length", "frame")
  BY DEF SendPacketMoves, Counts
<1> HIDE DEF r
<1> QED
  BY <1>2, <1>3, <1>4, <1>5, SendPacketCalls

LEMMA EncryptFrameStep ==
  ASSUME IInv, EnvelopesOK, EncryptFrame
  PROVE  IInv' /\ cipher' \in Envelope
<1> DEFINE w == For(ECC_ENCRYPT_THROUGHPUT * up.frameLength)
<1>1. /\ up.frame_num \in 0..Frames /\ up.frameLength \in Nat
      /\ result["send_packet"] \in Content
  BY SenderRegisters, InvariantTypes DEF TypeOK
<1>2. w \in Pauses
  BY <1>1, SoftwarePauses
<1>3. /\ Resumes("send_packet", "frame") /\ Suspend("send_packet", "encrypted", w, {})
      /\ UNCHANGED <<queue, result, mem, enc, up, crypto, nic, network_frame, mem_num>>
      /\ \/ cipher' = [plain |-> result["send_packet"], no |-> up.frame_num]
         \/ cipher' = NULL
  BY DEF EncryptFrame
<1> HIDE DEF w
<1>4. IInv'
  BY <1>2, <1>3, SendPacketAwaits
<1> QED
  BY <1>1, <1>3, <1>4, EnvelopesMade

LEMMA WriteEnvelopeStep ==
  ASSUME IInv, EnvelopesOK, WriteEnvelope
  PROVE  IInv'
<1> DEFINE r == Write("mem", CipherBlock(up.frame_num), up.frameLength,
                      EnvelopeWords(cipher.plain, up.frameLength))
<1>1. /\ up \in [frame_num : Nat, frameLength : Nat]
      /\ up.frame_num \in Nat /\ up.frameLength \in Nat
  BY SenderRegisters
<1>2. r \in Requests /\ MayAsk("bus1", "send_packet", "stored", r)
  <2>1. EnvelopeWords(cipher.plain, up.frameLength) \in Content
    BY <1>1, EnvelopesMade DEF EnvelopesOK
  <2>2. r \in Requests
    BY <1>1, <2>1, BlockNumbers, RequestsMade
  <2> QED
    BY <2>2 DEF MayAsk, Write, Users
<1>3. /\ Resumes("send_packet", "encrypted") /\ Transfer("send_packet", "bus1", r, "stored", {})
      /\ UNCHANGED <<result, mem, enc, up, crypto, nic, network_frame, mem_num>>
  BY DEF WriteEnvelope
<1>4. up' \in [frame_num : Nat, frameLength : Nat] /\ up'.frame_num = up.frame_num + 0
  BY <1>1, <1>3
<1>5. <<"encrypted", "stored">> \in SendPacketMoves /\ ~Counts("encrypted", "stored")
  BY DEF SendPacketMoves, Counts
<1> HIDE DEF r
<1> QED
  BY <1>2, <1>3, <1>4, <1>5, SendPacketCalls

LEMMA SendEnvelopeStep ==
  ASSUME IInv, SendEnvelope
  PROVE  IInv'
<1>1. DescriptorBlock(up.frame_num) \in Blocks /\ up.frameLength \in Nat
  BY SenderRegisters, BlockNumbers DEF DescriptorBlock
<1> QED
  BY <1>1, DescriptorStep DEF SendEnvelope

LEMMA ReceiverRegisters ==
  ASSUME IInv
  PROVE  /\ mem_num \in [{"receive_frame", "decrypt_packet"} -> {0, 1}]
         /\ result["decrypt_packet"] \in Content /\ result["decrypt_packet"].len \in Nat
         /\ "decrypt_packet" \in Users["bus2"]
  BY Registers DEF IInv, DataOK, RegistersOK, Receiver, Users

LEMMA ReadEnvelopeStep ==
  ASSUME IInv, ReadEnvelope
  PROVE  IInv'
<1> DEFINE r == Read("mem", ReceivedBlock(mem_num["decrypt_packet"]), result["decrypt_packet"].len)
<1>1. r \in Requests
  BY ReceiverRegisters, BlockNumbers, RequestsMade
<1>2. MayAsk("bus2", "decrypt_packet", "envelope", r)
  BY ReceiverRegisters DEF MayAsk, Read
<1>3. /\ Resumes("decrypt_packet", "length")
      /\ Transfer("decrypt_packet", "bus2", r, "envelope", {})
      /\ mem_num' = [mem_num EXCEPT !["decrypt_packet"] = 1 - mem_num["decrypt_packet"]]
      /\ UNCHANGED <<result, mem, enc, up, crypto, nic, network_frame>>
  BY DEF ReadEnvelope
<1>4. mem_num' \in [{"receive_frame", "decrypt_packet"} -> {0, 1}]
  <2>1. 1 - mem_num["decrypt_packet"] \in {0, 1}
    BY ReceiverRegisters
  <2> QED
    BY <1>3, <2>1, ReceiverRegisters
<1> HIDE DEF r
<1> QED
  BY <1>1, <1>2, <1>3, <1>4, DecryptPacketCalls

LEMMA DecryptEnvelopeStep ==
  ASSUME IInv, EnvelopesOK, DecryptEnvelope
  PROVE  IInv' /\ bufferInt' \in Content
<1> DEFINE w == For(ECC_DECRYPT_THROUGHPUT * result["decrypt_packet"].len)
<1>1. w \in Pauses
  BY ReceiverRegisters, SoftwarePauses
<1>2. /\ Resumes("decrypt_packet", "envelope") /\ Suspend("decrypt_packet", "decrypted", w, {})
      /\ UNCHANGED <<queue, result, mem, enc, up, crypto, nic, network_frame, mem_num>>
      /\ bufferInt' = Prefix(cipher.plain, result["decrypt_packet"].len)
  BY DEF DecryptEnvelope
<1>3. bufferInt' \in Content
  BY <1>2, ReceiverRegisters, EnvelopesMade DEF EnvelopesOK
<1> HIDE DEF w
<1> QED
  BY <1>1, <1>2, <1>3, DecryptPacketAwaits

LEMMA WriteFrameStep ==
  ASSUME IInv, EnvelopesOK, WriteFrame
  PROVE  IInv'
<1> DEFINE r == Write("mem", ClearBlock(1 - mem_num["decrypt_packet"]), bufferInt.len, bufferInt)
<1>1. r \in Requests
  BY BlockNumbers, RequestsMade, Contents DEF EnvelopesOK
<1>2. MayAsk("bus2", "decrypt_packet", "written", r)
  BY ReceiverRegisters DEF MayAsk, Write
<1>3. /\ Resumes("decrypt_packet", "decrypted")
      /\ Transfer("decrypt_packet", "bus2", r, "written", {})
      /\ UNCHANGED <<result, mem, enc, up, crypto, nic, network_frame>>
      /\ mem_num' \in [{"receive_frame", "decrypt_packet"} -> {0, 1}]
  BY ReceiverRegisters DEF WriteFrame
<1> HIDE DEF r
<1> QED
  BY <1>1, <1>2, <1>3, DecryptPacketCalls

\* A null pointer is used: every variable keeps its type.
LEMMA CrashStep ==
  ASSUME IInv, build' = "software", NEW t, Crash(t)
  PROVE  Ended' /\ TypeOK'
<1>1. TypeOK /\ DOMAIN wait = Threads /\ DOMAIN pc = Threads
  BY InvariantTypes DEF TypeOK
<1>2. /\ DOMAIN pc' = Threads /\ DOMAIN wait' = Threads
      /\ \A p \in Threads : wait'[p] = On("nothing")
      /\ UNCHANGED <<queue, result, mem, enc, up, crypto, nic, network_frame, mem_num>>
  BY <1>1 DEF Crash
<1>3. On("nothing").time = 0
  BY DEF On
<1> QED
  BY <1>1, <1>2, <1>3 DEF Ended, TypeOK

LEMMA SoftwareStep ==
  ASSUME IInv, EnvelopesOK, SoftwarePipeline, build' = "software"
  PROVE  /\ cipher' \in Envelope /\ bufferInt' \in Content
         /\ IInv' \/ (Ended' /\ TypeOK')
<1>1. CASE SendPacketInSoftware
  <2>1. CASE ReadFrame \/ WriteEnvelope \/ SendEnvelope
    <3>1. UNCHANGED <<cipher, bufferInt>>
      BY <2>1 DEF ReadFrame, WriteEnvelope, SendEnvelope
    <3> QED
      BY <2>1, <3>1, ReadFrameStep, WriteEnvelopeStep, SendEnvelopeStep DEF EnvelopesOK
  <2>2. CASE EncryptFrame
    <3>1. UNCHANGED bufferInt
      BY <2>2 DEF EncryptFrame
    <3> QED
      BY <2>2, <3>1, EncryptFrameStep DEF EnvelopesOK
  <2>3. CASE Crash("send_packet")
    <3>1. UNCHANGED <<cipher, bufferInt>>
      BY <2>3 DEF Crash
    <3> QED
      BY <2>3, <3>1, CrashStep DEF EnvelopesOK
  <2> QED
    BY <1>1, <2>1, <2>2, <2>3 DEF SendPacketInSoftware
<1>2. CASE DecryptPacketInSoftware
  <2>1. CASE ReadEnvelope \/ WriteFrame \/ AwaitPacket
    <3>1. UNCHANGED <<cipher, bufferInt>>
      BY <2>1 DEF ReadEnvelope, WriteFrame, AwaitPacket
    <3>2. CASE AwaitPacket
      BY <3>1, <3>2, DecryptPacketAwaits DEF EnvelopesOK, AwaitPacket
    <3> QED
      BY <2>1, <3>1, <3>2, ReadEnvelopeStep, WriteFrameStep DEF EnvelopesOK
  <2>2. CASE DecryptEnvelope
    <3>1. UNCHANGED cipher
      BY <2>2 DEF DecryptEnvelope
    <3> QED
      BY <2>2, <3>1, DecryptEnvelopeStep DEF EnvelopesOK
  <2>3. CASE Crash("decrypt_packet")
    <3>1. UNCHANGED <<cipher, bufferInt>>
      BY <2>3 DEF Crash
    <3> QED
      BY <2>3, <3>1, CrashStep DEF EnvelopesOK
  <2> QED
    BY <1>2, <2>1, <2>2, <2>3 DEF DecryptPacketInSoftware
<1>3. CASE /\ \/ \E b \in Buses : Bus(b)
              \/ Encoder \/ AwaitFrame \/ NetworkInterfaceCards \/ GetPacketLength \/ Tick
           /\ UNCHANGED <<cipher, bufferInt>>
  <2>1. GetPacketLength => Microprocessor2
    BY DEF Microprocessor2
  <2> QED
    BY <1>3, <2>1, BusStep, EncoderStep, AwaitFrameStep, NetworkStep, Microprocessor2Step, TickStep
       DEF EnvelopesOK
<1> QED
  BY <1>1, <1>2, <1>3 DEF SoftwarePipeline

-----------------------------------------------------------------------------
(* Pace. *)

LEMMA PlacesOfThreads ==
  /\ Buses = {"bus1", "bus2"}
  /\ \A b \in Buses : /\ Aes[b] \in Users[b] \ {"read_file"}
                      /\ Aes[b] \in Threads \ {"bus1", "read_file"}
  /\ "send_packet" \in Users["bus1"] \ {"read_file"}
  /\ "send_packet" \in Threads \ {"bus1", "read_file"}
  /\ "decrypt_packet" \in Users["bus2"] \ {"read_file"}
  /\ "decrypt_packet" \in Threads \ {"bus1", "read_file"}
  /\ {"send_packet", "decrypt_packet"} \subseteq Sender \cup Receiver
  /\ {} \in SUBSET Signals
<1>1. \A b \in Buses : /\ Aes[b] \in Users[b] \ {"read_file"}
                      /\ Aes[b] \in Threads \ {"bus1", "read_file"}
  BY CryptoNames DEF Buses
<1> QED
  BY <1>1 DEF Buses, Users, Threads, Sender, Receiver

LEMMA EccWorksPace ==
  ASSUME IInv, PaceInv, NEW b \in Buses, NEW c, c.len = crypto[b].length, NEW w,
         Suspend(Aes[b], "crypted", w, {}), crypto' = [crypto EXCEPT ![b].bufferInt = c],
         UNCHANGED <<queue, result, mem, enc, up, nic, network_frame, mem_num>>
  PROVE  PaceInv'
<1>1. RegistersFit /\ DataOK
  BY DEF PaceInv, LengthsFit, IInv
<1>2. crypto'[b].length = crypto[b].length /\ crypto'[b].bufferInt = c
      /\ \A d \in Buses \ {b} : crypto'[d] = crypto[d]
  BY <1>1 DEF DataOK, RegistersOK
<1>3. RegistersFit'
  BY <1>1, <1>2 DEF RegistersFit, Fits
<1> QED
  BY <1>3, PlacesOfThreads, SignalPace

LEMMA EccUnitPace ==
  ASSUME IInv, IInv', PaceInv, EnvelopesOK, EccUnit
  PROVE  PaceInv'
<1>1. RegistersFit
  BY DEF PaceInv, LengthsFit
<1>2. \A b \in Buses : crypto[b].length \in Nat /\ crypto[b].bufferInt \in Content
  BY Registers DEF IInv
<1>3. ASSUME NEW b \in Buses, EccReturns(b),
             UNCHANGED <<queue, result, mem, enc, up, crypto, nic, network_frame, mem_num>>
      PROVE  PaceInv'
  BY <1>1, <1>3, PlacesOfThreads, UnchangedFits, SignalPace DEF EccReturns
<1>4. CASE EccEncrypt
  <2> DEFINE c == EnvelopeWords(result["aesEncrypt"], crypto["bus1"].length)
             w == For(EccThroughput * crypto["bus1"].length)
  <2>1. c.len = crypto["bus1"].length
    BY DEF EnvelopeWords
  <2>2. \/ crypto' = [crypto EXCEPT !["bus1"].bufferInt = c] /\ Suspend(Aes["bus1"], "crypted", w, {})
        \/ EccReturns("bus1") /\ UNCHANGED crypto
    BY <1>4 DEF EccEncrypt, Aes
  <2>3. UNCHANGED <<queue, result, mem, enc, up, nic, network_frame, mem_num>>
    BY <1>4 DEF EccEncrypt
  <2> HIDE DEF c, w
  <2> QED
    BY <1>3, <2>1, <2>2, <2>3, EccWorksPace, PlacesOfThreads
<1>5. CASE EccDecrypt
  <2> DEFINE c == Prefix(cipherText.plain, crypto["bus2"].length)
             w == For(EccThroughput * crypto["bus2"].length)
  <2>1. c.len = crypto["bus2"].length
    BY <1>2, EnvelopesMade, PlacesOfThreads DEF EnvelopesOK
  <2>2. \/ crypto' = [crypto EXCEPT !["bus2"].bufferInt = c] /\ Suspend(Aes["bus2"], "crypted", w, {})
        \/ EccReturns("bus2") /\ UNCHANGED crypto
    BY <1>5 DEF EccDecrypt, Aes
  <2>3. UNCHANGED <<queue, result, mem, enc, up, nic, network_frame, mem_num>>
    BY <1>5 DEF EccDecrypt
  <2> HIDE DEF c, w
  <2> QED
    BY <1>3, <2>1, <2>2, <2>3, EccWorksPace, PlacesOfThreads
<1>6. ASSUME NEW b \in Buses, EccWriteData(b) PROVE PaceInv'
  <2> DEFINE r == Write("mem", crypto[b].mem_address_dst, crypto[b].length,
                        Prefix(crypto[b].bufferInt, crypto[b].length))
  <2>1. RequestFits(r)
    BY <1>1, RequestsFit DEF RegistersFit
  <2>2. Transfer(Aes[b], b, r, "written", {}) /\ UNCHANGED <<result, enc, up, crypto, nic, network_frame>>
    BY <1>6 DEF EccWriteData
  <2> HIDE DEF r
  <2> QED
    BY <1>1, <2>1, <2>2, PlacesOfThreads, UnchangedFits, CallPace
<1> QED
  BY <1>4, <1>5, <1>6, CryptoLoopPace DEF EccUnit

LEMMA HardwarePace ==
  ASSUME IInv, IInv', PaceInv, EnvelopesOK, EccPipeline
  PROVE  PaceInv'
<1>1. CASE SendPacketUnpadded
  <2>1. Fits(up.frameLength)
    BY DEF PaceInv, LengthsFit, RegistersFit
  <2> QED
    BY <1>1, <2>1, DescriptorPace DEF SendPacketUnpadded
<1> QED
  BY <1>1, EccUnitPace, BusPace, EncoderPace, AwaitFramePace, EncryptionPace, NetworkPace,
     Microprocessor2Pace, TickPace DEF EccPipeline

LEMMA SendPacketInSoftwarePace ==
  ASSUME IInv, IInv', PaceInv,
         ReadFrame \/ EncryptFrame \/ WriteEnvelope \/ SendEnvelope
  PROVE  PaceInv'
<1>1. RegistersFit /\ DataOK /\ Fits(up.frameLength) /\ Fits(result["send_packet"].len)
  BY PlacesOfThreads DEF PaceInv, LengthsFit, RegistersFit, IInv
<1>2. CASE ReadFrame
  <2> DEFINE n == result["send_packet"].len
             r == Read("mem", EncodeBlock(up.frame_num), n)
  <2>1. Transfer("send_packet", "bus1", r, "frame", {}) /\ up' = [up EXCEPT !.frameLength = n]
        /\ UNCHANGED <<result, enc, crypto, nic, network_frame>>
    BY <1>2 DEF ReadFrame
  <2>2. RequestFits(r)
    BY <1>1, RequestsFit
  <2>3. RegistersFit'
    <3> HIDE DEF n
    <3>1. up'.frameLength = n
      BY <1>1, <2>1 DEF DataOK, RegistersOK
    <3>2. Fits(n)
      BY <1>1 DEF n
    <3> QED
      BY <1>1, <2>1, <3>1, <3>2 DEF RegistersFit, Fits
  <2> HIDE DEF r
  <2> QED
    BY <2>1, <2>2, <2>3, PlacesOfThreads, CallPace
<1>3. CASE EncryptFrame
  BY <1>1, <1>3, PlacesOfThreads, UnchangedFits, SignalPace DEF EncryptFrame
<1>4. CASE WriteEnvelope
  <2> DEFINE r == Write("mem", CipherBlock(up.frame_num), up.frameLength,
                        EnvelopeWords(cipher.plain, up.frameLength))
  <2>1. Transfer("send_packet", "bus1", r, "stored", {})
        /\ UNCHANGED <<result, enc, up, crypto, nic, network_frame>>
    BY <1>4 DEF WriteEnvelope
  <2>2. RequestFits(r)
    BY <1>1, RequestsFit
  <2> HIDE DEF r
  <2> QED
    BY <1>1, <2>1, <2>2, PlacesOfThreads, UnchangedFits, CallPace
<1>5. CASE SendEnvelope
  BY <1>1, <1>5, DescriptorPace DEF SendEnvelope
<1> QED
  BY <1>2, <1>3, <1>4, <1>5

LEMMA DecryptPacketInSoftwarePace ==
  ASSUME IInv, IInv', PaceInv, EnvelopesOK, DecryptedFits,
         ReadEnvelope \/ DecryptEnvelope \/ WriteFrame \/ AwaitPacket
  PROVE  PaceInv' /\ DecryptedFits'
<1>1. RegistersFit /\ Fits(result["decrypt_packet"].len)
  BY PlacesOfThreads DEF PaceInv, LengthsFit, RegistersFit
<1>2. CASE ReadEnvelope
  <2> DEFINE r == Read("mem", ReceivedBlock(mem_num["decrypt_packet"]), result["decrypt_packet"].len)
  <2>1. Transfer("decrypt_packet", "bus2", r, "envelope", {})
        /\ UNCHANGED <<result, enc, up, crypto, nic, network_frame, bufferInt>>
    BY <1>2 DEF ReadEnvelope
  <2>2. RequestFits(r)
    BY <1>1, RequestsFit
  <2> HIDE DEF r
  <2>3. PaceInv'
    BY <1>1, <2>1, <2>2, PlacesOfThreads, UnchangedFits, CallPace
  <2> QED
    BY <2>1, <2>3 DEF DecryptedFits
<1>3. CASE DecryptEnvelope
  <2>1. PaceInv'
    BY <1>1, <1>3, PlacesOfThreads, UnchangedFits, SignalPace DEF DecryptEnvelope
  <2>2. bufferInt'.len = result["decrypt_packet"].len
    BY <1>3, ReceiverRegisters, EnvelopesMade DEF DecryptEnvelope, EnvelopesOK
  <2> QED
    BY <1>1, <2>1, <2>2 DEF DecryptedFits, Fits
<1>4. CASE WriteFrame
  <2> DEFINE r == Write("mem", ClearBlock(1 - mem_num["decrypt_packet"]), bufferInt.len, bufferInt)
  <2>1. Transfer("decrypt_packet", "bus2", r, "written", {})
        /\ UNCHANGED <<result, enc, up, crypto, nic, network_frame, bufferInt>>
    BY <1>4 DEF WriteFrame
  <2>2. RequestFits(r)
    BY RequestsFit DEF DecryptedFits
  <2> HIDE DEF r
  <2>3. PaceInv'
    BY <1>1, <2>1, <2>2, PlacesOfThreads, UnchangedFits, CallPace
  <2> QED
    BY <2>1, <2>3 DEF DecryptedFits
<1>5. CASE AwaitPacket
  <2>1. PaceInv'
    BY <1>1, <1>5, PlacesOfThreads, UnchangedFits, SignalPace DEF AwaitPacket
  <2> QED
    BY <1>5, <2>1 DEF AwaitPacket, DecryptedFits
<1> QED
  BY <1>2, <1>3, <1>4, <1>5

LEMMA SoftwarePace ==
  ASSUME IInv, IInv', PaceInv, EnvelopesOK, DecryptedFits, SoftwarePipeline, ~Ended',
         build' = "software"
  PROVE  PaceInv' /\ DecryptedFits'
<1>1. ASSUME NEW t, Crash(t) PROVE FALSE
  BY <1>1, CrashStep
<1>2. CASE ReadFrame \/ EncryptFrame \/ WriteEnvelope \/ SendEnvelope
  <2>1. UNCHANGED bufferInt
    BY <1>2 DEF ReadFrame, EncryptFrame, WriteEnvelope, SendEnvelope
  <2> QED
    BY <1>2, <2>1, SendPacketInSoftwarePace DEF DecryptedFits
<1>3. CASE ReadEnvelope \/ DecryptEnvelope \/ WriteFrame \/ AwaitPacket
  BY <1>3, DecryptPacketInSoftwarePace
<1>4. CASE /\ \/ \E b \in Buses : Bus(b)
              \/ Encoder \/ AwaitFrame \/ NetworkInterfaceCards \/ GetPacketLength \/ Tick
           /\ UNCHANGED <<cipher, bufferInt>>
  <2>1. GetPacketLength => Microprocessor2
    BY DEF Microprocessor2
  <2>2. PaceInv'
    BY <1>4, <2>1, BusPace, EncoderPace, AwaitFramePace, NetworkPace, Microprocessor2Pace, TickPace
  <2> QED
    BY <1>4, <2>2 DEF DecryptedFits
<1> QED
  BY <1>1, <1>2, <1>3, <1>4 DEF SoftwarePipeline, SendPacketInSoftware, DecryptPacketInSoftware

-----------------------------------------------------------------------------
(* The invariant and what follows from it. *)

\* No thread of a program that has ended does anything.
LEMMA EndedForGood ==
  ASSUME Ended, TypeOK, EccNext
  PROVE  FALSE
<1>1. /\ \A t \in Threads : wait[t].event # NoEvent /\ wait[t].time = 0
      /\ DOMAIN wait = Threads
  BY DEF Ended, On, NoEvent, TypeOK
<1>2. \A t \in Threads : \A seg : ~Resumes(t, seg)
  BY <1>1 DEF Resumes, IsReady, Ready
<1>3. \A b \in Buses : b \in Threads /\ Aes[b] \in Threads
  BY PlacesOfThreads, Names
<1>4. {"read_file", "send_packet", "decrypt_packet", "setup", "read_packet", "send_frame",
       "receive_frame", "aesEncrypt", "aesDecrypt"} \subseteq Threads
  BY DEF Threads, Sender, Receiver
<1>5. ASSUME NEW b \in Buses PROVE ~Bus(b)
  BY <1>2, <1>3 DEF Bus, Begin, MemDataTransfer, Encode, Cryptography, WaitForBufferDescriptor,
     ConnectionRequest, BufferDescriptor, DataLength, Moved
<1>6. ~Encoder /\ ~AwaitFrame
  BY <1>2, <1>4 DEF Encoder, StartReading, FrameEncoded, FrameWritten, FramePaced,
     AwaitFrame, Connect, Connecting, StartEncoder, AwaitEncoder, GetFrameLength
<1>7. ~NetworkInterfaceCards /\ ~GetPacketLength
  BY <1>2, <1>4 DEF NetworkInterfaceCards, SetupTcpConnection, ConnectionReady, ReadPacket,
     PacketRead, SendFrame, FrameSent, ReceiveFrame, FrameReceived, GetPacketLength
<1>8. ~Tick
  BY <1>1 DEF Tick, Elapse
<1>9. ~SendPacketInSoftware /\ ~DecryptPacketInSoftware
  <2>1. ~DrivesNull("bus1")
    BY <1>4 DEF DrivesNull, Ended, On
  <2> QED
    BY <1>2, <1>4, <2>1 DEF SendPacketInSoftware, ReadFrame, EncryptFrame, WriteEnvelope,
       SendEnvelope, DecryptPacketInSoftware, ReadEnvelope, DecryptEnvelope, WriteFrame, AwaitPacket
<1>10. SoftwarePipeline
  BY DEF EccNext, Ended
<1> QED
  BY <1>5, <1>6, <1>7, <1>8, <1>9, <1>10 DEF SoftwarePipeline

\* As EccInvariant, but without what IInv says of the types already.
EccCore ==
  /\ EnvelopesOK
  /\ \/ Ended /\ TypeOK
     \/ IInv /\ PaceInv /\ DecryptedFits

LEMMA CoreTypes ==
  ASSUME EccCore
  PROVE  EccInvariant /\ TypeOK
<1>1. TypeOK
  BY InvariantTypes DEF EccCore
<1> QED
  BY <1>1, EccTypes DEF EccCore, EccInvariant

LEMMA EccInitial ==
  ASSUME EccInit
  PROVE  EccCore
<1>1. IInv /\ PaceInv
  BY Initial, InitialPace DEF EccInit
<1>2. EnvelopesOK
  BY EnvelopesMade DEF EccInit, EnvelopesOK
<1>3. DecryptedFits
  BY RequestsFit DEF EccInit, DecryptedFits, Blank
<1> QED
  BY <1>1, <1>2, <1>3 DEF EccCore

LEMMA EccInductive ==
  ASSUME EccCore, [EccNext]_eccVars
  PROVE  EccCore'
<1>1. TypeOK /\ EnvelopesOK
  BY CoreTypes DEF EccCore
<1>2. CASE UNCHANGED eccVars
  <2>1. UNCHANGED vars /\ UNCHANGED <<cipherText, cipher, bufferInt, build>>
    BY <1>2 DEF eccVars
  <2>2. EnvelopesOK'
    BY <1>1, <2>1 DEF EnvelopesOK
  <2>3. CASE Ended
    <3>1. TypeOK' /\ Ended'
      BY <1>1, <2>1, <2>3 DEF Ended, TypeOK, vars
    <3> QED
      BY <2>2, <3>1 DEF EccCore
  <2>4. CASE IInv /\ PaceInv /\ DecryptedFits
    BY <2>1, <2>2, <2>4, Stuttering, StutteringPace DEF DecryptedFits, EccCore
  <2> QED
    BY <2>3, <2>4 DEF EccCore
<1>3. CASE EccNext
  <2>1. IInv /\ PaceInv /\ DecryptedFits
    BY <1>1, <1>3, EndedForGood DEF EccCore
  <2>2. CASE build = "hardware"
    <3>1. EccPipeline /\ UNCHANGED <<cipher, bufferInt>>
      BY <1>3, <2>2 DEF EccNext
    <3>2. IInv' /\ EnvelopesOK'
      BY <1>1, <2>1, <3>1, HardwareStep DEF EnvelopesOK
    <3>3. PaceInv' /\ DecryptedFits'
      BY <1>1, <2>1, <3>1, <3>2, HardwarePace DEF DecryptedFits
    <3> QED
      BY <3>2, <3>3 DEF EccCore
  <2>3. CASE build = "software"
    <3>1. SoftwarePipeline /\ UNCHANGED cipherText /\ build' = "software"
      BY <1>3, <2>3 DEF EccNext
    <3>2. EnvelopesOK' /\ (IInv' \/ (Ended' /\ TypeOK'))
      BY <1>1, <2>1, <3>1, SoftwareStep DEF EnvelopesOK
    <3>3. CASE Ended' /\ TypeOK'
      BY <3>2, <3>3 DEF EccCore
    <3>4. CASE IInv' /\ ~Ended'
      <4>1. PaceInv' /\ DecryptedFits'
        BY <1>1, <2>1, <3>1, <3>4, SoftwarePace
      <4> QED
        BY <3>2, <3>4, <4>1 DEF EccCore
    <3>5. ASSUME IInv', Ended' PROVE FALSE
      <4>1. "bus1" \in Threads /\ "bus1" \in Buses
        BY DEF Threads, Buses
      <4>2. BusWaits("bus1", pc'["bus1"], wait'["bus1"])
        BY <3>5, <4>1 DEF IInv, ControlOK, Waits
      <4>3. wait'["bus1"] = On("nothing")
        BY <3>5, <4>1 DEF Ended
      <4> QED
        BY <4>2, <4>3 DEF BusWaits, On, Ready, NoEvent, Pauses
    <3> QED
      BY <3>2, <3>3, <3>4, <3>5
  <2> QED
    BY <1>3, <2>2, <2>3 DEF EccNext
<1> QED
  BY <1>2, <1>3

\* The invariant of the two programs holds whatever lengths the frames have
\* and whether or not an encryption or a decryption fails.
THEOREM EccInvariantHolds == EccSpec => []EccInvariant
<1>1. EccInit => EccCore
  BY EccInitial
<1>2. EccCore /\ [EccNext]_eccVars => EccCore'
  BY EccInductive
<1>3. EccCore => EccInvariant
  BY CoreTypes
<1> QED
  BY <1>1, <1>2, <1>3, PTL DEF EccSpec

\* The variables have their types; an envelope has the number of a frame that
\* was encoded.
THEOREM EccTypesCorrect == EccSpec => []EccTypeOK
<1>1. EccInvariant => EccTypeOK
  BY DEF EccInvariant
<1> QED
  BY <1>1, EccInvariantHolds, PTL

\* Whatever the lengths of the frames, the ECC threads and the network card
\* are only commanded while they await it and the processor awaits the answer
\* that they give; so it is too when a crypto unit has failed.
THEOREM EccCommandsAreHeard == EccSpec => CommandsHeard
<1>1. EccInvariant /\ [EccNext]_eccVars =>
        [/\ \A b \in Buses :
              /\ Cryptography(b) => wait[Aes[b]].event = AesEvent[b]
              /\ BufferDescriptor(b) => wait["read_packet"].event = "read_event"
         /\ AesDone("bus1") => wait["send_packet"].event = "encrypt_done"
         /\ AesDone("bus2") => wait["decrypt_packet"].event = "decrypt_done"]_vars
  <2>1. SUFFICES ASSUME EccInvariant, EccNext, TypeOK
                 PROVE  /\ \A b \in Buses :
                             /\ Cryptography(b) => wait[Aes[b]].event = AesEvent[b]
                             /\ BufferDescriptor(b) => wait["read_packet"].event = "read_event"
                        /\ AesDone("bus1") => wait["send_packet"].event = "encrypt_done"
                        /\ AesDone("bus2") => wait["decrypt_packet"].event = "decrypt_done"
    BY DEF eccVars, vars, EccInvariant, EccTypeOK
  <2>2. IInv
    BY <2>1, EndedForGood DEF EccInvariant
  <2> QED
    BY <2>2, Listening
<1> QED
  BY <1>1, EccInvariantHolds, PTL DEF EccSpec, CommandsHeard

\* However long the frames are, read_file has written each into the memory
\* before the next is due, although the processor of cpu.cpp moves every frame
\* over the same bus itself.
THEOREM EccEncoderInTime == EccSpec => []EncoderKeepsPace
<1>1. EccInvariant => EncoderKeepsPace
  <2>1. SUFFICES ASSUME EccInvariant PROVE EncoderKeepsPace
    OBVIOUS
  <2>2. CASE Ended
    <3>1. "read_file" \in Threads /\ On("nothing") # Ready
      BY DEF Threads, Sender, On, Ready, NoEvent
    <3> QED
      BY <2>2, <3>1 DEF Ended, EncoderKeepsPace, Resumes, IsReady
  <2>3. CASE PaceInv
    BY <2>3 DEF PaceInv, WriteInTime
  <2> QED
    BY <2>1, <2>2, <2>3 DEF EccInvariant
<1> QED
  BY <1>1, EccInvariantHolds, PTL

=============================================================================
