---------------------------- MODULE PipelineChain ----------------------------
(***************************************************************************)
(* Where a frame is on its way through the pipeline, if the frames are     *)
(* short: one thread at a time works on it, all others wait for it, and    *)
(* what is still to be done is over before the encoder has the next frame. *)
(***************************************************************************)
EXTENDS PipelineInv

\* The longest frame, in bytes, for which the pipeline keeps up.
ShortFrame == 80000

-----------------------------------------------------------------------------
(* Where the threads wait between two frames. *)

Home ==
  [bus1 |-> "front", bus2 |-> "front", setup |-> "conn",
   send_packet |-> "encode_done", aesEncrypt |-> "command", read_packet |-> "descriptor",
   send_frame |-> "packet", receive_frame |-> "frame",
   decrypt_packet |-> "packet", aesDecrypt |-> "command"]
HomeEvent ==
  [bus1 |-> "bus1", bus2 |-> "bus2", setup |-> "conn",
   send_packet |-> "encode_done", aesEncrypt |-> "encrypt_event", read_packet |-> "read_event",
   send_frame |-> "send_event", receive_frame |-> "receive_event",
   decrypt_packet |-> "packet_received", aesDecrypt |-> "decrypt_event"]

AtHome(t) == pc[t] = Home[t] /\ wait[t] = On(HomeEvent[t])

\* All but the threads of S; a bus has nothing to do.
OthersHome(S) ==
  /\ \A t \in (Threads \ {"read_file"}) \ S : AtHome(t)
  /\ \A b \in Buses \ S : queue[b] = <<>>

\* Bus b is served, and thread t has asked it for r.
Asking(b, t, r) ==
  /\ queue[b] = <<[by |-> t, req |-> r]>>
  /\ wait[t] = On(t)
  /\ \/ Resumes(b, "front")
     \/ pc[b] = "moving" /\ wait[b].event = NoEvent

\* The time that the transaction in progress on b still takes.
Remaining(b) ==
  IF pc[b] = "moving" THEN wait[b].time
  ELSE IF queue[b] = <<>> THEN 0 ELSE BusTime(Head(queue[b]).req.len)

BusFree(b) == AtHome(b) /\ queue[b] = <<>>

-----------------------------------------------------------------------------
(* The time from some point to the end of the work on a frame of l bytes. *)

ClearWriteOn(l) == BusTime(Length16(l))
DecryptOn(l) == AesTime(Length16(l)) + ClearWriteOn(l)
CipherReadOn(l) == BusTime(Length16(l)) + DecryptOn(l)
DecryptCommandOn(l) == BusTime(4) + CipherReadOn(l)
PacketLengthOn(l) == BusTime(1) + DecryptCommandOn(l)
ReceiveOn(l) == BusTime(Length16(l)) + PacketLengthOn(l)
TransmitOn(l) == TransmitTime(Length16(l)) + ReceiveOn(l)
PacketReadOn(l) == BusTime(Length16(l)) + TransmitOn(l)
DescriptorOn(l) == BusTime(2) + PacketReadOn(l)
CipherWriteOn(l) == BusTime(Length16(l)) + DescriptorOn(l)
EncryptOn(l) == AesTime(l) + CipherWriteOn(l)
RawReadOn(l) == BusTime(l) + EncryptOn(l)
EncryptCommandOn(l) == BusTime(4) + RawReadOn(l)
FrameLengthOn(l) == BusTime(1) + EncryptCommandOn(l)

-----------------------------------------------------------------------------
(* Frame number Reported, of Size bytes, on its way.  Every other frame is  *)
(* looked for in a block where nothing was written: frame 0 comes out.      *)

Size == enc.frame_length
Passing(form) ==
  [frame |-> IF Reported % 2 = 1 THEN Reported ELSE 0, form |-> form, len |-> Length16(Size)]

\* What is in the block to which frame k was decrypted, if k is odd, or the
\* frame before it.
Delivered(k) ==
  IF k = 0 THEN mem["bus2"][3] = Blank
  ELSE /\ mem["bus2"][3].frame = (IF k % 2 = 1 THEN k ELSE k - 1)
       /\ mem["bus2"][3].form = "raw"

\* How many frames the sender's processor, the network card of the receiver,
\* its processor and its crypto unit have done with.
Passed(sent, received, taken, done) ==
  /\ up.frame_num = sent
  /\ mem_num["receive_frame"] = received % 2
  /\ mem_num["decrypt_packet"] = taken % 2
  /\ Delivered(done)

RawIn(c) == Crypted(c, "raw", "cipher", Size) = Passing("cipher")
RawStored ==
  Reported % 2 = 1 => mem["bus1"][0] = [frame |-> Reported, form |-> "raw", len |-> Size]
CipherStored == mem["bus1"][CipherBlock(Reported - 1)] = Passing("cipher")
EncryptCommand ==
  [src |-> EncodeBlock(Reported - 1), dst |-> CipherBlock(Reported - 1), encrypt |-> 1,
   length |-> Size]
EncryptRegisters ==
  /\ up.frameLength = Size
  /\ crypto["bus1"].mem_address_src = EncodeBlock(Reported - 1)
  /\ crypto["bus1"].mem_address_dst = CipherBlock(Reported - 1)
  /\ crypto["bus1"].length = Size

\* r is the time to the end of the work on the frame.
Commanding(r) ==
  /\ AtHome("aesEncrypt")
  /\ \/ Resumes("send_packet", "encode_done") /\ BusFree("bus1") /\ r = FrameLengthOn(Size)
     \/ /\ pc["send_packet"] = "length"
        /\ Asking("bus1", "send_packet", Read("encoder", 0, 1))
        /\ r = Remaining("bus1") + EncryptCommandOn(Size)
     \/ /\ Resumes("send_packet", "length") /\ BusFree("bus1")
        /\ result["send_packet"].len = Size
        /\ r = EncryptCommandOn(Size)
     \/ /\ pc["send_packet"] = "encrypting"
        /\ up.frameLength = Size
        /\ Asking("bus1", "send_packet", Write("crypto", 0, 4, EncryptCommand))
        /\ r = Remaining("bus1") + RawReadOn(Size)

Fetching(r) ==
  /\ EncryptRegisters
  /\ \/ /\ Resumes("send_packet", "encrypting")
        /\ pc["aesEncrypt"] = "read" => Remaining("bus1") > 0
     \/ pc["send_packet"] = "encrypted" /\ wait["send_packet"] = On("encrypt_done")
  /\ \/ Resumes("aesEncrypt", "command") /\ BusFree("bus1") /\ r = RawReadOn(Size)
     \/ /\ pc["aesEncrypt"] = "read"
        /\ Asking("bus1", "aesEncrypt", Read("mem", EncodeBlock(Reported - 1), Size))
        /\ r = Remaining("bus1") + EncryptOn(Size)

Encrypting(r) ==
  /\ EncryptRegisters
  /\ pc["send_packet"] = "encrypted" /\ wait["send_packet"] = On("encrypt_done")
  /\ \/ /\ Resumes("aesEncrypt", "read") /\ BusFree("bus1")
        /\ RawIn(result["aesEncrypt"])
        /\ r = EncryptOn(Size)
     \/ /\ pc["aesEncrypt"] = "crypted" /\ wait["aesEncrypt"].event = NoEvent /\ BusFree("bus1")
        /\ crypto["bus1"].bufferInt = Passing("cipher")
        /\ r = wait["aesEncrypt"].time + CipherWriteOn(Size)
     \/ /\ pc["aesEncrypt"] = "written"
        /\ Asking("bus1", "aesEncrypt",
             Write("mem", CipherBlock(Reported - 1), Length16(Size), Passing("cipher")))
        /\ r = Remaining("bus1") + DescriptorOn(Size)
     \/ /\ Resumes("aesEncrypt", "written") /\ BusFree("bus1")
        /\ CipherStored
        /\ r = DescriptorOn(Size)

Encrypted(r) ==
  /\ AtHome("aesEncrypt") /\ BusFree("bus1")
  /\ Resumes("send_packet", "encrypted") /\ up.frameLength = Size
  /\ CipherStored
  /\ r = DescriptorOn(Size)

InCrypto1(r) ==
  /\ OthersHome({"send_packet", "aesEncrypt", "bus1"})
  /\ Passed(Reported - 1, Reported - 1, Reported - 1, Reported - 1)
  /\ RawStored
  /\ Commanding(r) \/ Fetching(r) \/ Encrypting(r) \/ Encrypted(r)

\* The sender's network card.
Descriptor == [addr |-> CipherBlock(Reported - 1), length |-> Length16(Size)]
CardRegisters ==
  nic.mem_address = CipherBlock(Reported - 1) /\ nic.packet_length = Length16(Size)
Describing(r) ==
  /\ AtHome("read_packet")
  /\ pc["send_packet"] = "idle"
  /\ Asking("bus1", "send_packet", Write("nic", 0, 2, Descriptor))
  /\ r = Remaining("bus1") + PacketReadOn(Size)
CardReading(r) ==
  /\ CardRegisters
  /\ \/ /\ Resumes("send_packet", "idle")
        /\ pc["read_packet"] = "read" => Remaining("bus1") > 0
     \/ AtHome("send_packet")
  /\ \/ Resumes("read_packet", "descriptor") /\ BusFree("bus1") /\ r = PacketReadOn(Size)
     \/ /\ pc["read_packet"] = "read"
        /\ Asking("bus1", "read_packet", Read("mem", CipherBlock(Reported - 1), Length16(Size)))
        /\ r = Remaining("bus1") + TransmitOn(Size)
CardRead(r) ==
  /\ CardRegisters
  /\ AtHome("send_packet")
  /\ Resumes("read_packet", "read") /\ BusFree("bus1")
  /\ result["read_packet"] = Passing("cipher")
  /\ r = TransmitOn(Size)
InCard(r) ==
  /\ OthersHome({"send_packet", "read_packet", "bus1"})
  /\ Passed(Reported, Reported - 1, Reported - 1, Reported - 1)
  /\ CipherStored
  /\ Describing(r) \/ CardReading(r) \/ CardRead(r)

\* The network.
InNetwork(r) ==
  /\ OthersHome({"send_frame"})
  /\ Passed(Reported, Reported - 1, Reported - 1, Reported - 1)
  /\ \/ /\ Resumes("send_frame", "packet")
        /\ nic.packet_data = Passing("cipher") /\ nic.packet_length = Length16(Size)
        /\ r = TransmitOn(Size)
     \/ /\ pc["send_frame"] = "transmitted" /\ wait["send_frame"].event = NoEvent
        /\ network_frame = Passing("cipher")
        /\ r = wait["send_frame"].time + ReceiveOn(Size)

\* The receiver's network card.
Received == mem["bus2"][(Reported - 1) % 2] = Passing("cipher")
InReceiver(r) ==
  /\ OthersHome({"receive_frame", "bus2"})
  /\ Passed(Reported, Reported - 1, Reported - 1, Reported - 1)
  /\ network_frame = Passing("cipher")
  /\ \/ Resumes("receive_frame", "frame") /\ BusFree("bus2") /\ r = ReceiveOn(Size)
     \/ /\ pc["receive_frame"] = "written"
        /\ Asking("bus2", "receive_frame",
             Write("mem", (Reported - 1) % 2, Length16(Size), Passing("cipher")))
        /\ r = Remaining("bus2") + PacketLengthOn(Size)
     \/ /\ Resumes("receive_frame", "written") /\ BusFree("bus2")
        /\ Received
        /\ r = PacketLengthOn(Size)

\* The receiver's processor and its crypto unit.
CipherIn(c) == Crypted(c, "cipher", "raw", Length16(Size)) = Passing("raw")
DecryptCommand ==
  [src |-> ReceivedBlock((Reported - 1) % 2), dst |-> ClearBlock((Reported - 1) % 2),
   encrypt |-> 0, length |-> Length16(Size)]
DecryptRegisters ==
  /\ crypto["bus2"].mem_address_src = ReceivedBlock((Reported - 1) % 2)
  /\ crypto["bus2"].mem_address_dst = ClearBlock((Reported - 1) % 2)
  /\ crypto["bus2"].length = Length16(Size)

Commanding2(r) ==
  /\ AtHome("aesDecrypt")
  /\ \/ /\ Passed(Reported, Reported, Reported - 1, Reported - 1)
        /\ \/ /\ Resumes("decrypt_packet", "packet") /\ BusFree("bus2")
              /\ r = PacketLengthOn(Size)
           \/ /\ pc["decrypt_packet"] = "length"
              /\ Asking("bus2", "decrypt_packet", Read("nic", 0, 1))
              /\ r = Remaining("bus2") + DecryptCommandOn(Size)
           \/ /\ Resumes("decrypt_packet", "length") /\ BusFree("bus2")
              /\ result["decrypt_packet"].len = Length16(Size)
              /\ r = DecryptCommandOn(Size)
     \/ /\ Passed(Reported, Reported, Reported, Reported - 1)
        /\ pc["decrypt_packet"] = "decrypting"
        /\ Asking("bus2", "decrypt_packet", Write("crypto", 0, 4, DecryptCommand))
        /\ r = Remaining("bus2") + CipherReadOn(Size)
Fetching2(r) ==
  /\ DecryptRegisters
  /\ Passed(Reported, Reported, Reported, Reported - 1)
  /\ \/ /\ Resumes("decrypt_packet", "decrypting")
        /\ pc["aesDecrypt"] = "read" => Remaining("bus2") > 0
     \/ pc["decrypt_packet"] = "decrypted" /\ wait["decrypt_packet"] = On("decrypt_done")
  /\ \/ Resumes("aesDecrypt", "command") /\ BusFree("bus2") /\ r = CipherReadOn(Size)
     \/ /\ pc["aesDecrypt"] = "read"
        /\ Asking("bus2", "aesDecrypt",
             Read("mem", ReceivedBlock((Reported - 1) % 2), Length16(Size)))
        /\ r = Remaining("bus2") + DecryptOn(Size)
Decrypting(r) ==
  /\ DecryptRegisters
  /\ pc["decrypt_packet"] = "decrypted" /\ wait["decrypt_packet"] = On("decrypt_done")
  /\ \/ /\ Passed(Reported, Reported, Reported, Reported - 1)
        /\ \/ /\ Resumes("aesDecrypt", "read") /\ BusFree("bus2")
              /\ CipherIn(result["aesDecrypt"])
              /\ r = DecryptOn(Size)
           \/ /\ pc["aesDecrypt"] = "crypted" /\ wait["aesDecrypt"].event = NoEvent
              /\ BusFree("bus2")
              /\ crypto["bus2"].bufferInt = Passing("raw")
              /\ r = wait["aesDecrypt"].time + ClearWriteOn(Size)
           \/ /\ pc["aesDecrypt"] = "written"
              /\ Asking("bus2", "aesDecrypt",
                   Write("mem", ClearBlock((Reported - 1) % 2), Length16(Size), Passing("raw")))
              /\ r = Remaining("bus2")
     \/ /\ Passed(Reported, Reported, Reported, Reported)
        /\ Resumes("aesDecrypt", "written") /\ BusFree("bus2") /\ r = 0
Decrypted(r) ==
  /\ AtHome("aesDecrypt") /\ BusFree("bus2")
  /\ Passed(Reported, Reported, Reported, Reported)
  /\ Resumes("decrypt_packet", "decrypted")
  /\ r = 0
InCrypto2(r) ==
  /\ OthersHome({"decrypt_packet", "aesDecrypt", "bus2"})
  /\ network_frame = Passing("cipher")
  /\ Received
  /\ Commanding2(r) \/ Fetching2(r) \/ Decrypting(r) \/ Decrypted(r)

Working(r) == InCrypto1(r) \/ InCard(r) \/ InNetwork(r) \/ InReceiver(r) \/ InCrypto2(r)

-----------------------------------------------------------------------------
(* The encoder. *)

\* read_file is on its way to the next frame, if there is one; it is at least
\* as far from it as the work on this one is from its end.
Encoding(r) ==
  /\ Size \in FrameLens
  /\ \/ /\ pc["read_file"] = "encoded" /\ wait["read_file"].event = NoEvent
        /\ enc.buffer_ptr \in FrameLens
        /\ enc.due = FramePeriod - EncodeTime + wait["read_file"].time
        /\ r < wait["read_file"].time
     \/ /\ pc["read_file"] = "paced" /\ wait["read_file"].event = NoEvent
        /\ r < wait["read_file"].time + EncodeTime
     \/ pc["read_file"] = "returned" /\ wait["read_file"] = On("nothing")

\* Nothing is left to do for the frames so far.
Quiet ==
  /\ Passed(Reported, Reported, Reported, Reported)
  /\ \/ /\ OthersHome({"send_packet"})
        /\ \/ AtHome("send_packet")
           \/ /\ Resumes("send_packet", "idle") /\ Reported = 0
              /\ pc["read_file"] \in {"encoded", "written"} => wait["read_file"].time > 0
        /\ \/ Resumes("read_file", "start") /\ Reported = 0
           \/ /\ pc["read_file"] = "encoded" /\ wait["read_file"].event = NoEvent
              /\ enc.buffer_ptr \in FrameLens
              /\ enc.due = FramePeriod - EncodeTime + wait["read_file"].time
           \/ pc["read_file"] = "paced" /\ wait["read_file"].event = NoEvent
           \/ pc["read_file"] = "returned" /\ wait["read_file"] = On("nothing")
           \/ /\ Resumes("read_file", "written")
              /\ Size \in FrameLens
              /\ enc.due = FramePeriod - EncodeTime - BusTime(Size)
              /\ mem["bus1"][enc.adr_num] = [frame |-> enc.count + 1, form |-> "raw", len |-> Size]
     \/ /\ OthersHome({"bus1"})
        /\ pc["read_file"] = "written"
        /\ Size \in FrameLens
        /\ Asking("bus1", "read_file",
             Write("mem", enc.adr_num, Size,
                   [frame |-> enc.count + 1, form |-> "raw", len |-> Size]))
        /\ enc.due = FramePeriod - EncodeTime - BusTime(Size) + Remaining("bus1")

-----------------------------------------------------------------------------
(* The beginning. *)

Starting ==
  /\ pc["read_file"] = "start" /\ wait["read_file"] = On("read")
  /\ enc.count = 0 /\ Passed(0, 0, 0, 0)
  /\ OthersHome({"send_packet", "setup", "bus1"})
  /\ \/ Resumes("send_packet", "start") /\ BusFree("bus1") /\ AtHome("setup")
     \/ /\ pc["send_packet"] = "connecting" /\ AtHome("setup")
        /\ Asking("bus1", "send_packet", Write("nic", 0, 1, 1))
     \/ /\ BusFree("bus1")
        /\ \/ Resumes("send_packet", "connecting")
           \/ pc["send_packet"] = "connected" /\ wait["send_packet"] = On("connection_ready")
        /\ \/ Resumes("setup", "conn")
           \/ /\ pc["setup"] = "handshake" /\ wait["setup"].event = NoEvent
              /\ Resumes("send_packet", "connecting") => wait["setup"].time > 0
     \/ Resumes("send_packet", "connected") /\ BusFree("bus1") /\ AtHome("setup")
     \/ /\ pc["send_packet"] = "idle" /\ AtHome("setup")
        /\ Asking("bus1", "send_packet", Write("encoder", 0, 2, [i \in {0, 1} |-> i]))

-----------------------------------------------------------------------------
\* What is so all the time.
Lasting ==
  /\ Reported \in 0..Frames
  /\ enc.adr_num = Reported % 2
  /\ mem["bus1"][3] = Blank /\ mem["bus2"][2] = Blank
  /\ network_frame # Blank => network_frame.form = "cipher"
  /\ pc["read_file"] # "start" \/ IsReady("read_file") => enc.mem_address_dst = [i \in {0, 1} |-> i]

\* The times that the work may still take.
ToGo ==
  {x + y : x \in {0, Remaining("bus1"), Remaining("bus2"), wait["aesEncrypt"].time,
                  wait["send_frame"].time, wait["aesDecrypt"].time},
           y \in {0, ClearWriteOn(Size), DecryptOn(Size), CipherReadOn(Size),
                  DecryptCommandOn(Size), PacketLengthOn(Size), ReceiveOn(Size),
                  TransmitOn(Size), PacketReadOn(Size), DescriptorOn(Size),
                  CipherWriteOn(Size), EncryptOn(Size), RawReadOn(Size),
                  EncryptCommandOn(Size), FrameLengthOn(Size)}}

ChainInv ==
  /\ Lasting
  /\ Starting \/ Quiet \/ \E r \in ToGo : Working(r) /\ Encoding(r)

=============================================================================
