------------------------------ MODULE Pipeline ------------------------------
(***************************************************************************)
(* The video pipeline of Project.cpp as it is built (AES hardware, no ECC, *)
(* no DEMO): the threads of the sending and of the receiving system, the   *)
(* blocks of the two memories through which they hand frames on, and the   *)
(* events by which they notify each other.                                 *)
(*                                                                         *)
(* A bus transaction is one step, taken when its last word has been moved: *)
(* module Bus shows that transactions are served one at a time in the      *)
(* order in which they were asked for.  Time is in ns.  A frame is its     *)
(* number and its length; the bytes of a block are what frame they are     *)
(* (0: none, or not all of one), in what form, and how many.               *)
(***************************************************************************)
EXTENDS Sequences, SystemC

CONSTANTS
  FrameLens,  \* the lengths, in bytes, that a compressed frame may have
  Frames      \* the encoder stops after so many frames (11 in the code)

VARIABLES
  queue,          \* queue[b]: the transactions of bus b, oldest in progress
  result,         \* result[t]: what thread t's last read transfer returned
  mem,            \* mem[b][k]: the k-th MAX_FRAME_SIZE block of b's memory
  enc,            \* the encoder's registers and the locals of read_file
  up,             \* the locals of send_packet
  crypto,         \* crypto[b]: the registers of the crypto unit on bus b
  nic,            \* the registers of the sender's network card
  network_frame,  \* the frame on the network
  mem_num         \* mem_num[t]: the local mem_num of receiver thread t

vars == <<pc, wait, queue, result, mem, enc, up, crypto, nic, network_frame, mem_num>>

Buses == {"bus1", "bus2"}
Sender == {"send_packet", "read_file", "aesEncrypt", "read_packet", "send_frame", "setup"}
Receiver == {"receive_frame", "decrypt_packet", "aesDecrypt"}
Threads == Buses \cup Sender \cup Receiver

\* The crypto thread that works on each bus.
Aes == [bus1 |-> "aesEncrypt", bus2 |-> "aesDecrypt"]

Blank == [frame |-> 0, form |-> "mixed", len |-> 0]

\* The address MEM_START_ADDR + k * MAX_FRAME_SIZE is written k.
MAX_FRAME_SIZE == 300000
Blocks == 0..4

-----------------------------------------------------------------------------
(* Durations. *)

Cycle == 1000 \div 72

\* From the call of MasterDataTransfer to the end of the transfer.
BusTime(len) == (3 * 1000) \div 72 + (len + 2) * Cycle

\* Mutant: a frame is padded also if it ends with a whole block.
Blocks16More(len) == len \div 16 + 1

Blocks16(len) == (len + 15) \div 16
Length16(len) == 16 * Blocks16(len)

\* Mutant: the crypto unit has ECC_THROUGHPUT.
EccTime(len) == 69040 * Blocks16(len)

\* Mutant: the network has the 2621440 bytes per second of an older card.
TransmitTime20(len) == 6104 * Blocks16(len)

\* AES_THROUGHPUT and the network's 7077888 bytes per second, per 16 bytes.
AesTime(len) == 1400 * Blocks16(len)
TransmitTime(len) == 2261 * Blocks16(len)

\* Mutant: FRAME_PERIOD of Project.h, taken for ns as its comment says.
FramePeriodOf33us == 33000

SetupTime == 49010
EncodeTime == 3500 * 1000
FramePeriod == 33 * 1000 * 1000

-----------------------------------------------------------------------------
(* Data. *)

\* The first len words of a block that holds c.
Prefix(c, len) ==
  IF len = c.len THEN c
  ELSE [frame |-> 0, form |-> IF len < c.len THEN c.form ELSE "mixed", len |-> len]

\* What the AES functions make of c: a frame comes out whole only if it went
\* in whole and in the other form.
Crypted(c, from, to, len) ==
  [frame |-> IF c.form = from THEN c.frame ELSE 0, form |-> to, len |-> Length16(len)]

-----------------------------------------------------------------------------
(* The buses. *)

\* Thread t calls MasterDataTransfer on bus b and goes on with seg after it.
Transfer(t, b, request, seg, fired) ==
  /\ queue' = [queue EXCEPT ![b] = Append(@, [by |-> t, req |-> request])]
  /\ Suspend(t, seg, On(t), fired \cup {b})

Begin(b) ==
  /\ Resumes(b, "front")
  /\ Suspend(b, "moving", For(BusTime(Head(queue[b]).req.len)), {})
  /\ UNCHANGED <<queue, result, mem, enc, up, crypto, nic, network_frame, mem_num>>

\* The transaction in progress is over, and its master goes on.  fired are
\* the events the slave notifies.
Finish(b, fired) ==
  /\ queue' = [queue EXCEPT ![b] = Tail(@)]
  /\ LET events == fired \cup {Head(queue[b]).by}
     IN  \/ /\ Tail(queue[b]) = <<>>
            /\ Suspend(b, "front", On(b), events)
         \/ /\ Tail(queue[b]) # <<>>
            /\ Suspend(b, "moving", For(BusTime(queue[b][2].req.len)), events)

Moved(b, slave) == Resumes(b, "moving") /\ Head(queue[b]).req.slave = slave

Returns(b, c) == result' = [result EXCEPT ![Head(queue[b]).by] = c]

\* MemDataTransfer.
MemDataTransfer(b) ==
  /\ Moved(b, "mem")
  /\ LET r == Head(queue[b]).req
     IN  \/ r.rdnwr /\ Returns(b, Prefix(mem[b][r.addr], r.len)) /\ UNCHANGED mem
         \/ ~r.rdnwr /\ mem' = [mem EXCEPT ![b][r.addr] = r.data] /\ UNCHANGED result
  /\ Finish(b, {})
  /\ UNCHANGED <<enc, up, crypto, nic, network_frame, mem_num>>

\* encoder::encode
Encode(b) ==
  /\ Moved(b, "encoder")
  /\ LET r == Head(queue[b]).req
     IN  \/ /\ ~r.rdnwr
            /\ enc' = [enc EXCEPT !.mem_address_dst = r.data]
            /\ Finish(b, {"read"})
            /\ UNCHANGED result
         \/ /\ r.rdnwr
            /\ Returns(b, [Blank EXCEPT !.len = enc.frame_length])
            /\ Finish(b, {})
            /\ UNCHANGED enc
  /\ UNCHANGED <<mem, up, crypto, nic, network_frame, mem_num>>

\* crypto::cryptography.  The events of the two units are told apart by the
\* direction, because crypto1 is only told to encrypt and crypto2 to decrypt.
Cryptography(b) ==
  /\ Moved(b, "crypto")
  /\ LET r == Head(queue[b]).req.data
     IN  /\ crypto' = [crypto EXCEPT ![b] = [@ EXCEPT !.mem_address_src = r.src,
                                                    !.mem_address_dst = r.dst,
                                                    !.length = r.length]]
         /\ Finish(b, {IF r.encrypt = 1 THEN "encrypt_event" ELSE "decrypt_event"})
  /\ UNCHANGED <<result, mem, enc, up, nic, network_frame, mem_num>>

\* network_interface_card::wait_for_buffer_descriptor, for its three requests.
ConnectionRequest(b) ==
  /\ Moved(b, "nic")
  /\ Head(queue[b]).req.len = 1
  /\ ~Head(queue[b]).req.rdnwr
  /\ Finish(b, {"conn"})
  /\ UNCHANGED <<result, mem, enc, up, crypto, nic, network_frame, mem_num>>

BufferDescriptor(b) ==
  /\ Moved(b, "nic")
  /\ Head(queue[b]).req.len = 2
  /\ LET r == Head(queue[b]).req
     IN  nic' = [nic EXCEPT !.mem_address = r.data.addr, !.packet_length = r.data.length]
  /\ Finish(b, {"read_event"})
  /\ UNCHANGED <<result, mem, enc, up, crypto, network_frame, mem_num>>

DataLength(b) ==
  /\ Moved(b, "nic")
  /\ Head(queue[b]).req.rdnwr
  /\ Returns(b, [Blank EXCEPT !.len = network_frame.len])
  /\ Finish(b, {})
  /\ UNCHANGED <<mem, enc, up, crypto, nic, network_frame, mem_num>>

WaitForBufferDescriptor(b) ==
  ConnectionRequest(b) \/ BufferDescriptor(b) \/ DataLength(b)

Bus(b) ==
  \/ Begin(b) \/ MemDataTransfer(b) \/ Encode(b) \/ Cryptography(b)
  \/ WaitForBufferDescriptor(b)

Write(slave, addr, len, data) ==
  [slave |-> slave, rdnwr |-> FALSE, addr |-> addr, len |-> len, data |-> data]
Read(slave, addr, len) ==
  [slave |-> slave, rdnwr |-> TRUE, addr |-> addr, len |-> len, data |-> Blank]

-----------------------------------------------------------------------------
(* The encoder. *)

\* The head of read_file's loop, e being the encoder's state: new_frame fills
\* the buffer.  The file may end with any frame.
NextFrame(e, fired) ==
  \/ /\ e.count < Frames
     /\ \E len \in FrameLens : enc' = [e EXCEPT !.buffer_ptr = len, !.due = FramePeriod]
     /\ Suspend("read_file", "encoded", For(EncodeTime), fired)
  \/ /\ enc' = e
     /\ Suspend("read_file", "returned", On("nothing"), fired)

StartReading ==
  /\ Resumes("read_file", "start")
  /\ NextFrame(enc, {})
  /\ UNCHANGED <<queue, result, mem, up, crypto, nic, network_frame, mem_num>>

FrameEncoded ==
  /\ Resumes("read_file", "encoded")
  /\ enc' = [enc EXCEPT !.frame_length = enc.buffer_ptr]
  /\ Transfer("read_file", "bus1",
       Write("mem", enc.mem_address_dst[enc.adr_num], enc.buffer_ptr,
             [frame |-> enc.count + 1, form |-> "raw", len |-> enc.buffer_ptr]),
       "written", {})
  /\ UNCHANGED <<result, mem, up, crypto, nic, network_frame, mem_num>>

\* encode_done; then a wait for the rest of the 33 ms, unless none is left.
FrameWritten ==
  /\ Resumes("read_file", "written")
  /\ \/ /\ enc.due > 0
        /\ enc' = [enc EXCEPT !.adr_num = 1 - @]
        /\ Suspend("read_file", "paced", For(enc.due), {"encode_done"})
     \/ /\ enc.due = 0
        /\ NextFrame([enc EXCEPT !.adr_num = 1 - @, !.count = @ + 1], {"encode_done"})
  /\ UNCHANGED <<queue, result, mem, up, crypto, nic, network_frame, mem_num>>

FramePaced ==
  /\ Resumes("read_file", "paced")
  /\ NextFrame([enc EXCEPT !.count = @ + 1], {})
  /\ UNCHANGED <<queue, result, mem, up, crypto, nic, network_frame, mem_num>>

Encoder == StartReading \/ FrameEncoded \/ FrameWritten \/ FramePaced

-----------------------------------------------------------------------------
(* The sender's processor. *)

EncodeBlock(n) == IF n % 2 = 0 THEN 0 ELSE 3
CipherBlock(n) == IF n % 2 = 0 THEN 1 ELSE 4

Connect ==
  /\ Resumes("send_packet", "start")
  /\ Transfer("send_packet", "bus1", Write("nic", 0, 1, 1), "connecting", {})
  /\ UNCHANGED <<result, mem, enc, up, crypto, nic, network_frame, mem_num>>

Connecting ==
  /\ Resumes("send_packet", "connecting")
  /\ Suspend("send_packet", "connected", On("connection_ready"), {})
  /\ UNCHANGED <<queue, result, mem, enc, up, crypto, nic, network_frame, mem_num>>

StartEncoder ==
  /\ Resumes("send_packet", "connected")
  /\ Transfer("send_packet", "bus1", Write("encoder", 0, 2, [i \in {0, 1} |-> i]), "idle", {})
  /\ UNCHANGED <<result, mem, enc, up, crypto, nic, network_frame, mem_num>>

\* Mutant: the processor does not wait for encode_done.
NoAwaitEncoder ==
  /\ Resumes("send_packet", "idle")
  /\ Suspend("send_packet", "encode_done", Ready, {})
  /\ UNCHANGED <<queue, result, mem, enc, up, crypto, nic, network_frame, mem_num>>

AwaitEncoder ==
  /\ Resumes("send_packet", "idle")
  /\ Suspend("send_packet", "encode_done", On("encode_done"), {})
  /\ UNCHANGED <<queue, result, mem, enc, up, crypto, nic, network_frame, mem_num>>

GetFrameLength ==
  /\ Resumes("send_packet", "encode_done")
  /\ Transfer("send_packet", "bus1", Read("encoder", 0, 1), "length", {})
  /\ UNCHANGED <<result, mem, enc, up, crypto, nic, network_frame, mem_num>>

StartEncryption ==
  /\ Resumes("send_packet", "length")
  /\ up' = [up EXCEPT !.frameLength = result["send_packet"].len]
  /\ Transfer("send_packet", "bus1",
       Write("crypto", 0, 4,
             [src |-> EncodeBlock(up.frame_num), dst |-> CipherBlock(up.frame_num),
              encrypt |-> 1, length |-> result["send_packet"].len]),
       "encrypting", {})
  /\ UNCHANGED <<result, mem, enc, crypto, nic, network_frame, mem_num>>

\* Mutant: the processor does not wait for encrypt_done.
NoAwaitEncryption ==
  /\ Resumes("send_packet", "encrypting")
  /\ Suspend("send_packet", "encrypted", Ready, {})
  /\ UNCHANGED <<queue, result, mem, enc, up, crypto, nic, network_frame, mem_num>>

AwaitEncryption ==
  /\ Resumes("send_packet", "encrypting")
  /\ Suspend("send_packet", "encrypted", On("encrypt_done"), {})
  /\ UNCHANGED <<queue, result, mem, enc, up, crypto, nic, network_frame, mem_num>>

\* With AES set to 0, and as a mutant: the descriptor has the length of the
\* frame, not of its ciphertext.
SendPacketUnpadded ==
  /\ Resumes("send_packet", "encrypted")
  /\ Transfer("send_packet", "bus1",
       Write("nic", 0, 2, [addr |-> CipherBlock(up.frame_num), length |-> up.frameLength]),
       "idle", {})
  /\ up' = [up EXCEPT !.frame_num = @ + 1]
  /\ UNCHANGED <<result, mem, enc, crypto, nic, network_frame, mem_num>>

\* After the transfer frame_num is incremented; nothing looks at it before.
SendPacket ==
  /\ Resumes("send_packet", "encrypted")
  /\ Transfer("send_packet", "bus1",
       Write("nic", 0, 2, [addr |-> CipherBlock(up.frame_num),
                           length |-> Length16(up.frameLength)]),
       "idle", {})
  /\ up' = [up EXCEPT !.frame_num = @ + 1]
  /\ UNCHANGED <<result, mem, enc, crypto, nic, network_frame, mem_num>>

AwaitFrame ==
  Connect \/ Connecting \/ StartEncoder \/ AwaitEncoder \/ GetFrameLength

Microprocessor ==
  \/ AwaitFrame
  \/ StartEncryption \/ AwaitEncryption \/ SendPacket

-----------------------------------------------------------------------------
(* The crypto units: aesEncrypt on bus1, aesDecrypt on bus2. *)

AesEvent == [bus1 |-> "encrypt_event", bus2 |-> "decrypt_event"]
AesDoneEvent == [bus1 |-> "encrypt_done", bus2 |-> "decrypt_done"]

AesReadData(b) ==
  /\ Resumes(Aes[b], "command")
  /\ Transfer(Aes[b], b, Read("mem", crypto[b].mem_address_src, crypto[b].length), "read", {})
  /\ UNCHANGED <<result, mem, enc, up, crypto, nic, network_frame, mem_num>>

AesCrypt(b) ==
  /\ Resumes(Aes[b], "read")
  /\ crypto' = [crypto EXCEPT ![b].bufferInt =
       IF b = "bus1" THEN Crypted(result[Aes[b]], "raw", "cipher", crypto[b].length)
                     ELSE Crypted(result[Aes[b]], "cipher", "raw", crypto[b].length)]
  /\ Suspend(Aes[b], "crypted", For(AesTime(crypto[b].length)), {})
  /\ UNCHANGED <<queue, result, mem, enc, up, nic, network_frame, mem_num>>

AesWriteData(b) ==
  /\ Resumes(Aes[b], "crypted")
  /\ Transfer(Aes[b], b,
       Write("mem", crypto[b].mem_address_dst, crypto[b].bufferInt.len, crypto[b].bufferInt),
       "written", {})
  /\ UNCHANGED <<result, mem, enc, up, crypto, nic, network_frame, mem_num>>

AesDone(b) ==
  /\ Resumes(Aes[b], "written")
  /\ Suspend(Aes[b], "command", On(AesEvent[b]), {AesDoneEvent[b]})
  /\ UNCHANGED <<queue, result, mem, enc, up, crypto, nic, network_frame, mem_num>>

Crypto(b) == AesReadData(b) \/ AesCrypt(b) \/ AesWriteData(b) \/ AesDone(b)

-----------------------------------------------------------------------------
(* The network cards. *)

SetupTcpConnection ==
  /\ Resumes("setup", "conn")
  /\ Suspend("setup", "handshake", For(SetupTime), {})
  /\ UNCHANGED <<queue, result, mem, enc, up, crypto, nic, network_frame, mem_num>>

ConnectionReady ==
  /\ Resumes("setup", "handshake")
  /\ Suspend("setup", "conn", On("conn"), {"connection_ready"})
  /\ UNCHANGED <<queue, result, mem, enc, up, crypto, nic, network_frame, mem_num>>

ReadPacket ==
  /\ Resumes("read_packet", "descriptor")
  /\ Transfer("read_packet", "bus1", Read("mem", nic.mem_address, nic.packet_length), "read", {})
  /\ UNCHANGED <<result, mem, enc, up, crypto, nic, network_frame, mem_num>>

PacketRead ==
  /\ Resumes("read_packet", "read")
  /\ nic' = [nic EXCEPT !.packet_data = result["read_packet"]]
  /\ Suspend("read_packet", "descriptor", On("read_event"), {"send_event"})
  /\ UNCHANGED <<queue, result, mem, enc, up, crypto, network_frame, mem_num>>

\* The ethernet_frame copies as many words as the last descriptor says.
SendFrame ==
  /\ Resumes("send_frame", "packet")
  /\ network_frame' = Prefix(nic.packet_data, nic.packet_length)
  /\ Suspend("send_frame", "transmitted", For(TransmitTime(nic.packet_length)), {})
  /\ UNCHANGED <<queue, result, mem, enc, up, crypto, nic, mem_num>>

FrameSent ==
  /\ Resumes("send_frame", "transmitted")
  /\ Suspend("send_frame", "packet", On("send_event"), {"receive_event"})
  /\ UNCHANGED <<queue, result, mem, enc, up, crypto, nic, network_frame, mem_num>>

ReceiveFrame ==
  /\ Resumes("receive_frame", "frame")
  /\ Transfer("receive_frame", "bus2",
       Write("mem", mem_num["receive_frame"], network_frame.len, network_frame),
       "written", {})
  /\ UNCHANGED <<result, mem, enc, up, crypto, nic, network_frame, mem_num>>

\* Mutant: mem_num counts on instead of alternating.
FrameReceivedCounting ==
  /\ Resumes("receive_frame", "written")
  /\ mem_num' = [mem_num EXCEPT !["receive_frame"] = 1 + @]
  /\ Suspend("receive_frame", "frame", On("receive_event"), {"packet_received"})
  /\ UNCHANGED <<queue, result, mem, enc, up, crypto, nic, network_frame>>

\* Mutant: the receiver's processor is not interrupted.
FrameReceivedSilently ==
  /\ Resumes("receive_frame", "written")
  /\ mem_num' = [mem_num EXCEPT !["receive_frame"] = 1 - @]
  /\ Suspend("receive_frame", "frame", On("receive_event"), {})
  /\ UNCHANGED <<queue, result, mem, enc, up, crypto, nic, network_frame>>

FrameReceived ==
  /\ Resumes("receive_frame", "written")
  /\ mem_num' = [mem_num EXCEPT !["receive_frame"] = 1 - @]
  /\ Suspend("receive_frame", "frame", On("receive_event"), {"packet_received"})
  /\ UNCHANGED <<queue, result, mem, enc, up, crypto, nic, network_frame>>

NetworkInterfaceCards ==
  \/ SetupTcpConnection \/ ConnectionReady \/ ReadPacket \/ PacketRead
  \/ SendFrame \/ FrameSent \/ ReceiveFrame \/ FrameReceived

-----------------------------------------------------------------------------
(* The receiver's processor. *)

GetPacketLength ==
  /\ Resumes("decrypt_packet", "packet")
  /\ Transfer("decrypt_packet", "bus2", Read("nic", 0, 1), "length", {})
  /\ UNCHANGED <<result, mem, enc, up, crypto, nic, network_frame, mem_num>>

ReceivedBlock(n) == IF n = 0 THEN 0 ELSE 2
ClearBlock(n) == IF n = 0 THEN 3 ELSE 4

StartDecryption ==
  /\ Resumes("decrypt_packet", "length")
  /\ LET n == mem_num["decrypt_packet"]
     IN  Transfer("decrypt_packet", "bus2",
           Write("crypto", 0, 4,
                 [src |-> ReceivedBlock(n), dst |-> ClearBlock(n), encrypt |-> 0,
                  length |-> result["decrypt_packet"].len]),
           "decrypting", {})
  /\ mem_num' = [mem_num EXCEPT !["decrypt_packet"] = 1 - @]
  /\ UNCHANGED <<result, mem, enc, up, crypto, nic, network_frame>>

AwaitDecryption ==
  /\ Resumes("decrypt_packet", "decrypting")
  /\ Suspend("decrypt_packet", "decrypted", On("decrypt_done"), {})
  /\ UNCHANGED <<queue, result, mem, enc, up, crypto, nic, network_frame, mem_num>>

PacketDecrypted ==
  /\ Resumes("decrypt_packet", "decrypted")
  /\ Suspend("decrypt_packet", "packet", On("packet_received"), {})
  /\ UNCHANGED <<queue, result, mem, enc, up, crypto, nic, network_frame, mem_num>>

Microprocessor2 ==
  GetPacketLength \/ StartDecryption \/ AwaitDecryption \/ PacketDecrypted

-----------------------------------------------------------------------------
\* Every thread but send_packet has run up to its first wait.
Init ==
  /\ pc = [t \in Threads |->
       CASE t \in Buses -> "front"
         [] t = "send_packet" -> "start"
         [] t = "read_file" -> "start"
         [] t \in {"aesEncrypt", "aesDecrypt"} -> "command"
         [] t = "read_packet" -> "descriptor"
         [] t \in {"send_frame", "decrypt_packet"} -> "packet"
         [] t = "receive_frame" -> "frame"
         [] t = "setup" -> "conn"]
  /\ wait = [t \in Threads |->
       CASE t \in Buses -> On(t)
         [] t = "send_packet" -> Ready
         [] t = "read_file" -> On("read")
         [] t = "aesEncrypt" -> On("encrypt_event")
         [] t = "aesDecrypt" -> On("decrypt_event")
         [] t = "read_packet" -> On("read_event")
         [] t = "send_frame" -> On("send_event")
         [] t = "receive_frame" -> On("receive_event")
         [] t = "decrypt_packet" -> On("packet_received")
         [] t = "setup" -> On("conn")]
  /\ queue = [b \in Buses |-> <<>>]
  /\ result = [t \in Sender \cup Receiver |-> Blank]
  /\ mem = [b \in Buses |-> [k \in Blocks |-> Blank]]
  /\ enc = [mem_address_dst |-> [i \in {0, 1} |-> 0], buffer_ptr |-> 0, frame_length |-> 0,
            adr_num |-> 0, count |-> 0, due |-> 0]
  /\ up = [frame_num |-> 0, frameLength |-> 0]
  /\ crypto = [b \in Buses |-> [mem_address_src |-> 0, mem_address_dst |-> 0,
                                length |-> 0, bufferInt |-> Blank]]
  /\ nic = [mem_address |-> 0, packet_length |-> 0, packet_data |-> Blank]
  /\ network_frame = Blank
  /\ mem_num = [t \in {"receive_frame", "decrypt_packet"} |-> 0]

\* Time passes to the next deadline.
Tick ==
  /\ \E t \in Threads : Elapse(wait[t].time) /\
       enc' = [enc EXCEPT !.due = IF @ > wait[t].time THEN @ - wait[t].time ELSE 0]
  /\ UNCHANGED <<queue, result, mem, up, crypto, nic, network_frame, mem_num>>

Next ==
  \/ \E b \in Buses : Bus(b) \/ Crypto(b)
  \/ Encoder \/ Microprocessor \/ NetworkInterfaceCards \/ Microprocessor2
  \/ Tick

Spec == Init /\ [][Next]_vars

=============================================================================
