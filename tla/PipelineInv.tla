---------------------------- MODULE PipelineInv ----------------------------
(***************************************************************************)
(* An inductive invariant of the pipeline, whatever the frames' lengths:   *)
(* for what each thread waits, what is queued on the buses, and where the  *)
(* threads that command each other are.  It is also one of the programs    *)
(* that encrypt with ECIES, whose own segments are named here too.         *)
(***************************************************************************)
EXTENDS PipelineProps

-----------------------------------------------------------------------------
(* Threads. *)

\* wait(d, SC_NS), for any d; a thread whose time has passed is ready.
Pauses == [event : {NoEvent}, time : Nat]

BusWaits(b, seg, w) ==
  \/ seg = "front" /\ w \in {Ready, On(b)}
  \/ seg = "moving" /\ w \in Pauses

SendPacketWaits(seg, w) ==
  \/ seg = "start" /\ w = Ready
  \/ seg \in {"connecting", "idle", "length", "encrypting"} /\ w \in {Ready, On("send_packet")}
  \/ seg = "connected" /\ w \in {Ready, On("connection_ready")}
  \/ seg = "encode_done" /\ w \in {Ready, On("encode_done")}
  \/ seg = "encrypted" /\ w \in {Ready, On("encrypt_done")}
  \* send_packet of cpu.cpp
  \/ seg \in {"frame", "stored"} /\ w \in {Ready, On("send_packet")}
  \/ seg = "encrypted" /\ w \in Pauses

ReadFileWaits(seg, w) ==
  \/ seg = "start" /\ w \in {Ready, On("read")}
  \/ seg \in {"encoded", "paced"} /\ w \in Pauses
  \/ seg = "written" /\ w \in {Ready, On("read_file")}
  \/ seg = "returned" /\ w = On("nothing")

AesWaits(b, seg, w) ==
  \/ seg = "command" /\ w \in {Ready, On(AesEvent[b])}
  \/ seg \in {"read", "written"} /\ w \in {Ready, On(Aes[b])}
  \/ seg = "crypted" /\ w \in Pauses
  \* eccEncrypt and eccDecrypt when they fail
  \/ seg = "returned" /\ w = On("nothing")

ReadPacketWaits(seg, w) ==
  \/ seg = "descriptor" /\ w \in {Ready, On("read_event")}
  \/ seg = "read" /\ w \in {Ready, On("read_packet")}

SendFrameWaits(seg, w) ==
  \/ seg = "packet" /\ w \in {Ready, On("send_event")}
  \/ seg = "transmitted" /\ w \in Pauses

SetupWaits(seg, w) ==
  \/ seg = "conn" /\ w \in {Ready, On("conn")}
  \/ seg = "handshake" /\ w \in Pauses

ReceiveFrameWaits(seg, w) ==
  \/ seg = "frame" /\ w \in {Ready, On("receive_event")}
  \/ seg = "written" /\ w \in {Ready, On("receive_frame")}

DecryptPacketWaits(seg, w) ==
  \/ seg = "packet" /\ w \in {Ready, On("packet_received")}
  \/ seg \in {"length", "decrypting"} /\ w \in {Ready, On("decrypt_packet")}
  \/ seg = "decrypted" /\ w \in {Ready, On("decrypt_done")}
  \* decrypt_packet of cpu.cpp
  \/ seg \in {"envelope", "written"} /\ w \in {Ready, On("decrypt_packet")}
  \/ seg = "decrypted" /\ w \in Pauses

\* Thread t may be suspended by w in front of segment seg.
Waits(t, seg, w) ==
  /\ t \in Buses => BusWaits(t, seg, w)
  /\ t = "send_packet" => SendPacketWaits(seg, w)
  /\ t = "read_file" => ReadFileWaits(seg, w)
  /\ t = "aesEncrypt" => AesWaits("bus1", seg, w)
  /\ t = "aesDecrypt" => AesWaits("bus2", seg, w)
  /\ t = "read_packet" => ReadPacketWaits(seg, w)
  /\ t = "send_frame" => SendFrameWaits(seg, w)
  /\ t = "setup" => SetupWaits(seg, w)
  /\ t = "receive_frame" => ReceiveFrameWaits(seg, w)
  /\ t = "decrypt_packet" => DecryptPacketWaits(seg, w)

ControlOK ==
  /\ DOMAIN pc = Threads
  /\ DOMAIN wait = Threads
  /\ \A t \in Threads : Waits(t, pc[t], wait[t])

-----------------------------------------------------------------------------
(* Data. *)

\* Of the memories, the encoder, the crypto units and the network cards.
MemRequests == [slave : {"mem"}, rdnwr : BOOLEAN, addr : Blocks, len : Nat, data : Content]
StartRequests ==
  [slave : {"encoder"}, rdnwr : {FALSE}, addr : {0}, len : {2}, data : [{0, 1} -> Blocks]]
LengthRequests ==
  [slave : {"encoder", "nic"}, rdnwr : {TRUE}, addr : {0}, len : {1}, data : Content]
CryptoRequests ==
  [slave : {"crypto"}, rdnwr : {FALSE}, addr : {0}, len : {4},
   data : [src : Blocks, dst : Blocks, encrypt : {0, 1}, length : Nat]]
ConnectRequests == [slave : {"nic"}, rdnwr : {FALSE}, addr : {0}, len : {1}, data : {1}]
PacketRequests ==
  [slave : {"nic"}, rdnwr : {FALSE}, addr : {0}, len : {2}, data : [addr : Blocks, length : Nat]]
Requests ==
  MemRequests \cup StartRequests \cup LengthRequests \cup CryptoRequests
    \cup ConnectRequests \cup PacketRequests

Entries == [by : Sender \cup Receiver, req : Requests]

RegistersOK ==
  /\ enc \in [mem_address_dst : [{0, 1} -> Blocks], buffer_ptr : Nat, frame_length : Nat,
              adr_num : {0, 1}, count : 0..Frames, due : 0..FramePeriod]
  /\ crypto \in [Buses -> [mem_address_src : Blocks, mem_address_dst : Blocks,
                           length : Nat, bufferInt : Content]]
  /\ nic \in [mem_address : Blocks, packet_length : Nat, packet_data : Content]
  /\ mem_num \in [{"receive_frame", "decrypt_packet"} -> {0, 1}]
  /\ up \in [frame_num : Nat, frameLength : Nat]

ContentsOK ==
  /\ result \in [Sender \cup Receiver -> Content]
  /\ mem \in [Buses -> [Blocks -> Content]]
  /\ network_frame \in Content

DataOK ==
  /\ queue \in [Buses -> Seq(Entries)]
  /\ RegistersOK
  /\ ContentsOK

\* The frames that read_file has begun are counted up to Frames, and
\* send_packet takes no more frames than were reported to it.
Reported == enc.count + (IF pc["read_file"] = "paced" THEN 1 ELSE 0)
Taken ==
  up.frame_num +
    (IF pc["send_packet"] \in {"length", "encrypting", "frame", "encrypted", "stored"}
        \/ Resumes("send_packet", "encode_done") THEN 1 ELSE 0)
CountOK ==
  /\ pc["read_file"] \in {"encoded", "written", "paced"} => enc.count < Frames
  /\ Taken <= Reported

-----------------------------------------------------------------------------
(* Buses. *)

\* The threads that are masters of each bus, and its processor, with the
\* segments before which it commands the crypto unit and awaits its answer.
Users == [bus1 |-> {"send_packet", "read_file", "aesEncrypt", "read_packet"},
          bus2 |-> {"receive_frame", "decrypt_packet", "aesDecrypt"}]
Processor == [bus1 |-> "send_packet", bus2 |-> "decrypt_packet"]
Commands == [bus1 |-> "encrypting", bus2 |-> "decrypting"]
Awaits == [bus1 |-> "encrypted", bus2 |-> "decrypted"]

\* Thread t, suspended before seg, may have asked bus b for r.
MayAsk(b, t, seg, r) ==
  /\ t \in Users[b]
  /\ r.slave = "crypto" =>
       /\ t = Processor[b]
       /\ seg = Commands[b]
       /\ r.data.encrypt = (IF b = "bus1" THEN 1 ELSE 0)
  /\ r.slave = "nic" /\ r.len = 2 => b = "bus1" /\ t = "send_packet" /\ seg = "idle"

\* Those who are in the queue wait for their turn, and are there once.
QueueOK(b) ==
  /\ \A i \in 1..Len(queue[b]) :
       LET e == queue[b][i]
       IN  wait[e.by] = On(e.by) /\ MayAsk(b, e.by, pc[e.by], e.req)
  /\ \A i, j \in 1..Len(queue[b]) : queue[b][i].by = queue[b][j].by => i = j
  /\ pc[b] = "moving" \/ IsReady(b) => queue[b] # <<>>

\* Time passes only when nobody is ready, and a transaction takes time: when
\* one is over, these have long done what the last one woke them for.
Settled ==
  /\ Resumes("bus1", "moving") =>
       /\ ~Resumes("send_packet", "encrypting")
       /\ ~IsReady("read_packet")
       /\ ~Resumes("read_file", "written")
  /\ Resumes("bus2", "moving") => ~Resumes("decrypt_packet", "decrypting")

-----------------------------------------------------------------------------
(* Commands. *)

CryptoIdle(b) == pc[Aes[b]] = "command" /\ wait[Aes[b]] = On(AesEvent[b])

\* While the crypto unit works its processor awaits it, or is about to.
CryptoOK(b) ==
  \/ CryptoIdle(b)
  \/ pc[Processor[b]] = Awaits[b] /\ wait[Processor[b]] = On(AesDoneEvent[b])
  \/ /\ Resumes(Processor[b], Commands[b])
     /\ \/ Resumes(Aes[b], "command")
        \/ pc[Aes[b]] = "read" /\ wait[Aes[b]] = On(Aes[b])

CardIdle == pc["read_packet"] = "descriptor" /\ wait["read_packet"] = On("read_event")

\* The card's request is served before any that send_packet has made since.
CardFirst ==
  \E i \in 1..Len(queue["bus1"]) :
    /\ queue["bus1"][i].by = "read_packet"
    /\ \A j \in 1..Len(queue["bus1"]) : queue["bus1"][j].by = "send_packet" => i < j

\* While the card reads a frame, its processor gets at most as far as to ask
\* for the length of the next one.
CardOK ==
  \/ CardIdle
  \/ /\ Resumes("read_packet", "descriptor")
     /\ \/ Resumes("send_packet", "idle")
        \/ pc["send_packet"] = "encode_done" /\ wait["send_packet"] = On("encode_done")
     /\ ~Resumes("read_file", "written")
  \/ /\ pc["read_packet"] = "read"
     /\ \/ Resumes("send_packet", "idle")
        \/ pc["send_packet"] = "encode_done"
        \/ pc["send_packet"] = "length" /\ wait["send_packet"] = On("send_packet")
     /\ wait["read_packet"] = On("read_packet") => CardFirst

-----------------------------------------------------------------------------
(* Pace. *)

\* A transfer of len words stays inside the block at whose start it begins.
Fits(len) == len <= MAX_FRAME_SIZE

RequestFits(r) ==
  /\ Fits(r.len)
  /\ r.slave = "crypto" => Fits(r.data.length)
  /\ r.slave = "nic" /\ r.len = 2 => Fits(r.data.length)

RegistersFit ==
  /\ Fits(enc.buffer_ptr) /\ Fits(enc.frame_length) /\ Fits(up.frameLength)
  /\ Fits(nic.packet_length) /\ Fits(network_frame.len)
  /\ \A t \in Sender \cup Receiver : Fits(result[t].len)
  /\ \A b \in Buses : Fits(crypto[b].length) /\ Fits(crypto[b].bufferInt.len)

\* No transfer reaches into the next block of a memory.
TransfersFit ==
  \A b \in Buses : \A i \in 1..Len(queue[b]) : RequestFits(queue[b][i].req)

LengthsFit == RegistersFit /\ TransfersFit

LongestMove == BusTime(MAX_FRAME_SIZE)

\* The sender's bus does not sleep while something is in its queue.
BusOnTime ==
  /\ queue["bus1"] # <<>> => pc["bus1"] = "moving" \/ IsReady("bus1")
  /\ pc["bus1"] = "moving" => wait["bus1"].time <= LongestMove

\* After this time the i-th transaction in its queue is over.
ServedIn(i) ==
  (IF pc["bus1"] = "moving" THEN wait["bus1"].time ELSE LongestMove) + (i - 1) * LongestMove

\* When read_file asks for its transfer it has the time of all who may be in
\* the queue before it, and nothing that comes later is served before it.
WriteInTime ==
  /\ pc["read_file"] = "encoded" => enc.due >= FramePeriod - EncodeTime + wait["read_file"].time
  /\ \A i \in 1..Len(queue["bus1"]) :
       queue["bus1"][i].by = "read_file" => enc.due > ServedIn(i)
  /\ EncoderKeepsPace

\* An invariant too, inductive beside IInv: lengths and times have their bounds.
PaceInv == LengthsFit /\ BusOnTime /\ WriteInTime

-----------------------------------------------------------------------------
\* The inductive invariant.
IInv ==
  /\ ControlOK
  /\ DataOK
  /\ CountOK
  /\ \A b \in Buses : QueueOK(b) /\ CryptoOK(b)
  /\ Settled
  /\ CardOK

=============================================================================
