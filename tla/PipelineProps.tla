--------------------------- MODULE PipelineProps ---------------------------
(***************************************************************************)
(* What the pipeline is for, and under which conditions it is achieved.    *)
(***************************************************************************)
EXTENDS Pipeline, FiniteSets

\* Every frame has at least one byte and fits in a block of the memory.
ASSUME FramesAssumption == FrameLens \subseteq 1..MAX_FRAME_SIZE /\ Frames \in Nat

-----------------------------------------------------------------------------
Content == [frame : 0..Frames, form : {"raw", "cipher", "mixed"}, len : Nat]

\* The type invariant.
TypeOK ==
  /\ DOMAIN pc = Threads
  /\ DOMAIN wait = Threads
  /\ \A t \in Threads : wait[t].time \in Nat
  /\ \A b \in Buses : Len(queue[b]) \in 0..Cardinality(Threads)
  /\ result \in [Sender \cup Receiver -> Content]
  /\ mem \in [Buses -> [Blocks -> Content]]
  /\ enc \in [mem_address_dst : [{0, 1} -> Blocks], buffer_ptr : Nat, frame_length : Nat,
              adr_num : {0, 1}, count : 0..Frames, due : 0..FramePeriod]
  /\ up \in [frame_num : 0..Frames, frameLength : Nat]
  /\ crypto \in [Buses -> [mem_address_src : Blocks, mem_address_dst : Blocks,
                           length : Nat, bufferInt : Content]]
  /\ nic \in [mem_address : Blocks, packet_length : Nat, packet_data : Content]
  /\ network_frame \in Content
  /\ mem_num \in [{"receive_frame", "decrypt_packet"} -> {0, 1}]

-----------------------------------------------------------------------------
\* A command is never given to a unit that is still at work, and no completion
\* is reported to nobody: the crypto units and the sender's network card are
\* told to start only while they wait to be told, so their registers do not
\* change under them, and a processor waits when its crypto unit is done.
CommandsHeard ==
  [][/\ \A b \in Buses :
          /\ Cryptography(b) => wait[Aes[b]].event = AesEvent[b]
          /\ BufferDescriptor(b) => wait["read_packet"].event = "read_event"
     /\ AesDone("bus1") => wait["send_packet"].event = "encrypt_done"
     /\ AesDone("bus2") => wait["decrypt_packet"].event = "decrypt_done"]_vars

\* The sender's processor and crypto unit are done with every frame before the
\* encoder reports the next: no encode_done is lost.
EncryptionKeepsPace ==
  [][FrameWritten => wait["send_packet"].event = "encode_done"]_vars

\* Neither is any later report of a frame: the network and the receiver are
\* done with every frame before they are given the next.
TransmissionKeepsPace ==
  [][/\ PacketRead => wait["send_frame"].event = "send_event"
     /\ FrameSent => wait["receive_frame"].event = "receive_event"
     /\ FrameReceived => wait["decrypt_packet"].event = "packet_received"]_vars

\* The encoder is done with every frame before the next one is due, however
\* long it had to wait for the bus.
EncoderKeepsPace == Resumes("read_file", "written") => enc.due > 0

\* What goes over the network has been encrypted.
CiphertextOnly == network_frame # Blank => network_frame.form = "cipher"

\* What the receiver has decrypted into its block k is a whole frame.
WholeFrameIn(k) ==
  LET clear == mem["bus2"][k] IN clear # Blank => clear.form = "raw" /\ clear.frame > 0

\* Every frame comes out of the pipeline as it went in.
EveryFrameWhole == WholeFrameIn(3) /\ WholeFrameIn(4)

\* Every other frame does: those that the code hands on in the even blocks.
EveryOtherFrameWhole == WholeFrameIn(3) /\ mem["bus2"][3].frame \in {0} \cup {n \in 1..Frames : n % 2 = 1}

\* When everything has come to rest, the last of them has been decrypted.
LastFrameDelivered ==
  (\A t \in Threads : ~IsReady(t) /\ wait[t].time = 0) =>
    mem["bus2"][3].frame \in {enc.count, enc.count - 1} /\ (enc.count > 0 => mem["bus2"][3].frame > 0)

=============================================================================
