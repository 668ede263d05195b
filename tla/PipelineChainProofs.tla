------------------------- MODULE PipelineChainProofs -------------------------
(***************************************************************************)
(* Theorems about the pipeline with short frames: it works on one frame at *)
(* a time, and is done with it in time.                                    *)
(***************************************************************************)
EXTENDS PipelineChain, PipelineProofs

-----------------------------------------------------------------------------
(* Times. *)

LEMMA PaddedTwice ==
  \A l \in Nat : /\ Length16(l) \in Nat /\ Length16(Length16(l)) = Length16(l)
                 /\ l <= Length16(l)
  BY DEF Length16, Blocks16

LEMMA TimesToGo ==
  ASSUME NEW l \in Nat
  PROVE  /\ ClearWriteOn(l) \in Nat /\ DecryptOn(l) \in Nat /\ CipherReadOn(l) \in Nat
         /\ DecryptCommandOn(l) \in Nat /\ PacketLengthOn(l) \in Nat /\ ReceiveOn(l) \in Nat
         /\ TransmitOn(l) \in Nat /\ PacketReadOn(l) \in Nat /\ DescriptorOn(l) \in Nat
         /\ CipherWriteOn(l) \in Nat /\ EncryptOn(l) \in Nat /\ RawReadOn(l) \in Nat
         /\ EncryptCommandOn(l) \in Nat /\ FrameLengthOn(l) \in Nat
<1>1. /\ BusTime(l) \in Nat /\ BusTime(Length16(l)) \in Nat /\ BusTime(1) \in Nat
      /\ BusTime(2) \in Nat /\ BusTime(4) \in Nat
      /\ AesTime(l) \in Nat /\ AesTime(Length16(l)) \in Nat /\ TransmitTime(Length16(l)) \in Nat
  BY Durations
<1> QED
  BY <1>1 DEF ClearWriteOn, DecryptOn, CipherReadOn, DecryptCommandOn, PacketLengthOn, ReceiveOn,
     TransmitOn, PacketReadOn, DescriptorOn, CipherWriteOn, EncryptOn, RawReadOn,
     EncryptCommandOn, FrameLengthOn

\* A short frame, from encode_done on, is out of the way before the encoder is
\* done with the next one, although that may be written without delay.
LEMMA ShortEnough ==
  ASSUME NEW l \in 1..ShortFrame
  PROVE  /\ FrameLengthOn(l) + BusTime(l) < FramePeriod
         /\ EncodeTime + BusTime(l) < FramePeriod
<1>1. /\ l \in Nat /\ Length16(l) \in Nat /\ Length16(Length16(l)) = Length16(l)
      /\ Length16(l) <= l + 15
  BY PaddedTwice DEF Length16, Blocks16
<1> DEFINE c == Length16(l)
<1>2. BusTime(1) = 80 /\ BusTime(2) = 93 /\ BusTime(4) = 119
  BY SMT DEF BusTime, Cycle
<1>3. c \in Nat /\ c <= 80015 /\ l <= 80000
  BY <1>1, SMT DEF ShortFrame
<1>4. /\ 16 * AesTime(l) = 1400 * c /\ 16 * AesTime(c) = 1400 * c
      /\ 16 * TransmitTime(c) = 2261 * c
      /\ AesTime(l) \in Nat /\ AesTime(c) \in Nat /\ TransmitTime(c) \in Nat
      /\ BusTime(l) = 67 + 13 * l /\ BusTime(c) = 67 + 13 * c
  <2>1. ASSUME NEW n \in Nat
        PROVE  /\ 16 * AesTime(n) = 1400 * Length16(n) /\ 16 * TransmitTime(n) = 2261 * Length16(n)
               /\ AesTime(n) \in Nat /\ TransmitTime(n) \in Nat /\ BusTime(n) = 67 + 13 * n
    <3>1. Blocks16(n) \in Nat
      BY <2>1 DEF Blocks16
    <3>2. /\ AesTime(n) = 1400 * Blocks16(n) /\ TransmitTime(n) = 2261 * Blocks16(n)
          /\ Length16(n) = 16 * Blocks16(n)
      BY DEF AesTime, TransmitTime, Length16
    <3>3. BusTime(n) = 67 + 13 * n
      BY <2>1, SMT DEF BusTime, Cycle
    <3> QED
      BY <3>1, <3>2, <3>3, SMT
  <2>2. l \in Nat /\ c \in Nat /\ Length16(c) = c
    BY <1>1
  <2> HIDE DEF c
  <2>3. /\ 16 * AesTime(l) = 1400 * Length16(l) /\ AesTime(l) \in Nat /\ BusTime(l) = 67 + 13 * l
    BY <2>1, <2>2
  <2>4. /\ 16 * AesTime(c) = 1400 * Length16(c) /\ 16 * TransmitTime(c) = 2261 * Length16(c)
        /\ AesTime(c) \in Nat /\ TransmitTime(c) \in Nat /\ BusTime(c) = 67 + 13 * c
    BY <2>1, <2>2
  <2> QED
    BY <2>2, <2>3, <2>4 DEF c
<1>5. /\ ClearWriteOn(l) = BusTime(c) /\ DecryptOn(l) = AesTime(c) + ClearWriteOn(l)
      /\ CipherReadOn(l) = BusTime(c) + DecryptOn(l)
      /\ DecryptCommandOn(l) = BusTime(4) + CipherReadOn(l)
      /\ PacketLengthOn(l) = BusTime(1) + DecryptCommandOn(l)
      /\ ReceiveOn(l) = BusTime(c) + PacketLengthOn(l)
      /\ TransmitOn(l) = TransmitTime(c) + ReceiveOn(l)
      /\ PacketReadOn(l) = BusTime(c) + TransmitOn(l)
      /\ DescriptorOn(l) = BusTime(2) + PacketReadOn(l)
      /\ CipherWriteOn(l) = BusTime(c) + DescriptorOn(l)
      /\ EncryptOn(l) = AesTime(l) + CipherWriteOn(l)
      /\ RawReadOn(l) = BusTime(l) + EncryptOn(l)
      /\ EncryptCommandOn(l) = BusTime(4) + RawReadOn(l)
      /\ FrameLengthOn(l) = BusTime(1) + EncryptCommandOn(l)
  <2>1. ClearWriteOn(l) = BusTime(c) /\ DecryptOn(l) = AesTime(c) + ClearWriteOn(l)
    BY Zenon DEF ClearWriteOn, DecryptOn
  <2>2. /\ CipherReadOn(l) = BusTime(c) + DecryptOn(l)
        /\ DecryptCommandOn(l) = BusTime(4) + CipherReadOn(l)
        /\ PacketLengthOn(l) = BusTime(1) + DecryptCommandOn(l)
    <3>1. CipherReadOn(l) = BusTime(c) + DecryptOn(l)
      BY Zenon DEF CipherReadOn
    <3>2. DecryptCommandOn(l) = BusTime(4) + CipherReadOn(l)
      BY Zenon DEF DecryptCommandOn
    <3>3. PacketLengthOn(l) = BusTime(1) + DecryptCommandOn(l)
      BY Zenon DEF PacketLengthOn
    <3> QED
      BY <3>1, <3>2, <3>3
  <2>3. ReceiveOn(l) = BusTime(c) + PacketLengthOn(l)
    BY Zenon DEF ReceiveOn
  <2>4. TransmitOn(l) = TransmitTime(c) + ReceiveOn(l)
    BY Zenon DEF TransmitOn
  <2>5. PacketReadOn(l) = BusTime(c) + TransmitOn(l)
    BY Zenon DEF PacketReadOn
  <2>6. DescriptorOn(l) = BusTime(2) + PacketReadOn(l)
    BY Zenon DEF DescriptorOn
  <2>7. CipherWriteOn(l) = BusTime(c) + DescriptorOn(l)
    BY Zenon DEF CipherWriteOn
  <2>8. EncryptOn(l) = AesTime(l) + CipherWriteOn(l)
    BY Zenon DEF EncryptOn
  <2>9. RawReadOn(l) = BusTime(l) + EncryptOn(l)
    BY Zenon DEF RawReadOn
  <2>10. EncryptCommandOn(l) = BusTime(4) + RawReadOn(l)
    BY Zenon DEF EncryptCommandOn
  <2>11. FrameLengthOn(l) = BusTime(1) + EncryptCommandOn(l)
    BY Zenon DEF FrameLengthOn
  <2> QED
    BY <2>1, <2>2, <2>3, <2>4, <2>5, <2>6, <2>7, <2>8, <2>9, <2>10, <2>11
<1> HIDE DEF c
<1>6. /\ AesTime(l) <= 7001312 /\ AesTime(c) <= 7001312 /\ TransmitTime(c) <= 11307119
      /\ BusTime(l) <= 1040067 /\ BusTime(c) <= 1040262
      /\ BusTime(l) \in Nat /\ BusTime(c) \in Nat
  BY <1>1, <1>3, <1>4, SMT
<1>7. FrameLengthOn(l) + BusTime(l) < 33000000 /\ 3500000 + BusTime(l) < 33000000
  <2>1. /\ ClearWriteOn(l) <= 1040262 /\ DecryptOn(l) <= 8041574 /\ CipherReadOn(l) <= 9081836
        /\ DecryptCommandOn(l) <= 9081955 /\ PacketLengthOn(l) <= 9082035
        /\ ClearWriteOn(l) \in Nat /\ DecryptOn(l) \in Nat /\ CipherReadOn(l) \in Nat
        /\ DecryptCommandOn(l) \in Nat /\ PacketLengthOn(l) \in Nat
    BY <1>2, <1>4, <1>5, <1>6, SMT
  <2>2. /\ ReceiveOn(l) <= 10122297 /\ TransmitOn(l) <= 21429416 /\ PacketReadOn(l) <= 22469678
        /\ DescriptorOn(l) <= 22469771 /\ CipherWriteOn(l) <= 23510033
        /\ ReceiveOn(l) \in Nat /\ TransmitOn(l) \in Nat /\ PacketReadOn(l) \in Nat
        /\ DescriptorOn(l) \in Nat /\ CipherWriteOn(l) \in Nat
    BY <1>2, <1>4, <1>5, <1>6, <2>1, SMT
  <2>3. /\ EncryptOn(l) <= 30511345 /\ RawReadOn(l) <= 31551412 /\ EncryptCommandOn(l) <= 31551531
        /\ FrameLengthOn(l) <= 31551611 /\ FrameLengthOn(l) \in Nat
    BY <1>2, <1>4, <1>5, <1>6, <2>2, SMT
  <2> QED
    BY <1>6, <2>3, SMT
<1> QED
  BY <1>7, SMT DEF FramePeriod, EncodeTime

-----------------------------------------------------------------------------
(* Threads. *)

\* Who may be waiting for what.
LEMMA Listener ==
  ASSUME ControlOK, NEW p \in Threads
  PROVE  /\ \A t \in Threads : wait[p].event = t => p = t
         /\ wait[p].event \in {"encode_done", "encrypt_done", "connection_ready"} => p = "send_packet"
         /\ wait[p].event = "encrypt_event" => p = "aesEncrypt"
         /\ wait[p].event = "decrypt_event" => p = "aesDecrypt"
         /\ wait[p].event = "read_event" => p = "read_packet"
         /\ wait[p].event = "send_event" => p = "send_frame"
         /\ wait[p].event = "receive_event" => p = "receive_frame"
         /\ wait[p].event \in {"packet_received", "decrypt_done"} => p = "decrypt_packet"
         /\ wait[p].event = "conn" => p = "setup"
         /\ wait[p].event = "read" => p = "read_file"
<1>1. Waits(p, pc[p], wait[p])
  BY DEF ControlOK
<1>2. Ready.event = "none" /\ (\A e : On(e).event = e) /\ \A w \in Pauses : w.event = "none"
  BY DEF Ready, On, Pauses, NoEvent
<1>3. CASE p \in Buses
  BY <1>1, <1>2, <1>3 DEF Waits, BusWaits, Threads, Buses, Sender, Receiver
<1>4. CASE p = "send_packet"
  BY <1>1, <1>2, <1>4 DEF Waits, SendPacketWaits, Threads, Buses, Sender, Receiver
<1>5. CASE p = "read_file"
  BY <1>1, <1>2, <1>5 DEF Waits, ReadFileWaits, Threads, Buses, Sender, Receiver
<1>6. CASE p = "aesEncrypt"
  BY <1>1, <1>2, <1>6 DEF Waits, AesWaits, Aes, AesEvent, Threads, Buses, Sender, Receiver
<1>7. CASE p = "aesDecrypt"
  BY <1>1, <1>2, <1>7 DEF Waits, AesWaits, Aes, AesEvent, Threads, Buses, Sender, Receiver
<1>8. CASE p = "read_packet"
  BY <1>1, <1>2, <1>8 DEF Waits, ReadPacketWaits, Threads, Buses, Sender, Receiver
<1>9. CASE p = "send_frame"
  BY <1>1, <1>2, <1>9 DEF Waits, SendFrameWaits, Threads, Buses, Sender, Receiver
<1>10. CASE p = "setup"
  BY <1>1, <1>2, <1>10 DEF Waits, SetupWaits, Threads, Buses, Sender, Receiver
<1>11. CASE p = "receive_frame"
  BY <1>1, <1>2, <1>11 DEF Waits, ReceiveFrameWaits, Threads, Buses, Sender, Receiver
<1>12. CASE p = "decrypt_packet"
  BY <1>1, <1>2, <1>12 DEF Waits, DecryptPacketWaits, Threads, Buses, Sender, Receiver
<1> QED
  BY <1>3, <1>4, <1>5, <1>6, <1>7, <1>8, <1>9, <1>10, <1>11, <1>12
     DEF Threads, Buses, Sender, Receiver

LEMMA HomeEvents ==
  /\ "read_file" \notin Buses
  /\ \A t \in Threads \ {"read_file"} : HomeEvent[t] # "none"
  /\ \A t : AtHome(t) => pc[t] = Home[t] /\ wait[t].event = HomeEvent[t] /\ wait[t].time = 0
  /\ \A t \in Threads \ {"read_file"} : AtHome(t) => ~IsReady(t)
  BY DEF Threads, Buses, Sender, Receiver, HomeEvent, AtHome, On, IsReady, Ready, NoEvent

Keeps(t) == pc'[t] = pc[t] /\ wait'[t] = wait[t]

\* Those who are at home and are not told anything stay there.
LEMMA HomeKept ==
  ASSUME ControlOK, NEW CONSTANT t \in Threads, NEW seg, NEW w, NEW CONSTANT fired,
         Suspend(t, seg, w, fired), NEW CONSTANT T,
         \A p \in (Threads \ {"read_file"}) \ T :
           \/ p # t /\ AtHome(p) /\ wait[p].event \notin fired
           \/ p = t /\ seg = Home[t] /\ w = On(HomeEvent[t]),
         \A b \in Buses \ T : queue'[b] = <<>>
  PROVE  OthersHome(T)'
<1>1. /\ pc'[t] = seg /\ wait'[t] = w
      /\ \A p \in Threads \ {t} : /\ pc'[p] = pc[p]
                                  /\ wait[p].event \notin fired => wait'[p] = wait[p]
  BY Suspended DEF Others
<1>2. ASSUME NEW p \in (Threads \ {"read_file"}) \ T PROVE pc'[p] = Home[p] /\ wait'[p] = On(HomeEvent[p])
  <2>1. CASE p = t
    BY <1>1, <1>2, <2>1
  <2>2. CASE p # t
    BY <1>1, <1>2, <2>2 DEF AtHome
  <2> QED
    BY <2>1, <2>2
<1> QED
  BY <1>2 DEF OthersHome, AtHome

\* What read_file does is not disturbed.
Undisturbed == enc' = enc /\ Keeps("read_file")

LEMMA FrameKept ==
  ASSUME Undisturbed
  PROVE  /\ Reported' = Reported /\ Size' = Size
         /\ Passing("cipher")' = Passing("cipher") /\ Passing("raw")' = Passing("raw")
         /\ \A r : Encoding(r) => Encoding(r)'
<1>1. Reported' = Reported /\ Size' = Size
  BY DEF Undisturbed, Keeps, Reported, Size
<1>2. Passing("cipher")' = Passing("cipher") /\ Passing("raw")' = Passing("raw")
  BY <1>1 DEF Passing
<1>3. ASSUME NEW r, Encoding(r) PROVE Encoding(r)'
  BY <1>1, <1>3 DEF Undisturbed, Keeps, Encoding
<1> QED
  BY <1>1, <1>2, <1>3

-----------------------------------------------------------------------------
(* Buses. *)

\* What has changed when thread t has asked bus b for r.
AsksFor(b, t, r, seg) ==
  /\ queue'[b] = <<[by |-> t, req |-> r]>>
  /\ \A c \in Buses \ {b} : queue'[c] = queue[c]
  /\ wait'[t] = On(t) /\ pc'[t] = seg
  /\ pc'[b] = "front" /\ wait'[b] = Ready
  /\ Remaining(b)' = BusTime(r.len)
  /\ \A p \in Threads \ {t, b} : Keeps(p)

LEMMA Asked ==
  ASSUME ControlOK, queue \in [Buses -> Seq(Entries)],
         NEW CONSTANT b \in Buses, NEW CONSTANT t \in Threads \ Buses, NEW r, NEW CONSTANT seg,
         BusFree(b), Transfer(t, b, r, seg, {})
  PROVE  AsksFor(b, t, r, seg)
<1>1. /\ queue' = [queue EXCEPT ![b] = Append(@, [by |-> t, req |-> r])]
      /\ Suspend(t, seg, On(t), {b})
  BY DEF Transfer
<1>2. /\ pc'[t] = seg /\ wait'[t] = On(t)
      /\ \A p \in Threads \ {t} : /\ pc'[p] = pc[p]
                                  /\ wait'[p] = IF wait[p].event \in {b} THEN Ready ELSE wait[p]
  BY <1>1, Suspended DEF Others
<1>3. pc[b] = "front" /\ wait[b] = On(b) /\ queue[b] = <<>>
  BY DEF BusFree, AtHome, Home, HomeEvent, Buses
<1>4. Append(<<>>, [by |-> t, req |-> r]) = <<[by |-> t, req |-> r]>>
  OBVIOUS
<1>5. /\ queue'[b] = <<[by |-> t, req |-> r]>>
      /\ \A c \in Buses \ {b} : queue'[c] = queue[c]
  BY <1>1, <1>3, <1>4
<1>6. b \in Threads /\ b # t
  BY DEF Threads
<1>7. wait[b].event = b
  BY <1>3 DEF On
<1>8. pc'[b] = "front" /\ wait'[b] = Ready
  BY <1>2, <1>3, <1>6, <1>7
<1>9. \A p \in Threads \ {t, b} : Keeps(p)
  <2>1. ASSUME NEW p \in Threads \ {t, b} PROVE wait[p].event # b
    BY <1>6, Listener
  <2> QED
    BY <1>2, <2>1 DEF Keeps
<1>10. Remaining(b)' = BusTime(r.len)
  <2>1. queue'[b] # <<>> /\ Head(queue'[b]) = [by |-> t, req |-> r]
    BY <1>5
  <2>2. Head(queue'[b]).req.len = r.len
    BY <2>1
  <2> QED
    BY <1>8, <2>1, <2>2 DEF Remaining
<1> QED
  BY <1>2, <1>5, <1>8, <1>9, <1>10 DEF AsksFor

\* The bus begins: as much time is left as before.
LEMMA Begun ==
  ASSUME ControlOK, NEW CONSTANT b \in Buses, Begin(b), queue[b] # <<>>
  PROVE  /\ queue' = queue
         /\ pc'[b] = "moving" /\ wait'[b].event = NoEvent
         /\ Remaining(b)' = Remaining(b)
         /\ \A p \in Threads \ {b} : Keeps(p)
<1>1. /\ pc[b] = "front" /\ queue' = queue
      /\ Suspend(b, "moving", For(BusTime(Head(queue[b]).req.len)), {})
  BY DEF Begin, Resumes
<1>2. b \in Threads
  BY DEF Threads
<1>3. /\ pc'[b] = "moving" /\ wait'[b] = For(BusTime(Head(queue[b]).req.len))
      /\ \A p \in Threads \ {b} : Keeps(p)
  BY <1>1, <1>2, Suspended DEF Others, Keeps
<1>4. Remaining(b)' = BusTime(Head(queue[b]).req.len)
  BY <1>3 DEF Remaining, For
<1>5. Remaining(b) = BusTime(Head(queue[b]).req.len)
  BY <1>1 DEF Remaining
<1> QED
  BY <1>1, <1>3, <1>4, <1>5 DEF For

\* A transaction is over: the bus is free, and its master goes on.
LEMMA TransferOver ==
  ASSUME ControlOK, queue \in [Buses -> Seq(Entries)],
         NEW CONSTANT b \in Buses, NEW CONSTANT t \in Threads \ Buses, NEW r, NEW CONSTANT fired,
         Asking(b, t, r), Finish(b, fired)
  PROVE  /\ queue'[b] = <<>>
         /\ \A c \in Buses \ {b} : queue'[c] = queue[c]
         /\ BusFree(b)'
         /\ pc'[t] = pc[t] /\ wait'[t] = Ready
         /\ \A p \in Threads \ {b, t} :
              /\ pc'[p] = pc[p]
              /\ wait'[p] = IF wait[p].event \in fired THEN Ready ELSE wait[p]
         /\ Suspend(b, "front", On(b), fired \cup {t})
<1>1. queue[b] = <<[by |-> t, req |-> r]>> /\ wait[t] = On(t)
  BY DEF Asking
<1>2. Tail(queue[b]) = <<>> /\ Head(queue[b]).by = t
  BY <1>1
<1>3. queue' = [queue EXCEPT ![b] = Tail(@)] /\ Suspend(b, "front", On(b), fired \cup {t})
  BY <1>2 DEF Finish
<1>4. queue'[b] = <<>> /\ \A c \in Buses \ {b} : queue'[c] = queue[c]
  BY <1>2, <1>3
<1>5. b \in Threads /\ t # b
  BY DEF Threads
<1>6. /\ pc'[b] = "front" /\ wait'[b] = On(b)
      /\ \A p \in Threads \ {b} :
           /\ pc'[p] = pc[p]
           /\ wait'[p] = IF wait[p].event \in fired \cup {t} THEN Ready ELSE wait[p]
  BY <1>3, <1>5, Suspended DEF Others
<1>7. BusFree(b)'
  BY <1>4, <1>6 DEF BusFree, AtHome, Home, HomeEvent, Buses
<1>8. wait[t].event = t
  BY <1>1 DEF On
<1>9. pc'[t] = pc[t] /\ wait'[t] = Ready
  BY <1>5, <1>6, <1>8
<1>10. ASSUME NEW p \in Threads \ {b, t} PROVE wait[p].event # t
  BY Listener
<1> QED
  BY <1>3, <1>4, <1>6, <1>7, <1>9, <1>10

-----------------------------------------------------------------------------
(* Who works. *)

LEMMA ThreadNames ==
  /\ Threads = {"bus1", "bus2", "send_packet", "read_file", "aesEncrypt", "read_packet",
                "send_frame", "setup", "receive_frame", "decrypt_packet", "aesDecrypt"}
  /\ Buses = {"bus1", "bus2"}
  BY DEF Threads, Buses, Sender, Receiver

LEMMA WhoWorks ==
  ASSUME NEW r, Working(r)
  PROVE  /\ ~AtHome("aesEncrypt") => InCrypto1(r)
         /\ ~AtHome("read_packet") => InCard(r)
         /\ ~AtHome("send_frame") => InNetwork(r)
         /\ ~AtHome("receive_frame") => InReceiver(r)
         /\ ~AtHome("decrypt_packet") => InCrypto2(r)
         /\ ~AtHome("aesDecrypt") => InCrypto2(r)
         /\ ~AtHome("send_packet") => InCrypto1(r) \/ InCard(r)
         /\ ~AtHome("bus1") => InCrypto1(r) \/ InCard(r)
         /\ ~AtHome("bus2") => InReceiver(r) \/ InCrypto2(r)
         /\ AtHome("setup")
<1>1. CASE InCrypto1(r)
  <2>1. OthersHome({"send_packet", "aesEncrypt", "bus1"})
    BY <1>1 DEF InCrypto1
  <2> QED
    BY <1>1, <2>1, ThreadNames DEF OthersHome
<1>2. CASE InCard(r)
  <2>1. OthersHome({"send_packet", "read_packet", "bus1"})
    BY <1>2 DEF InCard
  <2> QED
    BY <1>2, <2>1, ThreadNames DEF OthersHome
<1>3. CASE InNetwork(r)
  <2>1. OthersHome({"send_frame"})
    BY <1>3 DEF InNetwork
  <2> QED
    BY <1>3, <2>1, ThreadNames DEF OthersHome
<1>4. CASE InReceiver(r)
  <2>1. OthersHome({"receive_frame", "bus2"})
    BY <1>4 DEF InReceiver
  <2> QED
    BY <1>4, <2>1, ThreadNames DEF OthersHome
<1>5. CASE InCrypto2(r)
  <2>1. OthersHome({"decrypt_packet", "aesDecrypt", "bus2"})
    BY <1>5 DEF InCrypto2
  <2> QED
    BY <1>5, <2>1, ThreadNames DEF OthersHome
<1> QED
  BY <1>1, <1>2, <1>3, <1>4, <1>5 DEF Working

\* Before the first frame and between two frames.
LEMMA NobodyWorks ==
  ASSUME Starting \/ Quiet
  PROVE  /\ AtHome("aesEncrypt") /\ AtHome("read_packet") /\ AtHome("send_frame")
         /\ AtHome("receive_frame") /\ AtHome("decrypt_packet") /\ AtHome("aesDecrypt")
         /\ AtHome("bus2") /\ queue["bus2"] = <<>>
         /\ Quiet => AtHome("setup")
<1>1. CASE Starting
  <2>1. OthersHome({"send_packet", "setup", "bus1"})
    BY <1>1 DEF Starting
  <2>2. ~Quiet \/ AtHome("setup")
    BY ThreadNames DEF Quiet, OthersHome
  <2> QED
    BY <1>1, <2>1, <2>2, ThreadNames DEF OthersHome
<1>2. CASE Quiet
  <2>1. OthersHome({"send_packet"}) \/ OthersHome({"bus1"})
    BY <1>2 DEF Quiet
  <2> QED
    BY <1>2, <2>1, ThreadNames DEF OthersHome
<1> QED
  BY <1>1, <1>2

-----------------------------------------------------------------------------
(* The sender's processor and its crypto unit. *)

LEMMA LastingKept ==
  ASSUME Lasting, Undisturbed,
         mem'["bus1"][3] = mem["bus1"][3], mem'["bus2"][2] = mem["bus2"][2],
         network_frame' = network_frame
  PROVE  Lasting'
<1>1. /\ Reported' = Reported /\ enc' = enc /\ pc'["read_file"] = pc["read_file"]
      /\ wait'["read_file"] = wait["read_file"] /\ Blank' = Blank
  BY FrameKept DEF Undisturbed, Keeps
<1> QED
  BY <1>1 DEF Lasting, IsReady, Ready

LEMMA PassedKept ==
  ASSUME up' = up, mem_num' = mem_num, mem'["bus2"][3] = mem["bus2"][3],
         NEW a, NEW b, NEW c, NEW d, Passed(a, b, c, d)
  PROVE  /\ up'.frame_num = a
         /\ mem_num'["receive_frame"] = b % 2
         /\ mem_num'["decrypt_packet"] = c % 2
         /\ d = 0 => mem'["bus2"][3] = Blank
         /\ d # 0 => /\ mem'["bus2"][3].frame = (IF d % 2 = 1 THEN d ELSE d - 1)
                     /\ mem'["bus2"][3].form = "raw"
  BY DEF Passed, Delivered

\* A thread pauses, or goes on at once, and only its own wait changes.
LEMMA Alone ==
  ASSUME ControlOK, NEW CONSTANT t \in Threads, NEW CONSTANT seg, NEW w, Suspend(t, seg, w, {})
  PROVE  /\ pc'[t] = seg /\ wait'[t] = w
         /\ \A p \in Threads \ {t} : Keeps(p)
  BY Suspended DEF Others, Keeps

LEMMA BusStaysFree ==
  ASSUME NEW CONSTANT b, BusFree(b), Keeps(b), queue'[b] = queue[b]
  PROVE  BusFree(b)'
  BY DEF BusFree, AtHome, Keeps

LEMMA HomeStays ==
  ASSUME NEW CONSTANT S, OthersHome(S), \A p \in (Threads \ {"read_file"}) \ S : Keeps(p),
         \A b \in Buses \ S : queue'[b] = queue[b]
  PROVE  OthersHome(S)'
<1>1. ASSUME NEW p \in (Threads \ {"read_file"}) \ S PROVE pc'[p] = Home[p] /\ wait'[p] = On(HomeEvent[p])
  BY <1>1 DEF OthersHome, AtHome, Keeps
<1> QED
  BY <1>1 DEF OthersHome, AtHome

\* What a step of these two threads and of their bus has to leave alone.
Crypto1Threads == {"send_packet", "aesEncrypt", "bus1"}
LEMMA Crypto1Kept ==
  ASSUME NEW r, InCrypto1(r), Undisturbed, \A p \in Threads \ Crypto1Threads : Keeps(p),
         queue'["bus2"] = queue["bus2"], up'.frame_num = up.frame_num, mem_num' = mem_num,
         mem'["bus2"] = mem["bus2"], mem'["bus1"][0] = mem["bus1"][0]
  PROVE  /\ OthersHome(Crypto1Threads)'
         /\ Passed(Reported - 1, Reported - 1, Reported - 1, Reported - 1)'
         /\ RawStored'
<1>1. /\ OthersHome(Crypto1Threads)
      /\ Passed(Reported - 1, Reported - 1, Reported - 1, Reported - 1)
      /\ RawStored
  BY DEF InCrypto1, Crypto1Threads
<1>2. \A b \in Buses \ Crypto1Threads : queue'[b] = queue[b]
  BY ThreadNames DEF Crypto1Threads
<1>3. OthersHome(Crypto1Threads)'
  BY <1>1, <1>2, HomeStays
<1>4. Reported' = Reported /\ Size' = Size
  BY FrameKept
<1> QED
  BY <1>1, <1>3, <1>4 DEF Passed, Delivered, RawStored

\* Where its threads are when they go on, or when the bus has moved.
LEMMA Crypto1Stages ==
  ASSUME ControlOK, NEW r, InCrypto1(r)
  PROVE  /\ Resumes("send_packet", "encode_done") =>
              AtHome("aesEncrypt") /\ BusFree("bus1") /\ r = FrameLengthOn(Size)
         /\ Resumes("send_packet", "length") =>
              /\ AtHome("aesEncrypt") /\ BusFree("bus1")
              /\ result["send_packet"].len = Size
              /\ r = EncryptCommandOn(Size)
         /\ Resumes("send_packet", "encrypting") => Fetching(r)
         /\ Resumes("send_packet", "encrypted") => Encrypted(r)
         /\ Resumes("aesEncrypt", "command") =>
              Fetching(r) /\ BusFree("bus1") /\ r = RawReadOn(Size)
         /\ Resumes("aesEncrypt", "read") =>
              Encrypting(r) /\ BusFree("bus1") /\ RawIn(result["aesEncrypt"]) /\ r = EncryptOn(Size)
         /\ Resumes("aesEncrypt", "crypted") =>
              /\ Encrypting(r) /\ BusFree("bus1") /\ crypto["bus1"].bufferInt = Passing("cipher")
              /\ r = wait["aesEncrypt"].time + CipherWriteOn(Size)
         /\ Resumes("aesEncrypt", "written") =>
              Encrypting(r) /\ BusFree("bus1") /\ CipherStored /\ r = DescriptorOn(Size)
         /\ ~Resumes("send_packet", "idle") /\ ~Resumes("send_packet", "start")
         /\ ~Resumes("send_packet", "connecting") /\ ~Resumes("send_packet", "connected")
<1>1. Commanding(r) \/ Fetching(r) \/ Encrypting(r) \/ Encrypted(r)
  BY DEF InCrypto1
<1>2. /\ \A e : On(e) = Ready => e = "none"
      /\ "none" \notin {"aesEncrypt", "send_packet", "encrypt_event", "encrypt_done", "bus1"}
  BY DEF On, Ready, NoEvent
<1>3. CASE Commanding(r)
  BY <1>2, <1>3 DEF Commanding, Resumes, IsReady, AtHome, Home, HomeEvent, Asking
<1>4. CASE Fetching(r)
  BY <1>2, <1>4 DEF Fetching, Resumes, IsReady, Asking
<1>5. CASE Encrypting(r)
  BY <1>2, <1>5 DEF Encrypting, Resumes, IsReady, Asking
<1>6. CASE Encrypted(r)
  BY <1>2, <1>6 DEF Encrypted, Resumes, IsReady, AtHome, Home, HomeEvent
<1> QED
  BY <1>1, <1>3, <1>4, <1>5, <1>6

\* Whose request is on the bus.
LEMMA Crypto1Moves ==
  ASSUME ControlOK, NEW r, InCrypto1(r), Resumes("bus1", "moving")
  PROVE  /\ Remaining("bus1") = 0
         /\ \/ /\ Commanding(r) /\ AtHome("aesEncrypt") /\ pc["send_packet"] = "length"
               /\ Asking("bus1", "send_packet", Read("encoder", 0, 1))
               /\ r = Remaining("bus1") + EncryptCommandOn(Size)
            \/ /\ Commanding(r) /\ AtHome("aesEncrypt") /\ pc["send_packet"] = "encrypting"
               /\ up.frameLength = Size
               /\ Asking("bus1", "send_packet", Write("crypto", 0, 4, EncryptCommand))
               /\ r = Remaining("bus1") + RawReadOn(Size)
            \/ /\ Fetching(r) /\ pc["aesEncrypt"] = "read"
               /\ pc["send_packet"] = "encrypted" /\ wait["send_packet"] = On("encrypt_done")
               /\ Asking("bus1", "aesEncrypt", Read("mem", EncodeBlock(Reported - 1), Size))
               /\ r = Remaining("bus1") + EncryptOn(Size)
            \/ /\ Encrypting(r) /\ pc["aesEncrypt"] = "written"
               /\ Asking("bus1", "aesEncrypt",
                    Write("mem", CipherBlock(Reported - 1), Length16(Size), Passing("cipher")))
               /\ r = Remaining("bus1") + DescriptorOn(Size)
<1>1. Commanding(r) \/ Fetching(r) \/ Encrypting(r) \/ Encrypted(r)
  BY DEF InCrypto1
<1>2. pc["bus1"] = "moving" /\ ~BusFree("bus1") /\ Remaining("bus1") = 0 /\ ~(Remaining("bus1") > 0)
  BY DEF Resumes, IsReady, Ready, BusFree, AtHome, Home, Remaining
<1>3. CASE Commanding(r)
  BY <1>2, <1>3 DEF Commanding
<1>4. CASE Fetching(r)
  BY <1>2, <1>4 DEF Fetching
<1>5. CASE Encrypting(r)
  BY <1>2, <1>5 DEF Encrypting
<1>6. CASE Encrypted(r)
  BY <1>2, <1>6 DEF Encrypted
<1> QED
  BY <1>1, <1>2, <1>3, <1>4, <1>5, <1>6

\* A step of the work on a frame.
Advances(r) ==
  /\ Working(r)'
  /\ Undisturbed
  /\ mem'["bus1"][3] = mem["bus1"][3] /\ mem'["bus2"][2] = mem["bus2"][2]
  /\ network_frame' = network_frame \/ network_frame'.form = "cipher"

LEMMA EncryptNames ==
  /\ Aes["bus1"] = "aesEncrypt" /\ AesEvent["bus1"] = "encrypt_event"
  /\ AesDoneEvent["bus1"] = "encrypt_done"
  /\ {"send_packet", "aesEncrypt", "read_packet"} \subseteq Threads \ Buses
  /\ "bus1" \in Buses /\ "bus1" \in Threads /\ "bus2" \in Buses /\ "bus2" # "bus1"
  /\ Read("encoder", 0, 1).len = 1
  /\ \A s, a, l, d : Write(s, a, l, d).len = l /\ Read(s, a, l).len = l
  BY DEF Aes, AesEvent, AesDoneEvent, Threads, Buses, Sender, Receiver, Read, Write

LEMMA GetFrameLengthAdvances ==
  ASSUME ControlOK, DataOK, NEW r, InCrypto1(r), GetFrameLength
  PROVE  Advances(r)
<1>1. /\ Resumes("send_packet", "encode_done")
      /\ Transfer("send_packet", "bus1", Read("encoder", 0, 1), "length", {})
      /\ result' = result /\ mem' = mem /\ enc' = enc /\ up' = up /\ crypto' = crypto
      /\ network_frame' = network_frame /\ mem_num' = mem_num
  BY DEF GetFrameLength
<1>2. AtHome("aesEncrypt") /\ BusFree("bus1") /\ r = FrameLengthOn(Size)
  BY <1>1, Crypto1Stages
<1>3. /\ queue'["bus1"] = <<[by |-> "send_packet", req |-> Read("encoder", 0, 1)]>>
      /\ \A c \in Buses \ {"bus1"} : queue'[c] = queue[c]
      /\ wait'["send_packet"] = On("send_packet") /\ pc'["send_packet"] = "length"
      /\ pc'["bus1"] = "front" /\ wait'["bus1"] = Ready
      /\ Remaining("bus1")' = BusTime(1)
      /\ \A p \in Threads \ {"send_packet", "bus1"} : Keeps(p)
  <2>1. AsksFor("bus1", "send_packet", Read("encoder", 0, 1), "length")
    BY <1>1, <1>2, Asked, EncryptNames DEF DataOK
  <2> QED
    BY <2>1, EncryptNames DEF AsksFor
<1>4. Undisturbed /\ Size' = Size
  BY <1>1, <1>3, ThreadNames, FrameKept DEF Undisturbed
<1>5. /\ OthersHome(Crypto1Threads)'
      /\ Passed(Reported - 1, Reported - 1, Reported - 1, Reported - 1)'
      /\ RawStored'
  BY <1>1, <1>3, <1>4, Crypto1Kept, EncryptNames DEF Crypto1Threads
<1>6. Commanding(r)'
  <2>1. AtHome("aesEncrypt")'
    BY <1>2, <1>3, ThreadNames DEF Keeps, AtHome
  <2>2. Asking("bus1", "send_packet", Read("encoder", 0, 1))'
    BY <1>3 DEF Asking, Resumes, IsReady, Read, Blank
  <2>3. r = Remaining("bus1")' + EncryptCommandOn(Size')
    BY <1>2, <1>3, <1>4 DEF FrameLengthOn
  <2> QED
    BY <1>3, <2>1, <2>2, <2>3 DEF Commanding
<1> QED
  BY <1>1, <1>4, <1>5, <1>6 DEF Advances, Working, InCrypto1, Crypto1Threads

LEMMA StartEncryptionAdvances ==
  ASSUME ControlOK, DataOK, NEW r, InCrypto1(r), StartEncryption
  PROVE  Advances(r)
<1> DEFINE command ==
      Write("crypto", 0, 4, [src |-> EncodeBlock(up.frame_num), dst |-> CipherBlock(up.frame_num),
                             encrypt |-> 1, length |-> result["send_packet"].len])
<1>1. /\ Resumes("send_packet", "length")
      /\ up' = [up EXCEPT !.frameLength = result["send_packet"].len]
      /\ Transfer("send_packet", "bus1", command, "encrypting", {})
      /\ result' = result /\ mem' = mem /\ enc' = enc /\ crypto' = crypto
      /\ network_frame' = network_frame /\ mem_num' = mem_num
  BY DEF StartEncryption
<1>2. /\ AtHome("aesEncrypt") /\ BusFree("bus1")
      /\ result["send_packet"].len = Size
      /\ r = EncryptCommandOn(Size)
  BY <1>1, Crypto1Stages
<1>3. up.frame_num = Reported - 1
  BY DEF InCrypto1, Passed
<1>4. up'.frame_num = up.frame_num /\ up'.frameLength = Size
  BY <1>1, <1>2 DEF DataOK, RegistersOK
<1>5. command = Write("crypto", 0, 4, EncryptCommand) /\ command.len = 4
  BY <1>2, <1>3, EncryptNames DEF EncryptCommand
<1> HIDE DEF command
<1>6. /\ queue'["bus1"] = <<[by |-> "send_packet", req |-> command]>>
      /\ \A c \in Buses \ {"bus1"} : queue'[c] = queue[c]
      /\ wait'["send_packet"] = On("send_packet") /\ pc'["send_packet"] = "encrypting"
      /\ pc'["bus1"] = "front" /\ wait'["bus1"] = Ready
      /\ Remaining("bus1")' = BusTime(4)
      /\ \A p \in Threads \ {"send_packet", "bus1"} : Keeps(p)
  <2>1. AsksFor("bus1", "send_packet", command, "encrypting")
    BY <1>1, <1>2, Asked, EncryptNames DEF DataOK
  <2> QED
    BY <1>5, <2>1 DEF AsksFor
<1>7. Undisturbed /\ Size' = Size /\ Reported' = Reported
  BY <1>1, <1>6, ThreadNames, FrameKept DEF Undisturbed
<1>8. /\ OthersHome(Crypto1Threads)'
      /\ Passed(Reported - 1, Reported - 1, Reported - 1, Reported - 1)'
      /\ RawStored'
  BY <1>1, <1>4, <1>6, <1>7, Crypto1Kept, EncryptNames DEF Crypto1Threads
<1>9. Commanding(r)'
  <2>1. AtHome("aesEncrypt")'
    BY <1>2, <1>6, ThreadNames DEF Keeps, AtHome
  <2>2. EncryptCommand' = EncryptCommand
    BY <1>7 DEF EncryptCommand
  <2>3. Asking("bus1", "send_packet", Write("crypto", 0, 4, EncryptCommand))'
    BY <1>5, <1>6, <2>2 DEF Asking, Resumes, IsReady
  <2>4. r = Remaining("bus1")' + RawReadOn(Size')
    BY <1>2, <1>6, <1>7 DEF EncryptCommandOn
  <2> QED
    BY <1>4, <1>6, <1>7, <2>1, <2>3, <2>4 DEF Commanding
<1> QED
  BY <1>1, <1>7, <1>8, <1>9 DEF Advances, Working, InCrypto1, Crypto1Threads

LEMMA AwaitEncryptionAdvances ==
  ASSUME ControlOK, DataOK, NEW r, InCrypto1(r), AwaitEncryption
  PROVE  Advances(r)
<1>1. /\ Resumes("send_packet", "encrypting")
      /\ Suspend("send_packet", "encrypted", On("encrypt_done"), {})
      /\ queue' = queue /\ result' = result /\ mem' = mem /\ enc' = enc /\ up' = up
      /\ crypto' = crypto /\ network_frame' = network_frame /\ mem_num' = mem_num
  BY DEF AwaitEncryption
<1>2. Fetching(r)
  BY <1>1, Crypto1Stages
<1>3. /\ pc'["send_packet"] = "encrypted" /\ wait'["send_packet"] = On("encrypt_done")
      /\ \A p \in Threads \ {"send_packet"} : Keeps(p)
  BY <1>1, Alone, EncryptNames
<1>4. Undisturbed /\ Size' = Size /\ Reported' = Reported
  BY <1>1, <1>3, ThreadNames, FrameKept DEF Undisturbed
<1>5. /\ OthersHome(Crypto1Threads)'
      /\ Passed(Reported - 1, Reported - 1, Reported - 1, Reported - 1)'
      /\ RawStored'
  BY <1>1, <1>3, <1>4, Crypto1Kept DEF Crypto1Threads
<1>6. Fetching(r)'
  <2>1. EncryptRegisters'
    BY <1>1, <1>2, <1>4 DEF Fetching, EncryptRegisters
  <2>2. Keeps("bus1") /\ Keeps("aesEncrypt")
    BY <1>3, ThreadNames
  <2>3. CASE Resumes("aesEncrypt", "command") /\ BusFree("bus1") /\ r = RawReadOn(Size)
    <3>1. Resumes("aesEncrypt", "command")' /\ BusFree("bus1")' /\ r = RawReadOn(Size')
      BY <1>1, <1>4, <2>2, <2>3 DEF Keeps, Resumes, IsReady, BusFree, AtHome, Ready
    <3> QED
      BY <1>3, <2>1, <3>1 DEF Fetching
  <2>4. CASE /\ pc["aesEncrypt"] = "read"
             /\ Asking("bus1", "aesEncrypt", Read("mem", EncodeBlock(Reported - 1), Size))
             /\ r = Remaining("bus1") + EncryptOn(Size)
    <3>1. /\ Asking("bus1", "aesEncrypt", Read("mem", EncodeBlock(Reported - 1), Size))'
          /\ Remaining("bus1")' = Remaining("bus1") /\ pc'["aesEncrypt"] = "read"
      BY <1>1, <1>4, <2>2, <2>4 DEF Keeps, Asking, Resumes, IsReady, Ready, Remaining
    <3> QED
      BY <1>3, <1>4, <2>1, <2>4, <3>1 DEF Fetching
  <2> QED
    BY <1>2, <2>3, <2>4 DEF Fetching
<1> QED
  BY <1>1, <1>4, <1>5, <1>6 DEF Advances, Working, InCrypto1, Crypto1Threads

LEMMA AesReadData1Advances ==
  ASSUME ControlOK, DataOK, NEW r, InCrypto1(r), AesReadData("bus1")
  PROVE  Advances(r)
<1> DEFINE request == Read("mem", crypto["bus1"].mem_address_src, crypto["bus1"].length)
<1>1. /\ Resumes("aesEncrypt", "command")
      /\ Transfer("aesEncrypt", "bus1", request, "read", {})
      /\ result' = result /\ mem' = mem /\ enc' = enc /\ up' = up
      /\ crypto' = crypto /\ network_frame' = network_frame /\ mem_num' = mem_num
  BY EncryptNames DEF AesReadData
<1>2. Fetching(r) /\ BusFree("bus1") /\ r = RawReadOn(Size)
  BY <1>1, Crypto1Stages
<1>3. /\ request = Read("mem", EncodeBlock(Reported - 1), Size) /\ request.len = Size
  BY <1>2, EncryptNames DEF Fetching, EncryptRegisters
<1> HIDE DEF request
<1>4. AsksFor("bus1", "aesEncrypt", request, "read")
  BY <1>1, <1>2, Asked, EncryptNames DEF DataOK
<1>5. Undisturbed /\ Size' = Size /\ Reported' = Reported
  BY <1>1, <1>4, ThreadNames, FrameKept DEF Undisturbed, AsksFor
<1>6. /\ OthersHome(Crypto1Threads)'
      /\ Passed(Reported - 1, Reported - 1, Reported - 1, Reported - 1)'
      /\ RawStored'
  BY <1>1, <1>4, <1>5, Crypto1Kept, EncryptNames DEF Crypto1Threads, AsksFor
<1>7. Fetching(r)'
  <2>1. EncryptRegisters'
    BY <1>1, <1>2, <1>5 DEF Fetching, EncryptRegisters
  <2>2. Keeps("send_packet")
    BY <1>4, ThreadNames DEF AsksFor
  <2>3. Remaining("bus1")' = BusTime(Size) /\ BusTime(Size) > 0
    <3>1. Size \in Nat
      BY DEF DataOK, RegistersOK, Size
    <3> QED
      BY <1>3, <1>4, <3>1, Durations DEF AsksFor
  <2>4. \/ Resumes("send_packet", "encrypting")' /\ Remaining("bus1")' > 0
        \/ pc'["send_packet"] = "encrypted" /\ wait'["send_packet"] = On("encrypt_done")
    BY <1>2, <2>2, <2>3 DEF Fetching, Keeps, Resumes, IsReady, Ready
  <2>5. Asking("bus1", "aesEncrypt", Read("mem", EncodeBlock(Reported - 1), Size))'
    BY <1>3, <1>4, <1>5 DEF AsksFor, Asking, Resumes, IsReady
  <2>6. r = Remaining("bus1")' + EncryptOn(Size')
    BY <1>2, <1>5, <2>3 DEF RawReadOn
  <2>7. pc'["aesEncrypt"] = "read"
    BY <1>4 DEF AsksFor
  <2> QED
    BY <2>1, <2>4, <2>5, <2>6, <2>7 DEF Fetching
<1> QED
  BY <1>1, <1>5, <1>6, <1>7 DEF Advances, Working, InCrypto1, Crypto1Threads

LEMMA AesCrypt1Advances ==
  ASSUME ControlOK, DataOK, NEW r, InCrypto1(r), AesCrypt("bus1")
  PROVE  Advances(r)
<1>1. /\ Resumes("aesEncrypt", "read")
      /\ crypto' = [crypto EXCEPT !["bus1"].bufferInt =
                      Crypted(result["aesEncrypt"], "raw", "cipher", crypto["bus1"].length)]
      /\ Suspend("aesEncrypt", "crypted", For(AesTime(crypto["bus1"].length)), {})
      /\ queue' = queue /\ result' = result /\ mem' = mem /\ enc' = enc /\ up' = up
      /\ network_frame' = network_frame /\ mem_num' = mem_num
  BY EncryptNames DEF AesCrypt
<1>2. Encrypting(r) /\ BusFree("bus1") /\ RawIn(result["aesEncrypt"]) /\ r = EncryptOn(Size)
  BY <1>1, Crypto1Stages
<1>3. /\ EncryptRegisters
      /\ pc["send_packet"] = "encrypted" /\ wait["send_packet"] = On("encrypt_done")
  BY <1>2 DEF Encrypting
<1>4. /\ pc'["aesEncrypt"] = "crypted" /\ wait'["aesEncrypt"] = For(AesTime(crypto["bus1"].length))
      /\ \A p \in Threads \ {"aesEncrypt"} : Keeps(p)
  BY <1>1, Alone, EncryptNames
<1>5. Undisturbed /\ Size' = Size /\ Reported' = Reported /\ Passing("cipher")' = Passing("cipher")
  BY <1>1, <1>4, ThreadNames, FrameKept DEF Undisturbed
<1>6. /\ OthersHome(Crypto1Threads)'
      /\ Passed(Reported - 1, Reported - 1, Reported - 1, Reported - 1)'
      /\ RawStored'
  BY <1>1, <1>4, <1>5, Crypto1Kept DEF Crypto1Threads
<1>7. Encrypting(r)'
  <2>1. EncryptRegisters'
    BY <1>1, <1>3, <1>5 DEF EncryptRegisters, DataOK, RegistersOK, Buses
  <2>2. crypto'["bus1"].bufferInt = Passing("cipher")'
    BY <1>1, <1>2, <1>3, <1>5 DEF EncryptRegisters, RawIn, DataOK, RegistersOK, Buses
  <2>3. wait'["aesEncrypt"].event = NoEvent /\ wait'["aesEncrypt"].time = AesTime(Size)
    BY <1>3, <1>4 DEF EncryptRegisters, For
  <2>4. BusFree("bus1")'
    BY <1>1, <1>2, <1>4, BusStaysFree, ThreadNames
  <2>5. pc'["send_packet"] = "encrypted" /\ wait'["send_packet"] = On("encrypt_done")
    BY <1>3, <1>4, ThreadNames DEF Keeps
  <2>6. r = wait'["aesEncrypt"].time + CipherWriteOn(Size')
    BY <1>2, <1>5, <2>3 DEF EncryptOn
  <2> QED
    BY <1>4, <2>1, <2>2, <2>3, <2>4, <2>5, <2>6 DEF Encrypting
<1> QED
  BY <1>1, <1>5, <1>6, <1>7 DEF Advances, Working, InCrypto1, Crypto1Threads

LEMMA AesWriteData1Advances ==
  ASSUME ControlOK, DataOK, NEW r, InCrypto1(r), AesWriteData("bus1")
  PROVE  Advances(r)
<1> DEFINE request ==
      Write("mem", crypto["bus1"].mem_address_dst, crypto["bus1"].bufferInt.len,
            crypto["bus1"].bufferInt)
<1>1. /\ Resumes("aesEncrypt", "crypted")
      /\ Transfer("aesEncrypt", "bus1", request, "written", {})
      /\ result' = result /\ mem' = mem /\ enc' = enc /\ up' = up
      /\ crypto' = crypto /\ network_frame' = network_frame /\ mem_num' = mem_num
  BY EncryptNames DEF AesWriteData
<1>2. /\ Encrypting(r) /\ BusFree("bus1") /\ crypto["bus1"].bufferInt = Passing("cipher")
      /\ r = wait["aesEncrypt"].time + CipherWriteOn(Size) /\ wait["aesEncrypt"].time = 0
  BY <1>1, Crypto1Stages DEF Resumes, IsReady, Ready
<1>3. /\ EncryptRegisters
      /\ pc["send_packet"] = "encrypted" /\ wait["send_packet"] = On("encrypt_done")
  BY <1>2 DEF Encrypting
<1>4. /\ request = Write("mem", CipherBlock(Reported - 1), Length16(Size), Passing("cipher"))
      /\ request.len = Length16(Size)
  BY <1>2, <1>3, EncryptNames DEF EncryptRegisters, Passing
<1> HIDE DEF request
<1>5. AsksFor("bus1", "aesEncrypt", request, "written")
  BY <1>1, <1>2, Asked, EncryptNames DEF DataOK
<1>6. Undisturbed /\ Size' = Size /\ Reported' = Reported /\ Passing("cipher")' = Passing("cipher")
  BY <1>1, <1>5, ThreadNames, FrameKept DEF Undisturbed, AsksFor
<1>7. /\ OthersHome(Crypto1Threads)'
      /\ Passed(Reported - 1, Reported - 1, Reported - 1, Reported - 1)'
      /\ RawStored'
  BY <1>1, <1>5, <1>6, Crypto1Kept, EncryptNames DEF Crypto1Threads, AsksFor
<1>8. Encrypting(r)'
  <2>1. EncryptRegisters'
    BY <1>1, <1>3, <1>6 DEF EncryptRegisters
  <2>2. Asking("bus1", "aesEncrypt",
               Write("mem", CipherBlock(Reported - 1), Length16(Size), Passing("cipher")))'
    BY <1>4, <1>5, <1>6 DEF AsksFor, Asking, Resumes, IsReady
  <2>3. r = Remaining("bus1")' + DescriptorOn(Size')
    <3>1. /\ Length16(Size) \in Nat /\ DescriptorOn(Size) \in Nat
          /\ BusTime(Length16(Size)) \in Nat
      BY Durations, TimesToGo DEF DataOK, RegistersOK, Size
    <3>2. r = CipherWriteOn(Size)
      <4>1. CipherWriteOn(Size) \in Nat
        BY TimesToGo DEF DataOK, RegistersOK, Size
      <4> QED
        BY <1>2, <4>1
    <3> QED
      BY <1>4, <1>5, <1>6, <3>2 DEF AsksFor, CipherWriteOn
  <2>4. /\ pc'["aesEncrypt"] = "written"
        /\ pc'["send_packet"] = "encrypted" /\ wait'["send_packet"] = On("encrypt_done")
    BY <1>3, <1>5, ThreadNames DEF AsksFor, Keeps
  <2> QED
    BY <2>1, <2>2, <2>3, <2>4 DEF Encrypting
<1> QED
  BY <1>1, <1>6, <1>7, <1>8 DEF Advances, Working, InCrypto1, Crypto1Threads

LEMMA AesDone1Advances ==
  ASSUME ControlOK, DataOK, NEW r, InCrypto1(r), AesDone("bus1")
  PROVE  Advances(r)
<1>1. /\ Resumes("aesEncrypt", "written")
      /\ Suspend("aesEncrypt", "command", On("encrypt_event"), {"encrypt_done"})
      /\ queue' = queue /\ result' = result /\ mem' = mem /\ enc' = enc /\ up' = up
      /\ crypto' = crypto /\ network_frame' = network_frame /\ mem_num' = mem_num
  BY EncryptNames DEF AesDone
<1>2. Encrypting(r) /\ BusFree("bus1") /\ CipherStored /\ r = DescriptorOn(Size)
  BY <1>1, Crypto1Stages
<1>3. /\ EncryptRegisters
      /\ pc["send_packet"] = "encrypted" /\ wait["send_packet"] = On("encrypt_done")
  BY <1>2 DEF Encrypting
<1>4. /\ pc'["aesEncrypt"] = "command" /\ wait'["aesEncrypt"] = On("encrypt_event")
      /\ pc'["send_packet"] = "encrypted" /\ wait'["send_packet"] = Ready
      /\ \A p \in Threads \ {"aesEncrypt", "send_packet"} : Keeps(p)
  <2>1. /\ pc'["aesEncrypt"] = "command" /\ wait'["aesEncrypt"] = On("encrypt_event")
        /\ Others("aesEncrypt", {"encrypt_done"})
    BY <1>1, Suspended, EncryptNames
  <2>2. wait["send_packet"].event = "encrypt_done"
    BY <1>3 DEF On
  <2>3. ASSUME NEW p \in Threads \ {"aesEncrypt", "send_packet"} PROVE wait[p].event # "encrypt_done"
    BY Listener
  <2> QED
    BY <1>3, <2>1, <2>2, <2>3, ThreadNames DEF Others, Keeps
<1>5. Undisturbed /\ Size' = Size /\ Reported' = Reported /\ Passing("cipher")' = Passing("cipher")
  BY <1>1, <1>4, ThreadNames, FrameKept DEF Undisturbed
<1>6. /\ OthersHome(Crypto1Threads)'
      /\ Passed(Reported - 1, Reported - 1, Reported - 1, Reported - 1)'
      /\ RawStored'
  BY <1>1, <1>4, <1>5, Crypto1Kept DEF Crypto1Threads
<1>7. Encrypted(r)'
  <2>1. AtHome("aesEncrypt")'
    BY <1>4 DEF AtHome, Home, HomeEvent
  <2>2. BusFree("bus1")'
    BY <1>1, <1>2, <1>4, BusStaysFree, ThreadNames
  <2>3. CipherStored' /\ up'.frameLength = Size'
    BY <1>1, <1>2, <1>3, <1>5 DEF CipherStored, EncryptRegisters
  <2> QED
    BY <1>2, <1>4, <1>5, <2>1, <2>2, <2>3 DEF Encrypted, Resumes, IsReady, Ready
<1> QED
  BY <1>1, <1>5, <1>6, <1>7 DEF Advances, Working, InCrypto1, Crypto1Threads

LEMMA SendPacketAdvances ==
  ASSUME ControlOK, DataOK, NEW r, InCrypto1(r), SendPacket
  PROVE  Advances(r)
<1> DEFINE request ==
      Write("nic", 0, 2, [addr |-> CipherBlock(up.frame_num), length |-> Length16(up.frameLength)])
<1>1. /\ Resumes("send_packet", "encrypted")
      /\ Transfer("send_packet", "bus1", request, "idle", {})
      /\ up' = [up EXCEPT !.frame_num = @ + 1]
      /\ result' = result /\ mem' = mem /\ enc' = enc
      /\ crypto' = crypto /\ network_frame' = network_frame /\ mem_num' = mem_num
  BY DEF SendPacket
<1>2. /\ AtHome("aesEncrypt") /\ BusFree("bus1") /\ up.frameLength = Size
      /\ CipherStored /\ r = DescriptorOn(Size)
  <2>1. Encrypted(r)
    BY <1>1, Crypto1Stages
  <2> QED
    BY <2>1 DEF Encrypted
<1>3. /\ OthersHome(Crypto1Threads)
      /\ Passed(Reported - 1, Reported - 1, Reported - 1, Reported - 1)
  BY DEF InCrypto1, Crypto1Threads
<1>4. Reported \in Nat /\ up.frame_num = Reported - 1 /\ up'.frame_num = Reported
  BY <1>1, <1>3 DEF Passed, DataOK, RegistersOK, Reported
<1>5. request = Write("nic", 0, 2, Descriptor) /\ request.len = 2
  BY <1>2, <1>4, EncryptNames DEF Descriptor
<1> HIDE DEF request
<1>6. AsksFor("bus1", "send_packet", request, "idle")
  BY <1>1, <1>2, Asked, EncryptNames DEF DataOK
<1>7. Undisturbed /\ Size' = Size /\ Reported' = Reported /\ Passing("cipher")' = Passing("cipher")
  BY <1>1, <1>6, ThreadNames, FrameKept DEF Undisturbed, AsksFor
<1>8. OthersHome({"send_packet", "read_packet", "bus1"})'
  <2>1. OthersHome(Crypto1Threads)'
    <3>1. /\ \A p \in (Threads \ {"read_file"}) \ Crypto1Threads : Keeps(p)
          /\ \A b \in Buses \ Crypto1Threads : queue'[b] = queue[b]
      BY <1>6 DEF AsksFor, Crypto1Threads
    <3> QED
      BY <1>3, <3>1, HomeStays
  <2>2. AtHome("aesEncrypt")'
    BY <1>2, <1>6, ThreadNames DEF AsksFor, Keeps, AtHome
  <2> QED
    BY <2>1, <2>2, ThreadNames DEF OthersHome, Crypto1Threads
<1>9. Passed(Reported, Reported - 1, Reported - 1, Reported - 1)' /\ CipherStored'
  BY <1>1, <1>2, <1>3, <1>4, <1>7 DEF Passed, Delivered, CipherStored
<1>10. Describing(r)'
  <2>1. AtHome("read_packet")'
    <3>1. AtHome("read_packet")
      BY <1>3, ThreadNames DEF OthersHome, Crypto1Threads
    <3> QED
      BY <1>6, <3>1, ThreadNames DEF AsksFor, Keeps, AtHome
  <2>2. Descriptor' = Descriptor
    BY <1>7 DEF Descriptor
  <2>3. Asking("bus1", "send_packet", Write("nic", 0, 2, Descriptor))'
    BY <1>5, <1>6, <2>2 DEF AsksFor, Asking, Resumes, IsReady
  <2>4. r = Remaining("bus1")' + PacketReadOn(Size')
    BY <1>2, <1>5, <1>6, <1>7 DEF AsksFor, DescriptorOn
  <2> QED
    BY <1>6, <2>1, <2>3, <2>4 DEF AsksFor, Describing
<1> QED
  BY <1>1, <1>7, <1>8, <1>9, <1>10 DEF Advances, Working, InCard

\* The request that is served.
LEMMA Served ==
  ASSUME NEW b, NEW t, NEW r, Asking(b, t, r)
  PROVE  Head(queue[b]).req = r /\ Head(queue[b]).by = t
<1>1. queue[b] = <<[by |-> t, req |-> r]>>
  BY DEF Asking
<1> QED
  BY <1>1

LEMMA RequestKinds ==
  /\ \A s, a, l, d : /\ Write(s, a, l, d).slave = s /\ ~Write(s, a, l, d).rdnwr
                     /\ Write(s, a, l, d).addr = a /\ Write(s, a, l, d).data = d
  /\ \A s, a, l : Read(s, a, l).slave = s /\ Read(s, a, l).rdnwr /\ Read(s, a, l).addr = a
  BY DEF Write, Read

LEMMA SizeOK ==
  ASSUME DataOK
  PROVE  /\ Size \in Nat /\ Length16(Size) \in Nat
         /\ \A x \in {ClearWriteOn(Size), DecryptOn(Size), CipherReadOn(Size),
                      DecryptCommandOn(Size), PacketLengthOn(Size), ReceiveOn(Size),
                      TransmitOn(Size), PacketReadOn(Size), DescriptorOn(Size),
                      CipherWriteOn(Size), EncryptOn(Size), RawReadOn(Size),
                      EncryptCommandOn(Size), FrameLengthOn(Size)} :
              x \in Nat /\ 0 + x = x
<1>1. Size \in Nat /\ Length16(Size) \in Nat
  BY Durations DEF DataOK, RegistersOK, Size
<1> DEFINE l == Size
<1>2. l \in Nat
  BY <1>1
<1> HIDE DEF l
<1>3. /\ ClearWriteOn(l) \in Nat /\ DecryptOn(l) \in Nat /\ CipherReadOn(l) \in Nat
      /\ DecryptCommandOn(l) \in Nat /\ PacketLengthOn(l) \in Nat /\ ReceiveOn(l) \in Nat
      /\ TransmitOn(l) \in Nat /\ PacketReadOn(l) \in Nat /\ DescriptorOn(l) \in Nat
      /\ CipherWriteOn(l) \in Nat /\ EncryptOn(l) \in Nat /\ RawReadOn(l) \in Nat
      /\ EncryptCommandOn(l) \in Nat /\ FrameLengthOn(l) \in Nat
  BY <1>2, TimesToGo
<1>4. \A x \in Nat : 0 + x = x
  OBVIOUS
<1> QED
  BY <1>1, <1>3, <1>4 DEF l

\* What has changed when the transaction that t asked for on b is over.
Answered(b, t, fired) ==
  /\ queue'[b] = <<>> /\ BusFree(b)'
  /\ \A c \in Buses \ {b} : queue'[c] = queue[c]
  /\ pc'[t] = pc[t] /\ wait'[t] = Ready
  /\ \A p \in Threads \ {b, t} :
       /\ pc'[p] = pc[p]
       /\ wait[p].event \notin fired => wait'[p] = wait[p]
       /\ wait[p].event \in fired => wait'[p] = Ready

LEMMA Answering ==
  ASSUME ControlOK, DataOK,
         NEW CONSTANT b \in Buses, NEW CONSTANT t \in Threads \ Buses, NEW r, NEW CONSTANT fired,
         Asking(b, t, r), Finish(b, fired)
  PROVE  Answered(b, t, fired)
<1>1. queue \in [Buses -> Seq(Entries)]
  BY DEF DataOK
<1> QED
  BY <1>1, TransferOver DEF Answered

\* The moves of the sender's bus, told apart by the slave.
LEMMA Crypto1Serves ==
  ASSUME ControlOK, DataOK, NEW r, InCrypto1(r), NEW s, Moved("bus1", s)
  PROVE  /\ Remaining("bus1") = 0
         /\ s \in {"encoder", "crypto", "mem"}
         /\ s = "encoder" =>
               /\ Commanding(r) /\ AtHome("aesEncrypt") /\ pc["send_packet"] = "length"
               /\ Asking("bus1", "send_packet", Read("encoder", 0, 1))
               /\ r = EncryptCommandOn(Size)
         /\ s = "crypto" =>
               /\ Commanding(r) /\ AtHome("aesEncrypt") /\ pc["send_packet"] = "encrypting"
               /\ up.frameLength = Size
               /\ Asking("bus1", "send_packet", Write("crypto", 0, 4, EncryptCommand))
               /\ r = RawReadOn(Size)
         /\ s = "mem" =>
            \/ /\ Fetching(r) /\ pc["aesEncrypt"] = "read"
               /\ pc["send_packet"] = "encrypted" /\ wait["send_packet"] = On("encrypt_done")
               /\ Asking("bus1", "aesEncrypt", Read("mem", EncodeBlock(Reported - 1), Size))
               /\ r = EncryptOn(Size)
            \/ /\ Encrypting(r) /\ pc["aesEncrypt"] = "written"
               /\ Asking("bus1", "aesEncrypt",
                    Write("mem", CipherBlock(Reported - 1), Length16(Size), Passing("cipher")))
               /\ r = DescriptorOn(Size)
<1>1. Resumes("bus1", "moving") /\ Head(queue["bus1"]).req.slave = s
  BY DEF Moved
<1>2. Remaining("bus1") = 0
  BY <1>1, Crypto1Moves
<1>3. \A x \in {EncryptCommandOn(Size), RawReadOn(Size), EncryptOn(Size), DescriptorOn(Size)} :
        0 + x = x
  BY SizeOK
<1>4. CASE /\ Commanding(r) /\ AtHome("aesEncrypt") /\ pc["send_packet"] = "length"
           /\ Asking("bus1", "send_packet", Read("encoder", 0, 1))
           /\ r = Remaining("bus1") + EncryptCommandOn(Size)
  <2>1. s = "encoder"
    BY <1>1, <1>4, Served, RequestKinds
  <2> QED
    BY <1>2, <1>3, <1>4, <2>1
<1>5. CASE /\ Commanding(r) /\ AtHome("aesEncrypt") /\ pc["send_packet"] = "encrypting"
           /\ up.frameLength = Size
           /\ Asking("bus1", "send_packet", Write("crypto", 0, 4, EncryptCommand))
           /\ r = Remaining("bus1") + RawReadOn(Size)
  <2>1. s = "crypto"
    BY <1>1, <1>5, Served, RequestKinds
  <2> QED
    BY <1>2, <1>3, <1>5, <2>1
<1>6. CASE /\ Fetching(r) /\ pc["aesEncrypt"] = "read"
           /\ pc["send_packet"] = "encrypted" /\ wait["send_packet"] = On("encrypt_done")
           /\ Asking("bus1", "aesEncrypt", Read("mem", EncodeBlock(Reported - 1), Size))
           /\ r = Remaining("bus1") + EncryptOn(Size)
  <2>1. s = "mem"
    BY <1>1, <1>6, Served, RequestKinds
  <2> QED
    BY <1>2, <1>3, <1>6, <2>1
<1>7. CASE /\ Encrypting(r) /\ pc["aesEncrypt"] = "written"
           /\ Asking("bus1", "aesEncrypt",
                Write("mem", CipherBlock(Reported - 1), Length16(Size), Passing("cipher")))
           /\ r = Remaining("bus1") + DescriptorOn(Size)
  <2>1. s = "mem"
    BY <1>1, <1>7, Served, RequestKinds
  <2> QED
    BY <1>2, <1>3, <1>7, <2>1
<1> QED
  BY <1>1, <1>4, <1>5, <1>6, <1>7, Crypto1Moves

LEMMA FrameLengthAdvances ==
  ASSUME ControlOK, DataOK, NEW r, InCrypto1(r), Encode("bus1")
  PROVE  Advances(r)
<1>1. /\ Commanding(r) /\ AtHome("aesEncrypt") /\ pc["send_packet"] = "length"
      /\ Asking("bus1", "send_packet", Read("encoder", 0, 1))
      /\ r = EncryptCommandOn(Size)
  <2>1. Moved("bus1", "encoder")
    BY DEF Encode
  <2> QED
    BY <2>1, Crypto1Serves
<1>2. /\ result' = [result EXCEPT !["send_packet"] = [Blank EXCEPT !.len = enc.frame_length]]
      /\ Finish("bus1", {}) /\ enc' = enc
      /\ mem' = mem /\ up' = up /\ crypto' = crypto
      /\ network_frame' = network_frame /\ mem_num' = mem_num
  <2>1. /\ Head(queue["bus1"]).req.rdnwr /\ Head(queue["bus1"]).by = "send_packet"
    BY <1>1, Served, RequestKinds
  <2> QED
    BY <2>1 DEF Encode, Returns
<1>3. /\ queue'["bus2"] = queue["bus2"] /\ BusFree("bus1")'
      /\ pc'["send_packet"] = "length" /\ wait'["send_packet"] = Ready
      /\ \A p \in Threads \ {"bus1", "send_packet"} : Keeps(p)
  <2>1. Answered("bus1", "send_packet", {})
    BY <1>1, <1>2, Answering, EncryptNames
  <2> QED
    BY <1>1, <2>1, EncryptNames DEF Answered, Keeps
<1>4. Undisturbed /\ Size' = Size /\ Reported' = Reported
  BY <1>2, <1>3, ThreadNames, FrameKept DEF Undisturbed
<1>5. /\ OthersHome(Crypto1Threads)'
      /\ Passed(Reported - 1, Reported - 1, Reported - 1, Reported - 1)'
      /\ RawStored'
  BY <1>2, <1>3, <1>4, Crypto1Kept DEF Crypto1Threads
<1>6. Commanding(r)'
  <2>1. AtHome("aesEncrypt")'
    BY <1>1, <1>3, ThreadNames DEF Keeps, AtHome
  <2>2. result'["send_packet"].len = Size'
    BY <1>2, <1>4 DEF Size, Blank, DataOK, ContentsOK, Sender
  <2> QED
    BY <1>1, <1>3, <1>4, <2>1, <2>2 DEF Commanding, Resumes, IsReady
<1> QED
  BY <1>2, <1>4, <1>5, <1>6 DEF Advances, Working, InCrypto1, Crypto1Threads

LEMMA EncryptCommandAdvances ==
  ASSUME ControlOK, DataOK, NEW r, InCrypto1(r), Cryptography("bus1")
  PROVE  Advances(r)
<1>1. /\ Commanding(r) /\ AtHome("aesEncrypt") /\ pc["send_packet"] = "encrypting"
      /\ up.frameLength = Size
      /\ Asking("bus1", "send_packet", Write("crypto", 0, 4, EncryptCommand))
      /\ r = RawReadOn(Size)
  <2>1. Moved("bus1", "crypto")
    BY DEF Cryptography
  <2> QED
    BY <2>1, Crypto1Serves
<1>2. /\ crypto' = [crypto EXCEPT !["bus1"] = [@ EXCEPT !.mem_address_src = EncryptCommand.src,
                                                       !.mem_address_dst = EncryptCommand.dst,
                                                       !.length = EncryptCommand.length]]
      /\ Finish("bus1", {"encrypt_event"})
      /\ result' = result /\ enc' = enc /\ mem' = mem /\ up' = up
      /\ network_frame' = network_frame /\ mem_num' = mem_num
  <2>1. Head(queue["bus1"]).req.data = EncryptCommand
    BY <1>1, Served, RequestKinds
  <2>2. EncryptCommand.encrypt = 1
    BY DEF EncryptCommand
  <2> QED
    BY <2>1, <2>2 DEF Cryptography
<1>3. /\ queue'["bus2"] = queue["bus2"] /\ BusFree("bus1")'
      /\ pc'["send_packet"] = "encrypting" /\ wait'["send_packet"] = Ready
      /\ pc'["aesEncrypt"] = "command" /\ wait'["aesEncrypt"] = Ready
      /\ \A p \in Threads \ Crypto1Threads : Keeps(p)
  <2>1. Answered("bus1", "send_packet", {"encrypt_event"})
    BY <1>1, <1>2, Answering, EncryptNames
  <2>2. /\ pc["aesEncrypt"] = "command" /\ wait["aesEncrypt"].event = "encrypt_event"
        /\ "aesEncrypt" \in Threads \ {"bus1", "send_packet"}
    BY <1>1, ThreadNames DEF AtHome, Home, HomeEvent, On
  <2>3. \A p \in Threads \ Crypto1Threads : wait[p].event # "encrypt_event"
    BY Listener DEF Crypto1Threads
  <2> QED
    BY <1>1, <2>1, <2>2, <2>3, EncryptNames DEF Answered, Keeps, Crypto1Threads
<1>4. Undisturbed /\ Size' = Size /\ Reported' = Reported
  BY <1>2, <1>3, ThreadNames, FrameKept DEF Undisturbed, Crypto1Threads
<1>5. /\ OthersHome(Crypto1Threads)'
      /\ Passed(Reported - 1, Reported - 1, Reported - 1, Reported - 1)'
      /\ RawStored'
  BY <1>2, <1>3, <1>4, Crypto1Kept
<1>6. Fetching(r)'
  <2>1. EncryptRegisters'
    BY <1>1, <1>2, <1>4 DEF EncryptRegisters, EncryptCommand, DataOK, RegistersOK, Buses
  <2> QED
    BY <1>1, <1>3, <1>4, <2>1 DEF Fetching, Resumes, IsReady
<1> QED
  BY <1>2, <1>4, <1>5, <1>6 DEF Advances, Working, InCrypto1, Crypto1Threads

\* Only odd frames are where the crypto unit looks for them.
LEMMA RawFetched ==
  ASSUME DataOK, Lasting, RawStored
  PROVE  RawIn(Prefix(mem["bus1"][EncodeBlock(Reported - 1)], Size))
<1> DEFINE c == Prefix(mem["bus1"][EncodeBlock(Reported - 1)], Size)
<1>1. Reported \in Nat /\ Size \in Nat
  BY SizeOK DEF Lasting
<1>2. CASE Reported % 2 = 1
  <2>1. (Reported - 1) % 2 = 0
    BY <1>1, <1>2
  <2>2. c = [frame |-> Reported, form |-> "raw", len |-> Size]
    BY <1>2, <2>1 DEF RawStored, EncodeBlock, Prefix
  <2> HIDE DEF c
  <2>3. c.form = "raw" /\ c.frame = Reported
    BY <2>2
  <2> QED
    BY <1>2, <2>3 DEF RawIn, Crypted, Passing, c
<1>3. CASE Reported % 2 # 1
  <2>1. (Reported - 1) % 2 # 0
    BY <1>1, <1>3
  <2>2. c.form # "raw"
    BY <1>1, <2>1 DEF Lasting, EncodeBlock, Prefix, Blank
  <2> HIDE DEF c
  <2> QED
    BY <1>3, <2>2 DEF RawIn, Crypted, Passing, c
<1> QED
  BY <1>2, <1>3

LEMMA RawReadAdvances ==
  ASSUME ControlOK, DataOK, Lasting, NEW r, InCrypto1(r), MemDataTransfer("bus1"),
         Fetching(r), pc["aesEncrypt"] = "read",
         pc["send_packet"] = "encrypted", wait["send_packet"] = On("encrypt_done"),
         Asking("bus1", "aesEncrypt", Read("mem", EncodeBlock(Reported - 1), Size)),
         r = EncryptOn(Size)
  PROVE  Advances(r)
<1>1. /\ result' = [result EXCEPT !["aesEncrypt"] =
                      Prefix(mem["bus1"][EncodeBlock(Reported - 1)], Size)]
      /\ Finish("bus1", {})
      /\ enc' = enc /\ mem' = mem /\ up' = up /\ crypto' = crypto
      /\ network_frame' = network_frame /\ mem_num' = mem_num
  <2>1. /\ Head(queue["bus1"]).req = Read("mem", EncodeBlock(Reported - 1), Size)
        /\ Head(queue["bus1"]).by = "aesEncrypt"
    BY Served
  <2>2. /\ Head(queue["bus1"]).req.rdnwr
        /\ Head(queue["bus1"]).req.addr = EncodeBlock(Reported - 1)
        /\ Head(queue["bus1"]).req.len = Size
    BY <2>1, RequestKinds, EncryptNames
  <2> QED
    BY <2>1, <2>2 DEF MemDataTransfer, Returns
<1>2. /\ queue'["bus2"] = queue["bus2"] /\ BusFree("bus1")'
      /\ pc'["aesEncrypt"] = "read" /\ wait'["aesEncrypt"] = Ready
      /\ \A p \in Threads \ {"bus1", "aesEncrypt"} : Keeps(p)
  <2>1. Answered("bus1", "aesEncrypt", {})
    BY <1>1, Answering, EncryptNames
  <2> QED
    BY <2>1, EncryptNames DEF Answered, Keeps
<1>3. Undisturbed /\ Size' = Size /\ Reported' = Reported /\ Passing("cipher")' = Passing("cipher")
  BY <1>1, <1>2, ThreadNames, FrameKept DEF Undisturbed
<1>4. /\ OthersHome(Crypto1Threads)'
      /\ Passed(Reported - 1, Reported - 1, Reported - 1, Reported - 1)'
      /\ RawStored'
  BY <1>1, <1>2, <1>3, Crypto1Kept DEF Crypto1Threads
<1>5. Encrypting(r)'
  <2>1. EncryptRegisters'
    BY <1>1, <1>3 DEF Fetching, EncryptRegisters
  <2>2. pc'["send_packet"] = "encrypted" /\ wait'["send_packet"] = On("encrypt_done")
    BY <1>2, ThreadNames DEF Keeps
  <2>3. result'["aesEncrypt"] = Prefix(mem["bus1"][EncodeBlock(Reported - 1)], Size)
    BY <1>1 DEF DataOK, ContentsOK, Sender
  <2>4. RawIn(result["aesEncrypt"])'
    <3>1. RawIn(Prefix(mem["bus1"][EncodeBlock(Reported - 1)], Size))
      BY RawFetched DEF InCrypto1
    <3> QED
      BY <1>3, <2>3, <3>1 DEF RawIn
  <2> QED
    BY <1>2, <1>3, <2>1, <2>2, <2>4 DEF Encrypting, Resumes, IsReady
<1> QED
  BY <1>1, <1>3, <1>4, <1>5 DEF Advances, Working, InCrypto1, Crypto1Threads

LEMMA CipherWriteAdvances ==
  ASSUME ControlOK, DataOK, NEW r, InCrypto1(r), MemDataTransfer("bus1"),
         Encrypting(r), pc["aesEncrypt"] = "written",
         Asking("bus1", "aesEncrypt",
                Write("mem", CipherBlock(Reported - 1), Length16(Size), Passing("cipher"))),
         r = DescriptorOn(Size)
  PROVE  Advances(r)
<1>1. /\ mem' = [mem EXCEPT !["bus1"][CipherBlock(Reported - 1)] = Passing("cipher")]
      /\ Finish("bus1", {})
      /\ enc' = enc /\ result' = result /\ up' = up /\ crypto' = crypto
      /\ network_frame' = network_frame /\ mem_num' = mem_num
  <2> DEFINE request == Write("mem", CipherBlock(Reported - 1), Length16(Size), Passing("cipher"))
  <2>1. Head(queue["bus1"]).req = request
    BY Served
  <2>2. /\ ~Head(queue["bus1"]).req.rdnwr
        /\ Head(queue["bus1"]).req.addr = CipherBlock(Reported - 1)
        /\ Head(queue["bus1"]).req.data = Passing("cipher")
    BY <2>1, RequestKinds
  <2> QED
    BY <2>2 DEF MemDataTransfer
<1>2. /\ queue'["bus2"] = queue["bus2"] /\ BusFree("bus1")'
      /\ pc'["aesEncrypt"] = "written" /\ wait'["aesEncrypt"] = Ready
      /\ \A p \in Threads \ {"bus1", "aesEncrypt"} : Keeps(p)
  <2>1. Answered("bus1", "aesEncrypt", {})
    BY <1>1, Answering, EncryptNames
  <2> QED
    BY <2>1, EncryptNames DEF Answered, Keeps
<1>3. Undisturbed /\ Size' = Size /\ Reported' = Reported /\ Passing("cipher")' = Passing("cipher")
  BY <1>1, <1>2, ThreadNames, FrameKept DEF Undisturbed
<1>4. /\ mem'["bus2"] = mem["bus2"] /\ mem'["bus1"][0] = mem["bus1"][0]
      /\ mem'["bus1"][3] = mem["bus1"][3]
      /\ mem'["bus1"][CipherBlock(Reported - 1)] = Passing("cipher")
  <2>1. CipherBlock(Reported - 1) \in {1, 4}
    BY DEF CipherBlock
  <2>2. mem \in [Buses -> [Blocks -> Content]] /\ {0, 1, 3, 4} \subseteq Blocks
    BY BlockNumbers DEF DataOK, ContentsOK
  <2> QED
    BY <1>1, <2>1, <2>2, ThreadNames
<1>5. /\ OthersHome(Crypto1Threads)'
      /\ Passed(Reported - 1, Reported - 1, Reported - 1, Reported - 1)'
      /\ RawStored'
  BY <1>1, <1>2, <1>3, <1>4, Crypto1Kept DEF Crypto1Threads
<1>6. Encrypting(r)'
  <2>1. EncryptRegisters'
    BY <1>1, <1>3 DEF Encrypting, EncryptRegisters
  <2>2. pc'["send_packet"] = "encrypted" /\ wait'["send_packet"] = On("encrypt_done")
    BY <1>2, ThreadNames DEF Keeps, Encrypting
  <2>3. CipherStored'
    BY <1>3, <1>4 DEF CipherStored
  <2> QED
    BY <1>2, <1>3, <2>1, <2>2, <2>3 DEF Encrypting, Resumes, IsReady
<1> QED
  BY <1>1, <1>3, <1>4, <1>5, <1>6 DEF Advances, Working, InCrypto1, Crypto1Threads

LEMMA Memory1Advances ==
  ASSUME ControlOK, DataOK, Lasting, NEW r, InCrypto1(r), MemDataTransfer("bus1")
  PROVE  Advances(r)
<1>1. Moved("bus1", "mem")
  BY DEF MemDataTransfer
<1> QED
  BY <1>1, Crypto1Serves, RawReadAdvances, CipherWriteAdvances

-----------------------------------------------------------------------------
(* The sender's network card. *)

CardThreads == {"send_packet", "read_packet", "bus1"}
LEMMA CardKept1 ==
  ASSUME NEW r, InCard(r), Undisturbed, \A p \in Threads \ CardThreads : Keeps(p),
         queue'["bus2"] = queue["bus2"], up' = up, mem_num' = mem_num, mem' = mem
  PROVE  /\ OthersHome(CardThreads)'
         /\ Passed(Reported, Reported - 1, Reported - 1, Reported - 1)'
         /\ CipherStored'
<1>1. /\ OthersHome(CardThreads)
      /\ Passed(Reported, Reported - 1, Reported - 1, Reported - 1)
      /\ CipherStored
  BY DEF InCard, CardThreads
<1>2. \A b \in Buses \ CardThreads : queue'[b] = queue[b]
  BY ThreadNames DEF CardThreads
<1>3. OthersHome(CardThreads)'
  BY <1>1, <1>2, HomeStays
<1>4. Reported' = Reported /\ Size' = Size /\ Passing("cipher")' = Passing("cipher")
  BY FrameKept
<1> QED
  BY <1>1, <1>3, <1>4 DEF Passed, Delivered, CipherStored

LEMMA CardStages ==
  ASSUME ControlOK, NEW r, InCard(r)
  PROVE  /\ Resumes("send_packet", "idle") => CardReading(r)
         /\ Resumes("read_packet", "descriptor") =>
              CardReading(r) /\ BusFree("bus1") /\ r = PacketReadOn(Size)
         /\ Resumes("read_packet", "read") =>
              /\ CardRegisters /\ AtHome("send_packet") /\ BusFree("bus1")
              /\ result["read_packet"] = Passing("cipher") /\ r = TransmitOn(Size)
         /\ IsReady("send_packet") => pc["send_packet"] = "idle"
<1>1. Describing(r) \/ CardReading(r) \/ CardRead(r)
  BY DEF InCard
<1>2. /\ \A e : On(e) = Ready => e = "none"
      /\ "none" \notin {"read_packet", "send_packet", "read_event", "encode_done"}
  BY DEF On, Ready, NoEvent
<1>3. CASE Describing(r)
  BY <1>2, <1>3 DEF Describing, Resumes, IsReady, AtHome, Home, HomeEvent, Asking
<1>4. CASE CardReading(r)
  BY <1>2, <1>4 DEF CardReading, Resumes, IsReady, AtHome, Home, HomeEvent, Asking
<1>5. CASE CardRead(r)
  BY <1>2, <1>5 DEF CardRead, Resumes, IsReady, AtHome, Home, HomeEvent
<1> QED
  BY <1>1, <1>3, <1>4, <1>5

LEMMA CardServes ==
  ASSUME ControlOK, DataOK, NEW r, InCard(r), NEW s, Moved("bus1", s)
  PROVE  \/ /\ s = "nic"
            /\ Describing(r)
            /\ Asking("bus1", "send_packet", Write("nic", 0, 2, Descriptor))
            /\ r = PacketReadOn(Size)
         \/ /\ s = "mem"
            /\ CardReading(r) /\ AtHome("send_packet") /\ pc["read_packet"] = "read"
            /\ Asking("bus1", "read_packet",
                      Read("mem", CipherBlock(Reported - 1), Length16(Size)))
            /\ r = TransmitOn(Size)
<1>1. Resumes("bus1", "moving") /\ Head(queue["bus1"]).req.slave = s
  BY DEF Moved
<1>2. /\ Remaining("bus1") = 0 /\ ~(Remaining("bus1") > 0)
      /\ ~BusFree("bus1")
  BY <1>1 DEF Resumes, IsReady, Ready, BusFree, AtHome, Home, Remaining
<1>3. \A x \in {PacketReadOn(Size), TransmitOn(Size)} : 0 + x = x
  BY SizeOK
<1>4. Describing(r) \/ CardReading(r) \/ CardRead(r)
  BY DEF InCard
<1>5. CASE Describing(r)
  <2>1. /\ Asking("bus1", "send_packet", Write("nic", 0, 2, Descriptor))
        /\ r = Remaining("bus1") + PacketReadOn(Size)
    BY <1>5 DEF Describing
  <2>2. s = "nic"
    BY <1>1, <2>1, Served, RequestKinds
  <2> QED
    BY <1>2, <1>3, <1>5, <2>1, <2>2
<1>6. CASE CardReading(r)
  <2>1. /\ pc["read_packet"] = "read" /\ AtHome("send_packet")
        /\ Asking("bus1", "read_packet",
                  Read("mem", CipherBlock(Reported - 1), Length16(Size)))
        /\ r = Remaining("bus1") + TransmitOn(Size)
    BY <1>2, <1>6 DEF CardReading
  <2>2. s = "mem"
    BY <1>1, <2>1, Served, RequestKinds
  <2> QED
    BY <1>2, <1>3, <1>6, <2>1, <2>2
<1>7. CASE CardRead(r)
  BY <1>2, <1>7 DEF CardRead
<1> QED
  BY <1>4, <1>5, <1>6, <1>7

LEMMA DescriptorAdvances ==
  ASSUME ControlOK, DataOK, NEW r, InCard(r), WaitForBufferDescriptor("bus1")
  PROVE  Advances(r)
<1>1. /\ Describing(r)
      /\ Asking("bus1", "send_packet", Write("nic", 0, 2, Descriptor))
      /\ r = PacketReadOn(Size)
  <2>1. Moved("bus1", "nic")
    BY DEF WaitForBufferDescriptor, ConnectionRequest, BufferDescriptor, DataLength
  <2> QED
    BY <2>1, CardServes
<1>2. /\ nic' = [nic EXCEPT !.mem_address = Descriptor.addr, !.packet_length = Descriptor.length]
      /\ Finish("bus1", {"read_event"})
      /\ result' = result /\ enc' = enc /\ mem' = mem /\ up' = up
      /\ network_frame' = network_frame /\ mem_num' = mem_num
  <2>1. /\ Head(queue["bus1"]).req.data = Descriptor
        /\ Head(queue["bus1"]).req.len = 2 /\ ~Head(queue["bus1"]).req.rdnwr
    BY <1>1, Served, RequestKinds, EncryptNames
  <2>2. ConnectionRequest("bus1") => Head(queue["bus1"]).req.len = 1
    BY Zenon DEF ConnectionRequest
  <2>3. DataLength("bus1") => Head(queue["bus1"]).req.rdnwr
    BY Zenon DEF DataLength
  <2>4. BufferDescriptor("bus1")
    BY <2>1, <2>2, <2>3 DEF WaitForBufferDescriptor
  <2> QED
    BY <2>1, <2>4 DEF BufferDescriptor
<1>3. /\ queue'["bus2"] = queue["bus2"] /\ BusFree("bus1")'
      /\ pc'["send_packet"] = "idle" /\ wait'["send_packet"] = Ready
      /\ pc'["read_packet"] = "descriptor" /\ wait'["read_packet"] = Ready
      /\ \A p \in Threads \ CardThreads : Keeps(p)
  <2>1. Answered("bus1", "send_packet", {"read_event"})
    BY <1>1, <1>2, Answering, EncryptNames
  <2>2. /\ pc["read_packet"] = "descriptor" /\ wait["read_packet"].event = "read_event"
        /\ "read_packet" \in Threads \ {"bus1", "send_packet"} /\ pc["send_packet"] = "idle"
    BY <1>1, ThreadNames DEF Describing, AtHome, Home, HomeEvent, On
  <2>3. \A p \in Threads \ CardThreads : wait[p].event # "read_event"
    BY Listener DEF CardThreads
  <2> QED
    BY <2>1, <2>2, <2>3, EncryptNames DEF Answered, Keeps, CardThreads
<1>4. Undisturbed /\ Size' = Size /\ Reported' = Reported
  BY <1>2, <1>3, ThreadNames, FrameKept DEF Undisturbed, CardThreads
<1>5. /\ OthersHome(CardThreads)'
      /\ Passed(Reported, Reported - 1, Reported - 1, Reported - 1)'
      /\ CipherStored'
  BY <1>2, <1>3, <1>4, CardKept1
<1>6. CardReading(r)'
  <2>1. CardRegisters'
    BY <1>2, <1>4 DEF CardRegisters, Descriptor, DataOK, RegistersOK
  <2> QED
    BY <1>1, <1>3, <1>4, <2>1 DEF CardReading, Resumes, IsReady
<1> QED
  BY <1>2, <1>4, <1>5, <1>6 DEF Advances, Working, InCard, CardThreads

LEMMA AwaitEncoderAdvances ==
  ASSUME ControlOK, DataOK, NEW r, InCard(r), AwaitEncoder
  PROVE  Advances(r)
<1>1. /\ Resumes("send_packet", "idle")
      /\ Suspend("send_packet", "encode_done", On("encode_done"), {})
      /\ queue' = queue /\ result' = result /\ mem' = mem /\ enc' = enc /\ up' = up
      /\ nic' = nic /\ network_frame' = network_frame /\ mem_num' = mem_num
  BY DEF AwaitEncoder
<1>2. CardReading(r)
  BY <1>1, CardStages
<1>3. /\ pc'["send_packet"] = "encode_done" /\ wait'["send_packet"] = On("encode_done")
      /\ \A p \in Threads \ {"send_packet"} : Keeps(p)
  BY <1>1, Alone, EncryptNames
<1>4. Undisturbed /\ Size' = Size /\ Reported' = Reported
  BY <1>1, <1>3, ThreadNames, FrameKept DEF Undisturbed
<1>5. /\ OthersHome(CardThreads)'
      /\ Passed(Reported, Reported - 1, Reported - 1, Reported - 1)'
      /\ CipherStored'
  BY <1>1, <1>3, <1>4, CardKept1 DEF CardThreads
<1>6. CardReading(r)'
  <2>1. CardRegisters' /\ AtHome("send_packet")'
    BY <1>1, <1>2, <1>3, <1>4 DEF CardReading, CardRegisters, AtHome, Home, HomeEvent
  <2>2. Keeps("bus1") /\ Keeps("read_packet")
    BY <1>3, ThreadNames
  <2>3. CASE Resumes("read_packet", "descriptor") /\ BusFree("bus1") /\ r = PacketReadOn(Size)
    <3>1. Resumes("read_packet", "descriptor")' /\ BusFree("bus1")' /\ r = PacketReadOn(Size')
      BY <1>1, <1>4, <2>2, <2>3 DEF Keeps, Resumes, IsReady, BusFree, AtHome, Ready
    <3> QED
      BY <2>1, <3>1 DEF CardReading
  <2>4. CASE /\ pc["read_packet"] = "read"
             /\ Asking("bus1", "read_packet",
                       Read("mem", CipherBlock(Reported - 1), Length16(Size)))
             /\ r = Remaining("bus1") + TransmitOn(Size)
    <3>1. /\ Asking("bus1", "read_packet",
                    Read("mem", CipherBlock(Reported - 1), Length16(Size)))'
          /\ Remaining("bus1")' = Remaining("bus1") /\ pc'["read_packet"] = "read"
      BY <1>1, <1>4, <2>2, <2>4 DEF Keeps, Asking, Resumes, IsReady, Ready, Remaining
    <3> QED
      BY <1>4, <2>1, <2>4, <3>1 DEF CardReading
  <2> QED
    BY <1>2, <2>3, <2>4 DEF CardReading
<1> QED
  BY <1>1, <1>4, <1>5, <1>6 DEF Advances, Working, InCard, CardThreads

LEMMA ReadPacketAdvances ==
  ASSUME ControlOK, DataOK, NEW r, InCard(r), ReadPacket
  PROVE  Advances(r)
<1> DEFINE request == Read("mem", nic.mem_address, nic.packet_length)
<1>1. /\ Resumes("read_packet", "descriptor")
      /\ Transfer("read_packet", "bus1", request, "read", {})
      /\ result' = result /\ mem' = mem /\ enc' = enc /\ up' = up
      /\ nic' = nic /\ network_frame' = network_frame /\ mem_num' = mem_num
  BY DEF ReadPacket
<1>2. CardReading(r) /\ BusFree("bus1") /\ r = PacketReadOn(Size)
  BY <1>1, CardStages
<1>3. /\ request = Read("mem", CipherBlock(Reported - 1), Length16(Size))
      /\ request.len = Length16(Size)
  BY <1>2, EncryptNames DEF CardReading, CardRegisters
<1> HIDE DEF request
<1>4. AsksFor("bus1", "read_packet", request, "read")
  BY <1>1, <1>2, Asked, EncryptNames DEF DataOK
<1>5. Undisturbed /\ Size' = Size /\ Reported' = Reported
  BY <1>1, <1>4, ThreadNames, FrameKept DEF Undisturbed, AsksFor
<1>6. /\ OthersHome(CardThreads)'
      /\ Passed(Reported, Reported - 1, Reported - 1, Reported - 1)'
      /\ CipherStored'
  BY <1>1, <1>4, <1>5, CardKept1, EncryptNames DEF CardThreads, AsksFor
<1>7. CardReading(r)'
  <2>1. CardRegisters'
    BY <1>1, <1>2, <1>5 DEF CardReading, CardRegisters
  <2>2. Keeps("send_packet")
    BY <1>4, ThreadNames DEF AsksFor
  <2>3. Remaining("bus1")' = BusTime(Length16(Size)) /\ BusTime(Length16(Size)) > 0
    BY <1>3, <1>4, SizeOK, Durations DEF AsksFor
  <2>4. \/ Resumes("send_packet", "idle")' /\ Remaining("bus1")' > 0
        \/ AtHome("send_packet")'
    BY <1>2, <2>2, <2>3 DEF CardReading, Keeps, Resumes, IsReady, Ready, AtHome
  <2>5. Asking("bus1", "read_packet", Read("mem", CipherBlock(Reported - 1), Length16(Size)))'
    BY <1>3, <1>4, <1>5 DEF AsksFor, Asking, Resumes, IsReady
  <2>6. r = Remaining("bus1")' + TransmitOn(Size')
    BY <1>2, <1>5, <2>3 DEF PacketReadOn
  <2>7. pc'["read_packet"] = "read"
    BY <1>4 DEF AsksFor
  <2> QED
    BY <2>1, <2>4, <2>5, <2>6, <2>7 DEF CardReading
<1> QED
  BY <1>1, <1>5, <1>6, <1>7 DEF Advances, Working, InCard, CardThreads

LEMMA CardMemoryAdvances ==
  ASSUME ControlOK, DataOK, NEW r, InCard(r), MemDataTransfer("bus1")
  PROVE  Advances(r)
<1>1. /\ CardReading(r) /\ AtHome("send_packet") /\ pc["read_packet"] = "read"
      /\ Asking("bus1", "read_packet", Read("mem", CipherBlock(Reported - 1), Length16(Size)))
      /\ r = TransmitOn(Size)
  <2>1. Moved("bus1", "mem")
    BY DEF MemDataTransfer
  <2> QED
    BY <2>1, CardServes
<1>2. /\ result' = [result EXCEPT !["read_packet"] =
                      Prefix(mem["bus1"][CipherBlock(Reported - 1)], Length16(Size))]
      /\ Finish("bus1", {})
      /\ enc' = enc /\ mem' = mem /\ up' = up /\ nic' = nic
      /\ network_frame' = network_frame /\ mem_num' = mem_num
  <2>1. /\ Head(queue["bus1"]).req = Read("mem", CipherBlock(Reported - 1), Length16(Size))
        /\ Head(queue["bus1"]).by = "read_packet"
    BY <1>1, Served
  <2>2. /\ Head(queue["bus1"]).req.rdnwr
        /\ Head(queue["bus1"]).req.addr = CipherBlock(Reported - 1)
        /\ Head(queue["bus1"]).req.len = Length16(Size)
    BY <2>1, RequestKinds, EncryptNames
  <2> QED
    BY <2>1, <2>2 DEF MemDataTransfer, Returns
<1>3. /\ queue'["bus2"] = queue["bus2"] /\ BusFree("bus1")'
      /\ pc'["read_packet"] = "read" /\ wait'["read_packet"] = Ready
      /\ \A p \in Threads \ {"bus1", "read_packet"} : Keeps(p)
  <2>1. Answered("bus1", "read_packet", {})
    BY <1>1, <1>2, Answering, EncryptNames
  <2> QED
    BY <1>1, <2>1, EncryptNames DEF Answered, Keeps
<1>4. Undisturbed /\ Size' = Size /\ Reported' = Reported /\ Passing("cipher")' = Passing("cipher")
  BY <1>2, <1>3, ThreadNames, FrameKept DEF Undisturbed
<1>5. /\ OthersHome(CardThreads)'
      /\ Passed(Reported, Reported - 1, Reported - 1, Reported - 1)'
      /\ CipherStored'
  BY <1>2, <1>3, <1>4, CardKept1 DEF CardThreads
<1>6. CardRead(r)'
  <2>1. CardRegisters' /\ AtHome("send_packet")'
    BY <1>1, <1>2, <1>3, <1>4, ThreadNames DEF CardReading, CardRegisters, AtHome, Keeps
  <2>2. Passing("cipher").len = Length16(Size)
    BY DEF Passing
  <2>3. Prefix(mem["bus1"][CipherBlock(Reported - 1)], Length16(Size)) = Passing("cipher")
    BY <2>2 DEF InCard, CipherStored, Prefix
  <2>4. result'["read_packet"] = Passing("cipher")'
    BY <1>2, <1>4, <2>3 DEF DataOK, ContentsOK, Sender
  <2> QED
    BY <1>1, <1>3, <1>4, <2>1, <2>4 DEF CardRead, Resumes, IsReady
<1> QED
  BY <1>2, <1>4, <1>5, <1>6 DEF Advances, Working, InCard, CardThreads

LEMMA PacketReadAdvances ==
  ASSUME ControlOK, DataOK, NEW r, InCard(r), PacketRead
  PROVE  /\ Advances(r) /\ wait["send_frame"].event = "send_event"
<1>1. /\ Resumes("read_packet", "read")
      /\ nic' = [nic EXCEPT !.packet_data = result["read_packet"]]
      /\ Suspend("read_packet", "descriptor", On("read_event"), {"send_event"})
      /\ queue' = queue /\ result' = result /\ mem' = mem /\ enc' = enc /\ up' = up
      /\ network_frame' = network_frame /\ mem_num' = mem_num
  BY DEF PacketRead
<1>2. /\ CardRegisters /\ AtHome("send_packet") /\ BusFree("bus1")
      /\ result["read_packet"] = Passing("cipher") /\ r = TransmitOn(Size)
  BY <1>1, CardStages
<1>3. /\ OthersHome(CardThreads) /\ AtHome("send_frame")
      /\ Passed(Reported, Reported - 1, Reported - 1, Reported - 1)
  BY ThreadNames DEF InCard, CardThreads, OthersHome
<1>4. /\ pc'["read_packet"] = "descriptor" /\ wait'["read_packet"] = On("read_event")
      /\ pc'["send_frame"] = "packet" /\ wait'["send_frame"] = Ready
      /\ wait["send_frame"].event = "send_event"
      /\ \A p \in Threads \ {"read_packet", "send_frame"} : Keeps(p)
  <2>1. /\ pc'["read_packet"] = "descriptor" /\ wait'["read_packet"] = On("read_event")
        /\ Others("read_packet", {"send_event"})
    BY <1>1, Suspended, EncryptNames
  <2>2. pc["send_frame"] = "packet" /\ wait["send_frame"].event = "send_event"
    BY <1>3 DEF AtHome, Home, HomeEvent, On
  <2>3. ASSUME NEW p \in Threads \ {"read_packet", "send_frame"} PROVE wait[p].event # "send_event"
    BY Listener
  <2> QED
    BY <2>1, <2>2, <2>3, ThreadNames DEF Others, Keeps
<1>5. Undisturbed /\ Size' = Size /\ Reported' = Reported /\ Passing("cipher")' = Passing("cipher")
  BY <1>1, <1>4, ThreadNames, FrameKept DEF Undisturbed
<1>6. OthersHome({"send_frame"})'
  <2>1. AtHome("read_packet")'
    BY <1>4 DEF AtHome, Home, HomeEvent
  <2>2. \A p \in (Threads \ {"read_file"}) \ {"send_frame", "read_packet"} : AtHome(p)
    BY <1>2, <1>3 DEF OthersHome, CardThreads, BusFree
  <2>3. \A p \in (Threads \ {"read_file"}) \ {"send_frame", "read_packet"} : AtHome(p)'
    BY <1>4, <2>2 DEF AtHome, Keeps
  <2>4. \A b \in Buses : queue'[b] = <<>>
    BY <1>1, <1>2, <1>3, ThreadNames DEF BusFree, OthersHome, CardThreads
  <2> QED
    BY <2>1, <2>3, <2>4 DEF OthersHome
<1>7. Passed(Reported, Reported - 1, Reported - 1, Reported - 1)'
  BY <1>1, <1>3, <1>5 DEF Passed, Delivered
<1>8. nic'.packet_data = Passing("cipher")' /\ nic'.packet_length = Length16(Size')
  BY <1>1, <1>2, <1>5 DEF CardRegisters, DataOK, RegistersOK
<1> QED
  BY <1>1, <1>2, <1>4, <1>5, <1>6, <1>7, <1>8 DEF Advances, Working, InNetwork, Resumes, IsReady

-----------------------------------------------------------------------------
(* The network, and the receiver's card. *)

LEMMA SendFrameAdvances ==
  ASSUME ControlOK, DataOK, NEW r, InNetwork(r), SendFrame
  PROVE  Advances(r)
<1>1. /\ Resumes("send_frame", "packet")
      /\ network_frame' = Prefix(nic.packet_data, nic.packet_length)
      /\ Suspend("send_frame", "transmitted", For(TransmitTime(nic.packet_length)), {})
      /\ queue' = queue /\ mem' = mem /\ enc' = enc /\ up' = up /\ mem_num' = mem_num
  BY DEF SendFrame
<1>2. /\ nic.packet_data = Passing("cipher") /\ nic.packet_length = Length16(Size)
      /\ r = TransmitOn(Size)
  BY <1>1 DEF InNetwork, Resumes
<1>3. OthersHome({"send_frame"}) /\ Passed(Reported, Reported - 1, Reported - 1, Reported - 1)
  BY DEF InNetwork
<1>4. /\ pc'["send_frame"] = "transmitted"
      /\ wait'["send_frame"] = For(TransmitTime(nic.packet_length))
      /\ \A p \in Threads \ {"send_frame"} : Keeps(p)
  BY <1>1, Alone, ThreadNames
<1>5. Undisturbed /\ Size' = Size /\ Reported' = Reported /\ Passing("cipher")' = Passing("cipher")
  BY <1>1, <1>4, ThreadNames, FrameKept DEF Undisturbed
<1>6. OthersHome({"send_frame"})'
  BY <1>1, <1>3, <1>4, HomeStays
<1>7. Passed(Reported, Reported - 1, Reported - 1, Reported - 1)'
  BY <1>1, <1>3, <1>5 DEF Passed, Delivered
<1>8. network_frame' = Passing("cipher") /\ network_frame'.form = "cipher"
  BY <1>1, <1>2 DEF Passing, Prefix
<1>9. r = wait'["send_frame"].time + ReceiveOn(Size') /\ wait'["send_frame"].event = NoEvent
  BY <1>2, <1>4, <1>5 DEF TransmitOn, For
<1> QED
  BY <1>1, <1>4, <1>5, <1>6, <1>7, <1>8, <1>9 DEF Advances, Working, InNetwork

LEMMA FrameSentAdvances ==
  ASSUME ControlOK, DataOK, NEW r, InNetwork(r), FrameSent
  PROVE  Advances(r) /\ wait["receive_frame"].event = "receive_event"
<1>1. /\ Resumes("send_frame", "transmitted")
      /\ Suspend("send_frame", "packet", On("send_event"), {"receive_event"})
      /\ queue' = queue /\ mem' = mem /\ enc' = enc /\ up' = up /\ mem_num' = mem_num
      /\ network_frame' = network_frame
  BY DEF FrameSent
<1>2. /\ network_frame = Passing("cipher")
      /\ r = wait["send_frame"].time + ReceiveOn(Size)
  BY <1>1 DEF InNetwork, Resumes
<1>3. /\ OthersHome({"send_frame"}) /\ AtHome("receive_frame") /\ BusFree("bus2")
      /\ Passed(Reported, Reported - 1, Reported - 1, Reported - 1)
  BY ThreadNames DEF InNetwork, OthersHome, BusFree
<1>4. r = ReceiveOn(Size)
  <2>1. wait["send_frame"].time = 0
    BY <1>1 DEF Resumes, IsReady, Ready
  <2> QED
    BY <1>2, <2>1, SizeOK
<1>5. /\ pc'["send_frame"] = "packet" /\ wait'["send_frame"] = On("send_event")
      /\ pc'["receive_frame"] = "frame" /\ wait'["receive_frame"] = Ready
      /\ wait["receive_frame"].event = "receive_event"
      /\ \A p \in Threads \ {"send_frame", "receive_frame"} : Keeps(p)
  <2>1. /\ pc'["send_frame"] = "packet" /\ wait'["send_frame"] = On("send_event")
        /\ Others("send_frame", {"receive_event"})
    BY <1>1, Suspended, ThreadNames
  <2>2. pc["receive_frame"] = "frame" /\ wait["receive_frame"].event = "receive_event"
    BY <1>3 DEF AtHome, Home, HomeEvent, On
  <2>3. ASSUME NEW p \in Threads \ {"send_frame", "receive_frame"}
        PROVE  wait[p].event # "receive_event"
    BY Listener
  <2> QED
    BY <2>1, <2>2, <2>3, ThreadNames DEF Others, Keeps
<1>6. Undisturbed /\ Size' = Size /\ Reported' = Reported /\ Passing("cipher")' = Passing("cipher")
  BY <1>1, <1>5, ThreadNames, FrameKept DEF Undisturbed
<1>7. OthersHome({"receive_frame", "bus2"})'
  <2>1. AtHome("send_frame")'
    BY <1>5 DEF AtHome, Home, HomeEvent
  <2>2. \A p \in (Threads \ {"read_file"}) \ {"send_frame", "receive_frame"} : AtHome(p)'
    BY <1>3, <1>5 DEF OthersHome, AtHome, Keeps
  <2>3. \A b \in Buses : queue'[b] = <<>>
    BY <1>1, <1>3, ThreadNames DEF OthersHome
  <2> QED
    BY <2>1, <2>2, <2>3 DEF OthersHome
<1>8. Passed(Reported, Reported - 1, Reported - 1, Reported - 1)'
  BY <1>1, <1>3, <1>6 DEF Passed, Delivered
<1>9. BusFree("bus2")'
  BY <1>1, <1>3, <1>5, BusStaysFree, ThreadNames
<1> QED
  BY <1>1, <1>2, <1>4, <1>5, <1>6, <1>7, <1>8, <1>9
     DEF Advances, Working, InReceiver, Resumes, IsReady

-----------------------------------------------------------------------------
ReceiverThreads == {"receive_frame", "bus2"}
LEMMA ReceiverKept ==
  ASSUME NEW r, InReceiver(r), Undisturbed, \A p \in Threads \ ReceiverThreads : Keeps(p),
         queue'["bus1"] = queue["bus1"], up' = up, mem_num' = mem_num,
         mem'["bus2"][3] = mem["bus2"][3], network_frame' = network_frame
  PROVE  /\ OthersHome(ReceiverThreads)'
         /\ Passed(Reported, Reported - 1, Reported - 1, Reported - 1)'
         /\ network_frame' = Passing("cipher")'
<1>1. /\ OthersHome(ReceiverThreads)
      /\ Passed(Reported, Reported - 1, Reported - 1, Reported - 1)
      /\ network_frame = Passing("cipher")
  BY DEF InReceiver, ReceiverThreads
<1>2. \A b \in Buses \ ReceiverThreads : queue'[b] = queue[b]
  BY ThreadNames DEF ReceiverThreads
<1>3. OthersHome(ReceiverThreads)'
  BY <1>1, <1>2, HomeStays
<1>4. Reported' = Reported /\ Size' = Size /\ Passing("cipher")' = Passing("cipher")
  BY FrameKept
<1> QED
  BY <1>1, <1>3, <1>4 DEF Passed, Delivered

\* The two ways to leave the receiver's card for its bus, and back.
LEMMA ReceiverStages ==
  ASSUME ControlOK, NEW r, InReceiver(r)
  PROVE  /\ Resumes("receive_frame", "frame") => BusFree("bus2") /\ r = ReceiveOn(Size)
         /\ Resumes("receive_frame", "written") =>
              BusFree("bus2") /\ Received /\ r = PacketLengthOn(Size)
         /\ ~BusFree("bus2") =>
              /\ pc["receive_frame"] = "written"
              /\ Asking("bus2", "receive_frame",
                   Write("mem", (Reported - 1) % 2, Length16(Size), Passing("cipher")))
              /\ r = Remaining("bus2") + PacketLengthOn(Size)
<1>1. /\ \A e : On(e) = Ready => e = "none"
      /\ "none" # "receive_frame"
  BY DEF On, Ready, NoEvent
<1> QED
  BY <1>1 DEF InReceiver, Resumes, IsReady, Asking

LEMMA DecryptNames ==
  /\ Aes["bus2"] = "aesDecrypt" /\ AesEvent["bus2"] = "decrypt_event"
  /\ AesDoneEvent["bus2"] = "decrypt_done"
  /\ {"receive_frame", "decrypt_packet", "aesDecrypt"} \subseteq Threads \ Buses
  /\ "bus2" \in Buses /\ "bus2" \in Threads /\ "bus1" \in Buses /\ "bus2" # "bus1"
  /\ Read("nic", 0, 1).len = 1
  /\ \A s, a, l, d : Write(s, a, l, d).len = l /\ Read(s, a, l).len = l
  BY DEF Aes, AesEvent, AesDoneEvent, Threads, Buses, Sender, Receiver, Read, Write

LEMMA ReceiveFrameAdvances ==
  ASSUME ControlOK, DataOK, NEW r, InReceiver(r), ReceiveFrame
  PROVE  Advances(r)
<1> DEFINE request == Write("mem", mem_num["receive_frame"], network_frame.len, network_frame)
<1>1. /\ Resumes("receive_frame", "frame")
      /\ Transfer("receive_frame", "bus2", request, "written", {})
      /\ mem' = mem /\ enc' = enc /\ up' = up
      /\ network_frame' = network_frame /\ mem_num' = mem_num
  BY DEF ReceiveFrame
<1>2. BusFree("bus2") /\ r = ReceiveOn(Size)
  BY <1>1, ReceiverStages
<1>3. /\ request = Write("mem", (Reported - 1) % 2, Length16(Size), Passing("cipher"))
      /\ request.len = Length16(Size)
  BY DecryptNames DEF InReceiver, Passed, Passing
<1> HIDE DEF request
<1>4. AsksFor("bus2", "receive_frame", request, "written")
  BY <1>1, <1>2, Asked, DecryptNames DEF DataOK
<1>5. Undisturbed /\ Size' = Size /\ Reported' = Reported /\ Passing("cipher")' = Passing("cipher")
  BY <1>1, <1>4, ThreadNames, FrameKept DEF Undisturbed, AsksFor
<1>6. /\ OthersHome(ReceiverThreads)'
      /\ Passed(Reported, Reported - 1, Reported - 1, Reported - 1)'
      /\ network_frame' = Passing("cipher")'
  BY <1>1, <1>4, <1>5, ReceiverKept, DecryptNames DEF ReceiverThreads, AsksFor
<1>7. Asking("bus2", "receive_frame",
             Write("mem", (Reported - 1) % 2, Length16(Size), Passing("cipher")))'
  BY <1>3, <1>4, <1>5 DEF AsksFor, Asking, Resumes, IsReady
<1>8. r = Remaining("bus2")' + PacketLengthOn(Size') /\ pc'["receive_frame"] = "written"
  BY <1>2, <1>3, <1>4, <1>5 DEF AsksFor, ReceiveOn
<1> QED
  BY <1>1, <1>5, <1>6, <1>7, <1>8 DEF Advances, Working, InReceiver, ReceiverThreads

LEMMA ReceiverMemoryAdvances ==
  ASSUME ControlOK, DataOK, NEW r, InReceiver(r), Bus("bus2"), ~Begin("bus2")
  PROVE  Advances(r)
<1> DEFINE request == Write("mem", (Reported - 1) % 2, Length16(Size), Passing("cipher"))
<1>1. Resumes("bus2", "moving")
  BY DEF Bus, MemDataTransfer, Encode, Cryptography, WaitForBufferDescriptor, ConnectionRequest,
     BufferDescriptor, DataLength, Moved
<1>2. /\ pc["receive_frame"] = "written" /\ Asking("bus2", "receive_frame", request)
      /\ r = PacketLengthOn(Size)
  <2>1. ~BusFree("bus2") /\ Remaining("bus2") = 0
    BY <1>1 DEF Resumes, IsReady, Ready, BusFree, AtHome, Home, Remaining
  <2>2. 0 + PacketLengthOn(Size) = PacketLengthOn(Size)
    BY SizeOK
  <2> QED
    BY <2>1, <2>2, ReceiverStages
<1>3. /\ ~Head(queue["bus2"]).req.rdnwr /\ Head(queue["bus2"]).req.slave = "mem"
      /\ Head(queue["bus2"]).req.addr = (Reported - 1) % 2
      /\ Head(queue["bus2"]).req.data = Passing("cipher")
  <2>1. Head(queue["bus2"]).req = request
    BY <1>2, Served
  <2> QED
    BY <2>1, RequestKinds
<1>4. MemDataTransfer("bus2")
  BY <1>3 DEF Bus, Encode, Cryptography, WaitForBufferDescriptor, ConnectionRequest,
     BufferDescriptor, DataLength, Moved
<1>5. /\ mem' = [mem EXCEPT !["bus2"][(Reported - 1) % 2] = Passing("cipher")]
      /\ Finish("bus2", {})
      /\ enc' = enc /\ up' = up /\ network_frame' = network_frame /\ mem_num' = mem_num
  BY <1>3, <1>4 DEF MemDataTransfer
<1>6. /\ queue'["bus1"] = queue["bus1"] /\ BusFree("bus2")'
      /\ pc'["receive_frame"] = "written" /\ wait'["receive_frame"] = Ready
      /\ \A p \in Threads \ ReceiverThreads : Keeps(p)
  <2>1. Answered("bus2", "receive_frame", {})
    BY <1>2, <1>5, Answering, DecryptNames
  <2> QED
    BY <1>2, <2>1, DecryptNames DEF Answered, Keeps, ReceiverThreads
<1>7. Undisturbed /\ Size' = Size /\ Reported' = Reported /\ Passing("cipher")' = Passing("cipher")
  BY <1>5, <1>6, ThreadNames, FrameKept DEF Undisturbed, ReceiverThreads
<1>8. /\ mem'["bus1"] = mem["bus1"] /\ mem'["bus2"][2] = mem["bus2"][2]
      /\ mem'["bus2"][3] = mem["bus2"][3]
      /\ mem'["bus2"][(Reported - 1) % 2] = Passing("cipher")
  <2>1. (Reported - 1) % 2 \in {0, 1}
    <3>1. Reported \in Nat
      BY DEF DataOK, RegistersOK, Reported
    <3> QED
      BY <3>1
  <2>2. mem \in [Buses -> [Blocks -> Content]] /\ {0, 1, 2, 3} \subseteq Blocks
    BY BlockNumbers DEF DataOK, ContentsOK
  <2> HIDE DEF request
  <2> QED
    BY <1>5, <2>1, <2>2, ThreadNames
<1>9. /\ OthersHome(ReceiverThreads)'
      /\ Passed(Reported, Reported - 1, Reported - 1, Reported - 1)'
      /\ network_frame' = Passing("cipher")'
  BY <1>5, <1>6, <1>7, <1>8, ReceiverKept
<1>10. Received'
  BY <1>7, <1>8 DEF Received
<1> QED
  BY <1>2, <1>5, <1>6, <1>7, <1>8, <1>9, <1>10
     DEF Advances, Working, InReceiver, ReceiverThreads, Resumes, IsReady

LEMMA FrameReceivedAdvances ==
  ASSUME ControlOK, DataOK, NEW r, InReceiver(r), FrameReceived
  PROVE  Advances(r) /\ wait["decrypt_packet"].event = "packet_received"
<1>1. /\ Resumes("receive_frame", "written")
      /\ mem_num' = [mem_num EXCEPT !["receive_frame"] = 1 - @]
      /\ Suspend("receive_frame", "frame", On("receive_event"), {"packet_received"})
      /\ queue' = queue /\ mem' = mem /\ enc' = enc /\ up' = up
      /\ network_frame' = network_frame
  BY DEF FrameReceived
<1>2. BusFree("bus2") /\ Received /\ r = PacketLengthOn(Size)
  BY <1>1, ReceiverStages
<1>3. /\ OthersHome(ReceiverThreads) /\ AtHome("decrypt_packet") /\ AtHome("aesDecrypt")
      /\ Passed(Reported, Reported - 1, Reported - 1, Reported - 1)
      /\ network_frame = Passing("cipher")
  BY ThreadNames DEF InReceiver, OthersHome, ReceiverThreads
<1>4. /\ pc'["receive_frame"] = "frame" /\ wait'["receive_frame"] = On("receive_event")
      /\ pc'["decrypt_packet"] = "packet" /\ wait'["decrypt_packet"] = Ready
      /\ wait["decrypt_packet"].event = "packet_received"
      /\ \A p \in Threads \ {"receive_frame", "decrypt_packet"} : Keeps(p)
  <2>1. /\ pc'["receive_frame"] = "frame" /\ wait'["receive_frame"] = On("receive_event")
        /\ Others("receive_frame", {"packet_received"})
    BY <1>1, Suspended, DecryptNames
  <2>2. pc["decrypt_packet"] = "packet" /\ wait["decrypt_packet"].event = "packet_received"
    BY <1>3 DEF AtHome, Home, HomeEvent, On
  <2>3. ASSUME NEW p \in Threads \ {"receive_frame", "decrypt_packet"}
        PROVE  wait[p].event # "packet_received"
    BY Listener
  <2> QED
    BY <2>1, <2>2, <2>3, ThreadNames DEF Others, Keeps
<1>5. Undisturbed /\ Size' = Size /\ Reported' = Reported /\ Passing("cipher")' = Passing("cipher")
  BY <1>1, <1>4, ThreadNames, FrameKept DEF Undisturbed
<1>6. OthersHome({"decrypt_packet", "aesDecrypt", "bus2"})'
  <2>1. AtHome("receive_frame")' /\ "receive_frame" \notin Buses
    BY <1>4, ThreadNames DEF AtHome, Home, HomeEvent
  <2>2. \A p \in (Threads \ {"read_file"}) \ {"receive_frame", "decrypt_packet", "bus2"} : AtHome(p)'
    BY <1>3, <1>4 DEF OthersHome, AtHome, Keeps, ReceiverThreads
  <2>3. queue'["bus1"] = <<>>
    BY <1>1, <1>3, ThreadNames DEF OthersHome, ReceiverThreads
  <2> QED
    BY <2>1, <2>2, <2>3, ThreadNames DEF OthersHome
<1>7. Passed(Reported, Reported, Reported - 1, Reported - 1)'
  <2>1. Reported \in Nat
    BY DEF DataOK, RegistersOK, Reported
  <2>2. mem_num'["receive_frame"] = 1 - ((Reported - 1) % 2)
    BY <1>1, <1>3 DEF Passed, DataOK, RegistersOK
  <2>3. 1 - ((Reported - 1) % 2) = Reported % 2
    BY <2>1
  <2>4. mem_num'["decrypt_packet"] = mem_num["decrypt_packet"]
    BY <1>1 DEF DataOK, RegistersOK
  <2> QED
    BY <1>1, <1>3, <1>5, <2>2, <2>3, <2>4 DEF Passed, Delivered
<1>8. BusFree("bus2")'
  BY <1>1, <1>2, <1>4, BusStaysFree, ThreadNames
<1>9. AtHome("aesDecrypt")'
  BY <1>3, <1>4, ThreadNames DEF AtHome, Keeps
<1>10. Received' /\ network_frame' = Passing("cipher")'
  BY <1>1, <1>2, <1>3, <1>5 DEF Received
<1>11. Commanding2(r)'
  BY <1>2, <1>4, <1>5, <1>7, <1>8, <1>9 DEF Commanding2, Resumes, IsReady
<1> QED
  BY <1>1, <1>4, <1>5, <1>6, <1>10, <1>11 DEF Advances, Working, InCrypto2

-----------------------------------------------------------------------------
(* The receiver's processor and its crypto unit. *)

LEMMA PassedStays ==
  ASSUME Undisturbed, up' = up, mem_num' = mem_num, mem'["bus2"][3] = mem["bus2"][3]
  PROVE  /\ Passed(Reported, Reported, Reported - 1, Reported - 1) =>
              Passed(Reported, Reported, Reported - 1, Reported - 1)'
         /\ Passed(Reported, Reported, Reported, Reported - 1) =>
              Passed(Reported, Reported, Reported, Reported - 1)'
         /\ Passed(Reported, Reported, Reported, Reported) =>
              Passed(Reported, Reported, Reported, Reported)'
<1>1. Reported' = Reported
  BY FrameKept
<1> QED
  BY <1>1 DEF Passed, Delivered

Crypto2Threads == {"decrypt_packet", "aesDecrypt", "bus2"}
LEMMA Crypto2Kept ==
  ASSUME NEW r, InCrypto2(r), Undisturbed, \A p \in Threads \ Crypto2Threads : Keeps(p),
         queue'["bus1"] = queue["bus1"], network_frame' = network_frame,
         mem'["bus2"][(Reported - 1) % 2] = mem["bus2"][(Reported - 1) % 2]
  PROVE  /\ OthersHome(Crypto2Threads)'
         /\ network_frame' = Passing("cipher")'
         /\ Received'
<1>1. OthersHome(Crypto2Threads) /\ network_frame = Passing("cipher") /\ Received
  BY DEF InCrypto2, Crypto2Threads
<1>2. \A b \in Buses \ Crypto2Threads : queue'[b] = queue[b]
  BY ThreadNames DEF Crypto2Threads
<1>3. OthersHome(Crypto2Threads)'
  BY <1>1, <1>2, HomeStays
<1>4. Reported' = Reported /\ Size' = Size /\ Passing("cipher")' = Passing("cipher")
  BY FrameKept
<1> QED
  BY <1>1, <1>3, <1>4 DEF Received

LEMMA Crypto2Stages ==
  ASSUME ControlOK, NEW r, InCrypto2(r)
  PROVE  /\ Resumes("decrypt_packet", "packet") =>
              /\ AtHome("aesDecrypt") /\ BusFree("bus2") /\ r = PacketLengthOn(Size)
              /\ Passed(Reported, Reported, Reported - 1, Reported - 1)
         /\ Resumes("decrypt_packet", "length") =>
              /\ AtHome("aesDecrypt") /\ BusFree("bus2")
              /\ result["decrypt_packet"].len = Length16(Size)
              /\ r = DecryptCommandOn(Size)
              /\ Passed(Reported, Reported, Reported - 1, Reported - 1)
         /\ Resumes("decrypt_packet", "decrypting") => Fetching2(r)
         /\ Resumes("decrypt_packet", "decrypted") => Decrypted(r)
         /\ Resumes("aesDecrypt", "command") =>
              Fetching2(r) /\ BusFree("bus2") /\ r = CipherReadOn(Size)
         /\ Resumes("aesDecrypt", "read") =>
              /\ Decrypting(r) /\ BusFree("bus2") /\ CipherIn(result["aesDecrypt"])
              /\ r = DecryptOn(Size) /\ Passed(Reported, Reported, Reported, Reported - 1)
         /\ Resumes("aesDecrypt", "crypted") =>
              /\ Decrypting(r) /\ BusFree("bus2") /\ crypto["bus2"].bufferInt = Passing("raw")
              /\ r = wait["aesDecrypt"].time + ClearWriteOn(Size)
              /\ Passed(Reported, Reported, Reported, Reported - 1)
         /\ Resumes("aesDecrypt", "written") =>
              /\ Decrypting(r) /\ BusFree("bus2") /\ r = 0
              /\ Passed(Reported, Reported, Reported, Reported)
<1>1. Commanding2(r) \/ Fetching2(r) \/ Decrypting(r) \/ Decrypted(r)
  BY DEF InCrypto2
<1>2. /\ \A e : On(e) = Ready => e = "none"
      /\ "none" \notin {"aesDecrypt", "decrypt_packet", "decrypt_event", "decrypt_done", "bus2"}
  BY DEF On, Ready, NoEvent
<1>3. CASE Commanding2(r)
  BY <1>2, <1>3 DEF Commanding2, Resumes, IsReady, AtHome, Home, HomeEvent, Asking
<1>4. CASE Fetching2(r)
  BY <1>2, <1>4 DEF Fetching2, Resumes, IsReady, Asking
<1>5. CASE Decrypting(r)
  BY <1>2, <1>5 DEF Decrypting, Resumes, IsReady, Asking
<1>6. CASE Decrypted(r)
  BY <1>2, <1>6 DEF Decrypted, Resumes, IsReady, AtHome, Home, HomeEvent
<1> QED
  BY <1>1, <1>3, <1>4, <1>5, <1>6

\* Whose request is on the receiver's bus.
LEMMA Crypto2Moves ==
  ASSUME ControlOK, DataOK, NEW r, InCrypto2(r), Resumes("bus2", "moving")
  PROVE  \/ /\ Passed(Reported, Reported, Reported - 1, Reported - 1)
            /\ AtHome("aesDecrypt") /\ pc["decrypt_packet"] = "length"
            /\ Asking("bus2", "decrypt_packet", Read("nic", 0, 1))
            /\ r = DecryptCommandOn(Size)
         \/ /\ Passed(Reported, Reported, Reported, Reported - 1)
            /\ AtHome("aesDecrypt") /\ pc["decrypt_packet"] = "decrypting"
            /\ Asking("bus2", "decrypt_packet", Write("crypto", 0, 4, DecryptCommand))
            /\ r = CipherReadOn(Size)
         \/ /\ Fetching2(r) /\ pc["aesDecrypt"] = "read"
            /\ pc["decrypt_packet"] = "decrypted" /\ wait["decrypt_packet"] = On("decrypt_done")
            /\ Asking("bus2", "aesDecrypt",
                      Read("mem", ReceivedBlock((Reported - 1) % 2), Length16(Size)))
            /\ r = DecryptOn(Size)
         \/ /\ Decrypting(r) /\ pc["aesDecrypt"] = "written"
            /\ Passed(Reported, Reported, Reported, Reported - 1)
            /\ Asking("bus2", "aesDecrypt",
                 Write("mem", ClearBlock((Reported - 1) % 2), Length16(Size), Passing("raw")))
            /\ r = 0
<1>1. Commanding2(r) \/ Fetching2(r) \/ Decrypting(r) \/ Decrypted(r)
  BY DEF InCrypto2
<1>2. ~BusFree("bus2") /\ Remaining("bus2") = 0 /\ ~(Remaining("bus2") > 0)
  BY DEF Resumes, IsReady, Ready, BusFree, AtHome, Home, Remaining
<1>3. \A x \in {DecryptCommandOn(Size), CipherReadOn(Size), DecryptOn(Size)} : 0 + x = x
  BY SizeOK
<1>4. CASE Commanding2(r)
  BY <1>2, <1>3, <1>4 DEF Commanding2
<1>5. CASE Fetching2(r)
  BY <1>2, <1>3, <1>5 DEF Fetching2
<1>6. CASE Decrypting(r)
  BY <1>2, <1>6 DEF Decrypting
<1>7. CASE Decrypted(r)
  BY <1>2, <1>7 DEF Decrypted
<1> QED
  BY <1>1, <1>4, <1>5, <1>6, <1>7

LEMMA GetPacketLengthAdvances ==
  ASSUME ControlOK, DataOK, NEW r, InCrypto2(r), GetPacketLength
  PROVE  Advances(r)
<1>1. /\ Resumes("decrypt_packet", "packet")
      /\ Transfer("decrypt_packet", "bus2", Read("nic", 0, 1), "length", {})
      /\ mem' = mem /\ enc' = enc /\ up' = up /\ crypto' = crypto
      /\ network_frame' = network_frame /\ mem_num' = mem_num
  BY DEF GetPacketLength
<1>2. /\ AtHome("aesDecrypt") /\ BusFree("bus2") /\ r = PacketLengthOn(Size)
      /\ Passed(Reported, Reported, Reported - 1, Reported - 1)
  BY <1>1, Crypto2Stages
<1>3. AsksFor("bus2", "decrypt_packet", Read("nic", 0, 1), "length")
  BY <1>1, <1>2, Asked, DecryptNames DEF DataOK
<1>4. Undisturbed /\ Size' = Size
  BY <1>1, <1>3, ThreadNames, FrameKept DEF Undisturbed, AsksFor
<1>5. OthersHome(Crypto2Threads)' /\ network_frame' = Passing("cipher")' /\ Received'
  BY <1>1, <1>3, <1>4, Crypto2Kept, DecryptNames DEF Crypto2Threads, AsksFor
<1>6. Commanding2(r)'
  <2>1. AtHome("aesDecrypt")'
    BY <1>2, <1>3, ThreadNames DEF Keeps, AtHome, AsksFor
  <2>2. Asking("bus2", "decrypt_packet", Read("nic", 0, 1))'
    BY <1>3 DEF AsksFor, Asking, Resumes, IsReady, Read, Blank
  <2>3. r = Remaining("bus2")' + DecryptCommandOn(Size')
    BY <1>2, <1>3, <1>4, DecryptNames DEF AsksFor, PacketLengthOn
  <2>4. Passed(Reported, Reported, Reported - 1, Reported - 1)'
    BY <1>1, <1>2, <1>4, PassedStays
  <2> QED
    BY <1>3, <2>1, <2>2, <2>3, <2>4 DEF AsksFor, Commanding2
<1> QED
  BY <1>1, <1>4, <1>5, <1>6 DEF Advances, Working, InCrypto2, Crypto2Threads

LEMMA StartDecryptionAdvances ==
  ASSUME ControlOK, DataOK, NEW r, InCrypto2(r), StartDecryption
  PROVE  Advances(r)
<1> DEFINE n == mem_num["decrypt_packet"]
           command ==
             Write("crypto", 0, 4, [src |-> ReceivedBlock(n), dst |-> ClearBlock(n), encrypt |-> 0,
                                    length |-> result["decrypt_packet"].len])
<1>1. /\ Resumes("decrypt_packet", "length")
      /\ Transfer("decrypt_packet", "bus2", command, "decrypting", {})
      /\ mem_num' = [mem_num EXCEPT !["decrypt_packet"] = 1 - @]
      /\ mem' = mem /\ enc' = enc /\ up' = up /\ crypto' = crypto
      /\ network_frame' = network_frame
  BY DEF StartDecryption
<1>2. /\ AtHome("aesDecrypt") /\ BusFree("bus2")
      /\ result["decrypt_packet"].len = Length16(Size)
      /\ r = DecryptCommandOn(Size)
      /\ Passed(Reported, Reported, Reported - 1, Reported - 1)
  BY <1>1, Crypto2Stages
<1>3. command = Write("crypto", 0, 4, DecryptCommand) /\ command.len = 4
  BY <1>2, DecryptNames DEF DecryptCommand, Passed
<1> HIDE DEF command
<1>4. AsksFor("bus2", "decrypt_packet", command, "decrypting")
  BY <1>1, <1>2, Asked, DecryptNames DEF DataOK
<1>5. Undisturbed /\ Size' = Size /\ Reported' = Reported
  BY <1>1, <1>4, ThreadNames, FrameKept DEF Undisturbed, AsksFor
<1>6. OthersHome(Crypto2Threads)' /\ network_frame' = Passing("cipher")' /\ Received'
  BY <1>1, <1>4, <1>5, Crypto2Kept, DecryptNames DEF Crypto2Threads, AsksFor
<1>7. Passed(Reported, Reported, Reported, Reported - 1)'
  <2>1. Reported \in Nat
    BY DEF DataOK, RegistersOK, Reported
  <2>2. /\ mem_num'["decrypt_packet"] = 1 - ((Reported - 1) % 2)
        /\ mem_num'["receive_frame"] = mem_num["receive_frame"]
    BY <1>1, <1>2 DEF Passed, DataOK, RegistersOK
  <2>3. 1 - ((Reported - 1) % 2) = Reported % 2
    BY <2>1
  <2> QED
    BY <1>1, <1>2, <1>5, <2>2, <2>3 DEF Passed, Delivered
<1>8. Commanding2(r)'
  <2>1. AtHome("aesDecrypt")'
    BY <1>2, <1>4, ThreadNames DEF Keeps, AtHome, AsksFor
  <2>2. DecryptCommand' = DecryptCommand
    BY <1>5 DEF DecryptCommand
  <2>3. Asking("bus2", "decrypt_packet", Write("crypto", 0, 4, DecryptCommand))'
    BY <1>3, <1>4, <2>2 DEF AsksFor, Asking, Resumes, IsReady
  <2>4. r = Remaining("bus2")' + CipherReadOn(Size')
    BY <1>2, <1>3, <1>4, <1>5 DEF AsksFor, DecryptCommandOn
  <2> QED
    BY <1>4, <1>7, <2>1, <2>3, <2>4 DEF AsksFor, Commanding2
<1> QED
  BY <1>1, <1>5, <1>6, <1>8 DEF Advances, Working, InCrypto2, Crypto2Threads

LEMMA AwaitDecryptionAdvances ==
  ASSUME ControlOK, DataOK, NEW r, InCrypto2(r), AwaitDecryption
  PROVE  Advances(r)
<1>1. /\ Resumes("decrypt_packet", "decrypting")
      /\ Suspend("decrypt_packet", "decrypted", On("decrypt_done"), {})
      /\ queue' = queue /\ mem' = mem /\ enc' = enc /\ up' = up
      /\ crypto' = crypto /\ network_frame' = network_frame /\ mem_num' = mem_num
  BY DEF AwaitDecryption
<1>2. Fetching2(r)
  BY <1>1, Crypto2Stages
<1>3. /\ pc'["decrypt_packet"] = "decrypted" /\ wait'["decrypt_packet"] = On("decrypt_done")
      /\ \A p \in Threads \ {"decrypt_packet"} : Keeps(p)
  BY <1>1, Alone, DecryptNames
<1>4. Undisturbed /\ Size' = Size /\ Reported' = Reported
  BY <1>1, <1>3, ThreadNames, FrameKept DEF Undisturbed
<1>5. OthersHome(Crypto2Threads)' /\ network_frame' = Passing("cipher")' /\ Received'
  BY <1>1, <1>3, <1>4, Crypto2Kept DEF Crypto2Threads
<1>6. Fetching2(r)'
  <2>1. DecryptRegisters' /\ Passed(Reported, Reported, Reported, Reported - 1)'
    BY <1>1, <1>2, <1>4, PassedStays DEF Fetching2, DecryptRegisters
  <2>2. Keeps("bus2") /\ Keeps("aesDecrypt")
    BY <1>3, ThreadNames
  <2>3. CASE Resumes("aesDecrypt", "command") /\ BusFree("bus2") /\ r = CipherReadOn(Size)
    <3>1. Resumes("aesDecrypt", "command")' /\ BusFree("bus2")' /\ r = CipherReadOn(Size')
      BY <1>1, <1>4, <2>2, <2>3 DEF Keeps, Resumes, IsReady, BusFree, AtHome, Ready
    <3> QED
      BY <1>3, <2>1, <3>1 DEF Fetching2
  <2>4. CASE /\ pc["aesDecrypt"] = "read"
             /\ Asking("bus2", "aesDecrypt",
                       Read("mem", ReceivedBlock((Reported - 1) % 2), Length16(Size)))
             /\ r = Remaining("bus2") + DecryptOn(Size)
    <3>1. /\ Asking("bus2", "aesDecrypt",
                    Read("mem", ReceivedBlock((Reported - 1) % 2), Length16(Size)))'
          /\ Remaining("bus2")' = Remaining("bus2") /\ pc'["aesDecrypt"] = "read"
      BY <1>1, <1>4, <2>2, <2>4 DEF Keeps, Asking, Resumes, IsReady, Ready, Remaining
    <3> QED
      BY <1>3, <1>4, <2>1, <2>4, <3>1 DEF Fetching2
  <2> QED
    BY <1>2, <2>3, <2>4 DEF Fetching2
<1> QED
  BY <1>1, <1>4, <1>5, <1>6 DEF Advances, Working, InCrypto2, Crypto2Threads

LEMMA AesReadData2Advances ==
  ASSUME ControlOK, DataOK, NEW r, InCrypto2(r), AesReadData("bus2")
  PROVE  Advances(r)
<1> DEFINE request == Read("mem", crypto["bus2"].mem_address_src, crypto["bus2"].length)
<1>1. /\ Resumes("aesDecrypt", "command")
      /\ Transfer("aesDecrypt", "bus2", request, "read", {})
      /\ mem' = mem /\ enc' = enc /\ up' = up
      /\ crypto' = crypto /\ network_frame' = network_frame /\ mem_num' = mem_num
  BY DecryptNames DEF AesReadData
<1>2. Fetching2(r) /\ BusFree("bus2") /\ r = CipherReadOn(Size)
  BY <1>1, Crypto2Stages
<1>3. /\ request = Read("mem", ReceivedBlock((Reported - 1) % 2), Length16(Size))
      /\ request.len = Length16(Size)
  BY <1>2, DecryptNames DEF Fetching2, DecryptRegisters
<1> HIDE DEF request
<1>4. AsksFor("bus2", "aesDecrypt", request, "read")
  BY <1>1, <1>2, Asked, DecryptNames DEF DataOK
<1>5. Undisturbed /\ Size' = Size /\ Reported' = Reported
  BY <1>1, <1>4, ThreadNames, FrameKept DEF Undisturbed, AsksFor
<1>6. OthersHome(Crypto2Threads)' /\ network_frame' = Passing("cipher")' /\ Received'
  BY <1>1, <1>4, <1>5, Crypto2Kept, DecryptNames DEF Crypto2Threads, AsksFor
<1>7. Fetching2(r)'
  <2>1. DecryptRegisters' /\ Passed(Reported, Reported, Reported, Reported - 1)'
    BY <1>1, <1>2, <1>5, PassedStays DEF Fetching2, DecryptRegisters
  <2>2. Keeps("decrypt_packet")
    BY <1>4, ThreadNames DEF AsksFor
  <2>3. Remaining("bus2")' = BusTime(Length16(Size)) /\ BusTime(Length16(Size)) > 0
    BY <1>3, <1>4, SizeOK, Durations DEF AsksFor
  <2>4. \/ Resumes("decrypt_packet", "decrypting")' /\ Remaining("bus2")' > 0
        \/ pc'["decrypt_packet"] = "decrypted" /\ wait'["decrypt_packet"] = On("decrypt_done")
    BY <1>2, <2>2, <2>3 DEF Fetching2, Keeps, Resumes, IsReady, Ready
  <2>5. Asking("bus2", "aesDecrypt",
               Read("mem", ReceivedBlock((Reported - 1) % 2), Length16(Size)))'
    BY <1>3, <1>4, <1>5 DEF AsksFor, Asking, Resumes, IsReady
  <2>6. r = Remaining("bus2")' + DecryptOn(Size')
    BY <1>2, <1>5, <2>3 DEF CipherReadOn
  <2>7. pc'["aesDecrypt"] = "read"
    BY <1>4 DEF AsksFor
  <2> QED
    BY <2>1, <2>4, <2>5, <2>6, <2>7 DEF Fetching2
<1> QED
  BY <1>1, <1>5, <1>6, <1>7 DEF Advances, Working, InCrypto2, Crypto2Threads

LEMMA AesCrypt2Advances ==
  ASSUME ControlOK, DataOK, NEW r, InCrypto2(r), AesCrypt("bus2")
  PROVE  Advances(r)
<1>1. /\ Resumes("aesDecrypt", "read")
      /\ crypto' = [crypto EXCEPT !["bus2"].bufferInt =
                      Crypted(result["aesDecrypt"], "cipher", "raw", crypto["bus2"].length)]
      /\ Suspend("aesDecrypt", "crypted", For(AesTime(crypto["bus2"].length)), {})
      /\ queue' = queue /\ mem' = mem /\ enc' = enc /\ up' = up
      /\ network_frame' = network_frame /\ mem_num' = mem_num
  BY DecryptNames DEF AesCrypt
<1>2. /\ Decrypting(r) /\ BusFree("bus2") /\ CipherIn(result["aesDecrypt"])
      /\ r = DecryptOn(Size) /\ Passed(Reported, Reported, Reported, Reported - 1)
  BY <1>1, Crypto2Stages
<1>3. /\ DecryptRegisters
      /\ pc["decrypt_packet"] = "decrypted" /\ wait["decrypt_packet"] = On("decrypt_done")
  BY <1>2 DEF Decrypting
<1>4. /\ pc'["aesDecrypt"] = "crypted" /\ wait'["aesDecrypt"] = For(AesTime(crypto["bus2"].length))
      /\ \A p \in Threads \ {"aesDecrypt"} : Keeps(p)
  BY <1>1, Alone, DecryptNames
<1>5. Undisturbed /\ Size' = Size /\ Reported' = Reported /\ Passing("raw")' = Passing("raw")
  BY <1>1, <1>4, ThreadNames, FrameKept DEF Undisturbed
<1>6. OthersHome(Crypto2Threads)' /\ network_frame' = Passing("cipher")' /\ Received'
  BY <1>1, <1>4, <1>5, Crypto2Kept DEF Crypto2Threads
<1>7. Decrypting(r)'
  <2>1. DecryptRegisters'
    BY <1>1, <1>3, <1>5 DEF DecryptRegisters, DataOK, RegistersOK, Buses
  <2>2. crypto'["bus2"].bufferInt = Passing("raw")'
    BY <1>1, <1>2, <1>3, <1>5 DEF DecryptRegisters, CipherIn, DataOK, RegistersOK, Buses
  <2>3. /\ wait'["aesDecrypt"].event = NoEvent
        /\ wait'["aesDecrypt"].time = AesTime(Length16(Size))
    BY <1>3, <1>4 DEF DecryptRegisters, For
  <2>4. BusFree("bus2")'
    BY <1>1, <1>2, <1>4, BusStaysFree, ThreadNames
  <2>5. pc'["decrypt_packet"] = "decrypted" /\ wait'["decrypt_packet"] = On("decrypt_done")
    BY <1>3, <1>4, ThreadNames DEF Keeps
  <2>6. r = wait'["aesDecrypt"].time + ClearWriteOn(Size')
    BY <1>2, <1>5, <2>3 DEF DecryptOn
  <2>7. Passed(Reported, Reported, Reported, Reported - 1)'
    BY <1>1, <1>2, <1>5, PassedStays
  <2> QED
    BY <1>4, <2>1, <2>2, <2>3, <2>4, <2>5, <2>6, <2>7 DEF Decrypting
<1> QED
  BY <1>1, <1>5, <1>6, <1>7 DEF Advances, Working, InCrypto2, Crypto2Threads

LEMMA AesWriteData2Advances ==
  ASSUME ControlOK, DataOK, NEW r, InCrypto2(r), AesWriteData("bus2")
  PROVE  Advances(r)
<1> DEFINE request ==
      Write("mem", crypto["bus2"].mem_address_dst, crypto["bus2"].bufferInt.len,
            crypto["bus2"].bufferInt)
<1>1. /\ Resumes("aesDecrypt", "crypted")
      /\ Transfer("aesDecrypt", "bus2", request, "written", {})
      /\ mem' = mem /\ enc' = enc /\ up' = up
      /\ crypto' = crypto /\ network_frame' = network_frame /\ mem_num' = mem_num
  BY DecryptNames DEF AesWriteData
<1>2. /\ Decrypting(r) /\ BusFree("bus2") /\ crypto["bus2"].bufferInt = Passing("raw")
      /\ r = wait["aesDecrypt"].time + ClearWriteOn(Size) /\ wait["aesDecrypt"].time = 0
      /\ Passed(Reported, Reported, Reported, Reported - 1)
  BY <1>1, Crypto2Stages DEF Resumes, IsReady, Ready
<1>3. /\ DecryptRegisters
      /\ pc["decrypt_packet"] = "decrypted" /\ wait["decrypt_packet"] = On("decrypt_done")
  BY <1>2 DEF Decrypting
<1>4. /\ request = Write("mem", ClearBlock((Reported - 1) % 2), Length16(Size), Passing("raw"))
      /\ request.len = Length16(Size)
  BY <1>2, <1>3, DecryptNames DEF DecryptRegisters, Passing
<1> HIDE DEF request
<1>5. AsksFor("bus2", "aesDecrypt", request, "written")
  BY <1>1, <1>2, Asked, DecryptNames DEF DataOK
<1>6. Undisturbed /\ Size' = Size /\ Reported' = Reported /\ Passing("raw")' = Passing("raw")
  BY <1>1, <1>5, ThreadNames, FrameKept DEF Undisturbed, AsksFor
<1>7. OthersHome(Crypto2Threads)' /\ network_frame' = Passing("cipher")' /\ Received'
  BY <1>1, <1>5, <1>6, Crypto2Kept, DecryptNames DEF Crypto2Threads, AsksFor
<1>8. Decrypting(r)'
  <2>1. DecryptRegisters' /\ Passed(Reported, Reported, Reported, Reported - 1)'
    BY <1>1, <1>2, <1>3, <1>6, PassedStays DEF DecryptRegisters
  <2>2. Asking("bus2", "aesDecrypt",
               Write("mem", ClearBlock((Reported - 1) % 2), Length16(Size), Passing("raw")))'
    BY <1>4, <1>5, <1>6 DEF AsksFor, Asking, Resumes, IsReady
  <2>3. r = Remaining("bus2")'
    <3>1. r = ClearWriteOn(Size)
      BY <1>2, SizeOK
    <3> QED
      BY <1>4, <1>5, <3>1 DEF AsksFor, ClearWriteOn
  <2>4. /\ pc'["aesDecrypt"] = "written"
        /\ pc'["decrypt_packet"] = "decrypted" /\ wait'["decrypt_packet"] = On("decrypt_done")
    BY <1>3, <1>5, ThreadNames DEF AsksFor, Keeps
  <2> QED
    BY <2>1, <2>2, <2>3, <2>4 DEF Decrypting
<1> QED
  BY <1>1, <1>6, <1>7, <1>8 DEF Advances, Working, InCrypto2, Crypto2Threads

LEMMA AesDone2Advances ==
  ASSUME ControlOK, DataOK, NEW r, InCrypto2(r), AesDone("bus2")
  PROVE  Advances(r)
<1>1. /\ Resumes("aesDecrypt", "written")
      /\ Suspend("aesDecrypt", "command", On("decrypt_event"), {"decrypt_done"})
      /\ queue' = queue /\ mem' = mem /\ enc' = enc /\ up' = up
      /\ crypto' = crypto /\ network_frame' = network_frame /\ mem_num' = mem_num
  BY DecryptNames DEF AesDone
<1>2. /\ Decrypting(r) /\ BusFree("bus2") /\ r = 0
      /\ Passed(Reported, Reported, Reported, Reported)
  BY <1>1, Crypto2Stages
<1>3. pc["decrypt_packet"] = "decrypted" /\ wait["decrypt_packet"] = On("decrypt_done")
  BY <1>2 DEF Decrypting
<1>4. /\ pc'["aesDecrypt"] = "command" /\ wait'["aesDecrypt"] = On("decrypt_event")
      /\ pc'["decrypt_packet"] = "decrypted" /\ wait'["decrypt_packet"] = Ready
      /\ \A p \in Threads \ {"aesDecrypt", "decrypt_packet"} : Keeps(p)
  <2>1. /\ pc'["aesDecrypt"] = "command" /\ wait'["aesDecrypt"] = On("decrypt_event")
        /\ Others("aesDecrypt", {"decrypt_done"})
    BY <1>1, Suspended, DecryptNames
  <2>2. wait["decrypt_packet"].event = "decrypt_done"
    BY <1>3 DEF On
  <2>3. ASSUME NEW p \in Threads \ {"aesDecrypt", "decrypt_packet"}
        PROVE  wait[p].event # "decrypt_done"
    BY Listener
  <2> QED
    BY <1>3, <2>1, <2>2, <2>3, ThreadNames DEF Others, Keeps
<1>5. Undisturbed
  BY <1>1, <1>4, ThreadNames DEF Undisturbed
<1>6. OthersHome(Crypto2Threads)' /\ network_frame' = Passing("cipher")' /\ Received'
  BY <1>1, <1>4, <1>5, Crypto2Kept DEF Crypto2Threads
<1>7. Decrypted(r)'
  <2>1. AtHome("aesDecrypt")'
    BY <1>4 DEF AtHome, Home, HomeEvent
  <2>2. BusFree("bus2")'
    BY <1>1, <1>2, <1>4, BusStaysFree, ThreadNames
  <2>3. Passed(Reported, Reported, Reported, Reported)'
    BY <1>1, <1>2, <1>5, PassedStays
  <2> QED
    BY <1>2, <1>4, <2>1, <2>2, <2>3 DEF Decrypted, Resumes, IsReady
<1> QED
  BY <1>1, <1>5, <1>6, <1>7 DEF Advances, Working, InCrypto2, Crypto2Threads

\* Only one disjunct of Bus(b) is about the slave that is asked.
LEMMA BusServes ==
  ASSUME NEW CONSTANT b \in Buses, Bus(b), ~Begin(b)
  PROVE  /\ Resumes(b, "moving")
         /\ Head(queue[b]).req.slave = "mem" => MemDataTransfer(b)
         /\ Head(queue[b]).req.slave = "crypto" => Cryptography(b)
         /\ Head(queue[b]).req.slave = "encoder" => Encode(b)
         /\ Head(queue[b]).req.slave = "nic" => WaitForBufferDescriptor(b)
         /\ Head(queue[b]).req.slave = "nic" /\ Head(queue[b]).req.len = 1 =>
              IF Head(queue[b]).req.rdnwr THEN DataLength(b) ELSE ConnectionRequest(b)
<1>1. MemDataTransfer(b) => Moved(b, "mem")
  BY Zenon DEF MemDataTransfer
<1>2. Encode(b) => Moved(b, "encoder")
  BY Zenon DEF Encode
<1>3. Cryptography(b) => Moved(b, "crypto")
  BY Zenon DEF Cryptography
<1>4. WaitForBufferDescriptor(b) => Moved(b, "nic")
  BY Zenon DEF WaitForBufferDescriptor, ConnectionRequest, BufferDescriptor, DataLength
<1>5. MemDataTransfer(b) \/ Encode(b) \/ Cryptography(b) \/ WaitForBufferDescriptor(b)
  BY DEF Bus
<1>6. /\ ConnectionRequest(b) => ~Head(queue[b]).req.rdnwr
      /\ BufferDescriptor(b) => Head(queue[b]).req.len = 2
      /\ DataLength(b) => Head(queue[b]).req.rdnwr
  BY Zenon DEF ConnectionRequest, BufferDescriptor, DataLength
<1>7. WaitForBufferDescriptor(b) => ConnectionRequest(b) \/ BufferDescriptor(b) \/ DataLength(b)
  BY DEF WaitForBufferDescriptor
<1> QED
  BY <1>1, <1>2, <1>3, <1>4, <1>5, <1>6, <1>7 DEF Moved

LEMMA PacketLengthAdvances ==
  ASSUME ControlOK, DataOK, NEW r, InCrypto2(r), Bus("bus2"), ~Begin("bus2"),
         Passed(Reported, Reported, Reported - 1, Reported - 1),
         AtHome("aesDecrypt"), pc["decrypt_packet"] = "length",
         Asking("bus2", "decrypt_packet", Read("nic", 0, 1)),
         r = DecryptCommandOn(Size)
  PROVE  Advances(r)
<1>1. /\ result' = [result EXCEPT !["decrypt_packet"] = [Blank EXCEPT !.len = network_frame.len]]
      /\ Finish("bus2", {}) /\ enc' = enc
      /\ mem' = mem /\ up' = up /\ crypto' = crypto
      /\ network_frame' = network_frame /\ mem_num' = mem_num
  <2>1. /\ Head(queue["bus2"]).req = Read("nic", 0, 1)
        /\ Head(queue["bus2"]).by = "decrypt_packet"
    BY Served
  <2>2. /\ Head(queue["bus2"]).req.rdnwr /\ Head(queue["bus2"]).req.slave = "nic"
        /\ Head(queue["bus2"]).req.len = 1
    BY <2>1, RequestKinds, DecryptNames
  <2>3. DataLength("bus2")
    BY <2>2, BusServes, DecryptNames
  <2> QED
    BY <2>1, <2>3 DEF DataLength, Returns
<1>2. Answered("bus2", "decrypt_packet", {})
  BY <1>1, Answering, DecryptNames
<1>3. /\ queue'["bus1"] = queue["bus1"] /\ BusFree("bus2")'
      /\ pc'["decrypt_packet"] = "length" /\ wait'["decrypt_packet"] = Ready
      /\ \A p \in Threads \ {"bus2", "decrypt_packet"} : Keeps(p)
  BY <1>2, DecryptNames DEF Answered, Keeps
<1>4. Undisturbed /\ Size' = Size
  BY <1>1, <1>3, ThreadNames, FrameKept DEF Undisturbed
<1>5. OthersHome(Crypto2Threads)' /\ network_frame' = Passing("cipher")' /\ Received'
  BY <1>1, <1>3, <1>4, Crypto2Kept DEF Crypto2Threads
<1>6. Commanding2(r)'
  <2>1. AtHome("aesDecrypt")'
    BY <1>3, ThreadNames DEF Keeps, AtHome
  <2>2. result'["decrypt_packet"].len = Length16(Size')
    <3>1. network_frame.len = Length16(Size)
      BY DEF InCrypto2, Passing
    <3> QED
      BY <1>1, <1>4, <3>1 DEF Blank, DataOK, ContentsOK, Receiver
  <2>3. Passed(Reported, Reported, Reported - 1, Reported - 1)'
    BY <1>1, <1>4, PassedStays
  <2> QED
    BY <1>3, <1>4, <2>1, <2>2, <2>3 DEF Commanding2, Resumes, IsReady
<1> QED
  BY <1>1, <1>4, <1>5, <1>6 DEF Advances, Working, InCrypto2, Crypto2Threads

LEMMA DecryptCommandAdvances ==
  ASSUME ControlOK, DataOK, NEW r, InCrypto2(r), Bus("bus2"), ~Begin("bus2"),
         Passed(Reported, Reported, Reported, Reported - 1),
         AtHome("aesDecrypt"), pc["decrypt_packet"] = "decrypting",
         Asking("bus2", "decrypt_packet", Write("crypto", 0, 4, DecryptCommand)),
         r = CipherReadOn(Size)
  PROVE  Advances(r)
<1>1. /\ crypto' = [crypto EXCEPT !["bus2"] = [@ EXCEPT !.mem_address_src = DecryptCommand.src,
                                                       !.mem_address_dst = DecryptCommand.dst,
                                                       !.length = DecryptCommand.length]]
      /\ Finish("bus2", {"decrypt_event"})
      /\ enc' = enc /\ mem' = mem /\ up' = up
      /\ network_frame' = network_frame /\ mem_num' = mem_num
  <2>1. Head(queue["bus2"]).req = Write("crypto", 0, 4, DecryptCommand)
    BY Served
  <2>2. /\ Head(queue["bus2"]).req.data = DecryptCommand
        /\ Head(queue["bus2"]).req.slave = "crypto"
    BY <2>1, RequestKinds
  <2>3. DecryptCommand.encrypt # 1
    BY DEF DecryptCommand
  <2>4. Cryptography("bus2")
    BY <2>2, BusServes, DecryptNames
  <2> QED
    BY <2>2, <2>3, <2>4 DEF Cryptography
<1>2. /\ queue'["bus1"] = queue["bus1"] /\ BusFree("bus2")'
      /\ pc'["decrypt_packet"] = "decrypting" /\ wait'["decrypt_packet"] = Ready
      /\ pc'["aesDecrypt"] = "command" /\ wait'["aesDecrypt"] = Ready
      /\ \A p \in Threads \ Crypto2Threads : Keeps(p)
  <2>1. Answered("bus2", "decrypt_packet", {"decrypt_event"})
    BY <1>1, Answering, DecryptNames
  <2>2. /\ pc["aesDecrypt"] = "command" /\ wait["aesDecrypt"].event = "decrypt_event"
        /\ "aesDecrypt" \in Threads \ {"bus2", "decrypt_packet"}
    BY ThreadNames DEF AtHome, Home, HomeEvent, On
  <2>3. \A p \in Threads \ Crypto2Threads : wait[p].event # "decrypt_event"
    BY Listener DEF Crypto2Threads
  <2> QED
    BY <2>1, <2>2, <2>3, DecryptNames DEF Answered, Keeps, Crypto2Threads
<1>3. Undisturbed /\ Size' = Size /\ Reported' = Reported
  BY <1>1, <1>2, ThreadNames, FrameKept DEF Undisturbed, Crypto2Threads
<1>4. OthersHome(Crypto2Threads)' /\ network_frame' = Passing("cipher")' /\ Received'
  BY <1>1, <1>2, <1>3, Crypto2Kept
<1>5. Fetching2(r)'
  <2>1. DecryptRegisters'
    BY <1>1, <1>3 DEF DecryptRegisters, DecryptCommand, DataOK, RegistersOK, Buses
  <2>2. Passed(Reported, Reported, Reported, Reported - 1)'
    BY <1>1, <1>3, PassedStays
  <2> QED
    BY <1>2, <1>3, <2>1, <2>2 DEF Fetching2, Resumes, IsReady
<1> QED
  BY <1>1, <1>3, <1>4, <1>5 DEF Advances, Working, InCrypto2, Crypto2Threads

\* Only odd frames are where the receiver looks for them.
LEMMA CipherFetched ==
  ASSUME DataOK, Lasting, Received
  PROVE  CipherIn(Prefix(mem["bus2"][ReceivedBlock((Reported - 1) % 2)], Length16(Size)))
<1> DEFINE n == Length16(Size)
           c == Prefix(mem["bus2"][ReceivedBlock((Reported - 1) % 2)], n)
<1>1. Reported \in Nat /\ n \in Nat /\ Length16(n) = n
  BY SizeOK, PaddedTwice DEF Lasting
<1> HIDE DEF n
<1>2. CASE Reported % 2 = 1
  <2>1. (Reported - 1) % 2 = 0
    BY <1>1, <1>2
  <2>2. c = [frame |-> Reported, form |-> "cipher", len |-> n]
    BY <1>2, <2>1 DEF Received, ReceivedBlock, Prefix, Passing, n
  <2> HIDE DEF c
  <2>3. c.form = "cipher" /\ c.frame = Reported
    BY <2>2
  <2> QED
    BY <1>1, <1>2, <2>3 DEF CipherIn, Crypted, Passing, c, n
<1>3. CASE Reported % 2 # 1
  <2>1. (Reported - 1) % 2 # 0
    BY <1>1, <1>3
  <2>2. c.form # "cipher"
    BY <1>1, <2>1 DEF Lasting, ReceivedBlock, Prefix, Blank
  <2> HIDE DEF c
  <2> QED
    BY <1>1, <1>3, <2>2 DEF CipherIn, Crypted, Passing, c, n
<1> QED
  BY <1>2, <1>3

LEMMA CipherReadAdvances ==
  ASSUME ControlOK, DataOK, Lasting, NEW r, InCrypto2(r), Bus("bus2"), ~Begin("bus2"),
         Fetching2(r), pc["aesDecrypt"] = "read",
         pc["decrypt_packet"] = "decrypted", wait["decrypt_packet"] = On("decrypt_done"),
         Asking("bus2", "aesDecrypt",
                Read("mem", ReceivedBlock((Reported - 1) % 2), Length16(Size))),
         r = DecryptOn(Size)
  PROVE  Advances(r)
<1> DEFINE c == Prefix(mem["bus2"][ReceivedBlock((Reported - 1) % 2)], Length16(Size))
<1>1. /\ result' = [result EXCEPT !["aesDecrypt"] = c]
      /\ Finish("bus2", {})
      /\ enc' = enc /\ mem' = mem /\ up' = up /\ crypto' = crypto
      /\ network_frame' = network_frame /\ mem_num' = mem_num
  <2>1. /\ Head(queue["bus2"]).req =
             Read("mem", ReceivedBlock((Reported - 1) % 2), Length16(Size))
        /\ Head(queue["bus2"]).by = "aesDecrypt"
    BY Served
  <2>2. /\ Head(queue["bus2"]).req.rdnwr /\ Head(queue["bus2"]).req.slave = "mem"
        /\ Head(queue["bus2"]).req.addr = ReceivedBlock((Reported - 1) % 2)
        /\ Head(queue["bus2"]).req.len = Length16(Size)
    BY <2>1, RequestKinds, DecryptNames
  <2>3. MemDataTransfer("bus2")
    BY <2>2, BusServes, DecryptNames
  <2> QED
    BY <2>1, <2>2, <2>3 DEF MemDataTransfer, Returns
<1>2. CipherIn(c)
  BY CipherFetched DEF InCrypto2
<1> HIDE DEF c
<1>3. /\ queue'["bus1"] = queue["bus1"] /\ BusFree("bus2")'
      /\ pc'["aesDecrypt"] = "read" /\ wait'["aesDecrypt"] = Ready
      /\ \A p \in Threads \ {"bus2", "aesDecrypt"} : Keeps(p)
  <2>1. Answered("bus2", "aesDecrypt", {})
    BY <1>1, Answering, DecryptNames
  <2> QED
    BY <2>1, DecryptNames DEF Answered, Keeps
<1>4. Undisturbed /\ Size' = Size /\ Reported' = Reported /\ Passing("raw")' = Passing("raw")
  BY <1>1, <1>3, ThreadNames, FrameKept DEF Undisturbed
<1>5. OthersHome(Crypto2Threads)' /\ network_frame' = Passing("cipher")' /\ Received'
  BY <1>1, <1>3, <1>4, Crypto2Kept DEF Crypto2Threads
<1>6. Decrypting(r)'
  <2>1. DecryptRegisters' /\ Passed(Reported, Reported, Reported, Reported - 1)'
    BY <1>1, <1>4, PassedStays DEF Fetching2, DecryptRegisters
  <2>2. pc'["decrypt_packet"] = "decrypted" /\ wait'["decrypt_packet"] = On("decrypt_done")
    BY <1>3, ThreadNames DEF Keeps
  <2>3. CipherIn(result["aesDecrypt"])'
    BY <1>1, <1>2, <1>4 DEF CipherIn, DataOK, ContentsOK, Receiver
  <2> QED
    BY <1>3, <1>4, <2>1, <2>2, <2>3 DEF Decrypting, Resumes, IsReady
<1> QED
  BY <1>1, <1>4, <1>5, <1>6 DEF Advances, Working, InCrypto2, Crypto2Threads

LEMMA ClearWriteAdvances ==
  ASSUME ControlOK, DataOK, Lasting, NEW r, InCrypto2(r), Bus("bus2"), ~Begin("bus2"),
         Decrypting(r), pc["aesDecrypt"] = "written",
         Passed(Reported, Reported, Reported, Reported - 1),
         Asking("bus2", "aesDecrypt",
                Write("mem", ClearBlock((Reported - 1) % 2), Length16(Size), Passing("raw"))),
         r = 0
  PROVE  Advances(r)
<1> DEFINE request == Write("mem", ClearBlock((Reported - 1) % 2), Length16(Size), Passing("raw"))
<1>1. /\ mem' = [mem EXCEPT !["bus2"][ClearBlock((Reported - 1) % 2)] = Passing("raw")]
      /\ Finish("bus2", {})
      /\ enc' = enc /\ up' = up /\ crypto' = crypto
      /\ network_frame' = network_frame /\ mem_num' = mem_num
  <2>1. Head(queue["bus2"]).req = request
    BY Served
  <2>2. /\ ~Head(queue["bus2"]).req.rdnwr /\ Head(queue["bus2"]).req.slave = "mem"
        /\ Head(queue["bus2"]).req.addr = ClearBlock((Reported - 1) % 2)
        /\ Head(queue["bus2"]).req.data = Passing("raw")
    BY <2>1, RequestKinds
  <2>3. MemDataTransfer("bus2")
    BY <2>2, BusServes, DecryptNames
  <2> QED
    BY <2>2, <2>3 DEF MemDataTransfer
<1>2. /\ queue'["bus1"] = queue["bus1"] /\ BusFree("bus2")'
      /\ pc'["aesDecrypt"] = "written" /\ wait'["aesDecrypt"] = Ready
      /\ \A p \in Threads \ {"bus2", "aesDecrypt"} : Keeps(p)
  <2>1. Answered("bus2", "aesDecrypt", {})
    BY <1>1, Answering, DecryptNames
  <2> QED
    BY <2>1, DecryptNames DEF Answered, Keeps
<1>3. Undisturbed /\ Size' = Size /\ Reported' = Reported /\ Passing("raw")' = Passing("raw")
  BY <1>1, <1>2, ThreadNames, FrameKept DEF Undisturbed
<1> DEFINE n == (Reported - 1) % 2
<1>4. Reported \in Nat /\ n \in {0, 1}
  BY DEF Lasting
<1>5. mem \in [Buses -> [Blocks -> Content]] /\ {0, 1, 2, 3, 4} \subseteq Blocks
  BY BlockNumbers DEF DataOK, ContentsOK
<1>6. /\ mem'["bus1"] = mem["bus1"]
      /\ mem'["bus2"][n] = mem["bus2"][n] /\ mem'["bus2"][2] = mem["bus2"][2]
      /\ n = 0 => mem'["bus2"][3] = Passing("raw")
      /\ n # 0 => mem'["bus2"][3] = mem["bus2"][3]
  <2>1. /\ n = 0 => ClearBlock(n) = 3
        /\ n # 0 => ClearBlock(n) = 4
    BY DEF ClearBlock
  <2> HIDE DEF n
  <2>2. mem' = [mem EXCEPT !["bus2"][ClearBlock(n)] = Passing("raw")]
    BY <1>1 DEF n
  <2> QED
    BY <1>4, <1>5, <2>1, <2>2, ThreadNames
<1>7. OthersHome(Crypto2Threads)' /\ network_frame' = Passing("cipher")' /\ Received'
  BY <1>1, <1>2, <1>3, <1>6, Crypto2Kept DEF Crypto2Threads
<1>8. Passed(Reported, Reported, Reported, Reported)'
  <2>1. Reported > 0
    <3>1. mem["bus2"][3].frame \in Nat
      BY <1>5, ThreadNames, FramesAssumption DEF Content
    <3>2. Reported - 1 # 0 => mem["bus2"][3].frame = (IF (Reported - 1) % 2 = 1 THEN Reported - 1 ELSE Reported - 2)
      BY <1>4 DEF Passed, Delivered
    <3> QED
      BY <1>4, <3>1, <3>2
  <2>2. CASE n = 0
    <3>1. Reported % 2 = 1
      BY <1>4, <2>2
    <3>2. mem'["bus2"][3].frame = Reported /\ mem'["bus2"][3].form = "raw"
      BY <1>6, <2>2, <3>1 DEF Passing
    <3> QED
      BY <1>1, <1>3, <2>1, <3>1, <3>2 DEF Passed, Delivered
  <2>3. CASE n # 0
    <3>1. Reported % 2 # 1 /\ (Reported - 1) % 2 = 1 /\ Reported - 1 # 0
      BY <1>4, <2>1, <2>3
    <3>2. mem'["bus2"][3].frame = Reported - 1 /\ mem'["bus2"][3].form = "raw"
      BY <1>6, <2>3, <3>1 DEF Passed, Delivered
    <3> QED
      BY <1>1, <1>3, <2>1, <3>1, <3>2 DEF Passed, Delivered
  <2> QED
    BY <2>2, <2>3
<1>9. Decrypting(r)'
  <2>1. DecryptRegisters'
    BY <1>1, <1>3 DEF Decrypting, DecryptRegisters
  <2>2. pc'["decrypt_packet"] = "decrypted" /\ wait'["decrypt_packet"] = On("decrypt_done")
    BY <1>2, ThreadNames DEF Keeps, Decrypting
  <2> QED
    BY <1>2, <1>8, <2>1, <2>2 DEF Decrypting, Resumes, IsReady
<1> QED
  BY <1>1, <1>3, <1>6, <1>7, <1>9 DEF Advances, Working, InCrypto2, Crypto2Threads

LEMMA Bus2Advances ==
  ASSUME ControlOK, DataOK, Lasting, NEW r, InCrypto2(r), Bus("bus2"), ~Begin("bus2")
  PROVE  Advances(r)
<1>1. Resumes("bus2", "moving")
  BY BusServes, DecryptNames
<1> QED
  BY <1>1, Crypto2Moves, PacketLengthAdvances, DecryptCommandAdvances, CipherReadAdvances,
     ClearWriteAdvances

\* The work on a frame is over.
LEMMA PacketDecryptedEnds ==
  ASSUME ControlOK, DataOK, NEW r, InCrypto2(r), PacketDecrypted, Encoding(r)
  PROVE  /\ Quiet' /\ Undisturbed /\ mem' = mem /\ network_frame' = network_frame
<1>1. /\ Resumes("decrypt_packet", "decrypted")
      /\ Suspend("decrypt_packet", "packet", On("packet_received"), {})
      /\ queue' = queue /\ mem' = mem /\ enc' = enc /\ up' = up
      /\ network_frame' = network_frame /\ mem_num' = mem_num
  BY DEF PacketDecrypted
<1>2. /\ AtHome("aesDecrypt") /\ BusFree("bus2")
      /\ Passed(Reported, Reported, Reported, Reported)
  BY <1>1, Crypto2Stages DEF Decrypted
<1>3. /\ pc'["decrypt_packet"] = "packet" /\ wait'["decrypt_packet"] = On("packet_received")
      /\ \A p \in Threads \ {"decrypt_packet"} : Keeps(p)
  BY <1>1, Alone, DecryptNames
<1>4. Undisturbed
  BY <1>1, <1>3, ThreadNames DEF Undisturbed
<1>5. OthersHome(Crypto2Threads)
  BY DEF InCrypto2, Crypto2Threads
<1>6. OthersHome({"send_packet"})' /\ AtHome("send_packet")'
  <2>1. AtHome("decrypt_packet")'
    BY <1>3 DEF AtHome, Home, HomeEvent
  <2>2. \A p \in (Threads \ {"read_file"}) \ {"decrypt_packet"} : AtHome(p)'
    BY <1>2, <1>3, <1>5 DEF OthersHome, AtHome, Keeps, Crypto2Threads, BusFree
  <2>3. \A b \in Buses : queue'[b] = <<>>
    BY <1>1, <1>2, <1>5, ThreadNames DEF OthersHome, Crypto2Threads, BusFree
  <2> QED
    BY <2>1, <2>2, <2>3, ThreadNames DEF OthersHome
<1>7. Passed(Reported, Reported, Reported, Reported)'
  BY <1>1, <1>2, <1>4, PassedStays
<1>8. \/ /\ pc'["read_file"] = "encoded" /\ wait'["read_file"].event = NoEvent
         /\ enc'.buffer_ptr \in FrameLens
         /\ enc'.due = FramePeriod - EncodeTime + wait'["read_file"].time
      \/ pc'["read_file"] = "paced" /\ wait'["read_file"].event = NoEvent
      \/ pc'["read_file"] = "returned" /\ wait'["read_file"] = On("nothing")
  BY <1>4 DEF Encoding, Undisturbed, Keeps
<1> QED
  BY <1>1, <1>4, <1>6, <1>7, <1>8 DEF Quiet

-----------------------------------------------------------------------------
(* While time passes, a bus begins, or read_file goes its own way. *)

LEMMA RemainingTime ==
  ASSUME ControlOK, DataOK, NEW b \in Buses
  PROVE  Remaining(b) \in Nat
<1>1. wait[b].time \in Nat
  BY TimeWaits, ThreadNames DEF ControlOK
<1>2. ASSUME queue[b] # <<>> PROVE BusTime(Head(queue[b]).req.len) \in Nat
  <2>1. queue[b] \in Seq(Entries)
    BY DEF DataOK
  <2>2. Head(queue[b]) \in Entries
    BY <1>2, <2>1
  <2> QED
    BY <2>2, LengthOK, Durations
<1> QED
  BY <1>1, <1>2 DEF Remaining

LEMMA WaitTime ==
  ASSUME ControlOK, NEW t \in Threads
  PROVE  wait[t].time \in Nat /\ (wait[t].event # NoEvent => wait[t].time = 0)
  BY TimeWaits DEF ControlOK

\* The work on a frame takes a definite time.
LEMMA WorkingTime ==
  ASSUME ControlOK, DataOK, NEW r, Working(r)
  PROVE  r \in Nat /\ r \in ToGo
<1> DEFINE rest == {0, ClearWriteOn(Size), DecryptOn(Size), CipherReadOn(Size),
                    DecryptCommandOn(Size), PacketLengthOn(Size), ReceiveOn(Size),
                    TransmitOn(Size), PacketReadOn(Size), DescriptorOn(Size),
                    CipherWriteOn(Size), EncryptOn(Size), RawReadOn(Size),
                    EncryptCommandOn(Size), FrameLengthOn(Size)}
           now == {0, Remaining("bus1"), Remaining("bus2"), wait["aesEncrypt"].time,
                   wait["send_frame"].time, wait["aesDecrypt"].time}
<1>1. rest \subseteq Nat /\ now \subseteq Nat
  BY SizeOK, RemainingTime, WaitTime, ThreadNames
<1>2. ToGo = {x + y : x \in now, y \in rest}
  BY DEF ToGo
<1>3. \E x \in now, y \in rest : r = x + y
  <2>1. \A y \in rest, x \in now : y = 0 + y /\ x = x + 0
    BY <1>1
  <2>2. 0 \in now /\ 0 \in rest
    OBVIOUS
  <2>3. InCrypto1(r) => \/ r \in rest
                        \/ \E y \in rest : r = Remaining("bus1") + y
                        \/ \E y \in rest : r = wait["aesEncrypt"].time + y
    BY DEF InCrypto1, Commanding, Fetching, Encrypting, Encrypted
  <2>4. InCard(r) => r \in rest \/ \E y \in rest : r = Remaining("bus1") + y
    BY DEF InCard, Describing, CardReading, CardRead
  <2>5. InNetwork(r) => r \in rest \/ \E y \in rest : r = wait["send_frame"].time + y
    BY DEF InNetwork
  <2>6. InReceiver(r) => r \in rest \/ \E y \in rest : r = Remaining("bus2") + y
    BY DEF InReceiver
  <2>7. InCrypto2(r) => \/ r \in rest
                        \/ r = Remaining("bus2")
                        \/ \E y \in rest : r = Remaining("bus2") + y
                        \/ \E y \in rest : r = wait["aesDecrypt"].time + y
    BY DEF InCrypto2, Commanding2, Fetching2, Decrypting, Decrypted
  <2>8. /\ {Remaining("bus1"), Remaining("bus2"), wait["aesEncrypt"].time,
            wait["send_frame"].time, wait["aesDecrypt"].time} \subseteq now
    OBVIOUS
  <2> HIDE DEF now, rest
  <2>9. r \in rest \/ r \in now \/ \E x \in now, y \in rest : r = x + y
    BY <2>3, <2>4, <2>5, <2>6, <2>7, <2>8 DEF Working
  <2> QED
    BY <2>1, <2>2, <2>9
<1> HIDE DEF now, rest
<1>4. PICK x \in now, y \in rest : r = x + y
  BY <1>3
<1>5. x \in Nat /\ y \in Nat
  BY <1>1
<1>6. r \in Nat
  BY <1>4, <1>5
<1>7. r \in ToGo
  BY <1>2, <1>4
<1> QED
  BY <1>6, <1>7

\* Bus b is about to begin, or moves.
Serving(b) == Resumes(b, "front") \/ (pc[b] = "moving" /\ wait[b].event = NoEvent)

\* d units of time pass for all that has to do with the frame.
Passes(d) ==
  /\ d \in Nat
  /\ UNCHANGED <<queue, result, mem, up, crypto, nic, network_frame, mem_num>>
  /\ Reported' = Reported /\ Size' = Size
  /\ \A t \in Threads \ {"read_file"} :
       /\ t \notin Buses => pc'[t] = pc[t]
       /\ \A e : e # "none" /\ wait[t] = On(e) => Keeps(t)
       /\ t \notin Buses /\ IsReady(t) => d = 0 /\ Keeps(t)
       /\ t \notin Buses /\ wait[t].event = NoEvent =>
            wait'[t].event = NoEvent /\ wait[t].time \in Nat /\ wait'[t].time = wait[t].time - d
  /\ \A b \in Buses :
       /\ Remaining(b) \in Nat
       /\ Serving(b) => Serving(b)' /\ Remaining(b)' = Remaining(b) - d

LEMMA PassingHome ==
  ASSUME NEW CONSTANT d, Passes(d)
  PROVE  /\ \A t \in Threads \ {"read_file"} : AtHome(t) => AtHome(t)'
         /\ \A b \in Buses : BusFree(b) => BusFree(b)'
         /\ \A t \in (Threads \ Buses) \ {"read_file"} : \A seg :
              Resumes(t, seg) => Resumes(t, seg)' /\ d = 0
         /\ \A t \in (Threads \ Buses) \ {"read_file"} : pc'[t] = pc[t]
         /\ queue' = queue
         /\ \A t \in (Threads \ Buses) \ {"read_file"} : \A e :
              e # "none" /\ wait[t] = On(e) => wait'[t] = On(e)
<1>1. \A t \in Threads \ {"read_file"} : AtHome(t) => AtHome(t)'
  BY HomeEvents DEF Passes, AtHome, Keeps
<1>2. queue' = queue
  BY DEF Passes
<1>3. \A b \in Buses : BusFree(b) => BusFree(b)'
  BY <1>1, <1>2, ThreadNames DEF BusFree
<1> QED
  BY <1>1, <1>2, <1>3 DEF Passes, Keeps, Resumes, IsReady

LEMMA PassingOthers ==
  ASSUME NEW CONSTANT d, Passes(d), NEW CONSTANT S, OthersHome(S)
  PROVE  OthersHome(S)'
<1>1. ASSUME NEW p \in (Threads \ {"read_file"}) \ S PROVE AtHome(p)'
  BY <1>1, PassingHome DEF OthersHome
<1>2. ASSUME NEW b \in Buses \ S PROVE queue'[b] = <<>>
  BY <1>2, PassingHome DEF OthersHome
<1> QED
  BY <1>1, <1>2 DEF OthersHome

LEMMA PassingData ==
  ASSUME NEW CONSTANT d, Passes(d)
  PROVE  /\ Reported' = Reported /\ Size' = Size
         /\ Passing("cipher")' = Passing("cipher") /\ Passing("raw")' = Passing("raw")
         /\ RawStored => RawStored'
         /\ CipherStored => CipherStored'
         /\ EncryptRegisters => EncryptRegisters'
         /\ CardRegisters => CardRegisters'
         /\ DecryptRegisters => DecryptRegisters'
         /\ Received => Received'
         /\ EncryptCommand' = EncryptCommand /\ DecryptCommand' = DecryptCommand
         /\ Descriptor' = Descriptor
<1>1. /\ Reported' = Reported /\ Size' = Size
      /\ UNCHANGED <<queue, result, mem, up, crypto, nic, network_frame, mem_num>>
  BY DEF Passes
<1>2. Passing("cipher")' = Passing("cipher") /\ Passing("raw")' = Passing("raw")
  BY <1>1 DEF Passing
<1>3. RawStored => RawStored'
  BY <1>1 DEF RawStored
<1>4. CipherStored => CipherStored'
  BY <1>1, <1>2 DEF CipherStored
<1>5. (EncryptRegisters => EncryptRegisters') /\ (DecryptRegisters => DecryptRegisters')
  BY <1>1 DEF EncryptRegisters, DecryptRegisters
<1>6. CardRegisters => CardRegisters'
  BY <1>1 DEF CardRegisters
<1>7. Received => Received'
  BY <1>1, <1>2 DEF Received
<1>8. /\ EncryptCommand' = EncryptCommand /\ DecryptCommand' = DecryptCommand
      /\ Descriptor' = Descriptor
  BY <1>1 DEF EncryptCommand, DecryptCommand, Descriptor
<1> QED
  BY <1>1, <1>2, <1>3, <1>4, <1>5, <1>6, <1>7, <1>8

LEMMA PassingPassed ==
  ASSUME NEW CONSTANT d, Passes(d)
  PROVE  /\ Passed(Reported - 1, Reported - 1, Reported - 1, Reported - 1) =>
              Passed(Reported - 1, Reported - 1, Reported - 1, Reported - 1)'
         /\ Passed(Reported, Reported - 1, Reported - 1, Reported - 1) =>
              Passed(Reported, Reported - 1, Reported - 1, Reported - 1)'
         /\ Passed(Reported, Reported, Reported - 1, Reported - 1) =>
              Passed(Reported, Reported, Reported - 1, Reported - 1)'
         /\ Passed(Reported, Reported, Reported, Reported - 1) =>
              Passed(Reported, Reported, Reported, Reported - 1)'
         /\ Passed(Reported, Reported, Reported, Reported) =>
              Passed(Reported, Reported, Reported, Reported)'
<1>1. Reported' = Reported /\ up' = up /\ mem' = mem /\ mem_num' = mem_num
  BY DEF Passes
<1> QED
  BY <1>1 DEF Passed, Delivered

\* The time to go becomes less by the time that passes.
LEMMA Less ==
  ASSUME NEW d \in Nat, NEW a \in Nat, NEW x \in Nat
  PROVE  (a + x) - d = (a - d) + x /\ x - 0 = x
  OBVIOUS

\* The request of t to bus b stands.
StillAsks(b, t, q) ==
  /\ queue'[b] = <<[by |-> t, req |-> q]>>
  /\ wait'[t] = On(t) /\ pc'[t] = pc[t]
  /\ Serving(b)'

LEMMA PassingAsked ==
  ASSUME NEW CONSTANT d, Passes(d), NEW CONSTANT b \in Buses,
         NEW CONSTANT t \in (Threads \ Buses) \ {"read_file"}, NEW q, Asking(b, t, q)
  PROVE  StillAsks(b, t, q) /\ Remaining(b)' = Remaining(b) - d
<1>1. Serving(b)
  BY DEF Asking, Serving
<1>2. Serving(b)' /\ Remaining(b)' = Remaining(b) - d
  BY <1>1 DEF Passes
<1>3. queue[b] = <<[by |-> t, req |-> q]>> /\ wait[t] = On(t)
  BY DEF Asking
<1>4. t # "none"
  BY DEF Threads, Buses, Sender, Receiver
<1> QED
  BY <1>2, <1>3, <1>4, PassingHome DEF StillAsks

\* The time to go, in each of the ways in which it is made up.
LEMMA PassingTime ==
  ASSUME ControlOK, DataOK, NEW CONSTANT d, Passes(d), NEW r
  PROVE  \A x \in {0, ClearWriteOn(Size), DecryptOn(Size), CipherReadOn(Size),
                   DecryptCommandOn(Size), PacketLengthOn(Size), ReceiveOn(Size),
                   TransmitOn(Size), PacketReadOn(Size), DescriptorOn(Size),
                   CipherWriteOn(Size), EncryptOn(Size), RawReadOn(Size),
                   EncryptCommandOn(Size), FrameLengthOn(Size)} :
            /\ r = x /\ d = 0 => r - d = x
            /\ \A b \in Buses : r = Remaining(b) + x => r - d = (Remaining(b) - d) + x
            /\ \A t \in Threads : r = wait[t].time + x => r - d = (wait[t].time - d) + x
<1> DEFINE rest == {0, ClearWriteOn(Size), DecryptOn(Size), CipherReadOn(Size),
                   DecryptCommandOn(Size), PacketLengthOn(Size), ReceiveOn(Size),
                   TransmitOn(Size), PacketReadOn(Size), DescriptorOn(Size),
                   CipherWriteOn(Size), EncryptOn(Size), RawReadOn(Size),
                   EncryptCommandOn(Size), FrameLengthOn(Size)}
<1>1. rest \subseteq Nat
  BY SizeOK
<1> HIDE DEF rest
<1>2. d \in Nat /\ (\A b \in Buses : Remaining(b) \in Nat) /\ \A t \in Threads : wait[t].time \in Nat
  BY RemainingTime, WaitTime DEF Passes
<1>3. ASSUME NEW x \in rest
      PROVE  /\ r = x /\ d = 0 => r - d = x
             /\ \A b \in Buses : r = Remaining(b) + x => r - d = (Remaining(b) - d) + x
             /\ \A t \in Threads : r = wait[t].time + x => r - d = (wait[t].time - d) + x
  <2>1. x \in Nat
    BY <1>1
  <2>2. r = x /\ d = 0 => r - d = x
    BY <2>1
  <2>3. ASSUME NEW b \in Buses, r = Remaining(b) + x PROVE r - d = (Remaining(b) - d) + x
    <3>1. Remaining(b) \in Nat /\ d \in Nat
      BY <1>2
    <3> QED
      BY <2>1, <2>3, <3>1
  <2>4. ASSUME NEW t \in Threads, r = wait[t].time + x PROVE r - d = (wait[t].time - d) + x
    <3>1. wait[t].time \in Nat /\ d \in Nat
      BY <1>2
    <3> QED
      BY <2>1, <2>4, <3>1
  <2> QED
    BY <2>2, <2>3, <2>4
<1> QED
  BY <1>3 DEF rest

LEMMA CommandingPasses ==
  ASSUME ControlOK, DataOK, NEW r, Commanding(r), NEW CONSTANT d, Passes(d)
  PROVE  Commanding(r - d)'
<1>1. /\ AtHome("aesEncrypt")' /\ Reported' = Reported /\ Size' = Size
      /\ EncryptCommand' = EncryptCommand
      /\ up' = up /\ result' = result
  BY PassingHome, PassingData, ThreadNames DEF Passes, Commanding
<1>2. BusFree("bus1") => BusFree("bus1")'
  BY PassingHome, ThreadNames
<1>3. /\ "bus1" \in Buses /\ "send_packet" \in (Threads \ Buses) \ {"read_file"}
      /\ "send_packet" \in Threads
  BY ThreadNames
<1>4. CASE Resumes("send_packet", "encode_done") /\ BusFree("bus1") /\ r = FrameLengthOn(Size)
  <2>1. Resumes("send_packet", "encode_done")' /\ d = 0
    BY <1>3, <1>4, PassingHome
  <2>2. r - d = FrameLengthOn(Size')
    BY <1>1, <1>4, <2>1, PassingTime
  <2> QED
    BY <1>1, <1>2, <1>4, <2>1, <2>2 DEF Commanding
<1>5. CASE /\ pc["send_packet"] = "length"
           /\ Asking("bus1", "send_packet", Read("encoder", 0, 1))
           /\ r = Remaining("bus1") + EncryptCommandOn(Size)
  <2>1. StillAsks("bus1", "send_packet", Read("encoder", 0, 1)) /\ Remaining("bus1")' = Remaining("bus1") - d
    BY <1>3, <1>5, PassingAsked
  <2>2. Asking("bus1", "send_packet", Read("encoder", 0, 1))' /\ pc'["send_packet"] = "length"
    BY <1>5, <2>1 DEF StillAsks, Asking, Serving, Read, Blank
  <2>3. r - d = (Remaining("bus1") - d) + EncryptCommandOn(Size)
    BY <1>3, <1>5, PassingTime
  <2> QED
    BY <1>1, <2>1, <2>2, <2>3 DEF Commanding
<1>6. CASE /\ Resumes("send_packet", "length") /\ BusFree("bus1")
           /\ result["send_packet"].len = Size
           /\ r = EncryptCommandOn(Size)
  <2>1. Resumes("send_packet", "length")' /\ d = 0
    BY <1>3, <1>6, PassingHome
  <2>2. r - d = EncryptCommandOn(Size')
    BY <1>1, <1>6, <2>1, PassingTime
  <2> QED
    BY <1>1, <1>2, <1>6, <2>1, <2>2 DEF Commanding
<1>7. CASE /\ pc["send_packet"] = "encrypting"
           /\ up.frameLength = Size
           /\ Asking("bus1", "send_packet", Write("crypto", 0, 4, EncryptCommand))
           /\ r = Remaining("bus1") + RawReadOn(Size)
  <2>1. /\ StillAsks("bus1", "send_packet", Write("crypto", 0, 4, EncryptCommand))
        /\ Remaining("bus1")' = Remaining("bus1") - d
    BY <1>3, <1>7, PassingAsked
  <2>2. Asking("bus1", "send_packet", Write("crypto", 0, 4, EncryptCommand))' /\ pc'["send_packet"] = "encrypting"
    BY <1>1, <1>7, <2>1 DEF StillAsks, Asking, Serving
  <2>3. r - d = (Remaining("bus1") - d) + RawReadOn(Size)
    BY <1>3, <1>7, PassingTime
  <2> QED
    BY <1>1, <1>7, <2>1, <2>2, <2>3 DEF Commanding
<1> QED
  BY <1>4, <1>5, <1>6, <1>7 DEF Commanding

LEMMA FetchingPasses ==
  ASSUME ControlOK, DataOK, NEW r, Fetching(r), NEW CONSTANT d, Passes(d)
  PROVE  Fetching(r - d)'
<1>1. /\ EncryptRegisters' /\ Reported' = Reported /\ Size' = Size
      /\ pc'["aesEncrypt"] = pc["aesEncrypt"]
  BY PassingHome, PassingData, PassingPassed, ThreadNames DEF Passes, Fetching
<1>2. BusFree("bus1") => BusFree("bus1")'
  BY PassingHome, ThreadNames
<1>3. /\ "bus1" \in Buses
      /\ "aesEncrypt" \in (Threads \ Buses) \ {"read_file"} /\ "aesEncrypt" \in Threads
      /\ "send_packet" \in (Threads \ Buses) \ {"read_file"} /\ "send_packet" \in Threads
  BY ThreadNames
<1>4. \/ /\ Resumes("send_packet", "encrypting")'
         /\ pc["aesEncrypt"] = "read" => (Remaining("bus1") > 0 /\ d = 0)
      \/ pc'["send_packet"] = "encrypted" /\ wait'["send_packet"] = On("encrypt_done")
  BY <1>3, PassingHome DEF Fetching
<1>5. ASSUME Remaining("bus1") > 0, d = 0, Remaining("bus1")' = Remaining("bus1") - d
      PROVE  Remaining("bus1")' > 0
  BY <1>3, <1>5, RemainingTime
<1>6. CASE /\ Resumes("aesEncrypt", "command") /\ BusFree("bus1")
           /\ r = RawReadOn(Size)
  <2>1. Resumes("aesEncrypt", "command")' /\ d = 0
    BY <1>3, <1>6, PassingHome
  <2>2. r - d = RawReadOn(Size')
    BY <1>1, <1>6, <2>1, PassingTime
  <2> QED
    BY <1>1, <1>2, <1>4, <1>6, <2>1, <2>2 DEF Fetching, Resumes
<1>7. CASE /\ pc["aesEncrypt"] = "read"
           /\ Asking("bus1", "aesEncrypt",
                Read("mem", EncodeBlock(Reported - 1), Size))
           /\ r = Remaining("bus1") + EncryptOn(Size)
  <2> DEFINE q == Read("mem", EncodeBlock(Reported - 1), Size)
  <2>1. StillAsks("bus1", "aesEncrypt", q) /\ Remaining("bus1")' = Remaining("bus1") - d
    BY <1>3, <1>7, PassingAsked
  <2>2. q' = q
    BY <1>1 DEF Read, Write, Blank
  <2> HIDE DEF q
  <2>3. Asking("bus1", "aesEncrypt", q)' /\ pc'["aesEncrypt"] = "read"
    BY <1>7, <2>1, <2>2 DEF StillAsks, Asking, Serving
  <2>4. r - d = (Remaining("bus1") - d) + EncryptOn(Size)
    BY <1>3, <1>7, PassingTime
  <2> QED
    BY <1>1, <1>2, <1>4, <1>5, <1>7, <2>1, <2>3, <2>4 DEF Fetching, q
<1> QED
  BY <1>6, <1>7 DEF Fetching

LEMMA EncryptingPasses ==
  ASSUME ControlOK, DataOK, NEW r, Encrypting(r), NEW CONSTANT d, Passes(d)
  PROVE  Encrypting(r - d)'
<1>1. /\ EncryptRegisters' /\ Reported' = Reported /\ Size' = Size
      /\ Passing("cipher")' = Passing("cipher") /\ (CipherStored => CipherStored')
      /\ result' = result /\ crypto' = crypto
  BY PassingHome, PassingData, PassingPassed, ThreadNames DEF Passes, Encrypting
<1>2. BusFree("bus1") => BusFree("bus1")'
  BY PassingHome, ThreadNames
<1>3. /\ "bus1" \in Buses
      /\ "aesEncrypt" \in (Threads \ Buses) \ {"read_file"} /\ "aesEncrypt" \in Threads
      /\ "send_packet" \in (Threads \ Buses) \ {"read_file"} /\ "send_packet" \in Threads
  BY ThreadNames
<1>4. pc'["send_packet"] = "encrypted" /\ wait'["send_packet"] = On("encrypt_done")
  BY <1>3, PassingHome DEF Encrypting
<1>5. RawIn(result["aesEncrypt"]) => RawIn(result["aesEncrypt"])'
  BY <1>1 DEF RawIn
<1>6. CASE /\ Resumes("aesEncrypt", "read") /\ BusFree("bus1")
           /\ RawIn(result["aesEncrypt"])
           /\ r = EncryptOn(Size)
  <2>1. Resumes("aesEncrypt", "read")' /\ d = 0
    BY <1>3, <1>6, PassingHome
  <2>2. r - d = EncryptOn(Size')
    BY <1>1, <1>6, <2>1, PassingTime
  <2> QED
    BY <1>1, <1>2, <1>4, <1>5, <1>6, <2>1, <2>2 DEF Encrypting
<1>7. CASE /\ pc["aesEncrypt"] = "crypted" /\ wait["aesEncrypt"].event = NoEvent /\ BusFree("bus1")
           /\ crypto["bus1"].bufferInt = Passing("cipher")
           /\ r = wait["aesEncrypt"].time + CipherWriteOn(Size)
  <2>1. /\ pc'["aesEncrypt"] = "crypted" /\ wait'["aesEncrypt"].event = NoEvent
        /\ wait'["aesEncrypt"].time = wait["aesEncrypt"].time - d
    BY <1>3, <1>7 DEF Passes
  <2>2. r - d = (wait["aesEncrypt"].time - d) + CipherWriteOn(Size)
    BY <1>3, <1>7, PassingTime
  <2> QED
    BY <1>1, <1>2, <1>4, <1>7, <2>1, <2>2 DEF Encrypting
<1>8. CASE /\ pc["aesEncrypt"] = "written"
           /\ Asking("bus1", "aesEncrypt",
                Write("mem", CipherBlock(Reported - 1), Length16(Size), Passing("cipher")))
           /\ r = Remaining("bus1") + DescriptorOn(Size)
  <2> DEFINE q == Write("mem", CipherBlock(Reported - 1), Length16(Size), Passing("cipher"))
  <2>1. StillAsks("bus1", "aesEncrypt", q) /\ Remaining("bus1")' = Remaining("bus1") - d
    BY <1>3, <1>8, PassingAsked
  <2>2. q' = q
    BY <1>1 DEF Read, Write, Blank
  <2> HIDE DEF q
  <2>3. Asking("bus1", "aesEncrypt", q)' /\ pc'["aesEncrypt"] = "written"
    BY <1>8, <2>1, <2>2 DEF StillAsks, Asking, Serving
  <2>4. r - d = (Remaining("bus1") - d) + DescriptorOn(Size)
    BY <1>3, <1>8, PassingTime
  <2> QED
    BY <1>1, <1>2, <1>4, <1>8, <2>1, <2>3, <2>4 DEF Encrypting, q
<1>9. CASE /\ Resumes("aesEncrypt", "written") /\ BusFree("bus1")
           /\ CipherStored
           /\ r = DescriptorOn(Size)
  <2>1. Resumes("aesEncrypt", "written")' /\ d = 0
    BY <1>3, <1>9, PassingHome
  <2>2. r - d = DescriptorOn(Size')
    BY <1>1, <1>9, <2>1, PassingTime
  <2> QED
    BY <1>1, <1>2, <1>4, <1>9, <2>1, <2>2 DEF Encrypting
<1> QED
  BY <1>6, <1>7, <1>8, <1>9 DEF Encrypting

LEMMA EncryptedPasses ==
  ASSUME ControlOK, DataOK, NEW r, Encrypted(r), NEW CONSTANT d, Passes(d)
  PROVE  Encrypted(r - d)'
<1>1. /\ Reported' = Reported /\ Size' = Size
      /\ (CipherStored => CipherStored') /\ up' = up
      /\ AtHome("aesEncrypt")'
  BY PassingHome, PassingData, PassingPassed, ThreadNames DEF Passes, Encrypted
<1>2. BusFree("bus1") => BusFree("bus1")'
  BY PassingHome, ThreadNames
<1>3. /\ "bus1" \in Buses
      /\ "aesEncrypt" \in (Threads \ Buses) \ {"read_file"} /\ "aesEncrypt" \in Threads
      /\ "send_packet" \in (Threads \ Buses) \ {"read_file"} /\ "send_packet" \in Threads
  BY ThreadNames
<1>4. CASE /\ Resumes("send_packet", "encrypted") /\ BusFree("bus1")
           /\ up.frameLength = Size
           /\ CipherStored
           /\ r = DescriptorOn(Size)
  <2>1. Resumes("send_packet", "encrypted")' /\ d = 0
    BY <1>3, <1>4, PassingHome
  <2>2. r - d = DescriptorOn(Size')
    BY <1>1, <1>4, <2>1, PassingTime
  <2> QED
    BY <1>1, <1>2, <1>4, <2>1, <2>2 DEF Encrypted
<1> QED
  BY <1>4 DEF Encrypted

LEMMA Crypto1Passes ==
  ASSUME ControlOK, DataOK, NEW r, InCrypto1(r), NEW CONSTANT d, Passes(d)
  PROVE  InCrypto1(r - d)'
<1>1. /\ OthersHome({"send_packet", "aesEncrypt", "bus1"})'
      /\ Passed(Reported - 1, Reported - 1, Reported - 1, Reported - 1)'
      /\ RawStored'
  BY PassingOthers, PassingPassed, PassingData DEF InCrypto1
<1>2. Commanding(r - d)' \/ Fetching(r - d)' \/ Encrypting(r - d)' \/ Encrypted(r - d)'
  BY CommandingPasses, FetchingPasses, EncryptingPasses, EncryptedPasses DEF InCrypto1
<1> QED
  BY <1>1, <1>2 DEF InCrypto1

LEMMA DescribingPasses ==
  ASSUME ControlOK, DataOK, NEW r, Describing(r), NEW CONSTANT d, Passes(d)
  PROVE  Describing(r - d)'
<1>1. /\ AtHome("read_packet")' /\ Reported' = Reported /\ Size' = Size
      /\ Descriptor' = Descriptor
  BY PassingHome, PassingData, PassingPassed, ThreadNames DEF Passes, Describing
<1>2. BusFree("bus1") => BusFree("bus1")'
  BY PassingHome, ThreadNames
<1>3. /\ "bus1" \in Buses
      /\ "send_packet" \in (Threads \ Buses) \ {"read_file"} /\ "send_packet" \in Threads
  BY ThreadNames
<1>4. CASE /\ pc["send_packet"] = "idle"
           /\ Asking("bus1", "send_packet",
                Write("nic", 0, 2, Descriptor))
           /\ r = Remaining("bus1") + PacketReadOn(Size)
  <2> DEFINE q == Write("nic", 0, 2, Descriptor)
  <2>1. StillAsks("bus1", "send_packet", q) /\ Remaining("bus1")' = Remaining("bus1") - d
    BY <1>3, <1>4, PassingAsked
  <2>2. q' = q
    BY <1>1 DEF Read, Write, Blank
  <2> HIDE DEF q
  <2>3. Asking("bus1", "send_packet", q)' /\ pc'["send_packet"] = "idle"
    BY <1>4, <2>1, <2>2 DEF StillAsks, Asking, Serving
  <2>4. r - d = (Remaining("bus1") - d) + PacketReadOn(Size)
    BY <1>3, <1>4, PassingTime
  <2> QED
    BY <1>1, <1>2, <1>4, <2>1, <2>3, <2>4 DEF Describing, q
<1> QED
  BY <1>4 DEF Describing

LEMMA CardReadingPasses ==
  ASSUME ControlOK, DataOK, NEW r, CardReading(r), NEW CONSTANT d, Passes(d)
  PROVE  CardReading(r - d)'
<1>1. /\ CardRegisters' /\ Reported' = Reported /\ Size' = Size
      /\ pc'["read_packet"] = pc["read_packet"]
  BY PassingHome, PassingData, PassingPassed, ThreadNames DEF Passes, CardReading
<1>2. BusFree("bus1") => BusFree("bus1")'
  BY PassingHome, ThreadNames
<1>3. /\ "bus1" \in Buses
      /\ "read_packet" \in (Threads \ Buses) \ {"read_file"} /\ "read_packet" \in Threads
      /\ "send_packet" \in (Threads \ Buses) \ {"read_file"} /\ "send_packet" \in Threads
  BY ThreadNames
<1>4. \/ /\ Resumes("send_packet", "idle")'
         /\ pc["read_packet"] = "read" => (Remaining("bus1") > 0 /\ d = 0)
      \/ AtHome("send_packet")'
  BY <1>3, PassingHome, ThreadNames DEF CardReading
<1>5. ASSUME Remaining("bus1") > 0, d = 0, Remaining("bus1")' = Remaining("bus1") - d
      PROVE  Remaining("bus1")' > 0
  BY <1>3, <1>5, RemainingTime
<1>6. CASE /\ Resumes("read_packet", "descriptor") /\ BusFree("bus1")
           /\ r = PacketReadOn(Size)
  <2>1. Resumes("read_packet", "descriptor")' /\ d = 0
    BY <1>3, <1>6, PassingHome
  <2>2. r - d = PacketReadOn(Size')
    BY <1>1, <1>6, <2>1, PassingTime
  <2> QED
    BY <1>1, <1>2, <1>4, <1>6, <2>1, <2>2 DEF CardReading, Resumes
<1>7. CASE /\ pc["read_packet"] = "read"
           /\ Asking("bus1", "read_packet",
                Read("mem", CipherBlock(Reported - 1), Length16(Size)))
           /\ r = Remaining("bus1") + TransmitOn(Size)
  <2> DEFINE q == Read("mem", CipherBlock(Reported - 1), Length16(Size))
  <2>1. StillAsks("bus1", "read_packet", q) /\ Remaining("bus1")' = Remaining("bus1") - d
    BY <1>3, <1>7, PassingAsked
  <2>2. q' = q
    BY <1>1 DEF Read, Write, Blank
  <2> HIDE DEF q
  <2>3. Asking("bus1", "read_packet", q)' /\ pc'["read_packet"] = "read"
    BY <1>7, <2>1, <2>2 DEF StillAsks, Asking, Serving
  <2>4. r - d = (Remaining("bus1") - d) + TransmitOn(Size)
    BY <1>3, <1>7, PassingTime
  <2> QED
    BY <1>1, <1>2, <1>4, <1>5, <1>7, <2>1, <2>3, <2>4 DEF CardReading, q
<1> QED
  BY <1>6, <1>7 DEF CardReading

LEMMA CardReadPasses ==
  ASSUME ControlOK, DataOK, NEW r, CardRead(r), NEW CONSTANT d, Passes(d)
  PROVE  CardRead(r - d)'
<1>1. /\ CardRegisters' /\ Reported' = Reported /\ Size' = Size
      /\ result' = result /\ Passing("cipher")' = Passing("cipher")
      /\ AtHome("send_packet")'
  BY PassingHome, PassingData, PassingPassed, ThreadNames DEF Passes, CardRead
<1>2. BusFree("bus1") => BusFree("bus1")'
  BY PassingHome, ThreadNames
<1>3. /\ "bus1" \in Buses
      /\ "read_packet" \in (Threads \ Buses) \ {"read_file"} /\ "read_packet" \in Threads
  BY ThreadNames
<1>4. CASE /\ Resumes("read_packet", "read") /\ BusFree("bus1")
           /\ result["read_packet"] = Passing("cipher")
           /\ r = TransmitOn(Size)
  <2>1. Resumes("read_packet", "read")' /\ d = 0
    BY <1>3, <1>4, PassingHome
  <2>2. r - d = TransmitOn(Size')
    BY <1>1, <1>4, <2>1, PassingTime
  <2> QED
    BY <1>1, <1>2, <1>4, <2>1, <2>2 DEF CardRead
<1> QED
  BY <1>4 DEF CardRead

LEMMA CardPasses ==
  ASSUME ControlOK, DataOK, NEW r, InCard(r), NEW CONSTANT d, Passes(d)
  PROVE  InCard(r - d)'
<1>1. /\ OthersHome({"send_packet", "read_packet", "bus1"})'
      /\ Passed(Reported, Reported - 1, Reported - 1, Reported - 1)'
      /\ CipherStored'
  BY PassingOthers, PassingPassed, PassingData DEF InCard
<1>2. Describing(r - d)' \/ CardReading(r - d)' \/ CardRead(r - d)'
  BY DescribingPasses, CardReadingPasses, CardReadPasses DEF InCard
<1> QED
  BY <1>1, <1>2 DEF InCard

LEMMA NetworkPasses ==
  ASSUME ControlOK, DataOK, NEW r, InNetwork(r), NEW CONSTANT d, Passes(d)
  PROVE  InNetwork(r - d)'
<1>1. /\ OthersHome({"send_frame"})' /\ Reported' = Reported /\ Size' = Size
      /\ Passing("cipher")' = Passing("cipher")
      /\ Passed(Reported, Reported - 1, Reported - 1, Reported - 1)'
      /\ nic' = nic /\ network_frame' = network_frame
  BY PassingOthers, PassingData, PassingPassed, ThreadNames DEF Passes, InNetwork
<1>2. BusFree("bus2") => BusFree("bus2")'
  BY PassingHome, ThreadNames
<1>3. /\ "bus2" \in Buses
      /\ "send_frame" \in (Threads \ Buses) \ {"read_file"} /\ "send_frame" \in Threads
  BY ThreadNames
<1>4. CASE /\ Resumes("send_frame", "packet")
           /\ nic.packet_data = Passing("cipher") /\ nic.packet_length = Length16(Size)
           /\ r = TransmitOn(Size)
  <2>1. Resumes("send_frame", "packet")' /\ d = 0
    BY <1>3, <1>4, PassingHome
  <2>2. r - d = TransmitOn(Size')
    BY <1>1, <1>4, <2>1, PassingTime
  <2> QED
    BY <1>1, <1>2, <1>4, <2>1, <2>2 DEF InNetwork
<1>5. CASE /\ pc["send_frame"] = "transmitted" /\ wait["send_frame"].event = NoEvent
           /\ network_frame = Passing("cipher")
           /\ r = wait["send_frame"].time + ReceiveOn(Size)
  <2>1. /\ pc'["send_frame"] = "transmitted" /\ wait'["send_frame"].event = NoEvent
        /\ wait'["send_frame"].time = wait["send_frame"].time - d
    BY <1>3, <1>5 DEF Passes
  <2>2. r - d = (wait["send_frame"].time - d) + ReceiveOn(Size)
    BY <1>3, <1>5, PassingTime
  <2> QED
    BY <1>1, <1>2, <1>5, <2>1, <2>2 DEF InNetwork
<1> QED
  BY <1>4, <1>5 DEF InNetwork

LEMMA ReceiverPasses ==
  ASSUME ControlOK, DataOK, NEW r, InReceiver(r), NEW CONSTANT d, Passes(d)
  PROVE  InReceiver(r - d)'
<1>1. /\ OthersHome({"receive_frame", "bus2"})' /\ Reported' = Reported /\ Size' = Size
      /\ Passing("cipher")' = Passing("cipher")
      /\ Passed(Reported, Reported - 1, Reported - 1, Reported - 1)'
      /\ network_frame' = Passing("cipher")' /\ (Received => Received')
  BY PassingOthers, PassingData, PassingPassed, ThreadNames DEF Passes, InReceiver
<1>2. BusFree("bus2") => BusFree("bus2")'
  BY PassingHome, ThreadNames
<1>3. /\ "bus2" \in Buses
      /\ "receive_frame" \in (Threads \ Buses) \ {"read_file"} /\ "receive_frame" \in Threads
  BY ThreadNames
<1>4. CASE /\ Resumes("receive_frame", "frame") /\ BusFree("bus2")
           /\ r = ReceiveOn(Size)
  <2>1. Resumes("receive_frame", "frame")' /\ d = 0
    BY <1>3, <1>4, PassingHome
  <2>2. r - d = ReceiveOn(Size')
    BY <1>1, <1>4, <2>1, PassingTime
  <2> QED
    BY <1>1, <1>2, <1>4, <2>1, <2>2 DEF InReceiver
<1>5. CASE /\ pc["receive_frame"] = "written"
           /\ Asking("bus2", "receive_frame",
                Write("mem", (Reported - 1) % 2, Length16(Size), Passing("cipher")))
           /\ r = Remaining("bus2") + PacketLengthOn(Size)
  <2> DEFINE q == Write("mem", (Reported - 1) % 2, Length16(Size), Passing("cipher"))
  <2>1. StillAsks("bus2", "receive_frame", q) /\ Remaining("bus2")' = Remaining("bus2") - d
    BY <1>3, <1>5, PassingAsked
  <2>2. q' = q
    BY <1>1 DEF Read, Write, Blank
  <2> HIDE DEF q
  <2>3. Asking("bus2", "receive_frame", q)' /\ pc'["receive_frame"] = "written"
    BY <1>5, <2>1, <2>2 DEF StillAsks, Asking, Serving
  <2>4. r - d = (Remaining("bus2") - d) + PacketLengthOn(Size)
    BY <1>3, <1>5, PassingTime
  <2> QED
    BY <1>1, <1>2, <1>5, <2>1, <2>3, <2>4 DEF InReceiver, q
<1>6. CASE /\ Resumes("receive_frame", "written") /\ BusFree("bus2")
           /\ Received
           /\ r = PacketLengthOn(Size)
  <2>1. Resumes("receive_frame", "written")' /\ d = 0
    BY <1>3, <1>6, PassingHome
  <2>2. r - d = PacketLengthOn(Size')
    BY <1>1, <1>6, <2>1, PassingTime
  <2> QED
    BY <1>1, <1>2, <1>6, <2>1, <2>2 DEF InReceiver
<1> QED
  BY <1>4, <1>5, <1>6 DEF InReceiver

LEMMA Commanding2Passes ==
  ASSUME ControlOK, DataOK, NEW r, Commanding2(r), NEW CONSTANT d, Passes(d)
  PROVE  Commanding2(r - d)'
<1>1. /\ AtHome("aesDecrypt")' /\ Reported' = Reported /\ Size' = Size
      /\ DecryptCommand' = DecryptCommand
      /\ result' = result
      /\ (Passed(Reported, Reported, Reported - 1, Reported - 1) => Passed(Reported, Reported, Reported - 1, Reported - 1)')
      /\ (Passed(Reported, Reported, Reported, Reported - 1) => Passed(Reported, Reported, Reported, Reported - 1)')
  BY PassingHome, PassingData, PassingPassed, ThreadNames DEF Passes, Commanding2
<1>2. BusFree("bus2") => BusFree("bus2")'
  BY PassingHome, ThreadNames
<1>3. /\ "bus2" \in Buses
      /\ "decrypt_packet" \in (Threads \ Buses) \ {"read_file"} /\ "decrypt_packet" \in Threads
  BY ThreadNames
<1>4. CASE /\ Resumes("decrypt_packet", "packet") /\ BusFree("bus2")
           /\ Passed(Reported, Reported, Reported - 1, Reported - 1)
           /\ r = PacketLengthOn(Size)
  <2>1. Resumes("decrypt_packet", "packet")' /\ d = 0
    BY <1>3, <1>4, PassingHome
  <2>2. r - d = PacketLengthOn(Size')
    BY <1>1, <1>4, <2>1, PassingTime
  <2> QED
    BY <1>1, <1>2, <1>4, <2>1, <2>2 DEF Commanding2
<1>5. CASE /\ pc["decrypt_packet"] = "length"
           /\ Asking("bus2", "decrypt_packet",
                Read("nic", 0, 1))
           /\ Passed(Reported, Reported, Reported - 1, Reported - 1)
           /\ r = Remaining("bus2") + DecryptCommandOn(Size)
  <2> DEFINE q == Read("nic", 0, 1)
  <2>1. StillAsks("bus2", "decrypt_packet", q) /\ Remaining("bus2")' = Remaining("bus2") - d
    BY <1>3, <1>5, PassingAsked
  <2>2. q' = q
    BY <1>1 DEF Read, Write, Blank
  <2> HIDE DEF q
  <2>3. Asking("bus2", "decrypt_packet", q)' /\ pc'["decrypt_packet"] = "length"
    BY <1>5, <2>1, <2>2 DEF StillAsks, Asking, Serving
  <2>4. r - d = (Remaining("bus2") - d) + DecryptCommandOn(Size)
    BY <1>3, <1>5, PassingTime
  <2> QED
    BY <1>1, <1>2, <1>5, <2>1, <2>3, <2>4 DEF Commanding2, q
<1>6. CASE /\ Resumes("decrypt_packet", "length") /\ BusFree("bus2")
           /\ result["decrypt_packet"].len = Length16(Size)
           /\ Passed(Reported, Reported, Reported - 1, Reported - 1)
           /\ r = DecryptCommandOn(Size)
  <2>1. Resumes("decrypt_packet", "length")' /\ d = 0
    BY <1>3, <1>6, PassingHome
  <2>2. r - d = DecryptCommandOn(Size')
    BY <1>1, <1>6, <2>1, PassingTime
  <2> QED
    BY <1>1, <1>2, <1>6, <2>1, <2>2 DEF Commanding2
<1>7. CASE /\ pc["decrypt_packet"] = "decrypting"
           /\ Asking("bus2", "decrypt_packet",
                Write("crypto", 0, 4, DecryptCommand))
           /\ Passed(Reported, Reported, Reported, Reported - 1)
           /\ r = Remaining("bus2") + CipherReadOn(Size)
  <2> DEFINE q == Write("crypto", 0, 4, DecryptCommand)
  <2>1. StillAsks("bus2", "decrypt_packet", q) /\ Remaining("bus2")' = Remaining("bus2") - d
    BY <1>3, <1>7, PassingAsked
  <2>2. q' = q
    BY <1>1 DEF Read, Write, Blank
  <2> HIDE DEF q
  <2>3. Asking("bus2", "decrypt_packet", q)' /\ pc'["decrypt_packet"] = "decrypting"
    BY <1>7, <2>1, <2>2 DEF StillAsks, Asking, Serving
  <2>4. r - d = (Remaining("bus2") - d) + CipherReadOn(Size)
    BY <1>3, <1>7, PassingTime
  <2> QED
    BY <1>1, <1>2, <1>7, <2>1, <2>3, <2>4 DEF Commanding2, q
<1> QED
  BY <1>4, <1>5, <1>6, <1>7 DEF Commanding2

LEMMA Fetching2Passes ==
  ASSUME ControlOK, DataOK, NEW r, Fetching2(r), NEW CONSTANT d, Passes(d)
  PROVE  Fetching2(r - d)'
<1>1. /\ DecryptRegisters' /\ Reported' = Reported /\ Size' = Size
      /\ pc'["aesDecrypt"] = pc["aesDecrypt"]
      /\ Passed(Reported, Reported, Reported, Reported - 1)'
  BY PassingHome, PassingData, PassingPassed, ThreadNames DEF Passes, Fetching2
<1>2. BusFree("bus2") => BusFree("bus2")'
  BY PassingHome, ThreadNames
<1>3. /\ "bus2" \in Buses
      /\ "aesDecrypt" \in (Threads \ Buses) \ {"read_file"} /\ "aesDecrypt" \in Threads
      /\ "decrypt_packet" \in (Threads \ Buses) \ {"read_file"} /\ "decrypt_packet" \in Threads
  BY ThreadNames
<1>4. \/ /\ Resumes("decrypt_packet", "decrypting")'
         /\ pc["aesDecrypt"] = "read" => (Remaining("bus2") > 0 /\ d = 0)
      \/ pc'["decrypt_packet"] = "decrypted" /\ wait'["decrypt_packet"] = On("decrypt_done")
  BY <1>3, PassingHome DEF Fetching2
<1>5. ASSUME Remaining("bus2") > 0, d = 0, Remaining("bus2")' = Remaining("bus2") - d
      PROVE  Remaining("bus2")' > 0
  BY <1>3, <1>5, RemainingTime
<1>6. CASE /\ Resumes("aesDecrypt", "command") /\ BusFree("bus2")
           /\ r = CipherReadOn(Size)
  <2>1. Resumes("aesDecrypt", "command")' /\ d = 0
    BY <1>3, <1>6, PassingHome
  <2>2. r - d = CipherReadOn(Size')
    BY <1>1, <1>6, <2>1, PassingTime
  <2> QED
    BY <1>1, <1>2, <1>4, <1>6, <2>1, <2>2 DEF Fetching2, Resumes
<1>7. CASE /\ pc["aesDecrypt"] = "read"
           /\ Asking("bus2", "aesDecrypt",
                Read("mem", ReceivedBlock((Reported - 1) % 2), Length16(Size)))
           /\ r = Remaining("bus2") + DecryptOn(Size)
  <2> DEFINE q == Read("mem", ReceivedBlock((Reported - 1) % 2), Length16(Size))
  <2>1. StillAsks("bus2", "aesDecrypt", q) /\ Remaining("bus2")' = Remaining("bus2") - d
    BY <1>3, <1>7, PassingAsked
  <2>2. q' = q
    BY <1>1 DEF Read, Write, Blank
  <2> HIDE DEF q
  <2>3. Asking("bus2", "aesDecrypt", q)' /\ pc'["aesDecrypt"] = "read"
    BY <1>7, <2>1, <2>2 DEF StillAsks, Asking, Serving
  <2>4. r - d = (Remaining("bus2") - d) + DecryptOn(Size)
    BY <1>3, <1>7, PassingTime
  <2> QED
    BY <1>1, <1>2, <1>4, <1>5, <1>7, <2>1, <2>3, <2>4 DEF Fetching2, q
<1> QED
  BY <1>6, <1>7 DEF Fetching2

LEMMA DecryptingPasses ==
  ASSUME ControlOK, DataOK, NEW r, Decrypting(r), NEW CONSTANT d, Passes(d)
  PROVE  Decrypting(r - d)'
<1>1. /\ DecryptRegisters' /\ Reported' = Reported /\ Size' = Size
      /\ Passing("raw")' = Passing("raw")
      /\ result' = result /\ crypto' = crypto
      /\ (Passed(Reported, Reported, Reported, Reported - 1) => Passed(Reported, Reported, Reported, Reported - 1)')
      /\ (Passed(Reported, Reported, Reported, Reported) => Passed(Reported, Reported, Reported, Reported)')
  BY PassingHome, PassingData, PassingPassed, ThreadNames DEF Passes, Decrypting
<1>2. BusFree("bus2") => BusFree("bus2")'
  BY PassingHome, ThreadNames
<1>3. /\ "bus2" \in Buses
      /\ "aesDecrypt" \in (Threads \ Buses) \ {"read_file"} /\ "aesDecrypt" \in Threads
      /\ "decrypt_packet" \in (Threads \ Buses) \ {"read_file"} /\ "decrypt_packet" \in Threads
  BY ThreadNames
<1>4. pc'["decrypt_packet"] = "decrypted" /\ wait'["decrypt_packet"] = On("decrypt_done")
  BY <1>3, PassingHome DEF Decrypting
<1>5. CipherIn(result["aesDecrypt"]) => CipherIn(result["aesDecrypt"])'
  BY <1>1 DEF CipherIn
<1>6. CASE /\ Resumes("aesDecrypt", "read") /\ BusFree("bus2")
           /\ CipherIn(result["aesDecrypt"])
           /\ Passed(Reported, Reported, Reported, Reported - 1)
           /\ r = DecryptOn(Size)
  <2>1. Resumes("aesDecrypt", "read")' /\ d = 0
    BY <1>3, <1>6, PassingHome
  <2>2. r - d = DecryptOn(Size')
    BY <1>1, <1>6, <2>1, PassingTime
  <2> QED
    BY <1>1, <1>2, <1>4, <1>5, <1>6, <2>1, <2>2 DEF Decrypting
<1>7. CASE /\ pc["aesDecrypt"] = "crypted" /\ wait["aesDecrypt"].event = NoEvent /\ BusFree("bus2")
           /\ crypto["bus2"].bufferInt = Passing("raw")
           /\ Passed(Reported, Reported, Reported, Reported - 1)
           /\ r = wait["aesDecrypt"].time + ClearWriteOn(Size)
  <2>1. /\ pc'["aesDecrypt"] = "crypted" /\ wait'["aesDecrypt"].event = NoEvent
        /\ wait'["aesDecrypt"].time = wait["aesDecrypt"].time - d
    BY <1>3, <1>7 DEF Passes
  <2>2. r - d = (wait["aesDecrypt"].time - d) + ClearWriteOn(Size)
    BY <1>3, <1>7, PassingTime
  <2> QED
    BY <1>1, <1>2, <1>4, <1>7, <2>1, <2>2 DEF Decrypting
<1>8. CASE /\ pc["aesDecrypt"] = "written"
           /\ Asking("bus2", "aesDecrypt",
                Write("mem", ClearBlock((Reported - 1) % 2), Length16(Size), Passing("raw")))
           /\ Passed(Reported, Reported, Reported, Reported - 1)
           /\ r = Remaining("bus2")
  <2> DEFINE q == Write("mem", ClearBlock((Reported - 1) % 2), Length16(Size), Passing("raw"))
  <2>1. StillAsks("bus2", "aesDecrypt", q) /\ Remaining("bus2")' = Remaining("bus2") - d
    BY <1>3, <1>8, PassingAsked
  <2>2. q' = q
    BY <1>1 DEF Read, Write, Blank
  <2> HIDE DEF q
  <2>3. Asking("bus2", "aesDecrypt", q)' /\ pc'["aesDecrypt"] = "written"
    BY <1>8, <2>1, <2>2 DEF StillAsks, Asking, Serving
  <2>4. r - d = Remaining("bus2") - d
    BY <1>8
  <2> QED
    BY <1>1, <1>2, <1>4, <1>8, <2>1, <2>3, <2>4 DEF Decrypting, q
<1>9. CASE /\ Resumes("aesDecrypt", "written") /\ BusFree("bus2")
           /\ Passed(Reported, Reported, Reported, Reported)
           /\ r = 0
  <2>1. Resumes("aesDecrypt", "written")' /\ d = 0
    BY <1>3, <1>9, PassingHome
  <2>2. r - d = 0
    BY <1>1, <1>9, <2>1, PassingTime
  <2> QED
    BY <1>1, <1>2, <1>4, <1>9, <2>1, <2>2 DEF Decrypting
<1> QED
  BY <1>6, <1>7, <1>8, <1>9 DEF Decrypting

LEMMA DecryptedPasses ==
  ASSUME ControlOK, DataOK, NEW r, Decrypted(r), NEW CONSTANT d, Passes(d)
  PROVE  Decrypted(r - d)'
<1>1. /\ AtHome("aesDecrypt")' /\ Reported' = Reported /\ Size' = Size
      /\ Passed(Reported, Reported, Reported, Reported)'
  BY PassingHome, PassingData, PassingPassed, ThreadNames DEF Passes, Decrypted
<1>2. BusFree("bus2") => BusFree("bus2")'
  BY PassingHome, ThreadNames
<1>3. /\ "bus2" \in Buses
      /\ "decrypt_packet" \in (Threads \ Buses) \ {"read_file"} /\ "decrypt_packet" \in Threads
  BY ThreadNames
<1>4. CASE /\ Resumes("decrypt_packet", "decrypted") /\ BusFree("bus2")
           /\ r = 0
  <2>1. Resumes("decrypt_packet", "decrypted")' /\ d = 0
    BY <1>3, <1>4, PassingHome
  <2>2. r - d = 0
    BY <1>1, <1>4, <2>1, PassingTime
  <2> QED
    BY <1>1, <1>2, <1>4, <2>1, <2>2 DEF Decrypted
<1> QED
  BY <1>4 DEF Decrypted

LEMMA Crypto2Passes ==
  ASSUME ControlOK, DataOK, NEW r, InCrypto2(r), NEW CONSTANT d, Passes(d)
  PROVE  InCrypto2(r - d)'
<1>1. OthersHome({"decrypt_packet", "aesDecrypt", "bus2"})' /\ Received'
  BY PassingOthers, PassingData DEF InCrypto2
<1>2. network_frame' = Passing("cipher")'
  BY PassingData DEF InCrypto2, Passes
<1>3. Commanding2(r - d)' \/ Fetching2(r - d)' \/ Decrypting(r - d)' \/ Decrypted(r - d)'
  BY Commanding2Passes, Fetching2Passes, DecryptingPasses, DecryptedPasses DEF InCrypto2
<1> QED
  BY <1>1, <1>2, <1>3 DEF InCrypto2

\* The work goes on as it was, with less time to go.
LEMMA WorkPasses ==
  ASSUME ControlOK, DataOK, NEW r, Working(r), NEW CONSTANT d, Passes(d)
  PROVE  Working(r - d)'
<1>1. InCrypto1(r) => InCrypto1(r - d)'
  BY Crypto1Passes
<1>2. InCard(r) => InCard(r - d)'
  BY CardPasses
<1>3. InNetwork(r) => InNetwork(r - d)'
  BY NetworkPasses
<1>4. InReceiver(r) => InReceiver(r - d)'
  BY ReceiverPasses
<1>5. InCrypto2(r) => InCrypto2(r - d)'
  BY Crypto2Passes
<1> QED
  BY <1>1, <1>2, <1>3, <1>4, <1>5 DEF Working

-----------------------------------------------------------------------------
(* What may pass meanwhile. *)

LEMMA OnIsNotReady == (\A e : On(e) = Ready => e = "none") /\ Ready.event = NoEvent /\ Ready.time = 0
  BY DEF On, Ready, NoEvent

LEMMA BeginPasses ==
  ASSUME IInv, NEW CONSTANT c \in Buses, Begin(c)
  PROVE  Passes(0) /\ Undisturbed /\ \A p \in Threads \ {c} : Keeps(p)
<1>1. ControlOK /\ DataOK /\ QueueOK(c) /\ Resumes(c, "front")
  BY DEF IInv, Begin
<1>2. queue[c] # <<>> /\ wait[c] = Ready
  BY <1>1 DEF QueueOK, Resumes, IsReady
<1>3. /\ queue' = queue
      /\ pc'[c] = "moving" /\ wait'[c].event = NoEvent
      /\ Remaining(c)' = Remaining(c)
      /\ \A p \in Threads \ {c} : Keeps(p)
  BY <1>1, <1>2, Begun
<1>4. UNCHANGED <<result, mem, enc, up, crypto, nic, network_frame, mem_num>>
  BY DEF Begin
<1>5. Undisturbed
  BY <1>3, <1>4, ThreadNames DEF Undisturbed
<1>6. Reported' = Reported /\ Size' = Size
  BY <1>5, FrameKept
<1>7. ASSUME NEW t \in Threads \ {"read_file"}
      PROVE  /\ t \notin Buses => pc'[t] = pc[t]
             /\ \A e : e # "none" /\ wait[t] = On(e) => Keeps(t)
             /\ t \notin Buses /\ IsReady(t) => 0 = 0 /\ Keeps(t)
             /\ t \notin Buses /\ wait[t].event = NoEvent =>
                  wait'[t].event = NoEvent /\ wait[t].time \in Nat /\ wait'[t].time = wait[t].time - 0
  <2>1. CASE t = c
    BY <1>2, <2>1, OnIsNotReady
  <2>2. CASE t # c
    <3>1. Keeps(t) /\ wait[t].time \in Nat
      BY <1>1, <1>3, <2>2, WaitTime
    <3>2. wait[t].time - 0 = wait[t].time
      BY <3>1
    <3> QED
      BY <3>1, <3>2 DEF Keeps
  <2> QED
    BY <2>1, <2>2
<1>8. ASSUME NEW b \in Buses
      PROVE  Remaining(b) \in Nat /\ (Serving(b) => Serving(b)' /\ Remaining(b)' = Remaining(b) - 0)
  <2>1. Remaining(b) \in Nat /\ b \in Threads
    BY <1>1, RemainingTime DEF Threads
  <2>2. CASE b = c
    BY <1>3, <2>1, <2>2 DEF Serving
  <2>3. CASE b # c
    <3>1. Keeps(b)
      BY <1>3, <2>1, <2>3
    <3>2. Serving(b) => Serving(b)'
      BY <3>1 DEF Serving, Resumes, IsReady, Keeps
    <3>3. Remaining(b)' = Remaining(b)
      BY <1>3, <3>1 DEF Remaining, Keeps
    <3> QED
      BY <2>1, <3>2, <3>3
  <2> QED
    BY <2>2, <2>3
<1>9. Passes(0)
  BY <1>3, <1>4, <1>6, <1>7, <1>8 DEF Passes
<1> QED
  BY <1>3, <1>5, <1>9

\* read_file's own steps, without a report.
LEMMA OwnStepPasses ==
  ASSUME ControlOK, DataOK, NEW CONSTANT seg, NEW w, Suspend("read_file", seg, w, {}),
         UNCHANGED <<queue, result, mem, up, crypto, nic, network_frame, mem_num>>,
         Reported' = Reported, Size' = Size
  PROVE  Passes(0) /\ \A p \in Threads \ {"read_file"} : Keeps(p)
<1>1. \A p \in Threads \ {"read_file"} : Keeps(p)
  BY Alone, ThreadNames
<1>2. ASSUME NEW t \in Threads \ {"read_file"}
      PROVE  /\ t \notin Buses => pc'[t] = pc[t]
             /\ \A e : e # "none" /\ wait[t] = On(e) => Keeps(t)
             /\ t \notin Buses /\ IsReady(t) => 0 = 0 /\ Keeps(t)
             /\ t \notin Buses /\ wait[t].event = NoEvent =>
                  wait'[t].event = NoEvent /\ wait[t].time \in Nat /\ wait'[t].time = wait[t].time - 0
  <2>1. Keeps(t) /\ wait[t].time \in Nat
    BY <1>1, WaitTime
  <2>2. wait[t].time - 0 = wait[t].time
    BY <2>1
  <2> QED
    BY <2>1, <2>2 DEF Keeps
<1>3. ASSUME NEW b \in Buses
      PROVE  Remaining(b) \in Nat /\ (Serving(b) => Serving(b)' /\ Remaining(b)' = Remaining(b) - 0)
  <2>1. Remaining(b) \in Nat /\ Keeps(b)
    BY <1>1, RemainingTime, ThreadNames
  <2>2. Serving(b) => Serving(b)'
    BY <2>1 DEF Serving, Resumes, IsReady, Keeps
  <2>3. Remaining(b)' = Remaining(b)
    BY <2>1 DEF Remaining, Keeps
  <2> QED
    BY <2>1, <2>2, <2>3
<1> QED
  BY <1>1, <1>2, <1>3 DEF Passes

LEMMA PauseShape ==
  ASSUME ControlOK, NEW p \in Threads
  PROVE  wait[p] \in Pauses \/ \E e : e # "none" /\ wait[p] = On(e)
<1>1. Waits(p, pc[p], wait[p])
  BY DEF ControlOK
<1>2. Ready \in Pauses
  BY DEF Ready, Pauses
<1>3. /\ "none" \notin Threads
      /\ \A b \in Buses : b \in Threads /\ AesEvent[b] # "none" /\ AesDoneEvent[b] # "none" /\ Aes[b] # "none"
  BY DEF Threads, Buses, Sender, Receiver, AesEvent, AesDoneEvent, Aes
<1>4. CASE p \in Buses
  BY <1>1, <1>2, <1>3, <1>4 DEF Waits, BusWaits
<1>5. CASE p = "send_packet"
  BY <1>1, <1>2, <1>3, <1>5 DEF Waits, SendPacketWaits
<1>6. CASE p = "read_file"
  BY <1>1, <1>2, <1>3, <1>6 DEF Waits, ReadFileWaits
<1>7. CASE p \in {"aesEncrypt", "aesDecrypt"}
  <2>1. \E b \in Buses : AesWaits(b, pc[p], wait[p])
    BY <1>1, <1>7, ThreadNames DEF Waits
  <2> QED
    BY <1>2, <1>3, <2>1 DEF AesWaits
<1>8. CASE p = "read_packet"
  BY <1>1, <1>2, <1>8 DEF Waits, ReadPacketWaits
<1>9. CASE p = "send_frame"
  BY <1>1, <1>2, <1>9 DEF Waits, SendFrameWaits
<1>10. CASE p = "setup"
  BY <1>1, <1>2, <1>10 DEF Waits, SetupWaits
<1>11. CASE p = "receive_frame"
  BY <1>1, <1>2, <1>11 DEF Waits, ReceiveFrameWaits
<1>12. CASE p = "decrypt_packet"
  BY <1>1, <1>2, <1>12 DEF Waits, DecryptPacketWaits
<1> QED
  BY <1>4, <1>5, <1>6, <1>7, <1>8, <1>9, <1>10, <1>11, <1>12, ThreadNames

\* How far time goes at once.
Elapses(d) ==
  /\ d \in Nat /\ d > 0
  /\ pc' = pc
  /\ \A p \in Threads : ~IsReady(p)
  /\ \A p \in Threads : \A e : e # "none" /\ wait[p] = On(e) => wait'[p] = wait[p]
  /\ \A p \in Threads : wait[p].event = NoEvent =>
       /\ d <= wait[p].time /\ wait[p].time \in Nat
       /\ wait'[p].event = NoEvent /\ wait'[p].time = wait[p].time - d
  /\ enc' = [enc EXCEPT !.due = IF @ > d THEN @ - d ELSE 0]
  /\ UNCHANGED <<queue, result, mem, up, crypto, nic, network_frame, mem_num>>

LEMMA Ticks ==
  ASSUME ControlOK, Tick
  PROVE  \E d \in Nat : Elapses(d)
<1>1. PICK t \in Threads :
        /\ Elapse(wait[t].time)
        /\ enc' = [enc EXCEPT !.due = IF @ > wait[t].time THEN @ - wait[t].time ELSE 0]
  BY DEF Tick
<1> DEFINE d == wait[t].time
<1>2. d \in Nat
  BY WaitTime
<1>3. Elapse(d) /\ enc' = [enc EXCEPT !.due = IF @ > d THEN @ - d ELSE 0]
  BY <1>1
<1> HIDE DEF d
<1>4. /\ d > 0 /\ pc' = pc
      /\ \A p \in Threads : ~IsReady(p)
      /\ \A p \in Threads : wait[p].time > 0 => d <= wait[p].time
      /\ \A p \in Threads : wait'[p] = CASE wait[p].time = 0 -> wait[p]
                                         [] wait[p].time = d -> Ready
                                         [] OTHER -> [wait[p] EXCEPT !.time = @ - d]
  BY <1>3 DEF ControlOK, Elapse
<1>5. ASSUME NEW p \in Threads, NEW e, e # "none", wait[p] = On(e)
      PROVE  wait'[p] = wait[p]
  <2>1. wait[p].time = 0
    BY <1>5 DEF On
  <2>2. d # 0
    BY <1>2, <1>4
  <2>3. wait[p].time # d
    BY <2>1, <2>2
  <2>4. wait'[p] = CASE wait[p].time = 0 -> wait[p]
                     [] wait[p].time = d -> Ready
                     [] OTHER -> [wait[p] EXCEPT !.time = @ - d]
    BY <1>4
  <2> QED
    BY <2>1, <2>3, <2>4, Zenon
<1>6. ASSUME NEW p \in Threads, wait[p].event = NoEvent
      PROVE  /\ d <= wait[p].time /\ wait[p].time \in Nat
             /\ wait'[p].event = NoEvent /\ wait'[p].time = wait[p].time - d
  <2>1. wait[p] \in Pauses
    <3>1. (\A e : On(e).event = e) /\ NoEvent = "none"
      BY DEF On, NoEvent
    <3> QED
      BY <1>6, <3>1, PauseShape
  <2>2. wait[p] # Ready
    BY <1>4 DEF IsReady
  <2>3. wait[p].time \in Nat /\ wait[p] = [event |-> NoEvent, time |-> wait[p].time]
    BY <2>1 DEF Pauses
  <2>4. wait[p].time > 0
    BY <2>2, <2>3 DEF Ready
  <2>5. d <= wait[p].time
    BY <1>4, <2>4
  <2>6. CASE wait[p].time = d
    <3>1. wait'[p] = Ready
      <4>1. wait[p].time # 0
        BY <2>3, <2>4
      <4>2. wait'[p] = CASE wait[p].time = 0 -> wait[p]
                         [] wait[p].time = d -> Ready
                         [] OTHER -> [wait[p] EXCEPT !.time = @ - d]
        BY <1>4
      <4> QED
        BY <2>6, <4>1, <4>2, Zenon
    <3> QED
      BY <1>2, <2>3, <2>5, <2>6, <3>1 DEF Ready
  <2>7. CASE wait[p].time # d
    <3>1. wait'[p] = [wait[p] EXCEPT !.time = @ - d]
      BY <1>2, <1>4, <2>3, <2>4, <2>7
    <3> QED
      BY <2>1, <2>3, <2>5, <3>1 DEF Pauses
  <2> QED
    BY <2>6, <2>7
<1>7. UNCHANGED <<queue, result, mem, up, crypto, nic, network_frame, mem_num>>
  BY DEF Tick
<1>8. Elapses(d)
  BY <1>2, <1>3, <1>4, <1>5, <1>6, <1>7 DEF Elapses
<1> QED
  BY <1>2, <1>8

LEMMA TickPasses ==
  ASSUME ControlOK, DataOK, NEW CONSTANT d \in Nat, Elapses(d)
  PROVE  Passes(d)
<1>1. /\ pc' = pc
      /\ \A p \in Threads : ~IsReady(p)
      /\ \A p \in Threads : \A e : e # "none" /\ wait[p] = On(e) => wait'[p] = wait[p]
      /\ \A p \in Threads : wait[p].event = NoEvent =>
           /\ d <= wait[p].time /\ wait[p].time \in Nat
           /\ wait'[p].event = NoEvent /\ wait'[p].time = wait[p].time - d
      /\ UNCHANGED <<queue, result, mem, up, crypto, nic, network_frame, mem_num>>
  BY DEF Elapses
<1>2. enc'.count = enc.count /\ enc'.frame_length = enc.frame_length
  BY DEF Elapses, DataOK, RegistersOK
<1>3. Reported' = Reported /\ Size' = Size
  BY <1>1, <1>2 DEF Reported, Size
<1>4. ASSUME NEW b \in Buses
      PROVE  Remaining(b) \in Nat /\ (Serving(b) => Serving(b)' /\ Remaining(b)' = Remaining(b) - d)
  <2>1. Remaining(b) \in Nat /\ b \in Threads
    BY RemainingTime, ThreadNames
  <2>2. ASSUME Serving(b) PROVE Serving(b)' /\ Remaining(b)' = Remaining(b) - d
    <3>1. pc[b] = "moving" /\ wait[b].event = NoEvent
      BY <1>1, <2>1, <2>2 DEF Serving, Resumes
    <3> QED
      BY <1>1, <2>1, <3>1 DEF Serving, Remaining
  <2> QED
    BY <2>1, <2>2
<1> QED
  BY <1>1, <1>3, <1>4 DEF Passes, Keeps

-----------------------------------------------------------------------------
(* The encoder, while a frame is on its way. *)

LEMMA Periods ==
  /\ EncodeTime \in Nat /\ EncodeTime > 0 /\ FramePeriod \in Nat /\ EncodeTime < FramePeriod
<1>1. EncodeTime = 3500000 /\ FramePeriod = 33000000
  BY SMT DEF EncodeTime, FramePeriod
<1> QED
  BY <1>1, SMT

LEMMA EncPasses ==
  ASSUME DataOK, NEW CONSTANT d \in Nat, enc' = [enc EXCEPT !.due = IF @ > d THEN @ - d ELSE 0]
  PROVE  /\ enc'.mem_address_dst = enc.mem_address_dst /\ enc'.buffer_ptr = enc.buffer_ptr
         /\ enc'.frame_length = enc.frame_length /\ enc'.adr_num = enc.adr_num
         /\ enc'.count = enc.count
         /\ enc.due \in Nat
         /\ enc.due > d => enc'.due = enc.due - d
         /\ enc'.due \in Nat
<1> DEFINE x == IF enc.due > d THEN enc.due - d ELSE 0
<1>1. enc' = [enc EXCEPT !.due = x] /\ enc.due \in 0..FramePeriod
  BY DEF DataOK, RegistersOK
<1>2. enc.due \in Nat /\ x \in Nat /\ (enc.due > d => x = enc.due - d)
  BY <1>1, Periods
<1> HIDE DEF x
<1> QED
  BY <1>1, <1>2 DEF DataOK, RegistersOK

LEMMA LastingPasses ==
  ASSUME Lasting, NEW CONSTANT d, Passes(d),
         enc'.adr_num = enc.adr_num, enc'.mem_address_dst = enc.mem_address_dst,
         pc'["read_file"] # "start" \/ IsReady("read_file")' =>
           pc["read_file"] # "start" \/ IsReady("read_file")
  PROVE  Lasting'
<1>1. Reported' = Reported /\ mem' = mem /\ network_frame' = network_frame
  BY DEF Passes
<1> QED
  BY <1>1 DEF Lasting

\* read_file does nothing but to go on to the next frame.
LEMMA EncoderWaits ==
  ASSUME NEW r \in Nat, Encoding(r)
  PROVE  /\ ~StartReading /\ ~FrameEncoded /\ ~FrameWritten
         /\ pc["read_file"] # "start" /\ wait["read_file"].event # "read"
<1>1. ~Resumes("read_file", "start") /\ ~Resumes("read_file", "written")
  BY DEF Encoding, Resumes
<1>2. ~Resumes("read_file", "encoded")
  <2>1. ASSUME Resumes("read_file", "encoded") PROVE FALSE
    <3>1. r < wait["read_file"].time /\ wait["read_file"].time = 0
      BY <2>1, OnIsNotReady DEF Encoding, Resumes, IsReady
    <3> QED
      BY <3>1
  <2> QED
    BY <2>1
<1>3. wait["read_file"].event # "read" /\ pc["read_file"] # "start"
  BY DEF Encoding, On, NoEvent
<1> QED
  BY <1>1, <1>2, <1>3 DEF StartReading, FrameEncoded, FrameWritten

\* What NextFrame may have done, and nothing else has changed.
Begins(e) ==
  \/ /\ pc'["read_file"] = "encoded" /\ wait'["read_file"] = For(EncodeTime)
     /\ enc'.buffer_ptr \in FrameLens /\ enc'.due = FramePeriod
     /\ e.count < Frames
  \/ pc'["read_file"] = "returned" /\ wait'["read_file"] = On("nothing")

LEMMA NextFrameBegins ==
  ASSUME ControlOK, NEW e, EncoderOK(e), NextFrame(e, {})
  PROVE  /\ Begins(e)
         /\ enc'.mem_address_dst = e.mem_address_dst /\ enc'.frame_length = e.frame_length
         /\ enc'.adr_num = e.adr_num /\ enc'.count = e.count
         /\ \E seg, w : Suspend("read_file", seg, w, {})
         /\ \A p \in Threads \ {"read_file"} : Keeps(p)
         /\ pc'["read_file"] \in {"encoded", "returned"}
<1>1. "read_file" \in Threads
  BY ThreadNames
<1>2. CASE /\ e.count < Frames
           /\ \E len \in FrameLens : enc' = [e EXCEPT !.buffer_ptr = len, !.due = FramePeriod]
           /\ Suspend("read_file", "encoded", For(EncodeTime), {})
  <2>1. PICK len \in FrameLens : enc' = [e EXCEPT !.buffer_ptr = len, !.due = FramePeriod]
    BY <1>2
  <2>2. /\ enc'.buffer_ptr = len /\ enc'.due = FramePeriod
        /\ enc'.mem_address_dst = e.mem_address_dst /\ enc'.frame_length = e.frame_length
        /\ enc'.adr_num = e.adr_num /\ enc'.count = e.count
    BY <2>1 DEF EncoderOK
  <2>3. /\ pc'["read_file"] = "encoded" /\ wait'["read_file"] = For(EncodeTime)
        /\ \A p \in Threads \ {"read_file"} : Keeps(p)
    BY <1>1, <1>2, Alone
  <2> QED
    BY <1>2, <2>2, <2>3 DEF Begins
<1>3. CASE enc' = e /\ Suspend("read_file", "returned", On("nothing"), {})
  <2>1. /\ pc'["read_file"] = "returned" /\ wait'["read_file"] = On("nothing")
        /\ \A p \in Threads \ {"read_file"} : Keeps(p)
    BY <1>1, <1>3, Alone
  <2> QED
    BY <1>3, <2>1 DEF Begins
<1> QED
  BY <1>2, <1>3 DEF NextFrame

\* The next frame is begun, and the frames so far have been reported already.
Continues ==
  /\ Passes(0)
  /\ enc'.adr_num = enc.adr_num /\ enc'.mem_address_dst = enc.mem_address_dst
  /\ pc'["read_file"] \in {"encoded", "returned"}
  /\ \/ /\ pc'["read_file"] = "encoded" /\ wait'["read_file"] = For(EncodeTime)
        /\ enc'.buffer_ptr \in FrameLens /\ enc'.due = FramePeriod
     \/ pc'["read_file"] = "returned" /\ wait'["read_file"] = On("nothing")
  /\ \A p \in Threads \ {"read_file"} : Keeps(p)

LEMMA Continuing ==
  ASSUME ControlOK, DataOK, CountOK, StartReading \/ FramePaced
  PROVE  Continues
<1>1. EncoderOK(enc) /\ enc.count \in Nat
  BY FramesAssumption DEF DataOK, RegistersOK, EncoderOK, FramesAssumption
<1>2. UNCHANGED <<queue, result, mem, up, crypto, nic, network_frame, mem_num>>
  BY DEF StartReading, FramePaced
<1>3. CASE StartReading
  <2>1. NextFrame(enc, {}) /\ pc["read_file"] = "start"
    BY <1>3 DEF StartReading, Resumes
  <2>2. /\ Begins(enc)
        /\ enc'.mem_address_dst = enc.mem_address_dst /\ enc'.frame_length = enc.frame_length
        /\ enc'.adr_num = enc.adr_num /\ enc'.count = enc.count
        /\ \E seg, w : Suspend("read_file", seg, w, {})
        /\ \A p \in Threads \ {"read_file"} : Keeps(p)
        /\ pc'["read_file"] \in {"encoded", "returned"}
    BY <1>1, <2>1, NextFrameBegins
  <2>3. Reported' = Reported /\ Size' = Size
    BY <2>1, <2>2 DEF Reported, Size
  <2>4. Passes(0)
    BY <1>2, <2>2, <2>3, OwnStepPasses
  <2> QED
    BY <2>2, <2>4 DEF Continues, Begins
<1>4. CASE FramePaced
  <2> DEFINE e == [enc EXCEPT !.count = @ + 1]
  <2>1. NextFrame(e, {}) /\ pc["read_file"] = "paced"
    BY <1>4 DEF FramePaced, Resumes
  <2>2. /\ EncoderOK(e) /\ e.count = enc.count + 1 /\ e.frame_length = enc.frame_length
        /\ e.adr_num = enc.adr_num /\ e.mem_address_dst = enc.mem_address_dst
    <3>1. enc.count + 1 \in 0..Frames
      BY <1>1, <2>1, FramesAssumption DEF CountOK, FramesAssumption
    <3> QED
      BY <1>1, <3>1 DEF EncoderOK
  <2> HIDE DEF e
  <2>3. /\ Begins(e)
        /\ enc'.mem_address_dst = e.mem_address_dst /\ enc'.frame_length = e.frame_length
        /\ enc'.adr_num = e.adr_num /\ enc'.count = e.count
        /\ \E seg, w : Suspend("read_file", seg, w, {})
        /\ \A p \in Threads \ {"read_file"} : Keeps(p)
        /\ pc'["read_file"] \in {"encoded", "returned"}
    BY <2>1, <2>2, NextFrameBegins
  <2>4. Reported' = Reported /\ Size' = Size
    BY <1>1, <2>1, <2>2, <2>3 DEF Reported, Size
  <2>5. Passes(0)
    BY <1>2, <2>3, <2>4, OwnStepPasses
  <2> QED
    BY <2>2, <2>3, <2>5 DEF Continues, Begins
<1> QED
  BY <1>3, <1>4

LEMMA EncodingContinues ==
  ASSUME NEW r \in Nat, Encoding(r), FramePaced, Continues
  PROVE  Encoding(r)'
<1>1. r < EncodeTime
  <2>1. pc["read_file"] = "paced" /\ wait["read_file"].time = 0
    BY OnIsNotReady DEF FramePaced, Resumes, IsReady
  <2>2. r < 0 + EncodeTime
    BY <2>1 DEF Encoding
  <2> QED
    BY <2>2, Periods
<1>2. Size' \in FrameLens
  BY DEF Encoding, Continues, Passes
<1>3. CASE /\ pc'["read_file"] = "encoded" /\ wait'["read_file"] = For(EncodeTime)
           /\ enc'.buffer_ptr \in FrameLens /\ enc'.due = FramePeriod
  <2>1. wait'["read_file"].event = NoEvent /\ wait'["read_file"].time = EncodeTime
    BY <1>3 DEF For
  <2>2. FramePeriod = FramePeriod - EncodeTime + EncodeTime
    BY Periods
  <2> QED
    BY <1>1, <1>2, <1>3, <2>1, <2>2 DEF Encoding
<1>4. CASE pc'["read_file"] = "returned" /\ wait'["read_file"] = On("nothing")
  BY <1>2, <1>4 DEF Encoding
<1> QED
  BY <1>3, <1>4 DEF Continues

LEMMA EncodingTicks ==
  ASSUME DataOK, NEW r \in Nat, Encoding(r), NEW CONSTANT d \in Nat, Elapses(d)
  PROVE  Encoding(r - d)'
<1>1. /\ enc'.buffer_ptr = enc.buffer_ptr /\ enc'.frame_length = enc.frame_length
      /\ enc.due > d => enc'.due = enc.due - d
  BY EncPasses DEF Elapses
<1>2. /\ pc' = pc
      /\ wait["read_file"].event = NoEvent =>
           /\ d <= wait["read_file"].time /\ wait["read_file"].time \in Nat
           /\ wait'["read_file"].event = NoEvent
           /\ wait'["read_file"].time = wait["read_file"].time - d
      /\ wait["read_file"] = On("nothing") => wait'["read_file"] = wait["read_file"]
  BY ThreadNames DEF Elapses
<1>3. Size' \in FrameLens
  BY <1>1 DEF Encoding, Size
<1>4. CASE /\ pc["read_file"] = "encoded" /\ wait["read_file"].event = NoEvent
           /\ enc.buffer_ptr \in FrameLens
           /\ enc.due = FramePeriod - EncodeTime + wait["read_file"].time
           /\ r < wait["read_file"].time
  <2> DEFINE t == wait["read_file"].time
  <2>1. t \in Nat /\ d <= t /\ wait'["read_file"].time = t - d
    BY <1>2, <1>4
  <2> HIDE DEF t
  <2>2. enc.due = FramePeriod - EncodeTime + t /\ r < t
    BY <1>4 DEF t
  <2>3. enc.due > d /\ enc.due - d = FramePeriod - EncodeTime + (t - d) /\ r - d < t - d
    BY <2>1, <2>2, Periods
  <2> QED
    BY <1>1, <1>2, <1>3, <1>4, <2>1, <2>3 DEF Encoding
<1>5. CASE /\ pc["read_file"] = "paced" /\ wait["read_file"].event = NoEvent
           /\ r < wait["read_file"].time + EncodeTime
  <2> DEFINE t == wait["read_file"].time
  <2>1. t \in Nat /\ d <= t /\ wait'["read_file"].time = t - d
    BY <1>2, <1>5
  <2> HIDE DEF t
  <2>2. r < t + EncodeTime
    BY <1>5 DEF t
  <2>3. r - d < (t - d) + EncodeTime
    BY <2>1, <2>2, Periods
  <2> QED
    BY <1>2, <1>3, <1>5, <2>1, <2>3 DEF Encoding
<1>6. CASE pc["read_file"] = "returned" /\ wait["read_file"] = On("nothing")
  BY <1>2, <1>3, <1>6 DEF Encoding
<1> QED
  BY <1>4, <1>5, <1>6 DEF Encoding

-----------------------------------------------------------------------------
(* A step while a frame is on its way. *)

OnTheWay == \E r : Working(r) /\ Encoding(r)

LEMMA AdvancesOn ==
  ASSUME Lasting, NEW r, Encoding(r), Advances(r)
  PROVE  Lasting' /\ OnTheWay'
<1>1. /\ Working(r)' /\ Undisturbed
      /\ mem'["bus1"][3] = mem["bus1"][3] /\ mem'["bus2"][2] = mem["bus2"][2]
      /\ network_frame' = network_frame \/ network_frame'.form = "cipher"
  BY DEF Advances
<1>2. Encoding(r)' /\ Reported' = Reported
  BY <1>1, FrameKept
<1>3. /\ enc' = enc /\ pc'["read_file"] = pc["read_file"]
      /\ wait'["read_file"] = wait["read_file"]
  BY <1>1 DEF Undisturbed, Keeps
<1>4. Lasting'
  BY <1>1, <1>2, <1>3 DEF Lasting, IsReady
<1> QED
  BY <1>1, <1>2, <1>4 DEF OnTheWay

LEMMA PassesOn ==
  ASSUME IInv, Lasting, NEW r \in Nat, Working(r), NEW CONSTANT d \in Nat, Passes(d),
         Encoding(r - d)',
         enc'.adr_num = enc.adr_num, enc'.mem_address_dst = enc.mem_address_dst,
         pc["read_file"] # "start"
  PROVE  Lasting' /\ OnTheWay'
<1>1. Working(r - d)'
  BY WorkPasses DEF IInv
<1>2. Lasting'
  BY LastingPasses
<1> QED
  BY <1>1, <1>2 DEF OnTheWay

LEMMA WorkingBegin ==
  ASSUME IInv, Lasting, NEW r \in Nat, Working(r), Encoding(r), NEW CONSTANT b \in Buses, Begin(b)
  PROVE  Lasting' /\ OnTheWay'
<1>1. Passes(0) /\ Undisturbed
  BY BeginPasses
<1>2. r - 0 = r
  OBVIOUS
<1>3. Encoding(r)'
  BY <1>1, FrameKept
<1>4. Encoding(r - 0)'
  BY <1>2, <1>3
<1>5. enc' = enc /\ pc["read_file"] # "start"
  BY <1>1, EncoderWaits DEF Undisturbed
<1> QED
  BY <1>1, <1>4, <1>5, PassesOn

LEMMA WorkingEncoder ==
  ASSUME IInv, Lasting, NEW r \in Nat, Working(r), Encoding(r), Encoder
  PROVE  FramePaced /\ Lasting' /\ OnTheWay'
<1>1. FramePaced /\ pc["read_file"] # "start"
  BY EncoderWaits DEF Encoder
<1>2. Continues
  BY <1>1, Continuing DEF IInv
<1>3. r - 0 = r
  OBVIOUS
<1>4. Encoding(r)'
  BY <1>1, <1>2, EncodingContinues
<1>5. Encoding(r - 0)'
  BY <1>3, <1>4
<1>6. Passes(0) /\ enc'.adr_num = enc.adr_num /\ enc'.mem_address_dst = enc.mem_address_dst
  BY <1>2 DEF Continues
<1> QED
  BY <1>1, <1>5, <1>6, PassesOn

LEMMA WorkingTick ==
  ASSUME IInv, Lasting, NEW r \in Nat, Working(r), Encoding(r), Tick
  PROVE  Lasting' /\ OnTheWay'
<1>1. ControlOK /\ DataOK
  BY DEF IInv
<1>2. PICK d \in Nat : Elapses(d)
  BY <1>1, Ticks
<1>3. Passes(d)
  BY <1>1, <1>2, TickPasses
<1>4. Encoding(r - d)'
  BY <1>1, <1>2, EncodingTicks
<1>5. enc'.adr_num = enc.adr_num /\ enc'.mem_address_dst = enc.mem_address_dst
  BY <1>1, <1>2, EncPasses DEF Elapses
<1>6. pc["read_file"] # "start"
  BY EncoderWaits
<1> QED
  BY <1>2, <1>3, <1>4, <1>5, <1>6, PassesOn

LEMMA WorkingMove ==
  ASSUME IInv, Lasting, NEW r, Working(r), NEW CONSTANT b \in Buses, Bus(b), ~Begin(b)
  PROVE  Advances(r)
<1>1. ControlOK /\ DataOK
  BY DEF IInv
<1>2. /\ Resumes(b, "moving")
      /\ Head(queue[b]).req.slave = "mem" => MemDataTransfer(b)
      /\ Head(queue[b]).req.slave = "crypto" => Cryptography(b)
      /\ Head(queue[b]).req.slave = "encoder" => Encode(b)
      /\ Head(queue[b]).req.slave = "nic" => WaitForBufferDescriptor(b)
  BY BusServes
<1> DEFINE s == Head(queue[b]).req.slave
<1>3. Moved(b, s) /\ ~AtHome(b)
  BY <1>2, ThreadNames DEF Moved, Resumes, AtHome, Home
<1>4. CASE b = "bus1"
  <2>1. CASE InCrypto1(r)
    <3>1. s \in {"encoder", "crypto", "mem"}
      BY <1>1, <1>3, <1>4, <2>1, Crypto1Serves
    <3>2. Encode("bus1") \/ Cryptography("bus1") \/ MemDataTransfer("bus1")
      BY <1>2, <1>4, <3>1
    <3> QED
      BY <1>1, <2>1, <3>2, FrameLengthAdvances, EncryptCommandAdvances, Memory1Advances
  <2>2. CASE InCard(r)
    <3>1. s \in {"nic", "mem"}
      BY <1>1, <1>3, <1>4, <2>2, CardServes
    <3>2. WaitForBufferDescriptor("bus1") \/ MemDataTransfer("bus1")
      BY <1>2, <1>4, <3>1
    <3> QED
      BY <1>1, <2>2, <3>2, DescriptorAdvances, CardMemoryAdvances
  <2> QED
    BY <1>3, <1>4, <2>1, <2>2, WhoWorks
<1>5. CASE b = "bus2"
  <2>1. InReceiver(r) \/ InCrypto2(r)
    BY <1>3, <1>5, WhoWorks
  <2> QED
    BY <1>1, <1>5, <2>1, ReceiverMemoryAdvances, Bus2Advances
<1> QED
  BY <1>4, <1>5, ThreadNames

LEMMA ReadyIsNotHome ==
  ASSUME NEW t \in Threads \ {"read_file"}, IsReady(t)
  PROVE  ~AtHome(t)
  BY HomeEvents

LEMMA WorkingCrypto ==
  ASSUME IInv, Lasting, NEW r, Working(r), NEW CONSTANT b \in Buses, Crypto(b)
  PROVE  Advances(r)
<1>1. ControlOK /\ DataOK
  BY DEF IInv
<1>2. IsReady(Aes[b])
  BY DEF Crypto, AesReadData, AesCrypt, AesWriteData, AesDone, Resumes
<1>3. CASE b = "bus1"
  <2>1. InCrypto1(r)
    BY <1>2, <1>3, EncryptNames, ReadyIsNotHome, WhoWorks, ThreadNames
  <2> QED
    BY <1>1, <1>3, <2>1, AesReadData1Advances, AesCrypt1Advances, AesWriteData1Advances,
       AesDone1Advances DEF Crypto
<1>4. CASE b = "bus2"
  <2>1. InCrypto2(r)
    BY <1>2, <1>4, DecryptNames, ReadyIsNotHome, WhoWorks, ThreadNames
  <2> QED
    BY <1>1, <1>4, <2>1, AesReadData2Advances, AesCrypt2Advances, AesWriteData2Advances,
       AesDone2Advances DEF Crypto
<1> QED
  BY <1>3, <1>4, ThreadNames

LEMMA WorkingMicroprocessor ==
  ASSUME IInv, Lasting, NEW r, Working(r), Microprocessor
  PROVE  Advances(r)
<1>1. ControlOK /\ DataOK
  BY DEF IInv
<1>2. IsReady("send_packet")
  BY DEF Microprocessor, AwaitFrame, Connect, Connecting, StartEncoder, AwaitEncoder,
     GetFrameLength, StartEncryption, AwaitEncryption, SendPacket, Resumes
<1>3. InCrypto1(r) \/ InCard(r)
  BY <1>2, ReadyIsNotHome, WhoWorks, ThreadNames
<1>4. CASE InCrypto1(r)
  <2>1. /\ ~Resumes("send_packet", "idle") /\ ~Resumes("send_packet", "start")
        /\ ~Resumes("send_packet", "connecting") /\ ~Resumes("send_packet", "connected")
    BY <1>1, <1>4, Crypto1Stages
  <2>2. GetFrameLength \/ StartEncryption \/ AwaitEncryption \/ SendPacket
    BY <2>1 DEF Microprocessor, AwaitFrame, Connect, Connecting, StartEncoder, AwaitEncoder
  <2> QED
    BY <1>1, <1>4, <2>2, GetFrameLengthAdvances, StartEncryptionAdvances,
       AwaitEncryptionAdvances, SendPacketAdvances
<1>5. CASE InCard(r)
  <2>1. pc["send_packet"] = "idle"
    BY <1>1, <1>2, <1>5, CardStages
  <2>2. AwaitEncoder
    BY <2>1 DEF Microprocessor, AwaitFrame, Connect, Connecting, StartEncoder, GetFrameLength,
       StartEncryption, AwaitEncryption, SendPacket, Resumes
  <2> QED
    BY <1>1, <1>5, <2>2, AwaitEncoderAdvances
<1> QED
  BY <1>3, <1>4, <1>5

\* Each event of the network is heard.
LEMMA WorkingNetwork ==
  ASSUME IInv, Lasting, NEW r, Working(r), NetworkInterfaceCards
  PROVE  /\ Advances(r)
         /\ PacketRead => wait["send_frame"].event = "send_event"
         /\ FrameSent => wait["receive_frame"].event = "receive_event"
         /\ FrameReceived => wait["decrypt_packet"].event = "packet_received"
<1>1. ControlOK /\ DataOK
  BY DEF IInv
<1>2. /\ SetupTcpConnection \/ ConnectionReady => IsReady("setup")
      /\ ReadPacket \/ PacketRead => IsReady("read_packet")
      /\ SendFrame \/ FrameSent => IsReady("send_frame")
      /\ ReceiveFrame \/ FrameReceived => IsReady("receive_frame")
  BY DEF SetupTcpConnection, ConnectionReady, ReadPacket, PacketRead, SendFrame, FrameSent,
     ReceiveFrame, FrameReceived, Resumes
<1>3. ~IsReady("setup")
  BY ReadyIsNotHome, WhoWorks, ThreadNames
<1>4. /\ IsReady("read_packet") => InCard(r)
      /\ IsReady("send_frame") => InNetwork(r)
      /\ IsReady("receive_frame") => InReceiver(r)
  BY ReadyIsNotHome, WhoWorks, ThreadNames
<1>5. ReadPacket => Advances(r)
  BY <1>1, <1>2, <1>4, ReadPacketAdvances
<1>6. PacketRead => Advances(r) /\ wait["send_frame"].event = "send_event"
  BY <1>1, <1>2, <1>4, PacketReadAdvances
<1>7. SendFrame => Advances(r)
  BY <1>1, <1>2, <1>4, SendFrameAdvances
<1>8. FrameSent => Advances(r) /\ wait["receive_frame"].event = "receive_event"
  BY <1>1, <1>2, <1>4, FrameSentAdvances
<1>9. ReceiveFrame => Advances(r)
  BY <1>1, <1>2, <1>4, ReceiveFrameAdvances
<1>10. FrameReceived => Advances(r) /\ wait["decrypt_packet"].event = "packet_received"
  BY <1>1, <1>2, <1>4, FrameReceivedAdvances
<1> QED
  BY <1>2, <1>3, <1>5, <1>6, <1>7, <1>8, <1>9, <1>10 DEF NetworkInterfaceCards

LEMMA WorkingMicroprocessor2 ==
  ASSUME IInv, Lasting, NEW r, Working(r), Encoding(r), Microprocessor2
  PROVE  Lasting' /\ (OnTheWay' \/ Quiet')
<1>1. ControlOK /\ DataOK
  BY DEF IInv
<1>2. IsReady("decrypt_packet")
  BY DEF Microprocessor2, GetPacketLength, StartDecryption, AwaitDecryption, PacketDecrypted, Resumes
<1>3. InCrypto2(r)
  BY <1>2, ReadyIsNotHome, WhoWorks, ThreadNames
<1>4. CASE GetPacketLength \/ StartDecryption \/ AwaitDecryption
  <2>1. Advances(r)
    BY <1>1, <1>3, <1>4, GetPacketLengthAdvances, StartDecryptionAdvances, AwaitDecryptionAdvances
  <2> QED
    BY <2>1, AdvancesOn
<1>5. CASE PacketDecrypted
  <2>1. Quiet' /\ Undisturbed /\ mem' = mem /\ network_frame' = network_frame
    BY <1>1, <1>3, <1>5, PacketDecryptedEnds
  <2> QED
    BY <2>1, LastingKept
<1> QED
  BY <1>4, <1>5 DEF Microprocessor2

LEMMA WorkingStep ==
  ASSUME IInv, Lasting, OnTheWay, Next
  PROVE  /\ Lasting' /\ (OnTheWay' \/ Quiet')
         /\ ~FrameWritten
         /\ PacketRead => wait["send_frame"].event = "send_event"
         /\ FrameSent => wait["receive_frame"].event = "receive_event"
         /\ FrameReceived => wait["decrypt_packet"].event = "packet_received"
<1>1. PICK r : Working(r) /\ Encoding(r)
  BY DEF OnTheWay
<1>2. r \in Nat
  BY <1>1, WorkingTime DEF IInv
<1>3. ~FrameWritten
  BY <1>1, <1>2, EncoderWaits
<1>4. /\ NetworkInterfaceCards => Lasting' /\ OnTheWay'
      /\ PacketRead => wait["send_frame"].event = "send_event"
      /\ FrameSent => wait["receive_frame"].event = "receive_event"
      /\ FrameReceived => wait["decrypt_packet"].event = "packet_received"
  <2>1. PacketRead \/ FrameSent \/ FrameReceived => NetworkInterfaceCards
    BY DEF NetworkInterfaceCards
  <2> QED
    BY <1>1, <2>1, WorkingNetwork, AdvancesOn
<1>5. ASSUME NEW b \in Buses, Bus(b) \/ Crypto(b) PROVE Lasting' /\ OnTheWay'
  BY <1>1, <1>2, <1>5, WorkingBegin, WorkingMove, WorkingCrypto, AdvancesOn
<1>6. Encoder => Lasting' /\ OnTheWay'
  BY <1>1, <1>2, WorkingEncoder
<1>7. Microprocessor => Lasting' /\ OnTheWay'
  BY <1>1, WorkingMicroprocessor, AdvancesOn
<1>8. Microprocessor2 => Lasting' /\ (OnTheWay' \/ Quiet')
  BY <1>1, WorkingMicroprocessor2
<1>9. Tick => Lasting' /\ OnTheWay'
  BY <1>1, <1>2, WorkingTick
<1> QED
  BY <1>3, <1>4, <1>5, <1>6, <1>7, <1>8, <1>9 DEF Next

-----------------------------------------------------------------------------
(* A step before the first frame. *)

StartingThreads == {"send_packet", "setup", "bus1"}

LEMMA StartNames ==
  /\ {"connection_ready", "send_packet", "conn", "setup", "read", "read_file"} \cap {"none"} = {}
  /\ {"send_packet", "setup"} \subseteq (Threads \ Buses) \ {"read_file"}
  /\ {"send_packet", "setup", "read_file", "bus1"} \subseteq Threads
  /\ "read_file" \in Threads \ Buses
  /\ "read_file" \notin StartingThreads
  /\ Buses \ StartingThreads = {"bus2"}
  BY DEF Threads, Buses, Sender, Receiver, StartingThreads

LEMMA StartingStages ==
  ASSUME Starting
  PROVE  /\ Resumes("send_packet", "start") => BusFree("bus1") /\ AtHome("setup")
         /\ Resumes("send_packet", "connecting") =>
              /\ BusFree("bus1")
              /\ \/ Resumes("setup", "conn")
                 \/ /\ pc["setup"] = "handshake" /\ wait["setup"].event = NoEvent
                    /\ wait["setup"].time > 0
         /\ Resumes("send_packet", "connected") => BusFree("bus1") /\ AtHome("setup")
         /\ IsReady("send_packet") => pc["send_packet"] \in {"start", "connecting", "connected"}
         /\ Resumes("setup", "conn") =>
              /\ BusFree("bus1")
              /\ \/ Resumes("send_packet", "connecting")
                 \/ pc["send_packet"] = "connected" /\ wait["send_packet"] = On("connection_ready")
         /\ Resumes("setup", "handshake") =>
              /\ BusFree("bus1")
              /\ pc["send_packet"] = "connected" /\ wait["send_packet"] = On("connection_ready")
         /\ Resumes("bus1", "moving") =>
              /\ AtHome("setup")
              /\ \/ /\ pc["send_packet"] = "connecting"
                    /\ Asking("bus1", "send_packet", Write("nic", 0, 1, 1))
                 \/ /\ pc["send_packet"] = "idle"
                    /\ Asking("bus1", "send_packet", Write("encoder", 0, 2, [i \in {0, 1} |-> i]))
<1>1. /\ \A t, s : Resumes(t, s) <=> wait[t] = Ready /\ pc[t] = s
      /\ \A t : IsReady(t) <=> wait[t] = Ready
  BY DEF Resumes, IsReady
<1>2. /\ AtHome("setup") => wait["setup"] # Ready
      /\ On("connection_ready") # Ready /\ On("send_packet") # Ready
      /\ \A q : Asking("bus1", "send_packet", q) => wait["send_packet"] # Ready
      /\ BusFree("bus1") => pc["bus1"] # "moving"
  BY OnIsNotReady, StartNames, ThreadNames DEF AtHome, HomeEvent, Asking, BusFree, Home
<1>3. ~(Ready.time > 0)
  BY OnIsNotReady
<1>4. CASE Resumes("send_packet", "start") /\ BusFree("bus1") /\ AtHome("setup")
  BY <1>1, <1>2, <1>4
<1>5. CASE /\ pc["send_packet"] = "connecting" /\ AtHome("setup")
           /\ Asking("bus1", "send_packet", Write("nic", 0, 1, 1))
  BY <1>1, <1>2, <1>5
<1>6. CASE /\ BusFree("bus1")
           /\ \/ Resumes("send_packet", "connecting")
              \/ pc["send_packet"] = "connected" /\ wait["send_packet"] = On("connection_ready")
           /\ \/ Resumes("setup", "conn")
              \/ /\ pc["setup"] = "handshake" /\ wait["setup"].event = NoEvent
                 /\ Resumes("send_packet", "connecting") => wait["setup"].time > 0
  BY <1>1, <1>2, <1>3, <1>6
<1>7. CASE Resumes("send_packet", "connected") /\ BusFree("bus1") /\ AtHome("setup")
  BY <1>1, <1>2, <1>7
<1>8. CASE /\ pc["send_packet"] = "idle" /\ AtHome("setup")
           /\ Asking("bus1", "send_packet", Write("encoder", 0, 2, [i \in {0, 1} |-> i]))
  BY <1>1, <1>2, <1>8
<1> QED
  BY <1>4, <1>5, <1>6, <1>7, <1>8 DEF Starting

LEMMA StartingKept ==
  ASSUME Starting, Undisturbed, \A p \in Threads \ (StartingThreads \cup {"read_file"}) : Keeps(p),
         queue'["bus2"] = queue["bus2"], up' = up, mem' = mem, mem_num' = mem_num
  PROVE  /\ pc'["read_file"] = "start" /\ wait'["read_file"] = On("read")
         /\ enc'.count = 0 /\ Passed(0, 0, 0, 0)'
         /\ OthersHome(StartingThreads)'
<1>1. OthersHome(StartingThreads) /\ Passed(0, 0, 0, 0)
  BY DEF Starting, StartingThreads
<1>2. OthersHome(StartingThreads)'
  <2>1. \A p \in (Threads \ {"read_file"}) \ StartingThreads : Keeps(p)
    OBVIOUS
  <2>2. \A b \in Buses \ StartingThreads : queue'[b] = queue[b]
    BY StartNames
  <2> QED
    BY <1>1, <2>1, <2>2, HomeStays
<1>3. Passed(0, 0, 0, 0)'
  BY <1>1 DEF Passed, Delivered
<1> QED
  BY <1>2, <1>3 DEF Starting, Undisturbed, Keeps

\* A step of send_packet, setup or their bus keeps what else has to hold.
LEMMA StartingLasts ==
  ASSUME Lasting, Undisturbed, mem' = mem, network_frame' = network_frame
  PROVE  Lasting'
  BY LastingKept

LEMMA StartingPasses ==
  ASSUME ControlOK, Starting, NEW CONSTANT d, Passes(d),
         Keeps("read_file"), enc'.count = enc.count
  PROVE  Starting'
<1>1. /\ pc'["read_file"] = "start" /\ wait'["read_file"] = On("read")
      /\ enc'.count = 0 /\ Passed(0, 0, 0, 0)'
      /\ OthersHome(StartingThreads)'
  <2>1. OthersHome(StartingThreads)'
    BY PassingOthers DEF Starting, StartingThreads
  <2>2. Passed(0, 0, 0, 0)'
    BY DEF Starting, Passes, Passed, Delivered
  <2> QED
    BY <2>1, <2>2 DEF Starting, Keeps
<1>2. /\ AtHome("setup") => AtHome("setup")'
      /\ BusFree("bus1") => BusFree("bus1")'
      /\ \A t \in {"send_packet", "setup"} : \A seg : Resumes(t, seg) => Resumes(t, seg)' /\ d = 0
      /\ \A t \in {"send_packet", "setup"} : pc'[t] = pc[t]
      /\ wait["send_packet"] = On("connection_ready") =>
           wait'["send_packet"] = On("connection_ready")
  BY PassingHome, StartNames, ThreadNames
<1>3. CASE Resumes("send_packet", "start") /\ BusFree("bus1") /\ AtHome("setup")
  BY <1>1, <1>2, <1>3 DEF Starting, StartingThreads
<1>4. CASE /\ pc["send_packet"] = "connecting" /\ AtHome("setup")
           /\ Asking("bus1", "send_packet", Write("nic", 0, 1, 1))
  <2>1. StillAsks("bus1", "send_packet", Write("nic", 0, 1, 1))
    BY <1>4, StartNames, ThreadNames, PassingAsked
  <2>2. Asking("bus1", "send_packet", Write("nic", 0, 1, 1))'
    BY <2>1 DEF StillAsks, Asking, Serving, Write
  <2> QED
    BY <1>1, <1>2, <1>4, <2>2 DEF Starting, StartingThreads
<1>5. CASE /\ BusFree("bus1")
           /\ \/ Resumes("send_packet", "connecting")
              \/ pc["send_packet"] = "connected" /\ wait["send_packet"] = On("connection_ready")
           /\ \/ Resumes("setup", "conn")
              \/ /\ pc["setup"] = "handshake" /\ wait["setup"].event = NoEvent
                 /\ Resumes("send_packet", "connecting") => wait["setup"].time > 0
  <2>1. \/ Resumes("send_packet", "connecting")' /\ d = 0 /\ Resumes("send_packet", "connecting")
        \/ pc'["send_packet"] = "connected" /\ wait'["send_packet"] = On("connection_ready")
    BY <1>2, <1>5
  <2>2. CASE Resumes("setup", "conn")
    BY <1>1, <1>2, <1>5, <2>1, <2>2 DEF Starting, StartingThreads
  <2>3. CASE /\ pc["setup"] = "handshake" /\ wait["setup"].event = NoEvent
             /\ Resumes("send_packet", "connecting") => wait["setup"].time > 0
    <3>1. wait'["setup"].event = NoEvent /\ wait["setup"].time \in Nat
          /\ wait'["setup"].time = wait["setup"].time - d
      BY <2>3, StartNames DEF Passes
    <3>2. Resumes("send_packet", "connecting")' => wait'["setup"].time > 0
      <4>1. ASSUME Resumes("send_packet", "connecting")' PROVE d = 0 /\ Resumes("send_packet", "connecting")
        <5>1. On("connection_ready") # Ready
          BY OnIsNotReady, StartNames
        <5> QED
          BY <2>1, <4>1, <5>1 DEF Resumes, IsReady
      <4>2. ASSUME d = 0, wait["setup"].time > 0 PROVE wait'["setup"].time > 0
        BY <3>1, <4>2
      <4> QED
        BY <2>3, <4>1, <4>2
    <3> QED
      BY <1>1, <1>2, <1>5, <2>1, <2>3, <3>1, <3>2 DEF Starting, StartingThreads
  <2> QED
    BY <1>5, <2>2, <2>3
<1>6. CASE Resumes("send_packet", "connected") /\ BusFree("bus1") /\ AtHome("setup")
  BY <1>1, <1>2, <1>6 DEF Starting, StartingThreads
<1>7. CASE /\ pc["send_packet"] = "idle" /\ AtHome("setup")
           /\ Asking("bus1", "send_packet", Write("encoder", 0, 2, [i \in {0, 1} |-> i]))
  <2> DEFINE q == Write("encoder", 0, 2, [i \in {0, 1} |-> i])
  <2>1. StillAsks("bus1", "send_packet", q)
    BY <1>7, StartNames, ThreadNames, PassingAsked
  <2>2. q' = q
    BY DEF Write
  <2> HIDE DEF q
  <2>3. Asking("bus1", "send_packet", q)'
    BY <2>1, <2>2 DEF StillAsks, Asking, Serving
  <2> QED
    BY <1>1, <1>2, <1>7, <2>3 DEF Starting, StartingThreads, q
<1> QED
  BY <1>3, <1>4, <1>5, <1>6, <1>7 DEF Starting

LEMMA ConnectStarts ==
  ASSUME ControlOK, DataOK, Lasting, Starting, Connect
  PROVE  Lasting' /\ Starting'
<1>1. /\ Resumes("send_packet", "start")
      /\ Transfer("send_packet", "bus1", Write("nic", 0, 1, 1), "connecting", {})
      /\ UNCHANGED <<result, mem, enc, up, crypto, nic, network_frame, mem_num>>
  BY DEF Connect
<1>2. BusFree("bus1") /\ AtHome("setup")
  BY <1>1, StartingStages
<1>3. AsksFor("bus1", "send_packet", Write("nic", 0, 1, 1), "connecting")
  BY <1>1, <1>2, Asked, EncryptNames DEF DataOK
<1>4. /\ queue'["bus1"] = <<[by |-> "send_packet", req |-> Write("nic", 0, 1, 1)]>>
      /\ queue'["bus2"] = queue["bus2"]
      /\ wait'["send_packet"] = On("send_packet") /\ pc'["send_packet"] = "connecting"
      /\ pc'["bus1"] = "front" /\ wait'["bus1"] = Ready
      /\ \A p \in Threads \ {"send_packet", "bus1"} : Keeps(p)
  BY <1>3, EncryptNames DEF AsksFor
<1>5. Undisturbed
  BY <1>1, <1>4, ThreadNames DEF Undisturbed
<1>6. /\ pc'["read_file"] = "start" /\ wait'["read_file"] = On("read")
      /\ enc'.count = 0 /\ Passed(0, 0, 0, 0)'
      /\ OthersHome(StartingThreads)'
  BY <1>1, <1>4, <1>5, StartingKept DEF StartingThreads
<1>7. AtHome("setup")' /\ Asking("bus1", "send_packet", Write("nic", 0, 1, 1))'
  BY <1>2, <1>4, ThreadNames DEF AtHome, Keeps, Asking, Resumes, IsReady, Write
<1> QED
  BY <1>1, <1>4, <1>5, <1>6, <1>7, StartingLasts DEF Starting, StartingThreads

LEMMA ConnectingStarts ==
  ASSUME ControlOK, DataOK, Lasting, Starting, Connecting
  PROVE  Lasting' /\ Starting'
<1>1. /\ Resumes("send_packet", "connecting")
      /\ Suspend("send_packet", "connected", On("connection_ready"), {})
      /\ UNCHANGED <<queue, result, mem, enc, up, crypto, nic, network_frame, mem_num>>
  BY DEF Connecting
<1>2. /\ BusFree("bus1")
      /\ \/ Resumes("setup", "conn")
         \/ /\ pc["setup"] = "handshake" /\ wait["setup"].event = NoEvent
            /\ wait["setup"].time > 0
  BY <1>1, StartingStages
<1>3. /\ pc'["send_packet"] = "connected" /\ wait'["send_packet"] = On("connection_ready")
      /\ \A p \in Threads \ {"send_packet"} : Keeps(p)
  BY <1>1, Alone, StartNames
<1>4. Undisturbed /\ BusFree("bus1")'
  BY <1>1, <1>2, <1>3, ThreadNames, BusStaysFree DEF Undisturbed
<1>5. /\ pc'["read_file"] = "start" /\ wait'["read_file"] = On("read")
      /\ enc'.count = 0 /\ Passed(0, 0, 0, 0)'
      /\ OthersHome(StartingThreads)'
  BY <1>1, <1>3, <1>4, StartingKept DEF StartingThreads
<1>6. \/ Resumes("setup", "conn")'
      \/ pc'["setup"] = "handshake" /\ wait'["setup"].event = NoEvent
  BY <1>2, <1>3, ThreadNames DEF Keeps, Resumes, IsReady
<1>7. ~Resumes("send_packet", "connecting")'
  BY <1>3 DEF Resumes
<1> QED
  BY <1>1, <1>3, <1>4, <1>5, <1>6, <1>7, StartingLasts DEF Starting, StartingThreads

LEMMA StartEncoderStarts ==
  ASSUME ControlOK, DataOK, Lasting, Starting, StartEncoder
  PROVE  Lasting' /\ Starting'
<1> DEFINE q == Write("encoder", 0, 2, [i \in {0, 1} |-> i])
<1>1. /\ Resumes("send_packet", "connected")
      /\ Transfer("send_packet", "bus1", q, "idle", {})
      /\ UNCHANGED <<result, mem, enc, up, crypto, nic, network_frame, mem_num>>
  BY DEF StartEncoder
<1>2. q' = q
  BY DEF Write
<1> HIDE DEF q
<1>3. BusFree("bus1") /\ AtHome("setup")
  BY <1>1, StartingStages
<1>4. AsksFor("bus1", "send_packet", q, "idle")
  BY <1>1, <1>3, Asked, EncryptNames DEF DataOK
<1>5. /\ queue'["bus1"] = <<[by |-> "send_packet", req |-> q]>>
      /\ queue'["bus2"] = queue["bus2"]
      /\ wait'["send_packet"] = On("send_packet") /\ pc'["send_packet"] = "idle"
      /\ pc'["bus1"] = "front" /\ wait'["bus1"] = Ready
      /\ \A p \in Threads \ {"send_packet", "bus1"} : Keeps(p)
  BY <1>4, EncryptNames DEF AsksFor
<1>6. Undisturbed
  BY <1>1, <1>5, ThreadNames DEF Undisturbed
<1>7. /\ pc'["read_file"] = "start" /\ wait'["read_file"] = On("read")
      /\ enc'.count = 0 /\ Passed(0, 0, 0, 0)'
      /\ OthersHome(StartingThreads)'
  BY <1>1, <1>5, <1>6, StartingKept DEF StartingThreads
<1>8. AtHome("setup")' /\ Asking("bus1", "send_packet", q)'
  BY <1>2, <1>3, <1>5, ThreadNames DEF AtHome, Keeps, Asking, Resumes, IsReady
<1> QED
  BY <1>1, <1>5, <1>6, <1>7, <1>8, StartingLasts DEF Starting, StartingThreads, q

LEMMA SetupStarts ==
  ASSUME ControlOK, DataOK, Lasting, Starting, SetupTcpConnection
  PROVE  Lasting' /\ Starting'
<1>1. /\ Resumes("setup", "conn")
      /\ Suspend("setup", "handshake", For(SetupTime), {})
      /\ UNCHANGED <<queue, result, mem, enc, up, crypto, nic, network_frame, mem_num>>
  BY DEF SetupTcpConnection
<1>2. /\ BusFree("bus1")
      /\ \/ Resumes("send_packet", "connecting")
         \/ pc["send_packet"] = "connected" /\ wait["send_packet"] = On("connection_ready")
  BY <1>1, StartingStages
<1>3. /\ pc'["setup"] = "handshake" /\ wait'["setup"] = For(SetupTime)
      /\ \A p \in Threads \ {"setup"} : Keeps(p)
  BY <1>1, Alone, StartNames
<1>4. Undisturbed /\ BusFree("bus1")'
  BY <1>1, <1>2, <1>3, ThreadNames, BusStaysFree DEF Undisturbed
<1>5. /\ pc'["read_file"] = "start" /\ wait'["read_file"] = On("read")
      /\ enc'.count = 0 /\ Passed(0, 0, 0, 0)'
      /\ OthersHome(StartingThreads)'
  BY <1>1, <1>3, <1>4, StartingKept DEF StartingThreads
<1>6. \/ Resumes("send_packet", "connecting")'
      \/ pc'["send_packet"] = "connected" /\ wait'["send_packet"] = On("connection_ready")
  BY <1>2, <1>3, ThreadNames DEF Keeps, Resumes, IsReady
<1>7. wait'["setup"].event = NoEvent /\ wait'["setup"].time > 0
  <2>1. SetupTime > 0
    BY SMT DEF SetupTime
  <2> QED
    BY <1>3, <2>1 DEF For
<1> QED
  BY <1>1, <1>3, <1>4, <1>5, <1>6, <1>7, StartingLasts DEF Starting, StartingThreads

LEMMA ConnectionStarts ==
  ASSUME ControlOK, DataOK, Lasting, Starting, ConnectionReady
  PROVE  Lasting' /\ Starting'
<1>1. /\ Resumes("setup", "handshake")
      /\ Suspend("setup", "conn", On("conn"), {"connection_ready"})
      /\ UNCHANGED <<queue, result, mem, enc, up, crypto, nic, network_frame, mem_num>>
  BY DEF ConnectionReady
<1>2. /\ BusFree("bus1")
      /\ pc["send_packet"] = "connected" /\ wait["send_packet"] = On("connection_ready")
  BY <1>1, StartingStages
<1>3. /\ pc'["setup"] = "conn" /\ wait'["setup"] = On("conn")
      /\ pc'["send_packet"] = "connected" /\ wait'["send_packet"] = Ready
      /\ \A p \in Threads \ {"setup", "send_packet"} : Keeps(p)
  <2>1. /\ pc'["setup"] = "conn" /\ wait'["setup"] = On("conn")
        /\ \A p \in Threads \ {"setup"} :
             /\ pc'[p] = pc[p]
             /\ wait'[p] = IF wait[p].event \in {"connection_ready"} THEN Ready ELSE wait[p]
    BY <1>1, StartNames, Suspended DEF Others
  <2>2. wait["send_packet"].event = "connection_ready"
    BY <1>2 DEF On
  <2>3. \A p \in Threads \ {"setup", "send_packet"} : wait[p].event # "connection_ready"
    BY Listener
  <2> QED
    BY <1>2, <2>1, <2>2, <2>3, ThreadNames DEF Keeps
<1>4. Undisturbed /\ BusFree("bus1")'
  BY <1>1, <1>2, <1>3, ThreadNames, BusStaysFree DEF Undisturbed
<1>5. /\ pc'["read_file"] = "start" /\ wait'["read_file"] = On("read")
      /\ enc'.count = 0 /\ Passed(0, 0, 0, 0)'
      /\ OthersHome(StartingThreads)'
  BY <1>1, <1>3, <1>4, StartingKept DEF StartingThreads
<1>6. AtHome("setup")'
  BY <1>3 DEF AtHome, Home, HomeEvent
<1>7. Resumes("send_packet", "connected")'
  BY <1>3 DEF Resumes, IsReady
<1> QED
  BY <1>1, <1>4, <1>5, <1>6, <1>7, StartingLasts DEF Starting, StartingThreads

LEMMA ConnectionRequestStarts ==
  ASSUME ControlOK, DataOK, Lasting, Starting, Bus("bus1"), ~Begin("bus1"),
         AtHome("setup"), pc["send_packet"] = "connecting",
         Asking("bus1", "send_packet", Write("nic", 0, 1, 1))
  PROVE  Lasting' /\ Starting'
<1>1. Finish("bus1", {"conn"}) /\ UNCHANGED <<result, mem, enc, up, crypto, nic, network_frame, mem_num>>
  <2>1. Head(queue["bus1"]).req = Write("nic", 0, 1, 1)
    BY Served
  <2>2. /\ ~Head(queue["bus1"]).req.rdnwr /\ Head(queue["bus1"]).req.slave = "nic"
        /\ Head(queue["bus1"]).req.len = 1
    BY <2>1, RequestKinds, EncryptNames
  <2>3. ConnectionRequest("bus1")
    BY <2>2, BusServes, EncryptNames
  <2> QED
    BY <2>3 DEF ConnectionRequest
<1>2. /\ queue'["bus2"] = queue["bus2"] /\ BusFree("bus1")'
      /\ pc'["send_packet"] = "connecting" /\ wait'["send_packet"] = Ready
      /\ pc'["setup"] = "conn" /\ wait'["setup"] = Ready
      /\ \A p \in Threads \ StartingThreads : Keeps(p)
  <2>1. Answered("bus1", "send_packet", {"conn"})
    BY <1>1, Answering, EncryptNames
  <2>2. /\ pc["setup"] = "conn" /\ wait["setup"].event = "conn"
        /\ "setup" \in Threads \ {"bus1", "send_packet"}
    BY ThreadNames DEF AtHome, Home, HomeEvent, On
  <2>3. \A p \in Threads \ StartingThreads : wait[p].event # "conn"
    BY Listener DEF StartingThreads
  <2> QED
    BY <2>1, <2>2, <2>3, EncryptNames DEF Answered, Keeps, StartingThreads
<1>3. Undisturbed
  BY <1>1, <1>2, StartNames DEF Undisturbed
<1>4. /\ pc'["read_file"] = "start" /\ wait'["read_file"] = On("read")
      /\ enc'.count = 0 /\ Passed(0, 0, 0, 0)'
      /\ OthersHome(StartingThreads)'
  BY <1>1, <1>2, <1>3, StartingKept
<1>5. Resumes("send_packet", "connecting")' /\ Resumes("setup", "conn")'
  BY <1>2 DEF Resumes, IsReady
<1> QED
  BY <1>1, <1>2, <1>3, <1>4, <1>5, StartingLasts DEF Starting, StartingThreads

\* The encoder is told where to write, and begins.
LEMMA EncoderStarted ==
  ASSUME ControlOK, DataOK, Lasting, Starting, Bus("bus1"), ~Begin("bus1"),
         AtHome("setup"), pc["send_packet"] = "idle",
         Asking("bus1", "send_packet", Write("encoder", 0, 2, [i \in {0, 1} |-> i]))
  PROVE  Lasting' /\ Quiet'
<1>1. /\ enc' = [enc EXCEPT !.mem_address_dst = [i \in {0, 1} |-> i]]
      /\ Finish("bus1", {"read"})
      /\ UNCHANGED <<mem, up, crypto, nic, network_frame, mem_num>>
  <2>1. Head(queue["bus1"]).req = Write("encoder", 0, 2, [i \in {0, 1} |-> i])
    BY Served
  <2>2. /\ ~Head(queue["bus1"]).req.rdnwr /\ Head(queue["bus1"]).req.slave = "encoder"
        /\ Head(queue["bus1"]).req.data = [i \in {0, 1} |-> i]
    BY <2>1, RequestKinds
  <2>3. Encode("bus1")
    BY <2>2, BusServes, EncryptNames
  <2> QED
    BY <2>2, <2>3 DEF Encode
<1>2. /\ queue'["bus2"] = queue["bus2"] /\ queue'["bus1"] = <<>> /\ BusFree("bus1")'
      /\ pc'["send_packet"] = "idle" /\ wait'["send_packet"] = Ready
      /\ pc'["read_file"] = "start" /\ wait'["read_file"] = Ready
      /\ \A p \in Threads \ {"bus1", "send_packet", "read_file"} : Keeps(p)
  <2>1. Answered("bus1", "send_packet", {"read"})
    BY <1>1, Answering, EncryptNames
  <2>2. /\ pc["read_file"] = "start" /\ wait["read_file"].event = "read"
        /\ "read_file" \in Threads \ {"bus1", "send_packet"}
    BY ThreadNames DEF Starting, On
  <2>3. \A p \in Threads \ {"bus1", "send_packet", "read_file"} : wait[p].event # "read"
    BY Listener
  <2> QED
    BY <2>1, <2>2, <2>3, EncryptNames DEF Answered, Keeps
<1>3. /\ enc'.count = 0 /\ enc'.adr_num = enc.adr_num
      /\ enc'.mem_address_dst = [i \in {0, 1} |-> i]
  BY <1>1 DEF DataOK, RegistersOK, Starting
<1>4. Reported = 0 /\ Reported' = 0
  BY <1>2, <1>3 DEF Reported, Starting
<1>5. Passed(Reported, Reported, Reported, Reported)'
  BY <1>1, <1>4 DEF Starting, Passed, Delivered
<1>6. OthersHome({"send_packet"})'
  <2>1. OthersHome(StartingThreads)
    BY DEF Starting, StartingThreads
  <2>2. AtHome("bus1")' /\ AtHome("setup")'
    BY <1>2, ThreadNames DEF BusFree, AtHome, Keeps
  <2>3. ASSUME NEW p \in (Threads \ {"read_file"}) \ {"send_packet"} PROVE AtHome(p)'
    <3>1. CASE p \in StartingThreads
      BY <2>2, <2>3, <3>1 DEF StartingThreads
    <3>2. CASE p \notin StartingThreads
      BY <1>2, <2>1, <2>3, <3>2 DEF StartingThreads, OthersHome, AtHome, Keeps
    <3> QED
      BY <3>1, <3>2
  <2>4. \A b \in Buses \ {"send_packet"} : queue'[b] = <<>>
    BY <1>2, <2>1, StartNames, ThreadNames DEF OthersHome
  <2> QED
    BY <2>3, <2>4 DEF OthersHome
<1>7. Resumes("send_packet", "idle")' /\ Resumes("read_file", "start")'
  BY <1>2 DEF Resumes, IsReady
<1>8. Quiet'
  BY <1>2, <1>4, <1>5, <1>6, <1>7 DEF Quiet
<1>9. Lasting'
  BY <1>1, <1>3, <1>4 DEF Lasting
<1> QED
  BY <1>8, <1>9

\* Nobody else is there.
LEMMA NobodyReady ==
  ASSUME Starting \/ Quiet
  PROVE  /\ \A t \in {"aesEncrypt", "read_packet", "send_frame", "receive_frame", "decrypt_packet",
                      "aesDecrypt", "bus2"} : ~IsReady(t)
         /\ Quiet => ~IsReady("setup")
         /\ \A b \in Buses : ~Crypto(b)
         /\ ~Microprocessor2
         /\ ~ReadPacket /\ ~PacketRead /\ ~SendFrame /\ ~FrameSent /\ ~ReceiveFrame
         /\ ~FrameReceived
         /\ ~Bus("bus2")
<1>1. \A t \in {"aesEncrypt", "read_packet", "send_frame", "receive_frame", "decrypt_packet",
                "aesDecrypt", "bus2"} : ~IsReady(t)
  BY NobodyWorks, HomeEvents, ThreadNames
<1>2. Quiet => ~IsReady("setup")
  BY NobodyWorks, HomeEvents, ThreadNames
<1>3. ASSUME NEW b \in Buses PROVE ~Crypto(b)
  <2>1. Aes[b] \in {"aesEncrypt", "aesDecrypt"}
    BY ThreadNames DEF Aes
  <2> QED
    BY <1>1, <2>1 DEF Crypto, AesReadData, AesCrypt, AesWriteData, AesDone, Resumes
<1>4. ~Microprocessor2
  BY <1>1 DEF Microprocessor2, GetPacketLength, StartDecryption, AwaitDecryption, PacketDecrypted,
     Resumes
<1>5. /\ ~ReadPacket /\ ~PacketRead /\ ~SendFrame /\ ~FrameSent /\ ~ReceiveFrame
      /\ ~FrameReceived
  BY <1>1 DEF ReadPacket, PacketRead, SendFrame, FrameSent, ReceiveFrame, FrameReceived, Resumes
<1>6. ~Bus("bus2")
  <2>1. Begin("bus2") => IsReady("bus2")
    BY DEF Begin, Resumes
  <2>2. Bus("bus2") /\ ~Begin("bus2") => IsReady("bus2")
    BY BusServes, ThreadNames DEF Resumes
  <2> QED
    BY <1>1, <2>1, <2>2
<1> QED
  BY <1>1, <1>2, <1>3, <1>4, <1>5, <1>6

LEMMA StartingStep ==
  ASSUME IInv, Lasting, Starting, Next
  PROVE  Lasting' /\ (Starting' \/ Quiet') /\ ~FrameWritten
<1>1. ControlOK /\ DataOK
  BY DEF IInv
<1>2. ~IsReady("read_file") /\ pc["read_file"] = "start"
  BY OnIsNotReady, StartNames DEF Starting, IsReady
<1>3. ~Encoder /\ ~FrameWritten
  BY <1>2 DEF Encoder, StartReading, FrameEncoded, FrameWritten, FramePaced, Resumes
<1>4. /\ \A b \in Buses : ~Crypto(b)
      /\ ~Microprocessor2 /\ ~Bus("bus2")
      /\ ~ReadPacket /\ ~PacketRead /\ ~SendFrame /\ ~FrameSent /\ ~ReceiveFrame
      /\ ~FrameReceived
  BY NobodyReady
<1>5. CASE Begin("bus1")
  <2>1. Passes(0) /\ Undisturbed
    BY <1>5, BeginPasses, ThreadNames
  <2>2. enc'.count = enc.count /\ Keeps("read_file")
    BY <2>1 DEF Undisturbed
  <2>3. mem' = mem /\ network_frame' = network_frame
    BY <2>1 DEF Passes
  <2> QED
    BY <1>1, <1>3, <2>1, <2>2, <2>3, StartingPasses, StartingLasts
<1>6. CASE Bus("bus1") /\ ~Begin("bus1")
  <2>1. Resumes("bus1", "moving")
    BY <1>6, BusServes, ThreadNames
  <2>2. /\ AtHome("setup")
        /\ \/ /\ pc["send_packet"] = "connecting"
              /\ Asking("bus1", "send_packet", Write("nic", 0, 1, 1))
           \/ /\ pc["send_packet"] = "idle"
              /\ Asking("bus1", "send_packet", Write("encoder", 0, 2, [i \in {0, 1} |-> i]))
    BY <2>1, StartingStages
  <2> QED
    BY <1>1, <1>3, <1>6, <2>2, ConnectionRequestStarts, EncoderStarted
<1>7. CASE Microprocessor
  <2>1. Connect \/ Connecting \/ StartEncoder
    BY <1>7, StartingStages DEF Microprocessor, AwaitFrame, AwaitEncoder, GetFrameLength,
       StartEncryption, AwaitEncryption, SendPacket, Resumes
  <2> QED
    BY <1>1, <1>3, <2>1, ConnectStarts, ConnectingStarts, StartEncoderStarts
<1>8. CASE NetworkInterfaceCards
  <2>1. SetupTcpConnection \/ ConnectionReady
    BY <1>4, <1>8 DEF NetworkInterfaceCards
  <2> QED
    BY <1>1, <1>3, <2>1, SetupStarts, ConnectionStarts
<1>9. CASE Tick
  <2>1. PICK d \in Nat : Elapses(d)
    BY <1>1, <1>9, Ticks
  <2>2. Passes(d)
    BY <1>1, <2>1, TickPasses
  <2>3. /\ enc'.count = enc.count /\ enc'.adr_num = enc.adr_num
        /\ enc'.mem_address_dst = enc.mem_address_dst
    BY <1>1, <2>1, EncPasses DEF Elapses
  <2>4. Keeps("read_file")
    BY <2>1, StartNames DEF Elapses, Starting, Keeps
  <2>5. Starting'
    BY <1>1, <2>2, <2>3, <2>4, StartingPasses
  <2>6. Lasting'
    BY <2>2, <2>3, <2>4, LastingPasses DEF Keeps, IsReady
  <2> QED
    BY <1>3, <2>5, <2>6
<1> QED
  BY <1>3, <1>4, <1>5, <1>6, <1>7, <1>8, <1>9, ThreadNames DEF Next

-----------------------------------------------------------------------------
(* A step between two frames: read_file rests, or stores the next frame. *)

RawFrame == [frame |-> enc.count + 1, form |-> "raw", len |-> Size]

SendPacketRests ==
  \/ AtHome("send_packet")
  \/ /\ Resumes("send_packet", "idle") /\ Reported = 0
     /\ pc["read_file"] \in {"encoded", "written"} => wait["read_file"].time > 0
EncoderRests ==
  \/ Resumes("read_file", "start") /\ Reported = 0
  \/ /\ pc["read_file"] = "encoded" /\ wait["read_file"].event = NoEvent
     /\ enc.buffer_ptr \in FrameLens
     /\ enc.due = FramePeriod - EncodeTime + wait["read_file"].time
  \/ pc["read_file"] = "paced" /\ wait["read_file"].event = NoEvent
  \/ pc["read_file"] = "returned" /\ wait["read_file"] = On("nothing")
  \/ /\ Resumes("read_file", "written")
     /\ Size \in FrameLens
     /\ enc.due = FramePeriod - EncodeTime - BusTime(Size)
     /\ mem["bus1"][enc.adr_num] = RawFrame
Resting ==
  /\ Passed(Reported, Reported, Reported, Reported)
  /\ OthersHome({"send_packet"})
  /\ SendPacketRests
  /\ EncoderRests
Storing ==
  /\ Passed(Reported, Reported, Reported, Reported)
  /\ OthersHome({"bus1"})
  /\ pc["read_file"] = "written"
  /\ Size \in FrameLens
  /\ Asking("bus1", "read_file", Write("mem", enc.adr_num, Size, RawFrame))
  /\ enc.due = FramePeriod - EncodeTime - BusTime(Size) + Remaining("bus1")

LEMMA QuietKinds == /\ Quiet <=> Resting \/ Storing
                    /\ Quiet' <=> Resting' \/ Storing'
  BY DEF Quiet, Resting, Storing, SendPacketRests, EncoderRests, RawFrame

LEMMA RestingHome ==
  ASSUME Resting
  PROVE  BusFree("bus1") /\ BusFree("bus2") /\ AtHome("aesEncrypt") /\ AtHome("setup")
<1>1. OthersHome({"send_packet"})
  BY DEF Resting
<1> QED
  BY <1>1, ThreadNames DEF OthersHome, BusFree

\* Short frames leave time before the next one is due.
LEMMA DueLater ==
  ASSUME FrameLens \subseteq 1..ShortFrame, NEW l \in FrameLens
  PROVE  /\ BusTime(l) \in Nat /\ FrameLengthOn(l) \in Nat
         /\ FramePeriod - EncodeTime - BusTime(l) > 0
         /\ FrameLengthOn(l) < (FramePeriod - EncodeTime - BusTime(l)) + EncodeTime
<1>1. l \in 1..ShortFrame
  OBVIOUS
<1>2. FrameLengthOn(l) + BusTime(l) < FramePeriod /\ EncodeTime + BusTime(l) < FramePeriod
  BY <1>1, ShortEnough
<1>3. l \in Nat
  BY FramesAssumption DEF FramesAssumption
<1>4. BusTime(l) \in Nat /\ FrameLengthOn(l) \in Nat
  BY <1>3, TimesToGo, Durations
<1> DEFINE f == FrameLengthOn(l)
           x == BusTime(l)
<1>5. f \in Nat /\ x \in Nat /\ f + x < FramePeriod /\ EncodeTime + x < FramePeriod
  BY <1>2, <1>4
<1> HIDE DEF f, x
<1>6. FramePeriod - EncodeTime - x > 0 /\ f < (FramePeriod - EncodeTime - x) + EncodeTime
  BY <1>5, Periods
<1> QED
  BY <1>4, <1>6 DEF f, x

\* The bus begins, or moves, or time passes.
LEMMA StoringPasses ==
  ASSUME Storing, NEW CONSTANT d, Passes(d), Keeps("read_file"),
         enc'.adr_num = enc.adr_num, enc'.count = enc.count, enc'.due = enc.due - d
  PROVE  Storing'
<1>1. /\ Reported' = Reported /\ Size' = Size /\ queue' = queue
      /\ Passed(Reported, Reported, Reported, Reported)'
      /\ OthersHome({"bus1"})'
  BY PassingPassed, PassingOthers, PassingHome DEF Storing, Passes
<1> DEFINE q == Write("mem", enc.adr_num, Size, RawFrame)
<1>2. RawFrame' = RawFrame /\ q' = q
  BY <1>1 DEF RawFrame, Write
<1>3. /\ queue["bus1"] = <<[by |-> "read_file", req |-> q]>>
      /\ wait["read_file"] = On("read_file")
      /\ Serving("bus1")
  BY DEF Storing, Asking, Serving
<1>4. Serving("bus1")' /\ Remaining("bus1")' = Remaining("bus1") - d /\ Remaining("bus1") \in Nat
  BY <1>3, ThreadNames DEF Passes
<1> HIDE DEF q
<1>5. Asking("bus1", "read_file", q)'
  BY <1>1, <1>2, <1>3, <1>4 DEF Asking, Serving, Keeps
<1>6. enc'.due = (FramePeriod - EncodeTime - BusTime(Size')) + Remaining("bus1")'
  <2> DEFINE y == FramePeriod - EncodeTime - BusTime(Size)
             z == Remaining("bus1")
  <2>1. enc.due = y + z /\ z \in Nat /\ d \in Nat
    BY <1>4 DEF Storing, Passes
  <2>2. Size \in Nat
    BY FramesAssumption DEF Storing, FramesAssumption
  <2>3. y \in Int
    BY <2>2, Durations, Periods
  <2> HIDE DEF y, z
  <2>4. (y + z) - d = y + (z - d)
    BY <2>1, <2>3
  <2>5. enc'.due = y + (z - d)
    BY <2>1, <2>4
  <2> QED
    BY <1>1, <1>4, <2>5 DEF y, z
<1> QED
  BY <1>1, <1>5, <1>6 DEF Storing, Keeps, q

LEMMA StoringBegins ==
  ASSUME IInv, Lasting, Storing, Begin("bus1")
  PROVE  Lasting' /\ Storing'
<1>1. Passes(0) /\ Undisturbed
  BY BeginPasses, ThreadNames
<1>2. enc' = enc /\ Keeps("read_file")
  BY <1>1 DEF Undisturbed
<1>3. enc.due \in Nat
  BY DEF IInv, DataOK, RegistersOK
<1>4. enc.due = enc.due - 0
  BY <1>3
<1>5. Storing'
  BY <1>1, <1>2, <1>4, StoringPasses
<1>6. Lasting'
  BY <1>1, <1>2, LastingPasses DEF Keeps, IsReady
<1> QED
  BY <1>5, <1>6

LEMMA StoringTicks ==
  ASSUME FrameLens \subseteq 1..ShortFrame, IInv, Lasting, Storing, Tick
  PROVE  Lasting' /\ Storing'
<1>1. ControlOK /\ DataOK
  BY DEF IInv
<1>2. PICK d \in Nat : Elapses(d)
  BY <1>1, Ticks
<1>3. Passes(d)
  BY <1>1, <1>2, TickPasses
<1>4. Keeps("read_file")
  BY <1>2, ThreadNames, StartNames DEF Elapses, Storing, Asking, Keeps
<1>5. d <= Remaining("bus1")
  BY <1>2, ThreadNames DEF Elapses, Storing, Asking, Resumes, Remaining
<1>6. enc.due > d
  <2> DEFINE y == FramePeriod - EncodeTime - BusTime(Size)
             z == Remaining("bus1")
  <2>1. z \in Nat /\ d <= z
    BY <1>1, <1>5, RemainingTime, ThreadNames
  <2>2. y > 0 /\ BusTime(Size) \in Nat
    BY DueLater DEF Storing
  <2>3. y \in Int
    BY <2>2, Periods
  <2>4. enc.due = y + z
    BY DEF Storing
  <2> HIDE DEF y, z
  <2> QED
    BY <2>1, <2>2, <2>3, <2>4
<1>7. /\ enc'.due = enc.due - d /\ enc'.adr_num = enc.adr_num /\ enc'.count = enc.count
      /\ enc'.mem_address_dst = enc.mem_address_dst
  BY <1>1, <1>2, <1>6, EncPasses DEF Elapses
<1>8. Storing'
  BY <1>3, <1>4, <1>7, StoringPasses
<1>9. Lasting'
  BY <1>3, <1>4, <1>7, LastingPasses DEF Keeps, IsReady
<1> QED
  BY <1>8, <1>9

\* The frame is in the memory.
LEMMA StoringMoves ==
  ASSUME ControlOK, DataOK, Lasting, Storing, Bus("bus1"), ~Begin("bus1")
  PROVE  Lasting' /\ Resting'
<1> DEFINE q == Write("mem", enc.adr_num, Size, RawFrame)
<1>1. Asking("bus1", "read_file", q)
  BY DEF Storing
<1>2. /\ Head(queue["bus1"]).req = q
      /\ ~Head(queue["bus1"]).req.rdnwr /\ Head(queue["bus1"]).req.slave = "mem"
      /\ Head(queue["bus1"]).req.addr = enc.adr_num /\ Head(queue["bus1"]).req.data = RawFrame
  BY <1>1, Served, RequestKinds
<1> HIDE DEF q
<1>3. /\ Resumes("bus1", "moving")
      /\ mem' = [mem EXCEPT !["bus1"][enc.adr_num] = RawFrame]
      /\ Finish("bus1", {})
      /\ UNCHANGED <<enc, up, crypto, nic, network_frame, mem_num>>
  <2>1. MemDataTransfer("bus1") /\ Resumes("bus1", "moving")
    BY <1>2, BusServes, ThreadNames
  <2> QED
    BY <1>2, <2>1 DEF MemDataTransfer
<1>4. /\ queue'["bus2"] = queue["bus2"] /\ BusFree("bus1")'
      /\ pc'["read_file"] = "written" /\ wait'["read_file"] = Ready
      /\ \A p \in Threads \ {"bus1", "read_file"} : Keeps(p)
  <2>1. Answered("bus1", "read_file", {})
    BY <1>1, <1>3, Answering, StartNames, ThreadNames
  <2> QED
    BY <2>1, ThreadNames DEF Answered, Keeps, Storing
<1>5. enc' = enc /\ Size' = Size /\ Reported' = Reported /\ RawFrame' = RawFrame
  BY <1>3, <1>4 DEF Size, Reported, RawFrame, Storing
<1>6. /\ mem'["bus2"] = mem["bus2"] /\ mem'["bus1"][3] = mem["bus1"][3]
      /\ mem'["bus1"][enc.adr_num] = RawFrame
  <2>1. mem \in [Buses -> [Blocks -> Content]] /\ {0, 1, 3, 4} \subseteq Blocks
    BY BlockNumbers DEF DataOK, ContentsOK
  <2>2. enc.adr_num \in {0, 1}
    BY DEF DataOK, RegistersOK
  <2> QED
    BY <1>3, <2>1, <2>2, ThreadNames
<1>7. enc.due = FramePeriod - EncodeTime - BusTime(Size)
  <2>1. Remaining("bus1") = 0
    BY <1>3 DEF Resumes, IsReady, Ready, Remaining
  <2>2. Size \in Nat
    BY FramesAssumption DEF Storing, FramesAssumption
  <2> DEFINE y == FramePeriod - EncodeTime - BusTime(Size)
  <2>3. y \in Int /\ enc.due = y + 0
    BY <2>1, <2>2, Durations, Periods DEF Storing
  <2> HIDE DEF y
  <2>4. enc.due = y
    BY <2>3
  <2> QED
    BY <2>4 DEF y
<1>8. OthersHome({"send_packet"})' /\ AtHome("send_packet")'
  <2>1. OthersHome({"bus1"})
    BY DEF Storing
  <2>2. ASSUME NEW p \in Threads \ {"read_file"} PROVE AtHome(p)'
    <3>1. CASE p = "bus1"
      BY <1>4, <3>1 DEF BusFree
    <3>2. CASE p # "bus1"
      BY <1>4, <2>1, <2>2, <3>2 DEF OthersHome, AtHome, Keeps
    <3> QED
      BY <3>1, <3>2
  <2>3. \A b \in Buses : queue'[b] = <<>>
    BY <1>4, <2>1, ThreadNames DEF OthersHome, BusFree
  <2> QED
    BY <2>2, <2>3, ThreadNames DEF OthersHome
<1>9. Passed(Reported, Reported, Reported, Reported)'
  BY <1>3, <1>5, <1>6 DEF Storing, Passed, Delivered
<1>10. EncoderRests'
  BY <1>4, <1>5, <1>6, <1>7 DEF EncoderRests, Resumes, IsReady, Storing
<1>11. Resting'
  BY <1>8, <1>9, <1>10 DEF Resting, SendPacketRests
<1>12. Lasting'
  BY <1>3, <1>4, <1>5, <1>6 DEF Lasting, Storing
<1> QED
  BY <1>11, <1>12

\* The next frame is begun.
LEMMA RestingBegins ==
  ASSUME IInv, Lasting, Resting, StartReading \/ FramePaced
  PROVE  Lasting' /\ Resting'
<1>1. Continues
  BY Continuing DEF IInv
<1>2. /\ Passes(0)
      /\ enc'.adr_num = enc.adr_num /\ enc'.mem_address_dst = enc.mem_address_dst
      /\ \A p \in Threads \ {"read_file"} : Keeps(p)
  BY <1>1 DEF Continues
<1>3. Reported' = Reported
  BY <1>2 DEF Passes
<1>4. Passed(Reported, Reported, Reported, Reported)' /\ OthersHome({"send_packet"})'
  BY <1>2, PassingPassed, PassingOthers DEF Resting
<1>5. EncoderRests' /\ (pc'["read_file"] = "encoded" => wait'["read_file"].time > 0)
  <2>1. CASE /\ pc'["read_file"] = "encoded" /\ wait'["read_file"] = For(EncodeTime)
             /\ enc'.buffer_ptr \in FrameLens /\ enc'.due = FramePeriod
    <3>1. wait'["read_file"].event = NoEvent /\ wait'["read_file"].time = EncodeTime
      BY <2>1 DEF For
    <3>2. FramePeriod = FramePeriod - EncodeTime + EncodeTime /\ EncodeTime > 0
      BY Periods
    <3> QED
      BY <2>1, <3>1, <3>2 DEF EncoderRests
  <2>2. CASE pc'["read_file"] = "returned" /\ wait'["read_file"] = On("nothing")
    BY <2>2 DEF EncoderRests
  <2> QED
    BY <1>1, <2>1, <2>2 DEF Continues
<1>6. SendPacketRests'
  <2>1. Keeps("send_packet")
    BY <1>2, ThreadNames
  <2>2. pc'["read_file"] # "written"
    BY <1>1 DEF Continues
  <2> QED
    BY <1>3, <1>5, <2>1, <2>2 DEF Resting, SendPacketRests, AtHome, Keeps, Resumes, IsReady, Ready
<1>7. Lasting'
  <2>1. pc["read_file"] # "start" \/ IsReady("read_file")
    BY DEF StartReading, FramePaced, Resumes
  <2> QED
    BY <1>2, <2>1, LastingPasses
<1> QED
  BY <1>4, <1>5, <1>6, <1>7 DEF Resting

LEMMA RestingWrites ==
  ASSUME FrameLens \subseteq 1..ShortFrame, IInv, Lasting, Resting, FrameEncoded
  PROVE  Lasting' /\ Storing'
<1>1. ControlOK /\ DataOK
  BY DEF IInv
<1> DEFINE q == Write("mem", enc.adr_num, enc.buffer_ptr,
                      [frame |-> enc.count + 1, form |-> "raw", len |-> enc.buffer_ptr])
<1>2. /\ pc["read_file"] = "encoded" /\ wait["read_file"] = Ready
      /\ enc' = [enc EXCEPT !.frame_length = enc.buffer_ptr]
      /\ UNCHANGED <<mem, up, network_frame, mem_num>>
  BY DEF FrameEncoded, Resumes, IsReady
<1>3. wait["read_file"].time = 0 /\ ~(wait["read_file"].time > 0)
  BY <1>2, OnIsNotReady
<1>4. /\ enc.buffer_ptr \in FrameLens
      /\ enc.due = FramePeriod - EncodeTime + 0
      /\ AtHome("send_packet")
  BY <1>2, <1>3 DEF Resting, EncoderRests, SendPacketRests, Resumes
<1>5. /\ enc'.frame_length = enc.buffer_ptr /\ enc'.due = enc.due /\ enc'.count = enc.count
      /\ enc'.adr_num = enc.adr_num /\ enc'.mem_address_dst = enc.mem_address_dst
      /\ enc.adr_num \in {0, 1}
  BY <1>1, <1>2 DEF DataOK, RegistersOK
<1>6. enc.mem_address_dst[enc.adr_num] = enc.adr_num
  BY <1>2, <1>5 DEF Lasting
<1>7. Transfer("read_file", "bus1", q, "written", {})
  BY <1>6 DEF FrameEncoded
<1>8. /\ Size' = enc.buffer_ptr /\ Reported' = Reported
  <2>1. pc'["read_file"] = "written"
    BY <1>1, <1>7, Suspended, ThreadNames DEF Transfer
  <2> QED
    BY <1>2, <1>5, <2>1 DEF Size, Reported
<1>9. q = Write("mem", enc.adr_num, Size, RawFrame)'
  BY <1>5, <1>8 DEF RawFrame, Write
<1>10. q.len = enc.buffer_ptr
  BY DEF Write
<1> HIDE DEF q
<1>11. AsksFor("bus1", "read_file", q, "written")
  <2>1. queue \in [Buses -> Seq(Entries)] /\ BusFree("bus1")
    BY <1>1, RestingHome DEF DataOK
  <2> QED
    BY <1>1, <1>7, <2>1, Asked, StartNames, ThreadNames
<1>12. Asking("bus1", "read_file", Write("mem", enc.adr_num, Size, RawFrame))'
  BY <1>9, <1>11 DEF AsksFor, Asking, Resumes, IsReady
<1>13. enc'.due = FramePeriod - EncodeTime - BusTime(Size') + Remaining("bus1")'
  <2>1. Remaining("bus1")' = BusTime(Size')
    BY <1>8, <1>10, <1>11 DEF AsksFor
  <2>2. BusTime(Size') \in Nat
    BY <1>4, <1>8, DueLater
  <2> DEFINE x == BusTime(Size')
  <2>3. FramePeriod - EncodeTime + 0 = FramePeriod - EncodeTime - x + x
    BY <2>2, Periods
  <2> QED
    BY <1>4, <1>5, <2>1, <2>3
<1>14. OthersHome({"bus1"})'
  <2>1. OthersHome({"send_packet"})
    BY DEF Resting
  <2>2. ASSUME NEW p \in (Threads \ {"read_file"}) \ {"bus1"} PROVE AtHome(p)'
    <3>1. AtHome(p)
      BY <1>4, <2>1 DEF OthersHome
    <3> QED
      BY <1>11, <3>1 DEF AsksFor, Keeps, AtHome
  <2>3. \A b \in Buses \ {"bus1"} : queue'[b] = <<>>
    BY <1>11, <2>1, ThreadNames DEF AsksFor, OthersHome
  <2> QED
    BY <2>2, <2>3 DEF OthersHome
<1>15. Passed(Reported, Reported, Reported, Reported)'
  BY <1>2, <1>8 DEF Resting, Passed, Delivered
<1>16. Storing'
  BY <1>4, <1>8, <1>9, <1>11, <1>12, <1>13, <1>14, <1>15 DEF Storing, AsksFor
<1>17. Lasting'
  BY <1>2, <1>5, <1>8 DEF Lasting
<1> QED
  BY <1>16, <1>17

\* The processor is told, waits for that, and the frame sets out.
LEMMA RestingReports ==
  ASSUME FrameLens \subseteq 1..ShortFrame, IInv, Lasting, Resting, FrameWritten
  PROVE  /\ Lasting' /\ OnTheWay'
         /\ wait["send_packet"].event = "encode_done"
<1>1. ControlOK /\ DataOK /\ pc["read_file"] = "written" /\ wait["read_file"] = Ready
  BY DEF IInv, FrameWritten, Resumes, IsReady
<1>2. wait["read_file"].time = 0 /\ ~(wait["read_file"].time > 0)
  BY <1>1, OnIsNotReady
<1>3. /\ Size \in FrameLens /\ enc.due = FramePeriod - EncodeTime - BusTime(Size)
      /\ mem["bus1"][enc.adr_num] = RawFrame
      /\ AtHome("send_packet")
  BY <1>1, <1>2 DEF Resting, EncoderRests, SendPacketRests, Resumes
<1>4. enc.due > 0 /\ FrameLengthOn(Size) < enc.due + EncodeTime /\ enc.due # 0
  <2>1. enc.due > 0 /\ FrameLengthOn(Size) < enc.due + EncodeTime
    BY <1>3, DueLater
  <2>2. enc.due \in Nat
    BY <1>1 DEF DataOK, RegistersOK
  <2> QED
    BY <2>1, <2>2
<1>5. /\ enc' = [enc EXCEPT !.adr_num = 1 - @]
      /\ Suspend("read_file", "paced", For(enc.due), {"encode_done"})
      /\ UNCHANGED <<queue, result, mem, up, crypto, nic, network_frame, mem_num>>
  BY <1>4 DEF FrameWritten
<1>6. /\ pc["send_packet"] = "encode_done" /\ wait["send_packet"].event = "encode_done"
  BY <1>3, HomeEvents DEF Home, HomeEvent
<1>7. /\ pc'["read_file"] = "paced" /\ wait'["read_file"] = For(enc.due)
      /\ pc'["send_packet"] = "encode_done" /\ wait'["send_packet"] = Ready
      /\ \A p \in Threads \ {"read_file", "send_packet"} : Keeps(p)
  <2>1. /\ pc'["read_file"] = "paced" /\ wait'["read_file"] = For(enc.due)
        /\ \A p \in Threads \ {"read_file"} :
             /\ pc'[p] = pc[p]
             /\ wait'[p] = IF wait[p].event \in {"encode_done"} THEN Ready ELSE wait[p]
    BY <1>1, <1>5, Suspended, ThreadNames DEF Others
  <2>2. \A p \in Threads \ {"send_packet"} : wait[p].event # "encode_done"
    BY <1>1, Listener
  <2> QED
    BY <1>6, <2>1, <2>2, ThreadNames DEF Keeps
<1>8. /\ enc'.adr_num = 1 - enc.adr_num /\ enc'.count = enc.count /\ enc'.due = enc.due
      /\ enc'.frame_length = enc.frame_length /\ enc'.mem_address_dst = enc.mem_address_dst
      /\ enc.count \in 0..Frames
  BY <1>1, <1>5 DEF DataOK, RegistersOK
<1> DEFINE k == Reported
<1>9. /\ k = enc.count /\ k \in Nat /\ k < Frames /\ Frames \in Nat
      /\ Reported' = k + 1 /\ k + 1 - 1 = k /\ Size' = Size
  <2>1. k = enc.count /\ Reported' = enc.count + 1 /\ Size' = Size
    BY <1>1, <1>7, <1>8 DEF Reported, Size
  <2>2. enc.count < Frames /\ Frames \in Nat
    BY <1>1, FramesAssumption DEF IInv, CountOK, FramesAssumption
  <2>3. \A n \in 0..Frames : n \in Nat /\ n + 1 - 1 = n
    BY <2>2
  <2> HIDE DEF k
  <2> QED
    BY <1>8, <2>1, <2>2, <2>3
<1>10. enc.adr_num = k % 2 /\ Passed(k, k, k, k)
  BY DEF Lasting, Resting
<1> HIDE DEF k
<1>11. (k + 1) % 2 = 1 - (k % 2) /\ ((k + 1) % 2 = 1 => k % 2 = 0) /\ k + 1 \in 0..Frames
  BY <1>9
<1>12. Passed(Reported - 1, Reported - 1, Reported - 1, Reported - 1)'
  <2>1. Passed(Reported' - 1, Reported' - 1, Reported' - 1, Reported' - 1)
    BY <1>9, <1>10
  <2> QED
    BY <1>5, <2>1 DEF Passed, Delivered
<1>13. RawStored'
  <2>1. RawFrame = [frame |-> k + 1, form |-> "raw", len |-> Size]
    BY <1>9 DEF RawFrame
  <2>2. k % 2 = 0 => mem'["bus1"][0] = [frame |-> k + 1, form |-> "raw", len |-> Size]
    BY <1>3, <1>5, <1>10, <2>1
  <2> QED
    BY <1>9, <1>11, <2>2 DEF RawStored
<1>14. OthersHome(Crypto1Threads)' /\ AtHome("aesEncrypt")' /\ BusFree("bus1")'
  <2>1. OthersHome({"send_packet"})
    BY DEF Resting
  <2>2. ASSUME NEW p \in (Threads \ {"read_file"}) \ {"send_packet"} PROVE AtHome(p)'
    BY <1>7, <2>1, <2>2 DEF OthersHome, AtHome, Keeps
  <2>3. \A b \in Buses : queue'[b] = <<>>
    BY <1>5, <2>1, ThreadNames DEF OthersHome
  <2> QED
    BY <2>2, <2>3, ThreadNames DEF OthersHome, BusFree, Crypto1Threads
<1>15. PICK r : r = FrameLengthOn(Size)
  OBVIOUS
<1>16. Commanding(r)'
  BY <1>7, <1>9, <1>14, <1>15 DEF Commanding, Resumes, IsReady
<1>17. Working(r)'
  BY <1>12, <1>13, <1>14, <1>16 DEF Working, InCrypto1, Crypto1Threads
<1>18. Encoding(r)'
  <2>1. wait'["read_file"].event = NoEvent /\ wait'["read_file"].time = enc.due
    BY <1>7 DEF For
  <2> QED
    BY <1>3, <1>4, <1>7, <1>9, <1>15, <2>1 DEF Encoding
<1>19. Lasting'
  BY <1>5, <1>7, <1>8, <1>9, <1>10, <1>11, <1>1 DEF Lasting
<1> QED
  BY <1>6, <1>17, <1>18, <1>19 DEF OnTheWay

LEMMA RestingAwaits ==
  ASSUME IInv, Lasting, Resting, Microprocessor
  PROVE  Lasting' /\ Resting'
<1>1. ControlOK /\ IsReady("send_packet") /\ ~AtHome("send_packet")
  <2>1. IsReady("send_packet")
    BY DEF Microprocessor, AwaitFrame, Connect, Connecting, StartEncoder, AwaitEncoder,
       GetFrameLength, StartEncryption, AwaitEncryption, SendPacket, Resumes
  <2> QED
    BY <2>1, ReadyIsNotHome, ThreadNames DEF IInv
<1>2. pc["send_packet"] = "idle"
  BY <1>1 DEF Resting, SendPacketRests, Resumes
<1>3. AwaitEncoder
  BY <1>2 DEF Microprocessor, AwaitFrame, Connect, Connecting, StartEncoder, GetFrameLength,
     StartEncryption, AwaitEncryption, SendPacket, Resumes
<1>4. /\ Suspend("send_packet", "encode_done", On("encode_done"), {})
      /\ UNCHANGED <<queue, result, mem, enc, up, crypto, nic, network_frame, mem_num>>
  BY <1>3 DEF AwaitEncoder
<1>5. /\ pc'["send_packet"] = "encode_done" /\ wait'["send_packet"] = On("encode_done")
      /\ \A p \in Threads \ {"send_packet"} : Keeps(p)
  BY <1>1, <1>4, Alone, ThreadNames
<1>6. Keeps("read_file")
  BY <1>5, ThreadNames
<1>7. Undisturbed /\ Reported' = Reported /\ Size' = Size
  BY <1>4, <1>6, FrameKept DEF Undisturbed
<1>8. OthersHome({"send_packet"})'
  BY <1>4, <1>5, HomeStays DEF Resting
<1>9. Passed(Reported, Reported, Reported, Reported)'
  BY <1>4, <1>7 DEF Resting, Passed, Delivered
<1>10. EncoderRests'
  <2>1. RawFrame' = RawFrame
    BY <1>4, <1>7 DEF RawFrame
  <2> QED
    BY <1>4, <1>6, <1>7, <2>1 DEF Resting, EncoderRests, Keeps, Resumes, IsReady, Ready
<1>11. AtHome("send_packet")'
  BY <1>5 DEF AtHome, Home, HomeEvent
<1>12. Lasting'
  BY <1>4, <1>7, LastingKept
<1> QED
  BY <1>8, <1>9, <1>10, <1>11, <1>12 DEF Resting, SendPacketRests

LEMMA RestingTicks ==
  ASSUME IInv, Lasting, Resting, Tick
  PROVE  Lasting' /\ Resting'
<1>1. ControlOK /\ DataOK
  BY DEF IInv
<1>2. PICK d \in Nat : Elapses(d)
  BY <1>1, Ticks
<1>3. Passes(d)
  BY <1>1, <1>2, TickPasses
<1>4. /\ pc' = pc
      /\ ~IsReady("send_packet") /\ ~IsReady("read_file")
      /\ wait["read_file"].event = NoEvent =>
           /\ d <= wait["read_file"].time /\ wait["read_file"].time \in Nat
           /\ wait'["read_file"].event = NoEvent
           /\ wait'["read_file"].time = wait["read_file"].time - d
      /\ wait["read_file"] = On("nothing") => wait'["read_file"] = On("nothing")
  BY <1>2, ThreadNames DEF Elapses
<1>5. /\ enc'.buffer_ptr = enc.buffer_ptr /\ enc'.adr_num = enc.adr_num
      /\ enc'.mem_address_dst = enc.mem_address_dst
      /\ enc.due > d => enc'.due = enc.due - d
  BY <1>1, <1>2, EncPasses DEF Elapses
<1>6. Passed(Reported, Reported, Reported, Reported)' /\ OthersHome({"send_packet"})'
  BY <1>3, PassingPassed, PassingOthers DEF Resting
<1>7. AtHome("send_packet")'
  <2>1. AtHome("send_packet")
    BY <1>4 DEF Resting, SendPacketRests, Resumes
  <2> QED
    BY <1>3, <2>1, PassingHome, ThreadNames
<1>8. EncoderRests'
  <2>1. CASE /\ pc["read_file"] = "encoded" /\ wait["read_file"].event = NoEvent
             /\ enc.buffer_ptr \in FrameLens
             /\ enc.due = FramePeriod - EncodeTime + wait["read_file"].time
    <3> DEFINE t == wait["read_file"].time
    <3>1. t \in Nat /\ d <= t /\ wait'["read_file"].time = t - d
      BY <1>4, <2>1
    <3> HIDE DEF t
    <3>2. enc.due = FramePeriod - EncodeTime + t
      BY <2>1 DEF t
    <3>3. enc.due > d /\ enc.due - d = FramePeriod - EncodeTime + (t - d)
      BY <3>1, <3>2, Periods
    <3> QED
      BY <1>4, <1>5, <2>1, <3>1, <3>3 DEF EncoderRests
  <2>2. CASE pc["read_file"] = "paced" /\ wait["read_file"].event = NoEvent
    BY <1>4, <2>2 DEF EncoderRests
  <2>3. CASE pc["read_file"] = "returned" /\ wait["read_file"] = On("nothing")
    BY <1>4, <2>3 DEF EncoderRests
  <2> QED
    BY <1>4, <2>1, <2>2, <2>3 DEF Resting, EncoderRests, Resumes
<1>9. Lasting'
  <2>1. IsReady("read_file")' => pc["read_file"] # "start"
    BY <1>4 DEF Resting, EncoderRests, Resumes
  <2> QED
    BY <1>3, <1>4, <1>5, <2>1, LastingPasses
<1> QED
  BY <1>6, <1>7, <1>8, <1>9 DEF Resting, SendPacketRests

LEMMA QuietStep ==
  ASSUME FrameLens \subseteq 1..ShortFrame, IInv, Lasting, Quiet, Next
  PROVE  /\ Lasting' /\ (Quiet' \/ OnTheWay')
         /\ FrameWritten => wait["send_packet"].event = "encode_done"
<1>1. ControlOK /\ DataOK
  BY DEF IInv
<1>2. Resting \/ Storing
  BY QuietKinds
<1>3. /\ \A b \in Buses : ~Crypto(b)
      /\ ~Microprocessor2 /\ ~Bus("bus2") /\ ~NetworkInterfaceCards
  <2>1. ~SetupTcpConnection /\ ~ConnectionReady
    BY NobodyReady DEF SetupTcpConnection, ConnectionReady, Resumes
  <2> QED
    BY <2>1, NobodyReady DEF NetworkInterfaceCards
<1>4. CASE Resting
  <2>1. ~Bus("bus1")
    <3>1. pc["bus1"] = "front" /\ ~IsReady("bus1")
      BY <1>4, RestingHome, HomeEvents, ThreadNames DEF BusFree, AtHome, Home
    <3>2. Bus("bus1") /\ ~Begin("bus1") => IsReady("bus1")
      BY BusServes, ThreadNames DEF Resumes
    <3> QED
      BY <3>1, <3>2 DEF Begin, Resumes
  <2>2. CASE Encoder
    <3>1. CASE FrameWritten
      BY <1>4, <3>1, RestingReports
    <3>2. CASE StartReading \/ FramePaced
      <4>1. ~FrameWritten
        BY <3>2 DEF StartReading, FramePaced, FrameWritten, Resumes
      <4> QED
        BY <1>4, <3>2, <4>1, RestingBegins, QuietKinds
    <3>3. CASE FrameEncoded
      <4>1. ~FrameWritten
        BY <3>3 DEF FrameEncoded, FrameWritten, Resumes
      <4> QED
        BY <1>4, <3>3, <4>1, RestingWrites, QuietKinds
    <3> QED
      BY <2>2, <3>1, <3>2, <3>3 DEF Encoder
  <2>3. FrameWritten => Encoder
    BY DEF Encoder
  <2>4. CASE Microprocessor
    BY <1>4, <2>2, <2>3, <2>4, RestingAwaits, QuietKinds
  <2>5. CASE Tick
    BY <1>4, <2>2, <2>3, <2>5, RestingTicks, QuietKinds
  <2> QED
    BY <1>3, <2>1, <2>2, <2>4, <2>5, ThreadNames DEF Next
<1>5. CASE Storing
  <2>1. ~IsReady("read_file") /\ ~IsReady("send_packet")
    <3>1. AtHome("send_packet") /\ wait["read_file"] = On("read_file")
      BY <1>5, ThreadNames DEF Storing, OthersHome, Asking
    <3> QED
      BY <3>1, OnIsNotReady, StartNames, ReadyIsNotHome, ThreadNames DEF IsReady
  <2>2. ~Encoder /\ ~FrameWritten /\ ~Microprocessor
    BY <2>1 DEF Encoder, StartReading, FrameEncoded, FrameWritten, FramePaced, Microprocessor,
       AwaitFrame, Connect, Connecting, StartEncoder, AwaitEncoder, GetFrameLength,
       StartEncryption, AwaitEncryption, SendPacket, Resumes
  <2>3. CASE Begin("bus1")
    BY <1>5, <2>2, <2>3, StoringBegins, QuietKinds
  <2>4. CASE Bus("bus1") /\ ~Begin("bus1")
    BY <1>1, <1>5, <2>2, <2>4, StoringMoves, QuietKinds
  <2>5. CASE Tick
    BY <1>5, <2>2, <2>5, StoringTicks, QuietKinds
  <2> QED
    BY <1>3, <2>2, <2>3, <2>4, <2>5, ThreadNames DEF Next
<1> QED
  BY <1>2, <1>4, <1>5

-----------------------------------------------------------------------------
(* The whole chain. *)

ShortFrames == FrameLens \subseteq 1..ShortFrame

Chain == Lasting /\ (Starting \/ Quiet \/ OnTheWay)

LEMMA ChainBegins ==
  ASSUME Init
  PROVE  Chain
<1>1. /\ pc["read_file"] = "start" /\ wait["read_file"] = On("read")
      /\ pc["send_packet"] = "start" /\ wait["send_packet"] = Ready
  BY ThreadNames DEF Init, Buses
<1>2. ASSUME NEW t \in Threads \ {"read_file", "send_packet"} PROVE AtHome(t)
  <2>1. CASE t \in Buses
    BY <1>2, <2>1, ThreadNames DEF Init, AtHome, Home, HomeEvent
  <2>2. CASE t \in {"aesEncrypt", "aesDecrypt", "read_packet"}
    BY <1>2, <2>2, ThreadNames DEF Init, AtHome, Home, HomeEvent
  <2>3. CASE t \in {"send_frame", "setup", "receive_frame", "decrypt_packet"}
    BY <1>2, <2>3, ThreadNames DEF Init, AtHome, Home, HomeEvent
  <2> QED
    BY <1>2, <2>1, <2>2, <2>3, ThreadNames
<1>3. /\ enc.count = 0 /\ enc.adr_num = 0 /\ up.frame_num = 0
      /\ mem_num["receive_frame"] = 0 /\ mem_num["decrypt_packet"] = 0
      /\ \A b \in Buses : queue[b] = <<>>
      /\ mem["bus1"][3] = Blank /\ mem["bus2"][2] = Blank /\ mem["bus2"][3] = Blank
      /\ network_frame = Blank
  BY BlockNumbers, ThreadNames DEF Init
<1>4. Reported = 0 /\ 0 % 2 = 0 /\ Frames \in Nat
  BY <1>1, <1>3, FramesAssumption DEF Reported, FramesAssumption
<1>5. Passed(0, 0, 0, 0)
  BY <1>3, <1>4 DEF Passed, Delivered
<1>6. OthersHome({"send_packet", "setup", "bus1"}) /\ AtHome("setup") /\ BusFree("bus1")
  BY <1>2, <1>3, ThreadNames DEF OthersHome, BusFree
<1>7. Starting
  BY <1>1, <1>3, <1>5, <1>6 DEF Starting, Resumes, IsReady
<1>8. Lasting
  BY <1>1, <1>3, <1>4, OnIsNotReady DEF Lasting, IsReady
<1> QED
  BY <1>7, <1>8 DEF Chain

LEMMA ChainStep ==
  ASSUME ShortFrames, IInv, Chain, Next
  PROVE  /\ Chain'
         /\ FrameWritten => wait["send_packet"].event = "encode_done"
         /\ PacketRead => wait["send_frame"].event = "send_event"
         /\ FrameSent => wait["receive_frame"].event = "receive_event"
         /\ FrameReceived => wait["decrypt_packet"].event = "packet_received"
<1>1. CASE Starting
  BY <1>1, StartingStep, NobodyReady DEF Chain
<1>2. CASE Quiet
  BY <1>2, QuietStep, NobodyReady DEF Chain, ShortFrames
<1>3. CASE OnTheWay
  BY <1>3, WorkingStep DEF Chain
<1> QED
  BY <1>1, <1>2, <1>3 DEF Chain

LEMMA ChainStutters ==
  ASSUME IInv, Chain, UNCHANGED vars
  PROVE  Chain'
<1>1. /\ pc' = pc /\ wait' = wait /\ enc' = enc
      /\ UNCHANGED <<queue, result, mem, up, crypto, nic, network_frame, mem_num>>
  BY DEF vars
<1>2. ControlOK /\ DataOK
  BY DEF IInv
<1>3. Undisturbed /\ Keeps("read_file") /\ Reported' = Reported /\ Size' = Size
  BY <1>1, FrameKept DEF Undisturbed, Keeps
<1>4. Passes(0)
  <2>1. ASSUME NEW t \in Threads \ {"read_file"}
        PROVE  /\ Keeps(t)
               /\ wait[t].event = NoEvent =>
                    wait'[t].event = NoEvent /\ wait[t].time \in Nat /\ wait'[t].time = wait[t].time - 0
    <3>1. wait[t].time \in Nat
      BY <1>2, WaitTime
    <3>2. wait[t].time - 0 = wait[t].time
      BY <3>1
    <3> QED
      BY <1>1, <3>1, <3>2 DEF Keeps
  <2>2. ASSUME NEW b \in Buses
        PROVE  Remaining(b) \in Nat /\ (Serving(b) => Serving(b)' /\ Remaining(b)' = Remaining(b) - 0)
    <3>1. Remaining(b) \in Nat
      BY <1>2, RemainingTime
    <3>2. Serving(b)' <=> Serving(b)
      BY <1>1 DEF Serving, Resumes, IsReady
    <3>3. Remaining(b)' = Remaining(b)
      BY <1>1 DEF Remaining
    <3> QED
      BY <3>1, <3>2, <3>3
  <2> QED
    BY <1>1, <1>3, <2>1, <2>2 DEF Passes, Keeps
<1>5. Lasting'
  BY <1>1, <1>3, LastingKept DEF Chain
<1>6. CASE Starting
  BY <1>1, <1>2, <1>3, <1>4, <1>5, <1>6, StartingPasses DEF Chain
<1>7. CASE Storing
  <2>1. enc.due \in Nat
    BY <1>2 DEF DataOK, RegistersOK
  <2>2. enc'.due = enc.due - 0
    BY <1>1, <2>1
  <2>3. Storing'
    BY <1>1, <1>3, <1>4, <1>7, <2>2, StoringPasses
  <2> QED
    BY <1>5, <2>3, QuietKinds DEF Chain
<1>8. CASE Resting
  <2>1. Passed(Reported, Reported, Reported, Reported)' /\ OthersHome({"send_packet"})'
    BY <1>4, <1>8, PassingPassed, PassingOthers DEF Resting
  <2>2. SendPacketRests'
    BY <1>1, <1>3, <1>8 DEF Resting, SendPacketRests, AtHome, Resumes, IsReady
  <2>3. EncoderRests'
    <3>1. RawFrame' = RawFrame
      BY <1>1, <1>3 DEF RawFrame
    <3> QED
      BY <1>1, <1>3, <1>8, <3>1 DEF Resting, EncoderRests, Resumes, IsReady
  <2>4. Resting'
    BY <2>1, <2>2, <2>3 DEF Resting
  <2> QED
    BY <1>5, <2>4, QuietKinds DEF Chain
<1>9. CASE OnTheWay
  <2>1. PICK r : Working(r) /\ Encoding(r)
    BY <1>9 DEF OnTheWay
  <2>2. r \in Nat /\ r - 0 = r
    BY <1>2, <2>1, WorkingTime
  <2>3. Encoding(r - 0)' /\ pc["read_file"] # "start"
    BY <1>3, <2>1, <2>2, FrameKept, EncoderWaits
  <2>4. Lasting' /\ OnTheWay'
    BY <1>1, <1>4, <2>1, <2>2, <2>3, PassesOn DEF Chain
  <2> QED
    BY <2>4 DEF Chain
<1> QED
  BY <1>6, <1>7, <1>8, <1>9, QuietKinds DEF Chain

LEMMA ChainHolds ==
  ASSUME ShortFrames
  PROVE  Spec => [](IInv /\ Chain)
<1>1. Init => Chain
  BY ChainBegins
<1>2. IInv /\ Chain /\ [Next]_vars => Chain'
  BY ChainStep, ChainStutters
<1> QED
  BY <1>1, <1>2, PipelineInvariant, PTL DEF Spec

-----------------------------------------------------------------------------
(* What follows from where the frame is. *)

\* At every time one thread at most works on a frame, namely on the last that
\* was reported, and the time that this work still takes is less than the
\* encoder needs until it is done with the next.
THEOREM OneFrameAtATime ==
  ASSUME ShortFrames
  PROVE  Spec => []ChainInv
<1>1. IInv /\ Chain => ChainInv
  <2>1. ASSUME IInv, OnTheWay PROVE \E r \in ToGo : Working(r) /\ Encoding(r)
    BY <2>1, WorkingTime DEF OnTheWay, IInv
  <2> QED
    BY <2>1 DEF Chain, ChainInv
<1> QED
  BY <1>1, ChainHolds, PTL

\* While the frames are short no encode_done is lost: the sender's processor
\* waits for it whenever the encoder is done with a frame.
THEOREM EncryptionInTime ==
  ASSUME ShortFrames
  PROVE  Spec => EncryptionKeepsPace
<1>1. IInv /\ Chain /\ [Next]_vars => [FrameWritten => wait["send_packet"].event = "encode_done"]_vars
  BY ChainStep
<1> QED
  BY <1>1, ChainHolds, PTL DEF Spec, EncryptionKeepsPace

\* Neither is a send_event, a receive_event or a packet_received: the network
\* and the receiver are done with every frame before they are given the next.
THEOREM TransmissionInTime ==
  ASSUME ShortFrames
  PROVE  Spec => TransmissionKeepsPace
<1>1. IInv /\ Chain /\ [Next]_vars =>
        [/\ PacketRead => wait["send_frame"].event = "send_event"
         /\ FrameSent => wait["receive_frame"].event = "receive_event"
         /\ FrameReceived => wait["decrypt_packet"].event = "packet_received"]_vars
  BY ChainStep
<1> QED
  BY <1>1, ChainHolds, PTL DEF Spec, TransmissionKeepsPace

\* Only ciphertext goes over the network.
THEOREM OnlyCiphertextIsSent ==
  ASSUME ShortFrames
  PROVE  Spec => []CiphertextOnly
<1>1. Chain => CiphertextOnly
  BY DEF Chain, Lasting, CiphertextOnly
<1> QED
  BY <1>1, ChainHolds, PTL

LEMMA DeliveredWhole ==
  ASSUME DataOK, NEW k \in Int, k <= Frames, Delivered(k)
  PROVE  EveryOtherFrameWhole
<1>1. mem["bus2"][3] \in Content /\ Frames \in Nat
  BY BlockNumbers, ThreadNames, FramesAssumption DEF DataOK, ContentsOK, FramesAssumption
<1>2. CASE k = 0
  BY <1>2 DEF Delivered, EveryOtherFrameWhole, WholeFrameIn, Blank
<1>3. CASE k # 0
  <2> DEFINE n == mem["bus2"][3].frame
  <2>1. /\ mem["bus2"][3].form = "raw"
        /\ n = (IF k % 2 = 1 THEN k ELSE k - 1)
        /\ n \in 0..Frames
    BY <1>1, <1>3 DEF Delivered, Content
  <2> HIDE DEF n
  <2>2. n \in 1..Frames /\ n % 2 = 1 /\ n > 0
    BY <1>1, <1>3, <2>1
  <2> QED
    BY <2>1, <2>2 DEF EveryOtherFrameWhole, WholeFrameIn, n
<1> QED
  BY <1>2, <1>3

\* How far the receiver has come.
LEMMA DeliveredSoFar ==
  ASSUME Chain
  PROVE  /\ Delivered(Reported) \/ Delivered(Reported - 1)
         /\ Starting => Delivered(0)
         /\ Quiet => Delivered(Reported)
<1>1. Starting => Delivered(0) /\ Reported = 0
  BY DEF Starting, Passed, Reported
<1>2. Quiet => Delivered(Reported)
  BY DEF Quiet, Passed
<1>3. OnTheWay => Delivered(Reported) \/ Delivered(Reported - 1)
  BY DEF OnTheWay, Working, InCrypto1, InCard, InNetwork, InReceiver, InCrypto2, Commanding2,
     Fetching2, Decrypting, Decrypted, Passed
<1> QED
  BY <1>1, <1>2, <1>3 DEF Chain

\* Every other frame, of those that are reported, comes out of the pipeline as
\* it went in.
THEOREM EveryOtherFrameComesOut ==
  ASSUME ShortFrames
  PROVE  Spec => []EveryOtherFrameWhole
<1>1. ASSUME IInv, Chain PROVE EveryOtherFrameWhole
  <2>1. Reported \in Int /\ Reported - 1 \in Int /\ Reported <= Frames /\ Reported - 1 <= Frames
    <3>1. Reported \in 0..Frames /\ Frames \in Nat
      BY <1>1, FramesAssumption DEF Chain, Lasting, FramesAssumption
    <3> QED
      BY <3>1
  <2> QED
    BY <1>1, <2>1, DeliveredSoFar, DeliveredWhole DEF IInv
<1> QED
  BY <1>1, ChainHolds, PTL

\* Work goes on.
LEMMA WorkingIsBusy ==
  ASSUME ControlOK, NEW r, Working(r)
  PROVE  \E t \in Threads : IsReady(t) \/ wait[t].time # 0
<1> DEFINE Busy == \E t \in Threads : IsReady(t) \/ wait[t].time # 0
<1>1. ASSUME NEW t \in Threads, wait[t].event = NoEvent PROVE Busy
  <2>1. wait[t] \in Pauses
    <3>1. \A e : On(e).event = e
      BY DEF On
    <3> QED
      BY <1>1, <3>1, PauseShape DEF NoEvent
  <2>2. wait[t] = [event |-> NoEvent, time |-> wait[t].time]
    BY <2>1 DEF Pauses
  <2>3. wait[t].time = 0 => wait[t] = Ready
    BY <2>2 DEF Ready
  <2> QED
    BY <2>3 DEF IsReady
<1>2. ASSUME NEW t \in Threads, NEW seg, Resumes(t, seg) PROVE Busy
  BY <1>2 DEF Resumes
<1>3. ASSUME NEW b \in Buses, NEW t, NEW q, Asking(b, t, q) PROVE Busy
  BY <1>1, <1>2, <1>3, ThreadNames DEF Asking
<1> SUFFICES Busy
  OBVIOUS
<1> HIDE DEF Busy
<1>4. {"send_packet", "aesEncrypt", "read_packet", "send_frame", "receive_frame",
       "decrypt_packet", "aesDecrypt"} \subseteq Threads /\ {"bus1", "bus2"} \subseteq Buses
  BY ThreadNames
<1>5. CASE InCrypto1(r)
  BY <1>1, <1>2, <1>3, <1>4, <1>5 DEF InCrypto1, Commanding, Fetching, Encrypting, Encrypted
<1>6. CASE InCard(r)
  BY <1>1, <1>2, <1>3, <1>4, <1>6 DEF InCard, Describing, CardReading, CardRead
<1>7. CASE InNetwork(r) \/ InReceiver(r)
  BY <1>1, <1>2, <1>3, <1>4, <1>7 DEF InNetwork, InReceiver
<1>8. CASE InCrypto2(r)
  BY <1>1, <1>2, <1>3, <1>4, <1>8 DEF InCrypto2, Commanding2, Fetching2, Decrypting, Decrypted
<1> QED
  BY <1>5, <1>6, <1>7, <1>8 DEF Working

\* When everything has come to rest, the receiver has the last frame, or the
\* one before it if the last is one of those that get lost.
THEOREM TheLastFrameComesOut ==
  ASSUME ShortFrames
  PROVE  Spec => []LastFrameDelivered
<1>1. ASSUME IInv, Chain, \A t \in Threads : ~IsReady(t) /\ wait[t].time = 0
      PROVE  mem["bus2"][3].frame \in {enc.count, enc.count - 1} /\ (enc.count > 0 => mem["bus2"][3].frame > 0)
  <2>1. ControlOK /\ DataOK
    BY <1>1 DEF IInv
  <2>2. ~OnTheWay
    BY <1>1, <2>1, WorkingIsBusy DEF OnTheWay
  <2>3. CASE Starting
    <3>1. enc.count = 0 /\ mem["bus2"][3] = Blank
      BY <1>1, <2>3, DeliveredSoFar DEF Starting, Delivered
    <3> QED
      BY <3>1 DEF Blank
  <2>4. CASE Quiet
    <3>1. pc["read_file"] # "paced"
      <4>1. ASSUME pc["read_file"] = "paced", wait["read_file"].event = NoEvent PROVE FALSE
        <5>1. wait["read_file"] \in Pauses
          <6>1. \A e : On(e).event = e
            BY DEF On
          <6> QED
            BY <2>1, <4>1, <6>1, PauseShape, ThreadNames DEF NoEvent
        <5>2. wait["read_file"] = [event |-> NoEvent, time |-> wait["read_file"].time]
          BY <5>1 DEF Pauses
        <5>3. wait["read_file"] = Ready
          BY <1>1, <5>2, ThreadNames DEF Ready
        <5> QED
          BY <1>1, <5>3, ThreadNames DEF IsReady
      <4> QED
        BY <2>4, <4>1, QuietKinds DEF Resting, Storing, EncoderRests, Resumes
    <3>2. Reported = enc.count /\ enc.count \in Nat
      <4>1. enc.count \in 0..Frames
        BY <2>1 DEF DataOK, RegistersOK
      <4>2. Reported = enc.count + 0
        BY <3>1 DEF Reported
      <4> QED
        BY <4>1, <4>2
    <3>3. Delivered(enc.count)
      BY <1>1, <2>4, <3>2, DeliveredSoFar
    <3>4. CASE enc.count = 0
      BY <3>3, <3>4 DEF Delivered, Blank
    <3>5. CASE enc.count # 0
      <4> DEFINE k == enc.count
                 n == mem["bus2"][3].frame
      <4>1. n = (IF k % 2 = 1 THEN k ELSE k - 1) /\ k \in Nat /\ k # 0
        BY <3>2, <3>3, <3>5 DEF Delivered
      <4> HIDE DEF k, n
      <4>2. n \in {k, k - 1} /\ n > 0
        BY <4>1
      <4> QED
        BY <4>2 DEF k, n
    <3> QED
      BY <3>4, <3>5
  <2> QED
    BY <1>1, <2>2, <2>3, <2>4 DEF Chain
<1>2. IInv /\ Chain => LastFrameDelivered
  BY <1>1 DEF LastFrameDelivered
<1> QED
  BY <1>2, ChainHolds, PTL

=============================================================================
