--------------------------- MODULE PipelineProofs ---------------------------
(***************************************************************************)
(* Theorems about the pipeline, for all lengths of frames: how threads     *)
(* suspend, time passes and queues grow; one lemma per action and part of  *)
(* the invariant; then what follows from it.                               *)
(***************************************************************************)
EXTENDS PipelineInv, SequenceTheorems, FiniteSetTheorems, TLAPS

-----------------------------------------------------------------------------
(* Threads. *)

LEMMA ReadyWaits ==
  ASSUME NEW t, NEW seg, NEW w, Waits(t, seg, w), seg # "returned"
  PROVE  Waits(t, seg, Ready)
<1>1. Ready \in Pauses
  BY DEF Ready, Pauses
<1> QED
  BY <1>1 DEF Waits, BusWaits, SendPacketWaits, ReadFileWaits, AesWaits, ReadPacketWaits,
     SendFrameWaits, SetupWaits, ReceiveFrameWaits, DecryptPacketWaits

\* Only a thread in front of a timed segment has a time to wait.
LEMMA TimeWaits ==
  ASSUME NEW t \in Threads, NEW seg, NEW w, Waits(t, seg, w)
  PROVE  /\ w.time \in Nat
         /\ w.time > 0 =>
              /\ seg \in {"moving", "encoded", "paced", "crypted", "transmitted", "handshake",
                         "encrypted", "decrypted"}
              /\ w.event = NoEvent
              /\ w \in Pauses
              /\ \A v \in Pauses : Waits(t, seg, v)
  BY DEF Threads, Sender, Receiver, Buses, Waits, BusWaits, SendPacketWaits, ReadFileWaits,
     AesWaits, ReadPacketWaits, SendFrameWaits, SetupWaits, ReceiveFrameWaits,
     DecryptPacketWaits, Ready, On, Pauses, NoEvent

\* What a thread does to the scheduler's variables when it suspends itself.
Others(t, fired) ==
  \A p \in Threads \ {t} :
    /\ pc'[p] = pc[p]
    /\ wait'[p] = IF wait[p].event \in fired THEN Ready ELSE wait[p]

LEMMA Suspended ==
  ASSUME ControlOK, NEW t \in Threads, NEW seg, NEW w, NEW fired, Suspend(t, seg, w, fired)
  PROVE  /\ DOMAIN pc' = Threads
         /\ DOMAIN wait' = Threads
         /\ pc'[t] = seg
         /\ wait'[t] = w
         /\ Others(t, fired)
  BY DEF ControlOK, Suspend, Others

LEMMA SuspendKeepsControl ==
  ASSUME ControlOK, NEW t \in Threads, NEW seg, NEW w, NEW fired, Suspend(t, seg, w, fired),
         "nothing" \notin fired, Waits(t, seg, w)
  PROVE  ControlOK'
<1>1. SUFFICES ASSUME NEW p \in Threads PROVE Waits(p, pc'[p], wait'[p])
  BY Suspended DEF ControlOK
<1>2. CASE p = t
  BY <1>2, Suspended
<1>3. CASE p # t
  <2>1. Waits(p, pc[p], wait[p])
    BY DEF ControlOK
  <2>2. pc'[p] = pc[p] /\ wait'[p] = IF wait[p].event \in fired THEN Ready ELSE wait[p]
    BY <1>3, Suspended DEF Others
  <2>3. CASE wait[p].event \notin fired
    BY <2>1, <2>2, <2>3
  <2>4. CASE wait[p].event \in fired
    <3>1. pc[p] # "returned"
      <4>1. ASSUME pc[p] = "returned" PROVE wait[p].event = "nothing"
        BY <2>1, <4>1 DEF Threads, Sender, Receiver, Buses, Waits, BusWaits, SendPacketWaits,
           ReadFileWaits, AesWaits, ReadPacketWaits, SendFrameWaits, SetupWaits,
           ReceiveFrameWaits, DecryptPacketWaits, On
      <4> QED
        BY <4>1, <2>4
    <3> QED
      BY <2>1, <2>2, <2>4, <3>1, ReadyWaits
  <2> QED
    BY <2>3, <2>4
<1> QED
  BY <1>2, <1>3

\* Time makes ready only threads that waited for time.
LEMMA Elapsed ==
  ASSUME ControlOK, NEW d \in Nat, Elapse(d)
  PROVE  /\ ControlOK'
         /\ pc' = pc
         /\ \A p \in Threads : ~IsReady(p)
         /\ \A p \in Threads : wait[p].time = 0 => wait'[p] = wait[p]
         /\ \A p \in Threads : wait[p].time > 0 => wait'[p] \in Pauses
<1>1. /\ d > 0
      /\ pc' = pc
      /\ DOMAIN wait' = Threads
      /\ \A p \in Threads : ~IsReady(p)
      /\ \A p \in Threads : wait[p].time > 0 => d <= wait[p].time
      /\ \A p \in Threads : wait'[p] = CASE wait[p].time = 0 -> wait[p]
                                         [] wait[p].time = d -> Ready
                                         [] OTHER -> [wait[p] EXCEPT !.time = @ - d]
  BY DEF ControlOK, Elapse
<1>2. ASSUME NEW p \in Threads
      PROVE  /\ Waits(p, pc[p], wait'[p])
             /\ wait[p].time = 0 => wait'[p] = wait[p]
             /\ wait[p].time > 0 => wait'[p] \in Pauses
  <2>1. Waits(p, pc[p], wait[p])
    BY DEF ControlOK
  <2>2. CASE wait[p].time = 0
    <3>1. wait'[p] = wait[p] /\ ~(wait[p].time > 0)
      BY <1>1, <2>2
    <3> QED
      BY <3>1, <2>1
  <2>3. CASE wait[p].time # 0
    <3>1. wait[p].time > 0 /\ wait[p] \in Pauses /\ \A v \in Pauses : Waits(p, pc[p], v)
      BY <2>1, <2>3, TimeWaits
    <3>2. wait'[p] \in Pauses
      <4>1. CASE wait[p].time = d
        BY <1>1, <2>3, <4>1 DEF Ready, Pauses
      <4>2. CASE wait[p].time # d
        <5>1. wait'[p] = [wait[p] EXCEPT !.time = @ - d]
          BY <1>1, <2>3, <4>2
        <5>2. wait[p].time - d \in Nat
          BY <1>1, <3>1 DEF Pauses
        <5> QED
          BY <5>1, <5>2, <3>1 DEF Pauses
      <4> QED
        BY <4>1, <4>2
    <3> QED
      BY <3>1, <3>2, <2>3
  <2> QED
    BY <2>2, <2>3
<1> QED
  BY <1>1, <1>2 DEF ControlOK

-----------------------------------------------------------------------------
(* Queues. *)

Signals ==
  {"read", "encrypt_event", "decrypt_event", "conn", "read_event", "encode_done",
   "encrypt_done", "decrypt_done", "connection_ready", "send_event", "receive_event",
   "packet_received"}

LEMMA Names ==
  /\ \A b \in Buses : Users[b] \subseteq Threads /\ b \in Threads /\ b \notin Users[b]
  /\ \A b \in Buses, c \in Buses : b # c => Users[b] \cap Users[c] = {} /\ b \notin Users[c]
  /\ \A t \in Threads : t \notin Signals
  /\ {NoEvent, "nothing"} \cap (Signals \cup Threads) = {}
  BY DEF Buses, Users, Threads, Sender, Receiver, Signals, NoEvent

LEMMA Durations ==
  /\ \A n \in Nat : BusTime(n) \in Nat /\ BusTime(n) > 0
  /\ \A n \in Nat : Length16(n) \in Nat /\ AesTime(n) \in Nat /\ TransmitTime(n) \in Nat
  BY DEF BusTime, Cycle, Length16, AesTime, TransmitTime, Blocks16

\* The queue of a bus to which nothing is added.
LEMMA QueueKept ==
  ASSUME ControlOK, queue \in [Buses -> Seq(Entries)], NEW b \in Buses, QueueOK(b),
         NEW t \in Threads \ {b}, IsReady(t), NEW seg, NEW w, NEW fired,
         fired \cap (Users[b] \cup {b}) = {}, Suspend(t, seg, w, fired), queue'[b] = queue[b]
  PROVE  QueueOK(b)'
<1>1. \A p \in Threads \ {t} : /\ pc'[p] = pc[p]
                               /\ wait[p].event \notin fired => wait'[p] = wait[p]
  BY Suspended DEF Others
<1>2. ASSUME NEW i \in 1..Len(queue[b])
      PROVE  LET e == queue[b][i]
             IN  wait'[e.by] = On(e.by) /\ MayAsk(b, e.by, pc'[e.by], e.req)
  <2>1. /\ wait[queue[b][i].by] = On(queue[b][i].by)
        /\ MayAsk(b, queue[b][i].by, pc[queue[b][i].by], queue[b][i].req)
    BY DEF QueueOK
  <2>2. queue[b][i].by \in Users[b] /\ queue[b][i].by \in Threads
    BY <2>1, Names DEF MayAsk
  <2>3. queue[b][i].by # t
    <3>1. queue[b][i].by # NoEvent
      BY <2>2, Names
    <3> QED
      BY <2>1, <3>1 DEF IsReady, On, Ready
  <2>4. wait[queue[b][i].by].event \notin fired
    BY <2>1, <2>2 DEF On
  <2> QED
    BY <1>1, <2>1, <2>2, <2>3, <2>4
<1>3. pc'[b] = pc[b] /\ (IsReady(b)' => IsReady(b) \/ pc[b] = "moving")
  <2>1. b \in Threads \ {t} /\ BusWaits(b, pc[b], wait[b])
    BY Names DEF ControlOK, Waits
  <2>2. CASE wait[b].event \notin fired
    BY <1>1, <2>1, <2>2 DEF IsReady
  <2>3. CASE wait[b].event \in fired
    <3>1. wait[b] # On(b)
      BY <2>3 DEF On
    <3> QED
      BY <1>1, <2>1, <3>1 DEF BusWaits, IsReady
  <2> QED
    BY <2>2, <2>3
<1>4. pc'[b] = "moving" \/ IsReady(b)' => queue[b] # <<>>
  BY <1>3 DEF QueueOK
<1> QED
  BY <1>2, <1>4 DEF QueueOK, IsReady

\* The queue of a bus with a further transaction.
LEMMA QueueAppended ==
  ASSUME ControlOK, queue \in [Buses -> Seq(Entries)], NEW b \in Buses, QueueOK(b),
         NEW t \in Users[b], IsReady(t), NEW seg, NEW r \in Requests, MayAsk(b, t, seg, r),
         Transfer(t, b, r, seg, {})
  PROVE  /\ queue' \in [Buses -> Seq(Entries)]
         /\ \A c \in Buses \ {b} : queue'[c] = queue[c]
         /\ Len(queue'[b]) = Len(queue[b]) + 1
         /\ \A i \in 1..Len(queue[b]) : queue'[b][i] = queue[b][i]
         /\ queue'[b][Len(queue[b]) + 1].by = t
         /\ QueueOK(b)'
<1> DEFINE q == queue[b]
           e == [by |-> t, req |-> r]
<1>1. q \in Seq(Entries) /\ Len(q) \in Nat
  BY LenProperties
<1>2. t \in Threads /\ t \in Sender \cup Receiver /\ b \in Threads /\ t # b
  BY Names DEF Users, Buses, Sender, Receiver
<1>3. e \in Entries
  BY <1>2 DEF Entries
<1>4. queue' = [queue EXCEPT ![b] = Append(q, e)] /\ Suspend(t, seg, On(t), {} \cup {b})
  BY DEF Transfer
<1>5. /\ Append(q, e) \in Seq(Entries)
      /\ Append(q, e) # <<>>
      /\ Len(Append(q, e)) = Len(q) + 1
      /\ \A i \in 1..Len(q) : Append(q, e)[i] = q[i]
      /\ Append(q, e)[Len(q) + 1] = e
  BY <1>1, <1>3, AppendProperties
<1>6. queue'[b] = Append(q, e) /\ queue' \in [Buses -> Seq(Entries)]
      /\ \A c \in Buses \ {b} : queue'[c] = queue[c]
  BY <1>4, <1>5
<1>7. pc'[t] = seg /\ wait'[t] = On(t)
      /\ \A p \in Threads \ {t} : pc'[p] = pc[p] /\ (wait[p].event # b => wait'[p] = wait[p])
  <2>1. pc'[t] = seg /\ wait'[t] = On(t) /\ Others(t, {} \cup {b})
    BY <1>2, <1>4, Suspended
  <2> QED
    BY <2>1 DEF Others
<1>8. ASSUME NEW i \in 1..Len(q)
      PROVE  /\ q[i].by # t
             /\ wait'[q[i].by] = On(q[i].by)
             /\ MayAsk(b, q[i].by, pc'[q[i].by], q[i].req)
  <2>1. wait[q[i].by] = On(q[i].by) /\ MayAsk(b, q[i].by, pc[q[i].by], q[i].req)
    BY DEF QueueOK
  <2>2. q[i].by \in Users[b] /\ q[i].by \in Threads /\ q[i].by # b /\ q[i].by # NoEvent
    BY <2>1, Names DEF MayAsk
  <2>3. q[i].by # t
    BY <2>1, <2>2 DEF IsReady, On, Ready
  <2> QED
    BY <1>7, <2>1, <2>2, <2>3 DEF On
<1>9. ASSUME NEW i \in 1..Len(queue'[b])
      PROVE  /\ LET x == queue'[b][i]
                IN  wait'[x.by] = On(x.by) /\ MayAsk(b, x.by, pc'[x.by], x.req)
             /\ i = Len(q) + 1 \/ (i \in 1..Len(q) /\ queue'[b][i] = q[i])
  <2>1. CASE i = Len(q) + 1
    <3>1. queue'[b][i] = e
      BY <1>5, <1>6, <2>1
    <3> QED
      BY <3>1, <1>7, <2>1
  <2>2. CASE i # Len(q) + 1
    <3>1. i \in 1..Len(q) /\ queue'[b][i] = q[i]
      BY <1>1, <1>5, <1>6, <2>2
    <3> QED
      BY <3>1, <1>8
  <2> QED
    BY <2>1, <2>2
<1>10. \A i, j \in 1..Len(queue'[b]) : queue'[b][i].by = queue'[b][j].by => i = j
  <2>1. \A i, j \in 1..Len(q) : q[i].by = q[j].by => i = j
    BY DEF QueueOK
  <2>2. queue'[b][Len(q) + 1].by = t
    BY <1>5, <1>6
  <2> QED
    BY <1>8, <1>9, <2>1, <2>2
<1> QED
  BY <1>5, <1>6, <1>9, <1>10 DEF QueueOK

LEMMA HeadEntry ==
  ASSUME queue \in [Buses -> Seq(Entries)], NEW b \in Buses, QueueOK(b), queue[b] # <<>>
  PROVE  /\ Head(queue[b]) = queue[b][1] /\ 1 \in 1..Len(queue[b])
         /\ Head(queue[b]) \in Entries
         /\ Head(queue[b]).by \in Users[b] /\ Head(queue[b]).by \in Threads \ {b}
         /\ wait[Head(queue[b]).by] = On(Head(queue[b]).by)
         /\ MayAsk(b, Head(queue[b]).by, pc[Head(queue[b]).by], Head(queue[b]).req)
<1>1. queue[b] \in Seq(Entries) /\ Len(queue[b]) \in Nat /\ Len(queue[b]) # 0
  BY LenProperties, EmptySeq
<1>2. Head(queue[b]) = queue[b][1] /\ 1 \in 1..Len(queue[b]) /\ Head(queue[b]) \in Entries
  BY <1>1, HeadTailProperties
<1>3. /\ wait[Head(queue[b]).by] = On(Head(queue[b]).by)
      /\ MayAsk(b, Head(queue[b]).by, pc[Head(queue[b]).by], Head(queue[b]).req)
  BY <1>2 DEF QueueOK
<1> QED
  BY <1>2, <1>3, Names DEF MayAsk

LEMMA LengthOK ==
  ASSUME NEW e \in Entries
  PROVE  e.req \in Requests /\ e.req.len \in Nat
<1>1. e.req \in Requests
  BY DEF Entries
<1>2. ASSUME NEW r \in Requests PROVE r.len \in Nat
  <2>1. r \in MemRequests => r.len \in Nat
    BY DEF MemRequests
  <2>2. r \in StartRequests => r.len = 2
    BY DEF StartRequests
  <2>3. r \in LengthRequests => r.len = 1
    BY DEF LengthRequests
  <2>4. r \in CryptoRequests => r.len = 4
    BY DEF CryptoRequests
  <2>5. r \in ConnectRequests => r.len = 1
    BY DEF ConnectRequests
  <2>6. r \in PacketRequests => r.len = 2
    BY DEF PacketRequests
  <2> QED
    BY <2>1, <2>2, <2>3, <2>4, <2>5, <2>6 DEF Requests
<1> QED
  BY <1>1, <1>2

\* A bus begins with the first transaction of its queue.
LEMMA QueueBegun ==
  ASSUME ControlOK, queue \in [Buses -> Seq(Entries)], NEW b \in Buses, QueueOK(b), Begin(b)
  PROVE  /\ ControlOK'
         /\ QueueOK(b)'
         /\ ~Resumes(b, "moving")'
         /\ \A p \in Threads \ {b} : pc'[p] = pc[p] /\ wait'[p] = wait[p]
<1> DEFINE w == For(BusTime(Head(queue[b]).req.len))
<1>1. queue' = queue /\ Suspend(b, "moving", w, {}) /\ IsReady(b) /\ b \in Threads
  BY Names DEF Begin, Resumes
<1>2. queue[b] # <<>>
  BY <1>1 DEF QueueOK
<1>3. Head(queue[b]).req.len \in Nat
  BY <1>2, HeadEntry, LengthOK
<1>4. w \in Pauses /\ w.time > 0
  BY <1>3, Durations DEF Pauses, For
<1>5. ControlOK'
  <2>1. Waits(b, "moving", w)
    BY <1>4 DEF Waits, BusWaits, Buses
  <2> QED
    BY <1>1, <2>1, SuspendKeepsControl
<1>6. /\ pc'[b] = "moving" /\ wait'[b] = w
      /\ \A p \in Threads \ {b} : pc'[p] = pc[p] /\ wait'[p] = wait[p]
  <2>1. pc'[b] = "moving" /\ wait'[b] = w /\ Others(b, {})
    BY <1>1, Suspended
  <2> QED
    BY <2>1 DEF Others
<1>7. ~Resumes(b, "moving")'
  BY <1>4, <1>6 DEF Resumes, IsReady, Ready
<1>8. QueueOK(b)'
  <2>1. ASSUME NEW i \in 1..Len(queue[b])
        PROVE  LET e == queue[b][i]
               IN  wait'[e.by] = On(e.by) /\ MayAsk(b, e.by, pc'[e.by], e.req)
    <3>1. wait[queue[b][i].by] = On(queue[b][i].by)
          /\ MayAsk(b, queue[b][i].by, pc[queue[b][i].by], queue[b][i].req)
      BY DEF QueueOK
    <3>2. queue[b][i].by \in Threads \ {b}
      BY <3>1, Names DEF MayAsk
    <3> QED
      BY <1>6, <3>1, <3>2
  <2> QED
    BY <1>1, <1>2, <2>1 DEF QueueOK
<1> QED
  BY <1>5, <1>6, <1>7, <1>8

\* A bus is done with the first transaction of its queue.
LEMMA QueueFinished ==
  ASSUME ControlOK, queue \in [Buses -> Seq(Entries)], NEW b \in Buses, QueueOK(b),
         Resumes(b, "moving"), NEW fired \in SUBSET Signals, Finish(b, fired)
  PROVE  /\ ControlOK'
         /\ queue[b] # <<>>
         /\ queue' \in [Buses -> Seq(Entries)]
         /\ \A c \in Buses \ {b} : queue'[c] = queue[c] /\ (QueueOK(c) => QueueOK(c)')
         /\ Len(queue[b]) \in Nat /\ Len(queue'[b]) = Len(queue[b]) - 1
         /\ \A i \in 1..Len(queue'[b]) : queue'[b][i] = queue[b][i + 1]
         /\ QueueOK(b)'
         /\ ~Resumes(b, "moving")'
         /\ LET by == Head(queue[b]).by
            IN  /\ pc'[by] = pc[by] /\ wait'[by] = Ready
                /\ \A p \in Threads \ {b, by} :
                     /\ pc'[p] = pc[p]
                     /\ wait'[p] = IF wait[p].event \in fired THEN Ready ELSE wait[p]
<1> DEFINE q == queue[b]
           by == Head(q).by
           events == fired \cup {by}
<1>1. q # <<>> /\ b \in Threads /\ IsReady(b)
  BY Names DEF QueueOK, Resumes
<1>2. /\ Head(q) = q[1] /\ by \in Users[b] /\ by \in Threads \ {b} /\ wait[by] = On(by)
  BY <1>1, HeadEntry
<1>3. /\ q \in Seq(Entries) /\ Len(q) \in Nat
      /\ Tail(q) \in Seq(Entries) /\ Len(Tail(q)) = Len(q) - 1
      /\ \A i \in 1..Len(Tail(q)) : Tail(q)[i] = q[i + 1]
  BY <1>1, LenProperties, HeadTailProperties
<1>4. /\ queue' = [queue EXCEPT ![b] = Tail(q)]
      /\ \/ Tail(q) = <<>> /\ Suspend(b, "front", On(b), events)
         \/ Tail(q) # <<>> /\ Suspend(b, "moving", For(BusTime(q[2].req.len)), events)
  BY DEF Finish
<1>5. /\ queue' \in [Buses -> Seq(Entries)]
      /\ queue'[b] = Tail(q)
      /\ \A c \in Buses \ {b} : queue'[c] = queue[c]
  BY <1>3, <1>4
<1>6. PICK seg, w :
        /\ Suspend(b, seg, w, events)
        /\ BusWaits(b, seg, w)
        /\ w # Ready
        /\ seg = "moving" => Tail(q) # <<>>
  <2>1. CASE Tail(q) = <<>>
    <3>1. Suspend(b, "front", On(b), events)
      BY <1>4, <2>1
    <3>2. BusWaits(b, "front", On(b)) /\ On(b) # Ready
      BY Names DEF BusWaits, On, Ready
    <3> QED
      BY <3>1, <3>2
  <2>2. CASE Tail(q) # <<>>
    <3>1. Suspend(b, "moving", For(BusTime(q[2].req.len)), events)
      BY <1>4, <2>2
    <3>2. q[2].req.len \in Nat
      <4>1. Len(Tail(q)) \in Nat /\ Len(Tail(q)) # 0
        BY <1>3, <2>2, LenProperties, EmptySeq
      <4>2. 2 \in 1..Len(q)
        BY <1>3, <4>1
      <4>3. q[2] \in Entries
        <5>1. \A s \in Seq(Entries) : \A i \in 1..Len(s) : s[i] \in Entries
          BY ElementOfSeq
        <5> QED
          BY <5>1, <1>3, <4>2
      <4> QED
        BY <4>3, LengthOK
    <3>3. BusWaits(b, "moving", For(BusTime(q[2].req.len))) /\ For(BusTime(q[2].req.len)) # Ready
      <4> DEFINE d == BusTime(q[2].req.len)
      <4>1. d \in Nat /\ d > 0
        BY <3>2, Durations
      <4> HIDE DEF d
      <4>2. For(d) \in Pauses /\ For(d) # Ready
        BY <4>1 DEF For, Ready, Pauses
      <4>3. BusWaits(b, "moving", For(d))
        BY <4>2 DEF BusWaits
      <4> QED
        BY <4>2, <4>3 DEF d
    <3> QED
      BY <2>2, <3>1, <3>3
  <2> QED
    BY <2>1, <2>2
<1>7. ControlOK'
  <2>1. Waits(b, seg, w)
    BY <1>6 DEF Waits, Buses
  <2>2. "nothing" \notin events
    BY <1>2, Names
  <2> QED
    BY <1>1, <1>6, <2>1, <2>2, SuspendKeepsControl
<1>8. pc'[b] = seg /\ wait'[b] = w /\ Others(b, events)
  BY <1>1, <1>6, Suspended
<1>9. ~Resumes(b, "moving")'
  BY <1>6, <1>8 DEF Resumes, IsReady
<1>10. pc'[by] = pc[by] /\ wait'[by] = Ready
  BY <1>2, <1>8 DEF Others, On
<1>11. ASSUME NEW p \in Threads \ {b, by}
       PROVE  /\ pc'[p] = pc[p]
              /\ wait'[p] = IF wait[p].event \in fired THEN Ready ELSE wait[p]
  <2>1. pc'[p] = pc[p] /\ wait'[p] = IF wait[p].event \in events THEN Ready ELSE wait[p]
    BY <1>8 DEF Others
  <2>2. wait[p].event # by
    <3>1. Waits(p, pc[p], wait[p])
      BY DEF ControlOK
    <3> QED
      BY <1>2, <3>1 DEF Waits, BusWaits, SendPacketWaits, ReadFileWaits, AesWaits,
         ReadPacketWaits, SendFrameWaits, SetupWaits, ReceiveFrameWaits, DecryptPacketWaits,
         Users, Buses, Threads, Sender, Receiver, On, Ready, Pauses, NoEvent, AesEvent, Aes
  <2> QED
    BY <2>1, <2>2
<1>12. ASSUME NEW i \in 1..Len(queue'[b])
       PROVE  /\ LET e == queue'[b][i]
                 IN  wait'[e.by] = On(e.by) /\ MayAsk(b, e.by, pc'[e.by], e.req)
              /\ i + 1 \in 1..Len(q) /\ queue'[b][i] = q[i + 1]
  <2>1. i + 1 \in 1..Len(q) /\ 1 \in 1..Len(q) /\ i + 1 # 1 /\ queue'[b][i] = q[i + 1]
    BY <1>3, <1>5
  <2>2. /\ wait[q[i + 1].by] = On(q[i + 1].by)
        /\ MayAsk(b, q[i + 1].by, pc[q[i + 1].by], q[i + 1].req)
        /\ q[i + 1].by # q[1].by
    BY <2>1 DEF QueueOK
  <2>3. q[i + 1].by \in Threads \ {b, by} /\ q[i + 1].by \notin Signals
    BY <1>2, <2>2, Names DEF MayAsk
  <2>4. wait[q[i + 1].by].event \notin fired
    BY <2>2, <2>3 DEF On
  <2> QED
    BY <1>11, <2>1, <2>2, <2>3, <2>4
<1>13. QueueOK(b)'
  <2>1. \A i, j \in 1..Len(queue'[b]) : queue'[b][i].by = queue'[b][j].by => i = j
    <3>1. \A i, j \in 1..Len(q) : q[i].by = q[j].by => i = j
      BY DEF QueueOK
    <3>2. ASSUME NEW i \in 1..Len(queue'[b]), NEW j \in 1..Len(queue'[b]),
                 queue'[b][i].by = queue'[b][j].by
          PROVE  i = j
      <4>1. i + 1 \in 1..Len(q) /\ j + 1 \in 1..Len(q) /\ q[i + 1].by = q[j + 1].by
        BY <1>12, <3>2
      <4>2. i + 1 = j + 1
        BY <3>1, <4>1
      <4> QED
        BY <1>3, <1>5, <4>2
    <3> QED
      BY <3>2
  <2>2. pc'[b] = "moving" \/ IsReady(b)' => queue'[b] # <<>>
    BY <1>5, <1>6, <1>8 DEF IsReady
  <2> QED
    BY <1>12, <2>1, <2>2 DEF QueueOK
<1>14. ASSUME NEW c \in Buses \ {b}, QueueOK(c) PROVE QueueOK(c)'
  <2>1. events \cap (Users[c] \cup {c}) = {}
    BY <1>2, Names
  <2> QED
    BY <1>1, <1>5, <1>6, <1>14, <2>1, QueueKept
<1> QED
  BY <1>1, <1>3, <1>5, <1>7, <1>9, <1>10, <1>11, <1>13, <1>14

-----------------------------------------------------------------------------
(* What a step does to the threads that do not take it. *)

LEMMA Waiting ==
  ASSUME ControlOK
  PROVE  /\ BusWaits("bus1", pc["bus1"], wait["bus1"])
         /\ BusWaits("bus2", pc["bus2"], wait["bus2"])
         /\ SendPacketWaits(pc["send_packet"], wait["send_packet"])
         /\ ReadFileWaits(pc["read_file"], wait["read_file"])
         /\ AesWaits("bus1", pc["aesEncrypt"], wait["aesEncrypt"])
         /\ AesWaits("bus2", pc["aesDecrypt"], wait["aesDecrypt"])
         /\ ReadPacketWaits(pc["read_packet"], wait["read_packet"])
         /\ DecryptPacketWaits(pc["decrypt_packet"], wait["decrypt_packet"])
  BY DEF ControlOK, Waits, Threads, Buses, Sender, Receiver

\* The events that these threads can be waiting for.
LEMMA Heard ==
  ASSUME ControlOK
  PROVE  /\ wait["send_packet"].event \in {NoEvent, "send_packet", "connection_ready",
                                           "encode_done", "encrypt_done"}
         /\ wait["read_file"].event \in {NoEvent, "read", "read_file", "nothing"}
         /\ wait["aesEncrypt"].event \in {NoEvent, "encrypt_event", "aesEncrypt", "nothing"}
         /\ wait["aesDecrypt"].event \in {NoEvent, "decrypt_event", "aesDecrypt", "nothing"}
         /\ wait["read_packet"].event \in {NoEvent, "read_event", "read_packet"}
         /\ wait["decrypt_packet"].event \in {NoEvent, "packet_received", "decrypt_packet",
                                              "decrypt_done"}
<1>1. Ready.event = NoEvent /\ (\A e : On(e).event = e) /\ \A w \in Pauses : w.event = NoEvent
  BY DEF Ready, On, Pauses
<1>2. wait["send_packet"].event \in {NoEvent, "send_packet", "connection_ready",
                                     "encode_done", "encrypt_done"}
  BY <1>1, Waiting DEF SendPacketWaits
<1>3. wait["read_file"].event \in {NoEvent, "read", "read_file", "nothing"}
  BY <1>1, Waiting DEF ReadFileWaits
<1>4. wait["aesEncrypt"].event \in {NoEvent, "encrypt_event", "aesEncrypt", "nothing"}
  BY <1>1, Waiting DEF AesWaits, Aes, AesEvent
<1>5. wait["aesDecrypt"].event \in {NoEvent, "decrypt_event", "aesDecrypt", "nothing"}
  BY <1>1, Waiting DEF AesWaits, Aes, AesEvent
<1>6. wait["read_packet"].event \in {NoEvent, "read_event", "read_packet"}
  BY <1>1, Waiting DEF ReadPacketWaits
<1>7. wait["decrypt_packet"].event \in {NoEvent, "packet_received", "decrypt_packet",
                                        "decrypt_done"}
  BY <1>1, Waiting DEF DecryptPacketWaits
<1> QED
  BY <1>2, <1>3, <1>4, <1>5, <1>6, <1>7

LEMMA SettledKept ==
  ASSUME ControlOK, Settled, NEW t \in Threads \ Buses, NEW seg, NEW w, NEW fired,
         \/ w # Ready
         \/ t \notin {"send_packet", "read_packet", "read_file", "decrypt_packet"}
         \/ <<t, seg>> \in {<<"send_packet", "encrypted">>, <<"decrypt_packet", "decrypted">>},
         fired \cap {NoEvent, "read_event", "send_packet", "read_packet", "read_file",
                     "decrypt_packet"} = {},
         Suspend(t, seg, w, fired)
  PROVE  Settled'
<1>1. /\ pc'[t] = seg /\ wait'[t] = w
      /\ \A p \in Threads \ {t} :
           /\ pc'[p] = pc[p]
           /\ wait'[p] = IF wait[p].event \in fired THEN Ready ELSE wait[p]
  BY Suspended DEF Others
<1>2. IsReady(t)' =>
        \/ t \notin {"send_packet", "read_packet", "read_file", "decrypt_packet"}
        \/ <<t, seg>> \in {<<"send_packet", "encrypted">>, <<"decrypt_packet", "decrypted">>}
  BY <1>1 DEF IsReady
<1>3. ASSUME NEW b \in Buses, Resumes(b, "moving")' PROVE Resumes(b, "moving")
  <2>1. b \in Threads \ {t} /\ BusWaits(b, pc[b], wait[b])
    BY Names DEF ControlOK, Waits
  <2>2. wait[b].event = NoEvent
    BY <1>1, <1>3, <2>1 DEF Resumes, BusWaits, Pauses
  <2> QED
    BY <1>1, <1>3, <2>1, <2>2 DEF Resumes, IsReady
<1>4. ASSUME NEW p \in {"send_packet", "read_file", "decrypt_packet"}, NEW s,
             p # "send_packet" \/ s = "encrypting", p # "read_file" \/ s = "written",
             p # "decrypt_packet" \/ s = "decrypting", Resumes(p, s)'
      PROVE  Resumes(p, s)
  <2>1. p \in Threads \ {t} /\ pc[p] = s
    BY <1>1, <1>2, <1>4 DEF Resumes, IsReady, Threads, Sender, Receiver
  <2>2. wait[p].event \in {NoEvent, p}
    BY <1>4, <2>1, Waiting DEF SendPacketWaits, ReadFileWaits, DecryptPacketWaits, On, Ready
  <2> QED
    BY <1>1, <1>4, <2>1, <2>2 DEF Resumes, IsReady
<1>5. ASSUME IsReady("read_packet")' PROVE IsReady("read_packet")
  <2>1. "read_packet" \in Threads \ {t}
    BY <1>1, <1>5 DEF IsReady, Threads, Sender
  <2>2. wait["read_packet"].event \in {NoEvent, "read_event", "read_packet"}
    BY Waiting DEF ReadPacketWaits, On, Ready
  <2> QED
    BY <1>1, <1>5, <2>1, <2>2 DEF IsReady
<1>6. "bus1" \in Buses /\ "bus2" \in Buses
  BY DEF Buses
<1> QED
  BY <1>3, <1>4, <1>5, <1>6 DEF Settled

LEMMA CryptoKept ==
  ASSUME ControlOK, NEW b \in Buses, CryptoOK(b), NEW t \in Threads \ {Aes[b], Processor[b]},
         NEW seg, NEW w, NEW fired,
         fired \cap {NoEvent, AesEvent[b], AesDoneEvent[b], Aes[b]} = {},
         Suspend(t, seg, w, fired)
  PROVE  CryptoOK(b)'
<1>1. \A p \in {Aes[b], Processor[b]} :
        /\ pc'[p] = pc[p]
        /\ wait[p].event \notin fired => wait'[p] = wait[p]
  <2>1. {Aes[b], Processor[b]} \subseteq Threads
    BY DEF Aes, Processor, Buses, Threads, Sender, Receiver
  <2> QED
    BY <2>1, Suspended DEF Others
<1>2. Ready.event = NoEvent /\ \A e : On(e).event = e
  BY DEF Ready, On
<1> QED
  BY <1>1, <1>2 DEF CryptoOK, CryptoIdle, Resumes, IsReady

LEMMA CardKept ==
  ASSUME ControlOK, CardOK, NEW t \in Threads \ {"read_packet", "send_packet", "read_file"},
         NEW seg, NEW w, NEW fired,
         fired \cap {NoEvent, "read_event", "read_packet", "send_packet", "read_file",
                     "encode_done"} = {},
         Suspend(t, seg, w, fired), CardFirst => CardFirst'
  PROVE  CardOK'
<1>1. \A p \in {"read_packet", "send_packet", "read_file"} :
        /\ pc'[p] = pc[p]
        /\ wait[p].event \notin fired => wait'[p] = wait[p]
  <2>1. {"read_packet", "send_packet", "read_file"} \subseteq Threads
    BY DEF Threads, Sender
  <2> QED
    BY <2>1, Suspended DEF Others
<1>2. Ready.event = NoEvent /\ \A e : On(e).event = e
  BY DEF Ready, On
<1>3. wait'["read_packet"] = wait["read_packet"]
  BY <1>1, <1>2, Waiting DEF ReadPacketWaits
<1>4. /\ pc["send_packet"] \in {"idle", "encode_done", "length"} =>
           wait'["send_packet"] = wait["send_packet"]
      /\ pc["read_file"] = "written" => wait'["read_file"] = wait["read_file"]
  BY <1>1, <1>2, Waiting DEF SendPacketWaits, ReadFileWaits
<1> QED
  BY <1>1, <1>3, <1>4 DEF CardOK, CardIdle, Resumes, IsReady

\* The frames are counted as before by whoever leaves alone what is counted.
LEMMA CountKept ==
  ASSUME CountOK, enc'.count = enc.count, up' = up,
         pc'["read_file"] = pc["read_file"], pc'["send_packet"] = pc["send_packet"],
         pc["send_packet"] = "encode_done" => wait'["send_packet"] = wait["send_packet"]
  PROVE  CountOK'
<1>1. Reported' = Reported
  BY DEF Reported
<1>2. Taken' = Taken
  BY DEF Taken, Resumes, IsReady
<1> QED
  BY <1>1, <1>2 DEF CountOK

LEMMA CountKeptByOthers ==
  ASSUME ControlOK, CountOK, NEW t \in Threads \ {"send_packet", "read_file"},
         NEW seg, NEW w, NEW fired, fired \cap {NoEvent, "encode_done"} = {},
         Suspend(t, seg, w, fired), enc'.count = enc.count, up' = up
  PROVE  CountOK'
<1>1. \A p \in {"send_packet", "read_file"} :
        /\ pc'[p] = pc[p]
        /\ wait[p].event \notin fired => wait'[p] = wait[p]
  <2>1. {"send_packet", "read_file"} \subseteq Threads
    BY DEF Threads, Sender
  <2> QED
    BY <2>1, Suspended DEF Others
<1>2. pc["send_packet"] = "encode_done" => wait'["send_packet"] = wait["send_packet"]
  BY <1>1, Waiting DEF SendPacketWaits, Ready, On
<1> QED
  BY <1>1, <1>2, CountKept


-----------------------------------------------------------------------------
(* Steps of the threads that are not buses. *)

\* Thread t asks bus b for r.
LEMMA Called ==
  ASSUME IInv, NEW b \in Buses, NEW t \in Users[b], IsReady(t), NEW seg, NEW r \in Requests,
         MayAsk(b, t, seg, r), Waits(t, seg, On(t)), Transfer(t, b, r, seg, {})
  PROVE  /\ ControlOK'
         /\ queue' \in [Buses -> Seq(Entries)]
         /\ \A c \in Buses : QueueOK(c)'
         /\ Settled'
         /\ CardFirst => CardFirst'
         /\ b = "bus1" /\ t = "read_packet" /\ wait["send_packet"] # On("send_packet") => CardFirst'
         /\ Suspend(t, seg, On(t), {b})
         /\ t \in Threads /\ pc'[t] = seg /\ wait'[t] = On(t)
         /\ \A p \in Threads \ {t, b} : pc'[p] = pc[p] /\ wait'[p] = wait[p]
<1>1. ControlOK /\ queue \in [Buses -> Seq(Entries)] /\ Settled /\ \A c \in Buses : QueueOK(c)
  BY DEF IInv, DataOK
<1>2. /\ queue' \in [Buses -> Seq(Entries)]
      /\ \A c \in Buses \ {b} : queue'[c] = queue[c]
      /\ Len(queue'[b]) = Len(queue[b]) + 1
      /\ \A i \in 1..Len(queue[b]) : queue'[b][i] = queue[b][i]
      /\ queue'[b][Len(queue[b]) + 1].by = t
      /\ QueueOK(b)'
  BY <1>1, QueueAppended
<1>3. Suspend(t, seg, On(t), {b}) /\ t \in Threads \ Buses /\ b \in Threads
  <2>1. {} \cup {b} = {b}
    OBVIOUS
  <2>2. t \in Threads \ Buses /\ b \in Threads
    BY Names DEF Users, Buses
  <2> QED
    BY <2>1, <2>2 DEF Transfer
<1>4. ControlOK'
  <2>1. "nothing" \notin {b}
    BY DEF Buses
  <2> QED
    BY <1>1, <1>3, <2>1, SuspendKeepsControl
<1>5. ASSUME NEW c \in Buses \ {b} PROVE QueueOK(c)'
  <2>1. {b} \cap (Users[c] \cup {c}) = {}
    BY Names
  <2>2. t \in Threads \ {c}
    BY <1>3
  <2> QED
    BY <1>1, <1>2, <1>3, <2>1, <2>2, QueueKept
<1>6. Settled'
  <2>1. On(t) # Ready
    BY <1>3, Names DEF On, Ready
  <2>2. {b} \cap {NoEvent, "read_event", "send_packet", "read_packet", "read_file",
                  "decrypt_packet"} = {}
    BY DEF Buses, NoEvent
  <2> QED
    BY <1>1, <1>3, <2>1, <2>2, SettledKept
<1>7. /\ pc'[t] = seg /\ wait'[t] = On(t)
      /\ \A p \in Threads \ {t} : /\ pc'[p] = pc[p]
                                  /\ wait[p].event # b => wait'[p] = wait[p]
  BY <1>1, <1>3, Suspended DEF Others
<1>8. ASSUME NEW p \in Threads \ {t, b} PROVE wait[p].event # b
  BY <1>1, <1>8 DEF ControlOK, Waits, BusWaits, SendPacketWaits, ReadFileWaits, AesWaits,
     ReadPacketWaits, SendFrameWaits, SetupWaits, ReceiveFrameWaits, DecryptPacketWaits,
     Buses, Threads, Sender, Receiver, On, Ready, Pauses, NoEvent, AesEvent, Aes
<1>9. Len(queue["bus1"]) \in Nat /\ "bus1" \in Buses
  <2>1. "bus1" \in Buses
    BY DEF Buses
  <2> QED
    BY <1>1, <2>1, LenProperties
<1>10. CASE b # "bus1"
  BY <1>2, <1>3, <1>4, <1>5, <1>6, <1>7, <1>8, <1>9, <1>10 DEF CardFirst
<1>11. CASE b = "bus1"
  <2> DEFINE n == Len(queue["bus1"])
  <2>1. /\ Len(queue'["bus1"]) = n + 1
        /\ \A i \in 1..n : queue'["bus1"][i] = queue["bus1"][i]
        /\ queue'["bus1"][n + 1].by = t
    BY <1>2, <1>11
  <2>2. ASSUME CardFirst PROVE CardFirst'
    <3>1. PICK i \in 1..n :
            /\ queue["bus1"][i].by = "read_packet"
            /\ \A j \in 1..n : queue["bus1"][j].by = "send_packet" => i < j
      BY <2>2 DEF CardFirst
    <3>2. i \in 1..Len(queue'["bus1"]) /\ queue'["bus1"][i].by = "read_packet"
      BY <1>9, <2>1, <3>1
    <3>3. ASSUME NEW j \in 1..Len(queue'["bus1"]), queue'["bus1"][j].by = "send_packet"
          PROVE  i < j
      <4>1. j \in 1..n \/ j = n + 1
        BY <1>9, <2>1
      <4> QED
        BY <1>9, <2>1, <3>1, <3>3, <4>1
    <3> QED
      BY <3>2, <3>3 DEF CardFirst
  <2>3. ASSUME t = "read_packet", wait["send_packet"] # On("send_packet") PROVE CardFirst'
    <3>1. n + 1 \in 1..Len(queue'["bus1"]) /\ queue'["bus1"][n + 1].by = "read_packet"
      BY <1>9, <2>1, <2>3
    <3>2. ASSUME NEW j \in 1..Len(queue'["bus1"]), queue'["bus1"][j].by = "send_packet"
          PROVE  FALSE
      <4>1. j \in 1..n
        BY <1>9, <2>1, <2>3, <3>2
      <4>2. queue["bus1"][j].by = "send_packet"
        BY <2>1, <3>2, <4>1
      <4> QED
        BY <1>1, <1>9, <2>3, <4>1, <4>2 DEF QueueOK
    <3> QED
      BY <3>1, <3>2 DEF CardFirst
  <2> QED
    BY <1>2, <1>3, <1>4, <1>5, <1>6, <1>7, <1>8, <1>11, <2>2, <2>3
<1> QED
  BY <1>10, <1>11

\* Thread t asks no bus for anything and notifies the events in fired.
LEMMA Signalled ==
  ASSUME IInv, NEW t \in Threads \ Buses, IsReady(t), NEW seg, NEW w, Waits(t, seg, w),
         \/ w # Ready
         \/ t \notin {"send_packet", "read_packet", "read_file", "decrypt_packet"}
         \/ <<t, seg>> \in {<<"send_packet", "encrypted">>, <<"decrypt_packet", "decrypted">>},
         NEW fired \in SUBSET Signals, "read_event" \notin fired,
         Suspend(t, seg, w, fired), queue' = queue
  PROVE  /\ ControlOK'
         /\ queue' \in [Buses -> Seq(Entries)]
         /\ \A c \in Buses : QueueOK(c)'
         /\ Settled'
         /\ CardFirst => CardFirst'
         /\ pc'[t] = seg /\ wait'[t] = w
         /\ \A p \in Threads \ {t} :
              /\ pc'[p] = pc[p]
              /\ wait[p].event \notin fired => wait'[p] = wait[p]
              /\ wait[p].event \in fired => wait'[p] = Ready
<1>1. ControlOK /\ queue \in [Buses -> Seq(Entries)] /\ Settled /\ \A c \in Buses : QueueOK(c)
  BY DEF IInv, DataOK
<1>2. ASSUME NEW c \in Buses PROVE QueueOK(c)'
  <2>1. fired \cap (Users[c] \cup {c}) = {} /\ t \in Threads \ {c}
    BY Names
  <2> QED
    BY <1>1, <2>1, QueueKept
<1>3. ControlOK'
  <2>1. "nothing" \notin fired
    BY Names
  <2> QED
    BY <1>1, <2>1, SuspendKeepsControl
<1>4. Settled'
  <2>1. fired \cap {NoEvent, "read_event", "send_packet", "read_packet", "read_file",
                    "decrypt_packet"} = {}
    BY DEF Signals, NoEvent
  <2> QED
    BY <1>1, <2>1, SettledKept
<1>5. CardFirst => CardFirst'
  BY DEF CardFirst
<1>6. pc'[t] = seg /\ wait'[t] = w /\ Others(t, fired)
  BY <1>1, Suspended
<1> QED
  BY <1>1, <1>2, <1>3, <1>4, <1>5, <1>6 DEF Others


-----------------------------------------------------------------------------
(* Data. *)

LEMMA Contents ==
  /\ Blank \in Content
  /\ \A c \in Content : c.len \in Nat
  /\ \A n \in Nat : [Blank EXCEPT !.len = n] \in Content
  /\ \A c \in Content, n \in Nat : Prefix(c, n) \in Content
  /\ \A c \in Content, n \in Nat, from \in {"raw", "cipher"}, to \in {"raw", "cipher"} :
       Crypted(c, from, to, n) \in Content
<1>1. 0 \in 0..Frames
  BY FramesAssumption DEF FramesAssumption
<1>2. Blank \in Content /\ \A c \in Content : c.len \in Nat
  BY <1>1 DEF Blank, Content
<1>3. ASSUME NEW n \in Nat PROVE [Blank EXCEPT !.len = n] \in Content
  <2>1. [Blank EXCEPT !.len = n] = [frame |-> 0, form |-> "mixed", len |-> n]
    BY DEF Blank
  <2> QED
    BY <1>1, <2>1 DEF Content
<1>4. ASSUME NEW c \in Content, NEW n \in Nat PROVE Prefix(c, n) \in Content
  BY <1>1 DEF Prefix, Content
<1>5. ASSUME NEW c \in Content, NEW n \in Nat, NEW from, NEW to \in {"raw", "cipher"}
      PROVE  Crypted(c, from, to, n) \in Content
  <2>1. Length16(n) \in Nat
    BY Durations
  <2> QED
    BY <1>1, <2>1 DEF Crypted, Content
<1> QED
  BY <1>2, <1>3, <1>4, <1>5

LEMMA BlockNumbers ==
  /\ {0, 1, 2, 3, 4} \subseteq Blocks
  /\ \A n : /\ EncodeBlock(n) \in Blocks /\ CipherBlock(n) \in Blocks
            /\ ReceivedBlock(n) \in Blocks /\ ClearBlock(n) \in Blocks
<1>1. {0, 1, 2, 3, 4} \subseteq Blocks
  BY DEF Blocks
<1> QED
  BY <1>1 DEF EncodeBlock, CipherBlock, ReceivedBlock, ClearBlock

\* What Requests says of each kind of request.
LEMMA RequestFields ==
  ASSUME NEW r \in Requests
  PROVE  /\ r.slave = "mem" => /\ r.addr \in Blocks /\ r.len \in Nat /\ r.data \in Content
         /\ r.slave = "encoder" /\ ~r.rdnwr => r.data \in [{0, 1} -> Blocks]
         /\ r.slave = "crypto" => /\ r.data.src \in Blocks /\ r.data.dst \in Blocks
                                  /\ r.data.length \in Nat
         /\ r.slave = "nic" /\ r.len = 2 => /\ r.data.addr \in Blocks /\ r.data.length \in Nat
<1>1. CASE r \in MemRequests
  BY <1>1 DEF MemRequests
<1>2. CASE r \in StartRequests
  <2>1. r.slave = "encoder" /\ r.data \in [{0, 1} -> Blocks]
    BY <1>2 DEF StartRequests
  <2> QED
    BY <2>1
<1>3. CASE r \in LengthRequests
  <2>1. r.slave \in {"encoder", "nic"} /\ r.rdnwr = TRUE /\ r.len = 1
    BY <1>3 DEF LengthRequests
  <2> QED
    BY <2>1
<1>4. CASE r \in CryptoRequests
  BY <1>4 DEF CryptoRequests
<1>5. CASE r \in ConnectRequests
  BY <1>5 DEF ConnectRequests
<1>6. CASE r \in PacketRequests
  BY <1>6 DEF PacketRequests
<1> QED
  BY <1>1, <1>2, <1>3, <1>4, <1>5, <1>6 DEF Requests

LEMMA RequestsMade ==
  /\ \A a \in Blocks, n \in Nat, c \in Content :
       Write("mem", a, n, c) \in Requests /\ Read("mem", a, n) \in Requests
  /\ \A d \in [{0, 1} -> Blocks] : Write("encoder", 0, 2, d) \in Requests
  /\ Read("encoder", 0, 1) \in Requests
  /\ \A src, dst \in Blocks, e \in {0, 1}, n \in Nat :
       Write("crypto", 0, 4, [src |-> src, dst |-> dst, encrypt |-> e, length |-> n]) \in Requests
  /\ Write("nic", 0, 1, 1) \in Requests
  /\ \A a \in Blocks, n \in Nat :
       Write("nic", 0, 2, [addr |-> a, length |-> n]) \in Requests
  /\ Read("nic", 0, 1) \in Requests
<1>1. Blank \in Content /\ 2 \in {0, 2}
  BY Contents
<1>2. \A a \in Blocks, n \in Nat, c \in Content :
        Write("mem", a, n, c) \in Requests /\ Read("mem", a, n) \in Requests
  BY <1>1 DEF Requests, MemRequests, Write, Read
<1>3. \A d \in [{0, 1} -> Blocks] : Write("encoder", 0, 2, d) \in Requests
  BY DEF Requests, StartRequests, Write
<1>4. Read("encoder", 0, 1) \in Requests /\ Read("nic", 0, 1) \in Requests
  BY <1>1 DEF Requests, LengthRequests, Read
<1>5. \A src, dst \in Blocks, e \in {0, 1}, n \in Nat :
        Write("crypto", 0, 4, [src |-> src, dst |-> dst, encrypt |-> e, length |-> n]) \in Requests
  BY DEF Requests, CryptoRequests, Write
<1>6. /\ Write("nic", 0, 1, 1) \in Requests
      /\ \A a \in Blocks, n \in Nat :
           Write("nic", 0, 2, [addr |-> a, length |-> n]) \in Requests
  BY DEF Requests, ConnectRequests, PacketRequests, Write
<1> QED
  BY <1>2, <1>3, <1>4, <1>5, <1>6

LEMMA Registers ==
  ASSUME DataOK
  PROVE  /\ \A t \in Sender \cup Receiver : result[t] \in Content /\ result[t].len \in Nat
         /\ enc.buffer_ptr \in Nat /\ enc.frame_length \in Nat /\ enc.count \in 0..Frames
         /\ enc.due \in Nat /\ enc.mem_address_dst[enc.adr_num] \in Blocks
         /\ up.frame_num \in Nat /\ up.frameLength \in Nat
         /\ \A b \in Buses : /\ crypto[b].mem_address_src \in Blocks
                             /\ crypto[b].mem_address_dst \in Blocks
                             /\ crypto[b].length \in Nat /\ crypto[b].bufferInt \in Content
                             /\ crypto[b].bufferInt.len \in Nat
         /\ nic.mem_address \in Blocks /\ nic.packet_length \in Nat /\ nic.packet_data \in Content
         /\ network_frame \in Content /\ network_frame.len \in Nat
<1>1. RegistersOK /\ result \in [Sender \cup Receiver -> Content] /\ network_frame \in Content
  BY DEF DataOK, ContentsOK
<1>2. \A t \in Sender \cup Receiver : result[t] \in Content /\ result[t].len \in Nat
  BY <1>1, Contents
<1>3. network_frame.len \in Nat
  BY <1>1, Contents
<1>4. enc.count \in 0..Frames /\ enc.due \in Nat /\ enc.mem_address_dst[enc.adr_num] \in Blocks
      /\ enc.buffer_ptr \in Nat /\ enc.frame_length \in Nat
  <2>1. FramePeriod \in Nat
    BY DEF FramePeriod
  <2> QED
    BY <1>1, <2>1 DEF RegistersOK
<1>5. up.frame_num \in Nat /\ up.frameLength \in Nat
  BY <1>1 DEF RegistersOK
<1>6. ASSUME NEW b \in Buses
      PROVE  /\ crypto[b].mem_address_src \in Blocks /\ crypto[b].mem_address_dst \in Blocks
             /\ crypto[b].length \in Nat /\ crypto[b].bufferInt \in Content
             /\ crypto[b].bufferInt.len \in Nat
  <2>1. crypto[b] \in [mem_address_src : Blocks, mem_address_dst : Blocks,
                       length : Nat, bufferInt : Content]
    BY <1>1 DEF RegistersOK
  <2> QED
    BY <2>1, Contents
<1>7. nic.mem_address \in Blocks /\ nic.packet_length \in Nat /\ nic.packet_data \in Content
  BY <1>1 DEF RegistersOK
<1> QED
  BY <1>1, <1>2, <1>3, <1>4, <1>5, <1>6, <1>7


-----------------------------------------------------------------------------
(* The sender's processor. *)

\* The steps of send_packet: up to a frame's length; with a crypto unit; and
\* in software.
SendPacketMoves ==
  {<<"start", "connecting">>, <<"connecting", "connected">>, <<"connected", "idle">>,
   <<"idle", "encode_done">>, <<"encode_done", "length">>,
   <<"length", "encrypting">>, <<"encrypting", "encrypted">>, <<"encrypted", "idle">>,
   <<"length", "frame">>, <<"frame", "encrypted">>, <<"encrypted", "stored">>,
   <<"stored", "idle">>}

\* With the last of them the frame is counted.
Counts(seg, next) == seg \in {"encrypted", "stored"} /\ next = "idle"

LEMMA SendPacketSteps ==
  ASSUME IInv, NEW seg, Resumes("send_packet", seg), NEW next, NEW w,
         NEW fired, fired \subseteq {"bus1"}, Suspend("send_packet", next, w, fired),
         CardFirst => CardFirst', enc' = enc,
         <<seg, next>> \in SendPacketMoves,
         seg = "encrypting" => w = On("encrypt_done"),
         seg = "idle" => w = On("encode_done"),
         seg = "encode_done" => w = On("send_packet"),
         up'.frame_num = up.frame_num + (IF Counts(seg, next) THEN 1 ELSE 0)
  PROVE  CryptoOK("bus1")' /\ CryptoOK("bus2")' /\ CardOK' /\ CountOK'
<1>1. /\ ControlOK /\ CryptoOK("bus1") /\ CryptoOK("bus2") /\ CardOK /\ CountOK
      /\ up.frame_num \in Nat
  <2>1. {"bus1", "bus2"} = Buses
    BY DEF Buses
  <2> QED
    BY <2>1, Registers DEF IInv
<1>2. /\ pc'["send_packet"] = next /\ wait'["send_packet"] = w
      /\ pc["send_packet"] = seg /\ wait["send_packet"] = Ready
      /\ \A p \in Threads \ {"send_packet", "bus1"} :
           pc'[p] = pc[p] /\ (wait[p].event # "bus1" => wait'[p] = wait[p])
  <2>1. "send_packet" \in Threads
    BY DEF Threads, Sender
  <2>2. /\ pc'["send_packet"] = next /\ wait'["send_packet"] = w
        /\ Others("send_packet", fired)
    BY <1>1, <2>1, Suspended
  <2>3. pc["send_packet"] = seg /\ wait["send_packet"] = Ready
    BY DEF Resumes, IsReady
  <2> QED
    BY <2>2, <2>3 DEF Others
<1>3. \A p \in {"read_packet", "read_file", "aesEncrypt", "aesDecrypt", "decrypt_packet"} :
        pc'[p] = pc[p] /\ wait'[p] = wait[p]
  <2>1. {"read_packet", "read_file", "aesEncrypt", "aesDecrypt", "decrypt_packet"}
          \subseteq Threads \ {"send_packet", "bus1"}
    BY DEF Threads, Sender, Receiver
  <2>2. \A p \in {"read_packet", "read_file", "aesEncrypt", "aesDecrypt", "decrypt_packet"} :
          wait[p].event # "bus1"
    BY <1>1, Heard DEF NoEvent
  <2> QED
    BY <1>2, <2>1, <2>2
<1>4. /\ Ready # On("encrypt_done") /\ Ready # On("encode_done") /\ Ready # On("send_packet")
      /\ seg = "encrypting" => next = "encrypted"
      /\ seg = "idle" => next = "encode_done"
      /\ next = "encode_done" => seg = "idle"
      /\ seg = "encode_done" => next = "length"
      /\ seg \in {"length", "encrypting", "frame"} => next \in {"encrypting", "frame", "encrypted"}
      /\ seg \in {"encrypted", "stored"} => next = "stored" \/ Counts(seg, next)
      /\ seg \in {"start", "connecting", "connected"} => next \in {"connecting", "connected", "idle"}
      /\ seg \in {"start", "connecting", "connected", "idle", "encode_done", "length",
                  "encrypting", "frame", "encrypted", "stored"}
  BY DEF On, Ready, NoEvent, SendPacketMoves, Counts
<1>5. CryptoOK("bus1")'
  BY <1>1, <1>2, <1>3, <1>4 DEF CryptoOK, CryptoIdle, Resumes, IsReady, Aes, Processor,
     Commands, Awaits, AesEvent, AesDoneEvent
<1>6. CryptoOK("bus2")'
  BY <1>1, <1>3 DEF CryptoOK, CryptoIdle, Resumes, IsReady, Aes, Processor,
     Commands, Awaits, AesEvent, AesDoneEvent
<1>7. CardOK'
  BY <1>1, <1>2, <1>3, <1>4 DEF CardOK, CardIdle, Resumes, IsReady
<1>8. CountOK'
  <2>1. Reported' = Reported
    BY <1>3 DEF Reported
  <2>2. Taken' = Taken
    <3>1. CASE seg = "encode_done"
      BY <1>1, <1>2, <1>4, <3>1 DEF Taken, Resumes, IsReady, Counts
    <3>2. CASE seg \in {"length", "encrypting", "frame"}
      BY <1>1, <1>2, <1>4, <3>2 DEF Taken, Resumes, IsReady, Counts
    <3>3. CASE seg \in {"encrypted", "stored"}
      BY <1>1, <1>2, <1>4, <3>3 DEF Taken, Resumes, IsReady, Counts
    <3>4. CASE seg \in {"start", "connecting", "connected", "idle"}
      BY <1>1, <1>2, <1>4, <3>4 DEF Taken, Resumes, IsReady, Counts
    <3> QED
      BY <1>4, <3>1, <3>2, <3>3, <3>4
  <2> QED
    BY <1>1, <1>3, <2>1, <2>2 DEF CountOK
<1> QED
  BY <1>5, <1>6, <1>7, <1>8


LEMMA SendPacketCalls ==
  ASSUME IInv, NEW seg, Resumes("send_packet", seg), NEW next, NEW r \in Requests,
         MayAsk("bus1", "send_packet", next, r), Transfer("send_packet", "bus1", r, next, {}),
         <<seg, next>> \in SendPacketMoves,
         next \notin {"connected", "encode_done", "encrypted"},
         UNCHANGED <<result, mem, enc, crypto, nic, network_frame, mem_num>>,
         up' \in [frame_num : Nat, frameLength : Nat],
         up'.frame_num = up.frame_num + (IF Counts(seg, next) THEN 1 ELSE 0)
  PROVE  IInv'
<1>1. "bus1" \in Buses /\ "send_packet" \in Users["bus1"] /\ IsReady("send_packet")
      /\ Buses = {"bus1", "bus2"}
  BY DEF Buses, Users, Resumes
<1>2. Waits("send_packet", next, On("send_packet"))
  <2>1. SendPacketWaits(next, On("send_packet"))
    BY DEF SendPacketWaits, SendPacketMoves
  <2> QED
    BY <2>1 DEF Waits, Buses
<1>3. /\ ControlOK' /\ queue' \in [Buses -> Seq(Entries)] /\ (\A c \in Buses : QueueOK(c)')
      /\ Settled' /\ (CardFirst => CardFirst')
      /\ Suspend("send_packet", next, On("send_packet"), {"bus1"})
  BY <1>1, <1>2, Called
<1>4. CryptoOK("bus1")' /\ CryptoOK("bus2")' /\ CardOK' /\ CountOK'
  <2>1. {"bus1"} \subseteq {"bus1"}
    OBVIOUS
  <2>2. seg # "encrypting" /\ seg # "idle"
    BY DEF SendPacketMoves
  <2> QED
    BY <1>3, <2>1, <2>2, SendPacketSteps
<1>5. DataOK'
  BY <1>3 DEF IInv, DataOK, RegistersOK, ContentsOK
<1> QED
  BY <1>1, <1>3, <1>4, <1>5 DEF IInv

LEMMA SendPacketAwaits ==
  ASSUME IInv, NEW seg, Resumes("send_packet", seg), NEW next, NEW w,
         \/ <<seg, next, w>> \in {<<"connecting", "connected", On("connection_ready")>>,
                                 <<"idle", "encode_done", On("encode_done")>>,
                                 <<"encrypting", "encrypted", On("encrypt_done")>>}
         \/ <<seg, next>> = <<"frame", "encrypted">> /\ w \in Pauses,
         Suspend("send_packet", next, w, {}),
         UNCHANGED <<queue, result, mem, enc, up, crypto, nic, network_frame, mem_num>>
  PROVE  IInv'
<1>1. "send_packet" \in Threads \ Buses /\ IsReady("send_packet") /\ Buses = {"bus1", "bus2"}
  BY DEF Buses, Threads, Sender, Resumes
<1>2. Waits("send_packet", next, w) /\ (w # Ready \/ next = "encrypted")
  <2>1. SendPacketWaits(next, w)
    BY DEF SendPacketWaits
  <2>2. w # Ready \/ next = "encrypted"
    BY DEF On, Ready, NoEvent
  <2> QED
    BY <2>1, <2>2 DEF Waits, Buses
<1>3. /\ ControlOK' /\ queue' \in [Buses -> Seq(Entries)] /\ (\A c \in Buses : QueueOK(c)')
      /\ Settled' /\ (CardFirst => CardFirst')
  <2>1. {} \in SUBSET Signals /\ "read_event" \notin {}
    OBVIOUS
  <2> QED
    BY <1>1, <1>2, <2>1, Signalled
<1>4. CryptoOK("bus1")' /\ CryptoOK("bus2")' /\ CardOK' /\ CountOK'
  <2>1. up'.frame_num = up.frame_num + (IF Counts(seg, next) THEN 1 ELSE 0)
    <3>1. up.frame_num \in Nat /\ up' = up /\ ~Counts(seg, next)
      BY Registers DEF IInv, Counts
    <3> QED
      BY <3>1
  <2>2. {} \subseteq {"bus1"} /\ enc' = enc
    OBVIOUS
  <2>3. /\ <<seg, next>> \in SendPacketMoves
        /\ seg = "encrypting" => w = On("encrypt_done")
        /\ seg = "idle" => w = On("encode_done")
        /\ seg # "encode_done"
    BY DEF SendPacketMoves
  <2> QED
    BY <1>3, <2>1, <2>2, <2>3, SendPacketSteps
<1>5. DataOK'
  BY <1>3 DEF IInv, DataOK, RegistersOK, ContentsOK
<1> QED
  BY <1>1, <1>3, <1>4, <1>5 DEF IInv

LEMMA SenderRegisters ==
  ASSUME IInv
  PROVE  /\ up \in [frame_num : Nat, frameLength : Nat]
         /\ up.frame_num \in Nat /\ up.frameLength \in Nat
         /\ result["send_packet"] \in Content /\ result["send_packet"].len \in Nat
  BY Registers DEF IInv, DataOK, RegistersOK, Sender

\* The head of send_packet, which the three programs have in common.
LEMMA AwaitFrameStep ==
  ASSUME IInv, AwaitFrame
  PROVE  IInv'
<1>1. /\ up \in [frame_num : Nat, frameLength : Nat]
      /\ up.frame_num \in Nat /\ up.frameLength \in Nat
  BY SenderRegisters
<1>2. up.frame_num + 0 = up.frame_num /\ "send_packet" \in Users["bus1"]
  BY <1>1 DEF Users
<1>3. CASE Connect
  <2>1. /\ Write("nic", 0, 1, 1) \in Requests
        /\ MayAsk("bus1", "send_packet", "connecting", Write("nic", 0, 1, 1))
    BY <1>2, RequestsMade DEF MayAsk, Write
  <2>2. <<"start", "connecting">> \in SendPacketMoves /\ ~Counts("start", "connecting")
    BY DEF SendPacketMoves, Counts
  <2> QED
    BY <1>1, <1>2, <1>3, <2>1, <2>2, SendPacketCalls DEF Connect
<1>4. CASE Connecting
  BY <1>4, SendPacketAwaits DEF Connecting
<1>5. CASE StartEncoder
  <2> DEFINE r == Write("encoder", 0, 2, [i \in {0, 1} |-> i])
  <2>1. [i \in {0, 1} |-> i] \in [{0, 1} -> Blocks]
    BY BlockNumbers
  <2>2. r \in Requests /\ MayAsk("bus1", "send_packet", "idle", r)
    BY <1>2, <2>1, RequestsMade DEF MayAsk, Write
  <2>3. <<"connected", "idle">> \in SendPacketMoves /\ ~Counts("connected", "idle")
    BY DEF SendPacketMoves, Counts
  <2> QED
    BY <1>1, <1>2, <1>5, <2>2, <2>3, SendPacketCalls DEF StartEncoder
<1>6. CASE AwaitEncoder
  BY <1>6, SendPacketAwaits DEF AwaitEncoder
<1>7. CASE GetFrameLength
  <2>1. /\ Read("encoder", 0, 1) \in Requests
        /\ MayAsk("bus1", "send_packet", "length", Read("encoder", 0, 1))
    BY <1>2, RequestsMade DEF MayAsk, Read
  <2>2. <<"encode_done", "length">> \in SendPacketMoves /\ ~Counts("encode_done", "length")
    BY DEF SendPacketMoves, Counts
  <2> QED
    BY <1>1, <1>2, <1>7, <2>1, <2>2, SendPacketCalls DEF GetFrameLength
<1> QED
  BY <1>3, <1>4, <1>5, <1>6, <1>7 DEF AwaitFrame

\* The command to the crypto unit and the wait for its answer.
LEMMA EncryptionStep ==
  ASSUME IInv, StartEncryption \/ AwaitEncryption
  PROVE  IInv'
<1>1. /\ up \in [frame_num : Nat, frameLength : Nat]
      /\ up.frame_num \in Nat /\ up.frameLength \in Nat
      /\ result["send_packet"].len \in Nat
  BY SenderRegisters
<1>2. up.frame_num + 0 = up.frame_num /\ "send_packet" \in Users["bus1"]
  BY <1>1 DEF Users
<1>3. CASE StartEncryption
  <2> DEFINE d == [src |-> EncodeBlock(up.frame_num), dst |-> CipherBlock(up.frame_num),
                   encrypt |-> 1, length |-> result["send_packet"].len]
             r == Write("crypto", 0, 4, d)
  <2>1. r \in Requests
    BY <1>1, BlockNumbers, RequestsMade
  <2>2. MayAsk("bus1", "send_packet", "encrypting", r)
    BY <1>2 DEF MayAsk, Write, Processor, Commands
  <2>3. /\ Resumes("send_packet", "length")
        /\ Transfer("send_packet", "bus1", r, "encrypting", {})
        /\ up' = [up EXCEPT !.frameLength = result["send_packet"].len]
        /\ UNCHANGED <<result, mem, enc, crypto, nic, network_frame, mem_num>>
    BY <1>3 DEF StartEncryption
  <2>4. up' \in [frame_num : Nat, frameLength : Nat] /\ up'.frame_num = up.frame_num
    BY <1>1, <2>3
  <2>5. <<"length", "encrypting">> \in SendPacketMoves /\ ~Counts("length", "encrypting")
    BY DEF SendPacketMoves, Counts
  <2> HIDE DEF r
  <2> QED
    BY <1>2, <2>1, <2>2, <2>3, <2>4, <2>5, SendPacketCalls
<1>4. CASE AwaitEncryption
  BY <1>4, SendPacketAwaits DEF AwaitEncryption
<1> QED
  BY <1>3, <1>4

\* A frame is handed to the network card, after which it is counted.
LEMMA DescriptorStep ==
  ASSUME IInv, NEW seg \in {"encrypted", "stored"}, Resumes("send_packet", seg),
         NEW a \in Blocks, NEW n \in Nat,
         Transfer("send_packet", "bus1", Write("nic", 0, 2, [addr |-> a, length |-> n]), "idle", {}),
         up' = [up EXCEPT !.frame_num = @ + 1],
         UNCHANGED <<result, mem, enc, crypto, nic, network_frame, mem_num>>
  PROVE  IInv'
<1> DEFINE r == Write("nic", 0, 2, [addr |-> a, length |-> n])
<1>1. r \in Requests
  BY RequestsMade
<1>2. MayAsk("bus1", "send_packet", "idle", r)
  BY DEF MayAsk, Write, Users
<1>3. up' \in [frame_num : Nat, frameLength : Nat] /\ up'.frame_num = up.frame_num + 1
  BY SenderRegisters
<1>4. <<seg, "idle">> \in SendPacketMoves /\ Counts(seg, "idle")
  BY DEF SendPacketMoves, Counts
<1>5. Transfer("send_packet", "bus1", r, "idle", {})
  OBVIOUS
<1> HIDE DEF r
<1> QED
  BY <1>1, <1>2, <1>3, <1>4, <1>5, SendPacketCalls

LEMMA MicroprocessorStep ==
  ASSUME IInv, Microprocessor
  PROVE  IInv'
<1>1. CASE SendPacket
  <2>1. CipherBlock(up.frame_num) \in Blocks /\ Length16(up.frameLength) \in Nat
    BY SenderRegisters, BlockNumbers, Durations
  <2> QED
    BY <1>1, <2>1, DescriptorStep DEF SendPacket
<1> QED
  BY <1>1, AwaitFrameStep, EncryptionStep DEF Microprocessor


-----------------------------------------------------------------------------
(* The encoder. *)

LEMMA ReadFileSteps ==
  ASSUME IInv, NEW seg, Resumes("read_file", seg), NEW next, NEW w, w # Ready,
         NEW fired, fired \subseteq {"bus1", "encode_done"},
         Suspend("read_file", next, w, fired), CardFirst => CardFirst', up' = up,
         "encode_done" \in fired <=> seg = "written", enc'.count \in Nat,
         next \in {"encoded", "written", "paced"} => enc'.count < Frames,
         enc'.count + (IF next = "paced" THEN 1 ELSE 0)
           = enc.count + (IF seg \in {"written", "paced"} THEN 1 ELSE 0)
  PROVE  CryptoOK("bus1")' /\ CryptoOK("bus2")' /\ CardOK' /\ CountOK'
<1>1. /\ ControlOK /\ CryptoOK("bus1") /\ CryptoOK("bus2") /\ CardOK /\ CountOK
      /\ up.frame_num \in Nat /\ enc.count \in Nat
  <2>1. {"bus1", "bus2"} = Buses
    BY DEF Buses
  <2> QED
    BY <2>1, Registers DEF IInv
<1>2. /\ pc'["read_file"] = next /\ wait'["read_file"] = w
      /\ pc["read_file"] = seg /\ wait["read_file"] = Ready
      /\ \A p \in Threads \ {"read_file"} :
           /\ pc'[p] = pc[p]
           /\ wait[p].event \notin fired => wait'[p] = wait[p]
  <2>1. "read_file" \in Threads
    BY DEF Threads, Sender
  <2>2. /\ pc'["read_file"] = next /\ wait'["read_file"] = w
        /\ Others("read_file", fired)
    BY <1>1, <2>1, Suspended
  <2>3. pc["read_file"] = seg /\ wait["read_file"] = Ready
    BY DEF Resumes, IsReady
  <2> QED
    BY <2>2, <2>3 DEF Others
<1>3. \A p \in {"read_packet", "aesEncrypt", "aesDecrypt", "decrypt_packet"} :
        pc'[p] = pc[p] /\ wait'[p] = wait[p]
  <2>1. {"read_packet", "aesEncrypt", "aesDecrypt", "decrypt_packet"}
          \subseteq Threads \ {"read_file"}
    BY DEF Threads, Sender, Receiver
  <2>2. \A p \in {"read_packet", "aesEncrypt", "aesDecrypt", "decrypt_packet"} :
          wait[p].event \notin fired
    BY <1>1, Heard DEF NoEvent
  <2> QED
    BY <1>2, <2>1, <2>2
<1>4. /\ pc'["send_packet"] = pc["send_packet"]
      /\ wait["send_packet"].event # "encode_done" \/ seg # "written" =>
           wait'["send_packet"] = wait["send_packet"]
  <2>1. "send_packet" \in Threads \ {"read_file"}
    BY DEF Threads, Sender
  <2>2. wait["send_packet"].event # "bus1"
    BY <1>1, Heard DEF NoEvent
  <2>3. wait["send_packet"].event # "encode_done" \/ seg # "written" =>
          wait["send_packet"].event \notin fired
    BY <2>2
  <2> QED
    BY <1>2, <2>1, <2>3
<1>5. /\ Ready.event # "encode_done" /\ On("encrypt_done").event # "encode_done"
      /\ On("send_packet").event # "encode_done"
  BY DEF On, Ready, NoEvent
<1>6. CryptoOK("bus1")'
  BY <1>1, <1>3, <1>4, <1>5 DEF CryptoOK, CryptoIdle, Resumes, IsReady, Aes, Processor,
     Commands, Awaits, AesEvent, AesDoneEvent
<1>7. CryptoOK("bus2")'
  BY <1>1, <1>3 DEF CryptoOK, CryptoIdle, Resumes, IsReady, Aes, Processor,
     Commands, Awaits, AesEvent, AesDoneEvent
<1>8. CardOK'
  BY <1>1, <1>2, <1>3, <1>4, <1>5 DEF CardOK, CardIdle, Resumes, IsReady
<1>9. CountOK'
  <2>2. CASE seg = "written"
    <3>1. Reported' = Reported + 1 /\ Reported = enc.count
      BY <1>1, <1>2, <2>2 DEF Reported
    <3>2. Taken' \in {Taken, Taken + 1} /\ Taken \in Nat
      <4>1. CASE wait["send_packet"].event # "encode_done"
        <5>1. Taken' = Taken
          BY <1>4, <4>1 DEF Taken, Resumes, IsReady
        <5> QED
          BY <1>1, <5>1 DEF Taken
      <4>2. CASE wait["send_packet"].event = "encode_done"
        <5>1. ~Resumes("send_packet", "encode_done")
          BY <1>5, <4>2 DEF Resumes, IsReady
        <5> QED
          BY <1>1, <1>4, <5>1 DEF Taken
      <4> QED
        BY <4>1, <4>2
    <3> QED
      BY <1>1, <1>2, <3>1, <3>2 DEF CountOK
  <2>3. CASE seg # "written"
    <3>1. Reported' = Reported
      BY <1>1, <1>2, <2>3 DEF Reported
    <3>2. Taken' = Taken
      BY <1>4, <2>3 DEF Taken, Resumes, IsReady
    <3> QED
      BY <1>1, <1>2, <3>1, <3>2 DEF CountOK
  <2> QED
    BY <2>2, <2>3
<1> QED
  BY <1>6, <1>7, <1>8, <1>9

\* The type of the encoder's registers.
EncoderOK(e) ==
  e \in [mem_address_dst : [{0, 1} -> Blocks], buffer_ptr : Nat, frame_length : Nat,
         adr_num : {0, 1}, count : 0..Frames, due : 0..FramePeriod]

LEMMA ReadFileWaitsOK ==
  ASSUME NEW seg, NEW w, ReadFileWaits(seg, w)
  PROVE  Waits("read_file", seg, w)
  BY DEF Waits, Buses

LEMMA ReadFileGoesOn ==
  ASSUME IInv, NEW seg, Resumes("read_file", seg), NEW next, NEW w, w # Ready,
         ReadFileWaits(next, w), NEW fired, fired \subseteq {"encode_done"},
         Suspend("read_file", next, w, fired),
         "encode_done" \in fired <=> seg = "written",
         EncoderOK(enc'), next \in {"encoded", "written", "paced"} => enc'.count < Frames,
         enc'.count + (IF next = "paced" THEN 1 ELSE 0)
           = enc.count + (IF seg \in {"written", "paced"} THEN 1 ELSE 0),
         UNCHANGED <<queue, result, mem, up, crypto, nic, network_frame, mem_num>>
  PROVE  IInv'
<1>1. "read_file" \in Threads \ Buses /\ IsReady("read_file") /\ Buses = {"bus1", "bus2"}
  BY DEF Buses, Threads, Sender, Resumes
<1>2. /\ ControlOK' /\ queue' \in [Buses -> Seq(Entries)] /\ (\A c \in Buses : QueueOK(c)')
      /\ Settled' /\ (CardFirst => CardFirst')
  <2>1. fired \in SUBSET Signals /\ "read_event" \notin fired
    BY DEF Signals
  <2> QED
    BY <1>1, <2>1, Signalled, ReadFileWaitsOK
<1>3. CryptoOK("bus1")' /\ CryptoOK("bus2")' /\ CardOK' /\ CountOK'
  <2>1. fired \subseteq {"bus1", "encode_done"} /\ up' = up
    OBVIOUS
  <2>2. enc'.count \in Nat
    BY FramesAssumption DEF EncoderOK, FramesAssumption
  <2> QED
    BY <1>2, <2>1, <2>2, ReadFileSteps
<1>4. DataOK'
  BY <1>2 DEF IInv, DataOK, RegistersOK, ContentsOK, EncoderOK
<1> QED
  BY <1>1, <1>2, <1>3, <1>4 DEF IInv

LEMMA EncoderTimes ==
  /\ EncodeTime \in Nat /\ EncodeTime > 0 /\ FramePeriod \in Nat
  /\ \A len \in FrameLens : len \in Nat
  /\ \A d \in Nat : d > 0 => For(d) \in Pauses /\ For(d) # Ready
<1>1. EncodeTime \in Nat /\ EncodeTime > 0 /\ FramePeriod \in Nat
  BY DEF EncodeTime, FramePeriod
<1>2. \A len \in FrameLens : len \in Nat
  BY FramesAssumption DEF FramesAssumption
<1>3. \A d \in Nat : d > 0 => For(d) \in Pauses /\ For(d) # Ready
  BY DEF For, Pauses, Ready
<1> QED
  BY <1>1, <1>2, <1>3

LEMMA NextFrameStep ==
  ASSUME IInv, NEW seg, Resumes("read_file", seg), NEW e, EncoderOK(e),
         e.count = enc.count + (IF seg \in {"written", "paced"} THEN 1 ELSE 0),
         NEW fired, fired \subseteq {"encode_done"}, "encode_done" \in fired <=> seg = "written",
         NextFrame(e, fired),
         UNCHANGED <<queue, result, mem, up, crypto, nic, network_frame, mem_num>>
  PROVE  IInv'
<1>1. CASE /\ e.count < Frames
           /\ \E len \in FrameLens : enc' = [e EXCEPT !.buffer_ptr = len, !.due = FramePeriod]
           /\ Suspend("read_file", "encoded", For(EncodeTime), fired)
  <2>1. PICK len \in FrameLens : enc' = [e EXCEPT !.buffer_ptr = len, !.due = FramePeriod]
    BY <1>1
  <2>2. EncoderOK(enc') /\ enc'.count = e.count
    <3>1. len \in Nat /\ FramePeriod \in 0..FramePeriod
      BY EncoderTimes
    <3> QED
      BY <2>1, <3>1 DEF EncoderOK
  <2>3. For(EncodeTime) # Ready /\ ReadFileWaits("encoded", For(EncodeTime))
    BY EncoderTimes DEF ReadFileWaits
  <2>4. e.count + 0 = e.count
    BY DEF EncoderOK
  <2> QED
    BY <1>1, <2>2, <2>3, <2>4, ReadFileGoesOn
<1>2. CASE enc' = e /\ Suspend("read_file", "returned", On("nothing"), fired)
  <2>1. On("nothing") # Ready /\ ReadFileWaits("returned", On("nothing"))
    BY DEF On, Ready, NoEvent, ReadFileWaits
  <2>2. e.count + 0 = e.count
    BY DEF EncoderOK
  <2> QED
    BY <1>2, <2>1, <2>2, ReadFileGoesOn
<1> QED
  BY <1>1, <1>2 DEF NextFrame

LEMMA EncoderStep ==
  ASSUME IInv, Encoder
  PROVE  IInv'
<1>1. /\ EncoderOK(enc) /\ enc.count \in Nat /\ enc.due \in Nat
      /\ pc["read_file"] \in {"encoded", "written", "paced"} => enc.count < Frames
      /\ Frames \in Nat
  BY Registers, FramesAssumption DEF IInv, DataOK, RegistersOK, CountOK, EncoderOK,
     FramesAssumption
<1>2. EncoderOK([enc EXCEPT !.adr_num = 1 - @])
  <2>1. 1 - enc.adr_num \in {0, 1}
    BY <1>1 DEF EncoderOK
  <2> QED
    BY <1>1, <2>1 DEF EncoderOK
<1>3. CASE StartReading
  <2>1. enc.count = enc.count + 0
    BY <1>1
  <2> QED
    BY <1>1, <1>3, <2>1, NextFrameStep DEF StartReading
<1>4. CASE FrameEncoded
  <2> DEFINE c == [frame |-> enc.count + 1, form |-> "raw", len |-> enc.buffer_ptr]
             r == Write("mem", enc.mem_address_dst[enc.adr_num], enc.buffer_ptr, c)
  <2>1. /\ Resumes("read_file", "encoded") /\ enc' = [enc EXCEPT !.frame_length = enc.buffer_ptr]
        /\ Transfer("read_file", "bus1", r, "written", {})
        /\ UNCHANGED <<result, mem, up, crypto, nic, network_frame, mem_num>>
    BY <1>4 DEF FrameEncoded
  <2>2. /\ EncoderOK(enc') /\ enc'.count = enc.count /\ enc.count < Frames
        /\ enc.buffer_ptr \in Nat
    BY <1>1, <2>1 DEF EncoderOK, Resumes
  <2>3. r \in Requests /\ r.slave = "mem"
    <3>1. c \in Content
      BY <1>1, <2>2 DEF Content
    <3>2. enc.mem_address_dst[enc.adr_num] \in Blocks
      BY Registers DEF IInv
    <3> QED
      BY <2>2, <3>1, <3>2, RequestsMade DEF Write
  <2> HIDE DEF r
  <2>4. /\ MayAsk("bus1", "read_file", "written", r) /\ "read_file" \in Users["bus1"]
        /\ "bus1" \in Buses /\ Buses = {"bus1", "bus2"} /\ IsReady("read_file")
    BY <2>1, <2>3 DEF MayAsk, Users, Buses, Resumes
  <2>5. ReadFileWaits("written", On("read_file")) /\ On("read_file") # Ready
    BY DEF ReadFileWaits, On, Ready, NoEvent
  <2>6. /\ ControlOK' /\ queue' \in [Buses -> Seq(Entries)] /\ (\A b \in Buses : QueueOK(b)')
        /\ Settled' /\ (CardFirst => CardFirst')
        /\ Suspend("read_file", "written", On("read_file"), {"bus1"})
    BY <2>1, <2>3, <2>4, <2>5, Called, ReadFileWaitsOK
  <2>7. CryptoOK("bus1")' /\ CryptoOK("bus2")' /\ CardOK' /\ CountOK'
    <3>1. {"bus1"} \subseteq {"bus1", "encode_done"} /\ "encode_done" \notin {"bus1"} /\ up' = up
      BY <2>1
    <3>2. enc'.count + 0 = enc.count + 0 /\ enc'.count \in Nat
      BY <1>1, <2>2
    <3> QED
      BY <2>1, <2>2, <2>5, <2>6, <3>1, <3>2, ReadFileSteps
  <2>8. DataOK'
    BY <2>1, <2>2, <2>6 DEF IInv, DataOK, RegistersOK, ContentsOK, EncoderOK
  <2> QED
    BY <2>4, <2>6, <2>7, <2>8 DEF IInv
<1>5. CASE FrameWritten
  <2>1. enc.count < Frames /\ Resumes("read_file", "written")
    BY <1>1, <1>5 DEF FrameWritten, Resumes
  <2>2. CASE /\ enc.due > 0
             /\ enc' = [enc EXCEPT !.adr_num = 1 - @]
             /\ Suspend("read_file", "paced", For(enc.due), {"encode_done"})
    <3>1. EncoderOK(enc') /\ enc'.count = enc.count
      BY <1>1, <1>2, <2>2 DEF EncoderOK
    <3>2. For(enc.due) # Ready /\ ReadFileWaits("paced", For(enc.due))
      BY <1>1, <2>2, EncoderTimes DEF ReadFileWaits
    <3> QED
      BY <1>5, <2>1, <2>2, <3>1, <3>2, ReadFileGoesOn DEF FrameWritten
  <2>3. CASE NextFrame([enc EXCEPT !.adr_num = 1 - @, !.count = @ + 1], {"encode_done"})
    <3> DEFINE e == [enc EXCEPT !.adr_num = 1 - @, !.count = @ + 1]
    <3>1. EncoderOK(e) /\ e.count = enc.count + 1
      <4>1. 1 - enc.adr_num \in {0, 1} /\ enc.count + 1 \in 0..Frames
        BY <1>1, <2>1 DEF EncoderOK
      <4> QED
        BY <1>1, <4>1 DEF EncoderOK
    <3> HIDE DEF e
    <3> QED
      BY <1>5, <2>1, <2>3, <3>1, NextFrameStep DEF FrameWritten, e
  <2> QED
    BY <1>5, <2>2, <2>3 DEF FrameWritten
<1>6. CASE FramePaced
  <2> DEFINE e == [enc EXCEPT !.count = @ + 1]
  <2>1. enc.count < Frames /\ Resumes("read_file", "paced")
    BY <1>1, <1>6 DEF FramePaced, Resumes
  <2>2. EncoderOK(e) /\ e.count = enc.count + 1
    <3>1. enc.count + 1 \in 0..Frames
      BY <1>1, <2>1
    <3> QED
      BY <1>1, <3>1 DEF EncoderOK
  <2>3. NextFrame(e, {})
    BY <1>6 DEF FramePaced
  <2>4. UNCHANGED <<queue, result, mem, up, crypto, nic, network_frame, mem_num>>
    BY <1>6 DEF FramePaced
  <2> HIDE DEF e
  <2> QED
    BY <2>1, <2>2, <2>3, <2>4, NextFrameStep
<1> QED
  BY <1>3, <1>4, <1>5, <1>6 DEF Encoder


-----------------------------------------------------------------------------
(* The crypto units. *)

LEMMA CryptoNames ==
  ASSUME NEW b \in Buses
  PROVE  /\ Aes[b] \in Threads \ {"read_packet", "send_packet", "read_file", "decrypt_packet"}
         /\ Aes[b] \in Users[b] /\ Aes[b] \notin Buses /\ Aes[b] \in Sender \cup Receiver
         /\ Aes[b] \notin {NoEvent, "read", "read_event"}
         /\ Processor[b] \in Threads \ {Aes[b]} /\ Processor[b] \in {"send_packet", "decrypt_packet"}
         /\ AesDoneEvent[b] \in Signals \ {"read_event", "encode_done", "packet_received"}
         /\ AesEvent[b] \in Signals \ {"read_event", "encode_done", "conn", "read"}
         /\ AesEvent[b] # AesDoneEvent[b]
         /\ \A c \in Buses \ {b} :
              /\ Aes[b] \notin {Aes[c], Processor[c]}
              /\ AesDoneEvent[b] \notin {AesEvent[c], AesDoneEvent[c]}
              /\ AesEvent[b] \notin {AesEvent[c], AesDoneEvent[c]}
<1>1. b \in {"bus1", "bus2"}
  BY DEF Buses
<1>2. CASE b = "bus1"
  BY <1>2 DEF Aes, Processor, AesEvent, AesDoneEvent, Users, Buses, Threads, Sender, Receiver,
     NoEvent, Signals
<1>3. CASE b = "bus2"
  BY <1>3 DEF Aes, Processor, AesEvent, AesDoneEvent, Users, Buses, Threads, Sender, Receiver,
     NoEvent, Signals
<1> QED
  BY <1>1, <1>2, <1>3

LEMMA AesSteps ==
  ASSUME IInv, NEW b \in Buses, NEW seg, Resumes(Aes[b], seg), NEW next, NEW w,
         NEW fired, fired \subseteq {b, AesDoneEvent[b]}, Suspend(Aes[b], next, w, fired),
         seg # "written" => AesDoneEvent[b] \notin fired,
         seg = "command" => next = "read" /\ w = On(Aes[b]),
         seg = "written" => next = "command" /\ w = On(AesEvent[b]),
         CardFirst => CardFirst', enc' = enc, up' = up
  PROVE  (\A c \in Buses : CryptoOK(c)') /\ CardOK' /\ CountOK'
<1>1. ControlOK /\ (\A c \in Buses : CryptoOK(c)) /\ CardOK /\ CountOK
  BY DEF IInv
<1>2. /\ pc'[Aes[b]] = next /\ wait'[Aes[b]] = w
      /\ pc[Aes[b]] = seg /\ wait[Aes[b]] = Ready
      /\ \A p \in Threads \ {Aes[b]} :
           /\ pc'[p] = pc[p]
           /\ wait[p].event \notin fired => wait'[p] = wait[p]
  <2>1. Aes[b] \in Threads
    BY CryptoNames
  <2>2. pc'[Aes[b]] = next /\ wait'[Aes[b]] = w /\ Others(Aes[b], fired)
    BY <1>1, <2>1, Suspended
  <2> QED
    BY <2>2 DEF Others, Resumes, IsReady
<1>3. CryptoOK(b)'
  <2>1. pc'[Processor[b]] = pc[Processor[b]] /\ (seg # "written" => wait'[Processor[b]] = wait[Processor[b]])
    <3>1. wait[Processor[b]].event # b
      BY <1>1, Heard DEF Processor, Buses, NoEvent
    <3> QED
      BY <1>2, <3>1, CryptoNames
  <2>2. \A e : e # NoEvent => On(e) # Ready
    BY DEF On, Ready
  <2>3. AesEvent[b] # NoEvent /\ Aes[b] # NoEvent
    BY CryptoNames, Names
  <2> QED
    BY <1>1, <1>2, <2>1, <2>2, <2>3 DEF CryptoOK, CryptoIdle, Resumes, IsReady
<1>4. ASSUME NEW c \in Buses \ {b} PROVE CryptoOK(c)'
  <2>1. Aes[b] \in Threads \ {Aes[c], Processor[c]}
    BY CryptoNames
  <2>2. fired \cap {NoEvent, AesEvent[c], AesDoneEvent[c], Aes[c]} = {}
    <3>1. b \notin Signals /\ b # NoEvent /\ b # Aes[c]
      BY Names, CryptoNames DEF Buses
    <3>2. AesDoneEvent[b] \notin {NoEvent, AesEvent[c], AesDoneEvent[c], Aes[c]}
      BY Names, CryptoNames
    <3>3. AesEvent[c] \in Signals /\ AesDoneEvent[c] \in Signals
      BY CryptoNames
    <3> QED
      BY <3>1, <3>2, <3>3
  <2> QED
    BY <1>1, <2>1, <2>2, CryptoKept
<1>5. fired \cap {NoEvent, "read_event", "read_packet", "send_packet", "read_file",
                  "encode_done"} = {}
  BY DEF AesDoneEvent, Buses, NoEvent
<1>6. CardOK' /\ CountOK'
  <2>1. Aes[b] \in Threads \ {"read_packet", "send_packet", "read_file"}
    BY CryptoNames
  <2>2. CardOK'
    BY <1>1, <1>5, <2>1, CardKept
  <2>3. Aes[b] \in Threads \ {"send_packet", "read_file"}
        /\ fired \cap {NoEvent, "encode_done"} = {}
    BY <1>5, <2>1
  <2>4. enc'.count = enc.count
    OBVIOUS
  <2>5. CountOK'
    BY <1>1, <2>3, <2>4, CountKeptByOthers
  <2> QED
    BY <2>2, <2>5
<1> QED
  BY <1>3, <1>4, <1>6

LEMMA AesWaitsOK ==
  ASSUME NEW b \in Buses, NEW seg, NEW w, AesWaits(b, seg, w)
  PROVE  Waits(Aes[b], seg, w)
  BY DEF Waits, Buses, Aes

\* A crypto thread asks for data or hands it back.
LEMMA CryptoCalls ==
  ASSUME IInv, NEW b \in Buses, NEW t, t = Aes[b], NEW seg, Resumes(t, seg), NEW next,
         NEW r \in Requests, r.slave = "mem", Transfer(t, b, r, next, {}),
         UNCHANGED <<result, mem, enc, up, crypto, nic, network_frame, mem_num>>,
         <<seg, next>> \in {<<"command", "read">>, <<"crypted", "written">>}
  PROVE  IInv'
<1>1. t \in Users[b]
  BY CryptoNames
<1>2. Waits(t, next, On(t)) /\ IsReady(t) /\ MayAsk(b, t, next, r)
  <2>1. AesWaits(b, next, On(t))
    BY DEF AesWaits
  <2> QED
    BY <1>1, <2>1, AesWaitsOK DEF Resumes, MayAsk
<1>3. /\ ControlOK' /\ queue' \in [Buses -> Seq(Entries)] /\ (\A c \in Buses : QueueOK(c)')
      /\ Settled' /\ (CardFirst => CardFirst') /\ Suspend(t, next, On(t), {b})
  BY <1>1, <1>2, Called
<1>4. (\A c \in Buses : CryptoOK(c)') /\ CardOK' /\ CountOK'
  <2>1. {b} \subseteq {b, AesDoneEvent[b]} /\ AesDoneEvent[b] \notin {b} /\ seg # "written"
    BY DEF AesDoneEvent, Buses
  <2>2. seg = "command" => next = "read"
    OBVIOUS
  <2> QED
    BY <1>3, <2>1, <2>2, AesSteps
<1>5. DataOK'
  BY <1>3 DEF IInv, DataOK, RegistersOK, ContentsOK
<1> QED
  BY <1>3, <1>4, <1>5 DEF IInv

\* It works, is done, or fails: then it returns.
LEMMA CryptoAwaits ==
  ASSUME IInv, NEW b \in Buses, NEW seg, Resumes(Aes[b], seg), NEW next,
         NEW w, AesWaits(b, next, w),
         NEW fired, fired \subseteq {AesDoneEvent[b]}, Suspend(Aes[b], next, w, fired),
         seg # "written" => fired = {}, seg \in {"read", "written"},
         seg = "written" => next = "command" /\ w = On(AesEvent[b]),
         UNCHANGED <<queue, result, mem, enc, up, nic, network_frame, mem_num>>,
         crypto' \in [Buses -> [mem_address_src : Blocks, mem_address_dst : Blocks,
                                length : Nat, bufferInt : Content]]
  PROVE  IInv'
<1>1. Aes[b] \in Threads \ Buses
      /\ Aes[b] \notin {"send_packet", "read_packet", "read_file", "decrypt_packet"}
  BY CryptoNames
<1>2. Waits(Aes[b], next, w) /\ IsReady(Aes[b]) /\ fired \in SUBSET Signals /\ "read_event" \notin fired
  BY AesWaitsOK, CryptoNames DEF Resumes
<1>3. /\ ControlOK' /\ queue' \in [Buses -> Seq(Entries)] /\ (\A c \in Buses : QueueOK(c)')
      /\ Settled' /\ (CardFirst => CardFirst')
  BY <1>1, <1>2, Signalled
<1>4. (\A c \in Buses : CryptoOK(c)') /\ CardOK' /\ CountOK'
  <2>1. fired \subseteq {b, AesDoneEvent[b]} /\ (seg # "written" => AesDoneEvent[b] \notin fired)
        /\ seg # "command"
    OBVIOUS
  <2> QED
    BY <1>3, <2>1, AesSteps
<1>5. DataOK'
  BY <1>3 DEF IInv, DataOK, RegistersOK, ContentsOK
<1> QED
  BY <1>3, <1>4, <1>5 DEF IInv

\* read_data and the end of the loop, which the ECC threads have too.
LEMMA CryptoLoopStep ==
  ASSUME IInv, NEW b \in Buses, AesReadData(b) \/ AesDone(b)
  PROVE  IInv'
<1> DEFINE t == Aes[b]
<1>1. /\ crypto[b].mem_address_src \in Blocks /\ crypto[b].length \in Nat
      /\ crypto \in [Buses -> [mem_address_src : Blocks, mem_address_dst : Blocks,
                               length : Nat, bufferInt : Content]]
  BY Registers DEF IInv, DataOK, RegistersOK
<1> HIDE DEF t
<1>2. CASE AesReadData(b)
  <2> DEFINE r == Read("mem", crypto[b].mem_address_src, crypto[b].length)
  <2>1. r \in Requests /\ r.slave = "mem"
    BY <1>1, RequestsMade, Contents DEF Read
  <2>2. /\ Resumes(t, "command") /\ Transfer(t, b, r, "read", {})
        /\ UNCHANGED <<result, mem, enc, up, crypto, nic, network_frame, mem_num>>
    BY <1>2 DEF AesReadData, t
  <2> HIDE DEF r
  <2> QED
    BY <2>1, <2>2, CryptoCalls DEF t
<1>3. CASE AesDone(b)
  <2>1. AesWaits(b, "command", On(AesEvent[b]))
    BY DEF AesWaits
  <2>2. /\ Resumes(t, "written")
        /\ Suspend(t, "command", On(AesEvent[b]), {AesDoneEvent[b]})
        /\ UNCHANGED <<queue, result, mem, enc, up, crypto, nic, network_frame, mem_num>>
    BY <1>3 DEF AesDone, t
  <2>3. {AesDoneEvent[b]} \subseteq {AesDoneEvent[b]}
    OBVIOUS
  <2> QED
    BY <1>1, <2>1, <2>2, <2>3, CryptoAwaits DEF t
<1> QED
  BY <1>2, <1>3

LEMMA CryptoStep ==
  ASSUME IInv, NEW b \in Buses, Crypto(b)
  PROVE  IInv'
<1> DEFINE t == Aes[b]
<1>1. /\ crypto[b].mem_address_dst \in Blocks
      /\ crypto[b].length \in Nat /\ crypto[b].bufferInt \in Content
      /\ crypto[b].bufferInt.len \in Nat /\ result[t] \in Content
  BY Registers, CryptoNames DEF IInv
<1> HIDE DEF t
<1>2. CASE AesReadData(b) \/ AesDone(b)
  BY <1>2, CryptoLoopStep
<1>3. CASE AesCrypt(b)
  <2>1. PICK c \in Content : crypto' = [crypto EXCEPT ![b].bufferInt = c]
    <3>1. /\ Crypted(result[t], "raw", "cipher", crypto[b].length) \in Content
          /\ Crypted(result[t], "cipher", "raw", crypto[b].length) \in Content
      BY <1>1, Contents
    <3>2. CASE b = "bus1"
      BY <1>3, <3>1, <3>2 DEF AesCrypt, t
    <3>3. CASE b # "bus1"
      BY <1>3, <3>1, <3>3 DEF AesCrypt, t
    <3> QED
      BY <3>2, <3>3
  <2>2. crypto' \in [Buses -> [mem_address_src : Blocks, mem_address_dst : Blocks,
                               length : Nat, bufferInt : Content]]
    BY <2>1 DEF IInv, DataOK, RegistersOK
  <2>3. AesWaits(b, "crypted", For(AesTime(crypto[b].length)))
    BY <1>1, Durations DEF AesWaits, For, Pauses
  <2>4. /\ Resumes(t, "read") /\ Suspend(t, "crypted", For(AesTime(crypto[b].length)), {})
        /\ UNCHANGED <<queue, result, mem, enc, up, nic, network_frame, mem_num>>
    BY <1>3 DEF AesCrypt, t
  <2>5. {} \subseteq {AesDoneEvent[b]} /\ "read" # "written"
    OBVIOUS
  <2>6. /\ Resumes(Aes[b], "read") /\ Suspend(Aes[b], "crypted", For(AesTime(crypto[b].length)), {})
        /\ UNCHANGED <<queue, result, mem, enc, up, nic, network_frame, mem_num>>
    BY <2>4 DEF t
  <2> QED
    BY <2>2, <2>3, <2>5, <2>6, CryptoAwaits
<1>4. CASE AesWriteData(b)
  <2> DEFINE r == Write("mem", crypto[b].mem_address_dst, crypto[b].bufferInt.len,
                        crypto[b].bufferInt)
  <2>1. r \in Requests /\ r.slave = "mem"
    BY <1>1, RequestsMade DEF Write
  <2>2. /\ Resumes(t, "crypted") /\ Transfer(t, b, r, "written", {})
        /\ UNCHANGED <<result, mem, enc, up, crypto, nic, network_frame, mem_num>>
    BY <1>4 DEF AesWriteData, t
  <2> HIDE DEF r
  <2> QED
    BY <2>1, <2>2, CryptoCalls DEF t
<1> QED
  BY <1>2, <1>3, <1>4 DEF Crypto


-----------------------------------------------------------------------------
(* The network cards. *)

\* Threads of which only their own waits are known.
LEMMA OtherThreads ==
  ASSUME IInv, NEW t \in {"setup", "send_frame", "receive_frame"}, NEW next, NEW w,
         NEW fired,
         fired \subseteq {"bus2", "connection_ready", "receive_event", "packet_received"},
         Suspend(t, next, w, fired), CardFirst => CardFirst', enc' = enc, up' = up
  PROVE  (\A c \in Buses : CryptoOK(c)') /\ CardOK' /\ CountOK'
<1>1. ControlOK /\ (\A c \in Buses : CryptoOK(c)) /\ CardOK /\ CountOK
  BY DEF IInv
<1>2. /\ t \in Threads \ {"read_packet", "send_packet", "read_file"}
      /\ t \in Threads \ {"send_packet", "read_file"}
      /\ \A c \in Buses : t \in Threads \ {Aes[c], Processor[c]}
  BY DEF Threads, Sender, Receiver, Aes, Processor, Buses
<1>3. /\ fired \cap {NoEvent, "read_event", "read_packet", "send_packet", "read_file",
                     "encode_done"} = {}
      /\ fired \cap {NoEvent, "encode_done"} = {}
      /\ \A c \in Buses : fired \cap {NoEvent, AesEvent[c], AesDoneEvent[c], Aes[c]} = {}
  BY DEF NoEvent, AesEvent, AesDoneEvent, Aes, Buses
<1>4. ASSUME NEW c \in Buses PROVE CryptoOK(c)'
  BY <1>1, <1>2, <1>3, CryptoKept
<1>5. CardOK'
  BY <1>1, <1>2, <1>3, CardKept
<1>6. CountOK'
  <2>1. enc'.count = enc.count
    OBVIOUS
  <2> QED
    BY <1>1, <1>2, <1>3, <2>1, CountKeptByOthers
<1> QED
  BY <1>4, <1>5, <1>6

LEMMA OtherSignals ==
  ASSUME IInv, NEW t \in {"setup", "send_frame", "receive_frame"}, IsReady(t), NEW next, NEW w,
         Waits(t, next, w), NEW fired,
         fired \subseteq {"connection_ready", "receive_event", "packet_received"},
         Suspend(t, next, w, fired), UNCHANGED <<queue, enc, up>>,
         RegistersOK', ContentsOK'
  PROVE  IInv'
<1>1. t \in Threads \ Buses /\ fired \in SUBSET Signals /\ "read_event" \notin fired
      /\ t \notin {"send_packet", "read_packet", "read_file", "decrypt_packet"}
  BY DEF Threads, Sender, Receiver, Buses, Signals
<1>2. /\ ControlOK' /\ queue' \in [Buses -> Seq(Entries)] /\ (\A c \in Buses : QueueOK(c)')
      /\ Settled' /\ (CardFirst => CardFirst')
  <2>1. queue' = queue
    OBVIOUS
  <2> QED
    BY <1>1, <2>1, Signalled
<1>3. (\A c \in Buses : CryptoOK(c)') /\ CardOK' /\ CountOK'
  <2>1. /\ fired \subseteq {"bus2", "connection_ready", "receive_event", "packet_received"}
        /\ enc' = enc /\ up' = up
    OBVIOUS
  <2> QED
    BY <1>2, <2>1, OtherThreads
<1> QED
  BY <1>2, <1>3 DEF IInv, DataOK

LEMMA ReadPacketSteps ==
  ASSUME IInv, NEW next, NEW w, IsReady("read_packet"),
         NEW fired, fired \subseteq {"bus1", "send_event"},
         Suspend("read_packet", next, w, fired), enc' = enc, up' = up,
         \/ next = "descriptor" /\ w = On("read_event")
         \/ /\ pc["read_packet"] = "descriptor" /\ next = "read"
            /\ wait["send_packet"] # On("send_packet") => CardFirst'
  PROVE  (\A c \in Buses : CryptoOK(c)') /\ CardOK' /\ CountOK'
<1>1. ControlOK /\ (\A c \in Buses : CryptoOK(c)) /\ CardOK /\ CountOK
  BY DEF IInv
<1>2. /\ pc'["read_packet"] = next /\ wait'["read_packet"] = w
      /\ pc'["send_packet"] = pc["send_packet"] /\ wait'["send_packet"] = wait["send_packet"]
  <2>1. "read_packet" \in Threads /\ "send_packet" \in Threads \ {"read_packet"}
    BY DEF Threads, Sender
  <2>2. wait["send_packet"].event \notin fired
    BY <1>1, Heard DEF NoEvent
  <2> QED
    BY <1>1, <2>1, <2>2, Suspended DEF Others
<1>3. ASSUME NEW c \in Buses PROVE CryptoOK(c)'
  <2>1. "read_packet" \in Threads \ {Aes[c], Processor[c]}
    BY DEF Threads, Sender, Receiver, Aes, Processor, Buses
  <2>2. fired \cap {NoEvent, AesEvent[c], AesDoneEvent[c], Aes[c]} = {}
    BY DEF NoEvent, AesEvent, AesDoneEvent, Aes, Buses
  <2> QED
    BY <1>1, <2>1, <2>2, CryptoKept
<1>4. CountOK'
  <2>1. "read_packet" \in Threads \ {"send_packet", "read_file"} /\ enc'.count = enc.count
    BY DEF Threads, Sender
  <2>2. fired \cap {NoEvent, "encode_done"} = {}
    BY DEF NoEvent
  <2> QED
    BY <1>1, <2>1, <2>2, CountKeptByOthers
<1>5. CardOK'
  <2>1. CASE next = "descriptor" /\ w = On("read_event")
    BY <1>2, <2>1 DEF CardOK, CardIdle
  <2>2. CASE /\ pc["read_packet"] = "descriptor" /\ next = "read"
             /\ wait["send_packet"] # On("send_packet") => CardFirst'
    <3>1. Ready # On("read_event") /\ Ready # On("send_packet")
          /\ On("encode_done") # On("send_packet")
      BY DEF On, Ready, NoEvent
    <3>2. \/ Resumes("send_packet", "idle")
          \/ pc["send_packet"] = "encode_done" /\ wait["send_packet"] = On("encode_done")
      BY <1>1, <2>2, <3>1 DEF CardOK, CardIdle, IsReady
    <3>3. CardFirst'
      BY <2>2, <3>1, <3>2 DEF Resumes, IsReady
    <3> QED
      BY <1>2, <2>2, <3>2, <3>3 DEF CardOK, Resumes, IsReady
  <2> QED
    BY <2>1, <2>2
<1> QED
  BY <1>3, <1>4, <1>5

LEMMA NetworkStep ==
  ASSUME IInv, NetworkInterfaceCards
  PROVE  IInv'
<1>1. /\ RegistersOK /\ ContentsOK /\ network_frame \in Content /\ network_frame.len \in Nat
      /\ nic.mem_address \in Blocks /\ nic.packet_length \in Nat /\ nic.packet_data \in Content
  BY Registers DEF IInv, DataOK
<1>2. /\ \A e : {e} \subseteq {e}
      /\ \A t \in {"setup", "send_frame", "receive_frame", "read_packet"} :
           \A seg : Resumes(t, seg) => IsReady(t)
  BY DEF Resumes
<1>3. CASE SetupTcpConnection
  <2>1. Waits("setup", "handshake", For(SetupTime))
    <3>1. For(SetupTime) \in Pauses
      BY DEF For, Pauses, SetupTime
    <3> QED
      BY <3>1 DEF Waits, SetupWaits, Buses
  <2>2. RegistersOK' /\ ContentsOK'
    BY <1>1, <1>3 DEF SetupTcpConnection, RegistersOK, ContentsOK
  <2> QED
    BY <1>2, <1>3, <2>1, <2>2, OtherSignals DEF SetupTcpConnection
<1>4. CASE ConnectionReady
  <2>1. Waits("setup", "conn", On("conn"))
    BY DEF Waits, SetupWaits, Buses
  <2>2. RegistersOK' /\ ContentsOK'
    BY <1>1, <1>4 DEF ConnectionReady, RegistersOK, ContentsOK
  <2> QED
    BY <1>2, <1>4, <2>1, <2>2, OtherSignals DEF ConnectionReady
<1>5. CASE ReadPacket
  <2> DEFINE r == Read("mem", nic.mem_address, nic.packet_length)
  <2>1. r \in Requests /\ r.slave = "mem"
    BY <1>1, RequestsMade, Contents DEF Read
  <2>2. /\ Resumes("read_packet", "descriptor") /\ Transfer("read_packet", "bus1", r, "read", {})
        /\ UNCHANGED <<result, mem, enc, up, crypto, nic, network_frame, mem_num>>
    BY <1>5 DEF ReadPacket
  <2> HIDE DEF r
  <2>3. /\ Waits("read_packet", "read", On("read_packet")) /\ "bus1" \in Buses
        /\ "read_packet" \in Users["bus1"]
        /\ MayAsk("bus1", "read_packet", "read", r)
    BY <2>1 DEF Waits, ReadPacketWaits, Buses, MayAsk, Users
  <2>4. /\ ControlOK' /\ queue' \in [Buses -> Seq(Entries)] /\ (\A c \in Buses : QueueOK(c)')
        /\ Settled' /\ (wait["send_packet"] # On("send_packet") => CardFirst')
        /\ Suspend("read_packet", "read", On("read_packet"), {"bus1"})
    BY <1>2, <2>1, <2>2, <2>3, Called
  <2>5. (\A c \in Buses : CryptoOK(c)') /\ CardOK' /\ CountOK'
    <3>1. {"bus1"} \subseteq {"bus1", "send_event"} /\ pc["read_packet"] = "descriptor"
          /\ enc' = enc /\ up' = up /\ IsReady("read_packet")
      BY <2>2 DEF Resumes
    <3> QED
      BY <2>4, <3>1, ReadPacketSteps
  <2> QED
    BY <1>1, <2>2, <2>4, <2>5 DEF IInv, DataOK, RegistersOK, ContentsOK
<1>6. CASE PacketRead
  <2>1. /\ IsReady("read_packet") /\ nic' = [nic EXCEPT !.packet_data = result["read_packet"]]
        /\ Suspend("read_packet", "descriptor", On("read_event"), {"send_event"})
        /\ UNCHANGED <<queue, result, mem, enc, up, crypto, network_frame, mem_num>>
    BY <1>6 DEF PacketRead, Resumes
  <2>2. /\ Waits("read_packet", "descriptor", On("read_event"))
        /\ On("read_event") # Ready /\ "read_packet" \in Threads \ Buses
        /\ {"send_event"} \in SUBSET Signals /\ "read_event" \notin {"send_event"}
    BY DEF Waits, ReadPacketWaits, On, Ready, Threads, Sender, Buses, Signals, NoEvent
  <2>3. /\ ControlOK' /\ queue' \in [Buses -> Seq(Entries)] /\ (\A c \in Buses : QueueOK(c)')
        /\ Settled'
    BY <2>1, <2>2, Signalled
  <2>4. (\A c \in Buses : CryptoOK(c)') /\ CardOK' /\ CountOK'
    <3>1. {"send_event"} \subseteq {"bus1", "send_event"} /\ enc' = enc /\ up' = up
      BY <2>1
    <3> QED
      BY <2>1, <3>1, ReadPacketSteps
  <2>5. nic' \in [mem_address : Blocks, packet_length : Nat, packet_data : Content]
    <3>1. result["read_packet"] \in Content
      BY <1>1 DEF ContentsOK, Sender
    <3> QED
      BY <1>1, <2>1, <3>1 DEF RegistersOK
  <2> QED
    BY <1>1, <2>1, <2>3, <2>4, <2>5 DEF IInv, DataOK, RegistersOK, ContentsOK
<1>7. CASE SendFrame
  <2>1. Waits("send_frame", "transmitted", For(TransmitTime(nic.packet_length)))
    <3>1. For(TransmitTime(nic.packet_length)) \in Pauses
      BY <1>1, Durations DEF For, Pauses
    <3> QED
      BY <3>1 DEF Waits, SendFrameWaits, Buses
  <2>2. Prefix(nic.packet_data, nic.packet_length) \in Content
    BY <1>1, Contents
  <2>3. RegistersOK' /\ ContentsOK'
    BY <1>1, <1>7, <2>2 DEF SendFrame, RegistersOK, ContentsOK
  <2> QED
    BY <1>2, <1>7, <2>1, <2>3, OtherSignals DEF SendFrame
<1>8. CASE FrameSent
  <2>1. Waits("send_frame", "packet", On("send_event"))
    BY DEF Waits, SendFrameWaits, Buses
  <2>2. RegistersOK' /\ ContentsOK'
    BY <1>1, <1>8 DEF FrameSent, RegistersOK, ContentsOK
  <2> QED
    BY <1>2, <1>8, <2>1, <2>2, OtherSignals DEF FrameSent
<1>9. CASE ReceiveFrame
  <2> DEFINE r == Write("mem", mem_num["receive_frame"], network_frame.len, network_frame)
  <2>1. r \in Requests /\ r.slave = "mem"
    <3>1. mem_num["receive_frame"] \in Blocks
      BY <1>1, BlockNumbers DEF RegistersOK
    <3> QED
      BY <1>1, <3>1, RequestsMade DEF Write
  <2>2. /\ Resumes("receive_frame", "frame")
        /\ Transfer("receive_frame", "bus2", r, "written", {})
        /\ UNCHANGED <<result, mem, enc, up, crypto, nic, network_frame, mem_num>>
    BY <1>9 DEF ReceiveFrame
  <2> HIDE DEF r
  <2>3. /\ Waits("receive_frame", "written", On("receive_frame")) /\ "bus2" \in Buses
        /\ "receive_frame" \in Users["bus2"]
        /\ MayAsk("bus2", "receive_frame", "written", r)
    BY <2>1 DEF Waits, ReceiveFrameWaits, Buses, MayAsk, Users
  <2>4. /\ ControlOK' /\ queue' \in [Buses -> Seq(Entries)] /\ (\A c \in Buses : QueueOK(c)')
        /\ Settled' /\ (CardFirst => CardFirst')
        /\ Suspend("receive_frame", "written", On("receive_frame"), {"bus2"})
    BY <1>2, <2>1, <2>2, <2>3, Called
  <2>5. (\A c \in Buses : CryptoOK(c)') /\ CardOK' /\ CountOK'
    <3>1. {"bus2"} \subseteq {"bus2", "connection_ready", "receive_event", "packet_received"}
          /\ enc' = enc /\ up' = up
      BY <2>2
    <3> QED
      BY <2>4, <3>1, OtherThreads
  <2> QED
    BY <1>1, <2>2, <2>4, <2>5 DEF IInv, DataOK, RegistersOK, ContentsOK
<1>10. CASE FrameReceived
  <2>1. Waits("receive_frame", "frame", On("receive_event"))
    BY DEF Waits, ReceiveFrameWaits, Buses
  <2>2. mem_num' \in [{"receive_frame", "decrypt_packet"} -> {0, 1}]
    <3>1. mem_num' = [mem_num EXCEPT !["receive_frame"] = 1 - mem_num["receive_frame"]]
          /\ 1 - mem_num["receive_frame"] \in {0, 1}
      BY <1>1, <1>10 DEF FrameReceived, RegistersOK
    <3> QED
      BY <1>1, <3>1 DEF RegistersOK
  <2>3. RegistersOK' /\ ContentsOK'
    BY <1>1, <1>10, <2>2 DEF FrameReceived, RegistersOK, ContentsOK
  <2> QED
    BY <1>2, <1>10, <2>1, <2>3, OtherSignals DEF FrameReceived
<1> QED
  BY <1>3, <1>4, <1>5, <1>6, <1>7, <1>8, <1>9, <1>10 DEF NetworkInterfaceCards


-----------------------------------------------------------------------------
(* The receiver's processor. *)

LEMMA DecryptPacketSteps ==
  ASSUME IInv, NEW seg, Resumes("decrypt_packet", seg), NEW next, NEW w,
         NEW fired, fired \subseteq {"bus2"}, Suspend("decrypt_packet", next, w, fired),
         seg = "decrypting" => next = "decrypted" /\ w = On("decrypt_done"),
         CardFirst => CardFirst', enc' = enc, up' = up
  PROVE  (\A c \in Buses : CryptoOK(c)') /\ CardOK' /\ CountOK'
<1>1. ControlOK /\ (\A c \in Buses : CryptoOK(c)) /\ CardOK /\ CountOK
  BY DEF IInv
<1>2. /\ pc'["decrypt_packet"] = next /\ wait'["decrypt_packet"] = w
      /\ pc["decrypt_packet"] = seg /\ wait["decrypt_packet"] = Ready
      /\ pc'["aesDecrypt"] = pc["aesDecrypt"] /\ wait'["aesDecrypt"] = wait["aesDecrypt"]
  <2>1. "decrypt_packet" \in Threads /\ "aesDecrypt" \in Threads \ {"decrypt_packet"}
    BY DEF Threads, Receiver
  <2>2. wait["aesDecrypt"].event \notin fired
    BY <1>1, Heard DEF NoEvent
  <2>3. pc["decrypt_packet"] = seg /\ wait["decrypt_packet"] = Ready
    BY DEF Resumes, IsReady
  <2> QED
    BY <1>1, <2>1, <2>2, <2>3, Suspended DEF Others
<1>3. CryptoOK("bus2")'
  <2>1. CryptoOK("bus2") /\ Ready # On("decrypt_done")
    BY <1>1 DEF Buses, On, Ready, NoEvent
  <2> QED
    BY <1>2, <2>1 DEF CryptoOK, CryptoIdle, Resumes, IsReady, Aes, Processor,
       Commands, Awaits, AesEvent, AesDoneEvent
<1>4. CryptoOK("bus1")'
  <2>1. "bus1" \in Buses /\ "decrypt_packet" \in Threads \ {Aes["bus1"], Processor["bus1"]}
    BY DEF Threads, Sender, Receiver, Aes, Processor, Buses
  <2>2. fired \cap {NoEvent, AesEvent["bus1"], AesDoneEvent["bus1"], Aes["bus1"]} = {}
    BY DEF NoEvent, AesEvent, AesDoneEvent, Aes
  <2> QED
    BY <1>1, <2>1, <2>2, CryptoKept
<1>5. CardOK' /\ CountOK'
  <2>1. /\ "decrypt_packet" \in Threads \ {"read_packet", "send_packet", "read_file"}
        /\ "decrypt_packet" \in Threads \ {"send_packet", "read_file"}
        /\ enc'.count = enc.count
    BY DEF Threads, Receiver
  <2>2. /\ fired \cap {NoEvent, "read_event", "read_packet", "send_packet", "read_file",
                       "encode_done"} = {}
        /\ fired \cap {NoEvent, "encode_done"} = {}
    BY DEF NoEvent
  <2>3. CardOK'
    BY <1>1, <2>1, <2>2, CardKept
  <2>4. CountOK'
    BY <1>1, <2>1, <2>2, CountKeptByOthers
  <2> QED
    BY <2>3, <2>4
<1> QED
  BY <1>3, <1>4, <1>5 DEF Buses

LEMMA DecryptPacketCalls ==
  ASSUME IInv, NEW seg, Resumes("decrypt_packet", seg), NEW next, NEW r \in Requests,
         MayAsk("bus2", "decrypt_packet", next, r),
         Transfer("decrypt_packet", "bus2", r, next, {}),
         seg # "decrypting", next \in {"length", "decrypting", "envelope", "written"},
         UNCHANGED <<result, mem, enc, up, crypto, nic, network_frame>>,
         mem_num' \in [{"receive_frame", "decrypt_packet"} -> {0, 1}]
  PROVE  IInv'
<1>1. "bus2" \in Buses /\ "decrypt_packet" \in Users["bus2"] /\ IsReady("decrypt_packet")
  BY DEF Buses, Users, Resumes
<1>2. Waits("decrypt_packet", next, On("decrypt_packet"))
  BY DEF Waits, DecryptPacketWaits, Buses
<1>3. /\ ControlOK' /\ queue' \in [Buses -> Seq(Entries)] /\ (\A c \in Buses : QueueOK(c)')
      /\ Settled' /\ (CardFirst => CardFirst')
      /\ Suspend("decrypt_packet", next, On("decrypt_packet"), {"bus2"})
  BY <1>1, <1>2, Called
<1>4. (\A c \in Buses : CryptoOK(c)') /\ CardOK' /\ CountOK'
  <2>1. {"bus2"} \subseteq {"bus2"} /\ enc' = enc /\ up' = up
    OBVIOUS
  <2> QED
    BY <1>3, <2>1, DecryptPacketSteps
<1> QED
  BY <1>3, <1>4 DEF IInv, DataOK, RegistersOK, ContentsOK

LEMMA DecryptPacketAwaits ==
  ASSUME IInv, NEW seg, Resumes("decrypt_packet", seg), NEW next, NEW w,
         \/ <<seg, next, w>> \in {<<"decrypting", "decrypted", On("decrypt_done")>>,
                                 <<"decrypted", "packet", On("packet_received")>>,
                                 <<"written", "packet", On("packet_received")>>}
         \/ <<seg, next>> = <<"envelope", "decrypted">> /\ w \in Pauses,
         Suspend("decrypt_packet", next, w, {}),
         UNCHANGED <<queue, result, mem, enc, up, crypto, nic, network_frame, mem_num>>
  PROVE  IInv'
<1>1. "decrypt_packet" \in Threads \ Buses /\ IsReady("decrypt_packet")
  BY DEF Buses, Threads, Receiver, Resumes
<1>2. Waits("decrypt_packet", next, w) /\ (w # Ready \/ next = "decrypted")
  <2>1. DecryptPacketWaits(next, w)
    BY DEF DecryptPacketWaits
  <2>2. w # Ready \/ next = "decrypted"
    BY DEF On, Ready, NoEvent
  <2> QED
    BY <2>1, <2>2 DEF Waits, Buses
<1>3. /\ ControlOK' /\ queue' \in [Buses -> Seq(Entries)] /\ (\A c \in Buses : QueueOK(c)')
      /\ Settled' /\ (CardFirst => CardFirst')
  <2>1. {} \in SUBSET Signals /\ "read_event" \notin {}
    OBVIOUS
  <2> QED
    BY <1>1, <1>2, <2>1, Signalled
<1>4. (\A c \in Buses : CryptoOK(c)') /\ CardOK' /\ CountOK'
  <2>1. {} \subseteq {"bus2"} /\ enc' = enc /\ up' = up
        /\ (seg = "decrypting" => next = "decrypted" /\ w = On("decrypt_done"))
    OBVIOUS
  <2> QED
    BY <1>3, <2>1, DecryptPacketSteps
<1> QED
  BY <1>3, <1>4 DEF IInv, DataOK, RegistersOK, ContentsOK

LEMMA Microprocessor2Step ==
  ASSUME IInv, Microprocessor2
  PROVE  IInv'
<1>1. /\ mem_num \in [{"receive_frame", "decrypt_packet"} -> {0, 1}]
      /\ result["decrypt_packet"].len \in Nat
      /\ "decrypt_packet" \in Users["bus2"]
  BY Registers DEF IInv, DataOK, RegistersOK, Receiver, Users
<1>2. CASE GetPacketLength
  <2>1. /\ Read("nic", 0, 1) \in Requests
        /\ MayAsk("bus2", "decrypt_packet", "length", Read("nic", 0, 1))
    BY <1>1, RequestsMade DEF MayAsk, Read
  <2> QED
    BY <1>1, <1>2, <2>1, DecryptPacketCalls DEF GetPacketLength
<1>3. CASE StartDecryption
  <2> DEFINE n == mem_num["decrypt_packet"]
             d == [src |-> ReceivedBlock(n), dst |-> ClearBlock(n), encrypt |-> 0,
                   length |-> result["decrypt_packet"].len]
             r == Write("crypto", 0, 4, d)
  <2>1. r \in Requests
    BY <1>1, BlockNumbers, RequestsMade
  <2>2. MayAsk("bus2", "decrypt_packet", "decrypting", r)
    BY <1>1 DEF MayAsk, Write, Processor, Commands
  <2>3. /\ Resumes("decrypt_packet", "length")
        /\ Transfer("decrypt_packet", "bus2", r, "decrypting", {})
        /\ mem_num' = [mem_num EXCEPT !["decrypt_packet"] = 1 - n]
        /\ UNCHANGED <<result, mem, enc, up, crypto, nic, network_frame>>
    BY <1>3 DEF StartDecryption
  <2>4. mem_num' \in [{"receive_frame", "decrypt_packet"} -> {0, 1}]
    <3>1. 1 - n \in {0, 1}
      BY <1>1
    <3> QED
      BY <1>1, <2>3, <3>1
  <2> HIDE DEF r
  <2> QED
    BY <2>1, <2>2, <2>3, <2>4, DecryptPacketCalls
<1>4. CASE AwaitDecryption
  BY <1>4, DecryptPacketAwaits DEF AwaitDecryption
<1>5. CASE PacketDecrypted
  BY <1>5, DecryptPacketAwaits DEF PacketDecrypted
<1> QED
  BY <1>2, <1>3, <1>4, <1>5 DEF Microprocessor2


-----------------------------------------------------------------------------
(* The buses. *)

\* A bus is done with a transaction: the rest of the invariant.
LEMMA Finished ==
  ASSUME IInv, NEW b \in Buses, Resumes(b, "moving"),
         NEW fired, fired \subseteq {"read", "conn", "read_event", "encrypt_event", "decrypt_event"},
         Finish(b, fired),
         "read_event" \in fired =>
           b = "bus1" /\ Head(queue[b]).by = "send_packet" /\ pc["send_packet"] = "idle",
         \A c \in Buses : AesEvent[c] \in fired =>
           c = b /\ Head(queue[b]).by = Processor[b] /\ pc[Processor[b]] = Commands[b],
         enc'.count = enc.count, up' = up, RegistersOK', ContentsOK'
  PROVE  IInv'
<1> DEFINE by == Head(queue[b]).by
<1>1. /\ ControlOK /\ queue \in [Buses -> Seq(Entries)] /\ Settled /\ CardOK /\ CountOK
      /\ \A c \in Buses : QueueOK(c) /\ CryptoOK(c)
  BY DEF IInv, DataOK
<1>2. fired \in SUBSET Signals
  BY DEF Signals
<1>3. /\ ControlOK' /\ queue' \in [Buses -> Seq(Entries)] /\ queue[b] # <<>>
      /\ \A c \in Buses : QueueOK(c)'
      /\ \A c \in Buses \ {b} : queue'[c] = queue[c]
      /\ Len(queue[b]) \in Nat /\ Len(queue'[b]) = Len(queue[b]) - 1
      /\ \A i \in 1..Len(queue'[b]) : queue'[b][i] = queue[b][i + 1]
      /\ ~Resumes(b, "moving")'
      /\ pc'[by] = pc[by] /\ wait'[by] = Ready
      /\ \A p \in Threads \ {b, by} :
           /\ pc'[p] = pc[p]
           /\ wait'[p] = IF wait[p].event \in fired THEN Ready ELSE wait[p]
  BY <1>1, <1>2, QueueFinished
<1>4. /\ by = queue[b][1].by /\ 1 \in 1..Len(queue[b]) /\ by \in Users[b] /\ by \in Threads \ {b}
      /\ wait[by] = On(by)
  BY <1>1, <1>3, HeadEntry
<1> HIDE DEF by
<1>5. \A p \in Threads \ {b} : /\ pc'[p] = pc[p]
                               /\ p # by /\ wait[p].event \notin fired => wait'[p] = wait[p]
  BY <1>3
<1>6. /\ {"send_packet", "read_packet", "read_file", "decrypt_packet", "aesEncrypt", "aesDecrypt"}
           \subseteq Threads \ {b}
      /\ \A c \in Buses : Aes[c] \in Threads \ {b} /\ Processor[c] \in Threads \ {b}
  BY DEF Threads, Sender, Receiver, Aes, Processor, Buses
<1>7. /\ wait["send_packet"].event \notin fired /\ wait["decrypt_packet"].event \notin fired
      /\ pc["read_file"] = "written" => wait["read_file"].event \notin fired
      /\ wait["read_packet"].event \in fired =>
           "read_event" \in fired /\ wait["read_packet"].event = "read_event"
      /\ \A c \in Buses : Processor[c] \in {"send_packet", "decrypt_packet"}
  <2>1. wait["send_packet"].event \notin fired /\ wait["decrypt_packet"].event \notin fired
    BY <1>1, Heard DEF NoEvent
  <2>2. pc["read_file"] = "written" => wait["read_file"].event \notin fired
    BY <1>1, Waiting DEF NoEvent, ReadFileWaits, On, Ready
  <2>3. wait["read_packet"].event \in fired =>
          "read_event" \in fired /\ wait["read_packet"].event = "read_event"
    BY <1>1, Heard DEF NoEvent
  <2> QED
    BY <2>1, <2>2, <2>3, CryptoNames
<1>8. Settled'
  <2>1. ASSUME NEW c \in Buses, Resumes(c, "moving")'
        PROVE  c # b /\ Resumes(c, "moving") /\ by \notin Users[c]
    <3>1. c # b
      BY <1>3, <2>1
    <3>2. by \notin Users[c] /\ c # by /\ c \in Threads \ {b}
      BY <1>4, <3>1, Names
    <3>3. pc[c] = "moving"
      BY <1>5, <2>1, <3>2 DEF Resumes
    <3>4. wait[c].event = NoEvent
      BY <1>1, <3>2, <3>3 DEF ControlOK, Waits, BusWaits, Pauses
    <3>5. wait'[c] = wait[c]
      BY <1>5, <3>2, <3>4 DEF NoEvent
    <3> QED
      BY <2>1, <3>1, <3>2, <3>3, <3>5 DEF Resumes, IsReady
  <2>2. ASSUME Resumes("bus1", "moving")'
        PROVE  /\ ~Resumes("send_packet", "encrypting")'
               /\ ~IsReady("read_packet")'
               /\ ~Resumes("read_file", "written")'
    <3>1. b # "bus1" /\ Resumes("bus1", "moving")
          /\ by \notin {"send_packet", "read_packet", "read_file"}
      BY <2>1, <2>2 DEF Users, Buses
    <3>2. /\ ~Resumes("send_packet", "encrypting") /\ ~IsReady("read_packet")
          /\ ~Resumes("read_file", "written")
      BY <1>1, <3>1 DEF Settled
    <3>3. wait["read_packet"].event \notin fired
      BY <1>7, <3>1
    <3>4. /\ pc'["send_packet"] = pc["send_packet"] /\ wait'["send_packet"] = wait["send_packet"]
          /\ wait'["read_packet"] = wait["read_packet"]
          /\ pc'["read_file"] = pc["read_file"]
          /\ pc["read_file"] = "written" => wait'["read_file"] = wait["read_file"]
      BY <1>5, <1>6, <1>7, <3>1, <3>3
    <3> QED
      BY <3>2, <3>4 DEF Resumes, IsReady
  <2>3. ASSUME Resumes("bus2", "moving")' PROVE ~Resumes("decrypt_packet", "decrypting")'
    <3>1. Resumes("bus2", "moving") /\ by # "decrypt_packet"
      BY <2>1, <2>3 DEF Users, Buses
    <3>2. ~Resumes("decrypt_packet", "decrypting")
      BY <1>1, <3>1 DEF Settled
    <3>3. pc'["decrypt_packet"] = pc["decrypt_packet"]
          /\ wait'["decrypt_packet"] = wait["decrypt_packet"]
      BY <1>5, <1>6, <1>7, <3>1
    <3> QED
      BY <3>2, <3>3 DEF Resumes, IsReady
  <2> QED
    BY <2>2, <2>3 DEF Settled
<1>9. ASSUME NEW c \in Buses PROVE CryptoOK(c)'
  <2>1. CryptoOK(c) /\ pc'[Aes[c]] = pc[Aes[c]] /\ pc'[Processor[c]] = pc[Processor[c]]
    BY <1>1, <1>5, <1>6
  <2>2. wait[Processor[c]].event \notin fired
    BY <1>7
  <2>3. \A e : On(e).event = e
    BY DEF On
  <2>4. CASE CryptoIdle(c)
    <3>1. by # Aes[c]
      <4>1. wait[Aes[c]] = On(AesEvent[c]) /\ AesEvent[c] # Aes[c]
        BY <2>4, CryptoNames, Names DEF CryptoIdle
      <4> QED
        BY <1>4, <2>3, <4>1
    <3>2. CASE AesEvent[c] \notin fired
      <4>1. wait'[Aes[c]] = wait[Aes[c]]
        BY <1>5, <1>6, <2>3, <2>4, <3>1, <3>2 DEF CryptoIdle
      <4> QED
        BY <2>1, <2>4, <4>1 DEF CryptoOK, CryptoIdle
    <3>3. CASE AesEvent[c] \in fired
      <4>1. c = b /\ by = Processor[c] /\ pc[Processor[c]] = Commands[c]
        BY <3>3 DEF by
      <4>2. Resumes(Processor[c], Commands[c])'
        BY <1>3, <4>1 DEF Resumes, IsReady
      <4>3. wait'[Aes[c]] = Ready
        BY <1>3, <1>4, <1>6, <2>3, <2>4, <3>1, <3>3, <4>1 DEF CryptoIdle
      <4> QED
        BY <2>1, <2>4, <4>2, <4>3 DEF CryptoOK, CryptoIdle, Resumes, IsReady
    <3> QED
      BY <3>2, <3>3
  <2>5. CASE pc[Processor[c]] = Awaits[c] /\ wait[Processor[c]] = On(AesDoneEvent[c])
    <3>1. by # Processor[c]
      <4>1. AesDoneEvent[c] # Processor[c]
        BY CryptoNames, Names
      <4> QED
        BY <1>4, <2>3, <2>5, <4>1
    <3>2. wait'[Processor[c]] = wait[Processor[c]]
      BY <1>5, <1>6, <2>2, <3>1
    <3> QED
      BY <2>1, <2>5, <3>2 DEF CryptoOK
  <2>6. CASE /\ Resumes(Processor[c], Commands[c])
             /\ \/ Resumes(Aes[c], "command")
                \/ pc[Aes[c]] = "read" /\ wait[Aes[c]] = On(Aes[c])
    <3>1. b # c
      BY <1>1, <2>6 DEF Settled, Processor, Commands, Buses
    <3>2. by \notin {Processor[c], Aes[c]}
      <4>1. Processor[c] \in Users[c] /\ Aes[c] \in Users[c]
        BY DEF Processor, Aes, Users, Buses
      <4> QED
        BY <1>4, <3>1, <4>1, Names
    <3>3. wait[Aes[c]].event \notin fired
      <4>1. wait[Aes[c]].event \in {NoEvent, Aes[c]}
        BY <2>3, <2>6 DEF Resumes, IsReady, Ready
      <4> QED
        BY <1>2, <4>1, CryptoNames, Names
    <3>4. wait'[Aes[c]] = wait[Aes[c]] /\ wait'[Processor[c]] = wait[Processor[c]]
      BY <1>5, <1>6, <2>2, <3>2, <3>3
    <3> QED
      BY <2>1, <2>6, <3>4 DEF CryptoOK, Resumes, IsReady
  <2> QED
    BY <2>1, <2>4, <2>5, <2>6 DEF CryptoOK
<1>10. CountOK'
  <2>1. pc["send_packet"] = "encode_done" => by # "send_packet"
    BY <1>1, <1>4, Waiting DEF SendPacketWaits, Ready, On, NoEvent
  <2>2. /\ pc'["send_packet"] = pc["send_packet"] /\ pc'["read_file"] = pc["read_file"]
        /\ pc["send_packet"] = "encode_done" => wait'["send_packet"] = wait["send_packet"]
    BY <1>5, <1>6, <1>7, <2>1
  <2> QED
    BY <1>1, <2>2, CountKept
<1>11. CardOK'
  <2>1. /\ pc'["read_packet"] = pc["read_packet"] /\ pc'["send_packet"] = pc["send_packet"]
        /\ pc'["read_file"] = pc["read_file"]
    BY <1>5, <1>6
  <2>2. /\ Ready # On("read_event") /\ Ready # On("read_packet") /\ Ready # On("send_packet")
        /\ On("send_packet") # On("encode_done") /\ On("read_packet") # On("read_event")
        /\ On("read_event").event = "read_event"
    BY DEF Ready, On, NoEvent
  <2>3. CASE CardIdle /\ "read_event" \notin fired
    <3>1. by # "read_packet"
      BY <1>4, <2>2, <2>3 DEF CardIdle
    <3>2. wait'["read_packet"] = wait["read_packet"]
      BY <1>5, <1>6, <1>7, <2>3, <3>1
    <3> QED
      BY <2>1, <2>3, <3>2 DEF CardOK, CardIdle
  <2>4. CASE CardIdle /\ "read_event" \in fired
    <3>1. b = "bus1" /\ by = "send_packet" /\ pc["send_packet"] = "idle"
      BY <2>4 DEF by
    <3>2. wait'["read_packet"] = Ready
      BY <1>3, <1>6, <2>2, <2>4, <3>1 DEF CardIdle
    <3>3. wait'["send_packet"] = Ready
      BY <1>3, <3>1
    <3>4. ~Resumes("read_file", "written")
      BY <1>1, <3>1 DEF Settled
    <3>5. ~Resumes("read_file", "written")'
      <4>1. pc["read_file"] = "written" => wait'["read_file"] = wait["read_file"]
        BY <1>5, <1>6, <1>7, <3>1
      <4> QED
        BY <2>1, <3>4, <4>1 DEF Resumes, IsReady
    <3> QED
      BY <2>1, <2>4, <3>1, <3>2, <3>3, <3>5 DEF CardOK, CardIdle, Resumes, IsReady
  <2>5. CASE b = "bus2" /\ ~CardIdle
    <3>1. by \notin {"send_packet", "read_packet", "read_file"} /\ "read_event" \notin fired
      BY <1>4, <2>5 DEF Users
    <3>2. /\ wait'["read_packet"] = wait["read_packet"]
          /\ wait'["send_packet"] = wait["send_packet"]
          /\ pc["read_file"] = "written" => wait'["read_file"] = wait["read_file"]
      BY <1>5, <1>6, <1>7, <3>1
    <3>3. queue'["bus1"] = queue["bus1"]
      BY <1>3, <2>5 DEF Buses
    <3>4. CardFirst => CardFirst'
      BY <3>3 DEF CardFirst
    <3> QED
      BY <1>1, <2>1, <2>5, <3>2, <3>4 DEF CardOK, CardIdle, Resumes, IsReady
  <2>6. CASE b = "bus1" /\ ~CardIdle
    <3>1. ~IsReady("read_packet")
      BY <1>1, <2>6 DEF Settled
    <3>2. pc["read_packet"] = "read" /\ wait["read_packet"] = On("read_packet") /\ CardFirst
          /\ \/ Resumes("send_packet", "idle")
             \/ pc["send_packet"] = "encode_done"
             \/ pc["send_packet"] = "length" /\ wait["send_packet"] = On("send_packet")
      <4>1. pc["read_packet"] = "read"
        BY <1>1, <2>6, <3>1 DEF CardOK, Resumes
      <4>2. wait["read_packet"] = On("read_packet")
        BY <1>1, <3>1, <4>1, Waiting DEF ReadPacketWaits, IsReady
      <4> QED
        BY <1>1, <2>6, <3>1, <4>1, <4>2 DEF CardOK, Resumes
    <3> DEFINE n == Len(queue["bus1"])
    <3>3. PICK i \in 1..n :
            /\ queue["bus1"][i].by = "read_packet"
            /\ \A j \in 1..n : queue["bus1"][j].by = "send_packet" => i < j
      BY <3>2 DEF CardFirst
    <3>4. n \in Nat /\ 1 \in 1..n /\ by = queue["bus1"][1].by
      BY <1>3, <1>4, <2>6
    <3>5. by # "send_packet"
      BY <3>3, <3>4
    <3>6. wait'["send_packet"] = wait["send_packet"]
      BY <1>5, <1>6, <1>7, <3>5
    <3>7. CASE by = "read_packet"
      <4>1. wait'["read_packet"] = Ready
        BY <1>3, <3>7
      <4> QED
        BY <2>1, <2>2, <3>2, <3>6, <4>1 DEF CardOK, Resumes, IsReady
    <3>8. CASE by # "read_packet"
      <4>1. i # 1 /\ i - 1 \in 1..(n - 1) /\ (i - 1) + 1 = i
        BY <3>3, <3>4, <3>8
      <4>2. Len(queue'["bus1"]) = n - 1 /\ \A k \in 1..(n - 1) : queue'["bus1"][k] = queue["bus1"][k + 1]
        BY <1>3, <2>6
      <4>3. CardFirst'
        <5>1. i - 1 \in 1..Len(queue'["bus1"]) /\ queue'["bus1"][i - 1].by = "read_packet"
          BY <3>3, <4>1, <4>2
        <5>2. ASSUME NEW j \in 1..Len(queue'["bus1"]), queue'["bus1"][j].by = "send_packet"
              PROVE  i - 1 < j
          <6>1. j + 1 \in 1..n /\ queue["bus1"][j + 1].by = "send_packet"
            BY <3>4, <4>2, <5>2
          <6>2. i < j + 1
            BY <3>3, <6>1
          <6> QED
            BY <3>3, <3>4, <6>2
        <5> QED
          BY <5>1, <5>2 DEF CardFirst
      <4>4. wait'["read_packet"] = wait["read_packet"]
        <5>1. wait["read_packet"].event \notin fired
          BY <1>2, <3>2, Names, <1>6 DEF On
        <5> QED
          BY <1>5, <1>6, <3>8, <5>1
      <4> QED
        BY <2>1, <2>2, <3>2, <3>6, <4>3, <4>4 DEF CardOK, Resumes, IsReady
    <3> QED
      BY <3>7, <3>8
  <2> QED
    BY <2>3, <2>4, <2>5, <2>6 DEF Buses
<1> QED
  BY <1>3, <1>8, <1>9, <1>10, <1>11 DEF IInv, DataOK


LEMMA BeginStep ==
  ASSUME IInv, NEW b \in Buses, Begin(b)
  PROVE  IInv'
<1>1. /\ ControlOK /\ queue \in [Buses -> Seq(Entries)] /\ Settled /\ CardOK /\ CountOK
      /\ \A c \in Buses : QueueOK(c) /\ CryptoOK(c)
  BY DEF IInv, DataOK
<1>2. /\ ControlOK' /\ QueueOK(b)' /\ ~Resumes(b, "moving")'
      /\ \A p \in Threads \ {b} : pc'[p] = pc[p] /\ wait'[p] = wait[p]
  BY <1>1, QueueBegun
<1>3. UNCHANGED <<queue, result, mem, enc, up, crypto, nic, network_frame, mem_num>>
  BY DEF Begin
<1>4. ASSUME NEW c \in Buses \ {b} PROVE QueueOK(c)' /\ pc'[c] = pc[c] /\ wait'[c] = wait[c]
  <2>1. /\ b \in Threads \ {c} /\ IsReady(b)
        /\ {} \cap (Users[c] \cup {c}) = {} /\ queue'[c] = queue[c]
    BY <1>3, Names DEF Begin, Resumes
  <2>2. QueueOK(c)'
    BY <1>1, <2>1, QueueKept DEF Begin
  <2> QED
    BY <1>2, <2>2, Names
<1>5. \A p \in {"send_packet", "read_packet", "read_file", "decrypt_packet",
                "aesEncrypt", "aesDecrypt"} : pc'[p] = pc[p] /\ wait'[p] = wait[p]
  <2>1. {"send_packet", "read_packet", "read_file", "decrypt_packet", "aesEncrypt", "aesDecrypt"}
          \subseteq Threads \ {b}
    BY DEF Threads, Sender, Receiver, Buses
  <2> QED
    BY <1>2, <2>1
<1>6. Settled'
  <2>1. \A c \in Buses : Resumes(c, "moving")' => Resumes(c, "moving")
    BY <1>2, <1>4 DEF Resumes, IsReady
  <2>2. "bus1" \in Buses /\ "bus2" \in Buses
    BY DEF Buses
  <2> QED
    BY <1>1, <1>5, <2>1, <2>2 DEF Settled, Resumes, IsReady
<1>7. \A c \in Buses : CryptoOK(c)'
  <2>1. \A c \in Buses : \A p \in {Aes[c], Processor[c]} : pc'[p] = pc[p] /\ wait'[p] = wait[p]
    BY <1>5 DEF Aes, Processor, Buses
  <2> QED
    BY <1>1, <2>1 DEF CryptoOK, CryptoIdle, Resumes, IsReady
<1>8. CardOK'
  <2>1. CardFirst => CardFirst'
    BY <1>3 DEF CardFirst
  <2> QED
    BY <1>1, <1>5, <2>1 DEF CardOK, CardIdle, Resumes, IsReady
<1>9. CountOK'
  BY <1>1, <1>3, <1>5, CountKept
<1>10. DataOK'
  BY <1>3 DEF IInv, DataOK, RegistersOK, ContentsOK
<1> QED
  BY <1>2, <1>4, <1>6, <1>7, <1>8, <1>9, <1>10 DEF IInv

LEMMA BusStep ==
  ASSUME IInv, NEW b \in Buses, Bus(b)
  PROVE  IInv'
<1> DEFINE e == Head(queue[b])
           r == e.req
<1>1. RegistersOK /\ ContentsOK /\ \A c \in Buses : AesEvent[c] \notin {"read", "conn", "read_event"}
  BY CryptoNames DEF IInv, DataOK, Buses, AesEvent
<1>2. ASSUME Resumes(b, "moving")
      PROVE  /\ r \in Requests /\ e.by \in Sender \cup Receiver
             /\ MayAsk(b, e.by, pc[e.by], r)
  <2>1. QueueOK(b) /\ queue \in [Buses -> Seq(Entries)]
    BY DEF IInv, DataOK
  <2>2. queue[b] # <<>>
    BY <1>2, <2>1 DEF QueueOK, Resumes
  <2>3. e \in Entries /\ MayAsk(b, e.by, pc[e.by], e.req)
    BY <2>1, <2>2, HeadEntry
  <2> QED
    BY <2>3 DEF Entries
<1>3. ASSUME NEW fired, fired \subseteq {"read", "conn"}, Resumes(b, "moving"), Finish(b, fired),
             enc'.count = enc.count, up' = up, RegistersOK', ContentsOK'
      PROVE  IInv'
  <2>1. /\ fired \subseteq {"read", "conn", "read_event", "encrypt_event", "decrypt_event"}
        /\ "read_event" \notin fired /\ \A c \in Buses : AesEvent[c] \notin fired
    BY <1>1, <1>3
  <2> QED
    BY <1>3, <2>1, Finished
<1>4. ASSUME NEW c \in Content, Resumes(b, "moving"), Returns(b, c)
      PROVE  result' \in [Sender \cup Receiver -> Content]
  BY <1>1, <1>2, <1>4 DEF Returns, ContentsOK
<1>5. CASE MemDataTransfer(b)
  <2>1. Resumes(b, "moving") /\ r.slave = "mem" /\ Finish(b, {})
        /\ UNCHANGED <<enc, up, crypto, nic, network_frame, mem_num>>
    BY <1>5 DEF MemDataTransfer, Moved
  <2>2. r.addr \in Blocks /\ r.len \in Nat /\ r.data \in Content
    BY <1>2, <2>1, RequestFields
  <2>3. result' \in [Sender \cup Receiver -> Content] /\ mem' \in [Buses -> [Blocks -> Content]]
    <3>1. CASE Returns(b, Prefix(mem[b][r.addr], r.len)) /\ UNCHANGED mem
      <4>1. Prefix(mem[b][r.addr], r.len) \in Content
        BY <1>1, <2>2, Contents DEF ContentsOK
      <4> QED
        BY <1>1, <1>4, <2>1, <3>1, <4>1 DEF ContentsOK
    <3>2. CASE mem' = [mem EXCEPT ![b][r.addr] = r.data] /\ UNCHANGED result
      <4> HIDE DEF r
      <4> QED
        BY <1>1, <2>2, <3>2 DEF ContentsOK
    <3> QED
      BY <1>5, <3>1, <3>2 DEF MemDataTransfer
  <2>4. RegistersOK' /\ ContentsOK'
    BY <1>1, <2>1, <2>3 DEF RegistersOK, ContentsOK
  <2> QED
    BY <1>3, <2>1, <2>4
<1>6. CASE Encode(b)
  <2>1. Resumes(b, "moving") /\ r.slave = "encoder"
        /\ UNCHANGED <<mem, up, crypto, nic, network_frame, mem_num>>
    BY <1>6 DEF Encode, Moved
  <2>2. CASE /\ ~r.rdnwr /\ enc' = [enc EXCEPT !.mem_address_dst = r.data]
             /\ Finish(b, {"read"}) /\ UNCHANGED result
    <3>1. r.data \in [{0, 1} -> Blocks]
      BY <1>2, <2>1, <2>2, RequestFields
    <3> HIDE DEF r
    <3>2. RegistersOK' /\ ContentsOK' /\ enc'.count = enc.count
      BY <1>1, <2>1, <2>2, <3>1 DEF RegistersOK, ContentsOK
    <3> QED
      BY <1>3, <2>1, <2>2, <3>2
  <2>3. CASE /\ Returns(b, [Blank EXCEPT !.len = enc.frame_length])
             /\ Finish(b, {}) /\ UNCHANGED enc
    <3>1. [Blank EXCEPT !.len = enc.frame_length] \in Content
      BY Contents, Registers DEF IInv
    <3>2. result' \in [Sender \cup Receiver -> Content]
      BY <1>4, <2>1, <2>3, <3>1
    <3>3. RegistersOK' /\ ContentsOK'
      BY <1>1, <2>1, <2>3, <3>2 DEF RegistersOK, ContentsOK
    <3> QED
      BY <1>3, <2>1, <2>3, <3>3
  <2> QED
    BY <1>6, <2>2, <2>3 DEF Encode
<1>7. CASE Cryptography(b)
  <2> DEFINE d == r.data
             event == IF d.encrypt = 1 THEN "encrypt_event" ELSE "decrypt_event"
  <2>1. /\ Resumes(b, "moving") /\ r.slave = "crypto" /\ Finish(b, {event})
        /\ crypto' = [crypto EXCEPT ![b] = [@ EXCEPT !.mem_address_src = d.src,
                                                   !.mem_address_dst = d.dst,
                                                   !.length = d.length]]
        /\ UNCHANGED <<result, mem, enc, up, nic, network_frame, mem_num>>
    BY <1>7 DEF Cryptography, Moved
  <2>2. d.src \in Blocks /\ d.dst \in Blocks /\ d.length \in Nat
    BY <1>2, <2>1, RequestFields
  <2>3. /\ e.by = Processor[b] /\ pc[e.by] = Commands[b]
        /\ d.encrypt = (IF b = "bus1" THEN 1 ELSE 0)
    BY <1>2, <2>1 DEF MayAsk
  <2>4. event = AesEvent[b]
    BY <2>3 DEF AesEvent, Buses
  <2> HIDE DEF d, event
  <2>5. RegistersOK' /\ ContentsOK'
    <3>1. crypto' \in [Buses -> [mem_address_src : Blocks, mem_address_dst : Blocks,
                                 length : Nat, bufferInt : Content]]
      <4> DEFINE unit == [crypto[b] EXCEPT !.mem_address_src = d.src, !.mem_address_dst = d.dst,
                                           !.length = d.length]
      <4>1. crypto \in [Buses -> [mem_address_src : Blocks, mem_address_dst : Blocks,
                                  length : Nat, bufferInt : Content]]
        BY <1>1 DEF RegistersOK
      <4>2. unit \in [mem_address_src : Blocks, mem_address_dst : Blocks,
                      length : Nat, bufferInt : Content]
        BY <2>2, <4>1
      <4>3. crypto' = [crypto EXCEPT ![b] = unit]
        BY <2>1
      <4> HIDE DEF unit
      <4> QED
        BY <4>1, <4>2, <4>3
    <3> QED
      BY <1>1, <2>1, <3>1 DEF RegistersOK, ContentsOK
  <2>6. /\ {event} \subseteq {"read", "conn", "read_event", "encrypt_event", "decrypt_event"}
        /\ "read_event" \notin {event}
        /\ \A c \in Buses : AesEvent[c] \in {event} => c = b
    BY <2>4 DEF AesEvent, Buses
  <2> QED
    BY <2>1, <2>3, <2>5, <2>6, Finished
<1>8. CASE ConnectionRequest(b)
  <2>1. /\ Resumes(b, "moving") /\ Finish(b, {"conn"})
        /\ UNCHANGED <<result, mem, enc, up, crypto, nic, network_frame, mem_num>>
    BY <1>8 DEF ConnectionRequest, Moved
  <2>2. RegistersOK' /\ ContentsOK'
    BY <1>1, <2>1 DEF RegistersOK, ContentsOK
  <2> QED
    BY <1>3, <2>1, <2>2
<1>9. CASE BufferDescriptor(b)
  <2>1. /\ Resumes(b, "moving") /\ r.slave = "nic" /\ r.len = 2 /\ Finish(b, {"read_event"})
        /\ nic' = [nic EXCEPT !.mem_address = r.data.addr, !.packet_length = r.data.length]
        /\ UNCHANGED <<result, mem, enc, up, crypto, network_frame, mem_num>>
    BY <1>9 DEF BufferDescriptor, Moved
  <2>2. r.data.addr \in Blocks /\ r.data.length \in Nat
    BY <1>2, <2>1, RequestFields
  <2>3. b = "bus1" /\ e.by = "send_packet" /\ pc["send_packet"] = "idle"
    BY <1>2, <2>1 DEF MayAsk
  <2> HIDE DEF r
  <2>4. RegistersOK' /\ ContentsOK'
    BY <1>1, <2>1, <2>2 DEF RegistersOK, ContentsOK
  <2>5. /\ {"read_event"} \subseteq {"read", "conn", "read_event", "encrypt_event", "decrypt_event"}
        /\ \A c \in Buses : AesEvent[c] \notin {"read_event"}
    BY <1>1
  <2> QED
    BY <2>1, <2>3, <2>4, <2>5, Finished
<1>10. CASE DataLength(b)
  <2>1. /\ Resumes(b, "moving") /\ Returns(b, [Blank EXCEPT !.len = network_frame.len])
        /\ Finish(b, {}) /\ UNCHANGED <<mem, enc, up, crypto, nic, network_frame, mem_num>>
    BY <1>10 DEF DataLength, Moved
  <2>2. [Blank EXCEPT !.len = network_frame.len] \in Content
    BY Contents, Registers DEF IInv
  <2>3. result' \in [Sender \cup Receiver -> Content]
    BY <1>4, <2>1, <2>2
  <2>4. RegistersOK' /\ ContentsOK'
    BY <1>1, <2>1, <2>3 DEF RegistersOK, ContentsOK
  <2> QED
    BY <1>3, <2>1, <2>4
<1> QED
  BY <1>5, <1>6, <1>7, <1>8, <1>9, <1>10, BeginStep DEF Bus, WaitForBufferDescriptor

-----------------------------------------------------------------------------
(* Time. *)

LEMMA TickStep ==
  ASSUME IInv, Tick
  PROVE  IInv'
<1>1. /\ ControlOK /\ Settled /\ CardOK /\ CountOK
      /\ queue \in [Buses -> Seq(Entries)] /\ RegistersOK /\ ContentsOK
      /\ \A c \in Buses : QueueOK(c) /\ CryptoOK(c)
  BY DEF IInv, DataOK
<1>2. PICK t \in Threads :
        /\ Elapse(wait[t].time)
        /\ enc' = [enc EXCEPT !.due = IF @ > wait[t].time THEN @ - wait[t].time ELSE 0]
  BY DEF Tick
<1>3. UNCHANGED <<queue, result, mem, up, crypto, nic, network_frame, mem_num>>
  BY DEF Tick
<1>4. wait[t].time \in Nat
  BY <1>1, TimeWaits DEF ControlOK
<1>5. /\ ControlOK' /\ pc' = pc
      /\ \A p \in Threads : ~IsReady(p)
      /\ \A p \in Threads : wait[p].time = 0 => wait'[p] = wait[p]
      /\ \A p \in Threads : wait[p].time > 0 => wait'[p] \in Pauses
  BY <1>1, <1>2, <1>4, Elapsed
<1>6. RegistersOK' /\ ContentsOK' /\ enc'.count = enc.count
  <2> DEFINE d == IF enc.due > wait[t].time THEN enc.due - wait[t].time ELSE 0
  <2>1. enc' = [enc EXCEPT !.due = d] /\ FramePeriod \in Nat
    BY <1>2, EncoderTimes
  <2>2. d \in 0..FramePeriod
    <3>1. enc.due \in 0..FramePeriod
      BY <1>1 DEF RegistersOK
    <3> QED
      BY <1>4, <2>1, <3>1
  <2> HIDE DEF d
  <2> QED
    BY <1>1, <1>3, <2>1, <2>2 DEF RegistersOK, ContentsOK
<1>7. \A x : On(x).time = 0 /\ Ready.time = 0
  BY DEF On, Ready
<1>8. /\ \A p \in {"send_packet", "read_packet", "decrypt_packet"} :
           ~IsReady(p) /\ (wait[p].time = 0 => wait'[p] = wait[p])
      /\ wait'["read_packet"] = wait["read_packet"]
      /\ pc["send_packet"] # "encrypted" => wait'["send_packet"] = wait["send_packet"]
      /\ pc["decrypt_packet"] # "decrypted" => wait'["decrypt_packet"] = wait["decrypt_packet"]
      /\ pc["read_file"] = "written" => wait'["read_file"] = wait["read_file"]
      /\ ~IsReady("read_file")
      /\ \A c \in Buses :
           pc[Aes[c]] \in {"command", "read"} => wait'[Aes[c]] = wait[Aes[c]] /\ ~IsReady(Aes[c])
  <2>1. /\ {"send_packet", "read_packet", "decrypt_packet", "read_file"} \subseteq Threads
        /\ \A c \in Buses : Aes[c] \in Threads
    BY CryptoNames DEF Threads, Sender, Receiver
  <2>2. /\ wait["read_packet"].time = 0
        /\ pc["send_packet"] # "encrypted" => wait["send_packet"].time = 0
        /\ pc["decrypt_packet"] # "decrypted" => wait["decrypt_packet"].time = 0
        /\ pc["read_file"] = "written" => wait["read_file"].time = 0
    BY <1>1, <1>7, Waiting DEF SendPacketWaits, ReadPacketWaits, DecryptPacketWaits, ReadFileWaits
  <2>3. \A c \in Buses : pc[Aes[c]] \in {"command", "read"} => wait[Aes[c]].time = 0
    BY <1>1, <1>7, Waiting DEF AesWaits, Aes, Buses
  <2> QED
    BY <1>5, <2>1, <2>2, <2>3
<1>9. Settled'
  BY <1>5, <1>8 DEF Settled, Resumes, IsReady
<1>10. ASSUME NEW c \in Buses PROVE QueueOK(c)'
  <2>1. ASSUME NEW i \in 1..Len(queue[c])
        PROVE  LET x == queue[c][i]
               IN  wait'[x.by] = On(x.by) /\ MayAsk(c, x.by, pc'[x.by], x.req)
    <3>1. wait[queue[c][i].by] = On(queue[c][i].by)
          /\ MayAsk(c, queue[c][i].by, pc[queue[c][i].by], queue[c][i].req)
      BY <1>1 DEF QueueOK
    <3>2. queue[c][i].by \in Threads
      BY <3>1, Names DEF MayAsk
    <3> QED
      BY <1>5, <1>7, <3>1, <3>2
  <2>2. pc'[c] = "moving" \/ IsReady(c)' => queue[c] # <<>>
    <3>1. c \in Threads /\ BusWaits(c, pc[c], wait[c])
      BY <1>1, Names DEF ControlOK, Waits
    <3>2. pc[c] # "moving" => wait'[c] = wait[c]
      BY <1>5, <1>7, <3>1 DEF BusWaits
    <3> QED
      BY <1>1, <1>5, <3>1, <3>2 DEF QueueOK, IsReady
  <2> QED
    BY <1>1, <1>3, <2>1, <2>2 DEF QueueOK
<1>11. ASSUME NEW c \in Buses PROVE CryptoOK(c)'
  <2>1. /\ CryptoOK(c) /\ ~IsReady(Processor[c])
        /\ wait[Processor[c]].time = 0 => wait'[Processor[c]] = wait[Processor[c]]
    BY <1>1, <1>8, CryptoNames
  <2> QED
    BY <1>5, <1>7, <1>8, <2>1 DEF CryptoOK, CryptoIdle, Resumes, IsReady
<1>12. CardOK'
  <2>1. CardFirst => CardFirst'
    BY <1>3 DEF CardFirst
  <2> QED
    BY <1>1, <1>5, <1>8, <2>1 DEF CardOK, CardIdle, Resumes, IsReady
<1>13. CountOK'
  BY <1>1, <1>3, <1>5, <1>6, <1>8, CountKept
<1> QED
  BY <1>1, <1>3, <1>5, <1>6, <1>9, <1>10, <1>11, <1>12, <1>13 DEF IInv, DataOK


-----------------------------------------------------------------------------
(* The invariant and what follows from it. *)

LEMMA Initial ==
  ASSUME Init
  PROVE  IInv
<1>1. /\ DOMAIN pc = Threads /\ DOMAIN wait = Threads
      /\ \A b \in Buses : pc[b] = "front" /\ wait[b] = On(b) /\ queue[b] = <<>>
      /\ pc["send_packet"] = "start" /\ wait["send_packet"] = Ready
      /\ pc["read_file"] = "start" /\ wait["read_file"] = On("read")
      /\ pc["aesEncrypt"] = "command" /\ wait["aesEncrypt"] = On("encrypt_event")
      /\ pc["aesDecrypt"] = "command" /\ wait["aesDecrypt"] = On("decrypt_event")
      /\ pc["read_packet"] = "descriptor" /\ wait["read_packet"] = On("read_event")
      /\ pc["send_frame"] = "packet" /\ wait["send_frame"] = On("send_event")
      /\ pc["setup"] = "conn" /\ wait["setup"] = On("conn")
      /\ pc["receive_frame"] = "frame" /\ wait["receive_frame"] = On("receive_event")
      /\ pc["decrypt_packet"] = "packet" /\ wait["decrypt_packet"] = On("packet_received")
  BY DEF Init, Threads, Buses, Sender, Receiver
<1>2. /\ \A e : e # NoEvent => On(e) # Ready
      /\ \A b \in Buses : b # NoEvent
  BY DEF On, Ready, Buses, NoEvent
<1>3. ControlOK
  <2>1. /\ \A b \in Buses : BusWaits(b, pc[b], wait[b])
        /\ SendPacketWaits(pc["send_packet"], wait["send_packet"])
        /\ ReadFileWaits(pc["read_file"], wait["read_file"])
    BY <1>1 DEF BusWaits, SendPacketWaits, ReadFileWaits
  <2>2. /\ AesWaits("bus1", pc["aesEncrypt"], wait["aesEncrypt"])
        /\ AesWaits("bus2", pc["aesDecrypt"], wait["aesDecrypt"])
        /\ ReadPacketWaits(pc["read_packet"], wait["read_packet"])
        /\ SendFrameWaits(pc["send_frame"], wait["send_frame"])
    BY <1>1 DEF AesWaits, AesEvent, ReadPacketWaits, SendFrameWaits
  <2>3. /\ SetupWaits(pc["setup"], wait["setup"])
        /\ ReceiveFrameWaits(pc["receive_frame"], wait["receive_frame"])
        /\ DecryptPacketWaits(pc["decrypt_packet"], wait["decrypt_packet"])
    BY <1>1 DEF SetupWaits, ReceiveFrameWaits, DecryptPacketWaits
  <2> QED
    BY <1>1, <2>1, <2>2, <2>3 DEF ControlOK, Waits
<1>4. DataOK
  <2>1. queue \in [Buses -> Seq(Entries)]
    <3>1. <<>> \in Seq(Entries)
      BY EmptySeq
    <3> QED
      BY <3>1 DEF Init
  <2>2. enc \in [mem_address_dst : [{0, 1} -> Blocks], buffer_ptr : Nat, frame_length : Nat,
                 adr_num : {0, 1}, count : 0..Frames, due : 0..FramePeriod]
    <3>1. 0 \in 0..Frames /\ 0 \in 0..FramePeriod /\ 0 \in Blocks
      BY FramesAssumption, EncoderTimes, BlockNumbers DEF FramesAssumption
    <3> QED
      BY <3>1 DEF Init
  <2>3. /\ crypto \in [Buses -> [mem_address_src : Blocks, mem_address_dst : Blocks,
                                 length : Nat, bufferInt : Content]]
        /\ nic \in [mem_address : Blocks, packet_length : Nat, packet_data : Content]
        /\ mem_num \in [{"receive_frame", "decrypt_packet"} -> {0, 1}]
        /\ up \in [frame_num : Nat, frameLength : Nat]
    BY Contents, BlockNumbers DEF Init
  <2>4. ContentsOK
    BY Contents DEF Init, ContentsOK
  <2> QED
    BY <2>1, <2>2, <2>3, <2>4 DEF DataOK, RegistersOK
<1>5. CountOK
  <2>1. enc.count = 0 /\ up.frame_num = 0
    BY DEF Init
  <2> QED
    BY <1>1, <2>1 DEF CountOK, Taken, Reported, Resumes
<1>6. \A b \in Buses : QueueOK(b)
  <2>1. Len(<<>>) = 0
    BY EmptySeq
  <2> QED
    BY <1>1, <1>2, <2>1 DEF QueueOK, IsReady
<1>7. \A b \in Buses : CryptoOK(b)
  BY <1>1 DEF CryptoOK, CryptoIdle, Aes, AesEvent, Buses
<1>8. Settled
  BY <1>1 DEF Settled, Resumes, Buses
<1>9. CardOK
  BY <1>1 DEF CardOK, CardIdle
<1> QED
  BY <1>3, <1>4, <1>5, <1>6, <1>7, <1>8, <1>9 DEF IInv

LEMMA Stuttering ==
  ASSUME IInv, UNCHANGED vars
  PROVE  IInv'
<1>1. /\ pc' = pc /\ wait' = wait /\ queue' = queue /\ enc' = enc /\ up' = up
      /\ UNCHANGED <<result, mem, crypto, nic, network_frame, mem_num>>
  BY DEF vars
<1>2. ControlOK' /\ DataOK'
  BY <1>1 DEF IInv, ControlOK, DataOK, RegistersOK, ContentsOK
<1>3. CountOK'
  BY <1>1, CountKept DEF IInv
<1>4. \A b \in Buses : QueueOK(b)' /\ CryptoOK(b)'
  BY <1>1 DEF IInv, QueueOK, CryptoOK, CryptoIdle, Resumes, IsReady
<1>5. Settled'
  BY <1>1 DEF IInv, Settled, Resumes, IsReady
<1>6. CardOK'
  BY <1>1 DEF IInv, CardOK, CardIdle, CardFirst, Resumes, IsReady
<1> QED
  BY <1>2, <1>3, <1>4, <1>5, <1>6 DEF IInv

LEMMA Inductive ==
  ASSUME IInv, [Next]_vars
  PROVE  IInv'
BY BusStep, CryptoStep, EncoderStep, MicroprocessorStep, NetworkStep, Microprocessor2Step,
   TickStep, Stuttering DEF Next

\* The invariant holds whatever lengths the frames have.
THEOREM PipelineInvariant == Spec => []IInv
<1>1. Init => IInv
  BY Initial
<1>2. IInv /\ [Next]_vars => IInv'
  BY Inductive
<1> QED
  BY <1>1, <1>2, PTL DEF Spec

\* A queue is no longer than there are threads, because each is in it once.
LEMMA QueueLength ==
  ASSUME queue \in [Buses -> Seq(Entries)], NEW b \in Buses, QueueOK(b)
  PROVE  Len(queue[b]) \in 0..Cardinality(Threads)
<1> DEFINE n == Len(queue[b])
           f == [i \in 1..n |-> queue[b][i].by]
<1>1. n \in Nat
  BY LenProperties
<1>2. IsFiniteSet(Threads)
  <2> DEFINE S == {"send_packet"} \cup {"read_file"} \cup {"aesEncrypt"}
  <2>1. IsFiniteSet({"bus1"} \cup {"bus2"})
    BY FS_Singleton, FS_AddElement
  <2>2. IsFiniteSet(S \cup {"read_packet"} \cup {"send_frame"} \cup {"setup"})
    <3>1. IsFiniteSet(S)
      BY FS_Singleton, FS_AddElement
    <3> HIDE DEF S
    <3> QED
      BY <3>1, FS_AddElement
  <2>3. IsFiniteSet({"receive_frame"} \cup {"decrypt_packet"} \cup {"aesDecrypt"})
    BY FS_Singleton, FS_AddElement
  <2>4. /\ Buses = {"bus1"} \cup {"bus2"}
        /\ Sender = S \cup {"read_packet"} \cup {"send_frame"} \cup {"setup"}
        /\ Receiver = {"receive_frame"} \cup {"decrypt_packet"} \cup {"aesDecrypt"}
    BY DEF Buses, Sender, Receiver
  <2> QED
    BY <2>1, <2>2, <2>3, <2>4, FS_Union DEF Threads
<1>3. f \in Injection(1..n, Threads)
  <2>1. \A i \in 1..n : queue[b][i].by \in Threads
    BY Names DEF QueueOK, MayAsk
  <2>2. \A i, j \in 1..n : queue[b][i].by = queue[b][j].by => i = j
    BY DEF QueueOK
  <2>3. f \in [1..n -> Threads]
    BY <2>1
  <2>4. IsInjective(f)
    BY <2>2 DEF IsInjective
  <2> QED
    BY <2>3, <2>4 DEF Injection
<1>4. Cardinality(1..n) <= Cardinality(Threads)
  BY <1>2, <1>3, FS_Injection
<1>5. Cardinality(1..n) = n
  BY <1>1, FS_Interval
<1>6. Cardinality(Threads) \in Nat
  BY <1>2, FS_CardinalityType
<1> QED
  BY <1>1, <1>4, <1>5, <1>6

LEMMA InvariantTypes ==
  ASSUME IInv
  PROVE  TypeOK
<1>1. /\ DOMAIN pc = Threads /\ DOMAIN wait = Threads
      /\ \A t \in Threads : wait[t].time \in Nat
  BY TimeWaits DEF IInv, ControlOK
<1>2. \A b \in Buses : Len(queue[b]) \in 0..Cardinality(Threads)
  BY QueueLength DEF IInv, DataOK
<1>3. up \in [frame_num : 0..Frames, frameLength : Nat]
  <2>1. /\ up \in [frame_num : Nat, frameLength : Nat] /\ enc.count \in 0..Frames
        /\ Frames \in Nat /\ up.frame_num \in Nat
    BY Registers, FramesAssumption DEF IInv, DataOK, RegistersOK, FramesAssumption
  <2>2. Taken >= up.frame_num
    BY <2>1 DEF Taken
  <2>3. Reported <= Frames
    BY <2>1 DEF IInv, CountOK, Reported
  <2>4. Taken <= Reported /\ Taken \in Nat /\ Reported \in Nat
    BY <2>1 DEF IInv, CountOK, Taken, Reported
  <2>5. up.frame_num \in 0..Frames
    BY <2>1, <2>2, <2>3, <2>4
  <2> QED
    BY <2>1, <2>5
<1> QED
  BY <1>1, <1>2, <1>3 DEF IInv, DataOK, RegistersOK, ContentsOK, TypeOK

\* The variables have their types: no queue grows beyond the number of threads
\* and no frame is sent that was not encoded.
THEOREM PipelineTypeCorrect == Spec => []TypeOK
<1>1. IInv => TypeOK
  BY InvariantTypes
<1> QED
  BY <1>1, PipelineInvariant, PTL

LEMMA Listening ==
  ASSUME IInv
  PROVE  /\ \A b \in Buses : /\ Cryptography(b) => wait[Aes[b]].event = AesEvent[b]
                             /\ BufferDescriptor(b) => wait["read_packet"].event = "read_event"
         /\ AesDone("bus1") => wait["send_packet"].event = "encrypt_done"
         /\ AesDone("bus2") => wait["decrypt_packet"].event = "decrypt_done"
<1>1. /\ \A e : On(e).event = e
      /\ \A b \in Buses : /\ On(AesEvent[b]) # Ready /\ On(Aes[b]) # Ready
                          /\ On(Processor[b]) # Ready
                          /\ On(Processor[b]) # On(AesDoneEvent[b])
      /\ On("send_packet") # Ready
  <2>1. \A e : On(e).event = e /\ (e # NoEvent => On(e) # Ready)
    BY DEF On, Ready
  <2>2. \A b \in Buses : AesEvent[b] # NoEvent /\ Aes[b] # NoEvent /\ Processor[b] # NoEvent
                         /\ Processor[b] # AesDoneEvent[b]
    BY CryptoNames, Names
  <2> QED
    BY <2>1, <2>2 DEF NoEvent
<1>2. ASSUME NEW b \in Buses, Resumes(b, "moving")
      PROVE  LET e == Head(queue[b])
             IN  wait[e.by] = On(e.by) /\ MayAsk(b, e.by, pc[e.by], e.req)
  <2>1. QueueOK(b) /\ queue \in [Buses -> Seq(Entries)]
    BY DEF IInv, DataOK
  <2>2. queue[b] # <<>>
    BY <1>2, <2>1 DEF QueueOK, Resumes
  <2> QED
    BY <2>1, <2>2, HeadEntry
<1>3. ASSUME NEW b \in Buses, Cryptography(b) PROVE wait[Aes[b]].event = AesEvent[b]
  <2>1. /\ pc[Processor[b]] = Commands[b] /\ wait[Processor[b]] = On(Processor[b])
    BY <1>2, <1>3 DEF Cryptography, Moved, MayAsk
  <2>2. CryptoIdle(b)
    <3>1. CryptoOK(b)
      BY DEF IInv
    <3> QED
      BY <1>1, <2>1, <3>1 DEF CryptoOK, Resumes, IsReady
  <2> QED
    BY <1>1, <2>2 DEF CryptoIdle
<1>4. ASSUME NEW b \in Buses, BufferDescriptor(b)
      PROVE  wait["read_packet"].event = "read_event"
  <2>1. pc["send_packet"] = "idle" /\ wait["send_packet"] = On("send_packet")
    BY <1>2, <1>4 DEF BufferDescriptor, Moved, MayAsk
  <2>2. CardIdle
    BY <1>1, <2>1 DEF IInv, CardOK, Resumes, IsReady
  <2> QED
    BY <1>1, <2>2 DEF CardIdle
<1>5. ASSUME NEW b \in Buses, AesDone(b) PROVE wait[Processor[b]].event = AesDoneEvent[b]
  <2>1. pc[Aes[b]] = "written" /\ CryptoOK(b)
    BY <1>5 DEF AesDone, Resumes, IInv
  <2> QED
    BY <1>1, <2>1 DEF CryptoOK, CryptoIdle, Resumes
<1> QED
  BY <1>3, <1>4, <1>5 DEF Processor, AesDoneEvent, Buses

\* Whatever the lengths of the frames and however long the buses, the crypto
\* units and the network take, no command is given to a unit that is still at
\* work and no crypto unit is done before its processor awaits it.
THEOREM CommandsAreHeard == Spec => CommandsHeard
<1>1. IInv => /\ \A b \in Buses :
                   /\ Cryptography(b) => wait[Aes[b]].event = AesEvent[b]
                   /\ BufferDescriptor(b) => wait["read_packet"].event = "read_event"
              /\ AesDone("bus1") => wait["send_packet"].event = "encrypt_done"
              /\ AesDone("bus2") => wait["decrypt_packet"].event = "decrypt_done"
  BY Listening
<1> QED
  BY <1>1, PipelineInvariant, PTL DEF CommandsHeard

-----------------------------------------------------------------------------
(* Pace. *)

LEMMA Longest ==
  /\ LongestMove = 3900067
  /\ FramePeriod - EncodeTime = 29500000
  /\ \A n \in Nat : Fits(n) => BusTime(n) <= LongestMove /\ Fits(Length16(n))
  BY DEF LongestMove, BusTime, Cycle, MAX_FRAME_SIZE, FramePeriod, EncodeTime, Fits, Length16,
     Blocks16

\* The longest transactions of all of them take less than is left of the period.
Moves(n) == n * 3900067

LEMMA FewMoves ==
  ASSUME NEW n \in 0..4
  PROVE  Moves(n) \in Nat /\ Moves(n) <= 15600268
<1>1. n = 0 \/ n = 1 \/ n = 2 \/ n = 3 \/ n = 4
  BY SMT
<1> QED
  BY <1>1, SMT DEF Moves

\* Its four masters are at most once each in the queue of the sender's bus.
LEMMA SenderQueue ==
  ASSUME IInv
  PROVE  Len(queue["bus1"]) \in 0..4
<1> DEFINE n == Len(queue["bus1"])
           By(i) == queue["bus1"][i].by
<1>1. "bus1" \in Buses /\ QueueOK("bus1") /\ queue \in [Buses -> Seq(Entries)]
  BY DEF IInv, DataOK, Buses
<1>2. n \in Nat
  BY <1>1, LenProperties
<1>3. \A i \in 1..n : By(i) \in {"send_packet", "read_file", "aesEncrypt", "read_packet"}
  BY <1>1 DEF QueueOK, MayAsk, Users
<1>4. \A i, j \in 1..n : By(i) = By(j) => i = j
  BY <1>1 DEF QueueOK
<1> HIDE DEF n, By
<1>5. ~(n > 4)
  <2> SUFFICES ASSUME n > 4 PROVE FALSE
    OBVIOUS
  <2>1. 1 \in 1..n /\ 2 \in 1..n /\ 3 \in 1..n /\ 4 \in 1..n /\ 5 \in 1..n
    BY <1>2
  <2>2. /\ By(1) # By(2) /\ By(1) # By(3) /\ By(1) # By(4) /\ By(1) # By(5)
        /\ By(2) # By(3) /\ By(2) # By(4) /\ By(2) # By(5)
        /\ By(3) # By(4) /\ By(3) # By(5) /\ By(4) # By(5)
    BY <1>4, <2>1
  <2> QED
    BY <1>3, <2>1, <2>2
<1>6. n \in 0..4
  BY <1>2, <1>5
<1> QED
  BY <1>6 DEF n

\* The sender's bus as the invariant has it.
LEMMA SenderBus ==
  ASSUME IInv
  PROVE  /\ "bus1" \in Buses /\ "bus1" \in Threads /\ "read_file" \in Threads
         /\ queue \in [Buses -> Seq(Entries)] /\ Len(queue["bus1"]) \in 0..4
         /\ queue["bus1"] = <<>> <=> Len(queue["bus1"]) = 0
         /\ wait["bus1"].time \in Nat /\ wait["read_file"].time \in Nat /\ enc.due \in Nat
         /\ wait["bus1"].event \in {NoEvent, "bus1"}
         /\ pc["bus1"] = "moving" => wait["bus1"].event = NoEvent
         /\ pc["read_file"] = "encoded" => wait["read_file"].event = NoEvent
         /\ \A i \in 1..Len(queue["bus1"]) :
              /\ queue["bus1"][i] \in Entries
              /\ queue["bus1"][i].by = "read_file" =>
                   wait["read_file"] = On("read_file") /\ pc["read_file"] = "written"
<1>1. /\ "bus1" \in Buses /\ "bus1" \in Threads /\ "read_file" \in Threads
      /\ queue \in [Buses -> Seq(Entries)] /\ QueueOK("bus1") /\ ControlOK /\ DataOK
  BY DEF IInv, DataOK, Buses, Threads, Sender
<1>2. wait["bus1"].time \in Nat /\ wait["read_file"].time \in Nat /\ enc.due \in Nat
  BY <1>1, TimeWaits, Registers DEF ControlOK
<1>3. /\ wait["bus1"].event \in {NoEvent, "bus1"}
      /\ pc["bus1"] = "moving" => wait["bus1"].event = NoEvent
      /\ pc["read_file"] = "encoded" => wait["read_file"].event = NoEvent
  BY <1>1, Waiting DEF BusWaits, ReadFileWaits, Ready, On, Pauses
<1>4. queue["bus1"] = <<>> <=> Len(queue["bus1"]) = 0
  BY <1>1, EmptySeq
<1>5. ASSUME NEW i \in 1..Len(queue["bus1"])
      PROVE  /\ queue["bus1"][i] \in Entries
             /\ queue["bus1"][i].by = "read_file" =>
                  wait["read_file"] = On("read_file") /\ pc["read_file"] = "written"
  <2>1. queue["bus1"][i] \in Entries
    BY <1>1, ElementOfSeq
  <2>2. queue["bus1"][i].by = "read_file" => wait["read_file"] = On("read_file")
    BY <1>1 DEF QueueOK
  <2>3. wait["read_file"] = On("read_file") => pc["read_file"] = "written"
    BY <1>1, Waiting DEF ReadFileWaits, Ready, On, Pauses, NoEvent
  <2> QED
    BY <2>1, <2>2, <2>3
<1> QED
  BY <1>1, <1>2, <1>3, <1>4, <1>5, SenderQueue

-----------------------------------------------------------------------------
(* Times. *)

\* Neither the sender's bus nor read_file takes part in the step.
Apart ==
  /\ queue'["bus1"] = queue["bus1"] /\ enc'.due = enc.due
  /\ pc'["bus1"] = pc["bus1"] /\ wait'["bus1"] = wait["bus1"]
  /\ pc'["read_file"] = pc["read_file"]
  /\ pc["read_file"] = "encoded" => wait'["read_file"] = wait["read_file"]
  /\ wait'["read_file"] = Ready /\ pc["read_file"] = "written" => wait["read_file"] = Ready

LEMMA ApartKeepsPace ==
  ASSUME IInv, BusOnTime, WriteInTime, Apart
  PROVE  BusOnTime' /\ WriteInTime'
<1>1. BusOnTime'
  BY DEF BusOnTime, Apart, IsReady
<1>2. (pc["read_file"] = "encoded" => enc.due >= FramePeriod - EncodeTime + wait["read_file"].time)'
  BY DEF WriteInTime, Apart
<1>3. EncoderKeepsPace'
  BY DEF WriteInTime, Apart, EncoderKeepsPace, Resumes, IsReady
<1>4. (\A i \in 1..Len(queue["bus1"]) :
         queue["bus1"][i].by = "read_file" => enc.due > ServedIn(i))'
  BY DEF WriteInTime, Apart, ServedIn
<1> QED
  BY <1>1, <1>2, <1>3, <1>4 DEF WriteInTime

\* Another thread suspends itself and asks the sender's bus for nothing.
LEMMA ElsewhereKeepsPace ==
  ASSUME IInv, BusOnTime, WriteInTime, NEW t \in Threads \ {"bus1", "read_file"},
         NEW seg, NEW w, NEW fired, {NoEvent, "bus1", "read_file"} \cap fired = {},
         Suspend(t, seg, w, fired), queue'["bus1"] = queue["bus1"], enc'.due = enc.due
  PROVE  BusOnTime' /\ WriteInTime'
<1>1. /\ wait["bus1"].event \in {NoEvent, "bus1"}
      /\ pc["read_file"] = "encoded" => wait["read_file"].event = NoEvent
      /\ "bus1" \in Threads /\ "read_file" \in Threads /\ ControlOK
  BY SenderBus DEF IInv
<1>2. \A p \in {"bus1", "read_file"} :
        pc'[p] = pc[p] /\ wait'[p] = IF wait[p].event \in fired THEN Ready ELSE wait[p]
  BY <1>1, Suspended DEF Others
<1>3. pc["read_file"] = "written" => wait["read_file"].event \in {NoEvent, "read_file"}
  BY <1>1, Waiting DEF ReadFileWaits, Ready, On, Pauses
<1>4. Apart
  BY <1>1, <1>2, <1>3 DEF Apart
<1> QED
  BY <1>4, ApartKeepsPace

\* Thread t asks the sender's bus for r.
LEMMA CallKeepsPace ==
  ASSUME IInv, IInv', BusOnTime, WriteInTime, NEW t \in Users["bus1"], NEW seg, NEW r,
         Transfer(t, "bus1", r, seg, {}),
         t = "read_file" => enc.due >= FramePeriod - EncodeTime /\ seg # "encoded",
         enc'.due = enc.due
  PROVE  BusOnTime' /\ WriteInTime'
<1> DEFINE n == Len(queue["bus1"])
           e == [by |-> t, req |-> r]
<1>1. /\ "bus1" \in Buses /\ "bus1" \in Threads /\ "read_file" \in Threads /\ t \in Threads
      /\ t # "bus1" /\ ControlOK /\ n \in 0..4 /\ queue \in [Buses -> Seq(Entries)]
      /\ wait["bus1"].time \in Nat /\ enc.due \in Nat
      /\ wait["bus1"].event \in {NoEvent, "bus1"}
      /\ pc["bus1"] = "moving" => wait["bus1"].event = NoEvent
      /\ pc["read_file"] = "encoded" => wait["read_file"].event = NoEvent
      /\ queue' \in [Buses -> Seq(Entries)]
  BY SenderBus, Names DEF IInv, DataOK
<1>2. /\ queue' = [queue EXCEPT !["bus1"] = Append(@, e)]
      /\ Suspend(t, seg, On(t), {} \cup {"bus1"})
  BY DEF Transfer
<1>3. queue'["bus1"] = Append(queue["bus1"], e)
  BY <1>1, <1>2
<1>4. /\ Len(queue'["bus1"]) = n + 1
      /\ \A i \in 1..n : queue'["bus1"][i] = queue["bus1"][i]
      /\ queue'["bus1"][n + 1] = e
  BY <1>1, <1>3
<1>5. /\ pc'[t] = seg /\ wait'[t] = On(t)
      /\ \A p \in Threads \ {t} :
           /\ pc'[p] = pc[p]
           /\ wait'[p] = IF wait[p].event = "bus1" THEN Ready ELSE wait[p]
  BY <1>1, <1>2, Suspended DEF Others
<1>6. /\ pc'["bus1"] = pc["bus1"]
      /\ pc["bus1"] = "moving" => wait'["bus1"] = wait["bus1"]
  BY <1>1, <1>5 DEF NoEvent
<1>7. BusOnTime'
  <2>1. pc["bus1"] # "moving" => wait["bus1"] \in {Ready, On("bus1")}
    BY <1>1, Waiting DEF BusWaits
  <2>2. pc["bus1"] # "moving" => wait'["bus1"] = Ready
    BY <1>1, <1>5, <2>1 DEF On, Ready
  <2> QED
    BY <1>6, <2>2 DEF BusOnTime, IsReady
<1>8. \A i \in 1..n + 1 : ServedIn(i)' = ServedIn(i)
  BY <1>6 DEF ServedIn
<1>9. ASSUME NEW i \in 1..n + 1, queue'["bus1"][i].by = "read_file" PROVE enc.due > ServedIn(i)
  <2>1. CASE i \in 1..n
    BY <1>1, <1>4, <1>9, <2>1 DEF WriteInTime
  <2>2. CASE i = n + 1
    <3>1. t = "read_file" /\ enc.due >= 29500000
      BY <1>4, <1>9, <2>2, Longest, SMT
    <3> DEFINE first == IF pc["bus1"] = "moving" THEN wait["bus1"].time ELSE LongestMove
    <3>2. first \in Nat /\ first <= 3900067 /\ i - 1 = n
      <4>1. i - 1 = n
        BY <1>1, <2>2, SMT
      <4>2. CASE pc["bus1"] = "moving"
        <5>1. wait["bus1"].time <= LongestMove
          BY <4>2 DEF BusOnTime
        <5> QED
          BY <1>1, <4>1, <4>2, <5>1, Longest, SMT
      <4>3. CASE pc["bus1"] # "moving"
        BY <1>1, <4>1, <4>3, Longest, SMT
      <4> QED
        BY <4>2, <4>3
    <3>3. ServedIn(i) = first + Moves(n)
      BY <3>2, Longest, SMT DEF ServedIn, Moves
    <3>4. Moves(n) \in Nat /\ Moves(n) <= 15600268
      <4>1. n \in 0..4
        BY <1>1
      <4> HIDE DEF n
      <4> QED
        BY <4>1, FewMoves, SMT
    <3> DEFINE others == Moves(n)
    <3>5. first \in Nat /\ others \in Nat /\ enc.due \in Nat /\ ServedIn(i) = first + others
      BY <1>1, <3>2, <3>3, <3>4
    <3>6. first <= 3900067 /\ others <= 15600268
      BY <3>2, <3>4
    <3> HIDE DEF first, others
    <3> QED
      BY <3>1, <3>5, <3>6, SMT
  <2> QED
    BY <1>1, <2>1, <2>2
<1>10. (pc["read_file"] = "encoded" => enc.due >= FramePeriod - EncodeTime + wait["read_file"].time)'
  <2>1. CASE t = "read_file"
    BY <1>5, <2>1
  <2>2. CASE t # "read_file"
    <3>1. pc'["read_file"] = pc["read_file"] /\ (pc["read_file"] = "encoded" =>
            wait'["read_file"] = wait["read_file"])
      BY <1>1, <1>5, <2>2 DEF NoEvent
    <3> QED
      BY <3>1 DEF WriteInTime
  <2> QED
    BY <2>1, <2>2
<1>11. EncoderKeepsPace'
  <2>1. CASE t = "read_file"
    <3>1. wait'["read_file"] # Ready
      BY <1>5, <2>1 DEF On, Ready, NoEvent
    <3> QED
      BY <3>1 DEF EncoderKeepsPace, Resumes, IsReady
  <2>2. CASE t # "read_file"
    <3>1. wait["read_file"].event # "bus1"
      BY <1>1, Heard DEF NoEvent
    <3>2. pc'["read_file"] = pc["read_file"] /\ wait'["read_file"] = wait["read_file"]
      BY <1>1, <1>5, <2>2, <3>1
    <3> QED
      BY <3>2 DEF WriteInTime, EncoderKeepsPace, Resumes, IsReady
  <2> QED
    BY <2>1, <2>2
<1> QED
  BY <1>4, <1>7, <1>8, <1>9, <1>10, <1>11 DEF WriteInTime

LEMMA MovesAdd ==
  ASSUME NEW n \in 1..4
  PROVE  /\ Moves(n - 1) \in Nat /\ Moves(n) \in Nat
         /\ Moves(n) = LongestMove + Moves(n - 1)
         /\ Moves(0) = 0
<1>1. n = 1 \/ n = 2 \/ n = 3 \/ n = 4
  BY SMT
<1> QED
  BY <1>1, Longest, SMT DEF Moves

\* The time after which, at the latest, the bus takes up the next transaction.
First == IF pc["bus1"] = "moving" THEN wait["bus1"].time ELSE LongestMove

LEMMA ServedInTime ==
  ASSUME NEW i
  PROVE  ServedIn(i) = First + Moves(i - 1) /\ ServedIn(i)' = First' + Moves(i - 1)
  BY Longest, SMT DEF ServedIn, First, Moves

\* The sender's bus begins with a transaction.
LEMMA BeginKeepsPace ==
  ASSUME IInv, LengthsFit, WriteInTime, Begin("bus1")
  PROVE  BusOnTime' /\ WriteInTime'
<1> DEFINE n == Len(queue["bus1"])
           time == BusTime(Head(queue["bus1"]).req.len)
<1>1. /\ "bus1" \in Buses /\ ControlOK /\ queue \in [Buses -> Seq(Entries)] /\ QueueOK("bus1")
      /\ n \in 0..4 /\ enc.due \in Nat /\ "read_file" \in Threads \ {"bus1"} /\ "bus1" \in Threads
  BY SenderBus DEF IInv, DataOK
<1>2. /\ Resumes("bus1", "front") /\ queue' = queue /\ enc' = enc
      /\ Suspend("bus1", "moving", For(time), {})
  BY DEF Begin
<1>3. /\ pc'["bus1"] = "moving" /\ wait'["bus1"] = For(time)
      /\ \A p \in Threads \ {"bus1"} : pc'[p] = pc[p] /\ wait'[p] = wait[p]
  <2>1. \A p \in Threads \ {"bus1"} : pc'[p] = pc[p] /\ wait'[p] = wait[p]
    BY <1>1, <1>2, QueueBegun
  <2> QED
    BY <1>1, <1>2, <2>1, Suspended
<1>4. queue["bus1"] # <<>>
  BY <1>1, <1>2 DEF QueueOK, Resumes
<1>5. time \in Nat /\ time <= LongestMove
  <2>1. /\ Head(queue["bus1"]) = queue["bus1"][1] /\ 1 \in 1..n
        /\ Head(queue["bus1"]) \in Entries
    BY <1>1, <1>4, HeadEntry
  <2>2. Head(queue["bus1"]).req.len \in Nat /\ Fits(Head(queue["bus1"]).req.len)
    BY <1>1, <2>1, LengthOK DEF LengthsFit, TransfersFit, RequestFits
  <2> QED
    BY <2>2, Longest, Durations
<1>6. First' = time /\ First = LongestMove
  BY <1>2, <1>3 DEF First, Resumes, For
<1>7. BusOnTime'
  BY <1>3, <1>5 DEF BusOnTime, For
<1>8. ASSUME NEW i \in 1..n, queue["bus1"][i].by = "read_file" PROVE enc.due > ServedIn(i)'
  <2>1. enc.due > ServedIn(i)
    BY <1>8 DEF WriteInTime
  <2>2. i - 1 \in 0..4
    <3>1. n \in 0..4
      BY <1>1
    <3> HIDE DEF n
    <3> QED
      BY <3>1
  <2> DEFINE k == Moves(i - 1)
  <2>3. k \in Nat
    BY <2>2, FewMoves
  <2>4. ServedIn(i) = LongestMove + k /\ ServedIn(i)' = time + k
    BY <1>6, ServedInTime
  <2>5. LongestMove \in Nat
    BY Longest, SMT
  <2> HIDE DEF k, time
  <2> QED
    BY <1>1, <1>5, <2>1, <2>3, <2>4, <2>5
<1>9. (pc["read_file"] = "encoded" => enc.due >= FramePeriod - EncodeTime + wait["read_file"].time)'
  BY <1>1, <1>2, <1>3 DEF WriteInTime
<1>10. EncoderKeepsPace'
  BY <1>1, <1>2, <1>3 DEF WriteInTime, EncoderKeepsPace, Resumes, IsReady
<1> QED
  BY <1>2, <1>7, <1>8, <1>9, <1>10 DEF WriteInTime

\* The sender's bus ends a transaction.
LEMMA FinishKeepsPace ==
  ASSUME IInv, IInv', LengthsFit, BusOnTime, WriteInTime, Resumes("bus1", "moving"),
         NEW fired \in SUBSET Signals, Finish("bus1", fired), enc'.due = enc.due
  PROVE  BusOnTime' /\ WriteInTime'
<1> DEFINE q == queue["bus1"]
           n == Len(q)
           by == Head(q).by
           time == BusTime(q[2].req.len)
           events == fired \cup {by}
<1>1. /\ "bus1" \in Buses /\ ControlOK /\ queue \in [Buses -> Seq(Entries)] /\ QueueOK("bus1")
      /\ n \in 0..4 /\ enc.due \in Nat /\ "read_file" \in Threads \ {"bus1"} /\ "bus1" \in Threads
      /\ wait["bus1"].time \in Nat /\ q = <<>> <=> n = 0
      /\ \A i \in 1..n : q[i] \in Entries
  BY SenderBus DEF IInv, DataOK
<1>2. /\ q # <<>> /\ Len(queue'["bus1"]) = n - 1
      /\ \A i \in 1..Len(queue'["bus1"]) : queue'["bus1"][i] = q[i + 1]
      /\ pc'[by] = pc[by]
      /\ \A p \in Threads \ {"bus1", by} :
           /\ pc'[p] = pc[p]
           /\ wait'[p] = IF wait[p].event \in fired THEN Ready ELSE wait[p]
  BY <1>1, QueueFinished
<1>3. queue'["bus1"] = Tail(q)
  BY <1>1 DEF Finish
<1>4. \/ Tail(q) = <<>> /\ Suspend("bus1", "front", On("bus1"), events)
      \/ Tail(q) # <<>> /\ Suspend("bus1", "moving", For(time), events)
  BY DEF Finish
<1>5. \/ Tail(q) = <<>> /\ pc'["bus1"] = "front"
      \/ Tail(q) # <<>> /\ pc'["bus1"] = "moving" /\ wait'["bus1"] = For(time)
  BY <1>1, <1>4, Suspended
<1>6. ASSUME Tail(q) # <<>> PROVE time \in Nat /\ time <= LongestMove
  <2>1. 2 \in 1..n
    <3>1. Len(Tail(q)) = n - 1 /\ Tail(q) \in Seq(Entries)
      BY <1>1, <1>2, HeadTailProperties
    <3>2. n - 1 # 0
      BY <1>6, <3>1, EmptySeq
    <3>3. n \in 0..4 /\ n # 0
      BY <1>1, <1>2
    <3> HIDE DEF n
    <3> QED
      BY <3>2, <3>3
  <2>2. q[2].req.len \in Nat /\ Fits(q[2].req.len)
    BY <1>1, <2>1, LengthOK DEF LengthsFit, TransfersFit, RequestFits
  <2> QED
    BY <2>2, Longest, Durations
<1>7. BusOnTime'
  BY <1>3, <1>5, <1>6 DEF BusOnTime, For
<1>8. First = 0 /\ wait["bus1"] = Ready
  BY DEF First, Resumes, IsReady, Ready
<1>9. ASSUME NEW i \in 1..Len(queue'["bus1"]), queue'["bus1"][i].by = "read_file"
      PROVE  enc.due > ServedIn(i)'
  <2>1. i \in 1..4 /\ i + 1 \in 1..n /\ q[i + 1].by = "read_file"
    BY <1>1, <1>2, <1>9
  <2>2. enc.due > ServedIn(i + 1) /\ (i + 1) - 1 = i
    BY <2>1 DEF WriteInTime
  <2> DEFINE k == Moves(i - 1)
             m == Moves(i)
  <2>3. k \in Nat /\ m \in Nat /\ m = LongestMove + k
    BY <2>1, MovesAdd
  <2>4. ServedIn(i + 1) = m
    BY <1>8, <2>2, <2>3, ServedInTime
  <2>5. First' \in Nat /\ First' <= LongestMove
    <3>1. LongestMove \in Nat
      BY Longest, SMT
    <3> QED
      BY <1>5, <1>6, <3>1 DEF First, For
  <2>6. ServedIn(i)' = First' + k
    BY ServedInTime
  <2>7. LongestMove \in Nat
    BY Longest, SMT
  <2> HIDE DEF k, m
  <2> QED
    BY <1>1, <2>2, <2>3, <2>4, <2>5, <2>6, <2>7
<1>10. (pc["read_file"] = "encoded" => enc.due >= FramePeriod - EncodeTime + wait["read_file"].time)'
  <2>1. pc'["read_file"] = pc["read_file"]
    BY <1>1, <1>2
  <2>2. ASSUME pc["read_file"] = "encoded" PROVE wait'["read_file"] = wait["read_file"]
    <3>1. wait["read_file"].event = NoEvent /\ by # "read_file"
      <4>1. Head(q) = q[1] /\ 1 \in 1..n
        BY <1>1, <1>2, HeadEntry
      <4> QED
        BY <2>2, <4>1, SenderBus
    <3>2. NoEvent \notin fired
      BY Names
    <3> QED
      BY <1>1, <1>2, <3>1, <3>2
  <2> QED
    BY <2>1, <2>2 DEF WriteInTime
<1>11. EncoderKeepsPace'
  <2>1. CASE by = "read_file"
    <3>1. Head(q) = q[1] /\ 1 \in 1..n /\ 1 - 1 = 0
      BY <1>1, <1>2, HeadEntry
    <3>2. enc.due > ServedIn(1)
      BY <2>1, <3>1 DEF WriteInTime
    <3>3. ServedIn(1) = 0
      <4>1. 1 \in 1..4
        OBVIOUS
      <4> QED
        BY <1>8, <3>1, <4>1, MovesAdd, ServedInTime
    <3> QED
      BY <3>2, <3>3 DEF EncoderKeepsPace
  <2>2. CASE by # "read_file"
    <3>1. /\ pc'["read_file"] = pc["read_file"]
          /\ wait'["read_file"] = IF wait["read_file"].event \in fired THEN Ready ELSE wait["read_file"]
      BY <1>1, <1>2, <2>2
    <3>2. pc["read_file"] = "written" => wait["read_file"].event \in {NoEvent, "read_file"}
      BY <1>1, Waiting DEF ReadFileWaits, Ready, On
    <3>3. {NoEvent, "read_file"} \cap fired = {}
      BY Names DEF Threads, Sender
    <3>4. pc["read_file"] = "written" => wait'["read_file"] = wait["read_file"]
      BY <3>1, <3>2, <3>3
    <3> QED
      BY <3>1, <3>4 DEF WriteInTime, EncoderKeepsPace, Resumes, IsReady
  <2> QED
    BY <2>1, <2>2
<1> QED
  BY <1>7, <1>9, <1>10, <1>11 DEF WriteInTime

\* read_file, which is not in the queue, goes on without asking for anything.
LEMMA ReadFileKeepsPace ==
  ASSUME IInv, BusOnTime, NEW seg, NEW w, NEW fired, fired \subseteq {"encode_done"},
         IsReady("read_file"), Suspend("read_file", seg, w, fired), queue' = queue,
         seg = "paced" \/ seg = "returned" \/
           (seg = "encoded" /\ w = For(EncodeTime) /\ enc'.due = FramePeriod)
  PROVE  BusOnTime' /\ WriteInTime'
<1>1. /\ ControlOK /\ "read_file" \in Threads /\ "bus1" \in Threads \ {"read_file"}
      /\ wait["bus1"].event \in {NoEvent, "bus1"}
  BY SenderBus DEF IInv
<1>2. pc'["read_file"] = seg /\ wait'["read_file"] = w /\ Others("read_file", fired)
  BY <1>1, Suspended
<1>3. pc'["bus1"] = pc["bus1"] /\ wait'["bus1"] = wait["bus1"]
  BY <1>1, <1>2 DEF Others, NoEvent
<1>4. BusOnTime'
  BY <1>3 DEF BusOnTime, IsReady
<1>5. \A i \in 1..Len(queue["bus1"]) : queue["bus1"][i].by # "read_file"
  BY SenderBus DEF IsReady, Ready, On, NoEvent
<1>6. (pc["read_file"] = "encoded" => enc.due >= FramePeriod - EncodeTime + wait["read_file"].time)'
  <2>1. FramePeriod >= FramePeriod - EncodeTime + EncodeTime
    BY SMT DEF FramePeriod, EncodeTime
  <2> QED
    BY <1>2, <2>1 DEF For
<1>7. EncoderKeepsPace'
  BY <1>2 DEF EncoderKeepsPace, Resumes
<1> QED
  BY <1>4, <1>5, <1>6, <1>7 DEF WriteInTime

LEMMA EncoderKeepsItsPace ==
  ASSUME IInv, IInv', BusOnTime, WriteInTime, Encoder
  PROVE  BusOnTime' /\ WriteInTime'
<1>1. /\ EncoderOK(enc) /\ enc.due \in Nat
  BY Registers DEF IInv, DataOK, RegistersOK, EncoderOK
<1>2. ASSUME NEW e, NEW seg, e = enc \/ e = [enc EXCEPT !.count = @ + 1],
             Resumes("read_file", seg), NextFrame(e, {}), queue' = queue
      PROVE  BusOnTime' /\ WriteInTime'
  <2>1. CASE /\ \E len \in FrameLens : enc' = [e EXCEPT !.buffer_ptr = len, !.due = FramePeriod]
             /\ Suspend("read_file", "encoded", For(EncodeTime), {})
    <3>1. PICK len \in FrameLens : enc' = [e EXCEPT !.buffer_ptr = len, !.due = FramePeriod]
      BY <2>1
    <3>2. enc'.due = FramePeriod
      <4>1. CASE e = enc
        BY <1>1, <3>1, <4>1 DEF EncoderOK
      <4>2. CASE e = [enc EXCEPT !.count = @ + 1]
        <5>1. DOMAIN e = DOMAIN enc /\ "due" \in DOMAIN enc
          BY <1>1, <4>2 DEF EncoderOK
        <5> QED
          BY <3>1, <5>1
      <4> QED
        BY <1>2, <4>1, <4>2
    <3> QED
      BY <1>2, <2>1, <3>2, ReadFileKeepsPace DEF Resumes
  <2>2. CASE Suspend("read_file", "returned", On("nothing"), {})
    BY <1>2, <2>2, ReadFileKeepsPace DEF Resumes
  <2> QED
    BY <1>2, <2>1, <2>2 DEF NextFrame
<1>3. CASE StartReading
  BY <1>2, <1>3 DEF StartReading
<1>4. CASE FrameEncoded
  <2>1. /\ Resumes("read_file", "encoded") /\ enc' = [enc EXCEPT !.frame_length = enc.buffer_ptr]
    BY <1>4 DEF FrameEncoded
  <2>2. PICK r : Transfer("read_file", "bus1", r, "written", {})
    BY <1>4 DEF FrameEncoded
  <2>3. enc'.due = enc.due
    BY <1>1, <2>1 DEF EncoderOK
  <2>4. enc.due >= FramePeriod - EncodeTime
    <3>1. enc.due >= FramePeriod - EncodeTime + 0
      BY <2>1 DEF WriteInTime, Resumes, IsReady, Ready
    <3>2. FramePeriod - EncodeTime + 0 = FramePeriod - EncodeTime
      BY SMT DEF FramePeriod, EncodeTime
    <3> QED
      BY <3>1, <3>2
  <2>5. "read_file" \in Users["bus1"]
    BY DEF Users
  <2> QED
    BY <2>2, <2>3, <2>4, <2>5, CallKeepsPace
<1>5. CASE FrameWritten
  <2>1. Resumes("read_file", "written") /\ queue' = queue /\ enc.due > 0
    BY <1>5 DEF FrameWritten, WriteInTime, EncoderKeepsPace
  <2>2. Suspend("read_file", "paced", For(enc.due), {"encode_done"})
    BY <1>1, <1>5, <2>1 DEF FrameWritten
  <2> QED
    BY <2>1, <2>2, ReadFileKeepsPace DEF Resumes
<1>6. CASE FramePaced
  BY <1>2, <1>6 DEF FramePaced
<1> QED
  BY <1>3, <1>4, <1>5, <1>6 DEF Encoder

\* Time passes.
LEMMA TickKeepsPace ==
  ASSUME IInv, BusOnTime, WriteInTime, Tick
  PROVE  BusOnTime' /\ WriteInTime'
<1>1. PICK t \in Threads :
        /\ Elapse(wait[t].time)
        /\ enc' = [enc EXCEPT !.due = IF @ > wait[t].time THEN @ - wait[t].time ELSE 0]
  BY DEF Tick
<1> DEFINE d == wait[t].time
<1>2. /\ ControlOK /\ queue' = queue /\ d \in Nat /\ enc.due \in Nat
      /\ "bus1" \in Threads /\ "read_file" \in Threads
      /\ wait["bus1"].time \in Nat /\ wait["read_file"].time \in Nat
      /\ Len(queue["bus1"]) \in 0..4
      /\ queue["bus1"] = <<>> <=> Len(queue["bus1"]) = 0
  <2>1. queue' = queue
    BY DEF Tick
  <2> QED
    BY <2>1, SenderBus, TimeWaits DEF IInv, ControlOK
<1>3. /\ d > 0 /\ pc' = pc
      /\ \A p \in Threads : ~IsReady(p)
      /\ \A p \in Threads : wait[p].time > 0 => d <= wait[p].time
      /\ \A p \in Threads : wait'[p] = CASE wait[p].time = 0 -> wait[p]
                                         [] wait[p].time = d -> Ready
                                         [] OTHER -> [wait[p] EXCEPT !.time = @ - d]
  BY <1>1, <1>2 DEF ControlOK, Elapse
<1>4. enc'.due = IF enc.due > d THEN enc.due - d ELSE 0
  <2> DEFINE x == IF enc.due > wait[t].time THEN enc.due - wait[t].time ELSE 0
  <2>1. enc' = [enc EXCEPT !.due = x]
    BY <1>1
  <2>2. EncoderOK(enc)
    BY DEF IInv, DataOK, RegistersOK, EncoderOK
  <2> HIDE DEF x
  <2>3. enc'.due = x
    BY <2>1, <2>2 DEF EncoderOK
  <2> QED
    BY <2>3 DEF x
<1>5. ASSUME NEW p \in {"bus1", "read_file"}, wait[p] \in Pauses
      PROVE  /\ d <= wait[p].time
             /\ wait'[p].time = wait[p].time - d
  <2>1. wait[p].time \in Nat /\ wait[p].time # 0
    <3>1. wait[p] # Ready
      BY <1>2, <1>3 DEF IsReady
    <3> QED
      BY <1>5, <3>1 DEF Pauses, Ready
  <2>2. d <= wait[p].time /\ wait[p].time > 0
    BY <1>2, <1>3, <2>1
  <2>3. CASE wait[p].time = d
    <3>1. wait'[p] = Ready
      BY <1>2, <1>3, <2>1, <2>3
    <3> QED
      BY <1>2, <2>2, <2>3, <3>1 DEF Ready
  <2>4. CASE wait[p].time # d
    <3>1. wait'[p] = [wait[p] EXCEPT !.time = @ - d]
      BY <1>2, <1>3, <2>1, <2>4
    <3> QED
      BY <1>5, <2>2, <3>1 DEF Pauses
  <2> QED
    BY <2>3, <2>4
<1>6. pc["bus1"] = "moving" => wait["bus1"] \in Pauses
  BY <1>2, Waiting DEF BusWaits
<1>7. queue["bus1"] # <<>> => pc["bus1"] = "moving"
  BY <1>2, <1>3 DEF BusOnTime
<1>8. BusOnTime'
  <2>1. LongestMove \in Nat
    BY Longest, SMT
  <2>2. pc["bus1"] = "moving" => wait'["bus1"].time <= LongestMove
    BY <1>2, <1>5, <1>6, <2>1 DEF BusOnTime
  <2> QED
    BY <1>2, <1>3, <1>7, <2>2 DEF BusOnTime
<1>9. ASSUME NEW i \in 1..Len(queue["bus1"]), queue["bus1"][i].by = "read_file"
      PROVE  enc'.due > ServedIn(i)'
  <2>1. enc.due > ServedIn(i)
    BY <1>9 DEF WriteInTime
  <2> DEFINE k == Moves(i - 1)
  <2>2. k \in Nat /\ pc["bus1"] = "moving"
    <3> DEFINE n == Len(queue["bus1"])
    <3>1. n \in 0..4 /\ i \in 1..n
      BY <1>2
    <3>2. queue["bus1"] # <<>>
      <4> HIDE DEF n
      <4>1. n # 0
        BY <3>1
      <4> QED
        BY <1>2, <4>1 DEF n
    <3>3. i - 1 \in 0..4
      <4> HIDE DEF n
      <4> QED
        BY <3>1
    <3> QED
      BY <1>7, <3>2, <3>3, FewMoves
  <2>3. ServedIn(i) = wait["bus1"].time + k /\ ServedIn(i)' = wait'["bus1"].time + k
    BY <1>3, <2>2, ServedInTime DEF First
  <2>4. d <= wait["bus1"].time /\ wait'["bus1"].time = wait["bus1"].time - d
    BY <1>5, <1>6, <2>2
  <2> DEFINE time == wait["bus1"].time
  <2>5. time \in Nat /\ enc.due > time + k /\ ServedIn(i)' = (time - d) + k /\ d <= time
    BY <1>2, <2>1, <2>3, <2>4
  <2> HIDE DEF d, k, time
  <2> QED
    BY <1>2, <1>4, <2>2, <2>5
<1>10. (pc["read_file"] = "encoded" => enc.due >= FramePeriod - EncodeTime + wait["read_file"].time)'
  <2> SUFFICES ASSUME pc["read_file"] = "encoded"
               PROVE  enc'.due >= 29500000 + wait'["read_file"].time
    BY <1>3, Longest, SMT
  <2>1. wait["read_file"] \in Pauses
    BY <1>2, Waiting DEF ReadFileWaits
  <2> DEFINE time == wait["read_file"].time
  <2>2. time \in Nat /\ d <= time /\ wait'["read_file"].time = time - d
    BY <1>2, <1>5, <2>1
  <2>3. enc.due >= 29500000 + time
    BY Longest, SMT DEF WriteInTime
  <2> HIDE DEF d, time
  <2> QED
    BY <1>2, <1>4, <2>2, <2>3, SMT
<1>11. EncoderKeepsPace'
  <2> SUFFICES ASSUME Resumes("read_file", "written")' PROVE FALSE
    BY DEF EncoderKeepsPace
  <2>1. pc["read_file"] = "written" /\ wait'["read_file"] = Ready
    BY <1>3 DEF Resumes, IsReady
  <2>2. wait["read_file"] = On("read_file")
    BY <1>2, <1>3, <2>1, Waiting DEF ReadFileWaits, IsReady
  <2>3. wait'["read_file"] = wait["read_file"]
    <3>1. wait["read_file"].time = 0
      BY <2>2 DEF On
    <3>2. wait'["read_file"] = CASE wait["read_file"].time = 0 -> wait["read_file"]
                                 [] wait["read_file"].time = d -> Ready
                                 [] OTHER -> [wait["read_file"] EXCEPT !.time = @ - d]
      BY <1>2, <1>3
    <3> QED
      BY <1>2, <1>3, <3>1, <3>2
  <2> QED
    BY <2>1, <2>2, <2>3 DEF On, Ready, NoEvent
<1> QED
  BY <1>2, <1>8, <1>9, <1>10, <1>11 DEF WriteInTime

-----------------------------------------------------------------------------
(* Lengths. *)

LEMMA CallFits ==
  ASSUME IInv, TransfersFit, NEW b \in Buses, NEW t, NEW seg, NEW r, RequestFits(r),
         Transfer(t, b, r, seg, {})
  PROVE  TransfersFit'
<1> DEFINE e == [by |-> t, req |-> r]
<1>1. queue \in [Buses -> Seq(Entries)] /\ queue[b] \in Seq(Entries)
  BY DEF IInv, DataOK
<1>2. queue' = [queue EXCEPT ![b] = Append(@, e)]
  BY DEF Transfer
<1>3. queue'[b] = Append(queue[b], e) /\ \A c \in Buses \ {b} : queue'[c] = queue[c]
  BY <1>1, <1>2
<1>4. /\ Len(Append(queue[b], e)) = Len(queue[b]) + 1 /\ Len(queue[b]) \in Nat
      /\ \A i \in 1..Len(queue[b]) : Append(queue[b], e)[i] = queue[b][i]
      /\ Append(queue[b], e)[Len(queue[b]) + 1] = e
  BY <1>1, LenProperties
<1>5. ASSUME NEW i \in 1..Len(queue[b]) + 1 PROVE RequestFits(Append(queue[b], e)[i].req)
  <2>1. CASE i = Len(queue[b]) + 1
    <3>1. Append(queue[b], e)[i] = e
      BY <1>4, <2>1
    <3> QED
      BY <3>1
  <2>2. CASE i # Len(queue[b]) + 1
    <3>1. i \in 1..Len(queue[b])
      BY <1>4, <2>2
    <3> QED
      BY <1>4, <3>1 DEF TransfersFit
  <2> QED
    BY <2>1, <2>2
<1>6. ASSUME NEW c \in Buses, NEW i \in 1..Len(queue'[c]) PROVE RequestFits(queue'[c][i].req)
  <2>1. CASE c = b
    <3> DEFINE q == Append(queue[b], e)
    <3>1. \A j \in 1..Len(queue[b]) + 1 : RequestFits(q[j].req)
      BY <1>5
    <3>2. queue'[c] = q /\ i \in 1..Len(queue[b]) + 1
      BY <1>3, <1>4, <2>1
    <3> HIDE DEF q
    <3> QED
      BY <3>1, <3>2
  <2>2. CASE c # b
    BY <1>3, <2>2 DEF TransfersFit
  <2> QED
    BY <2>1, <2>2
<1> QED
  BY <1>6 DEF TransfersFit, RequestFits

LEMMA FinishFits ==
  ASSUME IInv, TransfersFit, NEW b \in Buses, Resumes(b, "moving"),
         NEW fired \in SUBSET Signals, Finish(b, fired)
  PROVE  TransfersFit'
<1>1. ControlOK /\ queue \in [Buses -> Seq(Entries)] /\ QueueOK(b)
  BY DEF IInv, DataOK
<1>2. /\ \A c \in Buses \ {b} : queue'[c] = queue[c]
      /\ Len(queue[b]) \in Nat /\ Len(queue'[b]) = Len(queue[b]) - 1
      /\ \A i \in 1..Len(queue'[b]) : queue'[b][i] = queue[b][i + 1]
  BY <1>1, QueueFinished
<1>3. ASSUME NEW i \in 1..Len(queue'[b]) PROVE RequestFits(queue'[b][i].req)
  <2>1. i + 1 \in 1..Len(queue[b])
    BY <1>2
  <2> QED
    BY <1>2, <2>1 DEF TransfersFit
<1> QED
  BY <1>2, <1>3 DEF TransfersFit, RequestFits

LEMMA UnchangedFits ==
  ASSUME RegistersFit, UNCHANGED <<result, enc, up, crypto, nic, network_frame>>
  PROVE  RegistersFit'
  BY DEF RegistersFit, Fits

-----------------------------------------------------------------------------
(* Steps. *)

LEMMA CallPace ==
  ASSUME IInv, IInv', PaceInv, NEW b \in Buses, NEW t \in Users[b] \ {"read_file"}, NEW seg, NEW r,
         RequestFits(r), Transfer(t, b, r, seg, {}), enc' = enc, RegistersFit'
  PROVE  PaceInv'
<1>1. TransfersFit'
  BY CallFits DEF PaceInv, LengthsFit
<1>2. CASE b = "bus1"
  BY <1>1, <1>2, CallKeepsPace DEF PaceInv, LengthsFit
<1>3. CASE b = "bus2"
  <2>1. t \in Threads \ {"bus1", "read_file"}
    BY <1>3, Names DEF Buses
  <2>2. {NoEvent, "bus1", "read_file"} \cap ({} \cup {b}) = {}
    BY <1>3 DEF NoEvent
  <2>3. queue' = [queue EXCEPT ![b] = Append(@, [by |-> t, req |-> r])]
        /\ Suspend(t, seg, On(t), {} \cup {b})
    BY DEF Transfer
  <2>4. queue'["bus1"] = queue["bus1"]
    BY <1>3, <2>3 DEF IInv, DataOK, Buses
  <2> QED
    BY <1>1, <2>1, <2>2, <2>3, <2>4, ElsewhereKeepsPace DEF PaceInv, LengthsFit
<1> QED
  BY <1>2, <1>3 DEF Buses

LEMMA SignalPace ==
  ASSUME IInv, PaceInv, NEW t \in Threads \ {"bus1", "read_file"}, NEW seg, NEW w,
         NEW fired \in SUBSET Signals, Suspend(t, seg, w, fired),
         queue' = queue, enc' = enc, RegistersFit'
  PROVE  PaceInv'
<1>1. TransfersFit'
  BY DEF PaceInv, LengthsFit, TransfersFit
<1>2. {NoEvent, "bus1", "read_file"} \cap fired = {}
  BY Names DEF Threads, Buses, Sender
<1> QED
  BY <1>1, <1>2, ElsewhereKeepsPace DEF PaceInv, LengthsFit

LEMMA FinishPace ==
  ASSUME IInv, IInv', PaceInv, NEW b \in Buses, Resumes(b, "moving"),
         NEW fired \in SUBSET Signals, Finish(b, fired), enc'.due = enc.due, RegistersFit'
  PROVE  PaceInv'
<1>1. TransfersFit'
  BY FinishFits DEF PaceInv, LengthsFit
<1>2. CASE b = "bus1"
  BY <1>1, <1>2, FinishKeepsPace DEF PaceInv, LengthsFit
<1>3. CASE b = "bus2"
  <2> DEFINE by == Head(queue[b]).by
  <2>1. ControlOK /\ queue \in [Buses -> Seq(Entries)] /\ QueueOK(b) /\ "bus1" \in Buses
    BY DEF IInv, DataOK, Buses
  <2>2. queue[b] # <<>> /\ queue'["bus1"] = queue["bus1"]
    BY <1>3, <2>1, QueueFinished
  <2>3. by \in Users["bus2"]
    BY <1>3, <2>1, <2>2, HeadEntry
  <2>4. {NoEvent, "bus1", "read_file"} \cap (fired \cup {by}) = {}
    <3>1. {NoEvent, "bus1", "read_file"} \cap fired = {}
      BY Names DEF Threads, Buses, Sender
    <3> QED
      BY <2>3, <3>1 DEF Users, NoEvent
  <2>5. b \in Threads \ {"bus1", "read_file"}
    BY <1>3 DEF Threads, Buses
  <2>6. PICK seg, w : Suspend(b, seg, w, fired \cup {by})
    BY DEF Finish
  <2> HIDE DEF by
  <2> QED
    BY <1>1, <2>2, <2>4, <2>5, <2>6, ElsewhereKeepsPace DEF PaceInv, LengthsFit
<1> QED
  BY <1>2, <1>3 DEF Buses

LEMMA RequestsFit ==
  /\ Fits(1) /\ Fits(2) /\ Fits(4) /\ Fits(0)
  /\ \A a, n, c : Fits(n) => RequestFits(Write("mem", a, n, c)) /\ RequestFits(Read("mem", a, n))
  /\ \A d : RequestFits(Write("encoder", 0, 2, d))
  /\ RequestFits(Read("encoder", 0, 1))
  /\ \A src, dst, e, n : Fits(n) =>
       RequestFits(Write("crypto", 0, 4, [src |-> src, dst |-> dst, encrypt |-> e, length |-> n]))
  /\ RequestFits(Write("nic", 0, 1, 1)) /\ RequestFits(Read("nic", 0, 1))
  /\ \A a, n : Fits(n) => RequestFits(Write("nic", 0, 2, [addr |-> a, length |-> n]))
<1>1. Fits(1) /\ Fits(2) /\ Fits(4) /\ Fits(0)
  BY SMT DEF Fits, MAX_FRAME_SIZE
<1>2. \A a, n, c : Fits(n) => RequestFits(Write("mem", a, n, c)) /\ RequestFits(Read("mem", a, n))
  BY DEF RequestFits, Write, Read
<1>3. \A d : RequestFits(Write("encoder", 0, 2, d))
  BY <1>1 DEF RequestFits, Write
<1>4. RequestFits(Read("encoder", 0, 1)) /\ RequestFits(Read("nic", 0, 1))
  BY <1>1 DEF RequestFits, Read
<1>5. \A src, dst, e, n : Fits(n) =>
        RequestFits(Write("crypto", 0, 4, [src |-> src, dst |-> dst, encrypt |-> e, length |-> n]))
  BY <1>1 DEF RequestFits, Write
<1>6. RequestFits(Write("nic", 0, 1, 1))
  BY <1>1 DEF RequestFits, Write
<1>7. \A a, n : Fits(n) => RequestFits(Write("nic", 0, 2, [addr |-> a, length |-> n]))
  BY <1>1 DEF RequestFits, Write
<1> QED
  BY <1>1, <1>2, <1>3, <1>4, <1>5, <1>6, <1>7

LEMMA AwaitFramePace ==
  ASSUME IInv, IInv', PaceInv, AwaitFrame
  PROVE  PaceInv'
<1>1. /\ "bus1" \in Buses /\ "send_packet" \in Users["bus1"] \ {"read_file"}
      /\ "send_packet" \in Threads \ {"bus1", "read_file"} /\ {} \in SUBSET Signals
      /\ "send_packet" \in Sender \cup Receiver
      /\ RegistersFit /\ DataOK
  BY DEF Buses, Users, Threads, Sender, PaceInv, LengthsFit, IInv
<1>2. CASE Connect
  <2>1. Transfer("send_packet", "bus1", Write("nic", 0, 1, 1), "connecting", {})
        /\ UNCHANGED <<result, enc, up, crypto, nic, network_frame>>
    BY <1>2 DEF Connect
  <2> QED
    BY <1>1, <2>1, RequestsFit, UnchangedFits, CallPace
<1>3. CASE Connecting
  BY <1>1, <1>3, UnchangedFits, SignalPace DEF Connecting
<1>4. CASE StartEncoder
  <2> DEFINE r == Write("encoder", 0, 2, [i \in {0, 1} |-> i])
  <2>1. Transfer("send_packet", "bus1", r, "idle", {})
        /\ UNCHANGED <<result, enc, up, crypto, nic, network_frame>>
    BY <1>4 DEF StartEncoder
  <2>2. RequestFits(r)
    BY RequestsFit
  <2> HIDE DEF r
  <2> QED
    BY <1>1, <2>1, <2>2, UnchangedFits, CallPace
<1>5. CASE AwaitEncoder
  BY <1>1, <1>5, UnchangedFits, SignalPace DEF AwaitEncoder
<1>6. CASE GetFrameLength
  <2>1. Transfer("send_packet", "bus1", Read("encoder", 0, 1), "length", {})
        /\ UNCHANGED <<result, enc, up, crypto, nic, network_frame>>
    BY <1>6 DEF GetFrameLength
  <2> QED
    BY <1>1, <2>1, RequestsFit, UnchangedFits, CallPace
<1> QED
  BY <1>2, <1>3, <1>4, <1>5, <1>6 DEF AwaitFrame

LEMMA EncryptionPace ==
  ASSUME IInv, IInv', PaceInv, StartEncryption \/ AwaitEncryption
  PROVE  PaceInv'
<1>1. /\ "bus1" \in Buses /\ "send_packet" \in Users["bus1"] \ {"read_file"}
      /\ "send_packet" \in Threads \ {"bus1", "read_file"} /\ {} \in SUBSET Signals
      /\ "send_packet" \in Sender \cup Receiver
      /\ RegistersFit /\ DataOK
  BY DEF Buses, Users, Threads, Sender, PaceInv, LengthsFit, IInv
<1>2. CASE StartEncryption
  <2> DEFINE n == result["send_packet"].len
             r == Write("crypto", 0, 4,
                        [src |-> EncodeBlock(up.frame_num), dst |-> CipherBlock(up.frame_num),
                         encrypt |-> 1, length |-> n])
  <2>1. Transfer("send_packet", "bus1", r, "encrypting", {})
        /\ up' = [up EXCEPT !.frameLength = n]
        /\ UNCHANGED <<result, enc, crypto, nic, network_frame>>
    BY <1>2 DEF StartEncryption
  <2>2. Fits(n)
    BY <1>1 DEF RegistersFit
  <2>3. RequestFits(r)
    BY <2>2, RequestsFit
  <2>4. RegistersFit'
    <3> HIDE DEF n
    <3>1. up'.frameLength = n
      BY <1>1, <2>1 DEF DataOK, RegistersOK
    <3> QED
      BY <1>1, <2>1, <2>2, <3>1 DEF RegistersFit, Fits
  <2> HIDE DEF r
  <2> QED
    BY <1>1, <2>1, <2>3, <2>4, CallPace
<1>3. CASE AwaitEncryption
  BY <1>1, <1>3, UnchangedFits, SignalPace DEF AwaitEncryption
<1> QED
  BY <1>2, <1>3

LEMMA DescriptorPace ==
  ASSUME IInv, IInv', PaceInv, NEW a, NEW n, Fits(n),
         Transfer("send_packet", "bus1", Write("nic", 0, 2, [addr |-> a, length |-> n]), "idle", {}),
         up' = [up EXCEPT !.frame_num = @ + 1],
         UNCHANGED <<result, enc, crypto, nic, network_frame>>
  PROVE  PaceInv'
<1>1. "bus1" \in Buses /\ "send_packet" \in Users["bus1"] \ {"read_file"} /\ RegistersFit /\ DataOK
  BY DEF Buses, Users, PaceInv, LengthsFit, IInv
<1> DEFINE r == Write("nic", 0, 2, [addr |-> a, length |-> n])
<1>2. RequestFits(r)
  BY RequestsFit
<1>3. RegistersFit'
  <2>1. up'.frameLength = up.frameLength
    BY <1>1 DEF DataOK, RegistersOK
  <2> QED
    BY <1>1, <2>1 DEF RegistersFit, Fits
<1>4. Transfer("send_packet", "bus1", r, "idle", {})
  OBVIOUS
<1> HIDE DEF r
<1> QED
  BY <1>1, <1>2, <1>3, <1>4, CallPace

LEMMA MicroprocessorPace ==
  ASSUME IInv, IInv', PaceInv, Microprocessor
  PROVE  PaceInv'
<1>1. CASE SendPacket
  <2>1. Fits(Length16(up.frameLength))
    <3>1. up.frameLength \in Nat /\ Fits(up.frameLength)
      BY Registers DEF PaceInv, LengthsFit, RegistersFit, IInv
    <3> QED
      BY <3>1, Longest, SMT
  <2> QED
    BY <1>1, <2>1, DescriptorPace DEF SendPacket
<1> QED
  BY <1>1, AwaitFramePace, EncryptionPace DEF Microprocessor

LEMMA EncoderPace ==
  ASSUME IInv, IInv', PaceInv, Encoder
  PROVE  PaceInv'
<1>1. RegistersFit /\ EncoderOK(enc) /\ \A len \in FrameLens : Fits(len)
  BY FramesAssumption, SMT DEF PaceInv, LengthsFit, IInv, DataOK, RegistersOK, EncoderOK, Fits,
     FramesAssumption
<1>2. BusOnTime' /\ WriteInTime'
  BY EncoderKeepsItsPace DEF PaceInv
<1> SUFFICES LengthsFit'
  BY <1>2 DEF PaceInv
<1>3. ASSUME UNCHANGED <<queue, result, up, crypto, nic, network_frame>>,
             Fits(enc'.buffer_ptr), enc'.frame_length = enc.frame_length
      PROVE  LengthsFit'
  <2>1. RegistersFit'
    BY <1>1, <1>3 DEF RegistersFit, Fits
  <2>2. TransfersFit'
    BY <1>3 DEF PaceInv, LengthsFit, TransfersFit
  <2> QED
    BY <2>1, <2>2 DEF LengthsFit
<1>4. ASSUME NEW e, EncoderOK(e), e.buffer_ptr = enc.buffer_ptr, e.frame_length = enc.frame_length,
             NEW fired, NextFrame(e, fired),
             UNCHANGED <<queue, result, up, crypto, nic, network_frame>>
      PROVE  LengthsFit'
  <2>1. Fits(enc'.buffer_ptr) /\ enc'.frame_length = enc.frame_length
    <3>1. CASE enc' = e
      BY <1>1, <1>4, <3>1 DEF RegistersFit
    <3>2. CASE \E len \in FrameLens : enc' = [e EXCEPT !.buffer_ptr = len, !.due = FramePeriod]
      <4>1. PICK len \in FrameLens : enc' = [e EXCEPT !.buffer_ptr = len, !.due = FramePeriod]
        BY <3>2
      <4> QED
        BY <1>1, <1>4, <4>1 DEF EncoderOK
    <3> QED
      BY <1>4, <3>1, <3>2 DEF NextFrame
  <2> QED
    BY <1>3, <1>4, <2>1
<1>5. CASE StartReading
  BY <1>1, <1>4, <1>5 DEF StartReading
<1>6. CASE FrameEncoded
  <2> DEFINE c == [frame |-> enc.count + 1, form |-> "raw", len |-> enc.buffer_ptr]
             r == Write("mem", enc.mem_address_dst[enc.adr_num], enc.buffer_ptr, c)
  <2>1. /\ enc' = [enc EXCEPT !.frame_length = enc.buffer_ptr]
        /\ Transfer("read_file", "bus1", r, "written", {})
        /\ UNCHANGED <<result, up, crypto, nic, network_frame>>
    BY <1>6 DEF FrameEncoded
  <2>2. RequestFits(r)
    BY <1>1, RequestsFit DEF RegistersFit
  <2> HIDE DEF r
  <2>3. TransfersFit'
    BY <2>1, <2>2, CallFits DEF PaceInv, LengthsFit, Buses
  <2>4. enc'.buffer_ptr = enc.buffer_ptr /\ enc'.frame_length = enc.buffer_ptr
    BY <1>1, <2>1 DEF EncoderOK
  <2>5. RegistersFit'
    BY <1>1, <2>1, <2>4 DEF RegistersFit, Fits
  <2> QED
    BY <2>3, <2>5 DEF LengthsFit
<1>7. CASE FrameWritten
  <2>1. CASE enc' = [enc EXCEPT !.adr_num = 1 - @]
    <3>1. enc'.buffer_ptr = enc.buffer_ptr /\ enc'.frame_length = enc.frame_length
      BY <1>1, <2>1 DEF EncoderOK
    <3> QED
      BY <1>1, <1>3, <1>7, <3>1 DEF FrameWritten, RegistersFit
  <2>2. CASE ~(enc.due > 0)
    <3>1. FALSE
      BY <1>7, <2>2 DEF FrameWritten, PaceInv, WriteInTime, EncoderKeepsPace
    <3> QED
      BY <3>1
  <2> QED
    BY <1>7, <2>1, <2>2 DEF FrameWritten, EncoderOK
<1>8. CASE FramePaced
  <2> DEFINE e == [enc EXCEPT !.count = @ + 1]
  <2>1. e.buffer_ptr = enc.buffer_ptr /\ e.frame_length = enc.frame_length /\ EncoderOK(e)
    <3>1. enc.count + 1 \in 0..Frames
      BY <1>8, FramesAssumption DEF FramePaced, Resumes, IInv, CountOK, DataOK, RegistersOK,
         FramesAssumption
    <3> QED
      BY <1>1, <3>1 DEF EncoderOK
  <2>2. NextFrame(e, {}) /\ UNCHANGED <<queue, result, up, crypto, nic, network_frame>>
    BY <1>8 DEF FramePaced
  <2> HIDE DEF e
  <2> QED
    BY <1>4, <2>1, <2>2
<1> QED
  BY <1>5, <1>6, <1>7, <1>8 DEF Encoder

LEMMA CryptoLoopPace ==
  ASSUME IInv, IInv', PaceInv, NEW b \in Buses, AesReadData(b) \/ AesDone(b)
  PROVE  PaceInv'
<1>1. /\ Aes[b] \in Users[b] \ {"read_file"} /\ Aes[b] \in Threads \ {"bus1", "read_file"}
      /\ {} \in SUBSET Signals /\ {AesDoneEvent[b]} \in SUBSET Signals
      /\ RegistersFit /\ DataOK
  BY CryptoNames DEF PaceInv, LengthsFit, IInv, Buses
<1>2. CASE AesReadData(b)
  <2> DEFINE r == Read("mem", crypto[b].mem_address_src, crypto[b].length)
  <2>1. Transfer(Aes[b], b, r, "read", {}) /\ UNCHANGED <<result, enc, up, crypto, nic, network_frame>>
    BY <1>2 DEF AesReadData
  <2>2. RequestFits(r)
    BY <1>1, RequestsFit DEF RegistersFit
  <2> HIDE DEF r
  <2> QED
    BY <1>1, <2>1, <2>2, UnchangedFits, CallPace
<1>3. CASE AesDone(b)
  BY <1>1, <1>3, UnchangedFits, SignalPace DEF AesDone
<1> QED
  BY <1>2, <1>3

LEMMA CryptoPace ==
  ASSUME IInv, IInv', PaceInv, NEW b \in Buses, Crypto(b)
  PROVE  PaceInv'
<1>1. /\ Aes[b] \in Users[b] \ {"read_file"} /\ Aes[b] \in Threads \ {"bus1", "read_file"}
      /\ {} \in SUBSET Signals /\ {AesDoneEvent[b]} \in SUBSET Signals
      /\ RegistersFit /\ DataOK
  BY CryptoNames DEF PaceInv, LengthsFit, IInv, Buses
<1>2. CASE AesReadData(b) \/ AesDone(b)
  BY <1>2, CryptoLoopPace
<1>3. CASE AesCrypt(b)
  <2> DEFINE n == crypto[b].length
             c == IF b = "bus1" THEN Crypted(result[Aes[b]], "raw", "cipher", n)
                  ELSE Crypted(result[Aes[b]], "cipher", "raw", n)
  <2>1. /\ crypto' = [crypto EXCEPT ![b].bufferInt = c]
        /\ Suspend(Aes[b], "crypted", For(AesTime(n)), {})
        /\ UNCHANGED <<queue, result, enc, up, nic, network_frame>>
    BY <1>3 DEF AesCrypt
  <2>2. Fits(c.len)
    <3>1. c.len = Length16(n)
      BY DEF Crypted
    <3>2. n \in Nat /\ Fits(n)
      BY <1>1, Registers DEF RegistersFit
    <3> QED
      BY <3>1, <3>2, Longest, SMT
  <2> HIDE DEF c
  <2>3. crypto'[b].length = crypto[b].length /\ crypto'[b].bufferInt = c
        /\ \A d \in Buses \ {b} : crypto'[d] = crypto[d]
    BY <1>1, <2>1 DEF DataOK, RegistersOK
  <2>4. RegistersFit'
    BY <1>1, <2>1, <2>2, <2>3 DEF RegistersFit, Fits
  <2> QED
    BY <1>1, <2>1, <2>4, SignalPace
<1>4. CASE AesWriteData(b)
  <2> DEFINE r == Write("mem", crypto[b].mem_address_dst, crypto[b].bufferInt.len, crypto[b].bufferInt)
  <2>1. Transfer(Aes[b], b, r, "written", {})
        /\ UNCHANGED <<result, enc, up, crypto, nic, network_frame>>
    BY <1>4 DEF AesWriteData
  <2>2. RequestFits(r)
    BY <1>1, RequestsFit DEF RegistersFit
  <2> HIDE DEF r
  <2> QED
    BY <1>1, <2>1, <2>2, UnchangedFits, CallPace
<1> QED
  BY <1>2, <1>3, <1>4 DEF Crypto

LEMMA NetworkPace ==
  ASSUME IInv, IInv', PaceInv, NetworkInterfaceCards
  PROVE  PaceInv'
<1>1. /\ "read_packet" \in Users["bus1"] \ {"read_file"} /\ "bus1" \in Buses
      /\ "receive_frame" \in Users["bus2"] \ {"read_file"} /\ "bus2" \in Buses
      /\ {"setup", "read_packet", "send_frame", "receive_frame"} \subseteq Threads \ {"bus1", "read_file"}
      /\ {{}, {"connection_ready"}, {"send_event"}, {"receive_event"}, {"packet_received"}}
           \subseteq SUBSET Signals
      /\ "read_packet" \in Sender \cup Receiver /\ RegistersFit /\ DataOK
  BY DEF Buses, Users, Threads, Sender, Receiver, Signals, PaceInv, LengthsFit, IInv
<1>2. CASE SetupTcpConnection
  BY <1>1, <1>2, UnchangedFits, SignalPace DEF SetupTcpConnection
<1>3. CASE ConnectionReady
  BY <1>1, <1>3, UnchangedFits, SignalPace DEF ConnectionReady
<1>4. CASE ReadPacket
  <2> DEFINE r == Read("mem", nic.mem_address, nic.packet_length)
  <2>1. Transfer("read_packet", "bus1", r, "read", {})
        /\ UNCHANGED <<result, enc, up, crypto, nic, network_frame>>
    BY <1>4 DEF ReadPacket
  <2>2. RequestFits(r)
    BY <1>1, RequestsFit DEF RegistersFit
  <2> HIDE DEF r
  <2> QED
    BY <1>1, <2>1, <2>2, UnchangedFits, CallPace
<1>5. CASE PacketRead
  <2>1. /\ nic' = [nic EXCEPT !.packet_data = result["read_packet"]]
        /\ Suspend("read_packet", "descriptor", On("read_event"), {"send_event"})
        /\ UNCHANGED <<queue, result, enc, up, crypto, network_frame>>
    BY <1>5 DEF PacketRead
  <2>2. nic'.packet_length = nic.packet_length
    BY <1>1, <2>1 DEF DataOK, RegistersOK
  <2>3. RegistersFit'
    BY <1>1, <2>1, <2>2 DEF RegistersFit, Fits
  <2> QED
    BY <1>1, <2>1, <2>3, SignalPace
<1>6. CASE SendFrame
  <2>1. /\ network_frame' = Prefix(nic.packet_data, nic.packet_length)
        /\ Suspend("send_frame", "transmitted", For(TransmitTime(nic.packet_length)), {})
        /\ UNCHANGED <<queue, result, enc, up, crypto, nic>>
    BY <1>6 DEF SendFrame
  <2>2. network_frame'.len = nic.packet_length
    BY <2>1 DEF Prefix
  <2>3. RegistersFit'
    BY <1>1, <2>1, <2>2 DEF RegistersFit, Fits
  <2> QED
    BY <1>1, <2>1, <2>3, SignalPace
<1>7. CASE FrameSent
  BY <1>1, <1>7, UnchangedFits, SignalPace DEF FrameSent
<1>8. CASE ReceiveFrame
  <2> DEFINE r == Write("mem", mem_num["receive_frame"], network_frame.len, network_frame)
  <2>1. Transfer("receive_frame", "bus2", r, "written", {})
        /\ UNCHANGED <<result, enc, up, crypto, nic, network_frame>>
    BY <1>8 DEF ReceiveFrame
  <2>2. RequestFits(r)
    BY <1>1, RequestsFit DEF RegistersFit
  <2> HIDE DEF r
  <2> QED
    BY <1>1, <2>1, <2>2, UnchangedFits, CallPace
<1>9. CASE FrameReceived
  BY <1>1, <1>9, UnchangedFits, SignalPace DEF FrameReceived
<1> QED
  BY <1>2, <1>3, <1>4, <1>5, <1>6, <1>7, <1>8, <1>9 DEF NetworkInterfaceCards

LEMMA Microprocessor2Pace ==
  ASSUME IInv, IInv', PaceInv, Microprocessor2
  PROVE  PaceInv'
<1>1. /\ "decrypt_packet" \in Users["bus2"] \ {"read_file"} /\ "bus2" \in Buses
      /\ "decrypt_packet" \in Threads \ {"bus1", "read_file"} /\ {} \in SUBSET Signals
      /\ "decrypt_packet" \in Sender \cup Receiver /\ RegistersFit
  BY DEF Buses, Users, Threads, Receiver, PaceInv, LengthsFit
<1>2. CASE GetPacketLength
  <2>1. Transfer("decrypt_packet", "bus2", Read("nic", 0, 1), "length", {})
        /\ UNCHANGED <<result, enc, up, crypto, nic, network_frame>>
    BY <1>2 DEF GetPacketLength
  <2> QED
    BY <1>1, <2>1, RequestsFit, UnchangedFits, CallPace
<1>3. CASE StartDecryption
  <2> DEFINE m == mem_num["decrypt_packet"]
             n == result["decrypt_packet"].len
             r == Write("crypto", 0, 4,
                        [src |-> ReceivedBlock(m), dst |-> ClearBlock(m), encrypt |-> 0, length |-> n])
  <2>1. Transfer("decrypt_packet", "bus2", r, "decrypting", {})
        /\ UNCHANGED <<result, enc, up, crypto, nic, network_frame>>
    BY <1>3 DEF StartDecryption
  <2>2. Fits(n)
    BY <1>1 DEF RegistersFit
  <2>3. RequestFits(r)
    BY <2>2, RequestsFit
  <2> HIDE DEF r
  <2> QED
    BY <1>1, <2>1, <2>3, UnchangedFits, CallPace
<1>4. CASE AwaitDecryption
  BY <1>1, <1>4, UnchangedFits, SignalPace DEF AwaitDecryption
<1>5. CASE PacketDecrypted
  BY <1>1, <1>5, UnchangedFits, SignalPace DEF PacketDecrypted
<1> QED
  BY <1>2, <1>3, <1>4, <1>5 DEF Microprocessor2

LEMMA BusPace ==
  ASSUME IInv, IInv', PaceInv, NEW b \in Buses, Bus(b)
  PROVE  PaceInv'
<1> DEFINE e == Head(queue[b])
           r == e.req
<1>1. /\ RegistersFit /\ DataOK /\ {} \in SUBSET Signals
      /\ {{"read"}, {"encrypt_event"}, {"decrypt_event"}, {"conn"}, {"read_event"}} \subseteq SUBSET Signals
  BY DEF IInv, PaceInv, LengthsFit, Signals
<1>2. ASSUME Resumes(b, "moving")
      PROVE  RequestFits(r) /\ e.by \in Sender \cup Receiver
  <2>1. QueueOK(b) /\ queue \in [Buses -> Seq(Entries)] /\ queue[b] # <<>>
    BY <1>2 DEF IInv, DataOK, QueueOK, Resumes
  <2>2. e = queue[b][1] /\ 1 \in 1..Len(queue[b]) /\ e \in Entries
    BY <2>1, HeadEntry
  <2>3. RequestFits(queue[b][1].req)
    BY <2>2 DEF PaceInv, LengthsFit, TransfersFit
  <2> QED
    BY <2>2, <2>3 DEF Entries
<1>3. ASSUME NEW c, Fits(c.len), Resumes(b, "moving"), Returns(b, c),
             UNCHANGED <<enc, up, crypto, nic, network_frame>>
      PROVE  RegistersFit'
  <2> HIDE DEF e
  <2>1. result' = [result EXCEPT ![e.by] = c]
    BY <1>3 DEF Returns, e
  <2>2. \A t \in Sender \cup Receiver : result'[t] = c \/ result'[t] = result[t]
    BY <1>1, <2>1 DEF DataOK, ContentsOK
  <2>3. \A t \in Sender \cup Receiver : Fits(result'[t].len)
    BY <1>1, <1>3, <2>2 DEF RegistersFit
  <2> QED
    BY <1>1, <1>3, <2>3 DEF RegistersFit, Fits
<1>4. CASE Begin(b)
  <2>1. queue' = queue /\ UNCHANGED <<result, enc, up, crypto, nic, network_frame>>
    BY <1>4 DEF Begin
  <2>2. RegistersFit' /\ TransfersFit'
    <3>1. TransfersFit'
      BY <2>1 DEF PaceInv, LengthsFit, TransfersFit
    <3> QED
      BY <1>1, <2>1, <3>1, UnchangedFits
  <2>3. CASE b = "bus1"
    BY <1>4, <2>2, <2>3, BeginKeepsPace DEF PaceInv, LengthsFit
  <2>4. CASE b = "bus2"
    <3>1. b \in Threads \ {"bus1", "read_file"}
      BY <2>4 DEF Threads, Buses
    <3> DEFINE w == For(BusTime(r.len))
    <3>2. Suspend(b, "moving", w, {})
      BY <1>4 DEF Begin
    <3> HIDE DEF w
    <3> QED
      BY <1>1, <2>1, <2>2, <3>1, <3>2, SignalPace
  <2> QED
    BY <2>3, <2>4 DEF Buses
<1>5. CASE MemDataTransfer(b)
  <2>1. /\ Resumes(b, "moving") /\ Finish(b, {})
        /\ UNCHANGED <<enc, up, crypto, nic, network_frame>>
    BY <1>5 DEF MemDataTransfer, Moved
  <2>2. CASE Returns(b, Prefix(mem[b][r.addr], r.len))
    <3> DEFINE c == Prefix(mem[b][r.addr], r.len)
    <3>1. c.len = r.len
      BY DEF Prefix
    <3>2. Fits(c.len)
      <4>1. Fits(r.len)
        BY <1>2, <2>1 DEF RequestFits
      <4> QED
        BY <3>1, <4>1
    <3> HIDE DEF c
    <3>3. RegistersFit'
      BY <1>3, <2>1, <2>2, <3>2 DEF c
    <3> QED
      BY <1>1, <2>1, <3>3, FinishPace
  <2>3. CASE UNCHANGED result
    BY <1>1, <2>1, <2>3, UnchangedFits, FinishPace
  <2> QED
    BY <1>5, <2>2, <2>3 DEF MemDataTransfer
<1>6. CASE Encode(b)
  <2>1. Resumes(b, "moving") /\ UNCHANGED <<up, crypto, nic, network_frame>>
    BY <1>6 DEF Encode, Moved
  <2>2. CASE enc' = [enc EXCEPT !.mem_address_dst = r.data] /\ Finish(b, {"read"}) /\ UNCHANGED result
    <3> HIDE DEF r
    <3>1. /\ enc'.due = enc.due /\ enc'.buffer_ptr = enc.buffer_ptr
          /\ enc'.frame_length = enc.frame_length
      BY <1>1, <2>2 DEF DataOK, RegistersOK
    <3>2. RegistersFit'
      BY <1>1, <2>1, <2>2, <3>1 DEF RegistersFit, Fits
    <3> QED
      BY <1>1, <2>1, <2>2, <3>1, <3>2, FinishPace
  <2>3. CASE Returns(b, [Blank EXCEPT !.len = enc.frame_length]) /\ Finish(b, {}) /\ UNCHANGED enc
    <3> DEFINE c == [Blank EXCEPT !.len = enc.frame_length]
    <3>1. Fits(c.len)
      <4>1. c.len = enc.frame_length
        BY DEF Blank
      <4> QED
        BY <1>1, <4>1 DEF RegistersFit
    <3> HIDE DEF c
    <3>2. RegistersFit'
      BY <1>3, <2>1, <2>3, <3>1 DEF c
    <3> QED
      BY <1>1, <2>1, <2>3, <3>2, FinishPace
  <2> QED
    BY <1>6, <2>2, <2>3 DEF Encode
<1>7. CASE Cryptography(b)
  <2> DEFINE d == r.data
             event == IF d.encrypt = 1 THEN "encrypt_event" ELSE "decrypt_event"
             unit == [crypto[b] EXCEPT !.mem_address_src = d.src, !.mem_address_dst = d.dst,
                                       !.length = d.length]
  <2>1. /\ Resumes(b, "moving") /\ r.slave = "crypto" /\ Finish(b, {event})
        /\ crypto' = [crypto EXCEPT ![b] = unit]
        /\ UNCHANGED <<result, enc, up, nic, network_frame>>
    BY <1>7 DEF Cryptography, Moved
  <2>2. Fits(d.length) /\ {event} \in SUBSET Signals
    BY <1>1, <1>2, <2>1 DEF RequestFits
  <2>3. unit.length = d.length /\ unit.bufferInt = crypto[b].bufferInt
    <3> HIDE DEF d
    <3> QED
      BY <1>1 DEF DataOK, RegistersOK
  <2> HIDE DEF d, event, unit
  <2>4. crypto'[b] = unit /\ \A c \in Buses \ {b} : crypto'[c] = crypto[c]
    BY <1>1, <2>1 DEF DataOK, RegistersOK
  <2>5. \A c \in Buses : Fits(crypto'[c].length) /\ Fits(crypto'[c].bufferInt.len)
    BY <1>1, <2>2, <2>3, <2>4 DEF RegistersFit
  <2>6. RegistersFit'
    BY <1>1, <2>1, <2>5 DEF RegistersFit, Fits
  <2> QED
    BY <1>1, <2>1, <2>2, <2>6, FinishPace
<1>8. CASE ConnectionRequest(b)
  BY <1>1, <1>8, UnchangedFits, FinishPace DEF ConnectionRequest, Moved
<1>9. CASE BufferDescriptor(b)
  <2>1. /\ Resumes(b, "moving") /\ r.slave = "nic" /\ r.len = 2 /\ Finish(b, {"read_event"})
        /\ nic' = [nic EXCEPT !.mem_address = r.data.addr, !.packet_length = r.data.length]
        /\ UNCHANGED <<result, enc, up, crypto, network_frame>>
    BY <1>9 DEF BufferDescriptor, Moved
  <2>2. Fits(r.data.length)
    BY <1>2, <2>1 DEF RequestFits
  <2> HIDE DEF r
  <2>3. nic'.packet_length = r.data.length
    BY <1>1, <2>1 DEF DataOK, RegistersOK
  <2>4. RegistersFit'
    BY <1>1, <2>1, <2>2, <2>3 DEF RegistersFit, Fits
  <2> QED
    BY <1>1, <2>1, <2>4, FinishPace
<1>10. CASE DataLength(b)
  <2> DEFINE c == [Blank EXCEPT !.len = network_frame.len]
  <2>1. /\ Resumes(b, "moving") /\ Returns(b, c) /\ Finish(b, {})
        /\ UNCHANGED <<enc, up, crypto, nic, network_frame>>
    BY <1>10 DEF DataLength, Moved
  <2>2. Fits(c.len)
    <3>1. c.len = network_frame.len
      BY DEF Blank
    <3> QED
      BY <1>1, <3>1 DEF RegistersFit
  <2> HIDE DEF c
  <2>3. RegistersFit'
    BY <1>3, <2>1, <2>2
  <2> QED
    BY <1>1, <2>1, <2>3, FinishPace
<1> QED
  BY <1>4, <1>5, <1>6, <1>7, <1>8, <1>9, <1>10 DEF Bus, WaitForBufferDescriptor

LEMMA TickPace ==
  ASSUME IInv, PaceInv, Tick
  PROVE  PaceInv'
<1>1. UNCHANGED <<queue, result, up, crypto, nic, network_frame>> /\ RegistersFit
  BY DEF Tick, PaceInv, LengthsFit
<1>2. PICK d : enc' = [enc EXCEPT !.due = d]
  BY DEF Tick
<1>3. enc'.buffer_ptr = enc.buffer_ptr /\ enc'.frame_length = enc.frame_length
  BY <1>2 DEF IInv, DataOK, RegistersOK
<1>4. RegistersFit' /\ TransfersFit'
  <2>1. RegistersFit'
    BY <1>1, <1>3 DEF RegistersFit, Fits
  <2>2. TransfersFit'
    BY <1>1 DEF PaceInv, LengthsFit, TransfersFit
  <2> QED
    BY <2>1, <2>2
<1> QED
  BY <1>4, TickKeepsPace DEF PaceInv, LengthsFit

LEMMA InitialPace ==
  ASSUME Init
  PROVE  PaceInv
<1>1. /\ "bus1" \in Buses /\ \A b \in Buses : queue[b] = <<>>
      /\ pc["bus1"] = "front" /\ pc["read_file"] = "start"
  BY DEF Init, Threads, Buses, Sender, Receiver
<1>2. Len(<<>>) = 0
  BY EmptySeq
<1>3. RegistersFit
  <2>1. Fits(0) /\ Blank.len = 0
    BY RequestsFit DEF Blank
  <2> QED
    BY <2>1 DEF Init, RegistersFit
<1>4. TransfersFit
  BY <1>1, <1>2 DEF TransfersFit
<1>5. BusOnTime
  BY <1>1 DEF BusOnTime
<1>6. WriteInTime
  BY <1>1, <1>2 DEF WriteInTime, EncoderKeepsPace, Resumes
<1> QED
  BY <1>3, <1>4, <1>5, <1>6 DEF PaceInv, LengthsFit

LEMMA StutteringPace ==
  ASSUME PaceInv, UNCHANGED vars
  PROVE  PaceInv'
<1>1. /\ pc' = pc /\ wait' = wait /\ queue' = queue /\ enc' = enc
      /\ UNCHANGED <<result, up, crypto, nic, network_frame>>
  BY DEF vars
<1>2. RegistersFit' /\ TransfersFit'
  BY <1>1, UnchangedFits DEF PaceInv, LengthsFit, TransfersFit
<1>3. BusOnTime'
  BY <1>1 DEF PaceInv, BusOnTime, IsReady
<1>4. WriteInTime'
  BY <1>1 DEF PaceInv, WriteInTime, EncoderKeepsPace, ServedIn, Resumes, IsReady
<1> QED
  BY <1>2, <1>3, <1>4 DEF PaceInv, LengthsFit

LEMMA PaceInductive ==
  ASSUME IInv, IInv', PaceInv, [Next]_vars
  PROVE  PaceInv'
BY BusPace, CryptoPace, EncoderPace, MicroprocessorPace, NetworkPace, Microprocessor2Pace,
   TickPace, StutteringPace DEF Next

\* No transfer is longer than a block of the memories, and a frame's way into
\* the memory is over before the next frame is due, whatever the lengths.
THEOREM PaceInvariant == Spec => []PaceInv
<1>1. Init => PaceInv
  BY InitialPace
<1>2. IInv /\ IInv' /\ PaceInv /\ [Next]_vars => PaceInv'
  BY PaceInductive
<1> QED
  BY <1>1, <1>2, PipelineInvariant, PTL DEF Spec

\* However long the frames are and however long read_file waits for the bus,
\* it has written each into the memory before the next is due.
THEOREM EncoderInTime == Spec => []EncoderKeepsPace
<1>1. PaceInv => EncoderKeepsPace
  BY DEF PaceInv, WriteInTime
<1> QED
  BY <1>1, PaceInvariant, PTL

=============================================================================
