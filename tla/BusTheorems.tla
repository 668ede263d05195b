----------------------------- MODULE BusTheorems -----------------------------
(***************************************************************************)
(* What the bus promises to its masters and slaves, for any set of         *)
(* masters, any program of transfers that are served, and any clock        *)
(* frequency: the consequences of the inductive invariant.                 *)
(***************************************************************************)
EXTENDS BusProofs

-----------------------------------------------------------------------------
(* Promises about states. *)

LEMMA OneTransferFollows == IInv => OneTransfer
<1>. SUFFICES ASSUME TypeOK, Kept PROVE OneTransfer
  BY IInvParts
<1>1. ASSUME NEW m \in Masters, Transferring(m)
      PROVE  Owner(m) /\ pc["arbiter"] = "done"
  BY <1>1, WhoTransfers DEF Running
<1>2. ASSUME NEW m1 \in Masters, NEW m2 \in Masters, Transferring(m1), Transferring(m2)
      PROVE  m1 = m2
  BY <1>1, <1>2 DEF Owner, OffBus
<1>3. ASSUME NEW s \in Slaves, Serving(s)
      PROVE  Server(s)
  <2>1. ~NoServer
    BY <1>3 DEF NoServer
  <2>2. \A o \in Masters : Accepted(o, s) \/ Running(o, s) => Server(s)
    BY <2>1 DEF Accepted, Running, Acknowledged, Asking, Fetching, Closing, Driving, Taking,
                Taken, Attends
  <2>. QED  BY <1>3, <2>2, WhoServes DEF Leaving
<1>. QED  BY <1>1, <1>2, <1>3 DEF OneTransfer, Owner, Server

LEMMA NextWordFollows == IInv => NextWordOnBus
<1>. SUFFICES ASSUME TypeOK, Kept PROVE NextWordOnBus
  BY IInvParts
<1>1. ASSUME NEW m \in Masters, pc[m] = "latch"
      PROVE  /\ busData.src \in Slaves
             /\ Claims(busData.src, job[m].addr, job[m].len)
             /\ busData.idx = moved[m] + 1
  <2>1. PICK s \in Slaves : Running(m, s)
    BY <1>1, WhoTransfers DEF Transferring
  <2>2. Fetching(m, s) /\ Listened = job[m]
    BY <1>1, <2>1 DEF Running, Owner, Acknowledged, Asking, Closing, Driving, Taking, Taken
  <2>3. busData.src = s /\ busData.idx = Count + 1 /\ moved[m] = Count
    BY <2>2 DEF Fetching
  <2>4. Claims(s, job[m].addr, job[m].len)
    BY <2>2 DEF Fetching, Addressed, Listened
  <2>. QED  BY <2>3, <2>4
<1>2. ASSUME NEW s \in Slaves, Resumes(s, "receive")
      PROVE  /\ busData.src \in Masters
             /\ mstId[busData.src] = currentReq.id
             /\ busData.idx = moved[s] + 1
  <2>1. pc[s] = "receive" /\ IsReady(s) /\ Serving(s)
    BY <1>2 DEF Resumes, Serving
  <2>2. ~Leaving(s) /\ \A o \in Masters : ~Accepted(o, s)
    BY <2>1 DEF Leaving, Accepted, Attends
  <2>3. PICK o \in Masters : Running(o, s)
    BY <2>1, <2>2, WhoServes
  <2>4. Taking(o, s) /\ currentReq.id = mstId[o]
    BY <2>1, <2>3 DEF Running, Owner, Acknowledged, Asking, Fetching, Closing, Driving, Taken,
                      Attends, NoServer
  <2>. QED  BY <2>4 DEF Taking
<1>. QED  BY <1>1, <1>2 DEF NextWordOnBus

LEMMA NothingStuckFollows == IInv => NothingStuck
<1>. SUFFICES ASSUME TypeOK, WaitsOK, Kept,
                     \A t \in Threads : ~IsReady(t) /\ wait[t].time = 0
              PROVE  /\ queue = <<>>
                     /\ pc["arbiter"] = "front"
                     /\ \A m \in Masters : pc[m] = "away"
                     /\ \A s \in Slaves : pc[s] = "listen"
  BY IInvParts DEF NothingStuck
<1>1. \A t \in Threads : ~IsReady(t) /\ pc[t] \notin Timed
  BY DEF WaitsOK
<1>2. /\ ~IsReady("arbiter") /\ pc["arbiter"] \notin Timed
      /\ \A m \in Masters : ~IsReady(m) /\ pc[m] \notin Timed
      /\ \A s \in Slaves : ~IsReady(s) /\ pc[s] \notin Timed
  BY <1>1, Names
<1>3. ~Over /\ (\A o \in Masters : ~Offered(o)) /\ (\A s \in Slaves : ~Leaving(s))
  BY <1>2 DEF Over, Offered, Leaving, Timed
<1>4. ASSUME NEW o \in Masters, NEW s \in Slaves PROVE ~Accepted(o, s) /\ ~Running(o, s)
  BY <1>2 DEF Accepted, Running, Acknowledged, Asking, Fetching, Closing, Driving, Taking,
              Taken, Timed
<1>5. Idle
  BY <1>3, <1>4 DEF Kept, Phase
<1>6. queue = <<>> /\ pc["arbiter"] = "front" /\ NoOwner /\ NoServer
  BY <1>2, <1>5 DEF Idle
<1>7. ASSUME NEW s \in Slaves PROVE pc[s] = "listen"
  BY <1>2, <1>6, Segments DEF NoServer, Serving, SlaveSegment, Timed
<1>8. ASSUME NEW m \in Masters PROVE pc[m] = "away"
  <2>1. pc[m] # "granted"
    BY <1>6 DEF NoOwner, OffBus, Queued
  <2>2. pc[m] # "connecting"
    BY <1>2, <1>7, Names DEF Kept, ConnectionOK
  <2>. QED  BY <1>2, <1>6, <2>1, <2>2, Segments DEF NoOwner, OffBus, Transferring, MasterSegment,
                                                 Timed
<1>. QED  BY <1>6, <1>7, <1>8

LEMMA AnswerFollows == IInv => AnswerReachesMaster
<1>. SUFFICES ASSUME TypeOK, Kept, NEW m \in Masters, pc[m] = "granted", ~Queued(m)
              PROVE  pc["arbiter"] # "front" /\ currentReq.id = mstId[m]
  BY IInvParts DEF AnswerReachesMaster, Queued
<1>1. ~NoOwner /\ \A o \in Masters : Owner(o) => o = m
  BY DEF NoOwner, Owner, OffBus
<1>. QED  BY <1>1 DEF Kept, Phase, Idle, Over, Offered, Accepted, Running, Leaving, Owner

LEMMA AcknowledgedFollows == IInv => AlwaysAcknowledged
BY DEF IInv, AlwaysAcknowledged, Phase, Idle, Over, Offered, Accepted, Running, Leaving

\* The bus belongs to one master and one slave at a time, and both serve the
\* request that the arbiter took from the queue (currentReq is one variable
\* that every party of Project.cpp reads).
THEOREM BusIsExclusive == Spec => []OneTransfer
BY InvariantHolds, OneTransferFollows, PTL

\* The word that a thread takes from busData is the next one of its own
\* transfer, driven by the other party (the handshakes of MstReadData,
\* SlvSendReadData, MstWriteData and SlvReceiveWriteData).
THEOREM WordsInOrder == Spec => []NextWordOnBus
BY InvariantHolds, NextWordFollows, PTL

\* Although notify() is lost on a thread that does not wait yet, the threads
\* of the bus never all wait for each other: if nothing is ready and no timer
\* runs, nobody wants anything of the bus.
THEOREM NoHandshakeLost == Spec => []NothingStuck
BY InvariantHolds, NothingStuckFollows, PTL

\* A master that waits for master_ack is one the arbiter will still answer.
THEOREM NoMasterForgotten == Spec => []AnswerReachesMaster
BY InvariantHolds, AnswerFollows, PTL

\* A request that is served is acknowledged before the arbiter's three cycles
\* are over: MasterDataTransfer never returns a null pointer.
THEOREM NoTimeout == Spec => []AlwaysAcknowledged
BY InvariantHolds, AcknowledgedFollows, PTL

-----------------------------------------------------------------------------
(* Promises about steps. *)

\* A step leaves the request being served alone, or moves one of its words,
\* or is the arbiter turning to the next one while the bus is free.
SameRequest == Listened' = Listened /\ currentReq'.id = currentReq.id

\* Whether the arbiter serves a request does not change.
SameTurn == pc'["arbiter"] = "front" <=> pc["arbiter"] = "front"

NothingMoves == SameRequest /\ SameTurn /\ UNCHANGED queue /\ Count' = Count

WordMoves ==
  /\ SameRequest /\ UNCHANGED queue
  /\ pc["arbiter"] = "done" /\ pc'["arbiter"] = "done"
  /\ Count < Length /\ Count' = Count + 1

MasterQueues ==
  /\ SameRequest /\ SameTurn /\ Count' = Count
  /\ \E m \in Masters : /\ job[m] \in Program[m]
                         /\ queue' = Append(queue, BusRequest(mstId[m], job[m]))

ArbiterTurns ==
  /\ NoOwner /\ NoServer
  /\ pc["arbiter"] = "front" \/ (pc["arbiter"] = "done" /\ Count = Length)
  /\ \/ /\ queue # <<>> /\ pc'["arbiter"] = "polled"
        /\ currentReq' = Head(queue) /\ queue' = Tail(queue) /\ Count' = 0
     \/ /\ queue = <<>> /\ queue' = <<>>
        /\ pc["arbiter"] = "done" /\ pc'["arbiter"] = "front"

LEMMA RequestSteps ==
  ASSUME IInv, [Next]_vars
  PROVE  NothingMoves \/ WordMoves \/ MasterQueues \/ ArbiterTurns
<1>. TypeOK /\ WaitsOK /\ Kept
  BY IInvParts
<1>1. UNCHANGED <<queue, currentReq>> /\ SameTurn => NothingMoves
  BY DEF NothingMoves, SameRequest, Listened, Count
<1>2. ASSUME currentReq' = [currentReq EXCEPT !.bytesTransferred = @ + 1], UNCHANGED queue,
             Count < Length, pc["arbiter"] = "done", pc'["arbiter"] = "done"
      PROVE  WordMoves
  BY <1>2 DEF WordMoves, SameRequest, Listened, Count, TypeOK, QueuedRequest
<1>3. pc \in [Threads -> ArbiterSegment \cup MasterSegment \cup SlaveSegment]
  BY DEF TypeOK
<1>4. ASSUME NEW t \in Masters \cup Slaves, NEW seg, NEW w, NEW fired, Suspend(t, seg, w, fired)
      PROVE  pc'["arbiter"] = pc["arbiter"]
  BY <1>3, <1>4, Names DEF Suspend
<1>5. ASSUME NEW m \in Masters, NEW i, NEW fired, MstLoop(m, i, fired)
      PROVE  pc'["arbiter"] = pc["arbiter"]
  BY <1>4, <1>5 DEF MstLoop, Return
<1>6. ASSUME NEW s \in Slaves, NEW r, NEW i, NEW fired, SlvLoop(s, r, i, fired)
      PROVE  pc'["arbiter"] = pc["arbiter"]
  BY <1>4, <1>6 DEF SlvLoop
<1>7. CASE Tick \/ UNCHANGED vars
  BY <1>1, <1>7 DEF Tick, Elapse, vars, SameTurn
<1>8. CASE ArbiterPolled \/ ArbiterAnswer
  <2>1. PICK o \in Masters, s \in Slaves : Accepted(o, s)
    BY <1>8 DEF ArbiterPolled, ArbiterAnswer, Resumes, Kept, Phase, Idle, Over, Offered, Running,
                Leaving
  <2>2. /\ Suspend("arbiter", "answer", For(Cycle), {})
           \/ Suspend("arbiter", "done", On("end_of_transfer"), {"master_ack"})
        /\ pc["arbiter"] # "front"
        /\ UNCHANGED <<queue, currentReq>>
    BY <1>8, <2>1 DEF ArbiterPolled, ArbiterAnswer, Accepted, Resumes
  <2>3. SameTurn
    BY <1>3, <2>2, Names DEF Suspend, SameTurn
  <2>. QED  BY <1>1, <2>2, <2>3
<1>9. CASE ArbiterFront \/ ArbiterDone
  <2>1. /\ NoOwner /\ NoServer
        /\ pc["arbiter"] = "front" \/ (pc["arbiter"] = "done" /\ Count = Length)
    <3>1. CASE ArbiterFront
      <4>1. pc["arbiter"] = "front"
        BY <3>1 DEF ArbiterFront, Resumes
      <4>2. Idle
        BY <4>1 DEF Kept, Phase, Over, Offered, Accepted, Running, Leaving
      <4>. QED  BY <4>1, <4>2 DEF Idle
    <3>2. CASE ArbiterDone
      <4>1. pc["arbiter"] = "done" /\ IsReady("arbiter")
        BY <3>2 DEF ArbiterDone, Resumes
      <4>2. Over
        BY <4>1 DEF Kept, Phase, Idle, Offered, Accepted, Running, Leaving
      <4>. QED  BY <4>1, <4>2 DEF Over
    <3>. QED  BY <1>9, <3>1, <3>2
  <2>2. CASE Grant({})
    <3>1. /\ queue # <<>> /\ pc'["arbiter"] = "polled"
          /\ currentReq' = Head(queue) /\ queue' = Tail(queue)
      BY <1>3, <2>2, Names DEF Grant, Suspend
    <3>2. Count' = 0
      BY <3>1, OldestRequest DEF Kept, Count, BusRequest
    <3>. QED  BY <2>1, <3>1, <3>2 DEF ArbiterTurns
  <2>3. CASE /\ queue = <<>>
             /\ Suspend("arbiter", "front", On("bus_request"), {})
             /\ UNCHANGED <<queue, currentReq, receivedResponse>>
             /\ ArbiterDone
    <3>1. queue' = <<>> /\ pc["arbiter"] = "done" /\ pc'["arbiter"] = "front"
      BY <1>3, <2>3, Names DEF Suspend, ArbiterDone, Resumes
    <3>. QED  BY <2>1, <2>3, <3>1 DEF ArbiterTurns
  <2>. QED  BY <1>9, <2>2, <2>3 DEF ArbiterFront, ArbiterDone, ArbiterLoop
<1>10. ASSUME NEW m \in Masters, MasterDataTransfer(m) \/ Master(m)
       PROVE  NothingMoves \/ WordMoves \/ MasterQueues
  <2>1. pc'["arbiter"] = pc["arbiter"] /\ SameTurn
    <3>1. pc'["arbiter"] = pc["arbiter"]
      BY <1>4, <1>5, <1>10 DEF MasterDataTransfer, Master, MstBusRequest, MstGranted, MstReadData,
                              MstLatch, MstClose, MstWriteData, MstWritten, ConnectionReady, Return
    <3>. QED  BY <3>1 DEF SameTurn
  <2>2. CASE MstBusRequest(m)
    <3>1. /\ job[m] \in Program[m]
          /\ queue' = Append(queue, BusRequest(mstId[m], job[m])) /\ UNCHANGED currentReq
      BY <2>2 DEF MstBusRequest, Resumes, Kept, JobsOK
    <3>. QED  BY <2>1, <3>1 DEF MasterQueues, SameRequest, Listened, Count
  <2>3. CASE MstLatch(m)
    <3>1. /\ pc[m] = "latch"
          /\ currentReq' = [currentReq EXCEPT !.bytesTransferred = @ + 1] /\ UNCHANGED queue
      BY <2>3 DEF MstLatch, Resumes
    <3>2. PICK s \in Slaves : Running(m, s)
      BY <3>1, WhoTransfers DEF Transferring
    <3>3. Fetching(m, s) /\ pc["arbiter"] = "done"
      BY <3>1, <3>2 DEF Running, Acknowledged, Asking, Closing, Driving, Taking, Taken
    <3>4. Count < Length
      <4>1. Count + 1 = Length \/ Count + 1 < Length
        BY <3>3 DEF Fetching
      <4>2. Count \in Nat /\ Length \in Nat
        BY <3>2, Parties
      <4>. QED  BY <4>1, <4>2
    <3>. QED  BY <1>2, <2>1, <3>1, <3>3, <3>4
  <2>4. CASE ~MstBusRequest(m) /\ ~MstLatch(m)
    <3>1. UNCHANGED <<queue, currentReq>>
      BY <1>10, <2>4 DEF MasterDataTransfer, Master, MstGranted, MstReadData, MstClose,
                         MstWriteData, MstWritten, ConnectionReady
    <3>. QED  BY <1>1, <2>1, <3>1
  <2>. QED  BY <2>2, <2>3, <2>4
<1>11. ASSUME NEW s \in Slaves, Slave(s)
       PROVE  NothingMoves \/ WordMoves
  <2>1. pc'["arbiter"] = pc["arbiter"] /\ SameTurn
    <3>1. pc'["arbiter"] = pc["arbiter"]
      BY <1>4, <1>6, <1>11 DEF Slave, SlvListen, SlvSendReadData, SlvReceiveWriteData, SlvClose,
                              SetupTcpConnection
    <3>. QED  BY <3>1 DEF SameTurn
  <2>2. CASE SlvReceiveWriteData(s)
    <3>1. /\ pc[s] = "receive" /\ IsReady(s) /\ Serving(s)
          /\ currentReq' = [currentReq EXCEPT !.bytesTransferred = @ + 1] /\ UNCHANGED queue
      BY <2>2 DEF SlvReceiveWriteData, Resumes, Serving
    <3>2. ~Leaving(s) /\ \A o \in Masters : ~Accepted(o, s)
      BY <3>1 DEF Leaving, Accepted, Attends
    <3>3. PICK o \in Masters : Running(o, s)
      BY <3>1, <3>2, WhoServes
    <3>4. Taking(o, s) /\ pc["arbiter"] = "done"
      BY <3>1, <3>3 DEF Running, Acknowledged, Asking, Fetching, Closing, Driving, Taken, Attends,
                        NoServer
    <3>. QED  BY <1>2, <2>1, <3>1, <3>4 DEF Taking
  <2>3. CASE ~SlvReceiveWriteData(s)
    <3>1. UNCHANGED <<queue, currentReq>>
      BY <1>11, <2>3 DEF Slave, SlvListen, SlvSendReadData, SlvClose, SetupTcpConnection
    <3>. QED  BY <1>1, <2>1, <3>1
  <2>. QED  BY <2>2, <2>3
<1>. QED  BY <1>7, <1>8, <1>9, <1>10, <1>11 DEF Next, Arbiter

\* While a master or a slave moves words, the request that both read from
\* currentReq stays the same (the arbiter writes the same variable).
THEOREM RequestStays == Spec => CurrentReqStable
<1>1. IInv /\ [Next]_vars =>
        [(\E t \in Masters : Transferring(t)) \/ (\E s \in Slaves : Serving(s)) =>
           /\ Listened' = Listened
           /\ currentReq'.id = currentReq.id]_vars
  BY RequestSteps DEF NothingMoves, WordMoves, MasterQueues, ArbiterTurns, SameRequest,
                      NoOwner, NoServer, OffBus
<1>. QED  BY <1>1, InvariantHolds, PTL DEF Spec, CurrentReqStable

-----------------------------------------------------------------------------
(* The bus implements a line of transactions. *)

AskedRequest == [id : Nat, rdnwr : BOOLEAN, addr : Nat, len : Nat]
AskedAll(q) == [i \in 1..Len(q) |-> Asked(q[i])]

LEMMA AskedSeq ==
  ASSUME NEW q \in Seq(QueuedRequest)
  PROVE  AskedAll(q) \in Seq(AskedRequest) /\ Len(AskedAll(q)) = Len(q)
<1>1. Len(q) \in Nat /\ \A i \in 1..Len(q) : q[i] \in QueuedRequest
  OBVIOUS
<1>2. AskedAll(q) \in [1..Len(q) -> AskedRequest]
  BY <1>1 DEF AskedAll, Asked, QueuedRequest, AskedRequest
<1>. QED  BY <1>1, <1>2

LEMMA AskedCons ==
  ASSUME NEW r \in QueuedRequest, NEW q \in Seq(QueuedRequest)
  PROVE  AskedAll(<<r>> \o q) = <<Asked(r)>> \o AskedAll(q)
<1>1. Asked(r) \in AskedRequest
  BY DEF Asked, QueuedRequest, AskedRequest
<1>2. /\ <<r>> \o q \in Seq(QueuedRequest)
      /\ Len(<<r>> \o q) = Len(q) + 1
      /\ \A i \in 1..(Len(q) + 1) : (<<r>> \o q)[i] = IF i = 1 THEN r ELSE q[i - 1]
  OBVIOUS
<1>3. /\ <<Asked(r)>> \o AskedAll(q) \in Seq(AskedRequest)
      /\ Len(<<Asked(r)>> \o AskedAll(q)) = Len(q) + 1
      /\ \A i \in 1..(Len(q) + 1) :
           (<<Asked(r)>> \o AskedAll(q))[i] = IF i = 1 THEN Asked(r) ELSE AskedAll(q)[i - 1]
  BY <1>1, AskedSeq
<1>4. /\ AskedAll(<<r>> \o q) \in Seq(AskedRequest)
      /\ Len(AskedAll(<<r>> \o q)) = Len(q) + 1
  BY <1>2, AskedSeq
<1>5. ASSUME NEW i \in 1..(Len(q) + 1)
      PROVE  AskedAll(<<r>> \o q)[i] = (<<Asked(r)>> \o AskedAll(q))[i]
  <2>1. AskedAll(<<r>> \o q)[i] = Asked((<<r>> \o q)[i])
    BY <1>2 DEF AskedAll
  <2>2. i # 1 => i - 1 \in 1..Len(q)
    OBVIOUS
  <2>3. i # 1 => AskedAll(q)[i - 1] = Asked(q[i - 1])
    BY <2>2 DEF AskedAll
  <2>. QED  BY <1>2, <1>3, <2>1, <2>3
<1>. QED  BY <1>3, <1>4, <1>5, SeqEqual

LEMMA AskedAppend ==
  ASSUME NEW r \in QueuedRequest, NEW q \in Seq(QueuedRequest)
  PROVE  AskedAll(Append(q, r)) = Append(AskedAll(q), Asked(r))
<1>1. Asked(r) \in AskedRequest
  BY DEF Asked, QueuedRequest, AskedRequest
<1>2. /\ Append(q, r) \in Seq(QueuedRequest) /\ Len(Append(q, r)) = Len(q) + 1
      /\ \A i \in 1..(Len(q) + 1) : Append(q, r)[i] = IF i = Len(q) + 1 THEN r ELSE q[i]
  OBVIOUS
<1>3. /\ Append(AskedAll(q), Asked(r)) \in Seq(AskedRequest)
      /\ Len(Append(AskedAll(q), Asked(r))) = Len(q) + 1
      /\ \A i \in 1..(Len(q) + 1) :
           Append(AskedAll(q), Asked(r))[i] = IF i = Len(q) + 1 THEN Asked(r) ELSE AskedAll(q)[i]
  BY <1>1, AskedSeq
<1>4. /\ AskedAll(Append(q, r)) \in Seq(AskedRequest)
      /\ Len(AskedAll(Append(q, r))) = Len(q) + 1
  BY <1>2, AskedSeq
<1>5. ASSUME NEW i \in 1..(Len(q) + 1)
      PROVE  AskedAll(Append(q, r))[i] = Append(AskedAll(q), Asked(r))[i]
  <2>1. AskedAll(Append(q, r))[i] = Asked(Append(q, r)[i])
    BY <1>2 DEF AskedAll
  <2>2. i # Len(q) + 1 => AskedAll(q)[i] = Asked(q[i])
    BY DEF AskedAll
  <2>. QED  BY <1>2, <1>3, <2>1, <2>2
<1>. QED  BY <1>3, <1>4, <1>5, SeqEqual

LEMMA InitLine == Init => Line!Init
<1>. SUFFICES ASSUME Init PROVE WaitingLine = <<>> /\ WordsMoved = 0
  BY DEF Line!Init
<1>1. pc["arbiter"] = "front" /\ queue = <<>>
  BY Names DEF Init
<1>2. Waiting = <<>> /\ WordsMoved = 0
  BY <1>1 DEF Waiting, InService, WordsMoved
<1>. QED  BY <1>2 DEF WaitingLine

\* What the four kinds of step do to the line.
LEMMA NextLine ==
  ASSUME IInv, TypeOK', [Next]_vars
  PROVE  [Line!Next]_<<WaitingLine, WordsMoved>>
<1>. TypeOK
  BY DEF IInv
<1>1. /\ queue \in Seq(QueuedRequest) /\ currentReq \in QueuedRequest
      /\ queue' \in Seq(QueuedRequest) /\ currentReq' \in QueuedRequest
      /\ AskedAll(queue) \in Seq(AskedRequest) /\ Asked(currentReq) \in AskedRequest
  BY AskedSeq DEF TypeOK, Asked, QueuedRequest, AskedRequest
<1>2. /\ InService => WaitingLine = <<Asked(currentReq)>> \o AskedAll(queue)
      /\ ~InService => WaitingLine = AskedAll(queue)
  <2>1. WaitingLine = AskedAll(Waiting)
    BY DEF WaitingLine, AskedAll
  <2>. QED  BY <1>1, <2>1, AskedCons DEF Waiting
<1>3. /\ InService' => WaitingLine' = <<Asked(currentReq')>> \o AskedAll(queue')
      /\ ~InService' => WaitingLine' = AskedAll(queue')
  <2>1. WaitingLine' = AskedAll(Waiting')
    BY DEF WaitingLine, AskedAll, Asked
  <2>. QED  BY <1>1, <2>1, AskedCons DEF Waiting
<1>4. SameRequest => Asked(currentReq') = Asked(currentReq)
  BY DEF SameRequest, Listened, Asked
<1>5. CASE NothingMoves
  <2>1. InService' <=> InService
    BY <1>5 DEF NothingMoves, SameTurn, InService
  <2>2. WaitingLine' = WaitingLine
    BY <1>2, <1>3, <1>4, <1>5, <2>1 DEF NothingMoves
  <2>3. WordsMoved' = WordsMoved
    BY <1>5, <2>1 DEF NothingMoves, WordsMoved, Count
  <2>. QED  BY <2>2, <2>3
<1>6. CASE WordMoves
  <2>1. InService' /\ InService
    BY <1>6 DEF WordMoves, InService
  <2>2. WaitingLine' = WaitingLine /\ WaitingLine = <<Asked(currentReq)>> \o AskedAll(queue)
    BY <1>2, <1>3, <1>4, <1>6, <2>1 DEF WordMoves
  <2>3. WordsMoved = Count /\ WordsMoved' = Count + 1 /\ Count < Length
    BY <1>6, <2>1 DEF WordMoves, WordsMoved, Count
  <2>4. WaitingLine # <<>> /\ Head(WaitingLine).len = Length
    <3>1. WaitingLine # <<>> /\ Head(WaitingLine) = Asked(currentReq)
      BY <1>1, <2>2
    <3>. QED  BY <3>1 DEF Asked, Length
  <2>5. Line!MoveWord
    BY <2>2, <2>3, <2>4 DEF Line!MoveWord
  <2>. QED  BY <2>5 DEF Line!Next
<1>7. CASE MasterQueues
  <2>1. InService' <=> InService
    BY <1>7 DEF MasterQueues, SameTurn, InService
  <2>2. PICK m \in Masters : /\ job[m] \in Program[m]
                             /\ queue' = Append(queue, BusRequest(mstId[m], job[m]))
    BY <1>7 DEF MasterQueues
  <2>3. PICK r \in QueuedRequest : /\ Asked(r) \in Transactions
                                   /\ queue' = Append(queue, r)
    <3>1. BusRequest(mstId[m], job[m]) \in QueuedRequest
      BY RequestTypes DEF TypeOK
    <3>2. Asked(BusRequest(mstId[m], job[m])) \in Transactions
      BY <2>2 DEF Transactions
    <3>. QED  BY <2>2, <3>1, <3>2
  <2>4. AskedAll(queue') = Append(AskedAll(queue), Asked(r)) /\ Asked(r) \in AskedRequest
    <3>1. Asked(r) \in AskedRequest
      BY DEF Asked, QueuedRequest, AskedRequest
    <3>. QED  BY <1>1, <2>3, <3>1, AskedAppend
  <2>5. WaitingLine' = Append(WaitingLine, Asked(r))
    <3>1. CASE InService
      <4>1. /\ WaitingLine' = <<Asked(currentReq)>> \o Append(AskedAll(queue), Asked(r))
            /\ WaitingLine = <<Asked(currentReq)>> \o AskedAll(queue)
        BY <1>2, <1>3, <1>4, <1>7, <2>1, <2>4, <3>1 DEF MasterQueues
      <4>. QED  BY <1>1, <2>4, <4>1
    <3>2. CASE ~InService
      BY <1>2, <1>3, <2>1, <2>4, <3>2
    <3>. QED  BY <3>1, <3>2
  <2>6. WordsMoved' = WordsMoved
    BY <1>7, <2>1 DEF MasterQueues, WordsMoved, Count
  <2>7. Line!Ask
    BY <2>3, <2>5, <2>6 DEF Line!Ask
  <2>. QED  BY <2>7 DEF Line!Next
<1>8. CASE ArbiterTurns
  <2>1. WaitingLine' = AskedAll(queue) /\ WordsMoved' = 0
    <3>1. CASE queue = <<>>
      <4>1. ~InService' /\ queue' = queue
        BY <1>8, <3>1 DEF ArbiterTurns, InService
      <4>. QED  BY <1>3, <4>1 DEF WordsMoved
    <3>2. CASE queue # <<>>
      <4>1. /\ InService' /\ WordsMoved' = 0
            /\ currentReq' = Head(queue) /\ queue' = Tail(queue)
        BY <1>8, <3>2 DEF ArbiterTurns, InService, WordsMoved, Count
      <4>2. queue = <<currentReq'>> \o queue'
        BY <1>1, <3>2, <4>1
      <4>3. AskedAll(queue) = <<Asked(currentReq')>> \o AskedAll(queue')
        BY <1>1, <4>2, AskedCons
      <4>. QED  BY <1>3, <4>1, <4>3
    <3>. QED  BY <3>1, <3>2
  <2>2. CASE ~InService
    <3>1. WordsMoved = 0 /\ WaitingLine = AskedAll(queue)
      BY <1>2, <2>2 DEF WordsMoved
    <3>. QED  BY <2>1, <3>1
  <2>3. CASE InService
    <3>1. /\ WaitingLine = <<Asked(currentReq)>> \o AskedAll(queue)
          /\ WordsMoved = Length /\ Asked(currentReq).len = Length
      BY <1>2, <1>8, <2>3 DEF ArbiterTurns, InService, WordsMoved, Count, Asked, Length
    <3>2. /\ WaitingLine # <<>>
          /\ Head(WaitingLine) = Asked(currentReq)
          /\ Tail(WaitingLine) = AskedAll(queue)
      BY <1>1, <3>1
    <3>3. Line!Complete
      BY <2>1, <3>1, <3>2 DEF Line!Complete
    <3>. QED  BY <3>3 DEF Line!Next
  <2>. QED  BY <2>2, <2>3
<1>. QED  BY <1>5, <1>6, <1>7, <1>8, RequestSteps

\* The bus implements a line: requests are served in the order in which
\* MstBusRequest queued them, one at a time, each with exactly its words (the
\* queue, currentReq and the two counters of words in Project.cpp).
THEOREM ImplementsLine == Spec => ServesInOrder
<1>1. Init => Line!Init
  BY InitLine
<1>2. IInv /\ TypeOK' /\ [Next]_vars => [Line!Next]_<<WaitingLine, WordsMoved>>
  BY NextLine
<1>. QED  BY <1>1, <1>2, InvariantHolds, TypeCorrect, PTL DEF Spec, ServesInOrder, Line!Safe

=============================================================================
