------------------------------ MODULE BusProofs ------------------------------
(***************************************************************************)
(* Theorems about the bus, for any set of masters, any program that is     *)
(* served, and any clock frequency: its address map and its types; then    *)
(* that the invariant IInv is inductive.                                   *)
(*                                                                         *)
(* The proof of the latter looks at a step through a view of the           *)
(* scheduler: which thread ends its segment, which one it runs next, and   *)
(* which threads become ready.                                             *)
(***************************************************************************)
EXTENDS BusInv, SequenceTheorems, TLAPS

-----------------------------------------------------------------------------
(* The address map. *)

\* No address belongs to two slaves: at most one slave acknowledges a request
\* for at least one word (the four comparisons that the slaves make after
\* SlvListen).
THEOREM AtMostOneClaims ==
  ASSUME NEW s1 \in Slaves, NEW s2 \in Slaves,
         NEW addr \in Nat, NEW len \in Nat \ {0},
         Claims(s1, addr, len), Claims(s2, addr, len)
  PROVE  s1 = s2
BY DEF Slaves, Claims, StartAddr, EndAddr, NIC_START_ADDR, NIC_END_ADDR,
       CRYPTO_START_ADDR, CRYPTO_END_ADDR, ENCODER_START_ADDR, ENCODER_END_ADDR,
       MEM_START_ADDR, MEM_SIZE

-----------------------------------------------------------------------------
(* Type correctness. *)

WaitRecord == [event : Event, time : Nat]

\* Segment seg is one that thread t has.
SegmentOf(t, seg) ==
  /\ seg \in ArbiterSegment \cup MasterSegment \cup SlaveSegment
  /\ t = "arbiter" => seg \in ArbiterSegment
  /\ t \in Masters => seg \in MasterSegment
  /\ t \in Slaves => seg \in SlaveSegment

\* The part of the type invariant that is about the scheduler's variables.
ControlOK ==
  /\ pc \in [Threads -> ArbiterSegment \cup MasterSegment \cup SlaveSegment]
  /\ \A t \in Threads : SegmentOf(t, pc[t])
  /\ wait \in [Threads -> WaitRecord]

\* And the part that is about the bus's own.
DataOK ==
  /\ queue \in Seq(QueuedRequest)
  /\ currentReq \in QueuedRequest
  /\ receivedResponse \in BOOLEAN
  /\ busData \in [src : Threads, idx : Nat]
  /\ job \in [Masters -> Request]
  /\ heard \in [Slaves -> Request]
  /\ moved \in [Masters \cup Slaves -> Nat]

LEMMA TypeOKParts == TypeOK <=> ControlOK /\ DataOK
BY MastersAssumption DEF TypeOK, ControlOK, DataOK, SegmentOf, WaitRecord, Threads

LEMMA Durations == Cycle \in Nat /\ ThreeCycles \in Nat /\ SETUP \in Nat
BY ClockAssumption DEF Cycle, ThreeCycles

\* A thread that suspends itself in one of its segments keeps the scheduler's
\* variables well typed.
LEMMA SuspendOK ==
  ASSUME ControlOK, NEW t \in Threads, NEW seg, NEW w \in WaitRecord, NEW fired,
         SegmentOf(t, seg), Suspend(t, seg, w, fired)
  PROVE  ControlOK'
<1>1. pc' = [pc EXCEPT ![t] = seg]
  BY DEF Suspend
<1>2. \A p \in Threads : SegmentOf(p, pc'[p])
  BY <1>1 DEF ControlOK
<1>3. pc' \in [Threads -> ArbiterSegment \cup MasterSegment \cup SlaveSegment]
  BY <1>1 DEF ControlOK, SegmentOf
<1>4. Ready \in WaitRecord
  BY DEF Ready, WaitRecord, Event, NoEvent
<1>5. DOMAIN wait = Threads
  BY DEF ControlOK
<1>6. wait' = [p \in Threads |->
                CASE p = t -> w
                  [] p # t /\ wait[p].event \in fired -> Ready
                  [] OTHER -> wait[p]]
  BY <1>5 DEF Suspend
<1>7. ASSUME NEW p \in Threads PROVE wait'[p] \in WaitRecord
  <2>1. wait[p] \in WaitRecord
    BY DEF ControlOK
  <2>2. wait'[p] = w \/ wait'[p] = Ready \/ wait'[p] = wait[p]
    BY <1>6
  <2>. QED  BY <1>4, <2>1, <2>2
<1>8. wait' \in [Threads -> WaitRecord]
  BY <1>6, <1>7
<1>. QED  BY <1>2, <1>3, <1>8 DEF ControlOK, SegmentOf

LEMMA ElapseOK ==
  ASSUME ControlOK, NEW d \in Nat, Elapse(d)
  PROVE  ControlOK'
<1>1. wait' = [p \in Threads |->
                CASE wait[p].time = 0 -> wait[p]
                  [] wait[p].time = d -> Ready
                  [] OTHER -> [wait[p] EXCEPT !.time = @ - d]]
  BY DEF Elapse, ControlOK
<1>2. ASSUME NEW p \in Threads PROVE wait'[p] \in WaitRecord
  <2>1. wait[p] \in WaitRecord
    BY DEF ControlOK
  <2>2. Ready \in WaitRecord
    BY DEF Ready, WaitRecord, Event, NoEvent
  <2>3. wait[p].time > 0 => [wait[p] EXCEPT !.time = @ - d] \in WaitRecord
    BY <2>1 DEF Elapse, ControlOK, WaitRecord
  <2>4. wait'[p] = CASE wait[p].time = 0 -> wait[p]
                     [] wait[p].time = d -> Ready
                     [] OTHER -> [wait[p] EXCEPT !.time = @ - d]
    BY <1>1
  <2>. QED  BY <2>1, <2>2, <2>3, <2>4 DEF WaitRecord
<1>3. wait' \in [Threads -> WaitRecord]
  BY <1>1, <1>2
<1>. QED  BY <1>3 DEF Elapse, ControlOK, SegmentOf

LEMMA OnOK == \A e \in Event : On(e) \in WaitRecord
BY DEF On, WaitRecord

LEMMA ForOK ==
  /\ For(Cycle) \in WaitRecord
  /\ For(ThreeCycles) \in WaitRecord
  /\ For(SETUP) \in WaitRecord
  /\ ForOrOn(ThreeCycles, "slv_ack") \in WaitRecord
BY Durations DEF For, ForOrOn, WaitRecord, Event, NoEvent

LEMMA RequestTypes ==
  /\ NoRequest \in Request
  /\ \A m \in Masters : \A r \in Request : BusRequest(mstId[m], r) \in QueuedRequest
  /\ currentReq \in QueuedRequest => Listened \in Request
  /\ currentReq \in QueuedRequest =>
       [currentReq EXCEPT !.bytesTransferred = @ + 1] \in QueuedRequest
<1>1. NoRequest \in Request
  BY DEF NoRequest, Request
<1>2. \A m \in Masters : \A r \in Request : BusRequest(mstId[m], r) \in QueuedRequest
  BY MastersAssumption DEF BusRequest, Request, QueuedRequest
<1>3. currentReq \in QueuedRequest => Listened \in Request
  BY DEF Listened, Request, QueuedRequest
<1>4. currentReq \in QueuedRequest =>
        [currentReq EXCEPT !.bytesTransferred = @ + 1] \in QueuedRequest
  BY DEF QueuedRequest
<1>. QED  BY <1>1, <1>2, <1>3, <1>4

LEMMA ArbiterLoopOK ==
  ASSUME ControlOK, DataOK, NEW fired, ArbiterLoop(fired)
  PROVE  /\ ControlOK'
         /\ queue' \in Seq(QueuedRequest)
         /\ currentReq' \in QueuedRequest
         /\ receivedResponse' \in BOOLEAN
<1>. "arbiter" \in Threads
  BY DEF Threads
<1>1. CASE Grant(fired)
  <2>1. SegmentOf("arbiter", "polled")
    BY MastersAssumption DEF SegmentOf, ArbiterSegment, Slaves
  <2>2. ControlOK'
    BY <1>1, <2>1, ForOK, SuspendOK DEF Grant
  <2>3. queue' \in Seq(QueuedRequest) /\ currentReq' \in QueuedRequest
    BY <1>1, HeadTailProperties DEF Grant, DataOK
  <2>. QED  BY <1>1, <2>2, <2>3 DEF Grant
<1>2. CASE ~Grant(fired)
  <2>1. SegmentOf("arbiter", "front")
    BY MastersAssumption DEF SegmentOf, ArbiterSegment, Slaves
  <2>2. On("bus_request") \in WaitRecord
    BY OnOK DEF Event
  <2>3. Suspend("arbiter", "front", On("bus_request"), fired)
    BY <1>2 DEF ArbiterLoop
  <2>4. ControlOK'
    BY <2>1, <2>2, <2>3, SuspendOK
  <2>. QED  BY <1>2, <2>4 DEF ArbiterLoop, DataOK
<1>. QED  BY <1>1, <1>2

LEMMA MstLoopOK ==
  ASSUME ControlOK, DataOK, NEW m \in Masters, NEW i \in Nat, NEW fired, MstLoop(m, i, fired)
  PROVE  /\ ControlOK'
         /\ job' \in [Masters -> Request]
         /\ moved' \in [Masters \cup Slaves -> Nat]
<1>. /\ m \in Threads
     /\ \A seg \in MasterSegment : SegmentOf(m, seg)
  BY MastersAssumption DEF Threads, SegmentOf
<1>1. CASE i < job[m].len /\ job[m].rdnwr
  <2>1. Suspend(m, "read", On("data_ready"), fired \cup {"mst_ready"}) /\ UNCHANGED job
        /\ moved' = [moved EXCEPT ![m] = i]
    BY <1>1 DEF MstLoop, DataOK, Request
  <2>2. ControlOK'
    BY <2>1, SuspendOK, OnOK DEF MasterSegment, Event
  <2>. QED  BY <2>1, <2>2 DEF DataOK
<1>2. CASE i < job[m].len /\ ~job[m].rdnwr
  <2>1. Suspend(m, "drive", For(Cycle), fired) /\ UNCHANGED job
        /\ moved' = [moved EXCEPT ![m] = i]
    BY <1>2 DEF MstLoop, DataOK, Request
  <2>2. ControlOK'
    BY <2>1, SuspendOK, ForOK DEF MasterSegment
  <2>. QED  BY <2>1, <2>2 DEF DataOK
<1>3. CASE ~(i < job[m].len)
  <2>1. Return(m, fired)
    BY <1>3 DEF MstLoop
  <2>2. \/ Suspend(m, "connecting", On("connection_ready"), fired)
        \/ Suspend(m, "away", On("work"), fired)
    BY <2>1 DEF Return
  <2>3. ControlOK'
    BY <2>2, SuspendOK, OnOK DEF MasterSegment, Event
  <2>. QED  BY <2>1, <2>3, RequestTypes DEF Return, DataOK
<1>. QED  BY <1>1, <1>2, <1>3

LEMMA SlvLoopOK ==
  ASSUME ControlOK, DataOK, NEW s \in Slaves, NEW r \in Request, NEW i \in Nat, NEW fired,
         SlvLoop(s, r, i, fired)
  PROVE  /\ ControlOK'
         /\ heard' \in [Slaves -> Request]
         /\ moved' \in [Masters \cup Slaves -> Nat]
<1>. /\ s \in Threads
     /\ \A seg \in SlaveSegment : SegmentOf(s, seg)
  BY MastersAssumption DEF Threads, SegmentOf, Slaves
<1>1. \/ Suspend(s, "send", On("mst_ready"), fired)
      \/ Suspend(s, "receive", On("data_ready"), fired)
      \/ Suspend(s, "setup", For(SETUP), fired)
      \/ Suspend(s, "listen", On("slv_request"), fired)
  BY DEF SlvLoop
<1>2. ControlOK'
  BY <1>1, SuspendOK, OnOK, ForOK DEF SlaveSegment, Event
<1>3. \/ heard' = [heard EXCEPT ![s] = r] /\ moved' = [moved EXCEPT ![s] = i]
      \/ heard' = [heard EXCEPT ![s] = NoRequest] /\ moved' = [moved EXCEPT ![s] = 0]
  BY DEF SlvLoop
<1>4. NoRequest \in Request
  BY RequestTypes
<1>5. heard' \in [Slaves -> Request]
  BY <1>3, <1>4 DEF DataOK
<1>6. moved' \in [Masters \cup Slaves -> Nat]
  BY <1>3 DEF DataOK
<1>. QED  BY <1>2, <1>5, <1>6

-----------------------------------------------------------------------------
LEMMA InitOK == Init => TypeOK
<1>. SUFFICES ASSUME Init PROVE ControlOK /\ DataOK
  BY TypeOKParts
<1>1. \A t \in Threads : SegmentOf(t, pc[t])
  BY MastersAssumption
  DEF Init, Threads, Slaves, SegmentOf, ArbiterSegment, MasterSegment, SlaveSegment
<1>2. pc \in [Threads -> ArbiterSegment \cup MasterSegment \cup SlaveSegment]
  <2>1. pc = [t \in Threads |-> pc[t]]
    BY DEF Init
  <2>. QED  BY <1>1, <2>1 DEF SegmentOf
<1>3. wait \in [Threads -> WaitRecord]
  <2>1. /\ On("bus_request") \in WaitRecord
        /\ On("slv_request") \in WaitRecord
        /\ On("work") \in WaitRecord
    BY OnOK DEF Event
  <2>2. wait = [t \in Threads |-> wait[t]]
    BY DEF Init
  <2>3. \A t \in Threads : wait[t] \in WaitRecord
    BY <2>1 DEF Init
  <2>. QED  BY <2>2, <2>3
<1>4. DataOK
  <2>1. NoRequest \in Request /\ currentReq \in QueuedRequest
    BY DEF Init, NoRequest, Request, BusRequest, QueuedRequest
  <2>2. busData \in [src : Threads, idx : Nat]
    BY DEF Init, Threads
  <2>3. queue \in Seq(QueuedRequest)
    BY DEF Init
  <2>. QED  BY <2>1, <2>2, <2>3 DEF Init, DataOK
<1>. QED  BY <1>1, <1>2, <1>3, <1>4 DEF ControlOK

LEMMA ArbiterOK == ControlOK /\ DataOK /\ Arbiter => ControlOK' /\ DataOK'
<1>. SUFFICES ASSUME ControlOK, DataOK, Arbiter PROVE ControlOK' /\ DataOK'
  OBVIOUS
<1>. /\ "arbiter" \in Threads
     /\ \A seg \in ArbiterSegment : SegmentOf("arbiter", seg)
  BY MastersAssumption DEF Threads, SegmentOf, Slaves
<1>1. CASE ArbiterFront
  BY <1>1, ArbiterLoopOK DEF ArbiterFront, ArbiterLoop, DataOK
<1>2. CASE ArbiterPolled
  BY <1>2, SuspendOK, ForOK DEF ArbiterPolled, ArbiterSegment, DataOK
<1>3. CASE ArbiterAnswer /\ ArbiterLoop({"master_ack"})
  BY <1>3, ArbiterLoopOK DEF ArbiterAnswer, DataOK
<1>4. CASE ArbiterAnswer /\ ~ArbiterLoop({"master_ack"})
  BY <1>4, SuspendOK, OnOK DEF ArbiterAnswer, ArbiterSegment, Event, DataOK
<1>5. CASE ArbiterDone
  BY <1>5, ArbiterLoopOK DEF ArbiterDone, DataOK
<1>. QED  BY <1>1, <1>2, <1>3, <1>4, <1>5 DEF Arbiter

LEMMA MasterOK ==
  ASSUME ControlOK, DataOK, NEW m \in Masters, MasterDataTransfer(m) \/ Master(m)
  PROVE  ControlOK' /\ DataOK'
<1>. /\ m \in Threads
     /\ \A seg \in MasterSegment : SegmentOf(m, seg)
  BY MastersAssumption DEF Threads, SegmentOf
<1>. [currentReq EXCEPT !.bytesTransferred = @ + 1] \in QueuedRequest
  BY RequestTypes DEF DataOK
<1>1. CASE MasterDataTransfer(m)
  <2>1. job' \in [Masters -> Request]
    BY <1>1, ProgramAssumption DEF MasterDataTransfer, DataOK
  <2>2. ControlOK'
    BY <1>1, SuspendOK, ForOK DEF MasterDataTransfer, MasterSegment
  <2>. QED  BY <1>1, <2>1, <2>2 DEF MasterDataTransfer, DataOK
<1>2. CASE MstBusRequest(m)
  <2>1. queue' \in Seq(QueuedRequest)
    <3>1. BusRequest(mstId[m], job[m]) \in QueuedRequest
      BY RequestTypes DEF DataOK
    <3>. QED  BY <1>2, <3>1 DEF MstBusRequest, DataOK
  <2>2. ControlOK'
    BY <1>2, SuspendOK, OnOK DEF MstBusRequest, MasterSegment, Event
  <2>. QED  BY <1>2, <2>1, <2>2 DEF MstBusRequest, DataOK
<1>3. CASE MstGranted(m)
  <2>1. CASE MstLoop(m, 0, {})
    BY <1>3, <2>1, MstLoopOK DEF MstGranted, DataOK
  <2>2. CASE Return(m, {})
    <3>1. ControlOK'
      BY <2>2, SuspendOK, OnOK DEF Return, MasterSegment, Event
    <3>2. NoRequest \in Request
      BY RequestTypes
    <3>. QED  BY <1>3, <2>2, <3>1, <3>2 DEF MstGranted, Return, DataOK
  <2>3. CASE Suspend(m, "granted", On("master_ack"), {}) /\ UNCHANGED <<job, moved>>
    <3>1. ControlOK'
      BY <2>3, SuspendOK, OnOK DEF MasterSegment, Event
    <3>. QED  BY <1>3, <2>3, <3>1 DEF MstGranted, DataOK
  <2>. QED  BY <1>3, <2>1, <2>2, <2>3 DEF MstGranted
<1>4. CASE MstReadData(m)
  BY <1>4, SuspendOK, ForOK DEF MstReadData, MasterSegment, DataOK
<1>5. CASE MstLatch(m)
  <2>1. moved[m] + 1 \in Nat
    BY DEF DataOK
  <2>2. CASE Suspend(m, "close", For(Cycle), {}) /\ UNCHANGED <<job, moved>>
    <3>1. ControlOK'
      BY <2>2, SuspendOK, ForOK DEF MasterSegment
    <3>. QED  BY <1>5, <2>2, <3>1 DEF MstLatch, DataOK
  <2>3. CASE MstLoop(m, moved[m] + 1, {})
    BY <1>5, <2>1, <2>3, MstLoopOK DEF MstLatch, DataOK
  <2>. QED  BY <1>5, <2>2, <2>3 DEF MstLatch
<1>6. CASE MstClose(m) \/ MstWritten(m)
  <2>1. moved[m] + 1 \in Nat
    BY DEF DataOK
  <2>. QED  BY <1>6, <2>1, MstLoopOK DEF MstClose, MstWritten, DataOK
<1>7. CASE MstWriteData(m)
  <2>1. ControlOK'
    BY <1>7, SuspendOK, OnOK DEF MstWriteData, MasterSegment, Event
  <2>2. busData' \in [src : Threads, idx : Nat]
    BY <1>7 DEF MstWriteData, DataOK
  <2>. QED  BY <1>7, <2>1, <2>2 DEF MstWriteData, DataOK
<1>8. CASE ConnectionReady(m)
  <2>1. ControlOK'
    BY <1>8, SuspendOK, OnOK DEF ConnectionReady, MasterSegment, Event
  <2>. QED  BY <1>8, <2>1 DEF ConnectionReady, DataOK
<1>. QED  BY <1>1, <1>2, <1>3, <1>4, <1>5, <1>6, <1>7, <1>8 DEF Master

LEMMA SlaveOK ==
  ASSUME ControlOK, DataOK, NEW s \in Slaves, Slave(s)
  PROVE  ControlOK' /\ DataOK'
<1>. /\ s \in Threads
     /\ \A seg \in SlaveSegment : SegmentOf(s, seg)
  BY MastersAssumption DEF Threads, SegmentOf, Slaves
<1>. /\ [currentReq EXCEPT !.bytesTransferred = @ + 1] \in QueuedRequest
     /\ Listened \in Request
     /\ heard[s] \in Request
     /\ moved[s] + 1 \in Nat
  BY RequestTypes DEF DataOK
<1>1. CASE SlvListen(s)
  <2>1. CASE SlvLoop(s, Listened, 0, {"slv_ack"})
    <3>1. receivedResponse' \in BOOLEAN
      BY <1>1 DEF SlvListen, DataOK
    <3>. QED  BY <1>1, <2>1, <3>1, SlvLoopOK DEF SlvListen, DataOK
  <2>2. CASE Suspend(s, "listen", On("slv_request"), {}) /\ UNCHANGED <<receivedResponse, heard, moved>>
    <3>1. ControlOK'
      BY <2>2, SuspendOK, OnOK DEF SlaveSegment, Event
    <3>. QED  BY <1>1, <2>2, <3>1 DEF SlvListen, DataOK
  <2>. QED  BY <1>1, <2>1, <2>2 DEF SlvListen
<1>2. CASE SlvSendReadData(s)
  <2>1. busData' \in [src : Threads, idx : Nat]
    BY <1>2 DEF SlvSendReadData, DataOK
  <2>2. SlvLoop(s, heard[s], moved[s] + 1, {"data_ready"})
    BY <1>2 DEF SlvSendReadData
  <2>3. ControlOK' /\ heard' \in [Slaves -> Request] /\ moved' \in [Masters \cup Slaves -> Nat]
    BY <2>2, SlvLoopOK
  <2>. QED  BY <1>2, <2>1, <2>3 DEF SlvSendReadData, DataOK
<1>3. CASE SlvReceiveWriteData(s)
  <2>1. CASE Suspend(s, "close", For(Cycle), {"slv_ready"}) /\ UNCHANGED <<heard, moved>>
    <3>1. ControlOK'
      BY <2>1, SuspendOK, ForOK DEF SlaveSegment
    <3>. QED  BY <1>3, <2>1, <3>1 DEF SlvReceiveWriteData, DataOK
  <2>2. CASE SlvLoop(s, heard[s], moved[s] + 1, {"slv_ready"})
    BY <1>3, <2>2, SlvLoopOK DEF SlvReceiveWriteData, DataOK
  <2>. QED  BY <1>3, <2>1, <2>2 DEF SlvReceiveWriteData
<1>4. CASE SlvClose(s)
  <2>1. SlvLoop(s, heard[s], moved[s] + 1, {"end_of_transfer"})
    BY <1>4 DEF SlvClose
  <2>2. ControlOK' /\ heard' \in [Slaves -> Request] /\ moved' \in [Masters \cup Slaves -> Nat]
    BY <2>1, SlvLoopOK
  <2>. QED  BY <1>4, <2>2 DEF SlvClose, DataOK
<1>5. CASE SetupTcpConnection(s)
  <2>1. ControlOK'
    BY <1>5, SuspendOK, OnOK DEF SetupTcpConnection, SlaveSegment, Event
  <2>. QED  BY <1>5, <2>1 DEF SetupTcpConnection, DataOK
<1>. QED  BY <1>1, <1>2, <1>3, <1>4, <1>5 DEF Slave

LEMMA NextOK == TypeOK /\ [Next]_vars => TypeOK'
<1>. SUFFICES ASSUME ControlOK, DataOK, [Next]_vars PROVE ControlOK' /\ DataOK'
  <2>1. ControlOK' /\ DataOK' => TypeOK'
    BY MastersAssumption DEF TypeOK, ControlOK, DataOK, SegmentOf, WaitRecord, Threads
  <2>. QED  BY <2>1, TypeOKParts
<1>1. CASE Tick
  <2>1. ControlOK'
    BY <1>1, ElapseOK, Durations DEF Tick
  <2>. QED  BY <1>1, <2>1 DEF Tick, DataOK
<1>2. CASE UNCHANGED vars
  BY <1>2 DEF vars, ControlOK, DataOK, SegmentOf
<1>. QED  BY <1>1, <1>2, ArbiterOK, MasterOK, SlaveOK DEF Next

\* The variables of the bus keep their types, and no wait of the bus is ever
\* for a negative time (the arithmetic of the waits in Project.cpp).
THEOREM TypeCorrect == Spec => []TypeOK
<1>1. Init => TypeOK
  BY InitOK
<1>2. TypeOK /\ [Next]_vars => TypeOK'
  BY NextOK
<1>. QED  BY <1>1, <1>2, PTL DEF Spec

-----------------------------------------------------------------------------
(* Steps. *)

Segment == ArbiterSegment \cup MasterSegment \cup SlaveSegment

\* Thread t suspends itself before segment seg, having notified fired.
Steps(t, seg, fired) ==
  /\ pc'[t] = seg
  /\ wait'[t] # Ready
  /\ \A p \in Threads \ {t} :
       /\ pc'[p] = pc[p]
       /\ wait'[p] = Ready <=> wait[p] = Ready \/ AwaitedBy[pc[p]] \in fired

LEMMA SegmentEvents ==
  /\ \A seg \in Segment : AwaitedBy[seg] \in Event
  /\ \A seg \in Segment \ Timed : AwaitedBy[seg] # NoEvent
  /\ \A seg \in Timed \ {"polled"} : AwaitedBy[seg] = NoEvent
BY DEF AwaitedBy, Segment, ArbiterSegment, MasterSegment, SlaveSegment, Timed, Event, NoEvent

LEMMA CyclesPass == Cycle \in Nat \ {0} /\ ThreeCycles \in Nat \ {0}
<1>1. \A k \in 1..1000 : (1000 \div k) > 0 /\ (3000 \div k) > 0
  OBVIOUS
<1>. QED  BY <1>1, ClockAssumption DEF Cycle, ThreeCycles

\* What a wait() does to the other threads.
LEMMA SuspendSteps ==
  ASSUME TypeOK, WaitsOK, NEW t \in Threads, NEW seg \in Segment, NEW w \in WaitRecord,
         NEW fired, NoEvent \notin fired, Suspend(t, seg, w, fired),
         w.event = AwaitedBy[seg], w.time > 0 <=> seg \in Timed
  PROVE  Steps(t, seg, fired) /\ WaitsOK'
<1>1. /\ pc \in [Threads -> Segment]
      /\ wait \in [Threads -> WaitRecord]
  BY DEF TypeOK, Segment, WaitRecord
<1>2. /\ pc'[t] = seg
      /\ \A p \in Threads \ {t} : pc'[p] = pc[p]
  BY <1>1 DEF Suspend
<1>3. wait'[t] = w
  BY <1>1 DEF Suspend
<1>4. \A p \in Threads \ {t} :
        wait'[p] = IF wait[p].event \in fired THEN Ready ELSE wait[p]
  BY <1>1 DEF Suspend
<1>5. w # Ready
  BY SegmentEvents DEF Ready, WaitRecord
<1>6. ASSUME NEW p \in Threads \ {t}
      PROVE  wait'[p] = Ready <=> wait[p] = Ready \/ AwaitedBy[pc[p]] \in fired
  <2>1. CASE wait[p] = Ready
    BY <1>4, <2>1 DEF Ready
  <2>2. CASE wait[p] # Ready
    <3>1. wait[p].event = AwaitedBy[pc[p]]
      BY <2>2 DEF WaitsOK, IsReady
    <3>. QED  BY <1>4, <2>2, <3>1
  <2>. QED  BY <2>1, <2>2
<1>7. ASSUME NEW p \in Threads
      PROVE  \/ wait'[p] = Ready
             \/ /\ wait'[p].event = AwaitedBy[pc'[p]]
                /\ wait'[p].time > 0 <=> pc'[p] \in Timed
  BY <1>2, <1>3, <1>4 DEF WaitsOK, IsReady
<1>. QED  BY <1>2, <1>3, <1>5, <1>6, <1>7 DEF Steps, WaitsOK, IsReady

LEMMA OnSteps ==
  ASSUME TypeOK, WaitsOK, NEW t \in Threads, NEW seg \in Segment \ Timed,
         NEW fired, NoEvent \notin fired, Suspend(t, seg, On(AwaitedBy[seg]), fired)
  PROVE  Steps(t, seg, fired) /\ WaitsOK'
<1>1. On(AwaitedBy[seg]) \in WaitRecord
  BY SegmentEvents, OnOK
<1>. QED  BY <1>1, SuspendSteps DEF On

LEMMA ForSteps ==
  ASSUME TypeOK, WaitsOK, NEW t \in Threads, NEW seg \in Timed \ {"polled"},
         NEW d \in Nat \ {0}, NEW fired, NoEvent \notin fired, Suspend(t, seg, For(d), fired)
  PROVE  Steps(t, seg, fired) /\ WaitsOK'
<1>1. For(d) \in WaitRecord
  BY DEF For, WaitRecord, Event
<1>2. seg \in Segment
  BY DEF Timed, Segment, ArbiterSegment, MasterSegment, SlaveSegment
<1>. QED  BY <1>1, <1>2, SegmentEvents, SuspendSteps DEF For

LEMMA PollSteps ==
  ASSUME TypeOK, WaitsOK, NEW fired, NoEvent \notin fired,
         Suspend("arbiter", "polled", ForOrOn(ThreeCycles, "slv_ack"), fired)
  PROVE  Steps("arbiter", "polled", fired) /\ WaitsOK'
<1>1. ForOrOn(ThreeCycles, "slv_ack") \in WaitRecord
  BY ForOK
<1>2. "polled" \in Segment /\ "polled" \in Timed /\ AwaitedBy["polled"] = "slv_ack"
  BY DEF Segment, ArbiterSegment, Timed, AwaitedBy
<1>. QED  BY <1>1, <1>2, CyclesPass, SuspendSteps DEF ForOrOn, Threads

\* What the passing of time does.
LEMMA ElapseSteps ==
  ASSUME TypeOK, WaitsOK, NEW d \in Nat, Elapse(d)
  PROVE  /\ pc' = pc
         /\ \A p \in Threads : wait[p] # Ready
         /\ \A p \in Threads : wait'[p] = Ready => pc[p] \in Timed
         /\ WaitsOK'
<1>1. /\ pc \in [Threads -> Segment]
      /\ wait \in [Threads -> WaitRecord]
  BY DEF TypeOK, Segment, WaitRecord
<1>2. pc' = pc /\ \A p \in Threads : wait[p] # Ready
  BY <1>1 DEF Elapse, IsReady
<1>3. ASSUME NEW p \in Threads
      PROVE  /\ wait'[p] = Ready => pc[p] \in Timed
             /\ \/ wait'[p] = Ready
                \/ /\ wait'[p].event = AwaitedBy[pc'[p]]
                   /\ wait'[p].time > 0 <=> pc'[p] \in Timed
  <2>1. /\ wait[p].event = AwaitedBy[pc[p]]
        /\ wait[p].time > 0 <=> pc[p] \in Timed
    BY <1>2 DEF WaitsOK, IsReady
  <2>2. wait[p] \in WaitRecord
    BY <1>1
  <2>3. CASE wait[p].time = 0
    <3>1. wait'[p] = wait[p]
      BY <1>1, <2>3 DEF Elapse
    <3>. QED  BY <1>2, <2>1, <3>1
  <2>4. CASE wait[p].time # 0
    <3>1. wait[p].time > 0 /\ d <= wait[p].time
      BY <1>1, <2>2, <2>4 DEF WaitRecord, Elapse
    <3>2. wait'[p] = IF wait[p].time = d THEN Ready ELSE [wait[p] EXCEPT !.time = @ - d]
      BY <1>1, <2>4 DEF Elapse
    <3>. QED  BY <1>2, <2>1, <2>2, <3>1, <3>2 DEF WaitRecord
  <2>. QED  BY <2>3, <2>4
<1>. QED  BY <1>2, <1>3 DEF WaitsOK, IsReady

-----------------------------------------------------------------------------
(* The queue. *)

LEMMA QueueGrows ==
  ASSUME TypeOK, NEW m \in Masters, queue' = Append(queue, BusRequest(mstId[m], job[m]))
  PROVE  /\ \A p \in Masters : Queued(p)' <=> Queued(p) \/ p = m
         /\ queue' # <<>>
<1>1. queue \in Seq(QueuedRequest) /\ BusRequest(mstId[m], job[m]) \in QueuedRequest
  BY RequestTypes DEF TypeOK
<1>2. /\ Len(queue') = Len(queue) + 1
      /\ \A i \in 1..Len(queue) : queue'[i] = queue[i]
      /\ queue'[Len(queue) + 1] = BusRequest(mstId[m], job[m])
  BY <1>1
<1>3. BusRequest(mstId[m], job[m]).id = mstId[m]
  BY DEF BusRequest
<1>4. ASSUME NEW p \in Masters PROVE Queued(p)' <=> Queued(p) \/ p = m
  <2>1. mstId[p] = mstId[m] <=> p = m
    BY MastersAssumption
  <2>. QED  BY <1>1, <1>2, <1>3, <2>1 DEF Queued
<1>. QED  BY <1>1, <1>2, <1>4

LEMMA QueueShrinks ==
  ASSUME TypeOK, QueueOK, queue # <<>>, queue' = Tail(queue),
         NEW o \in Masters, Head(queue).id = mstId[o]
  PROVE  /\ Queued(o)
         /\ ~Queued(o)'
         /\ \A p \in Masters \ {o} : Queued(p)' <=> Queued(p)
<1>1. queue \in Seq(QueuedRequest)
  BY DEF TypeOK
<1>2. /\ Len(queue) \in Nat \ {0}
      /\ Len(queue') = Len(queue) - 1
      /\ \A i \in 1..Len(queue') : queue'[i] = queue[i + 1]
      /\ queue[1] = Head(queue)
  BY <1>1
<1>3. ~Queued(o)'
  <2>. SUFFICES ASSUME NEW i \in 1..Len(queue'), queue'[i].id = mstId[o] PROVE FALSE
    BY DEF Queued
  <2>1. i + 1 \in 1..Len(queue) /\ queue[i + 1].id = queue[1].id
    BY <1>2
  <2>2. 1 \in 1..Len(queue)
    BY <1>2
  <2>3. i + 1 = 1
    BY <2>1, <2>2 DEF QueueOK
  <2>. QED  BY <1>2, <2>3
<1>4. ASSUME NEW p \in Masters \ {o} PROVE Queued(p)' <=> Queued(p)
  <2>1. mstId[p] # mstId[o]
    BY MastersAssumption
  <2>2. ASSUME NEW i \in 1..Len(queue), queue[i].id = mstId[p]
        PROVE  i - 1 \in 1..Len(queue') /\ queue'[i - 1].id = mstId[p]
    BY <1>2, <2>1, <2>2
  <2>3. ASSUME NEW i \in 1..Len(queue'), queue'[i].id = mstId[p]
        PROVE  i + 1 \in 1..Len(queue) /\ queue[i + 1].id = mstId[p]
    BY <1>2, <2>3
  <2>. QED  BY <2>2, <2>3 DEF Queued
<1>5. Queued(o)
  BY <1>2 DEF Queued
<1>. QED  BY <1>3, <1>4, <1>5

LEMMA OldestRequest ==
  ASSUME TypeOK, QueueOK, queue # <<>>
  PROVE  \E o \in Masters : pc[o] = "granted" /\ Head(queue) = BusRequest(mstId[o], job[o])
<1>1. 1 \in 1..Len(queue) /\ queue[1] = Head(queue)
  BY DEF TypeOK
<1>. QED  BY <1>1 DEF QueueOK

\* As long as the masters that wait go on waiting, the queue stays in order.
LEMMA QueueUntouched ==
  ASSUME QueueOK, UNCHANGED queue,
         \A m \in Masters : pc[m] = "granted" /\ Queued(m) =>
           pc'[m] = "granted" /\ job'[m] = job[m]
  PROVE  QueueOK'
<1>1. ASSUME NEW i \in 1..Len(queue)
      PROVE  \E m \in Masters : pc'[m] = "granted" /\ queue[i] = BusRequest(mstId[m], job'[m])
  <2>1. PICK m \in Masters : pc[m] = "granted" /\ queue[i] = BusRequest(mstId[m], job[m])
    BY DEF QueueOK
  <2>2. Queued(m)
    BY <2>1 DEF Queued, BusRequest
  <2>. QED  BY <2>1, <2>2
<1>. QED  BY <1>1 DEF QueueOK, BusRequest

-----------------------------------------------------------------------------
(* Steps that do not take part in the transfer. *)

SameTransfer ==
  /\ UNCHANGED <<currentReq, receivedResponse, busData>>
  /\ \A m \in Masters :
       IF OffBus(m) THEN OffBus(m)'
       ELSE /\ pc'[m] = pc[m] /\ (wait'[m] = Ready <=> wait[m] = Ready)
            /\ job'[m] = job[m] /\ moved'[m] = moved[m]
            /\ Queued(m)' <=> Queued(m)
  /\ \A s \in Slaves :
       IF ~Serving(s) THEN ~Serving(s)'
       ELSE /\ pc'[s] = pc[s] /\ (wait'[s] = Ready <=> wait[s] = Ready)
            /\ heard'[s] = heard[s] /\ moved'[s] = moved[s]
  /\ \A s \in Slaves :
       Claims(s, currentReq.addr, currentReq.len) /\ pc[s] = "listen" /\ wait[s] = Ready =>
         pc'[s] = "listen" /\ wait'[s] = Ready
  /\ \A m \in Masters :
       pc[m] = "connecting" /\ wait[m] # Ready /\ pc["nic"] # "setup" =>
         pc'[m] = "connecting" /\ wait'[m] # Ready
  /\ pc'["arbiter"] = pc["arbiter"]
  /\ IF pc["arbiter"] = "front" THEN wait'["arbiter"] = Ready <=> queue' # <<>>
     ELSE wait'["arbiter"] = Ready <=> wait["arbiter"] = Ready

LEMMA PhaseKept ==
  ASSUME TypeOK, Phase, SameTransfer
  PROVE  Phase'
<1>1. ASSUME NoOwner PROVE NoOwner'
  BY <1>1 DEF SameTransfer, NoOwner
<1>2. ASSUME NoServer PROVE NoServer'
  BY <1>2 DEF SameTransfer, NoServer
<1>3. ASSUME NEW o \in Masters, Owner(o), ~OffBus(o) PROVE Owner(o)'
  BY <1>3 DEF SameTransfer, Owner, Listened
<1>4. ASSUME NEW s \in Slaves, Server(s), Serving(s) PROVE Server(s)'
  BY <1>4 DEF SameTransfer, Server, Addressed, Listened
<1>5. CASE Idle
  BY <1>1, <1>2, <1>5 DEF SameTransfer, Idle, Phase, IsReady
<1>6. CASE Over
  BY <1>1, <1>2, <1>6 DEF SameTransfer, Over, Phase, IsReady, Count, Length
<1>7. ASSUME NEW o \in Masters, Offered(o) PROVE Phase'
  <2>1. ~OffBus(o)
    BY <1>7 DEF Offered, Owner, OffBus
  <2>2. Offered(o)'
    BY <1>2, <1>3, <1>7, <2>1 DEF SameTransfer, Offered, IsReady, Count, Addressed
  <2>. QED  BY <2>2 DEF Phase
<1>8. ASSUME NEW s \in Slaves, Leaving(s) PROVE Phase'
  <2>1. Serving(s)
    BY <1>8 DEF Leaving, Serving
  <2>2. OpensConnection(heard[s]) => pc["nic"] # "setup"
    <3>. SUFFICES ASSUME OpensConnection(heard[s]) PROVE s = "nic"
      BY <1>8 DEF Leaving
    <3>1. /\ Claims(s, currentReq.addr, currentReq.len)
          /\ Claims("nic", currentReq.addr, currentReq.len)
      BY <1>8 DEF Leaving, Server, Addressed, Listened, OpensConnection
    <3>2. currentReq.addr \in Nat /\ currentReq.len \in Nat \ {0}
      BY <1>8 DEF TypeOK, QueuedRequest, Leaving, Count, Length
    <3>. QED  BY <3>1, <3>2, AtMostOneClaims DEF Slaves
  <2>3. Leaving(s)'
    BY <1>1, <1>4, <1>8, <2>1, <2>2 DEF SameTransfer, Leaving, IsReady, Count, Length
  <2>. QED  BY <2>3 DEF Phase
<1>9. ASSUME NEW o \in Masters, NEW s \in Slaves, Accepted(o, s) PROVE Phase'
  <2>1. ~OffBus(o) /\ Serving(s)
    BY <1>9 DEF Accepted, Owner, OffBus, Attends, Serving
  <2>2. Attends(s, 0) => Attends(s, 0)'
    BY <1>4, <2>1 DEF SameTransfer, Attends, IsReady
  <2>3. Accepted(o, s)'
    BY <1>3, <1>9, <2>1, <2>2 DEF SameTransfer, Accepted, IsReady, Count
  <2>. QED  BY <2>3 DEF Phase
<1>10. ASSUME NEW o \in Masters, NEW s \in Slaves, Running(o, s) PROVE Phase'
  <2>1. ~OffBus(o)
    BY <1>10 DEF Running, Acknowledged, Asking, Fetching, Closing, Driving, Taking, Taken,
                 Owner, OffBus, Transferring
  <2>2. /\ pc'[o] = pc[o] /\ (wait'[o] = Ready <=> wait[o] = Ready)
        /\ job'[o] = job[o] /\ moved'[o] = moved[o]
        /\ UNCHANGED <<currentReq, receivedResponse, busData>>
    BY <2>1 DEF SameTransfer
  <2>3. ASSUME NEW n, Attends(s, n) PROVE Attends(s, n)'
    <3>1. Serving(s)
      BY <2>3 DEF Attends, Serving
    <3>. QED  BY <1>4, <2>3, <3>1 DEF SameTransfer, Attends, IsReady
  <2>4. /\ Acknowledged(o, s) => Acknowledged(o, s)'
        /\ Driving(o, s) => Driving(o, s)'
        /\ Closing(o) => Closing(o)'
    BY <1>2, <2>2, <2>3 DEF Acknowledged, Driving, Closing, IsReady, Count, Length
  <2>5. Fetching(o, s) => Fetching(o, s)'
    BY <1>2, <2>2, <2>3 DEF Fetching, Addressed, IsReady, Count, Length
  <2>6. /\ Asking(o, s) => Asking(o, s)'
        /\ Taking(o, s) => Taking(o, s)'
    <3>1. ASSUME Asking(o, s) \/ Taking(o, s)
          PROVE  /\ Server(s)' /\ pc'[s] = pc[s] /\ (wait'[s] = Ready <=> wait[s] = Ready)
                 /\ moved'[s] = moved[s]
      <4>1. Serving(s) /\ Server(s)
        BY <3>1 DEF Asking, Taking, Serving
      <4>. QED  BY <1>4, <4>1 DEF SameTransfer
    <3>. QED  BY <2>2, <3>1 DEF Asking, Taking, IsReady, Count, Length
  <2>7. Taken(o, s) => Taken(o, s)'
    <3>1. ASSUME Server(s), pc[s] = "close"
          PROVE  /\ Server(s)' /\ pc'[s] = pc[s] /\ (wait'[s] = Ready <=> wait[s] = Ready)
                 /\ moved'[s] = moved[s]
      <4>1. Serving(s)
        BY <3>1 DEF Serving
      <4>. QED  BY <1>4, <3>1, <4>1 DEF SameTransfer
    <3>. QED  BY <2>2, <2>3, <3>1 DEF Taken, IsReady, Count, Length
  <2>8. Running(o, s)'
    BY <1>3, <1>10, <2>1, <2>4, <2>5, <2>6, <2>7 DEF SameTransfer, Running, IsReady
  <2>. QED  BY <2>8 DEF Phase
<1>. QED  BY <1>5, <1>6, <1>7, <1>8, <1>9, <1>10 DEF Phase

-----------------------------------------------------------------------------
Kept == QueueOK /\ JobsOK /\ AcksOK /\ ListenersOK /\ ConnectionOK /\ Phase

LEMMA Names ==
  /\ "arbiter" \in Threads /\ "arbiter" \notin Masters /\ "arbiter" \notin Slaves
  /\ Masters \subseteq Threads /\ Slaves \subseteq Threads
  /\ Masters \cap Slaves = {}
  /\ "nic" \in Slaves
BY MastersAssumption DEF Threads, Slaves

LEMMA QueuedWaits ==
  ASSUME QueueOK, NEW m \in Masters, Queued(m)
  PROVE  pc[m] = "granted"
<1>1. PICK i \in 1..Len(queue) : queue[i].id = mstId[m]
  BY DEF Queued
<1>2. PICK p \in Masters : pc[p] = "granted" /\ queue[i] = BusRequest(mstId[p], job[p])
  BY DEF QueueOK
<1>3. mstId[p] = mstId[m]
  BY <1>1, <1>2 DEF BusRequest
<1>. QED  BY <1>2, <1>3, MastersAssumption

\* A master without a part in the transfer ends a segment.
LEMMA MasterAside ==
  ASSUME TypeOK, Kept, NEW m \in Masters, NEW seg \in {"request", "granted", "away"},
         Steps(m, seg, {}),
         UNCHANGED <<queue, currentReq, receivedResponse, busData, heard, moved>>,
         OffBus(m), seg = "granted" <=> pc[m] = "granted",
         pc[m] = "connecting" => IsReady(m),
         \A p \in Masters : p # m \/ pc[m] = "granted" => job'[p] = job[p],
         seg # "away" => job'[m] \in Program[m]
  PROVE  Kept'
<1>1. /\ pc'[m] = seg /\ wait'[m] # Ready
      /\ \A p \in Threads \ {m} : pc'[p] = pc[p] /\ (wait'[p] = Ready <=> wait[p] = Ready)
  BY DEF Steps
<1>2. \A p \in Masters : Queued(p)' <=> Queued(p)
  BY DEF Queued
<1>3. QueueOK'
  <2>1. ASSUME NEW p \in Masters, Queued(p) PROVE pc'[p] = "granted" /\ job'[p] = job[p]
    BY <1>1, <2>1, QueuedWaits, Names DEF Kept
  <2>. QED  BY <2>1, QueueUntouched DEF Kept
<1>4. JobsOK'
  BY <1>1, Names DEF Kept, JobsOK, IsReady
<1>5. AcksOK'
  BY <1>1, Names DEF Kept, AcksOK, IsReady
<1>6. ListenersOK'
  BY <1>1, Names DEF Kept, ListenersOK, IsReady
<1>7. ConnectionOK'
  BY <1>1, Names DEF Kept, ConnectionOK, IsReady
<1>8. SameTransfer
  <2>1. OffBus(m)'
    BY <1>1, <1>2 DEF OffBus, Transferring
  <2>2. \A p \in Masters \ {m} : OffBus(p) => OffBus(p)'
    BY <1>1, <1>2, Names DEF OffBus, Transferring
  <2>3. \A s \in Slaves : Serving(s)' <=> Serving(s)
    BY <1>1, Names DEF Serving
  <2>4. pc["arbiter"] = "front" => (wait["arbiter"] = Ready <=> queue # <<>>)
    BY DEF Kept, Phase, Idle, Over, Offered, Accepted, Running, Leaving, IsReady
  <2>. QED  BY <1>1, <1>2, <2>1, <2>2, <2>3, <2>4, Names DEF SameTransfer, IsReady
<1>9. Phase'
  BY <1>8, PhaseKept DEF Kept
<1>. QED  BY <1>3, <1>4, <1>5, <1>6, <1>7, <1>9 DEF Kept

LEMMA MasterDataTransferKeeps ==
  ASSUME TypeOK, WaitsOK, Kept, NEW m \in Masters, MasterDataTransfer(m)
  PROVE  WaitsOK' /\ Kept'
<1>1. Steps(m, "request", {}) /\ WaitsOK'
  BY ForSteps, CyclesPass, Names DEF MasterDataTransfer, Timed
<1>2. PICK r \in Program[m] : job' = [job EXCEPT ![m] = r]
  BY DEF MasterDataTransfer
<1>3. /\ \A p \in Masters \ {m} : job'[p] = job[p]
      /\ job'[m] = r
  BY <1>2 DEF TypeOK
<1>4. pc[m] = "away" /\ OffBus(m)
  BY DEF MasterDataTransfer, OffBus, Transferring
<1>. QED  BY <1>1, <1>3, <1>4, MasterAside DEF MasterDataTransfer

LEMMA ConnectionReadyKeeps ==
  ASSUME TypeOK, WaitsOK, Kept, NEW m \in Masters, ConnectionReady(m)
  PROVE  WaitsOK' /\ Kept'
<1>1. "away" \in Segment \ Timed /\ AwaitedBy["away"] = "work"
  BY DEF Segment, MasterSegment, Timed, AwaitedBy
<1>2. Steps(m, "away", {}) /\ WaitsOK'
  BY <1>1, OnSteps, Names DEF ConnectionReady
<1>3. pc[m] = "connecting" /\ IsReady(m) /\ OffBus(m)
  BY DEF ConnectionReady, Resumes, OffBus, Transferring
<1>. QED  BY <1>2, <1>3, MasterAside DEF ConnectionReady

LEMMA MstBusRequestKeeps ==
  ASSUME TypeOK, WaitsOK, Kept, NEW m \in Masters, MstBusRequest(m)
  PROVE  WaitsOK' /\ Kept'
<1>1. /\ "granted" \in Segment \ Timed /\ AwaitedBy["granted"] = "master_ack"
      /\ NoEvent \notin {"bus_request"}
  BY DEF Segment, MasterSegment, Timed, AwaitedBy, NoEvent
<1>2. Steps(m, "granted", {"bus_request"}) /\ WaitsOK'
  BY <1>1, OnSteps, Names DEF MstBusRequest
<1>3. \A seg \in Segment : AwaitedBy[seg] = "bus_request" <=> seg = "front"
  BY DEF Segment, ArbiterSegment, MasterSegment, SlaveSegment, AwaitedBy, NoEvent
<1>4. \A p \in Threads : pc[p] \in Segment
  BY DEF TypeOK, Segment
<1>5. /\ pc'[m] = "granted" /\ wait'[m] # Ready
      /\ \A p \in Threads \ {m} :
           /\ pc'[p] = pc[p]
           /\ pc[p] # "front" => (wait'[p] = Ready <=> wait[p] = Ready)
           /\ pc[p] = "front" => wait'[p] = Ready
  BY <1>2, <1>3, <1>4 DEF Steps
<1>6. \A p \in Masters \cup Slaves : pc[p] # "front"
  BY DEF TypeOK, MasterSegment, SlaveSegment
<1>7. \A p \in Threads \ {m, "arbiter"} :
        pc'[p] = pc[p] /\ (wait'[p] = Ready <=> wait[p] = Ready)
  BY <1>5, <1>6 DEF Threads
<1>8. /\ pc[m] = "request" /\ queue' = Append(queue, BusRequest(mstId[m], job[m]))
      /\ UNCHANGED <<currentReq, receivedResponse, busData, job, heard, moved>>
  BY DEF MstBusRequest, Resumes
<1>9. /\ \A p \in Masters : Queued(p)' <=> Queued(p) \/ p = m
      /\ queue' # <<>>
  BY <1>8, QueueGrows
<1>10. /\ pc'["arbiter"] = pc["arbiter"]
       /\ pc["arbiter"] # "front" => (wait'["arbiter"] = Ready <=> wait["arbiter"] = Ready)
       /\ pc["arbiter"] = "front" => wait'["arbiter"] = Ready
  BY <1>5, Names
<1>11. QueueOK'
  <2>1. ~Queued(m)
    BY <1>8, QueuedWaits DEF Kept
  <2>2. /\ queue \in Seq(QueuedRequest) /\ BusRequest(mstId[m], job[m]) \in QueuedRequest
        /\ BusRequest(mstId[m], job[m]).id = mstId[m]
    BY RequestTypes DEF TypeOK, BusRequest
  <2>3. /\ Len(queue') = Len(queue) + 1 /\ Len(queue) \in Nat
        /\ \A i \in 1..Len(queue) : queue'[i] = queue[i]
        /\ queue'[Len(queue) + 1] = BusRequest(mstId[m], job[m])
    BY <1>8, <2>2
  <2>4. ASSUME NEW i \in 1..Len(queue')
        PROVE  \E p \in Masters : pc'[p] = "granted" /\ queue'[i] = BusRequest(mstId[p], job[p])
    <3>1. CASE i = Len(queue) + 1
      BY <1>5, <2>3, <3>1
    <3>2. CASE i # Len(queue) + 1
      <4>1. i \in 1..Len(queue)
        BY <2>3, <3>2
      <4>2. PICK p \in Masters : pc[p] = "granted" /\ queue[i] = BusRequest(mstId[p], job[p])
        BY <4>1 DEF Kept, QueueOK
      <4>3. pc'[p] = "granted"
        BY <1>5, <4>2, Names
      <4>. QED  BY <2>3, <4>1, <4>2, <4>3
    <3>. QED  BY <3>1, <3>2
  <2>5. ASSUME NEW i \in 1..Len(queue'), NEW j \in 1..Len(queue'), queue'[i].id = queue'[j].id
        PROVE  i = j
    BY <2>1, <2>2, <2>3, <2>5 DEF Kept, QueueOK, Queued
  <2>. QED  BY <1>8, <2>4, <2>5 DEF QueueOK, BusRequest
<1>12. JobsOK'
  BY <1>5, <1>7, <1>8, Names DEF Kept, JobsOK, IsReady
<1>13. AcksOK'
  BY <1>5, <1>7, <1>8, <1>10, Names DEF Kept, AcksOK, IsReady
<1>14. ListenersOK'
  BY <1>5, <1>7, <1>8, <1>10, Names DEF Kept, ListenersOK, IsReady
<1>15. ConnectionOK'
  BY <1>5, <1>7, <1>8, <1>10, Names DEF Kept, ConnectionOK, IsReady
<1>16. SameTransfer
  <2>1. OffBus(m) /\ OffBus(m)'
    BY <1>5, <1>8, <1>9 DEF OffBus, Transferring
  <2>2. \A p \in Masters \ {m} : OffBus(p) => OffBus(p)'
    BY <1>7, <1>9, Names DEF OffBus, Transferring
  <2>3. \A s \in Slaves : Serving(s)' <=> Serving(s)
    BY <1>7, Names DEF Serving
  <2>. QED  BY <1>5, <1>7, <1>8, <1>9, <1>10, <2>1, <2>2, <2>3, Names DEF SameTransfer
<1>17. Phase'
  BY <1>16, PhaseKept DEF Kept
<1>. QED  BY <1>2, <1>11, <1>12, <1>13, <1>14, <1>15, <1>17 DEF Kept

\* The part of SameTransfer that a step of a slave leaves alone by itself.
LEMMA SlaveAside ==
  ASSUME TypeOK, Kept, NEW s \in Slaves, NEW fired \in SUBSET {"connection_ready"},
         Steps(s, "listen", fired), ~Serving(s),
         pc[s] = "listen" => ~Claims(s, currentReq.addr, currentReq.len) /\ fired = {},
         pc[s] # "listen" => pc[s] = "setup" /\ fired # {},
         UNCHANGED <<queue, currentReq, receivedResponse, busData, job, heard, moved>>
  PROVE  Kept'
<1>1. \A seg \in Segment : AwaitedBy[seg] = "connection_ready" <=> seg = "connecting"
  BY DEF Segment, ArbiterSegment, MasterSegment, SlaveSegment, AwaitedBy, NoEvent
<1>2. /\ \A p \in Threads : pc[p] \in Segment
      /\ pc["arbiter"] # "connecting"
      /\ \A p \in Slaves : pc[p] # "connecting"
  BY DEF TypeOK, Segment, ArbiterSegment, SlaveSegment
<1>3. /\ pc'[s] = "listen" /\ wait'[s] # Ready
      /\ \A p \in Threads \ {s} :
           /\ pc'[p] = pc[p]
           /\ pc[p] # "connecting" => (wait'[p] = Ready <=> wait[p] = Ready)
           /\ pc[p] = "connecting" => (wait'[p] = Ready <=> wait[p] = Ready \/ fired # {})
  BY <1>1, <1>2 DEF Steps
<1>4. /\ \A p \in Masters : pc'[p] = pc[p]
      /\ \A p \in Masters : pc[p] # "connecting" => (wait'[p] = Ready <=> wait[p] = Ready)
      /\ \A p \in Masters : wait[p] = Ready => wait'[p] = Ready
      /\ \A p \in Slaves \ {s} : pc'[p] = pc[p] /\ (wait'[p] = Ready <=> wait[p] = Ready)
      /\ pc'["arbiter"] = pc["arbiter"] /\ (wait'["arbiter"] = Ready <=> wait["arbiter"] = Ready)
  BY <1>2, <1>3, Names
<1>5. /\ \A p \in Masters : Queued(p)' <=> Queued(p)
      /\ \A p \in Masters : OffBus(p)' <=> OffBus(p)
  BY <1>4 DEF Queued, OffBus, Transferring
<1>6. QueueOK'
  BY <1>4, QueueUntouched DEF Kept
<1>7. JobsOK'
  BY <1>4 DEF Kept, JobsOK, IsReady
<1>8. AcksOK'
  <2>1. \A p \in Slaves : pc'[p] = "close" => pc[p] = "close"
    BY <1>3, <1>4
  <2>. QED  BY <1>4, <2>1 DEF Kept, AcksOK, IsReady
<1>9. ListenersOK'
  BY <1>3, <1>4 DEF Kept, ListenersOK, IsReady
<1>10. ConnectionOK'
  <2>1. CASE pc[s] = "listen"
    <3>1. \A p \in Masters : wait'[p] = Ready <=> wait[p] = Ready
      BY <1>3, <1>4, <2>1, Names
    <3>. QED  BY <1>3, <1>4, <2>1, <3>1, Names DEF Kept, ConnectionOK, IsReady
  <2>2. CASE pc[s] = "setup" /\ fired # {}
    <3>1. s = "nic"
      BY <2>2 DEF Kept, ConnectionOK
    <3>2. \A p \in Slaves : pc'[p] # "setup"
      BY <1>3, <1>4, <3>1 DEF Kept, ConnectionOK
    <3>3. \A p \in Masters : pc'[p] = "connecting" => wait'[p] = Ready
      BY <1>3, <1>4, <2>2, Names
    <3>. QED  BY <1>4, <3>2, <3>3 DEF Kept, ConnectionOK, IsReady
  <2>. QED  BY <2>1, <2>2
<1>11. SameTransfer
  <2>1. \A p \in Slaves : Serving(p)' <=> Serving(p)
    BY <1>3, <1>4 DEF Serving
  <2>2. pc["arbiter"] = "front" => (wait["arbiter"] = Ready <=> queue # <<>>)
    BY DEF Kept, Phase, Idle, Over, Offered, Accepted, Running, Leaving, IsReady
  <2>3. pc[s] = "setup" => pc["nic"] = "setup"
    BY DEF Kept, ConnectionOK
  <2>4. \A m \in Masters : pc[m] = "connecting" /\ wait[m] # Ready /\ pc["nic"] # "setup" =>
          pc'[m] = "connecting" /\ wait'[m] # Ready
    BY <1>3, <1>4, <2>3, Names
  <2>5. \A m \in Masters : ~OffBus(m) => pc[m] # "connecting"
    BY DEF OffBus, Transferring
  <2>6. \A p \in Slaves : Serving(p) => p # s
    OBVIOUS
  <2>7. \A p \in Slaves : Claims(p, currentReq.addr, currentReq.len) /\ pc[p] = "listen" => p # s
    OBVIOUS
  <2>. QED  BY <1>4, <1>5, <2>1, <2>2, <2>4, <2>5, <2>6, <2>7 DEF SameTransfer
<1>. QED  BY <1>6, <1>7, <1>8, <1>9, <1>10, <1>11, PhaseKept DEF Kept

LEMMA TickKeeps ==
  ASSUME TypeOK, WaitsOK, Kept, Tick
  PROVE  WaitsOK' /\ Kept'
<1>1. PICK d \in 1..(ThreeCycles + SETUP) : Elapse(d)
  BY DEF Tick
<1>2. /\ pc' = pc
      /\ \A p \in Threads : wait[p] # Ready
      /\ \A p \in Threads : wait'[p] = Ready => pc[p] \in Timed
      /\ WaitsOK'
  BY <1>1, ElapseSteps, Durations
<1>3. UNCHANGED <<queue, currentReq, receivedResponse, busData, job, heard, moved>>
  BY DEF Tick
<1>4. /\ \A p \in Masters : wait[p] # Ready /\ (wait'[p] = Ready => pc[p] \in Timed)
      /\ \A p \in Slaves : wait[p] # Ready /\ (wait'[p] = Ready => pc[p] \in Timed)
      /\ wait["arbiter"] # Ready
      /\ wait'["arbiter"] = Ready => pc["arbiter"] \in Timed
  BY <1>2, Names
<1>5. QueueOK' /\ JobsOK' /\ AcksOK' /\ ListenersOK' /\ ConnectionOK'
  <2>1. QueueOK'
    BY <1>2, <1>3, QueueUntouched DEF Kept
  <2>. QED  BY <1>2, <1>3, <1>4, <2>1
            DEF Kept, JobsOK, AcksOK, ListenersOK, ConnectionOK, IsReady, Timed
<1>6. /\ NoOwner' <=> NoOwner
      /\ NoServer' <=> NoServer
      /\ \A o \in Masters : Owner(o)' <=> Owner(o)
      /\ \A s \in Slaves : Server(s)' <=> Server(s)
      /\ \A s \in Slaves : Addressed(s)' <=> Addressed(s)
  BY <1>2, <1>3 DEF NoOwner, NoServer, Owner, Server, Addressed, OffBus, Queued,
                    Transferring, Serving, Listened
<1>7. ASSUME NEW s \in Slaves, NEW n, Attends(s, n) PROVE Attends(s, n)'
  BY <1>2, <1>3, <1>4, <1>6, <1>7 DEF Attends, IsReady, Timed
<1>8. ASSUME Idle PROVE Phase'
  BY <1>2, <1>3, <1>4, <1>6, <1>8 DEF Idle, Phase, IsReady, Timed
<1>9. ASSUME NEW o \in Masters, NEW s \in Slaves, Accepted(o, s) PROVE Phase'
  <2>1. Accepted(o, s)'
    BY <1>2, <1>3, <1>4, <1>6, <1>7, <1>9 DEF Accepted, IsReady, Timed, Count
  <2>. QED  BY <2>1 DEF Phase
<1>10. ASSUME NEW o \in Masters, NEW s \in Slaves, Running(o, s) PROVE Phase'
  <2>1. /\ Fetching(o, s) => Fetching(o, s)'
        /\ Closing(o) => Closing(o)'
        /\ Driving(o, s) => Driving(o, s)'
    BY <1>2, <1>3, <1>4, <1>6, <1>7
       DEF Fetching, Closing, Driving, IsReady, Timed, Count, Length
  <2>2. ~Acknowledged(o, s) /\ ~Asking(o, s) /\ ~Taking(o, s) /\ ~Taken(o, s)
    BY <1>4 DEF Acknowledged, Asking, Taking, Taken, IsReady
  <2>3. Running(o, s)'
    BY <1>2, <1>3, <1>4, <1>6, <1>10, <2>1, <2>2 DEF Running, IsReady, Timed
  <2>. QED  BY <2>3 DEF Phase
<1>11. ASSUME NEW s \in Slaves, Leaving(s) PROVE Phase'
  <2>1. Leaving(s)'
    BY <1>2, <1>3, <1>4, <1>6, <1>11 DEF Leaving, IsReady, Timed, Count, Length
  <2>. QED  BY <2>1 DEF Phase
<1>12. ~Over /\ \A o \in Masters : ~Offered(o)
  BY <1>4 DEF Over, Offered, IsReady
<1>13. Phase'
  BY <1>8, <1>9, <1>10, <1>11, <1>12 DEF Kept, Phase
<1>. QED  BY <1>2, <1>5, <1>13 DEF Kept

-----------------------------------------------------------------------------
(* The arbiter. *)

LEMMA Wakes ==
  \A seg \in Segment :
    /\ AwaitedBy[seg] = "slv_request" <=> seg = "listen"
    /\ AwaitedBy[seg] = "slv_ack" <=> seg = "polled"
    /\ AwaitedBy[seg] = "master_ack" <=> seg = "granted"
    /\ AwaitedBy[seg] = "mst_ready" <=> seg = "send"
    /\ AwaitedBy[seg] = "data_ready" <=> seg \in {"read", "receive"}
    /\ AwaitedBy[seg] = "slv_ready" <=> seg = "written"
    /\ AwaitedBy[seg] = "end_of_transfer" <=> seg = "done"
BY DEF Segment, ArbiterSegment, MasterSegment, SlaveSegment, AwaitedBy, NoEvent

LEMMA Segments ==
  ASSUME TypeOK
  PROVE  /\ \A p \in Threads : pc[p] \in Segment
         /\ \A m \in Masters : pc[m] \in MasterSegment
         /\ \A s \in Slaves : pc[s] \in SlaveSegment
         /\ pc["arbiter"] \in ArbiterSegment
BY DEF TypeOK, Segment

\* A request is granted when the bus is free: its slave is listening.
LEMMA GrantKeeps ==
  ASSUME TypeOK, WaitsOK, Kept, pc["arbiter"] \in {"front", "done"}, IsReady("arbiter"),
         NoOwner, NoServer, Grant({}), UNCHANGED <<busData, job, heard, moved>>
  PROVE  WaitsOK' /\ Kept'
<1>1. Steps("arbiter", "polled", {"slv_request"}) /\ WaitsOK'
  BY PollSteps DEF Grant, NoEvent
<1>2. /\ pc'["arbiter"] = "polled" /\ wait'["arbiter"] # Ready
      /\ \A m \in Masters : pc'[m] = pc[m] /\ (wait'[m] = Ready <=> wait[m] = Ready)
      /\ \A s \in Slaves : pc'[s] = pc[s]
      /\ \A s \in Slaves : wait'[s] = Ready <=> wait[s] = Ready \/ pc[s] = "listen"
  BY <1>1, Wakes, Segments, Names DEF Steps, MasterSegment
<1>3. /\ queue # <<>> /\ currentReq' = Head(queue) /\ queue' = Tail(queue)
      /\ receivedResponse' = FALSE
  BY DEF Grant
<1>4. PICK o \in Masters : pc[o] = "granted" /\ Head(queue) = BusRequest(mstId[o], job[o])
  BY <1>3, OldestRequest DEF Kept
<1>5. /\ Head(queue).id = mstId[o]
      /\ ~Queued(o)'
      /\ \A p \in Masters \ {o} : Queued(p)' <=> Queued(p)
  BY <1>3, <1>4, QueueShrinks DEF Kept, BusRequest
<1>6. job[o] \in Request /\ job[o] \in Program[o]
  BY <1>4 DEF TypeOK, Kept, JobsOK
<1>7. /\ currentReq'.id = mstId[o] /\ Listened' = job[o]
      /\ currentReq'.rdnwr = job[o].rdnwr /\ currentReq'.addr = job[o].addr
      /\ currentReq'.len = job[o].len /\ currentReq'.bytesTransferred = 0
  BY <1>3, <1>4, <1>6 DEF BusRequest, Listened, Request
<1>8. /\ \A m \in Masters : ~(pc[m] = "granted" /\ wait[m] = Ready)
      /\ \A s \in Slaves : ~(pc[s] = "listen" /\ wait[s] = Ready)
  BY DEF Kept, AcksOK, ListenersOK, IsReady
<1>9. QueueOK'
  <2>1. queue \in Seq(QueuedRequest)
    BY DEF TypeOK
  <2>2. /\ Len(queue') = Len(queue) - 1 /\ Len(queue) \in Nat
        /\ \A i \in 1..Len(queue') : i + 1 \in 1..Len(queue) /\ queue'[i] = queue[i + 1]
    BY <1>3, <2>1
  <2>3. ASSUME NEW i \in 1..Len(queue')
        PROVE  \E m \in Masters : pc'[m] = "granted" /\ queue'[i] = BusRequest(mstId[m], job[m])
    BY <1>2, <2>2 DEF Kept, QueueOK
  <2>4. \A i, j \in 1..Len(queue') : queue'[i].id = queue'[j].id => i = j
    <3>. SUFFICES ASSUME NEW i \in 1..Len(queue'), NEW j \in 1..Len(queue'),
                         queue'[i].id = queue'[j].id
                  PROVE  i = j
      OBVIOUS
    <3>1. i + 1 = j + 1
      BY <2>2 DEF Kept, QueueOK
    <3>. QED  BY <2>2, <3>1
  <2>. QED  BY <2>3, <2>4 DEF QueueOK, BusRequest
<1>10. JobsOK' /\ AcksOK' /\ ConnectionOK' /\ ListenersOK'
  <2>1. JobsOK' /\ AcksOK'
    BY <1>2, <1>3, <1>8 DEF Kept, JobsOK, AcksOK, IsReady
  <2>2. ListenersOK'
    BY <1>2, <1>3 DEF ListenersOK, IsReady
  <2>3. ConnectionOK'
    BY <1>2, Names DEF Kept, ConnectionOK, IsReady
  <2>. QED  BY <2>1, <2>2, <2>3
<1>11. \E s \in Slaves : Addressed(s)' /\ pc'[s] = "listen" /\ wait'[s] = Ready
  <2>1. PICK s \in Slaves : /\ Claims(s, job[o].addr, job[o].len)
                            /\ Words(s, job[o].rdnwr, job[o].len) = job[o].len
    BY <1>6, ServedAssumption DEF Served
  <2>2. Addressed(s)'
    BY <1>7, <2>1 DEF Addressed
  <2>3. pc[s] # "setup"
    <3>. SUFFICES ASSUME pc[s] = "setup" PROVE FALSE
      OBVIOUS
    <3>1. PICK m \in Masters : Opener(m) /\ pc[m] = "connecting"
      BY DEF Kept, ConnectionOK
    <3>2. s = "nic"
      BY DEF Kept, ConnectionOK
    <3>3. m = o
      BY <1>6, <2>1, <3>1, <3>2, ConnectionAssumption
    <3>. QED  BY <1>4, <3>1, <3>3
  <2>4. pc[s] = "listen"
    BY <2>3, Segments DEF NoServer, Serving, SlaveSegment
  <2>. QED  BY <1>2, <2>2, <2>4
<1>12. Owner(o)' /\ NoServer'
  <2>1. \A m \in Masters \ {o} : OffBus(m)'
    BY <1>2, <1>5 DEF NoOwner, OffBus, Transferring
  <2>2. NoServer'
    BY <1>2 DEF NoServer, Serving
  <2>. QED  BY <1>3, <1>5, <1>7, <2>1, <2>2 DEF Owner
<1>13. Offered(o)'
  BY <1>2, <1>3, <1>4, <1>7, <1>8, <1>11, <1>12 DEF Offered, IsReady, Count
<1>. QED  BY <1>1, <1>9, <1>10, <1>13 DEF Kept, Phase

\* An arbiter's step after which it waits for something else.
LEMMA ArbiterSteps ==
  ASSUME TypeOK, Kept, NEW seg \in {"front", "answer"}, Steps("arbiter", seg, {}),
         UNCHANGED <<queue, currentReq, receivedResponse, busData, job, heard, moved>>,
         pc["arbiter"] # "done" \/ IsReady("arbiter"),
         seg = "front" => pc["arbiter"] = "done"
  PROVE  /\ pc'["arbiter"] = seg /\ wait'["arbiter"] # Ready
         /\ \A p \in Masters \cup Slaves :
              pc'[p] = pc[p] /\ (wait'[p] = Ready <=> wait[p] = Ready)
         /\ QueueOK' /\ JobsOK' /\ AcksOK' /\ ListenersOK' /\ ConnectionOK'
<1>1. /\ pc'["arbiter"] = seg /\ wait'["arbiter"] # Ready
      /\ \A p \in Masters \cup Slaves :
           pc'[p] = pc[p] /\ (wait'[p] = Ready <=> wait[p] = Ready)
  BY Names DEF Steps
<1>2. QueueOK'
  BY <1>1, QueueUntouched DEF Kept
<1>3. JobsOK' /\ AcksOK'
  BY <1>1 DEF Kept, JobsOK, AcksOK, IsReady
<1>4. ListenersOK'
  BY <1>1 DEF Kept, ListenersOK, IsReady
<1>5. ConnectionOK'
  BY <1>1, Names DEF Kept, ConnectionOK, IsReady
<1>. QED  BY <1>1, <1>2, <1>3, <1>4, <1>5

LEMMA ArbiterKeeps ==
  ASSUME TypeOK, WaitsOK, Kept, Arbiter
  PROVE  WaitsOK' /\ Kept'
<1>1. ASSUME ArbiterFront PROVE WaitsOK' /\ Kept'
  <2>1. NoOwner /\ NoServer
    BY <1>1 DEF ArbiterFront, Resumes, Kept, Phase, Idle, Over, Offered, Accepted, Running, Leaving
  <2>. QED  BY <1>1, <2>1, GrantKeeps DEF ArbiterFront, Resumes
<1>2. ASSUME ArbiterDone PROVE WaitsOK' /\ Kept'
  <2>1. NoOwner /\ NoServer
    BY <1>2 DEF ArbiterDone, Resumes, Kept, Phase, Idle, Over, Offered, Accepted, Running, Leaving
  <2>2. CASE Grant({})
    BY <1>2, <2>1, <2>2, GrantKeeps DEF ArbiterDone, Resumes
  <2>3. CASE /\ queue = <<>>
             /\ Suspend("arbiter", "front", On("bus_request"), {})
             /\ UNCHANGED <<queue, currentReq, receivedResponse>>
    <3>1. "front" \in Segment \ Timed /\ AwaitedBy["front"] = "bus_request"
      BY DEF Segment, ArbiterSegment, Timed, AwaitedBy
    <3>2. Steps("arbiter", "front", {}) /\ WaitsOK'
      BY <2>3, <3>1, OnSteps, Names
    <3>3. /\ pc'["arbiter"] = "front" /\ wait'["arbiter"] # Ready
          /\ \A p \in Masters \cup Slaves :
               pc'[p] = pc[p] /\ (wait'[p] = Ready <=> wait[p] = Ready)
          /\ QueueOK' /\ JobsOK' /\ AcksOK' /\ ListenersOK' /\ ConnectionOK'
      BY <1>2, <2>3, <3>2, ArbiterSteps DEF ArbiterDone, Resumes
    <3>4. NoOwner' /\ NoServer'
      BY <2>1, <2>3, <3>3 DEF NoOwner, NoServer, OffBus, Queued, Transferring, Serving
    <3>5. Idle'
      BY <2>3, <3>3, <3>4 DEF Idle, IsReady
    <3>. QED  BY <3>2, <3>3, <3>5 DEF Kept, Phase
  <2>. QED  BY <1>2, <2>2, <2>3 DEF ArbiterDone, ArbiterLoop
<1>3. ASSUME ArbiterPolled PROVE WaitsOK' /\ Kept'
  <2>1. Steps("arbiter", "answer", {}) /\ WaitsOK'
    BY <1>3, ForSteps, CyclesPass, Names DEF ArbiterPolled, Timed
  <2>2. PICK o \in Masters, s \in Slaves : Accepted(o, s)
    BY <1>3 DEF ArbiterPolled, Resumes, Kept, Phase, Idle, Over, Offered, Running, Leaving
  <2>3. /\ pc'["arbiter"] = "answer" /\ wait'["arbiter"] # Ready
        /\ \A p \in Masters \cup Slaves :
             pc'[p] = pc[p] /\ (wait'[p] = Ready <=> wait[p] = Ready)
        /\ QueueOK' /\ JobsOK' /\ AcksOK' /\ ListenersOK' /\ ConnectionOK'
    BY <1>3, <2>1, ArbiterSteps DEF ArbiterPolled, Resumes
  <2>4. Owner(o)' /\ Attends(s, 0)'
    BY <1>3, <2>2, <2>3 DEF ArbiterPolled, Accepted, Owner, Attends, Server, Addressed, OffBus,
                            Queued, Transferring, Serving, Listened, IsReady
  <2>5. Accepted(o, s)'
    BY <1>3, <2>2, <2>3, <2>4 DEF ArbiterPolled, Accepted, Count, IsReady
  <2>. QED  BY <2>1, <2>3, <2>5 DEF Kept, Phase
<1>4. ASSUME ArbiterAnswer PROVE WaitsOK' /\ Kept'
  <2>1. /\ pc["arbiter"] = "answer" /\ IsReady("arbiter")
    BY <1>4 DEF ArbiterAnswer, Resumes
  <2>2. PICK o \in Masters, s \in Slaves : Accepted(o, s)
    BY <2>1 DEF Kept, Phase, Idle, Over, Offered, Running, Leaving
  <2>3. /\ Suspend("arbiter", "done", On("end_of_transfer"), {"master_ack"})
        /\ UNCHANGED <<queue, currentReq, receivedResponse, busData, job, heard, moved>>
    BY <1>4, <2>2 DEF ArbiterAnswer, Accepted
  <2>4. /\ "done" \in Segment \ Timed /\ AwaitedBy["done"] = "end_of_transfer"
        /\ NoEvent \notin {"master_ack"}
    BY DEF Segment, ArbiterSegment, Timed, AwaitedBy, NoEvent
  <2>5. Steps("arbiter", "done", {"master_ack"}) /\ WaitsOK'
    BY <2>3, <2>4, OnSteps, Names
  <2>6. /\ pc'["arbiter"] = "done" /\ wait'["arbiter"] # Ready
        /\ \A p \in Masters \cup Slaves : pc'[p] = pc[p]
        /\ \A p \in Masters \cup Slaves :
             wait'[p] = Ready <=> wait[p] = Ready \/ pc[p] = "granted"
    BY <2>5, Wakes, Segments, Names DEF Steps
  <2>7. \A p \in Slaves : pc[p] # "granted"
    BY Segments DEF SlaveSegment
  <2>8. \A m \in Masters : ~Transferring(m)
    BY <2>2 DEF Accepted, Owner, OffBus, Transferring
  <2>9. \A p \in Slaves : pc[p] # "close"
    BY <2>2 DEF Accepted, Attends, Server, Serving
  <2>10. QueueOK' /\ JobsOK'
    BY <2>3, <2>6, QueueUntouched DEF Kept, JobsOK, IsReady
  <2>11. AcksOK'
    BY <2>6, <2>8, <2>9 DEF AcksOK, Transferring, IsReady
  <2>12. ListenersOK'
    BY <2>1, <2>6, <2>7 DEF Kept, ListenersOK, IsReady
  <2>13. ConnectionOK'
    BY <2>3, <2>6, Names DEF Kept, ConnectionOK, IsReady
  <2>14. Owner(o)' /\ Attends(s, 0)'
    BY <2>2, <2>3, <2>6, <2>7 DEF Accepted, Owner, Attends, Server, Addressed, OffBus,
                            Queued, Transferring, Serving, Listened, IsReady
  <2>15. Running(o, s)'
    BY <2>2, <2>3, <2>6, <2>14 DEF Accepted, Running, Acknowledged, Count, IsReady
  <2>. QED  BY <2>5, <2>10, <2>11, <2>12, <2>13, <2>15 DEF Kept, Phase
<1>. QED  BY <1>1, <1>2, <1>3, <1>4 DEF Arbiter

-----------------------------------------------------------------------------
(* The two parties of a transfer. *)

LEMMA MstLoopSteps ==
  ASSUME TypeOK, WaitsOK, NEW m \in Masters, NEW i \in Nat, NEW fired, NoEvent \notin fired,
         MstLoop(m, i, fired)
  PROVE  /\ WaitsOK'
         /\ \/ /\ i < job[m].len
               /\ job[m].rdnwr
               /\ Steps(m, "read", fired \cup {"mst_ready"})
               /\ moved' = [moved EXCEPT ![m] = i] /\ UNCHANGED job
            \/ /\ i < job[m].len
               /\ ~job[m].rdnwr
               /\ Steps(m, "drive", fired)
               /\ moved' = [moved EXCEPT ![m] = i] /\ UNCHANGED job
            \/ /\ i >= job[m].len
               /\ Steps(m, IF OpensConnection(job[m]) THEN "connecting" ELSE "away", fired)
               /\ moved' = [moved EXCEPT ![m] = 0]
               /\ job' = [job EXCEPT ![m] = NoRequest]
<1>1. /\ "read" \in Segment \ Timed /\ AwaitedBy["read"] = "data_ready"
      /\ "away" \in Segment \ Timed /\ AwaitedBy["away"] = "work"
      /\ "connecting" \in Segment \ Timed /\ AwaitedBy["connecting"] = "connection_ready"
      /\ "drive" \in Timed \ {"polled"}
      /\ "mst_ready" # NoEvent
  BY DEF Segment, MasterSegment, Timed, AwaitedBy, NoEvent
<1>2. CASE /\ i < job[m].len
           /\ \/ job[m].rdnwr /\ Suspend(m, "read", On("data_ready"), fired \cup {"mst_ready"})
              \/ ~job[m].rdnwr /\ Suspend(m, "drive", For(Cycle), fired)
           /\ moved' = [moved EXCEPT ![m] = i]
           /\ UNCHANGED job
  <2>1. CASE job[m].rdnwr /\ Suspend(m, "read", On("data_ready"), fired \cup {"mst_ready"})
    BY <1>1, <1>2, <2>1, OnSteps, Names
  <2>2. CASE ~job[m].rdnwr /\ Suspend(m, "drive", For(Cycle), fired)
    BY <1>1, <1>2, <2>2, ForSteps, CyclesPass, Names
  <2>. QED  BY <1>2, <2>1, <2>2
<1>3. CASE i >= job[m].len /\ Return(m, fired)
  <2>1. CASE OpensConnection(job[m]) /\ Suspend(m, "connecting", On("connection_ready"), fired)
    BY <1>1, <1>3, <2>1, OnSteps, Names DEF Return
  <2>2. CASE ~OpensConnection(job[m]) /\ Suspend(m, "away", On("work"), fired)
    BY <1>1, <1>3, <2>2, OnSteps, Names DEF Return
  <2>. QED  BY <1>3, <2>1, <2>2 DEF Return
<1>. QED  BY <1>2, <1>3 DEF MstLoop

LEMMA SlvLoopSteps ==
  ASSUME TypeOK, WaitsOK, NEW s \in Slaves, NEW r, NEW i, NEW fired, NoEvent \notin fired,
         SlvLoop(s, r, i, fired)
  PROVE  /\ WaitsOK'
         /\ \/ /\ i < Words(s, r.rdnwr, r.len)
               /\ Steps(s, IF r.rdnwr THEN "send" ELSE "receive", fired)
               /\ heard' = [heard EXCEPT ![s] = r]
               /\ moved' = [moved EXCEPT ![s] = i]
            \/ /\ i >= Words(s, r.rdnwr, r.len)
               /\ Steps(s, IF s = "nic" /\ OpensConnection(r) THEN "setup" ELSE "listen", fired)
               /\ heard' = [heard EXCEPT ![s] = NoRequest]
               /\ moved' = [moved EXCEPT ![s] = 0]
<1>1. /\ "send" \in Segment \ Timed /\ AwaitedBy["send"] = "mst_ready"
      /\ "receive" \in Segment \ Timed /\ AwaitedBy["receive"] = "data_ready"
      /\ "listen" \in Segment \ Timed /\ AwaitedBy["listen"] = "slv_request"
      /\ "setup" \in Timed \ {"polled"}
  BY DEF Segment, SlaveSegment, Timed, AwaitedBy, NoEvent
<1>2. CASE /\ i < Words(s, r.rdnwr, r.len)
           /\ \/ r.rdnwr /\ Suspend(s, "send", On("mst_ready"), fired)
              \/ ~r.rdnwr /\ Suspend(s, "receive", On("data_ready"), fired)
           /\ heard' = [heard EXCEPT ![s] = r]
           /\ moved' = [moved EXCEPT ![s] = i]
  <2>1. CASE r.rdnwr /\ Suspend(s, "send", On("mst_ready"), fired)
    BY <1>1, <1>2, <2>1, OnSteps, Names
  <2>2. CASE ~r.rdnwr /\ Suspend(s, "receive", On("data_ready"), fired)
    BY <1>1, <1>2, <2>2, OnSteps, Names
  <2>. QED  BY <1>2, <2>1, <2>2
<1>3. CASE /\ i >= Words(s, r.rdnwr, r.len)
           /\ \/ /\ s = "nic" /\ OpensConnection(r)
                 /\ Suspend(s, "setup", For(SETUP), fired)
              \/ /\ ~(s = "nic" /\ OpensConnection(r))
                 /\ Suspend(s, "listen", On("slv_request"), fired)
           /\ heard' = [heard EXCEPT ![s] = NoRequest]
           /\ moved' = [moved EXCEPT ![s] = 0]
  <2>1. CASE s = "nic" /\ OpensConnection(r) /\ Suspend(s, "setup", For(SETUP), fired)
    BY <1>1, <1>3, <2>1, ForSteps, ClockAssumption, Names
  <2>2. CASE /\ ~(s = "nic" /\ OpensConnection(r))
             /\ Suspend(s, "listen", On("slv_request"), fired)
    BY <1>1, <1>3, <2>2, OnSteps, Names
  <2>. QED  BY <1>3, <2>1, <2>2
<1>. QED  BY <1>2, <1>3 DEF SlvLoop

\* The master or slave t of a transfer ends a segment.
LEMMA TransferStep ==
  ASSUME TypeOK, Kept, NEW t \in Masters \cup Slaves, NEW seg,
         NEW fired \in SUBSET {"mst_ready", "data_ready", "slv_ready", "end_of_transfer"},
         Steps(t, seg, fired),
         pc["arbiter"] = "done", ~IsReady("arbiter"), receivedResponse,
         UNCHANGED <<queue, receivedResponse>>,
         Listened' = Listened, currentReq'.id = currentReq.id,
         t \in Masters => ~Queued(t) /\ pc[t] \notin {"away", "connecting"},
         \A m \in Masters : m # t \/ seg \notin {"away", "connecting"} => job'[m] = job[m],
         \/ seg \notin {"written", "close"} /\ "end_of_transfer" \notin fired
         \/ \A m \in Masters : ~(pc[m] = "granted" /\ IsReady(m))
  PROVE  /\ pc'[t] = seg /\ wait'[t] # Ready
         /\ \A p \in (Masters \cup Slaves) \ {t} :
              /\ pc'[p] = pc[p]
              /\ wait'[p] = Ready <=> wait[p] = Ready \/ AwaitedBy[pc[p]] \in fired
         /\ pc'["arbiter"] = "done"
         /\ IsReady("arbiter")' <=> "end_of_transfer" \in fired
         /\ currentReq'.addr = currentReq.addr /\ currentReq'.len = currentReq.len
         /\ currentReq'.rdnwr = currentReq.rdnwr
         /\ QueueOK' /\ JobsOK' /\ AcksOK' /\ ListenersOK'
<1>1. /\ pc'[t] = seg /\ wait'[t] # Ready
      /\ \A p \in (Masters \cup Slaves) \ {t} :
           /\ pc'[p] = pc[p]
           /\ wait'[p] = Ready <=> wait[p] = Ready \/ AwaitedBy[pc[p]] \in fired
  BY Names DEF Steps
<1>2. /\ pc'["arbiter"] = "done"
      /\ IsReady("arbiter")' <=> "end_of_transfer" \in fired
  BY Names DEF Steps, IsReady, AwaitedBy
<1>3. /\ currentReq'.addr = currentReq.addr /\ currentReq'.len = currentReq.len
      /\ currentReq'.rdnwr = currentReq.rdnwr
  BY DEF Listened
<1>4. \A p \in (Masters \cup Slaves) \ {t} :
        pc[p] \in {"away", "granted", "connecting", "latch", "drive", "close", "listen", "setup"} =>
          (wait'[p] = Ready <=> wait[p] = Ready)
  BY <1>1 DEF AwaitedBy, NoEvent
<1>5. QueueOK'
  <2>1. ASSUME NEW m \in Masters, Queued(m) PROVE pc'[m] = "granted" /\ job'[m] = job[m]
    BY <1>1, <2>1, QueuedWaits DEF Kept
  <2>. QED  BY <2>1, QueueUntouched DEF Kept
<1>6. JobsOK'
  BY <1>1, <1>4, Names DEF Kept, JobsOK, IsReady
<1>7. AcksOK'
  <2>. SUFFICES ASSUME NEW g \in Masters, pc'[g] = "granted", wait'[g] = Ready PROVE AcksOK'
    BY DEF AcksOK, IsReady
  <2>1. g # t /\ pc[g] = "granted" /\ wait[g] = Ready
    BY <1>1, <1>4
  <2>2. /\ \A m \in Masters : /\ pc[m] \notin {"written", "close"}
                              /\ pc[m] \in {"latch", "drive"} => wait[m] # Ready
        /\ \A s \in Slaves : pc[s] # "close"
    BY <2>1 DEF Kept, AcksOK, IsReady
  <2>3. seg \notin {"written", "close"} /\ "end_of_transfer" \notin fired
    BY <2>1 DEF IsReady
  <2>. QED  BY <1>1, <1>2, <1>4, <2>2, <2>3 DEF AcksOK, IsReady
<1>8. ListenersOK'
  BY <1>1, <1>4 DEF Kept, ListenersOK, IsReady
<1>. QED  BY <1>1, <1>2, <1>3, <1>5, <1>6, <1>7, <1>8

\* Who takes part in a transfer, seen from a thread that does.
LEMMA WhoTransfers ==
  ASSUME TypeOK, Kept, NEW m \in Masters, Transferring(m)
  PROVE  \E s \in Slaves : Running(m, s)
<1>1. ~OffBus(m) /\ pc[m] # "granted"
  BY DEF OffBus, Transferring
<1>2. ~NoOwner /\ \A o \in Masters : Owner(o) => o = m
  BY <1>1 DEF NoOwner, Owner
<1>. QED  BY <1>1, <1>2 DEF Kept, Phase, Idle, Over, Offered, Accepted, Leaving, Running

LEMMA WhoServes ==
  ASSUME TypeOK, Kept, NEW s \in Slaves, Serving(s)
  PROVE  \/ \E o \in Masters : Accepted(o, s) \/ Running(o, s)
         \/ Leaving(s)
<1>1. ~NoServer /\ \A p \in Slaves : Server(p) => p = s
  BY DEF NoServer, Server
<1>2. \A o \in Masters, p \in Slaves : Accepted(o, p) => p = s
  BY <1>1 DEF Accepted, Attends
<1>3. \A o \in Masters, p \in Slaves : Running(o, p) => p = s
  BY <1>1 DEF Running, Acknowledged, Asking, Fetching, Closing, Driving, Taking, Taken, Attends
<1>4. \A p \in Slaves : Leaving(p) => p = s
  BY <1>1 DEF Leaving
<1>. QED  BY <1>1, <1>2, <1>3, <1>4 DEF Kept, Phase, Idle, Over, Offered

LEMMA Parties ==
  ASSUME TypeOK, Kept, NEW o \in Masters, NEW s \in Slaves, Running(o, s)
  PROVE  /\ Length = job[o].len /\ Length \in Nat \ {0} /\ Count \in Nat
         /\ currentReq.addr \in Nat /\ currentReq.rdnwr = job[o].rdnwr
         /\ moved[o] \in Nat /\ moved[s] \in Nat
         /\ job[o] \in Program[o] /\ OpensConnection(job[o]) = OpensConnection(Listened)
         /\ Addressed(s) => Words(s, currentReq.rdnwr, Length) = Length
<1>1. pc[o] \notin {"away", "connecting"}
  BY DEF Running, Acknowledged, Asking, Fetching, Closing, Driving, Taking, Taken
<1>2. job[o] \in Program[o] /\ job[o].len > 0
  BY <1>1, ServedAssumption DEF Kept, JobsOK
<1>3. Listened = job[o]
  BY DEF Running, Owner
<1>4. Length = job[o].len /\ currentReq.rdnwr = job[o].rdnwr
  BY <1>3 DEF Listened, Length
<1>. QED  BY <1>2, <1>3, <1>4 DEF TypeOK, QueuedRequest, Length, Count, Addressed

\* The owner of the request goes on with its transfer.
LEMMA OwnerSteps ==
  ASSUME TypeOK, Kept, NEW o \in Masters, NEW s \in Slaves, Running(o, s),
         NEW seg \in {"read", "latch", "close", "drive", "written"},
         NEW fired \in SUBSET {"mst_ready", "data_ready"}, Steps(o, seg, fired),
         UNCHANGED <<queue, receivedResponse, job, heard>>,
         Listened' = Listened, currentReq'.id = currentReq.id,
         \A p \in Slaves : moved'[p] = moved[p],
         seg \in {"written", "close"} => ~(\E m \in Masters : pc[m] = "granted" /\ IsReady(m))
  PROVE  /\ QueueOK' /\ JobsOK' /\ AcksOK' /\ ListenersOK' /\ ConnectionOK'
         /\ pc'[o] = seg /\ ~IsReady(o)'
         /\ pc'["arbiter"] = "done" /\ ~IsReady("arbiter")' /\ receivedResponse'
         /\ Owner(o)'
         /\ \A p \in Slaves : /\ pc'[p] = pc[p]
                              /\ IsReady(p)' <=> IsReady(p) \/ AwaitedBy[pc[p]] \in fired
                              /\ Server(p) => Server(p)'
                              /\ Addressed(p)' <=> Addressed(p)
         /\ NoServer => NoServer'
         /\ Length' = Length /\ currentReq'.rdnwr = currentReq.rdnwr
<1>1. /\ pc["arbiter"] = "done" /\ ~IsReady("arbiter") /\ receivedResponse /\ Owner(o)
      /\ pc[o] \notin {"away", "connecting"} /\ ~Queued(o)
  BY DEF Running, Owner, Acknowledged, Asking, Fetching, Closing, Driving, Taking, Taken
<1>2. fired \in SUBSET {"mst_ready", "data_ready", "slv_ready", "end_of_transfer"}
      /\ "end_of_transfer" \notin fired
  OBVIOUS
<1>3. /\ pc'[o] = seg /\ wait'[o] # Ready
      /\ \A p \in (Masters \cup Slaves) \ {o} :
           /\ pc'[p] = pc[p]
           /\ wait'[p] = Ready <=> wait[p] = Ready \/ AwaitedBy[pc[p]] \in fired
      /\ pc'["arbiter"] = "done"
      /\ IsReady("arbiter")' <=> "end_of_transfer" \in fired
      /\ currentReq'.addr = currentReq.addr /\ currentReq'.len = currentReq.len
      /\ currentReq'.rdnwr = currentReq.rdnwr
      /\ QueueOK' /\ JobsOK' /\ AcksOK' /\ ListenersOK'
  BY <1>1, <1>2, TransferStep, Names
<1>4. /\ \A p \in Masters \ {o} : pc'[p] = pc[p]
      /\ \A p \in Slaves :
           /\ pc'[p] = pc[p]
           /\ wait'[p] = Ready <=> wait[p] = Ready \/ AwaitedBy[pc[p]] \in fired
  BY <1>3, Names
<1>5. \A p \in Masters \ {o} : pc[p] = "connecting" => (wait'[p] = Ready <=> wait[p] = Ready)
  BY <1>3, Names DEF AwaitedBy
<1>6. ConnectionOK'
  BY <1>1, <1>3, <1>4, <1>5, Names DEF Kept, ConnectionOK, IsReady
<1>7. Owner(o)'
  BY <1>1, <1>4 DEF Owner, OffBus, Queued, Transferring
<1>8. \A p \in Slaves : Serving(p)' <=> Serving(p)
  BY <1>4 DEF Serving
<1>9. \A p \in Slaves : (Addressed(p)' <=> Addressed(p)) /\ (Server(p) => Server(p)')
  BY <1>3, <1>8 DEF Addressed, Server
<1>10. NoServer => NoServer'
  BY <1>8 DEF NoServer
<1>. QED  BY <1>1, <1>3, <1>4, <1>6, <1>7, <1>9, <1>10 DEF IsReady, Length

LEMMA MstReadDataKeeps ==
  ASSUME TypeOK, WaitsOK, Kept, NEW m \in Masters, MstReadData(m)
  PROVE  WaitsOK' /\ Kept'
<1>1. Steps(m, "latch", {}) /\ WaitsOK'
  BY ForSteps, CyclesPass, Names DEF MstReadData, Timed
<1>2. /\ pc[m] = "read" /\ IsReady(m)
      /\ UNCHANGED <<queue, currentReq, receivedResponse, busData, job, heard, moved>>
  BY DEF MstReadData, Resumes
<1>3. PICK s \in Slaves : Running(m, s)
  BY <1>2, WhoTransfers DEF Transferring
<1>4. Fetching(m, s)
  BY <1>2, <1>3 DEF Running, Acknowledged, Asking, Closing, Driving, Taking, Taken
<1>5. Listened' = Listened
  BY <1>2 DEF Listened
<1>6. /\ QueueOK' /\ JobsOK' /\ AcksOK' /\ ListenersOK' /\ ConnectionOK'
      /\ pc'[m] = "latch" /\ ~IsReady(m)'
      /\ pc'["arbiter"] = "done" /\ ~IsReady("arbiter")' /\ receivedResponse'
      /\ Owner(m)'
      /\ \A p \in Slaves : /\ pc'[p] = pc[p]
                           /\ IsReady(p)' <=> IsReady(p)
                           /\ Server(p) => Server(p)'
                           /\ Addressed(p)' <=> Addressed(p)
      /\ NoServer => NoServer'
  BY <1>1, <1>2, <1>3, <1>5, OwnerSteps
<1>7. Fetching(m, s)'
  BY <1>2, <1>4, <1>6 DEF Fetching, Attends, Count, Length
<1>8. Phase'
  BY <1>6, <1>7 DEF Running, Phase
<1>. QED  BY <1>1, <1>6, <1>8 DEF Kept

LEMMA MstWriteDataKeeps ==
  ASSUME TypeOK, WaitsOK, Kept, NEW m \in Masters, MstWriteData(m)
  PROVE  WaitsOK' /\ Kept'
<1>1. /\ "written" \in Segment \ Timed /\ AwaitedBy["written"] = "slv_ready"
      /\ NoEvent \notin {"data_ready"}
  BY DEF Segment, MasterSegment, Timed, AwaitedBy, NoEvent
<1>2. Steps(m, "written", {"data_ready"}) /\ WaitsOK'
  BY <1>1, OnSteps, Names DEF MstWriteData
<1>3. /\ pc[m] = "drive" /\ IsReady(m)
      /\ busData' = [src |-> m, idx |-> moved[m] + 1]
      /\ UNCHANGED <<queue, currentReq, receivedResponse, job, heard, moved>>
  BY DEF MstWriteData, Resumes
<1>4. PICK s \in Slaves : Running(m, s)
  BY <1>3, WhoTransfers DEF Transferring
<1>5. Driving(m, s)
  BY <1>3, <1>4 DEF Running, Acknowledged, Asking, Closing, Fetching, Taking, Taken
<1>6. Listened' = Listened
  BY <1>3 DEF Listened
<1>7. ~(\E g \in Masters : pc[g] = "granted" /\ IsReady(g))
  BY <1>3 DEF Kept, AcksOK
<1>8. /\ QueueOK' /\ JobsOK' /\ AcksOK' /\ ListenersOK' /\ ConnectionOK'
      /\ pc'[m] = "written" /\ ~IsReady(m)'
      /\ pc'["arbiter"] = "done" /\ ~IsReady("arbiter")' /\ receivedResponse'
      /\ Owner(m)'
      /\ \A p \in Slaves : /\ pc'[p] = pc[p]
                           /\ IsReady(p)' <=> IsReady(p) \/ AwaitedBy[pc[p]] \in {"data_ready"}
                           /\ Server(p) => Server(p)'
  BY <1>2, <1>3, <1>4, <1>6, <1>7, OwnerSteps
<1>9. pc[s] = "receive" /\ AwaitedBy["receive"] = "data_ready" /\ Server(s) /\ moved[s] = Count
  BY <1>5 DEF Driving, Attends, AwaitedBy
<1>10. Taking(m, s)'
  BY <1>3, <1>5, <1>8, <1>9 DEF Taking, Driving, Count, Length
<1>11. Phase'
  BY <1>8, <1>10 DEF Running, Phase
<1>. QED  BY <1>2, <1>8, <1>11 DEF Kept

LEMMA MstLatchKeeps ==
  ASSUME TypeOK, WaitsOK, Kept, NEW m \in Masters, MstLatch(m)
  PROVE  WaitsOK' /\ Kept'
<1>1. /\ pc[m] = "latch" /\ IsReady(m)
      /\ currentReq' = [currentReq EXCEPT !.bytesTransferred = @ + 1]
      /\ UNCHANGED <<queue, receivedResponse, busData, heard>>
  BY DEF MstLatch, Resumes
<1>2. PICK s \in Slaves : Running(m, s)
  BY <1>1, WhoTransfers DEF Transferring
<1>3. Fetching(m, s) /\ Owner(m)
  BY <1>1, <1>2 DEF Running, Acknowledged, Asking, Closing, Driving, Taking, Taken
<1>4. /\ Length = job[m].len /\ Length \in Nat \ {0} /\ Count \in Nat
      /\ moved[m] = Count /\ currentReq.rdnwr /\ job[m].rdnwr
  BY <1>2, <1>3, Parties DEF Fetching
<1>5. /\ Count' = Count + 1
      /\ Listened' = Listened /\ currentReq'.id = currentReq.id
  BY <1>1 DEF Listened, Count, TypeOK, QueuedRequest
<1>6. ~(\E g \in Masters : pc[g] = "granted" /\ IsReady(g))
  BY <1>1 DEF Kept, AcksOK
<1>7. CASE Count + 1 = Length
  <2>1. Suspend(m, "close", For(Cycle), {}) /\ UNCHANGED <<job, moved>>
    BY <1>7 DEF MstLatch, Count, Length
  <2>2. Steps(m, "close", {}) /\ WaitsOK'
    BY <2>1, ForSteps, CyclesPass, Names DEF Timed
  <2>3. /\ QueueOK' /\ JobsOK' /\ AcksOK' /\ ListenersOK' /\ ConnectionOK'
        /\ pc'[m] = "close"
        /\ pc'["arbiter"] = "done" /\ ~IsReady("arbiter")' /\ receivedResponse'
        /\ Owner(m)' /\ (NoServer => NoServer')
        /\ Length' = Length /\ currentReq'.rdnwr = currentReq.rdnwr
    BY <1>1, <1>2, <1>5, <1>6, <2>1, <2>2, OwnerSteps
  <2>4. NoServer
    BY <1>3, <1>4, <1>7 DEF Fetching
  <2>5. Closing(m)'
    BY <1>4, <1>5, <1>7, <2>1, <2>3, <2>4 DEF Closing, Length
  <2>6. Phase'
    BY <1>2, <2>3, <2>5 DEF Running, Phase
  <2>. QED  BY <2>2, <2>3, <2>6 DEF Kept
<1>8. CASE Count + 1 # Length
  <2>1. MstLoop(m, moved[m] + 1, {})
    BY <1>8 DEF MstLatch, Count, Length
  <2>2. Count + 1 < Length /\ Attends(s, Count + 1)
    BY <1>3, <1>8 DEF Fetching
  <2>3. moved[m] + 1 \in Nat /\ moved[m] + 1 < job[m].len
    BY <1>4, <2>2
  <2>4. /\ WaitsOK'
        /\ Steps(m, "read", {} \cup {"mst_ready"})
        /\ moved' = [moved EXCEPT ![m] = moved[m] + 1] /\ UNCHANGED job
    <3>. DEFINE i == moved[m] + 1
    <3>. i \in Nat /\ NoEvent \notin {} /\ MstLoop(m, i, {})
      BY <2>1, <2>3
    <3>. HIDE DEF i
    <3>1. /\ WaitsOK'
          /\ \/ /\ i < job[m].len
                /\ job[m].rdnwr
                /\ Steps(m, "read", {} \cup {"mst_ready"})
                /\ moved' = [moved EXCEPT ![m] = i] /\ UNCHANGED job
             \/ ~job[m].rdnwr
             \/ i >= job[m].len
      BY MstLoopSteps
    <3>2. i < job[m].len /\ job[m].len \in Nat
      BY <1>4, <2>3 DEF i
    <3>. QED  BY <1>4, <3>1, <3>2 DEF i
  <2>5. /\ moved'[m] = Count + 1
        /\ \A p \in Slaves : moved'[p] = moved[p]
    BY <1>4, <2>4, Names DEF TypeOK
  <2>6. Steps(m, "read", {"mst_ready"})
    <3>1. {} \cup {"mst_ready"} = {"mst_ready"}
      OBVIOUS
    <3>. QED  BY <2>4, <3>1
  <2>7. /\ QueueOK' /\ JobsOK' /\ AcksOK' /\ ListenersOK' /\ ConnectionOK'
        /\ pc'[m] = "read" /\ ~IsReady(m)'
        /\ pc'["arbiter"] = "done" /\ ~IsReady("arbiter")' /\ receivedResponse'
        /\ Owner(m)'
        /\ \A p \in Slaves : /\ pc'[p] = pc[p]
                             /\ IsReady(p)' <=> IsReady(p) \/ AwaitedBy[pc[p]] \in {"mst_ready"}
                             /\ Server(p) => Server(p)'
        /\ currentReq'.rdnwr = currentReq.rdnwr /\ Length' = Length
    BY <1>1, <1>2, <1>5, <2>4, <2>5, <2>6, OwnerSteps
  <2>8. pc[s] = "send" /\ AwaitedBy["send"] = "mst_ready" /\ Server(s) /\ moved[s] = Count + 1
    BY <1>4, <2>2 DEF Attends, AwaitedBy
  <2>9. Asking(m, s)'
    BY <1>4, <1>5, <2>2, <2>5, <2>7, <2>8 DEF Asking
  <2>10. Phase'
    BY <2>7, <2>9 DEF Running, Phase
  <2>. QED  BY <2>4, <2>7, <2>10 DEF Kept
<1>. QED  BY <1>7, <1>8

\* The owner of the request has moved its last word.
LEMMA OwnerLeaves ==
  ASSUME TypeOK, Kept, NEW o \in Masters, NEW s \in Slaves, Running(o, s),
         NEW seg, seg = (IF OpensConnection(job[o]) THEN "connecting" ELSE "away"),
         NEW fired \in SUBSET {"end_of_transfer"}, Steps(o, seg, fired),
         UNCHANGED <<queue, currentReq, receivedResponse, heard>>,
         \A p \in Masters \ {o} : job'[p] = job[p],
         \A p \in Slaves : moved'[p] = moved[p],
         ~(\E m \in Masters : pc[m] = "granted" /\ IsReady(m)),
         OpensConnection(job[o]) => pc["nic"] = "close" /\ OpensConnection(heard["nic"])
  PROVE  /\ QueueOK' /\ JobsOK' /\ AcksOK' /\ ListenersOK' /\ ConnectionOK'
         /\ pc'[o] = seg /\ ~IsReady(o)'
         /\ pc'["arbiter"] = "done"
         /\ IsReady("arbiter")' <=> "end_of_transfer" \in fired
         /\ receivedResponse'
         /\ NoOwner'
         /\ \A p \in Slaves : /\ pc'[p] = pc[p]
                              /\ IsReady(p)' <=> IsReady(p)
                              /\ Server(p) => Server(p)'
         /\ NoServer => NoServer'
<1>1. /\ pc["arbiter"] = "done" /\ ~IsReady("arbiter") /\ receivedResponse /\ Owner(o)
      /\ pc[o] \notin {"away", "connecting"} /\ ~Queued(o)
  BY DEF Running, Owner, Acknowledged, Asking, Fetching, Closing, Driving, Taking, Taken
<1>2. /\ fired \in SUBSET {"mst_ready", "data_ready", "slv_ready", "end_of_transfer"}
      /\ Listened' = Listened /\ currentReq'.id = currentReq.id
      /\ UNCHANGED <<queue, receivedResponse>>
      /\ seg \in {"away", "connecting"}
  BY DEF Listened
<1>3. /\ pc'[o] = seg /\ wait'[o] # Ready
      /\ \A p \in (Masters \cup Slaves) \ {o} :
           /\ pc'[p] = pc[p]
           /\ wait'[p] = Ready <=> wait[p] = Ready \/ AwaitedBy[pc[p]] \in fired
      /\ pc'["arbiter"] = "done"
      /\ IsReady("arbiter")' <=> "end_of_transfer" \in fired
      /\ QueueOK' /\ JobsOK' /\ AcksOK' /\ ListenersOK'
  BY <1>1, <1>2, TransferStep, Names
<1>4. \A p \in Masters \cup Slaves : AwaitedBy[pc[p]] \notin fired
  <2>. SUFFICES ASSUME NEW p \in Masters \cup Slaves PROVE AwaitedBy[pc[p]] # "end_of_transfer"
    OBVIOUS
  <2>1. pc[p] \in Segment /\ pc[p] # "done"
    BY Segments, Names DEF MasterSegment, SlaveSegment
  <2>. QED  BY <2>1, Wakes
<1>5. /\ \A p \in Masters \ {o} : pc'[p] = pc[p] /\ (wait'[p] = Ready <=> wait[p] = Ready)
      /\ \A p \in Slaves : pc'[p] = pc[p] /\ (wait'[p] = Ready <=> wait[p] = Ready)
  BY <1>3, <1>4, Names
<1>6. ConnectionOK'
  <2>1. OpensConnection(job[o]) => Opener(o)
    BY Parties DEF Opener
  <2>2. \A p \in Slaves : pc'[p] = "setup" =>
          /\ p = "nic"
          /\ \E m \in Masters : Opener(m) /\ pc'[m] = "connecting" /\ wait'[m] # Ready
    BY <1>1, <1>5 DEF Kept, ConnectionOK, IsReady
  <2>3. \A m \in Masters \ {o} : pc'[m] = "connecting" =>
          /\ Opener(m)
          /\ \/ wait'[m] = Ready
             \/ pc'["nic"] = "setup"
             \/ pc'["nic"] = "close" /\ OpensConnection(heard'["nic"])
    BY <1>5, Names DEF Kept, ConnectionOK, IsReady
  <2>4. pc'[o] = "connecting" =>
          /\ Opener(o)
          /\ pc'["nic"] = "close" /\ OpensConnection(heard'["nic"])
    BY <1>3, <1>5, <2>1, Names
  <2>. QED  BY <2>2, <2>3, <2>4 DEF ConnectionOK, IsReady
<1>7. NoOwner'
  BY <1>1, <1>2, <1>3, <1>5 DEF Owner, NoOwner, OffBus, Queued, Transferring
<1>8. \A p \in Slaves : Serving(p)' <=> Serving(p)
  BY <1>5 DEF Serving
<1>9. \A p \in Slaves : Server(p) => Server(p)'
  BY <1>2, <1>8 DEF Addressed, Server
<1>10. NoServer => NoServer'
  BY <1>8 DEF NoServer
<1>. QED  BY <1>1, <1>3, <1>5, <1>6, <1>7, <1>9, <1>10 DEF IsReady

LEMMA MstCloseKeeps ==
  ASSUME TypeOK, WaitsOK, Kept, NEW m \in Masters, MstClose(m)
  PROVE  WaitsOK' /\ Kept'
<1>1. /\ pc[m] = "close" /\ IsReady(m)
      /\ MstLoop(m, moved[m] + 1, {"end_of_transfer"})
      /\ UNCHANGED <<queue, currentReq, receivedResponse, busData, heard>>
  BY DEF MstClose, Resumes
<1>2. PICK s \in Slaves : Running(m, s)
  BY <1>1, WhoTransfers DEF Transferring
<1>3. Closing(m) /\ Owner(m)
  BY <1>1, <1>2 DEF Running, Acknowledged, Asking, Fetching, Driving, Taking, Taken
<1>4. /\ Length = job[m].len /\ Length \in Nat \ {0} /\ Count \in Nat /\ moved[m] \in Nat
      /\ moved[m] + 1 = Length /\ Count = Length /\ job[m].rdnwr
  BY <1>2, <1>3, Parties DEF Closing
<1>5. ~OpensConnection(job[m])
  BY <1>4 DEF OpensConnection
<1>6. NoEvent \notin {"end_of_transfer"}
  BY DEF NoEvent
<1>7. /\ WaitsOK'
      /\ Steps(m, IF OpensConnection(job[m]) THEN "connecting" ELSE "away", {"end_of_transfer"})
      /\ moved' = [moved EXCEPT ![m] = 0]
      /\ job' = [job EXCEPT ![m] = NoRequest]
  <2>1. moved[m] + 1 \in Nat /\ job[m].len \in Nat /\ ~(moved[m] + 1 < job[m].len)
    BY <1>4
  <2>. QED  BY <1>1, <1>6, <2>1, MstLoopSteps
<1>8. /\ \A p \in Masters \ {m} : job'[p] = job[p]
      /\ \A p \in Slaves : moved'[p] = moved[p]
  BY <1>7, Names DEF TypeOK
<1>9. ~(\E g \in Masters : pc[g] = "granted" /\ IsReady(g))
  BY <1>1 DEF Kept, AcksOK
<1>10. /\ QueueOK' /\ JobsOK' /\ AcksOK' /\ ListenersOK' /\ ConnectionOK'
       /\ pc'["arbiter"] = "done" /\ IsReady("arbiter")' /\ receivedResponse'
       /\ NoOwner' /\ (NoServer => NoServer')
  <2>. DEFINE seg == IF OpensConnection(job[m]) THEN "connecting" ELSE "away"
  <2>1. Steps(m, seg, {"end_of_transfer"}) /\ {"end_of_transfer"} \in SUBSET {"end_of_transfer"}
    BY <1>7
  <2>. HIDE DEF seg
  <2>2. seg = IF OpensConnection(job[m]) THEN "connecting" ELSE "away"
    BY DEF seg
  <2>. QED  BY <1>1, <1>2, <1>5, <1>8, <1>9, <2>1, <2>2, OwnerLeaves
<1>11. Over'
  BY <1>1, <1>3, <1>4, <1>10 DEF Over, Closing, Count, Length
<1>. QED  BY <1>7, <1>10, <1>11 DEF Kept, Phase

LEMMA MstWrittenKeeps ==
  ASSUME TypeOK, WaitsOK, Kept, NEW m \in Masters, MstWritten(m)
  PROVE  WaitsOK' /\ Kept'
<1>1. /\ pc[m] = "written" /\ IsReady(m)
      /\ MstLoop(m, moved[m] + 1, {})
      /\ UNCHANGED <<queue, currentReq, receivedResponse, busData, heard>>
  BY DEF MstWritten, Resumes
<1>2. PICK s \in Slaves : Running(m, s)
  BY <1>1, WhoTransfers DEF Transferring
<1>3. Taken(m, s) /\ Owner(m)
  BY <1>1, <1>2 DEF Running, Acknowledged, Asking, Fetching, Driving, Taking, Closing
<1>4. /\ Length = job[m].len /\ Length \in Nat \ {0} /\ Count \in Nat /\ moved[m] \in Nat
      /\ moved[m] + 1 = Count /\ ~job[m].rdnwr /\ Listened = job[m]
  BY <1>2, <1>3, Parties DEF Taken, Owner
<1>5. ~(\E g \in Masters : pc[g] = "granted" /\ IsReady(g))
  BY <1>1 DEF Kept, AcksOK
<1>6. moved[m] + 1 \in Nat /\ job[m].len \in Nat /\ NoEvent \notin {}
  BY <1>4
<1>7. Listened' = Listened /\ Count' = Count /\ Length' = Length
  BY <1>1 DEF Listened, Count, Length
<1>8. CASE Count < Length
  <2>1. moved[m] + 1 < job[m].len /\ ~(moved[m] + 1 >= job[m].len)
    BY <1>4, <1>8
  <2>2. /\ WaitsOK'
        /\ Steps(m, "drive", {})
        /\ moved' = [moved EXCEPT ![m] = moved[m] + 1] /\ UNCHANGED job
    BY <1>1, <1>4, <1>6, <2>1, MstLoopSteps
  <2>3. /\ moved'[m] = Count
        /\ \A p \in Slaves : moved'[p] = moved[p]
    BY <1>4, <2>2, Names DEF TypeOK
  <2>4. /\ QueueOK' /\ JobsOK' /\ AcksOK' /\ ListenersOK' /\ ConnectionOK'
        /\ pc'[m] = "drive"
        /\ pc'["arbiter"] = "done" /\ ~IsReady("arbiter")' /\ receivedResponse'
        /\ Owner(m)'
        /\ \A p \in Slaves : /\ pc'[p] = pc[p]
                             /\ IsReady(p)' <=> IsReady(p)
                             /\ Server(p) => Server(p)'
    BY <1>1, <1>2, <1>7, <2>2, <2>3, OwnerSteps
  <2>5. Attends(s, Count)
    BY <1>3, <1>4, <1>8 DEF Taken
  <2>6. Driving(m, s)'
    BY <1>1, <1>3, <1>7, <1>8, <2>3, <2>4, <2>5 DEF Driving, Attends, Taken
  <2>7. Phase'
    BY <2>4, <2>6 DEF Running, Phase
  <2>. QED  BY <2>2, <2>4, <2>7 DEF Kept
<1>9. CASE ~(Count < Length)
  <2>1. ~(moved[m] + 1 < job[m].len)
    BY <1>4, <1>9
  <2>2. /\ WaitsOK'
        /\ Steps(m, IF OpensConnection(job[m]) THEN "connecting" ELSE "away", {})
        /\ moved' = [moved EXCEPT ![m] = 0]
        /\ job' = [job EXCEPT ![m] = NoRequest]
    BY <1>1, <1>6, <2>1, MstLoopSteps
  <2>3. /\ \A p \in Masters \ {m} : job'[p] = job[p]
        /\ \A p \in Slaves : moved'[p] = moved[p]
    BY <2>2, Names DEF TypeOK
  <2>4. /\ Count = Length /\ Server(s)
        /\ pc[s] = "close" /\ ~IsReady(s) /\ moved[s] + 1 = Count
    BY <1>3, <1>9 DEF Taken
  <2>5. OpensConnection(job[m]) => s = "nic"
    <3>1. Claims(s, currentReq.addr, Length) /\ heard[s] = job[m]
      BY <1>4, <2>4 DEF Server, Addressed, Length
    <3>2. currentReq.addr \in Nat /\ job[m].addr = currentReq.addr
      BY <1>4 DEF TypeOK, QueuedRequest, Listened
    <3>. QED  BY <1>4, <3>1, <3>2, AtMostOneClaims, Names DEF OpensConnection
  <2>6. OpensConnection(job[m]) => pc["nic"] = "close" /\ OpensConnection(heard["nic"])
    BY <1>4, <2>4, <2>5 DEF Server
  <2>7. /\ QueueOK' /\ JobsOK' /\ AcksOK' /\ ListenersOK' /\ ConnectionOK'
        /\ pc'[m] = (IF OpensConnection(job[m]) THEN "connecting" ELSE "away") /\ ~IsReady(m)'
        /\ pc'["arbiter"] = "done" /\ ~IsReady("arbiter")' /\ receivedResponse'
        /\ NoOwner'
        /\ \A p \in Slaves : pc'[p] = pc[p] /\ (Server(p) => Server(p)')
    <3>. DEFINE seg == IF OpensConnection(job[m]) THEN "connecting" ELSE "away"
    <3>1. Steps(m, seg, {}) /\ {} \in SUBSET {"end_of_transfer"}
      BY <2>2
    <3>. HIDE DEF seg
    <3>2. seg = IF OpensConnection(job[m]) THEN "connecting" ELSE "away"
      BY DEF seg
    <3>. QED  BY <1>1, <1>2, <1>5, <2>3, <2>6, <3>1, <3>2, OwnerLeaves
  <2>8. OpensConnection(heard'[s]) =>
          \E p \in Masters : Opener(p) /\ pc'[p] = "connecting" /\ ~IsReady(p)'
    <3>1. heard'[s] = job[m]
      BY <1>1, <1>4, <2>4 DEF Server
    <3>. QED  BY <1>2, <2>7, <3>1, Parties DEF Opener
  <2>9. Leaving(s)'
    BY <1>1, <1>3, <1>7, <2>3, <2>4, <2>7, <2>8 DEF Leaving, Taken
  <2>10. Phase'
    BY <2>9 DEF Phase
  <2>. QED  BY <2>2, <2>7, <2>10 DEF Kept
<1>. QED  BY <1>8, <1>9

LEMMA MstGrantedKeeps ==
  ASSUME TypeOK, WaitsOK, Kept, NEW m \in Masters, MstGranted(m)
  PROVE  WaitsOK' /\ Kept'
<1>1. /\ pc[m] = "granted" /\ IsReady(m)
      /\ UNCHANGED <<queue, currentReq, receivedResponse, busData, heard>>
  BY DEF MstGranted, Resumes
<1>2. PICK o \in Masters, s \in Slaves : Running(o, s)
  <2>1. pc["arbiter"] = "done" /\ ~IsReady("arbiter") /\ \A s \in Slaves : pc[s] # "close"
    BY <1>1 DEF Kept, AcksOK
  <2>. QED  BY <2>1 DEF Kept, Phase, Idle, Over, Offered, Accepted, Leaving
<1>3. Owner(o) /\ currentReq.id = mstId[o] /\ receivedResponse
  BY <1>2 DEF Running, Owner
<1>4. CASE currentReq.id # mstId[m]
  <2>1. Suspend(m, "granted", On("master_ack"), {}) /\ UNCHANGED <<job, moved>>
    BY <1>4 DEF MstGranted
  <2>2. "granted" \in Segment \ Timed /\ AwaitedBy["granted"] = "master_ack"
    BY DEF Segment, MasterSegment, Timed, AwaitedBy
  <2>3. Steps(m, "granted", {}) /\ WaitsOK'
    BY <2>1, <2>2, OnSteps, Names
  <2>4. OffBus(m) /\ job[m] \in Program[m]
    BY <1>1, <1>3, <1>4 DEF Owner, Kept, JobsOK
  <2>. QED  BY <1>1, <2>1, <2>3, <2>4, MasterAside
<1>5. CASE currentReq.id = mstId[m]
  <2>1. m = o
    BY <1>3, <1>5, MastersAssumption
  <2>2. MstLoop(m, 0, {})
    BY <1>3, <1>5 DEF MstGranted
  <2>3. Running(m, s) /\ Acknowledged(m, s)
    BY <1>1, <1>2, <2>1 DEF Running, Asking, Fetching, Closing, Driving, Taking, Taken
  <2>4. /\ 0 < job[m].len /\ ~(0 >= job[m].len) /\ NoEvent \notin {}
        /\ Length = job[m].len /\ Length \in Nat \ {0}
        /\ currentReq.rdnwr = job[m].rdnwr
    BY <2>3, Parties
  <2>5. Attends(s, 0) /\ Count = 0
    BY <2>3 DEF Acknowledged
  <2>6. Listened' = Listened /\ Count' = Count /\ Length' = Length
    BY <1>1 DEF Listened, Count, Length
  <2>7. CASE job[m].rdnwr
    <3>1. /\ WaitsOK'
          /\ Steps(m, "read", {} \cup {"mst_ready"})
          /\ moved' = [moved EXCEPT ![m] = 0] /\ UNCHANGED job
      BY <2>2, <2>4, <2>7, MstLoopSteps
    <3>2. Steps(m, "read", {"mst_ready"})
      <4>1. {} \cup {"mst_ready"} = {"mst_ready"}
        OBVIOUS
      <4>. QED  BY <3>1, <4>1
    <3>3. moved'[m] = 0 /\ \A p \in Slaves : moved'[p] = moved[p]
      BY <3>1, Names DEF TypeOK
    <3>4. /\ QueueOK' /\ JobsOK' /\ AcksOK' /\ ListenersOK' /\ ConnectionOK'
          /\ pc'[m] = "read" /\ ~IsReady(m)'
          /\ pc'["arbiter"] = "done" /\ ~IsReady("arbiter")' /\ receivedResponse'
          /\ Owner(m)'
          /\ \A p \in Slaves : /\ pc'[p] = pc[p]
                               /\ IsReady(p)' <=> IsReady(p) \/ AwaitedBy[pc[p]] \in {"mst_ready"}
                               /\ Server(p) => Server(p)'
      BY <1>1, <2>3, <2>6, <3>1, <3>2, <3>3, OwnerSteps
    <3>5. pc[s] = "send" /\ AwaitedBy["send"] = "mst_ready" /\ Server(s) /\ moved[s] = 0
      BY <2>4, <2>5, <2>7 DEF Attends, AwaitedBy
    <3>6. Asking(m, s)'
      BY <1>1, <2>4, <2>5, <2>6, <2>7, <3>3, <3>4, <3>5 DEF Asking, Count, Length
    <3>7. Phase'
      BY <3>4, <3>6 DEF Running, Phase
    <3>. QED  BY <3>1, <3>4, <3>7 DEF Kept
  <2>8. CASE ~job[m].rdnwr
    <3>1. /\ WaitsOK'
          /\ Steps(m, "drive", {})
          /\ moved' = [moved EXCEPT ![m] = 0] /\ UNCHANGED job
      BY <2>2, <2>4, <2>8, MstLoopSteps
    <3>2. moved'[m] = 0 /\ \A p \in Slaves : moved'[p] = moved[p]
      BY <3>1, Names DEF TypeOK
    <3>3. /\ QueueOK' /\ JobsOK' /\ AcksOK' /\ ListenersOK' /\ ConnectionOK'
          /\ pc'[m] = "drive"
          /\ pc'["arbiter"] = "done" /\ ~IsReady("arbiter")' /\ receivedResponse'
          /\ Owner(m)'
          /\ \A p \in Slaves : /\ pc'[p] = pc[p]
                               /\ IsReady(p)' <=> IsReady(p)
                               /\ Server(p) => Server(p)'
      BY <1>1, <2>3, <2>6, <3>1, <3>2, OwnerSteps
    <3>4. Driving(m, s)'
      BY <1>1, <2>4, <2>5, <2>6, <2>8, <3>2, <3>3 DEF Driving, Attends
    <3>5. Phase'
      BY <3>3, <3>4 DEF Running, Phase
    <3>. QED  BY <3>1, <3>3, <3>5 DEF Kept
  <2>. QED  BY <2>7, <2>8
<1>. QED  BY <1>4, <1>5

LEMMA MasterKeeps ==
  ASSUME TypeOK, WaitsOK, Kept, NEW m \in Masters, MasterDataTransfer(m) \/ Master(m)
  PROVE  WaitsOK' /\ Kept'
BY MasterDataTransferKeeps, MstBusRequestKeeps, MstGrantedKeeps, MstReadDataKeeps, MstLatchKeeps,
   MstCloseKeeps, MstWriteDataKeeps, MstWrittenKeeps, ConnectionReadyKeeps DEF Master

-----------------------------------------------------------------------------
(* The slaves. *)

\* The slave that serves the request goes on, or has moved its last word.
LEMMA ServerSteps ==
  ASSUME TypeOK, Kept, NEW s \in Slaves, Server(s),
         NEW seg \in {"send", "receive", "close", "listen", "setup"},
         NEW fired \in SUBSET {"data_ready", "slv_ready", "end_of_transfer"},
         Steps(s, seg, fired), Serving(s),
         pc["arbiter"] = "done", ~IsReady("arbiter"), receivedResponse,
         UNCHANGED <<queue, receivedResponse, job>>,
         Listened' = Listened, currentReq'.id = currentReq.id,
         \A p \in Slaves \ {s} : heard'[p] = heard[p],
         \/ seg # "close" /\ "end_of_transfer" \notin fired
         \/ ~(\E m \in Masters : pc[m] = "granted" /\ IsReady(m)),
         s = "nic" /\ pc[s] = "close" => (OpensConnection(heard[s]) <=> seg = "setup"),
         seg = "setup" => s = "nic" /\ \E m \in Masters :
                            Opener(m) /\ pc[m] = "connecting" /\ ~IsReady(m)
  PROVE  /\ QueueOK' /\ JobsOK' /\ AcksOK' /\ ListenersOK' /\ ConnectionOK'
         /\ pc'[s] = seg /\ ~IsReady(s)'
         /\ pc'["arbiter"] = "done"
         /\ IsReady("arbiter")' <=> "end_of_transfer" \in fired
         /\ receivedResponse'
         /\ \A m \in Masters : /\ pc'[m] = pc[m]
                               /\ IsReady(m)' <=> IsReady(m) \/ AwaitedBy[pc[m]] \in fired
                               /\ Owner(m) => Owner(m)'
         /\ NoOwner => NoOwner'
         /\ \A p \in Slaves \ {s} : ~Serving(p)'
         /\ Addressed(s)'
         /\ Length' = Length /\ currentReq'.rdnwr = currentReq.rdnwr
<1>1. fired \in SUBSET {"mst_ready", "data_ready", "slv_ready", "end_of_transfer"}
      /\ seg # "written"
  OBVIOUS
<1>2. /\ pc'[s] = seg /\ wait'[s] # Ready
      /\ \A p \in (Masters \cup Slaves) \ {s} :
           /\ pc'[p] = pc[p]
           /\ wait'[p] = Ready <=> wait[p] = Ready \/ AwaitedBy[pc[p]] \in fired
      /\ pc'["arbiter"] = "done"
      /\ IsReady("arbiter")' <=> "end_of_transfer" \in fired
      /\ currentReq'.addr = currentReq.addr /\ currentReq'.len = currentReq.len
      /\ currentReq'.rdnwr = currentReq.rdnwr
      /\ QueueOK' /\ JobsOK' /\ AcksOK' /\ ListenersOK'
  BY <1>1, TransferStep, Names
<1>3. /\ \A m \in Masters :
           /\ pc'[m] = pc[m]
           /\ wait'[m] = Ready <=> wait[m] = Ready \/ AwaitedBy[pc[m]] \in fired
      /\ \A p \in Slaves \ {s} : pc'[p] = pc[p]
  BY <1>2, Names
<1>4. \A m \in Masters : pc[m] = "connecting" => (wait'[m] = Ready <=> wait[m] = Ready)
  BY <1>3 DEF AwaitedBy
<1>5. pc[s] \in {"send", "receive", "close"}
  BY DEF Serving
<1>6. ConnectionOK'
  <2>1. \A p \in Slaves : pc'[p] = "setup" =>
          /\ p = "nic"
          /\ \E m \in Masters : Opener(m) /\ pc'[m] = "connecting" /\ wait'[m] # Ready
    <3>1. \A p \in Slaves \ {s} : pc'[p] = "setup" =>
            /\ p = "nic"
            /\ \E m \in Masters : Opener(m) /\ pc'[m] = "connecting" /\ wait'[m] # Ready
      BY <1>3, <1>4 DEF Kept, ConnectionOK, IsReady
    <3>2. pc'[s] = "setup" =>
            /\ s = "nic"
            /\ \E m \in Masters : Opener(m) /\ pc'[m] = "connecting" /\ wait'[m] # Ready
      BY <1>2, <1>3, <1>4 DEF IsReady
    <3>. QED  BY <3>1, <3>2
  <2>2. ASSUME NEW m \in Masters, pc'[m] = "connecting"
        PROVE  /\ Opener(m)
               /\ \/ wait'[m] = Ready
                  \/ pc'["nic"] = "setup"
                  \/ pc'["nic"] = "close" /\ OpensConnection(heard'["nic"])
    <3>1. /\ Opener(m)
          /\ \/ wait[m] = Ready
             \/ pc["nic"] = "setup"
             \/ pc["nic"] = "close" /\ OpensConnection(heard["nic"])
      BY <1>3, <2>2 DEF Kept, ConnectionOK, IsReady
    <3>2. CASE s = "nic"
      BY <1>2, <1>3, <1>4, <1>5, <2>2, <3>1, <3>2
    <3>3. CASE s # "nic"
      BY <1>3, <1>4, <2>2, <3>1, <3>3, Names
    <3>. QED  BY <3>2, <3>3
  <2>. QED  BY <2>1, <2>2 DEF ConnectionOK, IsReady
<1>7. ASSUME NEW m \in Masters PROVE OffBus(m)' <=> OffBus(m)
  BY <1>3 DEF OffBus, Queued, Transferring
<1>8. \A m \in Masters : Owner(m) => Owner(m)'
  BY <1>3, <1>7 DEF Owner, Queued
<1>9. NoOwner => NoOwner'
  BY <1>7 DEF NoOwner
<1>10. \A p \in Slaves \ {s} : ~Serving(p)'
  BY <1>3 DEF Server, Serving
<1>11. Addressed(s)'
  BY <1>2 DEF Server, Addressed
<1>. QED  BY <1>2, <1>3, <1>6, <1>8, <1>9, <1>10, <1>11 DEF IsReady, Length

LEMMA SlvSendReadDataKeeps ==
  ASSUME TypeOK, WaitsOK, Kept, NEW s \in Slaves, SlvSendReadData(s)
  PROVE  WaitsOK' /\ Kept'
<1>1. /\ pc[s] = "send" /\ IsReady(s)
      /\ busData' = [src |-> s, idx |-> moved[s] + 1]
      /\ SlvLoop(s, heard[s], moved[s] + 1, {"data_ready"})
      /\ UNCHANGED <<queue, currentReq, receivedResponse, job>>
  BY DEF SlvSendReadData, Resumes
<1>2. Serving(s)
  BY <1>1 DEF Serving
<1>3. PICK o \in Masters : Running(o, s) /\ Asking(o, s)
  <2>1. ~Leaving(s) /\ \A o \in Masters : ~Accepted(o, s)
    BY <1>1 DEF Leaving, Accepted, Attends
  <2>2. PICK o \in Masters : Running(o, s)
    BY <1>2, <2>1, WhoServes
  <2>3. ~Acknowledged(o, s) /\ ~Fetching(o, s) /\ ~Closing(o) /\ ~Driving(o, s)
        /\ ~Taking(o, s) /\ ~Taken(o, s)
    BY <1>1, <1>2 DEF Acknowledged, Fetching, Closing, Driving, Taking, Taken, Attends, NoServer
  <2>. QED  BY <2>2, <2>3 DEF Running
<1>4. /\ Server(s) /\ Addressed(s) /\ heard[s] = Listened
      /\ pc["arbiter"] = "done" /\ ~IsReady("arbiter") /\ receivedResponse /\ Owner(o)
      /\ pc[o] = "read" /\ moved[o] = Count /\ moved[s] = Count /\ Count < Length
  BY <1>3 DEF Running, Asking, Server
<1>5. /\ Length \in Nat \ {0} /\ Count \in Nat
      /\ heard[s].rdnwr /\ ~OpensConnection(heard[s])
      /\ Words(s, heard[s].rdnwr, heard[s].len) = Length
  <2>1. heard[s].rdnwr /\ heard[s].len = Length
    BY <1>3, <1>4 DEF Asking, Listened, Length
  <2>2. Words(s, heard[s].rdnwr, heard[s].len) = Length
    BY <1>3, <1>4, <2>1, Parties DEF Asking
  <2>. QED  BY <1>3, <2>1, <2>2, Parties DEF OpensConnection
<1>6. /\ Listened' = Listened /\ currentReq'.id = currentReq.id
      /\ Count' = Count /\ Length' = Length
  BY <1>1 DEF Listened, Count, Length
<1>7. NoEvent \notin {"data_ready"}
  BY DEF NoEvent
<1>8. AwaitedBy["read"] = "data_ready"
  BY DEF AwaitedBy
<1>9. CASE Count + 1 < Length
  <2>1. /\ WaitsOK'
        /\ Steps(s, "send", {"data_ready"})
        /\ heard' = [heard EXCEPT ![s] = heard[s]]
        /\ moved' = [moved EXCEPT ![s] = moved[s] + 1]
    <3>1. moved[s] + 1 < Length /\ ~(moved[s] + 1 >= Length)
      BY <1>4, <1>5, <1>9
    <3>. QED  BY <1>1, <1>5, <1>7, <3>1, SlvLoopSteps
  <2>2. /\ heard' = heard
        /\ moved'[s] = Count + 1
        /\ \A m \in Masters : moved'[m] = moved[m]
    BY <1>4, <2>1, Names DEF TypeOK
  <2>3. /\ QueueOK' /\ JobsOK' /\ AcksOK' /\ ListenersOK' /\ ConnectionOK'
        /\ pc'[s] = "send" /\ ~IsReady(s)'
        /\ pc'["arbiter"] = "done" /\ ~IsReady("arbiter")' /\ receivedResponse'
        /\ Owner(o)' /\ pc'[o] = "read" /\ IsReady(o)'
        /\ \A p \in Slaves \ {s} : ~Serving(p)'
        /\ Addressed(s)' /\ currentReq'.rdnwr
    BY <1>1, <1>2, <1>3, <1>4, <1>6, <1>8, <2>1, <2>2, ServerSteps DEF Asking
  <2>4. Attends(s, Count + 1)'
    BY <1>4, <1>6, <2>2, <2>3 DEF Attends, Server
  <2>5. Fetching(o, s)'
    BY <1>1, <1>4, <1>6, <1>9, <2>2, <2>3, <2>4 DEF Fetching
  <2>6. Phase'
    BY <2>3, <2>5 DEF Running, Phase
  <2>. QED  BY <2>1, <2>3, <2>6 DEF Kept
<1>10. CASE ~(Count + 1 < Length)
  <2>1. /\ WaitsOK'
        /\ Steps(s, "listen", {"data_ready"})
        /\ heard' = [heard EXCEPT ![s] = NoRequest]
        /\ moved' = [moved EXCEPT ![s] = 0]
    <3>1. ~(moved[s] + 1 < Length)
      BY <1>4, <1>5, <1>10
    <3>. QED  BY <1>1, <1>5, <1>7, <3>1, SlvLoopSteps
  <2>2. /\ \A p \in Slaves \ {s} : heard'[p] = heard[p]
        /\ \A m \in Masters : moved'[m] = moved[m]
    BY <2>1, Names DEF TypeOK
  <2>3. /\ QueueOK' /\ JobsOK' /\ AcksOK' /\ ListenersOK' /\ ConnectionOK'
        /\ pc'[s] = "listen"
        /\ pc'["arbiter"] = "done" /\ ~IsReady("arbiter")' /\ receivedResponse'
        /\ Owner(o)' /\ pc'[o] = "read" /\ IsReady(o)'
        /\ \A p \in Slaves \ {s} : ~Serving(p)'
        /\ Addressed(s)' /\ currentReq'.rdnwr
    BY <1>1, <1>2, <1>3, <1>4, <1>6, <1>8, <2>1, <2>2, ServerSteps DEF Asking
  <2>4. NoServer'
    BY <2>3 DEF NoServer, Serving
  <2>5. Fetching(o, s)'
    BY <1>1, <1>4, <1>5, <1>6, <1>10, <2>2, <2>3, <2>4 DEF Fetching
  <2>6. Phase'
    BY <2>3, <2>5 DEF Running, Phase
  <2>. QED  BY <2>1, <2>3, <2>6 DEF Kept
<1>. QED  BY <1>9, <1>10

LEMMA SlvReceiveWriteDataKeeps ==
  ASSUME TypeOK, WaitsOK, Kept, NEW s \in Slaves, SlvReceiveWriteData(s)
  PROVE  WaitsOK' /\ Kept'
<1>1. /\ pc[s] = "receive" /\ IsReady(s)
      /\ currentReq' = [currentReq EXCEPT !.bytesTransferred = @ + 1]
      /\ UNCHANGED <<queue, receivedResponse, busData, job>>
  BY DEF SlvReceiveWriteData, Resumes
<1>2. Serving(s)
  BY <1>1 DEF Serving
<1>3. PICK o \in Masters : Running(o, s) /\ Taking(o, s)
  <2>1. ~Leaving(s) /\ \A o \in Masters : ~Accepted(o, s)
    BY <1>1 DEF Leaving, Accepted, Attends
  <2>2. PICK o \in Masters : Running(o, s)
    BY <1>2, <2>1, WhoServes
  <2>3. ~Acknowledged(o, s) /\ ~Fetching(o, s) /\ ~Closing(o) /\ ~Driving(o, s)
        /\ ~Asking(o, s) /\ ~Taken(o, s)
    BY <1>1, <1>2 DEF Acknowledged, Fetching, Closing, Driving, Asking, Taken, Attends, NoServer
  <2>. QED  BY <2>2, <2>3 DEF Running
<1>4. /\ Server(s) /\ Addressed(s) /\ heard[s] = Listened /\ ~currentReq.rdnwr
      /\ pc["arbiter"] = "done" /\ ~IsReady("arbiter") /\ receivedResponse /\ Owner(o)
      /\ pc[o] = "written" /\ moved[o] = Count /\ moved[s] = Count /\ Count < Length
  BY <1>3 DEF Running, Taking, Server
<1>5. /\ Length \in Nat \ {0} /\ Count \in Nat
      /\ ~heard[s].rdnwr
      /\ Words(s, heard[s].rdnwr, heard[s].len) = Length
  <2>1. heard[s].rdnwr = currentReq.rdnwr /\ heard[s].len = Length
    BY <1>4 DEF Listened, Length
  <2>2. Words(s, heard[s].rdnwr, heard[s].len) = Length
    BY <1>3, <1>4, <2>1, Parties
  <2>. QED  BY <1>3, <1>4, <2>1, <2>2, Parties
<1>6. /\ Count' = Count + 1
      /\ Listened' = Listened /\ currentReq'.id = currentReq.id
  BY <1>1 DEF Listened, Count, TypeOK, QueuedRequest
<1>7. AwaitedBy["written"] = "slv_ready" /\ NoEvent \notin {"slv_ready"}
  BY DEF AwaitedBy, NoEvent
<1>8. ~(\E g \in Masters : pc[g] = "granted" /\ IsReady(g))
  BY <1>4 DEF Kept, AcksOK
<1>9. CASE Count + 1 = Length
  <2>1. Suspend(s, "close", For(Cycle), {"slv_ready"}) /\ UNCHANGED <<heard, moved>>
    BY <1>9 DEF SlvReceiveWriteData, Count, Length
  <2>2. Steps(s, "close", {"slv_ready"}) /\ WaitsOK'
    BY <1>7, <2>1, ForSteps, CyclesPass, Names DEF Timed
  <2>3. /\ QueueOK' /\ JobsOK' /\ AcksOK' /\ ListenersOK' /\ ConnectionOK'
        /\ pc'[s] = "close" /\ ~IsReady(s)'
        /\ pc'["arbiter"] = "done" /\ ~IsReady("arbiter")' /\ receivedResponse'
        /\ Owner(o)' /\ pc'[o] = "written" /\ IsReady(o)'
        /\ \A p \in Slaves \ {s} : ~Serving(p)'
        /\ Addressed(s)' /\ ~currentReq'.rdnwr /\ Length' = Length
    BY <1>1, <1>2, <1>4, <1>6, <1>7, <1>8, <2>1, <2>2, ServerSteps
  <2>4. Taken(o, s)'
    BY <1>4, <1>6, <1>9, <2>1, <2>3 DEF Taken, Server
  <2>5. Phase'
    BY <2>3, <2>4 DEF Running, Phase
  <2>. QED  BY <2>2, <2>3, <2>5 DEF Kept
<1>10. CASE Count + 1 # Length
  <2>1. SlvLoop(s, heard[s], moved[s] + 1, {"slv_ready"})
    BY <1>10 DEF SlvReceiveWriteData, Count, Length
  <2>2. /\ WaitsOK'
        /\ Steps(s, "receive", {"slv_ready"})
        /\ heard' = [heard EXCEPT ![s] = heard[s]]
        /\ moved' = [moved EXCEPT ![s] = moved[s] + 1]
    <3>1. moved[s] + 1 < Length /\ ~(moved[s] + 1 >= Length)
      BY <1>4, <1>5, <1>10
    <3>. QED  BY <1>5, <1>7, <2>1, <3>1, SlvLoopSteps
  <2>3. /\ heard' = heard
        /\ moved'[s] = Count + 1
        /\ \A m \in Masters : moved'[m] = moved[m]
    BY <1>4, <2>2, Names DEF TypeOK
  <2>4. /\ QueueOK' /\ JobsOK' /\ AcksOK' /\ ListenersOK' /\ ConnectionOK'
        /\ pc'[s] = "receive" /\ ~IsReady(s)'
        /\ pc'["arbiter"] = "done" /\ ~IsReady("arbiter")' /\ receivedResponse'
        /\ Owner(o)' /\ pc'[o] = "written" /\ IsReady(o)'
        /\ \A p \in Slaves \ {s} : ~Serving(p)'
        /\ Addressed(s)' /\ ~currentReq'.rdnwr /\ Length' = Length
    BY <1>1, <1>2, <1>4, <1>6, <1>7, <1>8, <2>2, <2>3, ServerSteps
  <2>5. Attends(s, Count)'
    BY <1>4, <1>6, <2>3, <2>4 DEF Attends, Server
  <2>6. Taken(o, s)'
    BY <1>4, <1>5, <1>6, <1>10, <2>3, <2>4, <2>5 DEF Taken
  <2>7. Phase'
    BY <2>4, <2>6 DEF Running, Phase
  <2>. QED  BY <2>2, <2>4, <2>7 DEF Kept
<1>. QED  BY <1>9, <1>10

LEMMA SlvCloseKeeps ==
  ASSUME TypeOK, WaitsOK, Kept, NEW s \in Slaves, SlvClose(s)
  PROVE  WaitsOK' /\ Kept'
<1>1. /\ pc[s] = "close" /\ IsReady(s)
      /\ SlvLoop(s, heard[s], moved[s] + 1, {"end_of_transfer"})
      /\ UNCHANGED <<queue, currentReq, receivedResponse, busData, job>>
  BY DEF SlvClose, Resumes
<1>2. Serving(s)
  BY <1>1 DEF Serving
<1>3. Leaving(s)
  <2>1. \A o \in Masters : ~Accepted(o, s)
    BY <1>1 DEF Accepted, Attends
  <2>2. \A o \in Masters : ~Running(o, s)
    BY <1>1, <1>2 DEF Running, Acknowledged, Fetching, Closing, Driving, Asking, Taking, Taken,
                      Attends, NoServer
  <2>. QED  BY <1>2, <2>1, <2>2, WhoServes
<1>4. /\ Server(s) /\ Addressed(s) /\ heard[s] = Listened
      /\ pc["arbiter"] = "done" /\ ~IsReady("arbiter") /\ receivedResponse /\ NoOwner
      /\ moved[s] + 1 = Count /\ Count = Length
      /\ OpensConnection(heard[s]) =>
           \E m \in Masters : Opener(m) /\ pc[m] = "connecting" /\ ~IsReady(m)
  BY <1>3 DEF Leaving, Server
<1>5. Words(s, heard[s].rdnwr, heard[s].len) = Length /\ Length \in Nat
  BY <1>4 DEF Addressed, Listened, Length, TypeOK, QueuedRequest
<1>6. /\ Listened' = Listened /\ currentReq'.id = currentReq.id
      /\ Count' = Count /\ Length' = Length
  BY <1>1 DEF Listened, Count, Length
<1>7. ~(\E g \in Masters : pc[g] = "granted" /\ IsReady(g))
  BY <1>1 DEF Kept, AcksOK
<1>8. PICK seg \in {"listen", "setup"} :
        /\ seg = (IF s = "nic" /\ OpensConnection(heard[s]) THEN "setup" ELSE "listen")
        /\ WaitsOK'
        /\ Steps(s, seg, {"end_of_transfer"})
        /\ heard' = [heard EXCEPT ![s] = NoRequest]
  <2>1. ~(moved[s] + 1 < Length) /\ NoEvent \notin {"end_of_transfer"}
    BY <1>4, <1>5 DEF NoEvent
  <2>2. /\ WaitsOK'
        /\ Steps(s, IF s = "nic" /\ OpensConnection(heard[s]) THEN "setup" ELSE "listen",
                 {"end_of_transfer"})
        /\ heard' = [heard EXCEPT ![s] = NoRequest]
    BY <1>1, <1>5, <2>1, SlvLoopSteps
  <2>3. CASE s = "nic" /\ OpensConnection(heard[s])
    BY <2>2, <2>3
  <2>4. CASE ~(s = "nic" /\ OpensConnection(heard[s]))
    BY <2>2, <2>4
  <2>. QED  BY <2>3, <2>4
<1>9. \A p \in Slaves \ {s} : heard'[p] = heard[p]
  BY <1>8 DEF TypeOK
<1>10. /\ s = "nic" /\ pc[s] = "close" => (OpensConnection(heard[s]) <=> seg = "setup")
       /\ seg = "setup" => s = "nic" /\ \E m \in Masters :
                             Opener(m) /\ pc[m] = "connecting" /\ ~IsReady(m)
  BY <1>4, <1>8
<1>11. /\ QueueOK' /\ JobsOK' /\ AcksOK' /\ ListenersOK' /\ ConnectionOK'
       /\ pc'[s] = seg
       /\ pc'["arbiter"] = "done" /\ IsReady("arbiter")' /\ receivedResponse'
       /\ NoOwner'
       /\ \A p \in Slaves \ {s} : ~Serving(p)'
  BY <1>1, <1>2, <1>4, <1>6, <1>7, <1>8, <1>9, <1>10, ServerSteps
<1>12. NoServer'
  BY <1>11 DEF NoServer, Serving
<1>13. Over'
  BY <1>4, <1>6, <1>11, <1>12 DEF Over
<1>. QED  BY <1>8, <1>11, <1>13 DEF Kept, Phase

LEMMA SetupTcpConnectionKeeps ==
  ASSUME TypeOK, WaitsOK, Kept, NEW s \in Slaves, SetupTcpConnection(s)
  PROVE  WaitsOK' /\ Kept'
<1>1. /\ "listen" \in Segment \ Timed /\ AwaitedBy["listen"] = "slv_request"
      /\ NoEvent \notin {"connection_ready"}
  BY DEF Segment, SlaveSegment, Timed, AwaitedBy, NoEvent
<1>2. Steps(s, "listen", {"connection_ready"}) /\ WaitsOK'
  BY <1>1, OnSteps, Names DEF SetupTcpConnection
<1>3. /\ pc[s] = "setup"
      /\ UNCHANGED <<queue, currentReq, receivedResponse, busData, job, heard, moved>>
  BY DEF SetupTcpConnection, Resumes
<1>. QED  BY <1>2, <1>3, SlaveAside DEF Serving

LEMMA SlvListenKeeps ==
  ASSUME TypeOK, WaitsOK, Kept, NEW s \in Slaves, SlvListen(s)
  PROVE  WaitsOK' /\ Kept'
<1>1. /\ pc[s] = "listen" /\ IsReady(s)
      /\ UNCHANGED <<queue, currentReq, busData, job>>
  BY DEF SlvListen, Resumes
<1>2. CASE ~Claims(s, currentReq.addr, currentReq.len)
  <2>1. /\ Suspend(s, "listen", On("slv_request"), {})
        /\ UNCHANGED <<queue, currentReq, receivedResponse, busData, job, heard, moved>>
    BY <1>2 DEF SlvListen
  <2>2. "listen" \in Segment \ Timed /\ AwaitedBy["listen"] = "slv_request"
    BY DEF Segment, SlaveSegment, Timed, AwaitedBy
  <2>3. Steps(s, "listen", {}) /\ WaitsOK'
    BY <2>1, <2>2, OnSteps, Names
  <2>. QED  BY <1>1, <1>2, <2>1, <2>3, SlaveAside DEF Serving
<1>3. CASE Claims(s, currentReq.addr, currentReq.len)
  <2>1. receivedResponse' = TRUE /\ SlvLoop(s, Listened, 0, {"slv_ack"})
    BY <1>3 DEF SlvListen
  <2>2. /\ pc["arbiter"] \in {"polled", "answer"}
        /\ pc["arbiter"] = "polled" \/ ~IsReady("arbiter")
        /\ ~receivedResponse
    BY <1>1, <1>3 DEF Kept, ListenersOK
  <2>3. PICK o \in Masters : Offered(o)
    BY <2>2 DEF Kept, Phase, Idle, Over, Accepted, Running, Leaving
  <2>4. /\ pc["arbiter"] = "polled" /\ ~IsReady("arbiter") /\ Owner(o) /\ NoServer
        /\ pc[o] = "granted" /\ ~IsReady(o) /\ Count = 0
    BY <2>3 DEF Offered
  <2>5. /\ job[o] \in Program[o] /\ Length = job[o].len /\ Length \in Nat \ {0}
        /\ currentReq.addr \in Nat
    <3>1. job[o] \in Program[o] /\ job[o].len > 0
      BY <2>4, ServedAssumption DEF Kept, JobsOK
    <3>2. Length = job[o].len
      BY <2>4 DEF Owner, Listened, Length
    <3>. QED  BY <3>1, <3>2 DEF Length, TypeOK, QueuedRequest
  <2>6. \A p \in Slaves \ {s} : ~Claims(p, currentReq.addr, currentReq.len)
    BY <1>3, <2>5, AtMostOneClaims DEF Length
  <2>7. Addressed(s)
    BY <2>3, <2>6 DEF Offered, Addressed
  <2>8. Words(s, Listened.rdnwr, Listened.len) = Length /\ NoEvent \notin {"slv_ack"}
    BY <2>7 DEF Addressed, Listened, Length, NoEvent
  <2>9. /\ WaitsOK'
        /\ Steps(s, IF Listened.rdnwr THEN "send" ELSE "receive", {"slv_ack"})
        /\ heard' = [heard EXCEPT ![s] = Listened]
        /\ moved' = [moved EXCEPT ![s] = 0]
    <3>1. 0 < Length /\ ~(0 >= Length)
      BY <2>5
    <3>. QED  BY <2>1, <2>8, <3>1, SlvLoopSteps
  <2>10. /\ heard'[s] = Listened /\ moved'[s] = 0
         /\ \A p \in Slaves \ {s} : heard'[p] = heard[p]
    BY <2>9 DEF TypeOK
  <2>11. /\ pc'[s] = (IF Listened.rdnwr THEN "send" ELSE "receive") /\ wait'[s] # Ready
         /\ \A m \in Masters : pc'[m] = pc[m] /\ (wait'[m] = Ready <=> wait[m] = Ready)
         /\ \A p \in Slaves \ {s} : pc'[p] = pc[p] /\ (wait'[p] = Ready <=> wait[p] = Ready)
         /\ pc'["arbiter"] = "polled" /\ wait'["arbiter"] = Ready
    <3>1. /\ \A m \in Masters : pc[m] \in Segment /\ pc[m] # "polled"
          /\ \A p \in Slaves : pc[p] \in Segment /\ pc[p] # "polled"
      BY Segments, Names DEF MasterSegment, SlaveSegment
    <3>2. "polled" \in Segment
      BY DEF Segment, ArbiterSegment
    <3>. QED  BY <2>4, <2>9, <3>1, <3>2, Wakes, Names DEF Steps
  <2>12. QueueOK' /\ JobsOK'
    BY <1>1, <2>11, QueueUntouched DEF Kept, JobsOK, IsReady
  <2>13. AcksOK'
    <3>1. ~(\E m \in Masters : pc[m] = "granted" /\ wait[m] = Ready)
      BY <2>4 DEF Kept, AcksOK, IsReady
    <3>. QED  BY <2>11, <3>1 DEF AcksOK, IsReady
  <2>14. ListenersOK'
    <3>. SUFFICES ASSUME NEW p \in Slaves, pc'[p] = "listen", wait'[p] = Ready
                  PROVE  ~Claims(p, currentReq.addr, currentReq.len)
      BY <1>1, <2>11 DEF ListenersOK, IsReady
    <3>. QED  BY <2>6, <2>11
  <2>15. ConnectionOK'
    <3>1. pc'[s] \in {"send", "receive"}
      BY <2>11
    <3>2. \A p \in Slaves : pc'[p] = "setup" =>
            /\ p = "nic"
            /\ \E m \in Masters : Opener(m) /\ pc'[m] = "connecting" /\ wait'[m] # Ready
      BY <2>11, <3>1 DEF Kept, ConnectionOK, IsReady
    <3>3. ASSUME NEW m \in Masters, pc'[m] = "connecting"
          PROVE  /\ Opener(m)
                 /\ \/ wait'[m] = Ready
                    \/ pc'["nic"] = "setup"
                    \/ pc'["nic"] = "close" /\ OpensConnection(heard'["nic"])
      BY <1>1, <2>10, <2>11, <3>3, Names DEF Kept, ConnectionOK, IsReady
    <3>. QED  BY <3>2, <3>3 DEF ConnectionOK, IsReady
  <2>16. Owner(o)'
    BY <1>1, <2>4, <2>11 DEF Owner, OffBus, Queued, Transferring, Listened
  <2>17. Attends(s, 0)'
    <3>1. \A p \in Slaves \ {s} : ~Serving(p)'
      BY <2>4, <2>11 DEF NoServer, Serving
    <3>2. Server(s)'
      BY <1>1, <2>7, <2>10, <3>1 DEF Server, Addressed, Listened
    <3>. QED  BY <1>1, <2>10, <2>11, <3>2 DEF Attends, Listened, IsReady
  <2>18. Accepted(o, s)'
    BY <1>1, <2>1, <2>4, <2>11, <2>16, <2>17 DEF Accepted, IsReady, Count
  <2>. QED  BY <2>9, <2>12, <2>13, <2>14, <2>15, <2>18 DEF Kept, Phase
<1>. QED  BY <1>2, <1>3

LEMMA SlaveKeeps ==
  ASSUME TypeOK, WaitsOK, Kept, NEW s \in Slaves, Slave(s)
  PROVE  WaitsOK' /\ Kept'
BY SlvListenKeeps, SlvSendReadDataKeeps, SlvReceiveWriteDataKeeps, SlvCloseKeeps,
   SetupTcpConnectionKeeps DEF Slave

-----------------------------------------------------------------------------
(* The invariant. *)

LEMMA IInvParts == IInv <=> TypeOK /\ WaitsOK /\ Kept
BY DEF IInv, Kept

LEMMA InitIInv == Init => IInv
<1>. SUFFICES ASSUME Init PROVE TypeOK /\ WaitsOK /\ Kept
  BY IInvParts
<1>1. TypeOK
  BY InitOK
<1>2. /\ pc["arbiter"] = "front" /\ wait["arbiter"] = On("bus_request")
      /\ \A m \in Masters : pc[m] = "away" /\ wait[m] = On("work")
      /\ \A s \in Slaves : pc[s] = "listen" /\ wait[s] = On("slv_request")
      /\ queue = <<>>
  BY Names DEF Init
<1>3. /\ AwaitedBy["front"] = "bus_request"
      /\ AwaitedBy["away"] = "work"
      /\ AwaitedBy["listen"] = "slv_request"
      /\ \A seg \in {"front", "away", "listen"} : seg \notin Timed
  BY DEF AwaitedBy, Timed
<1>4. \A t \in Threads : wait[t].event = AwaitedBy[pc[t]] /\ wait[t].time = 0 /\ pc[t] \notin Timed
  BY <1>2, <1>3 DEF Threads, On
<1>5. WaitsOK
  BY <1>4 DEF WaitsOK
<1>6. \A t \in Threads : ~IsReady(t)
  BY <1>2 DEF Threads, On, Ready, NoEvent, IsReady
<1>7. QueueOK /\ \A m \in Masters : ~Queued(m)
  BY <1>2 DEF QueueOK, Queued
<1>8. JobsOK /\ AcksOK /\ ListenersOK /\ ConnectionOK
  BY <1>2, <1>6, Names DEF JobsOK, AcksOK, ListenersOK, ConnectionOK
<1>9. Idle
  BY <1>2, <1>6, <1>7, Names DEF Idle, NoOwner, NoServer, OffBus, Transferring, Serving
<1>. QED  BY <1>1, <1>5, <1>7, <1>8, <1>9 DEF Kept, Phase

LEMMA StutterKeeps == TypeOK /\ WaitsOK /\ Kept /\ UNCHANGED vars => WaitsOK' /\ Kept'
<1>. SUFFICES ASSUME TypeOK, WaitsOK, Kept, UNCHANGED vars PROVE WaitsOK' /\ Kept'
  OBVIOUS
<1>. /\ pc' = pc /\ wait' = wait /\ queue' = queue /\ currentReq' = currentReq
     /\ receivedResponse' = receivedResponse /\ busData' = busData /\ job' = job
     /\ heard' = heard /\ moved' = moved
  BY DEF vars
<1>1. WaitsOK' /\ QueueOK' /\ JobsOK'
  BY DEF Kept, WaitsOK, QueueOK, JobsOK, IsReady
<1>2. AcksOK' /\ ListenersOK' /\ ConnectionOK'
  BY DEF Kept, AcksOK, ListenersOK, ConnectionOK, IsReady
<1>3. /\ \A m \in Masters : (OffBus(m)' <=> OffBus(m)) /\ (Queued(m)' <=> Queued(m))
      /\ \A s \in Slaves : Serving(s)' <=> Serving(s)
  BY DEF OffBus, Queued, Transferring, Serving
<1>4. pc["arbiter"] = "front" => (wait["arbiter"] = Ready <=> queue # <<>>)
  BY DEF Kept, Phase, Idle, Over, Offered, Accepted, Running, Leaving, IsReady
<1>5. SameTransfer
  BY <1>3, <1>4 DEF SameTransfer
<1>6. Phase'
  BY <1>5, PhaseKept DEF Kept
<1>. QED  BY <1>1, <1>2, <1>6 DEF Kept

LEMMA NextIInv == IInv /\ [Next]_vars => IInv'
<1>. SUFFICES ASSUME TypeOK, WaitsOK, Kept, [Next]_vars PROVE WaitsOK' /\ Kept'
  BY NextOK DEF IInv, Kept
<1>. QED  BY ArbiterKeeps, MasterKeeps, SlaveKeeps, TickKeeps, StutterKeeps DEF Next

\* In every phase of a transfer, each thread of the bus is where the phase
\* puts it, and waits for what will wake it (the protocol spread over the
\* methods of Bus and the two transfer loops).
THEOREM InvariantHolds == Spec => []IInv
<1>. QED  BY InitIInv, NextIInv, PTL DEF Spec

=============================================================================
