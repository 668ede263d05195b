-------------------------------- MODULE Bus --------------------------------
(***************************************************************************)
(* The shared bus: the arbiter thread, the interface methods that masters  *)
(* and slaves call on it, the transfer loop of a master and the serving    *)
(* loops of the four slaves, at the grain of the SystemC scheduler.        *)
(*                                                                         *)
(* Every method of the bus suspends its caller, so a master's transfer and *)
(* a slave's service are split into segments at their wait() calls.  All   *)
(* handshakes use immediate notifications on events shared by every thread *)
(* of the bus, none of which is remembered: a thread that is late is never *)
(* woken.                                                                  *)
(***************************************************************************)
EXTENDS AddressMap, Sequences, SystemC

CONSTANTS
  Masters,   \* the threads that call MasterDataTransfer on this bus
  mstId,     \* mstId[m]: the id of the module that thread m belongs to
  Program,   \* Program[m]: the transfers m makes, records [rdnwr, addr, len]
  BUS_FREQ,  \* in MHz
  SETUP      \* how long the network card sets up the connection, in ns

VARIABLES
  queue,             \* the requests nobody has served yet
  currentReq,        \* the request being served
  receivedResponse,  \* whether a slave has acknowledged it
  busData,           \* the word on the bus: which thread drove it, its index
  job,               \* job[m]: the arguments of m's MasterDataTransfer
  heard,             \* heard[s]: the request slave s is serving
  moved              \* moved[t]: the loop index of the transfer in thread t

vars == <<pc, wait, queue, currentReq, receivedResponse, busData, job, heard, moved>>

Threads == {"arbiter"} \cup Masters \cup Slaves

Request == [rdnwr : BOOLEAN, addr : Nat, len : Nat]

\* Durations in ns, by the integer divisions of the code.
Cycle == 1000 \div BUS_FREQ
ThreeCycles == (3 * 1000) \div BUS_FREQ

\* Mutant: the constructor leaves bytesTransferred uninitialised.
UninitialisedRequest(id, r) ==
  [id |-> id, rdnwr |-> r.rdnwr, addr |-> r.addr, len |-> r.len, bytesTransferred |-> 0 - 1]

\* The constructor of class BusRequest.
BusRequest(id, r) ==
  [id |-> id, rdnwr |-> r.rdnwr, addr |-> r.addr, len |-> r.len, bytesTransferred |-> 0]

\* What SlvListen reports of the request being served.
Listened == [rdnwr |-> currentReq.rdnwr, addr |-> currentReq.addr, len |-> currentReq.len]

NoRequest == [rdnwr |-> FALSE, addr |-> 0, len |-> 0]

\* The transfer with which send_packet asks the card for a connection.
OpensConnection(r) == ~r.rdnwr /\ Claims("nic", r.addr, r.len) /\ r.len < 2

-----------------------------------------------------------------------------
(* The arbiter. *)

\* Mutant: the response to the last request is not forgotten.
GrantRemembering(fired) ==
  /\ queue # <<>>
  /\ currentReq' = Head(queue)
  /\ queue' = Tail(queue)
  /\ UNCHANGED receivedResponse
  /\ Suspend("arbiter", "polled", ForOrOn(ThreeCycles, "slv_ack"),
             fired \cup {"slv_request"})

\* Takes the oldest request and offers it to the slaves.
Grant(fired) ==
  /\ queue # <<>>
  /\ currentReq' = Head(queue)
  /\ queue' = Tail(queue)
  /\ receivedResponse' = FALSE
  /\ Suspend("arbiter", "polled", ForOrOn(ThreeCycles, "slv_ack"),
             fired \cup {"slv_request"})

\* The head of the arbiter's loop.
ArbiterLoop(fired) ==
  \/ Grant(fired)
  \/ /\ queue = <<>>
     /\ Suspend("arbiter", "front", On("bus_request"), fired)
     /\ UNCHANGED <<queue, currentReq, receivedResponse>>

ArbiterFront ==
  /\ Resumes("arbiter", "front")
  /\ Grant({})
  /\ UNCHANGED <<busData, job, heard, moved>>

\* A slave has acknowledged, or nobody did in time.
ArbiterPolled ==
  /\ Resumes("arbiter", "polled")
  /\ Suspend("arbiter", "answer", For(Cycle), {})
  /\ UNCHANGED <<queue, currentReq, receivedResponse, busData, job, heard, moved>>

\* Mutant: the arbiter does not wait for the end of the transfer.
AnswerAndGoOn ==
  /\ Resumes("arbiter", "answer")
  /\ ArbiterLoop({"master_ack"})
  /\ UNCHANGED <<busData, job, heard, moved>>

\* Mutant: it waits for the end of a transfer that nobody acknowledged.
AnswerAndWait ==
  /\ Resumes("arbiter", "answer")
  /\ Suspend("arbiter", "done", On("end_of_transfer"), {"master_ack"})
  /\ UNCHANGED <<queue, currentReq, receivedResponse, busData, job, heard, moved>>

\* Without an acknowledgement the arbiter goes on to the next request in the
\* same segment, before any master has looked at currentReq.
ArbiterAnswer ==
  /\ Resumes("arbiter", "answer")
  /\ \/ /\ receivedResponse
        /\ Suspend("arbiter", "done", On("end_of_transfer"), {"master_ack"})
        /\ UNCHANGED <<queue, currentReq, receivedResponse>>
     \/ ~receivedResponse /\ ArbiterLoop({"master_ack"})
  /\ UNCHANGED <<busData, job, heard, moved>>

ArbiterDone ==
  /\ Resumes("arbiter", "done")
  /\ ArbiterLoop({})
  /\ UNCHANGED <<busData, job, heard, moved>>

Arbiter == ArbiterFront \/ ArbiterPolled \/ ArbiterAnswer \/ ArbiterDone

-----------------------------------------------------------------------------
(* The masters. *)

\* Thread m, blocked so far in a wait() that the bus knows nothing of, calls
\* MasterDataTransfer.
MasterDataTransfer(m) ==
  /\ pc[m] = "away"
  /\ \E r \in Program[m] : job' = [job EXCEPT ![m] = r]
  /\ Suspend(m, "request", For(ThreeCycles), {})
  /\ UNCHANGED <<queue, currentReq, receivedResponse, busData, heard, moved>>

\* Mutant: there is room for one request only.
RequestReplaces(m) ==
  /\ Resumes(m, "request")
  /\ queue' = <<BusRequest(mstId[m], job[m])>>
  /\ Suspend(m, "granted", On("master_ack"), {"bus_request"})
  /\ UNCHANGED <<currentReq, receivedResponse, busData, job, heard, moved>>

\* Mutant: the request goes to the front of the queue.
RequestJumpsQueue(m) ==
  /\ Resumes(m, "request")
  /\ queue' = <<BusRequest(mstId[m], job[m])>> \o queue
  /\ Suspend(m, "granted", On("master_ack"), {"bus_request"})
  /\ UNCHANGED <<currentReq, receivedResponse, busData, job, heard, moved>>

MstBusRequest(m) ==
  /\ Resumes(m, "request")
  /\ queue' = Append(queue, BusRequest(mstId[m], job[m]))
  /\ Suspend(m, "granted", On("master_ack"), {"bus_request"})
  /\ UNCHANGED <<currentReq, receivedResponse, busData, job, heard, moved>>

\* Mutant: nobody waits for the connection.
ReturnAtOnce(m, fired) ==
  /\ Suspend(m, "away", On("work"), fired)
  /\ job' = [job EXCEPT ![m] = NoRequest]
  /\ moved' = [moved EXCEPT ![m] = 0]

\* MasterDataTransfer returns and its locals are gone.  The connection request
\* is followed by a wait for the card, every other transfer by whatever the
\* thread does next.
Return(m, fired) ==
  /\ \/ /\ OpensConnection(job[m])
        /\ Suspend(m, "connecting", On("connection_ready"), fired)
     \/ /\ ~OpensConnection(job[m])
        /\ Suspend(m, "away", On("work"), fired)
  /\ job' = [job EXCEPT ![m] = NoRequest]
  /\ moved' = [moved EXCEPT ![m] = 0]

\* The head of the master's loop, i words having been moved.
MstLoop(m, i, fired) ==
  \/ /\ i < job[m].len
     /\ \/ job[m].rdnwr /\ Suspend(m, "read", On("data_ready"), fired \cup {"mst_ready"})
        \/ ~job[m].rdnwr /\ Suspend(m, "drive", For(Cycle), fired)
     /\ moved' = [moved EXCEPT ![m] = i]
     /\ UNCHANGED job
  \/ i >= job[m].len /\ Return(m, fired)

\* Mutant: a master takes any acknowledgement for its own.
GrantedAnyId(m) ==
  /\ Resumes(m, "granted")
  /\ MstLoop(m, 0, {})
  /\ UNCHANGED <<queue, currentReq, receivedResponse, busData, heard>>

\* master_ack wakes every waiting master; each looks whether it is meant.
MstGranted(m) ==
  /\ Resumes(m, "granted")
  /\ \/ /\ currentReq.id # mstId[m]
        /\ Suspend(m, "granted", On("master_ack"), {})
        /\ UNCHANGED <<job, moved>>
     \/ /\ currentReq.id = mstId[m]
        /\ ~receivedResponse
        /\ Return(m, {})
     \/ /\ currentReq.id = mstId[m]
        /\ receivedResponse
        /\ MstLoop(m, 0, {})
  /\ UNCHANGED <<queue, currentReq, receivedResponse, busData, heard>>

\* MstReadData: the slave has driven the word, the transfer takes a cycle.
MstReadData(m) ==
  /\ Resumes(m, "read")
  /\ Suspend(m, "latch", For(Cycle), {})
  /\ UNCHANGED <<queue, currentReq, receivedResponse, busData, job, heard, moved>>

\* The word is taken from the bus; the last one costs a cycle more.
MstLatch(m) ==
  /\ Resumes(m, "latch")
  /\ currentReq' = [currentReq EXCEPT !.bytesTransferred = @ + 1]
  /\ \/ /\ currentReq.bytesTransferred + 1 = currentReq.len
        /\ Suspend(m, "close", For(Cycle), {})
        /\ UNCHANGED <<job, moved>>
     \/ /\ currentReq.bytesTransferred + 1 # currentReq.len
        /\ MstLoop(m, moved[m] + 1, {})
  /\ UNCHANGED <<queue, receivedResponse, busData, heard>>

\* Mutant: a reading master does not tell the arbiter that it is done.
CloseSilently(m) ==
  /\ Resumes(m, "close")
  /\ MstLoop(m, moved[m] + 1, {})
  /\ UNCHANGED <<queue, currentReq, receivedResponse, busData, heard>>

MstClose(m) ==
  /\ Resumes(m, "close")
  /\ MstLoop(m, moved[m] + 1, {"end_of_transfer"})
  /\ UNCHANGED <<queue, currentReq, receivedResponse, busData, heard>>

MstWriteData(m) ==
  /\ Resumes(m, "drive")
  /\ busData' = [src |-> m, idx |-> moved[m] + 1]
  /\ Suspend(m, "written", On("slv_ready"), {"data_ready"})
  /\ UNCHANGED <<queue, currentReq, receivedResponse, job, heard, moved>>

MstWritten(m) ==
  /\ Resumes(m, "written")
  /\ MstLoop(m, moved[m] + 1, {})
  /\ UNCHANGED <<queue, currentReq, receivedResponse, busData, heard>>

ConnectionReady(m) ==
  /\ Resumes(m, "connecting")
  /\ Suspend(m, "away", On("work"), {})
  /\ UNCHANGED <<queue, currentReq, receivedResponse, busData, job, heard, moved>>

Master(m) ==
  \/ MstBusRequest(m) \/ MstGranted(m)
  \/ MstReadData(m) \/ MstLatch(m) \/ MstClose(m)
  \/ MstWriteData(m) \/ MstWritten(m)
  \/ ConnectionReady(m)

-----------------------------------------------------------------------------
(* The slaves. *)

\* Mutant: the slave looks at mst_ready for the first word only.
SlvLoopOneReady(s, r, i, fired) ==
  /\ Suspend(s, IF i >= Words(s, r.rdnwr, r.len) THEN "listen"
                ELSE IF r.rdnwr THEN "send" ELSE "receive",
             IF i >= Words(s, r.rdnwr, r.len) THEN On("slv_request")
             ELSE IF ~r.rdnwr THEN On("data_ready")
             ELSE IF i = 0 THEN On("mst_ready") ELSE Ready, fired)
  /\ heard' = [heard EXCEPT ![s] = r]
  /\ moved' = [moved EXCEPT ![s] = i]

\* The head of the loop in which slave s serves request r, i words done.
\* After a connection request the network card is busy with the handshake
\* and does not listen; after anything else a slave listens again at once.
\* What it heard last is forgotten: SlvListen overwrites it.
SlvLoop(s, r, i, fired) ==
  \/ /\ i < Words(s, r.rdnwr, r.len)
     /\ \/ r.rdnwr /\ Suspend(s, "send", On("mst_ready"), fired)
        \/ ~r.rdnwr /\ Suspend(s, "receive", On("data_ready"), fired)
     /\ heard' = [heard EXCEPT ![s] = r]
     /\ moved' = [moved EXCEPT ![s] = i]
  \/ /\ i >= Words(s, r.rdnwr, r.len)
     /\ \/ /\ s = "nic" /\ OpensConnection(r)
           /\ Suspend(s, "setup", For(SETUP), fired)
        \/ /\ ~(s = "nic" /\ OpensConnection(r))
           /\ Suspend(s, "listen", On("slv_request"), fired)
     /\ heard' = [heard EXCEPT ![s] = NoRequest]
     /\ moved' = [moved EXCEPT ![s] = 0]

\* SlvListen returns and, if the request is for s, SlvAcknowledge.
SlvListen(s) ==
  /\ Resumes(s, "listen")
  /\ \/ /\ Claims(s, currentReq.addr, currentReq.len)
        /\ receivedResponse' = TRUE
        /\ SlvLoop(s, Listened, 0, {"slv_ack"})
     \/ /\ ~Claims(s, currentReq.addr, currentReq.len)
        /\ Suspend(s, "listen", On("slv_request"), {})
        /\ UNCHANGED <<receivedResponse, heard, moved>>
  /\ UNCHANGED <<queue, currentReq, busData, job>>

SlvSendReadData(s) ==
  /\ Resumes(s, "send")
  /\ busData' = [src |-> s, idx |-> moved[s] + 1]
  /\ SlvLoop(s, heard[s], moved[s] + 1, {"data_ready"})
  /\ UNCHANGED <<queue, currentReq, receivedResponse, job>>

\* Mutant: the last word is not confirmed to the master.
ReceiveLastSilently(s) ==
  /\ Resumes(s, "receive")
  /\ currentReq' = [currentReq EXCEPT !.bytesTransferred = @ + 1]
  /\ \/ /\ currentReq.bytesTransferred + 1 = currentReq.len
        /\ Suspend(s, "close", For(Cycle), {})
        /\ UNCHANGED <<heard, moved>>
     \/ /\ currentReq.bytesTransferred + 1 # currentReq.len
        /\ SlvLoop(s, heard[s], moved[s] + 1, {"slv_ready"})
  /\ UNCHANGED <<queue, receivedResponse, busData, job>>

SlvReceiveWriteData(s) ==
  /\ Resumes(s, "receive")
  /\ currentReq' = [currentReq EXCEPT !.bytesTransferred = @ + 1]
  /\ \/ /\ currentReq.bytesTransferred + 1 = currentReq.len
        /\ Suspend(s, "close", For(Cycle), {"slv_ready"})
        /\ UNCHANGED <<heard, moved>>
     \/ /\ currentReq.bytesTransferred + 1 # currentReq.len
        /\ SlvLoop(s, heard[s], moved[s] + 1, {"slv_ready"})
  /\ UNCHANGED <<queue, receivedResponse, busData, job>>

\* Mutant: a receiving slave does not tell the arbiter that it is done.
SlvCloseSilently(s) ==
  /\ Resumes(s, "close")
  /\ SlvLoop(s, heard[s], moved[s] + 1, {})
  /\ UNCHANGED <<queue, currentReq, receivedResponse, busData, job>>

SlvClose(s) ==
  /\ Resumes(s, "close")
  /\ SlvLoop(s, heard[s], moved[s] + 1, {"end_of_transfer"})
  /\ UNCHANGED <<queue, currentReq, receivedResponse, busData, job>>

SetupTcpConnection(s) ==
  /\ Resumes(s, "setup")
  /\ Suspend(s, "listen", On("slv_request"), {"connection_ready"})
  /\ UNCHANGED <<queue, currentReq, receivedResponse, busData, job, heard, moved>>

Slave(s) ==
  \/ SlvListen(s) \/ SlvSendReadData(s) \/ SlvReceiveWriteData(s)
  \/ SlvClose(s) \/ SetupTcpConnection(s)

-----------------------------------------------------------------------------
\* Every thread has run up to its first wait.  currentReq, receivedResponse
\* and busData are not initialised by the code and not read before the first
\* grant, so their value here does not matter.
Init ==
  /\ pc = [t \in Threads |-> CASE t = "arbiter" -> "front"
                               [] t \in Slaves -> "listen"
                               [] OTHER -> "away"]
  /\ wait = [t \in Threads |-> CASE t = "arbiter" -> On("bus_request")
                                 [] t \in Slaves -> On("slv_request")
                                 [] OTHER -> On("work")]
  /\ queue = <<>>
  /\ currentReq = BusRequest(0, NoRequest)
  /\ receivedResponse = FALSE
  /\ busData = [src |-> "arbiter", idx |-> 0]
  /\ job = [m \in Masters |-> NoRequest]
  /\ heard = [s \in Slaves |-> NoRequest]
  /\ moved = [t \in Masters \cup Slaves |-> 0]

\* Time passes by any amount up to the next deadline: a master may be woken
\* at any time by something outside the bus.
Tick ==
  /\ \E d \in 1..(ThreeCycles + SETUP) : Elapse(d)
  /\ UNCHANGED <<queue, currentReq, receivedResponse, busData, job, heard, moved>>

Next ==
  \/ Arbiter
  \/ \E m \in Masters : MasterDataTransfer(m) \/ Master(m)
  \/ \E s \in Slaves : Slave(s)
  \/ Tick

Spec == Init /\ [][Next]_vars

\* The scheduler runs every ready thread before time passes, and time passes
\* as long as a timer runs.  Nothing obliges a master to make a transfer.
FairSpec ==
  /\ Spec
  /\ WF_vars(Arbiter)
  /\ \A m \in Masters : WF_vars(Master(m))
  /\ \A s \in Slaves : WF_vars(Slave(s))
  /\ WF_vars(Tick)

=============================================================================
