------------------------------ MODULE BusProps ------------------------------
(***************************************************************************)
(* What is assumed of the constants of the bus, and what the bus promises  *)
(* to the threads that use it.                                             *)
(***************************************************************************)
EXTENDS Bus, FiniteSets

\* mstId tells the masters of one bus apart, and their names are not taken.
ASSUME MastersAssumption ==
  /\ Masters \cap ({"arbiter"} \cup Slaves) = {}
  /\ mstId \in [Masters -> Nat]
  /\ \A m1, m2 \in Masters : mstId[m1] = mstId[m2] => m1 = m2

ASSUME ProgramAssumption == Program \in [Masters -> SUBSET Request]

\* A cycle lasts at least 1 ns, so no wait of the bus is a wait for nothing.
ASSUME ClockAssumption ==
  /\ BUS_FREQ \in 1..1000
  /\ SETUP \in Nat \ {0}

-----------------------------------------------------------------------------
Event ==
  {"bus_request", "data_ready", "master_ack", "mst_ready", "slv_request",
   "slv_ack", "slv_ready", "end_of_transfer", "connection_ready", "work", NoEvent}

ArbiterSegment == {"front", "polled", "answer", "done"}
MasterSegment ==
  {"away", "request", "granted", "read", "latch", "close", "drive", "written",
   "connecting"}
SlaveSegment == {"listen", "send", "receive", "close", "setup"}

QueuedRequest ==
  [id : Nat, rdnwr : BOOLEAN, addr : Nat, len : Nat, bytesTransferred : Nat]

\* The type invariant.
TypeOK ==
  /\ pc \in [Threads -> ArbiterSegment \cup MasterSegment \cup SlaveSegment]
  /\ pc["arbiter"] \in ArbiterSegment
  /\ \A m \in Masters : pc[m] \in MasterSegment
  /\ \A s \in Slaves : pc[s] \in SlaveSegment
  /\ wait \in [Threads -> [event : Event, time : Nat]]
  /\ queue \in Seq(QueuedRequest)
  /\ currentReq \in QueuedRequest
  /\ receivedResponse \in BOOLEAN
  /\ busData \in [src : Threads, idx : Nat]
  /\ job \in [Masters -> Request]
  /\ heard \in [Slaves -> Request]
  /\ moved \in [Masters \cup Slaves -> Nat]

-----------------------------------------------------------------------------
\* A master that has been granted the bus and not yet moved its last word.
Transferring(m) == pc[m] \in {"read", "latch", "close", "drive", "written"}

\* A slave that has acknowledged and not yet moved its last word.
Serving(s) == pc[s] \in {"send", "receive", "close"}

\* The bus belongs to one master and one slave at a time: the master whose
\* request is current, and a slave that serves that very request, while the
\* arbiter waits for the end of the transfer.
OneTransfer ==
  /\ \A m1, m2 \in Masters : Transferring(m1) /\ Transferring(m2) => m1 = m2
  /\ \A s1, s2 \in Slaves : Serving(s1) /\ Serving(s2) => s1 = s2
  /\ \A m \in Masters : Transferring(m) =>
       /\ pc["arbiter"] = "done"
       /\ currentReq.id = mstId[m]
       /\ Listened = job[m]
  /\ \A s \in Slaves : Serving(s) => heard[s] = Listened

\* No word is lost, repeated or taken from the wrong side: the word that a
\* thread is about to take from busData is the next one of its own transfer,
\* driven by the other party.
NextWordOnBus ==
  /\ \A m \in Masters : pc[m] = "latch" =>
       /\ busData.src \in Slaves
       /\ Claims(busData.src, job[m].addr, job[m].len)
       /\ busData.idx = moved[m] + 1
  /\ \A s \in Slaves : Resumes(s, "receive") =>
       /\ busData.src \in Masters
       /\ mstId[busData.src] = currentReq.id
       /\ busData.idx = moved[s] + 1

\* No notification is missed: when no thread is ready and no timer runs, the
\* bus is idle and every master is off the bus.  A lost handshake would leave
\* the two parties and the arbiter suspended for ever.
NothingStuck ==
  (\A t \in Threads : ~IsReady(t) /\ wait[t].time = 0) =>
    /\ queue = <<>>
    /\ pc["arbiter"] = "front"
    /\ \A m \in Masters : pc[m] = "away"
    /\ \A s \in Slaves : pc[s] = "listen"

\* The arbiter's answer reaches the master it is for: a master waits for it
\* only while its request is queued or current.
AnswerReachesMaster ==
  \A m \in Masters : pc[m] = "granted" =>
    \/ \E i \in 1..Len(queue) : queue[i].id = mstId[m]
    \/ pc["arbiter"] # "front" /\ currentReq.id = mstId[m]
    \/ IsReady(m) /\ currentReq.id = mstId[m]

\* The request being served does not change under a master or a slave that is
\* still moving its words, the count of words apart.
CurrentReqStable ==
  [][(\E t \in Masters : Transferring(t)) \/ (\E s \in Slaves : Serving(s)) =>
       /\ Listened' = Listened
       /\ currentReq'.id = currentReq.id]_vars

=============================================================================
