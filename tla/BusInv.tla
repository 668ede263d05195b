------------------------------- MODULE BusInv -------------------------------
(***************************************************************************)
(* The inductive invariant of the bus: which thread is in which segment in *)
(* each phase of a transfer, what it waits for, and where the request of   *)
(* every waiting master is.  The promises of BusProps and BusService       *)
(* follow from it.                                                         *)
(***************************************************************************)
EXTENDS BusService

\* A master whose program opens the connection.
Opener(m) == \E r \in Program[m] : OpensConnection(r)

\* Only one thread of a system talks to the network card, and it is the one
\* that opens the connection, if any does.
ASSUME ConnectionAssumption ==
  \A m1, m2 \in Masters : \A r \in Program[m2] :
    Opener(m1) /\ Claims("nic", r.addr, r.len) => m1 = m2

-----------------------------------------------------------------------------
\* The event that ends the wait before each segment.
AwaitedBy ==
  [front |-> "bus_request", polled |-> "slv_ack", answer |-> NoEvent,
   done |-> "end_of_transfer",
   away |-> "work", request |-> NoEvent, granted |-> "master_ack",
   read |-> "data_ready", latch |-> NoEvent, close |-> NoEvent,
   drive |-> NoEvent, written |-> "slv_ready", connecting |-> "connection_ready",
   listen |-> "slv_request", send |-> "mst_ready", receive |-> "data_ready",
   setup |-> NoEvent]

\* The segments that a timer may start.
Timed == {"polled", "answer", "request", "latch", "close", "drive", "setup"}

\* A suspended thread waits for what its next segment is started by.
WaitsOK ==
  \A t \in Threads :
    \/ IsReady(t)
    \/ /\ wait[t].event = AwaitedBy[pc[t]]
       /\ (wait[t].time > 0 <=> pc[t] \in Timed)

-----------------------------------------------------------------------------
Queued(m) == \E i \in 1..Len(queue) : queue[i].id = mstId[m]

\* The queue holds the requests of masters that wait, each at most once.
QueueOK ==
  /\ \A i \in 1..Len(queue) : \E m \in Masters :
       pc[m] = "granted" /\ queue[i] = BusRequest(mstId[m], job[m])
  /\ \A i, j \in 1..Len(queue) : queue[i].id = queue[j].id => i = j

JobsOK ==
  \A m \in Masters :
    /\ pc[m] = "away" => ~IsReady(m)
    /\ pc[m] \notin {"away", "connecting"} => job[m] \in Program[m]

\* Every master woken by master_ack has looked whether it is meant before the
\* transfer that was acknowledged can have come to an end.
AcksOK ==
  (\E m \in Masters : pc[m] = "granted" /\ IsReady(m)) =>
    /\ pc["arbiter"] = "done" /\ ~IsReady("arbiter")
    /\ \A m \in Masters :
         /\ pc[m] \notin {"written", "close"}
         /\ pc[m] \in {"latch", "drive"} => ~IsReady(m)
    /\ \A s \in Slaves : pc[s] # "close"

\* Every slave woken by slv_request has looked whether it is addressed before
\* the arbiter answers.
ListenersOK ==
  \A s \in Slaves : pc[s] = "listen" /\ IsReady(s) =>
    /\ \/ pc["arbiter"] = "polled"
       \/ pc["arbiter"] = "answer" /\ ~IsReady("arbiter")
    /\ Claims(s, currentReq.addr, currentReq.len) => ~receivedResponse

\* While the network card is deaf, the only master that might address it waits
\* for it, and only then.
ConnectionOK ==
  /\ \A s \in Slaves : pc[s] = "setup" =>
       /\ s = "nic"
       /\ \E m \in Masters : Opener(m) /\ pc[m] = "connecting" /\ ~IsReady(m)
  /\ \A m \in Masters : pc[m] = "connecting" =>
       /\ Opener(m)
       /\ \/ IsReady(m)
          \/ pc["nic"] = "setup"
          \/ pc["nic"] = "close" /\ OpensConnection(heard["nic"])

-----------------------------------------------------------------------------
(* The phases of a transfer, between the owner o of the request and the    *)
(* slave s that serves it.                                                 *)

\* Master m has no part in the current transfer.
OffBus(m) == ~Transferring(m) /\ (pc[m] = "granted" => Queued(m))
NoOwner == \A m \in Masters : OffBus(m)
NoServer == \A s \in Slaves : ~Serving(s)

Owner(o) ==
  /\ currentReq.id = mstId[o]
  /\ Listened = job[o]
  /\ ~Queued(o)
  /\ \A m \in Masters \ {o} : OffBus(m)

Addressed(s) ==
  /\ Claims(s, currentReq.addr, currentReq.len)
  /\ Words(s, currentReq.rdnwr, currentReq.len) = currentReq.len

Server(s) ==
  /\ Addressed(s)
  /\ heard[s] = Listened
  /\ \A other \in Slaves \ {s} : ~Serving(other)

\* Slave s waits for the owner to go on, having served n words.
Attends(s, n) ==
  /\ Server(s)
  /\ pc[s] = (IF currentReq.rdnwr THEN "send" ELSE "receive")
  /\ ~IsReady(s)
  /\ moved[s] = n

Count == currentReq.bytesTransferred
Length == currentReq.len

Idle ==
  /\ pc["arbiter"] = "front"
  /\ IsReady("arbiter") <=> queue # <<>>
  /\ NoOwner
  /\ NoServer

Offered(o) ==
  /\ pc["arbiter"] = "polled" /\ ~IsReady("arbiter")
  /\ ~receivedResponse
  /\ pc[o] = "granted" /\ ~IsReady(o) /\ Owner(o)
  /\ NoServer
  /\ \E s \in Slaves : Addressed(s) /\ pc[s] = "listen" /\ IsReady(s)
  /\ Count = 0

Accepted(o, s) ==
  /\ \/ pc["arbiter"] = "polled" /\ IsReady("arbiter")
     \/ pc["arbiter"] = "answer"
  /\ receivedResponse
  /\ pc[o] = "granted" /\ ~IsReady(o) /\ Owner(o)
  /\ Attends(s, 0)
  /\ Count = 0

Acknowledged(o, s) ==
  pc[o] = "granted" /\ IsReady(o) /\ Attends(s, 0) /\ Count = 0

Asking(o, s) ==
  /\ currentReq.rdnwr
  /\ pc[o] = "read" /\ ~IsReady(o) /\ moved[o] = Count
  /\ Server(s) /\ pc[s] = "send" /\ IsReady(s) /\ moved[s] = Count
  /\ Count < Length

Fetching(o, s) ==
  /\ currentReq.rdnwr
  /\ pc[o] = "read" => IsReady(o)
  /\ pc[o] \in {"read", "latch"}
  /\ moved[o] = Count
  /\ Addressed(s) /\ busData = [src |-> s, idx |-> Count + 1]
  /\ \/ Count + 1 = Length /\ NoServer
     \/ Count + 1 < Length /\ Attends(s, Count + 1)

Closing(o) ==
  currentReq.rdnwr /\ pc[o] = "close" /\ NoServer /\ moved[o] + 1 = Count /\ Count = Length

Driving(o, s) ==
  ~currentReq.rdnwr /\ pc[o] = "drive" /\ moved[o] = Count /\ Count < Length /\ Attends(s, Count)

Taking(o, s) ==
  /\ ~currentReq.rdnwr
  /\ pc[o] = "written" /\ ~IsReady(o) /\ moved[o] = Count
  /\ Server(s) /\ pc[s] = "receive" /\ IsReady(s) /\ moved[s] = Count
  /\ Count < Length
  /\ busData = [src |-> o, idx |-> Count + 1]

Taken(o, s) ==
  /\ ~currentReq.rdnwr
  /\ pc[o] = "written" /\ IsReady(o) /\ moved[o] + 1 = Count
  /\ \/ Count < Length /\ Attends(s, Count)
     \/ /\ Count = Length
        /\ Server(s) /\ pc[s] = "close" /\ ~IsReady(s) /\ moved[s] + 1 = Count

Running(o, s) ==
  /\ pc["arbiter"] = "done" /\ ~IsReady("arbiter")
  /\ receivedResponse
  /\ Owner(o)
  /\ \/ Acknowledged(o, s) \/ Asking(o, s) \/ Fetching(o, s) \/ Closing(o)
     \/ Driving(o, s) \/ Taking(o, s) \/ Taken(o, s)

Leaving(s) ==
  /\ pc["arbiter"] = "done" /\ ~IsReady("arbiter")
  /\ receivedResponse
  /\ NoOwner
  /\ ~currentReq.rdnwr
  /\ Server(s) /\ pc[s] = "close" /\ moved[s] + 1 = Count /\ Count = Length
  /\ OpensConnection(heard[s]) =>
       \E m \in Masters : Opener(m) /\ pc[m] = "connecting" /\ ~IsReady(m)

Over ==
  /\ pc["arbiter"] = "done" /\ IsReady("arbiter")
  /\ receivedResponse
  /\ NoOwner
  /\ NoServer
  /\ Count = Length

Phase ==
  \/ Idle \/ Over
  \/ \E o \in Masters : Offered(o)
  \/ \E o \in Masters, s \in Slaves : Accepted(o, s) \/ Running(o, s)
  \/ \E s \in Slaves : Leaving(s)

\* The inductive invariant.
IInv ==
  /\ TypeOK
  /\ WaitsOK /\ QueueOK /\ JobsOK /\ AcksOK /\ ListenersOK /\ ConnectionOK
  /\ Phase

=============================================================================
