----------------------------- MODULE BusService -----------------------------
(***************************************************************************)
(* The bus in the systems of Project.cpp, where every transfer is          *)
(* addressed to a slave that serves it: what it then promises in addition, *)
(* and that it implements a line of transactions.                          *)
(***************************************************************************)
EXTENDS BusProps

\* Every transfer of the program moves at least one word and is served, word
\* for word, by the slave it is addressed to.
ASSUME ServedAssumption ==
  \A m \in Masters : \A r \in Program[m] :
    r.len > 0 /\ Served(r.addr, r.rdnwr, r.len)

\* Every request is acknowledged in time: the arbiter never gives a negative
\* answer, which MasterDataTransfer turns into a null pointer.
AlwaysAcknowledged ==
  pc["arbiter"] \in {"answer", "done"} => receivedResponse

\* A master that has put its request in the queue gets its transfer done.
RequestsComplete == \A m \in Masters : pc[m] = "granted" ~> pc[m] = "away"

-----------------------------------------------------------------------------
Asked(q) == [id |-> q.id, rdnwr |-> q.rdnwr, addr |-> q.addr, len |-> q.len]

\* The request being served heads the line until the arbiter turns away from
\* it, whatever phase of the protocol it is in.
InService == pc["arbiter"] # "front"
Waiting == IF InService THEN <<currentReq>> \o queue ELSE queue

Transactions == UNION {{Asked(BusRequest(mstId[m], r)) : r \in Program[m]} : m \in Masters}
WaitingLine == [i \in 1..Len(Waiting) |-> Asked(Waiting[i])]
WordsMoved == IF InService THEN currentReq.bytesTransferred ELSE 0

Line == INSTANCE AbstractBus WITH
          Transaction <- Transactions, line <- WaitingLine, words <- WordsMoved

\* The bus serves the requests first come first served, one at a time, each
\* with exactly its number of words.
ServesInOrder == Line!Safe

\* And it never stops while a request waits.
ServesAll == Line!Live

=============================================================================
