------------------------------ MODULE SystemC ------------------------------
(***************************************************************************)
(* The part of the SystemC simulation kernel that the program relies on.   *)
(* The kernel is not in the repository: it is modelled from how the        *)
(* repository's modules use SC_THREAD, sc_event and wait().                *)
(*                                                                         *)
(* A thread runs without preemption from one wait() to the next, so one    *)
(* such segment is one action.  notify() without an argument is an         *)
(* immediate notification: it makes ready the threads that are waiting for *)
(* the event at that moment, and is lost on every other thread.  Time      *)
(* passes only when no thread is ready.  Ready threads run in any order.   *)
(***************************************************************************)
EXTENDS Naturals

VARIABLES
  pc,    \* pc[t]: the segment thread t runs when it is next resumed
  wait   \* wait[t]: what suspends t, a record [event, time]

NoEvent == "none"

\* A thread that waits for nothing is ready to run.
Ready == [event |-> NoEvent, time |-> 0]

\* wait(e): until e is notified.
On(e) == [event |-> e, time |-> 0]

\* wait(d, unit): until d has passed.  wait(d, unit, e): or e is notified.
For(d) == [event |-> NoEvent, time |-> d]
ForOrOn(d, e) == [event |-> e, time |-> d]

IsReady(t) == wait[t] = Ready

\* Thread t is chosen by the scheduler and is about to run segment seg.
Resumes(t, seg) == IsReady(t) /\ pc[t] = seg

\* The segment of t ends: it notified the events in fired while it ran, and
\* now calls a wait described by w, after which it will run segment seg.
Suspend(t, seg, w, fired) ==
  /\ pc' = [pc EXCEPT ![t] = seg]
  /\ wait' = [p \in DOMAIN wait |->
                CASE p = t -> w
                  [] p # t /\ wait[p].event \in fired -> Ready
                  [] OTHER -> wait[p]]

\* d units of time pass, at most up to the next deadline.
Elapse(d) ==
  /\ d > 0
  /\ \A p \in DOMAIN wait : ~IsReady(p)
  /\ \E p \in DOMAIN wait : wait[p].time > 0
  /\ \A p \in DOMAIN wait : wait[p].time > 0 => d <= wait[p].time
  /\ wait' = [p \in DOMAIN wait |->
                CASE wait[p].time = 0 -> wait[p]
                  [] wait[p].time = d -> Ready
                  [] OTHER -> [wait[p] EXCEPT !.time = @ - d]]
  /\ UNCHANGED pc

=============================================================================
