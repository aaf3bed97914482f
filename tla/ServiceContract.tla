--------------------------- MODULE ServiceContract ---------------------------
(***************************************************************************)
(* What build/server promises its clients, without threads, mutexes,       *)
(* condition variables or descriptor numbers: every connection is a thing  *)
(* of its own, waits in one queue, is served in one of a fixed number of   *)
(* slots, is closed once, by whoever deals with it, and is reported exactly *)
(* if it was served to the end.  Module ServerRefinement maps FileServer   *)
(* to it.                                                                  *)
(***************************************************************************)
EXTENDS Naturals, SequencesExt

CONSTANTS
  Conns,        \* the connections clients may open
  NoConn,       \* none of them
  Slots,        \* one per worker thread
  Policy,       \* --sched
  Totals        \* possible lengths of a request

VARIABLES
  arrived,      \* connections accepted so far
  open,         \* those not closed yet
  queue,        \* admitted requests that wait
  serving,      \* the request in each slot
  finished,     \* connections served to the end
  reported      \* connections in metrics.csv

vars == <<arrived, open, queue, serving, finished, reported>>

Request == [conn : Conns, total : Totals]
Idle == [conn |-> NoConn, total |-> 0]
Busy == {s \in Slots : serving[s] # Idle}
Queued == {queue[j].conn : j \in DOMAIN queue}
InService == Queued \cup {serving[s].conn : s \in Busy}

Init ==
  /\ arrived = {} /\ open = {}
  /\ queue = <<>> /\ serving = [s \in Slots |-> Idle]
  /\ finished = {} /\ reported = {}

\* A connection is accepted, and closed at once if no timeout can be set.
Arrive(c) ==
  /\ c \notin arrived
  /\ arrived' = arrived \cup {c}
  /\ open' \in {open, open \cup {c}}
  /\ UNCHANGED <<queue, serving, finished, reported>>

\* Answered without being queued: a bad header, a missing file, HEALTH.
Answer(c) ==
  /\ c \in open \ InService
  /\ open' = open \ {c}
  /\ UNCHANGED <<arrived, queue, serving, finished, reported>>

Admit(c) ==
  /\ c \in open \ InService
  /\ \E t \in Totals : queue' = Append(queue, [conn |-> c, total |-> t])
  /\ UNCHANGED <<arrived, open, serving, finished, reported>>

\* fcfs, rr and drr take the head, sjf a shortest request.
MayPick(k) ==
  IF Policy = "sjf" THEN \A j \in DOMAIN queue : queue[k].total <= queue[j].total
                    ELSE k = 1

Pick(s) ==
  /\ serving[s] = Idle
  /\ \E k \in DOMAIN queue :
       /\ MayPick(k)
       /\ serving' = [serving EXCEPT ![s] = queue[k]]
       /\ queue' = RemoveAt(queue, k)
  /\ UNCHANGED <<arrived, open, finished, reported>>

\* rr and drr: back to the tail, the connection stays open.
Preempt(s) ==
  /\ s \in Busy /\ Policy \in {"rr", "drr"}
  /\ queue' = Append(queue, serving[s])
  /\ serving' = [serving EXCEPT ![s] = Idle]
  /\ UNCHANGED <<arrived, open, finished, reported>>

\* The end of a request closes its own connection and no other.
End(s) ==
  /\ s \in Busy
  /\ open' = open \ {serving[s].conn}
  /\ serving' = [serving EXCEPT ![s] = Idle]
  /\ finished' \in {finished, finished \cup {serving[s].conn}}
  /\ UNCHANGED <<arrived, queue, reported>>

\* The report comes when nothing is served any more and is complete.
Report ==
  /\ Busy = {} /\ reported = {}
  /\ reported' = finished
  /\ UNCHANGED <<arrived, open, queue, serving, finished>>

Next ==
  \/ \E c \in Conns : Arrive(c) \/ Answer(c) \/ Admit(c)
  \/ \E s \in Slots : Pick(s) \/ Preempt(s) \/ End(s)
  \/ Report

Spec == Init /\ [][Next]_vars
=============================================================================
