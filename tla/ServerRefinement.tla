-------------------------- MODULE ServerRefinement --------------------------
(***************************************************************************)
(* FileServer implements ServiceContract as long as no file changes under  *)
(* a GET and no client sends more than it announced.                       *)
(***************************************************************************)
EXTENDS FileServer

\* what the contract knows of a request: whose it is and how long
Stripped(r) == [conn |-> r.conn, total |-> r.total]

\* the contract's variables
OpenConns == {c \in Conns : Connected(c)}
Backlog == [j \in DOMAIN schedulerQueue |-> Stripped(schedulerQueue[j])]
InSlot == [w \in Workers |-> IF workerPc[w] \in Holding
                             THEN Stripped(inHand[w]) ELSE Stripped(NoRequest)]
Reported == {metricsCsv[i].conn : i \in DOMAIN metricsCsv}

Contract == INSTANCE ServiceContract WITH
  Slots <- Workers,
  arrived <- seen,
  open <- OpenConns,
  queue <- Backlog,
  serving <- InSlot,
  finished <- FinishedConns,
  reported <- Reported

\* Every behaviour of the threads, with descriptor numbers handed out, passed on
\* and reused, is one of the contract: each connection is closed once and by
\* the thread that deals with it, requests wait and are picked in the order of
\* the policy, no more are served than there are workers, and the report has
\* what was finished.
ImplementsContract == Contract!Spec
=============================================================================
