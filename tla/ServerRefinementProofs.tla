----------------------- MODULE ServerRefinementProofs -----------------------
(***************************************************************************)
(* Proof that FileServer implements ServiceContract.                       *)
(***************************************************************************)
EXTENDS ServerRefinement, FileServerOutcomeProofs

-----------------------------------------------------------------------------
(* What the refinement needs beyond DescriptorInv; WrittenLast says that    *)
(* the report comes once, after every worker has left.                     *)

\* A connection has one descriptor, and was accepted.
OwnersApart ==
  /\ \A f, g \in Fds : owner[f] # NoConn /\ owner[f] = owner[g] => f = g
  /\ \A f \in Fds : owner[f] # NoConn => owner[f] \in seen

\* While files do not change only rr and drr requeue.
OnlyPreempted == \A w \in Workers : workerPc[w] = "requeue" => Policy \in Preemptive

RefinementInv == OwnersApart /\ OnlyPreempted /\ WrittenLast

LEMMA InitRefinementInv == Init => RefinementInv
BY DEF Init, RefinementInv, OwnersApart, OnlyPreempted, WrittenLast

LEMMA NextOwnersApart ==
  ASSUME Typed, OwnersApart, [Next]_vars
  PROVE  OwnersApart'
<1> USE DEF envVars, mainVars, parserVars, workerVars, metricVars, kernelVars,
            history
<1>0. owner \in [Fds -> Conns \cup {NoConn}]
  BY DEF Typed, TypeOK
<1>1. CASE UNCHANGED <<owner, seen>>
  BY <1>1 DEF OwnersApart
<1>2. ASSUME NEW f \in Fds, owner' = [owner EXCEPT ![f] = NoConn], seen' = seen
      PROVE  OwnersApart'
  BY <1>0, <1>2 DEF OwnersApart
<1>3. ASSUME NEW c \in Conns \ seen, NEW f \in Fds,
             owner' = [owner EXCEPT ![f] = c], seen' = seen \cup {c}
      PROVE  OwnersApart'
  BY <1>0, <1>3 DEF OwnersApart
<1>4. ASSUME NEW c \in Conns, Accept(c) PROVE OwnersApart'
  <2>1. CASE owner' = owner
    BY <1>4, <2>1 DEF Accept, OwnersApart
  <2>2. QED
    BY <1>3, <1>4, <2>1 DEF Accept, LowestFree, FreeFds
<1>5. CASE ParserAnswers
  BY <1>2, <1>5 DEF ParserAnswers, Closed, Typed, HandsFull
<1>6. ASSUME NEW w \in Workers,
             ServeFails(w) \/ ServeCompletes(w) \/ ServeYields(w)
      PROVE  OwnersApart'
  <2>1. inHand[w].fd \in Fds
    BY <1>6, HeldFds DEF ServeFails, ServeCompletes, ServeYields, Serving, Holding
  <2>2. QED
    BY <1>1, <1>2, <1>6, <2>1 DEF ServeFails, ServeCompletes, ServeYields, Closed
<1>7. CASE ~ \/ ParserAnswers \/ \E c \in Conns : Accept(c)
             \/ \E w \in Workers :
                  ServeFails(w) \/ ServeCompletes(w) \/ ServeYields(w)
  <2>1. UNCHANGED <<owner, seen>>
    BY <1>7
       DEF Next, vars, MainStep, ParserStep, WorkerStep, Environment,
           EnterAccept, AcceptFails, EnqueueConnection, SignalConnection,
           CheckShutdown, WakeParserForShutdown, JoinParser,
           BroadcastWorkers, JoinWorkers, WriteMetrics, ParserTakes,
           ParserFindsNone, ParserWaits, ParserAdmits, ParserSignals,
           WorkerTakes, WorkerFindsNone, WorkerWaits, WorkerRequeues,
           WorkerSignals, WorkerRecords, Signal, SpuriousWakeup
  <2>2. QED
    BY <1>1, <2>1
<1>8. QED
  BY <1>4, <1>5, <1>6, <1>7

LEMMA NextRefinementInv ==
  ASSUME FilesStable, Typed, RefinementInv, [Next]_vars
  PROVE  RefinementInv'
<1> USE DEF envVars, mainVars, parserVars, workerVars, metricVars, kernelVars,
            history
<1>0. workerPc \in [Workers -> WorkerPcs]
  BY DEF Typed, TypeOK
<1>1. OwnersApart'
  BY NextOwnersApart DEF RefinementInv
<1>2. OnlyPreempted'
  <2>1. ASSUME NEW w \in Workers, WorkerStep(w) PROVE OnlyPreempted'
    BY <1>0, <2>1
       DEF RefinementInv, OnlyPreempted, WorkerStep, WorkerTakes,
           WorkerFindsNone, LeaveOrWait, WorkerWaits, ServeFails,
           ServeCompletes, ServeYields, WorkerRequeues, WorkerSignals,
           WakeOneWorker, WorkerRecords, Preemptive
  <2>2. CASE ~ \E w \in Workers : WorkerStep(w)
    <3>1. \A w \in Workers : workerPc'[w] \in {workerPc[w], "lock"}
      BY <1>0, <2>2
         DEF Next, vars, MainStep, ParserStep, Environment, Accept,
             EnterAccept, AcceptFails, EnqueueConnection, SignalConnection,
             CheckShutdown, WakeParserForShutdown, JoinParser,
             BroadcastWorkers, WakeAll, JoinWorkers, WriteMetrics,
             ParserTakes, ParserFindsNone, ParserWaits, ParserAnswers,
             ParserAdmits, ParserSignals, WakeOneWorker, Signal,
             SpuriousWakeup
    <3>2. QED
      BY <3>1 DEF RefinementInv, OnlyPreempted
  <2>3. QED
    BY <2>1, <2>2
<1>3. WrittenLast'
  BY NextWrittenLast DEF RefinementInv
<1>4. QED
  BY <1>1, <1>2, <1>3 DEF RefinementInv

-----------------------------------------------------------------------------
(* The contract's variables over a step.                                   *)

\* The requests in the slots and the finished ones stay as they are.
LEMMA SlotsUnchanged ==
  ASSUME \A w \in Workers :
           /\ workerPc'[w] \in Holding <=> workerPc[w] \in Holding
           /\ workerPc[w] \in Holding => inHand'[w] = inHand[w]
  PROVE  InSlot' = InSlot
BY DEF InSlot, Stripped

LEMMA FinishedUnchanged ==
  ASSUME completedRequests' = completedRequests,
         \A w \in Workers :
           /\ workerPc'[w] = "record" <=> workerPc[w] = "record"
           /\ workerPc[w] = "record" => inHand'[w] = inHand[w]
  PROVE  FinishedConns' = FinishedConns
BY DEF FinishedConns

\* Threads that only wake up, fall asleep or signal.
LEMMA Stutters ==
  ASSUME UNCHANGED <<seen, owner, schedulerQueue, metricsCsv, inHand,
                     completedRequests>>,
         \A w \in Workers :
           /\ workerPc'[w] \in Holding <=> workerPc[w] \in Holding
           /\ workerPc'[w] = "record" <=> workerPc[w] = "record"
  PROVE  Contract!vars' = Contract!vars
<1>1. InSlot' = InSlot
  BY SlotsUnchanged
<1>2. FinishedConns' = FinishedConns
  BY FinishedUnchanged
<1>3. OpenConns' = OpenConns /\ Backlog' = Backlog /\ Reported' = Reported
  BY DEF OpenConns, Connected, Backlog, Reported
<1>4. QED
  BY <1>1, <1>2, <1>3 DEF Contract!vars

\* Closing a descriptor closes its connection and no other.
LEMMA ClosesOne ==
  ASSUME Typed, OwnersApart, NEW f \in Fds, owner[f] # NoConn,
         owner' = [owner EXCEPT ![f] = NoConn]
  PROVE  OpenConns' = OpenConns \ {owner[f]}
<1>1. /\ \A g \in Fds : owner'[g] = IF g = f THEN NoConn ELSE owner[g]
      /\ NoConn \notin Conns
  BY ServerAssumption DEF Typed, TypeOK
<1>2. ASSUME NEW c \in Conns
      PROVE  Connected(c)' <=> Connected(c) /\ c # owner[f]
  BY <1>1 DEF Connected, OwnersApart
<1>3. QED
  BY <1>2 DEF OpenConns

\* Requests whose connection is open somewhere else are not this one.
LEMMA InServiceHolds ==
  ASSUME Typed, DescriptorInv, OwnersApart, parserFd \in Fds
  PROVE  owner[parserFd] \in OpenConns \ Contract!InService
<1>1. owner[parserFd] \in Conns /\ owner[parserFd] # NoConn
  <2>1. owner[parserFd] \in Conns \cup {NoConn}
    BY DEF Typed, TypeOK
  <2>2. owner[parserFd] # NoConn
    BY HeldFds DEF DescriptorInv, HeldIsOpen
  <2>3. QED
    BY <2>1, <2>2
<1>2. ASSUME NEW j \in DOMAIN schedulerQueue
      PROVE  schedulerQueue[j].conn # owner[parserFd]
  BY <1>1, HeldFds
     DEF DescriptorInv, HoldersApart, HeldIsOpen, Connection, OwnersApart
<1>3. ASSUME NEW w \in Workers, Serving(w)
      PROVE  inHand[w].conn # owner[parserFd]
  BY <1>1, <1>3, HeldFds
     DEF DescriptorInv, HoldersApart, HeldIsOpen, Connection, OwnersApart
<1>4. \A j \in DOMAIN Backlog : Backlog[j].conn # owner[parserFd]
  BY <1>2 DEF Backlog, Stripped
<1>5. \A w \in Workers : InSlot[w].conn # owner[parserFd]
  BY <1>1, <1>3 DEF InSlot, Stripped, Serving, NoRequest
<1>6. owner[parserFd] \notin Contract!InService
  BY <1>4, <1>5 DEF Contract!InService, Contract!Queued, Contract!Busy
<1>7. QED
  BY <1>1, <1>6 DEF OpenConns, Connected

\* A worker that serves occupies its slot, an idle one does not.
LEMMA SlotOf ==
  ASSUME Typed, DescriptorInv, NEW w \in Workers
  PROVE  /\ Serving(w) => /\ w \in Contract!Busy
                          /\ InSlot[w] = Stripped(inHand[w])
                          /\ InSlot[w].conn = owner[inHand[w].fd]
                          /\ owner[inHand[w].fd] # NoConn
         /\ ~Serving(w) => InSlot[w] = Contract!Idle
<1>1. ASSUME Serving(w)
      PROVE  /\ InSlot[w] = Stripped(inHand[w])
             /\ InSlot[w].conn = owner[inHand[w].fd]
             /\ owner[inHand[w].fd] # NoConn
  BY <1>1 DEF InSlot, Serving, Stripped, DescriptorInv, HeldIsOpen, Connection
<1>2. ASSUME Serving(w) PROVE InSlot[w] # Contract!Idle
  BY <1>1, <1>2 DEF Contract!Idle
<1>3. ASSUME ~Serving(w) PROVE InSlot[w] = Contract!Idle
  BY <1>3 DEF InSlot, Serving, Contract!Idle, Stripped, NoRequest
<1>4. QED
  BY <1>1, <1>2, <1>3 DEF Contract!Busy

-----------------------------------------------------------------------------
(* The queue.                                                              *)

Ticket == [conn : Conns \cup {NoConn}, total : Totals]

\* Backlog is schedulerQueue, position by position.
BacklogShape ==
  /\ Backlog \in Seq(Ticket)
  /\ Len(Backlog) = Len(schedulerQueue) /\ Len(Backlog) \in Nat
  /\ DOMAIN schedulerQueue = 1 .. Len(Backlog)
  /\ DOMAIN Backlog = 1 .. Len(Backlog)
  /\ \A j \in 1 .. Len(Backlog) : Backlog[j] = Stripped(schedulerQueue[j])

LEMMA BacklogType == Typed => BacklogShape
<1> SUFFICES ASSUME Typed PROVE BacklogShape
  OBVIOUS
<1>1. schedulerQueue \in Seq(Request)
  BY DEF Typed, TypeOK
<1>2. \A r \in Request : Stripped(r) \in Ticket
  BY DEF Request, Ticket, Stripped
<1>3. Backlog \in [DOMAIN schedulerQueue -> Ticket]
  BY <1>2, Elements DEF Backlog
<1>4. Backlog \in Seq(Ticket)
  BY <1>1, <1>3, MapType
<1>5. DOMAIN Backlog = DOMAIN schedulerQueue
  BY DEF Backlog
<1>6. /\ DOMAIN schedulerQueue = 1 .. Len(schedulerQueue)
      /\ Len(schedulerQueue) \in Nat
  BY <1>1, LenProperties
<1>7. DOMAIN Backlog = 1 .. Len(Backlog) /\ Len(Backlog) \in Nat
  BY <1>4, LenProperties
<1>8. Len(Backlog) = Len(schedulerQueue)
  BY <1>5, <1>6, <1>7
<1>9. QED
  BY <1>4, <1>5, <1>6, <1>7, <1>8 DEF Backlog, BacklogShape

LEMMA BacklogAppends ==
  ASSUME Typed, Typed', NEW r \in Request,
         schedulerQueue' = Append(schedulerQueue, r)
  PROVE  Backlog' = Append(Backlog, Stripped(r))
<1> DEFINE n == Len(schedulerQueue)
<1>1. Stripped(r) \in Ticket
  BY DEF Request, Ticket, Stripped
<1>2. /\ n \in Nat /\ DOMAIN schedulerQueue' = 1 .. n + 1
      /\ \A j \in 1 .. n : schedulerQueue'[j] = schedulerQueue[j]
      /\ schedulerQueue'[n + 1] = r
  <2>1. schedulerQueue \in Seq(Request)
    BY DEF Typed, TypeOK
  <2>2. QED
    BY <2>1, AppendElements
<1>3. /\ Backlog \in Seq(Ticket) /\ Len(Backlog) = n
      /\ \A j \in 1 .. n : Backlog[j] = Stripped(schedulerQueue[j])
  BY BacklogType DEF BacklogShape
<1>4. /\ Backlog' \in Seq(Ticket)
      /\ DOMAIN schedulerQueue' = 1 .. Len(Backlog')
      /\ \A j \in DOMAIN schedulerQueue' :
           Backlog'[j] = Stripped(schedulerQueue'[j])
      /\ Len(Backlog') \in Nat
  <2>1. BacklogShape'
    BY BacklogType, PTL
  <2>2. QED
    BY <2>1 DEF BacklogShape
<1> DEFINE b == Append(Backlog, Stripped(r))
<1> HIDE DEF n
<1>5. /\ b \in Seq(Ticket) /\ Len(b) = n + 1
      /\ \A j \in 1 .. n : b[j] = Backlog[j]
      /\ b[n + 1] = Stripped(r)
  BY <1>1, <1>3, AppendProperties
<1> HIDE DEF b
<1>6. Len(Backlog') = n + 1
  BY <1>2, <1>4
<1>7. ASSUME NEW j \in 1 .. n + 1 PROVE Backlog'[j] = b[j]
  <2>1. CASE j \in 1 .. n
    BY <1>2, <1>3, <1>4, <1>5, <2>1
  <2>2. CASE j = n + 1
    BY <1>2, <1>4, <1>5, <2>2
  <2>3. QED
    BY <1>2, <2>1, <2>2
<1>8. Backlog' = b
  BY <1>4, <1>5, <1>6, <1>7, SeqEqual
<1>9. QED
  BY <1>8 DEF b

LEMMA BacklogRemoves ==
  ASSUME Typed, Typed', NEW k \in DOMAIN schedulerQueue,
         schedulerQueue' = RemoveAt(schedulerQueue, k)
  PROVE  Backlog' = RemoveAt(Backlog, k)
<1> DEFINE n == Len(schedulerQueue)
           b == RemoveAt(Backlog, k)
<1>1. /\ n \in Nat /\ DOMAIN schedulerQueue' = 1 .. n - 1
      /\ DOMAIN schedulerQueue = 1 .. n
      /\ \A j \in 1 .. n - 1 :
           schedulerQueue'[j] = schedulerQueue[IF j < k THEN j ELSE j + 1]
  <2>1. schedulerQueue \in Seq(Request)
    BY DEF Typed, TypeOK
  <2>2. QED
    BY <2>1, OneRemoved
<1>2. /\ Backlog \in Seq(Ticket) /\ Len(Backlog) = n /\ k \in DOMAIN Backlog
      /\ \A j \in 1 .. n : Backlog[j] = Stripped(schedulerQueue[j])
  BY <1>1, BacklogType DEF BacklogShape
<1>3. /\ Backlog' \in Seq(Ticket)
      /\ DOMAIN schedulerQueue' = 1 .. Len(Backlog')
      /\ \A j \in DOMAIN schedulerQueue' :
           Backlog'[j] = Stripped(schedulerQueue'[j])
      /\ Len(Backlog') \in Nat
  <2>1. BacklogShape'
    BY BacklogType, PTL
  <2>2. QED
    BY <2>1 DEF BacklogShape
<1> HIDE DEF n, b
<1>4. /\ b \in Seq(Ticket) /\ Len(b) = n - 1
      /\ \A j \in 1 .. n - 1 : b[j] = Backlog[IF j < k THEN j ELSE j + 1]
  BY <1>2, RemoveAtType, OneRemoved DEF b
<1>5. k \in 1 .. n
  BY <1>1
<1>6. Len(Backlog') = n - 1
  BY <1>1, <1>3, <1>5
<1>7. ASSUME NEW j \in 1 .. n - 1 PROVE Backlog'[j] = b[j]
  <2>1. (IF j < k THEN j ELSE j + 1) \in 1 .. n
    BY <1>1
  <2>2. QED
    BY <1>1, <1>2, <1>3, <1>4, <2>1
<1>8. Backlog' = b
  BY <1>3, <1>4, <1>6, <1>7, SeqEqual
<1>9. QED
  BY <1>8 DEF b

-----------------------------------------------------------------------------
(* The steps.                                                              *)

LEMMA AcceptArrives ==
  ASSUME Typed, RefinementInv, NEW c \in Conns, Accept(c)
  PROVE  Contract!Arrive(c)
<1>1. /\ c \notin seen /\ seen' = seen \cup {c}
      /\ UNCHANGED <<schedulerQueue, workerPc, inHand, completedRequests,
                     metricsCsv>>
  BY DEF Accept, workerVars, metricVars
<1>2. OpenConns' \in {OpenConns, OpenConns \cup {c}}
  <2>1. CASE owner' = owner
    BY <2>1 DEF OpenConns, Connected
  <2>2. ASSUME NEW f \in Fds, owner[f] = NoConn, owner' = [owner EXCEPT ![f] = c]
        PROVE  OpenConns' = OpenConns \cup {c}
    <3>1. \A g \in Fds : owner'[g] = IF g = f THEN c ELSE owner[g]
      BY <2>2 DEF Typed, TypeOK
    <3>2. ASSUME NEW d \in Conns PROVE Connected(d)' <=> Connected(d) \/ d = c
      BY <2>2, <3>1, ServerAssumption DEF Connected
    <3>3. QED
      BY <3>2 DEF OpenConns
  <2>3. QED
    BY <2>1, <2>2 DEF Accept, LowestFree, FreeFds
<1>3. Backlog' = Backlog /\ Reported' = Reported
  BY <1>1 DEF Backlog, Reported
<1>4. InSlot' = InSlot /\ FinishedConns' = FinishedConns
  BY <1>1, SlotsUnchanged, FinishedUnchanged
<1>5. QED
  BY <1>1, <1>2, <1>3, <1>4 DEF Contract!Arrive

LEMMA AnswersRefine ==
  ASSUME Typed, DescriptorInv, RefinementInv, ParserAnswers
  PROVE  Contract!Answer(owner[parserFd])
<1>1. /\ parserFd \in Fds /\ owner' = [owner EXCEPT ![parserFd] = NoConn]
      /\ UNCHANGED <<schedulerQueue, workerPc, inHand, completedRequests,
                     metricsCsv, seen>>
  BY DEF ParserAnswers, Closed, workerVars, metricVars, Typed, HandsFull
<1>2. owner[parserFd] \in OpenConns \ Contract!InService
  BY <1>1, InServiceHolds DEF RefinementInv
<1>3. OpenConns' = OpenConns \ {owner[parserFd]}
  BY <1>1, HeldFds, ClosesOne DEF RefinementInv, DescriptorInv, HeldIsOpen
<1>4. Backlog' = Backlog /\ Reported' = Reported
  BY <1>1 DEF Backlog, Reported
<1>5. InSlot' = InSlot /\ FinishedConns' = FinishedConns
  BY <1>1, SlotsUnchanged, FinishedUnchanged
<1>6. QED
  BY <1>1, <1>2, <1>3, <1>4, <1>5 DEF Contract!Answer

LEMMA AdmitsRefine ==
  ASSUME Typed, Typed', DescriptorInv, RefinementInv, ParserAdmits
  PROVE  Contract!Admit(owner[parserFd])
<1>1. /\ parserFd \in Fds
      /\ UNCHANGED <<owner, seen, workerPc, inHand, completedRequests, metricsCsv>>
  BY DEF ParserAdmits, workerVars, metricVars, kernelVars, Typed, HandsFull
<1>2. PICK t \in Totals : schedulerQueue' = Append(schedulerQueue,
         [id |-> nextRequestId, fd |-> parserFd, conn |-> owner[parserFd],
          total |-> t, rounds |-> 0])
  BY DEF ParserAdmits, Enqueued
<1> DEFINE r == [id |-> nextRequestId, fd |-> parserFd, conn |-> owner[parserFd],
                 total |-> t, rounds |-> 0]
<1>3. r \in Request
  BY <1>1, ServerAssumption DEF Typed, TypeOK, Request
<1>4. Stripped(r) = [conn |-> owner[parserFd], total |-> t]
  BY DEF Stripped
<1>5. Backlog' = Append(Backlog, Stripped(r))
  <2> HIDE DEF r
  <2>1. schedulerQueue' = Append(schedulerQueue, r)
    BY <1>2 DEF r
  <2>2. QED
    BY <1>3, <2>1, BacklogAppends
<1>6. owner[parserFd] \in OpenConns \ Contract!InService
  BY <1>1, InServiceHolds DEF RefinementInv
<1>7. OpenConns' = OpenConns /\ Reported' = Reported
  BY <1>1 DEF OpenConns, Connected, Reported
<1>8. InSlot' = InSlot /\ FinishedConns' = FinishedConns
  BY <1>1, SlotsUnchanged, FinishedUnchanged
<1> HIDE DEF r
<1>9. QED
  BY <1>1, <1>4, <1>5, <1>6, <1>7, <1>8 DEF Contract!Admit

LEMMA TakesPicks ==
  ASSUME Typed, Typed', DescriptorInv, NEW w \in Workers, WorkerTakes(w)
  PROVE  Contract!Pick(w)
<1>1. PICK k \in DOMAIN schedulerQueue :
        /\ Selected(k)
        /\ schedulerQueue' = RemoveAt(schedulerQueue, k)
        /\ inHand' = [inHand EXCEPT ![w] =
                        [schedulerQueue[k] EXCEPT !.rounds = @ + 1]]
  BY DEF WorkerTakes
<1>2. /\ workerPc[w] = "lock" /\ workerPc' = [workerPc EXCEPT ![w] = "serving"]
      /\ UNCHANGED <<owner, seen, completedRequests, metricsCsv>>
      /\ workerPc \in [Workers -> WorkerPcs]
      /\ inHand \in [Workers -> Request \cup {NoRequest}]
  BY DEF WorkerTakes, metricVars, kernelVars, Typed, TypeOK
<1>3. /\ k \in DOMAIN Backlog /\ DOMAIN Backlog = DOMAIN schedulerQueue
      /\ \A j \in DOMAIN Backlog : Backlog[j] = Stripped(schedulerQueue[j])
  BY BacklogType DEF BacklogShape
<1>4. InSlot[w] = Contract!Idle
  BY <1>2, SlotOf DEF Serving, Holding
<1>5. Contract!MayPick(k)
  <2>1. CASE Policy = "sjf"
    <3>1. \A j \in DOMAIN schedulerQueue : schedulerQueue[j].total \in Nat
      BY Elements, ServerAssumption DEF Request
    <3>2. \A j \in DOMAIN schedulerQueue :
            schedulerQueue[k].total <= schedulerQueue[j].total
      BY <1>1, <2>1, <3>1 DEF Selected
    <3>3. QED
      BY <1>3, <2>1, <3>2 DEF Contract!MayPick, Stripped
  <2>2. CASE Policy # "sjf"
    BY <1>1, <2>2 DEF Selected, Contract!MayPick
  <2>3. QED
    BY <2>1, <2>2
<1>6. InSlot' = [InSlot EXCEPT ![w] = Backlog[k]]
  <2>1. schedulerQueue[k] \in Request
    BY Elements
  <2>2. Stripped(inHand'[w]) = Backlog[k]
    BY <1>1, <1>2, <1>3, <2>1 DEF Stripped, Request
  <2>3. /\ workerPc'[w] \in Holding
        /\ \A v \in Workers \ {w} :
             workerPc'[v] = workerPc[v] /\ inHand'[v] = inHand[v]
    BY <1>1, <1>2 DEF Holding
  <2>4. QED
    BY <2>2, <2>3 DEF InSlot
<1>7. Backlog' = RemoveAt(Backlog, k)
  BY <1>1, BacklogRemoves
<1>8. /\ OpenConns' = OpenConns /\ Reported' = Reported
      /\ FinishedConns' = FinishedConns
  <2>1. \A v \in Workers : /\ workerPc'[v] = "record" <=> workerPc[v] = "record"
                           /\ workerPc[v] = "record" => inHand'[v] = inHand[v]
    BY <1>1, <1>2
  <2>2. QED
    BY <1>2, <2>1, FinishedUnchanged DEF OpenConns, Connected, Reported
<1>9. QED
  BY <1>2, <1>3, <1>4, <1>5, <1>6, <1>7, <1>8
     DEF Contract!Pick, Contract!RemoveAt, RemoveAt

\* A slot whose worker stops serving becomes idle, the others stay.
LEMMA SlotFreed ==
  ASSUME Typed, NEW w \in Workers,
         NEW pc \in WorkerPcs \ Holding, workerPc' = [workerPc EXCEPT ![w] = pc],
         \A v \in Workers \ {w} : inHand'[v] = inHand[v]
  PROVE  InSlot' = [InSlot EXCEPT ![w] = Contract!Idle]
<1>1. /\ workerPc'[w] \notin Holding
      /\ \A v \in Workers \ {w} :
           workerPc'[v] = workerPc[v] /\ inHand'[v] = inHand[v]
  BY DEF Typed, TypeOK
<1>2. Stripped(NoRequest) = Contract!Idle
  BY DEF Stripped, NoRequest, Contract!Idle
<1>3. QED
  BY <1>1, <1>2 DEF InSlot

LEMMA FailsEnds ==
  ASSUME Typed, DescriptorInv, RefinementInv, NEW w \in Workers, ServeFails(w)
  PROVE  Contract!End(w)
<1>1. /\ workerPc[w] = "serving" /\ Serving(w)
      /\ owner' = [owner EXCEPT ![inHand[w].fd] = NoConn]
      /\ workerPc' = [workerPc EXCEPT ![w] = "lock"]
      /\ inHand' = [inHand EXCEPT ![w] = NoRequest]
      /\ UNCHANGED <<seen, schedulerQueue, completedRequests, metricsCsv>>
  BY DEF ServeFails, Closed, metricVars, Serving, Holding
<1>2. /\ w \in Contract!Busy /\ InSlot[w].conn = owner[inHand[w].fd]
      /\ owner[inHand[w].fd] # NoConn /\ inHand[w].fd \in Fds
  BY <1>1, SlotOf, HeldFds
<1>3. OpenConns' = OpenConns \ {InSlot[w].conn}
  BY <1>1, <1>2, ClosesOne DEF RefinementInv
<1>4. InSlot' = [InSlot EXCEPT ![w] = Contract!Idle]
  BY <1>1, SlotFreed DEF Typed, TypeOK, Holding, WorkerPcs
<1>5. FinishedConns' = FinishedConns
  BY <1>1, FinishedUnchanged DEF Typed, TypeOK
<1>6. Backlog' = Backlog /\ Reported' = Reported
  BY <1>1 DEF Backlog, Reported
<1>7. QED
  BY <1>1, <1>2, <1>3, <1>4, <1>5, <1>6 DEF Contract!End

LEMMA CompletesEnds ==
  ASSUME FilesStable, BodiesExact, Typed, DescriptorInv, RefinementInv,
         NEW w \in Workers, ServeCompletes(w)
  PROVE  Contract!End(w)
<1>1. /\ workerPc[w] = "serving" /\ Serving(w)
      /\ owner' = [owner EXCEPT ![inHand[w].fd] = NoConn]
      /\ workerPc' = [workerPc EXCEPT ![w] = "record"]
      /\ UNCHANGED <<inHand, seen, schedulerQueue, completedRequests, metricsCsv>>
  BY DEF ServeCompletes, Closed, metricVars, Serving, Holding
<1>2. /\ w \in Contract!Busy /\ InSlot[w].conn = owner[inHand[w].fd]
      /\ owner[inHand[w].fd] # NoConn /\ inHand[w].fd \in Fds
      /\ InSlot[w].conn = inHand[w].conn
  <2>1. /\ w \in Contract!Busy /\ InSlot[w].conn = owner[inHand[w].fd]
        /\ owner[inHand[w].fd] # NoConn /\ InSlot[w] = Stripped(inHand[w])
    BY <1>1, SlotOf
  <2>2. InSlot[w].conn = inHand[w].conn
    BY <2>1 DEF Stripped
  <2>3. QED
    BY <1>1, <2>1, <2>2, HeldFds
<1>3. OpenConns' = OpenConns \ {InSlot[w].conn}
  BY <1>1, <1>2, ClosesOne DEF RefinementInv
<1>4. InSlot' = [InSlot EXCEPT ![w] = Contract!Idle]
  BY <1>1, SlotFreed DEF Typed, TypeOK, Holding, WorkerPcs
<1>5. FinishedConns' = FinishedConns \cup {InSlot[w].conn}
  <2>1. \A v \in Workers :
          workerPc'[v] = "record" <=> workerPc[v] = "record" \/ v = w
    BY <1>1 DEF Typed, TypeOK
  <2>2. {inHand[v].conn : v \in {u \in Workers : workerPc'[u] = "record"}}
          = {inHand[v].conn : v \in {u \in Workers : workerPc[u] = "record"}}
              \cup {inHand[w].conn}
    BY <2>1
  <2>3. FinishedConns' =
          {completedRequests[i].conn : i \in DOMAIN completedRequests}
            \cup {inHand[v].conn : v \in {u \in Workers : workerPc'[u] = "record"}}
    BY <1>1 DEF FinishedConns
  <2>4. QED
    BY <1>2, <2>2, <2>3 DEF FinishedConns
<1>6. Backlog' = Backlog /\ Reported' = Reported
  BY <1>1 DEF Backlog, Reported
<1>7. QED
  BY <1>1, <1>2, <1>3, <1>4, <1>5, <1>6 DEF Contract!End

LEMMA RequeuePreempts ==
  ASSUME Typed, Typed', DescriptorInv, RefinementInv, NEW w \in Workers,
         WorkerRequeues(w)
  PROVE  Contract!Preempt(w)
<1>1. /\ workerPc[w] = "requeue" /\ Serving(w)
      /\ schedulerQueue' = Append(schedulerQueue, inHand[w])
      /\ inHand' = [inHand EXCEPT ![w] = NoRequest]
      /\ workerPc' = [workerPc EXCEPT ![w] = "signal"]
      /\ UNCHANGED <<owner, seen, completedRequests, metricsCsv>>
  BY DEF WorkerRequeues, Enqueued, metricVars, kernelVars, Serving, Holding
<1>2. w \in Contract!Busy /\ InSlot[w] = Stripped(inHand[w])
  BY <1>1, SlotOf
<1>3. Policy \in {"rr", "drr"}
  BY <1>1 DEF RefinementInv, OnlyPreempted, Preemptive
<1>4. inHand[w] \in Request
  BY <1>1 DEF Typed, HandsFull, Serving
<1>5. Backlog' = Append(Backlog, InSlot[w])
  BY <1>1, <1>2, <1>4, BacklogAppends
<1>6. InSlot' = [InSlot EXCEPT ![w] = Contract!Idle]
  BY <1>1, SlotFreed DEF Typed, TypeOK, Holding, WorkerPcs
<1>7. FinishedConns' = FinishedConns
  BY <1>1, FinishedUnchanged DEF Typed, TypeOK
<1>8. OpenConns' = OpenConns /\ Reported' = Reported
  BY <1>1 DEF OpenConns, Connected, Reported
<1>9. QED
  BY <1>1, <1>2, <1>3, <1>5, <1>6, <1>7, <1>8 DEF Contract!Preempt

\* Recording a finished request only moves it.
LEMMA RecordStutters ==
  ASSUME Typed, NEW w \in Workers, WorkerRecords(w)
  PROVE  Contract!vars' = Contract!vars
<1> DEFINE n == Len(completedRequests)
<1>1. /\ workerPc[w] = "record"
      /\ completedRequests' = Append(completedRequests, inHand[w])
      /\ inHand' = [inHand EXCEPT ![w] = NoRequest]
      /\ workerPc' = [workerPc EXCEPT ![w] = "lock"]
      /\ UNCHANGED <<owner, seen, schedulerQueue, metricsCsv>>
      /\ workerPc \in [Workers -> WorkerPcs]
      /\ inHand \in [Workers -> Request \cup {NoRequest}]
  BY DEF WorkerRecords, kernelVars, Typed, TypeOK
<1>2. InSlot' = InSlot
  BY <1>1, SlotsUnchanged DEF Holding
<1>3. FinishedConns' = FinishedConns
  <2>1. /\ completedRequests \in Seq(Request) /\ inHand[w] \in Request
    BY <1>1 DEF Typed, TypeOK, HandsFull
  <2>2. /\ n \in Nat /\ DOMAIN completedRequests = 1 .. n
        /\ DOMAIN completedRequests' = 1 .. n + 1
        /\ \A i \in 1 .. n : completedRequests'[i] = completedRequests[i]
        /\ completedRequests'[n + 1] = inHand[w]
    BY <1>1, <2>1, AppendElements
  <2> HIDE DEF n
  <2>3. \A i : i \in 1 .. n + 1 <=> i \in 1 .. n \/ i = n + 1
    BY <2>2
  <2>4. {completedRequests'[i].conn : i \in DOMAIN completedRequests'}
          = {completedRequests[i].conn : i \in DOMAIN completedRequests}
              \cup {inHand[w].conn}
    BY <2>2, <2>3
  <2>5. \A v \in Workers :
          /\ workerPc'[v] = "record" <=> workerPc[v] = "record" /\ v # w
          /\ v # w => inHand'[v] = inHand[v]
    BY <1>1
  <2>6. {inHand'[v].conn : v \in {u \in Workers : workerPc'[u] = "record"}}
              \cup {inHand[w].conn}
          = {inHand[v].conn : v \in {u \in Workers : workerPc[u] = "record"}}
    BY <1>1, <2>5
  <2>7. QED
    BY <2>4, <2>6 DEF FinishedConns
<1>4. OpenConns' = OpenConns /\ Backlog' = Backlog /\ Reported' = Reported
  BY <1>1 DEF OpenConns, Connected, Backlog, Reported
<1>5. QED
  BY <1>1, <1>2, <1>3, <1>4 DEF Contract!vars

LEMMA MetricsReport ==
  ASSUME RefinementInv, WriteMetrics
  PROVE  Contract!Report
<1>1. /\ mainPc = "report" /\ metricsCsv' = completedRequests
      /\ UNCHANGED <<owner, seen, schedulerQueue, workerPc, inHand,
                     completedRequests>>
  BY DEF WriteMetrics, workerVars, kernelVars
<1>2. metricsCsv = <<>> /\ \A w \in Workers : workerPc[w] = "exited"
  BY <1>1 DEF RefinementInv, WrittenLast
<1>3. Contract!Busy = {}
  BY <1>2 DEF Contract!Busy, Contract!Idle, InSlot, Stripped, NoRequest, Holding
<1>4. Reported = {}
  BY <1>2 DEF Reported
<1>5. Reported' = FinishedConns
  BY <1>1, <1>2 DEF Reported, FinishedConns
<1>6. OpenConns' = OpenConns /\ Backlog' = Backlog
  BY <1>1 DEF OpenConns, Connected, Backlog
<1>7. InSlot' = InSlot /\ FinishedConns' = FinishedConns
  BY <1>1, SlotsUnchanged, FinishedUnchanged
<1>8. QED
  BY <1>1, <1>3, <1>4, <1>5, <1>6, <1>7 DEF Contract!Report

-----------------------------------------------------------------------------
LEMMA InitRefines == Init => Contract!Init
<1> SUFFICES ASSUME Init PROVE Contract!Init
  OBVIOUS
<1>1. seen = {} /\ OpenConns = {}
  BY ServerAssumption DEF Init, OpenConns, Connected
<1>2. Backlog = <<>>
  <2>1. BacklogShape /\ schedulerQueue = <<>>
    BY InitTyped, BacklogType DEF Init
  <2>2. QED
    BY <2>1, EmptySeq DEF BacklogShape
<1>3. InSlot = [w \in Workers |-> Contract!Idle]
  BY DEF Init, InSlot, Holding, Stripped, NoRequest, Contract!Idle
<1>4. FinishedConns = {} /\ Reported = {}
  BY DEF Init, FinishedConns, Reported
<1>5. QED
  BY <1>1, <1>2, <1>3, <1>4 DEF Contract!Init

LEMMA StepRefines ==
  ASSUME FilesStable, BodiesExact, Typed, Typed', DescriptorInv, RefinementInv,
         [Next]_vars
  PROVE  [Contract!Next]_(Contract!vars)
<1> USE DEF envVars, mainVars, parserVars, workerVars, metricVars, kernelVars,
            history
<1>0. /\ workerPc \in [Workers -> WorkerPcs]
      /\ owner \in [Fds -> Conns \cup {NoConn}]
  BY DEF Typed, TypeOK
<1>1. CASE MainStep /\ ~WriteMetrics
  <2>1. /\ UNCHANGED <<seen, owner, schedulerQueue, metricsCsv, inHand,
                       completedRequests>>
        /\ \A w \in Workers :
             \/ workerPc'[w] = workerPc[w]
             \/ workerPc'[w] = "lock" /\ workerPc[w] = "waiting"
    BY <1>0, <1>1
       DEF MainStep, EnterAccept, AcceptFails, EnqueueConnection,
           SignalConnection, CheckShutdown, WakeParserForShutdown,
           JoinParser, BroadcastWorkers, WakeAll, JoinWorkers
  <2>2. QED
    BY <2>1, Stutters DEF Holding
<1>2. CASE WriteMetrics
  BY <1>2, MetricsReport DEF Contract!Next
<1>3. CASE ParserTakes \/ ParserFindsNone \/ ParserWaits
  BY <1>3, Stutters DEF ParserTakes, ParserFindsNone, ParserWaits
<1>4. CASE ParserAnswers
  <2>1. owner[parserFd] \in Conns
    BY <1>4, InServiceHolds
       DEF ParserAnswers, Typed, HandsFull, RefinementInv, OpenConns
  <2>2. QED
    BY <1>4, <2>1, AnswersRefine DEF Contract!Next
<1>5. CASE ParserAdmits
  <2>1. owner[parserFd] \in Conns
    BY <1>5, InServiceHolds
       DEF ParserAdmits, Typed, HandsFull, RefinementInv, OpenConns
  <2>2. QED
    BY <1>5, <2>1, AdmitsRefine DEF Contract!Next
<1>6. CASE ParserSignals
  <2>1. \A w \in Workers :
          \/ workerPc'[w] = workerPc[w]
          \/ workerPc'[w] = "lock" /\ workerPc[w] = "waiting"
    BY <1>0, <1>6 DEF ParserSignals, WakeOneWorker
  <2>2. QED
    BY <1>6, <2>1, Stutters DEF ParserSignals, Holding
<1>7. ASSUME NEW w \in Workers, WorkerTakes(w) PROVE Contract!Next
  BY <1>7, TakesPicks DEF Contract!Next
<1>8. ASSUME NEW w \in Workers, ServeFails(w) PROVE Contract!Next
  BY <1>8, FailsEnds DEF Contract!Next
<1>9. ASSUME NEW w \in Workers, ServeCompletes(w) PROVE Contract!Next
  BY <1>9, CompletesEnds DEF Contract!Next
<1>10. ASSUME NEW w \in Workers, WorkerRequeues(w) PROVE Contract!Next
  BY <1>10, RequeuePreempts DEF Contract!Next
<1>11. ASSUME NEW w \in Workers, WorkerRecords(w)
       PROVE  Contract!vars' = Contract!vars
  BY <1>11, RecordStutters
<1>12. ASSUME NEW w \in Workers, ServeYields(w)
       PROVE  Contract!vars' = Contract!vars
  <2>1. UNCHANGED <<seen, owner, schedulerQueue, metricsCsv, inHand,
                    completedRequests>>
    BY <1>12 DEF ServeYields
  <2>2. \A v \in Workers : /\ workerPc'[v] \in Holding <=> workerPc[v] \in Holding
                           /\ workerPc'[v] = "record" <=> workerPc[v] = "record"
    BY <1>0, <1>12 DEF ServeYields, Holding
  <2>3. QED
    BY <2>1, <2>2, Stutters
<1>13. ASSUME NEW w \in Workers,
              WorkerFindsNone(w) \/ WorkerWaits(w) \/ WorkerSignals(w)
       PROVE  Contract!vars' = Contract!vars
  <2>1. UNCHANGED <<seen, owner, schedulerQueue, metricsCsv, inHand,
                    completedRequests>>
    BY <1>13 DEF WorkerFindsNone, WorkerWaits, WorkerSignals
  <2>2. \A v \in Workers : /\ workerPc'[v] \in Holding <=> workerPc[v] \in Holding
                           /\ workerPc'[v] = "record" <=> workerPc[v] = "record"
    BY <1>0, <1>13 DEF WorkerFindsNone, LeaveOrWait, WorkerWaits, WorkerSignals,
                       WakeOneWorker, Holding
  <2>3. QED
    BY <2>1, <2>2, Stutters
<1>14. ASSUME NEW c \in Conns, Accept(c) PROVE Contract!Next
  BY <1>14, AcceptArrives DEF Contract!Next
<1>15. CASE Signal \/ SpuriousWakeup
  <2>1. \A w \in Workers :
          \/ workerPc'[w] = workerPc[w]
          \/ workerPc'[w] = "lock" /\ workerPc[w] = "waiting"
    BY <1>0, <1>15 DEF Signal, SpuriousWakeup
  <2>2. UNCHANGED <<seen, owner, schedulerQueue, metricsCsv, inHand,
                    completedRequests>>
    BY <1>15 DEF Signal, SpuriousWakeup
  <2>3. QED
    BY <2>1, <2>2, Stutters DEF Holding
<1>16. CASE UNCHANGED vars
  BY <1>16, Stutters DEF vars
<1>17. QED
  BY <1>1, <1>2, <1>3, <1>4, <1>5, <1>6, <1>7, <1>8, <1>9, <1>10, <1>11, <1>12,
     <1>13, <1>14, <1>15, <1>16
     DEF Next, ParserStep, WorkerStep, Environment

\* Whatever the number of workers, connections and descriptors, the policy and
\* the interleaving, the threads do what ServiceContract allows.
THEOREM ContractImplemented ==
  ASSUME FilesStable, BodiesExact
  PROVE  Spec => ImplementsContract
<1>1. Typed /\ RefinementInv /\ [Next]_vars => RefinementInv'
  BY NextRefinementInv
<1>2. Spec => []RefinementInv
  BY <1>1, InitRefinementInv, AlwaysTyped, PTL DEF Spec
<1>3. Spec => []DescriptorInv
  BY AlwaysDescriptors
<1>4. /\ Typed /\ Typed' /\ DescriptorInv /\ RefinementInv /\ [Next]_vars
      => [Contract!Next]_(Contract!vars)
  BY StepRefines
<1>5. QED
  BY <1>2, <1>3, <1>4, InitRefines, AlwaysTyped, PTL
     DEF Spec, ImplementsContract, Contract!Spec
=============================================================================
