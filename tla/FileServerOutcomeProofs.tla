---------------------- MODULE FileServerOutcomeProofs ----------------------
(***************************************************************************)
(* Proofs about what becomes of FileServer's connections and requests: no  *)
(* connection is forgotten, the metrics have what was finished, and nobody *)
(* passes a request that waits but where the policy says so.               *)
(***************************************************************************)
EXTENDS FileServerProofs

-----------------------------------------------------------------------------
(* The inductive invariant behind NoDescriptorLeak.                        *)

Held(f) ==
  \/ mainFd = f \/ parserFd = f
  \/ \E i \in DOMAIN connectionQueue : connectionQueue[i] = f
  \/ \E j \in DOMAIN schedulerQueue : schedulerQueue[j].fd = f
  \/ \E w \in Workers : Serving(w) /\ inHand[w].fd = f

LeftOpen(f) ==
  /\ Policy \in Preemptive /\ ~(FilesStable /\ BodiesExact)
  /\ owner[f] \in FinishedConns

OpenIsHeld == \A f \in Fds : owner[f] # NoConn => Held(f) \/ LeftOpen(f)

LeakInv == HandsEmpty /\ OpenIsHeld

\* What is finished stays finished.
LEMMA FinishedGrows ==
  ASSUME Typed, [Next]_vars
  PROVE  FinishedConns \subseteq FinishedConns'
<1> USE DEF envVars, mainVars, parserVars, workerVars, metricVars, kernelVars,
            history
<1>0. workerPc \in [Workers -> WorkerPcs]
  BY DEF Typed, TypeOK
<1>1. ASSUME completedRequests' = completedRequests,
             \A v \in Workers : workerPc[v] = "record" =>
               workerPc'[v] = "record" /\ inHand'[v] = inHand[v]
      PROVE  FinishedConns \subseteq FinishedConns'
  BY <1>1 DEF FinishedConns
<1>2. CASE MainStep \/ ParserStep \/ Environment \/ UNCHANGED vars
  <2>1. completedRequests' = completedRequests /\ inHand' = inHand
    BY <1>2
       DEF vars, MainStep, EnterAccept, AcceptFails, EnqueueConnection,
           SignalConnection, CheckShutdown, WakeParserForShutdown, JoinParser,
           BroadcastWorkers, JoinWorkers, WriteMetrics, ParserStep,
           ParserTakes, ParserFindsNone, ParserWaits, ParserAnswers,
           ParserAdmits, ParserSignals, Environment, Accept, Signal,
           SpuriousWakeup
  <2>2. \A v \in Workers : \/ workerPc'[v] = workerPc[v]
                           \/ workerPc[v] = "waiting"
    BY <1>0, <1>2
       DEF vars, MainStep, EnterAccept, AcceptFails, EnqueueConnection,
           SignalConnection, CheckShutdown, WakeParserForShutdown, JoinParser,
           BroadcastWorkers, WakeAll, JoinWorkers, WriteMetrics, ParserStep,
           ParserTakes, ParserFindsNone, ParserWaits, ParserAnswers,
           ParserAdmits, ParserSignals, WakeOneWorker, Environment, Accept,
           Signal, SpuriousWakeup
  <2>3. QED
    BY <1>1, <2>1, <2>2
<1>3. ASSUME NEW w \in Workers, WorkerStep(w), ~WorkerRecords(w)
      PROVE  FinishedConns \subseteq FinishedConns'
  <2>1. /\ completedRequests' = completedRequests
        /\ workerPc[w] # "record"
        /\ \A v \in Workers \ {w} : inHand'[v] = inHand[v]
    BY <1>3
       DEF WorkerStep, WorkerTakes, WorkerFindsNone, WorkerWaits, ServeFails,
           ServeCompletes, ServeYields, WorkerRequeues, WorkerSignals, Typed,
           TypeOK
  <2>2. \A v \in Workers \ {w} :
          workerPc'[v] = workerPc[v] \/ workerPc[v] = "waiting"
    BY <1>0, <1>3
       DEF WorkerStep, WorkerTakes, WorkerFindsNone, WorkerWaits, ServeFails,
           ServeCompletes, ServeYields, WorkerRequeues, WorkerSignals,
           WakeOneWorker
  <2>3. QED
    BY <1>1, <2>1, <2>2
<1>4. ASSUME NEW w \in Workers, WorkerRecords(w)
      PROVE  FinishedConns \subseteq FinishedConns'
  <2>1. /\ completedRequests' = Append(completedRequests, inHand[w])
        /\ inHand' = [inHand EXCEPT ![w] = NoRequest]
        /\ workerPc' = [workerPc EXCEPT ![w] = "lock"]
        /\ inHand[w] \in Request /\ completedRequests \in Seq(Request)
    BY <1>4 DEF WorkerRecords, Typed, TypeOK, HandsFull
  <2> DEFINE n == Len(completedRequests)
  <2>2. /\ n \in Nat /\ DOMAIN completedRequests = 1 .. n
        /\ DOMAIN completedRequests' = 1 .. n + 1
        /\ \A i \in 1 .. n : completedRequests'[i] = completedRequests[i]
        /\ completedRequests'[n + 1] = inHand[w]
    BY <2>1, AppendElements
  <2> HIDE DEF n
  <2>3. /\ n + 1 \in 1 .. n + 1
        /\ \A i \in 1 .. n : i \in 1 .. n + 1
    BY <2>2
  <2>4. ASSUME NEW i \in DOMAIN completedRequests
        PROVE  completedRequests[i].conn \in FinishedConns'
    BY <2>2, <2>3 DEF FinishedConns
  <2>5. ASSUME NEW v \in Workers, workerPc[v] = "record"
        PROVE  inHand[v].conn \in FinishedConns'
    <3>1. CASE v = w
      BY <2>2, <2>3, <3>1 DEF FinishedConns
    <3>2. CASE v # w
      <4>1. workerPc'[v] = "record" /\ inHand'[v] = inHand[v]
        BY <1>0, <2>1, <2>5, <3>2 DEF Typed, TypeOK
      <4>2. QED
        BY <4>1 DEF FinishedConns
    <3>3. QED
      BY <3>1, <3>2
  <2>6. QED
    BY <2>4, <2>5 DEF FinishedConns
<1>5. QED
  BY <1>2, <1>3, <1>4 DEF Next

LEMMA NextHandsEmpty ==
  ASSUME HandsEmpty, [Next]_vars
  PROVE  HandsEmpty'
<1> USE DEF envVars, mainVars, parserVars, workerVars, metricVars, kernelVars,
            history, HandsEmpty
<1>1. CASE MainStep
  BY <1>1 DEF MainStep, EnterAccept, AcceptFails, EnqueueConnection,
     SignalConnection, CheckShutdown, WakeParserForShutdown, WakeParser,
     JoinParser, BroadcastWorkers, JoinWorkers, WriteMetrics
<1>2. CASE ParserStep
  BY <1>2 DEF ParserStep, ParserTakes, ParserFindsNone, LeaveOrWait,
     ParserWaits, ParserAnswers, ParserAdmits, ParserSignals
<1>3. CASE \E w \in Workers : WorkerStep(w)
  BY <1>3 DEF WorkerStep, WorkerTakes, WorkerFindsNone, WorkerWaits,
     ServeFails, ServeCompletes, ServeYields, WorkerRequeues, WorkerSignals,
     WorkerRecords
<1>4. CASE Environment
  BY <1>4 DEF Environment, Accept, Signal, SpuriousWakeup
<1>5. CASE UNCHANGED vars
  BY <1>5 DEF vars
<1>6. QED
  BY <1>1, <1>2, <1>3, <1>4, <1>5 DEF Next

\* The steps that pass no descriptor on.
LEMMA HeldUntouched ==
  ASSUME NEW f, Held(f),
         UNCHANGED <<mainFd, connectionQueue, parserFd, schedulerQueue>>,
         \A w \in Workers : Serving(w) => Serving(w)' /\ inHand'[w] = inHand[w]
  PROVE  Held(f)'
BY DEF Held

\* The others hand what they hold to the next, or close it.
LEMMA ListenerPassesOn ==
  ASSUME Typed, EnqueueConnection, NEW f \in Fds, Held(f)
  PROVE  Held(f)'
<1> DEFINE n == Len(connectionQueue)
<1>1. /\ connectionQueue' = Append(connectionQueue, mainFd) /\ mainFd \in Fds
      /\ UNCHANGED <<parserFd, schedulerQueue, workerPc, inHand>>
  BY DEF EnqueueConnection, parserVars, workerVars, Typed, HandsFull
<1>2. /\ n \in Nat /\ DOMAIN connectionQueue = 1 .. n
      /\ DOMAIN connectionQueue' = 1 .. n + 1
      /\ \A i \in 1 .. n : connectionQueue'[i] = connectionQueue[i]
      /\ connectionQueue'[n + 1] = mainFd
  <2>1. connectionQueue \in Seq(Fds)
    BY DEF Typed, TypeOK
  <2>2. QED
    BY <1>1, <2>1, AppendElements
<1> HIDE DEF n
<1>3. n + 1 \in 1 .. n + 1 /\ \A i \in 1 .. n : i \in 1 .. n + 1
  BY <1>2
<1>4. QED
  BY <1>1, <1>2, <1>3 DEF Held, Serving

LEMMA ParserGetsHead ==
  ASSUME Typed, HandsEmpty, ParserTakes, NEW f \in Fds, Held(f)
  PROVE  Held(f)'
<1> DEFINE n == Len(connectionQueue)
<1>1. /\ connectionQueue # <<>> /\ connectionQueue \in Seq(Fds)
      /\ parserFd' = Head(connectionQueue)
      /\ connectionQueue' = Tail(connectionQueue)
      /\ UNCHANGED <<mainFd, schedulerQueue, workerPc, inHand>>
      /\ parserFd = NoFd /\ NoFd \notin Fds
  BY HeldFds DEF ParserTakes, mainVars, workerVars, Typed, TypeOK, HandsEmpty
<1>2. /\ n \in Nat /\ n >= 1 /\ DOMAIN connectionQueue = 1 .. n
      /\ DOMAIN connectionQueue' = 1 .. n - 1
      /\ \A i \in 1 .. n - 1 : connectionQueue'[i] = connectionQueue[i + 1]
      /\ parserFd' = connectionQueue[1]
  BY <1>1, HeadTailProperties, LenProperties, EmptySeq
<1> HIDE DEF n
<1>3. \A i \in 1 .. n : i = 1 \/ \E j \in 1 .. n - 1 : i = j + 1
  <2>1. ASSUME NEW i \in 1 .. n, i # 1
        PROVE  i - 1 \in 1 .. n - 1 /\ i = (i - 1) + 1
    BY <1>2, <2>1
  <2>2. QED
    BY <2>1
<1>4. ASSUME NEW i \in DOMAIN connectionQueue, connectionQueue[i] = f
      PROVE  Held(f)'
  <2>1. CASE i = 1
    <3>1. parserFd' = f
      BY <1>2, <1>4, <2>1
    <3>2. QED
      BY <3>1 DEF Held
  <2>2. CASE i # 1
    <3>1. PICK j \in 1 .. n - 1 : i = j + 1
      BY <1>2, <1>3, <2>2
    <3>2. j \in DOMAIN connectionQueue' /\ connectionQueue'[j] = f
      BY <1>2, <1>4, <3>1
    <3>3. QED
      BY <3>2 DEF Held
  <2>3. QED
    BY <2>1, <2>2
<1>5. CASE \E i \in DOMAIN connectionQueue : connectionQueue[i] = f
  BY <1>4, <1>5
<1>6. CASE ~\E i \in DOMAIN connectionQueue : connectionQueue[i] = f
  <2>1. UNCHANGED <<mainFd, schedulerQueue, workerPc, inHand>> /\ parserFd # f
    BY <1>1
  <2>2. \A w \in Workers : Serving(w)' <=> Serving(w)
    BY <2>1 DEF Serving
  <2>3. QED
    BY <1>6, <2>1, <2>2 DEF Held
<1>7. QED
  BY <1>5, <1>6

LEMMA ParserPassesOn ==
  ASSUME Typed, ParserAdmits, NEW f \in Fds, Held(f)
  PROVE  Held(f)'
<1> DEFINE n == Len(schedulerQueue)
<1>1. PICK t \in Totals : schedulerQueue' = Append(schedulerQueue,
         [id |-> nextRequestId, fd |-> parserFd, conn |-> owner[parserFd],
          total |-> t, rounds |-> 0])
  BY DEF ParserAdmits, Enqueued
<1> DEFINE r == [id |-> nextRequestId, fd |-> parserFd, conn |-> owner[parserFd],
                 total |-> t, rounds |-> 0]
<1>2. /\ parserFd \in Fds
      /\ UNCHANGED <<mainFd, connectionQueue, workerPc, inHand>>
  BY DEF ParserAdmits, mainVars, workerVars, Typed, HandsFull
<1>3. r \in Request
  BY <1>2, ServerAssumption DEF Typed, TypeOK, Request
<1>4. r.fd = parserFd
  OBVIOUS
<1> HIDE DEF r
<1>5. /\ n \in Nat /\ DOMAIN schedulerQueue = 1 .. n
      /\ DOMAIN schedulerQueue' = 1 .. n + 1
      /\ \A j \in 1 .. n : schedulerQueue'[j] = schedulerQueue[j]
      /\ schedulerQueue'[n + 1] = r
  <2>1. schedulerQueue \in Seq(Request)
    BY DEF Typed, TypeOK
  <2>2. QED
    BY <1>1, <1>3, <2>1, AppendElements DEF r
<1> HIDE DEF n
<1>6. n + 1 \in 1 .. n + 1 /\ \A i \in 1 .. n : i \in 1 .. n + 1
  BY <1>5
<1>7. QED
  BY <1>2, <1>4, <1>5, <1>6 DEF Held, Serving

LEMMA WorkerGetsPicked ==
  ASSUME Typed, NEW w \in Workers, WorkerTakes(w), NEW f \in Fds, Held(f)
  PROVE  Held(f)'
<1> DEFINE n == Len(schedulerQueue)
<1>1. PICK k \in DOMAIN schedulerQueue :
        /\ schedulerQueue' = RemoveAt(schedulerQueue, k)
        /\ inHand' = [inHand EXCEPT ![w] =
                        [schedulerQueue[k] EXCEPT !.rounds = @ + 1]]
  BY DEF WorkerTakes
<1>2. /\ workerPc[w] = "lock" /\ workerPc' = [workerPc EXCEPT ![w] = "serving"]
      /\ UNCHANGED <<mainFd, connectionQueue, parserFd>>
      /\ workerPc \in [Workers -> WorkerPcs]
      /\ inHand \in [Workers -> Request \cup {NoRequest}]
  BY DEF WorkerTakes, mainVars, parserVars, Typed, TypeOK
<1>3. /\ n \in Nat /\ DOMAIN schedulerQueue = 1 .. n
      /\ DOMAIN schedulerQueue' = 1 .. n - 1
      /\ \A i \in 1 .. n - 1 :
           schedulerQueue'[i] = schedulerQueue[IF i < k THEN i ELSE i + 1]
  <2>1. schedulerQueue \in Seq(Request)
    BY DEF Typed, TypeOK
  <2>2. QED
    BY <1>1, <2>1, OneRemoved
<1>4. schedulerQueue[k] \in Request
  BY Elements
<1>5. /\ inHand'[w].fd = schedulerQueue[k].fd /\ Serving(w)'
      /\ \A v \in Workers : Serving(v) => Serving(v)' /\ inHand'[v] = inHand[v]
  BY <1>1, <1>2, <1>4 DEF Request, Serving, Holding
<1> HIDE DEF n
<1>6. ASSUME NEW j \in DOMAIN schedulerQueue, schedulerQueue[j].fd = f
      PROVE  Held(f)'
  <2>1. CASE j = k
    BY <1>5, <1>6, <2>1 DEF Held
  <2>2. CASE j < k
    <3>1. j \in 1 .. n - 1
      BY <1>3, <2>2
    <3>2. schedulerQueue'[j] = schedulerQueue[j]
      BY <1>3, <2>2, <3>1
    <3>3. QED
      BY <1>3, <1>6, <3>1, <3>2 DEF Held
  <2>3. CASE k < j
    <3>1. j - 1 \in 1 .. n - 1 /\ ~(j - 1 < k) /\ (j - 1) + 1 = j
      BY <1>3, <2>3
    <3>2. schedulerQueue'[j - 1] = schedulerQueue[j]
      BY <1>3, <3>1
    <3>3. QED
      BY <1>3, <1>6, <3>1, <3>2 DEF Held
  <2>4. QED
    BY <1>3, <2>1, <2>2, <2>3
<1>7. QED
  BY <1>2, <1>5, <1>6 DEF Held

LEMMA WorkerPassesOn ==
  ASSUME Typed, NEW w \in Workers, WorkerRequeues(w), NEW f \in Fds, Held(f)
  PROVE  Held(f)'
<1> DEFINE n == Len(schedulerQueue)
<1>1. /\ workerPc[w] = "requeue"
      /\ schedulerQueue' = Append(schedulerQueue, inHand[w])
      /\ inHand' = [inHand EXCEPT ![w] = NoRequest]
      /\ workerPc' = [workerPc EXCEPT ![w] = "signal"]
      /\ UNCHANGED <<mainFd, connectionQueue, parserFd>>
  BY DEF WorkerRequeues, Enqueued, mainVars, parserVars
<1>2. /\ inHand[w] \in Request
      /\ \A v \in Workers \ {w} : Serving(v) => Serving(v)' /\ inHand'[v] = inHand[v]
  BY <1>1 DEF Typed, TypeOK, HandsFull, Serving, Holding
<1>3. /\ n \in Nat /\ DOMAIN schedulerQueue = 1 .. n
      /\ DOMAIN schedulerQueue' = 1 .. n + 1
      /\ \A j \in 1 .. n : schedulerQueue'[j] = schedulerQueue[j]
      /\ schedulerQueue'[n + 1] = inHand[w]
  <2>1. schedulerQueue \in Seq(Request)
    BY DEF Typed, TypeOK
  <2>2. QED
    BY <1>1, <1>2, <2>1, AppendElements
<1> HIDE DEF n
<1>4. n + 1 \in 1 .. n + 1 /\ \A i \in 1 .. n : i \in 1 .. n + 1
  BY <1>3
<1>5. QED
  BY <1>1, <1>2, <1>3, <1>4 DEF Held

LEMMA CompletesClosesOrLeaves ==
  ASSUME Typed, Policy \in Preemptive => DescriptorInv,
         NEW w \in Workers, ServeCompletes(w),
         NEW f \in Fds, Held(f), owner'[f] # NoConn
  PROVE  Held(f)' \/ LeftOpen(f)'
<1>1. /\ workerPc[w] = "serving" /\ Serving(w)
      /\ workerPc' = [workerPc EXCEPT ![w] = "record"]
      /\ UNCHANGED <<mainFd, connectionQueue, parserFd, schedulerQueue, inHand>>
  BY DEF ServeCompletes, mainVars, parserVars, Serving, Holding
<1>2. \A v \in Workers \ {w} : Serving(v) => Serving(v)'
  BY <1>1 DEF Typed, TypeOK, Serving
<1>3. CASE inHand[w].fd # f
  BY <1>1, <1>2, <1>3 DEF Held
<1>4. CASE inHand[w].fd = f
  <2>1. owner' # Closed(f)
    BY DEF Closed, Typed, TypeOK
  <2>2. /\ Policy \in Preemptive /\ ~(FilesStable /\ BodiesExact)
        /\ owner' = owner
    BY <1>4, <2>1 DEF ServeCompletes
  <2>3. owner[f] = inHand[w].conn
    BY <1>1, <1>4, <2>2 DEF DescriptorInv, HeldIsOpen, Connection
  <2>4. workerPc'[w] = "record"
    BY <1>1 DEF Typed, TypeOK
  <2>5. inHand'[w].conn \in FinishedConns'
    BY <2>4 DEF FinishedConns
  <2>6. QED
    BY <1>1, <2>2, <2>3, <2>5 DEF LeftOpen
<1>5. QED
  BY <1>3, <1>4

LEMMA NextOpenIsHeld ==
  ASSUME Typed, Policy \in Preemptive => DescriptorInv, LeakInv, [Next]_vars
  PROVE  OpenIsHeld'
<1> USE DEF envVars, mainVars, parserVars, workerVars, metricVars, kernelVars,
            history
<1>0. /\ workerPc \in [Workers -> WorkerPcs]
      /\ owner \in [Fds -> Conns \cup {NoConn}]
  BY DEF Typed, TypeOK
<1> SUFFICES ASSUME NEW f \in Fds, owner'[f] # NoConn
             PROVE  Held(f)' \/ LeftOpen(f)'
  BY DEF OpenIsHeld
<1>1. ASSUME owner'[f] = owner[f], Held(f) => Held(f)' \/ LeftOpen(f)'
      PROVE  Held(f)' \/ LeftOpen(f)'
  <2>1. Held(f) \/ LeftOpen(f)
    BY <1>1 DEF LeakInv, OpenIsHeld
  <2>2. LeftOpen(f) => LeftOpen(f)'
    BY <1>1, FinishedGrows DEF LeftOpen
  <2>3. QED
    BY <1>1, <2>1, <2>2
<1>2. CASE MainStep /\ ~EnqueueConnection
  <2>1. /\ UNCHANGED <<mainFd, connectionQueue, parserFd, schedulerQueue, owner,
                       inHand>>
        /\ \A w \in Workers : \/ workerPc'[w] = workerPc[w]
                              \/ workerPc[w] = "waiting"
    BY <1>0, <1>2
       DEF MainStep, EnterAccept, AcceptFails, EnqueueConnection,
           SignalConnection, CheckShutdown, WakeParserForShutdown, JoinParser,
           BroadcastWorkers, WakeAll, JoinWorkers, WriteMetrics
  <2>2. QED
    BY <1>1, <2>1, HeldUntouched DEF Serving, Holding
<1>3. CASE EnqueueConnection
  BY <1>1, <1>3, ListenerPassesOn DEF EnqueueConnection
<1>4. CASE ParserTakes
  BY <1>1, <1>4, ParserGetsHead DEF ParserTakes, LeakInv
<1>5. CASE ParserAnswers
  <2>1. f # parserFd /\ owner'[f] = owner[f]
    BY <1>0, <1>5 DEF ParserAnswers, Closed
  <2>2. UNCHANGED <<mainFd, connectionQueue, schedulerQueue, workerPc, inHand>>
    BY <1>5 DEF ParserAnswers
  <2>3. QED
    BY <1>1, <2>1, <2>2 DEF Held, Serving
<1>6. CASE ParserAdmits
  BY <1>1, <1>6, ParserPassesOn DEF ParserAdmits
<1>7. CASE ParserFindsNone \/ ParserWaits \/ ParserSignals
  <2>1. /\ UNCHANGED <<mainFd, connectionQueue, parserFd, schedulerQueue, owner,
                       inHand>>
        /\ \A w \in Workers : \/ workerPc'[w] = workerPc[w]
                              \/ workerPc[w] = "waiting"
    BY <1>0, <1>7 DEF ParserFindsNone, ParserWaits, ParserSignals, WakeOneWorker
  <2>2. QED
    BY <1>1, <2>1, HeldUntouched DEF Serving, Holding
<1>8. ASSUME NEW w \in Workers, WorkerTakes(w) PROVE Held(f)' \/ LeftOpen(f)'
  BY <1>1, <1>8, WorkerGetsPicked DEF WorkerTakes
<1>9. ASSUME NEW w \in Workers, ServeFails(w) PROVE Held(f)' \/ LeftOpen(f)'
  <2>1. f # inHand[w].fd /\ owner'[f] = owner[f]
    BY <1>0, <1>9 DEF ServeFails, Closed
  <2>2. /\ UNCHANGED <<mainFd, connectionQueue, parserFd, schedulerQueue>>
        /\ \A v \in Workers \ {w} :
             Serving(v) => Serving(v)' /\ inHand'[v] = inHand[v]
    BY <1>0, <1>9 DEF ServeFails, Serving, Typed, TypeOK
  <2>3. QED
    BY <1>1, <2>1, <2>2 DEF Held
<1>10. ASSUME NEW w \in Workers, ServeCompletes(w)
       PROVE  Held(f)' \/ LeftOpen(f)'
  <2>1. owner'[f] = owner[f]
    BY <1>0, <1>10 DEF ServeCompletes, Closed
  <2>2. QED
    BY <1>1, <1>10, <2>1, CompletesClosesOrLeaves
<1>11. ASSUME NEW w \in Workers, WorkerRequeues(w)
       PROVE  Held(f)' \/ LeftOpen(f)'
  BY <1>1, <1>11, WorkerPassesOn DEF WorkerRequeues
<1>12. ASSUME NEW w \in Workers,
              \/ ServeYields(w) \/ WorkerFindsNone(w) \/ WorkerWaits(w)
              \/ WorkerSignals(w) \/ WorkerRecords(w)
       PROVE  Held(f)' \/ LeftOpen(f)'
  <2>1. UNCHANGED <<mainFd, connectionQueue, parserFd, schedulerQueue>>
    BY <1>12 DEF ServeYields, WorkerFindsNone, WorkerWaits, WorkerSignals,
                 WorkerRecords
  <2>2. owner'[f] = owner[f]
    BY <1>0, <1>12 DEF ServeYields, WorkerFindsNone, WorkerWaits, WorkerSignals,
                       WorkerRecords, Closed
  <2>3. \A v \in Workers : Serving(v) => Serving(v)' /\ inHand'[v] = inHand[v]
    BY <1>0, <1>12 DEF ServeYields, WorkerFindsNone, WorkerWaits, WorkerSignals,
                       WakeOneWorker, WorkerRecords, Serving, Holding, Typed,
                       TypeOK
  <2>4. QED
    BY <1>1, <2>1, <2>2, <2>3, HeldUntouched
<1>13. ASSUME NEW c \in Conns, Accept(c) PROVE Held(f)' \/ LeftOpen(f)'
  <2>1. /\ UNCHANGED <<connectionQueue, parserFd, schedulerQueue, workerPc, inHand>>
        /\ mainFd = NoFd
    BY <1>13 DEF Accept, LeakInv, HandsEmpty
  <2>2. CASE UNCHANGED <<owner, mainFd>>
    BY <1>1, <2>1, <2>2, HeldUntouched DEF Serving
  <2>3. ASSUME NEW g \in Fds, owner' = [owner EXCEPT ![g] = c], mainFd' = g
        PROVE  Held(f)' \/ LeftOpen(f)'
    <3>1. CASE f = g
      BY <2>3, <3>1 DEF Held
    <3>2. CASE f # g
      <4>1. owner'[f] = owner[f] /\ mainFd # f
        BY <1>0, <2>1, <2>3, <3>2, HeldFds
      <4>2. QED
        BY <1>1, <2>1, <4>1 DEF Held, Serving
    <3>3. QED
      BY <3>1, <3>2
  <2>4. QED
    BY <1>13, <2>2, <2>3 DEF Accept, LowestFree, FreeFds
<1>14. CASE Signal \/ SpuriousWakeup \/ UNCHANGED vars
  <2>1. /\ UNCHANGED <<mainFd, connectionQueue, parserFd, schedulerQueue, owner,
                       inHand>>
        /\ \A w \in Workers : \/ workerPc'[w] = workerPc[w]
                              \/ workerPc[w] = "waiting"
    BY <1>0, <1>14 DEF Signal, SpuriousWakeup, vars
  <2>2. QED
    BY <1>1, <2>1, HeldUntouched DEF Serving, Holding
<1>15. QED
  BY <1>2, <1>3, <1>4, <1>5, <1>6, <1>7, <1>8, <1>9, <1>10, <1>11, <1>12, <1>13,
     <1>14
     DEF Next, MainStep, ParserStep, WorkerStep, Environment

LEMMA InitLeak == Init => LeakInv
BY DEF Init, LeakInv, HandsEmpty, OpenIsHeld

LEMMA LeakInvSuffices == Typed /\ LeakInv => NoDescriptorLeak
<1> SUFFICES ASSUME LeakInv, NEW f \in Fds, owner[f] # NoConn
             PROVE  Holders(f) # {} \/ LeftOpen(f)
  BY DEF NoDescriptorLeak, LeftOpen
<1>1. CASE LeftOpen(f)
  BY <1>1
<1>2. CASE Held(f)
  BY <1>2 DEF Held, Holders, Serving
<1>3. QED
  BY <1>1, <1>2 DEF LeakInv, OpenIsHeld

\* Under every policy, for any number of threads, a connection that is open is
\* in somebody's hands, except those rr and drr leave open behind a request
\* that moved more bytes than announced.
THEOREM NoLeak == Spec => []NoDescriptorLeak
<1>1. CASE Policy \in Preemptive
  <2>1. /\ Typed /\ DescriptorInv /\ LeakInv /\ [Next]_vars => LeakInv'
    BY NextOpenIsHeld, NextHandsEmpty DEF LeakInv
  <2>2. Spec => []DescriptorInv
    BY <1>1, AlwaysDescriptors
  <2>3. QED
    BY <2>1, <2>2, InitLeak, LeakInvSuffices, AlwaysTyped, PTL DEF Spec
<1>2. CASE Policy \notin Preemptive
  <2>1. Typed /\ LeakInv /\ [Next]_vars => LeakInv'
    BY <1>2, NextOpenIsHeld, NextHandsEmpty DEF LeakInv
  <2>2. QED
    BY <2>1, InitLeak, LeakInvSuffices, AlwaysTyped, PTL DEF Spec
<1>3. QED
  BY <1>1, <1>2

-----------------------------------------------------------------------------
(* The inductive invariant behind MetricsExact.                            *)

Busy(w) == workerPc[w] \in Holding \cup {"record"}

\* A request that is not over is in one place, and nowhere recorded.
IdsApart ==
  /\ \A i, j \in DOMAIN schedulerQueue :
       i # j => schedulerQueue[i].id # schedulerQueue[j].id
  /\ \A j \in DOMAIN schedulerQueue : \A w \in Workers :
       Serving(w) => schedulerQueue[j].id # inHand[w].id
  /\ \A v, w \in Workers : Busy(v) /\ Busy(w) /\ v # w =>
       inHand[v].id # inHand[w].id
  /\ \A i, j \in DOMAIN completedRequests :
       i # j => completedRequests[i].id # completedRequests[j].id
  /\ \A i \in DOMAIN completedRequests : \A w \in Workers :
       workerPc[w] = "record" => completedRequests[i].id # inHand[w].id

\* Where a request is says what became of it.
Has(id, outcome) == id \in DOMAIN fate /\ fate[id] = outcome

PlaceIsFate ==
  /\ Len(fate) + 1 = nextRequestId
  /\ \A j \in DOMAIN schedulerQueue : Has(schedulerQueue[j].id, "admitted")
  /\ \A w \in Workers : Serving(w) => Has(inHand[w].id, "admitted")
  /\ \A w \in Workers : workerPc[w] = "record" => Has(inHand[w].id, "finished")
  /\ \A i \in DOMAIN completedRequests : Has(completedRequests[i].id, "finished")

\* Nothing finished is lost before it is recorded.
FinishedIsKept ==
  \A n \in DOMAIN fate : fate[n] = "finished" =>
    \/ \E i \in DOMAIN completedRequests : completedRequests[i].id = n
    \/ \E w \in Workers : workerPc[w] = "record" /\ inHand[w].id = n

\* The file is written once, after the last worker has left.
WrittenLast ==
  /\ mainPc \in {"report", "exit"} => \A w \in Workers : workerPc[w] = "exited"
  /\ mainPc # "exit" => metricsCsv = <<>>
  /\ mainPc = "exit" => metricsCsv = completedRequests

MetricsInv == IdsApart /\ PlaceIsFate /\ FinishedIsKept /\ WrittenLast

LEMMA InitMetrics == Init => MetricsInv
<1> SUFFICES ASSUME Init PROVE MetricsInv
  OBVIOUS
<1>1. IdsApart /\ FinishedIsKept /\ WrittenLast
  BY DEF Init, IdsApart, FinishedIsKept, WrittenLast, Busy, Serving, Holding
<1>2. PlaceIsFate
  BY EmptySeq DEF Init, PlaceIsFate, Serving, Holding
<1>3. QED
  BY <1>1, <1>2 DEF MetricsInv

LEMMA MetricsInvSuffices == Typed /\ MetricsInv => MetricsExact
<1> SUFFICES ASSUME Typed, MetricsInv, mainPc = "exit"
             PROVE  /\ \A i, j \in DOMAIN metricsCsv :
                         metricsCsv[i].id = metricsCsv[j].id => i = j
                    /\ {metricsCsv[i].id : i \in DOMAIN metricsCsv} =
                         {i \in DOMAIN fate : fate[i] = "finished"}
  BY DEF MetricsExact
<1>1. /\ metricsCsv = completedRequests
      /\ \A w \in Workers : workerPc[w] # "record"
  BY DEF MetricsInv, WrittenLast
<1>2. \A i, j \in DOMAIN metricsCsv : metricsCsv[i].id = metricsCsv[j].id => i = j
  BY <1>1 DEF MetricsInv, IdsApart
<1>3. ASSUME NEW i \in DOMAIN metricsCsv
      PROVE  metricsCsv[i].id \in {n \in DOMAIN fate : fate[n] = "finished"}
  BY <1>1 DEF MetricsInv, PlaceIsFate, Has
<1>4. ASSUME NEW n \in DOMAIN fate, fate[n] = "finished"
      PROVE  n \in {metricsCsv[i].id : i \in DOMAIN metricsCsv}
  BY <1>1, <1>4 DEF MetricsInv, FinishedIsKept
<1>5. QED
  BY <1>2, <1>3, <1>4

\* The steps that neither move nor end a request.
LEMMA RequestsUntouched ==
  ASSUME MetricsInv, WrittenLast',
         UNCHANGED <<schedulerQueue, completedRequests, fate, nextRequestId>>,
         \A w \in Workers :
           /\ Serving(w)' <=> Serving(w)
           /\ workerPc'[w] = "record" <=> workerPc[w] = "record"
           /\ Busy(w) => inHand'[w] = inHand[w]
  PROVE  MetricsInv'
<1>1. \A w \in Workers : Busy(w)' <=> Busy(w)
  BY DEF Busy, Serving
<1>2. IdsApart'
  BY <1>1 DEF MetricsInv, IdsApart, Busy, Serving
<1>3. PlaceIsFate' /\ FinishedIsKept'
  BY DEF MetricsInv, PlaceIsFate, FinishedIsKept, Has, Busy, Serving
<1>4. QED
  BY <1>2, <1>3 DEF MetricsInv

LEMMA NextWrittenLast ==
  ASSUME Typed, WrittenLast, [Next]_vars
  PROVE  WrittenLast'
<1> USE DEF envVars, mainVars, parserVars, workerVars, metricVars, kernelVars,
            history
<1>0. workerPc \in [Workers -> WorkerPcs]
  BY DEF Typed, TypeOK
<1>1. CASE MainStep
  BY <1>0, <1>1
     DEF WrittenLast, MainStep, EnterAccept, AcceptFails,
         EnqueueConnection, SignalConnection, CheckShutdown,
         WakeParserForShutdown, JoinParser, BroadcastWorkers, WakeAll,
         JoinWorkers, WorkersJoinable, WriteMetrics
<1>2. CASE ParserStep
  BY <1>0, <1>2
     DEF WrittenLast, ParserStep, ParserTakes, ParserFindsNone, ParserWaits,
         ParserAnswers, ParserAdmits, ParserSignals, WakeOneWorker
<1>3. ASSUME NEW w \in Workers, WorkerStep(w) PROVE WrittenLast'
  <2>1. workerPc[w] # "exited" /\ UNCHANGED <<mainPc, metricsCsv>>
    BY <1>3 DEF WorkerStep, WorkerTakes, WorkerFindsNone, WorkerWaits,
                ServeFails, ServeCompletes, ServeYields, WorkerRequeues,
                WorkerSignals, WorkerRecords
  <2>2. QED
    BY <2>1 DEF WrittenLast
<1>4. CASE Environment
  BY <1>0, <1>4 DEF WrittenLast, Environment, Accept, Signal, SpuriousWakeup
<1>5. CASE UNCHANGED vars
  BY <1>5 DEF WrittenLast, vars
<1>6. QED
  BY <1>1, <1>2, <1>3, <1>4, <1>5 DEF Next

\* A new number is nobody else's.
LEMMA AdmitsMetrics ==
  ASSUME Typed, MetricsInv, WrittenLast', ParserAdmits
  PROVE  MetricsInv'
<1> DEFINE n == Len(schedulerQueue)
           m == Len(fate)
<1>1. PICK r \in Request : /\ schedulerQueue' = Append(schedulerQueue, r)
                           /\ r.id = nextRequestId
  <2>1. PICK t \in Totals : schedulerQueue' = Append(schedulerQueue,
           [id |-> nextRequestId, fd |-> parserFd, conn |-> owner[parserFd],
            total |-> t, rounds |-> 0])
    BY DEF ParserAdmits, Enqueued
  <2>2. [id |-> nextRequestId, fd |-> parserFd, conn |-> owner[parserFd],
         total |-> t, rounds |-> 0] \in Request
    BY ServerAssumption DEF ParserAdmits, Typed, TypeOK, HandsFull, Request
  <2>3. QED
    BY <2>1, <2>2
<1>2. /\ nextRequestId' = nextRequestId + 1 /\ nextRequestId \in Nat
      /\ fate' = Append(fate, "admitted")
      /\ UNCHANGED <<workerPc, inHand, completedRequests>>
  BY DEF ParserAdmits, workerVars, metricVars, Typed, TypeOK
<1>3. /\ n \in Nat /\ DOMAIN schedulerQueue = 1 .. n
      /\ DOMAIN schedulerQueue' = 1 .. n + 1
      /\ \A j \in 1 .. n : schedulerQueue'[j] = schedulerQueue[j]
      /\ schedulerQueue'[n + 1] = r
  <2>1. schedulerQueue \in Seq(Request)
    BY DEF Typed, TypeOK
  <2>2. QED
    BY <1>1, <2>1, AppendElements
<1>4. /\ m \in Nat /\ DOMAIN fate = 1 .. m
      /\ DOMAIN fate' = 1 .. m + 1 /\ Len(fate') = m + 1
      /\ \A i \in 1 .. m : fate'[i] = fate[i]
      /\ fate'[m + 1] = "admitted"
  <2>1. fate \in Seq({"admitted", "failed", "finished"})
    BY DEF Typed, TypeOK
  <2>2. Len(fate') = m + 1
    BY <1>2, <2>1, AppendProperties
  <2>3. QED
    BY <1>2, <2>1, <2>2, AppendElements
<1>5. r.id = m + 1
  BY <1>1 DEF MetricsInv, PlaceIsFate
<1> HIDE DEF n, m
<1>6. /\ \A j \in 1 .. n + 1 : j \in 1 .. n \/ j = n + 1
      /\ \A i \in 1 .. m + 1 : i \in 1 .. m \/ i = m + 1
      /\ m + 1 \in 1 .. m + 1 /\ m + 1 \notin 1 .. m
      /\ \A i \in 1 .. m : i \in 1 .. m + 1
  BY <1>3, <1>4
<1>7. \A i, outcome : Has(i, outcome) => Has(i, outcome)' /\ i # r.id
  BY <1>4, <1>5, <1>6 DEF Has
<1>8. Has(r.id, "admitted")'
  BY <1>4, <1>5, <1>6 DEF Has
<1>9. IdsApart'
  <2>1. /\ \A j \in DOMAIN schedulerQueue : schedulerQueue[j].id # r.id
        /\ \A w \in Workers : Serving(w) => inHand[w].id # r.id
    BY <1>7 DEF MetricsInv, PlaceIsFate
  <2>2. QED
    BY SMTT(30), <1>2, <1>3, <1>6, <2>1 DEF MetricsInv, IdsApart, Serving, Busy
<1>10. PlaceIsFate'
  <2>1. Len(fate') + 1 = nextRequestId'
    BY <1>2, <1>4 DEF MetricsInv, PlaceIsFate, m
  <2>2. \A j \in DOMAIN schedulerQueue' : Has(schedulerQueue[j].id, "admitted")'
    BY <1>3, <1>6, <1>7, <1>8 DEF MetricsInv, PlaceIsFate, Has
  <2>3. QED
    BY <1>2, <1>7, <2>1, <2>2 DEF MetricsInv, PlaceIsFate, Serving, Has
<1>11. FinishedIsKept'
  BY <1>2, <1>4, <1>6 DEF MetricsInv, FinishedIsKept
<1>12. QED
  BY <1>9, <1>10, <1>11 DEF MetricsInv

LEMMA TakesMetrics ==
  ASSUME Typed, MetricsInv, WrittenLast', NEW w \in Workers, WorkerTakes(w)
  PROVE  MetricsInv'
<1> DEFINE n == Len(schedulerQueue)
<1>1. PICK k \in DOMAIN schedulerQueue :
        /\ schedulerQueue' = RemoveAt(schedulerQueue, k)
        /\ inHand' = [inHand EXCEPT ![w] =
                        [schedulerQueue[k] EXCEPT !.rounds = @ + 1]]
  BY DEF WorkerTakes
<1> DEFINE r == schedulerQueue[k]
<1>2. /\ workerPc[w] = "lock" /\ workerPc' = [workerPc EXCEPT ![w] = "serving"]
      /\ UNCHANGED <<nextRequestId, completedRequests, fate>>
      /\ workerPc \in [Workers -> WorkerPcs]
      /\ inHand \in [Workers -> Request \cup {NoRequest}]
  BY DEF WorkerTakes, parserVars, metricVars, Typed, TypeOK
<1>3. /\ n \in Nat /\ DOMAIN schedulerQueue = 1 .. n
      /\ DOMAIN schedulerQueue' = 1 .. n - 1
      /\ \A i \in 1 .. n - 1 :
           schedulerQueue'[i] = schedulerQueue[IF i < k THEN i ELSE i + 1]
  <2>1. schedulerQueue \in Seq(Request)
    BY DEF Typed, TypeOK
  <2>2. QED
    BY <1>1, <2>1, OneRemoved
<1>4. r \in Request
  BY Elements
<1>5. /\ inHand'[w].id = r.id
      /\ \A v \in Workers \ {w} :
           /\ inHand'[v] = inHand[v]
           /\ Serving(v)' <=> Serving(v)
           /\ Busy(v)' <=> Busy(v)
           /\ workerPc'[v] = workerPc[v]
      /\ workerPc'[w] # "record" /\ workerPc[w] # "record"
  BY <1>1, <1>2, <1>4 DEF Request, Serving, Busy, Holding
<1> HIDE DEF n
<1>6. /\ k \in 1 .. n
      /\ \A i \in 1 .. n - 1 :
           \E j \in 1 .. n \ {k} : j = (IF i < k THEN i ELSE i + 1)
      /\ \A i, j \in 1 .. n - 1 : i # j =>
           (IF i < k THEN i ELSE i + 1) # (IF j < k THEN j ELSE j + 1)
  BY <1>3
<1>7. \A i \in 1 .. n - 1 : \E j \in 1 .. n \ {k} :
        schedulerQueue'[i] = schedulerQueue[j]
  BY <1>3, <1>6
<1>8. ASSUME NEW i \in 1 .. n - 1, NEW j \in 1 .. n - 1, i # j
      PROVE  schedulerQueue'[i].id # schedulerQueue'[j].id
  <2> DEFINE a == IF i < k THEN i ELSE i + 1
             b == IF j < k THEN j ELSE j + 1
  <2>1. a \in 1 .. n /\ b \in 1 .. n /\ a # b
    BY <1>6, <1>8
  <2>2. schedulerQueue'[i] = schedulerQueue[a] /\ schedulerQueue'[j] = schedulerQueue[b]
    BY <1>3
  <2> HIDE DEF a, b
  <2>3. QED
    BY <1>3, <2>1, <2>2 DEF MetricsInv, IdsApart
<1>9. Has(r.id, "admitted")
  BY <1>3, <1>6 DEF MetricsInv, PlaceIsFate
<1> HIDE DEF r
<1>10. IdsApart'
  <2>1. ASSUME NEW i \in 1 .. n - 1
        PROVE  /\ schedulerQueue'[i].id # r.id
               /\ \A v \in Workers :
                    Serving(v) => schedulerQueue'[i].id # inHand[v].id
    <3>1. PICK j \in 1 .. n \ {k} : schedulerQueue'[i] = schedulerQueue[j]
      BY <1>7
    <3>2. QED
      BY <1>3, <1>6, <3>1 DEF MetricsInv, IdsApart, r
  <2>2. \A v \in Workers \ {w} : Busy(v) => inHand[v].id # r.id
    <3>1. \A v \in Workers : Serving(v) => inHand[v].id # r.id
      BY <1>3, <1>6 DEF MetricsInv, IdsApart, r
    <3>2. \A v \in Workers : workerPc[v] = "record" => inHand[v].id # r.id
      BY <1>9 DEF MetricsInv, PlaceIsFate, Has
    <3>3. QED
      BY <3>1, <3>2 DEF Busy, Serving
  <2>3. \A i \in 1 .. n - 1, v \in Workers :
          Serving(v)' => schedulerQueue'[i].id # inHand'[v].id
    BY <1>5, <2>1
  <2>4. \A u, v \in Workers : Busy(u)' /\ Busy(v)' /\ u # v =>
          inHand'[u].id # inHand'[v].id
    BY <1>5, <2>2 DEF MetricsInv, IdsApart
  <2>5. QED
    BY <1>2, <1>3, <1>5, <1>8, <2>3, <2>4 DEF MetricsInv, IdsApart
<1>11. PlaceIsFate'
  <2>1. \A j \in DOMAIN schedulerQueue' : Has(schedulerQueue'[j].id, "admitted")
    BY <1>3, <1>7 DEF MetricsInv, PlaceIsFate
  <2>2. \A v \in Workers : Serving(v)' => Has(inHand'[v].id, "admitted")
    BY <1>5, <1>9 DEF MetricsInv, PlaceIsFate
  <2>3. \A v \in Workers : workerPc'[v] = "record" => Has(inHand'[v].id, "finished")
    BY <1>5 DEF MetricsInv, PlaceIsFate
  <2>4. QED
    BY <1>2, <2>1, <2>2, <2>3 DEF MetricsInv, PlaceIsFate, Has
<1>12. FinishedIsKept'
  BY <1>2, <1>5 DEF MetricsInv, FinishedIsKept
<1>13. QED
  BY <1>10, <1>11, <1>12 DEF MetricsInv

\* The end of a request changes its own fate and no other's.
LEMMA EndsMetrics ==
  ASSUME Typed, MetricsInv, WrittenLast', NEW w \in Workers,
         ServeFails(w) \/ ServeCompletes(w)
  PROVE  MetricsInv'
<1>1. /\ workerPc[w] = "serving" /\ Serving(w) /\ Busy(w)
      /\ UNCHANGED <<schedulerQueue, nextRequestId, completedRequests>>
      /\ workerPc \in [Workers -> WorkerPcs]
      /\ inHand \in [Workers -> Request \cup {NoRequest}]
      /\ fate \in Seq({"admitted", "failed", "finished"})
  BY DEF ServeFails, ServeCompletes, parserVars, metricVars, Serving, Busy,
         Holding, Typed, TypeOK
<1>2. PICK outcome \in {"failed", "finished"} :
        /\ fate' = [fate EXCEPT ![inHand[w].id] = outcome]
        /\ outcome = "failed" => workerPc' = [workerPc EXCEPT ![w] = "lock"]
        /\ outcome = "finished" =>
             workerPc' = [workerPc EXCEPT ![w] = "record"] /\ inHand' = inHand
        /\ \A v \in Workers \ {w} : inHand'[v] = inHand[v]
  BY <1>1 DEF ServeFails, ServeCompletes
<1>3. /\ ~Serving(w)'
      /\ workerPc'[w] = "record" <=> outcome = "finished"
      /\ Busy(w)' => inHand'[w] = inHand[w]
      /\ \A v \in Workers \ {w} :
           /\ workerPc'[v] = workerPc[v] /\ inHand'[v] = inHand[v]
           /\ Serving(v)' <=> Serving(v)
           /\ Busy(v)' <=> Busy(v)
  BY <1>1, <1>2 DEF Serving, Busy, Holding
<1> DEFINE id == inHand[w].id
<1>4. /\ DOMAIN fate' = DOMAIN fate /\ Len(fate') = Len(fate)
      /\ \A n \in DOMAIN fate : n # id => fate'[n] = fate[n]
      /\ id \in DOMAIN fate /\ fate[id] = "admitted" /\ fate'[id] = outcome
  <2>1. id \in DOMAIN fate /\ fate[id] = "admitted"
    BY <1>1 DEF MetricsInv, PlaceIsFate, Has
  <2>2. /\ DOMAIN fate' = DOMAIN fate
        /\ \A n \in DOMAIN fate : n # id => fate'[n] = fate[n]
        /\ fate'[id] = outcome
    BY <1>2, <2>1
  <2>3. fate' \in Seq({"admitted", "failed", "finished"})
    BY <1>1, <1>2, ExceptType
  <2>4. Len(fate') = Len(fate)
    BY <1>1, <2>2, <2>3, LenProperties
  <2>5. QED
    BY <2>1, <2>2, <2>4
<1> HIDE DEF id
<1>5. \A n, o : Has(n, o) /\ n # id => Has(n, o)'
  BY <1>4 DEF Has
<1>6. IdsApart'
  <2>1. \A j \in DOMAIN schedulerQueue, v \in Workers :
          Serving(v)' => schedulerQueue[j].id # inHand'[v].id
    BY <1>3 DEF MetricsInv, IdsApart
  <2>2. \A u, v \in Workers : Busy(u)' /\ Busy(v)' /\ u # v =>
          inHand'[u].id # inHand'[v].id
    BY <1>1, <1>3 DEF MetricsInv, IdsApart
  <2>3. \A i \in DOMAIN completedRequests, v \in Workers :
          workerPc'[v] = "record" => completedRequests[i].id # inHand'[v].id
    <3>1. \A i \in DOMAIN completedRequests : completedRequests[i].id # id
      BY <1>4 DEF MetricsInv, PlaceIsFate, Has
    <3>2. workerPc'[w] = "record" => inHand'[w].id = id
      BY <1>2, <1>3 DEF id
    <3>3. QED
      BY <1>3, <3>1, <3>2 DEF MetricsInv, IdsApart
  <2>4. QED
    BY <1>1, <2>1, <2>2, <2>3 DEF MetricsInv, IdsApart
<1>7. PlaceIsFate'
  <2>1. \A j \in DOMAIN schedulerQueue : Has(schedulerQueue[j].id, "admitted")'
    BY <1>1, <1>5 DEF MetricsInv, PlaceIsFate, Has, IdsApart, id
  <2>2. \A v \in Workers : Serving(v)' => Has(inHand[v].id, "admitted")'
    <3>1. \A v \in Workers \ {w} : Serving(v) => inHand[v].id # id
      BY <1>1 DEF MetricsInv, IdsApart, id, Busy, Serving
    <3>2. QED
      BY <1>3, <1>5, <3>1 DEF MetricsInv, PlaceIsFate, Has
  <2>3. \A v \in Workers : workerPc'[v] = "record" => Has(inHand[v].id, "finished")'
    <3>1. \A v \in Workers \ {w} :
            workerPc'[v] = "record" => Has(inHand[v].id, "finished")'
      <4>1. \A v \in Workers : workerPc[v] = "record" => inHand[v].id # id
        BY <1>4 DEF MetricsInv, PlaceIsFate, Has
      <4>2. QED
        BY <1>3, <1>5, <4>1 DEF MetricsInv, PlaceIsFate, Has
    <3>2. workerPc'[w] = "record" => Has(inHand[w].id, "finished")'
      BY <1>2, <1>3, <1>4 DEF Has, id
    <3>3. QED
      BY <3>1, <3>2
  <2>4. \A i \in DOMAIN completedRequests : Has(completedRequests[i].id, "finished")'
    <3>1. \A i \in DOMAIN completedRequests : completedRequests[i].id # id
      BY <1>4 DEF MetricsInv, PlaceIsFate, Has
    <3>2. QED
      BY <1>1, <1>5, <3>1 DEF MetricsInv, PlaceIsFate, Has
  <2>5. QED
    BY <1>1, <1>4, <2>1, <2>2, <2>3, <2>4 DEF MetricsInv, PlaceIsFate, Has
<1>8. FinishedIsKept'
  <2>1. ASSUME NEW n \in DOMAIN fate, fate'[n] = "finished", n # id
        PROVE  \/ \E i \in DOMAIN completedRequests : completedRequests[i].id = n
               \/ \E v \in Workers : workerPc'[v] = "record" /\ inHand'[v].id = n
    <3>1. fate[n] = "finished"
      BY <1>4, <2>1
    <3>2. \A v \in Workers : workerPc[v] = "record" =>
            workerPc'[v] = "record" /\ inHand'[v] = inHand[v]
      BY <1>1, <1>3
    <3>3. QED
      BY <3>1, <3>2 DEF MetricsInv, FinishedIsKept
  <2>2. ASSUME fate'[id] = "finished"
        PROVE  \E v \in Workers : workerPc'[v] = "record" /\ inHand'[v].id = id
    BY <1>2, <1>3, <1>4, <2>2 DEF id
  <2>3. QED
    BY <1>1, <1>4, <2>1, <2>2 DEF FinishedIsKept
<1>9. QED
  BY <1>6, <1>7, <1>8 DEF MetricsInv

LEMMA RequeueMetrics ==
  ASSUME Typed, MetricsInv, WrittenLast', NEW w \in Workers, WorkerRequeues(w)
  PROVE  MetricsInv'
<1> DEFINE n == Len(schedulerQueue)
<1>1. /\ workerPc[w] = "requeue" /\ Serving(w) /\ Busy(w)
      /\ schedulerQueue' = Append(schedulerQueue, inHand[w])
      /\ inHand' = [inHand EXCEPT ![w] = NoRequest]
      /\ workerPc' = [workerPc EXCEPT ![w] = "signal"]
      /\ UNCHANGED <<nextRequestId, completedRequests, fate>>
  BY DEF WorkerRequeues, Enqueued, parserVars, metricVars, Serving, Busy, Holding
<1>2. /\ inHand[w] \in Request
      /\ \A v \in Workers : Busy(v)' =>
           Busy(v) /\ v # w /\ inHand'[v] = inHand[v]
      /\ \A v \in Workers : Serving(v)' =>
           Serving(v) /\ v # w /\ inHand'[v] = inHand[v]
      /\ \A v \in Workers : workerPc'[v] = "record" <=> workerPc[v] = "record"
      /\ \A v \in Workers : workerPc[v] = "record" => inHand'[v] = inHand[v]
  BY <1>1 DEF Typed, TypeOK, HandsFull, Serving, Busy, Holding
<1>3. /\ n \in Nat /\ DOMAIN schedulerQueue = 1 .. n
      /\ DOMAIN schedulerQueue' = 1 .. n + 1
      /\ \A j \in 1 .. n : schedulerQueue'[j] = schedulerQueue[j]
      /\ schedulerQueue'[n + 1] = inHand[w]
  <2>1. schedulerQueue \in Seq(Request)
    BY DEF Typed, TypeOK
  <2>2. QED
    BY <1>1, <1>2, <2>1, AppendElements
<1> HIDE DEF n
<1>4. \A i \in 1 .. n + 1 : i \in 1 .. n \/ i = n + 1
  BY <1>3
<1>5. IdsApart'
  <2>1. \A i, j \in DOMAIN schedulerQueue' :
          i # j => schedulerQueue'[i].id # schedulerQueue'[j].id
    BY <1>1, <1>3, <1>4 DEF MetricsInv, IdsApart
  <2>2. \A j \in DOMAIN schedulerQueue', v \in Workers :
          Serving(v)' => schedulerQueue'[j].id # inHand'[v].id
    BY <1>1, <1>2, <1>3, <1>4 DEF MetricsInv, IdsApart, Busy, Serving
  <2>3. \A u, v \in Workers : Busy(u)' /\ Busy(v)' /\ u # v =>
          inHand'[u].id # inHand'[v].id
    BY <1>2 DEF MetricsInv, IdsApart
  <2>4. QED
    BY <1>1, <1>2, <2>1, <2>2, <2>3 DEF MetricsInv, IdsApart
<1>6. PlaceIsFate'
  <2>1. \A j \in DOMAIN schedulerQueue' : Has(schedulerQueue'[j].id, "admitted")
    BY <1>1, <1>3, <1>4 DEF MetricsInv, PlaceIsFate
  <2>2. QED
    BY <1>1, <1>2, <2>1 DEF MetricsInv, PlaceIsFate, Has
<1>7. FinishedIsKept'
  BY <1>1, <1>2 DEF MetricsInv, FinishedIsKept
<1>8. QED
  BY <1>5, <1>6, <1>7 DEF MetricsInv

LEMMA RecordMetrics ==
  ASSUME Typed, MetricsInv, WrittenLast', NEW w \in Workers, WorkerRecords(w)
  PROVE  MetricsInv'
<1> DEFINE n == Len(completedRequests)
<1>1. /\ workerPc[w] = "record" /\ Busy(w)
      /\ completedRequests' = Append(completedRequests, inHand[w])
      /\ inHand' = [inHand EXCEPT ![w] = NoRequest]
      /\ workerPc' = [workerPc EXCEPT ![w] = "lock"]
      /\ UNCHANGED <<nextRequestId, schedulerQueue, fate>>
  BY DEF WorkerRecords, parserVars, history, Busy
<1>2. /\ inHand[w] \in Request
      /\ \A v \in Workers : Busy(v)' =>
           Busy(v) /\ v # w /\ inHand'[v] = inHand[v]
      /\ \A v \in Workers : Serving(v)' => Serving(v) /\ inHand'[v] = inHand[v]
      /\ \A v \in Workers : workerPc'[v] = "record" <=>
           workerPc[v] = "record" /\ v # w
      /\ \A v \in Workers : v # w => inHand'[v] = inHand[v]
  <2>1. inHand[w] \in Request
    BY <1>1 DEF Typed, HandsFull
  <2>2. \A v \in Workers : v # w => workerPc'[v] = workerPc[v] /\ inHand'[v] = inHand[v]
    BY <1>1 DEF Typed, TypeOK
  <2>3. workerPc'[w] = "lock"
    BY <1>1 DEF Typed, TypeOK
  <2>4. QED
    BY <2>1, <2>2, <2>3 DEF Serving, Busy, Holding
<1>3. /\ n \in Nat /\ DOMAIN completedRequests = 1 .. n
      /\ DOMAIN completedRequests' = 1 .. n + 1
      /\ \A i \in 1 .. n : completedRequests'[i] = completedRequests[i]
      /\ completedRequests'[n + 1] = inHand[w]
  <2>1. completedRequests \in Seq(Request)
    BY DEF Typed, TypeOK
  <2>2. QED
    BY <1>1, <1>2, <2>1, AppendElements
<1> HIDE DEF n
<1>4. /\ \A i \in 1 .. n + 1 : i \in 1 .. n \/ i = n + 1
      /\ n + 1 \in 1 .. n + 1 /\ \A i \in 1 .. n : i \in 1 .. n + 1
  BY <1>3
<1>5. IdsApart'
  <2>1. \A i, j \in DOMAIN completedRequests' :
          i # j => completedRequests'[i].id # completedRequests'[j].id
    BY <1>1, <1>3, <1>4 DEF MetricsInv, IdsApart
  <2>2. \A i \in DOMAIN completedRequests', v \in Workers :
          workerPc'[v] = "record" => completedRequests'[i].id # inHand'[v].id
    BY <1>1, <1>2, <1>3, <1>4 DEF MetricsInv, IdsApart, Busy
  <2>3. \A u, v \in Workers : Busy(u)' /\ Busy(v)' /\ u # v =>
          inHand'[u].id # inHand'[v].id
    BY <1>2 DEF MetricsInv, IdsApart
  <2>4. \A j \in DOMAIN schedulerQueue', v \in Workers :
          Serving(v)' => schedulerQueue'[j].id # inHand'[v].id
    BY <1>1, <1>2 DEF MetricsInv, IdsApart
  <2>5. QED
    BY <1>1, <2>1, <2>2, <2>3, <2>4 DEF MetricsInv, IdsApart
<1>6. PlaceIsFate'
  <2>1. \A i \in DOMAIN completedRequests' :
          Has(completedRequests'[i].id, "finished")
    BY <1>1, <1>3, <1>4 DEF MetricsInv, PlaceIsFate
  <2>2. QED
    BY <1>1, <1>2, <2>1 DEF MetricsInv, PlaceIsFate, Has
<1>7. FinishedIsKept'
  <2>1. ASSUME NEW i \in DOMAIN fate, fate[i] = "finished"
        PROVE  \/ \E j \in DOMAIN completedRequests' : completedRequests'[j].id = i
               \/ \E v \in Workers : workerPc'[v] = "record" /\ inHand'[v].id = i
    <3>1. CASE \E j \in DOMAIN completedRequests : completedRequests[j].id = i
      BY <1>3, <1>4, <3>1
    <3>2. ASSUME NEW v \in Workers, workerPc[v] = "record", inHand[v].id = i
          PROVE  \/ \E j \in DOMAIN completedRequests' : completedRequests'[j].id = i
                 \/ \E u \in Workers : workerPc'[u] = "record" /\ inHand'[u].id = i
      <4>1. CASE v = w
        BY <1>3, <1>4, <3>2, <4>1
      <4>2. CASE v # w
        BY <1>2, <3>2, <4>2
      <4>3. QED
        BY <4>1, <4>2
    <3>3. QED
      BY <2>1, <3>1, <3>2 DEF MetricsInv, FinishedIsKept
  <2>2. QED
    BY <1>1, <2>1 DEF FinishedIsKept
<1>8. QED
  BY <1>5, <1>6, <1>7 DEF MetricsInv

LEMMA NextMetrics ==
  ASSUME Typed, MetricsInv, [Next]_vars
  PROVE  MetricsInv'
<1> USE DEF envVars, mainVars, parserVars, workerVars, metricVars, kernelVars,
            history
<1>0. workerPc \in [Workers -> WorkerPcs]
  BY DEF Typed, TypeOK
<1>1. WrittenLast'
  BY NextWrittenLast DEF MetricsInv
<1>2. ASSUME UNCHANGED <<schedulerQueue, completedRequests, fate, nextRequestId,
                         inHand>>,
             \A w \in Workers : \/ workerPc'[w] = workerPc[w]
                                \/ workerPc'[w] = "lock" /\ workerPc[w] = "waiting"
      PROVE  MetricsInv'
  BY <1>1, <1>2, RequestsUntouched DEF Serving, Holding
<1>3. CASE MainStep
  <2>1. UNCHANGED <<schedulerQueue, completedRequests, fate, nextRequestId, inHand>>
    BY <1>3
       DEF MainStep, EnterAccept, AcceptFails, EnqueueConnection,
           SignalConnection, CheckShutdown, WakeParserForShutdown, JoinParser,
           BroadcastWorkers, JoinWorkers, WriteMetrics
  <2>2. \A w \in Workers :
          \/ workerPc'[w] = workerPc[w]
          \/ workerPc'[w] = "lock" /\ workerPc[w] = "waiting"
    BY <1>0, <1>3
       DEF MainStep, EnterAccept, AcceptFails, EnqueueConnection,
           SignalConnection, CheckShutdown, WakeParserForShutdown, JoinParser,
           BroadcastWorkers, WakeAll, JoinWorkers, WriteMetrics
  <2>3. QED
    BY <1>2, <2>1, <2>2
<1>4. CASE ParserTakes \/ ParserFindsNone \/ ParserWaits \/ ParserAnswers
  BY <1>2, <1>4 DEF ParserTakes, ParserFindsNone, ParserWaits, ParserAnswers
<1>5. CASE ParserAdmits
  BY <1>1, <1>5, AdmitsMetrics
<1>6. CASE ParserSignals
  <2>1. \A w \in Workers :
          \/ workerPc'[w] = workerPc[w]
          \/ workerPc'[w] = "lock" /\ workerPc[w] = "waiting"
    BY <1>0, <1>6 DEF ParserSignals, WakeOneWorker
  <2>2. QED
    BY <1>2, <1>6, <2>1 DEF ParserSignals
<1>7. ASSUME NEW w \in Workers, WorkerTakes(w) PROVE MetricsInv'
  BY <1>1, <1>7, TakesMetrics
<1>8. ASSUME NEW w \in Workers, ServeFails(w) \/ ServeCompletes(w)
      PROVE  MetricsInv'
  BY <1>1, <1>8, EndsMetrics
<1>9. ASSUME NEW w \in Workers, WorkerRequeues(w) PROVE MetricsInv'
  BY <1>1, <1>9, RequeueMetrics
<1>10. ASSUME NEW w \in Workers, WorkerRecords(w) PROVE MetricsInv'
  BY <1>1, <1>10, RecordMetrics
<1>11. ASSUME NEW w \in Workers,
              \/ ServeYields(w) \/ WorkerFindsNone(w) \/ WorkerWaits(w)
              \/ WorkerSignals(w)
       PROVE  MetricsInv'
  <2>1. UNCHANGED <<schedulerQueue, completedRequests, fate, nextRequestId, inHand>>
    BY <1>11 DEF ServeYields, WorkerFindsNone, WorkerWaits, WorkerSignals
  <2>2. \A v \in Workers :
          /\ workerPc'[v] \in Holding <=> workerPc[v] \in Holding
          /\ workerPc'[v] = "record" <=> workerPc[v] = "record"
    BY <1>0, <1>11 DEF ServeYields, WorkerFindsNone, LeaveOrWait, WorkerWaits,
                       WorkerSignals, WakeOneWorker, Holding
  <2>3. QED
    BY <1>1, <2>1, <2>2, RequestsUntouched DEF Serving
<1>12. CASE Environment
  <2>1. UNCHANGED <<schedulerQueue, completedRequests, fate, nextRequestId, inHand>>
    BY <1>12 DEF Environment, Accept, Signal, SpuriousWakeup
  <2>2. \A w \in Workers :
          \/ workerPc'[w] = workerPc[w]
          \/ workerPc'[w] = "lock" /\ workerPc[w] = "waiting"
    BY <1>0, <1>12 DEF Environment, Accept, Signal, SpuriousWakeup
  <2>3. QED
    BY <1>2, <2>1, <2>2
<1>13. CASE UNCHANGED vars
  BY <1>2, <1>13 DEF vars
<1>14. QED
  BY <1>3, <1>4, <1>5, <1>6, <1>7, <1>8, <1>9, <1>10, <1>11, <1>12, <1>13
     DEF Next, ParserStep, WorkerStep

\* Whatever the policy and the moment of the shutdown, metrics.csv has each
\* finished request once and no other.
THEOREM MetricsAreExact == Spec => []MetricsExact
<1>1. Typed /\ MetricsInv /\ [Next]_vars => MetricsInv'
  BY NextMetrics
<1>2. QED
  BY <1>1, InitMetrics, MetricsInvSuffices, AlwaysTyped, PTL DEF Spec

-----------------------------------------------------------------------------
(* The inductive invariants behind NoOvertaking and OnlyShorterPass.       *)

\* passedBy has an entry for every number given out.
PassedByKept == Len(passedBy) + 1 = nextRequestId

OvertakingInv == MetricsInv /\ PassedByKept /\ NoOvertaking

\* Nothing comes back, so the queue is in the order of admission.
NeverBack == \A w \in Workers : workerPc[w] # "requeue"

QueueInOrder ==
  \A i, j \in DOMAIN schedulerQueue :
    i < j => schedulerQueue[i].id < schedulerQueue[j].id

ShorterInv == MetricsInv /\ PassedByKept /\ NeverBack /\ QueueInOrder /\ OnlyShorterPass

LEMMA InitPassing == Init => OvertakingInv /\ ShorterInv
<1> SUFFICES ASSUME Init PROVE OvertakingInv /\ ShorterInv
  OBVIOUS
<1>1. MetricsInv
  BY InitMetrics
<1>2. PassedByKept
  BY EmptySeq DEF Init, PassedByKept
<1>3. NoOvertaking /\ NeverBack /\ QueueInOrder /\ OnlyShorterPass
  BY DEF Init, NoOvertaking, NeverBack, QueueInOrder, OnlyShorterPass
<1>4. QED
  BY <1>1, <1>2, <1>3 DEF OvertakingInv, ShorterInv

-----------------------------------------------------------------------------
(* What the steps do to the queue and to passedBy.                         *)

\* Everything but admissions, pickups and requeues.
LEMMA QueueUntouched ==
  ASSUME [Next]_vars, ~ParserAdmits,
         ~ \E w \in Workers : WorkerTakes(w) \/ WorkerRequeues(w)
  PROVE  UNCHANGED <<schedulerQueue, passedBy, nextRequestId>>
BY DEF Next, vars, MainStep, ParserStep, WorkerStep, Environment, Accept,
       EnterAccept, AcceptFails, EnqueueConnection, SignalConnection,
       CheckShutdown, WakeParserForShutdown, JoinParser, BroadcastWorkers,
       JoinWorkers, WriteMetrics, ParserTakes, ParserFindsNone, ParserWaits,
       ParserAnswers, ParserSignals, WorkerFindsNone, WorkerWaits, ServeFails,
       ServeCompletes, ServeYields, WorkerSignals, WorkerRecords, Signal,
       SpuriousWakeup, envVars, mainVars, parserVars, workerVars, metricVars,
       kernelVars, history

\* Every queued or served request has its entry.
LEMMA Entries ==
  ASSUME Typed, MetricsInv, PassedByKept
  PROVE  /\ DOMAIN passedBy = 1 .. Len(passedBy) /\ Len(passedBy) \in Nat
         /\ nextRequestId = Len(passedBy) + 1
         /\ \A j \in DOMAIN schedulerQueue :
              schedulerQueue[j].id \in 1 .. Len(passedBy)
         /\ \A w \in Workers : Serving(w) => inHand[w].id \in 1 .. Len(passedBy)
<1>1. DOMAIN fate = 1 .. Len(fate) /\ Len(fate) \in Nat
  BY LenProperties DEF Typed, TypeOK
<1>2. DOMAIN passedBy = 1 .. Len(passedBy) /\ Len(passedBy) \in Nat
  BY LenProperties DEF Typed, TypeOK
<1>3. Len(fate) + 1 = nextRequestId
  BY DEF MetricsInv, PlaceIsFate
<1>4. Len(passedBy) + 1 = nextRequestId
  BY DEF PassedByKept
<1>5. Len(fate) = Len(passedBy)
  <2>1. \A m, n \in Nat : m + 1 = n + 1 => m = n
    OBVIOUS
  <2>2. Len(fate) + 1 = Len(passedBy) + 1
    BY <1>3, <1>4
  <2>3. QED
    BY <1>1, <1>2, <2>1, <2>2
<1>6. /\ \A j \in DOMAIN schedulerQueue : schedulerQueue[j].id \in DOMAIN fate
      /\ \A w \in Workers : Serving(w) => inHand[w].id \in DOMAIN fate
  BY DEF MetricsInv, PlaceIsFate, Has
<1>7. QED
  BY <1>1, <1>2, <1>4, <1>5, <1>6

\* The queue with a new request at its end; nobody has passed that one.
Joined(r) ==
  /\ Len(schedulerQueue) \in Nat
  /\ DOMAIN schedulerQueue = 1 .. Len(schedulerQueue)
  /\ DOMAIN schedulerQueue' = 1 .. Len(schedulerQueue) + 1
  /\ \A j \in 1 .. Len(schedulerQueue) :
       /\ schedulerQueue'[j] = schedulerQueue[j]
       /\ schedulerQueue[j].id # r.id
       /\ passedBy'[schedulerQueue[j].id] = passedBy[schedulerQueue[j].id]
  /\ schedulerQueue'[Len(schedulerQueue) + 1] = r
  /\ passedBy'[r.id] = {}
  /\ \A j \in 1 .. Len(schedulerQueue) + 1 :
       j \in 1 .. Len(schedulerQueue) \/ j = Len(schedulerQueue) + 1

LEMMA AdmitsJoin ==
  ASSUME Typed, MetricsInv, PassedByKept, ParserAdmits
  PROVE  /\ PassedByKept'
         /\ \E r \in Request : r.id = nextRequestId /\ Joined(r)
<1> DEFINE n == Len(schedulerQueue)
           m == Len(passedBy)
<1>1. PICK r \in Request : /\ schedulerQueue' = Append(schedulerQueue, r)
                           /\ r.id = nextRequestId
  <2>1. PICK t \in Totals : schedulerQueue' = Append(schedulerQueue,
           [id |-> nextRequestId, fd |-> parserFd, conn |-> owner[parserFd],
            total |-> t, rounds |-> 0])
    BY DEF ParserAdmits, Enqueued
  <2>2. [id |-> nextRequestId, fd |-> parserFd, conn |-> owner[parserFd],
         total |-> t, rounds |-> 0] \in Request
    BY ServerAssumption DEF ParserAdmits, Typed, TypeOK, HandsFull, Request
  <2>3. QED
    BY <2>1, <2>2
<1>2. /\ nextRequestId' = nextRequestId + 1 /\ nextRequestId \in Nat
      /\ passedBy' = Append(passedBy, {})
  BY DEF ParserAdmits, Typed, TypeOK
<1>3. /\ n \in Nat /\ DOMAIN schedulerQueue = 1 .. n
      /\ DOMAIN schedulerQueue' = 1 .. n + 1
      /\ \A j \in 1 .. n : schedulerQueue'[j] = schedulerQueue[j]
      /\ schedulerQueue'[n + 1] = r
  <2>1. schedulerQueue \in Seq(Request)
    BY DEF Typed, TypeOK
  <2>2. QED
    BY <1>1, <2>1, AppendElements
<1>4. /\ m \in Nat /\ DOMAIN passedBy = 1 .. m /\ Len(passedBy') = m + 1
      /\ \A i \in 1 .. m : passedBy'[i] = passedBy[i]
      /\ passedBy'[m + 1] = {}
  <2>1. passedBy \in Seq(SUBSET Request)
    BY DEF Typed, TypeOK
  <2>2. Len(passedBy') = m + 1
    BY <1>2, <2>1, AppendProperties
  <2>3. QED
    BY <1>2, <2>1, <2>2, AppendElements
<1>5. /\ r.id = m + 1
      /\ \A j \in 1 .. n : schedulerQueue[j].id \in 1 .. m
  BY <1>1, <1>3, Entries
<1> HIDE DEF m
<1>6. \A j \in 1 .. n :
        /\ schedulerQueue[j].id # r.id
        /\ passedBy'[schedulerQueue[j].id] = passedBy[schedulerQueue[j].id]
  BY <1>4, <1>5
<1>7. PassedByKept'
  BY <1>2, <1>4 DEF PassedByKept, m
<1>8. \A j \in 1 .. n + 1 : j \in 1 .. n \/ j = n + 1
  BY <1>3
<1>9. Joined(r)
  BY <1>3, <1>4, <1>5, <1>6, <1>8 DEF Joined
<1>10. QED
  BY <1>1, <1>7, <1>9

LEMMA RequeueJoins ==
  ASSUME Typed, MetricsInv, PassedByKept, NEW w \in Workers, WorkerRequeues(w)
  PROVE  PassedByKept' /\ Joined(inHand[w])
<1> DEFINE n == Len(schedulerQueue)
           r == inHand[w]
<1>1. /\ workerPc[w] = "requeue" /\ Serving(w)
      /\ schedulerQueue' = Append(schedulerQueue, r)
      /\ passedBy' = [passedBy EXCEPT ![r.id] = {}]
      /\ nextRequestId' = nextRequestId
      /\ passedBy \in Seq(SUBSET Request)
  BY DEF WorkerRequeues, Enqueued, parserVars, Serving, Holding, Typed, TypeOK
<1>2. r \in Request
  BY <1>1 DEF Typed, HandsFull, Serving
<1>3. /\ n \in Nat /\ DOMAIN schedulerQueue = 1 .. n
      /\ DOMAIN schedulerQueue' = 1 .. n + 1
      /\ \A j \in 1 .. n : schedulerQueue'[j] = schedulerQueue[j]
      /\ schedulerQueue'[n + 1] = r
  <2>1. schedulerQueue \in Seq(Request)
    BY DEF Typed, TypeOK
  <2>2. QED
    BY <1>1, <1>2, <2>1, AppendElements
<1>4. \A j \in 1 .. n : schedulerQueue[j].id # r.id
  BY <1>1, <1>3 DEF MetricsInv, IdsApart
<1>5. r.id \in DOMAIN passedBy /\ DOMAIN passedBy' = DOMAIN passedBy
  BY <1>1, Entries
<1>6. Len(passedBy') = Len(passedBy)
  <2>1. passedBy' \in Seq(SUBSET Request)
    BY <1>1, ExceptType
  <2>2. QED
    BY <1>1, <1>5, <2>1, LenProperties
<1> HIDE DEF n, r
<1>7. /\ passedBy'[r.id] = {}
      /\ \A j \in 1 .. n :
           passedBy'[schedulerQueue[j].id] = passedBy[schedulerQueue[j].id]
  <2>1. \A j \in 1 .. n : schedulerQueue[j].id \in DOMAIN passedBy
    BY <1>3, Entries
  <2>2. QED
    BY <1>1, <1>4, <1>5, <2>1
<1>8. PassedByKept'
  BY <1>1, <1>6 DEF PassedByKept
<1>9. \A j \in 1 .. n + 1 : j \in 1 .. n \/ j = n + 1
  BY <1>3
<1>10. Joined(r)
  BY <1>3, <1>4, <1>7, <1>9 DEF Joined, n
<1>11. QED
  BY <1>8, <1>10 DEF r

\* The queue after request schedulerQueue[k] was picked: those that stay keep
\* their order, and it has passed each of them.
Left(k) ==
  /\ Len(schedulerQueue) \in Nat
  /\ DOMAIN schedulerQueue = 1 .. Len(schedulerQueue)
  /\ k \in DOMAIN schedulerQueue
  /\ DOMAIN schedulerQueue' = 1 .. Len(schedulerQueue) - 1
  /\ \A i \in DOMAIN schedulerQueue' :
       /\ (IF i < k THEN i ELSE i + 1) \in DOMAIN schedulerQueue \ {k}
       /\ schedulerQueue'[i] = schedulerQueue[IF i < k THEN i ELSE i + 1]
       /\ passedBy'[schedulerQueue'[i].id] =
            passedBy[schedulerQueue'[i].id] \cup {schedulerQueue[k]}
  /\ \A i, j \in DOMAIN schedulerQueue' :
       i < j => (IF i < k THEN i ELSE i + 1) < (IF j < k THEN j ELSE j + 1)

LEMMA PickLeaves ==
  ASSUME Typed, MetricsInv, PassedByKept, NEW w \in Workers, WorkerTakes(w)
  PROVE  PassedByKept' /\ \E k \in DOMAIN schedulerQueue : Selected(k) /\ Left(k)
<1> DEFINE n == Len(schedulerQueue)
<1>1. PICK k \in DOMAIN schedulerQueue :
        LET rest == RemoveAt(schedulerQueue, k)
            waitingIds == {rest[j].id : j \in DOMAIN rest}
        IN  /\ Selected(k)
            /\ schedulerQueue' = rest
            /\ passedBy' = [i \in DOMAIN passedBy |->
                              IF i \in waitingIds
                              THEN passedBy[i] \cup {schedulerQueue[k]}
                              ELSE passedBy[i]]
  BY DEF WorkerTakes
<1>2. /\ Selected(k) /\ schedulerQueue' = RemoveAt(schedulerQueue, k)
      /\ passedBy' = [i \in DOMAIN passedBy |->
           IF i \in {schedulerQueue'[j].id : j \in DOMAIN schedulerQueue'}
           THEN passedBy[i] \cup {schedulerQueue[k]} ELSE passedBy[i]]
  BY <1>1
<1>3. /\ n \in Nat /\ DOMAIN schedulerQueue = 1 .. n
      /\ DOMAIN schedulerQueue' = 1 .. n - 1
      /\ \A i \in 1 .. n - 1 :
           schedulerQueue'[i] = schedulerQueue[IF i < k THEN i ELSE i + 1]
  <2>1. schedulerQueue \in Seq(Request)
    BY DEF Typed, TypeOK
  <2>2. QED
    BY <1>2, <2>1, OneRemoved
<1> HIDE DEF n
<1>4. /\ \A i \in 1 .. n - 1 : (IF i < k THEN i ELSE i + 1) \in 1 .. n \ {k}
      /\ \A i, j \in 1 .. n - 1 :
           i < j => (IF i < k THEN i ELSE i + 1) < (IF j < k THEN j ELSE j + 1)
  BY <1>3
<1>5. ASSUME NEW i \in 1 .. n - 1
      PROVE  passedBy'[schedulerQueue'[i].id] =
               passedBy[schedulerQueue'[i].id] \cup {schedulerQueue[k]}
  <2>1. schedulerQueue'[i].id \in DOMAIN passedBy
    <3>1. PICK j \in DOMAIN schedulerQueue : schedulerQueue'[i] = schedulerQueue[j]
      BY <1>3, <1>4
    <3>2. QED
      BY <3>1, Entries
  <2>2. schedulerQueue'[i].id \in {schedulerQueue'[j].id : j \in DOMAIN schedulerQueue'}
    BY <1>3
  <2>3. QED
    BY <1>2, <2>1, <2>2
<1>6. Left(k)
  BY <1>3, <1>4, <1>5 DEF Left, n
<1>7. PassedByKept'
  <2>1. passedBy \in Seq(SUBSET Request) /\ DOMAIN passedBy' = DOMAIN passedBy
    BY <1>2 DEF Typed, TypeOK
  <2>2. passedBy' \in Seq(SUBSET Request)
    <3>1. \A i \in DOMAIN passedBy : passedBy[i] \in SUBSET Request
      BY <2>1, LenProperties, ElementOfSeq
    <3>2. schedulerQueue[k] \in Request
      BY Elements
    <3>3. passedBy' \in [DOMAIN passedBy -> SUBSET Request]
      BY <1>2, <3>1, <3>2
    <3>4. QED
      BY <2>1, <3>3, MapType
  <2>3. Len(passedBy') = Len(passedBy)
    BY <2>1, <2>2, LenProperties
  <2>4. QED
    BY <2>3 DEF PassedByKept, WorkerTakes, parserVars
<1>8. QED
  BY <1>2, <1>6, <1>7

-----------------------------------------------------------------------------
\* One that joins at the end has been passed by nobody, and has overtaken nobody.
LEMMA JoinOvertakesNone ==
  ASSUME NoOvertaking, NEW r, Joined(r)
  PROVE  NoOvertaking'
<1> DEFINE n == Len(schedulerQueue)
<1> SUFFICES ASSUME NEW i \in DOMAIN schedulerQueue',
                    NEW j \in DOMAIN schedulerQueue', i < j,
                    NEW p \in passedBy'[schedulerQueue'[j].id]
             PROVE  p.id # schedulerQueue'[i].id
  BY DEF NoOvertaking
<1>1. j \in 1 .. n
  <2>1. CASE j = n + 1
    BY <2>1 DEF Joined
  <2>2. QED
    BY <2>1 DEF Joined
<1>2. i \in 1 .. n
  BY <1>1 DEF Joined
<1>3. QED
  BY <1>1, <1>2 DEF Joined, NoOvertaking

\* The head has not been picked while somebody before it waited.
LEMMA PickOvertakesNone ==
  ASSUME MetricsInv, NoOvertaking, Left(1)
  PROVE  NoOvertaking'
<1> SUFFICES ASSUME NEW i \in DOMAIN schedulerQueue',
                    NEW j \in DOMAIN schedulerQueue', i < j,
                    NEW p \in passedBy'[schedulerQueue'[j].id]
             PROVE  p.id # schedulerQueue'[i].id
  BY DEF NoOvertaking
<1>1. /\ i + 1 \in DOMAIN schedulerQueue /\ j + 1 \in DOMAIN schedulerQueue
      /\ i + 1 < j + 1 /\ i + 1 # 1 /\ 1 \in DOMAIN schedulerQueue
      /\ schedulerQueue'[i] = schedulerQueue[i + 1]
      /\ schedulerQueue'[j] = schedulerQueue[j + 1]
  BY DEF Left
<1>2. p \in passedBy[schedulerQueue[j + 1].id] \/ p = schedulerQueue[1]
  BY <1>1 DEF Left
<1>3. QED
  BY <1>1, <1>2 DEF NoOvertaking, MetricsInv, IdsApart

LEMMA NextOvertaking ==
  ASSUME Policy # "sjf", Typed, OvertakingInv, [Next]_vars
  PROVE  OvertakingInv'
<1>1. MetricsInv'
  BY NextMetrics DEF OvertakingInv
<1>2. CASE ParserAdmits
  BY <1>1, <1>2, AdmitsJoin, JoinOvertakesNone DEF OvertakingInv
<1>3. ASSUME NEW w \in Workers, WorkerRequeues(w) PROVE OvertakingInv'
  BY <1>1, <1>3, RequeueJoins, JoinOvertakesNone DEF OvertakingInv
<1>4. ASSUME NEW w \in Workers, WorkerTakes(w) PROVE OvertakingInv'
  BY <1>1, <1>4, PickLeaves, PickOvertakesNone DEF OvertakingInv, Selected
<1>5. CASE ~ \/ ParserAdmits
             \/ \E w \in Workers : WorkerTakes(w) \/ WorkerRequeues(w)
  BY <1>1, <1>5, QueueUntouched DEF OvertakingInv, PassedByKept, NoOvertaking
<1>6. QED
  BY <1>2, <1>3, <1>4, <1>5

\* Under fcfs, rr and drr, for any number of workers, no request gets another
\* round before one that waited when it got the last.
THEOREM NobodyOvertakes ==
  ASSUME Policy # "sjf"
  PROVE  Spec => []NoOvertaking
<1>1. Typed /\ OvertakingInv /\ [Next]_vars => OvertakingInv'
  BY NextOvertaking
<1>2. OvertakingInv => NoOvertaking
  BY DEF OvertakingInv
<1>3. QED
  BY <1>1, <1>2, InitPassing, AlwaysTyped, PTL DEF Spec

-----------------------------------------------------------------------------
\* One that joins at the end has been passed by nobody.
LEMMA JoinPassedByNone ==
  ASSUME OnlyShorterPass, NEW r, Joined(r)
  PROVE  OnlyShorterPass'
<1> DEFINE n == Len(schedulerQueue)
<1> SUFFICES ASSUME NEW j \in DOMAIN schedulerQueue',
                    NEW p \in passedBy'[schedulerQueue'[j].id]
             PROVE  \/ p.total < schedulerQueue'[j].total
                    \/ /\ p.total = schedulerQueue'[j].total
                       /\ p.id < schedulerQueue'[j].id
  BY DEF OnlyShorterPass
<1>1. j \in 1 .. n
  <2>1. CASE j = n + 1
    BY <2>1 DEF Joined
  <2>2. QED
    BY <2>1 DEF Joined
<1>2. QED
  BY <1>1 DEF Joined, OnlyShorterPass

LEMMA AdmitsShorter ==
  ASSUME Typed, Typed', ShorterInv, MetricsInv', ParserAdmits
  PROVE  ShorterInv'
<1>1. PassedByKept' /\ \E r \in Request : r.id = nextRequestId /\ Joined(r)
  BY AdmitsJoin DEF ShorterInv
<1>2. PICK r \in Request : r.id = nextRequestId /\ Joined(r)
  BY <1>1
<1>3. OnlyShorterPass'
  BY <1>2, JoinPassedByNone DEF ShorterInv
<1>4. QueueInOrder'
  <2>1. \A j \in DOMAIN schedulerQueue : schedulerQueue[j].id < r.id
    <3>1. /\ r.id = Len(passedBy) + 1 /\ Len(passedBy) \in Nat
          /\ \A j \in DOMAIN schedulerQueue :
               schedulerQueue[j].id \in 1 .. Len(passedBy)
      BY <1>2, Entries DEF ShorterInv
    <3>2. QED
      BY <3>1
  <2>2. ASSUME NEW i \in DOMAIN schedulerQueue', NEW j \in DOMAIN schedulerQueue',
               i < j
        PROVE  schedulerQueue'[i].id < schedulerQueue'[j].id
    <3>1. i \in DOMAIN schedulerQueue /\ schedulerQueue'[i] = schedulerQueue[i]
      BY <1>2, <2>2 DEF Joined
    <3>2. CASE j \in DOMAIN schedulerQueue
      BY <1>2, <2>2, <3>1, <3>2 DEF Joined, ShorterInv, QueueInOrder
    <3>3. CASE j \notin DOMAIN schedulerQueue
      <4>1. schedulerQueue'[j] = r
        BY <1>2, <3>3 DEF Joined
      <4>2. QED
        BY <2>1, <3>1, <4>1
    <3>4. QED
      BY <3>2, <3>3
  <2>3. QED
    BY <2>2 DEF QueueInOrder
<1>5. NeverBack'
  BY DEF ParserAdmits, workerVars, ShorterInv, NeverBack
<1>6. QED
  BY <1>1, <1>3, <1>4, <1>5 DEF ShorterInv

LEMMA TakesShorter ==
  ASSUME Policy = "sjf", Typed, ShorterInv, MetricsInv',
         NEW w \in Workers, WorkerTakes(w)
  PROVE  ShorterInv'
<1>1. PassedByKept' /\ \E k \in DOMAIN schedulerQueue : Selected(k) /\ Left(k)
  BY PickLeaves DEF ShorterInv
<1>2. PICK k \in DOMAIN schedulerQueue : Selected(k) /\ Left(k)
  BY <1>1
<1>3. \A j \in DOMAIN schedulerQueue :
        schedulerQueue[j].id \in Nat /\ schedulerQueue[j].total \in Nat
  BY Elements, ServerAssumption DEF Request
<1>4. OnlyShorterPass'
  <2>1. ASSUME NEW i \in DOMAIN schedulerQueue',
               NEW p \in passedBy'[schedulerQueue'[i].id]
        PROVE  \/ p.total < schedulerQueue'[i].total
               \/ /\ p.total = schedulerQueue'[i].total
                  /\ p.id < schedulerQueue'[i].id
    <3>1. PICK j \in DOMAIN schedulerQueue \ {k} :
            schedulerQueue'[i] = schedulerQueue[j]
      BY <1>2 DEF Left
    <3>2. CASE p \in passedBy[schedulerQueue[j].id]
      BY <3>1, <3>2 DEF ShorterInv, OnlyShorterPass
    <3>3. CASE p = schedulerQueue[k]
      <4>1. CASE schedulerQueue[k].total < schedulerQueue[j].total
        BY <3>1, <3>3, <4>1
      <4>2. CASE schedulerQueue[k].total = schedulerQueue[j].total /\ k <= j
        <5>1. k < j
          BY <1>2, <3>1, <4>2 DEF Left
        <5>2. schedulerQueue[k].id < schedulerQueue[j].id
          BY <5>1 DEF ShorterInv, QueueInOrder
        <5>3. QED
          BY <3>1, <3>3, <4>2, <5>2
      <4>3. QED
        BY <1>2, <3>1, <4>1, <4>2 DEF Selected
    <3>4. QED
      BY <1>2, <2>1, <3>1, <3>2, <3>3 DEF Left
  <2>2. QED
    BY <2>1 DEF OnlyShorterPass
<1>5. QueueInOrder'
  <2>1. ASSUME NEW i \in DOMAIN schedulerQueue', NEW j \in DOMAIN schedulerQueue',
               i < j
        PROVE  schedulerQueue'[i].id < schedulerQueue'[j].id
    <3> DEFINE a == IF i < k THEN i ELSE i + 1
               b == IF j < k THEN j ELSE j + 1
    <3>1. /\ a \in DOMAIN schedulerQueue /\ b \in DOMAIN schedulerQueue /\ a < b
          /\ schedulerQueue'[i] = schedulerQueue[a]
          /\ schedulerQueue'[j] = schedulerQueue[b]
      BY <1>2, <2>1 DEF Left
    <3> HIDE DEF a, b
    <3>2. QED
      BY <3>1 DEF ShorterInv, QueueInOrder
  <2>2. QED
    BY <2>1 DEF QueueInOrder
<1>6. NeverBack'
  BY DEF WorkerTakes, ShorterInv, NeverBack, Typed, TypeOK
<1>7. QED
  BY <1>1, <1>4, <1>5, <1>6 DEF ShorterInv

LEMMA NextShorter ==
  ASSUME Policy = "sjf", FilesStable, Typed, Typed', ShorterInv, [Next]_vars
  PROVE  ShorterInv'
<1>1. MetricsInv'
  BY NextMetrics DEF ShorterInv
<1>2. CASE ParserAdmits
  BY <1>1, <1>2, AdmitsShorter
<1>3. ASSUME NEW w \in Workers, WorkerTakes(w) PROVE ShorterInv'
  BY <1>1, <1>3, TakesShorter
<1>4. ~ \E w \in Workers : WorkerRequeues(w)
  BY DEF WorkerRequeues, ShorterInv, NeverBack
<1>5. CASE ~ \/ ParserAdmits
             \/ \E w \in Workers : WorkerTakes(w) \/ WorkerRequeues(w)
  <2>1. UNCHANGED <<schedulerQueue, passedBy, nextRequestId>>
    BY <1>5, QueueUntouched
  <2>2. NeverBack'
    <3>1. workerPc \in [Workers -> WorkerPcs]
      BY DEF Typed, TypeOK
    <3>2. ASSUME NEW w \in Workers, WorkerStep(w) PROVE NeverBack'
      <4>1. ~ServeYields(w)
        BY DEF ServeYields, Preemptive
      <4>2. QED
        BY <1>5, <3>1, <3>2, <4>1
           DEF WorkerStep, WorkerFindsNone, LeaveOrWait, WorkerWaits,
               ServeFails, ServeCompletes, WorkerSignals, WakeOneWorker,
               WorkerRecords, ShorterInv, NeverBack
    <3>3. CASE ~ \E w \in Workers : WorkerStep(w)
      <4>1. \A w \in Workers : workerPc'[w] \in {workerPc[w], "lock"}
        BY <1>5, <3>1, <3>3
           DEF Next, vars, MainStep, ParserStep, Environment, Accept,
               EnterAccept, AcceptFails, EnqueueConnection, SignalConnection,
               CheckShutdown, WakeParserForShutdown, JoinParser,
               BroadcastWorkers, WakeAll, JoinWorkers, WriteMetrics,
               ParserTakes, ParserFindsNone, ParserWaits, ParserAnswers,
               ParserSignals, WakeOneWorker, Signal, SpuriousWakeup, envVars,
               mainVars, parserVars, workerVars, metricVars, kernelVars, history
      <4>2. QED
        BY <4>1 DEF ShorterInv, NeverBack
    <3>4. QED
      BY <3>2, <3>3
  <2>3. QED
    BY <1>1, <2>1, <2>2
       DEF ShorterInv, PassedByKept, QueueInOrder, OnlyShorterPass
<1>6. QED
  BY <1>2, <1>3, <1>4, <1>5

\* Under sjf, for any number of workers and any lengths, a request is passed
\* only by shorter ones and by earlier ones of its length.
THEOREM ShorterPassOnly ==
  ASSUME Policy = "sjf", FilesStable
  PROVE  Spec => []OnlyShorterPass
<1>1. Typed /\ Typed' /\ ShorterInv /\ [Next]_vars => ShorterInv'
  BY NextShorter
<1>2. ShorterInv => OnlyShorterPass
  BY DEF ShorterInv
<1>3. QED
  BY <1>1, <1>2, InitPassing, AlwaysTyped, PTL DEF Spec
=============================================================================
