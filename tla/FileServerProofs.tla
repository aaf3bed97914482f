-------------------------- MODULE FileServerProofs --------------------------
(***************************************************************************)
(* Proofs about FileServer, for every number of workers, connections and   *)
(* descriptors, every policy and every bound: typing, wakeups, the order in *)
(* which requests start, and who holds a descriptor.                       *)
(***************************************************************************)
EXTENDS FileServer, FiniteSetTheorems, SequenceTheorems, TLAPS

-----------------------------------------------------------------------------
(* Typing, and the inductive invariant behind TypeOK.                      *)

\* What each thread carries while it is between taking and handing over.
HandsFull ==
  /\ mainPc = "enqueue" => mainFd \in Fds
  /\ parserPc = "reading" => parserFd \in Fds
  /\ \A w \in Workers :
       workerPc[w] \in Holding \cup {"record"} => inHand[w] \in Request

Typed == TypeOK /\ HandsFull

-----------------------------------------------------------------------------
(* Sequences.                                                              *)

\* Removing one position of a sequence leaves a sequence one shorter.
LEMMA RemoveAtType ==
  ASSUME NEW S, NEW s \in Seq(S), NEW k \in DOMAIN s
  PROVE  RemoveAt(s, k) \in Seq(S) /\ Len(RemoveAt(s, k)) = Len(s) - 1
<1>1. k \in 1 .. Len(s) /\ \A i \in 1 .. Len(s) : s[i] \in S
  BY LenProperties, ElementOfSeq
<1> DEFINE a == SubSeq(s, 1, k - 1)
           b == SubSeq(s, k + 1, Len(s))
<1>2. a \in Seq(S) /\ Len(a) = k - 1
  BY <1>1, SubSeqProperties
<1>3. b \in Seq(S) /\ Len(b) = Len(s) - k
  BY <1>1, SubSeqProperties
<1>4. a \o b \in Seq(S) /\ Len(a \o b) = Len(a) + Len(b)
  BY <1>2, <1>3, ConcatProperties
<1>5. RemoveAt(s, k) = a \o b
  BY DEF RemoveAt
<1> HIDE DEF a, b
<1>6. QED
  BY SMTT(30), <1>1, <1>2, <1>3, <1>4, <1>5, LenProperties

\* Changing the elements of a sequence one by one leaves a sequence.
LEMMA MapType ==
  ASSUME NEW S, NEW s \in Seq(S), NEW T,
         NEW f, f \in [DOMAIN s -> T]
  PROVE  f \in Seq(T)
<1>1. DOMAIN s = 1 .. Len(s) /\ Len(s) \in Nat
  BY LenProperties
<1>2. QED
  BY <1>1, SeqDef

\* So does an EXCEPT, whatever the index.
LEMMA ExceptType ==
  ASSUME NEW S, NEW s \in Seq(S), NEW i, NEW e \in S
  PROVE  [s EXCEPT ![i] = e] \in Seq(S)
<1>1. \A j \in DOMAIN s : s[j] \in S
  BY LenProperties, ElementOfSeq
<1>2. [s EXCEPT ![i] = e] \in [DOMAIN s -> S]
  BY <1>1
<1>3. QED
  BY <1>2, MapType

-----------------------------------------------------------------------------
LEMMA InitTyped == Init => Typed
BY ServerAssumption
   DEF Init, Typed, TypeOK, HandsFull, MainPcs, ParserPcs, WorkerPcs, Holding,
       Fds, NoFd

LEMMA NextTyped == Typed /\ [Next]_vars => Typed'
<1> SUFFICES ASSUME Typed, [Next]_vars PROVE Typed'
  OBVIOUS
<1> USE DEF envVars, mainVars, parserVars, workerVars, metricVars, kernelVars,
            history
<1>1. CASE EnterAccept
  BY <1>1 DEF EnterAccept, Typed, TypeOK, HandsFull, MainPcs
<1>2. CASE AcceptFails
  BY <1>2 DEF AcceptFails, Typed, TypeOK, HandsFull, MainPcs
<1>3. CASE EnqueueConnection
  BY <1>3 DEF EnqueueConnection, Typed, TypeOK, HandsFull, MainPcs
<1>4. CASE SignalConnection
  BY <1>4 DEF SignalConnection, WakeParser, Typed, TypeOK, HandsFull, MainPcs,
              ParserPcs
<1>5. CASE CheckShutdown
  BY <1>5 DEF CheckShutdown, Typed, TypeOK, HandsFull, MainPcs
<1>6. CASE WakeParserForShutdown
  BY <1>6 DEF WakeParserForShutdown, WakeParser, Typed, TypeOK, HandsFull,
              MainPcs, ParserPcs
<1>7. CASE JoinParser
  BY <1>7 DEF JoinParser, Typed, TypeOK, HandsFull, MainPcs
<1>8. CASE BroadcastWorkers
  <2>1. /\ workerPc' \in [Workers -> WorkerPcs]
        /\ \A v \in Workers : workerPc'[v] \in {workerPc[v], "lock"}
    BY <1>8 DEF BroadcastWorkers, WakeAll, Typed, TypeOK, WorkerPcs
  <2>2. QED
    BY <1>8, <2>1 DEF BroadcastWorkers, Typed, TypeOK, HandsFull, Holding, MainPcs
<1>9. CASE JoinWorkers
  BY <1>9 DEF JoinWorkers, Typed, TypeOK, HandsFull, MainPcs
<1>10. CASE WriteMetrics
  BY <1>10 DEF WriteMetrics, Typed, TypeOK, HandsFull, MainPcs
<1>11. CASE ParserTakes
  <2>1. Head(connectionQueue) \in Fds /\ Tail(connectionQueue) \in Seq(Fds)
    BY <1>11, HeadTailProperties DEF ParserTakes, Typed, TypeOK
  <2>2. QED
    BY <1>11, <2>1 DEF ParserTakes, Typed, TypeOK, HandsFull, ParserPcs
<1>12. CASE ParserFindsNone
  BY <1>12 DEF ParserFindsNone, LeaveOrWait, Typed, TypeOK, HandsFull, ParserPcs
<1>13. CASE ParserWaits
  BY <1>13 DEF ParserWaits, Typed, TypeOK, HandsFull, ParserPcs
<1>14. CASE ParserAnswers
  BY <1>14 DEF ParserAnswers, Closed, Typed, TypeOK, HandsFull, ParserPcs
<1>15. CASE ParserAdmits
  <2>1. PICK t \in Totals :
          schedulerQueue' = Append(schedulerQueue,
            [id |-> nextRequestId, fd |-> parserFd, conn |-> owner[parserFd],
             total |-> t, rounds |-> 0])
    BY <1>15 DEF ParserAdmits, Enqueued
  <2>2. [id |-> nextRequestId, fd |-> parserFd, conn |-> owner[parserFd],
         total |-> t, rounds |-> 0] \in Request
    BY <1>15, ServerAssumption DEF ParserAdmits, Typed, TypeOK, HandsFull, Request
  <2>3. schedulerQueue' \in Seq(Request)
    BY <2>1, <2>2 DEF Typed, TypeOK
  <2>4. QED
    BY <1>15, <2>3 DEF ParserAdmits, Typed, TypeOK, HandsFull, ParserPcs
<1>16. CASE ParserSignals
  <2>1. /\ workerPc' \in [Workers -> WorkerPcs]
        /\ \A v \in Workers : workerPc'[v] \in {workerPc[v], "lock"}
    BY <1>16 DEF ParserSignals, WakeOneWorker, Typed, TypeOK, WorkerPcs
  <2>2. QED
    BY <1>16, <2>1 DEF ParserSignals, Typed, TypeOK, HandsFull, Holding, ParserPcs
<1>17. ASSUME NEW w \in Workers, WorkerTakes(w) PROVE Typed'
  <2>1. PICK k \in DOMAIN schedulerQueue :
          /\ schedulerQueue' = RemoveAt(schedulerQueue, k)
          /\ inHand' = [inHand EXCEPT ![w] =
                          [schedulerQueue[k] EXCEPT !.rounds = @ + 1]]
          /\ started' = IF schedulerQueue[k].rounds = 0
                        THEN Append(started, schedulerQueue[k].id) ELSE started
          /\ passedBy' = [i \in DOMAIN passedBy |->
               IF i \in {RemoveAt(schedulerQueue, k)[j].id :
                           j \in DOMAIN RemoveAt(schedulerQueue, k)}
               THEN passedBy[i] \cup {schedulerQueue[k]} ELSE passedBy[i]]
    BY <1>17 DEF WorkerTakes
  <2>2. schedulerQueue[k] \in Request
    BY LenProperties, ElementOfSeq DEF Typed, TypeOK
  <2>3. schedulerQueue' \in Seq(Request)
    BY <2>1, RemoveAtType DEF Typed, TypeOK
  <2>4. [schedulerQueue[k] EXCEPT !.rounds = @ + 1] \in Request
    BY <2>2 DEF Request
  <2>5. started' \in Seq(Nat)
    <3>1. schedulerQueue[k].id \in Nat
      BY <2>2 DEF Request
    <3>2. QED
      BY <2>1, <3>1 DEF Typed, TypeOK
  <2>6. passedBy' \in Seq(SUBSET Request)
    <3>1. \A i \in DOMAIN passedBy : passedBy[i] \in SUBSET Request
      BY LenProperties, ElementOfSeq DEF Typed, TypeOK
    <3>2. passedBy' \in [DOMAIN passedBy -> SUBSET Request]
      BY <2>1, <2>2, <3>1
    <3>3. QED
      BY <3>2, MapType DEF Typed, TypeOK
  <2>7. QED
    BY <1>17, <2>1, <2>3, <2>4, <2>5, <2>6
       DEF WorkerTakes, Typed, TypeOK, HandsFull, Holding, WorkerPcs
<1>18. ASSUME NEW w \in Workers, WorkerFindsNone(w) PROVE Typed'
  BY <1>18 DEF WorkerFindsNone, LeaveOrWait, Typed, TypeOK, HandsFull, Holding, WorkerPcs
<1>19. ASSUME NEW w \in Workers, WorkerWaits(w) PROVE Typed'
  BY <1>19 DEF WorkerWaits, Typed, TypeOK, HandsFull, Holding, WorkerPcs
<1>20. ASSUME NEW w \in Workers, ServeFails(w) PROVE Typed'
  <2>1. fate' \in Seq({"admitted", "failed", "finished"})
    BY <1>20, ExceptType DEF ServeFails, Typed, TypeOK
  <2>2. QED
    BY <1>20, <2>1 DEF ServeFails, Closed, Typed, TypeOK, HandsFull, Holding, WorkerPcs
<1>21. ASSUME NEW w \in Workers, ServeCompletes(w) PROVE Typed'
  <2>1. fate' \in Seq({"admitted", "failed", "finished"})
    BY <1>21, ExceptType DEF ServeCompletes, Typed, TypeOK
  <2>2. QED
    BY <1>21, <2>1 DEF ServeCompletes, Closed, Typed, TypeOK, HandsFull, Holding,
               WorkerPcs
<1>22. ASSUME NEW w \in Workers, ServeYields(w) PROVE Typed'
  BY <1>22 DEF ServeYields, Closed, Typed, TypeOK, HandsFull, Holding, WorkerPcs
<1>23. ASSUME NEW w \in Workers, WorkerRequeues(w) PROVE Typed'
  <2>1. passedBy' \in Seq(SUBSET Request)
    BY <1>23, ExceptType DEF WorkerRequeues, Typed, TypeOK
  <2>2. QED
    BY <1>23, <2>1 DEF WorkerRequeues, Enqueued, Typed, TypeOK, HandsFull, Holding, WorkerPcs
<1>24. ASSUME NEW w \in Workers, WorkerSignals(w) PROVE Typed'
  <2>1. /\ workerPc' \in [Workers -> WorkerPcs]
        /\ \A v \in Workers : workerPc'[v] \in {workerPc[v], "lock"}
    BY <1>24 DEF WorkerSignals, WakeOneWorker, Typed, TypeOK, WorkerPcs
  <2>2. QED
    BY <1>24, <2>1 DEF WorkerSignals, Typed, TypeOK, HandsFull, Holding
<1>25. ASSUME NEW w \in Workers, WorkerRecords(w) PROVE Typed'
  BY <1>25 DEF WorkerRecords, Typed, TypeOK, HandsFull, Holding, WorkerPcs
<1>26. ASSUME NEW c \in Conns, Accept(c) PROVE Typed'
  BY <1>26 DEF Accept, LowestFree, FreeFds, Typed, TypeOK, HandsFull, MainPcs
<1>27. CASE Signal
  BY <1>27, ServerAssumption DEF Signal, Typed, TypeOK, HandsFull, MainPcs
<1>28. CASE SpuriousWakeup
  <2>1. spurious' \in 0 .. MaxSpurious
    BY <1>28, ServerAssumption DEF SpuriousWakeup, Typed, TypeOK
  <2>2. /\ parserPc' \in ParserPcs /\ parserPc' \in {parserPc, "lock"}
        /\ workerPc' \in [Workers -> WorkerPcs]
        /\ \A w \in Workers : workerPc'[w] \in {workerPc[w], "lock"}
    BY <1>28 DEF SpuriousWakeup, Typed, TypeOK, ParserPcs, WorkerPcs
  <2>3. QED
    BY <1>28, <2>1, <2>2 DEF SpuriousWakeup, Typed, TypeOK, HandsFull, Holding
<1>29. CASE UNCHANGED vars
  BY <1>29 DEF vars, Typed, TypeOK, HandsFull
<1>30. QED
  BY <1>1, <1>2, <1>3, <1>4, <1>5, <1>6, <1>7, <1>8, <1>9, <1>10, <1>11, <1>12,
     <1>13, <1>14, <1>15, <1>16, <1>17, <1>18, <1>19, <1>20, <1>21, <1>22,
     <1>23, <1>24, <1>25, <1>26, <1>27, <1>28, <1>29
     DEF Next, MainStep, ParserStep, WorkerStep, Environment

LEMMA AlwaysTyped == Spec => []Typed
BY InitTyped, NextTyped, PTL DEF Spec

\* Every variable of the server keeps its type: in particular whatever is
\* queued, served or recorded is a request with the number of a descriptor.
THEOREM TypeCorrect == Spec => []TypeOK
<1>1. Typed => TypeOK
  BY DEF Typed
<1>2. QED
  BY <1>1, AlwaysTyped, PTL

-----------------------------------------------------------------------------
(* Wakeups.                                                                *)

\* The inductive invariant: a thread that has found its queue empty holds the
\* mutex until it sleeps, so the queue is still empty then.
NoStaleTest ==
  /\ \A w \in Workers : workerPc[w] = "toWait" => schedulerQueue = <<>>
  /\ parserPc = "toWait" => connectionQueue = <<>>

WorkersWoken ==
  Waiting(workerPc) # {} =>
    Len(schedulerQueue) <= Cardinality(Alert(workerPc))
                             + (IF parserPc = "signal" THEN 1 ELSE 0)

ParserWoken == parserPc = "waiting" => connectionQueue = <<>> \/ mainPc = "signal"

WakeInv == NoStaleTest /\ WorkersWoken /\ ParserWoken

LEMMA AlertFinite ==
  ASSUME NEW pcs
  PROVE  IsFiniteSet(Alert(pcs)) /\ Cardinality(Alert(pcs)) \in Nat
BY ServerAssumption, FS_Subset, FS_CardinalityType DEF Alert

\* The ways in which a step changes the number of alert workers.
LEMMA AlertGrows ==
  ASSUME NEW pcs, NEW pcs1, Alert(pcs) \subseteq Alert(pcs1)
  PROVE  Cardinality(Alert(pcs)) <= Cardinality(Alert(pcs1))
BY AlertFinite, FS_Subset

LEMMA AlertGains ==
  ASSUME NEW pcs, NEW pcs1, NEW w, w \notin Alert(pcs),
         Alert(pcs1) = Alert(pcs) \cup {w}
  PROVE  Cardinality(Alert(pcs1)) = Cardinality(Alert(pcs)) + 1
BY AlertFinite, FS_AddElement

LEMMA AlertLoses ==
  ASSUME NEW pcs, NEW pcs1, NEW w, w \in Alert(pcs),
         Alert(pcs1) = Alert(pcs) \ {w}
  PROVE  Cardinality(Alert(pcs1)) = Cardinality(Alert(pcs)) - 1
BY AlertFinite, FS_RemoveElement

\* The steps that touch neither a worker nor its queue, nor the parser's
\* obligation to signal.
LEMMA WorkersUntouched ==
  ASSUME WorkersWoken, UNCHANGED <<workerPc, schedulerQueue>>,
         parserPc = "signal" => parserPc' = "signal", Typed
  PROVE  WorkersWoken'
<1>1. Cardinality(Alert(workerPc)) \in Nat /\ Len(schedulerQueue) \in Nat
  BY AlertFinite, LenProperties DEF Typed, TypeOK
<1>2. QED
  BY <1>1 DEF WorkersWoken

\* The steps that take a request from the queue, leave the queue alone or add
\* a request, and change the number of alert workers by as much at least.
LEMMA BalanceKept ==
  ASSUME Typed, WorkersWoken, UNCHANGED parserPc, NEW d \in {-1, 0, 1},
         Len(schedulerQueue') = Len(schedulerQueue) + d,
         Waiting(workerPc') \subseteq Waiting(workerPc),
         Cardinality(Alert(workerPc')) >= Cardinality(Alert(workerPc)) + d
  PROVE  WorkersWoken'
<1>1. /\ Cardinality(Alert(workerPc)) \in Nat
      /\ Cardinality(Alert(workerPc')) \in Nat
      /\ Len(schedulerQueue) \in Nat
  BY AlertFinite, LenProperties DEF Typed, TypeOK
<1>2. QED
  BY <1>1 DEF WorkersWoken

\* The steps of one worker that leave the queue alone.
LEMMA WorkerStaysOrRises ==
  ASSUME Typed, WorkersWoken, NEW w \in Workers, NEW pc,
         workerPc[w] \notin {"waiting", "lock", "signal"}, pc # "waiting",
         workerPc' = [workerPc EXCEPT ![w] = pc],
         UNCHANGED <<schedulerQueue, parserPc>>
  PROVE  WorkersWoken'
<1>1. Waiting(workerPc') \subseteq Waiting(workerPc)
  BY DEF Waiting, Typed, TypeOK
<1>2. Alert(workerPc) \subseteq Alert(workerPc')
  BY DEF Alert, Typed, TypeOK
<1>3. Cardinality(Alert(workerPc)) <= Cardinality(Alert(workerPc'))
  BY <1>2, AlertGrows
<1>4. /\ Cardinality(Alert(workerPc)) \in Nat
      /\ Cardinality(Alert(workerPc')) \in Nat
      /\ Len(schedulerQueue) \in Nat
  BY AlertFinite, LenProperties DEF Typed, TypeOK
<1>5. /\ Cardinality(Alert(workerPc')) >= Cardinality(Alert(workerPc)) + 0
      /\ Len(schedulerQueue') = Len(schedulerQueue) + 0
  BY <1>3, <1>4
<1>6. QED
  BY <1>1, <1>5, BalanceKept

LEMMA InitWake == Init => WakeInv
BY DEF Init, WakeInv, NoStaleTest, WorkersWoken, ParserWoken, Waiting

LEMMA NextWake == Typed /\ WakeInv /\ [Next]_vars => WakeInv'
<1> SUFFICES ASSUME Typed, NoStaleTest, WorkersWoken, ParserWoken, [Next]_vars
             PROVE  NoStaleTest' /\ WorkersWoken' /\ ParserWoken'
  BY DEF WakeInv
<1> USE DEF envVars, mainVars, parserVars, workerVars, metricVars, kernelVars,
            history
<1>0. /\ Len(schedulerQueue) \in Nat
      /\ workerPc \in [Workers -> WorkerPcs]
      /\ \A pcs : Cardinality(Alert(pcs)) \in Nat
  BY LenProperties, AlertFinite DEF Typed, TypeOK
<1>1. CASE EnterAccept \/ AcceptFails \/ CheckShutdown \/ JoinParser
             \/ JoinWorkers \/ WriteMetrics
  BY <1>1, WorkersUntouched
     DEF EnterAccept, AcceptFails, CheckShutdown, JoinParser, JoinWorkers,
         WriteMetrics, NoStaleTest, ParserWoken
<1>2. CASE EnqueueConnection
  BY <1>2, WorkersUntouched
     DEF EnqueueConnection, ConnectionMutexFree, NoStaleTest, ParserWoken
<1>3. CASE SignalConnection \/ WakeParserForShutdown
  BY <1>3, WorkersUntouched
     DEF SignalConnection, WakeParserForShutdown, WakeParser, NoStaleTest,
         ParserWoken
<1>4. CASE BroadcastWorkers
  <2>1. Waiting(workerPc') = {}
    BY <1>4, <1>0 DEF BroadcastWorkers, WakeAll, Waiting
  <2>2. \A w \in Workers : workerPc'[w] = "toWait" => workerPc[w] = "toWait"
    BY <1>4, <1>0 DEF BroadcastWorkers, WakeAll
  <2>3. QED
    BY <1>4, <2>1, <2>2
       DEF BroadcastWorkers, WakeAll, NoStaleTest, WorkersWoken, ParserWoken
<1>5. CASE ParserTakes
  <2>1. connectionQueue # <<>> /\ parserPc = "lock" /\ parserPc' = "reading"
    BY <1>5 DEF ParserTakes
  <2>2. QED
    BY <1>5, <2>1, WorkersUntouched DEF ParserTakes, NoStaleTest, ParserWoken
<1>6. CASE ParserFindsNone \/ ParserWaits \/ ParserAnswers
  BY <1>6, WorkersUntouched
     DEF ParserFindsNone, LeaveOrWait, ParserWaits, ParserAnswers, NoStaleTest, ParserWoken
<1>7. CASE ParserAdmits
  <2>1. PICK r : schedulerQueue' = Append(schedulerQueue, r)
    BY <1>7 DEF ParserAdmits, Enqueued
  <2>2. Len(schedulerQueue') = Len(schedulerQueue) + 1
    BY <2>1 DEF Typed, TypeOK
  <2>3. /\ parserPc # "signal" /\ parserPc' = "signal"
        /\ workerPc' = workerPc /\ connectionQueue' = connectionQueue
        /\ \A w \in Workers : workerPc[w] # "toWait"
    BY <1>7 DEF ParserAdmits, SchedulerMutexFree
  <2>4. WorkersWoken'
    BY <1>0, <2>2, <2>3 DEF WorkersWoken
  <2>5. QED
    BY <2>3, <2>4 DEF NoStaleTest, ParserWoken
<1>8. CASE ParserSignals
  <2>1. /\ parserPc = "signal" /\ parserPc' = "lock"
        /\ UNCHANGED <<schedulerQueue, connectionQueue, mainPc>>
        /\ workerPc' \in WakeOneWorker(workerPc)
    BY <1>8 DEF ParserSignals
  <2>2. CASE Waiting(workerPc) = {}
    <3>1. workerPc' = workerPc
      BY <2>1, <2>2 DEF WakeOneWorker, Waiting
    <3>2. QED
      BY <2>1, <2>2, <3>1 DEF NoStaleTest, WorkersWoken, ParserWoken
  <2>3. CASE Waiting(workerPc) # {}
    <3>1. PICK w \in Waiting(workerPc) :
            workerPc' = [workerPc EXCEPT ![w] = "lock"]
      BY <2>1, <2>3 DEF WakeOneWorker, Waiting
    <3>2. w \notin Alert(workerPc) /\ Alert(workerPc') = Alert(workerPc) \cup {w}
      BY <1>0, <3>1 DEF Waiting, Alert
    <3>3. Cardinality(Alert(workerPc')) = Cardinality(Alert(workerPc)) + 1
      BY <3>2, AlertGains
    <3>4. WorkersWoken'
      BY <1>0, <2>1, <2>3, <3>3 DEF WorkersWoken
    <3>5. QED
      BY <1>0, <2>1, <3>1, <3>4 DEF NoStaleTest, ParserWoken, Waiting
  <2>4. QED
    BY <2>2, <2>3
<1>9. ASSUME NEW w \in Workers, WorkerTakes(w)
      PROVE  NoStaleTest' /\ WorkersWoken' /\ ParserWoken'
  <2>1. PICK k \in DOMAIN schedulerQueue :
          schedulerQueue' = RemoveAt(schedulerQueue, k)
    BY <1>9 DEF WorkerTakes
  <2>2. Len(schedulerQueue') = Len(schedulerQueue) - 1
    BY <2>1, RemoveAtType DEF Typed, TypeOK
  <2>3. /\ workerPc[w] = "lock" /\ workerPc' = [workerPc EXCEPT ![w] = "serving"]
        /\ UNCHANGED <<parserPc, connectionQueue, mainPc>>
        /\ \A v \in Workers : workerPc[v] # "toWait"
    BY <1>9 DEF WorkerTakes, SchedulerMutexFree
  <2>4. /\ Waiting(workerPc') \subseteq Waiting(workerPc)
        /\ w \in Alert(workerPc) /\ Alert(workerPc') = Alert(workerPc) \ {w}
    BY <1>0, <2>3 DEF Waiting, Alert
  <2>5. Cardinality(Alert(workerPc')) = Cardinality(Alert(workerPc)) - 1
    BY <2>4, AlertLoses
  <2>6. WorkersWoken'
    <3>1. /\ Cardinality(Alert(workerPc')) >= Cardinality(Alert(workerPc)) + (-1)
          /\ Len(schedulerQueue') = Len(schedulerQueue) + (-1)
      BY <1>0, <2>2, <2>5
    <3>2. QED
      BY <2>3, <2>4, <3>1, BalanceKept
  <2>7. QED
    BY <1>0, <2>3, <2>6 DEF NoStaleTest, ParserWoken
<1>10. ASSUME NEW w \in Workers, WorkerFindsNone(w) \/ WorkerWaits(w)
       PROVE  NoStaleTest' /\ WorkersWoken' /\ ParserWoken'
  <2>1. schedulerQueue = <<>> /\ schedulerQueue' = <<>>
    BY <1>10 DEF WorkerFindsNone, LeaveOrWait, WorkerWaits, NoStaleTest
  <2>2. WorkersWoken'
    BY <1>0, <2>1 DEF WorkersWoken
  <2>3. QED
    BY <1>10, <2>1, <2>2
       DEF WorkerFindsNone, LeaveOrWait, WorkerWaits, NoStaleTest, ParserWoken
<1>11. ASSUME NEW w \in Workers, ServeFails(w) \/ WorkerRecords(w)
       PROVE  NoStaleTest' /\ WorkersWoken' /\ ParserWoken'
  <2>1. /\ workerPc[w] \in {"serving", "record"}
        /\ workerPc' = [workerPc EXCEPT ![w] = "lock"]
        /\ UNCHANGED <<schedulerQueue, parserPc, connectionQueue, mainPc>>
    BY <1>11 DEF ServeFails, WorkerRecords
  <2>2. WorkersWoken'
    BY <2>1, WorkerStaysOrRises
  <2>3. QED
    BY <1>0, <2>1, <2>2 DEF NoStaleTest, ParserWoken
<1>12. ASSUME NEW w \in Workers, ServeCompletes(w) \/ ServeYields(w)
       PROVE  NoStaleTest' /\ WorkersWoken' /\ ParserWoken'
  <2>1. /\ workerPc[w] = "serving"
        /\ \E pc \in {"record", "requeue"} :
             workerPc' = [workerPc EXCEPT ![w] = pc]
        /\ UNCHANGED <<schedulerQueue, parserPc, connectionQueue, mainPc>>
    BY <1>12 DEF ServeCompletes, ServeYields
  <2>2. WorkersWoken'
    BY <2>1, WorkerStaysOrRises
  <2>3. QED
    BY <1>0, <2>1, <2>2 DEF NoStaleTest, ParserWoken
<1>13. ASSUME NEW w \in Workers, WorkerRequeues(w)
       PROVE  NoStaleTest' /\ WorkersWoken' /\ ParserWoken'
  <2>1. schedulerQueue' = Append(schedulerQueue, inHand[w])
    BY <1>13 DEF WorkerRequeues, Enqueued
  <2>2. Len(schedulerQueue') = Len(schedulerQueue) + 1
    BY <2>1 DEF Typed, TypeOK
  <2>3. /\ workerPc[w] = "requeue" /\ workerPc' = [workerPc EXCEPT ![w] = "signal"]
        /\ UNCHANGED <<parserPc, connectionQueue, mainPc>>
        /\ \A v \in Workers : workerPc[v] # "toWait"
    BY <1>13 DEF WorkerRequeues, SchedulerMutexFree
  <2>4. /\ Waiting(workerPc') \subseteq Waiting(workerPc)
        /\ w \notin Alert(workerPc) /\ Alert(workerPc') = Alert(workerPc) \cup {w}
    BY <1>0, <2>3 DEF Waiting, Alert
  <2>5. Cardinality(Alert(workerPc')) = Cardinality(Alert(workerPc)) + 1
    BY <2>4, AlertGains
  <2>6. WorkersWoken'
    <3>1. Cardinality(Alert(workerPc')) >= Cardinality(Alert(workerPc)) + 1
      BY <1>0, <2>5
    <3>2. QED
      BY <2>2, <2>3, <2>4, <3>1, BalanceKept
  <2>7. QED
    BY <1>0, <2>3, <2>6 DEF NoStaleTest, ParserWoken
<1>14. ASSUME NEW w \in Workers, WorkerSignals(w)
       PROVE  NoStaleTest' /\ WorkersWoken' /\ ParserWoken'
  <2> DEFINE woken == [workerPc EXCEPT ![w] = "lock"]
  <2>1. /\ workerPc[w] = "signal" /\ workerPc' \in WakeOneWorker(woken)
        /\ UNCHANGED <<schedulerQueue, parserPc, connectionQueue, mainPc>>
    BY <1>14 DEF WorkerSignals
  <2>2. \/ workerPc' = woken
        \/ \E v \in Workers : workerPc' = [woken EXCEPT ![v] = "lock"]
    BY <2>1 DEF WakeOneWorker
  <2>3. \A v \in Workers : workerPc'[v] \in {workerPc[v], "lock"}
    BY <1>0, <2>2
  <2>4. /\ Alert(workerPc) \subseteq Alert(workerPc')
        /\ Waiting(workerPc') \subseteq Waiting(workerPc)
    BY <2>3 DEF Alert, Waiting
  <2>5. Cardinality(Alert(workerPc)) <= Cardinality(Alert(workerPc'))
    BY <2>4, AlertGrows
  <2>6. WorkersWoken'
    BY <1>0, <2>1, <2>4, <2>5 DEF WorkersWoken
  <2>7. QED
    BY <2>1, <2>3, <2>6 DEF NoStaleTest, ParserWoken
<1>15. ASSUME NEW c \in Conns, Accept(c)
       PROVE  NoStaleTest' /\ WorkersWoken' /\ ParserWoken'
  BY <1>15, WorkersUntouched DEF Accept, NoStaleTest, ParserWoken
<1>16. CASE Signal
  BY <1>16, WorkersUntouched DEF Signal, NoStaleTest, ParserWoken
<1>17. CASE SpuriousWakeup
  <2>1. /\ parserPc' \in {parserPc, "lock"} /\ (parserPc' = parserPc \/ parserPc = "waiting")
        /\ \A v \in Workers : workerPc'[v] \in {workerPc[v], "lock"}
        /\ UNCHANGED <<schedulerQueue, connectionQueue, mainPc>>
    BY <1>17, <1>0 DEF SpuriousWakeup
  <2>2. /\ Alert(workerPc) \subseteq Alert(workerPc')
        /\ Waiting(workerPc') \subseteq Waiting(workerPc)
    BY <2>1 DEF Alert, Waiting
  <2>3. Cardinality(Alert(workerPc)) <= Cardinality(Alert(workerPc'))
    BY <2>2, AlertGrows
  <2>4. WorkersWoken'
    BY <1>0, <2>1, <2>2, <2>3 DEF WorkersWoken
  <2>5. QED
    BY <2>1, <2>4 DEF NoStaleTest, ParserWoken
<1>18. CASE UNCHANGED vars
  BY <1>18, WorkersUntouched DEF vars, NoStaleTest, ParserWoken
<1>19. QED
  BY <1>1, <1>2, <1>3, <1>4, <1>5, <1>6, <1>7, <1>8, <1>9, <1>10, <1>11, <1>12,
     <1>13, <1>14, <1>15, <1>16, <1>17, <1>18
     DEF Next, MainStep, ParserStep, WorkerStep, Environment

\* However many workers there are: while one sleeps, every queued request has
\* a worker or a signal on its way, and the parser never sleeps on a queue
\* nobody is about to signal; also with a shutdown and spurious wakeups.
THEOREM WakeupsNotLost == Spec => []NoLostWakeup
<1>1. WakeInv => NoLostWakeup
  BY DEF WakeInv, WorkersWoken, ParserWoken, NoLostWakeup
<1>2. QED
  BY <1>1, InitWake, NextWake, AlwaysTyped, PTL DEF Spec

-----------------------------------------------------------------------------
(* The inductive invariant behind StartsInArrivalOrder.                    *)

New(j) == schedulerQueue[j].rounds = 0   \* not picked up before

\* Nothing has a number that the parser has not given out yet.
NumbersGiven ==
  /\ \A j \in DOMAIN schedulerQueue : schedulerQueue[j].id < nextRequestId
  /\ \A i \in DOMAIN started : started[i] < nextRequestId

\* The new requests in the queue are in order, after all that have started.
NewInOrder ==
  /\ \A i, j \in DOMAIN schedulerQueue :
       i < j /\ New(i) /\ New(j) => schedulerQueue[i].id < schedulerQueue[j].id
  /\ \A i \in DOMAIN started, j \in DOMAIN schedulerQueue :
       New(j) => started[i] < schedulerQueue[j].id

\* What a worker may put back has been picked up before.
InHandNotNew ==
  \A w \in Workers : workerPc[w] \in Holding =>
    inHand[w].rounds > 0 /\ inHand[w].id < nextRequestId

OrderInv == NumbersGiven /\ NewInOrder /\ InHandNotNew /\ StartsInArrivalOrder

-----------------------------------------------------------------------------
(* Requests in the sequences the actions build.                            *)

LEMMA AppendElements ==
  ASSUME NEW S, NEW s \in Seq(S), NEW e \in S
  PROVE  /\ DOMAIN Append(s, e) = 1 .. Len(s) + 1 /\ Len(s) \in Nat
         /\ DOMAIN s = 1 .. Len(s)
         /\ \A i \in 1 .. Len(s) : Append(s, e)[i] = s[i]
         /\ Append(s, e)[Len(s) + 1] = e
BY AppendProperties, LenProperties

LEMMA HeadRemoved ==
  ASSUME NEW S, NEW s \in Seq(S), 1 \in DOMAIN s
  PROVE  /\ DOMAIN RemoveAt(s, 1) = 1 .. Len(s) - 1 /\ Len(s) \in Nat
         /\ DOMAIN s = 1 .. Len(s)
         /\ \A i \in 1 .. Len(s) - 1 : RemoveAt(s, 1)[i] = s[i + 1]
<1>1. DOMAIN s = 1 .. Len(s) /\ Len(s) \in Nat /\ Len(s) >= 1
  BY LenProperties
<1> DEFINE a == SubSeq(s, 1, 0)
           b == SubSeq(s, 2, Len(s))
<1>2. a \in Seq(S) /\ Len(a) = 0
  BY <1>1, SubSeqProperties
<1>3. /\ b \in Seq(S) /\ Len(b) = Len(s) - 1
      /\ \A i \in 1 .. Len(s) - 1 : b[i] = s[i + 1]
  BY <1>1, SubSeqProperties
<1>4. RemoveAt(s, 1) = a \o b
  BY DEF RemoveAt
<1> HIDE DEF a, b
<1>5. a \o b \in Seq(S) /\ Len(a \o b) = Len(s) - 1
  <2>1. a \o b \in Seq(S) /\ Len(a \o b) = Len(a) + Len(b)
    BY <1>2, <1>3, ConcatProperties
  <2>2. QED
    BY <1>1, <1>2, <1>3, <2>1
<1>6. ASSUME NEW i \in 1 .. Len(s) - 1 PROVE (a \o b)[i] = b[i]
  <2>1. i \in 1 .. Len(a) + Len(b) /\ ~ (i <= Len(a)) /\ i - Len(a) = i
    BY <1>1, <1>2, <1>3
  <2>2. (a \o b)[i] = IF i <= Len(a) THEN a[i] ELSE b[i - Len(a)]
    BY <1>2, <1>3, <2>1, ConcatProperties
  <2>3. QED
    BY <2>1, <2>2
<1>7. DOMAIN (a \o b) = 1 .. Len(s) - 1
  BY <1>5, LenProperties
<1>8. \A i \in 1 .. Len(s) - 1 : (a \o b)[i] = s[i + 1]
  BY <1>3, <1>6
<1>9. QED
  BY <1>1, <1>4, <1>7, <1>8

\* What the queue, the workers and the history hold.
LEMMA Elements ==
  ASSUME Typed
  PROVE  /\ \A j \in DOMAIN schedulerQueue : schedulerQueue[j] \in Request
         /\ \A i \in DOMAIN started : started[i] \in Nat
         /\ \A w \in Workers : inHand[w].id \in Nat /\ inHand[w].rounds \in Nat
         /\ \A r \in Request : r.id \in Nat /\ r.rounds \in Nat
<1>1. schedulerQueue \in Seq(Request) /\ started \in Seq(Nat)
  BY DEF Typed, TypeOK
<1>2. \A j \in DOMAIN schedulerQueue : schedulerQueue[j] \in Request
  BY <1>1, LenProperties, ElementOfSeq
<1>3. \A i \in DOMAIN started : started[i] \in Nat
  BY <1>1, LenProperties, ElementOfSeq
<1>4. \A r \in Request : r.id \in Nat /\ r.rounds \in Nat
  BY DEF Request
<1>5. NoRequest.id \in Nat /\ NoRequest.rounds \in Nat
  BY DEF NoRequest
<1>6. \A w \in Workers : inHand[w] \in Request \cup {NoRequest}
  BY DEF Typed, TypeOK
<1>7. QED
  BY <1>2, <1>3, <1>4, <1>5, <1>6

-----------------------------------------------------------------------------
\* The steps that neither queue nor start a request.
LEMMA OrderUntouched ==
  ASSUME OrderInv, UNCHANGED <<schedulerQueue, started, nextRequestId>>,
         \A w \in Workers : workerPc'[w] \in Holding =>
           workerPc[w] \in Holding /\ inHand'[w] = inHand[w]
  PROVE  OrderInv'
BY DEF OrderInv, NumbersGiven, NewInOrder, New, InHandNotNew,
       StartsInArrivalOrder, Holding

LEMMA InitOrder == Init => OrderInv
BY DEF Init, OrderInv, NumbersGiven, NewInOrder, New, InHandNotNew,
       StartsInArrivalOrder, Holding

LEMMA AdmitsInOrder == Typed /\ Typed' /\ OrderInv /\ ParserAdmits => OrderInv'
<1> SUFFICES ASSUME Typed, Typed', OrderInv, ParserAdmits PROVE OrderInv'
  OBVIOUS
<1>1. PICK r : /\ schedulerQueue' = Append(schedulerQueue, r)
               /\ r.id = nextRequestId
  BY DEF ParserAdmits, Enqueued
<1>2. /\ nextRequestId' = nextRequestId + 1 /\ nextRequestId \in Nat
      /\ UNCHANGED <<started, inHand, workerPc>>
  BY DEF ParserAdmits, workerVars, Typed, TypeOK
<1>3. /\ schedulerQueue \in Seq(Request)
      /\ \A j \in DOMAIN schedulerQueue : schedulerQueue[j].id \in Nat
      /\ \A i \in DOMAIN started : started[i] \in Nat
      /\ \A w \in Workers : inHand[w].id \in Nat
  BY Elements DEF Typed, TypeOK
<1> DEFINE n == Len(schedulerQueue)
<1>4. /\ n \in Nat /\ DOMAIN schedulerQueue = 1 .. n
      /\ DOMAIN schedulerQueue' = 1 .. n + 1
      /\ \A j \in 1 .. n : schedulerQueue'[j] = schedulerQueue[j]
      /\ schedulerQueue'[n + 1] = r
  BY <1>1, <1>3, LenProperties DEF Typed, TypeOK
<1> HIDE DEF n
<1>5. NumbersGiven'
  BY <1>1, <1>2, <1>3, <1>4 DEF OrderInv, NumbersGiven
<1>6. NewInOrder'
  BY <1>1, <1>2, <1>3, <1>4 DEF OrderInv, NumbersGiven, NewInOrder, New
<1>7. InHandNotNew'
  BY <1>2, <1>3 DEF OrderInv, InHandNotNew
<1>8. StartsInArrivalOrder'
  BY <1>2 DEF OrderInv, StartsInArrivalOrder
<1>9. QED
  BY <1>5, <1>6, <1>7, <1>8 DEF OrderInv

LEMMA TakesInOrder ==
  ASSUME Typed, OrderInv, Policy # "sjf", NEW w \in Workers, WorkerTakes(w)
  PROVE  OrderInv'
<1> DEFINE n == Len(schedulerQueue)
           r == schedulerQueue[1]
<1>1. /\ 1 \in DOMAIN schedulerQueue
      /\ schedulerQueue' = RemoveAt(schedulerQueue, 1)
      /\ inHand' = [inHand EXCEPT ![w] = [r EXCEPT !.rounds = @ + 1]]
      /\ started' = IF r.rounds = 0 THEN Append(started, r.id) ELSE started
      /\ workerPc' = [workerPc EXCEPT ![w] = "serving"]
      /\ UNCHANGED nextRequestId
  BY DEF WorkerTakes, Selected, parserVars
<1>2. /\ schedulerQueue \in Seq(Request) /\ started \in Seq(Nat)
      /\ inHand \in [Workers -> Request \cup {NoRequest}]
      /\ workerPc \in [Workers -> WorkerPcs]
      /\ nextRequestId \in Nat
  BY DEF Typed, TypeOK
<1>3. /\ n \in Nat /\ DOMAIN schedulerQueue = 1 .. n
      /\ DOMAIN schedulerQueue' = 1 .. n - 1
      /\ \A j \in 1 .. n - 1 : schedulerQueue'[j] = schedulerQueue[j + 1]
  <2>1. schedulerQueue \in Seq(Request) /\ 1 \in DOMAIN schedulerQueue
    BY <1>1, <1>2
  <2> HIDE DEF n, r
  <2>2. QED
    BY <1>1, <2>1, HeadRemoved DEF n
<1>4. /\ \A j \in 1 .. n : /\ schedulerQueue[j].id \in Nat
                           /\ schedulerQueue[j].rounds \in Nat
      /\ \A i \in DOMAIN started : started[i] \in Nat
      /\ r \in Request
  BY <1>1, <1>3, Elements
<1>5. \A i \in DOMAIN started' :
        \/ i \in DOMAIN started /\ started'[i] = started[i]
        \/ /\ r.rounds = 0 /\ started'[i] = r.id
           /\ \A k \in DOMAIN started' : k <= i
  <2>1. CASE r.rounds = 0
    BY <1>1, <1>2, <1>4, <2>1, AppendElements
  <2>2. CASE r.rounds # 0
    BY <1>1, <2>2
  <2>3. QED
    BY <2>1, <2>2
<1>6. DOMAIN started' \subseteq Nat
  BY <1>1, <1>2, <1>4, AppendElements, LenProperties
<1> HIDE DEF n, r
<1>7. 1 \in 1 .. n /\ r = schedulerQueue[1]
  BY <1>1, <1>3 DEF r
<1>8. NumbersGiven'
  <2>1. \A j \in DOMAIN schedulerQueue' : schedulerQueue'[j].id < nextRequestId
    BY <1>3 DEF OrderInv, NumbersGiven
  <2>2. \A i \in DOMAIN started' : started'[i] < nextRequestId
    BY <1>3, <1>5, <1>7 DEF OrderInv, NumbersGiven
  <2>3. QED
    BY <1>1, <2>1, <2>2 DEF NumbersGiven
<1>9. NewInOrder'
  <2>1. ASSUME NEW i \in DOMAIN schedulerQueue', NEW j \in DOMAIN schedulerQueue',
               i < j, New(i)', New(j)'
        PROVE  schedulerQueue'[i].id < schedulerQueue'[j].id
    <3>1. /\ i + 1 \in 1 .. n /\ j + 1 \in 1 .. n /\ i + 1 < j + 1
          /\ New(i + 1) /\ New(j + 1)
          /\ schedulerQueue'[i] = schedulerQueue[i + 1]
          /\ schedulerQueue'[j] = schedulerQueue[j + 1]
      BY <1>3, <2>1 DEF New
    <3>2. QED
      BY <1>3, <3>1 DEF OrderInv, NewInOrder
  <2>2. ASSUME NEW i \in DOMAIN started', NEW j \in DOMAIN schedulerQueue', New(j)'
        PROVE  started'[i] < schedulerQueue'[j].id
    <3>1. j + 1 \in 1 .. n /\ New(j + 1) /\ schedulerQueue'[j] = schedulerQueue[j + 1]
      BY <1>3, <2>2 DEF New
    <3>2. CASE i \in DOMAIN started /\ started'[i] = started[i]
      BY <1>3, <3>1, <3>2 DEF OrderInv, NewInOrder
    <3>3. CASE r.rounds = 0 /\ started'[i] = r.id
      <4>1. New(1) /\ 1 < j + 1
        BY <1>3, <1>7, <3>3 DEF New
      <4>2. QED
        BY <1>3, <1>7, <3>1, <3>3, <4>1 DEF OrderInv, NewInOrder
    <3>4. QED
      BY <1>5, <3>2, <3>3
  <2>3. QED
    BY <2>1, <2>2 DEF NewInOrder
<1>10. InHandNotNew'
  <2>1. /\ inHand'[w].rounds > 0 /\ inHand'[w].id < nextRequestId
    BY <1>1, <1>2, <1>3, <1>4, <1>7 DEF OrderInv, NumbersGiven, Request
  <2>2. \A v \in Workers \ {w} : inHand'[v] = inHand[v] /\ workerPc'[v] = workerPc[v]
    BY <1>1, <1>2
  <2>3. QED
    BY <1>1, <2>1, <2>2 DEF OrderInv, InHandNotNew
<1>11. StartsInArrivalOrder'
  <2>1. ASSUME NEW i \in DOMAIN started', NEW j \in DOMAIN started', i < j
        PROVE  started'[i] < started'[j]
    <3>1. i \in DOMAIN started /\ started'[i] = started[i]
      BY <1>5, <1>6, <2>1
    <3>2. CASE j \in DOMAIN started /\ started'[j] = started[j]
      BY <2>1, <3>1, <3>2 DEF OrderInv, StartsInArrivalOrder
    <3>3. CASE r.rounds = 0 /\ started'[j] = r.id
      BY <1>3, <1>7, <3>1, <3>3 DEF OrderInv, NewInOrder, New
    <3>4. QED
      BY <1>5, <3>2, <3>3
  <2>2. QED
    BY <2>1 DEF StartsInArrivalOrder
<1>12. QED
  BY <1>8, <1>9, <1>10, <1>11 DEF OrderInv

LEMMA RequeuesInOrder ==
  ASSUME Typed, OrderInv, NEW w \in Workers, WorkerRequeues(w)
  PROVE  OrderInv'
<1>1. /\ workerPc[w] = "requeue"
      /\ schedulerQueue' = Append(schedulerQueue, inHand[w])
      /\ inHand' = [inHand EXCEPT ![w] = NoRequest]
      /\ workerPc' = [workerPc EXCEPT ![w] = "signal"]
      /\ UNCHANGED <<nextRequestId, started>>
  BY DEF WorkerRequeues, Enqueued, parserVars
<1>2. /\ schedulerQueue \in Seq(Request) /\ inHand[w] \in Request
      /\ inHand \in [Workers -> Request \cup {NoRequest}]
      /\ workerPc \in [Workers -> WorkerPcs]
  BY <1>1 DEF Typed, TypeOK, HandsFull, Holding
<1> DEFINE n == Len(schedulerQueue)
<1>3. /\ n \in Nat /\ DOMAIN schedulerQueue = 1 .. n
      /\ DOMAIN schedulerQueue' = 1 .. n + 1
      /\ \A j \in 1 .. n : schedulerQueue'[j] = schedulerQueue[j]
      /\ schedulerQueue'[n + 1] = inHand[w]
  BY <1>1, <1>2, AppendElements
<1> HIDE DEF n
<1>4. inHand[w].rounds > 0 /\ inHand[w].rounds # 0 /\ inHand[w].id < nextRequestId
  BY <1>1, <1>2 DEF OrderInv, InHandNotNew, Holding, Request
<1>5. NumbersGiven'
  BY <1>1, <1>3, <1>4 DEF OrderInv, NumbersGiven
<1>6. NewInOrder'
  BY <1>1, <1>3, <1>4 DEF OrderInv, NewInOrder, New
<1>7. InHandNotNew'
  BY <1>1, <1>2 DEF OrderInv, InHandNotNew, Holding
<1>8. QED
  BY <1>1, <1>5, <1>6, <1>7 DEF OrderInv, StartsInArrivalOrder

LEMMA NextOrder ==
  ASSUME Policy # "sjf", Typed, Typed', OrderInv, [Next]_vars
  PROVE  OrderInv'
<1> USE DEF envVars, mainVars, parserVars, workerVars, metricVars, kernelVars,
            history
<1>0. workerPc \in [Workers -> WorkerPcs]
  BY DEF Typed, TypeOK
<1>1. CASE MainStep
  <2>1. /\ UNCHANGED <<schedulerQueue, started, nextRequestId, inHand>>
        /\ \A w \in Workers : workerPc'[w] \in {workerPc[w], "lock"}
    BY <1>0, <1>1
       DEF MainStep, EnterAccept, AcceptFails, EnqueueConnection,
           SignalConnection, CheckShutdown, WakeParserForShutdown, JoinParser,
           BroadcastWorkers, WakeAll, JoinWorkers, WriteMetrics
  <2>2. QED
    BY <2>1, OrderUntouched DEF Holding
<1>2. CASE ParserTakes \/ ParserFindsNone \/ ParserWaits \/ ParserAnswers
  BY <1>2, OrderUntouched
     DEF ParserTakes, ParserFindsNone, ParserWaits, ParserAnswers
<1>3. CASE ParserAdmits
  BY <1>3, AdmitsInOrder
<1>4. CASE ParserSignals
  <2>1. /\ UNCHANGED <<schedulerQueue, started, nextRequestId, inHand>>
        /\ \A w \in Workers : workerPc'[w] \in {workerPc[w], "lock"}
    BY <1>0, <1>4 DEF ParserSignals, WakeOneWorker
  <2>2. QED
    BY <2>1, OrderUntouched DEF Holding
<1>5. ASSUME NEW w \in Workers, WorkerTakes(w) PROVE OrderInv'
  BY <1>5, TakesInOrder
<1>6. ASSUME NEW w \in Workers, WorkerRequeues(w) PROVE OrderInv'
  BY <1>6, RequeuesInOrder
<1>7. ASSUME NEW w \in Workers, ServeYields(w) PROVE OrderInv'
  BY <1>0, <1>7, OrderUntouched DEF ServeYields, Holding
<1>8. ASSUME NEW w \in Workers,
             \/ WorkerFindsNone(w) \/ WorkerWaits(w) \/ ServeFails(w)
             \/ ServeCompletes(w) \/ WorkerRecords(w)
      PROVE  OrderInv'
  <2>1. /\ UNCHANGED <<schedulerQueue, started, nextRequestId>>
        /\ \E pc \in WorkerPcs \ Holding : workerPc' = [workerPc EXCEPT ![w] = pc]
        /\ \A v \in Workers \ {w} : inHand'[v] = inHand[v]
    BY <1>8 DEF WorkerFindsNone, LeaveOrWait, WorkerWaits, ServeFails,
                ServeCompletes, WorkerRecords, Holding, WorkerPcs, Typed, TypeOK
  <2>2. QED
    BY <1>0, <2>1, OrderUntouched
<1>9. ASSUME NEW w \in Workers, WorkerSignals(w) PROVE OrderInv'
  <2>1. /\ UNCHANGED <<schedulerQueue, started, nextRequestId, inHand>>
        /\ \A v \in Workers : workerPc'[v] \in {workerPc[v], "lock"}
    BY <1>0, <1>9 DEF WorkerSignals, WakeOneWorker
  <2>2. QED
    BY <2>1, OrderUntouched DEF Holding
<1>10. CASE Environment
  <2>1. /\ UNCHANGED <<schedulerQueue, started, nextRequestId, inHand>>
        /\ \A w \in Workers : workerPc'[w] \in {workerPc[w], "lock"}
    BY <1>0, <1>10 DEF Environment, Accept, Signal, SpuriousWakeup
  <2>2. QED
    BY <2>1, OrderUntouched DEF Holding
<1>11. CASE UNCHANGED vars
  BY <1>11, OrderUntouched DEF vars
<1>12. QED
  BY <1>1, <1>2, <1>3, <1>4, <1>5, <1>6, <1>7, <1>8, <1>9, <1>10, <1>11
     DEF Next, ParserStep, WorkerStep

\* Under fcfs, rr and drr requests start in the order in which the parser
\* admitted them, for any number of workers and any interleaving of admissions,
\* pickups and requeues.
THEOREM StartsOrdered ==
  ASSUME Policy # "sjf"
  PROVE  Spec => []StartsInArrivalOrder
<1>1. Typed /\ Typed' /\ OrderInv /\ [Next]_vars => OrderInv'
  BY NextOrder
<1>2. OrderInv => StartsInArrivalOrder
  BY DEF OrderInv
<1>3. QED
  BY <1>1, <1>2, InitOrder, AlwaysTyped, PTL DEF Spec

-----------------------------------------------------------------------------
(* The inductive invariant behind DescriptorHeldOnce.                      *)

Serving(w) == workerPc[w] \in Holding

\* A thread keeps no number of a descriptor it has passed on or closed.
HandsEmpty ==
  /\ mainPc # "enqueue" => mainFd = NoFd
  /\ parserPc # "reading" => parserFd = NoFd

\* Any two holders hold different descriptors.
HoldersApart ==
  /\ mainFd # NoFd => mainFd # parserFd
  /\ \A i \in DOMAIN connectionQueue :
       /\ connectionQueue[i] # mainFd /\ connectionQueue[i] # parserFd
       /\ \A j \in DOMAIN connectionQueue :
            i # j => connectionQueue[i] # connectionQueue[j]
       /\ \A j \in DOMAIN schedulerQueue :
            connectionQueue[i] # schedulerQueue[j].fd
       /\ \A w \in Workers : Serving(w) => connectionQueue[i] # inHand[w].fd
  /\ \A i \in DOMAIN schedulerQueue :
       /\ schedulerQueue[i].fd # mainFd /\ schedulerQueue[i].fd # parserFd
       /\ \A j \in DOMAIN schedulerQueue :
            i # j => schedulerQueue[i].fd # schedulerQueue[j].fd
       /\ \A w \in Workers : Serving(w) => schedulerQueue[i].fd # inHand[w].fd
  /\ \A w \in Workers : Serving(w) =>
       /\ inHand[w].fd # mainFd /\ inHand[w].fd # parserFd
       /\ \A v \in Workers : Serving(v) /\ v # w => inHand[v].fd # inHand[w].fd

\* The request still has the connection it came from.
Connection(r) == owner[r.fd] = r.conn /\ r.conn # NoConn

\* What is held is open, and what is held in a request belongs to it.
HeldIsOpen ==
  /\ mainFd # NoFd => owner[mainFd] # NoConn
  /\ parserFd # NoFd => owner[parserFd] # NoConn
  /\ \A i \in DOMAIN connectionQueue : owner[connectionQueue[i]] # NoConn
  /\ \A j \in DOMAIN schedulerQueue : Connection(schedulerQueue[j])
  /\ \A w \in Workers : Serving(w) => Connection(inHand[w])

DescriptorInv == HandsEmpty /\ HoldersApart /\ HeldIsOpen

-----------------------------------------------------------------------------
(* Descriptors in the sequences the actions build.                         *)

\* RemoveAt keeps the elements before the position and moves up the others.
LEMMA OneRemoved ==
  ASSUME NEW S, NEW s \in Seq(S), NEW k \in DOMAIN s
  PROVE  /\ DOMAIN RemoveAt(s, k) = 1 .. Len(s) - 1
         /\ DOMAIN s = 1 .. Len(s) /\ Len(s) \in Nat
         /\ \A i \in 1 .. Len(s) - 1 :
              RemoveAt(s, k)[i] = s[IF i < k THEN i ELSE i + 1]
<1>1. DOMAIN s = 1 .. Len(s) /\ Len(s) \in Nat /\ k \in 1 .. Len(s)
  BY LenProperties
<1> DEFINE a == SubSeq(s, 1, k - 1)
           b == SubSeq(s, k + 1, Len(s))
<1>2. /\ a \in Seq(S) /\ Len(a) = k - 1
      /\ \A i \in 1 .. k - 1 : a[i] = s[i]
  BY <1>1, SubSeqProperties
<1>3. /\ b \in Seq(S) /\ Len(b) = Len(s) - k
      /\ \A i \in 1 .. Len(s) - k : b[i] = s[k + i]
  BY SMTT(30), <1>1, SubSeqProperties
<1>4. RemoveAt(s, k) = a \o b
  BY DEF RemoveAt
<1> HIDE DEF a, b
<1>5. a \o b \in Seq(S) /\ Len(a \o b) = Len(s) - 1
  <2>1. a \o b \in Seq(S) /\ Len(a \o b) = Len(a) + Len(b)
    BY <1>2, <1>3, ConcatProperties
  <2>2. QED
    BY <1>1, <1>2, <1>3, <2>1
<1>6. ASSUME NEW i \in 1 .. Len(s) - 1
      PROVE  (a \o b)[i] = s[IF i < k THEN i ELSE i + 1]
  <2>1. i \in 1 .. Len(a) + Len(b)
    BY <1>1, <1>2, <1>3
  <2>2. (a \o b)[i] = IF i <= Len(a) THEN a[i] ELSE b[i - Len(a)]
    BY <1>2, <1>3, <2>1, ConcatProperties
  <2>3. CASE i < k
    BY <1>1, <1>2, <2>2, <2>3
  <2>4. CASE ~(i < k)
    <3>1. ~(i <= Len(a)) /\ i - Len(a) \in 1 .. Len(s) - k
          /\ k + (i - Len(a)) = i + 1
      BY <1>1, <1>2, <2>4
    <3>2. QED
      BY <1>3, <2>2, <2>4, <3>1
  <2>5. QED
    BY <2>3, <2>4
<1>7. DOMAIN (a \o b) = 1 .. Len(s) - 1
  BY <1>5, LenProperties
<1>8. QED
  BY <1>1, <1>4, <1>6, <1>7

\* Every number somebody holds is that of a descriptor.
LEMMA HeldFds ==
  ASSUME Typed
  PROVE  /\ \A i \in DOMAIN connectionQueue : connectionQueue[i] \in Fds
         /\ \A j \in DOMAIN schedulerQueue : schedulerQueue[j].fd \in Fds
         /\ \A w \in Workers : Serving(w) => inHand[w].fd \in Fds
         /\ parserFd # NoFd => parserFd \in Fds
         /\ mainFd # NoFd => mainFd \in Fds
         /\ NoFd \notin Fds
<1>1. \A i \in DOMAIN connectionQueue : connectionQueue[i] \in Fds
  BY LenProperties, ElementOfSeq DEF Typed, TypeOK
<1>2. \A r \in Request : r.fd \in Fds
  BY DEF Request
<1>3. \A j \in DOMAIN schedulerQueue : schedulerQueue[j].fd \in Fds
  BY <1>2, Elements
<1>4. \A w \in Workers : Serving(w) => inHand[w].fd \in Fds
  BY <1>2 DEF Typed, HandsFull, Serving
<1>5. QED
  BY <1>1, <1>3, <1>4 DEF Typed, TypeOK, Fds, NoFd

-----------------------------------------------------------------------------
\* The steps that pass no descriptor on.
LEMMA DescriptorsUntouched ==
  ASSUME DescriptorInv, HandsEmpty',
         UNCHANGED <<mainFd, connectionQueue, parserFd, schedulerQueue, owner>>,
         \A w \in Workers : workerPc'[w] \in Holding =>
           workerPc[w] \in Holding /\ inHand'[w] = inHand[w]
  PROVE  DescriptorInv'
BY DEF DescriptorInv, HoldersApart, HeldIsOpen, Serving, Connection

LEMMA InitDescriptors == Init => DescriptorInv
BY DEF Init, DescriptorInv, HandsEmpty, HoldersApart, HeldIsOpen, Serving,
       Holding, NoFd

\* The new descriptor is not open, so nobody holds it.
LEMMA AcceptKeepsApart ==
  ASSUME Typed, DescriptorInv, NEW c \in Conns, Accept(c)
  PROVE  DescriptorInv'
<1>1. /\ UNCHANGED <<connectionQueue, parserPc, parserFd, schedulerQueue,
                     workerPc, inHand>>
      /\ mainPc = "accept" /\ mainFd = NoFd
  BY DEF Accept, parserVars, workerVars, DescriptorInv, HandsEmpty
<1>2. CASE UNCHANGED <<owner, mainFd>> /\ mainPc' = "loop"
  BY <1>1, <1>2, DescriptorsUntouched DEF DescriptorInv, HandsEmpty
<1>3. ASSUME NEW f \in Fds, owner[f] = NoConn, mainFd' = f, mainPc' = "enqueue",
             owner' = [owner EXCEPT ![f] = c]
      PROVE  DescriptorInv'
  <2>1. /\ c # NoConn /\ owner'[f] = c /\ f # NoFd
        /\ \A g \in Fds \ {f} : owner'[g] = owner[g]
    BY <1>3, ServerAssumption DEF Typed, TypeOK, Fds, NoFd
  <2>2. /\ \A i \in DOMAIN connectionQueue :
             connectionQueue[i] \in Fds \ {f}
        /\ \A j \in DOMAIN schedulerQueue : schedulerQueue[j].fd \in Fds \ {f}
        /\ \A w \in Workers : Serving(w) => inHand[w].fd \in Fds \ {f}
        /\ parserFd # NoFd => parserFd \in Fds \ {f}
    BY <1>3, HeldFds
       DEF DescriptorInv, HeldIsOpen, Connection
  <2>3. HandsEmpty'
    BY <1>1, <1>3 DEF DescriptorInv, HandsEmpty
  <2>4. HoldersApart'
    BY <1>1, <1>3, <2>1, <2>2 DEF DescriptorInv, HoldersApart, Serving
  <2>5. HeldIsOpen'
    BY <1>1, <1>3, <2>1, <2>2 DEF DescriptorInv, HeldIsOpen, Connection, Serving
  <2>6. QED
    BY <2>3, <2>4, <2>5 DEF DescriptorInv
<1>4. QED
  BY <1>2, <1>3 DEF Accept, LowestFree, FreeFds

LEMMA EnqueueKeepsApart ==
  ASSUME Typed, DescriptorInv, EnqueueConnection
  PROVE  DescriptorInv'
<1> DEFINE n == Len(connectionQueue)
<1>1. /\ connectionQueue' = Append(connectionQueue, mainFd)
      /\ mainPc = "enqueue" /\ mainPc' = "signal" /\ mainFd' = NoFd
      /\ mainFd \in Fds /\ NoFd \notin Fds
      /\ UNCHANGED <<parserPc, parserFd, schedulerQueue, workerPc, inHand, owner>>
  BY DEF EnqueueConnection, parserVars, workerVars, kernelVars, Typed,
         HandsFull, Fds, NoFd
<1>2. /\ n \in Nat /\ DOMAIN connectionQueue = 1 .. n
      /\ DOMAIN connectionQueue' = 1 .. n + 1
      /\ \A i \in 1 .. n : connectionQueue'[i] = connectionQueue[i]
      /\ connectionQueue'[n + 1] = mainFd
  <2>1. connectionQueue \in Seq(Fds)
    BY DEF Typed, TypeOK
  <2>2. QED
    BY <1>1, <2>1, AppendElements
<1> HIDE DEF n
<1>3. \A i \in 1 .. n + 1 : i \in 1 .. n \/ i = n + 1
  BY <1>2
<1>4. HandsEmpty'
  BY <1>1 DEF DescriptorInv, HandsEmpty
<1>5. HoldersApart'
  BY <1>1, <1>2, <1>3, HeldFds DEF DescriptorInv, HoldersApart, Serving
<1>6. HeldIsOpen'
  BY <1>1, <1>2, <1>3 DEF DescriptorInv, HeldIsOpen, Connection, Serving
<1>7. QED
  BY <1>4, <1>5, <1>6 DEF DescriptorInv

LEMMA ParserTakesApart ==
  ASSUME Typed, DescriptorInv, ParserTakes
  PROVE  DescriptorInv'
<1> DEFINE n == Len(connectionQueue)
<1>1. /\ connectionQueue # <<>> /\ connectionQueue \in Seq(Fds)
      /\ parserFd' = Head(connectionQueue) /\ parserPc' = "reading"
      /\ connectionQueue' = Tail(connectionQueue)
      /\ UNCHANGED <<mainPc, mainFd, schedulerQueue, workerPc, inHand, owner>>
      /\ parserPc = "lock" /\ parserFd = NoFd
  BY DEF ParserTakes, mainVars, workerVars, kernelVars, Typed, TypeOK,
         DescriptorInv, HandsEmpty
<1>2. /\ n \in Nat /\ n >= 1 /\ DOMAIN connectionQueue = 1 .. n
      /\ DOMAIN connectionQueue' = 1 .. n - 1
      /\ \A i \in 1 .. n - 1 : connectionQueue'[i] = connectionQueue[i + 1]
      /\ parserFd' = connectionQueue[1]
  BY <1>1, HeadTailProperties, LenProperties, EmptySeq
<1> HIDE DEF n
<1>3. \A i \in 1 .. n - 1 : i + 1 \in 1 .. n /\ i + 1 # 1
  BY <1>2
<1>4. 1 \in 1 .. n
  BY <1>2
<1>5. HandsEmpty'
  BY <1>1 DEF DescriptorInv, HandsEmpty
<1>6. HoldersApart'
  <2>0. \A i, j \in 1 .. n : i # j => connectionQueue[i] # connectionQueue[j]
    BY <1>2 DEF DescriptorInv, HoldersApart
  <2>1. ASSUME NEW i \in 1 .. n - 1, NEW j \in 1 .. n - 1, i # j
        PROVE  connectionQueue'[i] # connectionQueue'[j]
    <3>1. i + 1 \in 1 .. n /\ j + 1 \in 1 .. n /\ i + 1 # j + 1
      BY <1>2, <2>1
    <3>2. QED
      BY <1>2, <2>0, <3>1
  <2>2. ASSUME NEW i \in 1 .. n - 1
        PROVE  /\ connectionQueue'[i] # mainFd /\ connectionQueue'[i] # parserFd'
               /\ \A j \in DOMAIN schedulerQueue :
                    connectionQueue'[i] # schedulerQueue[j].fd
               /\ \A w \in Workers :
                    Serving(w) => connectionQueue'[i] # inHand[w].fd
    <3>1. i + 1 \in DOMAIN connectionQueue /\ i + 1 # 1
      BY <1>2, <1>3
    <3>2. connectionQueue'[i] = connectionQueue[i + 1]
      BY <1>2
    <3>3. connectionQueue'[i] # parserFd'
      BY <1>2, <1>4, <2>0, <3>1, <3>2
    <3>4. QED
      BY <3>1, <3>2, <3>3 DEF DescriptorInv, HoldersApart
  <2>3. /\ parserFd' # mainFd
        /\ \A j \in DOMAIN schedulerQueue : schedulerQueue[j].fd # parserFd'
        /\ \A w \in Workers : Serving(w) => inHand[w].fd # parserFd'
    BY <1>2, <1>4 DEF DescriptorInv, HoldersApart
  <2>4. QED
    BY <1>1, <1>2, <2>1, <2>2, <2>3 DEF DescriptorInv, HoldersApart, Serving
<1>7. HeldIsOpen'
  BY <1>1, <1>2, <1>3, <1>4 DEF DescriptorInv, HeldIsOpen, Connection, Serving
<1>8. QED
  BY <1>5, <1>6, <1>7 DEF DescriptorInv

LEMMA AnswerKeepsApart ==
  ASSUME Typed, DescriptorInv, ParserAnswers
  PROVE  DescriptorInv'
<1>1. /\ parserPc = "reading" /\ parserPc' = "lock" /\ parserFd' = NoFd
      /\ parserFd \in Fds /\ owner' = [owner EXCEPT ![parserFd] = NoConn]
      /\ UNCHANGED <<mainPc, mainFd, connectionQueue, schedulerQueue, workerPc,
                     inHand>>
  BY DEF ParserAnswers, Closed, mainVars, workerVars, Typed, HandsFull
<1>2. \A g \in Fds \ {parserFd} : owner'[g] = owner[g]
  BY <1>1 DEF Typed, TypeOK
<1>3. HandsEmpty'
  BY <1>1 DEF DescriptorInv, HandsEmpty
<1>4. HoldersApart'
  BY <1>1, HeldFds DEF DescriptorInv, HoldersApart, Serving
<1>5. HeldIsOpen'
  BY <1>1, <1>2, HeldFds
     DEF DescriptorInv, HoldersApart, HeldIsOpen, Connection, Serving
<1>6. QED
  BY <1>3, <1>4, <1>5 DEF DescriptorInv

LEMMA AdmitsApart ==
  ASSUME Typed, DescriptorInv, ParserAdmits
  PROVE  DescriptorInv'
<1> DEFINE n == Len(schedulerQueue)
<1>1. PICK t \in Totals : schedulerQueue' = Append(schedulerQueue,
         [id |-> nextRequestId, fd |-> parserFd, conn |-> owner[parserFd],
          total |-> t, rounds |-> 0])
  BY DEF ParserAdmits, Enqueued
<1> DEFINE r == [id |-> nextRequestId, fd |-> parserFd, conn |-> owner[parserFd],
                 total |-> t, rounds |-> 0]
<1>2. /\ parserPc = "reading" /\ parserPc' = "signal" /\ parserFd' = NoFd
      /\ parserFd \in Fds /\ NoFd \notin Fds
      /\ UNCHANGED <<mainPc, mainFd, connectionQueue, workerPc, inHand, owner>>
  BY DEF ParserAdmits, mainVars, workerVars, kernelVars, Typed, HandsFull, Fds, NoFd
<1>3. r \in Request
  BY <1>2, ServerAssumption DEF Typed, TypeOK, Request
<1>4. r.fd = parserFd /\ r.conn = owner[parserFd]
  OBVIOUS
<1> HIDE DEF r
<1>5. /\ n \in Nat /\ DOMAIN schedulerQueue = 1 .. n
      /\ DOMAIN schedulerQueue' = 1 .. n + 1
      /\ \A j \in 1 .. n : schedulerQueue'[j] = schedulerQueue[j]
      /\ schedulerQueue'[n + 1] = r
  <2>1. schedulerQueue \in Seq(Request)
    BY DEF Typed, TypeOK
  <2>2. QED
    BY <1>1, <1>3, <2>1, AppendElements DEF r
<1> HIDE DEF n
<1>6. \A i \in 1 .. n + 1 : i \in 1 .. n \/ i = n + 1
  BY <1>5
<1>7. HandsEmpty'
  BY <1>2 DEF DescriptorInv, HandsEmpty
<1>8. HoldersApart'
  BY <1>2, <1>4, <1>5, <1>6, HeldFds DEF DescriptorInv, HoldersApart, Serving
<1>9. HeldIsOpen'
  BY <1>2, <1>4, <1>5, <1>6 DEF DescriptorInv, HeldIsOpen, Connection, Serving
<1>10. QED
  BY <1>7, <1>8, <1>9 DEF DescriptorInv

LEMMA PickupKeepsApart ==
  ASSUME Typed, DescriptorInv, NEW w \in Workers, WorkerTakes(w)
  PROVE  DescriptorInv'
<1> DEFINE n == Len(schedulerQueue)
<1>1. PICK k \in DOMAIN schedulerQueue :
        /\ schedulerQueue' = RemoveAt(schedulerQueue, k)
        /\ inHand' = [inHand EXCEPT ![w] =
                        [schedulerQueue[k] EXCEPT !.rounds = @ + 1]]
  BY DEF WorkerTakes
<1>2. /\ workerPc[w] = "lock" /\ workerPc' = [workerPc EXCEPT ![w] = "serving"]
      /\ UNCHANGED <<mainPc, mainFd, connectionQueue, parserPc, parserFd, owner>>
      /\ workerPc \in [Workers -> WorkerPcs]
      /\ inHand \in [Workers -> Request \cup {NoRequest}]
  BY DEF WorkerTakes, mainVars, parserVars, kernelVars, Typed, TypeOK
<1> DEFINE r == schedulerQueue[k]
<1>3. /\ n \in Nat /\ DOMAIN schedulerQueue = 1 .. n
      /\ DOMAIN schedulerQueue' = 1 .. n - 1
      /\ \A i \in 1 .. n - 1 :
           schedulerQueue'[i] = schedulerQueue[IF i < k THEN i ELSE i + 1]
  <2>1. schedulerQueue \in Seq(Request)
    BY DEF Typed, TypeOK
  <2>2. QED
    BY <1>1, <2>1, OneRemoved
<1>4. r \in Request
  BY Elements
<1>5. /\ inHand'[w].fd = r.fd /\ inHand'[w].conn = r.conn
      /\ \A v \in Workers \ {w} : inHand'[v] = inHand[v]
      /\ \A v \in Workers : Serving(v)' => v = w \/ Serving(v)
  BY <1>1, <1>2, <1>4 DEF Request, Serving
<1> HIDE DEF n
<1>6. /\ k \in 1 .. n
      /\ \A i \in 1 .. n - 1 :
           \E j \in 1 .. n \ {k} : j = (IF i < k THEN i ELSE i + 1)
      /\ \A i, j \in 1 .. n - 1 : i # j =>
           (IF i < k THEN i ELSE i + 1) # (IF j < k THEN j ELSE j + 1)
  BY <1>3
<1>7. \A i \in 1 .. n - 1 : \E j \in 1 .. n \ {k} :
        schedulerQueue'[i] = schedulerQueue[j]
  BY <1>3, <1>6
<1>8. \A i, j \in 1 .. n - 1 : i # j =>
        schedulerQueue'[i].fd # schedulerQueue'[j].fd
  BY SMTT(30), <1>3, <1>6 DEF DescriptorInv, HoldersApart
<1> HIDE DEF r
<1>9. HandsEmpty'
  BY <1>2 DEF DescriptorInv, HandsEmpty
<1>10. HoldersApart'
  <2>1. /\ \A i \in 1 .. n - 1 :
             /\ schedulerQueue'[i].fd # mainFd
             /\ schedulerQueue'[i].fd # parserFd
             /\ schedulerQueue'[i].fd # r.fd
             /\ \A v \in Workers :
                  Serving(v) => schedulerQueue'[i].fd # inHand[v].fd
             /\ \A j \in DOMAIN connectionQueue :
                  connectionQueue[j] # schedulerQueue'[i].fd
    <3>1. ASSUME NEW i \in 1 .. n - 1
          PROVE  /\ schedulerQueue'[i].fd # mainFd
                 /\ schedulerQueue'[i].fd # parserFd
                 /\ schedulerQueue'[i].fd # r.fd
                 /\ \A v \in Workers :
                      Serving(v) => schedulerQueue'[i].fd # inHand[v].fd
                 /\ \A j \in DOMAIN connectionQueue :
                      connectionQueue[j] # schedulerQueue'[i].fd
      <4>1. PICK j \in 1 .. n \ {k} : schedulerQueue'[i] = schedulerQueue[j]
        BY <1>7
      <4>2. schedulerQueue[j].fd # r.fd
        BY <1>3, <1>6 DEF DescriptorInv, HoldersApart, r
      <4>3. /\ schedulerQueue[j].fd # mainFd /\ schedulerQueue[j].fd # parserFd
            /\ \A v \in Workers :
                 Serving(v) => schedulerQueue[j].fd # inHand[v].fd
            /\ \A q \in DOMAIN connectionQueue :
                 connectionQueue[q] # schedulerQueue[j].fd
        BY <1>3 DEF DescriptorInv, HoldersApart
      <4>4. QED
        BY <4>1, <4>2, <4>3
    <3>2. QED
      BY <3>1
  <2>2. /\ r.fd # mainFd /\ r.fd # parserFd
        /\ \A v \in Workers : Serving(v) => r.fd # inHand[v].fd
        /\ \A j \in DOMAIN connectionQueue : connectionQueue[j] # r.fd
    BY <1>3, <1>6 DEF DescriptorInv, HoldersApart, r
  <2>3. ASSUME NEW v \in Workers, Serving(v)'
        PROVE  /\ inHand'[v].fd # mainFd /\ inHand'[v].fd # parserFd
               /\ \A j \in DOMAIN connectionQueue :
                    connectionQueue[j] # inHand'[v].fd
               /\ \A i \in 1 .. n - 1 : schedulerQueue'[i].fd # inHand'[v].fd
               /\ \A u \in Workers : Serving(u)' /\ u # v =>
                    inHand'[u].fd # inHand'[v].fd
    <3>1. CASE v = w
      <4>1. inHand'[v].fd = r.fd
        BY <1>5, <3>1
      <4>2. \A u \in Workers : Serving(u)' /\ u # v =>
              Serving(u) /\ inHand'[u].fd = inHand[u].fd
        BY <1>5, <3>1
      <4>3. QED
        BY <2>1, <2>2, <4>1, <4>2
    <3>2. CASE v # w
      <4>1. Serving(v) /\ inHand'[v].fd = inHand[v].fd
        BY <1>5, <2>3, <3>2
      <4>2. \A u \in Workers : Serving(u)' =>
              \/ inHand'[u].fd = r.fd
              \/ Serving(u) /\ inHand'[u].fd = inHand[u].fd
        BY <1>5
      <4>3. QED
        BY <2>1, <2>2, <4>1, <4>2 DEF DescriptorInv, HoldersApart
    <3>3. QED
      BY <3>1, <3>2
  <2>4. \A i \in DOMAIN connectionQueue :
          /\ connectionQueue[i] # mainFd /\ connectionQueue[i] # parserFd
          /\ \A j \in DOMAIN connectionQueue :
               i # j => connectionQueue[i] # connectionQueue[j]
    BY DEF DescriptorInv, HoldersApart
  <2>5. mainFd # NoFd => mainFd # parserFd
    BY DEF DescriptorInv, HoldersApart
  <2>6. QED
    BY <1>2, <1>3, <1>8, <2>1, <2>3, <2>4, <2>5 DEF HoldersApart
<1>11. HeldIsOpen'
  <2>1. Connection(r)
    BY <1>3, <1>6 DEF DescriptorInv, HeldIsOpen, r
  <2>2. \A i \in 1 .. n - 1 : Connection(schedulerQueue'[i])
    BY <1>3, <1>7 DEF DescriptorInv, HeldIsOpen
  <2>3. \A v \in Workers : Serving(v)' =>
          owner[inHand'[v].fd] = inHand'[v].conn /\ inHand'[v].conn # NoConn
    BY <1>5, <2>1 DEF DescriptorInv, HeldIsOpen, Connection
  <2>4. QED
    BY <1>2, <1>3, <2>2, <2>3 DEF DescriptorInv, HeldIsOpen, Connection
<1>12. QED
  BY <1>9, <1>10, <1>11 DEF DescriptorInv

\* A worker that serves closes its own descriptor, or leaves it open, and has
\* no further use for it.
LEMMA LeavingKeepsApart ==
  ASSUME Typed, DescriptorInv, NEW w \in Workers, Serving(w),
         owner' \in {owner, Closed(inHand[w].fd)},
         NEW pc \in {"lock", "record"}, workerPc' = [workerPc EXCEPT ![w] = pc],
         \A v \in Workers \ {w} : inHand'[v] = inHand[v],
         UNCHANGED <<mainPc, mainFd, connectionQueue, parserPc, parserFd,
                     schedulerQueue>>
  PROVE  DescriptorInv'
<1>1. /\ ~Serving(w)'
      /\ \A v \in Workers : Serving(v)' =>
           Serving(v) /\ v # w /\ inHand'[v] = inHand[v]
  BY DEF Typed, TypeOK, Serving, Holding
<1>2. inHand[w].fd \in Fds
  BY HeldFds
<1>3. \A g \in Fds : g # inHand[w].fd => owner'[g] = owner[g]
  BY <1>2 DEF Typed, TypeOK, Closed
<1>4. HandsEmpty'
  BY DEF DescriptorInv, HandsEmpty
<1>5. HoldersApart'
  BY <1>1 DEF DescriptorInv, HoldersApart
<1>6. HeldIsOpen'
  BY <1>1, <1>3, HeldFds DEF DescriptorInv, HoldersApart, HeldIsOpen, Connection
<1>7. QED
  BY <1>4, <1>5, <1>6 DEF DescriptorInv

LEMMA RequeueKeepsApart ==
  ASSUME Typed, DescriptorInv, NEW w \in Workers, WorkerRequeues(w)
  PROVE  DescriptorInv'
<1> DEFINE n == Len(schedulerQueue)
<1>1. /\ workerPc[w] = "requeue"
      /\ schedulerQueue' = Append(schedulerQueue, inHand[w])
      /\ inHand' = [inHand EXCEPT ![w] = NoRequest]
      /\ workerPc' = [workerPc EXCEPT ![w] = "signal"]
      /\ UNCHANGED <<mainPc, mainFd, connectionQueue, parserPc, parserFd, owner>>
  BY DEF WorkerRequeues, Enqueued, mainVars, parserVars, kernelVars
<1>2. /\ inHand[w] \in Request /\ Serving(w)
      /\ \A v \in Workers : Serving(v)' =>
           Serving(v) /\ v # w /\ inHand'[v] = inHand[v]
  BY <1>1 DEF Typed, TypeOK, HandsFull, Serving, Holding
<1>3. /\ n \in Nat /\ DOMAIN schedulerQueue = 1 .. n
      /\ DOMAIN schedulerQueue' = 1 .. n + 1
      /\ \A j \in 1 .. n : schedulerQueue'[j] = schedulerQueue[j]
      /\ schedulerQueue'[n + 1] = inHand[w]
  <2>1. schedulerQueue \in Seq(Request)
    BY DEF Typed, TypeOK
  <2>2. QED
    BY <1>1, <1>2, <2>1, AppendElements
<1> HIDE DEF n
<1>4. \A i \in 1 .. n + 1 : i \in 1 .. n \/ i = n + 1
  BY <1>3
<1>5. HandsEmpty'
  BY <1>1 DEF DescriptorInv, HandsEmpty
<1>6. HoldersApart'
  BY <1>1, <1>2, <1>3, <1>4 DEF DescriptorInv, HoldersApart
<1>7. HeldIsOpen'
  BY <1>1, <1>2, <1>3, <1>4 DEF DescriptorInv, HeldIsOpen, Connection
<1>8. QED
  BY <1>5, <1>6, <1>7 DEF DescriptorInv

LEMMA NextDescriptors ==
  ASSUME FilesStable \/ Policy \in Preemptive, Typed, DescriptorInv, [Next]_vars
  PROVE  DescriptorInv'
<1> USE DEF envVars, mainVars, parserVars, workerVars, metricVars, kernelVars,
            history
<1>0. workerPc \in [Workers -> WorkerPcs]
  BY DEF Typed, TypeOK
<1>1. CASE MainStep /\ ~EnqueueConnection
  <2>1. /\ UNCHANGED <<mainFd, connectionQueue, parserFd, schedulerQueue, owner,
                       inHand>>
        /\ \A w \in Workers : workerPc'[w] \in {workerPc[w], "lock"}
        /\ mainPc # "enqueue"
        /\ parserPc' \in {parserPc, "lock"} /\ (parserPc = "reading" => parserPc' = parserPc)
    BY <1>0, <1>1
       DEF MainStep, EnterAccept, AcceptFails, EnqueueConnection,
           SignalConnection, CheckShutdown, WakeParserForShutdown, WakeParser,
           JoinParser, BroadcastWorkers, WakeAll, JoinWorkers, WriteMetrics
  <2>2. HandsEmpty'
    BY <2>1 DEF DescriptorInv, HandsEmpty
  <2>3. QED
    BY <2>1, <2>2, DescriptorsUntouched DEF Holding
<1>2. CASE EnqueueConnection
  BY <1>2, EnqueueKeepsApart
<1>3. CASE ParserTakes
  BY <1>3, ParserTakesApart
<1>4. CASE ParserAnswers
  BY <1>4, AnswerKeepsApart
<1>5. CASE ParserAdmits
  BY <1>5, AdmitsApart
<1>6. CASE ParserFindsNone \/ ParserWaits \/ ParserSignals
  <2>1. /\ UNCHANGED <<mainPc, mainFd, connectionQueue, parserFd,
                       schedulerQueue, owner, inHand>>
        /\ \A w \in Workers : workerPc'[w] \in {workerPc[w], "lock"}
        /\ parserPc # "reading"
    BY <1>0, <1>6 DEF ParserFindsNone, ParserWaits, ParserSignals, WakeOneWorker
  <2>2. HandsEmpty'
    BY <2>1 DEF DescriptorInv, HandsEmpty
  <2>3. QED
    BY <2>1, <2>2, DescriptorsUntouched DEF Holding
<1>7. ASSUME NEW w \in Workers, WorkerTakes(w) PROVE DescriptorInv'
  BY <1>7, PickupKeepsApart
<1>8. ASSUME NEW w \in Workers, ServeFails(w) \/ ServeCompletes(w)
      PROVE  DescriptorInv'
  <2>1. /\ Serving(w) /\ owner' \in {owner, Closed(inHand[w].fd)}
        /\ \A v \in Workers \ {w} : inHand'[v] = inHand[v]
        /\ UNCHANGED <<mainPc, mainFd, connectionQueue, parserPc, parserFd,
                       schedulerQueue>>
    BY <1>8 DEF ServeFails, ServeCompletes, Serving, Holding, Typed, TypeOK
  <2>2. \E pc \in {"lock", "record"} : workerPc' = [workerPc EXCEPT ![w] = pc]
    BY <1>8 DEF ServeFails, ServeCompletes
  <2>3. QED
    BY <2>1, <2>2, LeavingKeepsApart
<1>9. ASSUME NEW w \in Workers, WorkerRequeues(w) PROVE DescriptorInv'
  BY <1>9, RequeueKeepsApart
<1>10. ASSUME NEW w \in Workers,
              \/ ServeYields(w) \/ WorkerFindsNone(w) \/ WorkerWaits(w)
              \/ WorkerSignals(w) \/ WorkerRecords(w)
       PROVE  DescriptorInv'
  <2>1. UNCHANGED <<mainPc, mainFd, connectionQueue, parserPc, parserFd,
                    schedulerQueue, owner>>
    BY <1>10 DEF ServeYields, WorkerFindsNone, WorkerWaits, WorkerSignals,
                 WorkerRecords
  <2>2. HandsEmpty'
    BY <2>1 DEF DescriptorInv, HandsEmpty
  <2>3. \A v \in Workers : workerPc'[v] \in Holding =>
          workerPc[v] \in Holding /\ inHand'[v] = inHand[v]
    BY <1>0, <1>10 DEF ServeYields, WorkerFindsNone, LeaveOrWait, WorkerWaits,
                       WorkerSignals, WakeOneWorker, WorkerRecords, Holding,
                       Typed, TypeOK
  <2>4. QED
    BY <2>1, <2>2, <2>3, DescriptorsUntouched
<1>11. ASSUME NEW c \in Conns, Accept(c) PROVE DescriptorInv'
  BY <1>11, AcceptKeepsApart
<1>12. CASE Signal \/ SpuriousWakeup
  <2>1. /\ UNCHANGED <<mainFd, connectionQueue, parserFd, schedulerQueue, owner,
                       inHand>>
        /\ \A w \in Workers : workerPc'[w] \in {workerPc[w], "lock"}
        /\ mainPc' = mainPc \/ mainPc = "accept"
        /\ parserPc' = parserPc \/ parserPc = "waiting"
    BY <1>0, <1>12 DEF Signal, SpuriousWakeup
  <2>2. HandsEmpty'
    BY <2>1 DEF DescriptorInv, HandsEmpty
  <2>3. QED
    BY <2>1, <2>2, DescriptorsUntouched DEF Holding
<1>13. CASE UNCHANGED vars
  BY <1>13, DescriptorsUntouched DEF vars, DescriptorInv, HandsEmpty
<1>14. QED
  BY <1>1, <1>2, <1>3, <1>4, <1>5, <1>6, <1>7, <1>8, <1>9, <1>10, <1>11, <1>12,
     <1>13
     DEF Next, MainStep, ParserStep, WorkerStep, Environment

\* Holders that are apart are one.
LEMMA ApartIsOnce == Typed /\ DescriptorInv => DescriptorHeldOnce
<1> SUFFICES ASSUME Typed, DescriptorInv PROVE DescriptorHeldOnce
  OBVIOUS
<1>1. ASSUME NEW f \in Fds, NEW h \in Holders(f), NEW k \in Holders(f)
      PROVE  h = k
  BY <1>1, HeldFds DEF Holders, DescriptorInv, HoldersApart, Serving
<1>2. ASSUME NEW f \in Fds, Holders(f) # {} PROVE owner[f] # NoConn
  BY <1>2, HeldFds DEF Holders, DescriptorInv, HeldIsOpen, Connection, Serving
<1>3. \A r \in LiveRequests : owner[r.fd] = r.conn
  BY DEF LiveRequests, DescriptorInv, HeldIsOpen, Connection, Serving
<1>4. QED
  BY <1>1, <1>2, <1>3 DEF DescriptorHeldOnce

LEMMA AlwaysDescriptors ==
  ASSUME FilesStable \/ Policy \in Preemptive
  PROVE  Spec => []DescriptorInv
<1>1. Typed /\ DescriptorInv /\ [Next]_vars => DescriptorInv'
  BY NextDescriptors
<1>2. QED
  BY <1>1, InitDescriptors, AlwaysTyped, PTL DEF Spec

\* Whatever the interleaving, a descriptor number has one holder, is open, and
\* is the connection of the request it is in: for every policy if files do not
\* change during a GET, and for rr and drr even if they do.
THEOREM DescriptorsHeldOnce ==
  ASSUME FilesStable \/ Policy \in Preemptive
  PROVE  Spec => []DescriptorHeldOnce
BY AlwaysDescriptors, AlwaysTyped, ApartIsOnce, PTL
=============================================================================
