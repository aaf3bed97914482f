----------------------------- MODULE FileServer -----------------------------
(***************************************************************************)
(* The threads of build/server: the listener (main), the parser thread and *)
(* the worker pool, the two queues they share with their mutexes and       *)
(* condition variables, the descriptors they pass along, the signal        *)
(* handler and the shutdown protocol (src/server.cpp, src/scheduler.cpp).  *)
(*                                                                         *)
(* One serving round of a request is one of the outcomes serveRequest has; *)
(* module RequestService models what happens inside a round.               *)
(*                                                                         *)
(* A critical section is one step, except where the order of its parts     *)
(* matters: the shutdown flag is not protected by the mutexes, so between  *)
(* a thread's test of its predicate and its pthread_cond_wait (program     *)
(* counter "toWait", mutex held) the flag may be set and the condition     *)
(* variable signalled.                                                     *)
(***************************************************************************)
EXTENDS Naturals, FiniteSets, SequencesExt

CONSTANTS
  Workers,        \* the worker threads, config.server.serverThreads of them
  Conns,          \* the TCP connections clients may open
  NoConn,         \* owner of a descriptor that is not open
  MaxFd,          \* descriptors are 1..MaxFd (RLIMIT_NOFILE)
  Policy,         \* --sched
  Totals,         \* possible values of totalBytesToTransfer
  MaxRounds,      \* bound: rounds a preempted request needs at most
  MaxSignals,     \* bound: SIGINT/SIGTERM deliveries
  MaxSpurious,    \* bound: spurious wakeups of pthread_cond_wait
  AnyThreadTakesSignals, \* FALSE: the kernel always interrupts main
  FilesStable,    \* what stat saw of a file can be read until its GET ends: no
                  \* PUT of it in between, no directory, no read error
  BodiesExact     \* no PUT client sends more bytes than it announced

Preemptive == {"rr", "drr"}
Policies == {"fcfs", "sjf"} \cup Preemptive

ASSUME ServerAssumption ==
  /\ Workers # {} /\ IsFiniteSet(Workers)
  /\ NoConn \notin Conns
  /\ MaxFd \in Nat \ {0}
  /\ Policy \in Policies
  /\ Totals \subseteq Nat
  /\ MaxRounds \in Nat \ {0}
  /\ MaxSignals \in Nat
  /\ MaxSpurious \in Nat
  /\ {AnyThreadTakesSignals, FilesStable, BodiesExact} \subseteq BOOLEAN

VARIABLES
  signals,           \* SIGINT/SIGTERM handled so far
  spurious,          \* spurious wakeups so far
  mainPc, mainFd,    \* listener thread and the socket it just accepted
  connectionQueue,   \* accepted descriptors waiting for the parser
  parserPc, parserFd,\* parser thread and the descriptor it reads from
  nextRequestId,
  schedulerQueue,    \* admitted requests waiting for a worker
  workerPc, inHand,  \* worker threads and the request each one serves
  completedRequests, \* finished requests, for the CSV
  metricsCsv,        \* what writeMetricsCsv wrote
  owner,             \* kernel: the connection behind each descriptor
  seen,              \* kernel: the connections accepted so far
  started,           \* history: request ids in order of their first pickup
  passedBy,          \* history: passedBy[i] = requests picked while i waits
                     \* in schedulerQueue, since it last entered it
  fate               \* history: what became of each admitted request

mainVars == <<mainPc, mainFd>>
parserVars == <<parserPc, parserFd, nextRequestId>>
workerVars == <<workerPc, inHand>>
metricVars == <<completedRequests, metricsCsv>>
kernelVars == <<owner, seen>>
envVars == <<signals, spurious>>
history == <<started, passedBy, fate>>
vars == <<envVars, mainVars, connectionQueue, parserVars, schedulerQueue,
          workerVars, metricVars, kernelVars, history>>

-----------------------------------------------------------------------------
Fds == 1 .. MaxFd
NoFd == 0

\* AdmittedRequest; conn is the connection its header came from (history)
Request == [id : Nat, fd : Fds, conn : Conns \cup {NoConn},
            total : Totals, rounds : Nat]
NoRequest == [id |-> 0, fd |-> NoFd, conn |-> NoConn, total |-> 0, rounds |-> 0]

\* accept(2) hands out the lowest descriptor that is not open
FreeFds == {f \in Fds : owner[f] = NoConn}
LowestFree(f) == f \in FreeFds /\ \A g \in FreeFds : f <= g

\* close(2): frees whatever connection the descriptor number stands for now
Closed(f) == [owner EXCEPT ![f] = NoConn]

shutdownRequested == signals > 0

\* Fault: enqueueConnection does not take the mutex.
FaultyMutexFree == TRUE

\* a thread between its test and pthread_cond_wait holds the mutex
ConnectionMutexFree == parserPc # "toWait"
SchedulerMutexFree == \A w \in Workers : workerPc[w] # "toWait"

\* pthread_cond_signal: one of the waiting workers, if any, returns from wait
WakeOneWorker(pcs) ==
  LET waiting == {w \in Workers : pcs[w] = "waiting"}
  IN  IF waiting = {} THEN {pcs}
      ELSE {[pcs EXCEPT ![w] = "lock"] : w \in waiting}

\* Fault: pthread_cond_signal in place of the broadcast.
FaultyWakeAll(pcs) == CHOOSE woken \in WakeOneWorker(pcs) : TRUE

\* pthread_cond_broadcast
WakeAll(pcs) ==
  [w \in Workers |-> IF pcs[w] = "waiting" THEN "lock" ELSE pcs[w]]

WakeParser(pc) == IF pc = "waiting" THEN "lock" ELSE pc

\* Fault: the predicate of the wait does not look at shutdownRequested.
FaultyLeaveOrWait == "toWait"

\* a thread that finds its queue empty
LeaveOrWait == IF shutdownRequested THEN "exited" ELSE "toWait"

\* Fault: push_front in place of push_back.
FaultyEnqueued(queue, r) == <<r>> \o queue

\* enqueueAdmittedRequest
Enqueued(queue, r) == Append(queue, r)

Init ==
  /\ signals = 0 /\ spurious = 0
  /\ mainPc = "loop" /\ mainFd = NoFd
  /\ connectionQueue = <<>>
  /\ parserPc = "lock" /\ parserFd = NoFd
  /\ nextRequestId = 1
  /\ schedulerQueue = <<>>
  /\ workerPc = [w \in Workers |-> "lock"]
  /\ inHand = [w \in Workers |-> NoRequest]
  /\ completedRequests = <<>> /\ metricsCsv = <<>>
  /\ owner = [f \in Fds |-> NoConn] /\ seen = {}
  /\ started = <<>> /\ passedBy = <<>> /\ fate = <<>>

-----------------------------------------------------------------------------
(* The listener thread.                                                    *)

\* while (true): the thread blocks in accept
EnterAccept ==
  /\ mainPc = "loop"
  /\ mainPc' = "accept"
  /\ UNCHANGED <<envVars, mainFd, connectionQueue, parserVars, schedulerQueue,
                 workerVars, metricVars, kernelVars, history>>

\* a client connects and accept returns its socket
Accept(c) ==
  /\ mainPc = "accept" /\ c \notin seen
  /\ seen' = seen \cup {c}
  /\ \E f \in Fds :
       /\ LowestFree(f)
       /\ \/ /\ owner' = [owner EXCEPT ![f] = c]
             /\ mainFd' = f
             /\ mainPc' = "enqueue"
          \/ \* setReceiveTimeout fails: close and continue
             /\ mainPc' = "loop"
             /\ UNCHANGED <<owner, mainFd>>
  /\ UNCHANGED <<envVars, connectionQueue, parserVars, schedulerQueue,
                 workerVars, metricVars, history>>

\* accept fails: for want of a descriptor, at once and with no client waiting, or
\* with a connection that the client has aborted
AcceptFails ==
  /\ mainPc = "accept"
  /\ mainPc' = IF shutdownRequested THEN "wakeParser" ELSE "loop"
  /\ UNCHANGED <<envVars, mainFd, connectionQueue, parserVars, schedulerQueue,
                 workerVars, metricVars, kernelVars, history>>

\* enqueueConnection, up to the unlock
EnqueueConnection ==
  /\ mainPc = "enqueue" /\ ConnectionMutexFree
  /\ connectionQueue' = Append(connectionQueue, mainFd)
  /\ mainFd' = NoFd
  /\ mainPc' = "signal"
  /\ UNCHANGED <<envVars, parserVars, schedulerQueue, workerVars, metricVars,
                 kernelVars, history>>

\* enqueueConnection's pthread_cond_signal
SignalConnection ==
  /\ mainPc = "signal"
  /\ parserPc' = WakeParser(parserPc)
  /\ mainPc' = "check"
  /\ UNCHANGED <<envVars, mainFd, connectionQueue, parserFd, nextRequestId,
                 schedulerQueue, workerVars, metricVars, kernelVars, history>>

\* if (shutdownRequested.load()) break, at the end of the loop body
CheckShutdown ==
  /\ mainPc = "check"
  /\ mainPc' = IF shutdownRequested THEN "wakeParser" ELSE "loop"
  /\ UNCHANGED <<envVars, mainFd, connectionQueue, parserVars, schedulerQueue,
                 workerVars, metricVars, kernelVars, history>>

\* after the loop: signal the parser, without its mutex
WakeParserForShutdown ==
  /\ mainPc = "wakeParser"
  /\ parserPc' = WakeParser(parserPc)
  /\ mainPc' = "joinParser"
  /\ UNCHANGED <<envVars, mainFd, connectionQueue, parserFd, nextRequestId,
                 schedulerQueue, workerVars, metricVars, kernelVars, history>>

JoinParser ==
  /\ mainPc = "joinParser" /\ parserPc = "exited"
  /\ mainPc' = "broadcast"
  /\ UNCHANGED <<envVars, mainFd, connectionQueue, parserVars, schedulerQueue,
                 workerVars, metricVars, kernelVars, history>>

\* pthread_cond_broadcast, without the mutex
BroadcastWorkers ==
  /\ mainPc = "broadcast"
  /\ workerPc' = WakeAll(workerPc)
  /\ mainPc' = "joinWorkers"
  /\ UNCHANGED <<envVars, mainFd, connectionQueue, parserVars, schedulerQueue,
                 inHand, metricVars, kernelVars, history>>

\* Fault: the metrics are written before the workers are joined.
FaultyJoinable == TRUE

\* pthread_join returns for every worker
WorkersJoinable == \A w \in Workers : workerPc[w] = "exited"

JoinWorkers ==
  /\ mainPc = "joinWorkers" /\ WorkersJoinable
  /\ mainPc' = "report"
  /\ UNCHANGED <<envVars, mainFd, connectionQueue, parserVars, schedulerQueue,
                 workerVars, metricVars, kernelVars, history>>

\* printShutdownSummary, writeMetricsCsv, return from main
WriteMetrics ==
  /\ mainPc = "report"
  /\ metricsCsv' = completedRequests
  /\ mainPc' = "exit"
  /\ UNCHANGED <<envVars, mainFd, connectionQueue, parserVars, schedulerQueue,
                 workerVars, completedRequests, kernelVars, history>>

-----------------------------------------------------------------------------
(* The parser thread.                                                      *)

ParserTakes ==
  /\ parserPc = "lock" /\ connectionQueue # <<>>
  /\ parserFd' = Head(connectionQueue)
  /\ connectionQueue' = Tail(connectionQueue)
  /\ parserPc' = "reading"
  /\ UNCHANGED <<envVars, mainVars, nextRequestId, schedulerQueue, workerVars,
                 metricVars, kernelVars, history>>

\* empty queue: wait, or leave once shutdown is requested
ParserFindsNone ==
  /\ parserPc = "lock" /\ connectionQueue = <<>>
  /\ parserPc' = LeaveOrWait
  /\ UNCHANGED <<envVars, mainVars, connectionQueue, parserFd, nextRequestId,
                 schedulerQueue, workerVars, metricVars, kernelVars, history>>

ParserWaits ==
  /\ parserPc = "toWait"
  /\ parserPc' = "waiting"
  /\ UNCHANGED <<envVars, mainVars, connectionQueue, parserFd, nextRequestId,
                 schedulerQueue, workerVars, metricVars, kernelVars, history>>

\* header not received or malformed, no such file, or HEALTH: answer, close
\* (HEALTH reads the queue's length under its mutex, which changes nothing)
ParserAnswers ==
  /\ parserPc = "reading"
  /\ owner' = Closed(parserFd)
  /\ parserFd' = NoFd
  /\ parserPc' = "lock"
  /\ UNCHANGED <<envVars, mainVars, connectionQueue, nextRequestId,
                 schedulerQueue, workerVars, metricVars, seen, history>>

\* a valid GET or PUT: enqueueAdmittedRequest, up to the unlock
ParserAdmits ==
  /\ parserPc = "reading" /\ SchedulerMutexFree
  /\ \E t \in Totals :
       schedulerQueue' = Enqueued(schedulerQueue,
         [id |-> nextRequestId, fd |-> parserFd, conn |-> owner[parserFd],
          total |-> t, rounds |-> 0])
  /\ nextRequestId' = nextRequestId + 1
  /\ parserFd' = NoFd
  /\ parserPc' = "signal"
  /\ passedBy' = Append(passedBy, {})
  /\ fate' = Append(fate, "admitted")
  /\ UNCHANGED <<envVars, mainVars, connectionQueue, workerVars, metricVars,
                 kernelVars, started>>

\* Fault: signal only when the queue was empty.
FaultyParserSignals ==
  /\ parserPc = "signal"
  /\ workerPc' \in IF Len(schedulerQueue) <= 1 THEN WakeOneWorker(workerPc)
                                               ELSE {workerPc}
  /\ parserPc' = "lock"
  /\ UNCHANGED <<envVars, mainVars, connectionQueue, parserFd, nextRequestId,
                 schedulerQueue, inHand, metricVars, kernelVars, history>>

\* enqueueAdmittedRequest's pthread_cond_signal
ParserSignals ==
  /\ parserPc = "signal"
  /\ workerPc' \in WakeOneWorker(workerPc)
  /\ parserPc' = "lock"
  /\ UNCHANGED <<envVars, mainVars, connectionQueue, parserFd, nextRequestId,
                 schedulerQueue, inHand, metricVars, kernelVars, history>>

-----------------------------------------------------------------------------
(* The worker threads.                                                     *)

\* Fault: back() and pop_back() in place of front() and pop_front().
FaultyFront(k) == k = Len(schedulerQueue)

\* Fault: <= in place of < in the search for the shortest request.
FaultyShortest(k) ==
  \A j \in DOMAIN schedulerQueue :
    \/ schedulerQueue[k].total < schedulerQueue[j].total
    \/ schedulerQueue[k].total = schedulerQueue[j].total /\ k >= j

\* selectNextRequestToProcess removes position k
Selected(k) ==
  IF Policy = "sjf"
  THEN \A j \in DOMAIN schedulerQueue :
         \/ schedulerQueue[k].total < schedulerQueue[j].total
         \/ schedulerQueue[k].total = schedulerQueue[j].total /\ k <= j
  ELSE k = 1

WorkerTakes(w) ==
  /\ workerPc[w] = "lock" /\ SchedulerMutexFree
  /\ \E k \in DOMAIN schedulerQueue :
       LET request == schedulerQueue[k]
           rest == RemoveAt(schedulerQueue, k)
           waitingIds == {rest[j].id : j \in DOMAIN rest}
       IN  /\ Selected(k)
           /\ schedulerQueue' = rest
           /\ inHand' = [inHand EXCEPT ![w] = [request EXCEPT !.rounds = @ + 1]]
           /\ started' = IF request.rounds = 0
                         THEN Append(started, request.id) ELSE started
           /\ passedBy' = [i \in DOMAIN passedBy |->
                             IF i \in waitingIds
                             THEN passedBy[i] \cup {request}
                             ELSE passedBy[i]]
  /\ workerPc' = [workerPc EXCEPT ![w] = "serving"]
  /\ UNCHANGED <<envVars, mainVars, connectionQueue, parserVars, metricVars,
                 kernelVars, fate>>

WorkerFindsNone(w) ==
  /\ workerPc[w] = "lock" /\ SchedulerMutexFree /\ schedulerQueue = <<>>
  /\ workerPc' = [workerPc EXCEPT ![w] = LeaveOrWait]
  /\ UNCHANGED <<envVars, mainVars, connectionQueue, parserVars,
                 schedulerQueue, inHand, metricVars, kernelVars, history>>

WorkerWaits(w) ==
  /\ workerPc[w] = "toWait"
  /\ workerPc' = [workerPc EXCEPT ![w] = "waiting"]
  /\ UNCHANGED <<envVars, mainVars, connectionQueue, parserVars,
                 schedulerQueue, inHand, metricVars, kernelVars, history>>

\* Fault: an error path without its close.
FaultyServeFails(w) ==
  /\ workerPc[w] = "serving"
  /\ fate' = [fate EXCEPT ![inHand[w].id] = "failed"]
  /\ inHand' = [inHand EXCEPT ![w] = NoRequest]
  /\ workerPc' = [workerPc EXCEPT ![w] = "lock"]
  /\ UNCHANGED <<envVars, mainVars, connectionQueue, parserVars, kernelVars,
                 schedulerQueue, metricVars, started, passedBy>>

\* serveRequest returns false: descriptor closed, request dropped
ServeFails(w) ==
  /\ workerPc[w] = "serving"
  /\ owner' = Closed(inHand[w].fd)
  /\ fate' = [fate EXCEPT ![inHand[w].id] = "failed"]
  /\ inHand' = [inHand EXCEPT ![w] = NoRequest]
  /\ workerPc' = [workerPc EXCEPT ![w] = "lock"]
  /\ UNCHANGED <<envVars, mainVars, connectionQueue, parserVars,
                 schedulerQueue, metricVars, seen, started, passedBy>>

\* the last byte is transferred; what is sent goes to the descriptor's owner,
\* and nothing can be sent on a descriptor that is not open
ServeCompletes(w) ==
  /\ workerPc[w] = "serving" /\ owner[inHand[w].fd] # NoConn
  /\ \/ owner' = Closed(inHand[w].fd)
     \/ \* rr and drr leave it open when they moved more than the total
        /\ Policy \in Preemptive /\ ~(FilesStable /\ BodiesExact)
        /\ UNCHANGED owner
  /\ fate' = [fate EXCEPT ![inHand[w].id] = "finished"]
  /\ workerPc' = [workerPc EXCEPT ![w] = "record"]
  /\ UNCHANGED <<envVars, mainVars, connectionQueue, parserVars,
                 schedulerQueue, inHand, metricVars, seen, started, passedBy>>

\* Fault: the descriptor is closed at the end of every round.
FaultyServeYields(w) ==
  /\ workerPc[w] = "serving" /\ inHand[w].rounds < MaxRounds
  /\ owner' = Closed(inHand[w].fd)
  /\ workerPc' = [workerPc EXCEPT ![w] = "requeue"]
  /\ UNCHANGED <<envVars, mainVars, connectionQueue, parserVars,
                 schedulerQueue, inHand, metricVars, seen, history>>

\* the round ends with bytes left: the quantum is used up, or fcfs/sjf ran out
\* of file, closed the descriptor and still returned true
ServeYields(w) ==
  /\ workerPc[w] = "serving" /\ owner[inHand[w].fd] # NoConn
  /\ inHand[w].rounds < MaxRounds
  /\ \/ Policy \in Preemptive /\ UNCHANGED owner
     \/ Policy \notin Preemptive /\ ~FilesStable /\ owner' = Closed(inHand[w].fd)
  /\ workerPc' = [workerPc EXCEPT ![w] = "requeue"]
  /\ UNCHANGED <<envVars, mainVars, connectionQueue, parserVars,
                 schedulerQueue, inHand, metricVars, seen, history>>

\* enqueueAdmittedRequest by the worker, up to the unlock
WorkerRequeues(w) ==
  /\ workerPc[w] = "requeue" /\ SchedulerMutexFree
  /\ schedulerQueue' = Enqueued(schedulerQueue, inHand[w])
  /\ passedBy' = [passedBy EXCEPT ![inHand[w].id] = {}]
  /\ inHand' = [inHand EXCEPT ![w] = NoRequest]
  /\ workerPc' = [workerPc EXCEPT ![w] = "signal"]
  /\ UNCHANGED <<envVars, mainVars, connectionQueue, parserVars, metricVars,
                 kernelVars, started, fate>>

WorkerSignals(w) ==
  /\ workerPc[w] = "signal"
  /\ workerPc' \in WakeOneWorker([workerPc EXCEPT ![w] = "lock"])
  /\ UNCHANGED <<envVars, mainVars, connectionQueue, parserVars,
                 schedulerQueue, inHand, metricVars, kernelVars, history>>

\* Fault: the request is recorded after it has been reset.
FaultyRecords(w) ==
  /\ workerPc[w] = "record"
  /\ inHand' = [inHand EXCEPT ![w] = NoRequest]
  /\ completedRequests' = Append(completedRequests, inHand'[w])
  /\ workerPc' = [workerPc EXCEPT ![w] = "lock"]
  /\ UNCHANGED <<envVars, mainVars, connectionQueue, parserVars,
                 schedulerQueue, metricsCsv, kernelVars, history>>

\* finishTime, completedRequests.push_back
WorkerRecords(w) ==
  /\ workerPc[w] = "record"
  /\ completedRequests' = Append(completedRequests, inHand[w])
  /\ inHand' = [inHand EXCEPT ![w] = NoRequest]
  /\ workerPc' = [workerPc EXCEPT ![w] = "lock"]
  /\ UNCHANGED <<envVars, mainVars, connectionQueue, parserVars,
                 schedulerQueue, metricsCsv, kernelVars, history>>

-----------------------------------------------------------------------------
(* The environment.                                                        *)

\* handleSignal runs on some thread; accept returns EINTR only if it is main
Signal ==
  /\ signals < MaxSignals /\ mainPc # "exit"
  /\ signals' = signals + 1
  /\ \/ mainPc' = IF mainPc = "accept" THEN "wakeParser" ELSE mainPc
     \/ AnyThreadTakesSignals /\ UNCHANGED mainPc
  /\ UNCHANGED <<spurious, mainFd, connectionQueue, parserVars,
                 schedulerQueue, workerVars, metricVars, kernelVars, history>>

\* POSIX lets pthread_cond_wait return without a signal
SpuriousWakeup ==
  /\ spurious < MaxSpurious
  /\ spurious' = spurious + 1
  /\ \/ parserPc = "waiting" /\ parserPc' = "lock" /\ UNCHANGED workerPc
     \/ \E w \in Workers : /\ workerPc[w] = "waiting"
                           /\ workerPc' = [workerPc EXCEPT ![w] = "lock"]
                           /\ UNCHANGED parserPc
  /\ UNCHANGED <<signals, mainVars, connectionQueue, parserFd, nextRequestId,
                 schedulerQueue, inHand, metricVars, kernelVars, history>>

-----------------------------------------------------------------------------
MainStep ==
  \/ EnterAccept \/ AcceptFails \/ EnqueueConnection \/ SignalConnection
  \/ CheckShutdown \/ WakeParserForShutdown \/ JoinParser
  \/ BroadcastWorkers \/ JoinWorkers \/ WriteMetrics

ParserStep ==
  \/ ParserTakes \/ ParserFindsNone \/ ParserWaits \/ ParserAnswers
  \/ ParserAdmits \/ ParserSignals

WorkerStep(w) ==
  \/ WorkerTakes(w) \/ WorkerFindsNone(w) \/ WorkerWaits(w) \/ ServeFails(w)
  \/ ServeCompletes(w) \/ ServeYields(w) \/ WorkerRequeues(w)
  \/ WorkerSignals(w) \/ WorkerRecords(w)

Environment == (\E c \in Conns : Accept(c)) \/ Signal \/ SpuriousWakeup

Next == MainStep \/ ParserStep \/ (\E w \in Workers : WorkerStep(w)) \/ Environment

Spec == Init /\ [][Next]_vars

\* the steps of main that need no client: accept blocks while it has a descriptor
MainRuns == MainStep /\ (mainPc = "accept" => FreeFds = {})

\* every thread that can take a step is eventually run; clients, errors of accept
\* and signals owe nothing
FairSpec ==
  /\ Spec
  /\ WF_vars(MainRuns) /\ WF_vars(ParserStep)
  /\ \A w \in Workers : WF_vars(WorkerStep(w))

-----------------------------------------------------------------------------
MainPcs == {"loop", "accept", "enqueue", "signal", "check", "wakeParser",
            "joinParser", "broadcast", "joinWorkers", "report", "exit"}
ParserPcs == {"lock", "toWait", "waiting", "reading", "signal", "exited"}
WorkerPcs == {"lock", "toWait", "waiting", "serving", "requeue", "signal",
              "record", "exited"}

\* Every variable keeps the type its declaration in server.cpp gives it.
TypeOK ==
  /\ signals \in 0 .. MaxSignals /\ spurious \in 0 .. MaxSpurious
  /\ mainPc \in MainPcs /\ mainFd \in Fds \cup {NoFd}
  /\ connectionQueue \in Seq(Fds)
  /\ parserPc \in ParserPcs /\ parserFd \in Fds \cup {NoFd}
  /\ nextRequestId \in Nat \ {0}
  /\ schedulerQueue \in Seq(Request)
  /\ workerPc \in [Workers -> WorkerPcs]
  /\ inHand \in [Workers -> Request \cup {NoRequest}]
  /\ completedRequests \in Seq(Request) /\ metricsCsv \in Seq(Request)
  /\ owner \in [Fds -> Conns \cup {NoConn}] /\ seen \subseteq Conns
  /\ started \in Seq(Nat)
  /\ passedBy \in Seq(SUBSET Request)
  /\ fate \in Seq({"admitted", "failed", "finished"})

(* Safety.                                                                 *)

Holding == {"serving", "requeue"}   \* a worker between pickup and hand-over

\* Who may still read from, write to or close descriptor f.
Holders(f) ==
  {<<"main", 0>> : x \in {mainFd} \cap {f}}
    \cup {<<"connectionQueue", i>> :
            i \in {j \in DOMAIN connectionQueue : connectionQueue[j] = f}}
    \cup {<<"parser", 0>> : x \in {parserFd} \cap {f}}
    \cup {<<"schedulerQueue", i>> :
            i \in {j \in DOMAIN schedulerQueue : schedulerQueue[j].fd = f}}
    \cup {<<"worker", w>> :
            w \in {v \in Workers : workerPc[v] \in Holding /\ inHand[v].fd = f}}

\* The requests some worker has to serve or serves now.
LiveRequests ==
  {schedulerQueue[j] : j \in DOMAIN schedulerQueue}
    \cup {inHand[w] : w \in {v \in Workers : workerPc[v] \in Holding}}

\* A descriptor is passed from the listener through the connection queue, the
\* parser and the scheduler queue to a worker and back, with nothing but its
\* number: at every moment at most one of them holds it, it is open, and it is
\* still the connection whose header was parsed into the request, so nobody
\* closes or answers a connection that is not his.
DescriptorHeldOnce ==
  /\ \A f \in Fds : /\ \A h, k \in Holders(f) : h = k
                    /\ Holders(f) # {} => owner[f] # NoConn
  /\ \A r \in LiveRequests : owner[r.fd] = r.conn

\* Connections whose request was served to the end.
FinishedConns ==
  {completedRequests[i].conn : i \in DOMAIN completedRequests}
    \cup {inHand[w].conn : w \in {v \in Workers : workerPc[v] = "record"}}

\* No path through listener, parser and workers forgets a connection: a
\* descriptor that is open is held by one of them, or rr or drr left it open when
\* its own request had moved more bytes than announced.
NoDescriptorLeak ==
  \A f \in Fds :
    owner[f] # NoConn =>
      \/ Holders(f) # {}
      \/ /\ Policy \in Preemptive /\ ~(FilesStable /\ BodiesExact)
         /\ owner[f] \in FinishedConns

\* Under fcfs, rr and drr the first pickups follow the order in which the
\* parser admitted the requests, however many workers compete and however
\* often preempted requests come back.
StartsInArrivalOrder ==
  \A i, j \in DOMAIN started : i < j => started[i] < started[j]

\* Under rr and drr nobody gets a second round while another request waits for
\* its next one: a request picked while q waited is queued behind q.
NoOvertaking ==
  \A i, j \in DOMAIN schedulerQueue :
    i < j => \A p \in passedBy[schedulerQueue[j].id] : p.id # schedulerQueue[i].id

\* Under sjf a request is passed only by shorter ones, and by one of its own
\* length only if that was admitted earlier, whatever was admitted in between.
OnlyShorterPass ==
  \A j \in DOMAIN schedulerQueue :
    \A p \in passedBy[schedulerQueue[j].id] :
      \/ p.total < schedulerQueue[j].total
      \/ p.total = schedulerQueue[j].total /\ p.id < schedulerQueue[j].id

Waiting(pcs) == {w \in Workers : pcs[w] = "waiting"}
\* workers that look at the queue before they wait again, or wake one who does
Alert(pcs) == {w \in Workers : pcs[w] \in {"lock", "signal"}}

\* No wakeup is lost between the queues' users (pthread_cond_signal comes after
\* the unlock, and one signal wakes one thread): while a worker sleeps, every
\* queued request has a worker on its way to it or a signal about to be sent;
\* the parser sleeps only if there is nothing to parse or it is about to be
\* signalled.
NoLostWakeup ==
  /\ Waiting(workerPc) # {} =>
       Len(schedulerQueue) <= Cardinality(Alert(workerPc))
                                + (IF parserPc = "signal" THEN 1 ELSE 0)
  /\ parserPc = "waiting" => connectionQueue = <<>> \/ mainPc = "signal"

\* metrics.csv, written by main without waiting for anything but the joins,
\* has each finished request exactly once and no other.
MetricsExact ==
  mainPc = "exit" =>
    /\ \A i, j \in DOMAIN metricsCsv : metricsCsv[i].id = metricsCsv[j].id => i = j
    /\ {metricsCsv[i].id : i \in DOMAIN metricsCsv} =
         {i \in DOMAIN fate : fate[i] = "finished"}

-----------------------------------------------------------------------------
(* Liveness, under FairSpec.                                               *)

Connected(c) == \E f \in Fds : owner[f] = c

\* Every connection that is accepted is answered and closed, unless a signal
\* comes: through both queues, with every thread sleeping in between.
EveryConnectionAnswered ==
  \A c \in Conns : Connected(c) ~> (~Connected(c) \/ shutdownRequested)

\* A worker that is not asleep, nor falling asleep, when the shutdown is
\* requested works off what is queued and exits without further help.
AwakeWorkersExit ==
  \A w \in Workers :
    (shutdownRequested /\ workerPc[w] \notin {"toWait", "waiting"})
      ~> workerPc[w] = "exited"

\* Once the listener has left its loop the server exits, unless it does so
\* while a thread is between its test of the flag and pthread_cond_wait.
ShutdownCompletes ==
  (/\ mainPc = "wakeParser" /\ parserPc # "toWait"
   /\ \A w \in Workers : workerPc[w] # "toWait")
    ~> mainPc = "exit"

-----------------------------------------------------------------------------
(* What the comments and the README say and the code does not do.          *)

\* server.cpp: main waits for the parser "to drain the connectionQueue".
ConnectionsDrained ==
  mainPc \in {"broadcast", "joinWorkers", "report", "exit"} =>
    connectionQueue = <<>>

\* README: "the server drains active requests" before it writes metrics.csv.
RequestsDrained ==
  mainPc \in {"report", "exit"} => schedulerQueue = <<>>

\* server.cpp: main wakes up the parser and can close the thread.
ParserIsWoken ==
  mainPc = "wakeParser" ~> parserPc = "exited"

\* server.cpp: the flag the handler sets starts the shutdown protocol.
SignalStartsShutdown ==
  shutdownRequested ~> mainPc \notin {"loop", "accept", "enqueue", "signal", "check"}
=============================================================================
