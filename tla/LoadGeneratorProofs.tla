------------------------ MODULE LoadGeneratorProofs ------------------------
(***************************************************************************)
(* Proofs about a run of build/client load against build/server, for any   *)
(* number of client threads, workers, files and requests, every policy and *)
(* every interleaving: the server under the load is FileServer and keeps   *)
(* its contract, no two requests use one file, and the exit code of the    *)
(* client is what the server finished.                                     *)
(***************************************************************************)
EXTENDS LoadGenerator, ServerRefinementProofs

-----------------------------------------------------------------------------
(* What a step of the server does to the connections.                      *)

\* A connection that was accepted is not accepted again; what is closed stays so.
LEMMA ConnectedBefore ==
  ASSUME Typed, [Next]_vars, NEW c \in seen, c # NoConn, Connected(c)'
  PROVE  Connected(c)
<1> USE DEF envVars, mainVars, parserVars, workerVars, metricVars, kernelVars,
            history
<1>0. owner \in [Fds -> Conns \cup {NoConn}]
  BY DEF Typed, TypeOK
<1>1. PICK f \in Fds : owner'[f] = c
  BY DEF Connected
<1>2. CASE owner' = owner
  BY <1>1, <1>2 DEF Connected
<1>3. ASSUME NEW g \in Fds, owner' = [owner EXCEPT ![g] = NoConn]
      PROVE  Connected(c)
  BY <1>0, <1>1, <1>3 DEF Connected
<1>4. ASSUME NEW d \in Conns, Accept(d) PROVE Connected(c)
  <2>1. CASE owner' = owner
    BY <1>2, <2>1
  <2>2. CASE owner' # owner
    <3>1. PICK g \in Fds : owner' = [owner EXCEPT ![g] = d]
      BY <1>4, <2>2 DEF Accept
    <3>2. d # c
      BY <1>4 DEF Accept
    <3>3. f # g
      BY <1>0, <1>1, <3>1, <3>2
    <3>4. QED
      BY <1>0, <1>1, <3>1, <3>3 DEF Connected
  <2>3. QED
    BY <2>1, <2>2
<1>5. CASE ParserAnswers
  BY <1>3, <1>5 DEF ParserAnswers, Closed, Typed, HandsFull
<1>6. ASSUME NEW w \in Workers,
             ServeFails(w) \/ ServeCompletes(w) \/ ServeYields(w)
      PROVE  Connected(c)
  <2>1. inHand[w].fd \in Fds
    BY <1>6, HeldFds DEF ServeFails, ServeCompletes, ServeYields, Serving, Holding
  <2>2. QED
    BY <1>2, <1>3, <1>6, <2>1 DEF ServeFails, ServeCompletes, ServeYields, Closed
<1>7. CASE ~ \/ ParserAnswers \/ \E d \in Conns : Accept(d)
             \/ \E w \in Workers :
                  ServeFails(w) \/ ServeCompletes(w) \/ ServeYields(w)
  <2>1. UNCHANGED owner
    BY <1>7
       DEF Next, vars, MainStep, ParserStep, WorkerStep, Environment,
           EnterAccept, AcceptFails, EnqueueConnection, SignalConnection,
           CheckShutdown, WakeParserForShutdown, JoinParser,
           BroadcastWorkers, JoinWorkers, WriteMetrics, ParserTakes,
           ParserFindsNone, ParserWaits, ParserAdmits, ParserSignals,
           WorkerTakes, WorkerFindsNone, WorkerWaits, WorkerRequeues,
           WorkerSignals, WorkerRecords, Signal, SpuriousWakeup
  <2>2. QED
    BY <1>2, <2>1
<1>8. QED
  BY <1>4, <1>5, <1>6, <1>7

\* Only a connection that is open is finished: its worker writes to it.
LEMMA FinishedWhileOpen ==
  ASSUME Typed, DescriptorInv, [Next]_vars,
         NEW c \in FinishedConns', c \notin FinishedConns
  PROVE  c # NoConn /\ Connected(c)
<1> USE DEF envVars, mainVars, parserVars, workerVars, metricVars, kernelVars,
            history
<1>0. workerPc \in [Workers -> WorkerPcs]
  BY DEF Typed, TypeOK
<1>1. ASSUME UNCHANGED completedRequests,
             \A v \in Workers : workerPc'[v] = "record" =>
               workerPc[v] = "record" /\ inHand'[v] = inHand[v]
      PROVE  FALSE
  BY <1>1 DEF FinishedConns
<1>2. CASE MainStep \/ ParserStep \/ Environment \/ UNCHANGED vars
  <2>1. completedRequests' = completedRequests /\ inHand' = inHand
    BY <1>2
       DEF vars, MainStep, EnterAccept, AcceptFails, EnqueueConnection,
           SignalConnection, CheckShutdown, WakeParserForShutdown, JoinParser,
           BroadcastWorkers, JoinWorkers, WriteMetrics, ParserStep,
           ParserTakes, ParserFindsNone, ParserWaits, ParserAnswers,
           ParserAdmits, ParserSignals, Environment, Accept, Signal,
           SpuriousWakeup
  <2>2. \A v \in Workers : workerPc'[v] \in {workerPc[v], "lock"}
    BY <1>0, <1>2
       DEF vars, MainStep, EnterAccept, AcceptFails, EnqueueConnection,
           SignalConnection, CheckShutdown, WakeParserForShutdown, JoinParser,
           BroadcastWorkers, WakeAll, JoinWorkers, WriteMetrics, ParserStep,
           ParserTakes, ParserFindsNone, ParserWaits, ParserAnswers,
           ParserAdmits, ParserSignals, WakeOneWorker, Environment, Accept,
           Signal, SpuriousWakeup
  <2>3. QED
    BY <1>1, <2>1, <2>2
<1>3. ASSUME NEW w \in Workers, WorkerStep(w), ~ServeCompletes(w), ~WorkerRecords(w)
      PROVE  FALSE
  <2>1. /\ completedRequests' = completedRequests
        /\ \A v \in Workers \ {w} : inHand'[v] = inHand[v]
    BY <1>3
       DEF WorkerStep, WorkerTakes, WorkerFindsNone, WorkerWaits, ServeFails,
           ServeYields, WorkerRequeues, WorkerSignals, Typed, TypeOK
  <2>2. /\ \A v \in Workers \ {w} : workerPc'[v] \in {workerPc[v], "lock"}
        /\ workerPc'[w] # "record"
    BY <1>0, <1>3
       DEF WorkerStep, WorkerTakes, WorkerFindsNone, LeaveOrWait, WorkerWaits,
           ServeFails, ServeYields, WorkerRequeues, WorkerSignals, WakeOneWorker
  <2>3. QED
    BY <1>1, <2>1, <2>2
<1>4. ASSUME NEW w \in Workers, ServeCompletes(w)
      PROVE  c # NoConn /\ Connected(c)
  <2>1. /\ workerPc[w] = "serving" /\ workerPc' = [workerPc EXCEPT ![w] = "record"]
        /\ UNCHANGED <<inHand, completedRequests>>
    BY <1>4 DEF ServeCompletes
  <2>2. c = inHand[w].conn
    <3>1. \A v \in Workers \ {w} : workerPc'[v] = workerPc[v]
      BY <1>0, <2>1
    <3>2. QED
      BY <2>1, <3>1 DEF FinishedConns
  <2>3. inHand[w].fd \in Fds /\ owner[inHand[w].fd] = c /\ c # NoConn
    BY <2>1, <2>2, HeldFds
       DEF Serving, Holding, DescriptorInv, HeldIsOpen, Connection
  <2>4. QED
    BY <2>3 DEF Connected
<1>5. ASSUME NEW w \in Workers, WorkerRecords(w)
      PROVE  FALSE
  <2>1. /\ workerPc[w] = "record"
        /\ completedRequests' = Append(completedRequests, inHand[w])
        /\ inHand' = [inHand EXCEPT ![w] = NoRequest]
        /\ workerPc' = [workerPc EXCEPT ![w] = "lock"]
        /\ inHand[w] \in Request /\ completedRequests \in Seq(Request)
    BY <1>5 DEF WorkerRecords, Typed, TypeOK, HandsFull
  <2> DEFINE n == Len(completedRequests)
  <2>2. /\ n \in Nat /\ DOMAIN completedRequests = 1 .. n
        /\ DOMAIN completedRequests' = 1 .. n + 1
        /\ \A i \in 1 .. n : completedRequests'[i] = completedRequests[i]
        /\ completedRequests'[n + 1] = inHand[w]
    BY <2>1, AppendElements
  <2> HIDE DEF n
  <2>3. \A v \in Workers : workerPc'[v] = "record" =>
          v # w /\ workerPc[v] = "record" /\ inHand'[v] = inHand[v]
    BY <1>0, <2>1 DEF Typed, TypeOK
  <2>4. \A i \in 1 .. n + 1 : i \in 1 .. n \/ i = n + 1
    BY <2>2
  <2>5. ASSUME NEW i \in 1 .. n + 1, c = completedRequests'[i].conn PROVE FALSE
    <3>1. CASE i \in 1 .. n
      BY <2>2, <2>5, <3>1 DEF FinishedConns
    <3>2. CASE i = n + 1
      BY <2>1, <2>2, <2>5, <3>2 DEF FinishedConns
    <3>3. QED
      BY <2>4, <3>1, <3>2
  <2>6. ASSUME NEW v \in Workers, workerPc'[v] = "record", c = inHand'[v].conn
        PROVE  FALSE
    BY <2>3, <2>6 DEF FinishedConns
  <2>7. QED
    BY <2>2, <2>5, <2>6 DEF FinishedConns
<1>6. QED
  BY <1>2, <1>3, <1>4, <1>5 DEF Next

-----------------------------------------------------------------------------
(* The client alone.                                                       *)

RunPcs == {"connect", "await", "join", "succeeded", "failed"}
ThreadPcs == {"unborn", "fetch", "connect", "await", "exited"}
Born(t) == threadPc[t] # "unborn"

\* A thread with a request has drawn its number from those of the run.
ClientTypes ==
  /\ runPc \in RunPcs /\ seeding \in Files
  /\ nextRequest \in Nat /\ failed \in BOOLEAN
  /\ threadPc \in [Threads -> ThreadPcs] /\ number \in [Threads -> Nat]
  /\ issued \subseteq Conns
  /\ \A t \in Awaiting : number[t] < nextRequest /\ number[t] < TotalRequests

\* Threads live between the seeding and the join, and leave when the numbers
\* have run out; a run fails before there are threads or because one failed.
Phases ==
  /\ runPc \in {"connect", "await"} => ~failed /\ \A t \in Threads : ~Born(t)
  /\ runPc = "join" => \A t \in Threads : Born(t)
  /\ runPc = "succeeded" => ~failed /\ \A t \in Threads : threadPc[t] = "exited"
  /\ runPc = "failed" => \/ failed /\ \A t \in Threads : threadPc[t] = "exited"
                         \/ ~failed /\ \A t \in Threads : ~Born(t)
  /\ \A t \in Threads : threadPc[t] = "exited" => nextRequest >= TotalRequests

\* No two threads have the same number.
NumbersApart == \A t, u \in Awaiting : t # u => number[t] # number[u]

\* A connection is opened once: not before its file's or its number's turn.
NotYetIssued ==
  /\ \A k \in Files : k > seeding \/ (k = seeding /\ runPc = "connect") =>
       SeedConn(k) \notin issued
  /\ \A i \in RequestNumbers : i >= nextRequest => LoadConn(i) \notin issued
  /\ \A t \in Threads : threadPc[t] = "connect" => LoadConn(number[t]) \notin issued

\* main asks for something only before there are threads, and a thread only for
\* a file of the workload or for the copy that has its number.
DoingInv ==
  /\ DOMAIN doing = Threads \cup {"main"}
  /\ \A a \in DOMAIN doing : doing[a] # Nothing =>
       \/ a = "main" /\ runPc = "await" /\ \E k \in Files : doing[a] = Seed(k)
       \/ /\ a \in Threads /\ threadPc[a] = "await"
          /\ \E k \in Files : doing[a] \in {Get(k), Put(k, number[a])}

ClientInv == ClientTypes /\ Phases /\ NumbersApart /\ NotYetIssued /\ DoingInv

\* Different requests have different connections.
LEMMA ConnNumbers ==
  /\ \A k \in Files : SeedConn(k) \in Conns /\ SeedConn(k) \in Nat
  /\ \A i \in RequestNumbers : LoadConn(i) \in Conns
  /\ \A c \in Conns : \/ \E k \in Files : c = SeedConn(k)
                      \/ \E i \in RequestNumbers : c = LoadConn(i)
  /\ \A k \in Files, i \in Nat : SeedConn(k) # LoadConn(i)
  /\ \A i, j \in Nat : LoadConn(i) = LoadConn(j) => i = j
  /\ NumFiles \in Nat \ {0} /\ TotalRequests \in Nat \ {0}
<1>1. NumFiles \in Nat \ {0} /\ TotalRequests \in Nat \ {0}
      /\ Conns = {SeedConn(k) : k \in Files} \cup {LoadConn(i) : i \in RequestNumbers}
  BY LoadAssumption DEF LoadAssumption
<1>2. \A k \in Files, i \in Nat : SeedConn(k) # LoadConn(i)
  BY <1>1 DEF SeedConn, LoadConn, Files
<1>3. \A i, j \in Nat : LoadConn(i) = LoadConn(j) => i = j
  BY <1>1 DEF LoadConn
<1>4. \A k \in Files : SeedConn(k) \in Conns
  BY <1>1
<1>5. \A k \in Files : SeedConn(k) \in Nat
  BY DEF SeedConn, Files
<1>6. QED
  BY <1>1, <1>2, <1>3, <1>4, <1>5

LEMMA InitClient == LoadInit => ClientInv
<1> SUFFICES ASSUME LoadInit PROVE ClientInv
  OBVIOUS
<1> USE DEF LoadInit
<1>0. 1 \in Files
  BY LoadAssumption DEF LoadAssumption, Files
<1>1. ClientTypes
  BY <1>0 DEF ClientTypes, RunPcs, ThreadPcs, Awaiting
<1>2. Phases
  BY DEF Phases, Born
<1>3. NumbersApart
  BY DEF NumbersApart, Awaiting
<1>4. NotYetIssued
  BY DEF NotYetIssued
<1>5. DoingInv
  BY DEF DoingInv
<1>6. QED
  BY <1>1, <1>2, <1>3, <1>4, <1>5 DEF ClientInv

\* Steps of the server leave the client alone.
LEMMA ServerLeavesClient ==
  ASSUME ClientInv, UNCHANGED loadVars
  PROVE  ClientInv'
<1> USE DEF loadVars
<1>1. ClientTypes' /\ Phases'
  BY DEF ClientInv, ClientTypes, Phases, Born, Awaiting
<1>2. NumbersApart' /\ NotYetIssued'
  BY DEF ClientInv, NumbersApart, NotYetIssued, Awaiting
<1>3. DoingInv'
  BY DEF ClientInv, DoingInv
<1>4. QED
  BY <1>1, <1>2, <1>3 DEF ClientInv

\* main seeds, joins and ends.
LEMMA RunClient ==
  ASSUME ClientInv, RunStep
  PROVE  ClientInv'
<1>1. /\ ClientTypes /\ Phases /\ NumbersApart /\ NotYetIssued /\ DoingInv
      /\ UNCHANGED <<nextRequest, failed, number>>
      /\ \A k \in Files : k \in Nat
  BY DEF ClientInv, RunStep, SeedConnect, SeedAnswered, JoinThreads, Files
<1>2. Threads # {}
  BY LoadAssumption DEF LoadAssumption
<1>3. CASE SeedConnect
  <2>1. /\ runPc = "connect" /\ runPc' \in {"await", "failed"}
        /\ UNCHANGED <<seeding, threadPc>>
        /\ issued' \in {issued, issued \cup {SeedConn(seeding)}}
        /\ \A t \in Threads : ~Born(t)
    BY <1>1, <1>3 DEF SeedConnect, Opens, Phases
  <2>2. Awaiting = {} /\ Awaiting' = {}
    BY <2>1 DEF Awaiting, Born
  <2>3. ClientTypes'
    BY <1>1, <2>1, <2>2, ConnNumbers DEF ClientTypes, RunPcs
  <2>4. Phases'
    BY <1>1, <2>1 DEF Phases, Born
  <2>5. NotYetIssued'
    <3>1. ASSUME NEW k \in Files, k > seeding
          PROVE  SeedConn(k) \notin issued'
      BY <1>1, <2>1, <3>1 DEF NotYetIssued, SeedConn, ClientTypes, Files
    <3>2. ASSUME NEW j \in RequestNumbers, j >= nextRequest
          PROVE  LoadConn(j) \notin issued'
      BY <1>1, <2>1, <3>2, ConnNumbers DEF NotYetIssued, RequestNumbers, ClientTypes
    <3>3. QED
      BY <1>1, <2>1, <3>1, <3>2 DEF NotYetIssued, Born
  <2>6. DoingInv'
    <3>1. \A a \in Threads \cup {"main"} : doing[a] = Nothing
      BY <1>1, <2>1 DEF DoingInv, Born
    <3>2. CASE runPc' = "failed"
      BY <1>1, <1>3, <2>1, <3>1, <3>2 DEF SeedConnect, DoingInv
    <3>3. CASE runPc' = "await"
      <4>1. doing' = [doing EXCEPT !["main"] = Seed(seeding)]
        BY <1>3, <3>3 DEF SeedConnect, Opens
      <4>2. QED
        BY <1>1, <3>1, <3>3, <4>1 DEF DoingInv, ClientTypes
    <3>4. QED
      BY <2>1, <3>2, <3>3
  <2>7. QED
    BY <2>2, <2>3, <2>4, <2>5, <2>6 DEF ClientInv, NumbersApart
<1>4. CASE SeedAnswered
  <2>1. /\ runPc = "await" /\ issued' = issued
        /\ doing' = [doing EXCEPT !["main"] = Nothing]
        /\ ~failed /\ \A t \in Threads : ~Born(t)
    BY <1>1, <1>4 DEF SeedAnswered, Phases
  <2>2. \/ /\ runPc' = "connect" /\ seeding < NumFiles /\ seeding' = seeding + 1
           /\ threadPc' = threadPc
        \/ /\ runPc' = "join" /\ seeding' = seeding
           /\ threadPc' = [t \in Threads |-> "fetch"]
        \/ runPc' = "failed" /\ seeding' = seeding /\ threadPc' = threadPc
    BY <1>4 DEF SeedAnswered
  <2>3. \A t \in Threads : threadPc[t] = "unborn" /\ threadPc'[t] \in {"unborn", "fetch"}
    BY <2>1, <2>2 DEF Born
  <2>4. Awaiting' = {}
    BY <2>3 DEF Awaiting
  <2>5. seeding' \in Files /\ seeding <= seeding'
    BY <1>1, <2>2, ConnNumbers DEF ClientTypes, Files
  <2>6. ClientTypes'
    <3>1. threadPc' \in [Threads -> ThreadPcs] /\ runPc' \in RunPcs
      BY <1>1, <2>2 DEF ClientTypes, ThreadPcs, RunPcs
    <3>2. QED
      BY <1>1, <2>1, <2>4, <2>5, <3>1 DEF ClientTypes
  <2>7. Phases'
    BY <1>1, <2>1, <2>2, <2>3 DEF Phases, Born
  <2>8. NotYetIssued'
    <3>1. ASSUME NEW k \in Files,
                 k > seeding' \/ (k = seeding' /\ runPc' = "connect")
          PROVE  k > seeding
      BY <1>1, <2>2, <2>5, <3>1 DEF ClientTypes, Files
    <3>2. QED
      BY <1>1, <2>1, <2>3, <3>1 DEF NotYetIssued
  <2>9. DoingInv'
    BY <1>1, <2>1 DEF DoingInv, Born
  <2>10. QED
    BY <2>4, <2>6, <2>7, <2>8, <2>9 DEF ClientInv, NumbersApart
<1>5. CASE JoinThreads
  <2>1. /\ runPc = "join" /\ runPc' = IF failed THEN "failed" ELSE "succeeded"
        /\ UNCHANGED <<seeding, threadPc, doing, issued>>
        /\ \A t \in Threads : threadPc[t] = "exited"
    BY <1>5 DEF JoinThreads, ThreadsJoined
  <2>2. Awaiting' = Awaiting
    BY <2>1 DEF Awaiting
  <2>3. ClientTypes' /\ Phases'
    BY <1>1, <2>1, <2>2 DEF ClientTypes, Phases, Born, RunPcs
  <2>4. NumbersApart' /\ NotYetIssued'
    BY <1>1, <2>1, <2>2 DEF NumbersApart, NotYetIssued
  <2>5. DoingInv'
    BY <1>1, <2>1 DEF DoingInv
  <2>6. QED
    BY <2>3, <2>4, <2>5 DEF ClientInv
<1>6. QED
  BY <1>3, <1>4, <1>5 DEF RunStep

\* A thread draws a number, opens the connection of that number and waits.
LEMMA ThreadClient ==
  ASSUME ClientInv, NEW t \in Threads, ThreadStep(t)
  PROVE  ClientInv'
<1>1. /\ ClientTypes /\ Phases /\ NumbersApart /\ NotYetIssued /\ DoingInv
      /\ UNCHANGED <<runPc, seeding>>
  BY DEF ClientInv, ThreadStep, FetchNumber, Connect, RequestAnswered
<1>2. /\ threadPc \in [Threads -> ThreadPcs] /\ number \in [Threads -> Nat]
      /\ nextRequest \in Nat /\ TotalRequests \in Nat \ {0}
      /\ runPc \in RunPcs /\ failed \in BOOLEAN
  BY <1>1, ConnNumbers DEF ClientTypes
<1>3. threadPc[t] \in {"fetch", "connect", "await"}
  BY DEF ThreadStep, FetchNumber, Connect, RequestAnswered
<1>4. runPc = "join" /\ \A u \in Threads : Born(u)
  BY <1>1, <1>2, <1>3 DEF Phases, Born, RunPcs
<1>5. "main" \in DOMAIN doing
  BY <1>1 DEF DoingInv
<1>6. CASE FetchNumber(t)
  <2>1. /\ threadPc[t] = "fetch" /\ nextRequest' = nextRequest + 1
        /\ UNCHANGED <<failed, doing, issued>>
    BY <1>6 DEF FetchNumber, CounterAfterFetch
  <2>2. \/ /\ nextRequest >= TotalRequests /\ number' = number
           /\ threadPc' = [threadPc EXCEPT ![t] = "exited"]
        \/ /\ nextRequest < TotalRequests
           /\ threadPc' = [threadPc EXCEPT ![t] = "connect"]
           /\ number' = [number EXCEPT ![t] = nextRequest]
    BY <1>2, <1>6 DEF FetchNumber
  <2>3. /\ threadPc' \in [Threads -> ThreadPcs] /\ number' \in [Threads -> Nat]
        /\ \A u \in Threads \ {t} : threadPc'[u] = threadPc[u] /\ number'[u] = number[u]
        /\ \/ nextRequest >= TotalRequests /\ threadPc'[t] = "exited"
           \/ /\ nextRequest < TotalRequests
              /\ threadPc'[t] = "connect" /\ number'[t] = nextRequest
    BY <1>2, <2>2 DEF ThreadPcs
  <2>4. \A u \in Awaiting' :
          \/ u # t /\ u \in Awaiting /\ number'[u] = number[u]
          \/ u = t /\ number'[u] = nextRequest /\ nextRequest < TotalRequests
    BY <2>3 DEF Awaiting
  <2>5. ClientTypes'
    <3>1. ASSUME NEW u \in Awaiting'
          PROVE  number'[u] < nextRequest' /\ number'[u] < TotalRequests
      <4>1. CASE u = t /\ number'[u] = nextRequest /\ nextRequest < TotalRequests
        BY <1>2, <2>1, <4>1
      <4>2. CASE u \in Awaiting /\ number'[u] = number[u]
        <5>1. number[u] < nextRequest /\ number[u] < TotalRequests /\ number[u] \in Nat
          BY <1>1, <1>2, <4>2 DEF ClientTypes, Awaiting
        <5>2. QED
          BY <1>2, <2>1, <4>2, <5>1
      <4>3. QED
        BY <2>4, <4>1, <4>2
    <3>2. QED
      BY <1>1, <1>2, <2>1, <2>3, <3>1 DEF ClientTypes
  <2>6. Phases'
    <3>1. \A u \in Threads : threadPc'[u] # "unborn"
      BY <1>4, <2>3 DEF Born
    <3>2. ASSUME NEW u \in Threads, threadPc'[u] = "exited"
          PROVE  nextRequest' >= TotalRequests
      BY <1>1, <1>2, <2>1, <2>3, <3>2 DEF Phases
    <3>3. QED
      BY <1>1, <1>4, <3>1, <3>2 DEF Phases, Born
  <2>7. NumbersApart'
    <3>1. \A u \in Awaiting : number[u] # nextRequest
      BY <1>1, <1>2 DEF ClientTypes, Awaiting
    <3>2. QED
      BY <1>1, <2>4, <3>1 DEF NumbersApart
  <2>8. NotYetIssued'
    <3>1. ASSUME NEW k \in Files, k > seeding
          PROVE  SeedConn(k) \notin issued
      BY <1>1, <3>1 DEF NotYetIssued
    <3>2. ASSUME NEW i \in RequestNumbers, i >= nextRequest'
          PROVE  LoadConn(i) \notin issued
      BY <1>1, <1>2, <2>1, <3>2 DEF NotYetIssued, RequestNumbers
    <3>3. ASSUME NEW u \in Threads, threadPc'[u] = "connect"
          PROVE  LoadConn(number'[u]) \notin issued
      <4>1. CASE u = t
        <5>1. nextRequest \in RequestNumbers /\ number'[u] = nextRequest
          BY <1>2, <2>3, <3>3, <4>1 DEF RequestNumbers
        <5>2. QED
          BY <1>1, <1>2, <5>1 DEF NotYetIssued
      <4>2. CASE u # t
        BY <1>1, <2>3, <3>3, <4>2 DEF NotYetIssued
      <4>3. QED
        BY <4>1, <4>2
    <3>4. QED
      BY <1>1, <1>4, <2>1, <3>1, <3>2, <3>3 DEF NotYetIssued
  <2>9. DoingInv'
    BY <1>1, <2>1, <2>3 DEF DoingInv
  <2>10. QED
    BY <2>5, <2>6, <2>7, <2>8, <2>9 DEF ClientInv
<1>7. ASSUME UNCHANGED <<nextRequest, number>>, failed' \in BOOLEAN,
             issued' \subseteq Conns, t \in Awaiting, NEW pc \in {"fetch", "await"},
             threadPc' = [threadPc EXCEPT ![t] = pc]
      PROVE  /\ ClientTypes' /\ Phases' /\ NumbersApart'
             /\ \A u \in Threads \ {t} : threadPc'[u] = threadPc[u]
             /\ threadPc'[t] = pc
  <2>1. /\ threadPc' \in [Threads -> ThreadPcs]
        /\ \A u \in Threads \ {t} : threadPc'[u] = threadPc[u]
        /\ threadPc'[t] = pc
    BY <1>2, <1>7 DEF ThreadPcs
  <2>2. Awaiting' \subseteq Awaiting
    BY <1>7, <2>1 DEF Awaiting
  <2>3. ClientTypes'
    BY <1>1, <1>7, <2>1, <2>2 DEF ClientTypes
  <2>4. NumbersApart'
    BY <1>1, <1>7, <2>2 DEF NumbersApart
  <2>5. Phases'
    BY <1>1, <1>4, <1>7, <2>1 DEF Phases, Born
  <2>6. QED
    BY <2>1, <2>3, <2>4, <2>5
<1>8. CASE Connect(t)
  <2> DEFINE c == LoadConn(number[t])
  <2>1. /\ threadPc[t] = "connect" /\ t \in Awaiting
        /\ UNCHANGED <<nextRequest, number>>
    BY <1>8 DEF Connect, Awaiting
  <2>2. number[t] < nextRequest /\ number[t] \in RequestNumbers /\ c \in Conns
    BY <1>1, <1>2, <2>1, ConnNumbers DEF ClientTypes, RequestNumbers
  <2>3. CASE threadPc' = [threadPc EXCEPT ![t] = "fetch"] /\ failed' = TRUE
             /\ UNCHANGED <<doing, issued>>
    <3>1. /\ ClientTypes' /\ Phases' /\ NumbersApart'
          /\ \A u \in Threads \ {t} : threadPc'[u] = threadPc[u]
          /\ threadPc'[t] = "fetch"
      BY <1>1, <1>7, <2>1, <2>3 DEF ClientTypes
    <3>2. NotYetIssued'
      BY <1>1, <2>1, <2>3, <3>1 DEF NotYetIssued
    <3>3. DoingInv'
      BY <1>1, <2>1, <2>3, <3>1 DEF DoingInv
    <3>4. QED
      BY <3>1, <3>2, <3>3 DEF ClientInv
  <2>4. ASSUME NEW k \in Files, NEW what \in {Get(k), Put(k, number[t])},
               Opens(c, t, what), failed' = failed,
               threadPc' = [threadPc EXCEPT ![t] = "await"]
        PROVE  ClientInv'
    <3>1. issued' = issued \cup {c} /\ doing' = [doing EXCEPT ![t] = what]
      BY <2>4 DEF Opens
    <3>2. /\ ClientTypes' /\ Phases' /\ NumbersApart'
          /\ \A u \in Threads \ {t} : threadPc'[u] = threadPc[u]
          /\ threadPc'[t] = "await"
      <4>1. issued' \subseteq Conns /\ failed' \in BOOLEAN
        BY <1>1, <1>2, <2>2, <2>4, <3>1 DEF ClientTypes
      <4>2. QED
        BY <1>7, <2>1, <2>4, <4>1
    <3>3. NotYetIssued'
      <4>1. ASSUME NEW j \in Files, j > seeding
            PROVE  SeedConn(j) \notin issued'
        BY <1>1, <1>2, <3>1, <4>1, ConnNumbers DEF NotYetIssued
      <4>2. ASSUME NEW i \in RequestNumbers, i >= nextRequest
            PROVE  LoadConn(i) \notin issued'
        <5>1. i # number[t] /\ i \in Nat
          BY <1>2, <2>2, <4>2 DEF RequestNumbers
        <5>2. QED
          BY <1>1, <1>2, <3>1, <4>2, <5>1, ConnNumbers DEF NotYetIssued
      <4>3. ASSUME NEW u \in Threads, threadPc'[u] = "connect"
            PROVE  LoadConn(number[u]) \notin issued'
        <5>1. u # t /\ threadPc[u] = "connect" /\ number[u] \in Nat
          BY <1>2, <3>2, <4>3
        <5>2. number[u] # number[t]
          BY <1>1, <2>1, <5>1 DEF NumbersApart, Awaiting
        <5>3. QED
          BY <1>1, <1>2, <3>1, <5>1, <5>2, ConnNumbers DEF NotYetIssued
      <4>4. QED
        BY <1>1, <1>4, <2>1, <4>1, <4>2, <4>3 DEF NotYetIssued
    <3>4. DoingInv'
      <4>1. DOMAIN doing' = Threads \cup {"main"}
        BY <1>1, <3>1 DEF DoingInv
      <4>2. ASSUME NEW a \in DOMAIN doing', doing'[a] # Nothing, a # t
            PROVE  \/ /\ a = "main" /\ runPc' = "await"
                      /\ \E j \in Files : doing'[a] = Seed(j)
                   \/ /\ a \in Threads /\ threadPc'[a] = "await"
                      /\ \E j \in Files : doing'[a] \in {Get(j), Put(j, number'[a])}
        <5>1. doing'[a] = doing[a] /\ a \in DOMAIN doing
          BY <1>1, <3>1, <4>1, <4>2 DEF DoingInv
        <5>2. QED
          BY <1>1, <2>1, <3>2, <4>2, <5>1 DEF DoingInv
      <4>3. doing'[t] = what
        BY <1>1, <3>1 DEF DoingInv
      <4>4. QED
        BY <2>1, <2>4, <3>2, <4>1, <4>2, <4>3 DEF DoingInv
    <3>5. QED
      BY <3>2, <3>3, <3>4 DEF ClientInv
  <2>5. QED
    <3>1. \/ /\ threadPc' = [threadPc EXCEPT ![t] = "fetch"] /\ failed' = TRUE
             /\ UNCHANGED <<doing, issued>>
          \/ /\ \E k \in Files : \/ Opens(c, t, Get(k))
                                 \/ Opens(c, t, Put(k, number[t]))
             /\ failed' = failed /\ threadPc' = [threadPc EXCEPT ![t] = "await"]
      BY <1>8 DEF Connect
    <3>2. QED
      BY <2>3, <2>4, <3>1
<1>9. CASE RequestAnswered(t)
  <2>1. /\ threadPc[t] = "await" /\ t \in Awaiting
        /\ threadPc' = [threadPc EXCEPT ![t] = "fetch"]
        /\ UNCHANGED <<nextRequest, number, issued>>
        /\ doing' = [doing EXCEPT ![t] = Nothing]
        /\ failed' = (failed \/ ~Succeeded(LoadConn(number[t])))
    BY <1>9 DEF RequestAnswered, Awaiting, FailedAfter
  <2>2. failed' \in BOOLEAN
    BY <2>1
  <2>3. /\ ClientTypes' /\ Phases' /\ NumbersApart'
        /\ \A u \in Threads \ {t} : threadPc'[u] = threadPc[u]
        /\ threadPc'[t] = "fetch"
    BY <1>1, <1>7, <2>1, <2>2 DEF ClientTypes
  <2>4. NotYetIssued'
    BY <1>1, <2>1, <2>3 DEF NotYetIssued
  <2>5. DoingInv'
    BY <1>1, <2>1, <2>3 DEF DoingInv
  <2>6. QED
    BY <2>3, <2>4, <2>5 DEF ClientInv
<1>10. QED
  BY <1>6, <1>8, <1>9 DEF ThreadStep

LEMMA NextClient ==
  ASSUME ClientInv, [LoadNext]_allVars
  PROVE  ClientInv'
<1>1. CASE RunStep
  BY <1>1, RunClient
<1>2. ASSUME NEW t \in Threads, ThreadStep(t) PROVE ClientInv'
  BY <1>2, ThreadClient
<1>3. CASE UNCHANGED loadVars
  BY <1>3, ServerLeavesClient
<1>4. QED
  BY <1>1, <1>2, <1>3
     DEF LoadNext, ServerStep, ServerAccepts, ServerSignalled, allVars

LEMMA AlwaysClient == LoadSpec => []ClientInv
BY InitClient, NextClient, PTL DEF LoadSpec

-----------------------------------------------------------------------------
(* The server under the load.                                              *)

\* A step of the two programs is one of the server or leaves it alone.
LEMMA LoadStepIsServerStep ==
  ASSUME ClientInv, [LoadNext]_allVars
  PROVE  [Next]_vars
<1>1. CASE ServerStep
  BY <1>1 DEF ServerStep, Next
<1>2. CASE ServerAccepts
  BY <1>2 DEF ServerAccepts, Next, Environment, ClientInv, ClientTypes
<1>3. CASE ServerSignalled
  BY <1>3 DEF ServerSignalled, Next, Environment
<1>4. CASE RunStep
  BY <1>4 DEF RunStep, SeedConnect, SeedAnswered, JoinThreads
<1>5. ASSUME NEW t \in Threads, ThreadStep(t) PROVE UNCHANGED vars
  BY <1>5 DEF ThreadStep, FetchNumber, Connect, RequestAnswered
<1>6. QED
  BY <1>1, <1>2, <1>3, <1>4, <1>5 DEF LoadNext, allVars

\* The load generator is one of the clients FileServer allows for: whatever holds
\* of every behaviour of the server holds under the load.
THEOREM LoadRunsServer == LoadSpec => Spec
<1>1. LoadInit => Init
  BY DEF LoadInit
<1>2. ClientInv /\ [LoadNext]_allVars => [Next]_vars
  BY LoadStepIsServerStep
<1>3. QED
  BY <1>1, <1>2, AlwaysClient, PTL DEF LoadSpec, Spec

-----------------------------------------------------------------------------
(* What the client makes of the answers.                                   *)

\* The server accepts only what the client opened, and finishes only what it
\* accepted.
SeenIsIssued == seen \subseteq issued
FinishedIsSeen == FinishedConns \subseteq seen

\* Connection c will never be finished: it was not opened and will not be, or it
\* is closed.
Lost(c) == c \notin FinishedConns /\ (c \notin issued \/ (c \in seen /\ ~Connected(c)))

\* Request number i has been drawn and done with.
Settled(i) == i < nextRequest /\ \A t \in Awaiting : number[t] # i

SeedsFinished ==
  \A k \in Files : k < seeding \/ (\E t \in Threads : Born(t)) =>
    SeedConn(k) \in FinishedConns

RequestsFinished ==
  \A i \in RequestNumbers : Settled(i) => LoadConn(i) \in FinishedConns \/ failed

\* A run that fails has lost a request, or the file it was seeding.
FailedIsLost ==
  /\ failed => \E i \in RequestNumbers : Settled(i) /\ Lost(LoadConn(i))
  /\ runPc = "failed" /\ ~failed => Lost(SeedConn(seeding))

OutcomeInv ==
  OwnersApart /\ SeenIsIssued /\ FinishedIsSeen /\ SeedsFinished
    /\ RequestsFinished /\ FailedIsLost

LEMMA InitOutcome == LoadInit => OutcomeInv
<1> SUFFICES ASSUME LoadInit PROVE OutcomeInv
  OBVIOUS
<1>1. OwnersApart
  BY InitRefinementInv DEF LoadInit, RefinementInv
<1>2. FinishedConns = {}
  BY DEF LoadInit, Init, FinishedConns
<1>3. SeenIsIssued /\ FinishedIsSeen
  BY <1>2 DEF LoadInit, Init, SeenIsIssued, FinishedIsSeen
<1>4. SeedsFinished
  BY DEF LoadInit, SeedsFinished, Files, Born
<1>5. RequestsFinished /\ FailedIsLost
  BY DEF LoadInit, RequestsFinished, FailedIsLost, Settled, RequestNumbers
<1>6. QED
  BY <1>1, <1>3, <1>4, <1>5 DEF OutcomeInv

\* Whoever steps, the server keeps what it finished and finishes only what it
\* accepted, and what is lost stays lost unless the client opens it.
LEMMA ServerOutcome ==
  ASSUME Typed, DescriptorInv, ClientInv, OutcomeInv, [LoadNext]_allVars
  PROVE  /\ OwnersApart' /\ SeenIsIssued' /\ FinishedIsSeen'
         /\ FinishedConns \subseteq FinishedConns'
         /\ \A c \in Conns : Lost(c) /\ (c \in issued' => c \in issued) => Lost(c)'
<1> USE DEF envVars, mainVars, parserVars, workerVars, metricVars, kernelVars,
            history
<1>1. [Next]_vars
  BY LoadStepIsServerStep
<1>2. OwnersApart'
  BY <1>1, NextOwnersApart DEF OutcomeInv
<1>3. FinishedConns \subseteq FinishedConns'
  BY <1>1, FinishedGrows
<1>4. issued \subseteq issued' /\ seen \subseteq seen'
  <2>1. seen \subseteq seen'
    BY <1>1
       DEF Next, vars, MainStep, ParserStep, WorkerStep, Environment, Accept,
           EnterAccept, AcceptFails, EnqueueConnection, SignalConnection,
           CheckShutdown, WakeParserForShutdown, JoinParser, BroadcastWorkers,
           JoinWorkers, WriteMetrics, ParserTakes, ParserFindsNone,
           ParserWaits, ParserAnswers, ParserAdmits, ParserSignals,
           WorkerTakes, WorkerFindsNone, WorkerWaits, ServeFails,
           ServeCompletes, ServeYields, WorkerRequeues, WorkerSignals,
           WorkerRecords, Signal, SpuriousWakeup
  <2>2. issued \subseteq issued'
    BY DEF LoadNext, ServerStep, ServerAccepts, ServerSignalled, RunStep,
           ThreadStep, SeedConnect, SeedAnswered, JoinThreads, FetchNumber,
           Connect, RequestAnswered, Opens, allVars, loadVars
  <2>3. QED
    BY <2>1, <2>2
<1>5. SeenIsIssued'
  <2>1. CASE ServerAccepts
    BY <1>4, <2>1 DEF ServerAccepts, Accept, OutcomeInv, SeenIsIssued
  <2>2. CASE ~ServerAccepts
    <3>1. seen' = seen
      BY <2>2
         DEF LoadNext, ServerStep, ServerSignalled, RunStep, ThreadStep,
             SeedConnect, SeedAnswered, JoinThreads, FetchNumber, Connect,
             RequestAnswered, allVars, vars, MainStep, ParserStep, WorkerStep,
             EnterAccept, AcceptFails, EnqueueConnection, SignalConnection,
             CheckShutdown, WakeParserForShutdown, JoinParser,
             BroadcastWorkers, JoinWorkers, WriteMetrics, ParserTakes,
             ParserFindsNone, ParserWaits, ParserAnswers, ParserAdmits,
             ParserSignals, WorkerTakes, WorkerFindsNone, WorkerWaits,
             ServeFails, ServeCompletes, ServeYields, WorkerRequeues,
             WorkerSignals, WorkerRecords, Signal
    <3>2. QED
      BY <1>4, <3>1 DEF OutcomeInv, SeenIsIssued
  <2>3. QED
    BY <2>1, <2>2
<1>6. ASSUME NEW c \in FinishedConns', c \notin FinishedConns
      PROVE  c # NoConn /\ Connected(c) /\ c \in seen
  <2>1. c # NoConn /\ Connected(c)
    BY <1>1, <1>6, FinishedWhileOpen
  <2>2. QED
    BY <2>1 DEF Connected, OutcomeInv, OwnersApart
<1>7. FinishedIsSeen'
  BY <1>4, <1>6 DEF OutcomeInv, FinishedIsSeen
<1>8. ASSUME NEW c \in Conns, Lost(c), c \in issued' => c \in issued
      PROVE  Lost(c)'
  <2>1. c # NoConn
    BY ServerAssumption DEF ServerAssumption
  <2>2. CASE c \notin issued
    <3>1. c \notin issued' /\ c \notin seen'
      BY <1>5, <1>8, <2>2 DEF SeenIsIssued
    <3>2. QED
      BY <1>7, <3>1 DEF FinishedIsSeen, Lost
  <2>3. CASE c \in seen /\ ~Connected(c)
    <3>1. ~Connected(c)'
      BY <1>1, <2>1, <2>3, ConnectedBefore
    <3>2. c \notin FinishedConns'
      BY <1>6, <1>8, <2>3 DEF Lost
    <3>3. QED
      BY <1>4, <2>3, <3>1, <3>2 DEF Lost
  <2>4. QED
    BY <1>8, <2>2, <2>3 DEF Lost
<1>9. QED
  BY <1>2, <1>3, <1>5, <1>7, <1>8

\* While the server works, the client's record of the outcomes stays true.
LEMMA ServerKeepsOutcomes ==
  ASSUME OutcomeInv, UNCHANGED loadVars, ClientTypes,
         FinishedConns \subseteq FinishedConns',
         \A c \in Conns : Lost(c) => Lost(c)'
  PROVE  SeedsFinished' /\ RequestsFinished' /\ FailedIsLost'
<1> USE DEF loadVars
<1>1. Awaiting' = Awaiting /\ \A i \in RequestNumbers : Settled(i)' <=> Settled(i)
  BY DEF Awaiting, Settled
<1>2. SeedsFinished'
  BY DEF OutcomeInv, SeedsFinished, Born
<1>3. RequestsFinished'
  BY <1>1 DEF OutcomeInv, RequestsFinished
<1>4. FailedIsLost'
  <2>1. SeedConn(seeding) \in Conns
    BY ConnNumbers DEF ClientTypes
  <2>2. \A i \in RequestNumbers : LoadConn(i) \in Conns
    BY ConnNumbers
  <2>3. QED
    BY <1>1, <2>1, <2>2 DEF OutcomeInv, FailedIsLost
<1>5. QED
  BY <1>2, <1>3, <1>4

\* main ends at once when a seeding fails, and goes on when it succeeds.
LEMMA RunOutcomes ==
  ASSUME OutcomeInv, ClientInv, RunStep
  PROVE  SeedsFinished' /\ RequestsFinished' /\ FailedIsLost'
<1>1. /\ SeedsFinished /\ RequestsFinished /\ FailedIsLost
      /\ ClientTypes /\ Phases /\ NotYetIssued
  BY DEF OutcomeInv, ClientInv
<1>2. UNCHANGED <<vars, nextRequest, failed, number>>
  BY DEF RunStep, SeedConnect, SeedAnswered, JoinThreads
<1>3. FinishedConns' = FinishedConns /\ seen' = seen /\ owner' = owner
  BY <1>2 DEF vars, FinishedConns, workerVars, metricVars, kernelVars
<1>4. \A c \in Conns : Connected(c)' <=> Connected(c)
  BY <1>3 DEF Connected
<1>5. seeding \in Files /\ SeedConn(seeding) \in Conns /\ NumFiles \in Nat
  BY <1>1, ConnNumbers DEF ClientTypes
<1>6. CASE SeedConnect \/ SeedAnswered
  <2>1. ~failed /\ \A t \in Threads : ~Born(t)
    BY <1>1, <1>6 DEF Phases, SeedConnect, SeedAnswered
  <2>2. Awaiting = {} /\ Awaiting' = {}
    BY <1>6, <2>1 DEF Awaiting, Born, SeedConnect, SeedAnswered
  <2>3. RequestsFinished'
    BY <1>1, <1>2, <1>3, <2>2 DEF RequestsFinished, Settled
  <2>4. CASE SeedConnect
    <3>1. /\ UNCHANGED <<seeding, threadPc>> /\ runPc = "connect"
          /\ runPc' \in {"await", "failed"}
          /\ runPc' = "failed" => issued' = issued
      BY <2>4 DEF SeedConnect
    <3>2. SeedsFinished'
      BY <1>1, <1>3, <3>1 DEF SeedsFinished, Born
    <3>3. ASSUME runPc' = "failed" PROVE Lost(SeedConn(seeding))'
      <4>1. SeedConn(seeding) \notin issued'
        BY <1>1, <1>5, <3>1, <3>3 DEF NotYetIssued
      <4>2. SeedConn(seeding) \notin FinishedConns
        BY <3>1, <3>3, <4>1 DEF OutcomeInv, SeenIsIssued, FinishedIsSeen
      <4>3. QED
        BY <1>3, <3>1, <4>1, <4>2 DEF Lost
    <3>4. FailedIsLost'
      BY <1>2, <2>1, <3>1, <3>3 DEF FailedIsLost
    <3>5. QED
      BY <2>3, <3>2, <3>4
  <2>5. CASE SeedAnswered
    <3> DEFINE c == SeedConn(seeding)
    <3>1. CASE c \in FinishedConns
      <4>1. runPc' # "failed" /\ seeding' \in {seeding, seeding + 1}
            /\ (seeding' = seeding => seeding = NumFiles)
        BY <1>5, <2>5, <3>1 DEF SeedAnswered, Succeeded, Files
      <4>2. ASSUME NEW k \in Files,
                   k < seeding' \/ (\E t \in Threads : Born(t)')
            PROVE  k <= seeding
        <5>1. CASE seeding = NumFiles
          BY <1>5, <5>1 DEF Files
        <5>2. CASE seeding # NumFiles
          <6>1. threadPc' = threadPc
            BY <1>5, <2>5, <3>1, <5>2 DEF SeedAnswered, Succeeded, Files
          <6>2. k < seeding'
            BY <2>1, <4>2, <6>1 DEF Born
          <6>3. QED
            BY <1>5, <4>1, <5>2, <6>2 DEF Files
        <5>3. QED
          BY <5>1, <5>2
      <4>3. \A k \in Files : k <= seeding => SeedConn(k) \in FinishedConns
        <5>1. \A k \in Files : k <= seeding => k < seeding \/ k = seeding
          BY <1>5 DEF Files
        <5>2. QED
          BY <1>1, <3>1, <5>1 DEF SeedsFinished
      <4>4. SeedsFinished'
        BY <1>3, <4>2, <4>3 DEF SeedsFinished
      <4>5. FailedIsLost'
        BY <1>2, <2>1, <4>1 DEF FailedIsLost
      <4>6. QED
        BY <2>3, <4>4, <4>5
    <3>2. CASE c \notin FinishedConns
      <4>1. /\ UNCHANGED <<seeding, threadPc, issued>>
            /\ c \in seen /\ ~Connected(c)
        BY <2>5, <3>2 DEF SeedAnswered, Succeeded, Answered
      <4>2. SeedsFinished'
        BY <1>1, <1>3, <4>1 DEF SeedsFinished, Born
      <4>3. Lost(c)'
        BY <1>3, <1>4, <1>5, <3>2, <4>1 DEF Lost
      <4>4. FailedIsLost'
        BY <1>2, <2>1, <4>1, <4>3 DEF FailedIsLost
      <4>5. QED
        BY <2>3, <4>2, <4>4
    <3>3. QED
      BY <3>1, <3>2
  <2>6. QED
    BY <1>6, <2>4, <2>5
<1>7. CASE JoinThreads
  <2>1. /\ UNCHANGED <<seeding, threadPc, issued>>
        /\ runPc' = IF failed THEN "failed" ELSE "succeeded"
    BY <1>7 DEF JoinThreads
  <2>2. \A i \in RequestNumbers : Settled(i)' <=> Settled(i)
    BY <1>2, <2>1 DEF Settled, Awaiting
  <2>3. SeedsFinished' /\ RequestsFinished'
    BY <1>1, <1>2, <1>3, <2>1, <2>2 DEF SeedsFinished, RequestsFinished, Born
  <2>4. \A c \in Conns : Lost(c)' <=> Lost(c)
    BY <1>3, <1>4, <2>1 DEF Lost
  <2>5. FailedIsLost'
    BY <1>1, <1>2, <2>1, <2>2, <2>4, ConnNumbers DEF FailedIsLost
  <2>6. QED
    BY <2>3, <2>5
<1>8. QED
  BY <1>6, <1>7 DEF RunStep

\* A thread settles its number with a connection that is finished or lost.
LEMMA ThreadOutcomes ==
  ASSUME OutcomeInv, ClientInv, NEW t \in Threads, ThreadStep(t),
         \A c \in Conns : Lost(c) /\ (c \in issued' => c \in issued) => Lost(c)'
  PROVE  SeedsFinished' /\ RequestsFinished' /\ FailedIsLost'
<1>1. /\ SeedsFinished /\ RequestsFinished /\ FailedIsLost
      /\ ClientTypes /\ Phases /\ NumbersApart /\ NotYetIssued
  BY DEF OutcomeInv, ClientInv
<1>2. UNCHANGED <<vars, runPc, seeding>>
  BY DEF ThreadStep, FetchNumber, Connect, RequestAnswered
<1>3. FinishedConns' = FinishedConns /\ seen' = seen /\ owner' = owner
  BY <1>2 DEF vars, FinishedConns, workerVars, metricVars, kernelVars
<1>4. /\ threadPc \in [Threads -> ThreadPcs] /\ number \in [Threads -> Nat]
      /\ nextRequest \in Nat /\ TotalRequests \in Nat
      /\ threadPc[t] \in {"fetch", "connect", "await"} /\ runPc \in RunPcs
  BY <1>1, ConnNumbers
     DEF ClientTypes, ThreadStep, FetchNumber, Connect, RequestAnswered
<1>5. runPc = "join" /\ Born(t)
  BY <1>1, <1>4 DEF Phases, Born, RunPcs
<1>6. SeedsFinished'
  BY <1>1, <1>2, <1>3, <1>5 DEF SeedsFinished
<1>7. CASE FetchNumber(t)
  <2>1. /\ threadPc[t] = "fetch" /\ nextRequest' = nextRequest + 1
        /\ UNCHANGED <<failed, issued>>
        /\ \/ nextRequest >= TotalRequests /\ number' = number
              /\ threadPc' = [threadPc EXCEPT ![t] = "exited"]
           \/ /\ threadPc' = [threadPc EXCEPT ![t] = "connect"]
              /\ number' = [number EXCEPT ![t] = nextRequest]
    BY <1>7 DEF FetchNumber, CounterAfterFetch
  <2>2. ASSUME NEW i \in RequestNumbers PROVE Settled(i)' <=> Settled(i)
    <3>1. i \in Nat /\ i < TotalRequests
      BY <1>4 DEF RequestNumbers
    <3>2. CASE nextRequest >= TotalRequests /\ number' = number
               /\ threadPc' = [threadPc EXCEPT ![t] = "exited"]
      <4>1. Awaiting' = Awaiting
        BY <1>4, <2>1, <3>2 DEF Awaiting
      <4>2. QED
        BY <1>4, <2>1, <3>1, <3>2, <4>1 DEF Settled
    <3>3. CASE /\ threadPc' = [threadPc EXCEPT ![t] = "connect"]
               /\ number' = [number EXCEPT ![t] = nextRequest]
      <4>1. /\ Awaiting' = Awaiting \cup {t} /\ t \notin Awaiting
            /\ number'[t] = nextRequest
            /\ \A u \in Awaiting : number'[u] = number[u]
        BY <1>4, <2>1, <3>3 DEF Awaiting
      <4>2. i < nextRequest' /\ i # nextRequest <=> i < nextRequest
        BY <1>4, <2>1, <3>1
      <4>3. QED
        BY <4>1, <4>2 DEF Settled
    <3>4. QED
      BY <2>1, <3>2, <3>3
  <2>3. RequestsFinished'
    BY <1>1, <1>3, <2>1, <2>2 DEF RequestsFinished
  <2>4. FailedIsLost'
    BY <1>1, <1>5, <1>2, <2>1, <2>2, ConnNumbers DEF FailedIsLost
  <2>5. QED
    BY <1>6, <2>3, <2>4
<1>8. ASSUME t \in Awaiting, UNCHANGED <<nextRequest, number>>,
             threadPc' = [threadPc EXCEPT ![t] = "fetch"]
      PROVE  /\ Settled(number[t])' /\ number[t] \in RequestNumbers
             /\ \A i \in RequestNumbers : Settled(i)' => Settled(i) \/ i = number[t]
             /\ \A i \in RequestNumbers : Settled(i) => Settled(i)'
  <2>1. Awaiting' = Awaiting \ {t}
    BY <1>4, <1>8 DEF Awaiting
  <2>2. number[t] < nextRequest /\ number[t] \in RequestNumbers
    BY <1>1, <1>4, <1>8 DEF ClientTypes, RequestNumbers
  <2>3. QED
    BY <1>1, <1>8, <2>1, <2>2 DEF Settled, NumbersApart
<1>9. CASE Connect(t)
  <2>1. /\ threadPc[t] = "connect" /\ t \in Awaiting
        /\ UNCHANGED <<nextRequest, number>>
    BY <1>9 DEF Connect, Awaiting
  <2>2. CASE /\ threadPc' = [threadPc EXCEPT ![t] = "await"] /\ failed' = failed
             /\ issued' = issued \cup {LoadConn(number[t])}
    <3>1. Awaiting' = Awaiting
      BY <1>4, <2>1, <2>2 DEF Awaiting
    <3>2. \A i \in RequestNumbers : Settled(i)' <=> Settled(i)
      BY <2>1, <3>1 DEF Settled
    <3>3. RequestsFinished'
      BY <1>1, <1>3, <2>2, <3>2 DEF RequestsFinished
    <3>4. ASSUME NEW i \in RequestNumbers, Settled(i), Lost(LoadConn(i))
          PROVE  Lost(LoadConn(i))'
      <4>1. i # number[t] /\ i \in Nat /\ number[t] \in Nat
        BY <1>4, <2>1, <3>4 DEF Settled, RequestNumbers
      <4>2. LoadConn(i) # LoadConn(number[t]) /\ LoadConn(i) \in Conns
        BY <4>1, ConnNumbers
      <4>3. QED
        BY <2>2, <3>4, <4>2
    <3>5. FailedIsLost'
      BY <1>1, <1>2, <1>5, <2>2, <3>2, <3>4 DEF FailedIsLost
    <3>6. QED
      BY <1>6, <3>3, <3>5
  <2>3. CASE /\ threadPc' = [threadPc EXCEPT ![t] = "fetch"] /\ failed' = TRUE
             /\ issued' = issued
    <3>1. LoadConn(number[t]) \notin issued
      BY <1>1, <2>1 DEF NotYetIssued
    <3>2. LoadConn(number[t]) \notin FinishedConns
      BY <3>1 DEF OutcomeInv, SeenIsIssued, FinishedIsSeen
    <3>3. Lost(LoadConn(number[t]))'
      BY <1>3, <2>1, <2>3, <3>1, <3>2 DEF Lost
    <3>4. Settled(number[t])' /\ number[t] \in RequestNumbers
      BY <1>8, <2>1, <2>3
    <3>5. FailedIsLost' /\ RequestsFinished'
      BY <1>2, <1>5, <2>1, <2>3, <3>3, <3>4 DEF FailedIsLost, RequestsFinished
    <3>6. QED
      BY <1>6, <3>5
  <2>4. \/ /\ threadPc' = [threadPc EXCEPT ![t] = "await"] /\ failed' = failed
           /\ issued' = issued \cup {LoadConn(number[t])}
        \/ /\ threadPc' = [threadPc EXCEPT ![t] = "fetch"] /\ failed' = TRUE
           /\ issued' = issued
    BY <1>9 DEF Connect, Opens
  <2>5. QED
    BY <2>2, <2>3, <2>4
<1>10. CASE RequestAnswered(t)
  <2> DEFINE c == LoadConn(number[t])
  <2>1. /\ t \in Awaiting /\ UNCHANGED <<nextRequest, number, issued>>
        /\ threadPc' = [threadPc EXCEPT ![t] = "fetch"]
        /\ c \in seen /\ ~Connected(c)
        /\ failed' = (failed \/ c \notin FinishedConns)
    BY <1>10 DEF RequestAnswered, Answered, Succeeded, FailedAfter, Awaiting
  <2>2. /\ Settled(number[t])' /\ number[t] \in RequestNumbers
        /\ \A i \in RequestNumbers : Settled(i)' => Settled(i) \/ i = number[t]
        /\ \A i \in RequestNumbers : Settled(i) => Settled(i)'
    BY <1>8, <2>1
  <2>3. RequestsFinished'
    BY <1>1, <1>3, <2>1, <2>2 DEF RequestsFinished
  <2>4. c \notin FinishedConns => Lost(c)'
    BY <1>3, <2>1 DEF Lost, Connected
  <2>5. \A i \in RequestNumbers : Lost(LoadConn(i)) => Lost(LoadConn(i))'
    BY <2>1, ConnNumbers
  <2>6. FailedIsLost'
    BY <1>1, <1>2, <1>5, <2>1, <2>2, <2>4, <2>5 DEF FailedIsLost
  <2>7. QED
    BY <1>6, <2>3, <2>6
<1>11. QED
  BY <1>7, <1>9, <1>10 DEF ThreadStep

LEMMA NextOutcome ==
  ASSUME Typed, DescriptorInv, ClientInv, OutcomeInv, [LoadNext]_allVars
  PROVE  OutcomeInv'
<1>1. /\ OwnersApart' /\ SeenIsIssued' /\ FinishedIsSeen'
      /\ FinishedConns \subseteq FinishedConns'
      /\ \A c \in Conns : Lost(c) /\ (c \in issued' => c \in issued) => Lost(c)'
  BY ServerOutcome
<1>2. CASE RunStep
  BY <1>1, <1>2, RunOutcomes DEF OutcomeInv
<1>3. ASSUME NEW t \in Threads, ThreadStep(t) PROVE OutcomeInv'
  BY <1>1, <1>3, ThreadOutcomes DEF OutcomeInv
<1>4. CASE UNCHANGED loadVars
  <2>1. \A c \in Conns : Lost(c) => Lost(c)'
    BY <1>1, <1>4 DEF loadVars
  <2>2. SeedsFinished' /\ RequestsFinished' /\ FailedIsLost'
    BY <1>1, <1>4, <2>1, ServerKeepsOutcomes DEF ClientInv
  <2>3. QED
    BY <1>1, <2>2 DEF OutcomeInv
<1>5. QED
  BY <1>2, <1>3, <1>4
     DEF LoadNext, ServerStep, ServerAccepts, ServerSignalled, allVars

\* At the end of a run every number is settled, and every file was seeded.
LEMMA OutcomesAreExitCode ==
  ASSUME ClientInv, OutcomeInv
  PROVE  ExitCodeTrue
<1>1. /\ ClientTypes /\ Phases /\ SeenIsIssued /\ FinishedIsSeen
      /\ SeedsFinished /\ RequestsFinished /\ FailedIsLost
  BY DEF ClientInv, OutcomeInv
<1>2. FinishedConns \subseteq Conns
  BY <1>1 DEF SeenIsIssued, FinishedIsSeen, ClientTypes
<1>3. ASSUME runPc = "succeeded" PROVE Conns \subseteq FinishedConns
  <2>1. ~failed /\ \A t \in Threads : threadPc[t] = "exited"
    BY <1>1, <1>3 DEF Phases
  <2>2. PICK t \in Threads : threadPc[t] = "exited"
    BY <2>1, LoadAssumption DEF LoadAssumption
  <2>3. Born(t) /\ nextRequest >= TotalRequests
    BY <1>1, <2>2 DEF Phases, Born
  <2>4. \A i \in RequestNumbers : Settled(i)
    <3>1. Awaiting = {}
      BY <2>1 DEF Awaiting
    <3>2. \A i \in RequestNumbers : i < nextRequest
      BY <1>1, <2>3, ConnNumbers DEF ClientTypes, RequestNumbers
    <3>3. QED
      BY <3>1, <3>2 DEF Settled
  <2>5. \A i \in RequestNumbers : LoadConn(i) \in FinishedConns
    BY <1>1, <2>1, <2>4 DEF RequestsFinished
  <2>6. \A k \in Files : SeedConn(k) \in FinishedConns
    BY <1>1, <2>3 DEF SeedsFinished
  <2>7. QED
    BY <2>5, <2>6, ConnNumbers
<1>4. ASSUME runPc = "failed" PROVE FinishedConns # Conns
  <2>1. CASE failed
    BY <1>1, <2>1, ConnNumbers DEF FailedIsLost, Lost
  <2>2. CASE ~failed
    BY <1>1, <1>4, <2>2, ConnNumbers DEF FailedIsLost, Lost, ClientTypes
  <2>3. QED
    BY <2>1, <2>2
<1>5. RunOver => (runPc = "succeeded" <=> FinishedConns = Conns)
  BY <1>2, <1>3, <1>4 DEF RunOver
<1>6. QED
  BY <1>5 DEF ExitCodeTrue, ClientInv, NumbersApart

\* The exit code of build/client load is what build/server did: 0 exactly when
\* every file was stored and every request number was issued once and served.
\* A shutdown does not disturb it: it is requested when the run is over.
THEOREM ExitCodeIsTrue ==
  ASSUME FilesStable \/ Policy \in Preemptive
  PROVE  LoadSpec => []ExitCodeTrue
<1>1. LoadSpec => []Typed
  BY LoadRunsServer, AlwaysTyped, PTL
<1>2. LoadSpec => []DescriptorInv
  BY LoadRunsServer, AlwaysDescriptors, PTL
<1>3. Typed /\ DescriptorInv /\ ClientInv /\ OutcomeInv /\ [LoadNext]_allVars
      => OutcomeInv'
  BY NextOutcome
<1>4. ClientInv /\ OutcomeInv => ExitCodeTrue
  BY OutcomesAreExitCode
<1>5. QED
  BY <1>1, <1>2, <1>3, <1>4, InitOutcome, AlwaysClient, PTL DEF LoadSpec

-----------------------------------------------------------------------------
(* What the load asks of the server.                                       *)

\* Whatever threads run together, two requests in progress use the same file
\* only to read it: an upload has a name with its request number.
THEOREM FilesAreNotShared == LoadSpec => []FilesNotShared
<1>1. ClientInv => FilesNotShared
  <2>1. SUFFICES ASSUME ClientInv, NEW a \in DOMAIN doing, NEW b \in DOMAIN doing,
                        a # b, doing[a] # Nothing,
                        doing[a].file = doing[b].file,
                        doing[a].copy = doing[b].copy
                 PROVE  doing[a].op = "GET" /\ doing[b].op = "GET"
    BY DEF FilesNotShared
  <2>2. DoingInv /\ Phases /\ NumbersApart /\ number \in [Threads -> Nat]
    BY <2>1 DEF ClientInv, ClientTypes
  <2>3. \A x \in {a, b} :
          \/ x = "main" /\ \A t \in Threads : ~Born(t)
          \/ /\ x \in Threads /\ Born(x) /\ x \in Awaiting
             /\ \E k \in Files : doing[x] \in {Get(k), Put(k, number[x])}
    <3>1. PICK j \in Files, n \in {number[a]} :
            doing[a] \in {Seed(j), Get(j), Put(j, n)}
      BY <2>1, <2>2 DEF DoingInv
    <3>2. doing[a].file = j /\ j # 0
      BY <3>1, ConnNumbers DEF Seed, Get, Put, Files
    <3>3. doing[b] # Nothing
      <4>1. Nothing.file = 0
        BY DEF Nothing
      <4>2. QED
        BY <2>1, <3>2, <4>1
    <3>4. \A x \in DOMAIN doing : doing[x] # Nothing =>
            \/ x = "main" /\ runPc = "await"
            \/ /\ x \in Threads /\ threadPc[x] = "await"
               /\ \E k \in Files : doing[x] \in {Get(k), Put(k, number[x])}
      BY <2>2 DEF DoingInv
    <3>5. runPc = "await" => \A t \in Threads : ~Born(t)
      BY <2>2 DEF Phases
    <3>6. QED
      BY <2>1, <3>3, <3>4, <3>5 DEF Awaiting, Born
  <2>4. \A x \in {a, b} :
          /\ x \in Awaiting /\ number[x] \in Nat
          /\ \/ doing[x].op = "GET" /\ doing[x].copy = 0
             \/ doing[x].copy = LoadConn(number[x])
    BY <2>1, <2>2, <2>3 DEF Get, Put
  <2>5. number[a] # number[b]
    BY <2>1, <2>2, <2>4 DEF NumbersApart
  <2>6. /\ LoadConn(number[a]) # LoadConn(number[b])
        /\ LoadConn(number[a]) # 0 /\ LoadConn(number[b]) # 0
    <3>1. number[a] \in Nat /\ number[b] \in Nat
      BY <2>4
    <3>2. \A i \in Nat : LoadConn(i) # 0
      BY ConnNumbers DEF LoadConn
    <3>3. QED
      BY <2>5, <3>1, <3>2, ConnNumbers
  <2>7. QED
    BY <2>1, <2>4, <2>6
<1>2. QED
  BY <1>1, AlwaysClient, PTL

\* The load generator and the server together do what ServiceContract allows,
\* with the number of threads, the files and the requests left open.
THEOREM LoadKeepsContract ==
  ASSUME FilesStable, BodiesExact
  PROVE  LoadSpec => ImplementsContract
BY LoadRunsServer, ContractImplemented

=============================================================================
