# Verification of the file server

`build/server` is a multi-threaded TCP file server with four scheduling
policies (`fcfs`, `sjf`, `rr`, `drr`); `build/client` puts, gets and generates
load.  This directory holds TLA+ models of the server, TLC configurations that
check them on small instances and TLAPS proofs of the properties that hold for
every instance.  Paths are those of the repository.

## 1. The system

### Components

| component | code | state | operations | what makes it correct |
|---|---|---|---|---|
| listener and shutdown | `src/server.cpp` `handleRequests`, `handleSignal` | `shutdownRequested`, the socket just accepted | accept, set timeout, enqueue, test the flag; wake parser, join, broadcast, join, write metrics | every socket is queued or closed; a shutdown ends |
| connection queue | `connectionQueue` + mutex + condition variable | FIFO of descriptors | push and signal, wait and pop | no wakeup lost |
| parser thread | `parserThreadFunc`, `framing.cpp`, `request.cpp` | the descriptor it reads, `nextRequestId` | pop, read header, answer and close, or admit | every connection is answered or admitted once |
| scheduler queue | `scheduler.cpp`, `enqueueAdmittedRequest` | deque of `AdmittedRequest` + mutex + condition variable | append and signal, wait and select by policy | order of the policy; no wakeup lost |
| workers | `workerThreadFunc` | the request in hand | take, serve a round, requeue or record | one holder per descriptor, one record per finished request |
| request handlers | `request_handler.cpp` | `bytesTransferred`, `deficit`, `extra`, `responseStarted`, `forfeitedBytes`; quantum, packet | GET and PUT for fcfs/sjf, rr, drr; HEALTH | bytes, lines, packets and allowances add up over the rounds |
| send loops | `response.cpp` | | `sendResponse`, `sendAllBytes` | all, or an error after a part, and then nothing more |
| metrics | `writeMetricsCsv` | `completedRequests` | push, write | each finished request once |
| header framing, request grammar | `framing.cpp`, `request.cpp` | the receive buffer | receive a line, split it, test it | the parser comes back from a stream that ends; the line and the bytes after it are told apart; exactly the lines of the protocol are served |
| client | `client.cpp` `getFile`, `putFile` | buffered socket, downloaded data | put, get | an exit code of 0 tells the truth; neither end waits for ever |
| load generator | `client.cpp` `runLoad`, `loadWorker` | shared atomic counter, shared failure flag | seed, load, join | each request number used once; no two writers of a file |
| command line, configuration, utilities | `cli.cpp`, `config.cpp`, `util.cpp` | the options | parse, load, convert | the programs run as asked or not at all |
| scripts and data | `tests/*.py`, `workload`, `experiment_results`, `plots` | | run, analyse, plot | |

### How they interact

    client --connect--> listener --fd--> connectionQueue --fd--> parser
                                                                   | AdmittedRequest
    workers <--select(policy)-- schedulerQueue <-------------------+
       |                             ^
       +-- bytes left: requeue ------+
       +-- all sent: completedRequests ----> metrics.csv (main, at exit)

The threads share two queues, each with a mutex and a condition variable, one
atomic flag and the descriptor table of the process.  A descriptor travels as a
bare number; whoever holds it last closes it.  A thread that finds its queue
empty tests the flag under the mutex; the handler sets the flag, and main wakes
the others at shutdown, without it.

### What is hard here

* Both `pthread_cond_signal`s come after the unlock and wake one thread.
* The flag and the shutdown wakeups are outside the mutexes.
* The parser and the workers leave on "queue empty and flag set", each on its
  own, while their producers may still be at work.
* Thirty-odd close calls; `rr`/`drr` close on `==`, the worker requeues on `<`.
* The size of a GET is taken at admission, the file reopened in every round.
* A PUT body may arrive partly with its header and be spread over rounds.
* Overrun, exact fit and forfeiture (rr), growing deficits (drr), packets.
* OK and a size go out before the file is opened; the size is what `stat` says,
  of a directory too, and opens and reads may fail in any round.
* A client may leave, stall, trickle, or send too much; SIGPIPE is not handled,
  only receiving has a timeout, and that is per `recv`.
* The client has no receive timeout, sends a whole body before it reads, and
  takes whatever follows the first answer of a get for the file.
* Threads of the client share a counter that also names the files they write.
* Recv may cut a header line anywhere and return part of the body with it.
* A thread that cannot be created ends the server under those that run.

`PROJECT.json` lists each hazard at its line with the properties aimed at it.

## 2. Modules

| module | models | extends |
|---|---|---|
| `FileServer` | the threads, queues, descriptors and the shutdown; a serving round is one of the outcomes `serveRequest` has, the intake of a connection one of the parser's | |
| `MCFileServer` | symmetry set for the TLC instances of `FileServer` | `FileServer` |
| `ServiceContract` | what the server promises, without threads and descriptor numbers | |
| `ServerRefinement` | the mapping from `FileServer` to `ServiceContract` | `FileServer` |
| `LoadGenerator` | `build/client load` and the server it loads | `ServerRefinement` |
| `RequestIntake` | one connection in the parser: framing, grammar, decision | |
| `RequestService` | the rounds of one request, inside `serveRequest` | |
| `RequestContract` | what a request is promised, without packets, reads and calls | |
| `RequestRefinement` | the mapping from `RequestService` to `RequestContract` | `RequestService` |
| `ClientSession` | `build/client get` and `put`, or another client, and the request | `RequestService` |
| `Startup` | command lines, configuration and the start of both programs | |
| `FileServerProofs` | theorems about `FileServer`: typing, wakeups, order, descriptors | `FileServer` |
| `FileServerOutcomeProofs` | theorems about `FileServer`: leaks, metrics, overtaking | `FileServerProofs` |
| `ServerRefinementProofs` | `FileServer` implements `ServiceContract` | `ServerRefinement`, `FileServerOutcomeProofs` |
| `LoadGeneratorProofs` | theorems about `LoadGenerator` | `LoadGenerator`, `ServerRefinementProofs` |
| `RequestServiceProofs` | theorems about `RequestService`; it implements `RequestContract` | `RequestRefinement` |
| `ClientSessionProofs` | theorems about `ClientSession` | `ClientSession`, `RequestServiceProofs` |
| `RequestIntakeProofs` | theorems about `RequestIntake` | `RequestIntake` |
| `StartupProofs` | theorems about `Startup` | `Startup` |

The components meet at stated outcomes.  `RequestIntake` ends in `closed`,
`queued` or `killed`: the first two are `ParserAnswers` and `ParserAdmits` of
`FileServer`, and its `extra` is the one `RequestService` starts with
(`FramingExact`).  `RequestService` ends a round with the descriptor in the state
that `HandOver` says: `ServeFails`, `ServeCompletes` and `ServeYields` of
`FileServer` have exactly those outcomes.  `Startup` ends in `serving`, where
`FileServer` begins, and `loading`, where the threads of `LoadGenerator` do.

Operators named `Faulty...` are not part of the models.  Each is a wrong variant
of a definition after it, with a likely slip of the code; `PROJECT.json` says
which property fails if the definition is replaced by it.

### `FileServer`

A thread is a program counter.  A critical section is one step, with one
exception: between the test of a wait loop's predicate and `pthread_cond_wait`
there is a program counter `toWait`, in which the mutex is held (so
`ConnectionMutexFree` and `SchedulerMutexFree` guard the other critical
sections) while the flag, and signals sent without the mutex, may still come.
The unlock and the signal of an enqueue are two steps.  `WakeOneWorker` picks
any waiting worker, `SpuriousWakeup` returns from a wait without a signal.

| TLA+ | `src/server.cpp` |
|---|---|
| `EnterAccept`, `Accept`, `AcceptFails` | 165-181; the lowest free descriptor is handed out, with none free accept fails at once; `setReceiveTimeout` may fail |
| `EnqueueConnection`, `SignalConnection`, `CheckShutdown` | 362-374, 183-187 |
| `WakeParserForShutdown`, `JoinParser`, `BroadcastWorkers`, `JoinWorkers`, `WriteMetrics` | 191-197, 137-138, 385-415 |
| `ParserTakes`, `ParserFindsNone`, `ParserWaits` | 207-223 |
| `ParserAnswers` | every exit at 230-277 that closes, HEALTH included |
| `ParserAdmits`, `ParserSignals` | 279-287, 376-382 |
| `WorkerTakes`, `Selected` | 297-314, `scheduler.cpp` 9-30 |
| `ServeFails`, `ServeCompletes`, `ServeYields` | 322-328: false; true with all bytes moved; true with bytes left |
| `WorkerRequeues`, `WorkerSignals`, `WorkerRecords` | 323-333, 376-382 |
| `Signal` | 417-421, and EINTR in accept if main is the interrupted thread |

`owner` is the kernel's descriptor table: the connection behind each number.
A late `close` of a reused number closes the new connection, as it would, and
nothing can be sent on a number that is not open.  `started`, `passedBy` and
`fate` are history variables for the properties.  `FilesStable` and
`BodiesExact` say what the environment may do; without them rr and drr leave the
descriptor of a request that moved too much open, and fcfs and sjf requeue one
whose descriptor they have closed.  `FilesStable` includes that files can be read
to the size `stat` gave.

### `ServiceContract` and `ServerRefinement`

In the contract a connection is a thing of its own and has no number.  It is
accepted, answered or admitted; admitted requests wait in one queue, are picked
by the policy (`MayPick`) into one of `Slots`, preempted only under rr and drr,
and ended, which closes their own connection and no other.  The report comes
once, when no slot is busy, and has exactly what was finished.  The mapping
forgets descriptors, request numbers, rounds, both mutexes and every program
counter: a worker's slot is busy while it serves or requeues.  A close of a
reused number, a request in two hands, a pick out of order, a report before the
last worker has left would each be a step the contract does not have.

### `RequestIntake`

A stream is a sequence of words, newlines and body items, all lines of up to
four words over a vocabulary that has each verb in some spelling, valid and
invalid names, a name that is also a verb, digits, and a count beyond 64 bits.
Blanks before an item have no length of their own: `PeerTrickles` sends some, as
often as the client likes, so a line may be of any length and never end.
`Receive` (`framing.cpp` 11-30) takes any 1 to `BufSize` items, or just blanks;
`Tests` (`request.cpp` 21-91) has the tests of `parseRequest` in their order
with the answer each gives; `Parse`, `Reject`, `AnswerHealth` and `Admit` are
`server.cpp` 222-288 with the helpers they call.

### `RequestService`

One request from admission to its end.  A byte is its number; a file to read is
what `getline` can take of it, a length and the offsets after its newlines; a
packet, a body and a stored file are sequences of byte numbers, so a byte lost,
repeated or out of order shows.  `pc` is the next system call or loop test of the
round.  `job` holds what does not change: the request, the options, the size
announced (`total`, for a GET what `stat` said) and what its client and its disk
are capable of.  With `diskReliable` FALSE less than `total` may be readable (a
directory, a read error), and any open or tested write may fail; with
`peerReliable` FALSE the client may stop at any moment, receive timeouts come at
any moment, and a signal may interrupt a call.  The six handlers share
their actions: where they differ the action says so (`Fits`, `StartOffset`,
`Opened`, `Credit`, `SocketAfterGet`), because the source repeats the same code.

| TLA+ | fcfs/sjf | rr | drr |
|---|---|---|---|
| `SendStatus` | 69-73, 212-216 | 121-129, 268-275 | 354-362, 432-439 |
| `OpenGet`, `Granted` | 75-86 | 131-146 | 364-378 |
| `LineTaken` | 89-96 | 149-161, 175-179 | 381-401 |
| `LineOverruns`, `LineForfeits` | | 163-173 | |
| `LoopEnds`, `ReadFails` | 89 | 148-155 | 380-396 |
| `SendBatch`, `PacketCut`, `FinishGet` | 98-117 | 181-208 | 403-428 |
| `OpenPut`, `TakeExtra` | 218-237 | 277-305 | 441-470 |
| `Receive`, `ReceiveFails` | 241-254 | 308-337 | 473-497 |
| `PutRoundEnds`, `SendFinalOk` | 256-264 | 339-350 | 499-510 |

(lines of `src/request_handler.cpp`.)  `SendErrs` has the ways `send`
(`response.cpp` 8, 39) can fail: the descriptor is closed, the client is gone, with
or without SIGPIPE, or a signal interrupts it.  `PacketCut` is a packet of which a
part went out before that.  A send to a client that has stopped reading does not
return (`CanSend`).  `PeerStops` and `FileChanges` are the environment: a client
that resets the connection or stops reading, and a PUT of the same name by another
request.

### `RequestContract` and `RequestRefinement`

In the contract a request is served in turns.  A turn moves data, always the
next bytes, from one place where it may be cut to another (the ends of lines of
a GET, every byte of a PUT), as far as `left` allows: a quantum under rr, the
deficit under drr, everything under fcfs and sjf.  A turn of rr or drr gives up
only if the next piece does not fit; rr moves at least one line, if need be a
longer one by itself (`Overrun`).  The answer comes before any data, the second
one of a PUT after all of it, and with it the end of the connection.  A request is
refused, with an ERR, only if the disk or the client of a PUT gives a reason
(`Refuse`); it is lost, without one and perhaps with a part of the next piece,
only on a client that is not reliable (`Lose`).  `peerReliable` and
`diskReliable` are terms of the contract, so one run has requests that must
complete beside those that may fail.  The mapping
forgets packets, buffers, file positions, the early bytes and the order of the
calls.  `left` is what the contract may still move; the code has already taken
it from the quantum or the deficit when it counts a line, so the mapping adds
what is in the packet.  A line lost or sent twice, a packet that survives its
round, an overrun in the middle of a round, a truncation in a later round would
each be a step the contract does not have.

`Undisturbed` excludes what breaks the contract in the code: a file that changes
under its reader, a body longer than announced and, under fcfs and sjf, a GET of
which less can be read than announced (it is requeued with its connection
closed; rr and drr refuse it).  `KeepsContract` says that every step up to the
change, if any, is one the contract has.

### `ClientSession`

`RequestService` and, at the other end of a TCP connection with a window of
`Window` bytes each way, the client.

| TLA+ | `src/client.cpp` |
|---|---|
| `ReadStatus` | 377-394, 290-300: the first answer |
| `ReadBody`, `SaveBody` | 172-198, 397-423 |
| `SendBody`, `BodySent` | 302-317 |
| `ReadFinal` | 319-341 |
| `ClientReadFails` | 149-170: end of the stream, or a reset |

`Wire` is what the server has sent, in order; the client takes any part of it at
a time.  A status line is one item, but for the ERR line that follows the OK of a
get: the client takes its bytes (`ErrorText`) for bytes of the file.  A server that closes with bytes unread resets the connection: what was
on its way may be lost, and a send of the client fails or raises SIGPIPE.  With
`program = "other"` the other end is any program that sends its body at once,
perhaps a byte too many or too few, some of it along with the request line.

### `LoadGenerator`

| TLA+ | `src/client.cpp` |
|---|---|
| `SeedConnect`, `SeedAnswered` | 450-461 |
| `FetchNumber`, `CounterAfterFetch` | 475-480: `fetch_add` and the test |
| `Connect`, `RequestAnswered` | 482-497 |
| `JoinThreads` | 500-521 |

The client's connections are the server's: `ServerAccepts` takes one that has
been opened, a request succeeds if the server has it in `FinishedConns` (that a
client and the server agree on this, and when not, is `EndsAgree` of
`ClientSession`), and the signal that stops the server comes when the load is over
(`ServerSignalled`), as `tests/run_experiments.py` 238-241 sends it.

### `Startup`

`ReadCommand`, `ReadOption` and `CheckOptions` are `cli.cpp` 148-224 and 22-146,
one option a step; `LoadConfig` is `config.cpp`; `CreateSocket` to
`ReportWithoutServing` are `server.cpp` 66-163; `RunCommand` is `client.cpp`
62-115.  Every call may fail.

## 3. Runs

| run | properties | instance |
|---|---|---|
| `ServerRoundRobin` | `TypeOK`, `NoDescriptorLeak`, `DescriptorHeldOnce`, `NoOvertaking`, `NoLostWakeup` | rr, 2 workers, 3 clients, 2 descriptors, up to 2 rounds, 1 spurious wakeup, files change, bodies too long |
| `ServerShortestFirst` | `OnlyShorterPass` | sjf, 1 worker, 4 clients, sizes 1 and 2 |
| `ServerStops` | `StartsInArrivalOrder`, `MetricsExact`, `EveryConnectionAnswered`, `AwakeWorkersExit`, `ShutdownCompletes` | fcfs, 2 workers, 2 clients, 2 descriptors, up to 2 rounds, 1 signal, files that cannot be read to their end (so accept fails, and closed descriptors are requeued and reused), fair |
| `ServerLoad` | `ExitCodeTrue`, `FilesNotShared`, `RunEnds`, `ImplementsContract` | rr, 1 worker, 2 client threads, 1 file, 2 requests, then a signal, fair |
| `Session` | `BodyIsWholeLines`, `PacketsWithinLimit`, `RoundRobinAccounts`, `DeficitAccounts`, `UploadStored`, `CompletedIsAnswered`, `ExitZeroIsTrue`, `EndsAgree`, `NobodyKilled`, `RequestCompletes`, `BothEnd` | all files to 5 bytes (3 with `build/client`), all policies, quanta and packets 1-2, an ERR line of 2, a byte too many or too few, failing opens, reads and writes, one change of the file, fair |
| `ServiceFaulty` | `TypeOK`, `HandOver`, `ServiceEnds`, `KeepsContract` | 4 bytes, quanta and packets 1-2, a byte too many or too few; clients that leave or stall, interrupted sends, failing opens, reads and writes, one change of the file, fair |
| `Intake` | `FramingExact`, `DecisionRight`, `ProcessSurvives`, `IntakeEnds` | all lines to 4 words, an item after the line, blanks without end, pieces of up to 2 items, fair |
| `Startup` | `RunsAsAsked`, `FailsClean` | all command lines to 6 words, -1 to 2 threads |

What they show, by question:

* *Is a connection ever lost, closed twice or mixed up?*  `DescriptorHeldOnce`,
  `NoDescriptorLeak` and, against the contract, `ImplementsContract`.
* *Does a queued thing ever wait beside sleeping threads?*  `NoLostWakeup`,
  `EveryConnectionAnswered`.
* *Is the order of service that of the policy?*  `StartsInArrivalOrder`,
  `NoOvertaking`, `OnlyShorterPass`.
* *What is left of the shutdown's promises?*  `AwakeWorkersExit`,
  `ShutdownCompletes`, `MetricsExact`.
* *Are bytes, lines, packets and allowances right over many rounds?*  The
  properties of `Session` from `BodyIsWholeLines` to `CompletedIsAnswered` and,
  against the contract, `KeepsContract`.
* *Do the two ends agree and end?*  `ExitZeroIsTrue`, `EndsAgree`,
  `NobodyKilled`, `BothEnd`, and for a whole load `ExitCodeTrue`,
  `FilesNotShared`, `RunEnds`.
* *Does a bad client, disk or neighbour do more than fail its request?*
  `HandOver`, `ServiceEnds`, `ProcessSurvives`, `IntakeEnds`.
* *Is what the parser admits what the client wrote?*  `FramingExact`,
  `DecisionRight`.
* *Do the programs run with options that mean something?*  `RunsAsAsked`,
  `FailsClean`.

Four runs are expected to find a violation of what the repository says:

| run | property | refutes | what happens |
|---|---|---|---|
| `ServerDrainsRequests` | `RequestsDrained` | `README.md:139` "the server drains active requests" | the parser admits a request after the workers have left |
| `ServerWakesParser` | `ParserIsWoken` | `server.cpp:190` "Wake up parser thread" | the signal comes between test and wait; main joins for ever |
| `ServerCountsSeeds` | `SeedingUncounted` | `README.md:101` "seeding is uncounted in metrics" | a seeding PUT has its row in `metrics.csv` |
| `IntakeHeld` | `ParserComesBack` | `README.md:111` on the receive timeout | a client that sends a blank before each `recv` times out keeps the only parser for ever |

Two more statements are kept in `FileServer` beside them, without a run:
`ConnectionsDrained` (`server.cpp:190`, "wait for it to drain the
connectionQueue": the listener may queue a connection after the parser has left)
and `SignalStartsShutdown` (`server.cpp:39`: a signal before accept blocks is
noticed only with the next client).

### Bounds

Two workers are the least that compete for a queue and for a wakeup; with three
clients one is served, one is queued and one arrives.  Two descriptors for three
clients make accept fail and numbers be reused.  sjf needs three waiting
requests of which two are equal, hence four clients; its one worker leaves the
others in the queue.  Two rounds suffice for a requeue; a third repeats it.
Signals are atomic and the flag is never cleared: a second one changes nothing.

`ServerStops` has two clients and two descriptors, so both workers serve, accept
runs out, and a closed number is in use again while the request that had it is
requeued.  Three clients, in `ServerRoundRobin`, are too many for liveness.

Files of five bytes hold lines below, at and above quanta of one and two, runs
of overrun and forfeiture, and up to five rounds (a request that reached
`MaxRounds` would violate `RequestCompletes`, `BothEnd` or `ServiceEnds`); the
buffer of two bytes makes `recv` return less than what is left of a body.
With `build/client` three bytes and a window of two are enough for a send that
has to wait and a body that arrives in parts; longer ones are the other
program's.  An ERR line of two bytes is shorter than, as long as, and longer than
what is left of a file; the real ones have 24 bytes ("ERR Unable to open file")
and more.  The size limits of `LoadGenerator` give two threads one request each
or one thread both.  A line of four words is one more than any request has.
Six words are a whole command line under rr, or one under fcfs with one more
option or one given twice.

Four bytes with quanta to two are enough for the contract: a line that fits, one
that overruns, and a rest that waits for a turn of its own.

The theorems of section 4 have none of these bounds; they cover every
invariant of the passing runs and both refinements.

No run looks for deadlock: the clients of an instance run out and the threads
then sleep; a finished request or an exited program stops.

### Fairness

`FairSpec` of `FileServer` has weak fairness of main, the parser and every
worker: a runnable POSIX thread is run.  A wait has no fairness of its own, so
a lost wakeup shows.  `Accept`, signals and spurious wakeups are the
environment's and need not happen; accept's failure for want of descriptors is
main's, and other errors of accept are nobody's.

For a worker and the parser this fairness assumes more than a scheduler: that the
call they are in returns.  `recv` does, after 5 seconds at the latest
(`HEADER_TIMEOUT_SECONDS`, set before the connection is queued and kept for the
body); `send` does only if the client reads or goes.  The two modules that look
inside say what that leaves.  `ServiceEnds` of `RequestService`: a request is
served to its end, `<>(Over \/ Stuck)`, or is `Stuck` in a send to a client that
has stopped reading; its fairness, of `Serve`, is that enabled calls return, and
such a send is not enabled.  `IntakeEnds` of `RequestIntake`: a connection is dealt
with, `<>Ended \/ []<>trickle`, or its client sends blanks for ever.  So the
liveness properties of `FileServer` hold for clients that read and that end their
line; those of `LoadGenerator` are about `build/client`, which does both.

`LoadFairSpec` adds weak fairness of each client thread, and strong fairness of
accept, which main enters again and again, for a connection that is in the
backlog: the kernel keeps it.  `SessionFairSpec`
has weak fairness of the client's and the server's steps.  In both, the calls of
the client have no timeout, so its steps are fair only when there is something
to return: `BothEnd` rests on the server's timeout alone.  There a send of the
server waits for room in the window, and `BothEnd` shows that `build/client` makes
room.

### What the runs say about the code

The statements of the sources about the shutdown fail in rare interleavings;
what holds is that workers that are awake do exit, the shutdown ends if no
thread is caught between test and wait, and the metrics are exact whenever they
are written.

A GET is answered OK before its file is opened.  If the open then fails, for want
of a descriptor, of permission or of the file, or a read does under rr and drr,
an ERR line follows the OK.  `build/client` takes it for bytes of the file: if
there are at least as many as it still expects, it saves them and exits with 0,
while the server fails the request and does not record it.  This is the exception
in `ExitZeroIsTrue` (`ErrorSaved`) and `EndsAgree` (`Misled`); the properties say
that there is no other, and that it takes a failing disk.  The client of an empty
file has left by then, and the ERR line may kill the server (`NobodyKilled`).

The size of a GET is what `stat` says, and `stat` does not fail for a directory.
Under fcfs and sjf a GET that reads less than announced (of a directory, of a
file that became shorter or that the disk fails) returns true with its descriptor
closed and bytes missing, and is requeued; in `ServerStops` such requests write
to whatever connection has got the number since (`DescriptorHeldOnce` fails for
them, and is checked and proved for rr and drr, which never requeue a closed
descriptor, and for stable files).  A body longer than announced leaves its
descriptor open under rr and drr.

A client that sends a blank every few seconds holds the only parser thread, and a
client of a GET that stops reading holds a worker, each for as long as it likes.
The process dies of two kinds of connection: one that leaves while it is answered
(SIGPIPE), and a PUT whose byte count `std::stoull` cannot hold.  A start in
which a thread cannot be created exits with 0 and a metrics file, and a
configuration of 0 client threads reports success without a request.

## 4. Proofs

All proofs are checked by TLAPS.  Their assumptions are `ServerAssumption`
(workers are a finite nonempty set, `NoConn` is no connection, bounds are
naturals, a known policy) and `ServiceAssumption` (bounds are naturals, quantum,
packet and buffer positive), `LoadAssumption`, `SessionAssumption`,
`IntakeAssumption` and `StartupAssumption` of their modules (bounds are naturals,
window and buffer positive), and for some theorems the ones named below.

### The threads

| theorem | property | if | inductive invariant |
|---|---|---|---|
| `TypeCorrect` | `TypeOK` | | `Typed` |
| `WakeupsNotLost` | `NoLostWakeup` | | `WakeInv` |
| `StartsOrdered` | `StartsInArrivalOrder` | not sjf | `OrderInv` |
| `DescriptorsHeldOnce` | `DescriptorHeldOnce` | files stable, or rr or drr | `DescriptorInv` |
| `NoLeak` | `NoDescriptorLeak` | | `LeakInv` |
| `MetricsAreExact` | `MetricsExact` | | `MetricsInv` |
| `NobodyOvertakes` | `NoOvertaking` | not sjf | `OvertakingInv` |
| `ShorterPassOnly` | `OnlyShorterPass` | sjf, files stable | `ShorterInv` |
| `ContractImplemented` | `ImplementsContract` | files stable, bodies exact | `RefinementInv`, `DescriptorInv` |

* `Typed`.  `TypeOK` alone is not inductive: a worker that requeues appends what
  it has in hand, so it must not be the placeholder.  `HandsFull` says what each
  thread carries between taking and handing over.
* `WakeInv`: a thread about to wait holds the mutex, so its queue is still empty
  (`NoStaleTest`); while some worker waits, every queued request has an alert
  worker, or the parser's pending signal, to itself (`WorkersWoken`); the parser
  waits only if the connection queue is empty or main is about to signal
  (`ParserWoken`).  Each worker step changes the length of the queue and the
  number of alert workers together; the counting facts are lemmas.
* `OrderInv`: the queue is not sorted, because preempted requests come back
  behind newer ones; but the requests nobody has picked up yet are sorted and
  follow all that have started, and what a worker may put back has started.
* `DescriptorInv`: main and the parser forget a number they pass on
  (`HandsEmpty`), any two of the listener, the queues, the parser and the
  workers hold different numbers (`HoldersApart`), and what is held is open and
  is the connection of its request (`HeldIsOpen`).  The three need each other:
  accept hands out a number that is not open, hence not held; a close by one
  holder takes nobody else's.
* `LeakInv`: an open number is held or was left open by a finished request of rr
  or drr.
* `MetricsInv`: a request that is not over is in one place (`IdsApart`), its
  place says what became of it (`PlaceIsFate`), what is finished is recorded or
  about to be (`FinishedIsKept`), and the file is written when every worker has
  left (`WrittenLast`).
* `OvertakingInv` and `ShorterInv` add to it what the numbers in the queue say
  about `passedBy`; under sjf nothing comes back, so ties follow numbers.
* `ContractImplemented` maps the initial states and every step.  `Stutters` and
  one lemma per kind of step show what the mapped variables do; `RefinementInv`
  says that a connection has one descriptor and was accepted, which is what
  makes a close in `FileServer` the close of one connection in the contract.

### One request

| theorem | property | inductive invariant |
|---|---|---|
| `ServiceTypeCorrect` | `TypeOK` | itself |
| `RoundsHandOver` | `HandOver` | `HandOverInv` |
| `RoundRobinIsExact` | `RoundRobinAccounts` | `RoundRobinInv` |
| `DeficitIsExact` | `DeficitAccounts` | `DeficitInv` |
| `LinesArriveWhole` | `BodyIsWholeLines` | `BodyInv` |
| `PacketsAreLimited` | `PacketsWithinLimit` | `PacketInv` |
| `UploadsAreStored` | `UploadStored` | `UploadInv`, `RepliesInv` |
| `CompletedWhenAnswered` | `CompletedIsAnswered` | `BodyInv`, `RepliesInv` |
| `RequestContractKept` | `KeepsContract` | `RefInv`, while undisturbed |
| `UndisturbedIsContract` | `Contract!Spec`, if always undisturbed | `RefInv` |

They hold for files and bodies of every size and every layout of lines, every
quantum, packet limit and buffer, any number of rounds, and for every fault the
module has: clients that leave, stall, pause, send too little or too much, signals,
files that do not open or are not as long as `stat` said, reads and tested writes
that fail, neighbours that change the file.  What they say of a fault is in the
property: those about contents are about files nobody changes (`changes = 0`),
`HandOver` names the two ways a descriptor is in the wrong state, `KeepsContract`
is about undisturbed requests, whose contract has reasons to fail.

* `ServiceTypeCorrect` is where the unsigned subtractions are: `transferred`,
  the deficit and the rest of the quantum stay natural because a line is taken
  only if it fits and `recv` is asked for no more than the credit.
* `HandOverInv`: in the middle of a round the socket is open (`Sockets`), which
  handler runs (`Sides`), and how far a GET and a PUT are (`GetProgress`,
  `PutProgress`): the file position is what was counted, never past what can be
  read, of which fcfs and sjf read all in their one round; and what was counted
  and not yet used of the early bytes is what was received.
* `RoundRobinInv` and `DeficitInv` are the accounts at every step of a round:
  what is left of the quantum, or the deficit, makes up the difference to one
  quantum a round.
* `BodyInv`: the packet is the run of bytes from the end of what was sent to the
  file position, both ends of lines; `PacketInv` counts its lines with
  `OneMoreLine`, which says that the next line adds one line end.  `NumbersJoin`
  and `NumbersCut` are about runs of bytes that touch or are cut.
* `UploadInv`: the file has what was counted, early bytes come next, and nothing
  is received before they are used up.  `RepliesInv`: the answers so far tell
  how far the request is.
* `RequestContractKept`: no step makes a disturbed request undisturbed
  (`StaysDisturbed`), so `RefInv` holds until the disturbance.  It adds `TurnInv` to the invariants above: where a GET is in its turn
  (`GetTurn`), above all that a packet sent before any line was counted against
  the quantum is the one line of an overrun, and that a round of rr ends with too
  little left for the next line.  The lemma about `Mapped` says what the mapped
  data and `left` are at each step of a round; then there is one lemma for each
  action (`BeginRefines` to `FinalOkRefines`), which shows the turn of the
  contract it is, or that nothing mapped changes.

### A request with its client

| theorem | property | if | inductive invariant |
|---|---|---|---|
| `SessionKeepsPromises` | `HandOver`, the accounts, `UploadStored` ... in a session | | `ServiceInv` |
| `ExitCodesAreTrue` | `ExitZeroIsTrue` | | `ServiceInv`, `SessionInv` |
| `BothEndsAgree` | `EndsAgree` | | `ServiceInv`, `SessionInv` |
| `ServerSurvivesClient` | the half of `NobodyKilled` about the server | | `ServiceInv`, `SessionInv` |
| `NobodyDiesSending` | `NobodyKilled` | peer reliable | `ServiceInv`, `SessionInv` |

`ServiceInv` is what section "One request" proves, in one conjunction.  No action
of the client touches what it mentions but `peer` (`ClientLeaves`), so it is
carried over to the composition as it is.  `SessionInv` follows a get and a put
from both ends.  `GetServed`: the server of a get fails with something left to
send, or without an answer, or tells its client because the disk failed.
`GetTalk`: what the client has downloaded is what was on the wire behind the first
answer, as far as it has read (`ReadSoFar`), and when it leaves with success that
is the whole file or some lines of it and the text of an ERR line (`Saved`).  It
leaves when the server has nothing more to send it, or only the ERR line of an
empty file.  `PutTalk`:
the client waits for an answer the server still owes, what the server counted it
has consumed, and a client that returned with a failure left a server that had
failed before.  They need `BodyInv`, `UploadInv` and `RepliesInv`: what is on the
wire is determined by how far the round is.  `NobodyDiesSending` needs a reliable
peer because a server that gives up on a timeout closes under a client that sends.

### A load

| theorem | property | if | inductive invariant |
|---|---|---|---|
| `LoadRunsServer` | `LoadSpec => Spec` of `FileServer` | | `ClientInv` |
| `ExitCodeIsTrue` | `ExitCodeTrue` | files stable, or rr or drr | `ClientInv`, `OutcomeInv`, `DescriptorInv` |
| `FilesAreNotShared` | `FilesNotShared` | | `ClientInv` |
| `LoadKeepsContract` | `ImplementsContract` | files stable, bodies exact | |

`LoadRunsServer` makes every theorem about the threads one about the server under
the load.  `ClientInv` says that the numbers in the hands of the client's
threads are different and below the counter, that a connection is opened by its
number only (`NotYetIssued`), and what each thread is doing (`DoingInv`): an
upload has its number in its file name, so two threads that use one file read
it.  `OutcomeInv` relates the two programs: the server finishes only what it
accepted and accepts only what was opened; a number that was drawn and is in
nobody's hands is finished or the failure flag is set (`RequestsFinished`,
`SeedsFinished`), and the flag is set only for a connection that will never be
finished (`FailedIsLost`).  The last one is why the exit code is exact: a
connection that is closed cannot be finished later, because whoever finishes it
holds its open descriptor (`DescriptorInv`).

### The parser and a connection

| theorem | property | inductive invariant |
|---|---|---|
| `FramingIsExact` | `FramingExact` | `IntakeInv` |
| `DecisionIsRight` | `DecisionRight` | `IntakeInv` |
| `ProcessOutlivesConnections` | `ProcessSurvives` | `IntakeInv` |

For lines of every length and pieces of every size, over the model's vocabulary,
however long the client takes.
`Framed`: while the parser receives, what it has is a prefix of the stream
without a newline; afterwards it is a line and the rest.  `Decided`: what the
parser is about to do agrees with what `ParseRequest` says of the line.  The
lemma `Grammar` then shows that the tests of `parseRequest`, in their order, with
`stoull` between them, accept exactly the three forms of line.

### The start

| theorem | property | inductive invariant |
|---|---|---|
| `StartsAsAsked` | `RunsAsAsked` | `StartInv` |
| `FailedStartsAreClean` | `FailsClean` | `StartInv` |

For command lines of every length and any number of threads.  `OptionsRead` says
that words come in pairs, so a flag is where a flag is expected, and that what
was noted of each is the value of its last place; `OptionAdded` is the turn of
the loop.  `Stages` says what a program holds behind each call: this is what a
failure at that call has to give back.

### Model-checked only

Liveness (`EveryConnectionAnswered`, `AwakeWorkersExit`, `ShutdownCompletes`,
`RunEnds`, `RequestCompletes`, `ServiceEnds`, `BothEnd`, `IntakeEnds`) is out of
the prover's reach; the runs check it on the instances above.  Every invariant of
a passing run has a theorem.

## 5. Not modelled

* The load balancer (only its configuration exists), the experiment and analysis
  scripts, workloads, results and plots.
* The death of the process by SIGPIPE in `FileServer` (`RequestService` and
  `RequestIntake` have the outcome): what other threads lose with it.
* In `FileServer`, clients that stop reading or trickle for ever: a worker or the
  parser that never comes back (`RequestService` and `RequestIntake` have them).
* In `RequestService`, the reuse of a number it has closed: a send on it fails
  there (`FileServer` has the reuse).
* In `ClientSession`, signals and clients that stop reading (they are in
  `ServiceFaulty`), and a status line of which only a part can be sent.
* FIFOs and devices under the name of a file, whose open or read may block.
* Spurious wakeups in the runs other than `ServerRoundRobin`.
* Time: the clock values in `metrics.csv`.
* Writes and closes that fail and that the code does not test: a PUT that loses
  its end so counts as a change of the file (`FileChanges`), and the properties
  about stored contents are about files that do not change.
* Two writers of one file, beyond truncation (`FilesNotShared` says that the
  load generator has none).
* Widths of integers, but for the byte count of a header: a line of 2 GiB would
  overflow `int`.
* Starvation under sjf by an endless supply of clients: clients are finite.
* The content of JSON: `loadConfig` succeeds with some number of threads or
  throws.  The depth in a HEALTH answer, and the text of answers.

## 6. What is left

The death of the process in `FileServer`, and what of the metrics survives; a
worker or the parser held for ever by its client, and who then still is served.
