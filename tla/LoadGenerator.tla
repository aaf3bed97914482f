--------------------------- MODULE LoadGenerator ---------------------------
(***************************************************************************)
(* build/client load against build/server: main seeds the server with one  *)
(* PUT per workload file, then starts threads that take request numbers    *)
(* from a shared atomic counter and put or get until the numbers run out,  *)
(* then joins them (src/client.cpp, 425-521).  The server is FileServer,    *)
(* whose connections are the ones the client opens.                        *)
(*                                                                         *)
(* Connection k is the seeding of file k, connection NumFiles + 1 + i the   *)
(* request with number i.                                                  *)
(***************************************************************************)
EXTENDS ServerRefinement

CONSTANTS
  Threads,         \* client_threads of them
  NumFiles,        \* files in the workload directory
  TotalRequests    \* --requests

SeedConn(k) == k
LoadConn(i) == NumFiles + 1 + i
Files == 1 .. NumFiles
RequestNumbers == 0 .. TotalRequests - 1

ASSUME LoadAssumption ==
  /\ Threads # {} /\ NumFiles \in Nat \ {0} /\ TotalRequests \in Nat \ {0}
  /\ Conns = {SeedConn(k) : k \in Files} \cup {LoadConn(i) : i \in RequestNumbers}

VARIABLES
  runPc, seeding,       \* client main, and the file it seeds
  nextRequest, failed,  \* LoadState, shared by the threads
  threadPc, number,     \* client threads, and requestNumber of each
  doing,                \* what each thread, and main, has asked for
  issued                \* connections the client has opened

loadVars == <<runPc, seeding, nextRequest, failed, threadPc, number,
              doing, issued>>
allVars == <<vars, loadVars>>

\* A request names the file it reads or writes; a PUT of the load phase writes
\* one of its own, load_put_<number>_<file>.
Nothing == [op |-> "none", file |-> 0, copy |-> 0]
Seed(k) == [op |-> "PUT", file |-> k, copy |-> 0]
Get(k) == [op |-> "GET", file |-> k, copy |-> 0]

\* Fault: the destination has no request number.
FaultyPut(k, i) == [op |-> "PUT", file |-> k, copy |-> LoadConn(0)]

Put(k, i) == [op |-> "PUT", file |-> k, copy |-> LoadConn(i)]

LoadInit ==
  /\ Init
  /\ runPc = "connect" /\ seeding = 1
  /\ nextRequest = 0 /\ failed = FALSE
  /\ threadPc = [t \in Threads |-> "unborn"]
  /\ number = [t \in Threads |-> 0]
  /\ doing = [a \in Threads \cup {"main"} |-> Nothing]
  /\ issued = {}

-----------------------------------------------------------------------------
(* putFile and getFile, seen from the load generator.                      *)

\* connectToServer and the request line.
Opens(c, a, what) ==
  /\ issued' = issued \cup {c}
  /\ doing' = [doing EXCEPT ![a] = what]

\* The server has closed the connection: all of the answer, or what there is of
\* it, has come.
Answered(c) == c \in seen /\ ~Connected(c)
Succeeded(c) == c \in FinishedConns

-----------------------------------------------------------------------------
(* Client main.                                                            *)

\* A connect that fails ends the program.
SeedConnect ==
  /\ runPc = "connect"
  /\ \/ /\ Opens(SeedConn(seeding), "main", Seed(seeding))
        /\ runPc' = "await"
     \/ runPc' = "failed" /\ UNCHANGED <<doing, issued>>
  /\ UNCHANGED <<vars, seeding, nextRequest, failed, threadPc, number>>

\* the next file, or the threads; a seeding that fails ends the program
SeedAnswered ==
  LET c == SeedConn(seeding) IN
  /\ runPc = "await" /\ Answered(c)
  /\ \/ /\ Succeeded(c) /\ seeding < NumFiles
        /\ seeding' = seeding + 1 /\ runPc' = "connect" /\ UNCHANGED threadPc
     \/ /\ Succeeded(c) /\ seeding = NumFiles
        /\ threadPc' = [t \in Threads |-> "fetch"]
        /\ runPc' = "join" /\ UNCHANGED seeding
     \/ ~Succeeded(c) /\ runPc' = "failed" /\ UNCHANGED <<seeding, threadPc>>
  /\ doing' = [doing EXCEPT !["main"] = Nothing]
  /\ UNCHANGED <<vars, nextRequest, failed, number, issued>>

ThreadsJoined == \A t \in Threads : threadPc[t] = "exited"

JoinThreads ==
  /\ runPc = "join" /\ ThreadsJoined
  /\ runPc' = IF failed THEN "failed" ELSE "succeeded"
  /\ UNCHANGED <<vars, seeding, nextRequest, failed, threadPc, number, doing,
                 issued>>

-----------------------------------------------------------------------------
(* Client threads.                                                         *)

\* Fault: the counter is read and never increased.
FaultyCounterAfterFetch == nextRequest

\* nextRequest.fetch_add(1)
CounterAfterFetch == nextRequest + 1

FetchNumber(t) ==
  /\ threadPc[t] = "fetch"
  /\ nextRequest' = CounterAfterFetch
  /\ IF nextRequest >= TotalRequests
     THEN threadPc' = [threadPc EXCEPT ![t] = "exited"] /\ UNCHANGED number
     ELSE /\ threadPc' = [threadPc EXCEPT ![t] = "connect"]
          /\ number' = [number EXCEPT ![t] = nextRequest]
  /\ UNCHANGED <<vars, runPc, seeding, failed, doing, issued>>

\* a file and an operation at random; the connect may fail
Connect(t) ==
  /\ threadPc[t] = "connect"
  /\ \/ /\ \E k \in Files :
             \/ Opens(LoadConn(number[t]), t, Get(k))
             \/ Opens(LoadConn(number[t]), t, Put(k, number[t]))
        /\ threadPc' = [threadPc EXCEPT ![t] = "await"]
        /\ UNCHANGED failed
     \/ /\ threadPc' = [threadPc EXCEPT ![t] = "fetch"]
        /\ failed' = TRUE
        /\ UNCHANGED <<doing, issued>>
  /\ UNCHANGED <<vars, runPc, seeding, nextRequest, number>>

FailedAfter(c) == failed \/ ~Succeeded(c)

RequestAnswered(t) ==
  LET c == LoadConn(number[t]) IN
  /\ threadPc[t] = "await" /\ Answered(c)
  /\ failed' = FailedAfter(c)
  /\ doing' = [doing EXCEPT ![t] = Nothing]
  /\ threadPc' = [threadPc EXCEPT ![t] = "fetch"]
  /\ UNCHANGED <<vars, runPc, seeding, nextRequest, number, issued>>

-----------------------------------------------------------------------------
(* The server, which accepts what the client has opened, and is told to    *)
(* stop when the client has ended.  Spurious wakeups are left to the runs  *)
(* of FileServer alone.                                                    *)

RunOver == runPc \in {"succeeded", "failed"}

ServerStep ==
  /\ MainStep \/ ParserStep \/ \E w \in Workers : WorkerStep(w)
  /\ UNCHANGED loadVars

ServerAccepts == (\E c \in issued : Accept(c)) /\ UNCHANGED loadVars
ServerSignalled == RunOver /\ Signal /\ UNCHANGED loadVars

RunStep == SeedConnect \/ SeedAnswered \/ JoinThreads
ThreadStep(t) == FetchNumber(t) \/ Connect(t) \/ RequestAnswered(t)

LoadNext ==
  \/ ServerStep \/ ServerAccepts \/ ServerSignalled
  \/ RunStep \/ \E t \in Threads : ThreadStep(t)

LoadSpec == LoadInit /\ [][LoadNext]_allVars

\* Every thread of both programs that can take a step is eventually run, and
\* accept returns for a connection that waits in the backlog: strong fairness, for
\* main leaves accept whenever it fails.
LoadFairSpec ==
  /\ LoadSpec
  /\ WF_allVars(MainRuns /\ UNCHANGED loadVars)
  /\ SF_allVars(ServerAccepts)
  /\ WF_allVars(ParserStep /\ UNCHANGED loadVars)
  /\ \A w \in Workers : WF_allVars(WorkerStep(w) /\ UNCHANGED loadVars)
  /\ WF_allVars(RunStep)
  /\ \A t \in Threads : WF_allVars(ThreadStep(t))

-----------------------------------------------------------------------------
Awaiting == {t \in Threads : threadPc[t] \in {"connect", "await"}}

\* The exit code of the client is the server's view of the run: it is 0 if and
\* only if every file was stored and every request number was issued once and
\* served to the end, whichever threads drew which numbers.
ExitCodeTrue ==
  /\ \A t, u \in Awaiting : t # u => number[t] # number[u]
  /\ RunOver => (runPc = "succeeded" <=> FinishedConns = Conns)

\* The load never has two requests at the server that use the same file, unless
\* both only read it: this is what FilesStable assumes.
FilesNotShared ==
  \A a, b \in DOMAIN doing :
    /\ a # b /\ doing[a] # Nothing
    /\ doing[a].file = doing[b].file /\ doing[a].copy = doing[b].copy
    => doing[a].op = "GET" /\ doing[b].op = "GET"

\* Neither program waits for ever: every request is answered and every thread
\* of the client ends, with threads of both sleeping and competing in between.
RunEnds == <>RunOver

-----------------------------------------------------------------------------
(* What the README says and the code does not do.                          *)

\* README: "seeding is uncounted in metrics".
SeedingUncounted ==
  \A i \in DOMAIN metricsCsv : metricsCsv[i].conn \notin {SeedConn(k) : k \in Files}
=============================================================================
