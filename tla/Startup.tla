------------------------------- MODULE Startup -------------------------------
(***************************************************************************)
(* How build/server and build/client start: the command line (src/cli.cpp), *)
(* the configuration file (src/config.cpp), and what their main functions   *)
(* do before the threads of FileServer and LoadGenerator run.              *)
(*                                                                         *)
(* Arguments are read one by one; each is a member of a small set of words *)
(* that has flags, policies, a positive number and something else.         *)
(***************************************************************************)
EXTENDS Integers, FiniteSetsExt, SequencesExt

CONSTANTS
  MaxArguments,    \* bound: argc
  MaxThreads       \* bound: server_threads and client_threads of a file

ASSUME StartupAssumption == {MaxArguments, MaxThreads} \subseteq Nat

VARIABLES
  program,      \* "server" or "client"
  argv,         \* the arguments read so far
  given,        \* ServerOptions or ClientOptions: the last value of each flag
  config,       \* threads the configuration asks for
  pc, exitCode,
  listener,     \* the server's socket: "none", "open", "closed"
  threads,      \* threads created: the server's parser and workers
  metricsFile   \* metrics.csv has been written

vars == <<program, argv, given, config, pc, exitCode, listener, threads, metricsFile>>

Policies == {"fcfs", "rr"}          \* sjf is like fcfs here, drr like rr
Commands == {"get", "load"}         \* put is like get
ServerFlags == {"--sched", "--quantum", "--file", "--p", "--config"}
ClientFlags == {"--config", "--requests"}
Flags == IF program = "server" THEN ServerFlags ELSE ClientFlags
Numeric == {"--quantum", "--p", "--requests"}
PositiveInts == {"4"}               \* what parsePositiveInt accepts
Words == ServerFlags \cup ClientFlags \cup Policies \cup Commands \cup PositiveInts
           \cup {"0"}
Absent == "not given"

Running == -1
Terminated == 134    \* by an exception nobody catches

Init ==
  /\ program \in {"server", "client"}
  /\ argv = <<>>
  /\ given = [f \in ServerFlags \cup ClientFlags |-> Absent]
  /\ config = 0
  /\ pc = IF program = "server" THEN "options" ELSE "command"
  /\ exitCode = Running /\ listener = "none" /\ threads = 0 /\ metricsFile = FALSE

Exits(code) == pc' = "exited" /\ exitCode' = code
Goes(to) == pc' = to /\ UNCHANGED exitCode

-----------------------------------------------------------------------------
(* src/cli.cpp.                                                            *)

\* The client's command and path; a path must not begin with a dash.
ReadCommand ==
  /\ pc = "command"
  /\ \/ argv' = <<>> /\ Exits(1)
     \/ \E command \in Words : argv' = <<command>> /\ Exits(1)
     \/ \E command, path \in Words :
          /\ argv' = <<command, path>>
          /\ IF command \in Commands /\ path \notin ServerFlags \cup ClientFlags
             THEN Goes("options") ELSE Exits(1)
  /\ UNCHANGED <<program, given, config, listener, threads, metricsFile>>

\* Fault: the first value of a flag is kept.
FaultyWithValue(flag, value) ==
  IF given[flag] = Absent THEN [given EXCEPT ![flag] = value] ELSE given

WithValue(flag, value) == [given EXCEPT ![flag] = value]

\* One turn of the loop: an unknown flag, a missing or bad value, or an option.
ReadOption ==
  /\ pc = "options" /\ Len(argv) < MaxArguments
  /\ \/ \E word \in Words :
          /\ argv' = Append(argv, word)
          /\ Exits(1) /\ UNCHANGED given
     \/ \E flag \in Flags, value \in Words :
          /\ Len(argv) + 2 <= MaxArguments
          /\ argv' = argv \o <<flag, value>>
          /\ IF flag \in Numeric /\ value \notin PositiveInts
             THEN Exits(1) /\ UNCHANGED given
             ELSE given' = WithValue(flag, value) /\ Goes("options")
  /\ UNCHANGED <<program, config, listener, threads, metricsFile>>

Provided(flag) == given[flag] # Absent

ServerOptionsValid ==
  /\ given["--sched"] \in Policies /\ Provided("--file")
  /\ given["--sched"] = "rr" <=> Provided("--quantum")

ClientOptionsValid == argv[1] = "load" <=> Provided("--requests")

\* The end of argv.
CheckOptions ==
  /\ pc = "options"
  /\ IF IF program = "server" THEN ServerOptionsValid ELSE ClientOptionsValid
     THEN Goes("config") ELSE Exits(1)
  /\ UNCHANGED <<program, argv, given, config, listener, threads, metricsFile>>

-----------------------------------------------------------------------------
(* src/config.cpp.                                                         *)

\* The file cannot be opened or lacks something: the client catches the
\* exception.  The number of threads is taken as it is.
LoadConfig ==
  /\ pc = "config"
  /\ \/ /\ Exits(IF program = "server" THEN Terminated ELSE 1)
        /\ UNCHANGED config
     \/ /\ config' \in -1 .. MaxThreads
        /\ Goes(IF program = "server" THEN "socket" ELSE "run")
  /\ UNCHANGED <<program, argv, given, listener, threads, metricsFile>>

-----------------------------------------------------------------------------
(* The server's main and handleRequests.                                   *)

CreateSocket ==
  /\ pc = "socket"
  /\ \/ listener' = "open" /\ Goes("listen")
     \/ UNCHANGED listener /\ Exits(1)
  /\ UNCHANGED <<program, argv, given, config, threads, metricsFile>>

\* Fault: a failure leaves the socket to the exit.
FaultyListen ==
  /\ pc = "listen"
  /\ Goes("threads") \/ Exits(1)
  /\ UNCHANGED <<program, argv, given, config, listener, threads, metricsFile>>

\* setsockopt, inet_pton, bind and listen
Listen ==
  /\ pc = "listen"
  /\ \/ UNCHANGED listener /\ Goes("threads")
     \/ listener' = "closed" /\ Exits(1)
  /\ UNCHANGED <<program, argv, given, config, threads, metricsFile>>

\* the parser, then the workers unless their number is negative
ThreadsWanted == 1 + Max({0, config})

CreateThread ==
  /\ pc = "threads" /\ threads < ThreadsWanted
  /\ \/ threads' = threads + 1 /\ Goes("threads")
     \/ UNCHANGED threads /\ Goes("report")
  /\ UNCHANGED <<program, argv, given, config, listener, metricsFile>>

\* std::length_error where the vector of workers is made
NegativeWorkers ==
  /\ pc = "threads" /\ threads = 1 /\ config < 0
  /\ Exits(Terminated)
  /\ UNCHANGED <<program, argv, given, config, listener, threads, metricsFile>>

\* The accept loop, FileServer from here on.
StartServing ==
  /\ pc = "threads" /\ threads = ThreadsWanted /\ config >= 0
  /\ Goes("serving")
  /\ UNCHANGED <<program, argv, given, config, listener, threads, metricsFile>>

\* A thread could not be created: handleRequests returns and main goes on as
\* after a shutdown.
ReportWithoutServing ==
  /\ pc = "report"
  /\ metricsFile' \in BOOLEAN
  /\ listener' = "closed" /\ Exits(0)
  /\ UNCHANGED <<program, argv, given, config, threads>>

-----------------------------------------------------------------------------
(* The client's main.                                                      *)

\* get and put; for load a directory without files and a failed seeding end it.
RunCommand ==
  /\ pc = "run"
  /\ \/ Exits(1)
     \/ argv[1] = "get" /\ Exits(0)
     \/ argv[1] = "load" /\ IF config > 0 THEN Goes("loading") ELSE Exits(0)
  /\ UNCHANGED <<program, argv, given, config, listener, threads, metricsFile>>

Next ==
  \/ ReadCommand \/ ReadOption \/ CheckOptions \/ LoadConfig
  \/ CreateSocket \/ Listen \/ CreateThread \/ NegativeWorkers
  \/ StartServing \/ ReportWithoutServing \/ RunCommand

Spec == Init /\ [][Next]_vars

-----------------------------------------------------------------------------
\* the values the command line has for a flag
ValuesOf(flag) ==
  {argv[k + 1] : k \in {i \in DOMAIN argv : i % 2 = 1 /\ i < Len(argv) /\ argv[i] = flag}}

LastValueOf(flag) ==
  LET K == {i \in DOMAIN argv : i % 2 = 1 /\ i < Len(argv) /\ argv[i] = flag}
  IN  IF K = {} THEN Absent ELSE argv[Max(K) + 1]

\* A server listens, and a client runs a load, only with a command line that means
\* something, and with what that says last: the policy is one of the policies, rr
\* and drr, and only they, have a quantum, numbers are positive (RequestService
\* assumes it of job), and the accept loop has all the threads it was given.
RunsAsAsked ==
  /\ \A flag \in Flags : pc \notin {"command", "options", "exited"} =>
       given[flag] = LastValueOf(flag)
  /\ listener = "open" =>
       /\ LastValueOf("--sched") \in Policies /\ ValuesOf("--file") # {}
       /\ ValuesOf("--quantum") \cup ValuesOf("--p") \subseteq PositiveInts
       /\ LastValueOf("--sched") = "rr" <=> ValuesOf("--quantum") # {}
  /\ pc = "serving" => listener = "open" /\ threads = 1 + config
  /\ pc = "loading" =>
       /\ argv[1] = "load" /\ LastValueOf("--requests") \in PositiveInts
       /\ config > 0

\* A start that fails leaves nothing behind: with exit code 1 there is no thread,
\* no open socket and no metrics file.  A server that never served exits with 0
\* only if a thread could not be created, and is terminated only for its
\* configuration.
FailsClean ==
  pc = "exited" =>
    /\ exitCode = 1 => threads = 0 /\ listener # "open" /\ ~metricsFile
    /\ program = "server" /\ exitCode = 0 => threads < ThreadsWanted /\ listener = "closed"
    /\ exitCode = Terminated => program = "server" /\ (threads > 0 => config < 0)
=============================================================================
