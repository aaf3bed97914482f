-------------------------- MODULE RequestRefinement --------------------------
(***************************************************************************)
(* RequestService implements RequestContract, with clients and disks that  *)
(* work and others, up to the moment another request changes the file, if  *)
(* no client sends more than it announced and no GET of fcfs or sjf        *)
(* announces more than can be read.                                        *)
(***************************************************************************)
EXTENDS RequestService

\* Nobody else changes the file, the client sends no more than it announced, and
\* fcfs and sjf, which take a getline that fails for the end of the file and queue
\* the request with its descriptor closed, can read all they announced.
Undisturbed == changes = 0 /\ job.stream <= job.total /\ (Preemptive \/ Intact)

\* the contract's variables
Terms == [op |-> job.op, policy |-> job.policy, quantum |-> job.quantum,
          total |-> job.total, short |-> Put /\ job.stream < job.total,
          peerReliable |-> job.peerReliable, diskReliable |-> job.diskReliable,
          cuts |-> IF Get THEN disk.ends \cup {disk.size} ELSE 1 .. job.total]

Phase ==
  CASE pc = "queued" -> "waiting"
    [] pc = "done" -> "completed"
    [] pc = "failed" -> "failed"
    [] pc = "killed" -> "crashed"
    [] OTHER -> "serving"

\* The first round of a PUT truncates what was stored before.
Data == IF Get THEN body ELSE IF transferred = 0 THEN <<>> ELSE stored

\* rr: the packet that is still to be sent, or was, is a line beyond the quantum.
Overrunning == Get /\ pc = "flush" /\ firstLine

\* What has been counted but not sent may still be moved.
RoundRobinLeft ==
  CASE pc \in {"status", "open"} -> job.quantum
    [] Overrunning -> IF batch = <<>> THEN 0 ELSE quantumRemaining
    [] OTHER -> quantumRemaining + Len(batch)

DeficitLeft ==
  IF pc \in {"status", "open"} THEN deficit + job.quantum ELSE deficit + Len(batch)

\* The request is in a turn and does not have everything yet.
Unfinished == pc # "queued" /\ ~Over /\ Len(Data) # job.total

Left ==
  CASE pc = "queued" /\ drr -> deficit
    [] Unfinished /\ rr -> RoundRobinLeft
    [] Unfinished /\ drr -> DeficitLeft
    [] Unfinished /\ ~Preemptive -> job.total - Len(Data)
    [] OTHER -> 0

Contract == INSTANCE RequestContract WITH
  terms <- Terms,
  phase <- Phase,
  open <- socket = "open",
  answers <- replies,
  data <- Data,
  left <- Left

\* As long as the request is undisturbed, every step of its rounds, with their
\* packets, reads, early and late bytes, requeues and failures, is a step of the
\* contract or none: the answers and the data come once and in order, in every
\* turn as much as the policy allows.  A request ends early only if its client, the
\* body it sends or the disk gives a reason, and then a client that still reads is
\* told: a request of a reliable client on a reliable disk does not.
KeepsContract ==
  /\ Undisturbed => Contract!Init
  /\ [][Undisturbed' => [Contract!Next]_Contract!vars]_vars
=============================================================================
