--------------------------- MODULE RequestService ---------------------------
(***************************************************************************)
(* What workers do with one admitted request: the rounds of serveRequest   *)
(* and the six handlers behind it (src/request_handler.cpp), the state an  *)
(* AdmittedRequest carries from one round to the next, the client's end of *)
(* the connection and the file, which other requests may change.           *)
(*                                                                         *)
(* A byte of a file or of a body is its number, a file being read is the   *)
(* length of what getline can take of it and the offsets after its         *)
(* newlines, and pc names the next system call or loop test of the round.  *)
(* FileServer takes a whole round as one step with the outcomes that       *)
(* HandOver states.                                                        *)
(***************************************************************************)
EXTENDS Integers, FiniteSets, SequencesExt

CONSTANTS
  MaxBytes,      \* bound: size of a file or body
  MaxQuantum,    \* bound: --quantum
  MaxPacket,     \* bound: --p
  MaxSurplus,    \* bound: bytes a PUT client sends beyond those announced
  MaxShortfall,  \* bound: bytes it leaves out of those announced
  BufSize,       \* sizeof(buffer)
  MaxRounds,     \* bound: rounds of a request
  MaxChanges,    \* bound: changes other requests make to the file
  PeerReliable,  \* every client stays, reads and sends without long pauses,
                 \* and no signal interrupts a call
  DiskReliable   \* every file opens, is as long as stat says, and every write
                 \* that is checked succeeds

ASSUME ServiceAssumption ==
  /\ {MaxBytes, MaxSurplus, MaxShortfall, MaxRounds, MaxChanges} \subseteq Nat
  /\ {MaxQuantum, MaxPacket, BufSize} \subseteq Nat \ {0}
  /\ {PeerReliable, DiskReliable} \subseteq BOOLEAN

VARIABLES
  job,             \* [op, policy, quantum, packetLimit, total, stream,
                   \*  peerReliable, diskReliable]: fixed
  disk,            \* GET: what can be read of the file, [size, ends]
  stored,          \* PUT: the file
  changes,         \* changes made to the file by others
  peer,            \* the client: "reading"; "stalled", it has stopped reading
                   \* and no more fits into the connection; "gone"
  socket,          \* "open" or "closed"
  consumed,        \* PUT: bytes of the client's stream the server has taken
  replies, body,   \* status lines and file bytes that send accepted
  pc,
  rounds, transferred, deficit, responseStarted, forfeited, extra,
  quantumRemaining, firstLine, position, batch, linesInBatch,
  overruns         \* history: rounds that moved a line larger than quantum

request == <<rounds, transferred, deficit, responseStarted, forfeited, extra>>
locals == <<quantumRemaining, firstLine, position, batch, linesInBatch>>
vars == <<job, disk, stored, changes, peer, socket, consumed, replies, body, pc,
          request, locals, overruns>>

-----------------------------------------------------------------------------
Policies == {"fcfs", "sjf", "rr", "drr"}
Get == job.op = "GET"
Put == job.op = "PUT"
rr == job.policy = "rr"
drr == job.policy = "drr"
Preemptive == rr \/ drr

Least(S) == CHOOSE x \in S : \A y \in S : x <= y
Numbers(from, n) == [i \in 1 .. n |-> from + i]   \* n bytes after offset from

Layouts == UNION {[size : {n}, ends : SUBSET (1 .. n)] : n \in 0 .. MaxBytes}

\* A GET announces the size stat saw, which is more than can be read of a
\* directory, or on a failing disk; a PUT announces total and sends stream bytes,
\* of which the first few arrive together with its header line.
Init ==
  /\ disk \in Layouts
  /\ \E policy \in Policies, quantum \in 1 .. MaxQuantum,
        packet \in 1 .. MaxPacket, n \in 0 .. MaxBytes,
        stream, early \in 0 .. MaxBytes + MaxSurplus,
        peerOk \in {TRUE, PeerReliable}, diskOk \in {TRUE, DiskReliable} :
       \/ /\ early = 0 /\ stream = 0
          /\ n = disk.size \/ (n > disk.size /\ ~diskOk)
          /\ job = [op |-> "GET", policy |-> policy, quantum |-> quantum,
                    packetLimit |-> packet, total |-> n, stream |-> 0,
                    peerReliable |-> peerOk, diskReliable |-> diskOk]
          /\ extra = <<>> /\ consumed = 0
       \/ /\ early <= stream /\ disk.size = 0 /\ packet = 1
          /\ stream \in n - MaxShortfall .. n + MaxSurplus
          /\ job = [op |-> "PUT", policy |-> policy, quantum |-> quantum,
                    packetLimit |-> 1, total |-> n, stream |-> stream,
                    peerReliable |-> peerOk, diskReliable |-> diskOk]
          /\ extra = Numbers(0, early) /\ consumed = early
  /\ stored = <<0>> /\ changes = 0
  /\ peer = "reading" /\ socket = "open" /\ replies = <<>> /\ body = <<>>
  /\ pc = "queued"
  /\ rounds = 0 /\ transferred = 0 /\ deficit = 0
  /\ responseStarted = FALSE /\ forfeited = 0
  /\ quantumRemaining = 0 /\ firstLine = TRUE /\ position = 0
  /\ batch = <<>> /\ linesInBatch = 0 /\ overruns = 0

-----------------------------------------------------------------------------
(* Outcomes of a send and of a round.                                      *)

\* A send takes everything; to a client that has stalled it does not return, as
\* only receiving has a timeout.
CanSend == socket = "open" /\ peer # "stalled"

\* send returns -1 or kills the process: the descriptor is closed, the connection
\* was reset, or a signal came while send waited for room.  On a connection the
\* client has left the process may get SIGPIPE, which it does not handle.
SendErrs ==
  \/ socket = "closed" /\ pc' = "failed"
  \/ socket = "open" /\ peer = "gone" /\ pc' \in {"failed", "killed"}
  \/ socket = "open" /\ peer = "reading" /\ ~job.peerReliable /\ pc' = "failed"

\* close, return false
SendFails ==
  /\ SendErrs
  /\ socket' = "closed"
  /\ UNCHANGED <<job, disk, stored, changes, peer, consumed, replies, body,
                 request, locals, overruns>>

\* sendErrorResponse, close, return false
Rejects ==
  /\ \/ CanSend /\ pc' = "failed" /\ replies' = Append(replies, "ERR")
     \/ SendErrs /\ UNCHANGED replies
  /\ socket' = "closed"
  /\ UNCHANGED <<job, disk, stored, changes, peer, consumed, body, request,
                 locals, overruns>>

\* Fault: off by one in the test for the last byte.
FaultyAfterRound == IF transferred + 1 < job.total THEN "queued" ELSE "done"

\* return true: the worker requeues the request or records it
AfterRound == IF transferred < job.total THEN "queued" ELSE "done"

\* Fault: each round starts with a new deficit.
FaultyGranted == IF drr THEN job.quantum ELSE deficit

\* the deficit with the quantum of a new round
Granted == IF drr THEN deficit + job.quantum ELSE deficit

\* A worker picks the request up.
BeginRound ==
  /\ pc = "queued" /\ rounds < MaxRounds
  /\ rounds' = rounds + 1
  /\ pc' = IF Preemptive /\ responseStarted THEN "open" ELSE "status"
  /\ UNCHANGED <<job, disk, stored, changes, peer, socket, consumed, replies,
                 body, transferred, deficit, responseStarted, forfeited, extra,
                 locals, overruns>>

\* OK <size> to a GET, OK 0 to a PUT
SendStatus ==
  /\ pc = "status"
  /\ \/ /\ CanSend
        /\ replies' = Append(replies, "OK")
        /\ responseStarted' = Preemptive
        /\ pc' = "open"
        /\ UNCHANGED <<job, disk, stored, changes, peer, socket, consumed, body,
                       rounds, transferred, deficit, forfeited, extra, locals,
                       overruns>>
     \/ SendFails

-----------------------------------------------------------------------------
(* GET.                                                                    *)

\* Fault: a later round of rr or drr starts reading from the top.
FaultyStartOffset == 0

\* seekg(bytesTransferred), which fcfs and sjf do without
StartOffset == IF Preemptive THEN transferred ELSE 0

\* Open the file, seek to where the last round stopped, grant the quantum.
OpenGet ==
  /\ pc = "open" /\ Get
  /\ \/ /\ position' = StartOffset
        /\ quantumRemaining' = job.quantum
        /\ deficit' = Granted
        /\ firstLine' = TRUE /\ batch' = <<>> /\ linesInBatch' = 0
        /\ pc' = "loop"
        /\ UNCHANGED <<job, disk, stored, changes, peer, socket, consumed,
                       replies, body, rounds, transferred, responseStarted,
                       forfeited, extra, overruns>>
     \* no descriptor left, no permission, or somebody removed the file
     \/ (changes > 0 \/ ~job.diskReliable) /\ Rejects

\* bytes std::getline would take from the file, with the newline; 0 at its end
LineLength(at) ==
  IF at >= disk.size THEN 0
  ELSE Least({e \in disk.ends \cup {disk.size} : e > at}) - at

Reading == pc = "loop" /\ Get /\ transferred < job.total

\* Fault: the line is measured without its newline.
FaultyFits(n) == (rr => n - 1 <= quantumRemaining) /\ (drr => n - 1 <= deficit)

Fits(n) == (rr => n <= quantumRemaining) /\ (drr => n <= deficit)

\* Fault: the packet is sent one line late.
FaultyPacketFull(lines) == lines > job.packetLimit

PacketFull(lines) == lines >= job.packetLimit

\* The line fits: it joins the packet.
LineTaken ==
  LET n == LineLength(position) IN
  /\ Reading /\ n > 0 /\ Fits(n)
  /\ batch' = batch \o Numbers(position, n)
  /\ position' = position + n
  /\ transferred' = transferred + n
  /\ linesInBatch' = linesInBatch + 1
  /\ quantumRemaining' = IF rr THEN quantumRemaining - n ELSE quantumRemaining
  /\ deficit' = IF drr THEN deficit - n ELSE deficit
  /\ firstLine' = FALSE
  /\ pc' = IF PacketFull(linesInBatch') THEN "send"
           ELSE IF rr /\ quantumRemaining' = 0 THEN "flush" ELSE "loop"
  /\ UNCHANGED <<job, disk, stored, changes, peer, socket, consumed, replies,
                 body, rounds, responseStarted, forfeited, extra, overruns>>

\* Fault: no overrun, the round just ends.
FaultyOverruns ==
  /\ Reading /\ rr /\ LineLength(position) > quantumRemaining /\ firstLine
  /\ pc' = "flush"
  /\ UNCHANGED <<job, disk, stored, changes, peer, socket, consumed, replies,
                 body, request, locals, overruns>>

\* rr: the first line of the round exceeds the quantum and goes out alone.
LineOverruns ==
  LET n == LineLength(position) IN
  /\ Reading /\ rr /\ n > quantumRemaining /\ firstLine
  /\ batch' = batch \o Numbers(position, n)
  /\ position' = position + n
  /\ transferred' = transferred + n
  /\ overruns' = overruns + 1
  /\ pc' = "flush"
  /\ UNCHANGED <<job, disk, stored, changes, peer, socket, consumed, replies,
                 body, rounds, deficit, responseStarted, forfeited, extra,
                 quantumRemaining, firstLine, linesInBatch>>

\* rr: a later line exceeds what is left of the quantum.
LineForfeits ==
  /\ Reading /\ rr /\ LineLength(position) > quantumRemaining /\ ~firstLine
  /\ forfeited' = forfeited + quantumRemaining
  /\ pc' = "flush"
  /\ UNCHANGED <<job, disk, stored, changes, peer, socket, consumed, replies,
                 body, rounds, transferred, deficit, responseStarted, extra,
                 locals, overruns>>

\* drr: the line has to wait for a larger deficit.  All policies: the loop ends
\* when the announced size is reached; fcfs and sjf end it when getline fails.
LoopEnds ==
  /\ pc = "loop" /\ Get
  /\ \/ transferred >= job.total
     \/ drr /\ LineLength(position) > deficit
     \/ ~Preemptive /\ LineLength(position) = 0
  /\ pc' = "flush"
  /\ UNCHANGED <<job, disk, stored, changes, peer, socket, consumed, replies,
                 body, request, locals, overruns>>

\* Fault: a getline that fails just ends the round.
FaultyReadFails ==
  /\ Reading /\ Preemptive /\ LineLength(position) = 0
  /\ pc' = "flush"
  /\ UNCHANGED <<job, disk, stored, changes, peer, socket, consumed, replies,
                 body, request, locals, overruns>>

\* rr and drr: getline fails before the announced size is reached.
ReadFails == Reading /\ Preemptive /\ LineLength(position) = 0 /\ Rejects

\* sendAllBytes fails, after sends that took a part of the packet.
PacketCut ==
  /\ SendErrs
  /\ socket' = "closed"
  /\ \E n \in 0 .. Len(batch) - 1 :
       /\ socket = "closed" => n = 0
       /\ body' = body \o SubSeq(batch, 1, n)
  /\ UNCHANGED <<job, disk, stored, changes, peer, consumed, replies, request,
                 locals, overruns>>

SendBatch ==
  /\ pc \in {"send", "flush"} /\ batch # <<>>
  /\ \/ /\ CanSend
        /\ body' = body \o batch
        /\ batch' = <<>> /\ linesInBatch' = 0
        /\ pc' = IF pc = "send" /\ ~(rr /\ quantumRemaining = 0)
                 THEN "loop" ELSE "flush"
        /\ UNCHANGED <<job, disk, stored, changes, peer, socket, consumed,
                       replies, request, quantumRemaining, firstLine, position,
                       overruns>>
     \/ PacketCut

\* Fault: rr and drr close the connection at the end of every round.
FaultySocketAfterGet == "closed"

SocketAfterGet ==
  IF Preemptive /\ transferred # job.total THEN socket ELSE "closed"

FinishGet ==
  /\ pc = "flush" /\ batch = <<>>
  /\ socket' = SocketAfterGet
  /\ deficit' = IF drr /\ transferred = job.total THEN 0 ELSE deficit
  /\ pc' = AfterRound
  /\ UNCHANGED <<job, disk, stored, changes, peer, consumed, replies, body,
                 rounds, transferred, responseStarted, forfeited, extra, locals,
                 overruns>>

-----------------------------------------------------------------------------
(* PUT.                                                                    *)

\* Fault: every round truncates the file.
FaultyOpened == <<>>

\* Truncate the file in the first round, append in later ones.
Opened == IF Preemptive /\ transferred > 0 THEN stored ELSE <<>>

OpenPut ==
  /\ pc = "open" /\ Put
  /\ \/ /\ stored' = Opened
        /\ quantumRemaining' = job.quantum
        /\ deficit' = Granted
        /\ pc' = "extra"
        /\ UNCHANGED <<job, disk, changes, peer, socket, consumed, replies, body,
                       rounds, transferred, responseStarted, forfeited, extra,
                       firstLine, position, batch, linesInBatch, overruns>>
     \/ ~job.diskReliable /\ Rejects

\* what the handler may still move in this round
Credit == IF rr THEN quantumRemaining ELSE IF drr THEN deficit ELSE job.total

\* Account for n bytes written to the file.
Moves(n) ==
  /\ transferred' = transferred + n
  /\ quantumRemaining' = IF rr THEN quantumRemaining - n ELSE quantumRemaining
  /\ deficit' = IF drr THEN deficit - n ELSE deficit

\* The bytes that came with the header; only fcfs and sjf mind the total.
TakeExtra ==
  /\ pc = "extra"
  /\ \/ LET n == Least({Len(extra), Credit}) IN
        /\ stored' = stored \o SubSeq(extra, 1, n)
        /\ Moves(n)
        /\ extra' = IF Preemptive THEN SubSeq(extra, n + 1, Len(extra)) ELSE extra
        /\ pc' = "loop"
        /\ UNCHANGED <<job, disk, changes, peer, socket, consumed, replies, body,
                       rounds, responseStarted, forfeited, firstLine, position,
                       batch, linesInBatch, overruns>>
     \/ ~job.diskReliable /\ extra # <<>> /\ Rejects

Receiving == pc = "loop" /\ Put /\ transferred < job.total /\ Credit > 0

Receive ==
  /\ Receiving
  /\ \E n \in 1 .. Least({BufSize, job.total - transferred, Credit}) :
       /\ consumed + n <= job.stream
       /\ consumed' = consumed + n
       /\ stored' = stored \o Numbers(consumed, n)
       /\ Moves(n)
  /\ UNCHANGED <<job, disk, changes, peer, socket, replies, body, pc, rounds,
                 responseStarted, forfeited, extra, firstLine, position, batch,
                 linesInBatch, overruns>>

\* Fault: no receive timeout is set, only the client's leaving ends the wait.
FaultyReceiveFails == Receiving /\ peer = "gone" /\ Rejects

\* Timeout, interrupt or end of the stream; or a failed write, which fcfs and
\* sjf do not look for.
ReceiveFails ==
  /\ Receiving
  /\ \/ ~job.peerReliable \/ consumed = job.stream
     \/ ~job.diskReliable /\ Preemptive
  /\ Rejects

PutRoundEnds ==
  /\ pc = "loop" /\ Put /\ ~Receiving
  /\ LET complete == ~Preemptive \/ transferred = job.total IN
       /\ deficit' = IF Preemptive /\ complete THEN 0 ELSE deficit
       /\ pc' = IF complete THEN "finalOk" ELSE AfterRound
  /\ UNCHANGED <<job, disk, stored, changes, peer, socket, consumed, replies,
                 body, rounds, transferred, responseStarted, forfeited, extra,
                 locals, overruns>>

SendFinalOk ==
  /\ pc = "finalOk"
  /\ \/ /\ CanSend
        /\ replies' = Append(replies, "OK")
        /\ socket' = "closed"
        /\ pc' = AfterRound
        /\ UNCHANGED <<job, disk, stored, changes, peer, consumed, body, request,
                       locals, overruns>>
     \/ SendFails

-----------------------------------------------------------------------------
(* The environment.                                                        *)

Over == pc \in {"done", "failed", "killed"}

\* The client resets the connection, or stops reading for good until no more fits;
\* the status lines of a PUT, and the first of a GET, always do.
PeerStops ==
  /\ ~job.peerReliable /\ ~Over
  /\ \/ peer # "gone" /\ peer' = "gone"
     \/ peer = "reading" /\ Get /\ replies # <<>> /\ peer' = "stalled"
  /\ UNCHANGED <<job, disk, stored, changes, socket, consumed, replies, body, pc,
                 request, locals, overruns>>

\* A PUT of the same name truncates or rewrites the file, or it cannot be read
\* any more as before; a write or close nobody checks loses the end of a PUT.
FileChanges ==
  /\ changes < MaxChanges /\ ~Over
  /\ changes' = changes + 1
  /\ \/ Get /\ disk' \in Layouts /\ UNCHANGED stored
     \/ /\ Put /\ UNCHANGED disk
        /\ \E n \in 0 .. Len(stored) : stored' = SubSeq(stored, 1, n)
  /\ UNCHANGED <<job, peer, socket, consumed, replies, body, pc, request, locals,
                 overruns>>

GetStep == OpenGet \/ LineTaken \/ LineOverruns \/ LineForfeits \/ LoopEnds
             \/ ReadFails \/ SendBatch \/ FinishGet
PutStep == OpenPut \/ TakeExtra \/ Receive \/ ReceiveFails \/ PutRoundEnds
             \/ SendFinalOk
Serve == BeginRound \/ SendStatus \/ GetStep \/ PutStep

Next == Serve \/ PeerStops \/ FileChanges
Spec == Init /\ [][Next]_vars

\* A worker always comes back to a queued request (FileServer shows it) and its
\* calls return, recv after its timeout at the latest, send if its client reads.
FairSpec == Spec /\ WF_vars(Serve)

-----------------------------------------------------------------------------
Pcs == {"queued", "status", "open", "loop", "send", "flush", "extra", "finalOk",
        "done", "failed", "killed"}

\* The fields of AdmittedRequest and the handlers' locals keep their types; the
\* unsigned ones never go below zero.
TypeOK ==
  /\ job \in [op : {"GET", "PUT"}, policy : Policies, quantum : Nat \ {0},
              packetLimit : Nat \ {0}, total : Nat, stream : Nat,
              peerReliable : BOOLEAN, diskReliable : BOOLEAN]
  /\ disk.size \in Nat /\ disk.ends \subseteq 1 .. disk.size
  /\ stored \in Seq(Nat) /\ changes \in 0 .. MaxChanges
  /\ peer \in {"reading", "stalled", "gone"} /\ socket \in {"open", "closed"}
  /\ consumed \in 0 .. job.stream
  /\ replies \in Seq({"OK", "ERR"}) /\ body \in Seq(Nat)
  /\ pc \in Pcs
  /\ rounds \in 0 .. MaxRounds /\ transferred \in Nat /\ deficit \in Nat
  /\ responseStarted \in BOOLEAN /\ forfeited \in Nat /\ extra \in Seq(Nat)
  /\ quantumRemaining \in Nat /\ firstLine \in BOOLEAN /\ position \in Nat
  /\ batch \in Seq(Nat) /\ linesInBatch \in Nat /\ overruns \in Nat

(* Safety.                                                                 *)

\* Whole lines of a file that ends at n bytes or has a newline there.
LineEnd(n) == n \in {0, disk.size} \cup disk.ends

\* If nobody changes the file, the bytes sent for a GET are a prefix of it that
\* ends with a line unless a send was cut off, over all rounds and packets, and
\* nothing is left in the packet when the request goes back to the queue.
BodyIsWholeLines ==
  (Get /\ changes = 0) =>
    /\ body = Numbers(0, Len(body))
    /\ pc \in {"failed", "killed"} \/ LineEnd(Len(body))
    /\ pc \in {"queued", "done"} => Len(body) = transferred

\* No packet has more than --p lines, the one of an overrun included.
PacketsWithinLimit ==
  (Get /\ changes = 0) =>
    Cardinality({i \in DOMAIN batch : LineEnd(batch[i])}) <= job.packetLimit

\* rr: a preempted request has used up or forfeited exactly one quantum per
\* round, more only in rounds with an overrun; a PUT forfeits nothing.
RoundRobinAccounts ==
  (rr /\ pc = "queued") =>
    /\ overruns = 0 => transferred + forfeited = rounds * job.quantum
    /\ overruns > 0 => transferred + forfeited > rounds * job.quantum
    /\ Put => forfeited = 0 /\ overruns = 0

\* drr: what a preempted request has not used of its quanta is its deficit,
\* which is less than its next line; a PUT keeps none.
DeficitAccounts ==
  (drr /\ pc = "queued") =>
    /\ transferred + deficit = rounds * job.quantum
    /\ rounds > 0 =>
         IF Put THEN deficit = 0
         ELSE changes = 0 => deficit < LineLength(transferred)

\* A PUT stores the announced bytes, and in order, whether they came with the
\* header or later and in however many rounds: between rounds the file has what
\* was counted, and the second OK is sent only when all of it is there.
UploadStored ==
  (Put /\ changes = 0) =>
    /\ (pc = "queued" /\ rounds > 0) => stored = Numbers(0, transferred)
    /\ replies = <<"OK", "OK">> => stored = Numbers(0, job.total)

\* A request counts as completed, and is recorded, only with its whole answer
\* sent: one OK and the file, or two OKs.  (A PUT body with bytes to spare gets
\* no second OK from rr and drr.)
CompletedIsAnswered ==
  (pc = "done" /\ changes = 0) =>
    IF Get THEN replies = <<"OK">> /\ body = Numbers(0, job.total)
    ELSE transferred = job.total => replies = <<"OK", "OK">>

\* The file is as stat saw it.
Intact == changes = 0 /\ (Get => disk.size = job.total)

\* What the rest of the server relies on when a round is over: a failed request
\* has its descriptor closed; a request that goes back to the queue has it open
\* and a completed one closed.  The exceptions: under fcfs and sjf a GET of a
\* directory or of a file that can no longer be read to the announced size, and
\* under rr and drr a file that has grown or a body longer than announced.
HandOver ==
  /\ pc = "failed" => socket = "closed"
  /\ pc = "queued" => socket = "open" \/ (Get /\ ~Preemptive /\ ~Intact)
  /\ pc = "done" => \/ socket = "closed"
                    \/ Preemptive /\ (changes > 0 \/ job.stream > job.total)

-----------------------------------------------------------------------------
(* Liveness, under FairSpec.                                               *)

\* Every request of a client that keeps to the protocol completes if the disk
\* works and the file does not change: lines longer than the quantum do not stop
\* it, under rr because they go out anyway, under drr because the deficit grows.
RequestCompletes ==
  job.peerReliable /\ job.diskReliable =>
    <>(pc = "done" \/ changes > 0 \/ (Put /\ job.stream < job.total))

\* The request holds a worker in a send that waits for its client to read.
Stuck == peer = "stalled" /\ pc # "queued" /\ ~Over /\ ~ENABLED Serve

\* No request is served for ever, whatever the file and the disk do and whatever
\* its client sends or leaves out, but for a client that stops reading.
ServiceEnds == <>(Over \/ Stuck)

=============================================================================
