--------------------------- MODULE RequestContract ---------------------------
(***************************************************************************)
(* What build/server promises the client of one request whose file nobody  *)
(* changes, without packets, buffers, file positions, system calls or the  *)
(* order of the calls in a round.  The request is served in turns.  In a   *)
(* turn it moves data, always the next bytes and only up to places where   *)
(* the data may be cut, as far as its policy allows; between turns it has  *)
(* its connection and moves nothing.  Module RequestRefinement maps        *)
(* RequestService to it.                                                   *)
(***************************************************************************)
EXTENDS Integers, Sequences

VARIABLES
  terms,     \* what the contract is about: fixed
  phase,     \* "waiting", "serving", "completed", "failed", "crashed"
  open,      \* the connection
  answers,   \* status lines sent
  data,      \* bytes sent, or stored
  left       \* bytes it may still move

vars == <<terms, phase, open, answers, data, left>>

\* A GET may be cut after each line, a PUT after each byte; short is a PUT whose
\* client sends less than it announced.  A reliable client stays, reads, and sends
\* without long pauses; on a reliable disk files open, read and write.
Terms == [op : {"GET", "PUT"}, policy : {"fcfs", "sjf", "rr", "drr"},
          quantum : Nat \ {0}, total : Nat, cuts : SUBSET Nat, short : BOOLEAN,
          peerReliable : BOOLEAN, diskReliable : BOOLEAN]

Init ==
  /\ terms \in Terms
  /\ phase = "waiting" /\ open = TRUE
  /\ answers = <<>> /\ data = <<>> /\ left = 0

Moved == Len(data)
Complete == Moved = terms.total

\* n bytes, or none for a request that has everything
Allowed(n) == IF Complete THEN 0 ELSE n

\* rr grants a quantum, drr adds one to what was kept, fcfs and sjf grant it all.
StartTurn ==
  /\ phase = "waiting" /\ phase' = "serving"
  /\ left' = Allowed(CASE terms.policy = "rr" -> terms.quantum
                       [] terms.policy = "drr" -> left + terms.quantum
                       [] OTHER -> terms.total)
  /\ UNCHANGED <<terms, open, answers, data>>

\* The first answer comes once, before any data.
Answer ==
  /\ phase = "serving" /\ open /\ answers = <<>>
  /\ answers' = <<"OK">>
  /\ UNCHANGED <<terms, phase, open, data, left>>

NextCut(c) == c \in terms.cuts /\ c > Moved /\ \A d \in terms.cuts : d > Moved => c <= d

\* The next piece is more than the request may move.
NothingFits == \A c \in terms.cuts : c > Moved => c - Moved > left

\* Data goes on where it stopped, up to the byte before number c + 1.
MovesTo(c) ==
  /\ phase = "serving" /\ open /\ answers = <<"OK">>
  /\ data' = data \o [i \in 1 .. c - Moved |-> Moved + i]
  /\ UNCHANGED <<terms, phase, open, answers>>

Move ==
  \E c \in terms.cuts :
    /\ Moved < c /\ c - Moved <= left
    /\ MovesTo(c)
    /\ left' = IF c = terms.total THEN 0 ELSE left - (c - Moved)

\* rr: a line longer than the quantum goes out alone, in a turn of its own.
Overrun ==
  /\ terms.policy = "rr" /\ left = terms.quantum /\ NothingFits
  /\ \E c \in terms.cuts : NextCut(c) /\ MovesTo(c)
  /\ left' = 0

\* A turn of rr or drr ends before the data does only if the next piece has to
\* wait, and a turn of rr never without having moved something.
EndTurn ==
  /\ phase = "serving" /\ terms.policy \in {"rr", "drr"}
  /\ answers = <<"OK">> /\ ~Complete /\ NothingFits
  /\ terms.policy = "rr" => left < terms.quantum
  /\ phase' = "waiting"
  /\ left' = IF terms.policy = "drr" THEN left ELSE 0
  /\ UNCHANGED <<terms, open, answers, data>>

\* All data is moved: the connection is closed, a PUT gets its second answer.
Finish ==
  /\ phase = "serving" /\ open /\ answers = <<"OK">> /\ Complete
  /\ phase' = "completed" /\ open' = FALSE /\ left' = 0
  /\ answers' = IF terms.op = "PUT" THEN <<"OK", "OK">> ELSE answers
  /\ UNCHANGED <<terms, data>>

\* The connection is closed, and nothing moves any more.
Stop(outcome) ==
  /\ phase = "serving" /\ phase' = outcome /\ open' = FALSE /\ left' = 0
  /\ UNCHANGED terms

\* The disk, or the client of a PUT, gives a reason to fail the request: its
\* client is told, in place of the next piece.
Refuse ==
  /\ \/ ~terms.diskReliable
     \/ terms.op = "PUT" /\ (terms.short \/ ~terms.peerReliable)
  /\ Stop("failed")
  /\ open /\ answers' = Append(answers, "ERR") /\ UNCHANGED data

\* A send to a client that is not reliable fails, or the process dies of it.  Of
\* the next piece of a GET the client may have a part.
Lose ==
  /\ ~terms.peerReliable
  /\ Stop("failed") \/ Stop("crashed")
  /\ \E n \in 0 .. terms.total :
       /\ n > 0 => terms.op = "GET" /\ answers = <<"OK">> /\ Moved + n < terms.total
       /\ data' = data \o [i \in 1 .. n |-> Moved + i]
  /\ UNCHANGED answers

Next == StartTurn \/ Answer \/ Move \/ Overrun \/ EndTurn \/ Finish \/ Refuse \/ Lose

Spec == Init /\ [][Next]_vars
=============================================================================
