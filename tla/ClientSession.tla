---------------------------- MODULE ClientSession ----------------------------
(***************************************************************************)
(* One put or get of build/client (getFile and putFile, src/client.cpp)     *)
(* and the request it makes of the server (RequestService), joined by the  *)
(* two directions of a TCP connection.  The client has no receive timeout; *)
(* it writes all of a body before it looks at the second answer, and takes *)
(* the bytes after the first answer for the file, as many as announced.    *)
(*                                                                         *)
(* Another program at the other end may send its body at once, some of it  *)
(* along with the request line, and reads what comes.                      *)
(***************************************************************************)
EXTENDS RequestService

CONSTANTS
  ErrorBytes,    \* length of the ERR line of a file that cannot be read
  ClientBytes,   \* bound: length of a body or file of build/client
  Window         \* bound: bytes TCP takes from a sender ahead of its receiver

ASSUME SessionAssumption == ClientBytes \in Nat /\ {ErrorBytes, Window} \subseteq Nat \ {0}

VARIABLES
  program,     \* who is at the other end: "client" or "other"
  clientPc,    \* the call the client is in
  got,         \* bytes and status lines it has received
  download,    \* GET: fileData
  sent         \* PUT: bytes of the body it has sent

client == <<program, clientPc, got, download, sent>>
sessionVars == <<vars, client>>

\* On the wire a byte of a file is its number and a status line one item, but for
\* the ERR line that follows the OK of a get: it comes where the client expects
\* bytes of the file.
OkLine == 0
ErrLine == -1

Lines(rs) == [i \in DOMAIN rs |-> IF rs[i] = "OK" THEN OkLine ELSE ErrLine]
ErrorText(n) == [i \in 1 .. n |-> ErrLine]

\* what the server has sent: a status line, file bytes, another status line
Wire == LET lines == Lines(replies) IN
  IF lines = <<>> THEN <<>>
  ELSE <<Head(lines)>> \o body
         \o (IF Get /\ Len(lines) > 1 THEN ErrorText(ErrorBytes) ELSE Tail(lines))

SessionInit ==
  /\ Init
  /\ program \in {"client", "other"}
  /\ program = "client" =>
       consumed = 0 /\ job.total <= ClientBytes /\ job.stream <= ClientBytes
  /\ clientPc = IF program = "client" THEN "status" ELSE "absent"
  /\ got = 0 /\ download = <<>>
  /\ sent = IF program = "client" THEN 0 ELSE job.stream

-----------------------------------------------------------------------------
(* The client.                                                             *)

Unread == Len(Wire) - got

\* A server that closes a connection with bytes left unread resets it: what was
\* on its way to the client may be lost.
Reset == socket = "closed" /\ consumed < sent

\* nothing changes but the client, and perhaps peer
ClientOnly == UNCHANGED <<job, disk, stored, changes, socket, consumed, replies,
                          body, pc, request, locals, overruns, program>>

\* the client closes its socket and returns
Returns(outcome) == clientPc' = outcome /\ peer' = "gone"

\* readHeader and the test of the first answer
ReadStatus ==
  /\ clientPc = "status" /\ Unread > 0
  /\ got' = 1
  /\ IF Wire[1] = OkLine
     THEN clientPc' = (IF Get THEN "body" ELSE "upload") /\ UNCHANGED peer
     ELSE Returns("failed")
  /\ ClientOnly /\ UNCHANGED <<download, sent>>

\* Fault: the client stops a byte early.
FaultyBytesYetToRead == job.total - 1 - Len(download)

\* the first answer announced job.total bytes
BytesYetToRead == job.total - Len(download)

\* readBodyData takes what has come, and no more than it needs.
ReadBody ==
  /\ clientPc = "body"
  /\ \E n \in 1 .. Least({Unread, BytesYetToRead}) :
       /\ download' = download \o SubSeq(Wire, got + 1, got + n)
       /\ got' = got + n
  /\ ClientOnly /\ UNCHANGED <<peer, clientPc, sent>>

\* All bytes are there and are saved, if the disk lets them.
SaveBody ==
  /\ clientPc = "body" /\ BytesYetToRead <= 0
  /\ Returns("succeeded") \/ Returns("unsaved")
  /\ ClientOnly /\ UNCHANGED <<got, download, sent>>

\* sendAllBytes for the next buffer of the local file: TCP takes some of it, or
\* the server has closed the connection and the client gets an error or SIGPIPE.
SendBody ==
  /\ clientPc = "upload" /\ sent < job.stream
  /\ \/ /\ \E n \in 1 .. Least({job.stream - sent, Window - (sent - consumed)}) :
             sent' = sent + n
        /\ UNCHANGED <<peer, clientPc>>
     \/ /\ socket = "closed"
        /\ Returns("failed") \/ Returns("killed")
        /\ UNCHANGED sent
  /\ ClientOnly /\ UNCHANGED <<got, download>>

\* the end of the local file
BodySent ==
  /\ clientPc = "upload" /\ sent = job.stream
  /\ clientPc' = "final"
  /\ ClientOnly /\ UNCHANGED <<peer, got, download, sent>>

\* Fault: the client takes the first answer for the second.
FaultyFinalAnswer == Wire[1]

FinalAnswer == Wire[got + 1]

ReadFinal ==
  /\ clientPc = "final" /\ Unread > 0
  /\ got' = got + 1
  /\ Returns(IF FinalAnswer = OkLine THEN "succeeded" ELSE "failed")
  /\ ClientOnly /\ UNCHANGED <<download, sent>>

\* recv returns 0 at the end of what the server sent, or fails after a reset.
ClientReadFails ==
  /\ \/ clientPc \in {"status", "final"}
     \/ clientPc = "body" /\ BytesYetToRead > 0
  /\ socket = "closed" /\ (Unread = 0 \/ Reset)
  /\ Returns("failed")
  /\ ClientOnly /\ UNCHANGED <<got, download, sent>>

ClientStep == ReadStatus \/ ReadBody \/ SaveBody \/ SendBody \/ BodySent
                \/ ReadFinal \/ ClientReadFails

-----------------------------------------------------------------------------
(* The server at its end of the connection.                                *)

\* It receives only what was sent, and a send waits for room.
ServerStep ==
  /\ Serve
  /\ consumed' <= sent
  /\ program = "client" /\ peer = "reading" /\ Wire' # Wire => Unread < Window
  /\ UNCHANGED client

FileStep == program = "client" /\ FileChanges /\ UNCHANGED client

SessionNext == ServerStep \/ ClientStep \/ FileStep
SessionSpec == SessionInit /\ [][SessionNext]_sessionVars

\* The calls of both programs return, the server's recv after its timeout at the
\* latest; the client's return when there is something to return.
SessionFairSpec ==
  SessionSpec /\ WF_sessionVars(ServerStep) /\ WF_sessionVars(ClientStep)

-----------------------------------------------------------------------------
ClientOver == clientPc \in {"absent", "succeeded", "unsaved", "failed", "killed"}
Stable == changes = 0

\* Some lines of the file, then text of the server's ERR line, as many bytes as
\* announced: the server answers OK before it opens the file.
ErrorSaved ==
  \E n \in 0 .. job.total - 1 :
    download = Numbers(0, n) \o ErrorText(job.total - n)

\* An exit code of 0 tells the truth, as long as no other request changes the file
\* and no write that goes unchecked is lost: what a get saved is the announced
\* bytes of the file, and what a put announced is stored, through any number of
\* rounds, packets and partial sends and receives.  The exception, which takes a
\* failing disk: a get saves the text of an ERR line that is long enough.
ExitZeroIsTrue ==
  (clientPc = "succeeded" /\ Stable) =>
    IF Get THEN download = Numbers(0, job.total) \/ (~job.diskReliable /\ ErrorSaved)
           ELSE stored = Numbers(0, job.total)

\* The client of a get that fails on the server has left, or has all it asked for.
Misled == Get /\ ~job.diskReliable /\ (job.total = 0 \/ ErrorSaved)

\* Client and server agree on what became of a request: the client has its answer
\* exactly if the server records it, but for a get the disk fails after the OK.
\* (A put file that grows after it was measured may lose the answer to a reset.)
EndsAgree ==
  (program = "client" /\ Over /\ ClientOver /\ Stable /\ job.stream <= job.total) =>
    LET answered == clientPc \in {"succeeded", "unsaved"} IN
    (pc = "done" => answered) /\ (answered => pc = "done" \/ Misled)

\* Neither end is killed by a send to an end that has left, as long as the file
\* does not change and the disk works: the client of a get leaves when the server
\* has nothing more to send, the server of a put when the client has.  On a
\* failing disk the server is killed only by telling the client of an empty file,
\* who has left, that it cannot be opened.
NobodyKilled ==
  Stable =>
    /\ pc = "killed" => Get /\ job.total = 0 /\ ~job.diskReliable
    /\ (job.stream <= job.total /\ job.diskReliable) => clientPc # "killed"

\* The two ends never wait for each other for ever, though the client has no
\* timeout: not when both could be sending, and not when the client has less to
\* send than it announced, since the server gives up receiving.
BothEnd == <>(Over /\ ClientOver)
=============================================================================
