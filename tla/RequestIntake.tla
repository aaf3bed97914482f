---------------------------- MODULE RequestIntake ----------------------------
(***************************************************************************)
(* What the parser thread does with one connection, from the first recv to *)
(* the reply that rejects it or the request that is queued: header framing *)
(* (src/framing.cpp), the grammar of the header line (src/request.cpp) and *)
(* the decision in parserThreadFunc (src/server.cpp, 225-288).             *)
(*                                                                         *)
(* A stream is a sequence of items: a word with the blanks before it, the  *)
(* newline, a byte of a body.  A client may also send blanks, as often as  *)
(* it likes, before the next item: nothing limits the length of a line.    *)
(* FileServer takes all of this as one step with the outcomes answered and *)
(* admitted.                                                               *)
(***************************************************************************)
EXTENDS Integers, SequencesExt

CONSTANTS
  MaxWords,    \* bound: words of a header line
  MaxEarly,    \* bound: items after the line
  BufSize      \* sizeof(recvBuffer)

ASSUME IntakeAssumption == {MaxWords, MaxEarly} \subseteq Nat /\ BufSize \in Nat \ {0}

NL == "\n"
Empty == ""     \* the empty std::string: no word, no error
Huge == "2^64"
Digits == {"7", Huge}                          \* words of digits only
Names == {"notes", "get"} \cup Digits          \* words that may name a file
Words == {"GET", "put", "HEALTH", "..", "a/b"} \cup Names
FileSizes == {0, 7}
NoFile == -1

ToUpper ==
  [w \in Words |-> IF w = "get" THEN "GET" ELSE IF w = "put" THEN "PUT" ELSE w]

VARIABLES
  stream,     \* what the client sends, and how much of it has been received
  received,
  trickle,    \* blanks before the next item have come and are not received yet
  peer,       \* the client: "there" or "gone"
  pc,         \* the call the parser is in, or what became of the connection
  buffer,     \* bufferString
  header, extra,   \* HeaderResult
  errorMessage,    \* of HeaderResult, ParseResult or the decision
  replies,    \* what was sent to the client
  admitted    \* the AdmittedRequest: [type, fileName, total]

vars == <<stream, received, trickle, peer, pc, buffer, header, extra,
          errorMessage, replies, admitted>>

None == [type |-> Empty, fileName |-> Empty, total |-> 0]

\* A line, or the beginning of one if the client gives up, and items after it.
Lines == SeqOf(Words, MaxWords)
Rests == {<<>>} \cup {<<NL>> \o early : early \in SeqOf({"notes", NL}, MaxEarly)}
Streams == {line \o rest : line \in Lines, rest \in Rests}

Init ==
  /\ stream \in Streams /\ received = 0 /\ trickle = FALSE /\ peer = "there"
  /\ pc = "receive" /\ buffer = <<>> /\ header = <<>> /\ extra = <<>>
  /\ errorMessage = Empty /\ replies = <<>> /\ admitted = None

-----------------------------------------------------------------------------
(* readRequestHeader.                                                      *)

Newline(s) == CHOOSE i \in DOMAIN s : s[i] = NL /\ \A j \in 1 .. i - 1 : s[j] # NL

\* Fault: the item after the newline is lost.
FaultyAfterLine(s) == SubSeq(s, Newline(s) + 2, Len(s))

AfterLine(s) == SubSeq(s, Newline(s) + 1, Len(s))

\* n items with the blanks before them, or just blanks
Receive ==
  /\ pc = "receive"
  /\ trickle' = FALSE
  /\ \E n \in 0 .. BufSize :
       /\ n = 0 => trickle
       /\ received + n <= Len(stream)
       /\ received' = received + n
       /\ buffer' = buffer \o SubSeq(stream, received + 1, received + n)
  /\ IF Contains(buffer', NL)
     THEN /\ header' = SubSeq(buffer', 1, Newline(buffer'))
          /\ extra' = AfterLine(buffer')
          /\ pc' = "parse"
     ELSE UNCHANGED <<header, extra, pc>>
  /\ UNCHANGED <<stream, peer, errorMessage, replies, admitted>>

\* Fault: recv's 0 at the end of the stream is taken for data.
FaultyReceiveFails ==
  /\ pc = "receive" /\ received < Len(stream)
  /\ errorMessage' = "Failed to receive request header"
  /\ pc' = "reject"
  /\ UNCHANGED <<stream, received, trickle, peer, buffer, header, extra, replies,
                 admitted>>

\* recv returns 0 or -1: end of the stream, timeout, interrupt or reset.
ReceiveFails ==
  /\ pc = "receive"
  /\ errorMessage' = "Failed to receive request header"
  /\ pc' = "reject"
  /\ UNCHANGED <<stream, received, trickle, peer, buffer, header, extra, replies,
                 admitted>>

-----------------------------------------------------------------------------
(* parseRequest.                                                           *)

Token(line, k) == IF k \in DOMAIN line /\ line[k] # NL THEN line[k] ELSE Empty

Type(line) == IF Token(line, 1) = Empty THEN Empty ELSE ToUpper[Token(line, 1)]
FileName(line) == Token(line, 2)
ByteCount(line) == Token(line, 3)
NamesFile(line) == Type(line) \in {"GET", "PUT"}

ValidFileName(name) == name \notin {"..", "a/b"}

Thrown == "std::out_of_range"    \* by stoull; nobody catches it

\* Fault: a PUT line may have more words.
FaultyExtraForbidden(line) == Type(line) \in {"GET", "HEALTH"}

\* every type ends with the test of a fourth word
ExtraForbidden(line) == Type(line) \in {"GET", "PUT", "HEALTH"}

\* Fault: the test for digits is left to stoull.
FaultyOnlyDigits(word) == TRUE

OnlyDigits(word) == word \in Digits

\* The tests in the order of the code, with what each one answers.
Tests(line) == LET type == Type(line) IN <<
  <<type = Empty,                                        "Malformed request">>,
  <<type \notin {"GET", "PUT", "HEALTH"},                "Unknown request type">>,
  <<NamesFile(line) /\ FileName(line) = Empty,           "Missing filename">>,
  <<NamesFile(line) /\ ~ValidFileName(FileName(line)),   "Invalid filename">>,
  <<type = "GET" /\ ByteCount(line) # Empty,             "Malformed request">>,
  <<type = "PUT" /\ ByteCount(line) = Empty,             "Missing byte count">>,
  <<type = "PUT" /\ ~OnlyDigits(ByteCount(line)),        "Invalid byte count">>,
  <<type = "PUT" /\ ByteCount(line) # "7",               Thrown>>,
  <<type = "HEALTH" /\ (FileName(line) # Empty \/ ByteCount(line) # Empty),
                                                         "Malformed request">>,
  <<ExtraForbidden(line) /\ Token(line, 4) # Empty,      "Malformed request">> >>

\* what parseRequest returns: the first test that applies, Empty if none does
ParseRequest(line) ==
  LET tests == Tests(line)
      failing == {i \in DOMAIN tests : tests[i][1]}
  IN  IF failing = {} THEN Empty ELSE tests[Min(failing)][2]

Parse ==
  /\ pc = "parse"
  /\ errorMessage' = ParseRequest(header)
  /\ pc' = CASE errorMessage' = Thrown -> "killed"
             [] errorMessage' = Empty -> IF Type(header) = "HEALTH" THEN "health" ELSE "admit"
             [] OTHER -> "reject"
  /\ UNCHANGED <<stream, received, trickle, peer, buffer, header, extra, replies,
                 admitted>>

-----------------------------------------------------------------------------
(* parserThreadFunc.                                                       *)

\* One send on the connection, and close.  If the client has left, the send may
\* be accepted, fail, or kill the process with SIGPIPE.
SendAndClose(reply) ==
  /\ \/ replies' = Append(replies, reply) /\ pc' = "closed"
     \/ peer = "gone" /\ pc' \in {"closed", "killed"} /\ UNCHANGED replies
  /\ UNCHANGED <<stream, received, trickle, peer, buffer, header, extra,
                 errorMessage, admitted>>

\* sendErrorResponse and close
Reject == pc = "reject" /\ SendAndClose(errorMessage)

\* serveHealthRequestImmediately
AnswerHealth == pc = "health" /\ SendAndClose("OK")

\* getAdmittedRequestTotalBytesToTransfer and enqueueAdmittedRequest; the file is
\* what it is at the time of stat
Admit ==
  /\ pc = "admit"
  /\ \E size \in IF Type(header) = "GET" THEN FileSizes \cup {NoFile} ELSE {7} :
       IF size = NoFile
       THEN errorMessage' = "file does not exist" /\ pc' = "reject" /\ UNCHANGED admitted
       ELSE /\ admitted' = [type |-> Type(header), fileName |-> FileName(header),
                            total |-> size]
            /\ pc' = "queued" /\ UNCHANGED errorMessage
  /\ UNCHANGED <<stream, received, trickle, peer, buffer, header, extra, replies>>

PeerLeaves ==
  /\ peer = "there" /\ peer' = "gone"
  /\ UNCHANGED <<stream, received, trickle, pc, buffer, header, extra,
                 errorMessage, replies, admitted>>

\* The client sends blanks before a receive times out.
PeerTrickles ==
  /\ peer = "there" /\ pc = "receive" /\ trickle' = TRUE
  /\ UNCHANGED <<stream, received, peer, pc, buffer, header, extra, errorMessage,
                 replies, admitted>>

ParserStep == Receive \/ ReceiveFails \/ Parse \/ Reject \/ AnswerHealth \/ Admit
Next == ParserStep \/ PeerLeaves \/ PeerTrickles
Spec == Init /\ [][Next]_vars

\* The parser's calls return, each recv after its timeout at the latest.
FairSpec == Spec /\ WF_vars(ParserStep)

-----------------------------------------------------------------------------
Ended == pc \in {"closed", "queued", "killed"}

\* However recv cuts up the stream, the parser sees the first line and hands on
\* every byte that came after it, once and in order: RequestService starts with
\* this extra.
FramingExact ==
  /\ buffer = SubSeq(stream, 1, received)
  /\ pc = "queued" =>
       /\ header \o extra = SubSeq(stream, 1, received)
       /\ header # <<>> /\ \A i \in DOMAIN header : header[i] = NL <=> i = Len(header)

\* The language of header lines.
Verb(w, verb) == ToUpper[w] = verb
GetLine(w) == Len(w) = 2 /\ Verb(w[1], "GET") /\ w[2] \notin {"..", "a/b"}
PutLine(w) ==
  Len(w) = 3 /\ Verb(w[1], "PUT") /\ w[2] \notin {"..", "a/b"} /\ w[3] \in Digits
HealthLine(w) == w = <<"HEALTH">>

\* A connection is admitted, answered OK or rejected as the words of its line
\* say, whatever follows the line and however it arrives: exactly the lines GET
\* name, PUT name count and HEALTH are served, a name that is also a verb or a
\* number included, and each of them gets one reply, now or from a worker.
DecisionRight ==
  LET w == Front(header) IN
  Ended /\ header # <<>> /\ pc # "killed" =>
    /\ pc = "queued" =>
         /\ replies = <<>>
         /\ \/ GetLine(w) /\ admitted.type = "GET"
            \/ PutLine(w) /\ admitted.type = "PUT" /\ admitted.total = 7
         /\ admitted.fileName = w[2]
    /\ pc = "closed" =>
         /\ Len(replies) <= 1 /\ (peer = "there" => Len(replies) = 1)
         /\ HealthLine(w) <=> errorMessage = Empty
         /\ replies # <<>> => (replies = <<"OK">> <=> HealthLine(w))
         /\ ~PutLine(w)
         /\ GetLine(w) => errorMessage = "file does not exist"

\* The process outlives every connection but two: one that leaves while it is
\* answered, and a well-formed PUT of more bytes than 64 bits can count.
ProcessSurvives ==
  pc = "killed" =>
    \/ peer = "gone"
    \/ LET w == Front(header) IN
         Len(w) >= 3 /\ PutLine(SubSeq(w, 1, 3)) /\ w[3] = Huge

\* The parser, which reads for everybody, comes back from every connection,
\* whether its line ever ends or not, unless the client keeps sending for ever.
IntakeEnds == <>Ended \/ []<>trickle

\* What the README says the receive timeout is for: a slow client does not keep
\* the parser from the others.  The timeout is per recv, and a client that sends
\* a blank before each one expires does.
ParserComesBack == <>Ended
=============================================================================
