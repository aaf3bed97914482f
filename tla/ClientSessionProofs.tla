------------------------ MODULE ClientSessionProofs ------------------------
(***************************************************************************)
(* Proofs about one put or get of build/client and the server at the other *)
(* end, for files and bodies of every size, every policy, quantum, packet  *)
(* limit and window, and any number of rounds.  What RequestServiceProofs  *)
(* shows of the server's rounds holds in a session, too; on it rest the    *)
(* two invariants that follow a get and a put from both ends.              *)
(***************************************************************************)
EXTENDS ClientSession, RequestServiceProofs

-----------------------------------------------------------------------------
(* The service in a session.                                               *)

\* A step of the client leaves the server's invariants alone: none of them looks
\* at the client's end but to say that peer has its type.
LEMMA ClientLeaves ==
  ASSUME ServiceInv, ClientOnly, peer' \in {peer, "gone"}
  PROVE  ServiceInv'
<1>1. UNCHANGED <<job, disk, stored, changes, socket, consumed, replies, body, pc,
                  rounds, transferred, deficit, responseStarted, forfeited, extra,
                  quantumRemaining, firstLine, position, batch, linesInBatch,
                  overruns>>
  BY DEF ClientOnly, request, locals
<1>2. /\ (Get' <=> Get) /\ (Put' <=> Put) /\ (Preemptive' <=> Preemptive)
      /\ (rr' <=> rr) /\ (drr' <=> drr)
  BY <1>1 DEF Get, Put, Preemptive, rr, drr
<1>3. TypeOK'
  BY <1>1 DEF ServiceInv, TypeOK
<1>4. HandOverInv'
  <2>1. HandOver' /\ Sockets'
    BY <1>1, <1>2 DEF ServiceInv, HandOverInv, HandOver, Sockets, Intact
  <2>2. Sides' /\ GetProgress' /\ PutProgress'
    BY <1>1, <1>2 DEF ServiceInv, HandOverInv, Sides, GetProgress, PutProgress
  <2>3. QED
    BY <2>1, <2>2 DEF HandOverInv
<1>5. AccountsInv'
  <2>1. RoundRobinInv'
    BY <1>1, <1>2 DEF ServiceInv, AccountsInv, RoundRobinInv, Balanced, Allowance
  <2>2. LineLength(transferred)' = LineLength(transferred)
    BY <1>1 DEF LineLength
  <2>3. DeficitInv'
    BY <1>1, <1>2, <2>2 DEF ServiceInv, AccountsInv, DeficitInv, Allowance
  <2>4. QED
    BY <2>1, <2>3 DEF AccountsInv
<1>6. BodyInv' /\ PacketInv'
  <2>1. \A n : LineEnd(n)' <=> LineEnd(n)
    BY <1>1 DEF LineEnd
  <2>2. EndsIn(batch)' = EndsIn(batch)
    BY <1>1, <2>1 DEF EndsIn
  <2>3. QED
    BY <1>1, <1>2, <2>1, <2>2 DEF ServiceInv, BodyInv, PacketInv
<1>7. UploadInv'
  <2>1. Receiving' <=> Receiving
    BY <1>1, <1>2 DEF Receiving, Credit
  <2>2. QED
    BY <1>1, <1>2, <2>1 DEF ServiceInv, UploadInv
<1>8. RepliesInv'
  BY <1>1, <1>2 DEF ServiceInv, RepliesInv
<1>9. QED
  BY <1>3, <1>4, <1>5, <1>6, <1>7, <1>8 DEF ServiceInv

\* A client either stays or closes its socket.
LEMMA ClientMoves ==
  ASSUME ClientStep
  PROVE  ClientOnly /\ peer' \in {peer, "gone"}
BY DEF ClientStep, ReadStatus, ReadBody, SaveBody, SendBody, BodySent, ReadFinal,
       ClientReadFails, Returns

LEMMA SessionService == ServiceInv /\ [SessionNext]_sessionVars => ServiceInv'
<1> SUFFICES ASSUME ServiceInv, [SessionNext]_sessionVars PROVE ServiceInv'
  OBVIOUS
<1>1. CASE ServerStep \/ FileStep
  BY <1>1, NextService DEF ServerStep, FileStep, Next
<1>2. CASE ClientStep
  BY <1>2, ClientMoves, ClientLeaves
<1>3. CASE UNCHANGED sessionVars
  BY <1>3, NextService DEF sessionVars
<1>4. QED
  BY <1>1, <1>2, <1>3 DEF SessionNext

LEMMA AlwaysServed == SessionSpec => []ServiceInv
<1>1. SessionInit => ServiceInv
  BY InitService DEF SessionInit
<1>2. QED
  BY <1>1, SessionService, PTL DEF SessionSpec

\* Whatever the client at the other end does and however much TCP takes, the
\* server keeps what it promises of its rounds.
THEOREM SessionKeepsPromises ==
  SessionSpec => [](/\ HandOver /\ BodyIsWholeLines /\ PacketsWithinLimit
                    /\ RoundRobinAccounts /\ DeficitAccounts
                    /\ UploadStored /\ CompletedIsAnswered)
BY AlwaysServed, ServicePromises, PTL

-----------------------------------------------------------------------------
(* The two ends of a session.                                              *)

\* Neither end nor the disk gives up first.
Reliable == job.peerReliable /\ job.diskReliable

Returned == {"succeeded", "unsaved", "failed", "killed"}

\* The server has taken no more than the client sent, and the client no longer
\* reads exactly when it has returned.
SessionTypes ==
  /\ program \in {"client", "other"}
  /\ clientPc \in {"absent", "status", "body", "upload", "final"} \cup Returned
  /\ program = "other" <=> clientPc = "absent"
  /\ peer = IF clientPc \in Returned THEN "gone" ELSE "reading"
  /\ sent \in Nat /\ consumed <= sent /\ sent <= job.stream
  /\ PeerReliable => job.peerReliable

\* The server of a GET of a file nobody changes.  It fails with something left to
\* send, or without an answer, or because the disk fails it; and it is killed only
\* when a failing disk makes it tell the client of an empty file so.
GetServed ==
  (Get /\ Stable) =>
    /\ job.stream = 0
    /\ disk.size < job.total => ~job.diskReliable
    /\ replies \in {<<>>, <<"OK">>, <<"OK", "ERR">>}
    /\ replies = <<"OK", "ERR">> => pc = "failed" /\ ~job.diskReliable
    /\ Len(body) <= job.total
    /\ pc \in {"queued", "status", "open"} => Len(body) < job.total \/ job.total = 0
    /\ pc \in {"failed", "killed"} =>
         \/ Len(body) < job.total \/ replies = <<>>
         \/ job.total = 0 /\ ~job.diskReliable
    /\ pc = "killed" => job.total = 0 /\ ~job.diskReliable

\* the client has what comes after the first answer, up to what it has read
ReadSoFar ==
  /\ download \in Seq(Int) /\ Len(download) = got - 1
  /\ \A i \in 1 .. got - 1 : download[i] = Wire[i + 1]

\* It has the file, all of it, or some of it and the text of an ERR line.
Saved ==
  \/ Len(body) = job.total /\ replies # <<>> /\ download = Numbers(0, job.total)
  \/ ErrorSaved /\ replies = <<"OK", "ERR">>

\* Its client has what was on the wire and leaves when it has all it asked for, or
\* when the server has closed the connection without completing the request.
GetTalk ==
  (Get /\ Stable) =>
    /\ clientPc \in {"absent", "status", "body", "succeeded", "unsaved", "failed"}
    /\ clientPc = "status" => got = 0 /\ download = <<>>
    /\ clientPc = "body" =>
         /\ replies # <<>> /\ got \in Nat \ {0} /\ got <= Len(Wire)
         /\ got - 1 <= job.total /\ ReadSoFar
    /\ clientPc \in {"succeeded", "unsaved"} => Saved
    /\ clientPc = "failed" => socket = "closed" /\ pc # "done"

\* A PUT that nobody disturbs: the client waits for the answer that the server
\* has yet to send, and returns only when the server has finished, with the
\* outcome the server's last answer names.
PutTalk ==
  (Put /\ Stable) =>
    /\ body = <<>>
    /\ replies \in {<<>>, <<"OK">>, <<"OK", "OK">>, <<"OK", "ERR">>}
    /\ replies = <<"OK", "ERR">> => pc = "failed"
    /\ transferred <= consumed
    /\ pc = "done" => transferred >= job.total
    /\ pc # "killed"
    /\ pc = "failed" /\ Reliable => consumed = job.stream
    /\ peer = "gone" => Over
    /\ clientPc \notin {"body", "unsaved"}
    /\ clientPc = "status" => got = 0
    /\ clientPc \in {"upload", "final"} => got = 1 /\ replies # <<>>
    /\ clientPc = "succeeded" => replies = <<"OK", "OK">>
    /\ clientPc \in {"failed", "killed"} /\ job.stream <= job.total =>
         pc = "failed"
    /\ clientPc = "killed" /\ Reliable => job.stream > job.total

SessionInv == SessionTypes /\ GetServed /\ GetTalk /\ PutTalk

\* The lists of answers differ.
LEMMA AnswersDiffer ==
  /\ <<>> # <<"OK">> /\ <<>> # <<"OK", "OK">> /\ <<>> # <<"OK", "ERR">>
  /\ <<"OK">> # <<"OK", "OK">> /\ <<"OK">> # <<"OK", "ERR">>
  /\ <<"OK", "OK">> # <<"OK", "ERR">>
  /\ Append(<<>>, "OK") = <<"OK">> /\ Append(<<"OK">>, "OK") = <<"OK", "OK">>
  /\ Append(<<"OK">>, "ERR") = <<"OK", "ERR">>
<1>1. Len(<<>>) = 0 /\ Len(<<"OK">>) = 1 /\ Len(<<"OK", "OK">>) = 2
      /\ Len(<<"OK", "ERR">>) = 2
  OBVIOUS
<1>2. <<"OK", "OK">>[2] = "OK" /\ <<"OK", "ERR">>[2] = "ERR"
  OBVIOUS
<1>3. Append(<<"OK">>, "ERR") = <<"OK", "ERR">>
  <2> DEFINE a == Append(<<"OK">>, "ERR")
             S == {"OK", "ERR"}
  <2>1. "ERR" \in S /\ <<"OK">> \in Seq(S) /\ <<"OK", "ERR">> \in Seq(S)
    OBVIOUS
  <2>2. a[1] = "OK" /\ a[2] = "ERR" /\ <<"OK", "ERR">>[1] = "OK"
        /\ <<"OK", "ERR">>[2] = "ERR"
    OBVIOUS
  <2>3. a \in Seq(S) /\ Len(a) = 2
    OBVIOUS
  <2> HIDE DEF a, S
  <2>4. \A i \in 1 .. Len(a) : a[i] = <<"OK", "ERR">>[i]
    BY <2>2, <2>3
  <2>5. a = <<"OK", "ERR">>
    BY <1>1, <2>1, <2>3, <2>4, SeqEqual
  <2>6. QED
    BY <2>5 DEF a
<1>4. QED
  BY <1>1, <1>2, <1>3, Answers

\* The status lines of the answers sent.
LEMMA LinesOf ==
  /\ Lines(<<>>) = <<>> /\ Lines(<<"OK">>) = <<OkLine>>
  /\ Lines(<<"OK", "OK">>) = <<OkLine, OkLine>>
  /\ Lines(<<"OK", "ERR">>) = <<OkLine, ErrLine>>
BY DEF Lines

\* the length of the ERR line that follows the bytes of a get, if there is one
ErrorLength == IF replies = <<"OK", "ERR">> THEN ErrorBytes ELSE 0

\* What the client of a get finds on the wire.
GetWire ==
  /\ replies = <<>> => Wire = <<>>
  /\ replies \in {<<"OK">>, <<"OK", "ERR">>} =>
       /\ Wire \in Seq(Int) /\ Len(Wire) = 1 + Len(body) + ErrorLength
       /\ Wire[1] = OkLine
       /\ \A i \in 1 .. Len(body) : Wire[i + 1] = body[i]
       /\ \A i \in Len(body) + 1 .. Len(body) + ErrorLength : Wire[i + 1] = ErrLine

LEMMA WireOfGet == TypeOK /\ Get => GetWire
<1> SUFFICES ASSUME TypeOK, Get PROVE GetWire
  OBVIOUS
<1>1. body \in Seq(Int) /\ Len(body) \in Nat
  BY SMTT(30) DEF TypeOK
<1>2. replies = <<>> => Wire = <<>>
  BY LinesOf DEF Wire
<1> DEFINE front == <<OkLine>> \o body
           text == ErrorText(ErrorLength)
<1>3. /\ front \in Seq(Int) /\ Len(front) = 1 + Len(body) /\ front[1] = OkLine
      /\ \A i \in 1 .. Len(body) : front[i + 1] = body[i]
  <2> DEFINE ok == <<OkLine>>
  <2>1. ok \in Seq(Int) /\ Len(ok) = 1 /\ ok[1] = OkLine
    BY DEF OkLine
  <2> HIDE DEF ok
  <2> DEFINE all == ok \o body
  <2>2. /\ all \in Seq(Int) /\ Len(all) = 1 + Len(body)
        /\ \A i \in 1 .. 1 + Len(body) :
             all[i] = IF i <= 1 THEN ok[i] ELSE body[i - 1]
    <3>1. /\ all \in Seq(Int) /\ Len(all) = Len(ok) + Len(body)
          /\ \A i \in 1 .. Len(ok) + Len(body) :
               all[i] = IF i <= Len(ok) THEN ok[i] ELSE body[i - Len(ok)]
      BY <1>1, <2>1, ConcatProperties, Zenon
    <3> HIDE DEF all
    <3>2. QED
      BY <2>1, <3>1, Zenon
  <2> HIDE DEF all
  <2>3. all[1] = OkLine
    BY <1>1, <2>1, <2>2
  <2>4. ASSUME NEW i \in 1 .. Len(body) PROVE all[i + 1] = body[i]
    <3>1. i + 1 \in 1 .. 1 + Len(body) /\ ~(i + 1 <= 1) /\ (i + 1) - 1 = i
      BY <1>1
    <3>2. QED
      BY <2>2, <3>1
  <2>5. QED
    BY <2>2, <2>3, <2>4, Zenon DEF ok, all
<1>4. ErrorLength \in Nat
  BY SessionAssumption DEF ErrorLength, SessionAssumption
<1>5. /\ text \in Seq(Int) /\ Len(text) = ErrorLength
      /\ \A i \in 1 .. ErrorLength : text[i] = ErrLine
  BY <1>4 DEF ErrorText, ErrLine
<1>6. ASSUME replies \in {<<"OK">>, <<"OK", "ERR">>}
      PROVE  Wire = front \o text
  <2>1. CASE replies = <<"OK">>
    <3>1. Lines(replies) = <<OkLine>> /\ Len(<<OkLine>>) = 1 /\ <<OkLine>> # <<>>
      BY <2>1, LinesOf
    <3>2. Wire = <<Head(<<OkLine>>)>> \o body \o Tail(<<OkLine>>)
      BY <3>1 DEF Wire
    <3>3. Head(<<OkLine>>) = OkLine /\ Tail(<<OkLine>>) = <<>>
      OBVIOUS
    <3>4. ErrorLength = 0
      BY <2>1, AnswersDiffer DEF ErrorLength
    <3>5. text = <<>>
      BY <1>5, <3>4, EmptySeq
    <3>6. QED
      BY <3>2, <3>3, <3>5
  <2>2. CASE replies = <<"OK", "ERR">>
    <3> DEFINE ls == <<OkLine, ErrLine>>
    <3>1. Lines(replies) = ls /\ Len(ls) > 1 /\ ls # <<>> /\ Head(ls) = OkLine
      BY <2>2, LinesOf
    <3> HIDE DEF ls
    <3>2. Wire = <<Head(ls)>> \o body \o ErrorText(ErrorBytes)
      BY <3>1 DEF Wire
    <3>3. ErrorLength = ErrorBytes
      BY <2>2 DEF ErrorLength
    <3>4. QED
      BY <3>1, <3>2, <3>3
  <2>3. QED
    BY <1>6, <2>1, <2>2
<1> HIDE DEF front, text
<1>7. /\ front \o text \in Seq(Int)
      /\ Len(front \o text) = 1 + Len(body) + ErrorLength
      /\ \A i \in 1 .. 1 + Len(body) : (front \o text)[i] = front[i]
      /\ \A i \in 1 .. ErrorLength : (front \o text)[1 + Len(body) + i] = text[i]
  <2> DEFINE m == 1 + Len(body)
  <2>1. m \in Nat /\ Len(front) = m /\ Len(text) = ErrorLength
        /\ front \in Seq(Int) /\ text \in Seq(Int)
    BY <1>1, <1>3, <1>5
  <2> HIDE DEF m
  <2>2. /\ front \o text \in Seq(Int) /\ Len(front \o text) = m + ErrorLength
        /\ \A i \in 1 .. m : (front \o text)[i] = front[i]
        /\ \A i \in 1 .. ErrorLength : (front \o text)[m + i] = text[i]
    <3>1. /\ front \o text \in Seq(Int) /\ Len(front \o text) = m + ErrorLength
          /\ \A i \in 1 .. m + ErrorLength :
               (front \o text)[i] = IF i <= m THEN front[i] ELSE text[i - m]
      BY <2>1, ConcatProperties
    <3>2. \A i \in 1 .. m : i \in 1 .. m + ErrorLength /\ i <= m
      BY <1>4, <2>1
    <3>3. \A i \in 1 .. ErrorLength :
            m + i \in 1 .. m + ErrorLength /\ ~(m + i <= m) /\ (m + i) - m = i
      BY <1>4, <2>1
    <3>4. QED
      BY <3>1, <3>2, <3>3
  <2>3. QED
    BY <2>2 DEF m
<1>8. \A i \in Len(body) + 1 .. Len(body) + ErrorLength :
        (front \o text)[i + 1] = ErrLine
  <2> SUFFICES ASSUME NEW i \in Len(body) + 1 .. Len(body) + ErrorLength
               PROVE  (front \o text)[i + 1] = ErrLine
    OBVIOUS
  <2>1. i - Len(body) \in 1 .. ErrorLength /\ 1 + Len(body) + (i - Len(body)) = i + 1
    BY <1>1, <1>4
  <2>2. QED
    BY <1>5, <1>7, <2>1
<1>9. /\ (front \o text)[1] = OkLine
      /\ \A i \in 1 .. Len(body) : (front \o text)[i + 1] = body[i]
  <2>1. 1 \in 1 .. 1 + Len(body)
        /\ \A i \in 1 .. Len(body) : i + 1 \in 1 .. 1 + Len(body)
    BY <1>1
  <2>2. QED
    BY <1>3, <1>7, <2>1
<1>10. QED
  BY <1>2, <1>6, <1>7, <1>8, <1>9 DEF GetWire

LEMMA WireOfGetNext == (TypeOK /\ Get)' => GetWire'
BY WireOfGet, PTL

\* Without file bytes between them, the lines on the wire are the answers.
LEMMA LinesOnly ==
  ASSUME NEW ls \in Seq(Int), ls # <<>>
  PROVE  <<Head(ls)>> \o <<>> \o Tail(ls) = ls
<1> DEFINE h == <<Head(ls)>>
<1>1. h \in Seq(Int) /\ Tail(ls) \in Seq(Int)
  OBVIOUS
<1>2. h \o <<>> = h
  BY <1>1, ConcatEmptySeq
<1>3. h \o Tail(ls) = ls
  OBVIOUS
<1>4. QED
  BY <1>2, <1>3

LEMMA WireOfPut ==
  ASSUME body = <<>>, ~Get
  PROVE  /\ replies = <<>> => Wire = <<>>
         /\ replies = <<"OK">> => Wire = <<OkLine>>
         /\ replies = <<"OK", "OK">> => Wire = <<OkLine, OkLine>>
         /\ replies = <<"OK", "ERR">> => Wire = <<OkLine, ErrLine>>
<1>1. /\ <<OkLine>> \in Seq(Int) /\ <<OkLine>> # <<>>
      /\ <<OkLine, OkLine>> \in Seq(Int) /\ <<OkLine, OkLine>> # <<>>
      /\ <<OkLine, ErrLine>> \in Seq(Int) /\ <<OkLine, ErrLine>> # <<>>
  BY DEF OkLine, ErrLine
<1>2. ASSUME NEW ls \in Seq(Int), ls # <<>>, Lines(replies) = ls
      PROVE  Wire = ls
  <2>1. Wire = <<Head(ls)>> \o <<>> \o Tail(ls)
    BY <1>2 DEF Wire
  <2>2. QED
    BY <2>1, <1>2, LinesOnly
<1>3. replies = <<>> => Wire = <<>>
  BY LinesOf DEF Wire
<1>4. QED
  BY <1>1, <1>2, <1>3, LinesOf

-----------------------------------------------------------------------------
(* What a step of the server says.                                         *)

\* No step of the server changes the job, the count of changes or the other end,
\* or gives bytes back.
LEMMA ServeKeeps ==
  ASSUME TypeOK, Serve
  PROVE  /\ UNCHANGED <<job, disk, changes, peer>>
         /\ consumed \in Nat /\ consumed' \in Nat /\ consumed <= consumed'
<1>1. consumed \in Nat
  BY Naturals
<1>2. CASE Receive
  <2>1. PICK n \in Nat \ {0} : consumed' = consumed + n
    BY <1>2, Receives
  <2>2. UNCHANGED <<job, disk, changes, peer>>
    BY <1>2, Receives
  <2>3. QED
    BY <1>1, <2>1, <2>2
<1>3. CASE ~Receive
  <2>1. UNCHANGED <<job, disk, changes, peer, consumed>>
    BY <1>3 DEF Serve, BeginRound, SendStatus, GetStep, OpenGet, LineTaken,
                LineOverruns, LineForfeits, LoopEnds, ReadFails, SendBatch,
                FinishGet, PutStep, OpenPut, TakeExtra, ReceiveFails,
                PutRoundEnds, SendFinalOk, Rejects, SendFails, PacketCut
  <2>2. QED
    BY <1>1, <2>1
<1>4. QED
  BY <1>2, <1>3

\* A GET of a file nobody changes reads on where it stopped; what is sent is part
\* of the file, and a packet with something in it is never the end of it.
LEMMA GetFacts ==
  ASSUME ServiceInv, Get, Stable
  PROVE  /\ Len(body) \in Nat /\ job.total \in Nat /\ disk.size \in Nat
         /\ transferred \in Nat /\ position \in Nat
         /\ transferred <= disk.size /\ disk.size <= job.total
         /\ body = Numbers(0, Len(body))
         /\ pc \in {"queued", "status", "open", "done"} => Len(body) = transferred
         /\ pc = "done" => transferred = job.total
         /\ pc \in {"loop", "send", "flush"} =>
              /\ position = transferred /\ Len(body) <= transferred
              /\ Len(batch) \in Nat /\ Len(body) + Len(batch) = transferred
              /\ batch # <<>> => Len(batch) > 0
<1>1. /\ TypeOK /\ HandOverInv /\ BodyInv /\ changes = 0
  BY DEF ServiceInv, Stable
<1>2. /\ Len(body) \in Nat /\ job.total \in Nat /\ disk.size \in Nat
      /\ transferred \in Nat /\ position \in Nat
  BY <1>1, Naturals, LenProperties DEF TypeOK
<1>3. /\ transferred <= disk.size /\ disk.size <= job.total
      /\ pc \in {"loop", "send", "flush"} => position = transferred
  BY <1>1 DEF HandOverInv, GetProgress
<1>4. /\ body = Numbers(0, Len(body))
      /\ pc \in {"queued", "status", "open", "done"} => Len(body) = transferred
      /\ pc = "done" => transferred = job.total
      /\ pc \in {"loop", "send", "flush"} =>
           Len(body) <= position /\ batch = Numbers(Len(body), position - Len(body))
  BY <1>1 DEF BodyInv
<1>5. ASSUME pc \in {"loop", "send", "flush"}
      PROVE  /\ Len(batch) \in Nat /\ Len(body) + Len(batch) = transferred
             /\ batch # <<>> => Len(batch) > 0
  <2> DEFINE d == position - Len(body)
  <2>1. d \in Nat /\ batch = Numbers(Len(body), d) /\ Len(body) + d = transferred
    BY <1>2, <1>3, <1>4, <1>5
  <2> HIDE DEF d
  <2>2. Len(batch) = d /\ (batch = <<>> <=> d = 0)
    BY <1>2, <2>1, NumbersType, NumbersNone
  <2>3. QED
    BY <2>1, <2>2
<1>6. QED
  BY <1>2, <1>3, <1>4, <1>5

\* A step of the server of such a GET.
LEMMA GetServes ==
  ASSUME ServiceInv, SessionTypes, GetServed, GetTalk, Get, Stable, Serve
  PROVE  /\ GetServed'
         /\ replies # <<"OK", "ERR">>
         /\ \/ replies' = replies
            \/ replies = <<>> /\ replies' = <<"OK">>
            \/ replies = <<"OK">> /\ replies' = <<"OK", "ERR">> /\ body' = body
         /\ \/ body' = body
            \/ /\ \E s \in Seq(Nat) : body' = body \o s
               /\ replies = <<"OK">> /\ replies' = replies
               /\ clientPc \notin Returned
         /\ socket = "closed" => socket' = "closed" /\ pc' # "done"
<1>1. /\ TypeOK /\ HandOverInv /\ BodyInv /\ RepliesInv /\ changes = 0
      /\ ~Put
  BY DEF ServiceInv, Stable, Get, Put
<1>2. UNCHANGED <<job, disk, changes, peer>> /\ Get' /\ Stable'
  BY <1>1, ServeKeeps DEF Get, Stable
<1>3. /\ Len(body) \in Nat /\ job.total \in Nat /\ disk.size \in Nat
      /\ transferred \in Nat /\ position \in Nat
      /\ transferred <= disk.size /\ disk.size <= job.total
      /\ pc \in {"queued", "status", "open", "done"} => Len(body) = transferred
      /\ pc \in {"loop", "send", "flush"} =>
           /\ position = transferred /\ Len(body) <= transferred
           /\ Len(batch) \in Nat /\ Len(body) + Len(batch) = transferred
           /\ batch # <<>> => Len(batch) > 0
  BY GetFacts
<1>4. ~Over
  BY DEF Over, Serve, BeginRound, SendStatus, GetStep, OpenGet, LineTaken, Reading,
         LineOverruns, LineForfeits, LoopEnds, ReadFails, SendBatch, FinishGet,
         PutStep, OpenPut, TakeExtra, Receive, Receiving, ReceiveFails,
         PutRoundEnds, SendFinalOk
<1>5. /\ job.stream = 0 /\ (disk.size < job.total => ~job.diskReliable)
      /\ replies \in {<<>>, <<"OK">>} /\ replies # <<"OK", "ERR">>
      /\ Len(body) <= job.total
      /\ pc \in {"queued", "status", "open"} => Len(body) < job.total \/ job.total = 0
  BY <1>4, AnswersDiffer DEF GetServed, Over
\* a client that has left a server which is not over has the whole file
<1>6. socket = "open" /\ clientPc \in Returned =>
        Len(body) = job.total /\ replies = <<"OK">>
  BY <1>5 DEF GetTalk, Saved, Returned
<1>7. /\ peer \in {"reading", "gone"} /\ (peer = "gone" <=> clientPc \in Returned)
  BY DEF SessionTypes
<1>8. /\ pc \in {"open", "loop", "send", "flush"} => socket = "open" /\ replies = <<"OK">>
      /\ pc = "status" /\ socket = "open" => replies = <<>>
      /\ pc \in {"queued", "status"} /\ socket # "open" => ~Preemptive /\ ~Intact
  BY <1>1 DEF HandOverInv, Sockets, RepliesInv
<1>9. pc \in {"queued", "status"} /\ socket = "closed" => Len(body) < job.total
  BY <1>1, <1>2, <1>3, <1>8 DEF Intact
\* Steps that neither fail nor send.
<1>10. ASSUME UNCHANGED <<replies, body>>,
              pc' \notin {"failed", "killed"},
              pc' \in {"queued", "status", "open"} =>
                Len(body) < job.total \/ job.total = 0
       PROVE  GetServed'
  BY <1>2, <1>5, <1>10 DEF GetServed
\* Steps that give the request up.
<1>11. ASSUME NEW n \in Nat, SendErrs, UNCHANGED replies, Len(body') = Len(body) + n,
              \/ Len(body) + n < job.total
              \/ n = 0 /\ replies = <<>>
              \/ n = 0 /\ job.total = 0 /\ ~job.diskReliable,
              socket = "open" /\ clientPc \in Returned =>
                job.total = 0 /\ ~job.diskReliable
       PROVE  GetServed'
  <2>1. pc' \in {"failed", "killed"} /\ (pc' = "killed" => socket = "open" /\ peer = "gone")
    BY <1>11 DEF SendErrs
  <2>2. pc' = "killed" => job.total = 0 /\ ~job.diskReliable
    BY <1>7, <1>11, <2>1
  <2>3. Len(body') <= job.total
    BY <1>3, <1>5, <1>11
  <2>4. \/ Len(body') < job.total \/ replies' = <<>>
        \/ job.total = 0 /\ ~job.diskReliable
    BY <1>11
  <2>5. QED
    BY <1>2, <1>5, <1>11, <2>1, <2>2, <2>3, <2>4 DEF GetServed
<1>12. ASSUME Rejects, pc \in {"open", "loop"}, ~job.diskReliable,
              Len(body) < job.total \/ job.total = 0
       PROVE  /\ GetServed' /\ body' = body
              /\ replies' \in {replies, <<"OK", "ERR">>}
              /\ socket' = "closed" /\ pc' \in {"failed", "killed"}
  <2>1. /\ body' = body /\ socket' = "closed" /\ replies = <<"OK">>
        /\ \/ CanSend /\ pc' = "failed" /\ replies' = Append(replies, "ERR")
           \/ SendErrs /\ UNCHANGED replies
    BY <1>8, <1>12 DEF Rejects
  <2>2. CASE CanSend /\ pc' = "failed" /\ replies' = Append(replies, "ERR")
    <3>1. replies' = <<"OK", "ERR">>
      BY <2>1, <2>2, AnswersDiffer
    <3>2. QED
      BY <1>2, <1>5, <1>12, <2>1, <2>2, <3>1 DEF GetServed
  <2>3. CASE SendErrs /\ UNCHANGED replies
    <3>1. socket = "open" /\ clientPc \in Returned => job.total = 0
      BY <1>3, <1>6, <1>12
    <3>2. Len(body') = Len(body) + 0
      BY <1>3, <2>1
    <3>3. GetServed'
      <4>1. Len(body) + 0 < job.total \/ job.total = 0
        BY <1>3, <1>12
      <4>2. QED
        BY <1>11, <1>12, <2>3, <3>1, <3>2, <4>1, 0 \in Nat
    <3>4. pc' \in {"failed", "killed"}
      BY <2>3 DEF SendErrs
    <3>5. QED
      BY <2>1, <2>3, <3>3, <3>4
  <2>4. QED
    BY <2>1, <2>2, <2>3
<1>13. CASE BeginRound
  <2>1. /\ pc = "queued" /\ pc' \in {"status", "open"}
        /\ UNCHANGED <<socket, replies, body>>
    BY <1>13 DEF BeginRound
  <2>2. GetServed'
    BY <1>5, <1>10, <2>1
  <2>3. QED
    BY <1>5, <2>1, <2>2
<1>14. CASE SendStatus
  <2>1. pc = "status"
    BY <1>14 DEF SendStatus
  <2>2. CASE CanSend /\ pc' = "open" /\ replies' = Append(replies, "OK") /\ body' = body
    <3>1. socket = "open" /\ replies = <<>> /\ replies' = <<"OK">>
      BY <1>8, <2>1, <2>2, AnswersDiffer DEF CanSend
    <3>2. GetServed'
      BY <1>2, <1>5, <2>1, <2>2, <3>1, AnswersDiffer DEF GetServed
    <3>3. QED
      BY <1>5, <2>2, <3>1, <3>2
  <2>3. CASE SendFails
    <3>1. SendErrs /\ socket' = "closed" /\ UNCHANGED <<replies, body>>
      BY <2>3 DEF SendFails
    <3>2. socket = "open" => replies = <<>> /\ clientPc \notin Returned
      BY <1>6, <1>8, <2>1, AnswersDiffer
    <3>3. socket = "open" \/ Len(body) < job.total
      BY <1>1, <1>9, <2>1, Naturals
    <3>4. Len(body') = Len(body) + 0
      BY <1>3, <3>1
    <3>5. GetServed'
      <4>1. Len(body) + 0 < job.total \/ replies = <<>>
        BY <1>3, <3>2, <3>3
      <4>2. ~(socket = "open" /\ clientPc \in Returned)
        BY <3>2
      <4>3. 0 \in Nat /\ UNCHANGED replies /\ SendErrs
        BY <3>1
      <4>4. CASE Len(body) + 0 < job.total
        BY <1>11, <3>4, <4>2, <4>3, <4>4
      <4>5. CASE replies = <<>>
        BY <1>11, <3>4, <4>2, <4>3, <4>5
      <4>6. QED
        BY <4>1, <4>4, <4>5
    <3>6. pc' # "done"
      BY <3>1 DEF SendErrs
    <3>7. QED
      BY <1>5, <3>1, <3>5, <3>6
  <2>4. QED
    BY <1>14, <2>2, <2>3 DEF SendStatus
<1>15. CASE OpenGet
  <2>1. CASE Rejects
    <3>1. pc = "open" /\ ~job.diskReliable
      BY <1>1, <1>15, <2>1, FailsWhat DEF OpenGet, Fails
    <3>2. QED
      BY <1>5, <1>8, <1>12, <2>1, <3>1
  <2>2. CASE ~Rejects
    <3>1. pc' = "loop" /\ pc = "open" /\ UNCHANGED <<socket, replies, body>>
      BY <1>15, <2>2 DEF OpenGet
    <3>2. QED
      BY <1>5, <1>8, <1>10, <3>1
  <2>3. QED
    BY <2>1, <2>2
<1>16. CASE LineTaken \/ LineOverruns \/ LineForfeits \/ LoopEnds
  <2>1. /\ pc = "loop" /\ pc' \in {"send", "flush", "loop"}
        /\ UNCHANGED <<socket, replies, body>>
    BY <1>16 DEF LineTaken, LineOverruns, LineForfeits, LoopEnds, Reading
  <2>2. QED
    BY <1>5, <1>8, <1>10, <2>1
<1>17. CASE ReadFails
  <2>1. /\ pc = "loop" /\ transferred < job.total /\ LineLength(position) = 0 /\ Rejects
    BY <1>17 DEF ReadFails, Reading
  <2>2. LineLength(position) > 0 <=> position < disk.size
    BY <1>1, <1>3, Naturals, LineBounds
  <2>3. disk.size < job.total /\ Len(body) < job.total
    BY <1>3, <2>1, <2>2
  <2>4. QED
    BY <1>5, <1>8, <1>12, <2>1, <2>3
<1>18. CASE SendBatch
  <2>1. pc \in {"send", "flush"} /\ batch # <<>>
    BY <1>18 DEF SendBatch
  <2>2. /\ socket = "open" /\ replies = <<"OK">> /\ Len(batch) > 0 /\ Len(batch) \in Nat
        /\ Len(body) + Len(batch) <= job.total
    BY <1>3, <1>8, <2>1
  <2>3. clientPc \notin Returned
    BY <1>3, <1>6, <2>2
  <2>4. batch \in Seq(Nat) /\ body \in Seq(Nat)
    BY <1>1 DEF TypeOK
  <2>5. CASE PacketCut
    <3>1. /\ SendErrs /\ UNCHANGED replies
          /\ \E n \in 0 .. Len(batch) - 1 : body' = body \o SubSeq(batch, 1, n)
      BY <2>5 DEF PacketCut
    <3>2. PICK n \in 0 .. Len(batch) - 1 : body' = body \o SubSeq(batch, 1, n)
      BY <3>1
    <3>3. /\ n \in Nat /\ n <= Len(batch) /\ Len(body) + n < job.total
      BY <1>3, <2>2, <3>2
    <3>4. SubSeq(batch, 1, n) \in Seq(Nat) /\ Len(SubSeq(batch, 1, n)) = n
      BY <2>4, <3>2, <3>3, PrefixType
    <3>5. Len(body') = Len(body) + n
      BY <1>3, <2>4, <3>2, <3>4
    <3>6. GetServed'
      BY <1>11, <2>3, <3>1, <3>3, <3>5
    <3>7. QED
      BY <1>5, <2>2, <2>3, <3>1, <3>2, <3>4, <3>6
  <2>6. CASE ~PacketCut
    <3>1. /\ pc' \in {"loop", "flush"} /\ UNCHANGED replies
          /\ body' = body \o batch
      BY <1>18, <2>6 DEF SendBatch
    <3>2. Len(body') = Len(body) + Len(batch)
      BY <2>4, <3>1
    <3>3. GetServed'
      BY <1>2, <1>5, <2>2, <3>1, <3>2 DEF GetServed
    <3>4. QED
      BY <1>5, <2>2, <2>3, <2>4, <3>1, <3>3
  <2>7. QED
    BY <2>5, <2>6
<1>19. CASE FinishGet
  <2>1. /\ pc = "flush" /\ batch = <<>> /\ pc' = AfterRound
        /\ UNCHANGED <<replies, body, transferred>>
    BY <1>19 DEF FinishGet
  <2>2. pc' \in {"queued", "done"} /\ (pc' = "queued" => Len(body) < job.total)
    BY <1>3, <2>1 DEF AfterRound
  <2>3. QED
    BY <1>5, <1>8, <1>10, <2>1, <2>2
<1>20. CASE PutStep
  BY <1>1, <1>20 DEF PutStep, OpenPut, TakeExtra, Receive, Receiving, ReceiveFails,
                     PutRoundEnds, SendFinalOk, HandOverInv, Sides
<1>21. QED
  BY <1>13, <1>14, <1>15, <1>16, <1>17, <1>18, <1>19, <1>20 DEF Serve, GetStep

\* What is on the wire stays there.
LEMMA WireGrows ==
  ASSUME TypeOK, TypeOK', Get, Get', replies \in {<<"OK">>, <<"OK", "ERR">>},
         \/ replies' = replies
         \/ replies = <<"OK">> /\ replies' = <<"OK", "ERR">> /\ body' = body,
         \/ body' = body
         \/ (\E s \in Seq(Nat) : body' = body \o s) /\ replies = <<"OK">>
  PROVE  /\ Len(Wire) \in Nat /\ Len(Wire') \in Nat /\ Len(Wire) <= Len(Wire')
         /\ \A i \in 1 .. Len(Wire) : Wire'[i] = Wire[i]
<1>1. GetWire /\ GetWire'
  BY WireOfGet, WireOfGetNext
<1>2. /\ body \in Seq(Nat) /\ body' \in Seq(Nat) /\ ErrorBytes \in Nat
  BY SessionAssumption DEF TypeOK, SessionAssumption
<1>3. /\ Len(body) \in Nat /\ Len(body') \in Nat /\ Len(body) <= Len(body')
      /\ \A i \in 1 .. Len(body) : body'[i] = body[i]
  <2>1. CASE body' = body
    BY <1>2, <2>1
  <2>2. ASSUME NEW s \in Seq(Nat), body' = body \o s
        PROVE  Len(body) <= Len(body') /\ \A i \in 1 .. Len(body) : body'[i] = body[i]
    BY <1>2, <2>2
  <2>3. QED
    BY <1>2, <2>1, <2>2
<1>4. replies' \in {<<"OK">>, <<"OK", "ERR">>}
  OBVIOUS
<1>5. /\ ErrorLength \in Nat /\ ErrorLength' \in Nat /\ ErrorLength <= ErrorLength'
      /\ ErrorLength = 0 \/ body' = body
  <2>1. CASE replies = <<"OK">>
    <3>1. ErrorLength = 0
      BY <2>1, AnswersDiffer DEF ErrorLength
    <3>2. ErrorLength' \in {0, ErrorBytes}
      BY DEF ErrorLength
    <3>3. QED
      BY <1>2, <3>1, <3>2
  <2>2. CASE replies = <<"OK", "ERR">>
    <3>1. replies' = replies /\ body' = body
      BY <2>2, AnswersDiffer
    <3>2. ErrorLength = ErrorBytes /\ ErrorLength' = ErrorBytes
      BY <2>2, <3>1 DEF ErrorLength
    <3>3. QED
      BY <1>2, <3>1, <3>2
  <2>3. QED
    BY <2>1, <2>2
<1>6. /\ Len(Wire) = 1 + Len(body) + ErrorLength
      /\ Len(Wire') = 1 + Len(body') + ErrorLength'
      /\ Wire[1] = OkLine /\ Wire'[1] = OkLine
      /\ \A i \in 1 .. Len(body) : Wire[i + 1] = body[i] /\ Wire'[i + 1] = body[i]
      /\ \A i \in Len(body) + 1 .. Len(body) + ErrorLength :
           Wire[i + 1] = ErrLine /\ Wire'[i + 1] = ErrLine
  <2>1. /\ Len(Wire) = 1 + Len(body) + ErrorLength /\ Wire[1] = OkLine
        /\ \A i \in 1 .. Len(body) : Wire[i + 1] = body[i]
        /\ \A i \in Len(body) + 1 .. Len(body) + ErrorLength : Wire[i + 1] = ErrLine
    BY <1>1 DEF GetWire
  <2>2. /\ Len(Wire') = 1 + Len(body') + ErrorLength' /\ Wire'[1] = OkLine
        /\ \A i \in 1 .. Len(body') : Wire'[i + 1] = body'[i]
        /\ \A i \in Len(body') + 1 .. Len(body') + ErrorLength' : Wire'[i + 1] = ErrLine
    BY <1>1, <1>4 DEF GetWire, OkLine, ErrLine
  <2>3. \A i \in 1 .. Len(body) : Wire'[i + 1] = body[i]
    BY <1>3, <2>2
  <2>4. \A i \in Len(body) + 1 .. Len(body) + ErrorLength : Wire'[i + 1] = ErrLine
    BY <1>3, <1>5, <2>2
  <2>5. QED
    BY <2>1, <2>2, <2>3, <2>4
<1>7. ASSUME NEW i \in 1 .. Len(Wire) PROVE Wire'[i] = Wire[i]
  <2>1. CASE i = 1
    BY <1>6, <2>1
  <2>2. CASE i # 1
    <3>1. PICK j \in 1 .. Len(body) + ErrorLength : i = j + 1
      <4>1. i - 1 \in 1 .. Len(body) + ErrorLength /\ i = (i - 1) + 1
        BY <1>3, <1>5, <1>6, <2>2
      <4>2. QED
        BY <4>1
    <3>2. j \in 1 .. Len(body) \/ j \in Len(body) + 1 .. Len(body) + ErrorLength
      BY <1>3, <1>5
    <3>3. QED
      BY <1>6, <3>1, <3>2
  <2>3. QED
    BY <2>1, <2>2
<1>8. QED
  BY <1>3, <1>5, <1>6, <1>7

\* The server of a PUT nobody disturbs answers OK first; it stores what it takes,
\* and fails only with ERR, with nothing left to receive if all is reliable.
LEMMA PutServes ==
  ASSUME ServiceInv, SessionTypes, PutTalk, Put, Stable, Serve
  PROVE  /\ body' = <<>> /\ peer # "gone"
         /\ \/ replies' = replies
            \/ replies = <<>> /\ replies' = <<"OK">>
            \/ replies = <<"OK">> /\ replies' = <<"OK", "OK">>
            \/ replies = <<"OK">> /\ replies' = <<"OK", "ERR">> /\ pc' = "failed"
         /\ replies = <<"OK", "ERR">> => pc' = "failed"
         /\ transferred' <= consumed'
         /\ pc' = "done" => transferred' >= job.total
         /\ pc' # "killed"
         /\ pc' = "failed" /\ Reliable => consumed' = job.stream
<1>1. /\ TypeOK /\ HandOverInv /\ UploadInv /\ RepliesInv /\ changes = 0
      /\ body = <<>> /\ transferred <= consumed /\ ~Get
      /\ pc # "killed" /\ (replies = <<"OK", "ERR">> => pc = "failed")
  BY DEF ServiceInv, PutTalk, Stable, Get, Put
<1>2. /\ job.total \in Nat /\ transferred \in Nat /\ consumed \in Nat
      /\ Len(extra) \in Nat /\ quantumRemaining \in Nat /\ deficit \in Nat
  BY <1>1, Naturals
<1>3. ~Over
  BY DEF Over, Serve, BeginRound, SendStatus, GetStep, OpenGet, LineTaken, Reading,
         LineOverruns, LineForfeits, LoopEnds, ReadFails, SendBatch, FinishGet,
         PutStep, OpenPut, TakeExtra, Receive, Receiving, ReceiveFails,
         PutRoundEnds, SendFinalOk
<1>4. peer # "gone" /\ replies # <<"OK", "ERR">>
  BY <1>1, <1>3 DEF PutTalk, Stable, Over
<1>5. peer = "reading"
  BY <1>4 DEF SessionTypes
<1>6. pc \in {"status", "open", "loop", "extra", "finalOk"} => socket = "open"
  BY <1>1 DEF HandOverInv, Sockets
<1>7. ASSUME SendErrs, socket = "open" PROVE pc' = "failed" /\ ~job.peerReliable
  BY <1>5, <1>7 DEF SendErrs
<1>8. ASSUME SendFails, pc \in {"status", "finalOk"}
       PROVE  /\ body' = <<>> /\ transferred' <= consumed' /\ replies' = replies
              /\ pc' = "failed" /\ ~Reliable
  BY <1>1, <1>6, <1>7, <1>8 DEF SendFails, request, Reliable
<1>9. ASSUME Rejects, pc \in {"open", "loop", "extra"},
             Reliable => consumed = job.stream
      PROVE  /\ body' = <<>> /\ transferred' = transferred /\ consumed' = consumed
             /\ replies' \in {replies, <<"OK", "ERR">>} /\ pc' = "failed"
             /\ replies = <<"OK">>
  <2>1. replies = <<"OK">>
    BY <1>1, <1>9 DEF RepliesInv
  <2>2. UNCHANGED <<body, transferred, consumed>>
    BY <1>9 DEF Rejects, request
  <2>3. pc' = "failed" /\ replies' \in {replies, Append(replies, "ERR")}
    BY <1>9, <1>6, <1>7 DEF Rejects
  <2>4. QED
    BY <1>1, <2>1, <2>2, <2>3, AnswersDiffer
<1>10. ASSUME UNCHANGED <<replies, body, transferred, consumed>>,
             pc' \notin {"failed", "killed"},
             pc' = "done" => transferred >= job.total
      PROVE  /\ body' = <<>> /\ replies' = replies
             /\ transferred' <= consumed' /\ (pc' = "done" => transferred' >= job.total)
             /\ pc' \notin {"failed", "killed"}
  BY <1>1, <1>10
<1>11. CASE BeginRound
  BY <1>4, <1>10, <1>11 DEF BeginRound
<1>12. CASE SendStatus
  <2>1. pc = "status" /\ replies = <<>>
    BY <1>1, <1>12, <1>6 DEF SendStatus, RepliesInv
  <2>2. CASE SendFails
    BY <1>4, <1>8, <2>1, <2>2
  <2>3. CASE ~SendFails
    <3>1. /\ pc' = "open" /\ replies' = Append(replies, "OK")
          /\ UNCHANGED <<body, transferred, consumed>>
      BY <1>12, <2>3 DEF SendStatus
    <3>2. QED
      BY <1>1, <1>4, <2>1, <3>1, AnswersDiffer
  <2>4. QED
    BY <2>2, <2>3
<1>13. CASE GetStep
  BY <1>1, <1>13 DEF GetStep, OpenGet, LineTaken, LineOverruns, LineForfeits,
                    LoopEnds, ReadFails, Reading, SendBatch, FinishGet,
                    HandOverInv, Sides
<1>14. CASE OpenPut
  <2>1. CASE Rejects /\ ~job.diskReliable
    <3>1. pc = "open"
      BY <1>14 DEF OpenPut
    <3>2. QED
      BY <1>1, <1>4, <1>9, <2>1, <3>1 DEF Reliable
  <2>2. CASE ~(Rejects /\ ~job.diskReliable)
    <3>1. pc' = "extra" /\ UNCHANGED <<replies, body, transferred, consumed>>
      BY <1>14, <2>2 DEF OpenPut
    <3>2. QED
      BY <1>4, <1>10, <3>1
  <2>3. QED
    BY <2>1, <2>2
<1>15. CASE TakeExtra
  <2>1. CASE Rejects
    <3>1. pc = "extra" /\ pc' \in {"failed", "killed"}
      BY <1>15, <2>1, FailsWhat DEF TakeExtra, Fails
    <3>2. ~job.diskReliable
      BY <1>15, <3>1 DEF TakeExtra
    <3>3. QED
      BY <1>1, <1>4, <1>9, <2>1, <3>1, <3>2 DEF Reliable
  <2>2. CASE ~Rejects
    <3>1. /\ pc = "extra" /\ pc' = "loop"
          /\ UNCHANGED <<job, consumed, replies, body>>
      BY <1>1, <1>15, <2>2, TakesExtra
    <3>2. PICK n \in Nat : n <= Len(extra) /\ Moves(n)
      BY <1>1, <1>15, <2>2, TakesExtra
    <3>3. transferred + Len(extra) = consumed
      BY <1>1, <3>1 DEF UploadInv
    <3>4. transferred' <= consumed'
      BY <1>2, <3>1, <3>2, <3>3 DEF Moves
    <3>5. QED
      BY <1>1, <1>4, <3>1, <3>4
  <2>3. QED
    BY <2>1, <2>2
<1>16. CASE Receive
  <2>1. Receiving /\ UNCHANGED <<job, replies, body, pc>>
    BY <1>1, <1>16, Receives
  <2>2. PICK n \in Nat \ {0} : consumed' = consumed + n /\ Moves(n)
    BY <1>1, <1>16, Receives
  <2>3. transferred' <= consumed'
    BY <1>1, <1>2, <2>2 DEF Moves
  <2>4. QED
    BY <1>1, <1>4, <2>1, <2>3 DEF Receiving
<1>17. CASE ReceiveFails
  <2>1. pc = "loop" /\ Rejects /\ (Reliable => consumed = job.stream)
    BY <1>17 DEF ReceiveFails, Receiving, Reliable
  <2>2. QED
    BY <1>1, <1>4, <1>9, <2>1
<1>18. CASE PutRoundEnds
  <2>1. /\ pc' \in {"finalOk", AfterRound}
        /\ UNCHANGED <<replies, body, transferred, consumed>>
    BY <1>18 DEF PutRoundEnds
  <2>2. pc' = "done" => transferred >= job.total
    BY <1>2, <2>1 DEF AfterRound
  <2>3. pc' \notin {"failed", "killed"}
    BY <2>1 DEF AfterRound
  <2>4. QED
    BY <1>4, <1>10, <2>1, <2>2, <2>3
<1>19. CASE SendFinalOk
  <2>1. pc = "finalOk" /\ replies = <<"OK">>
    BY <1>1, <1>19 DEF SendFinalOk, RepliesInv
  <2>2. CASE SendFails
    BY <1>4, <1>8, <2>1, <2>2
  <2>3. CASE ~SendFails
    <3>1. /\ pc' = AfterRound /\ replies' = Append(replies, "OK")
          /\ UNCHANGED <<body, transferred, consumed>>
      BY <1>19, <2>3 DEF SendFinalOk, request
    <3>2. /\ pc' = "done" => transferred >= job.total
          /\ pc' \notin {"failed", "killed"}
      BY <1>2, <3>1 DEF AfterRound
    <3>3. QED
      BY <1>1, <1>4, <2>1, <3>1, <3>2, AnswersDiffer
  <2>4. QED
    BY <2>2, <2>3
<1>20. QED
  BY <1>11, <1>12, <1>13, <1>14, <1>15, <1>16, <1>17, <1>18, <1>19
     DEF Serve, PutStep

-----------------------------------------------------------------------------
(* The session invariant.                                                  *)

\* The least of two integers, which may be negative when the window is full.
LEMMA LeastOfInts ==
  ASSUME NEW a \in Int, NEW b \in Int
  PROVE  Least({a, b}) \in Int /\ Least({a, b}) <= a /\ Least({a, b}) <= b
<1>1. CASE a <= b
  BY <1>1 DEF Least
<1>2. CASE b <= a
  BY <1>2 DEF Least
<1>3. QED
  BY <1>1, <1>2

\* What the job says of the client and of the disk.
LEMMA InitKnows ==
  ASSUME Init
  PROVE  /\ PeerReliable => job.peerReliable
         /\ Get /\ disk.size < job.total => ~job.diskReliable
<1>1. PICK policy \in Policies, quantum \in 1 .. MaxQuantum,
           packet \in 1 .. MaxPacket, n \in 0 .. MaxBytes,
           stream, early \in 0 .. MaxBytes + MaxSurplus,
           peerOk \in {TRUE, PeerReliable}, diskOk \in {TRUE, DiskReliable} :
        \/ /\ early = 0 /\ stream = 0
           /\ n = disk.size \/ (n > disk.size /\ ~diskOk)
           /\ job = [op |-> "GET", policy |-> policy, quantum |-> quantum,
                     packetLimit |-> packet, total |-> n, stream |-> 0,
                     peerReliable |-> peerOk, diskReliable |-> diskOk]
           /\ extra = <<>> /\ consumed = 0
        \/ /\ early <= stream /\ disk.size = 0 /\ packet = 1
           /\ stream \in n - MaxShortfall .. n + MaxSurplus
           /\ job = [op |-> "PUT", policy |-> policy, quantum |-> quantum,
                     packetLimit |-> 1, total |-> n, stream |-> stream,
                     peerReliable |-> peerOk, diskReliable |-> diskOk]
           /\ extra = Numbers(0, early) /\ consumed = early
  BY InitJob, Zenon
<1>2. job.peerReliable = peerOk /\ job.diskReliable = diskOk
  BY <1>1
<1>3. PeerReliable => peerOk
  BY Zenon
<1>4. ASSUME Get, disk.size < job.total PROVE ~job.diskReliable
  <2>1. job.total = n /\ (n = disk.size \/ ~diskOk)
    BY <1>1, <1>4 DEF Get
  <2>2. n \in Nat /\ disk.size \in Nat
    BY InitTyped, Naturals, ConstantTypes
  <2>3. QED
    BY <1>2, <1>4, <2>1, <2>2
<1>5. QED
  BY <1>2, <1>3, <1>4

LEMMA InitSession == SessionInit => SessionInv
<1> SUFFICES ASSUME SessionInit PROVE SessionInv
  OBVIOUS
<1>1. /\ ServiceInv /\ TypeOK /\ HandOverInv /\ BodyInv /\ changes = 0
      /\ body = <<>> /\ replies = <<>> /\ peer = "reading" /\ pc = "queued"
      /\ transferred = 0 /\ download = <<>> /\ got = 0
  BY InitService DEF SessionInit, Init, ServiceInv
<1>2. job.stream \in Nat /\ consumed \in Nat /\ consumed <= job.stream
  BY <1>1, Naturals
<1>3. Get => job.stream = 0
  BY DEF SessionInit, Init, Get
<1>4. /\ program \in {"client", "other"}
      /\ program = "client" => consumed = 0
      /\ clientPc = IF program = "client" THEN "status" ELSE "absent"
      /\ sent = IF program = "client" THEN 0 ELSE job.stream
  BY DEF SessionInit
<1>9. /\ PeerReliable => job.peerReliable
      /\ Get /\ disk.size < job.total => ~job.diskReliable
  BY InitKnows DEF SessionInit
<1>5. SessionTypes
  BY <1>1, <1>2, <1>4, <1>9 DEF SessionTypes, Returned
<1>10. Get => /\ Len(body) = 0 /\ Len(body) <= job.total
              /\ Len(body) < job.total \/ job.total = 0
  BY <1>1, Naturals
<1>11. GetServed
  BY <1>1, <1>2, <1>3, <1>9, <1>10, AnswersDiffer DEF GetServed
<1>6. GetTalk
  BY <1>1, <1>3, <1>4 DEF GetTalk
<1>7. PutTalk
  BY <1>1, <1>2, <1>4, AnswersDiffer DEF PutTalk
<1>8. QED
  BY <1>5, <1>6, <1>7, <1>11 DEF SessionInv

\* A step of the server and the client's view of it.
LEMMA ServerSession ==
  ASSUME ServiceInv, SessionInv, ServerStep
  PROVE  SessionInv'
<1>1. /\ TypeOK /\ SessionTypes /\ GetServed /\ GetTalk /\ PutTalk /\ Serve
      /\ UNCHANGED <<program, clientPc, got, download, sent>>
      /\ consumed' <= sent
  BY DEF ServiceInv, SessionInv, ServerStep, client
<1>2. /\ UNCHANGED <<job, disk, changes, peer>>
      /\ consumed \in Nat /\ consumed' \in Nat /\ consumed <= consumed'
  BY <1>1, ServeKeeps
<1>3. (Get' <=> Get) /\ (Put' <=> Put) /\ (Stable' <=> Stable)
  BY <1>2 DEF Get, Put, Stable
<1>4. SessionTypes'
  BY <1>1, <1>2 DEF SessionTypes
<1>5. GetServed' /\ GetTalk'
  <2> SUFFICES ASSUME Get, Stable PROVE GetServed' /\ GetTalk'
    BY <1>3 DEF GetServed, GetTalk
  <2>1. /\ GetServed'
        /\ replies # <<"OK", "ERR">>
        /\ \/ replies' = replies
           \/ replies = <<>> /\ replies' = <<"OK">>
           \/ replies = <<"OK">> /\ replies' = <<"OK", "ERR">> /\ body' = body
        /\ \/ body' = body
           \/ /\ \E s \in Seq(Nat) : body' = body \o s
              /\ replies = <<"OK">> /\ replies' = replies
              /\ clientPc \notin Returned
        /\ socket = "closed" => socket' = "closed" /\ pc' # "done"
    BY <1>1, GetServes
  <2>2. replies \in {<<>>, <<"OK">>}
    BY <1>1, <2>1 DEF GetServed
  <2>8. replies # <<>> => replies' # <<>>
    BY <2>1, <2>2, AnswersDiffer
  <2>3. ASSUME clientPc = "body"
        PROVE  replies' # <<>> /\ got <= Len(Wire') /\ ReadSoFar'
    <3>1. /\ replies = <<"OK">> /\ got \in Nat \ {0} /\ got <= Len(Wire) /\ ReadSoFar
      BY <1>1, <2>2, <2>3 DEF GetTalk
    <3>2. TypeOK'
      BY <1>1, NextTyped DEF Next
    <3>3. /\ Len(Wire) \in Nat /\ Len(Wire') \in Nat /\ Len(Wire) <= Len(Wire')
          /\ \A i \in 1 .. Len(Wire) : Wire'[i] = Wire[i]
      BY <1>1, <1>3, <2>1, <3>1, <3>2, AnswersDiffer, WireGrows
    <3>4. \A i \in 1 .. got - 1 : i + 1 \in 1 .. Len(Wire)
      BY <3>1, <3>3
    <3>5. ReadSoFar'
      BY <1>1, <3>1, <3>3, <3>4 DEF ReadSoFar
    <3>6. QED
      BY <2>8, <3>1, <3>3, <3>5, AnswersDiffer
  <2>4. ASSUME clientPc \in {"succeeded", "unsaved"} PROVE Saved'
    <3>1. /\ Len(body) = job.total /\ replies = <<"OK">>
          /\ download = Numbers(0, job.total)
      BY <1>1, <2>1, <2>2, <2>4 DEF GetTalk, Saved
    <3>2. body' = body /\ replies' # <<>>
      BY <2>1, <2>4, <2>8, <3>1, AnswersDiffer DEF Returned
    <3>3. QED
      BY <1>1, <1>2, <3>1, <3>2 DEF Saved
  <2>5. clientPc = "failed" => socket' = "closed" /\ pc' # "done"
    BY <1>1, <2>1 DEF GetTalk
  <2>6. GetTalk'
    BY <1>1, <1>2, <2>3, <2>4, <2>5 DEF GetTalk
  <2>7. QED
    BY <2>1, <2>6
<1>6. PutTalk'
  <2> SUFFICES ASSUME Put, Stable PROVE PutTalk'
    BY <1>3 DEF PutTalk
  <2>1. /\ body' = <<>> /\ peer # "gone"
        /\ \/ replies' = replies
           \/ replies = <<>> /\ replies' = <<"OK">>
           \/ replies = <<"OK">> /\ replies' = <<"OK", "OK">>
           \/ replies = <<"OK">> /\ replies' = <<"OK", "ERR">> /\ pc' = "failed"
        /\ replies = <<"OK", "ERR">> => pc' = "failed"
        /\ transferred' <= consumed'
        /\ pc' = "done" => transferred' >= job.total
        /\ pc' # "killed"
        /\ pc' = "failed" /\ Reliable => consumed' = job.stream
    BY <1>1, PutServes
  <2>2. clientPc \notin Returned
    BY <1>1, <2>1 DEF SessionTypes
  <2>3. /\ replies' \in {<<>>, <<"OK">>, <<"OK", "OK">>, <<"OK", "ERR">>}
        /\ replies' = <<"OK", "ERR">> => pc' = "failed"
        /\ replies # <<>> => replies' # <<>>
    BY <1>1, <2>1, AnswersDiffer DEF PutTalk
  <2>4. /\ clientPc \notin {"body", "unsaved"}
        /\ clientPc = "status" => got = 0
        /\ clientPc \in {"upload", "final"} => got = 1 /\ replies # <<>>
    BY <1>1 DEF PutTalk
  <2>5. QED
    BY <1>1, <1>2, <2>1, <2>2, <2>3, <2>4 DEF PutTalk, Returned, Reliable
<1>7. QED
  BY <1>4, <1>5, <1>6 DEF SessionInv

\* A file that changes ends what the invariant says of it.
LEMMA FileSession ==
  ASSUME ServiceInv, SessionInv, FileStep
  PROVE  SessionInv'
<1>1. /\ changes \in Nat /\ changes' = changes + 1
      /\ UNCHANGED <<job, peer, consumed, program, clientPc, sent>>
  BY Naturals DEF ServiceInv, FileStep, FileChanges, client
<1>2. ~Stable'
  BY <1>1 DEF Stable
<1>3. SessionTypes'
  BY <1>1 DEF SessionInv, SessionTypes
<1>4. QED
  BY <1>2, <1>3 DEF SessionInv, GetServed, GetTalk, PutTalk

\* The client sends no more than it has, and reads until it returns.
LEMMA ClientTypes ==
  ASSUME ServiceInv, SessionInv, ClientStep
  PROVE  SessionTypes'
<1>1. /\ TypeOK /\ SessionTypes
      /\ UNCHANGED <<job, consumed, program>>
  BY ClientMoves DEF ServiceInv, SessionInv, ClientOnly
<1>2. job.stream \in Nat /\ consumed \in Nat /\ sent \in Nat
      /\ consumed <= sent /\ sent <= job.stream
  BY <1>1, Naturals DEF SessionTypes
<1>3. /\ clientPc \in {"status", "body", "upload", "final"}
      /\ \/ Returns("succeeded") \/ Returns("unsaved") \/ Returns("failed")
         \/ Returns("killed")
         \/ /\ clientPc' \in {"status", "body", "upload", "final"}
            /\ UNCHANGED peer
  BY DEF ClientStep, ReadStatus, ReadBody, SaveBody, SendBody, BodySent, ReadFinal,
         ClientReadFails
<1>4. /\ clientPc \notin Returned /\ program = "client"
      /\ program' # "other" /\ clientPc' # "absent"
      /\ peer' = IF clientPc' \in Returned THEN "gone" ELSE "reading"
  BY <1>1, <1>3 DEF SessionTypes, Returned, Returns
<1>5. sent' \in Nat /\ sent <= sent' /\ sent' <= job.stream
  <2>1. CASE SendBody
    <3>1. CASE UNCHANGED sent
      BY <1>2, <3>1
    <3>2. CASE ~UNCHANGED sent
      <4> DEFINE a == job.stream - sent
                 b == Window - (sent - consumed)
      <4>1. a \in Int /\ b \in Int
        BY <1>2, SessionAssumption DEF SessionAssumption
      <4>2. PICK n \in 1 .. Least({a, b}) : sent' = sent + n
        BY <2>1, <3>2 DEF SendBody
      <4> HIDE DEF a, b
      <4>3. Least({a, b}) \in Int /\ Least({a, b}) <= a
        BY <4>1, LeastOfInts
      <4>4. n \in Nat /\ n <= a
        BY <4>1, <4>2, <4>3
      <4>5. QED
        BY <1>2, <4>2, <4>4 DEF a
    <3>3. QED
      BY <3>1, <3>2
  <2>2. CASE ~SendBody
    <3>1. UNCHANGED sent
      BY <2>2 DEF ClientStep, ReadStatus, ReadBody, SaveBody, BodySent, ReadFinal,
                  ClientReadFails
    <3>2. QED
      BY <1>2, <3>1
  <2>3. QED
    BY <2>1, <2>2
<1>6. clientPc' \in {"absent", "status", "body", "upload", "final"} \cup Returned
  BY <1>3 DEF Returns, Returned
<1>7. QED
  BY <1>1, <1>2, <1>4, <1>5, <1>6 DEF SessionTypes

\* A part of a sequence.
LEMMA Slice ==
  ASSUME NEW w \in Seq(Int), NEW m \in Nat, NEW n \in Nat, m + n <= Len(w)
  PROVE  LET more == SubSeq(w, m + 1, m + n) IN
         /\ more \in Seq(Int) /\ Len(more) = n
         /\ \A k \in 1 .. n : more[k] = w[m + k]
<1> DEFINE p == m + 1
           q == m + n
<1>1. /\ p \in Int /\ q \in Int /\ \A i \in p .. q : i \in 1 .. Len(w)
      /\ q - p + 1 = n /\ (p <= q <=> n > 0)
      /\ \A k \in 1 .. n : p + k - 1 = m + k
  BY LenProperties
<1> HIDE DEF p, q
<1>2. p \in Int /\ q \in Int /\ \A i \in p .. q : w[i] \in Int
  BY <1>1, ElementOfSeq
<1>3. /\ SubSeq(w, p, q) \in Seq(Int)
      /\ Len(SubSeq(w, p, q)) = IF p <= q THEN q - p + 1 ELSE 0
      /\ \A k \in 1 .. q - p + 1 : SubSeq(w, p, q)[k] = w[p + k - 1]
  <2>1. SubSeq(w, p, q) \in Seq(Int)
    BY <1>2, SubSeqProperties
  <2>2. Len(SubSeq(w, p, q)) = IF p <= q THEN q - p + 1 ELSE 0
    BY <1>2, SubSeqProperties
  <2>3. ASSUME NEW k \in 1 .. q - p + 1 PROVE SubSeq(w, p, q)[k] = w[p + k - 1]
    BY <1>2, SubSeqProperties
  <2>4. QED
    BY <2>1, <2>2, <2>3, Zenon
<1>4. /\ SubSeq(w, p, q) \in Seq(Int) /\ Len(SubSeq(w, p, q)) = n
      /\ \A k \in 1 .. n : SubSeq(w, p, q)[k] = w[m + k]
  BY <1>1, <1>3
<1>5. QED
  BY <1>4 DEF p, q

\* The client reads on where it stopped.
LEMMA ReadsOn ==
  ASSUME Wire \in Seq(Int), got \in Nat \ {0}, NEW n \in Nat, got + n <= Len(Wire),
         ReadSoFar, UNCHANGED Wire,
         download' = download \o SubSeq(Wire, got + 1, got + n), got' = got + n
  PROVE  ReadSoFar'
<1> DEFINE more == SubSeq(Wire, got + 1, got + n)
           m == got - 1
<1>1. m \in Nat /\ got = m + 1 /\ got' - 1 = m + n
  OBVIOUS
<1>2. /\ more \in Seq(Int) /\ Len(more) = n
      /\ \A k \in 1 .. n : more[k] = Wire[got + k]
  BY Slice
<1>3. /\ download \in Seq(Int) /\ Len(download) = m
      /\ \A i \in 1 .. m : download[i] = Wire[i + 1]
  BY <1>1 DEF ReadSoFar
<1>4. download' = download \o more
  OBVIOUS
<1> HIDE DEF more, m
<1>5. \A k \in 1 .. n : more[k] = Wire[m + 1 + k]
  BY <1>1, <1>2
<1>6. /\ download \o more \in Seq(Int) /\ Len(download \o more) = m + n
      /\ \A i \in 1 .. m + n :
           (download \o more)[i] = IF i <= m THEN download[i] ELSE more[i - m]
  <2>1. /\ download \in Seq(Int) /\ more \in Seq(Int)
        /\ Len(download) = m /\ Len(more) = n
    BY <1>2, <1>3
  <2>2. QED
    BY ONLY <2>1, ConcatProperties
<1>7. ASSUME NEW i \in 1 .. m + n PROVE (download \o more)[i] = Wire[i + 1]
  <2>1. CASE i <= m
    <3>1. i \in 1 .. m
      BY <1>1, <2>1
    <3>2. (download \o more)[i] = download[i]
      BY <1>6, <2>1
    <3>3. download[i] = Wire[i + 1]
      BY <1>3, <3>1
    <3>4. QED
      BY <3>2, <3>3
  <2>2. CASE ~(i <= m)
    <3>1. i - m \in 1 .. n /\ m + 1 + (i - m) = i + 1
      BY <1>1, <2>2
    <3>2. QED
      BY <1>5, <1>6, <2>2, <3>1
  <2>3. QED
    BY <2>1, <2>2
<1>8. QED
  BY <1>1, <1>4, <1>6, <1>7 DEF ReadSoFar

\* Some bytes of a file and the text of an ERR line after them.
LEMMA TextAfterBytes ==
  ASSUME NEW b \in Nat, NEW r \in Nat, NEW d \in Seq(Int), Len(d) = b + r,
         \A i \in 1 .. b : d[i] = i, \A i \in b + 1 .. b + r : d[i] = ErrLine
  PROVE  d = Numbers(0, b) \o ErrorText(r)
<1> DEFINE h == Numbers(0, b)
           e == ErrorText(r)
<1>1. /\ h \in Seq(Int) /\ Len(h) = b /\ \A i \in 1 .. b : h[i] = i
      /\ e \in Seq(Int) /\ Len(e) = r /\ \A i \in 1 .. r : e[i] = ErrLine
  BY DEF Numbers, ErrorText, ErrLine
<1> HIDE DEF h, e
<1>2. /\ h \o e \in Seq(Int) /\ Len(h \o e) = b + r
      /\ \A i \in 1 .. b + r : (h \o e)[i] = IF i <= b THEN h[i] ELSE e[i - b]
  <2>1. h \in Seq(Int) /\ e \in Seq(Int) /\ Len(h) = b /\ Len(e) = r
    BY <1>1
  <2>2. QED
    BY ONLY <2>1, ConcatProperties
<1>3. ASSUME NEW i \in 1 .. b + r PROVE d[i] = (h \o e)[i]
  <2>1. CASE i <= b
    BY <1>1, <1>2, <2>1
  <2>2. CASE ~(i <= b)
    <3>1. i \in b + 1 .. b + r /\ i - b \in 1 .. r
      BY <2>2
    <3>2. QED
      BY <1>1, <1>2, <2>2, <3>1
  <2>3. QED
    BY <2>1, <2>2
<1>4. d = h \o e
  BY <1>2, <1>3, SeqEqual
<1>5. QED
  BY <1>4 DEF h, e

\* What the client has when it has as many bytes as announced: the file, or what
\* was sent of it and text of an ERR line.
LEMMA WhatIsSaved ==
  ASSUME TypeOK, Get, replies \in {<<"OK">>, <<"OK", "ERR">>},
         body = Numbers(0, Len(body)), Len(body) <= job.total,
         got - 1 = job.total, got \in Nat, got <= Len(Wire), ReadSoFar
  PROVE  Saved
<1> DEFINE b == Len(body)
           t == job.total
<1>1. b \in Nat /\ t \in Nat /\ b <= t /\ body = Numbers(0, b)
  BY Naturals, LenProperties DEF TypeOK
<1>2. /\ Wire \in Seq(Int) /\ Len(Wire) = 1 + b + ErrorLength
      /\ \A i \in 1 .. b : Wire[i + 1] = body[i]
      /\ \A i \in b + 1 .. b + ErrorLength : Wire[i + 1] = ErrLine
  BY WireOfGet DEF GetWire
<1>3. /\ download \in Seq(Int) /\ Len(download) = t
      /\ \A i \in 1 .. t : download[i] = Wire[i + 1]
  BY DEF ReadSoFar
<1>4. t <= b + ErrorLength /\ ErrorLength \in Nat
  BY <1>1, <1>2, SessionAssumption DEF ErrorLength, SessionAssumption
<1> HIDE DEF b, t
<1>5. \A i \in 1 .. b : body[i] = i
  <2>1. \A i \in 1 .. b : Numbers(0, b)[i] = i
    BY <1>1 DEF Numbers
  <2>2. QED
    BY <1>1, <2>1
<1>6. /\ \A i \in 1 .. b : download[i] = i
      /\ \A i \in b + 1 .. t : download[i] = ErrLine
  <2>1. ASSUME NEW i \in 1 .. b PROVE download[i] = i
    <3>1. i \in 1 .. t
      BY <1>1
    <3>2. QED
      BY <1>2, <1>3, <1>5, <3>1
  <2>2. ASSUME NEW i \in b + 1 .. t PROVE download[i] = ErrLine
    <3>1. i \in 1 .. t /\ i \in b + 1 .. b + ErrorLength
      BY <1>1, <1>4
    <3>2. QED
      BY <1>2, <1>3, <3>1
  <2>3. QED
    BY <2>1, <2>2
<1>7. CASE b = t
  <2> DEFINE v == Numbers(0, t)
  <2>1. v \in Seq(Int) /\ Len(v) = t /\ \A i \in 1 .. t : v[i] = i
    BY <1>1 DEF Numbers
  <2> HIDE DEF v
  <2>2. download = v
    BY <1>3, <1>6, <1>7, <2>1, SeqEqual
  <2>3. replies # <<>>
    BY AnswersDiffer
  <2>4. QED
    BY <1>7, <2>2, <2>3 DEF Saved, v, b, t
<1>8. CASE b # t
  <2> DEFINE r == t - b
  <2>1. r \in Nat /\ b + r = t /\ b \in 0 .. t - 1
    BY <1>1, <1>8
  <2>2. /\ download \in Seq(Int) /\ Len(download) = b + r
        /\ \A i \in b + 1 .. b + r : download[i] = ErrLine
    BY <1>3, <1>6, <2>1
  <2> HIDE DEF r
  <2>3. download = Numbers(0, b) \o ErrorText(r)
    BY <1>1, <1>6, <2>1, <2>2, TextAfterBytes, Zenon
  <2>4. replies = <<"OK", "ERR">>
    BY <1>1, <1>4, <1>8, <2>1 DEF ErrorLength
  <2>5. ErrorSaved
    BY <2>1, <2>3 DEF ErrorSaved, r, t
  <2>6. QED
    BY <2>4, <2>5 DEF Saved
<1>9. QED
  BY <1>7, <1>8

\* The steps of a get.
LEMMA ClientGets ==
  ASSUME ServiceInv, SessionInv, ClientStep, Get, Stable
  PROVE  GetServed' /\ GetTalk'
<1>1. /\ TypeOK /\ HandOverInv /\ BodyInv /\ RepliesInv /\ SessionTypes /\ GetServed
      /\ GetTalk /\ changes = 0 /\ ~Put
  BY DEF ServiceInv, SessionInv, Stable, Get, Put
<1>2. /\ UNCHANGED <<job, disk, changes, socket, consumed, replies, body, pc>>
      /\ Get' /\ Stable'
  BY ClientMoves DEF ClientOnly, Get, Stable
<1>3. GetServed'
  BY <1>1, <1>2 DEF GetServed
<1>4. UNCHANGED Wire
  BY <1>2 DEF Wire, Get
<1>5. /\ job.total \in Nat /\ Len(body) \in Nat /\ Len(body) <= job.total
      /\ body = Numbers(0, Len(body)) /\ ~Reset
  <2>1. consumed = 0 /\ sent = 0
    BY <1>1, Naturals DEF GetServed, SessionTypes
  <2>2. QED
    BY <1>1, <2>1, GetFacts DEF GetServed, Reset
<1>6. /\ replies \in {<<>>, <<"OK">>, <<"OK", "ERR">>}
      /\ clientPc \in {"absent", "status", "body", "succeeded", "unsaved", "failed"}
      /\ clientPc = "status" => got = 0 /\ download = <<>>
      /\ clientPc = "body" =>
           /\ replies # <<>> /\ got \in Nat \ {0} /\ got <= Len(Wire)
           /\ got - 1 <= job.total /\ ReadSoFar
           /\ Len(download) = got - 1
  BY <1>1 DEF GetServed, GetTalk, ReadSoFar
<1>7. /\ replies = <<>> => Len(Wire) = 0
      /\ replies # <<>> => Wire \in Seq(Int) /\ Len(Wire) \in Nat /\ Wire[1] = OkLine
      /\ replies = <<"OK">> => Len(Wire) = 1 + Len(body)
  <2>1. GetWire
    BY <1>1, WireOfGet
  <2>2. replies = <<"OK">> => ErrorLength = 0
    BY AnswersDiffer DEF ErrorLength
  <2>3. Len(<<>>) = 0
    OBVIOUS
  <2>4. QED
    BY <1>5, <1>6, <2>1, <2>2, <2>3, AnswersDiffer, LenProperties DEF GetWire
<1>8. CASE ReadStatus
  <2>1. clientPc = "status" /\ Len(Wire) - 0 > 0
    BY <1>6, <1>8 DEF ReadStatus, Unread
  <2>2. replies # <<>> /\ Wire[1] = OkLine /\ Len(Wire) \in Nat
    BY <1>7, <2>1
  <2>3. got' = 1 /\ clientPc' = "body" /\ download' = <<>>
    BY <1>6, <1>8, <2>1, <2>2 DEF ReadStatus
  <2>4. ReadSoFar'
    BY <2>3 DEF ReadSoFar
  <2>5. QED
    BY <1>2, <1>3, <1>4, <1>5, <2>1, <2>2, <2>3, <2>4 DEF GetTalk
<1>9. CASE ReadBody
  <2>1. clientPc = "body"
    BY <1>9 DEF ReadBody
  <2>2. /\ Unread \in Nat /\ Unread = Len(Wire) - got
        /\ BytesYetToRead \in Nat /\ BytesYetToRead = job.total - (got - 1)
    BY <1>5, <1>6, <1>7, <2>1 DEF Unread, BytesYetToRead
  <2>3. PICK n \in 1 .. Least({Unread, BytesYetToRead}) :
          /\ download' = download \o SubSeq(Wire, got + 1, got + n)
          /\ got' = got + n
    BY <1>9 DEF ReadBody
  <2>4. n \in Nat \ {0} /\ n <= Len(Wire) - got /\ n <= job.total - (got - 1)
    <3> HIDE DEF Unread, BytesYetToRead
    <3>1. /\ Least({Unread, BytesYetToRead}) \in Nat
          /\ Least({Unread, BytesYetToRead}) <= Unread
          /\ Least({Unread, BytesYetToRead}) <= BytesYetToRead
      BY <2>2, LeastOfTwo
    <3>2. n \in Nat \ {0} /\ n <= Unread /\ n <= BytesYetToRead
      BY <2>2, <3>1
    <3>3. QED
      BY <2>2, <3>2
  <2>5. /\ got \in Nat \ {0} /\ got' \in Nat \ {0} /\ got + n <= Len(Wire)
        /\ got' <= Len(Wire) /\ got' - 1 <= job.total
    <3>1. got \in Nat \ {0} /\ got' = got + n /\ Len(Wire) \in Nat
      BY <1>6, <1>7, <2>1, <2>3
    <3>2. QED
      BY <1>5, <2>4, <3>1
  <2>6. ReadSoFar'
    BY <1>4, <1>6, <1>7, <2>1, <2>3, <2>4, <2>5, ReadsOn
  <2>7. clientPc' = "body"
    BY <1>9, <2>1 DEF ReadBody
  <2>8. QED
    BY <1>2, <1>3, <1>4, <1>6, <2>1, <2>5, <2>6, <2>7 DEF GetTalk
<1>10. CASE SaveBody
  <2>1. /\ clientPc = "body" /\ job.total - Len(download) <= 0
        /\ download' = download /\ clientPc' \in {"succeeded", "unsaved"}
    BY <1>10 DEF SaveBody, BytesYetToRead, Returns
  <2>2. got - 1 = job.total
    BY <1>5, <1>6, <2>1
  <2>3. Saved
    BY <1>1, <1>5, <1>6, <2>1, <2>2, WhatIsSaved
  <2>4. Saved'
    BY <1>2, <2>1, <2>3 DEF Saved, ErrorSaved
  <2>5. QED
    BY <1>3, <2>1, <2>4 DEF GetTalk
<1>11. CASE SendBody \/ BodySent \/ ReadFinal
  BY <1>6, <1>11 DEF SendBody, BodySent, ReadFinal
<1>12. CASE ClientReadFails
  <2>1. /\ socket = "closed" /\ Unread = 0 /\ clientPc' = "failed"
        /\ clientPc \in {"status", "body"}
        /\ clientPc = "body" => job.total - Len(download) > 0
    BY <1>5, <1>6, <1>12 DEF ClientReadFails, BytesYetToRead, Returns
  <2>2. ASSUME pc = "done" PROVE FALSE
    <3>1. replies = <<"OK">> /\ Len(body) = job.total
      BY <1>1, <2>2, GetFacts DEF RepliesInv
    <3>2. Len(Wire) = 1 + job.total /\ Len(Wire) - got = 0
      BY <1>7, <2>1, <3>1 DEF Unread
    <3>3. QED
      BY <1>5, <1>6, <2>1, <3>2
  <2>3. QED
    BY <1>2, <1>3, <2>1, <2>2 DEF GetTalk
<1>13. QED
  BY <1>8, <1>9, <1>10, <1>11, <1>12 DEF ClientStep

\* What the answers of a PUT look like to the client.
LEMMA PutAnswers ==
  ASSUME body = <<>>, ~Get,
         replies \in {<<>>, <<"OK">>, <<"OK", "OK">>, <<"OK", "ERR">>}
  PROVE  /\ Len(Wire) \in Nat
         /\ Len(Wire) > 0 <=> replies # <<>>
         /\ replies # <<>> => Wire[1] = OkLine
         /\ Len(Wire) > 1 => replies \in {<<"OK", "OK">>, <<"OK", "ERR">>}
         /\ replies = <<"OK", "OK">> => Len(Wire) = 2 /\ Wire[2] = OkLine
         /\ replies = <<"OK", "ERR">> => Len(Wire) = 2 /\ Wire[2] # OkLine
<1>1. CASE replies = <<>>
  <2>1. Wire = <<>>
    BY <1>1, WireOfPut
  <2>2. QED
    BY <1>1, <2>1, AnswersDiffer
<1>2. CASE replies = <<"OK">>
  <2>1. Wire = <<OkLine>>
    BY <1>2, WireOfPut
  <2>2. QED
    BY <1>2, <2>1, AnswersDiffer
<1>3. CASE replies = <<"OK", "OK">>
  <2>1. Wire = <<OkLine, OkLine>>
    BY <1>3, WireOfPut
  <2>2. QED
    BY <1>3, <2>1, AnswersDiffer
<1>4. CASE replies = <<"OK", "ERR">>
  <2>1. Wire = <<OkLine, ErrLine>>
    BY <1>4, WireOfPut
  <2>2. Wire[2] # OkLine
    BY <2>1 DEF OkLine, ErrLine
  <2>3. QED
    BY <1>4, <2>1, <2>2, AnswersDiffer
<1>5. QED
  BY <1>1, <1>2, <1>3, <1>4

\* A PUT whose connection is closed is over, and one that is completed has taken
\* all that was announced.
LEMMA PutClosed ==
  ASSUME ServiceInv, SessionInv, Put, Stable, socket = "closed"
  PROVE  /\ pc \in {"done", "failed"}
         /\ pc = "done" /\ job.stream <= job.total =>
              /\ consumed = sent /\ sent = job.stream
              /\ replies = <<"OK", "OK">>
<1>1. /\ TypeOK /\ HandOverInv /\ RepliesInv /\ SessionTypes /\ PutTalk
      /\ changes = 0
  BY DEF ServiceInv, SessionInv, Stable
<1>2. pc \in {"done", "failed"}
  BY <1>1, Naturals DEF HandOverInv, Sockets, PutTalk, Pcs, Get, Put
<1>3. ASSUME pc = "done", job.stream <= job.total
      PROVE  /\ consumed = sent /\ sent = job.stream
             /\ replies = <<"OK", "OK">>
  <2>1. /\ job.total \in Nat /\ job.stream \in Nat /\ transferred \in Nat
        /\ consumed \in Nat /\ sent \in Nat
        /\ consumed <= sent /\ sent <= job.stream
        /\ transferred <= consumed /\ transferred >= job.total
    BY <1>1, <1>3, Naturals DEF SessionTypes, PutTalk
  <2>2. transferred = job.total /\ consumed = sent /\ sent = job.stream
    BY <1>3, <2>1
  <2>3. replies = <<"OK", "OK">>
    BY <1>1, <1>3, <2>2 DEF RepliesInv
  <2>4. QED
    BY <2>2, <2>3
<1>4. QED
  BY <1>2, <1>3

\* The steps of a put.
LEMMA ClientPuts ==
  ASSUME ServiceInv, SessionInv, ClientStep, Put, Stable
  PROVE  PutTalk'
<1>1. /\ TypeOK /\ RepliesInv /\ SessionTypes /\ PutTalk /\ changes = 0
      /\ body = <<>> /\ ~Get
      /\ replies \in {<<>>, <<"OK">>, <<"OK", "OK">>, <<"OK", "ERR">>}
  BY DEF ServiceInv, SessionInv, PutTalk, Stable, Get, Put
<1>2. /\ UNCHANGED <<job, changes, socket, consumed, replies, body, pc,
                     transferred>>
      /\ Put' /\ Stable' /\ peer' \in {peer, "gone"}
  BY ClientMoves DEF ClientOnly, request, Put, Stable
<1>3. /\ job.total \in Nat /\ job.stream \in Nat /\ consumed \in Nat
      /\ sent \in Nat /\ consumed <= sent /\ sent <= job.stream
  BY <1>1, Naturals DEF SessionTypes
<1>4. peer # "gone"
  BY <1>1 DEF SessionTypes, Returned, ClientStep, ReadStatus, ReadBody, SaveBody,
              SendBody, BodySent, ReadFinal, ClientReadFails
<1>5. /\ replies = <<"OK", "ERR">> => pc = "failed"
      /\ transferred <= consumed
      /\ pc = "done" => transferred >= job.total
      /\ pc # "killed"
      /\ pc = "failed" /\ Reliable => consumed = job.stream
      /\ clientPc \notin {"body", "unsaved"}
      /\ clientPc = "status" => got = 0
      /\ clientPc \in {"upload", "final"} => got = 1 /\ replies # <<>>
  BY <1>1 DEF PutTalk
<1>6. /\ Len(Wire) \in Nat
      /\ Len(Wire) > 0 <=> replies # <<>>
      /\ replies # <<>> => Wire[1] = OkLine
      /\ Len(Wire) > 1 => replies \in {<<"OK", "OK">>, <<"OK", "ERR">>}
      /\ replies = <<"OK", "OK">> => Len(Wire) = 2 /\ Wire[2] = OkLine
      /\ replies = <<"OK", "ERR">> => Len(Wire) = 2 /\ Wire[2] # OkLine
  BY <1>1, PutAnswers
<1>7. ASSUME UNCHANGED peer, clientPc' \in {"upload", "final"}, got' = 1,
             replies # <<>>
      PROVE  PutTalk'
  BY <1>1, <1>2, <1>4, <1>5, <1>7 DEF PutTalk, Reliable
<1>8. ASSUME clientPc' \in {"succeeded", "failed", "killed"}, Over,
             clientPc' = "succeeded" => replies = <<"OK", "OK">>,
             clientPc' # "succeeded" /\ job.stream <= job.total => pc = "failed",
             clientPc' = "killed" /\ Reliable => job.stream > job.total
      PROVE  PutTalk'
  BY <1>1, <1>2, <1>5, <1>8 DEF PutTalk, Over, Reliable
<1>9. CASE ReadStatus
  <2>1. clientPc = "status" /\ Len(Wire) - 0 > 0 /\ replies # <<>>
    BY <1>5, <1>6, <1>9 DEF ReadStatus, Unread
  <2>2. got' = 1 /\ clientPc' = "upload" /\ UNCHANGED peer
    BY <1>1, <1>6, <1>9, <2>1 DEF ReadStatus
  <2>3. QED
    BY <1>7, <2>1, <2>2
<1>10. CASE SendBody
  <2>1. CASE UNCHANGED <<peer, clientPc>>
    BY <1>5, <1>7, <1>10, <2>1 DEF SendBody
  <2>2. CASE ~UNCHANGED <<peer, clientPc>>
    <3>1. /\ sent < job.stream /\ socket = "closed"
          /\ clientPc' \in {"failed", "killed"}
      BY <1>10, <2>2 DEF SendBody, Returns
    <3>2. pc \in {"done", "failed"}
      BY <3>1, PutClosed
    <3>3. job.stream <= job.total => pc = "failed"
      BY <1>3, <3>1, PutClosed
    <3>4. Reliable => job.stream > job.total
      BY <1>3, <1>5, <3>1, <3>3
    <3>5. QED
      BY <1>8, <3>1, <3>2, <3>3, <3>4 DEF Over
  <2>3. QED
    BY <2>1, <2>2
<1>11. CASE BodySent
  BY <1>5, <1>7, <1>11 DEF BodySent
<1>12. CASE ReadFinal
  <2>1. clientPc = "final" /\ got = 1 /\ Len(Wire) - 1 > 0
    BY <1>5, <1>12 DEF ReadFinal, Unread
  <2>2. replies \in {<<"OK", "OK">>, <<"OK", "ERR">>}
    BY <1>6, <2>1
  <2>3. clientPc' = IF Wire[1 + 1] = OkLine THEN "succeeded" ELSE "failed"
    BY <1>12, <2>1 DEF ReadFinal, FinalAnswer, Returns
  <2>4. CASE replies = <<"OK", "OK">>
    <3>1. pc = "done"
      BY <1>1, <2>4, Naturals, AnswersDiffer DEF RepliesInv, Pcs
    <3>2. clientPc' = "succeeded"
      BY <1>6, <2>3, <2>4
    <3>3. QED
      BY <1>8, <2>4, <3>1, <3>2 DEF Over
  <2>5. CASE replies = <<"OK", "ERR">>
    <3>1. clientPc' = "failed" /\ pc = "failed"
      BY <1>5, <1>6, <2>3, <2>5
    <3>2. QED
      BY <1>8, <3>1 DEF Over
  <2>6. QED
    BY <2>2, <2>4, <2>5
<1>13. CASE ClientReadFails
  <2>1. /\ clientPc \in {"status", "final"} /\ socket = "closed"
        /\ Unread = 0 \/ Reset
        /\ clientPc' = "failed"
    BY <1>5, <1>13 DEF ClientReadFails, Returns
  <2>2. pc \in {"done", "failed"}
    BY <2>1, PutClosed
  <2>3. ASSUME job.stream <= job.total, pc = "done" PROVE FALSE
    <3>1. consumed = sent /\ replies = <<"OK", "OK">> /\ Len(Wire) = 2
      BY <1>6, <2>1, <2>3, PutClosed
    <3>2. got \in {0, 1}
      BY <1>5, <2>1
    <3>3. Unread # 0
      BY <3>1, <3>2 DEF Unread
    <3>4. ~Reset
      BY <1>3, <3>1 DEF Reset
    <3>5. QED
      BY <2>1, <3>3, <3>4
  <2>4. QED
    BY <1>8, <2>1, <2>2, <2>3 DEF Over
<1>14. QED
  BY <1>5, <1>9, <1>10, <1>11, <1>12, <1>13 DEF ClientStep, ReadBody, SaveBody

LEMMA NextSession ==
  ServiceInv /\ SessionInv /\ [SessionNext]_sessionVars => SessionInv'
<1> SUFFICES ASSUME ServiceInv, SessionInv, [SessionNext]_sessionVars
             PROVE  SessionInv'
  OBVIOUS
<1>1. CASE ServerStep
  BY <1>1, ServerSession
<1>2. CASE FileStep
  BY <1>2, FileSession
<1>3. CASE ClientStep
  <2>1. UNCHANGED <<job, changes>>
    BY <1>3, ClientMoves DEF ClientOnly
  <2>2. (Get' <=> Get) /\ (Put' <=> Put) /\ (Stable' <=> Stable)
    BY <2>1 DEF Get, Put, Stable
  <2>3. SessionTypes'
    BY <1>3, ClientTypes
  <2>4. GetServed' /\ GetTalk'
    BY <1>3, <2>2, ClientGets DEF GetServed, GetTalk
  <2>5. PutTalk'
    BY <1>3, <2>2, ClientPuts DEF PutTalk
  <2>6. QED
    BY <2>3, <2>4, <2>5 DEF SessionInv
<1>4. CASE UNCHANGED sessionVars
  <2>1. UNCHANGED <<job, disk, changes, socket, consumed, replies, body, pc,
                    transferred, peer, program, clientPc, got, download, sent>>
    BY <1>4 DEF sessionVars, vars, request, client
  <2>2. (Get' <=> Get) /\ (Put' <=> Put) /\ (Stable' <=> Stable) /\ UNCHANGED Wire
    BY <2>1 DEF Get, Put, Stable, Wire
  <2>3. SessionTypes' /\ GetServed' /\ PutTalk'
    BY <2>1, <2>2 DEF SessionInv, SessionTypes, GetServed, PutTalk, Over, Reliable
  <2>4. (ReadSoFar' <=> ReadSoFar) /\ (Saved' <=> Saved)
    BY <2>1, <2>2 DEF ReadSoFar, Saved, ErrorSaved
  <2>5. GetTalk'
    BY <2>1, <2>2, <2>4 DEF SessionInv, GetTalk
  <2>6. QED
    BY <2>3, <2>5 DEF SessionInv
<1>5. QED
  BY <1>1, <1>2, <1>3, <1>4 DEF SessionNext

LEMMA AlwaysTalking == SessionSpec => [](ServiceInv /\ SessionInv)
BY AlwaysServed, InitSession, NextSession, PTL DEF SessionSpec

-----------------------------------------------------------------------------
(* The promises of a session.                                              *)

\* For every file, body, policy, quantum, packet limit and window, and every fault
\* of the client, the connection and the disk in RequestService but one, a write
\* lost without notice (FileChanges): when build/client exits with 0, a put is
\* stored, and a get has saved the file or, if the file could not be read after
\* the OK, an ERR line in the place of its end.
THEOREM ExitCodesAreTrue == SessionSpec => []ExitZeroIsTrue
<1>1. ServiceInv /\ SessionInv => ExitZeroIsTrue
  <2> SUFFICES ASSUME ServiceInv, SessionInv, clientPc = "succeeded", Stable
               PROVE  IF Get THEN \/ download = Numbers(0, job.total)
                                  \/ ~job.diskReliable /\ ErrorSaved
                             ELSE stored = Numbers(0, job.total)
    BY DEF ExitZeroIsTrue
  <2>1. TypeOK /\ GetServed /\ GetTalk /\ PutTalk /\ changes = 0
    BY DEF ServiceInv, SessionInv, Stable
  <2>2. CASE Get
    BY <2>1, <2>2 DEF GetServed, GetTalk, Saved
  <2>3. CASE ~Get
    <3>1. Put
      BY <2>1, <2>3, Naturals DEF Get, Put
    <3>2. replies = <<"OK", "OK">>
      BY <2>1, <3>1 DEF PutTalk
    <3>3. UploadStored
      BY ServicePromises
    <3>4. QED
      BY <2>1, <2>3, <3>1, <3>2, <3>3 DEF UploadStored
  <2>4. QED
    BY <2>2, <2>3
<1>2. QED
  BY <1>1, AlwaysTalking, PTL

\* Under the same conditions, whatever the delays and partial sends: when both
\* programs have finished, the client of a request the server has recorded has its
\* answer, and a client that has its answer is recorded, unless the file could not
\* be read after the OK and the client takes what it got for the file.
THEOREM BothEndsAgree == SessionSpec => []EndsAgree
<1>1. ServiceInv /\ SessionInv => EndsAgree
  <2> DEFINE answered == clientPc \in {"succeeded", "unsaved"}
  <2> SUFFICES ASSUME ServiceInv, SessionInv, program = "client", Over, ClientOver,
                      Stable, job.stream <= job.total
               PROVE  (pc = "done" => answered) /\ (answered => pc = "done" \/ Misled)
    BY DEF EndsAgree
  <2>1. /\ TypeOK /\ RepliesInv /\ SessionTypes /\ GetServed /\ GetTalk /\ PutTalk
        /\ changes = 0 /\ pc \in {"done", "failed", "killed"}
    BY DEF ServiceInv, SessionInv, Stable, Over
  <2>2. clientPc \in Returned
    BY <2>1 DEF ClientOver, SessionTypes, Returned
  <2>3. CASE Get
    <3>1. pc = "done" => answered
      BY <2>1, <2>2, <2>3 DEF GetTalk, Returned
    <3>2. ASSUME answered, pc # "done" PROVE Misled
      <4>1. Saved
        BY <2>1, <2>3, <3>2 DEF GetTalk
      <4>2. CASE ErrorSaved /\ replies = <<"OK", "ERR">>
        BY <2>1, <2>3, <4>2 DEF GetServed, Misled
      <4>3. CASE Len(body) = job.total /\ replies # <<>>
        <5>1. job.total = 0 /\ ~job.diskReliable
          <6>1. job.total \in Nat /\ ~(Len(body) < job.total)
            BY <2>1, <4>3, Naturals
          <6>2. \/ Len(body) < job.total \/ replies = <<>>
                \/ job.total = 0 /\ ~job.diskReliable
            BY <2>1, <2>3, <3>2 DEF GetServed
          <6>3. QED
            BY <4>3, <6>1, <6>2
        <5>2. QED
          BY <2>3, <5>1 DEF Misled
      <4>4. QED
        BY <4>1, <4>2, <4>3 DEF Saved
    <3>3. QED
      BY <3>1, <3>2
  <2>4. CASE ~Get
    <3>1. Put
      BY <2>1, <2>4, Naturals DEF Get, Put
    <3>2. clientPc = "succeeded" => pc = "done"
      <4>1. clientPc = "succeeded" => replies = <<"OK", "OK">>
        BY <2>1, <3>1 DEF PutTalk
      <4>2. replies = <<"OK", "OK">> => pc \notin {"failed", "killed"}
        BY <2>1 DEF RepliesInv
      <4>3. QED
        BY <2>1, <4>1, <4>2
    <3>3. clientPc \in {"failed", "killed"} => pc = "failed"
      BY <2>1, <3>1 DEF PutTalk
    <3>4. clientPc # "unsaved"
      BY <2>1, <3>1 DEF PutTalk
    <3>5. QED
      BY <2>2, <3>2, <3>3, <3>4 DEF Returned
  <2>5. QED
    BY <2>3, <2>4
<1>2. QED
  BY <1>1, AlwaysTalking, PTL

\* While no other request changes the file, build/client kills the server in one
\* case only: a get of an empty file that cannot be opened after the OK, whose
\* client has left without waiting for the ERR line.
THEOREM ServerSurvivesClient ==
  SessionSpec =>
    [](Stable /\ pc = "killed" => Get /\ job.total = 0 /\ ~job.diskReliable)
<1>1. ServiceInv /\ SessionInv =>
        (Stable /\ pc = "killed" => Get /\ job.total = 0 /\ ~job.diskReliable)
  <2>1. TypeOK => Get \/ Put
    BY Naturals DEF Get, Put
  <2>2. QED
    BY <2>1 DEF ServiceInv, SessionInv, GetServed, PutTalk
<1>2. QED
  BY <1>1, AlwaysTalking, PTL

\* With a server that no signal interrupts and that waits for its client's bytes,
\* and a disk that works, no program at either end dies of a send to an end that
\* has left, but for a client whose file has grown and the server of the theorem
\* before.
THEOREM NobodyDiesSending == PeerReliable => (SessionSpec => []NobodyKilled)
<1> SUFFICES ASSUME PeerReliable PROVE SessionSpec => []NobodyKilled
  OBVIOUS
<1>1. ServiceInv /\ SessionInv => NobodyKilled
  <2> SUFFICES ASSUME ServiceInv, SessionInv, Stable
               PROVE  /\ pc = "killed" => Get /\ job.total = 0 /\ ~job.diskReliable
                      /\ job.stream <= job.total /\ job.diskReliable
                           => clientPc # "killed"
    BY DEF NobodyKilled
  <2>1. TypeOK /\ GetServed /\ GetTalk /\ PutTalk /\ job.peerReliable
    BY DEF ServiceInv, SessionInv, SessionTypes
  <2>2. CASE Get
    BY <2>1, <2>2 DEF GetServed, GetTalk
  <2>3. CASE ~Get
    <3>1. Put /\ job.total \in Nat /\ job.stream \in Nat
      BY <2>1, <2>3, Naturals DEF Get, Put
    <3>2. pc # "killed"
      BY <2>1, <3>1 DEF PutTalk
    <3>3. clientPc = "killed" /\ job.diskReliable => job.stream > job.total
      BY <2>1, <3>1 DEF PutTalk, Reliable
    <3>4. QED
      BY <3>1, <3>2, <3>3
  <2>4. QED
    BY <2>2, <2>3
<1>2. QED
  BY <1>1, AlwaysTalking, PTL
=============================================================================
