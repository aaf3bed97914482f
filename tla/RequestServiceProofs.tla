------------------------ MODULE RequestServiceProofs ------------------------
(***************************************************************************)
(* Proofs about the rounds of one request, for files and bodies of every   *)
(* size and layout, every quantum and packet limit, and any number of      *)
(* rounds: typing, the hand-over at the end of a round, the accounts of rr *)
(* and drr, the lines and packets of a GET, the bytes of a PUT, the        *)
(* answers, and the contract of one request.                               *)
(***************************************************************************)
EXTENDS RequestRefinement, FiniteSetTheorems, SequenceTheorems,
        WellFoundedInduction, TLAPS

-----------------------------------------------------------------------------
(* Least elements and lines.                                               *)

LEMMA ConstantTypes ==
  /\ MaxBytes \in Nat /\ MaxSurplus \in Nat /\ MaxShortfall \in Nat
  /\ MaxRounds \in Nat /\ MaxChanges \in Nat
  /\ MaxQuantum \in Nat \ {0} /\ MaxPacket \in Nat \ {0} /\ BufSize \in Nat \ {0}
BY ServiceAssumption DEF ServiceAssumption

\* A nonempty set of naturals has the least element that Least chooses.
LEMMA LeastExists ==
  ASSUME NEW S \in SUBSET Nat, S # {}
  PROVE  Least(S) \in S /\ \A y \in S : Least(S) <= y
<1>1. PICK x \in S : \A y \in S : ~ (<<y, x>> \in OpToRel(<, Nat))
  BY NatLessThanWellFounded, WFMin
<1>2. ASSUME NEW y \in S PROVE x <= y
  <2>1. <<y, x>> \in Nat \X Nat /\ <<y, x>>[1] = y /\ <<y, x>>[2] = x
    OBVIOUS
  <2>2. ~(y < x)
    BY <1>1, <2>1, <1>2 DEF OpToRel
  <2>3. QED
    BY <2>2
<1>3. QED
  BY <1>2 DEF Least

\* What the body carried with the header and the credit leave to move.
LEMMA LeastOfTwo ==
  ASSUME NEW a \in Nat, NEW b \in Nat
  PROVE  /\ Least({a, b}) \in {a, b} /\ Least({a, b}) \in Nat
         /\ Least({a, b}) <= a /\ Least({a, b}) <= b
BY LeastExists, {a, b} \in SUBSET Nat, {a, b} # {}

\* What one recv may take.
LEMMA LeastOfThree ==
  ASSUME NEW a \in Nat, NEW b \in Nat, NEW c \in Nat
  PROVE  /\ Least({a, b, c}) \in Nat
         /\ Least({a, b, c}) <= a /\ Least({a, b, c}) <= b
         /\ Least({a, b, c}) <= c
BY LeastExists, {a, b, c} \in SUBSET Nat, {a, b, c} # {}

\* A line starts where the file has bytes, ends at a newline or at the end of
\* the file, and has no newline before its end.
LEMMA LineBounds ==
  ASSUME disk.size \in Nat, disk.ends \subseteq 1 .. disk.size,
         NEW at \in Nat
  PROVE  /\ LineLength(at) \in Nat
         /\ LineLength(at) > 0 <=> at < disk.size
         /\ at < disk.size =>
              /\ at + LineLength(at) \in disk.ends \cup {disk.size}
              /\ at + LineLength(at) <= disk.size
              /\ \A e \in disk.ends \cup {disk.size} :
                   e > at => at + LineLength(at) <= e
<1> DEFINE S == {e \in disk.ends \cup {disk.size} : e > at}
<1>1. CASE at >= disk.size
  BY <1>1 DEF LineLength
<1>2. CASE at < disk.size
  <2>1. S \in SUBSET Nat /\ S # {}
    BY <1>2
  <2>2. Least(S) \in S /\ \A y \in S : Least(S) <= y
    BY <2>1, LeastExists
  <2>3. LineLength(at) = Least(S) - at
    BY <1>2 DEF LineLength
  <2> HIDE DEF S
  <2>4. Least(S) \in disk.ends \cup {disk.size} /\ Least(S) > at
        /\ \A e \in disk.ends \cup {disk.size} : e > at => Least(S) <= e
    BY <2>2 DEF S
  <2>5. Least(S) \in Nat /\ Least(S) <= disk.size
    BY <2>4
  <2>6. QED
    BY <1>2, <2>3, <2>4, <2>5
<1>3. QED
  BY <1>1, <1>2

\* n bytes of the file or of the body.
LEMMA NumbersType ==
  ASSUME NEW from \in Nat, NEW n \in Nat
  PROVE  Numbers(from, n) \in Seq(Nat) /\ Len(Numbers(from, n)) = n
BY DEF Numbers

\* A reply keeps the list of replies what it is.
LEMMA RepliesGrow ==
  ASSUME NEW r \in Seq({"OK", "ERR"})
  PROVE  /\ Append(r, "OK") \in Seq({"OK", "ERR"})
         /\ Append(r, "ERR") \in Seq({"OK", "ERR"})
<1> DEFINE S == {"OK", "ERR"}
<1>1. "OK" \in S /\ "ERR" \in S /\ r \in Seq(S)
  OBVIOUS
<1> HIDE DEF S
<1>2. Append(r, "OK") \in Seq(S) /\ Append(r, "ERR") \in Seq(S)
  BY <1>1, AppendProperties
<1>3. QED
  BY <1>2 DEF S

-----------------------------------------------------------------------------
(* Typing.                                                                 *)

\* The request as it is admitted.
LEMMA InitJob ==
  ASSUME Init
  PROVE  \E policy \in Policies, quantum \in 1 .. MaxQuantum,
            packet \in 1 .. MaxPacket, n \in 0 .. MaxBytes,
            stream, early \in 0 .. MaxBytes + MaxSurplus,
            peerOk \in {TRUE, PeerReliable}, diskOk \in {TRUE, DiskReliable} :
           \/ /\ early = 0 /\ stream = 0
              /\ n = disk.size \/ (n > disk.size /\ ~diskOk)
              /\ job = [op |-> "GET", policy |-> policy, quantum |-> quantum,
                        packetLimit |-> packet, total |-> n, stream |-> 0,
                        peerReliable |-> peerOk, diskReliable |-> diskOk]
              /\ extra = <<>> /\ consumed = 0
           \/ /\ early <= stream /\ disk.size = 0 /\ packet = 1
              /\ stream \in n - MaxShortfall .. n + MaxSurplus
              /\ job = [op |-> "PUT", policy |-> policy, quantum |-> quantum,
                        packetLimit |-> 1, total |-> n, stream |-> stream,
                        peerReliable |-> peerOk, diskReliable |-> diskOk]
              /\ extra = Numbers(0, early) /\ consumed = early
BY DEF Init

LEMMA InitTyped == Init => TypeOK
<1> SUFFICES ASSUME Init PROVE TypeOK
  OBVIOUS
<1>1. disk.size \in Nat /\ disk.ends \subseteq 1 .. disk.size
  BY ConstantTypes DEF Init, Layouts
<1>2. PICK policy \in Policies, quantum \in 1 .. MaxQuantum,
           packet \in 1 .. MaxPacket, n \in 0 .. MaxBytes,
           stream, early \in 0 .. MaxBytes + MaxSurplus,
           peerOk \in {TRUE, PeerReliable}, diskOk \in {TRUE, DiskReliable} :
        \/ /\ early = 0 /\ stream = 0
           /\ n = disk.size \/ (n > disk.size /\ ~diskOk)
           /\ job = [op |-> "GET", policy |-> policy, quantum |-> quantum,
                     packetLimit |-> packet, total |-> n, stream |-> 0,
                     peerReliable |-> peerOk, diskReliable |-> diskOk]
           /\ extra = <<>> /\ consumed = 0
        \/ /\ early <= stream /\ disk.size = 0 /\ packet = 1
           /\ stream \in n - MaxShortfall .. n + MaxSurplus
           /\ job = [op |-> "PUT", policy |-> policy, quantum |-> quantum,
                     packetLimit |-> 1, total |-> n, stream |-> stream,
                     peerReliable |-> peerOk, diskReliable |-> diskOk]
           /\ extra = Numbers(0, early) /\ consumed = early
  BY InitJob, Zenon
<1>3. /\ quantum \in Nat \ {0} /\ packet \in Nat \ {0} /\ n \in Nat
      /\ stream \in Nat /\ early \in Nat
      /\ peerOk \in BOOLEAN /\ diskOk \in BOOLEAN
  <2>1. /\ quantum \in Nat \ {0} /\ packet \in Nat \ {0} /\ n \in Nat
        /\ stream \in Nat /\ early \in Nat
    BY ConstantTypes
  <2>2. peerOk \in BOOLEAN /\ diskOk \in BOOLEAN
    BY Zenon, ServiceAssumption DEF ServiceAssumption
  <2>3. QED
    BY <2>1, <2>2
<1>4. /\ job \in [op : {"GET", "PUT"}, policy : Policies, quantum : Nat \ {0},
                  packetLimit : Nat \ {0}, total : Nat, stream : Nat,
                  peerReliable : BOOLEAN, diskReliable : BOOLEAN]
      /\ consumed \in 0 .. job.stream
      /\ extra \in Seq(Nat)
  <2>1. CASE /\ early = 0 /\ stream = 0
             /\ job = [op |-> "GET", policy |-> policy, quantum |-> quantum,
                       packetLimit |-> packet, total |-> n, stream |-> 0,
                       peerReliable |-> peerOk, diskReliable |-> diskOk]
             /\ extra = <<>> /\ consumed = 0
    BY <1>3, <2>1
  <2>2. CASE /\ early <= stream
             /\ job = [op |-> "PUT", policy |-> policy, quantum |-> quantum,
                       packetLimit |-> 1, total |-> n, stream |-> stream,
                       peerReliable |-> peerOk, diskReliable |-> diskOk]
             /\ extra = Numbers(0, early) /\ consumed = early
    BY <1>3, <2>2, NumbersType
  <2>3. QED
    BY <1>2, <2>1, <2>2
<1>5. /\ stored \in Seq(Nat) /\ changes \in 0 .. MaxChanges
      /\ peer \in {"reading", "stalled", "gone"} /\ socket \in {"open", "closed"}
  BY ConstantTypes DEF Init
<1>6. body \in Seq(Nat) /\ replies \in Seq({"OK", "ERR"}) /\ batch \in Seq(Nat)
  BY DEF Init
<1>7. firstLine \in BOOLEAN /\ responseStarted \in BOOLEAN
  BY DEF Init
<1>8. /\ pc \in Pcs /\ rounds \in 0 .. MaxRounds
      /\ transferred \in Nat /\ deficit \in Nat /\ forfeited \in Nat
  BY ConstantTypes DEF Init, Pcs
<1>9. /\ quantumRemaining \in Nat /\ position \in Nat /\ linesInBatch \in Nat
      /\ overruns \in Nat
  BY DEF Init
<1>10. QED
  BY <1>1, <1>4, <1>5, <1>6, <1>7, <1>8, <1>9 DEF TypeOK

\* Moving bytes within the credit keeps the counters natural.
LEMMA MovesTyped ==
  ASSUME TypeOK, NEW n \in Nat, n <= Credit, Moves(n)
  PROVE  transferred' \in Nat /\ quantumRemaining' \in Nat /\ deficit' \in Nat
BY DEF TypeOK, Moves, Credit, rr, drr

LEMMA RejectsTyped == TypeOK /\ Rejects => TypeOK'
BY RepliesGrow DEF Rejects, SendErrs, TypeOK, Pcs, request, locals

LEMMA SendFailsTyped == TypeOK /\ SendFails => TypeOK'
BY DEF SendFails, SendErrs, TypeOK, Pcs, request, locals

\* What was sent of a packet is a prefix of it.
LEMMA PrefixType ==
  ASSUME NEW s \in Seq(Nat), NEW n \in 0 .. Len(s)
  PROVE  /\ SubSeq(s, 1, n) \in Seq(Nat) /\ Len(SubSeq(s, 1, n)) = n
         /\ \A i \in 1 .. n : SubSeq(s, 1, n)[i] = s[i]
<1>1. Len(s) \in Nat /\ \A i \in 1 .. Len(s) : s[i] \in Nat
  BY LenProperties, ElementOfSeq
<1>2. QED
  BY <1>1, SubSeqProperties

LEMMA PacketCutTyped == TypeOK /\ PacketCut => TypeOK'
<1> SUFFICES ASSUME TypeOK, PacketCut PROVE TypeOK'
  OBVIOUS
<1>1. PICK n \in 0 .. Len(batch) - 1 : body' = body \o SubSeq(batch, 1, n)
  BY DEF PacketCut
<1>2. n \in 0 .. Len(batch)
  BY <1>1, LenProperties DEF TypeOK
<1>3. body' \in Seq(Nat)
  BY <1>1, <1>2, PrefixType, ConcatProperties DEF TypeOK
<1>4. pc' \in Pcs /\ socket' = "closed"
  BY DEF PacketCut, SendErrs, Pcs
<1>5. UNCHANGED <<job, disk, stored, changes, peer, consumed, replies, request,
                  locals, overruns>>
  BY DEF PacketCut
<1>6. QED
  BY <1>3, <1>4, <1>5 DEF TypeOK, request, locals

\* Typing through the steps of a GET.
LEMMA GetTyped == TypeOK /\ GetStep => TypeOK'
<1> SUFFICES ASSUME TypeOK, GetStep PROVE TypeOK'
  OBVIOUS
<1>1. CASE OpenGet
  <2>1. CASE Rejects
    BY <2>1, RejectsTyped
  <2>2. CASE ~Rejects
    <3>1. firstLine' \in BOOLEAN
      BY <1>1, <2>2 DEF OpenGet
    <3>2. batch' \in Seq(Nat)
      BY <1>1, <2>2, <<>> \in Seq(Nat) DEF OpenGet
    <3>3. Granted \in Nat /\ StartOffset \in Nat /\ job.quantum \in Nat
      BY DEF Granted, StartOffset, TypeOK
    <3>4. /\ pc' \in Pcs /\ position' \in Nat /\ quantumRemaining' \in Nat
          /\ deficit' \in Nat /\ linesInBatch' \in Nat
      BY <1>1, <2>2, <3>3 DEF OpenGet, Pcs
    <3>5. UNCHANGED <<job, disk, stored, changes, peer, socket, consumed, replies,
                      body, rounds, transferred, responseStarted, forfeited,
                      extra, overruns>>
      BY <1>1, <2>2 DEF OpenGet
    <3>6. QED
      BY <3>1, <3>2, <3>4, <3>5 DEF TypeOK
  <2>3. QED
    BY <2>1, <2>2
<1> DEFINE length == LineLength(position)
<1>2. length \in Nat
  BY LineBounds DEF TypeOK
<1>3. CASE LineTaken
  <2>1. batch' \in Seq(Nat)
    BY <1>2, <1>3, NumbersType, ConcatProperties DEF LineTaken, TypeOK
  <2>2. /\ rr => length <= quantumRemaining
        /\ drr => length <= deficit
        /\ position' = position + length
        /\ transferred' = transferred + length
        /\ linesInBatch' = linesInBatch + 1
        /\ quantumRemaining' = IF rr THEN quantumRemaining - length
                                     ELSE quantumRemaining
        /\ deficit' = IF drr THEN deficit - length ELSE deficit
    BY <1>3 DEF LineTaken, Fits
  <2>3. pc' \in Pcs
    BY <1>3 DEF LineTaken, Pcs
  <2>4. firstLine' \in BOOLEAN
    BY <1>3 DEF LineTaken
  <2>5. UNCHANGED <<job, disk, stored, changes, peer, socket, consumed, replies,
                    body, rounds, responseStarted, forfeited, extra, overruns>>
    BY <1>3 DEF LineTaken
  <2> HIDE DEF length
  <2>6. quantumRemaining' \in Nat /\ deficit' \in Nat
    BY <1>2, <2>2 DEF TypeOK
  <2>7. position' \in Nat /\ transferred' \in Nat /\ linesInBatch' \in Nat
    <3>1. position \in Nat /\ transferred \in Nat /\ linesInBatch \in Nat
      BY DEF TypeOK
    <3>2. QED
      BY <1>2, <2>2, <3>1
  <2>8. QED
    BY <2>1, <2>3, <2>4, <2>5, <2>6, <2>7 DEF TypeOK
<1>4. CASE LineOverruns
  <2>1. batch' \in Seq(Nat)
    BY <1>2, <1>4, NumbersType, ConcatProperties DEF LineOverruns, TypeOK
  <2>2. /\ position' = position + length
        /\ transferred' = transferred + length
        /\ overruns' = overruns + 1
        /\ pc' = "flush"
    BY <1>4 DEF LineOverruns
  <2>3. UNCHANGED <<job, disk, stored, changes, peer, socket, consumed, replies,
                    body, rounds, deficit, responseStarted, forfeited, extra,
                    quantumRemaining, firstLine, linesInBatch>>
    BY <1>4 DEF LineOverruns
  <2> HIDE DEF length
  <2>4. position' \in Nat /\ transferred' \in Nat /\ overruns' \in Nat
    <3>1. position \in Nat /\ transferred \in Nat /\ overruns \in Nat
      BY DEF TypeOK
    <3>2. QED
      BY <1>2, <2>2, <3>1
  <2>5. QED
    BY <2>1, <2>2, <2>3, <2>4 DEF TypeOK, Pcs
<1>5. CASE LineForfeits
  BY SMTT(30), <1>5 DEF LineForfeits, TypeOK, Pcs, locals
<1>6. CASE LoopEnds
  BY <1>6 DEF LoopEnds, TypeOK, Pcs, request, locals
<1>7. CASE ReadFails
  BY <1>7, RejectsTyped DEF ReadFails
<1>8. CASE SendBatch
  <2>1. CASE PacketCut
    BY <2>1, PacketCutTyped
  <2>2. CASE ~PacketCut
    <3>1. body \o batch \in Seq(Nat) /\ <<>> \in Seq(Nat)
      BY ConcatProperties DEF TypeOK
    <3>2. body' \in Seq(Nat) /\ batch' \in Seq(Nat)
      BY <1>8, <2>2, <3>1 DEF SendBatch
    <3>3. pc' \in Pcs
      BY <1>8, <2>2 DEF SendBatch, Pcs
    <3>4. linesInBatch' \in Nat
      BY <1>8, <2>2 DEF SendBatch
    <3>5. UNCHANGED <<job, disk, stored, changes, peer, socket, consumed, replies,
                      rounds, transferred, deficit, responseStarted, forfeited,
                      extra, quantumRemaining, firstLine, position, overruns>>
      BY <1>8, <2>2 DEF SendBatch, request
    <3>6. QED
      BY <3>2, <3>3, <3>4, <3>5 DEF TypeOK
  <2>3. QED
    BY <2>1, <2>2
<1>9. CASE FinishGet
  BY <1>9 DEF FinishGet, SocketAfterGet, AfterRound, TypeOK, Pcs, locals
<1>10. QED
  BY <1>1, <1>3, <1>4, <1>5, <1>6, <1>7, <1>8, <1>9 DEF GetStep

\* Typing through the steps of a PUT.
LEMMA PutTyped == TypeOK /\ PutStep => TypeOK'
<1> SUFFICES ASSUME TypeOK, PutStep PROVE TypeOK'
  OBVIOUS
<1>1. Credit \in Nat
  BY DEF Credit, TypeOK
<1>2. CASE OpenPut
  <2>1. CASE Rejects
    BY <2>1, RejectsTyped
  <2>2. CASE ~Rejects
    <3>1. stored' \in Seq(Nat)
      BY <1>2, <2>2, <<>> \in Seq(Nat) DEF OpenPut, Opened, TypeOK
    <3>2. Granted \in Nat /\ job.quantum \in Nat
      BY SMTT(30) DEF Granted, TypeOK
    <3>3. pc' \in Pcs /\ quantumRemaining' \in Nat /\ deficit' \in Nat
      BY <1>2, <2>2, <3>2 DEF OpenPut, Pcs
    <3>4. QED
      BY <1>2, <2>2, <3>1, <3>3 DEF OpenPut, TypeOK
  <2>3. QED
    BY <2>1, <2>2
<1>3. CASE TakeExtra
  <2>1. CASE Rejects
    BY <2>1, RejectsTyped
  <2>2. CASE ~Rejects
    <3> DEFINE n == Least({Len(extra), Credit})
    <3>1. /\ stored' = stored \o SubSeq(extra, 1, n)
          /\ Moves(n)
          /\ extra' = IF Preemptive THEN SubSeq(extra, n + 1, Len(extra))
                                    ELSE extra
          /\ pc' = "loop"
          /\ UNCHANGED <<job, disk, changes, peer, socket, consumed, replies,
                         body, rounds, responseStarted, forfeited, firstLine,
                         position, batch, linesInBatch, overruns>>
      BY <1>3, <2>2 DEF TakeExtra
    <3>2. Len(extra) \in Nat /\ \A i \in 1 .. Len(extra) : extra[i] \in Nat
      BY LenProperties, ElementOfSeq DEF TypeOK
    <3>3. n \in Nat /\ n <= Len(extra) /\ n <= Credit
      BY <1>1, <3>2, LeastOfTwo
    <3> HIDE DEF n
    <3>4. /\ SubSeq(extra, 1, n) \in Seq(Nat)
          /\ SubSeq(extra, n + 1, Len(extra)) \in Seq(Nat)
      BY <3>2, <3>3, SubSeqProperties
    <3>5. stored' \in Seq(Nat) /\ extra' \in Seq(Nat)
      BY <3>1, <3>4, ConcatProperties DEF TypeOK
    <3>6. transferred' \in Nat /\ quantumRemaining' \in Nat /\ deficit' \in Nat
      BY <3>1, <3>3, MovesTyped
    <3>7. QED
      BY <3>1, <3>5, <3>6 DEF TypeOK, Pcs
  <2>3. QED
    BY <2>1, <2>2
<1>4. CASE Receive
  <2>1. job.total - transferred \in Nat
    BY SMTT(30), <1>4 DEF Receive, Receiving, TypeOK
  <2>2. PICK n \in 1 .. Least({BufSize, job.total - transferred, Credit}) :
          /\ consumed + n <= job.stream
          /\ consumed' = consumed + n
          /\ stored' = stored \o Numbers(consumed, n)
          /\ Moves(n)
    BY <1>4 DEF Receive
  <2>3. n \in Nat /\ n <= Credit
    BY <1>1, <2>1, ConstantTypes, LeastOfThree
  <2>4. stored' \in Seq(Nat) /\ consumed' \in 0 .. job.stream
    <3>1. /\ stored \in Seq(Nat) /\ consumed \in Nat /\ job.stream \in Nat
          /\ consumed \in 0 .. job.stream
      BY SMTT(30) DEF TypeOK
    <3>2. Numbers(consumed, n) \in Seq(Nat)
      BY <2>3, <3>1, NumbersType
    <3>3. QED
      BY <2>2, <2>3, <3>1, <3>2, ConcatProperties
  <2>5. transferred' \in Nat /\ quantumRemaining' \in Nat /\ deficit' \in Nat
    BY <2>2, <2>3, MovesTyped
  <2>6. UNCHANGED <<job, disk, changes, peer, socket, replies, body, pc, rounds,
                    responseStarted, forfeited, extra, firstLine, position,
                    batch, linesInBatch, overruns>>
    BY <1>4 DEF Receive
  <2>7. QED
    BY <2>4, <2>5, <2>6 DEF TypeOK
<1>5. CASE ReceiveFails
  BY <1>5, RejectsTyped DEF ReceiveFails
<1>6. CASE PutRoundEnds
  BY <1>6 DEF PutRoundEnds, AfterRound, TypeOK, Pcs, locals
<1>7. CASE SendFinalOk
  BY <1>7, SendFailsTyped, RepliesGrow
     DEF SendFinalOk, AfterRound, TypeOK, Pcs, request, locals
<1>8. QED
  BY <1>2, <1>3, <1>4, <1>5, <1>6, <1>7 DEF PutStep

LEMMA NextTyped == TypeOK /\ [Next]_vars => TypeOK'
<1> SUFFICES ASSUME TypeOK, [Next]_vars PROVE TypeOK'
  OBVIOUS
<1>1. CASE BeginRound
  BY SMTT(30), <1>1, ConstantTypes DEF BeginRound, TypeOK, Pcs, locals
<1>2. CASE SendStatus
  <2>1. CASE SendFails
    BY <2>1, SendFailsTyped
  <2>2. CASE ~SendFails
    <3>1. responseStarted' \in BOOLEAN
      BY <1>2, <2>2 DEF SendStatus, Preemptive, rr, drr
    <3>2. QED
      BY <1>2, <2>2, <3>1, RepliesGrow DEF SendStatus, TypeOK, Pcs, locals
  <2>3. QED
    BY <2>1, <2>2
<1>3. CASE PeerStops
  BY <1>3 DEF PeerStops, TypeOK, request, locals
<1>4. CASE FileChanges
  <2>1. disk'.size \in Nat /\ disk'.ends \subseteq 1 .. disk'.size
    BY SMTT(30), <1>4, ConstantTypes DEF FileChanges, Layouts, TypeOK
  <2>2. changes' \in 0 .. MaxChanges
    <3>1. changes \in Nat /\ changes < MaxChanges /\ changes' = changes + 1
      BY <1>4, ConstantTypes DEF FileChanges, TypeOK
    <3>2. QED
      BY <3>1, ConstantTypes
  <2>3. stored' \in Seq(Nat)
    <3>1. stored \in Seq(Nat)
      BY DEF TypeOK
    <3>2. QED
      BY <1>4, <3>1, PrefixType DEF FileChanges
  <2>4. UNCHANGED <<job, peer, socket, consumed, replies, body, pc, request,
                    locals, overruns>>
    BY <1>4 DEF FileChanges
  <2>5. QED
    BY <2>1, <2>2, <2>3, <2>4 DEF TypeOK, request, locals
<1>5. CASE UNCHANGED vars
  BY <1>5 DEF vars, TypeOK, request, locals
<1>6. QED
  BY <1>1, <1>2, <1>3, <1>4, <1>5, GetTyped, PutTyped DEF Next, Serve

\* However a file is cut into lines and a body into segments, no handler takes
\* more than its quantum or deficit allows it: the unsigned fields of the
\* request and the handlers' locals keep their types.
THEOREM ServiceTypeCorrect == Spec => []TypeOK
BY InitTyped, NextTyped, PTL DEF Spec
-----------------------------------------------------------------------------
(* The hand-over at the end of a round.                                    *)

\* During a round the descriptor is open; between rounds it is, unless fcfs or
\* sjf found less of a file than stat saw.
Sockets ==
  /\ pc \in {"open", "loop", "send", "flush", "extra", "finalOk"} =>
       socket = "open"
  /\ pc \in {"queued", "status"} =>
       socket = "open" \/ (Get /\ ~Preemptive /\ ~Intact)

\* Which handler a step of the round belongs to.
Sides ==
  /\ pc \in {"send", "flush"} => Get
  /\ pc \in {"extra", "finalOk"} => Put

\* A GET of a file nobody changes reads on where it stopped, never past what can
\* be read nor past the size it announced, and fcfs and sjf read all they can of
\* it in one round, after which they have nothing open to go on with.
GetProgress ==
  (Get /\ changes = 0) =>
    /\ disk.size <= job.total /\ transferred <= disk.size
    /\ pc \in {"loop", "send", "flush"} => position = transferred
    /\ ~Preemptive => /\ pc \in {"queued", "status"} =>
                           transferred = 0 \/ socket = "closed"
                      /\ pc = "open" => transferred = 0
                      /\ pc = "flush" => transferred = disk.size

\* A PUT has moved what it took from the client and does not hold any more, and
\* is complete when its last answer is sent.
PutProgress ==
  Put => /\ Preemptive => transferred + Len(extra) = consumed
         /\ pc = "finalOk" => transferred >= job.total

HandOverInv == HandOver /\ Sockets /\ Sides /\ GetProgress /\ PutProgress

\* What the proofs below use of the typing.
LEMMA Naturals ==
  ASSUME TypeOK
  PROVE  /\ job.total \in Nat /\ job.stream \in Nat
         /\ job.quantum \in Nat \ {0} /\ job.packetLimit \in Nat \ {0}
         /\ job.op \in {"GET", "PUT"}
         /\ disk.size \in Nat /\ disk.ends \subseteq 1 .. disk.size
         /\ transferred \in Nat /\ deficit \in Nat /\ forfeited \in Nat
         /\ quantumRemaining \in Nat /\ position \in Nat
         /\ rounds \in Nat /\ changes \in Nat /\ overruns \in Nat
         /\ consumed \in Nat /\ consumed <= job.stream
         /\ Len(extra) \in Nat
         /\ pc \in Pcs /\ socket \in {"open", "closed"}
<1>1. Len(extra) \in Nat
  BY LenProperties DEF TypeOK
<1>2. rounds \in Nat /\ changes \in Nat
  BY ConstantTypes DEF TypeOK
<1>3. QED
  BY SMTT(30), <1>1, <1>2 DEF TypeOK

LEMMA InitHandOver == Init => HandOverInv
<1> SUFFICES ASSUME Init PROVE HandOverInv
  OBVIOUS
<1>1. TypeOK
  BY InitTyped
<1>2. Get => disk.size <= job.total
  <2>1. PICK n \in 0 .. MaxBytes :
          Get => job.total = n /\ (n = disk.size \/ n > disk.size)
    BY DEF Init, Get
  <2>2. n \in Nat /\ disk.size \in Nat
    BY <1>1, ConstantTypes, Naturals
  <2>3. QED
    BY <2>1, <2>2
<1>3. Put => transferred + Len(extra) = consumed
  <2>1. PICK early \in 0 .. MaxBytes + MaxSurplus :
          Put => extra = Numbers(0, early) /\ consumed = early
    BY DEF Init, Put
  <2>2. early \in Nat
    BY ConstantTypes
  <2>3. QED
    BY <2>1, <2>2, NumbersType DEF Init
<1>4. QED
  BY <1>1, <1>2, <1>3, Naturals
     DEF Init, HandOverInv, HandOver, Sockets, Sides, GetProgress, PutProgress

\* a step that gives the request up: an error answer, or a send that fails
Fails == Rejects \/ SendFails \/ PacketCut

\* It closes the descriptor and leaves the request as it was.
LEMMA FailsWhat ==
  ASSUME Fails
  PROVE  /\ pc' \in {"failed", "killed"} /\ socket' = "closed"
         /\ UNCHANGED <<job, disk, stored, changes, peer, consumed, request, locals,
                        overruns>>
         /\ PacketCut \/ UNCHANGED body
<1>1. CASE Rejects
  BY <1>1 DEF Rejects, SendErrs
<1>2. CASE SendFails
  BY <1>2 DEF SendFails, SendErrs
<1>3. CASE PacketCut
  BY <1>3 DEF PacketCut, SendErrs
<1>4. QED
  BY <1>1, <1>2, <1>3 DEF Fails

LEMMA FailsHandOver == TypeOK /\ HandOverInv /\ Fails => HandOverInv'
BY Naturals, FailsWhat
   DEF HandOverInv, HandOver, Sockets, Sides, GetProgress, PutProgress, request,
       Get, Put, Preemptive, rr, drr

LEMMA GetHandOver ==
  TypeOK /\ HandOverInv /\ GetStep => HandOverInv'
<1> SUFFICES ASSUME TypeOK, HandOverInv, GetStep PROVE HandOverInv'
  OBVIOUS
<1> USE Naturals
    DEF HandOverInv, HandOver, Sockets, Sides, GetProgress, PutProgress, Intact,
        Get, Put, Preemptive, rr, drr
<1>1. CASE OpenGet
  BY <1>1, FailsHandOver DEF OpenGet, StartOffset, Fails
<1>2. /\ LineLength(position) \in Nat
      /\ position < disk.size => position + LineLength(position) <= disk.size
      /\ LineLength(position) > 0 <=> position < disk.size
  BY LineBounds
<1>3. CASE LineTaken
  BY <1>2, <1>3 DEF LineTaken, Reading
<1>4. CASE LineOverruns
  BY SMTT(30), <1>2, <1>4 DEF LineOverruns, Reading
<1>5. CASE LineForfeits
  BY <1>5 DEF LineForfeits, locals, Reading
<1>6. CASE LoopEnds
  BY SMTT(30), <1>2, <1>6 DEF LoopEnds, request, locals
<1>7. CASE ReadFails
  BY <1>7, FailsHandOver DEF ReadFails, Fails
<1>8. CASE SendBatch
  BY <1>8, FailsHandOver DEF SendBatch, request, Fails
<1>9. CASE FinishGet
  BY SMTT(30), <1>9 DEF FinishGet, SocketAfterGet, AfterRound, locals
<1>10. QED
  BY <1>1, <1>3, <1>4, <1>5, <1>6, <1>7, <1>8, <1>9 DEF GetStep

\* How far a PUT gets with what its header brought.
LEMMA TakesExtra ==
  ASSUME TypeOK, TakeExtra, ~Rejects
  PROVE  /\ pc = "extra" /\ pc' = "loop"
         /\ \E n \in Nat :
              /\ n = Least({Len(extra), Credit}) /\ n <= Len(extra) /\ n <= Credit
              /\ stored' = stored \o SubSeq(extra, 1, n)
              /\ Moves(n)
              /\ Preemptive => /\ extra' = SubSeq(extra, n + 1, Len(extra))
                              /\ Len(extra') = Len(extra) - n
              /\ ~Preemptive => extra' = extra
         /\ UNCHANGED <<job, disk, changes, peer, socket, consumed, replies, body,
                        rounds, responseStarted, forfeited, firstLine, position,
                        batch, linesInBatch, overruns>>
<1> DEFINE n == Least({Len(extra), Credit})
<1>1. Len(extra) \in Nat /\ \A i \in 1 .. Len(extra) : extra[i] \in Nat
  BY LenProperties, ElementOfSeq DEF TypeOK
<1>2. Credit \in Nat
  BY DEF Credit, TypeOK
<1>3. n \in Nat /\ n <= Len(extra) /\ n <= Credit
  BY <1>1, <1>2, LeastOfTwo
<1>4. /\ pc = "extra" /\ pc' = "loop"
      /\ stored' = stored \o SubSeq(extra, 1, n)
      /\ Moves(n)
      /\ extra' = IF Preemptive THEN SubSeq(extra, n + 1, Len(extra)) ELSE extra
      /\ UNCHANGED <<job, disk, changes, peer, socket, consumed, replies, body,
                     rounds, responseStarted, forfeited, firstLine, position,
                     batch, linesInBatch, overruns>>
  BY DEF TakeExtra
<1> HIDE DEF n
<1>5. Len(SubSeq(extra, n + 1, Len(extra))) = Len(extra) - n
  BY <1>1, <1>3, SubSeqProperties
<1>6. QED
  BY <1>3, <1>4, <1>5 DEF n

\* What one recv moves.
LEMMA Receives ==
  ASSUME TypeOK, Receive
  PROVE  /\ Receiving
         /\ \E n \in Nat \ {0} :
              /\ n <= Credit /\ n <= job.total - transferred
              /\ consumed' = consumed + n /\ consumed + n <= job.stream
              /\ stored' = stored \o Numbers(consumed, n)
              /\ Moves(n)
         /\ UNCHANGED <<job, disk, changes, peer, socket, replies, body, pc, rounds,
                        responseStarted, forfeited, extra, firstLine, position,
                        batch, linesInBatch, overruns>>
<1>1. job.total - transferred \in Nat
  BY SMTT(30) DEF Receive, Receiving, TypeOK
<1>2. Credit \in Nat
  BY DEF Credit, TypeOK
<1>3. PICK n \in 1 .. Least({BufSize, job.total - transferred, Credit}) :
        /\ consumed + n <= job.stream
        /\ consumed' = consumed + n
        /\ stored' = stored \o Numbers(consumed, n)
        /\ Moves(n)
  BY DEF Receive
<1>4. n \in Nat \ {0} /\ n <= Credit /\ n <= job.total - transferred
  BY <1>1, <1>2, ConstantTypes, LeastOfThree
<1>5. /\ Receiving
      /\ UNCHANGED <<job, disk, changes, peer, socket, replies, body, pc, rounds,
                     responseStarted, forfeited, extra, firstLine, position,
                     batch, linesInBatch, overruns>>
  BY DEF Receive
<1>6. QED
  BY <1>3, <1>4, <1>5

\* A PUT stays one, and its policy the same.
LEMMA PutStays ==
  ASSUME Put, UNCHANGED job
  PROVE  Put' /\ ~Get' /\ (Preemptive' <=> Preemptive) /\ (rr' <=> rr) /\ (drr' <=> drr)
BY DEF Put, Get, Preemptive, rr, drr

LEMMA PutHandOver ==
  TypeOK /\ HandOverInv /\ PutStep => HandOverInv'
<1> SUFFICES ASSUME TypeOK, HandOverInv, PutStep PROVE HandOverInv'
  OBVIOUS
<1>1. /\ job.total \in Nat /\ job.stream \in Nat
      /\ transferred \in Nat /\ Len(extra) \in Nat
      /\ consumed \in Nat /\ consumed <= job.stream
  BY Naturals
<1>2. CASE OpenPut
  BY SMTT(30), <1>2, Naturals, FailsHandOver
     DEF OpenPut, HandOverInv, HandOver, Sockets, Sides, GetProgress, PutProgress,
         Get, Put, Preemptive, rr, drr, Fails
<1>3. CASE TakeExtra /\ ~Rejects
  <2>1. /\ pc = "extra" /\ pc' = "loop"
        /\ UNCHANGED <<job, changes, socket, consumed>>
    BY <1>3, TakesExtra
  <2>2. PICK n \in Nat : /\ n <= Len(extra) /\ Moves(n)
                         /\ Preemptive => Len(extra') = Len(extra) - n
    BY <1>3, TakesExtra
  <2>3. socket = "open" /\ Put /\ (Preemptive => transferred + Len(extra) = consumed)
    BY <2>1 DEF HandOverInv, Sides, PutProgress, Sockets
  <2>4. Preemptive => transferred' + Len(extra') = consumed'
    BY <1>1, <2>1, <2>2, <2>3 DEF Moves
  <2>5. HandOver'
    BY <2>1 DEF HandOver
  <2>6. Sockets' /\ Sides' /\ GetProgress' /\ PutProgress'
    BY <2>1, <2>3, <2>4, PutStays DEF Sockets, Sides, GetProgress, PutProgress
  <2>7. QED
    BY <2>5, <2>6 DEF HandOverInv
<1>4. CASE Receive
  <2>1. Receiving /\ UNCHANGED <<job, pc, changes, socket, extra>>
    BY <1>4, Receives
  <2>2. PICK n \in Nat : Moves(n) /\ consumed' = consumed + n
    BY <1>4, Receives
  <2>3. /\ pc = "loop" /\ socket = "open" /\ Put
        /\ Preemptive => transferred + Len(extra) = consumed
    BY <2>1 DEF HandOverInv, Sides, PutProgress, Sockets, Receiving
  <2>4. Preemptive => transferred' + Len(extra') = consumed'
    BY <1>1, <2>1, <2>2, <2>3 DEF Moves
  <2>5. HandOver'
    BY <2>1, <2>3 DEF HandOver
  <2>6. Sockets' /\ Sides' /\ GetProgress' /\ PutProgress'
    BY <2>1, <2>3, <2>4, PutStays DEF Sockets, Sides, GetProgress, PutProgress
  <2>7. QED
    BY <2>5, <2>6 DEF HandOverInv
<1>5. CASE PutRoundEnds
  <2>1. /\ pc = "loop" /\ Put /\ ~Receiving
        /\ pc' = IF ~Preemptive \/ transferred = job.total THEN "finalOk"
                 ELSE AfterRound
        /\ UNCHANGED <<job, changes, socket, consumed, transferred, extra>>
    BY <1>5 DEF PutRoundEnds
  <2>2. ~Preemptive => Credit = job.total
    BY DEF Credit, Preemptive
  <2>3. ~Preemptive => transferred >= job.total
    BY <1>1, <2>1, <2>2 DEF Receiving
  <2>4. socket = "open" /\ (Preemptive => transferred + Len(extra) = consumed)
    BY <2>1 DEF HandOverInv, Sockets, PutProgress
  <2>5. HandOver'
    BY <1>1, <2>1, <2>4, PutStays DEF HandOver, AfterRound
  <2>6. Sockets' /\ Sides' /\ GetProgress' /\ PutProgress'
    BY <1>1, <2>1, <2>3, <2>4, PutStays
       DEF Sockets, Sides, GetProgress, PutProgress, AfterRound
  <2>7. QED
    BY <2>5, <2>6 DEF HandOverInv
<1>6. CASE SendFinalOk /\ ~SendFails
  <2>1. /\ pc = "finalOk" /\ pc' = AfterRound /\ socket' = "closed"
        /\ UNCHANGED <<job, changes, consumed, transferred, extra>>
    BY <1>6 DEF SendFinalOk, request
  <2>2. /\ Put /\ transferred >= job.total
        /\ Preemptive => transferred + Len(extra) = consumed
    BY <2>1 DEF HandOverInv, Sides, PutProgress
  <2>3. pc' = "done"
    BY <1>1, <2>1, <2>2 DEF AfterRound
  <2>4. HandOver'
    BY <2>1, <2>3 DEF HandOver
  <2>5. Sockets' /\ Sides' /\ GetProgress' /\ PutProgress'
    BY <2>1, <2>2, <2>3, PutStays DEF Sockets, Sides, GetProgress, PutProgress
  <2>6. QED
    BY <2>4, <2>5 DEF HandOverInv
<1>7. CASE Fails
  BY <1>7, FailsHandOver DEF Fails
<1>8. QED
  BY <1>2, <1>3, <1>4, <1>5, <1>6, <1>7 DEF PutStep, ReceiveFails, Fails

LEMMA NextHandOver == TypeOK /\ HandOverInv /\ [Next]_vars => HandOverInv'
<1> SUFFICES ASSUME TypeOK, HandOverInv, [Next]_vars PROVE HandOverInv'
  OBVIOUS
<1> USE Naturals
    DEF HandOverInv, HandOver, Sockets, Sides, GetProgress, PutProgress, Intact,
        Get, Put, Preemptive, rr, drr
<1>1. CASE BeginRound
  BY <1>1 DEF BeginRound, locals
<1>2. CASE SendStatus
  BY <1>2, FailsHandOver DEF SendStatus, CanSend, locals, Fails
<1>3. CASE PeerStops
  BY <1>3 DEF PeerStops, request, locals
<1>4. CASE FileChanges
  <2>1. changes' > 0
    BY <1>4 DEF FileChanges
  <2>2. UNCHANGED <<job, socket, consumed, pc, request, locals>>
    BY <1>4 DEF FileChanges
  <2>3. QED
    BY SMTT(30), <2>1, <2>2 DEF request, locals
<1>5. CASE UNCHANGED vars
  BY <1>5 DEF vars, request, locals
<1>6. QED
  BY <1>1, <1>2, <1>3, <1>4, <1>5, GetHandOver, PutHandOver DEF Next, Serve

\* The outcomes of a round that the threads of FileServer rely on, for every
\* file, body and fault the model has: no error path leaves the descriptor open,
\* only fcfs and sjf requeue a closed one, after a file, directory or disk that
\* gave less than stat announced, and only a file that grew or a body longer than
\* announced makes rr or drr finish with an open one.
THEOREM RoundsHandOver == Spec => []HandOver
<1>1. HandOverInv => HandOver
  BY DEF HandOverInv
<1>2. QED
  BY <1>1, InitHandOver, NextHandOver, ServiceTypeCorrect, PTL DEF Spec
-----------------------------------------------------------------------------
(* The accounts of rr and drr.                                             *)

\* what the rounds so far allow a request to move
Allowance == rounds * job.quantum

\* rr: what the request has had is its allowance, or more if a line overran
Balanced(used) == IF overruns = 0 THEN used = Allowance ELSE used > Allowance

\* The account of rr at every step of a round: what is left of the quantum
\* belongs to it until the round is flushed, except when all has been sent.
RoundRobinInv ==
  rr =>
    /\ Put => forfeited = 0 /\ overruns = 0
    /\ pc = "queued" => Balanced(transferred + forfeited)
    /\ pc \in {"status", "open"} =>
         Balanced(transferred + forfeited + job.quantum)
    /\ pc \in {"extra", "loop", "send"} =>
         Balanced(transferred + forfeited + quantumRemaining)
    /\ pc = "flush" =>
         transferred >= job.total \/ Balanced(transferred + forfeited)

\* The account of drr at every step of a round; once the last packet of the
\* round is made up, the next line is longer than the deficit.
DeficitInv ==
  drr =>
    /\ pc \in {"status", "open"} =>
         transferred + deficit + job.quantum = Allowance
    /\ pc \in {"queued", "extra", "loop", "send", "flush"} =>
         transferred + deficit = Allowance
    /\ Put /\ pc = "queued" /\ rounds > 0 => deficit = 0
    /\ /\ Get /\ changes = 0
       /\ \/ pc = "flush" /\ transferred < job.total
          \/ pc = "queued" /\ rounds > 0
       => deficit < LineLength(transferred)

AccountsInv == RoundRobinInv /\ DeficitInv

LEMMA AllowanceSteps ==
  ASSUME TypeOK
  PROVE  /\ Allowance \in Nat
         /\ UNCHANGED <<rounds, job>> => Allowance' = Allowance
         /\ rounds' = rounds + 1 /\ UNCHANGED job =>
              Allowance' = Allowance + job.quantum
<1>1. rounds \in Nat /\ job.quantum \in Nat
  BY Naturals
<1>2. \A r, q \in Nat : r * q \in Nat /\ (r + 1) * q = r * q + q
  OBVIOUS
<1>3. QED
  BY <1>1, <1>2 DEF Allowance

\* A step that leaves the request's account alone keeps the balance.
LEMMA BalanceStays ==
  ASSUME TypeOK, UNCHANGED <<rounds, job, overruns>>, NEW used
  PROVE  Balanced(used)' <=> Balanced(used')
BY DEF Balanced, Allowance

LEMMA InitAccounts == Init => AccountsInv
<1> SUFFICES ASSUME Init PROVE AccountsInv
  OBVIOUS
<1>1. TypeOK
  BY InitTyped
<1>2. rounds = 0 /\ job.quantum \in Nat
  BY <1>1, Naturals DEF Init
<1>3. Allowance = 0
  BY <1>2 DEF Allowance
<1>4. QED
  BY <1>3 DEF Init, AccountsInv, RoundRobinInv, DeficitInv, Balanced

\* A round that fails is not accounted for.
LEMMA FailureAccounts ==
  ASSUME TypeOK, AccountsInv, Fails
  PROVE  AccountsInv'
<1>1. pc' \in {"failed", "killed"} /\ UNCHANGED <<job, forfeited, overruns>>
  BY FailsWhat DEF request
<1>2. QED
  BY <1>1 DEF AccountsInv, RoundRobinInv, DeficitInv, rr, drr, Put

\* No step within a round changes what the request is, or its allowance.
LEMMA RoundKeeps ==
  ASSUME TypeOK, GetStep \/ PutStep
  PROVE  /\ UNCHANGED <<job, rounds, changes, disk>> /\ Allowance' = Allowance
         /\ (rr' <=> rr) /\ (drr' <=> drr) /\ (Put' <=> Put) /\ (Get' <=> Get)
<1>1. CASE GetStep
  <2>1. UNCHANGED <<job, rounds, changes, disk>>
    BY <1>1 DEF GetStep, OpenGet, LineTaken, LineOverruns, LineForfeits, LoopEnds,
                ReadFails, SendBatch, FinishGet, Rejects, PacketCut, request
  <2>2. QED
    BY <2>1, AllowanceSteps DEF rr, drr, Put, Get
<1>2. CASE PutStep
  <2>1. UNCHANGED <<job, rounds, changes, disk>>
    BY <1>2 DEF PutStep, OpenPut, TakeExtra, Receive, ReceiveFails, PutRoundEnds,
                SendFinalOk, Rejects, SendFails, request
  <2>2. QED
    BY <2>1, AllowanceSteps DEF rr, drr, Put, Get
<1>3. QED
  BY <1>1, <1>2

LEMMA GetRoundRobin ==
  ASSUME TypeOK, HandOverInv, RoundRobinInv, GetStep, ~Rejects, ~SendFails, ~PacketCut, rr
  PROVE  RoundRobinInv'
<1>1. /\ UNCHANGED <<job, rounds>> /\ Allowance' = Allowance
      /\ rr' /\ (Put' <=> Put)
  BY RoundKeeps
<1>2. /\ transferred \in Nat /\ forfeited \in Nat /\ quantumRemaining \in Nat
      /\ overruns \in Nat /\ job.total \in Nat /\ job.quantum \in Nat
      /\ Allowance \in Nat
  BY Naturals, AllowanceSteps
<1>3. LineLength(position) \in Nat
  BY LineBounds, Naturals
<1>4. Put => forfeited = 0 /\ overruns = 0
  BY DEF RoundRobinInv
<1>5. CASE OpenGet
  <2>1. /\ pc = "open" /\ pc' = "loop" /\ quantumRemaining' = job.quantum
        /\ UNCHANGED <<transferred, forfeited, overruns>>
    BY <1>5 DEF OpenGet
  <2>2. Balanced(transferred + forfeited + job.quantum)
    BY <2>1 DEF RoundRobinInv
  <2>3. QED
    BY <1>1, <1>4, <2>1, <2>2 DEF RoundRobinInv, Balanced
<1>6. CASE LineTaken
  <2> DEFINE n == LineLength(position)
  <2>1. /\ pc = "loop" /\ Get /\ n <= quantumRemaining
        /\ transferred' = transferred + n
        /\ quantumRemaining' = quantumRemaining - n
        /\ pc' \in {"send", "flush", "loop"}
        /\ pc' = "flush" => quantumRemaining' = 0
        /\ UNCHANGED <<forfeited, overruns>>
    BY <1>6 DEF LineTaken, Reading, Fits
  <2>2. Balanced(transferred + forfeited + quantumRemaining)
    BY <2>1 DEF RoundRobinInv
  <2> HIDE DEF n
  <2>3. /\ transferred' + forfeited' + quantumRemaining' =
             transferred + forfeited + quantumRemaining
        /\ pc' = "flush" => transferred' + forfeited' =
                              transferred + forfeited + quantumRemaining
    BY <1>2, <1>3, <2>1 DEF n
  <2>4. QED
    BY <1>1, <1>4, <2>1, <2>2, <2>3 DEF RoundRobinInv, Balanced
<1>7. CASE LineOverruns
  <2> DEFINE n == LineLength(position)
  <2>1. /\ pc = "loop" /\ Get /\ n > quantumRemaining
        /\ transferred' = transferred + n /\ overruns' = overruns + 1
        /\ pc' = "flush" /\ UNCHANGED forfeited
    BY <1>7 DEF LineOverruns, Reading
  <2>2. Balanced(transferred + forfeited + quantumRemaining)
    BY <2>1 DEF RoundRobinInv
  <2>3. transferred + forfeited + quantumRemaining >= Allowance
    BY <1>2, <2>2 DEF Balanced
  <2> HIDE DEF n
  <2>4. transferred' + forfeited' > Allowance /\ overruns' # 0
    BY <1>2, <1>3, <2>1, <2>3 DEF n
  <2>5. ~Put
    BY <2>1 DEF Get, Put
  <2>6. QED
    BY <1>1, <2>1, <2>4, <2>5 DEF RoundRobinInv, Balanced
<1>8. CASE LineForfeits
  <2>1. /\ pc = "loop" /\ Get /\ forfeited' = forfeited + quantumRemaining
        /\ pc' = "flush" /\ UNCHANGED <<transferred, overruns>>
    BY <1>8 DEF LineForfeits, Reading
  <2>2. Balanced(transferred + forfeited + quantumRemaining)
    BY <2>1 DEF RoundRobinInv
  <2>3. transferred' + forfeited' = transferred + forfeited + quantumRemaining
    BY <1>2, <2>1
  <2>4. ~Put
    BY <2>1 DEF Get, Put
  <2>5. QED
    BY <1>1, <2>1, <2>2, <2>3, <2>4 DEF RoundRobinInv, Balanced
<1>9. CASE LoopEnds
  <2>1. transferred >= job.total
    BY <1>9 DEF LoopEnds, Preemptive, rr, drr
  <2>2. pc' = "flush" /\ UNCHANGED <<transferred, forfeited, overruns>>
    BY <1>9 DEF LoopEnds, request
  <2>3. QED
    BY <1>1, <1>4, <2>1, <2>2 DEF RoundRobinInv
<1>10. CASE SendBatch
  <2>1. /\ pc \in {"send", "flush"}
        /\ pc' = IF pc = "send" /\ quantumRemaining # 0 THEN "loop" ELSE "flush"
        /\ UNCHANGED <<transferred, forfeited, overruns, quantumRemaining>>
    BY <1>10 DEF SendBatch, request
  <2>2. CASE pc = "send"
    <3>1. Balanced(transferred + forfeited + quantumRemaining)
      BY <2>2 DEF RoundRobinInv
    <3>2. quantumRemaining = 0 => Balanced(transferred + forfeited)
      BY <1>2, <3>1
    <3>3. QED
      BY <1>1, <1>4, <2>1, <2>2, <3>1, <3>2 DEF RoundRobinInv, Balanced
  <2>3. CASE pc = "flush"
    BY <1>1, <1>4, <2>1, <2>3 DEF RoundRobinInv, Balanced
  <2>4. QED
    BY <2>1, <2>2, <2>3
<1>11. CASE FinishGet
  <2>1. /\ pc = "flush" /\ pc' = AfterRound
        /\ UNCHANGED <<transferred, forfeited, overruns>>
    BY <1>11 DEF FinishGet
  <2>2. pc' \in {"queued", "done"} /\ (pc' = "queued" => transferred < job.total)
    BY <2>1 DEF AfterRound
  <2>3. QED
    BY <1>1, <1>2, <1>4, <2>1, <2>2 DEF RoundRobinInv, Balanced
<1>12. QED
  BY <1>5, <1>6, <1>7, <1>8, <1>9, <1>10, <1>11 DEF GetStep, ReadFails

LEMMA PutRoundRobin ==
  ASSUME TypeOK, HandOverInv, RoundRobinInv, PutStep, ~Rejects, ~SendFails, ~PacketCut, rr
  PROVE  RoundRobinInv'
<1>1. /\ UNCHANGED <<job, rounds>> /\ Allowance' = Allowance
      /\ rr' /\ (Put' <=> Put)
  BY RoundKeeps
<1>2. /\ transferred \in Nat /\ forfeited \in Nat /\ quantumRemaining \in Nat
      /\ overruns \in Nat /\ job.total \in Nat /\ job.quantum \in Nat
      /\ Allowance \in Nat
  BY Naturals, AllowanceSteps
<1>3. Put => forfeited = 0 /\ overruns = 0
  BY DEF RoundRobinInv
<1>4. CASE OpenPut
  <2>1. /\ pc = "open" /\ pc' = "extra" /\ quantumRemaining' = job.quantum
        /\ UNCHANGED <<transferred, forfeited, overruns>>
    BY <1>4 DEF OpenPut
  <2>2. Balanced(transferred + forfeited + job.quantum)
    BY <2>1 DEF RoundRobinInv
  <2>3. QED
    BY <1>1, <1>3, <2>1, <2>2 DEF RoundRobinInv, Balanced
<1>5. ASSUME NEW n \in Nat, Moves(n), pc \in {"extra", "loop"}, pc' = "loop",
             UNCHANGED <<forfeited, overruns>>
      PROVE  RoundRobinInv'
  <2>1. /\ transferred' = transferred + n
        /\ quantumRemaining' = quantumRemaining - n
    BY <1>5 DEF Moves
  <2>2. Balanced(transferred + forfeited + quantumRemaining)
    BY <1>5 DEF RoundRobinInv
  <2>3. transferred' + forfeited' + quantumRemaining' =
          transferred + forfeited + quantumRemaining
    BY <1>2, <1>5, <2>1
  <2>4. QED
    BY <1>1, <1>3, <1>5, <2>2, <2>3 DEF RoundRobinInv, Balanced
<1>6. CASE TakeExtra
  BY <1>5, <1>6, TakesExtra
<1>7. CASE Receive
  BY <1>5, <1>7, Receives DEF Receiving
<1>8. CASE PutRoundEnds
  <2>1. /\ pc = "loop" /\ Put /\ ~Receiving
        /\ pc' \in {"finalOk", AfterRound}
        /\ UNCHANGED <<transferred, forfeited, overruns, quantumRemaining>>
    BY <1>8 DEF PutRoundEnds, locals
  <2>2. /\ pc' \in {"finalOk", "queued", "done"}
        /\ pc' = "queued" => transferred < job.total
    BY <2>1 DEF AfterRound
  <2>3. pc' = "queued" => quantumRemaining = 0
    BY <1>2, <2>1, <2>2 DEF Receiving, Credit
  <2>4. Balanced(transferred + forfeited + quantumRemaining)
    BY <2>1 DEF RoundRobinInv
  <2>5. pc' = "queued" => Balanced(transferred + forfeited)
    BY <1>2, <2>3, <2>4
  <2>6. QED
    BY <1>1, <1>3, <2>1, <2>2, <2>5 DEF RoundRobinInv, Balanced
<1>9. CASE SendFinalOk
  <2>1. /\ pc = "finalOk" /\ pc' = AfterRound
        /\ UNCHANGED <<transferred, forfeited, overruns>>
    BY <1>9 DEF SendFinalOk, request
  <2>2. transferred >= job.total
    BY <2>1 DEF HandOverInv, Sides, PutProgress
  <2>3. pc' = "done"
    BY <1>2, <2>1, <2>2 DEF AfterRound
  <2>4. QED
    BY <1>1, <1>3, <2>1, <2>3 DEF RoundRobinInv
<1>10. QED
  BY <1>4, <1>6, <1>7, <1>8, <1>9 DEF PutStep, ReceiveFails

LEMMA GetDeficit ==
  ASSUME TypeOK, HandOverInv, DeficitInv, GetStep, ~Rejects, ~SendFails, ~PacketCut, drr
  PROVE  DeficitInv'
<1>1. /\ UNCHANGED <<job, rounds, changes, disk>> /\ Allowance' = Allowance
      /\ drr' /\ (Put' <=> Put) /\ (Get' <=> Get)
  BY RoundKeeps
<1>2. /\ transferred \in Nat /\ deficit \in Nat /\ rounds \in Nat
      /\ job.total \in Nat /\ job.quantum \in Nat /\ Allowance \in Nat
  BY Naturals, AllowanceSteps
<1>3. LineLength(position) \in Nat
  BY LineBounds, Naturals
<1>4. \A at : LineLength(at)' = LineLength(at)
  BY <1>1 DEF LineLength
<1>5. CASE OpenGet
  <2>1. /\ pc = "open" /\ pc' = "loop" /\ deficit' = deficit + job.quantum
        /\ UNCHANGED transferred
    BY <1>5 DEF OpenGet, Granted
  <2>2. transferred + deficit + job.quantum = Allowance
    BY <2>1 DEF DeficitInv
  <2>3. transferred' + deficit' = Allowance'
    BY <1>1, <1>2, <2>1, <2>2
  <2>4. QED
    BY <2>1, <2>3 DEF DeficitInv
<1>6. CASE LineTaken
  <2> DEFINE n == LineLength(position)
  <2>1. /\ pc = "loop" /\ n <= deficit
        /\ transferred' = transferred + n /\ deficit' = deficit - n
        /\ pc' \in {"send", "loop"}
    BY <1>6 DEF LineTaken, Reading, Fits, rr, drr
  <2>2. transferred + deficit = Allowance
    BY <2>1 DEF DeficitInv
  <2>3. n \in Nat
    BY <1>3
  <2> HIDE DEF n
  <2>4. transferred' + deficit' = Allowance'
    BY <1>1, <1>2, <2>1, <2>2, <2>3
  <2>5. QED
    BY <2>1, <2>4 DEF DeficitInv
<1>7. CASE LoopEnds
  <2>1. /\ pc = "loop" /\ Get /\ pc' = "flush"
        /\ UNCHANGED <<transferred, deficit>>
    BY <1>7 DEF LoopEnds, request
  <2>2. transferred >= job.total \/ LineLength(position) > deficit
    BY <1>7 DEF LoopEnds, Preemptive
  <2>3. changes = 0 => position = transferred
    BY <2>1 DEF HandOverInv, GetProgress
  <2>4. transferred' + deficit' = Allowance'
    BY <1>1, <2>1 DEF DeficitInv
  <2>5. changes = 0 /\ transferred < job.total =>
          deficit < LineLength(transferred)
    BY <1>2, <1>3, <2>2, <2>3
  <2>6. QED
    BY <1>1, <1>4, <2>1, <2>4, <2>5 DEF DeficitInv
<1>8. CASE SendBatch
  <2>1. /\ pc \in {"send", "flush"} /\ pc' \in {"loop", "flush"}
        /\ pc' = "flush" => pc = "flush"
        /\ UNCHANGED <<transferred, deficit>>
    BY <1>8 DEF SendBatch, request, rr, drr
  <2>2. QED
    BY <1>1, <1>4, <2>1 DEF DeficitInv
<1>9. CASE FinishGet
  <2>1. /\ pc = "flush" /\ pc' = AfterRound /\ UNCHANGED transferred
        /\ deficit' = IF transferred = job.total THEN 0 ELSE deficit
    BY <1>9 DEF FinishGet
  <2>2. /\ pc' \in {"queued", "done"}
        /\ pc' = "queued" => transferred < job.total /\ deficit' = deficit
    BY <1>2, <2>1 DEF AfterRound
  <2>3. Get
    BY <2>1 DEF HandOverInv, Sides
  <2>4. ~Put
    BY <2>3 DEF Get, Put
  <2>5. QED
    BY <1>1, <1>4, <2>1, <2>2, <2>3, <2>4 DEF DeficitInv
<1>10. ~LineOverruns /\ ~LineForfeits
  BY DEF LineOverruns, LineForfeits, rr, drr
<1>11. QED
  BY <1>5, <1>6, <1>7, <1>8, <1>9, <1>10 DEF GetStep, ReadFails

LEMMA PutDeficit ==
  ASSUME TypeOK, HandOverInv, DeficitInv, PutStep, ~Rejects, ~SendFails, ~PacketCut, drr
  PROVE  DeficitInv'
<1>1. /\ UNCHANGED <<job, rounds, changes>> /\ Allowance' = Allowance
      /\ drr' /\ (Put' <=> Put) /\ (Get' <=> Get)
  BY RoundKeeps
<1>2. /\ transferred \in Nat /\ deficit \in Nat /\ rounds \in Nat
      /\ job.total \in Nat /\ job.quantum \in Nat /\ Allowance \in Nat
  BY Naturals, AllowanceSteps
<1>3. ~(Get /\ Put) /\ drr # rr
  BY DEF Get, Put, rr, drr
<1>4. CASE OpenPut
  <2>1. /\ pc = "open" /\ pc' = "extra" /\ deficit' = deficit + job.quantum
        /\ UNCHANGED transferred
    BY <1>4 DEF OpenPut, Granted
  <2>2. transferred + deficit + job.quantum = Allowance
    BY <2>1 DEF DeficitInv
  <2>3. transferred' + deficit' = Allowance'
    BY <1>1, <1>2, <2>1, <2>2
  <2>4. QED
    BY <2>1, <2>3 DEF DeficitInv
<1>5. ASSUME NEW n \in Nat, Moves(n), pc \in {"extra", "loop"}, pc' = "loop"
      PROVE  DeficitInv'
  <2>1. transferred' = transferred + n /\ deficit' = deficit - n
    BY <1>5 DEF Moves
  <2>2. transferred + deficit = Allowance
    BY <1>5 DEF DeficitInv
  <2>3. transferred' + deficit' = Allowance'
    BY <1>1, <1>2, <2>1, <2>2
  <2>4. QED
    BY <1>5, <2>3 DEF DeficitInv
<1>6. CASE TakeExtra
  BY <1>5, <1>6, TakesExtra
<1>7. CASE Receive
  BY <1>5, <1>7, Receives DEF Receiving
<1>8. CASE PutRoundEnds
  <2>1. /\ pc = "loop" /\ Put /\ ~Receiving /\ UNCHANGED transferred
        /\ pc' = IF transferred = job.total THEN "finalOk" ELSE AfterRound
        /\ deficit' = IF transferred = job.total THEN 0 ELSE deficit
    BY <1>8 DEF PutRoundEnds, Preemptive
  <2>2. /\ pc' \in {"finalOk", "queued", "done"}
        /\ pc' = "queued" => transferred < job.total /\ deficit' = deficit
    BY <1>2, <2>1 DEF AfterRound
  <2>3. Credit = deficit
    BY DEF Credit, rr, drr
  <2>4. pc' = "queued" => deficit = 0
    BY <1>2, <2>1, <2>2, <2>3 DEF Receiving
  <2>5. transferred + deficit = Allowance
    BY <2>1 DEF DeficitInv
  <2>6. QED
    BY <1>1, <1>3, <2>1, <2>2, <2>4, <2>5 DEF DeficitInv
<1>9. CASE SendFinalOk
  <2>1. pc = "finalOk" /\ pc' = AfterRound
    BY <1>9 DEF SendFinalOk
  <2>2. transferred >= job.total
    BY <2>1 DEF HandOverInv, Sides, PutProgress
  <2>3. pc' = "done"
    BY <1>2, <2>1, <2>2 DEF AfterRound
  <2>4. QED
    BY <2>3 DEF DeficitInv
<1>10. QED
  BY <1>4, <1>6, <1>7, <1>8, <1>9 DEF PutStep, ReceiveFails

LEMMA NextAccounts ==
  TypeOK /\ HandOverInv /\ AccountsInv /\ [Next]_vars => AccountsInv'
<1> SUFFICES ASSUME TypeOK, HandOverInv, AccountsInv, [Next]_vars
             PROVE  AccountsInv'
  OBVIOUS
<1>1. /\ transferred \in Nat /\ deficit \in Nat /\ forfeited \in Nat
      /\ rounds \in Nat /\ job.quantum \in Nat /\ changes \in Nat
      /\ overruns \in Nat /\ Allowance \in Nat
  BY Naturals, AllowanceSteps
<1>2. CASE Fails
  BY <1>2, FailureAccounts
<1>3. CASE (GetStep \/ PutStep) /\ ~Fails
  <2>1. (rr' <=> rr) /\ (drr' <=> drr)
    BY <1>3, RoundKeeps
  <2>2. RoundRobinInv'
    BY <1>3, <2>1, GetRoundRobin, PutRoundRobin
       DEF AccountsInv, RoundRobinInv, Fails
  <2>3. DeficitInv'
    BY <1>3, <2>1, GetDeficit, PutDeficit DEF AccountsInv, DeficitInv, Fails
  <2>4. QED
    BY <2>2, <2>3 DEF AccountsInv
<1>4. CASE BeginRound
  <2>1. /\ pc = "queued" /\ pc' \in {"open", "status"}
        /\ rounds' = rounds + 1
        /\ UNCHANGED <<job, transferred, deficit, forfeited, overruns>>
    BY <1>4 DEF BeginRound
  <2>2. Allowance' = Allowance + job.quantum
    BY <2>1, AllowanceSteps
  <2>3. (rr' <=> rr) /\ (drr' <=> drr) /\ (Put' <=> Put)
    BY <2>1 DEF rr, drr, Put
  <2>4. RoundRobinInv'
    <3>1. rr => Balanced(transferred + forfeited)
      BY <2>1 DEF AccountsInv, RoundRobinInv
    <3>2. rr => Balanced(transferred + forfeited + job.quantum)'
      BY <1>1, <2>1, <2>2, <3>1 DEF Balanced
    <3>3. QED
      BY <2>1, <2>3, <3>2 DEF AccountsInv, RoundRobinInv
  <2>5. DeficitInv'
    <3>1. drr => transferred + deficit = Allowance
      BY <2>1 DEF AccountsInv, DeficitInv
    <3>2. drr => (transferred + deficit + job.quantum = Allowance)'
      BY <1>1, <2>1, <2>2, <3>1
    <3>3. QED
      BY <2>1, <2>3, <3>2 DEF DeficitInv
  <2>6. QED
    BY <2>4, <2>5 DEF AccountsInv
<1>5. ASSUME UNCHANGED <<job, rounds, transferred, deficit, forfeited, overruns,
                         quantumRemaining>>,
             \/ UNCHANGED <<pc, changes, disk>>
             \/ pc = "status" /\ pc' = "open" /\ UNCHANGED <<changes, disk>>
             \/ UNCHANGED pc /\ changes' > 0
      PROVE  AccountsInv'
  <2>1. /\ Allowance' = Allowance
        /\ (rr' <=> rr) /\ (drr' <=> drr) /\ (Put' <=> Put) /\ (Get' <=> Get)
    BY <1>5, AllowanceSteps DEF rr, drr, Put, Get
  <2>2. RoundRobinInv'
    BY <1>5, <2>1 DEF AccountsInv, RoundRobinInv, Balanced
  <2>3. UNCHANGED disk => \A at : LineLength(at)' = LineLength(at)
    BY DEF LineLength
  <2>4. DeficitInv'
    BY <1>1, <1>5, <2>1, <2>3 DEF AccountsInv, DeficitInv
  <2>5. QED
    BY <2>2, <2>4 DEF AccountsInv
<1>6. CASE SendStatus /\ ~SendFails
  BY <1>5, <1>6 DEF SendStatus, locals
<1>7. CASE PeerStops
  BY <1>5, <1>7 DEF PeerStops, request, locals
<1>8. CASE FileChanges
  BY <1>1, <1>5, <1>8 DEF FileChanges, request, locals
<1>9. CASE UNCHANGED vars
  BY <1>5, <1>9 DEF vars, request, locals
<1>10. QED
  BY <1>2, <1>3, <1>4, <1>6, <1>7, <1>8, <1>9 DEF Next, Serve, Fails

LEMMA AlwaysHandedOver == Spec => [](TypeOK /\ HandOverInv)
BY InitTyped, NextTyped, InitHandOver, NextHandOver, PTL DEF Spec

LEMMA AlwaysAccounted == Spec => []AccountsInv
BY AlwaysHandedOver, InitAccounts, NextAccounts, PTL DEF Spec

LEMMA AccountsSettled ==
  TypeOK /\ AccountsInv => RoundRobinAccounts /\ DeficitAccounts
<1> SUFFICES ASSUME TypeOK, AccountsInv
             PROVE  RoundRobinAccounts /\ DeficitAccounts
  OBVIOUS
<1>1. RoundRobinAccounts
  BY DEF AccountsInv, RoundRobinInv, RoundRobinAccounts, Balanced, Allowance
<1>2. Get \/ Put
  BY Naturals DEF Get, Put
<1>3. DeficitAccounts
  BY <1>2 DEF AccountsInv, DeficitInv, DeficitAccounts, Allowance
<1>4. QED
  BY <1>1, <1>3

\* rr, for every file, quantum and number of rounds: a preempted request has
\* used up or forfeited one quantum per round, and more only by overruns.
THEOREM RoundRobinIsExact == Spec => []RoundRobinAccounts
BY AccountsSettled, AlwaysAccounted, AlwaysHandedOver, PTL

\* drr, for every file, quantum and number of rounds: quanta are moved or kept,
\* and a preempted GET keeps less than its next line needs.
THEOREM DeficitIsExact == Spec => []DeficitAccounts
BY AccountsSettled, AlwaysAccounted, AlwaysHandedOver, PTL

-----------------------------------------------------------------------------
(* Runs of bytes.                                                          *)

\* Two runs that touch are one run.
LEMMA NumbersJoin ==
  ASSUME NEW a \in Nat, NEW m \in Nat, NEW n \in Nat
  PROVE  Numbers(a, m) \o Numbers(a + m, n) = Numbers(a, m + n)
<1> DEFINE s == Numbers(a, m)
           t == Numbers(a + m, n)
           u == Numbers(a, m + n)
<1>1. /\ s \in Seq(Nat) /\ Len(s) = m
      /\ t \in Seq(Nat) /\ Len(t) = n
      /\ u \in Seq(Nat) /\ Len(u) = m + n
  BY NumbersType, a + m \in Nat, m + n \in Nat
<1>2. /\ \A i \in 1 .. m : s[i] = a + i
      /\ \A i \in 1 .. n : t[i] = a + m + i
      /\ \A i \in 1 .. m + n : u[i] = a + i
  BY DEF Numbers
<1> HIDE DEF s, t, u
<1>3. /\ s \o t \in Seq(Nat) /\ Len(s \o t) = m + n
      /\ \A i \in 1 .. m + n :
           (s \o t)[i] = IF i <= m THEN s[i] ELSE t[i - m]
  BY <1>1, ConcatProperties
<1>4. ASSUME NEW i \in 1 .. m + n PROVE (s \o t)[i] = u[i]
  <2>1. CASE i <= m
    BY <1>2, <1>3, <2>1
  <2>2. CASE i > m
    <3>1. i - m \in 1 .. n /\ a + m + (i - m) = a + i
      BY <2>2
    <3>2. QED
      BY <1>2, <1>3, <2>2, <3>1
  <2>3. i <= m \/ i > m
    OBVIOUS
  <2>4. QED
    BY <2>1, <2>2, <2>3
<1>5. s \o t = u
  BY <1>1, <1>3, <1>4, SeqEqual
<1>6. QED
  BY <1>5 DEF s, t, u

\* A run cut in two.
LEMMA NumbersCut ==
  ASSUME NEW a \in Nat, NEW n \in Nat, NEW k \in Nat, k <= n
  PROVE  /\ SubSeq(Numbers(a, n), 1, k) = Numbers(a, k)
         /\ SubSeq(Numbers(a, n), k + 1, n) = Numbers(a + k, n - k)
<1> DEFINE s == Numbers(a, n)
           h == Numbers(a, k)
           t == Numbers(a + k, n - k)
<1>1. /\ s \in Seq(Nat) /\ Len(s) = n
      /\ h \in Seq(Nat) /\ Len(h) = k
      /\ t \in Seq(Nat) /\ Len(t) = n - k
  BY NumbersType, a + k \in Nat, n - k \in Nat
<1>2. /\ \A i \in 1 .. n : s[i] = a + i /\ s[i] \in Nat
      /\ \A i \in 1 .. k : h[i] = a + i
      /\ \A i \in 1 .. n - k : t[i] = a + k + i
  BY DEF Numbers
<1> HIDE DEF s, t, h
<1>3. SubSeq(s, 1, k) = h
  <2>1. /\ SubSeq(s, 1, k) \in Seq(Nat) /\ Len(SubSeq(s, 1, k)) = k
        /\ \A i \in 1 .. k : SubSeq(s, 1, k)[i] = s[i]
    BY <1>2, SubSeqProperties
  <2>2. \A i \in 1 .. k : SubSeq(s, 1, k)[i] = h[i]
    BY <1>2, <2>1
  <2>3. QED
    BY <1>1, <2>1, <2>2, SeqEqual
<1>4. SubSeq(s, k + 1, n) = t
  <2>1. /\ SubSeq(s, k + 1, n) \in Seq(Nat) /\ Len(SubSeq(s, k + 1, n)) = n - k
        /\ \A i \in 1 .. n - k : SubSeq(s, k + 1, n)[i] = s[k + i]
    BY <1>2, SubSeqProperties
  <2>2. \A i \in 1 .. n - k : SubSeq(s, k + 1, n)[i] = t[i]
    BY <1>2, <2>1
  <2>3. QED
    BY <1>1, <2>1, <2>2, SeqEqual
<1>5. QED
  BY <1>3, <1>4 DEF s, t, h

\* The empty run.
LEMMA NumbersNone ==
  ASSUME NEW a \in Nat, NEW n \in Nat
  PROVE  Numbers(a, n) = <<>> <=> n = 0
BY NumbersType, EmptySeq

-----------------------------------------------------------------------------
(* The invariants behind the theorems about contents.                      *)

\* the positions of a packet that end a line
EndsIn(packet) == {i \in DOMAIN packet : LineEnd(packet[i])}

\* A GET of a file nobody changes: what was sent is the file up to the end of a
\* line, unless the last packet was cut off, the packet is what follows up to the
\* position of the next line, and between rounds the packet has been sent.
BodyInv ==
  (Get /\ changes = 0) =>
    /\ body = Numbers(0, Len(body))
    /\ pc \in {"failed", "killed"} \/ LineEnd(Len(body))
    /\ pc \in {"loop", "send", "flush"} =>
         /\ Len(body) <= position /\ LineEnd(position)
         /\ batch = Numbers(Len(body), position - Len(body))
    /\ pc \in {"queued", "status", "open", "done"} => Len(body) = transferred
    /\ pc = "done" => transferred = job.total

\* Between lines the packet has room for one more, and its lines are counted.
PacketInv ==
  (Get /\ changes = 0) =>
    /\ Cardinality(EndsIn(batch)) <= job.packetLimit
    /\ pc = "loop" => /\ Cardinality(EndsIn(batch)) = linesInBatch
                      /\ linesInBatch < job.packetLimit

\* A PUT that nobody disturbs: the file has the first bytes of the body, as many
\* as were counted; what came with the header comes next, and nothing is
\* received before it is used up.
UploadInv ==
  (Put /\ changes = 0) =>
    /\ (Preemptive \/ pc \in {"queued", "status", "open", "extra"}) =>
         /\ transferred + Len(extra) = consumed
         /\ extra = Numbers(transferred, Len(extra))
    /\ pc \in {"queued", "status", "open", "extra"} /\ ~Preemptive =>
         transferred = 0
    /\ pc \in {"queued", "status", "open"} /\ transferred > 0 =>
         stored = Numbers(0, transferred)
    /\ (pc = "queued" /\ rounds > 0) => stored = Numbers(0, transferred)
    /\ pc \in {"extra", "loop", "finalOk"} => stored = Numbers(0, transferred)
    /\ Receiving => transferred = consumed
    /\ ~Preemptive => transferred <= job.total
    /\ pc = "finalOk" => transferred = job.total

\* The answers sent so far tell how far the request is.
RepliesInv ==
  changes = 0 =>
    /\ responseStarted => Preemptive
    /\ pc \in {"queued", "status"} => replies \in {<<>>, <<"OK">>}
    /\ pc = "queued" /\ socket = "open" =>
         replies = IF responseStarted THEN <<"OK">> ELSE <<>>
    /\ pc = "status" /\ socket = "open" => replies = <<>>
    /\ pc \in {"open", "loop", "send", "flush", "extra", "finalOk"} =>
         replies = <<"OK">> /\ (Preemptive => responseStarted)
    /\ pc = "done" /\ Get => replies = <<"OK">>
    /\ pc = "done" /\ Put =>
         \/ replies = <<"OK">> /\ transferred # job.total
         \/ replies = <<"OK", "OK">> /\ stored = Numbers(0, job.total)
    /\ pc \in {"failed", "killed"} => replies # <<"OK", "OK">>

-----------------------------------------------------------------------------
(* Lines in a packet.                                                      *)

\* A run of bytes up to a line end, and the next line after it, has one line end
\* more than without that line.
LEMMA OneMoreLine ==
  ASSUME disk.size \in Nat, disk.ends \subseteq 1 .. disk.size,
         NEW from \in Nat, NEW at \in Nat, from <= at, at < disk.size
  PROVE  LET n == LineLength(at)
             old == EndsIn(Numbers(from, at - from))
             new == EndsIn(Numbers(from, at - from + n)) IN
         /\ n \in Nat \ {0} /\ at + n <= disk.size /\ LineEnd(at + n)
         /\ Cardinality(old) \in Nat
         /\ Cardinality(new) = Cardinality(old) + 1
<1> DEFINE n == LineLength(at)
           m == at - from
           old == EndsIn(Numbers(from, m))
           new == EndsIn(Numbers(from, m + n))
<1>1. /\ n \in Nat \ {0} /\ at + n <= disk.size
      /\ at + n \in disk.ends \cup {disk.size}
      /\ \A e \in disk.ends \cup {disk.size} : e > at => at + n <= e
  BY LineBounds
<1> HIDE DEF n
<1>2. LineEnd(at + n)
  BY <1>1 DEF LineEnd
<1>3. \A i \in Nat \ {0} : i < n => ~LineEnd(at + i)
  BY <1>1 DEF LineEnd
<1>4. /\ old = {i \in 1 .. m : LineEnd(from + i)}
      /\ new = {i \in 1 .. m + n : LineEnd(from + i)}
  BY <1>1 DEF EndsIn, Numbers
<1> HIDE DEF old, new
<1>5. new = old \cup {m + n}
  <2>1. \A i \in m + 1 .. m + n - 1 : ~LineEnd(from + i)
    <3>1. ASSUME NEW i \in m + 1 .. m + n - 1 PROVE ~LineEnd(from + i)
      <4>1. i - m \in Nat \ {0} /\ i - m < n /\ from + i = at + (i - m)
        BY <1>1
      <4>2. QED
        BY <1>3, <4>1
    <3>2. QED
      BY <3>1
  <2>2. from + (m + n) = at + n
    BY <1>1
  <2>3. m \in Nat
    OBVIOUS
  <2>4. m + n \in new
    BY <1>1, <1>2, <1>4, <2>2, <2>3
  <2> HIDE DEF m
  <2>5. \A i \in 1 .. m + n : i \in 1 .. m \/ i \in m + 1 .. m + n - 1 \/ i = m + n
    BY <1>1, <2>3
  <2>6. 1 .. m \subseteq 1 .. m + n
    BY <1>1, <2>3
  <2>7. QED
    BY <1>4, <2>1, <2>4, <2>5, <2>6
<1>6. m + n \notin old
  BY <1>1, <1>4
<1>7. IsFiniteSet(old)
  <2>1. IsFiniteSet(1 .. m)
    BY 1 \in Int, m \in Int, FS_Interval
  <2>2. QED
    BY <1>4, <2>1, FS_Subset
<1>8. Cardinality(old) \in Nat /\ Cardinality(new) = Cardinality(old) + 1
  BY <1>5, <1>6, <1>7, FS_CardinalityType, FS_AddElement
<1>9. QED
  BY <1>1, <1>2, <1>8 DEF n, old, new

\* An empty packet has no lines.
LEMMA NoLines == Cardinality(EndsIn(<<>>)) = 0
<1>1. EndsIn(<<>>) = {}
  BY DEF EndsIn
<1>2. QED
  BY <1>1, FS_EmptySet

-----------------------------------------------------------------------------
(* The body and the packets of a GET.                                      *)

\* A step that fails sends nothing, or the first bytes of the packet.
LEMMA FailureBody ==
  ASSUME TypeOK, BodyInv, PacketInv,
         Rejects \/ SendFails \/ (PacketCut /\ pc \in {"send", "flush"})
  PROVE  BodyInv' /\ PacketInv'
<1>1. /\ pc' \in {"failed", "killed"}
      /\ UNCHANGED <<job, disk, changes, batch, transferred>>
  BY FailsWhat DEF Fails, request, locals
<1>2. /\ Get' <=> Get
      /\ \A n : LineEnd(n)' <=> LineEnd(n)
  BY <1>1 DEF Get, LineEnd
<1>3. EndsIn(batch)' = EndsIn(batch)
  BY <1>1, <1>2 DEF EndsIn
<1>4. Get /\ changes = 0 => body' = Numbers(0, Len(body'))
  <2>1. CASE Rejects \/ SendFails
    <3>1. UNCHANGED body
      BY <2>1 DEF Rejects, SendFails
    <3>2. QED
      BY <3>1 DEF BodyInv
  <2>2. ASSUME PacketCut, pc \in {"send", "flush"}, Get, changes = 0
        PROVE  body' = Numbers(0, Len(body'))
    <3> DEFINE k == Len(body)
               d == position - Len(body)
    <3>1. /\ body = Numbers(0, k) /\ k <= position
          /\ batch = Numbers(k, d)
      BY <2>2 DEF BodyInv
    <3>2. /\ position \in Nat /\ k \in Nat
      BY Naturals, LenProperties DEF TypeOK
    <3>3. d \in Nat
      BY <3>1, <3>2
    <3> HIDE DEF k, d
    <3>4. Len(batch) = d
      BY <3>1, <3>2, <3>3, NumbersType
    <3>5. PICK n \in 0 .. Len(batch) - 1 : body' = body \o SubSeq(batch, 1, n)
      BY <2>2 DEF PacketCut
    <3>6. n \in Nat /\ n <= d /\ 0 + k = k /\ 0 \in Nat /\ k + n \in Nat
      BY <3>2, <3>3, <3>4, <3>5
    <3>7. SubSeq(batch, 1, n) = Numbers(k, n)
      BY <3>1, <3>2, <3>3, <3>6, NumbersCut
    <3>8. Numbers(0, k) \o Numbers(0 + k, n) = Numbers(0, k + n)
      BY <3>2, <3>6, NumbersJoin
    <3>9. body' = Numbers(0, k + n)
      BY <3>1, <3>5, <3>6, <3>7, <3>8
    <3>10. QED
      BY <3>6, <3>9, NumbersType
  <2>3. QED
    BY <2>1, <2>2
<1>5. QED
  BY <1>1, <1>2, <1>3, <1>4 DEF BodyInv, PacketInv

LEMMA GetBody ==
  ASSUME TypeOK, HandOverInv, BodyInv, PacketInv, GetStep
  PROVE  BodyInv' /\ PacketInv'
<1>1. UNCHANGED <<job, changes, disk>> /\ (Get' <=> Get)
  BY RoundKeeps
<1>2. \A n : LineEnd(n)' <=> LineEnd(n)
  BY <1>1 DEF LineEnd
<1>3. \A packet : EndsIn(packet)' = EndsIn(packet')
  BY <1>2 DEF EndsIn
<1>4. CASE ~(Get /\ changes = 0)
  BY <1>1, <1>4 DEF BodyInv, PacketInv
<1>5. CASE Rejects \/ SendFails \/ (SendBatch /\ PacketCut)
  BY <1>5, FailureBody DEF SendBatch
<1>6. ASSUME Get, changes = 0, ~Rejects, ~(SendBatch /\ PacketCut)
      PROVE  BodyInv' /\ PacketInv'
  <2>1. /\ transferred \in Nat /\ position \in Nat /\ job.total \in Nat
        /\ job.packetLimit \in Nat \ {0} /\ disk.size \in Nat
        /\ disk.ends \subseteq 1 .. disk.size /\ linesInBatch \in Nat
        /\ body \in Seq(Nat) /\ batch \in Seq(Nat) /\ Len(body) \in Nat
    BY Naturals, LenProperties DEF TypeOK
  <2>2. /\ body = Numbers(0, Len(body))
        /\ pc \notin {"failed", "killed"} => LineEnd(Len(body))
        /\ pc \in {"loop", "send", "flush"} =>
             /\ Len(body) <= position /\ LineEnd(position)
             /\ batch = Numbers(Len(body), position - Len(body))
             /\ position = transferred
        /\ pc \in {"queued", "status", "open"} => Len(body) = transferred
    BY <1>6 DEF BodyInv, HandOverInv, GetProgress
  <2>3. /\ Cardinality(EndsIn(batch)) <= job.packetLimit
        /\ pc = "loop" => /\ Cardinality(EndsIn(batch)) = linesInBatch
                          /\ linesInBatch < job.packetLimit
    BY <1>6 DEF PacketInv
  <2>4. CASE OpenGet
    <3>1. /\ pc = "open" /\ pc' = "loop" /\ position' = StartOffset
          /\ batch' = <<>> /\ linesInBatch' = 0 /\ UNCHANGED body
      BY <1>6, <2>4 DEF OpenGet
    <3>2. StartOffset = Len(body)
      BY <1>6, <2>2, <3>1 DEF StartOffset, HandOverInv, GetProgress
    <3>3. Numbers(Len(body), Len(body) - Len(body)) = <<>>
      BY <2>1, NumbersNone
    <3>4. Cardinality(EndsIn(batch)') = 0
      BY <1>3, <3>1, NoLines
    <3>5. QED
      BY <1>1, <1>2, <2>1, <2>2, <3>1, <3>2, <3>3, <3>4 DEF BodyInv, PacketInv
  <2>5. ASSUME pc = "loop", NEW n, n = LineLength(position), n > 0,
               batch' = batch \o Numbers(position, n),
               position' = position + n, UNCHANGED body,
               pc' \in {"loop", "send", "flush"},
               pc' = "loop" => /\ linesInBatch' = linesInBatch + 1
                               /\ linesInBatch' < job.packetLimit
        PROVE  BodyInv' /\ PacketInv'
    <3>1. position < disk.size
      BY <2>1, <2>5, LineBounds
    <3>2. /\ n \in Nat \ {0} /\ LineEnd(position + n)
          /\ Cardinality(EndsIn(batch)) \in Nat
          /\ Cardinality(EndsIn(Numbers(Len(body), position - Len(body) + n))) =
               Cardinality(EndsIn(batch)) + 1
      BY <2>1, <2>2, <2>5, <3>1, OneMoreLine
    <3>3. position - Len(body) \in Nat
      BY <2>1, <2>2, <2>5
    <3>4. batch' = Numbers(Len(body), position - Len(body) + n)
      <4> DEFINE d == position - Len(body)
      <4>1. /\ Len(body) + d = position
            /\ Len(body) \in Nat /\ d \in Nat /\ n \in Nat
        BY <2>1, <3>2, <3>3
      <4> HIDE DEF d
      <4>2. Numbers(Len(body), d) \o Numbers(Len(body) + d, n) =
              Numbers(Len(body), d + n)
        BY <4>1, NumbersJoin, Zenon
      <4>3. QED
        BY <2>2, <2>5, <4>1, <4>2 DEF d
    <3>5. /\ Len(body) <= position + n
          /\ position - Len(body) + n = position + n - Len(body)
      BY <2>1, <2>2, <2>5, <3>2
    <3>6. BodyInv'
      BY SMTT(30), <1>1, <1>2, <2>1, <2>2, <2>5, <3>2, <3>4, <3>5 DEF BodyInv
    <3>7. Cardinality(EndsIn(batch)') = linesInBatch + 1
      BY <1>3, <2>3, <2>5, <3>2, <3>4
    <3>8. linesInBatch + 1 <= job.packetLimit
      BY <2>1, <2>3, <2>5
    <3>9. PacketInv'
      BY <1>1, <2>5, <3>7, <3>8 DEF PacketInv
    <3>10. QED
      BY <3>6, <3>9
  <2>6. CASE LineTaken
    <3>1. /\ pc' \in {"loop", "send", "flush"}
          /\ pc' = "loop" => ~PacketFull(linesInBatch')
          /\ linesInBatch' = linesInBatch + 1
      BY <2>6 DEF LineTaken
    <3>2. pc' = "loop" => linesInBatch' < job.packetLimit
      BY <2>1, <3>1 DEF PacketFull
    <3>3. QED
      BY <2>5, <2>6, <3>1, <3>2 DEF LineTaken, Reading
  <2>7. CASE LineOverruns
    <3>1. /\ LineLength(position) \in Nat /\ quantumRemaining \in Nat
          /\ LineLength(position) > quantumRemaining
      BY <2>1, <2>7, LineBounds, Naturals DEF LineOverruns
    <3>2. LineLength(position) > 0
      BY <3>1
    <3>3. QED
      BY <2>5, <2>7, <3>2 DEF LineOverruns, Reading
  <2>8. CASE LineForfeits \/ LoopEnds
    <3>1. /\ pc = "loop" /\ pc' = "flush"
          /\ UNCHANGED <<body, batch, position, transferred>>
      BY <2>8 DEF LineForfeits, LoopEnds, Reading, request, locals
    <3>2. QED
      BY <1>1, <1>2, <1>3, <2>2, <2>3, <3>1 DEF BodyInv, PacketInv
  <2>9. CASE SendBatch
    <3>1. /\ pc \in {"send", "flush"} /\ pc' \in {"loop", "flush"}
          /\ body' = body \o batch /\ batch' = <<>> /\ linesInBatch' = 0
          /\ UNCHANGED <<position, transferred>>
      BY <1>6, <2>9 DEF SendBatch, request
    <3>2. /\ position - Len(body) \in Nat
          /\ 0 + Len(body) = Len(body)
          /\ Len(body) + (position - Len(body)) = position
      BY <2>1, <2>2, <3>1
    <3>3. body' = Numbers(0, position)
      <4> DEFINE k == Len(body)
                 d == position - Len(body)
      <4>1. k \in Nat /\ d \in Nat /\ 0 + k = k /\ k + d = position
        BY <2>1, <3>2
      <4>2. body = Numbers(0, k) /\ batch = Numbers(k, d)
        BY <2>2, <3>1
      <4> HIDE DEF k, d
      <4>3. Numbers(0, k) \o Numbers(0 + k, d) = Numbers(0, k + d)
        BY <4>1, NumbersJoin
      <4>4. QED
        BY <3>1, <4>1, <4>2, <4>3
    <3>4. Len(body') = position
      BY <2>1, <3>3, NumbersType
    <3>5. batch' = Numbers(position, position - position)
      BY <2>1, <3>1, NumbersNone
    <3>6. Cardinality(EndsIn(batch)') = 0
      BY <1>3, <3>1, NoLines
    <3>7. BodyInv'
      BY <1>1, <1>2, <2>1, <2>2, <3>1, <3>3, <3>4, <3>5 DEF BodyInv
    <3>8. PacketInv'
      BY <1>1, <2>1, <3>1, <3>6 DEF PacketInv
    <3>9. QED
      BY <3>7, <3>8
  <2>10. CASE FinishGet
    <3>1. /\ pc = "flush" /\ batch = <<>> /\ pc' = AfterRound
          /\ UNCHANGED <<body, batch, transferred>>
      BY <2>10 DEF FinishGet, locals
    <3>2. position - Len(body) = 0
      BY <2>1, <2>2, <3>1, NumbersNone, position - Len(body) \in Nat
    <3>3. Len(body) = transferred
      BY <2>1, <2>2, <3>1, <3>2
    <3>4. /\ pc' \in {"queued", "done"}
          /\ pc' = "done" => transferred >= job.total
      BY <2>1, <3>1 DEF AfterRound
    <3>5. transferred <= job.total
      BY <1>6, <2>1 DEF HandOverInv, GetProgress
    <3>6. pc' = "done" => transferred = job.total
      BY <2>1, <3>4, <3>5
    <3>7. QED
      BY <1>1, <1>2, <1>3, <2>2, <2>3, <3>1, <3>3, <3>4, <3>6
         DEF BodyInv, PacketInv
  <2>11. QED
    BY <1>6, <2>4, <2>6, <2>7, <2>8, <2>9, <2>10 DEF GetStep, ReadFails
<1>7. QED
  BY <1>4, <1>5, <1>6

LEMMA NextBody ==
  TypeOK /\ HandOverInv /\ BodyInv /\ PacketInv /\ [Next]_vars
    => BodyInv' /\ PacketInv'
<1> SUFFICES ASSUME TypeOK, HandOverInv, BodyInv, PacketInv, [Next]_vars
             PROVE  BodyInv' /\ PacketInv'
  OBVIOUS
<1>1. ASSUME UNCHANGED <<job, disk, body, batch, position, linesInBatch,
                         transferred>>,
             \/ UNCHANGED <<pc, changes>>
             \/ pc = "queued" /\ pc' \in {"status", "open"} /\ UNCHANGED changes
             \/ pc = "status" /\ pc' = "open" /\ UNCHANGED changes
      PROVE  BodyInv' /\ PacketInv'
  <2>1. /\ Get' <=> Get
        /\ \A n : LineEnd(n)' <=> LineEnd(n)
    BY <1>1 DEF Get, LineEnd
  <2>2. EndsIn(batch)' = EndsIn(batch)
    BY <1>1, <2>1 DEF EndsIn
  <2>3. QED
    BY <1>1, <2>1, <2>2 DEF BodyInv, PacketInv
<1>2. CASE GetStep
  BY <1>2, GetBody
<1>3. CASE Rejects \/ SendFails
  BY <1>3, FailureBody
<1>4. CASE PutStep /\ ~Rejects /\ ~SendFails
  <2>1. Put
    BY <1>4 DEF PutStep, OpenPut, TakeExtra, Receive, Receiving, ReceiveFails,
                PutRoundEnds, SendFinalOk, HandOverInv, Sides
  <2>2. Put'
    BY <1>4, <2>1, RoundKeeps
  <2>3. QED
    BY <2>2 DEF Put, Get, BodyInv, PacketInv
<1>5. CASE BeginRound
  BY <1>1, <1>5 DEF BeginRound, locals
<1>6. CASE SendStatus /\ ~SendFails
  BY <1>1, <1>6 DEF SendStatus, locals
<1>7. CASE PeerStops
  BY <1>1, <1>7 DEF PeerStops, request, locals
<1>8. CASE FileChanges
  <2>1. changes' > 0
    BY <1>8, Naturals DEF FileChanges
  <2>2. QED
    BY <2>1 DEF BodyInv, PacketInv
<1>9. CASE UNCHANGED vars
  BY <1>1, <1>9 DEF vars, request, locals
<1>10. QED
  BY <1>2, <1>3, <1>4, <1>5, <1>6, <1>7, <1>8, <1>9 DEF Next, Serve

LEMMA InitBody == Init => BodyInv /\ PacketInv
<1> SUFFICES ASSUME Init PROVE BodyInv /\ PacketInv
  OBVIOUS
<1>1. TypeOK
  BY InitTyped
<1>2. /\ body = <<>> /\ batch = <<>> /\ pc = "queued" /\ transferred = 0
  BY DEF Init
<1>3. Len(body) = 0 /\ Numbers(0, 0) = <<>>
  BY <1>2, NumbersNone, EmptySeq
<1>4. QED
  BY <1>1, <1>2, <1>3, Naturals, NoLines DEF BodyInv, PacketInv, LineEnd

LEMMA AlwaysBody == Spec => [](BodyInv /\ PacketInv)
BY AlwaysHandedOver, InitBody, NextBody, PTL DEF Spec

LEMMA BodyArrives == BodyInv /\ PacketInv => BodyIsWholeLines /\ PacketsWithinLimit
BY DEF BodyInv, BodyIsWholeLines, PacketInv, PacketsWithinLimit, EndsIn

\* For every file, policy, quantum and packet limit: what has been sent of a file
\* that does not change is its first lines, whole, in order and without gaps,
\* and its first bytes if a send failed midway.
THEOREM LinesArriveWhole == Spec => []BodyIsWholeLines
BY BodyArrives, AlwaysBody, PTL

\* For every file and packet limit: no packet has more lines than --p allows.
THEOREM PacketsAreLimited == Spec => []PacketsWithinLimit
BY BodyArrives, AlwaysBody, PTL
-----------------------------------------------------------------------------
(* The bytes of a PUT.                                                     *)

\* A step that fails writes nothing.
LEMMA FailureUpload ==
  ASSUME TypeOK, UploadInv, Fails
  PROVE  UploadInv'
<1>1. /\ pc' \in {"failed", "killed"}
      /\ UNCHANGED <<job, changes, stored, transferred, extra, consumed>>
  BY FailsWhat DEF request, locals
<1>2. (Put' <=> Put) /\ (Preemptive' <=> Preemptive) /\ ~Receiving'
  BY <1>1 DEF Put, Preemptive, rr, drr, Receiving
<1>3. QED
  BY <1>1, <1>2 DEF UploadInv

\* What one round of a PUT leaves of the announced bytes.
LEMMA PutUpload ==
  ASSUME TypeOK, HandOverInv, UploadInv, PutStep
  PROVE  UploadInv'
<1>1. /\ UNCHANGED <<job, changes, rounds>>
      /\ (Put' <=> Put) /\ (Preemptive' <=> Preemptive)
  BY RoundKeeps DEF Preemptive, rr, drr
<1>2. CASE ~(Put /\ changes = 0)
  BY <1>1, <1>2 DEF UploadInv
<1>3. CASE Fails
  BY <1>3, FailureUpload
<1>4. ASSUME Put, changes = 0, ~Rejects, ~SendFails, ~PacketCut PROVE UploadInv'
  <2>1. /\ job.total \in Nat /\ transferred \in Nat /\ consumed \in Nat
        /\ Len(extra) \in Nat /\ quantumRemaining \in Nat /\ deficit \in Nat
    BY Naturals
  <2>2. Credit \in Nat /\ (~Preemptive => Credit = job.total)
    BY <2>1 DEF Credit, Preemptive
  <2>3. /\ (Preemptive \/ pc \in {"queued", "status", "open", "extra"}) =>
             /\ transferred + Len(extra) = consumed
             /\ extra = Numbers(transferred, Len(extra))
        /\ pc \in {"queued", "status", "open", "extra"} /\ ~Preemptive =>
             transferred = 0
        /\ pc \in {"queued", "status", "open"} /\ transferred > 0 =>
             stored = Numbers(0, transferred)
        /\ pc \in {"extra", "loop", "finalOk"} => stored = Numbers(0, transferred)
        /\ Receiving => transferred = consumed
        /\ ~Preemptive => transferred <= job.total
        /\ pc = "finalOk" => transferred = job.total
    BY <1>4 DEF UploadInv
  <2>4. CASE OpenPut
    <3>1. /\ pc = "open" /\ pc' = "extra" /\ stored' = Opened
          /\ UNCHANGED <<transferred, extra, consumed>>
      BY <1>4, <2>4 DEF OpenPut
    <3>2. stored' = Numbers(0, transferred)
      <4>1. CASE transferred = 0
        BY <3>1, <4>1, NumbersNone, 0 \in Nat DEF Opened
      <4>2. CASE transferred > 0
        BY <2>3, <3>1, <4>2 DEF Opened
      <4>3. QED
        BY <2>1, <4>1, <4>2
    <3>3. ~Receiving'
      BY <3>1 DEF Receiving
    <3>4. QED
      BY <1>1, <2>3, <3>1, <3>2, <3>3 DEF UploadInv
  <2>5. CASE TakeExtra
    <3>1. /\ pc = "extra" /\ pc' = "loop" /\ UNCHANGED consumed
      BY <1>4, <2>5, TakesExtra
    <3>2. PICK n \in Nat :
            /\ n = Least({Len(extra), Credit}) /\ n <= Len(extra) /\ n <= Credit
            /\ stored' = stored \o SubSeq(extra, 1, n)
            /\ Moves(n)
            /\ Preemptive => /\ extra' = SubSeq(extra, n + 1, Len(extra))
                             /\ Len(extra') = Len(extra) - n
      BY <1>4, <2>5, TakesExtra
    <3>3. n = Len(extra) \/ n = Credit
      BY <2>1, <2>2, <3>2, LeastOfTwo
    <3>4. transferred' = transferred + n /\ transferred' \in Nat
      BY SMTT(30), <2>1, <3>2 DEF Moves
    <3>5. /\ transferred + Len(extra) = consumed
          /\ extra = Numbers(transferred, Len(extra))
          /\ stored = Numbers(0, transferred)
      BY <2>3, <3>1
    <3>6. /\ SubSeq(extra, 1, n) = Numbers(transferred, n)
          /\ SubSeq(extra, n + 1, Len(extra)) =
               Numbers(transferred + n, Len(extra) - n)
      <4> DEFINE k == Len(extra)
      <4>1. /\ k \in Nat /\ n \in Nat /\ n <= k /\ transferred \in Nat
            /\ extra = Numbers(transferred, k)
        BY <2>1, <3>2, <3>5
      <4> HIDE DEF k
      <4>2. /\ SubSeq(Numbers(transferred, k), 1, n) = Numbers(transferred, n)
            /\ SubSeq(Numbers(transferred, k), n + 1, k) =
                 Numbers(transferred + n, k - n)
        BY <4>1, NumbersCut, Zenon
      <4>3. QED
        BY <4>1, <4>2 DEF k
    <3>7. stored' = Numbers(0, transferred')
      <4>1. Numbers(0, transferred) \o Numbers(0 + transferred, n) =
              Numbers(0, transferred + n)
        <5>1. 0 \in Nat /\ transferred \in Nat /\ n \in Nat
          BY <2>1
        <5>2. QED
          BY <5>1, NumbersJoin, Zenon
      <4>2. 0 + transferred = transferred
        BY <2>1
      <4>3. QED
        BY <3>2, <3>4, <3>5, <3>6, <4>1, <4>2
    <3>8. Preemptive => /\ extra' = Numbers(transferred', Len(extra'))
                        /\ transferred' + Len(extra') = consumed'
      <4>1. SUFFICES ASSUME Preemptive
                     PROVE  /\ extra' = Numbers(transferred', Len(extra'))
                            /\ transferred' + Len(extra') = consumed'
        OBVIOUS
      <4>2. Len(extra') = Len(extra) - n /\ extra' = SubSeq(extra, n + 1, Len(extra))
        BY <3>2, <4>1
      <4>3. extra' = Numbers(transferred', Len(extra'))
        BY <3>4, <3>6, <4>2
      <4>4. transferred' + Len(extra') = consumed'
        BY <2>1, <3>1, <3>4, <3>5, <4>2
      <4>5. QED
        BY <4>3, <4>4
    <3>9. Receiving' => transferred' = consumed'
      <4>1. CASE n = Len(extra)
        BY <3>1, <3>4, <3>5, <4>1
      <4>2. CASE n = Credit /\ Preemptive
        <5>1. Credit' = 0
          BY <1>1, <2>1, <3>2, <4>2 DEF Credit, Moves, Preemptive, rr, drr
        <5>2. QED
          BY <5>1 DEF Receiving
      <4>3. CASE n = Credit /\ ~Preemptive
        <5>1. transferred' = job'.total
          BY <1>1, <2>1, <2>2, <2>3, <3>1, <3>4, <4>3
        <5>2. QED
          BY <1>1, <2>1, <5>1 DEF Receiving
      <4>4. QED
        BY <3>3, <4>1, <4>2, <4>3
    <3>10. ~Preemptive => transferred' <= job.total
      BY <2>1, <2>2, <2>3, <3>1, <3>2, <3>4
    <3>11. QED
      BY <1>1, <3>1, <3>7, <3>8, <3>9, <3>10 DEF UploadInv
  <2>6. CASE Receive
    <3>1. Receiving /\ UNCHANGED <<pc, extra>> /\ pc = "loop"
      BY <2>6, Receives DEF Receiving
    <3>2. PICK n \in Nat \ {0} :
            /\ n <= job.total - transferred
            /\ consumed' = consumed + n
            /\ stored' = stored \o Numbers(consumed, n)
            /\ Moves(n)
      BY <2>6, Receives
    <3>3. transferred' = transferred + n /\ transferred = consumed
      BY <2>3, <3>1, <3>2 DEF Moves
    <3>4. stored' = Numbers(0, transferred')
      <4>1. Numbers(0, transferred) \o Numbers(0 + transferred, n) =
              Numbers(0, transferred + n)
        <5>1. 0 \in Nat /\ transferred \in Nat /\ n \in Nat
          BY <2>1
        <5>2. QED
          BY <5>1, NumbersJoin, Zenon
      <4>2. 0 + transferred = transferred
        BY <2>1
      <4>3. QED
        BY <2>3, <3>1, <3>2, <3>3, <4>1, <4>2
    <3>5. Preemptive => /\ extra' = Numbers(transferred', Len(extra'))
                        /\ transferred' + Len(extra') = consumed'
      <4>1. SUFFICES ASSUME Preemptive
                     PROVE  /\ extra' = Numbers(transferred', Len(extra'))
                            /\ transferred' + Len(extra') = consumed'
        OBVIOUS
      <4>2. Len(extra) = 0 /\ extra = Numbers(transferred, Len(extra))
        BY <2>1, <2>3, <3>3, <4>1
      <4>3. extra = <<>>
        BY <2>1, <4>2, NumbersNone
      <4>4. Numbers(transferred + n, 0) = <<>>
        BY <2>1, NumbersNone
      <4>5. QED
        BY <2>1, <3>1, <3>2, <3>3, <4>2, <4>3, <4>4
    <3>6. transferred' = consumed' /\ transferred' <= job.total
      BY <2>1, <3>2, <3>3
    <3>7. QED
      BY <1>1, <3>1, <3>4, <3>5, <3>6 DEF UploadInv
  <2>7. CASE PutRoundEnds
    <3>1. /\ pc = "loop" /\ ~Receiving
          /\ pc' = IF ~Preemptive \/ transferred = job.total THEN "finalOk"
                   ELSE AfterRound
          /\ UNCHANGED <<stored, transferred, extra, consumed>>
      BY <2>7 DEF PutRoundEnds
    <3>2. ~Preemptive => transferred = job.total
      BY <1>4, <2>1, <2>2, <2>3, <3>1 DEF Receiving
    <3>3. /\ pc' \in {"finalOk", "queued", "done"}
          /\ pc' = "finalOk" => transferred = job.total
          /\ pc' = "queued" => Preemptive
      BY <2>1, <3>1, <3>2 DEF AfterRound
    <3>4. ~Receiving'
      BY <3>3 DEF Receiving
    <3>5. QED
      BY <1>1, <2>1, <2>3, <3>1, <3>3, <3>4 DEF UploadInv
  <2>8. CASE SendFinalOk
    <3>1. /\ pc = "finalOk" /\ pc' = AfterRound
          /\ UNCHANGED <<stored, transferred, extra, consumed>>
      BY <1>4, <2>8 DEF SendFinalOk, request
    <3>2. pc' = "done" /\ ~Receiving'
      BY <2>1, <2>3, <3>1 DEF AfterRound, Receiving
    <3>3. QED
      BY <1>1, <2>1, <2>3, <3>1, <3>2 DEF UploadInv
  <2>9. QED
    BY <1>4, <2>4, <2>5, <2>6, <2>7, <2>8 DEF PutStep, ReceiveFails
<1>5. QED
  BY <1>2, <1>3, <1>4 DEF Fails

LEMMA NextUpload ==
  TypeOK /\ HandOverInv /\ UploadInv /\ [Next]_vars => UploadInv'
<1> SUFFICES ASSUME TypeOK, HandOverInv, UploadInv, [Next]_vars PROVE UploadInv'
  OBVIOUS
<1>1. ASSUME UNCHANGED <<job, stored, transferred, extra, consumed,
                         quantumRemaining, deficit>>,
             \/ UNCHANGED <<pc, changes, rounds>>
             \/ pc = "queued" /\ pc' \in {"status", "open"} /\ UNCHANGED changes
             \/ pc = "status" /\ pc' = "open" /\ UNCHANGED changes
      PROVE  UploadInv'
  <2>1. /\ (Put' <=> Put) /\ (Preemptive' <=> Preemptive)
        /\ (Receiving' => Receiving)
    BY <1>1 DEF Put, Preemptive, rr, drr, Receiving, Credit
  <2>2. QED
    BY <1>1, <2>1 DEF UploadInv
<1>2. CASE PutStep
  BY <1>2, PutUpload
<1>3. CASE Fails
  BY <1>3, FailureUpload
<1>4. CASE GetStep /\ ~Rejects /\ ~SendFails /\ ~PacketCut
  <2>1. Get
    BY <1>4 DEF GetStep, OpenGet, LineTaken, LineOverruns, LineForfeits, LoopEnds,
                ReadFails, Reading, SendBatch, FinishGet, HandOverInv, Sides
  <2>2. ~Put'
    BY <1>4, <2>1, RoundKeeps DEF Get, Put
  <2>3. QED
    BY <2>2 DEF UploadInv
<1>5. CASE BeginRound
  BY <1>1, <1>5 DEF BeginRound, locals
<1>6. CASE SendStatus /\ ~SendFails
  BY <1>1, <1>6 DEF SendStatus, locals
<1>7. CASE PeerStops
  BY <1>1, <1>7 DEF PeerStops, request, locals
<1>8. CASE FileChanges
  <2>1. changes' > 0
    BY <1>8, Naturals DEF FileChanges
  <2>2. QED
    BY <2>1 DEF UploadInv
<1>9. CASE UNCHANGED vars
  BY <1>1, <1>9 DEF vars, request, locals
<1>10. QED
  BY <1>2, <1>3, <1>4, <1>5, <1>6, <1>7, <1>8, <1>9 DEF Next, Serve, Fails

LEMMA InitUpload == Init => UploadInv
<1> SUFFICES ASSUME Init PROVE UploadInv
  OBVIOUS
<1>1. TypeOK
  BY InitTyped
<1>2. pc = "queued" /\ transferred = 0 /\ rounds = 0
  BY DEF Init
<1>3. PICK early \in 0 .. MaxBytes + MaxSurplus :
        Put => extra = Numbers(0, early) /\ consumed = early
  BY DEF Init, Put
<1>4. early \in Nat
  BY ConstantTypes
<1>5. Put => Len(extra) = early
  BY <1>3, <1>4, NumbersType
<1>6. QED
  BY <1>1, <1>2, <1>3, <1>4, <1>5, Naturals DEF UploadInv, Receiving
-----------------------------------------------------------------------------
(* The answers.                                                            *)

LEMMA Answers ==
  /\ Append(<<>>, "OK") = <<"OK">> /\ Append(<<"OK">>, "OK") = <<"OK", "OK">>
  /\ Append(<<"OK">>, "ERR") # <<"OK", "OK">>
  /\ <<"OK">> # <<"OK", "OK">> /\ <<>> # <<"OK", "OK">>
<1>1. /\ Len(<<"OK">>) = 1 /\ Len(<<"OK", "OK">>) = 2 /\ Len(<<>>) = 0
  OBVIOUS
<1>2. <<"OK">> # <<"OK", "OK">> /\ <<>> # <<"OK", "OK">>
  BY <1>1
<1>3. Append(<<>>, "OK") = <<"OK">>
  OBVIOUS
<1>4. Append(<<"OK">>, "OK") = <<"OK", "OK">>
  <2> DEFINE a == Append(<<"OK">>, "OK")
             S == {"OK", "ERR"}
  <2>1. "OK" \in S /\ <<"OK">> \in Seq(S) /\ <<"OK", "OK">> \in Seq(S)
    OBVIOUS
  <2>2. a[1] = "OK" /\ a[2] = "OK" /\ <<"OK", "OK">>[1] = "OK"
        /\ <<"OK", "OK">>[2] = "OK"
    OBVIOUS
  <2>3. a \in Seq(S) /\ Len(a) = 2
    OBVIOUS
  <2> HIDE DEF a, S
  <2>4. \A i \in 1 .. Len(a) : a[i] = <<"OK", "OK">>[i]
    BY <2>2, <2>3
  <2>5. a = <<"OK", "OK">>
    BY <1>1, <2>1, <2>3, <2>4, SeqEqual
  <2>6. QED
    BY <2>5 DEF a
<1>5. Append(<<"OK">>, "ERR") # <<"OK", "OK">>
  <2>1. Append(<<"OK">>, "ERR")[2] = "ERR" /\ <<"OK", "OK">>[2] = "OK"
    OBVIOUS
  <2>2. QED
    BY <2>1
<1>6. QED
  BY <1>2, <1>3, <1>4, <1>5

\* A failed request has not been answered with two OKs.
LEMMA FailureReplies ==
  ASSUME TypeOK, RepliesInv,
         \/ Rejects /\ pc \in {"open", "loop", "extra"}
         \/ SendFails /\ pc \in {"status", "finalOk"}
         \/ PacketCut /\ pc \in {"send", "flush"}
  PROVE  RepliesInv'
<1>1. /\ pc' \in {"failed", "killed"}
      /\ replies' \in {replies, Append(replies, "ERR")}
      /\ pc = "status" => replies' = replies
      /\ UNCHANGED <<job, changes, responseStarted>>
  BY DEF Rejects, SendFails, PacketCut, SendErrs, request
<1>2. CASE changes # 0
  BY <1>1, <1>2 DEF RepliesInv
<1>3. CASE changes = 0
  <2>1. replies \in {<<>>, <<"OK">>} /\ (pc # "status" => replies = <<"OK">>)
    BY <1>3 DEF RepliesInv
  <2>2. replies' # <<"OK", "OK">>
    BY <1>1, <2>1, Answers
  <2>3. responseStarted' => Preemptive'
    BY <1>1, <1>3 DEF RepliesInv, Preemptive, rr, drr
  <2>4. QED
    BY <1>1, <2>2, <2>3 DEF RepliesInv
<1>4. QED
  BY <1>2, <1>3

LEMMA NextReplies ==
  TypeOK /\ HandOverInv /\ UploadInv /\ RepliesInv /\ [Next]_vars => RepliesInv'
<1> SUFFICES ASSUME TypeOK, HandOverInv, UploadInv, RepliesInv, [Next]_vars
             PROVE  RepliesInv'
  OBVIOUS
<1> DEFINE Middle == {"open", "loop", "send", "flush", "extra", "finalOk"}
<1>1. /\ job.total \in Nat /\ transferred \in Nat /\ changes \in Nat
      /\ responseStarted \in BOOLEAN
  BY Naturals DEF TypeOK
<1>2. CASE FileChanges
  <2>1. changes' > 0
    BY <1>1, <1>2 DEF FileChanges
  <2>2. QED
    BY <2>1 DEF RepliesInv
<1>3. CASE changes # 0 /\ ~FileChanges
  <2>1. changes' = changes
    BY <1>3 DEF Next, Serve, BeginRound, SendStatus, GetStep, OpenGet, LineTaken,
                LineOverruns, LineForfeits, LoopEnds, ReadFails, SendBatch,
                FinishGet, PutStep, OpenPut, TakeExtra, Receive, ReceiveFails,
                PutRoundEnds, SendFinalOk, PeerStops, Rejects, SendFails,
                PacketCut, vars
  <2>2. QED
    BY <1>3, <2>1 DEF RepliesInv
<1>4. ASSUME changes = 0, ~FileChanges PROVE RepliesInv'
  <2>1. /\ responseStarted => Preemptive
        /\ pc \in {"queued", "status"} => replies \in {<<>>, <<"OK">>}
        /\ pc = "queued" /\ socket = "open" =>
             replies = IF responseStarted THEN <<"OK">> ELSE <<>>
        /\ pc = "status" /\ socket = "open" => replies = <<>>
        /\ pc \in Middle => replies = <<"OK">> /\ (Preemptive => responseStarted)
    BY <1>4 DEF RepliesInv
  <2>2. ASSUME UNCHANGED <<job, changes, replies, responseStarted>>,
               pc \in Middle, pc' \in Middle
        PROVE  RepliesInv'
    <3>1. Preemptive' <=> Preemptive
      BY <2>2 DEF Preemptive, rr, drr
    <3>2. QED
      BY <2>1, <2>2, <3>1 DEF RepliesInv
  <2>3. CASE BeginRound
    <3>1. /\ pc = "queued"
          /\ pc' = IF Preemptive /\ responseStarted THEN "open" ELSE "status"
          /\ UNCHANGED <<job, changes, replies, responseStarted, socket>>
      BY <2>3 DEF BeginRound
    <3>2. Preemptive' <=> Preemptive
      BY <3>1 DEF Preemptive, rr, drr
    <3>3. Preemptive => socket = "open"
      BY <3>1, Naturals DEF HandOverInv, Sockets
    <3>4. QED
      BY <2>1, <3>1, <3>2, <3>3 DEF RepliesInv
  <2>4. CASE SendStatus /\ ~SendFails
    <3>1. /\ pc = "status" /\ pc' = "open" /\ replies' = Append(replies, "OK")
          /\ responseStarted' = Preemptive /\ UNCHANGED <<job, changes>>
          /\ socket = "open"
      BY <2>4 DEF SendStatus, CanSend
    <3>2. Preemptive' <=> Preemptive
      BY <3>1 DEF Preemptive, rr, drr
    <3>3. replies' = <<"OK">>
      BY <2>1, <3>1, Answers
    <3>4. (responseStarted' => Preemptive') /\ (Preemptive' => responseStarted')
      BY <3>1, <3>2
    <3>5. QED
      BY <3>1, <3>3, <3>4 DEF RepliesInv
  <2>5. CASE \/ SendFails /\ (SendStatus \/ SendFinalOk)
             \/ PacketCut /\ SendBatch
    BY <2>5, FailureReplies DEF SendStatus, SendBatch, SendFinalOk
  <2>6. CASE Rejects /\ (OpenGet \/ OpenPut \/ ReadFails \/ TakeExtra \/ ReceiveFails)
    BY <2>6, FailureReplies
       DEF OpenGet, OpenPut, ReadFails, Reading, TakeExtra, ReceiveFails, Receiving
  <2>7. CASE (OpenGet \/ OpenPut) /\ ~Rejects
    BY <2>2, <2>7 DEF OpenGet, OpenPut
  <2>8. CASE LineTaken \/ LineOverruns \/ LineForfeits \/ LoopEnds
    BY <2>2, <2>8 DEF LineTaken, LineOverruns, LineForfeits, LoopEnds, Reading,
                      request
  <2>9. CASE SendBatch /\ ~PacketCut
    BY <2>2, <2>9 DEF SendBatch, request
  <2>10. CASE FinishGet
    <3>1. /\ pc = "flush" /\ pc' = AfterRound
          /\ UNCHANGED <<job, changes, replies, transferred, responseStarted>>
      BY <2>10 DEF FinishGet
    <3>2. Get
      BY <1>4, <3>1 DEF HandOverInv, Sides
    <3>3. /\ pc' \in {"queued", "done"}
          /\ Preemptive \/ socket' = "closed"
      BY <2>10, <3>1 DEF AfterRound, FinishGet, SocketAfterGet
    <3>4. (Get' <=> Get) /\ ~Put' /\ (Preemptive' <=> Preemptive)
      BY <3>1, <3>2 DEF Get, Put, Preemptive, rr, drr
    <3>5. QED
      BY <2>1, <3>1, <3>2, <3>3, <3>4 DEF RepliesInv
  <2>11. CASE TakeExtra /\ ~Rejects
    <3>1. /\ pc = "extra" /\ pc' = "loop"
          /\ UNCHANGED <<job, changes, replies, responseStarted>>
      BY <2>11, TakesExtra
    <3>2. QED
      BY <2>2, <3>1
  <2>12. CASE Receive
    <3>1. /\ pc = "loop" /\ pc' = "loop"
          /\ UNCHANGED <<job, changes, replies, responseStarted>>
      BY <2>12, Receives DEF Receiving
    <3>2. QED
      BY <2>2, <3>1
  <2>13. CASE PutRoundEnds
    <3>1. /\ pc = "loop" /\ Put
          /\ pc' = IF ~Preemptive \/ transferred = job.total THEN "finalOk"
                   ELSE AfterRound
          /\ UNCHANGED <<job, changes, replies, transferred, responseStarted>>
      BY <2>13 DEF PutRoundEnds
    <3>2. \/ pc' = "finalOk"
          \/ Preemptive /\ pc' = "queued"
          \/ Preemptive /\ pc' = "done" /\ transferred # job.total
      BY <3>1 DEF AfterRound
    <3>3. Put' /\ ~Get' /\ (Preemptive' <=> Preemptive)
      BY <3>1, PutStays
    <3>4. QED
      BY <2>1, <3>1, <3>2, <3>3, Answers DEF RepliesInv
  <2>14. CASE SendFinalOk /\ ~SendFails
    <3>1. /\ pc = "finalOk" /\ pc' = AfterRound
          /\ replies' = Append(replies, "OK")
          /\ UNCHANGED <<job, changes, stored, transferred, responseStarted>>
      BY <2>14 DEF SendFinalOk, request
    <3>2. /\ Put /\ transferred = job.total /\ stored = Numbers(0, transferred)
      BY <1>4, <3>1 DEF HandOverInv, Sides, UploadInv
    <3>3. pc' = "done" /\ replies' = <<"OK", "OK">>
      <4>1. pc' = "done"
        BY <1>1, <3>1, <3>2 DEF AfterRound
      <4>2. replies = <<"OK">>
        BY <2>1, <3>1
      <4>3. QED
        BY <3>1, <4>1, <4>2, Answers
    <3>4. Put' /\ ~Get' /\ (Preemptive' <=> Preemptive)
      BY <3>1, <3>2, PutStays
    <3>5. stored' = Numbers(0, job'.total)
      BY <3>1, <3>2
    <3>6. responseStarted' => Preemptive'
      BY <2>1, <3>1, <3>4
    <3>7. QED
      BY <3>3, <3>4, <3>5, <3>6 DEF RepliesInv
  <2>15. CASE PeerStops \/ UNCHANGED vars
    <3>1. UNCHANGED <<job, changes, replies, responseStarted, pc, transferred,
                      stored, socket>>
      BY <2>15 DEF PeerStops, vars, request
    <3>2. /\ (Get' <=> Get) /\ (Put' <=> Put) /\ (Preemptive' <=> Preemptive)
          /\ Numbers(0, job.total)' = Numbers(0, job.total)
      BY <3>1 DEF Get, Put, Preemptive, rr, drr
    <3>3. QED
      BY <3>1, <3>2 DEF RepliesInv
  <2>16. QED
    BY <1>4, <2>3, <2>4, <2>5, <2>6, <2>7, <2>8, <2>9, <2>10, <2>11, <2>12, <2>13,
       <2>14, <2>15 DEF Next, Serve, GetStep, PutStep, ReadFails, ReceiveFails
<1>5. QED
  BY <1>2, <1>3, <1>4

LEMMA InitReplies == Init => RepliesInv
BY DEF Init, RepliesInv

LEMMA AlwaysUploaded == Spec => [](UploadInv /\ RepliesInv)
BY AlwaysHandedOver, InitUpload, InitReplies, NextUpload, NextReplies, PTL DEF Spec

LEMMA UploadArrives ==
  ASSUME TypeOK, UploadInv, RepliesInv
  PROVE  UploadStored
<1> SUFFICES ASSUME Put, changes = 0
             PROVE  /\ (pc = "queued" /\ rounds > 0) => stored = Numbers(0, transferred)
                    /\ replies = <<"OK", "OK">> => stored = Numbers(0, job.total)
  BY DEF UploadStored
<1>1. (pc = "queued" /\ rounds > 0) => stored = Numbers(0, transferred)
  BY DEF UploadInv
<1>2. replies = <<"OK", "OK">> => pc = "done"
  BY Answers, Naturals DEF RepliesInv, Pcs
<1>3. replies = <<"OK", "OK">> => stored = Numbers(0, job.total)
  BY <1>2, Answers DEF RepliesInv
<1>4. QED
  BY <1>1, <1>3

LEMMA CompletionTold ==
  ASSUME TypeOK, BodyInv, RepliesInv
  PROVE  CompletedIsAnswered
<1> SUFFICES ASSUME pc = "done", changes = 0
             PROVE  IF Get THEN replies = <<"OK">> /\ body = Numbers(0, job.total)
                    ELSE transferred = job.total => replies = <<"OK", "OK">>
  BY DEF CompletedIsAnswered
<1>1. CASE Get
  BY <1>1 DEF BodyInv, RepliesInv
<1>2. CASE ~Get
  <2>1. Put
    BY <1>2, Naturals DEF Get, Put
  <2>2. QED
    BY <1>2, <2>1 DEF RepliesInv
<1>3. QED
  BY <1>1, <1>2

\* For every body, early bytes, policy and quantum: what a PUT has stored is the
\* announced bytes in order, all of them when the second OK is sent.
THEOREM UploadsAreStored == Spec => []UploadStored
BY UploadArrives, AlwaysHandedOver, AlwaysUploaded, PTL

\* For every request: it is recorded as completed only when its whole answer has
\* been sent.
THEOREM CompletedWhenAnswered == Spec => []CompletedIsAnswered
BY CompletionTold, AlwaysHandedOver, AlwaysBody, AlwaysUploaded, PTL

-----------------------------------------------------------------------------
(* All of it, for the modules that compose the service with a client.      *)

ServiceInv == TypeOK /\ HandOverInv /\ AccountsInv /\ BodyInv /\ PacketInv
                /\ UploadInv /\ RepliesInv

LEMMA InitService == Init => ServiceInv
BY InitTyped, InitHandOver, InitAccounts, InitBody, InitUpload, InitReplies
   DEF ServiceInv

LEMMA NextService == ServiceInv /\ [Next]_vars => ServiceInv'
BY NextTyped, NextHandOver, NextAccounts, NextBody, NextUpload, NextReplies
   DEF ServiceInv

LEMMA ServicePromises ==
  ServiceInv => /\ HandOver /\ BodyIsWholeLines /\ PacketsWithinLimit
                /\ RoundRobinAccounts /\ DeficitAccounts
                /\ UploadStored /\ CompletedIsAnswered
BY AccountsSettled, BodyArrives, UploadArrives, CompletionTold
   DEF ServiceInv, HandOverInv

-----------------------------------------------------------------------------
(* RequestService implements RequestContract: what that needs beyond the   *)
(* invariants above.                                                       *)

\* A body is not longer than announced, and only an unreliable client stops.
ClientKeeps ==
  /\ job.stream <= job.total
  /\ peer # "reading" => ~job.peerReliable

\* Only on an unreliable disk less of a file can be read than stat saw, and then
\* only rr and drr are considered.
FileKeeps ==
  Get => /\ ~Preemptive => disk.size = job.total
         /\ disk.size < job.total => ~job.diskReliable

\* Where a GET is in its turn.  A request that waits has data left, but for an
\* empty file.  Nothing is taken before the first line: the loop has the whole
\* quantum and no packet.  A packet that is sent while firstLine holds is the one
\* line of an overrun.  After the first line less than a quantum is left, and the
\* round ends when that is too little for the next line.
GetTurn ==
  Get =>
    /\ pc \in {"queued", "status", "open"} => transferred < job.total \/ job.total = 0
    /\ pc = "send" => ~firstLine
    /\ pc = "loop" /\ firstLine =>
         /\ batch = <<>> /\ quantumRemaining = job.quantum
         /\ transferred < job.total \/ job.total = 0
    /\ pc = "flush" /\ firstLine /\ batch # <<>> =>
         /\ rr /\ quantumRemaining = job.quantum
         /\ position = Len(body) + LineLength(Len(body))
         /\ LineLength(Len(body)) > quantumRemaining
    /\ rr /\ ~firstLine /\ pc \in {"loop", "send", "flush"} =>
         quantumRemaining < job.quantum
    /\ rr /\ ~firstLine /\ pc = "flush" /\ transferred < disk.size =>
         LineLength(transferred) > quantumRemaining

PutTurn == Put => batch = <<>>

TurnInv == ClientKeeps /\ FileKeeps /\ GetTurn /\ PutTurn

RefInv == ServiceInv /\ TurnInv /\ changes = 0

\* What the proofs below use of the invariants, in every state of a request that
\* nobody disturbs.
LEMMA UndisturbedFacts ==
  ASSUME RefInv
  PROVE  /\ TypeOK /\ HandOverInv /\ DeficitInv /\ BodyInv /\ UploadInv /\ RepliesInv
         /\ changes = 0 /\ TurnInv
BY DEF RefInv, ServiceInv, AccountsInv

\* No step changes what is asked for, or the file of a GET that nobody changes.
LEMMA JobFixed ==
  ASSUME TypeOK, [Next]_vars
  PROVE  UNCHANGED job
<1>1. CASE GetStep \/ PutStep
  BY <1>1, RoundKeeps
<1>2. CASE ~GetStep /\ ~PutStep
  BY <1>2 DEF Next, Serve, BeginRound, SendStatus, SendFails, PeerStops, FileChanges,
              vars
<1>3. QED
  BY <1>1, <1>2

LEMMA StillUndisturbed ==
  ASSUME TypeOK, changes = 0, changes' = 0, [Next]_vars
  PROVE  /\ UNCHANGED <<job, disk>> /\ ~FileChanges
         /\ (Get' <=> Get) /\ (Put' <=> Put) /\ (rr' <=> rr) /\ (drr' <=> drr)
         /\ (Preemptive' <=> Preemptive)
         /\ \A at : LineLength(at)' = LineLength(at)
<1>1. ~FileChanges
  BY DEF FileChanges
<1>2. UNCHANGED disk
  <2>1. CASE GetStep \/ PutStep
    BY <2>1, RoundKeeps
  <2>2. CASE ~GetStep /\ ~PutStep
    BY <1>1, <2>2 DEF Next, Serve, BeginRound, SendStatus, SendFails, PeerStops, vars
  <2>3. QED
    BY <2>1, <2>2
<1>3. UNCHANGED job
  BY JobFixed
<1>4. \A at : LineLength(at)' = LineLength(at)
  BY <1>2 DEF LineLength
<1>5. QED
  BY <1>1, <1>2, <1>3, <1>4 DEF Get, Put, rr, drr, Preemptive

LEMMA InitTurn == Undisturbed /\ Init => TurnInv
<1> SUFFICES ASSUME Undisturbed, Init PROVE TurnInv
  OBVIOUS
<1>1. pc = "queued" /\ transferred = 0 /\ batch = <<>> /\ peer = "reading"
      /\ firstLine
  BY DEF Init
<1>2. job.total \in Nat /\ disk.size \in Nat
  BY InitTyped, Naturals
<1>3. disk.size < job.total /\ Get => ~job.diskReliable
  <2>1. PICK policy \in Policies, quantum \in 1 .. MaxQuantum,
             packet \in 1 .. MaxPacket, n \in 0 .. MaxBytes,
             stream, early \in 0 .. MaxBytes + MaxSurplus,
             peerOk \in {TRUE, PeerReliable}, diskOk \in {TRUE, DiskReliable} :
          \/ /\ early = 0 /\ stream = 0
             /\ n = disk.size \/ (n > disk.size /\ ~diskOk)
             /\ job = [op |-> "GET", policy |-> policy, quantum |-> quantum,
                       packetLimit |-> packet, total |-> n, stream |-> 0,
                       peerReliable |-> peerOk, diskReliable |-> diskOk]
             /\ extra = <<>> /\ consumed = 0
          \/ /\ early <= stream /\ disk.size = 0 /\ packet = 1
             /\ stream \in n - MaxShortfall .. n + MaxSurplus
             /\ job = [op |-> "PUT", policy |-> policy, quantum |-> quantum,
                       packetLimit |-> 1, total |-> n, stream |-> stream,
                       peerReliable |-> peerOk, diskReliable |-> diskOk]
             /\ extra = Numbers(0, early) /\ consumed = early
    BY InitJob, Zenon
  <2>2. ASSUME Get, disk.size < job.total PROVE ~job.diskReliable
    <3>1. /\ n = disk.size \/ (n > disk.size /\ ~diskOk)
          /\ job.total = n /\ job.diskReliable = diskOk
      BY <2>1, <2>2 DEF Get
    <3>2. n # disk.size
      BY <1>2, <2>2, <3>1
    <3>3. QED
      BY <3>1, <3>2
  <2>3. QED
    BY <2>2
<1>4. QED
  BY <1>1, <1>2, <1>3
     DEF TurnInv, ClientKeeps, FileKeeps, GetTurn, PutTurn, Undisturbed, Intact

LEMMA NextClient ==
  ASSUME TypeOK, [Next]_vars, ClientKeeps
  PROVE  ClientKeeps'
<1>1. UNCHANGED job
  BY JobFixed
<1>2. peer' = peer \/ PeerStops
  BY DEF Next, Serve, BeginRound, SendStatus, GetStep, OpenGet, LineTaken,
         LineOverruns, LineForfeits, LoopEnds, ReadFails, SendBatch, FinishGet,
         PutStep, OpenPut, TakeExtra, Receive, ReceiveFails, PutRoundEnds,
         SendFinalOk, FileChanges, Rejects, SendFails, PacketCut, vars
<1>3. QED
  BY <1>1, <1>2 DEF ClientKeeps, PeerStops

LEMMA NextPutTurn ==
  ASSUME TypeOK, HandOverInv, [Next]_vars, PutTurn
  PROVE  PutTurn'
<1>1. UNCHANGED job
  BY JobFixed
<1>2. CASE UNCHANGED batch
  BY <1>1, <1>2 DEF PutTurn, Put
<1>3. CASE batch' # batch
  <2>1. OpenGet \/ LineTaken \/ LineOverruns \/ SendBatch
    BY <1>3 DEF Next, Serve, BeginRound, SendStatus, GetStep, LineForfeits, LoopEnds,
           ReadFails, FinishGet,
           PutStep, OpenPut, TakeExtra, Receive, ReceiveFails, PutRoundEnds,
           SendFinalOk, FileChanges, PeerStops, Rejects, SendFails, vars, locals
  <2>2. Get
    BY <2>1 DEF OpenGet, LineTaken, LineOverruns, Reading, SendBatch, HandOverInv, Sides
  <2>3. QED
    BY <1>1, <2>2 DEF PutTurn, Put, Get
<1>4. QED
  BY <1>2, <1>3

\* Where the next line starts, and what is in the packet.
LEMMA PacketFacts ==
  ASSUME RefInv, Get
  PROVE  /\ disk.size <= job.total /\ transferred <= disk.size
         /\ transferred <= job.total
         /\ ~Preemptive => job.total = disk.size
         /\ Len(body) \in Nat /\ body = Numbers(0, Len(body))
         /\ pc \in {"loop", "send", "flush"} =>
              /\ position = transferred /\ LineEnd(position)
              /\ batch = Numbers(Len(body), position - Len(body))
              /\ Len(batch) = position - Len(body) /\ Len(batch) \in Nat
              /\ Len(body) <= position
         /\ pc \in {"queued", "status", "open"} => Len(body) = transferred
<1>1. TypeOK /\ HandOverInv /\ BodyInv /\ changes = 0 /\ FileKeeps
  BY UndisturbedFacts DEF TurnInv
<1>2. Len(body) \in Nat
  BY <1>1 DEF TypeOK
<1>3. /\ position \in Nat /\ transferred \in Nat /\ disk.size \in Nat
      /\ job.total \in Nat
  BY <1>1, Naturals
<1>4. /\ disk.size <= job.total /\ transferred <= disk.size
      /\ transferred <= job.total
      /\ ~Preemptive => job.total = disk.size
      /\ pc \in {"loop", "send", "flush"} => position = transferred
  BY <1>1, <1>3 DEF HandOverInv, GetProgress, FileKeeps
<1>5. /\ body = Numbers(0, Len(body))
      /\ pc \in {"loop", "send", "flush"} =>
           /\ Len(body) <= position /\ LineEnd(position)
           /\ batch = Numbers(Len(body), position - Len(body))
      /\ pc \in {"queued", "status", "open"} => Len(body) = transferred
  BY <1>1 DEF BodyInv
<1>6. ASSUME Len(body) <= position, batch = Numbers(Len(body), position - Len(body))
      PROVE  Len(batch) = position - Len(body) /\ Len(batch) \in Nat
  <2>1. position - Len(body) \in Nat
    BY <1>2, <1>3, <1>6
  <2>2. QED
    BY <1>2, <1>6, <2>1, NumbersType
<1>7. QED
  BY <1>2, <1>4, <1>5, <1>6

LEMMA NextGetTurn ==
  ASSUME RefInv, changes' = 0, [Next]_vars
  PROVE  GetTurn'
<1>1. /\ TypeOK /\ HandOverInv /\ GetTurn /\ changes = 0
  BY UndisturbedFacts DEF TurnInv
<1>2. /\ UNCHANGED <<job, disk>> /\ ~FileChanges /\ (Get' <=> Get) /\ (rr' <=> rr)
      /\ \A at : LineLength(at)' = LineLength(at)
  BY <1>1, StillUndisturbed
<1>3. /\ job.total \in Nat /\ job.quantum \in Nat \ {0}
      /\ transferred \in Nat /\ quantumRemaining \in Nat /\ position \in Nat
      /\ disk.size \in Nat
  BY <1>1, Naturals
<1>4. CASE ~Get
  BY <1>2, <1>4 DEF GetTurn
<1>5. CASE pc' \in {"failed", "killed"}
  BY <1>5 DEF GetTurn
<1> SUFFICES ASSUME Get, pc' \notin {"failed", "killed"} PROVE GetTurn'
  BY <1>4, <1>5
<1>6. ~Rejects /\ ~SendFails /\ ~PacketCut
  BY FailsWhat DEF Fails
<1>7. ~PutStep
  BY <1>1, <1>6 DEF PutStep, OpenPut, TakeExtra, Receive, Receiving, ReceiveFails,
                    PutRoundEnds, SendFinalOk, HandOverInv, Sides, Get, Put
<1>8. /\ disk.size <= job.total
      /\ pc \in {"loop", "send", "flush"} => position = transferred
  BY PacketFacts
<1>9. \A at \in Nat : LineLength(at) \in Nat /\ (LineLength(at) > 0 <=> at < disk.size)
  BY <1>1, Naturals, LineBounds
<1>10. CASE BeginRound
  <2>1. pc = "queued" /\ pc' \in {"status", "open"} /\ UNCHANGED transferred
    BY <1>10 DEF BeginRound
  <2>2. QED
    BY <1>1, <1>2, <2>1 DEF GetTurn
<1>11. CASE SendStatus
  <2>1. pc = "status" /\ pc' = "open" /\ UNCHANGED transferred
    BY <1>6, <1>11 DEF SendStatus
  <2>2. QED
    BY <1>1, <1>2, <2>1 DEF GetTurn
<1>12. CASE OpenGet
  <2>1. /\ pc = "open" /\ pc' = "loop" /\ firstLine' = TRUE /\ batch' = <<>>
        /\ quantumRemaining' = job.quantum /\ UNCHANGED transferred
    BY <1>6, <1>12 DEF OpenGet
  <2>2. QED
    BY <1>1, <1>2, <2>1 DEF GetTurn
<1>13. CASE LineTaken
  <2> DEFINE n == LineLength(position)
  <2>1. /\ pc = "loop" /\ n > 0 /\ (rr => n <= quantumRemaining)
        /\ transferred' = transferred + n
        /\ quantumRemaining' = IF rr THEN quantumRemaining - n ELSE quantumRemaining
        /\ firstLine' = FALSE
        /\ pc' \in {"send", "flush", "loop"}
        /\ pc' = "flush" => rr /\ quantumRemaining' = 0
    BY <1>13 DEF LineTaken, Reading, Fits
  <2>2. rr => quantumRemaining <= job.quantum
    BY <1>1, <1>3, <2>1 DEF GetTurn
  <2>3. n \in Nat
    BY <1>3, <1>9
  <2> HIDE DEF n
  <2>4. rr => quantumRemaining' < job.quantum
    BY <1>3, <2>1, <2>2, <2>3
  <2>5. transferred' \in Nat
    BY <1>3, <2>1, <2>3
  <2>6. pc' = "flush" /\ transferred' < disk.size =>
          LineLength(transferred') > quantumRemaining'
    BY <1>9, <2>1, <2>5
  <2>7. QED
    BY <1>2, <2>1, <2>4, <2>6 DEF GetTurn
<1>14. CASE LineOverruns
  <2> DEFINE n == LineLength(position)
  <2>1. /\ pc = "loop" /\ rr /\ n > quantumRemaining /\ firstLine
        /\ position' = position + n /\ pc' = "flush"
        /\ UNCHANGED <<firstLine, quantumRemaining, body>>
    BY <1>14 DEF LineOverruns, Reading
  <2>2. batch = <<>> /\ quantumRemaining = job.quantum
    BY <1>1, <2>1 DEF GetTurn
  <2>3. position = Len(body)
    <3>1. Len(batch) = position - Len(body) /\ Len(body) \in Nat
      BY <2>1, PacketFacts
    <3>2. Len(batch) = 0
      BY <2>2
    <3>3. QED
      BY <1>3, <3>1, <3>2
  <2>4. /\ position' = Len(body') + LineLength(Len(body'))
        /\ LineLength(Len(body')) > quantumRemaining'
        /\ quantumRemaining' = job.quantum
    BY <2>1, <2>2, <2>3
  <2>5. QED
    BY <1>2, <2>1, <2>4 DEF GetTurn
<1>15. CASE LineForfeits
  <2>1. /\ pc = "loop" /\ rr /\ LineLength(position) > quantumRemaining
        /\ ~firstLine /\ pc' = "flush"
        /\ UNCHANGED <<firstLine, quantumRemaining, transferred>>
    BY <1>15 DEF LineForfeits, Reading, locals
  <2>2. QED
    BY <1>1, <1>2, <1>8, <2>1 DEF GetTurn
<1>16. CASE LoopEnds
  <2>1. /\ pc = "loop" /\ pc' = "flush"
        /\ UNCHANGED <<firstLine, quantumRemaining, transferred, batch>>
        /\ rr => transferred >= job.total
    BY <1>16 DEF LoopEnds, locals, request, Preemptive, rr, drr
  <2>2. rr => ~(transferred < disk.size)
    BY <1>3, <1>8, <2>1
  <2>3. QED
    BY <1>1, <1>2, <2>1, <2>2 DEF GetTurn
<1>17. CASE SendBatch
  <2>1. /\ pc \in {"send", "flush"} /\ batch' = <<>>
        /\ pc' = IF pc = "send" /\ ~(rr /\ quantumRemaining = 0)
                 THEN "loop" ELSE "flush"
        /\ UNCHANGED <<firstLine, quantumRemaining, transferred>>
    BY <1>6, <1>17 DEF SendBatch, request
  <2>2. pc = "send" => ~firstLine
    BY <1>1 DEF GetTurn
  <2>3. pc = "send" /\ pc' = "flush" /\ transferred < disk.size =>
          rr /\ LineLength(transferred) > quantumRemaining
    BY <1>3, <1>9, <2>1
  <2>4. QED
    BY <1>1, <1>2, <2>1, <2>2, <2>3 DEF GetTurn
<1>18. CASE FinishGet
  <2>1. pc' = AfterRound /\ UNCHANGED transferred
    BY <1>18 DEF FinishGet
  <2>2. QED
    BY <1>2, <2>1 DEF GetTurn, AfterRound
<1>19. CASE PeerStops \/ UNCHANGED vars
  <2>1. UNCHANGED <<pc, transferred, firstLine, quantumRemaining, batch, position, body>>
    BY <1>19 DEF PeerStops, vars, request, locals
  <2>2. QED
    BY <1>1, <1>2, <2>1 DEF GetTurn
<1>20. QED
  BY <1>2, <1>6, <1>7, <1>10, <1>11, <1>12, <1>13, <1>14, <1>15, <1>16, <1>17, <1>18,
     <1>19 DEF Next, Serve, GetStep, ReadFails

LEMMA NextRef == RefInv /\ Undisturbed' /\ [Next]_vars => RefInv'
<1> SUFFICES ASSUME RefInv, Undisturbed', [Next]_vars PROVE RefInv'
  OBVIOUS
<1>1. /\ TypeOK /\ HandOverInv /\ ClientKeeps /\ FileKeeps /\ PutTurn
      /\ changes = 0 /\ changes' = 0
  BY UndisturbedFacts DEF TurnInv, Undisturbed
<1>2. ServiceInv'
  BY NextService DEF RefInv
<1>3. ClientKeeps' /\ PutTurn'
  BY <1>1, NextClient, NextPutTurn
<1>4. GetTurn'
  BY <1>1, NextGetTurn
<1>5. FileKeeps'
  BY <1>1, StillUndisturbed DEF FileKeeps
<1>6. QED
  BY <1>1, <1>2, <1>3, <1>4, <1>5 DEF RefInv, TurnInv

\* A file that has been changed stays changed, and no step changes the request.
LEMMA StaysDisturbed ==
  ASSUME TypeOK, [Next]_vars, Undisturbed'
  PROVE  Undisturbed
<1>1. changes' = changes \/ changes' = changes + 1
  BY DEF Next, Serve, BeginRound, SendStatus, GetStep, OpenGet, LineTaken,
         LineOverruns, LineForfeits, LoopEnds, ReadFails, SendBatch, FinishGet,
         PutStep, OpenPut, TakeExtra, Receive, ReceiveFails, PutRoundEnds,
         SendFinalOk, PeerStops, FileChanges, SendFails, PacketCut, Rejects, vars
<1>2. changes \in Nat
  BY Naturals
<1>3. changes = 0 /\ changes' = 0
  BY <1>1, <1>2 DEF Undisturbed
<1>4. UNCHANGED <<job, disk>> /\ (Get' <=> Get) /\ (Preemptive' <=> Preemptive)
  BY <1>3, StillUndisturbed
<1>5. QED
  BY <1>3, <1>4 DEF Undisturbed, Intact

LEMMA AlwaysRef == Spec => [](Undisturbed => RefInv)
<1>1. Init => (Undisturbed => RefInv)
  BY InitTurn, InitService DEF RefInv, Undisturbed
<1>2. TypeOK /\ (Undisturbed => RefInv) /\ [Next]_vars => (Undisturbed => RefInv)'
  <2> SUFFICES ASSUME TypeOK, Undisturbed => RefInv, [Next]_vars, Undisturbed'
               PROVE  RefInv'
    OBVIOUS
  <2>1. Undisturbed
    BY StaysDisturbed
  <2>2. QED
    BY <2>1, NextRef
<1>3. QED
  BY <1>1, <1>2, ServiceTypeCorrect, PTL DEF Spec

-----------------------------------------------------------------------------
(* The contract's variables.                                               *)

\* bytes the request has moved
Sent == IF Get THEN Len(body) ELSE transferred

LEMMA DataKnown ==
  ASSUME RefInv, ~Over
  PROVE  /\ Sent \in Nat /\ Sent <= job.total
         /\ Data = Numbers(0, Sent) /\ Len(Data) = Sent
<1>1. /\ TypeOK /\ HandOverInv /\ UploadInv /\ changes = 0 /\ ClientKeeps
  BY UndisturbedFacts DEF TurnInv
<1>2. /\ job.total \in Nat /\ transferred \in Nat /\ position \in Nat
      /\ consumed \in Nat /\ consumed <= job.stream /\ Len(extra) \in Nat
      /\ job.stream \in Nat /\ pc \in Pcs /\ job.op \in {"GET", "PUT"}
  BY <1>1, Naturals
<1>3. CASE Get
  <2>1. /\ Len(body) \in Nat /\ body = Numbers(0, Len(body))
        /\ transferred <= job.total
        /\ pc \in {"queued", "status", "open"} => Len(body) = transferred
        /\ pc \in {"loop", "send", "flush"} =>
             position = transferred /\ Len(body) <= position
    BY <1>3, PacketFacts
  <2>2. pc \in {"queued", "status", "open", "loop", "send", "flush"}
    BY <1>1, <1>2, <1>3 DEF Pcs, Over, HandOverInv, Sides, Get, Put
  <2>3. Len(body) <= job.total
    BY <1>2, <2>1, <2>2
  <2>4. QED
    BY <1>3, <2>1, <2>3 DEF Sent, Data
<1>4. CASE ~Get
  <2>1. Put
    BY <1>2, <1>4 DEF Get, Put
  <2>2. transferred <= job.total
    <3>1. CASE Preemptive
      <4>1. transferred + Len(extra) = consumed /\ job.stream <= job.total
        BY <1>1, <2>1, <3>1 DEF UploadInv, ClientKeeps
      <4>2. QED
        BY <1>2, <4>1
    <3>2. CASE ~Preemptive
      BY <1>1, <2>1, <3>2 DEF UploadInv
    <3>3. QED
      BY <3>1, <3>2
  <2>3. pc \in {"queued", "status", "open", "extra", "loop", "finalOk"}
    BY <1>1, <1>2, <2>1 DEF Pcs, Over, HandOverInv, Sides, Get, Put
  <2>4. transferred > 0 => stored = Numbers(0, transferred)
    BY <1>1, <2>1, <2>3 DEF UploadInv
  <2>5. Numbers(0, 0) = <<>>
    BY NumbersNone
  <2>6. Data = Numbers(0, transferred)
    BY <1>2, <1>4, <2>4, <2>5 DEF Data
  <2>7. Len(Numbers(0, transferred)) = transferred
    BY <1>2, NumbersType
  <2>8. QED
    BY <1>2, <1>4, <2>2, <2>6, <2>7 DEF Sent
<1>5. QED
  BY <1>3, <1>4

LEMMA LeftKnown ==
  ASSUME RefInv, ~Over
  PROVE  /\ pc = "queued" => Left = IF drr THEN deficit ELSE 0
         /\ pc # "queued" /\ Sent = job.total => Left = 0
         /\ pc # "queued" /\ Sent # job.total =>
              Left = IF rr THEN RoundRobinLeft
                     ELSE IF drr THEN DeficitLeft ELSE job.total - Sent
<1>1. Len(Data) = Sent
  BY DataKnown
<1>2. Unfinished <=> pc # "queued" /\ Sent # job.total
  BY <1>1 DEF Unfinished
<1>3. ~(rr /\ drr) /\ (Preemptive <=> rr \/ drr)
  BY DEF rr, drr, Preemptive
<1>4. QED
  BY <1>1, <1>2, <1>3, Zenon DEF Left

LEMMA LeftOver == Over => Left = 0
<1> SUFFICES ASSUME Over PROVE Left = 0
  OBVIOUS
<1>1. pc # "queued" /\ ~Unfinished
  BY DEF Over, Unfinished
<1>2. QED
  BY <1>1 DEF Left

\* What the two lemmas say, also of the state after a step.
Mapped ==
  /\ ~Over =>
       /\ Sent \in Nat /\ Sent <= job.total
       /\ Data = Numbers(0, Sent) /\ Len(Data) = Sent
       /\ pc = "queued" => Left = IF drr THEN deficit ELSE 0
       /\ pc # "queued" /\ Sent = job.total => Left = 0
       /\ pc # "queued" /\ Sent # job.total =>
            Left = IF rr THEN RoundRobinLeft
                   ELSE IF drr THEN DeficitLeft ELSE job.total - Sent
  /\ Over => Left = 0

LEMMA MappedNow == RefInv => Mapped
BY DataKnown, LeftKnown, LeftOver DEF Mapped

LEMMA MappedNext == RefInv' => Mapped'
BY MappedNow, PTL

LEMMA TermsFields ==
  /\ Terms.op = job.op /\ Terms.policy = job.policy
  /\ Terms.quantum = job.quantum /\ Terms.total = job.total
  /\ Terms.short <=> Put /\ job.stream < job.total
  /\ Terms.peerReliable = job.peerReliable
  /\ Terms.diskReliable = job.diskReliable
  /\ Terms.cuts = IF Get THEN disk.ends \cup {disk.size} ELSE 1 .. job.total
BY DEF Terms

LEMMA TermsStay ==
  ASSUME UNCHANGED <<job, disk>>
  PROVE  UNCHANGED Terms
BY DEF Terms, Get, Put

\* Where the data may be cut: nowhere in a line.
LEMMA CutsKnown ==
  ASSUME RefInv
  PROVE  /\ \A c \in Terms.cuts : c \in Nat
         /\ Get => \A c \in Terms.cuts : c <= disk.size
         /\ Get => \A at \in Nat : at < disk.size =>
              /\ LineLength(at) \in Nat /\ LineLength(at) > 0
              /\ at + LineLength(at) \in Terms.cuts
              /\ \A c \in Terms.cuts : c > at => at + LineLength(at) <= c
<1>1. TypeOK
  BY UndisturbedFacts
<1>2. /\ disk.size \in Nat /\ disk.ends \subseteq 1 .. disk.size
      /\ job.total \in Nat
  BY <1>1, Naturals
<1>3. CASE Get
  <2>1. Terms.cuts = disk.ends \cup {disk.size}
    BY <1>3, TermsFields
  <2>2. QED
    BY <1>2, <1>3, <2>1, LineBounds
<1>4. CASE ~Get
  <2>1. Terms.cuts = 1 .. job.total
    BY <1>4, TermsFields
  <2>2. QED
    BY <1>2, <1>4, <2>1
<1>5. QED
  BY <1>3, <1>4

LEMMA PhaseKnown ==
  /\ pc = "queued" => Phase = "waiting"
  /\ pc = "done" => Phase = "completed"
  /\ pc = "failed" => Phase = "failed"
  /\ pc = "killed" => Phase = "crashed"
  /\ pc # "queued" /\ ~Over => Phase = "serving"
BY DEF Phase, Over

LEMMA PhaseKnownNext ==
  /\ pc' = "queued" => Phase' = "waiting"
  /\ pc' = "done" => Phase' = "completed"
  /\ pc' = "failed" => Phase' = "failed"
  /\ pc' = "killed" => Phase' = "crashed"
  /\ pc' # "queued" /\ ~Over' => Phase' = "serving"
BY DEF Phase, Over

\* A step within a turn that the contract does not see.
LEMMA Stutters ==
  ASSUME RefInv, RefInv', UNCHANGED <<job, disk, socket, replies>>,
         ~Over, ~Over', pc # "queued", pc' # "queued",
         Sent' = Sent, Left' = Left
  PROVE  UNCHANGED Contract!vars
<1>1. Mapped /\ Mapped'
  BY MappedNow, MappedNext
<1>2. Data' = Data
  BY <1>1 DEF Mapped, Numbers
<1>3. UNCHANGED <<Terms, Phase>>
  BY TermsStay, PhaseKnown, PhaseKnownNext
<1>4. QED
  BY <1>2, <1>3 DEF Contract!vars

LEMMA NumbersGrow ==
  ASSUME NEW a \in Nat, NEW b \in Nat, a < b
  PROVE  Numbers(0, b) = Numbers(0, a) \o Numbers(a, b - a)
<1> DEFINE n == b - a
<1>1. n \in Nat /\ a + n = b /\ 0 + a = a /\ 0 \in Nat
  OBVIOUS
<1> HIDE DEF n
<1>2. Numbers(0, a) \o Numbers(0 + a, n) = Numbers(0, a + n)
  BY <1>1, NumbersJoin, Zenon
<1>3. Numbers(0, a) \o Numbers(a, n) = Numbers(0, b)
  BY <1>1, <1>2
<1>4. QED
  BY <1>3 DEF n

\* A step that moves data up to c.
LEMMA MovesUpTo ==
  ASSUME RefInv, RefInv', UNCHANGED <<job, disk, socket, replies>>,
         ~Over, ~Over', pc # "queued", pc' # "queued",
         socket = "open", replies = <<"OK">>,
         Sent' \in Terms.cuts, Sent < Sent'
  PROVE  Contract!MovesTo(Sent')
<1>1. Mapped /\ Mapped'
  BY MappedNow, MappedNext
<1>2. Sent \in Nat /\ Sent' \in Nat
  BY <1>1 DEF Mapped
<1>3. Data = Numbers(0, Sent) /\ Data' = Numbers(0, Sent') /\ Len(Data) = Sent
  BY <1>1 DEF Mapped, Numbers
<1>4. Data' = Data \o Numbers(Sent, Sent' - Sent)
  BY <1>2, <1>3, NumbersGrow
<1>5. Data' = Data \o [i \in 1 .. Sent' - Len(Data) |-> Len(Data) + i]
  BY <1>3, <1>4 DEF Numbers
<1>6. UNCHANGED <<Terms, Phase>> /\ Phase = "serving"
  BY TermsStay, PhaseKnown, PhaseKnownNext
<1>7. QED
  BY <1>5, <1>6 DEF Contract!MovesTo, Contract!Moved

LEMMA MoveAllowed ==
  ASSUME RefInv, RefInv', UNCHANGED <<job, disk, socket, replies>>,
         ~Over, ~Over', pc # "queued", pc' # "queued",
         socket = "open", replies = <<"OK">>,
         Sent' \in Terms.cuts, Sent < Sent',
         Sent' - Sent <= Left,
         Left' = IF Sent' = job.total THEN 0 ELSE Left - (Sent' - Sent)
  PROVE  Contract!Move
<1>1. Contract!MovesTo(Sent')
  BY MovesUpTo
<1>2. Len(Data) = Sent
  BY MappedNow DEF Mapped
<1>3. QED
  BY <1>1, <1>2, TermsFields DEF Contract!Move, Contract!Moved

LEMMA LeftOverNext == (Over => Left = 0)'
<1> SUFFICES ASSUME Over' PROVE Left' = 0
  OBVIOUS
<1>1. pc' # "queued" /\ ~Unfinished'
  BY DEF Over, Unfinished
<1>2. QED
  BY <1>1 DEF Left

-----------------------------------------------------------------------------
(* Every step is one of the contract, or none.                             *)

LEMMA ServingOpen ==
  ASSUME RefInv, ~Over, pc # "queued"
  PROVE  socket = "open"
<1>1. HandOverInv /\ FileKeeps /\ changes = 0 /\ pc \in Pcs
  BY UndisturbedFacts, Naturals DEF TurnInv
<1>2. Get /\ ~Preemptive => Intact
  BY <1>1 DEF FileKeeps, Intact
<1>3. QED
  BY <1>1, <1>2 DEF HandOverInv, Sockets, Over, Pcs

\* The request fails, and its client is told.
LEMMA Refuses ==
  ASSUME RefInv, ~Over, pc # "queued", pc' = "failed", socket' = "closed",
         UNCHANGED <<job, disk, stored, body, transferred>>,
         replies' = Append(replies, "ERR"),
         ~job.diskReliable \/ (Put /\ (~job.peerReliable \/ job.stream < job.total))
  PROVE  Contract!Refuse
<1>1. UNCHANGED <<Terms, Data>>
  BY TermsStay DEF Data, Get
<1>2. Over' /\ Left' = 0
  BY LeftOverNext DEF Over
<1>3. Phase = "serving" /\ Phase' = "failed" /\ socket = "open"
  BY PhaseKnown, PhaseKnownNext, ServingOpen
<1>4. \/ ~Terms.diskReliable
      \/ Terms.op = "PUT" /\ (Terms.short \/ ~Terms.peerReliable)
  BY TermsFields DEF Put
<1>5. Contract!Stop("failed")
  BY <1>1, <1>2, <1>3 DEF Contract!Stop
<1>6. QED
  BY <1>1, <1>3, <1>4, <1>5 DEF Contract!Refuse

\* A send fails, or kills the process, after n more bytes of a GET.
LEMMA Loses ==
  ASSUME RefInv, ~Over, pc # "queued", SendErrs, socket' = "closed",
         UNCHANGED <<job, disk, replies>>,
         NEW n \in Nat, n <= job.total,
         n > 0 => Get /\ replies = <<"OK">> /\ Sent + n < job.total,
         Data' = Data \o Numbers(Sent, n)
  PROVE  Contract!Lose
<1>1. UNCHANGED Terms
  BY TermsStay
<1>2. socket = "open" /\ Phase = "serving"
  BY ServingOpen, PhaseKnown
<1>3. pc' \in {"failed", "killed"} /\ ~job.peerReliable
  BY <1>2, UndisturbedFacts DEF SendErrs, TurnInv, ClientKeeps
<1>4. Over' /\ Left' = 0
  BY <1>3, LeftOverNext DEF Over
<1>5. Phase' \in {"failed", "crashed"}
  BY <1>3, PhaseKnownNext
<1>6. Contract!Stop("failed") \/ Contract!Stop("crashed")
  BY <1>1, <1>2, <1>4, <1>5 DEF Contract!Stop
<1>7. Len(Data) = Sent
  BY MappedNow DEF Mapped
<1>8. Data' = Data \o [i \in 1 .. n |-> Len(Data) + i]
  BY <1>7 DEF Numbers
<1>9. n > 0 => Terms.op = "GET" /\ replies = <<"OK">> /\ Len(Data) + n < Terms.total
  BY <1>7, TermsFields DEF Get
<1>10. n \in 0 .. Terms.total /\ ~Terms.peerReliable
  BY <1>3, TermsFields, UndisturbedFacts, Naturals
<1>11. QED
  BY <1>6, <1>8, <1>9, <1>10 DEF Contract!Lose, Contract!Moved

\* A send of a status line fails.
LEMMA LosesNothing ==
  ASSUME RefInv, ~Over, pc # "queued", SendErrs, socket' = "closed",
         UNCHANGED <<job, disk, stored, body, transferred, replies>>
  PROVE  Contract!Lose
<1>1. Data' = Data
  BY DEF Data, Get
<1>2. Sent \in Nat /\ Data = Numbers(0, Sent)
  BY MappedNow DEF Mapped
<1>3. Numbers(Sent, 0) = <<>>
  BY <1>2, NumbersNone
<1>4. Data \in Seq(Nat)
  BY <1>2, NumbersType
<1>5. Data' = Data \o Numbers(Sent, 0)
  BY <1>1, <1>3, <1>4, ConcatEmptySeq
<1>6. 0 \in Nat /\ 0 <= job.total /\ ~(0 > 0)
  BY UndisturbedFacts, Naturals
<1>7. QED
  BY <1>5, <1>6, Loses, Zenon

LEMMA SendFailsRefines ==
  ASSUME RefInv, SendFails, ~Over, pc # "queued"
  PROVE  Contract!Lose
<1>1. /\ SendErrs /\ socket' = "closed"
      /\ UNCHANGED <<job, disk, stored, body, transferred, replies>>
  BY DEF SendFails, request
<1>2. QED
  BY <1>1, LosesNothing

\* A packet of which the client has a part.
LEMMA PacketCutRefines ==
  ASSUME RefInv, SendBatch, PacketCut
  PROVE  Contract!Lose
<1>1. /\ TypeOK /\ HandOverInv /\ RepliesInv /\ changes = 0
      /\ pc \in {"send", "flush"} /\ ~Over /\ pc # "queued"
  BY UndisturbedFacts DEF SendBatch, Over
<1>2. Get /\ replies = <<"OK">>
  BY <1>1 DEF HandOverInv, Sides, RepliesInv
<1>3. PICK n \in 0 .. Len(batch) - 1 : body' = body \o SubSeq(batch, 1, n)
  BY DEF PacketCut
<1>4. /\ SendErrs /\ socket' = "closed" /\ UNCHANGED <<job, disk, replies>>
  BY DEF PacketCut
<1> DEFINE d == position - Len(body)
<1>5. /\ Len(body) \in Nat /\ position = transferred /\ transferred <= job.total
      /\ batch = Numbers(Len(body), d) /\ Len(batch) = d /\ d \in Nat
  BY <1>1, <1>2, PacketFacts
<1>6. position \in Nat /\ job.total \in Nat /\ transferred \in Nat
  BY <1>1, Naturals
<1>7. n \in Nat /\ n < d
  BY <1>3, <1>5
<1>8. n <= job.total /\ Len(body) + n < job.total
  BY <1>5, <1>6, <1>7
<1> HIDE DEF d
<1>9. SubSeq(batch, 1, n) = Numbers(Len(body), n)
  <2>1. Len(body) \in Nat /\ d \in Nat /\ n \in Nat /\ n <= d
    BY <1>5, <1>7
  <2>2. SubSeq(Numbers(Len(body), d), 1, n) = Numbers(Len(body), n)
    BY <2>1, NumbersCut
  <2>3. QED
    BY <1>5, <2>2
<1>10. Sent = Len(body) /\ Data = body /\ Data' = body'
  BY <1>2, <1>4 DEF Sent, Data, Get
<1>11. Data' = Data \o Numbers(Sent, n)
  BY <1>3, <1>9, <1>10
<1>12. QED
  BY <1>1, <1>2, <1>4, <1>7, <1>8, <1>10, <1>11, Loses

LEMMA RejectsRefines ==
  ASSUME RefInv, Rejects, ~Over, pc # "queued",
         ~job.diskReliable \/ (Put /\ (~job.peerReliable \/ job.stream < job.total))
  PROVE  Contract!Refuse \/ Contract!Lose
<1>1. socket' = "closed" /\ UNCHANGED <<job, disk, stored, body, transferred>>
  BY DEF Rejects, request
<1>2. CASE pc' = "failed" /\ replies' = Append(replies, "ERR")
  BY <1>1, <1>2, Refuses
<1>3. CASE SendErrs /\ UNCHANGED replies
  BY <1>1, <1>3, LosesNothing
<1>4. QED
  BY <1>2, <1>3 DEF Rejects

LEMMA BeginRefines ==
  ASSUME RefInv, RefInv', BeginRound
  PROVE  Contract!StartTurn
<1>1. /\ pc = "queued" /\ pc' \in {"status", "open"}
      /\ UNCHANGED <<job, disk, stored, socket, replies, body, transferred, deficit>>
  BY DEF BeginRound
<1>2. ~Over /\ ~Over'
  BY <1>1 DEF Over
<1>3. Mapped /\ Mapped'
  BY MappedNow, MappedNext
<1>4. /\ UNCHANGED <<Terms, Data>>
      /\ Sent' = Sent /\ (rr' <=> rr) /\ (drr' <=> drr)
  BY <1>1, TermsStay DEF Data, Sent, Get, rr, drr
<1>5. Phase = "waiting" /\ Phase' = "serving"
  BY <1>1, <1>2, PhaseKnown, PhaseKnownNext
<1>6. /\ Left = IF drr THEN deficit ELSE 0
      /\ Sent = job.total => Left' = 0
      /\ Sent # job.total =>
           Left' = IF rr THEN RoundRobinLeft'
                   ELSE IF drr THEN DeficitLeft' ELSE job.total - Sent
  BY <1>1, <1>2, <1>3, <1>4 DEF Mapped
<1>7. RoundRobinLeft' = job.quantum /\ DeficitLeft' = deficit + job.quantum
  <2>1. ~Overrunning'
    BY <1>1 DEF Overrunning
  <2>2. QED
    BY <1>1, <2>1 DEF RoundRobinLeft, DeficitLeft
<1>8. ~rr /\ ~drr => Sent = 0
  <2>1. SUFFICES ASSUME ~Preemptive PROVE Sent = 0
    BY DEF Preemptive
  <2>2. HandOverInv /\ UploadInv /\ changes = 0 /\ job.op \in {"GET", "PUT"}
    BY UndisturbedFacts, Naturals
  <2>3. Get => transferred = 0 /\ Len(body) = transferred
    <3>1. SUFFICES ASSUME Get PROVE transferred = 0 /\ Len(body) = transferred
      OBVIOUS
    <3>2. Intact
      BY <2>1, <2>2, <3>1, PacketFacts DEF Intact
    <3>3. socket = "open"
      BY <1>1, <2>2, <3>2 DEF HandOverInv, Sockets
    <3>4. QED
      BY <1>1, <2>1, <2>2, <3>1, <3>3, PacketFacts DEF HandOverInv, GetProgress
  <2>4. Put => transferred = 0
    BY <1>1, <2>1, <2>2 DEF UploadInv
  <2>5. QED
    BY <2>2, <2>3, <2>4 DEF Sent, Get, Put
<1>9. Len(Data) = Sent /\ job.total \in Nat /\ Sent \in Nat
  BY <1>2, <1>3, UndisturbedFacts, Naturals DEF Mapped
<1>10. /\ Contract!Complete <=> Sent = job.total
       /\ rr <=> Terms.policy = "rr"
       /\ drr <=> Terms.policy = "drr"
  BY <1>9, TermsFields DEF Contract!Complete, Contract!Moved, rr, drr
<1>11. Left' = Contract!Allowed(CASE Terms.policy = "rr" -> Terms.quantum
                                  [] Terms.policy = "drr" -> Left + Terms.quantum
                                  [] OTHER -> Terms.total)
  <2>1. CASE Sent = job.total
    BY <1>6, <1>10, <2>1 DEF Contract!Allowed
  <2>2. CASE Sent # job.total
    <3>1. CASE rr
      BY <1>6, <1>7, <1>10, <2>2, <3>1, TermsFields DEF Contract!Allowed, rr
    <3>2. CASE drr
      BY <1>6, <1>7, <1>10, <2>2, <3>2, TermsFields DEF Contract!Allowed, drr
    <3>3. CASE ~rr /\ ~drr
      <4>1. Left' = job.total
        BY <1>6, <1>8, <1>9, <2>2, <3>3
      <4>2. QED
        BY <1>10, <2>2, <3>3, <4>1, TermsFields DEF Contract!Allowed
    <3>4. QED
      BY <3>1, <3>2, <3>3
  <2>3. QED
    BY <2>1, <2>2
<1>12. QED
  BY <1>1, <1>4, <1>5, <1>11 DEF Contract!StartTurn

\* What a step within a turn leaves as it was.
LEMMA SameTurn ==
  ASSUME UNCHANGED <<job, disk>>
  PROVE  /\ (Get' <=> Get) /\ (Put' <=> Put) /\ (rr' <=> rr) /\ (drr' <=> drr)
         /\ UNCHANGED Terms
BY TermsStay DEF Get, Put, rr, drr

LEMMA AnswerRefines ==
  ASSUME RefInv, RefInv', SendStatus, ~SendFails
  PROVE  Contract!Answer
<1>1. /\ pc = "status" /\ pc' = "open" /\ socket = "open"
      /\ replies' = Append(replies, "OK")
      /\ UNCHANGED <<job, disk, stored, socket, body, transferred, deficit>>
  BY DEF SendStatus, CanSend
<1>2. ~Over /\ ~Over'
  BY <1>1 DEF Over
<1>3. Mapped /\ Mapped'
  BY MappedNow, MappedNext
<1>4. /\ UNCHANGED <<Terms, Data>>
      /\ Sent' = Sent /\ (rr' <=> rr) /\ (drr' <=> drr)
  BY <1>1, TermsStay DEF Data, Sent, Get, rr, drr
<1>5. Phase = "serving" /\ Phase' = "serving"
  BY <1>1, <1>2, PhaseKnown, PhaseKnownNext
<1>6. RoundRobinLeft' = RoundRobinLeft /\ DeficitLeft' = DeficitLeft
  <2>1. ~Overrunning /\ ~Overrunning'
    BY <1>1 DEF Overrunning
  <2>2. QED
    BY <1>1, <2>1 DEF RoundRobinLeft, DeficitLeft
<1>7. Left' = Left
  BY <1>1, <1>2, <1>3, <1>4, <1>6 DEF Mapped
<1>8. replies = <<>> /\ replies' = <<"OK">>
  <2>1. replies = <<>>
    BY <1>1, UndisturbedFacts DEF RepliesInv
  <2>2. QED
    BY <1>1, <2>1, Answers
<1>9. QED
  BY <1>1, <1>4, <1>5, <1>7, <1>8 DEF Contract!Answer

\* What a request may move is what its locals say.
RoundLeft ==
  /\ pc \in {"status", "open"} =>
       RoundRobinLeft = job.quantum /\ DeficitLeft = deficit + job.quantum
  /\ pc \in {"loop", "send", "flush", "extra", "finalOk"} =>
       DeficitLeft = deficit + Len(batch)
  /\ pc \in {"loop", "send", "extra", "finalOk"} =>
       RoundRobinLeft = quantumRemaining + Len(batch)
  /\ pc = "flush" /\ ~(Get /\ firstLine) =>
       RoundRobinLeft = quantumRemaining + Len(batch)
  /\ pc = "flush" /\ Get /\ firstLine =>
       RoundRobinLeft = IF batch = <<>> THEN 0 ELSE quantumRemaining

LEMMA RoundLeftNow == RoundLeft
<1>1. pc # "flush" \/ ~(Get /\ firstLine) => ~Overrunning
  BY DEF Overrunning
<1>2. pc = "flush" /\ Get /\ firstLine => Overrunning
  BY DEF Overrunning
<1>3. QED
  BY <1>1, <1>2 DEF RoundLeft, RoundRobinLeft, DeficitLeft

LEMMA RoundLeftNext == RoundLeft'
<1>1. pc' # "flush" \/ ~(Get' /\ firstLine') => ~Overrunning'
  BY DEF Overrunning
<1>2. pc' = "flush" /\ Get' /\ firstLine' => Overrunning'
  BY DEF Overrunning
<1>3. QED
  BY <1>1, <1>2 DEF RoundLeft, RoundRobinLeft, DeficitLeft

\* A step that moves nothing and leaves what may still be moved.
LEMMA Quiet ==
  ASSUME RefInv, RefInv', UNCHANGED <<job, disk, socket, replies>>,
         ~Over, ~Over', pc # "queued", pc' # "queued", Sent' = Sent,
         Sent # job.total =>
           /\ rr => RoundRobinLeft' = RoundRobinLeft
           /\ drr => DeficitLeft' = DeficitLeft
  PROVE  UNCHANGED Contract!vars
<1>1. Mapped /\ Mapped'
  BY MappedNow, MappedNext
<1>2. /\ Sent = job.total => Left = 0
      /\ Sent # job.total => Left = IF rr THEN RoundRobinLeft
                                    ELSE IF drr THEN DeficitLeft ELSE job.total - Sent
  BY <1>1 DEF Mapped
<1>3. /\ Sent = job.total => Left' = 0
      /\ Sent # job.total => Left' = IF rr THEN RoundRobinLeft'
                                     ELSE IF drr THEN DeficitLeft' ELSE job.total - Sent
  BY <1>1, SameTurn DEF Mapped
<1>4. Left' = Left
  BY <1>2, <1>3
<1>5. QED
  BY <1>4, Stutters

LEMMA ReadingIsQuiet ==
  ASSUME RefInv, RefInv', UNCHANGED <<job, disk>>,
         OpenGet \/ LineTaken \/ LineOverruns \/ LineForfeits \/ LoopEnds, ~Rejects
  PROVE  UNCHANGED Contract!vars
<1>1. /\ TypeOK /\ GetTurn /\ changes = 0
  BY UndisturbedFacts DEF TurnInv
<1>2. /\ Get /\ UNCHANGED <<socket, replies, body>>
      /\ pc \in {"open", "loop"} /\ pc' \in {"loop", "send", "flush"}
  BY DEF OpenGet, LineTaken, LineOverruns, LineForfeits, LoopEnds, Reading, request, locals
<1>3. /\ ~Over /\ ~Over' /\ Sent' = Sent
      /\ pc # "queued" /\ pc' # "queued"
      /\ UNCHANGED <<job, disk, socket, replies>>
  BY <1>2, SameTurn DEF Over, Sent
<1>4. RoundLeft /\ RoundLeft' /\ Get'
  BY <1>2, RoundLeftNow, RoundLeftNext, SameTurn
<1>5. /\ job.quantum \in Nat /\ quantumRemaining \in Nat /\ deficit \in Nat
      /\ position \in Nat /\ transferred \in Nat /\ job.total \in Nat
  BY <1>1, Naturals
<1>6. CASE OpenGet
  <2>1. /\ pc = "open" /\ pc' = "loop" /\ batch' = <<>>
        /\ quantumRemaining' = job.quantum
        /\ drr => deficit' = deficit + job.quantum
    BY <1>6 DEF OpenGet, Granted
  <2>2. /\ RoundRobinLeft = job.quantum /\ DeficitLeft = deficit + job.quantum
        /\ RoundRobinLeft' = quantumRemaining' + Len(batch')
        /\ DeficitLeft' = deficit' + Len(batch')
    BY <1>4, <2>1 DEF RoundLeft
  <2>3. Len(batch') = 0
    BY <2>1
  <2>4. /\ RoundRobinLeft' = RoundRobinLeft
        /\ drr => DeficitLeft' = DeficitLeft
    BY <1>5, <2>1, <2>2, <2>3
  <2>5. QED
    BY <1>3, <2>4, Quiet, Zenon
<1>7. CASE LineTaken
  <2> DEFINE n == LineLength(position)
  <2>1. /\ pc = "loop" /\ batch' = batch \o Numbers(position, n)
        /\ quantumRemaining' = IF rr THEN quantumRemaining - n ELSE quantumRemaining
        /\ deficit' = IF drr THEN deficit - n ELSE deficit
        /\ (rr => n <= quantumRemaining) /\ (drr => n <= deficit)
        /\ ~firstLine'
    BY <1>7 DEF LineTaken, Reading, Fits
  <2>2. n \in Nat
    BY <1>1, <1>5, Naturals, LineBounds
  <2> HIDE DEF n
  <2>3. Len(batch') = Len(batch) + n /\ Len(batch) \in Nat
    <3>1. batch \in Seq(Nat) /\ Numbers(position, n) \in Seq(Nat)
          /\ Len(Numbers(position, n)) = n
      BY <1>1, <1>5, <2>2, NumbersType DEF TypeOK
    <3>2. Len(batch \o Numbers(position, n)) = Len(batch) + n
      BY <3>1, ConcatProperties
    <3>3. Len(batch) \in Nat
      BY <3>1, LenProperties
    <3>4. QED
      BY <2>1, <3>2, <3>3
  <2>4. /\ RoundRobinLeft = quantumRemaining + Len(batch)
        /\ DeficitLeft = deficit + Len(batch)
        /\ RoundRobinLeft' = quantumRemaining' + Len(batch')
        /\ DeficitLeft' = deficit' + Len(batch')
    BY <1>2, <1>4, <2>1 DEF RoundLeft
  <2>5. /\ rr => RoundRobinLeft' = RoundRobinLeft
        /\ drr => DeficitLeft' = DeficitLeft
    BY <1>5, <2>1, <2>2, <2>3, <2>4
  <2>6. QED
    BY <1>3, <2>5, Quiet, Zenon
<1>8. CASE LineOverruns
  <2> DEFINE n == LineLength(position)
  <2>1. /\ pc = "loop" /\ pc' = "flush" /\ batch' = batch \o Numbers(position, n)
        /\ rr /\ firstLine /\ firstLine' /\ n > quantumRemaining
        /\ quantumRemaining' = quantumRemaining
    BY <1>8 DEF LineOverruns, Reading
  <2>2. n \in Nat /\ n > 0
    <3>1. n \in Nat
      BY <1>1, <1>5, Naturals, LineBounds
    <3> HIDE DEF n
    <3>2. QED
      BY <1>5, <2>1, <3>1
  <2> HIDE DEF n
  <2>3. batch = <<>>
    BY <1>1, <1>2, <2>1 DEF GetTurn
  <2>4. Len(batch) = 0 /\ batch' # <<>>
    <3>1. Numbers(position, n) \in Seq(Nat) /\ Len(Numbers(position, n)) = n
      BY <1>5, <2>2, NumbersType
    <3>2. batch' = Numbers(position, n)
      BY <2>1, <2>3, <3>1, ConcatEmptySeq
    <3>3. batch' # <<>>
      BY <2>2, <3>1, <3>2
    <3>4. QED
      BY <2>3, <3>3
  <2>5. /\ RoundRobinLeft = quantumRemaining + Len(batch)
        /\ RoundRobinLeft' = quantumRemaining'
    BY <1>4, <2>1, <2>4 DEF RoundLeft
  <2>6. RoundRobinLeft' = RoundRobinLeft /\ ~drr
    BY <1>5, <2>1, <2>4, <2>5 DEF rr, drr
  <2>7. QED
    BY <1>3, <2>6, Quiet, Zenon
<1>9. CASE LineForfeits \/ LoopEnds
  <2>1. /\ pc = "loop" /\ pc' = "flush"
        /\ UNCHANGED <<batch, quantumRemaining, deficit, firstLine, transferred>>
    BY <1>9 DEF LineForfeits, LoopEnds, Reading, request, locals
  <2>2. Sent # job.total /\ rr => ~firstLine
    <3>1. SUFFICES ASSUME rr, firstLine PROVE Sent = job.total
      OBVIOUS
    <3>2. LoopEnds /\ transferred >= job.total
      BY <1>9, <3>1 DEF LineForfeits, LoopEnds, rr, drr, Preemptive
    <3>3. transferred < job.total \/ job.total = 0
      BY <1>1, <1>2, <2>1, <3>1 DEF GetTurn
    <3>4. job.total = 0
      BY <1>5, <3>2, <3>3
    <3>5. Sent \in Nat /\ Sent <= job.total
      BY <1>3, DataKnown
    <3>6. QED
      BY <3>4, <3>5
  <2>3. /\ DeficitLeft = deficit + Len(batch)
        /\ DeficitLeft' = deficit' + Len(batch')
        /\ RoundRobinLeft = quantumRemaining + Len(batch)
        /\ ~firstLine => RoundRobinLeft' = quantumRemaining' + Len(batch')
    BY <1>4, <2>1 DEF RoundLeft
  <2>4. QED
    BY <1>2, <1>3, <2>1, <2>2, <2>3, Quiet
<1>10. QED
  BY <1>6, <1>7, <1>8, <1>9

\* A packet that is sent: the next lines, or the one line of an overrun.
LEMMA SendRefines ==
  ASSUME RefInv, RefInv', UNCHANGED <<job, disk>>, SendBatch, ~PacketCut
  PROVE  Contract!Move \/ Contract!Overrun
<1>1. /\ TypeOK /\ GetTurn /\ HandOverInv /\ RepliesInv /\ changes = 0
  BY UndisturbedFacts DEF TurnInv
<1>2. /\ pc \in {"send", "flush"} /\ pc' \in {"loop", "flush"} /\ batch # <<>>
      /\ pc = "flush" => pc' = "flush"
      /\ body' = body \o batch /\ batch' = <<>>
      /\ UNCHANGED <<socket, replies, position, quantumRemaining, deficit, firstLine>>
  BY DEF SendBatch, request
<1>3. /\ Get /\ ~Over /\ ~Over' /\ pc # "queued" /\ pc' # "queued"
      /\ UNCHANGED <<job, disk, socket, replies>>
      /\ Get' /\ (rr' <=> rr) /\ (drr' <=> drr)
  BY <1>1, <1>2, SameTurn DEF Over, HandOverInv, Sides
<1>4. socket = "open" /\ replies = <<"OK">>
  BY <1>1, <1>2, <1>3, ServingOpen DEF RepliesInv
<1>5. /\ job.total \in Nat /\ quantumRemaining \in Nat /\ deficit \in Nat
      /\ position \in Nat /\ job.quantum \in Nat /\ disk.size \in Nat
  BY <1>1, Naturals
<1>6. /\ Len(batch) \in Nat /\ Len(batch) > 0 /\ Len(batch') = 0
      /\ Sent = Len(body) /\ Sent \in Nat
      /\ position = Sent + Len(batch) /\ position <= job.total
      /\ LineEnd(position) /\ position > Sent /\ position <= disk.size
  <2>1. /\ Len(body) \in Nat /\ transferred <= disk.size
        /\ Len(batch) = position - Len(body) /\ Len(batch) \in Nat
        /\ LineEnd(position) /\ position = transferred /\ transferred <= job.total
    BY <1>2, <1>3, PacketFacts
  <2>2. batch \in Seq(Nat)
    BY <1>1 DEF TypeOK
  <2>3. Len(batch) # 0
    BY <1>2, <2>2, EmptySeq
  <2>4. Sent = Len(body) /\ Len(batch') = 0
    BY <1>2, <1>3 DEF Sent
  <2>5. QED
    BY <1>5, <2>1, <2>3, <2>4
<1>7. Sent' = position
  <2>1. body \in Seq(Nat) /\ batch \in Seq(Nat)
    BY <1>1 DEF TypeOK
  <2>2. Len(body') = Len(body) + Len(batch)
    BY <1>2, <2>1, ConcatProperties
  <2>3. Sent' = Len(body')
    BY <1>3 DEF Sent
  <2>4. QED
    BY <1>6, <2>2, <2>3
<1>8. position \in Terms.cuts
  BY <1>3, <1>5, <1>6, TermsFields DEF LineEnd
<1>9. Mapped /\ Mapped' /\ RoundLeft /\ RoundLeft'
  BY MappedNow, MappedNext, RoundLeftNow, RoundLeftNext
<1>10. /\ Left = IF rr THEN RoundRobinLeft
                 ELSE IF drr THEN DeficitLeft ELSE job.total - Sent
       /\ position = job.total => Left' = 0
       /\ position # job.total =>
            Left' = IF rr THEN RoundRobinLeft'
                    ELSE IF drr THEN DeficitLeft' ELSE job.total - position
  <2>1. Sent # job.total
    BY <1>5, <1>6
  <2>2. QED
    BY <1>3, <1>7, <1>9, <2>1 DEF Mapped
<1>11. /\ DeficitLeft = deficit + Len(batch) /\ DeficitLeft' = deficit + Len(batch')
  BY <1>2, <1>9 DEF RoundLeft
<1>12. CASE rr /\ pc = "flush" /\ firstLine
  <2>1. /\ quantumRemaining = job.quantum
        /\ position = Len(body) + LineLength(Len(body))
        /\ LineLength(Len(body)) > quantumRemaining
    BY <1>1, <1>2, <1>3, <1>12 DEF GetTurn
  <2>2. /\ RoundRobinLeft = quantumRemaining /\ RoundRobinLeft' = 0
    BY <1>2, <1>3, <1>9, <1>12 DEF RoundLeft
  <2>3. Left = job.quantum /\ Left' = 0
    BY <1>10, <1>12, <2>1, <2>2
  <2>4. \A c \in Terms.cuts : c \in Nat /\ (c > Sent => position <= c)
    <3>1. Sent < disk.size
      BY <1>5, <1>6
    <3>2. QED
      BY <1>3, <1>6, <2>1, <3>1, CutsKnown
  <2>5. Len(Data) = Sent
    BY <1>3, <1>9 DEF Mapped
  <2>6. Contract!NextCut(position)
    BY <1>6, <1>8, <2>4, <2>5 DEF Contract!NextCut, Contract!Moved
  <2>7. Contract!NothingFits
    <3>1. position - Sent > Left
      <4>1. LineLength(Len(body)) \in Nat
        BY <1>1, <1>6, Naturals, LineBounds
      <4>2. QED
        BY <1>5, <1>6, <2>1, <2>3, <4>1
    <3>2. \A c \in Terms.cuts : c > Sent => c - Sent > Left
      BY <1>5, <1>6, <2>3, <2>4, <3>1
    <3>3. QED
      BY <2>5, <3>2 DEF Contract!NothingFits, Contract!Moved
  <2>8. Contract!MovesTo(position)
    <3>1. Contract!MovesTo(Sent')
      BY <1>3, <1>4, <1>6, <1>7, <1>8, MovesUpTo
    <3>2. QED
      BY <1>7, <3>1
  <2>9. Terms.policy = "rr" /\ Left = Terms.quantum
    BY <1>12, <2>3, TermsFields DEF rr
  <2>10. QED
    BY <1>8, <2>3, <2>6, <2>7, <2>8, <2>9 DEF Contract!Overrun
<1>13. CASE ~(rr /\ pc = "flush" /\ firstLine)
  <2>1. pc = "send" => ~firstLine
    BY <1>1, <1>3 DEF GetTurn
  <2>2. rr => /\ RoundRobinLeft = quantumRemaining + Len(batch)
              /\ RoundRobinLeft' = quantumRemaining + Len(batch')
    BY <1>2, <1>9, <1>13, <2>1 DEF RoundLeft
  <2>3. Len(batch) <= Left
    BY <1>5, <1>6, <1>10, <1>11, <2>2
  <2>4. position # job.total => Left' = Left - Len(batch)
    BY <1>5, <1>6, <1>10, <1>11, <2>2
  <2>5. Sent' - Sent = Len(batch) /\ Sent < Sent' /\ Sent' \in Terms.cuts
    BY <1>5, <1>6, <1>7, <1>8
  <2>6. Left' = IF Sent' = job.total THEN 0 ELSE Left - (Sent' - Sent)
    BY <1>7, <1>10, <2>4, <2>5
  <2>7. Sent' - Sent <= Left
    BY <2>3, <2>5
  <2>8. QED
    BY <1>3, <1>4, <2>5, <2>6, <2>7, MoveAllowed, Zenon
<1>14. QED
  BY <1>12, <1>13

\* The end of a round of a GET: the turn ends, or the request is completed.
LEMMA FinishGetRefines ==
  ASSUME RefInv, RefInv', UNCHANGED <<job, disk>>, FinishGet
  PROVE  Contract!EndTurn \/ Contract!Finish
<1>1. /\ TypeOK /\ GetTurn /\ HandOverInv /\ RepliesInv /\ DeficitInv /\ changes = 0
  BY UndisturbedFacts DEF TurnInv
<1>2. /\ pc = "flush" /\ batch = <<>> /\ pc' = AfterRound
      /\ socket' = SocketAfterGet
      /\ deficit' = IF drr /\ transferred = job.total THEN 0 ELSE deficit
      /\ UNCHANGED <<replies, body, stored, transferred>>
  BY DEF FinishGet
<1>3. /\ Get /\ ~Over /\ Get' /\ (rr' <=> rr) /\ (drr' <=> drr) /\ UNCHANGED Terms
  BY <1>1, <1>2, SameTurn DEF Over, HandOverInv, Sides
<1>4. socket = "open" /\ replies = <<"OK">>
  BY <1>1, <1>2, <1>3, ServingOpen DEF RepliesInv
<1>5. /\ job.total \in Nat /\ quantumRemaining \in Nat /\ deficit \in Nat
      /\ job.quantum \in Nat \ {0} /\ position \in Nat /\ disk.size \in Nat
  BY <1>1, Naturals
<1>6. /\ Sent = transferred /\ transferred \in Nat /\ transferred <= job.total
      /\ Len(batch) = 0
  <2>1. /\ Len(body) \in Nat /\ position = transferred
        /\ Len(batch) = position - Len(body) /\ transferred <= job.total
    BY <1>2, <1>3, PacketFacts
  <2>2. Len(batch) = 0
    BY <1>2
  <2>3. QED
    BY <1>3, <1>5, <2>1, <2>2 DEF Sent
<1>7. Mapped /\ RoundLeft
  BY MappedNow, RoundLeftNow
<1>8. /\ Phase = "serving" /\ Len(Data) = transferred /\ UNCHANGED Data
  BY <1>2, <1>3, <1>4, <1>6, <1>7, PhaseKnown DEF Mapped, Data
<1>9. CASE transferred = job.total
  <2>1. pc' = "done" /\ socket' = "closed"
    BY <1>2, <1>5, <1>9 DEF AfterRound, SocketAfterGet
  <2>2. Phase' = "completed" /\ Left' = 0
    BY <2>1, PhaseKnownNext, LeftOverNext DEF Over
  <2>3. Contract!Complete /\ Terms.op # "PUT"
    BY <1>3, <1>8, <1>9, TermsFields DEF Contract!Complete, Contract!Moved, Get
  <2>4. QED
    BY <1>2, <1>3, <1>4, <1>8, <2>1, <2>2, <2>3 DEF Contract!Finish
<1>10. CASE transferred # job.total
  <2>1. transferred < job.total
    BY <1>5, <1>6, <1>10
  <2>2. Preemptive
    BY <1>1, <1>2, <1>3, <1>10, PacketFacts DEF HandOverInv, GetProgress
  <2>3. pc' = "queued" /\ UNCHANGED <<socket, deficit>>
    BY <1>2, <1>10, <2>1, <2>2 DEF AfterRound, SocketAfterGet
  <2>4. Phase' = "waiting"
    BY <2>3, PhaseKnownNext
  <2>5. Left = IF rr THEN RoundRobinLeft ELSE DeficitLeft
    BY <1>2, <1>3, <1>6, <1>7, <1>10, <2>2 DEF Mapped, Preemptive
  <2>6. Left' = IF drr THEN deficit ELSE 0
    <3>1. Mapped' /\ ~Over'
      BY <2>3, MappedNext DEF Over
    <3>2. QED
      BY <1>3, <2>3, <3>1 DEF Mapped
  <2>7. /\ LineLength(transferred) \in Nat
        /\ transferred < disk.size => LineLength(transferred) > 0
    BY <1>1, <1>6, Naturals, LineBounds
  <2>8. /\ Left \in Nat
        /\ transferred < disk.size => LineLength(transferred) > Left
        /\ rr => Left < job.quantum
        /\ drr => Left = deficit
    <3>1. CASE drr
      <4>1. deficit < LineLength(transferred)
        BY <1>1, <1>2, <1>3, <2>1, <3>1 DEF DeficitInv
      <4>2. Left = deficit + Len(batch) /\ ~rr
        BY <1>2, <1>7, <2>5, <3>1 DEF RoundLeft, rr, drr
      <4>3. QED
        BY <1>5, <1>6, <2>7, <4>1, <4>2
    <3>2. CASE rr /\ firstLine
      <4>1. Left = 0 /\ ~drr
        BY <1>2, <1>3, <1>7, <2>5, <3>2 DEF RoundLeft, rr, drr
      <4>2. QED
        BY <1>5, <2>7, <4>1
    <3>3. CASE rr /\ ~firstLine
      <4>1. Left = quantumRemaining + Len(batch) /\ ~drr
        BY <1>2, <1>3, <1>7, <2>5, <3>3 DEF RoundLeft, rr, drr
      <4>2. /\ quantumRemaining < job.quantum
            /\ transferred < disk.size => LineLength(transferred) > quantumRemaining
        BY <1>1, <1>2, <1>3, <3>3 DEF GetTurn
      <4>3. QED
        BY <1>5, <1>6, <2>7, <4>1, <4>2
    <3>4. QED
      BY <2>2, <3>1, <3>2, <3>3 DEF Preemptive
  <2>9. Contract!NothingFits
    <3>1. \A c \in Terms.cuts :
            /\ c \in Nat
            /\ c > transferred => /\ transferred < disk.size
                                  /\ transferred + LineLength(transferred) <= c
      <4>1. SUFFICES ASSUME NEW c \in Terms.cuts, c > transferred
                     PROVE  /\ transferred < disk.size
                            /\ transferred + LineLength(transferred) <= c
        BY CutsKnown
      <4>2. c \in Nat /\ c <= disk.size
        BY <1>3, CutsKnown
      <4>3. transferred < disk.size
        BY <1>5, <1>6, <4>1, <4>2
      <4>4. QED
        BY <1>3, <1>6, <4>1, <4>3, CutsKnown
    <3>2. \A c \in Terms.cuts : c > transferred => c - transferred > Left
      BY <1>6, <2>7, <2>8, <3>1
    <3>3. QED
      BY <1>8, <3>2 DEF Contract!NothingFits, Contract!Moved
  <2>10. ~Contract!Complete /\ Terms.policy \in {"rr", "drr"}
         /\ (Terms.policy = "rr" <=> rr) /\ (Terms.policy = "drr" <=> drr)
    BY <1>8, <1>10, <2>2, TermsFields
       DEF Contract!Complete, Contract!Moved, Preemptive, rr, drr
  <2>11. Left' = IF Terms.policy = "drr" THEN Left ELSE 0
    BY <2>6, <2>8, <2>10
  <2>12. Terms.policy = "rr" => Left < Terms.quantum
    BY <2>8, <2>10, TermsFields
  <2>13. QED
    BY <1>2, <1>3, <1>4, <1>8, <2>3, <2>4, <2>9, <2>10, <2>11, <2>12
       DEF Contract!EndTurn
<1>11. QED
  BY <1>9, <1>10

\* A PUT moves its bytes by their numbers, and sends no packets.
LEMMA PutSide ==
  ASSUME RefInv, Put
  PROVE  ~Get /\ Sent = transferred /\ Len(batch) = 0 /\ Terms.cuts = 1 .. job.total
<1>1. ~Get /\ batch = <<>>
  BY UndisturbedFacts DEF Get, Put, TurnInv, PutTurn
<1>2. Len(batch) = 0
  BY <1>1
<1>3. QED
  BY <1>1, <1>2, TermsFields DEF Sent

LEMMA PutSideNext ==
  ASSUME RefInv', Put'
  PROVE  ~Get' /\ Sent' = transferred' /\ Len(batch') = 0
<1>1. PutTurn'
  BY DEF RefInv, TurnInv
<1>2. ~Get' /\ batch' = <<>>
  BY <1>1 DEF Get, Put, PutTurn
<1>3. Len(batch') = 0
  BY <1>2
<1>4. QED
  BY <1>2, <1>3 DEF Sent

\* Bytes of a body that are stored.
LEMMA StoringRefines ==
  ASSUME RefInv, RefInv', UNCHANGED <<job, disk, socket, replies>>, Put,
         pc \in {"extra", "loop"}, pc' = "loop",
         NEW n \in Nat, n > 0, n <= Credit, Moves(n)
  PROVE  Contract!Move
<1>1. /\ TypeOK /\ RepliesInv /\ changes = 0
  BY UndisturbedFacts
<1>2. /\ job.total \in Nat /\ transferred \in Nat /\ quantumRemaining \in Nat
      /\ deficit \in Nat
  BY <1>1, Naturals
<1>3. /\ ~Over /\ ~Over' /\ pc # "queued" /\ pc' # "queued"
      /\ UNCHANGED <<job, disk, socket, replies>>
      /\ Put' /\ (rr' <=> rr) /\ (drr' <=> drr)
  BY SameTurn DEF Over
<1>4. socket = "open" /\ replies = <<"OK">>
  BY <1>1, <1>3, ServingOpen DEF RepliesInv
<1>5. /\ Sent = transferred /\ Sent' = transferred' /\ Terms.cuts = 1 .. job.total
      /\ Len(batch) = 0 /\ Len(batch') = 0 /\ ~Get /\ ~Get'
  BY <1>3, PutSide, PutSideNext
<1>6. Mapped /\ Mapped' /\ RoundLeft /\ RoundLeft'
  BY MappedNow, MappedNext, RoundLeftNow, RoundLeftNext
<1>7. /\ transferred' = transferred + n
      /\ quantumRemaining' = IF rr THEN quantumRemaining - n ELSE quantumRemaining
      /\ deficit' = IF drr THEN deficit - n ELSE deficit
      /\ rr => n <= quantumRemaining
      /\ ~rr /\ drr => n <= deficit
  BY DEF Moves, Credit
<1>8. Sent' <= job.total
  BY <1>3, <1>6 DEF Mapped
<1>9. /\ RoundRobinLeft = quantumRemaining + Len(batch)
      /\ RoundRobinLeft' = quantumRemaining' + Len(batch')
      /\ DeficitLeft = deficit + Len(batch)
      /\ DeficitLeft' = deficit' + Len(batch')
  BY <1>6 DEF RoundLeft
<1>10. /\ RoundRobinLeft = quantumRemaining /\ DeficitLeft = deficit
       /\ rr => RoundRobinLeft' = quantumRemaining - n
       /\ ~rr /\ drr => DeficitLeft' = deficit - n
  <2>1. quantumRemaining' \in Nat /\ deficit' \in Nat
    BY <1>1, MovesTyped
  <2>2. QED
    BY <1>2, <1>5, <1>7, <1>9, <2>1
<1>11. /\ Sent # job.total /\ Sent < Sent' /\ Sent' - Sent = n
       /\ Sent' \in Terms.cuts
  BY <1>2, <1>5, <1>7, <1>8
<1>12. /\ Left = IF rr THEN RoundRobinLeft
                 ELSE IF drr THEN DeficitLeft ELSE job.total - Sent
       /\ Sent' = job.total => Left' = 0
       /\ Sent' # job.total =>
            Left' = IF rr THEN RoundRobinLeft'
                    ELSE IF drr THEN DeficitLeft' ELSE job.total - Sent'
  BY <1>3, <1>6, <1>11 DEF Mapped
<1>13. Sent' - Sent <= Left
  BY <1>2, <1>5, <1>7, <1>8, <1>10, <1>11, <1>12
<1>14. Left' = IF Sent' = job.total THEN 0 ELSE Left - (Sent' - Sent)
  BY <1>2, <1>5, <1>7, <1>8, <1>10, <1>11, <1>12
<1>15. QED
  BY <1>3, <1>4, <1>11, <1>13, <1>14, MoveAllowed, Zenon

LEMMA OpenPutRefines ==
  ASSUME RefInv, RefInv', UNCHANGED <<job, disk>>, OpenPut
  PROVE  Contract!Refuse \/ Contract!Lose \/ UNCHANGED Contract!vars
<1>1. CASE Rejects
  <2>1. /\ Put /\ pc = "open" /\ ~job.diskReliable
    BY <1>1, FailsWhat DEF OpenPut, Fails
  <2>2. QED
    BY <1>1, <2>1, RejectsRefines DEF Over
<1>2. CASE ~Rejects
  <2>1. /\ Put /\ pc = "open" /\ pc' = "extra" /\ quantumRemaining' = job.quantum
        /\ deficit' = Granted
        /\ UNCHANGED <<job, disk, socket, replies, transferred>>
    BY <1>2 DEF OpenPut
  <2>2. /\ ~Over /\ ~Over' /\ pc # "queued" /\ pc' # "queued"
        /\ UNCHANGED <<job, disk, socket, replies>> /\ Put'
    BY <2>1, SameTurn DEF Over
  <2>3. Sent' = Sent /\ Len(batch') = 0
    BY <2>1, <2>2, PutSide, PutSideNext
  <2>4. RoundLeft /\ RoundLeft'
    BY RoundLeftNow, RoundLeftNext
  <2>5. /\ RoundRobinLeft = job.quantum /\ DeficitLeft = deficit + job.quantum
        /\ RoundRobinLeft' = job.quantum + Len(batch')
        /\ DeficitLeft' = deficit' + Len(batch')
    BY <2>1, <2>4 DEF RoundLeft
  <2>6. job.quantum \in Nat /\ deficit \in Nat
    BY UndisturbedFacts, Naturals
  <2>7. /\ rr => RoundRobinLeft' = RoundRobinLeft
        /\ drr => DeficitLeft' = DeficitLeft
    BY <2>1, <2>3, <2>5, <2>6 DEF Granted
  <2>8. QED
    BY <2>2, <2>3, <2>7, Quiet, Zenon
<1>3. QED
  BY <1>1, <1>2

LEMMA TakeExtraRefines ==
  ASSUME RefInv, RefInv', UNCHANGED <<job, disk>>, TakeExtra
  PROVE  \/ Contract!Move \/ Contract!Refuse \/ Contract!Lose
         \/ UNCHANGED Contract!vars
<1>1. TypeOK /\ HandOverInv /\ pc = "extra"
  BY UndisturbedFacts DEF TakeExtra
<1>2. Put
  BY <1>1 DEF HandOverInv, Sides
<1>3. CASE Rejects
  <2>1. ~job.diskReliable
    BY <1>1, <1>3, FailsWhat DEF TakeExtra, Fails
  <2>2. QED
    BY <1>1, <1>2, <1>3, <2>1, RejectsRefines DEF Over
<1>4. CASE ~Rejects
  <2>1. pc' = "loop" /\ UNCHANGED <<socket, replies>>
    BY <1>1, <1>4, TakesExtra
  <2>2. PICK n \in Nat : n <= Credit /\ Moves(n)
    BY <1>1, <1>4, TakesExtra
  <2>3. CASE n > 0
    BY <1>1, <1>2, <2>1, <2>2, <2>3, StoringRefines
  <2>4. CASE n = 0
    <3>1. /\ ~Over /\ ~Over' /\ pc # "queued" /\ pc' # "queued"
          /\ UNCHANGED <<job, disk, socket, replies>> /\ Put'
      BY <1>1, <1>2, <2>1, SameTurn DEF Over
    <3>2. /\ transferred \in Nat /\ quantumRemaining \in Nat /\ deficit \in Nat
      BY <1>1, Naturals
    <3>3. UNCHANGED <<transferred, quantumRemaining, deficit>>
      BY <2>2, <2>4, <3>2 DEF Moves
    <3>4. Sent' = Sent /\ Len(batch) = 0 /\ Len(batch') = 0
      BY <1>2, <3>1, <3>3, PutSide, PutSideNext
    <3>5. RoundLeft /\ RoundLeft'
      BY RoundLeftNow, RoundLeftNext
    <3>6. RoundRobinLeft' = RoundRobinLeft /\ DeficitLeft' = DeficitLeft
      BY <1>1, <2>1, <3>3, <3>4, <3>5 DEF RoundLeft
    <3>7. QED
      BY <3>1, <3>4, <3>6, Quiet, Zenon
  <2>5. QED
    BY <2>2, <2>3, <2>4
<1>5. QED
  BY <1>3, <1>4

LEMMA ReceiveRefines ==
  ASSUME RefInv, RefInv', UNCHANGED <<job, disk>>, Receive
  PROVE  Contract!Move
<1>1. TypeOK
  BY UndisturbedFacts
<1>2. Receiving /\ UNCHANGED <<socket, replies, pc>>
  BY <1>1, Receives
<1>3. PICK n \in Nat \ {0} : n <= Credit /\ Moves(n)
  BY <1>1, Receives
<1>4. n > 0 /\ n \in Nat
  OBVIOUS
<1>5. Put /\ pc = "loop" /\ pc' = "loop"
  BY <1>2 DEF Receiving
<1>6. QED
  BY <1>2, <1>3, <1>4, <1>5, StoringRefines

LEMMA ReceiveFailsRefines ==
  ASSUME RefInv, ReceiveFails
  PROVE  Contract!Refuse \/ Contract!Lose
<1>1. /\ Rejects /\ Put /\ pc = "loop" /\ transferred < job.total /\ Receiving
      /\ ~job.peerReliable \/ consumed = job.stream \/ ~job.diskReliable
  BY DEF ReceiveFails, Receiving
<1>2. consumed = job.stream => job.stream < job.total
  BY <1>1, UndisturbedFacts DEF UploadInv
<1>3. QED
  BY <1>1, <1>2, RejectsRefines DEF Over

\* The end of a round of a PUT: the turn ends, or the last answer is due.
LEMMA PutRoundRefines ==
  ASSUME RefInv, RefInv', UNCHANGED <<job, disk>>, PutRoundEnds
  PROVE  Contract!EndTurn \/ UNCHANGED Contract!vars
<1>1. /\ TypeOK /\ RepliesInv /\ UploadInv /\ changes = 0
  BY UndisturbedFacts
<1>2. /\ pc = "loop" /\ Put /\ ~Receiving
      /\ deficit' = IF Preemptive /\ (~Preemptive \/ transferred = job.total)
                    THEN 0 ELSE deficit
      /\ pc' = IF ~Preemptive \/ transferred = job.total THEN "finalOk"
               ELSE AfterRound
      /\ UNCHANGED <<socket, replies, body, stored, transferred, quantumRemaining>>
  BY DEF PutRoundEnds, locals
<1>3. /\ ~Over /\ pc # "queued" /\ Put' /\ (rr' <=> rr) /\ (drr' <=> drr)
      /\ UNCHANGED <<job, disk, socket, replies>> /\ UNCHANGED Terms
  BY <1>2, SameTurn DEF Over
<1>4. /\ job.total \in Nat /\ transferred \in Nat /\ quantumRemaining \in Nat
      /\ deficit \in Nat /\ job.quantum \in Nat \ {0}
  BY <1>1, Naturals
<1>5. /\ Sent = transferred /\ Sent' = Sent /\ Len(batch) = 0 /\ ~Get
      /\ Terms.cuts = 1 .. job.total
  BY <1>2, <1>3, PutSide, PutSideNext
<1>6. Mapped /\ RoundLeft
  BY MappedNow, RoundLeftNow
<1>7. transferred <= job.total
  BY <1>3, <1>5, <1>6 DEF Mapped
<1>8. transferred < job.total => Credit = 0
  <2>1. Credit \in Nat
    BY <1>4 DEF Credit
  <2>2. transferred < job.total => ~(Credit > 0)
    BY <1>2 DEF Receiving
  <2>3. QED
    BY <2>1, <2>2
<1>9. ~Preemptive => transferred = job.total
  BY <1>4, <1>7, <1>8 DEF Credit, Preemptive
<1>10. CASE transferred = job.total
  <2>1. pc' = "finalOk" /\ ~Over' /\ pc' # "queued"
    BY <1>2, <1>10 DEF Over
  <2>2. QED
    BY <1>3, <1>5, <1>10, <2>1, Quiet, Zenon
<1>11. CASE transferred # job.total
  <2>1. transferred < job.total /\ Preemptive /\ Credit = 0
    BY <1>4, <1>7, <1>8, <1>9, <1>11
  <2>2. pc' = "queued" /\ deficit' = deficit
    BY <1>2, <1>11, <2>1 DEF AfterRound
  <2>3. /\ Phase = "serving" /\ Phase' = "waiting"
    BY <1>2, <1>3, <2>2, PhaseKnown, PhaseKnownNext
  <2>4. Len(Data) = transferred /\ UNCHANGED Data
    BY <1>2, <1>3, <1>5, <1>6, SameTurn DEF Mapped, Data
  <2>5. Left = IF rr THEN RoundRobinLeft ELSE DeficitLeft
    BY <1>3, <1>5, <1>6, <1>11, <2>1 DEF Mapped, Preemptive
  <2>6. RoundRobinLeft = quantumRemaining /\ DeficitLeft = deficit
    BY <1>2, <1>4, <1>5, <1>6 DEF RoundLeft
  <2>7. Left = 0 /\ (drr => deficit = 0)
    BY <2>1, <2>5, <2>6 DEF Credit, Preemptive, rr, drr
  <2>8. Left' = 0
    <3>1. Mapped' /\ ~Over'
      BY <2>2, MappedNext DEF Over
    <3>2. QED
      BY <1>3, <2>2, <2>7, <3>1 DEF Mapped
  <2>9. Contract!NothingFits
    <3>1. \A c \in Terms.cuts : c > transferred => c - transferred > Left
      BY <1>4, <1>5, <2>7
    <3>2. QED
      BY <2>4, <3>1 DEF Contract!NothingFits, Contract!Moved
  <2>10. ~Contract!Complete /\ Terms.policy \in {"rr", "drr"}
    BY <1>11, <2>1, <2>4, TermsFields
       DEF Contract!Complete, Contract!Moved, Preemptive, rr, drr
  <2>11. Left < Terms.quantum
    BY <1>4, <2>7, TermsFields
  <2>12. replies = <<"OK">>
    BY <1>1, <1>2 DEF RepliesInv
  <2>13. QED
    BY <1>3, <2>3, <2>4, <2>7, <2>8, <2>9, <2>10, <2>11, <2>12 DEF Contract!EndTurn
<1>12. QED
  BY <1>10, <1>11

LEMMA FinalOkRefines ==
  ASSUME RefInv, RefInv', UNCHANGED <<job, disk>>, SendFinalOk
  PROVE  Contract!Finish \/ Contract!Lose
<1>1. /\ TypeOK /\ HandOverInv /\ RepliesInv /\ UploadInv /\ changes = 0
      /\ pc = "finalOk"
  BY UndisturbedFacts DEF SendFinalOk
<1>2. CASE SendFails
  BY <1>1, <1>2, SendFailsRefines DEF Over
<1>3. CASE ~SendFails
  <2>1. /\ socket = "open" /\ replies' = Append(replies, "OK")
        /\ socket' = "closed"
        /\ pc' = AfterRound /\ UNCHANGED <<stored, body, transferred>>
    BY <1>3 DEF SendFinalOk, CanSend, request
  <2>2. Put /\ transferred = job.total /\ job.total \in Nat
    BY <1>1, Naturals DEF HandOverInv, Sides, UploadInv
  <2>3. pc' = "done"
    BY <2>1, <2>2 DEF AfterRound
  <2>4. Phase = "serving" /\ Phase' = "completed" /\ Left' = 0
    BY <1>1, <2>1, <2>3, PhaseKnown, PhaseKnownNext, LeftOverNext DEF Over
  <2>5. replies = <<"OK">> /\ replies' = <<"OK", "OK">>
    <3>1. replies = <<"OK">>
      BY <1>1 DEF RepliesInv
    <3>2. QED
      BY <2>1, <3>1, Answers
  <2>6. UNCHANGED <<Terms, Data>>
    BY <2>1, TermsStay DEF Data, Get
  <2>7. Contract!Complete /\ Terms.op = "PUT"
    <3>1. Sent = transferred
      BY <2>2, PutSide
    <3>2. Len(Data) = Sent
      BY <1>1, MappedNow DEF Mapped, Over
    <3>3. QED
      BY <2>2, <3>1, <3>2, TermsFields DEF Contract!Complete, Contract!Moved, Put
  <2>8. replies' = IF Terms.op = "PUT" THEN <<"OK", "OK">> ELSE replies
    BY <2>5, <2>7
  <2>9. QED
    BY <2>1, <2>4, <2>5, <2>6, <2>7, <2>8 DEF Contract!Finish
<1>4. QED
  BY <1>2, <1>3

LEMMA StepRefines ==
  RefInv /\ RefInv' /\ [Next]_vars => [Contract!Next]_Contract!vars
<1> SUFFICES ASSUME RefInv, RefInv', [Next]_vars
             PROVE  Contract!Next \/ UNCHANGED Contract!vars
  BY DEF Contract!vars
<1>1. TypeOK /\ HandOverInv /\ changes = 0 /\ changes' = 0
  BY UndisturbedFacts DEF RefInv
<1>2. UNCHANGED <<job, disk>> /\ ~FileChanges
  BY <1>1, StillUndisturbed
<1>3. CASE BeginRound
  BY <1>3, BeginRefines DEF Contract!Next
<1>4. CASE SendStatus
  <2>1. ~Over /\ pc # "queued"
    BY <1>4 DEF SendStatus, Over
  <2>2. QED
    BY <1>4, <2>1, AnswerRefines, SendFailsRefines DEF Contract!Next
<1>5. ASSUME GetStep PROVE Contract!Next \/ UNCHANGED Contract!vars
  <2>1. CASE SendBatch /\ PacketCut
    BY <2>1, PacketCutRefines DEF Contract!Next
  <2>2. CASE ReadFails
    <3>1. /\ pc = "loop" /\ Get /\ transferred < job.total
          /\ LineLength(position) = 0 /\ Rejects
      BY <2>2 DEF ReadFails, Reading
    <3>2. /\ position = transferred /\ transferred \in Nat /\ transferred <= disk.size
          /\ disk.size \in Nat /\ job.total \in Nat
      BY <1>1, <3>1, PacketFacts, Naturals
    <3>3. ~(position < disk.size)
      <4>1. position \in Nat /\ disk.size \in Nat /\ disk.ends \subseteq 1 .. disk.size
        BY <1>1, <3>2, Naturals
      <4>2. LineLength(position) > 0 <=> position < disk.size
        BY <4>1, LineBounds
      <4>3. QED
        BY <3>1, <4>2
    <3>4. disk.size < job.total
      BY <3>1, <3>2, <3>3
    <3>5. ~job.diskReliable
      BY <3>1, <3>4, UndisturbedFacts DEF TurnInv, FileKeeps
    <3>6. QED
      BY <3>1, <3>5, RejectsRefines DEF Over, Contract!Next
  <2>3. CASE OpenGet /\ Rejects
    <3>1. pc = "open" /\ ~job.diskReliable
      BY <1>1, <2>3, FailsWhat DEF OpenGet, Fails
    <3>2. QED
      BY <2>3, <3>1, RejectsRefines DEF Over, Contract!Next
  <2>4. CASE SendBatch /\ ~PacketCut
    BY <1>2, <2>4, SendRefines DEF Contract!Next
  <2>5. CASE FinishGet
    BY <1>2, <2>5, FinishGetRefines DEF Contract!Next
  <2>6. CASE \/ OpenGet /\ ~Rejects
             \/ LineTaken \/ LineOverruns \/ LineForfeits \/ LoopEnds
    <3>1. ~Rejects
      BY <2>6, FailsWhat DEF Fails, LineTaken, LineOverruns, LineForfeits, LoopEnds
    <3>2. QED
      BY <1>2, <2>6, <3>1, ReadingIsQuiet
  <2>7. QED
    BY <1>5, <2>1, <2>2, <2>3, <2>4, <2>5, <2>6 DEF GetStep
<1>6. CASE PutStep
  BY <1>2, <1>6, OpenPutRefines, TakeExtraRefines, ReceiveRefines, ReceiveFailsRefines,
     PutRoundRefines, FinalOkRefines DEF PutStep, Contract!Next
<1>7. CASE PeerStops \/ UNCHANGED vars
  <2>1. UNCHANGED <<job, disk, pc, socket, replies, body, stored, transferred, deficit,
                    quantumRemaining, batch, firstLine>>
    BY <1>7 DEF PeerStops, vars, request, locals
  <2>2. UNCHANGED <<Terms, Phase, Data>>
    BY <2>1, TermsStay DEF Phase, Data, Get
  <2>3. UNCHANGED Left
    BY <2>1, <2>2 DEF Left, Unfinished, Over, RoundRobinLeft, DeficitLeft, Overrunning,
                      Get, rr, drr, Preemptive
  <2>4. QED
    BY <2>1, <2>2, <2>3 DEF Contract!vars
<1>8. QED
  BY <1>2, <1>3, <1>4, <1>5, <1>6, <1>7 DEF Next, Serve

LEMMA InitRefines == Undisturbed /\ Init => Contract!Init
<1> SUFFICES ASSUME Undisturbed, Init PROVE Contract!Init
  OBVIOUS
<1>1. RefInv
  BY InitTurn, InitService DEF RefInv, Undisturbed
<1>2. /\ pc = "queued" /\ transferred = 0 /\ body = <<>> /\ replies = <<>>
      /\ socket = "open" /\ deficit = 0
  BY DEF Init
<1>3. Mapped /\ ~Over
  BY <1>1, <1>2, MappedNow DEF Over
<1>4. Left = 0
  BY <1>2, <1>3 DEF Mapped
<1>5. Data = <<>>
  BY <1>2 DEF Data
<1>6. Phase = "waiting"
  BY <1>2, PhaseKnown
<1>7. /\ TypeOK /\ job.op \in {"GET", "PUT"} /\ job.quantum \in Nat \ {0}
      /\ job.total \in Nat
  BY <1>1, UndisturbedFacts, Naturals
<1>8. /\ job.policy \in {"fcfs", "sjf", "rr", "drr"}
      /\ job.peerReliable \in BOOLEAN /\ job.diskReliable \in BOOLEAN
  BY <1>7 DEF TypeOK, Policies
<1> DEFINE cuts == IF Get THEN disk.ends \cup {disk.size} ELSE 1 .. job.total
           short == Put /\ job.stream < job.total
<1>9. cuts \in SUBSET Nat
  BY <1>7, Naturals
<1>10. short \in BOOLEAN
  BY DEF Put
<1>11. Terms = [op |-> job.op, policy |-> job.policy, quantum |-> job.quantum,
                total |-> job.total, short |-> short,
                peerReliable |-> job.peerReliable,
                diskReliable |-> job.diskReliable, cuts |-> cuts]
  BY DEF Terms
<1> HIDE DEF cuts, short
<1>12. Terms \in Contract!Terms
  BY <1>7, <1>8, <1>9, <1>10, <1>11 DEF Contract!Terms
<1>13. QED
  BY <1>2, <1>4, <1>5, <1>6, <1>12 DEF Contract!Init

\* For every file, body, quantum and packet limit: as long as nobody disturbs the
\* request, every step of the handlers is one the contract of one request has.
THEOREM RequestContractKept == Spec => KeepsContract
<1>1. Init => (Undisturbed => Contract!Init)
  BY InitRefines
<1>2. TypeOK /\ (Undisturbed => RefInv) /\ (Undisturbed => RefInv)' /\ [Next]_vars
      => (Undisturbed' => [Contract!Next]_Contract!vars)
  BY StaysDisturbed, StepRefines
<1>3. QED
  BY <1>1, <1>2, AlwaysRef, ServiceTypeCorrect, PTL DEF Spec, KeepsContract

\* A request that is never disturbed behaves as its contract says, from its
\* admission to its end.
THEOREM UndisturbedIsContract == Spec /\ []Undisturbed => Contract!Spec
<1>1. Init => (Undisturbed => Contract!Init)
  BY InitRefines
<1>2. RefInv /\ RefInv' /\ [Next]_vars => [Contract!Next]_Contract!vars
  BY StepRefines
<1>3. QED
  BY <1>1, <1>2, AlwaysRef, PTL DEF Spec, Contract!Spec
=============================================================================
