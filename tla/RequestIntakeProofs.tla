------------------------- MODULE RequestIntakeProofs -------------------------
(***************************************************************************)
(* Proofs about the parser thread and one connection, for header lines of  *)
(* every length, cut up by recv in every way, and any number of items after *)
(* the line: the framing, the grammar, and what becomes of the connection. *)
(***************************************************************************)
EXTENDS RequestIntake, SequenceTheorems, WellFoundedInduction, TLAPS

-----------------------------------------------------------------------------
(* The inductive invariant.                                                *)

\* A line has one newline, at its end.
IsLine(s) ==
  /\ s \in Seq(Words \cup {NL}) /\ s # <<>>
  /\ \A i \in DOMAIN s : s[i] = NL <=> i = Len(s)

\* What was received is a prefix of the stream, and while the parser still reads
\* it has no newline; then it is the line and what came after it.
Framed ==
  /\ stream \in Seq(Words \cup {NL}) /\ received \in 0 .. Len(stream)
  /\ buffer = SubSeq(stream, 1, received)
  /\ pc = "receive" => header = <<>> /\ \A i \in DOMAIN buffer : buffer[i] # NL
  /\ header # <<>> => IsLine(header) /\ header \o extra = buffer
  /\ pc \in {"parse", "health", "admit", "queued"} => header # <<>>

FileMissing == "file does not exist"

\* The message of a rejection is that of the grammar, or that of stat.
Rejected ==
  \/ errorMessage = ParseRequest(header) /\ errorMessage \notin {Empty, Thrown}
  \/ errorMessage = FileMissing /\ ParseRequest(header) = Empty /\ Type(header) = "GET"

Healthy ==
  errorMessage = Empty /\ ParseRequest(header) = Empty /\ Type(header) = "HEALTH"

\* Where the parser is agrees with what the grammar says of the line.
Decided ==
  /\ pc \in {"receive", "parse", "reject", "health", "admit", "queued"} => replies = <<>>
  /\ pc = "reject" /\ header # <<>> => Rejected
  /\ pc = "health" => Healthy
  /\ pc = "admit" => ParseRequest(header) = Empty /\ Type(header) # "HEALTH"
  /\ pc = "queued" =>
       /\ ParseRequest(header) = Empty /\ Type(header) # "HEALTH"
       /\ admitted.type = Type(header) /\ admitted.fileName = FileName(header)
       /\ Type(header) # "GET" => admitted.total = 7
  /\ pc = "closed" /\ header # <<>> =>
       /\ Rejected \/ Healthy
       /\ \/ replies = <<>> /\ peer = "gone"
          \/ replies = <<IF Healthy THEN "OK" ELSE errorMessage>>
  /\ pc = "killed" => \/ peer = "gone"
                      \/ header # <<>> /\ ParseRequest(header) = Thrown

IntakeInv == Framed /\ Decided

-----------------------------------------------------------------------------
(* Operators.                                                              *)

\* A nonempty set of naturals has the minimum that Min chooses.
LEMMA MinExists ==
  ASSUME NEW S \in SUBSET Nat, S # {}
  PROVE  Min(S) \in S /\ \A y \in S : Min(S) <= y
<1>1. PICK x \in S : \A y \in S : ~ (<<y, x>> \in OpToRel(<, Nat))
  BY NatLessThanWellFounded, WFMin
<1>2. ASSUME NEW y \in S PROVE x <= y
  <2>1. <<y, x>> \in Nat \X Nat /\ <<y, x>>[1] = y /\ <<y, x>>[2] = x
    OBVIOUS
  <2>2. ~(y < x)
    BY <1>1, <2>1, <1>2 DEF OpToRel
  <2>3. QED
    BY <2>2
<1>3. QED
  BY <1>2 DEF Min

Items == Words \cup {NL}

\* A sequence with a newline has a first one.
LEMMA NewlineIsFirst ==
  ASSUME NEW s \in Seq(Items), Contains(s, NL)
  PROVE  /\ Newline(s) \in 1 .. Len(s) /\ s[Newline(s)] = NL
         /\ \A j \in 1 .. Newline(s) - 1 : s[j] # NL
<1> DEFINE S == {i \in 1 .. Len(s) : s[i] = NL}
<1>1. S \in SUBSET Nat /\ S # {}
  BY DEF Contains
<1>2. Min(S) \in S /\ \A y \in S : Min(S) <= y
  <2> HIDE DEF S
  <2>1. QED
    BY <1>1, MinExists
<1>3. \A j \in 1 .. Min(S) - 1 : s[j] # NL
  <2>1. Min(S) \in 1 .. Len(s)
    BY <1>2
  <2>2. ASSUME NEW j \in 1 .. Min(S) - 1, s[j] = NL PROVE FALSE
    <3>1. j \in S
      BY <2>1, <2>2
    <3>2. QED
      BY <1>2, <2>1, <3>1
  <2>3. QED
    BY <2>2
<1>4. \E i \in DOMAIN s : s[i] = NL /\ \A j \in 1 .. i - 1 : s[j] # NL
  BY <1>2, <1>3
<1>5. QED
  BY <1>4 DEF Newline

\* The line is cut off behind its newline, and nothing is lost.
LEMMA LineCutOff ==
  ASSUME NEW s \in Seq(Items), Contains(s, NL)
  PROVE  /\ IsLine(SubSeq(s, 1, Newline(s)))
         /\ SubSeq(s, 1, Newline(s)) \o AfterLine(s) = s
<1> DEFINE n == Newline(s)
           line == SubSeq(s, 1, n)
<1>1. n \in 1 .. Len(s) /\ s[n] = NL /\ \A j \in 1 .. n - 1 : s[j] # NL
  BY NewlineIsFirst
<1> HIDE DEF n
<1>2. /\ line \in Seq(Items) /\ Len(line) = n
      /\ \A i \in 1 .. n : line[i] = s[i]
  BY <1>1
<1>3. IsLine(line)
  <2>1. \A i \in 1 .. n : line[i] = NL <=> i = n
    BY <1>1, <1>2
  <2>2. DOMAIN line = 1 .. n /\ line # <<>>
    BY <1>1, <1>2
  <2>3. QED
    BY <1>2, <2>1, <2>2 DEF IsLine, Items
<1>4. line \o SubSeq(s, n + 1, Len(s)) = SubSeq(s, 1, Len(s))
  BY <1>1, ConcatAdjacentSubSeq
<1>5. QED
  BY <1>3, <1>4, SubSeqFull DEF AfterLine, n

\* The words of a line and its tokens.
LEMMA LineWords ==
  ASSUME NEW line, IsLine(line), NEW w, w = Front(line)
  PROVE  /\ w \in Seq(Words)
         /\ \A k \in 1 .. Len(w) : Token(line, k) = w[k]
         /\ \A k \in Nat \ {0} : k > Len(w) => Token(line, k) = Empty
<1> DEFINE n == Len(line)
<1>1. /\ n \in Nat \ {0} /\ DOMAIN line = 1 .. n
      /\ \A i \in 1 .. n : line[i] \in Items
      /\ \A i \in 1 .. n : line[i] = NL <=> i = n
  BY DEF IsLine, Items
<1> HIDE DEF n
<1>2. \A i \in 1 .. n - 1 : line[i] \in Words
  <2>1. ASSUME NEW i \in 1 .. n - 1 PROVE i \in 1 .. n /\ i # n
    BY <1>1
  <2>2. QED
    BY <1>1, <2>1 DEF Items
<1>3. /\ w \in Seq(Words) /\ Len(w) = n - 1
      /\ \A i \in 1 .. n - 1 : w[i] = line[i]
  <2>1. w = SubSeq(line, 1, n - 1)
    BY DEF Front, n
  <2>2. /\ w \in Seq(Words)
        /\ Len(w) = IF 1 <= n - 1 THEN (n - 1) - 1 + 1 ELSE 0
        /\ \A i \in 1 .. (n - 1) - 1 + 1 : w[i] = line[1 + i - 1]
    <3>1. 1 \in Int /\ n - 1 \in Int
      BY <1>1
    <3>2. QED
      BY <1>2, <2>1, <3>1, SubSeqProperties
  <2>3. QED
    BY <1>1, <2>2
<1>4. ASSUME NEW k \in 1 .. n - 1 PROVE Token(line, k) = w[k]
  <2>1. k \in 1 .. n /\ k # n
    BY <1>1
  <2>2. QED
    BY <1>1, <1>3, <2>1 DEF Token
<1>5. ASSUME NEW k \in Nat \ {0}, k > n - 1 PROVE Token(line, k) = Empty
  <2>1. (k = n /\ k \in 1 .. n) \/ k \notin 1 .. n
    BY <1>1, <1>5
  <2>2. QED
    BY <1>1, <2>1 DEF Token
<1>6. QED
  BY <1>3, <1>4, <1>5

-----------------------------------------------------------------------------
(* The grammar.                                                            *)

Applies(line, i) == Tests(line)[i][1]
Message(line, i) == Tests(line)[i][2]

\* parseRequest answers with the first test that applies.
LEMMA FirstThatApplies ==
  ASSUME NEW line
  PROVE  \/ ParseRequest(line) = Empty /\ \A i \in 1 .. 10 : ~Applies(line, i)
         \/ \E i \in 1 .. 10 :
              /\ ParseRequest(line) = Message(line, i) /\ Applies(line, i)
              /\ \A j \in 1 .. i - 1 : ~Applies(line, j)
<1> DEFINE failing == {i \in 1 .. 10 : Applies(line, i)}
<1>1. DOMAIN Tests(line) = 1 .. 10
  BY DEF Tests
<1>2. ParseRequest(line) = IF failing = {} THEN Empty ELSE Message(line, Min(failing))
  BY <1>1 DEF ParseRequest, Applies, Message
<1>3. failing \in SUBSET Nat
  OBVIOUS
<1>4. CASE failing = {}
  BY <1>2, <1>4
<1>5. CASE failing # {}
  <2> DEFINE m == Min(failing)
  <2>1. m \in failing /\ \A i \in failing : m <= i
    <3> HIDE DEF failing
    <3>1. QED
      BY <1>3, <1>5, MinExists
  <2> HIDE DEF m
  <2>2. m \in 1 .. 10 /\ Applies(line, m)
    BY <2>1
  <2>3. ASSUME NEW j \in 1 .. m - 1 PROVE ~Applies(line, j)
    <3>1. j \in 1 .. 10 /\ ~(m <= j)
      BY <2>2
    <3>2. QED
      BY <2>1, <3>1
  <2>4. ParseRequest(line) = Message(line, m)
    BY <1>2, <1>5 DEF m
  <2>5. QED
    BY <2>2, <2>3, <2>4
<1>6. QED
  BY <1>4, <1>5

\* Every test has a message, and only one of them is the uncaught exception.
LEMMA Messages ==
  ASSUME NEW line, NEW i \in 1 .. 10
  PROVE  /\ Message(line, i) \notin {Empty, "OK", FileMissing}
         /\ Message(line, i) = Thrown => i = 8
<1>1. i \in {1, 2, 3, 4, 5, 6, 7, 8, 9, 10}
  OBVIOUS
<1>2. /\ Message(line, 1) = "Malformed request"
      /\ Message(line, 2) = "Unknown request type"
      /\ Message(line, 3) = "Missing filename"
      /\ Message(line, 4) = "Invalid filename"
      /\ Message(line, 5) = "Malformed request"
      /\ Message(line, 6) = "Missing byte count"
      /\ Message(line, 7) = "Invalid byte count"
      /\ Message(line, 8) = Thrown
      /\ Message(line, 9) = "Malformed request"
      /\ Message(line, 10) = "Malformed request"
  BY DEF Message, Tests
<1>3. QED
  BY <1>1, <1>2 DEF Thrown, FileMissing, Empty

\* What no test objects to.
Accepted(line) ==
  /\ Type(line) \in {"GET", "PUT", "HEALTH"} /\ Token(line, 4) = Empty
  /\ Type(line) \in {"GET", "PUT"} =>
       FileName(line) # Empty /\ ValidFileName(FileName(line))
  /\ Type(line) = "GET" => ByteCount(line) = Empty
  /\ Type(line) = "PUT" => ByteCount(line) = "7"
  /\ Type(line) = "HEALTH" => FileName(line) = Empty /\ ByteCount(line) = Empty

\* What stoull throws at: a well-formed PUT up to its third word.
Throws(line) ==
  /\ Type(line) = "PUT"
  /\ FileName(line) # Empty /\ ValidFileName(FileName(line))
  /\ ByteCount(line) \in Digits \ {"7"}

LEMMA NothingApplies ==
  ASSUME NEW line
  PROVE  (\A i \in 1 .. 10 : ~Applies(line, i)) <=> Accepted(line)
<1>1. (\A i \in 1 .. 10 : ~Applies(line, i)) <=>
        /\ ~Applies(line, 1) /\ ~Applies(line, 2) /\ ~Applies(line, 3)
        /\ ~Applies(line, 4) /\ ~Applies(line, 5) /\ ~Applies(line, 6)
        /\ ~Applies(line, 7) /\ ~Applies(line, 8) /\ ~Applies(line, 9)
        /\ ~Applies(line, 10)
  <2>1. \A i \in 1 .. 10 : i \in {1, 2, 3, 4, 5, 6, 7, 8, 9, 10}
    OBVIOUS
  <2>2. QED
    BY <2>1
<1>2. "7" # Empty /\ "7" \in Digits /\ Empty \notin {"GET", "PUT", "HEALTH"}
  BY DEF Digits, Empty
<1>3. QED
  BY <1>1, <1>2 DEF Applies, Tests, NamesFile, ExtraForbidden, OnlyDigits, Accepted

LEMMA ThrowingApplies ==
  ASSUME NEW line
  PROVE  (Applies(line, 8) /\ \A j \in 1 .. 7 : ~Applies(line, j)) <=> Throws(line)
<1>1. (\A j \in 1 .. 7 : ~Applies(line, j)) <=>
        /\ ~Applies(line, 1) /\ ~Applies(line, 2) /\ ~Applies(line, 3)
        /\ ~Applies(line, 4) /\ ~Applies(line, 5) /\ ~Applies(line, 6)
        /\ ~Applies(line, 7)
  <2>1. \A j \in 1 .. 7 : j \in {1, 2, 3, 4, 5, 6, 7}
    OBVIOUS
  <2>2. QED
    BY <2>1
<1>2. Empty \notin Digits /\ Empty \notin {"GET", "PUT", "HEALTH"}
  BY DEF Digits, Huge, Empty
<1>3. QED
  BY <1>1, <1>2 DEF Applies, Tests, NamesFile, OnlyDigits, Throws

\* What parseRequest returns.
LEMMA ParseReturns ==
  ASSUME NEW line
  PROVE  /\ ParseRequest(line) = Empty <=> Accepted(line)
         /\ ParseRequest(line) = Thrown <=> Throws(line)
         /\ ParseRequest(line) \notin {"OK", FileMissing}
<1>1. ParseRequest(line) = Empty <=> Accepted(line)
  BY FirstThatApplies, Messages, NothingApplies
<1>2. Empty # Thrown /\ 8 \in 1 .. 10 /\ 8 - 1 = 7
  BY DEF Thrown, Empty
<1>3. ASSUME ParseRequest(line) = Thrown PROVE Throws(line)
  <2>1. PICK i \in 1 .. 10 :
          /\ ParseRequest(line) = Message(line, i) /\ Applies(line, i)
          /\ \A j \in 1 .. i - 1 : ~Applies(line, j)
    BY <1>2, <1>3, FirstThatApplies
  <2>2. i = 8
    BY <1>3, <2>1, Messages
  <2>3. QED
    BY <1>2, <2>1, <2>2, ThrowingApplies
<1>4. ASSUME Throws(line) PROVE ParseRequest(line) = Thrown
  <2>1. Applies(line, 8) /\ \A j \in 1 .. 7 : ~Applies(line, j)
    BY <1>4, ThrowingApplies
  <2>2. PICK i \in 1 .. 10 :
          /\ ParseRequest(line) = Message(line, i) /\ Applies(line, i)
          /\ \A j \in 1 .. i - 1 : ~Applies(line, j)
    BY <1>2, <2>1, FirstThatApplies
  <2>3. i = 8
    <3>1. ~(i \in 1 .. 7) /\ (8 \in 1 .. i - 1 => ~Applies(line, 8))
      BY <2>1, <2>2
    <3>2. QED
      BY <2>1, <3>1
  <2>4. QED
    BY <2>2, <2>3 DEF Message, Tests
<1>5. ParseRequest(line) \notin {"OK", FileMissing}
  BY FirstThatApplies, Messages DEF FileMissing, Empty
<1>6. QED
  BY <1>1, <1>3, <1>4, <1>5

\* The tokens of a line with the words w.
LEMMA Tokens ==
  ASSUME NEW w \in Seq(Words), NEW line,
         \A k \in 1 .. Len(w) : Token(line, k) = w[k],
         \A k \in Nat \ {0} : k > Len(w) => Token(line, k) = Empty
  PROVE  /\ Len(w) >= 1 => w[1] \in Words /\ Type(line) = ToUpper[w[1]]
         /\ Len(w) = 0 => Type(line) = Empty
         /\ Len(w) >= 2 => w[2] \in Words /\ FileName(line) = w[2]
         /\ Len(w) <= 1 => FileName(line) = Empty
         /\ Len(w) >= 3 => w[3] \in Words /\ ByteCount(line) = w[3]
         /\ Len(w) <= 2 => ByteCount(line) = Empty
         /\ Token(line, 4) = Empty <=> Len(w) <= 3
         /\ Empty \notin Words
<1>1. Empty \notin Words
  BY DEF Words, Names, Digits, Huge, Empty
<1>2. Len(w) \in Nat /\ \A k \in 1 .. Len(w) : w[k] \in Words
  OBVIOUS
<1>3. /\ Len(w) >= 1 => w[1] \in Words /\ Token(line, 1) = w[1]
      /\ Len(w) >= 2 => w[2] \in Words /\ Token(line, 2) = w[2]
      /\ Len(w) >= 3 => w[3] \in Words /\ Token(line, 3) = w[3]
      /\ Len(w) >= 4 => w[4] \in Words /\ Token(line, 4) = w[4]
  BY <1>2
<1>4. /\ Len(w) = 0 => Token(line, 1) = Empty
      /\ Len(w) <= 1 => Token(line, 2) = Empty
      /\ Len(w) <= 2 => Token(line, 3) = Empty
      /\ Len(w) <= 3 => Token(line, 4) = Empty
  BY <1>2
<1>5. Token(line, 4) = Empty <=> Len(w) <= 3
  <2>1. Len(w) <= 3 \/ Len(w) >= 4
    BY <1>2
  <2>2. QED
    BY <1>1, <1>3, <1>4, <2>1
<1>6. Len(w) >= 1 => Type(line) = ToUpper[w[1]]
  BY <1>1, <1>3 DEF Type
<1>7. QED
  BY <1>1, <1>3, <1>4, <1>5, <1>6 DEF Type, FileName, ByteCount

\* The verbs of the words.
LEMMA Verbs ==
  ASSUME NEW x \in Words
  PROVE  /\ ToUpper[x] = "HEALTH" <=> x = "HEALTH"
         /\ "7" \in Words /\ Huge \in Words /\ Digits = {"7", Huge} /\ "7" # Huge
BY DEF ToUpper, Words, Names, Digits, Huge

\* The grammar accepts the lines GET name, PUT name count and HEALTH, throws for
\* a count that is too large, and rejects every other line.
LEMMA Grammar ==
  ASSUME NEW line, IsLine(line)
  PROVE  LET w == Front(line) IN
         /\ ParseRequest(line) = Empty =>
              /\ Type(line) \in {"GET", "PUT", "HEALTH"}
              /\ Type(line) = "GET" => GetLine(w)
              /\ Type(line) = "PUT" => PutLine(w)
              /\ Type(line) = "HEALTH" => HealthLine(w)
              /\ Type(line) # "HEALTH" => FileName(line) = w[2]
         /\ GetLine(w) => ParseRequest(line) = Empty /\ Type(line) = "GET"
         /\ PutLine(w) => ParseRequest(line) \in {Empty, Thrown} /\ Type(line) = "PUT"
         /\ HealthLine(w) => ParseRequest(line) = Empty /\ Type(line) = "HEALTH"
         /\ ParseRequest(line) = Thrown =>
              Len(w) >= 3 /\ PutLine(SubSeq(w, 1, 3)) /\ w[3] = Huge
<1> DEFINE w == Front(line)
           n == Len(w)
<1>1. /\ w \in Seq(Words)
      /\ \A k \in 1 .. n : Token(line, k) = w[k]
      /\ \A k \in Nat \ {0} : k > n => Token(line, k) = Empty
  BY LineWords
<1>2. /\ n >= 1 => w[1] \in Words /\ Type(line) = ToUpper[w[1]]
      /\ n = 0 => Type(line) = Empty
      /\ n >= 2 => w[2] \in Words /\ FileName(line) = w[2]
      /\ n <= 1 => FileName(line) = Empty
      /\ n >= 3 => w[3] \in Words /\ ByteCount(line) = w[3]
      /\ n <= 2 => ByteCount(line) = Empty
      /\ Token(line, 4) = Empty <=> n <= 3
      /\ Empty \notin Words
  BY <1>1, Tokens
<1>3. n \in Nat
  BY <1>1
<1>4. HealthLine(w) <=> n = 1 /\ w[1] = "HEALTH"
  <2>1. "HEALTH" \in Words
    BY DEF Words
  <2>2. <<"HEALTH">> \in Seq(Words) /\ Len(<<"HEALTH">>) = 1
        /\ <<"HEALTH">>[1] = "HEALTH"
    BY <2>1
  <2>3. ASSUME n = 1, w[1] = "HEALTH" PROVE w = <<"HEALTH">>
    <3> HIDE DEF w
    <3>1. QED
      BY <1>1, <2>2, <2>3, SeqEqual
  <2>4. QED
    BY <2>2, <2>3 DEF HealthLine
<1>5. n >= 3 => LET u == SubSeq(w, 1, 3) IN
                Len(u) = 3 /\ u[1] = w[1] /\ u[2] = w[2] /\ u[3] = w[3]
  <2> HIDE DEF w
  <2>1. QED
    BY <1>1, <1>3
<1>6. \A x \in Words : ValidFileName(x) <=> x \notin {"..", "a/b"}
  BY DEF ValidFileName
<1> HIDE DEF w, n
<1>0. /\ FileName(line) = Empty <=> n <= 1
      /\ ByteCount(line) = Empty <=> n <= 2
  <2>1. FileName(line) = Empty => ~(n >= 2)
    BY <1>2
  <2>2. ByteCount(line) = Empty => ~(n >= 3)
    BY <1>2
  <2>3. QED
    BY <1>2, <1>3, <2>1, <2>2
<1>7. ASSUME Accepted(line)
      PROVE  /\ Type(line) \in {"GET", "PUT", "HEALTH"}
             /\ Type(line) = "GET" => GetLine(w)
             /\ Type(line) = "PUT" => PutLine(w)
             /\ Type(line) = "HEALTH" => HealthLine(w)
             /\ Type(line) # "HEALTH" => FileName(line) = w[2]
  <2>1. Type(line) \in {"GET", "PUT", "HEALTH"} /\ Empty \notin {"GET", "PUT", "HEALTH"}
    BY <1>7 DEF Accepted, Empty
  <2>2. n >= 1
    BY <1>2, <1>3, <2>1
  <2>3. CASE Type(line) = "HEALTH"
    <3>1. n = 1
      <4>1. FileName(line) = Empty
        BY <1>7, <2>3 DEF Accepted
      <4>2. n <= 1
        BY <1>0, <1>3, <4>1
      <4>3. QED
        BY <1>3, <2>2, <4>2
    <3>2. w[1] \in Words /\ ToUpper[w[1]] = "HEALTH"
      BY <1>2, <2>2, <2>3
    <3>3. w[1] = "HEALTH"
      BY <3>2, Verbs
    <3>4. QED
      BY <1>4, <2>3, <3>1, <3>3
  <2>4. CASE Type(line) = "GET"
    <3>1. n = 2
      <4>1. ~(n <= 1) /\ n <= 2
        BY <1>0, <1>7, <2>4 DEF Accepted
      <4>2. QED
        BY <1>3, <4>1
    <3>2. ToUpper[w[1]] = "GET" /\ w[2] \in Words /\ FileName(line) = w[2]
      BY <1>2, <2>2, <2>4, <3>1
    <3>3. w[2] \notin {"..", "a/b"}
      BY <1>6, <1>7, <2>4, <3>2 DEF Accepted
    <3>4. QED
      BY <2>4, <3>1, <3>2, <3>3 DEF GetLine, Verb, n
  <2>5. CASE Type(line) = "PUT"
    <3>1. "7" # Empty
      BY DEF Empty
    <3>2. n = 3
      <4>1. ByteCount(line) = "7" /\ Token(line, 4) = Empty
        BY <1>7, <2>5 DEF Accepted
      <4>2. ~(n <= 2) /\ n <= 3
        BY <1>0, <1>2, <1>3, <3>1, <4>1
      <4>3. QED
        BY <1>3, <4>2
    <3>3. /\ ToUpper[w[1]] = "PUT" /\ w[2] \in Words /\ FileName(line) = w[2]
          /\ ByteCount(line) = w[3]
      BY <1>2, <2>2, <2>5, <3>2
    <3>4. w[2] \notin {"..", "a/b"} /\ w[3] \in Digits
      BY <1>6, <1>7, <2>5, <3>3 DEF Accepted, Digits
    <3>5. QED
      BY <2>5, <3>2, <3>3, <3>4 DEF PutLine, Verb, n
  <2>6. QED
    BY <2>1, <2>3, <2>4, <2>5
<1>8. ASSUME GetLine(w) PROVE Accepted(line) /\ Type(line) = "GET"
  BY <1>2, <1>6, <1>8 DEF GetLine, Verb, Accepted, n
<1>9. ASSUME HealthLine(w) PROVE Accepted(line) /\ Type(line) = "HEALTH"
  <2>1. n = 1 /\ w[1] \in Words /\ ToUpper[w[1]] = "HEALTH"
    BY <1>2, <1>4, <1>9, Verbs
  <2>2. /\ FileName(line) = Empty /\ ByteCount(line) = Empty
        /\ Token(line, 4) = Empty /\ Type(line) = "HEALTH"
    BY <1>0, <1>2, <2>1
  <2>3. QED
    BY <2>2 DEF Accepted
<1>10. ASSUME PutLine(w)
       PROVE  (Accepted(line) \/ Throws(line)) /\ Type(line) = "PUT"
  <2>1. /\ Type(line) = "PUT" /\ ByteCount(line) \in Digits /\ Token(line, 4) = Empty
        /\ FileName(line) \in Words /\ FileName(line) \notin {"..", "a/b"}
    BY <1>2, <1>10 DEF PutLine, Verb, n
  <2>2. FileName(line) # Empty /\ ValidFileName(FileName(line))
    BY <1>2, <1>6, <2>1
  <2>3. QED
    BY <2>1, <2>2 DEF Accepted, Throws
<1>11. ASSUME Throws(line)
       PROVE  n >= 3 /\ PutLine(SubSeq(w, 1, 3)) /\ w[3] = Huge
  <2>1. "PUT" # Empty /\ Empty \notin Digits
    BY DEF Empty, Digits, Huge
  <2>2. n >= 3
    BY <1>2, <1>3, <1>11, <2>1 DEF Throws
  <2>3. QED
    <3>1. /\ w[1] \in Words /\ ToUpper[w[1]] = "PUT"
          /\ FileName(line) = w[2] /\ w[2] \in Words /\ ByteCount(line) = w[3]
      BY <1>2, <1>3, <1>11, <2>2 DEF Throws
    <3>2. w[2] \notin {"..", "a/b"} /\ w[3] \in Digits /\ w[3] = Huge
      BY <1>6, <1>11, <3>1 DEF Throws, Digits
    <3>3. LET u == SubSeq(w, 1, 3) IN
          Len(u) = 3 /\ u[1] = w[1] /\ u[2] = w[2] /\ u[3] = w[3]
      BY <1>5, <2>2
    <3>4. QED
      BY <2>2, <3>1, <3>2, <3>3 DEF PutLine, Verb
<1>12. QED
  BY <1>7, <1>8, <1>9, <1>10, <1>11, ParseReturns DEF w, n

-----------------------------------------------------------------------------
(* The invariant is inductive.                                             *)

LEMMA StreamsAreItems ==
  ASSUME NEW s \in Streams
  PROVE  s \in Seq(Words \cup {NL})
<1>1. PICK line \in Lines, rest \in Rests : s = line \o rest
  BY DEF Streams
<1>2. line \in Seq(Items)
  <2>1. PICK m \in 0 .. MaxWords : line \in [1 .. m -> Words]
    BY <1>1 DEF Lines, SeqOf
  <2>2. m \in Nat
    BY <2>1, IntakeAssumption DEF IntakeAssumption
  <2>3. line \in Seq(Words)
    BY <2>1, <2>2
  <2>4. QED
    BY <2>3 DEF Items
<1>3. rest \in Seq(Items)
  <2>1. CASE rest = <<>>
    BY <2>1
  <2>2. ASSUME NEW early \in SeqOf({"notes", NL}, MaxEarly), rest = <<NL>> \o early
        PROVE  rest \in Seq(Items)
    <3>1. PICK m \in 0 .. MaxEarly : early \in [1 .. m -> {"notes", NL}]
      BY <2>2 DEF SeqOf
    <3>2. m \in Nat
      BY <3>1, IntakeAssumption DEF IntakeAssumption
    <3>3. {"notes", NL} \subseteq Items /\ NL \in Items
      BY DEF Items, Words, Names
    <3>4. early \in Seq(Items) /\ <<NL>> \in Seq(Items)
      BY <3>1, <3>2, <3>3
    <3>5. QED
      BY <2>2, <3>4
  <2>3. QED
    BY <1>1, <2>1, <2>2 DEF Rests
<1>4. QED
  BY <1>1, <1>2, <1>3 DEF Items

LEMMA InitIntake == Init => IntakeInv
<1> SUFFICES ASSUME Init PROVE IntakeInv
  OBVIOUS
<1>1. stream \in Seq(Words \cup {NL}) /\ received = 0 /\ buffer = <<>>
      /\ pc = "receive" /\ header = <<>> /\ replies = <<>>
  BY StreamsAreItems DEF Init
<1>2. received \in 0 .. Len(stream)
  BY <1>1
<1>3. SubSeq(stream, 1, received) = <<>>
  BY <1>1, SubSeqEmpty
<1>4. Framed
  BY <1>1, <1>2, <1>3 DEF Framed
<1>5. Decided
  BY <1>1 DEF Decided
<1>6. QED
  BY <1>4, <1>5 DEF IntakeInv

\* What recv appends is the next piece of the stream.
LEMMA ReceiveFrames ==
  ASSUME Framed, Receive
  PROVE  Framed'
<1>1. /\ stream \in Seq(Items) /\ received \in 0 .. Len(stream)
      /\ buffer = SubSeq(stream, 1, received)
      /\ stream' = stream /\ pc = "receive" /\ header = <<>>
  BY DEF Framed, Receive, Items
<1>2. PICK n \in 0 .. BufSize :
        /\ received + n <= Len(stream) /\ received' = received + n
        /\ buffer' = buffer \o SubSeq(stream, received + 1, received + n)
  BY DEF Receive
<1>3. /\ n \in Nat /\ received \in Nat /\ Len(stream) \in Nat
      /\ received' \in 0 .. Len(stream)
  BY <1>1, <1>2, IntakeAssumption DEF IntakeAssumption
<1>4. buffer' = SubSeq(stream, 1, received')
  <2>1. 1 \in 1 .. Len(stream) + 1 /\ received \in 1 - 1 .. Len(stream)
        /\ received + n \in received .. Len(stream)
    BY <1>1, <1>2, <1>3
  <2>2. SubSeq(stream, 1, received) \o SubSeq(stream, received + 1, received + n)
          = SubSeq(stream, 1, received + n)
    BY <1>1, <2>1, ConcatAdjacentSubSeq
  <2>3. QED
    BY <1>1, <1>2, <2>2
<1>5. buffer' \in Seq(Items)
  <2>1. \A i \in 1 .. received' : stream[i] \in Items
    BY <1>1, <1>3
  <2>2. QED
    BY <1>1, <1>3, <1>4
<1>6. CASE Contains(buffer', NL)
  <2>1. header' = SubSeq(buffer', 1, Newline(buffer')) /\ extra' = AfterLine(buffer')
        /\ pc' = "parse"
    BY <1>6 DEF Receive
  <2>2. IsLine(header') /\ header' \o extra' = buffer'
    BY <1>5, <1>6, <2>1, LineCutOff
  <2>3. header' # <<>>
    BY <2>2 DEF IsLine
  <2>4. QED
    BY <1>1, <1>3, <1>4, <2>1, <2>2, <2>3 DEF Framed, Items
<1>7. CASE ~Contains(buffer', NL)
  <2>1. UNCHANGED <<header, pc>>
    BY <1>7 DEF Receive
  <2>2. \A i \in DOMAIN buffer' : buffer'[i] # NL
    BY <1>5, <1>7 DEF Contains
  <2>3. QED
    BY <1>1, <1>3, <1>4, <2>1, <2>2 DEF Framed, Items
<1>8. QED
  BY <1>6, <1>7

LEMMA NextFramed ==
  ASSUME Framed, [Next]_vars
  PROVE  Framed'
<1>1. CASE Receive
  BY <1>1, ReceiveFrames
<1>2. CASE ~Receive
  <2>1. UNCHANGED <<stream, received, buffer, header, extra>>
    BY <1>2 DEF Next, vars, ParserStep, ReceiveFails, Parse, Reject, AnswerHealth,
                Admit, SendAndClose, PeerLeaves, PeerTrickles
  <2>2. /\ pc' = "receive" => pc = "receive"
        /\ pc' \in {"parse", "health", "admit", "queued"} => header # <<>>
    BY <1>2 DEF Next, vars, ParserStep, ReceiveFails, Parse, Reject, AnswerHealth,
                Admit, SendAndClose, PeerLeaves, PeerTrickles, Framed
  <2>3. QED
    BY <2>1, <2>2 DEF Framed
<1>3. QED
  BY <1>1, <1>2

LEMMA NextDecided ==
  ASSUME Framed, Decided, [Next]_vars
  PROVE  Decided'
<1>1. CASE Receive
  <2>1. pc = "receive" /\ pc' \in {"receive", "parse"} /\ replies' = replies
    BY <1>1 DEF Receive
  <2>2. QED
    BY <2>1 DEF Decided
<1>2. CASE ReceiveFails
  <2>1. pc = "receive" /\ pc' = "reject" /\ UNCHANGED <<header, replies>>
        /\ header = <<>>
    BY <1>2 DEF ReceiveFails, Framed
  <2>2. QED
    BY <2>1 DEF Decided
<1>3. CASE Parse
  <2>1. /\ pc = "parse" /\ errorMessage' = ParseRequest(header)
        /\ UNCHANGED <<header, replies, peer>> /\ replies = <<>> /\ header # <<>>
    BY <1>3 DEF Parse, Decided, Framed
  <2>2. \/ errorMessage' = Thrown /\ pc' = "killed"
        \/ errorMessage' = Empty /\ Type(header) = "HEALTH" /\ pc' = "health"
        \/ errorMessage' = Empty /\ Type(header) # "HEALTH" /\ pc' = "admit"
        \/ errorMessage' \notin {Empty, Thrown} /\ pc' = "reject"
    BY <1>3 DEF Parse
  <2>3. CASE errorMessage' = Thrown /\ pc' = "killed"
    BY <2>1, <2>3 DEF Decided
  <2>4. CASE errorMessage' = Empty /\ Type(header) = "HEALTH" /\ pc' = "health"
    BY <2>1, <2>4 DEF Decided, Healthy
  <2>5. CASE errorMessage' = Empty /\ Type(header) # "HEALTH" /\ pc' = "admit"
    BY <2>1, <2>5 DEF Decided
  <2>6. CASE errorMessage' \notin {Empty, Thrown} /\ pc' = "reject"
    BY <2>1, <2>6 DEF Decided, Rejected
  <2>7. QED
    BY <2>2, <2>3, <2>4, <2>5, <2>6
<1>4. CASE Reject \/ AnswerHealth
  <2> DEFINE reply == IF pc = "health" THEN "OK" ELSE errorMessage
  <2>1. /\ pc \in {"reject", "health"} /\ replies = <<>>
        /\ pc = "reject" /\ header # <<>> => Rejected
        /\ pc = "health" => Healthy
    BY <1>4 DEF Reject, AnswerHealth, Decided
  <2>2. /\ UNCHANGED <<header, errorMessage, peer>>
        /\ \/ replies' = Append(replies, reply) /\ pc' = "closed"
           \/ peer = "gone" /\ pc' \in {"closed", "killed"} /\ replies' = replies
    BY <1>4, <2>1 DEF Reject, AnswerHealth, SendAndClose
  <2>3. header # <<>> /\ Rejected => ~Healthy
    <3>1. FileMissing # Empty
      BY DEF FileMissing, Empty
    <3>2. QED
      BY <3>1 DEF Rejected, Healthy
  <2>4. Append(<<>>, reply) = <<reply>>
    OBVIOUS
  <2>5. header # <<>> => reply = IF Healthy THEN "OK" ELSE errorMessage
    BY <2>1, <2>3
  <2> HIDE DEF reply
  <2>6. CASE replies' = Append(replies, reply) /\ pc' = "closed"
    <3>1. replies' = <<reply>>
      BY <2>1, <2>4, <2>6
    <3>2. (Rejected' <=> Rejected) /\ (Healthy' <=> Healthy)
      BY <2>2 DEF Rejected, Healthy
    <3>3. header' # <<>> =>
            /\ Rejected' \/ Healthy'
            /\ replies' = <<IF Healthy' THEN "OK" ELSE errorMessage'>>
      BY <2>1, <2>2, <2>5, <3>1, <3>2
    <3>4. QED
      BY <2>6, <3>3 DEF Decided
  <2>7. CASE peer = "gone" /\ pc' \in {"closed", "killed"} /\ replies' = replies
    <3>1. header' # <<>> => Rejected' \/ Healthy'
      BY <2>1, <2>2 DEF Rejected, Healthy
    <3>2. QED
      BY <2>1, <2>2, <2>7, <3>1 DEF Decided
  <2>8. QED
    BY <2>2, <2>6, <2>7
<1>5. CASE Admit
  <2>1. /\ pc = "admit" /\ replies = <<>> /\ UNCHANGED <<header, replies, peer>>
        /\ ParseRequest(header) = Empty /\ Type(header) # "HEALTH"
    BY <1>5 DEF Admit, Decided
  <2>2. PICK size \in IF Type(header) = "GET" THEN FileSizes \cup {NoFile} ELSE {7} :
          IF size = NoFile
          THEN errorMessage' = FileMissing /\ pc' = "reject" /\ UNCHANGED admitted
          ELSE /\ admitted' = [type |-> Type(header), fileName |-> FileName(header),
                               total |-> size]
               /\ pc' = "queued" /\ UNCHANGED errorMessage
    BY <1>5 DEF Admit, FileMissing
  <2>3. CASE size = NoFile
    <3>1. Type(header) = "GET"
      BY <2>2, <2>3 DEF NoFile
    <3>2. errorMessage' = FileMissing /\ pc' = "reject"
      BY <2>2, <2>3
    <3>3. QED
      BY <2>1, <3>1, <3>2 DEF Decided, Rejected
  <2>4. CASE size # NoFile
    <3>1. /\ admitted'.type = Type(header) /\ admitted'.fileName = FileName(header)
          /\ admitted'.total = size /\ pc' = "queued"
      BY <2>2, <2>4
    <3>2. Type(header) # "GET" => size = 7
      BY <2>2
    <3>3. QED
      BY <2>1, <3>1, <3>2 DEF Decided
  <2>5. QED
    BY <2>3, <2>4
<1>6. CASE PeerLeaves \/ PeerTrickles \/ UNCHANGED vars
  <2>1. UNCHANGED <<pc, header, errorMessage, replies, admitted>>
        /\ (peer = "gone" => peer' = "gone")
    BY <1>6 DEF PeerLeaves, PeerTrickles, vars
  <2>2. QED
    BY <2>1 DEF Decided, Rejected, Healthy
<1>7. QED
  BY <1>1, <1>2, <1>3, <1>4, <1>5, <1>6 DEF Next, ParserStep

LEMMA AlwaysIntake == Spec => []IntakeInv
<1>1. IntakeInv /\ [Next]_vars => IntakeInv'
  BY NextFramed, NextDecided DEF IntakeInv
<1>2. QED
  BY <1>1, InitIntake, PTL DEF Spec

-----------------------------------------------------------------------------
(* Theorems.                                                               *)

\* However recv cuts up the stream, the parser hands on a request whose line is
\* the first of the stream and whose extra is every byte that came after it.
THEOREM FramingIsExact == Spec => []FramingExact
<1>1. IntakeInv => FramingExact
  BY DEF IntakeInv, Framed, FramingExact, IsLine
<1>2. QED
  BY <1>1, AlwaysIntake, PTL

\* Whatever follows the line and however it arrives, exactly the lines GET name,
\* PUT name count and HEALTH are served, and every line gets one reply.
THEOREM DecisionIsRight == Spec => []DecisionRight
<1>1. ASSUME IntakeInv PROVE DecisionRight
  <2> DEFINE w == Front(header)
  <2>1. SUFFICES ASSUME Ended, header # <<>>, pc # "killed"
        PROVE  /\ pc = "queued" =>
                    /\ replies = <<>>
                    /\ \/ GetLine(w) /\ admitted.type = "GET"
                       \/ PutLine(w) /\ admitted.type = "PUT" /\ admitted.total = 7
                    /\ admitted.fileName = w[2]
               /\ pc = "closed" =>
                    /\ Len(replies) <= 1 /\ (peer = "there" => Len(replies) = 1)
                    /\ HealthLine(w) <=> errorMessage = Empty
                    /\ replies # <<>> => (replies = <<"OK">> <=> HealthLine(w))
                    /\ ~PutLine(w)
                    /\ GetLine(w) => errorMessage = FileMissing
    BY DEF DecisionRight, FileMissing
  <2>2. IsLine(header) /\ Decided
    BY <1>1, <2>1 DEF IntakeInv, Framed
  <2>3. /\ ParseRequest(header) = Empty =>
             /\ Type(header) \in {"GET", "PUT", "HEALTH"}
             /\ Type(header) = "GET" => GetLine(w)
             /\ Type(header) = "PUT" => PutLine(w)
             /\ Type(header) = "HEALTH" => HealthLine(w)
             /\ Type(header) # "HEALTH" => FileName(header) = w[2]
        /\ GetLine(w) => ParseRequest(header) = Empty /\ Type(header) = "GET"
        /\ PutLine(w) =>
             ParseRequest(header) \in {Empty, Thrown} /\ Type(header) = "PUT"
        /\ HealthLine(w) => ParseRequest(header) = Empty /\ Type(header) = "HEALTH"
    BY <2>2, Grammar
  <2> HIDE DEF w
  <2>4. ASSUME pc = "queued"
        PROVE  /\ replies = <<>>
               /\ \/ GetLine(w) /\ admitted.type = "GET"
                  \/ PutLine(w) /\ admitted.type = "PUT" /\ admitted.total = 7
               /\ admitted.fileName = w[2]
    <3>1. /\ ParseRequest(header) = Empty /\ Type(header) # "HEALTH"
          /\ admitted.type = Type(header) /\ admitted.fileName = FileName(header)
          /\ Type(header) # "GET" => admitted.total = 7
          /\ replies = <<>>
      BY <2>2, <2>4 DEF Decided
    <3>2. QED
      BY <2>3, <3>1
  <2>5. ASSUME pc = "closed"
        PROVE  /\ Len(replies) <= 1 /\ (peer = "there" => Len(replies) = 1)
               /\ HealthLine(w) <=> errorMessage = Empty
               /\ replies # <<>> => (replies = <<"OK">> <=> HealthLine(w))
               /\ ~PutLine(w)
               /\ GetLine(w) => errorMessage = FileMissing
    <3>1. /\ Rejected \/ Healthy
          /\ \/ replies = <<>> /\ peer = "gone"
             \/ replies = <<IF Healthy THEN "OK" ELSE errorMessage>>
      BY <2>1, <2>2, <2>5 DEF Decided
    <3>2. FileMissing # Empty /\ FileMissing # "OK"
      BY DEF FileMissing, Empty
    <3>3. Rejected => errorMessage \notin {Empty, "OK"}
      BY <3>2, ParseReturns DEF Rejected
    <3>4. Healthy <=> HealthLine(w)
      BY <2>3, <3>1, <3>2 DEF Healthy, Rejected
    <3>5. ~PutLine(w) /\ (GetLine(w) => errorMessage = FileMissing)
      BY <2>3, <3>1 DEF Healthy, Rejected
    <3>6. HealthLine(w) <=> errorMessage = Empty
      BY <3>1, <3>3, <3>4 DEF Healthy
    <3>7. replies # <<>> => (replies = <<"OK">> <=> HealthLine(w))
      BY <3>1, <3>3, <3>4
    <3>8. Len(replies) <= 1 /\ (peer = "there" => Len(replies) = 1)
      <4>1. CASE replies = <<>> /\ peer = "gone"
        BY <4>1
      <4>2. ASSUME NEW reply, replies = <<reply>> PROVE Len(replies) = 1
        BY <4>2
      <4>3. QED
        BY <3>1, <4>1, <4>2
    <3>9. QED
      BY <3>5, <3>6, <3>7, <3>8
  <2>6. QED
    BY <2>4, <2>5
<1>2. IntakeInv => DecisionRight
  BY <1>1
<1>3. QED
  BY <1>2, AlwaysIntake, PTL

\* Only a client that leaves while it is answered, and a well-formed PUT of more
\* bytes than 64 bits can count, end the process.
THEOREM ProcessOutlivesConnections == Spec => []ProcessSurvives
<1>1. ASSUME IntakeInv PROVE ProcessSurvives
  <2>1. SUFFICES ASSUME pc = "killed", peer # "gone"
                 PROVE  LET w == Front(header) IN
                        Len(w) >= 3 /\ PutLine(SubSeq(w, 1, 3)) /\ w[3] = Huge
    BY DEF ProcessSurvives
  <2>2. IsLine(header) /\ ParseRequest(header) = Thrown
    BY <1>1, <2>1 DEF IntakeInv, Framed, Decided
  <2>3. QED
    BY <2>2, Grammar
<1>2. IntakeInv => ProcessSurvives
  BY <1>1
<1>3. QED
  BY <1>2, AlwaysIntake, PTL
=============================================================================
