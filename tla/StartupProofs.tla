---------------------------- MODULE StartupProofs ----------------------------
(***************************************************************************)
(* Proofs about the start of build/server and build/client, for command    *)
(* lines of every length and configurations with any number of threads.    *)
(***************************************************************************)
EXTENDS Startup, SequenceTheorems, WellFoundedInduction, TLAPS

-----------------------------------------------------------------------------
(* The inductive invariant.                                                *)

AllFlags == ServerFlags \cup ClientFlags

StartTypes ==
  /\ program \in {"server", "client"}
  /\ argv \in Seq(Words) /\ given \in [AllFlags -> Words \cup {Absent}]
  /\ config \in Int /\ threads \in Nat /\ metricsFile \in BOOLEAN

\* Where the command line has flag, with a value behind it.
Places(flag) == {i \in DOMAIN argv : i % 2 = 1 /\ i < Len(argv) /\ argv[i] = flag}

\* Options come in pairs, behind the command and the path of a client; what was
\* noted of a flag is its last value, and numbers are positive.
OptionsRead ==
  /\ Len(argv) % 2 = 0
  /\ program = "client" => Len(argv) >= 2 /\ argv[1] \in Commands
  /\ \A flag \in AllFlags : given[flag] = LastValueOf(flag)
  /\ \A flag \in Numeric : \A i \in Places(flag) : argv[i + 1] \in PositiveInts

OptionsChecked ==
  IF program = "server" THEN ServerOptionsValid ELSE ClientOptionsValid

\* Behind which call each program is, and what it holds there.
Stages ==
  /\ pc \in {"socket", "listen", "threads", "report", "serving"} => program = "server"
  /\ pc \in {"command", "run", "loading"} => program = "client"
  /\ pc \in {"command", "options", "config", "socket", "run", "loading"} =>
       listener = "none"
  /\ pc \in {"listen", "threads", "report", "serving"} => listener = "open"
  /\ pc \notin {"threads", "report", "serving", "exited"} => threads = 0
  /\ pc = "loading" => threads = 0 /\ argv[1] = "load" /\ config > 0
  /\ pc = "threads" => threads <= ThreadsWanted
  /\ pc = "report" => threads < ThreadsWanted
  /\ pc = "serving" => threads = 1 + config
  /\ pc # "exited" => ~metricsFile
  /\ pc = "command" => \A flag \in AllFlags : given[flag] = Absent
  /\ listener = "open" => program = "server"

StartInv ==
  /\ StartTypes /\ Stages /\ FailsClean
  /\ pc \notin {"command", "exited"} => OptionsRead
  /\ pc \notin {"command", "options", "exited"} => OptionsChecked
  /\ listener = "open" => OptionsRead /\ OptionsChecked

-----------------------------------------------------------------------------
(* Operators.                                                              *)

\* A nonempty set of numbers up to n has the maximum that Max chooses.
LEMMA MaxExists ==
  ASSUME NEW n \in Nat, NEW S, S # {}, \A y \in S : y \in 1 .. n
  PROVE  Max(S) \in S /\ \A y \in S : y <= Max(S)
<1> DEFINE T == {n - y : y \in S}
<1>1. T \subseteq Nat /\ T # {}
  <2>1. \A y \in S : n - y \in Nat
    OBVIOUS
  <2>2. QED
    BY <2>1
<1>2. PICK t \in T : \A u \in T : ~ (<<u, t>> \in OpToRel(<, Nat))
  <2> HIDE DEF T
  <2>1. QED
    BY <1>1, NatLessThanWellFounded, WFMin
<1>3. \A u \in T : t <= u
  <2> HIDE DEF T
  <2>1. ASSUME NEW u \in T PROVE t <= u
    <3>1. <<u, t>> \in Nat \X Nat /\ <<u, t>>[1] = u /\ <<u, t>>[2] = t
      BY <1>1, <1>2
    <3>2. ~(u < t)
      BY <1>2, <2>1, <3>1 DEF OpToRel
    <3>3. QED
      BY <1>1, <3>2
  <2>2. QED
    BY <2>1
<1>4. PICK x \in S : t = n - x
  BY <1>2
<1>5. \A y \in S : y <= x
  <2>1. ASSUME NEW y \in S PROVE y <= x
    <3>1. n - x <= n - y
      BY <1>3, <1>4
    <3>2. QED
      BY <3>1
  <2>2. QED
    BY <2>1
<1>6. \E z \in S : \A y \in S : z >= y
  BY <1>5
<1>7. Max(S) \in S /\ \A y \in S : Max(S) >= y
  BY <1>6 DEF Max
<1>8. QED
  BY <1>7

\* A number above all of a set of numbers is the maximum once it is added.
LEMMA MaxAdded ==
  ASSUME NEW n \in Nat, NEW S, \A y \in S : y \in 1 .. n
  PROVE  Max(S \cup {n + 1}) = n + 1
<1> DEFINE T == S \cup {n + 1}
<1>1. Max(T) \in T /\ \A y \in T : y <= Max(T)
  <2>1. n + 1 \in Nat /\ T # {} /\ \A y \in T : y \in 1 .. n + 1
    OBVIOUS
  <2> HIDE DEF T
  <2>2. QED
    BY <2>1, MaxExists
<1>2. Max(T) \in 1 .. n + 1 /\ n + 1 <= Max(T)
  BY <1>1
<1>3. QED
  BY <1>2

\* The parser, and the workers unless their number is negative.
LEMMA ThreadCount ==
  ASSUME config \in Int
  PROVE  ThreadsWanted = IF config > 0 THEN 1 + config ELSE 1
<1> DEFINE m == IF config > 0 THEN config ELSE 0
<1>1. m \in {0, config} /\ \A y \in {0, config} : m >= y
  OBVIOUS
<1>2. \A x \in {0, config} : (\A y \in {0, config} : x >= y) => x = m
  BY <1>1
<1>3. Max({0, config}) = m
  <2> HIDE DEF m
  <2>1. QED
    BY <1>1, <1>2 DEF Max
<1>4. QED
  BY <1>3 DEF ThreadsWanted

-----------------------------------------------------------------------------
(* The command line.                                                       *)

LEMMA LastValue ==
  ASSUME NEW flag
  PROVE  LastValueOf(flag) =
           IF Places(flag) = {} THEN Absent ELSE argv[Max(Places(flag)) + 1]
BY DEF LastValueOf, Places

\* The value of a flag is a word, and a number where a number is asked for.
LEMMA ValueKnown ==
  ASSUME StartTypes, OptionsRead, NEW flag \in AllFlags
  PROVE  /\ Provided(flag) <=> ValuesOf(flag) # {}
         /\ flag \in Numeric => ValuesOf(flag) \subseteq PositiveInts
         /\ Provided(flag) => LastValueOf(flag) \in ValuesOf(flag)
<1>1. /\ argv \in Seq(Words) /\ Len(argv) \in Nat /\ DOMAIN argv = 1 .. Len(argv)
      /\ given[flag] = LastValueOf(flag)
  BY DEF StartTypes, OptionsRead
<1>2. Absent \notin Words
  BY DEF Absent, Words, ServerFlags, ClientFlags, Policies, Commands, PositiveInts
<1>3. \A k \in Places(flag) : k \in 1 .. Len(argv)
  BY <1>1 DEF Places
<1>4. ValuesOf(flag) = {argv[k + 1] : k \in Places(flag)}
  BY DEF ValuesOf, Places
<1>5. \A k \in Places(flag) : argv[k + 1] \in Words
  BY <1>1 DEF Places
<1>6. Places(flag) # {} => Max(Places(flag)) \in Places(flag)
  BY <1>1, <1>3, MaxExists
<1>7. Provided(flag) <=> Places(flag) # {}
  BY <1>1, <1>2, <1>5, <1>6, LastValue DEF Provided
<1>8. flag \in Numeric => ValuesOf(flag) \subseteq PositiveInts
  BY <1>4 DEF OptionsRead
<1>9. Provided(flag) => LastValueOf(flag) \in ValuesOf(flag)
  BY <1>4, <1>6, <1>7, LastValue
<1>10. QED
  BY <1>4, <1>7, <1>8, <1>9

\* Options are at odd places.
LEMMA OddAfterEven ==
  ASSUME NEW k \in Nat, k % 2 = 0
  PROVE  (k + 1) % 2 = 1 /\ (k + 2) % 2 = 0
<1>1. PICK q \in Int : k = 2 * q
  OBVIOUS
<1>2. k + 1 = 2 * q + 1
  BY <1>1
<1>3. QED
  BY <1>1, <1>2

\* A turn of the loop adds one place, with the value that is noted.
LEMMA OptionAdded ==
  ASSUME StartTypes, OptionsRead, program' = program,
         NEW flag \in AllFlags, NEW value \in Words,
         flag \in Numeric => value \in PositiveInts,
         argv' = argv \o <<flag, value>>,
         given' = [given EXCEPT ![flag] = value]
  PROVE  OptionsRead'
<1> DEFINE n == Len(argv)
<1>1. /\ argv \in Seq(Words) /\ n \in Nat /\ n % 2 = 0 /\ DOMAIN argv = 1 .. n
      /\ given \in [AllFlags -> Words \cup {Absent}]
  <2>1. argv \in Seq(Words) /\ given \in [AllFlags -> Words \cup {Absent}]
    BY DEF StartTypes
  <2>2. n % 2 = 0
    BY DEF OptionsRead
  <2>3. n \in Nat /\ DOMAIN argv = 1 .. n
    BY <2>1
  <2>4. QED
    BY <2>1, <2>2, <2>3
<1>2. /\ DOMAIN argv' = 1 .. n + 2 /\ Len(argv') = n + 2
      /\ \A i \in 1 .. n : argv'[i] = argv[i]
      /\ argv'[n + 1] = flag /\ argv'[n + 2] = value
  <2>1. flag \in Words
    BY DEF AllFlags, Words
  <2>2. <<flag, value>> \in Seq(Words) /\ Len(<<flag, value>>) = 2
        /\ <<flag, value>>[1] = flag /\ <<flag, value>>[2] = value
    BY <2>1
  <2>3. QED
    BY <1>1, <2>2, ConcatProperties
<1> HIDE DEF n
<1>3. ASSUME NEW f
      PROVE  /\ Places(f)' = Places(f) \cup (IF f = flag THEN {n + 1} ELSE {})
             /\ \A i \in Places(f) : i \in 1 .. n - 1
  <2>1. Places(f)' = {i \in 1 .. n + 2 : i % 2 = 1 /\ i < n + 2 /\ argv'[i] = f}
    BY <1>2 DEF Places
  <2>2. Places(f) = {i \in 1 .. n : i % 2 = 1 /\ i < n /\ argv[i] = f}
    BY <1>1 DEF Places, n
  <2>3. \A i \in 1 .. n + 2 : i % 2 = 1 => (i \in 1 .. n /\ i < n) \/ i = n + 1
    BY <1>1
  <2>4. /\ n + 1 \in 1 .. n + 2 /\ (n + 1) % 2 = 1 /\ n + 1 < n + 2
        /\ \A i \in 1 .. n : i \in 1 .. n + 2 /\ i < n + 2
    <3>1. (n + 1) % 2 = 1
      BY <1>1, OddAfterEven
    <3>2. n + 1 \in 1 .. n + 2 /\ n + 1 < n + 2
      BY <1>1
    <3>3. \A i \in 1 .. n : i \in 1 .. n + 2 /\ i < n + 2
      BY <1>1
    <3>4. QED
      BY <3>1, <3>2, <3>3
  <2>5. Places(f)' \subseteq Places(f) \cup (IF f = flag THEN {n + 1} ELSE {})
    BY <1>2, <2>1, <2>2, <2>3
  <2>6. Places(f) \cup (IF f = flag THEN {n + 1} ELSE {}) \subseteq Places(f)'
    BY <1>2, <2>1, <2>2, <2>4
  <2>7. \A i \in Places(f) : i \in 1 .. n - 1
    BY <1>1, <2>2
  <2>8. QED
    BY <2>5, <2>6, <2>7
<1>4. ASSUME NEW f \in AllFlags
      PROVE  given'[f] = LastValueOf(f)'
  <2>1. LastValueOf(f)' =
          IF Places(f)' = {} THEN Absent ELSE argv'[Max(Places(f)') + 1]
    BY DEF LastValueOf, Places
  <2>2. CASE f = flag
    <3>1. (\A i \in Places(f) : i \in 1 .. n) /\ Places(f)' = Places(f) \cup {n + 1}
      <4>1. \A i \in 1 .. n - 1 : i \in 1 .. n
        BY <1>1
      <4>2. QED
        BY <1>3, <2>2, <4>1
    <3>2. Max(Places(f)') = n + 1
      BY <1>1, <3>1, MaxAdded
    <3>3. LastValueOf(f)' = argv'[n + 1 + 1]
      BY <2>1, <3>1, <3>2
    <3>4. given'[f] = value
      BY <1>1, <2>2
    <3>5. QED
      BY <1>1, <1>2, <3>3, <3>4
  <2>3. CASE f # flag
    <3>1. Places(f)' = Places(f) /\ \A i \in Places(f) : i \in 1 .. n - 1
      BY <1>3, <2>3
    <3>2. given'[f] = LastValueOf(f)
      BY <1>1, <2>3 DEF OptionsRead
    <3>3. Places(f) # {} => Max(Places(f)) \in 1 .. n - 1
      <4>1. \A i \in Places(f) : i \in 1 .. n
        BY <1>1, <3>1
      <4>2. QED
        BY <1>1, <3>1, <4>1, MaxExists
    <3>4. Places(f) # {} =>
            argv'[Max(Places(f)) + 1] = argv[Max(Places(f)) + 1]
      BY <1>1, <1>2, <3>3
    <3>5. QED
      BY <2>1, <3>1, <3>2, <3>4, LastValue
  <2>4. QED
    BY <2>2, <2>3
<1>5. ASSUME NEW f \in Numeric, NEW i \in Places(f)'
      PROVE  argv'[i + 1] \in PositiveInts
  <2>1. CASE i \in Places(f)
    <3>1. i \in 1 .. n - 1
      BY <1>3, <2>1
    <3>2. i \in 1 .. n /\ i + 1 \in 1 .. n
      BY <1>1, <3>1
    <3>3. QED
      BY <1>2, <2>1, <3>2 DEF OptionsRead
  <2>2. CASE f = flag /\ i = n + 1
    BY <1>1, <1>2, <2>2
  <2>3. QED
    BY <1>3, <1>5, <2>1, <2>2
<1>6. Len(argv') % 2 = 0
  BY <1>1, <1>2
<1>7. program' = "client" => Len(argv') >= 2 /\ argv'[1] \in Commands
  <2>1. n >= 2 => 1 \in 1 .. n /\ n + 2 >= 2
    BY <1>1
  <2>2. QED
    BY <1>2, <2>1 DEF OptionsRead, n
<1>8. QED
  BY <1>4, <1>5, <1>6, <1>7 DEF OptionsRead


-----------------------------------------------------------------------------
(* Every action keeps the invariant.                                       *)

LEMMA CommandLineKept ==
  ASSUME UNCHANGED <<program, argv, given>>
  PROVE  OptionsRead' = OptionsRead /\ OptionsChecked' = OptionsChecked
<1>1. /\ OptionsRead' = OptionsRead
      /\ ServerOptionsValid' = ServerOptionsValid
      /\ ClientOptionsValid' = ClientOptionsValid
  BY DEF OptionsRead, LastValueOf, Places, ServerOptionsValid, ClientOptionsValid, Provided
<1>2. QED
  BY <1>1 DEF OptionsChecked

\* A command line without options: what is noted of every flag is that it is absent.
WithoutOptions ==
  /\ \A flag \in AllFlags : given[flag] = Absent
  /\ \/ argv = <<>> /\ program = "server"
     \/ \E command \in Commands, path \in Words : argv = <<command, path>>

LEMMA NothingRead == WithoutOptions => OptionsRead
<1> SUFFICES ASSUME WithoutOptions PROVE OptionsRead
  OBVIOUS
<1> USE DEF WithoutOptions
<1>1. \A flag \in AllFlags : Places(flag) = {}
  <2>1. CASE argv = <<>>
    BY <2>1 DEF Places
  <2>2. CASE \E command \in Commands, path \in Words : argv = <<command, path>>
    <3>1. PICK command \in Commands, path \in Words : argv = <<command, path>>
      BY <2>2
    <3>2. command \notin AllFlags
      BY DEF Commands, AllFlags, ServerFlags, ClientFlags
    <3>3. \A i \in DOMAIN argv : i < Len(argv) => argv[i] = command
      BY <3>1
    <3>4. QED
      BY <3>2, <3>3 DEF Places
  <2>3. QED
    BY <2>1, <2>2
<1>2. \A flag \in AllFlags : given[flag] = LastValueOf(flag)
  BY <1>1, LastValue
<1>3. Numeric \subseteq AllFlags
  BY DEF Numeric, AllFlags, ServerFlags, ClientFlags
<1>4. Len(argv) % 2 = 0
  <2>1. Len(argv) = 0 \/ Len(argv) = 2
    OBVIOUS
  <2>2. 0 % 2 = 0 /\ 2 % 2 = 0
    OBVIOUS
  <2>3. QED
    BY <2>1, <2>2
<1>5. program = "client" => Len(argv) >= 2 /\ argv[1] \in Commands
  OBVIOUS
<1>6. QED
  BY <1>1, <1>2, <1>3, <1>4, <1>5 DEF OptionsRead

LEMMA InitStart == Init => StartInv
<1> SUFFICES ASSUME Init PROVE StartInv
  OBVIOUS
<1>1. StartTypes
  <2>1. given \in [AllFlags -> Words \cup {Absent}]
    BY DEF Init, AllFlags
  <2>2. argv \in Seq(Words)
    BY DEF Init
  <2>3. program \in {"server", "client"} /\ config \in Int /\ threads \in Nat
    BY DEF Init
  <2>4. metricsFile \in BOOLEAN
    BY DEF Init
  <2>5. QED
    BY <2>1, <2>2, <2>3, <2>4 DEF StartTypes
<1>2. Stages
  BY DEF Init, Stages, AllFlags
<1>3. pc # "command" => OptionsRead
  <2>1. \A flag \in AllFlags : given[flag] = Absent
    BY DEF Init, AllFlags
  <2>2. pc # "command" => argv = <<>> /\ program = "server"
    BY DEF Init
  <2>3. QED
    BY <2>1, <2>2, NothingRead DEF WithoutOptions
<1>4. /\ pc \in {"command", "options"} /\ listener = "none"
      /\ FailsClean
  BY DEF Init, FailsClean
<1>5. QED
  BY <1>1, <1>2, <1>3, <1>4 DEF StartInv

\* A step of an action after the command line keeps what the invariant says of it.
LEMMA LaterStep ==
  ASSUME StartInv, UNCHANGED <<program, argv, given>>,
         pc \notin {"command", "options", "exited"},
         StartTypes', Stages', FailsClean'
  PROVE  StartInv'
<1>1. OptionsRead /\ OptionsChecked
  BY DEF StartInv
<1>2. OptionsRead' /\ OptionsChecked'
  BY <1>1, CommandLineKept
<1>3. QED
  BY <1>2 DEF StartInv

LEMMA NextStart == StartInv /\ [Next]_vars => StartInv'
<1> SUFFICES ASSUME StartInv, [Next]_vars PROVE StartInv'
  OBVIOUS
<1>1. StartTypes /\ Stages /\ FailsClean
  BY DEF StartInv
<1>2. config' = config => ThreadsWanted' = ThreadsWanted
  BY DEF ThreadsWanted
<1>3. Running # 0 /\ Running # 1 /\ Running # Terminated
      /\ Terminated # 0 /\ Terminated # 1 /\ Terminated \in Int
  BY DEF Running, Terminated
<1>4. CASE ReadCommand
  <2>1. StartTypes'
    <3>1. argv' \in Seq(Words)
      <4>1. \/ argv' = <<>>
            \/ \E command \in Words : argv' = <<command>>
            \/ \E command, path \in Words : argv' = <<command, path>>
        BY <1>4 DEF ReadCommand
      <4>2. /\ <<>> \in Seq(Words) /\ \A command \in Words : <<command>> \in Seq(Words)
            /\ \A command, path \in Words : <<command, path>> \in Seq(Words)
        OBVIOUS
      <4>3. QED
        BY <4>1, <4>2
    <3>2. UNCHANGED <<program, given, config, threads, metricsFile>>
      BY <1>4 DEF ReadCommand
    <3>3. QED
      BY <1>1, <3>1, <3>2 DEF StartTypes
  <2>2. /\ pc = "command" /\ pc' \in {"options", "exited"}
        /\ UNCHANGED <<program, given, config, listener, threads, metricsFile>>
        /\ pc' = "exited" => exitCode' = 1
    BY <1>4 DEF ReadCommand, Exits, Goes
  <2>3. Stages' /\ FailsClean'
    BY <1>1, <1>3, <2>2 DEF Stages, FailsClean
  <2>4. pc' = "options" => OptionsRead'
    <3>1. pc' = "options" =>
            \E command \in Commands, path \in Words : argv' = <<command, path>>
      BY <1>4 DEF ReadCommand, Exits, Goes
    <3>2. \A flag \in AllFlags : given'[flag] = Absent
      BY <1>1, <2>2 DEF Stages
    <3>3. pc' = "options" => WithoutOptions'
      BY <3>1, <3>2 DEF WithoutOptions
    <3>4. (WithoutOptions => OptionsRead)'
      BY NothingRead, PTL
    <3>5. QED
      BY <3>3, <3>4
  <2>5. listener' # "open"
    BY <1>1, <2>2 DEF Stages
  <2>6. QED
    BY <2>1, <2>2, <2>3, <2>4, <2>5 DEF StartInv
<1>5. CASE ReadOption
  <2>1. /\ pc = "options" /\ pc' \in {"options", "exited"}
        /\ UNCHANGED <<program, config, listener, threads, metricsFile>>
        /\ pc' = "exited" => exitCode' = 1
    BY <1>5 DEF ReadOption, Exits, Goes
  <2>2. Stages' /\ FailsClean'
    BY <1>1, <1>3, <2>1 DEF Stages, FailsClean
  <2>3. listener' # "open" /\ OptionsRead
    BY <1>1, <2>1 DEF Stages, StartInv
  <2>4. CASE \E word \in Words : argv' = Append(argv, word) /\ Exits(1) /\ UNCHANGED given
    <3>1. StartTypes'
      BY <1>1, <2>1, <2>4 DEF StartTypes
    <3>2. pc' = "exited"
      BY <2>4 DEF Exits
    <3>3. QED
      BY <2>2, <2>3, <3>1, <3>2 DEF StartInv
  <2>5. CASE \E flag \in Flags, value \in Words :
               /\ argv' = argv \o <<flag, value>>
               /\ IF flag \in Numeric /\ value \notin PositiveInts
                  THEN Exits(1) /\ UNCHANGED given
                  ELSE given' = WithValue(flag, value) /\ Goes("options")
    <3>1. PICK flag \in Flags, value \in Words :
               /\ argv' = argv \o <<flag, value>>
               /\ IF flag \in Numeric /\ value \notin PositiveInts
                  THEN Exits(1) /\ UNCHANGED given
                  ELSE given' = WithValue(flag, value) /\ Goes("options")
      BY <2>5
    <3>2. flag \in AllFlags /\ flag \in Words
      BY DEF Flags, AllFlags, Words
    <3>3. argv' \in Seq(Words)
      <4>1. <<flag, value>> \in Seq(Words) /\ argv \in Seq(Words)
        BY <1>1, <3>2 DEF StartTypes
      <4>2. QED
        BY <3>1, <4>1, ConcatProperties
    <3>4. given' = given \/ given' = [given EXCEPT ![flag] = value]
      BY <3>1 DEF WithValue
    <3>5. given' \in [AllFlags -> Words \cup {Absent}]
      BY <1>1, <3>2, <3>4 DEF StartTypes
    <3>6. StartTypes'
      BY <1>1, <2>1, <3>3, <3>5 DEF StartTypes
    <3>7. pc' = "options" => OptionsRead'
      <4>1. pc' = "options" =>
              /\ flag \in Numeric => value \in PositiveInts
              /\ given' = [given EXCEPT ![flag] = value]
        BY <3>1 DEF WithValue, Exits
      <4>2. QED
        BY <1>1, <2>1, <2>3, <3>1, <3>2, <4>1, OptionAdded
    <3>8. QED
      BY <2>1, <2>2, <2>3, <3>6, <3>7 DEF StartInv
  <2>6. QED
    BY <1>5, <2>4, <2>5 DEF ReadOption
<1>6. CASE CheckOptions
  <2>1. /\ pc = "options" /\ pc' \in {"config", "exited"}
        /\ UNCHANGED <<program, argv, given, config, listener, threads, metricsFile>>
        /\ pc' = "exited" => exitCode' = 1
        /\ pc' = "config" => OptionsChecked
    BY <1>6 DEF CheckOptions, Exits, Goes, OptionsChecked
  <2>2. StartTypes' /\ Stages' /\ FailsClean'
    BY <1>1, <1>3, <2>1 DEF StartTypes, Stages, FailsClean
  <2>3. listener' # "open"
    BY <1>1, <2>1 DEF Stages
  <2>4. OptionsRead'
    BY <2>1, CommandLineKept DEF StartInv
  <2>5. pc' = "config" => OptionsChecked'
    BY <2>1, CommandLineKept
  <2>6. QED
    BY <2>1, <2>2, <2>3, <2>4, <2>5 DEF StartInv
<1>7. CASE LoadConfig
  <2>1. /\ pc = "config" /\ UNCHANGED <<program, argv, given, listener, threads, metricsFile>>
        /\ pc' \in {"socket", "run", "exited"}
        /\ pc' = "socket" => program = "server"
        /\ pc' = "run" => program # "server"
        /\ pc' = "exited" =>
             exitCode' = 1 \/ (exitCode' = Terminated /\ program = "server")
    BY <1>7 DEF LoadConfig, Exits, Goes
  <2>2. config' \in Int
    <3>1. MaxThreads \in Nat
      BY StartupAssumption
    <3>2. config' = config \/ config' \in -1 .. MaxThreads
      BY <1>7 DEF LoadConfig
    <3>3. QED
      BY <1>1, <3>1, <3>2 DEF StartTypes
  <2>3. StartTypes'
    BY <1>1, <2>1, <2>2 DEF StartTypes
  <2>4. program \in {"server", "client"} /\ threads = 0 /\ ~metricsFile /\ listener = "none"
    BY <1>1, <2>1 DEF StartTypes, Stages
  <2>5. Stages'
    BY <2>1, <2>4 DEF Stages
  <2>6. FailsClean'
    BY <1>3, <2>1, <2>4 DEF FailsClean
  <2>7. QED
    BY <2>1, <2>3, <2>5, <2>6, LaterStep
<1>8. CASE CreateSocket
  <2>1. /\ pc = "socket" /\ UNCHANGED <<program, argv, given, config, threads, metricsFile>>
        /\ \/ listener' = "open" /\ pc' = "listen"
           \/ listener' = listener /\ pc' = "exited" /\ exitCode' = 1
    BY <1>8 DEF CreateSocket, Exits, Goes
  <2>2. StartTypes' /\ Stages' /\ FailsClean'
    BY <1>1, <1>3, <2>1 DEF StartTypes, Stages, FailsClean
  <2>3. QED
    BY <2>1, <2>2, LaterStep
<1>9. CASE Listen
  <2>1. /\ pc = "listen" /\ UNCHANGED <<program, argv, given, config, threads, metricsFile>>
        /\ \/ listener' = listener /\ pc' = "threads"
           \/ listener' = "closed" /\ pc' = "exited" /\ exitCode' = 1
    BY <1>9 DEF Listen, Exits, Goes
  <2>2. threads = 0 /\ 0 <= ThreadsWanted
    BY <1>1, <2>1, ThreadCount DEF StartTypes, Stages
  <2>3. StartTypes' /\ Stages' /\ FailsClean'
    BY <1>1, <1>2, <1>3, <2>1, <2>2 DEF StartTypes, Stages, FailsClean
  <2>4. QED
    BY <2>1, <2>3, LaterStep
<1>10. CASE CreateThread
  <2>1. /\ pc = "threads" /\ threads < ThreadsWanted
        /\ UNCHANGED <<program, argv, given, config, listener, metricsFile>>
        /\ \/ threads' = threads + 1 /\ pc' = "threads"
           \/ threads' = threads /\ pc' = "report"
    BY <1>10 DEF CreateThread, Goes
  <2>2. ThreadsWanted \in Int
    BY <1>1, ThreadCount DEF StartTypes
  <2>3. StartTypes' /\ Stages' /\ FailsClean'
    BY <1>1, <1>2, <1>3, <2>1, <2>2 DEF StartTypes, Stages, FailsClean
  <2>4. QED
    BY <2>1, <2>3, LaterStep
<1>11. CASE NegativeWorkers
  <2>1. /\ pc = "threads" /\ config < 0 /\ pc' = "exited" /\ exitCode' = Terminated
        /\ UNCHANGED <<program, argv, given, config, listener, threads, metricsFile>>
    BY <1>11 DEF NegativeWorkers, Exits
  <2>2. StartTypes' /\ Stages' /\ FailsClean'
    BY <1>1, <1>3, <2>1 DEF StartTypes, Stages, FailsClean
  <2>3. QED
    BY <2>1, <2>2, LaterStep
<1>12. CASE StartServing
  <2>1. /\ pc = "threads" /\ threads = ThreadsWanted /\ config >= 0 /\ pc' = "serving"
        /\ UNCHANGED <<program, argv, given, config, listener, threads, metricsFile>>
    BY <1>12 DEF StartServing, Goes
  <2>2. threads = 1 + config
    BY <1>1, <2>1, ThreadCount DEF StartTypes
  <2>3. StartTypes' /\ Stages' /\ FailsClean'
    BY <1>1, <1>3, <2>1, <2>2 DEF StartTypes, Stages, FailsClean
  <2>4. QED
    BY <2>1, <2>3, LaterStep
<1>13. CASE ReportWithoutServing
  <2>1. /\ pc = "report" /\ listener' = "closed" /\ pc' = "exited" /\ exitCode' = 0
        /\ metricsFile' \in BOOLEAN /\ UNCHANGED <<program, argv, given, config, threads>>
    BY <1>13 DEF ReportWithoutServing, Exits
  <2>2. StartTypes' /\ Stages' /\ FailsClean'
    BY <1>1, <1>2, <1>3, <2>1 DEF StartTypes, Stages, FailsClean
  <2>3. QED
    BY <2>1, <2>2, LaterStep
<1>14. CASE RunCommand
  <2>1. /\ pc = "run"
        /\ UNCHANGED <<program, argv, given, config, listener, threads, metricsFile>>
        /\ \/ pc' = "exited" /\ exitCode' \in {0, 1}
           \/ pc' = "loading" /\ argv[1] = "load" /\ config > 0
    BY <1>14 DEF RunCommand, Exits, Goes
  <2>2. program = "client" /\ threads = 0 /\ ~metricsFile /\ listener = "none"
    BY <1>1, <2>1 DEF Stages
  <2>3. StartTypes' /\ Stages' /\ FailsClean'
    BY <1>1, <1>3, <2>1, <2>2 DEF StartTypes, Stages, FailsClean
  <2>4. QED
    BY <2>1, <2>3, LaterStep
<1>15. CASE UNCHANGED vars
  <2>1. UNCHANGED <<program, argv, given, config, pc, exitCode, listener, threads,
                    metricsFile>>
    BY <1>15 DEF vars
  <2>2. OptionsRead' = OptionsRead /\ OptionsChecked' = OptionsChecked
    BY <2>1, CommandLineKept
  <2>3. StartTypes' /\ Stages' /\ FailsClean'
    BY <1>1, <1>2, <2>1 DEF StartTypes, Stages, FailsClean
  <2>4. QED
    BY <2>1, <2>2, <2>3 DEF StartInv
<1>16. QED
  BY <1>4, <1>5, <1>6, <1>7, <1>8, <1>9, <1>10, <1>11, <1>12, <1>13, <1>14, <1>15
     DEF Next

LEMMA AlwaysStart == Spec => []StartInv
<1>1. QED
  BY InitStart, NextStart, PTL DEF Spec


-----------------------------------------------------------------------------
(* What the invariant gives.                                               *)

LEMMA Asked == StartInv => RunsAsAsked
<1> SUFFICES ASSUME StartInv PROVE RunsAsAsked
  OBVIOUS
<1>1. StartTypes /\ Stages
  BY DEF StartInv
<1>2. {"--sched", "--file", "--quantum", "--p"} \subseteq AllFlags
      /\ "--requests" \in AllFlags /\ {"--quantum", "--p", "--requests"} = Numeric
  BY DEF AllFlags, ServerFlags, ClientFlags, Numeric
<1>3. Absent \notin Policies
  BY DEF Absent, Policies
<1>4. ASSUME NEW flag \in Flags, pc \notin {"command", "options", "exited"}
      PROVE  given[flag] = LastValueOf(flag)
  <2>1. flag \in AllFlags
    BY DEF Flags, AllFlags
  <2>2. QED
    BY <1>4, <2>1 DEF StartInv, OptionsRead
<1>5. ASSUME listener = "open"
      PROVE  /\ LastValueOf("--sched") \in Policies /\ ValuesOf("--file") # {}
             /\ ValuesOf("--quantum") \cup ValuesOf("--p") \subseteq PositiveInts
             /\ LastValueOf("--sched") = "rr" <=> ValuesOf("--quantum") # {}
  <2>1. OptionsRead /\ ServerOptionsValid
    BY <1>1, <1>5 DEF StartInv, Stages, OptionsChecked
  <2>2. given["--sched"] = LastValueOf("--sched")
    BY <1>2, <2>1 DEF OptionsRead
  <2>3. /\ ValuesOf("--file") # {} <=> Provided("--file")
        /\ ValuesOf("--quantum") # {} <=> Provided("--quantum")
    BY <1>1, <1>2, <2>1, ValueKnown
  <2>4. ValuesOf("--quantum") \subseteq PositiveInts /\ ValuesOf("--p") \subseteq PositiveInts
    BY <1>1, <1>2, <2>1, ValueKnown
  <2>5. /\ given["--sched"] \in Policies /\ Provided("--file")
        /\ given["--sched"] = "rr" <=> Provided("--quantum")
    BY <2>1 DEF ServerOptionsValid
  <2>6. QED
    BY <2>2, <2>3, <2>4, <2>5
<1>6. ASSUME pc = "serving"
      PROVE  listener = "open" /\ threads = 1 + config
  BY <1>1, <1>6 DEF Stages
<1>7. ASSUME pc = "loading"
      PROVE  argv[1] = "load" /\ LastValueOf("--requests") \in PositiveInts /\ config > 0
  <2>1. program # "server" /\ argv[1] = "load" /\ config > 0
    BY <1>1, <1>7 DEF Stages
  <2>2. OptionsRead /\ ClientOptionsValid
    BY <1>7, <2>1 DEF StartInv, OptionsChecked
  <2>3. Provided("--requests")
    BY <2>1, <2>2 DEF ClientOptionsValid
  <2>4. LastValueOf("--requests") \in PositiveInts
    <3>1. /\ LastValueOf("--requests") \in ValuesOf("--requests")
          /\ ValuesOf("--requests") \subseteq PositiveInts
      BY <1>1, <1>2, <2>2, <2>3, ValueKnown
    <3>2. QED
      BY <3>1
  <2>5. QED
    BY <2>1, <2>4
<1>8. QED
  BY <1>4, <1>5, <1>6, <1>7 DEF RunsAsAsked

\* A server listens, and a client starts a load, only with a command line that
\* src/cli.cpp accepts, with the last value of every flag; the accept loop has the
\* parser and all the workers of the configuration, and a load some threads.
THEOREM StartsAsAsked == Spec => []RunsAsAsked
<1>1. QED
  BY AlwaysStart, Asked, PTL

\* Whatever a start fails at, it leaves no thread, open socket or metrics file
\* behind with exit code 1, exits with 0 without having served only if a thread
\* could not be created, and is terminated only for its configuration.
THEOREM FailedStartsAreClean == Spec => []FailsClean
<1>1. StartInv => FailsClean
  BY DEF StartInv
<1>2. QED
  BY AlwaysStart, <1>1, PTL
=============================================================================
