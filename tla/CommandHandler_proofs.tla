----------------------- MODULE CommandHandler_proofs -----------------------
(***************************************************************************)
(* Proofs about CommandHandler, for any width of int, any lines, and any   *)
(* bounds on what the host types.                                          *)
(***************************************************************************)
EXTENDS CommandHandler, TLAPS, SequenceTheorems

-----------------------------------------------------------------------------
(* Numbers. *)

\* A number that fits is kept, any other becomes one that fits.
LEMMA ToIntFits ==
  ASSUME NEW x \in Int
  PROVE  InInt(ToInt(x)) /\ (InInt(x) => ToInt(x) = x)
<1>1. MaxInt \in Nat
  BY ConsoleAssumption
<1> DEFINE n == 2 * (MaxInt + 1)
<1>2. n \in Nat \ {0}
  BY <1>1
<1>3. \A y \in Int : y % n \in 0 .. n - 1 /\ (y \in 0 .. n - 1 => y % n = y)
  BY <1>2, SMT
<1> HIDE DEF n
<1>4. n = 2 * (MaxInt + 1)
  BY DEF n
<1>5. ToInt(x) = ((x - MinInt) % n) + MinInt
  BY DEF ToInt, n
<1>6. PICK y \in Int : y = x - MinInt
  BY <1>1 DEF MinInt
<1>7. ToInt(x) \in MinInt .. MaxInt
  <2>1. y % n \in 0 .. n - 1
    BY <1>3, <1>6
  <2> QED
    BY <1>1, <1>4, <1>5, <1>6, <2>1 DEF MinInt
<1>8. ASSUME InInt(x) PROVE ToInt(x) = x
  <2>1. y \in 0 .. n - 1
    BY <1>1, <1>4, <1>6, <1>8 DEF InInt, MinInt
  <2>2. y % n = y
    BY <1>3, <2>1
  <2> QED
    BY <1>1, <1>5, <1>6, <2>2 DEF MinInt
<1> QED
  BY <1>7, <1>8 DEF InInt

-----------------------------------------------------------------------------
(* Types and tokens. *)

Token ==
  [type : {"temp"}, asked : Int, made : Int, stamp : Int] \cup [type : {"perm", "sess"}]

\* Only the prompt leaves a piece in the terminal.
TypeInv ==
  /\ TypeOK
  /\ console = "poll" => pushed = 0
  /\ tokens \in Seq(Token)

LEMMA KeyFacts ==
  /\ Bang \in Key /\ Bang.nr = 0
  /\ \A key \in Key : IsLine(key) <=> key.nr \in 1 .. MaxLines /\ key.nr # 0
  /\ \A key \in Key : IsLine(key) => key.command \in Command
BY ConsoleAssumption DEF Key, Bang, IsLine

\* What a command makes of the tokens and of the process.
LEMMA DispatchKeeps ==
  ASSUME TypeInv, StampsAreOwn, NEW c \in Command, Dispatch(c)
  PROVE  /\ process' \in {"running", "exited", "command_exception", "fault"}
         /\ parts' \in BOOLEAN
         /\ InInt(token_time')
         /\ tokens' \in Seq(Token)
         /\ StampsAreOwn'
<1>1. InInt(token_time) /\ parts \in BOOLEAN /\ tokens \in Seq(Token) /\ now \in Int
      /\ process \in {"running", "exited", "command_exception", "fault"}
  BY DEF TypeInv, TypeOK
<1>2. parts' \in BOOLEAN
  BY <1>1 DEF Dispatch
<1>3. CASE UNCHANGED tokenVars
  <2>1. process' \in {"running", "exited", "command_exception", "fault"}
    BY <1>1, <1>3 DEF Dispatch, create_token, BlankOperand
  <2> QED
    BY <1>1, <1>2, <1>3, <2>1 DEF tokenVars, StampsAreOwn
<1>4. ASSUME NEW t \in Token, tokens' = Append(tokens, t), InInt(token_time'),
             t.type = "temp" /\ InInt(t.asked) /\ InInt(t.made + t.asked)
               => t.stamp = t.made + t.asked,
             UNCHANGED process
      PROVE  tokens' \in Seq(Token) /\ StampsAreOwn'
  <2>1. /\ tokens' \in Seq(Token)
        /\ DOMAIN tokens' = 1 .. (Len(tokens) + 1) /\ DOMAIN tokens = 1 .. Len(tokens)
        /\ \A i \in 1 .. Len(tokens) : tokens'[i] = tokens[i]
        /\ tokens'[Len(tokens) + 1] = t
        /\ Len(tokens) \in Nat
    BY <1>1, <1>4
  <2> QED
    BY <1>4, <2>1 DEF StampsAreOwn
<1>5. CASE c.op = "create" /\ c.type \in {"perm", "sess"} /\ generate(c, 0)
           /\ UNCHANGED <<process, token_time>>
  <2>1. tokens' = Append(tokens, [type |-> c.type])
    BY <1>5 DEF generate
  <2>2. [type |-> c.type] \in Token /\ [type |-> c.type].type # "temp"
    BY <1>5 DEF Token
  <2> QED
    BY <1>1, <1>2, <1>4, <1>5, <2>1, <2>2
<1>6. CASE /\ c.op = "create" /\ c.type = "temp"
           /\ set_time_token(c) /\ generate(c, token_time') /\ UNCHANGED process
  <2> DEFINE asked == c.value * SecondsOf(c.unit)
             t == [type |-> "temp", asked |-> asked, made |-> now,
                   stamp |-> ToInt(now + ToInt(asked))]
  <2>1. c.value \in Int /\ c.unit \in {"-minute", "-hour", "-day"}
    BY <1>6 DEF Command, set_time_token
  <2>2. SecondsOf(c.unit) \in Int
    BY <2>1 DEF SecondsOf
  <2>3. asked \in Int
    BY <2>1, <2>2
  <2>4. token_time' = ToInt(asked) /\ tokens' = Append(tokens, t)
    BY <1>6 DEF set_time_token, generate
  <2> HIDE DEF asked
  <2>5. InInt(ToInt(asked)) /\ ToInt(asked) \in Int
    BY <2>3, ToIntFits, ConsoleAssumption DEF InInt, MinInt
  <2>6. now + ToInt(asked) \in Int
    BY <1>1, <2>5
  <2>7. ToInt(now + ToInt(asked)) \in Int
    BY <2>6, ToIntFits, ConsoleAssumption DEF InInt, MinInt
  <2>8. t \in Token
    BY <1>1, <2>3, <2>7 DEF Token
  <2>9. InInt(asked) /\ InInt(now + asked) => ToInt(now + ToInt(asked)) = now + asked
    BY <1>1, <2>3, ToIntFits
  <2> QED
    BY <1>1, <1>2, <1>4, <1>6, <2>4, <2>5, <2>8, <2>9
<1> QED
  BY <1>3, <1>5, <1>6 DEF Dispatch, create_token, tokenVars

\* Cutting a queue of keys leaves queues of keys.
LEMMA CutKeys ==
  ASSUME NEW q \in Seq(Key), NEW n \in 0 .. Len(q)
  PROVE  /\ SubSeq(q, 1, n) \in Seq(Key) /\ SubSeq(q, n + 1, Len(q)) \in Seq(Key)
         /\ Len(SubSeq(q, 1, n)) = n /\ Len(SubSeq(q, n + 1, Len(q))) = Len(q) - n
         /\ \A i \in 1 .. n : SubSeq(q, 1, n)[i] = q[i]
         /\ \A i \in 1 .. Len(q) - n : SubSeq(q, n + 1, Len(q))[i] = q[n + i]
OBVIOUS

LEMMA LineEndIsLine ==
  ASSUME NEW q \in Seq(Key), NEW n \in LineEnd(q)
  PROVE  /\ n \in 1 .. Len(q) /\ IsLine(q[n]) /\ q[n] \in Key
         /\ q[n].nr \in 1 .. MaxLines /\ q[n].command \in Command
BY KeyFacts DEF LineEnd

\* getline's command is one of the commands.
LEMMA GetLineDispatches ==
  ASSUME TypeInv, GetLine
  PROVE  \E n \in LineEnd(stdin), c \in Command :
           /\ taken' = Append(taken, [nr |-> stdin[n].nr, whole |-> n = 1])
           /\ stdin' = SubSeq(stdin, n + 1, Len(stdin))
           /\ Dispatch(c)
<1>1. PICK n \in LineEnd(stdin) :
        /\ taken' = Append(taken, [nr |-> stdin[n].nr, whole |-> n = 1])
        /\ stdin' = SubSeq(stdin, n + 1, Len(stdin))
        /\ Dispatch(IF n = 1 THEN stdin[n].command ELSE [op |-> "unknown"])
  BY DEF GetLine
<1>2. [op |-> "unknown"] \in Command
  BY DEF Command
<1>3. stdin \in Seq(Key)
  BY DEF TypeInv, TypeOK
<1>4. (IF n = 1 THEN stdin[n].command ELSE [op |-> "unknown"]) \in Command
  BY <1>2, <1>3, LineEndIsLine
<1> QED
  BY <1>1, <1>4

LEMMA ConsoleInit == Init => TypeInv /\ StampsAreOwn
<1> SUFFICES ASSUME Init PROVE TypeInv /\ StampsAreOwn
  OBVIOUS
<1>1. InInt(0) /\ now \in Nat
  BY ConsoleAssumption DEF Init, InInt, MinInt
<1>2. <<>> \in Seq(Key) /\ <<>> \in Seq(Token) /\ Len(<<>>) = 0
      /\ <<>> \in Seq([nr : 1 .. MaxLines, whole : BOOLEAN])
  OBVIOUS
<1>3. StampsAreOwn
  BY DEF Init, StampsAreOwn
<1>4. TypeOK
  <2>1. tty \in Seq(Key) /\ stdin \in Seq(Key) /\ pushed \in 0 .. Len(tty)
        /\ taken \in Seq([nr : 1 .. MaxLines, whole : BOOLEAN])
    BY <1>2 DEF Init
  <2>2. bangs \in 0 .. MaxBangs /\ typed \in 0 .. MaxLines
    BY ConsoleAssumption DEF Init
  <2>3. InInt(token_time) /\ now \in Nat
    BY <1>1 DEF Init
  <2> QED
    BY <2>1, <2>2, <2>3 DEF Init, TypeOK
<1> QED
  BY <1>2, <1>3, <1>4 DEF Init, TypeInv

\* Every step keeps the types, and the stamps are their commands' own.
LEMMA ConsoleStep == TypeInv /\ StampsAreOwn /\ [Next]_vars => TypeInv' /\ StampsAreOwn'
<1> SUFFICES ASSUME TypeInv, StampsAreOwn, [Next]_vars
             PROVE  TypeInv' /\ StampsAreOwn'
  OBVIOUS
<1> USE DEF TypeInv
<1>1. /\ tty \in Seq(Key) /\ stdin \in Seq(Key) /\ pushed \in 0 .. Len(tty)
      /\ bangs \in 0 .. MaxBangs /\ typed \in 0 .. MaxLines /\ now \in Nat
      /\ MaxBangs \in Nat /\ MaxLines \in Nat
      /\ taken \in Seq([nr : 1 .. MaxLines, whole : BOOLEAN])
  BY ConsoleAssumption DEF TypeOK
<1>2. UNCHANGED tokens => StampsAreOwn'
  BY DEF StampsAreOwn
<1>3. ASSUME NEW key \in Key
      PROVE  Append(tty, key) \in Seq(Key) /\ pushed \in 0 .. Len(Append(tty, key))
  BY <1>1
<1>4. CASE TypeBang
  BY <1>1, <1>2, <1>3, <1>4, KeyFacts DEF TypeBang, TypeOK, tokenVars
<1>5. CASE TypeLine
  <2>1. PICK l \in Lines : tty' = Append(tty, [nr |-> typed + 1, command |-> l])
    BY <1>5 DEF TypeLine
  <2>2. typed + 1 \in 1 .. MaxLines /\ [nr |-> typed + 1, command |-> l] \in Key
    BY <1>1, <1>5 DEF TypeLine, Key
  <2> QED
    BY <1>1, <1>2, <1>3, <1>5, <2>1, <2>2 DEF TypeLine, TypeOK, tokenVars
<1>6. CASE TypeEof
  BY <1>1, <1>2, <1>6 DEF TypeEof, TypeOK, tokenVars
<1>7. CASE Tick
  BY <1>1, <1>2, <1>7 DEF Tick, TypeOK, tokenVars, inputs, hostVars
<1>8. CASE Poll
  <2>1. tty' \in Seq(Key) /\ Len(tty') = Len(tty) - 1
    BY <1>1, <1>8 DEF Poll
  <2>2. pushed' \in 0 .. Len(tty')
    BY <1>1, <1>8, <2>1 DEF Poll
  <2> QED
    BY <1>1, <1>2, <1>8, <2>1, <2>2 DEF Poll, TypeOK, tokenVars, hostVars
<1>9. CASE Fill
  <2>1. PICK n \in 0 .. Len(tty) : /\ stdin' = stdin \o SubSeq(tty, 1, n)
                                 /\ tty' = SubSeq(tty, n + 1, Len(tty))
    <3>1. PICK n \in IF pushed > 0 THEN {pushed} ELSE LineEnd(tty) :
            /\ stdin' = stdin \o SubSeq(tty, 1, n)
            /\ tty' = SubSeq(tty, n + 1, Len(tty))
      BY <1>9 DEF Fill
    <3>2. n \in 0 .. Len(tty)
      BY <1>1, LineEndIsLine
    <3> QED
      BY <3>1, <3>2
  <2>2. tty' \in Seq(Key) /\ stdin' \in Seq(Key)
    BY <1>1, <2>1, CutKeys
  <2> QED
    BY <1>1, <1>2, <1>9, <2>2 DEF Fill, TypeOK, tokenVars, hostVars
<1>10. CASE GetLine
  <2>1. PICK n \in LineEnd(stdin), c \in Command :
          /\ taken' = Append(taken, [nr |-> stdin[n].nr, whole |-> n = 1])
          /\ stdin' = SubSeq(stdin, n + 1, Len(stdin))
          /\ Dispatch(c)
    BY <1>10, GetLineDispatches
  <2>2. stdin' \in Seq(Key)
    BY <1>1, <2>1, LineEndIsLine, CutKeys
  <2>3. taken' \in Seq([nr : 1 .. MaxLines, whole : BOOLEAN])
    BY <1>1, <2>1, LineEndIsLine
  <2> QED
    BY <1>1, <1>10, <2>1, <2>2, <2>3, DispatchKeeps DEF GetLine, TypeOK, hostVars
<1>11. CASE GetNoLine
  BY <1>1, <1>2, <1>11 DEF GetNoLine, TypeOK, tokenVars, hostVars
<1>12. CASE UNCHANGED vars
  BY <1>2, <1>12 DEF vars, TypeOK, tokenVars, inputs, hostVars
<1> QED
  BY <1>4, <1>5, <1>6, <1>7, <1>8, <1>9, <1>10, <1>11, <1>12 DEF Next, run

\* The console's variables have their types: the time of a token is one that an int
\* holds, and the piece that waits in the terminal is part of what is in it.
THEOREM ConsoleTypes == Spec => []TypeOK
<1>1. Spec => [](TypeInv /\ StampsAreOwn)
  BY ConsoleInit, ConsoleStep, PTL DEF Spec
<1>2. TypeInv => TypeOK
  BY DEF TypeInv
<1> QED
  BY <1>1, <1>2, PTL

\* A temporary token is stamped with the lifetime of its own command, whatever was
\* in token_time, as long as the sums fit in an int, for every width of int.
THEOREM StampsAreRight == Spec => []StampsAreOwn
<1>1. Spec => [](TypeInv /\ StampsAreOwn)
  BY ConsoleInit, ConsoleStep, PTL DEF Spec
<1> QED
  BY <1>1, PTL

-----------------------------------------------------------------------------
(* The order of the lines. *)

\* The lines of a queue are in the order in which they were typed, and all of them
\* come before those of another.  A "!" has the number 0.
Rises(q) ==
  \A i, j \in DOMAIN q : i < j /\ q[i].nr > 0 /\ q[j].nr > 0 => q[i].nr < q[j].nr

Before(p, q) ==
  \A i \in DOMAIN p, j \in DOMAIN q : p[i].nr > 0 /\ q[j].nr > 0 => p[i].nr < q[j].nr

Upto(q, n) == \A i \in DOMAIN q : q[i].nr \in 0 .. n

\* A line goes from the terminal through the buffer of stdin to a command.
LinesRise ==
  /\ Rises(taken) /\ Rises(stdin) /\ Rises(tty)
  /\ Before(taken, stdin) /\ Before(taken, tty) /\ Before(stdin, tty)
  /\ Upto(taken, typed) /\ Upto(stdin, typed) /\ Upto(tty, typed)

\* A key that is typed comes last.
LEMMA TypedRises ==
  ASSUME TypeInv, LinesRise, NEW key \in Key, tty' = Append(tty, key),
         (key.nr = 0 /\ typed' = typed) \/ (key.nr = typed + 1 /\ typed' = typed + 1),
         UNCHANGED <<taken, stdin>>
  PROVE  LinesRise'
<1>1. /\ tty \in Seq(Key) /\ typed \in Nat /\ Len(tty) \in Nat
      /\ DOMAIN tty' = 1 .. Len(tty) + 1 /\ DOMAIN tty = 1 .. Len(tty)
      /\ \A i \in 1 .. Len(tty) : tty'[i] = tty[i]
      /\ tty'[Len(tty) + 1] = key
  BY ConsoleAssumption DEF TypeInv, TypeOK
<1>2. Upto(taken, typed)' /\ Upto(stdin, typed)'
  BY <1>1 DEF LinesRise, Upto
<1>3. Upto(tty, typed)'
  BY <1>1 DEF LinesRise, Upto
<1>4. Rises(tty)'
  BY <1>1 DEF LinesRise, Upto, Rises
<1>5. Before(taken, tty)' /\ Before(stdin, tty)'
  BY <1>1 DEF LinesRise, Upto, Before
<1> QED
  BY <1>2, <1>3, <1>4, <1>5 DEF LinesRise, Rises, Before

\* What leaves the front of the terminal, lost or to the buffer, leaves the rest in
\* order.
LEMMA PolledRises ==
  ASSUME TypeInv, LinesRise, tty # <<>>, tty' = Tail(tty),
         UNCHANGED <<taken, stdin, typed>>
  PROVE  LinesRise'
<1>1. /\ tty \in Seq(Key) /\ Len(tty) \in Nat
      /\ DOMAIN tty' = 1 .. Len(tty) - 1 /\ DOMAIN tty = 1 .. Len(tty)
      /\ \A i \in 1 .. Len(tty) - 1 : tty'[i] = tty[i + 1]
  BY DEF TypeInv, TypeOK
<1>2. \A i \in DOMAIN tty' : i + 1 \in DOMAIN tty /\ tty'[i] = tty[i + 1]
  BY <1>1
<1>3. Rises(tty)'
  BY <1>1, <1>2 DEF LinesRise, Rises
<1>4. Before(taken, tty)' /\ Before(stdin, tty)' /\ Upto(tty, typed)'
  BY <1>2 DEF LinesRise, Before, Upto
<1> QED
  BY <1>3, <1>4 DEF LinesRise, Rises, Before, Upto

LEMMA FilledRises ==
  ASSUME TypeInv, LinesRise, NEW n \in 0 .. Len(tty),
         stdin' = stdin \o SubSeq(tty, 1, n), tty' = SubSeq(tty, n + 1, Len(tty)),
         UNCHANGED <<taken, typed>>
  PROVE  LinesRise'
<1>1. tty \in Seq(Key) /\ stdin \in Seq(Key) /\ Len(tty) \in Nat /\ Len(stdin) \in Nat
      /\ DOMAIN tty = 1 .. Len(tty) /\ DOMAIN stdin = 1 .. Len(stdin)
  BY DEF TypeInv, TypeOK
<1>2. /\ DOMAIN tty' = 1 .. Len(tty) - n
      /\ \A i \in DOMAIN tty' : n + i \in DOMAIN tty /\ tty'[i] = tty[n + i]
  BY <1>1, CutKeys
<1>3. /\ DOMAIN stdin' = 1 .. Len(stdin) + n
      /\ \A i \in 1 .. Len(stdin) : stdin'[i] = stdin[i]
      /\ \A i \in 1 .. n : stdin'[Len(stdin) + i] = tty[i]
  BY <1>1, CutKeys
<1>4. ASSUME NEW i \in DOMAIN stdin'
      PROVE  \/ i \in DOMAIN stdin /\ stdin'[i] = stdin[i]
             \/ /\ i - Len(stdin) \in 1 .. n /\ i - Len(stdin) \in DOMAIN tty
                /\ stdin'[i] = tty[i - Len(stdin)]
  <2>1. CASE i \in 1 .. Len(stdin)
    BY <1>1, <1>3, <2>1
  <2>2. CASE i \notin 1 .. Len(stdin)
    <3>1. i - Len(stdin) \in 1 .. n /\ i = Len(stdin) + (i - Len(stdin))
      BY <1>1, <1>3, <2>2
    <3> QED
      BY <1>1, <1>3, <3>1
  <2> QED
    BY <2>1, <2>2
<1>5. Rises(tty)' /\ Before(taken, tty)' /\ Upto(tty, typed)'
  <2>1. ASSUME NEW i \in DOMAIN tty', NEW j \in DOMAIN tty', i < j,
               tty'[i].nr > 0, tty'[j].nr > 0
        PROVE  tty'[i].nr < tty'[j].nr
    <3>1. /\ n + i \in DOMAIN tty /\ tty'[i] = tty[n + i]
          /\ n + j \in DOMAIN tty /\ tty'[j] = tty[n + j]
      BY <1>2
    <3>2. n + i < n + j
      BY <1>1, <1>2, <2>1
    <3> QED
      BY <2>1, <3>1, <3>2 DEF LinesRise, Rises
  <2>2. Before(taken, tty)' /\ Upto(tty, typed)'
    BY <1>2 DEF LinesRise, Before, Upto
  <2> QED
    BY <2>1, <2>2 DEF Rises
<1>6. Before(taken, stdin)' /\ Upto(stdin, typed)'
  BY <1>4 DEF LinesRise, Before, Upto
<1>7. Rises(stdin)'
  BY <1>1, <1>3, <1>4 DEF LinesRise, Rises, Before
<1>8. Before(stdin, tty)'
  <2> SUFFICES ASSUME NEW i \in DOMAIN stdin', NEW j \in DOMAIN tty',
                      stdin'[i].nr > 0, tty'[j].nr > 0
               PROVE  stdin'[i].nr < tty'[j].nr
    BY DEF Before
  <2>1. n + j \in DOMAIN tty /\ tty'[j] = tty[n + j]
    BY <1>2
  <2>2. CASE i \in DOMAIN stdin /\ stdin'[i] = stdin[i]
    BY <2>1, <2>2 DEF LinesRise, Before
  <2>3. CASE /\ i - Len(stdin) \in 1 .. n /\ i - Len(stdin) \in DOMAIN tty
             /\ stdin'[i] = tty[i - Len(stdin)]
    <3>1. i - Len(stdin) < n + j
      BY <1>1, <1>2, <2>3
    <3> QED
      BY <2>1, <2>3, <3>1 DEF LinesRise, Rises
  <2> QED
    BY <1>4, <2>2, <2>3
<1> QED
  BY <1>5, <1>6, <1>7, <1>8 DEF LinesRise, Rises, Upto

\* The first line of the buffer is older than what is left.
LEMMA TakenRises ==
  ASSUME TypeInv, LinesRise, NEW n \in LineEnd(stdin),
         taken' = Append(taken, [nr |-> stdin[n].nr, whole |-> n = 1]),
         stdin' = SubSeq(stdin, n + 1, Len(stdin)),
         UNCHANGED <<tty, typed>>
  PROVE  LinesRise'
<1>1. stdin \in Seq(Key) /\ Len(stdin) \in Nat /\ Len(taken) \in Nat
      /\ DOMAIN stdin = 1 .. Len(stdin) /\ DOMAIN taken = 1 .. Len(taken)
      /\ taken \in Seq([nr : 1 .. MaxLines, whole : BOOLEAN])
  BY DEF TypeInv, TypeOK
<1>2. n \in DOMAIN stdin /\ n \in 0 .. Len(stdin) /\ n \in Nat /\ stdin[n].nr \in 1 .. MaxLines
  BY <1>1, LineEndIsLine
<1>3. /\ DOMAIN stdin' = 1 .. Len(stdin) - n
      /\ \A i \in DOMAIN stdin' :
           n + i \in DOMAIN stdin /\ n < n + i /\ stdin'[i] = stdin[n + i]
  BY <1>1, <1>2, CutKeys
<1>4. /\ DOMAIN taken' = 1 .. Len(taken) + 1
      /\ \A i \in 1 .. Len(taken) : taken'[i].nr = taken[i].nr
      /\ taken'[Len(taken) + 1].nr = stdin[n].nr
  BY <1>1, <1>2
<1>5. \A i \in DOMAIN taken' :
        \/ i \in DOMAIN taken /\ taken'[i].nr = taken[i].nr
        \/ i = Len(taken) + 1 /\ taken'[i].nr = stdin[n].nr
  BY <1>1, <1>4
<1>6. Rises(stdin)' /\ Before(stdin, tty)' /\ Upto(stdin, typed)'
  <2>1. ASSUME NEW i \in DOMAIN stdin', NEW j \in DOMAIN stdin', i < j
        PROVE  n + i < n + j
    BY <1>2, <1>3, <2>1
  <2>2. Rises(stdin)'
    BY <1>3, <2>1 DEF LinesRise, Rises
  <2> QED
    BY <1>3, <2>2 DEF LinesRise, Before, Upto
<1>7. Rises(taken)'
  BY <1>1, <1>2, <1>5 DEF LinesRise, Rises, Before
<1>8. Before(taken, stdin)'
  <2> SUFFICES ASSUME NEW i \in DOMAIN taken', NEW j \in DOMAIN stdin',
                      taken'[i].nr > 0, stdin'[j].nr > 0
               PROVE  taken'[i].nr < stdin'[j].nr
    BY DEF Before
  <2>1. n + j \in DOMAIN stdin /\ n < n + j /\ stdin'[j] = stdin[n + j]
    BY <1>3
  <2>2. CASE i \in DOMAIN taken /\ taken'[i].nr = taken[i].nr
    BY <2>1, <2>2 DEF LinesRise, Before
  <2>3. CASE taken'[i].nr = stdin[n].nr
    BY <1>2, <2>1, <2>3 DEF LinesRise, Rises
  <2> QED
    BY <1>5, <2>2, <2>3
<1>9. Before(taken, tty)' /\ Upto(taken, typed)'
  BY <1>2, <1>5 DEF LinesRise, Before, Upto
<1> QED
  BY <1>6, <1>7, <1>8, <1>9 DEF LinesRise, Rises, Upto

-----------------------------------------------------------------------------
(* The orderly host. *)

\* Nothing is under way; a "!" is, or has been read; its line is, in one of the
\* two buffers.
Quiet ==
  /\ bangs = Len(taken) /\ typed = Len(taken)
  /\ console = "poll" /\ tty = <<>> /\ stdin = <<>>

Called ==
  /\ bangs = Len(taken) + 1 /\ typed = Len(taken) /\ stdin = <<>>
  /\ \/ console = "poll" /\ tty = <<Bang>>
     \/ console = "prompt" /\ tty = <<>>

Given ==
  /\ bangs = Len(taken) + 1 /\ typed = Len(taken) + 1
  /\ \E key \in Key :
       /\ key.nr = typed
       /\ \/ console = "poll" /\ tty = <<Bang, key>> /\ stdin = <<>>
          \/ console = "prompt" /\ tty = <<key>> /\ stdin = <<>>
          \/ console = "prompt" /\ tty = <<>> /\ stdin = <<key>>

AsTyped == taken = [i \in 1 .. Len(taken) |-> [nr |-> i, whole |-> TRUE]]

Phases == orderly => AsTyped /\ ~eof /\ (Quiet \/ Called \/ Given)

\* Short queues.
LEMMA OneKey ==
  ASSUME NEW a
  PROVE  /\ Append(<<>>, a) = <<a>> /\ <<>> \o <<a>> = <<a>> /\ Tail(<<a>>) = <<>>
         /\ Len(<<a>>) = 1 /\ <<a>>[1] = a /\ <<a>> # <<>> /\ Head(<<a>>) = a
         /\ DOMAIN <<a>> = {1}
         /\ SubSeq(<<a>>, 1, 1) = <<a>> /\ SubSeq(<<a>>, 2, 1) = <<>>
<1>1. <<a>> \in Seq({a}) /\ Len(<<a>>) = 1
  OBVIOUS
<1>2. SubSeq(<<a>>, 1, 1) = <<a>>
  BY <1>1, SubSeqFull
<1> QED
  BY <1>2

LEMMA TwoKeys ==
  ASSUME NEW a, NEW b
  PROVE  /\ Append(<<a>>, b) = <<a, b>> /\ Tail(<<a, b>>) = <<b>>
         /\ Head(<<a, b>>) = a /\ <<a, b>> # <<>> /\ Len(<<a, b>>) = 2
<1> DEFINE s == Append(<<a>>, b)
<1> DEFINE q == <<a, b>>
<1>1. <<a>> \in Seq({a, b})
  OBVIOUS
<1>2. s \in Seq({a, b}) /\ Len(s) = 2 /\ s[1] = a /\ s[2] = b
  BY <1>1, AppendProperties
<1>3. q \in Seq({a, b}) /\ Len(q) = 2 /\ q[1] = a /\ q[2] = b
  OBVIOUS
<1>4. s = q
  <2> HIDE DEF s, q
  <2>1. \A i \in 1 .. Len(s) : s[i] = q[i]
    BY <1>2, <1>3
  <2> QED
    BY <1>2, <1>3, <2>1, SeqEqual
<1>5. Tail(q) = <<b>> /\ Head(q) = a /\ q # <<>>
  OBVIOUS
<1> QED
  BY <1>3, <1>4, <1>5

LEMMA NoKey == Len(<<>>) = 0 /\ DOMAIN <<>> = {}
OBVIOUS

\* In a queue of one key the first line is that key.
LEMMA OneLine ==
  ASSUME NEW key \in Key, key.nr > 0
  PROVE  LineEnd(<<key>>) = {1} /\ LineEnd(<<>>) = {} /\ IsLine(key) /\ key # Bang
<1>1. IsLine(key) /\ key # Bang
  BY KeyFacts DEF Key, Bang, IsLine
<1>2. DOMAIN <<key>> = {1} /\ <<key>>[1] = key /\ DOMAIN <<>> = {}
  BY OneKey, NoKey
<1> QED
  BY <1>1, <1>2 DEF LineEnd

\* A host that waits for its commands stays in these phases.
LEMMA PhasesStep ==
  ASSUME TypeInv, Phases, [Next]_vars
  PROVE  Phases'
<1>1. /\ Len(taken) \in Nat /\ typed \in Nat /\ bangs \in Nat /\ MaxLines \in Nat
      /\ tty \in Seq(Key) /\ stdin \in Seq(Key) /\ pushed \in 0 .. Len(tty)
      /\ taken \in Seq([nr : 1 .. MaxLines, whole : BOOLEAN])
  BY ConsoleAssumption DEF TypeInv, TypeOK
<1> SUFFICES ASSUME orderly' PROVE Phases'
  BY DEF Phases
<1>2. CASE TypeBang
  <2>1. orderly /\ bangs = Len(taken)
    BY <1>2, Zenon DEF TypeBang
  <2>2. Quiet \/ Called \/ Given
    BY <2>1 DEF Phases
  <2>3. Quiet
    BY <1>1, <2>1, <2>2 DEF Called, Given
  <2>4. tty' = <<Bang>>
    BY <1>2, <2>3, OneKey DEF TypeBang, Quiet
  <2>5. Called'
    BY <1>1, <1>2, <2>3, <2>4 DEF TypeBang, Quiet, Called
  <2> QED
    BY <1>2, <2>1, <2>5 DEF TypeBang, Phases, AsTyped
<1>3. CASE TypeLine
  <2>1. orderly /\ bangs = typed + 1
    BY <1>3, Zenon DEF TypeLine
  <2>2. Quiet \/ Called \/ Given
    BY <2>1 DEF Phases
  <2>3. Called
    BY <1>1, <2>1, <2>2 DEF Quiet, Given
  <2>4. PICK l \in Lines : tty' = Append(tty, [nr |-> typed + 1, command |-> l])
    BY <1>3 DEF TypeLine
  <2> DEFINE key == [nr |-> typed + 1, command |-> l]
  <2>5. key \in Key /\ key.nr = typed'
    BY <1>1, <1>3 DEF TypeLine, Key
  <2>6. \/ console' = "poll" /\ tty' = <<Bang, key>> /\ stdin' = <<>>
        \/ console' = "prompt" /\ tty' = <<key>> /\ stdin' = <<>>
    <3>1. Append(<<>>, key) = <<key>> /\ Append(<<Bang>>, key) = <<Bang, key>>
      BY OneKey, TwoKeys
    <3>2. tty' = Append(tty, key) /\ UNCHANGED <<console, stdin>>
      BY <1>3, <2>4 DEF TypeLine
    <3> HIDE DEF key
    <3> QED
      BY <2>3, <3>1, <3>2 DEF Called
  <2>7. bangs' = Len(taken') + 1 /\ typed' = Len(taken') + 1
    BY <1>1, <1>3, <2>3 DEF TypeLine, Called
  <2> HIDE DEF key
  <2>8. Given'
    BY <2>5, <2>6, <2>7 DEF Given
  <2> QED
    BY <1>3, <2>1, <2>8 DEF TypeLine, Phases, AsTyped
<1>4. CASE TypeEof
  BY <1>4 DEF TypeEof
<1>5. CASE Tick \/ UNCHANGED vars
  BY <1>5 DEF Tick, vars, inputs, hostVars, Phases, Quiet, Called, Given, AsTyped
<1>6. CASE Poll
  <2>1. orderly /\ AsTyped /\ ~eof
    BY <1>6 DEF Poll, hostVars, Phases
  <2>2. CASE Called
    <3>1. tty = <<Bang>> /\ console' = "prompt" /\ tty' = <<>>
      BY <1>6, <2>2, OneKey DEF Poll, Called
    <3> QED
      BY <1>6, <2>1, <2>2, <3>1 DEF Poll, hostVars, Phases, Called, AsTyped
  <2>3. CASE Given
    <3>1. PICK key \in Key : key.nr = typed /\ tty = <<Bang, key>> /\ stdin = <<>>
      BY <1>6, <2>3 DEF Poll, Given
    <3>2. console' = "prompt" /\ tty' = <<key>>
      BY <1>6, <3>1, TwoKeys DEF Poll
    <3> QED
      BY <1>6, <2>1, <2>3, <3>1, <3>2 DEF Poll, hostVars, Phases, Given, AsTyped
  <2> QED
    BY <1>6, <2>1, <2>2, <2>3 DEF Poll, Phases, Quiet
<1>7. CASE Fill
  <2>1. orderly /\ AsTyped /\ ~eof
    BY <1>7 DEF Fill, hostVars, Phases
  <2>2. PICK n \in IF pushed > 0 THEN {pushed} ELSE LineEnd(tty) :
          /\ stdin' = stdin \o SubSeq(tty, 1, n)
          /\ tty' = SubSeq(tty, n + 1, Len(tty))
    BY <1>7 DEF Fill
  <2>3. tty # <<>>
    BY <1>1, <2>2, NoKey DEF LineEnd
  <2>4. Given
    BY <1>7, <2>1, <2>3 DEF Fill, Phases, Quiet, Called
  <2>5. PICK key \in Key : key.nr = typed /\ tty = <<key>> /\ stdin = <<>>
    BY <1>7, <2>3, <2>4 DEF Fill, Given
  <2>6. n = 1
    BY <1>1, <2>2, <2>4, <2>5, OneLine, OneKey DEF Given
  <2>7. stdin' = <<key>> /\ tty' = <<>>
    BY <2>2, <2>5, <2>6, OneKey
  <2> QED
    BY <1>7, <2>1, <2>4, <2>5, <2>7 DEF Fill, hostVars, Phases, Given, AsTyped
<1>8. CASE GetLine
  <2>1. orderly /\ AsTyped /\ ~eof
    BY <1>8 DEF GetLine, hostVars, Phases
  <2>2. PICK n \in LineEnd(stdin) :
          /\ taken' = Append(taken, [nr |-> stdin[n].nr, whole |-> n = 1])
          /\ stdin' = SubSeq(stdin, n + 1, Len(stdin))
    BY <1>8 DEF GetLine
  <2>3. stdin # <<>>
    BY <2>2, NoKey DEF LineEnd
  <2>4. Given
    BY <2>1, <2>3 DEF Phases, Quiet, Called
  <2>5. PICK key \in Key : key.nr = typed /\ tty = <<>> /\ stdin = <<key>>
    BY <2>3, <2>4 DEF Given
  <2>6. n = 1 /\ stdin[n] = key
    BY <1>1, <2>2, <2>4, <2>5, OneLine, OneKey DEF Given
  <2>7. taken' = Append(taken, [nr |-> Len(taken) + 1, whole |-> TRUE])
    BY <2>2, <2>4, <2>5, <2>6 DEF Given
  <2>8. AsTyped' /\ Len(taken') = Len(taken) + 1
    BY <1>1, <2>1, <2>7 DEF AsTyped
  <2>9. stdin' = <<>>
    BY <2>2, <2>5, <2>6, OneKey
  <2>10. Quiet'
    BY <1>1, <1>8, <2>4, <2>5, <2>8, <2>9 DEF GetLine, hostVars, Given, Quiet
  <2> QED
    BY <1>8, <2>1, <2>8, <2>10 DEF GetLine, Phases
<1>9. CASE GetNoLine
  BY <1>9 DEF GetNoLine, hostVars, Phases
<1> QED
  BY <1>2, <1>3, <1>4, <1>5, <1>6, <1>7, <1>8, <1>9 DEF Next, run

\* Every step keeps the lines in order.
LEMMA OrderStep ==
  ASSUME TypeInv, LinesRise, [Next]_vars
  PROVE  LinesRise'
<1>1. tty \in Seq(Key) /\ pushed \in 0 .. Len(tty) /\ typed \in Nat
  BY ConsoleAssumption DEF TypeInv, TypeOK
<1>2. CASE TypeBang
  <2>1. Bang \in Key /\ Bang.nr = 0
    BY KeyFacts
  <2>2. tty' = Append(tty, Bang) /\ typed' = typed /\ UNCHANGED <<taken, stdin>>
    BY <1>2 DEF TypeBang
  <2> QED
    BY <2>1, <2>2, TypedRises
<1>3. CASE TypeLine
  <2>1. PICK l \in Lines : tty' = Append(tty, [nr |-> typed + 1, command |-> l])
    BY <1>3 DEF TypeLine
  <2>2. [nr |-> typed + 1, command |-> l] \in Key
    BY <1>1, <1>3, ConsoleAssumption DEF TypeLine, Key
  <2> QED
    BY <1>3, <2>1, <2>2, TypedRises DEF TypeLine
<1>4. CASE TypeEof \/ Tick \/ UNCHANGED vars
  BY <1>4 DEF TypeEof, Tick, vars, inputs, hostVars, LinesRise, Rises, Before, Upto
<1>5. CASE Poll
  BY <1>5, PolledRises DEF Poll, hostVars
<1>6. CASE Fill
  <2>1. PICK n \in IF pushed > 0 THEN {pushed} ELSE LineEnd(tty) :
          /\ stdin' = stdin \o SubSeq(tty, 1, n)
          /\ tty' = SubSeq(tty, n + 1, Len(tty))
    BY <1>6 DEF Fill
  <2>2. n \in 0 .. Len(tty)
    BY <1>1, LineEndIsLine
  <2> QED
    BY <1>6, <2>1, <2>2, FilledRises DEF Fill, hostVars
<1>7. CASE GetLine
  BY <1>7, GetLineDispatches, TakenRises DEF GetLine, hostVars
<1>8. CASE GetNoLine
  BY <1>1, <1>8 DEF GetNoLine, hostVars, LinesRise, Rises, Before, Upto
<1> QED
  BY <1>2, <1>3, <1>4, <1>5, <1>6, <1>7, <1>8 DEF Next, run

\* No line is taken twice or before an older one, however keys are typed ahead,
\* and every line of an orderly host is taken as it was typed.
THEOREM LinesInOrder == Spec => []CommandsInOrder
<1>1. Init => LinesRise /\ Phases
  BY NoKey DEF Init, LinesRise, Rises, Before, Upto, Phases, AsTyped, Quiet
<1>2. Spec => [](TypeInv /\ StampsAreOwn)
  BY ConsoleInit, ConsoleStep, PTL DEF Spec
<1>3. TypeInv /\ LinesRise /\ Phases => CommandsInOrder
  <2> SUFFICES ASSUME TypeInv, LinesRise, Phases PROVE CommandsInOrder
    OBVIOUS
  <2>1. \A i \in DOMAIN taken : taken[i].nr \in 1 .. MaxLines
    <3>1. taken \in Seq([nr : 1 .. MaxLines, whole : BOOLEAN])
      BY DEF TypeInv, TypeOK
    <3>2. ASSUME NEW i \in DOMAIN taken PROVE taken[i].nr \in 1 .. MaxLines
      <4>1. i \in 1 .. Len(taken)
        BY <3>1
      <4>2. taken[i] \in [nr : 1 .. MaxLines, whole : BOOLEAN]
        BY <3>1, <4>1, ElementOfSeq
      <4> QED
        BY <4>2
    <3> QED
      BY <3>2
  <2>2. \A i, j \in DOMAIN taken : i < j => taken[i].nr < taken[j].nr
    BY <2>1, ConsoleAssumption DEF LinesRise, Rises
  <2>3. orderly => taken = [i \in 1 .. Len(taken) |-> [nr |-> i, whole |-> TRUE]]
    BY DEF Phases, AsTyped
  <2> QED
    BY <2>2, <2>3 DEF CommandsInOrder
<1>4. TypeInv /\ LinesRise /\ Phases /\ [Next]_vars => (LinesRise /\ Phases)'
  BY OrderStep, PhasesStep
<1> QED
  BY <1>1, <1>2, <1>3, <1>4, PTL DEF Spec

=============================================================================
