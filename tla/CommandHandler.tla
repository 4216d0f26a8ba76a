--------------------------- MODULE CommandHandler ---------------------------
(***************************************************************************)
(* The console: the loop of CommandHandler::run, the terminal it reads in  *)
(* two ways, and the commands that keep state outside the session manager  *)
(* (token create with its lifetimes; ClientSessionManager has the rest).   *)
(*                                                                         *)
(* Between commands the terminal is raw and run reads it a byte at a time; *)
(* at the prompt it is line by line and std::getline reads it through the  *)
(* buffer of stdin.  Bytes that wait when the terminal leaves raw mode     *)
(* are handed out in one piece, however many lines they are.               *)
(*                                                                         *)
(* A key is "!" or a whole line with its newline; what run reads byte by   *)
(* byte and ignores, it ignores as a whole line.                           *)
(***************************************************************************)
EXTENDS Integers, Sequences

CONSTANTS
  Lines,     \* the command lines the host types
  MaxInt,    \* the largest int
  Uptimes,   \* steady_clock's seconds when the process starts
  MaxTime,   \* bound: how many seconds pass
  MaxBangs,  \* bound: how often the host types "!"
  MaxLines   \* bound: how many lines the host types

\* What the code tells apart in a line.  A number that is none throws like one
\* that is out of range.
Command ==
  [op : {"exit", "help", "empty", "blank", "unknown", "client"}]
    \cup [op : {"create"}, type : {"perm", "sess", "unknown"}]
    \cup [op : {"create"}, type : {"temp"},
          unit : {"-minute", "-hour", "-day", "-week"}, value : Int]

ASSUME ConsoleAssumption ==
  /\ Lines \subseteq Command
  /\ MaxInt \in Nat /\ Uptimes \subseteq Nat
  /\ MaxTime \in Nat /\ MaxBangs \in Nat /\ MaxLines \in Nat

VARIABLES
  console,     \* run: polling the raw terminal, or in getline at the prompt
  process,     \* "running", or what ended it
  tty,         \* the keys that wait in the terminal
  pushed,      \* how many of them, the oldest, are one piece
  stdin,       \* the keys in the buffer of stdin
  eof,         \* std::cin has met an end of file
  parts,       \* command_parts has held a part
  token_time,  \* TokenHandler::token_time
  now,         \* steady_clock, in seconds
  tokens,      \* the tokens created, with what was asked for
  bangs, typed,  \* how often the host typed "!", how many lines
  taken,       \* what getline returned, and whether it was a line as typed
  orderly      \* the host typed no "!" ahead, no line without, no end of file

inputs    == <<tty, pushed, stdin, eof>>
hostVars  == <<bangs, typed, orderly>>
tokenVars == <<token_time, tokens>>
vars == <<console, process, inputs, parts, tokenVars, now, hostVars, taken>>

Bang == [nr |-> 0, command |-> [op |-> "!"]]

IsLine(key) == key # Bang

Init ==
  /\ console = "poll" /\ process = "running"
  /\ tty = <<>> /\ pushed = 0 /\ stdin = <<>> /\ eof = FALSE
  /\ parts = FALSE /\ token_time = 0 /\ tokens = <<>>
  /\ now \in Uptimes
  /\ bangs = 0 /\ typed = 0 /\ taken = <<>> /\ orderly = TRUE

-----------------------------------------------------------------------------
(* The host and the clock. *)

TypeBang ==
  /\ process = "running" /\ bangs < MaxBangs
  /\ tty' = Append(tty, Bang)
  /\ bangs' = bangs + 1
  /\ orderly' = (orderly /\ bangs = Len(taken))
  /\ UNCHANGED <<console, process, pushed, stdin, eof, parts, tokenVars, now, typed,
                 taken>>

TypeLine ==
  /\ process = "running" /\ typed < MaxLines
  /\ \E l \in Lines : tty' = Append(tty, [nr |-> typed + 1, command |-> l])
  /\ typed' = typed + 1
  /\ orderly' = (orderly /\ bangs = typed + 1)
  /\ UNCHANGED <<console, process, pushed, stdin, eof, parts, tokenVars, now, bangs,
                 taken>>

HasLine(keys) == \E i \in DOMAIN keys : IsLine(keys[i])

\* Ctrl-D on an empty line, which getline is waiting for.
TypeEof ==
  /\ process = "running" /\ console = "prompt"
  /\ tty = <<>> /\ ~HasLine(stdin) /\ ~eof
  /\ eof' = TRUE /\ orderly' = FALSE
  /\ UNCHANGED <<console, process, tty, pushed, stdin, parts, tokenVars, now, bangs,
                 typed, taken>>

Tick ==
  /\ process = "running"
  /\ \E start \in Uptimes : now \in start .. start + MaxTime - 1
  /\ now' = now + 1
  /\ UNCHANGED <<console, process, inputs, parts, tokenVars, hostVars, taken>>

-----------------------------------------------------------------------------
(* token create. *)

MinInt == -MaxInt - 1

InInt(x) == x \in MinInt .. MaxInt

\* What an int holds of a number: it wraps around.
ToInt(x) == ((x - MinInt) % (2 * (MaxInt + 1))) + MinInt

SecondsOf(unit) == CASE unit = "-minute" -> 60
                     [] unit = "-hour"   -> 60 * 60
                     [] unit = "-day"    -> 60 * 60 * 24

\* Mutant: the product is not cut to an int.
set_time_token_uncut(c) ==
  /\ InInt(c.value) /\ c.unit # "-week"
  /\ token_time' = c.value * SecondsOf(c.unit)

\* std::stoi throws on a number out of range, the end of the list of units is a
\* throw, too; the product may overflow.
set_time_token(c) ==
  /\ InInt(c.value) /\ c.unit # "-week"
  /\ token_time' = ToInt(c.value * SecondsOf(c.unit))

TimeTokenThrows(c) == ~InInt(c.value) \/ c.unit = "-week"

\* TokenHandler::generate, with the time that is in token_time by then.
generate(c, time) ==
  tokens' = Append(tokens,
    IF c.type = "temp"
      THEN [type |-> "temp", asked |-> c.value * SecondsOf(c.unit), made |-> now,
            stamp |-> ToInt(now + time)]
      ELSE [type |-> c.type])

\* Mutant: the token is generated before its time is set.
create_token_early(c) ==
  \/ /\ c.type \in {"perm", "sess"}
     /\ generate(c, 0)
     /\ UNCHANGED <<process, token_time>>
  \/ /\ c.type = "temp" /\ ~TimeTokenThrows(c)
     /\ generate(c, token_time)
     /\ set_time_token(c)
     /\ UNCHANGED process
  \/ /\ c.type = "temp" /\ TimeTokenThrows(c)
     /\ process' = "command_exception"
     /\ UNCHANGED tokenVars
  \/ c.type = "unknown" /\ UNCHANGED <<process, tokenVars>>

create_token(c) ==
  \/ /\ c.type \in {"perm", "sess"}
     /\ generate(c, 0)
     /\ UNCHANGED <<process, token_time>>
  \/ /\ c.type = "temp"
     /\ set_time_token(c)
     /\ generate(c, token_time')
     /\ UNCHANGED process
  \/ /\ c.type = "temp" /\ TimeTokenThrows(c)
     /\ process' = "command_exception"
     /\ UNCHANGED tokenVars
  \/ c.type = "unknown" /\ UNCHANGED <<process, tokenVars>>

-----------------------------------------------------------------------------
(* What run does with a command. *)

\* command_parts[0] of a blank line: nothing was ever there, or the part of an
\* earlier command, destroyed but readable, whose executor refuses the line.
BlankOperand == {"fault"} \cup (IF parts THEN {"running"} ELSE {})

Dispatch(c) ==
  /\ \/ c.op = "exit" /\ process' = "exited" /\ UNCHANGED tokenVars
     \/ c.op \in {"help", "empty", "unknown", "client"} /\ UNCHANGED <<process, tokenVars>>
     \/ c.op = "blank" /\ process' \in BlankOperand /\ UNCHANGED tokenVars
     \/ c.op = "create" /\ create_token(c)
  /\ parts' = (parts \/ c.op \in {"unknown", "client", "create"})

\* A byte in raw mode: "!" stops the logger and makes the terminal canonical, so
\* that what waits is one piece; anything else is ignored.
Poll ==
  /\ process = "running" /\ console = "poll" /\ tty # <<>>
  /\ tty' = Tail(tty)
  /\ IF Head(tty) = Bang THEN console' = "prompt" /\ pushed' = Len(tty) - 1
                         ELSE UNCHANGED <<console, pushed>>
  /\ UNCHANGED <<process, stdin, eof, parts, tokenVars, now, hostVars, taken>>

\* Where the first line of keys ends.
LineEnd(keys) ==
  {i \in DOMAIN keys : IsLine(keys[i]) /\ \A j \in 1 .. i - 1 : ~IsLine(keys[j])}

\* Mutant: the terminal is still raw, where a read of nothing is an end of file.
Fill_raw ==
  /\ process = "running" /\ console = "prompt"
  /\ ~HasLine(stdin) /\ ~eof
  /\ stdin' = stdin \o tty
  /\ eof' = (tty = <<>>)
  /\ tty' = <<>> /\ pushed' = 0
  /\ UNCHANGED <<console, process, parts, tokenVars, now, hostVars, taken>>

\* getline has no line in its buffer: it reads the terminal, which gives the piece
\* that waited in raw mode or else one line.
Fill ==
  /\ process = "running" /\ console = "prompt"
  /\ ~HasLine(stdin) /\ ~eof
  /\ \E n \in IF pushed > 0 THEN {pushed} ELSE LineEnd(tty) :
       /\ stdin' = stdin \o SubSeq(tty, 1, n)
       /\ tty' = SubSeq(tty, n + 1, Len(tty))
  /\ pushed' = 0
  /\ UNCHANGED <<console, process, eof, parts, tokenVars, now, hostVars, taken>>

\* Mutant: the line stays in the buffer.
GetLine_keeps ==
  /\ process = "running" /\ console = "prompt" /\ ~eof
  /\ \E n \in LineEnd(stdin) :
       /\ taken' = Append(taken, [nr |-> stdin[n].nr, whole |-> n = 1])
       /\ Dispatch(IF n = 1 THEN stdin[n].command ELSE [op |-> "unknown"])
  /\ console' = "poll" /\ pushed' = 0
  /\ UNCHANGED <<stdin, tty, eof, now, hostVars>>

\* getline, the command, and the terminal raw again.  A line that begins with
\* another "!" is an unknown operand.
GetLine ==
  /\ process = "running" /\ console = "prompt" /\ ~eof
  /\ \E n \in LineEnd(stdin) :
       /\ taken' = Append(taken, [nr |-> stdin[n].nr, whole |-> n = 1])
       /\ stdin' = SubSeq(stdin, n + 1, Len(stdin))
       /\ Dispatch(IF n = 1 THEN stdin[n].command ELSE [op |-> "unknown"])
  /\ console' = "poll" /\ pushed' = 0
  /\ UNCHANGED <<tty, eof, now, hostVars>>

\* At an end of file, and ever after, getline returns without a line, and the
\* command is refused: nobody clears the state of std::cin.
GetNoLine ==
  /\ process = "running" /\ console = "prompt" /\ eof
  /\ stdin' = <<>>
  /\ console' = "poll" /\ pushed' = 0
  /\ UNCHANGED <<process, tty, eof, parts, tokenVars, now, hostVars, taken>>

run == Poll \/ Fill \/ GetLine \/ GetNoLine

Next == TypeBang \/ TypeLine \/ TypeEof \/ Tick \/ run

Spec == Init /\ [][Next]_vars

\* The console's thread goes on; the host types what it likes.
FairSpec == Spec /\ WF_vars(run)

-----------------------------------------------------------------------------
(* Properties. *)

Key == {Bang} \cup [nr : 1 .. MaxLines, command : Lines]

\* Type invariant.
TypeOK ==
  /\ console \in {"poll", "prompt"}
  /\ process \in {"running", "exited", "command_exception", "fault"}
  /\ tty \in Seq(Key) /\ stdin \in Seq(Key) /\ pushed \in 0 .. Len(tty)
  /\ eof \in BOOLEAN /\ parts \in BOOLEAN
  /\ InInt(token_time)
  /\ now \in Nat /\ bangs \in 0 .. MaxBangs /\ typed \in 0 .. MaxLines
  /\ taken \in Seq([nr : 1 .. MaxLines, whole : BOOLEAN])

\* However keys are typed ahead, and whichever of the two buffers holds them, no
\* line is taken twice or before an older one.  And of a host that types "!" only
\* once the last command is taken, every line is taken, as it was typed.
CommandsInOrder ==
  /\ \A i, j \in DOMAIN taken : i < j => taken[i].nr < taken[j].nr
  /\ orderly => taken = [i \in 1 .. Len(taken) |-> [nr |-> i, whole |-> TRUE]]

\* A temporary token expires when its own command says, whatever commands for
\* tokens came before it, unless the time does not fit in an int.
StampsAreOwn ==
  \A i \in DOMAIN tokens :
    LET t == tokens[i]
    IN t.type = "temp" /\ InInt(t.asked) /\ InInt(t.made + t.asked)
         => t.stamp = t.made + t.asked

\* Every command of an orderly host is taken, unless one before it ends the process.
CommandsAreTaken ==
  \A n \in 1 .. MaxLines :
    (orderly /\ typed >= n) ~> (Len(taken) >= n \/ ~orderly \/ process # "running")

=============================================================================
