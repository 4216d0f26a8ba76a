------------------------------- MODULE Logger -------------------------------
(***************************************************************************)
(* Logger (log, stop, _continue) under the threads that use it: workers    *)
(* (the io thread, the chat thread), which only log, and the console, the  *)
(* loop of CommandHandler::run, which stops the logger while the host      *)
(* types a command and continues it afterwards.                            *)
(*                                                                         *)
(* log reads stop_flag_ before it takes log_mutex_: two steps.  _continue  *)
(* takes no mutex: it drains the history line by line between the others'  *)
(* steps.  A push_back between them puts its line behind the end that the  *)
(* drain took, where clear() destroys it; when it moves the buffer, the    *)
(* drain goes on over what is left of the old one: it prints nothing of    *)
(* those lines, and clear() destroys them.  A push_back at the same time   *)
(* as a step of the drain, and the walk over a buffer that is gone, may    *)
(* also crash the process.                                                 *)
(*                                                                         *)
(* A line is the n-th of its thread.  Lines below current_level_ return at *)
(* once and are left out.                                                  *)
(***************************************************************************)
EXTENDS Naturals, Sequences, FiniteSets

CONSTANTS
  Workers,   \* the threads that log beside the console
  Console,   \* the thread of CommandHandler::run
  MaxLines   \* bound: how many lines a thread logs

ASSUME LoggerAssumption ==
  /\ Console \notin Workers /\ IsFiniteSet(Workers)
  /\ MaxLines \in Nat

Threads == Workers \cup {Console}

Line == [by : Threads, nr : 1 .. MaxLines]

VARIABLES
  stop_flag_,
  log_when_stopped_,  \* the history
  screen,             \* what std::cout got
  lost,               \* lines destroyed without having been printed
  sent,               \* how many lines each thread has handed to log
  worker,             \* where each worker is: not in log, or which way log went
  console,            \* where the console is in run() and in _continue()
  next, end,          \* the drain's position and the end it took
  moved,              \* the buffer that the drain walks over is gone
  process,            \* "running", "crashed" or "exited"
  late                \* lines that workers printed since stop()

vars == <<stop_flag_, log_when_stopped_, screen, lost, sent, worker, console,
          next, end, moved, process, late>>

Init ==
  /\ stop_flag_ = FALSE
  /\ log_when_stopped_ = <<>>
  /\ screen = <<>>
  /\ lost = {}
  /\ sent = [t \in Threads |-> 0]
  /\ worker = [w \in Workers |-> "idle"]
  /\ console = "continue"
  /\ next = 1 /\ end = 0
  /\ moved = FALSE
  /\ process = "running"
  /\ late = 0

LastLine(t) == [by |-> t, nr |-> sent[t]]

Draining == console \in {"print", "clear"}

Lines(seq) == {seq[i] : i \in DOMAIN seq}

\* The lines that a drain may still print.
Unprinted ==
  IF ~Draining THEN log_when_stopped_
  ELSE SubSeq(log_when_stopped_, IF moved THEN end + 1 ELSE next, Len(log_when_stopped_))

-----------------------------------------------------------------------------
(* log, in a worker. *)

\* Mutant: the flag is not looked at.
LogReadsFlag_not(w) ==
  /\ process = "running"
  /\ worker[w] = "idle" /\ sent[w] < MaxLines
  /\ sent' = [sent EXCEPT ![w] = @ + 1]
  /\ worker' = [worker EXCEPT ![w] = "prints"]
  /\ UNCHANGED <<stop_flag_, log_when_stopped_, screen, lost, console, next, end,
                 moved, process, late>>

\* stop_flag_.load(), before the mutex.
LogReadsFlag(w) ==
  /\ process = "running"
  /\ worker[w] = "idle" /\ sent[w] < MaxLines
  /\ sent' = [sent EXCEPT ![w] = @ + 1]
  /\ worker' = [worker EXCEPT ![w] = IF stop_flag_ THEN "stores" ELSE "prints"]
  /\ UNCHANGED <<stop_flag_, log_when_stopped_, screen, lost, console, next, end,
                 moved, process, late>>

\* The critical section of the branch for a running logger.
LogPrints(w) ==
  /\ process = "running"
  /\ worker[w] = "prints"
  /\ worker' = [worker EXCEPT ![w] = "idle"]
  /\ screen' = Append(screen, LastLine(w))
  /\ late' = IF stop_flag_ THEN late + 1 ELSE late
  /\ UNCHANGED <<stop_flag_, log_when_stopped_, lost, sent, console, next, end, moved, process>>

\* The critical section of the branch for a stopped one.  push_back may move
\* the buffer, whatever the drain is doing with it.
LogStores(w) ==
  /\ process = "running"
  /\ worker[w] = "stores"
  /\ worker' = [worker EXCEPT ![w] = "idle"]
  /\ log_when_stopped_' = Append(log_when_stopped_, LastLine(w))
  /\ \/ UNCHANGED <<moved, lost>>
     \/ /\ Draining
        /\ moved' = TRUE
        /\ lost' = lost \cup {log_when_stopped_[i] : i \in next .. end}
  /\ UNCHANGED <<stop_flag_, screen, sent, console, next, end, process, late>>

-----------------------------------------------------------------------------
(* The console: _continue. *)

Continue ==
  /\ process = "running" /\ console = "continue"
  /\ stop_flag_' = FALSE
  /\ late' = 0
  /\ console' = "drain"
  /\ UNCHANGED <<log_when_stopped_, screen, lost, sent, worker, next, end, moved, process>>

\* Mutant: the history is only drained when the logger is stopped again.
Drain_when_stopped ==
  /\ process = "running" /\ console = "drain"
  /\ next' = 1 /\ end' = Len(log_when_stopped_)
  /\ console' = IF log_when_stopped_ = <<>> \/ ~stop_flag_ THEN "key" ELSE "print"
  /\ UNCHANGED <<stop_flag_, log_when_stopped_, screen, lost, sent, worker, moved, process, late>>

\* Mutant: the drain stops before the last line.
Drain_before_last ==
  /\ process = "running" /\ console = "drain"
  /\ next' = 1 /\ end' = IF log_when_stopped_ = <<>> THEN 0 ELSE Len(log_when_stopped_) - 1
  /\ console' = IF log_when_stopped_ = <<>> THEN "key"
                ELSE IF end' = 0 THEN "clear" ELSE "print"
  /\ UNCHANGED <<stop_flag_, log_when_stopped_, screen, lost, sent, worker, moved, process, late>>

\* Mutant: the end is the last line's index, counted from zero.
Drain_off_by_one ==
  /\ process = "running" /\ console = "drain"
  /\ next' = 1 /\ end' = Len(log_when_stopped_) - 1
  /\ console' = IF log_when_stopped_ = <<>> THEN "key" ELSE "print"
  /\ UNCHANGED <<stop_flag_, log_when_stopped_, screen, lost, sent, worker, moved, process, late>>

\* empty(), and the end that for_each takes.
Drain ==
  /\ process = "running" /\ console = "drain"
  /\ next' = 1 /\ end' = Len(log_when_stopped_)
  /\ console' = IF log_when_stopped_ = <<>> THEN "key" ELSE "print"
  /\ UNCHANGED <<stop_flag_, log_when_stopped_, screen, lost, sent, worker, moved, process, late>>

\* One line of the for_each, copied and printed; of a buffer that is gone,
\* nothing that was logged.
DrainLine ==
  /\ process = "running" /\ console = "print"
  /\ screen' = IF moved THEN screen ELSE Append(screen, log_when_stopped_[next])
  /\ next' = next + 1
  /\ console' = IF next = end THEN "clear" ELSE "print"
  /\ UNCHANGED <<stop_flag_, log_when_stopped_, lost, sent, worker, end, moved, process, late>>

\* Mutant: the history is not cleared.
DrainClears_not ==
  /\ process = "running" /\ console = "clear"
  /\ console' = "key"
  /\ UNCHANGED <<stop_flag_, log_when_stopped_, screen, lost, sent, worker, next, end,
                 moved, process, late>>

\* clear() destroys what the history holds, printed or not.
DrainClears ==
  /\ process = "running" /\ console = "clear"
  /\ lost' = lost \cup {log_when_stopped_[i] : i \in next .. Len(log_when_stopped_)}
  /\ log_when_stopped_' = <<>>
  /\ moved' = FALSE
  /\ console' = "key"
  /\ UNCHANGED <<stop_flag_, screen, sent, worker, next, end, process, late>>

DrainCrashes ==
  /\ process = "running"
  /\ console = "drain" \/ Draining
  /\ moved \/ \E w \in Workers : worker[w] = "stores"
  /\ process' = "crashed"
  /\ UNCHANGED <<stop_flag_, log_when_stopped_, screen, lost, sent, worker, console,
                 next, end, moved, late>>

-----------------------------------------------------------------------------
(* The console: the rest of run. *)

\* Nothing typed, or not '!': sleep and go round.
NoKey ==
  /\ process = "running" /\ console = "key"
  /\ console' = "continue"
  /\ UNCHANGED <<stop_flag_, log_when_stopped_, screen, lost, sent, worker, next, end,
                 moved, process, late>>

\* '!': stop() and the prompt.
Key ==
  /\ process = "running" /\ console = "key"
  /\ stop_flag_' = TRUE
  /\ console' = "prompt"
  /\ UNCHANGED <<log_when_stopped_, screen, lost, sent, worker, next, end, moved, process, late>>

\* A command (or the refusal of one) logs.  Only the console changes stop_flag_,
\* so its own log stores.
CommandLogs ==
  /\ process = "running" /\ console = "prompt"
  /\ sent[Console] < MaxLines
  /\ sent' = [sent EXCEPT ![Console] = @ + 1]
  /\ log_when_stopped_' =
       Append(log_when_stopped_, [by |-> Console, nr |-> sent[Console] + 1])
  /\ UNCHANGED <<stop_flag_, screen, lost, worker, console, next, end, moved, process, late>>

CommandEnds ==
  /\ process = "running" /\ console = "prompt"
  /\ console' = "continue"
  /\ UNCHANGED <<stop_flag_, log_when_stopped_, screen, lost, sent, worker, next, end,
                 moved, process, late>>

\* exit(0), with whatever the history holds.
Exit ==
  /\ process = "running" /\ console = "prompt"
  /\ process' = "exited"
  /\ UNCHANGED <<stop_flag_, log_when_stopped_, screen, lost, sent, worker, console,
                 next, end, moved, late>>

-----------------------------------------------------------------------------

_continue == Continue \/ Drain \/ DrainLine \/ DrainClears \/ DrainCrashes

run == _continue \/ NoKey \/ Key \/ CommandLogs \/ CommandEnds \/ Exit

Next ==
  \/ \E w \in Workers : LogReadsFlag(w) \/ LogPrints(w) \/ LogStores(w)
  \/ run

Spec == Init /\ [][Next]_vars

\* A thread that is inside _continue or log goes on.
FairSpec ==
  /\ Spec
  /\ WF_vars(_continue)
  /\ \A w \in Workers : WF_vars(LogPrints(w) \/ LogStores(w))

-----------------------------------------------------------------------------
(* Properties. *)

\* Type invariant.
TypeOK ==
  /\ stop_flag_ \in BOOLEAN
  /\ log_when_stopped_ \in Seq(Line)
  /\ screen \in Seq(Line)
  /\ lost \in SUBSET Line
  /\ sent \in [Threads -> 0 .. MaxLines]
  /\ worker \in [Workers -> {"idle", "prints", "stores"}]
  /\ console \in {"continue", "drain", "print", "clear", "key", "prompt"}
  /\ next \in Nat \ {0} /\ end \in Nat
  /\ moved \in BOOLEAN
  /\ process \in {"running", "crashed", "exited"}
  /\ late \in Nat

\* No line is printed twice, or printed and lost; and what is printed or lost but
\* still in the history is the part that the drain has behind it or cannot reach
\* any more, so clear() is due before the next drain.
PrintedOnce ==
  /\ \A i, j \in DOMAIN screen : screen[i] = screen[j] => i = j
  /\ Lines(screen) \cap lost = {}
  /\ \A i \in DOMAIN log_when_stopped_ :
       log_when_stopped_[i] \in Lines(screen) \cup lost <=>
         Draining /\ (i < next \/ (moved /\ i <= end))

\* The console's own lines (the answers to commands) are printed or wait in their
\* order, and none is missing but those that are lost.
AnswersInOrder ==
  LET all     == screen \o Unprinted
      answers == {i \in DOMAIN all : all[i].by = Console}
  IN /\ {all[i].nr : i \in answers} =
          (1 .. sent[Console]) \ {l.nr : l \in {k \in lost : k.by = Console}}
     /\ \A i, k \in answers : i < k => all[i].nr < all[k].nr

\* An answer is lost only to a worker's push_back that moves the buffer under the
\* drain, never to the clear(): no answer lies behind the end that the drain took.
AnswersLostByMoves ==
  [][\A l \in lost' \ lost : l.by = Console => Draining /\ moved']_vars

\* Answers survive the drain but for that one way.
AnswersSurvive == []AnswersInOrder /\ AnswersLostByMoves

\* While the host types, a worker disturbs the prompt at most once: by the line
\* that it was about to print when the logger was stopped.
QuietPrompt == stop_flag_ => late <= Cardinality(Workers)

\* As long as the console comes round, a stored line does not wait for another
\* one to be logged: the history is drained, late lines included.
HistoryIsDrained ==
  []<>(console = "continue") =>
    \A l \in Line : (l \in Lines(log_when_stopped_)) ~> (l \notin Lines(log_when_stopped_))

-----------------------------------------------------------------------------
(* What a comment says, and the code does not do. *)

\* CommandHandler.hpp, run: thread safe, the history of the log is saved
\* automatically.  No line is destroyed unprinted.
HistoryIsSaved == lost = {}

=============================================================================
