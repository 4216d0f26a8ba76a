---------------------------- MODULE Logger_proofs ----------------------------
(***************************************************************************)
(* Proofs about Logger, for any finite set of threads and any number of    *)
(* lines.                                                                  *)
(***************************************************************************)
EXTENDS Logger, FiniteSetTheorems, TLAPS

-----------------------------------------------------------------------------
(* The invariant. *)

\* The drain's place in the history.
DrainPlace ==
  /\ moved => Draining
  /\ Draining => end <= Len(log_when_stopped_)
  /\ console = "print" => next <= end
  /\ console = "clear" => next = end + 1

\* Only the prompt leaves the flag up, and lines are late only while it is.
FlagAndPlace ==
  /\ console \in {"drain", "print", "clear", "key"} => ~stop_flag_
  /\ ~stop_flag_ => late = 0

\* What the drain has before it is not on the screen, moved or not.
DrainAhead ==
  Draining => \A i \in DOMAIN log_when_stopped_ :
                i >= next => log_when_stopped_[i] \notin Lines(screen)

\* The lines that log has disposed of.
Handed == Lines(log_when_stopped_) \cup Lines(screen) \cup lost

\* They were handed to log before, and a line with which a worker is under way is
\* nowhere yet.
Fresh ==
  /\ \A l \in Handed : l.nr <= sent[l.by]
  /\ \A w \in Workers :
       worker[w] # "idle" =>
         /\ sent[w] > 0
         /\ LastLine(w) \notin Handed

Once(q) == \A i, j \in DOMAIN q : q[i] = q[j] => i = j

Printing == {w \in Workers : worker[w] = "prints"}

Quiet == stop_flag_ => late + Cardinality(Printing) <= Cardinality(Workers)

LoggerInv ==
  /\ TypeOK /\ DrainPlace /\ DrainAhead /\ FlagAndPlace /\ Fresh
  /\ Once(log_when_stopped_) /\ PrintedOnce /\ Quiet

-----------------------------------------------------------------------------
(* Lines. *)

\* A line that is new to a sequence.
LEMMA AppendLine ==
  ASSUME NEW q \in Seq(Line), NEW l \in Line, Once(q), l \notin Lines(q)
  PROVE  /\ Append(q, l) \in Seq(Line) /\ Once(Append(q, l))
         /\ Lines(Append(q, l)) = Lines(q) \cup {l}
         /\ DOMAIN Append(q, l) = 1 .. Len(q) + 1 /\ DOMAIN q = 1 .. Len(q)
         /\ Len(Append(q, l)) = Len(q) + 1 /\ Len(q) \in Nat
         /\ \A i \in 1 .. Len(q) : Append(q, l)[i] = q[i]
         /\ Append(q, l)[Len(q) + 1] = l
<1> DEFINE s == Append(q, l)
<1>1. /\ s \in Seq(Line) /\ Len(s) = Len(q) + 1
      /\ DOMAIN s = 1 .. Len(q) + 1 /\ DOMAIN q = 1 .. Len(q)
      /\ \A i \in 1 .. Len(q) : s[i] = q[i]
      /\ s[Len(q) + 1] = l
      /\ Len(q) \in Nat
  OBVIOUS
<1> HIDE DEF s
<1>2. \A i \in DOMAIN s : \/ i \in DOMAIN q /\ s[i] = q[i]
                          \/ i = Len(q) + 1 /\ s[i] = l
  BY <1>1
<1>3. Once(s)
  BY <1>1, <1>2 DEF Once, Lines
<1>4. Lines(s) = Lines(q) \cup {l}
  BY <1>1, <1>2 DEF Lines
<1> QED
  BY <1>1, <1>3, <1>4 DEF s

LEMMA LineFacts ==
  ASSUME NEW t, NEW n
  PROVE  /\ [by |-> t, nr |-> n].by = t /\ [by |-> t, nr |-> n].nr = n
         /\ t \in Threads /\ n \in 1 .. MaxLines => [by |-> t, nr |-> n] \in Line
BY DEF Line

LEMMA NoLines == Lines(<<>>) = {} /\ DOMAIN <<>> = {}
BY DEF Lines

LEMMA LoggerInit == Init => LoggerInv
<1> SUFFICES ASSUME Init PROVE LoggerInv
  OBVIOUS
<1>1. \A S : <<>> \in Seq(S)
  OBVIOUS
<1>2. TypeOK
  <2>1. log_when_stopped_ \in Seq(Line) /\ screen \in Seq(Line) /\ lost \in SUBSET Line
    BY <1>1 DEF Init
  <2>2. /\ sent \in [Threads -> 0 .. MaxLines]
        /\ worker \in [Workers -> {"idle", "prints", "stores"}]
    BY LoggerAssumption DEF Init
  <2>3. stop_flag_ \in BOOLEAN
    BY Zenon DEF Init
  <2>4. /\ console \in {"continue", "drain", "print", "clear", "key", "prompt"}
        /\ next \in Nat \ {0} /\ end \in Nat
        /\ process \in {"running", "crashed", "exited"} /\ late \in Nat
    BY DEF Init
  <2>5. moved \in BOOLEAN
    BY Zenon DEF Init
  <2> QED
    BY <2>1, <2>2, <2>3, <2>4, <2>5 DEF TypeOK
<1>3. DrainPlace /\ DrainAhead /\ FlagAndPlace
  BY DEF Init, DrainPlace, DrainAhead, FlagAndPlace, Draining
<1>4. Fresh /\ Once(log_when_stopped_) /\ PrintedOnce
  BY NoLines DEF Init, Fresh, Handed, Once, PrintedOnce
<1>5. Quiet
  BY DEF Init, Quiet
<1> QED
  BY <1>2, <1>3, <1>4, <1>5 DEF LoggerInv

-----------------------------------------------------------------------------
(* The workers. *)

\* Workers that leave for the other branch of log, or not for log at all, leave
\* the bound on late lines.
LEMMA QuietKeeps ==
  ASSUME LoggerInv, UNCHANGED <<stop_flag_, late>>, stop_flag_ => Printing' \subseteq Printing
  PROVE  Quiet'
<1> SUFFICES ASSUME stop_flag_
             PROVE  late + Cardinality(Printing') <= Cardinality(Workers)
  BY DEF Quiet
<1>1. IsFiniteSet(Workers) /\ Printing \subseteq Workers
  BY LoggerAssumption DEF Printing
<1>2. /\ IsFiniteSet(Printing) /\ IsFiniteSet(Printing')
      /\ Cardinality(Printing') <= Cardinality(Printing)
  BY <1>1, FS_Subset
<1>3. Cardinality(Printing) \in Nat /\ Cardinality(Printing') \in Nat
      /\ Cardinality(Workers) \in Nat /\ late \in Nat
  BY <1>1, <1>2, FS_CardinalityType DEF LoggerInv, TypeOK
<1> QED
  BY <1>2, <1>3 DEF LoggerInv, Quiet

LEMMA LogReadsFlagKeeps ==
  ASSUME LoggerInv, NEW w \in Workers, LogReadsFlag(w)
  PROVE  LoggerInv'
<1>1. /\ worker[w] = "idle" /\ sent[w] < MaxLines
      /\ sent' = [sent EXCEPT ![w] = @ + 1]
      /\ worker' = [worker EXCEPT ![w] = IF stop_flag_ THEN "stores" ELSE "prints"]
      /\ UNCHANGED <<stop_flag_, log_when_stopped_, screen, lost, console, next, end, late,
                     moved, process>>
  BY DEF LogReadsFlag
<1>2. /\ sent \in [Threads -> 0 .. MaxLines] /\ MaxLines \in Nat /\ w \in Threads
      /\ worker \in [Workers -> {"idle", "prints", "stores"}]
      /\ Workers \subseteq Threads
  BY LoggerAssumption DEF LoggerInv, TypeOK, Threads
<1>3. TypeOK'
  <2>1. sent' \in [Threads -> 0 .. MaxLines]
    BY <1>1, <1>2
  <2>2. worker' \in [Workers -> {"idle", "prints", "stores"}]
    BY <1>1, <1>2
  <2> QED
    BY <1>1, <2>1, <2>2 DEF LoggerInv, TypeOK
<1>4. /\ DrainPlace' /\ DrainAhead' /\ FlagAndPlace' /\ Once(log_when_stopped_)'
      /\ PrintedOnce'
  BY <1>1 DEF LoggerInv, DrainPlace, DrainAhead, FlagAndPlace, Draining, Once, PrintedOnce,
              Lines
<1>5. Handed' = Handed
  BY <1>1 DEF Handed
<1>6. \A l \in Handed :
        l.by \in Threads /\ l.nr \in Nat /\ l.nr <= sent[l.by] /\ l.nr <= sent'[l.by]
  <2> SUFFICES ASSUME NEW l \in Handed
               PROVE  l.by \in Threads /\ l.nr \in Nat /\ l.nr <= sent[l.by]
                      /\ l.nr <= sent'[l.by]
    OBVIOUS
  <2>1. l \in Line
    BY DEF Handed, Lines, LoggerInv, TypeOK
  <2>2. l.by \in Threads /\ l.nr \in Nat /\ l.nr <= sent[l.by]
    BY <1>2, <2>1 DEF Line, LoggerInv, Fresh
  <2>3. sent[l.by] \in Nat /\ sent'[l.by] \in {sent[l.by], sent[l.by] + 1}
    BY <1>1, <1>2, <2>2
  <2> QED
    BY <2>2, <2>3
<1>7. ASSUME NEW v \in Workers, worker'[v] # "idle"
      PROVE  /\ sent'[v] > 0
             /\ LastLine(v)' \notin Handed
  <2>1. CASE v = w
    <3>1. sent'[v] = sent[v] + 1 /\ sent[v] \in Nat
      BY <1>1, <1>2, <2>1
    <3>2. LastLine(v)'.by = v /\ LastLine(v)'.nr = sent[v] + 1
      BY <3>1 DEF LastLine
    <3> QED
      BY <1>6, <3>1, <3>2
  <2>2. CASE v # w
    <3>1. worker[v] # "idle" /\ sent'[v] = sent[v]
      BY <1>1, <1>2, <1>7, <2>2
    <3>2. LastLine(v)' = LastLine(v)
      BY <3>1 DEF LastLine
    <3> QED
      BY <3>1, <3>2 DEF LoggerInv, Fresh
  <2> QED
    BY <2>1, <2>2
<1>8. Fresh'
  BY <1>5, <1>6, <1>7 DEF Fresh
<1>9. stop_flag_ => Printing' \subseteq Printing
  BY <1>1, <1>2 DEF Printing
<1> QED
  BY <1>1, <1>3, <1>4, <1>8, <1>9, QuietKeeps DEF LoggerInv

\* What a worker is about to hand out.
LEMMA LastLineFacts ==
  ASSUME LoggerInv, NEW w \in Workers, worker[w] # "idle"
  PROVE  /\ LastLine(w) \in Line /\ LastLine(w).by = w /\ LastLine(w).nr = sent[w]
         /\ LastLine(w) \notin Handed
<1>1. w \in Threads /\ sent[w] \in 1 .. MaxLines
  BY LoggerAssumption DEF LoggerInv, TypeOK, Fresh, Threads
<1> QED
  BY <1>1, LineFacts DEF LastLine, LoggerInv, Fresh

\* A worker that hands its line out is under way with nothing; its line is not
\* another worker's.
LEMMA HandedOut ==
  ASSUME LoggerInv, NEW w \in Workers, worker[w] # "idle",
         worker' = [worker EXCEPT ![w] = "idle"], UNCHANGED sent,
         Handed' = Handed \cup {LastLine(w)}
  PROVE  Fresh'
<1>1. LastLine(w).by = w /\ LastLine(w).nr = sent[w] /\ sent[w] \in Nat
  BY LastLineFacts, LoggerAssumption DEF LoggerInv, TypeOK, Threads
<1>2. \A l \in Handed' : l.nr <= sent[l.by]
  BY <1>1 DEF LoggerInv, Fresh
<1>3. ASSUME NEW v \in Workers, worker'[v] # "idle"
      PROVE  /\ sent[v] > 0
             /\ LastLine(v) \notin Handed'
  <2>1. v # w /\ worker[v] # "idle"
    BY <1>3 DEF LoggerInv, TypeOK
  <2>2. LastLine(v).by = v
    BY DEF LastLine
  <2> QED
    BY <1>1, <2>1, <2>2 DEF LoggerInv, Fresh
<1>4. \A v \in Workers : LastLine(v)' = LastLine(v)
  BY DEF LastLine
<1> QED
  BY <1>2, <1>3, <1>4 DEF Fresh

LEMMA LogPrintsKeeps ==
  ASSUME LoggerInv, NEW w \in Workers, LogPrints(w)
  PROVE  LoggerInv'
<1>1. /\ worker[w] = "prints" /\ worker' = [worker EXCEPT ![w] = "idle"]
      /\ screen' = Append(screen, LastLine(w))
      /\ late' = IF stop_flag_ THEN late + 1 ELSE late
      /\ UNCHANGED <<stop_flag_, log_when_stopped_, lost, sent, console, next, end,
                     moved, process>>
  BY DEF LogPrints
<1>2. /\ LastLine(w) \in Line
      /\ LastLine(w) \notin Lines(log_when_stopped_) \cup Lines(screen) \cup lost
  BY <1>1, LastLineFacts DEF Handed
<1>3. screen \in Seq(Line) /\ Once(screen)
  BY DEF LoggerInv, TypeOK, PrintedOnce, Once
<1>4. /\ screen' \in Seq(Line) /\ Once(screen')
      /\ Lines(screen') = Lines(screen) \cup {LastLine(w)}
  BY <1>1, <1>2, <1>3, AppendLine
<1>5. TypeOK'
  <2>1. worker' \in [Workers -> {"idle", "prints", "stores"}] /\ late' \in Nat
    BY <1>1 DEF LoggerInv, TypeOK
  <2> QED
    BY <1>1, <1>4, <2>1 DEF LoggerInv, TypeOK
<1>6. DrainPlace' /\ FlagAndPlace' /\ Once(log_when_stopped_)'
  BY <1>1 DEF LoggerInv, DrainPlace, FlagAndPlace, Draining, Once
<1>10. DrainAhead'
  BY <1>1, <1>2, <1>4 DEF LoggerInv, DrainAhead, Draining, Lines
<1>7. Fresh'
  <2>1. Handed' = Handed \cup {LastLine(w)}
    BY <1>1, <1>4 DEF Handed
  <2> QED
    BY <1>1, <2>1, HandedOut
<1>8. PrintedOnce'
  <2>1. \A i \in DOMAIN log_when_stopped_ : log_when_stopped_[i] \in Lines(log_when_stopped_)
    BY DEF Lines
  <2>2. \A i \in DOMAIN log_when_stopped_ :
          log_when_stopped_[i] \in Lines(screen') <=> log_when_stopped_[i] \in Lines(screen)
    BY <1>2, <1>4, <2>1
  <2>3. Lines(screen') \cap lost' = {}
    BY <1>1, <1>2, <1>4 DEF LoggerInv, PrintedOnce
  <2> QED
    BY <1>1, <1>4, <2>2, <2>3 DEF LoggerInv, PrintedOnce, Once, Draining
<1>9. Quiet'
  <2> SUFFICES ASSUME stop_flag_
               PROVE  late' + Cardinality(Printing') <= Cardinality(Workers)
    BY <1>1 DEF Quiet
  <2>1. w \in Printing /\ Printing' = Printing \ {w} /\ Printing \subseteq Workers
    BY <1>1 DEF Printing, LoggerInv, TypeOK
  <2>2. IsFiniteSet(Workers) /\ IsFiniteSet(Printing)
    BY <2>1, LoggerAssumption, FS_Subset
  <2>3. Cardinality(Printing') = Cardinality(Printing) - 1
    BY <2>1, <2>2, FS_RemoveElement
  <2>4. Cardinality(Printing) \in Nat /\ Cardinality(Workers) \in Nat /\ late \in Nat
    BY <2>2, FS_CardinalityType DEF LoggerInv, TypeOK
  <2>5. late' = late + 1
    BY <1>1
  <2> QED
    BY <2>3, <2>4, <2>5 DEF LoggerInv, Quiet
<1> QED
  BY <1>4, <1>5, <1>6, <1>7, <1>8, <1>9, <1>10 DEF LoggerInv

\* What the drain walks over is destroyed when the buffer moves.
Destroyed == {log_when_stopped_[i] : i \in next .. end}

\* A line that is new comes last in the history, behind the drain's end; pushing it
\* may destroy what the drain has before it.
LEMMA StoredIsUnprinted ==
  ASSUME LoggerInv, NEW l \in Line, l \notin Handed,
         log_when_stopped_' = Append(log_when_stopped_, l),
         UNCHANGED <<screen, console, next, end>>,
         \/ UNCHANGED <<moved, lost>>
         \/ Draining /\ moved' = TRUE /\ lost' = lost \cup Destroyed
  PROVE  /\ log_when_stopped_' \in Seq(Line) /\ Once(log_when_stopped_')
         /\ Handed' = Handed \cup {l}
         /\ lost' \in SUBSET Line /\ moved' \in BOOLEAN
         /\ DrainPlace' /\ DrainAhead' /\ PrintedOnce'
<1>1. log_when_stopped_ \in Seq(Line) /\ next \in Nat \ {0} /\ end \in Nat
      /\ Once(log_when_stopped_) /\ lost \in SUBSET Line
  BY DEF LoggerInv, TypeOK
<1>9. moved' \in BOOLEAN
  <2>1. moved \in BOOLEAN
    BY DEF LoggerInv, TypeOK
  <2> QED
    BY <2>1, Zenon
<1>2. /\ log_when_stopped_' \in Seq(Line) /\ Once(log_when_stopped_')
      /\ Lines(log_when_stopped_') = Lines(log_when_stopped_) \cup {l}
      /\ DOMAIN log_when_stopped_' = 1 .. Len(log_when_stopped_) + 1
      /\ DOMAIN log_when_stopped_ = 1 .. Len(log_when_stopped_)
      /\ Len(log_when_stopped_') = Len(log_when_stopped_) + 1
      /\ Len(log_when_stopped_) \in Nat
      /\ \A i \in 1 .. Len(log_when_stopped_) : log_when_stopped_'[i] = log_when_stopped_[i]
      /\ log_when_stopped_'[Len(log_when_stopped_) + 1] = l
  <2>1. l \notin Lines(log_when_stopped_)
    BY DEF Handed
  <2> QED
    BY <1>1, <2>1, AppendLine
<1>3. DrainPlace'
  BY <1>1, <1>2 DEF LoggerInv, DrainPlace, Draining
<1>4. l \notin Lines(screen) /\ l \notin lost
  BY DEF Handed
<1>5. DrainAhead'
  <2>1. ASSUME Draining, NEW i \in DOMAIN log_when_stopped_', i >= next
        PROVE  log_when_stopped_'[i] \notin Lines(screen)
    <3>1. CASE i \in DOMAIN log_when_stopped_
      BY <1>2, <2>1, <3>1 DEF LoggerInv, DrainAhead
    <3>2. CASE i = Len(log_when_stopped_) + 1
      BY <1>2, <1>4, <3>2
    <3> QED
      BY <1>2, <3>1, <3>2
  <2> QED
    BY <2>1 DEF DrainAhead, Draining
<1>6. CASE UNCHANGED <<moved, lost>>
  <2>1. Handed' = Handed \cup {l}
    BY <1>2, <1>6 DEF Handed
  <2>2. Draining => ~(Len(log_when_stopped_) + 1 < next)
                    /\ ~(Len(log_when_stopped_) + 1 <= end)
    BY <1>1, <1>2 DEF LoggerInv, DrainPlace, Draining
  <2>3. ASSUME NEW i \in DOMAIN log_when_stopped_'
        PROVE  log_when_stopped_'[i] \in Lines(screen) \cup lost <=>
                 Draining /\ (i < next \/ (moved /\ i <= end))
    <3>1. CASE i \in DOMAIN log_when_stopped_
      BY <1>2, <3>1 DEF LoggerInv, PrintedOnce
    <3>2. CASE i = Len(log_when_stopped_) + 1
      BY <1>2, <1>4, <2>2, <3>2
    <3> QED
      BY <1>2, <3>1, <3>2
  <2>4. PrintedOnce'
    BY <1>6, <2>3 DEF LoggerInv, PrintedOnce, Draining
  <2> QED
    BY <1>1, <1>2, <1>3, <1>5, <1>6, <1>9, <2>1, <2>4
<1>7. CASE Draining /\ moved' = TRUE /\ lost' = lost \cup Destroyed
  <2>1. /\ end <= Len(log_when_stopped_) /\ next <= end + 1
        /\ \A i \in next .. end : i \in DOMAIN log_when_stopped_
    BY <1>1, <1>2, <1>7 DEF LoggerInv, DrainPlace, Draining
  <2>2. Destroyed \subseteq Lines(log_when_stopped_) /\ Destroyed \cap Lines(screen) = {}
    <3>1. ASSUME NEW k \in Destroyed
          PROVE  k \in Lines(log_when_stopped_) /\ k \notin Lines(screen)
      <4>1. PICK i \in next .. end : k = log_when_stopped_[i]
        BY DEF Destroyed
      <4>2. i \in DOMAIN log_when_stopped_ /\ i >= next
        BY <1>1, <2>1
      <4> QED
        BY <1>7, <4>1, <4>2 DEF Lines, LoggerInv, DrainAhead
    <3> QED
      BY <3>1
  <2>3. Handed' = Handed \cup {l}
    BY <1>2, <1>7, <2>2 DEF Handed
  <2>4. lost' \in SUBSET Line
    BY <1>1, <1>7, <2>2 DEF Lines
  <2>5. \A i \in DOMAIN log_when_stopped_ : log_when_stopped_[i] \in Destroyed
                                             <=> i >= next /\ i <= end
    <3> SUFFICES ASSUME NEW i \in DOMAIN log_when_stopped_
                 PROVE  log_when_stopped_[i] \in Destroyed <=> i \in next .. end
      BY <1>1, <1>2
    <3> QED
      BY <1>1, <2>1 DEF Destroyed, Once
  <2>6. ASSUME NEW i \in DOMAIN log_when_stopped_'
        PROVE  log_when_stopped_'[i] \in Lines(screen) \cup lost' <=> i < next \/ i <= end
    <3>1. CASE i \in DOMAIN log_when_stopped_
      <4>1. log_when_stopped_[i] \in Lines(screen) \cup lost <=>
              i < next \/ (moved /\ i <= end)
        BY <1>7, <3>1 DEF LoggerInv, PrintedOnce
      <4>2. i \in Nat
        BY <1>2
      <4> QED
        BY <1>1, <1>2, <1>7, <2>5, <3>1, <4>1, <4>2
    <3>2. CASE i = Len(log_when_stopped_) + 1
      <4>1. l \notin Destroyed
        BY <2>2 DEF Handed
      <4>2. ~(i < next) /\ ~(i <= end)
        BY <1>1, <1>2, <2>1, <3>2
      <4> QED
        BY <1>2, <1>4, <1>7, <3>2, <4>1, <4>2
    <3> QED
      BY <1>2, <3>1, <3>2
  <2>7. PrintedOnce'
    BY <1>7, <2>2, <2>6 DEF LoggerInv, PrintedOnce, Draining
  <2> QED
    BY <1>2, <1>3, <1>5, <1>9, <2>3, <2>4, <2>7
<1> QED
  BY <1>6, <1>7

LEMMA LogStoresKeeps ==
  ASSUME LoggerInv, NEW w \in Workers, LogStores(w)
  PROVE  LoggerInv'
<1>1. /\ worker[w] = "stores" /\ worker' = [worker EXCEPT ![w] = "idle"]
      /\ log_when_stopped_' = Append(log_when_stopped_, LastLine(w))
      /\ \/ UNCHANGED <<moved, lost>>
         \/ Draining /\ moved' = TRUE /\ lost' = lost \cup Destroyed
      /\ UNCHANGED <<stop_flag_, screen, sent, console, next, end, process, late>>
  BY DEF LogStores, Destroyed
<1>2. LastLine(w) \in Line /\ LastLine(w) \notin Handed
  BY <1>1, LastLineFacts
<1>3. /\ log_when_stopped_' \in Seq(Line) /\ Once(log_when_stopped_')
      /\ Handed' = Handed \cup {LastLine(w)}
      /\ lost' \in SUBSET Line /\ moved' \in BOOLEAN
      /\ DrainPlace' /\ DrainAhead' /\ PrintedOnce'
  BY <1>1, <1>2, StoredIsUnprinted
<1>4. TypeOK'
  <2>1. worker' \in [Workers -> {"idle", "prints", "stores"}]
    BY <1>1 DEF LoggerInv, TypeOK
  <2> QED
    BY <1>1, <1>3, <2>1 DEF LoggerInv, TypeOK
<1>5. FlagAndPlace'
  BY <1>1 DEF LoggerInv, FlagAndPlace
<1>6. Fresh'
  BY <1>1, <1>3, HandedOut
<1>7. Printing' \subseteq Printing
  BY <1>1 DEF Printing, LoggerInv, TypeOK
<1> QED
  BY <1>1, <1>3, <1>4, <1>5, <1>6, <1>7, QuietKeeps DEF LoggerInv

-----------------------------------------------------------------------------
(* The console. *)

\* A step of the console that hands out no line.
LEMMA ConsoleKeeps ==
  ASSUME LoggerInv,
         UNCHANGED <<log_when_stopped_, screen, lost, sent, worker>>
  PROVE  Fresh' /\ Once(log_when_stopped_') /\ Printing' = Printing
         /\ Lines(screen') = Lines(screen)
BY DEF LoggerInv, Fresh, Handed, Once, Printing, LastLine

LEMMA FlagKeeps ==
  ASSUME LoggerInv,
         Continue \/ Drain \/ DrainCrashes \/ NoKey \/ Key \/ CommandEnds \/ Exit
  PROVE  LoggerInv'
<1>1. /\ UNCHANGED <<log_when_stopped_, screen, lost, sent, worker>>
      /\ log_when_stopped_ \in Seq(Line) /\ Len(log_when_stopped_) \in Nat
      /\ DOMAIN log_when_stopped_ = 1 .. Len(log_when_stopped_)
  BY DEF Continue, Drain, DrainCrashes, NoKey, Key, CommandEnds, Exit, LoggerInv, TypeOK
<1>2. Fresh' /\ Once(log_when_stopped_') /\ Printing' = Printing
      /\ Lines(screen') = Lines(screen)
  BY <1>1, ConsoleKeeps
<1>3. TypeOK'
  <2>1. stop_flag_' \in BOOLEAN
    BY Zenon DEF Continue, Drain, DrainCrashes, NoKey, Key, CommandEnds, Exit, LoggerInv, TypeOK
  <2>2. next' \in Nat \ {0} /\ end' \in Nat
    BY <1>1 DEF Continue, Drain, DrainCrashes, NoKey, Key, CommandEnds, Exit, LoggerInv, TypeOK
  <2>3. late' \in Nat /\ process' \in {"running", "crashed", "exited"} /\ moved' = moved
    BY DEF Continue, Drain, DrainCrashes, NoKey, Key, CommandEnds, Exit, LoggerInv, TypeOK
  <2>4. console' \in {"continue", "drain", "print", "clear", "key", "prompt"}
    BY DEF Continue, Drain, DrainCrashes, NoKey, Key, CommandEnds, Exit, LoggerInv, TypeOK
  <2> QED
    BY <1>1, <2>1, <2>2, <2>3, <2>4 DEF LoggerInv, TypeOK
<1>4. FlagAndPlace'
  BY DEF Continue, Drain, DrainCrashes, NoKey, Key, CommandEnds, Exit, LoggerInv, TypeOK,
     FlagAndPlace
<1>5. DrainPlace' /\ DrainAhead' /\ PrintedOnce'
  <2>1. CASE Drain
    <3>1. /\ next' = 1 /\ end' = Len(log_when_stopped_) /\ console = "drain"
          /\ console' = IF log_when_stopped_ = <<>> THEN "key" ELSE "print"
      BY <2>1 DEF Drain
    <3>2. log_when_stopped_ # <<>> => Len(log_when_stopped_) >= 1
      BY <1>1
    <3>6. ~Draining /\ ~moved /\ ~moved'
      BY <3>1, <2>1 DEF Drain, Draining, LoggerInv, DrainPlace
    <3>3. DrainPlace'
      BY <1>1, <3>1, <3>2, <3>6 DEF DrainPlace, Draining
    <3>4. \A i \in DOMAIN log_when_stopped_ : ~(i < 1)
      BY <1>1
    <3>7. \A i \in DOMAIN log_when_stopped_ :
            log_when_stopped_[i] \notin Lines(screen) \cup lost
      BY <3>6 DEF LoggerInv, PrintedOnce
    <3>5. PrintedOnce'
      BY <1>1, <1>2, <3>1, <3>4, <3>6, <3>7 DEF LoggerInv, PrintedOnce
    <3>8. DrainAhead'
      BY <1>1, <1>2, <3>7 DEF DrainAhead
    <3> QED
      BY <3>3, <3>5, <3>8
  <2>2. CASE DrainCrashes
    <3>1. UNCHANGED <<console, next, end, moved>>
      BY <2>2 DEF DrainCrashes
    <3> QED
      BY <1>1, <1>2, <3>1 DEF LoggerInv, DrainPlace, DrainAhead, PrintedOnce, Draining
  <2>3. CASE ~Drain /\ ~DrainCrashes
    <3>1. /\ ~Draining /\ ~Draining' /\ console' \notin {"print", "clear"}
          /\ moved' = moved
      BY <2>3 DEF Continue, NoKey, Key, CommandEnds, Exit, Draining
    <3> QED
      BY <1>1, <1>2, <3>1 DEF LoggerInv, DrainPlace, DrainAhead, PrintedOnce, Draining
  <2> QED
    BY <2>1, <2>2, <2>3
<1>6. Quiet'
  <2>1. CASE Continue
    BY <2>1 DEF Continue, Quiet
  <2>2. CASE Key
    <3>1. late = 0 /\ late' = 0
      BY <2>2 DEF Key, LoggerInv, FlagAndPlace
    <3>2. IsFiniteSet(Workers) /\ Printing \subseteq Workers
      BY LoggerAssumption DEF Printing
    <3>3. Cardinality(Printing) <= Cardinality(Workers) /\ Cardinality(Printing) \in Nat
      BY <3>2, FS_Subset, FS_CardinalityType
    <3> QED
      BY <1>2, <3>1, <3>3 DEF Quiet
  <2>3. CASE ~Continue /\ ~Key
    <3>1. UNCHANGED <<stop_flag_, late>>
      BY <2>3 DEF Drain, DrainCrashes, NoKey, CommandEnds, Exit
    <3> QED
      BY <1>2, <3>1 DEF LoggerInv, Quiet
  <2> QED
    BY <2>1, <2>2, <2>3
<1> QED
  BY <1>2, <1>3, <1>4, <1>5, <1>6 DEF LoggerInv

\* A line of a buffer that is gone is not printed.
LEMMA MovedLineKeeps ==
  ASSUME LoggerInv, DrainLine, moved
  PROVE  LoggerInv'
<1>1. /\ console = "print" /\ next' = next + 1
      /\ console' = IF next = end THEN "clear" ELSE "print"
      /\ UNCHANGED <<stop_flag_, log_when_stopped_, screen, lost, sent, worker, end, moved,
                     process, late>>
  BY DEF DrainLine
<1>2. /\ next \in Nat \ {0} /\ end \in Nat /\ Len(log_when_stopped_) \in Nat
      /\ DOMAIN log_when_stopped_ = 1 .. Len(log_when_stopped_)
  BY DEF LoggerInv, TypeOK
<1>3. next <= end /\ end <= Len(log_when_stopped_) /\ Draining /\ Draining'
  BY <1>1, <1>2 DEF LoggerInv, DrainPlace, Draining
<1>4. TypeOK'
  <2>1. next' \in Nat \ {0}
    BY <1>1, <1>2
  <2> QED
    BY <1>1, <2>1 DEF LoggerInv, TypeOK
<1>5. DrainPlace' /\ FlagAndPlace'
  BY <1>1, <1>2, <1>3 DEF LoggerInv, DrainPlace, FlagAndPlace, Draining
<1>6. DrainAhead'
  BY <1>1, <1>2, <1>3 DEF LoggerInv, DrainAhead
<1>7. PrintedOnce'
  <2>1. \A i \in DOMAIN log_when_stopped_ :
          (i < next + 1 \/ i <= end) <=> (i < next \/ i <= end)
    BY <1>2, <1>3
  <2> QED
    BY <1>1, <1>3, <2>1 DEF LoggerInv, PrintedOnce
<1>8. Fresh' /\ Once(log_when_stopped_') /\ Printing' = Printing
  BY <1>1, ConsoleKeeps
<1> QED
  BY <1>1, <1>4, <1>5, <1>6, <1>7, <1>8, QuietKeeps DEF LoggerInv

LEMMA DrainLineKeeps ==
  ASSUME LoggerInv, DrainLine, ~moved
  PROVE  LoggerInv'
<1> DEFINE l == log_when_stopped_[next]
<1>1. /\ console = "print" /\ screen' = Append(screen, l) /\ next' = next + 1
      /\ console' = IF next = end THEN "clear" ELSE "print"
      /\ UNCHANGED <<stop_flag_, log_when_stopped_, lost, sent, worker, end, moved, process,
                     late>>
  BY DEF DrainLine
<1>2. /\ log_when_stopped_ \in Seq(Line) /\ screen \in Seq(Line) /\ Once(screen)
      /\ next \in Nat \ {0} /\ end \in Nat /\ Len(log_when_stopped_) \in Nat
      /\ DOMAIN log_when_stopped_ = 1 .. Len(log_when_stopped_)
  BY DEF LoggerInv, TypeOK, PrintedOnce, Once
<1>3. next <= end /\ end <= Len(log_when_stopped_) /\ next \in DOMAIN log_when_stopped_
  BY <1>1, <1>2 DEF LoggerInv, DrainPlace, Draining
<1>4. l \in Line /\ l \notin Lines(screen) \cup lost /\ l \in Lines(log_when_stopped_)
  <2>1. ~(next < next)
    BY <1>2
  <2> QED
    BY <1>2, <1>3, <2>1 DEF LoggerInv, PrintedOnce, Lines
<1> HIDE DEF l
<1>5. /\ screen' \in Seq(Line) /\ Once(screen')
      /\ Lines(screen') = Lines(screen) \cup {l}
  BY <1>1, <1>2, <1>4, AppendLine
<1>6. TypeOK'
  <2>1. next' \in Nat \ {0}
    BY <1>1, <1>2
  <2> QED
    BY <1>1, <1>5, <2>1 DEF LoggerInv, TypeOK
<1>7. DrainPlace' /\ FlagAndPlace'
  BY <1>1, <1>2, <1>3 DEF LoggerInv, DrainPlace, FlagAndPlace, Draining
<1>8. Fresh'
  <2>1. Handed' = Handed
    BY <1>1, <1>4, <1>5 DEF Handed
  <2>2. \A w \in Workers : LastLine(w)' = LastLine(w)
    BY <1>1 DEF LastLine
  <2> QED
    BY <1>1, <2>1, <2>2 DEF LoggerInv, Fresh
<1>9. PrintedOnce'
  <2>1. ASSUME NEW i \in DOMAIN log_when_stopped_
        PROVE  log_when_stopped_[i] \in Lines(screen') \cup lost <=> i < next + 1
    <3>1. log_when_stopped_[i] \in Lines(screen) \cup lost <=> i < next
      BY <1>1 DEF LoggerInv, PrintedOnce, Draining
    <3>2. log_when_stopped_[i] = l <=> i = next
      BY <1>3 DEF l, LoggerInv, Once
    <3>3. i \in Int /\ next \in Int
      BY <1>2
    <3> QED
      BY <1>5, <3>1, <3>2, <3>3
  <2>2. Draining'
    BY <1>1 DEF Draining
  <2>3. Lines(screen') \cap lost = {}
    BY <1>4, <1>5 DEF LoggerInv, PrintedOnce
  <2> QED
    BY <1>1, <1>5, <2>1, <2>2, <2>3 DEF PrintedOnce, Once
<1>12. DrainAhead'
  <2>1. ASSUME NEW i \in DOMAIN log_when_stopped_, i >= next + 1
        PROVE  log_when_stopped_[i] \notin Lines(screen')
    <3>1. log_when_stopped_[i] # l /\ i >= next
      BY <1>2, <1>3, <2>1 DEF l, LoggerInv, Once
    <3>2. Draining
      BY <1>1 DEF Draining
    <3> QED
      BY <1>5, <3>1, <3>2 DEF LoggerInv, DrainAhead
  <2> QED
    BY <1>1, <2>1 DEF DrainAhead
<1>10. Once(log_when_stopped_')
  BY <1>1 DEF LoggerInv
<1>11. Printing' = Printing
  BY <1>1 DEF Printing
<1> QED
  BY <1>1, <1>6, <1>7, <1>8, <1>9, <1>10, <1>11, <1>12, QuietKeeps DEF LoggerInv

LEMMA DrainClearsKeeps ==
  ASSUME LoggerInv, DrainClears
  PROVE  LoggerInv'
<1>1. /\ log_when_stopped_' = <<>> /\ console = "clear" /\ console' = "key"
      /\ lost' = lost \cup {log_when_stopped_[i] : i \in next .. Len(log_when_stopped_)}
      /\ moved' = FALSE
      /\ UNCHANGED <<stop_flag_, screen, sent, worker, next, end, process, late>>
  BY DEF DrainClears
<1>7. moved' \in BOOLEAN
  BY <1>1, Zenon
<1>8. /\ lost' \subseteq lost \cup Lines(log_when_stopped_)
      /\ lost' \cap Lines(screen) = {}
  <2>1. ASSUME NEW i \in next .. Len(log_when_stopped_)
        PROVE  i \in DOMAIN log_when_stopped_ /\ i >= next
    BY DEF LoggerInv, TypeOK
  <2>2. Draining
    BY <1>1 DEF Draining
  <2> QED
    BY <1>1, <2>1, <2>2 DEF Lines, LoggerInv, DrainAhead, PrintedOnce
<1>2. log_when_stopped_' \in Seq(Line)
  BY <1>1
<1>3. TypeOK'
  <2>1. \A i \in next .. Len(log_when_stopped_) : log_when_stopped_[i] \in Line
    BY DEF LoggerInv, TypeOK
  <2>2. lost' \in SUBSET Line
    BY <1>1, <2>1 DEF LoggerInv, TypeOK
  <2> QED
    BY <1>1, <1>2, <1>7, <2>2 DEF LoggerInv, TypeOK
<1>4. DrainPlace' /\ DrainAhead' /\ FlagAndPlace'
  BY <1>1 DEF LoggerInv, DrainPlace, DrainAhead, FlagAndPlace, Draining
<1>5. Fresh' /\ Once(log_when_stopped_') /\ PrintedOnce'
  <2>1. Handed' \subseteq Handed
    BY <1>1, <1>8, NoLines DEF Handed
  <2>2. \A w \in Workers : LastLine(w)' = LastLine(w)
    BY <1>1 DEF LastLine
  <2>3. Fresh'
    BY <1>1, <2>1, <2>2 DEF LoggerInv, Fresh
  <2> QED
    BY <1>1, <1>8, <2>3, NoLines DEF LoggerInv, Once, PrintedOnce
<1>6. Printing' = Printing
  BY <1>1 DEF Printing
<1> QED
  BY <1>1, <1>3, <1>4, <1>5, <1>6, QuietKeeps DEF LoggerInv

LEMMA CommandLogsKeeps ==
  ASSUME LoggerInv, CommandLogs
  PROVE  LoggerInv'
<1> DEFINE l == [by |-> Console, nr |-> sent[Console] + 1]
<1>1. /\ sent[Console] < MaxLines /\ sent' = [sent EXCEPT ![Console] = @ + 1]
      /\ log_when_stopped_' = Append(log_when_stopped_, l)
      /\ UNCHANGED <<stop_flag_, screen, lost, worker, console, next, end, moved, process,
                     late>>
  BY DEF CommandLogs
<1>2. /\ sent \in [Threads -> 0 .. MaxLines] /\ MaxLines \in Nat /\ Console \in Threads
      /\ sent[Console] \in Nat /\ Workers \subseteq Threads
  BY LoggerAssumption DEF LoggerInv, TypeOK, Threads
<1>3. l \in Line /\ l.by = Console /\ l.nr = sent[Console] + 1
  BY <1>1, <1>2, LineFacts
<1> HIDE DEF l
<1>4. \A k \in Handed :
        k.by \in Threads /\ k.nr \in Nat /\ k.nr <= sent[k.by] /\ k.nr <= sent'[k.by]
  <2> SUFFICES ASSUME NEW k \in Handed
               PROVE  k.by \in Threads /\ k.nr \in Nat /\ k.nr <= sent[k.by]
                      /\ k.nr <= sent'[k.by]
    OBVIOUS
  <2>1. k \in Line
    BY DEF Handed, Lines, LoggerInv, TypeOK
  <2>2. k.by \in Threads /\ k.nr \in Nat /\ k.nr <= sent[k.by]
    BY <1>2, <2>1 DEF Line, LoggerInv, Fresh
  <2>3. sent[k.by] \in Nat /\ sent'[k.by] \in {sent[k.by], sent[k.by] + 1}
    BY <1>1, <1>2, <2>2
  <2> QED
    BY <2>2, <2>3
<1>5. l \notin Handed
  BY <1>2, <1>3, <1>4
<1>6. /\ log_when_stopped_' \in Seq(Line) /\ Once(log_when_stopped_')
      /\ Handed' = Handed \cup {l}
      /\ DrainPlace' /\ DrainAhead' /\ PrintedOnce'
  BY <1>1, <1>3, <1>5, StoredIsUnprinted
<1>7. TypeOK'
  <2>1. sent' \in [Threads -> 0 .. MaxLines]
    BY <1>1, <1>2
  <2> QED
    BY <1>1, <1>6, <2>1 DEF LoggerInv, TypeOK
<1>8. FlagAndPlace'
  BY <1>1 DEF LoggerInv, FlagAndPlace
<1>9. Fresh'
  <2>1. l.nr <= sent'[l.by]
    BY <1>1, <1>2, <1>3
  <2>2. \A k \in Handed' : k.nr <= sent'[k.by]
    BY <1>1, <1>4, <1>6, <2>1
  <2>3. ASSUME NEW w \in Workers, worker'[w] # "idle"
        PROVE  /\ sent'[w] > 0
               /\ LastLine(w)' \notin Handed'
    <3>1. w # Console /\ sent'[w] = sent[w] /\ worker[w] # "idle"
      BY <1>1, <1>2, <2>3, LoggerAssumption
    <3>2. LastLine(w)' = LastLine(w) /\ LastLine(w).by = w
      BY <3>1 DEF LastLine
    <3> QED
      BY <1>1, <1>3, <1>6, <3>1, <3>2 DEF LoggerInv, Fresh
  <2> QED
    BY <2>2, <2>3 DEF Fresh
<1>10. Printing' = Printing
  BY <1>1 DEF Printing
<1> QED
  BY <1>1, <1>6, <1>7, <1>8, <1>9, <1>10, QuietKeeps DEF LoggerInv

-----------------------------------------------------------------------------
(* The theorems. *)

LEMMA LoggerStep == LoggerInv /\ [Next]_vars => LoggerInv'
<1> SUFFICES ASSUME LoggerInv, [Next]_vars PROVE LoggerInv'
  OBVIOUS
<1>1. CASE UNCHANGED vars
  BY <1>1 DEF vars, LoggerInv, TypeOK, DrainPlace, DrainAhead, FlagAndPlace, Fresh, Handed,
              Once, PrintedOnce, Quiet, Printing, Draining, LastLine, Lines
<1> QED
  BY <1>1, LogReadsFlagKeeps, LogPrintsKeeps, LogStoresKeeps, FlagKeeps, DrainLineKeeps,
     MovedLineKeeps, DrainClearsKeeps, CommandLogsKeeps DEF Next, run, _continue

LEMMA LoggerInvariant == Spec => []LoggerInv
BY LoggerInit, LoggerStep, PTL DEF Spec

\* Types, and of them that the drain stays inside the history.
THEOREM LoggerTypes == Spec => []TypeOK
BY LoggerInvariant, PTL DEF LoggerInv

\* However log, stop and _continue interleave, no line is printed twice or printed
\* after it was lost, and what the history still holds is neither, but for the part
\* that the drain has behind it or that was moved away under it.
THEOREM LinesPrintedOnce == Spec => []PrintedOnce
BY LoggerInvariant, PTL DEF LoggerInv

\* While the host types, each worker prints at most the line that it was about to.
THEOREM PromptIsQuiet == Spec => []QuietPrompt
<1>1. LoggerInv => QuietPrompt
  <2> SUFFICES ASSUME LoggerInv, stop_flag_ PROVE late <= Cardinality(Workers)
    BY DEF QuietPrompt
  <2>1. IsFiniteSet(Workers) /\ Printing \subseteq Workers
    BY LoggerAssumption DEF Printing
  <2>2. /\ Cardinality(Printing) \in Nat /\ Cardinality(Workers) \in Nat /\ late \in Nat
    BY <2>1, FS_Subset, FS_CardinalityType DEF LoggerInv, TypeOK
  <2> QED
    BY <2>2 DEF LoggerInv, Quiet
<1> QED
  BY <1>1, LoggerInvariant, PTL

-----------------------------------------------------------------------------
(* The answers to commands. *)

\* The part of the history that is not printed yet and can still be.
Pending(i) ==
  i \in DOMAIN log_when_stopped_ /\ (Draining => i >= IF moved THEN end + 1 ELSE next)

\* The n-th line of the console is lost, printed or pending.
Kept(n) ==
  \/ \E l \in lost : l.by = Console /\ l.nr = n
  \/ \E i \in DOMAIN screen : screen[i].by = Console /\ screen[i].nr = n
  \/ \E i : Pending(i) /\ log_when_stopped_[i].by = Console /\ log_when_stopped_[i].nr = n

\* The console's lines are lost or kept in their order; and what lies behind the end that
\* a drain took is a worker's.
AnswerInv ==
  /\ \A n \in 1 .. sent[Console] : Kept(n)
  /\ \A i, k \in DOMAIN screen :
       i < k /\ screen[i].by = Console /\ screen[k].by = Console => screen[i].nr < screen[k].nr
  /\ \A i, k :
       Pending(i) /\ Pending(k) /\ i < k =>
         (log_when_stopped_[i].by = Console /\ log_when_stopped_[k].by = Console
            => log_when_stopped_[i].nr < log_when_stopped_[k].nr)
  /\ \A i \in DOMAIN screen : \A k :
       Pending(k) /\ screen[i].by = Console /\ log_when_stopped_[k].by = Console
         => screen[i].nr < log_when_stopped_[k].nr
  /\ Draining => \A i \in DOMAIN log_when_stopped_ :
                   i > end => log_when_stopped_[i].by # Console

\* What is at an index of a sequence that was appended to.
LEMMA AppendedAt ==
  ASSUME NEW q \in Seq(Line), NEW l
  PROVE  /\ DOMAIN q = 1 .. Len(q) /\ Len(q) \in Nat
         /\ \A i \in DOMAIN q : i \in DOMAIN Append(q, l) /\ Append(q, l)[i] = q[i]
         /\ Len(q) + 1 \in DOMAIN Append(q, l) /\ Append(q, l)[Len(q) + 1] = l
         /\ \A i \in DOMAIN Append(q, l) :
              \/ i \in DOMAIN q /\ Append(q, l)[i] = q[i]
              \/ i = Len(q) + 1 /\ Append(q, l)[i] = l
OBVIOUS

\* What is at an index of two sequences in a row.
LEMMA PrintedThenStored ==
  ASSUME NEW q \in Seq(Line), NEW r \in Seq(Line)
  PROVE  /\ DOMAIN (q \o r) = 1 .. Len(q) + Len(r) /\ Len(r) \in Nat
         /\ \A i \in 1 .. Len(q) : (q \o r)[i] = q[i]
         /\ \A i \in 1 .. Len(r) : (q \o r)[Len(q) + i] = r[i]
<1>1. Len(q) \in Nat /\ Len(r) \in Nat
  OBVIOUS
<1>2. DOMAIN (q \o r) = 1 .. Len(q) + Len(r)
  OBVIOUS
<1>3. ASSUME NEW i \in 1 .. Len(q) PROVE (q \o r)[i] = q[i]
  OBVIOUS
<1>4. ASSUME NEW i \in 1 .. Len(r) PROVE (q \o r)[Len(q) + i] = r[i]
  OBVIOUS
<1> QED
  BY <1>1, <1>2, <1>3, <1>4

\* The lines' sequences, and the numbers of the lines in them.
LEMMA LineTypes ==
  ASSUME LoggerInv
  PROVE  /\ log_when_stopped_ \in Seq(Line) /\ screen \in Seq(Line)
         /\ DOMAIN log_when_stopped_ = 1 .. Len(log_when_stopped_) /\ Len(log_when_stopped_) \in Nat
         /\ DOMAIN screen = 1 .. Len(screen) /\ Len(screen) \in Nat
         /\ next \in Nat \ {0} /\ end \in Nat
         /\ sent[Console] \in Nat
         /\ \A i \in DOMAIN screen : /\ screen[i].nr \in Nat \ {0}
                                     /\ screen[i].nr <= sent[screen[i].by]
         /\ \A i \in DOMAIN log_when_stopped_ :
              /\ log_when_stopped_[i].nr \in Nat \ {0}
              /\ log_when_stopped_[i].nr <= sent[log_when_stopped_[i].by]
<1>1. /\ log_when_stopped_ \in Seq(Line) /\ screen \in Seq(Line)
      /\ next \in Nat \ {0} /\ end \in Nat
  BY DEF LoggerInv, TypeOK
<1>2. \A l \in Line : l.nr \in Nat \ {0}
  BY LoggerAssumption DEF Line
<1>3. ASSUME NEW i \in DOMAIN screen
      PROVE  screen[i].nr \in Nat \ {0} /\ screen[i].nr <= sent[screen[i].by]
  <2>1. screen[i] \in Line /\ screen[i] \in Lines(screen)
    BY <1>1 DEF Lines
  <2> QED
    BY <1>2, <2>1 DEF LoggerInv, Fresh, Handed
<1>4. ASSUME NEW i \in DOMAIN log_when_stopped_
      PROVE  /\ log_when_stopped_[i].nr \in Nat \ {0}
             /\ log_when_stopped_[i].nr <= sent[log_when_stopped_[i].by]
  <2>1. log_when_stopped_[i] \in Line /\ log_when_stopped_[i] \in Lines(log_when_stopped_)
    BY <1>1 DEF Lines
  <2> QED
    BY <1>2, <2>1 DEF LoggerInv, Fresh, Handed
<1>5. sent[Console] \in Nat
  BY LoggerAssumption DEF LoggerInv, TypeOK, Threads
<1>6. /\ DOMAIN log_when_stopped_ = 1 .. Len(log_when_stopped_) /\ Len(log_when_stopped_) \in Nat
      /\ DOMAIN screen = 1 .. Len(screen) /\ Len(screen) \in Nat
  BY <1>1
<1> QED
  BY <1>1, <1>3, <1>4, <1>5, <1>6

LEMMA AnswerInit == Init => AnswerInv
<1> SUFFICES ASSUME Init PROVE AnswerInv
  OBVIOUS
<1>1. /\ log_when_stopped_ = <<>> /\ screen = <<>> /\ ~Draining /\ sent[Console] = 0
  BY DEF Init, Draining, Threads
<1>2. 1 .. sent[Console] = {}
  BY <1>1
<1>3. \A i : ~Pending(i)
  BY <1>1, NoLines DEF Pending
<1>4. DOMAIN screen = {}
  BY <1>1, NoLines
<1>5. \A n \in 1 .. sent[Console] : Kept(n)
  BY <1>2
<1>6. /\ \A i, k \in DOMAIN screen :
           i < k /\ screen[i].by = Console /\ screen[k].by = Console
             => screen[i].nr < screen[k].nr
      /\ \A i \in DOMAIN screen : \A k :
           Pending(k) /\ screen[i].by = Console /\ log_when_stopped_[k].by = Console
             => screen[i].nr < log_when_stopped_[k].nr
  BY <1>4
<1>7. \A i, k :
        Pending(i) /\ Pending(k) /\ i < k =>
          (log_when_stopped_[i].by = Console /\ log_when_stopped_[k].by = Console
             => log_when_stopped_[i].nr < log_when_stopped_[k].nr)
  BY <1>3
<1>8. Draining => \A i \in DOMAIN log_when_stopped_ :
                   i > end => log_when_stopped_[i].by # Console
  BY <1>1
<1> QED
  BY <1>5, <1>6, <1>7, <1>8 DEF AnswerInv

\* A worker's line, printed or stored, is no answer.
LEMMA WorkerAnswers ==
  ASSUME LoggerInv, AnswerInv, NEW w \in Workers, LogPrints(w) \/ LogStores(w)
  PROVE  AnswerInv'
<1> DEFINE l == LastLine(w)
<1>1. l.by # Console
  BY LoggerAssumption DEF LastLine
<1>2. /\ log_when_stopped_ \in Seq(Line) /\ screen \in Seq(Line)
      /\ Len(log_when_stopped_) \in Nat /\ Len(screen) \in Nat
      /\ next \in Nat \ {0} /\ end \in Nat
  BY LineTypes
<1>3. UNCHANGED <<sent, console, next, end>> /\ lost \subseteq lost'
  BY DEF LogPrints, LogStores
<1> HIDE DEF l
<1>4. CASE /\ log_when_stopped_' = log_when_stopped_ /\ screen' = Append(screen, l)
           /\ UNCHANGED moved
  <2>1. \A i \in DOMAIN screen : i \in DOMAIN screen' /\ screen'[i] = screen[i]
    BY <1>2, <1>4, AppendedAt
  <2>2. \A i \in DOMAIN screen' :
          screen'[i].by = Console => i \in DOMAIN screen /\ screen'[i] = screen[i]
    BY <1>1, <1>2, <1>4, AppendedAt
  <2>3. \A i : Pending(i)' <=> Pending(i)
    BY <1>3, <1>4 DEF Pending, Draining
  <2>4. \A n \in 1 .. sent'[Console] : Kept(n)'
    BY <1>3, <1>4, <2>1, <2>3 DEF AnswerInv, Kept
  <2> QED
    BY <1>3, <1>4, <2>2, <2>3, <2>4 DEF AnswerInv, Draining
<1>5. CASE /\ screen' = screen /\ log_when_stopped_' = Append(log_when_stopped_, l)
           /\ \/ UNCHANGED moved
              \/ Draining /\ moved' /\ lost' = lost \cup Destroyed
  <2>1. \A i : Pending(i) =>
          \/ Pending(i)' /\ log_when_stopped_'[i] = log_when_stopped_[i]
          \/ log_when_stopped_[i] \in lost'
    <3> SUFFICES ASSUME NEW i, Pending(i)
                 PROVE  \/ Pending(i)' /\ log_when_stopped_'[i] = log_when_stopped_[i]
                        \/ log_when_stopped_[i] \in lost'
      OBVIOUS
    <3>1. i \in DOMAIN log_when_stopped_' /\ log_when_stopped_'[i] = log_when_stopped_[i]
      BY <1>2, <1>5, AppendedAt DEF Pending
    <3>2. CASE UNCHANGED moved
      BY <1>3, <3>1, <3>2 DEF Pending, Draining
    <3>3. CASE Draining /\ moved' /\ lost' = lost \cup Destroyed /\ ~moved
      <4>1. i \in Nat /\ i >= next
        BY <1>2, <3>3 DEF Pending
      <4>2. CASE i <= end
        <5>1. i \in next .. end
          BY <1>2, <4>1, <4>2
        <5> QED
          BY <3>3, <5>1 DEF Destroyed
      <4>3. CASE ~(i <= end)
        BY <1>2, <1>3, <3>1, <4>1, <4>3 DEF Pending
      <4> QED
        BY <4>2, <4>3
    <3>4. moved \in BOOLEAN
      BY DEF LoggerInv, TypeOK
    <3>5. CASE moved /\ moved'
      BY <1>3, <3>1, <3>5 DEF Pending, Draining
    <3> QED
      BY <1>5, <3>2, <3>3, <3>4, <3>5
  <2>2. \A i \in DOMAIN log_when_stopped_' :
          log_when_stopped_'[i].by = Console =>
            i \in DOMAIN log_when_stopped_ /\ log_when_stopped_'[i] = log_when_stopped_[i]
    BY <1>1, <1>2, <1>5, AppendedAt
  <2>3. \A i : Pending(i)' /\ log_when_stopped_'[i].by = Console =>
          Pending(i) /\ log_when_stopped_'[i] = log_when_stopped_[i]
    <3> SUFFICES ASSUME NEW i, Pending(i)', log_when_stopped_'[i].by = Console
                 PROVE  Pending(i) /\ log_when_stopped_'[i] = log_when_stopped_[i]
      OBVIOUS
    <3>1. i \in DOMAIN log_when_stopped_ /\ log_when_stopped_'[i] = log_when_stopped_[i]
      BY <2>2 DEF Pending
    <3>2. next <= end + 1 \/ ~Draining
      BY <1>2 DEF LoggerInv, DrainPlace, Draining
    <3>3. moved \in BOOLEAN
      BY DEF LoggerInv, TypeOK
    <3>4. i \in Nat
      BY <1>2, <3>1
    <3> QED
      BY <1>2, <1>3, <1>5, <3>1, <3>2, <3>3, <3>4 DEF Pending, Draining
  <2>4. ASSUME NEW n \in 1 .. sent'[Console] PROVE Kept(n)'
    <3>1. Kept(n)
      BY <1>3, <2>4 DEF AnswerInv
    <3>2. CASE \E i : /\ Pending(i)
                      /\ log_when_stopped_[i].by = Console /\ log_when_stopped_[i].nr = n
      BY <2>1, <3>2 DEF Kept
    <3> QED
      BY <1>3, <1>5, <3>1, <3>2 DEF Kept
  <2>5. Draining' => \A i \in DOMAIN log_when_stopped_' :
                       i > end' => log_when_stopped_'[i].by # Console
    BY <1>3, <2>2 DEF AnswerInv, Draining
  <2>6. \A i, k :
          Pending(i)' /\ Pending(k)' /\ i < k =>
            (log_when_stopped_'[i].by = Console /\ log_when_stopped_'[k].by = Console
               => log_when_stopped_'[i].nr < log_when_stopped_'[k].nr)
    BY <2>3 DEF AnswerInv
  <2>7. \A i \in DOMAIN screen' : \A k :
          Pending(k)' /\ screen'[i].by = Console /\ log_when_stopped_'[k].by = Console
            => screen'[i].nr < log_when_stopped_'[k].nr
    BY <1>5, <2>3 DEF AnswerInv
  <2> QED
    BY <1>5, <2>4, <2>5, <2>6, <2>7 DEF AnswerInv
<1> QED
  BY <1>4, <1>5 DEF l, LogPrints, LogStores, Destroyed

\* The steps after which the same lines are printed and pending.
LEMMA SameAnswers ==
  ASSUME LoggerInv, AnswerInv, UNCHANGED <<log_when_stopped_, screen, lost>>,
         sent'[Console] = sent[Console],
         \A i : Pending(i)' <=> Pending(i),
         Draining' => \/ Draining /\ UNCHANGED end
                      \/ end' = Len(log_when_stopped_)
  PROVE  AnswerInv'
<1>1. \A n \in 1 .. sent'[Console] : Kept(n)'
  BY DEF AnswerInv, Kept
<1>2. Draining' => \A i \in DOMAIN log_when_stopped_ :
                     i > end' => log_when_stopped_[i].by # Console
  BY LineTypes DEF AnswerInv
<1> QED
  BY <1>1, <1>2 DEF AnswerInv

\* The line that the drain prints leaves the pending ones for the end of the screen.
LEMMA DrainAnswers ==
  ASSUME LoggerInv, AnswerInv, DrainLine, ~moved
  PROVE  AnswerInv'
<1> DEFINE l == log_when_stopped_[next]
<1>1. /\ console = "print" /\ screen' = Append(screen, l) /\ next' = next + 1
      /\ UNCHANGED <<log_when_stopped_, lost, sent, end, moved>> /\ Draining /\ Draining'
  BY DEF DrainLine, Draining
<1>2. /\ screen \in Seq(Line) /\ Len(screen) \in Nat /\ DOMAIN screen = 1 .. Len(screen)
      /\ DOMAIN log_when_stopped_ = 1 .. Len(log_when_stopped_) /\ Len(log_when_stopped_) \in Nat
      /\ next \in Nat \ {0} /\ end \in Nat
  BY LineTypes
<1>3. Pending(next)
  BY <1>1, <1>2 DEF Pending, LoggerInv, DrainPlace
<1>4. \A i : Pending(i)' => Pending(i) /\ next < i
  BY <1>1, <1>2 DEF Pending
<1>5. \A i : Pending(i) => i = next \/ Pending(i)'
  BY <1>1, <1>2 DEF Pending
<1> HIDE DEF l
<1>6. /\ \A i \in DOMAIN screen : i \in DOMAIN screen' /\ screen'[i] = screen[i]
      /\ Len(screen) + 1 \in DOMAIN screen' /\ screen'[Len(screen) + 1] = l
      /\ \A i \in DOMAIN screen' : \/ i \in DOMAIN screen /\ screen'[i] = screen[i]
                                   \/ i = Len(screen) + 1 /\ screen'[i] = l
  BY <1>1, <1>2, AppendedAt
<1>7. ASSUME NEW n \in 1 .. sent'[Console] PROVE Kept(n)'
  <2>1. Kept(n)
    BY <1>1, <1>7 DEF AnswerInv
  <2>2. CASE \/ \E l2 \in lost : l2.by = Console /\ l2.nr = n
             \/ \E i \in DOMAIN screen : screen[i].by = Console /\ screen[i].nr = n
    BY <1>1, <1>6, <2>2 DEF Kept
  <2>3. CASE \E i : /\ Pending(i)
                    /\ log_when_stopped_[i].by = Console /\ log_when_stopped_[i].nr = n
    <3>1. PICK i : /\ Pending(i)
                   /\ log_when_stopped_[i].by = Console /\ log_when_stopped_[i].nr = n
      BY <2>3
    <3>2. CASE i = next
      BY <1>6, <3>1, <3>2 DEF Kept, l
    <3>3. CASE Pending(i)'
      BY <1>1, <3>1, <3>3 DEF Kept
    <3> QED
      BY <1>5, <3>1, <3>2, <3>3
  <2> QED
    BY <2>1, <2>2, <2>3 DEF Kept
<1>8. \A i \in DOMAIN screen :
        screen[i].by = Console /\ l.by = Console => screen[i].nr < l.nr
  BY <1>3 DEF AnswerInv, l
<1>9. ASSUME NEW i \in DOMAIN screen', NEW k \in DOMAIN screen', i < k,
             screen'[i].by = Console, screen'[k].by = Console
      PROVE  screen'[i].nr < screen'[k].nr
  <2>1. CASE i \in DOMAIN screen /\ screen'[i] = screen[i]
    BY <1>6, <1>8, <1>9, <2>1 DEF AnswerInv
  <2>2. CASE i = Len(screen) + 1
    <3>1. k <= Len(screen) + 1 /\ k \in Nat
      BY <1>2, <1>6
    <3> QED
      BY <1>2, <1>9, <2>2, <3>1
  <2> QED
    BY <1>6, <2>1, <2>2
<1>10. \A k : Pending(k)' /\ l.by = Console /\ log_when_stopped_[k].by = Console
                => l.nr < log_when_stopped_[k].nr
  BY <1>3, <1>4 DEF AnswerInv, l
<1>11. ASSUME NEW i \in DOMAIN screen', NEW k, Pending(k)', screen'[i].by = Console,
              log_when_stopped_[k].by = Console
       PROVE  screen'[i].nr < log_when_stopped_[k].nr
  BY <1>4, <1>6, <1>10, <1>11 DEF AnswerInv
<1>12. \A i, k :
         Pending(i)' /\ Pending(k)' /\ i < k =>
           (log_when_stopped_[i].by = Console /\ log_when_stopped_[k].by = Console
              => log_when_stopped_[i].nr < log_when_stopped_[k].nr)
  BY <1>4 DEF AnswerInv
<1>13. \A i \in DOMAIN log_when_stopped_ : i > end => log_when_stopped_[i].by # Console
  BY <1>1 DEF AnswerInv
<1> QED
  BY <1>1, <1>7, <1>9, <1>11, <1>12, <1>13 DEF AnswerInv

\* clear() destroys no answer that was not lost before.
LEMMA ClearAnswers ==
  ASSUME LoggerInv, AnswerInv, DrainClears
  PROVE  AnswerInv'
<1>1. /\ log_when_stopped_' = <<>> /\ console = "clear" /\ UNCHANGED <<screen, sent>>
      /\ Draining /\ ~Draining' /\ lost \subseteq lost'
  BY DEF DrainClears, Draining
<1>2. \A i : ~Pending(i)'
  BY <1>1, NoLines DEF Pending
<1>3. ASSUME NEW i, Pending(i) PROVE log_when_stopped_[i].by # Console
  <2>1. i \in DOMAIN log_when_stopped_ /\ i > end
    BY <1>1, <1>3, LineTypes DEF Pending, LoggerInv, DrainPlace
  <2> QED
    BY <1>1, <2>1 DEF AnswerInv
<1>4. \A n \in 1 .. sent'[Console] : Kept(n)'
  BY <1>1, <1>3 DEF AnswerInv, Kept
<1> QED
  BY <1>1, <1>2, <1>4 DEF AnswerInv

\* An answer is stored behind the others.
LEMMA CommandAnswers ==
  ASSUME LoggerInv, AnswerInv, CommandLogs
  PROVE  AnswerInv'
<1> DEFINE l == [by |-> Console, nr |-> sent[Console] + 1]
<1>1. /\ console = "prompt" /\ sent' = [sent EXCEPT ![Console] = @ + 1]
      /\ log_when_stopped_' = Append(log_when_stopped_, l)
      /\ UNCHANGED <<screen, lost, console>> /\ ~Draining /\ ~Draining'
  BY DEF CommandLogs, Draining
<1>2. /\ log_when_stopped_ \in Seq(Line) /\ sent[Console] \in Nat
      /\ Len(log_when_stopped_) \in Nat
      /\ DOMAIN log_when_stopped_ = 1 .. Len(log_when_stopped_)
  BY LineTypes
<1>3. l.by = Console /\ l.nr = sent[Console] + 1
  BY LineFacts
<1>4. sent'[Console] = sent[Console] + 1
  BY <1>1 DEF LoggerInv, TypeOK, Threads
<1> HIDE DEF l
<1>5. /\ \A i : Pending(i) => Pending(i)' /\ log_when_stopped_'[i] = log_when_stopped_[i]
      /\ \E i : /\ i = Len(log_when_stopped_) + 1 /\ Pending(i)'
                /\ log_when_stopped_'[i] = l
      /\ \A i : Pending(i)' => \/ Pending(i) /\ log_when_stopped_'[i] = log_when_stopped_[i]
                               \/ /\ i = Len(log_when_stopped_) + 1
                                  /\ log_when_stopped_'[i] = l
  <2>1. /\ \A i : Pending(i) <=> i \in DOMAIN log_when_stopped_
        /\ \A i : Pending(i)' <=> i \in DOMAIN log_when_stopped_'
    BY <1>1 DEF Pending
  <2>2. /\ \A i \in DOMAIN log_when_stopped_ :
             /\ i \in DOMAIN log_when_stopped_'
             /\ log_when_stopped_'[i] = log_when_stopped_[i]
        /\ Len(log_when_stopped_) + 1 \in DOMAIN log_when_stopped_'
        /\ log_when_stopped_'[Len(log_when_stopped_) + 1] = l
        /\ \A i \in DOMAIN log_when_stopped_' :
             \/ /\ i \in DOMAIN log_when_stopped_
                /\ log_when_stopped_'[i] = log_when_stopped_[i]
             \/ i = Len(log_when_stopped_) + 1 /\ log_when_stopped_'[i] = l
    BY <1>1, <1>2, AppendedAt
  <2>3. ASSUME NEW i, Pending(i)
        PROVE  Pending(i)' /\ log_when_stopped_'[i] = log_when_stopped_[i]
    BY <2>1, <2>2, <2>3
  <2>4. \E i : /\ i = Len(log_when_stopped_) + 1 /\ Pending(i)'
               /\ log_when_stopped_'[i] = l
    <3>1. PICK i : i = Len(log_when_stopped_) + 1 /\ i \in DOMAIN log_when_stopped_'
      BY <2>2
    <3> QED
      BY <2>1, <2>2, <3>1
  <2>5. ASSUME NEW i, Pending(i)'
        PROVE  \/ Pending(i) /\ log_when_stopped_'[i] = log_when_stopped_[i]
               \/ i = Len(log_when_stopped_) + 1 /\ log_when_stopped_'[i] = l
    <3>1. i \in DOMAIN log_when_stopped_'
      BY <2>1, <2>5
    <3> QED
      BY <2>1, <2>2, <3>1
  <2> QED
    BY <2>2, <2>3, <2>4, <2>5
<1>6. ASSUME NEW n \in 1 .. sent'[Console] PROVE Kept(n)'
  <2>1. CASE n \in 1 .. sent[Console]
    <3>1. Kept(n)
      BY <2>1 DEF AnswerInv
    <3>2. CASE \/ \E l2 \in lost : l2.by = Console /\ l2.nr = n
               \/ \E i \in DOMAIN screen : screen[i].by = Console /\ screen[i].nr = n
      BY <1>1, <3>2 DEF Kept
    <3>3. CASE \E i : /\ Pending(i)
                      /\ log_when_stopped_[i].by = Console /\ log_when_stopped_[i].nr = n
      <4>1. PICK i : /\ Pending(i)
                     /\ log_when_stopped_[i].by = Console /\ log_when_stopped_[i].nr = n
        BY <3>3
      <4>2. /\ Pending(i)'
            /\ log_when_stopped_'[i].by = Console /\ log_when_stopped_'[i].nr = n
        BY <1>5, <4>1
      <4> QED
        BY <4>2 DEF Kept
    <3> QED
      BY <3>1, <3>2, <3>3 DEF Kept
  <2>2. CASE n = sent[Console] + 1
    BY <1>3, <1>5, <2>2 DEF Kept
  <2> QED
    BY <1>2, <1>4, <1>6, <2>1, <2>2
<1>7. /\ \A i \in DOMAIN screen : screen[i].by = Console => screen[i].nr < l.nr
      /\ \A i : Pending(i) /\ log_when_stopped_[i].by = Console => log_when_stopped_[i].nr < l.nr
  BY <1>2, <1>3, LineTypes DEF Pending
<1>8. ASSUME NEW i, NEW k, Pending(i)', Pending(k)', i < k,
             log_when_stopped_'[i].by = Console, log_when_stopped_'[k].by = Console
      PROVE  log_when_stopped_'[i].nr < log_when_stopped_'[k].nr
  <2>1. CASE Pending(i) /\ log_when_stopped_'[i] = log_when_stopped_[i]
    BY <1>5, <1>7, <1>8, <2>1 DEF AnswerInv
  <2>2. CASE i = Len(log_when_stopped_) + 1
    <3>1. k <= Len(log_when_stopped_) + 1 /\ k \in Nat
      BY <1>2, <1>5, <1>8 DEF Pending
    <3> QED
      BY <1>2, <1>8, <2>2, <3>1
  <2> QED
    BY <1>5, <1>8, <2>1, <2>2
<1>9. ASSUME NEW i \in DOMAIN screen, NEW k, Pending(k)', screen[i].by = Console,
             log_when_stopped_'[k].by = Console
      PROVE  screen[i].nr < log_when_stopped_'[k].nr
  BY <1>5, <1>7, <1>9 DEF AnswerInv
<1> QED
  BY <1>1, <1>6, <1>8, <1>9 DEF AnswerInv

LEMMA AnswerStep == LoggerInv /\ AnswerInv /\ [Next]_vars => AnswerInv'
<1> SUFFICES ASSUME LoggerInv, AnswerInv, [Next]_vars PROVE AnswerInv'
  OBVIOUS
<1>1. CASE UNCHANGED vars
  BY <1>1, SameAnswers DEF vars, Pending, Draining
<1>2. ASSUME NEW w \in Workers, LogReadsFlag(w) PROVE AnswerInv'
  <2>1. sent'[Console] = sent[Console]
    BY <1>2, LoggerAssumption DEF LogReadsFlag, LoggerInv, TypeOK, Threads
  <2> QED
    BY <1>2, <2>1, SameAnswers DEF LogReadsFlag, Pending, Draining
<1>3. CASE Continue \/ NoKey \/ Key \/ CommandEnds \/ Exit \/ DrainCrashes
  <2>1. /\ UNCHANGED <<log_when_stopped_, screen, lost, sent, next, end, moved>>
        /\ Draining' <=> Draining
    BY <1>3 DEF Continue, NoKey, Key, CommandEnds, Exit, DrainCrashes, Draining
  <2> QED
    BY <2>1, SameAnswers DEF Pending
<1>4. CASE Drain
  <2>1. /\ UNCHANGED <<log_when_stopped_, screen, lost, sent, moved>> /\ ~Draining /\ ~moved
        /\ next' = 1 /\ end' = Len(log_when_stopped_)
    BY <1>4 DEF Drain, Draining, LoggerInv, DrainPlace
  <2>2. \A i : Pending(i)' <=> Pending(i)
    BY <2>1, LineTypes DEF Pending
  <2> QED
    BY <2>1, <2>2, SameAnswers
<1>5. CASE DrainLine /\ moved
  <2>1. /\ UNCHANGED <<log_when_stopped_, screen, lost, sent, end, moved>>
        /\ Draining /\ Draining'
    BY <1>5 DEF DrainLine, Draining
  <2> QED
    BY <1>5, <2>1, SameAnswers DEF Pending
<1> QED
  BY <1>1, <1>2, <1>3, <1>4, <1>5, WorkerAnswers, DrainAnswers, ClearAnswers, CommandAnswers
     DEF Next, run, _continue

\* The invariant says it of the screen and of the history, AnswersInOrder of the two in
\* one sequence.
LEMMA AnswersKept == LoggerInv /\ AnswerInv => AnswersInOrder
<1> SUFFICES ASSUME LoggerInv, AnswerInv PROVE AnswersInOrder
  OBVIOUS
<1> DEFINE start == IF moved THEN end + 1 ELSE next
           rest == Unprinted
           from == IF Draining THEN start - 1 ELSE 0
           all  == screen \o rest
<1>1. /\ log_when_stopped_ \in Seq(Line) /\ screen \in Seq(Line)
      /\ Len(log_when_stopped_) \in Nat /\ Len(screen) \in Nat
      /\ DOMAIN screen = 1 .. Len(screen)
      /\ DOMAIN log_when_stopped_ = 1 .. Len(log_when_stopped_)
      /\ next \in Nat \ {0} /\ end \in Nat /\ sent[Console] \in Nat
      /\ start \in Nat \ {0}
  BY LineTypes
<1>a. Draining => start <= Len(log_when_stopped_) + 1 /\ next <= start
  BY <1>1 DEF LoggerInv, DrainPlace, Draining
<1>b. /\ rest = IF Draining THEN SubSeq(log_when_stopped_, start, Len(log_when_stopped_))
                ELSE log_when_stopped_
      /\ \A i : Pending(i) <=> i \in DOMAIN log_when_stopped_ /\ (Draining => i >= start)
  BY DEF Unprinted, Pending
<1> HIDE DEF start
<1>2. from \in Nat /\ rest \in Seq(Line) /\ Len(rest) = Len(log_when_stopped_) - from
      /\ \A i \in 1 .. Len(rest) : rest[i] = log_when_stopped_[i + from]
  <2>1. CASE Draining
    <3>2. /\ SubSeq(log_when_stopped_, start, Len(log_when_stopped_)) \in Seq(Line)
          /\ Len(SubSeq(log_when_stopped_, start, Len(log_when_stopped_)))
               = Len(log_when_stopped_) - start + 1
          /\ \A i \in 1 .. Len(log_when_stopped_) - start + 1 :
               SubSeq(log_when_stopped_, start, Len(log_when_stopped_))[i]
                 = log_when_stopped_[i + start - 1]
      BY <1>1, <1>a, <2>1
    <3>3. /\ rest = SubSeq(log_when_stopped_, start, Len(log_when_stopped_))
          /\ from = start - 1
      BY <1>b, <2>1
    <3> HIDE DEF rest, from
    <3> QED
      BY <1>1, <3>2, <3>3
  <2>2. CASE ~Draining
    <3>1. rest = log_when_stopped_ /\ from = 0
      BY <1>b, <2>2
    <3> HIDE DEF rest, from
    <3> QED
      BY <1>1, <3>1
  <2> QED
    BY <2>1, <2>2
<1>3. \A i : Pending(i) <=> i \in DOMAIN log_when_stopped_ /\ i > from
  BY <1>1, <1>b
<1> HIDE DEF rest, from
<1>4. /\ DOMAIN all = 1 .. Len(screen) + Len(rest) /\ Len(rest) \in Nat
      /\ \A i \in 1 .. Len(screen) : all[i] = screen[i]
      /\ \A i \in 1 .. Len(rest) : all[Len(screen) + i] = rest[i]
  <2>1. screen \in Seq(Line) /\ rest \in Seq(Line)
    BY <1>1, <1>2
  <2> QED
    BY <2>1, PrintedThenStored
<1> HIDE DEF all
<1>5. ASSUME NEW i \in DOMAIN all
      PROVE  \/ i \in DOMAIN screen /\ all[i] = screen[i]
             \/ /\ i \in Nat /\ i > Len(screen) /\ Pending(i - Len(screen) + from)
                /\ all[i] = log_when_stopped_[i - Len(screen) + from]
  <2>1. CASE i \in 1 .. Len(screen)
    BY <1>1, <1>4, <2>1
  <2>2. CASE ~(i \in 1 .. Len(screen))
    <3>1. PICK k \in 1 .. Len(rest) : i = Len(screen) + k
      <4>1. i - Len(screen) \in 1 .. Len(rest) /\ i = Len(screen) + (i - Len(screen))
        BY <1>1, <1>4, <2>2
      <4> QED
        BY <4>1
    <3>2. all[i] = log_when_stopped_[k + from] /\ Pending(k + from)
      <4>1. k + from \in 1 .. Len(log_when_stopped_) /\ k + from > from
        BY <1>1, <1>2, <1>4
      <4>2. all[i] = rest[k] /\ rest[k] = log_when_stopped_[k + from]
        BY <1>2, <1>4, <3>1
      <4> QED
        BY <1>1, <1>3, <4>1, <4>2
    <3>3. k + from = i - Len(screen) + from /\ i \in Nat /\ i > Len(screen)
      BY <1>1, <1>2, <1>4, <3>1
    <3> QED
      BY <3>2, <3>3
  <2> QED
    BY <2>1, <2>2
<1> DEFINE gone == {l.nr : l \in {k \in lost : k.by = Console}}
<1>6. ASSUME NEW n \in 1 .. sent[Console], n \notin gone
      PROVE  \E i \in DOMAIN all : all[i].by = Console /\ all[i].nr = n
  <2>1. CASE \E i \in DOMAIN screen : screen[i].by = Console /\ screen[i].nr = n
    <3>1. \A i \in DOMAIN screen : i \in DOMAIN all /\ all[i] = screen[i]
      BY <1>1, <1>4
    <3> QED
      BY <2>1, <3>1
  <2>2. CASE \E i : /\ Pending(i)
                    /\ log_when_stopped_[i].by = Console /\ log_when_stopped_[i].nr = n
    <3>1. PICK i : /\ Pending(i)
                   /\ log_when_stopped_[i].by = Console /\ log_when_stopped_[i].nr = n
      BY <2>2
    <3>2. PICK k \in 1 .. Len(rest) : i = k + from
      <4>1. i - from \in 1 .. Len(rest) /\ i = (i - from) + from
        BY <1>1, <1>2, <1>3, <3>1
      <4> QED
        BY <4>1
    <3>3. Len(screen) + k \in DOMAIN all /\ all[Len(screen) + k] = log_when_stopped_[i]
      <4>1. Len(screen) + k \in 1 .. Len(screen) + Len(rest)
        BY <1>1, <1>4
      <4>2. all[Len(screen) + k] = rest[k] /\ rest[k] = log_when_stopped_[k + from]
        BY <1>2, <1>4
      <4> QED
        BY <1>4, <3>2, <4>1, <4>2
    <3> QED
      BY <3>1, <3>3
  <2> QED
    BY <1>6, <2>1, <2>2 DEF AnswerInv, Kept
<1>7. ASSUME NEW i \in DOMAIN all, all[i].by = Console
      PROVE  all[i].nr \in (1 .. sent[Console]) \ gone
  <2>1. \/ i \in DOMAIN screen /\ all[i] = screen[i]
        \/ \E k \in DOMAIN log_when_stopped_ : all[i] = log_when_stopped_[k]
    BY <1>5 DEF Pending
  <2>2. all[i].nr \in Nat \ {0} /\ all[i].nr <= sent[all[i].by]
    BY <2>1, LineTypes
  <2>3. all[i] \in Line /\ all[i] \notin lost
    <3>1. CASE i \in DOMAIN screen /\ all[i] = screen[i]
      BY <1>1, <3>1 DEF LoggerInv, PrintedOnce, Lines
    <3>2. CASE \E k : Pending(k) /\ all[i] = log_when_stopped_[k]
      <4>1. PICK k : Pending(k) /\ all[i] = log_when_stopped_[k]
        BY <3>2
      <4>2. k \in DOMAIN log_when_stopped_ /\ k \in Nat /\ (Draining => k >= start)
        BY <1>1, <1>b, <4>1
      <4>3. ~(Draining /\ (k < next \/ (moved /\ k <= end)))
        BY <1>1, <1>a, <4>2 DEF start
      <4> QED
        BY <1>1, <4>1, <4>2, <4>3 DEF LoggerInv, PrintedOnce
    <3> QED
      BY <1>5, <3>1, <3>2
  <2>4. all[i].nr \notin gone
    <3> SUFFICES ASSUME NEW l \in lost, l.by = Console, l.nr = all[i].nr PROVE FALSE
      OBVIOUS
    <3>1. l \in Line
      BY DEF LoggerInv, TypeOK
    <3>2. l = all[i]
      BY <1>7, <2>3, <3>1 DEF Line
    <3> QED
      BY <2>3, <3>2
  <2> QED
    BY <1>1, <1>7, <2>2, <2>4
<1>8. ASSUME NEW i \in DOMAIN all, NEW k \in DOMAIN all, i < k,
             all[i].by = Console, all[k].by = Console
      PROVE  all[i].nr < all[k].nr
  <2>1. CASE i \in DOMAIN screen /\ all[i] = screen[i]
    BY <1>5, <1>8, <2>1 DEF AnswerInv
  <2>2. CASE /\ i \in Nat /\ i > Len(screen) /\ Pending(i - Len(screen) + from)
             /\ all[i] = log_when_stopped_[i - Len(screen) + from]
    <3>1. k \notin DOMAIN screen /\ k \in Nat
      BY <1>1, <1>4, <1>8, <2>2
    <3>2. Pending(k - Len(screen) + from) /\ all[k] = log_when_stopped_[k - Len(screen) + from]
      BY <1>5, <3>1
    <3>3. i - Len(screen) + from < k - Len(screen) + from
      BY <1>1, <1>2, <1>8, <2>2, <3>1
    <3> QED
      BY <1>8, <2>2, <3>2, <3>3 DEF AnswerInv
  <2> QED
    BY <1>5, <2>1, <2>2
<1> DEFINE answers == {i \in DOMAIN all : all[i].by = Console}
<1>9. {all[i].nr : i \in answers} = (1 .. sent[Console]) \ gone
  BY <1>6, <1>7
<1>10. \A i, k \in answers : i < k => all[i].nr < all[k].nr
  BY <1>8
<1> QED
  BY <1>9, <1>10 DEF AnswersInOrder, all, rest

LEMMA AnswerInvariant == Spec => [](LoggerInv /\ AnswerInv)
BY LoggerInvariant, AnswerInit, AnswerStep, PTL DEF Spec

\* The answers to commands are printed, or wait in the history, in the order of the
\* commands, and all of them but those that are lost: whatever the workers log, stored,
\* late or behind the drain's end, mixes no answers up and repeats none.
LEMMA AnswersStayInOrder == Spec => []AnswersInOrder
BY AnswerInvariant, AnswersKept, PTL

\* The one way to lose an answer is a worker's push_back that moves the buffer while the
\* drain walks over it: no clear() destroys one, nor any other step.
LEMMA OnlyMovesLoseAnswers == Spec => AnswersLostByMoves
<1>1. ASSUME LoggerInv, AnswerInv, Next, NEW l \in lost' \ lost, l.by = Console
      PROVE  Draining /\ moved'
  <2>1. ASSUME NEW w \in Workers, LogStores(w) PROVE Draining /\ moved'
    BY <1>1, <2>1 DEF LogStores
  <2>2. CASE DrainClears
    <3>1. PICK i \in next .. Len(log_when_stopped_) : l = log_when_stopped_[i]
      BY <1>1, <2>2 DEF DrainClears
    <3>2. i \in DOMAIN log_when_stopped_ /\ i > end /\ Draining
      BY <1>1, <2>2, LineTypes DEF DrainClears, LoggerInv, DrainPlace, Draining
    <3> QED
      BY <1>1, <3>1, <3>2 DEF AnswerInv
  <2>3. lost' = lost \/ DrainClears \/ \E w \in Workers : LogStores(w)
    BY <1>1 DEF Next, run, _continue, LogReadsFlag, LogPrints, Continue, Drain, DrainLine,
       DrainCrashes, NoKey, Key, CommandLogs, CommandEnds, Exit
  <2> QED
    BY <1>1, <2>1, <2>2, <2>3
<1>2. LoggerInv /\ AnswerInv /\ [Next]_vars
        => [\A l \in lost' \ lost : l.by = Console => Draining /\ moved']_vars
  BY <1>1
<1> QED
  BY <1>2, AnswerInvariant, PTL DEF Spec, AnswersLostByMoves

\* Both: the answers to commands come out in the order of the commands, each once, but
\* for those that a worker's push_back destroys by moving the buffer under the drain.
THEOREM AnswersStay == Spec => AnswersSurvive
BY AnswersStayInOrder, OnlyMovesLoseAnswers, PTL DEF AnswersSurvive

=============================================================================
