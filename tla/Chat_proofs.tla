---------------------------- MODULE Chat_proofs ----------------------------
(***************************************************************************)
(* Proofs about Chat, for any clients, any host threads that call start    *)
(* and stop concurrently, and any bounds.                                  *)
(***************************************************************************)
EXTENDS Chat, FiniteSetTheorems, SequenceTheorems, TLAPS

ChatInv == TypeOK /\ LoopAlive /\ ErrorsMeanGone

\* The same for a queue as for ready.
HasWork(q) == \E i \in DOMAIN q : q[i] = Work

Present == {c \in Conns : peer[c] # "absent"}
Departed    == {c \in Conns : Gone(c)}

\* The handlers that ErrorsMeanGone allows in the queue when the connections of gone
\* are those that are gone.
SoundFor(gone) ==
  {h \in Handler : h # Work => h.conn \in Present /\ (h.failed => h.conn \in gone)}

Sound == SoundFor(Departed)

\* What ErrorsMeanGone says of the queue.
SoundAll(q) ==
  \A i \in DOMAIN q : q[i] # Work => /\ peer[q[i].conn] # "absent"
                                     /\ q[i].failed => Gone(q[i].conn)

-----------------------------------------------------------------------------
(* Queues. *)

\* Queueing one handler.
LEMMA AppendQueue ==
  ASSUME NEW S, NEW q \in Seq(S), NEW h \in S
  PROVE  /\ Append(q, h) \in Seq(S)
         /\ HasWork(q) \/ h = Work => HasWork(Append(q, h))
<1>1. /\ Append(q, h) \in Seq(S)
      /\ DOMAIN Append(q, h) = 1 .. (Len(q) + 1) /\ DOMAIN q = 1 .. Len(q)
      /\ \A i \in 1 .. Len(q) : Append(q, h)[i] = q[i]
      /\ Append(q, h)[Len(q) + 1] = h
      /\ Len(q) \in Nat
  OBVIOUS
<1> QED
  BY <1>1 DEF HasWork

\* Calling the handler at the head.
LEMMA TailQueue ==
  ASSUME NEW S, NEW q \in Seq(S), q # <<>>
  PROVE  /\ Head(q) \in S /\ Tail(q) \in Seq(S)
         /\ HasWork(q) /\ Head(q) # Work => HasWork(Tail(q))
<1>1. /\ Head(q) \in S /\ Head(q) = q[1] /\ Tail(q) \in Seq(S)
      /\ DOMAIN Tail(q) = 1 .. (Len(q) - 1) /\ DOMAIN q = 1 .. Len(q)
      /\ \A i \in 1 .. (Len(q) - 1) : Tail(q)[i] = q[i + 1]
      /\ Len(q) \in Nat
  OBVIOUS
<1>2. ASSUME NEW i \in DOMAIN q, q[i] = Work, Head(q) # Work
      PROVE  i - 1 \in DOMAIN Tail(q) /\ Tail(q)[i - 1] = Work
  BY <1>1, <1>2
<1> QED
  BY <1>1, <1>2 DEF HasWork

\* Queueing several.
LEMMA ConcatQueue ==
  ASSUME NEW S, NEW q \in Seq(S), NEW r \in Seq(S)
  PROVE  q \o r \in Seq(S) /\ (HasWork(q) => HasWork(q \o r))
<1>1. /\ q \o r \in Seq(S)
      /\ DOMAIN (q \o r) = 1 .. (Len(q) + Len(r)) /\ DOMAIN q = 1 .. Len(q)
      /\ \A i \in 1 .. Len(q) : (q \o r)[i] = q[i]
      /\ Len(q) \in Nat /\ Len(r) \in Nat
  OBVIOUS
<1> QED
  BY <1>1 DEF HasWork

\* A queue of sound handlers is one of handlers, and says so index by index.
LEMMA SoundQueue ==
  ASSUME NEW q \in Seq(Handler)
  PROVE  q \in Seq(Sound) <=> SoundAll(q)
<1>1. \A i \in DOMAIN q : q[i] \in Handler
  OBVIOUS
<1>2. q \in Seq(Sound) <=> \A i \in DOMAIN q : q[i] \in Sound
  BY SeqDef
<1>3. \A h \in Handler : h # Work => h.conn \in Conns
  BY DEF Handler
<1> QED
  BY <1>1, <1>2, <1>3 DEF Sound, SoundFor, SoundAll, Present, Departed

\* What fails for a connection that is gone is sound.
LEMMA FailuresSound ==
  ASSUME TypeOK, NEW c \in Conns, peer[c] # "absent", NEW gone, c \in gone
  PROVE  Failures(c) \in Seq(SoundFor(gone)) /\ Failures(c) \in Seq(Handler)
<1>1. reads[c] \in Seq(Seq(Piece))
  BY DEF TypeOK
<1>2. ASSUME NEW b \in Seq(Piece)
      PROVE  ReadDone(c, b, TRUE) \in SoundFor(gone) /\ ReadDone(c, b, TRUE) \in Handler
  BY <1>2 DEF ReadDone, SoundFor, Present, Handler
<1>3. ASSUME NEW i \in DOMAIN reads[c]
      PROVE  Failures(c)[i] \in SoundFor(gone) /\ Failures(c)[i] \in Handler
  <2>1. reads[c][i] \in Seq(Piece)
    BY <1>1, <1>3
  <2> QED
    BY <1>2, <1>3, <2>1 DEF Failures
<1>4. DOMAIN reads[c] = 1 .. Len(reads[c]) /\ Len(reads[c]) \in Nat
  BY <1>1
<1>5. /\ Failures(c) \in [1 .. Len(reads[c]) -> SoundFor(gone)]
      /\ Failures(c) \in [1 .. Len(reads[c]) -> Handler]
  BY <1>3, <1>4 DEF Failures
<1> QED
  BY <1>4, <1>5, SeqDef

-----------------------------------------------------------------------------
(* The initial state. *)

\* The chat starts stopped, empty and sound.
LEMMA ChatInit == Init => ChatInv
<1> SUFFICES ASSUME Init PROVE ChatInv
  OBVIOUS
<1>1. \A S : <<>> \in Seq(S) /\ DOMAIN <<>> = {}
  OBVIOUS
<1>2. TypeOK
  <2>1. ready \in Seq(Handler) /\ reads \in [Conns -> Seq(Seq(Piece))]
        /\ stream \in [Conns -> Seq(Piece)] /\ relayed \in [Conns -> Seq(Seq(Piece))]
        /\ writes \in [Conns -> Nat]
    BY <1>1 DEF Init
  <2>2. sent \in [Conns -> Nat] /\ \A c \in Conns : sent[c] <= 2 * MaxLines[c]
    BY ChatAssumption DEF Init
  <2>3. starts \in 0 .. MaxStarts
    BY ChatAssumption DEF Init
  <2>4. /\ started \in BOOLEAN /\ io \in {"idle", "looping"}
        /\ host \in [Hosts -> {"idle", "start", "work", "looping", "stop"}]
        /\ clients_ \subseteq Conns /\ cut \subseteq Conns
        /\ peer \in [Conns -> {"absent", "connected", "closed"}]
    BY DEF Init
  <2> QED
    BY <2>1, <2>2, <2>3, <2>4 DEF TypeOK
<1>3. LoopAlive /\ ErrorsMeanGone
  BY <1>1 DEF Init, LoopAlive, ErrorsMeanGone
<1> QED
  BY <1>2, <1>3 DEF ChatInv

-----------------------------------------------------------------------------
(* The steps.  Each lemma says of its steps that they keep ChatInv. *)

\* What the rest needs of the queue: that it stays one of sound handlers.
LEMMA SoundReady == ChatInv => ready \in Seq(Sound)
<1> SUFFICES ASSUME ChatInv PROVE ready \in Seq(Sound)
  OBVIOUS
<1>1. ready \in Seq(Handler)
  BY DEF ChatInv, TypeOK
<1> QED
  BY <1>1, SoundQueue DEF ChatInv, ErrorsMeanGone, SoundAll

\* A queue that keeps its runs of work keeps the loop alive.
LEMMA AliveKeeps ==
  ASSUME LoopAlive, UNCHANGED <<started, host, io>>, HasWork(ready) => HasWork(ready')
  PROVE  LoopAlive'
BY DEF LoopAlive, QueuedWork, HasWork

\* No client comes, and none goes without being gone then; reads and writes are of
\* clients; and the queue is one of sound handlers: ErrorsMeanGone.
LEMMA ErrorsKeep ==
  ASSUME ErrorsMeanGone, UNCHANGED peer, clients_' \subseteq clients_,
         ready' \in Seq(SoundFor(Departed')), ready' \in Seq(Handler),
         \A d \in Conns : /\ OwnNames /\ peer[d] = "connected" => d \in clients_'
                          /\ reads'[d] # <<>> => d \in clients_'
                          /\ writes'[d] > 0 => peer[d] # "absent"
  PROVE  ErrorsMeanGone'
<1>1. \A i \in DOMAIN ready' : ready'[i] \in SoundFor(Departed')
  OBVIOUS
<1>2. SoundAll(ready)'
  BY <1>1 DEF SoundFor, Departed, Present, SoundAll, Gone
<1>3. OwnNames' <=> OwnNames
  BY DEF OwnNames
<1> QED
  BY <1>2, <1>3 DEF ErrorsMeanGone, SoundAll, Gone

\* Who was gone is gone, whatever becomes of the clients.
LEMMA LeftGrows ==
  ASSUME NEW q \in Seq(Sound), UNCHANGED peer, clients_' \subseteq clients_
  PROVE  q \in Seq(SoundFor(Departed'))
<1>1. Departed \subseteq Departed'
  BY DEF Departed, Gone
<1> QED
  BY <1>1, SeqMonotonic DEF Sound, SoundFor

\* The critical section of work, which both start and the timer's handler reach:
\* it posts reads for clients only, and leaves its successor in the queue.
LEMMA WorkKeeps ==
  ASSUME ChatInv, work(ready)
  PROVE  /\ ready' \in Seq(Handler) /\ HasWork(ready')
         /\ reads' \in [Conns -> Seq(Seq(Piece))]
         /\ ErrorsMeanGone'
<1>1. ready \in Seq(Sound) /\ ready \in Seq(Handler)
  BY SoundReady DEF ChatInv, TypeOK
<1>2. Work \in Sound /\ Work \in Handler
  BY DEF Sound, SoundFor, Handler
<1>3. ready' \in Seq(Sound) /\ ready' \in Seq(Handler) /\ HasWork(ready')
  BY <1>1, <1>2, AppendQueue DEF work
<1>4. <<>> \in Seq(Piece)
  OBVIOUS
<1>5. reads' \in [Conns -> Seq(Seq(Piece))]
  BY <1>4 DEF work, ChatInv, TypeOK
<1>6. UNCHANGED <<peer, clients_, writes>>
  BY DEF work, peerVars
<1>7. \A c \in Conns : reads'[c] # <<>> => c \in clients_
  BY DEF work, ChatInv, ErrorsMeanGone
<1>8. ready' \in Seq(SoundFor(Departed'))
  BY <1>3, <1>6, LeftGrows
<1>9. ErrorsMeanGone'
  <2>1. ErrorsMeanGone
    BY DEF ChatInv
  <2>2. \A d \in Conns : /\ OwnNames /\ peer[d] = "connected" => d \in clients_'
                         /\ writes'[d] > 0 => peer[d] # "absent"
    BY <1>6, <2>1 DEF ErrorsMeanGone
  <2> QED
    BY <1>3, <1>6, <1>7, <1>8, <2>1, <2>2, ErrorsKeep
<1> QED
  BY <1>3, <1>5, <1>9

\* The peers, and the client that joins.
LEMMA PeersKeep ==
  ASSUME ChatInv, NEW c \in Conns, Join(c) \/ PeerSends(c) \/ PeerCloses(c)
  PROVE  ChatInv'
<1>1. UNCHANGED <<started, host, starts, io, ready, reads, relayed, writes, cut>>
  BY DEF Join, PeerSends, PeerCloses, hostVars
<1>2. LoopAlive'
  BY <1>1 DEF ChatInv, LoopAlive, QueuedWork
<1>3. \A i \in DOMAIN ready : ready[i] # Work => ready[i].conn \in Conns
  <2>1. \A i \in DOMAIN ready : ready[i] \in Handler
    BY DEF ChatInv, TypeOK
  <2> QED
    BY <2>1 DEF Handler
<1>4. CASE Join(c)
  <2>1. TypeOK'
    BY <1>1, <1>4 DEF Join, ChatInv, TypeOK
  <2>2. /\ clients_' = clients_ \cup {c} /\ peer[c] = "absent"
        /\ peer'[c] \in {"connected", "closed"}
        /\ \A d \in Conns \ {c} : peer'[d] = peer[d]
        /\ \A d \in clients_ : Id[d] # Id[c] /\ d \in Conns
    BY <1>4 DEF Join, ChatInv, TypeOK
  <2>3. \A d \in Conns : peer[d] # "absent" =>
          d # c /\ peer'[d] = peer[d] /\ (Gone(d) => Gone(d)')
    BY <2>2 DEF Gone
  <2>4. OwnNames' <=> OwnNames
    BY DEF OwnNames
  <2>5. \A d \in Conns :
          /\ d \in clients_' => peer'[d] # "absent"
          /\ OwnNames' /\ peer'[d] = "connected" => d \in clients_'
          /\ reads'[d] # <<>> => d \in clients_'
          /\ writes'[d] > 0 => peer'[d] # "absent"
    BY <1>1, <2>2, <2>3, <2>4 DEF ChatInv, ErrorsMeanGone
  <2>6. \A d, e \in clients_' : Id[d] = Id[e] => d = e
    BY <2>2 DEF ChatInv, ErrorsMeanGone
  <2>7. SoundAll(ready)'
    BY <1>1, <1>3, <2>3 DEF ChatInv, ErrorsMeanGone, SoundAll, Gone
  <2>8. ErrorsMeanGone'
    BY <2>5, <2>6, <2>7 DEF ErrorsMeanGone, SoundAll, Gone
  <2> QED
    BY <1>2, <2>1, <2>8 DEF ChatInv
<1>5. CASE PeerSends(c)
  <2>1. sent[c] + 1 \in Piece /\ sent[c] + 1 \in Nat
    BY DEF ChatInv, TypeOK, Piece
  <2>2. stream' \in [Conns -> Seq(Piece)]
    BY <1>5, <2>1 DEF PeerSends, ChatInv, TypeOK
  <2>3. sent' \in [Conns -> Nat] /\ \A d \in Conns : sent'[d] <= 2 * MaxLines[d]
    <3>1. MaxLines[c] \in Nat /\ sent[c] \in Nat
      BY ChatAssumption DEF ChatInv, TypeOK
    <3>2. sent[c] + 1 <= 2 * MaxLines[c]
      BY <1>5, <3>1 DEF PeerSends
    <3> QED
      BY <1>5, <2>1, <3>2 DEF PeerSends, ChatInv, TypeOK
  <2>4. UNCHANGED <<clients_, peer>>
    BY <1>5 DEF PeerSends
  <2>5. TypeOK' /\ ErrorsMeanGone'
    BY <1>1, <2>2, <2>3, <2>4 DEF ChatInv, TypeOK, ErrorsMeanGone, OwnNames, Gone
  <2> QED
    BY <1>2, <2>5 DEF ChatInv
<1>6. CASE PeerCloses(c)
  <2>1. TypeOK'
    BY <1>1, <1>6 DEF PeerCloses, ChatInv, TypeOK
  <2>2. ErrorsMeanGone'
    <3>1. /\ UNCHANGED clients_ /\ peer[c] = "connected"
          /\ peer' = [peer EXCEPT ![c] = "closed"]
          /\ peer \in [Conns -> {"absent", "connected", "closed"}]
      BY <1>6 DEF PeerCloses, ChatInv, TypeOK
    <3>2. \A d \in Conns : /\ peer'[d] = "absent" <=> peer[d] = "absent"
                           /\ peer'[d] = "connected" => peer[d] = "connected"
                           /\ Gone(d) => Gone(d)'
      BY <3>1 DEF Gone
    <3>3. OwnNames' <=> OwnNames
      BY DEF OwnNames
    <3> QED
      BY <1>1, <1>3, <3>1, <3>2, <3>3 DEF ChatInv, TypeOK, ErrorsMeanGone
  <2> QED
    BY <1>2, <2>1, <2>2 DEF ChatInv
<1> QED
  BY <1>4, <1>5, <1>6

\* The reactor: a read that got something, and the reads at the end of file.
LEMMA ReactorKeeps ==
  ASSUME ChatInv, NEW c \in Conns, ReadSome(c) \/ ReadsEnd(c)
  PROVE  ChatInv'
<1>1. ready \in Seq(Sound) /\ ready \in Seq(Handler)
  BY SoundReady DEF ChatInv, TypeOK
<1>2. reads[c] \in Seq(Seq(Piece)) /\ stream[c] \in Seq(Piece)
  BY DEF ChatInv, TypeOK
<1>3. UNCHANGED <<started, host, starts, io, clients_, peer, sent, relayed, writes>>
  BY DEF ReadSome, ReadsEnd, hostVars, peerVars
<1>a. /\ ErrorsMeanGone
      /\ \A d \in Conns : /\ OwnNames /\ peer[d] = "connected" => d \in clients_'
                          /\ writes'[d] > 0 => peer[d] # "absent"
  BY <1>3 DEF ChatInv, ErrorsMeanGone
<1>4. CASE ReadSome(c)
  <2>1. peer[c] # "absent"
    BY <1>4 DEF ReadSome, ChatInv, ErrorsMeanGone
  <2>2. PICK n \in 1 .. Len(stream[c]) :
          LET buffer == Head(reads[c]) \o SubSeq(stream[c], 1, n)
          IN /\ stream' = [stream EXCEPT ![c] = SubSeq(@, n + 1, Len(@))]
             /\ ready' = Append(ready, ReadDone(c, buffer, FALSE))
             /\ cut' = IF EndsLine(buffer[Len(buffer)]) THEN cut ELSE cut \cup {c}
    BY <1>4 DEF ReadSome
  <2> DEFINE buffer == Head(reads[c]) \o SubSeq(stream[c], 1, n)
  <2>3. Head(reads[c]) \in Seq(Piece) /\ Tail(reads[c]) \in Seq(Seq(Piece))
    BY <1>2, <1>4, HeadTailProperties DEF ReadSome
  <2>4. Len(stream[c]) \in Nat /\ \A i \in 1 .. Len(stream[c]) : stream[c][i] \in Piece
    BY <1>2
  <2>5. SubSeq(stream[c], 1, n) \in Seq(Piece)
    <3>1. \A i \in 1 .. n : stream[c][i] \in Piece
      BY <2>4
    <3> QED
      BY <3>1, <2>4, SubSeqProperties
  <2>6. SubSeq(stream[c], n + 1, Len(stream[c])) \in Seq(Piece)
    <3>1. \A i \in n + 1 .. Len(stream[c]) : stream[c][i] \in Piece
      BY <2>4
    <3>2. n + 1 \in Int /\ Len(stream[c]) \in Int
      BY <2>4
    <3> QED
      BY <3>1, <3>2, SubSeqProperties
  <2>7. buffer \in Seq(Piece)
    BY <2>3, <2>5, ConcatProperties
  <2>8. ReadDone(c, buffer, FALSE) \in Sound /\ ReadDone(c, buffer, FALSE) \in Handler
    <3> HIDE DEF buffer
    <3> QED
      BY <2>1, <2>7 DEF ReadDone, Sound, SoundFor, Present, Handler
  <2>9. ready' = Append(ready, ReadDone(c, buffer, FALSE))
    BY <2>2
  <2>10. /\ ready' \in Seq(Sound) /\ ready' \in Seq(Handler)
         /\ HasWork(ready) => HasWork(ready')
    <3> HIDE DEF buffer
    <3> QED
      BY <1>1, <2>8, <2>9, AppendQueue
  <2>11. reads' = [reads EXCEPT ![c] = Tail(@)]
    BY <1>4 DEF ReadSome
  <2>12. reads' \in [Conns -> Seq(Seq(Piece))] /\ stream' \in [Conns -> Seq(Piece)]
    BY <2>2, <2>3, <2>6, <2>11 DEF ChatInv, TypeOK
  <2>13. cut' \subseteq Conns
    BY <2>2 DEF ChatInv, TypeOK
  <2>14. TypeOK'
    BY <1>3, <2>10, <2>12, <2>13 DEF ChatInv, TypeOK
  <2>15. LoopAlive'
    BY <1>3, <2>10, AliveKeeps DEF ChatInv
  <2>16. \A d \in Conns : reads'[d] # <<>> => d \in clients_
    BY <1>4, <2>11 DEF ReadSome, ChatInv, TypeOK, ErrorsMeanGone
  <2>17. ErrorsMeanGone'
    BY <1>3, <1>a, <2>10, <2>16, ErrorsKeep, LeftGrows
  <2> QED
    BY <2>14, <2>15, <2>17 DEF ChatInv
<1>5. CASE ReadsEnd(c)
  <2>1. peer[c] = "closed" /\ c \in Departed
    BY <1>5 DEF ReadsEnd, Departed, Gone
  <2>2. Failures(c) \in Seq(Sound) /\ Failures(c) \in Seq(Handler)
    BY <2>1, FailuresSound DEF ChatInv, Sound
  <2>3. /\ ready' \in Seq(Sound) /\ ready' \in Seq(Handler)
        /\ HasWork(ready) => HasWork(ready')
    BY <1>1, <1>5, <2>2, ConcatQueue DEF ReadsEnd
  <2>4. reads' \in [Conns -> Seq(Seq(Piece))] /\ UNCHANGED <<stream, cut>>
    BY <1>5 DEF ReadsEnd, ChatInv, TypeOK
  <2>5. TypeOK'
    BY <1>3, <2>3, <2>4 DEF ChatInv, TypeOK
  <2>6. LoopAlive'
    BY <1>3, <2>3, AliveKeeps DEF ChatInv
  <2>7. \A d \in Conns : reads'[d] # <<>> => d \in clients_
    BY <1>5 DEF ReadsEnd, ChatInv, TypeOK, ErrorsMeanGone
  <2>8. ErrorsMeanGone'
    BY <1>3, <1>a, <2>3, <2>7, ErrorsKeep, LeftGrows
  <2> QED
    BY <2>5, <2>6, <2>8 DEF ChatInv
<1> QED
  BY <1>4, <1>5

\* A host thread in start() or stop().
LEMMA HostsKeep ==
  ASSUME ChatInv, NEW h \in Hosts, StartLoads(h) \/ StopLoads(h) \/ HostGoesOn(h)
  PROVE  ChatInv'
<1>1. host \in [Hosts -> {"idle", "start", "work", "looping", "stop"}]
  BY DEF ChatInv, TypeOK
<1>2. CASE StartLoads(h) \/ StartStores(h) \/ StartCallsWork(h) \/ StopLoads(h) \/ StopStores(h)
  <2>1. UNCHANGED <<io, ready, reads, clients_, peer, sent, stream, relayed, writes, cut>>
    BY <1>2 DEF StartLoads, StartStores, StartCallsWork, StopLoads, StopStores, peerVars
  <2>2. /\ host' \in [Hosts -> {"idle", "start", "work", "looping", "stop"}]
        /\ started' \in BOOLEAN
    BY <1>1, <1>2 DEF StartLoads, StartStores, StartCallsWork, StopLoads, StopStores,
                      HostGoes, ChatInv, TypeOK
  <2>3. starts' \in 0 .. MaxStarts
    BY <1>2, ChatAssumption DEF StartLoads, StartStores, StartCallsWork, StopLoads,
                                StopStores, ChatInv, TypeOK
  <2>4. TypeOK'
    BY <2>1, <2>2, <2>3 DEF ChatInv, TypeOK
  <2>5. ErrorsMeanGone'
    BY <2>1 DEF ChatInv, ErrorsMeanGone, OwnNames, Gone
  <2>6. LoopAlive'
    <3>1. CASE StartLoads(h) \/ StopStores(h)
      BY <3>1 DEF StartLoads, StopStores, LoopAlive
    <3>2. CASE StartStores(h) \/ StartCallsWork(h)
      <4>1. started' => host'[h] \in {"work", "looping"}
        BY <1>1, <3>2 DEF StartStores, StartCallsWork, HostGoes
      <4> QED
        BY <4>1 DEF LoopAlive
    <3>3. CASE StopLoads(h)
      <4>1. \A g \in Hosts : host[g] \in {"work", "looping"} => host'[g] = host[g]
        BY <1>1, <3>3 DEF StopLoads, HostGoes
      <4>2. UNCHANGED started
        BY <3>3 DEF StopLoads
      <4> QED
        BY <2>1, <4>1, <4>2 DEF ChatInv, LoopAlive, QueuedWork
    <3> QED
      BY <1>2, <3>1, <3>2, <3>3
  <2> QED
    BY <2>4, <2>5, <2>6 DEF ChatInv
<1>3. CASE StartWorks(h)
  <2>1. work(ready) /\ UNCHANGED <<io, clients_, peer, sent, stream, relayed, writes, cut,
                        started, starts>>
    BY <1>3 DEF StartWorks, work, peerVars
  <2>2. /\ ready' \in Seq(Handler) /\ HasWork(ready')
        /\ reads' \in [Conns -> Seq(Seq(Piece))] /\ ErrorsMeanGone'
    BY <2>1, WorkKeeps
  <2>3. host' \in [Hosts -> {"idle", "start", "work", "looping", "stop"}]
    BY <1>1, <1>3 DEF StartWorks, HostGoes
  <2>4. TypeOK'
    BY <2>1, <2>2, <2>3 DEF ChatInv, TypeOK
  <2>5. LoopAlive'
    BY <2>2 DEF LoopAlive, QueuedWork, HasWork
  <2> QED
    BY <2>2, <2>4, <2>5 DEF ChatInv
<1> QED
  BY <1>2, <1>3 DEF HostGoesOn

\* The io thread in work.
LEMMA LoopKeeps ==
  ASSUME ChatInv, HandleTimer \/ IoWorks
  PROVE  ChatInv'
<1>1. ready \in Seq(Sound) /\ ready \in Seq(Handler)
  BY SoundReady DEF ChatInv, TypeOK
<1>2. CASE HandleTimer
  <2>1. UNCHANGED <<started, host, starts, reads, clients_, peer, sent, stream,
                    relayed, writes, cut>>
    BY <1>2 DEF HandleTimer, hostVars, peerVars
  <2>2. ready' \in Seq(Sound) /\ ready' \in Seq(Handler)
    BY <1>1, <1>2, TailQueue DEF HandleTimer, Runs
  <2>3. io' \in {"idle", "looping"}
    BY <1>2 DEF HandleTimer
  <2>4. TypeOK'
    BY <2>1, <2>2, <2>3 DEF ChatInv, TypeOK
  <2>5. LoopAlive'
    BY <1>2, <2>1 DEF HandleTimer, LoopAlive
  <2>6. ErrorsMeanGone'
    <3>1. /\ ErrorsMeanGone
          /\ \A d \in Conns : /\ OwnNames /\ peer[d] = "connected" => d \in clients_
                              /\ reads[d] # <<>> => d \in clients_
                              /\ writes[d] > 0 => peer[d] # "absent"
      BY DEF ChatInv, ErrorsMeanGone
    <3> QED
      BY <2>1, <2>2, <3>1, ErrorsKeep, LeftGrows
  <2> QED
    BY <2>4, <2>5, <2>6 DEF ChatInv
<1>3. CASE IoWorks
  <2>1. /\ work(ready)
        /\ UNCHANGED <<host, clients_, peer, sent, stream, relayed, writes, cut,
                        started, starts>>
        /\ io' = "idle"
    BY <1>3 DEF IoWorks, work, peerVars
  <2>2. /\ ready' \in Seq(Handler) /\ HasWork(ready')
        /\ reads' \in [Conns -> Seq(Seq(Piece))] /\ ErrorsMeanGone'
    BY <2>1, WorkKeeps
  <2>3. TypeOK'
    BY <2>1, <2>2 DEF ChatInv, TypeOK
  <2>4. LoopAlive'
    BY <2>2 DEF LoopAlive, QueuedWork, HasWork
  <2> QED
    BY <2>2, <2>3, <2>4 DEF ChatInv
<1> QED
  BY <1>2, <1>3

\* remove_client, by a name of a connection that is gone.
LEMMA RemoveKeeps ==
  ASSUME ChatInv, NEW id, NEW d \in Conns, Gone(d), id \in {Id[d], Login[d]},
         NEW queue \in Seq(Handler), queue \in Seq(Sound), HasWork(ready) => HasWork(queue),
         remove_client(id, queue),
         UNCHANGED <<started, host, starts, io, peer, sent, stream, relayed, cut>>,
         writes' \in [Conns -> Nat], \A e \in Conns : writes'[e] > 0 => writes[e] > 0
  PROVE  ChatInv'
<1>1. /\ TypeOK /\ ErrorsMeanGone
      /\ \A e \in Conns : /\ OwnNames /\ peer[e] = "connected" => e \in clients_
                          /\ reads[e] # <<>> => e \in clients_
                          /\ writes'[e] > 0 => peer[e] # "absent"
  BY DEF ChatInv, ErrorsMeanGone
<1>2. CASE ready' = queue /\ UNCHANGED <<clients_, reads>>
  <2>1. TypeOK'
    BY <1>1, <1>2 DEF TypeOK
  <2>2. LoopAlive'
    BY <1>2, AliveKeeps DEF ChatInv
  <2>3. ErrorsMeanGone'
    BY <1>1, <1>2, ErrorsKeep, LeftGrows
  <2> QED
    BY <2>1, <2>2, <2>3 DEF ChatInv
<1>3. ASSUME NEW c \in clients_, Id[c] = id, clients_' = clients_ \ {c},
             ready' = queue \o Failures(c), reads' = [reads EXCEPT ![c] = <<>>]
      PROVE  ChatInv'
  <2>1. c \in Conns /\ peer[c] # "absent"
    BY <1>1 DEF TypeOK, ErrorsMeanGone
  <2>2. c \in Departed'
    BY <1>3, <2>1 DEF Departed, Gone
  <2>3. Failures(c) \in Seq(SoundFor(Departed')) /\ Failures(c) \in Seq(Handler)
    BY <1>1, <2>1, <2>2, FailuresSound
  <2>4. queue \in Seq(SoundFor(Departed'))
    BY <1>3, LeftGrows
  <2>5. /\ ready' \in Seq(SoundFor(Departed')) /\ ready' \in Seq(Handler)
        /\ HasWork(ready) => HasWork(ready')
    BY <1>3, <2>3, <2>4, ConcatQueue
  <2>6. TypeOK'
    BY <1>1, <1>3, <2>1, <2>5 DEF TypeOK
  <2>7. LoopAlive'
    BY <2>5, AliveKeeps DEF ChatInv
  <2>8. OwnNames => peer[c] # "connected"
    <3> SUFFICES ASSUME OwnNames PROVE peer[c] # "connected"
      OBVIOUS
    <3>1. c = d
      BY <1>3, <2>1 DEF OwnNames
    <3> QED
      BY <1>3, <3>1 DEF Gone
  <2>9. \A e \in Conns : reads'[e] # <<>> => e \in clients_'
    BY <1>1, <1>3, <2>1 DEF TypeOK
  <2>10. ErrorsMeanGone'
    BY <1>1, <1>3, <2>5, <2>8, <2>9, ErrorsKeep
  <2> QED
    BY <2>6, <2>7, <2>10 DEF ChatInv
<1> QED
  BY <1>2, <1>3 DEF remove_client

\* do_read's handler on the io thread.
LEMMA HandlerKeeps ==
  ASSUME ChatInv, HandlePartial \/ HandleLine \/ HandleReadError
  PROVE  ChatInv'
<1> DEFINE r == Head(ready)
<1>1. ready \in Seq(Sound) /\ ready \in Seq(Handler)
  BY SoundReady DEF ChatInv, TypeOK
<1>2. ready # <<>> /\ r.op = "message"
  BY DEF HandlePartial, HandleLine, HandleReadError, Runs
<1>3. r \in Sound /\ r \in Handler /\ Tail(ready) \in Seq(Sound) /\ Tail(ready) \in Seq(Handler)
  BY <1>1, <1>2, TailQueue
<1>4. r # Work
  BY <1>2 DEF Work
<1>5. HasWork(ready) => HasWork(Tail(ready))
  BY <1>1, <1>2, <1>4, TailQueue
<1>6. /\ r.conn \in Conns /\ r.buffer \in Seq(Piece)
      /\ peer[r.conn] # "absent"
      /\ r.failed => Gone(r.conn)
  BY <1>3, <1>4 DEF Sound, SoundFor, Present, Departed, Handler
<1>7. UNCHANGED <<started, host, starts, io, peer, sent, stream, cut>>
  BY DEF HandlePartial, HandleLine, HandleReadError, hostVars, peerVars
<1>8. /\ ErrorsMeanGone
      /\ \A d \in Conns : /\ OwnNames /\ peer[d] = "connected" => d \in clients_
                          /\ reads[d] # <<>> => d \in clients_
                          /\ writes[d] > 0 => peer[d] # "absent"
                          /\ d \in clients_ => peer[d] # "absent"
  BY DEF ChatInv, ErrorsMeanGone
<1>9. CASE HandlePartial
  <2>1. UNCHANGED <<clients_, relayed, writes>>
    BY <1>9 DEF HandlePartial
  <2>2. CASE r.conn \in clients_
    <3>1. reads' = [reads EXCEPT ![r.conn] = Append(@, r.buffer)] /\ ready' = Tail(ready)
      BY <1>9, <2>2 DEF HandlePartial
    <3>2. reads' \in [Conns -> Seq(Seq(Piece))]
      BY <1>6, <3>1 DEF ChatInv, TypeOK
    <3>3. TypeOK'
      BY <1>3, <1>7, <2>1, <3>1, <3>2 DEF ChatInv, TypeOK
    <3>4. LoopAlive'
      BY <1>5, <1>7, <3>1, AliveKeeps DEF ChatInv
    <3>5. \A d \in Conns : reads'[d] # <<>> => d \in clients_
      BY <1>8, <2>2, <3>1 DEF ChatInv, TypeOK
    <3>6. ErrorsMeanGone'
      BY <1>3, <1>7, <1>8, <2>1, <3>1, <3>5, ErrorsKeep, LeftGrows
    <3> QED
      BY <3>3, <3>4, <3>6 DEF ChatInv
  <2>3. CASE r.conn \notin clients_
    <3>1. UNCHANGED reads /\ ready' = Append(Tail(ready), ReadDone(r.conn, r.buffer, TRUE))
      BY <1>9, <2>3 DEF HandlePartial
    <3>2. r.conn \in Departed /\ r.conn \in Present
      BY <1>6, <2>3 DEF Departed, Present, Gone
    <3>3. ReadDone(r.conn, r.buffer, TRUE) \in Sound /\ ReadDone(r.conn, r.buffer, TRUE) \in Handler
      <4> HIDE DEF r
      <4> QED
        BY <1>6, <3>2 DEF ReadDone, Sound, SoundFor, Handler
    <3>4. /\ ready' \in Seq(Sound) /\ ready' \in Seq(Handler)
          /\ HasWork(ready) => HasWork(ready')
      <4> HIDE DEF r
      <4> QED
        BY <1>3, <1>5, <3>1, <3>3, AppendQueue
    <3>5. TypeOK'
      BY <1>7, <2>1, <3>1, <3>4 DEF ChatInv, TypeOK
    <3>6. LoopAlive'
      BY <1>7, <3>4, AliveKeeps DEF ChatInv
    <3>7. ErrorsMeanGone'
      BY <1>7, <1>8, <2>1, <3>1, <3>4, ErrorsKeep, LeftGrows
    <3> QED
      BY <3>5, <3>6, <3>7 DEF ChatInv
  <2> QED
    BY <2>2, <2>3
<1>10. CASE HandleLine
  <2>1. UNCHANGED <<clients_, reads>> /\ ready' = Tail(ready)
    BY <1>10 DEF HandleLine
  <2>2. PICK n \in FirstEnd(r.buffer) :
          relayed' = [relayed EXCEPT ![r.conn] = Append(@, SubSeq(r.buffer, 1, n))]
    BY <1>10 DEF HandleLine
  <2>3. SubSeq(r.buffer, 1, n) \in Seq(Piece)
    <3>1. n \in Int /\ \A i \in 1 .. n : r.buffer[i] \in Piece
      <4> HIDE DEF r
      <4> QED
        BY <1>6 DEF FirstEnd
    <3> QED
      BY <3>1, SubSeqProperties
  <2>4. relayed' \in [Conns -> Seq(Seq(Piece))]
    BY <1>6, <2>2, <2>3 DEF ChatInv, TypeOK
  <2>a. /\ writes' \in [Conns -> Nat]
        /\ \A d \in Conns : writes'[d] > 0 => writes[d] > 0 \/ d \in clients_
    BY <1>10 DEF HandleLine, SendTo, ChatInv, TypeOK
  <2>5. TypeOK'
    BY <1>3, <1>7, <2>1, <2>4, <2>a DEF ChatInv, TypeOK
  <2>6. LoopAlive'
    BY <1>5, <1>7, <2>1, AliveKeeps DEF ChatInv
  <2>7. ErrorsMeanGone'
    BY <1>3, <1>7, <1>8, <2>1, <2>a, ErrorsKeep, LeftGrows
  <2> QED
    BY <2>5, <2>6, <2>7 DEF ChatInv
<1>11. CASE HandleReadError
  <2>1. /\ remove_client(Id[r.conn], Tail(ready)) /\ UNCHANGED <<relayed, writes>>
        /\ Gone(r.conn)
    BY <1>6, <1>11 DEF HandleReadError
  <2>2. writes \in [Conns -> Nat]
    BY DEF ChatInv, TypeOK
  <2> HIDE DEF r
  <2> QED
    BY <1>3, <1>5, <1>6, <1>7, <2>1, <2>2, RemoveKeeps
<1> QED
  BY <1>9, <1>10, <1>11

\* The end of a write.
LEMMA WritesKeep ==
  ASSUME ChatInv, NEW c \in Conns, WriteEnds(c) \/ WriteFails(c)
  PROVE  ChatInv'
<1>1. /\ UNCHANGED <<started, host, starts, io, peer, sent, stream, relayed, cut>>
      /\ writes' \in [Conns -> Nat] /\ \A e \in Conns : writes'[e] > 0 => writes[e] > 0
  <2>1. Writes(c) /\ writes \in [Conns -> Nat]
    BY DEF WriteEnds, WriteFails, ChatInv, TypeOK
  <2>2. writes[c] - 1 \in Nat /\ writes[c] > 0 /\ writes' = [writes EXCEPT ![c] = writes[c] - 1]
    BY <2>1 DEF Writes
  <2> QED
    BY <2>1, <2>2 DEF Writes, hostVars, peerVars
<1>2. ready \in Seq(Sound) /\ ready \in Seq(Handler)
  BY SoundReady DEF ChatInv, TypeOK
<1>3. CASE WriteEnds(c)
  <2>1. UNCHANGED <<clients_, ready, reads>>
    BY <1>3 DEF WriteEnds
  <2>2. TypeOK' /\ LoopAlive'
    BY <1>1, <2>1 DEF ChatInv, TypeOK, LoopAlive, QueuedWork
  <2>3. /\ ErrorsMeanGone
        /\ \A d \in Conns : /\ OwnNames /\ peer[d] = "connected" => d \in clients_
                            /\ reads[d] # <<>> => d \in clients_
                            /\ writes'[d] > 0 => peer[d] # "absent"
    BY <1>1 DEF ChatInv, ErrorsMeanGone
  <2>4. ErrorsMeanGone'
    BY <1>1, <1>2, <2>1, <2>3, ErrorsKeep, LeftGrows
  <2> QED
    BY <2>2, <2>4 DEF ChatInv
<1>4. CASE WriteFails(c)
  <2>1. Gone(c) /\ remove_client(Login[c], ready)
    BY <1>4 DEF WriteFails
  <2> QED
    BY <1>1, <1>2, <2>1, RemoveKeeps
<1> QED
  BY <1>3, <1>4

-----------------------------------------------------------------------------
(* The theorems. *)

\* A step of Chat keeps the invariant.
LEMMA ChatStep == ChatInv /\ [Next]_vars => ChatInv'
<1> SUFFICES ASSUME ChatInv, [Next]_vars PROVE ChatInv'
  OBVIOUS
<1>1. CASE UNCHANGED vars
  BY <1>1 DEF vars, ChatInv, TypeOK, LoopAlive, QueuedWork, ErrorsMeanGone, OwnNames, Gone
<1>2. CASE Next
  BY <1>2, PeersKeep, ReactorKeeps, HostsKeep, LoopKeeps, HandlerKeeps, WritesKeep
     DEF Next, IoThread
<1> QED
  BY <1>1, <1>2

\* The inductive invariant: the types, the loop, and what an error means.
THEOREM ChatInvariant == Spec => []ChatInv
<1> QED
  BY ChatInit, ChatStep, PTL DEF Spec

\* The chat's variables have their types: what is read, queued and relayed are pieces
\* that peers sent, and the counters stay inside their bounds.
THEOREM ChatTypes == Spec => []TypeOK
<1>1. ChatInv => TypeOK
  BY DEF ChatInv
<1> QED
  BY <1>1, ChatInvariant, PTL

\* Chat::work is alive as long as the chat is started, whichever threads call
\* start and stop concurrently.
THEOREM LoopNeverDies == Spec => []LoopAlive
<1>1. ChatInv => LoopAlive
  BY DEF ChatInv
<1> QED
  BY <1>1, ChatInvariant, PTL

\* The steps that remove clients do so by a name of a connection that is gone.
LEMMA LeaverStep ==
  ASSUME ChatInv, [Next]_vars
  PROVE  \A c \in clients_ \ clients_' :
           \E d \in Conns : Gone(d) /\ Id[c] \in {Id[d], Login[d]}
<1>1. CASE HandleReadError
  <2>1. ready \in Seq(Sound) /\ ready # <<>> /\ Head(ready).op = "message"
    BY <1>1, SoundReady DEF HandleReadError, Runs
  <2>2. Head(ready) \in Sound /\ Head(ready) # Work
    BY <2>1, TailQueue DEF Work
  <2>3. /\ Head(ready).failed /\ Head(ready).conn \in Conns /\ Gone(Head(ready).conn)
        /\ remove_client(Id[Head(ready).conn], Tail(ready))
    BY <1>1, <2>2 DEF HandleReadError, Sound, SoundFor, Departed
  <2> QED
    BY <2>3 DEF remove_client
<1>2. ASSUME NEW d \in Conns, WriteFails(d)
      PROVE  \A c \in clients_ \ clients_' : Gone(d) /\ Id[c] \in {Id[d], Login[d]}
  BY <1>2 DEF WriteFails, remove_client
<1>3. CASE ~HandleReadError /\ (\A d \in Conns : ~WriteFails(d)) /\ Next
  <2>1. clients_ \subseteq clients_'
    BY <1>3 DEF Next, IoThread, HostGoesOn, Join, PeerSends, PeerCloses, ReadSome,
                ReadsEnd, StartLoads, StartStores, StartCallsWork, StartWorks, StopLoads,
                StopStores, HandleTimer, IoWorks, HandlePartial, HandleLine, WriteEnds, work
  <2> QED
    BY <2>1
<1>4. CASE UNCHANGED vars
  BY <1>4 DEF vars
<1> QED
  BY <1>1, <1>2, <1>3, <1>4

\* The two calls of remove_client (Chat.cpp:18 and 45) remove a client only by a name of
\* a connection whose peer has left or that was removed: no aborted read of another
\* name, no stop() and no piece that came late removes anybody.
THEOREM MembersStay == Spec => OnlyLeaversRemoved
<1>1. ChatInv /\ [Next]_vars =>
        [\A c \in clients_ \ clients_' :
           \E d \in Conns : Gone(d) /\ Id[c] \in {Id[d], Login[d]}]_vars
  BY LeaverStep
<1> QED
  BY <1>1, ChatInvariant, PTL DEF Spec, OnlyLeaversRemoved

\* Where a name stands for one client, however many reads and writes are outstanding,
\* only who has disconnected is removed.
THEOREM OwnNamesRemove == OwnNames /\ Spec => RemovesTheDisconnected
<1> SUFFICES ASSUME OwnNames PROVE Spec => RemovesTheDisconnected
  OBVIOUS
<1>1. ChatInv /\ [Next]_vars => [\A c \in clients_ \ clients_' : peer[c] = "closed"]_vars
  <2> SUFFICES ASSUME ChatInv, [Next]_vars, NEW c \in clients_ \ clients_'
               PROVE  peer[c] = "closed"
    OBVIOUS
  <2>1. PICK d \in Conns : Gone(d) /\ Id[c] \in {Id[d], Login[d]}
    BY LeaverStep
  <2>2. c \in Conns
    BY DEF ChatInv, TypeOK
  <2>3. c = d
    BY <2>1, <2>2 DEF OwnNames
  <2> QED
    BY <2>1, <2>3 DEF Gone
<1> QED
  BY <1>1, ChatInvariant, PTL DEF Spec, RemovesTheDisconnected

-----------------------------------------------------------------------------
(* How many loops. *)

WorkAt(q) == {i \in DOMAIN q : q[i] = Work}

\* The runs of work in a queue can be counted.
LEMMA WorkFinite ==
  ASSUME NEW q \in Seq(Handler)
  PROVE  IsFiniteSet(WorkAt(q)) /\ Cardinality(WorkAt(q)) \in Nat
<1>1. WorkAt(q) \subseteq 1 .. Len(q) /\ Len(q) \in Int
  BY DEF WorkAt
<1>2. IsFiniteSet(1 .. Len(q))
  BY <1>1, FS_Interval
<1> QED
  BY <1>1, <1>2, FS_Subset, FS_CardinalityType

LEMMA MessageNoWork == \A c, b, f : ReadDone(c, b, f) # Work
<1>1. \A c, b, f : ReadDone(c, b, f).op = "message"
  BY DEF ReadDone
<1>2. Work.op = "work"
  BY DEF Work
<1> QED
  BY <1>1, <1>2

LEMMA AppendNoWork ==
  ASSUME NEW S, NEW q \in Seq(S), NEW h \in S, h # Work
  PROVE  WorkAt(Append(q, h)) = WorkAt(q)
<1>1. /\ DOMAIN Append(q, h) = 1 .. (Len(q) + 1) /\ DOMAIN q = 1 .. Len(q)
      /\ \A i \in 1 .. Len(q) : Append(q, h)[i] = q[i]
      /\ Append(q, h)[Len(q) + 1] = h
      /\ Len(q) \in Nat
  OBVIOUS
<1> QED
  BY <1>1 DEF WorkAt

\* Queueing a handler adds at most one run of work.
LEMMA AppendWork ==
  ASSUME NEW q \in Seq(Handler), NEW h \in Handler
  PROVE  Cardinality(WorkAt(Append(q, h))) <= Cardinality(WorkAt(q)) + 1
<1> DEFINE s == Append(q, h)
<1>1. /\ DOMAIN s = 1 .. (Len(q) + 1) /\ DOMAIN q = 1 .. Len(q)
      /\ \A i \in 1 .. Len(q) : s[i] = q[i]
      /\ s[Len(q) + 1] = h
      /\ Len(q) \in Nat
  OBVIOUS
<1> HIDE DEF s
<1>2. CASE h # Work
  <2>1. WorkAt(s) = WorkAt(q) /\ Cardinality(WorkAt(q)) \in Nat
    BY <1>2, AppendNoWork, WorkFinite DEF s
  <2>2. Cardinality(WorkAt(s)) <= Cardinality(WorkAt(q)) + 1
    BY <2>1
  <2> QED
    BY <2>2 DEF s
<1>3. CASE h = Work
  <2>1. WorkAt(s) = WorkAt(q) \cup {Len(q) + 1}
    BY <1>1, <1>3 DEF WorkAt
  <2>2. Cardinality(WorkAt(q) \cup {Len(q) + 1}) =
          IF Len(q) + 1 \in WorkAt(q) THEN Cardinality(WorkAt(q)) ELSE Cardinality(WorkAt(q)) + 1
    BY WorkFinite, FS_AddElement
  <2>3. Cardinality(WorkAt(q)) \in Nat
    BY WorkFinite
  <2>4. Cardinality(WorkAt(s)) <= Cardinality(WorkAt(q)) + 1
    BY <2>1, <2>2, <2>3
  <2> QED
    BY <1>3, <2>4 DEF s
<1> QED
  BY <1>2, <1>3

\* Calling a run of work takes it from the queue.
LEMMA TailWork ==
  ASSUME NEW q \in Seq(Handler), q # <<>>
  PROVE  /\ Cardinality(WorkAt(Tail(q))) <= Cardinality(WorkAt(q))
         /\ Head(q) = Work => Cardinality(WorkAt(Tail(q))) <= Cardinality(WorkAt(q)) - 1
<1> DEFINE s == Tail(q)
<1>1. /\ DOMAIN s = 1 .. (Len(q) - 1) /\ DOMAIN q = 1 .. Len(q)
      /\ \A i \in 1 .. (Len(q) - 1) : s[i] = q[i + 1]
      /\ Len(q) \in Nat /\ Head(q) = q[1] /\ 1 \in DOMAIN q
      /\ s \in Seq(Handler)
  OBVIOUS
<1> HIDE DEF s
<1> DEFINE W == WorkAt(q) \ {1}
<1> DEFINE f == [i \in WorkAt(s) |-> i + 1]
<1>2. \A i \in WorkAt(s) : i \in Nat /\ i + 1 \in W
  BY <1>1 DEF WorkAt
<1>3. f \in Injection(WorkAt(s), W)
  <2>1. f \in [WorkAt(s) -> W]
    BY <1>2
  <2>2. \A i, j \in WorkAt(s) : f[i] = f[j] => i = j
    BY <1>2
  <2> HIDE DEF f, W
  <2> QED
    BY <2>1, <2>2 DEF Injection, IsInjective
<1>4. /\ IsFiniteSet(W)
      /\ Cardinality(W) = IF 1 \in WorkAt(q) THEN Cardinality(WorkAt(q)) - 1
                                             ELSE Cardinality(WorkAt(q))
  BY WorkFinite, FS_RemoveElement
<1>5. Cardinality(WorkAt(s)) <= Cardinality(W)
  <2> HIDE DEF f, W
  <2> QED
    BY <1>3, <1>4, FS_Injection
<1>6. Cardinality(WorkAt(q)) \in Nat /\ Cardinality(WorkAt(s)) \in Nat
  BY <1>1, WorkFinite
<1>7. Head(q) = Work => 1 \in WorkAt(q)
  BY <1>1 DEF WorkAt
<1> HIDE DEF W, f
<1>8. /\ Cardinality(WorkAt(s)) <= Cardinality(WorkAt(q))
      /\ 1 \in WorkAt(q) => Cardinality(WorkAt(s)) <= Cardinality(WorkAt(q)) - 1
  BY <1>4, <1>5, <1>6
<1> QED
  BY <1>7, <1>8 DEF s

\* Reads that fail are no runs of work.
LEMMA ConcatWork ==
  ASSUME NEW q \in Seq(Handler), NEW r \in Seq(Handler), \A i \in DOMAIN r : r[i] # Work
  PROVE  WorkAt(q \o r) = WorkAt(q)
<1> DEFINE s == q \o r
<1>1. /\ DOMAIN s = 1 .. (Len(q) + Len(r)) /\ DOMAIN q = 1 .. Len(q)
      /\ DOMAIN r = 1 .. Len(r)
      /\ \A i \in 1 .. Len(q) : s[i] = q[i]
      /\ \A i \in 1 .. (Len(q) + Len(r)) : i > Len(q) => s[i] = r[i - Len(q)]
      /\ Len(q) \in Nat /\ Len(r) \in Nat
  OBVIOUS
<1> HIDE DEF s
<1>2. \A i \in DOMAIN s : i \notin DOMAIN q => s[i] # Work
  <2> SUFFICES ASSUME NEW i \in DOMAIN s, i \notin DOMAIN q PROVE s[i] # Work
    OBVIOUS
  <2>1. i - Len(q) \in DOMAIN r /\ s[i] = r[i - Len(q)]
    BY <1>1
  <2> QED
    BY <2>1
<1>3. \A i \in DOMAIN q : i \in DOMAIN s /\ s[i] = q[i]
  BY <1>1
<1> QED
  BY <1>2, <1>3 DEF WorkAt, s

LEMMA FailuresNoWork ==
  ASSUME TypeOK, NEW c \in Conns
  PROVE  Failures(c) \in Seq(Handler) /\ \A i \in DOMAIN Failures(c) : Failures(c)[i] # Work
<1>1. reads[c] \in Seq(Seq(Piece))
  BY DEF TypeOK
<1>2. ASSUME NEW b \in Seq(Piece)
      PROVE  ReadDone(c, b, TRUE) \in Handler /\ ReadDone(c, b, TRUE) # Work
  <2>1. ReadDone(c, b, TRUE) \in Handler
    BY DEF ReadDone, Handler
  <2> QED
    BY <2>1, MessageNoWork
<1>3. ASSUME NEW i \in DOMAIN reads[c]
      PROVE  Failures(c)[i] \in Handler /\ Failures(c)[i] # Work
  <2>1. reads[c][i] \in Seq(Piece)
    BY <1>1, <1>3
  <2> QED
    BY <1>2, <1>3, <2>1 DEF Failures
<1>4. DOMAIN reads[c] = 1 .. Len(reads[c]) /\ Len(reads[c]) \in Nat
  BY <1>1
<1>5. Failures(c) \in [1 .. Len(reads[c]) -> Handler]
  BY <1>3, <1>4 DEF Failures
<1>6. DOMAIN Failures(c) = DOMAIN reads[c]
  BY DEF Failures
<1> QED
  BY <1>3, <1>4, <1>5, <1>6, SeqDef

\* Each run of work, queued or under way, and each start() under way stands for a
\* call that found the chat stopped.
LoopInv == IsFiniteSet(Starters) /\ LoopsBounded

\* The loops and starters do not become more.
LEMMA LoopsKeep ==
  ASSUME ChatInv, LoopInv, ready' \in Seq(Handler), UNCHANGED <<starts, io>>,
         Starters' \subseteq Starters,
         Cardinality(WorkAt(ready')) <= Cardinality(WorkAt(ready))
  PROVE  LoopInv'
<1>1. /\ ready \in Seq(Handler) /\ starts \in Nat
      /\ QueuedWork = WorkAt(ready) /\ QueuedWork' = WorkAt(ready')
  BY ChatAssumption DEF ChatInv, TypeOK, QueuedWork, WorkAt
<1>2. Cardinality(WorkAt(ready)) \in Nat /\ Cardinality(WorkAt(ready')) \in Nat
  BY <1>1, WorkFinite
<1>3. /\ IsFiniteSet(Starters) /\ IsFiniteSet(Starters')
      /\ Cardinality(Starters') <= Cardinality(Starters)
      /\ Cardinality(Starters) \in Nat /\ Cardinality(Starters') \in Nat
  BY FS_Subset, FS_CardinalityType DEF LoopInv
<1>4. LoopsBounded'
  BY <1>1, <1>2, <1>3 DEF LoopInv, LoopsBounded, Loops
<1> QED
  BY <1>3, <1>4 DEF LoopInv

LEMMA LoopsInit == Init => LoopInv
<1> SUFFICES ASSUME Init PROVE LoopInv
  OBVIOUS
<1>1. Starters = {} /\ QueuedWork = {} /\ io # "looping" /\ starts = 0
  BY DEF Init, Starters, QueuedWork
<1> QED
  BY <1>1, FS_EmptySet DEF LoopInv, LoopsBounded, Loops

LEMMA LoopsStep == ChatInv /\ LoopInv /\ [Next]_vars => LoopInv'
<1> SUFFICES ASSUME ChatInv, LoopInv, [Next]_vars PROVE LoopInv'
  OBVIOUS
<1>1. /\ ready \in Seq(Handler) /\ starts \in Nat /\ TypeOK
      /\ host \in [Hosts -> {"idle", "start", "work", "looping", "stop"}]
      /\ QueuedWork = WorkAt(ready) /\ QueuedWork' = WorkAt(ready')
      /\ IsFiniteSet(Starters)
  BY ChatAssumption DEF ChatInv, TypeOK, QueuedWork, WorkAt, LoopInv
<1>2. TypeOK' /\ ready' \in Seq(Handler)
  BY ChatStep DEF ChatInv, TypeOK
<1>3. /\ Cardinality(WorkAt(ready)) \in Nat /\ Cardinality(WorkAt(ready')) \in Nat
      /\ Cardinality(Starters) \in Nat
  BY <1>1, <1>2, WorkFinite, FS_CardinalityType
<1>4. Work \in Handler
  BY DEF Handler
<1>5. Loops = Cardinality(WorkAt(ready)) + (IF io = "looping" THEN 1 ELSE 0)
      /\ Loops' = Cardinality(WorkAt(ready')) + (IF io' = "looping" THEN 1 ELSE 0)
      /\ Loops + Cardinality(Starters) <= starts
  BY <1>1 DEF Loops, LoopInv, LoopsBounded
<1>6. ASSUME UNCHANGED <<ready, starts, io, host>> PROVE LoopInv'
  BY <1>1, <1>2, <1>3, <1>6, LoopsKeep DEF Starters
<1>7. ASSUME NEW c \in Conns, Join(c) \/ PeerSends(c) \/ PeerCloses(c) PROVE LoopInv'
  BY <1>6, <1>7 DEF Join, PeerSends, PeerCloses, hostVars
<1>8. ASSUME NEW c \in Conns, ReadSome(c) \/ ReadsEnd(c) PROVE LoopInv'
  <2>1. Starters' = Starters /\ UNCHANGED <<starts, io>>
    BY <1>8 DEF ReadSome, ReadsEnd, hostVars, Starters
  <2>2. WorkAt(ready') = WorkAt(ready)
    <3>1. CASE ReadSome(c)
      <4>1. PICK h : ready' = Append(ready, h) /\ h # Work
        BY <3>1, MessageNoWork DEF ReadSome
      <4>2. ready \in Seq(Handler \cup {h})
        BY <1>1, SeqMonotonic
      <4> QED
        BY <4>1, <4>2, AppendNoWork
    <3>2. CASE ReadsEnd(c)
      BY <1>1, <3>2, FailuresNoWork, ConcatWork DEF ReadsEnd
    <3> QED
      BY <1>8, <3>1, <3>2
  <2> QED
    BY <1>2, <1>3, <2>1, <2>2, LoopsKeep
<1>9. ASSUME NEW h \in Hosts, StartLoads(h) PROVE LoopInv'
  <2>1. /\ Starters' = Starters \cup {h} /\ h \notin Starters
        /\ starts' = starts + 1 /\ UNCHANGED <<ready, io>>
    BY <1>1, <1>9 DEF StartLoads, HostGoes, Starters
  <2>2. IsFiniteSet(Starters') /\ Cardinality(Starters') = Cardinality(Starters) + 1
    BY <1>1, <2>1, FS_AddElement
  <2>3. Loops' = Loops
    BY <2>1 DEF Loops, QueuedWork
  <2>4. LoopsBounded'
    BY <1>1, <1>3, <1>5, <2>1, <2>2, <2>3 DEF LoopsBounded
  <2> QED
    BY <2>2, <2>4 DEF LoopInv
<1>10. ASSUME NEW h \in Hosts,
              StartStores(h) \/ StartCallsWork(h) \/ StopLoads(h) \/ StopStores(h)
       PROVE  LoopInv'
  <2>1. UNCHANGED <<ready, io, starts>>
    BY <1>10 DEF StartStores, StartCallsWork, StopLoads, StopStores
  <2>2. Starters' \subseteq Starters
    BY <1>1, <1>10 DEF StartStores, StartCallsWork, StopLoads, StopStores, HostGoes, Starters
  <2> QED
    BY <1>2, <1>3, <2>1, <2>2, LoopsKeep
<1>11. ASSUME NEW h \in Hosts, StartWorks(h) PROVE LoopInv'
  <2>1. /\ Starters' = Starters \ {h} /\ h \in Starters
        /\ UNCHANGED <<starts, io>> /\ ready' = Append(ready, Work)
    BY <1>1, <1>11 DEF StartWorks, HostGoes, Starters, work
  <2>2. IsFiniteSet(Starters') /\ Cardinality(Starters') = Cardinality(Starters) - 1
    BY <1>1, <2>1, FS_RemoveElement
  <2>3. Cardinality(WorkAt(ready')) <= Cardinality(WorkAt(ready)) + 1
    BY <1>1, <1>4, <2>1, AppendWork
  <2>4. LoopsBounded'
    BY <1>1, <1>3, <1>5, <2>1, <2>2, <2>3 DEF LoopsBounded
  <2> QED
    BY <2>2, <2>4 DEF LoopInv
<1>12. CASE HandleTimer
  <2>1. /\ ready # <<>> /\ Head(ready).op = "work" /\ ready' = Tail(ready)
        /\ io = "idle" /\ UNCHANGED <<starts, host>>
    BY <1>12 DEF HandleTimer, Runs, hostVars
  <2>2. Head(ready) = Work
    <3>1. Head(ready) \in Handler
      BY <1>1, <2>1
    <3> QED
      BY <2>1, <3>1 DEF Handler, Work
  <2>3. Cardinality(WorkAt(ready')) <= Cardinality(WorkAt(ready)) - 1
    BY <1>1, <2>1, <2>2, TailWork
  <2>4. Starters' = Starters
    BY <2>1 DEF Starters
  <2>5. LoopsBounded'
    BY <1>1, <1>3, <1>5, <2>1, <2>3, <2>4 DEF LoopsBounded
  <2> QED
    BY <1>1, <2>4, <2>5 DEF LoopInv
<1>13. CASE IoWorks
  <2>1. /\ ready' = Append(ready, Work) /\ io = "looping" /\ io' = "idle"
        /\ starts' = starts /\ Starters' = Starters
    BY <1>13 DEF IoWorks, work, Starters
  <2>2. Cardinality(WorkAt(ready')) <= Cardinality(WorkAt(ready)) + 1
    BY <1>1, <1>4, <2>1, AppendWork
  <2>3. LoopsBounded'
    BY <1>1, <1>3, <1>5, <2>1, <2>2 DEF LoopsBounded
  <2> QED
    BY <1>1, <2>1, <2>3 DEF LoopInv
<1>14. CASE HandlePartial \/ HandleLine \/ HandleReadError
  <2>1. ready # <<>> /\ Head(ready).op = "message" /\ UNCHANGED <<starts, io, host>>
    BY <1>14 DEF HandlePartial, HandleLine, HandleReadError, Runs, hostVars
  <2>2. Head(ready) \in Handler /\ Tail(ready) \in Seq(Handler)
    BY <1>1, <2>1
  <2>3. Head(ready).conn \in Conns /\ Head(ready).buffer \in Seq(Piece)
    BY <2>1, <2>2 DEF Handler, Work
  <2>4. Cardinality(WorkAt(Tail(ready))) <= Cardinality(WorkAt(ready))
    BY <1>1, <2>1, TailWork
  <2>5. WorkAt(ready') = WorkAt(Tail(ready))
    <3>1. CASE ready' = Tail(ready)
      BY <3>1
    <3>2. CASE ready' = Append(Tail(ready),
                               ReadDone(Head(ready).conn, Head(ready).buffer, TRUE))
      <4>1. ReadDone(Head(ready).conn, Head(ready).buffer, TRUE) \in Handler
        BY <2>3 DEF ReadDone, Handler
      <4>2. PICK h \in Handler : h # Work /\ ready' = Append(Tail(ready), h)
        BY <3>2, <4>1, MessageNoWork
      <4> QED
        BY <2>2, <4>2, AppendNoWork
    <3>3. ASSUME NEW c \in Conns, ready' = Tail(ready) \o Failures(c)
          PROVE  WorkAt(ready') = WorkAt(Tail(ready))
      BY <1>1, <2>2, <3>3, FailuresNoWork, ConcatWork
    <3>4. clients_ \subseteq Conns
      BY <1>1 DEF TypeOK
    <3> QED
      BY <1>14, <3>1, <3>2, <3>3, <3>4
         DEF HandlePartial, HandleLine, HandleReadError, remove_client
  <2>6. Starters' = Starters
    BY <2>1 DEF Starters
  <2> QED
    BY <1>2, <2>1, <2>4, <2>5, <2>6, LoopsKeep
<1>15. ASSUME NEW c \in Conns, WriteEnds(c) \/ WriteFails(c) PROVE LoopInv'
  <2>1. UNCHANGED <<starts, io>> /\ Starters' = Starters
    BY <1>15 DEF WriteEnds, WriteFails, Writes, hostVars, Starters
  <2>2. WorkAt(ready') = WorkAt(ready)
    <3>1. ASSUME NEW d \in Conns, ready' = ready \o Failures(d)
          PROVE  WorkAt(ready') = WorkAt(ready)
      BY <1>1, <3>1, FailuresNoWork, ConcatWork
    <3>2. clients_ \subseteq Conns
      BY <1>1 DEF TypeOK
    <3> QED
      BY <1>15, <3>1, <3>2 DEF WriteEnds, WriteFails, remove_client
  <2> QED
    BY <1>2, <1>3, <2>1, <2>2, LoopsKeep
<1>16. CASE UNCHANGED vars
  BY <1>6, <1>16 DEF vars
<1> QED
  BY <1>7, <1>8, <1>9, <1>10, <1>11, <1>12, <1>13, <1>14, <1>15, <1>16
     DEF Next, HostGoesOn, IoThread

\* There are never more loops than calls of start() that found the chat stopped,
\* for any number of threads that start and stop it.
THEOREM LoopsAreFew == Spec => []LoopsBounded
<1>1. LoopInv => LoopsBounded
  BY DEF LoopInv
<1> QED
  BY <1>1, LoopsInit, LoopsStep, ChatInvariant, PTL DEF Spec

-----------------------------------------------------------------------------
(* Where the pieces are. *)

\* What is at an index of a sequence that was made of others.
LEMMA AppendAt ==
  ASSUME NEW S, NEW q \in Seq(S), NEW h, NEW i \in DOMAIN Append(q, h)
  PROVE  \/ i \in DOMAIN q /\ i \in 1 .. Len(q) /\ Append(q, h)[i] = q[i]
         \/ i = Len(q) + 1 /\ Append(q, h)[i] = h
OBVIOUS

LEMMA TailAt ==
  ASSUME NEW S, NEW q \in Seq(S), q # <<>>
  PROVE  /\ Head(q) = q[1] /\ 1 \in DOMAIN q /\ Len(Tail(q)) = Len(q) - 1
         /\ \A i \in DOMAIN Tail(q) :
              i \in 1 .. Len(q) - 1 /\ i + 1 \in DOMAIN q /\ Tail(q)[i] = q[i + 1]
OBVIOUS

LEMMA ConcatAt ==
  ASSUME NEW S, NEW q \in Seq(S), NEW r \in Seq(S), NEW i \in DOMAIN (q \o r)
  PROVE  \/ i \in DOMAIN q /\ i \in 1 .. Len(q) /\ (q \o r)[i] = q[i]
         \/ /\ i \in Nat /\ i > Len(q) /\ i - Len(q) \in DOMAIN r
            /\ (q \o r)[i] = r[i - Len(q)]
<1>1. /\ DOMAIN (q \o r) = 1 .. (Len(q) + Len(r)) /\ DOMAIN q = 1 .. Len(q)
      /\ DOMAIN r = 1 .. Len(r) /\ Len(q) \in Nat /\ Len(r) \in Nat
      /\ \A j \in 1 .. Len(q) : (q \o r)[j] = q[j]
      /\ \A j \in 1 .. Len(q) + Len(r) : j > Len(q) => (q \o r)[j] = r[j - Len(q)]
  OBVIOUS
<1> QED
  BY <1>1

LEMMA SubSeqAt ==
  ASSUME NEW S, NEW q \in Seq(S), NEW m \in 1 .. Len(q) + 1, NEW n \in 0 .. Len(q),
         m <= n + 1
  PROVE  /\ DOMAIN SubSeq(q, m, n) = 1 .. n - m + 1 /\ Len(SubSeq(q, m, n)) = n - m + 1
         /\ SubSeq(q, m, n) \in Seq(S)
         /\ \A i \in 1 .. n - m + 1 :
              m + i - 1 \in DOMAIN q /\ SubSeq(q, m, n)[i] = q[m + i - 1]
OBVIOUS

\* How far the reads have come in what the peer sent.
Base(c) == sent[c] - Len(stream[c])

\* What waits in a socket is the end of what was sent.
StreamInv ==
  \A c \in Conns :
    /\ Base(c) \in Nat
    /\ \A j \in DOMAIN stream[c] : stream[c][j] = Base(c) + j

\* The steps that read nothing leave the base where it is.
LEMMA BaseStays ==
  ASSUME ChatInv, [Next]_vars, NEW c \in Conns, ~ReadSome(c)
  PROVE  Base(c)' = Base(c)
<1>1. /\ sent \in [Conns -> Nat] /\ stream \in [Conns -> Seq(Piece)]
  BY DEF ChatInv, TypeOK
<1>2. CASE UNCHANGED <<sent, stream>>
  BY <1>2 DEF Base
<1>3. ASSUME NEW d \in Conns, PeerSends(d) PROVE Base(c)' = Base(c)
  <2>1. /\ sent' = [sent EXCEPT ![d] = @ + 1]
        /\ stream' = [stream EXCEPT ![d] = Append(@, sent[d] + 1)]
    BY <1>3 DEF PeerSends
  <2>2. Len(Append(stream[d], sent[d] + 1)) = Len(stream[d]) + 1 /\ Len(stream[d]) \in Nat
    BY <1>1
  <2> QED
    BY <1>1, <2>1, <2>2 DEF Base
<1>4. ASSUME NEW d \in Conns, ReadSome(d) PROVE Base(c)' = Base(c)
  BY <1>1, <1>4 DEF ReadSome, peerVars, Base
<1> QED
  BY <1>2, <1>3, <1>4
     DEF Next, vars, Join, PeerCloses, ReadsEnd, StartLoads, StopLoads, HostGoesOn,
         StartStores, StartCallsWork, StartWorks, StopStores, IoThread, HandleTimer,
         IoWorks, HandlePartial, HandleLine, HandleReadError, WriteEnds, WriteFails,
         Writes, work, peerVars

\* A read takes the pieces that come next.
LEMMA ReadTakes ==
  ASSUME ChatInv, StreamInv, NEW c \in Conns, ReadSome(c)
  PROVE  \E n \in 1 .. Len(stream[c]) :
           LET first  == SubSeq(stream[c], 1, n)
               buffer == Head(reads[c]) \o first
           IN /\ Base(c)' = Base(c) + n
              /\ stream'[c] = SubSeq(stream[c], n + 1, Len(stream[c]))
              /\ first \in Seq(Piece) /\ DOMAIN first = 1 .. n /\ Len(first) = n
              /\ \A j \in 1 .. n : first[j] = Base(c) + j
              /\ ready' = Append(ready, ReadDone(c, buffer, FALSE))
              /\ cut' = IF EndsLine(buffer[Len(buffer)]) THEN cut ELSE cut \cup {c}
              /\ reads' = [reads EXCEPT ![c] = Tail(@)]
              /\ Head(reads[c]) \in Seq(Piece)
              /\ buffer \in Seq(Piece)
<1>1. /\ stream \in [Conns -> Seq(Piece)] /\ sent \in [Conns -> Nat]
      /\ reads[c] \in Seq(Seq(Piece)) /\ reads[c] # <<>>
  BY DEF ChatInv, TypeOK, ReadSome
<1>2. PICK n \in 1 .. Len(stream[c]) :
        LET buffer == Head(reads[c]) \o SubSeq(stream[c], 1, n)
        IN /\ stream' = [stream EXCEPT ![c] = SubSeq(@, n + 1, Len(@))]
           /\ ready' = Append(ready, ReadDone(c, buffer, FALSE))
           /\ cut' = IF EndsLine(buffer[Len(buffer)]) THEN cut ELSE cut \cup {c}
  BY DEF ReadSome
<1>3. /\ stream[c] \in Seq(Piece) /\ Len(stream[c]) \in Nat
      /\ DOMAIN stream[c] = 1 .. Len(stream[c])
  BY <1>1
<1>4. /\ SubSeq(stream[c], 1, n) \in Seq(Piece)
      /\ DOMAIN SubSeq(stream[c], 1, n) = 1 .. n /\ Len(SubSeq(stream[c], 1, n)) = n
      /\ \A j \in 1 .. n : SubSeq(stream[c], 1, n)[j] = stream[c][j]
  BY <1>3
<1>5. Len(SubSeq(stream[c], n + 1, Len(stream[c]))) = Len(stream[c]) - n
  BY <1>3
<1>6. Base(c)' = Base(c) + n
  <2>1. sent' = sent /\ sent[c] \in Nat
    BY <1>1 DEF ReadSome, peerVars
  <2>2. Len(stream'[c]) = Len(stream[c]) - n
    BY <1>1, <1>2, <1>5
  <2>3. Base(c)' = sent'[c] - Len(stream'[c])
    BY DEF Base
  <2> QED
    BY <1>3, <2>1, <2>2, <2>3 DEF Base
<1>7. \A j \in 1 .. n : SubSeq(stream[c], 1, n)[j] = Base(c) + j
  BY <1>3, <1>4 DEF StreamInv
<1>8. Head(reads[c]) \in Seq(Piece)
  BY <1>1
<1>9. Head(reads[c]) \o SubSeq(stream[c], 1, n) \in Seq(Piece)
  BY <1>4, <1>8
<1>10. reads' = [reads EXCEPT ![c] = Tail(@)]
  BY DEF ReadSome
<1>11. stream'[c] = SubSeq(stream[c], n + 1, Len(stream[c]))
  BY <1>1, <1>2
<1> QED
  BY <1>2, <1>4, <1>6, <1>7, <1>8, <1>9, <1>10, <1>11

\* The socket stays in order.
LEMMA StreamStep ==
  ASSUME ChatInv, StreamInv, [Next]_vars
  PROVE  StreamInv'
<1> SUFFICES ASSUME NEW c \in Conns
             PROVE  /\ Base(c)' \in Nat
                    /\ \A j \in DOMAIN stream'[c] : stream'[c][j] = Base(c)' + j
  BY DEF StreamInv, Base
<1>1. /\ sent \in [Conns -> Nat] /\ stream \in [Conns -> Seq(Piece)]
      /\ Base(c) \in Nat /\ Len(stream[c]) \in Nat /\ DOMAIN stream[c] = 1 .. Len(stream[c])
      /\ \A j \in DOMAIN stream[c] : stream[c][j] = Base(c) + j
  BY DEF ChatInv, TypeOK, StreamInv
<1>2. CASE ReadSome(c)
  <2>1. PICK n \in 1 .. Len(stream[c]) :
          /\ Base(c)' = Base(c) + n
          /\ stream'[c] = SubSeq(stream[c], n + 1, Len(stream[c]))
    BY <1>2, ReadTakes
  <2>2. /\ DOMAIN stream'[c] = 1 .. Len(stream[c]) - n
        /\ \A j \in 1 .. Len(stream[c]) - n : stream'[c][j] = stream[c][n + j]
    <3>1. stream[c] \in Seq(Piece)
      BY <1>1
    <3> QED
      BY <1>1, <2>1, <3>1, SubSeqAt
  <2> QED
    BY <1>1, <2>1, <2>2
<1>3. CASE ~ReadSome(c)
  <2>1. Base(c)' = Base(c)
    BY <1>3, BaseStays
  <2>2. CASE PeerSends(c)
    <3>1. stream'[c] = Append(stream[c], sent[c] + 1)
      BY <1>1, <2>2 DEF PeerSends
    <3>2. sent[c] + 1 = Base(c) + (Len(stream[c]) + 1)
      BY <1>1 DEF Base
    <3>3. stream[c] \in Seq(Piece)
      BY <1>1
    <3> QED
      BY <1>1, <2>1, <3>1, <3>2, <3>3
  <2>3. CASE stream'[c] = stream[c]
    BY <1>1, <2>1, <2>3
  <2>4. stream'[c] = stream[c] \/ PeerSends(c)
    BY <1>1, <1>3
       DEF Next, vars, Join, PeerSends, PeerCloses, ReadSome, ReadsEnd, StartLoads,
           StopLoads, HostGoesOn, StartStores, StartCallsWork, StartWorks, StopStores,
           IoThread, HandleTimer, IoWorks, HandlePartial, HandleLine, HandleReadError,
           WriteEnds, WriteFails, Writes, work
  <2> QED
    BY <2>2, <2>3, <2>4
<1> QED
  BY <1>2, <1>3

\* The places of a piece: a relayed message, a read that waits, or the buffer of
\* one whose handler waits.
Elems(s) == {s[j] : j \in DOMAIN s}

At(c, p, place, i) ==
  \/ place = "relayed" /\ i \in DOMAIN relayed[c] /\ p \in Elems(relayed[c][i])
  \/ place = "reads" /\ i \in DOMAIN reads[c] /\ p \in Elems(reads[c][i])
  \/ /\ place = "ready" /\ i \in DOMAIN ready
     /\ ready[i] # Work /\ ready[i].conn = c /\ p \in Elems(ready[i].buffer)

\* Every piece that was read is in one place at most.
InOnePlace(c) ==
  \A p, k, i : At(c, p, k, i) =>
    /\ p <= Base(c)
    /\ \A l, j : At(c, p, l, j) => k = l /\ i = j

PieceInv == StreamInv /\ \A c \in Conns : InOnePlace(c)

LEMMA AtFacts ==
  ASSUME ChatInv, NEW c \in Conns, NEW p, NEW k, NEW i, At(c, p, k, i)
  PROVE  p \in Nat /\ i \in Nat \ {0} /\ k \in {"relayed", "reads", "ready"}
<1>1. /\ relayed[c] \in Seq(Seq(Piece)) /\ reads[c] \in Seq(Seq(Piece))
      /\ ready \in Seq(Handler)
  BY DEF ChatInv, TypeOK
<1>2. ASSUME NEW s \in Seq(Piece), p \in Elems(s) PROVE p \in Nat
  BY <1>2 DEF Elems, Piece
<1>3. ASSUME NEW q \in Seq(Seq(Piece)), i \in DOMAIN q, p \in Elems(q[i])
      PROVE  p \in Nat /\ i \in Nat \ {0}
  <2>1. q[i] \in Seq(Piece) /\ i \in Nat \ {0}
    BY <1>3
  <2> QED
    BY <1>2, <1>3, <2>1
<1>4. ASSUME i \in DOMAIN ready, ready[i] # Work, p \in Elems(ready[i].buffer)
      PROVE  p \in Nat /\ i \in Nat \ {0}
  <2>1. ready[i] \in Handler /\ i \in Nat \ {0}
    BY <1>1, <1>4
  <2>2. ready[i].buffer \in Seq(Piece)
    BY <1>4, <2>1 DEF Handler
  <2> QED
    BY <1>2, <1>4, <2>1, <2>2
<1> QED
  BY <1>1, <1>3, <1>4 DEF At

\* A place is one of three.
LEMMA PlacesAre ==
  ASSUME NEW c, NEW p, NEW k, NEW i
  PROVE  /\ At(c, p, k, i) => k \in {"relayed", "reads", "ready"}
         /\ At(c, p, k, i)' => k \in {"relayed", "reads", "ready"}
         /\ At(c, p, "relayed", i) <=> i \in DOMAIN relayed[c] /\ p \in Elems(relayed[c][i])
         /\ At(c, p, "relayed", i)'
              <=> i \in DOMAIN relayed'[c] /\ p \in Elems(relayed'[c][i])
         /\ At(c, p, "reads", i) <=> i \in DOMAIN reads[c] /\ p \in Elems(reads[c][i])
         /\ At(c, p, "reads", i)' <=> i \in DOMAIN reads'[c] /\ p \in Elems(reads'[c][i])
         /\ At(c, p, "ready", i)
              <=> /\ i \in DOMAIN ready /\ ready[i] # Work /\ ready[i].conn = c
                  /\ p \in Elems(ready[i].buffer)
         /\ At(c, p, "ready", i)'
              <=> /\ i \in DOMAIN ready' /\ ready'[i] # Work /\ ready'[i].conn = c
                  /\ p \in Elems(ready'[i].buffer)
BY DEF At, Elems

\* How the pieces move in a step that reads nothing: the handler at the head may leave
\* (m = 1) and its buffer go to dest, and the reads of the connections in fails fail.
Moves(c, m, dest, fails) ==
  /\ \A p, i : At(c, p, "relayed", i)' =>
       \/ i <= Len(relayed[c]) /\ At(c, p, "relayed", i)
       \/ dest = "relayed" /\ i = Len(relayed[c]) + 1 /\ At(c, p, "ready", 1)
  /\ \A p, i : At(c, p, "reads", i)' =>
       \/ i <= Len(reads[c]) /\ c \notin fails /\ At(c, p, "reads", i)
       \/ dest = "reads" /\ i = Len(reads[c]) + 1 /\ At(c, p, "ready", 1)
  /\ \A p, i : At(c, p, "ready", i)' =>
       \/ i \in 1 .. Len(ready) - m /\ At(c, p, "ready", i + m)
       \/ i \in Nat /\ i > Len(ready) - m /\ c \in fails /\ At(c, p, "reads", i - (Len(ready) - m))
       \/ dest = "ready" /\ i = Len(ready) - m + 1 /\ At(c, p, "ready", 1)

\* Moving pieces does not copy them.
LEMMA MovedOnce ==
  ASSUME ChatInv, NEW c \in Conns, InOnePlace(c), Base(c)' = Base(c),
         NEW m \in {0, 1}, NEW dest, NEW fails, Moves(c, m, dest, fails),
         dest \in {"relayed", "reads", "ready"} => m = 1, dest = "ready" => c \notin fails
  PROVE  InOnePlace(c)'
<1>1. Len(ready) \in Nat /\ Len(relayed[c]) \in Nat /\ Len(reads[c]) \in Nat
  <2>1. ready \in Seq(Handler) /\ relayed[c] \in Seq(Seq(Piece)) /\ reads[c] \in Seq(Seq(Piece))
    BY DEF ChatInv, TypeOK
  <2> QED
    BY <2>1
<1>2. \A p, k, i : At(c, p, k, i)' => k \in {"relayed", "reads", "ready"}
  BY PlacesAre
<1>3. /\ \A p, k, i : At(c, p, k, i) => p \in Nat /\ i \in Nat \ {0} /\ p <= Base(c)
      /\ \A p, k, i, l, j : At(c, p, k, i) /\ At(c, p, l, j) => k = l /\ i = j
  BY AtFacts DEF InOnePlace
<1> DEFINE From(k, i, from, at) ==
             \/ /\ k = "relayed"
                /\ \/ from = "relayed" /\ at = i /\ i <= Len(relayed[c])
                   \/ from = "ready" /\ at = 1 /\ dest = k /\ i = Len(relayed[c]) + 1
             \/ /\ k = "reads"
                /\ \/ from = "reads" /\ at = i /\ i <= Len(reads[c]) /\ c \notin fails
                   \/ from = "ready" /\ at = 1 /\ dest = k /\ i = Len(reads[c]) + 1
             \/ /\ k = "ready"
                /\ \/ from = "ready" /\ at = i + m /\ i \in 1 .. Len(ready) - m
                   \/ /\ from = "reads" /\ c \in fails
                      /\ i \in Nat /\ i > Len(ready) - m /\ at = i - (Len(ready) - m)
                   \/ from = "ready" /\ at = 1 /\ dest = k /\ i = Len(ready) - m + 1
<1>4. ASSUME NEW p, NEW k, NEW i, At(c, p, k, i)'
      PROVE  \E from, at : At(c, p, from, at) /\ From(k, i, from, at)
  <2>1. CASE k = "relayed"
    <3>1. \/ i <= Len(relayed[c]) /\ At(c, p, "relayed", i)
          \/ dest = "relayed" /\ i = Len(relayed[c]) + 1 /\ At(c, p, "ready", 1)
      BY <1>4, <2>1 DEF Moves
    <3> QED
      BY <2>1, <3>1
  <2>2. CASE k = "reads"
    <3>1. \/ i <= Len(reads[c]) /\ c \notin fails /\ At(c, p, "reads", i)
          \/ dest = "reads" /\ i = Len(reads[c]) + 1 /\ At(c, p, "ready", 1)
      BY <1>4, <2>2 DEF Moves
    <3> QED
      BY <2>2, <3>1
  <2>3. CASE k = "ready"
    <3>1. \/ i \in 1 .. Len(ready) - m /\ At(c, p, "ready", i + m)
          \/ /\ i \in Nat /\ i > Len(ready) - m /\ c \in fails
             /\ At(c, p, "reads", i - (Len(ready) - m))
          \/ dest = "ready" /\ i = Len(ready) - m + 1 /\ At(c, p, "ready", 1)
      BY <1>4, <2>3 DEF Moves
    <3> QED
      BY <2>3, <3>1
  <2> QED
    BY <1>2, <1>4, <2>1, <2>2, <2>3
<1>5. ASSUME NEW p, NEW k, NEW i, At(c, p, k, i)' PROVE p <= Base(c)'
  BY <1>3, <1>4, <1>5
<1>6. ASSUME NEW k, NEW i, NEW l, NEW j, NEW from, NEW at \in Nat \ {0},
             From(k, i, from, at), From(l, j, from, at)
      PROVE  k = l /\ i = j
  <2>1. CASE from = "relayed"
    BY <1>6, <2>1
  <2>2. CASE from = "reads"
    BY <1>1, <1>6, <2>2
  <2>3. CASE from = "ready"
    BY <1>1, <1>6, <2>3
  <2> QED
    BY <1>6, <2>1, <2>2, <2>3
<1> HIDE DEF From
<1>7. ASSUME NEW p, NEW k, NEW i, NEW l, NEW j, At(c, p, k, i)', At(c, p, l, j)'
      PROVE  k = l /\ i = j
  <2>1. PICK f, a : At(c, p, f, a) /\ From(k, i, f, a)
    BY <1>4, <1>7
  <2>2. PICK g, b : At(c, p, g, b) /\ From(l, j, g, b)
    BY <1>4, <1>7
  <2>3. f = g /\ a = b /\ a \in Nat \ {0}
    BY <1>3, <2>1, <2>2
  <2> QED
    BY <1>6, <2>1, <2>2, <2>3
<1> QED
  BY <1>5, <1>7 DEF InOnePlace

\* The oldest read takes pieces that are nowhere yet.
LEMMA ReadSomeOnce ==
  ASSUME ChatInv, PieceInv, NEW c \in Conns, NEW d \in Conns, ReadSome(d),
         Base(c)' = Base(c) \/ c = d
  PROVE  InOnePlace(c)'
<1>1. PICK n \in 1 .. Len(stream[d]) :
        LET first  == SubSeq(stream[d], 1, n)
            buffer == Head(reads[d]) \o first
        IN /\ Base(d)' = Base(d) + n
           /\ first \in Seq(Piece) /\ DOMAIN first = 1 .. n
           /\ \A j \in 1 .. n : first[j] = Base(d) + j
           /\ ready' = Append(ready, ReadDone(d, buffer, FALSE))
           /\ reads' = [reads EXCEPT ![d] = Tail(@)]
           /\ Head(reads[d]) \in Seq(Piece)
  BY ReadTakes DEF PieceInv
<1> DEFINE first  == SubSeq(stream[d], 1, n)
           buffer == Head(reads[d]) \o first
           h      == ReadDone(d, buffer, FALSE)
<1>2. /\ ready \in Seq(Handler) /\ reads \in [Conns -> Seq(Seq(Piece))]
      /\ reads[d] \in Seq(Seq(Piece)) /\ reads[d] # <<>>
      /\ relayed' = relayed /\ Base(c) \in Nat /\ n \in Nat \ {0}
  <2>1. /\ ready \in Seq(Handler) /\ reads \in [Conns -> Seq(Seq(Piece))]
        /\ stream[d] \in Seq(Piece)
    BY DEF ChatInv, TypeOK
  <2>2. Len(stream[d]) \in Nat
    BY <2>1
  <2>3. n \in Nat \ {0}
    BY <2>2
  <2>4. reads[d] \in Seq(Seq(Piece))
    BY <2>1
  <2>5. reads[d] # <<>> /\ relayed' = relayed
    BY DEF ReadSome
  <2>6. Base(c) \in Nat
    BY DEF PieceInv, StreamInv
  <2> QED
    BY <2>1, <2>3, <2>4, <2>5, <2>6
<1>3. h.conn = d /\ h.buffer = buffer
  BY DEF ReadDone
<1>4. \A p \in Elems(buffer) : p \in Elems(Head(reads[d])) \/ p \in Base(d) + 1 .. Base(d) + n
  <2> SUFFICES ASSUME NEW j \in DOMAIN buffer
               PROVE  \/ buffer[j] \in Elems(Head(reads[d]))
                      \/ buffer[j] \in Base(d) + 1 .. Base(d) + n
    BY DEF Elems
  <2>1. first \in Seq(Piece) /\ Head(reads[d]) \in Seq(Piece) /\ Base(d) \in Nat
    BY <1>1 DEF PieceInv, StreamInv
  <2>2. ASSUME NEW i \in DOMAIN first PROVE first[i] \in Base(d) + 1 .. Base(d) + n
    <3>1. i \in 1 .. n /\ first[i] = Base(d) + i
      BY <1>1
    <3> QED
      BY <2>1, <3>1
  <2> HIDE DEF first
  <2>3. CASE j \in DOMAIN Head(reads[d]) /\ buffer[j] = Head(reads[d])[j]
    BY <2>3 DEF Elems
  <2>4. CASE \E i \in DOMAIN first : buffer[j] = first[i]
    BY <2>2, <2>4
  <2> QED
    BY <2>1, <2>3, <2>4, ConcatAt
<1> HIDE DEF first, buffer, h
<1>5. ready' = Append(ready, h) /\ reads' = [reads EXCEPT ![d] = Tail(@)]
  BY <1>1 DEF first, buffer, h
<1>6. ASSUME NEW p, NEW i, At(c, p, "relayed", i)' PROVE At(c, p, "relayed", i)
  BY <1>2, <1>6, PlacesAre
<1>7. ASSUME NEW p, NEW i, At(c, p, "reads", i)'
      PROVE  IF c = d THEN i \in Nat \ {0} /\ At(c, p, "reads", i + 1)
                      ELSE At(c, p, "reads", i)
  BY <1>2, <1>5, <1>7, PlacesAre, TailAt
<1>8. ASSUME NEW p, NEW i, At(c, p, "ready", i)'
      PROVE  \/ i \in 1 .. Len(ready) /\ At(c, p, "ready", i)
             \/ /\ i = Len(ready) + 1 /\ c = d
                /\ At(c, p, "reads", 1) \/ p \in Base(c) + 1 .. Base(c) + n
  <2>1. /\ i \in DOMAIN ready' /\ ready'[i] # Work /\ ready'[i].conn = c
        /\ p \in Elems(ready'[i].buffer)
    BY <1>8, PlacesAre
  <2>2. CASE i \in DOMAIN ready /\ i \in 1 .. Len(ready) /\ ready'[i] = ready[i]
    BY <2>1, <2>2, PlacesAre
  <2>3. CASE i = Len(ready) + 1 /\ ready'[i] = h
    <3>1. c = d /\ p \in Elems(buffer)
      BY <1>3, <2>1, <2>3
    <3>2. Head(reads[d]) = reads[d][1] /\ 1 \in DOMAIN reads[d]
      BY <1>2, TailAt
    <3> QED
      BY <1>4, <2>3, <3>1, <3>2, PlacesAre
  <2> QED
    BY <1>2, <1>5, <2>1, <2>2, <2>3, AppendAt
<1>9. /\ Base(c)' \in Nat /\ Base(c)' >= Base(c)
      /\ c = d => Base(c)' = Base(c) + n
  BY <1>1, <1>2
<1>10. /\ \A p, k, i : At(c, p, k, i) => p \in Nat /\ i \in Nat \ {0} /\ p <= Base(c)
       /\ \A p, k, i, l, j : At(c, p, k, i) /\ At(c, p, l, j) => k = l /\ i = j
  BY AtFacts DEF PieceInv, InOnePlace
<1>11. \A p, k, i : At(c, p, k, i)' => k \in {"relayed", "reads", "ready"}
  BY PlacesAre
<1>12. ASSUME NEW p, NEW k, NEW i, At(c, p, k, i)' PROVE p <= Base(c)'
  <2>1. p <= Base(c) => p <= Base(c)' \/ p \notin Nat
    BY <1>2, <1>9
  <2>2. p \in Base(c) + 1 .. Base(c) + n /\ c = d => p <= Base(c)'
    BY <1>2, <1>9
  <2>3. CASE k = "relayed"
    BY <1>6, <1>10, <1>12, <2>1, <2>3
  <2>4. CASE k = "reads"
    BY <1>7, <1>10, <1>12, <2>1, <2>4
  <2>5. CASE k = "ready"
    BY <1>8, <1>10, <1>12, <2>1, <2>2, <2>5
  <2> QED
    BY <1>11, <1>12, <2>3, <2>4, <2>5
<1>13. ASSUME NEW p, NEW i, NEW l, NEW j, At(c, p, "ready", i)', At(c, p, l, j)'
       PROVE  l = "ready" /\ i = j
  <2> DEFINE New(k) == k = Len(ready) + 1 /\ c = d
                       /\ (At(c, p, "reads", 1) \/ p \in Base(c) + 1 .. Base(c) + n)
  <2>1. At(c, p, "ready", i) \/ New(i)
    BY <1>8, <1>13
  <2>2. p \in Base(c) + 1 .. Base(c) + n => \A k, m : ~At(c, p, k, m)
    BY <1>2, <1>10
  <2>3. l # "relayed"
    BY <1>6, <1>10, <1>13, <2>1, <2>2
  <2>4. l # "reads"
    <3>1. ASSUME At(c, p, "reads", j + 1), j \in Nat \ {0}, c = d PROVE FALSE
      <4>1. j + 1 # 1
        BY <3>1
      <4> QED
        BY <1>10, <2>1, <2>2, <3>1, <4>1
    <3>2. ASSUME At(c, p, "reads", j), c # d PROVE FALSE
      BY <1>10, <2>1, <3>2
    <3> QED
      BY <1>7, <1>13, <3>1, <3>2
  <2>5. l = "ready"
    BY <1>11, <1>13, <2>3, <2>4
  <2>6. At(c, p, "ready", j) \/ New(j)
    BY <1>8, <1>13, <2>5
  <2>7. ~(At(c, p, "ready", i) /\ New(j)) /\ ~(At(c, p, "ready", j) /\ New(i))
    BY <1>10, <2>2
  <2> QED
    BY <1>10, <2>1, <2>5, <2>6, <2>7
<1>14. ASSUME NEW p, NEW i, NEW j, At(c, p, "reads", i)', At(c, p, "reads", j)'
       PROVE  i = j
  <2>1. CASE c = d
    <3>1. i \in Nat /\ j \in Nat /\ i + 1 = j + 1
      BY <1>7, <1>10, <1>14, <2>1
    <3> QED
      BY <3>1
  <2>2. CASE c # d
    BY <1>7, <1>10, <1>14, <2>2
  <2> QED
    BY <2>1, <2>2
<1>15. ASSUME NEW p, NEW i, NEW l, NEW j, At(c, p, "relayed", i)', At(c, p, l, j)',
              l # "ready"
       PROVE  l = "relayed" /\ i = j
  <2>1. l # "reads"
    BY <1>6, <1>7, <1>10, <1>15
  <2> QED
    BY <1>6, <1>10, <1>11, <1>15, <2>1
<1> QED
  BY <1>11, <1>12, <1>13, <1>14, <1>15 DEF InOnePlace


\* The types that the steps below need.
LEMMA QueueTypes ==
  ASSUME ChatInv
  PROVE  /\ ready \in Seq(Handler) /\ Len(ready) \in Nat
         /\ reads \in [Conns -> Seq(Seq(Piece))] /\ relayed \in [Conns -> Seq(Seq(Piece))]
         /\ \A c \in Conns : /\ reads[c] \in Seq(Seq(Piece)) /\ Len(reads[c]) \in Nat
                             /\ relayed[c] \in Seq(Seq(Piece)) /\ Len(relayed[c]) \in Nat
                             /\ DOMAIN reads[c] = 1 .. Len(reads[c])
                             /\ DOMAIN relayed[c] = 1 .. Len(relayed[c])
<1>1. /\ ready \in Seq(Handler)
      /\ reads \in [Conns -> Seq(Seq(Piece))] /\ relayed \in [Conns -> Seq(Seq(Piece))]
  BY DEF ChatInv, TypeOK
<1>2. ASSUME NEW c \in Conns
      PROVE  /\ reads[c] \in Seq(Seq(Piece)) /\ Len(reads[c]) \in Nat
             /\ relayed[c] \in Seq(Seq(Piece)) /\ Len(relayed[c]) \in Nat
             /\ DOMAIN reads[c] = 1 .. Len(reads[c])
             /\ DOMAIN relayed[c] = 1 .. Len(relayed[c])
  BY <1>1
<1>3. Len(ready) \in Nat
  BY <1>1
<1> QED
  BY <1>1, <1>2, <1>3

\* The failures of a client's reads hold what the reads held.
LEMMA FailuresAt ==
  ASSUME NEW d
  PROVE  /\ DOMAIN Failures(d) = DOMAIN reads[d]
         /\ \A i \in DOMAIN reads[d] :
              /\ Failures(d)[i].conn = d /\ Failures(d)[i].buffer = reads[d][i]
              /\ Failures(d)[i].failed
BY DEF Failures, ReadDone

\* remove_client takes one client's reads, or leaves the queue as it is.
LEMMA RemovesOne ==
  ASSUME ChatInv, NEW id, NEW queue, remove_client(id, queue)
  PROVE  \/ ready' = queue /\ UNCHANGED reads
         \/ \E d \in Conns : /\ ready' = queue \o Failures(d)
                             /\ reads' = [reads EXCEPT ![d] = <<>>]
<1>1. clients_ \subseteq Conns
  BY DEF ChatInv, TypeOK
<1> QED
  BY <1>1 DEF remove_client

\* A message that is not relayed by the step stays where it is.
LEMMA RelayedStays ==
  ASSUME ChatInv, NEW c \in Conns, UNCHANGED relayed, NEW p, NEW i, At(c, p, "relayed", i)'
  PROVE  i <= Len(relayed[c]) /\ At(c, p, "relayed", i)
<1>1. DOMAIN relayed[c] = 1 .. Len(relayed[c]) /\ Len(relayed[c]) \in Nat
  BY QueueTypes
<1> QED
  BY <1>1, PlacesAre

\* The same of the reads of a connection.
LEMMA ReadsStay ==
  ASSUME ChatInv, NEW c \in Conns, reads'[c] = reads[c], NEW p, NEW i, At(c, p, "reads", i)'
  PROVE  i <= Len(reads[c]) /\ At(c, p, "reads", i)
<1>1. DOMAIN reads[c] = 1 .. Len(reads[c]) /\ Len(reads[c]) \in Nat
  BY QueueTypes
<1> QED
  BY <1>1, PlacesAre

\* The handlers that stay behind the head, or behind all of the queue (m = 0).
LEMMA ReadyBehind ==
  ASSUME ChatInv, NEW c \in Conns, NEW m \in {0, 1}, m = 1 => ready # <<>>,
         NEW q, q = IF m = 1 THEN Tail(ready) ELSE ready
  PROVE  /\ q \in Seq(Handler) /\ Len(q) = Len(ready) - m /\ Len(q) \in Nat
         /\ \A p : \A i \in DOMAIN q :
              /\ i \in 1 .. Len(ready) - m
              /\ q[i] # Work /\ q[i].conn = c /\ p \in Elems(q[i].buffer)
                   => At(c, p, "ready", i + m)
<1>1. ready \in Seq(Handler) /\ Len(ready) \in Nat
  BY QueueTypes
<1>2. CASE m = 0
  <2>1. DOMAIN ready = 1 .. Len(ready) /\ q = ready
    BY <1>1, <1>2
  <2> QED
    BY <1>1, <1>2, <2>1, PlacesAre
<1>3. CASE m = 1
  <2>1. /\ Tail(ready) \in Seq(Handler) /\ Len(Tail(ready)) = Len(ready) - 1
        /\ Len(Tail(ready)) \in Nat
    BY <1>1, <1>3
  <2>2. \A i \in DOMAIN Tail(ready) :
          i \in 1 .. Len(ready) - 1 /\ i + 1 \in DOMAIN ready /\ Tail(ready)[i] = ready[i + 1]
    BY <1>1, <1>3, TailAt
  <2> QED
    BY <1>1, <1>3, <2>1, <2>2, PlacesAre
<1> QED
  BY <1>2, <1>3

\* What a step that fails the reads of d does to the queue.
LEMMA FailMoves ==
  ASSUME ChatInv, NEW c \in Conns, NEW d \in Conns, NEW m \in {0, 1}, NEW q,
         \/ m = 0 /\ q = ready
         \/ m = 1 /\ q = Tail(ready) /\ ready # <<>>,
         UNCHANGED relayed, reads' = [reads EXCEPT ![d] = <<>>],
         ready' = q \o Failures(d)
  PROVE  Moves(c, m, "none", {d})
<1>1. /\ q \in Seq(Handler) /\ Len(q) = Len(ready) - m /\ Len(q) \in Nat
      /\ \A p : \A i \in DOMAIN q :
           /\ i \in 1 .. Len(ready) - m
           /\ q[i] # Work /\ q[i].conn = c /\ p \in Elems(q[i].buffer)
                => At(c, p, "ready", i + m)
  BY ReadyBehind
<1>2. Failures(d) \in Seq(Handler)
  BY FailuresNoWork DEF ChatInv
<1>3. ASSUME NEW p, NEW i, At(c, p, "reads", i)'
      PROVE  i <= Len(reads[c]) /\ c \notin {d} /\ At(c, p, "reads", i)
  <2>1. c # d
    <3>1. c = d => DOMAIN reads'[c] = {}
      BY QueueTypes
    <3> QED
      BY <1>3, <3>1, PlacesAre
  <2>2. reads'[c] = reads[c]
    BY <2>1, QueueTypes
  <2> QED
    BY <1>3, <2>1, <2>2, ReadsStay
<1>4. ASSUME NEW p, NEW i, At(c, p, "ready", i)'
      PROVE  \/ i \in 1 .. Len(ready) - m /\ At(c, p, "ready", i + m)
             \/ /\ i \in Nat /\ i > Len(ready) - m /\ c \in {d}
                /\ At(c, p, "reads", i - (Len(ready) - m))
  <2>1. /\ i \in DOMAIN ready' /\ ready'[i] # Work /\ ready'[i].conn = c
        /\ p \in Elems(ready'[i].buffer)
    BY <1>4, PlacesAre
  <2>2. CASE i \in DOMAIN q /\ ready'[i] = q[i]
    BY <1>1, <2>1, <2>2
  <2>3. CASE /\ i \in Nat /\ i > Len(q) /\ i - Len(q) \in DOMAIN Failures(d)
             /\ ready'[i] = Failures(d)[i - Len(q)]
    <3>1. PICK j \in DOMAIN Failures(d) : j = i - Len(q) /\ ready'[i] = Failures(d)[j]
      BY <2>3
    <3>2. j \in DOMAIN reads[d] /\ ready'[i].conn = d /\ ready'[i].buffer = reads[d][j]
      <4>1. j \in DOMAIN reads[d]
        BY <3>1, FailuresAt, Zenon
      <4>2. Failures(d)[j].conn = d /\ Failures(d)[j].buffer = reads[d][j]
        BY <4>1, FailuresAt, Zenon
      <4> QED
        BY <3>1, <4>1, <4>2
    <3>3. c = d /\ At(c, p, "reads", j)
      BY <2>1, <3>2, PlacesAre
    <3> QED
      BY <1>1, <2>3, <3>1, <3>3
  <2> QED
    BY <1>1, <1>2, <2>1, <2>2, <2>3, ConcatAt
<1> QED
  BY <1>3, <1>4, RelayedStays DEF Moves

\* A read that goes on for a client that was removed fails, with the buffer of the head.
LEMMA RequeueMoves ==
  ASSUME ChatInv, NEW c \in Conns, ready # <<>>, Head(ready) # Work,
         UNCHANGED <<relayed, reads>>,
         NEW h, h.conn = Head(ready).conn, h.buffer = Head(ready).buffer,
         ready' = Append(Tail(ready), h)
  PROVE  Moves(c, 1, "ready", {})
<1>1. /\ Tail(ready) \in Seq(Handler) /\ Len(Tail(ready)) = Len(ready) - 1
      /\ \A p : \A i \in DOMAIN Tail(ready) :
           /\ i \in 1 .. Len(ready) - 1
           /\ Tail(ready)[i] # Work /\ Tail(ready)[i].conn = c /\ p \in Elems(Tail(ready)[i].buffer)
                => At(c, p, "ready", i + 1)
  BY ReadyBehind
<1>2. ASSUME NEW p, NEW i, At(c, p, "ready", i)'
      PROVE  \/ i \in 1 .. Len(ready) - 1 /\ At(c, p, "ready", i + 1)
             \/ i = Len(ready) - 1 + 1 /\ At(c, p, "ready", 1)
  <2>1. /\ i \in DOMAIN ready' /\ ready'[i] # Work /\ ready'[i].conn = c
        /\ p \in Elems(ready'[i].buffer)
    BY <1>2, PlacesAre
  <2>2. CASE i \in DOMAIN Tail(ready) /\ ready'[i] = Tail(ready)[i]
    BY <1>1, <2>1, <2>2
  <2>3. CASE i = Len(Tail(ready)) + 1 /\ ready'[i] = h
    <3>1. Head(ready) = ready[1] /\ 1 \in DOMAIN ready
      BY QueueTypes, TailAt
    <3>2. At(c, p, "ready", 1)
      BY <2>1, <2>3, <3>1, PlacesAre
    <3> QED
      BY <1>1, <2>3, <3>2
  <2> QED
    BY <1>1, <2>1, <2>2, <2>3, AppendAt
<1> QED
  BY <1>2, RelayedStays, ReadsStay DEF Moves

\* A step that takes the head off the queue: its buffer may go to dest, the relayed
\* messages or the reads.
LEMMA TailMoves ==
  ASSUME ChatInv, NEW c \in Conns, ready # <<>>, ready' = Tail(ready), NEW dest,
         \A p, i : At(c, p, "relayed", i)' =>
           \/ i <= Len(relayed[c]) /\ At(c, p, "relayed", i)
           \/ dest = "relayed" /\ i = Len(relayed[c]) + 1 /\ At(c, p, "ready", 1),
         \A p, i : At(c, p, "reads", i)' =>
           \/ i <= Len(reads[c]) /\ At(c, p, "reads", i)
           \/ dest = "reads" /\ i = Len(reads[c]) + 1 /\ At(c, p, "ready", 1)
  PROVE  Moves(c, 1, dest, {})
<1>1. \A p : \A i \in DOMAIN ready' :
        /\ i \in 1 .. Len(ready) - 1
        /\ ready'[i] # Work /\ ready'[i].conn = c /\ p \in Elems(ready'[i].buffer)
             => At(c, p, "ready", i + 1)
  BY ReadyBehind
<1>2. ASSUME NEW p, NEW i, At(c, p, "ready", i)'
      PROVE  i \in 1 .. Len(ready) - 1 /\ At(c, p, "ready", i + 1)
  BY <1>1, <1>2, PlacesAre
<1> QED
  BY <1>2 DEF Moves

\* work posts reads with empty buffers.
LEMMA WorkMoves ==
  ASSUME ChatInv, NEW c \in Conns, work(ready)
  PROVE  Moves(c, 0, "none", {})
<1>1. UNCHANGED relayed /\ ready' = Append(ready, Work)
  BY DEF work
<1>2. reads'[c] = Append(reads[c], <<>>) \/ reads'[c] = reads[c]
  BY DEF work
<1>3. ASSUME NEW p, NEW i, At(c, p, "reads", i)'
      PROVE  i <= Len(reads[c]) /\ At(c, p, "reads", i)
  <2>1. CASE reads'[c] = reads[c]
    BY <1>3, <2>1, ReadsStay
  <2>2. CASE reads'[c] = Append(reads[c], <<>>)
    <3>1. i \in DOMAIN Append(reads[c], <<>>) /\ p \in Elems(Append(reads[c], <<>>)[i])
      BY <1>3, <2>2, PlacesAre
    <3>2. Elems(<<>>) = {}
      BY DEF Elems
    <3>3. i \in DOMAIN reads[c] /\ Append(reads[c], <<>>)[i] = reads[c][i]
      BY <3>1, <3>2, AppendAt, QueueTypes
    <3> QED
      BY <3>1, <3>3, PlacesAre, QueueTypes
  <2> QED
    BY <1>2, <2>1, <2>2
<1>4. ASSUME NEW p, NEW i, At(c, p, "ready", i)'
      PROVE  i \in 1 .. Len(ready) - 0 /\ At(c, p, "ready", i + 0)
  <2>1. /\ i \in DOMAIN ready' /\ ready'[i] # Work /\ ready'[i].conn = c
        /\ p \in Elems(ready'[i].buffer)
    BY <1>4, PlacesAre
  <2>2. i \in 1 .. Len(ready) /\ i \in DOMAIN ready /\ ready'[i] = ready[i]
    BY <1>1, <2>1, QueueTypes, AppendAt
  <2>3. At(c, p, "ready", i)
    BY <2>1, <2>2, PlacesAre
  <2>4. i + 0 = i /\ Len(ready) - 0 = Len(ready)
    BY <2>2, QueueTypes
  <2> QED
    BY <2>2, <2>3, <2>4
<1> QED
  BY <1>1, <1>3, <1>4, RelayedStays DEF Moves

\* What the head of the queue is to the handler that the io thread calls.
LEMMA HeadMessage ==
  ASSUME ChatInv, Runs("message")
  PROVE  /\ ready # <<>> /\ Head(ready) = ready[1] /\ 1 \in DOMAIN ready
         /\ Head(ready) # Work /\ Head(ready) \in Handler
         /\ Head(ready).conn \in Conns /\ Head(ready).buffer \in Seq(Piece)
         /\ \A c, p : At(c, p, "ready", 1)
                        <=> c = Head(ready).conn /\ p \in Elems(Head(ready).buffer)
<1>1. ready # <<>> /\ Head(ready).op = "message" /\ ready \in Seq(Handler)
  BY QueueTypes DEF Runs
<1>2. Head(ready) = ready[1] /\ 1 \in DOMAIN ready /\ Head(ready) \in Handler
  BY <1>1, TailAt, TailQueue
<1>3. Head(ready) # Work
  BY <1>1 DEF Work
<1>4. Head(ready).conn \in Conns /\ Head(ready).buffer \in Seq(Piece)
  BY <1>2, <1>3 DEF Handler
<1>5. \A c, p : At(c, p, "ready", 1)
                  <=> c = Head(ready).conn /\ p \in Elems(Head(ready).buffer)
  BY <1>2, <1>3, PlacesAre
<1> QED
  BY <1>1, <1>2, <1>3, <1>4, <1>5

\* A read that goes on takes its buffer along.
LEMMA PartialMoves ==
  ASSUME ChatInv, NEW c \in Conns, HandlePartial
  PROVE  Moves(c, 1, "reads", {}) \/ Moves(c, 1, "ready", {})
<1> DEFINE r == Head(ready)
<1>1. /\ ready # <<>> /\ r # Work /\ r.conn \in Conns /\ r.buffer \in Seq(Piece)
      /\ \A p : At(c, p, "ready", 1) <=> c = r.conn /\ p \in Elems(r.buffer)
  BY HeadMessage DEF HandlePartial
<1>2. UNCHANGED relayed
  BY DEF HandlePartial
<1>3. CASE reads' = [reads EXCEPT ![r.conn] = Append(@, r.buffer)] /\ ready' = Tail(ready)
  <2> HIDE DEF r
  <2>1. ASSUME NEW p, NEW i, At(c, p, "reads", i)'
        PROVE  \/ i <= Len(reads[c]) /\ At(c, p, "reads", i)
               \/ i = Len(reads[c]) + 1 /\ At(c, p, "ready", 1)
    <3>1. CASE c = r.conn
      <4>1. reads'[c] = Append(reads[c], r.buffer)
        BY <1>3, <3>1, QueueTypes
      <4>2. i \in DOMAIN Append(reads[c], r.buffer) /\ p \in Elems(Append(reads[c], r.buffer)[i])
        BY <2>1, <4>1, PlacesAre
      <4>3. \/ i \in DOMAIN reads[c] /\ Append(reads[c], r.buffer)[i] = reads[c][i]
            \/ i = Len(reads[c]) + 1 /\ Append(reads[c], r.buffer)[i] = r.buffer
        BY <4>2, AppendAt, QueueTypes
      <4> QED
        BY <1>1, <3>1, <4>2, <4>3, PlacesAre, QueueTypes
    <3>2. CASE c # r.conn
      <4>1. reads'[c] = reads[c]
        BY <1>3, <3>2, QueueTypes
      <4> QED
        BY <2>1, <4>1, ReadsStay
    <3> QED
      BY <3>1, <3>2
  <2>2. Moves(c, 1, "reads", {})
    BY <1>1, <1>2, <1>3, <2>1, RelayedStays, TailMoves
  <2> QED
    BY <2>2
<1>4. CASE UNCHANGED reads /\ ready' = Append(Tail(ready), ReadDone(r.conn, r.buffer, TRUE))
  <2>1. PICK h : /\ ready' = Append(Tail(ready), h)
                 /\ h.conn = Head(ready).conn /\ h.buffer = Head(ready).buffer
    BY <1>4 DEF ReadDone
  <2>2. Moves(c, 1, "ready", {})
    BY <1>1, <1>2, <1>4, <2>1, RequeueMoves
  <2> QED
    BY <2>2
<1> QED
  BY <1>3, <1>4 DEF HandlePartial

\* A line is part of the buffer that it comes from.
LEMMA LineMoves ==
  ASSUME ChatInv, NEW c \in Conns, HandleLine
  PROVE  Moves(c, 1, "relayed", {})
<1> DEFINE r == Head(ready)
<1>1. /\ ready # <<>> /\ r # Work /\ r.conn \in Conns /\ r.buffer \in Seq(Piece)
      /\ \A p : At(c, p, "ready", 1) <=> c = r.conn /\ p \in Elems(r.buffer)
  BY HeadMessage DEF HandleLine
<1>2. UNCHANGED reads /\ ready' = Tail(ready)
  BY DEF HandleLine
<1>3. PICK n \in FirstEnd(r.buffer) :
        relayed' = [relayed EXCEPT ![r.conn] = Append(@, SubSeq(r.buffer, 1, n))]
  BY DEF HandleLine
<1> HIDE DEF r
<1>4. n \in 1 .. Len(r.buffer) /\ Len(r.buffer) \in Nat
  BY <1>1 DEF FirstEnd
<1>5. /\ SubSeq(r.buffer, 1, n) \in Seq(Piece)
      /\ Elems(SubSeq(r.buffer, 1, n)) \subseteq Elems(r.buffer)
  <2>1. /\ DOMAIN SubSeq(r.buffer, 1, n) = 1 .. n /\ SubSeq(r.buffer, 1, n) \in Seq(Piece)
        /\ \A i \in 1 .. n : i \in DOMAIN r.buffer /\ SubSeq(r.buffer, 1, n)[i] = r.buffer[i]
    BY <1>1, <1>4
  <2> QED
    BY <2>1 DEF Elems
<1>6. ASSUME NEW p, NEW i, At(c, p, "relayed", i)'
      PROVE  \/ i <= Len(relayed[c]) /\ At(c, p, "relayed", i)
             \/ i = Len(relayed[c]) + 1 /\ At(c, p, "ready", 1)
  <2> DEFINE line == SubSeq(r.buffer, 1, n)
  <2> HIDE DEF line
  <2>1. CASE c = r.conn
    <3>1. relayed'[c] = Append(relayed[c], line)
      BY <1>3, <2>1, QueueTypes DEF line
    <3>2. i \in DOMAIN Append(relayed[c], line) /\ p \in Elems(Append(relayed[c], line)[i])
      BY <1>6, <3>1, PlacesAre
    <3>3. \/ i \in DOMAIN relayed[c] /\ Append(relayed[c], line)[i] = relayed[c][i]
          \/ i = Len(relayed[c]) + 1 /\ Append(relayed[c], line)[i] = line
      BY <3>2, AppendAt, QueueTypes
    <3>4. Elems(line) \subseteq Elems(r.buffer)
      BY <1>5 DEF line
    <3> QED
      BY <1>1, <2>1, <3>2, <3>3, <3>4, PlacesAre, QueueTypes
  <2>2. CASE c # r.conn
    <3>1. relayed'[c] = relayed[c]
      BY <1>3, <2>2, QueueTypes
    <3> QED
      BY <1>6, <3>1, PlacesAre, QueueTypes
  <2> QED
    BY <2>1, <2>2
<1> QED
  BY <1>1, <1>2, <1>6, ReadsStay, TailMoves

LEMMA PieceInit == Init => PieceInv
<1> SUFFICES ASSUME Init PROVE PieceInv
  OBVIOUS
<1>1. /\ \A c \in Conns : sent[c] = 0 /\ stream[c] = <<>> /\ relayed[c] = <<>> /\ reads[c] = <<>>
      /\ ready = <<>>
  BY DEF Init
<1>2. DOMAIN <<>> = {} /\ Len(<<>>) = 0
  OBVIOUS
<1>3. StreamInv
  BY <1>1, <1>2 DEF StreamInv, Base
<1>4. ASSUME NEW c \in Conns PROVE InOnePlace(c)
  BY <1>1, <1>2 DEF InOnePlace, At
<1> QED
  BY <1>3, <1>4 DEF PieceInv

\* The invariant of the pieces is inductive: a read puts new ones in one place, and
\* every other step moves them.
LEMMA PieceStep == ChatInv /\ PieceInv /\ [Next]_vars => PieceInv'
<1> SUFFICES ASSUME ChatInv, PieceInv, [Next]_vars PROVE PieceInv'
  OBVIOUS
<1>1. StreamInv'
  BY StreamStep DEF PieceInv
<1> SUFFICES ASSUME NEW c \in Conns PROVE InOnePlace(c)'
  BY <1>1 DEF PieceInv
<1>2. InOnePlace(c)
  BY DEF PieceInv
<1>3. ASSUME NEW d \in Conns, ReadSome(d) PROVE InOnePlace(c)'
  <2>1. Base(c)' = Base(c) \/ c = d
    BY <1>3 DEF ReadSome, peerVars, Base, ChatInv, TypeOK
  <2> QED
    BY <1>3, <2>1, ReadSomeOnce
<1>4. ASSUME ~ReadSome(c), NEW m \in {0, 1}, NEW dest, NEW fails,
             Moves(c, m, dest, fails),
             dest \in {"relayed", "reads", "ready"} => m = 1, dest = "ready" => c \notin fails
      PROVE  InOnePlace(c)'
  BY <1>2, <1>4, BaseStays, MovedOnce
<1>5. CASE ReadSome(c)
  BY <1>3, <1>5
<1> SUFFICES ASSUME ~ReadSome(c), \A d \in Conns : ~ReadSome(d) PROVE InOnePlace(c)'
  BY <1>3, <1>5
<1>6. CASE UNCHANGED <<ready, reads, relayed>>
  <2>1. ASSUME NEW p, NEW i, At(c, p, "ready", i)'
        PROVE  i \in 1 .. Len(ready) - 0 /\ At(c, p, "ready", i + 0)
    <3>1. i \in 1 .. Len(ready) /\ At(c, p, "ready", i)
      BY <1>6, <2>1, PlacesAre, QueueTypes
    <3>2. i + 0 = i /\ Len(ready) - 0 = Len(ready)
      BY <3>1, QueueTypes
    <3> QED
      BY <3>1, <3>2
  <2>2. Moves(c, 0, "none", {})
    BY <1>6, <2>1, RelayedStays, ReadsStay DEF Moves
  <2> QED
    BY <1>4, <2>2
<1>7. ASSUME NEW d \in Conns, ready' = ready \o Failures(d),
             reads' = [reads EXCEPT ![d] = <<>>], UNCHANGED relayed
      PROVE  InOnePlace(c)'
  <2>1. PICK m \in {0, 1}, q \in {ready} : m = 0 /\ ready' = q \o Failures(d)
    BY <1>7
  <2>2. Moves(c, m, "none", {d})
    BY <1>7, <2>1, FailMoves
  <2> QED
    BY <1>4, <2>1, <2>2
<1>8. CASE work(ready)
  BY <1>4, <1>8, WorkMoves
<1>9. ASSUME ready # <<>>, ready' = Tail(ready), UNCHANGED <<reads, relayed>>
      PROVE  InOnePlace(c)'
  <2>1. Moves(c, 1, "none", {})
    BY <1>9, RelayedStays, ReadsStay, TailMoves
  <2> QED
    BY <1>4, <2>1
<1>10. CASE HandlePartial
  BY <1>4, <1>10, PartialMoves
<1>11. CASE HandleLine
  BY <1>4, <1>11, LineMoves
<1>12. CASE HandleReadError
  <2>1. ready # <<>> /\ UNCHANGED relayed
    BY <1>12 DEF HandleReadError, Runs
  <2>2. ASSUME NEW d \in Conns, ready' = Tail(ready) \o Failures(d),
               reads' = [reads EXCEPT ![d] = <<>>]
        PROVE  InOnePlace(c)'
    <3>1. PICK q \in {Tail(ready)} : ready' = q \o Failures(d)
      BY <2>2
    <3>2. Moves(c, 1, "none", {d})
      BY <2>1, <2>2, <3>1, FailMoves
    <3> QED
      BY <1>4, <3>2
  <2>3. \/ ready' = Tail(ready) /\ UNCHANGED reads
        \/ \E d \in Conns : /\ ready' = Tail(ready) \o Failures(d)
                            /\ reads' = [reads EXCEPT ![d] = <<>>]
    BY <1>12, RemovesOne DEF HandleReadError
  <2> QED
    BY <1>9, <2>1, <2>2, <2>3
<1>13. ASSUME NEW d \in Conns, WriteFails(d) PROVE InOnePlace(c)'
  <2>1. UNCHANGED relayed /\ remove_client(Login[d], ready)
    BY <1>13 DEF WriteFails, Writes
  <2> QED
    BY <1>6, <1>7, <2>1, RemovesOne
<1>14. ASSUME NEW d \in Conns, ReadsEnd(d) PROVE InOnePlace(c)'
  BY <1>7, <1>14 DEF ReadsEnd
<1>15. CASE HandleTimer
  BY <1>9, <1>15 DEF HandleTimer, Runs
<1> QED
  BY <1>6, <1>8, <1>10, <1>11, <1>12, <1>13, <1>14, <1>15
     DEF Next, vars, Join, PeerSends, PeerCloses, StartLoads, StopLoads, HostGoesOn,
         StartStores, StartCallsWork, StartWorks, StopStores, IoThread, IoWorks, WriteEnds,
         Writes, hostVars, peerVars

LEMMA PieceOnce == PieceInv => PiecesOnce
<1> SUFFICES ASSUME PieceInv, NEW c \in Conns
             PROVE  LET used(i) == {relayed[c][i][j] : j \in DOMAIN relayed[c][i]}
                        held == UNION ({{reads[c][i][j] : j \in DOMAIN reads[c][i]} :
                                          i \in DOMAIN reads[c]}
                                       \cup {{ready[i].buffer[j] : j \in DOMAIN ready[i].buffer} :
                                               i \in ReadyReads(c)})
                    IN /\ \A i, k \in DOMAIN relayed[c] : i # k => used(i) \cap used(k) = {}
                       /\ \A i \in DOMAIN relayed[c] : used(i) \cap held = {}
  BY DEF PiecesOnce
<1> DEFINE used(i) == {relayed[c][i][j] : j \in DOMAIN relayed[c][i]}
           waiting(i) == {reads[c][i][j] : j \in DOMAIN reads[c][i]}
           done(i) == {ready[i].buffer[j] : j \in DOMAIN ready[i].buffer}
           held == UNION ({waiting(i) : i \in DOMAIN reads[c]}
                          \cup {done(i) : i \in ReadyReads(c)})
<1>1. \A p, k, i, l, j : At(c, p, k, i) /\ At(c, p, l, j) => k = l /\ i = j
  BY DEF PieceInv, InOnePlace
<1>2. \A i \in DOMAIN relayed[c] : \A p \in used(i) : At(c, p, "relayed", i)
  BY DEF At, Elems
<1>3. \A p \in held : \E k, i : k # "relayed" /\ At(c, p, k, i)
  <2>1. \A i \in DOMAIN reads[c] : \A p \in waiting(i) : At(c, p, "reads", i)
    BY DEF At, Elems
  <2>2. \A i \in ReadyReads(c) : \A p \in done(i) : At(c, p, "ready", i)
    BY DEF At, Elems, ReadyReads
  <2> HIDE DEF waiting, done
  <2>3. ASSUME NEW p \in held
        PROVE  \/ \E i \in DOMAIN reads[c] : p \in waiting(i)
               \/ \E i \in ReadyReads(c) : p \in done(i)
    OBVIOUS
  <2> QED
    BY <2>1, <2>2, <2>3
<1> HIDE DEF used, waiting, done, held
<1>4. \A i, k \in DOMAIN relayed[c] : i # k => used(i) \cap used(k) = {}
  BY <1>1, <1>2
<1>5. \A i \in DOMAIN relayed[c] : used(i) \cap held = {}
  BY <1>1, <1>2, <1>3
<1> QED
  BY <1>4, <1>5 DEF used, waiting, done, held

\* No piece of what a peer sends is relayed twice, nor relayed and still held by a read,
\* however many reads Chat::work has posted on one socket.
THEOREM RelayedOnce == Spec => []PiecesOnce
<1> QED
  BY PieceInit, PieceStep, PieceOnce, ChatInvariant, PTL DEF Spec

-----------------------------------------------------------------------------
(* Whole lines. *)

\* A buffer of whole lines, none of them beyond top.
EvenRun(b, top) ==
  \E a, l \in Nat :
    /\ l > 0 /\ Len(b) = 2 * l /\ 2 * a + 2 * l <= top
    /\ \A j \in DOMAIN b : b[j] = 2 * a + j

\* A read that found something and whose handler has not run.
Unread(c, i) == i \in DOMAIN ready /\ ready[i] # Work /\ ready[i].conn = c /\ ~ready[i].failed

\* While no read of c ended inside a line: the reads have come to the end of a line, those
\* that wait are empty, and those that are done hold lines that follow one another and
\* all that was relayed.
LinesInOrder(c) ==
  /\ \E h \in Nat : Base(c) = 2 * h
  /\ \A i \in DOMAIN reads[c] : reads[c][i] = <<>>
  /\ \A i : Unread(c, i) =>
       /\ EvenRun(ready[i].buffer, Base(c))
       /\ \A k : Unread(c, k) /\ i < k => ready[i].buffer[1] < ready[k].buffer[1]
       /\ \A k \in DOMAIN relayed[c] : relayed[c][k][1] < ready[i].buffer[1]
  /\ \A k \in DOMAIN relayed[c] :
       /\ \E n \in 1 .. MaxLines[c] :
            relayed[c][k] = <<2 * n - 1, 2 * n>> /\ 2 * n <= Base(c)
       /\ \A j \in DOMAIN relayed[c] : k < j => relayed[c][k][1] < relayed[c][j][1]

LineInv == \A c \in Conns \ cut : LinesInOrder(c)

\* The first line of a run of whole lines is its first two pieces.
LEMMA FirstLine ==
  ASSUME NEW b \in Seq(Piece), NEW top \in Nat, EvenRun(b, top), NEW n \in FirstEnd(b)
  PROVE  \E a \in Nat : /\ SubSeq(b, 1, n) = <<2 * a + 1, 2 * a + 2>> /\ b[1] = 2 * a + 1
                        /\ 2 * a + 2 <= top
<1>1. PICK a \in Nat, l \in Nat : /\ l > 0 /\ Len(b) = 2 * l /\ 2 * a + 2 * l <= top
                                  /\ \A j \in DOMAIN b : b[j] = 2 * a + j
  BY DEF EvenRun
<1>2. 1 \in DOMAIN b /\ 2 \in DOMAIN b /\ n \in DOMAIN b /\ DOMAIN b = 1 .. Len(b) /\ n \in Nat
  BY <1>1 DEF FirstEnd
<1>3. b[1] = 2 * a + 1 /\ b[2] = 2 * a + 2
  BY <1>1, <1>2
<1>4. ~EndsLine(b[1]) /\ EndsLine(b[2])
  BY <1>3 DEF EndsLine
<1>5. n = 2
  <2>1. n # 1
    BY <1>4 DEF FirstEnd
  <2>2. ~(2 \in 1 .. n - 1)
    BY <1>4 DEF FirstEnd
  <2> QED
    BY <1>2, <2>1, <2>2
<1>6. SubSeq(b, 1, n) = <<b[1], b[2]>>
  <2>1. /\ Len(SubSeq(b, 1, 2)) = 2 /\ SubSeq(b, 1, 2) \in Seq(Piece)
        /\ SubSeq(b, 1, 2)[1] = b[1] /\ SubSeq(b, 1, 2)[2] = b[2]
    BY <1>1, <1>2
  <2>2. /\ <<b[1], b[2]>> \in Seq(Piece) /\ Len(<<b[1], b[2]>>) = 2
        /\ <<b[1], b[2]>>[1] = b[1] /\ <<b[1], b[2]>>[2] = b[2]
    BY <1>2
  <2>3. \A i \in 1 .. 2 : SubSeq(b, 1, 2)[i] = <<b[1], b[2]>>[i]
    BY <2>1, <2>2
  <2>4. SubSeq(b, 1, 2) = <<b[1], b[2]>>
    BY <2>1, <2>2, <2>3, SeqEqual
  <2> QED
    BY <1>5, <2>4
<1>7. 2 * a + 2 <= top
  BY <1>1
<1> QED
  BY <1>3, <1>6, <1>7

\* Such a buffer has a first line.
LEMMA RunHasLine ==
  ASSUME NEW b \in Seq(Piece), NEW top \in Nat, EvenRun(b, top)
  PROVE  /\ FirstEnd(b) # {} /\ b[1] \in Nat
         /\ b[1] <= top
<1>1. PICK a \in Nat, l \in Nat : /\ l > 0 /\ Len(b) = 2 * l /\ 2 * a + 2 * l <= top
                                  /\ \A j \in DOMAIN b : b[j] = 2 * a + j
  BY DEF EvenRun
<1>2. 1 \in DOMAIN b /\ 2 \in DOMAIN b
  BY <1>1
<1>3. b[1] = 2 * a + 1 /\ b[2] = 2 * a + 2
  BY <1>1, <1>2
<1>4. ~EndsLine(b[1]) /\ EndsLine(b[2])
  BY <1>3 DEF EndsLine
<1>5. 2 \in FirstEnd(b)
  BY <1>2, <1>4 DEF FirstEnd
<1> QED
  BY <1>1, <1>3, <1>5

\* What a read is whose handler has not run.
LEMMA UnreadTypes ==
  ASSUME ChatInv, NEW c \in Conns, NEW i, Unread(c, i)
  PROVE  i \in 1 .. Len(ready) /\ ready[i].buffer \in Seq(Piece)
<1>1. i \in 1 .. Len(ready) /\ ready[i] \in Handler /\ ready[i] # Work
  BY QueueTypes DEF Unread
<1> QED
  BY <1>1 DEF Handler

\* A step that relays nothing of c keeps its lines in order, when every read that is
\* done was done before, the one at the head perhaps gone.
LEMMA LinesStay ==
  ASSUME ChatInv, NEW c \in Conns, LinesInOrder(c), NEW m \in {0, 1},
         Base(c)' = Base(c), relayed'[c] = relayed[c],
         \A i \in DOMAIN reads'[c] : reads'[c][i] = <<>>,
         \A i : Unread(c, i)' =>
           i \in Nat /\ Unread(c, i + m) /\ ready'[i].buffer = ready[i + m].buffer
  PROVE  LinesInOrder(c)'
<1>1. ASSUME NEW i, Unread(c, i)'
      PROVE  /\ EvenRun(ready'[i].buffer, Base(c)')
             /\ \A k : Unread(c, k)' /\ i < k => ready'[i].buffer[1] < ready'[k].buffer[1]
             /\ \A k \in DOMAIN relayed'[c] : relayed'[c][k][1] < ready'[i].buffer[1]
  <2>1. i \in Nat /\ Unread(c, i + m) /\ ready'[i].buffer = ready[i + m].buffer
    BY <1>1
  <2>2. /\ EvenRun(ready[i + m].buffer, Base(c))
        /\ \A k : Unread(c, k) /\ i + m < k => ready[i + m].buffer[1] < ready[k].buffer[1]
        /\ \A k \in DOMAIN relayed[c] : relayed[c][k][1] < ready[i + m].buffer[1]
    BY <2>1 DEF LinesInOrder
  <2>3. ASSUME NEW k, Unread(c, k)', i < k PROVE ready'[i].buffer[1] < ready'[k].buffer[1]
    <3>1. k \in Nat /\ Unread(c, k + m) /\ ready'[k].buffer = ready[k + m].buffer
      BY <2>3
    <3>2. i + m < k + m
      BY <2>1, <2>3, <3>1
    <3> QED
      BY <2>1, <2>2, <3>1, <3>2
  <2> QED
    BY <2>1, <2>2, <2>3
<1>2. \E h \in Nat : Base(c)' = 2 * h
  BY DEF LinesInOrder
<1>3. \A k \in DOMAIN relayed'[c] :
        /\ \E n \in 1 .. MaxLines[c] :
             relayed'[c][k] = <<2 * n - 1, 2 * n>> /\ 2 * n <= Base(c)'
        /\ \A j \in DOMAIN relayed'[c] : k < j => relayed'[c][k][1] < relayed'[c][j][1]
  BY DEF LinesInOrder
<1> QED
  BY <1>1, <1>2, <1>3 DEF LinesInOrder

\* A read that takes whole lines: they follow all that was read before.
LEMMA ReadLines ==
  ASSUME ChatInv, PieceInv, NEW c \in Conns, LinesInOrder(c), ReadSome(c), c \notin cut'
  PROVE  LinesInOrder(c)'
<1>1. PICK n \in 1 .. Len(stream[c]) :
        LET first  == SubSeq(stream[c], 1, n)
            buffer == Head(reads[c]) \o first
        IN /\ Base(c)' = Base(c) + n
           /\ first \in Seq(Piece) /\ DOMAIN first = 1 .. n /\ Len(first) = n
           /\ \A j \in 1 .. n : first[j] = Base(c) + j
           /\ ready' = Append(ready, ReadDone(c, buffer, FALSE))
           /\ cut' = IF EndsLine(buffer[Len(buffer)]) THEN cut ELSE cut \cup {c}
           /\ reads' = [reads EXCEPT ![c] = Tail(@)]
  BY ReadTakes DEF PieceInv
<1> DEFINE first == SubSeq(stream[c], 1, n)
           h     == ReadDone(c, first, FALSE)
<1>2. n \in Nat \ {0} /\ Base(c) \in Nat
  <2>1. stream[c] \in Seq(Piece)
    BY DEF ChatInv, TypeOK
  <2>2. Len(stream[c]) \in Nat
    BY <2>1
  <2> QED
    BY <2>2 DEF PieceInv, StreamInv
<1>3. relayed' = relayed /\ reads[c] # <<>>
  BY DEF ReadSome
<1>4. Head(reads[c]) = <<>>
  <2>1. Head(reads[c]) = reads[c][1] /\ 1 \in DOMAIN reads[c]
    BY <1>3, QueueTypes, TailAt
  <2> QED
    BY <2>1 DEF LinesInOrder
<1>5. Head(reads[c]) \o first = first
  BY <1>1, <1>4
<1>6. EndsLine(first[n])
  BY <1>1, <1>5
<1>7. ready' = Append(ready, h)
  BY <1>1, <1>5
<1>8. /\ DOMAIN first = 1 .. n /\ Len(first) = n
      /\ \A j \in 1 .. n : first[j] = Base(c) + j
  BY <1>1
<1>9. h # Work /\ h.conn = c /\ h.buffer = first /\ ~h.failed
  BY MessageNoWork DEF ReadDone
<1> HIDE DEF first, h
<1>10. PICK b \in Nat : Base(c) = 2 * b
  BY DEF LinesInOrder
<1>11. PICK l \in Nat : n = 2 * l /\ l > 0
  <2>1. (Base(c) + n) % 2 = 0
    BY <1>2, <1>6, <1>8 DEF EndsLine
  <2>2. n = 2 * (n \div 2) /\ n \div 2 \in Nat
    BY <1>2, <1>10, <2>1
  <2>3. n \div 2 > 0
    BY <1>2, <2>2
  <2> QED
    BY <2>2, <2>3
<1>12. EvenRun(first, Base(c)')
  <2>1. 2 * b + 2 * l <= Base(c)'
    BY <1>1, <1>10, <1>11
  <2>2. \A j \in DOMAIN first : first[j] = 2 * b + j
    BY <1>8, <1>10
  <2>3. Len(first) = 2 * l
    BY <1>8, <1>11
  <2> QED
    BY <1>11, <2>1, <2>2, <2>3 DEF EvenRun
<1>13. first[1] = Base(c) + 1
  BY <1>2, <1>8
<1>14. Base(c)' \in Nat /\ Base(c)' >= Base(c) /\ \E e \in Nat : Base(c)' = 2 * e
  <2>1. Base(c)' = 2 * (b + l) /\ b + l \in Nat
    BY <1>1, <1>10, <1>11
  <2>2. \E e \in Nat : Base(c)' = 2 * e
    BY <2>1
  <2>3. Base(c)' = Base(c) + n
    BY <1>1
  <2> QED
    BY <1>2, <2>2, <2>3
<1>15. ASSUME NEW i, Unread(c, i)'
       PROVE  \/ i \in 1 .. Len(ready) /\ Unread(c, i) /\ ready'[i] = ready[i]
              \/ i = Len(ready) + 1 /\ ready'[i] = h
  <2>1. i \in DOMAIN ready' /\ ready'[i] # Work /\ ready'[i].conn = c /\ ~ready'[i].failed
    BY <1>15 DEF Unread
  <2> QED
    BY <1>7, <2>1, QueueTypes, AppendAt DEF Unread
<1>16. \A i : Unread(c, i) => /\ EvenRun(ready[i].buffer, Base(c)')
                              /\ ready[i].buffer[1] < first[1]
  <2> SUFFICES ASSUME NEW i, Unread(c, i)
               PROVE  EvenRun(ready[i].buffer, Base(c)') /\ ready[i].buffer[1] < first[1]
    OBVIOUS
  <2>1. EvenRun(ready[i].buffer, Base(c)) /\ ready[i].buffer \in Seq(Piece)
    BY UnreadTypes DEF LinesInOrder
  <2>2. ready[i].buffer[1] < first[1]
    BY <1>2, <1>13, <2>1, RunHasLine
  <2>3. PICK a \in Nat, e \in Nat :
          /\ e > 0 /\ Len(ready[i].buffer) = 2 * e /\ 2 * a + 2 * e <= Base(c)
          /\ \A j \in DOMAIN ready[i].buffer : ready[i].buffer[j] = 2 * a + j
    BY <2>1 DEF EvenRun
  <2>4. 2 * a + 2 * e <= Base(c)'
    BY <1>2, <1>14, <2>3
  <2> QED
    BY <2>2, <2>3, <2>4 DEF EvenRun
<1>17. \A k \in DOMAIN relayed[c] :
         /\ \E p \in 1 .. MaxLines[c] :
              relayed[c][k] = <<2 * p - 1, 2 * p>> /\ 2 * p <= Base(c)'
         /\ relayed[c][k][1] < first[1]
  <2> SUFFICES ASSUME NEW k \in DOMAIN relayed[c]
               PROVE  /\ \E p \in 1 .. MaxLines[c] :
                           relayed[c][k] = <<2 * p - 1, 2 * p>> /\ 2 * p <= Base(c)'
                      /\ relayed[c][k][1] < first[1]
    OBVIOUS
  <2>1. PICK p \in 1 .. MaxLines[c] : relayed[c][k] = <<2 * p - 1, 2 * p>> /\ 2 * p <= Base(c)
    BY DEF LinesInOrder
  <2>2. p \in Nat
    BY ChatAssumption
  <2>3. 2 * p <= Base(c)' /\ relayed[c][k][1] < first[1]
    BY <1>2, <1>13, <1>14, <2>1, <2>2
  <2> QED
    BY <2>1, <2>3
<1>18. \A i \in DOMAIN reads'[c] : reads'[c][i] = <<>>
  <2>1. reads'[c] = Tail(reads[c])
    BY <1>1, QueueTypes
  <2>2. \A i \in DOMAIN Tail(reads[c]) :
          i + 1 \in DOMAIN reads[c] /\ Tail(reads[c])[i] = reads[c][i + 1]
    BY <1>3, QueueTypes, TailAt
  <2> QED
    BY <2>1, <2>2 DEF LinesInOrder
<1>19. ASSUME NEW i, Unread(c, i)'
       PROVE  /\ EvenRun(ready'[i].buffer, Base(c)')
              /\ \A k : Unread(c, k)' /\ i < k => ready'[i].buffer[1] < ready'[k].buffer[1]
              /\ \A k \in DOMAIN relayed[c] : relayed[c][k][1] < ready'[i].buffer[1]
  <2>1. CASE i \in 1 .. Len(ready) /\ Unread(c, i) /\ ready'[i] = ready[i]
    <3>1. ASSUME NEW k, Unread(c, k)', i < k PROVE ready'[i].buffer[1] < ready'[k].buffer[1]
      BY <1>9, <1>15, <1>16, <2>1, <3>1 DEF LinesInOrder
    <3>2. \A k \in DOMAIN relayed[c] : relayed[c][k][1] < ready[i].buffer[1]
      BY <2>1 DEF LinesInOrder
    <3> QED
      BY <1>16, <2>1, <3>1, <3>2
  <2>2. CASE i = Len(ready) + 1 /\ ready'[i] = h
    <3>1. ASSUME NEW k, Unread(c, k)', i < k PROVE FALSE
      BY <1>15, <2>2, <3>1, QueueTypes
    <3> QED
      BY <1>9, <1>12, <1>17, <2>2, <3>1
  <2> QED
    BY <1>15, <1>19, <2>1, <2>2
<1>20. \A k, j \in DOMAIN relayed[c] : k < j => relayed[c][k][1] < relayed[c][j][1]
  BY DEF LinesInOrder
<1> QED
  BY <1>3, <1>14, <1>17, <1>18, <1>19, <1>20 DEF LinesInOrder

\* The line that is relayed is the oldest that was read.
LEMMA RelayLine ==
  ASSUME ChatInv, PieceInv, NEW c \in Conns, LinesInOrder(c), HandleLine,
         Head(ready).conn = c, Base(c)' = Base(c)
  PROVE  LinesInOrder(c)'
<1> DEFINE b == Head(ready).buffer
<1>1. /\ ready # <<>> /\ Head(ready) = ready[1] /\ 1 \in DOMAIN ready
      /\ Head(ready) # Work /\ b \in Seq(Piece)
  BY HeadMessage DEF HandleLine
<1>2. UNCHANGED reads /\ ready' = Tail(ready) /\ ~Head(ready).failed
  BY DEF HandleLine
<1>3. PICK n \in FirstEnd(b) : relayed' = [relayed EXCEPT ![c] = Append(@, SubSeq(b, 1, n))]
  BY DEF HandleLine
<1>4. Unread(c, 1) /\ ready[1].buffer = b
  BY <1>1, <1>2 DEF Unread
<1> HIDE DEF b
<1>5. Base(c) \in Nat
  BY DEF PieceInv, StreamInv
<1>6. EvenRun(b, Base(c))
  BY <1>4 DEF LinesInOrder
<1>7. PICK a \in Nat : /\ SubSeq(b, 1, n) = <<2 * a + 1, 2 * a + 2>> /\ b[1] = 2 * a + 1
                       /\ 2 * a + 2 <= Base(c)
  BY <1>1, <1>3, <1>5, <1>6, FirstLine
<1> DEFINE line == <<2 * a + 1, 2 * a + 2>>
<1>8. \E p \in 1 .. MaxLines[c] : line = <<2 * p - 1, 2 * p>> /\ 2 * p <= Base(c)
  <2>1. Base(c) <= sent[c] /\ sent[c] <= 2 * MaxLines[c] /\ sent[c] \in Nat
    <3>1. Len(stream[c]) \in Nat /\ sent[c] \in Nat /\ sent[c] <= 2 * MaxLines[c]
      <4>1. stream[c] \in Seq(Piece) /\ sent[c] \in Nat /\ sent[c] <= 2 * MaxLines[c]
        BY DEF ChatInv, TypeOK
      <4> QED
        BY <4>1
    <3> QED
      BY <3>1 DEF Base
  <2>2. MaxLines[c] \in Nat
    BY ChatAssumption
  <2>3. a + 1 \in 1 .. MaxLines[c]
    BY <1>5, <1>7, <2>1, <2>2
  <2>4. 2 * (a + 1) - 1 = 2 * a + 1 /\ 2 * (a + 1) = 2 * a + 2
    OBVIOUS
  <2> QED
    BY <1>7, <2>3, <2>4
<1>9. line[1] = b[1]
  BY <1>7
<1> HIDE DEF line
<1>10. relayed'[c] = Append(relayed[c], line)
  BY <1>3, <1>7, QueueTypes DEF line
<1>11. /\ \A k \in DOMAIN relayed[c] : relayed[c][k][1] < b[1]
       /\ \A k : Unread(c, k) /\ 1 < k => b[1] < ready[k].buffer[1]
  BY <1>4 DEF LinesInOrder
<1>12. ASSUME NEW i, Unread(c, i)'
       PROVE  i \in Nat \ {0} /\ Unread(c, i + 1) /\ ready'[i].buffer = ready[i + 1].buffer
  <2>1. i \in DOMAIN ready' /\ ready'[i] # Work /\ ready'[i].conn = c /\ ~ready'[i].failed
    BY <1>12 DEF Unread
  <2>2. i \in 1 .. Len(ready) - 1 /\ i + 1 \in DOMAIN ready /\ ready'[i] = ready[i + 1]
    BY <1>1, <1>2, <2>1, QueueTypes, TailAt
  <2> QED
    BY <2>1, <2>2, QueueTypes DEF Unread
<1>13. ASSUME NEW k \in DOMAIN relayed'[c]
       PROVE  \/ /\ k \in 1 .. Len(relayed[c]) /\ k \in DOMAIN relayed[c]
                 /\ relayed'[c][k] = relayed[c][k]
              \/ k = Len(relayed[c]) + 1 /\ relayed'[c][k] = line
  BY <1>10, <1>13, QueueTypes, AppendAt
<1>14. ASSUME NEW i, Unread(c, i)'
       PROVE  /\ EvenRun(ready'[i].buffer, Base(c)')
              /\ \A k : Unread(c, k)' /\ i < k => ready'[i].buffer[1] < ready'[k].buffer[1]
              /\ \A k \in DOMAIN relayed'[c] : relayed'[c][k][1] < ready'[i].buffer[1]
  <2>1. i \in Nat \ {0} /\ Unread(c, i + 1) /\ ready'[i].buffer = ready[i + 1].buffer
    BY <1>12, <1>14
  <2>2. /\ EvenRun(ready[i + 1].buffer, Base(c))
        /\ \A k : Unread(c, k) /\ i + 1 < k => ready[i + 1].buffer[1] < ready[k].buffer[1]
        /\ \A k \in DOMAIN relayed[c] : relayed[c][k][1] < ready[i + 1].buffer[1]
    BY <2>1 DEF LinesInOrder
  <2>3. ASSUME NEW k, Unread(c, k)', i < k PROVE ready'[i].buffer[1] < ready'[k].buffer[1]
    <3>1. k \in Nat \ {0} /\ Unread(c, k + 1) /\ ready'[k].buffer = ready[k + 1].buffer
      BY <1>12, <2>3
    <3>2. i + 1 < k + 1
      BY <2>1, <2>3, <3>1
    <3> QED
      BY <2>1, <2>2, <3>1, <3>2
  <2>4. line[1] < ready'[i].buffer[1]
    <3>1. 1 < i + 1
      BY <2>1
    <3> QED
      BY <1>9, <1>11, <2>1, <3>1
  <2>5. \A k \in DOMAIN relayed'[c] : relayed'[c][k][1] < ready'[i].buffer[1]
    BY <1>13, <2>1, <2>2, <2>4
  <2> QED
    BY <2>1, <2>2, <2>3, <2>5
<1>15. ASSUME NEW k \in DOMAIN relayed'[c]
       PROVE  \E p \in 1 .. MaxLines[c] :
                relayed'[c][k] = <<2 * p - 1, 2 * p>> /\ 2 * p <= Base(c)'
  <2>1. CASE k \in DOMAIN relayed[c] /\ relayed'[c][k] = relayed[c][k]
    BY <2>1 DEF LinesInOrder
  <2>2. CASE relayed'[c][k] = line
    BY <1>8, <2>2
  <2> QED
    BY <1>13, <2>1, <2>2
<1>16. ASSUME NEW k \in DOMAIN relayed'[c], NEW j \in DOMAIN relayed'[c], k < j
       PROVE  relayed'[c][k][1] < relayed'[c][j][1]
  <2>1. CASE k \in 1 .. Len(relayed[c]) /\ k \in DOMAIN relayed[c] /\ relayed'[c][k] = relayed[c][k]
    <3>1. CASE j \in DOMAIN relayed[c] /\ relayed'[c][j] = relayed[c][j]
      BY <1>16, <2>1, <3>1 DEF LinesInOrder
    <3>2. CASE relayed'[c][j] = line
      BY <1>9, <1>11, <2>1, <3>2
    <3> QED
      BY <1>13, <3>1, <3>2
  <2>2. CASE k = Len(relayed[c]) + 1
    <3>1. j <= Len(relayed[c]) + 1 /\ j \in Nat /\ Len(relayed[c]) \in Nat
      BY <1>13, QueueTypes
    <3> QED
      BY <1>16, <2>2, <3>1
  <2> QED
    BY <1>13, <2>1, <2>2
<1>17. \E e \in Nat : Base(c)' = 2 * e
  BY DEF LinesInOrder
<1>18. \A i \in DOMAIN reads'[c] : reads'[c][i] = <<>>
  BY <1>2 DEF LinesInOrder
<1> QED
  BY <1>14, <1>15, <1>16, <1>17, <1>18 DEF LinesInOrder

\* The reads that are done after a step were done before, when what the step queued is
\* no read of c that found something.
LEMMA UnreadWas ==
  ASSUME ChatInv, NEW c \in Conns, NEW m \in {0, 1}, NEW q,
         \/ m = 0 /\ q = ready
         \/ m = 1 /\ q = Tail(ready) /\ ready # <<>>,
         \A i \in DOMAIN ready' :
           \/ i \in DOMAIN q /\ ready'[i] = q[i]
           \/ ready'[i] = Work \/ ready'[i].conn # c \/ ready'[i].failed,
         NEW i, Unread(c, i)'
  PROVE  i \in Nat /\ Unread(c, i + m) /\ ready'[i].buffer = ready[i + m].buffer
<1>1. i \in DOMAIN ready' /\ ready'[i] # Work /\ ready'[i].conn = c /\ ~ready'[i].failed
  BY DEF Unread
<1>2. i \in DOMAIN q /\ ready'[i] = q[i]
  BY <1>1
<1>3. i \in Nat /\ i + m \in DOMAIN ready /\ q[i] = ready[i + m]
  <2>1. CASE m = 0 /\ q = ready
    <3>1. i \in Nat /\ i + m = i
      BY <1>2, <2>1, QueueTypes
    <3> QED
      BY <1>2, <2>1, <3>1
  <2>2. CASE m = 1 /\ q = Tail(ready) /\ ready # <<>>
    <3>1. \A k \in DOMAIN Tail(ready) :
            k \in 1 .. Len(ready) - 1 /\ k + 1 \in DOMAIN ready /\ Tail(ready)[k] = ready[k + 1]
      BY <2>2, QueueTypes, TailAt
    <3> QED
      BY <1>2, <2>2, <3>1, QueueTypes
  <2> QED
    BY <2>1, <2>2
<1> QED
  BY <1>1, <1>2, <1>3 DEF Unread

\* A step in which no read that waits gets a buffer with something in it.
LEMMA EmptyReads ==
  ASSUME ChatInv, NEW c \in Conns, LinesInOrder(c),
         \/ reads'[c] = reads[c]
         \/ reads'[c] = <<>>
         \/ reads'[c] = Append(reads[c], <<>>)
  PROVE  \A i \in DOMAIN reads'[c] : reads'[c][i] = <<>>
<1>1. \A i \in DOMAIN reads[c] : reads[c][i] = <<>>
  BY DEF LinesInOrder
<1>2. DOMAIN <<>> = {}
  OBVIOUS
<1>3. ASSUME NEW i \in DOMAIN Append(reads[c], <<>>) PROVE Append(reads[c], <<>>)[i] = <<>>
  BY <1>1, <1>3, QueueTypes, AppendAt
<1> QED
  BY <1>1, <1>2, <1>3

LEMMA LineInit == Init => LineInv
<1> SUFFICES ASSUME Init, NEW c \in Conns PROVE LinesInOrder(c)
  BY DEF LineInv
<1>1. /\ sent[c] = 0 /\ stream[c] = <<>> /\ relayed[c] = <<>> /\ reads[c] = <<>>
      /\ ready = <<>>
  BY DEF Init
<1>2. DOMAIN <<>> = {} /\ Len(<<>>) = 0 /\ 0 = 2 * 0
  OBVIOUS
<1>3. \E h \in Nat : Base(c) = 2 * h
  BY <1>1, <1>2 DEF Base
<1> QED
  BY <1>1, <1>2, <1>3 DEF LinesInOrder, Unread

\* The invariant of the lines is inductive, with that of the pieces.
LEMMA LineStep == ChatInv /\ PieceInv /\ LineInv /\ [Next]_vars => LineInv'
<1> SUFFICES ASSUME ChatInv, PieceInv, LineInv, [Next]_vars, NEW c \in Conns, c \notin cut'
             PROVE  LinesInOrder(c)'
  BY DEF LineInv
<1>1. LinesInOrder(c)
  <2>1. cut \subseteq cut'
    BY DEF Next, vars, Join, PeerSends, PeerCloses, ReadSome, ReadsEnd, StartLoads, StopLoads,
           HostGoesOn, StartStores, StartCallsWork, StartWorks, StopStores, IoThread,
           HandleTimer, IoWorks, HandlePartial, HandleLine, HandleReadError, WriteEnds,
           WriteFails, Writes, work
  <2> QED
    BY <2>1 DEF LineInv
<1>2. CASE ReadSome(c)
  BY <1>1, <1>2, ReadLines
<1> SUFFICES ASSUME ~ReadSome(c) PROVE LinesInOrder(c)'
  BY <1>2
<1>3. Base(c)' = Base(c)
  BY BaseStays
<1>4. ASSUME relayed'[c] = relayed[c],
             \/ reads'[c] = reads[c]
             \/ reads'[c] = <<>>
             \/ reads'[c] = Append(reads[c], <<>>),
             NEW m \in {0, 1}, NEW q,
             \/ m = 0 /\ q = ready
             \/ m = 1 /\ q = Tail(ready) /\ ready # <<>>,
             \A i \in DOMAIN ready' :
               \/ i \in DOMAIN q /\ ready'[i] = q[i]
               \/ ready'[i] = Work \/ ready'[i].conn # c \/ ready'[i].failed
      PROVE  LinesInOrder(c)'
  <2>1. \A i \in DOMAIN reads'[c] : reads'[c][i] = <<>>
    BY <1>1, <1>4, EmptyReads
  <2>2. \A i : Unread(c, i)' =>
          i \in Nat /\ Unread(c, i + m) /\ ready'[i].buffer = ready[i + m].buffer
    BY <1>4, UnreadWas
  <2> QED
    BY <1>1, <1>3, <1>4, <2>1, <2>2, LinesStay
<1>5. CASE UNCHANGED <<ready, reads, relayed>>
  <2>1. PICK m \in {0, 1}, q \in {ready} : m = 0
    OBVIOUS
  <2> QED
    BY <1>4, <1>5, <2>1
<1>6. ASSUME NEW d \in Conns, ReadSome(d) PROVE LinesInOrder(c)'
  <2>1. c # d
    BY <1>6
  <2>2. PICK b : ready' = Append(ready, ReadDone(d, b, FALSE))
    BY <1>6 DEF ReadSome
  <2>3. PICK m \in {0, 1}, q \in {ready}, h \in {ReadDone(d, b, FALSE)} :
          m = 0 /\ ready' = Append(ready, h) /\ h.conn # c
    BY <2>1, <2>2 DEF ReadDone
  <2>4. \A i \in DOMAIN ready' : (i \in DOMAIN q /\ ready'[i] = q[i]) \/ ready'[i].conn # c
    BY <2>3, QueueTypes, AppendAt
  <2>5. relayed'[c] = relayed[c] /\ reads'[c] = reads[c]
    BY <1>6, <2>1, QueueTypes DEF ReadSome
  <2> QED
    BY <1>4, <2>3, <2>4, <2>5
<1>7. CASE work(ready)
  <2>1. relayed'[c] = relayed[c]
    BY <1>7 DEF work
  <2>2. reads'[c] = Append(reads[c], <<>>) \/ reads'[c] = reads[c]
    BY <1>7 DEF work
  <2>3. PICK m \in {0, 1}, q \in {ready} : m = 0 /\ ready' = Append(q, Work)
    BY <1>7 DEF work
  <2>4. \A i \in DOMAIN ready' : (i \in DOMAIN q /\ ready'[i] = q[i]) \/ ready'[i] = Work
    BY <2>3, QueueTypes, AppendAt
  <2> QED
    BY <1>4, <2>1, <2>2, <2>3, <2>4
<1>8. ASSUME NEW d \in Conns, NEW m \in {0, 1}, NEW q,
             \/ m = 0 /\ q = ready
             \/ m = 1 /\ q = Tail(ready) /\ ready # <<>>,
             relayed' = relayed, reads' = [reads EXCEPT ![d] = <<>>],
             ready' = q \o Failures(d)
      PROVE  LinesInOrder(c)'
  <2>1. q \in Seq(Handler)
    <3>1. ready \in Seq(Handler)
      BY QueueTypes
    <3>2. ready # <<>> => Tail(ready) \in Seq(Handler)
      BY <3>1, TailQueue
    <3> QED
      BY <1>8, <3>1, <3>2
  <2>2. Failures(d) \in Seq(Handler) /\ \A k \in DOMAIN Failures(d) : Failures(d)[k].failed
    <3>1. Failures(d) \in Seq(Handler)
      BY FailuresNoWork DEF ChatInv
    <3>2. ASSUME NEW k \in DOMAIN Failures(d) PROVE Failures(d)[k].failed
      BY <3>2, FailuresAt, Zenon
    <3> QED
      BY <3>1, <3>2
  <2>3. \A i \in DOMAIN ready' : (i \in DOMAIN q /\ ready'[i] = q[i]) \/ ready'[i].failed
    BY <1>8, <2>1, <2>2, ConcatAt
  <2>4. relayed'[c] = relayed[c] /\ (reads'[c] = reads[c] \/ reads'[c] = <<>>)
    BY <1>8, QueueTypes
  <2> QED
    BY <1>4, <1>8, <2>3, <2>4
<1>9. ASSUME NEW d \in Conns, ReadsEnd(d) PROVE LinesInOrder(c)'
  <2>1. PICK m \in {0, 1}, q \in {ready} : /\ m = 0 /\ ready' = q \o Failures(d)
                                          /\ reads' = [reads EXCEPT ![d] = <<>>]
                                          /\ relayed' = relayed
    BY <1>9 DEF ReadsEnd
  <2> QED
    BY <1>8, <2>1
<1>10. ASSUME ready # <<>>, ready' = Tail(ready), UNCHANGED <<reads, relayed>>
       PROVE  LinesInOrder(c)'
  <2>1. PICK m \in {0, 1}, q \in {Tail(ready)} : m = 1 /\ ready' = q
    BY <1>10
  <2> QED
    BY <1>4, <1>10, <2>1
<1>11. CASE HandleReadError
  <2>1. ready # <<>> /\ relayed' = relayed
    BY <1>11 DEF HandleReadError, Runs
  <2>2. ASSUME NEW d \in Conns, ready' = Tail(ready) \o Failures(d),
               reads' = [reads EXCEPT ![d] = <<>>]
        PROVE  LinesInOrder(c)'
    <3>1. PICK m \in {0, 1}, q \in {Tail(ready)} : m = 1 /\ ready' = q \o Failures(d)
      BY <2>2
    <3> QED
      BY <1>8, <2>1, <2>2, <3>1
  <2>3. \/ ready' = Tail(ready) /\ UNCHANGED reads
        \/ \E d \in Conns : /\ ready' = Tail(ready) \o Failures(d)
                            /\ reads' = [reads EXCEPT ![d] = <<>>]
    BY <1>11, RemovesOne DEF HandleReadError
  <2> QED
    BY <1>10, <2>1, <2>2, <2>3
<1>12. CASE HandleLine
  <2>1. CASE Head(ready).conn = c
    BY <1>1, <1>3, <1>12, <2>1, RelayLine
  <2>2. CASE Head(ready).conn # c
    <3>1. PICK m \in {0, 1}, q \in {Tail(ready)} :
        /\ m = 1 /\ ready # <<>> /\ ready' = q
        /\ reads' = reads
      BY <1>12 DEF HandleLine, Runs
    <3>2. relayed'[c] = relayed[c]
      BY <1>12, <2>2, QueueTypes DEF HandleLine
    <3> QED
      BY <1>4, <3>1, <3>2
  <2> QED
    BY <2>1, <2>2
<1>13. CASE HandlePartial
  <2> DEFINE r == Head(ready)
  <2>1. /\ ready # <<>> /\ r = ready[1] /\ 1 \in DOMAIN ready /\ r # Work
        /\ r.conn \in Conns /\ r.buffer \in Seq(Piece)
    BY <1>13, HeadMessage DEF HandlePartial
  <2>2. ~r.failed /\ FirstEnd(r.buffer) = {} /\ relayed' = relayed
    BY <1>13 DEF HandlePartial
  <2>3. r.conn # c
    <3>1. ASSUME r.conn = c PROVE FALSE
      <4>1. Unread(c, 1)
        BY <2>1, <2>2, <3>1 DEF Unread
      <4>2. EvenRun(r.buffer, Base(c)) /\ Base(c) \in Nat
        BY <1>1, <2>1, <4>1 DEF LinesInOrder, PieceInv, StreamInv
      <4> QED
        BY <2>1, <2>2, <4>2, RunHasLine
    <3> QED
      BY <3>1
  <2>4. reads'[c] = reads[c]
    BY <1>13, <2>3, QueueTypes DEF HandlePartial
  <2>5. PICK m \in {0, 1}, q \in {Tail(ready)} : m = 1 /\ q = Tail(ready)
    OBVIOUS
  <2>6. q \in Seq(Handler)
    BY <2>1, <2>5, QueueTypes
  <2>7. \A i \in DOMAIN ready' : (i \in DOMAIN q /\ ready'[i] = q[i]) \/ ready'[i].conn # c
    <3>1. CASE ready' = Tail(ready)
      BY <2>5, <3>1
    <3>2. CASE ready' = Append(Tail(ready), ReadDone(r.conn, r.buffer, TRUE))
      <4>1. PICK h : ready' = Append(q, h) /\ h.conn # c
        BY <2>3, <2>5, <3>2 DEF ReadDone
      <4> QED
        BY <2>6, <4>1, AppendAt
    <3> QED
      BY <1>13, <3>1, <3>2 DEF HandlePartial
  <2> QED
    BY <1>4, <2>1, <2>2, <2>4, <2>5, <2>7
<1>14. ASSUME NEW d \in Conns, WriteFails(d) PROVE LinesInOrder(c)'
  <2>1. relayed' = relayed /\ remove_client(Login[d], ready)
    BY <1>14 DEF WriteFails, Writes
  <2>2. PICK m \in {0, 1}, q \in {ready} : m = 0
    OBVIOUS
  <2> QED
    BY <1>5, <1>8, <2>1, <2>2, RemovesOne
<1>15. CASE HandleTimer
  BY <1>10, <1>15 DEF HandleTimer, Runs
<1> QED
  BY <1>5, <1>6, <1>7, <1>9, <1>11, <1>12, <1>13, <1>14, <1>15
     DEF Next, vars, Join, PeerSends, PeerCloses, StartLoads, StopLoads, HostGoesOn,
         StartStores, StartCallsWork, StartWorks, StopStores, IoThread, IoWorks, WriteEnds,
         Writes, hostVars, peerVars

\* As long as no read of a client ended inside a line, do_send relays whole lines of its
\* peer, in the order in which they were sent.
THEOREM RelaysWholeLines == Spec => []WholeLines
<1>1. LineInv => WholeLines
  BY DEF LineInv, LinesInOrder, WholeLines
<1> QED
  BY <1>1, LineInit, LineStep, PieceInit, PieceStep, ChatInvariant, PTL DEF Spec

-----------------------------------------------------------------------------
(* What is left of a chat that was stopped. *)

\* The completed reads of c in a queue.
ReadsAt(q, c) == {i \in DOMAIN q : q[i] # Work /\ q[i].conn = c}

LEMMA ReadsFinite ==
  ASSUME NEW q \in Seq(Handler), NEW c
  PROVE  IsFiniteSet(ReadsAt(q, c)) /\ Cardinality(ReadsAt(q, c)) \in Nat
<1>1. ReadsAt(q, c) \subseteq 1 .. Len(q) /\ Len(q) \in Int
  BY DEF ReadsAt
<1>2. IsFiniteSet(1 .. Len(q))
  BY <1>1, FS_Interval
<1> QED
  BY <1>1, <1>2, FS_Subset, FS_CardinalityType

\* Queueing a handler adds at most one read, and only of its own connection.
LEMMA AppendReads ==
  ASSUME NEW q \in Seq(Handler), NEW h, NEW c
  PROVE  /\ Cardinality(ReadsAt(Append(q, h), c)) <= Cardinality(ReadsAt(q, c)) + 1
         /\ h.conn # c => ReadsAt(Append(q, h), c) = ReadsAt(q, c)
<1> DEFINE s == Append(q, h)
           R == ReadsAt(q, c)
<1>1. /\ DOMAIN s = 1 .. (Len(q) + 1) /\ DOMAIN q = 1 .. Len(q)
      /\ \A i \in 1 .. Len(q) : s[i] = q[i]
      /\ s[Len(q) + 1] = h
      /\ Len(q) \in Nat
  OBVIOUS
<1>2. IsFiniteSet(R) /\ Cardinality(R) \in Nat
  BY ReadsFinite
<1> HIDE DEF s
<1>3. h.conn # c => ReadsAt(s, c) = R
  BY <1>1 DEF ReadsAt
<1>4. ReadsAt(s, c) = R \/ ReadsAt(s, c) = R \cup {Len(q) + 1}
  BY <1>1 DEF ReadsAt
<1> HIDE DEF R
<1>5. Cardinality(R \cup {Len(q) + 1}) <= Cardinality(R) + 1
  <2>1. Cardinality(R \cup {Len(q) + 1}) =
          IF Len(q) + 1 \in R THEN Cardinality(R) ELSE Cardinality(R) + 1
    BY <1>2, FS_AddElement
  <2> QED
    BY <1>2, <2>1
<1>6. Cardinality(ReadsAt(s, c)) <= Cardinality(R) + 1
  <2>1. CASE ReadsAt(s, c) = R
    BY <1>2, <2>1
  <2>2. CASE ReadsAt(s, c) = R \cup {Len(q) + 1}
    BY <1>5, <2>2
  <2> QED
    BY <1>4, <2>1, <2>2
<1> QED
  BY <1>3, <1>6 DEF s, R

\* Calling the handler of a read takes it from the queue.
LEMMA TailReads ==
  ASSUME NEW q \in Seq(Handler), q # <<>>, NEW c
  PROVE  /\ Cardinality(ReadsAt(Tail(q), c)) <= Cardinality(ReadsAt(q, c))
         /\ Head(q) # Work /\ Head(q).conn = c
              => Cardinality(ReadsAt(Tail(q), c)) <= Cardinality(ReadsAt(q, c)) - 1
<1> DEFINE s == Tail(q)
<1>1. /\ DOMAIN s = 1 .. (Len(q) - 1) /\ DOMAIN q = 1 .. Len(q)
      /\ \A i \in 1 .. (Len(q) - 1) : s[i] = q[i + 1]
      /\ Len(q) \in Nat /\ Head(q) = q[1] /\ 1 \in DOMAIN q
      /\ s \in Seq(Handler)
  OBVIOUS
<1> HIDE DEF s
<1> DEFINE W == ReadsAt(q, c) \ {1}
           f == [i \in ReadsAt(s, c) |-> i + 1]
<1>2. \A i \in ReadsAt(s, c) : i \in Nat /\ i + 1 \in W
  BY <1>1 DEF ReadsAt
<1>3. f \in Injection(ReadsAt(s, c), W)
  <2>1. f \in [ReadsAt(s, c) -> W]
    BY <1>2
  <2>2. \A i, j \in ReadsAt(s, c) : f[i] = f[j] => i = j
    BY <1>2
  <2> HIDE DEF f, W
  <2> QED
    BY <2>1, <2>2 DEF Injection, IsInjective
<1>4. /\ IsFiniteSet(W)
      /\ Cardinality(W) = IF 1 \in ReadsAt(q, c) THEN Cardinality(ReadsAt(q, c)) - 1
                                                 ELSE Cardinality(ReadsAt(q, c))
  BY ReadsFinite, FS_RemoveElement
<1>5. Cardinality(ReadsAt(s, c)) <= Cardinality(W)
  <2> HIDE DEF f, W
  <2> QED
    BY <1>3, <1>4, FS_Injection
<1>6. Cardinality(ReadsAt(q, c)) \in Nat /\ Cardinality(ReadsAt(s, c)) \in Nat
  BY <1>1, ReadsFinite
<1>7. Head(q) # Work /\ Head(q).conn = c => 1 \in ReadsAt(q, c)
  BY <1>1 DEF ReadsAt
<1> HIDE DEF W, f
<1>8. /\ Cardinality(ReadsAt(s, c)) <= Cardinality(ReadsAt(q, c))
      /\ 1 \in ReadsAt(q, c)
           => Cardinality(ReadsAt(s, c)) <= Cardinality(ReadsAt(q, c)) - 1
  BY <1>4, <1>5, <1>6
<1> QED
  BY <1>7, <1>8 DEF s

\* The failures of the reads of d are as many as the reads, and of d.
LEMMA FailedReads ==
  ASSUME ChatInv, NEW q \in Seq(Handler), NEW c \in Conns, NEW d \in Conns
  PROVE  /\ Cardinality(ReadsAt(q \o Failures(d), c))
              <= Cardinality(ReadsAt(q, c)) + Len(reads[d])
         /\ c # d => ReadsAt(q \o Failures(d), c) = ReadsAt(q, c)
<1> DEFINE r == Failures(d)
           s == q \o r
           R == ReadsAt(q, c)
           n == Len(reads[d])
           I == Len(q) + 1 .. Len(q) + n
<1>1. /\ reads[d] \in Seq(Seq(Piece)) /\ n \in Nat /\ DOMAIN reads[d] = 1 .. n
  BY QueueTypes
<1>2. r \in Seq(Handler) /\ DOMAIN r = 1 .. n /\ \A i \in 1 .. n : r[i].conn = d
  BY <1>1, FailuresNoWork, FailuresAt DEF ChatInv
<1> HIDE DEF r, n
<1>3. Len(r) = n
  BY <1>1, <1>2
<1>4. /\ DOMAIN s = 1 .. (Len(q) + n) /\ DOMAIN q = 1 .. Len(q)
      /\ \A i \in 1 .. Len(q) : s[i] = q[i]
      /\ \A i \in 1 .. (Len(q) + n) : i > Len(q) => s[i] = r[i - Len(q)]
      /\ Len(q) \in Nat
  BY <1>2, <1>3
<1> HIDE DEF s
<1>5. \A i \in DOMAIN s : i \in DOMAIN q \/ (i \in I /\ s[i].conn = d)
  <2> SUFFICES ASSUME NEW i \in DOMAIN s, i \notin DOMAIN q PROVE i \in I /\ s[i].conn = d
    OBVIOUS
  <2>1. i \in I /\ i > Len(q) /\ i - Len(q) \in 1 .. n
    BY <1>1, <1>4
  <2> QED
    BY <1>2, <1>4, <2>1
<1>6. \A i \in DOMAIN q : i \in DOMAIN s /\ s[i] = q[i]
  BY <1>1, <1>4
<1>7. ReadsAt(s, c) \subseteq R \cup I
  BY <1>5, <1>6 DEF ReadsAt
<1>8. c # d => ReadsAt(s, c) = R
  BY <1>5, <1>6 DEF ReadsAt
<1>9. IsFiniteSet(R) /\ Cardinality(R) \in Nat
  BY ReadsFinite
<1>10. IsFiniteSet(I) /\ Cardinality(I) = n
  <2>1. /\ IsFiniteSet(I)
        /\ Cardinality(I) = IF Len(q) + 1 > Len(q) + n THEN 0
                            ELSE (Len(q) + n) - (Len(q) + 1) + 1
    <3>1. Len(q) + 1 \in Int /\ Len(q) + n \in Int
      BY <1>1, <1>4
    <3> QED
      BY <3>1, FS_Interval
  <2> QED
    BY <1>1, <1>4, <2>1
<1> HIDE DEF R, I
<1>11. /\ IsFiniteSet(R \cup I)
       /\ Cardinality(R \cup I) = Cardinality(R) + Cardinality(I) - Cardinality(R \cap I)
  BY <1>9, <1>10, FS_Union
<1>12. Cardinality(R \cap I) \in Nat
  <2>1. IsFiniteSet(R \cap I)
    BY <1>9, FS_Subset
  <2> QED
    BY <2>1, FS_CardinalityType
<1>13. Cardinality(ReadsAt(s, c)) <= Cardinality(R \cup I) /\ IsFiniteSet(ReadsAt(s, c))
  BY <1>7, <1>11, FS_Subset
<1>14. Cardinality(ReadsAt(s, c)) \in Nat
  BY <1>13, FS_CardinalityType
<1>15. Cardinality(ReadsAt(s, c)) <= Cardinality(R) + n
  BY <1>1, <1>9, <1>10, <1>11, <1>12, <1>13, <1>14
<1> QED
  BY <1>8, <1>15 DEF s, r, n, R

\* A step that takes the head off the queue, and may pass its read on.
LEMMA HeadPasses ==
  ASSUME ChatInv, Runs("message"), NEW c \in Conns, NEW n \in Nat,
         NEW m \in Nat, m <= n + (IF Head(ready).conn = c THEN 1 ELSE 0)
  PROVE  m + Cardinality(ReadsAt(Tail(ready), c)) <= n + Cardinality(ReadsAt(ready, c))
<1>1. ready \in Seq(Handler) /\ ready # <<>> /\ Head(ready) # Work
  BY QueueTypes, HeadMessage
<1>2. Tail(ready) \in Seq(Handler)
  BY <1>1, TailQueue
<1>3. /\ Cardinality(ReadsAt(ready, c)) \in Nat
      /\ Cardinality(ReadsAt(Tail(ready), c)) \in Nat
  BY <1>1, <1>2, ReadsFinite
<1>4. /\ Cardinality(ReadsAt(Tail(ready), c)) <= Cardinality(ReadsAt(ready, c))
      /\ Head(ready).conn = c
           => Cardinality(ReadsAt(Tail(ready), c)) <= Cardinality(ReadsAt(ready, c)) - 1
  BY <1>1, TailReads
<1> QED
  BY <1>3, <1>4

\* What is left of c: its reads, outstanding or completed, and what was relayed.
Left(c) == Len(reads[c]) + Cardinality(ReadsAt(ready, c)) + Len(relayed[c])

\* No step but work posts a read: the others pass a read on, or drop it.
LEMMA NothingNew ==
  ASSUME ChatInv, ChatInv', [Next]_vars, NEW c \in Conns, ~IoWorks,
         \A h \in Hosts : ~StartWorks(h)
  PROVE  Left(c)' <= Left(c)
<1>1. /\ ready \in Seq(Handler) /\ ready' \in Seq(Handler)
      /\ reads \in [Conns -> Seq(Seq(Piece))] /\ relayed \in [Conns -> Seq(Seq(Piece))]
      /\ Len(reads[c]) \in Nat /\ Len(relayed[c]) \in Nat
      /\ Len(reads'[c]) \in Nat /\ Len(relayed'[c]) \in Nat
  BY DEF ChatInv, TypeOK
<1>2. Cardinality(ReadsAt(ready, c)) \in Nat /\ Cardinality(ReadsAt(ready', c)) \in Nat
  BY <1>1, ReadsFinite
<1>3. ASSUME UNCHANGED <<reads, ready, relayed>> PROVE Left(c)' <= Left(c)
  BY <1>1, <1>2, <1>3 DEF Left
<1>4. ASSUME UNCHANGED relayed,
             Len(reads'[c]) + Cardinality(ReadsAt(ready', c))
               <= Len(reads[c]) + Cardinality(ReadsAt(ready, c))
      PROVE  Left(c)' <= Left(c)
  BY <1>1, <1>2, <1>4 DEF Left
<1>5. ASSUME NEW d \in Conns, ReadSome(d) PROVE Left(c)' <= Left(c)
  <2>1. PICK b : ready' = Append(ready, ReadDone(d, b, FALSE))
    BY <1>5 DEF ReadSome
  <2>2. reads[d] # <<>> /\ reads' = [reads EXCEPT ![d] = Tail(@)] /\ UNCHANGED relayed
    BY <1>5 DEF ReadSome
  <2>3. ReadDone(d, b, FALSE).conn = d
    BY DEF ReadDone
  <2>4. CASE c = d
    <3>1. Cardinality(ReadsAt(ready', c)) <= Cardinality(ReadsAt(ready, c)) + 1
      BY <1>1, <2>1, AppendReads
    <3>2. Len(reads'[c]) = Len(reads[c]) - 1
      BY <1>1, <2>2, <2>4
    <3>3. Len(reads'[c]) + Cardinality(ReadsAt(ready', c))
            <= Len(reads[c]) + Cardinality(ReadsAt(ready, c))
      BY <1>1, <1>2, <3>1, <3>2
    <3> QED
      BY <1>4, <2>2, <3>3
  <2>5. CASE c # d
    <3>1. ReadsAt(ready', c) = ReadsAt(ready, c)
      BY <1>1, <2>1, <2>3, <2>5, AppendReads
    <3>2. reads'[c] = reads[c]
      BY <1>1, <2>2, <2>5
    <3> QED
      BY <1>1, <1>2, <1>4, <2>2, <3>1, <3>2
  <2> QED
    BY <2>4, <2>5
<1>6. ASSUME NEW d \in Conns, NEW q \in Seq(Handler), ready' = q \o Failures(d),
             reads' = [reads EXCEPT ![d] = <<>>], UNCHANGED relayed,
             Cardinality(ReadsAt(q, c)) <= Cardinality(ReadsAt(ready, c))
      PROVE  Left(c)' <= Left(c)
  <2>1. Cardinality(ReadsAt(q, c)) \in Nat
    BY ReadsFinite
  <2>2. /\ Cardinality(ReadsAt(ready', c)) <= Cardinality(ReadsAt(q, c)) + Len(reads[d])
        /\ c # d => ReadsAt(ready', c) = ReadsAt(q, c)
    BY <1>6, FailedReads
  <2>3. CASE c = d
    <3>1. Len(reads'[c]) = 0
      BY <1>1, <1>6, <2>3
    <3>2. Len(reads'[c]) + Cardinality(ReadsAt(ready', c))
            <= Len(reads[c]) + Cardinality(ReadsAt(ready, c))
      BY <1>1, <1>2, <1>6, <2>1, <2>2, <2>3, <3>1
    <3> QED
      BY <1>4, <1>6, <3>2
  <2>4. CASE c # d
    <3>1. reads'[c] = reads[c]
      BY <1>1, <1>6, <2>4
    <3>2. Len(reads'[c]) + Cardinality(ReadsAt(ready', c))
            <= Len(reads[c]) + Cardinality(ReadsAt(ready, c))
      BY <1>1, <1>2, <1>6, <2>1, <2>2, <2>4, <3>1
    <3> QED
      BY <1>4, <1>6, <3>2
  <2> QED
    BY <2>3, <2>4
<1>7. ASSUME NEW d \in Conns, ReadsEnd(d) PROVE Left(c)' <= Left(c)
  <2>1. /\ ready' = ready \o Failures(d) /\ reads' = [reads EXCEPT ![d] = <<>>]
        /\ UNCHANGED relayed
    BY <1>7 DEF ReadsEnd
  <2>2. Cardinality(ReadsAt(ready, c)) <= Cardinality(ReadsAt(ready, c))
    BY <1>2
  <2> QED
    BY <1>1, <1>6, <2>1, <2>2
<1>8. CASE HandleReadError
  <2>1. UNCHANGED relayed /\ Runs("message") /\ ready # <<>>
    BY <1>8 DEF HandleReadError, Runs
  <2>2. Tail(ready) \in Seq(Handler)
    BY <1>1, <2>1, TailQueue
  <2>3. Cardinality(ReadsAt(Tail(ready), c)) <= Cardinality(ReadsAt(ready, c))
    BY <1>1, <2>1, TailReads
  <2>4. CASE ready' = Tail(ready) /\ UNCHANGED reads
    BY <1>1, <1>2, <1>4, <2>1, <2>3, <2>4
  <2>5. \/ ready' = Tail(ready) /\ UNCHANGED reads
        \/ \E d \in Conns : /\ ready' = Tail(ready) \o Failures(d)
                            /\ reads' = [reads EXCEPT ![d] = <<>>]
    BY <1>8, RemovesOne DEF HandleReadError
  <2> QED
    BY <1>6, <2>1, <2>2, <2>3, <2>4, <2>5
<1>9. CASE HandlePartial
  <2> DEFINE d == Head(ready).conn
             b == Head(ready).buffer
  <2>1. Runs("message") /\ UNCHANGED relayed
    BY <1>9 DEF HandlePartial
  <2>2. d \in Conns /\ Tail(ready) \in Seq(Handler)
    BY <1>1, <2>1, HeadMessage, TailQueue
  <2>3. CASE reads' = [reads EXCEPT ![d] = Append(@, b)] /\ ready' = Tail(ready)
    <3>1. Len(reads'[c]) <= Len(reads[c]) + (IF d = c THEN 1 ELSE 0)
      <4>1. CASE c = d
        <5>1. reads[c] \in Seq(Seq(Piece)) /\ reads'[c] = Append(reads[c], b)
          BY <1>1, <2>3, <4>1
        <5>2. Len(Append(reads[c], b)) = Len(reads[c]) + 1
          BY <5>1
        <5> QED
          BY <1>1, <4>1, <5>1, <5>2
      <4>2. CASE c # d
        BY <1>1, <2>3, <4>2
      <4> QED
        BY <4>1, <4>2
    <3>2. Len(reads'[c]) + Cardinality(ReadsAt(Tail(ready), c))
            <= Len(reads[c]) + Cardinality(ReadsAt(ready, c))
      BY <1>1, <2>1, <3>1, HeadPasses
    <3> QED
      BY <1>4, <2>1, <2>3, <3>2
  <2>4. CASE reads' = reads /\ ready' = Append(Tail(ready), ReadDone(d, b, TRUE))
    <3>1. /\ Cardinality(ReadsAt(ready', c)) <= Cardinality(ReadsAt(Tail(ready), c)) + 1
          /\ d # c => ReadsAt(ready', c) = ReadsAt(Tail(ready), c)
      <4>1. ReadDone(d, b, TRUE).conn = d
        BY DEF ReadDone
      <4> HIDE DEF d, b
      <4> QED
        BY <2>2, <2>4, <4>1, AppendReads
    <3>2. Cardinality(ReadsAt(Tail(ready), c)) \in Nat
      BY <2>2, ReadsFinite
    <3>3. (IF d = c THEN 1 ELSE 0) + Cardinality(ReadsAt(Tail(ready), c))
            <= 0 + Cardinality(ReadsAt(ready, c))
      BY <2>1, HeadPasses
    <3> HIDE DEF d, b
    <3>4. Cardinality(ReadsAt(ready', c)) <= Cardinality(ReadsAt(ready, c))
      <4>1. CASE d = c
        BY <1>2, <3>1, <3>2, <3>3, <4>1
      <4>2. CASE d # c
        BY <1>2, <3>1, <3>2, <3>3, <4>2
      <4> QED
        BY <4>1, <4>2
    <3>5. Len(reads'[c]) = Len(reads[c])
      BY <2>4
    <3>6. Len(reads'[c]) + Cardinality(ReadsAt(ready', c))
            <= Len(reads[c]) + Cardinality(ReadsAt(ready, c))
      BY <1>1, <1>2, <3>4, <3>5
    <3> QED
      BY <1>4, <2>1, <3>6
  <2> QED
    BY <1>9, <2>3, <2>4 DEF HandlePartial
<1>10. CASE HandleLine
  <2> DEFINE d == Head(ready).conn
  <2>1. Runs("message") /\ UNCHANGED reads /\ ready' = Tail(ready)
    BY <1>10 DEF HandleLine
  <2>2. PICK x : relayed' = [relayed EXCEPT ![d] = Append(@, x)]
    BY <1>10 DEF HandleLine
  <2>3. Len(relayed'[c]) <= Len(relayed[c]) + (IF d = c THEN 1 ELSE 0)
    <3>1. CASE c = d
      <4>1. relayed[c] \in Seq(Seq(Piece)) /\ relayed'[c] = Append(relayed[c], x)
        BY <1>1, <2>2, <3>1
      <4>2. Len(Append(relayed[c], x)) = Len(relayed[c]) + 1
        BY <4>1
      <4> QED
        BY <1>1, <3>1, <4>1, <4>2
    <3>2. CASE c # d
      BY <1>1, <2>2, <3>2
    <3> QED
      BY <3>1, <3>2
  <2>4. Len(relayed'[c]) + Cardinality(ReadsAt(Tail(ready), c))
          <= Len(relayed[c]) + Cardinality(ReadsAt(ready, c))
    BY <1>1, <2>1, <2>3, HeadPasses
  <2> HIDE DEF d
  <2> QED
    BY <1>1, <1>2, <2>1, <2>4 DEF Left
<1>11. CASE HandleTimer
  <2>1. UNCHANGED <<reads, relayed>> /\ ready' = Tail(ready) /\ ready # <<>>
    BY <1>11 DEF HandleTimer, Runs
  <2>2. Cardinality(ReadsAt(ready', c)) <= Cardinality(ReadsAt(ready, c))
    BY <1>1, <2>1, TailReads
  <2> QED
    BY <1>1, <1>2, <1>4, <2>1, <2>2
<1>12. ASSUME NEW h \in Hosts, StartLoads(h) \/ StopLoads(h) \/ HostGoesOn(h)
       PROVE  Left(c)' <= Left(c)
  BY <1>3, <1>12 DEF StartLoads, StopLoads, HostGoesOn, StartStores, StartCallsWork, StopStores
<1>13. ASSUME NEW d \in Conns, Join(d) \/ PeerSends(d) \/ PeerCloses(d)
       PROVE  Left(c)' <= Left(c)
  BY <1>3, <1>13 DEF Join, PeerSends, PeerCloses
<1>14. ASSUME NEW d \in Conns, WriteEnds(d) \/ WriteFails(d) PROVE Left(c)' <= Left(c)
  <2>1. UNCHANGED relayed
    BY <1>14 DEF WriteEnds, WriteFails, Writes
  <2>2. CASE UNCHANGED <<ready, reads>>
    BY <1>3, <2>1, <2>2
  <2>3. ASSUME NEW e \in Conns, ready' = ready \o Failures(e),
               reads' = [reads EXCEPT ![e] = <<>>]
        PROVE  Left(c)' <= Left(c)
    <3>1. Cardinality(ReadsAt(ready, c)) <= Cardinality(ReadsAt(ready, c))
      BY <1>2
    <3> QED
      BY <1>1, <1>6, <2>1, <2>3, <3>1
  <2> QED
    BY <1>14, <2>2, <2>3, RemovesOne DEF WriteEnds, WriteFails
<1>15. CASE UNCHANGED vars
  BY <1>3, <1>15 DEF vars
<1> QED
  BY <1>5, <1>7, <1>8, <1>9, <1>10, <1>11, <1>12, <1>13, <1>14, <1>15 DEF Next, IoThread

\* Where no loop is left and no thread is about to begin one, no step posts reads.
LEMMA NoLoopNoReads ==
  ASSUME ChatInv, Loops = 0, Starters = {}
  PROVE  ~IoWorks /\ \A h \in Hosts : ~StartWorks(h)
<1>1. QueuedWork = WorkAt(ready) /\ ready \in Seq(Handler)
  BY QueueTypes DEF QueuedWork, WorkAt
<1>2. Cardinality(QueuedWork) \in Nat
  BY <1>1, WorkFinite
<1>3. io # "looping"
  BY <1>2 DEF Loops
<1>4. \A h \in Hosts : host[h] # "looping"
  BY DEF Starters
<1> QED
  BY <1>3, <1>4 DEF IoWorks, StartWorks, HostGoes

\* With no loop left and none about to begin, a step posts no read.
LEMMA StoppedStep ==
  ASSUME ChatInv, ChatInv', [Next]_vars, Loops = 0, Starters = {}
  PROVE  \A c \in Conns :
           (ReadsOf(c) + Len(relayed[c]))' <= ReadsOf(c) + Len(relayed[c])
<1> SUFFICES ASSUME NEW c \in Conns
             PROVE  (ReadsOf(c) + Len(relayed[c]))' <= ReadsOf(c) + Len(relayed[c])
  OBVIOUS
<1>1. Left(c)' <= Left(c)
  BY NothingNew, NoLoopNoReads
<1>2. ReadsAt(ready, c) = ReadyReads(c) /\ ReadsAt(ready', c) = ReadyReads(c)'
  BY DEF ReadsAt, ReadyReads
<1>3. /\ ReadsOf(c) + Len(relayed[c]) = Left(c)
      /\ (ReadsOf(c) + Len(relayed[c]))' = Left(c)'
  BY <1>2 DEF ReadsOf, Left
<1> QED
  BY <1>1, <1>3

\* Once the chat is stopped and its loops have ended, no step adds a read for any
\* client: each of those left is passed on, relays its one line, or is dropped.
THEOREM StopsForGood == Spec => StopEnds
<1>1. ChatInv /\ ChatInv' /\ [Next]_vars
        => [~started /\ Loops = 0 /\ Starters = {} =>
              \A c \in Conns :
                (ReadsOf(c) + Len(relayed[c]))' <= ReadsOf(c) + Len(relayed[c])]_vars
  BY StoppedStep
<1> QED
  BY <1>1, ChatInvariant, PTL DEF Spec, StopEnds

=============================================================================
