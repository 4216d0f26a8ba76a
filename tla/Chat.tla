-------------------------------- MODULE Chat --------------------------------
(***************************************************************************)
(* The chat (Chat.cpp): start and stop, called by any thread; work, the    *)
(* loop that posts one more read for every accepted client each time it    *)
(* comes round; and do_read's handler, which relays a line or removes the  *)
(* client.                                                                 *)
(*                                                                         *)
(* work's timer is destroyed at the end of the block that makes it, so its *)
(* wait is aborted at once: the handler, which calls work again, goes      *)
(* straight to the end of the io_context's queue.  Reads therefore pile    *)
(* up.  All reads of a client share its socket and each has a buffer of    *)
(* its own: the bytes go to the read that has waited longest, one that     *)
(* found no newline in them queues up again behind the others, and what a  *)
(* buffer holds behind its first line goes with the buffer.                *)
(*                                                                         *)
(* A line is two pieces, 2n - 1 and 2n, of which the second has the        *)
(* newline: a line in one piece is two that were sent and read together.   *)
(*                                                                         *)
(* A read that fails removes whoever has the id under which it was posted; *)
(* a write that fails removes whoever has the receiver's login for an id.  *)
(* Ids and logins are names that the connections have from the start: an   *)
(* id may come up twice, as the manager's may, but not at the same time.   *)
(***************************************************************************)
EXTENDS Naturals, Sequences, FiniteSets

CONSTANTS
  Conns,      \* the connections of the accepted clients
  Names,      \* the ids and the logins
  Id,         \* each connection's id
  Login,      \* each connection's LOGIN
  Hosts,      \* the threads that call start() and stop()
  MaxLines,   \* bound: the lines each peer sends
  MaxReads,   \* bound: a read posted for a client with so many waiting is forgotten
  MaxStarts   \* bound: the calls of start() that find the chat stopped

ASSUME ChatAssumption ==
  /\ Id \in [Conns -> Names] /\ Login \in [Conns -> Names]
  /\ MaxLines \in [Conns -> Nat] /\ MaxStarts \in Nat
  /\ MaxReads \in [Conns -> Nat \ {0}]

Piece == Nat \ {0}

EndsLine(p) == p % 2 = 0

VARIABLES
  started,   \* the atomic flag
  host,      \* where each host thread is in start() or stop()
  starts,    \* how many calls of start() found the chat stopped
  io,        \* the io thread: "idle", or in work() after it read the flag
  ready,     \* the io_context's queue of handlers to call
  reads,     \* each connection's outstanding reads, by their buffers, oldest first
  clients_,  \* the accepted clients
  peer,      \* the other end of each connection
  sent,      \* how many pieces each peer has sent
  stream,    \* the pieces that wait in each socket
  relayed,   \* the messages that do_send relayed for each connection
  writes,    \* how many writes to each connection are outstanding
  cut        \* connections of which a read ended inside a line

hostVars == <<started, host, starts>>
peerVars == <<peer, sent>>
vars == <<started, host, starts, io, ready, reads, clients_, peer, sent, stream,
          relayed, writes, cut>>

Work == [op |-> "work"]

ReadDone(c, buffer, failed) ==
  [op |-> "message", conn |-> c, buffer |-> buffer, failed |-> failed]

Handler ==
  {Work} \cup [op : {"message"}, conn : Conns, buffer : Seq(Piece), failed : BOOLEAN]

Init ==
  /\ started = FALSE
  /\ host = [h \in Hosts |-> "idle"]
  /\ starts = 0
  /\ io = "idle"
  /\ ready = <<>>
  /\ reads = [c \in Conns |-> <<>>]
  /\ clients_ = {}
  /\ peer = [c \in Conns |-> "absent"]
  /\ sent = [c \in Conns |-> 0]
  /\ stream = [c \in Conns |-> <<>>]
  /\ relayed = [c \in Conns |-> <<>>]
  /\ writes = [c \in Conns |-> 0]
  /\ cut = {}

-----------------------------------------------------------------------------
(* The peers, the session manager and the reactor. *)

\* The client is accepted under an id that is free; its peer may have left by then.
Join(c) ==
  /\ peer[c] = "absent" /\ \A d \in clients_ : Id[d] # Id[c]
  /\ \E state \in {"connected", "closed"} : peer' = [peer EXCEPT ![c] = state]
  /\ clients_' = clients_ \cup {c}
  /\ UNCHANGED <<hostVars, io, ready, reads, sent, stream, relayed, writes, cut>>

PeerSends(c) ==
  /\ peer[c] = "connected" /\ sent[c] < 2 * MaxLines[c]
  /\ sent' = [sent EXCEPT ![c] = @ + 1]
  /\ stream' = [stream EXCEPT ![c] = Append(@, sent[c] + 1)]
  /\ UNCHANGED <<hostVars, io, ready, reads, clients_, peer, relayed, writes, cut>>

PeerCloses(c) ==
  /\ peer[c] = "connected"
  /\ peer' = [peer EXCEPT ![c] = "closed"]
  /\ UNCHANGED <<hostVars, io, ready, reads, clients_, sent, stream, relayed, writes, cut>>

\* The oldest read takes what there is, or as much of it as it has room for.
ReadSome(c) ==
  /\ c \in clients_ /\ reads[c] # <<>> /\ stream[c] # <<>>
  /\ \E n \in 1 .. Len(stream[c]) :
       LET buffer == Head(reads[c]) \o SubSeq(stream[c], 1, n)
       IN /\ stream' = [stream EXCEPT ![c] = SubSeq(@, n + 1, Len(@))]
          /\ ready' = Append(ready, ReadDone(c, buffer, FALSE))
          /\ cut' = IF EndsLine(buffer[Len(buffer)]) THEN cut ELSE cut \cup {c}
  /\ reads' = [reads EXCEPT ![c] = Tail(@)]
  /\ UNCHANGED <<hostVars, io, clients_, peerVars, relayed, writes>>

\* Every outstanding read of c completes with an error, in order.
Failures(c) ==
  [i \in DOMAIN reads[c] |-> ReadDone(c, reads[c][i], TRUE)]

\* End of file: all the reads that wait see it.
ReadsEnd(c) ==
  /\ c \in clients_ /\ reads[c] # <<>>
  /\ peer[c] = "closed" /\ stream[c] = <<>>
  /\ ready' = ready \o Failures(c)
  /\ reads' = [reads EXCEPT ![c] = <<>>]
  /\ UNCHANGED <<hostVars, io, clients_, peerVars, stream, relayed, writes, cut>>

-----------------------------------------------------------------------------
(* work. *)

\* Mutant: the loop goes on only while there is somebody to read from.
work_with_clients(queue) ==
  /\ reads' = [c \in Conns |-> IF c \in clients_ /\ Len(reads[c]) < MaxReads[c]
                                 THEN Append(reads[c], <<>>) ELSE reads[c]]
  /\ ready' = IF clients_ = {} THEN queue ELSE Append(queue, Work)
  /\ UNCHANGED <<clients_, peerVars, stream, relayed, writes, cut, started, starts>>

\* Mutant: a round reads from one client only.
work_one(queue) ==
  /\ \E d \in Conns :
       reads' = [c \in Conns |-> IF c = d /\ c \in clients_ /\ Len(reads[c]) < MaxReads[c]
                                   THEN Append(reads[c], <<>>) ELSE reads[c]]
  /\ ready' = Append(queue, Work)
  /\ UNCHANGED <<clients_, peerVars, stream, relayed, writes, cut, started, starts>>

\* Mutant: the next round goes before whatever is ready.
work_first(queue) ==
  /\ reads' = [c \in Conns |-> IF c \in clients_ /\ Len(reads[c]) < MaxReads[c]
                                 THEN Append(reads[c], <<>>) ELSE reads[c]]
  /\ ready' = <<Work>> \o queue
  /\ UNCHANGED <<clients_, peerVars, stream, relayed, writes, cut, started, starts>>

\* The critical section: a read for every client, and the timer whose aborted
\* wait calls work again, behind what is in queue.
work(queue) ==
  /\ reads' = [c \in Conns |-> IF c \in clients_ /\ Len(reads[c]) < MaxReads[c]
                                 THEN Append(reads[c], <<>>) ELSE reads[c]]
  /\ ready' = Append(queue, Work)
  /\ UNCHANGED <<clients_, peerVars, stream, relayed, writes, cut, started, starts>>

-----------------------------------------------------------------------------
(* start and stop, in a host thread.  What finds the flag as it wants it logs *)
(* and returns.                                                               *)

HostGoes(h, from, to) ==
  /\ host[h] = from
  /\ host' = [host EXCEPT ![h] = to]

StartLoads(h) ==
  /\ HostGoes(h, "idle", "start")
  /\ ~started /\ starts < MaxStarts
  /\ starts' = starts + 1
  /\ UNCHANGED <<started, io, ready, reads, clients_, peerVars, stream, relayed, writes, cut>>

StartStores(h) ==
  /\ HostGoes(h, "start", "work")
  /\ started' = TRUE
  /\ UNCHANGED <<starts, io, ready, reads, clients_, peerVars, stream, relayed, writes, cut>>

\* start's work() reads the flag.
StartCallsWork(h) ==
  /\ HostGoes(h, "work", IF started THEN "looping" ELSE "idle")
  /\ UNCHANGED <<started, starts, io, ready, reads, clients_, peerVars, stream,
                 relayed, writes, cut>>

StartWorks(h) ==
  /\ HostGoes(h, "looping", "idle")
  /\ work(ready)
  /\ UNCHANGED io

StopLoads(h) ==
  /\ HostGoes(h, "idle", "stop")
  /\ started
  /\ UNCHANGED <<started, starts, io, ready, reads, clients_, peerVars, stream,
                 relayed, writes, cut>>

\* Mutant: stop() cancels the reads.
StopStores_cancels(h) ==
  /\ HostGoes(h, "stop", "idle")
  /\ started' = FALSE
  /\ \E c \in Conns :
       /\ ready' = ready \o Failures(c)
       /\ reads' = [reads EXCEPT ![c] = <<>>]
  /\ UNCHANGED <<starts, io, clients_, peerVars, stream, relayed, writes, cut>>

StopStores(h) ==
  /\ HostGoes(h, "stop", "idle")
  /\ started' = FALSE
  /\ UNCHANGED <<starts, io, ready, reads, clients_, peerVars, stream, relayed, writes, cut>>

-----------------------------------------------------------------------------
(* The io thread. *)

Runs(op) == io = "idle" /\ ready # <<>> /\ Head(ready).op = op

\* The timer's handler: work() reads the flag.
HandleTimer ==
  /\ Runs("work")
  /\ io' = IF started THEN "looping" ELSE "idle"
  /\ ready' = Tail(ready)
  /\ UNCHANGED <<hostVars, reads, clients_, peerVars, stream, relayed, writes, cut>>

IoWorks ==
  /\ io = "looping"
  /\ io' = "idle"
  /\ work(ready)
  /\ UNCHANGED host

\* Where the first line of a buffer ends; no place when it does not.
FirstEnd(buffer) ==
  {i \in DOMAIN buffer :
     EndsLine(buffer[i]) /\ \A j \in 1 .. i - 1 : ~EndsLine(buffer[j])}

\* No newline yet: the read goes on, behind the client's other reads, or fails
\* at once when the client was removed meanwhile.
HandlePartial ==
  /\ Runs("message")
  /\ LET r == Head(ready)
         c == r.conn
     IN /\ ~r.failed /\ FirstEnd(r.buffer) = {}
        /\ \/ /\ c \in clients_
              /\ reads' = [reads EXCEPT ![c] = Append(@, r.buffer)]
              /\ ready' = Tail(ready)
           \/ /\ c \notin clients_
              /\ ready' = Append(Tail(ready), ReadDone(c, r.buffer, TRUE))
              /\ UNCHANGED reads
  /\ UNCHANGED <<hostVars, io, clients_, peerVars, stream, relayed, writes, cut>>

\* Mutant: the newline stays in the message, and do_send adds one (piece 0).
HandleLine_newline ==
  /\ Runs("message")
  /\ LET r == Head(ready)
     IN /\ ~r.failed
        /\ \E n \in FirstEnd(r.buffer) :
             relayed' = [relayed EXCEPT
               ![r.conn] = Append(@, SubSeq(r.buffer, 1, n) \o <<0>>)]
  /\ ready' = Tail(ready)
  /\ UNCHANGED <<hostVars, io, reads, clients_, peerVars, stream, writes, cut>>

\* Mutant: the handler reads on with the same buffer, and has not consumed it.
HandleLine_rereads ==
  /\ Runs("message")
  /\ LET r == Head(ready)
     IN /\ ~r.failed
        /\ \E n \in FirstEnd(r.buffer) :
             relayed' = [relayed EXCEPT ![r.conn] = Append(@, SubSeq(r.buffer, 1, n))]
        /\ reads' = [reads EXCEPT ![r.conn] = Append(@, r.buffer)]
  /\ ready' = Tail(ready)
  /\ UNCHANGED <<hostVars, io, clients_, peerVars, stream, writes, cut>>

\* Mutant: the handler posts the next read itself.
HandleLine_rearms ==
  /\ Runs("message")
  /\ LET r == Head(ready)
     IN /\ ~r.failed
        /\ \E n \in FirstEnd(r.buffer) :
             relayed' = [relayed EXCEPT ![r.conn] = Append(@, SubSeq(r.buffer, 1, n))]
        /\ reads' = IF r.conn \in clients_
                      THEN [reads EXCEPT ![r.conn] = Append(@, <<>>)] ELSE reads
  /\ ready' = Tail(ready)
  /\ UNCHANGED <<hostVars, io, clients_, peerVars, stream, writes, cut>>

\* Mutant: the handler calls work() to read on.
HandleLine_works ==
  /\ Runs("message")
  /\ LET r == Head(ready)
     IN /\ ~r.failed
        /\ \E n \in FirstEnd(r.buffer) :
             relayed' = [relayed EXCEPT ![r.conn] = Append(@, SubSeq(r.buffer, 1, n))]
  /\ ready' = Append(Tail(ready), Work)
  /\ UNCHANGED <<hostVars, io, reads, clients_, peerVars, stream, writes, cut>>

\* do_send's writes: one to every client that has another id than the sender.
SendTo(sender) ==
  writes' = [c \in Conns |-> IF c \in clients_ /\ Id[c] # Id[sender]
                               THEN writes[c] + 1 ELSE writes[c]]

\* getline and do_send: the first line is relayed to the other clients; the rest
\* of the buffer is gone.
HandleLine ==
  /\ Runs("message")
  /\ LET r == Head(ready)
     IN /\ ~r.failed
        /\ \E n \in FirstEnd(r.buffer) :
             relayed' = [relayed EXCEPT ![r.conn] = Append(@, SubSeq(r.buffer, 1, n))]
        /\ SendTo(r.conn)
  /\ ready' = Tail(ready)
  /\ UNCHANGED <<hostVars, io, reads, clients_, peerVars, stream, cut>>

\* Whoever has the id; closing the socket aborts the client's other reads, whose
\* handlers queue up behind queue.
remove_client(id, queue) ==
  \/ \E c \in clients_ :
       /\ Id[c] = id
       /\ clients_' = clients_ \ {c}
       /\ ready' = queue \o Failures(c)
       /\ reads' = [reads EXCEPT ![c] = <<>>]
  \/ /\ \A c \in clients_ : Id[c] # id
     /\ ready' = queue
     /\ UNCHANGED <<clients_, reads>>

\* Mutant: the client stays.
HandleReadError_keeps ==
  /\ Runs("message")
  /\ Head(ready).failed
  /\ ready' = Tail(ready)
  /\ UNCHANGED <<hostVars, io, reads, clients_, peerVars, stream, relayed, writes, cut>>

\* Mutant: the client's other reads are not aborted.
HandleReadError_reads_on ==
  /\ Runs("message")
  /\ Head(ready).failed
  /\ clients_' = clients_ \ {Head(ready).conn}
  /\ ready' = Tail(ready)
  /\ UNCHANGED <<hostVars, io, reads, peerVars, stream, relayed, writes, cut>>

\* Mutant: the error is not looked at.
HandleReadError_unchecked ==
  /\ Runs("message")
  /\ remove_client(Id[Head(ready).conn], Tail(ready))
  /\ UNCHANGED <<hostVars, io, peerVars, stream, relayed, writes, cut>>

\* The handler removes by the id that was the client's when its read was posted.
HandleReadError ==
  /\ Runs("message")
  /\ Head(ready).failed
  /\ remove_client(Id[Head(ready).conn], Tail(ready))
  /\ UNCHANGED <<hostVars, io, peerVars, stream, relayed, writes, cut>>

\* A write ends, and its handler runs, in one step: between the other handlers,
\* in any order with them.
Writes(c) ==
  /\ io = "idle" /\ writes[c] > 0
  /\ writes' = [writes EXCEPT ![c] = @ - 1]
  /\ UNCHANGED <<hostVars, io, peerVars, stream, relayed, cut>>

\* The system took the bytes: the handler does nothing.
WriteEnds(c) ==
  /\ Writes(c)
  /\ UNCHANGED <<clients_, ready, reads>>

\* The peer has left, or remove_client has closed the socket.
Gone(c) == peer[c] = "closed" \/ (peer[c] # "absent" /\ c \notin clients_)

\* The handler passes the login where remove_client wants the id.
WriteFails(c) ==
  /\ Writes(c)
  /\ Gone(c)
  /\ remove_client(Login[c], ready)

-----------------------------------------------------------------------------

IoThread == HandleTimer \/ IoWorks \/ HandlePartial \/ HandleLine \/ HandleReadError

\* What a host thread does inside a call.
HostGoesOn(h) == StartStores(h) \/ StartCallsWork(h) \/ StartWorks(h) \/ StopStores(h)

Next ==
  \/ \E c \in Conns :
       Join(c) \/ PeerSends(c) \/ PeerCloses(c) \/ ReadSome(c) \/ ReadsEnd(c)
  \/ \E c \in Conns : WriteEnds(c) \/ WriteFails(c)
  \/ \E h \in Hosts : StartLoads(h) \/ StopLoads(h) \/ HostGoesOn(h)
  \/ IoThread

Spec == Init /\ [][Next]_vars

\* Threads go on with what they are doing, and the reactor reports what a read
\* waits for, and the end of a write to who is gone, whose handler the io thread
\* reaches behind what is ready.  Peers send and leave, and hosts call, as they like.
FairSpec ==
  /\ Spec
  /\ WF_vars(IoThread)
  /\ \A h \in Hosts : WF_vars(HostGoesOn(h))
  /\ \A c \in Conns :
       /\ WF_vars(ReadSome(c)) /\ WF_vars(ReadsEnd(c))
       /\ SF_vars(Gone(c) /\ (WriteEnds(c) \/ WriteFails(c)))

-----------------------------------------------------------------------------
(* Properties. *)

\* Type invariant.
TypeOK ==
  /\ started \in BOOLEAN
  /\ host \in [Hosts -> {"idle", "start", "work", "looping", "stop"}]
  /\ starts \in 0 .. MaxStarts
  /\ io \in {"idle", "looping"}
  /\ ready \in Seq(Handler)
  /\ reads \in [Conns -> Seq(Seq(Piece))]
  /\ clients_ \subseteq Conns /\ cut \subseteq Conns
  /\ peer \in [Conns -> {"absent", "connected", "closed"}]
  /\ sent \in [Conns -> Nat] /\ \A c \in Conns : sent[c] <= 2 * MaxLines[c]
  /\ stream \in [Conns -> Seq(Piece)]
  /\ relayed \in [Conns -> Seq(Seq(Piece))]
  /\ writes \in [Conns -> Nat]

\* The runs of work() that are due or under way.
QueuedWork == {i \in DOMAIN ready : ready[i] = Work}
Starters == {h \in Hosts : host[h] \in {"start", "work", "looping"}}
Loops == Cardinality(QueuedWork) + (IF io = "looping" THEN 1 ELSE 0)

\* While the chat is started its loop is alive, or the call that started it is
\* about to begin it, however start, stop and the timer's handler interleave.
LoopAlive ==
  started =>
    \/ QueuedWork # {} \/ io = "looping"
    \/ \E h \in Hosts : host[h] \in {"work", "looping"}

\* Stopping and starting again before the old loop has ended makes two loops, but
\* there are never more than calls that found the chat stopped.
LoopsBounded == Loops + Cardinality(Starters) <= starts

\* The completed reads of c whose handlers have not run.
ReadyReads(c) == {i \in DOMAIN ready : ready[i] # Work /\ ready[i].conn = c}

ReadsOf(c) == Len(reads[c]) + Cardinality(ReadyReads(c))

\* However many reads wait on a socket, no piece is relayed twice, and none that
\* is relayed is still in the buffer of a read (do_read gives each its own).
PiecesOnce ==
  \A c \in Conns :
    LET used(i) == {relayed[c][i][j] : j \in DOMAIN relayed[c][i]}
        held == UNION ({{reads[c][i][j] : j \in DOMAIN reads[c][i]} : i \in DOMAIN reads[c]}
                       \cup {{ready[i].buffer[j] : j \in DOMAIN ready[i].buffer} :
                               i \in ReadyReads(c)})
    IN /\ \A i, k \in DOMAIN relayed[c] : i # k => used(i) \cap used(k) = {}
       /\ \A i \in DOMAIN relayed[c] : used(i) \cap held = {}

\* As long as no read of a client ended inside a line, what is relayed are whole
\* lines in the order in which they were sent, though some may be missing.
WholeLines ==
  \A c \in Conns \ cut :
    /\ \A i \in DOMAIN relayed[c] :
         \E n \in 1 .. MaxLines[c] : relayed[c][i] = <<2 * n - 1, 2 * n>>
    /\ \A i, k \in DOMAIN relayed[c] : i < k => relayed[c][i][1] < relayed[c][k][1]

\* A name stands for one client: ids do not come up twice, and no login is an id.
OwnNames == \A c, d \in Conns : (Id[c] = Id[d] => c = d) /\ Login[c] # Id[d]

\* A read fails only for who is gone, be it at the end of file, by remove_client's
\* close, or by going on after it; no two clients have the same id; and where a name
\* stands for one client, who is accepted is among the clients until its peer leaves.
ErrorsMeanGone ==
  /\ \A c \in Conns :
       /\ c \in clients_ => peer[c] # "absent"
       /\ OwnNames /\ peer[c] = "connected" => c \in clients_
       /\ reads[c] # <<>> => c \in clients_
       /\ writes[c] > 0 => peer[c] # "absent"
  /\ \A c, d \in clients_ : Id[c] = Id[d] => c = d
  /\ \A i \in DOMAIN ready :
       ready[i] # Work =>
         /\ peer[ready[i].conn] # "absent"
         /\ ready[i].failed => Gone(ready[i].conn)

\* A client is removed only by a failed read or write of a connection that has its
\* name and whose peer has left, or that was removed itself: neither stop() nor the
\* aborted reads of others cost anybody the membership.
OnlyLeaversRemoved ==
  [][\A c \in clients_ \ clients_' :
       \E d \in Conns : Gone(d) /\ Id[c] \in {Id[d], Login[d]}]_vars

\* remove_client "removes those who have disconnected" (Session.hpp:23): that is so
\* where a name stands for one client, and only there.
RemovesTheDisconnected ==
  [][\A c \in clients_ \ clients_' : peer[c] = "closed"]_vars

\* Once the chat is stopped and its loop has ended no read is posted, and every
\* one that is left relays at most one more line.
StopEnds ==
  [][~started /\ Loops = 0 /\ Starters = {} =>
       \A c \in Conns :
         (ReadsOf(c) + Len(relayed[c]))' <= ReadsOf(c) + Len(relayed[c])]_vars

\* As long as the chat stays started, what a client sends is read.
ClientsAreHeard ==
  <>[]started =>
    \A c \in Conns : (c \in clients_ /\ stream[c] # <<>>) ~> (c \notin clients_ \/ stream[c] = <<>>)

\* As long as the chat stays started, a client that left is removed, and every
\* read and write that was posted for it comes to its end.
LeaversGo ==
  <>[]started =>
    \A c \in Conns :
      (peer[c] = "closed") ~> (c \notin clients_ /\ ReadsOf(c) = 0 /\ writes[c] = 0)

=============================================================================
