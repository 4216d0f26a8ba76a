----------------------------- MODULE TCPServer -----------------------------
(***************************************************************************)
(* The acceptor of TCPServer on the io_context of Session: start, the      *)
(* accept handler that re-arms itself, the header read it starts, stop,    *)
(* and the thread that runs ioc_.run().                                    *)
(*                                                                         *)
(* ready is the io_context's queue of completed operations, in the order   *)
(* in which run() calls their handlers.  run() returns, for good, when no  *)
(* operation is outstanding.  What a header read leads to is               *)
(* ClientSessionManager's subject: here the connection is kept or closed.  *)
(***************************************************************************)
EXTENDS Naturals, Sequences, FiniteSets

CONSTANTS
  Conns,      \* TCP connections, each used once
  NoConn,     \* a socket that async_accept did not open
  Files,      \* how many connections the process has descriptors for
  RunsFirst,  \* TRUE: the io thread is spawned before start(), as in the examples
  MayStop     \* whether the host ever calls stop()

ASSUME ServerAssumption ==
  /\ NoConn \notin Conns
  /\ Files \in Nat
  /\ RunsFirst \in BOOLEAN
  /\ MayStop \in BOOLEAN

\* A completed operation.  An accept failed iff its socket is NoConn; a read on
\* such a socket has failed, any other has its outcome in the connection.
Handler == [op : {"accept", "read"}, socket : Conns \cup {NoConn}]

VARIABLES
  started,   \* start() has called do_accept
  acceptor,  \* constructed listening; closed by stop()
  armed,     \* an accept waits in the reactor
  run,       \* the io thread: before, in, or back from ioc_.run()
  ready,     \* completed operations whose handlers have not run
  conn       \* each connection's way through the server

vars == <<started, acceptor, armed, run, ready, conn>>

\* absent, in the kernel's accept queue, accepted with its handler in ready,
\* header read outstanding, header read completed with its handler in ready,
\* kept by the session manager, closed.
ConnStates == {"absent", "queued", "accepted", "reading", "read", "kept", "closed"}

In(state) == {c \in Conns : conn[c] = state}

\* Connections that hold a descriptor of the process.
Opened == In("accepted") \cup In("reading") \cup In("read") \cup In("kept")

Outstanding == armed \/ ready # <<>> \/ In("reading") # {}

Init ==
  /\ started = FALSE
  /\ acceptor = "listening"
  /\ armed = FALSE
  /\ run = "before"
  /\ ready = <<>>
  /\ conn = [c \in Conns |-> "absent"]

-----------------------------------------------------------------------------
(* The peers and the kernel. *)

Connect(c) ==
  /\ acceptor = "listening"
  /\ conn[c] = "absent"
  /\ conn' = [conn EXCEPT ![c] = "queued"]
  /\ UNCHANGED <<started, acceptor, armed, run, ready>>

\* A queued connection makes the acceptor readable: accept takes it or, without
\* a descriptor for it, fails and leaves it queued.
AcceptCompletes(c) ==
  /\ armed /\ run = "running"
  /\ conn[c] = "queued"
  /\ armed' = FALSE
  /\ \/ /\ Cardinality(Opened) < Files
        /\ conn' = [conn EXCEPT ![c] = "accepted"]
        /\ ready' = Append(ready, [op |-> "accept", socket |-> c])
     \/ /\ Cardinality(Opened) >= Files
        /\ ready' = Append(ready, [op |-> "accept", socket |-> NoConn])
        /\ UNCHANGED conn
  /\ UNCHANGED <<started, acceptor, run>>

\* The header is complete, or the peer is gone before it is.
ReadCompletes(c) ==
  /\ run = "running"
  /\ conn[c] = "reading"
  /\ conn' = [conn EXCEPT ![c] = "read"]
  /\ ready' = Append(ready, [op |-> "read", socket |-> c])
  /\ UNCHANGED <<started, acceptor, armed, run>>

\* The session manager closes connections that it kept, in one critical section:
\* one that remove_client is called for, or those that access_wait_clients finds dead.
Release(S) ==
  /\ conn' = [c \in Conns |-> IF c \in S THEN "closed" ELSE conn[c]]
  /\ UNCHANGED <<started, acceptor, armed, run, ready>>

-----------------------------------------------------------------------------
(* The host's program. *)

\* async_accept: it waits in the reactor, or fails at once on a closed acceptor.
\* The failure is queued behind what is in queue.
do_accept(queue) ==
  \/ /\ acceptor = "listening"
     /\ armed' = TRUE
     /\ ready' = queue
  \/ /\ acceptor = "closed"
     /\ ready' = Append(queue, [op |-> "accept", socket |-> NoConn])
     /\ UNCHANGED armed

start ==
  /\ ~started /\ acceptor = "listening"
  /\ started' = TRUE
  /\ do_accept(ready)
  /\ UNCHANGED <<acceptor, run, conn>>

\* Mutant: the accept that waits is not cancelled.
stop_leaves_accept ==
  /\ MayStop
  /\ started /\ acceptor = "listening"
  /\ acceptor' = "closed"
  /\ UNCHANGED <<started, armed, run, ready, conn>>

\* Mutant: the aborted accept completes as an operation of another kind.
stop_posts_close ==
  /\ MayStop
  /\ started /\ acceptor = "listening"
  /\ acceptor' = "closed"
  /\ conn' = [c \in Conns |-> IF conn[c] = "queued" THEN "closed" ELSE conn[c]]
  /\ armed' = FALSE
  /\ ready' = Append(ready, [op |-> "close", socket |-> NoConn])
  /\ UNCHANGED <<started, run>>

\* Mutant: stop() closes the sockets that were accepted but not read, too.
stop_closes_accepted ==
  /\ MayStop
  /\ started /\ acceptor = "listening"
  /\ acceptor' = "closed"
  /\ conn' = [c \in Conns |-> IF conn[c] \in {"queued", "accepted"} THEN "closed"
                                                                   ELSE conn[c]]
  /\ armed' = FALSE
  /\ ready' = IF armed THEN Append(ready, [op |-> "accept", socket |-> NoConn])
                       ELSE ready
  /\ UNCHANGED <<started, run>>

\* acceptor.close(): the waiting accept is aborted, the kernel's queue is reset.
stop ==
  /\ MayStop
  /\ started /\ acceptor = "listening"
  /\ acceptor' = "closed"
  /\ conn' = [c \in Conns |-> IF conn[c] = "queued" THEN "closed" ELSE conn[c]]
  /\ armed' = FALSE
  /\ ready' = IF armed THEN Append(ready, [op |-> "accept", socket |-> NoConn])
                       ELSE ready
  /\ UNCHANGED <<started, run>>

-----------------------------------------------------------------------------
(* The io thread. *)

\* ioc_.run(), called once.
RunBegins ==
  /\ run = "before"
  /\ RunsFirst \/ started
  /\ run' = "running"
  /\ UNCHANGED <<started, acceptor, armed, ready, conn>>

\* Without work run() returns: at once when it finds none, or when it has done all.
RunReturns ==
  /\ run = "running"
  /\ ~Outstanding
  /\ run' = "returned"
  /\ UNCHANGED <<started, acceptor, armed, ready, conn>>

\* run() calls the handler at the head of the queue.
Runs(op, S) ==
  /\ run = "running" /\ ready # <<>>
  /\ Head(ready).op = op /\ Head(ready).socket \in S
  /\ UNCHANGED <<started, acceptor, run>>

\* Mutant: the handler does not accept again.
HandleAccept_once ==
  /\ Runs("accept", Conns)
  /\ conn' = [conn EXCEPT ![Head(ready).socket] = "reading"]
  /\ ready' = Tail(ready)
  /\ UNCHANGED armed

\* do_accept's handler: on_client_connected starts the header read, and the
\* next accept is armed.
HandleAccept ==
  /\ Runs("accept", Conns)
  /\ conn' = [conn EXCEPT ![Head(ready).socket] = "reading"]
  /\ do_accept(Tail(ready))

\* Mutant: as a handler that returns on an error would be.
HandleAcceptError_returns ==
  /\ Runs("accept", {NoConn})
  /\ ready' = Tail(ready)
  /\ UNCHANGED <<armed, conn>>

\* After an error the handler goes on as after a success: the read of a socket
\* that was never opened fails at once, and the next accept is armed.
HandleAcceptError ==
  /\ Runs("accept", {NoConn})
  /\ do_accept(Append(Tail(ready), [op |-> "read", socket |-> NoConn]))
  /\ UNCHANGED conn

HandleReadError ==
  /\ Runs("read", {NoConn})
  /\ ready' = Tail(ready)
  /\ UNCHANGED <<armed, conn>>

\* The connection is refused, or its read failed; or the manager keeps it.
HandleRead ==
  /\ Runs("read", Conns)
  /\ \E next \in {"kept", "closed"} : conn' = [conn EXCEPT ![Head(ready).socket] = next]
  /\ ready' = Tail(ready)
  /\ UNCHANGED armed

-----------------------------------------------------------------------------

IoThread ==
  \/ RunBegins \/ RunReturns
  \/ HandleAccept \/ HandleAcceptError \/ HandleReadError \/ HandleRead

Next ==
  \/ \E c \in Conns : Connect(c) \/ AcceptCompletes(c) \/ ReadCompletes(c)
  \/ \E S \in SUBSET In("kept") : Release(S)
  \/ start \/ stop
  \/ IoThread

Spec == Init /\ [][Next]_vars

\* The main thread reaches start(), the io thread runs what is ready, and the
\* reactor reports a readable acceptor.  Peers and the host are free.
FairSpec ==
  /\ Spec
  /\ WF_vars(start) /\ WF_vars(IoThread)
  /\ WF_vars(\E c \in Conns : AcceptCompletes(c))

-----------------------------------------------------------------------------
(* Properties. *)

HandlersOf(op, c) == {i \in DOMAIN ready : ready[i] = [op |-> op, socket |-> c]}

AcceptHandlers == {i \in DOMAIN ready : ready[i].op = "accept"}

\* Type invariant.
TypeOK ==
  /\ started \in BOOLEAN
  /\ acceptor \in {"listening", "closed"}
  /\ armed \in BOOLEAN
  /\ run \in {"before", "running", "returned"}
  /\ ready \in Seq(Handler)
  /\ conn \in [Conns -> ConnStates]

\* Between two handlers exactly one accept is outstanding, from start() on and
\* whatever fails: never none (the server would be deaf) and never two.
OneAccept ==
  /\ \A i, j \in AcceptHandlers : i = j
  /\ armed => started /\ acceptor = "listening" /\ AcceptHandlers = {}
  /\ started => armed \/ AcceptHandlers # {}
  /\ AcceptHandlers # {} => started

\* Every connection that was taken from the kernel has one handler to come, for
\* its current step, or one read outstanding: none is forgotten or read twice.
\* And the handlers that spin on errors do not pile up: at most two are queued
\* that do not belong to a connection, whatever fails.
HandlerForEach ==
  /\ \A c \in Conns :
       /\ Cardinality(HandlersOf("accept", c)) = IF conn[c] = "accepted" THEN 1 ELSE 0
       /\ Cardinality(HandlersOf("read", c)) = IF conn[c] = "read" THEN 1 ELSE 0
  /\ Cardinality({i \in DOMAIN ready : ready[i].socket = NoConn}) <= 2

\* stop() closes the acceptor and nothing else: the sockets of clients stay open,
\* although TCPServer.hpp says that it closes the sockets.  What does hold is that
\* from then on the server takes nobody in: its intake ends with the one connection,
\* at most, that the kernel had accepted and whose handler is to come.
IntakeEnds ==
  [][acceptor = "closed" =>
       /\ In("reading")' \subseteq In("reading") \cup In("accepted")
       /\ Cardinality(In("accepted")) <= 1
       /\ In("accepted")' \subseteq In("accepted")]_vars

\* When descriptors are free from some time on and run() has not returned, every
\* connection in the kernel's queue is taken: a failed accept is always tried again.
QueuedAreTaken ==
  <>[](Cardinality(Opened) < Files /\ run = "running") =>
    \A c \in Conns : (conn[c] = "queued") ~> (conn[c] # "queued")

-----------------------------------------------------------------------------
(* What a comment says, and the code does not do. *)

\* tcp_server_example.cpp: after start() the server has started successfully.
\* A connection that then arrives is taken.
StartedServes ==
  \A c \in Conns : (started /\ conn[c] = "queued") ~> (conn[c] # "queued")

=============================================================================
