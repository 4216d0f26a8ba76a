------------------------------ MODULE KuroNet ------------------------------
(***************************************************************************)
(* The server as chat_example.cpp puts it together: the acceptor           *)
(* (TCPServer), the session manager (ClientSessionManager) and the chat    *)
(* (Chat) on one io_context, with a command thread and threads that start  *)
(* and stop the chat.                                                      *)
(*                                                                         *)
(* The components share the io_context's queue (ready), on which accepts,  *)
(* header reads, chat reads and the chat's timer wait for the one io       *)
(* thread; the sockets, whose state every component sees; and the          *)
(* accepted clients, which the chat reads from and removes.  A step of     *)
(* the system is a step of the components that take part in it, all at     *)
(* once, and the other components stutter.                                 *)
(*                                                                         *)
(* Connections are numbered in the order in which they reach the kernel.   *)
(* Ids do not collide here and no login is an id (ClientSessionManager and *)
(* Chat let them), so a client's id is its connection and a failed write   *)
(* finds nobody to remove; a peer writes nothing between its header and    *)
(* its approval (ClientSessionManager lets it).                            *)
(***************************************************************************)
EXTENDS Naturals, Sequences, FiniteSets

CONSTANTS
  Conns, NoConn, Files, RunsFirst, MayStop,               \* of TCPServer
  Tokens, NoToken, NoClient, Requests, NoRequest,         \* of ClientSessionManager
  Hosts, MaxLines, MaxReads, MaxStarts                    \* of Chat

VARIABLES
  started, acceptor, armed, run, conn,                    \* of TCPServer
  clients_, wait_clients_, active_tokens_,                \* of ClientSessionManager
  name, command, process, peer, header, told,
  chatting,                                               \* Chat::started
  host, starts, io, reads, sent, stream, relayed, writes, cut,  \* of Chat
  ready                                                   \* the io_context's queue

serverVars  == <<started, acceptor, armed, run, conn>>
sessionVars == <<clients_, wait_clients_, active_tokens_, name, command, process,
                 peer, header, told>>
chatVars    == <<chatting, host, starts, io, reads, sent, stream, relayed, writes, cut>>
vars == <<serverVars, sessionVars, chatVars, ready>>

-----------------------------------------------------------------------------
(* How the components see what they share. *)

Server == INSTANCE TCPServer

\* The session manager sees a connection from on_client_connected on.
Socket(c) ==
  CASE peer[c] = "absent" -> "none"
    [] conn[c] \in {"reading", "read", "kept"} -> "open"
    [] OTHER -> "closed"

Sessions == INSTANCE ClientSessionManager WITH
  Ids      <- Conns,
  NoId     <- NoConn,
  FreshIds <- TRUE,
  Logins   <- {},
  socket   <- [c \in Conns |-> Socket(c)],
  reading  <- Server!In("reading") \cup Server!In("read"),
  inbox    <- {}

Members == Sessions!SocketsOf(clients_)
Waiting == Sessions!SocketsOf(wait_clients_)

\* The chat sees a connection from its approval on.
Approved(c) == told[c] # <<>> /\ Head(told[c]) \in {"approved", "auto_approved"}

Talk == INSTANCE Chat WITH
  Names    <- Conns \cup {NoConn},
  Id       <- [c \in Conns |-> c],
  Login    <- [c \in Conns |-> NoConn],
  started  <- chatting,
  clients_ <- Members,
  peer     <- [c \in Conns |-> IF Approved(c) THEN peer[c] ELSE "absent"]

\* Connections are numbers; what the components assume of their constants.
ASSUME KuroNetAssumption ==
  /\ Conns \subseteq Nat /\ NoConn \notin Conns
  /\ Files \in Nat /\ RunsFirst \in BOOLEAN /\ MayStop \in BOOLEAN
  /\ NoToken \notin Tokens /\ NoClient \notin Sessions!Client
  /\ Requests \subseteq Sessions!Request /\ NoRequest \notin Sessions!Request
  /\ MaxLines \in [Conns -> Nat] /\ MaxReads \in [Conns -> Nat \ {0}]
  /\ MaxStarts \in Nat

Init ==
  /\ started = FALSE /\ acceptor = "listening" /\ armed = FALSE /\ run = "before"
  /\ conn = [c \in Conns |-> "absent"]
  /\ clients_ = Sessions!EmptyMap /\ wait_clients_ = Sessions!EmptyMap
  /\ active_tokens_ = {} /\ name = [c \in Conns |-> NoConn]
  /\ command = Sessions!Idle /\ process = "running"
  /\ peer = [c \in Conns |-> "absent"]
  /\ header = [c \in Conns |-> NoRequest]
  /\ told = [c \in Conns |-> <<>>]
  /\ chatting = FALSE /\ host = [h \in Hosts |-> "idle"] /\ starts = 0
  /\ io = "idle" /\ ready = <<>>
  /\ reads = [c \in Conns |-> <<>>] /\ sent = [c \in Conns |-> 0]
  /\ stream = [c \in Conns |-> <<>>] /\ relayed = [c \in Conns |-> <<>>]
  /\ writes = [c \in Conns |-> 0] /\ cut = {}

-----------------------------------------------------------------------------
(* Steps of one component. *)

Running == process = "running"

ServerAlone  == Running /\ UNCHANGED <<sessionVars, chatVars>>
SessionAlone == Running /\ UNCHANGED <<serverVars, chatVars, ready>>
ChatAlone    == Running /\ UNCHANGED <<serverVars, sessionVars>>

PeerStep ==
  \E c \in Conns :
    \/ /\ ServerAlone
       /\ \A d \in Conns : d < c => conn[d] # "absent"
       /\ Server!Connect(c)
    \/ SessionAlone /\ UNCHANGED <<process, peer>> /\ Sessions!PeerSendHeader(c)
    \/ SessionAlone /\ UNCHANGED process /\ Sessions!PeerClose(c)
    \/ ChatAlone /\ Talk!PeerSends(c)

\* The reactor works as long as the io thread is in run().
AcceptCompletes(c) ==
  /\ ServerAlone
  /\ \A d \in Conns : d < c => conn[d] # "queued"
  /\ Server!AcceptCompletes(c)

HeaderCompletes(c) ==
  /\ ServerAlone
  /\ header[c] # NoRequest \/ peer[c] = "closed"
  /\ Server!ReadCompletes(c)

ReadSome(c) == ChatAlone /\ run = "running" /\ Talk!ReadSome(c)
ReadsEnd(c) == ChatAlone /\ run = "running" /\ Talk!ReadsEnd(c)

\* The main thread and the threads that start and stop the chat.
start == ServerAlone /\ Server!start
stop  == ServerAlone /\ Server!stop

HostCalls(h)  == ChatAlone /\ (Talk!StartLoads(h) \/ Talk!StopLoads(h))
HostGoesOn(h) == ChatAlone /\ Talk!HostGoesOn(h)

-----------------------------------------------------------------------------
(* Steps of several components. *)

\* The manager closes sockets that the acceptor had handed over.
Releases ==
  /\ \E S \in SUBSET Server!In("kept") :
       conn' = [c \in Conns |-> IF c \in S THEN "closed" ELSE conn[c]]
  /\ UNCHANGED <<started, acceptor, armed, run>>

NamedById ==
  \A id \in Conns :
    /\ clients_[id] # NoClient => clients_[id].socket = id
    /\ wait_clients_[id] # NoClient => wait_clients_[id].socket = id

\* The command thread: some commands release sockets.
HostCommands ==
  /\ Running
  /\ process' = process
  /\ Releases
  /\ UNCHANGED <<peer, header, chatVars, ready>>

create_token      == HostCommands /\ \E t \in Tokens : Sessions!create_token(t)
ApproveCheckToken ==
  HostCommands /\ \E c \in Conns, t \in Tokens : Sessions!ApproveCheckToken(c, t)
approve_client    == HostCommands /\ (Sessions!approve_client \/ Sessions!ApproveNotFound)
get_wait_clients  == HostCommands /\ Sessions!get_wait_clients

\* The end of the process is the end of what every component has in memory.
Ends(how) ==
  /\ Running
  /\ process' = how
  /\ conn' = [c \in Conns |-> IF conn[c] = "absent" THEN "absent" ELSE "closed"]
  /\ acceptor' = "closed" /\ armed' = FALSE /\ run' = "returned" /\ ready' = <<>>
  /\ chatting' = FALSE /\ host' = [h \in Hosts |-> "idle"] /\ io' = "idle"
  /\ reads' = [c \in Conns |-> <<>>] /\ writes' = [c \in Conns |-> 0]
  /\ UNCHANGED <<started, peer, header, starts, sent, stream, relayed, cut>>

CommandEnds ==
  \/ Ends("exited") /\ Sessions!Exit
  \/ Ends("command_exception") /\ (Sessions!CreateTokenThrows \/ Sessions!approve_client)

\* The io thread between two handlers; run() returns when the chat, too, has no
\* operation outstanding.
RunBegins == ServerAlone /\ Server!RunBegins

RunReturns ==
  /\ ServerAlone
  /\ io = "idle" /\ \A c \in Conns : reads[c] = <<>> /\ writes[c] = 0
  /\ Server!RunReturns

Handles == Running /\ run = "running" /\ io = "idle" /\ ready # <<>>

HandleAccept ==
  /\ Handles
  /\ Server!HandleAccept
  /\ UNCHANGED <<process, chatVars>>
  /\ \E c \in Conns : Head(ready).socket = c /\ Sessions!Accept(c)

HandleError ==
  /\ Handles /\ ServerAlone
  /\ Server!HandleAcceptError \/ Server!HandleReadError

\* The header's handler: the manager keeps the connection exactly if it keeps
\* the client, and the chat finds it among the clients if it is accepted.
HandleHeader ==
  /\ Handles
  /\ Server!HandleRead
  /\ UNCHANGED <<process, peer, header, chatVars>>
  /\ \E c \in Conns :
       /\ Head(ready).socket = c
       /\ Sessions!HandleHeader(c) \/ Sessions!HeaderReadError(c)
  /\ NamedById'

HeaderThrows ==
  /\ Handles /\ Head(ready).op = "read"
  /\ Ends("io_exception")
  /\ \E c \in Conns : Head(ready).socket = c /\ Sessions!HandleHeader(c)

HandleChat ==
  /\ Handles /\ ChatAlone
  /\ Talk!HandleTimer \/ Talk!HandlePartial \/ Talk!HandleLine

\* remove_client, which the failed reads after the first find nobody for.
HandleReadError ==
  /\ Handles
  /\ Head(ready).op = "message" /\ Head(ready).failed
  /\ UNCHANGED <<process, peer, header, chatting, host, starts, io, sent, stream,
                 relayed, writes, cut>>
  /\ LET c == Head(ready).conn
     IN \/ c \in Members /\ Releases /\ Sessions!remove_client(c)
        \/ c \notin Members /\ UNCHANGED <<serverVars, sessionVars>>
  /\ Talk!HandleReadError

IoWorks == run = "running" /\ ChatAlone /\ Talk!IoWorks

HandleWrite(c) ==
  run = "running" /\ ChatAlone /\ (Talk!WriteEnds(c) \/ Talk!WriteFails(c))

IoThread ==
  \/ RunBegins \/ RunReturns
  \/ HandleAccept \/ HandleError \/ HandleHeader \/ HeaderThrows
  \/ HandleChat \/ HandleReadError \/ IoWorks

CommandThread ==
  \/ create_token \/ ApproveCheckToken \/ approve_client \/ get_wait_clients
  \/ CommandEnds

Next ==
  \/ PeerStep
  \/ \E c \in Conns :
       \/ AcceptCompletes(c) \/ HeaderCompletes(c)
       \/ ReadSome(c) \/ ReadsEnd(c) \/ HandleWrite(c)
  \/ start \/ stop
  \/ \E h \in Hosts : HostCalls(h) \/ HostGoesOn(h)
  \/ IoThread
  \/ CommandThread

Spec == Init /\ [][Next]_vars

\* The io thread runs what is ready, the reactor reports what is there, and the
\* threads go on with the call they are in.  Peers and the host are free.
FairSpec ==
  /\ Spec
  /\ WF_vars(IoThread) /\ WF_vars(start) /\ WF_vars(approve_client)
  /\ WF_vars(\E c \in Conns : AcceptCompletes(c))
  /\ \A c \in Conns :
       WF_vars(HeaderCompletes(c)) /\ WF_vars(ReadSome(c)) /\ WF_vars(ReadsEnd(c))
  /\ \A h \in Hosts : WF_vars(HostGoesOn(h))

-----------------------------------------------------------------------------
(* Properties. *)

\* Type invariant.
TypeOK ==
  /\ Sessions!TypeOK
  /\ started \in BOOLEAN /\ acceptor \in {"listening", "closed"} /\ armed \in BOOLEAN
  /\ run \in {"before", "running", "returned"}
  /\ conn \in [Conns -> Server!ConnStates]
  /\ ready \in Seq(Server!Handler \cup Talk!Handler)
  /\ reads \in [Conns -> Seq(Seq(Talk!Piece))]
  /\ chatting \in BOOLEAN /\ io \in {"idle", "looping"} /\ writes \in [Conns -> Nat]

\* The components agree on every connection as long as the process runs: what
\* the acceptor handed over is waiting or accepted, under one id and with an
\* open socket; the chat reads from accepted clients only; and who was told that
\* it is approved is accepted until it leaves.
OneView ==
  /\ Sessions!OneOwner
  /\ Server!In("kept") = Waiting \cup Members
  /\ \A c \in Conns : reads[c] # <<>> => c \in Members
  /\ \A c \in Conns :
       Running /\ Approved(c) => c \in Members \/ peer[c] = "closed"
  /\ \A i \in DOMAIN ready : ready[i].op = "message" => Approved(ready[i].conn)
  /\ \A c \in Conns : relayed[c] # <<>> => Approved(c)

\* The server as a whole keeps the promises of Admission: nobody becomes a member but
\* through the gate, and nobody is removed whose peer is there, through all that the
\* chat's reads, the manager and the acceptor do on the one io thread.
ImplementsAdmission == Sessions!ImplementsAdmission

\* A header that arrived is handled, and so is a peer that left before it sent
\* one: neither the chat's loop, which never rests, nor the accepts that spin after
\* stop() keep the io thread from it.
HeadersAreHandled ==
  \A c \in Conns :
    (c \in Server!In("reading") /\ (header[c] # NoRequest \/ peer[c] = "closed"))
      ~> c \notin Server!In("reading") \cup Server!In("read")

\* As long as the chat stays started and the io thread is in run(), an accepted
\* client whose peer has left is removed: a read of the chat fails and reaches
\* remove_client.
DisconnectedMembersLeave ==
  <>[](chatting /\ run = "running") =>
    \A c \in Conns : (c \in Members /\ peer[c] = "closed") ~> c \notin Members

\* Descriptors come back: as long as the chat stays started, the host lists the
\* queue again and again, and the descriptors are never for good in the hands of
\* peers that stay, a connection in the kernel's queue is taken.
DescriptorsComeBack ==
  /\ <>[](chatting /\ run = "running" /\ Running)
  /\ SF_vars(get_wait_clients)
  /\ []<>(\/ Cardinality(Server!Opened) < Files
          \/ \E c \in Server!Opened : peer[c] = "closed")
  => \A c \in Conns : (conn[c] = "queued") ~> (conn[c] # "queued")

=============================================================================
