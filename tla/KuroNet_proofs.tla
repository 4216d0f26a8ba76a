--------------------------- MODULE KuroNet_proofs ---------------------------
(***************************************************************************)
(* Proofs about KuroNet, for any number of connections, tokens, headers,   *)
(* threads and lines: that the components agree on every connection, and   *)
(* that the server runs the session manager as ClientSessionManager, the   *)
(* acceptor as TCPServer and the chat as Chat specify them, so that the    *)
(* theorems about those modules hold here.                                 *)
(***************************************************************************)
EXTENDS KuroNet, NaturalsInduction, WellFoundedInduction, TLAPS

\* The session manager in KuroNet's variables, with what is proved about it.
Manager == INSTANCE ClientSessionManager_proofs WITH
  Ids      <- Conns,
  NoId     <- NoConn,
  FreshIds <- TRUE,
  Logins   <- {},
  socket   <- [c \in Conns |-> Socket(c)],
  reading  <- Server!In("reading") \cup Server!In("read"),
  inbox    <- {}

\* A handler of the chat is for a client that was approved, and a read fails
\* only for one whose peer has left.
Sound(h) ==
  h.op = "message" => Approved(h.conn) /\ (h.failed => peer[h.conn] = "closed")

Handlers == {h \in Server!Handler \cup Talk!Handler : Sound(h)}

ServerTypes ==
  /\ started \in BOOLEAN /\ acceptor \in {"listening", "closed"} /\ armed \in BOOLEAN
  /\ run \in {"before", "running", "returned"}
  /\ conn \in [Conns -> Server!ConnStates]

ChatTypes ==
  /\ reads \in [Conns -> Seq(Seq(Talk!Piece))]
  /\ sent \in [Conns -> Nat]
  /\ stream \in [Conns -> Seq(Talk!Piece)]
  /\ relayed \in [Conns -> Seq(Seq(Talk!Piece))]
  /\ writes \in [Conns -> Nat]
  /\ chatting \in BOOLEAN /\ io \in {"idle", "looping"}

Types == ServerTypes /\ ChatTypes /\ ready \in Seq(Handlers)

\* What the components know of each other's clients.
Views ==
  /\ NamedById
  /\ \A c \in Conns :
       /\ conn[c] \in {"reading", "read", "kept"} => peer[c] # "absent"
       /\ reads[c] # <<>> => c \in Members
       /\ relayed[c] # <<>> => Approved(c)
       /\ Running /\ Approved(c) => c \in Members \/ peer[c] = "closed"

KuroInv == Manager!SessionInv /\ Manager!NameInv /\ Types /\ Views

-----------------------------------------------------------------------------
(* The queue and the clients. *)

\* What queueing and running handlers do to the queue.
LEMMA Queues ==
  ASSUME NEW S, NEW q \in Seq(S)
  PROVE  /\ \A h \in S : Append(q, h) \in Seq(S)
         /\ \A r \in Seq(S) : q \o r \in Seq(S)
         /\ q # <<>> => Head(q) \in S /\ Tail(q) \in Seq(S)
OBVIOUS

\* A queue of sound handlers is one of handlers that are sound later.
LEMMA QueueStays ==
  ASSUME NEW S, NEW T, NEW q \in Seq(S), S \subseteq T
  PROVE  q \in Seq(T)
OBVIOUS

\* A sequence by its domain.
LEMMA IsQueue ==
  ASSUME NEW S, NEW n \in Nat, NEW f \in [1 .. n -> S]
  PROVE  f \in Seq(S)
OBVIOUS

\* The handler that is run is sound.
LEMMA HeadIsSound ==
  ASSUME KuroInv, ready # <<>>
  PROVE  /\ Head(ready) \in Server!Handler \cup Talk!Handler
         /\ Sound(Head(ready))
<1>1. ready \in Seq(Handlers)
  BY DEF KuroInv, Types, ServerTypes
<1>2. Head(ready) \in Handlers
  BY <1>1, Queues
<1> QED
  BY <1>2 DEF Handlers

\* An accepted client is named by its connection.
LEMMA MembersAreNamed ==
  ASSUME NamedById, NEW c \in Members
  PROVE  c \in Conns /\ clients_[c] # NoClient /\ clients_[c].socket = c
BY DEF NamedById, Members, Sessions!SocketsOf, Sessions!InMap

\* Both instances see the same clients.
LEMMA SameMembers ==
  /\ Members = Manager!SocketsOf(clients_) /\ Waiting = Manager!SocketsOf(wait_clients_)
BY DEF Members, Waiting, Sessions!SocketsOf, Sessions!InMap, Manager!SocketsOf,
       Manager!InMap

\* Who is accepted was told so.
LEMMA MembersAreApproved ==
  ASSUME KuroInv, NEW c \in Members
  PROVE  c \in Conns /\ Approved(c)
<1>1. c \in Conns
  BY MembersAreNamed DEF KuroInv, Views
<1>2. told[c] = <<IF header[c].auto THEN "auto_approved" ELSE "approved">>
  BY <1>1, SameMembers DEF KuroInv, Manager!SessionInv, Manager!OneReply
<1> QED
  BY <1>1, <1>2 DEF Approved

-----------------------------------------------------------------------------
(* The session manager's steps. *)

\* Both instances of ClientSessionManager have the same behaviours.
LEMMA SameInit == Sessions!Init <=> Manager!Init
BY DEF Sessions!Init, Manager!Init, Sessions!EmptyMap, Manager!EmptyMap,
       Sessions!Idle, Manager!Idle

LEMMA SameSteps == [Sessions!Next]_(Sessions!vars) <=> [Manager!Next]_(Manager!vars)
BY DEF Sessions!vars, Manager!vars, Sessions!managerVars, Manager!managerVars,
       Sessions!peerVars, Manager!peerVars, Sessions!EmptyMap, Manager!EmptyMap,
       Sessions!InMap, Manager!InMap, Sessions!PeerSendHeader,
       Manager!PeerSendHeader, Sessions!PeerSendMore, Manager!PeerSendMore,
       Sessions!PeerClose, Manager!PeerClose, Sessions!Halt, Manager!Halt,
       Sessions!WriteMayThrow, Manager!WriteMayThrow, Sessions!Close,
       Manager!Close, Sessions!Tell, Manager!Tell, Sessions!GeneratedIds,
       Manager!GeneratedIds, Sessions!NewClient, Manager!NewClient,
       Sessions!Accept, Manager!Accept, Sessions!HeaderReadError,
       Manager!HeaderReadError, Sessions!HeaderRead, Manager!HeaderRead,
       Sessions!Refuse, Manager!Refuse, Sessions!HeaderInvalid,
       Manager!HeaderInvalid, Sessions!HeaderUnknownAgent,
       Manager!HeaderUnknownAgent, Sessions!HeaderWithoutLogin,
       Manager!HeaderWithoutLogin, Sessions!HeaderAccepted,
       Manager!HeaderAccepted, Sessions!auto_approve_client,
       Manager!auto_approve_client, Sessions!HeaderAuto, Manager!HeaderAuto,
       Sessions!add_client, Manager!add_client, Sessions!HeaderManual,
       Manager!HeaderManual, Sessions!remove_client, Manager!remove_client,
       Sessions!OperationFails, Manager!OperationFails, Sessions!ChatReadError,
       Manager!ChatReadError, Sessions!ChatWriteError, Manager!ChatWriteError,
       Sessions!CommandReady,
       Manager!CommandReady, Sessions!create_token, Manager!create_token,
       Sessions!CreateTokenThrows, Manager!CreateTokenThrows,
       Sessions!ApproveCheckToken, Manager!ApproveCheckToken,
       Sessions!ApproveNotFound, Manager!ApproveNotFound, Sessions!approve_client,
       Manager!approve_client, Sessions!is_client_really_dead,
       Manager!is_client_really_dead, Sessions!access_wait_clients,
       Manager!access_wait_clients, Sessions!get_wait_clients,
       Manager!get_wait_clients, Sessions!Exit, Manager!Exit, Sessions!PeerStep,
       Manager!PeerStep, Sessions!HandleHeader, Manager!HandleHeader,
       Sessions!IoStep, Manager!IoStep, Sessions!CommandStep, Manager!CommandStep,
       Sessions!Next, Manager!Next, Sessions!Idle, Manager!Idle

LEMMA SameStays ==
  \/ Sessions!PeerStep \/ Sessions!CommandStep
  \/ \E c \in Conns :
       Sessions!Accept(c) \/ Sessions!HeaderReadError(c) \/ Sessions!HandleHeader(c)
  => \/ Manager!PeerStep \/ Manager!CommandStep
     \/ \E c \in Conns :
          Manager!Accept(c) \/ Manager!HeaderReadError(c) \/ Manager!HandleHeader(c)
BY DEF Sessions!vars, Manager!vars, Sessions!managerVars, Manager!managerVars,
       Sessions!peerVars, Manager!peerVars, Sessions!EmptyMap, Manager!EmptyMap,
       Sessions!InMap, Manager!InMap, Sessions!PeerSendHeader,
       Manager!PeerSendHeader, Sessions!PeerSendMore, Manager!PeerSendMore,
       Sessions!PeerClose, Manager!PeerClose, Sessions!Halt, Manager!Halt,
       Sessions!WriteMayThrow, Manager!WriteMayThrow, Sessions!Close,
       Manager!Close, Sessions!Tell, Manager!Tell, Sessions!GeneratedIds,
       Manager!GeneratedIds, Sessions!NewClient, Manager!NewClient,
       Sessions!Accept, Manager!Accept, Sessions!HeaderReadError,
       Manager!HeaderReadError, Sessions!HeaderRead, Manager!HeaderRead,
       Sessions!Refuse, Manager!Refuse, Sessions!HeaderInvalid,
       Manager!HeaderInvalid, Sessions!HeaderUnknownAgent,
       Manager!HeaderUnknownAgent, Sessions!HeaderWithoutLogin,
       Manager!HeaderWithoutLogin, Sessions!HeaderAccepted,
       Manager!HeaderAccepted, Sessions!auto_approve_client,
       Manager!auto_approve_client, Sessions!HeaderAuto, Manager!HeaderAuto,
       Sessions!add_client, Manager!add_client, Sessions!HeaderManual,
       Manager!HeaderManual, Sessions!CommandReady, Manager!CommandReady,
       Sessions!create_token, Manager!create_token, Sessions!CreateTokenThrows,
       Manager!CreateTokenThrows, Sessions!ApproveCheckToken,
       Manager!ApproveCheckToken, Sessions!ApproveNotFound,
       Manager!ApproveNotFound, Sessions!approve_client, Manager!approve_client,
       Sessions!is_client_really_dead, Manager!is_client_really_dead,
       Sessions!access_wait_clients, Manager!access_wait_clients,
       Sessions!get_wait_clients, Manager!get_wait_clients, Sessions!Exit,
       Manager!Exit, Sessions!PeerStep, Manager!PeerStep, Sessions!HandleHeader,
       Manager!HandleHeader, Sessions!CommandStep, Manager!CommandStep,
       Sessions!Idle, Manager!Idle

\* What the manager sees does not change.
LEMMA QuietView ==
  ASSUME UNCHANGED sessionVars, conn \in [Conns -> Server!ConnStates],
         \A c \in Conns : /\ (conn'[c] = "kept") <=> (conn[c] = "kept")
                          /\ (conn'[c] \in {"reading", "read"})
                               <=> (conn[c] \in {"reading", "read"})
  PROVE  UNCHANGED Sessions!vars
<1>1. \A c \in Conns : Socket(c)' = Socket(c)
  BY DEF sessionVars, Socket
<1>2. [c \in Conns |-> Socket(c)]' = [c \in Conns |-> Socket(c)]
  BY <1>1
<1>3. /\ (Server!In("reading") \cup Server!In("read"))'
           = Server!In("reading") \cup Server!In("read")
  BY DEF Server!In
<1> QED
  BY <1>2, <1>3 DEF Sessions!vars, sessionVars

\* Every step of the server is one of the session manager, or none that it sees.
LEMMA SessionStep == KuroInv /\ [Next]_vars => [Sessions!Next]_(Sessions!vars)
<1> SUFFICES ASSUME KuroInv, [Next]_vars
             PROVE  Sessions!Next \/ UNCHANGED Sessions!vars
  OBVIOUS
<1>1. conn \in [Conns -> Server!ConnStates]
  BY DEF KuroInv, Types, ServerTypes
<1>2. CASE UNCHANGED vars
  BY <1>1, <1>2, QuietView DEF vars, serverVars
<1>3. CASE PeerStep
  <2>1. ASSUME NEW c \in Conns, ServerAlone, Server!Connect(c)
        PROVE  UNCHANGED Sessions!vars
    BY <1>1, <2>1, QuietView DEF ServerAlone, Server!Connect
  <2>2. ASSUME NEW c \in Conns, ChatAlone PROVE UNCHANGED Sessions!vars
    BY <1>1, <2>2, QuietView DEF ChatAlone, serverVars
  <2> QED
    BY <1>3, <2>1, <2>2 DEF PeerStep, Sessions!Next, Sessions!PeerStep
<1>4. CASE ServerAlone /\ UNCHANGED conn
  BY <1>1, <1>4, QuietView DEF ServerAlone
<1>5. CASE ChatAlone
  BY <1>1, <1>5, QuietView DEF ChatAlone, serverVars
<1>6. ASSUME NEW c \in Conns, AcceptCompletes(c) \/ HeaderCompletes(c)
      PROVE  UNCHANGED Sessions!vars
  BY <1>1, <1>6, QuietView
     DEF AcceptCompletes, HeaderCompletes, ServerAlone, Server!AcceptCompletes,
         Server!ReadCompletes
<1>7. CASE stop
  BY <1>1, <1>7, QuietView DEF stop, ServerAlone, Server!stop
<1>8. CASE CommandThread
  BY <1>8
     DEF CommandThread, create_token, ApproveCheckToken, approve_client,
         get_wait_clients, CommandEnds, Sessions!Next, Sessions!CommandStep
<1>9. CASE HandleReadError
  <2> DEFINE c == Head(ready).conn
  <2>1. CASE c \notin Members /\ UNCHANGED <<serverVars, sessionVars>>
    BY <1>1, <2>1, QuietView DEF serverVars
  <2>2. CASE c \in Members /\ Sessions!remove_client(c)
    <3>1. c \in Conns /\ clients_[c].socket = c
      BY <2>2, MembersAreNamed DEF KuroInv, Views
    <3>2. peer[c] = "closed" /\ Running /\ UNCHANGED <<peer, header>>
      BY <1>9, HeadIsSound DEF HandleReadError, Handles, Sound
    <3>3. name[c] = c /\ c # NoConn
      BY <2>2, <3>1, MembersAreNamed, KuroNetAssumption
         DEF KuroInv, Views, Manager!NameInv, Manager!NamedClients, Manager!InMap
    <3>4. Sessions!ChatReadError(c)
      BY <2>2, <3>1, <3>2, <3>3
         DEF Running, Sessions!ChatReadError, Sessions!OperationFails,
             Sessions!remove_client, Sessions!peerVars
    <3> QED
      BY <3>1, <3>4 DEF Sessions!Next, Sessions!IoStep
  <2> QED
    BY <1>9, <2>1, <2>2 DEF HandleReadError
<1>10. CASE HandleAccept \/ HandleHeader \/ HeaderThrows
  BY <1>10
     DEF HandleAccept, HandleHeader, HeaderThrows, Sessions!Next, Sessions!IoStep
<1>11. CASE IoThread
  BY <1>4, <1>5, <1>9, <1>10, <1>11
     DEF IoThread, RunBegins, RunReturns, HandleError, HandleChat, IoWorks,
         Server!RunBegins, Server!RunReturns, Server!HandleAcceptError,
         Server!HandleReadError
<1> QED
  BY <1>2, <1>3, <1>4, <1>5, <1>6, <1>7, <1>8, <1>11
     DEF Next, ReadSome, ReadsEnd, HandleWrite, start, Server!start, HostCalls, HostGoesOn

-----------------------------------------------------------------------------
(* What every step keeps. *)

\* KuroNet's constants are as the session manager assumes.
LEMMA ManagerAssumptions == Manager!SessionAssumption /\ Manager!NoClientAssumption
BY KuroNetAssumption
   DEF Manager!Request, Sessions!Request, Manager!Client, Sessions!Client

\* A step keeps what is known of the session manager, and goes on with every
\* connection's history.
LEMMA ManagerStep ==
  ASSUME KuroInv, [Next]_vars
  PROVE  /\ Manager!SessionInv' /\ Manager!NameInv'
         /\ \A c \in Conns : Manager!HistoryGoesOn(c)
         /\ \A c \in Conns : Manager!MemberStays(c) \/ peer[c] = "closed"
         /\ \A c \in Conns :
              told'[c] # told[c] /\ Head(told'[c]) \in {"approved", "auto_approved"}
                => c \in Members'
<1>1. [Manager!Next]_(Manager!vars)
  BY SessionStep, SameSteps
<1>2. Manager!SessionInv /\ Manager!NameInv
  BY DEF KuroInv
<1>3. Manager!SessionAssumption /\ Manager!NoClientAssumption
  BY ManagerAssumptions
<1>4. Manager!SessionInv'
  BY <1>1, <1>2, <1>3, Manager!StepInv
<1>5. Manager!NameInv'
  BY <1>1, <1>2, <1>3, Manager!NameStep
<1>6. ASSUME NEW c \in Conns
      PROVE  /\ Manager!HistoryGoesOn(c)
             /\ Manager!MemberStays(c) \/ peer[c] = "closed"
  BY <1>1, <1>2, <1>3, Manager!HistoryStep
<1>7. ASSUME NEW c \in Conns, told'[c] # told[c],
             Head(told'[c]) \in {"approved", "auto_approved"}
      PROVE  c \in Members'
  <2>1. Manager!Next
    BY <1>1, <1>7 DEF Manager!vars
  <2>0. Manager!Apart
    BY <1>2, <1>3, Manager!FreshIdsApart
  <2>2. c \in Manager!SocketsOf(clients_)'
    BY <1>2, <1>3, <1>7, <2>0, <2>1, Manager!ApprovalStep
  <2>3. Members' = Manager!SocketsOf(clients_)'
    BY DEF Members, Sessions!SocketsOf, Sessions!InMap, Manager!SocketsOf,
           Manager!InMap
  <2> QED
    BY <2>2, <2>3
<1> QED
  BY <1>4, <1>5, <1>6, <1>7

\* Who was told of an approval stays so, and is a client when told.
LEMMA ApprovalsStay ==
  ASSUME KuroInv, [Next]_vars, NEW c \in Conns
  PROVE  /\ Approved(c) => Approved(c)'
         /\ Approved(c)' => Approved(c) \/ c \in Members'
<1>1. told[c] \in Seq(Sessions!Replies)
  BY DEF KuroInv, Manager!SessionInv, Manager!TypeOK, Manager!Replies, Sessions!Replies
<1>2. /\ told'[c] = told[c] \/ \E r : told'[c] = Append(told[c], r)
      /\ told'[c] # told[c] /\ Head(told'[c]) \in {"approved", "auto_approved"}
           => c \in Members'
  BY ManagerStep DEF Manager!HistoryGoesOn
<1>3. ASSUME NEW r, told[c] # <<>>
      PROVE  Append(told[c], r) # <<>> /\ Head(Append(told[c], r)) = Head(told[c])
  BY <1>1, <1>3
<1> QED
  BY <1>2, <1>3 DEF Approved

\* Handlers that are sound stay so.
LEMMA HandlersStay ==
  ASSUME KuroInv, [Next]_vars
  PROVE  Handlers \subseteq Handlers'
<1> SUFFICES ASSUME NEW h \in Handlers PROVE h \in Handlers'
  OBVIOUS
<1>1. h \in Server!Handler \cup Talk!Handler /\ Sound(h)
  BY DEF Handlers
<1>2. h.op = "message" => h.conn \in Conns
  BY <1>1 DEF Server!Handler, Talk!Handler, Talk!Work
<1>3. ASSUME h.op = "message"
      PROVE  /\ Approved(h.conn)'
             /\ h.failed => peer'[h.conn] = "closed"
  BY <1>1, <1>2, <1>3, ApprovalsStay, ManagerStep DEF Sound, Manager!HistoryGoesOn
<1> QED
  BY <1>1, <1>3 DEF Handlers, Sound

\* Nothing happens after the process has ended.
LEMMA StepsRun == Next => Running
BY DEF Next, PeerStep, AcceptCompletes, HeaderCompletes, ReadSome, ReadsEnd, HandleWrite, start,
       stop, HostCalls, HostGoesOn, IoThread, RunBegins, RunReturns, HandleAccept, HandleError,
       HandleHeader, HeaderThrows, HandleChat, HandleReadError, IoWorks, CommandThread,
       create_token, ApproveCheckToken, approve_client, get_wait_clients, CommandEnds,
       ServerAlone, SessionAlone, ChatAlone, HostCommands, Ends, Handles

-----------------------------------------------------------------------------
(* Types. *)

\* Which handlers may be queued in a step.
LEMMA NewHandlers ==
  ASSUME KuroInv, [Next]_vars
  PROVE  /\ ready \in Seq(Handlers')
         /\ Server!Handler \cup {Talk!Work} \subseteq Handlers'
         /\ \A c \in Conns, b \in Seq(Talk!Piece) :
              Approved(c) =>
                /\ Talk!ReadDone(c, b, FALSE) \in Handlers'
                /\ peer[c] = "closed" => Talk!ReadDone(c, b, TRUE) \in Handlers'
<1>1. ready \in Seq(Handlers')
  BY HandlersStay, QueueStays DEF KuroInv, Types
<1>2. Server!Handler \cup {Talk!Work} \subseteq Handlers'
  BY DEF Handlers, Sound, Server!Handler, Talk!Handler, Talk!Work
<1>3. ASSUME NEW c \in Conns, NEW b \in Seq(Talk!Piece), NEW f \in BOOLEAN,
             Approved(c), f => peer[c] = "closed"
      PROVE  Talk!ReadDone(c, b, f) \in Handlers'
  <2>1. Talk!ReadDone(c, b, f) \in Handlers
    BY <1>3 DEF Handlers, Sound, Talk!ReadDone, Talk!Handler
  <2> QED
    BY <2>1, HandlersStay
<1> QED
  BY <1>1, <1>2, <1>3

\* The acceptor's and the header's steps keep the types.
LEMMA ServerStepTypes ==
  ASSUME KuroInv, [Next]_vars, [Server!Next]_(Server!vars)
  PROVE  ServerTypes' /\ ready' \in Seq(Handlers')
<1>1. /\ ServerTypes
      /\ conn \in [Conns -> Server!ConnStates]
  BY DEF KuroInv, Types, ServerTypes
<1>2. ready \in Seq(Handlers') /\ Server!Handler \subseteq Handlers'
  BY NewHandlers
<1>3. ready # <<>> => Tail(ready) \in Seq(Handlers')
  BY <1>2, Queues
<1>4. \A c \in Conns \cup {NoConn} :
        /\ [op |-> "accept", socket |-> c] \in Handlers'
        /\ [op |-> "read", socket |-> c] \in Handlers'
  BY <1>2 DEF Server!Handler
<1>5. ASSUME NEW q \in Seq(Handlers'), Server!do_accept(q)
      PROVE  ready' \in Seq(Handlers') /\ armed' \in BOOLEAN
  BY <1>1, <1>4, <1>5, Queues DEF Server!do_accept, ServerTypes
<1>6. ASSUME \/ \E c \in Conns :
                 Server!Connect(c) \/ Server!AcceptCompletes(c) \/ Server!ReadCompletes(c)
             \/ \E S \in SUBSET Server!In("kept") : Server!Release(S)
      PROVE  ServerTypes' /\ ready' \in Seq(Handlers')
  <2>1. \A h \in Handlers' : Append(ready, h) \in Seq(Handlers')
    BY <1>2, Queues
  <2>2. ready' \in Seq(Handlers')
    BY <1>2, <1>4, <1>6, <2>1
       DEF Server!Connect, Server!AcceptCompletes, Server!ReadCompletes, Server!Release
  <2> QED
    BY <1>1, <1>6, <2>2
       DEF Server!Connect, Server!AcceptCompletes, Server!ReadCompletes, Server!Release,
           ServerTypes, Server!ConnStates
<1>7. CASE Server!start \/ Server!stop
  <2>1. CASE Server!start
    BY <1>1, <1>2, <1>5, <2>1 DEF Server!start, ServerTypes
  <2>2. CASE Server!stop
    <3>1. Append(ready, [op |-> "accept", socket |-> NoConn]) \in Seq(Handlers')
      BY <1>2, <1>4, Queues
    <3>2. ready' \in Seq(Handlers')
      BY <1>2, <2>2, <3>1 DEF Server!stop
    <3> QED
      BY <1>1, <2>2, <3>2 DEF Server!stop, ServerTypes, Server!ConnStates
  <2> QED
    BY <1>7, <2>1, <2>2
<1>8. CASE Server!IoThread
  <2>1. CASE Server!RunBegins \/ Server!RunReturns
    BY <1>1, <1>2, <2>1 DEF Server!RunBegins, Server!RunReturns, ServerTypes
  <2>2. CASE Server!HandleAccept
    <3>1. ready' \in Seq(Handlers') /\ armed' \in BOOLEAN
      BY <1>3, <1>5, <2>2 DEF Server!HandleAccept, Server!Runs
    <3> QED
      BY <1>1, <2>2, <3>1 DEF Server!HandleAccept, Server!Runs, ServerTypes, Server!ConnStates
  <2>3. CASE Server!HandleAcceptError
    <3>1. Append(Tail(ready), [op |-> "read", socket |-> NoConn]) \in Seq(Handlers')
      BY <1>3, <1>4, <2>3, Queues DEF Server!HandleAcceptError, Server!Runs
    <3>2. ready' \in Seq(Handlers') /\ armed' \in BOOLEAN
      BY <1>5, <2>3, <3>1 DEF Server!HandleAcceptError
    <3> QED
      BY <1>1, <2>3, <3>2 DEF Server!HandleAcceptError, Server!Runs, ServerTypes
  <2>4. CASE Server!HandleReadError \/ Server!HandleRead
    BY <1>1, <1>3, <2>4
       DEF Server!HandleReadError, Server!HandleRead, Server!Runs, ServerTypes,
           Server!ConnStates
  <2> QED
    BY <1>8, <2>1, <2>2, <2>3, <2>4 DEF Server!IoThread
<1>9. CASE UNCHANGED Server!vars
  BY <1>1, <1>2, <1>9 DEF Server!vars, ServerTypes
<1> QED
  BY <1>6, <1>7, <1>8, <1>9 DEF Server!Next

\* What the chat does.
ChatMoves ==
  \/ \E c \in Conns : Talk!PeerSends(c) \/ Talk!ReadSome(c) \/ Talk!ReadsEnd(c)
  \/ \E c \in Conns : Talk!WriteEnds(c) \/ Talk!WriteFails(c)
  \/ \E h \in Hosts : Talk!StartLoads(h) \/ Talk!StopLoads(h) \/ Talk!HostGoesOn(h)
  \/ Talk!IoThread

\* Nobody has the login of a client for an id.
LEMMA WritesRemoveNobody ==
  ASSUME KuroInv, NEW c \in Conns, Talk!WriteFails(c)
  PROVE  UNCHANGED <<ready, reads>> /\ Members' = Members
<1>1. Members \subseteq Conns
  BY MembersAreNamed DEF KuroInv, Views
<1>2. \A d \in Members : [e \in Conns |-> e][d] # [e \in Conns |-> NoConn][c]
  BY <1>1, KuroNetAssumption
<1> QED
  BY <1>2 DEF Talk!WriteFails, Talk!remove_client

\* The handler of a failed read removes the client that it read from, if it is
\* among the clients.
LEMMA ReadErrorRemoves ==
  ASSUME KuroInv, Talk!HandleReadError
  PROVE  LET c == Head(ready).conn
         IN \/ /\ c \in Members
               /\ Members' = Members \ {c}
               /\ ready' = Tail(ready) \o Talk!Failures(c)
               /\ reads' = [reads EXCEPT ![c] = <<>>]
            \/ /\ c \notin Members
               /\ Members' = Members
               /\ ready' = Tail(ready) /\ reads' = reads
<1> DEFINE c == Head(ready).conn
<1>1. Members \subseteq Conns
  BY MembersAreNamed DEF KuroInv, Views
<1>2. c \in Conns
  BY HeadIsSound
     DEF Talk!HandleReadError, Talk!Runs, Server!Handler, Talk!Handler, Talk!Work
<1>3. \A d \in Members \cup {c} : [e \in Conns |-> e][d] = d
  BY <1>1, <1>2
<1>4. Talk!remove_client([e \in Conns |-> e][c], Tail(ready))
  BY DEF Talk!HandleReadError
<1> HIDE DEF c
<1> QED
  BY <1>3, <1>4 DEF Talk!remove_client, c

\* The chat's steps keep the types, and post and relay for approved clients only.
LEMMA ChatStepTypes ==
  ASSUME KuroInv, [Next]_vars, Running, ChatMoves
  PROVE  /\ ChatTypes' /\ ready' \in Seq(Handlers')
         /\ \A c \in Conns :
              /\ relayed'[c] # <<>> => relayed[c] # <<>> \/ Approved(c)
              /\ reads'[c] # <<>> => c \in Members
<1> DEFINE Goal ==
      /\ ChatTypes' /\ ready' \in Seq(Handlers')
      /\ \A c \in Conns :
           /\ relayed'[c] # <<>> => relayed[c] # <<>> \/ Approved(c)
           /\ reads'[c] # <<>> => c \in Members
<1>1. /\ ready \in Seq(Handlers') /\ Server!Handler \cup {Talk!Work} \subseteq Handlers'
      /\ \A c \in Conns, b \in Seq(Talk!Piece) :
           Approved(c) =>
             /\ Talk!ReadDone(c, b, FALSE) \in Handlers'
             /\ peer[c] = "closed" => Talk!ReadDone(c, b, TRUE) \in Handlers'
  BY NewHandlers
<1>2. /\ ChatTypes
      /\ \A c \in Conns : reads[c] # <<>> => c \in Members
  BY DEF KuroInv, Types, Views
<1>3. \A c \in Members : Approved(c)
  BY MembersAreApproved
<1>4. ready # <<>> => Tail(ready) \in Seq(Handlers') /\ Sound(Head(ready))
                        /\ Head(ready) \in Server!Handler \cup Talk!Handler
  BY <1>1, Queues, HeadIsSound
<1>5. ASSUME NEW c \in Conns, Approved(c), peer[c] = "closed"
      PROVE  Talk!Failures(c) \in Seq(Handlers')
  <2>1. reads[c] \in Seq(Seq(Talk!Piece))
    BY <1>2 DEF ChatTypes
  <2>2. \A b \in Seq(Talk!Piece) : Talk!ReadDone(c, b, TRUE) \in Handlers'
    BY <1>1, <1>5
  <2>3. \A i \in 1 .. Len(reads[c]) : reads[c][i] \in Seq(Talk!Piece)
    BY <2>1
  <2>4. Len(reads[c]) \in Nat /\ DOMAIN reads[c] = 1 .. Len(reads[c])
    BY <2>1
  <2>5. Talk!Failures(c) \in [1 .. Len(reads[c]) -> Handlers']
    BY <2>2, <2>3, <2>4 DEF Talk!Failures
  <2> QED
    BY <2>4, <2>5, IsQueue
<1>6. ASSUME NEW q \in Seq(Handlers'), Talk!work(q)
      PROVE  /\ ready' \in Seq(Handlers')
             /\ reads' \in [Conns -> Seq(Seq(Talk!Piece))]
             /\ \A c \in Conns : reads'[c] # <<>> => reads[c] # <<>> \/ c \in Members
             /\ UNCHANGED <<stream, relayed, writes, sent, chatting>>
  <2>1. ready' \in Seq(Handlers')
    BY <1>1, <1>6, Queues DEF Talk!work
  <2>2. <<>> \in Seq(Talk!Piece)
    OBVIOUS
  <2>3. \A c \in Conns : Append(reads[c], <<>>) \in Seq(Seq(Talk!Piece))
    BY <1>2, <2>2 DEF ChatTypes
  <2>4. \A c \in Conns : \/ reads'[c] = reads[c]
                         \/ c \in Members /\ reads'[c] = Append(reads[c], <<>>)
    BY <1>6 DEF Talk!work
  <2>5. reads' \in [Conns -> Seq(Seq(Talk!Piece))]
    BY <1>2, <1>6, <2>3 DEF Talk!work, ChatTypes
  <2> QED
    BY <1>6, <2>1, <2>4, <2>5 DEF Talk!work, Talk!peerVars
<1>7. ASSUME UNCHANGED <<reads, relayed, stream, writes, sent>>, chatting' \in BOOLEAN,
             io' \in {"idle", "looping"}, ready' \in Seq(Handlers')
      PROVE  Goal
  BY <1>2, <1>7 DEF ChatTypes
<1>8. ASSUME NEW c \in Conns, Talk!PeerSends(c) PROVE Goal
  <2>1. sent[c] + 1 \in Talk!Piece /\ sent[c] + 1 \in Nat /\ stream[c] \in Seq(Talk!Piece)
    BY <1>2 DEF ChatTypes, Talk!Piece
  <2>2. Append(stream[c], sent[c] + 1) \in Seq(Talk!Piece)
    BY <2>1
  <2> QED
    BY <1>1, <1>2, <1>8, <2>1, <2>2 DEF Talk!PeerSends, Talk!hostVars, ChatTypes
<1>9. ASSUME NEW c \in Conns, Talk!ReadSome(c) PROVE Goal
  <2>1. c \in Members /\ reads[c] # <<>> /\ Approved(c)
    BY <1>3, <1>9 DEF Talk!ReadSome
  <2>2. /\ reads[c] \in Seq(Seq(Talk!Piece)) /\ stream[c] \in Seq(Talk!Piece)
        /\ Head(reads[c]) \in Seq(Talk!Piece) /\ Tail(reads[c]) \in Seq(Seq(Talk!Piece))
    BY <1>2, <2>1 DEF ChatTypes
  <2>3. PICK n \in 1 .. Len(stream[c]) :
          LET buffer == Head(reads[c]) \o SubSeq(stream[c], 1, n)
          IN /\ stream' = [stream EXCEPT ![c] = SubSeq(@, n + 1, Len(@))]
             /\ ready' = Append(ready, Talk!ReadDone(c, buffer, FALSE))
    BY <1>9 DEF Talk!ReadSome
  <2>4. /\ SubSeq(stream[c], n + 1, Len(stream[c])) \in Seq(Talk!Piece)
        /\ Head(reads[c]) \o SubSeq(stream[c], 1, n) \in Seq(Talk!Piece)
    BY <2>2
  <2>5. ready' \in Seq(Handlers')
    BY <1>1, <2>1, <2>3, <2>4, Queues
  <2> QED
    BY <1>2, <1>9, <2>1, <2>2, <2>3, <2>4, <2>5
       DEF Talk!ReadSome, Talk!hostVars, Talk!peerVars, ChatTypes
<1>10. ASSUME NEW c \in Conns, Talk!ReadsEnd(c) PROVE Goal
  <2>1. Approved(c) /\ peer[c] = "closed"
    BY <1>10 DEF Talk!ReadsEnd
  <2>2. ready' \in Seq(Handlers')
    BY <1>1, <1>5, <1>10, <2>1, Queues DEF Talk!ReadsEnd
  <2>3. <<>> \in Seq(Seq(Talk!Piece))
    OBVIOUS
  <2> QED
    BY <1>2, <1>10, <2>2, <2>3 DEF Talk!ReadsEnd, Talk!hostVars, Talk!peerVars, ChatTypes
<1>11. ASSUME NEW h \in Hosts,
              Talk!StartLoads(h) \/ Talk!StopLoads(h) \/ Talk!HostGoesOn(h)
       PROVE  Goal
  <2>1. CASE Talk!StartWorks(h)
    BY <1>1, <1>2, <1>6, <2>1 DEF Talk!StartWorks, ChatTypes
  <2> QED
    BY <1>1, <1>2, <1>7, <1>11, <2>1
       DEF Talk!StartLoads, Talk!StopLoads, Talk!HostGoesOn, Talk!StartStores,
           Talk!StartCallsWork, Talk!StopStores, Talk!peerVars, ChatTypes
<1>12. CASE Talk!HandleTimer
  BY <1>4, <1>2, <1>7, <1>12
     DEF Talk!HandleTimer, Talk!Runs, Talk!hostVars, Talk!peerVars, ChatTypes
<1>13. CASE Talk!IoWorks
  BY <1>1, <1>2, <1>6, <1>13 DEF Talk!IoWorks, ChatTypes
<1>14. ASSUME Talk!Runs("message")
       PROVE  LET r == Head(ready)
              IN /\ r.conn \in Conns /\ r.buffer \in Seq(Talk!Piece)
                 /\ Approved(r.conn) /\ (r.failed => peer[r.conn] = "closed")
                 /\ Tail(ready) \in Seq(Handlers')
  BY <1>4, <1>14
     DEF Talk!Runs, Sound, Server!Handler, Talk!Handler, Talk!Work
<1>15. CASE Talk!HandlePartial
  <2> DEFINE r == Head(ready)
             c == r.conn
  <2>1. /\ c \in Conns /\ r.buffer \in Seq(Talk!Piece) /\ Approved(c)
        /\ Tail(ready) \in Seq(Handlers')
    BY <1>14, <1>15 DEF Talk!HandlePartial
  <2>2. CASE c \in Members /\ reads' = [reads EXCEPT ![c] = Append(@, r.buffer)]
               /\ ready' = Tail(ready)
    <3>1. reads[c] \in Seq(Seq(Talk!Piece))
      BY <1>2, <2>1 DEF ChatTypes
    <3>2. Append(reads[c], r.buffer) \in Seq(Seq(Talk!Piece))
      BY <2>1, <3>1
    <3> HIDE DEF r, c
    <3> QED
      BY <1>2, <1>15, <2>1, <2>2, <3>2
         DEF Talk!HandlePartial, Talk!hostVars, Talk!peerVars, ChatTypes
  <2>3. CASE c \notin Members /\ reads' = reads
               /\ ready' = Append(Tail(ready), Talk!ReadDone(c, r.buffer, TRUE))
    <3>1. peer[c] = "closed"
      BY <2>1, <2>3 DEF KuroInv, Views
    <3>2. Talk!ReadDone(c, r.buffer, TRUE) \in Handlers'
      BY <1>1, <2>1, <3>1
    <3> HIDE DEF r, c
    <3>3. ready' \in Seq(Handlers')
      BY <2>1, <2>3, <3>2, Queues
    <3> QED
      BY <1>2, <1>15, <2>3, <3>3
         DEF Talk!HandlePartial, Talk!hostVars, Talk!peerVars, ChatTypes
  <2> QED
    BY <1>15, <2>2, <2>3 DEF Talk!HandlePartial
<1>16. CASE Talk!HandleLine
  <2> DEFINE r == Head(ready)
             c == r.conn
  <2>1. /\ c \in Conns /\ r.buffer \in Seq(Talk!Piece) /\ Approved(c)
        /\ Tail(ready) \in Seq(Handlers')
    BY <1>14, <1>16 DEF Talk!HandleLine
  <2>2. PICK n \in DOMAIN r.buffer :
          relayed' = [relayed EXCEPT ![c] = Append(@, SubSeq(r.buffer, 1, n))]
    BY <1>16 DEF Talk!HandleLine, Talk!FirstEnd
  <2>3. SubSeq(r.buffer, 1, n) \in Seq(Talk!Piece)
    BY <2>1
  <2>4. relayed[c] \in Seq(Seq(Talk!Piece))
    BY <1>2, <2>1 DEF ChatTypes
  <2>5. Append(relayed[c], SubSeq(r.buffer, 1, n)) \in Seq(Seq(Talk!Piece))
    BY <2>3, <2>4
  <2>6. UNCHANGED <<reads, stream, sent, chatting, io>> /\ ready' = Tail(ready)
    BY <1>16 DEF Talk!HandleLine, Talk!hostVars, Talk!peerVars
  <2>7. Talk!SendTo(c)
    BY <1>16 DEF Talk!HandleLine
  <2> HIDE DEF r, c
  <2>8. writes' \in [Conns -> Nat]
    BY <1>2, <2>7 DEF Talk!SendTo, ChatTypes
  <2> QED
    BY <1>2, <2>1, <2>2, <2>5, <2>6, <2>8 DEF ChatTypes
<1>17. CASE Talk!HandleReadError
  <2> DEFINE c == Head(ready).conn
  <2>1. c \in Conns /\ Approved(c) /\ peer[c] = "closed" /\ Tail(ready) \in Seq(Handlers')
    BY <1>14, <1>17 DEF Talk!HandleReadError
  <2>2. /\ \/ /\ ready' = Tail(ready) \o Talk!Failures(c)
              /\ reads' = [reads EXCEPT ![c] = <<>>]
           \/ ready' = Tail(ready) /\ reads' = reads
        /\ UNCHANGED <<relayed, stream, writes, sent, chatting, io>>
    BY <1>17, ReadErrorRemoves DEF Talk!HandleReadError, Talk!hostVars, Talk!peerVars
  <2> HIDE DEF c
  <2>5. Talk!Failures(c) \in Seq(Handlers')
    BY <1>5, <2>1
  <2>6. Tail(ready) \o Talk!Failures(c) \in Seq(Handlers')
    BY <2>1, <2>5, Queues
  <2>3. ready' \in Seq(Handlers')
    BY <2>1, <2>2, <2>6
  <2>4. <<>> \in Seq(Seq(Talk!Piece))
    OBVIOUS
  <2> QED
    BY <1>2, <2>1, <2>2, <2>3, <2>4 DEF ChatTypes
<1>18. ASSUME NEW c \in Conns, Talk!WriteEnds(c) \/ Talk!WriteFails(c) PROVE Goal
  <2>1. UNCHANGED <<ready, reads>>
    BY <1>18, WritesRemoveNobody DEF Talk!WriteEnds
  <2>2. /\ writes[c] > 0 /\ writes' = [writes EXCEPT ![c] = @ - 1]
        /\ UNCHANGED <<chatting, io, sent, stream, relayed>>
    BY <1>18
       DEF Talk!WriteEnds, Talk!WriteFails, Talk!Writes, Talk!hostVars, Talk!peerVars
  <2>3. writes' \in [Conns -> Nat]
    BY <1>2, <2>2 DEF ChatTypes
  <2> QED
    BY <1>1, <1>2, <2>1, <2>2, <2>3 DEF ChatTypes
<1> QED
  BY <1>8, <1>9, <1>10, <1>11, <1>12, <1>13, <1>15, <1>16, <1>17, <1>18
     DEF ChatMoves, Talk!IoThread

\* Whatever a step does, it keeps the types.
LEMMA TypesStep == KuroInv /\ [Next]_vars => Types'
<1> SUFFICES ASSUME KuroInv, [Next]_vars PROVE Types'
  OBVIOUS
<1>1. /\ ServerTypes /\ ChatTypes /\ ready \in Seq(Handlers')
  BY NewHandlers DEF KuroInv, Types
<1>2. ASSUME UNCHANGED <<chatVars, ready>>, Releases PROVE Types'
  BY <1>1, <1>2 DEF Releases, chatVars, Types, ServerTypes, ChatTypes, Server!ConnStates
<1>3. ASSUME UNCHANGED chatVars, [Server!Next]_(Server!vars) PROVE Types'
  BY <1>1, <1>3, ServerStepTypes DEF chatVars, Types, ChatTypes
<1>4. ASSUME Running, UNCHANGED serverVars \/ Releases, ChatMoves
      PROVE  Types'
  <2>1. ChatTypes' /\ ready' \in Seq(Handlers')
    BY <1>4, ChatStepTypes
  <2>2. ServerTypes'
    BY <1>1, <1>4 DEF Releases, serverVars, ServerTypes, Server!ConnStates
  <2> QED
    BY <2>1, <2>2 DEF Types
<1>5. ASSUME NEW how, Ends(how) PROVE Types'
  <2>1. <<>> \in Seq(Handlers') /\ <<>> \in Seq(Seq(Talk!Piece))
    OBVIOUS
  <2>2. ServerTypes'
    BY <1>1, <1>5 DEF Ends, ServerTypes, Server!ConnStates
  <2>3. ChatTypes'
    BY <1>1, <1>5, <2>1 DEF Ends, ChatTypes
  <2> QED
    BY <1>5, <2>1, <2>2, <2>3 DEF Ends, Types
<1>6. CASE UNCHANGED vars
  BY <1>1, <1>6, <1>3 DEF vars, serverVars, Server!vars
<1>7. CASE PeerStep
  <2>1. ASSUME NEW c \in Conns, ServerAlone, Server!Connect(c) PROVE Types'
    BY <1>3, <2>1 DEF ServerAlone, Server!Next
  <2>2. CASE SessionAlone
    BY <1>3, <2>2 DEF SessionAlone, serverVars, Server!vars
  <2>3. ASSUME NEW c \in Conns, ChatAlone, Talk!PeerSends(c) PROVE Types'
    BY <1>4, <2>3 DEF ChatAlone, ChatMoves
  <2> QED
    BY <1>7, <2>1, <2>2, <2>3 DEF PeerStep
<1>8. ASSUME NEW c \in Conns, AcceptCompletes(c) \/ HeaderCompletes(c) PROVE Types'
  BY <1>3, <1>8 DEF AcceptCompletes, HeaderCompletes, ServerAlone, Server!Next
<1>9. ASSUME NEW c \in Conns, ReadSome(c) \/ ReadsEnd(c) \/ HandleWrite(c) PROVE Types'
  BY <1>4, <1>9 DEF ReadSome, ReadsEnd, HandleWrite, ChatAlone, ChatMoves
<1>10. CASE start \/ stop
  BY <1>3, <1>10 DEF start, stop, ServerAlone, Server!Next
<1>11. ASSUME NEW h \in Hosts, HostCalls(h) \/ HostGoesOn(h) PROVE Types'
  BY <1>4, <1>11 DEF HostCalls, HostGoesOn, ChatAlone, ChatMoves
<1>12. CASE IoThread
  <2>1. CASE RunBegins \/ RunReturns \/ HandleAccept \/ HandleError \/ HandleHeader
    BY <1>3, <2>1
       DEF RunBegins, RunReturns, HandleAccept, HandleError, HandleHeader, ServerAlone,
           Server!Next, Server!IoThread
  <2>2. CASE HeaderThrows
    BY <1>5, <2>2 DEF HeaderThrows
  <2>3. CASE HandleChat \/ HandleReadError \/ IoWorks
    BY <1>4, <2>3
       DEF HandleChat, HandleReadError, IoWorks, ChatAlone, Handles, ChatMoves,
           Talk!IoThread
  <2> QED
    BY <1>12, <2>1, <2>2, <2>3 DEF IoThread
<1>13. CASE CommandThread
  <2>1. CASE CommandEnds
    BY <1>5, <2>1 DEF CommandEnds
  <2>2. CASE HostCommands
    BY <1>2, <2>2 DEF HostCommands
  <2> QED
    BY <1>13, <2>1, <2>2
       DEF CommandThread, create_token, ApproveCheckToken, approve_client,
           get_wait_clients
<1> QED
  BY <1>6, <1>7, <1>8, <1>9, <1>10, <1>11, <1>12, <1>13 DEF Next

-----------------------------------------------------------------------------
(* Views. *)

\* The manager's steps other than a removal.
ManagerMoves ==
  \/ Sessions!PeerStep \/ Sessions!CommandStep
  \/ \E c \in Conns :
       Sessions!Accept(c) \/ Sessions!HeaderReadError(c) \/ Sessions!HandleHeader(c)

\* A step is one of the chat alone, the end of the process, or a removal; or the
\* chat stutters.
LEMMA StepKinds ==
  ASSUME [Next]_vars
  PROVE  \/ ChatAlone /\ ChatMoves
         \/ \E how : how # "running" /\ Ends(how)
         \/ HandleReadError
         \/ /\ UNCHANGED chatVars
            /\ \/ UNCHANGED sessionVars
               \/ process' = "running" /\ ManagerMoves
<1>1. PeerStep => \/ ChatAlone /\ ChatMoves
                  \/ UNCHANGED <<chatVars, sessionVars>>
                  \/ UNCHANGED chatVars /\ process' = "running" /\ ManagerMoves
  BY DEF PeerStep, ServerAlone, SessionAlone, Running, ManagerMoves, Sessions!PeerStep,
         ChatMoves
<1>2. ASSUME NEW c \in Conns
      PROVE  /\ AcceptCompletes(c) \/ HeaderCompletes(c)
                  => UNCHANGED <<chatVars, sessionVars>>
             /\ ReadSome(c) \/ ReadsEnd(c) \/ HandleWrite(c) => ChatAlone /\ ChatMoves
  BY DEF AcceptCompletes, HeaderCompletes, ServerAlone, ReadSome, ReadsEnd, HandleWrite,
         ChatMoves
<1>3. start \/ stop => UNCHANGED <<chatVars, sessionVars>>
  BY DEF start, stop, ServerAlone
<1>4. ASSUME NEW h \in Hosts, HostCalls(h) \/ HostGoesOn(h) PROVE ChatAlone /\ ChatMoves
  BY <1>4 DEF HostCalls, HostGoesOn, ChatMoves
<1>5. CommandThread => \/ \E how : how # "running" /\ Ends(how)
                       \/ UNCHANGED chatVars /\ process' = "running" /\ ManagerMoves
  BY DEF CommandThread, create_token, ApproveCheckToken, approve_client,
         get_wait_clients, CommandEnds, HostCommands, Running, ManagerMoves,
         Sessions!CommandStep
<1>6. RunBegins \/ RunReturns \/ HandleError => UNCHANGED <<chatVars, sessionVars>>
  BY DEF RunBegins, RunReturns, HandleError, ServerAlone
<1>7. HandleAccept \/ HandleHeader
        => UNCHANGED chatVars /\ process' = "running" /\ ManagerMoves
  BY DEF HandleAccept, HandleHeader, Handles, Running, ManagerMoves
<1>8. HandleChat \/ IoWorks => ChatAlone /\ ChatMoves
  BY DEF HandleChat, IoWorks, ChatMoves, Talk!IoThread
<1>9. HeaderThrows => \E how : how # "running" /\ Ends(how)
  BY DEF HeaderThrows
<1>10. UNCHANGED vars => UNCHANGED <<chatVars, sessionVars>>
  BY DEF vars
<1> QED
  BY <1>1, <1>2, <1>3, <1>4, <1>5, <1>6, <1>7, <1>8, <1>9, <1>10 DEF Next, IoThread

\* The manager's steps other than a removal leave the clients.
LEMMA ClientsStay ==
  ASSUME KuroInv,
         \/ UNCHANGED sessionVars
         \/ /\ process' = "running"
            /\ ManagerMoves
  PROVE  Members \subseteq Members'
<1>1. CASE UNCHANGED sessionVars
  BY <1>1 DEF sessionVars, Members, Sessions!SocketsOf, Sessions!InMap
<1>2. CASE process' = "running" /\ ManagerMoves
  <2> SUFFICES ASSUME NEW c \in Members PROVE c \in Members'
    OBVIOUS
  <2>1. c \in Conns /\ c \in Manager!SocketsOf(clients_)
    BY MembersAreNamed, SameMembers DEF KuroInv, Views
  <2>2. \/ Manager!PeerStep \/ Manager!CommandStep
        \/ \E d \in Conns :
             Manager!Accept(d) \/ Manager!HeaderReadError(d) \/ Manager!HandleHeader(d)
    BY <1>2, SameStays DEF ManagerMoves
  <2>3. Manager!SessionAssumption /\ Manager!NoClientAssumption
    BY ManagerAssumptions
  <2>4. Manager!MemberStays(c)
    BY <2>1, <2>2, <2>3, Manager!StayStep DEF KuroInv
  <2>5. Members' = Manager!SocketsOf(clients_)'
    BY DEF Members, Sessions!SocketsOf, Sessions!InMap, Manager!SocketsOf,
           Manager!InMap
  <2> QED
    BY <1>2, <2>1, <2>4, <2>5 DEF Manager!MemberStays
<1> QED
  BY <1>1, <1>2

\* Clients keep the names that they have.
LEMMA NamesStay == KuroInv /\ [Next]_vars => NamedById'
<1> SUFFICES ASSUME KuroInv, [Next]_vars PROVE NamedById'
  OBVIOUS
<1>1. /\ NamedById
      /\ clients_ \in [Conns -> Manager!Client \cup {NoClient}]
      /\ wait_clients_ \in [Conns -> Manager!Client \cup {NoClient}]
  BY DEF KuroInv, Views, Manager!SessionInv, Manager!TypeOK
<1>2. ASSUME UNCHANGED <<clients_, wait_clients_>> PROVE NamedById'
  BY <1>1, <1>2 DEF NamedById
<1>3. ASSUME NEW how, Sessions!Halt(how) PROVE NamedById'
  BY <1>3 DEF NamedById, Sessions!Halt, Sessions!EmptyMap
<1>4. CASE UNCHANGED sessionVars
  BY <1>2, <1>4 DEF sessionVars
<1>5. CASE PeerStep
  BY <1>2, <1>5
     DEF PeerStep, ServerAlone, ChatAlone, Sessions!PeerSendHeader, Sessions!PeerClose,
         Sessions!managerVars, sessionVars
<1>6. CASE HandleAccept
  BY <1>2, <1>6 DEF HandleAccept, Sessions!Accept, Sessions!managerVars
<1>7. CASE HeaderThrows
  <2>1. PICK c \in Conns : Sessions!HandleHeader(c) /\ process' # process
    BY <1>7 DEF HeaderThrows, Ends, Running
  <2> QED
    BY <1>3, <2>1
       DEF Sessions!HandleHeader, Sessions!HeaderInvalid, Sessions!HeaderUnknownAgent,
           Sessions!HeaderWithoutLogin, Sessions!HeaderAuto, Sessions!HeaderManual,
           Sessions!Refuse, Sessions!auto_approve_client, Sessions!add_client
<1>8. CASE HandleReadError
  BY <1>1, <1>4, <1>8
     DEF HandleReadError, Sessions!remove_client, NamedById
<1>9. CASE Sessions!approve_client
  <2> DEFINE id == command.id
             c  == wait_clients_[id].socket
  <2>1. CASE Sessions!Halt("command_exception")
    BY <1>3, <2>1
  <2>2. CASE /\ wait_clients_' = [wait_clients_ EXCEPT ![id] = NoClient]
             /\ \/ clients_' = [clients_ EXCEPT
                                  ![id] = [socket |-> c, token |-> command.token]]
                \/ UNCHANGED clients_
    <3>1. id \in Conns => c = id
      BY <1>1, <1>9 DEF Sessions!approve_client, NamedById
    <3>2. \A i \in Conns :
            clients_'[i] # clients_[i] => i = id /\ clients_'[i].socket = c
      BY <1>1, <2>2
    <3>3. \A i \in Conns : wait_clients_'[i] \in {wait_clients_[i], NoClient}
      BY <1>1, <2>2
    <3> HIDE DEF id, c
    <3> QED
      BY <1>1, <3>1, <3>2, <3>3 DEF NamedById
  <2> QED
    BY <1>9, <2>1, <2>2 DEF Sessions!approve_client
<1>10. CASE Sessions!get_wait_clients
  BY <1>1, <1>10 DEF Sessions!get_wait_clients, Sessions!access_wait_clients, NamedById
<1>11. CASE CommandThread
  BY <1>2, <1>3, <1>9, <1>10, <1>11
     DEF CommandThread, create_token, ApproveCheckToken, approve_client,
         get_wait_clients, CommandEnds, Sessions!create_token,
         Sessions!ApproveCheckToken, Sessions!ApproveNotFound,
         Sessions!CreateTokenThrows, Sessions!Exit, Sessions!managerVars
<1>12. CASE HandleHeader
  BY <1>12 DEF HandleHeader
<1>13. CASE RunBegins \/ RunReturns \/ HandleError \/ HandleChat \/ IoWorks
  BY <1>4, <1>13
     DEF RunBegins, RunReturns, HandleError, HandleChat, IoWorks, ServerAlone, ChatAlone
<1>14. ASSUME NEW c \in Conns,
              \/ AcceptCompletes(c) \/ HeaderCompletes(c)
              \/ ReadSome(c) \/ ReadsEnd(c) \/ HandleWrite(c)
       PROVE  NamedById'
  BY <1>4, <1>14
     DEF AcceptCompletes, HeaderCompletes, ReadSome, ReadsEnd, HandleWrite, ServerAlone,
         ChatAlone
<1>15. ASSUME NEW h \in Hosts, HostCalls(h) \/ HostGoesOn(h) PROVE NamedById'
  BY <1>4, <1>15 DEF HostCalls, HostGoesOn, ChatAlone
<1>16. CASE start \/ stop \/ UNCHANGED vars
  BY <1>4, <1>16 DEF start, stop, ServerAlone, vars
<1> QED
  BY <1>5, <1>6, <1>7, <1>8, <1>11, <1>12, <1>13, <1>14, <1>15, <1>16 DEF Next, IoThread

\* Sockets that are open have peers.
LEMMA PeersStay ==
  ASSUME KuroInv, [Next]_vars, NEW c \in Conns, conn'[c] \in {"reading", "read", "kept"}
  PROVE  peer'[c] # "absent"
<1> DEFINE Open == {"reading", "read", "kept"}
<1>1. /\ conn \in [Conns -> Server!ConnStates]
      /\ \A d \in Conns : conn[d] \in Open => peer[d] # "absent"
      /\ peer \in [Conns -> {"absent", "connected", "closed"}]
  BY DEF KuroInv, Types, ServerTypes, Views, Manager!SessionInv, Manager!TypeOK
<1>2. peer[c] # "absent" => peer'[c] # "absent"
  BY ManagerStep DEF Manager!HistoryGoesOn
<1>3. CASE conn[c] \in Open
  BY <1>1, <1>2, <1>3
<1>4. CASE conn[c] \notin Open
  <2>1. ~Releases /\ conn' # conn
    BY <1>1, <1>4 DEF Releases, Server!In
  <2>2. \A how : ~Ends(how)
    BY DEF Ends
  <2>3. CASE HandleAccept
    <3>1. PICK d \in Conns :
            /\ Head(ready).socket = d
            /\ conn' = [conn EXCEPT ![d] = "reading"]
            /\ peer' = [peer EXCEPT ![d] = "connected"]
      BY <2>3 DEF HandleAccept, Server!HandleAccept, Sessions!Accept
    <3> QED
      BY <1>1, <1>4, <3>1
  <2>4. CASE HandleHeader
    <3>1. PICK d \in Conns :
            /\ d \in Server!In("reading") \cup Server!In("read")
            /\ Head(ready).socket = d
      BY <2>4
         DEF HandleHeader, Sessions!HandleHeader, Sessions!HeaderReadError,
             Sessions!HeaderInvalid, Sessions!HeaderUnknownAgent,
             Sessions!HeaderWithoutLogin, Sessions!HeaderAuto, Sessions!HeaderManual,
             Sessions!HeaderAccepted, Sessions!HeaderRead
    <3>2. conn[d] \in Open /\ conn'[c] = conn[c]
      BY <1>1, <1>4, <2>4, <3>1 DEF HandleHeader, Server!HandleRead, Server!In
    <3> QED
      BY <1>4, <3>2
  <2>5. ASSUME NEW d \in Conns,
               \/ Server!Connect(d) \/ Server!AcceptCompletes(d)
               \/ Server!ReadCompletes(d)
        PROVE  FALSE
    BY <1>1, <1>4, <2>5
       DEF Server!Connect, Server!AcceptCompletes, Server!ReadCompletes
  <2>6. ~stop
    BY <1>1, <1>4 DEF stop, Server!stop
  <2> QED
    BY <2>1, <2>2, <2>3, <2>4, <2>5, <2>6
       DEF Next, vars, serverVars, PeerStep, SessionAlone, ChatAlone, AcceptCompletes,
           HeaderCompletes, ReadSome, ReadsEnd, HandleWrite, start, Server!start,
           HostCalls, HostGoesOn, IoThread, RunBegins, RunReturns, Server!RunBegins,
           Server!RunReturns, HandleError, Server!HandleAcceptError,
           Server!HandleReadError, HeaderThrows, HandleChat, HandleReadError, IoWorks,
           CommandThread, create_token, ApproveCheckToken, approve_client,
           get_wait_clients, CommandEnds, HostCommands
<1> QED
  BY <1>3, <1>4

\* Outstanding reads of the chat are of clients.
LEMMA ReadsStay ==
  ASSUME KuroInv, [Next]_vars, NEW c \in Conns, reads'[c] # <<>>
  PROVE  c \in Members'
<1>1. reads[c] # <<>> => c \in Members
  BY DEF KuroInv, Views
<1>2. CASE ChatAlone /\ ChatMoves
  <2>1. c \in Members
    BY <1>2, ChatStepTypes DEF ChatAlone
  <2>2. UNCHANGED sessionVars
    BY <1>2 DEF ChatAlone
  <2>3. Members \subseteq Members'
    BY <2>2, ClientsStay
  <2> QED
    BY <2>1, <2>3
<1>3. ASSUME NEW how, Ends(how) PROVE FALSE
  BY <1>3 DEF Ends
<1>4. CASE HandleReadError
  <2>1. \/ /\ reads' = [reads EXCEPT ![Head(ready).conn] = <<>>]
           /\ Members' = Members \ {Head(ready).conn}
        \/ reads' = reads /\ Members' = Members
    BY <1>4, ReadErrorRemoves DEF HandleReadError
  <2>2. reads \in [Conns -> Seq(Seq(Talk!Piece))]
    BY DEF KuroInv, Types, ChatTypes
  <2> QED
    BY <1>1, <2>1, <2>2
<1>5. CASE /\ UNCHANGED chatVars
           /\ \/ UNCHANGED sessionVars
              \/ /\ process' = "running"
                 /\ ManagerMoves
  <2>1. reads' = reads
    BY <1>5 DEF chatVars
  <2>2. Members \subseteq Members'
    BY <1>5, ClientsStay
  <2> QED
    BY <1>1, <2>1, <2>2
<1> QED
  BY <1>2, <1>3, <1>4, <1>5, StepKinds

\* Relayed messages are of approved clients.
LEMMA RelaysStay ==
  ASSUME KuroInv, [Next]_vars, NEW c \in Conns, relayed'[c] # <<>>
  PROVE  Approved(c)'
<1>1. relayed[c] # <<>> => Approved(c)
  BY DEF KuroInv, Views
<1>2. CASE ChatAlone /\ ChatMoves
  BY <1>1, <1>2, ChatStepTypes, ApprovalsStay DEF ChatAlone
<1>3. CASE relayed' = relayed
  BY <1>1, <1>3, ApprovalsStay
<1> QED
  BY <1>2, <1>3, StepKinds DEF Ends, HandleReadError, chatVars

\* Whatever a step does, the components agree as before.
LEMMA ViewsStep == KuroInv /\ [Next]_vars => Views'
<1> SUFFICES ASSUME KuroInv, [Next]_vars PROVE Views'
  OBVIOUS
<1>1. ASSUME NEW c \in Conns, Running', Approved(c)'
      PROVE  c \in Members' \/ peer'[c] = "closed"
  <2>1. Running
    BY <1>1, StepsRun DEF Running, vars, sessionVars
  <2>2. CASE ~Approved(c)
    BY <1>1, <2>2, ApprovalsStay
  <2>3. CASE peer[c] = "closed"
    BY <2>3, ManagerStep DEF Manager!HistoryGoesOn
  <2>4. CASE c \in Members /\ peer[c] # "closed"
    <3>1. Manager!MemberStays(c)
      BY <2>4, ManagerStep
    <3>2. Members' = Manager!SocketsOf(clients_)'
      BY DEF Members, Sessions!SocketsOf, Sessions!InMap, Manager!SocketsOf,
             Manager!InMap
    <3> QED
      BY <1>1, <2>4, <3>1, <3>2, SameMembers DEF Manager!MemberStays, Running
  <2> QED
    BY <1>1, <2>1, <2>2, <2>3, <2>4 DEF KuroInv, Views
<1>2. NamedById'
  BY NamesStay
<1> QED
  BY <1>1, <1>2, PeersStay, ReadsStay, RelaysStay DEF Views

-----------------------------------------------------------------------------
(* The theorems. *)

\* The server starts in the invariant.
LEMMA KuroInit == Init => KuroInv
<1> SUFFICES ASSUME Init PROVE KuroInv
  OBVIOUS
<1>1. \A c \in Conns : Socket(c) = "none"
  BY DEF Init, Socket
<1>2. Server!In("reading") \cup Server!In("read") = {}
  BY DEF Init, Server!In
<1>3. Manager!Init
  BY <1>1, <1>2
     DEF Init, Manager!Init, Manager!EmptyMap, Sessions!EmptyMap, Manager!Idle, Sessions!Idle
<1>4. Manager!SessionInv
  BY <1>3, ManagerAssumptions, Manager!InitInv
<1>5. Manager!NameInv
  BY <1>3, ManagerAssumptions, Manager!NameInit
<1>6. Types
  <2>1. <<>> \in Seq(Handlers) /\ <<>> \in Seq(Talk!Piece) /\ <<>> \in Seq(Seq(Talk!Piece))
    OBVIOUS
  <2> QED
    BY <2>1 DEF Init, Types, ServerTypes, ChatTypes, Server!ConnStates
<1>7. Views
  BY DEF Init, Views, NamedById, Sessions!EmptyMap, Approved
<1> QED
  BY <1>4, <1>5, <1>6, <1>7 DEF KuroInv

LEMMA KuroStep == KuroInv /\ [Next]_vars => KuroInv'
BY ManagerStep, TypesStep, ViewsStep DEF KuroInv

\* The inductive invariant of the whole server.
THEOREM KuroInvariant == Spec => []KuroInv
BY KuroInit, KuroStep, PTL DEF Spec

\* The variables of all components have their types, in all states that their
\* common steps reach.
THEOREM KuroTypes == Spec => []TypeOK
<1>1. KuroInv => TypeOK
  <2> SUFFICES ASSUME KuroInv PROVE TypeOK
    OBVIOUS
  <2>1. Sessions!TypeOK
    BY DEF KuroInv, Manager!SessionInv, Manager!TypeOK, Sessions!TypeOK, Manager!Client,
           Sessions!Client, Manager!Commands, Sessions!Commands, Manager!Idle,
           Sessions!Idle, Manager!Replies, Sessions!Replies
  <2>2. ready \in Seq(Server!Handler \cup Talk!Handler)
    BY QueueStays DEF KuroInv, Types, Handlers
  <2> QED
    BY <2>1, <2>2 DEF TypeOK, KuroInv, Types, ServerTypes, ChatTypes
<1> QED
  BY <1>1, KuroInvariant, PTL

\* The components agree on every connection: the acceptor, the manager and the
\* chat never differ on who is there (Session.cpp, Chat.cpp and
\* TCPServer::do_accept on one io_context).
THEOREM ComponentsAgree == Spec => []OneView
<1>1. KuroInv => OneView
  <2> SUFFICES ASSUME KuroInv PROVE OneView
    OBVIOUS
  <2>1. Sessions!OneOwner
    BY DEF KuroInv, Manager!SessionInv, Manager!OneOwner, Sessions!OneOwner,
           Manager!SocketsOf, Sessions!SocketsOf, Manager!InMap, Sessions!InMap,
           Manager!Injective, Sessions!Injective
  <2>2. Members \subseteq Conns /\ Waiting \subseteq Conns
    BY DEF KuroInv, Views, NamedById, Members, Waiting, Sessions!SocketsOf, Sessions!InMap
  <2>3. ASSUME NEW c \in Conns
        PROVE  conn[c] = "kept" <=> c \in Waiting \cup Members
    <3>1. Socket(c) = "open" <=> conn[c] \in {"reading", "read", "kept"}
      BY DEF KuroInv, Views, Socket
    <3>2. Socket(c) = "open" <=>
            c \in (Server!In("reading") \cup Server!In("read")) \cup Waiting \cup Members
      BY <2>1 DEF Sessions!OneOwner, Waiting, Members
    <3>3. c \in Server!In("reading") \cup Server!In("read")
            <=> conn[c] \in {"reading", "read"}
      BY DEF Server!In
    <3>4. c \in Server!In("reading") \cup Server!In("read")
            => c \notin Waiting \cup Members
      BY <2>1 DEF Sessions!OneOwner, Waiting, Members
    <3> QED
      BY <3>1, <3>2, <3>3, <3>4
  <2>4. Server!In("kept") = Waiting \cup Members
    BY <2>2, <2>3 DEF Server!In
  <2>5. ASSUME NEW i \in DOMAIN ready, ready[i].op = "message"
        PROVE  Approved(ready[i].conn)
    <3>1. ready[i] \in Handlers
      BY DEF KuroInv, Types
    <3> QED
      BY <2>5, <3>1 DEF Handlers, Sound
  <2> QED
    BY <2>1, <2>4, <2>5 DEF OneView, KuroInv, Views
<1> QED
  BY <1>1, KuroInvariant, PTL

\* What the whole server does is what ClientSessionManager says of its session
\* manager, so that every theorem about that module's behaviours is one about
\* the server.
THEOREM RunsTheManager == Spec => Sessions!Spec
<1>1. Init => Sessions!Init
  <2> SUFFICES ASSUME Init PROVE Sessions!Init
    OBVIOUS
  <2>1. \A c \in Conns : Socket(c) = "none"
    BY DEF Init, Socket
  <2>2. Server!In("reading") \cup Server!In("read") = {}
    BY DEF Init, Server!In
  <2> QED
    BY <2>1, <2>2 DEF Init, Sessions!Init
<1> QED
  BY <1>1, SessionStep, KuroInvariant, PTL DEF Spec, Sessions!Spec

\* The same for the instance that carries the proofs.
LEMMA RunsManager == Spec => Manager!Spec
<1>1. Sessions!Spec => Manager!Spec
  BY SameInit, SameSteps, PTL DEF Sessions!Spec, Manager!Spec
<1> QED
  BY <1>1, RunsTheManager

\* The server as a whole admits and answers as its session manager alone does:
\* a member has sent a well-formed header and asked itself or came in by one of
\* the host's tokens (Session.cpp approve_client, auto_approve_client), and nobody
\* is answered twice.
THEOREM ServerAdmits == Spec => [](Manager!AdmissionGate /\ Manager!OneReply)
<1>1. KuroInv => Manager!AdmissionGate /\ Manager!OneReply
  BY DEF KuroInv, Manager!SessionInv
<1> QED
  BY <1>1, KuroInvariant, PTL

\* The server as a whole keeps the promises of Admission.
THEOREM ServerImplementsAdmission == Spec => ImplementsAdmission
<1>1. Manager!Spec => Manager!ImplementsAdmission
  BY ManagerAssumptions, Manager!Implementation
<1>2. Manager!Gate!Init => Sessions!Gate!Init
  BY DEF Manager!Gate!Init, Sessions!Gate!Init, Manager!SocketsOf, Sessions!SocketsOf,
         Manager!MembersOf, Sessions!MembersOf, Manager!InMap, Sessions!InMap
<1>3. [Manager!Gate!Next]_(Manager!Gate!vars) => [Sessions!Gate!Next]_(Sessions!Gate!vars)
  BY DEF Manager!Gate!Next, Sessions!Gate!Next, Manager!Gate!vars, Sessions!Gate!vars,
         Manager!Gate!Arrive, Sessions!Gate!Arrive, Manager!Gate!Depart,
         Sessions!Gate!Depart, Manager!Gate!Enqueue, Sessions!Gate!Enqueue,
         Manager!Gate!Issue, Sessions!Gate!Issue, Manager!Gate!AdmitOnRequest,
         Sessions!Gate!AdmitOnRequest, Manager!Gate!AdmitWithToken,
         Sessions!Gate!AdmitWithToken, Manager!Gate!TurnAway, Sessions!Gate!TurnAway,
         Manager!Gate!Leave, Sessions!Gate!Leave, Manager!Gate!Shutdown,
         Sessions!Gate!Shutdown, Manager!SocketsOf, Sessions!SocketsOf, Manager!MembersOf,
         Sessions!MembersOf, Manager!InMap, Sessions!InMap
<1>4. Manager!ImplementsAdmission => ImplementsAdmission
  BY <1>2, <1>3, PTL
     DEF ImplementsAdmission, Sessions!ImplementsAdmission, Manager!ImplementsAdmission,
         Manager!Gate!Spec, Sessions!Gate!Spec
<1> QED
  BY <1>1, <1>4, RunsManager

-----------------------------------------------------------------------------
(* A queue without the handlers of others. *)

\* The handlers in S, in the order in which they are queued.
Only(q, S) ==
  LET kept[i \in 0 .. Len(q)] ==
        IF i = 0 THEN <<>>
        ELSE IF q[i] \in S THEN Append(kept[i - 1], q[i]) ELSE kept[i - 1]
  IN kept[Len(q)]

\* g is the function kept of the first n handlers.
Keeps(g, n, q, S) ==
  g = [i \in 0 .. n |-> IF i = 0 THEN <<>>
                        ELSE IF q[i] \in S THEN Append(g[i - 1], q[i]) ELSE g[i - 1]]

Keeping(q, S) == CHOOSE g : Keeps(g, Len(q), q, S)

\* A set of numbers with 0, and with the successor of each member, has all.
LEMMA Induction ==
  ASSUME NEW S, 0 \in S, \A n \in Nat : n \in S => n + 1 \in S
  PROVE  \A n \in Nat : n \in S
<1> DEFINE R == OpToRel(<, Nat)
           T == Nat \ S
<1>1. IsWellFoundedOn(R, Nat)
  BY NatLessThanWellFounded
<1>2. \A x, y \in Nat : <<x, y>> \in R <=> x < y
  BY DEF OpToRel
<1> HIDE DEF R
<1>3. CASE T # {}
  <2>1. PICK m \in T : \A n \in T : ~ (<<n, m>> \in R)
    BY <1>1, <1>3, WFMin
  <2>2. m - 1 \in Nat /\ m - 1 < m
    BY <2>1
  <2>3. m - 1 \in S
    BY <1>2, <2>1, <2>2
  <2> QED
    BY <2>1, <2>2, <2>3
<1> QED
  BY <1>3

\* What holds of the empty queue, and of a queue with one more handler if of the
\* queue, holds of every queue.
LEMMA QueueInduction ==
  ASSUME NEW T, NEW P, <<>> \in P,
         \A q \in Seq(T), h \in T : q \in P => Append(q, h) \in P
  PROVE  \A q \in Seq(T) : q \in P
<1> DEFINE N == {n \in Nat : \A q \in Seq(T) : Len(q) = n => q \in P}
<1>1. 0 \in N
  <2>1. \A q \in Seq(T) : Len(q) = 0 => q = <<>>
    OBVIOUS
  <2> QED
    BY <2>1
<1>2. ASSUME NEW n \in Nat, n \in N PROVE n + 1 \in N
  <2> SUFFICES ASSUME NEW q \in Seq(T), Len(q) = n + 1 PROVE q \in P
    OBVIOUS
  <2> DEFINE s == SubSeq(q, 1, n)
  <2>1. s \in Seq(T) /\ Len(s) = n /\ q[n + 1] \in T
    OBVIOUS
  <2>2. q = Append(s, q[n + 1])
    OBVIOUS
  <2> HIDE DEF s
  <2> QED
    BY <1>2, <2>1, <2>2
<1> HIDE DEF N
<1>3. \A n \in Nat : n \in N
  BY <1>1, <1>2, Induction
<1>4. \A q \in Seq(T) : Len(q) \in Nat
  OBVIOUS
<1> QED
  BY <1>3, <1>4 DEF N

LEMMA OnlyIs ==
  ASSUME NEW q, NEW S
  PROVE  Only(q, S) = Keeping(q, S)[Len(q)]
BY DEF Only, Keeping, Keeps

\* There is such a function for every number of handlers.
LEMMA KeepsExists ==
  ASSUME NEW q, NEW S
  PROVE  \A n \in Nat : \E g : Keeps(g, n, q, S)
<1> DEFINE N == {n \in Nat : \E g : Keeps(g, n, q, S)}
<1>1. 0 \in N
  <2> DEFINE g == [i \in 0 .. 0 |-> <<>>]
  <2>1. Keeps(g, 0, q, S)
    BY DEF Keeps
  <2> QED
    BY <2>1
<1>2. ASSUME NEW n \in Nat, n \in N PROVE n + 1 \in N
  <2>1. PICK g : Keeps(g, n, q, S)
    BY <1>2
  <2> DEFINE h == [i \in 0 .. (n + 1) |->
                     IF i = n + 1
                     THEN IF q[n + 1] \in S THEN Append(g[n], q[n + 1]) ELSE g[n]
                     ELSE g[i]]
  <2>2. \A i \in 0 .. n : h[i] = g[i] /\ (i # 0 => i - 1 \in 0 .. n /\ h[i - 1] = g[i - 1])
    OBVIOUS
  <2>3. \A i \in 0 .. n :
          g[i] = IF i = 0 THEN <<>>
                 ELSE IF q[i] \in S THEN Append(g[i - 1], q[i]) ELSE g[i - 1]
    BY <2>1 DEF Keeps
  <2>4. ASSUME NEW i \in 0 .. (n + 1)
        PROVE  h[i] = IF i = 0 THEN <<>>
                      ELSE IF q[i] \in S THEN Append(h[i - 1], q[i]) ELSE h[i - 1]
    <3>1. CASE i \in 0 .. n
      <4>1. h[i] = g[i] /\ (i # 0 => h[i - 1] = g[i - 1])
        BY <2>2, <3>1
      <4> HIDE DEF h
      <4> QED
        BY <2>3, <3>1, <4>1
    <3>2. CASE i = n + 1
      <4>1. i - 1 = n /\ i # 0 /\ h[i - 1] = g[n]
        BY <3>2
      <4>2. h[i] = IF q[n + 1] \in S THEN Append(g[n], q[n + 1]) ELSE g[n]
        BY <3>2
      <4> HIDE DEF h
      <4> QED
        BY <3>2, <4>1, <4>2
    <3> QED
      BY <3>1, <3>2
  <2>5. h = [i \in 0 .. (n + 1) |-> h[i]]
    OBVIOUS
  <2> HIDE DEF h
  <2>6. Keeps(h, n + 1, q, S)
    BY <2>4, <2>5 DEF Keeps
  <2> QED
    BY <2>6
<1> HIDE DEF N
<1>3. \A n \in Nat : n \in N
  BY <1>1, <1>2, Induction
<1> QED
  BY <1>3 DEF N

\* It depends on the first handlers only.
LEMMA KeepsSame ==
  ASSUME NEW q, NEW r, NEW S, NEW g, NEW h, NEW n \in Nat, NEW m \in Nat, n <= m,
         Keeps(g, n, q, S), Keeps(h, m, r, S), \A i \in 1 .. n : q[i] = r[i]
  PROVE  \A i \in 0 .. n : g[i] = h[i]
<1> DEFINE N == {i \in Nat : i <= n => g[i] = h[i]}
<1>1. \A i \in 0 .. n :
        /\ g[i] = IF i = 0 THEN <<>>
                  ELSE IF q[i] \in S THEN Append(g[i - 1], q[i]) ELSE g[i - 1]
        /\ h[i] = IF i = 0 THEN <<>>
                  ELSE IF r[i] \in S THEN Append(h[i - 1], r[i]) ELSE h[i - 1]
  <2>1. \A i \in 0 .. n : i \in 0 .. m
    OBVIOUS
  <2> QED
    BY <2>1 DEF Keeps
<1>2. 0 \in N
  BY <1>1
<1>3. ASSUME NEW i \in Nat, i \in N PROVE i + 1 \in N
  <2> SUFFICES ASSUME i + 1 <= n PROVE g[i + 1] = h[i + 1]
    OBVIOUS
  <2>1. i <= n /\ i + 1 \in 0 .. n /\ i + 1 # 0 /\ (i + 1) - 1 = i /\ i + 1 \in 1 .. n
    OBVIOUS
  <2>2. g[i] = h[i] /\ q[i + 1] = r[i + 1]
    BY <1>3, <2>1
  <2> QED
    BY <1>1, <2>1, <2>2
<1> HIDE DEF N
<1>4. \A i \in Nat : i \in N
  BY <1>2, <1>3, Induction
<1> QED
  BY <1>4 DEF N

LEMMA OnlyEmpty ==
  ASSUME NEW S
  PROVE  Only(<<>>, S) = <<>>
<1>1. Len(<<>>) = 0
  OBVIOUS
<1>2. PICK g : Keeps(g, 0, <<>>, S)
  BY KeepsExists
<1>3. Keeps(Keeping(<<>>, S), 0, <<>>, S)
  BY <1>1, <1>2 DEF Keeping
<1>4. Keeping(<<>>, S)[0] = <<>>
  BY <1>3 DEF Keeps
<1> QED
  BY <1>1, <1>4, OnlyIs

LEMMA OnlyAppend ==
  ASSUME NEW T, NEW q \in Seq(T), NEW x \in T, NEW S
  PROVE  Only(Append(q, x), S) = IF x \in S THEN Append(Only(q, S), x) ELSE Only(q, S)
<1> DEFINE r == Append(q, x)
           g == Keeping(q, S)
           h == Keeping(r, S)
           n == Len(q)
<1>1. /\ n \in Nat /\ Len(r) = n + 1 /\ r[n + 1] = x
      /\ \A i \in 1 .. n : q[i] = r[i]
  OBVIOUS
<1> HIDE DEF r, n
<1>2. Keeps(g, n, q, S)
  BY <1>1, KeepsExists DEF Keeping, n
<1>3. Keeps(h, n + 1, r, S)
  BY <1>1, KeepsExists DEF Keeping
<1>4. h[n] = g[n]
  <2>1. n + 1 \in Nat /\ n <= n + 1 /\ n \in 0 .. n
    BY <1>1
  <2> HIDE DEF g, h
  <2> QED
    BY <1>1, <1>2, <1>3, <2>1, KeepsSame
<1>5. h[n + 1] = IF x \in S THEN Append(h[n], x) ELSE h[n]
  <2>1. n + 1 \in 0 .. (n + 1) /\ n + 1 # 0 /\ (n + 1) - 1 = n
    BY <1>1
  <2> HIDE DEF h
  <2> QED
    BY <1>1, <1>3, <2>1 DEF Keeps
<1>6. Only(q, S) = g[n] /\ Only(r, S) = h[n + 1]
  BY <1>1, OnlyIs DEF n
<1> HIDE DEF g, h
<1> QED
  BY <1>4, <1>5, <1>6 DEF r

LEMMA OnlyType ==
  ASSUME NEW T, NEW q \in Seq(T), NEW S
  PROVE  Only(q, S) \in Seq(S)
<1> DEFINE P == {s \in Seq(T) : Only(s, S) \in Seq(S)}
<1>1. <<>> \in P
  <2>1. <<>> \in Seq(T) /\ <<>> \in Seq(S)
    OBVIOUS
  <2> QED
    BY <2>1, OnlyEmpty
<1>2. ASSUME NEW s \in Seq(T), NEW x \in T, s \in P PROVE Append(s, x) \in P
  <2>1. Only(s, S) \in Seq(S)
    BY <1>2
  <2>2. x \in S => Append(Only(s, S), x) \in Seq(S)
    BY <2>1
  <2>3. Only(Append(s, x), S) \in Seq(S)
    BY <2>1, <2>2, OnlyAppend
  <2> QED
    BY <2>3
<1> HIDE DEF P
<1>3. q \in P
  BY <1>1, <1>2, QueueInduction
<1> QED
  BY <1>3 DEF P

LEMMA OnlyOf ==
  ASSUME NEW T, NEW q \in Seq(T), NEW S
  PROVE  Only(q, S) \in Seq(T)
<1> DEFINE P == {s \in Seq(T) : Only(s, S) \in Seq(T)}
<1>1. <<>> \in P
  <2>1. <<>> \in Seq(T)
    OBVIOUS
  <2> QED
    BY <2>1, OnlyEmpty
<1>2. ASSUME NEW s \in Seq(T), NEW x \in T, s \in P PROVE Append(s, x) \in P
  <2>1. Only(s, S) \in Seq(T)
    BY <1>2
  <2>2. Append(Only(s, S), x) \in Seq(T)
    BY <2>1
  <2>3. Only(Append(s, x), S) \in Seq(T)
    BY <2>1, <2>2, OnlyAppend
  <2> QED
    BY <2>3
<1> HIDE DEF P
<1>3. q \in P
  BY <1>1, <1>2, QueueInduction
<1> QED
  BY <1>3 DEF P

LEMMA ConcatAppend ==
  ASSUME NEW U, NEW o \in Seq(U), NEW s \in Seq(U), NEW x \in U
  PROVE  Append(o \o s, x) = o \o Append(s, x)
OBVIOUS

\* Running the handler at the head runs it, or none, of those in S.
LEMMA OnlyTail ==
  ASSUME NEW T, NEW q \in Seq(T), q # <<>>, NEW S
  PROVE  Only(q, S) = IF Head(q) \in S THEN <<Head(q)>> \o Only(Tail(q), S)
                                       ELSE Only(Tail(q), S)
<1> DEFINE With(s) == IF Head(s) \in S THEN <<Head(s)>> \o Only(Tail(s), S)
                                       ELSE Only(Tail(s), S)
           P == {s \in Seq(T) : s # <<>> => Only(s, S) = With(s)}
<1>1. <<>> \in P
  OBVIOUS
<1>2. ASSUME NEW s, NEW x, s \in Seq(T), x \in T, s \in P PROVE Append(s, x) \in P
  <2>0. Append(s, x) \in Seq(T)
    BY <1>2
  <2>1. Only(Append(s, x), S) = IF x \in S THEN Append(Only(s, S), x) ELSE Only(s, S)
    BY <1>2, OnlyAppend
  <2>2. CASE s = <<>>
    <3>1. Head(Append(s, x)) = x /\ Tail(Append(s, x)) = <<>>
      BY <1>2, <2>2
    <3>2. Only(s, S) = <<>>
      BY <2>2, OnlyEmpty
    <3>3. Append(<<>>, x) = <<x>> \o <<>>
      OBVIOUS
    <3> QED
      BY <2>0, <2>1, <2>2, <3>1, <3>2, <3>3
  <2>3. CASE s # <<>>
    <3>1. /\ Head(Append(s, x)) = Head(s) /\ Tail(Append(s, x)) = Append(Tail(s), x)
          /\ Tail(s) \in Seq(T) /\ Head(s) \in T
      BY <1>2, <2>3
    <3>2. Only(Append(Tail(s), x), S)
            = IF x \in S THEN Append(Only(Tail(s), S), x) ELSE Only(Tail(s), S)
      <4>1. Tail(s) \in Seq(T) /\ x \in T
        BY <1>2, <3>1
      <4> HIDE DEF P, With
      <4> QED
        BY <4>1, OnlyAppend
    <3>3. Only(s, S) = With(s)
      BY <1>2, <2>3
    <3>4. Only(Tail(s), S) \in Seq(S)
      BY <3>1, OnlyType
    <3>5. ASSUME x \in S, Head(s) \in S
          PROVE  Append(<<Head(s)>> \o Only(Tail(s), S), x)
                   = <<Head(s)>> \o Append(Only(Tail(s), S), x)
      <4>1. <<Head(s)>> \in Seq(S)
        BY <3>5
      <4> QED
        BY <3>4, <3>5, <4>1, ConcatAppend
    <3>6. Only(Append(s, x), S) = IF Head(s) \in S THEN <<Head(s)>> \o Only(Append(Tail(s), x), S)
                                                   ELSE Only(Append(Tail(s), x), S)
      BY <2>1, <3>2, <3>3, <3>5
    <3> QED
      BY <2>0, <3>1, <3>6
  <2> HIDE DEF P
  <2> QED
    BY <2>2, <2>3
<1> HIDE DEF P
<1>3. q \in P
  BY <1>1, <1>2, QueueInduction
<1> QED
  BY <1>3 DEF P

\* Queueing several at once.
Joins(T, S, q, s) ==
  /\ s \in Seq(S) => Only(q \o s, S) = Only(q, S) \o s
  /\ s \in Seq(T \ S) => Only(q \o s, S) = Only(q, S)

LEMMA OnlyConcat ==
  ASSUME NEW T, NEW S, NEW q \in Seq(T), NEW f \in Seq(T)
  PROVE  Joins(T, S, q, f)
<1> USE DEF Joins
<1> DEFINE P == {s \in Seq(T) : Joins(T, S, q, s)}
<1>0. Only(q, S) \in Seq(T)
  BY OnlyOf
<1>1. <<>> \in P
  <2>1. <<>> \in Seq(T) /\ q \o <<>> = q /\ Only(q, S) \o <<>> = Only(q, S)
    BY <1>0
  <2> QED
    BY <2>1
<1>2. ASSUME NEW s, NEW x, s \in Seq(T), x \in T, s \in P PROVE Append(s, x) \in P
  <2>1. q \o s \in Seq(T) /\ q \o Append(s, x) = Append(q \o s, x)
        /\ Append(s, x) \in Seq(T)
    BY <1>2
  <2>2. Only(q \o Append(s, x), S)
          = IF x \in S THEN Append(Only(q \o s, S), x) ELSE Only(q \o s, S)
    <3> DEFINE o == q \o s
    <3>1. o \in Seq(T) /\ x \in T
      BY <1>2, <2>1
    <3> HIDE DEF o
    <3>2. Only(Append(o, x), S) = IF x \in S THEN Append(Only(o, S), x) ELSE Only(o, S)
      BY <3>1, OnlyAppend
    <3> QED
      BY <2>1, <3>2 DEF o
  <2>3. \A U : Append(s, x) \in Seq(U) => s \in Seq(U) /\ x \in U
    <3> SUFFICES ASSUME NEW U, Append(s, x) \in Seq(U) PROVE s \in Seq(U) /\ x \in U
      OBVIOUS
    <3>1. /\ Len(Append(s, x)) = Len(s) + 1 /\ Len(s) \in Nat
          /\ Append(s, x)[Len(s) + 1] = x
          /\ \A i \in 1 .. Len(s) : Append(s, x)[i] = s[i]
      BY <1>2
    <3>2. \A i \in 1 .. (Len(s) + 1) : Append(s, x)[i] \in U
      BY <3>1
    <3>3. s = [i \in 1 .. Len(s) |-> s[i]]
      BY <1>2
    <3>4. \A i \in 1 .. Len(s) : s[i] \in U
      BY <3>1, <3>2
    <3> QED
      BY <3>1, <3>2, <3>3, <3>4
  <2>4. ASSUME Append(s, x) \in Seq(S)
        PROVE  Only(q \o Append(s, x), S) = Only(q, S) \o Append(s, x)
    <3>1. s \in Seq(S) /\ x \in S
      BY <2>3, <2>4
    <3>2. Only(q \o s, S) = Only(q, S) \o s
      BY <1>2, <3>1
    <3>3. s \in Seq(T) /\ x \in T
      BY <1>2
    <3>4. PICK o \in Seq(T) : o = Only(q, S)
      BY <1>0
    <3>5. o \o s \in Seq(T) /\ o \o Append(s, x) = Append(o \o s, x)
      BY <3>3
    <3> QED
      BY <2>2, <3>1, <3>2, <3>4, <3>5
  <2>5. ASSUME Append(s, x) \in Seq(T \ S)
        PROVE  Only(q \o Append(s, x), S) = Only(q, S)
    BY <1>2, <2>2, <2>3, <2>5
  <2> QED
    BY <2>1, <2>4, <2>5
<1> HIDE DEF P
<1>3. f \in P
  BY <1>1, <1>2, QueueInduction
<1> HIDE DEF Joins
<1> QED
  BY <1>3 DEF P

LEMMA OnlyOthers ==
  ASSUME NEW T, NEW S, NEW q, q \in Seq(T), NEW f, f \in Seq(T), f \in Seq(T \ S)
  PROVE  Only(q \o f, S) = Only(q, S)
<1>1. Joins(T, S, q, f)
  BY OnlyConcat
<1> QED
  BY <1>1 DEF Joins

-----------------------------------------------------------------------------
(* The acceptor in the whole server. *)

\* The acceptor in KuroNet's variables: its queue is the io_context's without the
\* chat's handlers.
Acceptor == INSTANCE TCPServer_proofs WITH ready <- Only(ready, Server!Handler)

Queued == Server!Handler \cup Talk!Handler

\* A handler is of the acceptor or of the chat.
LEMMA Kinds ==
  /\ \A h \in Server!Handler : h.op \in {"accept", "read"} /\ h \notin Talk!Handler
  /\ \A h \in Talk!Handler : h.op \in {"work", "message"} /\ h \notin Server!Handler
BY DEF Server!Handler, Talk!Handler, Talk!Work

\* What running the handler at the head does to the part of the queue in K.
LEMMA OnlyRuns ==
  ASSUME NEW T, NEW K, NEW q \in Seq(T), q # <<>>
  PROVE  /\ Tail(q) \in Seq(T) /\ Head(q) \in T
         /\ Head(q) \in K => /\ Only(q, K) # <<>> /\ Head(Only(q, K)) = Head(q)
                             /\ Tail(Only(q, K)) = Only(Tail(q), K)
         /\ Head(q) \notin K => Only(Tail(q), K) = Only(q, K)
<1>1. Tail(q) \in Seq(T) /\ Head(q) \in T
  OBVIOUS
<1>2. ASSUME Head(q) \in K
      PROVE  /\ Only(q, K) # <<>> /\ Head(Only(q, K)) = Head(q)
             /\ Tail(Only(q, K)) = Only(Tail(q), K)
  <2>1. Only(q, K) = <<Head(q)>> \o Only(Tail(q), K)
    BY <1>2, OnlyTail
  <2>2. Only(Tail(q), K) \in Seq(K)
    BY <1>1, OnlyType
  <2>3. \A s \in Seq(K), h \in K : /\ <<h>> \o s # <<>> /\ Head(<<h>> \o s) = h
                                   /\ Tail(<<h>> \o s) = s
    OBVIOUS
  <2> QED
    BY <1>2, <2>1, <2>2, <2>3
<1>3. Head(q) \notin K => Only(Tail(q), K) = Only(q, K)
  BY OnlyTail
<1> QED
  BY <1>1, <1>2, <1>3

\* The queue and its head.
LEMMA QueueIs ==
  ASSUME KuroInv
  PROVE  /\ ready \in Seq(Queued)
         /\ ready # <<>> =>
              /\ Head(ready) \in Queued
              /\ Head(ready).op \in {"accept", "read"} => Head(ready) \in Server!Handler
              /\ Head(ready).op \in {"work", "message"} => Head(ready) \in Talk!Handler
<1>1. ready \in Seq(Queued)
  BY QueueStays DEF KuroInv, Types, Handlers, Queued
<1>2. ready # <<>> => Head(ready) \in Queued
  BY <1>1
<1> QED
  BY <1>1, <1>2, Kinds DEF Queued

\* do_accept, in the acceptor's part of the queue.
LEMMA AcceptsAlike ==
  ASSUME NEW q \in Seq(Queued), Server!do_accept(q)
  PROVE  Acceptor!do_accept(Only(q, Server!Handler))
<1>1. [op |-> "accept", socket |-> NoConn] \in Server!Handler
  BY DEF Server!Handler
<1>2. Only(Append(q, [op |-> "accept", socket |-> NoConn]), Server!Handler)
        = Append(Only(q, Server!Handler), [op |-> "accept", socket |-> NoConn])
  BY <1>1, OnlyAppend DEF Queued
<1> QED
  BY <1>2 DEF Server!do_accept, Acceptor!do_accept

LEMMA SameCardinality == \A S : Acceptor!Cardinality(S) = Server!Cardinality(S)
BY DEF Acceptor!Cardinality, Server!Cardinality, Acceptor!IsFiniteSet, Server!IsFiniteSet

\* The server's acceptor takes the steps that TCPServer has.
LEMMA AcceptorActs ==
  ASSUME KuroInv, [Server!Next]_(Server!vars)
  PROVE  [Acceptor!Next]_(Acceptor!vars)
<1> DEFINE H == Server!Handler
           a == Only(ready, H)
<1>1. /\ ready \in Seq(Queued) /\ H \subseteq Queued
      /\ ready # <<>> => Head(ready) \in Queued
      /\ ready # <<>> /\ Head(ready).op \in {"accept", "read"} => Head(ready) \in H
  BY QueueIs DEF Queued
<1>2. \A c \in Conns \cup {NoConn} :
        [op |-> "accept", socket |-> c] \in H /\ [op |-> "read", socket |-> c] \in H
  BY DEF Server!Handler
<1> HIDE DEF H
<1>3. ASSUME NEW h \in H PROVE Only(Append(ready, h), H) = Append(a, h)
  BY <1>1, OnlyAppend
<1>4. ASSUME NEW op \in {"accept", "read"}, NEW S, Server!Runs(op, S)
      PROVE  /\ Acceptor!Runs(op, S) /\ ready # <<>>
             /\ Head(a) = Head(ready) /\ Tail(a) = Only(Tail(ready), H)
             /\ Tail(ready) \in Seq(Queued)
  <2>1. ready # <<>> /\ Head(ready) \in H
    BY <1>1, <1>4 DEF Server!Runs
  <2>2. /\ a # <<>> /\ Head(a) = Head(ready) /\ Tail(a) = Only(Tail(ready), H)
        /\ Tail(ready) \in Seq(Queued)
    BY <1>1, <2>1, OnlyRuns
  <2> QED
    BY <1>4, <2>1, <2>2 DEF Server!Runs, Acceptor!Runs, H
<1>5. \A s : Acceptor!In(s) = Server!In(s)
  BY DEF Acceptor!In, Server!In
<1>6. ASSUME NEW c \in Conns, Server!Connect(c) PROVE Acceptor!Connect(c)
  BY <1>6 DEF Server!Connect, Acceptor!Connect
<1>7. ASSUME NEW c \in Conns, Server!AcceptCompletes(c) PROVE Acceptor!AcceptCompletes(c)
  <2>1. Acceptor!Opened = Server!Opened
    BY <1>5 DEF Acceptor!Opened, Server!Opened
  <2>2. Acceptor!Cardinality(Acceptor!Opened) = Server!Cardinality(Server!Opened)
    BY <2>1, SameCardinality
  <2>3. \A d \in Conns \cup {NoConn} :
          Only(Append(ready, [op |-> "accept", socket |-> d]), H)
            = Append(a, [op |-> "accept", socket |-> d])
    BY <1>2, <1>3
  <2> QED
    BY <1>7, <2>2, <2>3 DEF Server!AcceptCompletes, Acceptor!AcceptCompletes, H
<1>8. ASSUME NEW c \in Conns, Server!ReadCompletes(c) PROVE Acceptor!ReadCompletes(c)
  <2>1. Only(Append(ready, [op |-> "read", socket |-> c]), H)
          = Append(a, [op |-> "read", socket |-> c])
    BY <1>2, <1>3
  <2> QED
    BY <1>8, <2>1 DEF Server!ReadCompletes, Acceptor!ReadCompletes, H
<1>9. ASSUME NEW S \in SUBSET Server!In("kept"), Server!Release(S)
      PROVE  S \in SUBSET Acceptor!In("kept") /\ Acceptor!Release(S)
  BY <1>5, <1>9 DEF Server!Release, Acceptor!Release
<1>10. CASE Server!start
  <2>1. Acceptor!do_accept(Only(ready, Server!Handler))
    BY <1>1, <1>10, AcceptsAlike DEF Server!start
  <2> QED
    BY <1>10, <2>1 DEF Server!start, Acceptor!start, Acceptor!Next
<1>11. CASE Server!stop
  <2>1. Only(Append(ready, [op |-> "accept", socket |-> NoConn]), H)
          = Append(a, [op |-> "accept", socket |-> NoConn])
    BY <1>2, <1>3
  <2>2. Acceptor!stop
    BY <1>11, <2>1 DEF Server!stop, Acceptor!stop, H
  <2> QED
    BY <2>2 DEF Acceptor!Next
<1>12. CASE Server!RunBegins \/ Server!RunReturns
  <2>1. ready = <<>> => a = <<>>
    BY OnlyEmpty
  <2>2. Acceptor!RunBegins \/ Acceptor!RunReturns
    BY <1>5, <1>12, <2>1
       DEF Server!RunBegins, Server!RunReturns, Acceptor!RunBegins, Acceptor!RunReturns,
           Server!Outstanding, Acceptor!Outstanding, H
  <2> QED
    BY <2>2 DEF Acceptor!Next, Acceptor!IoThread
<1>13. CASE Server!HandleAccept
  <2>1. /\ Acceptor!Runs("accept", Conns) /\ Head(a) = Head(ready)
        /\ Tail(a) = Only(Tail(ready), H) /\ Tail(ready) \in Seq(Queued)
    BY <1>4, <1>13 DEF Server!HandleAccept
  <2>2. Acceptor!do_accept(Tail(a))
    BY <1>13, <2>1, AcceptsAlike DEF Server!HandleAccept, H
  <2>3. Acceptor!HandleAccept
    BY <1>13, <2>1, <2>2 DEF Server!HandleAccept, Acceptor!HandleAccept, H
  <2> QED
    BY <2>3 DEF Acceptor!Next, Acceptor!IoThread
<1>14. CASE Server!HandleAcceptError
  <2> DEFINE h == [op |-> "read", socket |-> NoConn]
  <2>1. /\ Acceptor!Runs("accept", {NoConn}) /\ Tail(a) = Only(Tail(ready), H)
        /\ Tail(ready) \in Seq(Queued)
    BY <1>4, <1>14 DEF Server!HandleAcceptError
  <2>2. h \in H
    BY <1>2
  <2> HIDE DEF h
  <2>3. /\ Only(Append(Tail(ready), h), H) = Append(Tail(a), h)
        /\ Append(Tail(ready), h) \in Seq(Queued)
    <3> DEFINE s == Tail(ready)
    <3>1. h \in Queued /\ s \in Seq(Queued)
      BY <1>1, <2>1, <2>2
    <3> HIDE DEF s
    <3>2. Only(Append(s, h), H) = Append(Only(s, H), h) /\ Append(s, h) \in Seq(Queued)
      BY <2>2, <3>1, OnlyAppend
    <3> QED
      BY <2>1, <3>2 DEF s
  <2>4. Server!do_accept(Append(Tail(ready), h)) /\ UNCHANGED conn
    BY <1>14 DEF Server!HandleAcceptError, h
  <2>5. Acceptor!do_accept(Append(Tail(a), h))
    BY <2>3, <2>4, AcceptsAlike DEF H
  <2>6. Acceptor!HandleAcceptError
    BY <2>1, <2>4, <2>5 DEF Acceptor!HandleAcceptError, h, H
  <2> QED
    BY <2>6 DEF Acceptor!Next, Acceptor!IoThread
<1>15. CASE Server!HandleReadError
  <2>1. Acceptor!Runs("read", {NoConn}) /\ Tail(a) = Only(Tail(ready), H)
    BY <1>4, <1>15 DEF Server!HandleReadError
  <2>2. Acceptor!HandleReadError
    BY <1>15, <2>1 DEF Server!HandleReadError, Acceptor!HandleReadError, H
  <2> QED
    BY <2>2 DEF Acceptor!Next, Acceptor!IoThread
<1>16. CASE Server!HandleRead
  <2>1. /\ Acceptor!Runs("read", Conns) /\ Tail(a) = Only(Tail(ready), H)
        /\ Head(a) = Head(ready)
    BY <1>4, <1>16 DEF Server!HandleRead
  <2>2. Acceptor!HandleRead
    BY <1>16, <2>1 DEF Server!HandleRead, Acceptor!HandleRead, H
  <2> QED
    BY <2>2 DEF Acceptor!Next, Acceptor!IoThread
<1>17. CASE UNCHANGED Server!vars
  BY <1>17 DEF Server!vars, Acceptor!vars
<1> QED
  BY <1>6, <1>7, <1>8, <1>9, <1>10, <1>11, <1>12, <1>13, <1>14, <1>15, <1>16, <1>17
     DEF Server!Next, Server!IoThread, Acceptor!Next

-----------------------------------------------------------------------------
(* Two kinds of handlers in one queue. *)

\* Running a handler in L and queueing others in L leaves the part in K.
LEMMA OthersStay ==
  ASSUME NEW K, NEW L, L \subseteq Queued \ K, ready \in Seq(Queued), NEW f \in Seq(L),
         \/ ready' = ready \o f
         \/ ready # <<>> /\ Head(ready) \in L /\ ready' = Tail(ready) \o f
  PROVE  Only(ready', K) = Only(ready, K)
<1>1. f \in Seq(Queued)
  <2>1. L \subseteq Queued
    OBVIOUS
  <2> QED
    BY <2>1, QueueStays
<1>2. f \in Seq(Queued \ K)
  BY QueueStays
<1>3. ASSUME NEW q, q \in Seq(Queued) PROVE Only(q \o f, K) = Only(q, K)
  BY <1>1, <1>2, <1>3, OnlyOthers
<1>4. ASSUME ready # <<>>, Head(ready) \in L
      PROVE  Tail(ready) \in Seq(Queued) /\ Only(Tail(ready), K) = Only(ready, K)
  BY <1>4, OnlyRuns
<1>5. CASE ready' = ready \o f
  BY <1>3, <1>5
<1>6. CASE ready # <<>> /\ Head(ready) \in L /\ ready' = Tail(ready) \o f
  BY <1>3, <1>4, <1>6
<1> QED
  BY <1>5, <1>6

\* One handler behind a queue, as a sequence.
LEMMA QueueOne ==
  ASSUME NEW T, NEW L, L \subseteq T, NEW q \in Seq(T), NEW h \in L
  PROVE  <<h>> \in Seq(L) /\ Append(q, h) = q \o <<h>>
<1>1. h \in T
  OBVIOUS
<1>2. Append(q, h) = q \o <<h>>
  BY <1>1
<1>3. <<h>> \in Seq(L)
  OBVIOUS
<1> QED
  BY <1>2, <1>3

\* The handlers of aborted reads are the chat's.
LEMMA FailuresAre ==
  ASSUME KuroInv, NEW c \in Conns
  PROVE  Talk!Failures(c) \in Seq(Talk!Handler)
<1>1. reads[c] \in Seq(Seq(Talk!Piece))
  BY DEF KuroInv, Types, ChatTypes
<1>2. \A b \in Seq(Talk!Piece) : Talk!ReadDone(c, b, TRUE) \in Talk!Handler
  BY DEF Talk!ReadDone, Talk!Handler
<1>3. /\ \A i \in 1 .. Len(reads[c]) : reads[c][i] \in Seq(Talk!Piece)
      /\ Len(reads[c]) \in Nat /\ DOMAIN reads[c] = 1 .. Len(reads[c])
  BY <1>1
<1>4. Talk!Failures(c) \in [1 .. Len(reads[c]) -> Talk!Handler]
  BY <1>2, <1>3 DEF Talk!Failures
<1> QED
  BY <1>3, <1>4, IsQueue

\* A completed read has a buffer of pieces.
LEMMA BuffersAre ==
  ASSUME KuroInv, NEW c \in Conns, reads[c] # <<>>, NEW n \in 1 .. Len(stream[c])
  PROVE  Talk!ReadDone(c, Head(reads[c]) \o SubSeq(stream[c], 1, n), FALSE) \in Talk!Handler
<1>1. reads[c] \in Seq(Seq(Talk!Piece)) /\ stream[c] \in Seq(Talk!Piece)
  BY DEF KuroInv, Types, ChatTypes
<1>2. Head(reads[c]) \o SubSeq(stream[c], 1, n) \in Seq(Talk!Piece)
  BY <1>1
<1> QED
  BY <1>2 DEF Talk!ReadDone, Talk!Handler

\* A read's handler that runs.
LEMMA MessageRuns ==
  ASSUME KuroInv, Talk!Runs("message")
  PROVE  /\ ready # <<>> /\ Head(ready) \in Talk!Handler
         /\ Head(ready).conn \in Conns /\ Head(ready).buffer \in Seq(Talk!Piece)
         /\ Talk!ReadDone(Head(ready).conn, Head(ready).buffer, TRUE) \in Talk!Handler
<1>1. ready # <<>> /\ Head(ready) \in Talk!Handler /\ Head(ready).op = "message"
  BY QueueIs DEF Talk!Runs
<1>2. Head(ready).conn \in Conns /\ Head(ready).buffer \in Seq(Talk!Piece)
  BY <1>1 DEF Talk!Handler, Talk!Work
<1> QED
  BY <1>1, <1>2 DEF Talk!ReadDone, Talk!Handler

\* The chat runs and queues its own handlers only.
LEMMA ChatQueues ==
  ASSUME KuroInv, ChatMoves
  PROVE  \E f \in Seq(Talk!Handler) :
           \/ ready' = ready \o f
           \/ ready # <<>> /\ Head(ready) \in Talk!Handler /\ ready' = Tail(ready) \o f
<1> DEFINE Goal == \E f \in Seq(Talk!Handler) :
             \/ ready' = ready \o f
             \/ ready # <<>> /\ Head(ready) \in Talk!Handler /\ ready' = Tail(ready) \o f
<1>1. /\ ready \in Seq(Queued) /\ Talk!Handler \subseteq Queued
      /\ ready # <<>> => Tail(ready) \in Seq(Queued)
  BY QueueIs, Queues DEF Queued
<1>2. <<>> \in Seq(Talk!Handler) /\ \A q \in Seq(Queued) : q = q \o <<>>
  OBVIOUS
<1>3. CASE ready' = ready
  <2>1. ready' = ready \o <<>>
    BY <1>1, <1>2, <1>3
  <2> QED
    BY <1>2, <2>1, Zenon
<1>4. ASSUME NEW h \in Talk!Handler, ready' = Append(ready, h) PROVE Goal
  <2>1. <<h>> \in Seq(Talk!Handler) /\ Append(ready, h) = ready \o <<h>>
    BY <1>1, QueueOne
  <2> QED
    BY <1>4, <2>1, Zenon
<1>5. ASSUME ready # <<>>, Head(ready) \in Talk!Handler, ready' = Tail(ready)
      PROVE  Goal
  BY <1>1, <1>2, <1>5
<1>6. ASSUME NEW c \in Conns, Talk!PeerSends(c) \/ Talk!ReadSome(c) \/ Talk!ReadsEnd(c)
      PROVE  Goal
  <2>1. CASE Talk!PeerSends(c)
    BY <1>3, <2>1 DEF Talk!PeerSends
  <2>2. CASE Talk!ReadSome(c)
    BY <1>4, <2>2, BuffersAre DEF Talk!ReadSome
  <2>3. CASE Talk!ReadsEnd(c)
    BY <2>3, FailuresAre DEF Talk!ReadsEnd
  <2> QED
    BY <1>6, <2>1, <2>2, <2>3
<1>7. Talk!Work \in Talk!Handler
  BY DEF Talk!Handler
<1>8. ASSUME NEW h \in Hosts,
             Talk!StartLoads(h) \/ Talk!StopLoads(h) \/ Talk!HostGoesOn(h)
      PROVE  Goal
  BY <1>3, <1>4, <1>7, <1>8
     DEF Talk!StartLoads, Talk!StopLoads, Talk!HostGoesOn, Talk!StartStores,
         Talk!StartCallsWork, Talk!StartWorks, Talk!StopStores, Talk!work
<1>9. CASE Talk!HandleTimer
  BY <1>5, <1>9, QueueIs DEF Talk!HandleTimer, Talk!Runs
<1>10. CASE Talk!IoWorks
  BY <1>4, <1>7, <1>10 DEF Talk!IoWorks, Talk!work
<1>11. CASE Talk!HandlePartial
  <2>1. /\ ready # <<>> /\ Head(ready) \in Talk!Handler
        /\ Talk!ReadDone(Head(ready).conn, Head(ready).buffer, TRUE) \in Talk!Handler
    BY <1>11, MessageRuns DEF Talk!HandlePartial
  <2>2. \/ ready' = Tail(ready)
        \/ ready' = Append(Tail(ready),
                      Talk!ReadDone(Head(ready).conn, Head(ready).buffer, TRUE))
    BY <1>11 DEF Talk!HandlePartial
  <2>3. \A h \in Talk!Handler :
          <<h>> \in Seq(Talk!Handler) /\ Append(Tail(ready), h) = Tail(ready) \o <<h>>
    BY <1>1, <2>1, QueueOne
  <2> QED
    BY <1>5, <2>1, <2>2, <2>3
<1>12. CASE Talk!HandleLine
  BY <1>5, <1>12, MessageRuns DEF Talk!HandleLine
<1>13. CASE Talk!HandleReadError
  <2>1. ready # <<>> /\ Head(ready) \in Talk!Handler /\ Head(ready).conn \in Conns
    BY <1>13, MessageRuns DEF Talk!HandleReadError
  <2>2. Talk!Failures(Head(ready).conn) \in Seq(Talk!Handler)
    BY <2>1, FailuresAre
  <2>3. \/ ready' = Tail(ready) \o Talk!Failures(Head(ready).conn)
        \/ ready' = Tail(ready)
    BY <1>13, ReadErrorRemoves
  <2> QED
    BY <1>5, <2>1, <2>2, <2>3
<1>14. ASSUME NEW c \in Conns, Talk!WriteEnds(c) \/ Talk!WriteFails(c) PROVE Goal
  BY <1>3, <1>14, WritesRemoveNobody DEF Talk!WriteEnds
<1> QED
  BY <1>6, <1>8, <1>9, <1>10, <1>11, <1>12, <1>13, <1>14 DEF ChatMoves, Talk!IoThread

\* So does the acceptor.
LEMMA ServerQueues ==
  ASSUME KuroInv, [Server!Next]_(Server!vars)
  PROVE  \E f \in Seq(Server!Handler) :
           \/ ready' = ready \o f
           \/ ready # <<>> /\ Head(ready) \in Server!Handler /\ ready' = Tail(ready) \o f
<1> DEFINE Goal == \E f \in Seq(Server!Handler) :
             \/ ready' = ready \o f
             \/ ready # <<>> /\ Head(ready) \in Server!Handler /\ ready' = Tail(ready) \o f
<1>1. /\ ready \in Seq(Queued) /\ Server!Handler \subseteq Queued
      /\ ready # <<>> => Tail(ready) \in Seq(Queued)
  BY QueueIs, Queues DEF Queued
<1>2. <<>> \in Seq(Server!Handler) /\ \A q \in Seq(Queued) : q = q \o <<>>
  OBVIOUS
<1>3. CASE ready' = ready
  <2>1. ready' = ready \o <<>>
    BY <1>1, <1>2, <1>3
  <2> QED
    BY <1>2, <2>1, Zenon
<1>4. ASSUME NEW h \in Server!Handler, ready' = Append(ready, h) PROVE Goal
  <2>1. <<h>> \in Seq(Server!Handler) /\ Append(ready, h) = ready \o <<h>>
    BY <1>1, QueueOne
  <2> QED
    BY <1>4, <2>1, Zenon
<1>5. \A c \in Conns \cup {NoConn} : /\ [op |-> "accept", socket |-> c] \in Server!Handler
                                    /\ [op |-> "read", socket |-> c] \in Server!Handler
  BY DEF Server!Handler
<1>6. ASSUME NEW op \in {"accept", "read"}, NEW S, Server!Runs(op, S)
      PROVE  ready # <<>> /\ Head(ready) \in Server!Handler /\ Tail(ready) \in Seq(Queued)
  BY <1>1, <1>6, QueueIs DEF Server!Runs
<1>7. ASSUME ready # <<>>, Head(ready) \in Server!Handler, ready' = Tail(ready)
      PROVE  Goal
  BY <1>1, <1>2, <1>7
<1>8. CASE Server!start
  BY <1>3, <1>4, <1>5, <1>8 DEF Server!start, Server!do_accept
<1>9. CASE Server!stop
  BY <1>3, <1>4, <1>5, <1>9 DEF Server!stop
<1>10. ASSUME NEW c \in Conns,
              Server!Connect(c) \/ Server!AcceptCompletes(c) \/ Server!ReadCompletes(c)
       PROVE  Goal
  BY <1>3, <1>4, <1>5, <1>10
     DEF Server!Connect, Server!AcceptCompletes, Server!ReadCompletes
<1>11. CASE \/ \E S \in SUBSET Server!In("kept") : Server!Release(S)
            \/ Server!RunBegins \/ Server!RunReturns \/ UNCHANGED Server!vars
  BY <1>3, <1>11 DEF Server!Release, Server!RunBegins, Server!RunReturns, Server!vars
<1>12. CASE Server!HandleAccept
  <2>1. ready # <<>> /\ Head(ready) \in Server!Handler /\ Tail(ready) \in Seq(Queued)
    BY <1>6, <1>12 DEF Server!HandleAccept
  <2> DEFINE e == [op |-> "accept", socket |-> NoConn]
  <2>2. ready' = Tail(ready) \/ ready' = Append(Tail(ready), e)
    BY <1>12 DEF Server!HandleAccept, Server!do_accept
  <2>3. e \in Server!Handler
    BY <1>5
  <2> HIDE DEF e
  <2>4. <<e>> \in Seq(Server!Handler) /\ Append(Tail(ready), e) = Tail(ready) \o <<e>>
    BY <1>1, <2>1, <2>3, QueueOne
  <2> QED
    BY <1>7, <2>1, <2>2, <2>4
<1>13. CASE Server!HandleAcceptError
  <2>1. ready # <<>> /\ Head(ready) \in Server!Handler /\ Tail(ready) \in Seq(Queued)
    BY <1>6, <1>13 DEF Server!HandleAcceptError
  <2> DEFINE e == [op |-> "accept", socket |-> NoConn]
             r == [op |-> "read", socket |-> NoConn]
  <2>2. \/ ready' = Append(Tail(ready), r)
        \/ ready' = Append(Append(Tail(ready), r), e)
    BY <1>13 DEF Server!HandleAcceptError, Server!do_accept
  <2>3. e \in Server!Handler /\ r \in Server!Handler
    BY <1>5
  <2> HIDE DEF e, r
  <2>4. <<r>> \in Seq(Server!Handler) /\ Append(Tail(ready), r) = Tail(ready) \o <<r>>
    BY <1>1, <2>1, <2>3, QueueOne
  <2>5. e \in Queued /\ r \in Queued
    BY <1>1, <2>3
  <2>6. Append(Append(Tail(ready), r), e) = Tail(ready) \o <<r, e>>
    BY <2>1, <2>5
  <2>7. <<r, e>> \in Seq(Server!Handler)
    BY <2>3
  <2> QED
    BY <2>1, <2>2, <2>4, <2>6, <2>7
<1>14. CASE Server!HandleReadError \/ Server!HandleRead
  BY <1>6, <1>7, <1>14 DEF Server!HandleReadError, Server!HandleRead
<1> QED
  BY <1>8, <1>9, <1>10, <1>11, <1>12, <1>13, <1>14 DEF Server!Next, Server!IoThread

\* Neither sees the other in the queue.
LEMMA PartsStay ==
  ASSUME KuroInv
  PROVE  /\ ChatMoves => Only(ready', Server!Handler) = Only(ready, Server!Handler)
         /\ [Server!Next]_(Server!vars)
              => Only(ready', Talk!Handler) = Only(ready, Talk!Handler)
<1>1. /\ ready \in Seq(Queued)
      /\ Talk!Handler \subseteq Queued \ Server!Handler
      /\ Server!Handler \subseteq Queued \ Talk!Handler
  BY QueueIs, Kinds DEF Queued
<1>2. ASSUME ChatMoves PROVE Only(ready', Server!Handler) = Only(ready, Server!Handler)
  BY <1>1, <1>2, ChatQueues, OthersStay
<1>3. ASSUME [Server!Next]_(Server!vars)
      PROVE  Only(ready', Talk!Handler) = Only(ready, Talk!Handler)
  BY <1>1, <1>3, ServerQueues, OthersStay
<1> QED
  BY <1>2, <1>3

-----------------------------------------------------------------------------
(* The acceptor's behaviour in the whole server. *)

\* What a step does to the acceptor's variables and the chat's.
LEMMA ServerKinds ==
  ASSUME [Next]_vars
  PROVE  \/ [Server!Next]_(Server!vars) /\ UNCHANGED chatVars
         \/ Releases /\ UNCHANGED <<ready, chatVars>>
         \/ Running /\ ChatMoves /\ (UNCHANGED serverVars \/ Releases)
         \/ ~Running'
<1> DEFINE Alike == [Server!Next]_(Server!vars) /\ UNCHANGED chatVars
           Frees == Releases /\ UNCHANGED <<ready, chatVars>>
           Chats == Running /\ ChatMoves /\ (UNCHANGED serverVars \/ Releases)
<1>1. PeerStep => Alike \/ Chats
  BY DEF PeerStep, ServerAlone, SessionAlone, ChatAlone, serverVars, Server!vars,
         Server!Next, ChatMoves
<1>2. ASSUME NEW c \in Conns
      PROVE  /\ AcceptCompletes(c) \/ HeaderCompletes(c) => Alike
             /\ ReadSome(c) \/ ReadsEnd(c) \/ HandleWrite(c) => Chats
  BY DEF AcceptCompletes, HeaderCompletes, ReadSome, ReadsEnd, HandleWrite, ServerAlone,
         ChatAlone, Server!Next, ChatMoves
<1>3. start \/ stop => Alike
  BY DEF start, stop, ServerAlone, Server!Next
<1>4. ASSUME NEW h \in Hosts, HostCalls(h) \/ HostGoesOn(h) PROVE Chats
  BY <1>4 DEF HostCalls, HostGoesOn, ChatAlone, ChatMoves
<1>5. ASSUME NEW how \in {"exited", "command_exception", "io_exception"}, Ends(how)
      PROVE  ~Running'
  BY <1>5 DEF Ends, Running
<1>6. CommandThread => Frees \/ ~Running'
  BY <1>5 DEF CommandThread, create_token, ApproveCheckToken, approve_client,
         get_wait_clients, CommandEnds, HostCommands
<1>7. RunBegins \/ RunReturns \/ HandleAccept \/ HandleError \/ HandleHeader => Alike
  BY DEF RunBegins, RunReturns, HandleAccept, HandleError, HandleHeader, ServerAlone,
         Server!Next, Server!IoThread
<1>8. HandleChat \/ HandleReadError \/ IoWorks => Chats
  BY DEF HandleChat, HandleReadError, IoWorks, Handles, ChatAlone, ChatMoves,
         Talk!IoThread
<1>9. HeaderThrows => ~Running'
  BY <1>5 DEF HeaderThrows
<1>10. UNCHANGED vars => Alike
  BY DEF vars, serverVars, Server!vars
<1> HIDE DEF Alike, Frees, Chats
<1>11. Alike \/ Frees \/ Chats \/ ~Running'
  BY <1>1, <1>2, <1>3, <1>4, <1>6, <1>7, <1>8, <1>9, <1>10 DEF Next, IoThread
<1> QED
  BY <1>11 DEF Alike, Frees, Chats

\* Every step of the running server is one of the acceptor, or none that it sees.
LEMMA AcceptorStep ==
  ASSUME KuroInv, [Next]_vars, Running'
  PROVE  [Acceptor!Next]_(Acceptor!vars)
<1>1. ASSUME Releases, Only(ready', Server!Handler) = Only(ready, Server!Handler)
      PROVE  Acceptor!Next
  <2>1. PICK S \in SUBSET Server!In("kept") :
          conn' = [c \in Conns |-> IF c \in S THEN "closed" ELSE conn[c]]
    BY <1>1 DEF Releases
  <2>2. S \in SUBSET Acceptor!In("kept")
    BY DEF Acceptor!In, Server!In
  <2>3. Acceptor!Release(S)
    BY <1>1, <2>1 DEF Releases, Acceptor!Release
  <2> QED
    BY <2>2, <2>3 DEF Acceptor!Next
<1>2. ASSUME UNCHANGED serverVars,
             Only(ready', Server!Handler) = Only(ready, Server!Handler)
      PROVE  UNCHANGED Acceptor!vars
  BY <1>2 DEF serverVars, Acceptor!vars
<1> QED
  BY <1>1, <1>2, ServerKinds, AcceptorActs, PartsStay

\* The server starts as the acceptor does.
LEMMA AcceptorInit == Init => Acceptor!Init
<1>1. Only(<<>>, Server!Handler) = <<>>
  BY OnlyEmpty
<1> QED
  BY <1>1 DEF Init, Acceptor!Init

LEMMA AcceptorAssumption == Acceptor!ServerAssumption
BY KuroNetAssumption DEF Acceptor!ServerAssumption

\* As long as the process runs, what it does to the acceptor is what TCPServer
\* says: io_context's one queue, in which the chat's handlers stand between the
\* acceptor's, is to TCPServer::do_accept and stop() as one of its own.
THEOREM RunsTheAcceptor ==
  Spec => Acceptor!Init /\ [][Running' => [Acceptor!Next]_(Acceptor!vars)]_vars
<1>1. KuroInv /\ [Next]_vars => [Running' => [Acceptor!Next]_(Acceptor!vars)]_vars
  BY AcceptorStep
<1> QED
  BY <1>1, AcceptorInit, KuroInvariant, PTL DEF Spec

AcceptorInv == Running => Acceptor!ServerInv /\ Acceptor!QueueInv

LEMMA AcceptorKeeps == KuroInv /\ AcceptorInv /\ [Next]_vars => AcceptorInv'
<1> SUFFICES ASSUME KuroInv, AcceptorInv, [Next]_vars, Running'
             PROVE  Acceptor!ServerInv' /\ Acceptor!QueueInv'
  BY DEF AcceptorInv
<1>1. Running
  BY StepsRun DEF Running, vars, sessionVars
<1>2. Acceptor!ServerInv /\ Acceptor!QueueInv
  BY <1>1 DEF AcceptorInv
<1>3. [Acceptor!Next]_(Acceptor!vars)
  BY AcceptorStep
<1> QED
  BY <1>2, <1>3, AcceptorAssumption, Acceptor!ServerStep, Acceptor!QueueStep

LEMMA AcceptorHolds == Spec => []AcceptorInv
<1>1. Init => AcceptorInv
  BY AcceptorInit, AcceptorAssumption, Acceptor!ServerInit, Acceptor!QueueInit
     DEF AcceptorInv
<1> QED
  BY <1>1, AcceptorKeeps, KuroInvariant, PTL DEF Spec

\* The acceptor's properties in the whole server: one accept outstanding, one
\* handler for every connection that waits for one, and after stop() no intake
\* (TCPServer::do_accept, TCPServer::stop), however the chat's handlers and the
\* manager's commands come between.
THEOREM ServerAccepts ==
  Spec => /\ [](Running => Acceptor!OneAccept /\ Acceptor!HandlerForEach)
          /\ [][Running' /\ acceptor = "closed" =>
                  /\ Acceptor!In("reading")' \subseteq
                       Acceptor!In("reading") \cup Acceptor!In("accepted")
                  /\ Acceptor!Cardinality(Acceptor!In("accepted")) <= 1
                  /\ Acceptor!In("accepted")' \subseteq Acceptor!In("accepted")]_vars
<1>1. AcceptorInv => (Running => Acceptor!OneAccept /\ Acceptor!HandlerForEach)
  BY AcceptorAssumption, Acceptor!QueueGives DEF AcceptorInv, Acceptor!ServerInv
<1> DEFINE Intake == /\ Acceptor!In("reading")' \subseteq
                          Acceptor!In("reading") \cup Acceptor!In("accepted")
                     /\ Acceptor!Cardinality(Acceptor!In("accepted")) <= 1
                     /\ Acceptor!In("accepted")' \subseteq Acceptor!In("accepted")
<1>2. KuroInv /\ AcceptorInv /\ [Next]_vars
        => [Running' /\ acceptor = "closed" => Intake]_vars
  <2> SUFFICES ASSUME KuroInv, AcceptorInv, [Next]_vars, Running', acceptor = "closed"
               PROVE  Intake
    OBVIOUS
  <2>1. Acceptor!ServerInv /\ Acceptor!QueueInv
    BY StepsRun DEF Running, vars, sessionVars, AcceptorInv
  <2>2. [Acceptor!Next]_(Acceptor!vars)
    BY AcceptorStep
  <2> QED
    BY <2>1, <2>2, AcceptorAssumption, Acceptor!StopStep
<1> QED
  BY <1>1, <1>2, AcceptorHolds, KuroInvariant, PTL DEF Spec

-----------------------------------------------------------------------------
(* The chat in the whole server. *)

\* The chat in KuroNet's variables: its queue is the io_context's without the
\* acceptor's handlers.
Talker == INSTANCE Chat_proofs WITH
  Names    <- Conns \cup {NoConn},
  Id       <- [c \in Conns |-> c],
  Login    <- [c \in Conns |-> NoConn],
  started  <- chatting,
  clients_ <- Members,
  peer     <- [c \in Conns |-> IF Approved(c) THEN peer[c] ELSE "absent"],
  ready    <- Only(ready, Talk!Handler)

\* Queueing handlers of one kind.
LEMMA OnlyJoins ==
  ASSUME NEW T, NEW S, NEW q, q \in Seq(T), NEW f, f \in Seq(T), f \in Seq(S)
  PROVE  Only(q \o f, S) = Only(q, S) \o f
<1>1. Joins(T, S, q, f)
  BY OnlyConcat
<1> QED
  BY <1>1 DEF Joins

\* What the chat's steps do to its part of the queue.
LEMMA TalkQueues ==
  ASSUME KuroInv
  PROVE  /\ \A h \in Talk!Handler :
              Only(Append(ready, h), Talk!Handler) = Append(Only(ready, Talk!Handler), h)
         /\ \A c \in Conns :
              Only(ready \o Talk!Failures(c), Talk!Handler)
                = Only(ready, Talk!Handler) \o Talk!Failures(c)
         /\ ready # <<>> /\ Head(ready) \in Talk!Handler =>
              LET a == Only(ready, Talk!Handler)
              IN /\ a # <<>> /\ Head(a) = Head(ready)
                 /\ Only(Tail(ready), Talk!Handler) = Tail(a)
                 /\ \A h \in Talk!Handler :
                      Only(Append(Tail(ready), h), Talk!Handler) = Append(Tail(a), h)
                 /\ \A c \in Conns :
                      Only(Tail(ready) \o Talk!Failures(c), Talk!Handler)
                        = Tail(a) \o Talk!Failures(c)
<1> DEFINE H == Talk!Handler
<1>1. H \subseteq Queued
  BY DEF Queued
<1>2. ASSUME NEW c \in Conns
      PROVE  Talk!Failures(c) \in Seq(H) /\ Talk!Failures(c) \in Seq(Queued)
  <2>1. Talk!Failures(c) \in Seq(H)
    BY FailuresAre
  <2> QED
    BY <1>1, <2>1, QueueStays
<1> HIDE DEF H
<1>3. ASSUME NEW q, q \in Seq(Queued)
      PROVE  /\ \A h \in H : Only(Append(q, h), H) = Append(Only(q, H), h)
             /\ \A c \in Conns :
                  Only(q \o Talk!Failures(c), H) = Only(q, H) \o Talk!Failures(c)
  <2>1. ASSUME NEW h \in H PROVE Only(Append(q, h), H) = Append(Only(q, H), h)
    BY <1>1, <1>3, OnlyAppend
  <2>2. ASSUME NEW c \in Conns
        PROVE  Only(q \o Talk!Failures(c), H) = Only(q, H) \o Talk!Failures(c)
    BY <1>2, <1>3, OnlyJoins
  <2> QED
    BY <2>1, <2>2
<1>4. ready \in Seq(Queued)
  BY QueueIs
<1>5. ASSUME ready # <<>>, Head(ready) \in H
      PROVE  /\ Tail(ready) \in Seq(Queued) /\ Only(ready, H) # <<>>
             /\ Head(Only(ready, H)) = Head(ready)
             /\ Only(Tail(ready), H) = Tail(Only(ready, H))
  BY <1>4, <1>5, OnlyRuns
<1>6. ASSUME ready # <<>>, Head(ready) \in H
      PROVE  /\ \A h \in H : Only(Append(Tail(ready), h), H) = Append(Tail(Only(ready, H)), h)
             /\ \A c \in Conns :
                  Only(Tail(ready) \o Talk!Failures(c), H)
                    = Tail(Only(ready, H)) \o Talk!Failures(c)
  BY <1>3, <1>5, <1>6, Zenon
<1>7. /\ \A h \in H : Only(Append(ready, h), H) = Append(Only(ready, H), h)
      /\ \A c \in Conns :
           Only(ready \o Talk!Failures(c), H) = Only(ready, H) \o Talk!Failures(c)
  BY <1>3, <1>4, Zenon
<1> QED
  BY <1>5, <1>6, <1>7, Zenon DEF H

\* The handler that the chat runs is the first of its own.
LEMMA TalkRuns ==
  ASSUME KuroInv, NEW op \in {"work", "message"}, Talk!Runs(op)
  PROVE  /\ Talker!Runs(op) /\ ready # <<>> /\ Head(ready) \in Talk!Handler
         /\ Head(Only(ready, Talk!Handler)) = Head(ready)
         /\ Only(Tail(ready), Talk!Handler) = Tail(Only(ready, Talk!Handler))
<1>1. ready # <<>> /\ Head(ready) \in Talk!Handler
  BY QueueIs DEF Talk!Runs
<1>2. /\ Only(ready, Talk!Handler) # <<>>
      /\ Head(Only(ready, Talk!Handler)) = Head(ready)
      /\ Only(Tail(ready), Talk!Handler) = Tail(Only(ready, Talk!Handler))
  BY <1>1, TalkQueues
<1> QED
  BY <1>1, <1>2 DEF Talk!Runs, Talker!Runs

\* work, called by whichever thread.
LEMMA TalkWorks ==
  ASSUME KuroInv, Talk!work(ready)
  PROVE  Talker!work(Only(ready, Talk!Handler))
<1>1. Talk!Work \in Talk!Handler
  BY DEF Talk!Handler
<1>2. Only(Append(ready, Talk!Work), Talk!Handler)
        = Append(Only(ready, Talk!Handler), Talk!Work)
  BY <1>1, TalkQueues
<1>3. Talk!Work = Talker!Work
  BY DEF Talk!Work, Talker!Work
<1>4. ready' = Append(ready, Talk!Work)
  BY DEF Talk!work
<1>5. (Only(ready, Talk!Handler))' = Append(Only(ready, Talk!Handler), Talker!Work)
  BY <1>2, <1>3, <1>4
<1> QED
  BY <1>5 DEF Talk!work, Talker!work, Talk!peerVars, Talker!peerVars

\* What the chat does in the server, Chat has as a step.
LEMMA TalkerActs ==
  ASSUME KuroInv, ChatMoves
  PROVE  Talker!Next
<1> DEFINE H == Talk!Handler
           a == Only(ready, H)
<1>1. UNCHANGED ready => a' = a
  OBVIOUS
<1>2. /\ Talker!hostVars = Talk!hostVars /\ Talker!peerVars = Talk!peerVars
  BY DEF Talker!hostVars, Talk!hostVars, Talker!peerVars, Talk!peerVars
<1>3. \A c, b, f : Talker!ReadDone(c, b, f) = Talk!ReadDone(c, b, f)
  BY DEF Talker!ReadDone, Talk!ReadDone
<1>4. \A c : Talker!Failures(c) = Talk!Failures(c)
  BY <1>3 DEF Talker!Failures, Talk!Failures
<1>5. \A b : Talker!FirstEnd(b) = Talk!FirstEnd(b)
  BY DEF Talker!FirstEnd, Talk!FirstEnd, Talker!EndsLine, Talk!EndsLine
<1>6. ASSUME NEW c \in Conns, Talk!PeerSends(c) PROVE Talker!PeerSends(c)
  BY <1>6 DEF Talk!PeerSends, Talker!PeerSends, Talker!hostVars, Talk!hostVars
<1>7. ASSUME NEW c \in Conns, Talk!ReadSome(c) PROVE Talker!ReadSome(c)
  <2>1. PICK n \in 1 .. Len(stream[c]) :
          LET buffer == Head(reads[c]) \o SubSeq(stream[c], 1, n)
          IN /\ stream' = [stream EXCEPT ![c] = SubSeq(@, n + 1, Len(@))]
             /\ ready' = Append(ready, Talk!ReadDone(c, buffer, FALSE))
             /\ cut' = IF Talk!EndsLine(buffer[Len(buffer)]) THEN cut ELSE cut \cup {c}
    BY <1>7 DEF Talk!ReadSome
  <2> DEFINE b == Head(reads[c]) \o SubSeq(stream[c], 1, n)
  <2>2. Talk!ReadDone(c, b, FALSE) \in H
    BY <1>7, BuffersAre DEF Talk!ReadSome
  <2>3. ready' = Append(ready, Talk!ReadDone(c, b, FALSE))
    BY <2>1
  <2>4. a' = Append(a, Talker!ReadDone(c, b, FALSE))
    BY <1>3, <2>2, <2>3, TalkQueues
  <2> HIDE DEF a, H
  <2> QED
    BY <1>7, <2>1, <2>4
       DEF Talk!ReadSome, Talker!ReadSome, Talker!hostVars, Talk!hostVars,
           Talker!peerVars, Talk!peerVars, Talk!EndsLine, Talker!EndsLine, a, H
<1>8. ASSUME NEW c \in Conns, Talk!ReadsEnd(c) PROVE Talker!ReadsEnd(c)
  <2>1. a' = a \o Talker!Failures(c)
    BY <1>4, <1>8, TalkQueues DEF Talk!ReadsEnd
  <2> QED
    BY <1>8, <2>1
       DEF Talk!ReadsEnd, Talker!ReadsEnd, Talker!hostVars, Talk!hostVars,
           Talker!peerVars, Talk!peerVars
<1>9. ASSUME NEW h \in Hosts,
             Talk!StartLoads(h) \/ Talk!StopLoads(h) \/ Talk!HostGoesOn(h)
      PROVE  Talker!StartLoads(h) \/ Talker!StopLoads(h) \/ Talker!HostGoesOn(h)
  <2>1. Talk!StartLoads(h) => Talker!StartLoads(h)
    BY DEF Talk!StartLoads, Talker!StartLoads, Talk!HostGoes, Talker!HostGoes,
           Talker!peerVars, Talk!peerVars
  <2>2. Talk!StopLoads(h) => Talker!StopLoads(h)
    BY DEF Talk!StopLoads, Talker!StopLoads, Talk!HostGoes, Talker!HostGoes,
           Talker!peerVars, Talk!peerVars
  <2>3. Talk!StartStores(h) => Talker!StartStores(h)
    BY DEF Talk!StartStores, Talker!StartStores, Talk!HostGoes, Talker!HostGoes,
           Talker!peerVars, Talk!peerVars
  <2>4. Talk!StartCallsWork(h) => Talker!StartCallsWork(h)
    BY DEF Talk!StartCallsWork, Talker!StartCallsWork, Talk!HostGoes, Talker!HostGoes,
           Talker!peerVars, Talk!peerVars
  <2>5. Talk!StopStores(h) => Talker!StopStores(h)
    BY DEF Talk!StopStores, Talker!StopStores, Talk!HostGoes, Talker!HostGoes,
           Talker!peerVars, Talk!peerVars
  <2>6. Talk!StartWorks(h) => Talker!StartWorks(h)
    BY TalkWorks
       DEF Talk!StartWorks, Talker!StartWorks, Talk!HostGoes, Talker!HostGoes
  <2> QED
    BY <1>9, <2>1, <2>2, <2>3, <2>4, <2>5, <2>6 DEF Talk!HostGoesOn, Talker!HostGoesOn
<1>10. CASE Talk!HandleTimer
  <2>1. Talker!Runs("work") /\ Only(Tail(ready), H) = Tail(a)
    BY <1>10, TalkRuns DEF Talk!HandleTimer
  <2>2. a' = Tail(a)
    BY <1>10, <2>1 DEF Talk!HandleTimer
  <2>3. Talker!HandleTimer
    BY <1>10, <2>1, <2>2
       DEF Talk!HandleTimer, Talker!HandleTimer, Talker!hostVars, Talk!hostVars,
           Talker!peerVars, Talk!peerVars
  <2> QED
    BY <2>3 DEF Talker!Next, Talker!IoThread
<1>11. CASE Talk!IoWorks
  <2>1. Talker!IoWorks
    BY <1>11, TalkWorks DEF Talk!IoWorks, Talker!IoWorks
  <2> QED
    BY <2>1 DEF Talker!Next, Talker!IoThread
<1>12. CASE Talk!HandlePartial
  <2>1. /\ Talker!Runs("message") /\ Only(Tail(ready), H) = Tail(a)
        /\ Head(a) = Head(ready) /\ ready # <<>> /\ Head(ready) \in H
    BY <1>12, TalkRuns DEF Talk!HandlePartial
  <2>2. Talk!ReadDone(Head(ready).conn, Head(ready).buffer, TRUE) \in H
    BY <1>12, MessageRuns DEF Talk!HandlePartial
  <2> DEFINE e == Talk!ReadDone(Head(ready).conn, Head(ready).buffer, TRUE)
  <2>3. Only(Append(Tail(ready), e), H) = Append(Tail(a), e)
    BY <2>1, <2>2, TalkQueues
  <2>4. e = Talker!ReadDone(Head(a).conn, Head(a).buffer, TRUE)
    BY <1>3, <2>1
  <2>5. \/ /\ Head(ready).conn \in Members /\ a' = Tail(a)
           /\ reads' = [reads EXCEPT ![Head(ready).conn] = Append(@, Head(ready).buffer)]
        \/ /\ Head(ready).conn \notin Members /\ a' = Append(Tail(a), e)
           /\ UNCHANGED reads
    BY <1>12, <2>1, <2>3 DEF Talk!HandlePartial
  <2>6. /\ ~Head(ready).failed /\ Talker!FirstEnd(Head(ready).buffer) = {}
        /\ UNCHANGED <<Talker!hostVars, io, Members, Talker!peerVars, stream, relayed,
                       writes, cut>>
    BY <1>2, <1>5, <1>12
       DEF Talk!HandlePartial, Talker!hostVars, Talk!hostVars,
           Talker!peerVars, Talk!peerVars
  <2> HIDE DEF a, H, e
  <2>7. Talker!HandlePartial
    BY <2>1, <2>4, <2>5, <2>6 DEF Talker!HandlePartial, a, H
  <2> QED
    BY <2>7 DEF Talker!Next, Talker!IoThread
<1>13. CASE Talk!HandleLine
  <2>1. /\ Talker!Runs("message") /\ Only(Tail(ready), H) = Tail(a)
        /\ Head(a) = Head(ready)
    BY <1>13, TalkRuns DEF Talk!HandleLine
  <2>2. a' = Tail(a)
    BY <1>13, <2>1 DEF Talk!HandleLine
  <2>4. Talk!SendTo(Head(ready).conn) => Talker!SendTo(Head(a).conn)
    BY <2>1 DEF Talk!SendTo, Talker!SendTo
  <2>3. Talker!HandleLine
    BY <1>5, <1>13, <2>1, <2>2, <2>4
       DEF Talk!HandleLine, Talker!HandleLine, Talker!hostVars, Talk!hostVars,
           Talker!peerVars, Talk!peerVars
  <2> QED
    BY <2>3 DEF Talker!Next, Talker!IoThread
<1>14. CASE Talk!HandleReadError
  <2>1. /\ Talker!Runs("message") /\ Only(Tail(ready), H) = Tail(a)
        /\ Head(a) = Head(ready) /\ ready # <<>> /\ Head(ready) \in H
        /\ Head(ready).conn \in Conns
    BY <1>14, TalkRuns, MessageRuns DEF Talk!HandleReadError
  <2>2. Only(Tail(ready) \o Talk!Failures(Head(ready).conn), H)
          = Tail(a) \o Talk!Failures(Head(ready).conn)
    BY <2>1, TalkQueues
  <2>3. \/ /\ Head(a).conn \in Members /\ Members' = Members \ {Head(a).conn}
           /\ a' = Tail(a) \o Talker!Failures(Head(a).conn)
           /\ reads' = [reads EXCEPT ![Head(a).conn] = <<>>]
        \/ /\ Head(a).conn \notin Members /\ Members' = Members
           /\ a' = Tail(a) /\ reads' = reads
    BY <1>4, <1>14, <2>1, <2>2, ReadErrorRemoves
  <2>5. Members \subseteq Conns
    BY MembersAreNamed DEF KuroInv, Views
  <2>6. \A d \in Members \cup {Head(a).conn} : [e \in Conns |-> e][d] = d
    BY <2>1, <2>5
  <2>8. Talker!remove_client([e \in Conns |-> e][Head(a).conn], Tail(a))
    BY <2>3, <2>6 DEF Talker!remove_client
  <2>4. Talker!HandleReadError
    BY <1>14, <2>1, <2>8
       DEF Talk!HandleReadError, Talker!HandleReadError, Talker!hostVars, Talk!hostVars,
           Talker!peerVars, Talk!peerVars
  <2> QED
    BY <2>4 DEF Talker!Next, Talker!IoThread
<1>15. ASSUME NEW c \in Conns, Talk!WriteEnds(c) \/ Talk!WriteFails(c)
       PROVE  Talker!WriteEnds(c) \/ Talker!WriteFails(c)
  <2>1. CASE Talk!WriteEnds(c)
    BY <2>1
       DEF Talk!WriteEnds, Talker!WriteEnds, Talk!Writes, Talker!Writes,
           Talker!hostVars, Talk!hostVars, Talker!peerVars, Talk!peerVars
  <2>2. CASE Talk!WriteFails(c)
    <3>1. UNCHANGED <<ready, reads>> /\ Members' = Members /\ a' = a
      BY <2>2, WritesRemoveNobody
    <3>2. \A d \in Members : [e \in Conns |-> e][d] # [e \in Conns |-> NoConn][c]
      BY MembersAreNamed, KuroNetAssumption DEF KuroInv, Views
    <3>3. Talker!remove_client([e \in Conns |-> NoConn][c], a)
      BY <3>1, <3>2 DEF Talker!remove_client
    <3>4. Talker!Writes(c) /\ Talker!Gone(c)
      BY <2>2
         DEF Talk!WriteFails, Talk!Writes, Talker!Writes, Talk!Gone, Talker!Gone,
             Talker!hostVars, Talk!hostVars, Talker!peerVars, Talk!peerVars
    <3> QED
      BY <3>3, <3>4 DEF Talker!WriteFails
  <2> QED
    BY <1>15, <2>1, <2>2
<1> QED
  BY <1>6, <1>7, <1>8, <1>9, <1>10, <1>11, <1>12, <1>13, <1>14, <1>15
     DEF ChatMoves, Talk!IoThread, Talker!Next

\* How a step of the manager other than a removal touches what the chat sees of it.
Admits(c) ==
  /\ told[c] = <<>> /\ peer[c] \in {"connected", "closed"} /\ UNCHANGED peer
  /\ \E r \in {"approved", "auto_approved"} : told' = [told EXCEPT ![c] = Append(@, r)]
  /\ \E id \in Conns, t \in Tokens \cup {NoToken} :
       /\ clients_[id] = NoClient
       /\ clients_' = [clients_ EXCEPT ![id] = [socket |-> c, token |-> t]]

Refuses(c) ==
  /\ told[c] = <<>> /\ UNCHANGED <<peer, clients_>>
  /\ \E r \in {"invalid_format", "invalid_agent"} : told' = [told EXCEPT ![c] = Append(@, r)]

Meets(c) ==
  /\ told[c] = <<>> /\ UNCHANGED <<told, clients_>>
  /\ peer' = [peer EXCEPT ![c] = "connected"]

Hangs(c) ==
  /\ peer[c] = "connected" /\ UNCHANGED <<told, clients_>>
  /\ peer' = [peer EXCEPT ![c] = "closed"]

\* What is known of a connection whose header is read or which waits.
LEMMA Pending ==
  ASSUME KuroInv, NEW c \in Conns,
         c \in (Server!In("reading") \cup Server!In("read")) \cup Waiting
  PROVE  told[c] = <<>> /\ peer[c] \in {"connected", "closed"}
<1>1. /\ Manager!OneOwner /\ Manager!OneReply /\ Manager!QueueGate
      /\ peer[c] \in {"absent", "connected", "closed"}
  BY DEF KuroInv, Manager!SessionInv, Manager!TypeOK
<1>2. Socket(c) = "open" /\ told[c] = <<>>
  BY <1>1, SameMembers DEF Manager!OneOwner, Manager!OneReply
<1>3. Socket(c) = "none" <=> peer[c] = "absent"
  BY <1>1 DEF Manager!QueueGate
<1> QED
  BY <1>1, <1>2, <1>3

LEMMA MoveShapes ==
  ASSUME KuroInv, Running, process' = "running", ManagerMoves
  PROVE  \/ UNCHANGED <<clients_, told, peer>>
         \/ \E c \in Conns : Admits(c) \/ Refuses(c) \/ Meets(c) \/ Hangs(c)
<1>1. ASSUME NEW how \in {"exited", "command_exception", "io_exception"},
             Sessions!Halt(how)
      PROVE  FALSE
  BY <1>1 DEF Sessions!Halt
<1>2. CASE Sessions!PeerStep
  BY <1>2 DEF Sessions!PeerStep, Sessions!PeerSendHeader, Sessions!PeerSendMore,
         Sessions!PeerClose, Sessions!managerVars, Hangs
<1>3. CASE Sessions!approve_client
  <2> DEFINE id == command.id
             c  == wait_clients_[id].socket
  <2>1. id \in Conns /\ command.token \in Tokens /\ c \in Conns /\ c \in Waiting
    <3>1. /\ command \in Manager!Commands /\ command # Sessions!Idle
          /\ wait_clients_ \in [Conns -> Manager!Client \cup {NoClient}]
      BY <1>3 DEF KuroInv, Manager!SessionInv, Manager!TypeOK, Sessions!approve_client
    <3>2. id \in Conns /\ command.token \in Tokens
      BY <3>1 DEF Manager!Commands, Sessions!Idle, Manager!Idle
    <3>3. wait_clients_[id] \in Manager!Client
      BY <1>3, <3>1, <3>2 DEF Sessions!approve_client
    <3> QED
      BY <1>3, <3>2, <3>3
         DEF Sessions!approve_client, Waiting, Sessions!SocketsOf, Sessions!InMap,
             Manager!Client
  <2>2. clients_[id] = NoClient
    <3>1. Manager!Apart
      BY ManagerAssumptions, Manager!FreshIdsApart DEF KuroInv
    <3> QED
      BY <1>3, <2>1, <3>1 DEF Manager!Apart, Sessions!approve_client
  <2>3. told[c] = <<>> /\ peer[c] \in {"connected", "closed"}
    BY <2>1, Pending
  <2>4. /\ told' = [told EXCEPT ![c] = Append(@, "approved")]
        /\ clients_' = [clients_ EXCEPT ![id] = [socket |-> c, token |-> command.token]]
        /\ UNCHANGED peer
    BY <1>1, <1>3, <2>2 DEF Sessions!approve_client, Sessions!Tell, Sessions!peerVars
  <2>5. Admits(c)
    <3> HIDE DEF c, id
    <3> QED
      BY <2>1, <2>2, <2>3, <2>4 DEF Admits
  <2> QED
    BY <2>1, <2>5
<1>4. CASE Sessions!CommandStep
  BY <1>1, <1>3, <1>4
     DEF Sessions!CommandStep, Sessions!create_token, Sessions!CreateTokenThrows,
         Sessions!ApproveCheckToken, Sessions!ApproveNotFound, Sessions!get_wait_clients,
         Sessions!access_wait_clients, Sessions!Exit, Sessions!managerVars,
         Sessions!peerVars
<1>5. ASSUME NEW c \in Conns, Sessions!Accept(c) PROVE Meets(c)
  <2>1. Socket(c) = "none"
    BY <1>5 DEF KuroInv, Manager!SessionInv, Manager!QueueGate, Sessions!Accept
  <2>2. told[c] = <<>>
    BY <2>1 DEF KuroInv, Manager!SessionInv, Manager!OneReply
  <2> QED
    BY <1>5, <2>2 DEF Sessions!Accept, Sessions!managerVars, Meets
<1>6. ASSUME NEW c \in Conns, Sessions!HeaderReadError(c)
      PROVE  UNCHANGED <<clients_, told, peer>>
  BY <1>6 DEF Sessions!HeaderReadError, Sessions!managerVars, Sessions!peerVars
<1>7. ASSUME NEW c \in Conns, Sessions!HandleHeader(c)
      PROVE  UNCHANGED <<clients_, told, peer>> \/ Admits(c) \/ Refuses(c)
  <2>1. c \in Server!In("reading") \cup Server!In("read") /\ UNCHANGED peer
    BY <1>7 DEF Sessions!HandleHeader, Sessions!HeaderInvalid,
           Sessions!HeaderUnknownAgent, Sessions!HeaderWithoutLogin, Sessions!HeaderAuto,
           Sessions!HeaderManual, Sessions!HeaderAccepted, Sessions!HeaderRead
  <2>2. told[c] = <<>> /\ peer[c] \in {"connected", "closed"}
    BY <2>1, Pending
  <2>3. CASE Sessions!HeaderInvalid(c) \/ Sessions!HeaderUnknownAgent(c)
    BY <1>1, <2>1, <2>2, <2>3
       DEF Sessions!HeaderInvalid, Sessions!HeaderUnknownAgent, Sessions!Refuse,
           Sessions!Tell, Sessions!managerVars, Refuses
  <2>4. CASE Sessions!HeaderWithoutLogin(c)
    BY <1>1, <2>4 DEF Sessions!HeaderWithoutLogin
  <2>5. CASE Sessions!HeaderManual(c)
    BY <2>1, <2>5 DEF Sessions!HeaderManual, Sessions!add_client
  <2>6. CASE Sessions!HeaderAuto(c)
    <3>1. PICK id \in Sessions!GeneratedIds : Sessions!auto_approve_client(c, id)
      BY <2>6 DEF Sessions!HeaderAuto
    <3>2. id \in Conns /\ clients_[id] = NoClient
      BY DEF Sessions!GeneratedIds
    <3>3. /\ told' = [told EXCEPT ![c] = Append(@, "auto_approved")]
          /\ clients_' = [clients_ EXCEPT ![id] = [socket |-> c, token |-> NoToken]]
      BY <1>1, <3>1, <3>2
         DEF Sessions!auto_approve_client, Sessions!Tell, Sessions!NewClient
    <3> QED
      BY <2>1, <2>2, <3>2, <3>3 DEF Admits
  <2> QED
    BY <1>7, <2>3, <2>4, <2>5, <2>6 DEF Sessions!HandleHeader
<1> QED
  BY <1>2, <1>4, <1>5, <1>6, <1>7 DEF ManagerMoves

\* What the chat sees of a connection's peer.
View(c) == IF Approved(c) THEN peer[c] ELSE "absent"

\* What the chat does not take part in is a join, a departure or nothing to it.
LEMMA TalkerViews ==
  ASSUME KuroInv, UNCHANGED chatVars,
         Only(ready', Talk!Handler) = Only(ready, Talk!Handler),
         \/ UNCHANGED <<clients_, told, peer>>
         \/ \E c \in Conns : Admits(c) \/ Refuses(c) \/ Meets(c) \/ Hangs(c)
  PROVE  [Talker!Next]_(Talker!vars)
<1>1. /\ clients_ \in [Conns -> Sessions!Client \cup {NoClient}]
      /\ peer \in [Conns -> {"absent", "connected", "closed"}]
      /\ told \in [Conns -> Seq(Sessions!Replies)]
  BY DEF KuroInv, Manager!SessionInv, Manager!TypeOK, Manager!Client, Sessions!Client,
         Manager!Replies, Sessions!Replies
<1>2. ASSUME UNCHANGED clients_, \A c \in Conns : View(c)' = View(c)
      PROVE  UNCHANGED Talker!vars
  <2>1. Members' = Members
    BY <1>2 DEF Members, Sessions!SocketsOf, Sessions!InMap
  <2>2. [c \in Conns |-> View(c)]' = [c \in Conns |-> View(c)]
    BY <1>2
  <2> QED
    BY <2>1, <2>2 DEF chatVars, Talker!vars, View
<1>3. CASE UNCHANGED <<clients_, told, peer>>
  BY <1>2, <1>3 DEF View, Approved
<1>4. ASSUME NEW c \in Conns, told[c] = <<>> PROVE ~Approved(c) /\ View(c) = "absent"
  BY <1>4 DEF Approved, View
<1>5. ASSUME NEW c \in Conns, Refuses(c) \/ Meets(c) PROVE UNCHANGED Talker!vars
  <2>1. \A r : Append(<<>>, r) # <<>> /\ Head(Append(<<>>, r)) = r
    OBVIOUS
  <2>2. View(c)' = View(c)
    BY <1>1, <1>4, <1>5, <2>1 DEF Refuses, Meets, View, Approved
  <2>3. ASSUME NEW d \in Conns, d # c PROVE View(d)' = View(d)
    BY <1>1, <1>5, <2>3 DEF Refuses, Meets, View, Approved
  <2> QED
    BY <1>2, <1>5, <2>2, <2>3 DEF Refuses, Meets
<1>6. ASSUME NEW c \in Conns, NEW s, View(c)' = s,
             \A d \in Conns : d # c => View(d)' = View(d)
      PROVE  [d \in Conns |-> View(d)]' = [[d \in Conns |-> View(d)] EXCEPT ![c] = s]
  BY <1>6
<1>7. ASSUME NEW c \in Conns, Hangs(c) PROVE [Talker!Next]_(Talker!vars)
  <2>1. \A d \in Conns : Approved(d)' <=> Approved(d)
    BY <1>7 DEF Hangs, Approved
  <2>2. \A d \in Conns : d # c => View(d)' = View(d)
    BY <1>1, <1>7, <2>1 DEF Hangs, View
  <2>3. CASE ~Approved(c)
    BY <1>2, <1>7, <2>1, <2>2, <2>3 DEF Hangs, View
  <2>4. CASE Approved(c)
    <3>1. View(c) = "connected" /\ View(c)' = "closed"
      BY <1>1, <1>7, <2>1, <2>4 DEF Hangs, View
    <3>2. Members' = Members
      BY <1>7 DEF Hangs, Members, Sessions!SocketsOf, Sessions!InMap
    <3>3. Talker!PeerCloses(c)
      BY <1>6, <2>2, <3>1, <3>2 DEF Talker!PeerCloses, Talker!hostVars, chatVars, View
    <3> QED
      BY <3>3 DEF Talker!Next
  <2> QED
    BY <2>3, <2>4
<1>8. ASSUME NEW c \in Conns, Admits(c) PROVE Talker!Join(c)
  <2>1. \A r : Append(<<>>, r) # <<>> /\ Head(Append(<<>>, r)) = r
    OBVIOUS
  <2>2. View(c) = "absent" /\ View(c)' = peer[c]
    BY <1>1, <1>4, <1>8, <2>1 DEF Admits, View, Approved
  <2>3. \A d \in Conns : d # c => View(d)' = View(d)
    BY <1>1, <1>8 DEF Admits, View, Approved
  <2>4. Members' = Members \cup {c}
    <3>1. PICK id \in Conns, t \in Tokens \cup {NoToken} :
            /\ clients_[id] = NoClient
            /\ clients_' = [clients_ EXCEPT ![id] = [socket |-> c, token |-> t]]
      BY <1>8 DEF Admits
    <3>2. [socket |-> c, token |-> t] # NoClient
      BY KuroNetAssumption DEF Sessions!Client
    <3>3. /\ clients_'[id].socket = c /\ clients_'[id] # NoClient
          /\ \A i \in Conns : i # id => clients_'[i] = clients_[i]
      BY <1>1, <3>1, <3>2
    <3> QED
      BY <3>1, <3>3 DEF Members, Sessions!SocketsOf, Sessions!InMap
  <2>5. [d \in Conns |-> View(d)]' = [[d \in Conns |-> View(d)] EXCEPT ![c] = peer[c]]
    BY <1>6, <2>2, <2>3
  <2>6. peer[c] \in {"connected", "closed"}
    BY <1>8 DEF Admits
  <2>7. c \notin Members /\ Members \subseteq Conns
    BY <1>4, <1>8, MembersAreApproved DEF Admits
  <2>8. \A d \in Members : [e \in Conns |-> e][d] # [e \in Conns |-> e][c]
    BY <2>7
  <2> QED
    BY <2>2, <2>4, <2>5, <2>6, <2>8 DEF Talker!Join, Talker!hostVars, chatVars, View
<1> QED
  BY <1>2, <1>3, <1>5, <1>7, <1>8 DEF Talker!Next

\* Every step of the running server is one of the chat, or none that it sees.
LEMMA TalkerStep ==
  ASSUME KuroInv, [Next]_vars, Running'
  PROVE  [Talker!Next]_(Talker!vars)
<1>1. ~\E how : how # "running" /\ Ends(how)
  BY DEF Ends, Running
<1>2. CASE ChatMoves
  BY <1>2, TalkerActs
<1>3. CASE UNCHANGED chatVars /\ ~ChatMoves
  <2>1. Only(ready', Talk!Handler) = Only(ready, Talk!Handler)
    BY <1>3, ServerKinds, PartsStay
  <2>2. CASE UNCHANGED sessionVars
    <3>1. UNCHANGED <<clients_, told, peer>>
      BY <2>2 DEF sessionVars
    <3> QED
      BY <1>3, <2>1, <3>1, TalkerViews
  <2>3. CASE process' = "running" /\ ManagerMoves /\ ~UNCHANGED sessionVars
    <3>1. Running
      BY <2>3, StepsRun DEF vars
    <3> QED
      BY <1>3, <2>1, <2>3, <3>1, MoveShapes, TalkerViews
  <2>4. UNCHANGED sessionVars \/ (process' = "running" /\ ManagerMoves)
    BY <1>1, <1>3, StepKinds DEF HandleReadError, ChatMoves, Talk!IoThread
  <2> QED
    BY <2>2, <2>3, <2>4
<1> QED
  BY <1>1, <1>2, <1>3, StepKinds DEF HandleReadError, ChatMoves, Talk!IoThread

\* The server starts as the chat does.
LEMMA TalkerInit == Init => Talker!Init
<1> SUFFICES ASSUME Init PROVE Talker!Init
  OBVIOUS
<1>1. Only(<<>>, Talk!Handler) = <<>>
  BY OnlyEmpty
<1>2. Members = {}
  BY DEF Init, Members, Sessions!SocketsOf, Sessions!InMap, Sessions!EmptyMap
<1>3. \A c \in Conns : ~Approved(c)
  BY DEF Init, Approved
<1>4. [c \in Conns |-> IF Approved(c) THEN peer[c] ELSE "absent"] = [c \in Conns |-> "absent"]
  BY <1>3
<1> QED
  BY <1>1, <1>2, <1>4 DEF Init, Talker!Init

LEMMA TalkerAssumption == Talker!ChatAssumption
BY KuroNetAssumption DEF Talker!ChatAssumption

\* A client's name is its own here.
LEMMA NamesAreOwn == Talker!OwnNames
BY KuroNetAssumption DEF Talker!OwnNames

\* As long as the process runs, what it does to the chat is what Chat says:
\* approvals by the host and by headers are its joins, departures of accepted peers
\* its closes, remove_client in Session.cpp its removals, and Chat.cpp's handlers on
\* the io_context's one queue run as on a queue of their own.
THEOREM RunsTheChat ==
  Spec => Talker!Init /\ [][Running' => [Talker!Next]_(Talker!vars)]_vars
<1>1. KuroInv /\ [Next]_vars => [Running' => [Talker!Next]_(Talker!vars)]_vars
  BY TalkerStep
<1> QED
  BY <1>1, TalkerInit, KuroInvariant, PTL DEF Spec

TalkerInv ==
  Running => Talker!ChatInv /\ Talker!LoopInv /\ Talker!PieceInv /\ Talker!LineInv

LEMMA TalkerKeeps == KuroInv /\ TalkerInv /\ [Next]_vars => TalkerInv'
<1> SUFFICES ASSUME KuroInv, TalkerInv, [Next]_vars, Running'
             PROVE  /\ Talker!ChatInv' /\ Talker!LoopInv'
                    /\ Talker!PieceInv' /\ Talker!LineInv'
  BY DEF TalkerInv
<1>1. Running
  BY StepsRun DEF Running, vars, sessionVars
<1>2. Talker!ChatInv /\ Talker!LoopInv /\ Talker!PieceInv /\ Talker!LineInv
  BY <1>1 DEF TalkerInv
<1>3. [Talker!Next]_(Talker!vars)
  BY TalkerStep
<1> QED
  BY <1>2, <1>3, TalkerAssumption, Talker!ChatStep, Talker!LoopsStep, Talker!PieceStep,
     Talker!LineStep

LEMMA TalkerHolds == Spec => []TalkerInv
<1>1. Init => TalkerInv
  BY TalkerInit, TalkerAssumption, Talker!ChatInit, Talker!LoopsInit, Talker!PieceInit,
     Talker!LineInit
     DEF TalkerInv
<1> QED
  BY <1>1, TalkerKeeps, KuroInvariant, PTL DEF Spec

\* The chat's properties in the whole server: its loop is alive while it is started,
\* its loops are few, no piece is relayed twice and uncut lines are relayed whole; a
\* client is removed only after its peer has left, and a chat that was stopped and has
\* come to rest posts no read (Chat::work, do_read, stop).
THEOREM ServerChats ==
  Spec =>
    /\ [](Running => /\ Talker!LoopAlive /\ Talker!LoopsBounded
                     /\ Talker!PiecesOnce /\ Talker!WholeLines)
    /\ [][Running' => \A c \in Members \ Members' : peer[c] = "closed"]_vars
    /\ [][Running' /\ ~chatting /\ Talker!Loops = 0 /\ Talker!Starters = {} =>
            \A c \in Conns :
              (Talker!ReadsOf(c) + Len(relayed[c]))'
                <= Talker!ReadsOf(c) + Len(relayed[c])]_vars
<1>1. TalkerInv => (Running => /\ Talker!LoopAlive /\ Talker!LoopsBounded
                               /\ Talker!PiecesOnce /\ Talker!WholeLines)
  BY TalkerAssumption, Talker!PieceOnce
     DEF TalkerInv, Talker!ChatInv, Talker!LoopInv, Talker!LineInv, Talker!LinesInOrder,
         Talker!WholeLines
<1>2. ASSUME KuroInv, TalkerInv, [Next]_vars, Running'
      PROVE  Talker!ChatInv /\ [Talker!Next]_(Talker!vars)
  <2>1. Running
    BY <1>2, StepsRun DEF Running, vars, sessionVars
  <2> QED
    BY <1>2, <2>1, TalkerStep DEF TalkerInv
<1>3. ASSUME KuroInv, TalkerInv, [Next]_vars, Running', NEW c \in Members \ Members'
      PROVE  peer[c] = "closed"
  <2>1. PICK d \in Conns :
          /\ Talker!Gone(d)
          /\ [e \in Conns |-> e][c] \in {[e \in Conns |-> e][d], [e \in Conns |-> NoConn][d]}
    BY <1>2, <1>3, TalkerAssumption, Talker!LeaverStep
  <2>2. c \in Conns /\ Approved(c)
    BY <1>3, MembersAreApproved
  <2>3. c = d
    BY <2>1, <2>2, KuroNetAssumption
  <2> QED
    BY <1>3, <2>1, <2>2, <2>3 DEF Talker!Gone
<1>4. KuroInv /\ TalkerInv /\ [Next]_vars
        => [Running' => \A c \in Members \ Members' : peer[c] = "closed"]_vars
  BY <1>3
<1> DEFINE AtRest == ~chatting /\ Talker!Loops = 0 /\ Talker!Starters = {}
           NoNew == \A c \in Conns : (Talker!ReadsOf(c) + Len(relayed[c]))'
                                       <= Talker!ReadsOf(c) + Len(relayed[c])
<1>5. KuroInv /\ TalkerInv /\ TalkerInv' /\ [Next]_vars
        => [Running' /\ AtRest => NoNew]_vars
  <2> SUFFICES ASSUME KuroInv, TalkerInv, TalkerInv', [Next]_vars, Running', AtRest
               PROVE  NoNew
    OBVIOUS
  <2>1. Talker!ChatInv /\ [Talker!Next]_(Talker!vars) /\ Talker!ChatInv'
    BY <1>2 DEF TalkerInv
  <2> QED
    BY <2>1, TalkerAssumption, Talker!StoppedStep
<1> QED
  BY <1>1, <1>4, <1>5, TalkerHolds, KuroInvariant, PTL DEF Spec

=============================================================================
