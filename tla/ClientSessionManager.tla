----------------------- MODULE ClientSessionManager -----------------------
(***************************************************************************)
(* The client session manager (Session.hpp, Session.cpp) with the code     *)
(* that drives it: the header handler of TCPServer on the io thread, the   *)
(* host's commands on the command thread, and the removals by the chat's   *)
(* failed reads and writes.                                                *)
(*                                                                         *)
(* Every operation of the manager holds clients_mutex_ from its first to   *)
(* its last access, and what a handler does before it takes the lock       *)
(* touches only its own socket; so one handler is one action.  The         *)
(* exception is approve_client, which looks the token up under tokens_mtx_ *)
(* and moves the client in a second critical section: two actions.         *)
(*                                                                         *)
(* A request header is abstracted to what the handler asks of it (the      *)
(* record Request); a reply to its kind; an id or a token to a member of a *)
(* set.  An exception that leaves a thread's function ends the process.    *)
(***************************************************************************)
EXTENDS Naturals, Sequences

CONSTANTS
  Conns,          \* TCP connections, each used once
  Ids,            \* what IDGenerator::generate can return
  Tokens,         \* what TokenHandler::generate can return
  NoToken,        \* Client::token = ""
  NoId,           \* never inserted into clients_
  NoClient,       \* no entry under an id
  Requests,       \* the request headers peers send
  NoRequest,      \* no header sent yet
  FreshIds,       \* TRUE: a new id was never given before; FALSE: it may be
  Logins          \* the ids that occur as the LOGIN of a peer

\* valid: KuroNetClient::valid_request; agent: get_agent found a known type;
\* login: the LOGIN field is not empty; auto: "auto" occurs in the header.
Request == [valid : BOOLEAN, agent : BOOLEAN, login : BOOLEAN, auto : BOOLEAN]

ASSUME SessionAssumption ==
  /\ NoToken \notin Tokens
  /\ Requests \subseteq Request
  /\ NoRequest \notin Request
  /\ NoId \notin Ids
  /\ FreshIds \in BOOLEAN
  /\ Logins \subseteq Ids

Client == [socket : Conns, token : Tokens \cup {NoToken}]

ASSUME NoClientAssumption == NoClient \notin Client

Replies == {"invalid_format", "invalid_agent", "approved", "auto_approved"}

Idle == [op |-> "idle"]
Commands == {Idle} \cup [op : {"approve"}, id : Ids, token : Tokens]

VARIABLES
  clients_,        \* accepted clients, by id
  wait_clients_,   \* clients waiting for the host, by id
  active_tokens_,  \* tokens created by the host
  name,            \* the id under which a connection was inserted into clients_
  socket,          \* the server's end of each connection
  reading,         \* connections whose header read is outstanding
  command,         \* what the command thread is in the middle of
  process,         \* "running", or what ended it
  peer,            \* the other end of each connection
  header,          \* the header its peer sent
  inbox,           \* connections with unread bytes after the header
  told             \* the replies written to each connection

managerVars == <<clients_, wait_clients_, active_tokens_, name>>
peerVars    == <<peer, header, inbox>>
vars == <<clients_, wait_clients_, active_tokens_, name, socket, reading, command,
          process, peer, header, inbox, told>>

EmptyMap == [id \in Ids |-> NoClient]

InMap(map) == {id \in Ids : map[id] # NoClient}

\* The connections that a map owns; the same with the tokens they came in by.
SocketsOf(map) == {map[id].socket : id \in InMap(map)}

MembersOf(map) == {<<map[id].socket, map[id].token>> : id \in InMap(map)}

\* No connection is under two ids.
Injective(map) ==
  \A i, j \in InMap(map) : map[i].socket = map[j].socket => i = j

Init ==
  /\ clients_ = EmptyMap
  /\ wait_clients_ = EmptyMap
  /\ active_tokens_ = {}
  /\ name = [c \in Conns |-> NoId]
  /\ socket = [c \in Conns |-> "none"]
  /\ reading = {}
  /\ command = Idle
  /\ process = "running"
  /\ peer = [c \in Conns |-> "absent"]
  /\ header = [c \in Conns |-> NoRequest]
  /\ inbox = {}
  /\ told = [c \in Conns |-> <<>>]

-----------------------------------------------------------------------------
(* The peers. *)

\* Only what reaches a socket the server has open makes a difference.
PeerSendHeader(c) ==
  /\ process = "running" /\ socket[c] = "open"
  /\ peer[c] = "connected" /\ header[c] = NoRequest
  /\ \E r \in Requests : header' = [header EXCEPT ![c] = r]
  /\ UNCHANGED <<managerVars, socket, reading, command, process, peer, inbox, told>>

PeerSendMore(c) ==
  /\ process = "running" /\ socket[c] = "open"
  /\ peer[c] = "connected" /\ header[c] # NoRequest
  /\ inbox' = inbox \cup {c}
  /\ UNCHANGED <<managerVars, socket, reading, command, process, peer, header, told>>

PeerClose(c) ==
  /\ process = "running" /\ socket[c] = "open"
  /\ peer[c] = "connected"
  /\ peer' = [peer EXCEPT ![c] = "closed"]
  /\ UNCHANGED <<managerVars, socket, reading, command, process, header, inbox, told>>

-----------------------------------------------------------------------------
(* Shared steps. *)

\* An uncaught exception (or exit) ends the process: the system closes its
\* sockets and its memory is gone.  active_tokens_ keeps the last value.
Halt(how) ==
  /\ process' = how
  /\ clients_' = EmptyMap
  /\ wait_clients_' = EmptyMap
  /\ socket' = [c \in Conns |-> IF socket[c] = "none" THEN "none" ELSE "closed"]
  /\ reading' = {}
  /\ command' = Idle
  /\ UNCHANGED <<active_tokens_, name, told>>

\* boost::asio::write on a few bytes: it succeeds while the peer is there; once
\* the peer has closed, the system may still take the bytes or may report it.
WriteMayThrow(c) == peer[c] = "closed"

Close(S) == socket' = [c \in Conns |-> IF c \in S THEN "closed" ELSE socket[c]]

Tell(c, reply) == told' = [told EXCEPT ![c] = Append(@, reply)]

\* A hash of two random numbers, never compared with the ids given before.
GeneratedIds ==
  {id \in Ids : FreshIds => /\ clients_[id] = NoClient /\ wait_clients_[id] = NoClient
                            /\ \A c \in Conns : name[c] # id}

NewClient(c) == [socket |-> c, token |-> NoToken]

-----------------------------------------------------------------------------
(* TCPServer on the io thread. *)

\* do_accept's handler: on_client_connected starts reading the header.
Accept(c) ==
  /\ process = "running"
  /\ peer[c] = "absent"
  /\ peer' = [peer EXCEPT ![c] = "connected"]
  /\ socket' = [socket EXCEPT ![c] = "open"]
  /\ reading' = reading \cup {c}
  /\ UNCHANGED <<managerVars, command, process, header, inbox, told>>

\* The read ends before a whole header: the handler logs and returns, and with
\* it goes the last reference to the socket.
HeaderReadError(c) ==
  /\ process = "running"
  /\ c \in reading /\ peer[c] = "closed"
  /\ reading' = reading \ {c}
  /\ Close({c})
  /\ UNCHANGED <<managerVars, command, process, peerVars, told>>

\* A whole header is in the buffer.  Bytes that came with it are in the
\* handler's own buffer and are dropped with that.
HeaderRead(c) ==
  /\ process = "running"
  /\ c \in reading /\ header[c] # NoRequest
  /\ inbox' \in {inbox, inbox \ {c}}
  /\ UNCHANGED <<peer, header>>

\* Mutant: the handler goes on after the refusal.
Refuse_without_return(c, reply) ==
  /\ Tell(c, reply)
  /\ UNCHANGED <<managerVars, socket, reading, command, process>>

\* write the refusal, close, return; the write may throw out of ioc_.run().
Refuse(c, reply) ==
  \/ /\ Tell(c, reply)
     /\ Close({c})
     /\ reading' = reading \ {c}
     /\ UNCHANGED <<managerVars, command, process>>
  \/ /\ WriteMayThrow(c)
     /\ Halt("io_exception")

HeaderInvalid(c) ==
  /\ HeaderRead(c)
  /\ ~header[c].valid
  /\ Refuse(c, "invalid_format")

HeaderUnknownAgent(c) ==
  /\ HeaderRead(c)
  /\ header[c].valid /\ ~header[c].agent
  /\ Refuse(c, "invalid_agent")

\* parse_client_metadata rethrows, nothing catches it.
HeaderWithoutLogin(c) ==
  /\ HeaderRead(c)
  /\ header[c].valid /\ header[c].agent /\ ~header[c].login
  /\ Halt("io_exception")

HeaderAccepted(c) ==
  /\ HeaderRead(c)
  /\ header[c].valid /\ header[c].agent /\ header[c].login

\* The peer is told before emplace, which does nothing when the id is taken:
\* the client then goes out of scope, and its socket with it.
auto_approve_client(c, id) ==
  \/ /\ Tell(c, "auto_approved")
     /\ reading' = reading \ {c}
     /\ \/ /\ clients_[id] = NoClient
           /\ clients_' = [clients_ EXCEPT ![id] = NewClient(c)]
           /\ name' = [name EXCEPT ![c] = id]
           /\ UNCHANGED socket
        \/ /\ clients_[id] # NoClient
           /\ Close({c})
           /\ UNCHANGED <<clients_, name>>
     /\ UNCHANGED <<wait_clients_, active_tokens_, command, process>>
  \/ /\ WriteMayThrow(c)
     /\ Halt("io_exception")

HeaderAuto(c) ==
  /\ HeaderAccepted(c)
  /\ header[c].auto
  /\ \E id \in GeneratedIds : auto_approve_client(c, id)

\* A client whose id is waiting already is logged and dropped.
add_client(c, id) ==
  /\ reading' = reading \ {c}
  /\ \/ /\ wait_clients_[id] = NoClient
        /\ wait_clients_' = [wait_clients_ EXCEPT ![id] = NewClient(c)]
        /\ UNCHANGED socket
     \/ /\ wait_clients_[id] # NoClient
        /\ Close({c})
        /\ UNCHANGED wait_clients_
  /\ UNCHANGED <<clients_, active_tokens_, name, command, process, told>>

HeaderManual(c) ==
  /\ HeaderAccepted(c)
  /\ ~header[c].auto
  /\ \E id \in GeneratedIds : add_client(c, id)

-----------------------------------------------------------------------------
(* Chat: a read or a write failed. *)

\* Mutant: the client is looked for among those that wait.
remove_client_waiting(id) ==
  /\ wait_clients_[id] # NoClient
  /\ Close({wait_clients_[id].socket})
  /\ wait_clients_' = [wait_clients_ EXCEPT ![id] = NoClient]
  /\ UNCHANGED <<clients_, active_tokens_, name, reading, command, process, told>>

\* Whoever has the id; when nobody has, the call only logs.
remove_client(id) ==
  /\ clients_[id] # NoClient
  /\ Close({clients_[id].socket})
  /\ clients_' = [clients_ EXCEPT ![id] = NoClient]
  /\ UNCHANGED <<wait_clients_, active_tokens_, name, reading, command, process, told>>

\* Reads and writes are posted for accepted clients only, and fail when the peer
\* has closed or when remove_client has closed the socket under them.  How many
\* are left is Chat's; here there is always one more.
OperationFails(c) ==
  /\ process = "running"
  /\ name[c] # NoId
  /\ peer[c] = "closed" \/ socket[c] = "closed"

\* Mutant: any completed read removes the client.
ChatReadError_any_read(c) ==
  /\ process = "running"
  /\ name[c] # NoId
  /\ remove_client(name[c])
  /\ UNCHANGED peerVars

\* do_read's handler removes by the id under which the read was posted, which
\* another client may have by now.
ChatReadError(c) ==
  /\ OperationFails(c)
  /\ remove_client(name[c])
  /\ UNCHANGED peerVars

\* The handler of a write passes the login where remove_client wants the id.
ChatWriteError(c) ==
  /\ OperationFails(c)
  /\ \E id \in Logins : remove_client(id)
  /\ UNCHANGED peerVars

-----------------------------------------------------------------------------
(* The host's commands on the command thread. *)

CommandReady == process = "running" /\ command = Idle

\* Mutant: the string is stored before the token is generated.
create_token_empty(t) ==
  /\ CommandReady
  /\ active_tokens_' = active_tokens_ \cup {NoToken}
  /\ UNCHANGED <<clients_, wait_clients_, name, socket, reading, command, process,
                 peerVars, told>>

\* token create.  The new token is one of Tokens; active_tokens_ is a vector
\* that is only searched, so a set stands for it.
create_token(t) ==
  /\ CommandReady
  /\ active_tokens_' = active_tokens_ \cup {t}
  /\ UNCHANGED <<clients_, wait_clients_, name, socket, reading, command, process,
                 peerVars, told>>

\* token create -temp with a unit or a number that set_time_token throws on.
CreateTokenThrows ==
  /\ CommandReady
  /\ Halt("command_exception")
  /\ UNCHANGED peerVars

\* Mutant: the token is not looked up.
ApproveCheckToken_unchecked(id, t) ==
  /\ CommandReady
  /\ command' = [op |-> "approve", id |-> id, token |-> t]
  /\ UNCHANGED <<managerVars, socket, reading, process, peerVars, told>>

\* client approve <id> <token>, first critical section.  An unknown token is
\* logged and changes nothing.
ApproveCheckToken(id, t) ==
  /\ CommandReady
  /\ t \in active_tokens_
  /\ command' = [op |-> "approve", id |-> id, token |-> t]
  /\ UNCHANGED <<managerVars, socket, reading, process, peerVars, told>>

ApproveNotFound ==
  /\ process = "running" /\ command # Idle
  /\ wait_clients_[command.id] = NoClient
  /\ command' = Idle
  /\ UNCHANGED <<managerVars, socket, reading, process, peerVars, told>>

\* Mutant: the client is copied, not extracted.
approve_client_copy ==
  /\ process = "running" /\ command # Idle
  /\ wait_clients_[command.id] # NoClient /\ clients_[command.id] = NoClient
  /\ LET c == wait_clients_[command.id].socket
     IN /\ Tell(c, "approved")
        /\ clients_' = [clients_ EXCEPT
                          ![command.id] = [socket |-> c, token |-> command.token]]
        /\ name' = [name EXCEPT ![c] = command.id]
  /\ command' = Idle
  /\ UNCHANGED <<wait_clients_, active_tokens_, socket, reading, process, peerVars>>

\* Second critical section: the node leaves wait_clients_ before the write, and
\* insert drops it when the id is taken in clients_.
approve_client ==
  /\ process = "running" /\ command # Idle
  /\ wait_clients_[command.id] # NoClient
  /\ LET id == command.id
         c  == wait_clients_[id].socket
     IN \/ /\ wait_clients_' = [wait_clients_ EXCEPT ![id] = NoClient]
           /\ Tell(c, "approved")
           /\ \/ /\ clients_[id] = NoClient
                 /\ clients_' = [clients_ EXCEPT
                                   ![id] = [socket |-> c, token |-> command.token]]
                 /\ name' = [name EXCEPT ![c] = id]
                 /\ UNCHANGED socket
              \/ /\ clients_[id] # NoClient
                 /\ Close({c})
                 /\ UNCHANGED <<clients_, name>>
           /\ command' = Idle
           /\ UNCHANGED <<active_tokens_, reading, process>>
        \/ /\ WriteMayThrow(c)
           /\ Halt("command_exception")
  /\ UNCHANGED peerVars

\* Mutant: the socket is not probed by a read.
is_client_really_dead_closed(c) == socket[c] # "open"

\* is_client_really_dead: a byte that can be read counts as dead.
is_client_really_dead(c) ==
  socket[c] # "open" \/ peer[c] = "closed" \/ c \in inbox

\* The purge of access_wait_clients; one that finds nobody dead changes nothing.
access_wait_clients ==
  LET dead == {id \in InMap(wait_clients_) :
                 is_client_really_dead(wait_clients_[id].socket)}
  IN /\ dead # {}
     /\ Close({wait_clients_[id].socket : id \in dead})
     /\ wait_clients_' = [id \in Ids |-> IF id \in dead THEN NoClient
                                                         ELSE wait_clients_[id]]
     /\ UNCHANGED <<clients_, active_tokens_, name, reading, command, process, told>>

\* client waits
get_wait_clients ==
  /\ CommandReady
  /\ access_wait_clients
  /\ UNCHANGED peerVars

\* exit
Exit ==
  /\ CommandReady
  /\ Halt("exited")
  /\ UNCHANGED peerVars

-----------------------------------------------------------------------------

PeerStep == \E c \in Conns : PeerSendHeader(c) \/ PeerSendMore(c) \/ PeerClose(c)

\* What becomes of a header.
HandleHeader(c) ==
  \/ HeaderInvalid(c) \/ HeaderUnknownAgent(c) \/ HeaderWithoutLogin(c)
  \/ HeaderAuto(c) \/ HeaderManual(c)

IoStep ==
  \E c \in Conns :
    \/ Accept(c) \/ HeaderReadError(c) \/ HandleHeader(c)
    \/ ChatReadError(c) \/ ChatWriteError(c)

CommandStep ==
  \/ \E t \in Tokens : create_token(t)
  \/ CreateTokenThrows
  \/ \E id \in Ids, t \in Tokens : ApproveCheckToken(id, t)
  \/ ApproveNotFound
  \/ approve_client
  \/ get_wait_clients
  \/ Exit

Next == PeerStep \/ IoStep \/ CommandStep

Spec == Init /\ [][Next]_vars

-----------------------------------------------------------------------------
(* Properties. *)

\* Type invariant.
TypeOK ==
  /\ clients_ \in [Ids -> Client \cup {NoClient}]
  /\ wait_clients_ \in [Ids -> Client \cup {NoClient}]
  /\ active_tokens_ \in SUBSET Tokens
  /\ name \in [Conns -> Ids \cup {NoId}]
  /\ socket \in [Conns -> {"none", "open", "closed"}]
  /\ reading \in SUBSET Conns
  /\ command \in Commands
  /\ process \in {"running", "io_exception", "command_exception", "exited"}
  /\ peer \in [Conns -> {"absent", "connected", "closed"}]
  /\ header \in [Conns -> Requests \cup {NoRequest}]
  /\ inbox \in SUBSET Conns
  /\ told \in [Conns -> Seq(Replies)]

\* Every socket the server has open is owned exactly once, by the header read
\* or by one entry of one map, whatever becomes of extract, emplace and insert
\* when an id is taken; and an owner never holds a socket that is closed.
OneOwner ==
  /\ reading \cap SocketsOf(wait_clients_) = {}
  /\ (reading \cup SocketsOf(wait_clients_)) \cap SocketsOf(clients_) = {}
  /\ Injective(wait_clients_) /\ Injective(clients_)
  /\ \A c \in Conns :
       socket[c] = "open" <=>
         c \in reading \cup SocketsOf(wait_clients_) \cup SocketsOf(clients_)

\* Nobody is among the accepted clients except on a well-formed header, and
\* then either by its own request or under a token that the host created
\* (approve_client, auto_approve_client).
AdmissionGate ==
  \A m \in MembersOf(clients_) :
    LET h == header[m[1]]
    IN /\ h # NoRequest
       /\ h.valid /\ h.agent /\ h.login
       /\ h.auto \/ m[2] \in active_tokens_

\* A connection gets at most one reply in its life.  One that waits has got
\* none, and an accepted one the reply of the way it came in by.
OneReply ==
  \A c \in Conns :
    /\ Len(told[c]) <= 1
    /\ socket[c] = "none" \/ c \in reading \cup SocketsOf(wait_clients_)
         => told[c] = <<>>
    /\ c \in SocketsOf(clients_)
         => told[c] = <<IF header[c].auto THEN "auto_approved" ELSE "approved">>

\* What the two critical sections of approve_client rely on: who waits has sent
\* a well-formed header without "auto", and the token of an approval under way
\* is still one of the host's.
QueueGate ==
  /\ \A c \in SocketsOf(wait_clients_) :
       /\ header[c] # NoRequest
       /\ header[c].valid /\ header[c].agent /\ header[c].login /\ ~header[c].auto
  /\ command # Idle => command.token \in active_tokens_
  /\ \A c \in Conns : socket[c] = "none" <=> peer[c] = "absent"

\* The inductive invariant: the safety invariants and what they rest on.
SessionInv == TypeOK /\ OneOwner /\ AdmissionGate /\ OneReply /\ QueueGate

\* An accepted client is in clients_ under its name, who was told nothing has
\* none, and only after somebody has left is a client's socket closed under its
\* reads and writes.
NamedClients ==
  /\ \A id \in InMap(clients_) : name[clients_[id].socket] = id
  /\ \A c \in Conns : told[c] = <<>> => name[c] = NoId
  /\ \A c \in Conns :
       process = "running" /\ name[c] # NoId /\ socket[c] = "closed"
         => \E d \in Conns : peer[d] = "closed"

\* If ids are never given twice, no two connections had the same one.
FreshNames ==
  FreshIds =>
    /\ \A c, d \in Conns : name[c] = name[d] /\ name[c] # NoId => c = d
    /\ \A c \in Conns : name[c] \notin InMap(wait_clients_)

\* What keeps the removals to Admission's rules.
NameInv == NamedClients /\ FreshNames

\* The session manager keeps the promises of Admission: that only who has left
\* is removed, as long as no two clients have one id and no login is an id.
Gate == INSTANCE Admission WITH
  OwnNames <- FreshIds /\ Logins = {},
  seen    <- {c \in Conns : socket[c] # "none"},
  present <- {c \in Conns : peer[c] = "connected"},
  pending <- reading,
  waiting <- SocketsOf(wait_clients_),
  members <- MembersOf(clients_),
  issued  <- active_tokens_

ImplementsAdmission == Gate!Spec

-----------------------------------------------------------------------------
(* What the code says of itself, and does not do. *)

\* access_wait_clients removes "dead" clients: a waiting client whose peer is
\* there leaves the queue only for the accepted clients.
OnlyDeadArePurged ==
  [][\A c \in SocketsOf(wait_clients_) :
       peer[c] = "connected" /\ process' = "running" /\ c \notin SocketsOf(wait_clients_)'
         => c \in SocketsOf(clients_)']_vars

=============================================================================
