-------------------- MODULE ClientSessionManager_proofs --------------------
(***************************************************************************)
(* Proofs about ClientSessionManager, for any sets of connections, ids,    *)
(* tokens and headers, whether or not ids may collide: its safety, and     *)
(* that it implements Admission.                                           *)
(***************************************************************************)
EXTENDS ClientSessionManager, TLAPS

Maps == [Ids -> Client \cup {NoClient}]

-----------------------------------------------------------------------------
(* The maps. *)

\* The empty map owns nothing.
LEMMA EmptyMapFacts ==
  /\ EmptyMap \in Maps
  /\ InMap(EmptyMap) = {}
  /\ SocketsOf(EmptyMap) = {}
  /\ MembersOf(EmptyMap) = {}
  /\ Injective(EmptyMap)
BY DEF EmptyMap, Maps, InMap, SocketsOf, MembersOf, Injective

Insert(map, id, k) == [map EXCEPT ![id] = k]

\* emplace and insert under a free id.
LEMMA InsertFacts ==
  ASSUME NEW map \in Maps, NEW id \in Ids, NEW k \in Client, map[id] = NoClient
  PROVE  /\ Insert(map, id, k) \in Maps
         /\ InMap(Insert(map, id, k)) = InMap(map) \cup {id}
         /\ SocketsOf(Insert(map, id, k)) = SocketsOf(map) \cup {k.socket}
         /\ MembersOf(Insert(map, id, k))
              = MembersOf(map) \cup {<<k.socket, k.token>>}
         /\ Injective(map) /\ k.socket \notin SocketsOf(map)
              => Injective(Insert(map, id, k))
<1> DEFINE new == Insert(map, id, k)
<1>1. new \in Maps /\ \A i \in Ids : new[i] = IF i = id THEN k ELSE map[i]
  BY DEF Maps, Insert
<1> HIDE DEF new
<1>2. k # NoClient
  BY NoClientAssumption
<1>3. InMap(new) = InMap(map) \cup {id}
  BY <1>1, <1>2 DEF InMap
<1>4. id \notin InMap(map)
  BY DEF InMap
<1>5. new[id] = k /\ \A i \in InMap(map) : new[i] = map[i]
  BY <1>1, <1>4 DEF InMap
<1>6. SocketsOf(new) = SocketsOf(map) \cup {k.socket}
  <2>1. SocketsOf(new) = {new[i].socket : i \in InMap(map) \cup {id}}
    BY <1>3 DEF SocketsOf
  <2>2. @ = {map[i].socket : i \in InMap(map)} \cup {k.socket}
    BY <1>5
  <2> QED
    BY <2>1, <2>2 DEF SocketsOf
<1>7. MembersOf(new) = MembersOf(map) \cup {<<k.socket, k.token>>}
  <2>1. MembersOf(new) = {<<new[i].socket, new[i].token>> : i \in InMap(map) \cup {id}}
    BY <1>3 DEF MembersOf
  <2>2. @ = {<<map[i].socket, map[i].token>> : i \in InMap(map)} \cup {<<k.socket, k.token>>}
    BY <1>5
  <2> QED
    BY <2>1, <2>2 DEF MembersOf
<1>8. ASSUME Injective(map), k.socket \notin SocketsOf(map)
      PROVE  Injective(new)
  <2>1. \A i \in InMap(map) : map[i].socket # k.socket
    BY <1>8 DEF SocketsOf
  <2> SUFFICES ASSUME NEW i \in InMap(map) \cup {id}, NEW j \in InMap(map) \cup {id},
                      new[i].socket = new[j].socket
               PROVE  i = j
    BY <1>3 DEF Injective
  <2>2. CASE i = id /\ j # id
    BY <1>5, <2>1, <2>2
  <2>3. CASE j = id /\ i # id
    BY <1>5, <2>1, <2>3
  <2>4. CASE i # id /\ j # id
    BY <1>5, <1>8, <2>4 DEF Injective
  <2> QED
    BY <2>2, <2>3, <2>4
<1> QED
  BY <1>1, <1>3, <1>6, <1>7, <1>8 DEF new

Remove(map, D) == [i \in Ids |-> IF i \in D THEN NoClient ELSE map[i]]

\* erase and extract, of one entry or of several.
LEMMA RemoveFacts ==
  ASSUME NEW map \in Maps, NEW D \in SUBSET InMap(map), Injective(map)
  PROVE  /\ Remove(map, D) \in Maps
         /\ InMap(Remove(map, D)) = InMap(map) \ D
         /\ SocketsOf(Remove(map, D)) = SocketsOf(map) \ {map[i].socket : i \in D}
         /\ MembersOf(Remove(map, D))
              = MembersOf(map) \ {<<map[i].socket, map[i].token>> : i \in D}
         /\ Injective(Remove(map, D))
<1> DEFINE new == Remove(map, D)
<1>1. new \in Maps
  BY DEF Maps, Remove
<1>2. InMap(new) = InMap(map) \ D
  BY DEF InMap, Remove
<1>3. \A i \in InMap(map) \ D : new[i] = map[i]
  BY DEF InMap, Remove
<1> HIDE DEF new
<1>4. \A i \in InMap(map) \ D, j \in D : map[i].socket # map[j].socket
  BY DEF Injective
<1>5. SocketsOf(new) = SocketsOf(map) \ {map[i].socket : i \in D}
  BY <1>2, <1>3, <1>4 DEF SocketsOf
<1>6. MembersOf(new) = MembersOf(map) \ {<<map[i].socket, map[i].token>> : i \in D}
  <2> DEFINE pair(i) == <<map[i].socket, map[i].token>>
  <2>1. MembersOf(new) = {pair(i) : i \in InMap(map) \ D}
    BY <1>2, <1>3 DEF MembersOf
  <2>2. \A i \in InMap(map) \ D, j \in D : pair(i) # pair(j)
    BY <1>4
  <2> HIDE DEF pair
  <2>3. {pair(i) : i \in InMap(map) \ D} = {pair(i) : i \in InMap(map)} \ {pair(i) : i \in D}
    BY <2>2
  <2> QED
    BY <2>1, <2>3 DEF MembersOf, pair
<1>7. Injective(new)
  BY <1>2, <1>3 DEF Injective
<1> QED
  BY <1>1, <1>2, <1>5, <1>6, <1>7 DEF new

\* What a map owns are connections, each with a credential.
LEMMA OwnedAreConns ==
  ASSUME NEW map \in Maps
  PROVE  /\ SocketsOf(map) \subseteq Conns
         /\ MembersOf(map) \subseteq Conns \X (Tokens \cup {NoToken})
         /\ \A m \in MembersOf(map) : m[1] \in SocketsOf(map)
         /\ \A c \in SocketsOf(map) : \E m \in MembersOf(map) : m[1] = c
         /\ \A id \in InMap(map) : map[id] \in Client /\ map[id].socket \in SocketsOf(map)
<1>1. \A id \in InMap(map) : /\ map[id] \in Client
                             /\ map[id].socket \in Conns
                             /\ map[id].token \in Tokens \cup {NoToken}
  BY DEF Maps, InMap, Client
<1>2. SocketsOf(map) \subseteq Conns
  BY <1>1 DEF SocketsOf
<1>3. MembersOf(map) \subseteq Conns \X (Tokens \cup {NoToken})
  BY <1>1 DEF MembersOf
<1>4. \A m \in MembersOf(map) : m[1] \in SocketsOf(map)
  BY DEF SocketsOf, MembersOf
<1>5. \A c \in SocketsOf(map) : \E m \in MembersOf(map) : m[1] = c
  <2> SUFFICES ASSUME NEW c \in SocketsOf(map)
               PROVE  \E m \in MembersOf(map) : m[1] = c
    OBVIOUS
  <2>1. PICK id \in InMap(map) : c = map[id].socket
    BY DEF SocketsOf
  <2>2. <<map[id].socket, map[id].token>> \in MembersOf(map)
    BY DEF MembersOf
  <2> QED
    BY <2>1, <2>2
<1>6. \A id \in InMap(map) : map[id].socket \in SocketsOf(map)
  BY DEF SocketsOf
<1> QED
  BY <1>1, <1>2, <1>3, <1>4, <1>5, <1>6

\* What the next maps own, where a lemma about maps is applied to them.
LEMMA NextMaps ==
  ASSUME NEW new
  PROVE  /\ new = clients_' =>
              /\ SocketsOf(clients_)' = SocketsOf(new)
              /\ MembersOf(clients_)' = MembersOf(new)
              /\ Injective(clients_)' = Injective(new)
              /\ InMap(clients_)' = InMap(new)
         /\ new = wait_clients_' =>
              /\ SocketsOf(wait_clients_)' = SocketsOf(new)
              /\ MembersOf(wait_clients_)' = MembersOf(new)
              /\ Injective(wait_clients_)' = Injective(new)
              /\ InMap(wait_clients_)' = InMap(new)
BY DEF SocketsOf, MembersOf, InMap, Injective

\* A client goes into clients_ under a free id.
LEMMA InsertedInto_clients_ ==
  ASSUME SessionInv, NEW id \in Ids, clients_[id] = NoClient,
         NEW c \in Conns, NEW t \in Tokens \cup {NoToken}, c \notin SocketsOf(clients_),
         clients_' = [clients_ EXCEPT ![id] = [socket |-> c, token |-> t]]
  PROVE  /\ clients_' \in Maps
         /\ SocketsOf(clients_)' = SocketsOf(clients_) \cup {c}
         /\ MembersOf(clients_)' = MembersOf(clients_) \cup {<<c, t>>}
         /\ Injective(clients_)'
<1> DEFINE k   == [socket |-> c, token |-> t]
           new == Insert(clients_, id, k)
<1>1. clients_ \in Maps /\ Injective(clients_)
  BY DEF SessionInv, TypeOK, Maps, OneOwner
<1>2. k \in Client /\ k.socket = c /\ k.token = t
  BY DEF Client
<1>3. new = clients_'
  BY DEF Insert
<1> HIDE DEF k, new
<1>4. /\ new \in Maps /\ Injective(new)
      /\ SocketsOf(new) = SocketsOf(clients_) \cup {c}
      /\ MembersOf(new) = MembersOf(clients_) \cup {<<c, t>>}
  BY <1>1, <1>2, InsertFacts DEF new
<1> QED
  BY <1>3, <1>4, NextMaps

\* A client goes into wait_clients_ under a free id.
LEMMA InsertedInto_wait_clients_ ==
  ASSUME SessionInv, NEW id \in Ids, wait_clients_[id] = NoClient,
         NEW c \in Conns, NEW t \in Tokens \cup {NoToken}, c \notin SocketsOf(wait_clients_),
         wait_clients_' = [wait_clients_ EXCEPT ![id] = [socket |-> c, token |-> t]]
  PROVE  /\ wait_clients_' \in Maps
         /\ SocketsOf(wait_clients_)' = SocketsOf(wait_clients_) \cup {c}
         /\ MembersOf(wait_clients_)' = MembersOf(wait_clients_) \cup {<<c, t>>}
         /\ Injective(wait_clients_)'
<1> DEFINE k   == [socket |-> c, token |-> t]
           new == Insert(wait_clients_, id, k)
<1>1. wait_clients_ \in Maps /\ Injective(wait_clients_)
  BY DEF SessionInv, TypeOK, Maps, OneOwner
<1>2. k \in Client /\ k.socket = c /\ k.token = t
  BY DEF Client
<1>3. new = wait_clients_'
  BY DEF Insert
<1> HIDE DEF k, new
<1>4. /\ new \in Maps /\ Injective(new)
      /\ SocketsOf(new) = SocketsOf(wait_clients_) \cup {c}
      /\ MembersOf(new) = MembersOf(wait_clients_) \cup {<<c, t>>}
  BY <1>1, <1>2, InsertFacts DEF new
<1> QED
  BY <1>3, <1>4, NextMaps

\* Entries go from clients_.
LEMMA RemovedFrom_clients_ ==
  ASSUME SessionInv, NEW D \in SUBSET InMap(clients_), clients_' = Remove(clients_, D)
  PROVE  /\ clients_' \in Maps
         /\ SocketsOf(clients_)' = SocketsOf(clients_) \ {clients_[i].socket : i \in D}
         /\ MembersOf(clients_)'
              = MembersOf(clients_) \ {<<clients_[i].socket, clients_[i].token>> : i \in D}
         /\ Injective(clients_)'
<1> DEFINE new == Remove(clients_, D)
<1>1. clients_ \in Maps /\ Injective(clients_) /\ new = clients_'
  BY DEF SessionInv, TypeOK, Maps, OneOwner
<1> HIDE DEF new
<1>2. /\ new \in Maps /\ Injective(new)
      /\ SocketsOf(new) = SocketsOf(clients_) \ {clients_[i].socket : i \in D}
      /\ MembersOf(new)
           = MembersOf(clients_) \ {<<clients_[i].socket, clients_[i].token>> : i \in D}
  BY <1>1, RemoveFacts DEF new
<1> QED
  BY <1>1, <1>2, NextMaps

\* Entries go from wait_clients_.
LEMMA RemovedFrom_wait_clients_ ==
  ASSUME SessionInv, NEW D \in SUBSET InMap(wait_clients_),
         wait_clients_' = Remove(wait_clients_, D)
  PROVE  /\ wait_clients_' \in Maps
         /\ SocketsOf(wait_clients_)'
              = SocketsOf(wait_clients_) \ {wait_clients_[i].socket : i \in D}
         /\ MembersOf(wait_clients_)'
              = MembersOf(wait_clients_)
                  \ {<<wait_clients_[i].socket, wait_clients_[i].token>> : i \in D}
         /\ Injective(wait_clients_)'
<1> DEFINE new == Remove(wait_clients_, D)
<1>1. wait_clients_ \in Maps /\ Injective(wait_clients_) /\ new = wait_clients_'
  BY DEF SessionInv, TypeOK, Maps, OneOwner
<1> HIDE DEF new
<1>2. /\ new \in Maps /\ Injective(new)
      /\ SocketsOf(new) = SocketsOf(wait_clients_) \ {wait_clients_[i].socket : i \in D}
      /\ MembersOf(new)
           = MembersOf(wait_clients_)
               \ {<<wait_clients_[i].socket, wait_clients_[i].token>> : i \in D}
  BY <1>1, RemoveFacts DEF new
<1> QED
  BY <1>1, <1>2, NextMaps

-----------------------------------------------------------------------------
(* The invariant. *)

\* The server starts in the invariant.
LEMMA InitInv == Init => SessionInv
<1> SUFFICES ASSUME Init PROVE SessionInv
  OBVIOUS
<1>1. clients_ = EmptyMap /\ wait_clients_ = EmptyMap
  BY DEF Init
<1>2. TypeOK
  BY EmptyMapFacts DEF Init, TypeOK, Maps, Commands
<1>3. OneOwner
  BY <1>1, EmptyMapFacts DEF Init, OneOwner
<1>4. AdmissionGate
  BY <1>1, EmptyMapFacts DEF AdmissionGate
<1>5. OneReply
  <2>1. \A c \in Conns : told[c] = <<>>
    BY DEF Init
  <2>2. SocketsOf(clients_) = {}
    BY <1>1, EmptyMapFacts
  <2>3. Len(<<>>) <= 1
    OBVIOUS
  <2> QED
    BY <2>1, <2>2, <2>3 DEF OneReply
<1>6. QueueGate
  BY <1>1, EmptyMapFacts DEF Init, QueueGate
<1> QED
  BY <1>2, <1>3, <1>4, <1>5, <1>6 DEF SessionInv

\* The end of the process leaves nothing owned and nothing open.
LEMMA HaltInv ==
  ASSUME SessionInv, NEW how \in {"io_exception", "command_exception", "exited"},
         Halt(how), UNCHANGED <<peer, header>>, inbox' \in SUBSET Conns
  PROVE  SessionInv'
<1>1. clients_' = EmptyMap /\ wait_clients_' = EmptyMap /\ reading' = {} /\ command' = Idle
  BY DEF Halt
<1>2. TypeOK'
  BY EmptyMapFacts DEF Halt, SessionInv, TypeOK, Maps, Commands
<1>3. OneOwner'
  BY <1>1, EmptyMapFacts DEF Halt, OneOwner
<1>4. AdmissionGate'
  BY <1>1, EmptyMapFacts DEF AdmissionGate
<1>5. OneReply'
  BY <1>1, EmptyMapFacts DEF Halt, SessionInv, OneReply, TypeOK
<1>6. QueueGate'
  BY <1>1, EmptyMapFacts DEF Halt, SessionInv, QueueGate, TypeOK
<1> QED
  BY <1>2, <1>3, <1>4, <1>5, <1>6 DEF SessionInv

\* Steps that leave the maps, the sockets, the reads and the replies alone.
LEMMA QuietInv ==
  ASSUME SessionInv, TypeOK',
         UNCHANGED <<clients_, wait_clients_, socket, reading, told>>,
         active_tokens_ \subseteq active_tokens_',
         \A c \in Conns : header[c] # NoRequest => header'[c] = header[c],
         \A c \in Conns : (peer'[c] = "absent") <=> (peer[c] = "absent"),
         command' # Idle => command'.token \in active_tokens_'
  PROVE  SessionInv'
<1>0. clients_ \in Maps /\ wait_clients_ \in Maps
  BY DEF SessionInv, TypeOK, Maps
<1>1. OneOwner'
  BY DEF SessionInv, OneOwner, Injective, InMap, SocketsOf
<1>2. /\ SocketsOf(clients_)' = SocketsOf(clients_)
      /\ MembersOf(clients_)' = MembersOf(clients_)
      /\ SocketsOf(wait_clients_)' = SocketsOf(wait_clients_)
  BY DEF SocketsOf, MembersOf, InMap
<1>3. AdmissionGate'
  BY <1>0, <1>2, OwnedAreConns DEF SessionInv, AdmissionGate
<1>4. \A c \in SocketsOf(clients_) : header'[c] = header[c]
  BY <1>0, OwnedAreConns DEF SessionInv, AdmissionGate
<1>5. OneReply'
  BY <1>2, <1>4 DEF SessionInv, OneReply
<1>6. QueueGate'
  BY <1>0, <1>2, OwnedAreConns DEF SessionInv, QueueGate
<1> QED
  BY <1>1, <1>3, <1>5, <1>6 DEF SessionInv

\* Steps that take connections off reading, wait_clients_ or clients_ and close
\* them, and that reply at most once, to those.
LEMMA DropInv ==
  ASSUME SessionInv, TypeOK',
         NEW S \in SUBSET Conns,
         Close(S),
         reading' = reading \ S,
         SocketsOf(wait_clients_)' = SocketsOf(wait_clients_) \ S,
         SocketsOf(clients_)' = SocketsOf(clients_) \ S,
         MembersOf(clients_)' \subseteq MembersOf(clients_),
         Injective(wait_clients_)', Injective(clients_)',
         \A c \in S : socket[c] = "open" /\ Len(told'[c]) <= 1,
         \A c \in Conns \ S : told'[c] = told[c],
         command' \in {command, Idle},
         UNCHANGED <<active_tokens_, peer, header>>
  PROVE  SessionInv'
<1>0. clients_ \in Maps /\ wait_clients_ \in Maps /\ clients_' \in Maps
  BY DEF SessionInv, TypeOK, Maps
<1>1. \A c \in Conns : socket'[c] = IF c \in S THEN "closed" ELSE socket[c]
  BY DEF Close
<1>2. OneOwner'
  BY <1>1 DEF SessionInv, OneOwner
<1>3. AdmissionGate'
  BY DEF SessionInv, AdmissionGate
<1>4. OneReply'
  <2> SUFFICES ASSUME NEW c \in Conns
               PROVE  /\ Len(told'[c]) <= 1
                      /\ socket'[c] = "none" \/ c \in reading' \cup SocketsOf(wait_clients_)'
                           => told'[c] = <<>>
                      /\ c \in SocketsOf(clients_)'
                           => told'[c] = <<IF header'[c].auto THEN "auto_approved" ELSE "approved">>
    BY DEF OneReply
  <2>1. CASE c \in S
    BY <1>1, <2>1
  <2>2. CASE c \notin S
    BY <1>1, <2>2 DEF SessionInv, OneReply
  <2> QED
    BY <2>1, <2>2
<1>5. QueueGate'
  BY <1>0, <1>1 DEF SessionInv, QueueGate
<1> QED
  BY <1>2, <1>3, <1>4, <1>5 DEF SessionInv

\* A peer that sends or leaves disturbs nothing the server has stored.
LEMMA PeerStepInv == SessionInv /\ PeerStep => SessionInv'
<1> SUFFICES ASSUME SessionInv, NEW c \in Conns,
                    PeerSendHeader(c) \/ PeerSendMore(c) \/ PeerClose(c)
             PROVE  SessionInv'
  BY DEF PeerStep
<1> USE DEF managerVars
<1>1. CASE PeerSendHeader(c)
  <2>1. TypeOK'
    BY <1>1 DEF PeerSendHeader, SessionInv, TypeOK
  <2> QED
    BY <1>1, <2>1, QuietInv DEF PeerSendHeader, SessionInv, TypeOK, QueueGate
<1>2. CASE PeerSendMore(c)
  <2>1. TypeOK'
    BY <1>2 DEF PeerSendMore, SessionInv, TypeOK
  <2> QED
    BY <1>2, <2>1, QuietInv DEF PeerSendMore, SessionInv, QueueGate
<1>3. CASE PeerClose(c)
  <2>1. TypeOK'
    BY <1>3 DEF PeerClose, SessionInv, TypeOK
  <2> QED
    BY <1>3, <2>1, QuietInv DEF PeerClose, SessionInv, TypeOK, QueueGate
<1> QED
  BY <1>1, <1>2, <1>3

\* Accepting adds a connection that nothing else owns.
LEMMA AcceptInv ==
  ASSUME SessionInv, NEW c \in Conns, Accept(c)
  PROVE  SessionInv'
<1> USE DEF Accept, managerVars
<1>0. clients_ \in Maps /\ wait_clients_ \in Maps
  BY DEF SessionInv, TypeOK, Maps
<1>1. TypeOK'
  BY DEF SessionInv, TypeOK
<1>2. /\ SocketsOf(clients_)' = SocketsOf(clients_)
      /\ MembersOf(clients_)' = MembersOf(clients_)
      /\ SocketsOf(wait_clients_)' = SocketsOf(wait_clients_)
      /\ Injective(clients_)' = Injective(clients_)
      /\ Injective(wait_clients_)' = Injective(wait_clients_)
  BY DEF SocketsOf, MembersOf, InMap, Injective
<1>3. socket[c] = "none" /\ told[c] = <<>>
  BY DEF SessionInv, QueueGate, OneReply
<1>4. c \notin reading \cup SocketsOf(wait_clients_) \cup SocketsOf(clients_)
  BY <1>3 DEF SessionInv, OneOwner
<1>5. \A d \in Conns : socket'[d] = IF d = c THEN "open" ELSE socket[d]
  BY DEF SessionInv, TypeOK
<1>6. OneOwner'
  BY <1>2, <1>4, <1>5 DEF SessionInv, OneOwner
<1>7. AdmissionGate'
  BY <1>2 DEF SessionInv, AdmissionGate
<1>8. OneReply'
  BY <1>2, <1>3, <1>4, <1>5 DEF SessionInv, OneReply
<1>9. QueueGate'
  BY <1>2, <1>5 DEF SessionInv, QueueGate, TypeOK
<1> QED
  BY <1>1, <1>6, <1>7, <1>8, <1>9 DEF SessionInv

\* A connection whose header read is outstanding: open, owned by nothing else,
\* and told nothing.
LEMMA ReadingFacts ==
  ASSUME SessionInv, NEW c \in reading
  PROVE  /\ c \in Conns
         /\ socket[c] = "open"
         /\ c \notin SocketsOf(wait_clients_) \cup SocketsOf(clients_)
         /\ told[c] = <<>>
BY DEF SessionInv, TypeOK, OneOwner, OneReply

\* The first reply to a connection is its only one.
LEMMA TellFacts ==
  ASSUME SessionInv, NEW c \in Conns, told[c] = <<>>, NEW reply \in Replies,
         Tell(c, reply)
  PROVE  /\ told' \in [Conns -> Seq(Replies)]
         /\ told'[c] = <<reply>>
         /\ Len(told'[c]) <= 1
         /\ \A d \in Conns \ {c} : told'[d] = told[d]
<1>1. told \in [Conns -> Seq(Replies)]
  BY DEF SessionInv, TypeOK
<1>2. Append(<<>>, reply) = <<reply>> /\ Len(<<reply>>) = 1 /\ <<reply>> \in Seq(Replies)
  OBVIOUS
<1> QED
  BY <1>1, <1>2 DEF Tell

\* Closing keeps the type of socket.
LEMMA CloseFacts ==
  ASSUME SessionInv, NEW S \in SUBSET Conns, Close(S)
  PROVE  socket' \in [Conns -> {"none", "open", "closed"}]
BY DEF SessionInv, TypeOK, Close

\* The maps are not touched, the connection goes.
LEMMA DropReadingInv ==
  ASSUME SessionInv, TypeOK', NEW c \in reading, Close({c}),
         reading' = reading \ {c},
         UNCHANGED <<clients_, wait_clients_, active_tokens_, command, peer, header>>,
         Len(told'[c]) <= 1,
         \A d \in Conns \ {c} : told'[d] = told[d]
  PROVE  SessionInv'
<1>1. /\ c \in Conns /\ socket[c] = "open"
      /\ c \notin SocketsOf(wait_clients_) \cup SocketsOf(clients_)
  BY ReadingFacts
<1>2. /\ SocketsOf(clients_)' = SocketsOf(clients_)
      /\ MembersOf(clients_)' = MembersOf(clients_)
      /\ SocketsOf(wait_clients_)' = SocketsOf(wait_clients_)
      /\ Injective(clients_)' /\ Injective(wait_clients_)'
  BY DEF SocketsOf, MembersOf, InMap, Injective, SessionInv, OneOwner
<1> QED
  BY <1>1, <1>2, DropInv

\* Each outcome of the header read: failed, refused, approved, queued, fatal.
LEMMA HeaderStepInv ==
  ASSUME SessionInv, NEW c \in Conns,
         HeaderReadError(c) \/ HandleHeader(c)
  PROVE  SessionInv'
<1> USE DEF managerVars, peerVars
<1>1. CASE HeaderReadError(c)
  <2>1. TypeOK'
    BY <1>1, CloseFacts DEF HeaderReadError, SessionInv, TypeOK
  <2>2. c \in reading /\ Len(told'[c]) <= 1
    BY <1>1 DEF HeaderReadError, SessionInv, OneReply
  <2> QED
    BY <1>1, <2>1, <2>2, DropReadingInv DEF HeaderReadError
<1>2. ASSUME HeaderRead(c), NEW reply \in Replies, Refuse(c, reply)
      PROVE  SessionInv'
  <2>1. c \in reading /\ inbox' \in SUBSET Conns /\ UNCHANGED <<peer, header>>
    BY <1>2 DEF HeaderRead, SessionInv, TypeOK
  <2>2. CASE Halt("io_exception")
    BY <2>1, <2>2, HaltInv
  <2>3. CASE /\ Tell(c, reply) /\ Close({c}) /\ reading' = reading \ {c}
             /\ UNCHANGED <<managerVars, command, process>>
    <3>1. /\ told' \in [Conns -> Seq(Replies)] /\ Len(told'[c]) <= 1
          /\ \A d \in Conns \ {c} : told'[d] = told[d]
      BY <2>1, <2>3, ReadingFacts, TellFacts
    <3>2. TypeOK'
      BY <2>1, <2>3, <3>1, CloseFacts DEF SessionInv, TypeOK
    <3> QED
      BY <2>1, <2>3, <3>1, <3>2, DropReadingInv
  <2> QED
    BY <1>2, <2>2, <2>3 DEF Refuse
<1>3. CASE HeaderInvalid(c)
  BY <1>2, <1>3 DEF HeaderInvalid, Replies
<1>4. CASE HeaderUnknownAgent(c)
  BY <1>2, <1>4 DEF HeaderUnknownAgent, Replies
<1>5. CASE HeaderWithoutLogin(c)
  <2>1. inbox' \in SUBSET Conns /\ UNCHANGED <<peer, header>> /\ Halt("io_exception")
    BY <1>5 DEF HeaderWithoutLogin, HeaderRead, SessionInv, TypeOK
  <2> QED
    BY <2>1, HaltInv
<1>6. ASSUME HeaderAuto(c) PROVE SessionInv'
  <2>1. /\ c \in reading /\ inbox' \in SUBSET Conns /\ UNCHANGED <<peer, header>>
        /\ header[c] # NoRequest /\ header[c].valid /\ header[c].agent
        /\ header[c].login /\ header[c].auto
    BY <1>6 DEF HeaderAuto, HeaderAccepted, HeaderRead, SessionInv, TypeOK
  <2>2. PICK id \in Ids : auto_approve_client(c, id)
    BY <1>6 DEF HeaderAuto, GeneratedIds
  <2>3. CASE Halt("io_exception")
    BY <2>1, <2>3, HaltInv
  <2>4. ASSUME Tell(c, "auto_approved")
        PROVE  /\ told' \in [Conns -> Seq(Replies)] /\ Len(told'[c]) <= 1
               /\ told'[c] = <<"auto_approved">>
               /\ \A d \in Conns \ {c} : told'[d] = told[d]
    <3>1. "auto_approved" \in Replies
      BY DEF Replies
    <3> QED
      BY <2>1, <2>4, <3>1, ReadingFacts, TellFacts
  <2>5. ASSUME Tell(c, "auto_approved"), reading' = reading \ {c}, Close({c}),
               UNCHANGED <<clients_, wait_clients_, active_tokens_, name, command, process>>
        PROVE  SessionInv'
    <3>1. TypeOK'
      BY <2>1, <2>4, <2>5, CloseFacts DEF SessionInv, TypeOK
    <3> QED
      BY <2>1, <2>4, <2>5, <3>1, DropReadingInv
  <2>6. ASSUME Tell(c, "auto_approved"), reading' = reading \ {c},
               clients_[id] = NoClient,
               clients_' = [clients_ EXCEPT ![id] = NewClient(c)],
               name' = [name EXCEPT ![c] = id],
               UNCHANGED <<wait_clients_, active_tokens_, socket, command, process>>
        PROVE  SessionInv'
    <3>1. /\ told' \in [Conns -> Seq(Replies)] /\ Len(told'[c]) <= 1
          /\ told'[c] = <<"auto_approved">>
          /\ \A d \in Conns \ {c} : told'[d] = told[d]
      BY <2>4, <2>6
    <3>2. /\ c \in Conns /\ socket[c] = "open"
          /\ c \notin SocketsOf(wait_clients_) \cup SocketsOf(clients_)
      BY <2>1, ReadingFacts
    <3>5. /\ clients_' \in Maps
          /\ SocketsOf(clients_)' = SocketsOf(clients_) \cup {c}
          /\ MembersOf(clients_)' = MembersOf(clients_) \cup {<<c, NoToken>>}
          /\ Injective(clients_)'
      BY <2>2, <2>6, <3>2, InsertedInto_clients_ DEF NewClient
    <3>6. /\ SocketsOf(wait_clients_)' = SocketsOf(wait_clients_)
          /\ Injective(wait_clients_)' = Injective(wait_clients_)
      BY <2>6 DEF SocketsOf, InMap, Injective
    <3>7. TypeOK'
      BY <2>1, <2>2, <2>6, <3>1, <3>5 DEF SessionInv, TypeOK, Maps
    <3>8. OneOwner'
      BY <2>1, <2>6, <3>2, <3>5, <3>6 DEF SessionInv, OneOwner
    <3>9. AdmissionGate'
      <4> SUFFICES ASSUME NEW m \in MembersOf(clients_) \cup {<<c, NoToken>>}
                   PROVE  /\ header[m[1]] # NoRequest
                          /\ header[m[1]].valid /\ header[m[1]].agent /\ header[m[1]].login
                          /\ header[m[1]].auto \/ m[2] \in active_tokens_
        BY <2>1, <2>6, <3>5 DEF AdmissionGate
      <4>1. CASE m = <<c, NoToken>>
        BY <2>1, <4>1
      <4>2. CASE m \in MembersOf(clients_)
        BY <4>2 DEF SessionInv, AdmissionGate
      <4> QED
        BY <4>1, <4>2
    <3>10. OneReply'
      BY <2>1, <2>6, <3>1, <3>2, <3>5, <3>6 DEF SessionInv, OneReply, OneOwner
    <3>11. QueueGate'
      BY <2>1, <2>6, <3>6 DEF SessionInv, QueueGate
    <3> QED
      BY <3>7, <3>8, <3>9, <3>10, <3>11 DEF SessionInv
  <2> QED
    BY <2>2, <2>3, <2>5, <2>6 DEF auto_approve_client
<1>7. ASSUME HeaderManual(c) PROVE SessionInv'
  <2>1. /\ c \in reading /\ inbox' \in SUBSET Conns /\ UNCHANGED <<peer, header>>
        /\ header[c] # NoRequest /\ header[c].valid /\ header[c].agent
        /\ header[c].login /\ ~header[c].auto
    BY <1>7 DEF HeaderManual, HeaderAccepted, HeaderRead, SessionInv, TypeOK
  <2>2. PICK id \in Ids : add_client(c, id)
    BY <1>7 DEF HeaderManual, GeneratedIds
  <2>3. /\ c \in Conns /\ socket[c] = "open" /\ told[c] = <<>>
        /\ c \notin SocketsOf(wait_clients_) \cup SocketsOf(clients_)
    BY <2>1, ReadingFacts
  <2>4. ASSUME Close({c}), UNCHANGED wait_clients_
        PROVE  SessionInv'
    <3>1. TypeOK'
      BY <2>1, <2>2, <2>4, CloseFacts DEF add_client, SessionInv, TypeOK
    <3>2. Len(told'[c]) <= 1
      BY <2>2, <2>3 DEF add_client, SessionInv, OneReply
    <3> QED
      BY <2>1, <2>2, <2>4, <3>1, <3>2, DropReadingInv DEF add_client
  <2>5. ASSUME wait_clients_[id] = NoClient,
               wait_clients_' = [wait_clients_ EXCEPT ![id] = NewClient(c)],
               UNCHANGED socket
        PROVE  SessionInv'
    <3>3. /\ wait_clients_' \in Maps
          /\ SocketsOf(wait_clients_)' = SocketsOf(wait_clients_) \cup {c}
          /\ Injective(wait_clients_)'
      BY <2>2, <2>3, <2>5, InsertedInto_wait_clients_ DEF NewClient
    <3>4. /\ SocketsOf(clients_)' = SocketsOf(clients_)
          /\ MembersOf(clients_)' = MembersOf(clients_)
          /\ Injective(clients_)' = Injective(clients_)
      BY <2>2 DEF add_client, SocketsOf, MembersOf, InMap, Injective
    <3>5. TypeOK'
      BY <2>1, <2>2, <2>5, <3>3 DEF add_client, SessionInv, TypeOK, Maps
    <3>6. OneOwner'
      BY <2>1, <2>2, <2>3, <2>5, <3>3, <3>4 DEF add_client, SessionInv, OneOwner
    <3>7. AdmissionGate'
      BY <2>1, <2>2, <3>4 DEF add_client, SessionInv, AdmissionGate
    <3>8. OneReply'
      BY <2>1, <2>2, <2>3, <2>5, <3>3, <3>4 DEF add_client, SessionInv, OneReply
    <3>9. QueueGate'
      BY <2>1, <2>2, <2>5, <3>3 DEF add_client, SessionInv, QueueGate
    <3> QED
      BY <3>5, <3>6, <3>7, <3>8, <3>9 DEF SessionInv
  <2> QED
    BY <2>2, <2>4, <2>5 DEF add_client
<1> QED
  BY <1>1, <1>3, <1>4, <1>5, <1>6, <1>7 DEF HandleHeader

\* A removal by the chat: the entry goes and its socket is closed.
LEMMA RemoveInv ==
  ASSUME SessionInv, NEW id \in Ids, remove_client(id), UNCHANGED peerVars
  PROVE  SessionInv'
<1> DEFINE c == clients_[id].socket
<1>0. clients_ \in Maps /\ wait_clients_ \in Maps
  BY DEF SessionInv, TypeOK, Maps
<1>1. /\ id \in InMap(clients_) /\ {id} \in SUBSET InMap(clients_)
      /\ Close({c})
      /\ clients_' = Remove(clients_, {id})
      /\ UNCHANGED <<wait_clients_, active_tokens_, name, reading, command, process,
                     peer, header, inbox, told>>
  BY <1>0 DEF remove_client, InMap, Remove, peerVars, Maps
<1>2. c \in SocketsOf(clients_) /\ c \in Conns
  BY <1>0, <1>1, OwnedAreConns
<1>3. {clients_[i].socket : i \in {id}} = {c}
  OBVIOUS
<1> HIDE DEF c
<1>4. /\ clients_' \in Maps
      /\ SocketsOf(clients_)' = SocketsOf(clients_) \ {c}
      /\ MembersOf(clients_)' \subseteq MembersOf(clients_)
      /\ Injective(clients_)'
  BY <1>1, <1>3, RemovedFrom_clients_
<1>5. TypeOK'
  BY <1>1, <1>2, <1>4, CloseFacts DEF SessionInv, TypeOK, Maps
<1>6. /\ socket[c] = "open" /\ c \notin reading \cup SocketsOf(wait_clients_)
      /\ Len(told'[c]) <= 1
  BY <1>1, <1>2 DEF SessionInv, OneOwner, OneReply
<1>7. /\ SocketsOf(wait_clients_)' = SocketsOf(wait_clients_)
      /\ Injective(wait_clients_)'
  BY <1>1, NextMaps DEF SessionInv, OneOwner
<1> QED
  BY <1>1, <1>2, <1>4, <1>5, <1>6, <1>7, DropInv

\* What a failed read or write asks of remove_client.
LEMMA FailedOperation ==
  ASSUME SessionInv, NEW c \in Conns, ChatReadError(c) \/ ChatWriteError(c)
  PROVE  /\ OperationFails(c) /\ UNCHANGED peerVars
         /\ \E id \in Ids : /\ remove_client(id)
                            /\ id = name[c] \/ id \in Logins
<1>1. name[c] # NoId => name[c] \in Ids
  BY DEF SessionInv, TypeOK
<1> QED
  BY <1>1, SessionAssumption DEF ChatReadError, ChatWriteError, OperationFails

\* The purge: every dead entry goes and its socket is closed.
LEMMA PurgeInv ==
  ASSUME SessionInv, get_wait_clients
  PROVE  SessionInv'
<1> DEFINE dead == {id \in InMap(wait_clients_) :
                      is_client_really_dead(wait_clients_[id].socket)}
           S    == {wait_clients_[id].socket : id \in dead}
<1>0. wait_clients_ \in Maps
  BY DEF SessionInv, TypeOK, Maps
<1>1. /\ Close(S)
      /\ wait_clients_' = Remove(wait_clients_, dead)
      /\ UNCHANGED <<clients_, active_tokens_, name, reading, command, process,
                     peer, header, inbox, told>>
  BY DEF get_wait_clients, access_wait_clients, Remove, peerVars
<1>2. dead \in SUBSET InMap(wait_clients_)
  OBVIOUS
<1>3. S \subseteq SocketsOf(wait_clients_)
  BY DEF SocketsOf
<1> HIDE DEF dead, S
<1>4. /\ wait_clients_' \in Maps
      /\ SocketsOf(wait_clients_)' = SocketsOf(wait_clients_) \ S
      /\ Injective(wait_clients_)'
  BY <1>1, <1>2, RemovedFrom_wait_clients_ DEF S
<1>6. S \in SUBSET Conns
  BY <1>0, <1>3, OwnedAreConns
<1>7. TypeOK'
  BY <1>1, <1>4, <1>6, CloseFacts DEF SessionInv, TypeOK, Maps
<1>8. /\ \A c \in S : socket[c] = "open" /\ Len(told'[c]) <= 1
      /\ S \cap (reading \cup SocketsOf(clients_)) = {}
  BY <1>1, <1>3, <1>6 DEF SessionInv, OneOwner, OneReply
<1>9. /\ SocketsOf(clients_)' = SocketsOf(clients_)
      /\ MembersOf(clients_)' = MembersOf(clients_)
      /\ Injective(clients_)'
  BY <1>1, NextMaps DEF SessionInv, OneOwner
<1> QED
  BY <1>1, <1>4, <1>6, <1>7, <1>8, <1>9, DropInv

\* The second critical section of an approval: the node moves, or is dropped
\* because its id is taken, or the write ends the process.
LEMMA ApproveInv ==
  ASSUME SessionInv, approve_client
  PROVE  SessionInv'
<1> DEFINE id   == command.id
           tok  == command.token
           c    == wait_clients_[id].socket
<1>0. /\ clients_ \in Maps /\ wait_clients_ \in Maps
      /\ Injective(clients_) /\ Injective(wait_clients_)
  BY DEF SessionInv, TypeOK, Maps, OneOwner
<1>1. /\ process = "running" /\ command # Idle /\ wait_clients_[id] # NoClient
      /\ UNCHANGED <<peer, header, inbox>>
  BY DEF approve_client, peerVars
<1>2. id \in Ids /\ tok \in Tokens /\ tok \in active_tokens_
  BY <1>1 DEF SessionInv, TypeOK, Commands, Idle, QueueGate
<1>3. id \in InMap(wait_clients_) /\ {id} \in SUBSET InMap(wait_clients_)
  BY <1>1, <1>2 DEF InMap
<1>4. c \in SocketsOf(wait_clients_) /\ c \in Conns
  BY <1>0, <1>3, OwnedAreConns
<1>5. /\ socket[c] = "open" /\ told[c] = <<>>
      /\ c \notin reading \cup SocketsOf(clients_)
      /\ header[c] # NoRequest /\ header[c].valid /\ header[c].agent
      /\ header[c].login /\ ~header[c].auto
  BY <1>4 DEF SessionInv, OneOwner, OneReply, QueueGate
<1>6. CASE Halt("command_exception")
  <2>1. inbox' \in SUBSET Conns
    BY <1>1 DEF SessionInv, TypeOK
  <2> QED
    BY <1>1, <1>6, <2>1, HaltInv
<1>7. ASSUME wait_clients_' = [wait_clients_ EXCEPT ![id] = NoClient],
             Tell(c, "approved"), command' = Idle,
             UNCHANGED <<active_tokens_, reading, process>>,
             \/ /\ clients_[id] = NoClient
                /\ clients_' = [clients_ EXCEPT ![id] = [socket |-> c, token |-> tok]]
                /\ name' = [name EXCEPT ![c] = id]
                /\ UNCHANGED socket
             \/ /\ clients_[id] # NoClient
                /\ Close({c})
                /\ UNCHANGED <<clients_, name>>
      PROVE  SessionInv'
  <2>1. /\ told' \in [Conns -> Seq(Replies)] /\ Len(told'[c]) <= 1
        /\ told'[c] = <<"approved">>
        /\ \A d \in Conns \ {c} : told'[d] = told[d]
    <3>1. "approved" \in Replies
      BY DEF Replies
    <3> QED
      BY <1>4, <1>5, <1>7, <3>1, TellFacts
  <2>2. /\ wait_clients_' \in Maps
        /\ SocketsOf(wait_clients_)' = SocketsOf(wait_clients_) \ {c}
        /\ Injective(wait_clients_)'
    <3>1. wait_clients_' = Remove(wait_clients_, {id})
      BY <1>0, <1>7 DEF Remove, Maps
    <3>2. {wait_clients_[i].socket : i \in {id}} = {c}
      OBVIOUS
    <3> HIDE DEF id, c
    <3> QED
      BY <1>3, <3>1, <3>2, RemovedFrom_wait_clients_
  <2>6. CASE clients_[id] # NoClient
    <3>1. UNCHANGED <<clients_, name>> /\ Close({c})
      BY <1>7, <2>6
    <3> HIDE DEF id, tok, c
    <3>4. /\ SocketsOf(clients_)' = SocketsOf(clients_)
          /\ MembersOf(clients_)' = MembersOf(clients_)
          /\ Injective(clients_)'
      BY <1>0, <3>1, NextMaps
    <3>5. TypeOK'
      BY <1>1, <1>4, <1>7, <2>1, <2>2, <3>1, CloseFacts
         DEF SessionInv, TypeOK, Maps, Commands
    <3> QED
      BY <1>1, <1>4, <1>5, <1>7, <2>1, <2>2, <3>1, <3>4, <3>5, DropInv
  <2>7. CASE clients_[id] = NoClient
    <3>1. UNCHANGED socket /\ name' = [name EXCEPT ![c] = id]
      BY <1>7, <2>7
    <3>5. /\ clients_' \in Maps
          /\ SocketsOf(clients_)' = SocketsOf(clients_) \cup {c}
          /\ MembersOf(clients_)' = MembersOf(clients_) \cup {<<c, tok>>}
          /\ Injective(clients_)'
      BY <1>2, <1>4, <1>5, <1>7, <2>7, InsertedInto_clients_
    <3> HIDE DEF id, tok, c
    <3>6. TypeOK'
      BY <1>1, <1>2, <1>7, <2>1, <2>2, <3>1, <3>5
         DEF SessionInv, TypeOK, Maps, Commands
    <3>7. OneOwner'
      <4>1. /\ reading \cap SocketsOf(wait_clients_) = {}
            /\ (reading \cup SocketsOf(wait_clients_)) \cap SocketsOf(clients_) = {}
            /\ \A d \in Conns :
                 socket[d] = "open" <=>
                   d \in reading \cup SocketsOf(wait_clients_) \cup SocketsOf(clients_)
        BY DEF SessionInv, OneOwner
      <4>2. reading' = reading /\ socket' = socket
        BY <1>7, <3>1
      <4> QED
        BY <1>4, <1>5, <2>2, <3>5, <4>1, <4>2 DEF OneOwner
    <3>8. AdmissionGate'
      <4> SUFFICES ASSUME NEW m \in MembersOf(clients_) \cup {<<c, tok>>}
                   PROVE  /\ header[m[1]] # NoRequest
                          /\ header[m[1]].valid /\ header[m[1]].agent /\ header[m[1]].login
                          /\ header[m[1]].auto \/ m[2] \in active_tokens_
        BY <1>1, <1>7, <3>5 DEF AdmissionGate
      <4>1. CASE m = <<c, tok>>
        BY <1>2, <1>5, <4>1
      <4>2. CASE m \in MembersOf(clients_)
        BY <4>2 DEF SessionInv, AdmissionGate
      <4> QED
        BY <4>1, <4>2
    <3>9. OneReply'
      BY <1>1, <1>4, <1>5, <1>7, <2>1, <3>1, <2>2, <3>5 DEF SessionInv, OneReply
    <3>10. QueueGate'
      BY <1>1, <1>7, <3>1, <2>2 DEF SessionInv, QueueGate
    <3> QED
      BY <3>6, <3>7, <3>8, <3>9, <3>10 DEF SessionInv
  <2> QED
    BY <2>6, <2>7
<1> QED
  BY <1>6, <1>7 DEF approve_client

\* The other commands of the host: they touch tokens and the command alone, or
\* end the process.
LEMMA CommandInv ==
  ASSUME SessionInv, CommandStep
  PROVE  SessionInv'
<1> USE DEF managerVars, peerVars
<1>1. ASSUME NEW t \in Tokens, create_token(t)
      PROVE  SessionInv'
  <2>1. TypeOK'
    BY <1>1 DEF create_token, CommandReady, SessionInv, TypeOK
  <2> QED
    BY <1>1, <2>1, QuietInv DEF create_token, CommandReady
<1>2. CASE CreateTokenThrows
  BY <1>2, HaltInv DEF CreateTokenThrows, SessionInv, TypeOK
<1>3. ASSUME NEW id \in Ids, NEW t \in Tokens, ApproveCheckToken(id, t)
      PROVE  SessionInv'
  <2>1. command' = [op |-> "approve", id |-> id, token |-> t] /\ t \in active_tokens_'
    BY <1>3 DEF ApproveCheckToken
  <2>2. TypeOK'
    BY <1>3, <2>1 DEF ApproveCheckToken, CommandReady, SessionInv, TypeOK, Commands
  <2> QED
    BY <1>3, <2>1, <2>2, QuietInv DEF ApproveCheckToken
<1>4. CASE ApproveNotFound
  <2>1. TypeOK'
    BY <1>4 DEF ApproveNotFound, SessionInv, TypeOK, Commands
  <2> QED
    BY <1>4, <2>1, QuietInv DEF ApproveNotFound
<1>5. CASE Exit
  BY <1>5, HaltInv DEF Exit, SessionInv, TypeOK
<1> QED
  BY <1>1, <1>2, <1>3, <1>4, <1>5, ApproveInv, PurgeInv DEF CommandStep

\* Every step keeps the invariant.
LEMMA StepInv == SessionInv /\ [Next]_vars => SessionInv'
<1> SUFFICES ASSUME SessionInv, [Next]_vars
             PROVE  SessionInv'
  OBVIOUS
<1>1. CASE PeerStep
  BY <1>1, PeerStepInv
<1>2. CASE IoStep
  BY <1>2, AcceptInv, HeaderStepInv, FailedOperation, RemoveInv DEF IoStep, HandleHeader
<1>3. CASE CommandStep
  BY <1>3, CommandInv
<1>4. CASE UNCHANGED vars
  <2>1. TypeOK'
    BY <1>4 DEF vars, SessionInv, TypeOK
  <2> QED
    BY <1>4, <2>1, QuietInv DEF vars, SessionInv, QueueGate
<1> QED
  BY <1>1, <1>2, <1>3, <1>4 DEF Next

\* SessionInv is an invariant of the session manager, for every set of
\* connections, ids, tokens and headers and whether or not ids collide.
THEOREM SessionInvariant == Spec => []SessionInv
BY InitInv, StepInv, PTL DEF Spec

\* Every variable keeps its type.
THEOREM TypeCorrect == Spec => []TypeOK
<1>1. SessionInv => TypeOK
  BY DEF SessionInv
<1> QED
  BY <1>1, SessionInvariant, PTL

\* No open socket is lost or owned twice by add_client, approve_client,
\* auto_approve_client, remove_client and the purge.
THEOREM SocketsOwnedOnce == Spec => []OneOwner
<1>1. SessionInv => OneOwner
  BY DEF SessionInv
<1> QED
  BY <1>1, SessionInvariant, PTL

\* Nobody is accepted without a well-formed header and, unless the header asked
\* for automatic approval, a token of the host.
THEOREM AdmissionIsGated == Spec => []AdmissionGate
<1>1. SessionInv => AdmissionGate
  BY DEF SessionInv
<1> QED
  BY <1>1, SessionInvariant, PTL

\* No connection gets a second reply.
THEOREM RepliesOnce == Spec => []OneReply
<1>1. SessionInv => OneReply
  BY DEF SessionInv
<1> QED
  BY <1>1, SessionInvariant, PTL

-----------------------------------------------------------------------------
(* The names under which connections were inserted. *)

\* Nobody has a name at the start.
LEMMA NameInit == Init => NameInv
BY DEF Init, NameInv, NamedClients, FreshNames, EmptyMap, InMap

\* Steps that give no name, insert nobody and close no client's socket unless
\* somebody has left.
LEMMA UnnamedStep ==
  ASSUME SessionInv, NameInv, UNCHANGED name,
         \A id \in Ids : clients_'[id] \in {clients_[id], NoClient},
         FreshIds => \A id \in InMap(wait_clients_)' :
                       id \in InMap(wait_clients_) \/ \A c \in Conns : name[c] # id,
         \A c \in Conns : told'[c] = <<>> => told[c] = <<>>,
         \A c \in Conns : peer[c] = "closed" => peer'[c] = "closed",
         process' = "running" => process = "running",
         \A c \in Conns :
           process' = "running" /\ name[c] # NoId /\ socket'[c] = "closed"
             => socket[c] = "closed" \/ \E d \in Conns : peer[d] = "closed"
  PROVE  NameInv'
<1>1. NamedClients'
  <2>1. \A id \in InMap(clients_)' : id \in InMap(clients_) /\ clients_'[id] = clients_[id]
    BY DEF InMap
  <2> QED
    BY <2>1 DEF NameInv, NamedClients
<1>2. FreshNames'
  BY DEF NameInv, FreshNames
<1> QED
  BY <1>1, <1>2 DEF NameInv

\* c gets the name id with its entry in clients_.
LEMMA NamingStep ==
  ASSUME SessionInv, NameInv, NEW c \in Conns, NEW id \in Ids, NEW t,
         c \notin SocketsOf(clients_), socket[c] = "open",
         clients_' = [clients_ EXCEPT ![id] = [socket |-> c, token |-> t]],
         name' = [name EXCEPT ![c] = id],
         told'[c] # <<>>, \A d \in Conns \ {c} : told'[d] = told[d],
         FreshIds => /\ \A d \in Conns : name[d] # id
                     /\ InMap(wait_clients_)' \subseteq InMap(wait_clients_) \ {id},
         UNCHANGED <<peer, process, socket>>
  PROVE  NameInv'
<1>1. /\ clients_ \in [Ids -> Client \cup {NoClient}]
      /\ name \in [Conns -> Ids \cup {NoId}]
  BY DEF SessionInv, TypeOK
<1>2. \A d \in Conns : name'[d] = IF d = c THEN id ELSE name[d]
  BY <1>1
<1>3. \A i \in Ids : clients_'[i] = IF i = id THEN [socket |-> c, token |-> t] ELSE clients_[i]
  BY <1>1
<1>4. NamedClients'
  <2>1. ASSUME NEW i \in InMap(clients_)' PROVE name'[clients_'[i].socket] = i
    <3>1. CASE i = id
      BY <1>2, <1>3, <3>1
    <3>2. CASE i # id
      <4>1. i \in InMap(clients_) /\ clients_'[i] = clients_[i]
        BY <1>3, <3>2 DEF InMap
      <4>2. clients_[i].socket # c /\ clients_[i].socket \in Conns
        BY <1>1, <4>1 DEF SocketsOf, InMap, Client
      <4> QED
        BY <1>2, <4>1, <4>2 DEF NameInv, NamedClients
    <3> QED
      BY <3>1, <3>2
  <2>2. \A d \in Conns : told'[d] = <<>> => name'[d] = NoId
    BY <1>2 DEF NameInv, NamedClients
  <2>3. \A d \in Conns :
          process' = "running" /\ name'[d] # NoId /\ socket'[d] = "closed"
            => \E e \in Conns : peer'[e] = "closed"
    BY <1>2 DEF NameInv, NamedClients
  <2> QED
    BY <2>1, <2>2, <2>3 DEF NamedClients
<1>5. FreshNames'
  BY <1>2 DEF NameInv, FreshNames
<1> QED
  BY <1>4, <1>5 DEF NameInv

\* A removal follows somebody's departure.
LEMMA SomebodyLeft ==
  ASSUME SessionInv, NameInv, NEW c \in Conns, OperationFails(c)
  PROVE  \E d \in Conns : peer[d] = "closed"
BY DEF OperationFails, NameInv, NamedClients

\* Every step keeps what is known of names.
LEMMA NameStep ==
  ASSUME SessionInv, NameInv, [Next]_vars
  PROVE  NameInv'
<1>0. /\ clients_ \in [Ids -> Client \cup {NoClient}]
      /\ wait_clients_ \in [Ids -> Client \cup {NoClient}]
      /\ told \in [Conns -> Seq(Replies)]
      /\ socket \in [Conns -> {"none", "open", "closed"}]
      /\ peer \in [Conns -> {"absent", "connected", "closed"}]
  BY DEF SessionInv, TypeOK
<1>1. ASSUME NEW how \in {"io_exception", "command_exception", "exited"}, Halt(how),
             UNCHANGED peer
      PROVE  NameInv'
  BY <1>1, UnnamedStep DEF Halt, EmptyMap, InMap
<1>2. ASSUME UNCHANGED <<clients_, wait_clients_, name, socket, process>>,
             \A c \in Conns : told'[c] = <<>> => told[c] = <<>>,
             \A c \in Conns : peer[c] = "closed" => peer'[c] = "closed"
      PROVE  NameInv'
  BY <1>2, UnnamedStep DEF InMap
<1>3. ASSUME NEW c \in Conns, NEW reply, Tell(c, reply)
      PROVE  /\ told'[c] # <<>>
             /\ \A d \in Conns \ {c} : told'[d] = told[d]
  BY <1>0, <1>3 DEF Tell
<1>4. CASE PeerStep
  BY <1>0, <1>2, <1>4
     DEF PeerStep, PeerSendHeader, PeerSendMore, PeerClose, managerVars
<1>5. ASSUME NEW c \in Conns, Accept(c) PROVE NameInv'
  <2>1. \A d \in Conns : socket'[d] = "closed" => socket[d] = "closed"
    BY <1>0, <1>5 DEF Accept
  <2> QED
    BY <1>0, <1>5, <2>1, UnnamedStep DEF Accept, managerVars, InMap
\* A socket that is closed before it is a client's has no name.
<1>6. ASSUME NEW c \in Conns, c \in reading \cup SocketsOf(wait_clients_), Close({c}),
             \A d \in Conns : told'[d] = <<>> => told[d] = <<>>,
             InMap(wait_clients_)' \subseteq InMap(wait_clients_),
             UNCHANGED <<clients_, name, process, peer>>
      PROVE  NameInv'
  <2>1. name[c] = NoId
    BY <1>6 DEF SessionInv, OneReply, NameInv, NamedClients
  <2>2. \A d \in Conns \ {c} : socket'[d] = socket[d]
    BY <1>6 DEF Close
  <2> QED
    BY <1>6, <2>1, <2>2, UnnamedStep
<1>7. ASSUME NEW c \in Conns, HeaderReadError(c) \/ HandleHeader(c) PROVE NameInv'
  <2>1. c \in reading /\ UNCHANGED peer
    BY <1>7 DEF HeaderReadError, HandleHeader, HeaderInvalid, HeaderUnknownAgent,
         HeaderWithoutLogin, HeaderAuto, HeaderManual, HeaderAccepted, HeaderRead, peerVars
  <2>2. socket[c] = "open" /\ c \notin SocketsOf(clients_)
    BY <2>1, ReadingFacts
  <2>3. CASE HeaderReadError(c)
    BY <1>6, <2>1, <2>3 DEF HeaderReadError, managerVars, InMap
  <2>4. ASSUME NEW reply, Refuse(c, reply) PROVE NameInv'
    <3>1. CASE Halt("io_exception")
      BY <1>1, <2>1, <3>1
    <3>2. CASE Tell(c, reply) /\ Close({c}) /\ UNCHANGED <<managerVars, process>>
      BY <1>3, <1>6, <2>1, <3>2 DEF managerVars, InMap
    <3> QED
      BY <2>4, <3>1, <3>2 DEF Refuse
  <2>5. CASE HeaderWithoutLogin(c)
    BY <1>1, <2>1, <2>5 DEF HeaderWithoutLogin
  <2>6. CASE HeaderAuto(c)
    <3>1. PICK id \in GeneratedIds : auto_approve_client(c, id)
      BY <2>6 DEF HeaderAuto
    <3>2. id \in Ids /\ (FreshIds => /\ \A d \in Conns : name[d] # id
                                    /\ id \notin InMap(wait_clients_))
      BY DEF GeneratedIds, InMap
    <3>3. CASE Halt("io_exception")
      BY <1>1, <2>1, <3>3
    <3>4. CASE Tell(c, "auto_approved") /\ Close({c})
               /\ UNCHANGED <<clients_, name, wait_clients_, process>>
      BY <1>3, <1>6, <2>1, <3>4 DEF InMap
    <3>5. CASE /\ Tell(c, "auto_approved")
               /\ clients_' = [clients_ EXCEPT ![id] = NewClient(c)]
               /\ name' = [name EXCEPT ![c] = id]
               /\ UNCHANGED <<socket, wait_clients_, process>>
      <4>1. InMap(wait_clients_)' = InMap(wait_clients_)
        BY <3>5 DEF InMap
      <4>2. told'[c] # <<>> /\ \A d \in Conns \ {c} : told'[d] = told[d]
        BY <1>3, <3>5
      <4> QED
        BY <2>1, <2>2, <3>2, <3>5, <4>1, <4>2, NamingStep DEF NewClient
    <3> QED
      BY <3>1, <3>3, <3>4, <3>5 DEF auto_approve_client
  <2>7. CASE HeaderManual(c)
    <3>1. PICK id \in GeneratedIds : add_client(c, id)
      BY <2>7 DEF HeaderManual
    <3>2. id \in Ids /\ (FreshIds => \A d \in Conns : name[d] # id)
      BY DEF GeneratedIds
    <3>3. CASE Close({c}) /\ UNCHANGED wait_clients_
      BY <1>6, <2>1, <3>1, <3>3 DEF add_client, InMap
    <3>4. CASE wait_clients_' = [wait_clients_ EXCEPT ![id] = NewClient(c)]
               /\ UNCHANGED socket
      <4>1. \A i \in InMap(wait_clients_)' : i \in InMap(wait_clients_) \/ i = id
        BY <1>0, <3>4 DEF InMap
      <4> QED
        BY <2>1, <3>1, <3>2, <3>4, <4>1, UnnamedStep DEF add_client
    <3> QED
      BY <3>1, <3>3, <3>4 DEF add_client
  <2> QED
    BY <1>7, <2>3, <2>4, <2>5, <2>6, <2>7
       DEF HandleHeader, HeaderInvalid, HeaderUnknownAgent
<1>8. ASSUME NEW c \in Conns, ChatReadError(c) \/ ChatWriteError(c) PROVE NameInv'
  <2>1. PICK id \in Ids : remove_client(id)
    BY <1>8, FailedOperation
  <2>2. (\E d \in Conns : peer[d] = "closed") /\ UNCHANGED peer
    BY <1>8, FailedOperation, SomebodyLeft DEF peerVars
  <2>3. \A i \in Ids : clients_'[i] \in {clients_[i], NoClient}
    BY <1>0, <2>1 DEF remove_client
  <2> QED
    BY <2>1, <2>2, <2>3, UnnamedStep DEF remove_client, InMap
<1>9. CASE approve_client
  <2> DEFINE id == command.id
             c  == wait_clients_[id].socket
  <2>1. /\ id \in Ids /\ c \in Conns
        /\ c \in SocketsOf(wait_clients_) /\ id \in InMap(wait_clients_)
        /\ UNCHANGED peer
    BY <1>9 DEF approve_client, SessionInv, TypeOK, Commands, Idle, Client, peerVars,
         SocketsOf, InMap
  <2>2. socket[c] = "open" /\ c \notin SocketsOf(clients_)
    BY <2>1 DEF SessionInv, OneOwner
  <2>3. \/ /\ wait_clients_' = [wait_clients_ EXCEPT ![id] = NoClient]
           /\ Tell(c, "approved")
           /\ \/ /\ clients_' = [clients_ EXCEPT
                                   ![id] = [socket |-> c, token |-> command.token]]
                 /\ name' = [name EXCEPT ![c] = id]
                 /\ UNCHANGED socket
              \/ /\ Close({c})
                 /\ UNCHANGED <<clients_, name>>
           /\ UNCHANGED process
        \/ Halt("command_exception")
    BY <1>9 DEF approve_client
  <2> HIDE DEF id, c
  <2>4. CASE Halt("command_exception")
    BY <1>1, <2>1, <2>4
  <2>5. ASSUME wait_clients_' = [wait_clients_ EXCEPT ![id] = NoClient]
        PROVE  InMap(wait_clients_)' = InMap(wait_clients_) \ {id}
    BY <1>0, <2>5 DEF InMap
  <2>6. ASSUME Tell(c, "approved")
        PROVE  told'[c] # <<>> /\ \A d \in Conns \ {c} : told'[d] = told[d]
    BY <1>3, <2>1, <2>6
  <2>7. CASE /\ wait_clients_' = [wait_clients_ EXCEPT ![id] = NoClient]
             /\ Tell(c, "approved") /\ Close({c})
             /\ UNCHANGED <<clients_, name, process>>
    BY <1>6, <2>1, <2>5, <2>6, <2>7
  <2>8. CASE /\ wait_clients_' = [wait_clients_ EXCEPT ![id] = NoClient]
             /\ Tell(c, "approved")
             /\ clients_' = [clients_ EXCEPT ![id] = [socket |-> c, token |-> command.token]]
             /\ name' = [name EXCEPT ![c] = id]
             /\ UNCHANGED <<socket, process>>
    <3>1. FreshIds => \A d \in Conns : name[d] # id
      BY <2>1 DEF NameInv, FreshNames
    <3> QED
      BY <2>1, <2>2, <2>5, <2>6, <2>8, <3>1, NamingStep
  <2> QED
    BY <2>3, <2>4, <2>7, <2>8
<1>10. CASE get_wait_clients
  <2>1. InMap(wait_clients_)' \subseteq InMap(wait_clients_)
    BY <1>10 DEF get_wait_clients, access_wait_clients, InMap
  <2>2. \A c \in Conns : socket'[c] = "closed" =>
          socket[c] = "closed" \/ c \in SocketsOf(wait_clients_)
    BY <1>10 DEF get_wait_clients, access_wait_clients, Close, SocketsOf
  <2>3. \A c \in SocketsOf(wait_clients_) : c \in Conns => name[c] = NoId
    BY DEF SessionInv, OneReply, NameInv, NamedClients
  <2> QED
    BY <1>10, <2>1, <2>2, <2>3, UnnamedStep
       DEF get_wait_clients, access_wait_clients, peerVars
<1>11. CASE CommandStep
  BY <1>1, <1>2, <1>9, <1>10, <1>11
     DEF CommandStep, create_token, CreateTokenThrows, ApproveCheckToken,
         ApproveNotFound, Exit, managerVars, peerVars
<1>12. CASE UNCHANGED vars
  BY <1>2, <1>12 DEF vars
<1> QED
  BY <1>4, <1>5, <1>7, <1>8, <1>11, <1>12 DEF Next, IoStep

\* NameInv is an invariant, too.
LEMMA NameInvariant == Spec => [](SessionInv /\ NameInv)
BY InitInv, NameInit, StepInv, NameStep, PTL DEF Spec

-----------------------------------------------------------------------------
(* What fresh ids add. *)

\* No id is in both maps.
Apart == \A id \in Ids : clients_[id] = NoClient \/ wait_clients_[id] = NoClient

LEMMA FreshIdsApart == ASSUME FreshIds, SessionInv, NameInv PROVE Apart
<1>1. clients_ \in [Ids -> Client \cup {NoClient}]
  BY DEF SessionInv, TypeOK
<1>2. \A id \in InMap(clients_) : clients_[id].socket \in Conns
  BY <1>1 DEF InMap, Client
<1> QED
  BY <1>2 DEF Apart, NameInv, NamedClients, FreshNames, InMap

\* Under an id that is free in clients_, the client that was told is a member.
LEMMA TellAdmits ==
  ASSUME SessionInv, NEW c \in Conns, NEW id \in Ids, NEW m \in Client,
         m.socket = c, clients_' = [clients_ EXCEPT ![id] = m]
  PROVE  c \in SocketsOf(clients_)'
BY NoClientAssumption DEF SessionInv, TypeOK, SocketsOf, InMap

\* As long as ids do not collide, whom a step tells that it is approved is among
\* the clients after it.
LEMMA ApprovalStep ==
  ASSUME FreshIds, SessionInv, Apart, Next, NEW c \in Conns, told'[c] # told[c],
         Head(told'[c]) \in {"approved", "auto_approved"}
  PROVE  c \in SocketsOf(clients_)'
<1>1. \A how : Halt(how) => FALSE
  BY DEF Halt
<1>2. told \in [Conns -> Seq(Replies)]
  BY DEF SessionInv, TypeOK
<1>3. ~PeerStep
  BY DEF PeerStep, PeerSendHeader, PeerSendMore, PeerClose
<1>4. ASSUME NEW d \in Conns, Accept(d) \/ HeaderReadError(d) \/ HandleHeader(d)
      PROVE  c \in SocketsOf(clients_)'
  <2>1. CASE HeaderAuto(d)
    <3>1. PICK id \in GeneratedIds : auto_approve_client(d, id)
      BY <2>1 DEF HeaderAuto
    <3>2. clients_[id] = NoClient /\ id \in Ids
      BY <3>1 DEF GeneratedIds
    <3>3. Tell(d, "auto_approved")
      BY <3>1, <1>1 DEF auto_approve_client
    <3>4. c = d
      BY <3>3, <1>2 DEF Tell
    <3>5. clients_' = [clients_ EXCEPT ![id] = NewClient(c)]
      BY <3>1, <3>2, <3>4, <1>1 DEF auto_approve_client
    <3>6. NewClient(c) \in Client /\ NewClient(c).socket = c
      BY DEF NewClient, Client
    <3> QED
      BY <3>2, <3>5, <3>6, TellAdmits
  <2>2. ASSUME NEW reply \in {"invalid_format", "invalid_agent"},
               HeaderRead(d), Refuse(d, reply)
        PROVE  FALSE
    <3>1. Tell(d, reply)
      BY <2>2, <1>1 DEF Refuse
    <3>2. d = c /\ told[d] = <<>>
      BY <2>2, <3>1, <1>2, ReadingFacts DEF Tell, HeaderRead
    <3>3. told'[c] = <<reply>>
      BY <3>1, <3>2, TellFacts DEF Replies
    <3> QED
      BY <3>3
  <2> QED
    BY <1>1, <1>4, <2>1, <2>2
       DEF Accept, HeaderReadError, HandleHeader, HeaderInvalid, HeaderUnknownAgent,
           HeaderWithoutLogin, HeaderManual, add_client
<1>5. ASSUME NEW d \in Conns, ChatReadError(d) \/ ChatWriteError(d) PROVE FALSE
  BY <1>5 DEF ChatReadError, ChatWriteError, remove_client
<1>6. CASE CommandStep
  <2>1. approve_client
    BY <1>1, <1>6
       DEF CommandStep, create_token, CreateTokenThrows, ApproveCheckToken,
           ApproveNotFound, get_wait_clients, access_wait_clients, Exit
  <2> DEFINE id == command.id
  <2>2. id \in Ids /\ command.token \in Tokens
    BY <2>1 DEF approve_client, SessionInv, TypeOK, Commands, Idle
  <2>3. clients_[id] = NoClient
    BY <2>1, <2>2 DEF approve_client, Apart
  <2>4. /\ Tell(wait_clients_[id].socket, "approved")
        /\ clients_' = [clients_ EXCEPT ![id] = [socket |-> wait_clients_[id].socket,
                                                token |-> command.token]]
    BY <2>1, <2>3, <1>1 DEF approve_client
  <2>5. wait_clients_[id].socket = c
    BY <2>4, <1>2 DEF Tell
  <2>6. [socket |-> c, token |-> command.token] \in Client
    BY <2>2 DEF Client
  <2> HIDE DEF id
  <2> QED
    BY <2>2, <2>4, <2>5, <2>6, TellAdmits
<1> QED
  BY <1>3, <1>4, <1>5, <1>6 DEF Next, IoStep

\* Replies are only added, a peer that was there does not become one that never
\* was, and one that left does not return.
HistoryGoesOn(c) ==
  /\ told'[c] = told[c] \/ \E r : told'[c] = Append(told[c], r)
  /\ peer[c] = "closed" => peer'[c] = "closed"
  /\ peer[c] # "absent" => peer'[c] # "absent"

\* A client stays as long as the process does.
MemberStays(c) ==
  c \in SocketsOf(clients_) => c \in SocketsOf(clients_)' \/ process' # "running"

\* Every step but remove_client leaves the clients where they are.
LEMMA StayStep ==
  ASSUME SessionInv, NEW c \in Conns,
         \/ PeerStep \/ CommandStep \/ UNCHANGED vars
         \/ \E d \in Conns : Accept(d) \/ HeaderReadError(d) \/ HandleHeader(d)
  PROVE  HistoryGoesOn(c) /\ MemberStays(c)
<1>1. /\ clients_ \in Maps /\ told \in [Conns -> Seq(Replies)]
      /\ peer \in [Conns -> {"absent", "connected", "closed"}]
  BY DEF SessionInv, TypeOK, Maps
<1>2. ASSUME UNCHANGED <<clients_, told, peer>> PROVE HistoryGoesOn(c) /\ MemberStays(c)
  BY <1>2 DEF HistoryGoesOn, MemberStays, SocketsOf, InMap
<1>3. ASSUME NEW how \in {"io_exception", "command_exception", "exited"}, Halt(how),
             UNCHANGED peer
      PROVE  HistoryGoesOn(c) /\ MemberStays(c)
  BY <1>3 DEF Halt, HistoryGoesOn, MemberStays
<1>4. ASSUME NEW d \in Conns, NEW reply, Tell(d, reply), UNCHANGED peer,
             c \in SocketsOf(clients_) => c \in SocketsOf(clients_)'
      PROVE  HistoryGoesOn(c) /\ MemberStays(c)
  BY <1>1, <1>4 DEF Tell, HistoryGoesOn, MemberStays
<1>5. ASSUME NEW id \in Ids, NEW m \in Client, clients_[id] = NoClient,
             clients_' = [clients_ EXCEPT ![id] = m]
      PROVE  SocketsOf(clients_)' = SocketsOf(clients_) \cup {m.socket}
  <2> DEFINE new == Insert(clients_, id, m)
  <2>1. new = clients_'
    BY <1>5 DEF Insert
  <2>2. SocketsOf(new) = SocketsOf(clients_) \cup {m.socket}
    BY <1>1, <1>5, InsertFacts
  <2> HIDE DEF new
  <2> QED
    BY <2>1, <2>2, NextMaps
<1>6. ASSUME UNCHANGED clients_ PROVE SocketsOf(clients_)' = SocketsOf(clients_)
  BY <1>6 DEF SocketsOf, InMap
<1>7. CASE PeerStep
  BY <1>1, <1>6, <1>7
     DEF PeerStep, PeerSendHeader, PeerSendMore, PeerClose, managerVars, HistoryGoesOn,
         MemberStays
<1>8. ASSUME NEW d \in Conns, Accept(d) \/ HeaderReadError(d) \/ HandleHeader(d)
      PROVE  HistoryGoesOn(c) /\ MemberStays(c)
  <2>1. CASE Accept(d)
    BY <1>1, <1>6, <2>1 DEF Accept, managerVars, HistoryGoesOn,
         MemberStays
  <2>2. CASE HeaderReadError(d)
    BY <1>2, <2>2 DEF HeaderReadError, managerVars, peerVars
  <2>3. ASSUME NEW reply, HeaderRead(d), Refuse(d, reply) PROVE HistoryGoesOn(c) /\ MemberStays(c)
    BY <1>3, <1>4, <1>6, <2>3 DEF HeaderRead, Refuse, managerVars
  <2>4. CASE HeaderAuto(d)
    <3>1. PICK id \in GeneratedIds : auto_approve_client(d, id) /\ UNCHANGED peer
      BY <2>4 DEF HeaderAuto, HeaderAccepted, HeaderRead
    <3>2. NewClient(d) \in Client /\ id \in Ids
      BY <3>1 DEF NewClient, Client, GeneratedIds
    <3> QED
      BY <1>3, <1>4, <1>5, <1>6, <3>1, <3>2 DEF auto_approve_client
  <2>5. CASE HeaderManual(d)
    BY <1>2, <2>5 DEF HeaderManual, HeaderAccepted, HeaderRead, add_client
  <2>6. CASE HeaderWithoutLogin(d)
    BY <1>3, <2>6 DEF HeaderWithoutLogin, HeaderRead
  <2> QED
    BY <1>8, <2>1, <2>2, <2>3, <2>4, <2>5, <2>6
       DEF HandleHeader, HeaderInvalid, HeaderUnknownAgent
<1>9. CASE CommandStep
  <2>1. CASE approve_client
    <3> DEFINE id == command.id
               w  == wait_clients_[id].socket
               m  == [socket |-> w, token |-> command.token]
    <3>1. id \in Ids /\ w \in Conns /\ m \in Client /\ UNCHANGED peer
      BY <2>1 DEF approve_client, SessionInv, TypeOK, Commands, Idle, Client, peerVars
    <3>2. \/ /\ Tell(w, "approved")
             /\ \/ clients_[id] = NoClient /\ clients_' = [clients_ EXCEPT ![id] = m]
                \/ UNCHANGED clients_
          \/ Halt("command_exception")
      BY <2>1 DEF approve_client
    <3> HIDE DEF id, w, m
    <3> QED
      BY <1>3, <1>4, <1>5, <1>6, <3>1, <3>2
  <2> QED
    BY <1>2, <1>3, <1>9, <2>1
       DEF CommandStep, create_token, CreateTokenThrows, ApproveCheckToken,
           ApproveNotFound, get_wait_clients, access_wait_clients, Exit, managerVars,
           peerVars
<1>10. CASE UNCHANGED vars
  BY <1>2, <1>10 DEF vars
<1> QED
  BY <1>7, <1>8, <1>9, <1>10

\* As long as no two clients have one id and no login is an id, a failed read or
\* write removes at most the connection that it was for, and only after its peer.
LEMMA RemovedByItself ==
  ASSUME FreshIds, Logins = {}, SessionInv, NameInv, NEW d \in Conns,
         ChatReadError(d) \/ ChatWriteError(d)
  PROVE  \E id \in InMap(clients_) :
           /\ remove_client(id)
           /\ clients_[id].socket = d /\ peer[d] = "closed"
<1>1. PICK id \in Ids : remove_client(id) /\ (id = name[d] \/ id \in Logins)
  BY FailedOperation
<1>2. id \in InMap(clients_) /\ name[d] = id /\ name[d] # NoId
  BY <1>1, FailedOperation DEF remove_client, InMap, OperationFails
<1>3. clients_ \in Maps
  BY DEF SessionInv, TypeOK, Maps
<1>4. clients_[id].socket \in Conns /\ clients_[id].socket \in SocketsOf(clients_)
  BY <1>2, <1>3, OwnedAreConns
<1>5. clients_[id].socket = d
  BY <1>2, <1>4 DEF NameInv, NamedClients, FreshNames
<1>6. socket[d] = "open"
  BY <1>4, <1>5 DEF SessionInv, OneOwner
<1>7. peer[d] = "closed"
  BY <1>6, FailedOperation DEF OperationFails
<1> QED
  BY <1>1, <1>2, <1>5, <1>7

\* A client is removed only after its peer has left.
LEMMA RemovalStep ==
  ASSUME FreshIds, Logins = {}, SessionInv, NameInv, NEW c \in Conns, NEW d \in Conns,
         ChatReadError(d) \/ ChatWriteError(d)
  PROVE  /\ HistoryGoesOn(c)
         /\ MemberStays(c) \/ peer[c] = "closed"
<1>1. clients_ \in Maps
  BY DEF SessionInv, TypeOK, Maps
<1>2. PICK id \in InMap(clients_) :
        /\ remove_client(id)
        /\ clients_[id].socket = d /\ peer[d] = "closed"
  BY RemovedByItself
<1>3. /\ clients_' = [clients_ EXCEPT ![id] = NoClient]
      /\ told' = told /\ peer' = peer
  BY <1>2, FailedOperation DEF remove_client, peerVars
<1>4. c \in SocketsOf(clients_) /\ c # d => c \in SocketsOf(clients_)'
  BY <1>1, <1>2, <1>3 DEF SocketsOf, InMap, Maps
<1> QED
  BY <1>2, <1>3, <1>4 DEF HistoryGoesOn, MemberStays

\* In every step the history goes on, and a client leaves only after its peer
\* or with the process.
LEMMA HistoryStep ==
  ASSUME FreshIds, Logins = {}, SessionInv, NameInv, [Next]_vars, NEW c \in Conns
  PROVE  /\ HistoryGoesOn(c)
         /\ MemberStays(c) \/ peer[c] = "closed"
BY StayStep, RemovalStep DEF Next, IoStep, MemberStays

-----------------------------------------------------------------------------
(* ClientSessionManager implements Admission: its initial states map to     *)
(* initial states, and every step from a state of the invariant maps to one *)
(* abstract step or to none.                                                *)

\* The abstract state.
Seen == {c \in Conns : socket[c] # "none"}
Present == {c \in Conns : peer[c] = "connected"}

\* What Admission's definitions say of the mapped state.
LEMMA GateDefs ==
  /\ Gate!Next <=>
       \/ \E c \in Conns :
            \/ Gate!Arrive(c) \/ Gate!Depart(c)
            \/ Gate!Enqueue(c) \/ Gate!AdmitOnRequest(c)
       \/ \E t \in Tokens : Gate!Issue(t)
       \/ \E c \in Conns, t \in Tokens : Gate!AdmitWithToken(c, t)
       \/ \E S \in SUBSET Conns : Gate!TurnAway(S)
       \/ \E m \in MembersOf(clients_) : Gate!Leave(m)
       \/ Gate!Shutdown
BY DEF Gate!Next

\* The server starts empty.
LEMMA InitMaps == Init => Gate!Init
<1> SUFFICES ASSUME Init PROVE Gate!Init
  OBVIOUS
<1>1. clients_ = EmptyMap /\ wait_clients_ = EmptyMap
  BY DEF Init
<1> QED
  BY <1>1, EmptyMapFacts DEF Init, Gate!Init

\* Steps that the abstraction does not see.
LEMMA QuietMaps ==
  ASSUME UNCHANGED <<clients_, wait_clients_, active_tokens_, socket, reading, peer>>
  PROVE  UNCHANGED Gate!vars
BY DEF Gate!vars, SocketsOf, MembersOf, InMap

\* The end of the process shuts the server down.
LEMMA HaltMaps ==
  ASSUME SessionInv, NEW how, Halt(how), UNCHANGED peer
  PROVE  Gate!Next
<1>1. \A c \in Conns : socket'[c] = "none" <=> socket[c] = "none"
  BY DEF Halt
<1>2. /\ SocketsOf(clients_)' = {} /\ MembersOf(clients_)' = {}
      /\ SocketsOf(wait_clients_)' = {} /\ reading' = {}
  BY EmptyMapFacts, NextMaps DEF Halt
<1>3. Gate!Shutdown
  BY <1>1, <1>2 DEF Halt, Gate!Shutdown
<1> QED
  BY <1>3, GateDefs

\* Steps that close connections on the way in turn these away.
LEMMA DropMaps ==
  ASSUME NEW S \in SUBSET Conns, Close(S),
         S \subseteq reading \cup SocketsOf(wait_clients_),
         \A c \in S : socket[c] = "open",
         reading' = reading \ S,
         SocketsOf(wait_clients_)' = SocketsOf(wait_clients_) \ S,
         UNCHANGED <<clients_, active_tokens_, peer>>
  PROVE  Gate!Next
<1>1. \A c \in Conns : socket'[c] = "none" <=> socket[c] = "none"
  BY DEF Close
<1>2. MembersOf(clients_)' = MembersOf(clients_)
  BY DEF MembersOf, InMap
<1>3. Gate!TurnAway(S)
  BY <1>1, <1>2 DEF Gate!TurnAway
<1> QED
  BY <1>3, GateDefs

\* Each outcome of the header read turns away, admits, queues or shuts down.
LEMMA HeaderMaps ==
  ASSUME SessionInv, NEW c \in Conns,
         HeaderReadError(c) \/ HandleHeader(c)
  PROVE  Gate!Next
<1> USE DEF managerVars, peerVars
<1>1. c \in reading /\ UNCHANGED peer
  BY DEF HeaderReadError, HandleHeader, HeaderInvalid, HeaderUnknownAgent,
         HeaderWithoutLogin, HeaderAuto, HeaderManual, HeaderAccepted, HeaderRead
<1>2. socket[c] = "open" /\ c \notin SocketsOf(wait_clients_) \cup SocketsOf(clients_)
  BY <1>1, ReadingFacts
<1>3. ASSUME Close({c}), reading' = reading \ {c},
             UNCHANGED <<clients_, wait_clients_, active_tokens_>>
      PROVE  Gate!Next
  <2>1. SocketsOf(wait_clients_)' = SocketsOf(wait_clients_) \ {c}
    BY <1>2, <1>3, NextMaps
  <2> QED
    BY <1>1, <1>2, <1>3, <2>1, DropMaps
<1>4. CASE HeaderReadError(c)
  BY <1>3, <1>4 DEF HeaderReadError
<1>5. ASSUME NEW reply, Refuse(c, reply) PROVE Gate!Next
  BY <1>1, <1>3, <1>5, HaltMaps DEF Refuse
<1>6. CASE HeaderInvalid(c) \/ HeaderUnknownAgent(c)
  BY <1>5, <1>6 DEF HeaderInvalid, HeaderUnknownAgent
<1>7. CASE HeaderWithoutLogin(c)
  BY <1>1, <1>7, HaltMaps DEF HeaderWithoutLogin
<1>8. CASE HeaderAuto(c)
  <2>1. PICK id \in Ids : auto_approve_client(c, id)
    BY <1>8 DEF HeaderAuto, GeneratedIds
  <2>2. CASE Halt("io_exception")
    BY <1>1, <2>2, HaltMaps
  <2>3. CASE Close({c}) /\ reading' = reading \ {c}
             /\ UNCHANGED <<clients_, wait_clients_, active_tokens_>>
    BY <1>3, <2>3
  <2>4. ASSUME clients_[id] = NoClient,
               clients_' = [clients_ EXCEPT ![id] = NewClient(c)],
               reading' = reading \ {c},
               UNCHANGED <<wait_clients_, active_tokens_, socket>>
        PROVE  Gate!Next
    <3>1. MembersOf(clients_)' = MembersOf(clients_) \cup {<<c, NoToken>>}
      BY <1>2, <2>1, <2>4, InsertedInto_clients_ DEF NewClient
    <3>2. SocketsOf(wait_clients_)' = SocketsOf(wait_clients_)
      BY <2>4, NextMaps
    <3>3. NoToken \in active_tokens_ \cup {NoToken}
      OBVIOUS
    <3>4. Gate!AdmitOnRequest(c)
      BY <1>1, <2>4, <3>1, <3>2, <3>3 DEF Gate!AdmitOnRequest
    <3> QED
      BY <3>4, GateDefs
  <2> QED
    BY <2>1, <2>2, <2>3, <2>4 DEF auto_approve_client
<1>9. CASE HeaderManual(c)
  <2>1. PICK id \in Ids : add_client(c, id)
    BY <1>9 DEF HeaderManual, GeneratedIds
  <2>2. reading' = reading \ {c} /\ UNCHANGED <<clients_, active_tokens_>>
    BY <2>1 DEF add_client
  <2>3. CASE Close({c}) /\ UNCHANGED wait_clients_
    BY <1>3, <2>2, <2>3
  <2>4. ASSUME wait_clients_[id] = NoClient,
               wait_clients_' = [wait_clients_ EXCEPT ![id] = NewClient(c)],
               UNCHANGED socket
        PROVE  Gate!Next
    <3>1. SocketsOf(wait_clients_)' = SocketsOf(wait_clients_) \cup {c}
      BY <1>2, <2>1, <2>4, InsertedInto_wait_clients_ DEF NewClient
    <3>2. MembersOf(clients_)' = MembersOf(clients_)
      BY <2>2, NextMaps
    <3>3. Gate!Enqueue(c)
      BY <1>1, <2>2, <2>4, <3>1, <3>2 DEF Gate!Enqueue
    <3> QED
      BY <3>3, GateDefs
  <2> QED
    BY <2>1, <2>3, <2>4 DEF add_client
<1> QED
  BY <1>4, <1>6, <1>7, <1>8, <1>9 DEF HandleHeader

\* A peer's departure is seen, its bytes are not; an accepted connection arrives.
LEMMA PeerMaps ==
  ASSUME SessionInv, NEW c \in Conns,
         PeerSendHeader(c) \/ PeerSendMore(c) \/ PeerClose(c) \/ Accept(c)
  PROVE  Gate!Next \/ UNCHANGED Gate!vars
<1> USE DEF managerVars
<1>1. CASE PeerSendHeader(c) \/ PeerSendMore(c)
  BY <1>1, QuietMaps DEF PeerSendHeader, PeerSendMore
<1>2. /\ UNCHANGED clients_ => MembersOf(clients_)' = MembersOf(clients_)
      /\ UNCHANGED wait_clients_ => SocketsOf(wait_clients_)' = SocketsOf(wait_clients_)
  BY NextMaps
<1>3. CASE PeerClose(c)
  <2>1. Present' = Present \ {c} /\ c \in Present /\ Seen' = Seen
    BY <1>3 DEF PeerClose, SessionInv, TypeOK, Present, Seen
  <2>2. Gate!Depart(c)
    BY <1>2, <1>3, <2>1 DEF PeerClose, Gate!Depart, Present, Seen
  <2> QED
    BY <2>2, GateDefs
<1>4. CASE Accept(c)
  <2>1. Present' = Present \cup {c} /\ c \notin Seen /\ Seen' = Seen \cup {c}
    BY <1>4 DEF Accept, SessionInv, TypeOK, QueueGate, Present, Seen
  <2>2. Gate!Arrive(c)
    BY <1>2, <1>4, <2>1 DEF Accept, Gate!Arrive, Present, Seen
  <2> QED
    BY <2>2, GateDefs
<1> QED
  BY <1>1, <1>3, <1>4

\* remove_client is a member's leaving: after its own peer, or after somebody's
\* when ids collide or a login is an id.
LEMMA LeaveMaps ==
  ASSUME SessionInv, NameInv, NEW c \in Conns, ChatReadError(c) \/ ChatWriteError(c)
  PROVE  Gate!Next
<1>1. (\E d \in Conns : peer[d] = "closed") /\ UNCHANGED peer
  BY FailedOperation, SomebodyLeft DEF peerVars
<1>2. PICK id \in Ids :
        /\ remove_client(id)
        /\ FreshIds /\ Logins = {} => peer[clients_[id].socket] = "closed"
  <2>1. CASE FreshIds /\ Logins = {}
    BY <2>1, RemovedByItself DEF InMap
  <2>2. CASE ~(FreshIds /\ Logins = {})
    BY <2>2, FailedOperation
  <2> QED
    BY <2>1, <2>2
<1> DEFINE m == <<clients_[id].socket, clients_[id].token>>
<1>3. /\ id \in InMap(clients_) /\ {id} \in SUBSET InMap(clients_)
      /\ Close({clients_[id].socket})
      /\ clients_' = Remove(clients_, {id})
      /\ UNCHANGED <<wait_clients_, active_tokens_, reading>>
  BY <1>2 DEF remove_client, InMap, Remove, SessionInv, TypeOK
<1>4. clients_ \in Maps
  BY DEF SessionInv, TypeOK, Maps
<1>5. m \in MembersOf(clients_) /\ m[1] \in SocketsOf(clients_) /\ m[1] \in Conns
  BY <1>3, <1>4, OwnedAreConns DEF MembersOf
<1>6. {<<clients_[i].socket, clients_[i].token>> : i \in {id}} = {m}
  OBVIOUS
<1>7. MembersOf(clients_)' = MembersOf(clients_) \ {m}
  BY <1>3, <1>6, RemovedFrom_clients_
<1>8. SocketsOf(wait_clients_)' = SocketsOf(wait_clients_)
  BY <1>3, NextMaps
<1>9. Seen' = Seen /\ Present' = Present
  <2>1. socket[m[1]] = "open"
    BY <1>5 DEF SessionInv, OneOwner
  <2> QED
    BY <1>1, <1>3, <2>1 DEF Close, Seen, Present
<1>10. Seen # Present
  BY <1>1 DEF SessionInv, QueueGate, Seen, Present
<1>11. FreshIds /\ Logins = {} => m[1] \notin Present
  BY <1>2 DEF Present
<1> HIDE DEF m
<1>12. Gate!Leave(m)
  BY <1>3, <1>5, <1>7, <1>8, <1>9, <1>10, <1>11 DEF Gate!Leave, Seen, Present
<1> QED
  BY <1>5, <1>12, GateDefs

\* An approval admits against its token, turns away or shuts down.
LEMMA ApproveMaps ==
  ASSUME SessionInv, approve_client
  PROVE  Gate!Next
<1> DEFINE id  == command.id
           tok == command.token
           c   == wait_clients_[id].socket
<1>1. command # Idle /\ wait_clients_[id] # NoClient /\ UNCHANGED peer
  BY DEF approve_client, peerVars
<1>2. id \in Ids /\ tok \in Tokens /\ tok \in active_tokens_
  BY <1>1 DEF SessionInv, TypeOK, Commands, Idle, QueueGate
<1>3. {id} \in SUBSET InMap(wait_clients_) /\ wait_clients_ \in Maps
  BY <1>1, <1>2 DEF InMap, SessionInv, TypeOK, Maps
<1>4. c \in SocketsOf(wait_clients_) /\ c \in Conns
  BY <1>3, OwnedAreConns
<1>5. socket[c] = "open" /\ c \notin reading \cup SocketsOf(clients_)
  BY <1>4 DEF SessionInv, OneOwner
<1>6. CASE Halt("command_exception")
  BY <1>1, <1>6, HaltMaps
<1>7. ASSUME wait_clients_' = [wait_clients_ EXCEPT ![id] = NoClient],
             UNCHANGED <<active_tokens_, reading>>
      PROVE  SocketsOf(wait_clients_)' = SocketsOf(wait_clients_) \ {c}
  <2>1. wait_clients_' = Remove(wait_clients_, {id})
    BY <1>3, <1>7 DEF Remove, Maps
  <2>2. {wait_clients_[i].socket : i \in {id}} = {c}
    OBVIOUS
  <2> HIDE DEF id, c
  <2> QED
    BY <1>3, <2>1, <2>2, RemovedFrom_wait_clients_
<1>8. ASSUME wait_clients_' = [wait_clients_ EXCEPT ![id] = NoClient],
             UNCHANGED <<active_tokens_, reading>>,
             Close({c}), UNCHANGED clients_
      PROVE  Gate!Next
  <2>1. reading' = reading \ {c}
    BY <1>5, <1>8
  <2> HIDE DEF c, id
  <2> QED
    BY <1>1, <1>4, <1>5, <1>7, <1>8, <2>1, DropMaps
<1>9. ASSUME wait_clients_' = [wait_clients_ EXCEPT ![id] = NoClient],
             UNCHANGED <<active_tokens_, reading>>,
             clients_[id] = NoClient,
             clients_' = [clients_ EXCEPT ![id] = [socket |-> c, token |-> tok]],
             UNCHANGED socket
      PROVE  Gate!Next
  <2>1. MembersOf(clients_)' = MembersOf(clients_) \cup {<<c, tok>>}
    BY <1>2, <1>4, <1>5, <1>9, InsertedInto_clients_
  <2> HIDE DEF c, id, tok
  <2>2. Gate!AdmitWithToken(c, tok)
    BY <1>1, <1>2, <1>4, <1>7, <1>9, <2>1 DEF Gate!AdmitWithToken
  <2> QED
    BY <1>2, <1>4, <2>2, GateDefs
<1> QED
  BY <1>6, <1>8, <1>9 DEF approve_client

\* The purge turns the dead away.
LEMMA PurgeMaps ==
  ASSUME SessionInv, get_wait_clients
  PROVE  Gate!Next
<1> DEFINE dead == {id \in InMap(wait_clients_) :
                      is_client_really_dead(wait_clients_[id].socket)}
           S    == {wait_clients_[id].socket : id \in dead}
<1>1. /\ Close(S)
      /\ wait_clients_' = Remove(wait_clients_, dead)
      /\ UNCHANGED <<clients_, active_tokens_, reading, peer>>
  BY DEF get_wait_clients, access_wait_clients, Remove, peerVars
<1>2. dead \in SUBSET InMap(wait_clients_) /\ S \subseteq SocketsOf(wait_clients_)
  BY DEF SocketsOf
<1> HIDE DEF dead, S
<1>3. SocketsOf(wait_clients_)' = SocketsOf(wait_clients_) \ S
  BY <1>1, <1>2, RemovedFrom_wait_clients_ DEF S
<1>4. S \in SUBSET Conns /\ \A c \in S : socket[c] = "open"
  BY <1>2, OwnedAreConns DEF SessionInv, TypeOK, OneOwner, Maps
<1>5. reading' = reading \ S
  BY <1>1, <1>2 DEF SessionInv, OneOwner
<1> QED
  BY <1>1, <1>2, <1>3, <1>4, <1>5, DropMaps

\* The host's commands.
LEMMA CommandMaps ==
  ASSUME SessionInv, CommandStep
  PROVE  Gate!Next \/ UNCHANGED Gate!vars
<1> USE DEF managerVars, peerVars
<1>1. ASSUME NEW t \in Tokens, create_token(t)
      PROVE  Gate!Next
  <2>1. /\ MembersOf(clients_)' = MembersOf(clients_)
        /\ SocketsOf(wait_clients_)' = SocketsOf(wait_clients_)
    BY <1>1, NextMaps DEF create_token
  <2>2. Gate!Issue(t)
    BY <1>1, <2>1 DEF create_token, Gate!Issue
  <2> QED
    BY <2>2, GateDefs
<1>2. CASE CreateTokenThrows \/ Exit
  BY <1>2, HaltMaps DEF CreateTokenThrows, Exit
<1>3. ASSUME NEW id \in Ids, NEW t \in Tokens, ApproveCheckToken(id, t)
      PROVE  UNCHANGED Gate!vars
  BY <1>3, QuietMaps DEF ApproveCheckToken
<1>4. CASE ApproveNotFound
  BY <1>4, QuietMaps DEF ApproveNotFound
<1> QED
  BY <1>1, <1>2, <1>3, <1>4, ApproveMaps, PurgeMaps DEF CommandStep

\* Every step maps to a step or a stutter.
LEMMA StepMaps == SessionInv /\ NameInv /\ [Next]_vars => [Gate!Next]_(Gate!vars)
<1> SUFFICES ASSUME SessionInv, NameInv, [Next]_vars
             PROVE  Gate!Next \/ UNCHANGED Gate!vars
  OBVIOUS
<1>1. CASE PeerStep
  BY <1>1, PeerMaps DEF PeerStep
<1>2. CASE IoStep
  BY <1>2, PeerMaps, HeaderMaps, LeaveMaps DEF IoStep, HandleHeader
<1>3. CASE CommandStep
  BY <1>3, CommandMaps
<1>4. CASE UNCHANGED vars
  BY <1>4, QuietMaps DEF vars
<1> QED
  BY <1>1, <1>2, <1>3, <1>4 DEF Next

\* The session manager keeps the promises of Admission, whatever the sets of
\* connections, ids, tokens and logins: nobody is removed by a failed read or write
\* of the chat before somebody has left, and, if ids are never given twice and no
\* login is an id, nobody before its own peer has.
THEOREM Implementation == Spec => ImplementsAdmission
BY InitMaps, StepMaps, NameInvariant, PTL DEF Spec, ImplementsAdmission, Gate!Spec

-----------------------------------------------------------------------------
(* What Admission promises, and so the session manager does, too. *)

Promises == Gate!OnePlace /\ Gate!CredentialsIssued

AdmissionInv == Gate!TypeOK /\ Promises

\* Nobody is anywhere at the start.
LEMMA AdmissionInit == Gate!Init => AdmissionInv
BY DEF Gate!Init, AdmissionInv, Promises, Gate!TypeOK,
   Gate!OnePlace, Gate!CredentialsIssued, Gate!MemberConns

\* Every step keeps the types.
LEMMA AdmissionTypes == AdmissionInv /\ [Gate!Next]_(Gate!vars) => Gate!TypeOK'
<1> SUFFICES ASSUME Gate!TypeOK, [Gate!Next]_(Gate!vars) PROVE Gate!TypeOK'
  BY DEF AdmissionInv
<1> USE DEF Gate!TypeOK, Gate!Credentials
<1>1. ASSUME NEW c \in Conns, Gate!Arrive(c) \/ Gate!Depart(c) \/ Gate!Enqueue(c)
      PROVE  Gate!TypeOK'
  BY <1>1 DEF Gate!Arrive, Gate!Depart, Gate!Enqueue
<1>2. ASSUME NEW c \in Conns, Gate!AdmitOnRequest(c) PROVE Gate!TypeOK'
  <2>1. PICK k \in active_tokens_ \cup {NoToken} :
          MembersOf(clients_)' = MembersOf(clients_) \cup {<<c, k>>}
    BY <1>2 DEF Gate!AdmitOnRequest
  <2> QED
    BY <1>2, <2>1 DEF Gate!AdmitOnRequest
<1>3. ASSUME NEW t \in Tokens, Gate!Issue(t) PROVE Gate!TypeOK'
  BY <1>3 DEF Gate!Issue
<1>4. ASSUME NEW c \in Conns, NEW t \in Tokens, Gate!AdmitWithToken(c, t) PROVE Gate!TypeOK'
  BY <1>4 DEF Gate!AdmitWithToken
<1>5. ASSUME NEW S \in SUBSET Conns, Gate!TurnAway(S) PROVE Gate!TypeOK'
  BY <1>5 DEF Gate!TurnAway
<1>6. ASSUME NEW m \in MembersOf(clients_), Gate!Leave(m) PROVE Gate!TypeOK'
  BY <1>6 DEF Gate!Leave
<1>7. CASE Gate!Shutdown
  BY <1>7 DEF Gate!Shutdown
<1>8. CASE UNCHANGED Gate!vars
  BY <1>8 DEF Gate!vars
<1> QED
  BY <1>1, <1>2, <1>3, <1>4, <1>5, <1>6, <1>7, <1>8 DEF Gate!Next

\* Every step keeps a connection in one place and its credential issued.
LEMMA AdmissionPlaces ==
  AdmissionInv /\ [Gate!Next]_(Gate!vars) => Promises'
<1> SUFFICES ASSUME AdmissionInv, [Gate!Next]_(Gate!vars) PROVE Promises'
  OBVIOUS
<1>0. /\ reading \subseteq Seen /\ SocketsOf(wait_clients_) \subseteq Seen
      /\ \A m \in MembersOf(clients_) : m[1] \in Seen
  BY DEF AdmissionInv, Gate!TypeOK, Seen
<1> USE DEF AdmissionInv, Promises, Gate!OnePlace, Gate!CredentialsIssued,
        Gate!MemberConns
<1>1. ASSUME NEW c \in Conns, Gate!Arrive(c) PROVE Promises'
  BY <1>0, <1>1 DEF Gate!Arrive, Seen
<1>2. ASSUME NEW c \in Conns, Gate!Depart(c) \/ Gate!Enqueue(c)
      PROVE  Promises'
  BY <1>2 DEF Gate!Depart, Gate!Enqueue
<1>3. ASSUME NEW c \in Conns, NEW t \in Tokens \cup {NoToken},
             c \in reading \cup SocketsOf(wait_clients_),
             reading' = reading \ {c}, SocketsOf(wait_clients_)' = SocketsOf(wait_clients_) \ {c},
             MembersOf(clients_)' = MembersOf(clients_) \cup {<<c, t>>},
             UNCHANGED active_tokens_, t = NoToken \/ t \in active_tokens_
      PROVE  Promises'
  <2>1. \A m \in MembersOf(clients_) : m[1] # c
    BY <1>3
  <2>2. \A m \in MembersOf(clients_)' :
          m \in MembersOf(clients_) \/ (m[1] = c /\ m[2] = t /\ m = <<c, t>>)
    BY <1>3
  <2> QED
    BY <1>3, <2>1, <2>2
<1>4. ASSUME NEW c \in Conns, Gate!AdmitOnRequest(c) PROVE Promises'
  <2>1. SocketsOf(wait_clients_)' = SocketsOf(wait_clients_) \ {c}
    BY <1>4 DEF Gate!AdmitOnRequest
  <2>2. PICK k \in active_tokens_ \cup {NoToken} :
          MembersOf(clients_)' = MembersOf(clients_) \cup {<<c, k>>}
    BY <1>4 DEF Gate!AdmitOnRequest
  <2>3. k \in Tokens \cup {NoToken}
    BY DEF Gate!TypeOK
  <2> QED
    BY <1>3, <1>4, <2>1, <2>2, <2>3 DEF Gate!AdmitOnRequest
<1>5. ASSUME NEW t \in Tokens, Gate!Issue(t) PROVE Promises'
  BY <1>5 DEF Gate!Issue
<1>6. ASSUME NEW c \in Conns, NEW t \in Tokens, Gate!AdmitWithToken(c, t)
      PROVE  Promises'
  <2>1. reading' = reading \ {c}
    BY <1>6 DEF Gate!AdmitWithToken
  <2> QED
    BY <1>3, <1>6, <2>1 DEF Gate!AdmitWithToken
<1>7. ASSUME NEW S \in SUBSET Conns, Gate!TurnAway(S) PROVE Promises'
  BY <1>7 DEF Gate!TurnAway
<1>8. ASSUME NEW m \in MembersOf(clients_), Gate!Leave(m) PROVE Promises'
  BY <1>8 DEF Gate!Leave
<1>9. CASE Gate!Shutdown
  BY <1>9 DEF Gate!Shutdown
<1>10. CASE UNCHANGED Gate!vars
  BY <1>10 DEF Gate!vars
<1> QED
  BY <1>1, <1>2, <1>4, <1>5, <1>6, <1>7, <1>8, <1>9, <1>10 DEF Gate!Next

\* In Admission a connection is in one place, under one credential, and every
\* credential but "on request" was issued.
THEOREM AdmissionInvariant ==
  Gate!Spec => [](Gate!TypeOK /\ Gate!OnePlace /\ Gate!CredentialsIssued)
<1>1. AdmissionInv /\ [Gate!Next]_(Gate!vars) => AdmissionInv'
  BY AdmissionTypes, AdmissionPlaces DEF AdmissionInv
<1>2. AdmissionInv <=> Gate!TypeOK /\ Gate!OnePlace /\ Gate!CredentialsIssued
  BY DEF AdmissionInv, Promises
<1> QED
  BY <1>1, <1>2, AdmissionInit, PTL DEF Gate!Spec

\* So these promises are kept by the code: of its reads, maps and tokens.
THEOREM PromisesKept == Spec => [](Gate!OnePlace /\ Gate!CredentialsIssued)
BY Implementation, AdmissionInvariant, PTL DEF ImplementsAdmission

=============================================================================
