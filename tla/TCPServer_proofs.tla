-------------------------- MODULE TCPServer_proofs --------------------------
(***************************************************************************)
(* Proofs about TCPServer, for any set of connections, any descriptor      *)
(* limit, either order of start() and run(), with or without stop().       *)
(***************************************************************************)
EXTENDS TCPServer, FiniteSetTheorems, TLAPS

ServerInv == TypeOK /\ OneAccept

Accepts(queue) == {i \in DOMAIN queue : queue[i].op = "accept"}

\* Queueing a handler of another kind leaves the accept handlers as they are.
LEMMA AppendOther ==
  ASSUME NEW q \in Seq(Handler), NEW h \in Handler, h.op = "read"
  PROVE  Append(q, h) \in Seq(Handler) /\ Accepts(Append(q, h)) = Accepts(q)
<1>1. /\ Append(q, h) \in Seq(Handler)
      /\ DOMAIN Append(q, h) = 1 .. (Len(q) + 1) /\ DOMAIN q = 1 .. Len(q)
      /\ \A i \in 1 .. Len(q) : Append(q, h)[i] = q[i]
      /\ Append(q, h)[Len(q) + 1] = h
      /\ Len(q) \in Nat
  OBVIOUS
<1> QED
  BY <1>1 DEF Accepts

\* Queueing an accept handler where there is none makes it the only one.
LEMMA AppendAccept ==
  ASSUME NEW q \in Seq(Handler), NEW h \in Handler, h.op = "accept", Accepts(q) = {}
  PROVE  Append(q, h) \in Seq(Handler) /\ Accepts(Append(q, h)) = {Len(q) + 1}
<1>1. /\ Append(q, h) \in Seq(Handler)
      /\ DOMAIN Append(q, h) = 1 .. (Len(q) + 1) /\ DOMAIN q = 1 .. Len(q)
      /\ \A i \in 1 .. Len(q) : Append(q, h)[i] = q[i]
      /\ Append(q, h)[Len(q) + 1] = h
      /\ Len(q) \in Nat
  OBVIOUS
<1> QED
  BY <1>1 DEF Accepts

\* Running the handler at the head moves the others up.
LEMMA TailAccepts ==
  ASSUME NEW q \in Seq(Handler), q # <<>>
  PROVE  /\ Tail(q) \in Seq(Handler)
         /\ Accepts(Tail(q)) = {i - 1 : i \in Accepts(q) \ {1}}
<1>1. /\ Tail(q) \in Seq(Handler)
      /\ DOMAIN Tail(q) = 1 .. (Len(q) - 1) /\ DOMAIN q = 1 .. Len(q)
      /\ \A i \in 1 .. (Len(q) - 1) : Tail(q)[i] = q[i + 1]
      /\ Len(q) \in Nat
  OBVIOUS
<1>2. ASSUME NEW i \in Accepts(Tail(q)) PROVE i \in {j - 1 : j \in Accepts(q) \ {1}}
  <2>1. i + 1 \in Accepts(q) \ {1} /\ (i + 1) - 1 = i
    BY <1>1, <1>2 DEF Accepts
  <2> QED
    BY <2>1
<1>3. ASSUME NEW j \in Accepts(q) \ {1} PROVE j - 1 \in Accepts(Tail(q))
  BY <1>1 DEF Accepts
<1> QED
  BY <1>1, <1>2, <1>3

\* The server starts without an accept.
LEMMA ServerInit == Init => ServerInv
<1> SUFFICES ASSUME Init PROVE ServerInv
  OBVIOUS
<1>1. <<>> \in Seq(Handler) /\ DOMAIN <<>> = {}
  OBVIOUS
<1>2. TypeOK
  BY <1>1 DEF Init, TypeOK, ConnStates
<1>3. AcceptHandlers = {}
  BY <1>1 DEF Init, AcceptHandlers
<1> QED
  BY <1>2, <1>3 DEF Init, ServerInv, OneAccept

\* do_accept, called where no accept is outstanding, leaves one.
LEMMA DoAcceptOne ==
  ASSUME TypeOK, NEW queue \in Seq(Handler), Accepts(queue) = {}, armed = FALSE,
         do_accept(queue), started', acceptor' = acceptor
  PROVE  ready' \in Seq(Handler) /\ armed' \in BOOLEAN /\ OneAccept'
<1>1. [op |-> "accept", socket |-> NoConn] \in Handler
  BY DEF Handler
<1>2. CASE acceptor = "listening" /\ armed' = TRUE /\ ready' = queue
  BY <1>2 DEF OneAccept, AcceptHandlers, Accepts
<1>3. CASE acceptor = "closed" /\ UNCHANGED armed
           /\ ready' = Append(queue, [op |-> "accept", socket |-> NoConn])
  <2>1. ready' \in Seq(Handler) /\ Accepts(ready') = {Len(queue) + 1}
    BY <1>1, <1>3, AppendAccept
  <2>2. AcceptHandlers' = Accepts(ready')
    BY DEF AcceptHandlers, Accepts
  <2> QED
    BY <1>3, <2>1, <2>2 DEF OneAccept
<1> QED
  BY <1>2, <1>3 DEF do_accept

\* When the accept handler runs, no accept is left behind it.
LEMMA AcceptRuns ==
  ASSUME ServerInv, NEW S, Runs("accept", S)
  PROVE  /\ Tail(ready) \in Seq(Handler) /\ Accepts(Tail(ready)) = {}
         /\ armed = FALSE /\ started
<1>1. ready \in Seq(Handler) /\ ready # <<>> /\ ready[1].op = "accept"
  BY DEF Runs, ServerInv, TypeOK
<1>2. 1 \in Accepts(ready) /\ Accepts(ready) = AcceptHandlers
  BY <1>1 DEF Accepts, AcceptHandlers
<1>3. Accepts(ready) = {1}
  BY <1>2 DEF ServerInv, OneAccept
<1> QED
  BY <1>1, <1>2, <1>3, TailAccepts DEF ServerInv, OneAccept, TypeOK

\* Steps that leave the accepts alone.
LEMMA AcceptsKept ==
  ASSUME ServerInv, TypeOK', UNCHANGED <<started, armed>>, armed => UNCHANGED acceptor,
         \A i, j \in Accepts(ready') : i = j,
         (Accepts(ready') = {}) <=> (Accepts(ready) = {})
  PROVE  ServerInv'
<1>1. AcceptHandlers' = Accepts(ready') /\ AcceptHandlers = Accepts(ready)
  BY DEF AcceptHandlers, Accepts
<1> QED
  BY <1>1 DEF ServerInv, OneAccept

\* Every step keeps the invariant.
LEMMA ServerStep == ServerInv /\ [Next]_vars => ServerInv'
<1> SUFFICES ASSUME ServerInv, [Next]_vars PROVE ServerInv'
  OBVIOUS
<1>0. /\ TypeOK /\ OneAccept /\ ready \in Seq(Handler)
      /\ Accepts(ready) = AcceptHandlers
  BY DEF ServerInv, TypeOK, Accepts, AcceptHandlers
<1>1. /\ \A c \in Conns \cup {NoConn} : [op |-> "accept", socket |-> c] \in Handler
      /\ \A c \in Conns \cup {NoConn} : [op |-> "read", socket |-> c] \in Handler
  BY DEF Handler
<1>2. ASSUME TypeOK', UNCHANGED <<started, armed, ready>>, armed => UNCHANGED acceptor
      PROVE  ServerInv'
  BY <1>0, <1>2, AcceptsKept DEF OneAccept
<1>3. ASSUME (\E c \in Conns : Connect(c)) \/ (\E S \in SUBSET In("kept") : Release(S))
      PROVE  ServerInv'
  <2>1. TypeOK'
    BY <1>0, <1>3 DEF Connect, Release, TypeOK, ConnStates
  <2> QED
    BY <1>2, <1>3, <2>1 DEF Connect, Release
<1>4. ASSUME NEW c \in Conns, AcceptCompletes(c) PROVE ServerInv'
  <2>1. PICK s \in Conns \cup {NoConn} :
          ready' = Append(ready, [op |-> "accept", socket |-> s])
    BY <1>4 DEF AcceptCompletes
  <2>2. armed /\ Accepts(ready) = {} /\ started
    BY <1>0, <1>4 DEF AcceptCompletes, OneAccept
  <2>3. ready' \in Seq(Handler) /\ Accepts(ready') = {Len(ready) + 1}
    BY <1>0, <1>1, <2>1, <2>2, AppendAccept
  <2>4. AcceptHandlers' = Accepts(ready')
    BY DEF AcceptHandlers, Accepts
  <2>5. TypeOK'
    BY <1>0, <1>4, <2>3 DEF AcceptCompletes, TypeOK, ConnStates
  <2>6. OneAccept'
    BY <1>4, <2>2, <2>3, <2>4 DEF AcceptCompletes, OneAccept
  <2> QED
    BY <2>5, <2>6 DEF ServerInv
<1>5. ASSUME NEW c \in Conns, ReadCompletes(c) PROVE ServerInv'
  <2>1. ready' \in Seq(Handler) /\ Accepts(ready') = Accepts(ready)
    BY <1>0, <1>1, <1>5, AppendOther DEF ReadCompletes
  <2>2. TypeOK'
    BY <1>0, <1>5, <2>1 DEF ReadCompletes, TypeOK, ConnStates
  <2> QED
    BY <1>0, <1>5, <2>1, <2>2, AcceptsKept DEF ReadCompletes, OneAccept
<1>6. CASE start
  <2>1. armed = FALSE /\ Accepts(ready) = {}
    BY <1>0, <1>6 DEF start, OneAccept, TypeOK
  <2>2. ready' \in Seq(Handler) /\ armed' \in BOOLEAN /\ OneAccept'
    BY <1>0, <1>6, <2>1, DoAcceptOne DEF start
  <2>3. TypeOK'
    BY <1>0, <1>6, <2>2 DEF start, TypeOK
  <2> QED
    BY <2>2, <2>3 DEF ServerInv
<1>7. CASE stop
  <2>1. started /\ UNCHANGED started /\ acceptor' = "closed" /\ armed' = FALSE
    BY <1>7 DEF stop
  <2>2. CASE armed
    <3>1. ready' \in Seq(Handler) /\ Accepts(ready') = {Len(ready) + 1}
      BY <1>0, <1>1, <1>7, <2>2, AppendAccept DEF stop, OneAccept
    <3>2. AcceptHandlers' = Accepts(ready')
      BY DEF AcceptHandlers, Accepts
    <3>3. TypeOK'
      BY <1>0, <1>7, <3>1 DEF stop, TypeOK, ConnStates
    <3> QED
      BY <2>1, <3>1, <3>2, <3>3 DEF ServerInv, OneAccept
  <2>3. CASE ~armed
    <3>1. TypeOK'
      BY <1>0, <1>7, <2>3 DEF stop, TypeOK, ConnStates
    <3> QED
      BY <1>0, <1>2, <1>7, <2>3, <3>1 DEF stop, TypeOK
  <2> QED
    BY <2>2, <2>3
<1>8. CASE RunBegins \/ RunReturns
  <2>1. TypeOK'
    BY <1>0, <1>8 DEF RunBegins, RunReturns, TypeOK
  <2> QED
    BY <1>2, <1>8, <2>1 DEF RunBegins, RunReturns
<1>9. CASE HandleAccept
  <2>1. Runs("accept", Conns) /\ do_accept(Tail(ready))
        /\ conn' = [conn EXCEPT ![Head(ready).socket] = "reading"]
    BY <1>9 DEF HandleAccept
  <2>2. ready' \in Seq(Handler) /\ armed' \in BOOLEAN /\ OneAccept'
    BY <1>0, <2>1, AcceptRuns, DoAcceptOne DEF Runs
  <2>3. TypeOK'
    BY <1>0, <2>1, <2>2 DEF Runs, TypeOK, ConnStates
  <2> QED
    BY <2>2, <2>3 DEF ServerInv
<1>10. CASE HandleAcceptError
  <2> DEFINE q == Append(Tail(ready), [op |-> "read", socket |-> NoConn])
  <2>1. Runs("accept", {NoConn}) /\ do_accept(q) /\ UNCHANGED conn
    BY <1>10 DEF HandleAcceptError
  <2>2. /\ Tail(ready) \in Seq(Handler) /\ Accepts(Tail(ready)) = {}
        /\ armed = FALSE /\ started
    BY <2>1, AcceptRuns
  <2>3. q \in Seq(Handler) /\ Accepts(q) = {}
    BY <1>1, <2>2, AppendOther
  <2> HIDE DEF q
  <2>4. ready' \in Seq(Handler) /\ armed' \in BOOLEAN /\ OneAccept'
    BY <1>0, <2>1, <2>2, <2>3, DoAcceptOne DEF Runs
  <2>5. TypeOK'
    BY <1>0, <2>1, <2>4 DEF Runs, TypeOK
  <2> QED
    BY <2>4, <2>5 DEF ServerInv
<1>11. CASE HandleReadError \/ HandleRead
  <2>1. /\ ready # <<>> /\ ready[1].op = "read" /\ ready' = Tail(ready)
        /\ UNCHANGED <<started, acceptor, armed>>
    BY <1>0, <1>11 DEF HandleReadError, HandleRead, Runs
  <2>2. 1 \notin Accepts(ready) /\ \A i \in Accepts(ready) : i \in Nat
    BY <1>0, <2>1 DEF Accepts
  <2>3. ready' \in Seq(Handler) /\ Accepts(ready') = {i - 1 : i \in Accepts(ready)}
    BY <1>0, <2>1, <2>2, TailAccepts
  <2>4. /\ \A i, j \in Accepts(ready') : i = j
        /\ (Accepts(ready') = {}) <=> (Accepts(ready) = {})
    BY <1>0, <2>2, <2>3 DEF OneAccept
  <2>5. TypeOK'
    BY <1>0, <1>11, <2>1, <2>3 DEF HandleReadError, HandleRead, Runs, TypeOK, ConnStates
  <2> QED
    BY <2>1, <2>4, <2>5, AcceptsKept
<1>12. CASE UNCHANGED vars
  <2>1. TypeOK'
    BY <1>0, <1>12 DEF vars, TypeOK
  <2> QED
    BY <1>2, <1>12, <2>1 DEF vars
<1> QED
  BY <1>3, <1>4, <1>5, <1>6, <1>7, <1>8, <1>9, <1>10, <1>11, <1>12 DEF Next, IoThread

\* The acceptor's variables have their types, with only handlers of accepts and of
\* header reads in the io_context's queue, whatever fails and however stop() cuts in.
THEOREM ServerTypes == Spec => []TypeOK
<1>1. ServerInv => TypeOK
  BY DEF ServerInv
<1> QED
  BY <1>1, ServerInit, ServerStep, PTL DEF Spec

\* From start() on the server has exactly one accept outstanding, for every set
\* of connections and every descriptor limit.
THEOREM AcceptIsArmedOnce == Spec => []OneAccept
<1>1. ServerInv => OneAccept
  BY DEF ServerInv
<1> QED
  BY <1>1, ServerInit, ServerStep, PTL DEF Spec

-----------------------------------------------------------------------------
(* The queue. *)

Accept(c) == [op |-> "accept", socket |-> c]
Read(c)   == [op |-> "read", socket |-> c]

Items(queue) == {queue[i] : i \in DOMAIN queue}

\* No handler is queued twice.
Once(queue) == \A i, j \in DOMAIN queue : queue[i] = queue[j] => i = j

\* The handler of a socket that was never opened runs before the next accept's.
ErrorsFirst(queue) ==
  \A i, j \in DOMAIN queue : queue[i] = Read(NoConn) /\ queue[j].op = "accept" => i < j

\* The handlers of connections are those that the connections wait for.
Owned(queue, cn) ==
  \A c \in Conns : /\ (cn[c] = "accepted") <=> (Accept(c) \in Items(queue))
                   /\ (cn[c] = "read") <=> (Read(c) \in Items(queue))

QueueInv == Once(ready) /\ ErrorsFirst(ready) /\ Owned(ready, conn)

LEMMA Handlers ==
  /\ \A c \in Conns \cup {NoConn} : Accept(c) \in Handler /\ Read(c) \in Handler
  /\ \A c, d : Accept(c) # Read(d)
  /\ \A c, d : Accept(c) = Accept(d) => c = d
  /\ \A c, d : Read(c) = Read(d) => c = d
  /\ \A c : Accept(c).op = "accept" /\ Read(c).op = "read"
  /\ \A c : Accept(c).socket = c /\ Read(c).socket = c
  /\ \A h \in Handler : h = Accept(h.socket) \/ h = Read(h.socket)
  /\ \A h \in Handler : h.op = "accept" => h = Accept(h.socket)
  /\ \A h \in Handler : h.op = "read" => h = Read(h.socket)
<1>1. /\ \A c, d : Accept(c) # Read(d)
      /\ \A c, d : Accept(c) = Accept(d) => c = d
      /\ \A c, d : Read(c) = Read(d) => c = d
      /\ \A c : Accept(c).op = "accept" /\ Read(c).op = "read"
      /\ \A c : Accept(c).socket = c /\ Read(c).socket = c
  <2>1. \A c, d : Accept(c).op = "accept" /\ Read(d).op = "read"
                  /\ Accept(c).socket = c /\ Read(d).socket = d
    BY DEF Accept, Read
  <2>2. "accept" # "read"
    OBVIOUS
  <2>3. \A c, d : Accept(c) # Read(d)
    BY <2>1, <2>2
  <2>4. \A c, d : Accept(c) = Accept(d) => c = d
    BY <2>1
  <2>5. \A c, d : Read(c) = Read(d) => c = d
    BY <2>1
  <2> QED
    BY <2>1, <2>3, <2>4, <2>5
<1>2. \A c \in Conns \cup {NoConn} : Accept(c) \in Handler /\ Read(c) \in Handler
  BY DEF Accept, Read, Handler
<1>3. ASSUME NEW h \in Handler
      PROVE  /\ h.op = "accept" => h = Accept(h.socket)
             /\ h.op = "read" => h = Read(h.socket)
             /\ h.op \in {"accept", "read"}
  BY DEF Accept, Read, Handler
<1> QED
  BY <1>1, <1>2, <1>3

\* Queueing a handler that is not queued yet.
LEMMA AppendOnce ==
  ASSUME NEW q \in Seq(Handler), NEW h \in Handler, Once(q), h \notin Items(q),
         ErrorsFirst(q), h # Read(NoConn) \/ Accepts(q) = {}
  PROVE  /\ Once(Append(q, h)) /\ ErrorsFirst(Append(q, h))
         /\ Items(Append(q, h)) = Items(q) \cup {h}
<1> DEFINE s == Append(q, h)
<1>1. /\ DOMAIN s = 1 .. (Len(q) + 1) /\ DOMAIN q = 1 .. Len(q)
      /\ \A i \in 1 .. Len(q) : s[i] = q[i]
      /\ s[Len(q) + 1] = h
      /\ Len(q) \in Nat
  OBVIOUS
<1> HIDE DEF s
<1>2. \A i \in DOMAIN s : \/ i \in DOMAIN q /\ s[i] = q[i]
                          \/ i = Len(q) + 1 /\ s[i] = h
  BY <1>1
<1>3. Once(s)
  BY <1>1, <1>2 DEF Once, Items
<1>4. Items(s) = Items(q) \cup {h}
  BY <1>1, <1>2 DEF Items
<1>5. ErrorsFirst(s)
  <2> SUFFICES ASSUME NEW i \in DOMAIN s, NEW j \in DOMAIN s,
                      s[i] = Read(NoConn), s[j].op = "accept"
               PROVE  i < j
    BY DEF ErrorsFirst
  <2>1. CASE i \in DOMAIN q /\ s[i] = q[i]
    BY <1>1, <1>2, <2>1 DEF ErrorsFirst
  <2>2. CASE i = Len(q) + 1 /\ s[i] = h
    <3>1. h = Read(NoConn) /\ h.op # "accept" /\ Accepts(q) = {}
      BY <2>2, Handlers
    <3> QED
      BY <1>2, <3>1 DEF Accepts
  <2> QED
    BY <1>2, <2>1, <2>2
<1> QED
  BY <1>3, <1>4, <1>5 DEF s

\* Running the handler at the head takes it, and no other, from the queue.
LEMMA TailOnce ==
  ASSUME NEW q \in Seq(Handler), q # <<>>, Once(q), ErrorsFirst(q)
  PROVE  /\ Once(Tail(q)) /\ ErrorsFirst(Tail(q))
         /\ Items(Tail(q)) = Items(q) \ {Head(q)}
         /\ Head(q) \in Items(q)
         /\ Head(q).op = "accept" => Read(NoConn) \notin Items(Tail(q))
<1> DEFINE s == Tail(q)
<1>1. /\ DOMAIN s = 1 .. (Len(q) - 1) /\ DOMAIN q = 1 .. Len(q)
      /\ \A i \in 1 .. (Len(q) - 1) : s[i] = q[i + 1]
      /\ Len(q) \in Nat /\ 1 \in DOMAIN q /\ Head(q) = q[1]
  OBVIOUS
<1> HIDE DEF s
<1>2. \A i \in DOMAIN s : i \in Nat /\ i + 1 \in DOMAIN q /\ i + 1 # 1 /\ s[i] = q[i + 1]
  BY <1>1
<1>3. \A i \in DOMAIN q : i # 1 => i - 1 \in DOMAIN s /\ s[i - 1] = q[i]
  BY <1>1
<1>4. Once(s)
  <2> SUFFICES ASSUME NEW i \in DOMAIN s, NEW j \in DOMAIN s, s[i] = s[j]
               PROVE  i = j
    BY DEF Once
  <2>1. i + 1 = j + 1
    BY <1>2 DEF Once
  <2> QED
    BY <1>2, <2>1
<1>5. ErrorsFirst(s)
  <2> SUFFICES ASSUME NEW i \in DOMAIN s, NEW j \in DOMAIN s,
                      s[i] = Read(NoConn), s[j].op = "accept"
               PROVE  i < j
    BY DEF ErrorsFirst
  <2>1. i + 1 < j + 1
    BY <1>2 DEF ErrorsFirst
  <2> QED
    BY <1>2, <2>1
<1>6. Items(s) = Items(q) \ {Head(q)}
  <2>1. ASSUME NEW h \in Items(s) PROVE h \in Items(q) \ {Head(q)}
    <3>1. PICK i \in DOMAIN s : h = s[i]
      BY DEF Items
    <3>2. i + 1 \in DOMAIN q /\ h = q[i + 1] /\ i + 1 # 1
      BY <1>2, <3>1
    <3> QED
      BY <1>1, <3>2 DEF Items, Once
  <2>2. ASSUME NEW h \in Items(q) \ {Head(q)} PROVE h \in Items(s)
    BY <1>1, <1>3 DEF Items
  <2> QED
    BY <2>1, <2>2
<1>7. ASSUME Head(q).op = "accept", Read(NoConn) \in Items(s) PROVE FALSE
  <2>1. PICK i \in DOMAIN s : s[i] = Read(NoConn)
    BY <1>7 DEF Items
  <2>2. i + 1 < 1
    BY <1>1, <1>2, <1>7, <2>1 DEF ErrorsFirst
  <2> QED
    BY <1>2, <2>2
<1> QED
  BY <1>1, <1>4, <1>5, <1>6, <1>7 DEF Items, s

LEMMA AcceptsAreItems ==
  ASSUME NEW q \in Seq(Handler), Accepts(q) = {}
  PROVE  \A c : Accept(c) \notin Items(q)
<1> SUFFICES ASSUME NEW c, NEW i \in DOMAIN q, q[i] = Accept(c) PROVE FALSE
  BY DEF Items
<1> QED
  BY Handlers DEF Accepts

\* do_accept, called where no accept is outstanding, keeps the queue in order.
LEMMA DoAcceptQueue ==
  ASSUME NEW q \in Seq(Handler), Once(q), ErrorsFirst(q), Accepts(q) = {}, do_accept(q)
  PROVE  /\ Once(ready') /\ ErrorsFirst(ready')
         /\ \A c \in Conns : /\ Accept(c) \in Items(ready') <=> Accept(c) \in Items(q)
                             /\ Read(c) \in Items(ready') <=> Read(c) \in Items(q)
<1>1. CASE ready' = q
  BY <1>1
<1>2. CASE ready' = Append(q, Accept(NoConn))
  <2>1. Accept(NoConn) \in Handler /\ Accept(NoConn) # Read(NoConn)
    BY Handlers
  <2>2. Accept(NoConn) \notin Items(q)
    BY AcceptsAreItems
  <2>3. /\ Once(ready') /\ ErrorsFirst(ready')
        /\ Items(ready') = Items(q) \cup {Accept(NoConn)}
    BY <1>2, <2>1, <2>2, AppendOnce
  <2>4. \A c \in Conns : Accept(c) # Accept(NoConn) /\ Read(c) # Accept(NoConn)
    BY Handlers, ServerAssumption
  <2> QED
    BY <2>3, <2>4
<1> QED
  BY <1>1, <1>2 DEF do_accept, Accept

LEMMA QueueInit == Init => QueueInv
<1>1. DOMAIN <<>> = {}
  OBVIOUS
<1> QED
  BY <1>1 DEF Init, QueueInv, Once, ErrorsFirst, Owned, Items

\* Every step keeps the queue in order.
LEMMA QueueStep == ServerInv /\ QueueInv /\ [Next]_vars => QueueInv'
<1> SUFFICES ASSUME ServerInv, QueueInv, [Next]_vars PROVE QueueInv'
  OBVIOUS
<1>1. /\ ready \in Seq(Handler) /\ conn \in [Conns -> ConnStates]
      /\ Once(ready) /\ ErrorsFirst(ready) /\ Owned(ready, conn)
      /\ Accepts(ready) = AcceptHandlers
  BY DEF ServerInv, TypeOK, QueueInv, Accepts, AcceptHandlers
<1>2. \A c \in Conns : c # NoConn
  BY ServerAssumption
<1>3. ASSUME (\E c \in Conns : Connect(c)) \/ (\E S \in SUBSET In("kept") : Release(S))
      PROVE  QueueInv'
  <2>1. /\ ready' = ready
        /\ \A c \in Conns : conn'[c] = conn[c] \/ /\ conn'[c] \in {"queued", "closed"}
                                                  /\ conn[c] \in {"absent", "kept"}
    BY <1>1, <1>3 DEF Connect, Release, In
  <2>2. Owned(ready, conn')
    BY <1>1, <2>1 DEF Owned
  <2> QED
    BY <1>1, <2>1, <2>2 DEF QueueInv
<1>4. ASSUME NEW c \in Conns, AcceptCompletes(c) PROVE QueueInv'
  <2>1. armed /\ conn[c] = "queued" /\ Accepts(ready) = {}
    BY <1>1, <1>4 DEF AcceptCompletes, ServerInv, OneAccept
  <2>2. \A d : Accept(d) \notin Items(ready)
    BY <1>1, <2>1, AcceptsAreItems
  <2>3. CASE conn' = [conn EXCEPT ![c] = "accepted"] /\ ready' = Append(ready, Accept(c))
    <3>1. /\ Once(ready') /\ ErrorsFirst(ready')
          /\ Items(ready') = Items(ready) \cup {Accept(c)}
      BY <1>1, <2>2, <2>3, AppendOnce, Handlers
    <3>2. Owned(ready', conn')
      BY <1>1, <2>1, <2>3, <3>1, Handlers DEF Owned
    <3> QED
      BY <3>1, <3>2 DEF QueueInv
  <2>4. CASE conn' = conn /\ ready' = Append(ready, Accept(NoConn))
    <3>1. /\ Once(ready') /\ ErrorsFirst(ready')
          /\ Items(ready') = Items(ready) \cup {Accept(NoConn)}
      BY <1>1, <2>2, <2>4, AppendOnce, Handlers
    <3>2. Owned(ready', conn')
      BY <1>1, <1>2, <2>4, <3>1, Handlers DEF Owned
    <3> QED
      BY <3>1, <3>2 DEF QueueInv
  <2> QED
    BY <1>4, <2>3, <2>4 DEF AcceptCompletes, Accept
<1>5. ASSUME NEW c \in Conns, ReadCompletes(c) PROVE QueueInv'
  <2>1. /\ conn[c] = "reading" /\ conn' = [conn EXCEPT ![c] = "read"]
        /\ ready' = Append(ready, Read(c))
    BY <1>5 DEF ReadCompletes, Read
  <2>2. Read(c) \notin Items(ready) /\ Read(c) # Read(NoConn) /\ Read(c) \in Handler
    BY <1>1, <1>2, <2>1, Handlers DEF Owned
  <2>3. Once(ready') /\ ErrorsFirst(ready') /\ Items(ready') = Items(ready) \cup {Read(c)}
    BY <1>1, <2>1, <2>2, AppendOnce
  <2>4. Owned(ready', conn')
    BY <1>1, <2>1, <2>3, Handlers DEF Owned
  <2> QED
    BY <2>3, <2>4 DEF QueueInv
<1>6. CASE start
  <2>1. Accepts(ready) = {} /\ do_accept(ready) /\ conn' = conn
    BY <1>1, <1>6 DEF start, ServerInv, OneAccept
  <2> QED
    BY <1>1, <2>1, DoAcceptQueue DEF QueueInv, Owned
<1>7. CASE stop
  <2>1. \A c \in Conns : /\ (conn'[c] = "accepted") <=> (conn[c] = "accepted")
                         /\ (conn'[c] = "read") <=> (conn[c] = "read")
    BY <1>7 DEF stop
  <2>2. CASE armed
    <3>1. ready' = Append(ready, Accept(NoConn)) /\ Accepts(ready) = {}
      BY <1>1, <1>7, <2>2 DEF stop, ServerInv, OneAccept, Accept
    <3>2. Accept(NoConn) \notin Items(ready)
      BY <1>1, <3>1, AcceptsAreItems
    <3>3. /\ Once(ready') /\ ErrorsFirst(ready')
          /\ Items(ready') = Items(ready) \cup {Accept(NoConn)}
      BY <1>1, <3>1, <3>2, AppendOnce, Handlers
    <3>4. Owned(ready', conn')
      BY <1>1, <1>2, <2>1, <3>3, Handlers DEF Owned
    <3> QED
      BY <3>3, <3>4 DEF QueueInv
  <2>3. CASE ~armed
    BY <1>1, <1>7, <2>1, <2>3 DEF stop, QueueInv, Owned
  <2> QED
    BY <2>2, <2>3
<1>8. CASE RunBegins \/ RunReturns \/ UNCHANGED vars
  BY <1>1, <1>8 DEF RunBegins, RunReturns, vars, QueueInv
<1>9. CASE HandleAccept
  <2>1. PICK c \in Conns : /\ Head(ready) = Accept(c) /\ do_accept(Tail(ready))
                           /\ conn' = [conn EXCEPT ![c] = "reading"]
                           /\ Runs("accept", Conns) /\ ready # <<>>
    <3>1. Head(ready) \in Handler /\ Head(ready).op = "accept" /\ ready # <<>>
      BY <1>1, <1>9 DEF HandleAccept, Runs
    <3> QED
      BY <1>9, <3>1, Handlers DEF HandleAccept, Runs
  <2>2. Tail(ready) \in Seq(Handler) /\ Accepts(Tail(ready)) = {}
    BY <2>1, AcceptRuns
  <2>3. /\ Once(Tail(ready)) /\ ErrorsFirst(Tail(ready))
        /\ Items(Tail(ready)) = Items(ready) \ {Accept(c)}
        /\ Accept(c) \in Items(ready)
    BY <1>1, <2>1, TailOnce
  <2>4. Owned(Tail(ready), conn')
    BY <1>1, <2>1, <2>3, Handlers DEF Owned
  <2> QED
    BY <2>1, <2>2, <2>3, <2>4, DoAcceptQueue DEF QueueInv, Owned
<1>10. CASE HandleAcceptError
  <2> DEFINE q == Append(Tail(ready), Read(NoConn))
  <2>1. /\ Runs("accept", {NoConn}) /\ ready # <<>> /\ Head(ready) = Accept(NoConn)
        /\ do_accept(q) /\ conn' = conn
    <3>1. Head(ready) \in Handler /\ Head(ready).op = "accept" /\ ready # <<>>
          /\ Head(ready).socket = NoConn
      BY <1>1, <1>10 DEF HandleAcceptError, Runs
    <3> QED
      BY <1>10, <3>1, Handlers DEF HandleAcceptError, Runs, Read
  <2>2. Tail(ready) \in Seq(Handler) /\ Accepts(Tail(ready)) = {}
    BY <2>1, AcceptRuns
  <2>3. /\ Once(Tail(ready)) /\ ErrorsFirst(Tail(ready))
        /\ Items(Tail(ready)) = Items(ready) \ {Accept(NoConn)}
        /\ Read(NoConn) \notin Items(Tail(ready))
    BY <1>1, <2>1, TailOnce, Handlers
  <2>4. q \in Seq(Handler) /\ Accepts(q) = {}
    BY <2>2, AppendOther, Handlers
  <2>5. Once(q) /\ ErrorsFirst(q) /\ Items(q) = Items(Tail(ready)) \cup {Read(NoConn)}
    BY <2>2, <2>3, AppendOnce, Handlers
  <2> HIDE DEF q
  <2>6. Owned(q, conn')
    BY <1>1, <1>2, <2>1, <2>3, <2>5, Handlers DEF Owned
  <2> QED
    BY <2>1, <2>4, <2>5, <2>6, DoAcceptQueue DEF QueueInv, Owned
<1>11. CASE HandleReadError \/ HandleRead
  <2>1. PICK c \in Conns \cup {NoConn} :
          /\ Head(ready) = Read(c) /\ ready # <<>> /\ ready' = Tail(ready)
          /\ \/ c = NoConn /\ conn' = conn
             \/ c \in Conns /\ \E s \in {"kept", "closed"} : conn' = [conn EXCEPT ![c] = s]
    <3>1. Head(ready) \in Handler /\ Head(ready).op = "read" /\ ready # <<>>
      BY <1>1, <1>11 DEF HandleReadError, HandleRead, Runs
    <3>2. Head(ready) = Read(Head(ready).socket)
          /\ Head(ready).socket \in Conns \cup {NoConn}
      BY <1>11, <3>1, Handlers DEF HandleReadError, HandleRead, Runs
    <3> QED
      BY <1>11, <3>1, <3>2 DEF HandleReadError, HandleRead, Runs
  <2>2. Once(ready') /\ ErrorsFirst(ready') /\ Items(ready') = Items(ready) \ {Read(c)}
        /\ Read(c) \in Items(ready)
    BY <1>1, <2>1, TailOnce
  <2>3. CASE c = NoConn /\ conn' = conn
    <3>1. \A d \in Conns : Accept(d) # Read(c) /\ Read(d) # Read(c)
      BY <1>2, <2>3, Handlers
    <3> QED
      BY <1>1, <2>2, <2>3, <3>1 DEF QueueInv, Owned
  <2>4. ASSUME c \in Conns, NEW s \in {"kept", "closed"}, conn' = [conn EXCEPT ![c] = s]
        PROVE  QueueInv'
    <3>1. \A d \in Conns : Accept(d) # Read(c) /\ (Read(d) = Read(c) => d = c)
      BY Handlers
    <3>2. Owned(ready', conn')
      BY <1>1, <2>2, <2>4, <3>1 DEF Owned
    <3> QED
      BY <2>2, <3>2 DEF QueueInv
  <2> QED
    BY <2>1, <2>3, <2>4
<1> QED
  BY <1>3, <1>4, <1>5, <1>6, <1>7, <1>8, <1>9, <1>10, <1>11 DEF Next, IoThread

-----------------------------------------------------------------------------
(* What the queue gives. *)

\* A set without two elements.
LEMMA AtMostOne ==
  ASSUME NEW S, \A x, y \in S : x = y
  PROVE  IsFiniteSet(S) /\ Cardinality(S) \in {0, 1} /\ (S # {} => Cardinality(S) = 1)
         /\ (S = {} => Cardinality(S) = 0)
<1>1. CASE S = {}
  BY <1>1, FS_EmptySet
<1>2. CASE S # {}
  <2>1. PICK x : S = {x}
    BY <1>2
  <2> QED
    BY <1>2, <2>1, FS_Singleton
<1> QED
  BY <1>1, <1>2

LEMMA QueueGives == ServerInv /\ QueueInv => HandlerForEach
<1> SUFFICES ASSUME ServerInv, QueueInv PROVE HandlerForEach
  OBVIOUS
<1>1. ready \in Seq(Handler)
  BY DEF ServerInv, TypeOK
<1>2. ASSUME NEW op \in {"accept", "read"}, NEW c
      PROVE  Cardinality(HandlersOf(op, c)) =
               IF [op |-> op, socket |-> c] \in Items(ready) THEN 1 ELSE 0
  <2>1. \A i, j \in HandlersOf(op, c) : i = j
    BY DEF HandlersOf, QueueInv, Once
  <2>2. HandlersOf(op, c) # {} <=> [op |-> op, socket |-> c] \in Items(ready)
    BY DEF HandlersOf, Items
  <2> QED
    BY <2>1, <2>2, AtMostOne
<1>3. ASSUME NEW c \in Conns
      PROVE  /\ Cardinality(HandlersOf("accept", c)) = IF conn[c] = "accepted" THEN 1 ELSE 0
             /\ Cardinality(HandlersOf("read", c)) = IF conn[c] = "read" THEN 1 ELSE 0
  BY <1>2 DEF QueueInv, Owned, Accept, Read
<1> DEFINE Errors == {i \in DOMAIN ready : ready[i].socket = NoConn}
<1>4. Cardinality(Errors) <= 2
  <2>1. Errors \subseteq HandlersOf("accept", NoConn) \cup HandlersOf("read", NoConn)
    <3> SUFFICES ASSUME NEW i \in DOMAIN ready, ready[i].socket = NoConn
                 PROVE  ready[i] \in {Accept(NoConn), Read(NoConn)}
      BY DEF HandlersOf, Accept, Read
    <3>1. ready[i] \in Handler
      BY <1>1
    <3> QED
      BY <3>1, Handlers
  <2>2. ASSUME NEW op \in {"accept", "read"}
        PROVE  IsFiniteSet(HandlersOf(op, NoConn))
               /\ Cardinality(HandlersOf(op, NoConn)) \in {0, 1}
    <3>1. \A i, j \in HandlersOf(op, NoConn) : i = j
      BY DEF HandlersOf, QueueInv, Once
    <3> QED
      BY <3>1, AtMostOne
  <2> DEFINE A == HandlersOf("accept", NoConn)
  <2> DEFINE R == HandlersOf("read", NoConn)
  <2>3. /\ IsFiniteSet(A) /\ Cardinality(A) \in {0, 1}
        /\ IsFiniteSet(R) /\ Cardinality(R) \in {0, 1}
    BY <2>2
  <2> HIDE DEF A, R
  <2>4. /\ IsFiniteSet(A \cup R) /\ IsFiniteSet(A \cap R)
        /\ Cardinality(A \cup R) = Cardinality(A) + Cardinality(R) - Cardinality(A \cap R)
    BY <2>3, FS_Union, FS_Intersection
  <2>5. Cardinality(A \cap R) \in Nat /\ Cardinality(A \cup R) \in Nat
    BY <2>4, FS_CardinalityType
  <2>6. Cardinality(A \cup R) <= 2
    BY <2>3, <2>4, <2>5
  <2>7. Errors \subseteq A \cup R
    BY <2>1 DEF A, R
  <2> HIDE DEF Errors
  <2>8. Cardinality(Errors) \in Nat /\ Cardinality(Errors) <= Cardinality(A \cup R)
    BY <2>4, <2>7, FS_Subset, FS_CardinalityType
  <2> QED
    BY <2>5, <2>6, <2>8
<1> QED
  BY <1>3, <1>4 DEF HandlerForEach

LEMMA ServerInvariants == Spec => [](ServerInv /\ QueueInv)
BY ServerInit, ServerStep, QueueInit, QueueStep, PTL DEF Spec

\* No connection is forgotten between two handlers or read twice, and the handlers
\* that spin on errors are never more than two.
THEOREM HandlersMatch == Spec => []HandlerForEach
BY ServerInvariants, QueueGives, PTL

\* With the acceptor closed, a step reads from nobody new.
LEMMA StopStep ==
  ASSUME ServerInv, QueueInv, [Next]_vars, acceptor = "closed"
  PROVE  /\ In("reading")' \subseteq In("reading") \cup In("accepted")
         /\ Cardinality(In("accepted")) <= 1
         /\ In("accepted")' \subseteq In("accepted")
<1>1. \A c, d \in In("accepted") : c = d
  <2> SUFFICES ASSUME NEW c \in In("accepted"), NEW d \in In("accepted") PROVE c = d
    OBVIOUS
  <2>1. Accept(c) \in Items(ready) /\ Accept(d) \in Items(ready)
    BY DEF In, QueueInv, Owned
  <2>2. PICK i \in DOMAIN ready, j \in DOMAIN ready :
          ready[i] = Accept(c) /\ ready[j] = Accept(d)
    BY <2>1 DEF Items
  <2>3. i \in AcceptHandlers /\ j \in AcceptHandlers
    BY <2>2, Handlers DEF AcceptHandlers
  <2>4. i = j
    BY <2>3 DEF ServerInv, OneAccept
  <2> QED
    BY <2>2, <2>4, Handlers
<1>2. Cardinality(In("accepted")) <= 1
  BY <1>1, AtMostOne
<1>3. ~armed /\ conn \in [Conns -> ConnStates]
  BY DEF ServerInv, OneAccept, TypeOK
<1>4. ASSUME NEW c \in Conns
      PROVE  /\ conn'[c] = "reading" => conn[c] \in {"reading", "accepted"}
             /\ conn'[c] = "accepted" => conn[c] = "accepted"
  <2>1. CASE HandleAccept
    <3>1. Head(ready) \in Items(ready) /\ Head(ready) \in Handler
          /\ Head(ready).op = "accept" /\ Head(ready).socket \in Conns
          /\ conn' = [conn EXCEPT ![Head(ready).socket] = "reading"]
      BY <2>1, TailOnce DEF HandleAccept, Runs, ServerInv, TypeOK, QueueInv
    <3>2. conn[Head(ready).socket] = "accepted"
      BY <3>1, Handlers DEF QueueInv, Owned
    <3> QED
      BY <1>3, <3>1, <3>2
  <2>2. CASE ~HandleAccept
    BY <1>3, <2>2 DEF Next, IoThread, Connect, AcceptCompletes, ReadCompletes, Release,
                      start, stop, RunBegins, RunReturns, HandleAcceptError,
                      HandleReadError, HandleRead, vars
  <2> QED
    BY <2>1, <2>2
<1> QED
  BY <1>2, <1>4 DEF In

\* After stop() no connection is accepted any more, and of those that were at most
\* one still gets its header read.
THEOREM StopEndsIntake == Spec => IntakeEnds
<1>1. ServerInv /\ QueueInv /\ [Next]_vars
        => [acceptor = "closed" =>
             /\ In("reading")' \subseteq In("reading") \cup In("accepted")
             /\ Cardinality(In("accepted")) <= 1
             /\ In("accepted")' \subseteq In("accepted")]_vars
  BY StopStep
<1> QED
  BY <1>1, ServerInvariants, PTL DEF Spec, IntakeEnds

=============================================================================
