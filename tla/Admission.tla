----------------------------- MODULE Admission -----------------------------
(***************************************************************************)
(* What KuroNet promises about who is on the server, without ids, sockets, *)
(* locks or threads.  A connection arrives, is queued for the host or is   *)
(* let in on its own request, is let in by the host against a token that   *)
(* was issued, and once out never comes back: a new visit is a new         *)
(* connection.  A member is never thrown out before somebody has left, and *)
(* if no two clients have names in common never while its own peer is      *)
(* there, unless the whole server goes down.                               *)
(***************************************************************************)

CONSTANTS
  Conns,    \* connections, each used once
  Tokens,   \* tokens the host can issue
  NoToken,  \* the credential of a member that has none
  OwnNames  \* TRUE: a name that was one member's is never another's

VARIABLES
  seen,     \* connections that ever arrived
  present,  \* connections whose peer is still there
  pending,  \* arrived, request not read yet
  waiting,  \* queued for the host's decision
  members,  \* pairs <<connection, credential>>
  issued    \* tokens issued so far

vars == <<seen, present, pending, waiting, members, issued>>

Credentials == Tokens \cup {NoToken}

Init ==
  /\ seen = {} /\ present = {}
  /\ pending = {} /\ waiting = {} /\ members = {}
  /\ issued = {}

Arrive(c) ==
  /\ c \notin seen
  /\ seen' = seen \cup {c}
  /\ present' = present \cup {c}
  /\ pending' = pending \cup {c}
  /\ UNCHANGED <<waiting, members, issued>>

Depart(c) ==
  /\ c \in present
  /\ present' = present \ {c}
  /\ UNCHANGED <<seen, pending, waiting, members, issued>>

Enqueue(c) ==
  /\ c \in pending
  /\ pending' = pending \ {c}
  /\ waiting' = waiting \cup {c}
  /\ UNCHANGED <<seen, present, members, issued>>

Issue(t) ==
  /\ issued' = issued \cup {t}
  /\ UNCHANGED <<seen, present, pending, waiting, members>>

\* Whether a token is handed out with it is left open.
AdmitOnRequest(c) ==
  /\ c \in pending
  /\ pending' = pending \ {c}
  /\ \E k \in issued \cup {NoToken} : members' = members \cup {<<c, k>>}
  /\ UNCHANGED <<seen, present, waiting, issued>>

AdmitWithToken(c, t) ==
  /\ c \in waiting
  /\ t \in issued
  /\ waiting' = waiting \ {c}
  /\ members' = members \cup {<<c, t>>}
  /\ UNCHANGED <<seen, present, pending, issued>>

\* Connections that are not members yet may be turned away at any time.
TurnAway(S) ==
  /\ S \subseteq pending \cup waiting
  /\ pending' = pending \ S
  /\ waiting' = waiting \ S
  /\ UNCHANGED <<seen, present, members, issued>>

\* The server finds out whom to remove by name.
Leave(m) ==
  /\ m \in members
  /\ IF OwnNames THEN m[1] \notin present ELSE seen # present
  /\ members' = members \ {m}
  /\ UNCHANGED <<seen, present, pending, waiting, issued>>

Shutdown ==
  /\ pending' = {} /\ waiting' = {} /\ members' = {}
  /\ UNCHANGED <<seen, present, issued>>

Next ==
  \/ \E c \in Conns :
       Arrive(c) \/ Depart(c) \/ Enqueue(c) \/ AdmitOnRequest(c)
  \/ \E t \in Tokens : Issue(t)
  \/ \E c \in Conns, t \in Tokens : AdmitWithToken(c, t)
  \/ \E S \in SUBSET Conns : TurnAway(S)
  \/ \E m \in members : Leave(m)
  \/ Shutdown

Spec == Init /\ [][Next]_vars

-----------------------------------------------------------------------------

MemberConns == {m[1] : m \in members}

\* Type invariant.
TypeOK ==
  /\ seen \in SUBSET Conns
  /\ present \in SUBSET seen
  /\ pending \in SUBSET seen
  /\ waiting \in SUBSET seen
  /\ members \in SUBSET (seen \X Credentials)
  /\ issued \in SUBSET Tokens

\* A connection is in at most one place, under at most one credential.
OnePlace ==
  /\ pending \cap waiting = {}
  /\ (pending \cup waiting) \cap MemberConns = {}
  /\ \A m, n \in members : m[1] = n[1] => m = n

\* Every credential is a token the host issued.
CredentialsIssued == \A m \in members : m[2] = NoToken \/ m[2] \in issued

=============================================================================
