----------------------- MODULE MCClientSessionManager -----------------------
(* Instances of ClientSessionManager for TLC. *)
EXTENDS ClientSessionManager, TLC

CONSTANTS c1, c2, c3, i1, i2, i3, t1, t2

\* One header for each way through the handler.
MCRequests ==
  {[valid |-> FALSE, agent |-> FALSE, login |-> FALSE, auto |-> FALSE],
   [valid |-> TRUE,  agent |-> FALSE, login |-> TRUE,  auto |-> TRUE],
   [valid |-> TRUE,  agent |-> TRUE,  login |-> FALSE, auto |-> FALSE],
   [valid |-> TRUE,  agent |-> TRUE,  login |-> TRUE,  auto |-> TRUE],
   [valid |-> TRUE,  agent |-> TRUE,  login |-> TRUE,  auto |-> FALSE]}

MCSymmetry == Permutations(Conns) \cup Permutations(Ids) \cup Permutations(Tokens)
=============================================================================
