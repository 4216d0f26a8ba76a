----------------------------- MODULE MCKuroNet -----------------------------
(* Instances of KuroNet for TLC. *)
EXTENDS KuroNet, TLC

\* A header that is refused, one without LOGIN, one for each way to be accepted.
MCRequests ==
  {[valid |-> FALSE, agent |-> FALSE, login |-> FALSE, auto |-> FALSE],
   [valid |-> TRUE,  agent |-> TRUE,  login |-> FALSE, auto |-> TRUE],
   [valid |-> TRUE,  agent |-> TRUE,  login |-> TRUE,  auto |-> TRUE],
   [valid |-> TRUE,  agent |-> TRUE,  login |-> TRUE,  auto |-> FALSE]}

\* The same without the header that ends the process.
MCLiveRequests == {r \in MCRequests : r.valid => r.login}

\* The connection that comes second sends a line, or nobody talks.
MCMaxLines == [c \in Conns |-> IF c = 2 THEN 1 ELSE 0]
MCSilent   == [c \in Conns |-> 0]

MCMaxReads == [c \in Conns |-> 1]
=============================================================================
