------------------------------- MODULE MCChat -------------------------------
(* An instance of Chat for TLC. *)
EXTENDS Chat, TLC

CONSTANTS c1, c2, c3, none

\* One client talks, the others only listen (and may leave).
MCMaxLines == [c \in Conns |-> IF c = c1 THEN 1 ELSE 0]
MCMaxReads == [c \in Conns |-> 1]

\* The third client comes by the id of the first, and the second's login is that id.
MCNames == Conns \cup {none}
MCId    == [c \in Conns |-> IF c = c3 THEN c1 ELSE c]
MCLogin == [c \in Conns |-> IF c = c2 THEN c1 ELSE none]
=============================================================================
