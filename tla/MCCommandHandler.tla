-------------------------- MODULE MCCommandHandler --------------------------
(* Instances of CommandHandler for TLC. *)
EXTENDS CommandHandler

\* With an int of 20 bits six days fit, and seven do not.
MCLines ==
  [op : {"exit", "blank"}]
    \cup [op : {"create"}, type : {"perm", "unknown"}]
    \cup [op : {"create"}, type : {"temp"}, unit : {"-day"}, value : {6, 7}]
    \cup [op : {"create"}, type : {"temp"}, unit : {"-week"}, value : {1}]

\* From the second uptime on, six days from now do not fit, either.
MCUptimes == {0, 2 ^ 19 - 6 * 86400}
=============================================================================
