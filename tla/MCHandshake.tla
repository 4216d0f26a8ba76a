---------------------------- MODULE MCHandshake ----------------------------
(* An instance of Handshake for TLC. *)
EXTENDS Handshake

\* The documented lines; ones without a value, with blanks around it, with two
\* keys, and the empty one; "auto" on a line of its own and in a login.
MCLines ==
  {<<>>, <<AUTO>>, <<"word">>,
   <<LOGIN, "word">>, <<LOGIN, SP>>, <<LOGIN, "autobot">>, <<LOGIN, "word", AGENT, "web_client">>,
   <<AGENT, "desktop_app">>, <<AGENT, "desktop_app", SP>>, <<AGENT, "unknown">>, <<AGENT>>,
   <<SIZE, "word">>, <<SIZE, SP>>, <<RAW, "word">>}

MCAutoWords == {AUTO, "autobot"}
=============================================================================
