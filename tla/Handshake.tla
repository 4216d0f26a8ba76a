----------------------------- MODULE Handshake -----------------------------
(***************************************************************************)
(* What the header handler of TCPServer makes of a header's text: how      *)
(* KuroNetClient and ClientPolicyRegistry look their fields up, and which  *)
(* way out of the handler the text leads to.                               *)
(*                                                                         *)
(* The text is a sequence of tokens: the four keys, words, a blank and the *)
(* end of a line.  Of the letters of a word the handler asks one thing     *)
(* only, whether there is an "auto" among them (AutoWords).  The searches  *)
(* run over the whole text and know nothing of lines but where a value     *)
(* ends; the properties say what that means for the lines a peer sends.    *)
(* ClientSessionManager has these headers as the records of Request.       *)
(***************************************************************************)
EXTENDS Naturals, SequencesExt, FiniteSetsExt

CONSTANTS
  Lines,     \* the lines peers send, as sequences of tokens
  AutoWords, \* the words with "auto" in them
  MaxLines   \* bound: the lines of a header

AGENT == "AGENT_TYPE:"
SIZE  == "MAX_MESSAGE_SIZE:"
RAW   == "ALLOW_RAW_TCP:"
LOGIN == "LOGIN:"
Keys  == {AGENT, SIZE, RAW, LOGIN}

AUTO == "auto"
SP   == " "
NL   == "\n"

\* A line holds no line end.  It may be empty: the header goes up to "\r\n\r\n", and
\* every "\r" is erased afterwards, so that "\n\n" may stand inside it.
ASSUME HandshakeAssumption ==
  /\ MaxLines \in Nat
  /\ \A l \in Lines : l \in Seq(STRING) /\ \A i \in DOMAIN l : l[i] # NL

\* agents_init: the names that are known.
agents ==
  [unknown |-> "Unknown", web_client |-> "KuroWeb", desktop_app |-> "KuroDesktop",
   mobile_app |-> "KuroMobile", custom_client |-> "CustomClient"]

\* protocols_init: the handler of each type, by what its get_agent_type returns.
protocols ==
  [Unknown |-> "unknown", KuroWeb |-> "web_client", KuroDesktop |-> "desktop_app",
   KuroMobile |-> "mobile_app", CustomClient |-> "custom_client"]

ASSUME AutoAssumption ==
  /\ AUTO \in AutoWords
  /\ AutoWords \cap (Keys \cup {SP, NL} \cup DOMAIN agents) = {}

Outcomes == {"none", "invalid_format", "invalid_agent", "exception", "auto_approve", "wait"}

VARIABLES
  lines,    \* what the peer sent of its header
  outcome,  \* how the handler left
  client    \* the metadata it filled in: login and agent_type

vars == <<lines, outcome, client>>

Init ==
  /\ lines = <<>>
  /\ outcome = "none"
  /\ client = [login |-> <<>>, agent_type |-> ""]

\* The text up to the empty line that ends the header.
message == FlattenSeq([i \in DOMAIN lines |-> Append(lines[i], NL)]) \o <<NL>>

-----------------------------------------------------------------------------
(* The searches. *)

\* From behind position pos to the end of the line.
ValueAt(text, pos) ==
  SubSeq(text, pos + 1, SelectInSubSeq(text, pos + 1, Len(text), LAMBDA t : t = NL) - 1)

Trim(value) == SubSeq(value, 1, SelectLastInSeq(value, LAMBDA t : t # SP))

\* Mutant: the last occurrence of the key counts.
fill_up_field_last(text, key) ==
  LET pos == SelectLastInSeq(text, LAMBDA t : t = key)
  IN IF pos = 0 THEN <<>> ELSE Trim(ValueAt(text, pos))

fill_up_field(text, key) ==
  LET pos == SelectInSeq(text, LAMBDA t : t = key)
  IN IF pos = 0 THEN <<>> ELSE Trim(ValueAt(text, pos))

\* Mutant: one field is not asked for.
valid_request_two(text) ==
  \A key \in {AGENT, SIZE} : fill_up_field(text, key) # <<>>

valid_request(text) ==
  \A key \in {AGENT, SIZE, RAW} : fill_up_field(text, key) # <<>>

\* A name of several tokens is none of the known ones.
agent_selecter(value) ==
  IF Len(value) = 1 /\ value[1] \in DOMAIN agents THEN agents[value[1]] ELSE "Unknown"

\* Mutant: any line that begins like a known one.
get_agent_prefix(text) ==
  LET pos == SelectLastInSeq(text, LAMBDA t : t = AGENT)
  IN IF pos = 0 \/ ValueAt(text, pos) = <<>> THEN "Unknown"
     ELSE agent_selecter(SubSeq(ValueAt(text, pos), 1, 1))

\* The last occurrence, and no trimming.
get_agent(text) ==
  LET pos == SelectLastInSeq(text, LAMBDA t : t = AGENT)
  IN IF pos = 0 THEN "Unknown" ELSE agent_selecter(ValueAt(text, pos))

\* The handler of a type, the one for unknown agents where there is none.
eponymous_protocol(agent) ==
  IF agent \in DOMAIN protocols THEN protocols[agent] ELSE protocols["Unknown"]

-----------------------------------------------------------------------------
(* The peer and the handler. *)

PeerSendsLine ==
  /\ outcome = "none" /\ Len(lines) < MaxLines
  /\ \E l \in Lines : lines' = Append(lines, l)
  /\ UNCHANGED <<outcome, client>>

Leave(how) ==
  /\ outcome = "none"
  /\ outcome' = how
  /\ UNCHANGED lines

RefuseFormat ==
  /\ ~valid_request(message)
  /\ Leave("invalid_format")
  /\ UNCHANGED client

RefuseAgent ==
  /\ valid_request(message)
  /\ get_agent(message) = "Unknown"
  /\ Leave("invalid_agent")
  /\ UNCHANGED client

\* Mutant: the login is taken as it is.
parse_client_metadata_any ==
  client' = [login |-> fill_up_field(message, LOGIN),
             agent_type |-> eponymous_protocol(get_agent(message))]

\* The handler of the agent's type fills the client in, or throws without a login.
parse_client_metadata ==
  /\ fill_up_field(message, LOGIN) # <<>>
  /\ client' = [login |-> fill_up_field(message, LOGIN),
                agent_type |-> eponymous_protocol(get_agent(message))]

MetadataThrows ==
  /\ valid_request(message)
  /\ get_agent(message) # "Unknown"
  /\ fill_up_field(message, LOGIN) = <<>>
  /\ Leave("exception")
  /\ UNCHANGED client

\* rfind("auto"), anywhere in the text and in a word.
AsksForAuto == \E i \in DOMAIN message : message[i] \in AutoWords

Keep ==
  /\ valid_request(message)
  /\ get_agent(message) # "Unknown"
  /\ parse_client_metadata
  /\ Leave(IF AsksForAuto THEN "auto_approve" ELSE "wait")

Next == PeerSendsLine \/ RefuseFormat \/ RefuseAgent \/ MetadataThrows \/ Keep

Spec == Init /\ [][Next]_vars

-----------------------------------------------------------------------------
(* Properties. *)

\* Type invariant.
TypeOK ==
  /\ lines \in Seq(Lines) /\ Len(lines) <= MaxLines
  /\ outcome \in Outcomes
  /\ IF outcome \in {"auto_approve", "wait"}
       THEN client.login # <<>> /\ client.agent_type \in DOMAIN agents \ {"unknown"}
       ELSE client = [login |-> <<>>, agent_type |-> ""]

\* The reference for a field: of the first line in which the key occurs, what
\* stands between its first occurrence and the blanks at the line's end.
LineField(key) ==
  LET with == {i \in DOMAIN lines : \E j \in DOMAIN lines[i] : lines[i][j] = key}
      line == lines[Min(with)]
      key1 == Min({j \in DOMAIN line : line[j] = key})
      last == Max({0} \cup {j \in DOMAIN line : line[j] # SP})
  IN IF with = {} THEN <<>> ELSE SubSeq(line, key1 + 1, last)

\* fill_up_field, which searches the text, finds the fields of the lines: it
\* never takes a value across the end of a line, nor one that a later line has.
FieldsAreLines == \A key \in Keys : fill_up_field(message, key) = LineField(key)

\* The format of README.md (v0.8.0): an optional first line "auto", and lines
\* with a key and one word, no key twice.
Documented ==
  /\ \A i \in DOMAIN lines :
       \/ i = 1 /\ lines[i] = <<AUTO>>
       \/ /\ Len(lines[i]) = 2 /\ lines[i][1] \in Keys
          /\ lines[i][2] \notin Keys \cup {SP}
  /\ \A i, j \in DOMAIN lines : lines[i][1] = lines[j][1] => i = j

\* The word that a documented header has for a key.
Has(key)    == \E i \in DOMAIN lines : lines[i][1] = key
WordOf(key) == LET i == CHOOSE i \in DOMAIN lines : lines[i][1] = key IN lines[i][2]

Kept     == outcome \in {"auto_approve", "wait"}
Complete == Has(AGENT) /\ Has(SIZE) /\ Has(RAW)
Known    == WordOf(AGENT) \in DOMAIN agents \ {"unknown"}

\* A header in the documented format is refused for what it lacks and kept if it
\* lacks nothing, in whatever order its lines come.  Of the kept ones those that
\* begin with "auto" are approved, and those with no "auto" in any word wait.
DocumentedUnderstood ==
  Documented /\ outcome # "none" =>
    /\ outcome = "invalid_format" <=> ~Complete
    /\ outcome = "invalid_agent" <=> Complete /\ ~Known
    /\ Kept <=> Complete /\ Known /\ Has(LOGIN)
    /\ Kept /\ lines[1] = <<AUTO>> => outcome = "auto_approve"
    /\ outcome = "auto_approve" =>
         \E i \in DOMAIN lines : \E j \in DOMAIN lines[i] : lines[i][j] \in AutoWords

\* Whoever is kept is named what one line of the header says, although the two
\* searches for the agent differ in direction and in trimming, and the tables of
\* names and handlers are filled in separately: with one AGENT_TYPE they agree.
AgentsAgree ==
  Kept =>
    /\ \E i \in DOMAIN lines :
         \E j \in DOMAIN lines[i] :
           lines[i][j] = AGENT /\ SubSeq(lines[i], j + 1, Len(lines[i])) = <<client.agent_type>>
    /\ Cardinality({i \in DOMAIN message : message[i] = AGENT}) = 1
         => fill_up_field(message, AGENT) = <<client.agent_type>>

=============================================================================
