# KuroNet, verified

This directory holds TLA+ specifications of KuroNet, the TLC configurations that
model-check them, and theorems about them with proofs for TLAPS. Every definition is
translated from the source; `PROJECT.json` gives the lines each one stands for.

    tlc -workers 2 -config sessions.cfg MCClientSessionManager   # check a run
    tlapm ClientSessionManager_proofs.tla                        # check the proofs

Source paths below are relative to the repository.

## 1. Inventory

KuroNet is a TCP server library on Boost.Asio for a host who lets clients in one by
one. It has one `io_context` (`Session::ioc_`), run by one thread that the host's
program spawns; a thread that reads the host's commands (`CommandHandler::run`); and
whatever threads the program starts the chat from. State is shared through three
singletons (`Session`, `Logger`, `CommandHandler`) under several mutexes and two
atomic flags.

| component | state | operations | talks to |
|---|---|---|---|
| **ClientSessionManager** (`net/Session.*`, `net/Client.hpp`) | `clients_`, `wait_clients_` (maps from id to client, under `clients_mutex_`), `active_tokens_` (under `tokens_mtx_`) | `add_client`, `auto_approve_client`, `approve_client`, `remove_client`, `create_token`, `access_clients`, `access_wait_clients` with its purge | called by the header handler, the commands and the chat; owns the sockets |
| **TCPServer** (`net/TCPServer.*`) | the acceptor; through `io_context` the outstanding accept and header reads | `start`, `do_accept` and its handler, `on_client_connected` and its handler, `stop` | hands clients to the session manager |
| **Agents** (`net/core/ClientPolicyRegistry.*`, `net/Dispatcher/`) | two tables filled in once: agent names, handlers by type | `get_agent`, `agent_selecter`, `eponymous_protocol`, `valid_request`, `fill_up_field`, `parse_client_metadata` | called by the header handler; throws |
| **Chat** (`net/Chat/Chat.*`) | the atomic `started`; through `io_context` the reads and the timer's handler | `start`, `stop`, `work`, `do_read` and its handler, `do_send` | reads `clients_` under the lock, removes clients |
| **Logger** (`core/logger.*`) | `stop_flag_`, `log_when_stopped_`, `log_mutex_`, the level | `log`, `stop`, `_continue`, `set_level` | every thread logs; the command loop stops and continues it |
| **CommandHandler** (`core/CommandHandler.*`) | `executors`, `command_parts`, the terminal's modes, the state of `std::cin` | `run`, `command_partition`, `executor_valid`, `set_nonblocking`, `exit` | runs commands, stops the logger |
| **Commands** (`core/commands/`) | the words of the last command | `token create`, `client approve`, `client waits`, `client list`, helps | the session manager, TokenHandler |
| **TokenHandler, IDGenerator** (`core/UniqueUtils.*`) | `token_time`, a random engine per call | `set_time_token`, `generate` | tokens and ids for the others |
| **SystemConfig** (`core/System/SystemConfig.hpp`) | `conf_file_exist_`, the path; on disk `config.json` and its template | `get_parameter_value_str` (and `_int`): find or make the file, read it | used by the host's program |
| **ChatRoom** (`net/Chat/ChatRoom.hpp`) | none: the file is commented out | | |
| examples, tests | | start order of the threads | |

A connection's life: the acceptor takes it, `on_client_connected` reads a header, and the
handler refuses it (two ways), throws on it, approves it (`auto`) or queues it. A queued
client waits until the host approves it against a token, or until `client waits` finds it
dead. An accepted client is read by the chat, which is the only code that notices that it
has left.

### What is hard here

* **Exceptions.** Nothing catches what a handler throws out of `ioc_.run()` or a command
  out of `CommandHandler::run`. Every synchronous write and `parse_client_metadata` may end
  the process half-way through an operation.
* **Two critical sections.** `approve_client` checks the token under one mutex and moves
  the client under another.
* **Maps and ids.** `emplace` and `insert` do nothing when the id is taken, and the client
  (with its socket) is then dropped. Ids are random and unchecked: the engine of
  `IDGenerator` is seeded with one `unsigned int`, so there are 2^32 of them at most.
* **Removal by name.** A failed read removes whoever has the id under which it was posted,
  and a failed write whoever has the receiver's login for an id.
* **The accept loop** re-arms itself on every path, errors included, on open and closed
  acceptors, with and without descriptors.
* **Thread order.** The io thread may reach `run()` before `start()`.
* **The logger's flag** is read outside its mutex, and `_continue` drains the history
  without it.
* **The chat's loop** has a timer that is aborted at once, posts a read per client on every
  round although the last one is still waiting, and is started and stopped by a flag that is
  read and stored in two steps.
* **One io thread for all.** Accepts, header reads, chat reads and the chat's loop share one
  queue; a loop that never rests and accepts that fail for ever must leave the others
  their turn. A removal by the chat changes what the manager and the acceptor see.
* **Two readers of one terminal.** `run` reads bytes from the raw terminal, `getline` lines
  through the buffer of stdin; keys typed ahead are split between them.
* **A file and a flag.** Threads, crashes and the host's editor meet between the check for
  `config.json`, the copy of the template and the read.
* **Text search.** Header fields are found as substrings of the whole text, by functions
  that differ in direction and trimming.

`PROJECT.json` lists these hazards line by line with the properties that cover them.

### What makes each component correct

* Session manager: every open socket has one owner; nobody is accepted past the gate;
  nobody is answered twice; members who left are removed, and nobody else.
* TCPServer: one accept outstanding; one handler per connection; a failed accept is tried
  again; error handlers do not pile up; the intake ends after `stop()`.
* Agents: what the searches find is what the lines say; the documented format is understood.
* Chat: the loop lives while started and comes to rest after `stop()`; no piece of a line
  is relayed twice; nobody is removed before leaving; who has left is removed.
* Logger: nothing is printed twice, answers stay in order, and what may destroy a line is
  known; the prompt stays quiet.
* Console: a line is taken once, in order, as it was typed; a temporary token lives as long
  as its own command says.
* SystemConfig: the host's file is never destroyed; the config is made when it is missing.
* The whole server: acceptor, manager and chat agree on every connection; every header is
  handled; descriptors come back.

## 2. The modules

| module | models | its actions |
|---|---|---|
| `Admission` | the promise: who is on the server, no ids, sockets, locks or threads | arrive, depart, enqueue, issue, admit (on request, with a token), turn away, leave, shutdown |
| `ClientSessionManager` | the session manager with the header handler, the commands and the chat's removals | one per way out of the header handler; `create_token`; `approve_client` in two steps (`ApproveCheckToken`, then `ApproveNotFound` or `approve_client`); `get_wait_clients`; `ChatReadError`, `ChatWriteError`; `Exit` |
| `TCPServer` | acceptor, `io_context` queue, io thread | `start`, `stop`, `RunBegins`, `RunReturns`, one per handler, and the kernel's and reactor's steps |
| `Logger` | `log`, `stop`, `_continue` under workers and the command loop | `LogReadsFlag`, `LogPrints`, `LogStores`; `Continue`, `Drain`, `DrainLine`, `DrainClears`, `DrainCrashes`; the loop's `NoKey`, `Key`, `CommandLogs`, `CommandEnds`, `Exit` |
| `Chat` | `start`, `stop`, `work`, `do_read`, `do_send` | the flag's loads and stores, `work`'s flag test and critical section, the timer's handler, the read's handler in three cases, the end and the failure of a write |
| `Handshake` | the searches over a header's text and the way out of the handler they choose | the peer sends a line; the five ways out |
| `KuroNet` | the whole server: the three modules before on one io thread, as `chat_example.cpp` puts them together | each a step of all components that take part in it |
| `CommandHandler` | the console's loop, the terminal, the dispatch of a command, tokens with lifetimes | the host's keys; `Poll`, `Fill`, `GetLine`, `GetNoLine` |
| `SystemConfig` | the config file, its template, the flag and the calling threads, with crashes | one per access to the files or the flag; the host's edits; `Restart` |

`MC<module>` gives the constants of a module their values for TLC (`SystemConfig` needs
none). `<module>_proofs` holds its theorems; that of `ClientSessionManager` also the proof
that it implements `Admission`.

How they compose. `KuroNet` instantiates `TCPServer`, `ClientSessionManager` and `Chat` over
shared variables: the queue `ready` of the `io_context`, the connections, the accepted
clients. A handler is the conjunction of the components' actions for it: the header's
handler is `Server!HandleRead` with `Sessions!HandleHeader`, a failed chat read is
`Talk!HandleReadError` with `Sessions!remove_client` and the release of the descriptor.
What one component left open is decided by the other: kept or closed (`HandleRead`), who
joins and who leaves (`Join` and the removal of `Chat`), when a read or a write fails
(`OperationFails`). The chat's view of the accepted clients and the manager's view of the
sockets are expressions over the shared variables (`Members`, `Socket`).

`ClientSessionManager` instantiates `Admission` (`Gate`) with a
refinement mapping: `waiting` is the set of sockets in `wait_clients_`, `members` the
pairs of socket and token in `clients_`, `pending` the outstanding header reads. What a
header read leads to is one nondeterministic step in `TCPServer`, the record `Request` in
`ClientSessionManager`, and text in `Handshake`.

### State and granularity

* **Session manager.** Each operation holds `clients_mutex_` from its first to its last
  access, and what a handler does before it takes the lock concerns only its own socket, so
  a handler is one action. `approve_client` is two. An exception that leaves a thread ends
  the process (`Halt`): maps gone, sockets closed. A write throws only after its peer has
  closed. A failed read removes whoever has the id that its client had (`ChatReadError`), a
  failed write whoever has some login for an id (`ChatWriteError`): there is no test that
  the one removed is the one that left. The peers, their unread bytes (`inbox`, for the probe of
  `is_client_really_dead`) and the replies (`told`) are the environment.
* **TCPServer.** `ready` is the queue of completed operations; `run()` calls their
  handlers in order and returns for good when nothing is outstanding. A failed accept has
  the socket `NoConn`. `Release` is the session manager closing
  connections that it kept, one (`remove_client`) or several (`access_wait_clients`).
* **Logger.** A `push_back` that overlaps with the drain is a data race. The model has its
  outcomes: the line lies behind the end that `for_each` took, and `clear()` destroys it;
  or the buffer moves, the drain goes on over what is left of the old one and prints
  nothing of the lines that it had still to print, and `clear()` destroys those, too; or the
  process crashes (`DrainCrashes`). `lost` has the lines that were destroyed unprinted. Levels
  are left out: `set_level` is called before the threads start.
* **Chat.** A line is two pieces, the second with the newline, so a read may end inside
  one. All reads of a client share a socket, the oldest takes the bytes, and each has a
  buffer of its own. The aborted wait of the timer goes to the end of the queue at once.
  A connection has an id and a login (`Id`, `Login`); two may have the same id, one after the
  other, and a login may be an id. A relayed line starts a write to every other client; of
  writes only their number counts, for their handlers do nothing unless they fail, and then
  remove by login (Chat.cpp:45). The end of a write and its handler are one step, between
  any two other handlers.
* **Handshake.** The text is a sequence of tokens (the four keys, words, a blank, the end
  of a line); keys, words and blanks are what the searches tell apart, and of a word whether
  `auto` is in it (`AutoWords`, of which `auto` is one and `autobot` another). A line may
  be empty: only `\r\n\r\n` ends a header, so `\n\n` may stand inside it. The
  handlers' size and raw-TCP policies are left out, because nothing reads them.
* **KuroNet.** Connections are numbered in the order in which they reach the kernel, ids do
  not collide, no login is an id (so that a failed write finds nobody to remove), and a peer
  writes nothing between its header and its approval (the modules on their own let all that
  happen). `run()` returns only if the chat, too, has
  nothing outstanding. The end of the process ends every component (`Ends`).
* **CommandHandler.** A key is `!` or a whole line with its newline. The terminal is the
  queue `tty`; when it leaves raw mode, what waits in it is one piece for the next read
  (`pushed`), and `getline` keeps what it did not use in `stdin`. A byte in raw mode that
  is not `!` is dropped, so a line typed without `!` is dropped as a whole. `-temp` tokens
  carry what was asked for, when, and the stamp the code computes in an `int` up to `MaxInt`
  (overflow wraps). A blank line reads `command_parts[0]` of an empty vector: a fault,
  or, if there ever was a part, its remains.
* **SystemConfig.** A file's content is its kind: absent, empty, default, edited, broken.
  `fs::copy` is two steps, because it creates the file exclusively and then writes it; a
  crash may come between. A host's edit replaces the file, so a copy under way writes to a
  file without a name. Which parameter is looked up changes no state.

## 3. The runs

States are distinct states; every run ends within three minutes on two cores.

| run | instance | shows |
|---|---|---|
| `sessions` | 3 connections, 2 ids that may collide and be logins, 2 tokens, 5 headers; 431,512 states | `OneOwner`, `AdmissionGate`, `OneReply`, and `ImplementsAdmission`, whatever names collide |
| `kuronet` | 2 connections with names of their own, 2 descriptors, 4 headers, 1 token, 1 host thread, no stop of the server; 259,353 states | `OneView`, and `ImplementsAdmission`, in which nobody is removed whose peer is there |
| `kuronet_live` | 2 connections, 1 descriptor, 3 headers, a stop at any time, silent members, fair; 81,217 states | `HeadersAreHandled`, `DisconnectedMembersLeave`, `DescriptorsComeBack` |
| `server` | 4 connections, 3 descriptors, run first, stop at any time, fair; 9,557 states | `OneAccept`, `HandlerForEach`, `IntakeEnds`, `QueuedAreTaken` |
| `logger` | 2 workers and the console, 2 lines each, fair; 330,515 states | `PrintedOnce`, `AnswersSurvive`, `QuietPrompt`, `HistoryIsDrained` |
| `chat` | 3 clients, of which the first sends a line, the second has the first's id as its login and the third comes by that id, 1 host thread, 2 starts, fair; 238,796 states | `LoopAlive`, `LoopsBounded`, `PiecesOnce`, `OnlyLeaversRemoved`, `StopEnds`, `ClientsAreHeard`, `LeaversGo` |
| `handshake` | every header of up to 5 lines out of 14; 1,158,390 states | `FieldsAreLines`, `DocumentedUnderstood`, `AgentsAgree` |
| `console` | 3 times `!`, 3 lines out of 7, an end of file, 2 uptimes, an `int` of 20 bits, fair; 587,308 states | `CommandsInOrder`, `StampsAreOwn`, `CommandsAreTaken` |
| `config` | 3 threads, the host, restarts, fair; 15,536 states | `FilesSurvive`, `ConfigIsMade` |
| `v_purged_alive` | 1 connection | violated: `OnlyDeadArePurged` |
| `v_start_race` | 2 connections, run first, no stop, fair | violated: `StartedServes` |
| `v_history_lost` | 1 worker, 1 line | violated: `HistoryIsSaved` |

Each passing run also checks `TypeOK`, but for `kuronet_live`, whose states are of the same
kind as those of `kuronet`. For every property of a passing run `PROJECT.json` names a
mutant, an operator beside the one it changes ("Mutant: ..." in the modules), that makes TLC
find the property violated.

### The bounds, and why they are enough

* `Conns`, `Ids`, `Tokens` (sessions): two ids for three connections make a collision in
  each map, and between the maps, with a third connection left to interfere; two tokens
  tell "a token of the host" from "any token". Connections are used once, a new visit is a
  new one. `sessions` takes symmetric sets (it has no liveness property). `FreshIds` is
  FALSE in `sessions`, where ids may collide, and every id is a login there; it is TRUE in
  `KuroNet`, where no login is an id: there `Admission` promises more, and its
  components can agree on who a client is (section 6 says what a collision does).
* `Conns`, `Files`, `MaxReads`, `MaxStarts` (kuronet): two connections meet in every pair
  of places (queue, header read, waiting, accepted, removed), one read each makes the
  chat's reads fail and be relayed to the other, one start suffices for what the
  components share (what two loops do is in `chat`). `kuronet_live` has one descriptor,
  so that the second connection waits for what the first leaves behind, and the silent
  members of its instance leave the reads only the end of file.
* `Files` (server): three descriptors for four connections, so that accepts fail for want
  of one and succeed again. `RunsFirst` is TRUE: it allows both orders of `run()` and
  `start()`. `MayStop` lets the host call `stop()` at any time.
* `MaxLines` (logger): with two lines per thread a line may be stored behind another, and a
  worker that was late once may be early the next time. After its last line a worker is
  silent, so the drain of what it left is checked, too.
* `Id`, `Login` (chat): one id comes up twice, so that a read that the removal of the first
  client aborted meets the third, who has the id by then; and a login is that id, so that a
  failed write does, too.
* `MaxLines`, `MaxReads`, `MaxStarts` (chat): a line in two pieces and a read that waits make
  reads that end inside the line, with another posted behind them. A read beyond `MaxReads`
  is forgotten (in the code it waits behind the others; as all are alike and the oldest takes
  the bytes, it adds further ways to spread pieces, not new kinds). This under-approximates
  how many reads drain after a stop. Two starts make two loops, under one host thread
  that calls `stop` and `start` at any time. Lines behind others in a buffer, longer queues of
  reads and threads that race for the flag are left to the theorems of `Chat_proofs`,
  which are for any number of each.
* `MaxLines`, `AutoWords` (handshake): the four fields and `auto` fit in five lines, in any order,
  with a login that has `auto` in it, with
  keys repeated, without values, with blanks, inside another line's value, and with empty
  lines between them.
* `MaxBangs`, `MaxLines`, `MaxInt`, `Uptimes`, `MaxTime` (console): three prompts and three
  lines typed at any time give keys ahead of the prompt, ahead of a line and glued to one.
  In an `int` of 20 bits six days fit and seven do not, and from the second uptime on six days from now
  do not fit either: one overflow of the product and one of the stamp, as 32 bits have
  them at 24,856 days and after some decades.
* `Threads` (config): with three, two may copy while a third deems the file made.

Deadlock is checked in `config` only, because the other systems may stop: the process ends,
`run()` returns, peers fall silent, the handler leaves once.

### Fairness

Peers and the host are never fair. The io thread is weakly fair: `run()` calls what is in
its queue, in order; the reactor reports what it waits for (`AcceptCompletes`,
`HeaderCompletes`, `ReadSome`, `ReadsEnd`); the end of a write to who is gone is strongly
fair (`Chat!FairSpec`), because its handler is in the same queue, and is reached behind the
others although the io thread is in the middle of `work` again and again; a thread that is
inside a function goes on (`_continue`, `log`, `start`, `stop`, `approve_client`, the
console's `run`, `get_parameter_value_str`), because the system schedules every thread and
no lock here is held across a wait. What a property assumes beyond that, it states:

* `HistoryIsDrained` that the console comes round (`[]<>(console = "continue")`): a host may
  sit at the prompt for ever.
* `QueuedAreTaken` that descriptors stay free and `run()` has not returned.
* `ClientsAreHeard`, `LeaversGo`, `DisconnectedMembersLeave` that the chat stays started (and
  `run()` has not returned).
* `DescriptorsComeBack` also that the host lists the queue again and again
  (`SF_vars(get_wait_clients)`, as nothing else notices a waiting client that has left),
  and that the descriptors are not for good in the hands of peers that stay.
* `CommandsAreTaken` that the host types a line only behind a `!` and a `!` only when the last
  line is taken, without an end of file (`orderly`).
* `ConfigIsMade` that the host and the crashes leave the files alone from some time on, and
  that the template is there. `Call` is fair in `SystemConfig`: somebody keeps asking.

## 4. What is proved

For every value of the constants that satisfies the `ASSUME`s of the modules (named there;
all are about model values being distinct, bounds being numbers, the threads that log
being finitely many, and a header's lines being sequences of words without a line end):

| theorem | says |
|---|---|
| `ClientSessionManager_proofs!SessionInvariant`, `TypeCorrect`, `SocketsOwnedOnce`, `AdmissionIsGated`, `RepliesOnce` | `Spec => []SessionInv`, and of it `TypeOK`, `OneOwner`, `AdmissionGate`, `OneReply` |
| `ClientSessionManager_proofs!Implementation` | `Spec => Gate!Spec`: the session manager implements `Admission`, for all ids and logins; only after somebody has left is anybody removed, and where ids are not given twice and no login is an id, only who has left |
| `ClientSessionManager_proofs!AdmissionInvariant`, `PromisesKept` | `TypeOK`, `OnePlace` and `CredentialsIssued` of `Admission`, and that the session manager keeps the last two |
| `TCPServer_proofs!ServerTypes`, `AcceptIsArmedOnce`, `HandlersMatch`, `StopEndsIntake` | `TypeOK`, `OneAccept`, `HandlerForEach` and `IntakeEnds`, for any number of connections and descriptors |
| `Chat_proofs!ChatTypes`, `ChatInvariant`, `LoopNeverDies`, `LoopsAreFew`, `MembersStay`, `OwnNamesRemove`, `RelayedOnce`, `RelaysWholeLines`, `StopsForGood` | `TypeOK`, `LoopAlive`, `LoopsBounded`, `OnlyLeaversRemoved`, `PiecesOnce`, `WholeLines` and `StopEnds`, for any number of host threads, clients, reads and lines and all ids and logins; `RemovesTheDisconnected` where a name stands for one client (`OwnNames`) |
| `CommandHandler_proofs!ConsoleTypes`, `LinesInOrder`, `StampsAreRight` | `TypeOK`, `CommandsInOrder` and `StampsAreOwn`, for any width of `int`, any lines and as many keys as you like |
| `Logger_proofs!LoggerTypes`, `LinesPrintedOnce`, `PromptIsQuiet`, `AnswersStay` | `TypeOK`, `PrintedOnce`, `QuietPrompt` and `AnswersSurvive`, for any finite set of threads that log |
| `SystemConfig_proofs!ConfigTypes`, `FilesAreKept` | `TypeOK` and `FilesSurvive`, for any set of threads |
| `Handshake_proofs!HandshakeTypes`, `FieldsStayInLines`, `DocumentsAreUnderstood`, `SearchesAgree` | `TypeOK`, `FieldsAreLines`, `DocumentedUnderstood` and `AgentsAgree`, for headers of any number of lines of any words, with `auto` in any of them |
| `KuroNet_proofs!KuroTypes`, `ComponentsAgree` | `TypeOK` and `OneView` of the whole server, for any number of connections, descriptors, host threads and lines |
| `KuroNet_proofs!RunsTheManager`, `ServerAdmits`, `ServerImplementsAdmission` | `Spec => Sessions!Spec`: the server runs the session manager as its module has it; so `AdmissionGate` and `OneReply` hold in the server, and `ImplementsAdmission` |
| `KuroNet_proofs!RunsTheAcceptor`, `ServerAccepts` | as long as the process runs, the server's steps are the acceptor's or stutters for it, over the queue without the chat's handlers; so `OneAccept`, `HandlerForEach` and the promise of `IntakeEnds` hold in the server |
| `KuroNet_proofs!RunsTheChat`, `ServerChats` | the same of the chat, over the queue without the acceptor's handlers; so `LoopAlive`, `LoopsBounded`, `PiecesOnce`, `WholeLines` and the promises of `RemovesTheDisconnected` and `StopEnds` hold in the server, whose clients have names of their own |

**SessionInv** = `TypeOK /\ OneOwner /\ AdmissionGate /\ OneReply /\ QueueGate`.
`AdmissionGate` alone is not inductive: `approve_client` accepts whoever waits under the
token it checked earlier, so one has to know that whoever waits has sent a well-formed
header without `auto`, and that the checked token is still the host's; that is `QueueGate`.
`OneReply` needs `OneOwner`: a second reply would go to a connection that is owned twice.
The proof has one lemma for each shape of step (a client enters a map, leaves one, moves
between them, a socket is dropped, the process ends), which the actions cite.

**Implementation** uses `SessionInv` for every step: the mapping takes sockets out of maps,
so that removing an id removes exactly one socket only because maps are `Injective`
(`OneOwner`). Steps that only change the command thread or the peers' input map to
stutters; `Halt` maps to `Shutdown`; a refusal, a purge and a client dropped for a taken
id map to `TurnAway`. For the removals it takes `NameInv`: a socket that is closed under the
reads and writes of its client means that somebody has left before, and, if ids are never
given twice (`FreshNames`), whoever is under the name of a closed connection is that
connection, which its peer has left.

**OneAccept** is inductive with the type invariant. Its point is the queue: of the
handlers in `ready`, at most one is an accept's, through appends of failed accepts and
tails.

**HandlerForEach** and **IntakeEnds** add an invariant of the queue, `QueueInv`: no handler
is in it twice, the read of a failed accept runs before the next accept's handler (so that
two of them never wait), and the handlers of a connection are those that its step waits
for. With at most one accept's handler queued, at most one connection is left to be read
when the server stops.

**ChatInv** = `TypeOK /\ LoopAlive /\ ErrorsMeanGone`. `LoopAlive` rests on where the
threads are: a stored flag is followed by a call of `work`, and a handler that finds the
flag down drops its loop only while the chat is stopped. `OnlyLeaversRemoved` needs
`ErrorsMeanGone`: a removal follows a failed read or write, and one fails only for who is
gone (`Gone`), at the end of file or by the close that an earlier removal made. From there to
`RemovesTheDisconnected` it takes that a name stands for one client: then whoever was removed
before is not among the clients, and its name is nobody else's.

**LoopsBounded** counts: the loop's handlers in the queue, the handler that is about to queue
one, and the threads between their test of the flag and their call of `work`. Each step
moves one of these to another place, drops it, or makes one together with `starts`.

**PiecesOnce** takes `PieceInv`. A piece is at a place: at the peer, in the buffer of a read
that waits, in the buffer of a handler in the queue, or in a relayed line. What waits in a
socket is the end of what was sent (`StreamInv`, with `Base` the number of pieces read), so
that a read brings pieces that are in no place yet; and `InOnePlace` says that every other
piece is in one at most. The steps that read nothing only move buffers, from a place that
the step empties to one that it makes: one lemma (`Moves`) says so for every step, whatever
it appends to the queue, fails, or forgets.

**WholeLines** adds `LineInv` for the connections of which no read ended inside a line. Their
waiting reads are all empty, a buffer in the queue is a run of whole lines that lies behind
what was relayed, and the relayed lines are pairs of pieces in rising order. A read takes
what lies behind all of them; a read that ends inside a line puts its connection into `cut`.

**StopEnds** counts, for each connection, the reads that wait, the completed reads whose
handlers have not run, and the lines relayed (`Left`). Only `work` posts reads, and with no
loop left and no thread about to begin one nobody is in it; every other step passes a read
on from one of the three to the next, or drops it (`NothingNew`).

**LoggerInv** places the drain: while it prints, the position that it has reached lies within
the history, whose lines before that position, and no others, are on the screen. A worker
may append meanwhile; its line is new (`Fresh`: a line under way is in neither place), so it
lies behind the drain. `QuietPrompt` needs the workers that have read the lowered flag but
not printed yet to be counted with the lines that were late: each of them is late once.

**AnswersSurvive** has two parts. `AnswersInOrder` takes `AnswerInv`, which says of the
screen and of the part of the history that may still be printed (`Unprinted`) what the
property says of the two in one sequence: each number of the console that is not lost is in
one of them, they rise in both, and those on the screen are below those that wait.
`AnswersLostByMoves` says what may be lost: the console itself runs the drain, so what was
stored behind the end that the drain took is a worker's, and `clear()` destroys answers only
if a `push_back` has moved the buffer before, at which step they count as lost.

**CommandsInOrder** has two parts. For the order of lines, `LinesRise` says that the numbers
rise within each of the three queues a line passes (terminal, buffer of stdin, taken) and
from each queue to the one before it; every move takes a prefix. For the orderly host,
`Phases` says that there are three: nothing under way, a `!` under way, and a `!` with its
line, which sits in exactly one of three places. `StampsAreOwn` is inductive with the types;
its core is that the conversion to `int` keeps numbers that fit (`ToIntFits`).

**FilesSurvive** rests on the last conjunct of `SystemConfig!TypeOK`: the file of a writer is
the empty one it created. It takes an editor that replaces the file, as most do: one that
wrote into the half-made copy would lose its text to the copy.

**FieldsStayInLines** compares searches over one text with what its lines say, for every
header. Its core is where the lines are in the text: `Layout` gives every line an offset, says
that the next line lies behind its end, and that every token that is no line end is one of a
line. The text is made by flattening, which is recursive, so that `TextHasLayout` takes
induction on the number of lines; it is had from the library's fact that `<` on the naturals is
well-founded, applied to a set of numbers (`Least`, `Induction`) and not to a predicate. From
the layout follows what a search finds (`FieldIsLineField`): the first occurrence of a key
lies in the first line that holds the key, and the next line end behind it is that line's.
The invariant itself (`HandshakeInv`) says of each way out of the handler what the header is
(`Exits`); `DocumentsAreUnderstood` then evaluates the searches on the documented format, and
`SearchesAgree` relates the search from the front to the one from the back, which find the
same line if there is one `AGENT_TYPE` only.

**KuroInv** is the invariant of the whole server: `SessionInv` and `NameInv` of the manager,
that its ids are apart (`FreshIdsApart`: no id is in both maps), the types, and `Views`. It
names the manager by an instance over the server's own variables (`Manager`, with `Members`
and `Socket` written out), so that the manager's lemmas are cited and not proved again;
every action of the server that touches the maps is shown to be one of the manager's, the
others stutter for it, and that is `RunsTheManager`. The queue is one of sound handlers: a
handler of the chat is for a client that was approved, and has failed only if its peer has
left. `Views` says what the views share: a client's id names its connection, only
connections whose peer arrived are read or kept, only accepted clients have reads, and who
was approved is accepted until its peer has closed. `OneView` follows from these.

**RunsTheAcceptor** and **RunsTheChat** are about the one queue that two components share. To
each the server shows a queue of its own: `Only(ready, S)`, the handlers in `S` in their
order. It is a recursive function, and what it does (`OnlyAppend`, `OnlyTail`, `OnlyConcat`:
queueing, running and failing handlers, seen through it) takes induction on the queue
(`QueueInduction`, had like the induction above from well-foundedness, over a set of queues).
Since a handler is either the acceptor's or the chat's (`Kinds`), running or queueing one
leaves the other's part as it is (`PartsStay`), and the first in the queue, if it is one's
own, is the first of one's part (`OnlyRuns`): that FIFO order survives the merge is what the
components need of the `io_context`. An approval, by the host or by a header, is the chat's
`Join`; it takes the manager's invariants that whoever waits or is read has been told
nothing (`Pending`) and that the id is free (`FreshIdsApart`). A refused or an arriving peer is
nothing to the chat. As the end of the process is no step of the components, both say what
they say of the steps after which the process still runs, and the components' inductive
invariants are carried along under `Running` (`AcceptorInv`, `TalkerInv`).

`ErrorsMeanGone`, `QueueGate`, `OnePlace` and `CredentialsIssued` are proved as parts of these
invariants and are not checked by a run; neither are `WholeLines` and
`RemovesTheDisconnected` (where a name stands for one client), which are theorems.

Model-checked only: the liveness properties (`HeadersAreHandled`,
`DisconnectedMembersLeave`, `DescriptorsComeBack`, `QueuedAreTaken`, `HistoryIsDrained`,
`ClientsAreHeard`, `LeaversGo`, `CommandsAreTaken`, `ConfigIsMade`), as fairness and
`ENABLED` are out of the prover's reach. `ServerAccepts` and `ServerChats` are proved and
not checked by a run of `KuroNet`; the runs `server` and `chat` check the same of the
components alone.

## 5. Where the code and its texts part

The three violated runs each check what a text of the repository says.

1. `v_purged_alive`: `is_client_really_dead` returns true when its probe reads a byte, so
   `client waits` throws out a connected client that has written after its header
   (Session.hpp:58; :90 calls it dead).
2. `v_start_race`: all three server examples spawn the io thread before `start()`. If
   `run()` is reached first it returns for good, and the server that was announced as
   started is deaf (tcp_server_example.cpp:12).
3. `v_history_lost`: a line stored while `_continue` drains without the mutex is destroyed
   unprinted, or the drain's iterators dangle (logger.cpp:67; CommandHandler.hpp:79 says
   the history is saved, thread safe).

## 6. Seen while modelling, without a run of its own

* A header without LOGIN makes `parse_client_metadata` throw out of `ioc_.run()`, and the
  process ends with every client on it (TCPServer.cpp:67, KuroNetClient.hpp:73); so may the
  writes of TCPServer.cpp:57, :62 and Session.cpp:84. TCPServer.hpp:25 says that the server
  logs and shuts down softly: it does not. In the models this is `HeaderWithoutLogin` and
  `Halt`; `DocumentedUnderstood` only says which headers have that end, not that they should.
* `stop()` closes the acceptor and nothing else (TCPServer.cpp:83), although TCPServer.hpp:66
  says that it closes the sockets: clients that wait or are accepted keep theirs, headers
  under way are still read and handled, and a connection that the kernel had accepted still
  comes to its header. `IntakeEnds` says how little comes in after that, not that it should.
* After `stop()` the accept handler re-arms on a closed acceptor for ever and `run()` never
  returns (TCPServer.cpp:23). `HeadersAreHandled` shows that the spinning leaves the
  headers of earlier connections their turn.
* Commands that are typed ahead are lost or answered later: a line without `!` is dropped
  by the polling loop, a `!` typed before the last line is taken becomes the first byte of
  a command, and a line that waits in the buffer of stdin is taken at the next prompt,
  before the one typed there (CommandHandler.cpp:64-69). `CommandsInOrder` is what holds.
* After an end of file at the prompt every command is refused, `exit` included: nobody
  clears the state of `std::cin` (CommandHandler.cpp:69).
* A crash in the middle of the copy leaves an empty or partial `config.json`, which every
  later process takes for the config and fails to parse (SystemConfig.hpp:41, :46). Two
  threads that both find no file both copy, and the second throws. A config that is
  deleted is made again only by another process (`conf_file_exist_` is cached, :64).
  `ConfigIsMade` names these cases. `conf_path_` is assigned by every such thread while
  others read it (:44), a data race on equal strings.
* `exit(0)` runs the destructor of the static `Session` while the io thread is in its
  `io_context` (CommandHandler.cpp:72).
* The probe sets a waiting socket non-blocking and leaves it so (Session.hpp:51): a later
  write of the approval could throw for a full buffer, too. It is a few bytes long.
* Ids may collide (2^32 seeds, and nothing compares a new id with those in use): a client is
  then told that it is approved and dropped with its socket (Session.cpp:76, :84-85). `KuroNet`
  and `OneView` therefore assume fresh ids; `ClientSessionManager` on its own does not.
* Removing a client aborts its other reads, and each of them calls `remove_client` again with
  the id that it was posted under (Chat.cpp:18): whoever has come by that id since is removed,
  although its peer is there. A failed write passes the receiver's login where the id is
  wanted (Chat.cpp:45): it removes nobody, or whoever has that login for an id. Session.hpp:23
  speaks of the removal of who has disconnected. `Admission!Leave` therefore promises only
  where names are a client's own (`OwnNames`) that who is removed has left; elsewhere, that
  somebody has left before.
* `Session.hpp:67-68` says that automatic approval hands out a session token and that a
  session token ends; `auto_approve_client` hands out none, and `active_tokens_` only grows.
  `AdmissionGate` and `Admission!AdmitOnRequest` leave open what token such a member has.
* `Session.hpp:23` says that disconnected clients are removed; a waiting one stays until
  `client waits`.
* A worker's `push_back` may move the buffer of the history under the drain
  (logger.cpp:49, :63-67): answers to commands that were not printed yet are then destroyed, or
  the process crashes, against CommandHandler.hpp:79. `AnswersSurvive` says that nothing else
  destroys them; `HistoryIsSaved`, which asks for more, is violated in `v_history_lost`.
* `approve_client` uses `wait_client_iter->second` after the node was extracted
  (Session.cpp:74): formally undefined, in practice the node handle still owns the element.
* `README.md:88` has `auto` at the beginning of a request; the code takes it anywhere, also
  inside a word: a client with the login `autobot` approves itself (TCPServer.cpp:70). In
  `Handshake` that is `AutoWords`; `DocumentedUnderstood` says when a header is approved, and
  that none is without `auto` in one of its words.
* `README.md:74` speaks of policies per agent; nothing reads them.
* `Chat.hpp:39` says that only clients accepted by the host are read; those that approved
  themselves are, too.
* The chat loses what follows a line in a buffer and spreads a line over reads
  (`WholeLines` is proved only for connections not in `cut`); `stop` and `start` in quick
  succession leave two loops (`LoopsBounded` is the bound that does hold).
* A chat that is destroyed leaves handlers with a dangling `this` (Chat.hpp:35).
* A command of blanks only reads `command_parts[0]` of an empty vector
  (CommandHandler.cpp:46). `value * 60 * 60 * 24` and the expiry stamp overflow `int`
  (UniqueUtils.cpp:39, :58), and the stamp counts from the boot of the machine
  (`steady_clock`), although `README.md:115` speaks of UTC. Nothing reads it.

## 7. Not modelled

* **ChatRoom**: commented out. **Build files, logger's example and test**: set-up.
* **Which parameter** `get_parameter_value_str` looks up, and `get_parameter_value_int`: they
  change no state, and a missing one throws as a file without JSON does.
* **The list commands and helps** of the console: they change no state.
* **The random characters and the hash** of tokens and ids: any member of a set.
* **Moments after the end**: what the destructors of statics do while a thread is still
  inside `run()`, or a destroyed chat's handlers, is undefined behaviour by the shape of
  the code, and has no states to explore.
* **Bytes of writes** and their overlap on one socket; **log levels**; all wording.

## 8. Plan

Done, in this order: `Admission`, `ClientSessionManager` with its refinement, `TCPServer`,
`Logger`, `Chat`, `Handshake`, `KuroNet`, `CommandHandler`, `SystemConfig`.

Proved: every safety property, invariant or action property, that a run expects to hold: of
the session manager and its refinement, the acceptor, the header's searches, the console,
the config file, the logger and the chat; and of the whole server, that its components
agree, that it is a behaviour of its session manager, and as long as the process runs one of
its acceptor and of its chat.

Next: the bytes of the chat's writes (two that are under way on one socket may be interleaved),
and the theorems above for that.
