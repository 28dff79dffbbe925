# A verification project for AgentConsole

AgentConsole lets people drive coding agents on many machines from a browser.
A Go **gateway** keeps one WebSocket per machine and one per browser console; a
Go **client** runs on each machine, supervises agent processes (`codex
app-server`) and speaks JSON-RPC with them over pipes; the React **console**
shows threads, turns and approvals. This directory holds TLA+ modules that model
the parts where concurrency and failure decide whether the system is right, the
TLC configurations that check them, and proofs checked by TLAPS.

Source paths are relative to the repository root.

## 1. Inventory

| component | state | operations | hard because |
|---|---|---|---|
| **ClientHub** `gateway/internal/websocket/client_hub.go` | `clients` (machine → connection), `pendingCommands` (request → waiter), snapshots, active turns, approvals | register, events, snapshots, disconnect; `SendCommand` for the API | one goroutine per connection and per call, short critical sections, connections replaced while still open, timeouts racing answers |
| **registry** `gateway/internal/registry/store.go` | machines with status and agents, pending approvals, timeline events | `Upsert`, `MarkOffline`, ... | written by connections and by HTTP handlers, each with its own idea of the machine |
| **router, runtimeindex** `gateway/internal/{routing,runtimeindex}` | thread → machine and agent; threads and environment per machine | track, replace snapshot, clear machine | updated after the hub's lock is released |
| **ConsoleHub** `gateway/internal/websocket/console_hub.go` | set of consoles, a bounded queue each | connect, `Broadcast`, overflow, `removeClient` | broadcasters, readers and writers remove a console at once |
| **HTTP API** `gateway/internal/api/server.go` | deleted threads; everything else through the stores | about 40 endpoints, most of them a command and then a store update | read–command–write sequences without a lock |
| **settings** `gateway/internal/settings` | preferences and agent configurations, in memory and in a file | get, put | lost updates |
| **StdioRunner** `client/internal/agent/codex/stdio_runner.go` | pending calls of one agent process | `Call`, `Respond`, `readLoop`, `Close` | callers, reader and process end in any order; handlers run on the reader |
| **AppServerClient** `client/internal/agent/codex/*.go` | turn state, pending approvals, thread preferences | one method per agent request; notification and server-request handlers | callbacks while calls are in progress |
| **Supervisor** `client/internal/agent/manager/supervisor.go` | records (memory and disk), processes, status per agent | install, delete, restart, start all, stop all, config | crashes between file and process steps, partial failures |
| **client session** `client/cmd/client/main.go` | session per connection, approval contexts | reconnect loop, heartbeat, command loop, snapshots | old loops survive into the next connection |
| **console** `console/src` | a thread's messages, active turn, placeholder and the turns it knows | load, reconnect, merge of events, prompt, interrupt | events come twice, and responses overtake them |

How they interact: a console or a person calls the HTTP API; the API calls
`ClientHub.SendCommand`, which writes a command to the machine's connection and
waits on a channel; the client's command loop runs it against the Supervisor or
an agent and answers with `command.completed` or `command.rejected`; the
connection's goroutine in the gateway hands the answer to the waiting call.
Events and snapshots flow the other way: agent process → `readLoop` → handlers →
session → connection goroutine → stores and `ConsoleHub.Broadcast` → consoles.

What makes each component correct, and which of it is checked, is in section 3;
every behaviour that is hard to test is listed in `PROJECT.json` under
`hazards`, with the properties that would catch it or the reason why none does.

## 2. Modules

| module | models | by |
|---|---|---|
| `CommandPromise` | what a caller of `SendCommand` is promised: one outcome, answers only from the machine, an end to the wait | an abstract specification: one action per thing a caller or a machine can observe |
| `ClientHub` | `client_hub.go` without threads and approvals, the status in `registry/store.go`, and the two handlers of `api/server.go` that read a machine's record and write it back (POST and DELETE agents) | one action per critical section under `h.mu`, per registry call, per channel or socket operation |
| `ClientHub_proofs` | theorems about `ClientHub` | TLAPS |
| `ConsoleHub` | `console_hub.go` | one action per critical section, channel or socket operation, and per step of `removeClient` |
| `ConsoleHub_proofs` | theorems about `ConsoleHub` | TLAPS |
| `StdioRunner` | `stdio_runner.go`, and the `turn/completed` handler that calls back | one action per critical section, pipe or channel operation; the process is the environment: it may exit, and it may stop reading |
| `Supervisor` | `manager/supervisor.go` and the reconnect loop of `runClient` | one action per file operation, process operation or critical section under `s.mu` |
| `Client_proofs` | theorems about `Supervisor` and `StdioRunner`, which it extends both: hence the names `RunnerSpec`, `RunnerInit`, ... in `StdioRunner` | TLAPS |
| `ThreadTables` | what the gateway knows of a machine's threads: the hub's snapshot and active turns, the runtime index, the router, the deleted marks of the API; the thread handlers of `api/server.go` and the thread commands of the client, those that the loop of a lost connection is still at included (`strays`) | one action per critical section of each of the five locks; the machine's agent is the environment |
| `ThreadTables_proofs` | theorems about `ThreadTables` | TLAPS |
| `Environment` | skills, MCP servers and plugins: the handlers, the client's command loops, `codex/environment.go`, the agents' starts and stops and the configurations they start with, and the rows of the hub | one action per step of a command loop and per frame the hub handles, and one for what an agent does late with a command that was rejected |
| `Environment_proofs` | theorems about `Environment` | TLAPS |
| `Approvals` | an approval from the agent's request, its two frames apart, through session, hub, registry and console, and the answer back | one action per critical section, message or step of the command loop |
| `Approvals_proofs` | theorems about `Approvals` | TLAPS |
| `Settings` | the settings store, its file, its handlers and the settings page | one action per critical section and file operation |
| `MachineApi` | the agents of a machine in the registry, and the handlers that install, delete, restart, start and stop them | one action per registry call, command or frame; an operation of the supervisor is its outcome |
| `ThreadWorkspace` | one thread as one page of the console shows it: the timeline events and legacy frames of its turns, what the gateway keeps and broadcasts, `use-thread-workspace.ts` and `timeline-model.ts` | one action per notification, per step of the hub on a frame, per read of the API, and per callback of the page |
| `ThreadWorkspace_proofs` | theorems about `ThreadWorkspace` | TLAPS |
| `MCGatewayStores` | `Settings` and `MachineApi` for TLC and TLAPS | they share no state: one of them moves in each behaviour |
| `GatewayStores_proofs` | theorems about `Settings` and `MachineApi`, as `MCGatewayStores` composes them | TLAPS |
| `MCThreadWorkspace` | `ThreadWorkspace` under two sets of bounds | a behaviour keeps to one of them |
| other `MC...` | small instances of each, with the symmetry sets where no liveness is checked | |

A goroutine is a program counter and its local variables, as functions of who it
serves: a connection in `ClientHub` has `connPC`, `machineOf` (the local
`registeredMachineID`), `answering` and `collected` (the slices of waiters it
has taken and must fail); a `SendCommand` has `callPC`, `target`, `via`,
`channel` (its `responseCh`) and `outcome`. A map is a function with `None` for a
missing key, or a set when its values do not matter. History variables (a reply
given, frames received, agents whose installation has completed) are marked as
such where they are declared and occur in no guard.

Definitions whose comment begins with "mutant:" are not part of a specification.
Each is a plausible mistake in the definition that follows it: a dropped
ownership test, a `default:` removed or added, a record forgotten in one place.
`PROJECT.json` lists which property each of them breaks, which shows that the
property can be broken by a change of the code.

### How the modules fit together

`ClientHub` is checked to implement `CommandPromise` through the mapping `Promise`
in `ClientHub`: a call is issued from its lookup until its return. The other
components meet at narrow interfaces that are stated as assumptions of each
module rather than composed in one:

- the answers on `ClientHub`'s `wire` are what the client's command loop writes:
  at most one answer per command and connection, at any time or never;
- `Supervisor` starts and closes the processes `StdioRunner` talks to; what it
  needs of `StdioRunner` is that a call to a dead process returns an error
  (`NobodyWaitsOnDeadProcess`), which is why a dead agent makes a snapshot fail
  rather than hang;
- `ConsoleHub`'s sources are the goroutines of `ClientHub`; what these need of it
  is that `Broadcast` returns (part of `GoroutinesEnd`);
- `ThreadTables`, `Environment`, `Approvals` and `MachineApi` each see one machine,
  with the part of the hub that concerns them: `ClientHub`'s registration,
  replacement and disconnect, and the waiting of a call, which may end at any time
  (its timers and its channel are `ClientHub`'s);
- `MachineApi` takes an operation of `Supervisor` as one step with the outcomes that
  `Supervisor` allows, failures included.
- `ThreadWorkspace` takes the machine's connection as lasting and the queue of its
  console as large enough; what their loss does is in `ThreadTables` and `ConsoleHub`.

The client is part of five modules, each with what it needs. What they share is the
order in which a session sends: register, snapshot, then for each command its answer
and the snapshots that follow; and that `runConnection` returns without waiting for
its command loop, so that the loop of a broken connection may still be at work
when the next one begins (`loop` and `overlap`, and in `ThreadTables` `strays`).

### Provisos

Some properties hold only as long as a certain thing has not happened, which the code
does not prevent. Each is a history variable, set where it happens, and named in the
property, so that the limit of what the code achieves can be read off. A proviso leaves
out a hazard of the code, and then the property says nothing about that hazard; the
last column says which.

| variable | module | what has happened | left out with it |
|---|---|---|---|
| `astray` | `ClientHub` | POST or DELETE agents wrote a machine's status back after it had changed, and no frame of the machine and no disconnect has written it since | the lost update of `server.go:1021` on the status; not what frames and disconnects do to each other |
| `late` | `ThreadTables` | a table was written on behalf of a connection that had lost the machine, or from a copy of a thread that was out of date | writes across a reconnect, and of stale copies; not those of one connection in any order |
| `raced` | `ThreadTables` | a thread was marked deleted while another request on it was under way | the late read that clears a mark (`server.go:1696`); not a later request |
| `unlisted` | `ThreadTables` | the loop of a lost connection created or archived a thread after the live one had listed them | the time until the next snapshot of the threads, which must put it right |
| `unlisted` | `Environment` | an agent was changed by a rejected command or a document since the last snapshot | the time until the next snapshot |
| `overlap` | `Environment`, `Approvals` | the loop of a broken connection was at work when the next connection was made | everything that two loops at once do (`main.go:936`, and a removal beside an upsert, `environment.go:226`) |
| `early` | `Approvals` | an approval was over before `approval.required` was sent, because a console had answered the timeline event before it | the card that then stays (`appserver_client.go:814`) |
| `lost` | `Approvals` | a frame about an approval never reached the hub: nothing is sent again after a reconnect | that an approval is forgotten by a reconnect |
| `overlap` | `Settings` | two saves were at the file at once: they share one temporary name and no lock | two saves at once (`file_store.go:129`); not crashes |
| `clobbered` | `Settings` | preferences were written back over ones that had not been read | two renames at once (`server.go:1549`) |
| `past` | `ThreadWorkspace` | any of: the page loaded or connected while a turn went on (`crossed`); an event came for a turn that had ended, or the registry dropped events before the page read them (`crossed` too); a frame was broadcast while its socket was down, or its GET failed (`missed`); an interrupt's answer came when another turn was active (`cut`); a prompt was sent before the page had seen the last turn's end (`early`) | a GET overtaken by frames (`use-thread-workspace.ts:321`), lost frames, and a placeholder taken by an older turn (line 427); `AnswerIsWhole` has no proviso and `PlaceholderGoes` only `missed` |
| `astray` | `MachineApi` | the record went wrong (agents changed by a command that was then rejected, the last agent deleted, a handler's read and write around another change) and no true snapshot has been read since | the lost update (`server.go:1021`) and the list of agents that stays after the last deletion (`registry/store.go:64`), until a snapshot |

`EveryCallReturns` has a proviso in its statement, `Deaf`: the process lives on and reads
no more, now, while the call waits. `ServersKept` is about the upserts that count
(`upserts`, `promised`): a start of the agent, a document and a removal that is carried out
late end them.

Without its proviso TLC refutes each of these properties in a few steps. Some of the
repository's documents promise more than the code keeps there: the timeline design that the
active turn is cleared once it is completed (line 248), that the history reloaded is the
stream seen live (270), and that final messages of a turn may have bubbles of their own
(212, 269); `use-thread-workspace.test.tsx:330` that the end of another turn leaves the
placeholder; the capability list (`docs/2026-04-13-console-gateway-capability-checklist.csv:6`)
that a deleted thread is removed for good from the lists and from recovery. Section 5
takes them one by one.

## 3. What the runs check

Every run ends without an error unless it is marked as a violation. The type
invariants of all components are proved (section 4); `ClientHub`, `StdioRunner`,
`Supervisor` and `Approvals` have no run that checks theirs as well, and the run of
`ThreadWorkspace` checks it as `TypeOKEither`, for its two sets of bounds. Run `X` is
`X.cfg` with the MC module of its component. Deadlock is not checked because each
system may come to rest: no browser, machine or caller has to do anything.

| run | instance | shows |
|---|---|---|
| `ClientHub_calls` | 2 machines, 2 connections, 1 call | `OneResultPerCall`, `NoWaiterLeak`, `ClientsAreConnected`, `ReconnectKeepsOwner`, `BrokenConnectionsClose`, and `KeepsPromise`: the refinement of `CommandPromise`, fairness included |
| `ClientHub_offline` | 1 machine, 2 connections, 1 call | violation of `OfflineAfterDisconnect` (section 5) |
| `StdioRunner_calls` | 2 callers, 1 turn, a process that may exit or stop reading | `ReaderNeverBlocks`, `NobodyWaitsOnDeadProcess`, `EveryCallReturns` |
| `StdioRunner_refresh` | 1 caller, 1 turn, a patient timer | violation of `ArrivedResponsesAreReceived` |
| `ConsoleHub_consoles` | 1 console, 2 broadcasters, queue of 1, 3 events, a thread filter | `ClientsAreServed`, `NoGap`, `GoroutinesEnd` |
| `Supervisor_agents` | 3 agents, 1 process that dies by itself, any number of crashes | `Durable`, `RecordsOnDisk`, `NoStrayProcess`, `StatusIsTrue`, `FailedStartUndone`, `OperationsEnd`, `ComesBackOnline` |
| `Supervisor_dead` | 1 agent, 1 death | violation of `DeadAgentNoticed` |
| `ThreadTables_views` | 2 threads, one of which the agent has at first, 2 connections, the first one's loop perhaps still at a command, 2 consoles, 2 turns, 2 requests | `ViewsFollowMachine`, `RunningTurnKnown`, `HiddenIsArchived`, `DeletedStaysDeleted` |
| `Environment_rows` | 2 agents that share the ids of a skill, a plugin and two MCP servers, an empty document in the second one's home, 2 connections, 1 that breaks, 1 console, 2 requests | `SettledEnvironment`, `ServersKept` |
| `Approvals_cards` | 2 agents, 2 request ids, 2 approvals, 2 connections, 1 that breaks, 2 consoles, 2 answers | `AnsweredOnce`, `ToldIsTrue`, `CardsFollowAgents` |
| `GatewayStores` | `Settings`: 2 writers, 2 threads with titles, 3 changes, any number of restarts. `MachineApi`: 2 agents, 2 callers, 3 requests, any number of reconnects | `AckedIsOnDisk`, `TitlesStay`; `RegistryFollowsMachine` |
| `ThreadWorkspace_pages` | either 2 turns of 1 chunk, 1 prompt, 1 interrupt, nothing lost and no limit on kept events; or 1 turn of 2 chunks, of one message or of two, with a quiet item and an approval, 1 break of the socket, 3 kept events | `AnswerIsWhole`, `CalmTextIsTrue`, `CalmActiveIsTrue`, `PlaceholderGoes` |

Why the instances are large enough:

- *ClientHub.* A race over ownership needs a connection and the one that replaces it; a
  second machine lets a connection change its identity. A race for a waiter needs one
  call, and so does a handler that reads a record, lets the machine go or come back, and
  writes. That calls do not disturb each other is in the theorems of section 4, which
  remove the bounds for the safety properties.
- *StdioRunner.* The refresh on the reader, a caller blocked behind it and one that is
  not make three calls: one that holds `writeMu` at a process that reads no more, one
  that waits for it, and one that waits for its response. After a refresh that has timed
  out its late response is one more that nobody waits for; more turns, as all bounds,
  are in the theorems of section 4.
- *ConsoleHub.* Consoles share nothing but the set, so one is enough; two
  broadcasters, its reader and its writer make all four goroutines that can
  remove it. A queue of one is full after one event; three events of one
  broadcaster make a first, a middle and a last one for `NoGap`, and split between
  two they overflow the queue from both sides at once.
- *Supervisor.* Three agents make a gap in the numbering possible (1 and 3
  installed, 2 deleted), which is what the choice of the next id has to get right, and
  a rollback of more than one agent.
- *ThreadTables.* Every table is written pointwise, so two threads show all that
  threads do to each other: a write for one that carries an old entry of the other.
  Two connections make the handover; two requests, of two consoles or of one, make a
  read that is overtaken by a deletion, and a turn that is started and interrupted. The
  loop of the first connection can be at one command when the second one lists the threads;
  a second request is what the next snapshot follows.
- *Environment.* Two agents with one id make "the first row of that skill" wrong for
  one of them; two connections make two loops; two requests are what one loop can
  overtake another with, and what follows a rejected command, a document or a restart. A
  request that has timed out leaves its console free while the command is still on its way,
  so that one console is enough for two commands. At first only one agent has a skill and a
  server, the other comes to have them by requests; of the two only the second has a
  document in its home, which takes its servers away at a start.
- *Approvals.* Two agents, so that a session without a context cannot guess; two ids
  and the same id twice; two consoles that answer the same card, one of them perhaps
  between its frames; one break and the connection after it. On that connection a console
  asks only when no other waits: two that answer at once are on the first connection, or
  on either side of the reconnect.
- *Settings.* Two writers make two saves at once, and the third change what
  follows a restart. *MachineApi.* Two callers around one record; three requests
  install, delete the last agent and go on; two ids, so that one agent stays.
- *ThreadWorkspace.* Two turns are an older and a newer one, or the page's and
  another's; two chunks have an order, and a first that can be missed without the
  second; they are one message of two chunks or two of one, so that a complete text
  meets a chunk of its own message or of the one before. One event on its way to the
  gateway and one or two frames on their way to the page, together with the request
  answers that overtake them, put any event on either side of any answer. One prompt is
  enough since a second waits for the first. A limit of 3 is reached by a turn of up to
  8 events. The two sets of bounds are two instances of the module in
  `MCThreadWorkspace`, and a behaviour keeps to one of them; what the page loses is in
  the second only.

The symmetric sets (connections, consoles, writers, ...) occur in no definition that
tells their members apart: the only `CHOOSE` over one is from a singleton, or is a
placeholder the machine never looks at, and no liveness is checked under symmetry.

Fairness. The Go scheduler runs every goroutine that can run and timers fire:
weak fairness of each goroutine's own steps, and nothing else. What the
environment does is never fair: machines, browsers and callers may stay silent,
an agent process owes no answer, a browser may never read (so that
`WriteSucceeds` of `ConsoleHub` is not fair), a peer may be dead without a sign. The process
of a `StdioRunner` may stop reading its stdin: a write to it is fair only while it listens
(`Progress`), since the code gives it no deadline.
Two assumptions go beyond that, both in `Supervisor`: an agent exits once its
stdin is closed (`StdioRunner.Close` waits for it without a limit, so that
`OperationsEnd` says nothing of an agent that does not, `supervisor.go:411`), and a
snapshot that is sent again and again after reconnecting gets through some time
(strong fairness of `SendSnapshot`; `ComesBackOnline` would otherwise fail for a
network that drops each connection at the same point).

Properties worth knowing about:

- `OneResultPerCall` is why `resolvePendingCommand` and `failPendingWaiters` may
  use a `select` with a `default:`: the default is never reached.
- `ReconnectKeepsOwner` and `ClientsAreConnected` are the two directions of "a
  reconnect works": the end of an old connection does not hurt the new one, and no
  entry stays behind, nor a registered machine offline. The ownership test in
  `disconnectClient` is what they rest on. The one other writer of the status, a handler
  with a copy read before, is in the module and named in both.
- `NoGap` is why `enqueue` closes a console's queue instead of dropping the event that did
  not fit: dropping one and going on would be simpler and would pass most tests.
- `GoroutinesEnd` with `NoGap`: a console never shows a stream with a hole;
  it is cut off. Its page connects again; it reads nothing again, so what it missed
  stays missing until the turn's complete answer comes (`AnswerIsWhole`).
- `Durable` quantifies over crashes at every step: an installation that has
  completed survives, a deletion that has completed is never undone.
- `ViewsFollowMachine` says what five tables with five locks come to when nothing is
  under way any more; `SettledEnvironment`, `CardsFollowAgents` and
  `RegistryFollowsMachine` say the same of rows, cards and agents. They are about
  every order in which answers, events, snapshots, handlers and disconnects may
  write, and leave the moments in between to the person who looks at the screen.
- `HiddenIsArchived` and `DeletedStaysDeleted`: a thread is hidden only when it is
  gone, and comes back only through a request that was under way when it went.
- `RunningTurnKnown` holds on the machine's first connection, where `activeTurns`
  rests on events alone; section 5 says why not on a later one.
- `ToldIsTrue`: whatever times out, is settled by the agent, or is sent to the agent by
  an old loop, a console is never told of a decision that its agent was not handed.
- `AnswerIsWhole` has no proviso: whatever a page lost, saw twice or read in the wrong
  order, the complete text of a turn's last message puts right. It is what the snapshot mode of
  `item.completed` is for. It does not say that a turn of several messages is shown whole:
  the page keeps none before the last complete one (section 5).
- `EveryCallReturns` leaves one way to wait for ever, and names it: a process that lives on
  and reads no more. Its end, or `Close`, frees every call.
- `CalmTextIsTrue` and `CalmActiveIsTrue` are about the two protocols that carry the same
  turn and the answers of the page's own requests, which overtake events; their provisos
  are the list of ways in which a page can still be wrong.
- `AckedIsOnDisk` at every moment of a save, and `TitlesStay` across renames, saves of
  the page and restarts, are what a person may rely on as long as they work alone.

## 4. What is proved

`ClientHub_proofs` proves, for any sets of machines, connections and calls, from
the single assumption that `None` is none of them (`NoneAssumption`):

| theorem | statement |
|---|---|
| `TypeCorrect` | `Spec => []TypeOK` |
| `Invariance` | `Spec => []IInv` |
| `OneResult`, `NoLeak`, `Ownership` | the safety invariants of the runs |
| `OwnerKept` | `Spec => ReconnectKeepsOwner`, an action property |
| `PromiseSafety` | the safety part of the refinement: `Init` implies `Promise!Init`, and every step is a `Promise!Next` step or a stutter |

The safety properties are not inductive alone. `OneResultPerCall` says that a waiter in
the map means an empty channel; that registering a call establishes it needs that
nothing was sent on the channel of a call that has not registered (`CallInv`), and that
an answer's result is one needs `ConnInv` (a goroutine that delivers holds an answered
call). That an answer is given once needs `WireInv`: a call on a wire was written by
itself, over that connection, and has not been answered. `IInv` is the conjunction of
the type invariant, these three and the four state properties; there is one lemma per
conjunct and in each one step per action. The only lemma with a real argument is
`ShownOnlineStep`: `MarkOffline` runs only in the steps that remove the machine from
`clients`, and what a handler writes back is the status there is, or the machine is
`astray` until a step that writes what is true. The refinement uses `WireInv` and
`CallInv` for the guard of the abstract `Answer`, and `CallInv` and the channel's
contents for `Finish`.

`Client_proofs` proves of `Supervisor`, for any number of agents and any bound on the deaths,
from `SupervisorAssumption` (there is at least one agent, for the boot to create; the
bound is a number):

| theorem | statement |
|---|---|
| `TypeCorrect` | `Spec => []TypeOK` |
| `Invariance` | `Spec => []IInv` |
| `CompletedIsDurable`, `MemoryIsOnDisk` | `Durable` and `RecordsOnDisk`: what a crash at any moment leaves |
| `NoProcessIsStray`, `StatusIsAccurate` | `NoStrayProcess` and `StatusIsTrue` |
| `FailedStartIsUndone` | `Spec => FailedStartUndone`, an action property |

An operation is a sequence of steps, so its invariant says what each step knows.
`StepInv` ties steps to operations (only `install` and `bootstrap` create a file, only
`delete` and a failed `install` remove a directory). `RecordInv` says where the agent
being worked on is: a file is created only for an agent without a record, so
`CreateFile` cannot truncate the file of an installed one; a directory is removed
only after its record has left the memory, so `RemoveDir` cannot break
`RecordsOnDisk`; the history sets `installed` and `deleted` never hold an agent whose
file is being changed. `ProcessInv` accounts for every process. `RollbackInv` is what
`FailedStartUndone` rests on: what is registered beyond `before` has been passed, and
while agents are being started what has been passed is registered, and a record is
passed, to do, or the current agent's, so a `StartAll` that completes has registered all
records and one that fails has nothing left to stop.

`Client_proofs` proves of `StdioRunner`, for any calls and any finite number of turns, from
`RunnerAssumption`:

| theorem | statement |
|---|---|
| `RunnerTypeCorrect` | `RunnerSpec => []RunnerTypeOK` |
| `RunnerInvariance` | `RunnerSpec => []RunnerInv` |
| `NeverBlocks` | `ReaderNeverBlocks`: the sends of `readLoop` and `failPending` find room |
| `NobodyWaits` | `NobodyWaitsOnDeadProcess` |

`ReaderNeverBlocks` needs that a call that has not begun has left no trace, or its
registration would meet a full channel; `NobodyWaitsOnDeadProcess` needs that a call
that waits is always served by something, its entry, the response `readLoop` holds or
its channel (`CallsAreServed`), so that when the map is empty only the channel is left.

`ConsoleHub_proofs` proves, for any consoles, sources, threads and capacity, from
`ConsoleAssumption`:

| theorem | statement |
|---|---|
| `TypeCorrect` | `Spec => []TypeOK`, with it that `done` is closed once and a queue stays within its capacity |
| `Invariance` | `Spec => []IInv` |
| `Served` | `ClientsAreServed` |
| `Gapless` | `NoGap` |

`ClientsAreServed` rests on `RemovedForGood`: whoever has passed the `delete` of
`removeClient`, and a closed `done`, mean that the console is out of the set, to which only
a console that nobody holds yet can be added.

`NoGap` is about what the socket has carried; the invariant is about everything a console
will ever be shown: what was carried, the event `writeLoop` holds and its queue, while
`writeLoop` still writes. `InOrder` says that of each source these are in order. `Complete`
says that up to each of them nothing is missing that the console asked for, and that they
are older than the broadcast that is about to reach it. Two facts keep this up. A console
that is in the set and in no broadcaster's hands has all events so far, so the next one
leaves no gap; and one whose queue was full is taken out of the set before its broadcaster
goes on, so it is handed nothing after the event it missed. When `writeLoop` ends early, what
it leaves behind comes after all that was carried. `NoGap` is stated by positions in the
stream and not by a recursive filter of it, which is what made a proof possible.

`Approvals_proofs` proves, for any agents, ids, connections and consoles, from
`ApprovalsAssumption`:

| theorem | statement |
|---|---|
| `TypeCorrect` | `Spec => []TypeOK` |
| `Invariance` | `Spec => []IInv` |
| `OneDecision` | `AnsweredOnce` |
| `ToldTheTruth` | `ToldIsTrue` |
| `CardsFollow` | `CardsFollowAgents` |

`AnsweredOnce` rests on `OneAtATime`: while no two loops have been at work at once, an
approval that has been answered is pending only until the loop that answered it
reports. `ToldIsTrue` rests on `IdsAgree`, that a request id stands for one approval
in commands, loops, frames and requests alike, because a request is matched with its
answer by the id alone; and on `DoneIsHanded`, that a frame that says "completed" is
about a decision an agent was handed. One lemma per action proves every conjunct.

`CardsFollowAgents` speaks of the moment when nothing is under way; `CardInv` says what
leads there, for an approval of which no frame was lost, which was not over between its
two frames (`early`), and whose id no other agent used. While its agent waits, its card
is shown, or the frame that will show it is unread, or is still to be sent (`Asking`;
such an approval waits or is in `early`, `AskingWaits`); once it is over, its card is
gone, or the frame that says so is unread and behind every frame that could show the
card again (`CardIsRight`). The last part needs that an unread announcement is on the
connection in use (`OnLive`), because order is kept within a connection only, and that
whoever says "it is over", a frame, an answer or a handler, says the truth
(`OverIsTrue`), or a handler would remove the card of an approval that still waits.

`ThreadTables_proofs` proves, for any threads, connections and consoles, from
`ThreadTablesAssumption`:

| theorem | statement |
|---|---|
| `TypeCorrect` | `Spec => []TypeOK` |
| `Invariance` | `Spec => []IInv` |
| `Hidden` | `HiddenIsArchived` |
| `StaysDeleted` | `Spec => DeletedStaysDeleted`, an action property |
| `TurnKnown` | `RunningTurnKnown` |
| `ViewsFollow` | `ViewsFollowMachine` |

`HiddenIsArchived` rests on `IdsAgree`, that the answer a `DELETE` gets is the answer to its
own `thread.archive`, and on `ArchivedFirst`: such an answer, wherever it is, is about a
thread that the agent has archived, and a thread id is used once. `DeletedStaysDeleted` needs
`ClearsSafely`: a request that may still clear a mark, and an answer that will let one do so,
is about a thread that is not marked or was marked while that request was under way.
`RunningTurnKnown` is about tables that lag behind the agent by the frames under way. `LeadTo`
says of these frames, on the first connection, that handled one by one they lead from the
turn that is recorded to the turn that runs: the last of them names it, and each end of a turn
names the turn that the start before it records.

`ViewsFollowMachine` is about all writers of the index and the router. `ViewInv`, which holds
beside `IInv` and which TLC has checked on the instance of the run, says what the tables of
the live connection come to. An answer that changes the list is always followed by a snapshot,
so once the machine owes none the last unread frame that changes the list is a snapshot of the
threads it has (`EndsIn`); when no such frame is left, every table that the goroutine is not
about to replace is right (`UpToDate`). What a handler then writes changes nothing: a thread
it lists or routes is in the hub's snapshot, or the write is counted as late, and a thread it
removes is one that the machine has archived, which is `ArchivedFirst` again. A new connection
has its own snapshot behind its `client.register`, so nothing of its predecessor survives
but the commands its loop is still at (`strays`): one that changes the list when no
snapshot is owed sets `unlisted`, and the next snapshot, which lists what there is then,
clears it.

`Environment_proofs` proves, for any agents, resources, connections and consoles, from
`EnvironmentAssumption`:

| theorem | statement |
|---|---|
| `TypeCorrect` | `Spec => []TypeOK`, with it that an agent has one row per resource |
| `Invariance` | `Spec => []IInv` |
| `Settles` | `SettledEnvironment` |
| `ServersStay` | `ServersKept` |

All but the types is conditional on `~overlap`, and `OneLoop` turns that into the fact that
one loop is at work. Then commands are carried out in the order of their ids (`InOrder`), and
what a removal writes back is what is there now, as far as servers with a claim go
(`ConfigIsRead`). `ServersKept` follows with `Kept`: a removal that is still under way is
older than every upsert of its server that counts. What an agent may do late with a rejected
command (`late`) is either one upsert or switch, which takes no server away, or writes the
whole map, and then lifts the promises of that agent, as its start does (`Lift`); an upsert
that has not run keeps its claim. `SettledEnvironment` is the end of `Shown`: unless the
loop of the connection in use owes a snapshot (`Quiet`) or an agent has been changed since the
last one without owing any (`unlisted`), the frames of that connection make the rows what the
running agents have, since those behind the last snapshot change no row (`Silent`). The proof
found a mistake in an earlier form of `ServersKept`, which promised a server although another
console had asked for its removal while the upsert was under way; the history variable
`upserts` holds the upserts that count.

`GatewayStores_proofs` proves, for any writers, threads, agents and callers, from
`GatewayStoresAssumption`:

| theorem | statement |
|---|---|
| `TypeCorrect` | `Spec => []TypeOK`, of both modules |
| `Invariance` | `SettingsInv` and `MachineInv` |
| `AckedOnDisk`, `TitlesKept` | `AckedIsOnDisk` and `TitlesStay` |
| `RegistryFollows` | `RegistryFollowsMachine` |

Settings: a change stays in memory while it is saved (`InMemory`), whatever other handlers do.
What a save writes is a copy of the memory taken after its own change and after all that was
answered by then; unless saves overlap it is the only one at the file, so nothing is answered
between its copy and its rename (`SavesInTurn`). A new temporary file is not the file
itself because there are more inodes than writers can hold, by counting them
(`TmpInodeIsFree`).

MachineApi: three things write the record, snapshots, handlers and disconnects. `Follows` says
that once the frames under way have been read the record is right, whoever writes next;
`Handled` says the same of a handler between its command and its write: what it has read, or
will have read, becomes right by its write, and the snapshots behind its answer show the
machine as it is. `EmptyFindsEmpty` is the one about the rule of `Upsert` that an empty list
of agents keeps the old one. `astray` is set exactly where one of these breaks. The proof
found a mistake in the model: a command whose connection broke while it ran left the commands
behind it to the next connection.

`ThreadWorkspace_proofs` proves, for any number of turns, chunks, prompts, interrupts and
breaks of the socket, queues of any length and any limit on the kept events, from
`ThreadWorkspaceAssumption`:

| theorem | statement |
|---|---|
| `TypeCorrect` | `Spec => []TypeOK` |
| `Invariance` | `Spec => []IInv` |
| `AnswerWhole` | `AnswerIsWhole` |
| `PlaceholderGone` | `PlaceholderGoes` |
| `CalmActive` | `CalmActiveIsTrue` |
| `CalmText` | `CalmTextIsTrue` |

`IInv` has thirteen parts, each about a calmer page than the one before; TLC has checked it
on the two instances of the run before it was proved.

- Of every page: an event is true when it is sent and stays so (`EventInv`: the complete
  text of a message is the chunks between the end of the one before and its own); agent,
  gateway, page and requests are together in one of few ways (`StageInv`); nothing that
  is said of a turn is on any queue behind the complete text of its last message
  (`AnswerLast`); the one message that can be a placeholder is the last prompt's and is
  of no turn yet (`AwaitedInv`). `AnswerIsWhole` is inductive with these: what comes
  after that text finds the turn's message on the page, the first of that turn, and
  leaves its text.
- Of a page that missed no frame: the turn of an accepted prompt is in its timeline, or the
  first event of that turn still to come is a timeline event and not a legacy frame
  (`PendingInv`, `Told`). So whichever of the answer and the events comes first binds or
  drops the placeholder, and a late answer finds none to revive.
- Of the gateway: its active turn is the agent's, but for the starts and ends it has yet to
  mark (`ActiveInv`).
- Of a page into whose loading nothing ran (`Smooth`): the events of a turn are in the order
  of their numbers in every queue and across them (`OrderInv`); what the page can read
  before it is open has every chunk (`KeptInv`); and what is to come is of the last turn the
  page knows or of later ones, and contains the end of every turn it is about that is not
  still running (`FrameInv`).
- Of a calm page: its active turn is the agent's but for the frames to come
  (`PageActiveInv`), and of each turn there are numbers `b` and `k` such that the page
  shows the chunks after `b` up to `k` in one message and the chunks still to come are
  those after `k` (`TextInv`). `b` is where the last complete message begins, unless its
  text is to come. When nothing is to come, `k` is all that was said, which is
  `CalmTextIsTrue`.

A step sends at most one event, moves one from queue to queue, and changes the page by
one of its operations. Most lemmas therefore go by that (`Sends`, `Handled`, `Own`,
`Calm`, ...) and not action by action. Two operations walk over data: the sort of the
history and the merge of its events, one by one. The sort is a choice by places, of
which counting shows that each is taken once (`PlaceIsOneToOne`); it keeps the order of
a turn's events (`SortedInOrder`), though not of the turns, and the merge does not
depend on these. The merge is a recursive function, `MergeAll`, and what it builds is
shown by the least number of events at which it would be otherwise (`MinIsLeast`,
`Induction`): `WellFoundedInduction` states, without an operator for a parameter, that a
set of numbers has a least element. That is the induction over data these proofs need.

Not proved, and checked by TLC on the instances above only: everything about liveness
(`EveryCallReturns`, `GoroutinesEnd`, `OperationsEnd`, `ComesBackOnline`,
`BrokenConnectionsClose`), and the fairness half of the refinement in `KeepsPromise`. TLAPS
has no rule for fairness through `ENABLED` here. Every safety property of the runs is proved.

## 5. Where the code and its documents disagree

1. **A machine without a connection may be shown online** (`ClientHub_offline`).
   Registration and machine snapshots call `registry.Upsert` with status online after
   releasing `h.mu`. A connection that is replaced in between, and whose successor hangs
   up before the upsert runs, leaves the machine online with no connection and nothing
   left to mark it offline. The design document
   (`docs/superpowers/specs/2026-04-07-code-agent-gateway-v1-design.md:660`) says a
   machine is marked offline after a disconnect.
2. **The refresh after a turn times out** (`StdioRunner_refresh`). The
   notification handler runs on `readLoop`; for `turn/completed` it lists the
   threads through the same runner and waits for a response that only `readLoop` can
   read. The wait ends with the 30 s timer, and all other calls of the agent
   wait with it. `docs/superpowers/plans/2026-04-29-agent-timeline-event-protocol.md:68`
   and `client/cmd/client/main_test.go:398` expect a thread snapshot after a
   completed turn; the test's runtime has no reading goroutine.
3. **A dead agent is not noticed** (`Supervisor_dead`). No goroutine waits for an
   agent's process: it stays registered and "running", `runtime.start` takes it for
   started, and since the machine's snapshot asks every registered agent, a client
   that reconnects fails its snapshot for ever and serves no command. The same
   design document, lines 664-665, makes the client responsible for
   detection and reconnection.

More effects met while modelling have no run of their own; the properties name them as
their exceptions.

In `ThreadWorkspace`, against what a document or a test says:

- The page asks `GET /threads/{id}` and connects its socket at the same time. An answer
  read while a turn ran, handled after the socket told of its completion, sets the active
  turn (`use-thread-workspace.ts:321`) without asking `completedTurnIdsRef`, and the page
  refuses prompts until another turn has come and gone. The timeline design
  (`docs/superpowers/specs/2026-04-29-agent-timeline-event-protocol-design.md:248`) has
  gateway and console clear the active turn once it is completed. `CalmActiveIsTrue` excludes
  it with `crossed`.
- Kept events are sorted by `sequence` (`use-thread-workspace.ts:117`), which counts within
  a turn: a turn that shows something at its second event is put before an earlier one that
  did so at its third. The same document, line 270, wants the reloaded view to be the live
  one. `CalmTextIsTrue` is therefore about the text of each turn, not about their order.
- The timeline branch of the page's handler clears `isTurnPending` and drops the
  placeholder whichever turn completes; `use-thread-workspace.test.tsx:330` states the
  opposite and passes because it sends the legacy frame alone. An interrupt followed at once
  by a prompt is enough. `PlaceholderGoes` asks only that the placeholder does not stay.

- Every `agentMessage` that is not commentary is a final one
  (`timeline_mapper.go:229-235`, the same document, line 185), and its complete text
  replaces all that the page shows of its turn (`timeline-model.ts:148`, `305`), while
  deltas are appended to that: of several final messages of a turn the page keeps none
  before the last complete one, and shows what it hears of the next behind it. The
  document, line 212, and the plan
  (`docs/superpowers/plans/2026-04-29-agent-timeline-event-protocol.md:188`) aggregate
  by turn and item, and line 269 lets different final answers have bubbles of their own;
  `flattenThreadMessages` (`appserver_client.go:1396`) joins them all. `AnswerIsWhole`
  and `CalmTextIsTrue` are about what is shown (`Answer`). The module takes the messages
  of a turn one after the other, as an agent streams them.

In `ThreadTables`, against the capability list, line 6 (a thread's deletion is soft, with an
archive first where possible, and it is removed for good from lists and recovery):

- `PATCH`, `GET` and `resume` requests that are under way when `DELETE` marks a thread
  clear the mark again, and the thread is listed (`DeletedStaysDeleted` excepts them with
  `raced`).
- The code answers 502 and hides nothing when the archive fails.

Elsewhere no line of the documents states the opposite precisely enough, or the effect is
one assignment:

- POST and DELETE agents read a machine's record and write it back without a lock
  (`server.go:1021-1030`, `1060-1064`): a machine that has disconnected, or come back,
  in between has its old status again, online without a connection or offline with one, until
  its next registration, snapshot or disconnect (`astray`).
- A call writes to its process's stdin without a deadline, holding `writeMu`, and starts
  its timer afterwards (`stdio_runner.go:131-139`): a process that stops reading, once the
  pipe is full, keeps that call and all that follow (`Deaf`).
- `runConnection` does not wait for its command loop (`main.go:943`): a `thread.create` or
  `thread.archive` that the loop is still at is carried out after the next connection
  has sent its snapshot, and the gateway does not learn of it before the next one (`unlisted`
  in `ThreadTables`).
- Operations on MCP servers write the configuration and then reload it
  (`environment.go:219-223`, `242-246`, `267-271`), and a call that times out may be carried
  out all the same: the command is rejected, the agent is changed and no snapshot follows
  (`main.go:1591-1593`; `late` and `unlisted` in `Environment`).
- When an agent starts, the configuration in its home is copied over the one it used
  (`client/internal/agent/codex/instance_runner.go:132`; the user's own is copied into a
  home that has none, line 129): MCP servers that were added through the console and
  answered with 200 are gone after a restart of the agent, a stop and start of the
  runtime, or a reboot, without anybody having asked for it. `ServersKept` promises
  nothing across a start.
- An approval is sent twice, on the timeline and as `approval.required`
  (`appserver_client.go:814-840`, `main.go:399-404`), and the session remembers whose it is
  between the two. A console that answers the first at once is followed by the second, which
  shows the card again and restores its route, and nothing takes it away (`early`).

- A crash while `agent.json` is being written leaves a truncated record that makes
  every later boot fail (the guard of `Boot`).
- A failed `runtime.start` stops agents that were running before it.
- `activeTurns` is neither cleared when a machine disconnects nor corrected by its
  next snapshot, although the design document (lines 660-671) expects the snapshot to
  restore the truth. `RunningTurnKnown` is therefore stated for the first connection.
- `registry.Store.Get` returns a machine whose `Agents` slice is the stored one;
  `MachineApi` shows what an installation, a deletion and a restart that overlap do with it.
- `machine.agent.restart` does not bind the new runtime's events to the session.
- `CreateSkill` writes below the user's `.codex/skills` even where the agent's
  `CODEX_HOME` is another directory, and a plugin installed by name marks
  "restart required" under a name that no row has.
- An approval answered after its turn has ended adds `approval.resolved` to that turn: a
  page takes the turn for the active one again, and a prompt on its way is bound to it
  (`crossed`).
- Any event of an interrupted turn that follows the next prompt takes that prompt's
  placeholder, so that the new turn's reply appears apart from it (`early`).
- A page opened while a turn runs may show its text with a chunk missing or repeated until
  the complete answer comes: the GET and the socket are not tied to one another (`crossed`).
- The prompts of a thread are not shown after a reload: the events of user messages have no
  content, and `detail.messages` is ignored once there are events.

## 6. Not modelled

- Wire formats, JSON, HTTP parsing, authentication, CORS, metrics and the capability
  list: no state that other parts read.
- The console's other pages and its rendering: React state that follows single
  responses and events.
- In `ThreadWorkspace`, process text, the line of a failed turn, steering, the runtime
  settings, the `resume` request of a thread without events, and a page that moves on to
  another thread.
- `codex/timeline_mapper.go`: a mapping of one notification to one event.
- In `ClientHub`, broadcasts (they are `ConsoleHub`'s input) and the tables of
  threads and approvals, which are modules of their own.
- In `StdioRunner`, `Respond` and server requests, which do not touch the calls;
  and the contents of results. In the app-server client, the assembly of
  a message from its deltas and the turn ids it fills in.
- In `ThreadTables`, `turn.steer` (no table changes), titles, activity and messages.
- The thread runtime's settings (`codex/thread_runtime.go`, `GET` and `PATCH
  /threads/{id}/runtime`). Of an agent's files, its `auth.json`, the copy of the user's
  configuration into a home that has none, and the contents of a document beyond the
  servers and plugins it lists.
- In `Supervisor`, unknown agent types (a start that fails stands for them); the
  configurations, which are in `Environment`, without crashes while one is written; a
  directory without `agent.json` is no record; and an agent that neither exits nor
  answers.
- The binding of runtime events to sessions, beyond what `Approvals` keeps of it, and the
  fake runtime.
- Sizes and durations: a timer is an action that may happen at any time while its
  call waits, or, where a property is about patience, once nothing else can.

## 7. Plan

What is left, in this order; a module is written so that it can be proved about
(constants with named assumptions, one action per operation, no recursion).

1. `TurnTracker`: the message assembly of `AppServerClient` and the turn ids it
   fills in, with `StdioRunner`'s ordering, and `turn.steer`.
2. `EventBinding`: which session a runtime's events reach, through reconnects and
   restarts; composed with `Supervisor`'s interface.
3. `ThreadRuntime`: the preferences of a thread, and crashes while a configuration is written.
4. Pure functions (status priorities, id encoding, latest activity) against
   reference definitions on bounded inputs.

Theorems planned: the safety properties of the modules above. Those of the modules that are
there are all proved; what is left of them is liveness.
