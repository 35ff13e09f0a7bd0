# a2ad: models, checks and proofs

This directory holds a TLA+ development of `a2ad`, the A2A daemon of this
repository, and of the part of its kitty frontend that depends on the daemon's
state. It contains specifications (`*.tla`), TLC configurations (`*.cfg`), TLAPS
proofs, and `PROJECT.json`, which ties every definition to the source lines it
stands for, every property to a mutation of the code that breaks it, and every
hazard of the code to the properties that watch it.

    tlc -config CoreDispatch.cfg MCControlPlane     # a run
    tlapm ControlPlaneProofs.tla                    # the proofs

## 1. The system

One `a2ad` process per user owns an SQLite file and a Unix socket. Clients (the
kitten, scripts, agents of the user) send one JSON request per connection. The
daemon talks to remote A2A agents, keeps a row per task, and puts a durable
control plane between clients and agents.

### Components

| Component | State it keeps | Operations | What makes it correct |
|---|---|---|---|
| Control plane (`ControlPlane.cpp`) | `control_records` (executions, approvals, continuations, leases, agent health, sessions, channels, provenance) and the append-only `control_events` | `handle` = `begin` / dispatch / `finish`; `control`: lease, approval, continuation, session, agent and channel operations; `event`; recovery in the constructor | one dispatch per request id; one final outcome; the approved request is the admitted one; delegation only narrows; fences only grow; quarantine ends only by the owner; audit and state agree |
| Task manager (`TaskManager.cpp`) | `subscribed_tasks_`, subscription threads, `agents_` and `discovered_at_`; the rows are in the database, artifacts in files | `createTask`, `respondToTask`, `cancelTask`, `refreshTask`, `reconcileOnStartup`, `startSubscriptions`, `discoverAgent`, `resolveEndpoint`, artifact materialization, authentication selection | a row never claims an ending the agent did not report; each open streamed task has exactly one stream; a task's end is learnt; no card of an old endpoint is used, and cards are refreshed; a reported artifact is whole |
| Task database (`Database.cpp`) | tables `tasks`, `agents`, schema version | insert/replace, get, list, migration | what is listed is what was written; migration happens once |
| Daemon process (`main.cpp`) | instance `flock`, stop flag | option parsing, start order, request table, polling loop, shutdown | one daemon per database; startup finishes before polling |
| IPC server (`IpcServer.cpp`) | listening socket, `clients`, `serving` | start, accept loop, one connection, stop; broadcast has no caller | one line per connection, descriptor numbers used only for what they stand for, nobody waits for ever, a stop that ends, both as long as agents end their streams |
| Event frontend (`kitten/a2a.py`) | none beyond its loop | `events`: open, read, print, acknowledge; other commands: one request | no event lost, none acknowledged unseen |
| A2A client (`A2AClient.cpp`) | binding and tenant per URL, cached cards | request building, answer classification, SSE framing, task parsing | no failure is reported as an answer, no chunk boundary loses an event |
| Transports, agent cards, configuration | none | library calls; interface choice; routing by longest path | the binding of a call is that of the chosen interface; the longest matching path routes |
| Credentials, types | none | pure functions | see section 7 |

### How they interact, and what is hard

* Threads: the main thread (start the socket, reconcile, subscribe, then poll if
  `reconcile_interval_sec` > 0, default 0), **one** accept thread that handles
  each connection inline, and one subscription thread per streamed task. The
  socket is open *before* reconciliation, so clients race with startup.
* `ControlPlane::handle` commits `begin`, dispatches with no lock held, and
  commits `finish`. The process may die between any two of the three.
* Two SQLite connections share the file. The control plane's has a five-second
  busy timeout; the task database's has none and `insertTask` ignores the result,
  so a task write that meets an open control-plane transaction is dropped.
* Every writer of a task row reads it, waits for the network, and replaces it.
* A discovery holds `state_mutex_` while it asks one address after the other and
  registers interfaces, but calls look their binding up under another mutex, so
  they see a registration half done, and a malformed card makes it throw after the
  interfaces were registered. What was discovered is kept in the `agents`
  table, by writes that may be dropped, and counts for five minutes.
* Opening the database and materializing an artifact are several system calls;
  the process may die, or a call fail, between any two.
* Frontends are killed at any time, and their requests are served all the same
  if they already wait in the accept backlog.
* A second daemon may be started by hand while the first one runs; systemd
  restarts one that failed.

The hazards of this kind are listed with their lines under `hazards` in
`PROJECT.json`; those no property covers have a note.

## 2. Modules

| Module | Models | State ↔ code |
|---|---|---|
| `DispatchLedger` | what a client may rely on for one request id: opened once, called once and only while open, outcome final | abstract |
| `ControlPlane` | `ControlPlane.cpp`, instance lock of `main.cpp` | one variable per kind of record; `audit` is `control_events` seen per record; `worker` is a thread between `begin`, dispatch and `finish`; `up`, `instanceLock`, `enforce`, `clock` are the machine; `calls`, `told`, `fenced` are history |
| `ControlPlaneProofs`, `GovernanceProofs` | theorems about `ControlPlane` | |
| `EventChannel` | `channel.open/read/ack`, the serial accept backlog, the `events` loop of the kitten | `last` is the newest event's sequence; `channel` the channel records; `backlog` the connections; `frontend` the loop |
| `EventChannelProofs` | theorems about `EventChannel` | |
| `TaskManager` | the task rows and all their writers, startup order, polling, subscriptions, the dropped writes | `row` is the table; `remote` what the agent really did; `thread` each thread's position and what it has read; `todo` the rows main has listed; `txn` an open control-plane transaction; `setting` what is configured and asked; `spoken`, `missed` are history |
| `TaskManagerProofs` | theorems about `TaskManager` | |
| `Discovery` | the agents table, the constructor that loads it, `resolveEndpoint`, `discoverAgent`, and the binding a call looks up | `config` the configured endpoints, `served` what the addresses answer, `saved` the table, `known` is `agents_`, `fresh` the agents discovered in the last five minutes, `bindings` is `bindings_`; `thread` a thread between the requests of a discovery and the call; `users`, `halfway` (agents whose last discovery registered interfaces and has not reached its end) are history |
| `DiscoveryProofs` | theorems about `Discovery` | |
| `Storage` | the steps that open and migrate the database file; `materializeArtifact` | operators over the tables, columns and ids of a file, and over the content of an artifact file |
| `IpcServer` | start, accept loop, one connection, stop, in a process that shares descriptor numbers with other threads | `files` is what each number stands for; `running`, `listenFd`, `clients` the members; `acc` the accept thread's position; `main` the thread that stops it; `path` the socket file; `peer` the clients; `events` what the task manager told its sink |
| `IpcServerProofs` | theorems about `IpcServer` | |
| `EventStream` | framing of server-sent events in `streamCall`; what a text says, read symbol by symbol | operators over texts of line contents and line ends, each loop of the code a recursive function of its turns |
| `Routing` | `Config::default_agent_for` | operators over paths as sequences of components |
| `Listing` | a page of a listing of `ControlPlane::readOnly` | operators over sets of ids |
| `Answers` | transports, `rpcCall`, `streamCall`, `finish`: from an exchange on the wire to the state of an execution | operators over exchanges |
| `Interfaces` | what `discover` registers, `Agent::effective_interface` | operators over agent cards, used by `Discovery` |
| `Algorithms` | the parts that work alone, as jobs: a stream that arrives chunk by chunk, a routing decision, an exchange, a walk through a listing that grows, an opening of the database that is interrupted, an artifact saved again and again | `job` is what the job has read, made and kept so far; the operators are those of `EventStream`, `Routing`, `Listing`, `Answers` and `Storage` |
| `AlgorithmProofs` | theorems about `Algorithms` | |
| `NumberLemmas` | least and greatest of a set of numbers, induction and recursion up to a number, for the proofs | |
| `MCControlPlane`, `MCEventChannel`, `MCTaskManager`, `MCDiscovery`, `MCIpcServer`, `MCAlgorithms` | small instances | |

One action stands for one transaction, one network exchange, or one write of the
code; an operation of several of them is several actions with the thread's
position in between. A request that is refused changes nothing and is a
stuttering step.

Abstractions. A request is a record of the fields `begin` reads, and its SHA-256
is that record (no two requests collide). Ids made by `newId` are never repeated:
a lease token is the number of its acquisition, an unnamed request gets any
unused id. Answers of agents are nondeterministic: `ok`, `error` or `uncertain`
for the control plane; a task, a bare Message, a refusal or silence, with or
without the agent having acted, for the task manager. A remote task is the
sequence of its updates and a row remembers which of them it contains.

The modules are checked separately because they share little: `ControlPlane`
exports only "a transaction is open" to `TaskManager` (`txn`) and "another event
was appended" to `EventChannel` (`AppendEvent`), and `Discovery` exports "this
agent could not be discovered" to `TaskManager`, where a failed discovery is one
of the ways a call or a subscription may not come about. `Answers` refines the three
results `ControlPlane` takes from agents: `Outcome` is the state its `Finish`
writes. `IpcServer` justifies what the other modules assume of the socket: one
request at a time, in the order of the connections.

## 3. Runs

| Run | Instance | Shows |
|---|---|---|
| `CoreDispatch` | two daemons on one database, three threads, three ids with duplicates, changed parameters, unnamed and retried requests, threshold 2, owner's quarantine and release | `TypeOK`, `AtMostOnceDispatch`, `AnswersAgree`, `RetriesFollowFailure`, `FullCountQuarantines`, `OutcomesAreFinal`, `ImplementsLedger`, `QuarantineNeedsOwner`, and, with restarts, `OrphansAreSettled` |
| `OwnerOperations` | two threads; a root, a child, a grandchild, a request asked for with two sets of effects and one with an unknown effect; enforcement on or off at each start; grants that are denied, revoked and expire; or one resource, two owners, a clock that jumps both ways, a session; or a continuation with two competing answers | `GrantBinding`, `DelegationAttenuates`, `ChainsAreBounded`, `AuditTellsTheState`, `FencesOnlyGrow`, `ContinuationDeliveredOnce` |
| `QuarantineAfterRestarts` | one agent, three ids, restarts | violation, section 6 |
| `SharedChannel` | two frontends on one channel, three events, deaths of a frontend or the daemon | `TypeOK`, `NothingSkipped`, `AcksAreCovered`, `CursorsAdvance`, `EverythingShown` |
| `TaskRows` | one task, two subscription threads, one crash, four settings: streamed, with transactions of the control plane; streamed, with responds; polled without streaming, with every request; streamed and polled, with transactions | `TypeOK`, `NoFakeCompletion`, `OneStreamPerTask`, `OpenTasksAreWatched`, `EndingsAreLearnt` |
| `UnserializedUpdates`, `DroppedUpdates` | one streamed task | violations, section 6 |
| `Discovery` | one agent, two threads, three cards (a plain one, one that offers two bindings at one URL, a malformed one), two changes of cards or endpoint or deaths | `TypeOK`, `NoForeignCards`, `BindingsFitCards`, `CardsAreRefreshed` |
| `TornBindings` | the same agent and one card | violation, section 6 |
| `IpcServer` | two connections, three numbers, one file of another thread, one stop or death, one event | `TypeOK`, `NumbersAreOwned`, `OneLinePerConnection`, `NobodyWaitsForever`, `StopEnds` |
| `SilentEvents` | the same | violation, section 6 |
| `Algorithms` | texts of up to seven symbols in any chunks, three rules over paths of two components, ids up to five with any limit and rows added before any page, all exchanges, a new database, those of version 1 and of version 2 with two tasks, opened any number of times with interruptions anywhere, artifacts saved any number of times with every fault | `FramingIgnoresCuts`, `LongestPathRoutes`, `WalksAreComplete`, `OutcomesFitAnswers`, `MigrationSurvivesCrashes`, `ArtifactsAreWhole` |

Bounds. `MaxClock`, `MaxTtl`: one tick and two lengths of life are enough for a
lease or grant to be live, expired, renewed, or live again after the clock was set
back. `MaxAudit` limits operations that could repeat for ever; three acquisitions
give two generations of stale holders. `QuarantineAfter` is 3 in the code; the
value 2 in `CoreDispatch` lets the threshold be met while a third dispatch is
still in flight. `MaxDepth` is 16 in the code; 2 makes the third generation the
refused one. `MaxEvents` exceeds the largest page, so pages end both at the limit
and at the end of the log. The bound on the updates of a remote task, a field of
the setting, leaves room for a state, a chunk and an ending; `Slots` has one
thread more than a task may use. A setting fixes which tasks stream, which
requests clients make, and whether the daemon reconciles and polls, so that each
run explores one combination fully instead of all of them shallowly; the theorems
hold for every setting. In `Discovery` agents meet only where a card registers a
URL of another one's, which `BindingsFitCards` excepts, so one agent shows the
rest, and the theorem covers any number; two threads give a call during a
discovery. Seven symbols hold two complete events and the beginning of a third,
cut inside any of them and between them. In
`IpcServer` the listener, one connection and one other file are all the numbers
there are, so a closed number is reused at once, and one stop or death is followed
by a start, over a stale socket file after a death. In `OwnerOperations` the
constraint `OneConcern` keeps a behaviour to grants, to a lease and a session, or to
a continuation: nothing in `begin` relates the three, so their combinations add
states and no case. Deadlock is not checked in
`Algorithms` (most jobs come to an end), in `IpcServer` (no client has to come),
nor in `TaskRows` and `UnserializedUpdates`: a daemon whose tasks are all over, with
no request pending, has nothing to do.

Fairness.
* `ControlPlane!FairSpec`: a daemon that is down is started again
  (`Restart=on-failure` in `systemd/kitty-a2a.service`, or the user). Nothing is
  assumed of requests, agents, or how long a daemon lives.
* `EventChannel!FairSpec`: the accept loop serves its backlog; a frontend runs
  with `--follow`, continues its loop and is started again after it died. Deaths
  are bounded, which stands for "not killed each time before it printed".
* `IpcServer!FairSpec`: the threads run, handlers return unless they read an
  agent's stream, and signals do not interrupt every `poll` and `accept`. A
  `subscribe` or `stream_submit` request reads its stream in the accept thread,
  without stop token and without time limit, and no agent is assumed to end it.
* `TaskManager!FairSpec`: threads run and the daemon is started again; for each
  task, the threads that keep its row up to date reach its agent sometimes if
  they ask for ever (the code retries for ever with a back-off), not all their
  writes are dropped if they try for ever, and their events find the control
  connection free now and then (five-second busy timeout). Nothing is assumed of
  clients.
* `Discovery!FairSpec`: the daemon is started again, a request to an address ends
  (`CURLOPT_TIMEOUT_MS`), five minutes pass, an address that serves a card is
  reached sometimes if it is asked for ever, and somebody asks for each agent
  again and again. Changes and deaths are bounded, which stands for "in the end
  the card stays what it is"; dropped writes of the table are not.

## 4. Properties worth a second look

* `OutcomesAreFinal` depends on the instance lock: `finish` overwrites the
  record without looking at its state, and the constructor settles every
  DISPATCHING record it finds. Without the lock the recovery of a second daemon
  settles a live dispatch and a late `finish` changes the outcome.
* `ContinuationDeliveredOnce` depends on the accept thread being serial: the
  continuation is checked in `begin` and marked in `finish`. With a thread per
  connection two requests could deliver the same continuation.
* `NothingSkipped` holds although two frontends share a cursor: each
  acknowledges only what it printed, starting at the cursor it read from.
* `AcksAreCovered` holds although frontends share `delivered`, since that never
  shrinks: an acknowledgement is never refused as one beyond the delivered. One
  that arrives below the cursor, because a later one was served first, is refused
  (`ControlPlane.cpp:299`); the events it covers are acknowledged already.
* `StopEnds` has two exceptions the code has too: `stop` closes the listener
  while the accept thread may be about to poll it, and if another thread was given
  the number in between, the poll waits for that thread's file; and `stop` joins
  an accept thread that reads a stream its agent never ends. The second is also
  the only exception of `NobodyWaitsForever`.
* `NumbersAreOwned` holds because a connection leaves `clients` before it is
  closed and `stop` only shuts connections down until the thread was joined.
* `OneLinePerConnection` holds because no event is sent on a connection: the
  documents promise otherwise (section 6), and a client that took them at their
  word would be told nothing.
* `OutcomesFitAnswers` says that silence leaves an execution UNCERTAIN, a refusal of
  the agent FAILED, and that DELIVERED needs an acceptance that can be read. It
  names what the code judges without knowing. `TakenForRefused`: an HTTP 5xx, a gRPC
  status without a class of its own, RESOURCE_EXHAUSTED for an oversized answer and
  an OK answer that cannot be converted (`GrpcTransport.cpp:95-97`) count as FAILED,
  and so may be retried, though the agent may have acted. `TakenForDelivered`: a
  submitted stream counts as DELIVERED for any 2xx or OK (`A2AClient.cpp:715-724`),
  an error object, garbage or no event at all included.
* `OpenTasksAreWatched` excepts the tasks in `missed`: those whose agent could
  not be discovered when the subscription was due, those that became remote tasks
  only in `respondToTask` (it does not subscribe), and those whose thread ended
  because their row was terminal when a late write reopened it.
* `EndingsAreLearnt` is about daemons that poll: the next poll repairs what a broken
  stream, a dropped write or a stale one left. It would be false without polling,
  which is the default. An agent refuses `SubscribeToTask` for a task that is over
  (`src/proto/a2a.proto:39-40`), so `Connect` needs an open one, and a subscription
  whose stream broke before the end, or whose last write was dropped, asks in vain
  until the next start.
* `NoForeignCards` depends on the comparison of endpoints in the constructor: a
  dropped write may leave the row of an endpoint that is no longer configured.
* `BindingsFitCards` excepts a URL that another agent's card registered too:
  bindings are kept per URL, so of two agents behind one URL the later registration
  wins. It also excepts the agents in `halfway`: `discover` registers the interfaces
  at line 164 and may throw after it, on a card with malformed `securitySchemes`.
  `discoverAgent` does not catch that, so the new bindings stay beside the old card
  until the next discovery (after an explicit `discover`, which the control plane
  catches) or the process ends (on any other thread).
* `CardsAreRefreshed` holds although a failed discovery is cached for five minutes
  like any other, and although the table may keep an older card. Its exception is an
  address that goes on serving a malformed card, which ends every discovery early.
* `MigrationSurvivesCrashes` holds because the column `remote_task_id` is added in
  the transaction that fills it: a file without the column has tasks of version 1
  only, and one with it is never filled again. Were the column added before, an
  attempt cut short after it would leave the tasks without ids for good.
* `FramingIgnoresCuts` is about chunks as the network cuts them, an empty line
  split in two included; `EventsOf`, which it compares with, has no buffer and
  reads the text one symbol at a time.
* `WalksAreComplete` holds with a cursor and no snapshot because a page ends with
  the row its cursor names, and rows are not deleted.
* `ArtifactsAreWhole` says that a file reported as materialized is whole. A file
  left by a crash stays partial and is refused from then on (`O_EXCL`): safe, but
  the owner has to remove it.

## 5. Proofs

Each theorem holds for every value of the constants under the named `ASSUME`s of
the module it is about, which TLC evaluates in every run of that module: types of
constants, `None` outside the sets it is compared with, bounds that are numbers,
for `ControlPlane` that each worker belongs to a daemon and that the ids of
executions and continuations are different ones (`SubjectsAssumption`: the model
keeps one audit trail per id, where the events of the code name the kind too), for `IpcServer` that two
descriptor numbers are left to the server whatever other threads have open.
TLC checked every inductive invariant on a small instance before it was proved.

**`ControlPlaneProofs`**: `TypeCorrect` (`TypeOK`), `DispatchedAtMostOnce`
(`AtMostOnceDispatch`), `SettledForever` (`OutcomesAreFinal`), `LedgerRefinement`
(`ImplementsLedger`: `ControlPlane` implements `DispatchLedger` with `outcome[i] =
execution[i].state`). `AtMostOnceDispatch` is not inductive: a thread in
"dispatch" might hold an id that was already called. `DispatchInv` adds what rules
this out:

* `OneHolder`: a busy thread belongs to a running daemon that has the lock (so
  at most one daemon is up), its id is DISPATCHING, and no two threads hold the
  same id;
* `CallCount`: an id was called at most once; not at all while its record is
  absent or its holder is still at "dispatch"; exactly once while its holder is
  at "finish".

Admission gives an unused id one holder, dispatch uses it up, and `finish`, a
crash and a restart take it away; recovery meets no holder because the lock was
free. `DispatchSteps` reduces the steps that touch none of this to one case.

**`GovernanceProofs`** builds on `DispatchInv`:

* `RetriesAreSound` (`RetriesFollowFailure`: what a retry names is FAILED and stays
  so; that kind or parameters match is neither checked by the code nor claimed) and `AnswersNeverDiffer`
  (`AnswersAgree`) need that a settled record never changes.
* `DelegationNarrows` and `ChainsBounded` (`DelegationAttenuates`,
  `ChainsAreBounded`) share `ChainInv`: the parent of an
  execution and every id of its chain are executions themselves (`Lineage`), beside
  the two properties. Without `Lineage` a new execution could take an id that an
  older chain already names, and change what that chain says.
* `FullCountsQuarantine` and `OnlyOwnersRelease` follow the health record of one
  agent through `finish` and the owner's operations.
* `FencesGrow` needs `FenceInv`: no admitted fence exceeds the lease's current
  one. A lease that ran out, or was released, keeps its number.
* `GrantsBind` needs `GrantInv`: also that a running daemon has a mode that was
  chosen for it.
* `ContinuationsDeliveredOnce` assumes `SerialHandlers`, one handler thread per
  daemon, which is what `acceptLoop` provides; without it the property is false.
  `ContinuationInv` adds to the property that a continuation is still pending
  while a thread works on it.
* `AuditIsComplete` (`AuditTellsTheState`) needs nothing beyond `DispatchInv`:
  `LastAppended` says what the last event about a subject is after one more (that there is a last
  one is `Greatest` of `NumberLemmas`), and every action is one of two kinds for
  each id: it appends the event that names the new state, or it touches neither
  the trail nor the records.

**`EventChannelProofs`**: `ChannelTypeCorrect`, `NoEventSkipped`
(`NothingSkipped`), `AcknowledgementsCovered` (`AcksAreCovered`),
`CursorsOnlyAdvance` (`CursorsAdvance`). What a cursor passes was printed only
because every acknowledgement still on its way is for printed events; `ChannelInv`
says so of the calls in the backlog (`AcksInv`), of a frontend between two of its
events (`FrontendsInv`: everything from where it began to the next event is
printed, and the page it has is delivered) and of the cursors (`CursorsInv`).

**`TaskManagerProofs`**: `TasksTypeCorrect`, `EndingsAreReal`
(`NoFakeCompletion`), `StreamsAreSingle` (`OneStreamPerTask`), `OpenTasksWatched`
(`OpenTasksAreWatched`). `TasksInv` says of every image of a row, in the table, in
a thread's hands before and after its call, and in the list of the main thread,
that the agent's updates so far back it; since updates only grow, an image that
was right stays right however late it is written. `StreamsInv` gives each
subscription thread a task in `subscribed` that no other thread has. `WatchInv`
adds which of these images know the remote id, and that each open row of a
streaming agent is subscribed, listed for subscription, about to be subscribed by
the thread that created it, or in `missed`. The state of a row is the last one the
agent reported, an element chosen from a set of positions: that it exists is
`NumberLemmas`, by the well-foundedness of the natural numbers.

**`IpcServerProofs`**: `ServerTypeCorrect`, `NumbersOwned` (`NumbersAreOwned`),
`OneLineEach` (`OneLinePerConnection`). `ServerInv` says what each number stands
for: only the accept thread's number is a connection, only the one `stop` knows is
the listener, the others' files are counted, so one number is free whenever the
accept thread needs one, and it is nobody's. `LinesInv` says that connections in
the backlog are distinct and unanswered and that the thread's own has no line yet
until it has sent one.

**`DiscoveryProofs`**: `DiscoveryTypeCorrect`, `CardsAreOwn` (`NoForeignCards`),
`BindingsMatchCards` (`BindingsFitCards`). `DiscoveryInv` says that at most one
thread is between the first request and the end of a discovery, that it asks
addresses of the configured endpoint only, that every saved card comes from an
address of the endpoint saved with it, and that an agent whose binding does not
fit its card is in `halfway`, which an agent enters with the first interface its
discovery registers and leaves when it is kept. A registration for another agent may
change a binding only at a URL which it claims in the same step.

**`AlgorithmProofs`** proves the six properties of `Algorithms` for texts, rules,
paths and listings of any size. `JobsAreTyped` (`JobOK`) says what each job's state
can be; `Kinds`, that one kind of job is never taken for another.

* `FramingIsComplete` (`FramingIgnoresCuts`). `FramingInv` relates the buffer to the
  reader without one (`Hears`): until the client stops, reading its buffer from
  where its events ended is the same as reading the whole text. `ReadingConcat`
  cuts a text in two, `UnixReads` drops carriage returns, `BlockReads` reads the
  lines before the first empty line, so that `TurnReads` shows that a turn of the
  loop moves one event and changes nothing of what is said, `DrainedReads` follows
  the turns until no empty line is left, and `ConsumeHears` puts them together.
* `LongestPathIsRouted` (`LongestPathRoutes`). `BestIsFirstLongest` is the invariant
  of the loop over the rules: after each turn the best is the first longest match
  so far.
* `WalksMissNothing` (`WalksAreComplete`). `WalkInv`: pages lie below the cursor and
  hold every row of the start that is not beyond it. `FirstOf` and `PageOf` say what
  `ORDER BY ... LIMIT` returns: an initial part of what is there, not empty unless
  nothing is there.
* `OutcomesAreJustified` (`OutcomesFitAnswers`) goes through the ways an exchange
  can end, `HttpFits`, `GrpcFits` and `StreamFits`.
* `InterruptedStartsMigrate` (`MigrationSurvivesCrashes`). `MigrationInv`: the steps
  taken have made their tables, and either the remote ids are those the tasks are
  to have, or the column is missing and no task has one (`RemoteKept`).
* `ArtifactsStayWhole` (`ArtifactsAreWhole`) is inductive as it stands.

What a loop computes is a recursive function of its turns, and the induction
theorems of the library, which take an operator, cannot be used by the provers at
hand. `NumberLemmas` states them without: `InductionUpTo` takes the *set* of numbers
that have a property, and `RecursionUpTo` a turn as a *function*, and says that a
function exists which does all turns. Both follow from the well-foundedness of the
natural numbers. `ReadingLoop`, `DataLinesLoop` and `BestsLoop` are instances: they
turn the definitions into equations for one turn.

Only model-checked: the six liveness properties (`OrphansAreSettled`,
`EverythingShown`, `EndingsAreLearnt`, `CardsAreRefreshed`, `NobodyWaitsForever`,
`StopEnds`). They rest on fairness and ENABLED, which the prover does not handle.
Every other property of a passing run has a theorem.

## 6. Where documents and code differ

* `QuarantineAfterRestarts`. `docs/briefing-enhancements.md:25` says that three
  consecutive uncertain dispatches quarantine an agent. Recovery in the
  constructor marks executions UNCERTAIN without counting them, so an agent whose
  dispatches take the daemon down is never quarantined.
* `UnserializedUpdates`. `docs/architecture.md:50` says that changes of a task are
  serialized. No lock spans read, call and write: the answer to a refresh that
  was overtaken by a subscription update overwrites it.
* `DroppedUpdates`. `docs/implementation-plan.md:105-106` says that subscriptions
  persist each task update. A write that meets an open control-plane transaction
  is dropped unnoticed, and the next update is merged into the row after the gap.
* `TornBindings`. `docs/protocol.md:248-250` says that the binding and tenant of
  the selected interface are applied to every request. While an agent is discovered
  again, every interface of its card passes through the table of bindings, and a
  call of another thread made meanwhile takes what it finds there.
* `SilentEvents`. `docs/protocol.md:134`, `docs/architecture.md:146` and
  `docs/kitty-integration.md:101` say that `task.state_changed` events are broadcast
  to every open connection, and so do `docs/implementation-plan.md:106` and
  `IpcServer.hpp:47`. `broadcastEvent` has no caller; the sink of `main.cpp:396` writes
  to the control plane's events, which clients read with `channel.read` or
  `events.read`.

Disagreements that are no runs of their own, because the models follow the code and
the properties say so:

* `docs/architecture.md:49` and `IpcServer.hpp:24-26` speak of one short-lived thread
  per connection. `acceptLoop` handles each connection itself, one after the other;
  `ContinuationDeliveredOnce` depends on that.
* `docs/implementation-plan.md:105-107` says that a subscription persists each update
  and reconnects with bounded back-off. After the end of a task the reconnection is
  refused (`src/proto/a2a.proto:39-40`), so an end that was missed is not learnt
  without polling (`EndingsAreLearnt`).
* `ControlPlane.hpp:14` says that uncertain outcomes are never retried, and
  `docs/briefing-enhancements.md:15` that `retry_of` only accepts a definitively
  failed attempt. Some outcomes count as definite although they are not
  (`TakenForRefused`).
* `docs/protocol.md:248-250`, once more: after a discovery that a malformed card broke
  off, calls use the binding of a card that was never kept (`halfway`).

## 7. Not modelled

* IPC server: `broadcastEvent` (nothing calls it) and the set `serving`, owner and
  mode checks of the socket file, running out of descriptors, two daemons of
  different databases on one socket path (the instance lock belongs to the
  database).
* Control plane: `provenance.record` stores an entry nothing reads; the SHA-256
  chain over the events is the order of the log.
* Task manager: which credentials and headers go with a request. Credentials are
  read from the environment or a file at each use and leave no state.
* The request table of `main.cpp` beyond the requests that write task rows, open a
  stream or reach the control plane: it converts between JSON and calls.
* Whether an agent that refuses has acted all the same: `OutcomesFitAnswers` takes a
  client error (HTTP 3xx and 4xx, a JSON-RPC error) at its word.
* `HttpTransport.cpp`, `GrpcTransport.cpp`: what libcurl and gRPC do inside; their
  results are the inputs of `Answers`.
* Credentials, YAML parsing, option parsing, JSON and table formatting: input and
  output without state. `proto/` is a third-party interface definition,
  `tools/generate_sbom.py` a one-shot script.

## 8. Plan

Done: every module of section 2, every property of section 3, and the proofs of
section 5. What could follow, in this order:

1. Two daemons of different databases on one socket path: probe, unlink, bind and
   listen of one between those of the other, and the removal of the path at the
   end of either.
2. `broadcastEvent` against the one-line contract, once something calls it.
3. Selection of credentials by security requirement as a pure operator.
4. An abstract task table (one register per task that only moves towards the
   agent's state) as a specification `TaskManager` would implement if rows were
   written under a lock; section 6 shows where it does not.
