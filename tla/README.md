# CH-UI: specifications and proofs

CH-UI is a workspace for ClickHouse: one Go server (SQLite for its own state, a
Svelte UI) and *agents*, small processes next to each ClickHouse that open an
outbound websocket to the server. Every query of the product goes through such a
tunnel. Around it the server runs background workers: pipelines, scheduled
queries, models, alerts, governance and health harvesters.

This directory models the parts of that code where several goroutines, processes
or restarts meet. TLC checks the models on small instances; TLAPS proves the most
important invariants for every value of the constants. `PROJECT.json` maps each
definition to the lines it translates.

## 1. Inventory

| Component | Code | State | Operations | What is hard |
|---|---|---|---|---|
| Tunnel gateway | `internal/tunnel` | `tunnels` (sync.Map), `Pending` of each tunnel, `LastSeen`, `connections.status` | authenticate, evict, read loop, heartbeat, disconnect, calls with timeout, streams | every session and every caller is a goroutine of its own; check-then-store; disconnect from several goroutines; bounded channels that are closed |
| Agent | `connector/connector.go`, `connector/clickhouse.go` | `conn`, `done`, `authenticated`, backoff | connect, authenticate, message loop, queries, reconnect, shutdown, takeover | queries that outlive their connection, shutdown against reconnect, a channel closed twice |
| Embedded agent | `internal/embedded` | one agent with takeover | start, stop | as the agent |
| Query handlers | `internal/server/handlers/query.go`, `query_upload.go` | query history, stream handler state | run, stream, upload | client cancels against stream messages |
| Pipelines | `internal/pipelines`, `handlers/pipelines.go`, `database/pipelines.go` | `running` map, batch channel, source positions, runs | start, stop, stop all, batch, ack, sink | two starts of one pipeline, shutdown, at-least-once delivery |
| Models | `internal/models`, `handlers/models.go`, `database/models.go` | models, run rows, results, lock of the connection, model schedules | references, order, run all, run one, scheduled runs, edits | cycles, skipped dependents, partial failure, late statements, restart during a run |
| Scheduler | `internal/scheduler` | `schedules.next_run_at`, runs | tick, execute with concurrency 3, cron | edits during a run, crash during a run |
| Alerts | `internal/alerts`, `database/alerts.go`, `database/alert_digests.go` | events, dispatch jobs, digests | materialise, send, retry, escalate, digest | crash between database writes, retries, cooldown |
| Governance | `internal/governance`, `handlers/governance.go` | copies of the access tables, access matrix, query log, watermarks, violations, incidents | sync in the background and on request, guardrails, incidents, setting on and off | watermarks against failures and limits, concurrent syncs, select-then-insert, tables deleted and inserted again while they are read |
| Login and limits | `server/middleware`, `database/rate_limits.go`, `database/sessions.go`, `handlers/auth*.go`, `handlers/admin.go` | attempts, lock level, sessions, roles | attempt, lock, reset, login by password or provider, switch, logout, roles | concurrent attempts, roles read before a login ends, checks of the last administrator |
| Cluster health | `internal/clusterhealth` | snapshots, subscriptions | harvest, read | overlapping harvests |
| Brain | `internal/brain`, `handlers/brain.go`, `handlers/admin_brain.go`, `database/brain.go` | chats, messages, approvals, artifacts; providers, models, skills | stream with a tool loop, approve, edit and delete chats, settings | a decision that races its timeout and the end of its stream, chats that change under a stream, one default among many writers |
| GitHub sync | `internal/github`, `handlers/github.go`, `database/github.go` | settings with `last_sync_sha`, models marked as from GitHub | push, sync, edit of the settings | two syncs at a time, partial failure, users who edit the same models, restart between two statements |
| Query processing | `internal/queryproc`, `internal/queryinsights` | none | variable substitution, analysis | pure text |
| Dashboards, saved queries, models, pipelines of users | `internal/server/handlers`, `internal/database`, `internal/brain/tools` | rows that refer to one another, share links, invites | requests and tools of the assistant | a row read whole and written whole, deletions under an edit, an upsert of what was deleted, links that change under their viewers |
| Uploads | `handlers/query_upload.go` | a file, a table | inferred types, creation, batches | a batch that fails, types that do not fit, names that collide |
| Polling sources | `pipelines/database_source.go`, `s3_source.go` | watermark, processed objects | poll, read, batch | errors in the middle, marks before reads, restarts |
| Audit | `internal/audit`, `database/audit_logs.go` | rows, a bounded queue, sinks | log, forward, drain | a full queue, sinks that fail, the order of the shutdown |
| Server and commands | `internal/server/server.go`, `cmd` | worker lifecycles, PID file, binary | start, stop, restart, update, shutdown | commands that overlap, stale PID files, crashes |
| License, config, crypto, OIDC | `internal/license`, `config`, `crypto`, `oidc` | none | parse, verify | pure |
| UI, deployment, docs | `ui`, `deploy`, `docs` | - | - | not part of the models |

What makes each component correct:

- **Tunnel gateway**: a registered tunnel has a session that serves it; a late
  disconnect takes nothing from the tunnel that replaced it; a call ends once, with
  the answer to that very call or an error; the status in the database becomes that
  of the tunnel.
- **Tunnel streams**: a stream that is recorded as a success delivered every chunk;
  one that a disconnect cuts is told so.
- **Agent**: one websocket at a time; an answer goes out on the connection of its
  question, as long as that is open; the agent connects again after a websocket breaks; a
  shutdown ends its goroutines.
- **Pipelines**: a live run is in reach of a stop request; the status tells whether a
  run exists; what the source has passed is written or its failure reported; a
  cancelled run and a shutdown end.
- **Models**: a model is built after the models it refers to; one run per
  connection is started at a time; the outcome of a run tells what happened to its models.
- **Scheduler**: an occurrence is run once, but for a request overtaken by a tick; a
  schedule that is due is run; a run that
  failed is alerted; a run that is recorded as running is owned by a goroutine.
- **Alerts**: an event becomes one job for each route, is sent at most as often as its
  attempts allow, and in the end is sent or failed.
- **Governance**: a query is blocked only for a cause; the copies become exact; no
  query is passed over by the watermark; a violation is recorded and counted once.
- **GitHub sync**: what is recorded as synced is what is in the repository; models of
  users are left alone.
- **What users make**: nothing refers to what is gone; what is deleted stays deleted; an
  edit changes what it names; a link serves what its owner shared; what runs can be stopped.
- **Brain**: a gated tool runs only as its user decided, once; no decision is lost; nothing
  waits longer than its stream; whoever names no model gets an active default.
- **Login**: wrong attempts are limited, a lock lasts, a session has the role it was let in
  with, at most one login makes the first administrator, somebody remains administrator.
- **Uploads and polling**: whole batches in order with the values of the file or what a known
  conversion makes of them, in columns that accept them; what counts as read was read, and is kept or its loss reported.
- **Server**: the PID file names who listens; an update leaves a verified binary and a
  server that runs it; only servers are stopped.
- **Audit**: what was queued before the shutdown reaches every sink or is warned of.

`PROJECT.json` lists the hazards of each part at the lines where they bite.

## 2. Plan

The order is by what the rest depends on: every query goes through the tunnel, then
come the workers that run without a user. A module is written for one component;
modules meet where components do.

| # | Module | Component | Composes | State |
|---|---|---|---|---|
| 1 | `RemoteCall` | abstract: one call, one result | - | done |
| 2 | `TunnelGateway` | gateway; implements `RemoteCall` | `RemoteCall` (INSTANCE) | done, proved |
| 3 | `TunnelStream` | streams through one tunnel | - | done, proved |
| 4 | `Connector` | agent | - | done, proved |
| 5 | `PipelineRunner` | life of runs | - | done, proved |
| 6 | `PipelineDelivery` | records from Kafka or webhook to the table | - | done, proved |
| 7 | `AlertDispatcher` | events, jobs, digests | - | done, proved |
| 8 | `Scheduler` | scheduled queries | - | done, proved |
| 9 | `GitHubSync` | models from a repository | - | done, proved |
| 10 | `ModelGraph`, `ModelRunner` | order and runs of models | `ModelRunner` uses `ModelGraph` | done, proved |
| 11 | `AccessSync` | access data, guardrails, background loop | - | done, proved |
| 12 | `QueryLogSync` | query log, watermark, violations, incidents | - | done, proved |
| 13 | `Logins` | the rate limiter's rows, attempts, locks, roles, sessions, sign-on | - | done, proved |
| 14 | `WorkspaceStore`, `Workspace`, `BrainTools` | what users make | `BrainTools` works on `Workspace`, both on the tables of `WorkspaceStore` | done, proved |
| 15 | `BrainChat`, `BrainSettings` | the assistant | - | done, proved |
| 16 | `ServerProcess` | commands around the server | - | done, proved |
| 17 | `Uploads`, `PollingSources` | rows from files, databases and buckets | - | done, proved |
| 18 | `AuditForwarder` | audited events | - | done, proved |
| 19 | `ControlPlaneMC` | the parts 3, 9 and 13 to 18 in one instance | all of these | done |
| 20 | `AgentAndGateway` | both ends of a websocket | `Connector`, `TunnelGateway` | not written |

Abstract specifications worth stating: `RemoteCall` (done); a worker queue that hands out
each row at most so many times (for `AlertDispatcher` and `Scheduler`); at-least-once
delivery (for `PipelineDelivery`).

Each proof module is named after the component it is about. `ControlPlaneProofs` has the
theorems of most parts of `control_plane`, `PipelineProofs` those of the three pipeline modules and of uploads,
`SchedulerProofs` those of both runners with a schedule, of queries and of models, and of
the sync with GitHub, where models come from, `ConnectorProofs` those of the agent and of the
commands around the server, and `AccessSyncProofs` those of what users may read and of what
they make; where a module is not the one extended, it
is instantiated with variables of its own (`Audit!`, `Chat!`, `Settings!`, `Login!`,
`Server!`, `Runner!`, `Polling!`, `Up!`, `Build!`, `GitHub!`, `Work!`). `ControlPlaneMC` has TLC evaluate what the theorems about
instances of its parts assume of the constants.

Theorems worth proving next: an abstract queue that `AlertDispatcher` and `Scheduler` implement.

## 3. How the modules correspond to the code

A module has the state that goroutines, requests and restarts share, one action per
statement or critical section between which others can run, and the local variables of
each goroutine as a record with its program counter. A lock of the code that is held
over several statements is a variable; a statement of SQLite is atomic. Formats, texts
and rows of results are left out. Each definition has its lines in `PROJECT.json`.
Definitions whose comment begins with *Faulty* are not part of a specification: they
are the variants that show that a property can be violated.

Where the circumstances matter (which actors there are, what may fail, how often the
process may end), a module has them as a constant set `Scenarios`, one of which is
chosen in `Init` and never changes (`bound.of`, in `GitHubSync` `scenario`). A property
that needs some circumstances names them as its antecedent, so that one run checks each
property exactly where it is claimed, and all other properties beside it.

- **RemoteCall** - what a caller of `internal/tunnel/api.go` relies on: a request is
  executed zero or more times, and its result is one of these executions or an error.
- **TunnelGateway** - `tunnels`, the `Pending` map of each session, `LastSeen`, the
  status in the database. Sessions run `handleAuth` with its check and its store as
  two steps, the read loop, the heartbeat and `handleDisconnect`, which the read loop,
  an eviction and the heartbeat may run for one session at a time each. Calls run
  `ExecuteQuery`: load, store, write, wait. An implementation of `RemoteCall`.
- **TunnelStream** - one tunnel, the read loop that moves messages of the agent into
  the bounded `ChunkCh` of each stream, the handler that drains it and may leave, the
  clean-up and a disconnect that closes the channels, also between the two lookups of the
  end of a stream.
- **Connector** - `conn`, `authenticated`, `done`, the backoff and the flag `first`,
  with websockets as numbers. Dialling, storing, authentication, the message loop and
  reconnects are the steps of one goroutine; queries and the shutdown are others.
  `Embedded = TRUE` is `internal/embedded`, whose process outlives `Run`.
- **PipelineRunner** - the map `running` with its lock, the runs in their stages, the
  goroutine of the source, the status of each pipeline in the database, the start and
  stop requests, `Stop`, a crash and the `Start` that resumes what ran.
- **PipelineDelivery** - records as numbers: received, batched, in the channel, being
  written, in the table, marked, committed, reported. Kafka sessions end and start
  again from the committed offset; the webhook rejects when its buffer is full.
- **AlertDispatcher** - events, the queue of jobs and digests with status, attempts and
  time, the rule and its routes, the tick of the dispatcher as a list of statements.
- **Scheduler** - rows of `schedules` and `schedule_runs`, the tick that lists what is
  due, a goroutine per listed schedule that waits for one of the places, requests that
  read and write the rows. The next minute is computed in one step, from the clock of that
  moment, and stored in a later one, with ticks between. Cron expressions are sets of
  minutes within a horizon; `ComputeNextRun` searches as the code does.
- **GitHubSync** - the repository (commits as sets of files with content), the
  settings, the models; a sync reads the head, lists, fetches and writes in turn.
- **WorkspaceStore / Workspace / BrainTools** - dashboards, panels, shares, invites, saved
  queries, models and pipelines as tables of one record; `WorkspaceStore` has one operator
  per function of `internal/database` that writes them. A handler reads in one step and
  writes in a later one what it read; tools do so next to them. A field holds the actor
  who wrote it last, so that an edit that writes back a stale value shows. A run of a
  pipeline is its row and its entry in the map, each written in a step of its own.
- **BrainChat** - one chat, the streams with their iterations, calls, approvals and the
  channel each approval waits on, those who decide, and the edits of the chat. Its row holds
  for each setting (title, archived, model, provider, context) who wrote it, and a blank for
  what a request or another setting clears. Timeouts,
  the client who leaves and a restart come between any two statements.
- **BrainSettings** - providers, models and skills with their flags, each request as the
  statements it makes, the refresh of the list of a provider, and the choice of a model
  for who names none.
- **Logins** - a row of `rate_limits` under a check and an attempt, as
  functions; requests that read the row and write it later, the test of credentials, the
  role, the session, the two requests of a sign-on by a provider, and the roles that
  administrators set. Time is a clock of ticks.
- **ServerProcess** - processes with their phases, the PID file, the port, the inodes of
  the binary and of its download. Every access of the file system is a step.
- **Uploads** - the cells of a small file as tokens, the type inferred for a column, the
  match with the columns of the table, the conversion of each cell (a token for each kind
  of value a conversion changes, and one for what it becomes); the table as the sequence of the INSERTs that took effect, with their lines. The name of a column is a
  word with the numbers that were appended to it.
- **PollingSources** - what is foreign (a query or objects), the position of the source, the
  batches in the channel, the one being written, and what is kept, reported or whole.
- **AuditForwarder** - events from their row through the bounded queue and the one worker
  to each sink, while the server shuts down in the order of `Server.Shutdown`.
- **ControlPlaneMC** - these parts, and `TunnelStream`, share no variable of the server that
  the properties speak of: a request of one leaves the tables of the others alone. Init
  chooses a part, whose module is instantiated with the scenarios of its own MC module;
  the variables of the others hold `None`. `BrainTools` is where two parts do meet (the
  tools of the assistant and the tables of users), and is composed with `Workspace`.
- **ModelGraph / ModelRunner** - the graph of references, its topological order as the
  set of orders that the map iteration may give, and the models that one run executes;
  runs as jobs, their rows and results, the lock of the connection, the scheduler, edits
  (of the text, the name and the database, which make another *place* in ClickHouse),
  and statements that take effect after the gateway has given up.
- **AccessSync** - the system tables, their copies, the matrix, `gov_sync_state`, each
  sync with the table it is at, the background goroutine and the setting, the guardrails.
- **QueryLogSync** - the log of ClickHouse with seconds and its buffer, the copies, the
  watermark, each sync with its batch, violations, the incidents of one key with the
  two statements of `UpsertIncidentFromViolation`, and the edits that write rows back.

## 4. Runs

`control_plane` checks ten parts in one run: each property names the part it is about, and
a behaviour of one part is a behaviour of its module. Streams may be exchanged, as no
definition names one (`Symmetry`). The run `last_admin` uses the instance of the part of
logins with two administrators.

Every run is small on purpose: two actors of a kind are enough for one to come between
the steps of another, and each bound (`Max...`) counts how often an environment may act.

| Run | Properties | Shows |
|---|---|---|
| `tunnel_gateway` | `RegistryInv`, `NoLiveRemoval`, `RemoteCallSpec`, `CallsReturn`, `StatusConverges` | Two websockets of two agents, one allowed to take over, and one call: the registry, the calls, the status in the database, and the refinement of RemoteCall. |
| `agent` | `SocketInv`, `AnswersReachAsker`, `Reconnects`, `ShutdownEnds` | Two queries while websockets break, dials fail, the gateway rejects the agent for a moment or for good, and the agent is shut down at any point: answers, reconnects and the end of its goroutines. |
| `pipeline_runner` | `RunInv`, `RunsSettle` | One webhook pipeline, two run slots, a batch channel of one, start calls that do not overlap: start, stop, failing and cancelled sources, shutdown, crash and resume. |
| `pipeline_shutdown` (violated) | `ShutdownEnds` | With two running pipelines Stop never returns: it waits for Done while it holds r.mu, which the run needs before it can close Done, and its timer fires only once. |
| `pipeline_delivery` | `NoSilentLoss`, `Delivered` | A Kafka and a webhook pipeline with failing writes, failing table creation, rebalances, stops and crashes: what was passed or committed is written or reported, and in the end everything is. |
| `model_runs` | `BuildInv`, `RefusesCycles`, `DueIsAttempted` | Every graph of three models in every order in which its map may be visited; two runs with failures; two requests and the scheduler that compete for the lock while a model is edited and a statement times out; a restart. |
| `alerts` | `QueueInv`, `DigestClosed`, `EventsSettle` | One immediate and one digest route, two events, two attempts, one row per tick: a crash or stop between any two statements, a rule saved meanwhile, windows of one and of several ticks. |
| `schedules` | `ScheduleInv`, `OncePerOccurrence`, `DueIsRun` | Two schedules and one place to run them, two requests that create, edit, delete or run them by hand, statement by statement, and one end of the process. |
| `access_sync` | `AccessInv`, `BlockedForCause`, `CatchesUp` | A full sync and the background sync while grants and policies change and a query is evaluated; a sync of the access data alone next to the background sync; the background sync turned off and on; failures, lost rows and a restart. |
| `query_log` | `HarvestInv`, `IncidentInv`, `AllHarvested` | Batches smaller than the log copied by two kinds of syncs; one sync over three queries; four writers of the incidents of one key; failures, a late log and restarts. |
| `control_plane` | `SuccessIsComplete`, `NoSilentStream`, `SyncInv`, `ModelsKept`, `WorkspaceInv`, `EditsKept`, `AssistantInv`, `ChatSteps`, `LoginInv`, `LoginSteps`, `ServerInv`, `LoadInv` | Ten parts that share no state, each from initial states of its own: streams through a tunnel, syncs with GitHub, edits of dashboards, queries, models and pipelines by users and by tools, chats with approvals, the settings of the assistant, logins and roles, the commands around the server process, uploads, the pipeline sources that poll, and the audit forwarder. |
| `last_admin` (violated) | `AdminsRemain` | Two administrators who take the role of each other at the same time leave none, although each was checked not to be the last. |

An invariant named `...Inv` is a conjunction: the type invariant of its module and the
named parts defined above it, each with its comment. In `TunnelGateway`, `TunnelStream`,
`PipelineDelivery` and `Scheduler` the types are a theorem of their own (section 5), and the
runs do not check them again.

### The bounds

- *Two sessions, calls, streams, requests or syncs*: the code coordinates them through
  a map entry, a row or a lock, and each rule of that coordination relates two. Where a
  third matters, as a websocket after two that broke, there are three.
- *Channels of capacity 1 or 2*: full, empty and, with 2, in between.
- *Faults, crashes and edits: one or two*. With one, every statement fails or is cut
  off in some behaviour; two cover a fault during the recovery from another
  (two failures in one scenario of `model_runs`, three troubles in `agent`).
- *Time*: only as far as the second occurrence, retry or tick that a property relates
  to the first. The horizon of `ComputeNextRun` stands for its year; the expressions
  of the runs recur within it.
- *Batches of one or two* with two or three records or queries: a batch ends before,
  at and after the end of the data.
- *Two clients, administrators, streams of a chat or commands*, and up to four requests: one
  reads, the other writes, and a third comes after both. One client may make all of them
  where the order of requests, and not their overlap, is the question (attempts, locks).
- *Files of an upload* of up to four rows with batches of two; cells of every kind that the
  inference tells apart, mixed with empty cells. *Polls*: three, over two objects or a
  query of four rows with a later insertion.
- *Process ids and inodes*: as many as the commands of a scenario can use.
- *Graphs of three models*: chains, forks, joins, cycles of one, two and three.

### Fairness

Fairness states that goroutines go on and timers fire: in Go a runnable goroutine runs,
and every wait of the modelled code has a timer or an end. It is weak, with one
exception in `TunnelGateway`: `SF_vars(ReadFail(s))`. Once a websocket no longer works
its reads fail, but only after the finitely many messages that were buffered before;
while those are read, a failing read is not enabled all the time. That the reads end at all
is the heartbeat's doing: the gateway sets no read deadline, but drops a tunnel from which
nothing has come for three minutes, and closes its websocket (`gateway.go:614`).

- Gateway and streams: sessions read, write and time out; a call has its timer. No
  fairness for agents, callers and clients, who may go away.
- Agent: dialling, reading and answering go on. A question need never come, so
  `ReadQuery` is not fair. `Reconnects` supposes that the troubles of the network end
  (`MaxTroubles`); a dial then succeeds.
- Pipelines: runs, sources and writes go on; the broker and the senders of webhooks
  are not fair where a property does not need them. `Delivered` supposes that what
  stops a run is bounded.
- Alerts, scheduler and models: ticks come (`time.Ticker`), statements end, the places
  are given up. Calls return because the gateway times them out.
- Governance: the clock, the ticks and the steps of syncs. The tick starts a sync only
  with an active session and a connected tunnel, which these runs suppose.
- The parts of `control_plane` are checked for safety only. What must come in the end is
  stated of the states where nothing is left to do (`MessagesSettle` of `BrainChat`,
  `SomeoneServes` of `ServerProcess`). It stops where the parts stop: a bounded number of
  requests was made.

## 5. Proofs

TLAPS proves, for every value of the constants that satisfies the assumption of the
module (sets of any size; bounds any natural numbers):

| Theorem | Property | Says |
|---|---|---|
| `TypeCorrect` of `TunnelGatewayProofs` |  | The types of the gateway state, for any number of sessions, agents and calls. |
| `NoGhostTunnels` of `TunnelGatewayProofs` |  | A registered tunnel always has a readLoop that serves it or is about to remove it. |
| `DroppedCallsAreGone` of `TunnelGatewayProofs` |  | Only calls of a tunnel that left the registry are told that it disconnected. |
| `LiveTunnelsAreNotRemoved` of `TunnelGatewayProofs` | `NoLiveRemoval` | No handleDisconnect, in whatever goroutine, removes a tunnel whose websocket works. |
| `ImplementsRemoteCall` of `TunnelGatewayProofs` | `RemoteCallSpec` | The gateway implements the abstract call of RemoteCall: a result only from the execution of that very call. |
| `TypeCorrect` of `ControlPlaneProofs` |  | The types of the streaming state; in particular ChunkCh never holds more than its capacity. |
| `SuccessesAreComplete` of `ControlPlaneProofs` | `SuccessIsComplete` | A stream recorded as a success has passed on every chunk the agent sent. |
| `RegistryIsSound` of `TunnelGatewayProofs` | `RegistryInv` | The two together: the registry never names a dead tunnel for good, nor forgets a live one. |
| `DisconnectTellsEveryStream` of `ControlPlaneProofs` | `NoSilentStream` | No caller waits on a stream whose tunnel is gone: whoever removes a tunnel owes each of its streams an answer until it has one. |
| `OneSocketAtATime` of `ConnectorProofs` | `SocketInv` | The agent holds one websocket at a time, and its loops run on the one that is registered. |
| `AnswersAreForTheAsker` of `ConnectorProofs` | `AnswersReachAsker` | A result goes out on the websocket that asked for it; one is lost, or goes out on a later websocket of the agent, only when the one that asked is no longer open. |
| `TypeCorrect` of `PipelineProofs` |  | Every reachable state of PipelineDelivery is well typed, for every batch size, capacity and number of records. |
| `LossReported` of `PipelineProofs` |  | For a Kafka group that has committed before, whatever is behind the committed offset is in the table or its failure was reported, through stops, crashes, rebalances and failing writes. |
| `CommittedWritten` of `PipelineProofs` |  | If no write fails, every committed record is in the table. |
| `PassedKept` of `PipelineProofs` |  | No record the Kafka source has passed disappears without a trace. |
| `NothingLostSilently` of `PipelineProofs` | `NoSilentLoss` | The two together: nothing passed or committed is lost without a trace. |
| `RunsAreInMap` of `PipelineProofs` |  | For any number of pipelines, runs and starts, also where starts of a pipeline overlap: what a stop finds in the map is a run of its pipeline that has not ended. In every behaviour in which no pipeline is being started twice at one moment: each run that is executed is in the map, and a pipeline stored as running is run, started or about to be resumed (RunInv of PipelineRunner). |
| `ModelsOfUsersAreKept` of `SchedulerProofs` |  | For any files, contents, syncs, users and scenarios: no sync, however many overlap or are cut off, changes or deletes a model that a user made, and one deletes a model only if its file is not below the path or was removed or broken since the commit the sync is at (where no fetch of a file fails). |
| `SyncedModelsAreCurrent` of `SchedulerProofs` |  | For any of them: the types, and when one sync at a time runs undisturbed and last_sync_sha is the tip, the models of GitHub are the files of that commit. |
| `ModelsAreBuilt` of `SchedulerProofs` |  | For any models, requests, edits and faults: a build executes the models that were asked for, each after its sources and not when one of them was not built; each is accounted for once, and the status of the run is what became of them; a row that says running is the one build under way, and a model that says success is in ClickHouse where it was built, as far as restarts and late statements allow (BuildInv of ModelRunner). |
| `OneBuildAtATime` of `SchedulerProofs` |  | At most one request or tick is between acquireLock and releaseLock, and the lock is taken exactly while one is. |
| `CyclesAreRefused` of `SchedulerProofs` |  | A run is refused exactly when the references of the models admit no ranking, that is, when they go round in a circle: the algorithm of Kahn finds an order of all models whenever there is one (RefusesCycles of ModelRunner). |
| `QueueIsSound` of `AlertDispatcherProofs` | `QueueInv` | For any number of events, routes and up to 31 attempts, and whenever the process ends or the rule is saved: an event marked processed is with each of its routes, none is with a route twice, one row is being sent at a time, and none more often than its limit. |
| `DigestsAreClosed` of `AlertDispatcherProofs` | `DigestClosed` | A digest that was sent or tried takes no further event. |
| `TypeCorrect` of `SchedulerProofs` |  | Every reachable state of the runner has the types of TypeOK, for every set of schedules, requests and expressions. |
| `OncePerOccurrenceHolds` of `SchedulerProofs` | `OncePerOccurrence` | A process starts at most one run for an occurrence of a schedule, because next_run_at moves past it before the goroutine ends, unless a request that computed the occurrence before a tick listed it stores it after, which brings it back once. |
| `DisabledRunsAtMostOnce` of `SchedulerProofs` |  | A schedule that is off or deleted begins at most the one run that a tick had already listed. |
| `RunningRowsAreOwned` of `SchedulerProofs` |  | Until the process ends, a run recorded as running has the goroutine or request that will close it. |
| `FailuresAreAlerted` of `SchedulerProofs` |  | Until the process ends, a run recorded as failed by a tick is alerted or about to be. |
| `SchedulesAreKept` of `SchedulerProofs` | `ScheduleInv` | The three together, for every set of schedules and requests. |
| `AccessIsSound` of `AccessSyncProofs` | `AccessInv` | For any roles, syncs, goroutines, administrators and scenarios: when undisturbed syncs are over the matrix is that of ClickHouse, one full sync at most is under way, and one background goroutine runs exactly when the setting says so. |
| `NobodyIsBlockedWithoutCause` of `AccessSyncProofs` | `BlockedForCause` | The guardrails block a query only if the user lacked the privilege at some time, since the last sync without a failure began, or since then a row of a copy was lost or a restart cut an insertion. |
| `NothingIsPassedOver` of `QueryLogSyncProofs` | `HarvestInv` | While nothing fails and seconds are kept apart the watermark passes over no query, however syncs overlap and end; one sync at a time records no violation twice. |
| `OneIncidentIsOpen` of `QueryLogSyncProofs` |  | With one sync at a time and one edit, a dedupe key never has two open incidents. |
| `IncidentsAgree` of `QueryLogSyncProofs` | `IncidentInv` | Whatever was recorded as a violation, or asked for by a user, is counted in an incident or about to be, exactly so while nothing fails and however the writers overlap; and one writer at a time keeps one incident open. |
| `WorkspaceInOrder` of `AccessSyncProofs` |  | For any rows, clients, assistants, visitors and scenarios, and however their requests overlap or fail: no panel, link, invite or schedule outlives what it belongs to, names of models and the dashboard of the system are unique, whoever is let in through a private link has an invite of it, a mailed link opens as long as it exists, and a client who is alone never deletes a running pipeline (WorkspaceInv of Workspace). |
| `EditsStayApart` of `AccessSyncProofs` |  | For any of them: an edit under way brings back nothing that was deleted, no panel changes its dashboard, a request for a panel of one dashboard leaves those of others alone, and an edit that no other overtook keeps what it does not name, but for the description of a model, which every PUT replaces (EditsKept of Workspace). |
| `ApprovalsHold` of `ControlPlaneProofs` |  | For any streams, users, approvals, calls and limits, through failing statements, timeouts, clients that leave, a deleted chat and ends of the process: a gated call ran once at most and only as its row was approved; whoever waits is told of a decision that was made; no channel, no offer and no streaming message outlives its stream; and the provider of the chat is that of its model. |
| `DecisionsAreFinal` of `ControlPlaneProofs` |  | For any of them: a decision is final and a deleted chat stays deleted; an edit changes what it names and what goes with it (the provider with the model, table and database with the context), a stream the model, the provider and the title of a new chat; of the other settings they leave what they find or, when another wrote in between, bring back what they read. |
| `SettingsAgree` of `ControlPlaneProofs` |  | For any identifiers, administrators and preferences, and from any tables in order: however requests about providers, models and skills overlap and wherever one stops, there is one default each, no two models of a name, no model without its provider, and the default is used if it can be; one administrator alone keeps default models active, and a request for all models that nothing disturbs leaves what it says. |
| `LoginsHold` of `ControlPlaneProofs` |  | From one client, and with a working store, more than twice the attempts of a limit take at least the shortest lock; with one administrator a session let in as admin has its explicit row and logins make at most one user admin; and, under the same conditions, no step leaves nobody as admin or unlocks a key while its lock lasts, for any users, addresses, tokens, locks and limits. |
| `ServersHold` of `ConnectorProofs` |  | For any processes, inodes and commands: given one after the other, the PID file names whoever listens, the installed binary is a verified one and, without faults, the one that runs; of starts that overlap one serves; and no stop signals a process that is no server unless ids are used again, although commands overlap and processes crash. |
| `UploadsArrive` of `PipelineProofs` |  | For every file of the four formats, of any size, with the kinds of cells and headers of the module; every table, number of clients and size of a batch, and wherever an INSERT fails or its answer is lost: the rows of a request are in the table once, in the order of the file and by whole batches; each cell of the last column of its name has the value of the file, or the one that Changed says a conversion makes of it, and two columns get one name only if a header is already what a blank or repeated one becomes; an inferred type refuses none of its values but t, f and NaN; and no column that is not Nullable gets a null (UploadInv of Uploads). |
| `ReadRowsArrive` of `PipelineProofs` |  | For every table, bucket, batch size, channel capacity and number of polls, and wherever a reading breaks, a write fails or the run is killed: until the run is cancelled, an object stays marked only if it was read to its end, and each good row of what was read to its end is in the table, on its way there, or in a batch whose failed write was reported; and a row is copied at most once by each poll of a database, and by each run and each failed reading of an object (PollInv of PollingSources). |
| `CloseDrains` of `ControlPlaneProofs` |  | However many events, sinks and places in the queue there are: when Close has returned, every event queued before it was called is with each sink, or the log warns that it is not. |
| `SinksAgree` of `ControlPlaneProofs` |  | Every sink receives the events in one order, each at most once, however sinks fail. |
| `AuditIsSound` of `ControlPlaneProofs` |  | The two together, for every capacity of the queue and number of sinks. |

The arguments:

- **TunnelGateway** (`TunnelAssumption`). `NoGhostTunnel` alone is not kept: that the
  registry holds a session whose loop ended has to be excluded by what
  `handleDisconnect` is about to do. `IInv` relates the three places from which it may
  be run, the program counters of authentication and the registry: whoever compares
  the registry with its own session deletes only its own. The refinement maps a call
  to waiting, executed or ended; each step of the gateway is a step of `RemoteCall` or
  leaves that state.
- **TunnelStream** (`StreamAssumption`). `FlowInv` counts: the chunks sent by the agent
  are those received by the handler, in `ChunkCh`, held by the read loop or on the
  wire, in that order, and the end of the stream comes after them. A success is
  recorded at the end, when nothing is left in between. For `NoSilentStream` `DebtInv`
  says who owes the end of a stream: it is in the table, with the read loop that took its
  entry out, or in one of its two channels; when `handleDisconnect` has finished, the table
  holds only what was stored too late.
- **Connector** (`ConnectorAssumption`). `OneLiveSocket` is not kept by itself: a dial must
  find no live websocket. `LiveIsHeld` says where the live one is held, in the local
  variable between the dial and its assignment to `conn`, in `conn` otherwise; and
  `AskedOnOther` that no query has come on a websocket just dialled.
- **PipelineRunner** (`RunnerAssumption`, for any `MaxStarts`). Two calls of `StartPipeline`
  for one pipeline may overlap in the code, with the effect that section 6 names. What holds
  even then is `MapLive`: a goroutine removes the entry of its pipeline, whosever it is, before
  it ends, so that whatever a stop finds is a run that has not ended. For the rest the theorem
  supposes of a behaviour, not of the constants, that no pipeline is being started twice at
  one moment (`Apart`); starts of different pipelines, and a request beside the resume of
  another pipeline, overlap. `MapInv`: an executed run is in the map and the goroutine that
  removes the entry is its own; a start holds the only claim on the pipeline.
- **PipelineDelivery** (`DeliveryAssumption`; the theorems assume a Kafka source and a
  group that has committed once). `KeepInv` says of every record behind the
  position of the source that it is in the batch, in the channel, being written, in
  the table or reported, and what is not in memory starts after the committed
  offset. `TypeInv` gives the order of batches that a mark needs.
- **Scheduler** (`SchedulerAssumption`). `IInv` has five parts. `LaterInv`: the next run
  of a schedule that nobody runs is later than the last occurrence that was started,
  since the search of a cron expression returns a later minute (`NextIsLater`), and so is
  what somebody has computed and not stored, unless it is `overtaken` by a tick.
  `LateInv`: a schedule that began a run while it was off is off still and listed by
  no tick since. `OwnInv`: a tick that sleeps has left no goroutine, so that none is
  overwritten and each row that says running has its goroutine. `AlertInv`: a row has
  one goroutine, and says error only after that one found an error.
- **ModelGraph / ModelRunner** (`ModelAssumption`: the sequence of the models names each of them once, as the
  index of a table does). What the loops of the
  code compute is a function on the numbers of their rounds, so that a claim about a round that
  is not true has a first round where it is not (`StepByStep`, from the least element of a
  set of numbers); no induction over an operator is needed. `KahnStepKeeps` says what the loop of Kahn's
  algorithm keeps: the queue and the order have no model twice, whatever is in one of them has its
  sources in the order, and each in-degree counts the sources that are not. Hence `KahnOrders`, and
  `CompleteIffRanked`: all models come out if and only if the references have a ranking.
  `ReachIsClosed` and `SelectedIsAsked` say the same of the two searches of a pipeline and of
  a single model: the least sets that contain the model and its neighbours. The runner
  then needs four invariants: `JobsOK`, that a run has a sound order of
  what was asked for, has accounted for what it is past, and executes a model none of whose sources failed;
  `LockInv`; `RowInv`, that the run inside the lock has a row whose open results are those of the models to
  come; `ExistInv`, that what was executed is in ClickHouse, at the place the run read. The invariant by itself says nothing of
  a restart: the row it leaves in running is why `RunningIsLive` has its antecedent.
- **AlertDispatcher** (`AlertAssumption`; up to 31 attempts, since the backoff doubles for
  each of them and overflows beyond). A row is sent at most once an attempt, and what is
  listed as due was tried less often than its limit (`RowInv`). What a row holds is
  processed, or is the event at hand whose route is done with (`Known`), so that a route
  takes an event once. A digest that was tried belongs to a window that has ended, while
  events go to the window of their tick.
- **AccessSync** (`AccessAssumption`). For the matrix, `ExactInv` goes table by table: what a
  sync that nothing disturbed has fetched and not yet inserted, and what it has inserted,
  are the rows of ClickHouse, also while another one deletes and inserts them. For
  `BlockedForCause` three parts hang together: a row that is missing from the copies is
  in the hands of the one sync that holds the lock (`LockInv`, `KeepInv`), or the history
  has a cause for it (`CauseInv`); and a sync without a failure ends with what it read
  (`CleanInv`). The proof corrected the property: a row that could not be inserted and a
  restart during the insertion are causes too, which the first instances were too small
  to show; the history records them now and the run has a scenario with both.
- **QueryLogSync** (`QueryLogAssumption`). `CaughtUp`: while nothing fails and seconds are kept apart,
  everything up to the new watermark of a sync is recorded already or in its hands, however
  syncs overlap. `OnceInv`: with one sync at a time, which goes on where the last one ended,
  a batch holds what nobody has evaluated. `OneInv`: with one writer at a time and one edit
  an incident is closed only by that edit, so that none is open when another is created.
  `CountsViolations` is inductive as it stands: a statement adds as much to the counted as
  to the recorded, or moves between them, and one that fails takes only from the latter. What it
  needs are facts about sums: the library's sum chooses an element at a time, so
  `SumsAgree` shows, by the least cardinality for which it would fail, that any two ways to
  sum agree, and `SumChanges` what one element does to the sum. For that the sets of
  queries, edits and processes are finite.
- **AuditForwarder** (`AuditAssumption`: at least one sink, as `NewForwarder` demands). An
  event is in the queue, with the worker, or settled at every sink (`WayInv`); the sinks
  before the one the worker is at have the event it holds (`DeliveryInv`); and a worker
  that has seen `done` leaves nothing that was queued before it (`GoneInv`). Without the
  last, an event that is queued late would be taken for one that was drained. For the
  order, `SeqInv`: no event of the queue is with the worker or a sink, and the worker's
  event is the last one of each sink before its own.
- **GitHubSync** (`GitHubAssumption`: users are not syncs, scenarios bound what they say they
  bound). A sync writes by the id of a row it read before, when the model may be another
  one by now. `RowsInv`: a row belongs to one model and is never given again; `OwnedInv`: the
  row a sync made and those it found, if they are still there, belong to models that a sync
  made. So the row of a user's model is in no sync's hands, although every model is a
  manual one until `SetModelSource`. `FoundInv`: below the path, what was listed and is
  neither left to fetch nor parsed was removed or broken at a commit since. For
  `CurrentWhenSynced`, which holds only where nothing disturbs the one sync,
  `AloneInv` follows it: what it has parsed at the tip is what is wanted (`ReadBy`), each
  file is as it was found, or applied, or deleted (`AppliedBy`), and `last_sync_sha` is
  older than its commit (`Synced`), so that a push on the way leaves it behind.
- **BrainChat** (`ChatAssumption`: no identifier is taken for a missing value or a status).
  An approval is in four places that are written apart: its row, its channel, the stream
  that waits and the request that decides. `StageInv` says what a stream at its gate knows:
  nothing ran for it yet; while it waits its channel is in the map, and a decision that was
  made is in the channel or in the hands of a request; once it has heard one the row says
  the same. `OneInv`: no two streams are at one gate, without which a second execution could
  not be excluded. `ChannelInv`, `SignalInv` and `PendingInv` bind the other three places to
  that stream, so that nothing outlives it.
- **BrainSettings** (`SettingsAssumption`: the tables start out in order). Each statement keeps
  the tables in order whatever its request has read, as it finds the other rows itself:
  `OneOfEach` needs no other invariant than what types a request has read (`RequestOK`).
  `DefaultIsActive` does: `BulkOK` says which row an administrator who is alone has still as
  it was read, since a request writes what it read back into the row, or makes a model the
  default that it found active.
  `BulkDone` needs how far a request has come (`ResultOK`): whatever the order, the models
  that are not left to do are as they shall be, and the chosen one is the default once it
  was written. That the recommended model stays the same meanwhile rests on `OneOfEach`: a
  provider has no two models of a name. The proof corrected `BulkDone`: a sync leaves a default
  only if the provider has a model.
- **Logins** (`LoginAssumption`: the first lock is the shortest and no longer than the window,
  and what the tables hold at the start was written by such a server). `LimitInv` is about
  one client: between its check and its count a row is as the check left it (`UpsertOK`,
  `CountOK`). `RowOK` says what a row tells of the wrong attempts before: those of its window
  are counted in it, earlier ones were before the window, and all but the last `Max` of these
  at least a lock earlier. Without the last part `TimesOK`, which is `AttemptsBounded`, is not
  inductive, as a window that ends deletes the row. `RoleInv` is about one administrator:
  what was checked before a role is stored or taken still holds then, and what a login was
  resolved to has its row until a role changes. The proof corrected the bound: two windows
  may meet in one moment, so that 2 `Max` attempts need no lock between them, one more does.
- **ServerProcess** (`ServerAssumption`: a PID file that is there at the start names a process
  whose id may be used again). `ServerTypes` says which places a command with a phase can be
  at. The rest is in three parts, for the three ways to use the commands. `NamesKept`: while
  no id is used twice, whoever the file or a reader of it names was a start, so that a signal
  reaches a server. `StartsServe`: of starts that overlap, one that finds a file or an id in
  it gives up only after another wrote it, and whoever wrote is still on its way to the
  port; a process that listens or leaves without serving is excluded by that. `InTurn`, for
  commands one after the other: one process acts, or one waits for the server that it
  stopped; the file names the one that listens; and who has removed the file, or found none
  or only an id that no longer runs, knows that nobody listens (`Knows`). A server runs what
  is installed, except between the rename of an update and its stop (`WillStop`).
- **PollingSources** (`PollAssumption`: a batch has room for a row, and a database has one
  table). `SoFar`: what a reading has passed was handed on or is in the buffer. `Ends`: a
  reading that ends without an error ends behind the last row with an empty buffer, and one
  that failed never has a full buffer, as it would go on as if it had not failed; this
  rests on the least row at which a reading stops (`LastReadIs`). `Marks` says of which object a mark
  may be ahead of its reading: the one that is read. The context must not be cancelled: a
  marked object may then be left unread, and no later poll of the run comes to it. For
  `CopiesBounded` the proof counts one identifier wherever it may be: its copies in the
  table, in the batch being written, in the channel, in the buffer and ahead of the reading
  are together at most the polls, and for a bucket the runs that ended, the readings that
  failed, and one more if its object is marked. `IdAssumption`: an identifier is that of one
  line of one object, or of one row of the table that a query returns once.
- **Uploads** (`UploadAssumption`: a batch has room for a row, a missing value is none of the
  tokens, the lines of a file are sequences and a table has one column of a name). `Computed`:
  once a request has its columns, its rows and types are those of its file and form.
  `Arrived`: the batches in the table that a request sent begin where the one before ended
  and go as far as it says it has inserted, or one batch further while an answer is lost.
  `BatchMeans` says of each cell of a line what it is, a value of the file under its
  header, converted for the type of the column. The theorem is about the kinds of cells that
  the module has; what each conversion changes is the relation `Changed`. `Fits`: what makes the inference choose a
  type, the conversion to that type accepts. `HeadersAre`: normalised headers are apart from
  one another, which rests on the numbers that are appended to them. The proof corrected
  `CellsKept`: a blank header is named after its place, `column_2`, and so is the second of two
  headers `column`, which the files of the run did not have.

- **Workspace / BrainTools** (`WorkspaceAssumption`: a missing row is not taken for a value,
  the system is nobody who asks, and the tables of a scenario are in order). The proof goes
  statement by statement before it looks at any request: each one leaves the tables in order
  (`Good`), and changes them so that what somebody has read can stand it (`Evolves`): what is
  gone stays so, a panel stays in its dashboard, a link keeps what it was made for, and an
  invite lasts as long as its link. So it is enough to look at a request when it reads
  (`Formed`, `Known`); whatever the others write meanwhile keeps that true. Only the runs need
  more (`Relies`): a client who is alone found the pipeline stopped, nobody else starts it, and
  the row is marked before the entry of the run is made. The
  proof corrected `RunsCanBeStopped`: the one who is alone must be a client, since the tools
  of an assistant delete a running pipeline without help.

Each proof has one step for every action of `Next`, and below it one for every part that
the action can disturb. TLC checked the inductive invariants on the instances of the runs
before they were proved.

**Only model-checked.** Liveness and everything under fairness, as ENABLED and fairness
are beyond the prover. No module declares a RECURSIVE operator.

## 6. What the code does not do

Two runs state what a comment or the interface says of the program and are violated:
`pipeline_shutdown`, `last_admin`. Their findings in `PROJECT.json` quote the
lines and say what happens.

Other places where the code does not do what one might expect were met while modelling.
The models do as the code does; the antecedents of the properties exclude them, or the
properties are stated so that they hold in spite of them. No run checks them:

- *Gateway.* Two agents with one token that authenticate at once both pass the check of
  `gateway.go:252`, and the second replaces the healthy first. A request that is stored
  after `Pending.Range` is not rejected (`gateway.go:555`) and waits for its timer.
- *Streams.* A read loop that sends to a full `ChunkCh` whose consumer has left is blocked
  for ever; a disconnect that closes the channel under it panics, and so does one whose
  `Range` (`gateway.go:564`) meets a request that the end of its stream takes out and closes
  meanwhile (`gateway.go:491`).
- *Agent.* `reconnect` closes `done` on a permanent rejection and `messageLoop` goes on,
  so that it may be closed twice; a temporary rejection of the first connect ends `Run`.
- *Pipelines.* Two start calls that overlap both launch a run; a stop during a start is
  overwritten by it; the source of a stopped run removes the registration of the webhook
  that replaced it. A batch whose write failed is reported, but a later acknowledgement
  commits its offsets, although `CHANGELOG.md:122` says that offsets are committed only
  after the write. With `OffsetNewest` a group that never committed starts at the end:
  `PassedIsKept` and its theorem are about groups that have committed.
- *GitHub.* A file that could not be fetched counts as removed and its model is deleted.
  Syncs that overlap, a change of the path, and a restart between the creation of a
  model and its mark leave models that the recorded commit does not describe.
- *Models.* A statement that timed out may take effect in a later run; a restart leaves
  the row of the interrupted run in running. After a new name or target database
  (`models.go:157`) the table stays where it was and the status still says success, although
  nothing was built at the new place; and the references of others to the old name fail.
- *Alerts.* Escalation happens at the last attempt only, whatever its threshold. A
  restart leaves a row in sending.
- *Scheduler.* A run writes the next run of the cron expression it read before an edit;
  overlapping requests may leave an enabled schedule without a next run; the time zone
  of a schedule is not used. A request that computed the next minute before it came and
  stores it after the tick that ran it (schedules.go:280, 473) puts it back, and it runs
  twice: the one exception of `OncePerOccurrence`, which the run reaches.
- *Governance.* A sync whose queries all failed ends as idle, and `last_synced_at` is
  written when a sync begins too; `SyncSingle` does not take part in `activeSyncs`; two
  administrators may leave the setting and the goroutine different. A failed sync of the
  query log moves the watermark; queries of one second are cut by a full batch; a query
  that ClickHouse logs late is passed over; two writers may make two incidents.
- *What users make.* Every edit reads the row and writes all of it back, so that the later
  of two edits undoes the other, also in fields it does not name; and a PUT of a model that
  names no description erases it (`models.go:215`), which the tool of the assistant does
  not. A start whose status statement fails (`runner.go:185`) leaves a run that its lone
  client can delete. The status of a pipeline
  is checked before its row is deleted (`pipelines.go:220`), and the tool of the assistant
  does not check it at all (`deletes.go:111`): a run may be left without a row.
- *Brain.* A stream that ends writes the settings it read at its start, and its own model and
  provider (`brain.go:1196`, `brain.go:1290`): it undoes what was edited meanwhile. An edit of
  the context clears what it does not name (`brain.go:524`): a database without a table the
  table, a list of tables both. A gated call whose approval could not be inserted is executed (`brain.go:1012`). A decision
  that comes with the timeout may be stored as approved while its call was not executed
  (`brain.go:1038`).
- *Login.* An attempt that is recorded after a lock was set removes the lock
  (`ratelimit.go:119`). Two administrators of ClickHouse who log in first at the same time
  may both become administrators (`auth.go:746`). Two administrators who change one role may
  bring it to the sessions in the other order than to `user_roles` (`admin.go:265`,
  `admin.go:270`), and the sessions keep the role that was replaced. `StartCleanupJobs` (`cleanup.go:8`) has no
  caller, so old rows of sessions and limits stay.
- *Uploads.* The headers `a`, `a`, `a_2` become two columns of one name, as do `column`, none
  and `column`. A column of `t` and
  `f` is inferred as Bool, `NaN` as Float64, and both are refused when they are inserted.
  Without an error an upload changes: spaces around a text, which are trimmed; zeros and signs
  before an integer (`007` becomes 7, `query_upload.go:1317`); decimals with more digits than
  a float64 has; integers above 2^53, also those of a Parquet file, which goes through JSON
  (`query_upload.go:524`), and above 2^64, which wrap; fractions of seconds, which are
  dropped, and the zone of a moment, which is stored as UTC (`query_upload.go:1383`), so that
  a server in another zone takes it for another moment. A column is matched
  without regard to case but looked up by the name of the table, which gives NULL. A
  later batch that fails leaves the earlier ones and the table, and a repetition of the
  upload inserts these again.
- *Polling.* `ui/src/lib/types/pipelines.ts:126` names a placeholder for the watermark;
  the first poll has no argument for it, so a query with one is refused at every poll, and
  a query without one from the second poll on by PostgreSQL and MySQL. Watermark and
  processed objects are in memory: a restart reads all again. An error at the end of the
  rows drops the last batch after the watermark has moved. An object with a line that is
  too long is sent again at every poll; one that is overwritten is not read again. Where the
  reading of an object breaks off, the scanner returns the part of the line that came
  (`s3_source.go:199`): a line of CSV that was cut is written as a record.
- *Server.* Starts that overlap both pass the check of the PID file and write it
  (`server.go:386`); a detached start returns before the file is written. Two updates share
  one temporary name, so that an unverified binary may be installed (`update.go:137`).
- *Audit.* `Shutdown` closes the forwarder before it stops listening (`server.go:417`): an
  event of a request that is still served is recorded and queued, but nobody forwards it
  and nothing warns of it. `Close` waits for slow sinks without regard to the timeout that
  was given to `Shutdown`.

## 7. What is not modelled

- Agent installation and service files: files of the operating system.
- Cluster health, telemetry, the query history and the lists: every operation reads, or
  writes one row, or replaces a table.
- License, encryption, configuration, the verification of tokens: libraries and parsing.
- Query processing, insights, lineage and the matching of tables in a query text:
  functions of a text.
- Within modelled components, the notes of `PROJECT.json` name what is left out: the
  host information of an agent, the rows of a chunk, the JSON of a record, the text of
  messages, the protocols of the providers, the metadata harvester, incidents made by hand.
- `PollingSources` leaves out the record that a cut line becomes (section 6): its properties
  are about whole lines.
- `Uploads` has no nested values of JSON, no keys with spaces around them, and not what the
  Parquet library makes of column names. A cell is one of the kinds of the module.
- `BrainChat`: the time stamps of a chat (`TouchBrainChat`); providers and models are not
  deleted under it, since `BrainSettings` has them.
- `ModelRunner`: a name or database that a model gave up is not taken again by another or by
  itself, and an edit, which reads the row and writes it, is one step.
- `Workspace` has no restart of the server: what is resumed then is in `PipelineRunner`.
- The composition of agent and gateway: each is checked against an environment that may
  do at any time what the other end does.
- The database is external: a statement is atomic and durable, foreign keys included.
