# oopsys-agent: specifications, model checks and proofs

TLA+ modules that describe `oopsys-agent` (the Python package under
`src/src/oopsys_agent`), TLC configurations that check them on small instances,
and theorems about them that TLAPS has checked. Paths below are relative to
`src/src/oopsys_agent` unless they start with `src/`; "README.md" in a comment
of a module is the agent's own, `src/README.md`.

## 1. The system

The agent is one asyncio process per host. It accepts error reports over HTTP,
samples the host and its Docker containers, writes every event to SQLite, puts
it into a local NATS JetStream queue, and a worker in the same process posts
what is in the queue to a central server. A second program, the `token`
commands of the CLI, works on the same SQLite file.

| Component | State it keeps | Operations | Talks to |
|---|---|---|---|
| `NatsGateway` (`services/nats.py`) | broker, retry task, four warn-once flags; part of `AppRuntime` | `start`, retry loop, `publish`, `_forward`, `close` | NATS, `ServerClient`, `AppRuntime` |
| `ServerClient` (`services/server_client.py`) | none | `send` | the server, over HTTP |
| `EventService` (`services/events.py`) and `POST /reports` | SQLite history | five `record_*` methods: add, commit, publish | SQLite, `NatsGateway` |
| `AgentScheduler` (`services/scheduler.py`) | one task | `start`, metrics loop, fault recording, `stop` | `SystemMonitor`, `DockerMonitor`, `EventService` |
| `DockerMonitor` (`services/docker.py`) | client, `available`, `reason` | `connect`, `collect`, `close` | the Docker daemon |
| `TokenService`, `cli.py`, `_bootstrap_identity` | one row of `agent_identity` | create, create `--force`, list, revoke, reconcile | SQLite |
| lifecycle (`main.py`, `runtime.py`) | `AppRuntime` | bootstrap, start, serve, drain, stop, close | all of the above |
| `SystemMonitor` | none | samples | psutil |
| API: ping, health, usage, token check | none | read-only | `AppRuntime`, the token row |
| schema, domain types, configuration, loggers, dependency injection | none | declarations | |

What is hard about it:

* **Three machines fail separately.** The agent, NATS and the server each
  crash, restart, or answer late, and each of the four steps of a delivery
  (commit, publish, post, acknowledge) can be cut off from the next.
* **Three tasks share the gateway.** Request handlers and the scheduler publish
  on the broker that the worker reads from and that the retry loop replaces.
* **A flag outlives its fact.** `queue_connected`, `server_reachable`,
  `available` and the warn-once flags are written in different handlers.
* **Two programs share one row** without a lock, each with a stale copy.
* **The order of the end.** Requests, scheduler and gateway stop in the opposite
  order of their start; a signal may come during any of their awaits.
* **Every await of the collector may be its last**: `stop()` cancels the task
  wherever it is; the daemon, SQLite and containers vanish between two steps.

The properties that make each part correct are those of section 4; every hazard
of the code, with its line, is listed in `PROJECT.json`.

## 2. Modules

| Module | Models | Used by |
|---|---|---|
| `JetStream` | the stream and its durable consumer (external) | `NatsGateway` |
| `NatsGateway` | connection, publishing and worker; `ServerClient.send`; the server | `Delivery` |
| `Delivery` | the path from a record method to the server, the process around it | `MCDelivery`, `DeliveryProofs` |
| `ReliableQueue` | what that path promises: a record, and an at-least-once queue of what is on record | `Delivery` (`INSTANCE`) |
| `Collector` | scheduler loop and `DockerMonitor` | `CollectorProofs` |
| `DockerStats` | CPU and memory figures of a container | `DockerStatsProofs` |
| `Tokens` | commands and boots on the token row | `MCTokens`, `TokensProofs` |
| `AgentIdentity` | what that row promises its readers: one id for ever, a token that comes and goes in one piece | `Tokens` (`INSTANCE`) |
| `MC*` | sets and symmetry for TLC | |
| `*Proofs` | inductive invariants and theorems; those of the two abstract modules are instantiated by those of the modules that implement them | |

Each module has one action per step that the code takes between two awaits whose
interleaving matters, and names it after the function it stands for;
`PROJECT.json` maps every definition to its lines.
Awaits of the logger are not steps: no other task reads what is assigned around
them. Operators whose comment begins with "Mutant:" are plausible faults of the
code, one for each property; no action uses them.

### Delivery, NatsGateway, JetStream

`stage` is where `lifespan()` is. `BootFails` is a bootstrap of the identity that raises
(its steps are in `Tokens`): the process ends and is started again. `Boot` is one that
succeeds, and starts the gateway (`starting`); `Serve` is
the return of its first attempt to connect, `Terminate` the signal to end: uvicorn
takes no more requests and lets those in flight finish (`draining`) while the
scheduler goes on. `StopScheduler` cancels the scheduler task wherever it is
(`stopping`), `CloseGateway` the retry task and the broker (`closing`), and `Exit`
ends the process (`down`), as `Crash` may at any time.

`dialing` is where the gateway's own `start`, retry loop and `close` are, and
`"off"` without a process. `_connect_once()` is the step from
`"start"` or `"retry"` to `"done"` or `"waiting"`; the pause of the retry loop
is `"waiting"`. `broker` is `self._broker` together with the state of its NATS
client. `phase` is where the worker is in `_forward` and in the acknowledgement
that follows; `msg` is what it holds. `record[e]` is where the handler that
records event `e` is. SQLite (`history`) and the stream survive a crash, and
everything else of the process is gone (`ForgetGateway`); so an event whose handler is `failed` or has not begun is in no
history, and any other is (`OutcomeTellsHistory`). `DialSeconds` is the
connect timeout after `int()`: 0 never connects. `Health` is what `/health` shows.

An event is a model value, and is identified with its message. Subjects,
envelopes, headers and columns are left out. All five record methods have the
same control, so they share their actions; reports run concurrently, scheduler
events one at a time.

What is assumed of the libraries and services, which are not in the repository:

* FastStream's pull subscriber hands the worker one message at a time; a handler
  that returns is acked, one that raises `NackMessage` is nacked without delay.
* nats-py with `max_reconnect_attempts=1` closes for good when an outage
  outlasts its attempts, and never before. While it reconnects, a publish may
  be buffered and be stored after its caller has timed out.
* JetStream keeps what it has stored and what was acked across restarts. (It does
  as long as its container is restarted and not created anew: `src/docker-compose.yml:20`
  gives it no volume.) What it
  has to redeliver, after a nack or an elapsed ack_wait, it hands out before
  anything new; otherwise any message that is ready may be next.
* httpx follows no redirects. A request that timed out may still arrive. The
  server keeps an event iff it answers 2xx. It answers 422 to the events in `Refused`.
* A connection attempt that is cancelled leaves nothing behind that the process
  uses: its socket goes with the process.

### Collector

`loop` is the await the scheduler's task is at. `Cancel` takes it from any of
them to `"stopping"`. `open` counts clients of aiodocker and is there for one
property. Recording is a single step that succeeds iff SQLite works: that a
handler which does not fail has saved its event, and one that fails has not, is
`OutcomeTellsHistory` of `Delivery`, where a scheduler event is whatever this loop records.
`Inspect` reports a container that is there and skips one that is not; `InspectFails`
skips one that is there and answers with an error or with something that cannot be read.
`steady` is the set of containers that nothing has happened to since the listing and that
answered properly, and `blip` whether the daemon went away or came back since; neither is in the code.

### DockerStats

The counters, the container and the daemon's readings are an environment that
does anything consistent: time passes, of which the container takes a part;
it restarts or stops; the daemon keeps a reading, or has none. `BuildRunning`
computes the figures as `_cpu_percent` and `_mem` do, in hundredths of a percent,
for a container that showed as running and may have stopped since; `BuildIdle` is
the branch without statistics.
`used`, `span`, `share` and `exact` are not in the code: they are the
truth that the figures are compared with. Assumed: a container's CPU time does
not grow faster than the machine's (`Run`), and no usage exceeds its limit (`KeepsLimit`).

### Tokens

A process (a command, or a boot of the agent) reads the row, decides, and
commits. Assumed of SQLite and SQLAlchemy: a `SELECT` takes no lock and starts no
transaction, and an `UPDATE` writes only the columns that differ from what was
read. `reconcile_env_token` reads afresh: nothing keeps the object that
`get_agent_id` has read. Tokens, uuids and dates go by the name of the process
that made them, so two of them are equal only if one process made both.
`overlapped` is a history variable: two processes have been at work at once.
`Verify` and `Authorized` are `verify_token` and `require_token`, and define which
tokens the API lets in.

## 3. Runs

`tlc -config <cfg> <module>`.

| Run | Module, cfg | Shows |
|---|---|---|
| delivery_safety | `MCDelivery`, `Delivery_safety` | ten invariants, two action properties, refinement of `ReliableQueue` |
| delivery_liveness | `MCDelivery`, `Delivery_liveness` | the gateway connects, recording ends, a closed client is noticed, the queue drains, a signal to end is obeyed |
| collector | `Collector`, `Collector` | no client leaks, flags agree, steady containers are reported; the loop goes on, metrics go on, Docker is found |
| docker_stats | `DockerStats`, `DockerStats` | figures never overstate, are exact over an unbroken span, and stay within machine and limit |
| tokens | `MCTokens`, `Tokens` | what holds however processes overlap, refinement of `AgentIdentity` among it, and what holds as long as none did |
| delivery_accepted, _redirect, _outage, _poison, collector_loss, collector_partial, tokens_race | | one disagreement each, section 6 |

Bounds, and why they are enough:

* **Events**: one report and one scheduler event for safety (the two kinds of
  handler, and two messages that compete for the worker); one report for liveness.
  The worker holds one message and no handler looks at another's event, so a third
  adds no new kind of interference.
* **MaxFaults** 3: crashes, signals to end, failing bootstraps, outages, failing requests
  and timeouts.
  Three are enough for an outage during the recovery from another, in a process that
  is told to end. After the last fault the environment is stable, which is what
  makes liveness meaningful. The theorems need no such bound.
* **ConnectTimeout** 10 tenths of a second: the smallest with which `int()` leaves
  something. `GatewayConnects` has it as its condition, though the configuration accepts
  any value above 0; what happens below it is proved (`ShortTimeoutNeverConnects`).
* **Refused** is empty except in `delivery_poison`, whose question it is. There no
  fault is allowed at all: the refused event alone holds up the other.
* **Replies** 202, 401, 503: one per branch of `send()`; 307 in the run about
  redirects. `NoAnswer` stands for no connection.
* **Containers** 3 in `Collector`: one that vanishes, one that stays and one still to
  be inspected, in any order of inspection.
* **Cpus** 2, **MaxSystem** 4, **MaxMemory** 2: room for a reading, a restart and
  two unequal shares; usage below, at and above the cache, and limits of both
  kinds.
* **Commands** 2, **Agents** 2, **MaxAtWork** 3: two writers and a reader in
  one command at a time, and a restart of the agent. Behaviours without an overlap
  are among them, so the conditional properties need no run of their own.
  Permutations within each set are symmetries (the run checks only safety).

Deadlock is checked for `Collector` and `DockerStats`. It is off for `Delivery`,
whose agent is rightly idle when all events are delivered and the faults are
spent, and for `Tokens`, whose processes end.

### Fairness

`Delivery`: weak fairness of every task of the process (the asyncio loop runs
what is ready, and `publish`, `send` and `connect` have timeouts), of `lifespan()`
itself, whose awaits at the end wait for nothing but cancelled tasks and requests
that end, of the restart
of a dead process (`restart: unless-stopped` in `src/docker-compose.yml`), whose bootstrap
is assumed to succeed at last (after a `TokenMismatchError` only the operator can see to
that), and of the environment's recovery. No fairness is given to faults, to new events or to
shutdown. `QueueDrains` moreover assumes, in its own statement, a process that has
its token and a client that has not given up; `delivery_outage` shows that the
second condition cannot be dropped.

`Collector`: weak fairness of the loop, which assumes that aiodocker ends every
await at last (the code sets no timeout of its own); strong fairness of a successful sample,
because psutil does not fail for ever. `MetricsGoOn`, `DockerIsFound` and
`DockerLossIsShown` state their conditions on SQLite and the daemon themselves.

## 4. Properties

*Delivery.* `HistoryThenQueueThenServer`: the server has only what was queued, and
the queue only what was committed. `AckedIsIngested`: nothing acknowledged is
lost. `DuplicatesArePaidFor`: an event is taken again at most once per fault.
`WorkerHoldsUnacked`, `DialingTouchesNoBroker`: no work on what is done, and the
retry loop closes nothing. `NoHandlerOutlivesGateway`: the gateway closes last.
`ReachableIsEarned`, `HealthShowsFacts`: what `/health` is worth; `ClosedClientIsNoticed`:
it does not go on showing a queue whose client has closed, once anything is recorded. `OutcomeTellsHistory`: an error means that nothing was saved, anything else that
the event was. `LostEnqueueIsShown`: a handler that ends without its event in the queue,
whose caller is not told, leaves `queue_connected` cleared. That nothing sets it again
while the process lives, a queue that works included, is a hazard in `PROJECT.json` and no
property: no document promises otherwise. `TokenlessKeepsAll`: without a
token nothing is acknowledged or sent. `QueueSpec`: the refinement. `GatewayConnects`, `RecordingEnds`,
`QueueDrains`, `ShutdownEnds`: liveness.

*Collector.* `NoClientLeaks`, `ClientIffAvailable`, `ShownFollowsMonitor`;
`SteadyAreReported`, unless the daemon was away during the round or did not answer properly; `LoopGoesOn`,
`MetricsGoOn`, `DockerIsFound`.

*DockerStats.* `CpuNeverOverstated`, `CpuWithinMachine`, `CpuExactWhenWhole`,
`MemoryWithinLimit`.

*Tokens.* `OneAgentId`, `HashAndDateAgree`, `CommandsTakeEffect` (a create or revoke that
reports success has had its effect) and `IdentitySpec` (the refinement of
`AgentIdentity`: id, hash and date, each read off the row) hold under every overlap;
`LabelAgrees`, `AloneOnlyForceReplaces` and `BootsWithItsToken` as long as no two
processes have overlapped.

## 5. Proofs

All theorems are for arbitrary sets of events, containers and processes, and
arbitrary bounds. The assumptions are those of the modules (`GatewayAssumption`,
`ReportsAssumption`, `StatsAssumption`, `TokensAssumption`) and, where named, one
more. They hold for any `ConnectTimeout` and any set of refused events.

**DeliveryProofs.** `IInv` adds to the invariants that the end of dialing and the
broker come together (`DoneMeansBroker`), that only a process with a token posts or
acknowledges (`PostsWithToken`), that what is to be redelivered is stored and not
acknowledged (`PendingUnacked`), and which tasks may still be at work at each stage
(`StagesFollow`, which gives `NoHandlerOutlivesGateway`). `OutcomeTellsHistory` is
one of its parts: that what is on the wire is committed rests on it. One lemma per
group of `Next` shows each part. The action properties follow from the same invariant:
`LossIsShown` because a publish that is refused finds no broker, and then the flag
was clear (`DoneMeansBroker`); `WithoutTokenNothingLeaves` by `PostsWithToken`.
`DuplicatesArePaidFor` is not inductive even with these: a message may have been
taken, be due again, and be on its way late at once. `Budget` counts for each
event what it has cost and what it may still cost without a new fault (a late
request, a message not settled, an ack that is going to be lost, a signal to end
that is counted as a fault and has still to stop the broker) and is bounded by
`1 + faults`; every step that raises the count is a fault.
`NothingIsLost`, `HealthIsTrue` and `Refinement` assume `NoRedirects`: no status is
between 300 and 399. Without it they are false (`delivery_redirect`). With it and the
bound on duplicates, delivery is exactly once until the first fault (`ExactlyOnce`).
`ShortTimeoutNeverConnects` shows the opposite of `GatewayConnects` for a timeout below a
second: no broker, an empty stream and nothing delivered, in every behaviour.

**Refinement of ReliableQueue.** `QueueStep` maps each action: `Commit` is `Record`,
`Store` is `Enqueue` (what is on the wire is committed), the server's answer and a late
arrival are `Take` or nothing, the ack is `Retire` (the worker holds what was taken:
`SentIsIngested`), and everything else stutters. `ReliableQueueProofs` shows what
the abstract queue promises in `InOrder`; `NothingForgotten` says what the path inherits from
the shape of its steps: history, stream, ingested and acknowledged events only grow.

**TokensProofs.** That hash and date have one writer needs to be known of every
stale copy as well (`SnapDated`), and that nobody has seen a token before its
writer commits (`Unspent`). `Serial` adds that, as long as no two processes have
overlapped, what a process has read is what is there; the three conditional
properties follow, for any number of processes at work. `CreateWrites`,
`RevokeWrites` and `ReconcileWrites` say what the three commits leave in the row whatever
was stale: the writer's own value is never what it has read, so the `UPDATE` never leaves
it out. From them follow `CommandsAreObeyed` and the refinement of `AgentIdentity`
(`IdentityStep`: `Insert` is `Found`, `Create` and `Reconcile` are `Issue`, `Revoke` is
`Withdraw`, or nothing if another process has withdrawn the token since the read).
`AgentIdentityProofs` shows what the abstract identity promises; `IdentityIsKept` carries it
over: the agent_id in the row is for ever, and hash and date are there together.

**CollectorProofs.** `PlaceOK` says what is known at each await, `SteadyOK` where a
container that stays is: still to be inspected, or in the result, as long as the
daemon has not been away. `AvailableSticks` proves the mechanism behind the finding of
`collector_loss`: no step clears `available` before the agent stops.

**DockerStatsProofs.** `CountersHonest` relates counters to the truth: a counter that
restarted has missed something and made nothing up. The rest is arithmetic, in
lemmas of its own: what `round()` returns is near, and of at most a whole it is
at most that whole, which bounds the CPU figure and the memory percentage. The bounds
from above and below meet for a container that had nothing or everything (`Extremes`).
`FigureExists` shows that there is a figure whatever was read, so that `BuildRunning` leaves
no measurement out: the invariants are not true for want of steps.

Every safety property that a passing run checks is stated by a theorem. Only
model-checked: the eight liveness properties (`GatewayConnects`, `RecordingEnds`,
`ClosedClientIsNoticed`, `QueueDrains`, `ShutdownEnds`, `LoopGoesOn`, `MetricsGoOn`, `DockerIsFound`). They rest on
fairness, which speaks of `ENABLED` and is out of the prover's reach.

## 6. Where the code and its documents disagree

| Run | Property | What happens |
|---|---|---|
| delivery_accepted | `AcceptedIsQueued` | a report is answered 202 and is never queued: `_enqueue` ignores the result of `publish` (`services/events.py:34`) |
| delivery_redirect | `AckedIsIngested` | a 3xx answer is taken for a success and the event is dropped (`services/server_client.py:43`) |
| delivery_outage | `QueueAlwaysDrains` | after a longer outage of NATS the client stays closed and the queue stands still until a restart (`services/nats.py:54`) |
| delivery_poison | `EachIsDelivered` | an event that the server refuses comes back at once, before any other, for ever: those behind it are never delivered (`services/nats.py:99`) |
| collector_loss | `DockerLossIsShown` | a daemon that goes away stays `available` in `/health` (`services/scheduler.py:98`) |
| collector_partial | `SnapshotIsComplete` | a daemon that goes away during a round leaves a snapshot without containers that are there, recorded as complete (`services/docker.py:116`) |
| tokens_race | `OnlyForceReplaces` | two plain creates that overlap both succeed (`services/tokens.py:61`) |

`delivery_poison` shows one more: `src/README.md:87` says that redelivery comes after
`NATS__ACK_WAIT`, but `_forward` nacks without a delay, and the message is back at once.
With the delay of the document the events behind it could have their turn.

## 7. Not modelled

* The schema, pydantic models, configuration, logging and dependency injection: no
  state of their own, or declarations. What of them the control depends on is a
  constant (`ConnectTimeout`) or an argument (the token in `Boot` and `RunAgent`).
* `/ping`, `/usage` and the figures of `SystemMonitor`: read from psutil and passed on.
* Sums of network and block I/O, ports, dates and labels of a container: formatting,
  or a sum of what the daemon reports.
* Growth of the stream and of SQLite: nothing in the code bounds it.
* Order of new messages in the stream: nothing relies on it. Order between new
  messages and redelivered ones is modelled.
* The socket of a connection attempt that is cancelled inside `broker.start()`: only
  the end of the process, which follows, closes it.
* `Collector` and `Delivery` are not composed: recording has one outcome for the loop,
  success or an exception, and which one it is says whether the event was saved
  (`OutcomeTellsHistory`); that the events of
  one round are recorded one after the other, and end with the task, is in `Delivery`
  (`SchedulerFree`, `StopScheduler`).
* What a revoked token in `AGENT__TOKEN` does at the next start (it is active again)
  is in `Tokens`, and documented; no property calls it wrong.
