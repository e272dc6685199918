# Verification of hakuraku in TLA+

hakuraku is a server-monitoring system. An *agent* runs on every node, collects
a snapshot of its metrics every few seconds and streams it over gRPC to the
*server*, which keeps a registry of nodes in memory, stores snapshots in
PostgreSQL, forwards them to VictoriaMetrics and to dashboards connected by
WebSocket, and marks nodes offline when they fall silent. This directory holds
TLA+ models of the concurrent parts, the TLC runs that check them and the TLAPS
proofs about them. `PROJECT.json` maps each definition to the lines it models
and lists runs, findings, hazards and theorems.

## Inventory

| part | source | module |
|---|---|---|
| reconnect loop, sessions, forwarder, heartbeat and probe tasks | `pulse-agent/src/main.rs` | `Agent`, abstractly `Delivery` |
| holdback buffer | `pulse-agent/src/buffer.rs` | `TelemetryBuffer` |
| reconnect backoff | `pulse-agent/src/main.rs:371-406` | `Backoff`, `ReconnectBackoff` |
| metric collector, collection interval | `pulse-agent/src/collector.rs`, `main.rs:314-342` | `Collector` |
| stream handler, registry, sharded queues | `pulse-server/src/grpc.rs`, `state.rs` | `Server` |
| ingestion workers, liveness checker, startup load | `pulse-server/src/main.rs`, `db.rs` | `Server` |
| lookup of a node missing in the registry | `pulse-server/src/api.rs:154-210` | `Server`, `WsFanout` |
| admission by timestamp, timeouts, retention, history | `pulse-core/src/auth.rs:72-83`, `pulse-server/src/main.rs`, `db.rs`, `api.rs` | `Clocks` |
| graceful shutdown | `pulse-server/src/main.rs:439-481` | `Shutdown` |
| WebSocket fan-out | `pulse-server/src/ws.rs` | `WsFanout` |
| signatures and nonces, other REST requests, VictoriaMetrics format, metrics, router set-up, configuration, benchmark | | not modelled, see below |

The agent's `collect` produces what `Agent`'s `CollectorPush` puts into the
buffer; what `Agent` delivers to the server is what `Server`'s handlers receive.
`Server` and `Clocks` look at the same handlers and checker from two sides:
`Server` in small steps with failures and crashes and a clock that only orders
events, `Clocks` in large steps with two clocks and real distances.

## The modules

**TelemetryBuffer, Backoff** are operators: `Push` evicts the oldest snapshot of
a full buffer; `DoubleCapped` and `Jittered` are the two halves of
`next_delay`, in milliseconds and permille (the program's jitter is a
floating-point number; the model's jitters are a finite set of permille within
the same 30 %).

**Delivery** and **ReconnectBackoff** are abstract specifications that `Agent`
implements. `Delivery` has neither tasks nor channels: sets of snapshots held
back and taken by a session, and the sequence the server received.
`ReconnectBackoff` has the delays and no sessions. The refinement mappings are
the instances `D` and `RB` in `Agent`. In `D`, what a session has taken is the
batch of its forwarder, its channel and its stream together, and counts only
what is in flight once the stream is down.

**Agent** models one agent process. The main loop is `phase` (`connecting`,
`opening`, `streaming`, `backoff`, `exited`); sessions are numbered, and each has
its own forwarder, heartbeat and probe tasks, channel and stream, because tasks
of a failed session really outlive it: `run_session` aborts them only on its
`Ok` path. Push and notify are separate steps of the collector, drain, send and
await separate steps of a forwarder. tokio's `Notify` (FIFO of waiters, at most
one permit), the channel and the network are modelled by what the agent relies
on: a stream keeps order until it breaks and then may lose what is in flight.

**Collector** models `SystemCollector` and the loop around it. A collection is
eight reader steps in the order of `collect`, and the kernel counts on between
them. Every reader but the last may fail and end the collection; three readers
have then stored counters while `prev_time` stays. One counter stands for each
pair (received and sent, read and written). Floating point is replaced by exact
division cut to integers. Counters of the kernel are assumed monotone, except
that an interface may return with a counter at zero and a disk may leave.

**Server** models one server process and its tables. A stream handler takes one
step for the registry, one for the queue, one for the broadcast; a worker one
per database call; the checker one for its scan and two per transition. The
scan of the registry is one step: it works entry by entry, but every property
looks at one node at a time, and a node's entry is read and changed under its
lock. Every database call may fail, and a failed insert may have been carried
out. `Restart` is a crash that loses memory, followed by the start-up load.
`Streams` are handlers that may belong to one node; a stream that ends is one
that receives nothing more. Timestamps in messages are the agent's and
arbitrary up to `MaxAhead`; the clock is the server's. The response to an agent,
the closing of a stream whose message names another node, and NodeStatus
`Unknown` (no writer of the table produces it) are left out.

**Clocks** models one node and the server with two clocks. `offset` is the
difference between them; snapshots and heartbeats carry the agent's time, probe
results are stamped by the server. `Connect`
is admitted by the freshness check of `verify_request`, in whole seconds.
Heartbeats and scans are deadlines that the clock does not pass by more than
`MaxDelay` and `Late`. The clean-up task fixes its limit and then deletes from
two tables, each delete a step that may fail with or without effect. Handler,
queue and worker are one step here.

**Shutdown** models the last part of `main`: Ctrl-C, the two servers, the
checker, and the workers, whose channels close when the last clone of `AppState`
is dropped. Queues are counters there.

**WsFanout** models the broadcast channel from the publishers to the dashboards:
subscription, reading the registry entry by entry, init message, forwarding,
lag and close. Each node has one stream in this model. Everything that writes
the registry is there: the start-up load, stats and heartbeats of a stream, the
checker, and `get_node`, whose row may replace a newer entry and is never
broadcast. A snapshot is its number among those this process received from the
node; 0 is anything older. `latest` is what a stream last delivered, which
`registry` need not be. Two histories say what a client cannot get: `missed`, the
snapshots its receiver skipped on `Lagged`, and `hidden`, the newest snapshot
when the init message read an older row in its place. `NewestReachesClient` says
that there is nothing else.

## What the runs check

| run | states | shows |
|---|---|---|
| `agent` | 0.40 M | over two sessions: the agent implements `Delivery`; `NoLostWakeup`, `HoldbackIsNewestRun`, `DeliveryOrder`; a leftover forwarder does not keep a new session from draining |
| `agent_live` | 0.15 M | Ctrl-C ends the agent; competing tasks do not lose snapshots; the reconnect loop implements `ReconnectBackoff`, its sleeps stay bounded and grow to the cap |
| `collector` | 3.0 M | rates span exactly the two samples after a success, failures never inflate them, CPU shares are those since the last reading |
| `clocks` | 0.49 M | how late a dead node is found, when a streaming one may be marked offline, that history and retention agree, that every expired row goes although deletes fail |
| `server` | 0.26 M | stream order in storage; every item stored, pending or counted |
| `server_live` | 0.65 M | with failures, a crash and a racing lookup: stored nodes are registered, queued items are worked off, silent nodes go offline in the registry |
| `shutdown` | 8.6 k | `main` returns only when everything is drained, and does return if the clients leave |
| `ws` | 6.4 M | no update falls between init message and stream, lookups or not; lagging loses only overwritten updates |

What `clocks` and its proofs say in the program's units: a node whose agent died
is shown online for at most 30 s + 61 s + 10 s and the delays, because
authentication admits a clock almost 61 s ahead; an agent whose clock lags by
more than the 15 s that heartbeats leave of the 30 s timeout is admitted (up to
60 s) but may be marked offline while it streams.

Four more runs end in a violation, where the code differs from what the
repository says of it:

* `agent_held`: a forwarder left over from a failed session drains snapshots
  during the outage into a dead channel; `buffer.rs` says they are kept until
  reconnection.
* `server_db_status`: a queued snapshot written after the checker's update
  leaves a silent node `online` in the database for good.
* `server_active`: `last_seen` is the agent's timestamp, so a late snapshot
  makes the checker mark a node offline that was just heard from.
* `shutdown_staying`: handlers of connected clients hold `AppState` and do not
  watch the token; the server waits for them for ever.

Two more differences need no run: `NodeUpdate` has no status, so the update
broadcast when a node goes offline repeats the previous one; and the comment at
`collector.rs:391` says that partitions are skipped, but only `loop` and `ram`
devices are, so that a disk's sectors are counted again for its partitions.

**Bounds.** Two nodes, three streams, two workers, two sessions and queues of one
or two entries are the smallest instances with the cases that matter: two
streams of one node, two nodes on one worker, a full queue, an old and a new
session at once, a full buffer that evicts (one snapshot held, two collected), a
broadcast channel that overwrites (two updates kept, up to four sent).
`agent` is small because it also checks liveness; all its safety properties are
proved for every instance. `agent_live` has one session, heartbeats, a probe,
and both extremes of the jitter, with a cap that is not a multiple of the base,
so that the last step to it is short. `collector` has a second of two clock
units and intervals of zero and one second, so that collections fall into one
unit, and three kernel events. `clocks` scales the program's times down: a second of
two units, a skew limit of zero whole seconds (which admits one unit more or
less), a timeout of four units, which an agent admitted with a lag of one unit
exceeds and one with a true clock just meets, and offsets on both sides of each
limit. One row at a time is enough: the deletes and the query decide row by row,
and every property that speaks of rows speaks of each one by itself. The offset
is constant; a clock that is adjusted while a stream is open is not modelled.
In `ws` the node the client follows streams two snapshots; the other one is in
the database and sends heartbeats only, and fills the channel when it is marked
offline. One lookup is under way at a time.
`server_live` has a timeout of zero ticks, so that a node can time out, come
back and fall silent again within two. `LastEvent` ends messages, requests and crashes before the clock's bound, so that
a bounded clock can still show that a silent node times out.

`CHECK_DEADLOCK FALSE` is set for `Server`, `Shutdown` and `WsFanout`: they wait
for messages, for clients or have exited. The others are checked for deadlock.

**Fairness.** Weak fairness of the tasks: tokio polls every task that is ready.
The clock advances and the checker's interval fires. Database calls are assumed
to return; the code itself bounds only the wait for a connection of the pool
(`main.rs:61`). No fairness is given to messages, crashes, VictoriaMetrics or
clients; only `LeavingSpec` of `Shutdown` assumes that clients leave. In `Agent`
two steps have strong fairness because they compete with others: a send into
the session channel (tokio's semaphore admits senders in order) and the
token's branch of a `select!` (which picks among ready branches at random).
Connecting, collecting and losing a link are not fair. In `Clocks` the clean-up
task wakes again and again (an interval), and its deletes are strongly fair: the
database does not fail every time.

## What is proved

TLAPS checks these for every value of the constants.

* `AgentProofs`: the reconnect loop, the holdback buffer and the forwarders.
  `BackoffRefined`: the loop implements `ReconnectBackoff`; `DelayBoundedHolds`
  and `DelaysGrow` for the agent. Only failures and clean ends touch the backoff
  (`BackoffStep`). `DelayBounded` is strengthened by `DrawnFromHalf`: below the
  cap the last sleep was drawn from half of the next delay. Growth then follows
  because the jitter bands of `d` and `2d` do not overlap at 30 %.
  `TypeCorrect`, `NoLostWakeupHolds`, `HoldbackIsNewestRunHolds`: the inductive
  invariant adds `FutureSessions`, sessions not yet opened have no forwarder and
  no waiter. Without it, opening a session could find a waiter under its number.
* `AgentDeliveryProofs`: `DeliveryOrderHolds` for `Delivery`, for any set of
  numbered sessions; its invariant `OrderInv` adds that what a session has taken
  is older than what is held back and than what any later session has taken.
  `DeliveryRefined`: the agent implements `Delivery`. Each action maps to an
  action of `Delivery` or a stutter. The step simulation needs the inductive
  invariant `DInv`, on top of the one of `AgentProofs`: along the path of a
  session from the server back to the buffer (in flight, channel, batch, held
  back) snapshots get newer (`InOrder`); only the latest session can be up, and
  later ones have nothing (`LatestIsUp`); a forwarder has messages in hand only
  while it sends (`BatchIsSent`), and is queued on the `Notify` once and only
  while it waits (`WaitersWait`). Without the order along the path, `Deliver` of
  the first message would not be `Receive` of the oldest. The two together give
  `AgentDeliversInOrder`: `DeliveryOrder` of the agent itself.
* `CollectorProofs`: `RatesAreExact`, `FailuresOnlyDeflate`, `CpuShareIsExact` and
  `TypeCorrect`, for any interfaces, intervals and failures. The inductive
  invariant `CInv` says that the collector keeps exactly what it last saw
  (`Kept`), that the running collection spans the time since the latest complete
  one (`Spanned`), and when each kept counter was read: never before
  `prev_time`, and exactly then if the latest collection was complete
  (`NetReadAt`, `DiskReadAt`). This is the whole reason that failures deflate:
  the traffic is that since the reading, the time that since `prev_time`. The
  multiplications left over are bounded by lemmas on quotients.
* `ServerProofs`: `TypeCorrect` and `DatabaseNodesKnown`, for any streams, nodes
  and workers. `DatabaseNodesAreKnown` is not inductive: `Registered` also covers
  nodes whose row is still to come (`Coming`: in a handler's item, a queue, a
  worker's hands, or noted by the checker), and says that a lookup never carries
  an absent entry. The order in the handler, registry before queue, is what
  makes it hold.
* `ServerStorageProofs`: `ItemsAccountedFor`, by the effect of each step on the
  number of a node's items queued and in hand (`Balanced`). `StorageInOrder`: the
  invariant `Sharded` says that an item is only ever with the worker of its
  node's shard, `Ordered` that a stream's items get newer from the table over
  the worker's hands and the queue back to the handler. Without `Sharded` two
  workers could store one stream's items in either order.
* `ClocksProofs`: `DetectionBoundHolds`, `StreamingStaysOnlineHolds`,
  `HistoryCompleteHolds` and `TypeCorrect`, for any periods, limits and offsets. The invariant
  bounds the offset of an agent once admitted (the arithmetic of whole
  seconds), ties `last_seen` to the last message received, and says that the
  limit of a running clean-up is never in the future of the retention time.
* `WsFanoutProofs`: `NewestReachesClientHolds`, `LagSkipsOnlyOverwrittenHolds` and
  `TypeCorrect`, for any capacity, nodes, clients, lookups and filters. The invariant
  adds that a receiver's cursor only moves forward from its subscription
  (`CursorsAdvance`), and that a snapshot received after an entry was read for the
  init message is in the channel or about to be broadcast (`InitIsCaughtUp`). The
  last is where the order of the code matters: it subscribes before it reads the
  registry. The registry itself does not occur in the invariant, so that steps
  which only write it keep it (`QuietStep`).
* `ShutdownProofs`: `DrainedAtExitHolds` and `TypeCorrect`. `DrainedAtExit` is strengthened to
  each worker: one that has ended has an empty queue and no clone of `AppState`
  is left. The argument is that a clone is only ever made from another clone,
  so once the last is gone (`ClosedForGood`) nothing can be queued again.

The assumptions are those of the modules that declare the constants: capacities
and bounds are natural numbers, channels hold at least one message, nodes and
workers are finitely many (their items are counted), the base delay is at least a
second and the jitters are within 30 %. The counters that end a run (`MaxMsgs`,
`MaxTime`, `MaxWork` and the like) are arbitrary natural numbers in the proofs.

Every inductive invariant was checked with TLC, on the instances of the runs or
smaller ones, before it was proved.

Only model-checked: the liveness properties (`CancelEndsAgent`,
`HoldbackIsDrained`, `ForwardedReachesServer`, `AcceptedIsProcessed`,
`SilentNodeGoesOffline`, `ShutdownCompletes`, `ExpiredArePurged`), because fairness
is outside the prover's reach. Every invariant, action property and refinement
the passing runs check has a theorem.

## Not modelled

* Signatures, nonces and header handling of authentication.
* The text of `/proc` files, and readings that are passed on as they are (memory,
  load, connection counts, temperatures).
* The way back from server to agent (acknowledgements; the server sends no other
  command), the closing of a stream whose message names another node.
* REST requests that only read, other than the history window; the parsing of
  its range; the JSON and VictoriaMetrics formats, CORS and rate limits,
  Prometheus metrics other than the drop and error counts, configuration, health
  check, migrations, generated protocol code, the benchmark.
* Several server processes on one database, which `k8s/pulse-server.yaml` and `docker-compose.swarm.yml` deploy (two replicas).

## Possible extensions

Add the end of streams and the acknowledgement channel to `Server`; show that
`Server` implements an abstract store that loses only what it counts.
