------------------------------ MODULE Server ------------------------------
(***************************************************************************)
(* The telemetry path of pulse-server: the stream handlers of grpc.rs, the *)
(* in-memory registry and the sharded queues of state.rs, the ingestion    *)
(* workers and the liveness checker of main.rs, and the two tables they    *)
(* write through db.rs.                                                    *)
(*                                                                         *)
(* A stream handler touches shared state in up to three places (registry,  *)
(* queue, broadcast) without holding a lock over them, so each is a step   *)
(* of its own; a worker and the checker take one step for each await.      *)
(* Time is the server's clock in coarse ticks.  Timestamps inside messages *)
(* are the agent's: a snapshot may have been held back, and the agent's    *)
(* clock may differ, so a message may carry any time up to MaxAhead ticks  *)
(* in the future.  PostgreSQL and VictoriaMetrics are external.            *)
(***************************************************************************)
EXTENDS Integers, Sequences, FiniteSets, Functions

CONSTANTS
  Nodes,
  Streams,        \* open gRPC streams; several may belong to one node
  NodeOf,         \* the authenticated node of each stream
  Workers,
  ShardOf,        \* AppState::shard, a fixed function of the node id
  QueueCap,       \* capacity of a worker's queue; 1024 in main.rs
  VmPermits,      \* permits of vm_semaphore; 64 in main.rs
  OfflineAfter,   \* ticks without news before a node is offline; 30 s
  MaxAhead,       \* bound: ticks a message's timestamp is in the future
  MaxMsgs,        \* bound: messages received
  LastEvent,      \* bound: no message, request or crash after this tick
  MaxTime,        \* bound: ticks of the clock
  MaxRestarts,    \* bound: crashes of the server
  MaxLookups,     \* bound: node requests that miss the registry
  DbMayFail       \* whether a database call may fail

ASSUME ServerAssumption ==
  /\ IsFiniteSet(Nodes)
  /\ IsFiniteSet(Workers)
  /\ NodeOf \in [Streams -> Nodes]
  /\ ShardOf \in [Nodes -> Workers]
  /\ QueueCap \in Nat \ {0}
  /\ VmPermits \in Nat
  /\ OfflineAfter \in Nat
  /\ {MaxAhead, MaxMsgs, LastEvent, MaxTime, MaxRestarts, MaxLookups} \subseteq Nat
  /\ DbMayFail \in BOOLEAN

Absent == [status |-> "absent", seen |-> 0, stats |-> 0]
NoItem == [stream |-> "none", node |-> "none", kind |-> "none", id |-> 0, ts |-> 0]

NoLookup == [next |-> "idle", node |-> "none", found |-> Absent]

VARIABLES
  now,        \* the server's clock
  msgs,       \* messages received so far; the next one gets this id plus 1
  handler,    \* what each stream handler still has to do, and for what item
  registry,   \* AppState::nodes; stats is the id of the latest snapshot
  queue,      \* the workers' channels
  worker,     \* program counter and item of each worker
  vmInFlight, \* VM push tasks holding a permit
  checker,    \* the liveness checker: transitions not yet persisted
  lookup,     \* a GET of one node that missed the registry
  lookups,    \* how many there were
  nodeRows,   \* table nodes
  snaps,      \* table snapshots of each node, in insertion order
  probeRows,  \* rows of each node in table probe_results
  dropped,    \* INGESTION_DROPS, per node
  dbErrors,   \* DB_ERRORS of the inserts, per node
  arrived,    \* history: items handed to send_to_worker since the last start
  heard,      \* history: server time of the last stats or heartbeat
  restarts,
  loadFailed  \* history: the last start could not load the registry

netVars == <<msgs, handler, arrived, heard>>
memVars == <<registry, queue, dropped>>
workVars == <<worker, vmInFlight, dbErrors>>
apiVars == <<lookup, lookups>>
dbVars == <<nodeRows, snaps, probeRows>>
startVars == <<restarts, loadFailed>>
vars == <<now, netVars, memVars, workVars, checker, apiVars, dbVars, startVars>>

Statuses == {"absent", "online", "offline"}

TypeOK ==
  /\ now \in 0 .. MaxTime
  /\ msgs \in 0 .. MaxMsgs
  /\ \A h \in Streams : handler[h].next \in {"recv", "enqueue", "broadcast"}
  /\ \A n \in Nodes :
       /\ registry[n].status \in Statuses
       /\ registry[n].seen \in 0 .. MaxTime + MaxAhead
       /\ nodeRows[n].status \in Statuses
       /\ nodeRows[n].seen \in 0 .. MaxTime
  /\ \A w \in Workers :
       /\ Len(queue[w]) <= QueueCap
       /\ worker[w].next \in {"recv", "upsert", "insert", "push", "probe"}
  /\ vmInFlight \in 0 .. VmPermits
  /\ checker.next \in {"tick", "upsert", "broadcast"}
  /\ lookup.next \in {"idle", "query", "insert"}
  /\ lookups \in 0 .. MaxLookups
  /\ restarts \in 0 .. MaxRestarts

\* A server started on an empty database.
Init ==
  /\ now = 0
  /\ msgs = 0
  /\ handler = [h \in Streams |-> [next |-> "recv", item |-> NoItem]]
  /\ registry = [n \in Nodes |-> Absent]
  /\ queue = [w \in Workers |-> <<>>]
  /\ worker = [w \in Workers |-> [next |-> "recv", item |-> NoItem]]
  /\ vmInFlight = 0
  /\ checker = [next |-> "tick", todo |-> <<>>]
  /\ lookup = NoLookup
  /\ lookups = 0
  /\ nodeRows = [n \in Nodes |-> [status |-> "absent", seen |-> 0]]
  /\ snaps = [n \in Nodes |-> <<>>]
  /\ probeRows = [n \in Nodes |-> 0]
  /\ dropped = [n \in Nodes |-> 0]
  /\ dbErrors = [n \in Nodes |-> 0]
  /\ arrived = [n \in Nodes |-> 0]
  /\ heard = [n \in Nodes |-> 0]
  /\ restarts = 0
  /\ loadFailed = FALSE

-----------------------------------------------------------------------------
(* stream_telemetry: the handler of stream h.                              *)

CanReceive(h) ==
  /\ handler[h].next = "recv"
  /\ msgs < MaxMsgs
  /\ now <= LastEvent

Timestamps == 0 .. now + MaxAhead

\* Stats: the registry entry is replaced; queue and broadcast follow.
StatsReceived(h, ts) ==
  LET n == NodeOf[h] IN
  /\ CanReceive(h)
  /\ msgs' = msgs + 1
  /\ registry' = [registry EXCEPT ![n] =
                    [status |-> "online", seen |-> ts, stats |-> msgs + 1]]
  /\ heard' = [heard EXCEPT ![n] = now]
  /\ handler' = [handler EXCEPT ![h] =
       [next |-> "enqueue",
        item |-> [stream |-> h, node |-> n, kind |-> "stats", id |-> msgs + 1, ts |-> ts]]]
  /\ UNCHANGED <<now, arrived, queue, dropped, workVars, checker, dbVars, apiVars, startVars>>

\* Heartbeat: refreshes a known node only; the database is not told.
HeartbeatReceived(h, ts) ==
  LET n == NodeOf[h] IN
  /\ CanReceive(h)
  /\ msgs' = msgs + 1
  /\ registry' = IF registry[n].status = "absent" THEN registry
                 ELSE [registry EXCEPT ![n].seen = ts, ![n].status = "online"]
  /\ heard' = [heard EXCEPT ![n] = now]
  /\ UNCHANGED <<now, handler, arrived, queue, dropped, workVars, checker, dbVars,
                 apiVars, startVars>>

\* ProbeResult: stamped with the server's time and queued.
ProbeReceived(h) ==
  LET n == NodeOf[h] IN
  /\ CanReceive(h)
  /\ msgs' = msgs + 1
  /\ handler' = [handler EXCEPT ![h] =
       [next |-> "enqueue",
        item |-> [stream |-> h, node |-> n, kind |-> "probe", id |-> msgs + 1, ts |-> now]]]
  /\ UNCHANGED <<now, arrived, heard, memVars, workVars, checker, dbVars, apiVars, startVars>>

\* Variant: items go to whichever worker has room.
SendToAnyWorker(h) ==
  LET item == handler[h].item IN
  /\ handler[h].next = "enqueue"
  /\ arrived' = [arrived EXCEPT ![item.node] = @ + 1]
  /\ \E w \in Workers : Len(queue[w]) < QueueCap /\ queue' = [queue EXCEPT ![w] = Append(@, item)]
  /\ handler' = [handler EXCEPT ![h] =
       IF item.kind = "stats" THEN [@ EXCEPT !.next = "broadcast"]
       ELSE [next |-> "recv", item |-> NoItem]]
  /\ UNCHANGED <<now, msgs, heard, registry, dropped, workVars, checker, dbVars, apiVars, startVars>>

\* Variant: a full queue loses its oldest item, and nothing is counted.
SendEvicting(h) ==
  LET item == handler[h].item
      w == ShardOf[item.node]
  IN
  /\ handler[h].next = "enqueue"
  /\ arrived' = [arrived EXCEPT ![item.node] = @ + 1]
  /\ queue' = [queue EXCEPT ![w] =
                 Append(IF Len(@) < QueueCap THEN @ ELSE Tail(@), item)]
  /\ handler' = [handler EXCEPT ![h] =
       IF item.kind = "stats" THEN [@ EXCEPT !.next = "broadcast"]
       ELSE [next |-> "recv", item |-> NoItem]]
  /\ UNCHANGED <<now, msgs, heard, registry, dropped, workVars, checker, dbVars, apiVars, startVars>>

\* send_to_worker: try_send to the shard of the node, or drop and count.
SendToWorker(h) ==
  LET item == handler[h].item
      w == ShardOf[item.node]
      room == Len(queue[w]) < QueueCap
  IN
  /\ handler[h].next = "enqueue"
  /\ arrived' = [arrived EXCEPT ![item.node] = @ + 1]
  /\ queue' = IF room THEN [queue EXCEPT ![w] = Append(@, item)] ELSE queue
  /\ dropped' = IF room THEN dropped ELSE [dropped EXCEPT ![item.node] = @ + 1]
  /\ handler' = [handler EXCEPT ![h] =
       IF item.kind = "stats" THEN [@ EXCEPT !.next = "broadcast"]
       ELSE [next |-> "recv", item |-> NoItem]]
  /\ UNCHANGED <<now, msgs, heard, registry, workVars, checker, dbVars, apiVars, startVars>>

\* broadcast_tx.send: WsFanout follows the update from here.
BroadcastStats(h) ==
  /\ handler[h].next = "broadcast"
  /\ handler' = [handler EXCEPT ![h] = [next |-> "recv", item |-> NoItem]]
  /\ UNCHANGED <<now, msgs, arrived, heard, memVars, workVars, checker, dbVars, apiVars, startVars>>

-----------------------------------------------------------------------------
(* The ingestion workers and their database calls.                         *)

\* upsert_node: create or overwrite the row, stamped with the server's time.
UpsertNode(n, status) ==
  nodeRows' = [nodeRows EXCEPT ![n] = [status |-> status, seen |-> now]]

\* The foreign keys of snapshots and probe_results.
HasRow(n) == nodeRows[n].status # "absent"

\* What an insert for node n may do: a failed call may have been carried out,
\* when only its answer was lost.
InsertOutcomes(n) ==
  {o \in [stored : BOOLEAN, error : BOOLEAN] :
     /\ o.stored \/ o.error
     /\ o.stored => HasRow(n)
     /\ o.error => DbMayFail \/ ~HasRow(n)}

WorkerTakes(w) ==
  /\ worker[w].next = "recv"
  /\ queue[w] # <<>>
  /\ worker' = [worker EXCEPT ![w] =
       [next |-> IF Head(queue[w]).kind = "stats" THEN "upsert" ELSE "probe",
        item |-> Head(queue[w])]]
  /\ queue' = [queue EXCEPT ![w] = Tail(@)]
  /\ UNCHANGED <<now, netVars, registry, dropped, vmInFlight, dbErrors, checker, dbVars, apiVars, startVars>>

\* Variant: an error ends the worker's loop.
WorkerUpsertsOrEnds(w) ==
  /\ worker[w].next = "upsert"
  /\ \/ /\ UpsertNode(worker[w].item.node, "online")
        /\ worker' = [worker EXCEPT ![w].next = "insert"]
     \/ /\ DbMayFail
        /\ worker' = [worker EXCEPT ![w].next = "ended"]
        /\ UNCHANGED nodeRows
  /\ UNCHANGED <<now, netVars, memVars, vmInFlight, dbErrors, checker, snaps, probeRows, apiVars, startVars>>

\* The node is marked online; an error is logged and the insert still tried.
WorkerUpserts(w) ==
  /\ worker[w].next = "upsert"
  /\ worker' = [worker EXCEPT ![w].next = "insert"]
  /\ \/ UpsertNode(worker[w].item.node, "online")
     \/ DbMayFail /\ UNCHANGED nodeRows
  /\ UNCHANGED <<now, netVars, memVars, vmInFlight, dbErrors, checker, snaps, probeRows, apiVars, startVars>>

\* insert_snapshot succeeds, or fails and is only logged.
WorkerInserts(w) ==
  LET item == worker[w].item IN
  /\ worker[w].next = "insert"
  /\ worker' = [worker EXCEPT ![w].next = "push"]
  /\ \E o \in InsertOutcomes(item.node) :
       /\ snaps' = IF o.stored THEN [snaps EXCEPT ![item.node] = Append(@, item)] ELSE snaps
       /\ dbErrors' = IF o.error THEN [dbErrors EXCEPT ![item.node] = @ + 1] ELSE dbErrors
  /\ UNCHANGED <<now, netVars, memVars, vmInFlight, checker, nodeRows, probeRows,
                 apiVars, startVars>>

\* Variant: the push is spawned without a permit.
PushUnbounded(w) ==
  /\ worker[w].next = "push"
  /\ worker' = [worker EXCEPT ![w] = [next |-> "recv", item |-> NoItem]]
  /\ vmInFlight' = vmInFlight + 1
  /\ UNCHANGED <<now, netVars, memVars, dbErrors, checker, dbVars, apiVars, startVars>>

\* The VictoriaMetrics push runs in a task of its own if a permit is free
\* and is skipped otherwise.
WorkerPushes(w) ==
  /\ worker[w].next = "push"
  /\ worker' = [worker EXCEPT ![w] = [next |-> "recv", item |-> NoItem]]
  /\ vmInFlight' = IF vmInFlight < VmPermits THEN vmInFlight + 1 ELSE vmInFlight
  /\ UNCHANGED <<now, netVars, memVars, dbErrors, checker, dbVars, apiVars, startVars>>

\* A push answers, fails or times out; its task ends and frees the permit.
VmPushEnds ==
  /\ vmInFlight > 0
  /\ vmInFlight' = vmInFlight - 1
  /\ UNCHANGED <<now, netVars, memVars, worker, dbErrors, checker, dbVars, apiVars, startVars>>

\* insert_probe_result
WorkerProbes(w) ==
  LET n == worker[w].item.node IN
  /\ worker[w].next = "probe"
  /\ worker' = [worker EXCEPT ![w] = [next |-> "recv", item |-> NoItem]]
  /\ \E o \in InsertOutcomes(n) :
       /\ probeRows' = IF o.stored THEN [probeRows EXCEPT ![n] = @ + 1] ELSE probeRows
       /\ dbErrors' = IF o.error THEN [dbErrors EXCEPT ![n] = @ + 1] ELSE dbErrors
  /\ UNCHANGED <<now, netVars, memVars, vmInFlight, checker, nodeRows, snaps,
                 apiVars, startVars>>

-----------------------------------------------------------------------------
(* The liveness checker.                                                   *)

TimedOut(n) ==
  registry[n].status = "online" /\ now - registry[n].seen > OfflineAfter

\* The orders in which the scan of the map may come upon its entries.
Orders(S) == UNION {Bijection(1 .. k, S) : k \in 0 .. Cardinality(Nodes)}

\* A tick: every timed out entry becomes offline and is noted.
CheckerScans ==
  /\ checker.next = "tick"
  /\ \E n \in Nodes : TimedOut(n)
  /\ registry' = [n \in Nodes |->
       IF TimedOut(n) THEN [registry[n] EXCEPT !.status = "offline"] ELSE registry[n]]
  /\ \E order \in Orders({n \in Nodes : TimedOut(n)}) :
       checker' = [next |-> "upsert", todo |-> order]
  /\ UNCHANGED <<now, netVars, queue, dropped, workVars, dbVars, apiVars, startVars>>

\* Variant: a database error ends the checker's task.
CheckerUpsertsOrEnds ==
  /\ checker.next = "upsert"
  /\ \/ /\ UpsertNode(Head(checker.todo), "offline")
        /\ checker' = [checker EXCEPT !.next = "broadcast"]
     \/ /\ DbMayFail
        /\ UNCHANGED nodeRows
        /\ checker' = [checker EXCEPT !.next = "ended"]
  /\ UNCHANGED <<now, netVars, memVars, workVars, snaps, probeRows, apiVars, startVars>>

\* The first noted transition is persisted; a failure is only logged.
CheckerUpserts ==
  /\ checker.next = "upsert"
  /\ checker' = [checker EXCEPT !.next = "broadcast"]
  /\ \/ UpsertNode(Head(checker.todo), "offline")
     \/ DbMayFail /\ UNCHANGED nodeRows
  /\ UNCHANGED <<now, netVars, memVars, workVars, snaps, probeRows, apiVars, startVars>>

\* ... and broadcast: WsFanout follows the update from here.
CheckerBroadcasts ==
  LET rest == Tail(checker.todo) IN
  /\ checker.next = "broadcast"
  /\ checker' = [next |-> IF rest = <<>> THEN "tick" ELSE "upsert", todo |-> rest]
  /\ UNCHANGED <<now, netVars, memVars, workVars, dbVars, apiVars, startVars>>

-----------------------------------------------------------------------------
(* Crash and restart.                                                      *)

\* Variant: a node is loaded only through its snapshots (an inner join).
LoadJoined(n) ==
  IF snaps[n] = <<>> THEN {Absent}
  ELSE {[status |-> nodeRows[n].status, seen |-> nodeRows[n].seen, stats |-> s.id] :
          s \in Range(snaps[n])}

\* get_all_nodes and NodeRow -> NodeInfo: the row, and the stored snapshot
\* with the latest timestamp.
LoadNode(n) ==
  IF ~HasRow(n) THEN {Absent}
  ELSE {[status |-> nodeRows[n].status, seen |-> nodeRows[n].seen, stats |-> st] :
          st \in IF snaps[n] = <<>> THEN {0}
                 ELSE {s.id : s \in {x \in Range(snaps[n]) :
                                       \A y \in Range(snaps[n]) : y.ts <= x.ts}}}

\* The process dies with its memory and comes back; the registry is loaded
\* from the database, or left empty when the query fails.
Restart ==
  /\ restarts < MaxRestarts
  /\ now <= LastEvent
  /\ restarts' = restarts + 1
  /\ \/ /\ registry' \in {r \in [Nodes -> UNION {LoadNode(n) : n \in Nodes}] :
                            \A n \in Nodes : r[n] \in LoadNode(n)}
        /\ loadFailed' = FALSE
     \/ /\ DbMayFail
        /\ registry' = [n \in Nodes |-> Absent]
        /\ loadFailed' = TRUE
  /\ handler' = [h \in Streams |-> [next |-> "recv", item |-> NoItem]]
  /\ queue' = [w \in Workers |-> <<>>]
  /\ worker' = [w \in Workers |-> [next |-> "recv", item |-> NoItem]]
  /\ vmInFlight' = 0
  /\ checker' = [next |-> "tick", todo |-> <<>>]
  /\ lookup' = NoLookup
  /\ dropped' = [n \in Nodes |-> 0]
  /\ dbErrors' = [n \in Nodes |-> 0]
  /\ arrived' = [n \in Nodes |-> Len(snaps[n]) + probeRows[n]]
  /\ UNCHANGED <<now, msgs, heard, lookups, dbVars>>

-----------------------------------------------------------------------------
(* GET /api/v1/nodes/{id} for a node that is not in the registry.  Other   *)
(* reads change nothing.                                                   *)

LookupMisses(n) ==
  /\ lookup.next = "idle"
  /\ lookups < MaxLookups
  /\ now <= LastEvent
  /\ registry[n].status = "absent"
  /\ lookup' = [next |-> "query", node |-> n, found |-> Absent]
  /\ lookups' = lookups + 1
  /\ UNCHANGED <<now, netVars, memVars, workVars, checker, dbVars, startVars>>

\* The row is read, or the request ends with 404 or 500.
LookupQueries ==
  /\ lookup.next = "query"
  /\ now <= LastEvent
  /\ \/ /\ HasRow(lookup.node)
        /\ \E info \in LoadNode(lookup.node) :
             lookup' = [lookup EXCEPT !.next = "insert", !.found = info]
     \/ /\ DbMayFail \/ ~HasRow(lookup.node)
        /\ lookup' = NoLookup
  /\ UNCHANGED <<now, netVars, memVars, workVars, checker, lookups, dbVars, startVars>>

\* The registry entry is replaced by the row, whatever it is by now.
LookupInserts ==
  /\ lookup.next = "insert"
  /\ now <= LastEvent
  /\ registry' = [registry EXCEPT ![lookup.node] = lookup.found]
  /\ lookup' = NoLookup
  /\ UNCHANGED <<now, netVars, queue, dropped, workVars, checker, lookups, dbVars,
                 startVars>>

-----------------------------------------------------------------------------
Tick ==
  /\ now < MaxTime
  /\ now' = now + 1
  /\ UNCHANGED <<netVars, memVars, workVars, checker, dbVars, apiVars, startVars>>

-----------------------------------------------------------------------------
Handler(h) ==
  \/ \E ts \in Timestamps : StatsReceived(h, ts) \/ HeartbeatReceived(h, ts)
  \/ ProbeReceived(h)
  \/ SendToWorker(h)
  \/ BroadcastStats(h)

Worker(w) ==
  \/ WorkerTakes(w) \/ WorkerUpserts(w) \/ WorkerInserts(w)
  \/ WorkerPushes(w) \/ WorkerProbes(w)

Checker == CheckerScans \/ CheckerUpserts \/ CheckerBroadcasts

Lookup == (\E n \in Nodes : LookupMisses(n)) \/ LookupQueries \/ LookupInserts

Next ==
  \/ \E h \in Streams : Handler(h)
  \/ \E w \in Workers : Worker(w)
  \/ VmPushEnds
  \/ Checker
  \/ Lookup
  \/ Restart
  \/ Tick

Spec == Init /\ [][Next]_vars

\* Tasks that can run do, database calls return and time passes.  Messages,
\* answers from VictoriaMetrics and crashes need not happen.
Fairness ==
  /\ WF_vars(Tick)
  /\ WF_vars(Checker)
  /\ \A h \in Streams : WF_vars(SendToWorker(h) \/ BroadcastStats(h))
  /\ \A w \in Workers : WF_vars(Worker(w))

FairSpec == Spec /\ Fairness

-----------------------------------------------------------------------------
(* Properties.                                                             *)

\* The snapshots of a stream are stored in the order they were received:
\* a node always goes to the same worker and a worker takes one item at a
\* time, whatever is dropped, refused or interleaved with other streams.
StorageKeepsStreamOrder ==
  \A n \in Nodes : \A i, j \in DOMAIN snaps[n] :
    i < j /\ snaps[n][i].stream = snaps[n][j].stream
      => snaps[n][i].id < snaps[n][j].id

\* The places in the queues.
Places == UNION {{w} \X DOMAIN queue[w] : w \in Workers}

Queued(n) == {p \in Places : queue[p[1]][p[2]].node = n}

InHand(n) ==
  {w \in Workers : worker[w].next \in {"upsert", "insert", "probe"}
                    /\ worker[w].item.node = n}

Pending(n) == Cardinality(Queued(n)) + Cardinality(InHand(n))

\* Nothing is lost unnoticed and nothing is stored twice: what send_to_worker
\* was given is queued, in a worker's hands or stored, at most once, or else
\* counted by INGESTION_DROPS or as a failed insert.
EveryItemAccountedFor ==
  \A n \in Nodes :
    LET kept == Pending(n) + Len(snaps[n]) + probeRows[n] IN
    kept <= arrived[n] /\ arrived[n] <= kept + dropped[n] + dbErrors[n]

\* A node of the database is known to the server, unless its last start could
\* not load the registry: rows come only from items whose handler registered
\* the node first, and a lookup that races with a handler or a restart
\* removes nothing.
DatabaseNodesAreKnown ==
  loadFailed \/ \A n \in Nodes : HasRow(n) => registry[n].status # "absent"

InWork(id) ==
  \E w \in Workers :
    \/ \E i \in DOMAIN queue[w] : queue[w][i].id = id
    \/ worker[w].item.id = id

\* A worker gets to the end of every item its queue accepted, even if no
\* VictoriaMetrics push ever answers.
AcceptedIsProcessed == \A id \in 1 .. MaxMsgs : InWork(id) ~> ~InWork(id)

\* A node that falls silent is, in the registry, offline in the end: also
\* one the server knows from its database only, and across restarts.
SilentNodeGoesOffline ==
  <>[](\A n \in Nodes : registry[n].status # "online")

\* "marks inactive agents `offline` in the database" (README.md): a node that
\* falls silent is offline in the database in the end.
SilentNodeOfflineInDatabase ==
  <>[](\A n \in Nodes : nodeRows[n].status # "online")

\* "checks node heartbeats and marks inactive agents" (README.md): a node the
\* server has heard from within the timeout is not marked offline.
OnlyInactiveGoOffline ==
  [][\A n \in Nodes :
       registry[n].status = "online" /\ registry'[n].status = "offline"
         => now - heard[n] > OfflineAfter]_vars
=============================================================================
